------------------------------ MODULE MCPciBus ------------------------------
(***************************************************************************)
(* Two connected devices, as in initIO, in spaces that end behind the      *)
(* second BAR; the addresses of both BARs, of the end of the second        *)
(* device's space, of another function, an absent device and another bus.  *)
(***************************************************************************)
EXTENDS PciBus

MCReset == [d \in {0, 1} |-> [o \in 0..(CONF_SIZE - 1) |-> d]]
MCGarbage == [bus : {0}, device : {0, 77}, function : {0}, offset : {16, Word - 1}]
MCAddresses == {<<16, 0, 0, 128>>, <<20, 0, 0, 128>>, <<22, 8, 0, 128>>,
                <<16, 1, 0, 128>>, <<16, 40, 0, 128>>, <<16, 0, 1, 128>>}
MCPorts == {96, 496, 503, 1014, 1017, 1021, 3320, 3324, 3327}
MCData == {<<246>>, <<3, 0>>, <<240, 1, 0, 0>>}
=============================================================================
