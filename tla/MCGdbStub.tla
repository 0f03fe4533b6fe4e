----------------------------- MODULE MCGdbStub -----------------------------
(***************************************************************************)
(* Two general registers and one selector, a guest of three instructions,    *)
(* and a request of every kind.                                            *)
(***************************************************************************)
EXTENDS GdbStub

MCGeneral == {"RIP", "RAX"}
MCSegments == {"CS"}
MCAsks ==
  [op : {"?", "d", "g", "s", "c", "k", "qRcmd", "overlong"}]
    \cup {[op |-> "p", reg |-> "RAX"], [op |-> "P", reg |-> "RAX", val |-> 1],
          [op |-> "P", bad |-> TRUE], [op |-> "m", addr |-> 1],
          [op |-> "M", addr |-> 1, int3 |-> TRUE],
          [op |-> "G", regs |-> [r \in {"RIP", "RAX", "CS"} |-> 1]]}
=============================================================================
