------------------------------ MODULE GdbStub ------------------------------
(***************************************************************************)
(* The GDB stub (gdbserver/gdbserver.cpp), the run loop that stops for it  *)
(* (kvm.cpp), and a client that speaks the remote protocol the way gdb     *)
(* does.  A frame $...#cc is one message with a flag for its checksum; an  *)
(* acknowledgement, a refusal and an interrupt request are one character   *)
(* each.  The client never uses the sequence identifiers getpacket knows.  *)
(* The guest executes instructions 0..N-1 in a circle.                     *)
(***************************************************************************)
EXTENDS Integers, Sequences

CONSTANTS General,                  \* registers of kvm_regs
          Segments,                 \* selectors of kvm_sregs
          N,                        \* values of a register, and instructions
          Asks,                     \* the requests the client makes
          MaxRequests,              \* bound: requests in a run
          MaxFaults                 \* bound: garbled frames and interrupt requests

Values == 0..(N - 1)
Registers == General \cup Segments
RegisterFile == [Registers -> Values]

(***************************************************************************)
(* Requests.  "bad" marks one whose arguments do not parse, or that names  *)
(* a register that does not exist; "overlong" is any packet that does not  *)
(* fit into remcomInBuffer.  M plants or removes a breakpoint instruction; *)
(* qRcmd is the regs command, an unknown one is answered like "other".     *)
(***************************************************************************)
Requests ==
  [op : {"?", "d", "g", "s", "c", "k", "qRcmd", "other", "overlong"}]
    \cup [op : {"p", "P", "m", "M"}, bad : {TRUE}]
    \cup [op : {"p"}, reg : Registers]
    \cup [op : {"P"}, reg : Registers, val : Values]
    \cup [op : {"G"}, regs : RegisterFile]
    \cup [op : {"m"}, addr : Values]
    \cup [op : {"M"}, addr : Values, int3 : BOOLEAN]

ASSUME GdbAssumption ==
  /\ General \cap Segments = {}
  /\ "RIP" \in General
  /\ N \in Nat \ {0}
  /\ Asks \subseteq Requests
  /\ MaxRequests \in Nat
  /\ MaxFaults \in Nat

VARIABLES phase,                    \* where the vCPU thread is
          vcpu,                     \* the guest's registers
          memory,                   \* the guest's code: which places hold an int3
          registers,                \* the stub's copy of the registers
          singlestep,               \* guest_debug.control has SINGLESTEP
          remcomOutBuffer,          \* the packet putpacket sends until acknowledged
          toStub, toClient,         \* the connection, one sequence a direction
          connected,                \* the client's end is open
          cphase,                   \* where the client is
          request,                  \* what it asked last
          view,                     \* what it learnt of the registers in this stop
          asked, served,             \* history: requests sent, and taken by the stub
          faults                    \* history: faults so far

guest == <<vcpu, memory>>
client == <<cphase, request, view, asked>>
gdbVars == <<phase, guest, registers, singlestep, remcomOutBuffer, toStub, toClient,
             connected, client, served, faults>>

Unknown == -1                       \* no register value
Ack == [kind |-> "+"]
Nak == [kind |-> "-"]
Break == [kind |-> "break"]
Frame(n, body) == [kind |-> "frame", n |-> n, body |-> body, good |-> TRUE]

IsBad(r) == "bad" \in DOMAIN r

(***************************************************************************)
(* gdb_submit_registers has filled the copy before the server starts; the  *)
(* server then waits in accept.                                            *)
(***************************************************************************)
GdbInit ==
  /\ phase = "accept"
  /\ vcpu = [r \in Registers |-> 0]
  /\ memory = [a \in Values |-> FALSE]
  /\ registers = vcpu
  /\ singlestep = FALSE
  /\ remcomOutBuffer = [op |-> "empty"]
  /\ toStub = << >>
  /\ toClient = << >>
  /\ connected = TRUE
  /\ cphase = "stop"
  /\ request = [op |-> "c"]
  /\ view = [r \in Registers |-> Unknown]
  /\ asked = 0
  /\ served = 0
  /\ faults = 0

-----------------------------------------------------------------------------
\* putpacket up to its wait for an acknowledgement; before it, other output.
putpacket(n, before, body, next) ==
  /\ remcomOutBuffer' = body
  /\ toClient' = toClient \o before \o <<Frame(n, body)>>
  /\ phase' = next

\* mutant: the program counter after the breakpoint instruction is reported.
stop_packet_late(regs) == [op |-> "T", rip |-> regs["RIP"] + 1]

\* T reports the program counter of the copy.
stop_packet(regs) == [op |-> "T", rip |-> regs["RIP"]]

gdbserver_start ==
  /\ phase = "accept"
  /\ UNCHANGED <<guest, registers, singlestep, toStub, connected, client, served, faults>>
  /\ putpacket(served, << >>, stop_packet(registers), "notify")

\* Where putpacket returns to.
after_putpacket == IF phase = "bye" THEN "ended" ELSE "serve"

\* mutant: a refused packet is not sent again.
putpacket_wait_once ==
  /\ phase \in {"notify", "reply", "bye"}
  /\ toStub # << >>
  /\ toStub' = Tail(toStub)
  /\ phase' = after_putpacket
  /\ UNCHANGED <<guest, registers, singlestep, remcomOutBuffer, toClient, connected,
                 client, served, faults>>

\* while(getDebugChar() != '+'): anything else makes it send the packet again.
putpacket_wait ==
  /\ phase \in {"notify", "reply", "bye"}
  /\ toStub # << >>
  /\ toStub' = Tail(toStub)
  /\ IF Head(toStub) = Ack
       THEN phase' = after_putpacket /\ UNCHANGED <<remcomOutBuffer, toClient>>
       ELSE putpacket(served, << >>, remcomOutBuffer, phase)
  /\ UNCHANGED <<guest, registers, singlestep, connected, client, served, faults>>

(***************************************************************************)
(* At end of file getDebugChar returns an uninitialised character: it may  *)
(* pass for an acknowledgement or not, and sending again may end the       *)
(* process.  (getpacket reads such characters for ever.)                   *)
(***************************************************************************)
putpacket_eof ==
  /\ phase \in {"notify", "reply", "bye"}
  /\ ~connected
  /\ toStub = << >>
  /\ phase' \in {after_putpacket, "ended"}
  /\ UNCHANGED <<guest, registers, singlestep, remcomOutBuffer, toStub, toClient,
                 connected, client, served, faults>>

-----------------------------------------------------------------------------
\* mutant: the vCPU keeps its own registers.
kvm_load_registers_from_gdbcache_skipped(cache) == vcpu

\* Only the registers of kvm_regs are handed to the vCPU.
kvm_load_registers_from_gdbcache(cache) ==
  [r \in Registers |-> IF r \in General THEN cache[r] ELSE vcpu[r]]

\* mutant: the output buffer is not emptied before a request.
answer_stale(r) ==
  CASE IsBad(r)                   -> [op |-> "E"]
    [] r.op = "?"                 -> [op |-> "S"]
    [] r.op = "qRcmd"             -> [op |-> "text"]
    [] r.op = "g"                 -> [op |-> "g", regs |-> registers]
    [] r.op = "p" /\ ~IsBad(r)    -> [op |-> "p", val |-> registers[r.reg]]
    [] r.op = "m" /\ ~IsBad(r)    -> [op |-> "m", int3 |-> memory[r.addr]]
    [] r.op \in {"G", "P", "M"} /\ ~IsBad(r) -> [op |-> "OK"]
    [] r.op \in {"d", "other"}    -> remcomOutBuffer

answer(r) ==
  CASE IsBad(r)                   -> [op |-> "E"]
    [] r.op = "?"                 -> [op |-> "S"]
    [] r.op = "qRcmd"             -> [op |-> "text"]
    [] r.op = "g"                 -> [op |-> "g", regs |-> registers]
    [] r.op = "p" /\ ~IsBad(r)    -> [op |-> "p", val |-> registers[r.reg]]
    [] r.op = "m" /\ ~IsBad(r)    -> [op |-> "m", int3 |-> memory[r.addr]]
    [] r.op \in {"G", "P", "M"} /\ ~IsBad(r) -> [op |-> "OK"]
    [] r.op \in {"d", "other"}    -> [op |-> "empty"]

set_registers(r) ==
  LET cache == IF r.op = "G" THEN r.regs ELSE [registers EXCEPT ![r.reg] = r.val]
  IN  /\ registers' = cache
      /\ vcpu' = kvm_load_registers_from_gdbcache(cache)

\* A request that is answered.
process_request(r) ==
  /\ r.op \notin {"s", "c", "k"}
  /\ IF r.op \in {"G", "P"} /\ ~IsBad(r) THEN set_registers(r)
                                         ELSE UNCHANGED <<registers, vcpu>>
  /\ memory' = IF r.op = "M" /\ ~IsBad(r) THEN [memory EXCEPT ![r.addr] = r.int3]
                                          ELSE memory
  /\ UNCHANGED singlestep
  /\ putpacket(served', <<Ack>>, answer(r), "reply")

\* mutant: continuing does not clear the flag.
kvm_debug_set_step_sticky(enable) == singlestep' = (singlestep \/ enable)

kvm_debug_set_step(enable) == singlestep' = enable

\* A request that leaves the stub.
process_resume(r) ==
  /\ r.op \in {"s", "c", "k"}
  /\ IF r.op = "k" THEN UNCHANGED singlestep ELSE kvm_debug_set_step(r.op = "s")
  /\ phase' = IF r.op = "k" THEN "ended" ELSE "run"
  /\ toClient' = Append(toClient, Ack)
  /\ UNCHANGED <<guest, registers, remcomOutBuffer>>

getpacket(msg) ==
  CASE msg.kind # "frame" \/ (msg.kind = "frame" /\ msg.body.op = "overlong") ->
         UNCHANGED <<phase, guest, registers, singlestep, remcomOutBuffer, toClient, served>>
    [] msg.kind = "frame" /\ msg.body.op # "overlong" /\ ~msg.good ->
         /\ toClient' = Append(toClient, Nak)
         /\ UNCHANGED <<phase, guest, registers, singlestep, remcomOutBuffer, served>>
    [] OTHER ->
         /\ served' = msg.n
         /\ process_request(msg.body) \/ process_resume(msg.body)

gdbserver_handle_exception ==
  /\ phase = "serve"
  /\ toStub # << >>
  /\ toStub' = Tail(toStub)
  /\ getpacket(Head(toStub))
  /\ UNCHANGED <<connected, client, faults>>

-----------------------------------------------------------------------------
\* KVM_EXIT_DEBUG: the copy is refreshed, and rip set to what KVM reports.
kvm_handle_debug_exit(regs, pc) ==
  /\ registers' = [regs EXCEPT !["RIP"] = pc]
  /\ putpacket(served, << >>, stop_packet(registers'), "notify")

(***************************************************************************)
(* One instruction of the guest, and the exit it may cause: an int3 stops  *)
(* the guest before it, single stepping after every other instruction.     *)
(***************************************************************************)
KVM_RUN ==
  /\ phase = "run"
  /\ LET here == vcpu["RIP"]
         next == [vcpu EXCEPT !["RIP"] = (here + 1) % N]
     IN  \/ /\ memory[here]
            /\ UNCHANGED vcpu
            /\ kvm_handle_debug_exit(vcpu, here)
         \/ /\ ~memory[here]
            /\ vcpu' = next
            /\ IF singlestep
                 THEN kvm_handle_debug_exit(next, next["RIP"])
                 ELSE UNCHANGED <<phase, registers, remcomOutBuffer, toClient>>
  /\ UNCHANGED <<memory, singlestep, toStub, connected, client, served, faults>>

\* HLT, a triple fault or an error: the client is told and the monitor ends.
final_exit ==
  /\ phase = "run"
  /\ putpacket(served, << >>, [op |-> "X"], "bye")
  /\ UNCHANGED <<guest, registers, singlestep, toStub, connected, client, served, faults>>

Stub ==
  \/ gdbserver_start
  \/ putpacket_wait
  \/ putpacket_eof
  \/ gdbserver_handle_exception
  \/ KVM_RUN

-----------------------------------------------------------------------------
(***************************************************************************)
(* The client (external).  It acknowledges the packets it waits for, asks  *)
(* again for a garbled one, repeats a refused request, and ignores packets *)
(* that arrive while it waits for an acknowledgement.                      *)
(***************************************************************************)
client_ask(r) ==
  /\ cphase = "idle"
  /\ asked < MaxRequests
  /\ asked' = asked + 1
  /\ request' = r
  /\ toStub' = Append(toStub, Frame(asked', r))
  /\ cphase' = "ack"
  /\ UNCHANGED <<phase, guest, registers, singlestep, remcomOutBuffer, toClient,
                 connected, view, served, faults>>

learnt(body) ==
  CASE body.op = "T" -> [[r \in Registers |-> Unknown] EXCEPT !["RIP"] = body.rip]
    [] body.op = "g" -> body.regs
    [] body.op = "p" -> [view EXCEPT ![request.reg] = body.val]
    [] body.op = "OK" /\ request.op = "G" -> request.regs
    [] body.op = "OK" /\ request.op = "P" -> [view EXCEPT ![request.reg] = request.val]
    [] OTHER -> view

client_receive_packet(msg) ==
  /\ cphase \in {"stop", "reply"}
  /\ CASE msg.kind # "frame" ->
            UNCHANGED <<toStub, cphase, view>>
       [] msg.kind = "frame" /\ ~msg.good ->
            toStub' = Append(toStub, Nak) /\ UNCHANGED <<cphase, view>>
       [] msg.kind = "frame" /\ msg.good ->
            /\ toStub' = Append(toStub, Ack)
            /\ cphase' = IF msg.body.op = "X" THEN "gone" ELSE "idle"
            /\ view' = learnt(msg.body)

client_receive_ack(msg) ==
  /\ cphase = "ack"
  /\ CASE msg = Ack -> /\ cphase' = CASE request.op \in {"s", "c"} -> "stop"
                                      [] request.op = "k" -> "gone"
                                      [] OTHER -> "reply"
                       /\ UNCHANGED toStub
       [] msg = Nak -> toStub' = Append(toStub, Frame(asked, request)) /\ UNCHANGED cphase
       [] OTHER     -> UNCHANGED <<toStub, cphase>>
  /\ UNCHANGED view

client_receive ==
  /\ toClient # << >>
  /\ toClient' = Tail(toClient)
  /\ client_receive_packet(Head(toClient)) \/ client_receive_ack(Head(toClient))
  /\ UNCHANGED <<phase, guest, registers, singlestep, remcomOutBuffer, connected,
                 request, asked, served, faults>>

\* Nobody acknowledges an overlong packet: the client's timer expires.
client_timeout ==
  /\ cphase = "ack"
  /\ request.op = "overlong"
  /\ cphase' = "idle"
  /\ UNCHANGED <<phase, guest, registers, singlestep, remcomOutBuffer, toStub, toClient,
                 connected, request, view, asked, served, faults>>

Client == client_receive \/ client_timeout

\* The user interrupts a running guest: nobody reads it before the next stop.
client_interrupt ==
  /\ cphase = "stop"
  /\ faults < MaxFaults
  /\ faults' = faults + 1
  /\ toStub' = Append(toStub, Break)
  /\ UNCHANGED <<phase, guest, registers, singlestep, remcomOutBuffer, toClient,
                 connected, client, served>>

client_disconnect ==
  /\ cphase # "gone"
  /\ cphase' = "gone"
  /\ connected' = FALSE
  /\ UNCHANGED <<phase, guest, registers, singlestep, remcomOutBuffer, toStub, toClient,
                 request, view, asked, served, faults>>

\* A frame in flight loses a character to noise.
garbled(s) == s # << >> /\ Head(s).kind = "frame" /\ Head(s).good
garble(s) == [s EXCEPT ![1].good = FALSE]

noise ==
  /\ faults < MaxFaults
  /\ faults' = faults + 1
  /\ \/ garbled(toStub) /\ toStub' = garble(toStub) /\ UNCHANGED toClient
     \/ garbled(toClient) /\ toClient' = garble(toClient) /\ UNCHANGED toStub
  /\ UNCHANGED <<phase, guest, registers, singlestep, remcomOutBuffer, connected,
                 client, served>>

GdbNext ==
  \/ Stub
  \/ final_exit
  \/ Client
  \/ \E r \in Asks : client_ask(r)
  \/ client_interrupt
  \/ client_disconnect
  \/ noise

(***************************************************************************)
(* The vCPU thread keeps running, and a client that waits for the stub     *)
(* reads what arrives and minds its timer.  What the user asks, and        *)
(* whether the guest ends, is open.                                        *)
(***************************************************************************)
GdbSpec ==
  GdbInit /\ [][GdbNext]_gdbVars /\ WF_gdbVars(Stub) /\ WF_gdbVars(Client)

-----------------------------------------------------------------------------
(***************************************************************************)
(* Types of the stub's state and of the client's view.                     *)
(***************************************************************************)
GdbTypeOK ==
  /\ phase \in {"accept", "notify", "serve", "reply", "run", "bye", "ended"}
  /\ vcpu \in RegisterFile
  /\ memory \in [Values -> BOOLEAN]
  /\ registers \in RegisterFile
  /\ singlestep \in BOOLEAN
  /\ cphase \in {"stop", "idle", "ack", "reply", "gone"}
  /\ request \in Asks \cup {[op |-> "c"]}
  /\ view \in [Registers -> Values \cup {Unknown}]
  /\ served \in 0..asked
  /\ asked \in 0..MaxRequests
  /\ faults \in 0..MaxFaults

\* What the client may get for its request.
Expected(r) ==
  CASE r.op \in {"s", "c"}                   -> {"T", "X"}
    [] "bad" \in DOMAIN r                    -> {"E"}
    [] r.op \in {"G", "P", "M"} /\ ~IsBad(r) -> {"OK"}
    [] r.op \in {"g", "p", "m"} /\ ~IsBad(r) -> {r.op}
    [] OTHER                                 -> {"S", "text", "empty"}

(***************************************************************************)
(* The packet a client takes for the answer to its request is the answer   *)
(* to that request, although putpacket sends a packet again for every      *)
(* character that is no acknowledgement, an interrupt request of the user  *)
(* included, and so may send it more often than it was asked for.          *)
(***************************************************************************)
ReplyMatches ==
  cphase \in {"stop", "reply"} /\ toClient # << >> /\ Head(toClient).kind = "frame" =>
    Head(toClient).n = asked /\ Head(toClient).body.op \in Expected(request)

(***************************************************************************)
(* What the user was shown, or has set, of the general registers is what   *)
(* the guest will resume with (gdb_submit_registers, the G and P packets). *)
(* A selector that the user sets is acknowledged and not loaded.           *)
(***************************************************************************)
ViewTrue ==
  cphase = "idle" =>
    \A r \in General : view[r] # Unknown => view[r] = vcpu[r]

(***************************************************************************)
(* A step executes one instruction and a continue stops at breakpoints     *)
(* only, whatever was resumed or written before (kvm_debug_set_step).      *)
(***************************************************************************)
ResumeHonoured ==
  [][ cphase = "stop" /\ cphase' = "idle" /\ asked > 0 =>
        CASE request.op = "c" -> memory[view'["RIP"]]
          [] request.op = "s" -> \/ view'["RIP"] = (view["RIP"] + 1) % N
                                 \/ memory[view["RIP"]] ]_gdbVars

(***************************************************************************)
(* A client that stays gets its answer, and the report of a step: the two  *)
(* ends never wait for each other, whatever was refused or sent twice.     *)
(***************************************************************************)
EventuallyAnswered ==
  /\ cphase \in {"ack", "reply"} ~> cphase \notin {"ack", "reply"}
  /\ cphase = "stop" /\ request.op = "s" ~> cphase # "stop"
=============================================================================
