----------------------------- MODULE DebugServer ----------------------------
(***************************************************************************)
(* The debug server, its TCP framing and its clients.  A thread accepts    *)
(* connections and starts a worker for each; a worker answers requests for *)
(* a memory dump and, last, for the registers.  Each direction of a        *)
(* connection is a queue of framed messages.  A worker that fails takes    *)
(* the whole monitor with it.                                              *)
(***************************************************************************)
EXTENDS Integers, Sequences, SequencesExt

CONSTANTS Clients,
          NULL,                     \* a buffer before the first message
          DumpModulus,              \* 2^32: buf_len of send_data
          Misreads                  \* bound: how often a remainder is misread

VARIABLES debug_serv,               \* "null", "live" or "deleted"
          monitor,                  \* "up", or what ended the process
          link,                     \* "off", "backlog", "worker"
          worker,                   \* where the worker of a connection is
          my_buf,                   \* its receive buffer
          client,                   \* where the client is
          script,                   \* requests the client has still to make
          due,                      \* answers it waits for
          peer,                     \* "open", "closed" or "reset"
          toServer, toClient,       \* the two directions
          asked, shown, torn        \* history: answers due, answers printed,
                                    \* directions a message arrived in pieces

serverVars == <<debug_serv, link, worker, my_buf>>
clientVars == <<client, script, due, asked, shown>>
socketVars == <<peer, toServer, toClient, torn>>
debugVars == <<serverVars, clientVars, socketVars, monitor>>

Message(type, start, end) == [type |-> type, start |-> start, end |-> end]
req_dump_mem(start, end) == Message("REQ_DUMP_MEM", start, end)
req_info == Message("REQ_INFO", 0, 0)
info == Message("SEND_INFO", 0, 0)
regs == Message("REGS", 0, 0)
sregs == Message("SREGS", 0, 0)
\* A buffer that was cleared and not filled: its type reads as WELCOME_MESS.
Blank == Message("WELCOME_MESS", 0, 0)
\* What stays in the stream behind a message that arrived in part: bytes for
\* n more lengths.
Remainder(n) == Message("REMAINDER", n, 0)

MessageTypes == {"REQ_DUMP_MEM", "REQ_INFO", "DUMP", "SEND_INFO", "REGS", "SREGS",
                 "WELCOME_MESS", "HOST_ORDER", "REMAINDER"}
Messages == [type : MessageTypes, start : Nat, end : Nat]

ASSUME NullAssumption == NULL \notin Messages
ASSUME MisreadsAssumption == Misreads \in Nat

\* What a client may ask for.
Requests == {m \in Messages : /\ m.type \in {"REQ_DUMP_MEM", "REQ_INFO"}
                              /\ m.start <= m.end}

DebugInit(scripts) ==
  /\ debug_serv = "null"
  /\ monitor = "up"
  /\ link = [c \in Clients |-> "off"]
  /\ worker = [c \in Clients |-> "none"]
  /\ my_buf = [c \in Clients |-> NULL]
  /\ client = [c \in Clients |-> "off"]
  /\ script = scripts
  /\ due = [c \in Clients |-> << >>]
  /\ peer = [c \in Clients |-> "open"]
  /\ toServer = [c \in Clients |-> << >>]
  /\ toClient = [c \in Clients |-> << >>]
  /\ asked = [c \in Clients |-> << >>]
  /\ shown = [c \in Clients |-> << >>]
  /\ torn = [c \in Clients |-> {}]

(***************************************************************************)
(* A body cut short: without all of its type or, of a request, with what   *)
(* arrived of its addresses, high bytes first (a byte is four bits wide    *)
(* here), the rest cleared.                                                *)
(***************************************************************************)
HighBytes(n) == {0, n - (n % 16)}
Parts(m) ==
  {Blank} \cup
  IF m.type \notin {"REQ_DUMP_MEM", "REQ_INFO"} THEN {}
  ELSE {[m EXCEPT !.start = s, !.end = 0] : s \in HighBytes(m.start)}
         \cup {[m EXCEPT !.end = e] : e \in HighBytes(m.end)}

clear_my_buffer(b) == IF b = NULL THEN NULL ELSE Blank

\* What a buffer may hold when the framing is lost.
Garbled == {Blank, req_dump_mem(0, 0), req_info}

(***************************************************************************)
(* What is left of a torn message is taken for a length: fewer than four   *)
(* bytes of it, zero, one that malloc cannot serve, or one that frames     *)
(* bytes that were never meant as a message, up to all that has arrived.   *)
(***************************************************************************)
Misread(q, old) ==
  LET n == Head(q).start
      rests == {<< >>, Tail(q)}
                 \cup (IF n = 0 THEN {} ELSE {<<Remainder(n - 1)>> \o Tail(q)})
  IN  [ret : {-1}, buf : {old, NULL}, rest : rests]
        \cup [ret : {0}, buf : {clear_my_buffer(old)}, rest : rests]
        \cup [ret : {-1, 1}, buf : Garbled, rest : rests]

(***************************************************************************)
(* recv_data on queue q: the length, then at most that many bytes in one   *)
(* recv.  A whole message; one to three bytes of a length, which is -1     *)
(* with the buffer untouched; a part of the body, which is -1 with the     *)
(* buffer filled as far as it goes; in both cases the rest is left to be   *)
(* read as a length.  At the end of the stream -1 with the buffer          *)
(* untouched; after a connection error 0, because -1 is no less than 4     *)
(* once it is unsigned.                                                    *)
(***************************************************************************)
recv_data(q, end, old) ==
  IF q = << >>
    THEN CASE end = "open"   -> {}
           [] end = "closed" -> {[ret |-> -1, buf |-> old, rest |-> q]}
           [] end = "reset"  -> {[ret |-> 0, buf |-> clear_my_buffer(old), rest |-> q]}
    ELSE IF Head(q).type = "REMAINDER"
      THEN Misread(q, old)
      ELSE {[ret |-> 1, buf |-> Head(q), rest |-> Tail(q)]}
             \cup {[ret |-> -1, buf |-> b, rest |-> <<Remainder(Misreads)>> \o Tail(q)] :
                     b \in {old} \cup Parts(Head(q))}

\* The direction, if this receive left part of a message behind.
Torn(r, direction) ==
  IF r.rest # << >> /\ Head(r.rest).type = "REMAINDER" THEN {direction} ELSE {}

-----------------------------------------------------------------------------
\* The constructor binds the port and start() launches the accepting thread;
\* if the port cannot be opened the exception leaves debug_serv null.
start_server(enabled) ==
  /\ \/ enabled /\ debug_serv' = "live"
     \/ UNCHANGED debug_serv
  /\ UNCHANGED <<link, worker, my_buf, clientVars, socketVars, monitor>>

\* main_fun: accept, then a detached worker for the connection.
main_fun(c) ==
  /\ debug_serv # "null"
  /\ link[c] = "backlog"
  /\ link' = [link EXCEPT ![c] = "worker"]
  /\ worker' = [worker EXCEPT ![c] = "recv"]
  /\ UNCHANGED <<debug_serv, my_buf, clientVars, socketVars, monitor>>

(***************************************************************************)
(* One turn of worker_fun up to the answer.  Only 0 ends it: after -1 the  *)
(* buffer is converted and dispatched again.  A null buffer is a           *)
(* segmentation fault.  A buffer dispatched before is already in host      *)
(* order, so converting it again gives a type nobody knows.                *)
(***************************************************************************)
Converted(b) == [b EXCEPT !.type = IF @ = "WELCOME_MESS" THEN @ ELSE "HOST_ORDER"]

Dispatch(b) == CASE b.type = "REQ_DUMP_MEM" -> "dump"
                 [] b.type = "REQ_INFO"     -> "info"
                 [] OTHER                   -> "returned"

worker_recv(c) ==
  /\ worker[c] = "recv"
  /\ \E r \in recv_data(toServer[c], peer[c], my_buf[c]) :
       /\ toServer' = [toServer EXCEPT ![c] = r.rest]
       /\ torn' = [torn EXCEPT ![c] = @ \cup Torn(r, "request")]
       /\ CASE r.ret = 0 ->
                 /\ worker' = [worker EXCEPT ![c] = "returned"]
                 /\ UNCHANGED <<my_buf, monitor>>
            [] r.ret # 0 /\ r.buf = NULL ->
                 /\ monitor' = "segv"
                 /\ UNCHANGED <<worker, my_buf>>
            [] r.ret # 0 /\ r.buf # NULL ->
                 /\ my_buf' = [my_buf EXCEPT ![c] = r.buf]
                 /\ worker' = [worker EXCEPT ![c] = Dispatch(r.buf)]
                 /\ UNCHANGED monitor
  /\ UNCHANGED <<debug_serv, link, clientVars, peer, toClient>>

(***************************************************************************)
(* send_data: to a client that has gone the data is lost and the next      *)
(* receive fails, or the write raises SIGPIPE, which nobody catches.       *)
(***************************************************************************)
send_data(c, m) ==
  \/ /\ peer[c] = "open"
     /\ toClient' = [toClient EXCEPT ![c] = Append(@, m)]
     /\ UNCHANGED <<peer, monitor>>
  \/ /\ peer[c] # "open"
     /\ peer' = [peer EXCEPT ![c] = "reset"]
     /\ monitor' \in {monitor, "sigpipe"}
     /\ UNCHANGED toClient

\* The worker of c sends m and goes on to the next point.
Answer(c, m, next) ==
  /\ send_data(c, m)
  /\ worker' = [worker EXCEPT ![c] = next]
  /\ UNCHANGED <<debug_serv, link, clientVars, toServer, torn>>

Outside(b, mem_size) == b.start > mem_size \/ b.end > mem_size

\* mutant: the worker serves a single request.
send_dump_mem_once(c, mem_size) ==
  /\ worker[c] = "dump"
  /\ ~Outside(my_buf[c], mem_size)
  /\ Answer(c, Message("DUMP", my_buf[c].start, my_buf[c].end), "returned")
  /\ UNCHANGED my_buf

(***************************************************************************)
(* send_dump_mem: a range inside memory is sent; for any other an error is *)
(* prepared and never sent.  The buffer stays, now in host order.          *)
(***************************************************************************)
send_dump_mem(c, mem_size) ==
  /\ worker[c] = "dump"
  /\ my_buf' = [my_buf EXCEPT ![c] = Converted(@)]
  /\ LET b == my_buf[c]
         size == (b.end - b.start) % DumpModulus
     IN  IF Outside(b, mem_size)
           THEN /\ worker' = [worker EXCEPT ![c] = "recv"]
                /\ UNCHANGED <<debug_serv, link, clientVars, socketVars, monitor>>
           ELSE Answer(c, Message("DUMP", b.start, b.start + size), "recv")

\* send_info: the memory size, then the two register sets, each of which KVM
\* hands out only while no thread is inside KVM_RUN.
send_info(c) ==
  /\ worker[c] = "info"
  /\ Answer(c, info, "get_regs")
  /\ UNCHANGED my_buf

get_regs(c, available) ==
  /\ available
  /\ \/ worker[c] = "get_regs" /\ worker' = [worker EXCEPT ![c] = "get_sregs"]
     \/ worker[c] = "get_sregs" /\ worker' = [worker EXCEPT ![c] = "regs"]
  /\ UNCHANGED <<debug_serv, link, my_buf, clientVars, socketVars, monitor>>

\* mutant: the two register sets are sent in the other order.
send_regs_swapped(c) ==
  /\ UNCHANGED my_buf
  /\ \/ worker[c] = "regs" /\ Answer(c, sregs, "sregs")
     \/ worker[c] = "sregs" /\ Answer(c, regs, "returned")

\* The case falls through to the default: the worker returns and leaves the
\* connection open.
send_regs(c) ==
  /\ UNCHANGED my_buf
  /\ \/ worker[c] = "regs" /\ Answer(c, regs, "sregs")
     \/ worker[c] = "sregs" /\ Answer(c, sregs, "returned")

\* The destructor closes the socket; a second one frees freed memory, which
\* the allocator may or may not notice.
delete_debug_serv ==
  /\ debug_serv' = IF debug_serv = "null" THEN "null" ELSE "deleted"
  /\ monitor' \in IF debug_serv = "deleted" THEN {monitor, "abort"} ELSE {monitor}
  /\ UNCHANGED <<link, worker, my_buf, clientVars, socketVars>>

-----------------------------------------------------------------------------
\* debug_client.cpp: connect, then one request after the other.
connect(c) ==
  /\ client[c] = "off"
  /\ debug_serv = "live" /\ monitor = "up"
  /\ client' = [client EXCEPT ![c] = "idle"]
  /\ link' = [link EXCEPT ![c] = "backlog"]
  /\ UNCHANGED <<debug_serv, worker, my_buf, script, due, asked, shown,
                 socketVars, monitor>>

\* The answers the client reads after a request.
AnswersTo(m) == IF m.type = "REQ_INFO" THEN <<info, regs, sregs>>
                ELSE <<Message("DUMP", m.start, m.end)>>

request(c) ==
  /\ client[c] = "idle"
  /\ script[c] # << >> /\ monitor = "up"
  /\ LET m == Head(script[c])
     IN  /\ toServer' = [toServer EXCEPT ![c] = Append(@, m)]
         /\ due' = [due EXCEPT ![c] = AnswersTo(m)]
         /\ asked' = [asked EXCEPT ![c] = @ \o AnswersTo(m)]
  /\ script' = [script EXCEPT ![c] = Tail(@)]
  /\ client' = [client EXCEPT ![c] = "await"]
  /\ UNCHANGED <<serverVars, shown, peer, toClient, torn, monitor>>

(***************************************************************************)
(* The client's recv_data.  Only the first answer to REQ_INFO is checked   *)
(* for -1; elsewhere the client prints what its buffer holds, which after  *)
(* a failure is the previous answer or a part of one.                      *)
(***************************************************************************)
Printed(c) == IF shown[c] = << >> THEN NULL ELSE Last(shown[c])

Incoming(c) ==
  recv_data(toClient[c], IF monitor = "up" THEN "open" ELSE "closed", Printed(c))

Unchecked(c, r) == r.ret # -1 \/ Head(due[c]) # info

\* A buffer that was never allocated has size 0 and dumps as nothing; any
\* other use of a null buffer is a segmentation fault of the client.
Faults(c, r) == /\ Unchecked(c, r) /\ r.buf = NULL
                /\ Head(due[c]).type # "DUMP" \/ Printed(c) # NULL

receive(c) ==
  /\ client[c] = "await"
  /\ \E r \in Incoming(c) :
       /\ ~Faults(c, r)
       /\ toClient' = [toClient EXCEPT ![c] = r.rest]
       /\ torn' = [torn EXCEPT ![c] = @ \cup Torn(r, "answer")]
       /\ shown' = [shown EXCEPT ![c] = IF Unchecked(c, r) THEN Append(@, r.buf) ELSE @]
       /\ due' = [due EXCEPT ![c] = IF Unchecked(c, r) THEN Tail(@) ELSE << >>]
       /\ client' = [client EXCEPT ![c] = IF due'[c] = << >> THEN "idle" ELSE @]
  /\ UNCHANGED <<serverVars, script, asked, peer, toServer, monitor>>

\* Closing a socket with unread data resets the connection.
Close(c) ==
  peer' = [peer EXCEPT ![c] =
             IF @ = "open" /\ toClient[c] = << >> THEN "closed" ELSE "reset"]

client_fault(c) ==
  /\ client[c] = "await"
  /\ \E r \in Incoming(c) : Faults(c, r)
  /\ client' = [client EXCEPT ![c] = "left"]
  /\ Close(c)
  /\ UNCHANGED <<serverVars, script, due, asked, shown, toServer, toClient,
                 torn, monitor>>

\* The client has made its requests or finds the monitor gone ...
finish(c) ==
  /\ client[c] = "idle"
  /\ script[c] = << >> \/ monitor # "up"
  /\ client' = [client EXCEPT ![c] = "done"]
  /\ Close(c)
  /\ UNCHANGED <<serverVars, script, due, asked, shown, toServer, toClient,
                 torn, monitor>>

\* ... or is stopped in the middle of them.
leave(c) ==
  /\ client[c] \in {"idle", "await"} /\ monitor = "up"
  /\ client' = [client EXCEPT ![c] = "left"]
  /\ Close(c)
  /\ UNCHANGED <<serverVars, script, due, asked, shown, toServer, toClient,
                 torn, monitor>>

ClientStep(c) ==
  connect(c) \/ request(c) \/ receive(c) \/ client_fault(c) \/ finish(c)

ServerStep(c, mem_size) ==
  \/ main_fun(c)
  \/ worker_recv(c)
  \/ send_dump_mem(c, mem_size)
  \/ send_info(c)
  \/ send_regs(c)

=============================================================================
