---------------------------- MODULE MonitorProofs ---------------------------
(***************************************************************************)
(* Proofs about the monitor, for every table and page size, every          *)
(* configuration, every executable and every set of clients: the ways the  *)
(* process ends, what the loader and the boot loader leave in memory, and  *)
(* what a client of the debug server is shown.                             *)
(***************************************************************************)
EXTENDS Monitor, SequenceTheorems, TLAPS

-----------------------------------------------------------------------------
(***************************************************************************)
(* Termination.  The exit handlers are taken off a fixed list, from the    *)
(* back of which each stage of initIO has put one.                         *)
(***************************************************************************)
H0 == << >>
H1 == <<"~ConsoleInput">> \o H0
H2 == <<"~ConsoleOutput">> \o H1
H3 == <<"endIO">> \o H2

Handlers == {"endIO", "~ConsoleOutput", "~ConsoleInput"}

HandlersAt(s) ==
  CASE s = "console_out"          -> H1
    [] s = "atexit"               -> H2
    [] s \in {"signal", "run"}    -> H3
    [] OTHER                      -> H0

Points == {"main", "none", "endIO", "endIO_in", "endIO_delete", "exit", "exited",
           "~ConsoleOutput", "~ConsoleInput"}
EndIO == {"endIO", "endIO_in", "endIO_delete"}
Ends == {"up", "exited", "sigint", "segv", "sigpipe", "abort"}

LifeTypes ==
  /\ pc \in [Threads -> Points]
  /\ pc["main"] # "none"
  /\ handlers \in Seq(Handlers)
  /\ tty \in {"user", "raw"} /\ out_old \in {"user", "raw"}
  /\ in_endIO \in BOOLEAN /\ sigint \in BOOLEAN /\ in_guest \in BOOLEAN
  /\ stage \in Stages
  /\ monitor \in Ends
  /\ debug_serv \in {"null", "live", "deleted"}

(***************************************************************************)
(* While only the main thread terminates, the destructor of ConsoleInput   *)
(* is still to come whenever the terminal is not the user's.               *)
(***************************************************************************)
OrderInv ==
  /\ in_old = "user"
  /\ monitor = "sigint" => ~sigint
  /\ in_endIO => sigint /\ pc["main"] # "main"
  /\ pc["other"] = "none" =>
       /\ handlers \in {H0, H1, H2, H3}
       /\ pc["main"] = "main" => handlers = HandlersAt(stage)
       /\ pc["main"] \in {"main", "exit"} /\ handlers = H0 => tty = "user"
       /\ pc["main"] = "~ConsoleOutput" => handlers = H1
       /\ pc["main"] = "~ConsoleInput" => handlers = H0
       /\ pc["main"] = "endIO_delete" => tty = "user"
       /\ monitor \in {"exited", "abort"} => tty = "user"

(***************************************************************************)
(* Without ctrl+c endIO runs once, as an exit handler, so that the debug   *)
(* server is deleted once.                                                 *)
(***************************************************************************)
OnceInv ==
  /\ ~in_endIO =>
       /\ pc["other"] = "none"
       /\ pc["main"] \in EndIO => handlers = H2 /\ debug_serv # "deleted"
       /\ pc["main"] = "main" => debug_serv # "deleted"
       /\ handlers = H3 => debug_serv # "deleted"
  /\ debug_serv # "null" => cfg.debug
  /\ monitor = "abort" => in_endIO /\ cfg.debug

LifeInv == LifeTypes /\ OrderInv /\ OnceInv

(***************************************************************************)
(* What putting an element before a sequence makes of it.                  *)
(***************************************************************************)
LEMMA Prepend ==
  ASSUME NEW S, NEW h \in Seq(S), NEW x \in S
  PROVE  /\ <<x>> \o h \in Seq(S) /\ <<x>> \o h # << >>
         /\ Head(<<x>> \o h) = x /\ Tail(<<x>> \o h) = h
         /\ Len(<<x>> \o h) = Len(h) + 1
<1> DEFINE s == <<x>> \o h
<1>1. <<x>> \in Seq(S) /\ Len(<<x>>) = 1 /\ Len(h) \in Nat
  OBVIOUS
<1>2. /\ s \in Seq(S) /\ Len(s) = Len(h) + 1 /\ s[1] = x
      /\ \A i \in 1..Len(h) : s[i + 1] = h[i]
  BY <1>1
<1> HIDE DEF s
<1>3. s # << >> /\ Head(s) = x
  BY <1>1, <1>2
<1>4. Tail(s) = h
  BY <1>1, <1>2, <1>3
<1>5. QED
  BY <1>2, <1>3, <1>4 DEF s

(***************************************************************************)
(* The lists differ, and a shorter one is the tail of a longer one.        *)
(***************************************************************************)
LEMMA HandlerLists ==
  /\ H0 \in Seq(Handlers) /\ H1 \in Seq(Handlers)
  /\ H2 \in Seq(Handlers) /\ H3 \in Seq(Handlers)
  /\ H0 = << >> /\ H1 # H0 /\ H2 # H0 /\ H3 # H0 /\ H1 # H2 /\ H1 # H3 /\ H2 # H3
  /\ Head(H1) = "~ConsoleInput" /\ Tail(H1) = H0
  /\ Head(H2) = "~ConsoleOutput" /\ Tail(H2) = H1
  /\ Head(H3) = "endIO" /\ Tail(H3) = H2
<1>1. H0 \in Seq(Handlers) /\ H0 = << >> /\ Len(H0) = 0
  BY DEF H0
<1>2. /\ H1 \in Seq(Handlers) /\ H1 # << >>
      /\ Head(H1) = "~ConsoleInput" /\ Tail(H1) = H0 /\ Len(H1) = Len(H0) + 1
  BY <1>1, Prepend DEF H1, Handlers
<1>3. /\ H2 \in Seq(Handlers) /\ H2 # << >>
      /\ Head(H2) = "~ConsoleOutput" /\ Tail(H2) = H1 /\ Len(H2) = Len(H1) + 1
  BY <1>2, Prepend DEF H2, Handlers
<1>4. /\ H3 \in Seq(Handlers) /\ H3 # << >>
      /\ Head(H3) = "endIO" /\ Tail(H3) = H2 /\ Len(H3) = Len(H2) + 1
  BY <1>3, Prepend DEF H3, Handlers
<1>5. H1 # H2 /\ H1 # H3 /\ H2 # H3
  BY <1>1, <1>2, <1>3, <1>4
<1>6. QED
  BY <1>1, <1>2, <1>3, <1>4, <1>5

-----------------------------------------------------------------------------
\* The stages of main before the consoles exist.
Early == Stages \ {"console_out", "atexit", "signal", "run"}

(***************************************************************************)
(* The invariant of termination, step by step: when the process starts ... *)
(***************************************************************************)
LEMMA LifeInit == MonitorInit => LifeInv
<1> SUFFICES ASSUME MonitorInit PROVE LifeInv
  OBVIOUS
<1>1. /\ pc = [main |-> "main", other |-> "none"] /\ in_endIO = FALSE
      /\ handlers = H0 /\ sigint = FALSE /\ tty = "user" /\ in_old = "user"
      /\ out_old = "user" /\ in_guest = FALSE /\ stage = "config"
      /\ monitor = "up" /\ debug_serv = "null"
  BY DEF MonitorInit, StartInit, DebugInit, H0
<1>2. pc \in [Threads -> Points] /\ pc["main"] = "main" /\ pc["other"] = "none"
  BY <1>1 DEF Threads, Points
<1>3. HandlersAt(stage) = H0
  BY <1>1 DEF HandlersAt
<1>4. LifeTypes
  BY <1>1, <1>2, HandlerLists DEF LifeTypes, Stages, Ends
<1>5. OrderInv
  BY <1>1, <1>2, <1>3, HandlerLists DEF OrderInv
<1>6. OnceInv
  BY <1>1, <1>2, HandlerLists DEF OnceInv, EndIO
<1>7. QED
  BY <1>4, <1>5, <1>6 DEF LifeInv

(***************************************************************************)
(* ... through the stages of main that leave the consoles alone ...        *)
(***************************************************************************)
LEMMA EarlyKeepsLife ==
  ASSUME LifeInv, InMain, stage \in Early, stage' \in Early,
         UNCHANGED <<cfg, monitor, lifeVars>>,
         \/ UNCHANGED debug_serv
         \/ cfg.debug /\ debug_serv' = "live"
  PROVE  LifeInv'
<1>1. UNCHANGED <<pc, in_endIO, handlers, sigint, tty, in_old, out_old, in_guest>>
  BY DEF lifeVars
<1>2. pc["main"] = "main" /\ monitor = "up"
  BY DEF InMain
<1>3. HandlersAt(stage) = H0 /\ HandlersAt(stage') = H0
  BY DEF HandlersAt, Early
<1>4. LifeTypes'
  BY <1>1 DEF LifeInv, LifeTypes, Early
<1>5. OrderInv'
  BY <1>1, <1>2, <1>3 DEF LifeInv, OrderInv
<1>6. OnceInv'
  BY <1>1, <1>2 DEF LifeInv, OnceInv, EndIO
<1>7. QED
  BY <1>4, <1>5, <1>6 DEF LifeInv

LEMMA StartStages ==
  ASSUME StartStep, stage \in Stages
  PROVE  stage \in Early /\ stage' \in Early /\ UNCHANGED cfg
<1>1. CASE configure
  BY <1>1 DEF configure, At, Early, Stages
<1>2. CASE load_program
  BY <1>2 DEF load_program, estrai_open, estrai_next, estrai_done, At, Early, Stages
<1>3. CASE create_vcpu
  BY <1>3 DEF create_vcpu, At, Early, Stages
<1>4. CASE run_long_mode
  BY <1>4 DEF run_long_mode, At, Early, Stages
<1>5. CASE load_boot64
  BY <1>5 DEF load_boot64, estrai_open, estrai_next, estrai_done, At, Early, Stages
<1>6. QED
  BY <1>1, <1>2, <1>3, <1>4, <1>5 DEF StartStep

LEMMA StartKeepsLife ==
  ASSUME LifeInv, start \/ start_debug_server
  PROVE  LifeInv'
<1>1. CASE start
  <2>1. InMain /\ StartStep /\ UNCHANGED <<debug_serv, monitor, lifeVars>>
    BY <1>1 DEF start, debugVars, serverVars
  <2>2. stage \in Early /\ stage' \in Early /\ UNCHANGED cfg
    BY <2>1, StartStages DEF LifeInv, LifeTypes
  <2>3. QED
    BY <2>1, <2>2, EarlyKeepsLife
<1>2. CASE start_debug_server
  <2>1. /\ InMain /\ stage = "server" /\ stage' = "bootloader"
        /\ UNCHANGED <<cfg, monitor, lifeVars>>
        /\ debug_serv' = debug_serv \/ (cfg.debug /\ debug_serv' = "live")
    BY <1>2 DEF start_debug_server, start_server, At
  <2>2. stage \in Early /\ stage' \in Early
    BY <2>1 DEF Early, Stages
  <2>3. QED
    BY <2>1, <2>2, EarlyKeepsLife
<1>3. QED
  BY <1>1, <1>2

(***************************************************************************)
(* ... and through initIO, where the terminal changes hands.               *)
(***************************************************************************)
LEMMA ConsolesKeepLife ==
  ASSUME LifeInv, getInstance_in \/ getInstance_out \/ register_endIO \/ catch_SIGINT
  PROVE  LifeInv'
<1>1. /\ pc["main"] = "main" /\ monitor = "up"
      /\ UNCHANGED <<cfg, debug_serv, monitor, pc, in_endIO, in_guest>>
  BY DEF getInstance_in, getInstance_out, register_endIO, catch_SIGINT, Starting,
         InMain, debugVars, serverVars
<1>2. /\ ~in_endIO /\ pc["other"] = "none" /\ handlers = HandlersAt(stage)
      /\ debug_serv # "deleted" /\ in_old = "user"
      /\ handlers = H0 => tty = "user"
  BY <1>1 DEF LifeInv, LifeTypes, OrderInv, OnceInv
<1>3. CASE getInstance_in
  <2>1. stage = "initIO" /\ stage' = "console_out"
    BY <1>3 DEF getInstance_in, Starting, At
  <2>2. handlers = H0 /\ HandlersAt(stage') = H1
    BY <1>2, <2>1 DEF HandlersAt
  <2>3. /\ in_old' = "user" /\ tty' = "raw" /\ handlers' = H1
        /\ UNCHANGED <<sigint, out_old>>
    BY <1>2, <1>3, <2>2 DEF getInstance_in, H1
  <2>4. QED
    BY <1>1, <1>2, <2>1, <2>2, <2>3, HandlerLists
       DEF LifeInv, LifeTypes, OrderInv, OnceInv, EndIO, Stages
<1>4. CASE getInstance_out
  <2>1. stage = "console_out" /\ stage' = "atexit"
    BY <1>4 DEF getInstance_out, Starting, At
  <2>2. handlers = H1 /\ HandlersAt(stage') = H2
    BY <1>2, <2>1 DEF HandlersAt
  <2>3. out_old' = tty /\ handlers' = H2 /\ UNCHANGED <<sigint, tty, in_old>>
    BY <1>4, <2>2 DEF getInstance_out, H2
  <2>4. QED
    BY <1>1, <1>2, <2>1, <2>2, <2>3, HandlerLists
       DEF LifeInv, LifeTypes, OrderInv, OnceInv, EndIO, Stages
<1>5. CASE register_endIO
  <2>1. stage = "atexit" /\ stage' = "signal"
    BY <1>5 DEF register_endIO, Starting, At
  <2>2. handlers = H2 /\ HandlersAt(stage') = H3
    BY <1>2, <2>1 DEF HandlersAt
  <2>3. handlers' = H3 /\ UNCHANGED <<sigint, tty, in_old, out_old>>
    BY <1>5, <2>2 DEF register_endIO, H3
  <2>4. QED
    BY <1>1, <1>2, <2>1, <2>2, <2>3, HandlerLists
       DEF LifeInv, LifeTypes, OrderInv, OnceInv, EndIO, Stages
<1>6. CASE catch_SIGINT
  <2>1. stage = "signal" /\ stage' = "run"
    BY <1>6 DEF catch_SIGINT, Starting, At
  <2>2. handlers = H3 /\ HandlersAt(stage') = H3
    BY <1>2, <2>1 DEF HandlersAt
  <2>3. sigint' = TRUE /\ UNCHANGED <<handlers, tty, in_old, out_old>>
    BY <1>6 DEF catch_SIGINT
  <2>4. QED
    BY <1>1, <1>2, <2>1, <2>2, <2>3, HandlerLists
       DEF LifeInv, LifeTypes, OrderInv, OnceInv, EndIO, Stages
<1>7. QED
  BY <1>3, <1>4, <1>5, <1>6

(***************************************************************************)
(* A return from main, early or from the run loop, starts the handlers.    *)
(***************************************************************************)
LEMMA ReturnKeepsLife ==
  ASSUME LifeInv, InMain, pc' = [pc EXCEPT !.main = "exit"],
         \/ stage \in Early /\ stage' = "failed"
         \/ stage = "run" /\ stage' = "run",
         in_guest' \in BOOLEAN,
         UNCHANGED <<cfg, debug_serv, monitor, in_endIO, handlers, sigint, tty, in_old, out_old>>
  PROVE  LifeInv'
<1>1. /\ pc["main"] = "main" /\ monitor = "up"
      /\ pc' \in [Threads -> Points]
      /\ pc'["main"] = "exit" /\ pc'["other"] = pc["other"]
  BY DEF InMain, LifeInv, LifeTypes, Threads, Points
<1>2. /\ ~in_endIO /\ pc["other"] = "none" /\ handlers = HandlersAt(stage)
      /\ debug_serv # "deleted" /\ in_old = "user"
      /\ handlers = H0 => tty = "user"
  BY <1>1 DEF LifeInv, LifeTypes, OrderInv, OnceInv
<1>3. LifeTypes'
  BY <1>1 DEF LifeInv, LifeTypes, Stages
<1>4. OrderInv'
  BY <1>1, <1>2 DEF LifeInv, OrderInv
<1>5. OnceInv'
  BY <1>1, <1>2 DEF LifeInv, OnceInv, EndIO
<1>6. QED
  BY <1>3, <1>4, <1>5 DEF LifeInv

LEMMA GiveUpKeepsLife ==
  ASSUME LifeInv, give_up
  PROVE  LifeInv'
<1>1. /\ InMain /\ stage \in Early /\ stage' = "failed"
      /\ pc' = [pc EXCEPT !.main = "exit"]
      /\ in_guest' = in_guest
      /\ UNCHANGED <<cfg, debug_serv, monitor, in_endIO, handlers, sigint, tty, in_old, out_old>>
  BY DEF give_up, start_fails, Early, Stages, debugVars, serverVars
<1>2. in_guest' \in BOOLEAN
  BY <1>1 DEF LifeInv, LifeTypes
<1>3. QED
  BY <1>1, <1>2, ReturnKeepsLife

LEMMA RunKeepsLife ==
  ASSUME LifeInv, vCPU
  PROVE  LifeInv'
<1>1. /\ InMain /\ stage = "run" /\ in_guest' \in BOOLEAN
      /\ UNCHANGED <<stage, cfg, debug_serv, monitor, in_endIO, handlers, sigint, tty,
                     in_old, out_old>>
      /\ pc' = pc \/ pc' = [pc EXCEPT !.main = "exit"]
  BY DEF vCPU, KVM_RUN, KVM_EXIT, KVM_EXIT_return, Running, startVars, debugVars, serverVars
<1>2. CASE pc' = pc
  BY <1>1, <1>2 DEF LifeInv, LifeTypes, OrderInv, OnceInv
<1>3. CASE pc' = [pc EXCEPT !.main = "exit"]
  BY <1>1, <1>3, ReturnKeepsLife
<1>4. QED
  BY <1>1, <1>2, <1>3

(***************************************************************************)
(* ctrl+c: the first one takes main into endIO, wherever it was; a second  *)
(* one another thread.                                                     *)
(***************************************************************************)
LEMMA SigintKeepsLife ==
  ASSUME LifeInv, SIGINT
  PROVE  LifeInv'
<1>1. /\ monitor = "up"
      /\ UNCHANGED <<stage, cfg, debug_serv, handlers, sigint, tty, in_old, out_old>>
  BY DEF SIGINT, startVars, serverVars
<1>2. CASE ~sigint
  <2>1. monitor' = "sigint" /\ UNCHANGED <<pc, in_endIO, in_guest>>
    BY <1>2 DEF SIGINT
  <2>2. QED
    BY <1>1, <1>2, <2>1 DEF LifeInv, LifeTypes, OrderInv, OnceInv, Ends
<1>3. CASE sigint /\ ~in_endIO
  <2>1. /\ monitor' = monitor /\ pc' = [pc EXCEPT !.main = "endIO"]
        /\ in_endIO' = TRUE /\ in_guest' = FALSE
    BY <1>3 DEF SIGINT
  <2>2. pc' \in [Threads -> Points] /\ pc'["main"] = "endIO" /\ pc'["other"] = pc["other"]
    BY <2>1 DEF LifeInv, LifeTypes, Threads, Points
  <2>3. QED
    BY <1>1, <1>3, <2>1, <2>2 DEF LifeInv, LifeTypes, OrderInv, OnceInv
<1>4. CASE sigint /\ in_endIO
  <2>1. /\ monitor' = monitor /\ pc' = [pc EXCEPT !.other = "endIO"]
        /\ UNCHANGED <<in_endIO, in_guest>>
    BY <1>4 DEF SIGINT
  <2>2. pc' \in [Threads -> Points] /\ pc'["other"] = "endIO" /\ pc'["main"] = pc["main"]
    BY <2>1 DEF LifeInv, LifeTypes, Threads, Points
  <2>3. QED
    BY <1>1, <1>4, <2>1, <2>2 DEF LifeInv, LifeTypes, OrderInv, OnceInv
<1>5. QED
  BY <1>2, <1>3, <1>4 DEF LifeInv, LifeTypes

(***************************************************************************)
(* A terminating thread moves along the points of endIO and exit.          *)
(***************************************************************************)
LEMMA EndingMoves ==
  ASSUME LifeInv, NEW t \in Threads, NEW from \in Points \ {"main", "none"},
         NEW to \in Points \ {"main", "none"}, Ending(t, from, to)
  PROVE  /\ monitor = "up" /\ pc[t] = from
         /\ UNCHANGED <<stage, cfg, in_endIO, sigint, in_old, out_old, in_guest>>
         /\ pc' \in [Threads -> Points]
         /\ pc'["main"] # "none" /\ (in_endIO => pc'["main"] # "main")
         /\ t = "main" => pc'["main"] = to /\ pc'["other"] = pc["other"]
         /\ t = "other" => in_endIO /\ pc'["other"] # "none"
<1>1. /\ monitor = "up" /\ pc[t] = from /\ pc' = [pc EXCEPT ![t] = to]
      /\ UNCHANGED <<stage, cfg, in_endIO, sigint, in_old, out_old, in_guest>>
  BY DEF Ending, startVars
<1>2. /\ pc \in [Threads -> Points] /\ pc["main"] # "none"
      /\ in_endIO => pc["main"] # "main"
      /\ ~in_endIO => pc["other"] = "none"
  BY DEF LifeInv, LifeTypes, OrderInv, OnceInv
<1>3. pc' \in [Threads -> Points]
  BY <1>1, <1>2
<1>4. CASE t = "main"
  BY <1>1, <1>2, <1>3, <1>4 DEF Threads
<1>5. CASE t = "other"
  BY <1>1, <1>2, <1>3, <1>5 DEF Threads
<1>6. QED
  BY <1>1, <1>3, <1>4, <1>5 DEF Threads

LEMMA TerminateKeepsLife ==
  ASSUME LifeInv, NEW t \in Threads, Terminate(t)
  PROVE  LifeInv'
<1> USE DEF LifeInv, LifeTypes, OrderInv, OnceInv
<1>1. CASE endIO_out(t)
  <2>1. /\ Ending(t, "endIO", "endIO_in") /\ tty' = out_old
        /\ UNCHANGED <<debug_serv, monitor, handlers>>
    BY <1>1 DEF endIO_out, debugVars, serverVars
  <2>2. QED
    BY <2>1, EndingMoves DEF Points, Threads, EndIO
<1>2. CASE endIO_in(t)
  <2>1. /\ Ending(t, "endIO_in", "endIO_delete") /\ tty' = in_old
        /\ UNCHANGED <<debug_serv, monitor, handlers>>
    BY <1>2 DEF endIO_in, debugVars, serverVars
  <2>2. QED
    BY <2>1, EndingMoves DEF Points, Threads, EndIO
<1>3. CASE endIO_delete(t)
  <2>1. /\ Ending(t, "endIO_delete", "exit")
        /\ debug_serv' = IF debug_serv = "null" THEN "null" ELSE "deleted"
        /\ monitor' = monitor \/ (debug_serv = "deleted" /\ monitor' = "abort")
        /\ UNCHANGED <<tty, handlers>>
    BY <1>3 DEF endIO_delete, delete_debug_serv
  <2>2. debug_serv = "deleted" => in_endIO
    BY <2>1, EndingMoves DEF Points, Threads, EndIO
  <2>3. QED
    BY <2>1, <2>2, EndingMoves, HandlerLists DEF Points, Threads, EndIO, Ends
<1>4. CASE exit_handler(t)
  <2>1. /\ handlers # << >> /\ handlers' = Tail(handlers)
        /\ Ending(t, "exit", Head(handlers))
        /\ UNCHANGED <<tty, debug_serv, monitor>>
    BY <1>4 DEF exit_handler, debugVars, serverVars
  <2>2. Head(handlers) \in Handlers /\ handlers' \in Seq(Handlers)
    BY <2>1
  <2>3. Head(handlers) \in Points \ {"main", "none"} /\ "exit" \in Points \ {"main", "none"}
    BY <2>2 DEF Handlers, Points
  <2>4. pc[t] = "exit" /\ monitor = "up" /\ (t = "main" => pc'["main"] = Head(handlers))
    BY <2>1, <2>3, EndingMoves
  <2>5. CASE t = "main" /\ pc["other"] = "none"
    <3>1. handlers \in {H1, H2, H3}
      BY <2>1, <2>5, HandlerLists
    <3>2. QED
      BY <2>1, <2>2, <2>3, <2>4, <2>5, <3>1, EndingMoves, HandlerLists DEF EndIO
  <2>6. CASE ~(t = "main" /\ pc["other"] = "none")
    <3>1. in_endIO /\ pc'["other"] # "none"
      BY <2>1, <2>3, <2>6, EndingMoves DEF Threads
    <3>2. QED
      BY <2>1, <2>2, <2>3, <2>4, <3>1, EndingMoves
  <2>7. QED
    BY <2>5, <2>6
<1>5. CASE destroy(t)
  <2>1. PICK h \in {"~ConsoleOutput", "~ConsoleInput"} :
          /\ Ending(t, h, "exit") /\ tty' = Destroyed(h)
          /\ UNCHANGED <<debug_serv, monitor, handlers>>
    BY <1>5 DEF destroy, debugVars, serverVars
  <2>2. tty' = IF h = "~ConsoleOutput" THEN out_old ELSE in_old
    BY <2>1 DEF Destroyed
  <2>3. QED
    BY <2>1, <2>2, EndingMoves, HandlerLists DEF Points, Threads, EndIO
<1>6. CASE exit_process(t)
  <2>1. /\ handlers = << >> /\ Ending(t, "exit", "exited") /\ monitor' = "exited"
        /\ UNCHANGED <<tty, debug_serv, handlers>>
    BY <1>6 DEF exit_process, serverVars
  <2>2. QED
    BY <2>1, EndingMoves, HandlerLists DEF Points, Threads, EndIO, Ends
<1>7. QED
  BY <1>1, <1>2, <1>3, <1>4, <1>5, <1>6 DEF Terminate

(***************************************************************************)
(* A connection leaves all of this alone, except that a worker may take    *)
(* the process with it.                                                    *)
(***************************************************************************)
LEMMA ConnectionEffect ==
  ASSUME NEW c \in Clients, Serve(c) \/ GetRegs(c) \/ Use(c) \/ Abandon(c)
  PROVE  /\ UNCHANGED <<startVars, lifeVars, debug_serv>>
         /\ \/ UNCHANGED monitor
            \/ monitor = "up" /\ monitor' \in {"segv", "sigpipe"}
<1>1. UNCHANGED <<startVars, lifeVars>>
  BY DEF Serve, GetRegs, Use, Abandon, Connection
<1>2. CASE Serve(c)
  <2>1. monitor = "up" /\ ServerStep(c, pages * PageCells)
    BY <1>2 DEF Serve
  <2>2. CASE main_fun(c)
    BY <1>1, <2>1, <2>2 DEF main_fun
  <2>3. CASE worker_recv(c)
    BY <1>1, <2>1, <2>3 DEF worker_recv
  <2>4. CASE send_dump_mem(c, pages * PageCells)
    BY <1>1, <2>1, <2>4 DEF send_dump_mem, Answer, send_data
  <2>5. CASE send_info(c)
    BY <1>1, <2>1, <2>5 DEF send_info, Answer, send_data
  <2>6. CASE send_regs(c)
    BY <1>1, <2>1, <2>6 DEF send_regs, Answer, send_data
  <2>7. QED
    BY <2>1, <2>2, <2>3, <2>4, <2>5, <2>6 DEF ServerStep
<1>3. CASE GetRegs(c)
  BY <1>1, <1>3 DEF GetRegs, get_regs
<1>4. CASE Use(c)
  BY <1>1, <1>4 DEF Use, ClientStep, connect, request, receive,
                         client_fault, finish, serverVars
<1>5. CASE Abandon(c)
  BY <1>1, <1>5 DEF Abandon, leave, serverVars
<1>6. QED
  BY <1>2, <1>3, <1>4, <1>5

LEMMA ConnectionKeepsLife ==
  ASSUME LifeInv, NEW c \in Clients, Serve(c) \/ GetRegs(c) \/ Use(c) \/ Abandon(c)
  PROVE  LifeInv'
<1>1. /\ UNCHANGED <<stage, cfg, pc, in_endIO, handlers, sigint, tty, in_old,
                     out_old, in_guest, debug_serv>>
      /\ monitor' = monitor \/ monitor' \in {"segv", "sigpipe"}
  BY ConnectionEffect DEF startVars, lifeVars
<1>2. QED
  BY <1>1 DEF LifeInv, LifeTypes, OrderInv, OnceInv, Ends

LEMMA LifeStep == LifeInv /\ [MonitorNext]_monitorVars => LifeInv'
<1> SUFFICES ASSUME LifeInv, [MonitorNext]_monitorVars PROVE LifeInv'
  OBVIOUS
<1>1. CASE MainStep
  BY <1>1, StartKeepsLife, ConsolesKeepLife DEF MainStep
<1>2. CASE give_up
  BY <1>2, GiveUpKeepsLife
<1>3. CASE vCPU
  BY <1>3, RunKeepsLife
<1>4. CASE SIGINT
  BY <1>4, SigintKeepsLife
<1>5. CASE \E t \in Threads : Terminate(t)
  BY <1>5, TerminateKeepsLife
<1>6. CASE \E c \in Clients : Serve(c) \/ GetRegs(c) \/ Use(c) \/ Abandon(c)
  BY <1>6, ConnectionKeepsLife
<1>7. CASE UNCHANGED monitorVars
  BY <1>7 DEF monitorVars, startVars, debugVars, serverVars, lifeVars,
              LifeInv, LifeTypes, OrderInv, OnceInv
<1>8. QED
  BY <1>1, <1>2, <1>3, <1>4, <1>5, <1>6, <1>7 DEF MonitorNext

(***************************************************************************)
(* How the process can end, for every configuration: the exit handlers,    *)
(* the terminal and the debug server, whoever runs into exit.              *)
(***************************************************************************)
THEOREM LifeInvariant == MonitorSpec => []LifeInv
  BY LifeInit, LifeStep, PTL DEF MonitorSpec

(***************************************************************************)
(* However main, the exit handlers, endIO and ctrl+c interleave, the       *)
(* terminal is given back (initIO, endIO and the destructors of the        *)
(* consoles).                                                              *)
(***************************************************************************)
THEOREM TerminalGivenBack == MonitorSpec => []TerminalRestored
<1>1. LifeInv => TerminalRestored
  BY DEF LifeInv, LifeTypes, OrderInv, TerminalRestored, Ends
<1>2. QED
  BY <1>1, LifeInvariant, PTL

-----------------------------------------------------------------------------
(***************************************************************************)
(* The loader and the tables.  While segments are loaded, every cell of    *)
(* guest memory is what the last of them that covers it put there.         *)
(***************************************************************************)
Covers(k, a) == k \in Loaded /\ a \in Touched(ProgramSegments[k])

Contents(k, a) ==
  LET i == a - ProgramSegments[k].vaddr
  IN  IF i < ProgramSegments[k].present THEN Bytes(k, i) ELSE Zero

\* v is what the first n segments leave in cell a.
Image(n, a, v) ==
  \/ v = Zero /\ \A k \in 1 .. n : ~Covers(k, a)
  \/ \E k \in 1 .. n : /\ Covers(k, a) /\ v = Contents(k, a)
                       /\ \A j \in (k + 1) .. n : ~Covers(j, a)

\* What is left to load of a list of segments.
Suffix(rest, segments) ==
  /\ rest \in Seq(Headers) /\ Len(rest) <= Len(segments)
  /\ \A i \in 1 .. Len(rest) :
       rest[i] = segments[Len(segments) - Len(rest) + i]

Booting == {"initIO", "console_out", "atexit", "signal", "run"}
Built == {"boot64", "boot_segments"} \cup Booting

LoadTypes ==
  /\ cfg \in Configs
  /\ pages \in 0 .. Entries /\ DOMAIN mem = Guest
  /\ stage \notin {"config", "failed"} => pages >= 1

ProgramInv ==
  /\ stage = "program" => \A a \in Guest : mem[a] = Zero
  /\ stage = "segments" =>
       /\ Suffix(todo, ProgramSegments)
       /\ \A a \in Guest : Image(Len(ProgramSegments) - Len(todo), a, mem[a])
  /\ stage \in {"vcpu", "server", "bootloader"} =>
       \A a \in Guest : Image(Len(ProgramSegments), a, mem[a])
  /\ stage \in Built =>
       \A a \in Guest : a >= ProgramBase => Image(Len(ProgramSegments), a, mem[a])

BootInv ==
  stage = "boot_segments" =>
    /\ todo \in Seq(Headers)
    /\ \A i \in 1 .. Len(todo) :
         WellFormed(todo[i]) /\ todo[i].present <= todo[i].filesz

\* An entry the boot loader did not write.
Leftover(v) ==
  \/ v = Zero
  \/ /\ v.tag = "bytes"
     /\ \E k \in Loaded : \E a \in Touched(ProgramSegments[k]) : a < ProgramBase

Indices == 0 .. (Entries - 1)
Apics == {IoApicEntry, LocalApicEntry}

\* The tables in memory m; the last GiB begun is the first or, when memory is
\* as large as it can be, an empty second one.
Tables(m, last) ==
  /\ m[Cell(2, 0)] = Table(3)
  /\ \A i \in Indices : i # 0 => Leftover(m[Cell(2, i)])
  /\ m[Cell(3, 3)] = Table(5 + last)
  /\ m[Cell(3, 0)] = Table(4)
  /\ last = 1 => m[Cell(3, 1)] = Table(5)
  /\ \A i \in Indices : i > last /\ i # 3 => Leftover(m[Cell(3, i)])
  /\ \A i \in Indices : m[Cell(4, i)] = IF i < pages THEN Page(i) ELSE Absent
  /\ last = 1 => \A i \in Indices : m[Cell(5, i)] = Absent
  /\ \A i \in Apics : m[Cell(5 + last, i)] = Page(3 * Entries + i)
  /\ \A i \in Indices \ Apics : Leftover(m[Cell(5 + last, i)])

LastGiB == IF pages = Entries THEN 1 ELSE 0

TablesInv == stage \in Built => Tables(mem, LastGiB)

LoadInv == LoadTypes /\ ProgramInv /\ BootInv /\ TablesInv /\ LoaderInBounds

-----------------------------------------------------------------------------
\* Guest memory holds at least one page.
LEMMA GuestSize ==
  ASSUME NEW p \in 0 .. Entries
  PROVE  /\ p * PageCells \in Nat
         /\ p >= 1 => PageCells <= p * PageCells
         /\ p * PageCells <= Entries * PageCells
<1>1. PageCells \in Nat /\ Entries \in Nat /\ p \in Nat /\ p <= Entries
  BY LayoutAssumption, EntriesAssumption
<1>2. p * PageCells \in Nat
  BY <1>1
<1>3. p >= 1 => 1 * PageCells <= p * PageCells
  BY <1>1
<1>4. p * PageCells <= Entries * PageCells
  BY <1>1
<1>5. QED
  BY <1>1, <1>2, <1>3, <1>4

\* The memory of every configuration is between one page and one GiB.
LEMMA PagesInRange ==
  ASSUME NEW m \in Int
  PROVE  GUEST_PHYSICAL_MEMORY_SIZE(m) \in 1 .. Entries
<1> DEFINE s == IF MinMiB <= m /\ m < LimitMiB THEN m + (m % 2) ELSE DefaultMiB
<1>1. /\ MinMiB \in Nat \ {0} /\ LimitMiB \in Nat /\ LimitMiB % 2 = 0
      /\ LimitMiB <= 2 * Entries /\ Entries \in Nat
      /\ DefaultMiB \in Nat \ {0} /\ DefaultMiB % 2 = 0 /\ DefaultMiB <= LimitMiB
  BY StartUpAssumption, EntriesAssumption
<1>2. CASE MinMiB <= m /\ m < LimitMiB
  <2>1. m \in Int /\ m >= 1 /\ m < LimitMiB /\ s = m + (m % 2)
    BY <1>1, <1>2
  <2>2. m % 2 = 0 \/ m % 2 = 1
    BY <2>1
  <2>3. s \in Int /\ s % 2 = 0 /\ s >= 2 /\ s <= LimitMiB
    BY <1>1, <2>1, <2>2
  <2> HIDE DEF s
  <2>4. s \div 2 \in 1 .. Entries
    BY <1>1, <2>3
  <2>5. QED
    BY <2>4 DEF s, GUEST_PHYSICAL_MEMORY_SIZE
<1>3. CASE ~(MinMiB <= m /\ m < LimitMiB)
  <2>1. DefaultMiB \div 2 \in 1 .. Entries
    BY <1>1
  <2>2. QED
    BY <1>3, <2>1 DEF GUEST_PHYSICAL_MEMORY_SIZE
<1>4. QED
  BY <1>2, <1>3

\* The blocks of the tables: which entry an address is, and what lies above.
LEMMA CellEntry ==
  ASSUME NEW t \in 0 .. 7, NEW i \in Indices
  PROVE  /\ Cell(t, i) \in Nat /\ Cell(t, i) \div Entries = t
         /\ Cell(t, i) % Entries = i
  BY EntriesAssumption DEF Cell, Indices

LEMMA AboveTables ==
  ASSUME NEW a \in Nat, a >= ProgramBase
  PROVE  a \div Entries \in Int /\ a \div Entries >= 7
<1>1. a >= 7 * Entries
  BY EntriesAssumption, LayoutAssumption DEF Cell, pd
<1>2. QED
  BY <1>1, EntriesAssumption

LEMMA BlocksOrdered ==
  ASSUME NEW t \in 1 .. 6, NEW i \in Indices
  PROVE  /\ Cell(t, i) >= Cell(1, 0) /\ Cell(t, i) < ProgramBase
         /\ t >= 2 => Cell(t, i) # Cell(1, 1) /\ Cell(t, i) # Cell(1, 2)
  BY EntriesAssumption, LayoutAssumption DEF Cell, Indices, pd

\* The cells a header touches, by their offset.
LEMMA TouchedOffset ==
  ASSUME NEW h \in Headers, NEW a \in Int
  PROVE  a \in Touched(h) <=>
           a - h.vaddr \in 0 .. (h.present - 1) \cup h.filesz .. (h.memsz - 1)
<1>1. h.vaddr \in Nat /\ h.present \in Nat /\ h.filesz \in Nat /\ h.memsz \in Nat
  BY DEF Headers
<1>2. ASSUME a \in Touched(h)
      PROVE  a - h.vaddr \in 0 .. (h.present - 1) \cup h.filesz .. (h.memsz - 1)
  <2>1. PICK i \in 0 .. (h.present - 1) \cup h.filesz .. (h.memsz - 1) : a = h.vaddr + i
    BY <1>2 DEF Touched
  <2>2. i = a - h.vaddr
    BY <1>1, <2>1
  <2>3. QED
    BY <2>1, <2>2
<1>3. ASSUME a - h.vaddr \in 0 .. (h.present - 1) \cup h.filesz .. (h.memsz - 1)
      PROVE  a \in Touched(h)
  <2>1. a = h.vaddr + (a - h.vaddr)
    BY <1>1
  <2>2. QED
    BY <1>3, <2>1 DEF Touched
<1>4. QED
  BY <1>2, <1>3

\* A header from a linker that fits stays below the bound.
LEMMA WellFormedInside ==
  ASSUME NEW h \in Headers, h.present <= h.filesz, WellFormed(h),
         NEW size \in Nat, Fits(h, size), NEW a \in Int, a \in Touched(h)
  PROVE  0 <= a /\ a < size
<1>1. h.vaddr \in Nat /\ h.present \in Nat /\ h.filesz \in Nat /\ h.memsz \in Nat
  BY DEF Headers
<1>2. h.filesz <= h.memsz /\ h.vaddr + h.memsz < AddressModulus
  BY DEF WellFormed
<1>3. end_addr(h) = h.vaddr + h.memsz
  BY <1>1, <1>2, AddressModulusAssumption DEF end_addr
<1>4. h.vaddr + h.memsz <= size
  BY <1>3 DEF Fits
<1>5. a - h.vaddr \in 0 .. (h.present - 1) \cup h.filesz .. (h.memsz - 1)
  BY TouchedOffset
<1>6. QED
  BY <1>1, <1>2, <1>4, <1>5

LEMMA TouchedInt ==
  ASSUME NEW h \in Headers, NEW a \in Touched(h)
  PROVE  a \in Int
<1>1. h.vaddr \in Nat /\ h.present \in Nat /\ h.filesz \in Nat /\ h.memsz \in Nat
  BY DEF Headers
<1>2. PICK i \in 0 .. (h.present - 1) \cup h.filesz .. (h.memsz - 1) : a = h.vaddr + i
  BY DEF Touched
<1>3. QED
  BY <1>1, <1>2

-----------------------------------------------------------------------------
(***************************************************************************)
(* One segment more: the image grows by it, if it fits.                    *)
(***************************************************************************)
LEMMA SegmentCopied ==
  ASSUME LoadHeaders(ProgramSegments), NEW n \in Nat, n < Len(ProgramSegments),
         NEW m, NEW a \in DOMAIN m, a \in Int, Image(n, a, m[a]),
         Fits(ProgramSegments[n + 1], pages * PageCells)
  PROVE  Image(n + 1, a, copia_segmento(m, ProgramSegments[n + 1], n + 1)[a])
<1> DEFINE h == ProgramSegments[n + 1]
           v == copia_segmento(m, h, n + 1)[a]
           i == a - h.vaddr
<1>1. /\ h \in Headers /\ h.present <= h.filesz
      /\ n + 1 \in DOMAIN ProgramSegments
  BY DEF LoadHeaders
<1>2. h.vaddr \in Nat /\ h.present \in Nat /\ h.filesz \in Nat /\ h.memsz \in Nat /\ i \in Int
  BY <1>1 DEF Headers
<1>3. n + 1 \in Loaded
  BY <1>1 DEF Loaded
<1>4. v = IF i \in 0 .. (h.present - 1) THEN Bytes(n + 1, i)
          ELSE IF i \in h.filesz .. (h.memsz - 1) THEN Zero
          ELSE m[a]
  BY DEF copia_segmento
<1>5. a \in Touched(h) <=> i \in 0 .. (h.present - 1) \cup h.filesz .. (h.memsz - 1)
  BY <1>1, TouchedOffset
<1>6. Covers(n + 1, a) <=> a \in Touched(h)
  BY <1>3 DEF Covers
<1>7. CASE a \in Touched(h)
  <2>1. v = IF i < h.present THEN Bytes(n + 1, i) ELSE Zero
    <3> HIDE DEF h, v, i
    <3> QED BY <1>2, <1>4, <1>5, <1>7, <1>1
  <2>2. v = Contents(n + 1, a)
    BY <2>1 DEF Contents
  <2>3. (n + 1 + 1) .. (n + 1) = {}
    OBVIOUS
  <2> HIDE DEF v
  <2>4. Image(n + 1, a, v)
    BY <1>6, <1>7, <2>2, <2>3 DEF Image
  <2>5. QED
    BY <2>4 DEF v
<1>8. CASE a \notin Touched(h)
  <2>1. v = m[a]
    BY <1>4, <1>5, <1>8
  <2>2. ~Covers(n + 1, a)
    BY <1>6, <1>8
  <2>3. \A k \in 1 .. (n + 1) : k \in 1 .. n \/ k = n + 1
    OBVIOUS
  <2>4. \A k \in 1 .. n : k \in 1 .. (n + 1) /\ \A j \in (k + 1) .. (n + 1) : j \in (k + 1) .. n \/ j = n + 1
    OBVIOUS
  <2> HIDE DEF v
  <2>5. ASSUME m[a] = Zero, \A k \in 1 .. n : ~Covers(k, a)
        PROVE  Image(n + 1, a, v)
    BY <2>1, <2>2, <2>3, <2>5 DEF Image
  <2>6. ASSUME NEW k \in 1 .. n, Covers(k, a), m[a] = Contents(k, a),
               \A j \in (k + 1) .. n : ~Covers(j, a)
        PROVE  Image(n + 1, a, v)
    BY <2>1, <2>2, <2>4, <2>6 DEF Image
  <2>7. QED
    BY <2>5, <2>6 DEF Image, v
<1>9. QED
  BY <1>7, <1>8

LEMMA SegmentSkipped ==
  ASSUME LoadHeaders(ProgramSegments), NEW n \in Nat, n < Len(ProgramSegments),
         NEW a, NEW v, Image(n, a, v),
         ~Fits(ProgramSegments[n + 1], pages * PageCells)
  PROVE  Image(n + 1, a, v)
<1>1. ~Covers(n + 1, a)
  BY DEF Covers, Loaded
<1>2. \A k \in 1 .. (n + 1) : k \in 1 .. n \/ k = n + 1
  OBVIOUS
<1>3. \A k \in 1 .. n : k \in 1 .. (n + 1) /\ \A j \in (k + 1) .. (n + 1) : j \in (k + 1) .. n \/ j = n + 1
  OBVIOUS
<1>4. CASE v = Zero /\ \A k \in 1 .. n : ~Covers(k, a)
  BY <1>1, <1>2, <1>4 DEF Image
<1>5. ASSUME NEW k \in 1 .. n, Covers(k, a), v = Contents(k, a),
             \A j \in (k + 1) .. n : ~Covers(j, a)
      PROVE  Image(n + 1, a, v)
  BY <1>1, <1>3, <1>5 DEF Image
<1>6. QED
  BY <1>4, <1>5 DEF Image

\* What the whole program leaves is the image ImageIntact describes ...
LEMMA WholeImage ==
  ASSUME LoadHeaders(ProgramSegments), NEW a, NEW v,
         Image(Len(ProgramSegments), a, v)
  PROVE  v = FromImage(a)
<1> DEFINE ks == {k \in Loaded : a \in Touched(ProgramSegments[k])}
<1>1. /\ \A k \in ks : k \in 1 .. Len(ProgramSegments) /\ Covers(k, a)
      /\ \A k \in 1 .. Len(ProgramSegments) : Covers(k, a) => k \in ks
  BY DEF Covers, Loaded, LoadHeaders
<1>2. Len(ProgramSegments) \in Nat
  BY DEF LoadHeaders
<1>3. CASE v = Zero /\ \A k \in 1 .. Len(ProgramSegments) : ~Covers(k, a)
  <2>1. ks = {}
    BY <1>1, <1>3
  <2>2. QED
    BY <1>3, <2>1 DEF FromImage
<1>4. ASSUME NEW k \in 1 .. Len(ProgramSegments), Covers(k, a), v = Contents(k, a),
             \A j \in (k + 1) .. Len(ProgramSegments) : ~Covers(j, a)
      PROVE  v = FromImage(a)
  <2>1. k \in ks /\ \A y \in ks : y <= k
    BY <1>1, <1>2, <1>4
  <2>2. \A x \in ks : (\A y \in ks : y <= x) => x = k
    BY <1>1, <1>2, <2>1
  <2> HIDE DEF ks
  <2>3. (CHOOSE x \in ks : \A y \in ks : y <= x) = k
    BY <2>1, <2>2
  <2>4. FromImage(a) = Contents(k, a)
    BY <2>1, <2>3 DEF FromImage, Contents, ks
  <2>5. QED
    BY <1>4, <2>4
<1>5. QED
  BY <1>3, <1>4 DEF Image

\* ... and what it leaves below ProgramBase is what IdentityMapped excuses.
LEMMA ProgramLeftover ==
  ASSUME NEW n, NEW a, a < ProgramBase, NEW v, Image(n, a, v)
  PROVE  Leftover(v)
<1>1. CASE v = Zero
  BY <1>1 DEF Leftover
<1>2. ASSUME NEW k, Covers(k, a), v = Contents(k, a)
      PROVE  Leftover(v)
  <2>1. k \in Loaded /\ a \in Touched(ProgramSegments[k])
    BY <1>2 DEF Covers
  <2>2. v = Zero \/ v.tag = "bytes"
    BY <1>2 DEF Contents, Bytes, Content
  <2>3. QED
    BY <2>1, <2>2 DEF Leftover
<1>3. QED
  BY <1>1, <1>2 DEF Image

-----------------------------------------------------------------------------
(***************************************************************************)
(* The tables the boot loader builds over whatever is in memory.           *)
(***************************************************************************)
LEMMA LastTable ==
  ASSUME NEW p \in 1 .. Entries
  PROVE  /\ p < Entries => p \div Entries = 0 /\ p % Entries = p
         /\ p = Entries => p \div Entries = 1 /\ p % Entries = 0
  BY EntriesAssumption

\* Entry i of the table in block t, when last is the last GiB begun.
Entry(t, i, old, last) ==
  CASE t = 2 /\ i = 0 -> Table(3)
    [] t = 3 /\ i = 3 -> Table(5 + last)
    [] t = 3 /\ i <= last /\ i # 3 -> Table(4 + i)
    [] t \in 4 .. (4 + last) -> IF i < pages /\ t = 4 THEN Page(i) ELSE Absent
    [] t = 5 + last /\ i \in Apics -> Page(3 * Entries + i)
    [] OTHER -> old

LEMMA EntriesWritten ==
  ASSUME LoadTypes, pages >= 1, NEW t \in 2 .. 6, NEW i \in Indices,
         NEW m, Cell(t, i) \in DOMAIN m
  PROVE  setup_page_tables(m, pages)[Cell(t, i)] = Entry(t, i, m[Cell(t, i)], LastGiB)
<1> DEFINE a == Cell(t, i)
<1>1. a \div Entries = t /\ a % Entries = i
  BY CellEntry
<1>2. pages \in 1 .. Entries /\ Entries \in Nat /\ i \in Int /\ t \in Int
  BY EntriesAssumption DEF LoadTypes, Indices
<1>3. CASE pages < Entries
  <2>1. last_index_lev3(pages) = 0 /\ n_entry_lev2(pages) = pages /\ LastGiB = 0
    BY <1>2, <1>3, LastTable DEF last_index_lev3, n_entry_lev2, LastGiB
  <2> HIDE DEF a
  <2>2. setup_page_tables(m, pages)[a] =
          CASE t = 2 /\ i = 0 -> Table(3)
            [] t = 3 /\ i = 3 -> Table(5)
            [] t = 3 /\ i <= 0 /\ i # 3 -> Table(4 + i)
            [] t \in 4 .. 4 ->
                 IF t # 4 \/ i < pages THEN Page((t - 4) * Entries + i) ELSE Absent
            [] t = 5 /\ i \in Apics -> Page(3 * Entries + i)
            [] OTHER -> m[a]
    BY <1>1, <2>1 DEF setup_page_tables, pml4, pdpt, pd, ApicGiB, Apics, a
  <2>3. t = 4 => Page((t - 4) * Entries + i) = Page(i)
    BY <1>2
  <2>4. QED
    BY <1>2, <2>1, <2>2, <2>3 DEF Entry, a
<1>4. CASE pages = Entries
  <2>1. last_index_lev3(pages) = 1 /\ n_entry_lev2(pages) = 0 /\ LastGiB = 1
    BY <1>2, <1>4, LastTable DEF last_index_lev3, n_entry_lev2, LastGiB
  <2> HIDE DEF a
  <2>2. setup_page_tables(m, pages)[a] =
          CASE t = 2 /\ i = 0 -> Table(3)
            [] t = 3 /\ i = 3 -> Table(6)
            [] t = 3 /\ i <= 1 /\ i # 3 -> Table(4 + i)
            [] t \in 4 .. 5 ->
                 IF t # 5 \/ i < 0 THEN Page((t - 4) * Entries + i) ELSE Absent
            [] t = 6 /\ i \in Apics -> Page(3 * Entries + i)
            [] OTHER -> m[a]
    BY <1>1, <2>1 DEF setup_page_tables, pml4, pdpt, pd, ApicGiB, Apics, a
  <2>3. t = 4 => Page((t - 4) * Entries + i) = Page(i)
    BY <1>2
  <2>4. 0 <= i /\ i < pages
    BY <1>2, <1>4 DEF Indices
  <2>5. QED
    BY <1>2, <2>1, <2>2, <2>3, <2>4 DEF Entry, a
<1>5. QED
  BY <1>2, <1>3, <1>4

\* The tables lie in guest memory, and below them and above nothing is written.
LEMMA TableCells ==
  ASSUME LoadTypes, pages >= 1, NEW t \in 1 .. 6, NEW i \in Indices
  PROVE  Cell(t, i) \in Guest /\ Cell(t, i) < ProgramBase
<1>1. pages * PageCells \in Nat /\ PageCells <= pages * PageCells
  BY GuestSize DEF LoadTypes
<1>2. Cell(t, i) \in Nat /\ Cell(t, i) < ProgramBase
  BY CellEntry, BlocksOrdered
<1>3. QED
  BY <1>1, <1>2, LayoutAssumption DEF Guest

LEMMA TablesBuilt ==
  ASSUME LoadTypes, pages >= 1, NEW n, \A a \in Guest : Image(n, a, mem[a])
  PROVE  Tables(setup_page_tables(setup_protected_mode(mem), pages), LastGiB)
<1> DEFINE m1 == setup_protected_mode(mem)
           m2 == setup_page_tables(m1, pages)
           E(t, i) == Entry(t, i, mem[Cell(t, i)], LastGiB)
<1>1. ASSUME NEW t \in 2 .. 6, NEW i \in Indices
      PROVE  m2[Cell(t, i)] = E(t, i) /\ Leftover(mem[Cell(t, i)])
  <2>1. Cell(t, i) \in Guest /\ Cell(t, i) < ProgramBase
    BY TableCells
  <2>2. Cell(t, i) \in DOMAIN m1 /\ m1[Cell(t, i)] = mem[Cell(t, i)]
    BY <2>1, BlocksOrdered DEF setup_protected_mode, gdt, LoadTypes
  <2> HIDE DEF m1
  <2>3. m2[Cell(t, i)] = Entry(t, i, m1[Cell(t, i)], LastGiB)
    BY <2>2, EntriesWritten
  <2>4. Leftover(mem[Cell(t, i)])
    BY <2>1, ProgramLeftover
  <2>5. QED
    BY <2>2, <2>3, <2>4
<1>2. /\ LastGiB \in {0, 1} /\ Entries \in Nat /\ Entries >= 4
      /\ 0 \in Indices /\ 1 \in Indices /\ 3 \in Indices /\ Apics \subseteq Indices
      /\ \A i \in Indices : i \in Int /\ 0 <= i
  BY EntriesAssumption DEF LastGiB, Indices, Apics
<1> HIDE DEF m2, E
<1>3. m2[Cell(2, 0)] = Table(3)
  BY <1>1, <1>2 DEF Entry, E
<1>4. \A i \in Indices : i # 0 => Leftover(m2[Cell(2, i)])
  BY <1>1, <1>2 DEF Entry, E
<1>5. m2[Cell(3, 3)] = Table(5 + LastGiB) /\ m2[Cell(3, 0)] = Table(4)
  BY <1>1, <1>2 DEF Entry, E
<1>6. LastGiB = 1 => m2[Cell(3, 1)] = Table(5)
  BY <1>1, <1>2 DEF Entry, E
<1>7. \A i \in Indices : i > LastGiB /\ i # 3 => Leftover(m2[Cell(3, i)])
  BY <1>1, <1>2 DEF Entry, E
<1>8. \A i \in Indices : m2[Cell(4, i)] = IF i < pages THEN Page(i) ELSE Absent
  BY <1>1, <1>2 DEF Entry, E
<1>9. LastGiB = 1 => \A i \in Indices : m2[Cell(5, i)] = Absent
  BY <1>1, <1>2 DEF Entry, E
<1>10. 5 + LastGiB \in 2 .. 6 /\ 5 + LastGiB \notin 4 .. (4 + LastGiB)
  BY <1>2
<1>11. \A i \in Apics : m2[Cell(5 + LastGiB, i)] = Page(3 * Entries + i)
  BY <1>1, <1>2, <1>10 DEF Entry, E
<1>12. \A i \in Indices \ Apics : Leftover(m2[Cell(5 + LastGiB, i)])
  BY <1>1, <1>2, <1>10 DEF Entry, E
<1>13. QED
  BY <1>3, <1>4, <1>5, <1>6, <1>7, <1>8, <1>9, <1>11, <1>12 DEF Tables, m2

LEMMA NothingAboveTables ==
  ASSUME LoadTypes, pages >= 1, NEW a \in Guest, a >= ProgramBase
  PROVE  setup_page_tables(setup_protected_mode(mem), pages)[a] = mem[a]
<1>1. a \in Nat /\ a \div Entries \in Int /\ a \div Entries >= 7
  BY AboveTables, LayoutAssumption, GuestSize DEF Guest, LoadTypes
<1>2. a # Cell(1, 1) /\ a # Cell(1, 2)
  BY EntriesAssumption, LayoutAssumption, <1>1 DEF Cell, pd
<1>3. last_index_lev3(pages) \in {0, 1}
  BY LastTable, EntriesAssumption DEF LoadTypes, last_index_lev3
<1>4. a \in DOMAIN setup_protected_mode(mem) /\ setup_protected_mode(mem)[a] = mem[a]
  BY <1>2 DEF setup_protected_mode, gdt, LoadTypes
<1> DEFINE t == a \div Entries
<1>5. /\ t # 2 /\ t # 3 /\ t \notin 4 .. (4 + last_index_lev3(pages))
      /\ t # 4 + last_index_lev3(pages) + 1
  BY <1>1, <1>3
<1>6. QED
  BY <1>4, <1>5 DEF setup_page_tables, pml4, pdpt, pd

(***************************************************************************)
(* The processor's walk over such tables finds what IdentityMapped says.   *)
(***************************************************************************)
LEMMA WalkOutcome ==
  ASSUME LoadTypes, pages >= 1, NEW m, Tables(m, LastGiB),
         NEW i4 \in Indices, NEW i3 \in Indices, NEW i2 \in Indices
  PROVE  LET p == i3 * Entries + i2
             frame == Walk(m, i4, i3, i2)
             mapped == /\ i4 = 0
                       /\ \/ p < pages
                          \/ i3 = ApicGiB /\ i2 \in {IoApicEntry, LocalApicEntry}
         IN  IF mapped THEN frame = p
             ELSE \/ frame = NotMapped
                  \/ /\ frame = Unknown
                     /\ \E k \in Loaded : \E a \in Touched(ProgramSegments[k]) :
                          a < ProgramBase
<1> DEFINE p == i3 * Entries + i2
           frame == Walk(m, i4, i3, i2)
           Excused == \E k \in Loaded : \E a \in Touched(ProgramSegments[k]) :
                        a < ProgramBase
           Empty(e) == e.tag \in {"zero", "absent"} \/ (e.tag = "bytes" /\ Excused)
           Result(e) == IF e.tag \in {"zero", "absent"} THEN NotMapped ELSE Unknown
           e4 == m[Cell(2, i4)]
           e3 == m[Cell(e4.at, i3)]
           e2 == m[Cell(e3.at, i2)]
<1>1. frame = IF e4.tag # "table" THEN Result(e4)
              ELSE IF e3.tag # "table" THEN Result(e3)
              ELSE IF e2.tag # "page" THEN Result(e2)
              ELSE e2.at
  BY DEF Walk, pml4
<1>2. \A v : Leftover(v) => Empty(v) /\ v.tag # "table" /\ v.tag # "page"
  <2> SUFFICES ASSUME NEW v, Leftover(v)
               PROVE  Empty(v) /\ v.tag # "table" /\ v.tag # "page"
    OBVIOUS
  <2>1. Zero.tag = "zero"
    BY DEF Zero, Content
  <2>2. v = Zero \/ (v.tag = "bytes" /\ Excused)
    BY DEF Leftover
  <2> HIDE DEF Excused
  <2>3. QED
    BY <2>1, <2>2
<1>3. Absent.tag = "absent"
  BY DEF Absent, Content
<1>4. \A t : Table(t).tag = "table" /\ Table(t).at = t
  BY DEF Table, Content
<1>5. \A q : Page(q).tag = "page" /\ Page(q).at = q
  BY DEF Page, Content
<1>6. /\ Entries \in Nat /\ Entries >= 4 /\ pages \in Int /\ pages <= Entries
      /\ i4 \in Int /\ i3 \in Int /\ i2 \in Int /\ 0 <= i3 /\ 0 <= i2 /\ i2 < Entries
      /\ LastGiB = IF pages = Entries THEN 1 ELSE 0
  BY EntriesAssumption DEF LoadTypes, Indices, LastGiB
<1>7. /\ p \in Int /\ (i3 = 0 => p = i2) /\ (i3 >= 1 => p >= Entries)
      /\ (i3 = 3 => p = 3 * Entries + i2)
  <2>1. i3 >= 1 => i3 * Entries >= 1 * Entries
    BY <1>6
  <2>2. i3 * Entries \in Int
    BY <1>6
  <2>3. QED
    BY <1>6, <2>1, <2>2
<1> HIDE DEF p, frame, Excused, e4, e3, e2
<1>8. CASE i4 # 0
  <2>1. Leftover(e4)
    BY <1>8 DEF Tables, e4
  <2>2. QED
    BY <1>1, <1>2, <1>8, <2>1 DEF frame, p, Excused
<1>9. CASE i4 = 0
  <2>1. e4 = Table(3) /\ e3 = m[Cell(3, i3)] /\ e4.tag = "table"
    BY <1>4, <1>9 DEF Tables, e4, e3
  <2>2. CASE i3 = 0
    <3>1. e3 = Table(4) /\ e2 = m[Cell(4, i2)] /\ e3.tag = "table"
      BY <1>4, <2>1, <2>2 DEF Tables, e2
    <3>2. e2 = IF i2 < pages THEN Page(i2) ELSE Absent
      BY <3>1 DEF Tables
    <3>3. i2 < pages => frame = i2
      BY <1>1, <1>5, <2>1, <3>1, <3>2
    <3>4. ~(i2 < pages) => frame = NotMapped
      BY <1>1, <1>3, <2>1, <3>1, <3>2
    <3>5. QED
      BY <1>7, <1>9, <2>2, <3>3, <3>4 DEF p, frame, ApicGiB
  <2>3. CASE i3 = 3
    <3>1. e3 = Table(5 + LastGiB) /\ e2 = m[Cell(5 + LastGiB, i2)] /\ e3.tag = "table"
      BY <1>4, <2>1, <2>3 DEF Tables, e2
    <3>2. CASE i2 \in Apics
      <4>1. e2 = Page(3 * Entries + i2)
        BY <3>1, <3>2 DEF Tables
      <4>2. frame = p
        BY <1>1, <1>5, <1>7, <2>1, <2>3, <3>1, <4>1
      <4>3. QED
        BY <1>9, <2>3, <3>2, <4>2 DEF p, frame, ApicGiB, Apics
    <3>3. CASE i2 \notin Apics
      <4>1. Leftover(e2)
        BY <3>1, <3>3 DEF Tables
      <4>2. ~(p < pages)
        BY <1>6, <1>7, <2>3
      <4>3. QED
        BY <1>1, <1>2, <2>1, <3>1, <3>3, <4>1, <4>2 DEF p, frame, Excused, Apics
    <3>4. QED
      BY <3>2, <3>3
  <2>4. CASE i3 \notin {0, 3}
    <3>1. ~(p < pages)
      BY <1>6, <1>7, <2>4
    <3>2. CASE LastGiB = 1 /\ i3 = 1
      <4>1. e3 = Table(5) /\ e2 = Absent
        BY <1>4, <2>1, <3>2 DEF Tables, e2
      <4>2. frame = NotMapped
        BY <1>1, <1>3, <1>4, <2>1, <4>1
      <4>3. QED
        BY <2>4, <3>1, <4>2 DEF p, frame, ApicGiB
    <3>3. CASE ~(LastGiB = 1 /\ i3 = 1)
      <4>1. i3 > LastGiB
        BY <1>6, <2>4, <3>3
      <4>2. Leftover(e3)
        BY <2>1, <2>4, <4>1 DEF Tables
      <4>3. QED
        BY <1>1, <1>2, <2>1, <2>4, <3>1, <4>2 DEF p, frame, Excused, ApicGiB
    <3>4. QED
      BY <3>2, <3>3
  <2>5. QED
    BY <2>2, <2>3, <2>4
<1>10. QED
  BY <1>8, <1>9

-----------------------------------------------------------------------------
(***************************************************************************)
(* The invariant of start-up, stage by stage.  Image and Leftover depend   *)
(* on the configuration and the memory size only.                          *)
(***************************************************************************)
LEMMA LoadFrame ==
  ASSUME UNCHANGED <<cfg, pages>>
  PROVE  /\ ProgramSegments' = ProgramSegments /\ Loaded' = Loaded
         /\ Guest' = Guest /\ LastGiB' = LastGiB
  BY DEF ProgramSegments, Loaded, Guest, LastGiB

LEMMA TablesFrame ==
  ASSUME UNCHANGED <<cfg, pages>>, Tables(mem', LastGiB)
  PROVE  Tables(mem, LastGiB)'
  BY LoadFrame DEF Tables, Leftover

LEMMA ProgramHeaders ==
  ASSUME LoadTypes
  PROVE  /\ LoadHeaders(ProgramSegments) /\ ProgramSegments \in Seq(Headers)
         /\ Len(ProgramSegments) \in Nat
         /\ DOMAIN ProgramSegments = 1 .. Len(ProgramSegments)
  BY ProgramAssumption DEF LoadTypes, ProgramSegments, LoadHeaders

LEMMA LoadInit == MonitorInit => LoadInv
<1> SUFFICES ASSUME MonitorInit PROVE LoadInv
  OBVIOUS
<1>1. cfg \in Configs /\ pages = 0 /\ mem = << >> /\ stage = "config"
  BY DEF MonitorInit, StartInit
<1>2. Guest = {}
  BY <1>1, LayoutAssumption DEF Guest
<1>3. DOMAIN mem = Guest
  BY <1>1, <1>2
<1>4. LoadTypes
  BY <1>1, <1>3, EntriesAssumption DEF LoadTypes
<1>5. QED
  BY <1>1, <1>4 DEF LoadInv, ProgramInv, BootInv, TablesInv, Built, Booting, LoaderInBounds

\* Steps that only move main from one stage to the next.
LEMMA MovingKeepsLoad ==
  ASSUME LoadInv, UNCHANGED <<cfg, pages, mem>>,
         \/ UNCHANGED <<stage, todo>>
         \/ stage' = "failed"
         \/ stage \in {"vcpu", "server"} /\ stage' \in {"server", "bootloader"}
         \/ stage \in Built /\ stage' \in Booting
  PROVE  LoadInv'
<1>1. /\ ProgramSegments' = ProgramSegments /\ Loaded' = Loaded
      /\ Guest' = Guest /\ LastGiB' = LastGiB
  BY LoadFrame
<1>2. LoadTypes'
  BY <1>1 DEF LoadInv, LoadTypes, Built, Booting
<1>3. ProgramInv'
  BY <1>1 DEF LoadInv, ProgramInv, Suffix, Image, Covers, Contents, Built, Booting
<1>4. BootInv'
  BY DEF LoadInv, BootInv, Booting
<1>5. TablesInv'
  <2>1. stage' \in Built => stage \in Built
    BY DEF Built, Booting
  <2>2. QED
    BY <2>1, TablesFrame DEF LoadInv, TablesInv
<1>6. LoaderInBounds'
  BY <1>1 DEF LoadInv, LoaderInBounds, Booting
<1>7. QED
  BY <1>2, <1>3, <1>4, <1>5, <1>6 DEF LoadInv

LEMMA ConfigureKeepsLoad ==
  ASSUME LoadInv, configure
  PROVE  LoadInv'
<1>1. /\ stage' = "program" /\ UNCHANGED cfg
      /\ pages' = GUEST_PHYSICAL_MEMORY_SIZE(cfg.memsize)
      /\ mem' = [a \in 0 .. (pages' * PageCells - 1) |-> Zero]
  BY DEF configure, At
<1>2. pages' \in 1 .. Entries
  BY <1>1, PagesInRange, ProgramAssumption DEF LoadInv, LoadTypes
<1>3. Guest' = 0 .. (pages' * PageCells - 1)
  BY DEF Guest
<1>4. DOMAIN mem' = Guest' /\ \A a \in Guest' : mem'[a] = Zero
  BY <1>1, <1>3
<1>5. LoadTypes'
  BY <1>1, <1>2, <1>4, EntriesAssumption DEF LoadInv, LoadTypes
<1>6. QED
  BY <1>1, <1>4, <1>5
     DEF LoadInv, ProgramInv, BootInv, TablesInv, Built, Booting, LoaderInBounds

\* Which segment the loop of estrai_segmento is at.
LEMMA NextSegment ==
  ASSUME NEW segments \in Seq(Headers), NEW rest, Suffix(rest, segments), rest # << >>
  PROVE  LET n == Len(segments) - Len(rest)
         IN  /\ n \in Nat /\ n < Len(segments) /\ Head(rest) = segments[n + 1]
             /\ Suffix(Tail(rest), segments)
             /\ Len(segments) - Len(Tail(rest)) = n + 1
<1> DEFINE n == Len(segments) - Len(rest)
<1>1. /\ rest \in Seq(Headers) /\ Len(rest) \in Nat /\ Len(segments) \in Nat
      /\ Len(rest) >= 1 /\ Len(rest) <= Len(segments)
      /\ \A i \in 1 .. Len(rest) : rest[i] = segments[n + i]
  BY DEF Suffix
<1>2. /\ Tail(rest) \in Seq(Headers) /\ Len(Tail(rest)) = Len(rest) - 1
      /\ Head(rest) = rest[1]
      /\ \A i \in 1 .. (Len(rest) - 1) : Tail(rest)[i] = rest[i + 1]
  BY <1>1
<1>3. Len(segments) - Len(Tail(rest)) = n + 1
  BY <1>1, <1>2
<1>4. \A i \in 1 .. (Len(rest) - 1) : rest[i + 1] = segments[n + 1 + i]
  <2> TAKE i \in 1 .. (Len(rest) - 1)
  <2>1. i + 1 \in 1 .. Len(rest) /\ n + (i + 1) = n + 1 + i
    BY <1>1
  <2>2. QED
    BY <1>1, <2>1
<1>5. Suffix(Tail(rest), segments)
  BY <1>1, <1>2, <1>3, <1>4 DEF Suffix
<1>6. n \in Nat /\ n < Len(segments) /\ rest[1] = segments[n + 1]
  BY <1>1
<1>7. QED
  BY <1>2, <1>3, <1>5, <1>6

LEMMA ProgramKeepsLoad ==
  ASSUME LoadInv, load_program
  PROVE  LoadInv'
<1> DEFINE segs == ProgramSegments
           n == Len(segs) - Len(todo)
           h == Head(todo)
<1>1. LoadTypes /\ ProgramInv
  BY DEF LoadInv
<1>2. /\ LoadHeaders(segs) /\ segs \in Seq(Headers) /\ Len(segs) \in Nat
      /\ DOMAIN segs = 1 .. Len(segs)
  BY <1>1, ProgramHeaders
<1>3. /\ UNCHANGED <<cfg, pages>> /\ segs' = segs /\ Loaded' = Loaded /\ Guest' = Guest
  <2>1. UNCHANGED <<cfg, pages>>
    BY DEF load_program, estrai_open, estrai_next, estrai_done
  <2>2. QED
    BY <2>1, LoadFrame
<1>4. CASE estrai_open(cfg.exe, "program", "segments")
  <2>1. /\ stage = "program" /\ stage' = "segments" /\ todo' = segs /\ mem' = mem
    BY <1>4 DEF estrai_open, At, ProgramSegments
  <2>2. Suffix(todo', segs) /\ Len(segs) - Len(todo') = 0
    BY <1>2, <2>1 DEF Suffix
  <2>3. \A a \in Guest : Image(0, a, mem[a])
    BY <1>1, <2>1 DEF ProgramInv, Image
  <2>4. ProgramInv'
    BY <1>3, <2>1, <2>2, <2>3
       DEF ProgramInv, Built, Booting, Image, Covers, Contents
  <2>5. QED
    BY <1>1, <1>3, <2>1, <2>4
       DEF LoadInv, LoadTypes, BootInv, TablesInv, Built, Booting, LoaderInBounds
<1>5. CASE estrai_next("segments", 1 + Len(segs) - Len(todo), pages * PageCells)
  <2>1. /\ stage = "segments" /\ todo # << >> /\ todo' = Tail(todo)
        /\ IF Fits(h, pages * PageCells)
             THEN /\ mem' = copia_segmento(mem, h, 1 + Len(segs) - Len(todo))
                  /\ stage' = IF Touched(h) \subseteq Guest THEN "segments" ELSE "undefined"
             ELSE UNCHANGED <<mem, stage>>
    BY <1>5 DEF estrai_next
  <2>2. /\ n \in Nat /\ n < Len(segs) /\ h = segs[n + 1]
        /\ Suffix(todo', segs) /\ Len(segs) - Len(todo') = n + 1
    BY <1>1, <1>2, <2>1, NextSegment DEF ProgramInv
  <2>3. 1 + Len(segs) - Len(todo) = n + 1
    BY <1>1, <1>2, <2>1 DEF ProgramInv, Suffix
  <2>4. \A a \in Guest : a \in Int /\ a \in DOMAIN mem /\ Image(n, a, mem[a])
    BY <1>1, <2>1, GuestSize DEF ProgramInv, LoadTypes, Guest
  <2>5. DOMAIN mem' = Guest /\ \A a \in Guest : Image(n + 1, a, mem'[a])
    <3>1. CASE Fits(h, pages * PageCells)
      <4>1. mem' = copia_segmento(mem, segs[n + 1], n + 1)
        BY <2>1, <2>2, <2>3, <3>1
      <4>2. DOMAIN mem' = Guest
        BY <1>1, <4>1 DEF copia_segmento, LoadTypes
      <4>3. ASSUME NEW a \in Guest PROVE Image(n + 1, a, mem'[a])
        BY <1>2, <2>2, <2>4, <3>1, <4>1, SegmentCopied
      <4>4. QED
        BY <4>2, <4>3
    <3>2. CASE ~Fits(h, pages * PageCells)
      <4>1. mem' = mem
        BY <2>1, <3>2
      <4>2. ASSUME NEW a \in Guest PROVE Image(n + 1, a, mem[a])
        BY <1>2, <2>2, <2>4, <3>2, SegmentSkipped
      <4>3. QED
        BY <1>1, <4>1, <4>2 DEF LoadTypes
    <3>3. QED
      BY <3>1, <3>2
  <2>6. stage' \in {"segments", "undefined"}
    BY <2>1
  <2>7. stage' = "undefined" => \E k \in DOMAIN segs : ~WellFormed(segs[k])
    <3> SUFFICES ASSUME stage' = "undefined", WellFormed(h) PROVE FALSE
      BY <1>2, <2>2
    <3>1. Fits(h, pages * PageCells) /\ ~(Touched(h) \subseteq Guest)
      BY <2>1
    <3>2. h \in Headers /\ h.present <= h.filesz
      BY <1>2, <2>2 DEF LoadHeaders
    <3>3. pages * PageCells \in Nat
      BY <1>1, GuestSize DEF LoadTypes
    <3>4. ASSUME NEW a \in Touched(h) PROVE a \in Guest
      <4>1. a \in Int
        BY <3>2, TouchedInt
      <4>2. 0 <= a /\ a < pages * PageCells
        BY <3>1, <3>2, <3>3, <4>1, WellFormedInside
      <4>3. QED
        BY <3>3, <4>1, <4>2 DEF Guest
    <3>5. QED
      BY <3>1, <3>4
  <2> HIDE DEF n, h, segs
  <2>8. ProgramInv'
    BY <1>3, <2>2, <2>5, <2>6
       DEF ProgramInv, Built, Booting, Image, Covers, Contents, segs
  <2>9. LoaderInBounds'
    BY <1>3, <2>7 DEF LoaderInBounds, segs
  <2>10. LoadTypes'
    BY <1>1, <1>3, <2>1, <2>5 DEF LoadTypes
  <2>11. QED
    BY <2>6, <2>8, <2>9, <2>10 DEF LoadInv, BootInv, TablesInv, Built, Booting
<1>6. CASE estrai_done("segments", "vcpu")
  <2>1. stage = "segments" /\ stage' = "vcpu" /\ todo = << >> /\ mem' = mem
    BY <1>6 DEF estrai_done, At
  <2>2. n = Len(segs)
    BY <1>2, <2>1
  <2>3. \A a \in Guest : Image(Len(segs), a, mem[a])
    BY <1>1, <2>1, <2>2 DEF ProgramInv
  <2>4. ProgramInv'
    BY <1>3, <2>1, <2>3 DEF ProgramInv, Built, Booting, Image, Covers, Contents
  <2>5. QED
    BY <1>1, <1>3, <2>1, <2>4
       DEF LoadInv, LoadTypes, BootInv, TablesInv, Built, Booting, LoaderInBounds
<1>7. QED
  BY <1>4, <1>5, <1>6 DEF load_program, ProgramSegments

\* Bootloader::run_long_mode.
LEMMA LongModeKeepsLoad ==
  ASSUME LoadInv, run_long_mode
  PROVE  LoadInv'
<1>1. /\ stage = "bootloader" /\ stage' = "boot64" /\ UNCHANGED <<cfg, pages>>
      /\ mem' = setup_page_tables(setup_protected_mode(mem), pages)
  BY DEF run_long_mode, At
<1>2. /\ LoadTypes /\ pages >= 1
      /\ \A a \in Guest : Image(Len(ProgramSegments), a, mem[a])
  BY <1>1 DEF LoadInv, LoadTypes, ProgramInv
<1>3. /\ ProgramSegments' = ProgramSegments /\ Loaded' = Loaded
      /\ Guest' = Guest /\ LastGiB' = LastGiB
  BY <1>1, LoadFrame
<1>4. DOMAIN mem' = Guest
  BY <1>1, <1>2 DEF setup_page_tables, setup_protected_mode, LoadTypes
<1>5. Tables(mem', LastGiB)
  BY <1>1, <1>2, TablesBuilt
<1>6. TablesInv'
  BY <1>1, <1>5, TablesFrame DEF TablesInv
<1>7. ASSUME NEW a \in Guest, a >= ProgramBase
      PROVE  Image(Len(ProgramSegments), a, mem'[a])
  <2>1. mem'[a] = mem[a]
    BY <1>1, <1>2, <1>7, NothingAboveTables
  <2>2. QED
    BY <1>2, <2>1
<1>8. ProgramInv'
  BY <1>1, <1>3, <1>7 DEF ProgramInv, Built, Booting, Image, Covers, Contents
<1>9. LoadTypes'
  BY <1>1, <1>2, <1>3, <1>4 DEF LoadTypes
<1>10. QED
  BY <1>1, <1>6, <1>8, <1>9 DEF LoadInv, BootInv, LoaderInBounds

\* The boot code stays below the tables.
LEMMA BootKeepsLoad ==
  ASSUME LoadInv, load_boot64
  PROVE  LoadInv'
<1>1. LoadTypes /\ ProgramInv /\ BootInv /\ TablesInv
  BY DEF LoadInv
<1>2. UNCHANGED <<cfg, pages>>
  BY DEF load_boot64, estrai_open, estrai_next, estrai_done
<1>3. /\ ProgramSegments' = ProgramSegments /\ Loaded' = Loaded
      /\ Guest' = Guest /\ LastGiB' = LastGiB
  BY <1>2, LoadFrame
<1>4. CASE estrai_open(Boot64, "boot64", "boot_segments")
  <2>1. /\ stage = "boot64" /\ stage' = "boot_segments" /\ todo' = Segments(Boot64)
        /\ mem' = mem
    BY <1>4 DEF estrai_open, At
  <2>2. BootInv'
    BY <2>1, BootAssumption DEF BootInv, LoadHeaders
  <2>3. ProgramInv'
    BY <1>1, <1>3, <2>1 DEF ProgramInv, Built, Booting, Image, Covers, Contents
  <2>4. TablesInv'
    BY <1>1, <1>2, <2>1, TablesFrame DEF TablesInv, Built
  <2>5. QED
    BY <1>1, <1>2, <1>3, <2>1, <2>2, <2>3, <2>4 DEF LoadInv, LoadTypes, LoaderInBounds
<1>5. CASE estrai_next("boot_segments", 0, BootLimit)
  <2> DEFINE h == Head(todo)
  <2>1. /\ stage = "boot_segments" /\ todo # << >> /\ todo' = Tail(todo)
        /\ IF Fits(h, BootLimit)
             THEN /\ mem' = copia_segmento(mem, h, 0)
                  /\ stage' = IF Touched(h) \subseteq Guest THEN "boot_segments"
                              ELSE "undefined"
             ELSE UNCHANGED <<mem, stage>>
    BY <1>5 DEF estrai_next
  <2>2. /\ todo \in Seq(Headers) /\ h \in Headers /\ WellFormed(h) /\ h.present <= h.filesz
        /\ todo' \in Seq(Headers)
        /\ \A i \in 1 .. Len(todo') :
             WellFormed(todo'[i]) /\ todo'[i].present <= todo'[i].filesz
    <3>1. /\ todo \in Seq(Headers) /\ Len(todo) >= 1
          /\ \A i \in 1 .. Len(todo) :
               WellFormed(todo[i]) /\ todo[i].present <= todo[i].filesz
      BY <1>1, <2>1 DEF BootInv
    <3>2. h = todo[1] /\ h \in Headers
      BY <3>1
    <3>3. /\ todo' \in Seq(Headers) /\ Len(todo') = Len(todo) - 1
          /\ \A i \in 1 .. Len(todo') : todo'[i] = todo[i + 1] /\ i + 1 \in 1 .. Len(todo)
      BY <2>1, <3>1
    <3>4. QED
      BY <3>1, <3>2, <3>3
  <2>3. BootLimit \in Nat /\ BootLimit <= ProgramBase /\ BootLimit = Cell(1, 0)
    BY EntriesAssumption, LayoutAssumption DEF BootLimit, Cell, gdt, pd
  <2>4. /\ pages \in 0 .. Entries /\ pages >= 1 /\ pages * PageCells \in Nat
        /\ ProgramBase <= pages * PageCells /\ ProgramBase \in Nat
    <3>1. pages \in 0 .. Entries /\ pages >= 1
      BY <1>1, <2>1 DEF LoadTypes
    <3>2. pages * PageCells \in Nat /\ PageCells <= pages * PageCells
      BY <3>1, GuestSize
    <3>3. QED
      BY <3>1, <3>2, LayoutAssumption
  <2>5. ASSUME Fits(h, BootLimit), NEW a \in Touched(h)
        PROVE  a \in Int /\ 0 <= a /\ a < BootLimit
    <3>1. a \in Int
      BY <2>2, TouchedInt
    <3>2. QED
      BY <2>2, <2>3, <2>5, <3>1, WellFormedInside
  <2>6. Fits(h, BootLimit) => Touched(h) \subseteq Guest
    <3>1. ASSUME Fits(h, BootLimit), NEW a \in Touched(h) PROVE a \in Guest
      BY <2>3, <2>4, <2>5, <3>1 DEF Guest
    <3>2. QED
      BY <3>1
  <2>7. stage' = "boot_segments" /\ DOMAIN mem' = Guest
    BY <1>1, <2>1, <2>6 DEF LoadTypes, copia_segmento
  <2>8. ASSUME NEW a \in Guest, a >= BootLimit
        PROVE  mem'[a] = mem[a]
    <3>1. CASE ~Fits(h, BootLimit)
      BY <2>1, <3>1
    <3>2. CASE Fits(h, BootLimit)
      <4>1. a \in Int /\ a \in DOMAIN mem
        BY <1>1, <2>4 DEF Guest, LoadTypes
      <4>2. a \notin Touched(h)
        BY <2>3, <2>5, <2>8, <3>2, <4>1
      <4>3. a - h.vaddr \notin 0 .. (h.present - 1) \cup h.filesz .. (h.memsz - 1)
        BY <2>2, <4>1, <4>2, TouchedOffset
      <4>4. mem' = copia_segmento(mem, h, 0)
        BY <2>1, <3>2
      <4> HIDE DEF h
      <4>5. QED
        BY <4>1, <4>3, <4>4 DEF copia_segmento
    <3>3. QED
      BY <3>1, <3>2
  <2>9. ProgramInv'
    <3>1. ASSUME NEW a \in Guest, a >= ProgramBase
          PROVE  Image(Len(ProgramSegments), a, mem'[a])
      <4>1. a \in Int
        BY <2>4 DEF Guest
      <4>2. mem'[a] = mem[a]
        BY <2>3, <2>4, <2>8, <3>1, <4>1
      <4>3. QED
        BY <1>1, <2>1, <3>1, <4>2 DEF ProgramInv, Built
    <3>2. QED
      BY <1>3, <2>7, <3>1 DEF ProgramInv, Built, Booting, Image, Covers, Contents
  <2>10. TablesInv'
    <3>1. ASSUME NEW t \in 2 .. 6, NEW i \in Indices
          PROVE  mem'[Cell(t, i)] = mem[Cell(t, i)]
      <4>1. Cell(t, i) \in Guest /\ Cell(t, i) >= BootLimit
        BY <1>1, <2>3, <2>4, TableCells, BlocksOrdered
      <4>2. QED
        BY <2>8, <4>1
    <3>2. /\ LastGiB \in {0, 1} /\ 0 \in Indices /\ 1 \in Indices /\ 3 \in Indices
          /\ Apics \subseteq Indices /\ 5 + LastGiB \in 2 .. 6
      BY EntriesAssumption DEF LastGiB, Indices, Apics
    <3>3. Tables(mem, LastGiB)
      BY <1>1, <2>1 DEF TablesInv, Built
    <3>4. Tables(mem', LastGiB)
      BY <3>1, <3>2, <3>3 DEF Tables
    <3>5. QED
      BY <1>2, <3>4, TablesFrame DEF TablesInv
  <2>11. QED
    BY <1>1, <1>2, <1>3, <2>2, <2>4, <2>7, <2>9, <2>10
       DEF LoadInv, LoadTypes, BootInv, LoaderInBounds
<1>6. CASE estrai_done("boot_segments", "initIO")
  <2>1. /\ stage = "boot_segments" /\ stage' = "initIO" /\ UNCHANGED <<cfg, pages, mem>>
    BY <1>6 DEF estrai_done, At
  <2>2. stage \in Built /\ stage' \in Booting
    BY <2>1 DEF Built, Booting
  <2>3. QED
    BY <2>1, <2>2, MovingKeepsLoad
<1>7. QED
  BY <1>4, <1>5, <1>6 DEF load_boot64

LEMMA LoadStep == LoadInv /\ [MonitorNext]_monitorVars => LoadInv'
<1> SUFFICES ASSUME LoadInv, [MonitorNext]_monitorVars PROVE LoadInv'
  OBVIOUS
<1>1. CASE start
  <2>1. StartStep
    BY <1>1 DEF start
  <2>2. CASE create_vcpu
    BY <2>2, MovingKeepsLoad DEF create_vcpu, At
  <2>3. QED
    BY <2>1, <2>2, ConfigureKeepsLoad, ProgramKeepsLoad, LongModeKeepsLoad, BootKeepsLoad
       DEF StartStep
<1>2. CASE start_debug_server
  BY <1>2, MovingKeepsLoad DEF start_debug_server, At
<1>3. CASE getInstance_in \/ getInstance_out \/ register_endIO \/ catch_SIGINT
  <2>1. /\ stage \in Booting /\ stage' \in Booting /\ UNCHANGED <<cfg, pages, mem>>
    BY <1>3 DEF getInstance_in, getInstance_out, register_endIO, catch_SIGINT,
                Starting, At, Booting
  <2>2. QED
    BY <2>1, MovingKeepsLoad DEF Built
<1>4. CASE give_up
  BY <1>4, MovingKeepsLoad DEF give_up, start_fails
<1>5. CASE UNCHANGED startVars
  BY <1>5, MovingKeepsLoad DEF startVars
<1>6. CASE vCPU
  BY <1>5, <1>6 DEF vCPU, KVM_RUN, KVM_EXIT, KVM_EXIT_return, Running
<1>7. CASE SIGINT
  BY <1>5, <1>7 DEF SIGINT
<1>8. CASE \E t \in Threads : Terminate(t)
  <2>1. UNCHANGED startVars
    BY <1>8 DEF Terminate, endIO_out, endIO_in, endIO_delete, exit_handler, destroy,
                exit_process, Ending
  <2>2. QED
    BY <1>5, <2>1
<1>9. CASE \E c \in Clients : Serve(c) \/ GetRegs(c) \/ Use(c) \/ Abandon(c)
  BY <1>5, <1>9, ConnectionEffect
<1>10. CASE UNCHANGED monitorVars
  BY <1>5, <1>10 DEF monitorVars
<1>11. QED
  BY <1>1, <1>2, <1>3, <1>4, <1>6, <1>7, <1>8, <1>9, <1>10 DEF MonitorNext, MainStep

(***************************************************************************)
(* What is in guest memory at every stage of main, for every executable,   *)
(* every memory size and every geometry of the tables.                     *)
(***************************************************************************)
THEOREM LoadInvariant == MonitorSpec => []LoadInv
  BY LoadInit, LoadStep, PTL DEF MonitorSpec

(***************************************************************************)
(* Only a malformed header takes copia_segmento outside guest memory.      *)
(***************************************************************************)
THEOREM LoaderSafe == MonitorSpec => []LoaderInBounds
  BY LoadInvariant, PTL DEF LoadInv

(***************************************************************************)
(* The program is in guest memory, above ProgramBase, as its headers say,  *)
(* when the guest starts (estrai_segmento, Bootloader::run_long_mode).     *)
(***************************************************************************)
THEOREM ProgramLoaded == MonitorSpec => []ImageIntact
<1>1. LoadInv => ImageIntact
  <2> SUFFICES ASSUME LoadInv, Booted, NEW a \in Guest, a >= ProgramBase
               PROVE  mem[a] = FromImage(a)
    BY DEF ImageIntact
  <2>1. stage \in Built
    BY DEF Booted, Built, Booting
  <2>2. Image(Len(ProgramSegments), a, mem[a])
    BY <2>1 DEF LoadInv, ProgramInv
  <2>3. QED
    BY <2>2, ProgramHeaders, WholeImage DEF LoadInv
<1>2. QED
  BY <1>1, LoadInvariant, PTL

(***************************************************************************)
(* The guest starts in an address space that maps its memory and the two   *)
(* APICs one to one and nothing else (Bootloader::setup_page_tables).      *)
(***************************************************************************)
THEOREM AddressSpaceCorrect == MonitorSpec => []IdentityMapped
<1>1. LoadInv => IdentityMapped
  <2> SUFFICES ASSUME LoadInv, Booted,
                      NEW i4 \in Indices, NEW i3 \in Indices, NEW i2 \in Indices
               PROVE  LET p == i3 * Entries + i2
                          frame == Walk(mem, i4, i3, i2)
                          mapped == /\ i4 = 0
                                    /\ \/ p < pages
                                       \/ i3 = ApicGiB /\ i2 \in {IoApicEntry, LocalApicEntry}
                      IN  IF mapped THEN frame = p
                          ELSE \/ frame = NotMapped
                               \/ /\ frame = Unknown
                                  /\ \E k \in Loaded :
                                       \E a \in Touched(ProgramSegments[k]) :
                                         a < ProgramBase
    BY DEF IdentityMapped, Indices
  <2>1. /\ stage \in Built /\ stage \notin {"config", "failed"}
    BY DEF Booted, Built, Booting
  <2>2. LoadTypes /\ pages >= 1 /\ Tables(mem, LastGiB)
    BY <2>1 DEF LoadInv, LoadTypes, TablesInv
  <2>3. QED
    BY <2>2, WalkOutcome
<1>2. QED
  BY <1>1, LoadInvariant, PTL

-----------------------------------------------------------------------------
(***************************************************************************)
(* The debug server.  Each client has its own worker, buffer and pair of   *)
(* streams; only the process itself is shared.                             *)
(***************************************************************************)
Quiet == {"none", "recv", "returned"}
Serving == {"dump", "info", "get_regs", "get_sregs", "regs", "sregs"}
Streams == {"open", "closed", "reset"}

ConnTypes ==
  /\ link \in [Clients -> {"off", "backlog", "worker"}]
  /\ worker \in [Clients -> Quiet \cup Serving]
  /\ my_buf \in [Clients -> Messages \cup {NULL}]
  /\ client \in [Clients -> {"off", "idle", "await", "done", "left"}]
  /\ script \in [Clients -> Seq(Requests)]
  /\ due \in [Clients -> Seq(Messages)]
  /\ peer \in [Clients -> Streams]
  /\ toServer \in [Clients -> Seq(Messages)]
  /\ toClient \in [Clients -> Seq(Messages)]
  /\ asked \in [Clients -> Seq(Messages)]
  /\ shown \in [Clients -> Seq(Messages \cup {NULL})]
  /\ torn \in [Clients -> SUBSET {"request", "answer"}]

(***************************************************************************)
(* What holds of a connection whatever happens to its messages: a worker   *)
(* that is waiting holds nothing it could take for a request, and unless a *)
(* request was torn only requests are on their way to it, one of them      *)
(* still unread if its buffer is null after the client has asked.          *)
(***************************************************************************)
Requested(b) == b # NULL /\ b.type \in {"REQ_DUMP_MEM", "REQ_INFO"}

Plumbing(c) ==
  /\ debug_serv = "null" => client[c] = "off"
  /\ client[c] = "off" =>
       /\ link[c] = "off" /\ due[c] = << >> /\ toServer[c] = << >>
       /\ toClient[c] = << >> /\ asked[c] = << >> /\ shown[c] = << >>
  /\ link[c] # "worker" => worker[c] = "none" /\ my_buf[c] = NULL
  /\ worker[c] \in {"none", "recv"} => ~Requested(my_buf[c])
  /\ worker[c] \in Serving => my_buf[c] # NULL
  /\ peer[c] # "open" <=> client[c] \in {"done", "left"}
  /\ "request" \notin torn[c] =>
       /\ toServer[c] \in Seq(Requests)
       /\ my_buf[c] = NULL /\ asked[c] # << >> => toServer[c] # << >>
  /\ client[c] = "await" => due[c] # << >>

(***************************************************************************)
(* A conversation in which no message was torn: what was asked for is what *)
(* was printed and what is due, and what is due is on its way, in order.   *)
(***************************************************************************)
Owed(w, b) ==
  CASE w = "dump"  -> <<Message("DUMP", b.start, b.end)>>
    [] w = "info"  -> <<info, regs, sregs>>
    [] w \in {"get_regs", "get_sregs", "regs"} -> <<regs, sregs>>
    [] w = "sregs" -> <<sregs>>
    [] OTHER       -> << >>

Bounded(answers) ==
  \A i \in 1 .. Len(answers) : /\ answers[i].end <= pages * PageCells
                               /\ answers[i].type # "REMAINDER"

Asking(c) ==
  /\ toServer[c] # << >> /\ toClient[c] = << >> /\ worker[c] \in Quiet
  /\ LET m == Head(toServer[c])
     IN  m \in Requests /\ toServer[c] = <<m>> /\ due[c] = AnswersTo(m)
Answering(c) ==
  /\ toServer[c] = << >> /\ due[c] = toClient[c] \o Owed(worker[c], my_buf[c])
  /\ worker[c] = "dump" => toClient[c] = << >> /\ my_buf[c] \in Requests
Refused(c) ==
  toServer[c] = << >> /\ toClient[c] = << >> /\ worker[c] \in Quiet

Talking(c) ==
  /\ shown[c] \in Seq(Messages) /\ asked[c] = shown[c] \o due[c]
  /\ Bounded(shown[c]) /\ Bounded(toClient[c])
  /\ client[c] \in {"off", "idle", "done"} =>
       /\ due[c] = << >> /\ toServer[c] = << >> /\ toClient[c] = << >>
       /\ worker[c] \in Quiet
  /\ client[c] = "await" => Asking(c) \/ Answering(c) \/ Refused(c)

Connected(c) == Plumbing(c) /\ (monitor = "up" /\ torn[c] = {} => Talking(c))

ServerInv ==
  /\ ConnTypes
  /\ stage = "config" => debug_serv = "null"
  /\ \A c \in Clients : Connected(c)

-----------------------------------------------------------------------------
\* Facts about sequences: an answer added at the back, one taken at the front.
LEMMA AddedBehind ==
  ASSUME NEW S, NEW q \in Seq(S), NEW r \in Seq(S), NEW x \in S
  PROVE  Append(q, x) \o r = q \o (<<x>> \o r)
<1>1. <<x>> \in Seq(S)
  OBVIOUS
<1>2. Append(q, x) = q \o <<x>>
  BY AppendIsConcat
<1>3. QED
  BY <1>1, <1>2, ConcatAssociative

\* A sequence written out, as its first element before the others.
LEMMA FirstBefore ==
  ASSUME NEW S, NEW s \in Seq(S), Len(s) >= 1, NEW x, x = s[1], NEW t \in Seq(S),
         Len(t) = Len(s) - 1, \A i \in 1 .. Len(t) : t[i] = s[i + 1]
  PROVE  s = <<x>> \o t
<1> DEFINE u == <<x>> \o t
<1>1. Len(s) \in Nat \ {0} /\ Len(t) \in Nat
  BY LenProperties
<1>2. x \in S
  BY <1>1
<1>3. u \in Seq(S) /\ Len(u) = Len(t) + 1 /\ u # << >> /\ Head(u) = x /\ Tail(u) = t
  BY <1>2
<1>4. QED
  BY <1>1, <1>3

LEMMA PairSplit ==
  ASSUME NEW S, NEW x \in S, NEW y \in S
  PROVE  <<x, y>> = <<x>> \o <<y>>
<1> DEFINE s == <<x, y>>
           t == <<y>>
<1>1. t \in Seq(S) /\ s \in Seq(S) /\ Len(t) = 1 /\ Len(s) = 2
  OBVIOUS
<1>2. s[1] = x /\ s[2] = y /\ t[1] = y
  OBVIOUS
<1> HIDE DEF s, t
<1>3. \A i \in 1 .. 1 : i = 1 /\ i + 1 = 2
  OBVIOUS
<1>4. \A i \in 1 .. Len(t) : t[i] = s[i + 1]
  BY <1>1, <1>2, <1>3
<1>5. Len(s) >= 1 /\ Len(t) = Len(s) - 1
  BY <1>1
<1>6. s = <<x>> \o t
  BY <1>1, <1>2, <1>4, <1>5, FirstBefore
<1>7. QED
  BY <1>6 DEF s, t

LEMMA TripleSplit ==
  ASSUME NEW S, NEW x \in S, NEW y \in S, NEW z \in S
  PROVE  <<x, y, z>> = <<x>> \o <<y, z>>
<1> DEFINE s == <<x, y, z>>
           t == <<y, z>>
<1>1. t \in Seq(S) /\ s \in Seq(S) /\ Len(t) = 2 /\ Len(s) = 3
  OBVIOUS
<1>2. s[1] = x /\ s[2] = y /\ s[3] = z /\ t[1] = y /\ t[2] = z
  OBVIOUS
<1> HIDE DEF s, t
<1>3. \A i \in 1 .. 2 : (i = 1 /\ i + 1 = 2) \/ (i = 2 /\ i + 1 = 3)
  OBVIOUS
<1>4. \A i \in 1 .. Len(t) : t[i] = s[i + 1]
  BY <1>1, <1>2, <1>3
<1>5. Len(s) >= 1 /\ Len(t) = Len(s) - 1
  BY <1>1
<1>6. s = <<x>> \o t
  BY <1>1, <1>2, <1>4, <1>5, FirstBefore
<1>7. QED
  BY <1>6 DEF s, t

LEMMA TakenBefore ==
  ASSUME NEW S, NEW q \in Seq(S), q # << >>, NEW r \in Seq(S)
  PROVE  /\ q \o r # << >> /\ Head(q \o r) = Head(q) /\ Tail(q \o r) = Tail(q) \o r
<1> DEFINE s == q \o r
           u == Tail(q) \o r
<1>1. Len(q) \in Nat /\ Len(q) >= 1 /\ Len(r) \in Nat
  BY EmptySeq, LenProperties
<1>2. /\ s \in Seq(S) /\ Len(s) = Len(q) + Len(r)
      /\ \A i \in 1 .. Len(q) + Len(r) : s[i] = IF i <= Len(q) THEN q[i] ELSE r[i - Len(q)]
  BY ConcatProperties
<1>3. /\ Tail(q) \in Seq(S) /\ Len(Tail(q)) = Len(q) - 1 /\ Head(q) = q[1]
      /\ \A i \in 1 .. Len(Tail(q)) : Tail(q)[i] = q[i + 1]
  BY HeadTailProperties
<1>4. /\ u \in Seq(S) /\ Len(u) = Len(q) - 1 + Len(r)
      /\ \A i \in 1 .. Len(q) - 1 + Len(r) :
           u[i] = IF i <= Len(q) - 1 THEN Tail(q)[i] ELSE r[i - (Len(q) - 1)]
  BY <1>3, ConcatProperties
<1> HIDE DEF s, u
<1>5. s # << >> /\ Head(s) = q[1]
  BY <1>1, <1>2
<1>6. Tail(s) \in Seq(S) /\ Len(Tail(s)) = Len(s) - 1 /\ \A i \in 1 .. Len(s) - 1 : Tail(s)[i] = s[i + 1]
  BY <1>2, <1>5, HeadTailProperties
<1>7. ASSUME NEW i \in 1 .. Len(u) PROVE Tail(s)[i] = u[i]
  <2>1. /\ i \in Int /\ i \in 1 .. Len(q) - 1 + Len(r) /\ i \in 1 .. Len(s) - 1
        /\ i + 1 \in 1 .. Len(q) + Len(r)
    BY <1>1, <1>2, <1>4, <1>7
  <2>2. Tail(s)[i] = s[i + 1]
    BY <1>6, <2>1
  <2>3. CASE i <= Len(q) - 1
    BY <1>1, <1>2, <1>3, <1>4, <2>1, <2>2, <2>3
  <2>4. CASE i > Len(q) - 1
    <3>1. /\ i + 1 - Len(q) = i - (Len(q) - 1)
          /\ ~(i + 1 <= Len(q)) /\ ~(i <= Len(q) - 1)
      BY <1>1, <2>1, <2>4
    <3>2. s[i + 1] = r[i + 1 - Len(q)]
      BY <1>2, <2>1, <3>1
    <3>3. u[i] = r[i - (Len(q) - 1)]
      BY <1>4, <2>1, <3>1
    <3>4. QED
      BY <2>2, <3>1, <3>2, <3>3
  <2>5. QED
    BY <1>1, <2>1, <2>3, <2>4
<1>8. Len(Tail(s)) = Len(u)
  BY <1>1, <1>2, <1>4, <1>6
<1>9. Tail(s) = u
  BY <1>4, <1>6, <1>7, <1>8, SeqEqual
<1>10. QED
  BY <1>3, <1>5, <1>9 DEF s, u

LEMMA BeginningIsPrefix ==
  ASSUME NEW S, NEW s \in Seq(S), NEW r \in Seq(S)
  PROVE  IsPrefix(s, s \o r)
<1>1. Len(s) \in Nat /\ Len(r) \in Nat /\ Len(s \o r) = Len(s) + Len(r) /\ s \o r \in Seq(S)
  BY LenProperties, ConcatProperties
<1>2. SubSeq(s, 1, Len(s)) = SubSeq(s \o r, 1, Len(s))
  BY <1>1, ConcatProperties
<1>3. QED
  BY <1>1, <1>2 DEF IsPrefix

\* The messages of the protocol.
LEMMA MessagesAre ==
  /\ info \in Messages /\ regs \in Messages /\ sregs \in Messages
  /\ Blank \in Messages /\ Garbled \subseteq Messages
  /\ \A n \in Nat : Remainder(n) \in Messages /\ Remainder(n).type = "REMAINDER"
  /\ \A x \in {info, regs, sregs} : x.end = 0 /\ x.type # "REMAINDER"
  /\ \A m \in Requests : m \in Messages /\ m.type \in {"REQ_DUMP_MEM", "REQ_INFO"}
                         /\ m.start \in Nat /\ m.end \in Nat /\ m.start <= m.end
  /\ \A m \in Messages : /\ Parts(m) \subseteq Messages
                         /\ Converted(m) \in Messages /\ ~Requested(Converted(m))
                         /\ m # NULL
  /\ \A x, y \in Nat : /\ Message("DUMP", x, y) \in Messages
                       /\ Message("DUMP", x, y).end = y
                       /\ Message("DUMP", x, y).type = "DUMP"
<1>1. /\ info \in Messages /\ regs \in Messages /\ sregs \in Messages
      /\ Blank \in Messages /\ Garbled \subseteq Messages
  BY DEF info, regs, sregs, Blank, Garbled, req_dump_mem, req_info, Message, Messages,
         MessageTypes
<1>2. \A n \in Nat : Remainder(n) \in Messages /\ Remainder(n).type = "REMAINDER"
  BY DEF Remainder, Message, Messages, MessageTypes
<1>3. \A x \in {info, regs, sregs} : x.end = 0 /\ x.type # "REMAINDER"
  BY DEF info, regs, sregs, Message
<1>4. \A m \in Requests : /\ m \in Messages /\ m.type \in {"REQ_DUMP_MEM", "REQ_INFO"}
                          /\ m.start \in Nat /\ m.end \in Nat /\ m.start <= m.end
  BY DEF Requests, Messages
<1>5. ASSUME NEW m \in Messages PROVE Parts(m) \subseteq Messages
  <2>1. m.start \in Nat /\ m.end \in Nat
    BY DEF Messages
  <2>2. \A n \in Nat : HighBytes(n) \subseteq Nat
    BY DEF HighBytes
  <2>3. /\ HighBytes(m.start) \subseteq Nat /\ HighBytes(m.end) \subseteq Nat
    BY <2>1, <2>2
  <2>4. \A s \in Nat : [m EXCEPT !.start = s, !.end = 0] \in Messages
    BY DEF Messages
  <2>5. \A e \in Nat : [m EXCEPT !.end = e] \in Messages
    BY DEF Messages
  <2>6. QED
    BY <1>1, <2>3, <2>4, <2>5 DEF Parts
<1>6. ASSUME NEW m \in Messages PROVE Converted(m) \in Messages /\ ~Requested(Converted(m))
  <2>1. Converted(m) \in Messages
    BY DEF Converted, Messages, MessageTypes
  <2>2. Converted(m).type \in {"WELCOME_MESS", "HOST_ORDER"}
    BY DEF Converted, Messages, MessageTypes
  <2>3. QED
    BY <2>1, <2>2 DEF Requested
<1>7. \A m \in Messages : m # NULL
  BY NullAssumption
<1>8. \A x, y \in Nat : /\ Message("DUMP", x, y) \in Messages
                        /\ Message("DUMP", x, y).end = y
                        /\ Message("DUMP", x, y).type = "DUMP"
  BY DEF Message, Messages, MessageTypes
<1>9. QED
  BY <1>1, <1>2, <1>3, <1>4, <1>5, <1>6, <1>7, <1>8

\* What recv_data can return: once the stream holds a message that was not
\* torn, the whole message or a piece of it.
LEMMA ReceivedResult ==
  ASSUME NEW q \in Seq(Messages), NEW end \in Streams, NEW old \in Messages \cup {NULL},
         NEW r \in recv_data(q, end, old)
  PROVE  /\ r.rest \in Seq(Messages) /\ r.buf \in Messages \cup {NULL}
         /\ q = << >> => /\ end # "open" /\ r.rest = << >>
                         /\ r.ret # 0 => r.buf = old
                         /\ end = "reset" => r.ret = 0
         /\ q # << >> /\ Head(q).type # "REMAINDER" =>
              \/ r.ret = 1 /\ r.buf = Head(q) /\ r.rest = Tail(q)
              \/ \A d : Torn(r, d) = {d}
<1>1. clear_my_buffer(old) \in Messages \cup {NULL}
  BY MessagesAre DEF clear_my_buffer
<1>2. CASE q = << >>
  <2>1. /\ r.rest = q /\ r.buf \in {old, clear_my_buffer(old)} /\ end # "open"
        /\ r.ret # 0 => r.buf = old
        /\ end = "reset" => r.ret = 0
    BY <1>2 DEF recv_data, Streams
  <2>2. QED
    BY <1>1, <1>2, <2>1
<1>3. CASE q # << >>
  <2>1. Head(q) \in Messages /\ Tail(q) \in Seq(Messages)
    BY <1>3, HeadTailProperties
  <2>2. CASE Head(q).type = "REMAINDER"
    <3> DEFINE n == Head(q).start
               rests == {<< >>, Tail(q)}
                          \cup (IF n = 0 THEN {} ELSE {<<Remainder(n - 1)>> \o Tail(q)})
    <3>1. rests \subseteq Seq(Messages)
      <4>1. n \in Nat
        BY <2>1 DEF Messages
      <4>2. ASSUME n # 0 PROVE <<Remainder(n - 1)>> \o Tail(q) \in Seq(Messages)
        <5>1. n - 1 \in Nat
          BY <4>1, <4>2
        <5>2. Remainder(n - 1) \in Messages
          BY <5>1, MessagesAre
        <5>3. QED
          BY <2>1, <5>2, Prepend
      <4>3. << >> \in Seq(Messages)
        BY EmptySeq
      <4>4. QED
        BY <2>1, <4>2, <4>3
    <3>2. r \in Misread(q, old)
      BY <1>3, <2>2 DEF recv_data
    <3>3. /\ r.rest \in rests
          /\ r.buf \in {old, NULL, clear_my_buffer(old)} \cup Garbled
      BY <3>2 DEF Misread
    <3>4. QED
      BY <1>1, <1>3, <2>2, <3>1, <3>3, MessagesAre
  <2>3. CASE Head(q).type # "REMAINDER"
    <3>1. \/ r = [ret |-> 1, buf |-> Head(q), rest |-> Tail(q)]
          \/ \E b \in {old} \cup Parts(Head(q)) :
               r = [ret |-> -1, buf |-> b, rest |-> <<Remainder(Misreads)>> \o Tail(q)]
      BY <1>3, <2>3 DEF recv_data
    <3>2. CASE r = [ret |-> 1, buf |-> Head(q), rest |-> Tail(q)]
      BY <1>3, <2>1, <3>2
    <3>3. ASSUME NEW b \in {old} \cup Parts(Head(q)),
                 r = [ret |-> -1, buf |-> b, rest |-> <<Remainder(Misreads)>> \o Tail(q)]
          PROVE  /\ r.rest \in Seq(Messages) /\ r.buf \in Messages \cup {NULL}
                 /\ \A d : Torn(r, d) = {d}
      <4>1. b \in Messages \cup {NULL}
        BY <2>1, MessagesAre
      <4>2. Remainder(Misreads) \in Messages /\ Remainder(Misreads).type = "REMAINDER"
        BY MisreadsAssumption, MessagesAre
      <4>3. /\ <<Remainder(Misreads)>> \o Tail(q) \in Seq(Messages)
            /\ <<Remainder(Misreads)>> \o Tail(q) # << >>
            /\ Head(<<Remainder(Misreads)>> \o Tail(q)) = Remainder(Misreads)
        BY <2>1, <4>2, Prepend
      <4>4. QED
        BY <3>3, <4>1, <4>2, <4>3 DEF Torn
    <3>4. QED
      BY <1>3, <3>1, <3>2, <3>3
  <2>4. QED
    BY <2>2, <2>3
<1>4. QED
  BY <1>2, <1>3

-----------------------------------------------------------------------------
(***************************************************************************)
(* A step leaves every connection but one as it was.                       *)
(***************************************************************************)
Still(c) ==
  /\ link'[c] = link[c] /\ worker'[c] = worker[c] /\ my_buf'[c] = my_buf[c]
  /\ client'[c] = client[c] /\ script'[c] = script[c] /\ due'[c] = due[c]
  /\ peer'[c] = peer[c] /\ toServer'[c] = toServer[c] /\ toClient'[c] = toClient[c]
  /\ asked'[c] = asked[c] /\ shown'[c] = shown[c] /\ torn'[c] = torn[c]

\* The monitor may end, the server may come and go, memory is sized before.
Around ==
  /\ monitor' = monitor \/ monitor' # "up"
  /\ debug_serv' = "null" => debug_serv = "null"
  /\ stage' = "config" => stage = "config" /\ debug_serv' = debug_serv
  /\ pages' = pages \/ stage = "config"

LEMMA StillKeeps ==
  ASSUME ServerInv, Around, NEW c \in Clients, Still(c)
  PROVE  Connected(c)'
<1>1. Connected(c) /\ (stage = "config" => client[c] = "off")
  BY DEF ServerInv, Connected, Plumbing
<1>2. Plumbing(c)'
  BY <1>1 DEF Connected, Plumbing, Still, Around
<1>3. ASSUME monitor' = "up", torn'[c] = {} PROVE Talking(c)'
  <2>1. Talking(c)
    BY <1>1, <1>3 DEF Connected, Still, Around
  <2>2. Bounded(shown[c])' /\ Bounded(toClient[c])'
    <3>1. CASE pages' = pages
      BY <2>1, <3>1 DEF Talking, Bounded, Still
    <3>2. CASE stage = "config"
      <4>1. shown'[c] = << >> /\ toClient'[c] = << >>
        BY <1>1, <3>2 DEF Connected, Plumbing, Still
      <4>2. QED
        BY <4>1 DEF Bounded
    <3>3. QED
      BY <3>1, <3>2 DEF Around
  <2>3. QED
    BY <2>1, <2>2 DEF Talking, Asking, Answering, Refused, Still
<1>4. QED
  BY <1>2, <1>3 DEF Connected

LEMMA OneConnection ==
  ASSUME ServerInv, Around, ConnTypes', NEW c \in Clients, Connected(c)',
         \A d \in Clients \ {c} : Still(d)
  PROVE  ServerInv'
<1>1. ASSUME NEW d \in Clients PROVE Connected(d)'
  BY StillKeeps
<1>2. stage' = "config" => debug_serv' = "null"
  BY DEF ServerInv, Around
<1>3. QED
  BY <1>1, <1>2 DEF ServerInv

LEMMA NoConnection ==
  ASSUME ServerInv, Around,
         UNCHANGED <<link, worker, my_buf, clientVars, socketVars>>
  PROVE  ServerInv'
<1>1. ConnTypes'
  BY DEF ServerInv, ConnTypes, clientVars, socketVars
<1>2. ASSUME NEW d \in Clients PROVE Connected(d)'
  <2>1. Still(d)
    BY DEF Still, clientVars, socketVars
  <2>2. QED
    BY <2>1, StillKeeps
<1>3. stage' = "config" => debug_serv' = "null"
  BY DEF ServerInv, Around
<1>4. QED
  BY <1>1, <1>2, <1>3 DEF ServerInv

\* Steps of a connection leave the rest of the process alone.
Alone == UNCHANGED <<pages, stage, debug_serv>> /\ (monitor' = monitor \/ monitor' # "up")

LEMMA AloneIsAround == ASSUME Alone PROVE Around
  BY DEF Alone, Around

(***************************************************************************)
(* main_fun: the worker starts with a null buffer.                         *)
(***************************************************************************)
LEMMA AcceptKeepsServer ==
  ASSUME ServerInv, NEW c \in Clients, main_fun(c), Alone
  PROVE  ServerInv'
<1>1. /\ link[c] = "backlog" /\ link' = [link EXCEPT ![c] = "worker"]
      /\ worker' = [worker EXCEPT ![c] = "recv"]
      /\ UNCHANGED <<debug_serv, my_buf, client, script, due, asked, shown, peer,
                     toServer, toClient, torn, monitor>>
  BY DEF main_fun, clientVars, socketVars
<1>2. ConnTypes /\ Connected(c)
  BY DEF ServerInv
<1>3. ConnTypes'
  BY <1>1, <1>2 DEF ConnTypes, Quiet
<1>4. \A d \in Clients \ {c} : Still(d)
  BY <1>1, <1>2 DEF ConnTypes, Still
<1>5. link'[c] = "worker" /\ worker'[c] = "recv" /\ worker[c] = "none"
  BY <1>1, <1>2 DEF ConnTypes, Connected, Plumbing
<1>6. Plumbing(c)'
  BY <1>1, <1>2, <1>5 DEF Connected, Plumbing, Serving
<1>7. ASSUME Talking(c) PROVE Talking(c)'
  <2>1. Owed(worker'[c], my_buf'[c]) = Owed(worker[c], my_buf[c])
    BY <1>5 DEF Owed
  <2>2. QED
    BY <1>1, <1>5, <1>7, <2>1
       DEF Talking, Bounded, Asking, Answering, Refused, Quiet, Alone
<1>8. Connected(c)'
  BY <1>1, <1>2, <1>6, <1>7 DEF Connected
<1>9. QED
  BY <1>3, <1>4, <1>8, OneConnection, AloneIsAround

(***************************************************************************)
(* worker_recv: what the worker finds in its buffer.                       *)
(***************************************************************************)
LEMMA WorkerRecvKeepsServer ==
  ASSUME ServerInv, NEW c \in Clients, worker_recv(c), Alone
  PROVE  /\ ServerInv'
         /\ monitor' # monitor =>
              /\ monitor' = "segv"
              /\ \/ client[c] \in {"done", "left"} /\ asked[c] = << >>
                 \/ "request" \in torn'[c]
              /\ UNCHANGED <<client, asked>>
<1>1. PICK r \in recv_data(toServer[c], peer[c], my_buf[c]) :
        /\ toServer' = [toServer EXCEPT ![c] = r.rest]
        /\ torn' = [torn EXCEPT ![c] = @ \cup Torn(r, "request")]
        /\ \/ /\ r.ret = 0
              /\ worker' = [worker EXCEPT ![c] = "returned"]
              /\ UNCHANGED <<my_buf, monitor>>
           \/ /\ r.ret # 0 /\ r.buf = NULL /\ monitor' = "segv"
              /\ UNCHANGED <<worker, my_buf>>
           \/ /\ r.ret # 0 /\ r.buf # NULL
              /\ my_buf' = [my_buf EXCEPT ![c] = r.buf]
              /\ worker' = [worker EXCEPT ![c] = Dispatch(r.buf)]
              /\ UNCHANGED monitor
  BY DEF worker_recv
<1>2. /\ worker[c] = "recv"
      /\ UNCHANGED <<debug_serv, link, client, script, due, asked, shown, peer, toClient>>
  BY DEF worker_recv, clientVars
<1>3. ConnTypes /\ Connected(c)
  BY DEF ServerInv
<1>4. /\ toServer[c] \in Seq(Messages) /\ peer[c] \in Streams
      /\ my_buf[c] \in Messages \cup {NULL} /\ torn[c] \in SUBSET {"request", "answer"}
  BY <1>3 DEF ConnTypes
<1>5. /\ r.rest \in Seq(Messages) /\ r.buf \in Messages \cup {NULL}
      /\ toServer[c] = << >> => /\ peer[c] # "open" /\ r.rest = << >>
                                /\ r.ret # 0 => r.buf = my_buf[c]
      /\ toServer[c] # << >> /\ Head(toServer[c]).type # "REMAINDER" =>
           \/ r.ret = 1 /\ r.buf = Head(toServer[c]) /\ r.rest = Tail(toServer[c])
           \/ \A d : Torn(r, d) = {d}
  <2> DEFINE q == toServer[c]
             end == peer[c]
             old == my_buf[c]
  <2>1. /\ r \in recv_data(q, end, old) /\ q \in Seq(Messages)
        /\ end \in Streams /\ old \in Messages \cup {NULL}
    BY <1>1, <1>4
  <2> HIDE DEF q, end, old
  <2>2. /\ r.rest \in Seq(Messages) /\ r.buf \in Messages \cup {NULL}
        /\ q = << >> => end # "open" /\ r.rest = << >> /\ (r.ret # 0 => r.buf = old)
        /\ q # << >> /\ Head(q).type # "REMAINDER" =>
              \/ r.ret = 1 /\ r.buf = Head(q) /\ r.rest = Tail(q)
              \/ \A d : Torn(r, d) = {d}
    BY <2>1, ReceivedResult
  <2>3. QED
    BY <2>2 DEF q, end, old
<1>6. \A b : Dispatch(b) \in {"dump", "info", "returned"}
  BY DEF Dispatch
<1>7. \A b : Dispatch(b) # "returned" => b.type \in {"REQ_DUMP_MEM", "REQ_INFO"}
  BY DEF Dispatch
<1>8. /\ toServer'[c] = r.rest /\ torn'[c] = torn[c] \cup Torn(r, "request")
      /\ worker'[c] \in {"recv", "dump", "info", "returned"}
      /\ r.ret = 0 => worker'[c] = "returned"
      /\ worker'[c] = "recv" => monitor' = "segv" /\ my_buf'[c] = my_buf[c] /\ r.ret # 0 /\ r.buf = NULL
      /\ my_buf'[c] = my_buf[c] \/ (my_buf'[c] = r.buf /\ r.buf # NULL)
      /\ worker'[c] \in Serving =>
           my_buf'[c] = r.buf /\ r.buf # NULL /\ worker'[c] = Dispatch(r.buf)
      /\ r.ret # 0 /\ r.buf # NULL => my_buf'[c] = r.buf /\ worker'[c] = Dispatch(r.buf)
  <2>1. toServer'[c] = r.rest /\ torn'[c] = torn[c] \cup Torn(r, "request")
    BY <1>1, <1>3 DEF ConnTypes
  <2>2. CASE r.ret = 0
    BY <1>1, <1>3, <2>1, <2>2 DEF ConnTypes, Serving
  <2>3. CASE r.ret # 0 /\ r.buf = NULL
    BY <1>1, <1>2, <1>3, <2>1, <2>3 DEF ConnTypes, Serving
  <2>4. CASE r.ret # 0 /\ r.buf # NULL
    <3>1. my_buf'[c] = r.buf /\ worker'[c] = Dispatch(r.buf)
      BY <1>1, <1>3, <2>4 DEF ConnTypes
    <3>2. worker'[c] \in {"dump", "info", "returned"}
      BY <1>6, <3>1
    <3>3. QED
      BY <2>1, <2>4, <3>1, <3>2
  <2>5. QED
    BY <2>2, <2>3, <2>4
<1>9. ConnTypes'
  <2>1. torn' \in [Clients -> SUBSET {"request", "answer"}]
    <3>1. Torn(r, "request") \in SUBSET {"request", "answer"}
      BY DEF Torn
    <3>2. QED
      BY <1>1, <1>3, <1>4, <3>1 DEF ConnTypes
  <2>2. toServer' \in [Clients -> Seq(Messages)]
    BY <1>1, <1>3, <1>5 DEF ConnTypes
  <2>3. my_buf' \in [Clients -> Messages \cup {NULL}]
    BY <1>1, <1>3, <1>4, <1>5 DEF ConnTypes
  <2>4. worker' \in [Clients -> Quiet \cup Serving]
    BY <1>1, <1>3, <1>6 DEF ConnTypes, Quiet, Serving
  <2>5. QED
    BY <1>2, <1>3, <2>1, <2>2, <2>3, <2>4 DEF ConnTypes
<1>10. \A d \in Clients \ {c} : Still(d)
  BY <1>1, <1>2, <1>3 DEF ConnTypes, Still
<1>11. /\ link[c] = "worker" /\ ~Requested(my_buf[c]) /\ client[c] # "off"
       /\ "request" \notin torn[c] =>
            /\ toServer[c] \in Seq(Requests)
            /\ my_buf[c] = NULL /\ asked[c] # << >> => toServer[c] # << >>
  BY <1>2, <1>3 DEF Connected, Plumbing
\* A request that is not torn is taken whole from the stream.
<1>12. ASSUME "request" \notin torn'[c]
      PROVE  /\ "request" \notin torn[c] /\ r.rest \in Seq(Requests)
             /\ toServer[c] # << >> => r.ret = 1 /\ r.buf \in Messages
  <2>1. "request" \notin torn[c] /\ Torn(r, "request") # {"request"}
    BY <1>8, <1>12
  <2>2. toServer[c] \in Seq(Requests)
    BY <1>11, <2>1
  <2>3. CASE toServer[c] = << >>
    BY <1>5, <2>1, <2>3, EmptySeq
  <2>4. CASE toServer[c] # << >>
    <3>1. Head(toServer[c]) \in Requests /\ Tail(toServer[c]) \in Seq(Requests)
      BY <2>2, <2>4, HeadTailProperties
    <3>2. Head(toServer[c]) \in Messages /\ Head(toServer[c]).type # "REMAINDER"
      BY <3>1, MessagesAre
    <3>3. QED
      BY <1>5, <2>1, <2>4, <3>1, <3>2
  <2>5. QED
    BY <2>3, <2>4
<1>13. Plumbing(c)'
  <2>1. ASSUME "request" \notin torn'[c]
        PROVE  /\ toServer'[c] \in Seq(Requests)
               /\ my_buf'[c] = NULL /\ asked'[c] # << >> => toServer'[c] # << >>
    <3>1. "request" \notin torn[c] /\ toServer'[c] \in Seq(Requests)
      BY <1>8, <1>12, <2>1
    <3>2. ASSUME my_buf'[c] = NULL PROVE my_buf[c] = NULL /\ toServer[c] = << >>
      <4>1. my_buf[c] = NULL /\ (r.ret = 0 \/ r.buf = NULL)
        BY <1>8, <3>2
      <4>2. toServer[c] # << >> => r.ret # 0 /\ r.buf # NULL
        BY <1>12, <2>1, NullAssumption
      <4>3. QED
        BY <4>1, <4>2
    <3>3. QED
      BY <1>2, <1>11, <3>1, <3>2
  <2>2. worker'[c] \in {"none", "recv"} => ~Requested(my_buf'[c])
    BY <1>8, <1>11
  <2>3. worker'[c] \in Serving => my_buf'[c] # NULL
    BY <1>8
  <2>4. QED
    BY <1>2, <1>3, <1>11, <2>1, <2>2, <2>3 DEF Connected, Plumbing
<1>14. ASSUME monitor' = "up", torn'[c] = {} PROVE Talking(c)'
  <2>1. Talking(c) /\ Torn(r, "request") = {}
    BY <1>3, <1>8, <1>14 DEF Connected, Alone
  <2>2. CASE client[c] \in {"off", "idle", "done"}
    <3>1. due[c] = << >> /\ toServer[c] = << >> /\ toClient[c] = << >>
      BY <2>1, <2>2 DEF Talking
    <3>2. worker'[c] \in Quiet
      <4>1. CASE r.ret = 0
        BY <1>8, <4>1 DEF Quiet
      <4>2. CASE r.ret # 0 /\ worker'[c] \notin Quiet
        <5>1. worker'[c] \in Serving
          BY <1>8, <4>2 DEF Quiet, Serving
        <5>2. /\ r.buf = my_buf[c] /\ r.buf # NULL /\ worker'[c] = Dispatch(r.buf)
          BY <1>5, <1>8, <3>1, <4>2, <5>1
        <5>3. Dispatch(r.buf) # "returned"
          BY <4>2, <5>2 DEF Quiet
        <5>4. QED
          BY <1>7, <1>11, <5>2, <5>3 DEF Requested
      <4>3. QED
        BY <4>1, <4>2
    <3>3. QED
      BY <1>2, <1>5, <1>8, <2>1, <2>2, <3>1, <3>2 DEF Talking, Bounded, Alone
  <2>3. CASE client[c] = "left"
    BY <1>2, <2>1, <2>3 DEF Talking, Bounded, Alone
  <2>4. CASE client[c] = "await"
    <3>1. peer[c] = "open"
      BY <1>3, <2>4 DEF Connected, Plumbing
    <3>2. toServer[c] # << >>
      BY <1>5, <3>1
    <3>3. Asking(c)
      BY <2>1, <2>4, <3>2 DEF Talking, Answering, Refused
    <3> DEFINE m == Head(toServer[c])
    <3>4. /\ m \in Requests /\ toServer[c] = <<m>> /\ due[c] = AnswersTo(m)
          /\ toClient[c] = << >>
      BY <3>3 DEF Asking
    <3>5. m.type \in {"REQ_DUMP_MEM", "REQ_INFO"} /\ m \in Messages
      BY <3>4, MessagesAre
    <3>6. r.ret = 1 /\ r.buf = m /\ r.rest = Tail(toServer[c])
      BY <1>5, <2>1, <3>2, <3>5
    <3>7. toServer'[c] = << >> /\ my_buf'[c] = m /\ worker'[c] = Dispatch(m)
      <4> HIDE DEF m
      <4>1. Tail(toServer[c]) = << >>
        BY <3>4
      <4>2. m # NULL
        BY <3>5, MessagesAre
      <4>3. QED
        BY <1>8, <3>6, <4>1, <4>2
    <3> HIDE DEF m
    <3>8. Owed(worker'[c], m) = AnswersTo(m)
      BY <3>5, <3>7 DEF Owed, Dispatch, AnswersTo
    <3>9. << >> \o AnswersTo(m) = AnswersTo(m)
      <4>1. AnswersTo(m) \in Seq(Messages)
        BY <1>3, <3>4 DEF ConnTypes
      <4>2. QED
        BY <4>1, ConcatEmptySeq
    <3>10. Answering(c)'
      BY <1>2, <3>4, <3>7, <3>8, <3>9 DEF Answering
    <3>11. QED
      BY <1>2, <2>1, <2>4, <3>10 DEF Talking, Bounded, Alone
  <2>5. QED
    BY <1>3, <2>2, <2>3, <2>4 DEF ConnTypes
<1>15. Connected(c)'
  BY <1>13, <1>14 DEF Connected
<1>16. ServerInv'
  BY <1>9, <1>10, <1>15, OneConnection, AloneIsAround
<1>17. ASSUME monitor' # monitor
       PROVE  /\ monitor' = "segv"
              /\ \/ client[c] \in {"done", "left"} /\ asked[c] = << >>
                 \/ "request" \in torn'[c]
              /\ UNCHANGED <<client, asked>>
  <2>1. monitor' = "segv" /\ r.ret # 0 /\ r.buf = NULL
    BY <1>1, <1>17
  <2>2. ASSUME "request" \notin torn'[c]
        PROVE  client[c] \in {"done", "left"} /\ asked[c] = << >>
    <3>1. toServer[c] = << >> /\ "request" \notin torn[c]
      BY <1>12, <2>1, <2>2, MessagesAre
    <3>2. my_buf[c] = NULL /\ peer[c] # "open"
      BY <1>5, <2>1, <3>1
    <3>3. QED
      BY <1>3, <1>11, <3>1, <3>2 DEF Connected, Plumbing
  <2>3. QED
    BY <1>2, <2>1, <2>2
<1>18. QED
  BY <1>16, <1>17

(***************************************************************************)
(* An answer: it moves what the worker owes into the stream, unless the    *)
(* client has gone, in which case nobody reads it and the process may die. *)
(***************************************************************************)
LEMMA AnswerKeepsServer ==
  ASSUME ServerInv, NEW c \in Clients, Alone, NEW m \in Messages,
         NEW next \in {"recv", "get_regs", "sregs", "returned"}, NEW b \in Messages,
         monitor = "up", worker[c] \in Serving, Answer(c, m, next),
         my_buf' = [my_buf EXCEPT ![c] = b], next = "recv" => ~Requested(b),
         Talking(c) /\ Answering(c) =>
           /\ Owed(worker[c], my_buf[c]) = <<m>> \o Owed(next, b)
           /\ m.end <= pages * PageCells /\ m.type # "REMAINDER"
  PROVE  /\ ServerInv'
         /\ monitor' # monitor =>
              monitor' = "sigpipe" /\ peer'[c] = "reset" /\ (client[c] = "left" \/ torn[c] # {})
         /\ UNCHANGED <<client, torn>>
<1>1. /\ worker' = [worker EXCEPT ![c] = next]
      /\ UNCHANGED <<debug_serv, link, client, script, due, asked, shown, toServer, torn>>
      /\ \/ /\ peer[c] = "open" /\ toClient' = [toClient EXCEPT ![c] = Append(@, m)]
            /\ UNCHANGED <<peer, monitor>>
         \/ /\ peer[c] # "open" /\ peer' = [peer EXCEPT ![c] = "reset"]
            /\ monitor' \in {monitor, "sigpipe"} /\ UNCHANGED toClient
  BY DEF Answer, send_data, clientVars
<1>2. ConnTypes /\ Connected(c)
  BY DEF ServerInv
<1>3. ConnTypes'
  <2>1. worker' \in [Clients -> Quiet \cup Serving]
    BY <1>1, <1>2 DEF ConnTypes, Quiet, Serving
  <2>2. my_buf' \in [Clients -> Messages \cup {NULL}]
    BY <1>2 DEF ConnTypes
  <2>3. toClient' \in [Clients -> Seq(Messages)]
    <3>1. toClient \in [Clients -> Seq(Messages)] /\ Append(toClient[c], m) \in Seq(Messages)
      BY <1>2, AppendProperties DEF ConnTypes
    <3>2. QED
      BY <1>1, <3>1
  <2>4. peer' \in [Clients -> Streams]
    BY <1>1, <1>2 DEF ConnTypes, Streams
  <2>5. QED
    BY <1>1, <1>2, <2>1, <2>2, <2>3, <2>4 DEF ConnTypes
<1>4. \A d \in Clients \ {c} : Still(d)
  BY <1>1, <1>2 DEF ConnTypes, Still
<1>5. /\ worker'[c] = next /\ my_buf'[c] = b /\ b # NULL
      /\ link[c] = "worker" /\ client[c] # "off"
      /\ peer[c] = "open" => peer'[c] = "open" /\ toClient'[c] = Append(toClient[c], m)
      /\ peer[c] # "open" => peer'[c] = "reset" /\ toClient'[c] = toClient[c]
  <2>1. worker'[c] = next /\ my_buf'[c] = b /\ b # NULL
    BY <1>1, <1>2, NullAssumption DEF ConnTypes
  <2>2. link[c] = "worker" /\ client[c] # "off"
    BY <1>2 DEF Connected, Plumbing, Serving
  <2>3. /\ peer[c] = "open" => peer'[c] = "open" /\ toClient'[c] = Append(toClient[c], m)
        /\ peer[c] # "open" => peer'[c] = "reset" /\ toClient'[c] = toClient[c]
    BY <1>1, <1>2 DEF ConnTypes
  <2>4. QED
    BY <2>1, <2>2, <2>3
<1>6. Plumbing(c)'
  BY <1>1, <1>2, <1>5 DEF Connected, Plumbing
<1>7. ASSUME monitor = "up", torn[c] = {}
      PROVE  Talking(c) /\ client[c] \in {"await", "left"}
  BY <1>2, <1>7 DEF Connected, Talking, ConnTypes, Serving, Quiet
<1>8. ASSUME monitor' = "up", torn'[c] = {} PROVE Talking(c)'
  <2>1. Talking(c) /\ client[c] \in {"await", "left"}
    BY <1>1, <1>7, <1>8 DEF Alone
  <2>2. CASE client[c] = "left"
    <3>1. toClient'[c] = toClient[c]
      BY <1>2, <1>5, <2>2 DEF Connected, Plumbing
    <3>2. QED
      BY <1>1, <2>1, <2>2, <3>1 DEF Talking, Bounded, Alone
  <2>3. CASE client[c] = "await"
    <3>1. Answering(c) /\ toServer[c] = << >>
      BY <2>1, <2>3 DEF Talking, Asking, Refused, Answering, Serving, Quiet
    <3>2. peer[c] = "open" /\ toClient'[c] = Append(toClient[c], m)
      BY <1>2, <1>5, <2>3 DEF Connected, Plumbing
    <3>3. /\ Owed(worker[c], my_buf[c]) = <<m>> \o Owed(next, b)
          /\ m.end <= pages * PageCells /\ m.type # "REMAINDER"
      BY <2>1, <3>1
    <3>4. toClient[c] \in Seq(Messages) /\ Owed(next, b) \in Seq(Messages)
      <4>1. <<regs, sregs>> \in Seq(Messages) /\ <<sregs>> \in Seq(Messages) /\ << >> \in Seq(Messages)
        BY MessagesAre
      <4>2. QED
        BY <1>2, <4>1 DEF ConnTypes, Owed
    <3>5. due'[c] = toClient'[c] \o Owed(next, b)
      <4>1. due[c] = toClient[c] \o (<<m>> \o Owed(next, b))
        BY <3>1, <3>3 DEF Answering
      <4>2. Append(toClient[c], m) \o Owed(next, b) = toClient[c] \o (<<m>> \o Owed(next, b))
        <5> DEFINE q == toClient[c]
                   o == Owed(next, b)
        <5>1. q \in Seq(Messages) /\ o \in Seq(Messages)
          BY <3>4
        <5> HIDE DEF q, o
        <5>2. Append(q, m) \o o = q \o (<<m>> \o o)
          BY <5>1, AddedBehind
        <5>3. QED
          BY <5>2 DEF q, o
      <4>3. QED
        BY <1>1, <3>2, <4>1, <4>2
    <3>6. Answering(c)'
      BY <1>1, <1>5, <3>1, <3>5 DEF Answering
    <3>7. Bounded(toClient[c])'
      <4>1. /\ Len(Append(toClient[c], m)) = Len(toClient[c]) + 1 /\ Len(toClient[c]) \in Nat
            /\ \A i \in 1 .. Len(toClient[c]) : Append(toClient[c], m)[i] = toClient[c][i]
            /\ Append(toClient[c], m)[Len(toClient[c]) + 1] = m
        BY <3>4, AppendProperties, LenProperties
      <4>2. \A i \in 1 .. Len(toClient[c]) + 1 : i \in 1 .. Len(toClient[c]) \/ i = Len(toClient[c]) + 1
        BY <4>1
      <4>3. Bounded(toClient[c]) /\ pages' = pages
        BY <2>1 DEF Talking, Alone
      <4>4. QED
        BY <3>2, <3>3, <4>1, <4>2, <4>3 DEF Bounded
    <3>8. QED
      BY <1>1, <2>1, <2>3, <3>6, <3>7 DEF Talking, Bounded, Alone
  <2>4. QED
    BY <2>1, <2>2, <2>3
<1>9. Connected(c)'
  BY <1>6, <1>8 DEF Connected
<1>10. ServerInv'
  BY <1>3, <1>4, <1>9, OneConnection, AloneIsAround
<1>11. ASSUME monitor' # monitor
       PROVE  monitor' = "sigpipe" /\ peer'[c] = "reset" /\ (client[c] = "left" \/ torn[c] # {})
  <2>1. monitor' = "sigpipe" /\ peer[c] # "open" /\ peer'[c] = "reset"
    BY <1>1, <1>5, <1>11
  <2>2. client[c] \in {"done", "left"}
    BY <1>2, <2>1 DEF Connected, Plumbing
  <2>3. QED
    BY <1>7, <2>1, <2>2
<1>12. QED
  BY <1>1, <1>10, <1>11

\* How the death of a worker shows in its connection (SIGPIPE).
Broken(c) ==
  monitor' # monitor =>
    monitor' = "sigpipe" /\ peer'[c] = "reset" /\ (client[c] = "left" \/ torn[c] # {})

LEMMA DumpKeepsServer ==
  ASSUME ServerInv, LoadTypes, NEW c \in Clients, monitor = "up", Alone,
         send_dump_mem(c, pages * PageCells)
  PROVE  ServerInv' /\ Broken(c) /\ UNCHANGED <<client, torn>>
<1> DEFINE b == my_buf[c]
           size == (b.end - b.start) % DumpModulus
           m == Message("DUMP", b.start, b.start + size)
<1>1. /\ worker[c] = "dump" /\ my_buf' = [my_buf EXCEPT ![c] = Converted(b)]
      /\ \/ /\ Outside(b, pages * PageCells)
            /\ worker' = [worker EXCEPT ![c] = "recv"]
            /\ UNCHANGED <<debug_serv, link, clientVars, socketVars, monitor>>
         \/ ~Outside(b, pages * PageCells) /\ Answer(c, m, "recv")
  <2>1. ConnTypes
    BY DEF ServerInv
  <2>2. QED
    BY <2>1 DEF send_dump_mem, ConnTypes
<1>2. ConnTypes /\ Connected(c)
  BY DEF ServerInv
<1>3. /\ b \in Messages /\ Converted(b) \in Messages /\ ~Requested(Converted(b))
      /\ Converted(b) # NULL
  <2>1. b \in Messages
    BY <1>1, <1>2 DEF ConnTypes, Connected, Plumbing, Serving
  <2>2. QED
    BY <2>1, MessagesAre
<1>4. b.start \in Nat /\ b.end \in Nat
  BY <1>3 DEF Messages
<1>5. /\ pages * PageCells \in Nat /\ DumpModulus \in Nat
      /\ pages * PageCells < DumpModulus
  <2>1. pages * PageCells \in Nat /\ pages * PageCells <= Entries * PageCells
    BY GuestSize DEF LoadTypes
  <2>2. Entries * PageCells \in Int /\ DumpModulus \in Nat /\ Entries * PageCells < DumpModulus
    BY EntriesAssumption, LayoutAssumption, DumpAssumption
  <2>3. QED
    BY <2>1, <2>2
<1>6. CASE ~Outside(b, pages * PageCells) /\ Answer(c, m, "recv")
  <2>1. b.start <= pages * PageCells /\ b.end <= pages * PageCells
    BY <1>4, <1>5, <1>6 DEF Outside
  <2>2. size \in Nat
    BY <1>4, <1>5
  <2>3. m \in Messages
    <3>1. b.start + size \in Nat
      BY <1>4, <2>2
    <3>2. QED
      BY <1>4, <3>1, MessagesAre
  <2>4. ASSUME Answering(c)
        PROVE  /\ Owed(worker[c], my_buf[c]) = <<m>> \o Owed("recv", Converted(b))
               /\ m.end <= pages * PageCells /\ m.type # "REMAINDER"
    <3>1. b \in Requests
      BY <1>1, <2>4 DEF Answering
    <3>2. b.start <= b.end
      BY <3>1, MessagesAre
    <3>3. b.end - b.start \in Nat /\ b.end - b.start < DumpModulus
      BY <1>4, <1>5, <2>1, <3>2
    <3>4. size = b.end - b.start
      <4> DEFINE x == b.end - b.start
      <4>1. x \in Nat /\ x < DumpModulus
        BY <3>3
      <4> HIDE DEF x
      <4>2. x % DumpModulus = x
        BY <1>5, <4>1
      <4>3. QED
        BY <4>2 DEF x
    <3>5. b.start + size = b.end
      BY <1>4, <3>4
    <3>6. m = Message("DUMP", b.start, b.end)
      BY <3>5
    <3> HIDE DEF m
    <3>7. Owed(worker[c], my_buf[c]) = <<m>>
      BY <1>1, <3>6 DEF Owed
    <3>8. Owed("recv", Converted(b)) = << >>
      BY DEF Owed
    <3>9. <<m>> \o << >> = <<m>>
      OBVIOUS
    <3>10. m.end = b.end /\ m.type = "DUMP"
      BY <1>4, <3>6, MessagesAre
    <3>11. QED
      BY <2>1, <3>7, <3>8, <3>9, <3>10
  <2>5. worker[c] \in Serving
    BY <1>1 DEF Serving
  <2> HIDE DEF m, b
  <2>6. QED
    BY <1>1, <1>3, <1>6, <2>3, <2>4, <2>5, AnswerKeepsServer DEF Broken
<1>7. CASE /\ Outside(b, pages * PageCells)
           /\ worker' = [worker EXCEPT ![c] = "recv"]
           /\ UNCHANGED <<debug_serv, link, clientVars, socketVars, monitor>>
  <2>1. UNCHANGED <<debug_serv, link, client, script, due, asked, shown, peer, toServer,
                    toClient, torn, monitor>>
    BY <1>7 DEF clientVars, socketVars
  <2> HIDE DEF b
  <2>2. worker'[c] = "recv" /\ my_buf'[c] = Converted(b)
    BY <1>1, <1>2, <1>7 DEF ConnTypes
  <2>3. ConnTypes'
    BY <1>1, <1>2, <1>3, <1>7, <2>1 DEF ConnTypes, Quiet
  <2>4. \A d \in Clients \ {c} : Still(d)
    BY <1>1, <1>2, <1>7, <2>1 DEF ConnTypes, Still
  <2>5. Plumbing(c)'
    BY <1>1, <1>2, <1>3, <2>1, <2>2 DEF Connected, Plumbing, Serving
  <2>6. ASSUME Talking(c) PROVE Talking(c)'
    <3>1. client[c] \notin {"off", "idle", "done"}
      BY <1>1, <2>6 DEF Talking, Quiet
    <3>2. client[c] = "await" => Refused(c)'
      BY <1>1, <2>1, <2>2, <2>6 DEF Talking, Asking, Answering, Refused, Quiet
    <3>3. QED
      BY <2>1, <2>6, <3>1, <3>2 DEF Talking, Bounded, Alone
  <2>7. Connected(c)'
    BY <1>2, <2>1, <2>5, <2>6 DEF Connected
  <2>8. ServerInv'
    BY <2>3, <2>4, <2>7, OneConnection, AloneIsAround
  <2>9. QED
    BY <2>1, <2>8 DEF Broken
<1>8. QED
  BY <1>1, <1>6, <1>7

\* send_info, in its three messages, and the wait for the registers.
LEMMA InfoKeepsServer ==
  ASSUME ServerInv, LoadTypes, NEW c \in Clients, monitor = "up", Alone,
         send_info(c) \/ send_regs(c)
  PROVE  ServerInv' /\ Broken(c) /\ UNCHANGED <<client, torn>>
<1> DEFINE b == my_buf[c]
<1>1. ConnTypes /\ Connected(c)
  BY DEF ServerInv
<1>2. worker[c] \in Serving
  BY DEF send_info, send_regs, Serving
<1>3. b \in Messages /\ my_buf' = [my_buf EXCEPT ![c] = b]
  BY <1>1, <1>2 DEF ConnTypes, Connected, Plumbing, send_info, send_regs
<1>4. /\ info \in Messages /\ regs \in Messages /\ sregs \in Messages
      /\ \A x \in {info, regs, sregs} : x.end <= pages * PageCells /\ x.type # "REMAINDER"
  BY MessagesAre, GuestSize DEF LoadTypes
<1>5. /\ <<info, regs, sregs>> = <<info>> \o <<regs, sregs>>
      /\ <<regs, sregs>> = <<regs>> \o <<sregs>> /\ <<sregs>> = <<sregs>> \o << >>
  <2>1. <<sregs>> \in Seq(Messages)
    BY <1>4
  <2>2. <<sregs>> = <<sregs>> \o << >>
    BY <2>1, ConcatEmptySeq
  <2>3. QED
    BY <1>4, <2>2, PairSplit, TripleSplit
<1> HIDE DEF b
<1>6. CASE worker[c] = "info" /\ Answer(c, info, "get_regs")
  <2>1. Owed(worker[c], my_buf[c]) = <<info>> \o Owed("get_regs", b)
    BY <1>5, <1>6 DEF Owed
  <2>2. QED
    BY <1>2, <1>3, <1>4, <1>6, <2>1, AnswerKeepsServer DEF Broken
<1>7. CASE worker[c] = "regs" /\ Answer(c, regs, "sregs")
  <2>1. Owed(worker[c], my_buf[c]) = <<regs>> \o Owed("sregs", b)
    BY <1>5, <1>7 DEF Owed
  <2>2. QED
    BY <1>2, <1>3, <1>4, <1>7, <2>1, AnswerKeepsServer DEF Broken
<1>8. CASE worker[c] = "sregs" /\ Answer(c, sregs, "returned")
  <2>1. Owed(worker[c], my_buf[c]) = <<sregs>> \o Owed("returned", b)
    BY <1>5, <1>8 DEF Owed
  <2>2. QED
    BY <1>2, <1>3, <1>4, <1>8, <2>1, AnswerKeepsServer DEF Broken
<1>9. QED
  BY <1>6, <1>7, <1>8 DEF send_info, send_regs

LEMMA GetRegsKeepsServer ==
  ASSUME ServerInv, NEW c \in Clients, Alone, NEW available, get_regs(c, available)
  PROVE  ServerInv'
<1>1. /\ \/ worker[c] = "get_regs" /\ worker' = [worker EXCEPT ![c] = "get_sregs"]
         \/ worker[c] = "get_sregs" /\ worker' = [worker EXCEPT ![c] = "regs"]
      /\ UNCHANGED <<debug_serv, link, my_buf, client, script, due, asked, shown, peer,
                     toServer, toClient, torn, monitor>>
  BY DEF get_regs, clientVars, socketVars
<1>2. ConnTypes /\ Connected(c)
  BY DEF ServerInv
<1>3. ConnTypes'
  BY <1>1, <1>2 DEF ConnTypes, Serving
<1>4. \A d \in Clients \ {c} : Still(d)
  BY <1>1, <1>2 DEF ConnTypes, Still
<1>5. worker[c] \in {"get_regs", "get_sregs"} /\ worker'[c] \in {"get_sregs", "regs"}
  BY <1>1, <1>2 DEF ConnTypes
<1>6. Plumbing(c)'
  BY <1>1, <1>2, <1>5 DEF Connected, Plumbing, Serving
<1>7. ASSUME Talking(c) PROVE Talking(c)'
  <2>1. Owed(worker'[c], my_buf'[c]) = Owed(worker[c], my_buf[c])
    BY <1>1, <1>5 DEF Owed
  <2>2. QED
    BY <1>1, <1>5, <1>7, <2>1
       DEF Talking, Bounded, Asking, Answering, Refused, Quiet, Alone
<1>8. Connected(c)'
  BY <1>1, <1>2, <1>6, <1>7 DEF Connected
<1>9. QED
  BY <1>3, <1>4, <1>8, OneConnection, AloneIsAround

-----------------------------------------------------------------------------
(***************************************************************************)
(* The client's steps: it connects, asks for one thing at a time ...       *)
(***************************************************************************)
LEMMA ConnectKeepsServer ==
  ASSUME ServerInv, NEW c \in Clients, Alone, connect(c)
  PROVE  ServerInv'
<1>1. /\ client[c] = "off" /\ debug_serv = "live"
      /\ client' = [client EXCEPT ![c] = "idle"]
      /\ link' = [link EXCEPT ![c] = "backlog"]
      /\ UNCHANGED <<debug_serv, worker, my_buf, script, due, asked, shown, peer,
                     toServer, toClient, torn, monitor>>
  BY DEF connect, socketVars
<1>2. ConnTypes /\ Connected(c)
  BY DEF ServerInv
<1>3. ConnTypes'
  BY <1>1, <1>2 DEF ConnTypes
<1>4. \A d \in Clients \ {c} : Still(d)
  BY <1>1, <1>2 DEF ConnTypes, Still
<1>5. /\ client'[c] = "idle" /\ link'[c] = "backlog" /\ link[c] = "off"
      /\ worker[c] = "none" /\ my_buf[c] = NULL
  BY <1>1, <1>2 DEF ConnTypes, Connected, Plumbing
<1>6. Plumbing(c)'
  BY <1>1, <1>2, <1>5 DEF Connected, Plumbing
<1>7. ASSUME Talking(c) PROVE Talking(c)'
  BY <1>1, <1>5, <1>7 DEF Talking, Bounded, Alone
<1>8. Connected(c)'
  BY <1>1, <1>2, <1>6, <1>7 DEF Connected
<1>9. QED
  BY <1>3, <1>4, <1>8, OneConnection, AloneIsAround

LEMMA RequestKeepsServer ==
  ASSUME ServerInv, NEW c \in Clients, Alone, request(c)
  PROVE  ServerInv'
<1> DEFINE m == Head(script[c])
<1>1. /\ client[c] = "idle" /\ script[c] # << >> /\ monitor = "up"
      /\ toServer' = [toServer EXCEPT ![c] = Append(@, m)]
      /\ due' = [due EXCEPT ![c] = AnswersTo(m)]
      /\ asked' = [asked EXCEPT ![c] = @ \o AnswersTo(m)]
      /\ script' = [script EXCEPT ![c] = Tail(@)]
      /\ client' = [client EXCEPT ![c] = "await"]
      /\ UNCHANGED <<debug_serv, link, worker, my_buf, shown, peer, toClient, torn, monitor>>
  BY DEF request, serverVars
<1>2. ConnTypes /\ Connected(c)
  BY DEF ServerInv
<1>3. m \in Requests /\ m \in Messages /\ Tail(script[c]) \in Seq(Requests)
  <2>1. script[c] \in Seq(Requests)
    BY <1>2 DEF ConnTypes
  <2>2. m \in Requests /\ Tail(script[c]) \in Seq(Requests)
    BY <1>1, <2>1, HeadTailProperties
  <2>3. QED
    BY <2>2, MessagesAre
<1> HIDE DEF m
<1>4. AnswersTo(m) \in Seq(Messages) /\ AnswersTo(m) # << >>
  <2>1. Message("DUMP", m.start, m.end) \in Messages
    BY <1>3, MessagesAre
  <2>2. /\ <<Message("DUMP", m.start, m.end)>> \in Seq(Messages)
        /\ <<Message("DUMP", m.start, m.end)>> # << >>
    BY <2>1
  <2>3. <<info, regs, sregs>> \in Seq(Messages) /\ <<info, regs, sregs>> # << >>
    BY MessagesAre
  <2>4. QED
    BY <2>2, <2>3 DEF AnswersTo
<1>5. /\ toServer[c] \in Seq(Messages) /\ asked[c] \in Seq(Messages)
      /\ due[c] \in Seq(Messages)
      /\ Append(toServer[c], m) \in Seq(Messages) /\ Append(toServer[c], m) # << >>
      /\ asked[c] \o AnswersTo(m) \in Seq(Messages)
  <2>1. /\ toServer[c] \in Seq(Messages) /\ asked[c] \in Seq(Messages)
        /\ due[c] \in Seq(Messages)
    BY <1>2 DEF ConnTypes
  <2>2. Append(toServer[c], m) \in Seq(Messages) /\ Append(toServer[c], m) # << >>
    BY <1>3, <2>1, AppendProperties
  <2>3. asked[c] \o AnswersTo(m) \in Seq(Messages)
    BY <1>4, <2>1, ConcatProperties
  <2>4. QED
    BY <2>1, <2>2, <2>3
<1>6. ConnTypes'
  <2>1. toServer' \in [Clients -> Seq(Messages)] /\ due' \in [Clients -> Seq(Messages)]
    BY <1>1, <1>2, <1>4, <1>5 DEF ConnTypes
  <2>2. asked' \in [Clients -> Seq(Messages)] /\ script' \in [Clients -> Seq(Requests)]
    BY <1>1, <1>2, <1>3, <1>5 DEF ConnTypes
  <2>3. client' \in [Clients -> {"off", "idle", "await", "done", "left"}]
    BY <1>1, <1>2 DEF ConnTypes
  <2>4. QED
    BY <1>1, <1>2, <2>1, <2>2, <2>3 DEF ConnTypes
<1>7. \A d \in Clients \ {c} : Still(d)
  BY <1>1, <1>2 DEF ConnTypes, Still
<1>8. /\ toServer'[c] = Append(toServer[c], m) /\ due'[c] = AnswersTo(m)
      /\ asked'[c] = asked[c] \o AnswersTo(m) /\ client'[c] = "await"
  BY <1>1, <1>2 DEF ConnTypes
<1>9. Plumbing(c)'
  <2>1. toServer[c] \in Seq(Requests) => Append(toServer[c], m) \in Seq(Requests)
    BY <1>3, AppendProperties
  <2>2. QED
    BY <1>1, <1>2, <1>4, <1>5, <1>8, <2>1 DEF Connected, Plumbing
<1>10. ASSUME Talking(c) PROVE Talking(c)'
  <2>1. /\ due[c] = << >> /\ toServer[c] = << >> /\ toClient[c] = << >>
        /\ worker[c] \in Quiet /\ asked[c] = shown[c] \o due[c]
        /\ shown[c] \in Seq(Messages)
    BY <1>1, <1>10 DEF Talking
  <2>2. asked[c] = shown[c]
    BY <1>5, <2>1, ConcatEmptySeq
  <2>3. toServer'[c] = <<m>> /\ Head(toServer'[c]) = m /\ toServer'[c] # << >>
    <3>1. Append(<< >>, m) = <<m>> /\ Head(<<m>>) = m
      OBVIOUS
    <3>2. QED
      BY <1>5, <1>8, <2>1, <3>1
  <2>4. Asking(c)'
    BY <1>1, <1>3, <1>8, <2>1, <2>3 DEF Asking
  <2>5. QED
    BY <1>1, <1>8, <1>10, <2>2, <2>4 DEF Talking, Bounded, Alone
<1>11. Connected(c)'
  BY <1>1, <1>2, <1>9, <1>10 DEF Connected
<1>12. QED
  BY <1>6, <1>7, <1>11, OneConnection, AloneIsAround

\* ... closes its end when it is done or is stopped ...
LEMMA CloseKeepsServer ==
  ASSUME ServerInv, NEW c \in Clients, Alone,
         client_fault(c) \/ finish(c) \/ leave(c)
  PROVE  ServerInv'
<1>1. /\ client[c] \in {"idle", "await"}
      /\ \/ client[c] = "idle" /\ client' = [client EXCEPT ![c] = "done"]
         \/ client' = [client EXCEPT ![c] = "left"]
      /\ Close(c)
      /\ UNCHANGED <<debug_serv, link, worker, my_buf, script, due, asked, shown, toServer,
                     toClient, torn, monitor>>
  BY DEF client_fault, finish, leave, serverVars
<1>2. ConnTypes /\ Connected(c)
  BY DEF ServerInv
<1>3. /\ peer' = [peer EXCEPT ![c] = peer'[c]] /\ peer'[c] \in {"closed", "reset"}
  BY <1>1, <1>2 DEF Close, ConnTypes
<1>4. ConnTypes'
  <2>1. peer' \in [Clients -> Streams]
    BY <1>2, <1>3 DEF ConnTypes, Streams
  <2>2. client' \in [Clients -> {"off", "idle", "await", "done", "left"}]
    BY <1>1, <1>2 DEF ConnTypes
  <2>3. QED
    BY <1>1, <1>2, <2>1, <2>2 DEF ConnTypes
<1>5. \A d \in Clients \ {c} : Still(d)
  BY <1>1, <1>2, <1>3 DEF ConnTypes, Still
<1>6. client'[c] = "left" \/ (client[c] = "idle" /\ client'[c] = "done")
  BY <1>1, <1>2 DEF ConnTypes
<1>7. Plumbing(c)'
  BY <1>1, <1>2, <1>3, <1>6 DEF Connected, Plumbing
<1>8. ASSUME Talking(c) PROVE Talking(c)'
  BY <1>1, <1>6, <1>8 DEF Talking, Bounded, Alone
<1>9. Connected(c)'
  BY <1>1, <1>2, <1>7, <1>8 DEF Connected
<1>10. QED
  BY <1>4, <1>5, <1>9, OneConnection, AloneIsAround

\* ... and prints the answers as they come.
LEMMA ReceiveKeepsServer ==
  ASSUME ServerInv, NEW c \in Clients, Alone, receive(c)
  PROVE  ServerInv'
<1> DEFINE q == toClient[c]
           end == IF monitor = "up" THEN "open" ELSE "closed"
<1>1. PICK r \in recv_data(q, end, Printed(c)) :
            /\ toClient' = [toClient EXCEPT ![c] = r.rest]
            /\ torn' = [torn EXCEPT ![c] = @ \cup Torn(r, "answer")]
            /\ shown' = [shown EXCEPT ![c] = IF Unchecked(c, r) THEN Append(@, r.buf) ELSE @]
            /\ due' = [due EXCEPT ![c] = IF Unchecked(c, r) THEN Tail(@) ELSE << >>]
            /\ client' = [client EXCEPT ![c] = IF due'[c] = << >> THEN "idle" ELSE @]
  BY DEF receive, Incoming
<1>2. /\ client[c] = "await"
      /\ UNCHANGED <<debug_serv, link, worker, my_buf, script, asked, peer, toServer, monitor>>
  BY DEF receive, serverVars
<1>3. ConnTypes /\ Connected(c)
  BY DEF ServerInv
<1>4. /\ q \in Seq(Messages) /\ end \in Streams /\ shown[c] \in Seq(Messages \cup {NULL})
      /\ due[c] \in Seq(Messages) /\ due[c] # << >>
      /\ peer[c] = "open" /\ Tail(due[c]) \in Seq(Messages)
  <2>1. /\ q \in Seq(Messages) /\ end \in Streams /\ shown[c] \in Seq(Messages \cup {NULL})
        /\ due[c] \in Seq(Messages) /\ due[c] # << >>
        /\ peer[c] = "open"
    BY <1>2, <1>3 DEF ConnTypes, Connected, Plumbing, Streams
  <2>2. Tail(due[c]) \in Seq(Messages)
    BY <2>1, HeadTailProperties
  <2>3. QED
    BY <2>1, <2>2
<1>5. Printed(c) \in Messages \cup {NULL}
  <2>1. CASE shown[c] = << >>
    BY <2>1 DEF Printed
  <2>2. CASE shown[c] # << >>
    <3>1. Len(shown[c]) \in 1 .. Len(shown[c])
      BY <1>4, <2>2, EmptySeq
    <3>2. QED
      BY <1>4, <2>2, <3>1, ElementOfSeq DEF Printed, Last
  <2>3. QED
    BY <2>1, <2>2
<1> HIDE DEF end
<1>6. /\ r.rest \in Seq(Messages) /\ r.buf \in Messages \cup {NULL}
      /\ q = << >> => end # "open"
      /\ q # << >> /\ Head(q).type # "REMAINDER" =>
           \/ r.ret = 1 /\ r.buf = Head(q) /\ r.rest = Tail(q)
           \/ \A d : Torn(r, d) = {d}
  <2> DEFINE old == Printed(c)
  <2>1. r \in recv_data(q, end, old) /\ q \in Seq(Messages) /\ end \in Streams
    BY <1>1, <1>4
  <2>2. old \in Messages \cup {NULL}
    BY <1>5
  <2> HIDE DEF q, old
  <2>3. QED
    BY <2>1, <2>2, ReceivedResult
<1> DEFINE newShown == IF Unchecked(c, r) THEN Append(shown[c], r.buf) ELSE shown[c]
           newDue == IF Unchecked(c, r) THEN Tail(due[c]) ELSE << >>
<1>7. newShown \in Seq(Messages \cup {NULL}) /\ newDue \in Seq(Messages)
  BY <1>4, <1>6, AppendProperties, EmptySeq
<1>8. /\ toClient'[c] = r.rest /\ torn'[c] = torn[c] \cup Torn(r, "answer")
      /\ shown'[c] = newShown /\ due'[c] = newDue
      /\ client'[c] = IF newDue = << >> THEN "idle" ELSE "await"
  BY <1>1, <1>2, <1>3 DEF ConnTypes
<1>9. ConnTypes'
  <2>1. torn' \in [Clients -> SUBSET {"request", "answer"}]
    <3>1. Torn(r, "answer") \in SUBSET {"request", "answer"}
      BY DEF Torn
    <3>2. QED
      BY <1>1, <1>3, <3>1 DEF ConnTypes
  <2>2. toClient' \in [Clients -> Seq(Messages)]
    BY <1>1, <1>3, <1>6 DEF ConnTypes
  <2>3. shown' \in [Clients -> Seq(Messages \cup {NULL})]
    BY <1>1, <1>3, <1>7 DEF ConnTypes
  <2>4. due' \in [Clients -> Seq(Messages)]
    BY <1>1, <1>3, <1>7 DEF ConnTypes
  <2>5. client' \in [Clients -> {"off", "idle", "await", "done", "left"}]
    BY <1>1, <1>2, <1>3 DEF ConnTypes
  <2>6. QED
    BY <1>2, <1>3, <2>1, <2>2, <2>3, <2>4, <2>5 DEF ConnTypes
<1>10. \A d \in Clients \ {c} : Still(d)
  BY <1>1, <1>2, <1>3 DEF ConnTypes, Still
<1>11. Plumbing(c)'
  <2>1. "request" \in torn'[c] <=> "request" \in torn[c]
    BY <1>8 DEF Torn
  <2>2. QED
    BY <1>2, <1>3, <1>4, <1>8, <2>1 DEF Connected, Plumbing
<1>12. ASSUME monitor' = "up", torn'[c] = {} PROVE Talking(c)'
  <2>1. Talking(c) /\ Torn(r, "answer") = {} /\ end = "open"
    BY <1>2, <1>3, <1>8, <1>12 DEF Connected, end
  <2>2. q # << >>
    BY <1>6, <2>1
  <2>3. Answering(c)
    BY <1>2, <2>1, <2>2 DEF Talking, Asking, Refused
  <2> DEFINE w == Owed(worker[c], my_buf[c])
  <2>4. due[c] = q \o w /\ toServer[c] = << >> /\ worker[c] # "dump"
    BY <2>2, <2>3 DEF Answering
  <2>5. /\ Len(q) \in Nat /\ Len(q) >= 1 /\ Head(q) = q[1] /\ Head(q) \in Messages
        /\ Tail(q) \in Seq(Messages) /\ Len(Tail(q)) = Len(q) - 1
        /\ \A i \in 1 .. Len(Tail(q)) : Tail(q)[i] = q[i + 1]
    BY <1>4, <2>2, HeadTailProperties, EmptySeq, LenProperties
  <2>6. Bounded(shown[c]) /\ Bounded(q)
    BY <2>1 DEF Talking
  <2>7. Head(q).end <= pages * PageCells /\ Head(q).type # "REMAINDER"
    <3>1. 1 \in 1 .. Len(q)
      BY <2>5
    <3>2. QED
      BY <2>5, <2>6, <3>1 DEF Bounded
  <2>8. shown[c] \in Seq(Messages)
    BY <2>1 DEF Talking
  <2>9. r.ret = 1 /\ r.buf = Head(q) /\ r.rest = Tail(q)
    BY <1>6, <2>1, <2>2, <2>7
  <2>10. newShown = Append(shown[c], Head(q)) /\ newDue = Tail(due[c])
    BY <2>9 DEF Unchecked
  <2>11. w \in Seq(Messages)
    <3>1. /\ <<regs, sregs>> \in Seq(Messages) /\ <<sregs>> \in Seq(Messages)
          /\ <<info, regs, sregs>> \in Seq(Messages) /\ << >> \in Seq(Messages)
      BY MessagesAre
    <3>2. QED
      BY <2>4, <3>1 DEF Owed
  <2> HIDE DEF q, w, newShown, newDue
  <2>12. Head(due[c]) = Head(q) /\ Tail(due[c]) = Tail(q) \o w
    BY <1>4, <2>2, <2>4, <2>11, TakenBefore
  <2>13. asked[c] = newShown \o newDue
    <3>1. due[c] = <<Head(q)>> \o Tail(due[c])
      <4>1. /\ Len(due[c]) \in Nat /\ Len(due[c]) >= 1 /\ Head(due[c]) = due[c][1]
            /\ Len(Tail(due[c])) = Len(due[c]) - 1
            /\ \A i \in 1 .. Len(Tail(due[c])) : Tail(due[c])[i] = due[c][i + 1]
        BY <1>4, HeadTailProperties, EmptySeq, LenProperties
      <4> DEFINE d == due[c]
                 t == Tail(due[c])
                 x == Head(q)
      <4>2. /\ d \in Seq(Messages) /\ t \in Seq(Messages) /\ x = d[1]
            /\ Len(d) >= 1 /\ Len(t) = Len(d) - 1
            /\ \A i \in 1 .. Len(t) : t[i] = d[i + 1]
        BY <1>4, <2>12, <4>1
      <4> HIDE DEF d, t, x
      <4>3. d = <<x>> \o t
        BY <4>2, FirstBefore
      <4>4. QED
        BY <4>3 DEF d, t, x
    <3>2. asked[c] = shown[c] \o due[c]
      BY <2>1 DEF Talking
    <3> DEFINE a == shown[c]
               t == Tail(due[c])
               x == Head(q)
    <3>3. a \in Seq(Messages) /\ t \in Seq(Messages) /\ x \in Messages
      BY <1>4, <2>5, <2>8
    <3>4. asked[c] = a \o (<<x>> \o t)
      BY <3>1, <3>2
    <3>5. newShown = Append(a, x) /\ newDue = t
      BY <2>10
    <3> HIDE DEF a, t, x
    <3>6. Append(a, x) \o t = a \o (<<x>> \o t)
      BY <3>3, AddedBehind
    <3>7. QED
      BY <3>4, <3>5, <3>6
  <2>14. Bounded(shown[c])'
    <3> DEFINE a == shown[c]
               x == Head(q)
    <3>1. a \in Seq(Messages) /\ x \in Messages /\ shown'[c] = Append(a, x) /\ pages' = pages
      BY <1>8, <2>5, <2>8, <2>10 DEF Alone
    <3>2. /\ Bounded(a) /\ x.end <= pages * PageCells /\ x.type # "REMAINDER"
      BY <2>6, <2>7
    <3> HIDE DEF a, x
    <3>3. /\ Len(Append(a, x)) = Len(a) + 1 /\ Len(a) \in Nat
          /\ \A i \in 1 .. Len(a) : Append(a, x)[i] = a[i]
          /\ Append(a, x)[Len(a) + 1] = x
      BY <3>1, AppendProperties, LenProperties
    <3>4. \A i \in 1 .. Len(a) + 1 : i \in 1 .. Len(a) \/ i = Len(a) + 1
      BY <3>3
    <3>5. QED
      BY <3>1, <3>2, <3>3, <3>4 DEF Bounded
  <2>15. Bounded(toClient[c])'
    <3>1. \A i \in 1 .. Len(Tail(q)) : i + 1 \in 1 .. Len(q)
      BY <2>5
    <3>2. toClient'[c] = Tail(q) /\ pages' = pages
      BY <1>8, <2>9 DEF Alone
    <3>3. QED
      BY <2>5, <2>6, <3>1, <3>2 DEF Bounded
  <2>16. shown'[c] \in Seq(Messages)
    BY <1>8, <2>5, <2>8, <2>10, AppendProperties
  <2>17. due'[c] = toClient'[c] \o w
    BY <1>8, <2>9, <2>10, <2>12
  <2>18. CASE newDue = << >>
    <3>1. Tail(q) \o w = << >>
      BY <2>10, <2>12, <2>18
    <3>2. Tail(q) = << >> /\ w = << >>
      BY <2>5, <2>11, <3>1, ConcatEqualIffEmpty
    <3>3. worker[c] \in Quiet
      <4>1. <<info, regs, sregs>> # << >> /\ <<regs, sregs>> # << >> /\ <<sregs>> # << >>
        OBVIOUS
      <4>2. worker[c] \in Quiet \cup Serving
        BY <1>3 DEF ConnTypes
      <4>3. QED
        BY <2>4, <3>2, <4>1, <4>2 DEF w, Owed, Serving
    <3>4. QED
      BY <1>2, <1>8, <2>4, <2>9, <2>13, <2>14, <2>15, <2>18, <2>16, <3>2, <3>3 DEF Talking
  <2>19. CASE newDue # << >>
    <3>1. Answering(c)'
      BY <1>2, <2>4, <2>17 DEF Answering, w
    <3>2. QED
      BY <1>2, <1>8, <2>13, <2>14, <2>15, <2>19, <2>16, <3>1 DEF Talking
  <2>20. QED
    BY <2>18, <2>19
<1>13. Connected(c)'
  BY <1>11, <1>12 DEF Connected
<1>14. QED
  BY <1>9, <1>10, <1>13, OneConnection, AloneIsAround

-----------------------------------------------------------------------------
LEMMA ServerInit == MonitorInit => ServerInv
<1> SUFFICES ASSUME MonitorInit PROVE ServerInv
  OBVIOUS
<1>1. cfg \in Configs /\ DebugInit(cfg.scripts)
  BY DEF MonitorInit, StartInit
<1>2. cfg.scripts \in [Clients -> Seq(Requests)]
  BY <1>1, ConfigsAssumption
<1>3. ConnTypes
  <2>1. << >> \in Seq(Messages) /\ << >> \in Seq(Messages \cup {NULL})
    BY EmptySeq
  <2>2. QED
    BY <1>1, <1>2, <2>1 DEF DebugInit, ConnTypes, Quiet, Streams
<1>4. ASSUME NEW c \in Clients PROVE Connected(c)
  <2>1. /\ debug_serv = "null" /\ client[c] = "off" /\ link[c] = "off" /\ worker[c] = "none"
        /\ my_buf[c] = NULL /\ due[c] = << >> /\ peer[c] = "open" /\ toServer[c] = << >>
        /\ toClient[c] = << >> /\ asked[c] = << >> /\ shown[c] = << >>
        /\ torn[c] = {} /\ << >> \in Seq(Requests) /\ << >> \in Seq(Messages)
    BY <1>1, EmptySeq DEF DebugInit
  <2>2. << >> \o << >> = << >> /\ Len(<< >>) = 0
    BY EmptySeq, ConcatEmptySeq
  <2>3. Plumbing(c)
    BY <2>1 DEF Plumbing, Requested, Serving
  <2>4. Talking(c)
    BY <2>1, <2>2 DEF Talking, Bounded, Quiet
  <2>5. QED
    BY <2>3, <2>4 DEF Connected
<1>5. debug_serv = "null"
  BY <1>1 DEF DebugInit
<1>6. QED
  BY <1>3, <1>4, <1>5 DEF ServerInv

\* What a death by the hand of a worker leaves to be seen afterwards.
Segv == \E c \in Clients : \/ client[c] \in {"done", "left"} /\ asked[c] = << >>
                           \/ "request" \in torn[c]
Sigpipe == \E c \in Clients : peer[c] = "reset" /\ (client[c] = "left" \/ torn[c] # {})

LEMMA ServeKeepsServer ==
  ASSUME ServerInv, LoadTypes, NEW c \in Clients, Serve(c)
  PROVE  /\ ServerInv'
         /\ monitor' # monitor =>
              (monitor' = "segv" /\ Segv') \/ (monitor' = "sigpipe" /\ Sigpipe')
<1>1. Alone /\ monitor = "up" /\ ServerStep(c, pages * PageCells)
  <2>1. monitor' = monitor \/ monitor' # "up"
    BY ConnectionEffect
  <2>2. UNCHANGED <<pages, stage, debug_serv>>
    BY ConnectionEffect DEF startVars
  <2>3. QED
    BY <2>1, <2>2 DEF Alone, Serve
<1>2. CASE main_fun(c)
  BY <1>1, <1>2, AcceptKeepsServer DEF main_fun
<1>3. CASE worker_recv(c)
  <2>1. /\ ServerInv'
        /\ monitor' # monitor =>
              /\ monitor' = "segv"
              /\ \/ client[c] \in {"done", "left"} /\ asked[c] = << >>
                 \/ "request" \in torn'[c]
              /\ UNCHANGED <<client, asked>>
    BY <1>1, <1>3, WorkerRecvKeepsServer
  <2>2. QED
    BY <2>1 DEF Segv
<1>4. CASE send_dump_mem(c, pages * PageCells)
  <2>1. ServerInv' /\ Broken(c) /\ UNCHANGED <<client, torn>>
    BY <1>1, <1>4, DumpKeepsServer
  <2>2. QED
    BY <2>1 DEF Broken, Sigpipe
<1>5. CASE send_info(c) \/ send_regs(c)
  <2>1. ServerInv' /\ Broken(c) /\ UNCHANGED <<client, torn>>
    BY <1>1, <1>5, InfoKeepsServer
  <2>2. QED
    BY <2>1 DEF Broken, Sigpipe
<1>6. QED
  BY <1>1, <1>2, <1>3, <1>4, <1>5 DEF ServerStep

LEMMA UseKeepsServer ==
  ASSUME ServerInv, NEW c \in Clients, GetRegs(c) \/ Use(c) \/ Abandon(c)
  PROVE  ServerInv' /\ UNCHANGED monitor
<1>1. UNCHANGED <<pages, stage, debug_serv>>
  BY ConnectionEffect DEF startVars
<1>2. UNCHANGED monitor
  BY DEF GetRegs, Use, Abandon, get_regs, ClientStep, connect, request, receive,
         client_fault, finish, leave
<1>3. Alone
  BY <1>1, <1>2 DEF Alone
<1>4. CASE GetRegs(c)
  BY <1>2, <1>3, <1>4, GetRegsKeepsServer DEF GetRegs
<1>5. CASE Use(c)
  BY <1>2, <1>3, <1>5, ConnectKeepsServer, RequestKeepsServer, ReceiveKeepsServer,
     CloseKeepsServer DEF Use, ClientStep
<1>6. CASE Abandon(c)
  BY <1>2, <1>3, <1>6, CloseKeepsServer DEF Abandon
<1>7. QED
  BY <1>4, <1>5, <1>6

\* The steps of the process that are no connection's.
Elsewhere == UNCHANGED <<link, worker, my_buf, clientVars, socketVars>>

LEMMA ProcessStep ==
  ASSUME ServerInv, \/ MainStep \/ give_up \/ vCPU \/ SIGINT
                    \/ \E t \in Threads : Terminate(t)
                    \/ UNCHANGED monitorVars
  PROVE  Elsewhere /\ Around /\ (monitor' = monitor \/ monitor' \in {"exited", "sigint", "abort"})
<1> USE DEF Elsewhere, Around
<1>1. CASE start
  <2>1. UNCHANGED <<debug_serv, link, worker, my_buf, clientVars, socketVars, monitor>>
    BY <1>1 DEF start, debugVars, serverVars
  <2>2. stage' # "config" /\ (pages' = pages \/ stage = "config")
    <3>1. StartStep
      BY <1>1 DEF start
    <3>2. CASE configure
      BY <3>2 DEF configure, At
    <3>3. CASE load_program
      BY <3>3 DEF load_program, estrai_open, estrai_next, estrai_done, At
    <3>4. CASE create_vcpu
      BY <3>4 DEF create_vcpu, At
    <3>5. CASE run_long_mode
      BY <3>5 DEF run_long_mode, At
    <3>6. CASE load_boot64
      BY <3>6 DEF load_boot64, estrai_open, estrai_next, estrai_done, At
    <3>7. QED
      BY <3>1, <3>2, <3>3, <3>4, <3>5, <3>6 DEF StartStep
  <2>3. QED
    BY <2>1, <2>2
<1>2. CASE start_debug_server
  BY <1>2 DEF start_debug_server, start_server, At
<1>3. CASE getInstance_in \/ getInstance_out \/ register_endIO \/ catch_SIGINT
  BY <1>3 DEF getInstance_in, getInstance_out, register_endIO, catch_SIGINT, Starting, At,
              debugVars, serverVars
<1>4. CASE give_up
  BY <1>4 DEF give_up, start_fails, debugVars, serverVars
<1>5. CASE vCPU
  BY <1>5 DEF vCPU, KVM_RUN, KVM_EXIT, KVM_EXIT_return, Running, startVars, debugVars, serverVars
<1>6. CASE SIGINT
  BY <1>6 DEF SIGINT, startVars, serverVars
<1>7. ASSUME NEW t \in Threads, Terminate(t)
      PROVE  /\ Elsewhere /\ Around
             /\ monitor' = monitor \/ monitor' \in {"exited", "sigint", "abort"}
  <2>1. UNCHANGED <<pages, stage>>
    BY <1>7 DEF Terminate, endIO_out, endIO_in, endIO_delete, exit_handler, destroy,
                exit_process, Ending, startVars
  <2>2. CASE endIO_out(t) \/ endIO_in(t) \/ exit_handler(t) \/ destroy(t)
    BY <2>1, <2>2 DEF endIO_out, endIO_in, exit_handler, destroy, debugVars, serverVars
  <2>3. CASE endIO_delete(t)
    <3>1. Elsewhere /\ (monitor' = monitor \/ monitor' = "abort")
      BY <2>3 DEF endIO_delete, delete_debug_serv
    <3>2. debug_serv' = "null" => debug_serv = "null"
      BY <2>3 DEF endIO_delete, delete_debug_serv
    <3>3. stage # "config" \/ debug_serv' = debug_serv
      BY <2>3 DEF endIO_delete, delete_debug_serv, ServerInv
    <3>4. QED
      BY <2>1, <3>1, <3>2, <3>3
  <2>4. CASE exit_process(t)
    BY <2>1, <2>4 DEF exit_process, serverVars
  <2>5. QED
    BY <1>7, <2>2, <2>3, <2>4 DEF Terminate
<1>8. CASE UNCHANGED monitorVars
  BY <1>8 DEF monitorVars, startVars, debugVars, serverVars
<1>9. QED
  BY <1>1, <1>2, <1>3, <1>4, <1>5, <1>6, <1>7, <1>8 DEF MainStep

LEMMA ServerStepKeeps ==
  LoadInv /\ ServerInv /\ [MonitorNext]_monitorVars => ServerInv'
<1> SUFFICES ASSUME LoadInv, ServerInv, [MonitorNext]_monitorVars PROVE ServerInv'
  OBVIOUS
<1>1. CASE \E c \in Clients : Serve(c)
  BY <1>1, ServeKeepsServer DEF LoadInv
<1>2. CASE \E c \in Clients : GetRegs(c) \/ Use(c) \/ Abandon(c)
  BY <1>2, UseKeepsServer
<1>3. CASE \/ MainStep \/ give_up \/ vCPU \/ SIGINT
           \/ \E t \in Threads : Terminate(t)
           \/ UNCHANGED monitorVars
  BY <1>3, ProcessStep, NoConnection DEF Elsewhere
<1>4. QED
  BY <1>1, <1>2, <1>3 DEF MonitorNext

(***************************************************************************)
(* Where every message of every connection is, for every script and any    *)
(* number of clients.                                                      *)
(***************************************************************************)
THEOREM ServerInvariant == MonitorSpec => []ServerInv
  BY ServerInit, ServerStepKeeps, LoadInvariant, PTL DEF MonitorSpec

(***************************************************************************)
(* A client that has gone stays gone, a reset connection stays reset.      *)
(***************************************************************************)
Lasting(c) ==
  /\ client[c] \in {"done", "left"} => client'[c] = client[c] /\ asked'[c] = asked[c]
  /\ peer[c] = "reset" => peer'[c] = "reset"
  /\ torn[c] \subseteq torn'[c]

LEMMA HistoryLasts ==
  ASSUME ServerInv, [MonitorNext]_monitorVars, NEW c \in Clients
  PROVE  Lasting(c)
<1>1. ConnTypes
  BY DEF ServerInv
<1>2. CASE Elsewhere
  BY <1>2 DEF Elsewhere, Lasting, clientVars, socketVars
<1>3. ASSUME NEW d \in Clients, Serve(d) \/ GetRegs(d)
      PROVE  Lasting(c)
  <2>1. CASE worker_recv(d)
    BY <1>1, <2>1 DEF worker_recv, Lasting, ConnTypes, clientVars
  <2>2. CASE \E m, next : Answer(d, m, next)
    BY <1>1, <2>2 DEF Answer, send_data, Lasting, ConnTypes, clientVars
  <2>3. CASE UNCHANGED <<clientVars, socketVars>>
    BY <2>3 DEF Lasting, clientVars, socketVars
  <2>4. CASE send_dump_mem(d, pages * PageCells)
    BY <2>2, <2>3, <2>4 DEF send_dump_mem
  <2>5. QED
    BY <1>3, <2>1, <2>2, <2>3, <2>4
       DEF Serve, ServerStep, main_fun, send_info, send_regs, GetRegs, get_regs
<1>4. ASSUME NEW d \in Clients, Use(d) \/ Abandon(d)
      PROVE  Lasting(c)
  <2>1. CASE connect(d)
    BY <1>1, <2>1 DEF connect, Lasting, ConnTypes, socketVars
  <2>2. CASE request(d)
    BY <1>1, <2>2 DEF request, Lasting, ConnTypes, serverVars
  <2>3. CASE receive(d)
    BY <1>1, <2>3 DEF receive, Lasting, ConnTypes, serverVars
  <2>4. CASE client_fault(d) \/ finish(d) \/ leave(d)
    BY <1>1, <2>4 DEF client_fault, finish, leave, Close, Lasting, ConnTypes, serverVars
  <2>5. QED
    BY <1>4, <2>1, <2>2, <2>3, <2>4 DEF Use, ClientStep, Abandon
<1>5. CASE \/ MainStep \/ give_up \/ vCPU \/ SIGINT
           \/ \E t \in Threads : Terminate(t)
           \/ UNCHANGED monitorVars
  BY <1>2, <1>5, ProcessStep
<1>6. QED
  BY <1>3, <1>4, <1>5 DEF MonitorNext

LEMMA SurvivalStep ==
  /\ MonitorSurvives /\ LoadInv /\ ServerInv /\ [MonitorNext]_monitorVars /\ LifeInv'
  => MonitorSurvives'
<1> SUFFICES ASSUME MonitorSurvives, LoadInv, ServerInv, [MonitorNext]_monitorVars, LifeInv'
             PROVE  MonitorSurvives'
  OBVIOUS
<1>1. (monitor = "segv" => Segv) /\ (monitor = "sigpipe" => Sigpipe)
  BY DEF MonitorSurvives, Segv, Sigpipe
<1>2. \/ monitor' = monitor
      \/ monitor' \in {"exited", "sigint", "abort"}
      \/ (monitor' = "segv" /\ Segv') \/ (monitor' = "sigpipe" /\ Sigpipe')
  BY ServeKeepsServer, UseKeepsServer, ProcessStep DEF MonitorNext, LoadInv
<1>3. Segv => Segv'
  BY HistoryLasts DEF Segv, Lasting
<1>4. Sigpipe => Sigpipe'
  <2>1. ASSUME NEW c \in Clients, peer[c] = "reset", client[c] = "left" \/ torn[c] # {}
        PROVE  peer'[c] = "reset" /\ (client'[c] = "left" \/ torn'[c] # {})
    BY <2>1, HistoryLasts DEF Lasting
  <2>2. QED
    BY <2>1 DEF Sigpipe
<1>5. (monitor' = "segv" => Segv') /\ (monitor' = "sigpipe" => Sigpipe')
  BY <1>1, <1>2, <1>3, <1>4
<1>6. monitor' = "abort" => in_endIO' /\ cfg'.debug
  BY DEF LifeInv, OnceInv
<1>7. QED
  BY <1>5, <1>6 DEF MonitorSurvives, Segv, Sigpipe

(***************************************************************************)
(* What can kill the monitor from inside, whatever the clients do: the     *)
(* three cases of MonitorSurvives and no other (worker_fun, send_data,     *)
(* endIO).                                                                 *)
(***************************************************************************)
THEOREM OnlyTheseKill == MonitorSpec => []MonitorSurvives
<1>1. MonitorInit => MonitorSurvives
  BY DEF MonitorInit, DebugInit, MonitorSurvives
<1>2. QED
  BY <1>1, SurvivalStep, LifeInvariant, LoadInvariant, ServerInvariant, PTL DEF MonitorSpec

(***************************************************************************)
(* What a client prints is what it asked for, in order and inside guest    *)
(* memory, as long as no message is torn (debug_server, debug_client).     *)
(***************************************************************************)
THEOREM AnswersCorrect == MonitorSpec => []AnswersInOrder
<1>1. ServerInv => AnswersInOrder
  <2> SUFFICES ASSUME ServerInv, NEW c \in Clients, monitor = "up", torn[c] = {}
               PROVE  /\ IsPrefix(shown[c], asked[c])
                      /\ \A i \in DOMAIN shown[c] : shown[c][i].end <= pages * PageCells
    BY DEF AnswersInOrder
  <2>1. Talking(c) /\ shown[c] \in Seq(Messages) /\ due[c] \in Seq(Messages)
    BY DEF ServerInv, Connected, ConnTypes, Talking
  <2>2. IsPrefix(shown[c], asked[c])
    BY <2>1, BeginningIsPrefix DEF Talking
  <2>3. DOMAIN shown[c] = 1 .. Len(shown[c])
    BY <2>1, LenProperties
  <2>4. QED
    BY <2>1, <2>2, <2>3 DEF Talking, Bounded
<1>2. QED
  BY <1>1, ServerInvariant, PTL

(***************************************************************************)
(* Types of the whole monitor: guest memory never exceeds what the page    *)
(* tables are laid out for, and a client that waits knows what for.        *)
(***************************************************************************)
THEOREM TypeCorrect == MonitorSpec => []MonitorTypeOK
<1>1. LifeInv /\ LoadInv /\ ServerInv => MonitorTypeOK
  <2> SUFFICES ASSUME LifeInv, LoadInv, ServerInv PROVE MonitorTypeOK
    OBVIOUS
  <2>1. cfg \in Configs /\ pages \in 0 .. Entries /\ DOMAIN mem = Guest
    BY DEF LoadInv, LoadTypes
  <2>2. /\ stage \in Stages /\ monitor \in {"up", "exited", "sigint", "segv", "sigpipe", "abort"}
        /\ debug_serv \in {"null", "live", "deleted"}
        /\ {tty, in_old, out_old} \subseteq {"user", "raw"}
        /\ pc.main # "none"
    BY DEF LifeInv, LifeTypes, OrderInv, Ends
  <2>3. {in_endIO, sigint, in_guest} \subseteq BOOLEAN
    BY DEF LifeInv, LifeTypes
  <2>4. /\ link \in [Clients -> {"off", "backlog", "worker"}]
        /\ worker \in [Clients -> {"none", "recv", "dump", "info", "get_regs", "get_sregs",
                                  "regs", "sregs", "returned"}]
        /\ client \in [Clients -> {"off", "idle", "await", "done", "left"}]
        /\ peer \in [Clients -> {"open", "closed", "reset"}]
        /\ torn \in [Clients -> SUBSET {"request", "answer"}]
    <3>1. Quiet \cup Serving = {"none", "recv", "dump", "info", "get_regs", "get_sregs",
                                "regs", "sregs", "returned"}
      BY DEF Quiet, Serving
    <3>2. QED
      BY <3>1 DEF ServerInv, ConnTypes, Streams
  <2>5. \A c \in Clients : client[c] = "await" => due[c] # << >>
    BY DEF ServerInv, Connected, Plumbing
  <2>6. QED
    BY <2>1, <2>2, <2>3, <2>4, <2>5 DEF MonitorTypeOK
<1>2. QED
  BY <1>1, LifeInvariant, LoadInvariant, ServerInvariant, PTL
=============================================================================
