------------------------------- MODULE Monitor ------------------------------
(***************************************************************************)
(* The life of the monitor process: start-up, the debug server, the        *)
(* consoles, the run loop, and the ways it ends.  Termination is the hard  *)
(* part: main can return, ctrl+c can interrupt it anywhere, and both lead  *)
(* through endIO and the exit handlers, which share the terminal and the   *)
(* debug server.                                                           *)
(***************************************************************************)
EXTENDS StartUp, DebugServer

\* A dump of the whole guest memory has a length of 32 bits (main, at most 1 GiB).
ASSUME DumpAssumption == DumpModulus \in Nat /\ Entries * PageCells < DumpModulus
ASSUME ConfigsAssumption ==
  \A c \in Configs : /\ c.scripts \in [Clients -> Seq(Requests)]
                     /\ {c.debug, c.tears} \subseteq BOOLEAN
                     /\ c.ctrl_c \in Nat

VARIABLES pc,                       \* of the main thread, and of the thread
                                    \* that takes a second ctrl+c
          in_endIO,                 \* main is inside the SIGINT handler
          handlers,                 \* exit handlers, last registered first
          sigint,                   \* endIO is the handler of SIGINT
          tty,                      \* terminal attributes: "user" or "raw"
          in_old, out_old,          \* tty_attr_old of the two consoles
          in_guest                  \* main is inside KVM_RUN

lifeVars == <<pc, in_endIO, handlers, sigint, tty, in_old, out_old, in_guest>>
monitorVars == <<startVars, debugVars, lifeVars>>

Threads == {"main", "other"}

MonitorInit ==
  /\ StartInit
  /\ DebugInit(cfg.scripts)
  /\ pc = [main |-> "main", other |-> "none"]
  /\ in_endIO = FALSE
  /\ handlers = << >>
  /\ sigint = FALSE
  /\ tty = "user"
  /\ in_old = "user"
  /\ out_old = "user"
  /\ in_guest = FALSE

\* The main thread executes main, and the process exists.
InMain == pc.main = "main" /\ monitor = "up"

start == InMain /\ StartStep /\ UNCHANGED <<debugVars, lifeVars>>

start_debug_server ==
  /\ InMain
  /\ At("server", "bootloader")
  /\ start_server(cfg.debug)
  /\ UNCHANGED <<cfg, pages, mem, todo, lifeVars>>

\* A return or exit before initIO: no handler of the monitor is registered.
give_up ==
  /\ InMain
  /\ start_fails
  /\ pc' = [pc EXCEPT !.main = "exit"]
  /\ UNCHANGED <<debugVars, in_endIO, handlers, sigint, tty, in_old, out_old,
                 in_guest>>

-----------------------------------------------------------------------------
(***************************************************************************)
(* initIO.  getInstance constructs a console and registers its destructor. *)
(* ConsoleInput saves the attributes and sets raw mode; ConsoleOutput      *)
(* comes second and saves what it finds.                                   *)
(***************************************************************************)
Starting(from, to) ==
  /\ InMain /\ At(from, to)
  /\ UNCHANGED <<cfg, pages, mem, todo, debugVars, pc, in_endIO, in_guest>>

getInstance_in ==
  /\ Starting("initIO", "console_out")
  /\ in_old' = tty
  /\ tty' = "raw"
  /\ handlers' = <<"~ConsoleInput">> \o handlers
  /\ UNCHANGED <<sigint, out_old>>

getInstance_out ==
  /\ Starting("console_out", "atexit")
  /\ out_old' = tty
  /\ handlers' = <<"~ConsoleOutput">> \o handlers
  /\ UNCHANGED <<sigint, tty, in_old>>

\* mutant: endIO is registered twice.
register_endIO_twice ==
  /\ Starting("atexit", "signal")
  /\ handlers' = <<"endIO", "endIO">> \o handlers
  /\ UNCHANGED <<sigint, tty, in_old, out_old>>

register_endIO ==
  /\ Starting("atexit", "signal")
  /\ handlers' = <<"endIO">> \o handlers
  /\ UNCHANGED <<sigint, tty, in_old, out_old>>

catch_SIGINT ==
  /\ Starting("signal", "run")
  /\ sigint' = TRUE
  /\ UNCHANGED <<handlers, tty, in_old, out_old>>

-----------------------------------------------------------------------------
Running(inside) ==
  /\ InMain /\ stage = "run" /\ in_guest = inside
  /\ in_guest' = ~inside
  /\ UNCHANGED <<startVars, debugVars, in_endIO, handlers, sigint, tty, in_old,
                 out_old>>

KVM_RUN == Running(FALSE) /\ UNCHANGED pc
\* An exit the loop handles ...
KVM_EXIT == Running(TRUE) /\ UNCHANGED pc
\* ... and one it returns from: HLT, shutdown, failures, debug exits.
KVM_EXIT_return == Running(TRUE) /\ pc' = [pc EXCEPT !.main = "exit"]

(***************************************************************************)
(* ctrl+c.  The kernel interrupts the main thread, which never comes back  *)
(* from the handler; while the handler runs the signal is blocked there    *)
(* and a second one goes to another thread.  Before signal() the process   *)
(* dies.  How often it is pressed, at most twice, is part of the           *)
(* configuration.                                                          *)
(***************************************************************************)
Interrupts == (IF in_endIO THEN 1 ELSE 0) + (IF pc.other # "none" THEN 1 ELSE 0)

SIGINT ==
  /\ monitor = "up"
  /\ Interrupts < cfg.ctrl_c
  /\ IF ~sigint
       THEN monitor' = "sigint" /\ UNCHANGED <<pc, in_endIO, in_guest>>
       ELSE /\ UNCHANGED monitor
            /\ IF ~in_endIO
                 THEN /\ pc' = [pc EXCEPT !.main = "endIO"]
                      /\ in_endIO' = TRUE
                      /\ in_guest' = FALSE
                 ELSE /\ pc' = [pc EXCEPT !.other = "endIO"]
                      /\ UNCHANGED <<in_endIO, in_guest>>
  /\ UNCHANGED <<startVars, serverVars, clientVars, socketVars, handlers,
                 sigint, tty, in_old, out_old>>

-----------------------------------------------------------------------------
\* A thread that terminates moves from one point to the next.
Ending(t, from, to) ==
  /\ monitor = "up"
  /\ pc[t] = from
  /\ pc' = [pc EXCEPT ![t] = to]
  /\ UNCHANGED <<startVars, in_endIO, sigint, in_old, out_old, in_guest>>

\* endIO: the two consoles, the debug server, whose pointer is kept, exit.
endIO_out(t) ==
  /\ Ending(t, "endIO", "endIO_in")
  /\ tty' = out_old
  /\ UNCHANGED <<debugVars, handlers>>

endIO_in(t) ==
  /\ Ending(t, "endIO_in", "endIO_delete")
  /\ tty' = in_old
  /\ UNCHANGED <<debugVars, handlers>>

endIO_delete(t) ==
  /\ Ending(t, "endIO_delete", "exit")
  /\ delete_debug_serv
  /\ UNCHANGED <<handlers, tty>>

\* mutant: the destructor of ConsoleInput does not restore the terminal.
Destroyed_out_only(h) == IF h = "~ConsoleOutput" THEN out_old ELSE tty

\* The destructors of the consoles call resetConsole.
Destroyed(h) == IF h = "~ConsoleOutput" THEN out_old ELSE in_old

(***************************************************************************)
(* exit (external): takes the handlers off the list one by one, endIO      *)
(* among them, whose own exit(0) goes on with the rest; with none left the *)
(* process ends.                                                           *)
(***************************************************************************)
exit_handler(t) ==
  /\ handlers # << >>
  /\ handlers' = Tail(handlers)
  /\ Ending(t, "exit", Head(handlers))
  /\ UNCHANGED <<debugVars, tty>>

destroy(t) ==
  \E h \in {"~ConsoleOutput", "~ConsoleInput"} :
    /\ Ending(t, h, "exit")
    /\ tty' = Destroyed(h)
    /\ UNCHANGED <<debugVars, handlers>>

exit_process(t) ==
  /\ handlers = << >>
  /\ Ending(t, "exit", "exited")
  /\ monitor' = "exited"
  /\ UNCHANGED <<serverVars, clientVars, socketVars, handlers, tty>>

Terminate(t) ==
  \/ endIO_out(t)
  \/ endIO_in(t)
  \/ endIO_delete(t)
  \/ exit_handler(t)
  \/ destroy(t)
  \/ exit_process(t)

-----------------------------------------------------------------------------
MainStep ==
  \/ start
  \/ start_debug_server
  \/ getInstance_in
  \/ getInstance_out
  \/ register_endIO
  \/ catch_SIGINT

vCPU == KVM_RUN \/ KVM_EXIT \/ KVM_EXIT_return

\* Which clients there are, and whether their messages may arrive in pieces,
\* is part of the configuration.
Connection(c) ==
  /\ c \in cfg.users
  /\ cfg.tears \/ torn' = torn
  /\ UNCHANGED <<startVars, lifeVars>>

Serve(c) == monitor = "up" /\ ServerStep(c, pages * PageCells) /\ Connection(c)
GetRegs(c) == monitor = "up" /\ get_regs(c, ~in_guest) /\ Connection(c)
Use(c) == ClientStep(c) /\ Connection(c)
Abandon(c) == leave(c) /\ Connection(c)

MonitorNext ==
  \/ MainStep
  \/ give_up
  \/ vCPU
  \/ SIGINT
  \/ \E t \in Threads : Terminate(t)
  \/ \E c \in Clients : Serve(c) \/ GetRegs(c) \/ Use(c) \/ Abandon(c)

MonitorSpec == MonitorInit /\ [][MonitorNext]_monitorVars

(***************************************************************************)
(* The host runs every thread that can run, and the vCPU's lock in the     *)
(* kernel is handed to a waiter in the end.  Nothing makes the guest leave *)
(* KVM_RUN.                                                                *)
(***************************************************************************)
FairMonitorSpec ==
  /\ MonitorSpec
  /\ WF_monitorVars(MainStep)
  /\ \A t \in Threads : WF_monitorVars(Terminate(t))
  /\ \A c \in Clients : /\ WF_monitorVars(Serve(c))
                        /\ SF_monitorVars(GetRegs(c))
                        /\ WF_monitorVars(Use(c))

-----------------------------------------------------------------------------
(***************************************************************************)
(* Types; guest memory is never more than the GiB the page tables are laid *)
(* out for (main), and a client that waits knows what for (debug_client).  *)
(***************************************************************************)
MonitorTypeOK ==
  /\ cfg \in Configs
  /\ stage \in Stages
  /\ pages \in 0 .. Entries /\ DOMAIN mem = Guest
  /\ monitor \in {"up", "exited", "sigint", "segv", "sigpipe", "abort"}
  /\ debug_serv \in {"null", "live", "deleted"}
  /\ link \in [Clients -> {"off", "backlog", "worker"}]
  /\ worker \in [Clients -> {"none", "recv", "dump", "info", "get_regs",
                            "get_sregs", "regs", "sregs", "returned"}]
  /\ client \in [Clients -> {"off", "idle", "await", "done", "left"}]
  /\ peer \in [Clients -> {"open", "closed", "reset"}]
  /\ torn \in [Clients -> SUBSET {"request", "answer"}]
  /\ \A c \in Clients : (client[c] = "await") => (due[c] # << >>)
  /\ {tty, in_old, out_old} \subseteq {"user", "raw"}
  /\ {in_endIO, sigint, in_guest} \subseteq BOOLEAN
  /\ pc.main # "none"

(***************************************************************************)
(* The terminal is given back.  A monitor that has ended left it in raw    *)
(* mode only if a fault killed it, if ctrl+c came before signal() was      *)
(* reached, or if a second ctrl+c raced the handling of the first.  The    *)
(* ConsoleOutput destructor puts raw mode back, so it is the destructor of *)
(* ConsoleInput, run after it, that makes this true.                       *)
(***************************************************************************)
TerminalRestored ==
  monitor # "up" /\ tty = "raw" =>
    \/ monitor \in {"segv", "sigpipe"}
    \/ monitor = "sigint" /\ ~sigint
    \/ pc.other # "none"

(***************************************************************************)
(* What can kill the monitor from inside: a client that leaves before its  *)
(* first request and a request that arrives in pieces (worker_fun converts *)
(* a null buffer), a client that leaves while it is being answered or has  *)
(* given up on a torn message (SIGPIPE), and ctrl+c with the debug server  *)
(* on (endIO deletes it again at exit).  A torn answer, a request that is  *)
(* refused, and a monitor that returns from main, which deletes the server *)
(* once, do not.                                                           *)
(***************************************************************************)
MonitorSurvives ==
  /\ monitor = "segv" =>
       \E c \in Clients : \/ client[c] \in {"done", "left"} /\ asked[c] = << >>
                          \/ "request" \in torn[c]
  /\ monitor = "sigpipe" =>
       \E c \in Clients : peer[c] = "reset" /\ (client[c] = "left" \/ torn[c] # {})
  /\ monitor = "abort" => in_endIO /\ cfg.debug

(***************************************************************************)
(* While the monitor runs, what a client prints is, in order, what it      *)
(* asked for: a dump of exactly the range requested, inside guest memory,  *)
(* then the memory size, the registers and the system registers, unless a  *)
(* message of this connection arrived in two pieces.                       *)
(***************************************************************************)
AnswersInOrder ==
  \A c \in Clients :
    monitor = "up" /\ torn[c] = {} =>
      /\ IsPrefix(shown[c], asked[c])
      /\ \A i \in DOMAIN shown[c] : shown[c][i].end <= pages * PageCells

Answerable(c) == \A i \in DOMAIN due[c] : due[c][i].end <= pages * PageCells

(***************************************************************************)
(* A client that asks for memory the guest has, or for the registers, is   *)
(* answered in full, whatever the other clients do, unless it leaves, the  *)
(* monitor ends, a message was torn, or the guest stays inside KVM_RUN for *)
(* ever and keeps the vCPU's lock.                                         *)
(***************************************************************************)
ClientServed ==
  \A c \in Clients :
    \/ <>[]in_guest
    \/ (client[c] = "await" /\ Answerable(c))
         ~> (client[c] # "await" \/ monitor # "up" \/ torn[c] # {})
=============================================================================
