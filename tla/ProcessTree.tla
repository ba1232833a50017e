---------------------------- MODULE ProcessTree ----------------------------
(***************************************************************************)
(* The launcher, the user interfaces of the ECC and PSK projects that it   *)
(* starts, and the slave processes and threads that these start: which     *)
(* signals reach whom, and what the end of one leaves of the others.       *)
(*                                                                         *)
(* The launcher stops a user interface with SIGTERM, for which             *)
(* ui_server.py has no handler: it ends without its finally clause.        *)
(* Ctrl-C reaches all processes, and the user interface runs the clause.   *)
(***************************************************************************)
EXTENDS Launcher, SlaveControl, EmbeddedSlave

CONSTANTS MaxEvents, \* bound: requests, signals and other events from outside,
                     \* by the project that gets the requests
          MaxNested  \* bound: calls of stop_all inside each other

ASSUME TreeAssumption == N >= 2 /\ MaxEvents \in [{1, 2} -> Nat] /\ MaxNested \in Nat

VARIABLES events,
          used    \* bound: the one project that gets requests

vars == <<launcherVars, controlVars, embeddedVars, events, used>>

Ecc == 1
Psw == 2

Init ==
    /\ LauncherInit /\ ControlInit /\ EmbeddedInit
    /\ events = 0 /\ used \in {Ecc, Psw}

(* The user interface ends if the launcher's view of it does *)
Follows ==
    IF Alive(Ecc) /\ ui'[Ecc] = "ended" /\ Present THEN ControlDies
    ELSE UNCHANGED controlVars

LauncherStep ==
    /\ MainStep \/ \E k \in Projects : UiBinds(k)
    /\ Follows
    /\ UNCHANGED <<embeddedVars, events, used>>

(* A signal sent to the ECC user interface takes effect: SIGTERM and an      *)
(* early SIGINT at once, a later SIGINT when the interpreter has finalized  *)
SignalledUiEnds ==
    /\ \E k \in Projects :
        /\ UiEnds(k)
        /\ k = Ecc => Ecc \in terminated \/ ~Ending
    /\ Follows
    /\ UNCHANGED <<embeddedVars, events, used>>

ControlMoves ==
    /\ ui[Ecc] = "listening"
    /\ ControlStep
    /\ UNCHANGED <<launcherVars, embeddedVars, events, used>>

SlaveMoves == SlaveStep /\ UNCHANGED <<launcherVars, embeddedVars, events, used>>

ReadMoves ==
    /\ ui[Psw] = "listening" /\ ReadStep
    /\ UNCHANGED <<launcherVars, controlVars, events, used>>

Event == events < MaxEvents[used] /\ events' = events + 1 /\ UNCHANGED used

Requested ==
    /\ used = Ecc /\ ui[Ecc] = "listening" /\ Request
    /\ UNCHANGED <<launcherVars, embeddedVars>> /\ Event

ReadRequested ==
    /\ used = Psw /\ ui[Psw] = "listening" /\ \E r \in Reads : BeginRead(r)
    /\ UNCHANGED <<launcherVars, controlVars>> /\ Event

SlaveFails ==
    /\ \E p \in Pids : SlaveEnds(p)
    /\ UNCHANGED <<launcherVars, embeddedVars>> /\ Event

Outside ==
    /\ \/ Len(calls) < MaxNested /\ \E signal \in {"SIGTERM", "SIGINT"} : Signal(signal)
       \/ main \in {"choosing", "starting"} /\ OthersChange
       \/ \E k \in Projects : UiKilled(k)
    /\ Follows /\ UNCHANGED embeddedVars /\ Event

(* Ctrl-C in the terminal reaches the whole foreground group *)
TerminalInterrupt ==
    /\ Len(calls) < MaxNested /\ CtrlC
    /\ ControlInterrupted(ui[Ecc] = "listening")
    /\ UNCHANGED embeddedVars /\ Event

Next == LauncherStep \/ SignalledUiEnds \/ ControlMoves \/ SlaveMoves \/ ReadMoves
        \/ Requested \/ ReadRequested \/ SlaveFails \/ Outside \/ TerminalInterrupt

Spec == Init /\ [][Next]_vars

(* Every program runs on.  A signal need not end a process: it may be        *)
(* stopped, and then the kill that follows ends it.  Only one of the user   *)
(* interfaces has requests to work on.                                      *)
Fairness == WF_vars(LauncherStep) /\ WF_vars(ControlMoves \/ ReadMoves)
FairSpec == Spec /\ Fairness

-----------------------------------------------------------------------------
(* CtrlCReachesSlaves (unified_server.py:100-111, ui_server.py:659-664): after *)
(* Ctrl-C no slave process keeps running, remembered or not, but those that *)
(* requests started after it, until the user interface was gone.  Nothing   *)
(* of the kind holds for SIGTERM, on which stop_all leaves slaves behind.   *)
CtrlCReachesSlaves ==
    Ecc \in interrupted => \A p \in Pids : Running(p) => p \in signalled \cup late

TypeOK == LauncherTypeOK /\ ControlTypeOK /\ EmbeddedTypeOK

(* EveryReadAnswered (web_frontend.py:136-160): again and again no request   *)
(* to read is under way; each comes to an end, also if nobody ever connects *)
(* to its slave, unless the user interface ends before.  It may be an end   *)
(* without an answer: do_POST does not catch EOFError.                      *)
EveryReadAnswered ==
    []<>(ui[Psw] # "listening" \/ \A r \in Reads : master[r] \in Answers \cup {"none"})
=============================================================================
