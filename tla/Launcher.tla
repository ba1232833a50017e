------------------------------ MODULE Launcher ------------------------------
(***************************************************************************)
(* unified_server.py: the launcher chooses a port for each user interface  *)
(* (project), starts one process for each, serves its own page, and stops  *)
(* the processes when it ends: in a signal handler, in the finally clause  *)
(* of main and in an atexit callback, all three of which call stop_all.    *)
(*                                                                         *)
(* A signal handler runs in the main thread, between any two of its steps; *)
(* the stop_all it calls lies on top of the one it interrupts.  The lock   *)
(* of ProjectManager is not reentrant.  The log and HTTP threads hold it   *)
(* for moments in which they wait for nothing; they are left out.          *)
(*                                                                         *)
(* A name that ends in an underscore and a capitalised word belongs to a   *)
(* variant, with a plausible bug, of the definition named before that      *)
(* underscore; no specification uses it.                                   *)
(***************************************************************************)
EXTENDS Naturals, Sequences, SequencesExt

CONSTANTS N,          \* projects, in the order of requested_ports
          Ports,      \* TCP ports
          NoPort,     \* not chosen yet
          OwnPort,    \* args.port
          Ephemeral,  \* ports the system chooses from
          Taken,      \* ports others have when the launcher starts
          Preferred   \* requested_ports: a port for each project

Projects == 1..N

ASSUME LauncherAssumption ==
    /\ N \in Nat \ {0}
    /\ NoPort \notin Ports /\ OwnPort \in Ports
    /\ Taken \subseteq Ports /\ Ephemeral \subseteq Ports
    /\ Preferred \in [Projects -> Ports]

VARIABLES main,   \* what the main thread does next, below any stop_all
          calls,  \* the activations of stop_all, the innermost last
          port,   \* the port of each project
          ui,     \* the process of each project
          terminated,  \* processes that have yet to react to SIGTERM
          interrupted, \* processes that were sent SIGINT
          others  \* ports in use by other programs

launcherVars == <<main, calls, port, ui, terminated, interrupted, others>>

(* Process.poll() is None *)
Alive(k) == ui[k] \in {"starting", "listening"}

(* Ports that cannot be bound *)
Held == others \cup {port[k] : k \in {j \in Projects : ui[j] = "listening"}}
               \cup (IF main = "serving" THEN {OwnPort} ELSE {})

LauncherInit ==
    /\ main = "choosing" /\ calls = <<>>
    /\ port = [k \in Projects |-> NoPort]
    /\ ui = [k \in Projects |-> "none"] /\ terminated = {} /\ interrupted = {}
    /\ others = Taken
-----------------------------------------------------------------------------
(* main, in order *)

(* The port the system gives to a socket bound to port 0 is free, and is not *)
(* compared with those reserved.  Without a free port there is OSError.     *)
Available(k, reserved) ==
    IF Preferred[k] \notin reserved \cup Held THEN {Preferred[k]} ELSE Ephemeral \ Held

ChoosePort(k) ==
    LET available == Available(k, {OwnPort} \cup {port[j] : j \in 1..(k - 1)}) IN
    /\ main = "choosing" /\ port[k] = NoPort
    /\ \A j \in 1..(k - 1) : port[j] # NoPort
    /\ IF available = {}
       THEN main' = "killed" /\ UNCHANGED port
       ELSE /\ \E p \in available : port' = [port EXCEPT ![k] = p]
            /\ main' = IF k = N THEN "starting" ELSE main
    /\ UNCHANGED <<calls, ui, terminated, interrupted, others>>

Start(k) ==
    /\ main = "starting" /\ ui[k] = "none"
    /\ \A j \in 1..(k - 1) : ui[j] # "none"
    /\ ui' = [ui EXCEPT ![k] = "starting"]
    /\ main' = IF k = N THEN "registering" ELSE main
    /\ UNCHANGED <<calls, port, terminated, interrupted, others>>

(* A call of stop_all begins at the lock *)
StopAll(by) == [by |-> by, at |-> "lock", left |-> {}, waited |-> {}]

(* Without a callback nothing stops the projects *)
Exit == main' = "exiting" /\ calls' = <<StopAll("atexit")>>
Final == main' = "final" /\ calls' = <<StopAll("finally")>>
End == main' = "ended" /\ calls' = <<>>

(* atexit.register, signal.signal(SIGTERM), signal.signal(SIGINT) *)
Register ==
    /\ \/ main = "registering" /\ main' = "sigterm"
       \/ main = "sigterm" /\ main' = "sigint" /\ calls = <<>>
       \/ main = "sigint" /\ main' = "binding" /\ calls = <<>>
    /\ UNCHANGED <<calls, port, ui, terminated, interrupted, others>>

(* ThreadingHTTPServer(...), or OSError *)
Bind ==
    /\ main = "binding" /\ calls = <<>>
    /\ IF OwnPort \in Held THEN Exit ELSE main' = "serving" /\ UNCHANGED calls
    /\ UNCHANGED <<port, ui, terminated, interrupted, others>>
-----------------------------------------------------------------------------
(* stop_all *)

Top == calls[Len(calls)]
At(where) == calls # <<>> /\ Top.at = where
Goes(call) == calls' = ReplaceAt(calls, Len(calls), call)

LockFree == \A i \in DOMAIN calls : calls[i].at # "inside"

Acquire ==
    /\ At("lock") /\ LockFree
    /\ Goes([Top EXCEPT !.at = "inside"])
    /\ UNCHANGED <<main, port, ui, terminated, interrupted, others>>

Stoppable == {k \in Projects : Alive(k)}

ListProcesses ==
    /\ At("inside")
    /\ Goes([Top EXCEPT !.at = "stop", !.left = Stoppable, !.waited = Stoppable])
    /\ UNCHANGED <<main, port, ui, terminated, interrupted, others>>

(* process.terminate(), one process after the other, then process.wait() *)
Terminate(k) ==
    /\ At("stop") /\ k \in Top.left /\ \A j \in Top.left : k <= j
    /\ Goes([Top EXCEPT !.left = @ \ {k}])
    /\ terminated' = IF Alive(k) THEN terminated \cup {k} ELSE terminated
    /\ UNCHANGED <<main, port, ui, interrupted, others>>

Waited(k) ==
    /\ At("stop") /\ Top.left = {} /\ k \in Top.waited /\ \A j \in Top.waited : k <= j
    /\ Goes([Top EXCEPT !.waited = @ \ {k}])
    /\ terminated' = terminated \ {k}
    /\ UNCHANGED <<main, port, interrupted, others>>

(* TimeoutExpired: process.kill(), which nothing survives *)
WaitProcess_Impatient(k) == Waited(k) /\ UNCHANGED ui
WaitProcess(k) ==
    /\ Waited(k)
    /\ ui' = IF Alive(k) THEN [ui EXCEPT ![k] = "ended"] ELSE ui

(* The end of a stop_all.  SystemExit leaves every call below the handler   *)
Return_Resumed ==
    /\ At("stop") /\ Top.waited = {}
    /\ \/ Top.by = "atexit" /\ End
       \/ Top.by = "finally" /\ Exit
       \/ Top.by = "handler" /\ calls' = Front(calls) /\ UNCHANGED main
    /\ UNCHANGED <<port, ui, terminated, interrupted, others>>
Return ==
    /\ At("stop") /\ Top.waited = {}
    /\ \/ Top.by = "atexit" /\ End
       \/ Top.by = "finally" /\ Exit
       \/ Top.by = "handler" /\ main = "serving" /\ Final
       \/ Top.by = "handler" /\ main = "exiting" /\ End
       \/ Top.by = "handler" /\ main \notin {"serving", "exiting"} /\ Exit
    /\ UNCHANGED <<port, ui, terminated, interrupted, others>>
-----------------------------------------------------------------------------
(* The environment *)

Over == main \in {"ended", "killed"}

Handled(signal) ==
    \/ main \in {"binding", "serving", "final", "exiting"}
    \/ main = "sigint" /\ signal = "SIGTERM"

(* Without a handler SIGTERM ends the process at once, SIGINT raises         *)
(* KeyboardInterrupt, on which the callbacks registered so far run          *)
Gets(signal) ==
    IF Handled(signal) THEN calls' = Append(calls, StopAll("handler")) /\ UNCHANGED main
    ELSE IF signal = "SIGINT" /\ main \in {"sigterm", "sigint"} THEN Exit
    ELSE main' = "killed" /\ calls' = <<>>

(* kill *)
Signal(signal) ==
    /\ ~Over
    /\ Gets(signal)
    /\ UNCHANGED <<port, ui, terminated, interrupted, others>>

(* Ctrl-C in the terminal reaches the processes that were started, too *)
CtrlC ==
    /\ ~Over
    /\ Gets("SIGINT")
    /\ interrupted' = interrupted \cup {k \in Projects : Alive(k)}
    /\ UNCHANGED <<port, ui, terminated, others>>

(* The process of a project binds its port, or ends with OSError.  One that  *)
(* gets SIGINT before it serves goes no further.                            *)
UiBinds(k) ==
    /\ ui[k] = "starting" /\ k \notin interrupted
    /\ ui' = [ui EXCEPT ![k] = IF port[k] \in Held THEN "ended" ELSE "listening"]
    /\ UNCHANGED <<main, calls, port, terminated, interrupted, others>>

Ends(k) == ui' = [ui EXCEPT ![k] = "ended"] /\ terminated' = terminated \ {k}

UiEnds(k) ==
    /\ k \in terminated \cup interrupted /\ Alive(k)
    /\ Ends(k)
    /\ UNCHANGED <<main, calls, port, interrupted, others>>

(* Someone else ends it, or takes or frees a port *)
UiKilled(k) ==
    /\ Alive(k) /\ Ends(k)
    /\ UNCHANGED <<main, calls, port, interrupted, others>>

OthersChange ==
    /\ \E p \in Ports :
        \/ p \notin Held /\ others' = others \cup {p}
        \/ p \in others /\ others' = others \ {p}
    /\ UNCHANGED <<main, calls, port, ui, terminated, interrupted>>

MainStep ==
    \/ \E k \in Projects : ChoosePort(k) \/ Start(k) \/ Terminate(k) \/ WaitProcess(k)
    \/ Register \/ Bind \/ Acquire \/ ListProcesses \/ Return
-----------------------------------------------------------------------------
StopAllCalls == [by : {"handler", "finally", "atexit"}, at : {"lock", "inside", "stop"},
                 left : SUBSET Projects, waited : SUBSET Projects]
OneInside == \A i, j \in DOMAIN calls :
                calls[i].at = "inside" /\ calls[j].at = "inside" => i = j

LauncherTypeOK ==
    /\ OneInside
    /\ main \in {"choosing", "starting", "registering", "sigterm", "sigint", "binding",
                 "serving", "final", "exiting", "ended", "killed"}
    /\ calls \in Seq(StopAllCalls)
    /\ port \in [Projects -> Ports \cup {NoPort}]
    /\ ui \in [Projects -> {"none", "starting", "listening", "ended"}]
    /\ terminated \in SUBSET Projects /\ interrupted \in SUBSET Projects
    /\ others \in SUBSET Ports

(* NothingLeftRunning (unified_server.py:100-111, 529-546): a launcher that  *)
(* came as far as its callbacks leaves no project process behind, wherever  *)
(* signals strike: inside stop_all, inside the handler of another signal,   *)
(* and whichever stop_all their SystemExit cuts short.                      *)
NothingLeftRunning == main = "ended" => \A k \in Projects : ~Alive(k)

(* The main thread waits for a lock that it holds itself, further out *)
Hung == At("lock") /\ ~LockFree

(* EndsOrHangs (unified_server.py:531-546): a launcher that was sent a       *)
(* signal ends, unless a later signal finds it in the section of stop_all   *)
(* that holds the lock; then the handler waits for ever.                    *)
EndsOrHangs == calls # <<>> ~> Over \/ Hung
=============================================================================
