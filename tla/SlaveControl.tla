---------------------------- MODULE SlaveControl ----------------------------
(***************************************************************************)
(* The UiController of the ECC user interface (ui_server.py) and the slave *)
(* processes it starts.  Each HTTP request has a thread.  Everything       *)
(* start_slave does is done under the controller's lock, where nothing     *)
(* waits, and is one action; stop_slave lets go of the lock while it waits *)
(* for the process, and forgets slave_process after that.  When Keyboard-  *)
(* Interrupt ends serve_forever the finally clause of main() calls         *)
(* stop_master and stop_slave.  The threads of requests are daemons: they  *)
(* run on while it does and after it, until the interpreter is gone.       *)
(*                                                                         *)
(* All requests name the same port, as the page does.                      *)
(*                                                                         *)
(* A name that ends in an underscore and a capitalised word belongs to a   *)
(* variant, with a plausible bug, of the definition named before that      *)
(* underscore; no specification uses it.                                   *)
(***************************************************************************)
EXTENDS Naturals

CONSTANTS Threads,    \* threads of HTTP requests to stop the slave
          MainThread,
          MaxStarts   \* bound: slave processes, numbered as they are started

ASSUME SlaveControlAssumption == MainThread \notin Threads /\ MaxStarts \in Nat

Pids == 1..MaxStarts
NoPid == 0
Callers == Threads \cup {MainThread}

VARIABLES control,      \* the user interface process: serving ("running"), in
                        \* its finally clause ("leaving"), past it ("done"),
                        \* out of it by an exception ("raised"), at its end
                        \* after the clause ("gone") or without it ("killed")
          slaveProcess, \* UiController.slave_process
          process,      \* the slave processes
          signalled,    \* slave processes that have yet to react to a signal
          stopping,     \* the process each caller of stop_slave waits for
          overlapped,   \* processes started while some stop_slave was waiting,
                        \* or with the finally clause over
          late          \* processes started since serve_forever ended

controlVars == <<control, slaveProcess, process, signalled, stopping, overlapped, late>>

Running(p) == p # NoPid /\ process[p] \in {"starting", "serving"}
PortFree == \A p \in Pids : process[p] # "serving"

ControlInit ==
    /\ control = "running" /\ slaveProcess = NoPid
    /\ process = [p \in Pids |-> "none"] /\ signalled = {}
    /\ stopping = [t \in Callers |-> NoPid] /\ overlapped = {} /\ late = {}

Ending == control \in {"leaving", "done", "raised"}
Present == control = "running" \/ Ending

MayAct(t) ==
    /\ stopping[t] = NoPid
    /\ IF t = MainThread THEN control = "leaving" ELSE Present

(* The processes of the terminal's foreground group: Popen without a new     *)
(* session leaves the slave in it                                           *)
Group_NewSession == {}
Group == {p \in Pids : Running(p)}

Overlaps == control \in {"done", "raised"} \/ \E t \in Callers : stopping[t] # NoPid

(* start_slave, in a thread of its own, unless the process it knows runs *)
Knows_Nothing == FALSE
Knows == Running(slaveProcess)
StartSlave(p) ==
    /\ Present /\ ~Knows
    /\ process[p] = "none" /\ \A q \in 1..(p - 1) : process[q] # "none"
    /\ process' = [process EXCEPT ![p] = "starting"]
    /\ slaveProcess' = p
    /\ overlapped' = IF Overlaps THEN overlapped \cup {p} ELSE overlapped
    /\ late' = IF Ending THEN late \cup {p} ELSE late
    /\ UNCHANGED <<control, signalled, stopping>>

(* What stop_slave leaves of a call that has nothing to wait for *)
Stopped(t) ==
    /\ slaveProcess' = NoPid
    /\ control' = IF t = MainThread THEN "done" ELSE control

StopSlave(t) ==
    /\ MayAct(t)
    /\ IF Running(slaveProcess)
       THEN /\ signalled' = signalled \cup {slaveProcess}
            /\ stopping' = [stopping EXCEPT ![t] = slaveProcess]
            /\ UNCHANGED <<control, slaveProcess>>
       ELSE Stopped(t) /\ UNCHANGED <<signalled, stopping>>
    /\ UNCHANGED <<process, overlapped, late>>

Ended(p) == process' = [process EXCEPT ![p] = "ended"] /\ signalled' = signalled \ {p}

(* TimeoutExpired: process.kill() *)
StopKills_Politely(t) ==
    /\ Present /\ Running(stopping[t])
    /\ signalled' = signalled \cup {stopping[t]}
    /\ UNCHANGED <<control, slaveProcess, process, stopping, overlapped, late>>
StopKills(t) ==
    /\ Present /\ Running(stopping[t])
    /\ Ended(stopping[t])
    /\ UNCHANGED <<control, slaveProcess, stopping, overlapped, late>>

HasEnded_Unwaited(p) == p # NoPid
HasEnded(p) == p # NoPid /\ ~Running(p)
StopReturns(t) ==
    /\ Present /\ HasEnded(stopping[t])
    /\ stopping' = [stopping EXCEPT ![t] = NoPid]
    /\ Stopped(t)
    /\ UNCHANGED <<process, signalled, overlapped, late>>

(* The finally clause ends by an exception: stop_master closes the socket    *)
(* that a request's transact closes and clears at the same time, and meets  *)
(* None (AttributeError) before it gets to stop_slave                       *)
StopMasterRaises ==
    /\ MayAct(MainThread)
    /\ control' = "raised"
    /\ UNCHANGED <<slaveProcess, process, signalled, stopping, overlapped, late>>

Vanish(how) ==
    /\ control' = how
    /\ slaveProcess' = NoPid /\ stopping' = [t \in Callers |-> NoPid]
    /\ UNCHANGED <<process, signalled, overlapped, late>>

(* The interpreter has finalized *)
ControlExits ==
    \/ control = "done" /\ Vanish("gone")
    \/ control = "raised" /\ Vanish("killed")

(* SIGTERM and SIGKILL end the user interface where it stands *)
ControlDies == Present /\ Vanish("killed")

(* Ctrl-C: KeyboardInterrupt ends serve_forever, and the finally clause       *)
(* begins; it leaves the clause, if that has begun.  The slaves get SIGINT. *)
ControlInterrupted(serving) ==
    /\ \/ /\ control = "leaving" /\ control' = "raised"
          /\ stopping' = [stopping EXCEPT ![MainThread] = NoPid]
       \/ /\ control = "running" /\ serving /\ control' = "leaving"
          /\ UNCHANGED stopping
       \/ /\ control = "running" => ~serving
          /\ control # "leaving"
          /\ UNCHANGED <<control, stopping>>
    /\ signalled' = signalled \cup Group
    /\ UNCHANGED <<slaveProcess, process, overlapped, late>>

(* slave_server: create_server binds the port, or ends the process *)
SlaveBinds(p) ==
    /\ process[p] = "starting"
    /\ process' = [process EXCEPT ![p] = IF PortFree THEN "serving" ELSE "ended"]
    /\ UNCHANGED <<control, slaveProcess, signalled, stopping, overlapped, late>>

SlaveEnds(p) ==
    /\ Running(p)
    /\ Ended(p)
    /\ UNCHANGED <<control, slaveProcess, stopping, overlapped, late>>

ControlStep ==
    \/ \E t \in Callers : StopKills(t) \/ StopReturns(t)
    \/ StopSlave(MainThread) \/ StopMasterRaises \/ ControlExits
SlaveStep == \E p \in Pids : SlaveBinds(p) \/ (p \in signalled /\ SlaveEnds(p))
Request ==
    \/ \E t \in Threads : StopSlave(t)
    \/ \E p \in Pids : StartSlave(p)
-----------------------------------------------------------------------------
ControlTypeOK ==
    /\ control \in {"running", "leaving", "done", "raised", "gone", "killed"}
    /\ slaveProcess \in Pids \cup {NoPid}
    /\ process \in [Pids -> {"none", "starting", "serving", "ended"}]
    /\ {signalled, overlapped, late} \subseteq SUBSET Pids
    /\ stopping \in [Callers -> Pids \cup {NoPid}]

(* ForgottenOverlapped (ui_server.py:109-125): a running slave process that  *)
(* slave_process does not name was started while a stop_slave waited for    *)
(* another process, or with the finally clause over.  start_slave does not  *)
(* see that one, stop_slave does not stop it, and it keeps the port; of the *)
(* others there is none.                                                    *)
ForgottenOverlapped ==
    Present => \A p \in Pids \ overlapped : Running(p) => p = slaveProcess

(* OrderlyEndStopsSlaves (ui_server.py:659-664): when the finally clause of   *)
(* main has run to its end, no slave process runs but one that was started  *)
(* while some stop_slave waited, or that a request started after the clause *)
(* and before the process was gone.  One started while the clause ran, and  *)
(* before its stop_slave, is stopped like those before.                     *)
OrderlyEndStopsSlaves ==
    control \in {"done", "gone"} => \A p \in Pids \ overlapped : ~Running(p)

(* StopAnswered (ui_server.py:117-121): again and again no stop_slave waits;  *)
(* each returns, whatever the process does with SIGTERM, unless the user    *)
(* interface ends before.                                                   *)
StopAnswered == []<>(~Present \/ \A t \in Callers : stopping[t] = NoPid)
=============================================================================
