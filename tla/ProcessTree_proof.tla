-------------------------- MODULE ProcessTree_proof --------------------------
(***************************************************************************)
(* Proofs about ProcessTree, for any number of projects, ports, slave      *)
(* processes, threads, requests, events and nested calls.                  *)
(***************************************************************************)
EXTENDS ProcessTree, SequenceTheorems, TLAPS

-----------------------------------------------------------------------------
(* UiController and its slave processes *)

(* While a stop_slave waits for a process, no other one runs but those that *)
(* were started since some stop_slave waits, or since the finally clause is *)
(* over.                                                                    *)
WaitsForTheLast ==
    \A t \in Callers : Present /\ stopping[t] # NoPid =>
        \A p \in Pids \ overlapped : Running(p) => p = stopping[t]

ControlInvariant ==
    ControlTypeOK /\ ForgottenOverlapped /\ WaitsForTheLast /\ OrderlyEndStopsSlaves

LEMMA ControlStarts == ControlInit => ControlInvariant
BY SlaveControlAssumption
DEF ControlInit, ControlInvariant, ControlTypeOK, ForgottenOverlapped, WaitsForTheLast,
    OrderlyEndStopsSlaves, Running, Present, Ending, NoPid, Pids

LEMMA StartSlaveKept ==
    ASSUME ControlInvariant, NEW p \in Pids, StartSlave(p)
    PROVE  ControlInvariant'
<1> USE DEF ControlInvariant, StartSlave
<1>1. p # NoPid
  BY SlaveControlAssumption DEF Pids, NoPid
<1>2. ControlTypeOK'
  BY DEF ControlTypeOK
<1>3. \A q \in Pids \ {p} : Running(q)' <=> Running(q)
  BY DEF Running, ControlTypeOK
<1>4. \A q \in Pids \ overlapped : ~Running(q)
  BY DEF ForgottenOverlapped, Knows
<1>5. ForgottenOverlapped' /\ OrderlyEndStopsSlaves'
  BY <1>3, <1>4 DEF ForgottenOverlapped, OrderlyEndStopsSlaves, Present, Ending, Overlaps
<1>6. WaitsForTheLast'
  BY <1>3, <1>4 DEF WaitsForTheLast, Overlaps
<1> QED
  BY <1>2, <1>5, <1>6

LEMMA StopSlaveKept ==
    ASSUME ControlInvariant, NEW t \in Callers, StopSlave(t)
    PROVE  ControlInvariant'
<1> USE DEF ControlInvariant, StopSlave
<1>1. ControlTypeOK'
  BY DEF ControlTypeOK, Stopped, Running, NoPid
<1>2. Present
  BY DEF MayAct, Present, Ending
<1>3. \A p \in Pids : Running(p)' <=> Running(p)
  BY DEF Running
<1>4. CASE Running(slaveProcess)
  BY <1>1, <1>2, <1>3, <1>4
  DEF ForgottenOverlapped, WaitsForTheLast, OrderlyEndStopsSlaves, Present, ControlTypeOK,
      Stopped
<1>5. CASE ~Running(slaveProcess)
  <2>1. \A p \in Pids \ overlapped : ~Running(p)
    BY <1>2, <1>5 DEF ForgottenOverlapped
  <2> QED
    BY <1>1, <1>3, <1>5, <2>1 DEF ForgottenOverlapped, WaitsForTheLast, OrderlyEndStopsSlaves
<1> QED
  BY <1>4, <1>5

LEMMA StopReturnsKept ==
    ASSUME ControlInvariant, NEW t \in Callers, StopReturns(t)
    PROVE  ControlInvariant'
<1> USE DEF ControlInvariant, StopReturns
<1>1. ControlTypeOK'
  BY DEF ControlTypeOK, Stopped
<1>2. \A p \in Pids : Running(p)' <=> Running(p)
  BY DEF Running
<1>3. \A p \in Pids \ overlapped : ~Running(p)
  BY DEF WaitsForTheLast, HasEnded
<1> QED
  BY <1>1, <1>2, <1>3 DEF ForgottenOverlapped, WaitsForTheLast, OrderlyEndStopsSlaves

(* Of an action after which no other process runs than before *)
LEMMA FewerRunningKept ==
    ASSUME ControlInvariant, ControlTypeOK',
           UNCHANGED <<slaveProcess, overlapped>>,
           control' = control \/ (Present /\ control' \in {"leaving", "raised"}),
           \A t \in Callers : stopping'[t] \in {stopping[t], NoPid},
           \A p \in Pids : Running(p)' => Running(p)
    PROVE  ControlInvariant'
BY DEF ControlInvariant, ForgottenOverlapped, WaitsForTheLast, OrderlyEndStopsSlaves, Present,
       Ending

LEMMA ProcessEndsKept ==
    ASSUME ControlInvariant,
           \/ \E p \in Pids : SlaveEnds(p) \/ SlaveBinds(p)
           \/ \E t \in Callers : StopKills(t)
    PROVE  ControlInvariant'
<1>1. ASSUME NEW p \in Pids, SlaveEnds(p)
      PROVE  ControlInvariant'
  <2>1. ControlTypeOK'
    BY <1>1 DEF ControlInvariant, ControlTypeOK, SlaveEnds, Ended
  <2>2. \A q \in Pids : Running(q)' => Running(q)
    BY <1>1 DEF ControlInvariant, ControlTypeOK, SlaveEnds, Ended, Running
  <2> QED
    BY <1>1, <2>1, <2>2, FewerRunningKept DEF SlaveEnds
<1>2. ASSUME NEW p \in Pids, SlaveBinds(p)
      PROVE  ControlInvariant'
  <2>1. ControlTypeOK'
    BY <1>2 DEF ControlInvariant, ControlTypeOK, SlaveBinds
  <2>2. \A q \in Pids : Running(q)' => Running(q)
    BY <1>2 DEF ControlInvariant, ControlTypeOK, SlaveBinds, Running
  <2> QED
    BY <1>2, <2>1, <2>2, FewerRunningKept DEF SlaveBinds
<1>3. ASSUME NEW t \in Callers, StopKills(t)
      PROVE  ControlInvariant'
  <2>1. stopping[t] \in Pids
    BY <1>3 DEF ControlInvariant, ControlTypeOK, StopKills, Running
  <2>2. ControlTypeOK'
    BY <1>3, <2>1 DEF ControlInvariant, ControlTypeOK, StopKills, Ended
  <2>3. \A q \in Pids : Running(q)' => Running(q)
    BY <1>3, <2>1 DEF ControlInvariant, ControlTypeOK, StopKills, Ended, Running
  <2> QED
    BY <1>3, <2>2, <2>3, FewerRunningKept DEF StopKills
<1> QED
  BY <1>1, <1>2, <1>3

LEMMA VanishKept ==
    ASSUME ControlInvariant, ControlDies \/ ControlExits
    PROVE  ControlInvariant'
<1>1. \/ Vanish("killed")
      \/ control = "done" /\ Vanish("gone")
  BY DEF ControlDies, ControlExits
<1> QED
  BY <1>1
  DEF ControlInvariant, Vanish, ControlTypeOK, ForgottenOverlapped, WaitsForTheLast,
      OrderlyEndStopsSlaves, Present, Ending, Running

LEMMA StopMasterRaisesKept ==
    ASSUME ControlInvariant, StopMasterRaises
    PROVE  ControlInvariant'
<1>1. ControlTypeOK' /\ control = "leaving"
  BY DEF ControlInvariant, ControlTypeOK, StopMasterRaises, MayAct
<1>2. \A p \in Pids : Running(p)' => Running(p)
  BY DEF StopMasterRaises, Running
<1> QED
  BY <1>1, <1>2, FewerRunningKept DEF StopMasterRaises, Present, Ending

LEMMA ControlInterruptedKept ==
    ASSUME ControlInvariant, NEW serving \in BOOLEAN, ControlInterrupted(serving)
    PROVE  ControlInvariant'
<1> USE DEF ControlInvariant, ControlInterrupted
<1>1. ControlTypeOK'
  BY DEF ControlTypeOK, Group
<1>2. \A p \in Pids : Running(p)' => Running(p)
  BY DEF Running
<1>3. control' = control \/ (Present /\ control' \in {"leaving", "raised"})
  BY DEF Present, Ending
<1>4. \A t \in Callers : stopping'[t] \in {stopping[t], NoPid}
  BY DEF ControlTypeOK
<1> QED
  BY <1>1, <1>2, <1>3, <1>4, FewerRunningKept

-----------------------------------------------------------------------------
(* The embedded slave *)

(* Of a request that is over the listener is not open; before it begins it   *)
(* has none, and no slave.                                                  *)
ListenersClosed ==
    \A r \in Reads :
        /\ master[r] = "none" => listener[r] = "closed"
        /\ master[r] \in Answers => listener[r] # "open"

EmbeddedInvariant ==
    EmbeddedTypeOK /\ ListenersClosed /\ OkMeansServed /\ LeaksUnconnected

LEMMA EmbeddedStarts == EmbeddedInit => EmbeddedInvariant
BY DEF EmbeddedInit, EmbeddedInvariant, EmbeddedTypeOK, ListenersClosed, OkMeansServed,
       LeaksUnconnected, Answers

LEMMA BeginReadKept ==
    ASSUME EmbeddedInvariant, NEW r \in Reads, BeginRead(r)
    PROVE  EmbeddedInvariant'
<1> USE DEF EmbeddedInvariant, EmbeddedTypeOK, BeginRead, Answers
<1>1. CASE PortBusy
  BY <1>1 DEF ListenersClosed, OkMeansServed, LeaksUnconnected
<1>2. CASE ~PortBusy
  BY <1>2 DEF ListenersClosed, OkMeansServed, LeaksUnconnected
<1> QED
  BY <1>1, <1>2

LEMMA MasterStepKept ==
    ASSUME EmbeddedInvariant, NEW r \in Reads,
           ConnectRead(r) \/ MasterRaises(r) \/ MasterReads(r)
    PROVE  EmbeddedInvariant'
BY DEF EmbeddedInvariant, EmbeddedTypeOK, ConnectRead, MasterRaises, MasterReads, Raised,
       Answers, ListenersClosed, OkMeansServed, LeaksUnconnected

LEMMA SlaveStepKept ==
    ASSUME EmbeddedInvariant, NEW r \in Reads,
           Accept(r) \/ SlaveSends(r) \/ SlaveFinishes(r)
    PROVE  EmbeddedInvariant'
BY DEF EmbeddedInvariant, EmbeddedTypeOK, Accept, SlaveSends, SlaveFinishes,
       Answers, ListenersClosed, OkMeansServed, LeaksUnconnected

LEMMA JoinSlaveKept ==
    ASSUME EmbeddedInvariant, NEW r \in Reads, JoinSlave(r)
    PROVE  EmbeddedInvariant'
BY DEF EmbeddedInvariant, EmbeddedTypeOK, JoinSlave, Outcome, Released, Raised,
       Answers, ListenersClosed, OkMeansServed, LeaksUnconnected

-----------------------------------------------------------------------------
(* The launcher *)

(* Every stop_all has yet to wait for the processes that are alive, and there *)
(* is none before the last process is started.                              *)
WaitsForAll ==
    /\ main \in {"choosing", "starting"} => calls = <<>>
    /\ \A i \in DOMAIN calls : calls[i].at = "stop" =>
           \A k \in Projects : Alive(k) => k \in calls[i].waited

LauncherInvariant == LauncherTypeOK /\ WaitsForAll /\ NothingLeftRunning

LEMMA LauncherStarts == LauncherInit => LauncherInvariant
<1>1. SUFFICES ASSUME LauncherInit PROVE LauncherInvariant
  OBVIOUS
<1>2. calls = <<>> /\ calls \in Seq(StopAllCalls) /\ DOMAIN calls = {}
  BY <1>1 DEF LauncherInit
<1> QED
  BY <1>1, <1>2, LauncherAssumption
  DEF LauncherInit, LauncherInvariant, LauncherTypeOK, OneInside, WaitsForAll, NothingLeftRunning

(* What a step inside the innermost stop_all does to the others *)
LEMMA TopChanges ==
    ASSUME calls \in Seq(StopAllCalls), calls # <<>>, NEW call \in StopAllCalls, Goes(call)
    PROVE  /\ calls' \in Seq(StopAllCalls)
           /\ Len(calls) \in DOMAIN calls /\ Top \in StopAllCalls
           /\ DOMAIN calls' = DOMAIN calls
           /\ \A i \in DOMAIN calls : calls'[i] = IF i = Len(calls) THEN call ELSE calls[i]
BY DEF Goes, ReplaceAt, Top

LEMMA CallBegins ==
    ASSUME calls \in Seq(StopAllCalls), NEW call \in StopAllCalls,
           calls' = Append(calls, call)
    PROVE  /\ calls' \in Seq(StopAllCalls)
           /\ DOMAIN calls' = DOMAIN calls \cup {Len(calls) + 1}
           /\ \A i \in DOMAIN calls : calls'[i] = calls[i]
           /\ calls'[Len(calls) + 1] = call
           /\ Len(calls) + 1 \notin DOMAIN calls
OBVIOUS

LEMMA CallsReplaced ==
    ASSUME NEW call \in StopAllCalls
    PROVE  /\ <<call>> \in Seq(StopAllCalls) /\ DOMAIN <<call>> = {1} /\ <<call>>[1] = call
           /\ <<>> \in Seq(StopAllCalls) /\ DOMAIN <<>> = {}
OBVIOUS

LEMMA StopAllCall ==
    ASSUME NEW by \in {"handler", "finally", "atexit"}
    PROVE  StopAll(by) \in StopAllCalls /\ StopAll(by).at = "lock"
BY DEF StopAll, StopAllCalls

(* Of an action after which no other process is alive than before *)
LEMMA FewerAliveKept ==
    ASSUME LauncherInvariant, LauncherTypeOK', UNCHANGED <<main, calls>>,
           \A k \in Projects : Alive(k)' => Alive(k)
    PROVE  LauncherInvariant'
BY DEF LauncherInvariant, WaitsForAll, NothingLeftRunning

LEMMA UiKept ==
    ASSUME LauncherInvariant,
           \/ \E k \in Projects : UiBinds(k) \/ UiEnds(k) \/ UiKilled(k)
           \/ OthersChange
    PROVE  LauncherInvariant'
<1>1. UNCHANGED <<main, calls>>
  BY DEF UiBinds, UiEnds, UiKilled, OthersChange
<1>2. OneInside'
  BY <1>1 DEF LauncherInvariant, LauncherTypeOK, OneInside
<1>3. LauncherTypeOK'
  BY <1>1, <1>2
  DEF LauncherInvariant, LauncherTypeOK, UiBinds, UiEnds, UiKilled, OthersChange, Ends
<1>4. \A k \in Projects : Alive(k)' => Alive(k)
  BY DEF LauncherInvariant, LauncherTypeOK, UiBinds, UiEnds, UiKilled, OthersChange, Ends,
         Alive
<1> QED
  BY <1>1, <1>3, <1>4, FewerAliveKept

LEMMA StartupKept ==
    ASSUME LauncherInvariant, NEW k \in Projects, ChoosePort(k) \/ Start(k)
    PROVE  LauncherInvariant'
<1> USE DEF LauncherInvariant, LauncherTypeOK
<1>1. main \in {"choosing", "starting"} /\ calls = <<>> /\ calls' = <<>>
  BY DEF ChoosePort, Start, WaitsForAll
<1>2. DOMAIN calls' = {}
  BY <1>1
<1>3. ChoosePort(k) => port' \in [Projects -> Ports \cup {NoPort}]
  BY LauncherAssumption DEF ChoosePort, Available
<1>4. main' \in {"choosing", "starting", "registering", "killed"}
  BY <1>1 DEF ChoosePort, Start
<1>5. LauncherTypeOK'
  BY <1>1, <1>2, <1>3, <1>4 DEF ChoosePort, Start, OneInside
<1> QED
  BY <1>1, <1>2, <1>4, <1>5 DEF WaitsForAll, NothingLeftRunning

(* What makes main end in a state that keeps the invariant: one new call of  *)
(* stop_all, or none                                                       *)
LEMMA MainEndsKept ==
    ASSUME LauncherInvariant, main \notin {"choosing", "starting"},
           Exit \/ Final \/ (main' = "killed" /\ calls' = <<>>)
             \/ (End /\ \A k \in Projects : ~Alive(k)),
           UNCHANGED <<port, ui, terminated, others>>, interrupted' \in SUBSET Projects
    PROVE  LauncherInvariant'
<1> USE DEF LauncherInvariant, LauncherTypeOK
<1>1. \/ calls' = <<>>
      \/ \E by \in {"handler", "finally", "atexit"} : calls' = <<StopAll(by)>>
  BY DEF Exit, Final, End
<1>2. calls' \in Seq(StopAllCalls) /\ \A i, j \in DOMAIN calls' : i = j /\ calls'[i].at = "lock"
  <2>1. CASE calls' = <<>>
    BY <2>1, CallsReplaced
  <2>2. ASSUME NEW by \in {"handler", "finally", "atexit"}, calls' = <<StopAll(by)>>
        PROVE  calls' \in Seq(StopAllCalls) /\ \A i, j \in DOMAIN calls' : i = j /\ calls'[i].at = "lock"
    <3> DEFINE call == StopAll(by)
    <3>1. call \in StopAllCalls /\ call.at = "lock" /\ calls' = <<call>>
      BY <2>2, StopAllCall
    <3> HIDE DEF call
    <3> QED
      BY <3>1, CallsReplaced
  <2> QED
    BY <1>1, <2>1, <2>2
<1>3. main' \in {"exiting", "final", "killed", "ended"}
  BY DEF Exit, Final, End
<1>4. main' = "ended" => \A k \in Projects : ~Alive(k)
  BY DEF Exit, Final, End
<1>5. LauncherTypeOK'
  BY <1>2, <1>3 DEF OneInside
<1> QED
  BY <1>2, <1>3, <1>4, <1>5 DEF WaitsForAll, NothingLeftRunning, Alive

LEMMA RegisterKept ==
    ASSUME LauncherInvariant, Register
    PROVE  LauncherInvariant'
BY DEF LauncherInvariant, LauncherTypeOK, Register, OneInside, WaitsForAll,
       NothingLeftRunning, Alive

LEMMA BindKept ==
    ASSUME LauncherInvariant, Bind
    PROVE  LauncherInvariant'
<1>1. CASE OwnPort \in Held
  BY <1>1, MainEndsKept DEF Bind, LauncherInvariant, LauncherTypeOK
<1>2. CASE OwnPort \notin Held
  BY <1>2 DEF Bind, LauncherInvariant, LauncherTypeOK, OneInside, WaitsForAll,
              NothingLeftRunning, Alive
<1> QED
  BY <1>1, <1>2

LEMMA GetsKept ==
    ASSUME LauncherInvariant, NEW signal \in {"SIGTERM", "SIGINT"}, ~Over, Gets(signal),
           UNCHANGED <<port, ui, terminated, others>>, interrupted' \in SUBSET Projects
    PROVE  LauncherInvariant'
<1>1. CASE Handled(signal)
  <2>1. calls \in Seq(StopAllCalls)
    BY DEF LauncherInvariant, LauncherTypeOK
  <2>2. calls' = Append(calls, StopAll("handler")) /\ main' = main
    BY <1>1 DEF Gets
  <2>3. /\ calls' \in Seq(StopAllCalls) /\ DOMAIN calls' = DOMAIN calls \cup {Len(calls) + 1}
        /\ \A i \in DOMAIN calls : calls'[i] = calls[i]
        /\ calls'[Len(calls) + 1].at = "lock"
    BY <2>1, <2>2, CallBegins, StopAllCall
  <2>4. LauncherTypeOK'
    BY <2>2, <2>3 DEF LauncherInvariant, LauncherTypeOK, OneInside
  <2>5. main \notin {"choosing", "starting", "ended"}
    BY <1>1 DEF Handled, Over
  <2> QED
    BY <2>2, <2>3, <2>4, <2>5 DEF LauncherInvariant, WaitsForAll, NothingLeftRunning, Alive
<1>2. CASE ~Handled(signal) /\ main \notin {"choosing", "starting"}
  BY <1>2, MainEndsKept DEF Gets
<1>3. CASE main \in {"choosing", "starting"}
  <2>1. main' = "killed" /\ calls' = <<>> /\ DOMAIN calls' = {}
    BY <1>3, CallsReplaced DEF Gets, Handled
  <2>2. LauncherTypeOK'
    BY <2>1, CallsReplaced DEF LauncherInvariant, LauncherTypeOK, OneInside
  <2> QED
    BY <2>1, <2>2 DEF LauncherInvariant, WaitsForAll, NothingLeftRunning
<1> QED
  BY <1>1, <1>2, <1>3

LEMMA SignalKept ==
    ASSUME LauncherInvariant,
           CtrlC \/ \E signal \in {"SIGTERM", "SIGINT"} : Signal(signal)
    PROVE  LauncherInvariant'
<1>1. interrupted' \in SUBSET Projects
  BY DEF CtrlC, Signal, LauncherInvariant, LauncherTypeOK
<1> QED
  BY <1>1, GetsKept DEF CtrlC, Signal

(* Of a step inside the innermost stop_all *)
LEMMA TopKept ==
    ASSUME LauncherInvariant, calls # <<>>, NEW call \in StopAllCalls, Goes(call),
           call.at = "inside" => LockFree,
           call.at = "stop" => \A k \in Projects : Alive(k)' => k \in call.waited,
           \A k \in Projects : Alive(k)' => Alive(k),
           UNCHANGED <<main, port, interrupted, others>>,
           ui' \in [Projects -> {"none", "starting", "listening", "ended"}],
           terminated' \in SUBSET Projects
    PROVE  LauncherInvariant'
<1>1. /\ calls' \in Seq(StopAllCalls) /\ DOMAIN calls' = DOMAIN calls
      /\ \A i \in DOMAIN calls : calls'[i] = IF i = Len(calls) THEN call ELSE calls[i]
  BY TopChanges DEF LauncherInvariant, LauncherTypeOK
<1>2. OneInside'
  BY <1>1 DEF LauncherInvariant, LauncherTypeOK, OneInside, LockFree
<1>3. LauncherTypeOK'
  BY <1>1, <1>2 DEF LauncherInvariant, LauncherTypeOK
<1>4. WaitsForAll'
  BY <1>1 DEF LauncherInvariant, WaitsForAll
<1>5. NothingLeftRunning'
  BY DEF LauncherInvariant, NothingLeftRunning
<1> QED
  BY <1>3, <1>4, <1>5 DEF LauncherInvariant

LEMMA TopIsCall ==
    ASSUME LauncherInvariant, calls # <<>>
    PROVE  /\ Top \in StopAllCalls /\ Len(calls) \in DOMAIN calls
           /\ Top.at = "stop" => \A k \in Projects : Alive(k) => k \in Top.waited
BY DEF LauncherInvariant, LauncherTypeOK, WaitsForAll, Top

LEMMA StopAllKept ==
    ASSUME LauncherInvariant,
           \/ Acquire \/ ListProcesses \/ Return
           \/ \E k \in Projects : Terminate(k) \/ WaitProcess(k)
    PROVE  LauncherInvariant'
<1> USE TopIsCall DEF At
<1>t. ui \in [Projects -> {"none", "starting", "listening", "ended"}] /\ terminated \in SUBSET Projects
  BY DEF LauncherInvariant, LauncherTypeOK
<1>1. CASE Acquire
  <2> DEFINE call == [Top EXCEPT !.at = "inside"]
  <2>1. call \in StopAllCalls /\ call.at = "inside"
    BY <1>1 DEF Acquire, StopAllCalls
  <2> HIDE DEF call
  <2>2. Goes(call) /\ calls # <<>> /\ LockFree /\ UNCHANGED <<main, port, ui, terminated, interrupted, others>>
    BY <1>1 DEF Acquire, call
  <2>3. \A k \in Projects : Alive(k)' => Alive(k)
    BY <2>2 DEF Alive
  <2> QED
    BY <1>t, <2>1, <2>2, <2>3, TopKept
<1>2. CASE ListProcesses
  <2> DEFINE call == [Top EXCEPT !.at = "stop", !.left = Stoppable, !.waited = Stoppable]
  <2>1. call \in StopAllCalls /\ call.at = "stop" /\ call.waited = Stoppable
    BY <1>2 DEF ListProcesses, StopAllCalls, Stoppable
  <2> HIDE DEF call
  <2>2. Goes(call) /\ calls # <<>> /\ UNCHANGED <<main, port, ui, terminated, interrupted, others>>
    BY <1>2 DEF ListProcesses, call
  <2>3. \A k \in Projects : Alive(k)' => Alive(k) /\ k \in call.waited
    BY <2>1, <2>2 DEF Alive, Stoppable
  <2> QED
    BY <1>t, <2>1, <2>2, <2>3, TopKept
<1>3. ASSUME NEW k \in Projects, Terminate(k)
      PROVE  LauncherInvariant'
  <2> DEFINE call == [Top EXCEPT !.left = @ \ {k}]
  <2>1. call \in StopAllCalls /\ call.at = "stop" /\ call.waited = Top.waited
    BY <1>3 DEF Terminate, StopAllCalls
  <2> HIDE DEF call
  <2>2. Goes(call) /\ calls # <<>> /\ UNCHANGED <<main, port, ui, interrupted, others>>
    BY <1>3 DEF Terminate, call
  <2>3. \A j \in Projects : Alive(j)' => Alive(j) /\ j \in call.waited
    BY <1>3, <2>1, <2>2 DEF Alive, Terminate
  <2>4. terminated' \in SUBSET Projects
    BY <1>t, <1>3 DEF Terminate
  <2> QED
    BY <1>t, <2>1, <2>2, <2>3, <2>4, TopKept
<1>4. ASSUME NEW k \in Projects, WaitProcess(k)
      PROVE  LauncherInvariant'
  <2> DEFINE call == [Top EXCEPT !.waited = @ \ {k}]
  <2>1. call \in StopAllCalls /\ call.at = "stop" /\ call.waited = Top.waited \ {k}
    BY <1>4 DEF WaitProcess, Waited, StopAllCalls
  <2> HIDE DEF call
  <2>2. Goes(call) /\ calls # <<>> /\ UNCHANGED <<main, port, interrupted, others>>
    BY <1>4 DEF WaitProcess, Waited, call
  <2>3. \A j \in Projects : Alive(j)' => Alive(j) /\ j # k
    BY <1>t, <1>4 DEF Alive, WaitProcess
  <2>4. \A j \in Projects : Alive(j)' => j \in call.waited
    BY <1>4, <2>1, <2>3 DEF WaitProcess, Waited
  <2>5. terminated' \in SUBSET Projects /\ ui' \in [Projects -> {"none", "starting", "listening", "ended"}]
    BY <1>t, <1>4 DEF WaitProcess, Waited
  <2> QED
    BY <2>1, <2>2, <2>3, <2>4, <2>5, TopKept
<1>5. CASE Return
  <2>1. \A k \in Projects : ~Alive(k)
    BY <1>5 DEF Return
  <2>2. main \notin {"choosing", "starting"}
    BY <1>5 DEF Return, LauncherInvariant, WaitsForAll
  <2>3. Exit \/ Final \/ End
    BY <1>5 DEF Return
  <2> QED
    BY <1>5, <2>1, <2>2, <2>3, MainEndsKept DEF Return, LauncherInvariant, LauncherTypeOK
<1> QED
  BY <1>1, <1>2, <1>3, <1>4, <1>5

-----------------------------------------------------------------------------
(* The three together *)

(* A user interface that got SIGINT while it served is in its finally clause,*)
(* or beyond; Ctrl-C has reached the slaves.                                *)
InterruptedLeaves == Ecc \in interrupted /\ ui[Ecc] = "listening" => control # "running"

TreeInvariant ==
    /\ LauncherInvariant /\ ControlInvariant /\ EmbeddedInvariant
    /\ InterruptedLeaves /\ CtrlCReachesSlaves

LEMMA EccIsProject == Ecc \in Projects
BY LauncherAssumption, TreeAssumption DEF Ecc, Projects

LEMMA TreeStarts == Init => TreeInvariant
BY LauncherStarts, ControlStarts, EmbeddedStarts
DEF Init, LauncherInit, TreeInvariant, InterruptedLeaves, CtrlCReachesSlaves

LEMMA FollowsKept ==
    ASSUME TreeInvariant, Follows
    PROVE  /\ ControlInvariant'
           /\ \A p \in Pids : Running(p)' <=> Running(p)
           /\ UNCHANGED <<signalled, late>>
           /\ control' = control \/ control' = "killed"
<1>1. ControlDies \/ UNCHANGED controlVars
  BY DEF Follows
<1>2. CASE ControlDies
  BY <1>2, VanishKept DEF TreeInvariant, ControlDies, Vanish, Running
<1>3. CASE UNCHANGED controlVars
  BY <1>3 DEF controlVars, TreeInvariant, ControlInvariant, ControlTypeOK, ForgottenOverlapped,
              WaitsForTheLast, OrderlyEndStopsSlaves, Running, Present, Ending
<1> QED
  BY <1>1, <1>2, <1>3

LEMMA LauncherRest ==
    ASSUME LauncherInvariant, UNCHANGED launcherVars
    PROVE  LauncherInvariant'
BY DEF launcherVars, LauncherInvariant, LauncherTypeOK, OneInside, WaitsForAll, NothingLeftRunning,
       Alive

LEMMA EmbeddedRests ==
    ASSUME EmbeddedInvariant, UNCHANGED embeddedVars
    PROVE  EmbeddedInvariant'
BY DEF embeddedVars, EmbeddedInvariant, EmbeddedTypeOK, ListenersClosed, OkMeansServed,
       LeaksUnconnected

(* Steps of the launcher, and of signals sent to a single process *)
LEMMA LauncherMoves ==
    ASSUME LauncherInvariant,
           \/ MainStep \/ OthersChange
           \/ \E signal \in {"SIGTERM", "SIGINT"} : Signal(signal)
           \/ \E k \in Projects : UiBinds(k) \/ UiEnds(k) \/ UiKilled(k)
    PROVE  /\ LauncherInvariant'
           /\ interrupted' = interrupted
           /\ \A k \in Projects \cap interrupted : ui'[k] = "listening" => ui[k] = "listening"
<1>1. LauncherInvariant'
  BY StartupKept, RegisterKept, BindKept, StopAllKept, SignalKept, UiKept DEF MainStep
<1>2. interrupted' = interrupted
  BY DEF MainStep, ChoosePort, Start, Register, Bind, Acquire, ListProcesses, Terminate,
         WaitProcess, Waited, Return, Signal, UiBinds, UiEnds, UiKilled, OthersChange
<1>3. ASSUME NEW k \in Projects \cap interrupted, ui'[k] = "listening"
      PROVE  ui[k] = "listening"
  BY <1>3
  DEF MainStep, ChoosePort, Start, Register, Bind, Acquire, ListProcesses, Terminate,
      WaitProcess, Waited, Return, Signal, UiBinds, UiEnds, UiKilled, OthersChange, Ends,
      LauncherInvariant, LauncherTypeOK
<1> QED
  BY <1>1, <1>2, <1>3

LEMMA FollowedKept ==
    ASSUME TreeInvariant, UNCHANGED embeddedVars, Follows,
           LauncherInvariant', interrupted' = interrupted,
           \A k \in Projects \cap interrupted : ui'[k] = "listening" => ui[k] = "listening"
    PROVE  TreeInvariant'
BY FollowsKept, EmbeddedRests, EccIsProject DEF TreeInvariant, InterruptedLeaves, CtrlCReachesSlaves

(* A slave process starts in an interrupted user interface only while that  *)
(* is on its way out.                                                       *)
LEMMA RequestedKept ==
    ASSUME TreeInvariant, Requested
    PROVE  TreeInvariant'
<1> USE DEF TreeInvariant, Requested
<1>1. LauncherInvariant' /\ EmbeddedInvariant' /\ UNCHANGED <<ui, interrupted>>
  BY LauncherRest, EmbeddedRests DEF launcherVars
<1>2. ASSUME NEW t \in Threads, StopSlave(t)
      PROVE  TreeInvariant'
  <2>1. ControlInvariant'
    BY <1>2, StopSlaveKept DEF Callers
  <2>2. /\ \A p \in Pids : Running(p)' <=> Running(p)
        /\ signalled \subseteq signalled' /\ UNCHANGED late
    BY <1>2 DEF StopSlave, Stopped, Running
  <2>3. control' = control
    BY <1>2, SlaveControlAssumption DEF StopSlave, Stopped
  <2> QED
    BY <1>1, <2>1, <2>2, <2>3 DEF InterruptedLeaves, CtrlCReachesSlaves
<1>3. ASSUME NEW p \in Pids, StartSlave(p)
      PROVE  TreeInvariant'
  <2>1. ControlInvariant'
    BY <1>3, StartSlaveKept
  <2>2. /\ \A q \in Pids \ {p} : Running(q)' <=> Running(q)
        /\ UNCHANGED <<control, signalled>> /\ late \subseteq late'
    BY <1>3 DEF StartSlave, Running, ControlInvariant, ControlTypeOK
  <2>3. Ecc \in interrupted => p \in late'
    BY <1>3 DEF StartSlave, Present, InterruptedLeaves
  <2> QED
    BY <1>1, <2>1, <2>2, <2>3 DEF InterruptedLeaves, CtrlCReachesSlaves
<1> QED
  BY <1>2, <1>3 DEF Request

LEMMA ControlMovesKept ==
    ASSUME TreeInvariant, ControlMoves \/ SlaveMoves \/ SlaveFails
    PROVE  TreeInvariant'
<1> USE DEF TreeInvariant
<1>1. LauncherInvariant' /\ EmbeddedInvariant' /\ UNCHANGED <<ui, interrupted>>
  BY LauncherRest, EmbeddedRests DEF launcherVars, ControlMoves, SlaveMoves, SlaveFails
<1>2. ASSUME \/ \E p \in Pids : SlaveEnds(p) \/ SlaveBinds(p)
             \/ \E t \in Callers : StopKills(t)
      PROVE  TreeInvariant'
  <2>1. ControlInvariant'
    BY <1>2, ProcessEndsKept
  <2>2. /\ \A p \in Pids : Running(p)' => Running(p) /\ (p \in signalled => p \in signalled')
        /\ UNCHANGED <<control, late>>
    BY <1>2 DEF SlaveEnds, SlaveBinds, StopKills, Ended, Running, ControlInvariant, ControlTypeOK
  <2> QED
    BY <1>1, <2>1, <2>2 DEF InterruptedLeaves, CtrlCReachesSlaves
<1>3. ASSUME \/ StopSlave(MainThread) \/ StopMasterRaises \/ ControlExits
             \/ \E t \in Callers : StopReturns(t)
      PROVE  TreeInvariant'
  <2>1. ControlInvariant'
    BY <1>3, StopSlaveKept, StopReturnsKept, StopMasterRaisesKept, VanishKept DEF Callers
  <2>2. /\ \A p \in Pids : Running(p)' <=> Running(p)
        /\ signalled \subseteq signalled' /\ UNCHANGED late
        /\ control' = control \/ control' \in {"done", "raised", "gone", "killed"}
    BY <1>3 DEF StopSlave, StopReturns, StopMasterRaises, ControlExits, Vanish, Stopped, Running
  <2> QED
    BY <1>1, <2>1, <2>2 DEF InterruptedLeaves, CtrlCReachesSlaves
<1> QED
  BY <1>2, <1>3 DEF ControlMoves, SlaveMoves, SlaveFails, ControlStep, SlaveStep

LEMMA ReadsKept ==
    ASSUME TreeInvariant, ReadMoves \/ ReadRequested
    PROVE  TreeInvariant'
<1> USE DEF TreeInvariant
<1>1. LauncherInvariant' /\ UNCHANGED <<ui, interrupted, controlVars>>
  BY LauncherRest DEF launcherVars, ReadMoves, ReadRequested
<1>2. EmbeddedInvariant'
  BY BeginReadKept, MasterStepKept, SlaveStepKept, JoinSlaveKept
  DEF ReadMoves, ReadRequested, ReadStep
<1>3. ControlInvariant' /\ InterruptedLeaves' /\ CtrlCReachesSlaves'
  BY <1>1 DEF controlVars, ControlInvariant, ControlTypeOK, ForgottenOverlapped, WaitsForTheLast,
              OrderlyEndStopsSlaves, InterruptedLeaves, CtrlCReachesSlaves, Running, Present, Ending
<1> QED
  BY <1>1, <1>2, <1>3

LEMMA TerminalInterruptKept ==
    ASSUME TreeInvariant, TerminalInterrupt
    PROVE  TreeInvariant'
<1> USE DEF TreeInvariant, TerminalInterrupt
<1>1. LauncherInvariant' /\ EmbeddedInvariant' /\ ui' = ui
  BY SignalKept, EmbeddedRests DEF CtrlC
<1>2. ControlInvariant'
  BY ControlInterruptedKept
<1>3. InterruptedLeaves'
  BY <1>1 DEF InterruptedLeaves, ControlInterrupted
<1>4. CtrlCReachesSlaves'
  BY DEF CtrlCReachesSlaves, ControlInterrupted, Group, Running
<1> QED
  BY <1>1, <1>2, <1>3, <1>4

LEMMA TreeStep == TreeInvariant /\ [Next]_vars => TreeInvariant'
<1> SUFFICES ASSUME TreeInvariant, [Next]_vars
             PROVE  TreeInvariant'
  OBVIOUS
<1>1. CASE LauncherStep \/ SignalledUiEnds \/ Outside
  <2>1. UNCHANGED embeddedVars /\ Follows
    BY <1>1 DEF LauncherStep, SignalledUiEnds, Outside
  <2>2. \/ MainStep \/ OthersChange
        \/ \E signal \in {"SIGTERM", "SIGINT"} : Signal(signal)
        \/ \E k \in Projects : UiBinds(k) \/ UiEnds(k) \/ UiKilled(k)
    BY <1>1 DEF LauncherStep, SignalledUiEnds, Outside
  <2> QED
    BY <2>1, <2>2, LauncherMoves, FollowedKept DEF TreeInvariant
<1>2. CASE UNCHANGED vars
  BY <1>2, LauncherRest, EmbeddedRests
  DEF vars, launcherVars, controlVars, TreeInvariant, ControlInvariant, ControlTypeOK,
      ForgottenOverlapped, WaitsForTheLast, OrderlyEndStopsSlaves, InterruptedLeaves,
      CtrlCReachesSlaves, Running, Present, Ending
<1> QED
  BY <1>1, <1>2, RequestedKept, ControlMovesKept, ReadsKept, TerminalInterruptKept DEF Next

LEMMA TreeAlways == Spec => []TreeInvariant
BY TreeStarts, TreeStep, PTL DEF Spec

-----------------------------------------------------------------------------
(* Each process, thread and call stays in the states the code can be in, and *)
(* at most one call of stop_all is in the section that holds the lock.      *)
THEOREM TreeTypeCorrect == Spec => []TypeOK
<1>1. TreeInvariant => TypeOK
  BY DEF TreeInvariant, LauncherInvariant, ControlInvariant, EmbeddedInvariant, TypeOK
<1> QED
  BY <1>1, TreeAlways, PTL

(* A launcher that ends through its callbacks leaves no project process       *)
(* behind, for any number of projects and however its signals nest.         *)
THEOREM NothingIsLeft == Spec => []NothingLeftRunning
<1>1. TreeInvariant => NothingLeftRunning
  BY DEF TreeInvariant, LauncherInvariant
<1> QED
  BY <1>1, TreeAlways, PTL

(* start_slave and stop_slave lose sight of a slave process only if it is    *)
(* started while some stop_slave waits, or with the finally clause over,    *)
(* with any number of request threads.                                      *)
THEOREM OnlyOverlappedForgotten == Spec => []ForgottenOverlapped
<1>1. TreeInvariant => ForgottenOverlapped
  BY DEF TreeInvariant, ControlInvariant
<1> QED
  BY <1>1, TreeAlways, PTL

(* OrderlyEnd (ui_server.py:659-664): the finally clause, when it runs to its *)
(* end, leaves no other slave process behind.                               *)
THEOREM OrderlyEnd == Spec => []OrderlyEndStopsSlaves
<1>1. TreeInvariant => OrderlyEndStopsSlaves
  BY DEF TreeInvariant, ControlInvariant
<1> QED
  BY <1>1, TreeAlways, PTL

(* Ctrl-C reaches every slave process started before it, also those that     *)
(* nobody remembers.                                                        *)
THEOREM CtrlCReaches == Spec => []CtrlCReachesSlaves
<1>1. TreeInvariant => CtrlCReachesSlaves
  BY DEF TreeInvariant
<1> QED
  BY <1>1, TreeAlways, PTL

(* A read that is answered with registers was served by its own slave, and   *)
(* has let go of the port.                                                  *)
THEOREM ServedIfOk == Spec => []OkMeansServed
<1>1. TreeInvariant => OkMeansServed
  BY DEF TreeInvariant, EmbeddedInvariant
<1> QED
  BY <1>1, TreeAlways, PTL

(* Only a slave thread still in accept() keeps the port of a read that is    *)
(* over.                                                                    *)
THEOREM OnlyAcceptLeaks == Spec => []LeaksUnconnected
<1>1. TreeInvariant => LeaksUnconnected
  BY DEF TreeInvariant, EmbeddedInvariant
<1> QED
  BY <1>1, TreeAlways, PTL
=============================================================================
