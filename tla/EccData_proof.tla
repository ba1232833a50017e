---------------------------- MODULE EccData_proof ----------------------------
(***************************************************************************)
(* Proofs about EccData, for every number of threads, calls and faults,    *)
(* every set of requests and every size of the bank.                       *)
(***************************************************************************)
EXTENDS EccData, FiniteSetTheorems, TLAPS

-----------------------------------------------------------------------------
(* What the variables hold *)

Requests == [key : Conns, dir : {0}, ctr : Nat, id : Calls, pdu : Pdus]
Answers == {Answer(registers, pdu) : registers \in Bank, pdu \in Pdus}
Replies == [key : Conns, dir : {1}, ctr : Nat, id : Calls, pdu : Answers]

Dialing == {"dial", "adopt"}
Exchanging == {"write", "reread", "recv"}
Inside(t) == tpc[t] \notin {"idle", "want"}

ThreadShapes ==
    /\ tpc \in [Threads -> {"idle", "want", "connect", "dial", "adopt", "send",
                             "write", "reread", "recv", "fail"}]
    /\ treq \in [Threads -> [id : 0..MaxCalls, pdu : Pdus \cup {Pdu(0, <<>>)}]]
    /\ \A t \in Threads : tpc[t] # "idle" => treq[t] \in [id : Calls, pdu : Pdus]
    /\ tres \in [Threads -> [id : 0..MaxCalls, ans : Answers \cup {Pdu(0, <<>>)}]]
    /\ ncalls \in 0..MaxCalls

MasterShapes ==
    /\ tconn \in [Threads -> {0} \cup Conns]
    /\ \A t \in Threads : tpc[t] \in Dialing \cup Exchanging => tconn[t] # 0
    /\ sock \in {0} \cup Conns /\ session \in {0} \cup Conns
    /\ stopper \in {"idle", "close", "sock", "session", "raising_sock", "raising_session", "over"}
    /\ cst \in [Conns -> {"none", "open", "closed"}]
    /\ sst \in [Conns -> {"none", "serving", "closed"}]

LinkShapes ==
    /\ ctx \in [Conns -> Nat] /\ stx \in [Conns -> Nat]
    /\ toServer \in [Conns -> Seq(Requests \cup {Garbled})]
    /\ toClient \in [Conns -> Seq(Replies \cup {Garbled})]
    /\ sealed \in SUBSET (Requests \cup Replies)
    /\ bank \in Bank /\ up \in BOOLEAN
    /\ answered \in [Calls -> Seq(Answers)]
    /\ faults \in Nat

(* The lock keeps the threads apart *)
Exclusive ==
    /\ lock \in SUBSET Threads
    /\ \A t \in Threads : Inside(t) => lock = {t}
    /\ lock # {} => \E t \in Threads : lock = {t}

(* No call opens more than one connection *)
Waiting == {t \in Threads : tpc[t] \in {"want", "connect"}}
Dials ==
    /\ ndials \in Nat
    /\ IsFiniteSet(Waiting) /\ ndials + Cardinality(Waiting) <= ncalls

DataShapes == ThreadShapes /\ MasterShapes /\ LinkShapes /\ Exclusive /\ Dials

-----------------------------------------------------------------------------
LEMMA Sizes == MaxWord \in Nat /\ Size \in Nat /\ 1 <= Size /\ Size <= MaxWord + 1
<1>1. MaxWord \in Nat
  BY DEF MaxWord
<1> QED
  BY <1>1, SizeAssumption

LEMMA RegistersWritten ==
    ASSUME NEW registers \in Bank, NEW pdu \in Pdus
    PROVE  After(registers, pdu) \in Bank
<1>1. pdu.data \in Word \X Word
  BY DataAssumption
<1>2. pdu.data[1] \in Word /\ pdu.data[2] \in Word
  BY <1>1
<1>3. CASE Writes(pdu)
  <2>1. pdu.data[1] \in 0..(Size - 1)
    BY <1>2, <1>3, Sizes DEF Writes, WriteInRange, Word
  <2>2. [registers EXCEPT ![pdu.data[1]] = pdu.data[2]] \in Bank
    BY <1>2, <2>1 DEF Bank
  <2> QED
    BY <1>3, <2>2 DEF After
<1> QED
  BY <1>3 DEF After

LEMMA RequestShapes ==
    ASSUME NEW n \in Conns, NEW ctr \in Nat, NEW id \in Calls, NEW pdu \in Pdus
    PROVE  Frame(n, 0, ctr, id, pdu) \in Requests
BY DEF Frame, Requests

LEMMA ReplyShapes ==
    ASSUME NEW n \in Conns, NEW ctr \in Nat, NEW id \in Calls, NEW registers \in Bank,
           NEW pdu \in Pdus
    PROVE  Frame(n, 1, ctr, id, Answer(registers, pdu)) \in Replies
<1>1. Answer(registers, pdu) \in Answers
  BY DEF Answers
<1> QED
  BY <1>1 DEF Frame, Replies

LEMMA GarbledShape == Garbled.key = 0 /\ Garbled.id = 0
BY DEF Garbled, Frame

(* What the line does to a queue *)
LEMMA DisturbedQueue ==
    ASSUME NEW S, NEW queue \in Seq(S \cup {Garbled}), queue # <<>>,
           NEW kind \in {"garble", "lose", "duplicate"}
    PROVE  Disturbed(queue)[kind] \in Seq(S \cup {Garbled})
<1>1. Head(queue) \in S \cup {Garbled} /\ Tail(queue) \in Seq(S \cup {Garbled})
  OBVIOUS
<1>2. <<Garbled>> \in Seq(S \cup {Garbled}) /\ <<Head(queue)>> \in Seq(S \cup {Garbled})
  BY <1>1
<1>3. /\ <<Garbled>> \o Tail(queue) \in Seq(S \cup {Garbled})
      /\ <<Head(queue)>> \o queue \in Seq(S \cup {Garbled})
  BY <1>1, <1>2
<1>4. /\ Disturbed(queue)["garble"] = <<Garbled>> \o Tail(queue)
      /\ Disturbed(queue)["lose"] = Tail(queue)
      /\ Disturbed(queue)["duplicate"] = <<Head(queue)>> \o queue
  BY DEF Disturbed
<1> QED
  BY <1>1, <1>3, <1>4

LEMMA DataInit == Init => DataShapes
<1> SUFFICES ASSUME Init PROVE DataShapes
  OBVIOUS
<1>1. ThreadShapes
  BY DataAssumption DEF Init, ThreadShapes, NoResult
<1>2. MasterShapes
  BY DEF Init, MasterShapes, Dialing, Exchanging
<1>3. LinkShapes
  <2>1. bank \in Bank
    BY Sizes DEF Init, InitialBank, Bank, Word
  <2>2. /\ toServer \in [Conns -> Seq(Requests \cup {Garbled})]
        /\ toClient \in [Conns -> Seq(Replies \cup {Garbled})]
        /\ answered \in [Calls -> Seq(Answers)]
    BY DEF Init
  <2> QED
    BY <2>1, <2>2 DEF Init, LinkShapes, FirstCounter
<1>4. Exclusive
  BY DEF Init, Exclusive, Inside
<1>5. Waiting = {}
  BY DEF Init, Waiting
<1>6. Dials
  BY <1>5, FS_EmptySet DEF Init, Dials
<1> QED
  BY <1>1, <1>2, <1>3, <1>4, <1>6 DEF DataShapes

-----------------------------------------------------------------------------
(* Every step preserves the shapes *)

LEMMA ThreadShapesStep == DataShapes /\ [Next]_vars => ThreadShapes'
<1> SUFFICES ASSUME DataShapes, [Next]_vars PROVE ThreadShapes'
  OBVIOUS
<1> USE DEF DataShapes, ThreadShapes
<1>1. ASSUME NEW t \in Threads, Call(t) PROVE ThreadShapes'
  BY <1>1, DataAssumption DEF Call, Calls
<1>2. ASSUME UNCHANGED <<tpc, treq, tres, ncalls>> PROVE ThreadShapes'
  BY <1>2
<1>3. ASSUME NEW t \in Threads, NEW pc, Goto(t, pc), UNCHANGED <<treq, ncalls>>,
             pc \in {"connect", "dial", "adopt", "send", "write", "reread", "recv", "fail"},
             tpc[t] # "idle", UNCHANGED tres
      PROVE  ThreadShapes'
  BY <1>3 DEF Goto
<1>4. ASSUME NEW t \in Threads, Transact(t) PROVE ThreadShapes'
  <2>1. CASE Acquire(t)
    BY <1>3, <2>1 DEF Acquire, counts
  <2>2. CASE Connect(t)
    BY <1>3, <2>2 DEF Connect
  <2>3. CASE Dialed(t)
    BY <1>3, <2>3 DEF Dialed, counts
  <2>4. CASE Adopt(t)
    BY <1>3, <2>4 DEF Adopt, counts
  <2>5. CASE Encrypt(t)
    BY <1>3, <2>5 DEF Encrypt, counts
  <2>6. CASE Write(t)
    BY <1>3, <2>6 DEF Write, counts
  <2>7. CASE Reread(t)
    BY <1>3, <2>7 DEF Reread, counts
  <2>8. CASE ReceiveFails(t)
    BY <1>3, <2>8 DEF ReceiveFails, counts
  <2>9. CASE Fail(t)
    <3>1. NoResult \in [id : 0..MaxCalls, ans : Answers \cup {Pdu(0, <<>>)}]
      BY DataAssumption DEF NoResult
    <3> QED
      BY <2>9, <3>1 DEF Fail, counts, Goto
  <2>10. CASE Receive(t)
    <3> DEFINE frame == Head(toClient[tconn[t]])
    <3>1. tconn[t] \in Conns /\ tpc[t] # "idle"
      BY <2>10 DEF Receive, MasterShapes, Exchanging
    <3>2. frame \in Replies \cup {Garbled}
      BY <2>10, <3>1 DEF Receive, LinkShapes
    <3>3. CASE Decrypts(tconn[t], 1, frame)
      <4>1. frame \in Replies
        BY <3>1, <3>2, <3>3, GarbledShape DEF Decrypts, Conns, Calls
      <4>2. [id |-> frame.id, ans |-> frame.pdu]
               \in [id : 0..MaxCalls, ans : Answers \cup {Pdu(0, <<>>)}]
        BY <4>1 DEF Replies, Calls
      <4> QED
        BY <2>10, <3>1, <3>3, <4>2, ZenonT(60) DEF Receive, Goto, counts
    <3>4. CASE ~Decrypts(tconn[t], 1, frame)
      BY <1>3, <2>10, <3>4 DEF Receive, counts
    <3> QED
      BY <3>3, <3>4
  <2> QED
    BY <1>4, <2>1, <2>2, <2>3, <2>4, <2>5, <2>6, <2>7, <2>8, <2>9, <2>10 DEF Transact
<1>5. ASSUME NEW t \in Threads, Timeout(t) PROVE ThreadShapes'
  BY <1>3, <1>5 DEF Timeout, counts
<1>6. ASSUME NEW n \in Conns, Collect(n) \/ LineNoise(n) PROVE ThreadShapes'
  BY <1>2, <1>6 DEF Collect, LineNoise, threads, counts
<1>7. CASE Stop \/ RestartSlave \/ CrashSlave
  BY <1>2, <1>7 DEF Stop, RestartSlave, CrashSlave, threads, counts
<1>8. CASE SlaveStep
  BY <1>2, <1>8 DEF SlaveStep, Accept, Serve, Reject, RunOut, EndOfStream, threads, counts
<1>9. CASE UNCHANGED vars
  BY <1>2, <1>9 DEF vars, threads, counts
<1> QED
  BY <1>1, <1>4, <1>5, <1>6, <1>7, <1>8, <1>9 DEF Next

(* A queue whose first frame is gone, and one that is longer by a frame *)
LEMMA QueueShapes ==
    ASSUME NEW S, NEW queue \in Seq(S), NEW frame \in S
    PROVE  /\ Append(queue, frame) \in Seq(S)
           /\ queue # <<>> => Head(queue) \in S /\ Tail(queue) \in Seq(S)
           /\ <<>> \in Seq(S)
OBVIOUS

LEMMA MasterShapesStep == DataShapes /\ [Next]_vars => MasterShapes'
<1> SUFFICES ASSUME DataShapes, [Next]_vars PROVE MasterShapes'
  OBVIOUS
<1> USE DEF DataShapes, MasterShapes, Dialing, Exchanging
<1>1. ASSUME NEW t \in Threads, Call(t) PROVE MasterShapes'
  BY <1>1 DEF Call, master, ends, ThreadShapes
<1>2. ASSUME UNCHANGED <<tpc, tconn, sock, session, stopper, cst, sst>> PROVE MasterShapes'
  BY <1>2
<1>3. ASSUME NEW t \in Threads, Transact(t) PROVE MasterShapes'
  <2> USE DEF ThreadShapes, Goto, Local, counts, master, ends, counters, slave
  <2>1. CASE Acquire(t)
    BY <1>3, <2>1 DEF Acquire, Transact
  <2>2. CASE Connect(t)
    <3>1. ndials + 1 \in Conns
      <4>1. t \in Waiting /\ Waiting # {}
        BY <2>2 DEF Connect, Waiting
      <4>2. Cardinality(Waiting) \in Nat /\ Cardinality(Waiting) # 0
        BY <4>1, FS_EmptySet, FS_CardinalityType DEF Dials
      <4> QED
        BY <4>2, DataAssumption DEF Dials, Conns, Calls
    <3>2. UNCHANGED <<sock, session, stopper, sst>>
      BY <1>3, <2>2 DEF Connect, Transact
    <3>3. CASE sock # 0 \/ ~up
      <4>1. UNCHANGED <<tconn, cst>> /\ (Goto(t, "send") \/ Goto(t, "fail"))
        BY <2>2, <3>3 DEF Connect
      <4> QED
        BY <3>2, <4>1
    <3>4. CASE ~(sock # 0 \/ ~up)
      <4>1. /\ cst' = [cst EXCEPT ![ndials + 1] = "open"]
            /\ Local(t, ndials + 1) /\ Goto(t, "dial")
        BY <2>2, <3>4 DEF Connect
      <4>2. ndials + 1 # 0
        BY DEF Dials
      <4> QED
        BY <3>1, <3>2, <4>1, <4>2
    <3> QED
      BY <3>3, <3>4
  <2>3. CASE Dialed(t)
    BY <1>3, <2>3 DEF Dialed, Transact
  <2>4. CASE Adopt(t)
    BY <1>3, <2>4 DEF Adopt, Transact
  <2>5. CASE Encrypt(t)
    BY <1>3, <2>5, ZenonT(60) DEF Encrypt, Transact
  <2>6. CASE Write(t)
    BY <1>3, <2>6 DEF Write, Transact
  <2>7. CASE Reread(t)
    BY <1>3, <2>7 DEF Reread, Transact
  <2>8. CASE Receive(t)
    BY <1>3, <2>8, ZenonT(60) DEF Receive, Transact
  <2>9. CASE ReceiveFails(t)
    BY <1>3, <2>9 DEF ReceiveFails, Transact
  <2>10. CASE Fail(t)
    BY <1>3, <2>10 DEF Fail, Transact
  <2> QED
    BY <1>3, <2>1, <2>2, <2>3, <2>4, <2>5, <2>6, <2>7, <2>8, <2>9, <2>10 DEF Transact
<1>4. ASSUME NEW t \in Threads, Timeout(t) PROVE MasterShapes'
  BY <1>4 DEF Timeout, Goto, master, ends, ThreadShapes
<1>5. ASSUME NEW n \in Conns, Collect(n) PROVE MasterShapes'
  BY <1>5 DEF Collect, threads, master
<1>6. ASSUME NEW n \in Conns, LineNoise(n) PROVE MasterShapes'
  BY <1>2, <1>6 DEF LineNoise, threads, master, ends
<1>7. CASE Stop
  BY <1>7 DEF Stop, threads
<1>8. CASE RestartSlave
  BY <1>2, <1>8 DEF RestartSlave, threads, master, ends
<1>9. CASE CrashSlave
  BY <1>9 DEF CrashSlave, SlaveEnds, threads, master
<1>10. CASE SlaveStep
  <2>1. CASE Accept
    BY <2>1 DEF Accept, threads, master
  <2>2. ASSUME NEW n \in Conns, Serve(n) PROVE MasterShapes'
    BY <1>2, <2>2 DEF Serve, threads, master, ends
  <2>3. ASSUME NEW n \in Conns, RunOut(n) PROVE MasterShapes'
    BY <2>3 DEF RunOut, SlaveEnds, threads, master
  <2>4. ASSUME NEW n \in Conns, Reject(n) \/ EndOfStream(n) PROVE MasterShapes'
    BY <2>4 DEF Reject, EndOfStream, CloseServer, threads, master
  <2> QED
    BY <1>10, <2>1, <2>2, <2>3, <2>4 DEF SlaveStep
<1>11. CASE UNCHANGED vars
  BY <1>2, <1>11 DEF vars, threads, master, ends
<1> QED
  BY <1>1, <1>3, <1>4, <1>5, <1>6, <1>7, <1>8, <1>9, <1>10, <1>11 DEF Next

LEMMA LinkShapesStep == DataShapes /\ [Next]_vars => LinkShapes'
<1> SUFFICES ASSUME DataShapes, [Next]_vars PROVE LinkShapes'
  OBVIOUS
<1> USE DEF DataShapes, LinkShapes
<1> DEFINE ToServer == Requests \cup {Garbled}
           ToClient == Replies \cup {Garbled}
<1>1. ASSUME UNCHANGED <<ctx, stx, toServer, toClient, sealed, bank, up, answered>>, faults' \in Nat
      PROVE  LinkShapes'
  BY <1>1
<1>2. ASSUME NEW t \in Threads, tpc[t] \in {"send", "write"}, NEW n \in Conns
      PROVE  Request(t, n) \in Requests
  BY <1>2, RequestShapes DEF Request, ThreadShapes
<1>3. ASSUME NEW t \in Threads, Transact(t) PROVE LinkShapes'
  <2>0. UNCHANGED <<bank, up, answered, faults>>
    BY <1>3 DEF Transact, slave
  <2> USE DEF counters, wires
  <2>1. CASE Acquire(t) \/ Connect(t) \/ Dialed(t) \/ Adopt(t) \/ Reread(t) \/ ReceiveFails(t)
    BY <1>1, <2>0, <2>1 DEF Acquire, Connect, Dialed, Adopt, Reread, ReceiveFails
  <2>2. CASE Encrypt(t)
    BY <1>2, <2>0, <2>2, SMTT(60) DEF Encrypt, MasterShapes
  <2>3. CASE Write(t)
    <3>1. tconn[t] \in Conns
      BY <2>3 DEF Write, MasterShapes, Exchanging
    <3>2. ctx' \in [Conns -> Nat]
      <4>1. ctx[tconn[t]] + 1 \in Nat
        BY <3>1
      <4>2. ctx' = [ctx EXCEPT ![tconn[t]] = ctx[tconn[t]] + 1]
        BY <2>3 DEF Write, Stepped
      <4> QED
        BY <4>1, <4>2
    <3>3. Append(toServer[tconn[t]], Request(t, tconn[t])) \in Seq(ToServer)
      BY <1>2, <2>3, <3>1, QueueShapes DEF Write
    <3>4. toServer' \in [Conns -> Seq(ToServer)]
      BY <2>3, <3>3 DEF Write
    <3> QED
      BY <2>0, <2>3, <3>2, <3>4 DEF Write
  <2>4. CASE Receive(t)
    <3>1. tconn[t] \in Conns
      BY <2>4 DEF Receive, MasterShapes, Exchanging
    <3>2. Tail(toClient[tconn[t]]) \in Seq(ToClient)
      BY <2>4, <3>1 DEF Receive
    <3> QED
      BY <2>0, <2>4, <3>2 DEF Receive
  <2>5. CASE Fail(t)
    <3>1. <<>> \in Seq(ToClient)
      OBVIOUS
    <3> QED
      BY <2>0, <2>5, <3>1 DEF Fail
  <2> QED
    BY <1>3, <2>1, <2>2, <2>3, <2>4, <2>5 DEF Transact
<1>4. ASSUME NEW t \in Threads, Call(t) \/ Timeout(t) PROVE LinkShapes'
  BY <1>1, <1>4 DEF Call, Timeout, Fault, counters, wires, slave
<1>5. ASSUME NEW n \in Conns, Collect(n) PROVE LinkShapes'
  <2>1. <<>> \in Seq(ToClient)
    OBVIOUS
  <2> QED
    BY <1>5, <2>1 DEF Collect, counters, slave
<1>6. ASSUME NEW n \in Conns, LineNoise(n) PROVE LinkShapes'
  <2> PICK kind \in {"garble", "lose", "duplicate"} :
        /\ Fault(kind)
        /\ \/ /\ toServer[n] # <<>>
              /\ toServer' = [toServer EXCEPT ![n] = Disturbed(@)[kind]]
              /\ UNCHANGED toClient
           \/ /\ toClient[n] # <<>>
              /\ toClient' = [toClient EXCEPT ![n] = Disturbed(@)[kind]]
              /\ UNCHANGED toServer
    BY <1>6 DEF LineNoise
  <2>1. toServer[n] # <<>> => Disturbed(toServer[n])[kind] \in Seq(ToServer)
    BY DisturbedQueue
  <2>2. toClient[n] # <<>> => Disturbed(toClient[n])[kind] \in Seq(ToClient)
    BY DisturbedQueue
  <2>3. /\ toServer' \in [Conns -> Seq(ToServer)]
        /\ toClient' \in [Conns -> Seq(ToClient)]
    BY <2>1, <2>2
  <2>4. faults' \in Nat
    BY DEF Fault
  <2> QED
    BY <1>6, <2>3, <2>4 DEF LineNoise, counters, slave
<1>7. CASE Stop
  <2>1. <<>> \in Seq(ToClient)
    OBVIOUS
  <2> QED
    BY <1>7, <2>1 DEF Stop, counters, slave
<1>8. ASSUME NEW n \in Conns, Executes(n)
      PROVE  /\ Head(toServer[n]) \in Requests
             /\ Executed(Head(toServer[n])) =>
                  /\ bank' \in Bank
                  /\ answered' \in [Calls -> Seq(Answers)]
  <2> DEFINE request == Head(toServer[n])
  <2>1. request \in Requests
    BY <1>8, GarbledShape DEF Executes, Decrypts, Conns, Calls
  <2>2. request.id \in Calls /\ request.pdu \in Pdus
    BY <2>1 DEF Requests
  <2>3. After(bank, request.pdu) \in Bank /\ Answer(bank, request.pdu) \in Answers
    BY <2>2, RegistersWritten DEF Answers
  <2>4. Append(answered[request.id], Answer(bank, request.pdu)) \in Seq(Answers)
    BY <2>2, <2>3, QueueShapes
  <2> QED
    BY <2>1, <2>2, <2>3, <2>4 DEF Executed
<1>9. ASSUME UNCHANGED <<ctx, stx, sealed, toClient>>, SlaveEnds, faults' \in Nat,
             bank' \in Bank, answered' \in [Calls -> Seq(Answers)]
      PROVE  LinkShapes'
  <2>1. toServer' \in [Conns -> Seq(ToServer)]
    BY <1>9 DEF SlaveEnds
  <2> QED
    BY <1>9, <2>1 DEF SlaveEnds
<1>10. CASE RestartSlave
  <2>1. InitialBank \in Bank
    BY Sizes DEF InitialBank, Bank, Word
  <2> QED
    BY <1>10, <2>1 DEF RestartSlave, counters, wires
<1>11. CASE CrashSlave
  BY <1>9, <1>11 DEF CrashSlave, Fault, counters
<1>12. CASE SlaveStep
  <2>1. CASE Accept
    BY <1>1, <2>1 DEF Accept, counters, wires, slave
  <2>2. ASSUME NEW n \in Conns, Serve(n) PROVE LinkShapes'
    <3> DEFINE request == Head(toServer[n])
               reply == Frame(n, 1, stx[n], request.id, Answer(bank, request.pdu))
    <3>1. request \in Requests /\ Tail(toServer[n]) \in Seq(ToServer)
      BY <1>8, <2>2 DEF Serve, Executes
    <3>2. request.id \in Calls /\ request.pdu \in Pdus
      BY <3>1 DEF Requests
    <3>3. reply \in Replies
      BY <3>2, ReplyShapes
    <3>4. Append(toClient[n], reply) \in Seq(ToClient)
      BY <3>3, QueueShapes
    <3>5. /\ toServer' \in [Conns -> Seq(ToServer)]
          /\ toClient' \in [Conns -> Seq(ToClient)]
      BY <2>2, <3>1, <3>4 DEF Serve
    <3>6. stx' \in [Conns -> Nat] /\ sealed' \in SUBSET (Requests \cup Replies)
      BY <2>2, <3>3 DEF Serve, Stepped
    <3>7. bank' \in Bank /\ answered' \in [Calls -> Seq(Answers)]
      BY <1>8, <2>2 DEF Serve
    <3> QED
      BY <2>2, <3>5, <3>6, <3>7 DEF Serve
  <2>3. ASSUME NEW n \in Conns, RunOut(n) PROVE LinkShapes'
    BY <1>8, <1>9, <2>3 DEF RunOut, counters
  <2>4. ASSUME NEW n \in Conns, Reject(n) \/ EndOfStream(n) PROVE LinkShapes'
    <3>1. toServer' = [toServer EXCEPT ![n] = <<>>] /\ <<>> \in Seq(ToServer)
      BY <2>4 DEF Reject, EndOfStream, CloseServer
    <3>2. toServer' \in [Conns -> Seq(ToServer)]
      BY <3>1
    <3> QED
      BY <2>4, <3>2 DEF Reject, EndOfStream, counters, slave
  <2> QED
    BY <1>12, <2>1, <2>2, <2>3, <2>4 DEF SlaveStep
<1>13. CASE UNCHANGED vars
  BY <1>1, <1>13 DEF vars, counters, wires, slave
<1> QED
  BY <1>3, <1>4, <1>5, <1>6, <1>7, <1>10, <1>11, <1>12, <1>13 DEF Next

(* Where the threads go *)
LEMMA ThreadsMove ==
    ASSUME DataShapes, [Next]_vars
    PROVE  \/ UNCHANGED <<tpc, lock>>
           \/ \E t \in Threads :
                /\ tpc[t] = "idle" /\ Goto(t, "want") /\ UNCHANGED lock
                /\ ncalls' = ncalls + 1 /\ UNCHANGED ndials
           \/ \E t \in Threads :
                /\ tpc[t] = "want" /\ lock = {} /\ lock' = {t} /\ Goto(t, "connect")
           \/ \E t \in Threads : \E pc \in {"dial", "adopt", "send", "write", "reread", "recv", "fail"} :
                Inside(t) /\ Goto(t, pc) /\ UNCHANGED lock
           \/ \E t \in Threads : Inside(t) /\ tpc[t] # "connect" /\ Goto(t, "idle") /\ lock' = {}
<1> USE DEF Inside, master, counts
<1>1. ASSUME NEW t \in Threads, Call(t) PROVE tpc[t] = "idle" /\ Goto(t, "want") /\ UNCHANGED lock
                /\ ncalls' = ncalls + 1 /\ UNCHANGED ndials
  BY <1>1 DEF Call, Goto
<1>2. ASSUME NEW t \in Threads, Acquire(t)
      PROVE  tpc[t] = "want" /\ lock = {} /\ lock' = {t} /\ Goto(t, "connect")
  BY <1>2 DEF Acquire
<1>3. ASSUME NEW t \in Threads,
             Connect(t) \/ Dialed(t) \/ Adopt(t) \/ Encrypt(t) \/ Write(t) \/ Reread(t)
               \/ ReceiveFails(t) \/ Timeout(t)
      PROVE  \E pc \in {"dial", "adopt", "send", "write", "reread", "recv", "fail"} :
                Inside(t) /\ Goto(t, pc) /\ UNCHANGED lock
  BY <1>3 DEF Connect, Dialed, Adopt, Encrypt, Write, Reread, ReceiveFails, Timeout
<1>4. ASSUME NEW t \in Threads, Receive(t)
      PROVE  \/ Inside(t) /\ Goto(t, "fail") /\ UNCHANGED lock
             \/ Inside(t) /\ tpc[t] # "connect" /\ Goto(t, "idle") /\ lock' = {}
  BY <1>4 DEF Receive
<1>5. ASSUME NEW t \in Threads, Fail(t)
      PROVE  Inside(t) /\ tpc[t] # "connect" /\ Goto(t, "idle") /\ lock' = {}
  BY <1>5 DEF Fail
<1>6. ASSUME NEW n \in Conns, Collect(n) \/ LineNoise(n) PROVE UNCHANGED <<tpc, lock>>
  BY <1>6 DEF Collect, LineNoise, threads
<1>7. CASE Stop \/ RestartSlave \/ CrashSlave \/ UNCHANGED vars
  BY <1>7 DEF Stop, RestartSlave, CrashSlave, vars, threads
<1>8. CASE SlaveStep
  BY <1>8 DEF SlaveStep, Accept, Serve, Reject, RunOut, EndOfStream, threads
<1> QED
  BY <1>1, <1>2, <1>3, <1>4, <1>5, <1>6, <1>7, <1>8 DEF Next, Transact

LEMMA ExclusiveStep == DataShapes /\ [Next]_vars => Exclusive'
<1> SUFFICES ASSUME DataShapes, [Next]_vars PROVE Exclusive'
  OBVIOUS
<1> USE DEF DataShapes, Exclusive, Inside, Goto, ThreadShapes
<1>1. CASE UNCHANGED <<tpc, lock>>
  BY <1>1
<1>2. ASSUME NEW t \in Threads, Goto(t, "want"), tpc[t] = "idle", UNCHANGED lock PROVE Exclusive'
  BY <1>2
<1>3. ASSUME NEW t \in Threads, lock = {}, lock' = {t}, Goto(t, "connect") PROVE Exclusive'
  BY <1>3
<1>4. ASSUME NEW t \in Threads, NEW pc, Inside(t), Goto(t, pc), UNCHANGED lock PROVE Exclusive'
  BY <1>4
<1>5. ASSUME NEW t \in Threads, Inside(t), Goto(t, "idle"), lock' = {} PROVE Exclusive'
  <2>1. ASSUME NEW u \in Threads, Inside(u) PROVE u = t
    BY <1>5, <2>1
  <2> QED
    BY <1>5, <2>1
<1> QED
  BY ThreadsMove, <1>1, <1>2, <1>3, <1>4, <1>5

(* A connection is opened by a thread that waits, and waits no more *)
LEMMA DialsStep == DataShapes /\ [Next]_vars => Dials'
<1> SUFFICES ASSUME DataShapes, [Next]_vars PROVE Dials'
  OBVIOUS
<1> USE DEF DataShapes, ThreadShapes, Dials
<1>0. Cardinality(Waiting) \in Nat /\ ncalls \in Nat
  BY FS_CardinalityType
<1>1. ASSUME UNCHANGED <<ncalls, ndials>>, Waiting' \subseteq Waiting PROVE Dials'
  <2>1. IsFiniteSet(Waiting') /\ Cardinality(Waiting') <= Cardinality(Waiting)
    BY <1>1, FS_Subset
  <2>2. Cardinality(Waiting') \in Nat
    BY <2>1, FS_CardinalityType
  <2> QED
    BY <1>0, <1>1, <2>1, <2>2
<1>2. ASSUME NEW t \in Threads, Call(t) PROVE Dials'
  <2>1. Waiting' = Waiting \cup {t} /\ t \notin Waiting
    BY <1>2 DEF Call, Waiting
  <2>2. IsFiniteSet(Waiting') /\ Cardinality(Waiting') = Cardinality(Waiting) + 1
    BY <2>1, FS_AddElement
  <2> QED
    BY <1>0, <1>2, <2>2 DEF Call
<1>3. ASSUME NEW t \in Threads, Connect(t) PROVE Dials'
  <2>1. Waiting' = Waiting \ {t} /\ t \in Waiting
    BY <1>3 DEF Connect, Waiting, Goto
  <2>2. IsFiniteSet(Waiting') /\ Cardinality(Waiting') = Cardinality(Waiting) - 1
    BY <2>1, FS_RemoveElement
  <2>3. ncalls' = ncalls /\ (ndials' = ndials \/ ndials' = ndials + 1)
    BY <1>3 DEF Connect
  <2>4. ndials' \in Nat /\ ndials' <= ndials + 1
    BY <2>3
  <2> QED
    BY <1>0, <2>2, <2>3, <2>4
<1>4. ASSUME NEW t \in Threads, Transact(t), ~Connect(t) PROVE Dials'
  <2> USE DEF Waiting, counts, Goto
  <2>1. CASE Acquire(t)
    BY <1>1, <2>1 DEF Acquire
  <2>2. CASE Dialed(t) \/ Adopt(t) \/ Encrypt(t)
    BY <1>1, <2>2 DEF Dialed, Adopt, Encrypt
  <2>3. CASE Write(t) \/ Reread(t)
    BY <1>1, <2>3 DEF Write, Reread
  <2>4. CASE Receive(t) \/ ReceiveFails(t) \/ Fail(t)
    BY <1>1, <2>4 DEF Receive, ReceiveFails, Fail
  <2> QED
    BY <1>4, <2>1, <2>2, <2>3, <2>4 DEF Transact
<1>5. ASSUME NEW t \in Threads, Timeout(t) PROVE Dials'
  BY <1>1, <1>5 DEF Timeout, Waiting, counts, Goto
<1>6. ASSUME NEW n \in Conns, Collect(n) \/ LineNoise(n) PROVE Dials'
  BY <1>1, <1>6 DEF Collect, LineNoise, Waiting, counts, threads
<1>7. CASE Stop \/ RestartSlave \/ CrashSlave \/ UNCHANGED vars
  BY <1>1, <1>7 DEF Stop, RestartSlave, CrashSlave, vars, Waiting, counts, threads
<1>8. CASE SlaveStep
  BY <1>1, <1>8 DEF SlaveStep, Accept, Serve, Reject, RunOut, EndOfStream, Waiting, counts, threads
<1> QED
  BY <1>2, <1>3, <1>4, <1>5, <1>6, <1>7, <1>8 DEF Next

LEMMA ShapesOK == DataShapes => TypeOK
<1> SUFFICES ASSUME DataShapes PROVE TypeOK
  OBVIOUS
<1>1. Cardinality(lock) <= 1
  <2>1. CASE lock = {}
    BY <2>1, FS_EmptySet
  <2>2. ASSUME NEW t \in Threads, lock = {t} PROVE Cardinality(lock) <= 1
    BY <2>2, FS_Singleton
  <2> QED
    BY <2>1, <2>2 DEF DataShapes, Exclusive
<1> QED
  BY <1>1 DEF DataShapes, ThreadShapes, MasterShapes, LinkShapes, Exclusive, TypeOK

LEMMA DataShapesStep == DataShapes /\ [Next]_vars => DataShapes'
BY ThreadShapesStep, MasterShapesStep, LinkShapesStep, ExclusiveStep, DialsStep DEF DataShapes

(* The control state of the master's threads and of the slave, its counters *)
(* and registers keep their types, and at most one thread holds the lock.   *)
THEOREM DataTypeCorrect == Spec => []TypeOK
<1>1. Init => DataShapes
  BY DataInit
<1>2. DataShapes /\ [Next]_vars => DataShapes'
  BY DataShapesStep
<1>3. DataShapes => TypeOK
  BY ShapesOK
<1> QED
  BY <1>1, <1>2, <1>3, PTL DEF Spec

-----------------------------------------------------------------------------
(* One connection is served at a time, the older ones are closed by then,  *)
(* and what is queued is queued on the connection that is served.           *)
OneServed ==
    /\ \A n \in Conns : toServer[n] # <<>> => sst[n] = "serving"
    /\ \A n \in Conns : n > ndials => sst[n] = "none"
    /\ \A n, m \in Conns : n < m /\ sst[m] = "serving" => sst[n] = "closed"

LEMMA QuietQueues ==
    ASSUME OneServed, UNCHANGED <<sst, ndials>>,
           \A n \in Conns : toServer'[n] # <<>> => toServer[n] # <<>> \/ sst[n] = "serving"
    PROVE  OneServed'
BY DEF OneServed

LEMMA OneServedStep == DataShapes /\ OneServed /\ [Next]_vars => OneServed'
<1> SUFFICES ASSUME DataShapes, OneServed, [Next]_vars PROVE OneServed'
  OBVIOUS
<1> USE DEF DataShapes, MasterShapes, LinkShapes, Dials
<1>1. ASSUME NEW t \in Threads, Call(t) PROVE OneServed'
  BY <1>1, QuietQueues DEF Call, ends, wires
<1>2. ASSUME NEW t \in Threads, Transact(t) PROVE OneServed'
  <2>1. CASE Connect(t)
    <3>1. UNCHANGED <<sst, toServer>> /\ ndials' \in Nat /\ ndials' >= ndials
      BY <2>1 DEF Connect, wires
    <3> QED
      BY <3>1 DEF OneServed, Conns, Calls
  <2>2. CASE Write(t)
    <3>1. UNCHANGED <<sst, ndials>>
      BY <2>2 DEF Write, ends, counts
    <3>2. \A n \in Conns : toServer'[n] # toServer[n] => sst[n] = "serving"
      BY <2>2 DEF Write
    <3> QED
      BY <3>1, <3>2, QuietQueues
  <2>3. CASE Acquire(t) \/ Dialed(t) \/ Adopt(t) \/ Encrypt(t) \/ Reread(t) \/ Receive(t)
               \/ ReceiveFails(t) \/ Fail(t)
    BY <2>3, QuietQueues
       DEF Acquire, Dialed, Adopt, Encrypt, Reread, Receive, ReceiveFails, Fail, ends, wires, counts
  <2> QED
    BY <1>2, <2>1, <2>2, <2>3 DEF Transact
<1>3. ASSUME NEW t \in Threads, Timeout(t) PROVE OneServed'
  BY <1>3, QuietQueues DEF Timeout, ends, wires, counts
<1>4. ASSUME NEW n \in Conns, Collect(n) PROVE OneServed'
  BY <1>4, QuietQueues DEF Collect, counts
<1>5. ASSUME NEW n \in Conns, LineNoise(n) PROVE OneServed'
  BY <1>5, QuietQueues DEF LineNoise, ends, counts
<1>6. CASE Stop \/ RestartSlave
  BY <1>6, QuietQueues DEF Stop, RestartSlave, ends, counts, wires
<1>7. ASSUME NEW n \in Conns, CloseServer(n), UNCHANGED ndials, sst[n] = "serving" PROVE OneServed'
  BY <1>7 DEF CloseServer, OneServed
<1>8. ASSUME SlaveEnds, UNCHANGED ndials PROVE OneServed'
  <2>1. \A n \in Conns : n <= ndials \/ n > ndials
    BY DEF Conns, Calls
  <2>2. \A n \in Conns : toServer'[n] = <<>> /\ sst'[n] # "serving"
    BY <1>8, <2>1 DEF SlaveEnds, OneServed
  <2>3. \A n \in Conns : n > ndials => sst'[n] = "none"
    <3>1. \A n \in Conns : n > ndials => ~(n <= ndials)
      BY DEF Conns, Calls
    <3> QED
      BY <1>8, <3>1 DEF SlaveEnds, OneServed
  <2> QED
    BY <1>8, <2>2, <2>3 DEF OneServed
<1>9. CASE SlaveStep
  <2>1. CASE Accept
    <3> PICK n \in Backlog :
          /\ \A i \in Backlog : n <= i
          /\ sst' = [sst EXCEPT ![n] = IF cst[n] = "open" THEN "serving" ELSE "closed"]
      BY <2>1 DEF Accept
    <3>1. n \in Conns /\ n <= ndials /\ sst[n] = "none"
      BY DEF Backlog
    <3>2. \A m \in Conns : sst[m] # "serving"
      BY <2>1 DEF Accept, Serving
    <3>3. \A m \in Conns : m < n => sst[m] = "closed"
      <4> SUFFICES ASSUME NEW m \in Conns, m < n PROVE sst[m] = "closed"
        OBVIOUS
      <4>1. m <= ndials /\ ~(n <= m)
        BY <3>1 DEF Conns, Calls
      <4>2. m \notin Backlog
        BY <4>1
      <4> QED
        BY <3>2, <4>1, <4>2 DEF Backlog
    <3>4. UNCHANGED <<toServer, ndials>>
      BY <2>1 DEF Accept, wires, counts
    <3> QED
      BY <3>1, <3>2, <3>3, <3>4 DEF OneServed, Conns, Calls
  <2>2. ASSUME NEW n \in Conns, Serve(n) PROVE OneServed'
    BY <2>2, QuietQueues DEF Serve, ends, counts
  <2>3. ASSUME NEW n \in Conns, Reject(n) \/ EndOfStream(n) PROVE OneServed'
    BY <1>7, <2>3 DEF Reject, EndOfStream, counts
  <2>4. ASSUME NEW n \in Conns, RunOut(n) PROVE OneServed'
    BY <1>8, <2>4 DEF RunOut, counts
  <2> QED
    BY <1>9, <2>1, <2>2, <2>3, <2>4 DEF SlaveStep
<1>10. CASE CrashSlave
  BY <1>8, <1>10 DEF CrashSlave, counts
<1>11. CASE UNCHANGED vars
  BY <1>11, QuietQueues DEF vars, ends, counts, wires
<1> QED
  BY <1>1, <1>2, <1>3, <1>4, <1>5, <1>6, <1>9, <1>10, <1>11 DEF Next

(* No request of a connection the master gave up is executed after one of a *)
(* newer connection (slave_server.py:75, one connection after the other).   *)
THEOREM OldRequestsExecuteFirst == Spec => []OldRequestsFirst
<1>1. Init => DataShapes /\ OneServed
  BY DataInit DEF Init, OneServed
<1>2. DataShapes /\ OneServed /\ [Next]_vars => DataShapes' /\ OneServed'
  BY DataShapesStep, OneServedStep
<1>3. OneServed => OldRequestsFirst
  BY DEF OneServed, OldRequestsFirst
<1> QED
  BY <1>1, <1>2, <1>3, PTL DEF Spec

-----------------------------------------------------------------------------
(* The content counters number the frames: a frame of the master is behind  *)
(* its counter, or it is the one a thread has encrypted and not yet counted. *)
Numbered ==
    /\ NonceNeverReused
    /\ \A f \in sealed : f.dir = 0 =>
          \/ f.ctr < ctx[f.key]
          \/ \E t \in Threads : tpc[t] = "write" /\ tconn[t] = f.key /\ f.ctr = ctx[f.key]
    /\ \A f \in sealed : f.dir = 1 => f.ctr < stx[f.key]

LEMMA SealedShapes ==
    ASSUME DataShapes, NEW f \in sealed
    PROVE  f.key \in Conns /\ f.dir \in {0, 1} /\ f.ctr \in Nat
BY DEF DataShapes, LinkShapes, Requests, Replies

LEMMA NumberedStep == DataShapes /\ Numbered /\ [Next]_vars => Numbered'
<1> SUFFICES ASSUME DataShapes, Numbered, [Next]_vars PROVE Numbered'
  OBVIOUS
<1> USE DEF DataShapes
<1>1. ASSUME UNCHANGED <<ctx, stx, sealed>>,
             \A t \in Threads : tpc[t] = "write" => tpc'[t] = "write" /\ tconn'[t] = tconn[t]
      PROVE  Numbered'
  BY <1>1 DEF Numbered, NonceNeverReused
<1>2. ASSUME NEW t \in Threads, NEW pc, Goto(t, pc), tpc[t] # "write",
             \A u \in Threads : u # t => tconn'[u] = tconn[u]
      PROVE  \A u \in Threads : tpc[u] = "write" => tpc'[u] = "write" /\ tconn'[u] = tconn[u]
  BY <1>2 DEF Goto, ThreadShapes
<1>3. ASSUME NEW t \in Threads, Transact(t) PROVE Numbered'
  <2> USE DEF counters, MasterShapes, Local
  <2>1. CASE Acquire(t) \/ Connect(t) \/ Dialed(t) \/ Adopt(t) \/ Reread(t)
    BY <1>1, <1>2, <2>1 DEF Acquire, Connect, Dialed, Adopt, Reread
  <2>2. CASE Receive(t) \/ ReceiveFails(t) \/ Fail(t)
    BY <1>1, <1>2, <2>2 DEF Receive, ReceiveFails, Fail
  <2>3. CASE Encrypt(t)
    <3>1. UNCHANGED <<ctx, stx>>
      BY <2>3 DEF Encrypt
    <3>2. CASE session = 0 \/ Exhausted(ctx[session])
      BY <1>1, <1>2, <2>3, <3>2 DEF Encrypt
    <3>3. CASE ~(session = 0 \/ Exhausted(ctx[session]))
      <4> DEFINE g == Request(t, session)
      <4>1. /\ sealed' = sealed \cup {g} /\ Local(t, session) /\ Goto(t, "write")
            /\ session \in Conns
        BY <2>3, <3>3 DEF Encrypt
      <4>2. g.key = session /\ g.dir = 0 /\ g.ctr = ctx[session]
        BY DEF Request, Frame
      <4>3. \A u \in Threads : tpc[u] # "write"
        BY <2>3 DEF Encrypt, Exclusive, Inside
      <4>4. \A f \in sealed : f.dir = 0 => f.ctr < ctx[f.key]
        BY <4>3 DEF Numbered
      <4>5. ctx[session] \in Nat
        BY <4>1 DEF LinkShapes
      <4>6. \A f \in sealed : f.key = g.key /\ f.dir = g.dir => f.ctr # g.ctr
        BY <4>2, <4>4, <4>5, SealedShapes
      <4>7. NonceNeverReused'
        BY <4>1, <4>6 DEF Numbered, NonceNeverReused
      <4>8. tpc'[t] = "write" /\ tconn'[t] = session
        BY <4>1 DEF Goto, ThreadShapes
      <4>9. \A f \in sealed' : f.dir = 0 =>
              \/ f.ctr < ctx[f.key]
              \/ \E u \in Threads : tpc'[u] = "write" /\ tconn'[u] = f.key /\ f.ctr = ctx[f.key]
        BY <4>1, <4>2, <4>4, <4>8
      <4>10. \A f \in sealed' : f.dir = 1 => f.ctr < stx[f.key]
        BY <4>1, <4>2 DEF Numbered
      <4> QED
        BY <3>1, <4>7, <4>9, <4>10 DEF Numbered
    <3> QED
      BY <3>2, <3>3
  <2>4. CASE Write(t)
    <3> DEFINE n == tconn[t]
    <3>1. n \in Conns /\ tpc[t] = "write"
      BY <2>4 DEF Write, Exchanging
    <3>2. /\ UNCHANGED <<stx, sealed, tconn>>
          /\ ctx' = [ctx EXCEPT ![n] = ctx[n] + 1]
      BY <2>4 DEF Write, Stepped
    <3>3. \A u \in Threads : tpc[u] = "write" => u = t
      BY <3>1 DEF Exclusive, Inside
    <3>4. \A f \in sealed : f.dir = 0 => f.ctr < ctx'[f.key]
      <4> SUFFICES ASSUME NEW f \in sealed, f.dir = 0 PROVE f.ctr < ctx'[f.key]
        OBVIOUS
      <4>1. f.key \in Conns /\ f.ctr \in Nat /\ ctx[f.key] \in Nat
        BY SealedShapes DEF LinkShapes
      <4>2. ctx[f.key] <= ctx'[f.key]
        BY <3>2, <4>1 DEF LinkShapes
      <4>3. CASE f.ctr < ctx[f.key]
        BY <3>1, <3>2, <4>1, <4>2, <4>3 DEF LinkShapes
      <4>4. CASE f.key = n /\ f.ctr = ctx[f.key]
        BY <3>1, <3>2, <4>1, <4>4 DEF LinkShapes
      <4> QED
        BY <3>3, <4>3, <4>4 DEF Numbered
    <3> QED
      BY <3>2, <3>4 DEF Numbered, NonceNeverReused
  <2> QED
    BY <1>3, <2>1, <2>2, <2>3, <2>4 DEF Transact
<1>4. ASSUME NEW t \in Threads, Call(t) \/ Timeout(t) PROVE Numbered'
  <2>1. UNCHANGED <<ctx, stx, sealed, tconn>>
    BY <1>4 DEF Call, Timeout, counters
  <2> QED
    BY <1>1, <1>4, <2>1 DEF Call, Timeout, Goto, ThreadShapes
<1>5. ASSUME NEW n \in Conns, Collect(n) \/ LineNoise(n) PROVE Numbered'
  BY <1>1, <1>5 DEF Collect, LineNoise, threads, counters
<1>6. CASE Stop \/ RestartSlave \/ CrashSlave \/ UNCHANGED vars
  BY <1>1, <1>6 DEF Stop, RestartSlave, CrashSlave, vars, threads, counters
<1>7. CASE SlaveStep
  <2>1. CASE Accept
    BY <1>1, <2>1 DEF Accept, threads, counters
  <2>2. ASSUME NEW n \in Conns, Reject(n) \/ RunOut(n) \/ EndOfStream(n) PROVE Numbered'
    BY <1>1, <2>2 DEF Reject, RunOut, EndOfStream, threads, counters
  <2>3. ASSUME NEW n \in Conns, Serve(n) PROVE Numbered'
    <3>1. PICK g : g.key = n /\ g.dir = 1 /\ g.ctr = stx[n] /\ sealed' = sealed \cup {g}
      BY <2>3 DEF Serve, Frame
    <3>2. UNCHANGED <<tpc, tconn, ctx>> /\ stx' = [stx EXCEPT ![n] = stx[n] + 1]
      BY <2>3 DEF Serve, threads, Stepped
    <3>3. stx[n] \in Nat
      BY DEF LinkShapes
    <3>4. \A f \in sealed : f.key = g.key /\ f.dir = g.dir => f.ctr # g.ctr
      BY <3>1, <3>3, SealedShapes DEF Numbered
    <3>5. NonceNeverReused'
      BY <3>1, <3>4 DEF Numbered, NonceNeverReused
    <3>6. \A f \in sealed' : f.dir = 0 =>
              \/ f.ctr < ctx[f.key]
              \/ \E u \in Threads : tpc[u] = "write" /\ tconn[u] = f.key /\ f.ctr = ctx[f.key]
      BY <3>1 DEF Numbered
    <3>7. \A f \in sealed' : f.dir = 1 => f.ctr < stx'[f.key]
      <4> SUFFICES ASSUME NEW f \in sealed', f.dir = 1 PROVE f.ctr < stx'[f.key]
        OBVIOUS
      <4>1. CASE f = g
        BY <3>1, <3>2, <3>3, <4>1 DEF LinkShapes
      <4>2. CASE f \in sealed
        <5>1. f.key \in Conns /\ f.ctr \in Nat /\ f.ctr < stx[f.key] /\ stx[f.key] \in Nat
          BY <4>2, SealedShapes DEF Numbered, LinkShapes
        <5> QED
          BY <3>2, <3>3, <5>1 DEF LinkShapes
      <4> QED
        BY <3>1, <4>1, <4>2
    <3> QED
      BY <3>2, <3>5, <3>6, <3>7 DEF Numbered
  <2> QED
    BY <1>7, <2>1, <2>2, <2>3 DEF SlaveStep
<1> QED
  BY <1>3, <1>4, <1>5, <1>6, <1>7 DEF Next

(* Frames under one content key never share a nonce (crypto.py:209), with   *)
(* any number of handler threads and any faults: the threads take turns on  *)
(* the lock from the encryption to the step of the counter.                 *)
THEOREM NoncesNeverReused == Spec => []NonceNeverReused
<1>1. Init => DataShapes /\ Numbered
  BY DataInit DEF Init, Numbered, NonceNeverReused
<1>2. DataShapes /\ Numbered /\ [Next]_vars => DataShapes' /\ Numbered'
  BY DataShapesStep, NumberedStep
<1>3. Numbered => NonceNeverReused
  BY DEF Numbered
<1> QED
  BY <1>1, <1>2, <1>3, PTL DEF Spec

-----------------------------------------------------------------------------
(* Lengths of queues *)
LEMMA QueueLengths ==
    ASSUME NEW S, NEW queue \in Seq(S), NEW frame \in S
    PROVE  /\ Len(queue) \in Nat
           /\ Len(queue) = 0 <=> queue = <<>>
           /\ Len(Append(queue, frame)) = Len(queue) + 1
           /\ queue # <<>> => Len(Tail(queue)) = Len(queue) - 1
           /\ queue = <<>> => Append(queue, frame) = <<frame>>
<1>1. Len(queue) \in Nat /\ (Len(queue) = 0 <=> queue = <<>>)
  OBVIOUS
<1>2. Len(Append(queue, frame)) = Len(queue) + 1
  OBVIOUS
<1>3. queue # <<>> => Len(Tail(queue)) = Len(queue) - 1
  OBVIOUS
<1>4. Append(<<>>, frame) = <<frame>>
  OBVIOUS
<1> QED
  BY <1>1, <1>2, <1>3, <1>4

LEMMA CalmQueue ==
    ASSUME "duplicate" \notin Faults, NEW S, NEW queue \in Seq(S), queue # <<>>,
           NEW kind \in {"garble", "lose", "duplicate"}, Fault(kind)
    PROVE  /\ Len(Disturbed(queue)[kind]) <= Len(queue)
           /\ Len(queue) <= 1 => Disturbed(queue)[kind] \in {<<>>, <<Garbled>>}
<1>1. kind \in {"garble", "lose"}
  BY DEF Fault
<1>2. /\ Disturbed(queue)["garble"] = <<Garbled>> \o Tail(queue)
      /\ Disturbed(queue)["lose"] = Tail(queue)
  BY DEF Disturbed
<1>3. Tail(queue) \in Seq(S) /\ Len(Tail(queue)) = Len(queue) - 1 /\ Len(queue) \in Nat
  OBVIOUS
<1>4. Len(<<Garbled>> \o Tail(queue)) = Len(queue)
  <2>1. <<Garbled>> \in Seq(S \cup {Garbled}) /\ Tail(queue) \in Seq(S \cup {Garbled})
    BY <1>3
  <2>2. Len(<<Garbled>>) = 1
    OBVIOUS
  <2> QED
    BY <1>3, <2>1, <2>2
<1>5. Len(queue) <= 1 => Tail(queue) = <<>>
  BY <1>3
<1>6. <<Garbled>> \o <<>> = <<Garbled>>
  OBVIOUS
<1> QED
  BY <1>1, <1>2, <1>3, <1>4, <1>5, <1>6

-----------------------------------------------------------------------------
(* The slave's counter stays behind the master's, which stops at its limit *)
Counted ==
    /\ \A n \in Conns : 1 <= ctx[n] /\ ctx[n] <= CounterLimit + 1 /\ 1 <= stx[n]
    /\ \A t \in Threads : tpc[t] = "write" => ctx[tconn[t]] <= CounterLimit
    /\ \A n \in Conns : stx[n] + Len(toServer[n]) <= ctx[n]

LEMMA CountedStep ==
    ASSUME "duplicate" \notin Faults
    PROVE  DataShapes /\ Counted /\ [Next]_vars => Counted'
<1> SUFFICES ASSUME DataShapes, Counted, [Next]_vars PROVE Counted'
  OBVIOUS
<1> USE DEF DataShapes
<1>0. /\ \A n \in Conns : ctx[n] \in Nat /\ stx[n] \in Nat /\ Len(toServer[n]) \in Nat
      /\ CounterLimit \in Nat
  BY DataAssumption DEF LinkShapes
<1>1. ASSUME UNCHANGED <<ctx, stx>>,
             \A n \in Conns : Len(toServer'[n]) \in Nat /\ Len(toServer'[n]) <= Len(toServer[n]),
             \A t \in Threads : tpc'[t] = "write" => tpc[t] = "write" /\ tconn'[t] = tconn[t]
      PROVE  Counted'
  BY <1>0, <1>1 DEF Counted
<1>2. ASSUME NEW t \in Threads, NEW pc, Goto(t, pc), pc # "write",
             \A u \in Threads : u # t => tconn'[u] = tconn[u]
      PROVE  \A u \in Threads : tpc'[u] = "write" => tpc[u] = "write" /\ tconn'[u] = tconn[u]
  BY <1>2 DEF Goto, ThreadShapes
<1>3. UNCHANGED toServer =>
        \A n \in Conns : Len(toServer'[n]) \in Nat /\ Len(toServer'[n]) <= Len(toServer[n])
  BY <1>0
<1>4. Len(<<>>) = 0
  OBVIOUS
<1>5. ASSUME NEW t \in Threads, Transact(t) PROVE Counted'
  <2> USE DEF counters, wires, MasterShapes, Local
  <2>1. CASE Acquire(t) \/ Connect(t) \/ Dialed(t) \/ Adopt(t) \/ Reread(t)
    BY <1>1, <1>2, <1>3, <2>1 DEF Acquire, Connect, Dialed, Adopt, Reread
  <2>2. CASE Receive(t) \/ ReceiveFails(t) \/ Fail(t)
    BY <1>1, <1>2, <1>3, <2>2 DEF Receive, ReceiveFails, Fail
  <2>3. CASE Encrypt(t)
    <3>1. UNCHANGED <<ctx, stx, toServer>>
      BY <2>3 DEF Encrypt
    <3>2. CASE session = 0 \/ Exhausted(ctx[session])
      BY <1>1, <1>2, <1>3, <2>3, <3>2 DEF Encrypt
    <3>3. CASE ~(session = 0 \/ Exhausted(ctx[session]))
      <4>1. tconn' = [tconn EXCEPT ![t] = session] /\ Goto(t, "write") /\ session \in Conns
        BY <2>3, <3>3 DEF Encrypt
      <4>2. ctx[session] <= CounterLimit
        BY <1>0, <3>3, <4>1 DEF Exhausted
      <4>3. \A u \in Threads : tpc'[u] = "write" => ctx[tconn'[u]] <= CounterLimit
        BY <4>1, <4>2 DEF Goto, ThreadShapes, Counted
      <4> QED
        BY <3>1, <4>3 DEF Counted
    <3> QED
      BY <3>2, <3>3
  <2>4. CASE Write(t)
    <3> DEFINE n == tconn[t]
    <3>1. n \in Conns /\ tpc[t] = "write" /\ ctx[n] <= CounterLimit
      BY <2>4 DEF Write, Exchanging, Counted
    <3>2. UNCHANGED <<stx, tconn>> /\ ctx' = [ctx EXCEPT ![n] = ctx[n] + 1]
      BY <2>4 DEF Write, Stepped
    <3>3. \A u \in Threads : tpc'[u] # "write"
      BY <2>4, <3>1 DEF Write, Goto, ThreadShapes, Exclusive, Inside
    <3>4. \A m \in Conns :
            Len(toServer'[m]) <= IF m = n THEN Len(toServer[m]) + 1 ELSE Len(toServer[m])
      <4>1. CASE UNCHANGED toServer
        BY <1>0, <4>1
      <4>2. CASE toServer' = [toServer EXCEPT ![n] = Append(@, Request(t, n))]
        <5>1. Len(Append(toServer[n], Request(t, n))) = Len(toServer[n]) + 1
          BY <3>1 DEF LinkShapes
        <5> QED
          BY <1>0, <3>1, <4>2, <5>1 DEF LinkShapes
      <4> QED
        BY <2>4, <4>1, <4>2 DEF Write
    <3>5. \A m \in Conns : Len(toServer'[m]) \in Nat
      <4>1. toServer' \in [Conns -> Seq(Requests \cup {Garbled})]
        BY LinkShapesStep DEF LinkShapes
      <4> QED
        BY <4>1
    <3>6. \A m \in Conns : stx[m] + Len(toServer'[m]) <= ctx'[m]
      <4> SUFFICES ASSUME NEW m \in Conns PROVE stx[m] + Len(toServer'[m]) <= ctx'[m]
        OBVIOUS
      <4>1. stx[m] \in Nat /\ ctx[m] \in Nat /\ Len(toServer[m]) \in Nat /\ Len(toServer'[m]) \in Nat
        BY <1>0, <3>5 DEF LinkShapes
      <4>2. stx[m] + Len(toServer[m]) <= ctx[m]
        BY DEF Counted
      <4>3. CASE m = n
        <5>1. ctx'[m] = ctx[m] + 1
          BY <3>1, <3>2, <4>3 DEF LinkShapes
        <5>2. Len(toServer'[m]) <= Len(toServer[m]) + 1
          BY <3>4, <4>3
        <5> QED
          BY <4>1, <4>2, <5>1, <5>2
      <4>4. CASE m # n
        <5>1. ctx'[m] = ctx[m]
          BY <3>1, <3>2, <4>4 DEF LinkShapes
        <5>2. Len(toServer'[m]) <= Len(toServer[m])
          BY <3>4, <4>4
        <5> QED
          BY <4>1, <4>2, <5>1, <5>2
      <4> QED
        BY <4>3, <4>4
    <3>7. \A m \in Conns : 1 <= ctx'[m] /\ ctx'[m] <= CounterLimit + 1 /\ 1 <= stx[m]
      BY <1>0, <3>1, <3>2 DEF Counted, LinkShapes
    <3> QED
      BY <3>2, <3>3, <3>6, <3>7 DEF Counted
  <2> QED
    BY <1>5, <2>1, <2>2, <2>3, <2>4 DEF Transact
<1>6. ASSUME NEW t \in Threads, Call(t) \/ Timeout(t) PROVE Counted'
  <2>1. UNCHANGED <<ctx, stx, toServer, tconn>>
    BY <1>6 DEF Call, Timeout, counters, wires
  <2> QED
    BY <1>1, <1>3, <1>6, <2>1 DEF Call, Timeout, Goto, ThreadShapes
<1>7. ASSUME NEW n \in Conns, Collect(n) PROVE Counted'
  BY <1>1, <1>3, <1>7 DEF Collect, threads, counters
<1>8. ASSUME NEW n \in Conns, LineNoise(n) PROVE Counted'
  <2>1. UNCHANGED <<ctx, stx, tpc, tconn>>
    BY <1>8 DEF LineNoise, counters, threads
  <2>2. toServer' \in [Conns -> Seq(Requests \cup {Garbled})]
    BY LinkShapesStep DEF LinkShapes
  <2>3. \A m \in Conns : Len(toServer'[m]) <= Len(toServer[m])
    <3>1. CASE UNCHANGED toServer
      BY <1>0, <3>1
    <3>2. ASSUME NEW kind \in {"garble", "lose", "duplicate"}, Fault(kind), toServer[n] # <<>>,
                 toServer' = [toServer EXCEPT ![n] = Disturbed(@)[kind]]
          PROVE  \A m \in Conns : Len(toServer'[m]) <= Len(toServer[m])
      <4>1. Len(Disturbed(toServer[n])[kind]) <= Len(toServer[n])
        BY <3>2, CalmQueue DEF LinkShapes
      <4> QED
        BY <1>0, <3>2, <4>1 DEF LinkShapes
    <3> QED
      BY <1>8, <3>1, <3>2 DEF LineNoise
  <2> QED
    BY <1>1, <2>1, <2>2, <2>3
<1>9. CASE Stop \/ RestartSlave \/ UNCHANGED vars
  BY <1>1, <1>3, <1>9 DEF Stop, RestartSlave, vars, threads, counters, wires
<1>10. ASSUME SlaveEnds, UNCHANGED <<ctx, stx, tpc, tconn>> PROVE Counted'
  BY <1>0, <1>1, <1>4, <1>10 DEF SlaveEnds
<1>11. CASE CrashSlave
  BY <1>10, <1>11 DEF CrashSlave, threads, counters
<1>12. CASE SlaveStep
  <2>1. CASE Accept
    BY <1>1, <1>3, <2>1 DEF Accept, threads, counters, wires
  <2>2. ASSUME NEW n \in Conns, RunOut(n) PROVE Counted'
    BY <1>10, <2>2 DEF RunOut, threads, counters
  <2>3. ASSUME NEW n \in Conns, Reject(n) \/ EndOfStream(n) PROVE Counted'
    <3>1. toServer' = [toServer EXCEPT ![n] = <<>>]
      BY <2>3 DEF Reject, EndOfStream, CloseServer
    <3>2. \A m \in Conns : Len(toServer'[m]) \in Nat /\ Len(toServer'[m]) <= Len(toServer[m])
      BY <1>0, <1>4, <3>1 DEF LinkShapes
    <3> QED
      BY <1>1, <2>3, <3>2 DEF Reject, EndOfStream, threads, counters
  <2>4. ASSUME NEW n \in Conns, Serve(n) PROVE Counted'
    <3>1. /\ UNCHANGED <<ctx, tpc, tconn>> /\ stx' = [stx EXCEPT ![n] = stx[n] + 1]
          /\ toServer' = [toServer EXCEPT ![n] = Tail(toServer[n])] /\ toServer[n] # <<>>
      BY <2>4 DEF Serve, Executes, threads, Stepped
    <3>2. Len(Tail(toServer[n])) = Len(toServer[n]) - 1
      BY <3>1 DEF LinkShapes
    <3>3. \A m \in Conns : stx'[m] + Len(toServer'[m]) = stx[m] + Len(toServer[m])
      BY <1>0, <3>1, <3>2 DEF LinkShapes
    <3>4. \A m \in Conns : 1 <= stx'[m]
      BY <1>0, <3>1 DEF Counted, LinkShapes
    <3> QED
      BY <3>1, <3>3, <3>4 DEF Counted
  <2> QED
    BY <1>12, <2>1, <2>2, <2>3, <2>4 DEF SlaveStep
<1> QED
  BY <1>5, <1>6, <1>7, <1>8, <1>9, <1>11, <1>12 DEF Next

LEMMA OnlyFaultsEndTheSlave ==
    ASSUME DataShapes, Counted, [Next]_vars, up, ~up'
    PROVE  faults' > faults
<1> USE DEF DataShapes
<1>1. ASSUME NEW n \in Conns, RunOut(n) PROVE FALSE
  <2>1. toServer[n] # <<>> /\ stx[n] > CounterLimit
    BY <1>1 DEF RunOut, Executes, Exhausted
  <2>2. Len(toServer[n]) >= 1 /\ Len(toServer[n]) \in Nat
    BY <2>1 DEF LinkShapes
  <2>3. stx[n] + Len(toServer[n]) <= ctx[n] /\ ctx[n] <= CounterLimit + 1
    BY DEF Counted
  <2> QED
    BY <2>1, <2>2, <2>3, DataAssumption DEF LinkShapes
<1>2. CASE CrashSlave
  BY <1>2 DEF CrashSlave, Fault, LinkShapes
<1>3. ASSUME NEW t \in Threads, Call(t) \/ Transact(t) \/ Timeout(t) PROVE UNCHANGED up
  BY <1>3 DEF Call, Transact, Timeout, slave
<1>4. ASSUME NEW n \in Conns,
             Collect(n) \/ LineNoise(n) \/ Serve(n) \/ Reject(n) \/ EndOfStream(n)
      PROVE  UNCHANGED up
  BY <1>4 DEF Collect, LineNoise, Serve, Reject, EndOfStream, slave
<1>5. CASE Stop \/ Accept \/ UNCHANGED vars
  BY <1>5 DEF Stop, Accept, vars, slave
<1>6. CASE RestartSlave
  BY <1>6 DEF RestartSlave
<1> QED
  BY <1>1, <1>2, <1>3, <1>4, <1>5, <1>6 DEF Next, SlaveStep

LEMMA CountedInit == Init => Counted
<1> SUFFICES ASSUME Init PROVE Counted
  OBVIOUS
<1>1. Len(<<>>) = 0
  OBVIOUS
<1>2. \A n \in Conns : ctx[n] = 1 /\ stx[n] = 1 /\ toServer[n] = <<>>
  BY DEF Init, FirstCounter
<1>3. \A t \in Threads : tpc[t] # "write"
  BY DEF Init
<1> QED
  BY <1>1, <1>2, <1>3, DataAssumption DEF Counted

(* Only a fault ends the slave: its content counter (crypto.py:209) never    *)
(* runs out, because a frame that reaches it has stepped the master's.       *)
THEOREM SlaveOutlasts ==
    ASSUME "duplicate" \notin Faults
    PROVE  Spec => SlaveOutlastsCounter
<1>1. Init => DataShapes /\ Counted
  BY DataInit, CountedInit
<1>2. DataShapes /\ Counted /\ [Next]_vars => DataShapes' /\ Counted'
  BY DataShapesStep, CountedStep
<1>3. DataShapes /\ Counted /\ [Next]_vars => [up /\ ~up' => faults' > faults]_vars
  BY OnlyFaultsEndTheSlave
<1> QED
  BY <1>1, <1>2, <1>3, PTL DEF Spec, SlaveOutlastsCounter

-----------------------------------------------------------------------------
(* What a call can find in the attributes that stop_master clears *)
Attributes ==
    /\ \A t \in Threads :
         /\ tpc[t] = "dial" => sock = 0
         /\ tpc[t] = "adopt" => sock \in {0, tconn[t]}
         /\ tpc[t] \in Exchanging => sock \in {0, tconn[t]} /\ session \in {0, tconn[t]}
    /\ (\A t \in Threads : tpc[t] # "adopt") => sock = 0 \/ session = 0 \/ sock = session

LEMMA ConnectGoes ==
    ASSUME NEW t \in Threads, Connect(t)
    PROVE  Goto(t, "send") \/ Goto(t, "fail") \/ (sock = 0 /\ Goto(t, "dial"))
BY DEF Connect

LEMMA AttributesStep == DataShapes /\ Attributes /\ [Next]_vars => Attributes'
<1> SUFFICES ASSUME DataShapes, Attributes, [Next]_vars PROVE Attributes'
  OBVIOUS
<1> USE DEF DataShapes, Dialing, Exchanging
<1>1. ASSUME UNCHANGED <<tpc, tconn>>, UNCHANGED sock \/ sock' = 0,
             UNCHANGED session \/ session' = 0
      PROVE  Attributes'
  BY <1>1 DEF Attributes
<1>2. ASSUME NEW t \in Threads, Transact(t) PROVE Attributes'
  <2> USE DEF MasterShapes, ThreadShapes, Local, Goto, master
  <2>0. ASSUME Inside(t), NEW u \in Threads, Inside(u) PROVE u = t
    BY <2>0 DEF Exclusive
  <2>1. CASE Acquire(t)
    BY <2>1 DEF Acquire, Attributes
  <2>2. CASE Connect(t)
    <3>1. tpc[t] = "connect" /\ UNCHANGED <<sock, session>>
      BY <2>2 DEF Connect
    <3>2. sock = 0 \/ session = 0 \/ sock = session
      BY <2>0, <3>1 DEF Inside, Attributes
    <3>3. tpc' = [tpc EXCEPT ![t] = "send"] \/ tpc' = [tpc EXCEPT ![t] = "fail"]
            \/ (sock = 0 /\ tpc' = [tpc EXCEPT ![t] = "dial"])
      BY <2>2, ConnectGoes
    <3>4. \A u \in Threads : u # t => ~Inside(u) /\ tpc'[u] = tpc[u]
      BY <2>0, <3>1, <3>3 DEF Inside
    <3> QED
      BY <3>1, <3>2, <3>3, <3>4, ZenonT(60) DEF Attributes, Inside
  <2>3. CASE Dialed(t)
    <3>1. tpc[t] = "dial" /\ UNCHANGED <<session, tconn>>
      BY <2>3 DEF Dialed
    <3>2. (sock' = tconn[t] /\ tpc' = [tpc EXCEPT ![t] = "adopt"])
            \/ (UNCHANGED sock /\ tpc' = [tpc EXCEPT ![t] = "fail"])
      BY <2>3 DEF Dialed
    <3>3. sock = 0
      BY <3>1 DEF Attributes
    <3>4. \A u \in Threads : u # t => ~Inside(u) /\ tpc'[u] = tpc[u]
      BY <2>0, <3>1, <3>2 DEF Inside
    <3>5. tpc'[t] \in {"adopt", "fail"} /\ (tpc'[t] = "adopt" => sock' = tconn[t])
      BY <3>2
    <3>6. tpc'[t] # "adopt" => sock' = 0
      BY <3>2, <3>3
    <3> QED
      BY <3>1, <3>4, <3>5, <3>6 DEF Attributes, Inside
  <2>4. CASE Adopt(t)
    BY <2>0, <2>4 DEF Adopt, Attributes, Inside
  <2>5. CASE Encrypt(t)
    <3>1. tpc[t] = "send" /\ UNCHANGED <<sock, session>>
      BY <2>5 DEF Encrypt
    <3>2. sock = 0 \/ session = 0 \/ sock = session
      BY <2>0, <3>1 DEF Inside, Attributes
    <3>3. \/ tpc' = [tpc EXCEPT ![t] = "fail"]
          \/ /\ tpc' = [tpc EXCEPT ![t] = "write"]
             /\ tconn' = [tconn EXCEPT ![t] = session] /\ session # 0
      BY <2>5 DEF Encrypt
    <3>4. \A u \in Threads : u # t => ~Inside(u) /\ tpc'[u] = tpc[u]
      BY <2>0, <3>1, <3>3 DEF Inside
    <3> QED
      BY <3>1, <3>2, <3>3, <3>4, ZenonT(60) DEF Attributes, Inside
  <2>6. CASE Write(t)
    BY <2>0, <2>6 DEF Write, Attributes, Inside
  <2>7. CASE Reread(t)
    BY <2>0, <2>7 DEF Reread, Attributes, Inside
  <2>8. CASE Receive(t)
    BY <2>0, <2>8 DEF Receive, Attributes, Inside
  <2>9. CASE ReceiveFails(t)
    BY <2>0, <2>9 DEF ReceiveFails, Attributes, Inside
  <2>10. CASE Fail(t)
    BY <2>0, <2>10 DEF Fail, Attributes, Inside
  <2> QED
    BY <1>2, <2>1, <2>2, <2>3, <2>4, <2>5, <2>6, <2>7, <2>8, <2>9, <2>10 DEF Transact
<1>3. ASSUME NEW t \in Threads, Call(t) PROVE Attributes'
  BY <1>3 DEF Call, ThreadShapes, master, Attributes
<1>4. ASSUME NEW t \in Threads, Timeout(t) PROVE Attributes'
  <2>1. /\ UNCHANGED <<tconn, sock, session>> /\ tpc[t] \in {"dial", "recv"}
        /\ tpc' = [tpc EXCEPT ![t] = "fail"]
    BY <1>4 DEF Timeout, master, Goto
  <2>2. \A u \in Threads : tpc[u] # "adopt"
    BY <2>1 DEF Exclusive, Inside
  <2> QED
    BY <2>1, <2>2 DEF Attributes, ThreadShapes
<1>5. ASSUME NEW n \in Conns, Collect(n) \/ LineNoise(n) PROVE Attributes'
  BY <1>1, <1>5 DEF Collect, LineNoise, threads, master
<1>6. CASE Stop
  BY <1>1, <1>6 DEF Stop, threads
<1>7. CASE RestartSlave \/ CrashSlave \/ UNCHANGED vars
  BY <1>1, <1>7 DEF RestartSlave, CrashSlave, vars, threads, master
<1>8. CASE SlaveStep
  BY <1>1, <1>8 DEF SlaveStep, Accept, Serve, Reject, RunOut, EndOfStream, threads, master
<1> QED
  BY <1>2, <1>3, <1>4, <1>5, <1>6, <1>7, <1>8 DEF Next

-----------------------------------------------------------------------------
(* A connection carries one frame at most, and none when the next request   *)
(* is to be written on it.                                                  *)
Load(n) == Len(toServer[n]) + Len(toClient[n])
Writable(n) ==
    \/ \E t \in Threads : tpc[t] \in Dialing \cup {"write"} /\ tconn[t] = n
    \/ \E t \in Threads : tpc[t] = "send" /\ session = n
    \/ sock = n /\ \A t \in Threads : tpc[t] \in {"idle", "want", "connect"}
WritableAt(pc, conn, ses, soc, n) ==
    \/ pc \in Dialing \cup {"write"} /\ conn = n
    \/ pc = "send" /\ ses = n
    \/ pc \in {"idle", "want", "connect"} /\ soc = n
Traffic ==
    /\ \A n \in Conns : Load(n) <= 1
    /\ \A n \in Conns : n > ndials => Load(n) = 0
    /\ \A n \in Conns : Writable(n) /\ cst[n] = "open" => Load(n) = 0

LEMMA Sums ==
    ASSUME NEW a \in Nat, NEW b \in Nat
    PROVE  a + b \in Nat /\ (a + b = 0 <=> (a = 0 /\ b = 0))
OBVIOUS

LEMMA SumSteps ==
    ASSUME NEW a \in Nat, NEW b \in Nat, NEW c \in Nat, NEW d \in Nat
    PROVE  /\ c = a + 1 /\ d = b => c + d = (a + b) + 1
           /\ c = a /\ d = b - 1 => c + d = (a + b) - 1
           /\ c = a /\ d = b => c + d = a + b
           /\ c <= a /\ d <= b => c + d <= a + b
           /\ c = a - 1 /\ d <= b + 1 => c + d <= a + b
OBVIOUS

LEMMA LoadShape ==
    ASSUME DataShapes, NEW n \in Conns
    PROVE  /\ Len(toServer[n]) \in Nat /\ Len(toClient[n]) \in Nat /\ Load(n) \in Nat
           /\ (Load(n) = 0 <=> (toServer[n] = <<>> /\ toClient[n] = <<>>))
<1>1. /\ toServer[n] \in Seq(Requests \cup {Garbled})
      /\ toClient[n] \in Seq(Replies \cup {Garbled})
  BY DEF DataShapes, LinkShapes
<1>2. /\ Len(toServer[n]) \in Nat /\ (Len(toServer[n]) = 0 <=> toServer[n] = <<>>)
      /\ Len(toClient[n]) \in Nat /\ (Len(toClient[n]) = 0 <=> toClient[n] = <<>>)
  BY <1>1, QueueLengths
<1> QED
  BY <1>2, Sums DEF Load

LEMMA LoadThen ==
    ASSUME DataShapes', NEW n \in Conns
    PROVE  /\ Len(toServer'[n]) \in Nat /\ Len(toClient'[n]) \in Nat /\ Load(n)' \in Nat
           /\ (Load(n)' = 0 <=> (toServer'[n] = <<>> /\ toClient'[n] = <<>>))
<1>1. /\ toServer'[n] \in Seq(Requests \cup {Garbled})
      /\ toClient'[n] \in Seq(Replies \cup {Garbled})
  BY DEF DataShapes, LinkShapes
<1>2. /\ Len(toServer'[n]) \in Nat /\ (Len(toServer'[n]) = 0 <=> toServer'[n] = <<>>)
      /\ Len(toClient'[n]) \in Nat /\ (Len(toClient'[n]) = 0 <=> toClient'[n] = <<>>)
  BY <1>1, QueueLengths
<1> QED
  BY <1>2, Sums DEF Load

LEMMA TrafficKept ==
    ASSUME DataShapes, DataShapes', Traffic, ndials <= ndials',
           \A n \in Conns : Load(n)' <= Load(n),
           \A n \in Conns : Writable(n)' /\ cst'[n] = "open" =>
                Load(n) = 0 \/ (Writable(n) /\ cst[n] = "open")
    PROVE  Traffic'
<1>1. \A n \in Conns : Load(n) \in Nat /\ Load(n)' \in Nat
  BY LoadShape, LoadThen
<1>2. \A n \in Conns : Load(n) = 0 => Load(n)' = 0
  BY <1>1
<1>3. \A n \in Conns : n > ndials' => n > ndials
  BY DEF DataShapes, Dials, Conns, Calls
<1>4. \A n \in Conns : Load(n)' <= 1
  BY <1>1 DEF Traffic
<1> QED
  BY <1>2, <1>3, <1>4 DEF Traffic

LEMMA WritableNow ==
    ASSUME DataShapes, NEW t \in Threads, Inside(t), NEW n \in Conns
    PROVE  Writable(n) <=> WritableAt(tpc[t], tconn[t], session, sock, n)
<1>1. \A u \in Threads : u # t => tpc[u] \in {"idle", "want"}
  BY DEF DataShapes, Exclusive, Inside
<1> QED
  BY <1>1 DEF Writable, WritableAt, Dialing

LEMMA WritableThen ==
    ASSUME DataShapes, NEW t \in Threads, Inside(t), NEW n \in Conns, NEW pc, Goto(t, pc)
    PROVE  Writable(n)' <=> WritableAt(pc, tconn'[t], session', sock', n)
<1>1. \A u \in Threads : u # t => tpc'[u] \in {"idle", "want"}
  BY DEF DataShapes, ThreadShapes, Exclusive, Inside, Goto
<1>2. tpc'[t] = pc
  BY DEF DataShapes, ThreadShapes, Goto
<1> QED
  BY <1>1, <1>2 DEF Writable, WritableAt, Dialing

LEMMA TrafficStep ==
    ASSUME "duplicate" \notin Faults
    PROVE  DataShapes /\ OneServed /\ Attributes /\ Traffic /\ [Next]_vars => Traffic'
<1> SUFFICES ASSUME DataShapes, OneServed, Attributes, Traffic, [Next]_vars PROVE Traffic'
  OBVIOUS
<1>0. DataShapes'
  BY DataShapesStep
<1>1. ndials \in Nat
  BY DEF DataShapes, Dials
<1>2. \A n \in Conns : Load(n) \in Nat /\ Load(n)' \in Nat
  BY <1>0, LoadShape, LoadThen
<1>3. wires' = wires => \A n \in Conns : Load(n)' <= Load(n)
  BY <1>2 DEF wires, Load
<1>4. ASSUME UNCHANGED <<tpc, tconn>>, UNCHANGED sock \/ sock' = 0,
             UNCHANGED session \/ session' = 0,
             \A n \in Conns : cst'[n] = "open" => cst[n] = "open"
      PROVE  \A n \in Conns : Writable(n)' /\ cst'[n] = "open" => Writable(n) /\ cst[n] = "open"
  <2>1. \A n \in Conns : n # 0
    BY DEF Conns, Calls
  <2> QED
    BY <1>4, <2>1 DEF Writable
<1>5. ASSUME NEW t \in Threads, Inside(t), NEW pc, Goto(t, pc),
             pc \in {"fail", "recv", "reread"} \/ (pc = "idle" /\ sock' = 0),
             \A n \in Conns : Load(n)' <= Load(n), UNCHANGED ndials
      PROVE  Traffic'
  <2>1. \A n \in Conns : ~WritableAt(pc, tconn'[t], session', sock', n)
    BY <1>5 DEF WritableAt, Dialing, Conns, Calls
  <2>2. \A n \in Conns : ~Writable(n)'
    BY <1>5, <2>1, WritableThen
  <2> QED
    BY <1>0, <1>1, <1>5, <2>2, TrafficKept
<1>6. ASSUME NEW t \in Threads, Inside(t), NEW pc, Goto(t, pc), wires' = wires, UNCHANGED <<cst, ndials>>,
             \A n \in Conns : WritableAt(pc, tconn'[t], session', sock', n)
                              => WritableAt(tpc[t], tconn[t], session, sock, n)
      PROVE  Traffic'
  <2>1. \A n \in Conns : Writable(n)' => Writable(n)
    BY <1>6, WritableNow, WritableThen
  <2> QED
    BY <1>0, <1>1, <1>3, <1>6, <2>1, TrafficKept
<1>7. ASSUME NEW t \in Threads, tpc[t] \in {"idle", "want"}, NEW pc \in {"want", "connect"}, Goto(t, pc),
             UNCHANGED <<tconn, sock, session, cst, ndials, toServer, toClient>>
      PROVE  Traffic'
  <2>1. \A u \in Threads :
          /\ tpc'[u] \in Dialing \cup {"write", "send"} => tpc[u] = tpc'[u]
          /\ tpc'[u] \in {"idle", "want", "connect"} => tpc[u] \in {"idle", "want", "connect"}
    BY <1>7 DEF Goto, DataShapes, ThreadShapes, Dialing
  <2>2. \A n \in Conns : Writable(n)' => Writable(n)
    BY <1>7, <2>1 DEF Writable
  <2>3. wires' = wires
    BY <1>7 DEF wires
  <2> QED
    BY <1>0, <1>1, <1>3, <1>7, <2>2, <2>3, TrafficKept
<1>8. ASSUME NEW t \in Threads, Transact(t) PROVE Traffic'
  <2> USE DEF master, counts, ends
  <2>1. CASE Acquire(t)
    BY <1>7, <2>1 DEF Acquire, wires
  <2>2. CASE Connect(t)
    <3>1. Inside(t) /\ wires' = wires /\ tpc[t] = "connect" /\ UNCHANGED <<sock, session>>
      BY <2>2 DEF Connect, Inside
    <3>2. CASE sock # 0
      <4>1. Goto(t, "send") /\ UNCHANGED <<tconn, ndials, cst>>
        BY <2>2, <3>2 DEF Connect
      <4>2. session = 0 \/ sock = session
        BY <3>1, <3>2 DEF Attributes, DataShapes, Exclusive, Inside
      <4>3. \A n \in Conns : WritableAt("send", tconn'[t], session', sock', n)
                             => WritableAt("connect", tconn[t], session, sock, n)
        BY <3>1, <4>2 DEF WritableAt, Dialing, Conns, Calls
      <4> QED
        BY <1>6, <3>1, <4>1, <4>3
    <3>3. CASE sock = 0 /\ ~up
      <4>1. Goto(t, "fail") /\ UNCHANGED ndials
        BY <2>2, <3>3 DEF Connect
      <4> QED
        BY <1>3, <1>5, <3>1, <4>1
    <3>4. CASE ~(sock # 0 \/ ~up)
      <4>1. /\ ndials' = ndials + 1 /\ Goto(t, "dial")
            /\ tconn' = [tconn EXCEPT ![t] = ndials + 1]
        BY <2>2, <3>4 DEF Connect, Local
      <4>2. \A n \in Conns : Writable(n)' => n = ndials + 1
        <5>1. tconn'[t] = ndials + 1
          BY <4>1 DEF DataShapes, MasterShapes
        <5> QED
          BY <3>1, <4>1, <5>1, WritableThen DEF WritableAt, Dialing
      <4>3. \A n \in Conns : n = ndials + 1 => Load(n) = 0
        BY <1>1 DEF Traffic
      <4>4. ndials <= ndials'
        BY <1>1, <4>1
      <4> QED
        BY <1>0, <1>3, <3>1, <4>2, <4>3, <4>4, TrafficKept
    <3> QED
      BY <3>2, <3>3, <3>4
  <2>3. CASE Dialed(t)
    <3>1. Inside(t) /\ tpc[t] = "dial" /\ wires' = wires /\ UNCHANGED <<tconn, cst, ndials>>
      BY <2>3 DEF Dialed, Inside
    <3>2. CASE Goto(t, "fail")
      BY <1>3, <1>5, <3>1, <3>2
    <3>3. CASE Goto(t, "adopt")
      BY <1>6, <3>1, <3>3 DEF WritableAt, Dialing
    <3> QED
      BY <2>3, <3>2, <3>3 DEF Dialed
  <2>4. CASE Adopt(t)
    <3>1. /\ Inside(t) /\ tpc[t] = "adopt" /\ wires' = wires /\ UNCHANGED <<tconn, cst, ndials>>
          /\ Goto(t, "send") /\ session' = tconn[t]
      BY <2>4 DEF Adopt, Inside
    <3> QED
      BY <1>6, <3>1 DEF WritableAt, Dialing
  <2>5. CASE Encrypt(t)
    <3>1. Inside(t) /\ tpc[t] = "send" /\ wires' = wires /\ UNCHANGED <<cst, ndials, session>>
      BY <2>5 DEF Encrypt, Inside
    <3>2. CASE Goto(t, "fail")
      BY <1>3, <1>5, <3>1, <3>2
    <3>3. CASE Goto(t, "write") /\ Local(t, session)
      <4>1. tconn'[t] = session
        BY <3>3 DEF Local, DataShapes, MasterShapes
      <4> QED
        BY <1>6, <3>1, <3>3, <4>1 DEF WritableAt, Dialing
    <3> QED
      BY <2>5, <3>2, <3>3 DEF Encrypt
  <2>6. CASE Write(t)
    <3> PICK n \in Conns : n = tconn[t]
      BY <2>6 DEF Write, DataShapes, MasterShapes, Exchanging
    <3>1. /\ Inside(t) /\ tpc[t] = "write" /\ UNCHANGED <<ndials, toClient, tconn, session, sock, cst>>
          /\ n \in Conns
      BY <2>6 DEF Write, Inside, DataShapes, MasterShapes, Exchanging
    <3>2. CASE Goto(t, "fail") /\ UNCHANGED toServer
      <4>1. wires' = wires
        BY <3>1, <3>2 DEF wires
      <4> QED
        BY <1>3, <1>5, <3>1, <3>2, <4>1
    <3>3. CASE /\ cst[n] = "open" /\ sst[n] = "serving" /\ Goto(t, "reread")
               /\ toServer' = [toServer EXCEPT ![n] = Append(toServer[n], Request(t, n))]
      <4>1. Load(n) = 0
        BY <3>1, <3>3, WritableNow DEF WritableAt, Traffic
      <4>2. ~(n > ndials)
        BY <3>1, <3>3 DEF OneServed
      <4>3. \A m \in Conns : ~Writable(m)'
        BY <3>1, <3>3, WritableThen DEF WritableAt, Dialing
      <4>4. Request(t, n) \in Requests
        BY <3>1, RequestShapes DEF Request, DataShapes, ThreadShapes, LinkShapes
      <4>5. Len(Append(toServer[n], Request(t, n))) = Len(toServer[n]) + 1
        BY <3>1, <4>4, QueueLengths DEF DataShapes, LinkShapes
      <4>6. \A m \in Conns : Load(m)' = IF m = n THEN Load(m) + 1 ELSE Load(m)
        <5>1. \A m \in Conns : Len(toServer[m]) \in Nat /\ Len(toClient[m]) \in Nat
          BY LoadShape
        <5>2. \A m \in Conns : m # n => toServer'[m] = toServer[m]
          BY <3>3 DEF DataShapes, LinkShapes
        <5>3. Len(toServer'[n]) = Len(toServer[n]) + 1
          BY <3>1, <3>3, <4>5 DEF DataShapes, LinkShapes
        <5>4. Load(n)' = Load(n) + 1
          <6>1. Len(toClient'[n]) = Len(toClient[n])
            BY <3>1
          <6>3. Len(toServer'[n]) \in Nat /\ Len(toClient'[n]) \in Nat
            BY <1>0, LoadThen
          <6>4. Len(toServer[n]) \in Nat /\ Len(toClient[n]) \in Nat
            BY LoadShape
          <6>2. Len(toServer'[n]) + Len(toClient'[n]) = (Len(toServer[n]) + Len(toClient[n])) + 1
            <7>1. PICK a \in Nat, b \in Nat : a = Len(toServer[n]) /\ b = Len(toClient[n])
              BY <6>4
            <7>2. Len(toServer'[n]) = a + 1 /\ Len(toClient'[n]) = b
              BY <5>3, <6>1, <7>1
            <7>3. (a + 1) + b = (a + b) + 1
              OBVIOUS
            <7> QED
              BY <7>1, <7>2, <7>3
          <6> QED
            BY <6>2 DEF Load
        <5> QED
          BY <3>1, <5>2, <5>4 DEF Load
      <4> QED
        BY <1>2, <3>1, <4>1, <4>2, <4>3, <4>6 DEF Traffic
    <3> QED
      BY <2>6, <3>2, <3>3 DEF Write
  <2>7. CASE Reread(t)
    <3>1. Inside(t) /\ wires' = wires /\ UNCHANGED ndials
      BY <2>7 DEF Reread, Inside
    <3> QED
      BY <1>3, <1>5, <2>7, <3>1 DEF Reread
  <2>8. CASE Receive(t)
    <3> PICK n \in Conns : n = tconn[t]
      BY <2>8 DEF Receive, DataShapes, MasterShapes, Exchanging
    <3>1. /\ Inside(t) /\ n \in Conns /\ UNCHANGED <<ndials, sock, toServer>> /\ toClient[n] # <<>>
          /\ toClient' = [toClient EXCEPT ![n] = Tail(toClient[n])]
          /\ sock \in {0, n}
      BY <2>8 DEF Receive, Inside, DataShapes, MasterShapes, Exchanging, Attributes
    <3>2. Len(Tail(toClient[n])) = Len(toClient[n]) - 1
      BY <3>1 DEF DataShapes, LinkShapes
    <3>3. \A m \in Conns : Load(m)' = IF m = n THEN Load(m) - 1 ELSE Load(m)
      <4>1. \A m \in Conns : Len(toServer[m]) \in Nat /\ Len(toClient[m]) \in Nat
        BY LoadShape
      <4>2. \A m \in Conns : m # n => toClient'[m] = toClient[m]
        BY <3>1 DEF DataShapes, LinkShapes
      <4>3. Len(toClient'[n]) = Len(toClient[n]) - 1
        BY <3>1, <3>2 DEF DataShapes, LinkShapes
      <4>4. Load(n)' = Load(n) - 1
        <5>1. Len(toServer'[n]) = Len(toServer[n]) /\ Len(toClient'[n]) \in Nat
          BY <1>0, <3>1, LoadThen
        <5>2. Len(toServer'[n]) + Len(toClient'[n]) = (Len(toServer[n]) + Len(toClient[n])) - 1
          BY <4>1, <4>3, <5>1, SumSteps
        <5> QED
          BY <5>2 DEF Load
      <4>5. \A m \in Conns : m # n => Load(m)' = Load(m)
        BY <3>1, <4>2 DEF Load
      <4> QED
        BY <4>4, <4>5
    <3>4. \A m \in Conns : Load(m)' <= Load(m)
      BY <1>2, <3>3
    <3>5. CASE Goto(t, "fail")
      BY <1>5, <3>1, <3>4, <3>5
    <3>6. CASE Goto(t, "idle")
      <4>1. \A m \in Conns : Writable(m)' => m = n
        BY <3>1, <3>6, WritableThen DEF WritableAt, Dialing, Conns, Calls
      <4>2. Load(n)' = 0
        <5>1. Load(n) <= 1 /\ Load(n) \in Nat /\ Load(n)' \in Nat
          BY <1>2, <3>1 DEF Traffic
        <5>2. Load(n)' = Load(n) - 1
          BY <3>1, <3>3
        <5> QED
          BY <5>1, <5>2
      <4>3. \A m \in Conns : Load(m)' <= 1
        BY <1>2, <3>4 DEF Traffic
      <4>4. \A m \in Conns : m > ndials => Load(m)' = 0
        BY <1>2, <3>4 DEF Traffic
      <4> QED
        BY <3>1, <4>1, <4>2, <4>3, <4>4 DEF Traffic
    <3> QED
      BY <2>8, <3>5, <3>6 DEF Receive
  <2>9. CASE ReceiveFails(t)
    <3>1. Inside(t) /\ wires' = wires /\ UNCHANGED ndials /\ Goto(t, "fail")
      BY <2>9 DEF ReceiveFails, Inside
    <3> QED
      BY <1>3, <1>5, <3>1
  <2>10. CASE Fail(t)
    <3>1. Inside(t) /\ UNCHANGED <<ndials, toServer>> /\ Goto(t, "idle") /\ sock' = 0
      BY <2>10 DEF Fail, Inside
    <3>2. \A n \in Conns : toClient'[n] = toClient[n] \/ toClient'[n] = <<>>
      BY <2>10 DEF Fail, DataShapes, LinkShapes
    <3>3. \A n \in Conns : Load(n)' <= Load(n)
      <4>1. Len(<<>>) = 0
        OBVIOUS
      <4>2. \A m \in Conns : Len(toServer[m]) \in Nat /\ Len(toClient[m]) \in Nat
        BY LoadShape
      <4> QED
        BY <3>1, <3>2, <4>1, <4>2 DEF Load
    <3> QED
      BY <1>5, <3>1, <3>3
  <2> QED
    BY <1>8, <2>1, <2>2, <2>3, <2>4, <2>5, <2>6, <2>7, <2>8, <2>9, <2>10 DEF Transact
<1>9. ASSUME NEW t \in Threads, Call(t) PROVE Traffic'
  BY <1>7, <1>9 DEF Call, Goto, master, ends, wires
<1>10. ASSUME NEW t \in Threads, Timeout(t) PROVE Traffic'
  <2>1. Inside(t) /\ wires' = wires /\ UNCHANGED ndials /\ Goto(t, "fail")
    BY <1>10 DEF Timeout, Inside, counts
  <2> QED
    BY <1>3, <1>5, <2>1
<1>11. ASSUME UNCHANGED <<tpc, tconn, ndials>>, UNCHANGED sock \/ sock' = 0,
              UNCHANGED session \/ session' = 0,
              \A n \in Conns : cst'[n] = "open" => cst[n] = "open",
              \A n \in Conns : Len(toServer'[n]) + Len(toClient'[n]) <= Len(toServer[n]) + Len(toClient[n])
       PROVE  Traffic'
  <2>1. \A n \in Conns : Load(n)' <= Load(n)
    BY <1>11 DEF Load
  <2>2. ndials <= ndials'
    BY <1>1, <1>11
  <2> QED
    BY <1>0, <1>4, <1>11, <2>1, <2>2, TrafficKept
<1>12. /\ Len(<<>>) = 0
       /\ \A n \in Conns : /\ Len(toServer[n]) \in Nat /\ Len(toClient[n]) \in Nat
                           /\ Len(toServer'[n]) \in Nat /\ Len(toClient'[n]) \in Nat
  BY <1>0, LoadShape, LoadThen
<1>13. ASSUME NEW n \in Conns, Collect(n) PROVE Traffic'
  <2>1. \A m \in Conns : toClient'[m] = toClient[m] \/ toClient'[m] = <<>>
    BY <1>13 DEF Collect, DataShapes, LinkShapes
  <2>2. \A m \in Conns : cst'[m] = "open" => cst[m] = "open"
    BY <1>13 DEF Collect, DataShapes, MasterShapes
  <2> QED
    BY <1>11, <1>12, <1>13, <2>1, <2>2 DEF Collect, threads, master, counts
<1>14. ASSUME NEW n \in Conns, LineNoise(n) PROVE Traffic'
  <2>1. PICK kind \in {"garble", "lose", "duplicate"} :
        /\ Fault(kind)
        /\ \/ /\ toServer[n] # <<>>
              /\ toServer' = [toServer EXCEPT ![n] = Disturbed(@)[kind]]
              /\ UNCHANGED toClient
           \/ /\ toClient[n] # <<>>
              /\ toClient' = [toClient EXCEPT ![n] = Disturbed(@)[kind]]
              /\ UNCHANGED toServer
    BY <1>14 DEF LineNoise
  <2>2. /\ toServer[n] # <<>> => Len(Disturbed(toServer[n])[kind]) <= Len(toServer[n])
        /\ toClient[n] # <<>> => Len(Disturbed(toClient[n])[kind]) <= Len(toClient[n])
    BY <2>1, CalmQueue DEF DataShapes, LinkShapes
  <2>3. \A m \in Conns : Len(toServer'[m]) <= Len(toServer[m]) /\ Len(toClient'[m]) <= Len(toClient[m])
    <3>1. ASSUME toServer[n] # <<>>, toServer' = [toServer EXCEPT ![n] = Disturbed(@)[kind]]
          PROVE  \A m \in Conns : Len(toServer'[m]) <= Len(toServer[m])
      BY <1>12, <2>2, <3>1 DEF DataShapes, LinkShapes
    <3>2. ASSUME toClient[n] # <<>>, toClient' = [toClient EXCEPT ![n] = Disturbed(@)[kind]]
          PROVE  \A m \in Conns : Len(toClient'[m]) <= Len(toClient[m])
      BY <1>12, <2>2, <3>2 DEF DataShapes, LinkShapes
    <3> QED
      BY <1>12, <2>1, <3>1, <3>2
  <2>4. \A m \in Conns : Len(toServer'[m]) + Len(toClient'[m]) <= Len(toServer[m]) + Len(toClient[m])
    BY <1>12, <2>3, SumSteps
  <2> QED
    BY <1>11, <1>14, <2>4 DEF LineNoise, threads, master, counts, ends
<1>15. CASE Stop
  <2>1. \A m \in Conns : toClient'[m] = toClient[m] \/ toClient'[m] = <<>>
    BY <1>15 DEF Stop, DataShapes, LinkShapes
  <2>2. \A m \in Conns : cst'[m] = "open" => cst[m] = "open"
    BY <1>15 DEF Stop, DataShapes, MasterShapes
  <2>3. /\ UNCHANGED <<tpc, tconn, ndials, toServer>> /\ (UNCHANGED sock \/ sock' = 0)
        /\ UNCHANGED session \/ session' = 0
    BY <1>15 DEF Stop, threads, counts
  <2> QED
    BY <1>11, <1>12, <2>1, <2>2, <2>3
<1>16. CASE RestartSlave \/ UNCHANGED vars
  <2>1. UNCHANGED <<tpc, tconn, ndials, sock, session, cst, toServer, toClient>>
    BY <1>16 DEF RestartSlave, vars, threads, master, counts, ends, wires
  <2>2. \A m \in Conns : Len(toServer'[m]) + Len(toClient'[m]) <= Len(toServer[m]) + Len(toClient[m])
    BY <1>12, <2>1
  <2> QED
    BY <1>11, <2>1, <2>2
<1>17. ASSUME SlaveEnds, UNCHANGED <<tpc, tconn, ndials, sock, session, cst, toClient>>
       PROVE  Traffic'
  BY <1>11, <1>12, <1>17 DEF SlaveEnds
<1>18. CASE CrashSlave
  BY <1>17, <1>18 DEF CrashSlave, threads, master, counts
<1>19. CASE SlaveStep
  <2> USE DEF threads, master, counts
  <2>1. CASE Accept
    BY <1>11, <1>12, <2>1 DEF Accept, wires
  <2>2. ASSUME NEW n \in Conns, RunOut(n) PROVE Traffic'
    BY <1>17, <2>2 DEF RunOut
  <2>3. ASSUME NEW n \in Conns, Reject(n) \/ EndOfStream(n) PROVE Traffic'
    <3>1. toServer' = [toServer EXCEPT ![n] = <<>>] /\ UNCHANGED toClient
      BY <2>3 DEF Reject, EndOfStream, CloseServer
    <3>2. \A m \in Conns : Len(toServer'[m]) + Len(toClient'[m]) <= Len(toServer[m]) + Len(toClient[m])
      BY <1>12, <3>1 DEF DataShapes, LinkShapes
    <3> QED
      BY <1>11, <2>3, <3>2 DEF Reject, EndOfStream
  <2>4. ASSUME NEW n \in Conns, Serve(n) PROVE Traffic'
    <3>1. toServer' = [toServer EXCEPT ![n] = Tail(toServer[n])] /\ toServer[n] # <<>>
      BY <2>4 DEF Serve, Executes
    <3>2. Len(Tail(toServer[n])) = Len(toServer[n]) - 1
      BY <3>1 DEF DataShapes, LinkShapes
    <3>3. Len(toClient'[n]) <= Len(toClient[n]) + 1 /\ \A m \in Conns : m # n => toClient'[m] = toClient[m]
      <4>1. PICK reply \in Replies \cup {Garbled} :
              toClient' \in {toClient, [toClient EXCEPT ![n] = Append(toClient[n], reply)]}
        <5> DEFINE request == Head(toServer[n])
        <5>1. request \in Requests
          BY <2>4, GarbledShape DEF Serve, Executes, Decrypts, DataShapes, LinkShapes, Conns, Calls
        <5>2. Frame(n, 1, stx[n], request.id, Answer(bank, request.pdu)) \in Replies
          BY <5>1, ReplyShapes DEF Requests, DataShapes, LinkShapes
        <5> QED
          BY <2>4, <5>2 DEF Serve
      <4>2. Len(Append(toClient[n], reply)) = Len(toClient[n]) + 1
        BY QueueLengths DEF DataShapes, LinkShapes
      <4> QED
        BY <1>12, <4>1, <4>2 DEF DataShapes, LinkShapes
    <3>4. \A m \in Conns : Len(toServer'[m]) + Len(toClient'[m]) <= Len(toServer[m]) + Len(toClient[m])
      <4>1. Len(toServer'[n]) = Len(toServer[n]) - 1
        BY <3>1, <3>2 DEF DataShapes, LinkShapes
      <4>2. \A m \in Conns : m # n => Len(toServer'[m]) = Len(toServer[m])
        BY <3>1 DEF DataShapes, LinkShapes
      <4>3. Len(toServer'[n]) + Len(toClient'[n]) <= Len(toServer[n]) + Len(toClient[n])
        BY <1>12, <3>3, <4>1, SumSteps
      <4>4. \A m \in Conns : m # n => /\ Len(toServer'[m]) = Len(toServer[m])
                                       /\ Len(toClient'[m]) = Len(toClient[m])
        BY <3>3, <4>2
      <4>5. \A m \in Conns : Len(toServer[m]) + Len(toClient[m]) \in Nat
        BY <1>12, Sums
      <4>6. \A m \in Conns : m # n =>
              Len(toServer'[m]) + Len(toClient'[m]) <= Len(toServer[m]) + Len(toClient[m])
        <5> SUFFICES ASSUME NEW m \in Conns, m # n
                     PROVE  Len(toServer'[m]) + Len(toClient'[m])
                              <= Len(toServer[m]) + Len(toClient[m])
          OBVIOUS
        <5>0. Len(toServer'[m]) = Len(toServer[m]) /\ Len(toClient'[m]) = Len(toClient[m])
          BY <4>4
        <5>1. PICK a \in Nat : a = Len(toServer[m]) + Len(toClient[m])
          BY <4>5
        <5>2. Len(toServer'[m]) + Len(toClient'[m]) = a /\ a <= a
          BY <5>0, <5>1
        <5> QED
          BY <5>1, <5>2
      <4> QED
        BY <4>3, <4>6, Zenon
    <3> QED
      BY <1>11, <2>4, <3>4 DEF Serve, ends
  <2> QED
    BY <1>19, <2>1, <2>2, <2>3, <2>4 DEF SlaveStep
<1> QED
  BY <1>8, <1>9, <1>10, <1>13, <1>14, <1>15, <1>16, <1>18, <1>19 DEF Next

-----------------------------------------------------------------------------
(* Whose request, and whose answer, is on its way *)
Unsent == {"want", "connect", "dial", "adopt", "send", "write"}
Tracked ==
    /\ \A t \in Threads : tpc[t] # "idle" => treq[t].id <= ncalls
    /\ \A t, u \in Threads :
          tpc[t] # "idle" /\ tpc[u] # "idle" /\ treq[t].id = treq[u].id => t = u
    /\ \A c \in Calls : c > ncalls => answered[c] = <<>>
    /\ AtMostOnce
    /\ \A t \in Threads : tpc[t] \in Unsent => answered[treq[t].id] = <<>>
Requested(f) ==
    f.id # 0 =>
        /\ f.id <= ncalls
        /\ answered[f.id] = <<>>
        /\ \A t \in Threads : tpc[t] # "idle" /\ treq[t].id = f.id
                               => f.pdu = treq[t].pdu /\ tpc[t] \notin Unsent
Carried ==
    /\ \A n \in Conns : toServer[n] # <<>> => Requested(Head(toServer[n]))
    /\ \A n \in Conns : toClient[n] # <<>> /\ Head(toClient[n]).id # 0 =>
            answered[Head(toClient[n]).id] = <<Head(toClient[n]).pdu>>
    /\ \A t \in Threads : tpc[t] \in {"reread", "recv"} =>
            /\ toServer[tconn[t]] # <<>> => Head(toServer[tconn[t]]).id \in {0, treq[t].id}
            /\ toClient[tconn[t]] # <<>> => Head(toClient[tconn[t]]).id \in {0, treq[t].id}

Shrunk(now, before) ==
    now = <<>> \/ (before # <<>> /\ Head(now).id \in {0, Head(before).id}
                    /\ (Head(now).id # 0 => Head(now) = Head(before)))

LEMMA HeadShapes ==
    ASSUME DataShapes, NEW n \in Conns
    PROVE  /\ toServer[n] # <<>> => Head(toServer[n]) \in Requests \cup {Garbled}
           /\ toClient[n] # <<>> => Head(toClient[n]) \in Replies \cup {Garbled}
BY DEF DataShapes, LinkShapes

LEMMA HeadIds ==
    ASSUME DataShapes, NEW n \in Conns
    PROVE  /\ toServer[n] # <<>> => Head(toServer[n]).id \in {0} \cup Calls
           /\ toClient[n] # <<>> => Head(toClient[n]).id \in {0} \cup Calls
BY HeadShapes, GarbledShape DEF Requests, Replies

(* The steps that neither make a call, nor write or execute a request *)
LEMMA CarriedOn ==
    ASSUME DataShapes, Tracked, Carried, UNCHANGED <<treq, ncalls, answered>>,
           \A n \in Conns : Shrunk(toServer'[n], toServer[n]) /\ Shrunk(toClient'[n], toClient[n]),
           \A t \in Threads :
             /\ tpc'[t] # "idle" => tpc[t] # "idle"
             /\ tpc'[t] \in Unsent => tpc[t] \in Unsent
             /\ tpc'[t] \in {"reread", "recv"} =>
                  tpc[t] \in {"reread", "recv"} /\ tconn'[t] = tconn[t]
    PROVE  Tracked' /\ Carried'
<1>1. Tracked'
  BY DEF Tracked, AtMostOnce
<1>2. \A n \in Conns : toServer'[n] # <<>> => Requested(Head(toServer[n]))'
  <2>1. ASSUME NEW n \in Conns, toServer'[n] # <<>>, NEW f, f = Head(toServer'[n]), f.id # 0
        PROVE  Requested(f)'
    <3>1. toServer[n] # <<>> /\ f = Head(toServer[n])
      BY <2>1 DEF Shrunk
    <3>2. Requested(f)
      BY <3>1 DEF Carried
    <3> QED
      BY <2>1, <3>2 DEF Requested
  <2> QED
    BY <2>1 DEF Requested
<1>3. \A n \in Conns : toClient'[n] # <<>> /\ Head(toClient'[n]).id # 0 =>
            answered[Head(toClient'[n]).id] = <<Head(toClient'[n]).pdu>>
  <2> SUFFICES ASSUME NEW n \in Conns, toClient'[n] # <<>>, Head(toClient'[n]).id # 0
               PROVE  answered[Head(toClient'[n]).id] = <<Head(toClient'[n]).pdu>>
    OBVIOUS
  <2>1. toClient[n] # <<>> /\ Head(toClient'[n]) = Head(toClient[n])
    BY DEF Shrunk
  <2> QED
    BY <2>1 DEF Carried
<1>4. \A t \in Threads : tpc'[t] \in {"reread", "recv"} =>
            /\ toServer'[tconn'[t]] # <<>> => Head(toServer'[tconn'[t]]).id \in {0, treq[t].id}
            /\ toClient'[tconn'[t]] # <<>> => Head(toClient'[tconn'[t]]).id \in {0, treq[t].id}
  <2> SUFFICES ASSUME NEW t \in Threads, tpc'[t] \in {"reread", "recv"}
               PROVE  /\ toServer'[tconn'[t]] # <<>> => Head(toServer'[tconn'[t]]).id \in {0, treq[t].id}
                      /\ toClient'[tconn'[t]] # <<>> => Head(toClient'[tconn'[t]]).id \in {0, treq[t].id}
    OBVIOUS
  <2>1. tpc[t] \in {"reread", "recv"} /\ tconn'[t] = tconn[t] /\ tconn[t] \in Conns
    BY DEF DataShapes, MasterShapes, Exchanging
  <2>2. /\ toServer[tconn[t]] # <<>> => Head(toServer[tconn[t]]).id \in {0, treq[t].id}
        /\ toClient[tconn[t]] # <<>> => Head(toClient[tconn[t]]).id \in {0, treq[t].id}
    BY <2>1 DEF Carried
  <2> QED
    BY <2>1, <2>2 DEF Shrunk
<1> QED
  BY <1>1, <1>2, <1>3, <1>4 DEF Carried

LEMMA CarriedByCall ==
    ASSUME DataShapes, Tracked, Carried, NEW t \in Threads, Call(t)
    PROVE  Tracked' /\ Carried'
<1>1. PICK pdu \in Pdus : treq' = [treq EXCEPT ![t] = [id |-> ncalls + 1, pdu |-> pdu]]
  BY DEF Call
<1>2. /\ tpc[t] = "idle" /\ ncalls' = ncalls + 1 /\ ncalls + 1 \in Calls /\ ncalls \in Nat
      /\ UNCHANGED <<tconn, answered, toServer, toClient>>
      /\ tpc' = [tpc EXCEPT ![t] = "want"]
  BY DataAssumption DEF Call, slave, wires, DataShapes, ThreadShapes, Calls
<1>3. /\ treq'[t].id = ncalls + 1 /\ tpc'[t] = "want"
      /\ \A u \in Threads : u # t => treq'[u] = treq[u] /\ tpc'[u] = tpc[u]
  BY <1>1, <1>2 DEF DataShapes, ThreadShapes
<1>4. \A u \in Threads : u # t /\ tpc[u] # "idle" => treq[u].id <= ncalls /\ treq[u].id \in Calls
  BY DEF Tracked, DataShapes, ThreadShapes
<1>5. \A u \in Threads : tpc'[u] # "idle" => treq'[u].id <= ncalls'
  BY <1>2, <1>3, <1>4 DEF Calls
<1>6. \A u, v \in Threads : tpc'[u] # "idle" /\ tpc'[v] # "idle" /\ treq'[u].id = treq'[v].id => u = v
  <2>1. \A u \in Threads : u # t /\ tpc[u] # "idle" => treq[u].id # ncalls + 1
    BY <1>2, <1>4 DEF Calls
  <2> QED
    BY <1>3, <2>1 DEF Tracked
<1>7. \A c \in Calls : c > ncalls' => answered'[c] = <<>>
  BY <1>2 DEF Tracked, Calls
<1>8. AtMostOnce'
  BY <1>2 DEF Tracked, AtMostOnce
<1>9. \A u \in Threads : tpc'[u] \in Unsent => answered'[treq'[u].id] = <<>>
  <2>1. answered[ncalls + 1] = <<>>
    BY <1>2 DEF Tracked
  <2> QED
    BY <1>2, <1>3, <2>1 DEF Tracked
<1>10. \A n \in Conns : toServer'[n] # <<>> => Requested(Head(toServer[n]))'
  <2>1. ASSUME NEW n \in Conns, toServer[n] # <<>>, NEW f, f = Head(toServer[n]), f.id # 0
        PROVE  Requested(f)'
    <3>1. Requested(f) /\ f.id \in Calls
      BY <2>1, HeadIds DEF Carried
    <3>2. f.id <= ncalls + 1 /\ f.id # ncalls + 1
      BY <1>2, <2>1, <3>1 DEF Requested, Calls
    <3> QED
      BY <1>2, <1>3, <3>1, <3>2 DEF Requested
  <2> QED
    BY <1>2, <2>1 DEF Requested
<1>11. Carried'
  <2>1. \A u \in Threads : tpc'[u] \in {"reread", "recv"} => u # t
    BY <1>3
  <2> QED
    BY <1>2, <1>3, <1>10, <2>1 DEF Carried
<1> QED
  BY <1>5, <1>6, <1>7, <1>8, <1>9, <1>11 DEF Tracked

LEMMA CarriedByWrite ==
    ASSUME DataShapes, Traffic, Tracked, Carried, NEW t \in Threads, Write(t),
           UNCHANGED <<answered>>, Goto(t, "reread")
    PROVE  Tracked' /\ Carried'
<1>0. PICK n \in Conns : n = tconn[t]
  BY DEF Write, DataShapes, MasterShapes, Exchanging
<1>1. /\ tpc[t] = "write" /\ cst[n] = "open" /\ UNCHANGED <<tconn, treq, ncalls, toClient>>
      /\ toServer' = [toServer EXCEPT ![n] = Append(toServer[n], Request(t, n))]
  <2>1. "reread" # "fail" /\ tpc' = [tpc EXCEPT ![t] = "reread"] /\ tpc'[t] = "reread"
    BY DEF Goto, DataShapes, ThreadShapes
  <2>2. ~Goto(t, "fail")
    BY <2>1 DEF Goto, DataShapes, ThreadShapes
  <2> QED
    BY <1>0, <2>2 DEF Write, counts
<1>2. /\ tpc'[t] = "reread" /\ \A u \in Threads : u # t => tpc'[u] = tpc[u] /\ ~Inside(u)
  BY <1>1 DEF Goto, DataShapes, ThreadShapes, Exclusive, Inside
<1>3. toServer[n] = <<>> /\ toClient[n] = <<>>
  <2>1. Writable(n)
    BY <1>0, <1>1 DEF Writable
  <2> QED
    BY <1>1, <2>1, LoadShape DEF Traffic
<1>4. Request(t, n) \in Requests /\ Request(t, n).id = treq[t].id /\ Request(t, n).pdu = treq[t].pdu
  BY <1>1, RequestShapes DEF Request, Frame, DataShapes, ThreadShapes, LinkShapes
<1>5. toServer'[n] = <<Request(t, n)>> /\ \A m \in Conns : m # n => toServer'[m] = toServer[m]
  BY <1>1, <1>3, <1>4, QueueLengths DEF DataShapes, LinkShapes
<1>6. Tracked'
  BY <1>1, <1>2 DEF Tracked, AtMostOnce, Unsent
<1>7. \A m \in Conns : toServer'[m] # <<>> => Requested(Head(toServer[m]))'
  <2>1. ASSUME NEW f, f = Request(t, n) PROVE Requested(f)'
    <3>1. f.id <= ncalls /\ answered[f.id] = <<>>
      BY <1>1, <1>4, <2>1 DEF Tracked, Unsent
    <3>2. \A u \in Threads : tpc'[u] # "idle" /\ treq[u].id = f.id => u = t
      BY <1>1, <1>2, <1>4, <2>1 DEF Tracked
    <3> QED
      BY <1>1, <1>2, <1>4, <2>1, <3>1, <3>2 DEF Requested, Unsent
  <2>2. ASSUME NEW f, Requested(f) PROVE Requested(f)'
    BY <1>1, <1>2, <2>2 DEF Requested, Unsent
  <2>3. Head(toServer'[n]) = Request(t, n)
    BY <1>5
  <2>4. \A m \in Conns : m # n /\ toServer'[m] # <<>> => Requested(Head(toServer'[m]))
    BY <1>5 DEF Carried
  <2> QED
    BY <2>1, <2>2, <2>3, <2>4
<1>8. \A u \in Threads : tpc'[u] \in {"reread", "recv"} => u = t
  BY <1>2 DEF Inside
<1>9. /\ toServer'[tconn'[t]] # <<>> => Head(toServer'[tconn'[t]]).id \in {0, treq[t].id}
      /\ toClient'[tconn'[t]] = <<>>
  BY <1>0, <1>1, <1>3, <1>4, <1>5
<1>10. \A m \in Conns : toClient'[m] # <<>> /\ Head(toClient'[m]).id # 0 =>
            answered'[Head(toClient'[m]).id] = <<Head(toClient'[m]).pdu>>
  BY <1>1 DEF Carried
<1> QED
  BY <1>1, <1>6, <1>7, <1>8, <1>9, <1>10 DEF Carried

(* The request served is the only one on its way to the slave *)
LEMMA OnlyRequest ==
    ASSUME DataShapes, OneServed, Traffic, Tracked, Carried, NEW n \in Conns, Executes(n)
    PROVE  /\ Head(toServer[n]) \in Requests /\ Head(toServer[n]).id \in Calls
           /\ Requested(Head(toServer[n])) /\ answered[Head(toServer[n]).id] = <<>>
           /\ Head(toServer[n]).id <= ncalls
           /\ Len(toServer[n]) = 1 /\ Tail(toServer[n]) = <<>> /\ toClient[n] = <<>>
           /\ \A m \in Conns : m # n => toServer[m] = <<>>
<1>1. sst[n] = "serving" /\ toServer[n] # <<>> /\ Decrypts(n, 0, Head(toServer[n]))
  BY DEF Executes
<1>2. Head(toServer[n]) \in Requests
  BY <1>1, HeadShapes, GarbledShape DEF Decrypts, Conns, Calls
<1>3. Head(toServer[n]).id \in Calls /\ Head(toServer[n]).id # 0
  BY <1>2 DEF Requests, Calls
<1>4. Requested(Head(toServer[n]))
  BY <1>1 DEF Carried
<1>5. \A m \in Conns : m # n => toServer[m] = <<>>
  BY <1>1 DEF OneServed, Conns, Calls
<1>6. Len(toServer[n]) = 1 /\ Len(toClient[n]) = 0
  <2>1. /\ Len(toServer[n]) \in Nat /\ Len(toClient[n]) \in Nat /\ Len(toServer[n]) # 0
        /\ Load(n) <= 1
    BY <1>1, QueueLengths, LoadShape DEF Traffic, DataShapes, LinkShapes
  <2>2. PICK a \in Nat, b \in Nat : a = Len(toServer[n]) /\ b = Len(toClient[n])
    BY <2>1
  <2>3. a + b <= 1 /\ a # 0
    BY <2>1, <2>2 DEF Load
  <2>4. a = 1 /\ b = 0
    BY <2>3
  <2> QED
    BY <2>2, <2>4
<1>7. toClient[n] = <<>>
  BY <1>6 DEF DataShapes, LinkShapes
<1>8. Tail(toServer[n]) = <<>>
  <2>1. Tail(toServer[n]) \in Seq(Requests \cup {Garbled}) /\ Len(Tail(toServer[n])) = Len(toServer[n]) - 1
    BY <1>1 DEF DataShapes, LinkShapes
  <2>2. Len(Tail(toServer[n])) = 0
    BY <1>6, <2>1
  <2>3. Garbled \in Requests \cup {Garbled}
    OBVIOUS
  <2> QED
    BY <2>1, <2>2, <2>3, QueueLengths
<1> QED
  BY <1>2, <1>3, <1>4, <1>5, <1>6, <1>7, <1>8 DEF Requested

LEMMA CarriedByExecution ==
    ASSUME DataShapes, OneServed, Traffic, Tracked, Carried, NEW n \in Conns, Executes(n),
           NEW request, request = Head(toServer[n]), Executed(request),
           UNCHANGED <<tpc, treq, tconn, ncalls>>,
           \A m \in Conns : toServer'[m] = <<>>,
           \A m \in Conns : toClient'[m] = toClient[m]
             \/ (/\ m = n /\ toClient'[m] # <<>> /\ Head(toClient'[m]).id = request.id
                 /\ Head(toClient'[m]).pdu = Answer(bank, request.pdu))
    PROVE  Tracked' /\ Carried'
<1>1. request.id \in Calls /\ answered[request.id] = <<>> /\ request.id <= ncalls
      /\ Requested(request) /\ toServer[n] # <<>> /\ request.id # 0
  BY OnlyRequest DEF Executes, Calls
<1>2. /\ answered'[request.id] = <<Answer(bank, request.pdu)>>
      /\ \A c \in Calls : c # request.id => answered'[c] = answered[c]
  <2>1. answered' = [answered EXCEPT ![request.id] =
                        Append(answered[request.id], Answer(bank, request.pdu))]
    BY DEF Executed
  <2>2. Append(answered[request.id], Answer(bank, request.pdu)) = <<Answer(bank, request.pdu)>>
    BY <1>1
  <2> QED
    BY <1>1, <2>1, <2>2 DEF DataShapes, LinkShapes
<1>3. AtMostOnce'
  <2>1. Len(answered'[request.id]) <= 1
    <3>1. \A x : Len(<<x>>) <= 1
      OBVIOUS
    <3> QED
      BY <1>2, <3>1
  <2>2. \A c \in Calls : Len(answered[c]) <= 1
    BY DEF Tracked, AtMostOnce
  <2>3. \A c \in Calls : Len(answered'[c]) <= 1
    <3> SUFFICES ASSUME NEW c \in Calls PROVE Len(answered'[c]) <= 1
      OBVIOUS
    <3>1. CASE c = request.id
      BY <2>1, <3>1
    <3>2. CASE c # request.id
      BY <1>2, <2>2, <3>2
    <3> QED
      BY <3>1, <3>2
  <2> QED
    BY <2>3 DEF AtMostOnce
<1>4. \A t \in Threads : tpc[t] \in Unsent => treq[t].id \in Calls /\ treq[t].id # request.id
  <2>1. \A t \in Threads : tpc[t] \in Unsent => tpc[t] # "idle"
    BY DEF Unsent
  <2> QED
    BY <1>1, <2>1 DEF Requested, DataShapes, ThreadShapes
<1>5. \A c \in Calls : c > ncalls => answered'[c] = <<>>
  BY <1>1, <1>2 DEF Tracked, Calls, DataShapes, ThreadShapes
<1>6. Tracked'
  BY <1>2, <1>3, <1>4, <1>5 DEF Tracked
<1>7. \A m \in Conns : toClient'[m] # <<>> /\ Head(toClient'[m]).id # 0 =>
            answered'[Head(toClient'[m]).id] = <<Head(toClient'[m]).pdu>>
  <2> SUFFICES ASSUME NEW m \in Conns, toClient'[m] # <<>>, Head(toClient'[m]).id # 0
               PROVE  answered'[Head(toClient'[m]).id] = <<Head(toClient'[m]).pdu>>
    OBVIOUS
  <2>1. CASE toClient'[m] = toClient[m]
    <3>1. /\ Head(toClient[m]).id \in Calls
          /\ answered[Head(toClient[m]).id] = <<Head(toClient[m]).pdu>>
      BY <2>1, HeadIds DEF Carried
    <3>2. Head(toClient[m]).id # request.id
      BY <1>1, <3>1
    <3> QED
      BY <1>2, <2>1, <3>1, <3>2
  <2>2. CASE Head(toClient'[m]).id = request.id /\ Head(toClient'[m]).pdu = Answer(bank, request.pdu)
    BY <1>2, <2>2
  <2> QED
    BY <2>1, <2>2
<1>8. \A t \in Threads : tpc[t] \in {"reread", "recv"} /\ toClient'[tconn[t]] # <<>> =>
            Head(toClient'[tconn[t]]).id \in {0, treq[t].id}
  <2> SUFFICES ASSUME NEW t \in Threads, tpc[t] \in {"reread", "recv"}, toClient'[tconn[t]] # <<>>
               PROVE  Head(toClient'[tconn[t]]).id \in {0, treq[t].id}
    OBVIOUS
  <2>1. tconn[t] \in Conns
    BY DEF DataShapes, MasterShapes, Exchanging
  <2>2. /\ toServer[tconn[t]] # <<>> => Head(toServer[tconn[t]]).id \in {0, treq[t].id}
        /\ toClient[tconn[t]] # <<>> => Head(toClient[tconn[t]]).id \in {0, treq[t].id}
    BY DEF Carried
  <2> QED
    BY <1>1, <2>1, <2>2
<1>9. \A m \in Conns : toServer'[m] # <<>> => Requested(Head(toServer[m]))'
  OBVIOUS
<1>10. \A t \in Threads : tpc[t] \in {"reread", "recv"} => toServer'[tconn[t]] = <<>>
  BY DEF DataShapes, MasterShapes, Exchanging
<1> QED
  BY <1>6, <1>7, <1>8, <1>9, <1>10 DEF Carried

Calm == DataShapes /\ OneServed /\ Attributes /\ Traffic /\ Tracked /\ Carried

LEMMA ShrunkNot == \A queue : Shrunk(queue, queue)
BY DEF Shrunk

LEMMA ShrunkEmpty == \A queue : Shrunk(<<>>, queue)
BY DEF Shrunk

(* Line noise takes frames away or makes them unreadable *)
LEMMA NoiseShrinks ==
    ASSUME "duplicate" \notin Faults, Calm, NEW n \in Conns, LineNoise(n)
    PROVE  \A m \in Conns : Shrunk(toServer'[m], toServer[m]) /\ Shrunk(toClient'[m], toClient[m])
<1> USE DEF Calm
<1>1. PICK kind \in {"garble", "lose", "duplicate"} :
      /\ Fault(kind)
      /\ \/ /\ toServer[n] # <<>>
            /\ toServer' = [toServer EXCEPT ![n] = Disturbed(toServer[n])[kind]]
            /\ UNCHANGED toClient
         \/ /\ toClient[n] # <<>>
            /\ toClient' = [toClient EXCEPT ![n] = Disturbed(toClient[n])[kind]]
            /\ UNCHANGED toServer
  BY DEF LineNoise
<1>2. Len(toServer[n]) <= 1 /\ Len(toClient[n]) <= 1
  <2>1. PICK a \in Nat, b \in Nat : a = Len(toServer[n]) /\ b = Len(toClient[n])
    BY LoadShape
  <2>2. a + b <= 1
    BY <2>1 DEF Load, Traffic
  <2>3. a <= 1 /\ b <= 1
    BY <2>2
  <2> QED
    BY <2>1, <2>3
<1>3. /\ toServer[n] # <<>> => Disturbed(toServer[n])[kind] \in {<<>>, <<Garbled>>}
      /\ toClient[n] # <<>> => Disturbed(toClient[n])[kind] \in {<<>>, <<Garbled>>}
  BY <1>1, <1>2, CalmQueue DEF DataShapes, LinkShapes
<1>4. \A q : q # <<>> => Shrunk(<<Garbled>>, q)
  <2>1. Head(<<Garbled>>) = Garbled
    OBVIOUS
  <2> QED
    BY <2>1, GarbledShape DEF Shrunk
<1>5. ASSUME toServer[n] # <<>>, toServer' = [toServer EXCEPT ![n] = Disturbed(toServer[n])[kind]]
      PROVE  \A m \in Conns : Shrunk(toServer'[m], toServer[m])
  <2>1. toServer'[n] \in {<<>>, <<Garbled>>} /\ \A m \in Conns : m # n => toServer'[m] = toServer[m]
    BY <1>3, <1>5 DEF DataShapes, LinkShapes
  <2> QED
    BY ShrunkEmpty, <1>4, <1>5, <2>1, ShrunkNot
<1>6. ASSUME toClient[n] # <<>>, toClient' = [toClient EXCEPT ![n] = Disturbed(toClient[n])[kind]]
      PROVE  \A m \in Conns : Shrunk(toClient'[m], toClient[m])
  <2>1. toClient'[n] \in {<<>>, <<Garbled>>} /\ \A m \in Conns : m # n => toClient'[m] = toClient[m]
    BY <1>3, <1>6 DEF DataShapes, LinkShapes
  <2> QED
    BY ShrunkEmpty, <1>4, <1>6, <2>1, ShrunkNot
<1> QED
  BY <1>1, <1>5, <1>6, ShrunkNot

LEMMA CarriedStep ==
    ASSUME "duplicate" \notin Faults
    PROVE  Calm /\ [Next]_vars => Tracked' /\ Carried'
<1> SUFFICES ASSUME Calm, [Next]_vars PROVE Tracked' /\ Carried'
  OBVIOUS
<1> USE DEF Calm
<1>0. \A queue : Shrunk(<<>>, queue)
  BY ShrunkEmpty
<1>1. ASSUME UNCHANGED <<treq, ncalls, answered, tpc, tconn>>,
             \A n \in Conns : Shrunk(toServer'[n], toServer[n]) /\ Shrunk(toClient'[n], toClient[n])
      PROVE  Tracked' /\ Carried'
  BY <1>1, CarriedOn
<1>2. ASSUME NEW t \in Threads, Inside(t), NEW pc \in {"connect", "dial", "adopt", "send", "write", "recv", "fail", "idle"},
             Goto(t, pc), pc \in Unsent => tpc[t] \in Unsent,
             pc = "recv" => tpc[t] \in {"reread", "recv"} /\ tconn'[t] = tconn[t],
             UNCHANGED <<treq, ncalls, answered>>,
             \A u \in Threads : u # t => tconn'[u] = tconn[u],
             \A n \in Conns : Shrunk(toServer'[n], toServer[n]) /\ Shrunk(toClient'[n], toClient[n])
      PROVE  Tracked' /\ Carried'
  <2>1. tpc'[t] = pc /\ \A u \in Threads : u # t => tpc'[u] = tpc[u]
    BY <1>2 DEF Goto, DataShapes, ThreadShapes
  <2>2. \A u \in Threads :
             /\ tpc'[u] # "idle" => tpc[u] # "idle"
             /\ tpc'[u] \in Unsent => tpc[u] \in Unsent
             /\ tpc'[u] \in {"reread", "recv"} =>
                  tpc[u] \in {"reread", "recv"} /\ tconn'[u] = tconn[u]
    BY <1>2, <2>1 DEF Inside
  <2> QED
    BY <1>2, <2>2, CarriedOn
<1>3. UNCHANGED wires =>
        \A n \in Conns : Shrunk(toServer'[n], toServer[n]) /\ Shrunk(toClient'[n], toClient[n])
  BY ShrunkNot DEF wires
<1>4. ASSUME NEW t \in Threads, Transact(t) PROVE Tracked' /\ Carried'
  <2> USE DEF counts, Inside, Unsent
  <2>0. UNCHANGED answered
    BY <1>4 DEF Transact, slave
  <2>1. CASE Acquire(t)
    <3>1. /\ UNCHANGED <<treq, ncalls, tconn, wires>> /\ Goto(t, "connect") /\ tpc[t] = "want"
      BY <2>1 DEF Acquire
    <3>2. tpc'[t] = "connect" /\ \A u \in Threads : u # t => tpc'[u] = tpc[u]
      BY <3>1 DEF Goto, DataShapes, ThreadShapes
    <3>3. \A u \in Threads :
             /\ tpc'[u] # "idle" => tpc[u] # "idle"
             /\ tpc'[u] \in Unsent => tpc[u] \in Unsent
             /\ tpc'[u] \in {"reread", "recv"} =>
                  tpc[u] \in {"reread", "recv"} /\ tconn'[u] = tconn[u]
      BY <3>1, <3>2
    <3> QED
      BY <1>3, <2>0, <3>1, <3>3, CarriedOn
  <2>2. CASE Connect(t)
    <3>1. tpc[t] = "connect" /\ UNCHANGED <<treq, ncalls, wires>>
      BY <2>2 DEF Connect
    <3>2. PICK pc \in {"send", "fail", "dial"} : Goto(t, pc)
      BY <2>2, ConnectGoes
    <3>3. \A u \in Threads : u # t => tconn'[u] = tconn[u]
      BY <2>2 DEF Connect, Local, DataShapes, MasterShapes
    <3> QED
      BY <1>2, <1>3, <2>0, <3>1, <3>2, <3>3
  <2>3. CASE Dialed(t)
    <3>1. tpc[t] = "dial" /\ UNCHANGED <<treq, ncalls, tconn, wires>>
      BY <2>3 DEF Dialed
    <3>2. PICK pc \in {"adopt", "fail"} : Goto(t, pc)
      BY <2>3 DEF Dialed
    <3> QED
      BY <1>2, <1>3, <2>0, <3>1, <3>2
  <2>4. CASE Adopt(t)
    <3>1. tpc[t] = "adopt" /\ UNCHANGED <<treq, ncalls, tconn, wires>> /\ Goto(t, "send")
      BY <2>4 DEF Adopt
    <3> QED
      BY <1>2, <1>3, <2>0, <3>1
  <2>5. CASE Encrypt(t)
    <3>1. tpc[t] = "send" /\ UNCHANGED <<treq, ncalls, wires>>
      BY <2>5 DEF Encrypt
    <3>2. PICK pc \in {"write", "fail"} : Goto(t, pc)
      BY <2>5 DEF Encrypt
    <3>3. \A u \in Threads : u # t => tconn'[u] = tconn[u]
      BY <2>5 DEF Encrypt, Local, DataShapes, MasterShapes
    <3> QED
      BY <1>2, <1>3, <2>0, <3>1, <3>2, <3>3
  <2>6. CASE Write(t)
    <3>1. CASE Goto(t, "reread")
      BY <2>0, <2>6, <3>1, CarriedByWrite
    <3>2. CASE Goto(t, "fail") /\ UNCHANGED toServer
      <4>1. tpc[t] = "write" /\ UNCHANGED <<treq, ncalls, tconn, wires>>
        BY <2>6, <3>2 DEF Write, wires
      <4> QED
        BY <1>2, <1>3, <2>0, <3>2, <4>1
    <3> QED
      BY <2>6, <3>1, <3>2 DEF Write
  <2>7. CASE Reread(t)
    <3>1. tpc[t] = "reread" /\ UNCHANGED <<treq, ncalls, wires>> /\ Local(t, session)
      BY <2>7 DEF Reread
    <3>2. \A u \in Threads : u # t => tconn'[u] = tconn[u]
      BY <3>1 DEF Local, DataShapes, MasterShapes
    <3>3. CASE session = 0
      <4>1. Goto(t, "fail")
        BY <2>7, <3>3 DEF Reread
      <4> QED
        BY <1>2, <1>3, <2>0, <3>1, <3>2, <4>1
    <3>4. CASE session # 0
      <4>1. Goto(t, "recv") /\ tconn'[t] = tconn[t]
        BY <2>7, <3>1, <3>4 DEF Reread, Attributes, Exchanging, Local, DataShapes, MasterShapes
      <4> QED
        BY <1>2, <1>3, <2>0, <3>1, <3>2, <4>1
    <3> QED
      BY <3>3, <3>4
  <2>8. CASE Receive(t)
    <3> PICK n \in Conns : n = tconn[t]
      BY <2>8 DEF Receive, DataShapes, MasterShapes, Exchanging
    <3>1. /\ tpc[t] = "recv" /\ UNCHANGED <<treq, ncalls, toServer>> /\ toClient[n] # <<>>
          /\ toClient' = [toClient EXCEPT ![n] = Tail(toClient[n])]
      BY <2>8 DEF Receive
    <3>2. Tail(toClient[n]) = <<>>
      <4>1. /\ Tail(toClient[n]) \in Seq(Replies \cup {Garbled})
            /\ Len(Tail(toClient[n])) = Len(toClient[n]) - 1
        BY <3>1 DEF DataShapes, LinkShapes
      <4>2. PICK a \in Nat, b \in Nat : a = Len(toServer[n]) /\ b = Len(toClient[n])
        BY LoadShape
      <4>3. a + b <= 1
        BY <4>2 DEF Load, Traffic
      <4>4. PICK c \in Nat : c = Len(Tail(toClient[n]))
        BY <4>1, QueueLengths
      <4>5. c = b - 1
        BY <4>1, <4>2, <4>4
      <4>6. c = 0
        BY <4>3, <4>5
      <4>7. Garbled \in Replies \cup {Garbled}
        OBVIOUS
      <4> QED
        BY <4>1, <4>4, <4>6, <4>7, QueueLengths
    <3>3. \A m \in Conns : Shrunk(toServer'[m], toServer[m]) /\ Shrunk(toClient'[m], toClient[m])
      BY <1>0, <3>1, <3>2, ShrunkNot DEF DataShapes, LinkShapes
    <3>4. \A u \in Threads : u # t => tconn'[u] = tconn[u]
      BY <2>8 DEF Receive, Local, DataShapes, MasterShapes
    <3>5. PICK pc \in {"idle", "fail"} : Goto(t, pc)
      BY <2>8 DEF Receive
    <3> QED
      BY <1>2, <2>0, <3>1, <3>3, <3>4, <3>5
  <2>9. CASE ReceiveFails(t)
    <3>1. tpc[t] = "recv" /\ UNCHANGED <<treq, ncalls, tconn, wires>> /\ Goto(t, "fail")
      BY <2>9 DEF ReceiveFails
    <3> QED
      BY <1>2, <1>3, <2>0, <3>1
  <2>10. CASE Fail(t)
    <3>1. tpc[t] = "fail" /\ UNCHANGED <<treq, ncalls, toServer>> /\ Goto(t, "idle")
      BY <2>10 DEF Fail
    <3>2. \A m \in Conns : toClient'[m] = toClient[m] \/ toClient'[m] = <<>>
      BY <2>10 DEF Fail, DataShapes, LinkShapes
    <3>3. \A m \in Conns : Shrunk(toServer'[m], toServer[m]) /\ Shrunk(toClient'[m], toClient[m])
      BY <1>0, <3>1, <3>2, ShrunkNot
    <3>4. \A u \in Threads : u # t => tconn'[u] = tconn[u]
      BY <2>10 DEF Fail, Local, DataShapes, MasterShapes
    <3> QED
      BY <1>2, <2>0, <3>1, <3>3, <3>4
  <2> QED
    BY <1>4, <2>1, <2>2, <2>3, <2>4, <2>5, <2>6, <2>7, <2>8, <2>9, <2>10 DEF Transact
<1>5. ASSUME NEW t \in Threads, Call(t) PROVE Tracked' /\ Carried'
  BY <1>5, CarriedByCall
<1>6. ASSUME NEW t \in Threads, Timeout(t) PROVE Tracked' /\ Carried'
  <2>1. Inside(t) /\ UNCHANGED <<treq, ncalls, answered, tconn, wires>> /\ Goto(t, "fail")
    BY <1>6 DEF Timeout, Inside, counts, slave
  <2> QED
    BY <1>2, <1>3, <2>1 DEF Unsent
<1>7. ASSUME UNCHANGED <<treq, ncalls, answered, tpc, tconn, toServer>>,
             \A m \in Conns : toClient'[m] = toClient[m] \/ toClient'[m] = <<>>
      PROVE  Tracked' /\ Carried'
  BY <1>0, <1>1, <1>7, ShrunkNot
<1>8. ASSUME NEW n \in Conns, Collect(n) PROVE Tracked' /\ Carried'
  <2>1. \A m \in Conns : toClient'[m] = toClient[m] \/ toClient'[m] = <<>>
    BY <1>8 DEF Collect, DataShapes, LinkShapes
  <2> QED
    BY <1>7, <1>8, <2>1 DEF Collect, threads, counts, slave
<1>9. ASSUME NEW n \in Conns, LineNoise(n) PROVE Tracked' /\ Carried'
  <2>1. \A m \in Conns : Shrunk(toServer'[m], toServer[m]) /\ Shrunk(toClient'[m], toClient[m])
    BY <1>9, NoiseShrinks
  <2> QED
    BY <1>1, <1>9, <2>1 DEF LineNoise, threads, counts, slave
<1>10. CASE Stop
  <2>1. \A m \in Conns : toClient'[m] = toClient[m] \/ toClient'[m] = <<>>
    BY <1>10 DEF Stop, DataShapes, LinkShapes
  <2> QED
    BY <1>7, <1>10, <2>1 DEF Stop, threads, counts, slave
<1>11. CASE RestartSlave \/ UNCHANGED vars
  <2>1. UNCHANGED <<treq, ncalls, answered, tpc, tconn, toServer, toClient>>
    BY <1>11 DEF RestartSlave, vars, threads, counts, slave, wires
  <2> QED
    BY <1>7, <2>1
<1>12. CASE CrashSlave
  <2>1. \A m \in Conns : toServer'[m] = <<>>
    BY <1>12 DEF CrashSlave, SlaveEnds
  <2> QED
    BY <1>0, <1>1, <1>12, <2>1, ShrunkNot DEF CrashSlave, threads, counts
<1>13. CASE SlaveStep
  <2> USE DEF threads, counts, slave
  <2>1. CASE Accept
    BY <1>1, <1>3, <2>1 DEF Accept
  <2>2. ASSUME NEW n \in Conns, Reject(n) \/ EndOfStream(n) PROVE Tracked' /\ Carried'
    <3>1. toServer' = [toServer EXCEPT ![n] = <<>>] /\ UNCHANGED toClient
      BY <2>2 DEF Reject, EndOfStream, CloseServer
    <3>2. \A m \in Conns : toServer'[m] = toServer[m] \/ toServer'[m] = <<>>
      BY <3>1 DEF DataShapes, LinkShapes
    <3> QED
      BY <1>0, <1>1, <2>2, <3>1, <3>2, ShrunkNot DEF Reject, EndOfStream
  <2>3. ASSUME NEW n \in Conns, RunOut(n) PROVE Tracked' /\ Carried'
    <3> PICK request : request = Head(toServer[n])
      OBVIOUS
    <3>1. Executes(n) /\ Executed(request) /\ UNCHANGED <<tpc, treq, tconn, ncalls, toClient>>
      BY <2>3 DEF RunOut
    <3>2. \A m \in Conns : toServer'[m] = <<>>
      BY <2>3 DEF RunOut, SlaveEnds
    <3> QED
      BY <3>1, <3>2, CarriedByExecution
  <2>4. ASSUME NEW n \in Conns, Serve(n) PROVE Tracked' /\ Carried'
    <3> PICK request : request = Head(toServer[n])
      OBVIOUS
    <3> PICK reply : reply = Frame(n, 1, stx[n], request.id, Answer(bank, request.pdu))
      OBVIOUS
    <3>1. /\ Executes(n) /\ Executed(request) /\ UNCHANGED <<tpc, treq, tconn, ncalls>>
          /\ toServer' = [toServer EXCEPT ![n] = Tail(toServer[n])]
      BY <2>4 DEF Serve
    <3>2. \A m \in Conns : toServer'[m] = <<>>
      BY <3>1, OnlyRequest DEF DataShapes, LinkShapes
    <3>3. UNCHANGED toClient \/ toClient' = [toClient EXCEPT ![n] = Append(toClient[n], reply)]
      BY <2>4 DEF Serve
    <3>4. reply.id = request.id /\ reply.pdu = Answer(bank, request.pdu)
      BY DEF Frame
    <3>5. Append(toClient[n], reply) = <<reply>>
      <4>1. toClient[n] = <<>>
        BY <3>1, OnlyRequest
      <4> QED
        BY <4>1
    <3>6. <<reply>> # <<>> /\ Head(<<reply>>) = reply
      OBVIOUS
    <3>7. \A m \in Conns : toClient'[m] = toClient[m]
             \/ (/\ m = n /\ toClient'[m] # <<>> /\ Head(toClient'[m]).id = request.id
                 /\ Head(toClient'[m]).pdu = Answer(bank, request.pdu))
      <4>1. CASE UNCHANGED toClient
        BY <4>1
      <4>2. CASE toClient' = [toClient EXCEPT ![n] = <<reply>>]
        <5>1. toClient'[n] = <<reply>> /\ \A m \in Conns : m # n => toClient'[m] = toClient[m]
          BY <4>2 DEF DataShapes, LinkShapes
        <5> QED
          BY <3>4, <3>6, <5>1
      <4> QED
        BY <3>3, <3>5, <4>1, <4>2
    <3> QED
      BY <3>1, <3>2, <3>7, CarriedByExecution
  <2> QED
    BY <1>13, <2>1, <2>2, <2>3, <2>4 DEF SlaveStep
<1> QED
  BY <1>4, <1>5, <1>6, <1>8, <1>9, <1>10, <1>11, <1>12, <1>13 DEF Next

LEMMA CalmInit == Init => Calm
<1> SUFFICES ASSUME Init PROVE Calm
  OBVIOUS
<1>1. DataShapes
  BY DataInit
<1>2. OneServed
  BY DEF Init, OneServed
<1>3. Attributes
  BY DEF Init, Attributes, Exchanging
<1>4. \A n \in Conns : Load(n) = 0
  BY <1>1, LoadShape DEF Init
<1>5. Traffic
  BY <1>4 DEF Traffic
<1>6. Tracked /\ Carried
  <2>1. Len(<<>>) = 0
    OBVIOUS
  <2> QED
    BY <2>1 DEF Init, Tracked, Carried, AtMostOnce, Unsent
<1> QED
  BY <1>1, <1>2, <1>3, <1>5, <1>6 DEF Calm

LEMMA CalmStep ==
    ASSUME "duplicate" \notin Faults
    PROVE  Calm /\ [Next]_vars => Calm'
BY DataShapesStep, OneServedStep, AttributesStep, TrafficStep, CarriedStep DEF Calm

(* A request is executed at most once (slave_server.py:57), although it may *)
(* be executed after its call has failed and the next ones have been made:  *)
(* unless the line delivers a frame twice, a connection holds one request.  *)
THEOREM ExecutedAtMostOnce ==
    ASSUME "duplicate" \notin Faults
    PROVE  Spec => []AtMostOnce
<1>1. Init => Calm
  BY CalmInit
<1>2. Calm /\ [Next]_vars => Calm'
  BY CalmStep
<1>3. Calm => AtMostOnce
  BY DEF Calm, Tracked
<1> QED
  BY <1>1, <1>2, <1>3, PTL DEF Spec

LEMMA ReturnsItsAnswer ==
    ASSUME Calm, [Next]_vars, NEW t \in Threads, tres'[t] # tres[t], tres'[t] # NoResult
    PROVE  /\ Receive(t) /\ Decrypts(tconn[t], 1, Head(toClient[tconn[t]]))
           /\ tres'[t].id = treq[t].id /\ answered[treq[t].id] = <<tres'[t].ans>>
<1> USE DEF Calm
<1>1. tres \in [Threads -> [id : 0..MaxCalls, ans : Answers \cup {Pdu(0, <<>>)}]]
  BY DEF DataShapes, ThreadShapes
<1>2. ASSUME NEW u \in Threads, Transact(u), ~Receive(u) PROVE FALSE
  <2>1. CASE Fail(u)
    BY <1>1, <2>1 DEF Fail
  <2>2. CASE ~Fail(u)
    BY <1>2, <2>2
       DEF Transact, Acquire, Connect, Dialed, Adopt, Encrypt, Write, Reread, ReceiveFails
  <2> QED
    BY <2>1, <2>2
<1>3. ASSUME NEW u \in Threads, Call(u) \/ Timeout(u) PROVE FALSE
  BY <1>3 DEF Call, Timeout
<1>4. ASSUME NEW n \in Conns, Collect(n) \/ LineNoise(n) PROVE FALSE
  BY <1>4 DEF Collect, LineNoise, threads
<1>5. CASE Stop \/ SlaveStep \/ RestartSlave \/ CrashSlave \/ UNCHANGED vars
  BY <1>5 DEF Stop, SlaveStep, Accept, Serve, Reject, RunOut, EndOfStream, RestartSlave,
              CrashSlave, vars, threads
<1>6. ASSUME NEW u \in Threads, Receive(u)
      PROVE  /\ Receive(t) /\ Decrypts(tconn[t], 1, Head(toClient[tconn[t]]))
             /\ tres'[t].id = treq[t].id /\ answered[treq[t].id] = <<tres'[t].ans>>
  <2>1. PICK frame : frame = Head(toClient[tconn[u]])
    OBVIOUS
  <2>2. /\ tpc[u] = "recv" /\ tconn[u] \in Conns /\ toClient[tconn[u]] # <<>>
    BY <1>6 DEF Receive, DataShapes, MasterShapes, Exchanging
  <2>3. /\ Decrypts(tconn[u], 1, frame)
        /\ tres' = [tres EXCEPT ![u] = [id |-> frame.id, ans |-> frame.pdu]]
    BY <1>6, <2>1 DEF Receive
  <2>4. u = t /\ tres'[t] = [id |-> frame.id, ans |-> frame.pdu]
    BY <1>1, <2>3
  <2>5. frame \in Replies
    BY <2>1, <2>2, <2>3, HeadShapes, GarbledShape DEF Decrypts, Conns, Calls
  <2>6. frame.id # 0
    BY <2>5 DEF Replies, Calls
  <2>7. frame.id = treq[t].id /\ answered[frame.id] = <<frame.pdu>>
    BY <2>1, <2>2, <2>4, <2>6 DEF Carried
  <2> QED
    BY <1>6, <2>1, <2>3, <2>4, <2>7
<1> QED
  BY <1>2, <1>3, <1>4, <1>5, <1>6 DEF Next, Transact

(* The answer a caller gets was computed for its own call                   *)
(* (master_server.py:74), though answers carry no transaction number.      *)
THEOREM AnswersMatch ==
    ASSUME "duplicate" \notin Faults
    PROVE  Spec => AnswerMatches
<1>1. Init => Calm
  BY CalmInit
<1>2. Calm /\ [Next]_vars => Calm'
  BY CalmStep
<1>3. Calm /\ [Next]_vars =>
        [\A t \in Threads : tres'[t] # tres[t] /\ tres'[t] # NoResult =>
           /\ tres'[t].id = treq[t].id
           /\ answered[treq[t].id] = <<tres'[t].ans>>]_vars
  BY ReturnsItsAnswer
<1> QED
  BY <1>1, <1>2, <1>3, PTL DEF Spec, AnswerMatches

-----------------------------------------------------------------------------
(* What the callers are promised: the state of RegisterService *)
OpenCalls == [t \in Threads |-> IF tpc[t] = "idle" THEN IdleCall ELSE OpenCall(t)]
LateCalls == {[id |-> f.id, pdu |-> f.pdu] : f \in {g \in Queued : g.id # 0 /\ ~Active(g.id)}}

LEMMA ServiceBank ==
    /\ Service!InitialBank = InitialBank
    /\ \A registers, pdu : Service!After(registers, pdu) = After(registers, pdu)
    /\ \A registers, pdu : Service!Answer(registers, pdu) = Answer(registers, pdu)
<1>1. Service!InitialBank = InitialBank
  BY DEF Service!InitialBank, InitialBank
<1>2. \A registers, pdu : Service!After(registers, pdu) = After(registers, pdu)
  BY DEF Service!After, After, Service!Writes, Writes, Service!WriteSingle, WriteSingle,
         Service!WriteInRange, WriteInRange
<1>3. \A registers, pdu : Service!Answer(registers, pdu) = Answer(registers, pdu)
  BY DEF Service!Answer, Answer, Service!ReadHolding, ReadHolding, Service!WriteSingle, WriteSingle,
         Service!ReadInRange, ReadInRange, Service!WriteInRange, WriteInRange,
         Service!Pdu, Pdu, Service!Slice, Slice, Service!Exception, Exception,
         Service!IllegalAddress, IllegalAddress, Service!IllegalFunction, IllegalFunction
<1> QED
  BY <1>1, <1>2, <1>3

LEMMA ServiceVars == Service!vars = <<bank, OpenCalls, LateCalls, tres, ncalls>>
BY DEF Service!vars, OpenCalls, LateCalls

LEMMA ServiceActions ==
    /\ Service!Init <=>
         /\ bank = Service!InitialBank /\ OpenCalls = [t \in Threads |-> Service!Idle]
         /\ LateCalls = {} /\ tres = [t \in Threads |-> Service!Error] /\ ncalls = 0
    /\ \A t : Service!Invoke(t) <=> \E pdu \in Pdus :
         /\ OpenCalls[t].st = "idle"
         /\ ncalls' = ncalls + 1
         /\ OpenCalls' = [OpenCalls EXCEPT ![t] = [st |-> "open", id |-> ncalls + 1, pdu |-> pdu,
                                                   ans |-> Service!NoAnswer]]
         /\ UNCHANGED <<bank, LateCalls, tres>>
    /\ \A t : Service!TakeEffect(t) <=>
         /\ OpenCalls[t].st = "open"
         /\ bank' = Service!After(bank, OpenCalls[t].pdu)
         /\ OpenCalls' = [OpenCalls EXCEPT ![t] =
               [st |-> "done", id |-> OpenCalls[t].id, pdu |-> OpenCalls[t].pdu,
                ans |-> Service!Answer(bank, OpenCalls[t].pdu)]]
         /\ LateCalls' = {}
         /\ UNCHANGED <<ncalls, tres>>
    /\ Service!LateEffect <=> \E c \in LateCalls :
         /\ bank' = Service!After(bank, c.pdu)
         /\ LateCalls' \in SUBSET (LateCalls \ {c})
         /\ UNCHANGED <<OpenCalls, ncalls, tres>>
    /\ \A t : Service!Return(t) <=>
         /\ OpenCalls[t].st = "done"
         /\ OpenCalls' = [OpenCalls EXCEPT ![t] = Service!Idle]
         /\ tres' = [tres EXCEPT ![t] = [id |-> OpenCalls[t].id, ans |-> OpenCalls[t].ans]]
         /\ UNCHANGED <<bank, LateCalls, ncalls>>
    /\ \A t : Service!Fail(t) <=>
         /\ OpenCalls[t].st \in {"open", "done"}
         /\ OpenCalls' = [OpenCalls EXCEPT ![t] = Service!Idle]
         /\ \/ UNCHANGED LateCalls
            \/ /\ OpenCalls[t].st = "open"
               /\ LateCalls' = LateCalls \cup {[id |-> OpenCalls[t].id, pdu |-> OpenCalls[t].pdu]}
         /\ tres' = [tres EXCEPT ![t] = Service!Error]
         /\ UNCHANGED <<bank, ncalls>>
    /\ Service!Forget <=>
         /\ LateCalls' \in SUBSET LateCalls
         /\ UNCHANGED <<bank, OpenCalls, tres, ncalls>>
    /\ Service!Reset <=>
         /\ bank' = Service!InitialBank
         /\ UNCHANGED <<OpenCalls, LateCalls, tres, ncalls>>
BY DEF Service!Init, Service!Invoke, Service!TakeEffect, Service!LateEffect, Service!Return,
       Service!Fail, Service!Forget, Service!Reset, OpenCalls, LateCalls

LEMMA ServiceIdle ==
    /\ Service!NoAnswer = Pdu(0, <<>>) /\ Service!Idle = IdleCall /\ Service!Error = NoResult
BY DEF Service!NoAnswer, Service!Idle, Service!Error, Service!Pdu, Pdu, IdleCall, NoResult

LEMMA OneElement ==
    ASSUME NEW S, NEW queue \in Seq(S), Len(queue) <= 1
    PROVE  \A f : (f \in {queue[i] : i \in DOMAIN queue}) <=> (queue # <<>> /\ f = Head(queue))
<1>1. CASE queue = <<>>
  BY <1>1
<1>2. CASE queue # <<>>
  <2>1. PICK a \in Nat : a = Len(queue)
    OBVIOUS
  <2>3. a # 0 /\ a <= 1
    BY <1>2, <2>1
  <2>4. a = 1
    BY <2>3
  <2>5. DOMAIN queue = 1..a /\ Head(queue) = queue[1]
    BY <1>2, <2>1
  <2>2. DOMAIN queue = {1}
    BY <2>4, <2>5
  <2> QED
    BY <1>2, <2>2, <2>5
<1> QED
  BY <1>1, <1>2

LEMMA LateNow ==
    ASSUME Calm
    PROVE  \A c : c \in LateCalls <=>
             \E n \in Conns : /\ toServer[n] # <<>> /\ Head(toServer[n]).id # 0
                              /\ ~Active(Head(toServer[n]).id)
                              /\ c = [id |-> Head(toServer[n]).id, pdu |-> Head(toServer[n]).pdu]
<1>1. \A n \in Conns : toServer[n] \in Seq(Requests \cup {Garbled}) /\ Len(toServer[n]) <= 1
  <2> SUFFICES ASSUME NEW n \in Conns
               PROVE  toServer[n] \in Seq(Requests \cup {Garbled}) /\ Len(toServer[n]) <= 1
    OBVIOUS
  <2>1. PICK a \in Nat, b \in Nat : a = Len(toServer[n]) /\ b = Len(toClient[n])
    BY LoadShape DEF Calm
  <2>2. a + b <= 1
    BY <2>1 DEF Load, Traffic, Calm
  <2>3. a <= 1
    BY <2>2
  <2> QED
    BY <2>1, <2>3 DEF Calm, DataShapes, LinkShapes
<1>2. \A n \in Conns : \A f : (f \in {toServer[n][i] : i \in DOMAIN toServer[n]})
                              <=> (toServer[n] # <<>> /\ f = Head(toServer[n]))
  BY <1>1, OneElement
<1>3. \A f : f \in Queued <=> \E n \in Conns : toServer[n] # <<>> /\ f = Head(toServer[n])
  <2>1. \A f : f \in Queued <=> \E n \in Conns : f \in {toServer[n][i] : i \in DOMAIN toServer[n]}
    BY DEF Queued
  <2> QED
    BY <1>2, <2>1, ZenonT(60)
<1> QED
  BY <1>3, Zenon DEF LateCalls

LEMMA LateThen ==
    ASSUME Calm'
    PROVE  \A c : c \in LateCalls' <=>
             \E n \in Conns : /\ toServer'[n] # <<>> /\ Head(toServer'[n]).id # 0
                              /\ ~Active(Head(toServer[n]).id)'
                              /\ c = [id |-> Head(toServer'[n]).id, pdu |-> Head(toServer'[n]).pdu]
<1>1. \A n \in Conns : toServer'[n] \in Seq(Requests \cup {Garbled}) /\ Len(toServer'[n]) <= 1
  <2> SUFFICES ASSUME NEW n \in Conns
               PROVE  toServer'[n] \in Seq(Requests \cup {Garbled}) /\ Len(toServer'[n]) <= 1
    OBVIOUS
  <2>1. PICK a \in Nat, b \in Nat : a = Len(toServer'[n]) /\ b = Len(toClient'[n])
    BY LoadThen DEF Calm
  <2>2. a + b <= 1
    BY <2>1 DEF Load, Traffic, Calm
  <2>3. a <= 1
    BY <2>2
  <2> QED
    BY <2>1, <2>3 DEF Calm, DataShapes, LinkShapes
<1>2. \A n \in Conns : \A f : (f \in {toServer'[n][i] : i \in DOMAIN toServer'[n]})
                              <=> (toServer'[n] # <<>> /\ f = Head(toServer'[n]))
  BY <1>1, OneElement
<1>3. \A f : f \in Queued' <=> \E n \in Conns : toServer'[n] # <<>> /\ f = Head(toServer'[n])
  <2>1. \A f : f \in Queued' <=> \E n \in Conns : f \in {toServer'[n][i] : i \in DOMAIN toServer'[n]}
    BY DEF Queued
  <2> QED
    BY <1>2, <2>1, ZenonT(60)
<1> QED
  BY <1>3, Zenon DEF LateCalls

LEMMA CallsSame ==
    ASSUME \A t \in Threads : tpc'[t] = "idle" <=> tpc[t] = "idle", UNCHANGED <<treq, answered>>
    PROVE  OpenCalls' = OpenCalls /\ \A id : Active(id)' <=> Active(id)
BY DEF OpenCalls, OpenCall, Active

(* A step that no caller sees, but that calls may be forgotten in *)
LEMMA Forgetful ==
    ASSUME Calm, Calm', \A t \in Threads : tpc'[t] = "idle" <=> tpc[t] = "idle",
           UNCHANGED <<treq, answered, bank, tres, ncalls>>,
           \A n \in Conns : Shrunk(toServer'[n], toServer[n])
    PROVE  Service!Forget
<1>1. OpenCalls' = OpenCalls /\ \A id : Active(id)' <=> Active(id)
  BY CallsSame
<1>2. ASSUME NEW c \in LateCalls' PROVE c \in LateCalls
  <2>1. PICK n \in Conns : /\ toServer'[n] # <<>> /\ Head(toServer'[n]).id # 0
                           /\ ~Active(Head(toServer[n]).id)'
                           /\ c = [id |-> Head(toServer'[n]).id, pdu |-> Head(toServer'[n]).pdu]
    BY <1>2, LateThen
  <2>2. toServer[n] # <<>> /\ Head(toServer'[n]) = Head(toServer[n])
    BY <2>1 DEF Shrunk
  <2>3. ~Active(Head(toServer[n]).id)
    <3>1. ASSUME NEW id, id = Head(toServer[n]).id, Active(id) PROVE FALSE
      <4>1. Active(id)'
        BY <1>1, <3>1
      <4> QED
        BY <2>1, <2>2, <3>1, <4>1 DEF Active
    <3> QED
      BY <3>1
  <2> QED
    BY <2>1, <2>2, <2>3, LateNow
<1> QED
  BY <1>1, <1>2, ServiceActions

(* A step that no caller sees *)
LEMMA Unseen ==
    ASSUME Calm, Calm', \A t \in Threads : tpc'[t] = "idle" <=> tpc[t] = "idle",
           UNCHANGED <<treq, answered, bank, tres, ncalls, toServer>>
    PROVE  UNCHANGED Service!vars
<1>1. OpenCalls' = OpenCalls /\ \A id : Active(id)' <=> Active(id)
  BY CallsSame
<1>2. LateCalls' = LateCalls
  BY <1>1 DEF LateCalls, Queued
<1> QED
  BY <1>1, <1>2 DEF Service!vars, OpenCalls, LateCalls

LEMMA LateSame ==
    ASSUME Calm, Calm', UNCHANGED toServer,
           \A n \in Conns : \A id : toServer[n] # <<>> /\ id = Head(toServer[n]).id /\ id # 0 =>
                (Active(id)' <=> Active(id))
    PROVE  LateCalls' = LateCalls
<1>1. \A c : c \in LateCalls' <=> c \in LateCalls
  <2> SUFFICES ASSUME NEW c PROVE c \in LateCalls' <=> c \in LateCalls
    OBVIOUS
  <2>1. ASSUME NEW n \in Conns, toServer[n] # <<>>, Head(toServer[n]).id # 0
        PROVE  Active(Head(toServer[n]).id)' <=> Active(Head(toServer[n]).id)
    <3>1. ASSUME NEW id, id = Head(toServer[n]).id
          PROVE  Active(Head(toServer[n]).id)' <=> Active(Head(toServer[n]).id)
      <4>1. Active(id)' <=> Active(id)
        BY <2>1, <3>1
      <4>2. Head(toServer'[n]).id = id
        BY <3>1
      <4> QED
        BY <3>1, <4>1, <4>2 DEF Active
    <3> QED
      BY <3>1
  <2> QED
    BY <2>1, LateNow, LateThen
<1> QED
  BY <1>1

LEMMA CallInvokes ==
    ASSUME Calm, Calm', NEW t \in Threads, Call(t)
    PROVE  Service!Invoke(t)
<1> USE DEF Calm
<1>1. PICK pdu \in Pdus : treq' = [treq EXCEPT ![t] = [id |-> ncalls + 1, pdu |-> pdu]]
  BY DEF Call
<1>2. /\ tpc[t] = "idle" /\ ncalls' = ncalls + 1 /\ ncalls + 1 \in Calls /\ ncalls \in Nat
      /\ UNCHANGED <<answered, toServer, bank, tres>>
      /\ tpc' = [tpc EXCEPT ![t] = "want"]
  BY DataAssumption DEF Call, slave, wires, DataShapes, ThreadShapes, Calls
<1>3. /\ treq'[t] = [id |-> ncalls + 1, pdu |-> pdu] /\ tpc'[t] = "want"
      /\ \A u \in Threads : u # t => treq'[u] = treq[u] /\ tpc'[u] = tpc[u]
  BY <1>1, <1>2 DEF DataShapes, ThreadShapes
<1>4. answered[ncalls + 1] = <<>>
  BY <1>2 DEF Tracked
<1>5. OpenCalls'[t] = [st |-> "open", id |-> ncalls + 1, pdu |-> pdu, ans |-> Pdu(0, <<>>)]
  BY <1>2, <1>3, <1>4 DEF OpenCalls, OpenCall
<1>6. \A u \in Threads : u # t => OpenCalls'[u] = OpenCalls[u]
  BY <1>2, <1>3 DEF OpenCalls, OpenCall
<1>7. OpenCalls' = [OpenCalls EXCEPT ![t] = [st |-> "open", id |-> ncalls + 1, pdu |-> pdu,
                                             ans |-> Pdu(0, <<>>)]]
  BY <1>5, <1>6 DEF OpenCalls
<1>8. OpenCalls[t].st = "idle"
  BY <1>2 DEF OpenCalls, IdleCall
<1>9. ASSUME NEW n \in Conns, NEW id, toServer[n] # <<>>, id = Head(toServer[n]).id, id # 0
      PROVE  Active(id)' <=> Active(id)
  <2>1. id <= ncalls /\ id \in Calls
    BY <1>9, HeadIds DEF Carried, Requested
  <2>2. id # ncalls + 1
    BY <1>2, <2>1 DEF Calls
  <2> QED
    BY <1>2, <1>3, <2>2 DEF Active
<1>10. LateCalls' = LateCalls
  BY <1>2, <1>9, LateSame
<1> QED
  BY <1>2, <1>7, <1>8, <1>10, ServiceActions, ServiceIdle

LEMMA ReceiveReturns ==
    ASSUME Calm, Calm', NEW t \in Threads, Receive(t), UNCHANGED <<answered, bank>>,
           Decrypts(tconn[t], 1, Head(toClient[tconn[t]]))
    PROVE  Service!Return(t)
<1> USE DEF Calm
<1>1. PICK frame : frame = Head(toClient[tconn[t]])
  OBVIOUS
<1>2. /\ tpc[t] = "recv" /\ tconn[t] \in Conns /\ toClient[tconn[t]] # <<>>
      /\ tres' = [tres EXCEPT ![t] = [id |-> frame.id, ans |-> frame.pdu]]
      /\ tpc' = [tpc EXCEPT ![t] = "idle"] /\ UNCHANGED <<treq, ncalls, toServer>>
  BY <1>1 DEF Receive, DataShapes, MasterShapes, Exchanging, Goto, counts
<1>3. frame \in Replies
  BY <1>1, <1>2, HeadShapes, GarbledShape DEF Decrypts, Conns, Calls
<1>4. frame.id # 0
  BY <1>3 DEF Replies, Calls
<1>5. frame.id = treq[t].id /\ answered[frame.id] = <<frame.pdu>>
  BY <1>1, <1>2, <1>4 DEF Carried
<1>6. <<frame.pdu>> # <<>> /\ <<frame.pdu>>[1] = frame.pdu
  OBVIOUS
<1>7. OpenCalls[t].st = "done" /\ OpenCalls[t].id = frame.id /\ OpenCalls[t].ans = frame.pdu
  BY <1>2, <1>5, <1>6 DEF OpenCalls, OpenCall
<1>8. tpc'[t] = "idle" /\ \A u \in Threads : u # t => tpc'[u] = tpc[u]
  BY <1>2 DEF DataShapes, ThreadShapes
<1>9. OpenCalls'[t] = IdleCall /\ \A u \in Threads : u # t => OpenCalls'[u] = OpenCalls[u]
  BY <1>2, <1>8 DEF OpenCalls, OpenCall
<1>10. OpenCalls' = [OpenCalls EXCEPT ![t] = IdleCall]
  BY <1>9 DEF OpenCalls
<1>11. ASSUME NEW n \in Conns, NEW id, toServer[n] # <<>>, id = Head(toServer[n]).id, id # 0
       PROVE  Active(id)' <=> Active(id)
  <2>1. answered[id] = <<>>
    BY <1>11 DEF Carried, Requested
  <2>2. id # treq[t].id
    BY <1>5, <1>6, <2>1
  <2> QED
    BY <1>2, <1>8, <2>2 DEF Active
<1>12. LateCalls' = LateCalls
  BY <1>2, <1>11, LateSame
<1> QED
  BY <1>2, <1>7, <1>10, <1>12, ServiceActions, ServiceIdle

LEMMA FailFails ==
    ASSUME Calm, Calm', NEW t \in Threads, Fail(t), UNCHANGED <<answered, bank>>
    PROVE  Service!Fail(t)
<1> USE DEF Calm
<1>1. /\ tpc[t] = "fail" /\ UNCHANGED <<treq, ncalls, toServer>>
      /\ tres' = [tres EXCEPT ![t] = NoResult] /\ tpc' = [tpc EXCEPT ![t] = "idle"]
  BY DEF Fail, Goto, counts
<1>2. OpenCalls[t].st \in {"open", "done"} /\ OpenCalls[t].id = treq[t].id
      /\ OpenCalls[t].pdu = treq[t].pdu /\ (answered[treq[t].id] = <<>> => OpenCalls[t].st = "open")
  BY <1>1 DEF OpenCalls, OpenCall
<1>3. tpc'[t] = "idle" /\ \A u \in Threads : u # t => tpc'[u] = tpc[u]
  BY <1>1 DEF DataShapes, ThreadShapes
<1>4. OpenCalls'[t] = IdleCall /\ \A u \in Threads : u # t => OpenCalls'[u] = OpenCalls[u]
  BY <1>1, <1>3 DEF OpenCalls, OpenCall
<1>5. OpenCalls' = [OpenCalls EXCEPT ![t] = IdleCall]
  BY <1>4 DEF OpenCalls
<1>6. \A id : Active(id)' <=> Active(id) /\ id # treq[t].id
  BY <1>1, <1>3 DEF Active, Tracked
<1>7. CASE \E n \in Conns : toServer[n] # <<>> /\ Head(toServer[n]).id = treq[t].id
  <2> PICK n \in Conns : toServer[n] # <<>> /\ Head(toServer[n]).id = treq[t].id
    BY <1>7
  <2> PICK id : id = treq[t].id
    OBVIOUS
  <2>1. id # 0 /\ Active(id) /\ ~Active(id)'
    <3>1. id # 0
      BY <1>1 DEF DataShapes, ThreadShapes, Calls
    <3>2. Active(id)
      BY <1>1 DEF Active
    <3> QED
      BY <1>6, <3>1, <3>2
  <2>2. answered[id] = <<>> /\ Head(toServer[n]).pdu = treq[t].pdu
    BY <1>1, <2>1 DEF Carried, Requested
  <2>3. \A c : c \in LateCalls' <=> c \in LateCalls \/ c = [id |-> id, pdu |-> treq[t].pdu]
    <3>1. ASSUME NEW m \in Conns, toServer[m] # <<>>, Head(toServer[m]).id # 0
          PROVE  /\ ~Active(Head(toServer[m]).id)' <=> ~Active(Head(toServer[m]).id) \/ Head(toServer[m]).id = id
                 /\ Head(toServer[m]).id = id => Head(toServer[m]).pdu = treq[t].pdu
      <4>1. ASSUME NEW i, i = Head(toServer[m]).id
            PROVE  ~Active(Head(toServer[m]).id)' <=> ~Active(Head(toServer[m]).id) \/ Head(toServer[m]).id = id
        <5>1. Active(i)' <=> Active(i) /\ i # id
          BY <1>6
        <5>2. Head(toServer'[m]).id = i
          BY <1>1, <4>1
        <5> QED
          BY <4>1, <5>1, <5>2 DEF Active
      <4>2. Head(toServer[m]).id = id => Head(toServer[m]).pdu = treq[t].pdu
        BY <1>1, <3>1 DEF Carried, Requested
      <4> QED
        BY <4>1, <4>2
    <3> QED
      BY <1>1, <2>1, <2>2, <3>1, LateNow, LateThen
  <2>4. LateCalls' = LateCalls \cup {[id |-> OpenCalls[t].id, pdu |-> OpenCalls[t].pdu]}
    BY <1>2, <2>3
  <2> QED
    BY <1>1, <1>2, <1>5, <2>2, <2>4, ServiceActions, ServiceIdle
<1>8. CASE ~\E n \in Conns : toServer[n] # <<>> /\ Head(toServer[n]).id = treq[t].id
  <2>1. LateCalls' = LateCalls
    BY <1>1, <1>6, <1>8, LateSame
  <2> QED
    BY <1>1, <1>2, <1>5, <2>1, ServiceActions, ServiceIdle
<1> QED
  BY <1>7, <1>8

LEMMA WriteUnseen ==
    ASSUME Calm, Calm', NEW t \in Threads, Write(t), Goto(t, "reread"), UNCHANGED <<answered, bank>>
    PROVE  UNCHANGED Service!vars
<1> USE DEF Calm
<1>0. PICK n \in Conns : n = tconn[t]
  BY DEF Write, DataShapes, MasterShapes, Exchanging
<1>1. /\ tpc[t] = "write" /\ cst[n] = "open" /\ UNCHANGED <<treq, tres, ncalls>>
      /\ toServer' = [toServer EXCEPT ![n] = Append(toServer[n], Request(t, n))]
  <2>1. tpc'[t] = "reread"
    BY DEF Goto, DataShapes, ThreadShapes
  <2>2. ~Goto(t, "fail")
    BY <2>1 DEF Goto, DataShapes, ThreadShapes
  <2> QED
    BY <1>0, <2>2 DEF Write, counts
<1>2. toServer[n] = <<>>
  <2>1. Writable(n)
    BY <1>0, <1>1 DEF Writable
  <2> QED
    BY <1>1, <2>1, LoadShape DEF Traffic
<1>3. Request(t, n) \in Requests /\ Request(t, n).id = treq[t].id
  BY <1>1, RequestShapes DEF Request, Frame, DataShapes, ThreadShapes, LinkShapes
<1>4. /\ toServer'[n] # <<>> /\ Head(toServer'[n]).id = treq[t].id
      /\ \A m \in Conns : m # n => toServer'[m] = toServer[m]
  <2>1. toServer'[n] = <<Request(t, n)>> /\ \A m \in Conns : m # n => toServer'[m] = toServer[m]
    BY <1>1, <1>2, <1>3, QueueLengths DEF DataShapes, LinkShapes
  <2> QED
    BY <1>3, <2>1
<1>5. \A u \in Threads : tpc'[u] = "idle" <=> tpc[u] = "idle"
  BY <1>1 DEF Goto, DataShapes, ThreadShapes
<1>6. OpenCalls' = OpenCalls /\ \A id : Active(id)' <=> Active(id)
  BY <1>1, <1>5, CallsSame
<1>7. \A c : c \in LateCalls' <=> c \in LateCalls
  <2> SUFFICES ASSUME NEW c PROVE c \in LateCalls' <=> c \in LateCalls
    OBVIOUS
  <2>1. Active(Head(toServer[n]).id)'
    <3>1. tpc'[t] # "idle" /\ treq'[t].id = Head(toServer'[n]).id
      BY <1>1, <1>4, <1>5
    <3> QED
      BY <3>1 DEF Active
  <2>2. ASSUME NEW m \in Conns, m # n, toServer[m] # <<>>
        PROVE  Active(Head(toServer[m]).id)' <=> Active(Head(toServer[m]).id)
    <3>1. ASSUME NEW id, id = Head(toServer[m]).id
          PROVE  Active(Head(toServer[m]).id)' <=> Active(Head(toServer[m]).id)
      <4>1. Head(toServer'[m]).id = id
        BY <1>4, <2>2, <3>1
      <4> QED
        BY <1>6, <3>1, <4>1 DEF Active
    <3> QED
      BY <3>1
  <2> QED
    BY <1>2, <1>4, <2>1, <2>2, LateNow, LateThen
<1>8. LateCalls' = LateCalls
  BY <1>7
<1> QED
  BY <1>1, <1>6, <1>8 DEF Service!vars, OpenCalls, LateCalls

LEMMA ExecutionTakesEffect ==
    ASSUME Calm, Calm', NEW n \in Conns, Executes(n), NEW request, request = Head(toServer[n]),
           Executed(request), UNCHANGED <<tpc, treq, tres, ncalls>>,
           \A m \in Conns : toServer'[m] = <<>>
    PROVE  (\E t \in Threads : Service!TakeEffect(t)) \/ Service!LateEffect
<1> USE DEF Calm
<1>1. request.id \in Calls /\ answered[request.id] = <<>> /\ Requested(request)
      /\ toServer[n] # <<>> /\ request.id # 0
  BY OnlyRequest DEF Executes, Calls
<1>2. /\ answered'[request.id] = <<Answer(bank, request.pdu)>>
      /\ \A c \in Calls : c # request.id => answered'[c] = answered[c]
  <2>1. answered' = [answered EXCEPT ![request.id] =
                        Append(answered[request.id], Answer(bank, request.pdu))]
    BY DEF Executed
  <2>2. Append(answered[request.id], Answer(bank, request.pdu)) = <<Answer(bank, request.pdu)>>
    BY <1>1
  <2> QED
    BY <1>1, <2>1, <2>2 DEF DataShapes, LinkShapes
<1>3. LateCalls' = {}
  BY LateThen
<1>4. bank' = After(bank, request.pdu)
  BY DEF Executed
<1>5. \A u \in Threads : tpc[u] # "idle" /\ treq[u].id # request.id => OpenCalls'[u] = OpenCalls[u]
  BY <1>2 DEF OpenCalls, OpenCall, DataShapes, ThreadShapes
<1>6. \A u \in Threads : tpc[u] = "idle" => OpenCalls'[u] = OpenCalls[u]
  BY DEF OpenCalls
<1>7. ASSUME NEW t \in Threads, tpc[t] # "idle", treq[t].id = request.id PROVE Service!TakeEffect(t)
  <2>1. request.pdu = treq[t].pdu
    BY <1>1, <1>7 DEF Requested
  <2>2. OpenCalls[t] = [st |-> "open", id |-> treq[t].id, pdu |-> treq[t].pdu, ans |-> Pdu(0, <<>>)]
    BY <1>1, <1>7 DEF OpenCalls, OpenCall
  <2>3. OpenCalls'[t] = [st |-> "done", id |-> treq[t].id, pdu |-> treq[t].pdu,
                         ans |-> Answer(bank, request.pdu)]
    <3>1. <<Answer(bank, request.pdu)>> # <<>>
          /\ <<Answer(bank, request.pdu)>>[1] = Answer(bank, request.pdu)
      OBVIOUS
    <3> QED
      BY <1>2, <1>7, <3>1 DEF OpenCalls, OpenCall
  <2>4. \A u \in Threads : u # t => OpenCalls'[u] = OpenCalls[u]
    BY <1>5, <1>6, <1>7 DEF Tracked
  <2>5. OpenCalls' = [OpenCalls EXCEPT ![t] =
                        [st |-> "done", id |-> OpenCalls[t].id, pdu |-> OpenCalls[t].pdu,
                         ans |-> Answer(bank, OpenCalls[t].pdu)]]
    <3>1. OpenCalls' = [u \in Threads |-> OpenCalls'[u]] /\ OpenCalls = [u \in Threads |-> OpenCalls[u]]
      BY DEF OpenCalls
    <3> QED
      BY <2>1, <2>2, <2>3, <2>4, <3>1
  <2>6. OpenCalls[t].st = "open" /\ OpenCalls[t].pdu = request.pdu
    BY <2>1, <2>2
  <2>7. bank' = Service!After(bank, OpenCalls[t].pdu)
    BY <1>4, <2>6, ServiceBank
  <2>8. OpenCalls' = [OpenCalls EXCEPT ![t] =
                        [st |-> "done", id |-> OpenCalls[t].id, pdu |-> OpenCalls[t].pdu,
                         ans |-> Service!Answer(bank, OpenCalls[t].pdu)]]
    BY <2>5, ServiceBank, Zenon
  <2>9. UNCHANGED <<ncalls, tres>>
    OBVIOUS
  <2> QED
    BY <1>3, <2>6, <2>7, <2>8, <2>9, ServiceActions, Zenon
<1>8. CASE ~\E t \in Threads : tpc[t] # "idle" /\ treq[t].id = request.id
  <2>1. OpenCalls' = OpenCalls
    <3>1. \A u \in Threads : OpenCalls'[u] = OpenCalls[u]
      BY <1>5, <1>6, <1>8
    <3>2. OpenCalls' = [u \in Threads |-> OpenCalls'[u]] /\ OpenCalls = [u \in Threads |-> OpenCalls[u]]
      BY DEF OpenCalls
    <3> QED
      BY <3>1, <3>2
  <2>2. ~Active(Head(toServer[n]).id)
    BY <1>8 DEF Active
  <2>3. [id |-> request.id, pdu |-> request.pdu] \in LateCalls
    BY <1>1, <2>2, LateNow
  <2> QED
    BY <1>3, <1>4, <2>1, <2>3, ServiceActions, ServiceBank
<1> QED
  BY <1>7, <1>8

LEMMA ServiceInit == Init => Service!Init
<1> SUFFICES ASSUME Init PROVE Service!Init
  OBVIOUS
<1>1. OpenCalls = [t \in Threads |-> IdleCall]
  BY DEF Init, OpenCalls
<1>2. LateCalls = {}
  BY CalmInit, LateNow DEF Init
<1> QED
  BY <1>1, <1>2, ServiceActions, ServiceBank, ServiceIdle DEF Init

LEMMA ServiceStep ==
    ASSUME "duplicate" \notin Faults, Calm, Calm', [Next]_vars
    PROVE  [Service!Next]_(Service!vars)
<1> USE DEF Calm
<1>1. ASSUME UNCHANGED Service!vars PROVE [Service!Next]_(Service!vars)
  BY <1>1
<1>2. ASSUME NEW t \in Threads,
             Service!Invoke(t) \/ Service!TakeEffect(t) \/ Service!Return(t) \/ Service!Fail(t)
      PROVE  [Service!Next]_(Service!vars)
  BY <1>2 DEF Service!Next
<1>3. ASSUME Service!LateEffect \/ Service!Forget \/ Service!Reset
      PROVE  [Service!Next]_(Service!vars)
  BY <1>3 DEF Service!Next
<1>4. ASSUME NEW t \in Threads, tpc[t] # "idle", NEW pc, Goto(t, pc), pc # "idle",
             UNCHANGED <<treq, answered, bank, tres, ncalls, toServer>>
      PROVE  UNCHANGED Service!vars
  <2>1. \A u \in Threads : tpc'[u] = "idle" <=> tpc[u] = "idle"
    BY <1>4 DEF Goto, DataShapes, ThreadShapes
  <2> QED
    BY <1>4, <2>1, Unseen
<1>5. ASSUME NEW t \in Threads, Transact(t) PROVE [Service!Next]_(Service!vars)
  <2> USE DEF counts, wires
  <2>0. UNCHANGED <<answered, bank>>
    BY <1>5 DEF Transact, slave
  <2>1. CASE Acquire(t)
    <3>1. /\ UNCHANGED <<treq, tres, ncalls, toServer>> /\ Goto(t, "connect") /\ tpc[t] = "want"
      BY <2>1 DEF Acquire
    <3> QED
      BY <1>1, <1>4, <2>0, <3>1
  <2>2. CASE Connect(t)
    <3>1. tpc[t] = "connect" /\ UNCHANGED <<treq, tres, ncalls, toServer>>
      BY <2>2 DEF Connect
    <3>2. PICK pc \in {"send", "fail", "dial"} : Goto(t, pc)
      BY <2>2, ConnectGoes
    <3> QED
      BY <1>1, <1>4, <2>0, <3>1, <3>2
  <2>3. CASE Dialed(t)
    <3>1. tpc[t] = "dial" /\ UNCHANGED <<treq, tres, ncalls, toServer>>
      BY <2>3 DEF Dialed
    <3>2. PICK pc \in {"adopt", "fail"} : Goto(t, pc)
      BY <2>3 DEF Dialed
    <3> QED
      BY <1>1, <1>4, <2>0, <3>1, <3>2
  <2>4. CASE Adopt(t)
    <3>1. tpc[t] = "adopt" /\ UNCHANGED <<treq, tres, ncalls, toServer>> /\ Goto(t, "send")
      BY <2>4 DEF Adopt
    <3> QED
      BY <1>1, <1>4, <2>0, <3>1
  <2>5. CASE Encrypt(t)
    <3>1. tpc[t] = "send" /\ UNCHANGED <<treq, tres, ncalls, toServer>>
      BY <2>5 DEF Encrypt
    <3>2. PICK pc \in {"write", "fail"} : Goto(t, pc)
      BY <2>5 DEF Encrypt
    <3> QED
      BY <1>1, <1>4, <2>0, <3>1, <3>2
  <2>6. CASE Write(t)
    <3>1. CASE Goto(t, "reread")
      BY <1>1, <2>0, <2>6, <3>1, WriteUnseen
    <3>2. CASE Goto(t, "fail") /\ UNCHANGED toServer
      <4>1. tpc[t] = "write" /\ UNCHANGED <<treq, tres, ncalls>>
        BY <2>6 DEF Write
      <4> QED
        BY <1>1, <1>4, <2>0, <3>2, <4>1
    <3> QED
      BY <2>6, <3>1, <3>2 DEF Write
  <2>7. CASE Reread(t)
    <3>1. tpc[t] = "reread" /\ UNCHANGED <<treq, tres, ncalls, toServer>>
      BY <2>7 DEF Reread
    <3>2. PICK pc \in {"recv", "fail"} : Goto(t, pc)
      BY <2>7 DEF Reread
    <3> QED
      BY <1>1, <1>4, <2>0, <3>1, <3>2
  <2>8. CASE Receive(t)
    <3>1. CASE Decrypts(tconn[t], 1, Head(toClient[tconn[t]]))
      BY <1>2, <2>0, <2>8, <3>1, ReceiveReturns
    <3>2. CASE ~Decrypts(tconn[t], 1, Head(toClient[tconn[t]]))
      <4>1. tpc[t] = "recv" /\ UNCHANGED <<treq, tres, ncalls, toServer>> /\ Goto(t, "fail")
        BY <2>8, <3>2 DEF Receive
      <4> QED
        BY <1>1, <1>4, <2>0, <4>1
    <3> QED
      BY <3>1, <3>2
  <2>9. CASE ReceiveFails(t)
    <3>1. tpc[t] = "recv" /\ UNCHANGED <<treq, tres, ncalls, toServer>> /\ Goto(t, "fail")
      BY <2>9 DEF ReceiveFails
    <3> QED
      BY <1>1, <1>4, <2>0, <3>1
  <2>10. CASE Fail(t)
    BY <1>2, <2>0, <2>10, FailFails
  <2> QED
    BY <1>5, <2>1, <2>2, <2>3, <2>4, <2>5, <2>6, <2>7, <2>8, <2>9, <2>10 DEF Transact
<1>6. ASSUME NEW t \in Threads, Call(t) PROVE [Service!Next]_(Service!vars)
  BY <1>2, <1>6, CallInvokes
<1>7. ASSUME NEW t \in Threads, Timeout(t) PROVE [Service!Next]_(Service!vars)
  <2>1. /\ tpc[t] # "idle" /\ Goto(t, "fail")
        /\ UNCHANGED <<treq, answered, bank, tres, ncalls, toServer>>
    BY <1>7 DEF Timeout, counts, slave, wires
  <2> QED
    BY <1>1, <1>4, <2>1
<1>8. ASSUME UNCHANGED <<tpc, treq, answered, bank, tres, ncalls, toServer>>
      PROVE  [Service!Next]_(Service!vars)
  BY <1>1, <1>8, Unseen
<1>9. ASSUME UNCHANGED <<tpc, treq, answered, bank, tres, ncalls>>,
             \A n \in Conns : Shrunk(toServer'[n], toServer[n])
      PROVE  [Service!Next]_(Service!vars)
  BY <1>3, <1>9, Forgetful
<1>10. ASSUME NEW n \in Conns, Collect(n) PROVE [Service!Next]_(Service!vars)
  BY <1>8, <1>10 DEF Collect, threads, counts, slave
<1>11. ASSUME NEW n \in Conns, LineNoise(n)
       PROVE  [Service!Next]_(Service!vars)
  BY <1>9, <1>11, NoiseShrinks DEF LineNoise, threads, counts, slave
<1>12. CASE Stop \/ UNCHANGED vars
  BY <1>8, <1>12 DEF Stop, vars, threads, counts, slave, wires
<1>13. CASE RestartSlave
  <2>1. UNCHANGED <<tpc, treq, answered, tres, ncalls, toServer>> /\ bank' = InitialBank
    BY <1>13 DEF RestartSlave, threads, counts, wires
  <2>2. OpenCalls' = OpenCalls
    BY <2>1 DEF OpenCalls, OpenCall
  <2>3. LateCalls' = LateCalls
    BY <2>1 DEF LateCalls, Queued, Active
  <2> QED
    BY <1>3, <2>1, <2>2, <2>3, ServiceActions, ServiceBank
<1>14. CASE CrashSlave
  <2>1. \A n \in Conns : toServer'[n] = <<>>
    BY <1>14 DEF CrashSlave, SlaveEnds
  <2> QED
    BY <1>9, <1>14, <2>1 DEF CrashSlave, Shrunk, threads, counts
<1>15. CASE SlaveStep
  <2> USE DEF threads, counts, slave, wires
  <2>1. CASE Accept
    BY <1>8, <2>1 DEF Accept
  <2>2. ASSUME NEW n \in Conns, Reject(n) \/ EndOfStream(n) PROVE [Service!Next]_(Service!vars)
    <3>1. toServer' = [toServer EXCEPT ![n] = <<>>]
      BY <2>2 DEF Reject, EndOfStream, CloseServer
    <3>2. \A m \in Conns : toServer'[m] = toServer[m] \/ toServer'[m] = <<>>
      BY <3>1 DEF DataShapes, LinkShapes
    <3>3. \A m \in Conns : Shrunk(toServer'[m], toServer[m])
      BY <3>2 DEF Shrunk
    <3> QED
      BY <1>9, <2>2, <3>3 DEF Reject, EndOfStream
  <2>3. ASSUME NEW n \in Conns, RunOut(n) PROVE [Service!Next]_(Service!vars)
    <3> PICK request : request = Head(toServer[n])
      OBVIOUS
    <3>1. Executes(n) /\ Executed(request) /\ UNCHANGED <<tpc, treq, tres, ncalls>>
      BY <2>3 DEF RunOut
    <3>2. \A m \in Conns : toServer'[m] = <<>>
      BY <2>3 DEF RunOut, SlaveEnds
    <3> QED
      BY <1>2, <1>3, <3>1, <3>2, ExecutionTakesEffect
  <2>4. ASSUME NEW n \in Conns, Serve(n) PROVE [Service!Next]_(Service!vars)
    <3> PICK request : request = Head(toServer[n])
      OBVIOUS
    <3>1. /\ Executes(n) /\ Executed(request) /\ UNCHANGED <<tpc, treq, tres, ncalls>>
          /\ toServer' = [toServer EXCEPT ![n] = Tail(toServer[n])]
      BY <2>4 DEF Serve
    <3>2. \A m \in Conns : toServer'[m] = <<>>
      BY <3>1, OnlyRequest DEF DataShapes, LinkShapes
    <3> QED
      BY <1>2, <1>3, <3>1, <3>2, ExecutionTakesEffect
  <2> QED
    BY <1>15, <2>1, <2>2, <2>3, <2>4 DEF SlaveStep
<1> QED
  BY <1>5, <1>6, <1>7, <1>10, <1>11, <1>12, <1>13, <1>14, <1>15 DEF Next

(* The link, with its line noise, timeouts, crashes and races on the        *)
(* attributes of MasterClient, keeps to RegisterService.                    *)
THEOREM LinkKeepsService ==
    ASSUME "duplicate" \notin Faults
    PROVE  Spec => ServiceKept
<1>1. Init => Calm /\ Service!Init
  BY CalmInit, ServiceInit
<1>2. Calm /\ [Next]_vars => Calm'
  BY CalmStep
<1>3. Calm /\ Calm' /\ [Next]_vars => [Service!Next]_(Service!vars)
  BY ServiceStep
<1> QED
  BY <1>1, <1>2, <1>3, PTL DEF Spec, ServiceKept, Service!Spec
=============================================================================
