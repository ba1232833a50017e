------------------------------- MODULE EccData -------------------------------
(***************************************************************************)
(* The encrypted exchange of Modbus PDUs of section 6.2 above an           *)
(* established session: the HTTP handler threads that share one            *)
(* MasterClient, its lock, its sock and session attributes, the unlocked   *)
(* close() of UiController.stop_master, the content counters, and the      *)
(* slave's service loop with its register bank.                            *)
(*                                                                         *)
(* Connections are numbered in the order in which connect() opens them and *)
(* the handshake, the subject of EccSession, is one step of the slave: it  *)
(* gives both ends of connection n the content key n.  A frame carries the *)
(* number of the call it belongs to, which the code does not send: it      *)
(* serves the properties only.                                             *)
(*                                                                         *)
(* A definition with an underscore in its name is the one before the       *)
(* underscore with a plausible bug; no specification uses it.  Replacing   *)
(* the original by it shows that a property can fail.                      *)
(***************************************************************************)
EXTENDS RegisterBank, FiniteSets

CONSTANTS Threads,    \* HTTP handler threads
          Pdus,       \* requests the handlers make
          Faults,     \* the faults a run admits, see FaultKinds
          CounterLimit, \* the last content counter that fits its four bytes
          MaxCalls,   \* bound: calls made (and so connections)
          MaxFaults   \* bound: faults

FaultKinds == {"garble", "lose", "duplicate", "timeout", "crash"}

ASSUME DataAssumption ==
    /\ CounterLimit \in Nat /\ MaxCalls \in Nat /\ MaxFaults \in Nat
    /\ Faults \subseteq FaultKinds
    /\ Pdus \subseteq [fn : {ReadHolding, WriteSingle}, data : Word \X Word]

Calls == 1..MaxCalls
Conns == Calls

VARIABLES tpc,       \* tpc[t]: what thread t does in transact
          treq,      \* treq[t]: the call t has open, [id, pdu]
          tconn,     \* tconn[t]: the connection t's local variable holds, or 0
          tres,      \* tres[t]: what the last call of t returned
          lock,      \* {t}: MasterClient.lock is held by t; {}: it is free
          sock,      \* MasterClient.sock: a connection, or 0 for None
          session,   \* MasterClient.session: the same
          stopper,   \* where stop_master is in close(); "over": it returned
          ncalls,    \* calls so far
          ndials,    \* connections so far
          cst,       \* cst[n]: the master's socket of n
          sst,       \* sst[n]: the slave's end of n
          ctx,       \* ctx[n]: tx_content_counter of the master's session
          stx,       \* stx[n]: tx_content_counter of the slave's session
          toServer,  \* toServer[n]: frames on their way to the slave
          toClient,  \* toClient[n]: frames on their way to the master
          bank,      \* the slave's registers
          up,        \* the slave process runs
          faults,    \* faults so far
          answered,  \* history: answered[c]: the answers computed for call c
          sealed     \* history: frames encrypted

threads == <<tpc, treq, tconn, tres>>
master == <<lock, sock, session>>
counts == <<ncalls, ndials>>
ends == <<cst, sst>>
counters == <<ctx, stx, sealed>>
wires == <<toServer, toClient>>
slave == <<bank, up, answered>>
vars == <<threads, master, stopper, counts, ends, counters, wires, slave, faults>>

-----------------------------------------------------------------------------
(* encrypt_content: the key of the connection, a nonce of direction and    *)
(* counter.  decrypt_content reads the counter off the frame and accepts   *)
(* whatever it says; the caller drops it.                                  *)
Frame_OneNonce(n, dir, ctr, id, pdu) ==
    [key |-> n, dir |-> 0, ctr |-> ctr, id |-> id, pdu |-> pdu]
Frame(n, dir, ctr, id, pdu) ==
    [key |-> n, dir |-> dir, ctr |-> ctr, id |-> id, pdu |-> pdu]
Garbled == Frame(0, 0, 0, 0, Pdu(0, <<>>))
(* counter.to_bytes(4, "big") raises OverflowError *)
Exhausted(counter) == counter > CounterLimit
Stepped_Wraps(counter) == IF counter = CounterLimit THEN 1 ELSE counter + 1
Stepped(counter) == counter + 1
FirstCounter_OneApart(dir) == 1 + dir
FirstCounter(dir) == 1
Decrypts(n, dir, frame) == frame.key = n /\ frame.dir = dir

Request(t, n) == Frame(n, 0, ctx[n], treq[t].id, treq[t].pdu)

NoResult == [id |-> 0, ans |-> Pdu(0, <<>>)]   \* the call raised

(* A handler takes UiController.master, which stop_master sets to None last *)
Call(t) == \E pdu \in Pdus :
    /\ tpc[t] = "idle" /\ ncalls < MaxCalls /\ stopper # "over"
    /\ ncalls' = ncalls + 1
    /\ treq' = [treq EXCEPT ![t] = [id |-> ncalls + 1, pdu |-> pdu]]
    /\ tpc' = [tpc EXCEPT ![t] = "want"]
    /\ UNCHANGED <<tconn, tres, master, stopper, ndials, ends, counters,
                   wires, slave, faults>>

Goto(t, pc) == tpc' = [tpc EXCEPT ![t] = pc]
Local(t, n) == tconn' = [tconn EXCEPT ![t] = n]

Acquire_WithoutLock(t) ==
    /\ tpc[t] = "want"
    /\ lock' = lock \cup {t}
    /\ Goto(t, "connect")
    /\ UNCHANGED <<treq, tconn, tres, sock, session, counts, ends, counters, wires>>

Acquire(t) ==
    /\ tpc[t] = "want" /\ lock = {}
    /\ lock' = {t}
    /\ Goto(t, "connect")
    /\ UNCHANGED <<treq, tconn, tres, sock, session, counts, ends, counters, wires>>

(* connect(): an old socket is taken to mean an established session *)
Connect(t) ==
    /\ tpc[t] = "connect"
    /\ IF sock # 0
       THEN Goto(t, "send") /\ UNCHANGED <<tconn, ndials, cst>>
       ELSE IF ~up
       THEN Goto(t, "fail") /\ UNCHANGED <<tconn, ndials, cst>>
       ELSE /\ ndials' = ndials + 1
            /\ cst' = [cst EXCEPT ![ndials + 1] = "open"]
            /\ Local(t, ndials + 1)
            /\ Goto(t, "dial")
    /\ UNCHANGED <<treq, tres, master, ncalls, sst, counters, wires>>

(* The slave waits for requests on another connection, and will for ever    *)
Blocked(n) == \E m \in Conns \ {n} :
    sst[m] = "serving" /\ cst[m] = "open" /\ toServer[m] = <<>>

(* client_handshake returns and connect() sets sock, then session; or it   *)
(* raises because the slave is gone, or does not accept within 10 s        *)
Dialed(t) ==
    /\ tpc[t] = "dial"
    /\ \/ /\ sst[tconn[t]] = "serving"
          /\ sock' = tconn[t]
          /\ Goto(t, "adopt")
       \/ /\ \/ sst[tconn[t]] = "closed"
             \/ sst[tconn[t]] = "none" /\ Blocked(tconn[t])
          /\ Goto(t, "fail") /\ UNCHANGED sock
    /\ UNCHANGED <<treq, tconn, tres, lock, session, counts, ends, counters, wires>>

Adopt(t) ==
    /\ tpc[t] = "adopt"
    /\ session' = tconn[t]
    /\ Goto(t, "send")
    /\ UNCHANGED <<treq, tconn, tres, lock, sock, counts, ends, counters, wires>>

(* self.session.send_encrypted_pdu(pdu): AssertionError without a session,  *)
(* OverflowError when the counter has run out                               *)
Encrypt(t) ==
    /\ tpc[t] = "send"
    /\ IF session = 0 \/ Exhausted(ctx[session])
       THEN Goto(t, "fail") /\ UNCHANGED <<tconn, sealed>>
       ELSE /\ sealed' = sealed \cup {Request(t, session)}
            /\ Local(t, session) /\ Goto(t, "write")
    /\ UNCHANGED <<treq, tres, master, counts, ends, ctx, stx, wires>>

(* The counter is stepped before the frame is written, also if that fails *)
Write(t) ==
    LET n == tconn[t] IN
    /\ tpc[t] = "write"
    /\ ctx' = [ctx EXCEPT ![n] = Stepped(@)]
    /\ IF cst[n] = "open" /\ sst[n] = "serving"
       THEN /\ toServer' = [toServer EXCEPT ![n] = Append(@, Request(t, n))]
            /\ Goto(t, "reread")
       ELSE Goto(t, "fail") /\ UNCHANGED toServer
    /\ UNCHANGED <<treq, tconn, tres, master, counts, ends, stx, sealed, toClient>>

(* return self.session.recv_encrypted_pdu() looks session up again *)
Reread(t) ==
    /\ tpc[t] = "reread"
    /\ Local(t, session)
    /\ Goto(t, IF session = 0 THEN "fail" ELSE "recv")
    /\ UNCHANGED <<treq, tres, master, counts, ends, counters, wires>>

(* A frame that decrypts is the answer; transact releases the lock and     *)
(* returns it.  Otherwise (CRC, InvalidTag) it raises.                     *)
Receive(t) ==
    LET n == tconn[t]
        frame == Head(toClient[n]) IN
    /\ tpc[t] = "recv" /\ cst[n] = "open" /\ toClient[n] # <<>>
    /\ toClient' = [toClient EXCEPT ![n] = Tail(@)]
    /\ IF Decrypts(n, 1, frame)
       THEN /\ tres' = [tres EXCEPT ![t] = [id |-> frame.id, ans |-> frame.pdu]]
            /\ lock' = {}
            /\ Goto(t, "idle") /\ Local(t, 0)
       ELSE Goto(t, "fail") /\ UNCHANGED <<tres, lock, tconn>>
    /\ UNCHANGED <<treq, sock, session, counts, ends, counters, toServer>>

(* recv raises: the stream ended or stop_master closed the socket, or the  *)
(* 10 s timeout expires when nothing can come any more                     *)
NothingComes(n) ==
    toClient[n] = <<>> /\ toServer[n] = <<>> /\ sst[n] = "serving"
ReceiveFails_Retries(t) ==
    LET n == tconn[t] IN
    /\ tpc[t] = "recv"
    /\ cst[n] = "closed" \/ sst[n] = "closed" \/ NothingComes(n)
    /\ Goto(t, IF sock # 0 THEN "send" ELSE "fail")
    /\ UNCHANGED <<treq, tconn, tres, master, counts, ends, counters, wires>>
ReceiveFails_NoTimeout(t) ==
    LET n == tconn[t] IN
    /\ tpc[t] = "recv"
    /\ cst[n] = "closed" \/ sst[n] = "closed"
    /\ Goto(t, "fail")
    /\ UNCHANGED <<treq, tconn, tres, master, counts, ends, counters, wires>>
ReceiveFails(t) ==
    LET n == tconn[t] IN
    /\ tpc[t] = "recv"
    /\ cst[n] = "closed" \/ sst[n] = "closed" \/ NothingComes(n)
    /\ Goto(t, "fail")
    /\ UNCHANGED <<treq, tconn, tres, master, counts, ends, counters, wires>>

Fail_KeepsConnection(t) ==
    /\ tpc[t] = "fail"
    /\ lock' = {}
    /\ Goto(t, "idle") /\ Local(t, 0)
    /\ tres' = [tres EXCEPT ![t] = NoResult]
    /\ UNCHANGED <<treq, sock, session, cst, toClient, counts, sst, counters, toServer>>

(* except Exception: close(), raise: the caller gets an error *)
Fail(t) ==
    /\ tpc[t] = "fail"
    /\ IF sock # 0
       THEN /\ cst' = [cst EXCEPT ![sock] = "closed"]
            /\ toClient' = [toClient EXCEPT ![sock] = <<>>]
            /\ sock' = 0 /\ session' = 0
       ELSE UNCHANGED <<cst, toClient, sock, session>>
    /\ lock' = {}
    /\ Goto(t, "idle") /\ Local(t, 0)
    /\ tres' = [tres EXCEPT ![t] = NoResult]
    /\ UNCHANGED <<treq, counts, sst, counters, toServer>>

Transact(t) ==
    /\ \/ Acquire(t) \/ Connect(t) \/ Dialed(t) \/ Adopt(t) \/ Encrypt(t)
       \/ Write(t) \/ Reread(t) \/ Receive(t) \/ ReceiveFails(t) \/ Fail(t)
    /\ UNCHANGED <<stopper, slave, faults>>

(* A socket nothing refers to any more is closed by the interpreter; after  *)
(* stop_master the last handler thread takes the MasterClient with it.      *)
Referenced_AfterStop(n) ==
    n \in {sock, session} \/ \E t \in Threads : tconn[t] = n
Referenced(n) ==
    \/ n \in {sock, session}
       /\ (stopper # "over" \/ \E t \in Threads : tpc[t] # "idle")
    \/ \E t \in Threads : tconn[t] = n
Collect(n) ==
    /\ cst[n] = "open" /\ ~Referenced(n)
    /\ cst' = [cst EXCEPT ![n] = "closed"]
    /\ toClient' = [toClient EXCEPT ![n] = <<>>]
    /\ UNCHANGED <<threads, master, stopper, counts, sst, counters, toServer,
                   slave, faults>>

-----------------------------------------------------------------------------
(* stop_master: close() without MasterClient.lock, attribute by attribute.  *)
(* If a handler's close() comes between the test and the use of self.sock,  *)
(* the AttributeError passes the finally clause and leaves stop_master       *)
(* before it gives up the MasterClient.                                     *)
Stop ==
    /\ \/ /\ stopper = "idle"
          /\ stopper' = IF sock # 0 THEN "close" ELSE "over"
          /\ UNCHANGED <<sock, session, cst, toClient>>
       \/ /\ stopper = "close" /\ sock # 0
          /\ stopper' = "sock"
          /\ cst' = [cst EXCEPT ![sock] = "closed"]
          /\ toClient' = [toClient EXCEPT ![sock] = <<>>]
          /\ UNCHANGED <<sock, session>>
       \/ /\ stopper = "close" /\ sock = 0
          /\ stopper' = "raising_sock"
          /\ UNCHANGED <<sock, session, cst, toClient>>
       \/ /\ stopper \in {"sock", "raising_sock"}
          /\ sock' = 0
          /\ stopper' = IF stopper = "sock" THEN "session" ELSE "raising_session"
          /\ UNCHANGED <<session, cst, toClient>>
       \/ /\ stopper \in {"session", "raising_session"}
          /\ session' = 0
          /\ stopper' = IF stopper = "session" THEN "over" ELSE "idle"
          /\ UNCHANGED <<sock, cst, toClient>>
    /\ UNCHANGED <<threads, lock, counts, sst, counters, toServer, slave, faults>>

-----------------------------------------------------------------------------
(* The slave: one connection after the other, in the order of the backlog *)
Backlog == {n \in Conns : n <= ndials /\ sst[n] = "none"}
Serving == {n \in Conns : sst[n] = "serving"}

Accept_Newest ==
    /\ up /\ Serving = {}
    /\ \E n \in Backlog :
        /\ \A i \in Backlog : n >= i
        /\ sst' = [sst EXCEPT ![n] = IF cst[n] = "open" THEN "serving" ELSE "closed"]
    /\ UNCHANGED <<threads, master, stopper, counts, cst, counters, wires,
                   slave, faults>>
Accept_Concurrently ==
    /\ up
    /\ \E n \in Backlog :
        /\ \A i \in Backlog : n <= i
        /\ sst' = [sst EXCEPT ![n] = IF cst[n] = "open" THEN "serving" ELSE "closed"]
    /\ UNCHANGED <<threads, master, stopper, counts, cst, counters, wires,
                   slave, faults>>

(* accept and the handshake, which fails if the master has given up *)
Accept ==
    /\ up /\ Serving = {}
    /\ \E n \in Backlog :
        /\ \A i \in Backlog : n <= i
        /\ sst' = [sst EXCEPT ![n] = IF cst[n] = "open" THEN "serving" ELSE "closed"]
    /\ UNCHANGED <<threads, master, stopper, counts, cst, counters, wires,
                   slave, faults>>

CloseServer(n) ==
    /\ sst' = [sst EXCEPT ![n] = "closed"]
    /\ toServer' = [toServer EXCEPT ![n] = <<>>]

(* The process ends, and with it every connection, and the backlog *)
SlaveEnds ==
    /\ up' = FALSE
    /\ sst' = [n \in Conns |-> IF n <= ndials THEN "closed" ELSE sst[n]]
    /\ toServer' = [n \in Conns |-> <<>>]

Executes(n) == sst[n] = "serving" /\ toServer[n] # <<>>
               /\ Decrypts(n, 0, Head(toServer[n])) /\ ~Malformed(Head(toServer[n]).pdu)
Executed(request) ==
    /\ bank' = After(bank, request.pdu)
    /\ answered' = [answered EXCEPT ![request.id] = Append(@, Answer(bank, request.pdu))]

(* One turn of the service loop *)
Serve(n) ==
    LET request == Head(toServer[n])
        reply == Frame(n, 1, stx[n], request.id, Answer(bank, request.pdu)) IN
    /\ Executes(n) /\ ~Exhausted(stx[n])
    /\ toServer' = [toServer EXCEPT ![n] = Tail(@)]
    /\ Executed(request)
    /\ stx' = [stx EXCEPT ![n] = Stepped(@)]
    /\ sealed' = sealed \cup {reply}
    /\ toClient' = IF cst[n] = "open"
                   THEN [toClient EXCEPT ![n] = Append(@, reply)]
                   ELSE toClient
    /\ UNCHANGED <<threads, master, stopper, counts, ends, ctx, up, faults>>

(* A request that does not decrypt, or is malformed, ends the connection *)
Reject(n) ==
    /\ sst[n] = "serving" /\ toServer[n] # <<>> /\ ~Executes(n)
    /\ CloseServer(n)
    /\ UNCHANGED <<threads, master, stopper, counts, cst, counters, toClient,
                   slave, faults>>

(* The request is executed before the answer cannot be encrypted, and main   *)
(* does not catch the OverflowError                                         *)
RunOut(n) ==
    /\ Executes(n) /\ Exhausted(stx[n])
    /\ Executed(Head(toServer[n]))
    /\ SlaveEnds
    /\ UNCHANGED <<threads, master, stopper, counts, cst, counters, toClient, faults>>

(* The master closed: what is still queued may be lost in the reset *)
EndOfStream(n) ==
    /\ sst[n] = "serving" /\ cst[n] = "closed"
    /\ CloseServer(n)
    /\ UNCHANGED <<threads, master, stopper, counts, cst, counters, toClient,
                   slave, faults>>

SlaveStep ==
    \/ Accept
    \/ \E n \in Conns : Serve(n) \/ Reject(n) \/ RunOut(n) \/ EndOfStream(n)

(* A new slave process, with a new register bank *)
RestartSlave ==
    /\ ~up
    /\ up' = TRUE
    /\ bank' = InitialBank
    /\ UNCHANGED <<threads, master, stopper, counts, ends, counters, wires,
                   answered, faults>>

-----------------------------------------------------------------------------
Fault(kind) == kind \in Faults /\ faults < MaxFaults /\ faults' = faults + 1

(* The oldest frame of a direction is garbled, lost or delivered twice *)
Disturbed(queue) ==
    [garble |-> <<Garbled>> \o Tail(queue), lose |-> Tail(queue),
     duplicate |-> <<Head(queue)>> \o queue]
LineNoise(n) == \E kind \in {"garble", "lose", "duplicate"} :
    /\ Fault(kind)
    /\ \/ /\ toServer[n] # <<>>
          /\ toServer' = [toServer EXCEPT ![n] = Disturbed(@)[kind]]
          /\ UNCHANGED toClient
       \/ /\ toClient[n] # <<>>
          /\ toClient' = [toClient EXCEPT ![n] = Disturbed(@)[kind]]
          /\ UNCHANGED toServer
    /\ UNCHANGED <<threads, master, stopper, counts, ends, counters, slave>>

(* The socket's timeout expires before a slave that can answer does *)
Timeout(t) ==
    /\ \/ tpc[t] = "dial" /\ ~Blocked(tconn[t])
       \/ tpc[t] = "recv" /\ ~NothingComes(tconn[t])
    /\ Fault("timeout")
    /\ Goto(t, "fail")
    /\ UNCHANGED <<treq, tconn, tres, master, stopper, counts, ends, counters,
                   wires, slave>>

CrashSlave ==
    /\ up /\ Fault("crash")
    /\ SlaveEnds
    /\ UNCHANGED <<threads, master, stopper, counts, cst, counters, toClient,
                   bank, answered>>

-----------------------------------------------------------------------------
Init ==
    /\ tpc = [t \in Threads |-> "idle"]
    /\ treq = [t \in Threads |-> [id |-> 0, pdu |-> Pdu(0, <<>>)]]
    /\ tconn = [t \in Threads |-> 0]
    /\ tres = [t \in Threads |-> NoResult]
    /\ lock = {} /\ sock = 0 /\ session = 0
    /\ stopper = "idle"
    /\ ncalls = 0 /\ ndials = 0 /\ faults = 0
    /\ cst = [n \in Conns |-> "none"] /\ sst = [n \in Conns |-> "none"]
    /\ ctx = [n \in Conns |-> FirstCounter(0)] /\ stx = [n \in Conns |-> FirstCounter(1)]
    /\ toServer = [n \in Conns |-> <<>>] /\ toClient = [n \in Conns |-> <<>>]
    /\ bank = InitialBank /\ up = TRUE
    /\ answered = [c \in Calls |-> <<>>] /\ sealed = {}

Next ==
    \/ \E t \in Threads : Call(t) \/ Transact(t) \/ Timeout(t)
    \/ \E n \in Conns : Collect(n) \/ LineNoise(n)
    \/ Stop \/ SlaveStep \/ RestartSlave \/ CrashSlave

Spec == Init /\ [][Next]_vars

-----------------------------------------------------------------------------
(* Properties *)

(* Control state and counters *)
TypeOK ==
    /\ tpc \in [Threads -> {"idle", "want", "connect", "dial", "adopt", "send",
                             "write", "reread", "recv", "fail"}]
    /\ tconn \in [Threads -> {0} \cup Conns]
    /\ lock \in SUBSET Threads /\ Cardinality(lock) <= 1
    /\ sock \in {0} \cup Conns /\ session \in {0} \cup Conns
    /\ cst \in [Conns -> {"none", "open", "closed"}]
    /\ sst \in [Conns -> {"none", "serving", "closed"}]
    /\ bank \in Bank
    /\ \A n \in Conns : ctx[n] \in Nat /\ stx[n] \in Nat

(* The answer a caller gets was computed for its own call, although answers *)
(* carry no transaction number and the session may be replaced, or taken    *)
(* away by stop_master, at any point of the exchange.                       *)
AnswerMatches ==
    [][\A t \in Threads : tres'[t] # tres[t] /\ tres'[t] # NoResult =>
           /\ tres'[t].id = treq[t].id
           /\ answered[treq[t].id] = <<tres'[t].ans>>]_vars

(* A request is executed at most once *)
AtMostOnce == \A c \in Calls : Len(answered[c]) <= 1

(* No two frames are encrypted under one key with one nonce: a nonce names  *)
(* its direction, and the threads step the session's counter one by one.    *)
NonceNeverReused ==
    \A f, g \in sealed :
        f.key = g.key /\ f.dir = g.dir /\ f.ctr = g.ctr => f = g

(* At most one end of the slave is served, and everything queued on another *)
(* connection is still before its handshake: no request of a connection the *)
(* master gave up is executed after one of a newer connection.              *)
OldRequestsFirst ==
    \A n, m \in Conns : n < m /\ sst[m] = "serving"
                            => sst[n] = "closed" /\ toServer[n] = <<>>

(* SlaveOutlastsCounter (crypto.py:209, slave_server.py:82): the slave does    *)
(* not end on a content counter that has run out.  The OverflowError would  *)
(* not be caught there; but the master's counter runs out first, its call   *)
(* fails, and the next one has a new session.  (A frame delivered twice     *)
(* would take the slave's counter past the master's.)                       *)
SlaveOutlastsCounter == [][up /\ ~up' => faults' > faults]_vars

Fairness ==
    /\ \A t \in Threads : WF_vars(Transact(t))
    /\ WF_vars(\E n \in Conns : Collect(n))
    /\ WF_vars(SlaveStep) /\ WF_vars(RestartSlave)
    /\ WF_vars(stopper # "idle" /\ Stop)
FairSpec == Spec /\ Fairness

(* Every call returns, an answer or an error, whatever stop_master does to  *)
(* the session it uses and whoever holds the lock before it.                *)
EveryCallReturns == \A t \in Threads : []<>(tpc[t] = "idle")

(* A stopped master lets go of the slave: no connection stays open, not even *)
(* one that a call opened while, or after, stop_master closed the old one.  *)
StoppedLetsGo ==
    <>[](stopper = "over") => <>[](\A n \in Conns : cst[n] # "open")

-----------------------------------------------------------------------------
(* What the callers are promised, see RegisterService *)

OpenCall(t) ==
    [st |-> IF answered[treq[t].id] = <<>> THEN "open" ELSE "done",
     id |-> treq[t].id, pdu |-> treq[t].pdu,
     ans |-> IF answered[treq[t].id] = <<>> THEN Pdu(0, <<>>)
             ELSE answered[treq[t].id][1]]
IdleCall == [st |-> "idle", id |-> 0, pdu |-> Pdu(0, <<>>), ans |-> Pdu(0, <<>>)]
Active(id) == \E t \in Threads : tpc[t] # "idle" /\ treq[t].id = id
Queued == UNION {{toServer[n][i] : i \in DOMAIN toServer[n]} : n \in Conns}

Service == INSTANCE RegisterService WITH
    call <- [t \in Threads |-> IF tpc[t] = "idle" THEN IdleCall ELSE OpenCall(t)],
    late <- {[id |-> f.id, pdu |-> f.pdu] : f \in {g \in Queued : g.id # 0 /\ ~Active(g.id)}},
    ids <- ncalls,
    result <- tres

(* The link, its failures and the races on MasterClient's attributes are    *)
(* invisible to the callers beyond what RegisterService allows.             *)
ServiceKept == Service!Spec
=============================================================================
