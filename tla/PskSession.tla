----------------------------- MODULE PskSession -----------------------------
(***************************************************************************)
(* The pre-shared-key profile of section 6.3 (protocols-psw): the master   *)
(* program runs one handshake and one register read and ends; the slave    *)
(* program runs one handshake, serves requests until the line falls        *)
(* silent, and ends (on a UART, serve() has no loop).  Either is started   *)
(* again by its operator, with parameters of his choice, and finds in its  *)
(* receive buffer whatever its last run left there.                        *)
(*                                                                         *)
(* Curve points and hashes are terms.  random values are named by the run  *)
(* that draws them.  The security mode has one value (AES-GCM) and is left *)
(* out with the checks on it.                                              *)
(*                                                                         *)
(* A name that ends in an underscore and a capitalised word belongs to a   *)
(* variant, with a plausible bug, of the definition named before that      *)
(* underscore; no specification uses it.                                   *)
(***************************************************************************)
EXTENDS SerialLine

CONSTANTS Addresses, Passwords, ClientIds, ServerIds, \* what operators may pass
          Requests,      \* register reads a master may be asked for
          Served,        \* those the slave's registers cover
          MaxMasterRuns, \* bound: master programs started
          MaxSlaveRuns,  \* bound: slave programs started
          MaxIncidents   \* bound: records lost or damaged, programs killed

ASSUME PskAssumption ==
    /\ Served \subseteq Requests
    /\ {MaxMasterRuns, MaxSlaveRuns, MaxIncidents} \subseteq Nat

VARIABLES line,      \* records on their way, per receiving end
          master,    \* the master program
          slave,     \* the slave program
          runs,      \* programs started, per end
          incidents, \* incidents so far
          clean,     \* ghost: this master run met a ready slave and no trouble
          verified,  \* ghost: session each master run computed when S_M verified
          sessions   \* ghost: session each slave run established

vars == <<line, master, slave, runs, incidents, clean, verified, sessions>>

-----------------------------------------------------------------------------
(* Key terms *)

private_from_password_Fixed(password, random) == [password |-> password, random |-> 0]
private_from_password(password, random) == [password |-> password, random |-> random]
Point(private) == [point |-> private]
Shared(private, peer) == {Point(private), peer}
compute_server_auth_Unbound(rh, rm, dhsk, server_id) == <<rm, server_id>>
compute_server_auth(rh, rm, dhsk, server_id) == <<rh, rm, dhsk, server_id>>
compute_master_auth(rh, rm, dhsk, client_id) == <<rm, rh, dhsk, client_id>>
derive_content_keys(dhsk, server_id, client_id, r_b) ==
    [ck |-> <<dhsk, server_id>>, bck |-> <<dhsk, r_b, client_id>>]

NoContext == [role |-> "none"]
SessionContext(role, private, peer, server_id, client_id, r_b) ==
    [role |-> role, server_id |-> server_id, client_id |-> client_id,
     local_point |-> Point(private), peer_point |-> peer,
     keys |-> derive_content_keys(Shared(private, peer), server_id, client_id, r_b),
     send_counter |-> 1, recv_counter |-> 1]

(* What the two contexts of one session have in common *)
SameSession(m, s) ==
    /\ m.keys = s.keys
    /\ m.server_id = s.server_id /\ m.client_id = s.client_id
    /\ m.local_point = s.peer_point /\ m.peer_point = s.local_point

(* ss_data_send: the PDU under the content key and the sender's counter *)
build_encrypted_data_send(addr, ctx, pdu) ==
    Apdu(addr, "ss_data_send",
         [key |-> ctx.keys.ck, counter |-> ctx.send_counter, pdu |-> pdu])
Decrypts(ctx, r) == r.send.key = ctx.keys.ck /\ r.send.counter = ctx.recv_counter
AfterSend(ctx) == [ctx EXCEPT !.send_counter = @ + 1]
AfterRecv(ctx) == [ctx EXCEPT !.recv_counter = @ + 1]

handle_modbus_pdu(pdu) ==
    IF pdu \in Served THEN <<"registers", pdu>> ELSE <<"exception", pdu>>
parse_register_response_Lax(pdu) == TRUE
parse_register_response(pdu) == pdu[1] = "registers"

-----------------------------------------------------------------------------
(* The programs *)

MasterOff == [pc |-> "off", addr |-> 0, private |-> NoContext, id |-> 0,
              peer |-> NoContext, request |-> 0, result |-> <<>>, ctx |-> NoContext]
SlaveOff == [pc |-> "off", addr |-> 0, private |-> NoContext, id |-> 0,
             peer |-> NoContext, ctx |-> NoContext]

MasterWaits == {"open_cnf", "data_cnf", "final_cnf", "answer"}
SlaveWaits == {"open_req", "first_req", "final_req", "serving"}

Init ==
    /\ line = QuietLine /\ master = MasterOff /\ slave = SlaveOff
    /\ runs = [e \in Ends |-> 0] /\ incidents = 0
    /\ clean = FALSE /\ verified = {} /\ sessions = {}

(* recv_record returns a record, parse_apdu_frame finds it in order, it is *)
(* for this address                                                        *)
Gets(end, program, tag) ==
    /\ line[end] # <<>>
    /\ Head(line[end]).addr = program.addr
    /\ Head(line[end]).tag = tag
Record(end) == Head(line[end])
Replies(end, to, record) == line' = Sent(Taken(line, end), to, record)

-----------------------------------------------------------------------------
(* Master: run_master and run_master_handshake *)

MasterStarts ==
    /\ master.pc \notin MasterWaits /\ runs["master"] < MaxMasterRuns
    /\ runs' = [runs EXCEPT !["master"] = @ + 1]
    /\ \E a \in Addresses, pw \in Passwords, id \in ClientIds, request \in Requests,
          port \in OpenedPort(line, "master") :
        /\ master' = [MasterOff EXCEPT
                        !.pc = "open_cnf", !.addr = a, !.id = id, !.request = request,
                        !.private = private_from_password(pw, <<"master", runs'["master"]>>)]
        /\ line' = Sent(port, "slave", Apdu(a, "ss_sk_open_req", NoItems))
        /\ clean' = (slave.pc = "open_req" /\ slave.addr = a /\ port = QuietLine)
    /\ UNCHANGED <<slave, incidents, verified, sessions>>

OpenCnfOk == master.pc = "open_cnf" /\ Gets("master", master, "ss_sk_open_cnf")

MasterOffersPoint ==
    /\ OpenCnfOk
    /\ master' = [master EXCEPT !.pc = "data_cnf"]
    /\ Replies("master", "slave",
               Apdu(master.addr, "ss_sk_data_req", [R_H |-> Point(master.private)]))
    /\ UNCHANGED <<slave, runs, incidents, clean, verified, sessions>>

DataCnfOk ==
    /\ master.pc = "data_cnf" /\ Gets("master", master, "ss_sk_data_cnf")
    /\ Has(Record("master"), {"R_M", "S_M", "SERVER_ID"})
    /\ LET r == Record("master").send
           dhsk == Shared(master.private, r.R_M)
       IN  r.S_M = compute_server_auth(Point(master.private), r.R_M, dhsk, r.SERVER_ID)

(* The master draws r_B and answers with S_H *)
MasterVerifies ==
    /\ DataCnfOk
    /\ LET r == Record("master").send
           rh == Point(master.private)
           dhsk == Shared(master.private, r.R_M)
           r_b == <<"r_B", runs["master"]>>
           ctx == SessionContext("master", master.private, r.R_M, r.SERVER_ID, master.id, r_b)
       IN  /\ master' = [master EXCEPT !.pc = "final_cnf",
                                       !.peer = [point |-> r.R_M, id |-> r.SERVER_ID, r_b |-> r_b]]
           /\ Replies("master", "slave",
                      Apdu(master.addr, "ss_sk_data_req",
                           [S_H |-> compute_master_auth(rh, r.R_M, dhsk, master.id),
                            R_B |-> r_b, CLIENT_ID |-> master.id]))
           /\ verified' = verified \cup {[run |-> runs["master"], ctx |-> ctx]}
    /\ UNCHANGED <<slave, runs, incidents, clean, sessions>>

(* A confirmation without a status counts as STATUS_OK *)
FinalCnfOk ==
    /\ master.pc = "final_cnf" /\ Gets("master", master, "ss_sk_data_cnf")
    /\ Has(Record("master"), {"STATUS"}) => Record("master").send.STATUS = "OK"

MasterAsks ==
    /\ FinalCnfOk
    /\ LET ctx == SessionContext("master", master.private, master.peer.point, master.peer.id,
                                 master.id, master.peer.r_b)
       IN  /\ master' = [master EXCEPT !.pc = "answer", !.ctx = AfterSend(ctx)]
           /\ Replies("master", "slave",
                      build_encrypted_data_send(master.addr, ctx, master.request))
    /\ UNCHANGED <<slave, runs, incidents, clean, verified, sessions>>

AnswerOk ==
    /\ master.pc = "answer" /\ Gets("master", master, "ss_data_send")
    /\ Decrypts(master.ctx, Record("master"))
    /\ parse_register_response(Record("master").send.pdu)

MasterReads ==
    /\ AnswerOk
    /\ master' = [master EXCEPT !.pc = "done", !.result = Record("master").send.pdu,
                                !.ctx = AfterRecv(@)]
    /\ line' = Taken(line, "master")
    /\ UNCHANGED <<slave, runs, incidents, clean, verified, sessions>>

(* ProtocolError or InvalidTag: the program ends *)
MasterRejects ==
    /\ master.pc \in MasterWaits /\ line["master"] # <<>>
    /\ ~(OpenCnfOk \/ DataCnfOk \/ FinalCnfOk \/ AnswerOk)
    /\ master' = [master EXCEPT !.pc = "failed"]
    /\ line' = Taken(line, "master")
    /\ UNCHANGED <<slave, runs, incidents, clean, verified, sessions>>

(* readUART returns nothing: EOFError.  Giving up too early, while a record *)
(* is still on its way to the slave, is trouble; waiting in vain is not.    *)
MasterGivesUp ==
    /\ master.pc \in MasterWaits /\ line["master"] = <<>>
    /\ master' = [master EXCEPT !.pc = "failed"]
    /\ clean' = (clean /\ line["slave"] = <<>>)
    /\ UNCHANGED <<line, slave, runs, incidents, verified, sessions>>

-----------------------------------------------------------------------------
(* Slave: serve_connection and run_slave_handshake *)

SlaveStarts ==
    /\ slave.pc \notin SlaveWaits /\ runs["slave"] < MaxSlaveRuns
    /\ runs' = [runs EXCEPT !["slave"] = @ + 1]
    /\ \E a \in Addresses, pw \in Passwords, id \in ServerIds,
          port \in OpenedPort(line, "slave") :
        /\ slave' = [SlaveOff EXCEPT
                       !.pc = "open_req", !.addr = a, !.id = id,
                       !.private = private_from_password(pw, <<"slave", runs'["slave"]>>)]
        /\ line' = port
    /\ clean' = FALSE
    /\ UNCHANGED <<master, incidents, verified, sessions>>

OpenReqOk == slave.pc = "open_req" /\ Gets("slave", slave, "ss_sk_open_req")

SlaveOpens ==
    /\ OpenReqOk
    /\ slave' = [slave EXCEPT !.pc = "first_req"]
    /\ Replies("slave", "master", Apdu(slave.addr, "ss_sk_open_cnf", NoItems))
    /\ UNCHANGED <<master, runs, incidents, clean, verified, sessions>>

FirstReqOk ==
    /\ slave.pc = "first_req" /\ Gets("slave", slave, "ss_sk_data_req")
    /\ Has(Record("slave"), {"R_H"})

SlaveAnswersPoint ==
    /\ FirstReqOk
    /\ LET rh == Record("slave").send.R_H
           rm == Point(slave.private)
       IN  /\ slave' = [slave EXCEPT !.pc = "final_req", !.peer = [point |-> rh]]
           /\ Replies("slave", "master",
                      Apdu(slave.addr, "ss_sk_data_cnf",
                           [R_M |-> rm, SERVER_ID |-> slave.id,
                            S_M |-> compute_server_auth(rh, rm, Shared(slave.private, rh),
                                                        slave.id)]))
    /\ UNCHANGED <<master, runs, incidents, clean, verified, sessions>>

FinalReqOk_ServerAuth ==
    /\ slave.pc = "final_req" /\ Gets("slave", slave, "ss_sk_data_req")
    /\ Has(Record("slave"), {"S_H", "R_B", "CLIENT_ID"})
    /\ LET r == Record("slave").send
           rh == slave.peer.point
       IN  r.S_H = compute_server_auth(rh, Point(slave.private), Shared(slave.private, rh),
                                       r.CLIENT_ID)
FinalReqOk ==
    /\ slave.pc = "final_req" /\ Gets("slave", slave, "ss_sk_data_req")
    /\ Has(Record("slave"), {"S_H", "R_B", "CLIENT_ID"})
    /\ LET r == Record("slave").send
           rh == slave.peer.point
       IN  r.S_H = compute_master_auth(rh, Point(slave.private), Shared(slave.private, rh),
                                       r.CLIENT_ID)

SlaveContext_IdsSwapped(r) ==
    SessionContext("slave", slave.private, slave.peer.point, r.CLIENT_ID, slave.id, r.R_B)
SlaveContext(r) ==
    SessionContext("slave", slave.private, slave.peer.point, slave.id, r.CLIENT_ID, r.R_B)

SlaveEstablishes ==
    /\ FinalReqOk
    /\ LET ctx == SlaveContext(Record("slave").send)
       IN  /\ slave' = [slave EXCEPT !.pc = "serving", !.ctx = ctx]
           /\ sessions' = sessions \cup {[run |-> runs["slave"], ctx |-> ctx]}
    /\ Replies("slave", "master", Apdu(slave.addr, "ss_sk_data_cnf", [STATUS |-> "OK"]))
    /\ UNCHANGED <<master, runs, incidents, clean, verified>>

RequestOk ==
    /\ slave.pc = "serving" /\ Gets("slave", slave, "ss_data_send")
    /\ Decrypts(slave.ctx, Record("slave"))

SlaveServes ==
    /\ RequestOk
    /\ slave' = [slave EXCEPT !.ctx = AfterSend(AfterRecv(@))]
    /\ Replies("slave", "master",
               build_encrypted_data_send(slave.addr, slave.ctx,
                                         handle_modbus_pdu(Record("slave").send.pdu)))
    /\ UNCHANGED <<master, runs, incidents, clean, verified, sessions>>

(* ProtocolError is reported by serve(), which then returns; the InvalidTag *)
(* of a failed decryption is caught nowhere                                 *)
SlaveRejects ==
    /\ slave.pc \in SlaveWaits /\ line["slave"] # <<>>
    /\ ~(OpenReqOk \/ FirstReqOk \/ FinalReqOk \/ RequestOk)
    /\ slave' = [slave EXCEPT
                   !.pc = IF slave.pc = "serving" /\ Gets("slave", slave, "ss_data_send")
                          THEN "died" ELSE "exited"]
    /\ line' = Taken(line, "slave")
    /\ UNCHANGED <<master, runs, incidents, clean, verified, sessions>>

(* EOFError: reported by serve(), or "master disconnected" *)
SlaveGivesUp ==
    /\ slave.pc \in SlaveWaits /\ line["slave"] = <<>>
    /\ slave' = [slave EXCEPT !.pc = "exited"]
    /\ clean' = (clean /\ line["master"] = <<>>)
    /\ UNCHANGED <<line, master, runs, incidents, verified, sessions>>

-----------------------------------------------------------------------------
(* Incidents *)

Noise ==
    /\ incidents < MaxIncidents /\ incidents' = incidents + 1
    /\ line' \in Disturbed(line)
    /\ clean' = FALSE
    /\ UNCHANGED <<master, slave, runs, verified, sessions>>

(* The operator or a power failure ends a program, wherever it is *)
Killed ==
    /\ incidents < MaxIncidents /\ incidents' = incidents + 1
    /\ \/ master.pc \in MasterWaits /\ master' = [master EXCEPT !.pc = "failed"]
          /\ UNCHANGED slave
       \/ slave.pc \in SlaveWaits /\ slave' = [slave EXCEPT !.pc = "died"]
          /\ UNCHANGED master
    /\ clean' = FALSE
    /\ UNCHANGED <<line, runs, verified, sessions>>

Next ==
    \/ MasterStarts \/ MasterOffersPoint \/ MasterVerifies \/ MasterAsks
    \/ MasterReads \/ MasterRejects \/ MasterGivesUp
    \/ SlaveStarts \/ SlaveOpens \/ SlaveAnswersPoint \/ SlaveEstablishes
    \/ SlaveServes \/ SlaveRejects \/ SlaveGivesUp
    \/ Noise \/ Killed

Spec == Init /\ [][Next]_vars

-----------------------------------------------------------------------------
(* Properties *)

(* The programs are where the code can be, the line holds records, and the *)
(* two counters of a slave, which answers every request, step together.    *)
TypeOK ==
    /\ \A e \in Ends : \A i \in DOMAIN line[e] : line[e][i].addr \in Addresses \cup {0}
    /\ master.pc \in MasterWaits \cup {"off", "done", "failed"}
    /\ slave.pc \in SlaveWaits \cup {"off", "exited", "died"}
    /\ runs["master"] \in 0..MaxMasterRuns /\ runs["slave"] \in 0..MaxSlaveRuns
    /\ incidents \in 0..MaxIncidents /\ clean \in BOOLEAN
    /\ slave.ctx # NoContext => slave.ctx.send_counter = slave.ctx.recv_counter

(* Agreement (run_master_handshake 548-568, run_slave_handshake 618-640):   *)
(* whatever is lost, damaged, left over from earlier runs or killed, a      *)
(* master that finishes the handshake holds the same content and broadcast  *)
(* keys and the same two identities as a slave run that finished it, and a  *)
(* slave that finishes it holds those a master run had computed when it     *)
(* verified the slave.                                                      *)
Agreement ==
    /\ master.ctx # NoContext =>
          \E s \in sessions : SameSession(master.ctx, s.ctx)
    /\ \A s \in sessions : \E m \in verified : SameSession(m.ctx, s.ctx)

(* FreshKeys (private_from_password 201-208): the record counters of every  *)
(* session start at 1, so two sessions of a slave, though opened with the   *)
(* same password, must never have the same content key.                     *)
FreshKeys ==
    \A s, t \in sessions : s.ctx.keys.ck = t.ctx.keys.ck => s.run = t.run

(* ReadsWhatItAsked (run_master 41-45): registers that the master reports   *)
(* are those it asked for in this run, and they were sent in a session that *)
(* the slave keeps with this run and no other.                              *)
ReadsWhatItAsked ==
    master.pc = "done" =>
        /\ master.request \in Served
        /\ master.result = <<"registers", master.request>>
        /\ \E s \in sessions : SameSession(master.ctx, s.ctx)

(* CleanRunSucceeds: a master that is started while a slave waits at its    *)
(* address on a quiet line, and meets no incident and no end that gives up  *)
(* on a record still under way, reads the registers if the slave has them:  *)
(* the two handshakes compute the same terms in the same order, neither end *)
(* waits for a record the other never sends, the counters start in step.    *)
CleanRunSucceeds ==
    clean /\ master.request \in Served => master.pc # "failed"

(* README.md:115 says of --password that both sides must use the same value, *)
(* "or authentication fails": a session two programs share was opened with  *)
(* one password.                                                            *)
SessionsSharePassword ==
    slave.pc = "serving" /\ master.ctx # NoContext /\ SameSession(master.ctx, slave.ctx)
        => master.private.password = slave.private.password

-----------------------------------------------------------------------------
(* What a run of the master is promised, see SecureChannel: connection n is *)
(* that of run n.  The slave serves as it answers the first request.        *)

Conns == 1..MaxMasterRuns
NoKey == <<>>
Held(phase, key) == IF phase \in {"keyed", "ready"} THEN key ELSE NoKey

MasterContext ==
    SessionContext("master", master.private, master.peer.point, master.peer.id,
                   master.id, master.peer.r_b)
MasterPhase(n) ==
    CASE n > runs["master"] -> "opening"
      [] n < runs["master"] -> "over"
      [] n = runs["master"] -> CASE master.pc = "failed" -> "over"
                                 [] master.pc = "final_cnf" -> "keyed"
                                 [] master.pc \in {"answer", "done"} -> "ready"
                                 [] OTHER -> "opening"
MasterKey(n) == Held(MasterPhase(n), MasterContext.keys.ck)

SessionWith(n, ctx) == ctx.peer_point.point.random = <<"master", n>>
SlavePhase(n) ==
    IF slave.pc = "serving" /\ SessionWith(n, slave.ctx)
    THEN IF slave.ctx.recv_counter = 1 THEN "keyed" ELSE "ready"
    ELSE IF \E s \in sessions : SessionWith(n, s.ctx) THEN "over" ELSE "opening"
SlaveKey(n) == Held(SlavePhase(n), slave.ctx.keys.ck)

Promise == INSTANCE SecureChannel WITH
    MasterFirst <- TRUE,
    mst <- [n \in Conns |-> MasterPhase(n)], mkey <- [n \in Conns |-> MasterKey(n)],
    sst <- [n \in Conns |-> SlavePhase(n)], skey <- [n \in Conns |-> SlaveKey(n)]

(* PromiseKept: every step of the two programs is a step of SecureChannel   *)
(* or leaves it alone.  So a slave establishes one session with each run of *)
(* the master, with the key that run holds, and answers nothing before the  *)
(* master has asked.                                                        *)
PromiseKept == Promise!Spec
=============================================================================
