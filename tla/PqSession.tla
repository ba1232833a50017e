------------------------------ MODULE PqSession ------------------------------
(***************************************************************************)
(* The post-quantum profile of section 6.4 (protocols-mpq).  Here the      *)
(* slave speaks first: its program loops for ever, each time round with    *)
(* new KEM keys, an ss_open_req and the handshake, then serves requests    *)
(* until the line falls silent.  The master program answers one handshake, *)
(* reads registers once and ends.  Nothing ties an ss_open_req, or the     *)
(* request for AKH, to the attempt it was sent in: a receive buffer may    *)
(* hold those of attempts the slave has long given up.                     *)
(*                                                                         *)
(* KEM keys, ciphertexts and hashes are terms; the certificate chain ends  *)
(* in keys compiled into both programs, and a certificate is represented   *)
(* by its fields.                                                          *)
(*                                                                         *)
(* A name that ends in an underscore and a capitalised word belongs to a   *)
(* variant, with a plausible bug, of the definition named before that      *)
(* underscore; no specification uses it.                                   *)
(***************************************************************************)
EXTENDS SerialLine

CONSTANTS Addresses, ClientIds, ServerIds, \* what operators may pass
          Requests,      \* register reads a master may be asked for
          Served,        \* those the slave's registers cover
          MaxMasterRuns, \* bound: master programs started
          MaxSlaveRuns,  \* bound: slave programs started
          MaxAttempts,   \* bound: handshakes the slave attempts
          MaxIncidents   \* bound: records lost or damaged, programs killed

ASSUME PqAssumption ==
    /\ Served \subseteq Requests
    /\ {MaxMasterRuns, MaxSlaveRuns, MaxAttempts, MaxIncidents} \subseteq Nat

VARIABLES line,      \* records on their way, per receiving end
          master,    \* the master program
          slave,     \* the slave program
          runs,      \* master and slave programs started
          attempts,  \* handshakes the slave attempted
          incidents, \* incidents so far
          clean,     \* ghost: this master run met one fresh offer and no trouble
          issued,    \* ghost: contexts of master runs
          sessions   \* ghost: contexts of slave attempts that verified AKH

vars == <<line, master, slave, runs, attempts, incidents, clean, issued, sessions>>

-----------------------------------------------------------------------------
(* Key terms *)

(* The pairs a slave makes for an attempt; a public key names its pair *)
KemKeys(attempt) == [kem |-> <<"KEM_C", attempt>>, broadcast |-> <<"KEM_BC", attempt>>]

encaps(public, run) == [to |-> public, by |-> run]

(* Decapsulating with another key yields an unrelated secret, no error *)
decaps(secret, ciphertext) ==
    IF ciphertext.to = secret THEN [secret |-> ciphertext]
                              ELSE [rejected |-> <<secret, ciphertext>>]

compute_auth_key_WithoutSecret(server_id, client_id, kemsk) == <<server_id, client_id>>
compute_auth_key(server_id, client_id, kemsk) == <<server_id, client_id, kemsk>>
derive_pq_content_keys(kemsk, kemsk_b, server_id, client_id) ==
    [ck |-> <<kemsk, server_id>>, bck |-> <<kemsk_b, client_id>>]

NoContext == [role |-> "none"]
PQSessionContext(role, server_id, client_id, kemsk, kemsk_b) ==
    [role |-> role, server_id |-> server_id, client_id |-> client_id,
     keys |-> derive_pq_content_keys(kemsk, kemsk_b, server_id, client_id),
     auth_key |-> compute_auth_key(server_id, client_id, kemsk),
     send_counter |-> 1, recv_counter |-> 1]
SameSession(m, s) ==
    /\ m.keys = s.keys /\ m.auth_key = s.auth_key
    /\ m.server_id = s.server_id /\ m.client_id = s.client_id

build_encrypted_data_send(addr, ctx, pdu) ==
    Apdu(addr, "ss_data_send",
         [key |-> ctx.keys.ck, counter |-> ctx.send_counter, pdu |-> pdu])
Decrypts(ctx, r) == r.send.key = ctx.keys.ck /\ r.send.counter = ctx.recv_counter
AfterSend(ctx) == [ctx EXCEPT !.send_counter = @ + 1]
AfterRecv(ctx) == [ctx EXCEPT !.recv_counter = @ + 1]

handle_modbus_pdu(pdu) ==
    IF pdu \in Served THEN <<"registers", pdu>> ELSE <<"exception", pdu>>
parse_register_response_Lax(pdu) == TRUE
parse_register_response(pdu) == pdu[1] = "registers"

-----------------------------------------------------------------------------
(* The programs *)

MasterOff == [pc |-> "off", addr |-> 0, id |-> 0, pending |-> NoContext,
              request |-> 0, result |-> <<>>, ctx |-> NoContext]
SlaveOff == [pc |-> "off", addr |-> 0, id |-> 0, pending |-> NoContext,
             ctx |-> NoContext]

MasterWaits == {"open_req", "first_req", "akh_req", "answer"}
SlaveWaits == {"open_cnf", "first_cnf", "final_cnf", "serving"}
SlaveAlive == slave.pc \in SlaveWaits \cup {"loop"}

Init ==
    /\ line = QuietLine /\ master = MasterOff /\ slave = SlaveOff
    /\ runs = [e \in Ends |-> 0] /\ attempts = 0 /\ incidents = 0
    /\ clean = FALSE /\ issued = {} /\ sessions = {}

Gets(end, program, tag) ==
    /\ line[end] # <<>>
    /\ Head(line[end]).addr = program.addr
    /\ Head(line[end]).tag = tag
Record(end) == Head(line[end])
Replies(end, to, record) == line' = Sent(Taken(line, end), to, record)

-----------------------------------------------------------------------------
(* Slave: serve, serve_connection and run_slave_handshake *)

SlaveStarts ==
    /\ ~SlaveAlive /\ runs["slave"] < MaxSlaveRuns
    /\ runs' = [runs EXCEPT !["slave"] = @ + 1]
    /\ \E a \in Addresses, id \in ServerIds, port \in OpenedPort(line, "slave") :
        /\ slave' = [SlaveOff EXCEPT !.pc = "loop", !.addr = a, !.id = id]
        /\ line' = port
    /\ clean' = FALSE
    /\ UNCHANGED <<master, attempts, incidents, issued, sessions>>

(* The next time round the loop of serve *)
SlaveOffers ==
    /\ slave.pc = "loop" /\ attempts < MaxAttempts
    /\ attempts' = attempts + 1
    /\ slave' = [slave EXCEPT !.pc = "open_cnf", !.pending = NoContext, !.ctx = NoContext]
    /\ line' = Sent(line, "master", Apdu(slave.addr, "ss_open_req", NoItems))
    /\ clean' = FALSE
    /\ UNCHANGED <<master, runs, incidents, issued, sessions>>

OpenCnfOk == slave.pc = "open_cnf" /\ Gets("slave", slave, "ss_open_cnf")

SlaveShowsCertificate ==
    /\ OpenCnfOk
    /\ slave' = [slave EXCEPT !.pc = "first_cnf"]
    /\ Replies("slave", "master",
               Apdu(slave.addr, "ss_data_req",
                    [SERVER_CERT |-> [role |-> "server", id |-> slave.id,
                                      keys |-> KemKeys(attempts)]]))
    /\ UNCHANGED <<master, runs, attempts, incidents, clean, issued, sessions>>

FirstCnfOk_ServerRole ==
    /\ slave.pc = "first_cnf" /\ Gets("slave", slave, "ss_data_cnf")
    /\ Has(Record("slave"), {"KEM_C", "KEM_BC", "CLIENT_CERT"})
    /\ Record("slave").send.CLIENT_CERT.role = "server"
FirstCnfOk ==
    /\ slave.pc = "first_cnf" /\ Gets("slave", slave, "ss_data_cnf")
    /\ Has(Record("slave"), {"KEM_C", "KEM_BC", "CLIENT_CERT"})
    /\ Record("slave").send.CLIENT_CERT.role = "client"

SlaveContext(r) ==
    PQSessionContext("slave", slave.id, r.CLIENT_CERT.id,
                     decaps(KemKeys(attempts).kem, r.KEM_C),
                     decaps(KemKeys(attempts).broadcast, r.KEM_BC))

SlaveAsksAkh ==
    /\ FirstCnfOk
    /\ slave' = [slave EXCEPT !.pc = "final_cnf",
                              !.pending = SlaveContext(Record("slave").send)]
    /\ Replies("slave", "master", Apdu(slave.addr, "ss_data_req", [request |-> "AKH"]))
    /\ UNCHANGED <<master, runs, attempts, incidents, clean, issued, sessions>>

FinalCnfOk_Unverified ==
    /\ slave.pc = "final_cnf" /\ Gets("slave", slave, "ss_data_cnf")
FinalCnfOk ==
    /\ slave.pc = "final_cnf" /\ Gets("slave", slave, "ss_data_cnf")
    /\ Has(Record("slave"), {"AKH"})
    /\ Record("slave").send.AKH = slave.pending.auth_key

SlaveEstablishes ==
    /\ FinalCnfOk
    /\ slave' = [slave EXCEPT !.pc = "serving", !.ctx = slave.pending]
    /\ sessions' = sessions \cup {slave.pending}
    /\ line' = Taken(line, "slave")
    /\ UNCHANGED <<master, runs, attempts, incidents, clean, issued>>

RequestOk ==
    /\ slave.pc = "serving" /\ Gets("slave", slave, "ss_data_send")
    /\ Decrypts(slave.ctx, Record("slave"))

SlaveServes ==
    /\ RequestOk
    /\ slave' = [slave EXCEPT !.ctx = AfterSend(AfterRecv(@))]
    /\ Replies("slave", "master",
               build_encrypted_data_send(slave.addr, slave.ctx,
                                         handle_modbus_pdu(Record("slave").send.pdu)))
    /\ UNCHANGED <<master, runs, attempts, incidents, clean, issued, sessions>>

(* ProtocolError takes serve back to the top of its loop, the InvalidTag of *)
(* a failed decryption is caught nowhere                                    *)
SlaveRejects ==
    /\ slave.pc \in SlaveWaits /\ line["slave"] # <<>>
    /\ ~(OpenCnfOk \/ FirstCnfOk \/ FinalCnfOk \/ RequestOk)
    /\ slave' = [slave EXCEPT
                   !.pc = IF slave.pc = "serving" /\ Gets("slave", slave, "ss_data_send")
                          THEN "died" ELSE "loop"]
    /\ line' = Taken(line, "slave")
    /\ UNCHANGED <<master, runs, attempts, incidents, clean, issued, sessions>>

(* EOFError: reported by serve, or "master disconnected"; then the next     *)
(* attempt.  Giving up while a record is on its way to the master is        *)
(* trouble, waiting in vain is not.                                         *)
SlaveGivesUp ==
    /\ slave.pc \in SlaveWaits /\ line["slave"] = <<>>
    /\ slave' = [slave EXCEPT !.pc = "loop"]
    /\ clean' = (clean /\ line["master"] = <<>>)
    /\ UNCHANGED <<line, master, runs, attempts, incidents, issued, sessions>>

-----------------------------------------------------------------------------
(* Master: run_master and run_master_handshake *)

MasterStarts ==
    /\ master.pc \notin MasterWaits /\ runs["master"] < MaxMasterRuns
    /\ runs' = [runs EXCEPT !["master"] = @ + 1]
    /\ \E a \in Addresses, id \in ClientIds, request \in Requests,
          port \in OpenedPort(line, "master") :
        /\ master' = [MasterOff EXCEPT !.pc = "open_req", !.addr = a, !.id = id,
                                       !.request = request]
        /\ line' = port
        /\ clean' = (/\ slave.pc = "open_cnf" /\ slave.addr = a
                     /\ port = Sent(QuietLine, "master", Apdu(a, "ss_open_req", NoItems)))
    /\ UNCHANGED <<slave, attempts, incidents, issued, sessions>>

OpenReqOk == master.pc = "open_req" /\ Gets("master", master, "ss_open_req")

MasterOpens ==
    /\ OpenReqOk
    /\ master' = [master EXCEPT !.pc = "first_req"]
    /\ Replies("master", "slave", Apdu(master.addr, "ss_open_cnf", NoItems))
    /\ UNCHANGED <<slave, runs, attempts, incidents, clean, issued, sessions>>

FirstReqOk ==
    /\ master.pc = "first_req" /\ Gets("master", master, "ss_data_req")
    /\ Has(Record("master"), {"SERVER_CERT"})
    /\ Record("master").send.SERVER_CERT.role = "server"

MasterEncapsulates ==
    /\ FirstReqOk
    /\ LET cert == Record("master").send.SERVER_CERT
           kem_c == encaps(cert.keys.kem, runs["master"])
           kem_bc == encaps(cert.keys.broadcast, runs["master"])
       IN  /\ master' = [master EXCEPT
                           !.pc = "akh_req",
                           !.pending = PQSessionContext("master", cert.id, master.id,
                                                        [secret |-> kem_c], [secret |-> kem_bc])]
           /\ Replies("master", "slave",
                      Apdu(master.addr, "ss_data_cnf",
                           [KEM_C |-> kem_c, KEM_BC |-> kem_bc,
                            CLIENT_CERT |-> [role |-> "client", id |-> master.id]]))
    /\ UNCHANGED <<slave, runs, attempts, incidents, clean, issued, sessions>>

AkhReqOk ==
    /\ master.pc = "akh_req" /\ Gets("master", master, "ss_data_req")
    /\ Has(Record("master"), {"request"})

(* The handshake ends as AKH is sent; the request follows at once *)
MasterAsks ==
    /\ AkhReqOk
    /\ LET ctx == master.pending
       IN  /\ master' = [master EXCEPT !.pc = "answer", !.ctx = AfterSend(ctx)]
           /\ issued' = issued \cup {ctx}
           /\ line' = Sent(Sent(Taken(line, "master"), "slave",
                                Apdu(master.addr, "ss_data_cnf", [AKH |-> ctx.auth_key])),
                           "slave",
                           build_encrypted_data_send(master.addr, ctx, master.request))
    /\ UNCHANGED <<slave, runs, attempts, incidents, clean, sessions>>

AnswerOk ==
    /\ master.pc = "answer" /\ Gets("master", master, "ss_data_send")
    /\ Decrypts(master.ctx, Record("master"))
    /\ parse_register_response(Record("master").send.pdu)

MasterReads ==
    /\ AnswerOk
    /\ master' = [master EXCEPT !.pc = "done", !.result = Record("master").send.pdu,
                                !.ctx = AfterRecv(@)]
    /\ line' = Taken(line, "master")
    /\ UNCHANGED <<slave, runs, attempts, incidents, clean, issued, sessions>>

MasterRejects ==
    /\ master.pc \in MasterWaits /\ line["master"] # <<>>
    /\ ~(OpenReqOk \/ FirstReqOk \/ AkhReqOk \/ AnswerOk)
    /\ master' = [master EXCEPT !.pc = "failed"]
    /\ line' = Taken(line, "master")
    /\ UNCHANGED <<slave, runs, attempts, incidents, clean, issued, sessions>>

MasterGivesUp ==
    /\ master.pc \in MasterWaits /\ line["master"] = <<>>
    /\ master' = [master EXCEPT !.pc = "failed"]
    /\ clean' = (clean /\ line["slave"] = <<>>)
    /\ UNCHANGED <<line, slave, runs, attempts, incidents, issued, sessions>>

-----------------------------------------------------------------------------
(* Incidents *)

Noise ==
    /\ incidents < MaxIncidents /\ incidents' = incidents + 1
    /\ line' \in Disturbed(line)
    /\ clean' = FALSE
    /\ UNCHANGED <<master, slave, runs, attempts, issued, sessions>>

Killed ==
    /\ incidents < MaxIncidents /\ incidents' = incidents + 1
    /\ \/ master.pc \in MasterWaits /\ master' = [master EXCEPT !.pc = "failed"]
          /\ UNCHANGED slave
       \/ SlaveAlive /\ slave' = [slave EXCEPT !.pc = "died"]
          /\ UNCHANGED master
    /\ clean' = FALSE
    /\ UNCHANGED <<line, runs, attempts, issued, sessions>>

Next ==
    \/ SlaveStarts \/ SlaveOffers \/ SlaveShowsCertificate \/ SlaveAsksAkh
    \/ SlaveEstablishes \/ SlaveServes \/ SlaveRejects \/ SlaveGivesUp
    \/ MasterStarts \/ MasterOpens \/ MasterEncapsulates \/ MasterAsks
    \/ MasterReads \/ MasterRejects \/ MasterGivesUp
    \/ Noise \/ Killed

Spec == Init /\ [][Next]_vars

-----------------------------------------------------------------------------
(* Properties *)

(* The programs are where the code can be, the line holds records, and the *)
(* two counters of a slave, which answers every request, step together.    *)
TypeOK ==
    /\ \A e \in Ends : \A i \in DOMAIN line[e] : line[e][i].addr \in Addresses \cup {0}
    /\ master.pc \in MasterWaits \cup {"off", "done", "failed"}
    /\ slave.pc \in SlaveWaits \cup {"off", "loop", "died"}
    /\ runs["master"] \in 0..MaxMasterRuns /\ runs["slave"] \in 0..MaxSlaveRuns
    /\ attempts \in 0..MaxAttempts /\ incidents \in 0..MaxIncidents
    /\ clean \in BOOLEAN
    /\ slave.ctx # NoContext => slave.ctx.send_counter = slave.ctx.recv_counter

(* SlaveAgrees (run_slave_handshake 858-879): a slave that accepts AKH      *)
(* holds the content key, the broadcast key and the identities of a master  *)
(* run that finished its handshake, although AKH covers neither KEM_BC nor  *)
(* the attempt, and buffers may hold records of earlier attempts and runs.  *)
SlaveAgrees == \A s \in sessions : \E m \in issued : SameSession(m, s)

(* ReadsWhatItAsked (run_master 41-45): registers that the master reports   *)
(* are those it asked for in this run, under keys that a slave attempt      *)
(* verified, though the master's own handshake does not wait for that.      *)
ReadsWhatItAsked ==
    master.pc = "done" =>
        /\ master.request \in Served
        /\ master.result = <<"registers", master.request>>
        /\ \E s \in sessions : SameSession(master.ctx, s)

(* CleanRunSucceeds: a master that finds one offer, of a slave that still   *)
(* waits for the reply to it, and meets no incident and no end that gives   *)
(* up on a record still under way, reads the registers if the slave has     *)
(* them.                                                                    *)
CleanRunSucceeds ==
    clean /\ master.request \in Served => master.pc # "failed"

-----------------------------------------------------------------------------
(* What a run of the master is promised, see SecureChannel: connection n is *)
(* that of run n.  A master that has asked may be alone with its key until  *)
(* it gets the answer; the slave serves as it answers the first request.    *)

Conns == 1..MaxMasterRuns
NoKey == <<>>
Held(phase, key) == IF phase \in {"keyed", "ready"} THEN key ELSE NoKey

MasterPhase(n) ==
    CASE n > runs["master"] -> "opening"
      [] n < runs["master"] -> "over"
      [] n = runs["master"] -> CASE master.pc = "failed" -> "over"
                                 [] master.pc \in {"akh_req", "answer"} -> "keyed"
                                 [] master.pc = "done" -> "ready"
                                 [] OTHER -> "opening"
MasterKey(n) == Held(MasterPhase(n), master.pending.keys.ck)

Ciphertext(kemsk) == IF "secret" \in DOMAIN kemsk THEN kemsk.secret ELSE kemsk.rejected[2]
SessionWith(n, ctx) == Ciphertext(ctx.keys.ck[1]).by = n
SlavePhase(n) ==
    IF slave.pc = "serving" /\ SessionWith(n, slave.ctx)
    THEN IF slave.ctx.recv_counter = 1 THEN "keyed" ELSE "ready"
    ELSE IF \E s \in sessions : SessionWith(n, s) THEN "over" ELSE "opening"
SlaveKey(n) == Held(SlavePhase(n), slave.ctx.keys.ck)

Promise == INSTANCE SecureChannel WITH
    MasterFirst <- FALSE,
    mst <- [n \in Conns |-> MasterPhase(n)], mkey <- [n \in Conns |-> MasterKey(n)],
    sst <- [n \in Conns |-> SlavePhase(n)], skey <- [n \in Conns |-> SlaveKey(n)]

(* PromiseKept: every step of the two programs is a step of SecureChannel   *)
(* or leaves it alone.  So a slave establishes one session with each run of *)
(* the master, with the key that run holds, and a master reports registers  *)
(* only of a slave that has it too.                                         *)
PromiseKept == Promise!Spec
=============================================================================
