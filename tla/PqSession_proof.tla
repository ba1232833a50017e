---------------------------- MODULE PqSession_proof ----------------------------
(***************************************************************************)
(* Proofs about PqSession, for any number of runs, attempts and incidents, *)
(* any identities and requests.                                            *)
(***************************************************************************)
EXTENDS PqSession, SerialLine_proof

(* The kinds of record the argument is about *)
Certificate(r) == r.tag = "ss_data_req" /\ "SERVER_CERT" \in DOMAIN r.send
Ciphertexts(r) == r.tag = "ss_data_cnf" /\ "KEM_C" \in DOMAIN r.send
Confirmation(r) == r.tag = "ss_data_cnf" /\ "AKH" \in DOMAIN r.send
Data(r) == r.tag = "ss_data_send"

(* The broadcast key that goes with a key: encapsulated in the same run for *)
(* the same attempt                                                         *)
IsSecret(key) == "secret" \in DOMAIN key
TwinOf(ciphertext) == encaps(KemKeys(ciphertext.to[2]).broadcast, ciphertext.by)
Linked(ctx) ==
    LET kemsk == ctx.auth_key[3]
    IN  /\ ctx.auth_key = compute_auth_key(ctx.server_id, ctx.client_id, kemsk)
        /\ ctx.keys = derive_pq_content_keys(kemsk, [secret |-> TwinOf(kemsk.secret)],
                                             ctx.server_id, ctx.client_id)

Ready(ctx) == ctx.send_counter = 1 /\ ctx.recv_counter = 1

(* Master runs that have finished their handshake *)
Asked == IF master.pc \in {"open_req", "first_req", "akh_req"}
         THEN runs["master"] - 1 ELSE runs["master"]
KeyOld(key) == key[1].secret.by \in Nat /\ key[1].secret.by <= Asked
Serves(key) == \E s \in sessions : s.keys.ck = key

-----------------------------------------------------------------------------
(* The inductive invariant *)

GhostsOk ==
    /\ \A m \in issued : IsSecret(m.auth_key[3]) /\ Linked(m) /\ KeyOld(m.keys.ck)
    /\ SlaveAgrees

MasterOk ==
    /\ master.pc = "akh_req" =>
          /\ IsSecret(master.pending.auth_key[3]) /\ Linked(master.pending)
          /\ master.pending.keys.ck[1].secret.by = runs["master"]
    /\ master.pc \in {"answer", "done"} =>
          \A m \in issued : m.keys.ck = master.ctx.keys.ck => SameSession(master.ctx, m)
    /\ master.pc = "done" =>
          /\ master.request \in Served
          /\ master.result = <<"registers", master.request>>
          /\ \E s \in sessions : SameSession(master.ctx, s)

(* A slave that decapsulated KEM_C holds the broadcast key that goes with  *)
(* it; one that could not holds a key nobody else has                      *)
SlaveOk ==
    /\ slave.pc = "final_cnf" =>
          LET kemsk == slave.pending.auth_key[3]
          IN  /\ slave.pending.auth_key =
                    compute_auth_key(slave.pending.server_id, slave.pending.client_id, kemsk)
              /\ IsSecret(kemsk) => Linked(slave.pending)
    /\ slave.pc = "serving" => Serves(slave.ctx.keys.ck)

(* Whoever sent it and however old it is, a record says the truth *)
ToSlaveTrue(r) ==
    /\ Ciphertexts(r) => /\ r.send.KEM_C.to = KemKeys(r.send.KEM_C.to[2]).kem
                         /\ r.send.KEM_BC = TwinOf(r.send.KEM_C)
    /\ Confirmation(r) => \E m \in issued : r.send.AKH = m.auth_key
    /\ Data(r) => KeyOld(r.send.key)
ToMasterTrue(r) ==
    /\ Certificate(r) => r.send.SERVER_CERT.keys = KemKeys(r.send.SERVER_CERT.keys.kem[2])
    /\ Data(r) => KeyOld(r.send.key) /\ Serves(r.send.key)
RecordsTrue(l) ==
    /\ \A i \in DOMAIN l["slave"] : ToSlaveTrue(l["slave"][i])
    /\ \A i \in DOMAIN l["master"] : ToMasterTrue(l["master"][i])

(* What is encrypted under the master's content key is its request and the  *)
(* answer to it                                                             *)
AnswersThis(l) ==
    master.pc = "answer" =>
        /\ \A i \in DOMAIN l["slave"] :
              Data(l["slave"][i]) /\ l["slave"][i].send.key = master.ctx.keys.ck
                  => l["slave"][i].send.pdu = master.request
        /\ \A i \in DOMAIN l["master"] :
              Data(l["master"][i]) /\ l["master"][i].send.key = master.ctx.keys.ck
                  => l["master"][i].send.pdu = handle_modbus_pdu(master.request)

LineOk(l) == RecordsTrue(l) /\ AnswersThis(l)
IInv == GhostsOk /\ MasterOk /\ SlaveOk /\ LineOk(line)

(* What the provers have to know of the variables to reason about them *)
MasterFields == {"pc", "addr", "id", "pending", "request", "result", "ctx"}
SlaveFields == {"pc", "addr", "id", "pending", "ctx"}
IsMaster(m) == m = [x \in MasterFields |-> m[x]]
IsSlave(s) == s = [x \in SlaveFields |-> s[x]]
Shapes ==
    /\ IsLine(line) /\ IsMaster(master) /\ IsSlave(slave)
    /\ runs \in [Ends -> Nat]

-----------------------------------------------------------------------------
(* Programs: assignments to their attributes *)

LEMMA OffShapes == IsMaster(MasterOff) /\ IsSlave(SlaveOff)
BY DEF IsMaster, IsSlave, MasterOff, SlaveOff, MasterFields, SlaveFields

LEMMA MasterPc ==
    ASSUME NEW m, IsMaster(m), NEW v, NEW new, new = [m EXCEPT !.pc = v]
    PROVE  /\ IsMaster(new) /\ new.pc = v
           /\ \A x \in MasterFields \ {"pc"} : new[x] = m[x]
BY FieldSet DEF IsMaster, MasterFields

SetMasterPending(m, v, w) == [m EXCEPT !.pc = v, !.pending = w]
LEMMA MasterPcPending ==
    ASSUME NEW m, IsMaster(m), NEW v, NEW w, NEW new, new = SetMasterPending(m, v, w)
    PROVE  /\ IsMaster(new) /\ new.pc = v /\ new.pending = w
           /\ \A x \in MasterFields \ {"pc", "pending"} : new[x] = m[x]
BY TwoFieldsSet DEF IsMaster, MasterFields, SetMasterPending

SetMasterCtx(m, v, w) == [m EXCEPT !.pc = v, !.ctx = w]
LEMMA MasterPcCtx ==
    ASSUME NEW m, IsMaster(m), NEW v, NEW w, NEW new, new = SetMasterCtx(m, v, w)
    PROVE  /\ IsMaster(new) /\ new.pc = v /\ new.ctx = w
           /\ \A x \in MasterFields \ {"pc", "ctx"} : new[x] = m[x]
BY TwoFieldsSet DEF IsMaster, MasterFields, SetMasterCtx

SetMasterResult(m, v, w, x) == [m EXCEPT !.pc = v, !.result = w, !.ctx = x]
LEMMA MasterPcResultCtx ==
    ASSUME NEW m, IsMaster(m), NEW v, NEW w, NEW x,
           NEW new, new = SetMasterResult(m, v, w, x)
    PROVE  /\ IsMaster(new) /\ new.pc = v /\ new.result = w /\ new.ctx = x
           /\ \A y \in MasterFields \ {"pc", "result", "ctx"} : new[y] = m[y]
BY ThreeFieldsSet DEF IsMaster, MasterFields, SetMasterResult

MasterBegins(a, id, request) ==
    [MasterOff EXCEPT !.pc = "open_req", !.addr = a, !.id = id, !.request = request]
LEMMA NewMaster ==
    ASSUME NEW a, NEW id, NEW request, NEW new, new = MasterBegins(a, id, request)
    PROVE  IsMaster(new) /\ new.pc = "open_req" /\ new.addr = a /\ new.request = request
<1> DEFINE some == [MasterOff EXCEPT !.pc = "open_req", !.addr = a, !.id = id]
           all == [some EXCEPT !.request = request]
<1>1. new = all
  BY DEF MasterBegins
<1>2. IsMaster(some) /\ some.pc = "open_req" /\ some.addr = a /\ some.id = id
  BY OffShapes, ThreeFieldsSet DEF IsMaster, MasterFields
<1> HIDE DEF some
<1>3. /\ IsMaster(all) /\ all.request = request
      /\ \A x \in MasterFields \ {"request"} : all[x] = some[x]
  BY <1>2, FieldSet DEF IsMaster, MasterFields
<1> HIDE DEF all
<1> QED
  BY <1>1, <1>2, <1>3 DEF MasterFields

LEMMA SlavePc ==
    ASSUME NEW s, IsSlave(s), NEW v, NEW new, new = [s EXCEPT !.pc = v]
    PROVE  /\ IsSlave(new) /\ new.pc = v
           /\ \A x \in SlaveFields \ {"pc"} : new[x] = s[x]
BY FieldSet DEF IsSlave, SlaveFields

LEMMA SlaveCtx ==
    ASSUME NEW s, IsSlave(s), NEW v, NEW new, new = [s EXCEPT !.ctx = v]
    PROVE  /\ IsSlave(new) /\ new.ctx = v
           /\ \A x \in SlaveFields \ {"ctx"} : new[x] = s[x]
BY FieldSet DEF IsSlave, SlaveFields

SetSlavePending(s, v, w) == [s EXCEPT !.pc = v, !.pending = w]
LEMMA SlavePcPending ==
    ASSUME NEW s, IsSlave(s), NEW v, NEW w, NEW new, new = SetSlavePending(s, v, w)
    PROVE  /\ IsSlave(new) /\ new.pc = v /\ new.pending = w
           /\ \A x \in SlaveFields \ {"pc", "pending"} : new[x] = s[x]
BY TwoFieldsSet DEF IsSlave, SlaveFields, SetSlavePending

SetSlaveCtx(s, v, w) == [s EXCEPT !.pc = v, !.ctx = w]
LEMMA SlavePcCtx ==
    ASSUME NEW s, IsSlave(s), NEW v, NEW w, NEW new, new = SetSlaveCtx(s, v, w)
    PROVE  /\ IsSlave(new) /\ new.pc = v /\ new.ctx = w
           /\ \A x \in SlaveFields \ {"pc", "ctx"} : new[x] = s[x]
BY TwoFieldsSet DEF IsSlave, SlaveFields, SetSlaveCtx

SlaveAnew(s, v, w, x) == [s EXCEPT !.pc = v, !.pending = w, !.ctx = x]
LEMMA SlavePcPendingCtx ==
    ASSUME NEW s, IsSlave(s), NEW v, NEW w, NEW x, NEW new, new = SlaveAnew(s, v, w, x)
    PROVE  IsSlave(new) /\ new.pc = v
BY ThreeFieldsSet DEF IsSlave, SlaveFields, SlaveAnew

LEMMA NewSlave ==
    ASSUME NEW a, NEW id, NEW new,
           new = [SlaveOff EXCEPT !.pc = "loop", !.addr = a, !.id = id]
    PROVE  IsSlave(new) /\ new.pc = "loop"
BY OffShapes, ThreeFieldsSet DEF IsSlave, SlaveFields

-----------------------------------------------------------------------------
(* Contexts *)

LEMMA ContextFields ==
    ASSUME NEW role, NEW server_id, NEW client_id, NEW kemsk, NEW kemsk_b, NEW ctx,
           ctx = PQSessionContext(role, server_id, client_id, kemsk, kemsk_b)
    PROVE  /\ ctx.server_id = server_id /\ ctx.client_id = client_id
           /\ ctx.auth_key = compute_auth_key(server_id, client_id, kemsk)
           /\ ctx.auth_key[3] = kemsk /\ ctx.keys.ck[1] = kemsk
           /\ ctx.keys = derive_pq_content_keys(kemsk, kemsk_b, server_id, client_id)
           /\ ctx.keys.ck = <<kemsk, server_id>>
           /\ Ready(ctx)
BY DEF PQSessionContext, compute_auth_key, derive_pq_content_keys, Ready

(* AKH tells everything: who agree on it agree on all keys *)
LEMMA AkhTellsAll ==
    ASSUME NEW m, NEW s, Linked(m), IsSecret(m.auth_key[3]), m.auth_key = s.auth_key,
           s.auth_key = compute_auth_key(s.server_id, s.client_id, s.auth_key[3]),
           IsSecret(s.auth_key[3]) => Linked(s)
    PROVE  SameSession(m, s)
<1>1. Linked(s)
  OBVIOUS
<1>2. PICK key : key = m.auth_key[3]
  OBVIOUS
<1>3. /\ m.auth_key = <<m.server_id, m.client_id, key>>
      /\ s.auth_key = <<s.server_id, s.client_id, key>>
  BY <1>1, <1>2 DEF Linked, compute_auth_key
<1>4. m.server_id = s.server_id /\ m.client_id = s.client_id
  <2>1. PICK a, b, c, d : a = m.server_id /\ b = m.client_id /\ c = s.server_id /\ d = s.client_id
    OBVIOUS
  <2>2. <<a, b, key>> = <<c, d, key>>
    BY <1>3, <2>1
  <2>3. a = c /\ b = d
    BY <2>2
  <2> QED
    BY <2>1, <2>3
<1> QED
  BY <1>1, <1>4 DEF Linked, SameSession

LEMMA CountingKeeps ==
    ASSUME NEW ctx
    PROVE  /\ AfterSend(ctx).keys = ctx.keys /\ AfterSend(ctx).auth_key = ctx.auth_key
           /\ AfterSend(ctx).server_id = ctx.server_id /\ AfterSend(ctx).client_id = ctx.client_id
           /\ AfterSend(ctx).recv_counter = ctx.recv_counter
           /\ AfterRecv(ctx).keys = ctx.keys /\ AfterRecv(ctx).auth_key = ctx.auth_key
           /\ AfterRecv(ctx).server_id = ctx.server_id /\ AfterRecv(ctx).client_id = ctx.client_id
BY DEF AfterSend, AfterRecv

-----------------------------------------------------------------------------
(* Records that are lost, damaged or read leave the invariant to the rest *)

LEMMA GarbledIsNothing ==
    ~Certificate(Garbled) /\ ~Ciphertexts(Garbled) /\ ~Confirmation(Garbled) /\ ~Data(Garbled)
BY DEF Certificate, Ciphertexts, Confirmation, Data, Garbled, Apdu

LEMMA ThinKeeps ==
    ASSUME NEW old, NEW new, LineThinned(new, old), LineOk(old)
    PROVE  LineOk(new)
<1>1. \A e \in {"slave", "master"} : \A j \in DOMAIN new[e] :
         new[e][j] = Garbled \/ \E k \in DOMAIN old[e] : new[e][j] = old[e][k]
  BY DEF LineThinned, Thinned, Ends
<1>2. RecordsTrue(new)
  BY <1>1, GarbledIsNothing DEF LineOk, RecordsTrue, ToSlaveTrue, ToMasterTrue
<1>3. AnswersThis(new)
  BY <1>1, GarbledIsNothing DEF LineOk, AnswersThis
<1> QED
  BY <1>2, <1>3 DEF LineOk

LEMMA LineLeft ==
    ASSUME Shapes, UNCHANGED line
    PROVE  LineThinned(line', line)
BY SameQueue DEF LineThinned, Shapes, IsLine

-----------------------------------------------------------------------------
(* What is true stays true as programs start and sessions are added *)

Grows ==
    /\ Shapes /\ Shapes' /\ Asked' >= Asked
    /\ issued \subseteq issued' /\ sessions \subseteq sessions'

LEMMA AskedIsInt == ASSUME Shapes PROVE runs["master"] \in Nat /\ Asked \in Int
BY DEF Shapes, Asked, Ends

LEMMA KeyOldStays ==
    ASSUME Grows, NEW key, KeyOld(key)
    PROVE  KeyOld(key)'
<1>1. Asked \in Int /\ Asked' \in Int /\ Asked <= Asked'
  BY DEF Grows, Shapes, Asked, Ends
<1> QED
  BY <1>1 DEF KeyOld

LEMMA RecordsStay ==
    ASSUME Grows, NEW t, RecordsTrue(t)
    PROVE  RecordsTrue(t)'
<1>1. ASSUME NEW i \in DOMAIN t["slave"] PROVE ToSlaveTrue(t["slave"][i])'
  <2>1. PICK r : r = t["slave"][i]
    OBVIOUS
  <2>2. ToSlaveTrue(r)
    BY <2>1 DEF RecordsTrue
  <2>3. Data(r) => KeyOld(r.send.key)'
    BY <2>2, KeyOldStays DEF ToSlaveTrue
  <2>4. ToSlaveTrue(r)'
    BY <2>2, <2>3 DEF ToSlaveTrue, Grows
  <2> QED
    BY <2>1, <2>4
<1>2. ASSUME NEW i \in DOMAIN t["master"] PROVE ToMasterTrue(t["master"][i])'
  <2>1. PICK r : r = t["master"][i]
    OBVIOUS
  <2>2. ToMasterTrue(r)
    BY <2>1 DEF RecordsTrue
  <2>3. Data(r) => KeyOld(r.send.key)'
    BY <2>2, KeyOldStays DEF ToMasterTrue
  <2>4. ToMasterTrue(r)'
    BY <2>2, <2>3 DEF ToMasterTrue, Serves, Grows
  <2> QED
    BY <2>1, <2>4
<1> QED
  BY <1>1, <1>2 DEF RecordsTrue

LEMMA GhostsStay ==
    ASSUME Grows, GhostsOk, UNCHANGED <<issued, sessions>>
    PROVE  GhostsOk'
<1>1. ASSUME NEW m \in issued PROVE KeyOld(m.keys.ck)'
  <2>1. KeyOld(m.keys.ck)
    BY DEF GhostsOk
  <2> QED
    BY <2>1, KeyOldStays
<1> QED
  BY <1>1 DEF GhostsOk, SlaveAgrees

-----------------------------------------------------------------------------
(* The line after a step that sends nothing, and after one that sends *)

LEMMA QuietStep ==
    ASSUME Grows, LineOk(line), LineThinned(line', line),
           master' = master \/ master'.pc # "answer"
    PROVE  LineOk(line)'
<1>1. PICK t : t = line'
  OBVIOUS
<1>2. LineOk(t)
  BY <1>1, ThinKeeps
<1>3. RecordsTrue(t)'
  BY <1>2, RecordsStay DEF LineOk
<1>4. AnswersThis(t)'
  BY <1>2 DEF LineOk, AnswersThis
<1> QED
  BY <1>1, <1>3, <1>4 DEF LineOk, RecordsTrue, AnswersThis

LEMMA MasterSends ==
    ASSUME Grows, NEW t, IsLine(t), RecordsTrue(t), NEW r, ToSlaveTrue(r)',
           NEW new, new = Sent(t, "slave", r)
    PROVE  IsLine(new) /\ RecordsTrue(new)'
<1>1. /\ \A i \in DOMAIN new["slave"] :
            (i \in DOMAIN t["slave"] /\ new["slave"][i] = t["slave"][i]) \/ new["slave"][i] = r
      /\ new["master"] = t["master"] /\ IsLine(new)
  BY SentOnLine DEF Ends
<1>2. RecordsTrue(t)'
  BY RecordsStay
<1>3. ASSUME NEW i \in DOMAIN new["slave"] PROVE ToSlaveTrue(new["slave"][i])'
  <2>1. CASE i \in DOMAIN t["slave"] /\ new["slave"][i] = t["slave"][i]
    BY <1>2, <2>1 DEF RecordsTrue
  <2>2. CASE new["slave"][i] = r
    BY <2>2
  <2> QED
    BY <1>1, <2>1, <2>2
<1>4. ASSUME NEW i \in DOMAIN new["master"] PROVE ToMasterTrue(new["master"][i])'
  BY <1>1, <1>2 DEF RecordsTrue
<1> QED
  BY <1>1, <1>3, <1>4 DEF RecordsTrue

LEMMA SlaveSends ==
    ASSUME Grows, LineOk(line), master' = master, line["slave"] # <<>>,
           NEW t, t = Taken(line, "slave"), NEW r, line' = Sent(t, "master", r), ToMasterTrue(r)',
           master.pc = "answer" /\ Data(r) /\ r.send.key = master.ctx.keys.ck
               => r.send.pdu = handle_modbus_pdu(master.request)
    PROVE  LineOk(line)'
<1>1. PICK l : l = Sent(t, "master", r)
  OBVIOUS
<1>2. IsLine(t) /\ LineThinned(t, line)
  BY TakenThins DEF Grows, Shapes, LineThinned, Ends
<1>3. LineOk(t)
  BY <1>2, ThinKeeps
<1>4. /\ \A i \in DOMAIN l["master"] :
            (i \in DOMAIN t["master"] /\ l["master"][i] = t["master"][i]) \/ l["master"][i] = r
      /\ l["slave"] = t["slave"]
  BY <1>1, <1>2, SentOnLine DEF Ends
<1>5. RecordsTrue(l)'
  <2>1. RecordsTrue(t)'
    BY <1>3, RecordsStay DEF LineOk
  <2>2. ASSUME NEW i \in DOMAIN l["master"] PROVE ToMasterTrue(l["master"][i])'
    <3>1. CASE i \in DOMAIN t["master"] /\ l["master"][i] = t["master"][i]
      BY <2>1, <3>1 DEF RecordsTrue
    <3>2. CASE l["master"][i] = r
      BY <3>2
    <3> QED
      BY <1>4, <3>1, <3>2
  <2>3. ASSUME NEW i \in DOMAIN l["slave"] PROVE ToSlaveTrue(l["slave"][i])'
    BY <1>4, <2>1 DEF RecordsTrue
  <2> QED
    BY <2>2, <2>3 DEF RecordsTrue
<1>6. AnswersThis(l)'
  BY <1>3, <1>4 DEF LineOk, AnswersThis
<1> QED
  BY <1>1, <1>5, <1>6 DEF LineOk, RecordsTrue, AnswersThis

-----------------------------------------------------------------------------
(* The steps of the slave *)

(* What a slave step that establishes no session does not touch *)
LEMMA MasterLeft ==
    ASSUME Shapes, Shapes', UNCHANGED <<master, issued>>, runs'["master"] = runs["master"],
           sessions \subseteq sessions'
    PROVE  Grows /\ Asked' = Asked
<1>1. Asked' = Asked
  BY DEF Asked
<1> QED
  BY <1>1, AskedIsInt DEF Grows

LEMMA MasterStays ==
    ASSUME MasterOk, UNCHANGED <<master, issued>>, runs'["master"] = runs["master"],
           sessions \subseteq sessions'
    PROVE  MasterOk'
BY DEF MasterOk

LEMMA SlaveStays ==
    ASSUME SlaveOk, sessions \subseteq sessions',
           \/ slave' = slave
           \/ slave'.pc \notin {"final_cnf", "serving"}
    PROVE  SlaveOk'
BY DEF SlaveOk, Serves

(* A step of the slave, or an incident, that adds nothing to the line *)
LEMMA SlaveMovesOn ==
    ASSUME Shapes, IInv, IsSlave(slave'), slave'.pc \notin {"final_cnf", "serving"},
           LineThinned(line', line), UNCHANGED <<master, issued, sessions>>,
           runs' \in [Ends -> Nat], runs'["master"] = runs["master"]
    PROVE  Shapes' /\ IInv'
<1>1. Shapes'
  BY DEF Shapes, LineThinned
<1>2. Grows
  BY <1>1, MasterLeft
<1>3. LineOk(line)'
  BY <1>2, QuietStep DEF IInv
<1> QED
  BY <1>1, <1>2, <1>3, GhostsStay, MasterStays, SlaveStays DEF IInv

LEMMA SlaveStartsKeeps ==
    ASSUME Shapes, IInv, SlaveStarts
    PROVE  Shapes' /\ IInv'
<1>1. PICK a \in Addresses, id \in ServerIds, port \in OpenedPort(line, "slave") :
        /\ slave' = [SlaveOff EXCEPT !.pc = "loop", !.addr = a, !.id = id]
        /\ line' = port
  BY DEF SlaveStarts
<1>2. IsSlave(slave') /\ slave'.pc = "loop"
  BY <1>1, NewSlave
<1>3. LineThinned(line', line)
  BY <1>1, OpenedThins DEF Shapes, Ends
<1>4. runs' \in [Ends -> Nat] /\ runs'["master"] = runs["master"]
  BY DEF SlaveStarts, Shapes, Ends
<1> QED
  BY <1>2, <1>3, <1>4, SlaveMovesOn DEF SlaveStarts

(* The slave takes a record, or none, and sends one *)
LEMMA SlaveOffersKeeps ==
    ASSUME Shapes, IInv, SlaveOffers
    PROVE  Shapes' /\ IInv'
<1>1. PICK rec : rec = Apdu(slave.addr, "ss_open_req", NoItems)
  OBVIOUS
<1>2. /\ line' = Sent(line, "master", rec)
      /\ slave' = SlaveAnew(slave, "open_cnf", NoContext, NoContext)
      /\ UNCHANGED <<master, runs, issued, sessions>>
  BY <1>1 DEF SlaveOffers, SlaveAnew
<1>3. IsSlave(slave') /\ slave'.pc = "open_cnf"
  BY <1>2, SlavePcPendingCtx DEF Shapes
<1>4. /\ IsLine(line')
      /\ \A i \in DOMAIN line'["master"] :
            \/ i \in DOMAIN line["master"] /\ line'["master"][i] = line["master"][i]
            \/ line'["master"][i] = rec
      /\ line'["slave"] = line["slave"]
  BY <1>2, SentOnLine DEF Shapes, Ends
<1>5. Shapes'
  BY <1>2, <1>3, <1>4 DEF Shapes
<1>6. Grows
  BY <1>2, <1>5, MasterLeft
<1>7. ~Data(rec) /\ ~Certificate(rec)
  BY <1>1 DEF Apdu, Data, Certificate
<1>8. RecordsTrue(line)'
  <2>1. PICK t, l : t = line /\ l = line'
    OBVIOUS
  <2>2. RecordsTrue(t)'
    BY <1>6, <2>1, RecordsStay DEF IInv, LineOk
  <2>3. ToMasterTrue(rec)'
    BY <1>7 DEF ToMasterTrue
  <2>4. RecordsTrue(l)'
    <3>1. ASSUME NEW i \in DOMAIN l["master"] PROVE ToMasterTrue(l["master"][i])'
      <4>1. CASE i \in DOMAIN t["master"] /\ l["master"][i] = t["master"][i]
        BY <2>2, <4>1 DEF RecordsTrue
      <4>2. CASE l["master"][i] = rec
        BY <2>3, <4>2
      <4> QED
        BY <1>4, <2>1, <4>1, <4>2
    <3>2. ASSUME NEW i \in DOMAIN l["slave"] PROVE ToSlaveTrue(l["slave"][i])'
      BY <1>4, <2>1, <2>2 DEF RecordsTrue
    <3> QED
      BY <3>1, <3>2 DEF RecordsTrue
  <2> QED
    BY <2>1, <2>4 DEF RecordsTrue
<1>9. AnswersThis(line)'
  BY <1>2, <1>4, <1>7 DEF AnswersThis, IInv, LineOk
<1> QED
  BY <1>2, <1>3, <1>5, <1>6, <1>8, <1>9, GhostsStay, MasterStays, SlaveStays DEF IInv, LineOk

LEMMA SlaveShowsCertificateKeeps ==
    ASSUME Shapes, IInv, SlaveShowsCertificate
    PROVE  Shapes' /\ IInv'
<1>1. PICK keys : keys = KemKeys(attempts)
  OBVIOUS
<1>2. PICK rec : rec = Apdu(slave.addr, "ss_data_req",
                            [SERVER_CERT |-> [role |-> "server", id |-> slave.id,
                                              keys |-> keys]])
  OBVIOUS
<1>3. PICK t : t = Taken(line, "slave")
  OBVIOUS
<1>4. /\ line["slave"] # <<>> /\ line' = Sent(t, "master", rec)
      /\ UNCHANGED <<master, runs, issued, sessions>>
  BY <1>1, <1>2, <1>3 DEF SlaveShowsCertificate, OpenCnfOk, Gets, Replies
<1>5. IsSlave(slave') /\ slave'.pc = "first_cnf"
  BY SlavePc DEF SlaveShowsCertificate, Shapes
<1>6. IsLine(t)
  BY <1>3, <1>4, TakenThins DEF Shapes, Ends, LineThinned
<1>7. rec.tag = "ss_data_req" /\ rec.send.SERVER_CERT.keys = keys
  BY <1>2 DEF Apdu
<1>8. keys = KemKeys(keys.kem[2])
  BY <1>1 DEF KemKeys
<1>9. ToMasterTrue(rec)'
  BY <1>7, <1>8 DEF ToMasterTrue, Data
<1>10. Shapes'
  BY <1>4, <1>5, <1>6, SentOnLine DEF Shapes, Ends
<1>11. Grows
  BY <1>4, <1>10, MasterLeft
<1>12. LineOk(line)'
  BY <1>3, <1>4, <1>7, <1>9, <1>11, SlaveSends DEF IInv, Data
<1> QED
  BY <1>4, <1>5, <1>10, <1>11, <1>12, GhostsStay, MasterStays, SlaveStays DEF IInv

(* Both ciphertexts are of one run and for one attempt: decapsulating them  *)
(* with the keys of an attempt succeeds for both or fails for both          *)
LEMMA SlaveDecapsulates ==
    ASSUME NEW send, send.KEM_C.to = KemKeys(send.KEM_C.to[2]).kem,
           send.KEM_BC = TwinOf(send.KEM_C), NEW ctx, ctx = SlaveContext(send)
    PROVE  /\ ctx.auth_key = compute_auth_key(ctx.server_id, ctx.client_id, ctx.auth_key[3])
           /\ IsSecret(ctx.auth_key[3]) => Linked(ctx)
<1>1. PICK c, keys : c = send.KEM_C /\ keys = KemKeys(attempts)
  OBVIOUS
<1>2. PICK kemsk, kemsk_b : /\ kemsk = decaps(keys.kem, c)
                            /\ kemsk_b = decaps(keys.broadcast, send.KEM_BC)
  OBVIOUS
<1>3. ctx = PQSessionContext("slave", slave.id, send.CLIENT_CERT.id, kemsk, kemsk_b)
  BY <1>1, <1>2 DEF SlaveContext
<1>4. /\ ctx.server_id = slave.id /\ ctx.client_id = send.CLIENT_CERT.id
      /\ ctx.auth_key = compute_auth_key(ctx.server_id, ctx.client_id, kemsk)
      /\ ctx.auth_key[3] = kemsk
      /\ ctx.keys = derive_pq_content_keys(kemsk, kemsk_b, ctx.server_id, ctx.client_id)
  BY <1>3, ContextFields
<1>5. ASSUME IsSecret(kemsk) PROVE kemsk_b = [secret |-> TwinOf(kemsk.secret)]
  <2>1. c.to = keys.kem /\ kemsk = [secret |-> c]
    BY <1>2, <1>5 DEF decaps, IsSecret
  <2>2. c.to[2] = attempts
    BY <1>1, <2>1 DEF KemKeys
  <2>3. send.KEM_BC = TwinOf(c) /\ TwinOf(c).to = keys.broadcast
    BY <1>1, <2>2 DEF TwinOf, encaps
  <2>4. kemsk_b = [secret |-> TwinOf(c)]
    BY <1>2, <2>3 DEF decaps
  <2> QED
    BY <2>1, <2>4
<1> QED
  BY <1>4, <1>5 DEF Linked

LEMMA SlaveAsksAkhKeeps ==
    ASSUME Shapes, IInv, SlaveAsksAkh
    PROVE  Shapes' /\ IInv'
<1>1. PICK send, ctx : send = Record("slave").send /\ ctx = SlaveContext(send)
  OBVIOUS
<1>2. PICK rec : rec = Apdu(slave.addr, "ss_data_req", [request |-> "AKH"])
  OBVIOUS
<1>3. PICK t : t = Taken(line, "slave")
  OBVIOUS
<1>4. /\ line["slave"] # <<>> /\ Ciphertexts(Record("slave")) /\ line' = Sent(t, "master", rec)
      /\ slave' = SetSlavePending(slave, "final_cnf", ctx)
      /\ UNCHANGED <<master, runs, issued, sessions>>
  BY <1>1, <1>2, <1>3
  DEF SlaveAsksAkh, FirstCnfOk, Gets, Replies, Has, Ciphertexts, Record, SetSlavePending
<1>5. IsSlave(slave') /\ slave'.pc = "final_cnf" /\ slave'.pending = ctx
  BY <1>4, SlavePcPending DEF Shapes
<1>6. IsLine(t)
  BY <1>3, <1>4, TakenThins DEF Shapes, Ends, LineThinned
<1>7. rec.tag = "ss_data_req" /\ DOMAIN rec.send = {"request"}
  BY <1>2 DEF Apdu
<1>8. ToMasterTrue(rec)'
  BY <1>7 DEF ToMasterTrue, Data, Certificate
<1>9. 1 \in DOMAIN line["slave"] /\ line["slave"][1] = Record("slave")
  BY <1>4, QueueFacts DEF Shapes, IsLine, Ends, Record
<1>10. send.KEM_C.to = KemKeys(send.KEM_C.to[2]).kem /\ send.KEM_BC = TwinOf(send.KEM_C)
  BY <1>1, <1>4, <1>9 DEF IInv, LineOk, RecordsTrue, ToSlaveTrue
<1>11. SlaveOk'
  BY <1>1, <1>5, <1>10, SlaveDecapsulates DEF SlaveOk
<1>12. Shapes'
  BY <1>4, <1>5, <1>6, SentOnLine DEF Shapes, Ends
<1>13. Grows
  BY <1>4, <1>12, MasterLeft
<1>14. LineOk(line)'
  BY <1>3, <1>4, <1>7, <1>8, <1>13, SlaveSends DEF IInv, Data
<1> QED
  BY <1>4, <1>11, <1>12, <1>13, <1>14, GhostsStay, MasterStays DEF IInv

(* The AKH that is accepted is that of a master run that finished *)
LEMMA SlaveEstablishesKeeps ==
    ASSUME Shapes, IInv, SlaveEstablishes
    PROVE  Shapes' /\ IInv'
<1>1. PICK ctx : ctx = slave.pending
  OBVIOUS
<1>2. /\ slave.pc = "final_cnf" /\ line["slave"] # <<>> /\ Confirmation(Record("slave"))
      /\ Record("slave").send.AKH = ctx.auth_key
      /\ line' = Taken(line, "slave") /\ sessions' = sessions \cup {ctx}
      /\ slave' = SetSlaveCtx(slave, "serving", ctx)
      /\ UNCHANGED <<master, runs, issued>>
  BY <1>1 DEF SlaveEstablishes, FinalCnfOk, Gets, Has, Confirmation, Record, SetSlaveCtx
<1>3. IsSlave(slave') /\ slave'.pc = "serving" /\ slave'.ctx = ctx
  BY <1>2, SlavePcCtx DEF Shapes
<1>4. LineThinned(line', line) /\ IsLine(line')
  BY <1>2, TakenThins DEF Shapes, Ends, LineThinned
<1>5. Shapes'
  BY <1>2, <1>3, <1>4 DEF Shapes
<1>6. Grows /\ Asked' = Asked
  BY <1>2, <1>5, MasterLeft
<1>7. LineOk(line)'
  BY <1>2, <1>4, <1>6, QuietStep DEF IInv
<1>8. 1 \in DOMAIN line["slave"] /\ line["slave"][1] = Record("slave")
  BY <1>2, QueueFacts DEF Shapes, IsLine, Ends, Record
<1>9. PICK m \in issued : m.auth_key = ctx.auth_key
  BY <1>2, <1>8 DEF IInv, LineOk, RecordsTrue, ToSlaveTrue
<1>10. SameSession(m, ctx)
  <2>1. IsSecret(m.auth_key[3]) /\ Linked(m)
    BY DEF IInv, GhostsOk
  <2>2. /\ ctx.auth_key = compute_auth_key(ctx.server_id, ctx.client_id, ctx.auth_key[3])
        /\ IsSecret(ctx.auth_key[3]) => Linked(ctx)
    BY <1>1, <1>2 DEF IInv, SlaveOk
  <2> QED
    BY <1>9, <2>1, <2>2, AkhTellsAll
<1>11. GhostsOk'
  <2>1. \A s \in sessions' : \E n \in issued : SameSession(n, s)
    BY <1>2, <1>9, <1>10 DEF IInv, GhostsOk, SlaveAgrees
  <2> QED
    BY <1>2, <1>6, <2>1 DEF IInv, GhostsOk, SlaveAgrees, KeyOld
<1>12. SlaveOk'
  BY <1>2, <1>3 DEF SlaveOk, Serves
<1> QED
  BY <1>2, <1>5, <1>6, <1>7, <1>11, <1>12, MasterStays DEF IInv

(* The answer is under the key of the request, that of an established       *)
(* session                                                                 *)
LEMMA SlaveServesKeeps ==
    ASSUME Shapes, IInv, SlaveServes
    PROVE  Shapes' /\ IInv'
<1>1. PICK ctx, new : ctx = slave.ctx /\ new = AfterSend(AfterRecv(ctx))
  OBVIOUS
<1>2. PICK request : request = Record("slave")
  OBVIOUS
<1>3. PICK rec : rec = build_encrypted_data_send(slave.addr, ctx,
                                                 handle_modbus_pdu(request.send.pdu))
  OBVIOUS
<1>4. PICK t : t = Taken(line, "slave")
  OBVIOUS
<1>5. /\ slave.pc = "serving" /\ line["slave"] # <<>> /\ Data(request)
      /\ request.send.key = ctx.keys.ck /\ line' = Sent(t, "master", rec)
      /\ slave' = [slave EXCEPT !.ctx = new]
      /\ UNCHANGED <<master, runs, issued, sessions>>
  BY <1>1, <1>2, <1>3, <1>4 DEF SlaveServes, RequestOk, Gets, Replies, Decrypts, Data, Record
<1>6. IsSlave(slave') /\ slave'.pc = "serving" /\ slave'.ctx = new /\ new.keys = ctx.keys
  <2>1. /\ IsSlave(slave') /\ slave'.ctx = new
        /\ \A x \in SlaveFields \ {"ctx"} : slave'[x] = slave[x]
    <3>1. IsSlave(slave) /\ slave' = [slave EXCEPT !.ctx = new]
      BY <1>5 DEF Shapes
    <3> QED
      BY <3>1, SlaveCtx
  <2>2. PICK received : received = AfterRecv(ctx)
    OBVIOUS
  <2>3. new.keys = received.keys /\ received.keys = ctx.keys
    BY <1>1, <2>2, CountingKeeps
  <2> QED
    BY <1>5, <2>1, <2>3 DEF SlaveFields
<1>7. IsLine(t)
  BY <1>4, <1>5, TakenThins DEF Shapes, Ends, LineThinned
<1>8. /\ rec.tag = "ss_data_send" /\ rec.send.key = ctx.keys.ck
      /\ rec.send.pdu = handle_modbus_pdu(request.send.pdu)
  BY <1>3 DEF build_encrypted_data_send, Apdu
<1>9. 1 \in DOMAIN line["slave"] /\ line["slave"][1] = request
  BY <1>2, <1>5, QueueFacts DEF Shapes, IsLine, Ends, Record
<1>10. KeyOld(rec.send.key) /\ Serves(rec.send.key)
  BY <1>1, <1>5, <1>8, <1>9 DEF IInv, LineOk, RecordsTrue, ToSlaveTrue, SlaveOk
<1>11. master.pc = "answer" /\ rec.send.key = master.ctx.keys.ck
          => rec.send.pdu = handle_modbus_pdu(master.request)
  BY <1>5, <1>8, <1>9 DEF IInv, LineOk, AnswersThis
<1>12. Shapes'
  BY <1>5, <1>6, <1>7, SentOnLine DEF Shapes, Ends
<1>13. Grows
  BY <1>5, <1>12, MasterLeft
<1>14. ToMasterTrue(rec)'
  <2>1. KeyOld(rec.send.key)'
    BY <1>10, <1>13, KeyOldStays
  <2> QED
    BY <1>5, <1>8, <1>10, <2>1 DEF ToMasterTrue, Certificate, Serves
<1>15. LineOk(line)'
  BY <1>4, <1>5, <1>11, <1>13, <1>14, SlaveSends DEF IInv
<1>16. SlaveOk'
  BY <1>5, <1>6, <1>8, <1>10 DEF SlaveOk, Serves
<1> QED
  BY <1>5, <1>12, <1>13, <1>15, <1>16, GhostsStay, MasterStays DEF IInv

(* A slave that gives up goes back to its loop or dies *)
LEMMA SlaveEnds ==
    ASSUME Shapes, IInv, NEW v \in {"loop", "died"}, slave' = [slave EXCEPT !.pc = v],
           LineThinned(line', line), UNCHANGED <<master, runs, issued, sessions>>
    PROVE  Shapes' /\ IInv'
<1>1. IsSlave(slave') /\ slave'.pc = v
  BY SlavePc DEF Shapes
<1> QED
  BY <1>1, SlaveMovesOn DEF Shapes

LEMMA SlaveRejectsKeeps ==
    ASSUME Shapes, IInv, SlaveRejects
    PROVE  Shapes' /\ IInv'
<1>1. LineThinned(line', line)
  BY TakenThins DEF SlaveRejects, Shapes, Ends
<1>2. PICK v \in {"loop", "died"} : slave' = [slave EXCEPT !.pc = v]
  BY DEF SlaveRejects
<1> QED
  BY <1>1, <1>2, SlaveEnds DEF SlaveRejects

LEMMA SlaveGivesUpKeeps ==
    ASSUME Shapes, IInv, SlaveGivesUp
    PROVE  Shapes' /\ IInv'
<1>1. slave' = [slave EXCEPT !.pc = "loop"] /\ "loop" \in {"loop", "died"}
  BY DEF SlaveGivesUp
<1> QED
  BY <1>1, LineLeft, SlaveEnds DEF SlaveGivesUp

-----------------------------------------------------------------------------
(* The steps of the master *)

(* A step of the master that asks nothing and finishes nothing *)
LEMMA MasterMovesOn ==
    ASSUME Shapes, IInv, IsMaster(master'), master'.pc \in {"first_req", "akh_req", "failed"},
           master'.pc = "akh_req" => MasterOk', Asked' >= Asked,
           IsLine(line'), LineThinned(line', line) \/ RecordsTrue(line)',
           UNCHANGED <<slave, runs, issued, sessions>>
    PROVE  Shapes' /\ IInv'
<1>1. Shapes'
  BY DEF Shapes
<1>2. Grows
  BY <1>1 DEF Grows
<1>3. LineOk(line)'
  <2>1. CASE LineThinned(line', line)
    BY <1>2, <2>1, QuietStep DEF IInv
  <2>2. CASE RecordsTrue(line)'
    BY <2>2 DEF LineOk, AnswersThis
  <2> QED
    BY <2>1, <2>2
<1>4. MasterOk'
  BY DEF MasterOk
<1> QED
  BY <1>1, <1>2, <1>3, <1>4, GhostsStay, SlaveStays DEF IInv

LEMMA MasterStartsKeeps ==
    ASSUME Shapes, IInv, MasterStarts
    PROVE  Shapes' /\ IInv'
<1>1. PICK a \in Addresses, id \in ClientIds, request \in Requests,
           port \in OpenedPort(line, "master") :
        /\ master' = MasterBegins(a, id, request)
        /\ line' = port
  BY DEF MasterStarts, MasterBegins
<1>2. IsMaster(master') /\ master'.pc = "open_req"
  BY <1>1, NewMaster
<1>3. /\ runs' \in [Ends -> Nat] /\ runs'["master"] = runs["master"] + 1
      /\ runs["master"] \in Nat /\ master.pc \notin MasterWaits
      /\ UNCHANGED <<slave, issued, sessions>>
  BY DEF MasterStarts, Shapes, Ends
<1>4. LineThinned(line', line)
  BY <1>1, OpenedThins DEF Shapes, Ends
<1>5. Shapes'
  BY <1>2, <1>3, <1>4 DEF Shapes, LineThinned
<1>6. Grows
  BY <1>2, <1>3, <1>5 DEF Grows, Asked, MasterWaits
<1>7. LineOk(line)'
  BY <1>2, <1>4, <1>6, QuietStep DEF IInv
<1>8. MasterOk'
  BY <1>2 DEF MasterOk
<1> QED
  BY <1>3, <1>5, <1>6, <1>7, <1>8, GhostsStay, SlaveStays DEF IInv

LEMMA MasterOpensKeeps ==
    ASSUME Shapes, IInv, MasterOpens
    PROVE  Shapes' /\ IInv'
<1>1. PICK rec : rec = Apdu(master.addr, "ss_open_cnf", NoItems)
  OBVIOUS
<1>2. PICK t : t = Taken(line, "master")
  OBVIOUS
<1>3. /\ master.pc = "open_req" /\ line["master"] # <<>> /\ line' = Sent(t, "slave", rec)
      /\ UNCHANGED <<slave, runs, issued, sessions>>
  BY <1>1, <1>2 DEF MasterOpens, OpenReqOk, Gets, Replies
<1>4. IsMaster(master') /\ master'.pc = "first_req"
  BY MasterPc DEF MasterOpens, Shapes
<1>5. LineThinned(t, line) /\ IsLine(t)
  BY <1>2, <1>3, TakenThins DEF Shapes, Ends, LineThinned
<1>6. RecordsTrue(t)
  BY <1>5, ThinKeeps DEF IInv, LineOk
<1>7. rec.tag = "ss_open_cnf"
  BY <1>1 DEF Apdu
<1>8. ToSlaveTrue(rec)'
  BY <1>7 DEF ToSlaveTrue, Ciphertexts, Confirmation, Data
<1>9. Asked' = Asked
  BY <1>3, <1>4 DEF Asked
<1>10. Shapes'
  BY <1>3, <1>4, <1>5, SentOnLine DEF Shapes, Ends
<1>11. Grows
  BY <1>3, <1>9, <1>10, AskedIsInt DEF Grows
<1>12. IsLine(line') /\ RecordsTrue(line)'
  <2>1. PICK l : l = Sent(t, "slave", rec)
    OBVIOUS
  <2>2. IsLine(l) /\ RecordsTrue(l)'
    BY <1>5, <1>6, <1>8, <1>11, <2>1, MasterSends
  <2> QED
    BY <1>3, <2>1, <2>2 DEF RecordsTrue
<1> QED
  BY <1>3, <1>4, <1>9, <1>12, AskedIsInt, MasterMovesOn

(* The two ciphertexts are for the pairs of one attempt, as the certificate *)
(* shows them                                                              *)
LEMMA MasterEncapsulatesKeeps ==
    ASSUME Shapes, IInv, MasterEncapsulates
    PROVE  Shapes' /\ IInv'
<1>1. PICK cert : cert = Record("master").send.SERVER_CERT
  OBVIOUS
<1>2. PICK kem_c, kem_bc : /\ kem_c = encaps(cert.keys.kem, runs["master"])
                           /\ kem_bc = encaps(cert.keys.broadcast, runs["master"])
  OBVIOUS
<1>3. PICK ctx : ctx = PQSessionContext("master", cert.id, master.id,
                                        [secret |-> kem_c], [secret |-> kem_bc])
  OBVIOUS
<1>4. PICK rec : rec = Apdu(master.addr, "ss_data_cnf",
                            [KEM_C |-> kem_c, KEM_BC |-> kem_bc,
                             CLIENT_CERT |-> [role |-> "client", id |-> master.id]])
  OBVIOUS
<1>5. PICK t : t = Taken(line, "master")
  OBVIOUS
<1>6. /\ master.pc = "first_req" /\ line["master"] # <<>> /\ Certificate(Record("master"))
      /\ line' = Sent(t, "slave", rec) /\ master' = SetMasterPending(master, "akh_req", ctx)
      /\ UNCHANGED <<slave, runs, issued, sessions>>
  BY <1>1, <1>2, <1>3, <1>4, <1>5
  DEF MasterEncapsulates, FirstReqOk, Gets, Has, Replies, Certificate, Record, SetMasterPending
<1>7. IsMaster(master') /\ master'.pc = "akh_req" /\ master'.pending = ctx
  BY <1>6, MasterPcPending DEF Shapes
<1>8. LineThinned(t, line) /\ IsLine(t)
  BY <1>5, <1>6, TakenThins DEF Shapes, Ends, LineThinned
<1>9. RecordsTrue(t)
  BY <1>8, ThinKeeps DEF IInv, LineOk
<1>10. 1 \in DOMAIN line["master"] /\ line["master"][1] = Record("master")
  BY <1>6, QueueFacts DEF Shapes, IsLine, Ends, Record
<1>11. cert.keys = KemKeys(cert.keys.kem[2])
  BY <1>1, <1>6, <1>10 DEF IInv, LineOk, RecordsTrue, ToMasterTrue
<1>12. /\ kem_c.to = cert.keys.kem /\ kem_c.by = runs["master"]
       /\ kem_c.to = KemKeys(kem_c.to[2]).kem /\ kem_bc = TwinOf(kem_c)
  BY <1>2, <1>11 DEF encaps, TwinOf
<1>13. /\ rec.tag = "ss_data_cnf" /\ DOMAIN rec.send = {"KEM_C", "KEM_BC", "CLIENT_CERT"}
       /\ rec.send.KEM_C = kem_c /\ rec.send.KEM_BC = kem_bc
  BY <1>4 DEF Apdu
<1>14. ToSlaveTrue(rec)'
  BY <1>12, <1>13 DEF ToSlaveTrue, Confirmation, Data
<1>15. Asked' = Asked
  BY <1>6, <1>7 DEF Asked
<1>16. Shapes'
  BY <1>6, <1>7, <1>8, SentOnLine DEF Shapes, Ends
<1>17. Grows
  BY <1>6, <1>15, <1>16, AskedIsInt DEF Grows
<1>18. IsLine(line') /\ RecordsTrue(line)'
  <2>1. PICK l : l = Sent(t, "slave", rec)
    OBVIOUS
  <2>2. IsLine(l) /\ RecordsTrue(l)'
    BY <1>8, <1>9, <1>14, <1>17, <2>1, MasterSends
  <2> QED
    BY <1>6, <2>1, <2>2 DEF RecordsTrue
<1>19. MasterOk'
  <2>1. PICK kemsk : kemsk = [secret |-> kem_c]
    OBVIOUS
  <2>2. /\ ctx.auth_key = compute_auth_key(ctx.server_id, ctx.client_id, kemsk)
        /\ ctx.auth_key[3] = kemsk /\ ctx.keys.ck[1] = kemsk
        /\ ctx.keys = derive_pq_content_keys(kemsk, [secret |-> kem_bc], ctx.server_id,
                                             ctx.client_id)
    BY <1>3, <2>1, ContextFields
  <2>3. IsSecret(kemsk) /\ kemsk.secret = kem_c
    BY <2>1 DEF IsSecret
  <2>4. Linked(ctx) /\ IsSecret(ctx.auth_key[3]) /\ ctx.keys.ck[1].secret.by = runs["master"]
    BY <1>12, <2>2, <2>3 DEF Linked
  <2> QED
    BY <1>6, <1>7, <2>4 DEF MasterOk
<1> QED
  BY <1>6, <1>7, <1>15, <1>18, <1>19, AskedIsInt, MasterMovesOn

(* The key of this run is new: no record yet is encrypted under it *)
LEMMA MasterAsksKeeps ==
    ASSUME Shapes, IInv, MasterAsks
    PROVE  Shapes' /\ IInv'
<1>1. PICK ctx, new : ctx = master.pending /\ new = AfterSend(ctx)
  OBVIOUS
<1>2. PICK akh : akh = Apdu(master.addr, "ss_data_cnf", [AKH |-> ctx.auth_key])
  OBVIOUS
<1>3. PICK rec : rec = build_encrypted_data_send(master.addr, ctx, master.request)
  OBVIOUS
<1>4. PICK t, u : t = Taken(line, "master") /\ u = Sent(t, "slave", akh)
  OBVIOUS
<1>5. /\ master.pc = "akh_req" /\ line["master"] # <<>> /\ line' = Sent(u, "slave", rec)
      /\ master' = SetMasterCtx(master, "answer", new) /\ issued' = issued \cup {ctx}
      /\ UNCHANGED <<slave, runs, sessions>>
  BY <1>1, <1>2, <1>3, <1>4 DEF MasterAsks, AkhReqOk, Gets, SetMasterCtx
<1>6. /\ IsMaster(master') /\ master'.pc = "answer" /\ master'.ctx = new
      /\ master'.request = master.request
  BY <1>5, MasterPcCtx DEF Shapes, MasterFields
<1>7. LineThinned(t, line) /\ IsLine(t)
  BY <1>4, <1>5, TakenThins DEF Shapes, Ends, LineThinned
<1>8. RecordsTrue(t)
  BY <1>7, ThinKeeps DEF IInv, LineOk
<1>9. /\ IsSecret(ctx.auth_key[3]) /\ Linked(ctx)
      /\ ctx.keys.ck[1].secret.by = runs["master"]
  BY <1>1, <1>5 DEF IInv, MasterOk
<1>10. /\ new.keys = ctx.keys /\ new.auth_key = ctx.auth_key
       /\ new.server_id = ctx.server_id /\ new.client_id = ctx.client_id
  BY <1>1, CountingKeeps
<1>11. PICK ck : ck = ctx.keys.ck
  OBVIOUS
<1>12. master'.ctx.keys.ck = ck /\ ck[1].secret.by = runs["master"]
  BY <1>6, <1>9, <1>10, <1>11
<1>13. /\ akh.tag = "ss_data_cnf" /\ DOMAIN akh.send = {"AKH"} /\ akh.send.AKH = ctx.auth_key
  BY <1>2 DEF Apdu
<1>14. /\ rec.tag = "ss_data_send" /\ rec.send.key = ck /\ rec.send.pdu = master.request
  BY <1>3, <1>11 DEF build_encrypted_data_send, Apdu
<1>15. IsLine(u) /\ IsLine(line')
  BY <1>4, <1>5, <1>7, SentOnLine DEF Ends
<1>16. Shapes'
  BY <1>5, <1>6, <1>15 DEF Shapes
<1>17. /\ Asked = runs["master"] - 1 /\ Asked' = runs["master"] /\ runs["master"] \in Nat
  BY <1>5, <1>6, AskedIsInt DEF Asked
<1>18. Grows
  BY <1>5, <1>16, <1>17 DEF Grows
<1>19. ASSUME NEW key, KeyOld(key) PROVE key # ck
  BY <1>12, <1>17, <1>19 DEF KeyOld
<1>20. KeyOld(ck)'
  BY <1>12, <1>17 DEF KeyOld
<1>21. ToSlaveTrue(akh)' /\ ToSlaveTrue(rec)'
  BY <1>5, <1>13, <1>14, <1>20 DEF ToSlaveTrue, Ciphertexts, Confirmation, Data
<1>22. RecordsTrue(line)'
  <2>1. RecordsTrue(u)'
    BY <1>4, <1>7, <1>8, <1>18, <1>21, MasterSends
  <2>2. \A i \in DOMAIN line'["slave"] :
           (i \in DOMAIN u["slave"] /\ line'["slave"][i] = u["slave"][i])
               \/ line'["slave"][i] = rec
    BY <1>5, <1>15, SentOnLine DEF Ends
  <2>3. line'["master"] = u["master"]
    BY <1>5, <1>15, SentOnLine DEF Ends
  <2>4. ASSUME NEW i \in DOMAIN line'["slave"] PROVE ToSlaveTrue(line["slave"][i])'
    <3>1. CASE i \in DOMAIN u["slave"] /\ line'["slave"][i] = u["slave"][i]
      BY <2>1, <3>1 DEF RecordsTrue, ToSlaveTrue
    <3>2. CASE line'["slave"][i] = rec
      BY <1>21, <3>2 DEF ToSlaveTrue
    <3> QED
      BY <2>2, <3>1, <3>2
  <2>5. ASSUME NEW i \in DOMAIN line'["master"] PROVE ToMasterTrue(line["master"][i])'
    BY <2>1, <2>3 DEF RecordsTrue, ToMasterTrue
  <2> QED
    BY <2>4, <2>5 DEF RecordsTrue
<1>23. AnswersThis(line)'
  <2>1. PICK l : l = line'
    OBVIOUS
  <2>2. /\ \A i \in DOMAIN l["slave"] :
              \/ i \in DOMAIN t["slave"] /\ l["slave"][i] = t["slave"][i]
              \/ l["slave"][i] = akh \/ l["slave"][i] = rec
        /\ l["master"] = t["master"]
    BY <1>4, <1>5, <1>7, <1>15, <2>1, SentOnLine DEF Ends
  <2>3. /\ \A i \in DOMAIN t["slave"] : Data(t["slave"][i]) => t["slave"][i].send.key # ck
        /\ \A i \in DOMAIN t["master"] : Data(t["master"][i]) => t["master"][i].send.key # ck
    BY <1>8, <1>19 DEF RecordsTrue, ToSlaveTrue, ToMasterTrue
  <2>4. ~Data(akh)
    BY <1>13 DEF Data
  <2> QED
    BY <1>6, <1>12, <1>14, <2>1, <2>2, <2>3, <2>4 DEF AnswersThis
<1>24. GhostsOk'
  <2>1. ASSUME NEW m \in issued'
        PROVE  IsSecret(m.auth_key[3]) /\ Linked(m) /\ KeyOld(m.keys.ck)'
    <3>1. CASE m \in issued
      BY <1>18, <3>1, KeyOldStays DEF IInv, GhostsOk
    <3>2. CASE m = ctx
      BY <1>9, <1>11, <1>20, <3>2
    <3> QED
      BY <1>5, <3>1, <3>2
  <2> QED
    BY <1>5, <2>1 DEF IInv, GhostsOk, SlaveAgrees
<1>25. MasterOk'
  <2>1. \A m \in issued : m.keys.ck # ck
    BY <1>19 DEF IInv, GhostsOk
  <2>2. SameSession(new, ctx)
    BY <1>10 DEF SameSession
  <2> QED
    BY <1>5, <1>6, <1>12, <2>1, <2>2 DEF MasterOk
<1> QED
  BY <1>5, <1>16, <1>22, <1>23, <1>24, <1>25, SlaveStays DEF IInv, LineOk

(* An answer under the master's key is that of a slave whose session is the *)
(* one this run asked for                                                   *)
LEMMA MasterReadsKeeps ==
    ASSUME Shapes, IInv, MasterReads
    PROVE  Shapes' /\ IInv'
<1>1. PICK r, ctx, new : /\ r = Record("master") /\ ctx = master.ctx
                         /\ new = AfterRecv(ctx)
  OBVIOUS
<1>2. /\ master.pc = "answer" /\ line["master"] # <<>> /\ Data(r)
      /\ r.send.key = ctx.keys.ck /\ r.send.pdu[1] = "registers"
      /\ line' = Taken(line, "master")
      /\ master' = SetMasterResult(master, "done", r.send.pdu, new)
      /\ UNCHANGED <<slave, runs, issued, sessions>>
  BY <1>1 DEF MasterReads, AnswerOk, Gets, Decrypts, parse_register_response, Data, Record,
     SetMasterResult
<1>3. /\ IsMaster(master') /\ master'.pc = "done" /\ master'.result = r.send.pdu
      /\ master'.ctx = new /\ master'.request = master.request
  BY <1>2, MasterPcResultCtx DEF Shapes, MasterFields
<1>4. LineThinned(line', line) /\ IsLine(line')
  BY <1>2, TakenThins DEF Shapes, Ends, LineThinned
<1>5. 1 \in DOMAIN line["master"] /\ line["master"][1] = r
  BY <1>1, <1>2, QueueFacts DEF Shapes, IsLine, Ends, Record
<1>6. r.send.pdu = handle_modbus_pdu(master.request) /\ Serves(ctx.keys.ck)
  BY <1>1, <1>2, <1>5 DEF IInv, LineOk, AnswersThis, RecordsTrue, ToMasterTrue
<1>7. master.request \in Served /\ r.send.pdu = <<"registers", master.request>>
  BY <1>2, <1>6 DEF handle_modbus_pdu
<1>8. PICK s \in sessions : s.keys.ck = ctx.keys.ck
  BY <1>6 DEF Serves
<1>9. PICK m \in issued : SameSession(m, s)
  BY DEF IInv, GhostsOk, SlaveAgrees
<1>10. SameSession(ctx, m)
  BY <1>1, <1>2, <1>8, <1>9 DEF IInv, MasterOk, SameSession
<1>11. /\ new.keys = ctx.keys /\ new.auth_key = ctx.auth_key
       /\ new.server_id = ctx.server_id /\ new.client_id = ctx.client_id
  BY <1>1, CountingKeeps
<1>12. SameSession(new, s)
  BY <1>9, <1>10, <1>11 DEF SameSession
<1>13. Shapes'
  BY <1>2, <1>3, <1>4 DEF Shapes
<1>14. Asked' = Asked
  BY <1>2, <1>3 DEF Asked
<1>15. Grows
  BY <1>2, <1>13, <1>14, AskedIsInt DEF Grows
<1>16. LineOk(line)'
  BY <1>3, <1>4, <1>15, QuietStep DEF IInv
<1>17. \A n \in issued : n.keys.ck = new.keys.ck => SameSession(new, n)
  BY <1>1, <1>2, <1>11 DEF IInv, MasterOk, SameSession
<1>18. MasterOk'
  BY <1>2, <1>3, <1>7, <1>12, <1>17 DEF MasterOk
<1> QED
  BY <1>2, <1>13, <1>15, <1>16, <1>18, GhostsStay, SlaveStays DEF IInv

(* A master that ends leaves only records behind *)
LEMMA MasterEnds ==
    ASSUME Shapes, IInv, master' = [master EXCEPT !.pc = "failed"],
           LineThinned(line', line), UNCHANGED <<slave, runs, issued, sessions>>
    PROVE  Shapes' /\ IInv'
<1>1. IsMaster(master') /\ master'.pc = "failed"
  BY MasterPc DEF Shapes
<1>2. Asked' >= Asked
  BY <1>1, AskedIsInt DEF Asked
<1> QED
  BY <1>1, <1>2, MasterMovesOn DEF LineThinned

LEMMA MasterRejectsKeeps ==
    ASSUME Shapes, IInv, MasterRejects
    PROVE  Shapes' /\ IInv'
<1>1. LineThinned(line', line)
  BY TakenThins DEF MasterRejects, Shapes, Ends
<1> QED
  BY <1>1, MasterEnds DEF MasterRejects

LEMMA MasterGivesUpKeeps ==
    ASSUME Shapes, IInv, MasterGivesUp
    PROVE  Shapes' /\ IInv'
BY LineLeft, MasterEnds DEF MasterGivesUp

-----------------------------------------------------------------------------
(* Incidents, and what follows *)

LEMMA NoiseKeeps ==
    ASSUME Shapes, IInv, Noise
    PROVE  Shapes' /\ IInv'
<1>1. LineThinned(line', line) /\ UNCHANGED <<master, slave, runs, issued, sessions>>
  BY DisturbedThins DEF Noise, Shapes
<1>2. Shapes'
  BY <1>1 DEF Shapes, LineThinned
<1>3. Grows
  BY <1>1, <1>2, MasterLeft
<1>4. LineOk(line)'
  BY <1>1, <1>3, QuietStep DEF IInv
<1> QED
  BY <1>1, <1>2, <1>3, <1>4, GhostsStay, MasterStays, SlaveStays DEF IInv

LEMMA KilledKeeps ==
    ASSUME Shapes, IInv, Killed
    PROVE  Shapes' /\ IInv'
<1>1. LineThinned(line', line) /\ UNCHANGED <<runs, issued, sessions>>
  BY LineLeft DEF Killed
<1>2. CASE master.pc \in MasterWaits /\ master' = [master EXCEPT !.pc = "failed"] /\ UNCHANGED slave
  BY <1>1, <1>2, MasterEnds
<1>3. CASE SlaveAlive /\ slave' = [slave EXCEPT !.pc = "died"] /\ UNCHANGED master
  <2>1. "died" \in {"loop", "died"}
    OBVIOUS
  <2> QED
    BY <1>1, <1>3, <2>1, SlaveEnds
<1> QED
  BY <1>2, <1>3 DEF Killed

LEMMA InitOk == Init => Shapes /\ IInv
<1> SUFFICES ASSUME Init PROVE Shapes /\ IInv
  OBVIOUS
<1>1. Shapes
  BY QuietIsLine, OffShapes DEF Init, Shapes
<1>2. line["slave"] = <<>> /\ line["master"] = <<>> /\ DOMAIN <<>> = {}
  BY EmptySeq DEF Init, QuietLine, Ends
<1>3. master.pc = "off" /\ slave.pc = "off"
  BY DEF Init, MasterOff, SlaveOff
<1>4. LineOk(line)
  BY <1>2, <1>3 DEF LineOk, RecordsTrue, AnswersThis
<1> QED
  BY <1>1, <1>3, <1>4 DEF IInv, Init, GhostsOk, SlaveAgrees, MasterOk, SlaveOk

LEMMA StepOk == Shapes /\ IInv /\ [Next]_vars => Shapes' /\ IInv'
<1> SUFFICES ASSUME Shapes, IInv, [Next]_vars
             PROVE  Shapes' /\ IInv'
  OBVIOUS
<1>1. CASE UNCHANGED vars
  <2>1. Shapes'
    BY <1>1 DEF vars, Shapes
  <2>2. Grows
    BY <1>1, <2>1, MasterLeft DEF vars
  <2>3. LineOk(line)'
    BY <1>1, <2>2, LineLeft, QuietStep DEF IInv, vars
  <2> QED
    BY <1>1, <2>1, <2>2, <2>3, GhostsStay, MasterStays, SlaveStays DEF IInv, vars
<1> QED
  BY <1>1, MasterStartsKeeps, MasterOpensKeeps, MasterEncapsulatesKeeps, MasterAsksKeeps,
     MasterReadsKeeps, MasterRejectsKeeps, MasterGivesUpKeeps, SlaveStartsKeeps,
     SlaveOffersKeeps, SlaveShowsCertificateKeeps, SlaveAsksAkhKeeps, SlaveEstablishesKeeps,
     SlaveServesKeeps, SlaveRejectsKeeps, SlaveGivesUpKeeps, NoiseKeeps, KilledKeeps
  DEF Next

(* The invariant of the whole profile: every record on the line, however   *)
(* old, is one a program could truthfully send, and keys belong together   *)
(* (run_slave_handshake, run_master_handshake).                            *)
THEOREM PqInductive == Spec => [](Shapes /\ IInv)
<1> QED
  BY InitOk, StepOk, PTL DEF Spec

(* SlaveAgrees (run_slave_handshake): a slave that accepts AKH holds both   *)
(* keys and the identities of a master run that finished its handshake.    *)
THEOREM PqSlaveAgrees == Spec => []SlaveAgrees
<1>1. Shapes /\ IInv => SlaveAgrees
  BY DEF IInv, GhostsOk
<1> QED
  BY <1>1, PqInductive, PTL

(* ReadsWhatItAsked (run_master): the registers a master reports are those  *)
(* it asked for in this run, under keys a slave attempt verified.          *)
THEOREM PqReadsWhatItAsked == Spec => []ReadsWhatItAsked
<1>1. Shapes /\ IInv => ReadsWhatItAsked
  BY DEF IInv, MasterOk, ReadsWhatItAsked
<1> QED
  BY <1>1, PqInductive, PTL

-----------------------------------------------------------------------------
(* A run that meets no trouble.  What is under way is all for one program,  *)
(* and that program finds what it expects.                                  *)

Offering ==
    /\ master.pc = "open_req" /\ slave.pc = "open_cnf"
    /\ line = Only("master", Apdu(master.addr, "ss_open_req", NoItems))
Opening ==
    /\ master.pc = "first_req" /\ slave.pc = "open_cnf"
    /\ line = Only("slave", Apdu(master.addr, "ss_open_cnf", NoItems))
Certifying ==
    /\ master.pc = "first_req" /\ slave.pc = "first_cnf"
    /\ line = Only("master",
                   Apdu(master.addr, "ss_data_req",
                        [SERVER_CERT |-> [role |-> "server", id |-> slave.id,
                                          keys |-> KemKeys(attempts)]]))
Encapsulating ==
    /\ master.pc = "akh_req" /\ slave.pc = "first_cnf"
    /\ LET kem_c == encaps(KemKeys(attempts).kem, runs["master"])
           kem_bc == encaps(KemKeys(attempts).broadcast, runs["master"])
       IN  /\ master.pending = PQSessionContext("master", slave.id, master.id,
                                                [secret |-> kem_c], [secret |-> kem_bc])
           /\ line = Only("slave",
                          Apdu(master.addr, "ss_data_cnf",
                               [KEM_C |-> kem_c, KEM_BC |-> kem_bc,
                                CLIENT_CERT |-> [role |-> "client", id |-> master.id]]))
Requesting ==
    /\ master.pc = "akh_req" /\ slave.pc = "final_cnf"
    /\ Ready(master.pending) /\ Ready(slave.pending)
    /\ slave.pending.auth_key = master.pending.auth_key
    /\ slave.pending.keys.ck = master.pending.keys.ck
    /\ line = Only("master", Apdu(master.addr, "ss_data_req", [request |-> "AKH"]))
Request == Apdu(master.addr, "ss_data_send",
                [key |-> master.ctx.keys.ck, counter |-> 1, pdu |-> master.request])
Confirming ==
    /\ master.pc = "answer" /\ slave.pc = "final_cnf"
    /\ Ready(slave.pending) /\ master.ctx.recv_counter = 1
    /\ slave.pending.keys.ck = master.ctx.keys.ck
    /\ LET akh == Apdu(master.addr, "ss_data_cnf", [AKH |-> slave.pending.auth_key])
       IN  line = Sent(Only("slave", akh), "slave", Request)
Asking ==
    /\ master.pc = "answer" /\ slave.pc = "serving"
    /\ Ready(slave.ctx) /\ master.ctx.recv_counter = 1
    /\ slave.ctx.keys.ck = master.ctx.keys.ck
    /\ line = Only("slave", Request)
Answering ==
    /\ master.pc = "answer" /\ slave.pc = "serving" /\ master.ctx.recv_counter = 1
    /\ line = Only("master", Apdu(master.addr, "ss_data_send",
                                  [key |-> master.ctx.keys.ck, counter |-> 1,
                                   pdu |-> handle_modbus_pdu(master.request)]))

InOrder ==
    \/ Offering \/ Opening \/ Certifying \/ Encapsulating \/ Requesting \/ Confirming
    \/ Asking \/ Answering
CleanRun ==
    clean /\ master.request \in Served =>
        master.pc = "done" \/ (slave.addr = master.addr /\ InOrder)

(* What is under way tells where both programs are *)
LEMMA SlaveFinds ==
    ASSUME InOrder, line["slave"] # <<>>
    PROVE  Opening \/ Encapsulating \/ Confirming \/ Asking
BY OnlyOnLine DEF InOrder, Offering, Certifying, Requesting, Answering, Ends

LEMMA MasterFinds ==
    ASSUME InOrder, line["master"] # <<>>
    PROVE  Offering \/ Certifying \/ Requesting \/ Answering
BY OnlyOnLine, TwoOnLine DEF InOrder, Opening, Encapsulating, Confirming, Asking, Ends

LEMMA SomeUnderWay ==
    ASSUME InOrder
    PROVE  line["slave"] # <<>> \/ line["master"] # <<>>
BY OnlyOnLine, TwoOnLine
DEF InOrder, Offering, Opening, Certifying, Encapsulating, Requesting, Confirming, Asking,
    Answering, Ends

LEMMA MasterStartsClean ==
    ASSUME Shapes, MasterStarts
    PROVE  CleanRun'
<1>1. PICK a \in Addresses, id \in ClientIds, request \in Requests,
           port \in OpenedPort(line, "master") :
        /\ master' = MasterBegins(a, id, request) /\ line' = port /\ slave' = slave
        /\ clean' = (/\ slave.pc = "open_cnf" /\ slave.addr = a
                     /\ port = Only("master", Apdu(a, "ss_open_req", NoItems)))
  BY DEF MasterStarts, MasterBegins, Only
<1>2. master'.pc = "open_req" /\ master'.addr = a
  BY <1>1, NewMaster
<1>3. clean' => slave.pc = "open_cnf" /\ slave.addr = a
                /\ port = Only("master", Apdu(a, "ss_open_req", NoItems))
  BY <1>1
<1> QED
  BY <1>1, <1>2, <1>3 DEF CleanRun, InOrder, Offering

LEMMA MasterOpensClean ==
    ASSUME Shapes, CleanRun, MasterOpens
    PROVE  CleanRun'
<1>1. /\ master.pc = "open_req" /\ line["master"] # <<>>
      /\ line' = Sent(Taken(line, "master"), "slave", Apdu(master.addr, "ss_open_cnf", NoItems))
      /\ UNCHANGED <<slave, clean>>
  BY DEF MasterOpens, OpenReqOk, Gets, Replies
<1>2. master'.pc = "first_req" /\ master'.addr = master.addr /\ master'.request = master.request
  BY MasterPc DEF MasterOpens, Shapes, MasterFields
<1>3. ASSUME InOrder PROVE Opening'
  <2>1. Offering
    BY <1>1, <1>3, MasterFinds DEF Certifying, Requesting, Answering
  <2>2. Taken(line, "master") = QuietLine
    BY <2>1, OnlyOnLine DEF Offering, Ends
  <2> QED
    BY <1>1, <1>2, <2>1, <2>2 DEF Opening, Offering, Only
<1> QED
  BY <1>1, <1>2, <1>3 DEF CleanRun, InOrder

LEMMA SlaveShowsCertificateClean ==
    ASSUME Shapes, CleanRun, SlaveShowsCertificate
    PROVE  CleanRun'
<1>1. /\ slave.pc = "open_cnf" /\ line["slave"] # <<>>
      /\ line' = Sent(Taken(line, "slave"), "master",
                      Apdu(slave.addr, "ss_data_req",
                           [SERVER_CERT |-> [role |-> "server", id |-> slave.id,
                                             keys |-> KemKeys(attempts)]]))
      /\ UNCHANGED <<master, clean, attempts>>
  BY DEF SlaveShowsCertificate, OpenCnfOk, Gets, Replies
<1>2. slave'.pc = "first_cnf" /\ slave'.addr = slave.addr /\ slave'.id = slave.id
  BY SlavePc DEF SlaveShowsCertificate, Shapes, SlaveFields
<1>3. ASSUME InOrder, slave.addr = master.addr PROVE Certifying'
  <2>1. Opening
    BY <1>1, <1>3, SlaveFinds DEF Encapsulating, Confirming, Asking
  <2>2. Taken(line, "slave") = QuietLine /\ master.pc = "first_req"
    BY <2>1, OnlyOnLine DEF Opening, Ends
  <2> QED
    BY <1>1, <1>2, <1>3, <2>2 DEF Certifying, Only
<1> QED
  BY <1>1, <1>2, <1>3 DEF CleanRun, InOrder

LEMMA MasterEncapsulatesClean ==
    ASSUME Shapes, CleanRun, MasterEncapsulates
    PROVE  CleanRun'
<1>1. PICK cert : cert = Head(line["master"]).send.SERVER_CERT
  OBVIOUS
<1>2. PICK kem_c, kem_bc : /\ kem_c = encaps(cert.keys.kem, runs["master"])
                           /\ kem_bc = encaps(cert.keys.broadcast, runs["master"])
  OBVIOUS
<1>3. PICK ctx : ctx = PQSessionContext("master", cert.id, master.id,
                                        [secret |-> kem_c], [secret |-> kem_bc])
  OBVIOUS
<1>4. /\ master.pc = "first_req" /\ line["master"] # <<>>
      /\ line' = Sent(Taken(line, "master"), "slave",
                      Apdu(master.addr, "ss_data_cnf",
                           [KEM_C |-> kem_c, KEM_BC |-> kem_bc,
                            CLIENT_CERT |-> [role |-> "client", id |-> master.id]]))
      /\ master' = SetMasterPending(master, "akh_req", ctx)
      /\ UNCHANGED <<slave, runs, attempts, clean>>
  BY <1>1, <1>2, <1>3
  DEF MasterEncapsulates, FirstReqOk, Gets, Replies, Record, SetMasterPending
<1>5. /\ master'.pc = "akh_req" /\ master'.pending = ctx /\ master'.addr = master.addr
      /\ master'.id = master.id /\ master'.request = master.request
  BY <1>4, MasterPcPending DEF Shapes, MasterFields
<1>6. ASSUME InOrder PROVE Encapsulating'
  <2>1. Certifying
    BY <1>4, <1>6, MasterFinds DEF Offering, Requesting, Answering
  <2>2. /\ Taken(line, "master") = QuietLine /\ slave.pc = "first_cnf"
        /\ cert = [role |-> "server", id |-> slave.id, keys |-> KemKeys(attempts)]
    BY <1>1, <2>1, OnlyOnLine DEF Certifying, Ends, Apdu
  <2>3. cert.id = slave.id /\ cert.keys = KemKeys(attempts)
    BY <2>2
  <2>4. line' = Only("slave",
                     Apdu(master.addr, "ss_data_cnf",
                          [KEM_C |-> kem_c, KEM_BC |-> kem_bc,
                           CLIENT_CERT |-> [role |-> "client", id |-> master.id]]))
    BY <1>4, <2>2 DEF Only
  <2>5. /\ kem_c = encaps(KemKeys(attempts).kem, runs["master"])
        /\ kem_bc = encaps(KemKeys(attempts).broadcast, runs["master"])
        /\ ctx = PQSessionContext("master", slave.id, master.id,
                                  [secret |-> kem_c], [secret |-> kem_bc])
    BY <1>2, <1>3, <2>3
  <2> QED
    BY <1>4, <1>5, <2>2, <2>4, <2>5 DEF Encapsulating
<1> QED
  BY <1>4, <1>5, <1>6 DEF CleanRun, InOrder

LEMMA SlaveAsksAkhClean ==
    ASSUME Shapes, CleanRun, SlaveAsksAkh
    PROVE  CleanRun'
<1>1. PICK send, ctx : send = Head(line["slave"]).send /\ ctx = SlaveContext(send)
  OBVIOUS
<1>2. /\ slave.pc = "first_cnf" /\ line["slave"] # <<>>
      /\ line' = Sent(Taken(line, "slave"), "master",
                      Apdu(slave.addr, "ss_data_req", [request |-> "AKH"]))
      /\ slave' = SetSlavePending(slave, "final_cnf", ctx)
      /\ UNCHANGED <<master, clean>>
  BY <1>1 DEF SlaveAsksAkh, FirstCnfOk, Gets, Replies, Record, SetSlavePending
<1>3. slave'.pc = "final_cnf" /\ slave'.pending = ctx /\ slave'.addr = slave.addr
  BY <1>2, SlavePcPending DEF Shapes, SlaveFields
<1>4. ASSUME InOrder, slave.addr = master.addr PROVE Requesting'
  <2>1. Encapsulating
    BY <1>2, <1>4, SlaveFinds DEF Opening, Confirming, Asking
  <2>2. PICK kem_c, kem_bc : /\ kem_c = encaps(KemKeys(attempts).kem, runs["master"])
                             /\ kem_bc = encaps(KemKeys(attempts).broadcast, runs["master"])
    OBVIOUS
  <2>3. /\ Taken(line, "slave") = QuietLine /\ master.pc = "akh_req"
        /\ send = [KEM_C |-> kem_c, KEM_BC |-> kem_bc,
                   CLIENT_CERT |-> [role |-> "client", id |-> master.id]]
        /\ master.pending = PQSessionContext("master", slave.id, master.id,
                                             [secret |-> kem_c], [secret |-> kem_bc])
    BY <1>1, <2>1, <2>2, OnlyOnLine DEF Encapsulating, Ends, Apdu
  <2>4. send.KEM_C = kem_c /\ send.KEM_BC = kem_bc /\ send.CLIENT_CERT.id = master.id
    BY <2>3
  <2>5. /\ decaps(KemKeys(attempts).kem, send.KEM_C) = [secret |-> kem_c]
        /\ decaps(KemKeys(attempts).broadcast, send.KEM_BC) = [secret |-> kem_bc]
    BY <2>2, <2>4 DEF decaps, encaps
  <2>6. ctx = PQSessionContext("slave", slave.id, master.id,
                               [secret |-> kem_c], [secret |-> kem_bc])
    BY <1>1, <2>4, <2>5 DEF SlaveContext
  <2>7. /\ Ready(ctx) /\ Ready(master.pending)
        /\ ctx.auth_key = master.pending.auth_key /\ ctx.keys.ck = master.pending.keys.ck
    BY <2>3, <2>6, ContextFields
  <2> QED
    BY <1>2, <1>3, <1>4, <2>3, <2>7 DEF Requesting, Only
<1> QED
  BY <1>2, <1>3, <1>4 DEF CleanRun, InOrder

LEMMA MasterAsksClean ==
    ASSUME Shapes, CleanRun, MasterAsks
    PROVE  CleanRun'
<1>1. PICK ctx, new : ctx = master.pending /\ new = AfterSend(ctx)
  OBVIOUS
<1>2. /\ master.pc = "akh_req" /\ line["master"] # <<>>
      /\ line' = Sent(Sent(Taken(line, "master"), "slave",
                           Apdu(master.addr, "ss_data_cnf", [AKH |-> ctx.auth_key])),
                      "slave", build_encrypted_data_send(master.addr, ctx, master.request))
      /\ master' = SetMasterCtx(master, "answer", new)
      /\ UNCHANGED <<slave, clean>>
  BY <1>1 DEF MasterAsks, AkhReqOk, Gets, SetMasterCtx
<1>3. /\ master'.pc = "answer" /\ master'.ctx = new /\ master'.addr = master.addr
      /\ master'.request = master.request
  BY <1>2, MasterPcCtx DEF Shapes, MasterFields
<1>4. new.keys = ctx.keys /\ new.recv_counter = ctx.recv_counter
  BY <1>1, CountingKeeps
<1>5. ASSUME InOrder PROVE Confirming'
  <2>1. Requesting
    BY <1>2, <1>5, MasterFinds DEF Offering, Certifying, Answering
  <2>2. /\ Taken(line, "master") = QuietLine /\ slave.pc = "final_cnf"
        /\ Ready(ctx) /\ Ready(slave.pending)
        /\ slave.pending.auth_key = ctx.auth_key /\ slave.pending.keys.ck = ctx.keys.ck
    BY <1>1, <2>1, OnlyOnLine DEF Requesting, Ends
  <2>3. build_encrypted_data_send(master.addr, ctx, master.request) = Request'
    BY <1>3, <1>4, <2>2 DEF build_encrypted_data_send, Request, Ready
  <2>4. line' = Sent(Only("slave", Apdu(master.addr, "ss_data_cnf",
                                        [AKH |-> slave.pending.auth_key])),
                     "slave", Request')
    BY <1>2, <2>2, <2>3 DEF Only
  <2>5. slave.pending.keys.ck = master'.ctx.keys.ck /\ master'.ctx.recv_counter = 1
    BY <1>3, <1>4, <2>2 DEF Ready
  <2> QED
    BY <1>2, <1>3, <2>2, <2>4, <2>5 DEF Confirming
<1> QED
  BY <1>2, <1>3, <1>5 DEF CleanRun, InOrder

LEMMA SlaveEstablishesClean ==
    ASSUME Shapes, CleanRun, SlaveEstablishes
    PROVE  CleanRun'
<1>1. PICK ctx : ctx = slave.pending
  OBVIOUS
<1>2. /\ slave.pc = "final_cnf" /\ line["slave"] # <<>> /\ line' = Taken(line, "slave")
      /\ slave' = SetSlaveCtx(slave, "serving", ctx)
      /\ UNCHANGED <<master, clean>>
  BY <1>1 DEF SlaveEstablishes, FinalCnfOk, Gets, SetSlaveCtx
<1>3. slave'.pc = "serving" /\ slave'.ctx = ctx /\ slave'.addr = slave.addr
  BY <1>2, SlavePcCtx DEF Shapes, SlaveFields
<1>4. ASSUME InOrder PROVE Asking'
  <2>1. Confirming
    BY <1>2, <1>4, SlaveFinds DEF Opening, Encapsulating, Asking
  <2>2. Taken(line, "slave") = Only("slave", Request)
    BY <2>1, TwoOnLine DEF Confirming, Ends
  <2>3. Request' = Request
    BY <1>2 DEF Request
  <2> QED
    BY <1>1, <1>2, <1>3, <2>1, <2>2, <2>3 DEF Asking, Confirming
<1> QED
  BY <1>2, <1>3, <1>4 DEF CleanRun, InOrder

LEMMA SlaveServesClean ==
    ASSUME Shapes, CleanRun, SlaveServes
    PROVE  CleanRun'
<1>1. PICK pdu, ctx : pdu = Head(line["slave"]).send.pdu /\ ctx = AfterSend(AfterRecv(slave.ctx))
  OBVIOUS
<1>2. /\ slave.pc = "serving" /\ line["slave"] # <<>>
      /\ line' = Sent(Taken(line, "slave"), "master",
                      build_encrypted_data_send(slave.addr, slave.ctx, handle_modbus_pdu(pdu)))
      /\ slave' = [slave EXCEPT !.ctx = ctx]
      /\ UNCHANGED <<master, clean>>
  BY <1>1 DEF SlaveServes, RequestOk, Gets, Replies, Record
<1>3. slave'.pc = slave.pc /\ slave'.addr = slave.addr
  BY <1>2, SlaveCtx DEF Shapes, SlaveFields
<1>4. ASSUME InOrder, slave.addr = master.addr PROVE Answering'
  <2>1. Asking
    BY <1>2, <1>4, SlaveFinds DEF Opening, Encapsulating, Confirming
  <2>2. Taken(line, "slave") = QuietLine /\ pdu = master.request
    BY <1>1, <2>1, OnlyOnLine DEF Asking, Ends, Request, Apdu
  <2>3. /\ slave.ctx.keys.ck = master.ctx.keys.ck /\ slave.ctx.send_counter = 1
        /\ master.ctx.recv_counter = 1 /\ master.pc = "answer"
    BY <2>1 DEF Asking, Ready
  <2>4. line' = Only("master", Apdu(master.addr, "ss_data_send",
                                    [key |-> master.ctx.keys.ck, counter |-> 1,
                                     pdu |-> handle_modbus_pdu(master.request)]))
    BY <1>2, <1>4, <2>2, <2>3 DEF Only, build_encrypted_data_send
  <2> QED
    BY <1>2, <1>3, <2>3, <2>4 DEF Answering
<1> QED
  BY <1>2, <1>3, <1>4 DEF CleanRun, InOrder

(* What a program waits for in a run without trouble it does not reject *)
LEMMA MasterAccepts ==
    ASSUME InOrder, line["master"] # <<>>, master.request \in Served
    PROVE  OpenReqOk \/ FirstReqOk \/ AkhReqOk \/ AnswerOk
<1>1. CASE Offering
  <2>1. Head(line["master"]) = Apdu(master.addr, "ss_open_req", NoItems)
    BY <1>1, OnlyOnLine DEF Offering, Ends
  <2> QED
    BY <1>1, <2>1 DEF Offering, OpenReqOk, Gets, Apdu
<1>2. CASE Certifying
  <2>1. PICK cert : cert = [role |-> "server", id |-> slave.id, keys |-> KemKeys(attempts)]
    OBVIOUS
  <2>2. Head(line["master"]) = Apdu(master.addr, "ss_data_req", [SERVER_CERT |-> cert])
    BY <1>2, <2>1, OnlyOnLine DEF Certifying, Ends
  <2>3. cert.role = "server"
    BY <2>1
  <2> QED
    BY <1>2, <2>2, <2>3 DEF Certifying, FirstReqOk, Gets, Has, Apdu, Record
<1>3. CASE Requesting
  <2>1. Head(line["master"]) = Apdu(master.addr, "ss_data_req", [request |-> "AKH"])
    BY <1>3, OnlyOnLine DEF Requesting, Ends
  <2> QED
    BY <1>3, <2>1 DEF Requesting, AkhReqOk, Gets, Has, Apdu, Record
<1>4. CASE Answering
  <2>1. Head(line["master"]) = Apdu(master.addr, "ss_data_send",
                                    [key |-> master.ctx.keys.ck, counter |-> 1,
                                     pdu |-> handle_modbus_pdu(master.request)])
    BY <1>4, OnlyOnLine DEF Answering, Ends
  <2>2. handle_modbus_pdu(master.request)[1] = "registers"
    BY DEF handle_modbus_pdu
  <2> QED
    BY <1>4, <2>1, <2>2
    DEF Answering, AnswerOk, Gets, Decrypts, parse_register_response, Apdu, Record
<1> QED
  BY <1>1, <1>2, <1>3, <1>4, MasterFinds

LEMMA SlaveAccepts ==
    ASSUME InOrder, line["slave"] # <<>>, slave.addr = master.addr
    PROVE  OpenCnfOk \/ FirstCnfOk \/ FinalCnfOk \/ RequestOk
<1>1. CASE Opening
  <2>1. Head(line["slave"]) = Apdu(master.addr, "ss_open_cnf", NoItems)
    BY <1>1, OnlyOnLine DEF Opening, Ends
  <2> QED
    BY <1>1, <2>1 DEF Opening, OpenCnfOk, Gets, Apdu
<1>2. CASE Encapsulating
  <2>1. PICK c, b, cert : /\ c = encaps(KemKeys(attempts).kem, runs["master"])
                          /\ b = encaps(KemKeys(attempts).broadcast, runs["master"])
                          /\ cert = [role |-> "client", id |-> master.id]
    OBVIOUS
  <2>2. Head(line["slave"]) = Apdu(master.addr, "ss_data_cnf",
                                   [KEM_C |-> c, KEM_BC |-> b, CLIENT_CERT |-> cert])
    BY <1>2, <2>1, OnlyOnLine DEF Encapsulating, Ends
  <2>3. cert.role = "client" /\ slave.pc = "first_cnf"
    BY <1>2, <2>1 DEF Encapsulating
  <2> QED
    BY <2>2, <2>3 DEF FirstCnfOk, Gets, Has, Apdu, Record
<1>3. CASE Confirming
  <2>1. Head(line["slave"]) = Apdu(master.addr, "ss_data_cnf", [AKH |-> slave.pending.auth_key])
    BY <1>3, TwoOnLine DEF Confirming, Ends
  <2> QED
    BY <1>3, <2>1 DEF Confirming, FinalCnfOk, Gets, Has, Apdu, Record
<1>4. CASE Asking
  <2>1. Head(line["slave"]) = Request
    BY <1>4, OnlyOnLine DEF Asking, Ends
  <2> QED
    BY <1>4, <2>1 DEF Asking, Request, RequestOk, Gets, Decrypts, Apdu, Record, Ready
<1> QED
  BY <1>1, <1>2, <1>3, <1>4, SlaveFinds

LEMMA CleanStep == Shapes /\ CleanRun /\ [Next]_vars => CleanRun'
<1> SUFFICES ASSUME Shapes, CleanRun, [Next]_vars
             PROVE  CleanRun'
  OBVIOUS
<1>1. CASE UNCHANGED vars
  BY <1>1 DEF vars, CleanRun, InOrder, Offering, Opening, Certifying, Encapsulating, Requesting,
     Confirming, Asking, Answering, Request
<1>2. CASE MasterReads
  <2>1. PICK w, x : master' = SetMasterResult(master, "done", w, x)
    BY <1>2 DEF MasterReads, SetMasterResult
  <2>2. master'.pc = "done"
    BY <2>1, MasterPcResultCtx DEF Shapes
  <2> QED
    BY <2>2 DEF CleanRun
<1>3. CASE MasterRejects
  <2>1. /\ master.pc \in MasterWaits /\ line["master"] # <<>>
        /\ ~(OpenReqOk \/ FirstReqOk \/ AkhReqOk \/ AnswerOk) /\ clean' = clean
        /\ master'.request = master.request
    BY <1>3, MasterPc DEF MasterRejects, Shapes, MasterFields
  <2>2. ~(clean /\ master.request \in Served)
    BY <2>1, MasterAccepts DEF CleanRun, MasterWaits
  <2> QED
    BY <2>1, <2>2 DEF CleanRun
<1>4. CASE MasterGivesUp
  <2>1. /\ master.pc \in MasterWaits /\ line["master"] = <<>>
        /\ clean' = (clean /\ line["slave"] = <<>>) /\ master'.request = master.request
    BY <1>4, MasterPc DEF MasterGivesUp, Shapes, MasterFields
  <2>2. clean' => clean /\ line["slave"] = <<>>
    BY <2>1
  <2> QED
    BY <2>1, <2>2, SomeUnderWay DEF CleanRun, MasterWaits
<1>5. CASE SlaveRejects
  <2>1. /\ line["slave"] # <<>> /\ clean' = clean /\ master' = master
        /\ ~(OpenCnfOk \/ FirstCnfOk \/ FinalCnfOk \/ RequestOk)
    BY <1>5 DEF SlaveRejects
  <2> QED
    BY <2>1, SlaveAccepts DEF CleanRun
<1>6. CASE SlaveGivesUp
  <2>1. /\ line["slave"] = <<>> /\ clean' = (clean /\ line["master"] = <<>>) /\ master' = master
    BY <1>6 DEF SlaveGivesUp
  <2>2. clean' => clean /\ line["master"] = <<>>
    BY <2>1
  <2> QED
    BY <2>1, <2>2, SomeUnderWay DEF CleanRun
<1>7. CASE SlaveStarts \/ SlaveOffers \/ Noise \/ Killed
  BY <1>7 DEF SlaveStarts, SlaveOffers, Noise, Killed, CleanRun
<1> QED
  BY <1>1, <1>2, <1>3, <1>4, <1>5, <1>6, <1>7, MasterStartsClean, MasterOpensClean,
     MasterEncapsulatesClean, MasterAsksClean, SlaveShowsCertificateClean, SlaveAsksAkhClean,
     SlaveEstablishesClean, SlaveServesClean
  DEF Next

(* CleanRunSucceeds (run_master, serve): a master that finds one offer of a *)
(* slave that still waits, and no trouble, reads the registers.            *)
THEOREM PqCleanRunSucceeds == Spec => []CleanRunSucceeds
<1>1. Init => CleanRun
  BY DEF Init, CleanRun
<1>2. Shapes /\ CleanRun /\ [Next]_vars => CleanRun'
  BY CleanStep
<1>3. CleanRun => CleanRunSucceeds
  BY DEF CleanRun, CleanRunSucceeds, InOrder, Offering, Opening, Certifying, Encapsulating,
     Requesting, Confirming, Asking, Answering
<1> QED
  BY <1>1, <1>2, <1>3, PqInductive, PTL DEF Spec

-----------------------------------------------------------------------------
(* PqSession implements SecureChannel: every step of the two programs is a  *)
(* step of SecureChannel, under the mapping of Promise, or changes nothing  *)
(* of what it says.                                                         *)

ContextAttributes == {"role", "server_id", "client_id", "keys", "auth_key",
                      "send_counter", "recv_counter"}
IsContext(ctx) == ctx = [x \in ContextAttributes |-> ctx[x]]

(* The run that encapsulated a content key, the attempt it was made for *)
RunOf(ctx) == ctx.keys.ck[1].secret.by
AttemptOf(ctx) == ctx.keys.ck[1].secret.to[2]
MadeForAttempt(ctx) == ctx.keys.ck[1].secret.to = KemKeys(AttemptOf(ctx)).kem

(* A run encapsulates once and an attempt establishes once, so no two       *)
(* sessions are with the same run                                           *)
LastRunKnown ==
    /\ runs["master"] = 0 => master.pc = "off"
    /\ runs["master"] # 0 => master.pc \in MasterWaits \cup {"done", "failed"}
    /\ master.pc \in {"akh_req", "answer", "done"} =>
          IsSecret(master.pending.keys.ck[1]) /\ RunOf(master.pending) = runs["master"]
    /\ master.pc \in {"answer", "done"} =>
          master.pending \in issued /\ master.ctx.keys = master.pending.keys
IssuedOnce ==
    \A m \in issued : /\ RunOf(m) > 0
                      /\ \A v \in issued : RunOf(v) = RunOf(m) => v = m
PendingOnce ==
    slave.pc = "final_cnf" =>
        /\ IsContext(slave.pending) /\ slave.pending.recv_counter = 1
        /\ slave.pending.keys.ck[1] = slave.pending.auth_key[3]
        /\ IsSecret(slave.pending.keys.ck[1]) =>
              MadeForAttempt(slave.pending) /\ AttemptOf(slave.pending) = attempts
EstablishedOnce ==
    \A s \in sessions :
        /\ MadeForAttempt(s) /\ AttemptOf(s) \in 1..attempts
        /\ AttemptOf(s) = attempts => slave.pc \notin {"open_cnf", "first_cnf", "final_cnf"}
ServesSession ==
    slave.pc = "serving" =>
        /\ IsContext(slave.ctx) /\ slave.ctx.recv_counter \in Nat \ {0}
        /\ \E s \in sessions : s.keys = slave.ctx.keys
MasterSide == runs["master"] \in 0..MaxMasterRuns /\ LastRunKnown /\ IssuedOnce
SlaveSide ==
    /\ attempts \in Nat /\ (slave.pc \in SlaveWaits => attempts > 0)
    /\ PendingOnce /\ EstablishedOnce /\ ServesSession
Once == MasterSide /\ SlaveSide

-----------------------------------------------------------------------------
(* What the steps do to what the phases depend on *)

SlaveRests == UNCHANGED <<slave, attempts, sessions>>
MasterRests == UNCHANGED <<master, issued>> /\ runs'["master"] = runs["master"]

LEMMA MasterStartsMoves ==
    ASSUME Shapes, MasterStarts
    PROVE  /\ SlaveRests /\ issued' = issued /\ master'.pc = "open_req"
           /\ runs["master"] < MaxMasterRuns /\ runs'["master"] = runs["master"] + 1
<1>1. PICK a \in Addresses, id \in ClientIds, request \in Requests :
        master' = MasterBegins(a, id, request)
  BY DEF MasterStarts, MasterBegins
<1>2. master'.pc = "open_req"
  BY <1>1, NewMaster
<1> QED
  BY <1>2 DEF MasterStarts, Shapes, Ends, SlaveRests

LEMMA MasterOpensMoves ==
    ASSUME Shapes, MasterOpens
    PROVE  /\ SlaveRests /\ issued' = issued /\ runs' = runs
           /\ master.pc = "open_req" /\ master'.pc = "first_req"
BY MasterPc DEF MasterOpens, OpenReqOk, Shapes, SlaveRests

LEMMA MasterEncapsulatesMoves ==
    ASSUME Shapes, MasterEncapsulates
    PROVE  /\ SlaveRests /\ issued' = issued /\ runs' = runs
           /\ master.pc = "first_req" /\ master'.pc = "akh_req"
           /\ IsSecret(master'.pending.keys.ck[1]) /\ RunOf(master'.pending) = runs["master"]
           /\ master'.pending.keys.ck # NoKey
<1>1. PICK cert : cert = Record("master").send.SERVER_CERT
  OBVIOUS
<1>2. PICK c, b : /\ c = encaps(cert.keys.kem, runs["master"])
                  /\ b = encaps(cert.keys.broadcast, runs["master"])
  OBVIOUS
<1>3. PICK ctx : ctx = PQSessionContext("master", cert.id, master.id,
                                        [secret |-> c], [secret |-> b])
  OBVIOUS
<1>4. master' = SetMasterPending(master, "akh_req", ctx)
  BY <1>1, <1>2, <1>3 DEF MasterEncapsulates, SetMasterPending
<1>5. master'.pc = "akh_req" /\ master'.pending = ctx
  BY <1>4, MasterPcPending DEF Shapes
<1>6. ctx.keys.ck = <<[secret |-> c], cert.id>>
  BY <1>3, ContextFields
<1>7. IsSecret(ctx.keys.ck[1]) /\ ctx.keys.ck[1].secret = c /\ ctx.keys.ck # NoKey
  BY <1>6 DEF IsSecret, NoKey
<1>8. RunOf(ctx) = runs["master"]
  BY <1>2, <1>7 DEF RunOf, encaps
<1> QED
  BY <1>5, <1>7, <1>8 DEF MasterEncapsulates, FirstReqOk, SlaveRests

LEMMA MasterAsksMoves ==
    ASSUME Shapes, MasterAsks
    PROVE  /\ SlaveRests /\ issued' = issued \cup {master.pending} /\ runs' = runs
           /\ master.pc = "akh_req" /\ master'.pc = "answer" /\ master'.pending = master.pending
           /\ master'.ctx.keys = master.pending.keys
<1>1. master' = SetMasterCtx(master, "answer", AfterSend(master.pending))
  BY DEF MasterAsks, SetMasterCtx
<1>2. /\ master'.pc = "answer" /\ master'.pending = master.pending
      /\ master'.ctx = AfterSend(master.pending)
  BY <1>1, MasterPcCtx DEF Shapes, MasterFields
<1> QED
  BY <1>2, CountingKeeps DEF MasterAsks, AkhReqOk, SlaveRests

LEMMA MasterReadsMoves ==
    ASSUME Shapes, MasterReads
    PROVE  /\ SlaveRests /\ issued' = issued /\ runs' = runs
           /\ master.pc = "answer" /\ master'.pc = "done" /\ master'.pending = master.pending
           /\ master'.ctx.keys = master.ctx.keys
<1>1. PICK pdu : pdu = Record("master").send.pdu
  OBVIOUS
<1>2. master' = SetMasterResult(master, "done", pdu, AfterRecv(master.ctx))
  BY <1>1 DEF MasterReads, SetMasterResult
<1>3. /\ master'.pc = "done" /\ master'.pending = master.pending
      /\ master'.ctx = AfterRecv(master.ctx)
  BY <1>2, MasterPcResultCtx DEF Shapes, MasterFields
<1> QED
  BY <1>3, CountingKeeps DEF MasterReads, AnswerOk, SlaveRests

(* The master ends, by itself or killed *)
MasterFails ==
    /\ SlaveRests /\ issued' = issued /\ runs' = runs
    /\ master.pc \in MasterWaits /\ master'.pc = "failed"
LEMMA MasterFailsMoves ==
    ASSUME Shapes,
           \/ MasterRejects \/ MasterGivesUp
           \/ Killed /\ master.pc \in MasterWaits /\ master' = [master EXCEPT !.pc = "failed"]
                     /\ UNCHANGED slave
    PROVE  MasterFails
<1>1. /\ master.pc \in MasterWaits /\ master' = [master EXCEPT !.pc = "failed"]
      /\ SlaveRests /\ issued' = issued /\ runs' = runs
  BY DEF MasterRejects, MasterGivesUp, Killed, SlaveRests
<1>2. master'.pc = "failed"
  BY <1>1, MasterPc DEF Shapes
<1> QED
  BY <1>1, <1>2 DEF MasterFails

(* The slave ends a session or an attempt, or starts *)
SlaveStops ==
    /\ MasterRests /\ UNCHANGED <<attempts, sessions>>
    /\ slave'.pc \in {"loop", "died"}
LEMMA SlaveStopsMoves ==
    ASSUME Shapes,
           \/ SlaveStarts \/ SlaveRejects \/ SlaveGivesUp
           \/ Killed /\ SlaveAlive /\ slave' = [slave EXCEPT !.pc = "died"]
                     /\ UNCHANGED master
    PROVE  SlaveStops
<1>1. MasterRests /\ UNCHANGED <<attempts, sessions>>
  BY DEF SlaveStarts, SlaveRejects, SlaveGivesUp, Killed, MasterRests, Shapes, Ends
<1>2. CASE SlaveStarts
  <2>1. PICK a \in Addresses, id \in ServerIds :
          slave' = [SlaveOff EXCEPT !.pc = "loop", !.addr = a, !.id = id]
    BY <1>2 DEF SlaveStarts
  <2>2. slave'.pc = "loop"
    BY <2>1, NewSlave
  <2> QED
    BY <1>1, <2>2 DEF SlaveStops
<1>3. CASE ~SlaveStarts
  <2>1. PICK v \in {"loop", "died"} : slave' = [slave EXCEPT !.pc = v]
    BY <1>3 DEF SlaveRejects, SlaveGivesUp
  <2>2. slave'.pc = v
    BY <2>1, SlavePc DEF Shapes
  <2> QED
    BY <1>1, <2>2 DEF SlaveStops
<1> QED
  BY <1>2, <1>3

LEMMA SlaveOffersMoves ==
    ASSUME Shapes, SlaveOffers
    PROVE  /\ MasterRests /\ attempts' = attempts + 1 /\ sessions' = sessions
           /\ slave.pc = "loop" /\ slave'.pc = "open_cnf"
<1>1. slave' = SlaveAnew(slave, "open_cnf", NoContext, NoContext)
  BY DEF SlaveOffers, SlaveAnew
<1>2. slave'.pc = "open_cnf"
  BY <1>1, SlavePcPendingCtx DEF Shapes
<1> QED
  BY <1>2 DEF SlaveOffers, MasterRests

LEMMA SlaveShowsCertificateMoves ==
    ASSUME Shapes, SlaveShowsCertificate
    PROVE  /\ MasterRests /\ UNCHANGED <<attempts, sessions>>
           /\ slave.pc = "open_cnf" /\ slave'.pc = "first_cnf"
BY SlavePc DEF SlaveShowsCertificate, OpenCnfOk, Shapes, MasterRests

LEMMA SlaveAsksAkhMoves ==
    ASSUME Shapes, SlaveAsksAkh
    PROVE  /\ MasterRests /\ UNCHANGED <<attempts, sessions>>
           /\ slave.pc = "first_cnf" /\ slave'.pc = "final_cnf"
           /\ IsContext(slave'.pending) /\ slave'.pending.recv_counter = 1
           /\ slave'.pending.keys.ck[1] = slave'.pending.auth_key[3]
           /\ IsSecret(slave'.pending.keys.ck[1]) =>
                 MadeForAttempt(slave'.pending) /\ AttemptOf(slave'.pending) = attempts
<1>1. PICK send, key : send = Record("slave").send /\ key = KemKeys(attempts).kem
  OBVIOUS
<1>2. PICK kemsk, kemsk_b : /\ kemsk = decaps(key, send.KEM_C)
                            /\ kemsk_b = decaps(KemKeys(attempts).broadcast, send.KEM_BC)
  OBVIOUS
<1>3. PICK ctx : ctx = PQSessionContext("slave", slave.id, send.CLIENT_CERT.id, kemsk, kemsk_b)
  OBVIOUS
<1>4. slave' = SetSlavePending(slave, "final_cnf", ctx)
  BY <1>1, <1>2, <1>3 DEF SlaveAsksAkh, SlaveContext, SetSlavePending
<1>5. slave'.pc = "final_cnf" /\ slave'.pending = ctx
  BY <1>4, SlavePcPending DEF Shapes
<1>6. ctx.auth_key[3] = kemsk /\ ctx.keys.ck[1] = kemsk /\ ctx.recv_counter = 1
  BY <1>3, ContextFields DEF Ready
<1>7. IsContext(ctx)
  BY <1>3 DEF IsContext, ContextAttributes, PQSessionContext
<1>8. ASSUME IsSecret(kemsk) PROVE MadeForAttempt(ctx) /\ AttemptOf(ctx) = attempts
  <2>1. kemsk.secret.to = key
    BY <1>2, <1>8 DEF decaps, IsSecret
  <2> QED
    BY <1>1, <1>6, <2>1 DEF MadeForAttempt, AttemptOf, KemKeys
<1> QED
  BY <1>5, <1>6, <1>7, <1>8 DEF SlaveAsksAkh, FirstCnfOk, MasterRests

LEMMA SlaveEstablishesMoves ==
    ASSUME Shapes, Once, SlaveEstablishes
    PROVE  /\ MasterRests /\ attempts' = attempts /\ sessions' = sessions \cup {slave.pending}
           /\ slave.pc = "final_cnf" /\ slave'.pc = "serving" /\ slave'.ctx = slave.pending
           /\ IsContext(slave.pending) /\ slave.pending.recv_counter = 1
<1>1. slave' = SetSlaveCtx(slave, "serving", slave.pending)
  BY DEF SlaveEstablishes, SetSlaveCtx
<1>2. slave'.pc = "serving" /\ slave'.ctx = slave.pending
  BY <1>1, SlavePcCtx DEF Shapes
<1> QED
  BY <1>2 DEF SlaveEstablishes, FinalCnfOk, MasterRests, Once, SlaveSide, PendingOnce

LEMMA ContextCounted ==
    ASSUME NEW ctx, IsContext(ctx), NEW new, new = AfterSend(AfterRecv(ctx))
    PROVE  /\ IsContext(new) /\ new.recv_counter = ctx.recv_counter + 1
           /\ new.keys = ctx.keys
<1> DEFINE got == AfterRecv(ctx)
<1>1. /\ got = [x \in ContextAttributes |-> got[x]]
      /\ got.recv_counter = ctx.recv_counter + 1
      /\ \A x \in ContextAttributes \ {"recv_counter"} : got[x] = ctx[x]
  BY FieldSet DEF IsContext, ContextAttributes, AfterRecv
<1> HIDE DEF got
<1>2. new = [got EXCEPT !.send_counter = got.send_counter + 1]
  BY DEF AfterSend, got
<1>3. /\ new = [x \in ContextAttributes |-> new[x]]
      /\ \A x \in ContextAttributes \ {"send_counter"} : new[x] = got[x]
  BY <1>1, <1>2, FieldSet DEF ContextAttributes
<1> QED
  BY <1>1, <1>3 DEF IsContext, ContextAttributes

LEMMA SlaveServesMoves ==
    ASSUME Shapes, Once, SlaveServes
    PROVE  /\ MasterRests /\ UNCHANGED <<attempts, sessions>>
           /\ slave.pc = "serving" /\ slave'.pc = "serving"
           /\ IsContext(slave'.ctx) /\ slave'.ctx.recv_counter = slave.ctx.recv_counter + 1
           /\ slave'.ctx.keys = slave.ctx.keys
<1>1. PICK ctx : ctx = AfterSend(AfterRecv(slave.ctx))
  OBVIOUS
<1>2. slave' = [slave EXCEPT !.ctx = ctx]
  BY <1>1 DEF SlaveServes
<1>3. slave'.ctx = ctx /\ slave'.pc = slave.pc
  BY <1>2, SlaveCtx DEF Shapes, SlaveFields
<1>4. slave.pc = "serving"
  BY DEF SlaveServes, RequestOk
<1>5. IsContext(ctx) /\ ctx.recv_counter = slave.ctx.recv_counter + 1 /\ ctx.keys = slave.ctx.keys
  BY <1>1, <1>4, ContextCounted DEF Once, SlaveSide, ServesSession
<1> QED
  BY <1>3, <1>4, <1>5 DEF SlaveServes, MasterRests

-----------------------------------------------------------------------------
(* Once is inductive *)

LEMMA SlaveRestsOnce ==
    ASSUME Once, SlaveRests
    PROVE  SlaveSide'
BY DEF Once, SlaveRests, SlaveSide, PendingOnce, EstablishedOnce, ServesSession

LEMMA MasterRestsOnce ==
    ASSUME Once, MasterRests
    PROVE  MasterSide'
BY DEF Once, MasterRests, MasterSide, LastRunKnown, IssuedOnce

(* A context that was issued has the key of a run that has asked *)
LEMMA IssuedKey ==
    ASSUME IInv, NEW m \in issued
    PROVE  IsSecret(m.keys.ck[1]) /\ RunOf(m) \in Nat /\ RunOf(m) <= Asked
<1>1. IsSecret(m.auth_key[3]) /\ Linked(m) /\ KeyOld(m.keys.ck)
  BY DEF IInv, GhostsOk
<1>2. m.keys.ck[1] = m.auth_key[3]
  BY <1>1 DEF Linked, derive_pq_content_keys
<1> QED
  BY <1>1, <1>2 DEF KeyOld, RunOf

LEMMA MasterAsksOnce ==
    ASSUME Shapes, IInv, Once, MasterAsks
    PROVE  Once'
<1>1. /\ SlaveRests /\ issued' = issued \cup {master.pending} /\ runs' = runs
      /\ master.pc = "akh_req" /\ master'.pc = "answer" /\ master'.pending = master.pending
      /\ master'.ctx.keys = master.pending.keys
  BY MasterAsksMoves
<1>2. runs["master"] \in Nat /\ RunOf(master.pending) = runs["master"]
  BY <1>1 DEF IInv, MasterOk, RunOf, Shapes, Ends
<1>3. ASSUME NEW m \in issued PROVE RunOf(m) > 0 /\ RunOf(m) < runs["master"]
  <2>1. RunOf(m) \in Nat /\ RunOf(m) <= runs["master"] - 1
    BY <1>1, IssuedKey DEF Asked
  <2> QED
    BY <1>2, <2>1 DEF Once, MasterSide, IssuedOnce
<1>4. runs["master"] > 0
  <2>1. runs["master"] # 0
    BY <1>1 DEF Once, MasterSide, LastRunKnown
  <2> QED
    BY <1>2, <2>1
<1>5. IssuedOnce'
  BY <1>1, <1>2, <1>3, <1>4 DEF Once, MasterSide, IssuedOnce
<1>6. LastRunKnown'
  BY <1>1 DEF Once, MasterSide, LastRunKnown, MasterWaits
<1> QED
  BY <1>1, <1>5, <1>6, SlaveRestsOnce DEF Once, MasterSide

LEMMA SlaveEstablishesOnce ==
    ASSUME Shapes, IInv, IInv', Once, SlaveEstablishes
    PROVE  Once'
<1>1. /\ MasterRests /\ attempts' = attempts /\ sessions' = sessions \cup {slave.pending}
      /\ slave.pc = "final_cnf" /\ slave'.pc = "serving" /\ slave'.ctx = slave.pending
      /\ IsContext(slave.pending) /\ slave.pending.recv_counter = 1
  BY SlaveEstablishesMoves
<1>2. PICK m \in issued : m.keys = slave.pending.keys
  <2>1. slave.pending \in sessions'
    BY <1>1
  <2>2. PICK m \in issued' : SameSession(m, slave.pending)
    BY <2>1 DEF IInv, GhostsOk, SlaveAgrees
  <2> QED
    BY <1>1, <2>2 DEF MasterRests, SameSession
<1>3. IsSecret(slave.pending.keys.ck[1])
  BY <1>2, IssuedKey
<1>4. MadeForAttempt(slave.pending) /\ AttemptOf(slave.pending) = attempts
  BY <1>1, <1>3 DEF Once, SlaveSide, PendingOnce
<1>5. attempts \in Nat \ {0}
  BY <1>1 DEF Once, SlaveSide, SlaveWaits
<1>6. EstablishedOnce'
  BY <1>1, <1>4, <1>5 DEF Once, SlaveSide, EstablishedOnce
<1>7. PendingOnce' /\ ServesSession'
  BY <1>1 DEF PendingOnce, ServesSession
<1> QED
  BY <1>1, <1>5, <1>6, <1>7, MasterRestsOnce DEF Once, SlaveSide

LEMMA MasterGoesOn ==
    ASSUME Once, issued' = issued, runs' = runs,
           master.pc # "off", master'.pc \in MasterWaits \cup {"done", "failed"},
           master'.pc \in {"akh_req", "answer", "done"} =>
              IsSecret(master'.pending.keys.ck[1]) /\ RunOf(master'.pending) = runs["master"],
           master'.pc \in {"answer", "done"} =>
              master'.pending \in issued /\ master'.ctx.keys = master'.pending.keys
    PROVE  MasterSide'
BY DEF Once, MasterSide, LastRunKnown, IssuedOnce

LEMMA SlaveGoesOn ==
    ASSUME Once, UNCHANGED <<attempts, sessions>>,
           slave.pc \in {"open_cnf", "first_cnf"} \/ slave'.pc \in {"serving", "loop", "died"},
           slave'.pc \in SlaveWaits => slave.pc \in SlaveWaits,
           PendingOnce', ServesSession'
    PROVE  SlaveSide'
BY DEF Once, SlaveSide, EstablishedOnce

LEMMA MasterStartsOnce ==
    ASSUME Shapes, IInv, Once, MasterStarts
    PROVE  Once'
<1>1. /\ SlaveRests /\ issued' = issued /\ master'.pc = "open_req"
      /\ runs["master"] < MaxMasterRuns /\ runs'["master"] = runs["master"] + 1
  BY MasterStartsMoves
<1>2. runs["master"] \in Nat /\ MaxMasterRuns \in Nat
  BY PqAssumption DEF Shapes, Ends
<1>3. runs'["master"] \in 0..MaxMasterRuns /\ runs'["master"] # 0
  BY <1>1, <1>2
<1>4. LastRunKnown'
  BY <1>1, <1>3 DEF LastRunKnown, MasterWaits
<1>5. IssuedOnce'
  BY <1>1 DEF Once, MasterSide, IssuedOnce
<1> QED
  BY <1>1, <1>3, <1>4, <1>5, SlaveRestsOnce DEF Once, MasterSide

LEMMA SlaveOffersOnce ==
    ASSUME Shapes, Once, SlaveOffers
    PROVE  Once'
<1>1. /\ MasterRests /\ attempts' = attempts + 1 /\ sessions' = sessions
      /\ slave.pc = "loop" /\ slave'.pc = "open_cnf"
  BY SlaveOffersMoves
<1>2. attempts \in Nat
  BY DEF Once, SlaveSide
<1>3. ASSUME NEW s \in sessions
      PROVE  /\ MadeForAttempt(s) /\ AttemptOf(s) \in 1..attempts'
             /\ AttemptOf(s) # attempts'
  BY <1>1, <1>2 DEF Once, SlaveSide, EstablishedOnce
<1>4. EstablishedOnce'
  BY <1>1, <1>3 DEF EstablishedOnce
<1>5. PendingOnce' /\ ServesSession'
  BY <1>1 DEF PendingOnce, ServesSession
<1> QED
  BY <1>1, <1>2, <1>4, <1>5, MasterRestsOnce DEF Once, SlaveSide

LEMMA OnceStep ==
    ASSUME Shapes, IInv, IInv', Once, [Next]_vars
    PROVE  Once'
<1>1. CASE MasterOpens
  <2>1. MasterSide'
    BY <1>1, MasterOpensMoves, MasterGoesOn DEF MasterWaits
  <2> QED
    BY <1>1, <2>1, MasterOpensMoves, SlaveRestsOnce DEF Once
<1>2. CASE MasterEncapsulates
  <2>1. MasterSide'
    BY <1>2, MasterEncapsulatesMoves, MasterGoesOn DEF MasterWaits
  <2> QED
    BY <1>2, <2>1, MasterEncapsulatesMoves, SlaveRestsOnce DEF Once
<1>3. CASE MasterReads
  <2>1. MasterSide'
    BY <1>3, MasterReadsMoves, MasterGoesOn DEF Once, MasterSide, LastRunKnown
  <2> QED
    BY <1>3, <2>1, MasterReadsMoves, SlaveRestsOnce DEF Once
<1>4. CASE MasterFails
  <2>1. MasterSide'
    BY <1>4, MasterGoesOn DEF MasterFails, MasterWaits
  <2> QED
    BY <1>4, <2>1, SlaveRestsOnce DEF Once, MasterFails
<1>5. CASE SlaveShowsCertificate
  <2>1. PendingOnce' /\ ServesSession'
    BY <1>5, SlaveShowsCertificateMoves DEF PendingOnce, ServesSession
  <2>2. SlaveSide'
    BY <1>5, <2>1, SlaveShowsCertificateMoves, SlaveGoesOn DEF SlaveWaits
  <2> QED
    BY <1>5, <2>2, SlaveShowsCertificateMoves, MasterRestsOnce DEF Once
<1>6. CASE SlaveAsksAkh
  <2>1. PendingOnce' /\ ServesSession'
    BY <1>6, SlaveAsksAkhMoves DEF PendingOnce, ServesSession
  <2>2. SlaveSide'
    BY <1>6, <2>1, SlaveAsksAkhMoves, SlaveGoesOn DEF SlaveWaits
  <2> QED
    BY <1>6, <2>2, SlaveAsksAkhMoves, MasterRestsOnce DEF Once
<1>7. CASE SlaveServes
  <2>1. PendingOnce' /\ ServesSession'
    BY <1>7, SlaveServesMoves DEF Once, SlaveSide, PendingOnce, ServesSession
  <2>2. SlaveSide'
    BY <1>7, <2>1, SlaveServesMoves, SlaveGoesOn
  <2> QED
    BY <1>7, <2>2, SlaveServesMoves, MasterRestsOnce DEF Once
<1>8. CASE SlaveStops
  <2>1. PendingOnce' /\ ServesSession'
    BY <1>8 DEF SlaveStops, PendingOnce, ServesSession
  <2>2. SlaveSide'
    BY <1>8, <2>1, SlaveGoesOn DEF SlaveStops, SlaveWaits
  <2> QED
    BY <1>8, <2>2, MasterRestsOnce DEF Once, SlaveStops
<1>9. CASE Noise \/ UNCHANGED vars
  <2>1. MasterRests /\ SlaveRests
    BY <1>9 DEF Noise, vars, MasterRests, SlaveRests
  <2> QED
    BY <2>1, MasterRestsOnce, SlaveRestsOnce DEF Once
<1>10. CASE Killed
  <2>1. MasterFails \/ SlaveStops
    BY <1>10, MasterFailsMoves, SlaveStopsMoves DEF Killed
  <2> QED
    BY <1>4, <1>8, <2>1
<1> QED
  BY <1>1, <1>2, <1>3, <1>4, <1>5, <1>6, <1>7, <1>8, <1>9, <1>10, MasterFailsMoves,
     SlaveStopsMoves, MasterStartsOnce, MasterAsksOnce, SlaveOffersOnce, SlaveEstablishesOnce
  DEF Next

-----------------------------------------------------------------------------
(* Which changes of the phases and keys are steps of SecureChannel *)

MasterOthers(n) ==
    \A i \in Conns \ {n} : MasterPhase(i)' = MasterPhase(i) /\ MasterKey(i)' = MasterKey(i)
SlaveOthers(n) ==
    \A i \in Conns \ {n} : SlavePhase(i)' = SlavePhase(i) /\ SlaveKey(i)' = SlaveKey(i)
MasterKeepsAll == \A i \in Conns : MasterPhase(i)' = MasterPhase(i) /\ MasterKey(i)' = MasterKey(i)
SlaveKeepsAll == \A i \in Conns : SlavePhase(i)' = SlavePhase(i) /\ SlaveKey(i)' = SlaveKey(i)
OnlyHeldAt(n, key) == \A i \in Conns \ {n} : MasterKey(i) # key /\ SlaveKey(i) # key
Kept == [Promise!Next]_(Promise!vars)

LEMMA Stays ==
    /\ MasterKeepsAll => UNCHANGED <<[n \in Conns |-> MasterPhase(n)], [n \in Conns |-> MasterKey(n)]>>
    /\ SlaveKeepsAll => UNCHANGED <<[n \in Conns |-> SlavePhase(n)], [n \in Conns |-> SlaveKey(n)]>>
BY DEF MasterKeepsAll, SlaveKeepsAll

LEMMA NothingPromised ==
    ASSUME MasterKeepsAll, SlaveKeepsAll
    PROVE  Kept
BY Stays DEF Kept, Promise!vars

LEMMA PromisedMasterInstalls ==
    ASSUME NEW n \in Conns, MasterOthers(n), SlaveKeepsAll,
           MasterPhase(n) = "opening", MasterPhase(n)' = "keyed",
           MasterKey(n)' # NoKey, OnlyHeldAt(n, MasterKey(n)')
    PROVE  Kept
<1> DEFINE phases == [i \in Conns |-> MasterPhase(i)]
           keys == [i \in Conns |-> MasterKey(i)]
<1>1. phases' = [phases EXCEPT ![n] = "keyed"]
  BY DEF MasterOthers
<1>2. keys' = [keys EXCEPT ![n] = keys'[n]] /\ keys'[n] = MasterKey(n)'
  BY DEF MasterOthers
<1>3. Promise!MasterInstalls(n)
  BY <1>1, <1>2, Stays DEF OnlyHeldAt, Promise!MasterInstalls, Promise!HeldElsewhere
<1> QED
  BY <1>3 DEF Kept, Promise!Next

LEMMA PromisedSlaveInstalls ==
    ASSUME NEW n \in Conns, SlaveOthers(n), MasterKeepsAll,
           SlavePhase(n) = "opening", SlavePhase(n)' = "keyed",
           SlaveKey(n)' # NoKey, OnlyHeldAt(n, SlaveKey(n)'),
           \/ MasterPhase(n) = "keyed" /\ SlaveKey(n)' = MasterKey(n)
           \/ MasterPhase(n) = "over"
    PROVE  Kept
<1> DEFINE phases == [i \in Conns |-> SlavePhase(i)]
           keys == [i \in Conns |-> SlaveKey(i)]
<1>1. phases' = [phases EXCEPT ![n] = "keyed"]
  BY DEF SlaveOthers
<1>2. keys' = [keys EXCEPT ![n] = keys'[n]] /\ keys'[n] = SlaveKey(n)'
  BY DEF SlaveOthers
<1>3. Promise!SlaveInstalls(n)
  BY <1>1, <1>2, Stays DEF OnlyHeldAt, Promise!SlaveInstalls, Promise!HeldElsewhere
<1> QED
  BY <1>3 DEF Kept, Promise!Next

LEMMA PromisedMasterServes ==
    ASSUME NEW n \in Conns, MasterOthers(n), SlaveKeepsAll,
           MasterPhase(n) = "keyed", MasterPhase(n)' = "ready",
           MasterKey(n)' = MasterKey(n), SlavePhase(n) # "opening"
    PROVE  Kept
<1> DEFINE phases == [i \in Conns |-> MasterPhase(i)]
           keys == [i \in Conns |-> MasterKey(i)]
<1>1. phases' = [phases EXCEPT ![n] = "ready"] /\ keys' = keys
  BY DEF MasterOthers
<1>2. Promise!MasterServes(n)
  BY <1>1, Stays DEF Promise!MasterServes
<1> QED
  BY <1>2 DEF Kept, Promise!Next

LEMMA PromisedSlaveServes ==
    ASSUME NEW n \in Conns, SlaveOthers(n), MasterKeepsAll,
           SlavePhase(n) = "keyed", SlavePhase(n)' = "ready",
           SlaveKey(n)' = SlaveKey(n)
    PROVE  Kept
<1> DEFINE phases == [i \in Conns |-> SlavePhase(i)]
           keys == [i \in Conns |-> SlaveKey(i)]
<1>1. phases' = [phases EXCEPT ![n] = "ready"] /\ keys' = keys
  BY DEF SlaveOthers
<1>2. Promise!SlaveServes(n)
  BY <1>1, Stays DEF Promise!SlaveServes
<1> QED
  BY <1>2 DEF Kept, Promise!Next

LEMMA PromisedMasterEnds ==
    ASSUME NEW E \in SUBSET Conns, SlaveKeepsAll,
           \A i \in E : MasterPhase(i)' = "over" /\ MasterKey(i)' = NoKey,
           \A i \in Conns \ E : MasterPhase(i)' = MasterPhase(i) /\ MasterKey(i)' = MasterKey(i)
    PROVE  Kept
<1> DEFINE phases == [i \in Conns |-> MasterPhase(i)]
           keys == [i \in Conns |-> MasterKey(i)]
<1>1. /\ phases' = [i \in Conns |-> IF i \in E THEN "over" ELSE phases[i]]
      /\ keys' = [i \in Conns |-> IF i \in E THEN NoKey ELSE keys[i]]
  OBVIOUS
<1>2. Promise!MasterEnds
  BY <1>1, Stays DEF Promise!MasterEnds
<1> QED
  BY <1>2 DEF Kept, Promise!Next

LEMMA PromisedSlaveEnds ==
    ASSUME NEW E \in SUBSET Conns, MasterKeepsAll,
           \A i \in E : SlavePhase(i)' = "over" /\ SlaveKey(i)' = NoKey,
           \A i \in Conns \ E : SlavePhase(i)' = SlavePhase(i) /\ SlaveKey(i)' = SlaveKey(i)
    PROVE  Kept
<1> DEFINE phases == [i \in Conns |-> SlavePhase(i)]
           keys == [i \in Conns |-> SlaveKey(i)]
<1>1. /\ phases' = [i \in Conns |-> IF i \in E THEN "over" ELSE phases[i]]
      /\ keys' = [i \in Conns |-> IF i \in E THEN NoKey ELSE keys[i]]
  OBVIOUS
<1>2. Promise!SlaveEnds
  BY <1>1, Stays DEF Promise!SlaveEnds
<1> QED
  BY <1>2 DEF Kept, Promise!Next

-----------------------------------------------------------------------------
(* The phases, from the programs *)

MasterPhaseIs(n) ==
    /\ n > runs["master"] => MasterPhase(n) = "opening" /\ MasterKey(n) = NoKey
    /\ n < runs["master"] => MasterPhase(n) = "over" /\ MasterKey(n) = NoKey
    /\ n = runs["master"] =>
          /\ master.pc = "failed" => MasterPhase(n) = "over" /\ MasterKey(n) = NoKey
          /\ master.pc \in {"akh_req", "answer"} =>
                MasterPhase(n) = "keyed" /\ MasterKey(n) = master.pending.keys.ck
          /\ master.pc = "done" =>
                MasterPhase(n) = "ready" /\ MasterKey(n) = master.pending.keys.ck
          /\ master.pc \in {"open_req", "first_req"} =>
                MasterPhase(n) = "opening" /\ MasterKey(n) = NoKey
ServesRun(n) == slave.pc = "serving" /\ SessionWith(n, slave.ctx)
HadSession(n) == \E s \in sessions : SessionWith(n, s)
SlavePhaseIs(n) ==
    /\ ServesRun(n) => /\ SlavePhase(n) = IF slave.ctx.recv_counter = 1 THEN "keyed" ELSE "ready"
                       /\ SlaveKey(n) = slave.ctx.keys.ck
    /\ ~ServesRun(n) => /\ SlavePhase(n) = IF HadSession(n) THEN "over" ELSE "opening"
                        /\ SlaveKey(n) = NoKey

LEMMA MasterPhases ==
    ASSUME NEW n \in Conns, Shapes, Shapes'
    PROVE  MasterPhaseIs(n) /\ MasterPhaseIs(n)'
<1>1. n \in Nat /\ runs["master"] \in Nat /\ runs'["master"] \in Nat
  BY PqAssumption DEF Shapes, Ends, Conns
<1>2. MasterPhaseIs(n)
  BY <1>1 DEF MasterPhaseIs, MasterPhase, MasterKey, Held
<1>3. MasterPhaseIs(n)'
  BY <1>1 DEF MasterPhaseIs, MasterPhase, MasterKey, Held
<1> QED
  BY <1>2, <1>3

LEMMA SlavePhases ==
    ASSUME NEW n
    PROVE  SlavePhaseIs(n) /\ SlavePhaseIs(n)'
<1>1. SlavePhaseIs(n)
  BY DEF SlavePhaseIs, SlavePhase, SlaveKey, Held, ServesRun, HadSession
<1>2. SlavePhaseIs(n)'
  BY DEF SlavePhaseIs, SlavePhase, SlaveKey, Held, ServesRun, HadSession
<1> QED
  BY <1>1, <1>2

LEMMA EndsRest ==
    /\ SlaveRests => SlaveKeepsAll
    /\ MasterRests => MasterKeepsAll
<1>1. ASSUME SlaveRests PROVE SlaveKeepsAll
  BY <1>1 DEF SlaveRests, SlaveKeepsAll, SlavePhase, SlaveKey
<1>2. ASSUME MasterRests PROVE MasterKeepsAll
  BY <1>2 DEF MasterRests, MasterKeepsAll, MasterPhase, MasterKey
<1> QED
  BY <1>1, <1>2

(* A run of the master that is not the last one is not affected by a step   *)
(* of the master that starts no run                                         *)
LEMMA OtherRuns ==
    ASSUME Shapes, Shapes', runs' = runs, NEW n, n = runs["master"]
    PROVE  MasterOthers(n)
<1> SUFFICES ASSUME NEW i \in Conns \ {n}
             PROVE  MasterPhase(i)' = MasterPhase(i) /\ MasterKey(i)' = MasterKey(i)
  BY DEF MasterOthers
<1>1. i \in Nat /\ runs["master"] \in Nat
  BY PqAssumption DEF Shapes, Ends, Conns
<1>2. i < runs["master"] \/ i > runs["master"]
  BY <1>1
<1> QED
  BY <1>2, MasterPhases DEF MasterPhaseIs

(* The run under way is a connection *)
LEMMA LastRun ==
    ASSUME Once, master.pc # "off"
    PROVE  runs["master"] \in Conns
<1>1. runs["master"] # 0 /\ runs["master"] \in 0..MaxMasterRuns
  BY DEF Once, MasterSide, LastRunKnown
<1> QED
  BY <1>1, PqAssumption DEF Conns

(* A session has the key of the one run that issued it *)
LEMMA SessionKey ==
    ASSUME IInv, NEW s \in sessions, NEW ctx, ctx.keys = s.keys
    PROVE  /\ IsSecret(ctx.keys.ck[1]) /\ RunOf(ctx) = RunOf(s) /\ RunOf(s) <= Asked
           /\ \A n : SessionWith(n, ctx) <=> n = RunOf(ctx)
           /\ \E m \in issued : m.keys = ctx.keys
<1>1. PICK m \in issued : m.keys = s.keys
  BY DEF IInv, GhostsOk, SlaveAgrees, SameSession
<1>2. IsSecret(m.keys.ck[1]) /\ RunOf(m) <= Asked
  BY IssuedKey
<1>3. RunOf(s) = RunOf(m) /\ RunOf(ctx) = RunOf(m)
  BY <1>1 DEF RunOf
<1>4. \A n : SessionWith(n, ctx) <=> n = RunOf(ctx)
  BY <1>1, <1>2 DEF SessionWith, Ciphertext, IsSecret, RunOf
<1> QED
  BY <1>1, <1>2, <1>3, <1>4

-----------------------------------------------------------------------------
(* The steps *)

LEMMA MasterStartsKept ==
    ASSUME Shapes, Shapes', MasterStarts
    PROVE  Kept
<1> DEFINE E == {runs["master"]} \cap Conns
<1>1. /\ SlaveKeepsAll /\ master'.pc = "open_req" /\ runs'["master"] = runs["master"] + 1
  BY MasterStartsMoves, EndsRest
<1>2. ASSUME NEW i \in E PROVE MasterPhase(i)' = "over" /\ MasterKey(i)' = NoKey
  <2>1. i \in Nat /\ i < runs'["master"]
    BY <1>1 DEF Shapes, Ends
  <2> QED
    BY <2>1, MasterPhases DEF MasterPhaseIs
<1>3. ASSUME NEW i \in Conns \ E
      PROVE  MasterPhase(i)' = MasterPhase(i) /\ MasterKey(i)' = MasterKey(i)
  <2>1. i \in Nat /\ runs["master"] \in Nat /\ i # runs["master"]
    BY PqAssumption DEF Shapes, Ends, Conns
  <2>2. CASE i < runs["master"]
    <3>1. i < runs'["master"]
      BY <1>1, <2>1, <2>2
    <3> QED
      BY <2>2, <3>1, MasterPhases DEF MasterPhaseIs
  <2>3. CASE i > runs["master"]
    <3>1. i = runs'["master"] \/ i > runs'["master"]
      BY <1>1, <2>1, <2>3
    <3> QED
      BY <1>1, <2>3, <3>1, MasterPhases DEF MasterPhaseIs
  <2> QED
    BY <2>1, <2>2, <2>3
<1>4. E \in SUBSET Conns
  OBVIOUS
<1> QED
  BY <1>1, <1>2, <1>3, <1>4, PromisedMasterEnds

(* A step within one phase *)
LEMMA MasterSamePhaseKept ==
    ASSUME Shapes, Shapes', Once, SlaveRests, runs' = runs,
           \/ master.pc = "open_req" /\ master'.pc = "first_req"
           \/ /\ master.pc = "akh_req" /\ master'.pc = "answer"
              /\ master'.pending = master.pending
    PROVE  Kept
<1>1. runs["master"] \in Conns
  BY LastRun
<1>2. MasterOthers(runs["master"])
  BY OtherRuns
<1>3. MasterKeepsAll
  BY <1>1, <1>2, MasterPhases DEF MasterPhaseIs, MasterOthers, MasterKeepsAll
<1> QED
  BY <1>3, EndsRest, NothingPromised

LEMMA MasterEncapsulatesKept ==
    ASSUME Shapes, Shapes', IInv, Once, MasterEncapsulates
    PROVE  Kept
<1> DEFINE n == runs["master"]
           key == master'.pending.keys.ck
<1>1. /\ SlaveKeepsAll /\ runs' = runs /\ master.pc = "first_req" /\ master'.pc = "akh_req"
      /\ RunOf(master'.pending) = n /\ key # NoKey
  BY MasterEncapsulatesMoves, EndsRest
<1>2. n \in Conns
  BY <1>1, LastRun
<1>3. MasterOthers(n)
  BY <1>1, OtherRuns
<1>4. MasterPhase(n) = "opening" /\ MasterPhase(n)' = "keyed" /\ MasterKey(n)' = key
  BY <1>1, <1>2, MasterPhases DEF MasterPhaseIs
<1>5. key[1].secret.by = n
  BY <1>1 DEF RunOf
<1> HIDE DEF key
<1>6. ASSUME NEW i \in Conns \ {n} PROVE MasterKey(i) # key /\ SlaveKey(i) # key
  <2>1. MasterKey(i) = NoKey
    <3>1. i \in Nat /\ n \in Nat
      BY <1>2 DEF Conns
    <3> QED
      BY <3>1, MasterPhases DEF MasterPhaseIs
  <2>2. SlaveKey(i) # key
    <3>1. CASE ~ServesRun(i)
      BY <1>1, <3>1, SlavePhases DEF SlavePhaseIs, key
    <3>2. CASE ServesRun(i)
      <4>1. PICK s \in sessions : s.keys = slave.ctx.keys
        BY <3>2 DEF ServesRun, Once, SlaveSide, ServesSession
      <4>2. i = RunOf(slave.ctx)
        BY <3>2, <4>1, SessionKey DEF ServesRun
      <4>3. SlaveKey(i) = slave.ctx.keys.ck
        BY <3>2, SlavePhases DEF SlavePhaseIs
      <4> QED
        BY <1>5, <4>2, <4>3 DEF RunOf
    <3> QED
      BY <3>1, <3>2
  <2> QED
    BY <1>1, <2>1, <2>2 DEF key
<1>7. OnlyHeldAt(n, MasterKey(n)')
  BY <1>4, <1>6 DEF OnlyHeldAt
<1>8. MasterKey(n)' # NoKey
  BY <1>1, <1>4 DEF key
<1> QED
  BY <1>1, <1>2, <1>3, <1>4, <1>7, <1>8, PromisedMasterInstalls

(* An answer is under the key of a session, so there is one *)
LEMMA MasterReadsKept ==
    ASSUME Shapes, Shapes', IInv, IInv', Once, Once', MasterReads
    PROVE  Kept
<1> DEFINE n == runs["master"]
<1>1. /\ SlaveKeepsAll /\ SlaveRests /\ runs' = runs /\ issued' = issued
      /\ master.pc = "answer" /\ master'.pc = "done" /\ master'.pending = master.pending
  BY MasterReadsMoves, EndsRest
<1>2. n \in Conns
  BY <1>1, LastRun
<1>3. MasterOthers(n)
  BY <1>1, OtherRuns
<1>4. MasterPhase(n) = "keyed" /\ MasterPhase(n)' = "ready" /\ MasterKey(n)' = MasterKey(n)
  BY <1>1, <1>2, MasterPhases DEF MasterPhaseIs
<1>5. PICK s \in sessions : SameSession(master'.ctx, s)
  BY <1>1 DEF IInv, MasterOk, SlaveRests
<1>6. s.keys = master.pending.keys /\ RunOf(master.pending) = n
  BY <1>1, <1>5 DEF Once, MasterSide, LastRunKnown, SameSession
<1>7. RunOf(s) = n
  BY <1>6 DEF RunOf
<1>8. HadSession(n)
  BY <1>7, SessionKey DEF HadSession
<1>9. SlavePhase(n) # "opening"
  BY <1>8, SlavePhases DEF SlavePhaseIs
<1> QED
  BY <1>1, <1>2, <1>3, <1>4, <1>9, PromisedMasterServes

LEMMA MasterFailsKept ==
    ASSUME Shapes, Shapes', MasterFails
    PROVE  Kept
<1> DEFINE E == {runs["master"]} \cap Conns
<1>1. SlaveKeepsAll /\ runs' = runs /\ master'.pc = "failed"
  BY EndsRest DEF MasterFails
<1>2. ASSUME NEW i \in E PROVE MasterPhase(i)' = "over" /\ MasterKey(i)' = NoKey
  BY <1>1, MasterPhases DEF MasterPhaseIs
<1>3. ASSUME NEW i \in Conns \ E
      PROVE  MasterPhase(i)' = MasterPhase(i) /\ MasterKey(i)' = MasterKey(i)
  BY <1>1, OtherRuns DEF MasterOthers
<1>4. E \in SUBSET Conns
  OBVIOUS
<1> QED
  BY <1>1, <1>2, <1>3, <1>4, PromisedMasterEnds

LEMMA SlavePreparesKept ==
    ASSUME MasterRests, sessions' = sessions, slave.pc # "serving", slave'.pc # "serving"
    PROVE  Kept
<1>1. ASSUME NEW i \in Conns
      PROVE  SlavePhase(i)' = SlavePhase(i) /\ SlaveKey(i)' = SlaveKey(i)
  <2>1. ~ServesRun(i) /\ ~ServesRun(i)' /\ (HadSession(i)' <=> HadSession(i))
    BY DEF ServesRun, HadSession
  <2> QED
    BY <2>1, SlavePhases DEF SlavePhaseIs
<1>2. SlaveKeepsAll
  BY <1>1 DEF SlaveKeepsAll
<1> QED
  BY <1>2, EndsRest, NothingPromised

LEMMA SlaveStopsKept ==
    ASSUME Once, SlaveStops
    PROVE  Kept
<1> DEFINE E == {i \in Conns : ServesRun(i)}
<1>1. /\ MasterKeepsAll /\ sessions' = sessions /\ slave'.pc # "serving"
  BY EndsRest DEF SlaveStops
<1>2. ASSUME NEW i \in Conns
      PROVE  /\ ~ServesRun(i)' /\ (HadSession(i)' <=> HadSession(i))
             /\ ServesRun(i) => HadSession(i)
  BY <1>1 DEF ServesRun, HadSession, Once, SlaveSide, ServesSession, SessionWith
<1>3. ASSUME NEW i \in E PROVE SlavePhase(i)' = "over" /\ SlaveKey(i)' = NoKey
  BY <1>2, SlavePhases DEF SlavePhaseIs
<1>4. ASSUME NEW i \in Conns \ E
      PROVE  SlavePhase(i)' = SlavePhase(i) /\ SlaveKey(i)' = SlaveKey(i)
  BY <1>2, SlavePhases DEF SlavePhaseIs
<1>5. E \in SUBSET Conns
  OBVIOUS
<1> QED
  BY <1>1, <1>3, <1>4, <1>5, PromisedSlaveEnds

LEMMA SlaveServesKept ==
    ASSUME Shapes, Once, SlaveServes
    PROVE  Kept
<1>1. /\ MasterKeepsAll /\ sessions' = sessions
      /\ slave.pc = "serving" /\ slave'.pc = "serving"
      /\ slave'.ctx.recv_counter = slave.ctx.recv_counter + 1
      /\ slave'.ctx.keys = slave.ctx.keys
  BY SlaveServesMoves, EndsRest
<1>2. slave.ctx.recv_counter \in Nat \ {0}
  BY <1>1 DEF Once, SlaveSide, ServesSession
<1>3. ASSUME NEW i \in Conns
      PROVE  /\ ServesRun(i)' <=> ServesRun(i)
             /\ HadSession(i)' <=> HadSession(i)
  BY <1>1 DEF ServesRun, HadSession, SessionWith
<1>4. ASSUME NEW i \in Conns, ~ServesRun(i)
      PROVE  SlavePhase(i)' = SlavePhase(i) /\ SlaveKey(i)' = SlaveKey(i)
  BY <1>3, <1>4, SlavePhases DEF SlavePhaseIs
<1>5. ASSUME NEW i \in Conns, ServesRun(i)
      PROVE  /\ SlaveKey(i)' = SlaveKey(i) /\ SlavePhase(i)' = "ready"
             /\ SlavePhase(i) = IF slave.ctx.recv_counter = 1 THEN "keyed" ELSE "ready"
  <2>1. slave'.ctx.recv_counter # 1
    BY <1>1, <1>2
  <2> QED
    BY <1>1, <1>3, <1>5, <2>1, SlavePhases DEF SlavePhaseIs
<1>6. CASE slave.ctx.recv_counter = 1 /\ \E n \in Conns : ServesRun(n)
  <2>1. PICK n \in Conns : ServesRun(n)
    BY <1>6
  <2>2. \A i \in Conns \ {n} : ~ServesRun(i)
    BY <2>1 DEF ServesRun, SessionWith
  <2>3. SlaveOthers(n)
    BY <1>4, <2>2 DEF SlaveOthers
  <2> QED
    BY <1>1, <1>5, <1>6, <2>1, <2>3, PromisedSlaveServes
<1>7. CASE ~(slave.ctx.recv_counter = 1 /\ \E n \in Conns : ServesRun(n))
  <2>1. SlaveKeepsAll
    BY <1>4, <1>5, <1>7 DEF SlaveKeepsAll
  <2> QED
    BY <1>1, <2>1, NothingPromised
<1> QED
  BY <1>6, <1>7

(* The run that the confirmed key comes from, which has no session yet: the *)
(* key of its session would be this one, but that is for another attempt    *)
LEMMA FirstWithItsRun ==
    ASSUME IInv, IInv', Once, Shapes, SlaveEstablishes
    PROVE  \E m \in issued :
              /\ m.keys = slave.pending.keys /\ RunOf(m) = RunOf(slave.pending)
              /\ \A n : SessionWith(n, slave.pending) <=> n = RunOf(m)
              /\ ~HadSession(RunOf(m))
<1>1. /\ MasterRests /\ attempts' = attempts /\ sessions' = sessions \cup {slave.pending}
      /\ slave.pc = "final_cnf"
  BY SlaveEstablishesMoves
<1>2. PICK m \in issued : m.keys = slave.pending.keys
  <2>1. PICK m \in issued' : SameSession(m, slave.pending)
    BY <1>1 DEF IInv, GhostsOk, SlaveAgrees
  <2> QED
    BY <1>1, <2>1 DEF MasterRests, SameSession
<1>3. IsSecret(slave.pending.keys.ck[1]) /\ RunOf(m) = RunOf(slave.pending)
  BY <1>2, IssuedKey DEF RunOf
<1>4. \A n : SessionWith(n, slave.pending) <=> n = RunOf(m)
  BY <1>3 DEF SessionWith, Ciphertext, IsSecret, RunOf
<1>5. ~HadSession(RunOf(m))
  <2> SUFFICES ASSUME NEW s \in sessions, SessionWith(RunOf(m), s) PROVE FALSE
    BY DEF HadSession
  <2>1. PICK v \in issued : v.keys = s.keys
    BY SessionKey
  <2>2. RunOf(v) = RunOf(s) /\ RunOf(s) = RunOf(m)
    BY <2>1, SessionKey DEF RunOf
  <2>3. v = m
    BY <2>2 DEF Once, MasterSide, IssuedOnce
  <2>4. AttemptOf(s) = AttemptOf(slave.pending)
    BY <1>2, <2>1, <2>3 DEF AttemptOf
  <2>5. AttemptOf(slave.pending) = attempts
    BY <1>1, <1>3 DEF Once, SlaveSide, PendingOnce
  <2> QED
    BY <1>1, <2>4, <2>5 DEF Once, SlaveSide, EstablishedOnce
<1> QED
  BY <1>2, <1>3, <1>4, <1>5

LEMMA SlaveEstablishesKept ==
    ASSUME Shapes, Shapes', IInv, IInv', Once, SlaveEstablishes
    PROVE  Kept
<1>1. PICK ctx : ctx = slave.pending
  OBVIOUS
<1>2. /\ MasterKeepsAll /\ sessions' = sessions \cup {ctx}
      /\ slave.pc = "final_cnf" /\ slave'.pc = "serving" /\ slave'.ctx = ctx
      /\ ctx.recv_counter = 1
  BY <1>1, SlaveEstablishesMoves, EndsRest
<1>3. PICK m \in issued :
        /\ m.keys = ctx.keys /\ RunOf(m) = RunOf(ctx)
        /\ \A n : SessionWith(n, ctx) <=> n = RunOf(m)
        /\ ~HadSession(RunOf(m))
  BY <1>1, FirstWithItsRun
<1> DEFINE n == RunOf(m)
<1>4. n \in Nat /\ n > 0 /\ n <= Asked /\ runs["master"] \in Nat
  BY IssuedKey DEF Once, MasterSide, IssuedOnce, Shapes, Ends
<1>5. n <= runs["master"] /\ runs["master"] <= MaxMasterRuns /\ MaxMasterRuns \in Nat
  BY <1>4, PqAssumption DEF Asked, Once, MasterSide
<1>6. n \in Conns
  BY <1>4, <1>5 DEF Conns
<1> HIDE DEF n
<1>7. ASSUME NEW i \in Conns
      PROVE  /\ ~ServesRun(i) /\ (ServesRun(i)' <=> i = n)
             /\ i # n => (HadSession(i)' <=> HadSession(i))
  BY <1>2, <1>3 DEF ServesRun, HadSession, SessionWith, n
<1>8. SlaveOthers(n)
  BY <1>7, SlavePhases DEF SlavePhaseIs, SlaveOthers
<1>9. SlavePhase(n) = "opening" /\ SlavePhase(n)' = "keyed" /\ SlaveKey(n)' = ctx.keys.ck
  BY <1>2, <1>3, <1>6, <1>7, SlavePhases DEF SlavePhaseIs, n
<1>10. ctx.keys.ck # NoKey
  <2>1. Linked(m)
    BY DEF IInv, GhostsOk
  <2>2. m.keys.ck = <<m.auth_key[3], m.server_id>>
    BY <2>1 DEF Linked, derive_pq_content_keys
  <2> QED
    BY <1>3, <2>2 DEF NoKey
<1>11. ASSUME NEW i \in Conns, MasterKey(i) # NoKey
       PROVE  /\ i = runs["master"] /\ master.pc \in {"akh_req", "answer", "done"}
              /\ MasterKey(i) = master.pending.keys.ck /\ RunOf(master.pending) = i
  <2>1. i \in Nat \ {0}
    BY DEF Conns
  <2>2. ~(i < runs["master"]) /\ ~(i > runs["master"])
    BY <1>11, MasterPhases DEF MasterPhaseIs
  <2>3. i = runs["master"]
    BY <1>4, <2>1, <2>2
  <2>4. master.pc \in MasterWaits \cup {"done", "failed"}
    BY <2>1, <2>3 DEF Once, MasterSide, LastRunKnown
  <2>5. master.pc \in {"akh_req", "answer", "done"}
    BY <1>11, <2>3, <2>4, MasterPhases DEF MasterPhaseIs, MasterWaits
  <2>6. MasterKey(i) = master.pending.keys.ck
    BY <2>3, <2>5, MasterPhases DEF MasterPhaseIs
  <2> QED
    BY <2>3, <2>5, <2>6 DEF Once, MasterSide, LastRunKnown
<1>12. OnlyHeldAt(n, ctx.keys.ck)
  <2> SUFFICES ASSUME NEW i \in Conns \ {n}
               PROVE  MasterKey(i) # ctx.keys.ck /\ SlaveKey(i) # ctx.keys.ck
    BY DEF OnlyHeldAt
  <2>1. SlaveKey(i) = NoKey
    BY <1>7, SlavePhases DEF SlavePhaseIs
  <2>2. MasterKey(i) # ctx.keys.ck
    BY <1>3, <1>10, <1>11 DEF RunOf, n
  <2> QED
    BY <1>10, <2>1, <2>2
<1>13. \/ MasterPhase(n) = "keyed" /\ SlaveKey(n)' = MasterKey(n)
       \/ MasterPhase(n) = "over"
  <2>1. CASE n < runs["master"]
    BY <1>6, <2>1, MasterPhases DEF MasterPhaseIs
  <2>2. CASE n = runs["master"]
    <3>1. master.pc \notin {"open_req", "first_req", "akh_req"}
      BY <1>4, <2>2 DEF Asked
    <3>2. master.pc \in {"answer", "done", "failed"}
      BY <1>4, <2>2, <3>1 DEF Once, MasterSide, LastRunKnown, MasterWaits
    <3>3. master.pc # "done"
      <4> SUFFICES ASSUME master.pc = "done" PROVE FALSE
        OBVIOUS
      <4>1. PICK s \in sessions : s.keys = master.pending.keys
        BY DEF IInv, MasterOk, SameSession, Once, MasterSide, LastRunKnown
      <4>2. RunOf(s) = n
        BY <2>2, <4>1 DEF RunOf, Once, MasterSide, LastRunKnown
      <4> QED
        BY <1>3, <4>2, SessionKey DEF HadSession, n
    <3>4. CASE master.pc = "answer"
      <4>1. master.pending \in issued /\ RunOf(master.pending) = RunOf(m)
        BY <2>2, <3>4 DEF Once, MasterSide, LastRunKnown, n
      <4>2. master.pending = m
        BY <4>1 DEF Once, MasterSide, IssuedOnce
      <4> QED
        BY <1>3, <1>6, <1>9, <2>2, <3>4, <4>2, MasterPhases DEF MasterPhaseIs
    <3>5. CASE master.pc = "failed"
      BY <1>6, <2>2, <3>5, MasterPhases DEF MasterPhaseIs
    <3> QED
      BY <3>2, <3>3, <3>4, <3>5
  <2>3. n < runs["master"] \/ n = runs["master"]
    BY <1>4, <1>5 DEF n
  <2> QED
    BY <2>1, <2>2, <2>3
<1> QED
  BY <1>2, <1>6, <1>8, <1>9, <1>10, <1>12, <1>13, PromisedSlaveInstalls

LEMMA KeptStep ==
    ASSUME Shapes, Shapes', IInv, IInv', Once, Once', [Next]_vars
    PROVE  Kept
<1>1. CASE MasterOpens \/ MasterAsks
  BY <1>1, MasterOpensMoves, MasterAsksMoves, MasterSamePhaseKept
<1>2. CASE SlaveOffers
  BY <1>2, SlaveOffersMoves, SlavePreparesKept
<1>3. CASE SlaveShowsCertificate
  BY <1>3, SlaveShowsCertificateMoves, SlavePreparesKept
<1>4. CASE SlaveAsksAkh
  BY <1>4, SlaveAsksAkhMoves, SlavePreparesKept
<1>5. CASE Noise \/ UNCHANGED vars
  <2>1. MasterRests /\ SlaveRests
    BY <1>5 DEF Noise, vars, MasterRests, SlaveRests
  <2> QED
    BY <2>1, EndsRest, NothingPromised
<1>6. CASE Killed
  <2>1. MasterFails \/ SlaveStops
    BY <1>6, MasterFailsMoves, SlaveStopsMoves DEF Killed
  <2> QED
    BY <2>1, MasterFailsKept, SlaveStopsKept
<1> QED
  BY <1>1, <1>2, <1>3, <1>4, <1>5, <1>6, MasterFailsMoves, SlaveStopsMoves, MasterFailsKept,
     SlaveStopsKept, MasterStartsKept, MasterEncapsulatesKept, MasterReadsKept,
     SlaveEstablishesKept, SlaveServesKept
  DEF Next

LEMMA OnceInit ==
    ASSUME Init
    PROVE  Once
<1>1. /\ runs["master"] = 0 /\ issued = {} /\ sessions = {} /\ attempts = 0
      /\ slave.pc = "off" /\ master.pc = "off"
  BY DEF Init, Ends, SlaveOff, MasterOff
<1>2. MasterSide
  BY <1>1, PqAssumption DEF MasterSide, LastRunKnown, IssuedOnce
<1>3. SlaveSide
  BY <1>1 DEF SlaveSide, SlaveWaits, PendingOnce, EstablishedOnce, ServesSession
<1> QED
  BY <1>2, <1>3 DEF Once

LEMMA KeptInit ==
    ASSUME Shapes, Shapes', Init
    PROVE  Promise!Init
<1>1. runs["master"] = 0 /\ sessions = {} /\ slave.pc = "off"
  BY DEF Init, Ends, SlaveOff
<1>2. ASSUME NEW n \in Conns
      PROVE  /\ MasterPhase(n) = "opening" /\ MasterKey(n) = NoKey
             /\ SlavePhase(n) = "opening" /\ SlaveKey(n) = NoKey
  <2>1. n > runs["master"]
    BY <1>1, PqAssumption DEF Conns
  <2>2. ~ServesRun(n) /\ ~HadSession(n)
    BY <1>1 DEF ServesRun, HadSession
  <2> QED
    BY <2>1, <2>2, MasterPhases, SlavePhases DEF MasterPhaseIs, SlavePhaseIs
<1> QED
  BY <1>2 DEF Promise!Init

(* PqOnce (run_master_handshake 744-811, run_slave_handshake 814-879): a    *)
(* run of the master encapsulates at most once and an attempt of the slave  *)
(* establishes at most one session, under a key made for that attempt.      *)
THEOREM PqOnce == Spec => []Once
<1>1. Init => Once
  BY OnceInit
<1>2. Shapes /\ IInv /\ IInv' /\ Once /\ [Next]_vars => Once'
  BY OnceStep
<1> QED
  BY <1>1, <1>2, PqInductive, PTL DEF Spec

(* PqKeepsPromise (run_slave_handshake, run_master_handshake, run_master,   *)
(* serve): for any number of runs and attempts, any losses, leftovers and   *)
(* kills, the profile is a SecureChannel.                                   *)
THEOREM PqKeepsPromise == Spec => PromiseKept
<1>1. Shapes /\ Shapes' /\ Init => Promise!Init
  BY KeptInit
<1>2. Shapes /\ Shapes' /\ IInv /\ IInv' /\ Once /\ Once' /\ [Next]_vars
         => [Promise!Next]_(Promise!vars)
  BY KeptStep DEF Kept
<1> QED
  BY <1>1, <1>2, PqInductive, PqOnce, PTL DEF Spec, PromiseKept, Promise!Spec
=============================================================================
