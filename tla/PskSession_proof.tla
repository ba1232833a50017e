--------------------------- MODULE PskSession_proof ---------------------------
(***************************************************************************)
(* Proofs about PskSession, for any number of runs and incidents, any      *)
(* passwords, identities and requests.                                     *)
(***************************************************************************)
EXTENDS PskSession, SerialLine_proof

(* The four kinds of record the argument is about *)
Offer(r) == r.tag = "ss_sk_data_req" /\ "R_H" \in DOMAIN r.send
Final(r) == r.tag = "ss_sk_data_req" /\ "S_H" \in DOMAIN r.send
Reply(r) == r.tag = "ss_sk_data_cnf" /\ "S_M" \in DOMAIN r.send
Data(r) == r.tag = "ss_data_send"

(* A point is named by the run that drew it *)
Named(point, end, n) ==
    point.point.random[1] = end /\ point.point.random[2] \in 1..n

(* Master runs that have sent their point, or encrypted a request *)
Revealed == IF master.pc = "open_cnf" THEN runs["master"] - 1 ELSE runs["master"]
Asked == IF master.pc \in {"open_cnf", "data_cnf", "final_cnf"}
         THEN runs["master"] - 1 ELSE runs["master"]

(* The identity that goes with the point of a slave run, as far as it can   *)
(* still be told: that of the run under way                                 *)
SlaveIs(point, id) ==
    Named(point, "slave", runs["slave"]) /\ (point = Point(slave.private) => id = slave.id)

(* What a master that verified with context ctx sends last *)
FinalOf(send, ctx) ==
    /\ send.S_H[1] = ctx.peer_point /\ send.S_H[2] = ctx.local_point
    /\ send.CLIENT_ID = ctx.client_id
    /\ ctx.keys = derive_content_keys({ctx.local_point, ctx.peer_point},
                                      ctx.server_id, ctx.client_id, send.R_B)
Established(ctx) == \E s \in sessions : SameSession(ctx, s.ctx)
KeyOld(key) ==
    \A p \in key[1] : Named(p, "master", Asked) \/ Named(p, "slave", runs["slave"])

-----------------------------------------------------------------------------
(* The inductive invariant *)

(* A point carries the number of the run that drew it *)
RunsNamed ==
    /\ master.pc \in MasterWaits =>
          runs["master"] > 0 /\ master.private.random = <<"master", runs["master"]>>
    /\ slave.pc \in SlaveWaits =>
          runs["slave"] > 0 /\ slave.private.random = <<"slave", runs["slave"]>>
    /\ slave.pc = "final_req" => Named(slave.peer.point, "master", Revealed)

GhostsOk ==
    /\ \A m \in verified : SlaveIs(m.ctx.peer_point, m.ctx.server_id)
    /\ \A s \in sessions :
          /\ s.ctx.local_point.point.random = <<"slave", s.run>>
          /\ Named(s.ctx.peer_point, "master", runs["master"])
          /\ s.ctx.keys.ck[1] = {s.ctx.local_point, s.ctx.peer_point}
          /\ \E m \in verified : SameSession(m.ctx, s.ctx)

(* Whoever sent it and however old it is, a record says the truth *)
RequestTrue(r) ==
    /\ Offer(r) => Named(r.send.R_H, "master", Revealed)
    /\ Final(r) => \E m \in verified : FinalOf(r.send, m.ctx)
    /\ Data(r) => KeyOld(r.send.key)
AnswerTrue(r) ==
    /\ Reply(r) => /\ SlaveIs(r.send.R_M, r.send.SERVER_ID)
                   /\ Named(r.send.S_M[1], "master", Revealed)
    /\ Data(r) => KeyOld(r.send.key)
RecordsTrue(l) ==
    /\ \A i \in DOMAIN l["slave"] : RequestTrue(l["slave"][i])
    /\ \A i \in DOMAIN l["master"] : AnswerTrue(l["master"][i])

(* Between the master's offer and the reply to it, nothing comes after the  *)
(* one that is under way                                                    *)
OfferLast(l) ==
    master.pc = "data_cnf" =>
        /\ \A i \in DOMAIN l["slave"] :
              Offer(l["slave"][i]) /\ l["slave"][i].send.R_H = Point(master.private)
                  => i = Len(l["slave"])
        /\ \A i \in DOMAIN l["master"] :
              Reply(l["master"][i]) /\ l["master"][i].send.S_M[1] = Point(master.private)
                  => i = Len(l["master"]) /\ l["slave"] = <<>>

(* Once the master verified the slave, the slave can confirm nothing else *)
ConfirmsThis(l) ==
    master.pc = "final_cnf" =>
        /\ \E m \in verified : m.ctx = MasterContext
        /\ \A i \in DOMAIN l["slave"] :
              /\ ~Offer(l["slave"][i])
              /\ Final(l["slave"][i]) => FinalOf(l["slave"][i].send, MasterContext)
        /\ \A i \in DOMAIN l["master"] :
              l["master"][i].tag = "ss_sk_data_cnf" => Established(MasterContext)

(* What is encrypted under the master's content key is its request and the  *)
(* answer to it                                                             *)
AnswersThis(l) ==
    master.pc = "answer" =>
        /\ \A i \in DOMAIN l["slave"] :
              Data(l["slave"][i]) /\ l["slave"][i].send.key = master.ctx.keys.ck
                  => l["slave"][i].send.pdu = master.request
        /\ \A i \in DOMAIN l["master"] :
              Data(l["master"][i]) /\ l["master"][i].send.key = master.ctx.keys.ck
                  => l["master"][i].send.pdu = handle_modbus_pdu(master.request)

LineOk(l) == RecordsTrue(l) /\ OfferLast(l) /\ ConfirmsThis(l) /\ AnswersThis(l)

ReadOk ==
    /\ master.ctx # NoContext \/ master.pc \in {"answer", "done"} => Established(master.ctx)
    /\ master.pc = "done" =>
          /\ master.request \in Served
          /\ master.result = <<"registers", master.request>>

IInv == RunsNamed /\ GhostsOk /\ LineOk(line) /\ ReadOk

(* What the provers have to know of the variables to reason about them *)
MasterFields == {"pc", "addr", "private", "id", "peer", "request", "result", "ctx"}
SlaveFields == {"pc", "addr", "private", "id", "peer", "ctx"}
IsMaster(m) == m = [x \in MasterFields |-> m[x]]
IsSlave(s) == s = [x \in SlaveFields |-> s[x]]
Shapes ==
    /\ IsLine(line) /\ IsMaster(master) /\ IsSlave(slave)
    /\ runs \in [Ends -> Nat]

-----------------------------------------------------------------------------
(* Programs: assignments to their attributes *)

LEMMA OffShapes == IsMaster(MasterOff) /\ IsSlave(SlaveOff)
BY DEF IsMaster, IsSlave, MasterOff, SlaveOff, MasterFields, SlaveFields

LEMMA MasterPc ==
    ASSUME NEW m, IsMaster(m), NEW v, NEW new, new = [m EXCEPT !.pc = v]
    PROVE  /\ IsMaster(new) /\ new.pc = v
           /\ \A x \in MasterFields \ {"pc"} : new[x] = m[x]
BY FieldSet DEF IsMaster, MasterFields

SetMasterPeer(m, v, w) == [m EXCEPT !.pc = v, !.peer = w]
LEMMA MasterPcPeer ==
    ASSUME NEW m, IsMaster(m), NEW v, NEW w, NEW new, new = SetMasterPeer(m, v, w)
    PROVE  /\ IsMaster(new) /\ new.pc = v /\ new.peer = w
           /\ \A x \in MasterFields \ {"pc", "peer"} : new[x] = m[x]
BY TwoFieldsSet DEF IsMaster, MasterFields, SetMasterPeer

SetMasterCtx(m, v, w) == [m EXCEPT !.pc = v, !.ctx = w]
LEMMA MasterPcCtx ==
    ASSUME NEW m, IsMaster(m), NEW v, NEW w, NEW new, new = SetMasterCtx(m, v, w)
    PROVE  /\ IsMaster(new) /\ new.pc = v /\ new.ctx = w
           /\ \A x \in MasterFields \ {"pc", "ctx"} : new[x] = m[x]
BY TwoFieldsSet DEF IsMaster, MasterFields, SetMasterCtx

SetMasterResult(m, v, w, x) == [m EXCEPT !.pc = v, !.result = w, !.ctx = x]
LEMMA MasterPcResultCtx ==
    ASSUME NEW m, IsMaster(m), NEW v, NEW w, NEW x,
           NEW new, new = SetMasterResult(m, v, w, x)
    PROVE  /\ IsMaster(new) /\ new.pc = v /\ new.result = w /\ new.ctx = x
           /\ \A y \in MasterFields \ {"pc", "result", "ctx"} : new[y] = m[y]
BY ThreeFieldsSet DEF IsMaster, MasterFields, SetMasterResult

MasterBegins(a, id, request, private) ==
    [MasterOff EXCEPT !.pc = "open_cnf", !.addr = a, !.id = id, !.request = request,
                      !.private = private]
LEMMA NewMaster ==
    ASSUME NEW a, NEW id, NEW request, NEW private, NEW new,
           new = MasterBegins(a, id, request, private)
    PROVE  /\ IsMaster(new) /\ new.pc = "open_cnf" /\ new.addr = a /\ new.id = id
           /\ new.request = request /\ new.private = private /\ new.ctx = NoContext
<1> DEFINE some == [MasterOff EXCEPT !.pc = "open_cnf", !.addr = a, !.id = id]
           all == [some EXCEPT !.request = request, !.private = private]
<1>1. new = all
  BY DEF MasterBegins
<1>2. /\ IsMaster(some) /\ some.pc = "open_cnf" /\ some.addr = a /\ some.id = id
      /\ some.ctx = NoContext
  BY OffShapes, ThreeFieldsSet DEF IsMaster, MasterFields, MasterOff
<1> HIDE DEF some
<1>3. /\ IsMaster(all) /\ all.request = request /\ all.private = private
      /\ \A x \in MasterFields \ {"request", "private"} : all[x] = some[x]
  BY <1>2, TwoFieldsSet DEF IsMaster, MasterFields
<1> HIDE DEF all
<1> QED
  BY <1>1, <1>2, <1>3 DEF MasterFields

LEMMA SlavePc ==
    ASSUME NEW s, IsSlave(s), NEW v, NEW new, new = [s EXCEPT !.pc = v]
    PROVE  /\ IsSlave(new) /\ new.pc = v
           /\ \A x \in SlaveFields \ {"pc"} : new[x] = s[x]
BY FieldSet DEF IsSlave, SlaveFields

LEMMA SlaveCtx ==
    ASSUME NEW s, IsSlave(s), NEW v, NEW new, new = [s EXCEPT !.ctx = v]
    PROVE  /\ IsSlave(new) /\ new.ctx = v
           /\ \A x \in SlaveFields \ {"ctx"} : new[x] = s[x]
BY FieldSet DEF IsSlave, SlaveFields

SetSlavePeer(s, v, w) == [s EXCEPT !.pc = v, !.peer = w]
LEMMA SlavePcPeer ==
    ASSUME NEW s, IsSlave(s), NEW v, NEW w, NEW new, new = SetSlavePeer(s, v, w)
    PROVE  /\ IsSlave(new) /\ new.pc = v /\ new.peer = w
           /\ \A x \in SlaveFields \ {"pc", "peer"} : new[x] = s[x]
BY TwoFieldsSet DEF IsSlave, SlaveFields, SetSlavePeer

SetSlaveCtx(s, v, w) == [s EXCEPT !.pc = v, !.ctx = w]
LEMMA SlavePcCtx ==
    ASSUME NEW s, IsSlave(s), NEW v, NEW w, NEW new, new = SetSlaveCtx(s, v, w)
    PROVE  /\ IsSlave(new) /\ new.pc = v /\ new.ctx = w
           /\ \A x \in SlaveFields \ {"pc", "ctx"} : new[x] = s[x]
BY TwoFieldsSet DEF IsSlave, SlaveFields, SetSlaveCtx

SlaveBegins(a, id, private) ==
    [SlaveOff EXCEPT !.pc = "open_req", !.addr = a, !.id = id, !.private = private]
LEMMA NewSlave ==
    ASSUME NEW a, NEW id, NEW private, NEW new, new = SlaveBegins(a, id, private)
    PROVE  /\ IsSlave(new) /\ new.pc = "open_req" /\ new.addr = a /\ new.id = id
           /\ new.private = private /\ new.ctx = NoContext
<1> DEFINE some == [SlaveOff EXCEPT !.pc = "open_req", !.addr = a, !.id = id]
           all == [some EXCEPT !.private = private]
<1>1. new = all
  BY DEF SlaveBegins
<1>2. /\ IsSlave(some) /\ some.pc = "open_req" /\ some.addr = a /\ some.id = id
      /\ some.ctx = NoContext
  BY OffShapes, ThreeFieldsSet DEF IsSlave, SlaveFields, SlaveOff
<1> HIDE DEF some
<1>3. /\ IsSlave(all) /\ all.private = private
      /\ \A x \in SlaveFields \ {"private"} : all[x] = some[x]
  BY <1>2, FieldSet DEF IsSlave, SlaveFields
<1> HIDE DEF all
<1> QED
  BY <1>1, <1>2, <1>3 DEF SlaveFields

-----------------------------------------------------------------------------
(* Records that are lost, damaged or read leave the invariant to the rest *)

LEMMA GarbledIsNothing ==
    ~Offer(Garbled) /\ ~Final(Garbled) /\ ~Reply(Garbled) /\ ~Data(Garbled)
    /\ Garbled.tag # "ss_sk_data_cnf"
BY DEF Offer, Final, Reply, Data, Garbled, Apdu

LEMMA ThinKeeps ==
    ASSUME NEW old, NEW new, IsLine(old), LineThinned(new, old), LineOk(old)
    PROVE  LineOk(new)
<1>1. /\ \A j \in DOMAIN new["slave"] :
            \/ new["slave"][j] = Garbled
            \/ \E k \in DOMAIN old["slave"] :
                  /\ new["slave"][j] = old["slave"][k]
                  /\ k = Len(old["slave"]) => j = Len(new["slave"])
      /\ \A j \in DOMAIN new["master"] :
            \/ new["master"][j] = Garbled
            \/ \E k \in DOMAIN old["master"] :
                  /\ new["master"][j] = old["master"][k]
                  /\ k = Len(old["master"]) => j = Len(new["master"])
      /\ old["slave"] = <<>> => new["slave"] = <<>>
  BY DEF LineThinned, Thinned, Ends
<1>2. RecordsTrue(new)
  BY <1>1, GarbledIsNothing DEF LineOk, RecordsTrue, RequestTrue, AnswerTrue
<1>3. OfferLast(new)
  BY <1>1, GarbledIsNothing DEF LineOk, OfferLast
<1>4. ConfirmsThis(new)
  BY <1>1, GarbledIsNothing DEF LineOk, ConfirmsThis
<1>5. AnswersThis(new)
  BY <1>1, GarbledIsNothing DEF LineOk, AnswersThis
<1> QED
  BY <1>2, <1>3, <1>4, <1>5 DEF LineOk

-----------------------------------------------------------------------------
(* What is true stays true as programs start and sessions are added *)

SlaveKept ==
    \/ /\ runs'["slave"] = runs["slave"]
       /\ slave'.private = slave.private /\ slave'.id = slave.id
    \/ /\ runs'["slave"] = runs["slave"] + 1
       /\ slave'.private.random = <<"slave", runs'["slave"]>>
Grows ==
    /\ Shapes /\ Shapes' /\ SlaveKept
    /\ runs'["master"] >= runs["master"]
    /\ Revealed' >= Revealed /\ Asked' >= Asked
    /\ verified \subseteq verified' /\ sessions \subseteq sessions'

LEMMA CountsAreInts ==
    ASSUME Shapes
    PROVE  runs["master"] \in Nat /\ runs["slave"] \in Nat /\ Revealed \in Int /\ Asked \in Int
BY DEF Shapes, Revealed, Asked, Ends

LEMMA NamedStays ==
    ASSUME NEW p, NEW end, NEW n \in Int, NEW m \in Int, n <= m, Named(p, end, n)
    PROVE  Named(p, end, m)
BY DEF Named

LEMMA SlaveIsStays ==
    ASSUME Grows, NEW p, NEW id, SlaveIs(p, id)
    PROVE  SlaveIs(p, id)'
<1>1. runs["slave"] \in Nat /\ runs'["slave"] \in Nat
  BY DEF Grows, Shapes, Ends
<1>2. Named(p, "slave", runs["slave"]) /\ (p = Point(slave.private) => id = slave.id)
  BY DEF SlaveIs
<1>3. Named(p, "slave", runs'["slave"])
  BY <1>1, <1>2, NamedStays DEF Grows, SlaveKept
<1>4. p = Point(slave'.private) => id = slave'.id
  <2>1. CASE runs'["slave"] = runs["slave"] + 1 /\ slave'.private.random = <<"slave", runs'["slave"]>>
    BY <2>1, <1>1, <1>2 DEF Named, Point
  <2> QED
    BY <2>1, <1>2 DEF Grows, SlaveKept
<1> QED
  BY <1>3, <1>4 DEF SlaveIs

LEMMA KeyOldStays ==
    ASSUME Grows, NEW key, KeyOld(key)
    PROVE  KeyOld(key)'
<1>1. /\ runs["slave"] \in Nat /\ runs'["slave"] \in Nat /\ Asked \in Int /\ Asked' \in Int
      /\ Asked <= Asked' /\ runs["slave"] <= runs'["slave"]
  <2>1. (runs["slave"] \in Nat /\ Asked \in Int) /\ (runs["slave"] \in Nat /\ Asked \in Int)'
    BY DEF Grows, Shapes, Ends, Asked
  <2> QED
    BY <2>1 DEF Grows, SlaveKept
<1>2. ASSUME NEW p \in key[1]
      PROVE  Named(p, "master", Asked') \/ Named(p, "slave", runs'["slave"])
  BY <1>1, NamedStays DEF KeyOld
<1> QED
  BY <1>2 DEF KeyOld

LEMMA RequestStays ==
    ASSUME Grows, NEW r, RequestTrue(r)
    PROVE  RequestTrue(r)'
<1>1. Offer(r) => Named(r.send.R_H, "master", Revealed')
  <2>1. Revealed \in Int /\ Revealed' \in Int /\ Revealed <= Revealed'
    BY DEF Grows, Shapes, Ends, Revealed
  <2> QED
    BY <2>1, NamedStays DEF RequestTrue
<1>2. Data(r) => KeyOld(r.send.key)'
  BY KeyOldStays DEF RequestTrue
<1> QED
  BY <1>1, <1>2 DEF RequestTrue, Grows

LEMMA AnswerStays ==
    ASSUME Grows, NEW r, AnswerTrue(r)
    PROVE  AnswerTrue(r)'
<1>1. Reply(r) => Named(r.send.S_M[1], "master", Revealed')
  <2>1. Revealed \in Int /\ Revealed' \in Int /\ Revealed <= Revealed'
    BY DEF Grows, Shapes, Ends, Revealed
  <2> QED
    BY <2>1, NamedStays DEF AnswerTrue
<1>2. Data(r) => KeyOld(r.send.key)'
  BY KeyOldStays DEF AnswerTrue
<1>3. Reply(r) => SlaveIs(r.send.R_M, r.send.SERVER_ID)'
  BY SlaveIsStays DEF AnswerTrue
<1> QED
  BY <1>1, <1>2, <1>3 DEF AnswerTrue

LEMMA RecordsStay ==
    ASSUME Grows, NEW t, RecordsTrue(t)
    PROVE  RecordsTrue(t)'
<1>1. ASSUME NEW i \in DOMAIN t["slave"] PROVE RequestTrue(t["slave"][i])'
  <2> DEFINE r == t["slave"][i]
  <2>1. RequestTrue(r)
    BY DEF RecordsTrue
  <2> HIDE DEF r
  <2>2. RequestTrue(r)'
    BY <2>1, RequestStays
  <2> QED
    BY <2>2 DEF r
<1>2. ASSUME NEW i \in DOMAIN t["master"] PROVE AnswerTrue(t["master"][i])'
  <2> DEFINE r == t["master"][i]
  <2>1. AnswerTrue(r)
    BY DEF RecordsTrue
  <2> HIDE DEF r
  <2>2. AnswerTrue(r)'
    BY <2>1, AnswerStays
  <2> QED
    BY <2>2 DEF r
<1> QED
  BY <1>1, <1>2 DEF RecordsTrue

LEMMA VerifiedStay ==
    ASSUME Grows, GhostsOk
    PROVE  \A m \in verified : SlaveIs(m.ctx.peer_point, m.ctx.server_id)'
<1> SUFFICES ASSUME NEW m \in verified
             PROVE  SlaveIs(m.ctx.peer_point, m.ctx.server_id)'
  OBVIOUS
<1>1. SlaveIs(m.ctx.peer_point, m.ctx.server_id)
  BY DEF GhostsOk
<1> QED
  BY <1>1, SlaveIsStays

LEMMA SessionsStay ==
    ASSUME Grows, GhostsOk
    PROVE  \A s \in sessions :
              /\ s.ctx.local_point.point.random = <<"slave", s.run>>
              /\ Named(s.ctx.peer_point, "master", runs'["master"])
              /\ s.ctx.keys.ck[1] = {s.ctx.local_point, s.ctx.peer_point}
              /\ \E m \in verified' : SameSession(m.ctx, s.ctx)
<1>1. runs["master"] \in Int /\ runs'["master"] \in Int /\ runs["master"] <= runs'["master"]
  BY DEF Grows, Shapes, Ends
<1>2. \A s \in sessions : Named(s.ctx.peer_point, "master", runs'["master"])
  BY <1>1, NamedStays DEF GhostsOk
<1> QED
  BY <1>2 DEF GhostsOk, Grows

LEMMA GhostsStay ==
    ASSUME Grows, GhostsOk, verified' = verified, sessions' = sessions
    PROVE  GhostsOk'
BY VerifiedStay, SessionsStay DEF GhostsOk

-----------------------------------------------------------------------------
(* The line after a step that sends nothing, and after one that sends *)

LEMMA QuietStep ==
    ASSUME Grows, LineOk(line), LineThinned(line', line),
           \/ master' = master
           \/ master'.pc \notin {"data_cnf", "final_cnf", "answer"}
    PROVE  LineOk(line)'
<1>1. PICK t : t = line'
  OBVIOUS
<1>2. LineOk(t)
  BY <1>1, ThinKeeps DEF Grows, Shapes
<1>3. RecordsTrue(t)'
  BY <1>2, RecordsStay DEF LineOk
<1>4. OfferLast(t)'
  BY <1>2 DEF LineOk, OfferLast
<1>5. ConfirmsThis(t)'
  BY <1>2 DEF LineOk, ConfirmsThis, Established, MasterContext, Grows
<1>6. AnswersThis(t)'
  BY <1>2 DEF LineOk, AnswersThis
<1> QED
  BY <1>1, <1>3, <1>4, <1>5, <1>6 DEF LineOk, RecordsTrue, OfferLast, ConfirmsThis, AnswersThis

LEMMA RequestSent ==
    ASSUME Grows, NEW t, IsLine(t), RecordsTrue(t), NEW r, RequestTrue(r)',
           line' = Sent(t, "slave", r)
    PROVE  RecordsTrue(line)'
<1>1. PICK l : l = Sent(t, "slave", r)
  OBVIOUS
<1>2. /\ \A i \in DOMAIN l["slave"] :
            (i \in DOMAIN t["slave"] /\ l["slave"][i] = t["slave"][i]) \/ l["slave"][i] = r
      /\ l["master"] = t["master"]
  BY <1>1, SentOnLine DEF Ends
<1>3. RecordsTrue(t)'
  BY RecordsStay
<1>4. RecordsTrue(l)'
  <2>1. ASSUME NEW i \in DOMAIN l["slave"] PROVE RequestTrue(l["slave"][i])'
    <3>1. CASE i \in DOMAIN t["slave"] /\ l["slave"][i] = t["slave"][i]
      BY <1>3, <3>1 DEF RecordsTrue
    <3>2. CASE l["slave"][i] = r
      BY <3>2
    <3> QED
      BY <1>2, <3>1, <3>2
  <2>2. ASSUME NEW i \in DOMAIN l["master"] PROVE AnswerTrue(l["master"][i])'
    BY <1>2, <1>3 DEF RecordsTrue
  <2> QED
    BY <2>1, <2>2 DEF RecordsTrue
<1> QED
  BY <1>1, <1>4 DEF RecordsTrue

LEMMA SlaveReplies ==
    ASSUME Grows, LineOk(line), master' = master, line["slave"] # <<>>,
           NEW t, t = Taken(line, "slave"), NEW r, line' = Sent(t, "master", r), AnswerTrue(r)',
           master.pc = "data_cnf" /\ Reply(r) /\ r.send.S_M[1] = Point(master.private)
               => t["slave"] = <<>>,
           master.pc = "final_cnf" /\ r.tag = "ss_sk_data_cnf" => Established(MasterContext)',
           master.pc = "answer" /\ Data(r) /\ r.send.key = master.ctx.keys.ck
               => r.send.pdu = handle_modbus_pdu(master.request)
    PROVE  LineOk(line)'
<1>1. PICK l : l = Sent(t, "master", r)
  OBVIOUS
<1>2. IsLine(t) /\ LineThinned(t, line) /\ t["master"] = line["master"]
  BY TakenThins DEF Grows, Shapes, LineThinned, Ends
<1>3. LineOk(t)
  BY <1>2, ThinKeeps DEF Grows, Shapes
<1>4. /\ \A i \in DOMAIN l["master"] :
            \/ i \in DOMAIN t["master"] /\ l["master"][i] = t["master"][i]
            \/ i = Len(l["master"]) /\ l["master"][i] = r
      /\ l["slave"] = t["slave"]
  BY <1>1, <1>2, SentOnLine DEF Ends
<1>5. RecordsTrue(l)'
  <2>1. RecordsTrue(t)'
    BY <1>3, RecordsStay DEF LineOk
  <2>2. ASSUME NEW i \in DOMAIN l["master"] PROVE AnswerTrue(l["master"][i])'
    <3>1. CASE i \in DOMAIN t["master"] /\ l["master"][i] = t["master"][i]
      BY <2>1, <3>1 DEF RecordsTrue
    <3>2. CASE l["master"][i] = r
      BY <3>2
    <3> QED
      BY <1>4, <3>1, <3>2
  <2>3. ASSUME NEW i \in DOMAIN l["slave"] PROVE RequestTrue(l["slave"][i])'
    BY <1>4, <2>1 DEF RecordsTrue
  <2> QED
    BY <2>2, <2>3 DEF RecordsTrue
<1>6. OfferLast(l)'
  <2>1. master.pc = "data_cnf" =>
           \A i \in DOMAIN t["master"] :
              ~(Reply(t["master"][i]) /\ t["master"][i].send.S_M[1] = Point(master.private))
    BY <1>2 DEF LineOk, OfferLast
  <2> QED
    BY <1>3, <1>4, <2>1 DEF LineOk, OfferLast
<1>7. ConfirmsThis(l)'
  BY <1>3, <1>4 DEF LineOk, ConfirmsThis, Established, MasterContext, Grows
<1>8. AnswersThis(l)'
  BY <1>3, <1>4 DEF LineOk, AnswersThis
<1> QED
  BY <1>1, <1>5, <1>6, <1>7, <1>8 DEF LineOk, RecordsTrue, OfferLast, ConfirmsThis, AnswersThis

-----------------------------------------------------------------------------
(* The steps of the master *)

LEMMA MasterStartsKeeps ==
    ASSUME Shapes, IInv, MasterStarts
    PROVE  Shapes' /\ IInv'
<1>1. PICK a \in Addresses, pw \in Passwords, id \in ClientIds, request \in Requests,
           port \in OpenedPort(line, "master") :
        /\ master' = [MasterOff EXCEPT
                        !.pc = "open_cnf", !.addr = a, !.id = id, !.request = request,
                        !.private = private_from_password(pw, <<"master", runs'["master"]>>)]
        /\ line' = Sent(port, "slave", Apdu(a, "ss_sk_open_req", NoItems))
  BY DEF MasterStarts
<1>2. /\ IsMaster(master') /\ master'.pc = "open_cnf" /\ master'.ctx = NoContext
      /\ master'.private = private_from_password(pw, <<"master", runs'["master"]>>)
  <2>1. PICK private : private = private_from_password(pw, <<"master", runs'["master"]>>)
    OBVIOUS
  <2>2. master' = MasterBegins(a, id, request, private)
    BY <1>1, <2>1 DEF MasterBegins
  <2> QED
    BY <2>1, <2>2, NewMaster
<1>3. /\ runs' \in [Ends -> Nat] /\ runs'["master"] = runs["master"] + 1
      /\ runs'["slave"] = runs["slave"] /\ runs["master"] \in Nat
  BY DEF MasterStarts, Shapes, Ends
<1>4. slave' = slave /\ verified' = verified /\ sessions' = sessions
      /\ master.pc \notin MasterWaits
  BY DEF MasterStarts
<1>5. LineThinned(port, line) /\ IsLine(port)
  BY OpenedThins DEF Shapes, Ends, LineThinned
<1>6. LineOk(port)
  BY <1>5, ThinKeeps DEF Shapes, IInv
<1> DEFINE r == Apdu(a, "ss_sk_open_req", NoItems)
<1>7. r.tag = "ss_sk_open_req"
  BY DEF Apdu
<1> HIDE DEF r
<1>8. Shapes'
  BY <1>1, <1>2, <1>3, <1>4, <1>5, SentOnLine DEF Shapes, Ends, r
<1>9. Grows
  <2>1. Revealed' = runs["master"] /\ Asked' = runs["master"]
    BY <1>2, <1>3 DEF Revealed, Asked
  <2>2. Revealed = runs["master"] /\ Asked = runs["master"]
    BY <1>4 DEF Revealed, Asked, MasterWaits
  <2> QED
    BY <1>3, <1>4, <1>8, <2>1, <2>2 DEF Grows, SlaveKept
<1>10. RequestTrue(r)'
  BY <1>7 DEF RequestTrue, Offer, Final, Data
<1>11. RecordsTrue(line)'
  BY <1>1, <1>5, <1>6, <1>9, <1>10, RequestSent DEF LineOk, r
<1>12. LineOk(line)'
  BY <1>2, <1>11 DEF LineOk, OfferLast, ConfirmsThis, AnswersThis
<1>13. RunsNamed'
  <2>1. Named(slave.peer.point, "master", Revealed)
            => Named(slave.peer.point, "master", Revealed')
    BY <1>3, <1>9, NamedStays, CountsAreInts DEF Grows, Revealed
  <2> QED
    BY <1>2, <1>3, <1>4, <2>1 DEF RunsNamed, IInv, private_from_password
<1>14. ReadOk'
  BY <1>2 DEF ReadOk
<1> QED
  BY <1>4, <1>8, <1>9, <1>12, <1>13, <1>14, GhostsStay DEF IInv

(* A point of the master's is new to everyone until the master sends it *)
LEMMA MasterOffersPointKeeps ==
    ASSUME Shapes, IInv, MasterOffersPoint
    PROVE  Shapes' /\ IInv'
<1>1. /\ master.pc = "open_cnf" /\ line["master"] # <<>>
      /\ line' = Sent(Taken(line, "master"), "slave",
                      Apdu(master.addr, "ss_sk_data_req", [R_H |-> Point(master.private)]))
      /\ UNCHANGED <<slave, runs, verified, sessions>>
  BY DEF MasterOffersPoint, OpenCnfOk, Gets, Replies
<1>2. /\ IsMaster(master') /\ master'.pc = "data_cnf"
      /\ master'.private = master.private /\ master'.ctx = master.ctx
  BY MasterPc DEF MasterOffersPoint, Shapes, MasterFields
<1>3. PICK t : t = Taken(line, "master")
  OBVIOUS
<1>4. LineThinned(t, line) /\ IsLine(t)
  BY <1>1, <1>3, TakenThins DEF Shapes, Ends, LineThinned
<1>5. LineOk(t)
  BY <1>4, ThinKeeps DEF Shapes, IInv
<1> DEFINE r == Apdu(master.addr, "ss_sk_data_req", [R_H |-> Point(master.private)])
<1>6. PICK rec : rec = r
  OBVIOUS
<1>7. rec.tag = "ss_sk_data_req" /\ DOMAIN rec.send = {"R_H"} /\ rec.send.R_H = Point(master.private)
  BY <1>6 DEF Apdu
<1> HIDE DEF r
<1>8. Shapes'
  BY <1>1, <1>2, <1>3, <1>4, SentOnLine DEF Shapes, Ends
<1>9. Grows
  <2>1. Revealed' = runs["master"] /\ Asked' = runs["master"] - 1
    BY <1>1, <1>2 DEF Revealed, Asked
  <2>2. Revealed = runs["master"] - 1 /\ Asked = runs["master"] - 1
    BY <1>1 DEF Revealed, Asked
  <2> QED
    BY <1>1, <1>8, <2>1, <2>2, CountsAreInts DEF Grows, SlaveKept
<1>10. master.private.random = <<"master", runs["master"]>>
  BY <1>1 DEF IInv, RunsNamed, MasterWaits
<1>11. runs["master"] \in Nat
  BY CountsAreInts
<1>12. ~Named(Point(master.private), "master", Revealed)
  BY <1>1, <1>10, <1>11 DEF Named, Point, Revealed
<1>14. LineOk(line)'
  <2>1. PICK l : l = Sent(t, "slave", rec)
    OBVIOUS
  <2>2. l = line'
    BY <1>1, <1>3, <1>6, <2>1 DEF r
  <2>3. /\ \A i \in DOMAIN l["slave"] :
              \/ i \in DOMAIN t["slave"] /\ l["slave"][i] = t["slave"][i]
              \/ i = Len(l["slave"]) /\ l["slave"][i] = rec
        /\ l["master"] = t["master"]
    BY <1>4, <2>1, SentOnLine DEF Ends
  <2>4. \A i \in DOMAIN t["slave"] :
           ~(Offer(t["slave"][i]) /\ t["slave"][i].send.R_H = Point(master.private))
    BY <1>5, <1>12 DEF LineOk, RecordsTrue, RequestTrue
  <2>5. \A i \in DOMAIN t["master"] :
           ~(Reply(t["master"][i]) /\ t["master"][i].send.S_M[1] = Point(master.private))
    BY <1>5, <1>12 DEF LineOk, RecordsTrue, AnswerTrue
  <2>6. OfferLast(l)'
    BY <1>2, <2>3, <2>4, <2>5 DEF OfferLast
  <2>7. Named(rec.send.R_H, "master", Revealed')
    <3>1. Revealed' = runs["master"] /\ runs["master"] > 0
      BY <1>1, <1>2 DEF Revealed, IInv, RunsNamed, MasterWaits
    <3> QED
      BY <1>7, <1>10, <1>11, <3>1 DEF Named, Point
  <2>8. RecordsTrue(line)'
    <3>1. RequestTrue(rec)'
      BY <1>7, <2>7 DEF RequestTrue, Offer, Final, Data
    <3> QED
      BY <1>4, <1>5, <1>9, <2>1, <2>2, <3>1, RequestSent DEF LineOk
  <2> QED
    BY <1>2, <2>2, <2>6, <2>8 DEF LineOk, OfferLast, ConfirmsThis, AnswersThis
<1>15. RunsNamed'
  <2>1. Named(slave.peer.point, "master", Revealed)
            => Named(slave.peer.point, "master", Revealed')
    BY <1>9, <1>11, NamedStays, CountsAreInts, <1>1, <1>2 DEF Grows, Revealed
  <2> QED
    BY <1>1, <1>2, <1>10, <2>1 DEF RunsNamed, IInv, MasterWaits
<1>16. ReadOk'
  BY <1>1, <1>2 DEF ReadOk, IInv, Established
<1> QED
  BY <1>1, <1>8, <1>9, <1>14, <1>15, <1>16, GhostsStay DEF IInv

(* The reply that verifies is the last record to the master, and there is   *)
(* none to the slave: what the master sends now is all that is under way    *)
LEMMA MasterVerifiesKeeps ==
    ASSUME Shapes, IInv, MasterVerifies
    PROVE  Shapes' /\ IInv'
<1> DEFINE reply == Record("master")
           send == reply.send
           rh == Point(master.private)
           dhsk == Shared(master.private, send.R_M)
           r_b == <<"r_B", runs["master"]>>
           ctx == SessionContext("master", master.private, send.R_M, send.SERVER_ID, master.id, r_b)
           final == Apdu(master.addr, "ss_sk_data_req",
                         [S_H |-> compute_master_auth(rh, send.R_M, dhsk, master.id),
                          R_B |-> r_b, CLIENT_ID |-> master.id])
<1>1. /\ master.pc = "data_cnf" /\ line["master"] # <<>> /\ Reply(reply)
      /\ send.S_M = compute_server_auth(rh, send.R_M, dhsk, send.SERVER_ID)
      /\ line' = Sent(Taken(line, "master"), "slave", final)
      /\ verified' = verified \cup {[run |-> runs["master"], ctx |-> ctx]}
      /\ UNCHANGED <<slave, runs, sessions>>
  BY DEF MasterVerifies, DataCnfOk, Gets, Replies, Has, Reply, Record
<1>2. /\ IsMaster(master') /\ master'.pc = "final_cnf"
      /\ master'.peer = [point |-> send.R_M, id |-> send.SERVER_ID, r_b |-> r_b]
      /\ master'.private = master.private /\ master'.ctx = master.ctx /\ master'.id = master.id
  <2>1. PICK peer : peer = [point |-> send.R_M, id |-> send.SERVER_ID, r_b |-> r_b]
    OBVIOUS
  <2>2. master' = SetMasterPeer(master, "final_cnf", peer)
    BY <2>1 DEF MasterVerifies, SetMasterPeer
  <2>3. /\ IsMaster(master') /\ master'.pc = "final_cnf" /\ master'.peer = peer
        /\ \A x \in MasterFields \ {"pc", "peer"} : master'[x] = master[x]
    BY <2>2, MasterPcPeer DEF Shapes
  <2> QED
    BY <2>1, <2>3 DEF MasterFields
<1>3. PICK t : t = Taken(line, "master")
  OBVIOUS
<1>4. LineThinned(t, line) /\ IsLine(t) /\ (Len(line["master"]) = 1 => t["master"] = <<>>)
      /\ t["slave"] = line["slave"]
  BY <1>1, <1>3, TakenThins DEF Shapes, Ends, LineThinned
<1>5. LineOk(t)
  BY <1>4, ThinKeeps DEF Shapes, IInv
<1>6. 1 \in DOMAIN line["master"] /\ line["master"][1] = reply
  BY <1>1, QueueFacts DEF Shapes, IsLine, Ends, Record
<1>7. SlaveIs(send.R_M, send.SERVER_ID)
  BY <1>1, <1>6 DEF IInv, LineOk, RecordsTrue, AnswerTrue
<1>8. send.S_M[1] = rh
  BY <1>1 DEF compute_server_auth
<1>9. line["slave"] = <<>> /\ Len(line["master"]) = 1
  BY <1>1, <1>6, <1>8 DEF IInv, LineOk, OfferLast
<1>10. t["slave"] = <<>> /\ t["master"] = <<>>
  BY <1>4, <1>9
<1>11. PICK rec : rec = final
  OBVIOUS
<1>12. /\ rec.tag = "ss_sk_data_req" /\ DOMAIN rec.send = {"S_H", "R_B", "CLIENT_ID"}
       /\ rec.send.S_H[1] = send.R_M /\ rec.send.S_H[2] = rh
       /\ rec.send.R_B = r_b /\ rec.send.CLIENT_ID = master.id
  BY <1>11 DEF Apdu, compute_master_auth
<1>13. PICK c : c = ctx
  OBVIOUS
<1>14. /\ c.peer_point = send.R_M /\ c.local_point = rh /\ c.server_id = send.SERVER_ID
       /\ c.client_id = master.id
       /\ c.keys = derive_content_keys({c.local_point, c.peer_point}, c.server_id,
                                       c.client_id, r_b)
  BY <1>13 DEF SessionContext, Shared
<1>15. FinalOf(rec.send, c)
  BY <1>12, <1>14 DEF FinalOf
<1>16. MasterContext' = c
  BY <1>2, <1>13 DEF MasterContext
<1> HIDE DEF final, ctx, rh, dhsk, r_b
<1>17. Shapes'
  BY <1>1, <1>2, <1>3, <1>4, SentOnLine DEF Shapes, Ends
<1>18. Grows
  <2>1. /\ Revealed' = Revealed /\ Asked' = Asked /\ Revealed \in Int /\ Asked \in Int
        /\ runs["master"] \in Nat
    BY <1>1, <1>2, CountsAreInts DEF Revealed, Asked
  <2> QED
    BY <1>1, <1>17, <2>1 DEF Grows, SlaveKept
<1>19. \E m \in verified' : m.ctx = c
  <2>1. PICK m : m = [run |-> runs["master"], ctx |-> c]
    OBVIOUS
  <2>2. m \in verified' /\ m.ctx = c
    BY <1>1, <1>13, <2>1
  <2> QED
    BY <2>2
<1>20. SlaveIs(c.peer_point, c.server_id)'
  BY <1>7, <1>14, <1>1 DEF SlaveIs
<1>21. GhostsOk'
  <2>1. \A m \in verified' : SlaveIs(m.ctx.peer_point, m.ctx.server_id)'
    <3> SUFFICES ASSUME NEW m \in verified'
                 PROVE  SlaveIs(m.ctx.peer_point, m.ctx.server_id)'
      OBVIOUS
    <3>1. CASE m \in verified
      BY <3>1, <1>18, VerifiedStay DEF IInv
    <3>2. CASE m.ctx = c
      BY <3>2, <1>20
    <3> QED
      BY <1>1, <1>13, <3>1, <3>2
  <2>2. \A s \in sessions' : s \in sessions
    BY <1>1
  <2>3. \A s \in sessions' :
           /\ s.ctx.local_point.point.random = <<"slave", s.run>>
           /\ Named(s.ctx.peer_point, "master", runs'["master"])
           /\ s.ctx.keys.ck[1] = {s.ctx.local_point, s.ctx.peer_point}
           /\ \E m \in verified' : SameSession(m.ctx, s.ctx)
    BY <2>2, <1>18, SessionsStay DEF IInv
  <2> QED
    BY <2>1, <2>3 DEF GhostsOk
<1>22. LineOk(line)'
  <2>1. PICK l : l = Sent(t, "slave", rec)
    OBVIOUS
  <2>2. l = line'
    BY <1>1, <1>3, <1>11, <2>1 DEF final, rh, dhsk, r_b
  <2>3. /\ \A i \in DOMAIN l["slave"] : l["slave"][i] = rec
        /\ l["master"] = <<>>
    <3>1. DOMAIN t["slave"] = {}
      BY <1>10, EmptySeq
    <3> QED
      BY <1>4, <1>10, <2>1, <3>1, SentOnLine DEF Ends
  <2>4. ConfirmsThis(l)'
    <3>1. DOMAIN l["master"] = {}
      BY <2>3, EmptySeq
    <3>2. ~Offer(rec)
      BY <1>12 DEF Offer
    <3> QED
      BY <1>15, <1>16, <1>19, <2>3, <3>1, <3>2 DEF ConfirmsThis
  <2>5. RequestTrue(rec)'
    BY <1>12, <1>15, <1>19 DEF RequestTrue, Offer, Final, Data
  <2>6. RecordsTrue(line)'
    BY <1>4, <1>5, <1>18, <2>1, <2>2, <2>5, RequestSent DEF LineOk
  <2> QED
    BY <1>2, <2>2, <2>4, <2>6 DEF LineOk, OfferLast, ConfirmsThis, AnswersThis
<1>23. RunsNamed'
  <2>1. Revealed' = Revealed
    BY <1>1, <1>2 DEF Revealed
  <2> QED
    BY <1>1, <1>2, <2>1 DEF RunsNamed, IInv, MasterWaits
<1>24. ReadOk'
  BY <1>1, <1>2 DEF ReadOk, IInv, Established
<1> QED
  BY <1>17, <1>21, <1>22, <1>23, <1>24 DEF IInv

(* Counting a record leaves the rest of a context alone *)
LEMMA SameAfterSend ==
    ASSUME NEW role, NEW private, NEW peer, NEW server_id, NEW client_id, NEW r_b, NEW ctx,
           ctx = SessionContext(role, private, peer, server_id, client_id, r_b)
    PROVE  /\ AfterSend(ctx).keys = ctx.keys
           /\ AfterSend(ctx).server_id = ctx.server_id /\ AfterSend(ctx).client_id = ctx.client_id
           /\ AfterSend(ctx).local_point = ctx.local_point
           /\ AfterSend(ctx).peer_point = ctx.peer_point
BY DEF SessionContext, AfterSend

(* The confirmation is that of this handshake, and no record yet is        *)
(* encrypted under its key                                                 *)
LEMMA MasterAsksKeeps ==
    ASSUME Shapes, IInv, MasterAsks
    PROVE  Shapes' /\ IInv'
<1> DEFINE ctx == MasterContext
           request == build_encrypted_data_send(master.addr, ctx, master.request)
<1>1. /\ master.pc = "final_cnf" /\ line["master"] # <<>>
      /\ Head(line["master"]).tag = "ss_sk_data_cnf"
      /\ line' = Sent(Taken(line, "master"), "slave", request)
      /\ master' = SetMasterCtx(master, "answer", AfterSend(ctx))
      /\ UNCHANGED <<slave, runs, verified, sessions>>
  BY DEF MasterAsks, FinalCnfOk, Gets, Replies, SetMasterCtx, MasterContext
<1>2. /\ IsMaster(master') /\ master'.pc = "answer" /\ master'.ctx = AfterSend(ctx)
      /\ master'.request = master.request /\ master'.private = master.private
  BY <1>1, MasterPcCtx DEF Shapes, MasterFields
<1>3. PICK t : t = Taken(line, "master")
  OBVIOUS
<1>4. LineThinned(t, line) /\ IsLine(t)
  BY <1>1, <1>3, TakenThins DEF Shapes, Ends, LineThinned
<1>5. LineOk(t)
  BY <1>4, ThinKeeps DEF Shapes, IInv
<1>6. 1 \in DOMAIN line["master"] /\ line["master"][1].tag = "ss_sk_data_cnf"
  BY <1>1, QueueFacts DEF Shapes, IsLine, Ends
<1>7. Established(ctx)
  BY <1>1, <1>6 DEF IInv, LineOk, ConfirmsThis
<1>8. /\ ctx.keys.ck = <<{Point(master.private), master.peer.point}, master.peer.id>>
      /\ ctx.peer_point = master.peer.point /\ ctx.server_id = master.peer.id
  BY DEF MasterContext, SessionContext, derive_content_keys, Shared
<1>9. Named(master.peer.point, "slave", runs["slave"])
  <2>1. PICK m \in verified : m.ctx = ctx
    BY <1>1 DEF IInv, LineOk, ConfirmsThis
  <2> QED
    BY <1>8, <2>1 DEF IInv, GhostsOk, SlaveIs
<1>10. PICK rec : rec = request
  OBVIOUS
<1>11. /\ Data(rec) /\ ~Offer(rec) /\ ~Final(rec)
       /\ rec.send.key = ctx.keys.ck /\ rec.send.pdu = master.request
  BY <1>10 DEF build_encrypted_data_send, Apdu, Data, Offer, Final
<1>12. /\ AfterSend(ctx).keys = ctx.keys
       /\ AfterSend(ctx).server_id = ctx.server_id /\ AfterSend(ctx).client_id = ctx.client_id
       /\ AfterSend(ctx).local_point = ctx.local_point
       /\ AfterSend(ctx).peer_point = ctx.peer_point
  BY SameAfterSend DEF MasterContext
<1>13. PICK ck : ck = ctx.keys.ck
  OBVIOUS
<1>14. /\ rec.send.key = ck /\ master'.ctx.keys.ck = ck
       /\ ck[1] = {Point(master.private), master.peer.point}
  BY <1>2, <1>8, <1>11, <1>12, <1>13
<1>15. Established(master'.ctx)
  BY <1>2, <1>7, <1>12 DEF Established, SameSession
<1> HIDE DEF ctx, request
<1>16. Shapes'
  BY <1>1, <1>2, <1>3, <1>4, SentOnLine DEF Shapes, Ends
<1>17. /\ runs["master"] \in Nat /\ runs["master"] > 0
       /\ master.private.random = <<"master", runs["master"]>>
  BY <1>1, CountsAreInts DEF IInv, RunsNamed, MasterWaits
<1>18. Asked' = runs["master"] /\ Asked = runs["master"] - 1
  BY <1>1, <1>2 DEF Asked
<1>19. Grows
  <2>1. Revealed' = Revealed /\ Revealed \in Int
    BY <1>1, <1>2, CountsAreInts DEF Revealed
  <2> QED
    BY <1>1, <1>16, <1>17, <1>18, <2>1 DEF Grows, SlaveKept
<1>20. ASSUME NEW key, KeyOld(key), key = ck PROVE FALSE
  <2>1. /\ ~Named(Point(master.private), "master", Asked)
        /\ ~Named(Point(master.private), "slave", runs["slave"])
    BY <1>17, <1>18 DEF Named, Point
  <2> QED
    BY <1>14, <1>20, <2>1 DEF KeyOld
<1>21. KeyOld(ck)'
  BY <1>1, <1>9, <1>14, <1>17, <1>18 DEF KeyOld, Named, Point
<1>22. LineOk(line)'
  <2>1. PICK l : l = Sent(t, "slave", rec)
    OBVIOUS
  <2>2. l = line'
    BY <1>1, <1>3, <1>10, <2>1
  <2>3. /\ \A i \in DOMAIN l["slave"] :
              \/ i \in DOMAIN t["slave"] /\ l["slave"][i] = t["slave"][i]
              \/ l["slave"][i] = rec
        /\ l["master"] = t["master"]
    BY <1>4, <2>1, SentOnLine DEF Ends
  <2>4. RequestTrue(rec)'
    BY <1>11, <1>14, <1>21 DEF RequestTrue
  <2>5. RecordsTrue(line)'
    BY <1>4, <1>5, <1>19, <2>1, <2>2, <2>4, RequestSent DEF LineOk
  <2>6. /\ \A i \in DOMAIN t["slave"] : Data(t["slave"][i]) => t["slave"][i].send.key # ck
        /\ \A i \in DOMAIN t["master"] : Data(t["master"][i]) => t["master"][i].send.key # ck
    BY <1>5, <1>20 DEF LineOk, RecordsTrue, RequestTrue, AnswerTrue
  <2>7. AnswersThis(l)'
    BY <1>2, <1>11, <1>14, <2>3, <2>6 DEF AnswersThis
  <2> QED
    BY <1>2, <2>2, <2>5, <2>7 DEF LineOk, OfferLast, ConfirmsThis, AnswersThis
<1>23. RunsNamed'
  <2>1. Revealed' = Revealed
    BY <1>1, <1>2 DEF Revealed
  <2> QED
    BY <1>1, <1>2, <2>1 DEF RunsNamed, IInv, MasterWaits
<1>24. ReadOk'
  BY <1>1, <1>2, <1>15 DEF ReadOk, Established
<1> QED
  BY <1>1, <1>16, <1>19, <1>22, <1>23, <1>24, GhostsStay DEF IInv

LEMMA MasterReadsKeeps ==
    ASSUME Shapes, IInv, MasterReads
    PROVE  Shapes' /\ IInv'
<1> DEFINE r == Record("master")
<1>1. /\ master.pc = "answer" /\ line["master"] # <<>> /\ Data(r)
      /\ r.send.key = master.ctx.keys.ck /\ r.send.pdu[1] = "registers"
      /\ line' = Taken(line, "master")
      /\ master' = SetMasterResult(master, "done", r.send.pdu, AfterRecv(master.ctx))
      /\ UNCHANGED <<slave, runs, verified, sessions>>
  BY DEF MasterReads, AnswerOk, Gets, Decrypts, parse_register_response, Data, Record,
         SetMasterResult
<1>2. /\ IsMaster(master') /\ master'.pc = "done" /\ master'.result = r.send.pdu
      /\ master'.ctx = AfterRecv(master.ctx) /\ master'.request = master.request
  BY <1>1, MasterPcResultCtx DEF Shapes, MasterFields
<1>3. LineThinned(line', line) /\ IsLine(line')
  BY <1>1, TakenThins DEF Shapes, Ends, LineThinned
<1>4. 1 \in DOMAIN line["master"] /\ line["master"][1] = r
  BY <1>1, QueueFacts DEF Shapes, IsLine, Ends, Record
<1>5. r.send.pdu = handle_modbus_pdu(master.request)
  BY <1>1, <1>4 DEF IInv, LineOk, AnswersThis
<1>6. master.request \in Served /\ r.send.pdu = <<"registers", master.request>>
  BY <1>1, <1>5 DEF handle_modbus_pdu
<1> HIDE DEF r
<1>7. Shapes'
  BY <1>1, <1>2, <1>3 DEF Shapes
<1>8. Grows
  <2>1. Revealed' = Revealed /\ Asked' = Asked
    BY <1>1, <1>2 DEF Revealed, Asked
  <2> QED
    BY <1>1, <1>7, <2>1, CountsAreInts DEF Grows, SlaveKept
<1>9. LineOk(line)'
  BY <1>2, <1>3, <1>8, QuietStep DEF IInv
<1>10. RunsNamed'
  <2>1. Revealed' = Revealed
    BY <1>1, <1>2 DEF Revealed
  <2> QED
    BY <1>1, <1>2, <2>1 DEF RunsNamed, IInv, MasterWaits
<1>11. ReadOk'
  <2>1. Established(master.ctx)
    BY <1>1 DEF IInv, ReadOk
  <2>2. /\ AfterRecv(master.ctx).keys = master.ctx.keys
        /\ AfterRecv(master.ctx).server_id = master.ctx.server_id
        /\ AfterRecv(master.ctx).client_id = master.ctx.client_id
        /\ AfterRecv(master.ctx).local_point = master.ctx.local_point
        /\ AfterRecv(master.ctx).peer_point = master.ctx.peer_point
    BY DEF AfterRecv
  <2> QED
    BY <1>1, <1>2, <1>6, <2>1, <2>2 DEF ReadOk, Established, SameSession
<1> QED
  BY <1>1, <1>7, <1>8, <1>9, <1>10, <1>11, GhostsStay DEF IInv

(* A master that ends leaves only records behind *)
LEMMA MasterEnds ==
    ASSUME Shapes, IInv, master.pc \in MasterWaits, master' = [master EXCEPT !.pc = "failed"],
           LineThinned(line', line), UNCHANGED <<slave, runs, verified, sessions>>
    PROVE  Shapes' /\ IInv'
<1>1. /\ IsMaster(master') /\ master'.pc = "failed" /\ master'.ctx = master.ctx
  BY MasterPc DEF Shapes, MasterFields
<1>2. Shapes'
  BY <1>1 DEF Shapes, LineThinned
<1>3. Revealed' >= Revealed /\ Asked' >= Asked /\ Revealed \in Int /\ Revealed' \in Int
  <2>1. Revealed' = runs["master"] /\ Asked' = runs["master"] /\ runs["master"] \in Nat
    BY <1>1, CountsAreInts DEF Revealed, Asked
  <2> QED
    BY <2>1 DEF Revealed, Asked
<1>4. Grows
  BY <1>2, <1>3, CountsAreInts DEF Grows, SlaveKept
<1>5. LineOk(line)'
  BY <1>1, <1>4, QuietStep DEF IInv
<1>6. RunsNamed'
  BY <1>1, <1>3, NamedStays DEF RunsNamed, IInv, MasterWaits
<1>7. ReadOk'
  <2>1. ~(master'.pc \in {"answer", "done"}) /\ ~(master.pc = "done")
    BY <1>1 DEF MasterWaits
  <2> QED
    BY <1>1, <2>1 DEF ReadOk, IInv, Established
<1> QED
  BY <1>2, <1>4, <1>5, <1>6, <1>7, GhostsStay DEF IInv

LEMMA LineLeft ==
    ASSUME Shapes, UNCHANGED line
    PROVE  LineThinned(line', line)
BY SameQueue DEF LineThinned, Shapes, IsLine

LEMMA MasterRejectsKeeps ==
    ASSUME Shapes, IInv, MasterRejects
    PROVE  Shapes' /\ IInv'
<1>1. LineThinned(line', line)
  BY TakenThins DEF MasterRejects, Shapes, Ends
<1> QED
  BY <1>1, MasterEnds DEF MasterRejects

LEMMA MasterGivesUpKeeps ==
    ASSUME Shapes, IInv, MasterGivesUp
    PROVE  Shapes' /\ IInv'
BY LineLeft, MasterEnds DEF MasterGivesUp

-----------------------------------------------------------------------------
(* The steps of the slave *)

(* What a slave step does not touch *)
LEMMA MasterLeft ==
    ASSUME Shapes, Shapes', SlaveKept, UNCHANGED master, runs'["master"] = runs["master"],
           verified \subseteq verified', sessions \subseteq sessions'
    PROVE  Grows /\ Revealed' = Revealed /\ Asked' = Asked
<1>1. Revealed' = Revealed /\ Asked' = Asked
  BY DEF Revealed, Asked
<1> QED
  BY <1>1, CountsAreInts DEF Grows

LEMMA ReadStays ==
    ASSUME ReadOk, UNCHANGED master, sessions \subseteq sessions'
    PROVE  ReadOk'
BY DEF ReadOk, Established

LEMMA SlaveStartsKeeps ==
    ASSUME Shapes, IInv, SlaveStarts
    PROVE  Shapes' /\ IInv'
<1>1. PICK a \in Addresses, pw \in Passwords, id \in ServerIds,
           port \in OpenedPort(line, "slave") :
        /\ slave' = [SlaveOff EXCEPT
                       !.pc = "open_req", !.addr = a, !.id = id,
                       !.private = private_from_password(pw, <<"slave", runs'["slave"]>>)]
        /\ line' = port
  BY DEF SlaveStarts
<1>2. /\ IsSlave(slave') /\ slave'.pc = "open_req"
      /\ slave'.private = private_from_password(pw, <<"slave", runs'["slave"]>>)
  <2>1. PICK private : private = private_from_password(pw, <<"slave", runs'["slave"]>>)
    OBVIOUS
  <2>2. slave' = SlaveBegins(a, id, private)
    BY <1>1, <2>1 DEF SlaveBegins
  <2> QED
    BY <2>1, <2>2, NewSlave
<1>3. /\ runs' \in [Ends -> Nat] /\ runs'["slave"] = runs["slave"] + 1
      /\ runs'["master"] = runs["master"] /\ runs["slave"] \in Nat
  BY DEF SlaveStarts, Shapes, Ends
<1>4. UNCHANGED <<master, verified, sessions>>
  BY DEF SlaveStarts
<1>5. LineThinned(line', line) /\ IsLine(line')
  BY <1>1, OpenedThins DEF Shapes, Ends, LineThinned
<1>6. Shapes'
  BY <1>2, <1>3, <1>4, <1>5 DEF Shapes
<1>7. SlaveKept
  BY <1>2, <1>3 DEF SlaveKept, private_from_password
<1>8. Grows
  BY <1>3, <1>4, <1>6, <1>7, MasterLeft
<1>9. LineOk(line)'
  BY <1>4, <1>5, <1>8, QuietStep DEF IInv
<1>10. RunsNamed'
  BY <1>2, <1>3, <1>4 DEF RunsNamed, IInv, private_from_password
<1> QED
  BY <1>4, <1>6, <1>8, <1>9, <1>10, GhostsStay, ReadStays DEF IInv

(* A slave that ends, or a program that is killed *)
LEMMA SlaveEnds ==
    ASSUME Shapes, IInv, slave.pc \in SlaveWaits,
           NEW v \in {"exited", "died"}, slave' = [slave EXCEPT !.pc = v],
           LineThinned(line', line), UNCHANGED <<master, runs, verified, sessions>>
    PROVE  Shapes' /\ IInv'
<1>1. /\ IsSlave(slave') /\ slave'.pc = v
      /\ slave'.private = slave.private /\ slave'.id = slave.id
  BY SlavePc DEF Shapes, SlaveFields
<1>2. Shapes'
  BY <1>1 DEF Shapes, LineThinned
<1>3. Grows
  BY <1>1, <1>2, MasterLeft DEF SlaveKept
<1>4. LineOk(line)'
  BY <1>3, QuietStep DEF IInv
<1>5. RunsNamed'
  BY <1>1 DEF RunsNamed, IInv, SlaveWaits
<1> QED
  BY <1>2, <1>3, <1>4, <1>5, GhostsStay, ReadStays DEF IInv

LEMMA SlaveRejectsKeeps ==
    ASSUME Shapes, IInv, SlaveRejects
    PROVE  Shapes' /\ IInv'
<1>1. LineThinned(line', line)
  BY TakenThins DEF SlaveRejects, Shapes, Ends
<1>2. PICK v \in {"exited", "died"} : slave' = [slave EXCEPT !.pc = v]
  BY DEF SlaveRejects
<1> QED
  BY <1>1, <1>2, SlaveEnds DEF SlaveRejects

LEMMA SlaveGivesUpKeeps ==
    ASSUME Shapes, IInv, SlaveGivesUp
    PROVE  Shapes' /\ IInv'
<1>1. slave' = [slave EXCEPT !.pc = "exited"] /\ "exited" \in {"exited", "died"}
  BY DEF SlaveGivesUp
<1> QED
  BY <1>1, LineLeft, SlaveEnds DEF SlaveGivesUp

LEMMA SlaveOpensKeeps ==
    ASSUME Shapes, IInv, SlaveOpens
    PROVE  Shapes' /\ IInv'
<1> DEFINE reply == Apdu(slave.addr, "ss_sk_open_cnf", NoItems)
<1>1. /\ slave.pc = "open_req" /\ line["slave"] # <<>>
      /\ line' = Sent(Taken(line, "slave"), "master", reply)
      /\ UNCHANGED <<master, runs, verified, sessions>>
  BY DEF SlaveOpens, OpenReqOk, Gets, Replies
<1>2. /\ IsSlave(slave') /\ slave'.pc = "first_req"
      /\ slave'.private = slave.private /\ slave'.id = slave.id
  BY SlavePc DEF SlaveOpens, Shapes, SlaveFields
<1>3. PICK t : t = Taken(line, "slave")
  OBVIOUS
<1>4. IsLine(t)
  BY <1>1, <1>3, TakenThins DEF Shapes, Ends, LineThinned
<1>5. PICK rec : rec = reply
  OBVIOUS
<1>6. rec.tag = "ss_sk_open_cnf"
  BY <1>5 DEF Apdu
<1>7. line' = Sent(t, "master", rec)
  BY <1>1, <1>3, <1>5
<1> HIDE DEF reply
<1>8. Shapes'
  BY <1>1, <1>2, <1>4, <1>7, SentOnLine DEF Shapes, Ends
<1>9. Grows
  BY <1>1, <1>2, <1>8, MasterLeft DEF SlaveKept
<1>10. AnswerTrue(rec)'
  BY <1>6 DEF AnswerTrue, Reply, Data
<1>11. LineOk(line)'
  BY <1>1, <1>3, <1>6, <1>7, <1>9, <1>10, SlaveReplies DEF IInv, Reply, Data
<1>12. RunsNamed'
  BY <1>1, <1>2 DEF RunsNamed, IInv, SlaveWaits
<1> QED
  BY <1>1, <1>8, <1>9, <1>11, <1>12, GhostsStay, ReadStays DEF IInv

(* A reply to the offer of the master under way answers the last record to *)
(* the slave                                                               *)
LEMMA SlaveAnswersPointKeeps ==
    ASSUME Shapes, IInv, SlaveAnswersPoint
    PROVE  Shapes' /\ IInv'
<1> DEFINE offer == Record("slave")
           rh == offer.send.R_H
           rm == Point(slave.private)
           reply == Apdu(slave.addr, "ss_sk_data_cnf",
                         [R_M |-> rm, SERVER_ID |-> slave.id,
                          S_M |-> compute_server_auth(rh, rm, Shared(slave.private, rh), slave.id)])
<1>1. /\ slave.pc = "first_req" /\ line["slave"] # <<>> /\ Offer(offer)
      /\ line' = Sent(Taken(line, "slave"), "master", reply)
      /\ UNCHANGED <<master, runs, verified, sessions>>
  BY DEF SlaveAnswersPoint, FirstReqOk, Gets, Replies, Has, Offer, Record
<1>2. /\ IsSlave(slave') /\ slave'.pc = "final_req" /\ slave'.peer.point = rh
      /\ slave'.private = slave.private /\ slave'.id = slave.id
  <2>1. PICK peer : peer = [point |-> rh]
    OBVIOUS
  <2>2. slave' = SetSlavePeer(slave, "final_req", peer)
    BY <2>1 DEF SlaveAnswersPoint, SetSlavePeer
  <2>3. /\ IsSlave(slave') /\ slave'.pc = "final_req" /\ slave'.peer = peer
        /\ slave'.private = slave.private /\ slave'.id = slave.id
    BY <2>2, SlavePcPeer DEF Shapes, SlaveFields
  <2> QED
    BY <2>1, <2>3
<1>3. PICK t : t = Taken(line, "slave")
  OBVIOUS
<1>4. IsLine(t) /\ (Len(line["slave"]) = 1 => t["slave"] = <<>>)
  BY <1>1, <1>3, TakenThins DEF Shapes, Ends, LineThinned
<1>5. PICK rec : rec = reply
  OBVIOUS
<1>6. /\ rec.tag = "ss_sk_data_cnf" /\ rec.send.R_M = rm /\ rec.send.SERVER_ID = slave.id
      /\ rec.send.S_M[1] = rh
  BY <1>5 DEF Apdu, compute_server_auth
<1>7. line' = Sent(t, "master", rec)
  BY <1>1, <1>3, <1>5
<1>8. 1 \in DOMAIN line["slave"] /\ line["slave"][1] = offer
  BY <1>1, QueueFacts DEF Shapes, IsLine, Ends, Record
<1>9. Named(rh, "master", Revealed)
  BY <1>1, <1>8 DEF IInv, LineOk, RecordsTrue, RequestTrue
<1>10. master.pc # "final_cnf"
  BY <1>1, <1>8 DEF IInv, LineOk, ConfirmsThis
<1>11. master.pc = "data_cnf" /\ rh = Point(master.private) => t["slave"] = <<>>
  BY <1>1, <1>4, <1>8 DEF IInv, LineOk, OfferLast
<1> HIDE DEF reply, rh, rm, offer
<1>12. Shapes'
  BY <1>1, <1>2, <1>4, <1>7, SentOnLine DEF Shapes, Ends
<1>13. Grows /\ Revealed' = Revealed
  BY <1>1, <1>2, <1>12, MasterLeft DEF SlaveKept
<1>14. SlaveIs(rm, slave.id)
  BY <1>1, CountsAreInts DEF SlaveIs, Named, Point, IInv, RunsNamed, SlaveWaits, rm
<1>15. AnswerTrue(rec)'
  <2>1. SlaveIs(rec.send.R_M, rec.send.SERVER_ID)'
    BY <1>6, <1>13, <1>14, SlaveIsStays
  <2> QED
    BY <1>6, <1>9, <1>13, <2>1 DEF AnswerTrue, Data
<1>16. LineOk(line)'
  BY <1>1, <1>3, <1>6, <1>7, <1>10, <1>11, <1>13, <1>15, SlaveReplies DEF IInv, Data
<1>17. RunsNamed'
  BY <1>1, <1>2, <1>9, <1>13 DEF RunsNamed, IInv, SlaveWaits
<1> QED
  BY <1>1, <1>12, <1>13, <1>16, <1>17, GhostsStay, ReadStays DEF IInv

(* The slave's own identity goes with its point: the master that answered   *)
(* for this point has verified the very session the slave establishes      *)
LEMMA SlaveMatches ==
    ASSUME NEW send, NEW m, FinalOf(send, m), SlaveIs(m.peer_point, m.server_id),
           NEW rh, rh = slave.peer.point,
           send.S_H = compute_master_auth(rh, Point(slave.private), Shared(slave.private, rh),
                                          send.CLIENT_ID),
           NEW s, s = SlaveContext(send)
    PROVE  /\ SameSession(m, s)
           /\ s.local_point = Point(slave.private) /\ s.peer_point = rh
           /\ s.keys.ck[1] = {s.local_point, s.peer_point}
<1>1. /\ s.local_point = Point(slave.private) /\ s.peer_point = rh
      /\ s.server_id = slave.id /\ s.client_id = send.CLIENT_ID
      /\ s.keys = derive_content_keys({Point(slave.private), rh}, slave.id, send.CLIENT_ID,
                                      send.R_B)
  BY DEF SlaveContext, SessionContext, Shared
<1>2. m.peer_point = Point(slave.private) /\ m.local_point = rh
  BY DEF FinalOf, compute_master_auth
<1>3. m.server_id = slave.id /\ m.client_id = send.CLIENT_ID
  BY <1>2 DEF SlaveIs, FinalOf
<1>4. {m.local_point, m.peer_point} = {Point(slave.private), rh}
  BY <1>2
<1>5. m.keys = s.keys
  BY <1>1, <1>3, <1>4 DEF FinalOf
<1>6. s.keys.ck[1] = {s.local_point, s.peer_point}
  BY <1>1 DEF derive_content_keys
<1> QED
  BY <1>1, <1>2, <1>3, <1>5, <1>6 DEF SameSession

LEMMA SlaveEstablishesKeeps ==
    ASSUME Shapes, IInv, SlaveEstablishes
    PROVE  Shapes' /\ IInv'
<1> DEFINE send == Record("slave").send
           rh == slave.peer.point
           reply == Apdu(slave.addr, "ss_sk_data_cnf", [STATUS |-> "OK"])
<1>1. PICK ctx : ctx = SlaveContext(send)
  OBVIOUS
<1>2. /\ slave.pc = "final_req" /\ line["slave"] # <<>> /\ Final(Record("slave"))
      /\ send.S_H = compute_master_auth(rh, Point(slave.private), Shared(slave.private, rh),
                                        send.CLIENT_ID)
      /\ line' = Sent(Taken(line, "slave"), "master", reply)
      /\ slave' = SetSlaveCtx(slave, "serving", ctx)
      /\ sessions' = sessions \cup {[run |-> runs["slave"], ctx |-> ctx]}
      /\ UNCHANGED <<master, runs, verified>>
  BY <1>1 DEF SlaveEstablishes, FinalReqOk, Gets, Replies, Has, Final, Record, SetSlaveCtx
<1>3. /\ IsSlave(slave') /\ slave'.pc = "serving"
      /\ slave'.private = slave.private /\ slave'.id = slave.id
  BY <1>2, SlavePcCtx DEF Shapes, SlaveFields
<1>4. PICK t : t = Taken(line, "slave")
  OBVIOUS
<1>5. IsLine(t)
  BY <1>2, <1>4, TakenThins DEF Shapes, Ends, LineThinned
<1>6. PICK rec : rec = reply
  OBVIOUS
<1>7. rec.tag = "ss_sk_data_cnf" /\ DOMAIN rec.send = {"STATUS"}
  BY <1>6 DEF Apdu
<1>8. line' = Sent(t, "master", rec)
  BY <1>2, <1>4, <1>6
<1>9. 1 \in DOMAIN line["slave"] /\ line["slave"][1] = Record("slave")
  BY <1>2, QueueFacts DEF Shapes, IsLine, Ends, Record
<1>10. PICK m \in verified : FinalOf(send, m.ctx)
  BY <1>2, <1>9 DEF IInv, LineOk, RecordsTrue, RequestTrue
<1>11. SlaveIs(m.ctx.peer_point, m.ctx.server_id)
  BY DEF IInv, GhostsOk
<1>12. /\ SameSession(m.ctx, ctx)
       /\ ctx.local_point = Point(slave.private) /\ ctx.peer_point = rh
       /\ ctx.keys.ck[1] = {ctx.local_point, ctx.peer_point}
  BY <1>1, <1>2, <1>10, <1>11, SlaveMatches
<1>13. master.pc = "final_cnf" => SameSession(MasterContext, ctx)
  <2> SUFFICES ASSUME master.pc = "final_cnf"
               PROVE  SameSession(MasterContext, ctx)
    OBVIOUS
  <2>1. FinalOf(send, MasterContext)
    BY <1>2, <1>9 DEF IInv, LineOk, ConfirmsThis
  <2>2. SlaveIs(MasterContext.peer_point, MasterContext.server_id)
    BY DEF IInv, LineOk, ConfirmsThis, GhostsOk
  <2>3. PICK mc : mc = MasterContext
    OBVIOUS
  <2>4. SameSession(mc, ctx)
    BY <1>1, <1>2, <2>1, <2>2, <2>3, SlaveMatches
  <2> QED
    BY <2>3, <2>4
<1>14. /\ ctx.local_point.point.random = <<"slave", runs["slave"]>>
       /\ Named(ctx.peer_point, "master", runs["master"])
  <2>1. Named(rh, "master", Revealed)
    BY <1>2 DEF IInv, RunsNamed
  <2>2. Named(rh, "master", runs["master"])
    BY <2>1, CountsAreInts, NamedStays DEF Revealed
  <2> QED
    BY <1>2, <1>12, <2>2 DEF Point, IInv, RunsNamed, SlaveWaits
<1> HIDE DEF reply, rh, send
<1>15. Shapes'
  BY <1>2, <1>3, <1>5, <1>8, SentOnLine DEF Shapes, Ends
<1>16. Grows /\ Revealed' = Revealed
  BY <1>2, <1>3, <1>15, MasterLeft DEF SlaveKept
<1>17. PICK new : new = [run |-> runs["slave"], ctx |-> ctx]
  OBVIOUS
<1>18. sessions' = sessions \cup {new} /\ new.run = runs["slave"] /\ new.ctx = ctx
  BY <1>2, <1>17
<1>19. GhostsOk'
  <2>1. \A s \in sessions' :
           /\ s.ctx.local_point.point.random = <<"slave", s.run>>
           /\ Named(s.ctx.peer_point, "master", runs'["master"])
           /\ s.ctx.keys.ck[1] = {s.ctx.local_point, s.ctx.peer_point}
           /\ \E n \in verified' : SameSession(n.ctx, s.ctx)
    <3> TAKE s \in sessions'
    <3>1. CASE s \in sessions
      BY <3>1, <1>16, SessionsStay DEF IInv
    <3>2. CASE s = new
      BY <3>2, <1>2, <1>12, <1>14, <1>18
    <3> QED
      BY <1>18, <3>1, <3>2
  <2> QED
    BY <1>2, <1>16, <2>1, VerifiedStay DEF GhostsOk, IInv
<1>20. AnswerTrue(rec)'
  BY <1>7 DEF AnswerTrue, Reply, Data
<1>21. master.pc = "final_cnf" => Established(MasterContext)'
  <2> SUFFICES ASSUME master.pc = "final_cnf"
               PROVE  Established(MasterContext)'
    OBVIOUS
  <2>1. MasterContext' = MasterContext
    BY <1>2 DEF MasterContext
  <2>2. SameSession(MasterContext', new.ctx)
    BY <1>13, <1>18, <2>1
  <2> QED
    BY <1>18, <2>2 DEF Established
<1>22. LineOk(line)'
  BY <1>2, <1>4, <1>7, <1>8, <1>16, <1>20, <1>21, SlaveReplies DEF IInv, Reply, Data
<1>23. RunsNamed'
  BY <1>2, <1>3 DEF RunsNamed, IInv, SlaveWaits
<1> QED
  BY <1>2, <1>15, <1>16, <1>18, <1>19, <1>22, <1>23, ReadStays DEF IInv

LEMMA SlaveServesKeeps ==
    ASSUME Shapes, IInv, SlaveServes
    PROVE  Shapes' /\ IInv'
<1> DEFINE request == Record("slave")
           reply == build_encrypted_data_send(slave.addr, slave.ctx,
                                              handle_modbus_pdu(request.send.pdu))
<1>1. /\ line["slave"] # <<>> /\ Data(request) /\ request.send.key = slave.ctx.keys.ck
      /\ line' = Sent(Taken(line, "slave"), "master", reply)
      /\ UNCHANGED <<master, runs, verified, sessions>>
  BY DEF SlaveServes, RequestOk, Gets, Replies, Decrypts, Data, Record
<1>2. /\ IsSlave(slave') /\ slave'.pc = slave.pc /\ slave'.peer = slave.peer
      /\ slave'.private = slave.private /\ slave'.id = slave.id
  <2>1. PICK ctx : ctx = AfterSend(AfterRecv(slave.ctx))
    OBVIOUS
  <2>2. slave' = [slave EXCEPT !.ctx = ctx]
    BY <2>1 DEF SlaveServes
  <2> QED
    BY <2>2, SlaveCtx DEF Shapes, SlaveFields
<1>3. PICK t : t = Taken(line, "slave")
  OBVIOUS
<1>4. IsLine(t)
  BY <1>1, <1>3, TakenThins DEF Shapes, Ends, LineThinned
<1>5. PICK rec : rec = reply
  OBVIOUS
<1>6. /\ rec.tag = "ss_data_send" /\ rec.send.key = request.send.key
      /\ rec.send.pdu = handle_modbus_pdu(request.send.pdu)
  BY <1>1, <1>5 DEF build_encrypted_data_send, Apdu
<1>7. line' = Sent(t, "master", rec)
  BY <1>1, <1>3, <1>5
<1>8. 1 \in DOMAIN line["slave"] /\ line["slave"][1] = request
  BY <1>1, QueueFacts DEF Shapes, IsLine, Ends, Record
<1>9. KeyOld(rec.send.key)
  BY <1>1, <1>6, <1>8 DEF IInv, LineOk, RecordsTrue, RequestTrue
<1>10. master.pc = "answer" /\ rec.send.key = master.ctx.keys.ck
          => rec.send.pdu = handle_modbus_pdu(master.request)
  BY <1>1, <1>6, <1>8 DEF IInv, LineOk, AnswersThis
<1> HIDE DEF reply, request
<1>11. Shapes'
  BY <1>1, <1>2, <1>4, <1>7, SentOnLine DEF Shapes, Ends
<1>12. Grows /\ Revealed' = Revealed
  BY <1>1, <1>2, <1>11, MasterLeft DEF SlaveKept
<1>13. AnswerTrue(rec)'
  <2>1. KeyOld(rec.send.key)'
    BY <1>9, <1>12, KeyOldStays
  <2> QED
    BY <1>6, <2>1 DEF AnswerTrue, Reply
<1>14. LineOk(line)'
  BY <1>1, <1>3, <1>6, <1>7, <1>10, <1>12, <1>13, SlaveReplies DEF IInv, Reply
<1>15. RunsNamed'
  BY <1>1, <1>2, <1>12 DEF RunsNamed, IInv
<1> QED
  BY <1>1, <1>11, <1>12, <1>14, <1>15, GhostsStay, ReadStays DEF IInv

-----------------------------------------------------------------------------
(* Incidents *)

LEMMA NoiseKeeps ==
    ASSUME Shapes, IInv, Noise
    PROVE  Shapes' /\ IInv'
<1>1. LineThinned(line', line) /\ UNCHANGED <<master, slave, runs, verified, sessions>>
  BY DisturbedThins DEF Noise, Shapes
<1>2. Shapes'
  BY <1>1 DEF Shapes, LineThinned
<1>3. Grows /\ Revealed' = Revealed
  BY <1>1, <1>2, MasterLeft DEF SlaveKept
<1>4. LineOk(line)'
  BY <1>1, <1>3, QuietStep DEF IInv
<1>5. RunsNamed'
  BY <1>1, <1>3 DEF RunsNamed, IInv
<1> QED
  BY <1>1, <1>2, <1>3, <1>4, <1>5, GhostsStay, ReadStays DEF IInv

LEMMA KilledKeeps ==
    ASSUME Shapes, IInv, Killed
    PROVE  Shapes' /\ IInv'
<1>1. LineThinned(line', line) /\ UNCHANGED <<runs, verified, sessions>>
  BY LineLeft DEF Killed
<1>2. CASE master.pc \in MasterWaits /\ master' = [master EXCEPT !.pc = "failed"] /\ UNCHANGED slave
  BY <1>1, <1>2, MasterEnds
<1>3. CASE slave.pc \in SlaveWaits /\ slave' = [slave EXCEPT !.pc = "died"] /\ UNCHANGED master
  BY <1>1, <1>3, SlaveEnds
<1> QED
  BY <1>2, <1>3 DEF Killed

-----------------------------------------------------------------------------
(* The invariant holds, and what follows from it *)

LEMMA InitOk == Init => Shapes /\ IInv
<1> SUFFICES ASSUME Init PROVE Shapes /\ IInv
  OBVIOUS
<1>1. Shapes
  BY QuietIsLine, OffShapes DEF Init, Shapes
<1>2. line["slave"] = <<>> /\ line["master"] = <<>> /\ DOMAIN <<>> = {}
  BY EmptySeq DEF Init, QuietLine, Ends
<1>3. master.pc = "off" /\ master.ctx = NoContext /\ slave.pc = "off"
  BY DEF Init, MasterOff, SlaveOff
<1>4. LineOk(line)
  BY <1>2, <1>3 DEF LineOk, RecordsTrue, OfferLast, ConfirmsThis, AnswersThis
<1> QED
  BY <1>1, <1>3, <1>4 DEF IInv, Init, RunsNamed, GhostsOk, ReadOk, MasterWaits, SlaveWaits

LEMMA StepOk == Shapes /\ IInv /\ [Next]_vars => Shapes' /\ IInv'
<1> SUFFICES ASSUME Shapes, IInv, [Next]_vars
             PROVE  Shapes' /\ IInv'
  OBVIOUS
<1>1. CASE UNCHANGED vars
  <2>1. Shapes'
    BY <1>1 DEF vars, Shapes
  <2>2. Grows /\ Revealed' = Revealed
    BY <1>1, <2>1, MasterLeft DEF vars, SlaveKept
  <2>3. LineOk(line)'
    BY <1>1, <2>2, LineLeft, QuietStep DEF IInv, vars
  <2>4. RunsNamed'
    BY <1>1, <2>2 DEF RunsNamed, IInv, vars
  <2> QED
    BY <1>1, <2>1, <2>2, <2>3, <2>4, GhostsStay, ReadStays DEF IInv, vars
<1> QED
  BY <1>1, MasterStartsKeeps, MasterOffersPointKeeps, MasterVerifiesKeeps, MasterAsksKeeps,
     MasterReadsKeeps, MasterRejectsKeeps, MasterGivesUpKeeps,
     SlaveStartsKeeps, SlaveOpensKeeps, SlaveAnswersPointKeeps, SlaveEstablishesKeeps,
     SlaveServesKeeps, SlaveRejectsKeeps, SlaveGivesUpKeeps, NoiseKeeps, KilledKeeps
  DEF Next

(* The invariant of the whole profile: every record on the line is true,    *)
(* and between the master's offer and its answer nothing on the line can be *)
(* taken for what it is not (run_master_handshake, run_slave_handshake).    *)
THEOREM PskInductive == Spec => [](Shapes /\ IInv)
<1> QED
  BY InitOk, StepOk, PTL DEF Spec

(* Agreement (run_master_handshake, run_slave_handshake): who finishes the  *)
(* handshake shares keys and identities with a run of the other end.       *)
THEOREM PskAgreement == Spec => []Agreement
<1>1. Shapes /\ IInv => Agreement
  BY DEF IInv, ReadOk, GhostsOk, Agreement, Established
<1> QED
  BY <1>1, PskInductive, PTL

(* FreshKeys (private_from_password): no two slave runs ever establish the  *)
(* same content key, though they use one password.                         *)
THEOREM PskFreshKeys == Spec => []FreshKeys
<1>1. Shapes /\ IInv => FreshKeys
  <2> SUFFICES ASSUME IInv, NEW s \in sessions, NEW t \in sessions,
                      s.ctx.keys.ck = t.ctx.keys.ck
               PROVE  s.run = t.run
    BY DEF FreshKeys
  <2>1. {s.ctx.local_point, s.ctx.peer_point} = {t.ctx.local_point, t.ctx.peer_point}
    BY DEF IInv, GhostsOk
  <2>2. /\ s.ctx.local_point.point.random = <<"slave", s.run>>
        /\ t.ctx.local_point.point.random = <<"slave", t.run>>
        /\ t.ctx.peer_point.point.random[1] = "master"
    BY DEF IInv, GhostsOk, Named
  <2>3. s.ctx.local_point # t.ctx.peer_point
    BY <2>2
  <2>4. s.ctx.local_point = t.ctx.local_point
    BY <2>1, <2>3
  <2> QED
    BY <2>2, <2>4
<1> QED
  BY <1>1, PskInductive, PTL

(* ReadsWhatItAsked (run_master): the registers a master reports are those  *)
(* it asked for, from a slave that shares its session.                     *)
THEOREM PskReadsWhatItAsked == Spec => []ReadsWhatItAsked
<1>1. Shapes /\ IInv => ReadsWhatItAsked
  BY DEF IInv, ReadOk, ReadsWhatItAsked, Established
<1> QED
  BY <1>1, PskInductive, PTL

-----------------------------------------------------------------------------
(* A run that meets no trouble.  Exactly one record is under way, and the   *)
(* program that waits for it finds what it expects.                        *)

Opening ==
    /\ master.pc = "open_cnf" /\ slave.pc = "open_req"
    /\ line = Only("slave", Apdu(master.addr, "ss_sk_open_req", NoItems))
Opened ==
    /\ master.pc = "open_cnf" /\ slave.pc = "first_req"
    /\ line = Only("master", Apdu(master.addr, "ss_sk_open_cnf", NoItems))
Offering ==
    /\ master.pc = "data_cnf" /\ slave.pc = "first_req"
    /\ line = Only("slave", Apdu(master.addr, "ss_sk_data_req", [R_H |-> Point(master.private)]))
Replying ==
    /\ master.pc = "data_cnf" /\ slave.pc = "final_req"
    /\ slave.peer.point = Point(master.private)
    /\ LET rh == Point(master.private)
           rm == Point(slave.private)
       IN  line = Only("master",
                       Apdu(master.addr, "ss_sk_data_cnf",
                            [R_M |-> rm, SERVER_ID |-> slave.id,
                             S_M |-> compute_server_auth(rh, rm, Shared(slave.private, rh),
                                                         slave.id)]))
Finishing ==
    /\ master.pc = "final_cnf" /\ slave.pc = "final_req"
    /\ slave.peer.point = Point(master.private)
    /\ master.peer.point = Point(slave.private) /\ master.peer.id = slave.id
    /\ LET rm == Point(slave.private)
       IN  line = Only("slave",
                       Apdu(master.addr, "ss_sk_data_req",
                            [S_H |-> compute_master_auth(Point(master.private), rm,
                                                         Shared(master.private, rm), master.id),
                             R_B |-> master.peer.r_b, CLIENT_ID |-> master.id]))
Ready(ctx) == ctx.send_counter = 1 /\ ctx.recv_counter = 1
Confirming ==
    /\ master.pc = "final_cnf" /\ slave.pc = "serving"
    /\ slave.ctx.keys.ck = MasterContext.keys.ck /\ Ready(slave.ctx)
    /\ line = Only("master", Apdu(master.addr, "ss_sk_data_cnf", [STATUS |-> "OK"]))
Asking ==
    /\ master.pc = "answer" /\ slave.pc = "serving"
    /\ slave.ctx.keys.ck = master.ctx.keys.ck /\ Ready(slave.ctx)
    /\ master.ctx.recv_counter = 1
    /\ line = Only("slave", Apdu(master.addr, "ss_data_send",
                                 [key |-> master.ctx.keys.ck, counter |-> 1,
                                  pdu |-> master.request]))
Answering ==
    /\ master.pc = "answer" /\ slave.pc = "serving"
    /\ master.ctx.recv_counter = 1
    /\ line = Only("master", Apdu(master.addr, "ss_data_send",
                                  [key |-> master.ctx.keys.ck, counter |-> 1,
                                   pdu |-> handle_modbus_pdu(master.request)]))

InOrder ==
    \/ Opening \/ Opened \/ Offering \/ Replying \/ Finishing \/ Confirming \/ Asking
    \/ Answering
CleanRun ==
    clean /\ master.request \in Served =>
        master.pc = "done" \/ (slave.addr = master.addr /\ InOrder)

(* Which record is under way tells where both programs are *)
LEMMA SlaveFinds ==
    ASSUME InOrder, line["slave"] # <<>>
    PROVE  Opening \/ Offering \/ Finishing \/ Asking
BY OnlyOnLine DEF InOrder, Opened, Replying, Confirming, Answering, Ends

LEMMA MasterFinds ==
    ASSUME InOrder, line["master"] # <<>>
    PROVE  Opened \/ Replying \/ Confirming \/ Answering
BY OnlyOnLine DEF InOrder, Opening, Offering, Finishing, Asking, Ends

LEMMA OneUnderWay ==
    ASSUME InOrder
    PROVE  line["slave"] # <<>> \/ line["master"] # <<>>
BY OnlyOnLine DEF InOrder, Opening, Opened, Offering, Replying, Finishing, Confirming, Asking,
   Answering, Ends

LEMMA MasterStartsClean ==
    ASSUME Shapes, MasterStarts
    PROVE  CleanRun'
<1>1. PICK a \in Addresses, pw \in Passwords, id \in ClientIds, request \in Requests,
           port \in OpenedPort(line, "master") :
        /\ master' = [MasterOff EXCEPT
                        !.pc = "open_cnf", !.addr = a, !.id = id, !.request = request,
                        !.private = private_from_password(pw, <<"master", runs'["master"]>>)]
        /\ line' = Sent(port, "slave", Apdu(a, "ss_sk_open_req", NoItems))
        /\ clean' = (slave.pc = "open_req" /\ slave.addr = a /\ port = QuietLine)
        /\ slave' = slave
  BY DEF MasterStarts
<1>2. master'.pc = "open_cnf" /\ master'.addr = a
  <2>1. PICK private : private = private_from_password(pw, <<"master", runs'["master"]>>)
    OBVIOUS
  <2>2. master' = MasterBegins(a, id, request, private)
    BY <1>1, <2>1 DEF MasterBegins
  <2> QED
    BY <2>2, NewMaster
<1>3. clean' => slave.pc = "open_req" /\ slave.addr = a /\ port = QuietLine
  BY <1>1
<1> QED
  BY <1>1, <1>2, <1>3 DEF CleanRun, InOrder, Opening, Only

LEMMA SlaveOpensClean ==
    ASSUME Shapes, CleanRun, SlaveOpens
    PROVE  CleanRun'
<1>1. /\ slave.pc = "open_req" /\ line["slave"] # <<>>
      /\ line' = Sent(Taken(line, "slave"), "master", Apdu(slave.addr, "ss_sk_open_cnf", NoItems))
      /\ UNCHANGED <<master, clean>>
  BY DEF SlaveOpens, OpenReqOk, Gets, Replies
<1>2. slave'.pc = "first_req" /\ slave'.addr = slave.addr
  BY SlavePc DEF SlaveOpens, Shapes, SlaveFields
<1>3. ASSUME InOrder, slave.addr = master.addr
      PROVE  Opened'
  <2>1. Opening
    BY <1>1, <1>3, SlaveFinds DEF Opening, Offering, Finishing, Asking
  <2>2. Taken(line, "slave") = QuietLine
    BY <2>1, OnlyOnLine DEF Opening, Ends
  <2> QED
    BY <1>1, <1>2, <1>3, <2>1, <2>2 DEF Opened, Opening, Only
<1> QED
  BY <1>1, <1>2, <1>3 DEF CleanRun, InOrder

LEMMA MasterOffersPointClean ==
    ASSUME Shapes, CleanRun, MasterOffersPoint
    PROVE  CleanRun'
<1>1. /\ master.pc = "open_cnf" /\ line["master"] # <<>>
      /\ line' = Sent(Taken(line, "master"), "slave",
                      Apdu(master.addr, "ss_sk_data_req", [R_H |-> Point(master.private)]))
      /\ UNCHANGED <<slave, clean>>
  BY DEF MasterOffersPoint, OpenCnfOk, Gets, Replies
<1>2. /\ master'.pc = "data_cnf" /\ master'.addr = master.addr
      /\ master'.private = master.private /\ master'.request = master.request
  BY MasterPc DEF MasterOffersPoint, Shapes, MasterFields
<1>3. ASSUME InOrder
      PROVE  Offering'
  <2>1. Opened
    BY <1>1, <1>3, MasterFinds DEF Opened, Replying, Confirming, Answering
  <2>2. Taken(line, "master") = QuietLine
    BY <2>1, OnlyOnLine DEF Opened, Ends
  <2> QED
    BY <1>1, <1>2, <2>1, <2>2 DEF Offering, Opened, Only
<1> QED
  BY <1>1, <1>2, <1>3 DEF CleanRun, InOrder

LEMMA SlaveAnswersPointClean ==
    ASSUME Shapes, CleanRun, SlaveAnswersPoint
    PROVE  CleanRun'
<1> DEFINE rh == Head(line["slave"]).send.R_H
           rm == Point(slave.private)
<1>1. /\ slave.pc = "first_req" /\ line["slave"] # <<>>
      /\ line' = Sent(Taken(line, "slave"), "master",
                      Apdu(slave.addr, "ss_sk_data_cnf",
                           [R_M |-> rm, SERVER_ID |-> slave.id,
                            S_M |-> compute_server_auth(rh, rm, Shared(slave.private, rh),
                                                        slave.id)]))
      /\ UNCHANGED <<master, clean>>
  BY DEF SlaveAnswersPoint, FirstReqOk, Gets, Replies, Record
<1>2. /\ slave'.pc = "final_req" /\ slave'.addr = slave.addr /\ slave'.peer.point = rh
      /\ slave'.private = slave.private /\ slave'.id = slave.id
  <2>1. PICK peer : peer = [point |-> rh]
    OBVIOUS
  <2>2. slave' = SetSlavePeer(slave, "final_req", peer)
    BY <2>1 DEF SlaveAnswersPoint, SetSlavePeer, Record
  <2>3. /\ slave'.pc = "final_req" /\ slave'.peer = peer /\ slave'.addr = slave.addr
        /\ slave'.private = slave.private /\ slave'.id = slave.id
    BY <2>2, SlavePcPeer DEF Shapes, SlaveFields
  <2> QED
    BY <2>1, <2>3
<1>3. ASSUME InOrder, slave.addr = master.addr
      PROVE  Replying'
  <2>1. Offering
    BY <1>1, <1>3, SlaveFinds DEF Opening, Offering, Finishing, Asking
  <2>2. Taken(line, "slave") = QuietLine /\ rh = Point(master.private)
    BY <2>1, OnlyOnLine DEF Offering, Ends, Apdu
  <2> HIDE DEF rh
  <2>3. slave'.peer.point = Point(master.private) /\ master'.pc = "data_cnf"
    BY <1>1, <1>2, <2>1, <2>2 DEF Offering
  <2>4. line' = Only("master",
                     Apdu(master.addr, "ss_sk_data_cnf",
                          [R_M |-> rm, SERVER_ID |-> slave.id,
                           S_M |-> compute_server_auth(Point(master.private), rm,
                                       Shared(slave.private, Point(master.private)), slave.id)]))
    BY <1>1, <1>3, <2>2 DEF Only
  <2> QED
    BY <1>1, <1>2, <2>3, <2>4 DEF Replying
<1> QED
  BY <1>1, <1>2, <1>3 DEF CleanRun, InOrder

LEMMA MasterVerifiesClean ==
    ASSUME Shapes, CleanRun, MasterVerifies
    PROVE  CleanRun'
<1> DEFINE send == Head(line["master"]).send
           rh == Point(master.private)
           r_b == <<"r_B", runs["master"]>>
<1>1. /\ master.pc = "data_cnf" /\ line["master"] # <<>>
      /\ line' = Sent(Taken(line, "master"), "slave",
                      Apdu(master.addr, "ss_sk_data_req",
                           [S_H |-> compute_master_auth(rh, send.R_M,
                                        Shared(master.private, send.R_M), master.id),
                            R_B |-> r_b, CLIENT_ID |-> master.id]))
      /\ UNCHANGED <<slave, clean>>
  BY DEF MasterVerifies, DataCnfOk, Gets, Replies, Record
<1>2. /\ master'.pc = "final_cnf" /\ master'.addr = master.addr
      /\ master'.private = master.private /\ master'.request = master.request
      /\ master'.id = master.id
      /\ master'.peer = [point |-> send.R_M, id |-> send.SERVER_ID, r_b |-> r_b]
  <2>1. PICK peer : peer = [point |-> send.R_M, id |-> send.SERVER_ID, r_b |-> r_b]
    OBVIOUS
  <2>2. master' = SetMasterPeer(master, "final_cnf", peer)
    BY <2>1 DEF MasterVerifies, SetMasterPeer, Record
  <2>3. /\ master'.pc = "final_cnf" /\ master'.peer = peer
        /\ \A x \in MasterFields \ {"pc", "peer"} : master'[x] = master[x]
    BY <2>2, MasterPcPeer DEF Shapes
  <2> QED
    BY <2>1, <2>3 DEF MasterFields
<1>3. ASSUME InOrder
      PROVE  Finishing'
  <2>1. Replying
    BY <1>1, <1>3, MasterFinds DEF Opened, Replying, Confirming, Answering
  <2>2. /\ Taken(line, "master") = QuietLine
        /\ send.R_M = Point(slave.private) /\ send.SERVER_ID = slave.id
    BY <2>1, OnlyOnLine DEF Replying, Ends, Apdu
  <2> HIDE DEF send, rh, r_b
  <2>3. /\ master'.peer.point = Point(slave.private) /\ master'.peer.id = slave.id
        /\ master'.peer.r_b = r_b
    BY <1>2, <2>2
  <2>4. line' = Only("slave",
                     Apdu(master.addr, "ss_sk_data_req",
                          [S_H |-> compute_master_auth(rh, Point(slave.private),
                                       Shared(master.private, Point(slave.private)), master.id),
                           R_B |-> r_b, CLIENT_ID |-> master.id]))
    BY <1>1, <2>2 DEF Only
  <2>5. slave.pc = "final_req" /\ slave.peer.point = Point(master.private)
    BY <2>1 DEF Replying
  <2> QED
    BY <1>1, <1>2, <2>3, <2>4, <2>5 DEF Finishing, rh
<1> QED
  BY <1>1, <1>2, <1>3 DEF CleanRun, InOrder

LEMMA SlaveEstablishesClean ==
    ASSUME Shapes, CleanRun, SlaveEstablishes
    PROVE  CleanRun'
<1> DEFINE send == Head(line["slave"]).send
<1>1. PICK ctx : ctx = SlaveContext(send)
  OBVIOUS
<1>2. /\ slave.pc = "final_req" /\ line["slave"] # <<>>
      /\ line' = Sent(Taken(line, "slave"), "master",
                      Apdu(slave.addr, "ss_sk_data_cnf", [STATUS |-> "OK"]))
      /\ slave' = SetSlaveCtx(slave, "serving", ctx)
      /\ UNCHANGED <<master, clean>>
  BY <1>1 DEF SlaveEstablishes, FinalReqOk, Gets, Replies, Record, SetSlaveCtx
<1>3. slave'.pc = "serving" /\ slave'.addr = slave.addr /\ slave'.ctx = ctx
  BY <1>2, SlavePcCtx DEF Shapes, SlaveFields
<1>4. ASSUME InOrder, slave.addr = master.addr
      PROVE  Confirming'
  <2>1. Finishing
    BY <1>2, <1>4, SlaveFinds DEF Opening, Offering, Finishing, Asking
  <2>2. Taken(line, "slave") = QuietLine
    BY <2>1, OnlyOnLine DEF Finishing, Ends
  <2>3. /\ ctx.keys.ck = <<{Point(slave.private), Point(master.private)}, slave.id>>
        /\ Ready(ctx)
    BY <1>1, <2>1 DEF SlaveContext, SessionContext, derive_content_keys, Shared, Finishing, Ready
  <2>4. MasterContext.keys.ck = <<{Point(master.private), Point(slave.private)}, slave.id>>
    BY <2>1 DEF MasterContext, SessionContext, derive_content_keys, Shared, Finishing
  <2>5. MasterContext' = MasterContext
    BY <1>2 DEF MasterContext
  <2>6. slave'.ctx.keys.ck = MasterContext'.keys.ck /\ Ready(slave'.ctx)
    BY <1>3, <2>3, <2>4, <2>5
  <2>7. master.pc = "final_cnf"
    BY <2>1 DEF Finishing
  <2> QED
    BY <1>2, <1>3, <1>4, <2>2, <2>6, <2>7 DEF Confirming, Only
<1> QED
  BY <1>2, <1>3, <1>4 DEF CleanRun, InOrder

LEMMA MasterAsksClean ==
    ASSUME Shapes, CleanRun, MasterAsks
    PROVE  CleanRun'
<1>1. PICK ctx : ctx = MasterContext
  OBVIOUS
<1>2. /\ master.pc = "final_cnf" /\ line["master"] # <<>>
      /\ line' = Sent(Taken(line, "master"), "slave",
                      build_encrypted_data_send(master.addr, ctx, master.request))
      /\ master' = SetMasterCtx(master, "answer", AfterSend(ctx))
      /\ UNCHANGED <<slave, clean>>
  BY <1>1 DEF MasterAsks, FinalCnfOk, Gets, Replies, SetMasterCtx, MasterContext
<1>3. /\ master'.pc = "answer" /\ master'.addr = master.addr
      /\ master'.request = master.request /\ master'.ctx = AfterSend(ctx)
  BY <1>2, MasterPcCtx DEF Shapes, MasterFields
<1>4. /\ ctx.send_counter = 1 /\ AfterSend(ctx).recv_counter = 1
      /\ AfterSend(ctx).keys = ctx.keys
  BY <1>1 DEF MasterContext, SessionContext, AfterSend
<1>5. ASSUME InOrder
      PROVE  Asking'
  <2>1. Confirming
    BY <1>2, <1>5, MasterFinds DEF Opened, Replying, Confirming, Answering
  <2>2. Taken(line, "master") = QuietLine
    BY <2>1, OnlyOnLine DEF Confirming, Ends
  <2>3. slave.pc = "serving" /\ slave.ctx.keys.ck = ctx.keys.ck /\ Ready(slave.ctx)
    BY <1>1, <2>1 DEF Confirming
  <2>4. line' = Only("slave", Apdu(master.addr, "ss_data_send",
                                   [key |-> ctx.keys.ck, counter |-> 1, pdu |-> master.request]))
    BY <1>2, <1>4, <2>2 DEF Only, build_encrypted_data_send
  <2>5. master'.ctx.keys.ck = ctx.keys.ck /\ master'.ctx.recv_counter = 1
    BY <1>3, <1>4
  <2> QED
    BY <1>2, <1>3, <2>3, <2>4, <2>5 DEF Asking
<1> QED
  BY <1>2, <1>3, <1>5 DEF CleanRun, InOrder

LEMMA SlaveServesClean ==
    ASSUME Shapes, CleanRun, SlaveServes
    PROVE  CleanRun'
<1> DEFINE pdu == Head(line["slave"]).send.pdu
<1>1. /\ slave.pc = "serving" /\ line["slave"] # <<>>
      /\ line' = Sent(Taken(line, "slave"), "master",
                      build_encrypted_data_send(slave.addr, slave.ctx, handle_modbus_pdu(pdu)))
      /\ UNCHANGED <<master, clean>>
  BY DEF SlaveServes, RequestOk, Gets, Replies, Record
<1>2. slave'.pc = slave.pc /\ slave'.addr = slave.addr
  <2>1. PICK ctx : ctx = AfterSend(AfterRecv(slave.ctx))
    OBVIOUS
  <2>2. slave' = [slave EXCEPT !.ctx = ctx]
    BY <2>1 DEF SlaveServes
  <2> QED
    BY <2>2, SlaveCtx DEF Shapes, SlaveFields
<1>3. ASSUME InOrder, slave.addr = master.addr
      PROVE  Answering'
  <2>1. Asking
    BY <1>1, <1>3, SlaveFinds DEF Opening, Offering, Finishing, Asking
  <2>2. Taken(line, "slave") = QuietLine /\ pdu = master.request
    BY <2>1, OnlyOnLine DEF Asking, Ends, Apdu
  <2> HIDE DEF pdu
  <2>3. /\ slave.ctx.keys.ck = master.ctx.keys.ck /\ slave.ctx.send_counter = 1
        /\ master.ctx.recv_counter = 1 /\ master.pc = "answer"
    BY <2>1 DEF Asking, Ready
  <2>4. line' = Only("master", Apdu(master.addr, "ss_data_send",
                                    [key |-> master.ctx.keys.ck, counter |-> 1,
                                     pdu |-> handle_modbus_pdu(master.request)]))
    BY <1>1, <1>3, <2>2, <2>3 DEF Only, build_encrypted_data_send
  <2> QED
    BY <1>1, <1>2, <2>3, <2>4 DEF Answering
<1> QED
  BY <1>1, <1>2, <1>3 DEF CleanRun, InOrder

(* What a program waits for in a run without trouble it does not reject *)
LEMMA MasterAccepts ==
    ASSUME InOrder, line["master"] # <<>>, master.request \in Served
    PROVE  OpenCnfOk \/ DataCnfOk \/ FinalCnfOk \/ AnswerOk
<1>1. CASE Opened
  <2>1. line["master"] # <<>> /\ Head(line["master"]) = Apdu(master.addr, "ss_sk_open_cnf", NoItems)
    BY <1>1, OnlyOnLine DEF Opened, Ends
  <2> QED
    BY <1>1, <2>1 DEF Opened, OpenCnfOk, Gets, Apdu
<1>2. CASE Replying
  <2> DEFINE rh == Point(master.private)
             rm == Point(slave.private)
  <2>1. PICK r : r = Head(line["master"])
    OBVIOUS
  <2>2. r = Apdu(master.addr, "ss_sk_data_cnf",
                 [R_M |-> rm, SERVER_ID |-> slave.id,
                  S_M |-> compute_server_auth(rh, rm, Shared(slave.private, rh), slave.id)])
    BY <1>2, <2>1, OnlyOnLine DEF Replying, Ends
  <2>3. Shared(slave.private, rh) = Shared(master.private, rm)
    BY DEF Shared
  <2>4. /\ r.addr = master.addr /\ r.tag = "ss_sk_data_cnf"
        /\ DOMAIN r.send = {"R_M", "SERVER_ID", "S_M"}
        /\ r.send.R_M = rm /\ r.send.SERVER_ID = slave.id
        /\ r.send.S_M = compute_server_auth(rh, rm, Shared(master.private, rm), slave.id)
    BY <2>2, <2>3 DEF Apdu
  <2> HIDE DEF rh, rm
  <2>5. master.pc = "data_cnf"
    BY <1>2 DEF Replying
  <2>6. DataCnfOk
    BY <2>1, <2>4, <2>5 DEF DataCnfOk, Gets, Has, Record, rh
  <2> QED
    BY <2>6
<1>3. CASE Confirming
  <2>1. Head(line["master"]) = Apdu(master.addr, "ss_sk_data_cnf", [STATUS |-> "OK"])
    BY <1>3, OnlyOnLine DEF Confirming, Ends
  <2> QED
    BY <1>3, <2>1 DEF Confirming, FinalCnfOk, Gets, Apdu, Record
<1>4. CASE Answering
  <2>1. Head(line["master"]) = Apdu(master.addr, "ss_data_send",
                                    [key |-> master.ctx.keys.ck, counter |-> 1,
                                     pdu |-> handle_modbus_pdu(master.request)])
    BY <1>4, OnlyOnLine DEF Answering, Ends
  <2>2. handle_modbus_pdu(master.request)[1] = "registers"
    BY DEF handle_modbus_pdu
  <2> QED
    BY <1>4, <2>1, <2>2
    DEF Answering, AnswerOk, Gets, Decrypts, parse_register_response, Apdu, Record
<1> QED
  BY <1>1, <1>2, <1>3, <1>4, MasterFinds

LEMMA SlaveAccepts ==
    ASSUME InOrder, line["slave"] # <<>>, slave.addr = master.addr
    PROVE  OpenReqOk \/ FirstReqOk \/ FinalReqOk \/ RequestOk
<1>1. CASE Opening
  <2>1. Head(line["slave"]) = Apdu(master.addr, "ss_sk_open_req", NoItems)
    BY <1>1, OnlyOnLine DEF Opening, Ends
  <2> QED
    BY <1>1, <2>1 DEF Opening, OpenReqOk, Gets, Apdu
<1>2. CASE Offering
  <2>1. Head(line["slave"]) = Apdu(master.addr, "ss_sk_data_req", [R_H |-> Point(master.private)])
    BY <1>2, OnlyOnLine DEF Offering, Ends
  <2> QED
    BY <1>2, <2>1 DEF Offering, FirstReqOk, Gets, Apdu, Has, Record
<1>3. CASE Finishing
  <2> DEFINE rh == Point(master.private)
             rm == Point(slave.private)
  <2>1. PICK r : r = Head(line["slave"])
    OBVIOUS
  <2>2. r = Apdu(master.addr, "ss_sk_data_req",
                 [S_H |-> compute_master_auth(rh, rm, Shared(master.private, rm), master.id),
                  R_B |-> master.peer.r_b, CLIENT_ID |-> master.id])
    BY <1>3, <2>1, OnlyOnLine DEF Finishing, Ends
  <2>3. Shared(master.private, rm) = Shared(slave.private, rh)
    BY DEF Shared
  <2>4. /\ r.addr = master.addr /\ r.tag = "ss_sk_data_req"
        /\ DOMAIN r.send = {"S_H", "R_B", "CLIENT_ID"} /\ r.send.CLIENT_ID = master.id
        /\ r.send.S_H = compute_master_auth(rh, rm, Shared(slave.private, rh), master.id)
    BY <2>2, <2>3 DEF Apdu
  <2> HIDE DEF rh, rm
  <2>5. slave.pc = "final_req" /\ slave.peer.point = rh
    BY <1>3 DEF Finishing, rh
  <2>6. FinalReqOk
    BY <2>1, <2>4, <2>5 DEF FinalReqOk, Gets, Has, Record, rm
  <2> QED
    BY <2>6
<1>4. CASE Asking
  <2>1. Head(line["slave"]) = Apdu(master.addr, "ss_data_send",
                                   [key |-> master.ctx.keys.ck, counter |-> 1,
                                    pdu |-> master.request])
    BY <1>4, OnlyOnLine DEF Asking, Ends
  <2> QED
    BY <1>4, <2>1 DEF Asking, RequestOk, Gets, Decrypts, Apdu, Record, Ready
<1> QED
  BY <1>1, <1>2, <1>3, <1>4, SlaveFinds

LEMMA CleanInit == Init => CleanRun
BY DEF Init, CleanRun

LEMMA CleanStep == Shapes /\ CleanRun /\ [Next]_vars => CleanRun'
<1> SUFFICES ASSUME Shapes, CleanRun, [Next]_vars
             PROVE  CleanRun'
  OBVIOUS
<1>1. CASE UNCHANGED vars
  BY <1>1 DEF vars, CleanRun, InOrder, Opening, Opened, Offering, Replying, Finishing,
     Confirming, Asking, Answering, MasterContext
<1>2. CASE MasterReads
  <2>1. PICK w, x : master' = SetMasterResult(master, "done", w, x)
    BY <1>2 DEF MasterReads, SetMasterResult
  <2>2. master'.pc = "done"
    BY <2>1, MasterPcResultCtx DEF Shapes
  <2> QED
    BY <2>2 DEF CleanRun
<1>3. CASE MasterRejects
  <2>1. /\ master.pc \in MasterWaits /\ line["master"] # <<>>
        /\ ~(OpenCnfOk \/ DataCnfOk \/ FinalCnfOk \/ AnswerOk) /\ clean' = clean
        /\ master'.request = master.request
    BY <1>3, MasterPc DEF MasterRejects, Shapes, MasterFields
  <2>2. ~(clean /\ master.request \in Served)
    BY <2>1, MasterAccepts DEF CleanRun, MasterWaits
  <2> QED
    BY <2>1, <2>2 DEF CleanRun
<1>4. CASE MasterGivesUp
  <2>1. /\ master.pc \in MasterWaits /\ line["master"] = <<>>
        /\ clean' = (clean /\ line["slave"] = <<>>) /\ master'.request = master.request
    BY <1>4, MasterPc DEF MasterGivesUp, Shapes, MasterFields
  <2>2. clean' => clean /\ line["slave"] = <<>>
    BY <2>1
  <2> QED
    BY <2>1, <2>2, OneUnderWay DEF CleanRun, MasterWaits
<1>5. CASE SlaveRejects
  <2>1. /\ line["slave"] # <<>> /\ clean' = clean /\ master' = master
        /\ ~(OpenReqOk \/ FirstReqOk \/ FinalReqOk \/ RequestOk)
    BY <1>5 DEF SlaveRejects
  <2> QED
    BY <2>1, SlaveAccepts DEF CleanRun
<1>6. CASE SlaveGivesUp
  <2>1. /\ line["slave"] = <<>> /\ clean' = (clean /\ line["master"] = <<>>) /\ master' = master
    BY <1>6 DEF SlaveGivesUp
  <2>2. clean' => clean /\ line["master"] = <<>>
    BY <2>1
  <2> QED
    BY <2>1, <2>2, OneUnderWay DEF CleanRun
<1>7. CASE SlaveStarts \/ Noise \/ Killed
  BY <1>7 DEF SlaveStarts, Noise, Killed, CleanRun
<1> QED
  BY <1>1, <1>2, <1>3, <1>4, <1>5, <1>6, <1>7, MasterStartsClean, MasterOffersPointClean,
     MasterVerifiesClean, MasterAsksClean, SlaveOpensClean, SlaveAnswersPointClean,
     SlaveEstablishesClean, SlaveServesClean
  DEF Next

(* CleanRunSucceeds (run_master, serve): a master that meets a waiting     *)
(* slave and no trouble reads the registers it asks for.                   *)
THEOREM PskCleanRunSucceeds == Spec => []CleanRunSucceeds
<1>1. Init => CleanRun
  BY CleanInit
<1>2. Shapes /\ CleanRun /\ [Next]_vars => CleanRun'
  BY CleanStep
<1>3. CleanRun => CleanRunSucceeds
  BY DEF CleanRun, CleanRunSucceeds, InOrder, Opening, Opened, Offering, Replying, Finishing,
     Confirming, Asking, Answering
<1> QED
  BY <1>1, <1>2, <1>3, PskInductive, PTL DEF Spec

-----------------------------------------------------------------------------
(* PskSession implements SecureChannel: every step of the two programs is a *)
(* step of SecureChannel, under the mapping of Promise, or changes nothing  *)
(* of what it says.                                                         *)

(* A run verifies once, a run establishes once, and what the slave serves   *)
(* with is a session it established                                         *)
ContextFields == {"role", "server_id", "client_id", "local_point", "peer_point", "keys",
                  "send_counter", "recv_counter"}
IsContext(ctx) == ctx = [x \in ContextFields |-> ctx[x]]

RunsBounded == runs["master"] \in 0..MaxMasterRuns
LastRunKnown ==
    runs["master"] > 0 =>
        /\ master.pc \in MasterWaits \cup {"done", "failed"}
        /\ master.private.random = <<"master", runs["master"]>>
        /\ master.pc = "answer" => IsContext(master.ctx)
        /\ master.pc \in {"answer", "done"} => master.ctx.local_point = Point(master.private)
VerifiedOnce ==
    \A m \in verified :
        /\ m.run \in 1..runs["master"]
        /\ m.ctx.local_point.point.random = <<"master", m.run>>
        /\ m.run = runs["master"] => master.pc \notin {"open_cnf", "data_cnf"}
        /\ \A v \in verified : v.run = m.run => v = m
EstablishedOnce ==
    \A s \in sessions :
        /\ s.run \in 1..runs["slave"]
        /\ s.run = runs["slave"] => slave.pc \notin {"open_req", "first_req", "final_req"}
ServesSession ==
    slave.pc = "serving" =>
        /\ IsContext(slave.ctx) /\ slave.ctx.recv_counter \in Nat \ {0}
        /\ \E s \in sessions :
              s.ctx.peer_point = slave.ctx.peer_point /\ s.ctx.keys = slave.ctx.keys
Once == RunsBounded /\ LastRunKnown /\ VerifiedOnce /\ EstablishedOnce /\ ServesSession

(* What the steps do to what the phases depend on *)
SlaveRests == UNCHANGED <<slave, sessions>> /\ runs'["slave"] = runs["slave"]
MasterRests == UNCHANGED <<master, verified>> /\ runs'["master"] = runs["master"]

LEMMA MasterStartsMoves ==
    ASSUME Shapes, MasterStarts
    PROVE  /\ SlaveRests /\ verified' = verified /\ master'.pc = "open_cnf"
           /\ master'.private.random = <<"master", runs'["master"]>>
           /\ runs["master"] < MaxMasterRuns /\ runs'["master"] = runs["master"] + 1
<1>1. PICK a \in Addresses, pw \in Passwords, id \in ClientIds, request \in Requests :
        master' = [MasterOff EXCEPT
                     !.pc = "open_cnf", !.addr = a, !.id = id, !.request = request,
                     !.private = private_from_password(pw, <<"master", runs'["master"]>>)]
  BY DEF MasterStarts
<1>2. PICK private : private = private_from_password(pw, <<"master", runs'["master"]>>)
  OBVIOUS
<1>3. master' = MasterBegins(a, id, request, private)
  BY <1>1, <1>2 DEF MasterBegins
<1>4. master'.pc = "open_cnf" /\ master'.private.random = <<"master", runs'["master"]>>
  BY <1>2, <1>3, NewMaster DEF private_from_password
<1> QED
  BY <1>4 DEF MasterStarts, Shapes, Ends, SlaveRests

LEMMA MasterOffersPointMoves ==
    ASSUME Shapes, MasterOffersPoint
    PROVE  /\ SlaveRests /\ verified' = verified /\ runs' = runs
           /\ master.pc = "open_cnf" /\ master'.pc = "data_cnf"
           /\ master'.private = master.private
BY MasterPc DEF MasterOffersPoint, OpenCnfOk, Shapes, SlaveRests, MasterFields

LEMMA MasterVerifiesMoves ==
    ASSUME Shapes, MasterVerifies
    PROVE  /\ SlaveRests /\ runs' = runs
           /\ master.pc = "data_cnf" /\ master'.pc = "final_cnf"
           /\ master'.private = master.private
           /\ \E m : /\ verified' = verified \cup {m} /\ m.run = runs["master"]
                     /\ m.ctx.local_point = Point(master.private)
<1> DEFINE send == Record("master").send
           r_b == <<"r_B", runs["master"]>>
           ctx == SessionContext("master", master.private, send.R_M, send.SERVER_ID, master.id, r_b)
<1>1. PICK peer : peer = [point |-> send.R_M, id |-> send.SERVER_ID, r_b |-> r_b]
  OBVIOUS
<1>2. master' = SetMasterPeer(master, "final_cnf", peer)
  BY <1>1 DEF MasterVerifies, SetMasterPeer
<1>3. master'.pc = "final_cnf" /\ master'.private = master.private
  BY <1>2, MasterPcPeer DEF Shapes, MasterFields
<1>4. ctx.local_point = Point(master.private)
  BY DEF SessionContext
<1>5. \E m : /\ verified' = verified \cup {m} /\ m.run = runs["master"]
             /\ m.ctx.local_point = Point(master.private)
  <2>1. PICK m : m = [run |-> runs["master"], ctx |-> ctx]
    OBVIOUS
  <2>2. verified' = verified \cup {m}
    BY <2>1 DEF MasterVerifies
  <2> HIDE DEF ctx
  <2>3. m.run = runs["master"] /\ m.ctx = ctx
    BY <2>1
  <2> QED
    BY <1>4, <2>2, <2>3
<1> HIDE DEF ctx
<1> QED
  BY <1>3, <1>5 DEF MasterVerifies, DataCnfOk, SlaveRests

LEMMA ContextSent ==
    ASSUME NEW ctx, IsContext(ctx)
    PROVE  IsContext(AfterSend(ctx)) /\ AfterSend(ctx).local_point = ctx.local_point
BY FieldSet DEF IsContext, ContextFields, AfterSend

LEMMA ContextReceived ==
    ASSUME NEW ctx, IsContext(ctx)
    PROVE  IsContext(AfterRecv(ctx)) /\ AfterRecv(ctx).local_point = ctx.local_point
BY FieldSet DEF IsContext, ContextFields, AfterRecv

LEMMA MasterAsksMoves ==
    ASSUME Shapes, MasterAsks
    PROVE  /\ SlaveRests /\ verified' = verified /\ runs' = runs
           /\ master.pc = "final_cnf" /\ line["master"] # <<>>
           /\ Head(line["master"]).tag = "ss_sk_data_cnf"
           /\ master'.pc = "answer" /\ MasterContext' = MasterContext
           /\ master'.private = master.private
           /\ IsContext(master'.ctx) /\ master'.ctx.local_point = Point(master.private)
<1>1. master' = SetMasterCtx(master, "answer", AfterSend(MasterContext))
  BY DEF MasterAsks, SetMasterCtx, MasterContext
<1>2. /\ master'.pc = "answer" /\ master'.private = master.private /\ master'.id = master.id
      /\ master'.peer = master.peer /\ master'.ctx = AfterSend(MasterContext)
  BY <1>1, MasterPcCtx DEF Shapes, MasterFields
<1>3. IsContext(MasterContext) /\ MasterContext.local_point = Point(master.private)
  BY DEF IsContext, ContextFields, MasterContext, SessionContext
<1>4. /\ IsContext(AfterSend(MasterContext))
      /\ AfterSend(MasterContext).local_point = Point(master.private)
  BY <1>3, ContextSent
<1> QED
  BY <1>2, <1>4 DEF MasterAsks, FinalCnfOk, Gets, SlaveRests, MasterContext

LEMMA MasterReadsMoves ==
    ASSUME Shapes, MasterReads
    PROVE  /\ SlaveRests /\ verified' = verified /\ runs' = runs
           /\ master.pc = "answer" /\ master'.pc = "done" /\ MasterContext' = MasterContext
           /\ master'.private = master.private /\ master'.ctx = AfterRecv(master.ctx)
<1>1. PICK pdu : pdu = Record("master").send.pdu
  OBVIOUS
<1>2. master' = SetMasterResult(master, "done", pdu, AfterRecv(master.ctx))
  BY <1>1 DEF MasterReads, SetMasterResult
<1>3. /\ master'.pc = "done" /\ master'.private = master.private /\ master'.id = master.id
      /\ master'.peer = master.peer /\ master'.ctx = AfterRecv(master.ctx)
  BY <1>2, MasterPcResultCtx DEF Shapes, MasterFields
<1> QED
  BY <1>3 DEF MasterReads, AnswerOk, SlaveRests, MasterContext

(* The master ends, by itself or killed *)
MasterFails ==
    /\ SlaveRests /\ verified' = verified /\ runs' = runs
    /\ master.pc \in MasterWaits /\ master'.pc = "failed" /\ master'.private = master.private
LEMMA MasterFailsMoves ==
    ASSUME Shapes,
           \/ MasterRejects \/ MasterGivesUp
           \/ Killed /\ master.pc \in MasterWaits /\ master' = [master EXCEPT !.pc = "failed"]
                     /\ UNCHANGED slave
    PROVE  MasterFails
<1>1. /\ master.pc \in MasterWaits /\ master' = [master EXCEPT !.pc = "failed"]
      /\ SlaveRests /\ verified' = verified /\ runs' = runs
  BY DEF MasterRejects, MasterGivesUp, Killed, SlaveRests
<1>2. master'.pc = "failed" /\ master'.private = master.private
  BY <1>1, MasterPc DEF Shapes, MasterFields
<1> QED
  BY <1>1, <1>2 DEF MasterFails

LEMMA SlaveStartsMoves ==
    ASSUME Shapes, SlaveStarts
    PROVE  /\ MasterRests /\ sessions' = sessions /\ runs'["slave"] = runs["slave"] + 1
           /\ slave.pc # "serving" /\ slave'.pc = "open_req"
<1>1. PICK a \in Addresses, pw \in Passwords, id \in ServerIds :
        slave' = [SlaveOff EXCEPT
                    !.pc = "open_req", !.addr = a, !.id = id,
                    !.private = private_from_password(pw, <<"slave", runs'["slave"]>>)]
  BY DEF SlaveStarts
<1>2. PICK private : private = private_from_password(pw, <<"slave", runs'["slave"]>>)
  OBVIOUS
<1>3. slave' = SlaveBegins(a, id, private)
  BY <1>1, <1>2 DEF SlaveBegins
<1>4. slave'.pc = "open_req"
  BY <1>3, NewSlave
<1> QED
  BY <1>4 DEF SlaveStarts, Shapes, Ends, MasterRests, SlaveWaits

LEMMA SlaveOpensMoves ==
    ASSUME Shapes, SlaveOpens
    PROVE  /\ MasterRests /\ sessions' = sessions /\ runs' = runs
           /\ slave.pc = "open_req" /\ slave'.pc = "first_req"
BY SlavePc DEF SlaveOpens, OpenReqOk, Shapes, MasterRests

LEMMA SlaveAnswersPointMoves ==
    ASSUME Shapes, SlaveAnswersPoint
    PROVE  /\ MasterRests /\ sessions' = sessions /\ runs' = runs
           /\ slave.pc = "first_req" /\ slave'.pc = "final_req"
<1>1. PICK peer : peer = [point |-> Record("slave").send.R_H]
  OBVIOUS
<1>2. slave' = SetSlavePeer(slave, "final_req", peer)
  BY <1>1 DEF SlaveAnswersPoint, SetSlavePeer
<1>3. slave'.pc = "final_req"
  BY <1>2, SlavePcPeer DEF Shapes
<1> QED
  BY <1>3 DEF SlaveAnswersPoint, FirstReqOk, MasterRests

LEMMA SlaveEstablishesMoves ==
    ASSUME Shapes, SlaveEstablishes, NEW ctx, ctx = SlaveContext(Record("slave").send)
    PROVE  /\ MasterRests /\ runs' = runs
           /\ sessions' = sessions \cup {[run |-> runs["slave"], ctx |-> ctx]}
           /\ slave.pc = "final_req" /\ slave'.pc = "serving" /\ slave'.ctx = ctx
           /\ IsContext(ctx) /\ ctx.recv_counter = 1
<1>1. slave' = SetSlaveCtx(slave, "serving", ctx)
  BY DEF SlaveEstablishes, SetSlaveCtx
<1>2. slave'.pc = "serving" /\ slave'.ctx = ctx
  BY <1>1, SlavePcCtx DEF Shapes
<1>3. IsContext(ctx) /\ ctx.recv_counter = 1
  BY DEF IsContext, ContextFields, SlaveContext, SessionContext
<1> QED
  BY <1>2, <1>3 DEF SlaveEstablishes, FinalReqOk, MasterRests

LEMMA Counted ==
    ASSUME NEW ctx, IsContext(ctx), NEW new, new = AfterSend(AfterRecv(ctx))
    PROVE  /\ IsContext(new) /\ new.recv_counter = ctx.recv_counter + 1
           /\ new.keys = ctx.keys /\ new.peer_point = ctx.peer_point
<1> DEFINE got == AfterRecv(ctx)
<1>1. /\ got = [x \in ContextFields |-> got[x]] /\ got.recv_counter = ctx.recv_counter + 1
      /\ \A x \in ContextFields \ {"recv_counter"} : got[x] = ctx[x]
  BY FieldSet DEF IsContext, ContextFields, AfterRecv
<1> HIDE DEF got
<1>2. new = [got EXCEPT !.send_counter = got.send_counter + 1]
  BY DEF AfterSend, got
<1>3. /\ new = [x \in ContextFields |-> new[x]]
      /\ \A x \in ContextFields \ {"send_counter"} : new[x] = got[x]
  BY <1>1, <1>2, FieldSet DEF ContextFields
<1> QED
  BY <1>1, <1>3 DEF IsContext, ContextFields

LEMMA SlaveServesMoves ==
    ASSUME Shapes, Once, SlaveServes
    PROVE  /\ MasterRests /\ sessions' = sessions /\ runs' = runs
           /\ slave.pc = "serving" /\ slave'.pc = "serving"
           /\ line["slave"] # <<>> /\ Data(Record("slave"))
           /\ Record("slave").send.key = slave.ctx.keys.ck
           /\ IsContext(slave'.ctx) /\ slave'.ctx.recv_counter = slave.ctx.recv_counter + 1
           /\ slave'.ctx.keys = slave.ctx.keys /\ slave'.ctx.peer_point = slave.ctx.peer_point
<1>1. PICK ctx : ctx = AfterSend(AfterRecv(slave.ctx))
  OBVIOUS
<1>2. slave' = [slave EXCEPT !.ctx = ctx]
  BY <1>1 DEF SlaveServes
<1>3. slave'.ctx = ctx /\ slave'.pc = slave.pc
  BY <1>2, SlaveCtx DEF Shapes, SlaveFields
<1>4. slave.pc = "serving"
  BY DEF SlaveServes, RequestOk
<1>5. /\ IsContext(ctx) /\ ctx.recv_counter = slave.ctx.recv_counter + 1
      /\ ctx.keys = slave.ctx.keys /\ ctx.peer_point = slave.ctx.peer_point
  BY <1>1, <1>4, Counted DEF Once, ServesSession
<1>6. /\ line["slave"] # <<>> /\ Data(Record("slave"))
      /\ Record("slave").send.key = slave.ctx.keys.ck
  BY DEF SlaveServes, RequestOk, Gets, Decrypts, Data, Record
<1> QED
  BY <1>3, <1>4, <1>5, <1>6 DEF SlaveServes, MasterRests

(* The slave ends, by itself or killed *)
SlaveStops ==
    /\ MasterRests /\ sessions' = sessions /\ runs' = runs
    /\ slave.pc \in SlaveWaits /\ slave'.pc \in {"exited", "died"}
LEMMA SlaveStopsMoves ==
    ASSUME Shapes,
           \/ SlaveRejects \/ SlaveGivesUp
           \/ Killed /\ slave.pc \in SlaveWaits /\ slave' = [slave EXCEPT !.pc = "died"]
                     /\ UNCHANGED master
    PROVE  SlaveStops
<1>1. /\ slave.pc \in SlaveWaits
      /\ MasterRests /\ sessions' = sessions /\ runs' = runs
  BY DEF SlaveRejects, SlaveGivesUp, Killed, MasterRests
<1>2. PICK v \in {"exited", "died"} : slave' = [slave EXCEPT !.pc = v]
  BY DEF SlaveRejects, SlaveGivesUp
<1>3. slave'.pc = v
  BY <1>2, SlavePc DEF Shapes
<1> QED
  BY <1>1, <1>3 DEF SlaveStops

-----------------------------------------------------------------------------
(* Once is inductive *)

LEMMA SlaveRestsOnce ==
    ASSUME Once, SlaveRests
    PROVE  EstablishedOnce' /\ ServesSession'
BY DEF Once, SlaveRests, EstablishedOnce, ServesSession

LEMMA MasterRestsOnce ==
    ASSUME Once, MasterRests
    PROVE  RunsBounded' /\ LastRunKnown' /\ VerifiedOnce'
BY DEF Once, MasterRests, RunsBounded, LastRunKnown, VerifiedOnce

LEMMA MasterGoesOn ==
    ASSUME Shapes, Once, verified' = verified, runs'["master"] = runs["master"],
           \/ master.pc = "open_cnf" \/ master'.pc \notin {"open_cnf", "data_cnf"}
    PROVE  RunsBounded' /\ VerifiedOnce'
<1>1. RunsBounded'
  BY DEF Once, RunsBounded
<1>2. ASSUME NEW m \in verified
      PROVE  /\ m.run \in 1..runs'["master"]
             /\ m.ctx.local_point.point.random = <<"master", m.run>>
             /\ m.run = runs'["master"] => master'.pc \notin {"open_cnf", "data_cnf"}
             /\ \A v \in verified : v.run = m.run => v = m
  BY DEF Once, VerifiedOnce
<1> QED
  BY <1>1, <1>2 DEF VerifiedOnce

LEMMA LastRunStays ==
    ASSUME Once, runs' = runs, master'.private = master.private,
           master'.pc \in {"open_cnf", "data_cnf", "final_cnf", "failed"}
    PROVE  LastRunKnown'
BY DEF Once, LastRunKnown, MasterWaits

LEMMA SlaveGoesOn ==
    ASSUME Shapes, Once, sessions' = sessions, runs'["slave"] = runs["slave"],
           \/ slave.pc \in {"open_req", "first_req"}
           \/ slave'.pc \notin {"open_req", "first_req", "final_req"}
    PROVE  EstablishedOnce'
BY DEF Once, EstablishedOnce

LEMMA MasterStartsOnce ==
    ASSUME Shapes, Once, MasterStarts
    PROVE  Once'
<1>1. /\ SlaveRests /\ verified' = verified
      /\ runs["master"] < MaxMasterRuns /\ runs'["master"] = runs["master"] + 1
      /\ master'.pc = "open_cnf" /\ master'.private.random = <<"master", runs'["master"]>>
  BY MasterStartsMoves
<1>2. runs["master"] \in Nat /\ MaxMasterRuns \in Nat
  BY PskAssumption DEF Shapes, Ends
<1>3. RunsBounded'
  BY <1>1, <1>2 DEF RunsBounded
<1>4. ASSUME NEW m \in verified
      PROVE  m.run \in 1..runs'["master"] /\ m.run # runs'["master"]
  BY <1>1, <1>2 DEF Once, VerifiedOnce
<1>5. VerifiedOnce'
  BY <1>1, <1>4 DEF Once, VerifiedOnce
<1>6. LastRunKnown'
  BY <1>1 DEF LastRunKnown, MasterWaits
<1> QED
  BY <1>1, <1>3, <1>5, <1>6, SlaveRestsOnce DEF Once

LEMMA MasterVerifiesOnce ==
    ASSUME Shapes, IInv, Once, MasterVerifies
    PROVE  Once'
<1>1. /\ SlaveRests /\ runs' = runs /\ master.pc = "data_cnf" /\ master'.pc = "final_cnf"
  BY MasterVerifiesMoves
<1>2. PICK m : /\ verified' = verified \cup {m} /\ m.run = runs["master"]
               /\ m.ctx.local_point = Point(master.private)
  BY MasterVerifiesMoves
<1>3. runs["master"] \in Nat \ {0} /\ master.private.random = <<"master", runs["master"]>>
  BY <1>1 DEF IInv, RunsNamed, MasterWaits, Shapes, Ends
<1>4. m.ctx.local_point.point.random = <<"master", m.run>> /\ m.run \in 1..runs["master"]
  BY <1>2, <1>3 DEF Point
<1>5. \A v \in verified : v.run # m.run
  BY <1>1, <1>2 DEF Once, VerifiedOnce
<1>6. VerifiedOnce'
  BY <1>1, <1>2, <1>4, <1>5 DEF Once, VerifiedOnce
<1>7. RunsBounded' /\ LastRunKnown'
  BY <1>1, MasterVerifiesMoves, LastRunStays DEF Once, RunsBounded
<1> QED
  BY <1>1, <1>6, <1>7, SlaveRestsOnce DEF Once

LEMMA SlaveStartsOnce ==
    ASSUME Shapes, Once, SlaveStarts
    PROVE  Once'
<1>1. /\ MasterRests /\ sessions' = sessions /\ runs'["slave"] = runs["slave"] + 1
      /\ slave'.pc = "open_req"
  BY SlaveStartsMoves
<1>2. runs["slave"] \in Nat
  BY DEF Shapes, Ends
<1>3. ASSUME NEW s \in sessions
      PROVE  s.run \in 1..runs'["slave"] /\ s.run # runs'["slave"]
  BY <1>1, <1>2 DEF Once, EstablishedOnce
<1>4. EstablishedOnce'
  BY <1>1, <1>3 DEF EstablishedOnce
<1>5. ServesSession'
  BY <1>1 DEF ServesSession
<1> QED
  BY <1>1, <1>4, <1>5, MasterRestsOnce DEF Once

LEMMA SlaveEstablishesOnce ==
    ASSUME Shapes, IInv, Once, SlaveEstablishes
    PROVE  Once'
<1>1. PICK ctx : ctx = SlaveContext(Record("slave").send)
  OBVIOUS
<1>2. PICK s : s = [run |-> runs["slave"], ctx |-> ctx]
  OBVIOUS
<1>3. /\ MasterRests /\ runs' = runs /\ sessions' = sessions \cup {s}
      /\ slave.pc = "final_req" /\ slave'.pc = "serving" /\ slave'.ctx = ctx
      /\ IsContext(ctx) /\ ctx.recv_counter = 1
  BY <1>1, <1>2, SlaveEstablishesMoves
<1>4. s.run = runs["slave"] /\ s.ctx = ctx
  BY <1>2
<1>5. runs["slave"] \in Nat \ {0}
  BY <1>3 DEF IInv, RunsNamed, SlaveWaits, Shapes, Ends
<1>6. EstablishedOnce'
  BY <1>3, <1>4, <1>5 DEF Once, EstablishedOnce
<1>7. ServesSession'
  BY <1>3, <1>4 DEF ServesSession
<1> QED
  BY <1>3, <1>6, <1>7, MasterRestsOnce DEF Once

LEMMA SlaveServesOnce ==
    ASSUME Shapes, Once, SlaveServes
    PROVE  Once'
<1>1. /\ MasterRests /\ sessions' = sessions /\ runs' = runs
      /\ slave.pc = "serving" /\ slave'.pc = "serving"
      /\ IsContext(slave'.ctx) /\ slave'.ctx.recv_counter = slave.ctx.recv_counter + 1
      /\ slave'.ctx.keys = slave.ctx.keys /\ slave'.ctx.peer_point = slave.ctx.peer_point
  BY SlaveServesMoves
<1>2. EstablishedOnce'
  BY <1>1, SlaveGoesOn
<1>3. ServesSession'
  BY <1>1 DEF Once, ServesSession
<1> QED
  BY <1>1, <1>2, <1>3, MasterRestsOnce DEF Once

LEMMA OnceStep ==
    ASSUME Shapes, IInv, Once, [Next]_vars
    PROVE  Once'
<1>1. CASE MasterOffersPoint
  BY <1>1, MasterOffersPointMoves, MasterGoesOn, LastRunStays, SlaveRestsOnce DEF Once
<1>2. CASE MasterAsks
  <2>1. LastRunKnown'
    BY <1>2, MasterAsksMoves DEF Once, LastRunKnown, MasterWaits
  <2> QED
    BY <1>2, <2>1, MasterAsksMoves, MasterGoesOn, SlaveRestsOnce DEF Once
<1>3. CASE MasterReads
  <2>1. LastRunKnown'
    <3>1. runs["master"] > 0 => master'.ctx.local_point = Point(master.private)
      BY <1>3, MasterReadsMoves, ContextReceived DEF Once, LastRunKnown
    <3> QED
      BY <1>3, <3>1, MasterReadsMoves DEF Once, LastRunKnown
  <2> QED
    BY <1>3, <2>1, MasterReadsMoves, MasterGoesOn, SlaveRestsOnce DEF Once
<1>4. CASE MasterFails
  BY <1>4, MasterGoesOn, LastRunStays, SlaveRestsOnce DEF Once, MasterFails
<1>5. CASE SlaveOpens
  <2>1. ServesSession'
    BY <1>5, SlaveOpensMoves DEF ServesSession
  <2> QED
    BY <1>5, <2>1, SlaveOpensMoves, SlaveGoesOn, MasterRestsOnce DEF Once
<1>6. CASE SlaveAnswersPoint
  <2>1. ServesSession'
    BY <1>6, SlaveAnswersPointMoves DEF ServesSession
  <2> QED
    BY <1>6, <2>1, SlaveAnswersPointMoves, SlaveGoesOn, MasterRestsOnce DEF Once
<1>7. CASE SlaveStops
  <2>1. ServesSession'
    BY <1>7 DEF SlaveStops, ServesSession
  <2> QED
    BY <1>7, <2>1, SlaveGoesOn, MasterRestsOnce DEF Once, SlaveStops
<1>8. CASE Noise \/ UNCHANGED vars
  <2>1. MasterRests /\ SlaveRests
    BY <1>8 DEF Noise, vars, MasterRests, SlaveRests
  <2> QED
    BY <2>1, MasterRestsOnce, SlaveRestsOnce DEF Once
<1>9. CASE Killed
  <2>1. MasterFails \/ SlaveStops
    BY <1>9, MasterFailsMoves, SlaveStopsMoves DEF Killed
  <2> QED
    BY <1>4, <1>7, <2>1
<1> QED
  BY <1>1, <1>2, <1>3, <1>4, <1>5, <1>6, <1>7, <1>8, <1>9, MasterFailsMoves, SlaveStopsMoves,
     MasterStartsOnce, MasterVerifiesOnce, SlaveStartsOnce, SlaveEstablishesOnce, SlaveServesOnce
  DEF Next

-----------------------------------------------------------------------------
(* Which changes of the phases and keys are steps of SecureChannel *)

MasterOthers(n) ==
    \A i \in Conns \ {n} : MasterPhase(i)' = MasterPhase(i) /\ MasterKey(i)' = MasterKey(i)
SlaveOthers(n) ==
    \A i \in Conns \ {n} : SlavePhase(i)' = SlavePhase(i) /\ SlaveKey(i)' = SlaveKey(i)
MasterStays == \A i \in Conns : MasterPhase(i)' = MasterPhase(i) /\ MasterKey(i)' = MasterKey(i)
SlaveStays == \A i \in Conns : SlavePhase(i)' = SlavePhase(i) /\ SlaveKey(i)' = SlaveKey(i)
OnlyHeldAt(n, key) == \A i \in Conns \ {n} : MasterKey(i) # key /\ SlaveKey(i) # key
Kept == [Promise!Next]_(Promise!vars)

LEMMA Stays ==
    /\ MasterStays => UNCHANGED <<[n \in Conns |-> MasterPhase(n)], [n \in Conns |-> MasterKey(n)]>>
    /\ SlaveStays => UNCHANGED <<[n \in Conns |-> SlavePhase(n)], [n \in Conns |-> SlaveKey(n)]>>
BY DEF MasterStays, SlaveStays

LEMMA NothingPromised ==
    ASSUME MasterStays, SlaveStays
    PROVE  Kept
BY Stays DEF Kept, Promise!vars

LEMMA PromisedMasterInstalls ==
    ASSUME NEW n \in Conns, MasterOthers(n), SlaveStays,
           MasterPhase(n) = "opening", MasterPhase(n)' = "keyed",
           MasterKey(n)' # NoKey, OnlyHeldAt(n, MasterKey(n)')
    PROVE  Kept
<1> DEFINE phases == [i \in Conns |-> MasterPhase(i)]
           keys == [i \in Conns |-> MasterKey(i)]
<1>1. phases' = [phases EXCEPT ![n] = "keyed"]
  BY DEF MasterOthers
<1>2. keys' = [keys EXCEPT ![n] = keys'[n]] /\ keys'[n] = MasterKey(n)'
  BY DEF MasterOthers
<1>3. Promise!MasterInstalls(n)
  BY <1>1, <1>2, Stays DEF OnlyHeldAt, Promise!MasterInstalls, Promise!HeldElsewhere
<1> QED
  BY <1>3 DEF Kept, Promise!Next

LEMMA PromisedSlaveInstalls ==
    ASSUME NEW n \in Conns, SlaveOthers(n), MasterStays,
           SlavePhase(n) = "opening", SlavePhase(n)' = "keyed",
           SlaveKey(n)' # NoKey, OnlyHeldAt(n, SlaveKey(n)'),
           \/ MasterPhase(n) = "keyed" /\ SlaveKey(n)' = MasterKey(n)
           \/ MasterPhase(n) = "over"
    PROVE  Kept
<1> DEFINE phases == [i \in Conns |-> SlavePhase(i)]
           keys == [i \in Conns |-> SlaveKey(i)]
<1>1. phases' = [phases EXCEPT ![n] = "keyed"]
  BY DEF SlaveOthers
<1>2. keys' = [keys EXCEPT ![n] = keys'[n]] /\ keys'[n] = SlaveKey(n)'
  BY DEF SlaveOthers
<1>3. Promise!SlaveInstalls(n)
  BY <1>1, <1>2, Stays DEF OnlyHeldAt, Promise!SlaveInstalls, Promise!HeldElsewhere
<1> QED
  BY <1>3 DEF Kept, Promise!Next

LEMMA PromisedMasterServes ==
    ASSUME NEW n \in Conns, MasterOthers(n), SlaveStays,
           MasterPhase(n) = "keyed", MasterPhase(n)' = "ready",
           MasterKey(n)' = MasterKey(n), SlavePhase(n) # "opening"
    PROVE  Kept
<1> DEFINE phases == [i \in Conns |-> MasterPhase(i)]
           keys == [i \in Conns |-> MasterKey(i)]
<1>1. phases' = [phases EXCEPT ![n] = "ready"] /\ keys' = keys
  BY DEF MasterOthers
<1>2. Promise!MasterServes(n)
  BY <1>1, Stays DEF Promise!MasterServes
<1> QED
  BY <1>2 DEF Kept, Promise!Next

LEMMA PromisedSlaveServes ==
    ASSUME NEW n \in Conns, SlaveOthers(n), MasterStays,
           SlavePhase(n) = "keyed", SlavePhase(n)' = "ready",
           SlaveKey(n)' = SlaveKey(n), MasterPhase(n) # "keyed"
    PROVE  Kept
<1> DEFINE phases == [i \in Conns |-> SlavePhase(i)]
           keys == [i \in Conns |-> SlaveKey(i)]
<1>1. phases' = [phases EXCEPT ![n] = "ready"] /\ keys' = keys
  BY DEF SlaveOthers
<1>2. Promise!SlaveServes(n)
  BY <1>1, Stays DEF Promise!SlaveServes
<1> QED
  BY <1>2 DEF Kept, Promise!Next

LEMMA PromisedMasterEnds ==
    ASSUME NEW E \in SUBSET Conns, SlaveStays,
           \A i \in E : MasterPhase(i)' = "over" /\ MasterKey(i)' = NoKey,
           \A i \in Conns \ E : MasterPhase(i)' = MasterPhase(i) /\ MasterKey(i)' = MasterKey(i)
    PROVE  Kept
<1> DEFINE phases == [i \in Conns |-> MasterPhase(i)]
           keys == [i \in Conns |-> MasterKey(i)]
<1>1. /\ phases' = [i \in Conns |-> IF i \in E THEN "over" ELSE phases[i]]
      /\ keys' = [i \in Conns |-> IF i \in E THEN NoKey ELSE keys[i]]
  OBVIOUS
<1>2. Promise!MasterEnds
  BY <1>1, Stays DEF Promise!MasterEnds
<1> QED
  BY <1>2 DEF Kept, Promise!Next

LEMMA PromisedSlaveEnds ==
    ASSUME NEW E \in SUBSET Conns, MasterStays,
           \A i \in E : SlavePhase(i)' = "over" /\ SlaveKey(i)' = NoKey,
           \A i \in Conns \ E : SlavePhase(i)' = SlavePhase(i) /\ SlaveKey(i)' = SlaveKey(i)
    PROVE  Kept
<1> DEFINE phases == [i \in Conns |-> SlavePhase(i)]
           keys == [i \in Conns |-> SlaveKey(i)]
<1>1. /\ phases' = [i \in Conns |-> IF i \in E THEN "over" ELSE phases[i]]
      /\ keys' = [i \in Conns |-> IF i \in E THEN NoKey ELSE keys[i]]
  OBVIOUS
<1>2. Promise!SlaveEnds
  BY <1>1, Stays DEF Promise!SlaveEnds
<1> QED
  BY <1>2 DEF Kept, Promise!Next

-----------------------------------------------------------------------------
(* The phases, from the programs *)

MasterPhaseIs(n) ==
    /\ n > runs["master"] => MasterPhase(n) = "opening" /\ MasterKey(n) = NoKey
    /\ n < runs["master"] => MasterPhase(n) = "over" /\ MasterKey(n) = NoKey
    /\ n = runs["master"] =>
          /\ master.pc = "failed" => MasterPhase(n) = "over" /\ MasterKey(n) = NoKey
          /\ master.pc = "final_cnf" =>
                MasterPhase(n) = "keyed" /\ MasterKey(n) = MasterContext.keys.ck
          /\ master.pc \in {"answer", "done"} =>
                MasterPhase(n) = "ready" /\ MasterKey(n) = MasterContext.keys.ck
          /\ master.pc \in {"open_cnf", "data_cnf"} =>
                MasterPhase(n) = "opening" /\ MasterKey(n) = NoKey
Serves(n) == slave.pc = "serving" /\ SessionWith(n, slave.ctx)
HadSession(n) == \E s \in sessions : SessionWith(n, s.ctx)
SlavePhaseIs(n) ==
    /\ Serves(n) => /\ SlavePhase(n) = IF slave.ctx.recv_counter = 1 THEN "keyed" ELSE "ready"
                    /\ SlaveKey(n) = slave.ctx.keys.ck
    /\ ~Serves(n) => /\ SlavePhase(n) = IF HadSession(n) THEN "over" ELSE "opening"
                     /\ SlaveKey(n) = NoKey

LEMMA MasterPhases ==
    ASSUME NEW n \in Conns, Shapes, Shapes'
    PROVE  MasterPhaseIs(n) /\ MasterPhaseIs(n)'
<1>1. n \in Nat /\ runs["master"] \in Nat /\ runs'["master"] \in Nat
  BY PskAssumption DEF Shapes, Ends, Conns
<1>2. MasterPhaseIs(n)
  BY <1>1 DEF MasterPhaseIs, MasterPhase, MasterKey, Held
<1>3. MasterPhaseIs(n)'
  BY <1>1 DEF MasterPhaseIs, MasterPhase, MasterKey, Held
<1> QED
  BY <1>2, <1>3

LEMMA SlavePhases ==
    ASSUME NEW n
    PROVE  SlavePhaseIs(n) /\ SlavePhaseIs(n)'
<1>1. SlavePhaseIs(n)
  BY DEF SlavePhaseIs, SlavePhase, SlaveKey, Held, Serves, HadSession
<1>2. SlavePhaseIs(n)'
  BY DEF SlavePhaseIs, SlavePhase, SlaveKey, Held, Serves, HadSession
<1> QED
  BY <1>1, <1>2

LEMMA EndsRest ==
    /\ SlaveRests => SlaveStays
    /\ MasterRests => MasterStays
<1>1. ASSUME SlaveRests PROVE SlaveStays
  BY <1>1 DEF SlaveRests, SlaveStays, SlavePhase, SlaveKey
<1>2. ASSUME MasterRests PROVE MasterStays
  BY <1>2 DEF MasterRests, MasterStays, MasterPhase, MasterKey, MasterContext
<1> QED
  BY <1>1, <1>2

(* A run of the master that is not the last one is not affected by a step   *)
(* of the master that starts no run                                         *)
LEMMA OtherRuns ==
    ASSUME Shapes, Shapes', runs' = runs, NEW n, n = runs["master"]
    PROVE  MasterOthers(n)
<1> SUFFICES ASSUME NEW i \in Conns \ {n}
             PROVE  MasterPhase(i)' = MasterPhase(i) /\ MasterKey(i)' = MasterKey(i)
  BY DEF MasterOthers
<1>1. i \in Nat /\ runs["master"] \in Nat
  BY PskAssumption DEF Shapes, Ends, Conns
<1>2. i < runs["master"] \/ i > runs["master"]
  BY <1>1
<1> QED
  BY <1>2, MasterPhases DEF MasterPhaseIs

(* The run under way is a connection *)
LEMMA LastRun ==
    ASSUME Shapes, IInv, Once, master.pc \in MasterWaits
    PROVE  runs["master"] \in Conns
BY PskAssumption DEF IInv, RunsNamed, Once, RunsBounded, Shapes, Ends, Conns

-----------------------------------------------------------------------------
(* The steps *)

LEMMA MasterStartsKept ==
    ASSUME Shapes, Shapes', MasterStarts
    PROVE  Kept
<1> DEFINE E == {runs["master"]} \cap Conns
<1>1. /\ SlaveStays /\ master'.pc = "open_cnf" /\ runs'["master"] = runs["master"] + 1
  BY MasterStartsMoves, EndsRest
<1>2. ASSUME NEW i \in E PROVE MasterPhase(i)' = "over" /\ MasterKey(i)' = NoKey
  <2>1. i \in Nat /\ i < runs'["master"]
    BY <1>1 DEF Shapes, Ends
  <2> QED
    BY <2>1, MasterPhases DEF MasterPhaseIs
<1>3. ASSUME NEW i \in Conns \ E
      PROVE  MasterPhase(i)' = MasterPhase(i) /\ MasterKey(i)' = MasterKey(i)
  <2>1. i \in Nat /\ runs["master"] \in Nat /\ i # runs["master"]
    BY PskAssumption DEF Shapes, Ends, Conns
  <2>2. CASE i < runs["master"]
    <3>1. i < runs'["master"]
      BY <1>1, <2>1, <2>2
    <3> QED
      BY <2>2, <3>1, MasterPhases DEF MasterPhaseIs
  <2>3. CASE i > runs["master"]
    <3>1. i = runs'["master"] \/ i > runs'["master"]
      BY <1>1, <2>1, <2>3
    <3> QED
      BY <1>1, <2>3, <3>1, MasterPhases DEF MasterPhaseIs
  <2> QED
    BY <2>1, <2>2, <2>3
<1>4. E \in SUBSET Conns
  OBVIOUS
<1> QED
  BY <1>1, <1>2, <1>3, <1>4, PromisedMasterEnds

LEMMA MasterOffersPointKept ==
    ASSUME Shapes, Shapes', IInv, Once, MasterOffersPoint
    PROVE  Kept
<1>1. /\ SlaveStays /\ runs' = runs /\ master.pc = "open_cnf" /\ master'.pc = "data_cnf"
  BY MasterOffersPointMoves, EndsRest
<1>2. runs["master"] \in Conns
  BY <1>1, LastRun DEF MasterWaits
<1>3. MasterOthers(runs["master"])
  BY <1>1, OtherRuns
<1>4. MasterStays
  BY <1>1, <1>2, <1>3, MasterPhases DEF MasterPhaseIs, MasterOthers, MasterStays
<1> QED
  BY <1>1, <1>4, NothingPromised

(* The key of a slave's session names the run of the master it is with,      *)
(* and only that one                                                        *)
LEMMA ServedKey ==
    ASSUME IInv, Once, slave.pc = "serving",
           NEW p \in slave.ctx.keys.ck[1], NEW n, p.point.random = <<"master", n>>
    PROVE  SessionWith(n, slave.ctx)
<1>1. PICK s \in sessions : /\ s.ctx.peer_point = slave.ctx.peer_point
                            /\ s.ctx.keys = slave.ctx.keys
  BY DEF Once, ServesSession
<1>2. /\ s.ctx.local_point.point.random = <<"slave", s.run>>
      /\ s.ctx.keys.ck[1] = {s.ctx.local_point, s.ctx.peer_point}
  BY DEF IInv, GhostsOk
<1>3. p = s.ctx.peer_point
  BY <1>1, <1>2
<1> QED
  BY <1>1, <1>3 DEF SessionWith

LEMMA MasterVerifiesKept ==
    ASSUME Shapes, Shapes', IInv, Once, MasterVerifies
    PROVE  Kept
<1> DEFINE n == runs["master"]
           key == MasterContext'.keys.ck
<1>1. /\ SlaveStays /\ runs' = runs /\ master.pc = "data_cnf" /\ master'.pc = "final_cnf"
      /\ master'.private = master.private
  BY MasterVerifiesMoves, EndsRest
<1>2. n \in Conns
  BY <1>1, LastRun DEF MasterWaits
<1>3. MasterOthers(n)
  BY <1>1, OtherRuns
<1>4. MasterPhase(n) = "opening" /\ MasterPhase(n)' = "keyed" /\ MasterKey(n)' = key
  BY <1>1, <1>2, MasterPhases DEF MasterPhaseIs
<1>5. key # NoKey /\ Point(master.private) \in key[1]
  BY <1>1 DEF MasterContext, SessionContext, derive_content_keys, Shared, NoKey
<1>6. Point(master.private).point.random = <<"master", n>>
  BY <1>1 DEF IInv, RunsNamed, MasterWaits, Point
<1> HIDE DEF key
<1>7. ASSUME NEW i \in Conns \ {n} PROVE MasterKey(i) # key /\ SlaveKey(i) # key
  <2>1. MasterKey(i) = NoKey
    <3>1. i \in Nat /\ n \in Nat
      BY <1>2 DEF Conns
    <3> QED
      BY <3>1, MasterPhases DEF MasterPhaseIs
  <2>2. SlaveKey(i) # key
    <3>1. CASE ~Serves(i)
      BY <1>5, <3>1, SlavePhases DEF SlavePhaseIs
    <3>2. CASE Serves(i)
      <4> SUFFICES ASSUME SlaveKey(i) = key PROVE FALSE
        OBVIOUS
      <4>1. slave.ctx.keys.ck = key
        BY <3>2, SlavePhases DEF SlavePhaseIs
      <4>2. SessionWith(n, slave.ctx)
        BY <1>5, <1>6, <3>2, <4>1, ServedKey DEF Serves
      <4> QED
        BY <3>2, <4>2 DEF Serves, SessionWith
    <3> QED
      BY <3>1, <3>2
  <2> QED
    BY <1>5, <2>1, <2>2
<1>8. OnlyHeldAt(n, MasterKey(n)')
  BY <1>4, <1>7 DEF OnlyHeldAt
<1> QED
  BY <1>1, <1>2, <1>3, <1>4, <1>5, <1>8, PromisedMasterInstalls

LEMMA MasterAsksKept ==
    ASSUME Shapes, Shapes', IInv, Once, MasterAsks
    PROVE  Kept
<1> DEFINE n == runs["master"]
<1>1. /\ SlaveStays /\ runs' = runs /\ master.pc = "final_cnf" /\ master'.pc = "answer"
      /\ MasterContext' = MasterContext
  BY MasterAsksMoves, EndsRest
<1>2. n \in Conns
  BY <1>1, LastRun DEF MasterWaits
<1>3. MasterOthers(n)
  BY <1>1, OtherRuns
<1>4. MasterPhase(n) = "keyed" /\ MasterPhase(n)' = "ready" /\ MasterKey(n)' = MasterKey(n)
  BY <1>1, <1>2, MasterPhases DEF MasterPhaseIs
<1>5. Established(MasterContext)
  <2>1. 1 \in DOMAIN line["master"] /\ line["master"][1].tag = "ss_sk_data_cnf"
    BY MasterAsksMoves, QueueFacts DEF Shapes, IsLine, Ends
  <2> QED
    BY <1>1, <2>1 DEF IInv, LineOk, ConfirmsThis
<1>6. HadSession(n)
  <2>1. PICK s \in sessions : s.ctx.peer_point = MasterContext.local_point
    BY <1>5 DEF Established, SameSession
  <2>2. MasterContext.local_point.point.random = <<"master", n>>
    BY <1>1 DEF IInv, RunsNamed, MasterWaits, MasterContext, SessionContext, Point
  <2> QED
    BY <2>1, <2>2 DEF HadSession, SessionWith
<1>7. SlavePhase(n) # "opening"
  BY <1>6, SlavePhases DEF SlavePhaseIs
<1> QED
  BY <1>1, <1>2, <1>3, <1>4, <1>7, PromisedMasterServes

LEMMA MasterReadsKept ==
    ASSUME Shapes, Shapes', IInv, Once, MasterReads
    PROVE  Kept
<1>1. /\ SlaveStays /\ runs' = runs /\ master.pc = "answer" /\ master'.pc = "done"
      /\ MasterContext' = MasterContext
  BY MasterReadsMoves, EndsRest
<1>2. MasterOthers(runs["master"])
  BY <1>1, OtherRuns
<1>3. MasterStays
  BY <1>1, <1>2, MasterPhases DEF MasterPhaseIs, MasterOthers, MasterStays
<1> QED
  BY <1>1, <1>3, NothingPromised

LEMMA MasterFailsKept ==
    ASSUME Shapes, Shapes', MasterFails
    PROVE  Kept
<1> DEFINE E == {runs["master"]} \cap Conns
<1>1. SlaveStays /\ runs' = runs /\ master'.pc = "failed"
  BY EndsRest DEF MasterFails
<1>2. ASSUME NEW i \in E PROVE MasterPhase(i)' = "over" /\ MasterKey(i)' = NoKey
  BY <1>1, MasterPhases DEF MasterPhaseIs
<1>3. ASSUME NEW i \in Conns \ E
      PROVE  MasterPhase(i)' = MasterPhase(i) /\ MasterKey(i)' = MasterKey(i)
  BY <1>1, OtherRuns DEF MasterOthers
<1>4. E \in SUBSET Conns
  OBVIOUS
<1> QED
  BY <1>1, <1>2, <1>3, <1>4, PromisedMasterEnds

LEMMA SlavePreparesKept ==
    ASSUME MasterRests, sessions' = sessions, slave.pc # "serving", slave'.pc # "serving"
    PROVE  Kept
<1>1. ASSUME NEW i \in Conns
      PROVE  SlavePhase(i)' = SlavePhase(i) /\ SlaveKey(i)' = SlaveKey(i)
  <2>1. ~Serves(i) /\ ~Serves(i)' /\ (HadSession(i)' <=> HadSession(i))
    BY DEF Serves, HadSession
  <2> QED
    BY <2>1, SlavePhases DEF SlavePhaseIs
<1>2. SlaveStays
  BY <1>1 DEF SlaveStays
<1> QED
  BY <1>2, EndsRest, NothingPromised

LEMMA SlaveStopsKept ==
    ASSUME Once, SlaveStops
    PROVE  Kept
<1> DEFINE E == {i \in Conns : Serves(i)}
<1>1. /\ MasterStays /\ sessions' = sessions /\ slave'.pc # "serving"
  BY EndsRest DEF SlaveStops
<1>2. ASSUME NEW i \in Conns
      PROVE  ~Serves(i)' /\ (HadSession(i)' <=> HadSession(i)) /\ (Serves(i) => HadSession(i))
  BY <1>1 DEF Serves, HadSession, Once, ServesSession, SessionWith
<1>3. ASSUME NEW i \in E PROVE SlavePhase(i)' = "over" /\ SlaveKey(i)' = NoKey
  BY <1>2, SlavePhases DEF SlavePhaseIs
<1>4. ASSUME NEW i \in Conns \ E
      PROVE  SlavePhase(i)' = SlavePhase(i) /\ SlaveKey(i)' = SlaveKey(i)
  BY <1>2, SlavePhases DEF SlavePhaseIs
<1>5. E \in SUBSET Conns
  OBVIOUS
<1> QED
  BY <1>1, <1>3, <1>4, <1>5, PromisedSlaveEnds

(* A request that a slave can decrypt was sent after the master's handshake *)
LEMMA AskedFirst ==
    ASSUME Shapes, Shapes', IInv, Once, SlaveServes, NEW n \in Conns, Serves(n)
    PROVE  MasterPhase(n) # "keyed"
<1>1. /\ line["slave"] # <<>> /\ Data(Record("slave"))
      /\ Record("slave").send.key = slave.ctx.keys.ck
  BY SlaveServesMoves
<1>2. KeyOld(slave.ctx.keys.ck)
  <2>1. 1 \in DOMAIN line["slave"] /\ line["slave"][1] = Record("slave")
    BY <1>1, QueueFacts DEF Shapes, IsLine, Ends, Record
  <2> QED
    BY <1>1, <2>1 DEF IInv, LineOk, RecordsTrue, RequestTrue
<1>3. slave.ctx.peer_point \in slave.ctx.keys.ck[1]
  BY DEF Serves, Once, ServesSession, IInv, GhostsOk
<1>4. Named(slave.ctx.peer_point, "master", Asked)
  BY <1>2, <1>3 DEF KeyOld, Named, Serves, SessionWith
<1>5. n \in 1..Asked /\ Asked \in Int
  BY <1>4, CountsAreInts DEF Named, Serves, SessionWith
<1>6. runs["master"] \in Nat
  BY DEF Shapes, Ends
<1>7. CASE n = runs["master"]
  <2>1. master.pc \notin {"open_cnf", "data_cnf", "final_cnf"}
    BY <1>5, <1>6, <1>7 DEF Asked
  <2> QED
    BY <1>7, <2>1 DEF MasterPhase
<1>8. CASE n # runs["master"]
  <2>1. n < runs["master"] \/ n > runs["master"]
    BY <1>5, <1>6, <1>8
  <2> QED
    BY <2>1, MasterPhases DEF MasterPhaseIs
<1> QED
  BY <1>7, <1>8

LEMMA SlaveServesKept ==
    ASSUME Shapes, Shapes', IInv, Once, SlaveServes
    PROVE  Kept
<1>1. /\ MasterStays /\ sessions' = sessions
      /\ slave.pc = "serving" /\ slave'.pc = "serving"
      /\ slave'.ctx.recv_counter = slave.ctx.recv_counter + 1
      /\ slave'.ctx.keys = slave.ctx.keys /\ slave'.ctx.peer_point = slave.ctx.peer_point
  BY SlaveServesMoves, EndsRest
<1>2. slave.ctx.recv_counter \in Nat \ {0}
  BY <1>1 DEF Once, ServesSession
<1>3. ASSUME NEW i \in Conns
      PROVE  /\ Serves(i)' <=> Serves(i)
             /\ HadSession(i)' <=> HadSession(i)
  BY <1>1 DEF Serves, HadSession, SessionWith
<1>4. ASSUME NEW i \in Conns, ~Serves(i)
      PROVE  SlavePhase(i)' = SlavePhase(i) /\ SlaveKey(i)' = SlaveKey(i)
  BY <1>3, <1>4, SlavePhases DEF SlavePhaseIs
<1>5. ASSUME NEW i \in Conns, Serves(i)
      PROVE  /\ SlaveKey(i)' = SlaveKey(i) /\ SlavePhase(i)' = "ready"
             /\ SlavePhase(i) = IF slave.ctx.recv_counter = 1 THEN "keyed" ELSE "ready"
  <2>1. slave'.ctx.recv_counter # 1
    BY <1>1, <1>2
  <2> QED
    BY <1>1, <1>3, <1>5, <2>1, SlavePhases DEF SlavePhaseIs
<1>6. CASE slave.ctx.recv_counter = 1 /\ \E n \in Conns : Serves(n)
  <2>1. PICK n \in Conns : Serves(n)
    BY <1>6
  <2>2. \A i \in Conns \ {n} : ~Serves(i)
    BY <2>1 DEF Serves, SessionWith
  <2>3. SlaveOthers(n)
    BY <1>4, <2>2 DEF SlaveOthers
  <2>4. MasterPhase(n) # "keyed"
    BY <2>1, AskedFirst
  <2> QED
    BY <1>1, <1>5, <1>6, <2>1, <2>3, <2>4, PromisedSlaveServes
<1>7. CASE ~(slave.ctx.recv_counter = 1 /\ \E n \in Conns : Serves(n))
  <2>1. SlaveStays
    BY <1>4, <1>5, <1>7 DEF SlaveStays
  <2> QED
    BY <1>1, <2>1, NothingPromised
<1> QED
  BY <1>6, <1>7

(* The run of the master that a confirmation comes from, which no session   *)
(* has been established with                                                *)
LEMMA FinalFrom ==
    ASSUME Shapes, IInv, Once, SlaveEstablishes,
           NEW ctx, ctx = SlaveContext(Record("slave").send)
    PROVE  \E m \in verified :
              /\ SameSession(m.ctx, ctx) /\ SessionWith(m.run, ctx) /\ ~HadSession(m.run)
              /\ m.run = runs["master"] /\ master.pc = "final_cnf" => m.ctx = MasterContext
              /\ ctx.keys.ck[1] = {Point(slave.private), ctx.peer_point}
<1> DEFINE send == Record("slave").send
           rh == slave.peer.point
<1>1. /\ slave.pc = "final_req" /\ line["slave"] # <<>> /\ Final(Record("slave"))
      /\ send.S_H = compute_master_auth(rh, Point(slave.private), Shared(slave.private, rh),
                                        send.CLIENT_ID)
  BY DEF SlaveEstablishes, FinalReqOk, Gets, Has, Final, Record
<1>2. 1 \in DOMAIN line["slave"] /\ line["slave"][1] = Record("slave")
  BY <1>1, QueueFacts DEF Shapes, IsLine, Ends, Record
<1>3. PICK m \in verified : FinalOf(send, m.ctx)
  BY <1>1, <1>2 DEF IInv, LineOk, RecordsTrue, RequestTrue
<1> HIDE DEF send
<1>4. SlaveIs(m.ctx.peer_point, m.ctx.server_id)
  BY DEF IInv, GhostsOk
<1>5. /\ SameSession(m.ctx, ctx)
      /\ ctx.local_point = Point(slave.private) /\ ctx.peer_point = rh
      /\ ctx.keys.ck[1] = {ctx.local_point, ctx.peer_point}
  BY <1>1, <1>3, <1>4, SlaveMatches DEF send
<1>6. SessionWith(m.run, ctx)
  BY <1>5 DEF SameSession, SessionWith, Once, VerifiedOnce
<1>7. ~HadSession(m.run)
  <2> SUFFICES ASSUME NEW s \in sessions, SessionWith(m.run, s.ctx) PROVE FALSE
    BY DEF HadSession
  <2>1. PICK v \in verified : SameSession(v.ctx, s.ctx)
    BY DEF IInv, GhostsOk
  <2>2. v.ctx.local_point.point.random = <<"master", v.run>>
    BY DEF Once, VerifiedOnce
  <2>3. v.run = m.run
    BY <2>1, <2>2 DEF SameSession, SessionWith
  <2>4. v = m
    BY <2>3 DEF Once, VerifiedOnce
  <2>5. s.ctx.local_point = Point(slave.private)
    BY <1>5, <2>1, <2>4 DEF SameSession
  <2>6. s.ctx.local_point.point.random = <<"slave", s.run>>
    BY DEF IInv, GhostsOk
  <2>7. slave.private.random = <<"slave", runs["slave"]>>
    BY <1>1 DEF IInv, RunsNamed, SlaveWaits
  <2>8. s.run = runs["slave"]
    BY <2>5, <2>6, <2>7 DEF Point
  <2> QED
    BY <1>1, <2>8 DEF Once, EstablishedOnce
<1>8. m.run = runs["master"] /\ master.pc = "final_cnf" => m.ctx = MasterContext
  <2> SUFFICES ASSUME m.run = runs["master"], master.pc = "final_cnf" PROVE m.ctx = MasterContext
    OBVIOUS
  <2>1. PICK v \in verified : v.ctx = MasterContext
    BY DEF IInv, LineOk, ConfirmsThis
  <2>2. v.ctx.local_point.point.random = <<"master", runs["master"]>>
    BY <2>1 DEF IInv, RunsNamed, MasterWaits, MasterContext, SessionContext, Point
  <2>3. v.run = runs["master"]
    BY <2>2 DEF Once, VerifiedOnce
  <2> QED
    BY <2>1, <2>3 DEF Once, VerifiedOnce
<1> QED
  BY <1>5, <1>6, <1>7, <1>8

LEMMA SlaveEstablishesKept ==
    ASSUME Shapes, Shapes', IInv, Once, SlaveEstablishes
    PROVE  Kept
<1>1. PICK ctx : ctx = SlaveContext(Record("slave").send)
  OBVIOUS
<1>2. PICK new : new = [run |-> runs["slave"], ctx |-> ctx]
  OBVIOUS
<1>3. /\ MasterStays /\ sessions' = sessions \cup {new} /\ new.ctx = ctx
      /\ slave.pc = "final_req" /\ slave'.pc = "serving" /\ slave'.ctx = ctx
      /\ ctx.recv_counter = 1
  BY <1>1, <1>2, SlaveEstablishesMoves, EndsRest
<1>4. PICK m \in verified :
        /\ SameSession(m.ctx, ctx) /\ SessionWith(m.run, ctx) /\ ~HadSession(m.run)
        /\ m.run = runs["master"] /\ master.pc = "final_cnf" => m.ctx = MasterContext
        /\ ctx.keys.ck[1] = {Point(slave.private), ctx.peer_point}
  BY <1>1, FinalFrom
<1> DEFINE n == m.run
<1>5. n \in Conns /\ n \in 1..runs["master"] /\ runs["master"] \in Nat
  BY PskAssumption DEF Once, VerifiedOnce, RunsBounded, Conns, Shapes, Ends
<1>6. ASSUME NEW i \in Conns
      PROVE  ~Serves(i) /\ (Serves(i)' <=> i = n) /\ (i # n => (HadSession(i)' <=> HadSession(i)))
  BY <1>3, <1>4 DEF Serves, HadSession, SessionWith
<1>7. SlaveOthers(n)
  BY <1>6, SlavePhases DEF SlavePhaseIs, SlaveOthers
<1>8. SlavePhase(n) = "opening" /\ SlavePhase(n)' = "keyed" /\ SlaveKey(n)' = ctx.keys.ck
  BY <1>3, <1>4, <1>5, <1>6, SlavePhases DEF SlavePhaseIs
<1>9. ctx.keys.ck # NoKey
  BY <1>1 DEF SlaveContext, SessionContext, derive_content_keys, NoKey
<1>10. ctx.peer_point.point.random = <<"master", n>>
  BY <1>4 DEF SessionWith
<1>11. slave.private.random = <<"slave", runs["slave"]>>
  BY <1>3 DEF IInv, RunsNamed, SlaveWaits
<1>12. OnlyHeldAt(n, ctx.keys.ck)
  <2> SUFFICES ASSUME NEW i \in Conns \ {n}
               PROVE  MasterKey(i) # ctx.keys.ck /\ SlaveKey(i) # ctx.keys.ck
    BY DEF OnlyHeldAt
  <2>1. SlaveKey(i) = NoKey
    BY <1>6, SlavePhases DEF SlavePhaseIs
  <2>2. CASE MasterKey(i) = NoKey
    BY <1>9, <2>1, <2>2
  <2>3. CASE MasterKey(i) # NoKey
    <3>1. i = runs["master"] /\ master.pc \in {"final_cnf", "answer", "done"}
      <4>1. i = runs["master"]
        <5>1. i \in Nat
          BY DEF Conns
        <5>2. ~(i < runs["master"]) /\ ~(i > runs["master"])
          BY <2>3, MasterPhases DEF MasterPhaseIs
        <5> QED
          BY <1>5, <5>1, <5>2
      <4>2. master.pc \in {"final_cnf", "answer", "done"}
        <5>1. runs["master"] > 0
          BY <1>5, <4>1 DEF Conns
        <5>2. master.pc \in MasterWaits \cup {"done", "failed"}
          BY <5>1 DEF Once, LastRunKnown
        <5> QED
          BY <2>3, <4>1, <5>2, MasterPhases DEF MasterPhaseIs, MasterWaits
      <4> QED
        BY <4>1, <4>2
    <3>2. MasterKey(i) = MasterContext.keys.ck
      BY <3>1, MasterPhases DEF MasterPhaseIs
    <3>3. Point(master.private) \in MasterContext.keys.ck[1]
      BY DEF MasterContext, SessionContext, derive_content_keys, Shared
    <3>4. master.private.random = <<"master", i>>
      <4>1. runs["master"] > 0
        BY <1>5, <3>1 DEF Conns
      <4> QED
        BY <3>1, <4>1 DEF Once, LastRunKnown
    <3>5. Point(master.private) # Point(slave.private) /\ Point(master.private) # ctx.peer_point
      BY <1>10, <1>11, <3>4 DEF Point
    <3>6. MasterContext.keys.ck # ctx.keys.ck
      BY <1>4, <3>3, <3>5
    <3> QED
      BY <1>9, <2>1, <3>2, <3>6
  <2> QED
    BY <2>2, <2>3
<1>13. \/ MasterPhase(n) = "keyed" /\ SlaveKey(n)' = MasterKey(n)
       \/ MasterPhase(n) = "over"
  <2>1. CASE n < runs["master"]
    BY <1>5, <2>1, MasterPhases DEF MasterPhaseIs
  <2>2. CASE n = runs["master"] /\ master.pc = "final_cnf"
    BY <1>4, <1>5, <1>8, <2>2, MasterPhases DEF MasterPhaseIs, SameSession
  <2>3. CASE n = runs["master"] /\ master.pc # "final_cnf"
    <3>1. master.pc \notin {"open_cnf", "data_cnf"}
      BY <2>3 DEF Once, VerifiedOnce
    <3>2. master.pc \notin {"answer", "done"}
      <4> SUFFICES ASSUME master.pc \in {"answer", "done"} PROVE FALSE
        OBVIOUS
      <4>1. PICK s \in sessions : SameSession(master.ctx, s.ctx)
        BY DEF IInv, ReadOk, Established
      <4>2. /\ master.ctx.local_point = Point(master.private)
            /\ master.private.random = <<"master", n>>
        BY <1>5, <2>3 DEF Once, LastRunKnown
      <4>3. SessionWith(n, s.ctx)
        BY <4>1, <4>2 DEF SameSession, SessionWith, Point
      <4> QED
        BY <1>4, <4>3 DEF HadSession
    <3>3. master.pc = "failed"
      BY <1>5, <2>3, <3>1, <3>2 DEF Once, LastRunKnown, MasterWaits
    <3> QED
      BY <1>5, <2>3, <3>3, MasterPhases DEF MasterPhaseIs
  <2> QED
    BY <1>5, <2>1, <2>2, <2>3
<1> QED
  BY <1>3, <1>5, <1>7, <1>8, <1>9, <1>12, <1>13, PromisedSlaveInstalls

LEMMA KeptStep ==
    ASSUME Shapes, Shapes', IInv, Once, [Next]_vars
    PROVE  Kept
<1>1. CASE SlaveStarts
  BY <1>1, SlaveStartsMoves, SlavePreparesKept
<1>2. CASE SlaveOpens
  BY <1>2, SlaveOpensMoves, SlavePreparesKept
<1>3. CASE SlaveAnswersPoint
  BY <1>3, SlaveAnswersPointMoves, SlavePreparesKept
<1>4. CASE Noise \/ UNCHANGED vars
  <2>1. MasterRests /\ SlaveRests
    BY <1>4 DEF Noise, vars, MasterRests, SlaveRests
  <2> QED
    BY <2>1, EndsRest, NothingPromised
<1>5. CASE Killed
  <2>1. MasterFails \/ SlaveStops
    BY <1>5, MasterFailsMoves, SlaveStopsMoves DEF Killed
  <2> QED
    BY <2>1, MasterFailsKept, SlaveStopsKept
<1> QED
  BY <1>1, <1>2, <1>3, <1>4, <1>5, MasterFailsMoves, SlaveStopsMoves, MasterFailsKept,
     SlaveStopsKept, MasterStartsKept, MasterOffersPointKept, MasterVerifiesKept, MasterAsksKept,
     MasterReadsKept, SlaveEstablishesKept, SlaveServesKept
  DEF Next

LEMMA OnceInit ==
    ASSUME Init
    PROVE  Once
<1>1. /\ runs["master"] = 0 /\ runs["slave"] = 0 /\ verified = {} /\ sessions = {}
      /\ slave.pc = "off"
  BY DEF Init, Ends, SlaveOff
<1>2. RunsBounded /\ LastRunKnown
  BY <1>1, PskAssumption DEF RunsBounded, LastRunKnown
<1>3. VerifiedOnce /\ EstablishedOnce /\ ServesSession
  BY <1>1 DEF VerifiedOnce, EstablishedOnce, ServesSession
<1> QED
  BY <1>2, <1>3 DEF Once

LEMMA KeptInit ==
    ASSUME Shapes, Shapes', Init
    PROVE  Promise!Init
<1>1. runs["master"] = 0 /\ sessions = {} /\ slave.pc = "off"
  BY DEF Init, Ends, SlaveOff
<1>2. ASSUME NEW n \in Conns
      PROVE  /\ MasterPhase(n) = "opening" /\ MasterKey(n) = NoKey
             /\ SlavePhase(n) = "opening" /\ SlaveKey(n) = NoKey
  <2>1. n > runs["master"]
    BY <1>1, PskAssumption DEF Conns
  <2>2. ~Serves(n) /\ ~HadSession(n)
    BY <1>1 DEF Serves, HadSession
  <2> QED
    BY <2>1, <2>2, MasterPhases, SlavePhases DEF MasterPhaseIs, SlavePhaseIs
<1> QED
  BY <1>2 DEF Promise!Init

(* PskOnce (run_master_handshake 498-568, run_slave_handshake 571-640): a   *)
(* run of the master verifies a slave at most once, a run of the slave      *)
(* establishes at most one session and serves with it.                      *)
THEOREM PskOnce == Spec => []Once
<1>1. Init => Once
  BY OnceInit
<1>2. Shapes /\ IInv /\ Once /\ [Next]_vars => Once'
  BY OnceStep
<1> QED
  BY <1>1, <1>2, PskInductive, PTL DEF Spec

(* PskKeepsPromise (run_master_handshake, run_slave_handshake, run_master,  *)
(* serve_connection): for any number of runs of either program, any         *)
(* passwords, losses, leftovers and kills, the profile is a SecureChannel.  *)
THEOREM PskKeepsPromise == Spec => PromiseKept
<1>1. Shapes /\ Shapes' /\ Init => Promise!Init
  BY KeptInit
<1>2. Shapes /\ Shapes' /\ IInv /\ Once /\ [Next]_vars => [Promise!Next]_(Promise!vars)
  BY KeptStep DEF Kept
<1> QED
  BY <1>1, <1>2, PskInductive, PskOnce, PTL DEF Spec, PromiseKept, Promise!Spec
=============================================================================
