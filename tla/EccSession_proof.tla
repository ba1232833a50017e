-------------------------- MODULE EccSession_proof --------------------------
(***************************************************************************)
(* Proofs about EccSession, for every number of slaves, connections and    *)
(* incidents and every assignment of device ids: the keys, the context     *)
(* files, and, last, that the two programs implement SecureChannel.        *)
(***************************************************************************)
EXTENDS EccSession, SequenceTheorems, TLAPS

-----------------------------------------------------------------------------
(* What the wires do to a queue of frames *)

LEMMA EmptyQueue == IsQueue(<<>>) /\ Range(<<>>) = {}
<1>1. Range(<<>>) = {}
  BY EmptySeq DEF Range
<1> QED
  BY <1>1, EmptySeq DEF IsQueue

LEMMA AppendedQueue ==
    ASSUME NEW queue, NEW m, IsQueue(queue)
    PROVE  /\ IsQueue(Append(queue, m))
           /\ Range(Append(queue, m)) = Range(queue) \cup {m}
<1> DEFINE S == Range(queue) \cup {m}
           longer == Append(queue, m)
<1>1. queue \in Seq(S)
  BY SeqMonotonic DEF IsQueue
<1>2. longer \in Seq(S) /\ Len(longer) = Len(queue) + 1
  BY <1>1, AppendProperties
<1>3. IsQueue(longer)
  BY <1>2, SeqOfRange DEF IsQueue
<1>4. Range(queue) = {queue[i] : i \in 1..Len(queue)}
  BY <1>1, RangeEquality
<1>5. Range(longer) = {longer[i] : i \in 1..(Len(queue) + 1)}
  BY <1>2, RangeEquality
<1>6. /\ \A i \in 1..Len(queue) : longer[i] = queue[i]
      /\ longer[Len(queue) + 1] = m
  BY <1>1, AppendProperties
<1>7. Len(queue) \in Nat
  BY <1>1, LenProperties
<1>8. Range(longer) = S
  BY <1>4, <1>5, <1>6, <1>7
<1> QED
  BY <1>3, <1>8

LEMMA TailOfQueue ==
    ASSUME NEW queue, IsQueue(queue), queue # <<>>
    PROVE  /\ IsQueue(Tail(queue))
           /\ Range(Tail(queue)) \subseteq Range(queue)
           /\ Head(queue) \in Range(queue)
<1>1. Head(queue) \in Range(queue) /\ Tail(queue) \in Seq(Range(queue))
  BY HeadTailProperties DEF IsQueue
<1> QED
  BY <1>1, SeqOfRange, RangeOfSeq DEF IsQueue

LEMMA NoisyQueue ==
    ASSUME NEW queue, NEW m, IsQueue(queue), queue # <<>>
    PROVE  /\ IsQueue(<<m>> \o Tail(queue))
           /\ Range(<<m>> \o Tail(queue)) \subseteq Range(queue) \cup {m}
<1> DEFINE S == Range(queue) \cup {m}
<1>1. Tail(queue) \in Seq(S)
  BY TailOfQueue, SeqMonotonic DEF IsQueue
<1>2. <<m>> \in Seq(S)
  OBVIOUS
<1>3. <<m>> \o Tail(queue) \in Seq(S)
  BY <1>1, <1>2, ConcatProperties
<1> QED
  BY <1>3, SeqOfRange, RangeOfSeq DEF IsQueue

-----------------------------------------------------------------------------
(* Sessions and queues keep their shape *)

LEMMA NewSessionShape == IsSession(NewSession)
BY DEF IsSession, IsSac, Fields, NewSession, NoSac

LEMMA SessionUpdated ==
    ASSUME NEW sessions, SessionShapes(sessions),
           NEW n \in Conns, NEW sess, IsSession(sess)
    PROVE  SessionShapes([sessions EXCEPT ![n] = sess])
BY DEF SessionShapes

LEMMA QueueUpdated ==
    ASSUME NEW queues, QueueShapes(queues),
           NEW n \in Conns, NEW queue, IsQueue(queue)
    PROVE  QueueShapes([queues EXCEPT ![n] = queue])
BY DEF QueueShapes

LEMMA QueueSent ==
    ASSUME NEW queues, QueueShapes(queues), NEW n \in Conns, NEW m
    PROVE  /\ QueueShapes(Sent(queues, n, m))
           /\ Range(Sent(queues, n, m)[n]) = Range(queues[n]) \cup {m}
           /\ \A i \in Conns \ {n} : Sent(queues, n, m)[i] = queues[i]
<1> DEFINE longer == Append(queues[n], m)
<1>1. IsQueue(longer) /\ Range(longer) = Range(queues[n]) \cup {m}
  BY AppendedQueue DEF QueueShapes
<1>2. Sent(queues, n, m) = [queues EXCEPT ![n] = longer]
  BY DEF Sent
<1> HIDE DEF longer
<1> QED
  BY <1>1, <1>2, QueueUpdated DEF QueueShapes

LEMMA QueueTaken ==
    ASSUME NEW queues, QueueShapes(queues), NEW n \in Conns, queues[n] # <<>>
    PROVE  /\ QueueShapes(Taken(queues, n))
           /\ Range(Taken(queues, n)[n]) \subseteq Range(queues[n])
           /\ Head(queues[n]) \in Range(queues[n])
           /\ \A i \in Conns \ {n} : Taken(queues, n)[i] = queues[i]
<1> DEFINE rest == Tail(queues[n])
<1>1. /\ IsQueue(rest) /\ Range(rest) \subseteq Range(queues[n])
      /\ Head(queues[n]) \in Range(queues[n])
  BY TailOfQueue DEF QueueShapes
<1>2. Taken(queues, n) = [queues EXCEPT ![n] = rest]
  BY DEF Taken
<1> HIDE DEF rest
<1> QED
  BY <1>1, <1>2, QueueUpdated DEF QueueShapes

LEMMA QueueJammed ==
    ASSUME NEW queues, QueueShapes(queues), NEW n \in Conns, queues[n] # <<>>
    PROVE  /\ QueueShapes(Jammed(queues, n))
           /\ Range(Jammed(queues, n)[n]) \subseteq Range(queues[n]) \cup {Garbled}
           /\ \A i \in Conns \ {n} : Jammed(queues, n)[i] = queues[i]
<1> DEFINE noisy == <<Garbled>> \o Tail(queues[n])
<1>1. IsQueue(noisy) /\ Range(noisy) \subseteq Range(queues[n]) \cup {Garbled}
  BY NoisyQueue DEF QueueShapes
<1>2. Jammed(queues, n) = [queues EXCEPT ![n] = noisy]
  BY DEF Jammed
<1> HIDE DEF noisy
<1> QED
  BY <1>1, <1>2, QueueUpdated DEF QueueShapes

(* An assignment to an attribute leaves the others alone.  The provers do   *)
(* not see through nested EXCEPTs, hence one lemma per assignment made.    *)
LEMMA PeerAssigned ==
    ASSUME NEW sess, sess = Fields(sess), NEW v
    PROVE  LET new == [sess EXCEPT !.peer = v] IN
           /\ new = Fields(new)
           /\ new.peer = v /\ new.dhsk = sess.dhsk /\ new.auth = sess.auth
           /\ new.sac = sess.sac /\ new.ck = sess.ck /\ new.bck = sess.bck
BY DEF Fields

LEMMA DhskAssigned ==
    ASSUME NEW sess, sess = Fields(sess), NEW v
    PROVE  LET new == [sess EXCEPT !.dhsk = v] IN
           /\ new = Fields(new)
           /\ new.peer = sess.peer /\ new.dhsk = v /\ new.auth = sess.auth
           /\ new.sac = sess.sac /\ new.ck = sess.ck /\ new.bck = sess.bck
BY DEF Fields

LEMMA AuthAssigned ==
    ASSUME NEW sess, sess = Fields(sess), NEW v
    PROVE  LET new == [sess EXCEPT !.auth = v] IN
           /\ new = Fields(new)
           /\ new.peer = sess.peer /\ new.dhsk = sess.dhsk /\ new.auth = v
           /\ new.sac = sess.sac /\ new.ck = sess.ck /\ new.bck = sess.bck
BY DEF Fields

LEMMA SacAssigned ==
    ASSUME NEW sess, sess = Fields(sess), NEW v
    PROVE  LET new == [sess EXCEPT !.sac = v] IN
           /\ new = Fields(new)
           /\ new.peer = sess.peer /\ new.dhsk = sess.dhsk /\ new.auth = sess.auth
           /\ new.sac = v /\ new.ck = sess.ck /\ new.bck = sess.bck
BY DEF Fields

LEMMA CkAssigned ==
    ASSUME NEW sess, sess = Fields(sess), NEW v
    PROVE  LET new == [sess EXCEPT !.ck = v] IN
           /\ new = Fields(new)
           /\ new.peer = sess.peer /\ new.dhsk = sess.dhsk /\ new.auth = sess.auth
           /\ new.sac = sess.sac /\ new.ck = v /\ new.bck = sess.bck
BY DEF Fields

LEMMA BckAssigned ==
    ASSUME NEW sess, sess = Fields(sess), NEW v
    PROVE  LET new == [sess EXCEPT !.bck = v] IN
           /\ new = Fields(new)
           /\ new.peer = sess.peer /\ new.dhsk = sess.dhsk /\ new.auth = sess.auth
           /\ new.sac = sess.sac /\ new.ck = sess.ck /\ new.bck = v
BY DEF Fields

SameContent(new, old) == new.ck = old.ck /\ new.bck = old.bck

LEMMA PeerSet ==
    ASSUME NEW sess, IsSession(sess), NEW v
    PROVE  LET new == [sess EXCEPT !.peer = v] IN
           /\ IsSession(new)
           /\ new.peer = v /\ new.dhsk = sess.dhsk /\ new.auth = sess.auth
           /\ new.sac = sess.sac /\ new.ck = sess.ck /\ new.bck = sess.bck
<1> DEFINE s1 == [sess EXCEPT !.peer = v]
<1>0. [sess EXCEPT !.peer = v] = s1
  OBVIOUS
<1>1. sess = Fields(sess)
  BY DEF IsSession
<1>2. /\ s1 = Fields(s1)
      /\ s1.peer = v /\ s1.dhsk = sess.dhsk /\ s1.auth = sess.auth
      /\ s1.sac = sess.sac /\ s1.ck = sess.ck /\ s1.bck = sess.bck
  BY <1>1, PeerAssigned
<1> HIDE DEF s1
<1> QED
  BY <1>0, <1>2 DEF IsSession

LEMMA AuthSet ==
    ASSUME NEW sess, IsSession(sess), NEW v
    PROVE  LET new == [sess EXCEPT !.auth = v] IN
           /\ IsSession(new)
           /\ new.peer = sess.peer /\ new.dhsk = sess.dhsk /\ new.auth = v
           /\ new.sac = sess.sac /\ new.ck = sess.ck /\ new.bck = sess.bck
<1> DEFINE s1 == [sess EXCEPT !.auth = v]
<1>0. [sess EXCEPT !.auth = v] = s1
  OBVIOUS
<1>1. sess = Fields(sess)
  BY DEF IsSession
<1>2. /\ s1 = Fields(s1)
      /\ s1.peer = sess.peer /\ s1.dhsk = sess.dhsk /\ s1.auth = v
      /\ s1.sac = sess.sac /\ s1.ck = sess.ck /\ s1.bck = sess.bck
  BY <1>1, AuthAssigned
<1> HIDE DEF s1
<1> QED
  BY <1>0, <1>2 DEF IsSession

LEMMA DhskAuthSet ==
    ASSUME NEW sess, IsSession(sess), NEW v, NEW w
    PROVE  LET new == [sess EXCEPT !.dhsk = v, !.auth = w] IN
           /\ IsSession(new) /\ SameContent(new, sess)
           /\ new.peer = sess.peer /\ new.dhsk = v /\ new.auth = w
           /\ new.sac = sess.sac /\ new.ck = sess.ck /\ new.bck = sess.bck
<1> DEFINE s1 == [sess EXCEPT !.dhsk = v]
           s2 == [s1 EXCEPT !.auth = w]
<1>0. [sess EXCEPT !.dhsk = v, !.auth = w] = s2
  OBVIOUS
<1>1. sess = Fields(sess)
  BY DEF IsSession
<1>2. /\ s1 = Fields(s1)
      /\ s1.peer = sess.peer /\ s1.dhsk = v /\ s1.auth = sess.auth
      /\ s1.sac = sess.sac /\ s1.ck = sess.ck /\ s1.bck = sess.bck
  BY <1>1, DhskAssigned
<1> HIDE DEF s1
<1>3. /\ s2 = Fields(s2)
      /\ s2.peer = sess.peer /\ s2.dhsk = v /\ s2.auth = w
      /\ s2.sac = sess.sac /\ s2.ck = sess.ck /\ s2.bck = sess.bck
  BY <1>2, AuthAssigned
<1> HIDE DEF s2
<1> QED
  BY <1>0, <1>3 DEF IsSession, SameContent

LEMMA PeerDhskSet ==
    ASSUME NEW sess, IsSession(sess), NEW v, NEW w
    PROVE  LET new == [sess EXCEPT !.peer = v, !.dhsk = w] IN
           /\ IsSession(new) /\ SameContent(new, sess)
           /\ new.peer = v /\ new.dhsk = w /\ new.auth = sess.auth
           /\ new.sac = sess.sac /\ new.ck = sess.ck /\ new.bck = sess.bck
<1> DEFINE s1 == [sess EXCEPT !.peer = v]
           s2 == [s1 EXCEPT !.dhsk = w]
<1>0. [sess EXCEPT !.peer = v, !.dhsk = w] = s2
  OBVIOUS
<1>1. sess = Fields(sess)
  BY DEF IsSession
<1>2. /\ s1 = Fields(s1)
      /\ s1.peer = v /\ s1.dhsk = sess.dhsk /\ s1.auth = sess.auth
      /\ s1.sac = sess.sac /\ s1.ck = sess.ck /\ s1.bck = sess.bck
  BY <1>1, PeerAssigned
<1> HIDE DEF s1
<1>3. /\ s2 = Fields(s2)
      /\ s2.peer = v /\ s2.dhsk = w /\ s2.auth = sess.auth
      /\ s2.sac = sess.sac /\ s2.ck = sess.ck /\ s2.bck = sess.bck
  BY <1>2, DhskAssigned
<1> HIDE DEF s2
<1> QED
  BY <1>0, <1>3 DEF IsSession, SameContent

LEMMA ContextLoaded ==
    ASSUME NEW sess, IsSession(sess), NEW context
    PROVE  LET new == Loaded(sess, context) IN
           /\ IsSession(new)
           /\ new.peer = context.peer /\ new.dhsk = context.dhsk /\ new.auth = context.auth
           /\ new.sac = sess.sac /\ new.ck = sess.ck /\ new.bck = sess.bck
<1> DEFINE s1 == [sess EXCEPT !.peer = context.peer]
           s2 == [s1 EXCEPT !.dhsk = context.dhsk]
           s3 == [s2 EXCEPT !.auth = context.auth]
<1>0. Loaded(sess, context) = s3
  BY DEF Loaded
<1>1. sess = Fields(sess)
  BY DEF IsSession
<1>2. /\ s1 = Fields(s1)
      /\ s1.peer = context.peer /\ s1.dhsk = sess.dhsk /\ s1.auth = sess.auth
      /\ s1.sac = sess.sac /\ s1.ck = sess.ck /\ s1.bck = sess.bck
  BY <1>1, PeerAssigned
<1> HIDE DEF s1
<1>3. /\ s2 = Fields(s2)
      /\ s2.peer = context.peer /\ s2.dhsk = context.dhsk /\ s2.auth = sess.auth
      /\ s2.sac = sess.sac /\ s2.ck = sess.ck /\ s2.bck = sess.bck
  BY <1>2, DhskAssigned
<1> HIDE DEF s2
<1>4. /\ s3 = Fields(s3)
      /\ s3.peer = context.peer /\ s3.dhsk = context.dhsk /\ s3.auth = context.auth
      /\ s3.sac = sess.sac /\ s3.ck = sess.ck /\ s3.bck = sess.bck
  BY <1>3, AuthAssigned
<1> HIDE DEF s3
<1> QED
  BY <1>0, <1>4 DEF IsSession

LEMMA SacSet ==
    ASSUME NEW sess, IsSession(sess), NEW v, IsSac(v)
    PROVE  LET new == [sess EXCEPT !.sac = v] IN
           /\ IsSession(new)
           /\ new.peer = sess.peer /\ new.dhsk = sess.dhsk /\ new.auth = sess.auth
           /\ new.sac = v /\ new.ck = sess.ck /\ new.bck = sess.bck
<1> DEFINE s1 == [sess EXCEPT !.sac = v]
<1>0. [sess EXCEPT !.sac = v] = s1
  OBVIOUS
<1>1. sess = Fields(sess)
  BY DEF IsSession
<1>2. /\ s1 = Fields(s1)
      /\ s1.peer = sess.peer /\ s1.dhsk = sess.dhsk /\ s1.auth = sess.auth
      /\ s1.sac = v /\ s1.ck = sess.ck /\ s1.bck = sess.bck
  BY <1>1, SacAssigned
<1> HIDE DEF s1
<1> QED
  BY <1>0, <1>2 DEF IsSession

LEMMA KeysInstalled ==
    ASSUME NEW sess, IsSession(sess), NEW v, IsSac(v), NEW w, NEW x
    PROVE  LET new == Installed(sess, v, w, x) IN
           /\ IsSession(new)
           /\ new.peer = sess.peer /\ new.dhsk = sess.dhsk /\ new.auth = sess.auth
           /\ new.sac = v /\ new.ck = w /\ new.bck = x
<1> DEFINE s1 == [sess EXCEPT !.sac = v]
           s2 == [s1 EXCEPT !.ck = w]
           s3 == [s2 EXCEPT !.bck = x]
<1>0. Installed(sess, v, w, x) = s3
  BY DEF Installed
<1>1. sess = Fields(sess)
  BY DEF IsSession
<1>2. /\ s1 = Fields(s1)
      /\ s1.peer = sess.peer /\ s1.dhsk = sess.dhsk /\ s1.auth = sess.auth
      /\ s1.sac = v /\ s1.ck = sess.ck /\ s1.bck = sess.bck
  BY <1>1, SacAssigned
<1> HIDE DEF s1
<1>3. /\ s2 = Fields(s2)
      /\ s2.peer = sess.peer /\ s2.dhsk = sess.dhsk /\ s2.auth = sess.auth
      /\ s2.sac = v /\ s2.ck = w /\ s2.bck = sess.bck
  BY <1>2, CkAssigned
<1> HIDE DEF s2
<1>4. /\ s3 = Fields(s3)
      /\ s3.peer = sess.peer /\ s3.dhsk = sess.dhsk /\ s3.auth = sess.auth
      /\ s3.sac = v /\ s3.ck = w /\ s3.bck = x
  BY <1>3, BckAssigned
<1> HIDE DEF s3
<1> QED
  BY <1>0, <1>4 DEF IsSession

LEMMA SacUsed ==
    ASSUME NEW sac, IsSac(sac)
    PROVE  /\ IsSac(Packed(sac)) /\ IsSac(Unpacked(sac))
           /\ Packed(sac).key = sac.key /\ Unpacked(sac).key = sac.key
           /\ Packed(sac).send = sac.send + 1 /\ Packed(sac).recv = sac.recv
           /\ Unpacked(sac).recv = sac.recv + 1 /\ Unpacked(sac).send = sac.send
BY DEF IsSac, Packed, Unpacked

LEMMA NewSac ==
    ASSUME NEW key
    PROVE  /\ IsSac([NoSac EXCEPT !.key = key])
           /\ [NoSac EXCEPT !.key = key].key = key
           /\ [NoSac EXCEPT !.key = key].send = 1
           /\ [NoSac EXCEPT !.key = key].recv = 1
BY DEF IsSac, NoSac

-----------------------------------------------------------------------------
(* Type correctness *)

LEMMA ClientPcsAre ==
    ClientPcs = {"none", "open_req", "first_req", "dhpm", "akh_req", "save",
                 "sac_req", "sac_sync", "ck_req", "ck_sync", "ready", "failed",
                 "closed"}
BY DEF ClientPcs, ClientWants

LEMMA ServerPcsAre ==
    ServerPcs = {"none", "open_cnf", "reauth", "certs", "rh", "akh", "save",
                 "sac_cnf", "sac_sync", "ck_cnf", "ck_sync", "ready", "closed"}
BY DEF ServerPcs, ServerWants

LEMMA OpenedIsConns ==
    ASSUME TypeOK
    PROVE  Opened = 1..Len(target) /\ Opened \subseteq Conns /\ Len(target) \in Nat
BY LenProperties, ConstantsAssumption DEF TypeOK, Opened, Conns

ClientTypes == cpc \in [Conns -> ClientPcs] /\ SessionShapes(csess)
ServerTypes == spc \in [Conns -> ServerPcs] /\ SessionShapes(ssess)
Queues == QueueShapes(toClient) /\ QueueShapes(toServer)
Types == ClientTypes /\ ServerTypes /\ Queues

LEMMA ClientStepTypes ==
    ASSUME Types, NEW n \in Conns, NEW pc \in ClientPcs, NEW sess, NEW frame,
           IsSession(sess), toClient[n] # <<>>, ClientStep(n, pc, sess, frame)
    PROVE  ClientTypes' /\ Queues'
<1> USE DEF Types, ClientTypes, Queues, ClientStep
<1>1. cpc' \in [Conns -> ClientPcs]
  OBVIOUS
<1>2. SessionShapes(csess')
  BY SessionUpdated
<1>3. QueueShapes(toClient') /\ QueueShapes(toServer')
  BY QueueTaken, QueueSent
<1> QED
  BY <1>1, <1>2, <1>3

LEMMA ClientGivesUpTypes ==
    ASSUME Types, NEW n \in Conns, ClientGivesUp(n)
    PROVE  ClientTypes' /\ QueueShapes(toClient)'
<1> USE DEF Types, ClientTypes, Queues, ClientGivesUp
<1>1. cpc' \in [Conns -> ClientPcs]
  BY ClientPcsAre
<1>2. SessionShapes(csess')
  BY SessionUpdated, NewSessionShape
<1>3. QueueShapes(toClient')
  BY EmptyQueue, QueueUpdated
<1> QED
  BY <1>1, <1>2, <1>3

LEMMA ServerGoesOnTypes ==
    ASSUME Types, NEW n \in Conns, NEW pc \in ServerPcs, NEW sess,
           IsSession(sess), toServer[n] # <<>>, ServerGoesOn(n, pc, sess)
    PROVE  ServerTypes' /\ QueueShapes(toServer)'
<1> USE DEF Types, ServerTypes, Queues, ServerGoesOn
<1>1. spc' \in [Conns -> ServerPcs]
  OBVIOUS
<1>2. SessionShapes(ssess')
  BY SessionUpdated
<1>3. QueueShapes(toServer')
  BY QueueTaken
<1> QED
  BY <1>1, <1>2, <1>3

LEMMA ServerStepTypes ==
    ASSUME Types, NEW n \in Conns, NEW pc \in ServerPcs, NEW sess, NEW frame,
           IsSession(sess), toServer[n] # <<>>, ServerStep(n, pc, sess, frame)
    PROVE  ServerTypes' /\ Queues'
<1>1. ServerTypes' /\ QueueShapes(toServer)'
  BY ServerGoesOnTypes DEF ServerStep
<1>2. QueueShapes(toClient')
  BY QueueSent DEF Types, Queues, ServerStep
<1> QED
  BY <1>1, <1>2 DEF Queues

LEMMA ServerClosesTypes ==
    ASSUME Types, NEW n \in Conns, ServerCloses(n)
    PROVE  ServerTypes' /\ Queues'
<1> USE DEF Types, ServerTypes, Queues, ServerCloses
<1>1. spc' \in [Conns -> ServerPcs]
  BY ServerPcsAre
<1>2. SessionShapes(ssess')
  BY SessionUpdated, NewSessionShape
<1>3. QueueShapes(toServer')
  BY EmptyQueue, QueueUpdated
<1> QED
  BY <1>1, <1>2, <1>3

LEMMA SlaveEndsTypes ==
    ASSUME Types, NEW s, NEW how, SlaveEnds(s, how)
    PROVE  ServerTypes' /\ Queues'
<1> USE DEF Types, ServerTypes, Queues, SlaveEnds
<1>1. spc' \in [Conns -> ServerPcs]
  BY ServerPcsAre
<1>2. SessionShapes(ssess')
  BY NewSessionShape DEF SessionShapes
<1>3. QueueShapes(toServer')
  BY EmptyQueue DEF QueueShapes
<1> QED
  BY <1>1, <1>2, <1>3

LEMMA Received ==
    ASSUME NEW queue, NEW m \in Incoming(queue)
    PROVE  queue # <<>> /\ m = Head(queue)
BY DEF Incoming

-----------------------------------------------------------------------------
(* What a step of the handshake does, as far as the invariants see it.  The *)
(* session an end goes on with and the frame it sends are named here once,  *)
(* so that the proofs below need not look into the actions.                *)

SameKeys(new, old) ==
    /\ new.peer = old.peer /\ new.dhsk = old.dhsk /\ new.auth = old.auth
    /\ new.sac.key = old.sac.key

ClientMoves(n, pc, sess, frame) ==
    LET old == csess[n] m == Head(toClient[n]) IN
    /\ toClient[n] # <<>> /\ IsSession(sess)
    /\ ClientStep(n, pc, sess, frame)
    /\ pc # "ck_sync" => sess.ck = old.ck
    /\ \/ /\ cpc[n] \in {"open_req", "first_req", "dhpm", "akh_req"}
          /\ pc \in {"first_req", "dhpm", "akh_req", "save", "sac_req"}
          /\ frame.tag \in {"OPEN_CNF", "DATA_CNF"}
       \/ /\ cpc[n] = "sac_req" /\ pc = "sac_sync"
          /\ Keyed(sess, 1, 1)
          /\ frame.tag = "DATA_CNF"
       \/ /\ cpc[n] = "sac_sync" /\ pc = "ck_req"
          /\ sess = old
          /\ frame.tag = "SYNC_CNF"
       \/ /\ cpc[n] = "ck_req" /\ pc = "ck_sync"
          /\ SameKeys(sess, old)
          /\ sess.sac.send = old.sac.send + 1 /\ sess.sac.recv = old.sac.recv + 1
          /\ m.tag = "SAC_DATA_REQ" /\ m.vals.SERVER_ID = old.peer
          /\ sess.ck = ContentKey(m.vals.KP, old.peer)
          /\ sess.bck = ContentKey(n, ClientId)
          /\ frame.tag = "SAC_DATA_CNF" /\ frame.key = old.sac.key
          /\ frame.vals.CLIENT_ID = ClientId /\ frame.vals.KP = n
       \/ /\ cpc[n] = "ck_sync" /\ pc = "ready"
          /\ SameKeys(sess, old) /\ SameContent(sess, old)
          /\ sess.sac.send = old.sac.send + 1 /\ sess.sac.recv = old.sac.recv + 1
          /\ m.tag = "SAC_SYNC_REQ" /\ frame.tag = "SAC_SYNC_CNF"

ClientLeaves(n) ==
    /\ ClientGivesUp(n)
    /\ \/ UNCHANGED toServer
       \/ \E frame :
             /\ frame.tag = "DATA_CNF"
             /\ toServer' = Sent(toServer, n, frame)

ServerMoves(n, pc, sess) ==
    LET old == ssess[n] m == Head(toServer[n]) IN
    /\ toServer[n] # <<>> /\ IsSession(sess)
    /\ ServerGoesOn(n, pc, sess)
    /\ \/ UNCHANGED toClient
       \/ \E frame :
             /\ frame.tag = "SAC_DATA_REQ" =>
                   frame.vals.SERVER_ID = MyId(n) /\ frame.vals.KP = n
             /\ frame.tag = "SAC_SYNC_REQ" => pc = "ck_sync"
             /\ toClient' = Sent(toClient, n, frame)
    /\ pc # "ck_sync" => sess.ck = old.ck
    /\ \/ /\ spc[n] \in {"open_cnf", "reauth", "certs", "rh", "akh"}
          /\ pc \in {"reauth", "certs", "rh", "akh", "save", "sac_cnf"}
       \/ /\ spc[n] = "sac_cnf" /\ pc = "sac_sync"
          /\ Keyed(sess, 1, 1)
       \/ /\ spc[n] = "sac_sync" /\ pc = "ck_cnf"
          /\ SameKeys(sess, old)
          /\ sess.sac.send = old.sac.send + 1 /\ sess.sac.recv = old.sac.recv
       \/ /\ spc[n] = "ck_cnf" /\ pc = "ck_sync"
          /\ SameKeys(sess, old)
          /\ sess.sac.send = old.sac.send + 1 /\ sess.sac.recv = old.sac.recv + 1
          /\ m.tag = "SAC_DATA_CNF" /\ m.key = old.sac.key
          /\ m.vals.CLIENT_ID = old.peer
          /\ sess.ck = ContentKey(n, MyId(n))
          /\ sess.bck = ContentKey(m.vals.KP, old.peer)
       \/ /\ spc[n] = "ck_sync" /\ pc = "ready"
          /\ SameKeys(sess, old) /\ SameContent(sess, old)
          /\ sess.sac.send = old.sac.send /\ sess.sac.recv = old.sac.recv + 1
          /\ m.tag = "SAC_SYNC_CNF"

LEMMA ClientHandshakeMoves ==
    ASSUME Types, NEW n \in Conns, ClientHandshake(n)
    PROVE  ClientLeaves(n) \/ \E pc, sess, frame : ClientMoves(n, pc, sess, frame)
<1> DEFINE Goal == ClientLeaves(n) \/ \E pc, sess, frame : ClientMoves(n, pc, sess, frame)
<1>0. IsSession(csess[n]) /\ IsSac(csess[n].sac)
  BY DEF Types, ClientTypes, SessionShapes, IsSession
<1>f. ASSUME ClientFails(n)
      PROVE  Goal
  BY <1>f DEF ClientFails, ClientLeaves
<1> DEFINE old == csess[n]
<1>1. CASE ClientOpens(n)
  <2>1. PICK m \in Incoming(toClient[n]) : ClientOpens(n)!(m)
    BY <1>1 DEF ClientOpens
  <2>2. ClientMoves(n, "first_req", old, Apdu("OPEN_CNF", [SYSTEM_ID |-> 1], {}))
    BY <1>0, <2>1, Received DEF ClientMoves, ClientGets, Apdu
  <2> QED
    BY <2>2
<1>2. CASE ClientReauthenticates(n)
  <2>1. PICK m \in Incoming(toClient[n]) : ClientReauthenticates(n)!(m)
    BY <1>2 DEF ClientReauthenticates
  <2>2. CASE m.vals.SERVER_ID = cctx.peer
    <3> DEFINE sess == Loaded(old, cctx)
               frame == Apdu("DATA_CNF", [AKH |-> cctx.auth], {})
    <3>1. IsSession(sess) /\ sess.ck = old.ck
      BY <1>0, ContextLoaded
    <3>2. frame.tag = "DATA_CNF"
      BY DEF Apdu
    <3>3. ClientStep(n, "sac_req", sess, frame) /\ ClientGets(n, "first_req", m)
      BY <2>1, <2>2
    <3> HIDE DEF sess, frame
    <3>4. ClientMoves(n, "sac_req", sess, frame)
      BY <2>1, <3>1, <3>2, <3>3, Received DEF ClientMoves, ClientGets
    <3> QED
      BY <3>4
  <2>3. CASE m.vals.SERVER_ID # cctx.peer
    <3> DEFINE frame == Apdu("DATA_CNF", [AKH |-> ZeroKey], {})
    <3>1. frame.tag = "DATA_CNF"
      BY DEF Apdu
    <3>2. ClientGivesUp(n) /\ toServer' = Sent(toServer, n, frame)
      BY <2>1, <2>3
    <3> HIDE DEF frame
    <3> QED
      BY <3>1, <3>2 DEF ClientLeaves
  <2> QED
    BY <2>2, <2>3
<1>3. CASE ClientCannotReauthenticate(n)
  BY <1>3, <1>f DEF ClientCannotReauthenticate
<1>4. CASE ClientVerifies(n)
  <2>1. PICK m \in Incoming(toClient[n]) : ClientVerifies(n)!(m)
    BY <1>4 DEF ClientVerifies
  <2> DEFINE sess == [old EXCEPT !.peer = m.vals.CERTS.id]
             frame == Apdu("DATA_CNF", [DHPH |-> n,
                             CERTS |-> Chain(identity, ClientId)], {})
  <2>2. IsSession(sess) /\ sess.ck = old.ck
    BY <1>0, PeerSet
  <2>3. frame.tag = "DATA_CNF"
    BY DEF Apdu
  <2>4. ClientFails(n) \/ ClientStep(n, "dhpm", sess, frame)
    BY <2>1
  <2> HIDE DEF sess, frame
  <2>5. ClientStep(n, "dhpm", sess, frame) => ClientMoves(n, "dhpm", sess, frame)
    BY <2>1, <2>2, <2>3, Received DEF ClientMoves, ClientGets
  <2> QED
    BY <2>4, <2>5, <1>f
<1>5. CASE ClientAgrees(n)
  <2>1. PICK m \in Incoming(toClient[n]) : ClientAgrees(n)!(m)
    BY <1>5 DEF ClientAgrees
  <2> DEFINE dhsk == Dhsk(n, m.vals.DHPM, ClientId, old.peer)
             sess == [old EXCEPT !.dhsk = dhsk,
                                 !.auth = AuthKey(dhsk, ClientId, old.peer)]
             frame == Apdu("DATA_CNF", [RH |-> Rh(dhsk, ClientId)], {})
  <2>2. IsSession(sess) /\ SameContent(sess, old)
    BY <1>0, DhskAuthSet
  <2>3. frame.tag = "DATA_CNF"
    BY DEF Apdu
  <2>4. ClientFails(n) \/ ClientStep(n, "akh_req", sess, frame)
    BY <2>1
  <2> HIDE DEF sess, frame
  <2>5. ClientStep(n, "akh_req", sess, frame) => ClientMoves(n, "akh_req", sess, frame)
    BY <2>1, <2>2, <2>3, Received DEF ClientMoves, ClientGets, SameContent
  <2> QED
    BY <2>4, <2>5, <1>f
<1>6. CASE ClientSendsAkh(n)
  <2>1. PICK m \in Incoming(toClient[n]) : ClientSendsAkh(n)!(m)
    BY <1>6 DEF ClientSendsAkh
  <2> DEFINE frame == Apdu("DATA_CNF", [AKH |-> old.auth], {})
  <2>2. frame.tag = "DATA_CNF"
    BY DEF Apdu
  <2>3. ClientFails(n) \/ ClientStep(n, "save", old, frame)
    BY <2>1
  <2> HIDE DEF frame
  <2>4. ClientStep(n, "save", old, frame) => ClientMoves(n, "save", old, frame)
    BY <1>0, <2>1, <2>2, Received DEF ClientMoves, ClientGets
  <2> QED
    BY <2>3, <2>4, <1>f
<1>7. CASE ClientInitsSac(n)
  <2>1. PICK m \in Incoming(toClient[n]) : ClientInitsSac(n)!(m)
    BY <1>7 DEF ClientInitsSac
  <2> DEFINE key == SacKey(old.dhsk, old.auth, n, m.vals.NS_M)
             sac == [NoSac EXCEPT !.key = key]
             sess == [old EXCEPT !.sac = sac]
             frame == Apdu("DATA_CNF", [CLIENT_ID |-> ClientId, NS_H |-> n], {})
  <2>2. /\ IsSac(sac) /\ sac.key = key /\ sac.send = 1 /\ sac.recv = 1
    BY NewSac
  <2>3. key.dhsk = old.dhsk /\ key.auth = old.auth
    BY DEF SacKey
  <2>4. frame.tag = "DATA_CNF"
    BY DEF Apdu
  <2>5. ClientFails(n) \/ ClientStep(n, "sac_sync", sess, frame)
    BY <2>1
  <2> HIDE DEF key, sac, frame
  <2>6. IsSession(sess) /\ Keyed(sess, 1, 1) /\ sess.ck = old.ck
    BY <1>0, <2>2, <2>3, SacSet DEF Keyed
  <2> HIDE DEF sess
  <2>7. ClientStep(n, "sac_sync", sess, frame) => ClientMoves(n, "sac_sync", sess, frame)
    BY <2>1, <2>4, <2>6, Received DEF ClientMoves, ClientGets
  <2> QED
    BY <2>5, <2>7, <1>f
<1>8. CASE ClientSyncsSac(n)
  <2>1. PICK m \in Incoming(toClient[n]) : ClientSyncsSac(n)!(m)
    BY <1>8 DEF ClientSyncsSac
  <2>2. ClientMoves(n, "ck_req", old, Apdu("SYNC_CNF", [STATUS |-> "ok"], {}))
    BY <1>0, <2>1, Received DEF ClientMoves, ClientGets, Apdu
  <2> QED
    BY <2>2
<1>9. CASE ClientUpdatesKey(n)
  <2>1. PICK m \in Incoming(toClient[n]) : ClientUpdatesKey(n)!(m)
    BY <1>9 DEF ClientUpdatesKey
  <2> DEFINE sac == Unpacked(old.sac)
             after == Packed(sac)
             ck == ContentKey(m.vals.KP, old.peer)
             bck == ContentKey(n, ClientId)
             sess == Installed(old, after, ck, bck)
             frame == SacApdu("SAC_DATA_CNF", sac,
                              [CLIENT_ID |-> ClientId, KP |-> n, STATUS |-> "ok"], {})
  <2>2. /\ IsSac(after) /\ after.key = old.sac.key /\ sac.key = old.sac.key
        /\ after.send = old.sac.send + 1 /\ after.recv = old.sac.recv + 1
    BY <1>0, SacUsed
  <2>3. /\ frame.tag = "SAC_DATA_CNF" /\ frame.key = old.sac.key
        /\ frame.vals.CLIENT_ID = ClientId /\ frame.vals.KP = n
    BY <2>2 DEF SacApdu
  <2>4. \/ ClientFails(n)
        \/ ClientStep(n, "ck_sync", sess, frame) /\ m.vals.SERVER_ID = old.peer
    BY <2>1
  <2> HIDE DEF sac, after, frame, ck, bck
  <2>5. /\ IsSession(sess) /\ SameKeys(sess, old)
        /\ sess.ck = ck /\ sess.bck = bck /\ sess.sac = after
    BY <1>0, <2>2, KeysInstalled DEF SameKeys
  <2> HIDE DEF sess
  <2>6. ClientStep(n, "ck_sync", sess, frame) /\ m.vals.SERVER_ID = old.peer
            => ClientMoves(n, "ck_sync", sess, frame)
    BY <2>1, <2>2, <2>3, <2>5, Received
    DEF ClientMoves, ClientGets, ClientWants, ck, bck
  <2> QED
    BY <2>4, <2>6, <1>f
<1>10. CASE ClientSyncsKey(n)
  <2>1. PICK m \in Incoming(toClient[n]) : ClientSyncsKey(n)!(m)
    BY <1>10 DEF ClientSyncsKey
  <2> DEFINE sac == Unpacked(old.sac)
             after == Packed(sac)
             sess == [old EXCEPT !.sac = after]
             frame == SacApdu("SAC_SYNC_CNF", sac, [STATUS |-> "ok"], {})
  <2>2. /\ IsSac(after) /\ after.key = old.sac.key
        /\ after.send = old.sac.send + 1 /\ after.recv = old.sac.recv + 1
    BY <1>0, SacUsed
  <2>3. frame.tag = "SAC_SYNC_CNF"
    BY DEF SacApdu
  <2>4. ClientFails(n) \/ ClientStep(n, "ready", sess, frame)
    BY <2>1
  <2> HIDE DEF sac, after, frame
  <2>5. /\ IsSession(sess) /\ SameKeys(sess, old) /\ SameContent(sess, old)
        /\ sess.sac = after
    BY <1>0, <2>2, SacSet DEF SameKeys, SameContent
  <2> HIDE DEF sess
  <2>6. ClientStep(n, "ready", sess, frame) => ClientMoves(n, "ready", sess, frame)
    BY <2>1, <2>2, <2>3, <2>5, Received
    DEF ClientMoves, ClientGets, ClientWants, SameContent
  <2> QED
    BY <2>4, <2>6, <1>f
<1>11. CASE ClientRecvFails(n)
  BY <1>11, <1>f DEF ClientRecvFails
<1> QED
  BY <1>1, <1>2, <1>3, <1>4, <1>5, <1>6, <1>7, <1>8, <1>9, <1>10, <1>11
  DEF ClientHandshake

LEMMA ServerHandshakeMoves ==
    ASSUME Types, NEW n \in Conns, ServerHandshake(n)
    PROVE  \/ ServerCloses(n) \/ ServerRaises(n) \/ ServerSaves(n)
           \/ \E pc, sess : ServerMoves(n, pc, sess)
<1> DEFINE Stops == ServerCloses(n) \/ ServerRaises(n)
           Moves(pc, sess) == ServerMoves(n, pc, sess)
           old == ssess[n]
<1>0. IsSession(old) /\ IsSac(old.sac)
  BY DEF Types, ServerTypes, SessionShapes, IsSession
<1>p. ASSUME NEW pc \in {"reauth", "certs", "rh", "akh", "sac_cnf"},
             NEW sess, NEW frame, NEW m \in Incoming(toServer[n]),
             spc[n] \in {"open_cnf", "reauth", "certs", "rh"},
             IsSession(sess), sess.ck = old.ck, frame.tag = "DATA_REQ",
             ServerStep(n, pc, sess, frame)
      PROVE  Moves(pc, sess)
  BY <1>p, Received DEF ServerMoves, ServerStep
<1>q. /\ CertificateRequest(n).tag = "DATA_REQ" /\ SacRequest(n).tag = "DATA_REQ"
      /\ \A vals, reqs : Apdu("DATA_REQ", vals, reqs).tag = "DATA_REQ"
  BY DEF CertificateRequest, SacRequest, Apdu
<1>1. CASE ServerOpens(n)
  <2>1. PICK m \in Incoming(toServer[n]) : ServerOpens(n)!(m)
    BY <1>1 DEF ServerOpens
  <2>2. spc[n] = "open_cnf"
    BY <2>1 DEF ServerGets
  <2> DEFINE sess == Loaded(old, sctx[target[n]])
             frame == Apdu("DATA_REQ", [SERVER_ID |-> MyId(n)], {"AKH"})
  <2>3. IsSession(sess) /\ sess.ck = old.ck /\ frame.tag = "DATA_REQ"
    BY <1>0, <1>q, ContextLoaded
  <2>4. \/ Stops
        \/ ServerStep(n, "reauth", sess, frame)
        \/ ServerStep(n, "certs", old, CertificateRequest(n))
    BY <2>1
  <2> HIDE DEF sess, frame, Moves
  <2>5. Stops \/ Moves("reauth", sess) \/ Moves("certs", old)
    BY <1>0, <1>p, <1>q, <2>2, <2>3, <2>4
  <2> QED
    BY <2>5 DEF Moves
<1>2. CASE ServerReauthenticates(n)
  <2>1. PICK m \in Incoming(toServer[n]) : ServerReauthenticates(n)!(m)
    BY <1>2 DEF ServerReauthenticates
  <2>2. spc[n] = "reauth"
    BY <2>1 DEF ServerGets
  <2> HIDE DEF Moves
  <2>3. Moves("sac_cnf", old) \/ Moves("certs", old)
    BY <1>0, <1>p, <1>q, <2>1, <2>2
  <2> QED
    BY <2>3 DEF Moves
<1>3. CASE ServerVerifies(n)
  <2>1. PICK m \in Incoming(toServer[n]) : ServerVerifies(n)!(m)
    BY <1>3 DEF ServerVerifies
  <2>2. spc[n] = "certs"
    BY <2>1 DEF ServerGets
  <2> DEFINE id == m.vals.CERTS.id
             dhsk == Dhsk(m.vals.DHPH, n, id, MyId(n))
             sess == [old EXCEPT !.peer = id, !.dhsk = dhsk]
             frame == Apdu("DATA_REQ", [DHPM |-> n, RM |-> Rm(dhsk, MyId(n))], {"STATUS"})
  <2>4. Stops \/ ServerStep(n, "rh", sess, frame)
    BY <2>1
  <2> HIDE DEF id, dhsk
  <2>a. frame.tag = "DATA_REQ"
    BY <1>q
  <2>b. IsSession(sess) /\ SameContent(sess, old)
    BY <1>0, PeerDhskSet
  <2>3. IsSession(sess) /\ SameContent(sess, old) /\ frame.tag = "DATA_REQ"
    BY <2>a, <2>b
  <2> HIDE DEF sess, frame, Moves
  <2>5. Stops \/ Moves("rh", sess)
    BY <1>p, <2>2, <2>3, <2>4 DEF SameContent
  <2> QED
    BY <2>5 DEF Moves
<1>4. CASE ServerAgrees(n)
  <2>1. PICK m \in Incoming(toServer[n]) : ServerAgrees(n)!(m)
    BY <1>4 DEF ServerAgrees
  <2>2. spc[n] = "rh"
    BY <2>1 DEF ServerGets
  <2> DEFINE sess == [old EXCEPT !.auth = AuthKey(old.dhsk, old.peer, MyId(n))]
             frame == Apdu("DATA_REQ", NoValues, {"AKH"})
  <2>3. IsSession(sess) /\ sess.ck = old.ck /\ frame.tag = "DATA_REQ"
    BY <1>0, <1>q, AuthSet
  <2>4. Stops \/ ServerStep(n, "akh", sess, frame)
    BY <2>1
  <2> HIDE DEF sess, frame, Moves
  <2>5. Stops \/ Moves("akh", sess)
    BY <1>p, <2>2, <2>3, <2>4
  <2> QED
    BY <2>5 DEF Moves
<1>5. CASE ServerChecksAkh(n)
  <2>1. PICK m \in Incoming(toServer[n]) : ServerChecksAkh(n)!(m)
    BY <1>5 DEF ServerChecksAkh
  <2>2. Stops \/ (ServerGoesOn(n, "save", old) /\ UNCHANGED toClient)
    BY <2>1
  <2>3. ServerGoesOn(n, "save", old) /\ UNCHANGED toClient => Moves("save", old)
    BY <1>0, <2>1, Received DEF ServerMoves, ServerGets
  <2> HIDE DEF Moves
  <2> QED
    BY <2>2, <2>3 DEF Moves
<1>7. CASE ServerInitsSac(n)
  <2>1. PICK m \in Incoming(toServer[n]) : ServerInitsSac(n)!(m)
    BY <1>7 DEF ServerInitsSac
  <2> DEFINE key == SacKey(old.dhsk, old.auth, m.vals.NS_H, n)
             sac == [NoSac EXCEPT !.key = key]
             sess == [old EXCEPT !.sac = sac]
             frame == Apdu("SYNC_REQ", NoValues, {})
  <2>2. /\ IsSac(sac) /\ sac.key = key /\ sac.send = 1 /\ sac.recv = 1
    BY NewSac
  <2>3. key.dhsk = old.dhsk /\ key.auth = old.auth
    BY DEF SacKey
  <2>4. frame.tag = "SYNC_REQ"
    BY DEF Apdu
  <2>5. Stops \/ ServerStep(n, "sac_sync", sess, frame)
    BY <2>1
  <2> HIDE DEF key, sac, frame
  <2>6. IsSession(sess) /\ Keyed(sess, 1, 1) /\ sess.ck = old.ck
    BY <1>0, <2>2, <2>3, SacSet DEF Keyed
  <2> HIDE DEF sess
  <2>7. ServerStep(n, "sac_sync", sess, frame) => Moves("sac_sync", sess)
    BY <2>1, <2>4, <2>6, Received DEF ServerMoves, ServerGets, ServerStep
  <2> HIDE DEF Moves
  <2> QED
    BY <2>5, <2>7 DEF Moves
<1>8. CASE ServerSyncsSac(n)
  <2>1. PICK m \in Incoming(toServer[n]) : ServerSyncsSac(n)!(m)
    BY <1>8 DEF ServerSyncsSac
  <2> DEFINE after == Packed(old.sac)
             sess == [old EXCEPT !.sac = after]
             frame == SacApdu("SAC_DATA_REQ", old.sac,
                              [SERVER_ID |-> MyId(n), KP |-> n], {"CLIENT_ID", "STATUS"})
  <2>2. /\ IsSac(after) /\ after.key = old.sac.key
        /\ after.send = old.sac.send + 1 /\ after.recv = old.sac.recv
    BY <1>0, SacUsed
  <2>3. /\ frame.tag = "SAC_DATA_REQ"
        /\ frame.vals.SERVER_ID = MyId(n) /\ frame.vals.KP = n
    BY DEF SacApdu
  <2>4. Stops \/ ServerStep(n, "ck_cnf", sess, frame)
    BY <2>1
  <2> HIDE DEF after, frame
  <2>5. /\ IsSession(sess) /\ SameKeys(sess, old)
        /\ sess.sac = after /\ sess.ck = old.ck
    BY <1>0, <2>2, SacSet DEF SameKeys
  <2> HIDE DEF sess
  <2>6. ServerStep(n, "ck_cnf", sess, frame) => Moves("ck_cnf", sess)
    BY <2>1, <2>2, <2>3, <2>5, Received DEF ServerMoves, ServerGets, ServerStep
  <2> HIDE DEF Moves
  <2> QED
    BY <2>4, <2>6 DEF Moves
<1>9. CASE ServerUpdatesKey(n)
  <2>1. PICK m \in Incoming(toServer[n]) : ServerUpdatesKey(n)!(m)
    BY <1>9 DEF ServerUpdatesKey
  <2> DEFINE sac == Unpacked(old.sac)
             after == Packed(sac)
             ck == ContentKey(n, MyId(n))
             bck == ContentKey(m.vals.KP, old.peer)
             sess == Installed(old, after, ck, bck)
             frame == SacApdu("SAC_SYNC_REQ", sac, NoValues, {})
             good == m.key = old.sac.key /\ m.vals.CLIENT_ID = old.peer
  <2>2. /\ IsSac(after) /\ after.key = old.sac.key
        /\ after.send = old.sac.send + 1 /\ after.recv = old.sac.recv + 1
    BY <1>0, SacUsed
  <2>3. frame.tag = "SAC_SYNC_REQ"
    BY DEF SacApdu
  <2>4. Stops \/ (ServerStep(n, "ck_sync", sess, frame) /\ good)
    BY <2>1 DEF MacOk
  <2> HIDE DEF sac, after, frame, ck, bck
  <2>5. /\ IsSession(sess) /\ SameKeys(sess, old)
        /\ sess.ck = ck /\ sess.bck = bck /\ sess.sac = after
    BY <1>0, <2>2, KeysInstalled DEF SameKeys
  <2> HIDE DEF sess
  <2>r. /\ toServer[n] # <<>> /\ m = Head(toServer[n])
        /\ spc[n] = "ck_cnf" /\ m.tag = "SAC_DATA_CNF"
    BY <2>1, Received DEF ServerGets, ServerWants
  <2>6. ASSUME ServerStep(n, "ck_sync", sess, frame), good
        PROVE  Moves("ck_sync", sess)
    <3>1. \E f : /\ f.tag = "SAC_SYNC_REQ"
                 /\ toClient' = Sent(toClient, n, f)
      BY <2>3, <2>6 DEF ServerStep
    <3>2. ServerGoesOn(n, "ck_sync", sess)
      BY <2>6 DEF ServerStep
    <3> QED
      BY <2>2, <2>5, <2>6, <2>r, <3>1, <3>2 DEF ServerMoves, ck, bck
  <2> HIDE DEF Moves
  <2> QED
    BY <2>4, <2>6 DEF Moves
<1>10. CASE ServerSyncsKey(n)
  <2>1. PICK m \in Incoming(toServer[n]) : ServerSyncsKey(n)!(m)
    BY <1>10 DEF ServerSyncsKey
  <2> DEFINE after == Unpacked(old.sac)
             sess == [old EXCEPT !.sac = after]
  <2>2. /\ IsSac(after) /\ after.key = old.sac.key
        /\ after.send = old.sac.send /\ after.recv = old.sac.recv + 1
    BY <1>0, SacUsed
  <2>3. Stops \/ (ServerGoesOn(n, "ready", sess) /\ UNCHANGED toClient)
    BY <2>1
  <2> HIDE DEF after
  <2>4. /\ IsSession(sess) /\ SameKeys(sess, old) /\ SameContent(sess, old)
        /\ sess.sac = after
    BY <1>0, <2>2, SacSet DEF SameKeys, SameContent
  <2> HIDE DEF sess
  <2>5. ServerGoesOn(n, "ready", sess) /\ UNCHANGED toClient => Moves("ready", sess)
    BY <2>1, <2>2, <2>4, Received
    DEF ServerMoves, ServerGets, ServerWants, SameContent
  <2> HIDE DEF Moves
  <2> QED
    BY <2>3, <2>5 DEF Moves
<1>11. CASE ServerRecvFails(n)
  BY <1>11 DEF ServerRecvFails
<1> QED
  BY <1>1, <1>2, <1>3, <1>4, <1>5, <1>7, <1>8, <1>9, <1>10, <1>11
  DEF ServerHandshake

-----------------------------------------------------------------------------
(* Every step keeps the types *)

LEMMA ClientMovesTypes ==
    ASSUME Types, NEW n \in Conns, NEW pc, NEW sess, NEW frame,
           ClientMoves(n, pc, sess, frame)
    PROVE  ClientTypes' /\ Queues'
<1>1. pc \in ClientPcs
  BY ClientPcsAre DEF ClientMoves
<1> QED
  BY <1>1, ClientStepTypes DEF ClientMoves

LEMMA ClientLeavesTypes ==
    ASSUME Types, NEW n \in Conns, ClientLeaves(n)
    PROVE  ClientTypes' /\ Queues'
<1>1. ClientTypes' /\ QueueShapes(toClient)'
  BY ClientGivesUpTypes DEF ClientLeaves
<1>2. QueueShapes(toServer)
  BY DEF Types, Queues
<1>3. QueueShapes(toServer)'
  BY <1>2, QueueSent DEF ClientLeaves
<1> QED
  BY <1>1, <1>3 DEF Queues

LEMMA ServerMovesTypes ==
    ASSUME Types, NEW n \in Conns, NEW pc, NEW sess, ServerMoves(n, pc, sess)
    PROVE  ServerTypes' /\ Queues'
<1>1. pc \in ServerPcs
  BY ServerPcsAre DEF ServerMoves
<1>2. ServerTypes' /\ QueueShapes(toServer)'
  BY <1>1, ServerGoesOnTypes DEF ServerMoves
<1>3. QueueShapes(toClient)
  BY DEF Types, Queues
<1>4. QueueShapes(toClient)'
  BY <1>3, QueueSent DEF ServerMoves
<1> QED
  BY <1>2, <1>4 DEF Queues

LEMMA ServerSavesTypes ==
    ASSUME Types, NEW n \in Conns, ServerSaves(n)
    PROVE  ServerTypes' /\ Queues'
<1>1. QueueShapes(toClient)'
  BY QueueSent DEF ServerSaves, Types, Queues
<1>2. ServerTypes'
  BY ServerPcsAre DEF ServerSaves, Types, ServerTypes
<1> QED
  BY <1>1, <1>2 DEF ServerSaves, Types, Queues

LEMMA ClientHandshakeTypes ==
    ASSUME Types, NEW n \in Conns, ClientHandshake(n)
    PROVE  ClientTypes' /\ Queues'
BY ClientHandshakeMoves, ClientMovesTypes, ClientLeavesTypes

LEMMA ServerHandshakeTypes ==
    ASSUME Types, NEW n \in Conns, ServerHandshake(n)
    PROVE  ServerTypes' /\ Queues'
BY ServerHandshakeMoves, ServerMovesTypes, ServerClosesTypes, ServerSavesTypes,
   SlaveEndsTypes DEF ServerRaises

LEMMA ClientEndTypes ==
    ASSUME Types, NEW n \in Conns, ClientEnd(n)
    PROVE  ClientTypes' /\ Queues'
<1> USE DEF Types, ClientTypes, Queues, ClientEnd
<1>1. cpc' \in [Conns -> ClientPcs]
  BY ClientPcsAre
<1>2. SessionShapes(csess')
  BY SessionUpdated, NewSessionShape
<1>3. QueueShapes(toClient') /\ QueueShapes(toServer')
  BY EmptyQueue, QueueUpdated
<1> QED
  BY <1>1, <1>2, <1>3

LEMMA AcceptTypes ==
    ASSUME Types, TypeOK, NEW s, Accept(s)
    PROVE  Types'
<1>1. PICK n \in Backlog(s) :
        /\ spc' = [spc EXCEPT ![n] = "open_cnf"]
        /\ ssess' = [ssess EXCEPT ![n] =
                     [NewSession EXCEPT !.identity = load_identity("server")]]
        /\ toClient' = Sent(toClient, n, Apdu("OPEN_REQ", NoValues, {}))
  BY DEF Accept
<1>2. n \in Conns
  BY OpenedIsConns DEF Backlog
<1>3. IsSession([NewSession EXCEPT !.identity = load_identity("server")])
  BY DEF IsSession, IsSac, Fields, NewSession, NoSac
<1>4. ServerTypes'
  BY <1>1, <1>2, <1>3, ServerPcsAre, SessionUpdated DEF Types, ServerTypes
<1>5. QueueShapes(toClient)'
  BY <1>1, <1>2, QueueSent DEF Types, Queues
<1> QED
  BY <1>4, <1>5 DEF Accept, Types, ClientTypes, Queues, client

LEMMA LineNoiseTypes ==
    ASSUME Types, NEW n \in Conns, LineNoise(n)
    PROVE  Queues'
<1>1. QueueShapes(toClient) /\ QueueShapes(toServer)
  BY DEF Types, Queues
<1>2. QueueShapes(toClient)'
  BY <1>1, QueueTaken, QueueJammed DEF LineNoise
<1>3. QueueShapes(toServer)'
  BY <1>1, QueueTaken, QueueJammed DEF LineNoise
<1> QED
  BY <1>2, <1>3 DEF Queues

LEMMA RestartMasterTypes ==
    ASSUME Types, RestartMaster
    PROVE  ClientTypes' /\ Queues'
<1> USE DEF Types, ClientTypes, Queues, RestartMaster
<1>1. cpc' \in [Conns -> ClientPcs]
  BY ClientPcsAre
<1>2. SessionShapes(csess')
  BY NewSessionShape DEF SessionShapes
<1>3. QueueShapes(toClient') /\ QueueShapes(toServer')
  BY EmptyQueue DEF QueueShapes
<1> QED
  BY <1>1, <1>2, <1>3

(* The types of the sessions and queues follow those of the control state *)
LEMMA TypesStep ==
    ASSUME TypeOK, Types, [Next]_vars
    PROVE  Types'
<1> USE DEF Types
<1>0. Opened \subseteq Conns
  BY OpenedIsConns
<1>u. /\ UNCHANGED <<cpc, csess>> => ClientTypes'
      /\ UNCHANGED <<spc, ssess>> => ServerTypes'
      /\ UNCHANGED link => Queues'
  BY DEF ClientTypes, ServerTypes, Queues, link
<1>1. ASSUME NEW s \in Slaves, Connect(s)
      PROVE  Types'
  <2>1. cpc' \in [Conns -> ClientPcs]
    BY <1>1, ClientPcsAre DEF Connect, ClientTypes
  <2> QED
    BY <1>1, <1>u, <2>1 DEF Connect, ClientTypes, server
<1>2. ASSUME NEW n \in Opened, ClientHandshake(n)
      PROVE  Types'
  BY <1>0, <1>2, <1>u, ClientHandshakeTypes DEF ClientHandshake, server
<1>3. ASSUME NEW n \in Opened, ClientSaves(n)
      PROVE  Types'
  BY <1>0, <1>3, <1>u, ClientPcsAre DEF ClientSaves, ClientTypes, server
<1>4. ASSUME NEW n \in Opened, ClientTimeout(n) \/ SlowAnswer(n)
      PROVE  Types'
  BY <1>0, <1>4, <1>u, ClientLeavesTypes
  DEF ClientTimeout, SlowAnswer, ClientFails, ClientLeaves, server
<1>5. ASSUME NEW n \in Opened, ReleaseSocket(n) \/ Close(n)
      PROVE  Types'
  BY <1>0, <1>5, <1>u, ClientEndTypes DEF ReleaseSocket, Close, server
<1>6. ASSUME NEW s \in Slaves, Accept(s)
      PROVE  Types'
  BY <1>6, AcceptTypes
<1>7. ASSUME NEW s \in Slaves, RestartSlave(s)
      PROVE  Types'
  BY <1>7, <1>u DEF RestartSlave, client
<1>8. ASSUME NEW n \in Opened, ServerHandshake(n)
      PROVE  Types'
  BY <1>0, <1>8, <1>u, ServerHandshakeTypes DEF ServerHandshake, client
<1>9. ASSUME NEW n \in Opened, LineNoise(n)
      PROVE  Types'
  BY <1>0, <1>9, <1>u, LineNoiseTypes DEF LineNoise, client, server
<1>10. ASSUME NEW s \in Slaves, CrashSlave(s) \/ AcceptRaises(s)
       PROVE  Types'
  BY <1>10, <1>u, SlaveEndsTypes DEF CrashSlave, AcceptRaises, client
<1>11. ASSUME RestartMaster
       PROVE  Types'
  BY <1>11, <1>u, RestartMasterTypes DEF RestartMaster, server
<1>12. ASSUME DeleteState \/ RegeneratePki \/ WritePki \/ StartMaster
       PROVE  Types'
  BY <1>12, <1>u DEF DeleteState, RegeneratePki, WritePki, StartMaster, client,
                     server
<1>13. ASSUME UNCHANGED vars
       PROVE  Types'
  BY <1>13, <1>u DEF vars, client, server
<1> QED
  BY <1>1, <1>2, <1>3, <1>4, <1>5, <1>6, <1>7, <1>8, <1>9, <1>10, <1>11, <1>12, <1>13
  DEF Next, MasterNext, SlaveNext, IncidentNext

(* What a step of the slave does to its context file and to its process *)
LEMMA ServerHandshakeOutside ==
    ASSUME NEW n, ServerHandshake(n)
    PROVE  /\ UNCHANGED sctx \/ sctx' = [sctx EXCEPT ![target[n]] = ContextOf(ssess[n])]
           /\ UNCHANGED sup \/ sup' = [sup EXCEPT ![target[n]] = "died"]
<1> USE DEF ServerCloses, ServerRaises, SlaveEnds
<1>1. CASE ServerOpens(n)
  BY <1>1 DEF ServerOpens
<1>2. CASE ServerReauthenticates(n)
  BY <1>2 DEF ServerReauthenticates
<1>3. CASE ServerVerifies(n)
  BY <1>3 DEF ServerVerifies
<1>4. CASE ServerAgrees(n)
  BY <1>4 DEF ServerAgrees
<1>5. CASE ServerChecksAkh(n)
  BY <1>5 DEF ServerChecksAkh
<1>6. CASE ServerSaves(n)
  BY <1>6 DEF ServerSaves
<1>7. CASE ServerInitsSac(n)
  BY <1>7 DEF ServerInitsSac
<1>8. CASE ServerSyncsSac(n)
  BY <1>8 DEF ServerSyncsSac
<1>9. CASE ServerUpdatesKey(n)
  BY <1>9 DEF ServerUpdatesKey
<1>10. CASE ServerSyncsKey(n)
  BY <1>10 DEF ServerSyncsKey
<1>11. CASE ServerRecvFails(n)
  BY <1>11 DEF ServerRecvFails
<1> QED
  BY <1>1, <1>2, <1>3, <1>4, <1>5, <1>6, <1>7, <1>8, <1>9, <1>10, <1>11
  DEF ServerHandshake

(* TypeOK is inductive together with the shapes of the data *)
TypeInvariant == TypeOK /\ Shapes

Files == /\ cctx.file \in {"absent", "torn", "saved"}
         /\ sctx = [s \in Slaves |-> sctx[s]]
         /\ \A s \in Slaves : sctx[s].file \in {"absent", "torn", "saved"}
Identities == [root : Generations, brand : Generations, device : Generations]
Environment == /\ target \in Seq(Slaves) /\ Len(target) <= MaxConnects
               /\ sup \in [Slaves -> {"up", "down", "died"}]
               /\ pki \in [generation : Generations, next : 1..(Len(PkiFiles) + 1),
                           file : [Range(PkiFiles) -> Generations]]
               /\ identity \in Identities
               /\ incidents \in 0..MaxIncidents

LEMMA TypeInvariantParts == TypeInvariant <=> Types /\ Files /\ Environment
BY DEF TypeInvariant, TypeOK, Shapes, Types, ClientTypes, ServerTypes, Queues,
       Files, Environment, Identities

LEMMA TargetIsSlave ==
    ASSUME TypeOK, NEW n \in Opened
    PROVE  target[n] \in Slaves
<1>1. n \in 1..Len(target)
  BY OpenedIsConns
<1> QED
  BY <1>1, ElementOfSeq DEF TypeOK

LEMMA ContextFiles ==
    /\ \A sess : ContextOf(sess).file = "saved"
    /\ NoContext.file = "absent" /\ TornContext.file = "torn"
BY DEF ContextOf, NoContext, TornContext

LEMMA FilesStep ==
    ASSUME TypeOK, Files, [Next]_vars
    PROVE  Files'
<1> USE ContextFiles DEF Files
<1>u. UNCHANGED <<cctx, sctx>> => Files'
  OBVIOUS
<1>1. ASSUME NEW n \in Opened, ClientSaves(n)
      PROVE  Files'
  BY <1>1 DEF ClientSaves, server
<1>2. ASSUME NEW n \in Opened, ServerHandshake(n)
      PROVE  Files'
  <2>1. target[n] \in Slaves
    BY TargetIsSlave
  <2>2. UNCHANGED cctx
    BY <1>2 DEF ServerHandshake, client
  <2> DEFINE new == ContextOf(ssess[n])
  <2>3. UNCHANGED sctx \/ sctx' = [sctx EXCEPT ![target[n]] = new]
    BY <1>2, ServerHandshakeOutside
  <2>4. new.file = "saved"
    OBVIOUS
  <2> HIDE DEF new
  <2> QED
    BY <2>1, <2>2, <2>3, <2>4
<1>3. ASSUME NEW s \in Slaves, CrashSlave(s) \/ AcceptRaises(s)
      PROVE  Files'
  BY <1>3 DEF CrashSlave, AcceptRaises, client
<1>4. ASSUME RestartMaster
      PROVE  Files'
  BY <1>4 DEF RestartMaster, server
<1>5. ASSUME DeleteState
      PROVE  Files'
  BY <1>5 DEF DeleteState
<1>6. ASSUME \/ \E s \in Slaves : Connect(s) \/ Accept(s) \/ RestartSlave(s)
             \/ \E n \in Opened :
                    \/ ClientHandshake(n) \/ ClientTimeout(n) \/ ReleaseSocket(n)
                    \/ Close(n) \/ LineNoise(n) \/ SlowAnswer(n)
             \/ RegeneratePki \/ WritePki \/ StartMaster \/ UNCHANGED vars
      PROVE  Files'
  BY <1>6, <1>u
  DEF Connect, Accept, RestartSlave, ClientHandshake, ClientTimeout, ReleaseSocket,
      Close, LineNoise, SlowAnswer, RegeneratePki, WritePki, StartMaster, client,
      server, vars
<1> QED
  BY <1>1, <1>2, <1>3, <1>4, <1>5, <1>6 DEF Next, MasterNext, SlaveNext, IncidentNext

(* The seven files, and the three of them an identity is read from *)
LEMMA SevenFiles ==
    /\ Len(PkiFiles) = 7
    /\ \A i \in 1..7 : PkiFiles[i] \in Range(PkiFiles)
    /\ <<"root", "cert">> \in Range(PkiFiles)
    /\ \A role \in {"client", "server"} :
          <<role, "brand">> \in Range(PkiFiles) /\ <<role, "device">> \in Range(PkiFiles)
BY DEF PkiFiles, Range

LEMMA LoadedIdentity ==
    ASSUME Environment
    PROVE  /\ \A role \in {"client", "server"} : load_identity(role) \in Identities
           /\ NoIdentity \in Identities
<1>1. Torn \in Generations
  BY ConstantsAssumption DEF Torn, Generations
<1>2. pki.file \in [Range(PkiFiles) -> Generations]
  BY DEF Environment
<1>3. ASSUME NEW role \in {"client", "server"}
      PROVE  load_identity(role) \in Identities
  <2> DEFINE root == pki.file[<<"root", "cert">>]
             brand == pki.file[<<role, "brand">>]
             device == pki.file[<<role, "device">>]
  <2>1. root \in Generations /\ brand \in Generations /\ device \in Generations
    BY <1>2, SevenFiles
  <2>2. load_identity(role) = [root |-> root, brand |-> brand, device |-> device]
    BY DEF load_identity
  <2> HIDE DEF root, brand, device
  <2> QED
    BY <2>1, <2>2 DEF Identities
<1> QED
  BY <1>1, <1>3 DEF NoIdentity, Identities

LEMMA PkiStep ==
    ASSUME Environment, RegeneratePki \/ WritePki
    PROVE  pki' \in [generation : Generations, next : 1..(Len(PkiFiles) + 1),
                     file : [Range(PkiFiles) -> Generations]]
<1> DEFINE files == [Range(PkiFiles) -> Generations]
           Pkis == [generation : Generations, next : 1..8, file : files]
<1>0. pki \in Pkis /\ Len(PkiFiles) = 7
  BY SevenFiles DEF Environment
<1>1. ASSUME RegeneratePki
      PROVE  pki' \in Pkis
  <2>1. pki.generation + 1 \in Generations
    BY <1>0, <1>1, ConstantsAssumption DEF RegeneratePki, Generations
  <2>2. pki' = [generation |-> pki.generation + 1, next |-> 1, file |-> pki.file]
    BY <1>0, <1>1 DEF RegeneratePki
  <2> HIDE DEF files
  <2> QED
    BY <1>0, <2>1, <2>2
<1>2. ASSUME WritePki
      PROVE  pki' \in Pkis
  <2> DEFINE f == PkiFiles[pki.next]
             g == IF pki.file[f] # Torn THEN Torn ELSE pki.generation
             new == [pki.file EXCEPT ![f] = g]
  <2>1. g \in Generations
    BY <1>0, ConstantsAssumption DEF Generations, Torn
  <2> HIDE DEF g
  <2>2. new \in files
    BY <1>0, <2>1
  <2>3. pki.next \in 1..7
    BY <1>0, <1>2 DEF WritePki, PkiFiles
  <2>4. \E i \in 1..8 :
           pki' = [generation |-> pki.generation, next |-> i, file |-> new]
    <3>1. CASE pki.file[f] # Torn
      <4>1. pki' = [pki EXCEPT !.file = new]
        BY <1>2, <3>1 DEF WritePki, g
      <4> HIDE DEF files, new
      <4> QED
        BY <1>0, <4>1
    <3>2. CASE pki.file[f] = Torn
      <4>1. pki' = [pki EXCEPT !.file = new, !.next = @ + 1]
        BY <1>2, <3>2 DEF WritePki, g
      <4>2. pki.next + 1 \in 1..8
        BY <2>3
      <4> HIDE DEF files, new
      <4> QED
        BY <1>0, <4>1, <4>2
    <3> QED
      BY <3>1, <3>2
  <2> HIDE DEF new, files
  <2> QED
    BY <1>0, <2>2, <2>4
<1> QED
  BY <1>0, <1>1, <1>2

LEMMA EnvironmentStep ==
    ASSUME TypeOK, Environment, [Next]_vars
    PROVE  Environment'
<1> USE ConstantsAssumption DEF Environment
<1>u. UNCHANGED <<target, sup, pki, identity, incidents>> => Environment'
  OBVIOUS
<1>i. ASSUME NEW kind, Incident(kind), UNCHANGED <<target, sup, pki, identity>>
      PROVE  Environment'
  BY <1>i DEF Incident
<1>1. ASSUME NEW s \in Slaves, Connect(s)
      PROVE  Environment'
  <2>1. target' \in Seq(Slaves) /\ Len(target') = Len(target) + 1
    BY <1>1, AppendProperties DEF Connect
  <2>2. Len(target) \in Nat
    BY OpenedIsConns
  <2> QED
    BY <1>1, <2>1, <2>2 DEF Connect, server
<1>2. ASSUME NEW n \in Opened, ServerHandshake(n)
      PROVE  Environment'
  BY <1>2, TargetIsSlave, ServerHandshakeOutside DEF ServerHandshake, client
<1>3. ASSUME NEW s \in Slaves, CrashSlave(s) \/ AcceptRaises(s)
      PROVE  Environment'
  BY <1>3 DEF CrashSlave, AcceptRaises, SlaveEnds, Incident, client
<1>4. ASSUME RestartMaster \/ StartMaster
      PROVE  Environment'
  BY <1>4, LoadedIdentity DEF RestartMaster, StartMaster, Incident, client, server
<1>5. ASSUME RegeneratePki \/ WritePki
      PROVE  Environment'
  BY <1>5, PkiStep DEF RegeneratePki, WritePki, Incident, client, server
<1>6. ASSUME NEW s \in Slaves, RestartSlave(s)
      PROVE  Environment'
  BY <1>6 DEF RestartSlave, client
<1>7. ASSUME \/ DeleteState
             \/ \E n \in Opened : LineNoise(n) \/ SlowAnswer(n)
      PROVE  Environment'
  BY <1>7, <1>i DEF DeleteState, LineNoise, SlowAnswer, client, server
<1>8. ASSUME \/ \E s \in Slaves : Accept(s)
             \/ \E n \in Opened :
                    \/ ClientHandshake(n) \/ ClientSaves(n) \/ ClientTimeout(n)
                    \/ ReleaseSocket(n) \/ Close(n)
             \/ UNCHANGED vars
      PROVE  Environment'
  BY <1>8, <1>u
  DEF Accept, ClientHandshake, ClientSaves, ClientTimeout, ReleaseSocket, Close,
      client, server, vars
<1> QED
  BY <1>1, <1>2, <1>3, <1>4, <1>5, <1>6, <1>7, <1>8
  DEF Next, MasterNext, SlaveNext, IncidentNext

LEMMA TypeInvariantHolds == Spec => []TypeInvariant
<1>1. Init => TypeInvariant
  <2> SUFFICES ASSUME Init
               PROVE  TypeInvariant
    OBVIOUS
  <2> USE DEF Init
  <2>1. Types
    BY ClientPcsAre, ServerPcsAre, NewSessionShape, EmptyQueue
    DEF Types, ClientTypes, ServerTypes, Queues, SessionShapes, QueueShapes
  <2>2. Files
    BY ContextFiles DEF Files
  <2>3. Environment
    <3>1. /\ 1 \in Generations /\ Len(PkiFiles) = 7
          /\ pki = [generation |-> 1, next |-> 8, file |-> [f \in Range(PkiFiles) |-> 1]]
      BY SevenFiles, ConstantsAssumption DEF Generations
    <3>2. identity \in Identities
      BY <3>1, SevenFiles DEF Identities, load_identity
    <3> QED
      BY <3>1, <3>2, EmptySeq, ConstantsAssumption DEF Environment
  <2> QED
    BY <2>1, <2>2, <2>3, TypeInvariantParts
<1>2. TypeInvariant /\ [Next]_vars => TypeInvariant'
  <2> SUFFICES ASSUME TypeInvariant, [Next]_vars
               PROVE  TypeInvariant'
    OBVIOUS
  <2>1. TypeOK
    BY DEF TypeInvariant
  <2>2. Types' /\ Files' /\ Environment'
    BY <2>1, TypesStep, FilesStep, EnvironmentStep, TypeInvariantParts
  <2> QED
    BY <2>2, TypeInvariantParts, PTL
<1> QED
  BY <1>1, <1>2, PTL DEF Spec

(* The control state of both programs, the files and the environment stay   *)
(* within their types.                                                     *)
THEOREM TypeCorrect == Spec => []TypeOK
<1>1. TypeInvariant => TypeOK
  BY DEF TypeInvariant
<1> QED
  BY <1>1, TypeInvariantHolds, PTL

-----------------------------------------------------------------------------
(* Agreement on the keys.  One lemma per kind of step: what it does to the   *)
(* connection it is a step of, and that it leaves the others alone.          *)

LEMMA NothingHappened ==
    ASSUME NEW i \in Conns, Agreed(i), UNCHANGED target,
           cpc'[i] = cpc[i], csess'[i] = csess[i],
           spc'[i] = spc[i], ssess'[i] = ssess[i],
           toClient'[i] = toClient[i], toServer'[i] = toServer[i]
    PROVE  Agreed(i)'
<1>1. MyId(i)' = MyId(i) /\ Opened' = Opened
  BY DEF MyId, Opened
<1>2. Untouched(i)'
  BY <1>1 DEF Agreed, Untouched
<1>3. ClientSide(i)' /\ FramesToClient(i)'
  BY <1>1 DEF Agreed, ClientSide, FramesToClient
<1>4. ServerSide(i)' /\ FramesToServer(i)'
  BY <1>1 DEF Agreed, ServerSide, FramesToServer, SameSac
<1> QED
  BY <1>2, <1>3, <1>4 DEF Agreed

LEMMA ClientMovesAgreed ==
    ASSUME Types, NEW n \in Opened, n \in Conns, Agreed(n),
           NEW pc, NEW sess, NEW frame, ClientMoves(n, pc, sess, frame),
           UNCHANGED <<spc, ssess, target>>
    PROVE  /\ Agreed(n)'
           /\ \A i \in Conns \ {n} : Agreed(i) => Agreed(i)'
<1> USE DEF Types, ClientTypes, Queues, SessionShapes
<1>1. /\ cpc'[n] = pc /\ csess'[n] = sess
      /\ \A i \in Conns \ {n} : cpc'[i] = cpc[i] /\ csess'[i] = csess[i]
  BY DEF ClientMoves, ClientStep
<1>2. /\ Range(toServer'[n]) = Range(toServer[n]) \cup {frame}
      /\ \A i \in Conns \ {n} : toServer'[i] = toServer[i]
  <2>1. toServer' = Sent(toServer, n, frame) /\ QueueShapes(toServer)
    BY DEF ClientMoves, ClientStep
  <2> QED
    BY <2>1, QueueSent
<1>3. /\ Range(toClient'[n]) \subseteq Range(toClient[n])
      /\ Head(toClient[n]) \in Range(toClient[n])
      /\ \A i \in Conns \ {n} : toClient'[i] = toClient[i]
  BY QueueTaken DEF ClientMoves, ClientStep
<1>4. MyId(n)' = MyId(n) /\ Opened' = Opened
  BY DEF MyId, Opened
<1>5. Untouched(n)'
  BY <1>4 DEF Untouched
<1>6. FramesToClient(n)'
  BY <1>3, <1>4 DEF Agreed, FramesToClient
<1>7. ClientSide(n)'
  BY <1>1, <1>3, <1>4
  DEF Agreed, ClientSide, FramesToClient, ClientMoves, Keyed, SameKeys, SameContent
<1>8. \A key : SameSac(n, key) => SameSac(n, key)'
  BY <1>1 DEF SameSac, ClientMoves, SameKeys
<1>9. cpc[n] \notin {"ready", "closed", "failed"}
  BY DEF ClientMoves
<1>10. ServerSide(n)'
  BY <1>1, <1>4, <1>8, <1>9 DEF Agreed, ServerSide
<1>11. FramesToServer(n)'
  BY <1>1, <1>2, <1>8, <1>9 DEF Agreed, FramesToServer, ClientMoves, SameSac, SameKeys
<1>12. \A i \in Conns \ {n} : Agreed(i) => Agreed(i)'
  BY <1>1, <1>2, <1>3, NothingHappened
<1> QED
  BY <1>5, <1>6, <1>7, <1>10, <1>11, <1>12 DEF Agreed

(* The master's end gives up or closes; it may have sent a last frame *)
LEMMA ClientGoneAgreed ==
    ASSUME NEW n \in Opened, n \in Conns, Agreed(n),
           \/ cpc'[n] = "failed" /\ cpc[n] \notin {"ready", "closed"}
           \/ cpc'[n] = "closed",
           toClient'[n] = <<>>,
           \A m \in Range(toServer'[n]) :
               m \in Range(toServer[n]) \/ m.tag = "DATA_CNF",
           UNCHANGED <<spc, ssess, target>>
    PROVE  Agreed(n)'
<1>1. MyId(n)' = MyId(n) /\ Opened' = Opened
  BY DEF MyId, Opened
<1>2. Untouched(n)' /\ FramesToClient(n)'
  BY <1>1, EmptyQueue DEF Untouched, FramesToClient
<1>3. ClientSide(n)'
  BY DEF ClientSide
<1>4. \A key : SameSac(n, key)'
  BY DEF SameSac
<1>5. ServerSide(n)'
  BY <1>1, <1>4 DEF Agreed, ServerSide
<1>6. FramesToServer(n)'
  BY <1>4 DEF Agreed, FramesToServer
<1> QED
  BY <1>2, <1>3, <1>5, <1>6 DEF Agreed

LEMMA ServerMovesAgreed ==
    ASSUME Types, NEW n \in Opened, n \in Conns, Agreed(n),
           NEW pc, NEW sess, ServerMoves(n, pc, sess),
           UNCHANGED <<cpc, csess, target>>
    PROVE  /\ Agreed(n)'
           /\ \A i \in Conns \ {n} : Agreed(i) => Agreed(i)'
<1> USE DEF Types, ServerTypes, Queues, SessionShapes
<1>1. /\ spc'[n] = pc /\ ssess'[n] = sess
      /\ \A i \in Conns \ {n} : spc'[i] = spc[i] /\ ssess'[i] = ssess[i]
  BY DEF ServerMoves, ServerGoesOn
<1>2. /\ \A m \in Range(toClient'[n]) :
            \/ m \in Range(toClient[n])
            \/ m.tag = "SAC_DATA_REQ" => m.vals.SERVER_ID = MyId(n) /\ m.vals.KP = n
      /\ \A i \in Conns \ {n} : toClient'[i] = toClient[i]
  <2>1. CASE UNCHANGED toClient
    BY <2>1
  <2>2. ASSUME NEW frame, toClient' = Sent(toClient, n, frame),
               frame.tag = "SAC_DATA_REQ" =>
                   frame.vals.SERVER_ID = MyId(n) /\ frame.vals.KP = n
        PROVE  <1>2
    BY <2>2, QueueSent
  <2> QED
    BY <2>1, <2>2 DEF ServerMoves
<1>3. /\ Range(toServer'[n]) \subseteq Range(toServer[n])
      /\ Head(toServer[n]) \in Range(toServer[n])
      /\ \A i \in Conns \ {n} : toServer'[i] = toServer[i]
  <2>1. /\ toServer' = Taken(toServer, n) /\ QueueShapes(toServer)
        /\ toServer[n] # <<>>
    BY DEF ServerMoves, ServerGoesOn
  <2> QED
    BY <2>1, QueueTaken
<1>4. MyId(n)' = MyId(n) /\ Opened' = Opened
  BY DEF MyId, Opened
<1>5. Untouched(n)' /\ ClientSide(n)'
  BY <1>4 DEF Agreed, Untouched, ClientSide
<1>6. \A key : SameSac(n, key)' = SameSac(n, key)
  BY DEF SameSac
<1>7. FramesToClient(n)' /\ FramesToServer(n)'
  BY <1>2, <1>3, <1>4, <1>6 DEF Agreed, FramesToClient, FramesToServer
<1>8. ServerSide(n)'
  BY <1>1, <1>3, <1>4, <1>6
  DEF Agreed, ServerSide, FramesToServer, ServerMoves, Keyed, SameKeys, SameContent
<1>9. \A i \in Conns \ {n} : Agreed(i) => Agreed(i)'
  BY <1>1, <1>2, <1>3, NothingHappened
<1> QED
  BY <1>5, <1>7, <1>8, <1>9 DEF Agreed

(* The slave's end closes, or its process has ended *)
LEMMA ServerGoneAgreed ==
    ASSUME NEW n \in Opened, Agreed(n),
           spc'[n] = "closed", toServer'[n] = <<>>,
           UNCHANGED <<cpc, csess, toClient, target>>
    PROVE  Agreed(n)'
<1>1. MyId(n)' = MyId(n) /\ Opened' = Opened
  BY DEF MyId, Opened
<1>2. Untouched(n)' /\ ClientSide(n)' /\ FramesToClient(n)'
  BY <1>1 DEF Agreed, Untouched, ClientSide, FramesToClient
<1>3. ServerSide(n)' /\ FramesToServer(n)'
  BY EmptyQueue DEF ServerSide, FramesToServer
<1> QED
  BY <1>2, <1>3 DEF Agreed

LEMMA SlaveEndsAgreed ==
    ASSUME NEW s, NEW how, SlaveEnds(s, how), UNCHANGED <<cpc, csess, target>>,
           NEW i \in Conns, Agreed(i)
    PROVE  Agreed(i)'
<1>1. CASE i \in Opened /\ target[i] = s
  BY <1>1, ServerGoneAgreed DEF SlaveEnds
<1>2. CASE ~(i \in Opened /\ target[i] = s)
  BY <1>2, NothingHappened DEF SlaveEnds
<1> QED
  BY <1>1, <1>2

LEMMA ConnectAgreed ==
    ASSUME TypeOK, Types, NEW s \in Slaves, Connect(s), NEW i \in Conns, Agreed(i)
    PROVE  Agreed(i)'
<1> DEFINE new == Len(target) + 1
<1>1. /\ Opened = 1..Len(target) /\ Opened' = 1..new /\ Len(target) \in Nat
      /\ \A k \in Opened : target'[k] = target[k]
  <2>1. /\ target \in Seq(Slaves) /\ target' = Append(target, s)
    BY DEF TypeOK, Connect
  <2>2. /\ target' \in Seq(Slaves) /\ Len(target') = new
        /\ \A k \in 1..Len(target) : target'[k] = target[k]
    BY <2>1, AppendProperties
  <2> QED
    BY <2>1, <2>2, LenProperties DEF Opened
<1>2. UNCHANGED <<csess, spc, ssess, toClient, toServer>>
  BY DEF Connect, server, link
<1>3. CASE i \in Opened
  <2>1. cpc'[i] = cpc[i]
    BY <1>1, <1>3 DEF Connect, Types, ClientTypes
  <2>2. MyId(i)' = MyId(i) /\ i \in Opened'
    BY <1>1, <1>3 DEF MyId
  <2> QED
    BY <1>2, <1>3, <2>1, <2>2
    DEF Agreed, Untouched, ClientSide, ServerSide, SameSac, FramesToClient, FramesToServer
<1>4. CASE i \notin Opened
  <2>1. /\ spc'[i] = "none" /\ toClient'[i] = <<>> /\ toServer'[i] = <<>>
        /\ cpc[i] = "none"
    BY <1>2, <1>4 DEF Agreed, Untouched
  <2>2. cpc'[i] \in {"none", "open_req"} /\ (i # new => cpc'[i] = cpc[i])
    BY <2>1 DEF Connect, Types, ClientTypes
  <2>3. Untouched(i)'
    BY <1>1, <2>1, <2>2 DEF Untouched
  <2>4. ClientSide(i)' /\ ServerSide(i)'
    BY <2>1, <2>2 DEF ClientSide, ServerSide
  <2>5. FramesToClient(i)' /\ FramesToServer(i)'
    BY <2>1, EmptyQueue DEF FramesToClient, FramesToServer
  <2> QED
    BY <2>3, <2>4, <2>5 DEF Agreed
<1> QED
  BY <1>3, <1>4

LEMMA RestartMasterAgreed ==
    ASSUME RestartMaster, NEW i \in Conns, Agreed(i)
    PROVE  Agreed(i)'
<1>1. /\ cpc'[i] = IF i \in Opened THEN "closed" ELSE "none"
      /\ toClient'[i] = <<>> /\ UNCHANGED <<toServer, spc, ssess, target>>
  BY DEF RestartMaster, server
<1>2. CASE i \in Opened
  BY <1>1, <1>2, ClientGoneAgreed
<1>3. CASE i \notin Opened
  <2>1. spc[i] = "none" /\ toServer[i] = <<>>
    BY <1>3 DEF Agreed, Untouched
  <2>2. Untouched(i)' /\ ClientSide(i)' /\ ServerSide(i)'
    BY <1>1, <1>3, <2>1 DEF Untouched, ClientSide, ServerSide
  <2>3. FramesToClient(i)' /\ FramesToServer(i)'
    BY <1>1, <2>1, EmptyQueue DEF FramesToClient, FramesToServer
  <2> QED
    BY <2>2, <2>3 DEF Agreed
<1> QED
  BY <1>2, <1>3

LEMMA AcceptAgreed ==
    ASSUME TypeOK, Types, NEW s, Accept(s), NEW i \in Conns, Agreed(i)
    PROVE  Agreed(i)'
<1> DEFINE open == Apdu("OPEN_REQ", NoValues, {})
<1>1. PICK n \in Backlog(s) :
        /\ spc' = [spc EXCEPT ![n] = "open_cnf"]
        /\ ssess' = [ssess EXCEPT ![n] =
                     [NewSession EXCEPT !.identity = load_identity("server")]]
        /\ toClient' = Sent(toClient, n, open)
  BY DEF Accept
<1>2. n \in Opened /\ n \in Conns
  BY OpenedIsConns DEF Backlog
<1>3. UNCHANGED <<toServer, cpc, csess, target>>
  BY DEF Accept, client
<1>4. open.tag = "OPEN_REQ" /\ QueueShapes(toClient)
  BY DEF Apdu, Types, Queues
<1> HIDE DEF open
<1>5. CASE i # n
  <2>1. /\ spc'[i] = spc[i] /\ ssess'[i] = ssess[i]
    BY <1>1, <1>5 DEF Types, ServerTypes, SessionShapes
  <2>2. toClient'[i] = toClient[i]
    BY <1>1, <1>2, <1>4, <1>5, QueueSent
  <2> QED
    BY <1>3, <2>1, <2>2, NothingHappened
<1>6. CASE i = n
  <2>1. spc'[n] = "open_cnf"
    BY <1>1, <1>2 DEF Types, ServerTypes
  <2>2. Range(toClient'[n]) = Range(toClient[n]) \cup {open}
    BY <1>1, <1>2, <1>4, QueueSent
  <2>3. MyId(n)' = MyId(n) /\ Opened' = Opened
    BY <1>3 DEF MyId, Opened
  <2>4. Untouched(n)' /\ ServerSide(n)'
    BY <1>2, <2>1, <2>3 DEF Untouched, ServerSide
  <2>5. ClientSide(n)' /\ FramesToClient(n)'
    BY <1>3, <1>4, <1>6, <2>2, <2>3 DEF Agreed, ClientSide, FramesToClient
  <2>6. FramesToServer(n)'
    BY <1>3, <1>6 DEF Agreed, FramesToServer, SameSac
  <2> QED
    BY <1>6, <2>4, <2>5, <2>6 DEF Agreed
<1> QED
  BY <1>5, <1>6

LEMMA Disturbed ==
    ASSUME NEW queues, QueueShapes(queues), NEW n \in Conns, queues[n] # <<>>,
           NEW after, after = Jammed(queues, n) \/ after = Taken(queues, n),
           NEW i \in Conns
    PROVE  /\ Range(after[i]) \subseteq Range(queues[i]) \cup {Garbled}
           /\ queues[i] = <<>> => after[i] = <<>>
<1>1. CASE i = n
  BY <1>1, QueueTaken, QueueJammed
<1>2. CASE i # n
  BY <1>2, QueueTaken, QueueJammed
<1> QED
  BY <1>1, <1>2

LEMMA LineNoiseAgreed ==
    ASSUME Types, NEW n \in Conns, LineNoise(n), NEW i \in Conns, Agreed(i)
    PROVE  Agreed(i)'
<1>1. UNCHANGED <<cpc, csess, spc, ssess, target>>
  BY DEF LineNoise, client, server
<1>2. Garbled.tag = "GARBLED"
  BY DEF Garbled, Apdu
<1>3. QueueShapes(toClient) /\ QueueShapes(toServer)
  BY DEF Types, Queues
<1>4. /\ Range(toClient'[i]) \subseteq Range(toClient[i]) \cup {Garbled}
      /\ toClient[i] = <<>> => toClient'[i] = <<>>
  BY <1>3, Disturbed DEF LineNoise
<1>5. /\ Range(toServer'[i]) \subseteq Range(toServer[i]) \cup {Garbled}
      /\ toServer[i] = <<>> => toServer'[i] = <<>>
  BY <1>3, Disturbed DEF LineNoise
<1>6. MyId(i)' = MyId(i) /\ Opened' = Opened
  BY <1>1 DEF MyId, Opened
<1>7. Untouched(i)' /\ ClientSide(i)'
  BY <1>1, <1>4, <1>5, <1>6 DEF Agreed, Untouched, ClientSide
<1>8. ServerSide(i)'
  BY <1>1, <1>6 DEF Agreed, ServerSide, SameSac
<1>9. FramesToClient(i)' /\ FramesToServer(i)'
  BY <1>1, <1>2, <1>4, <1>5, <1>6 DEF Agreed, FramesToClient, FramesToServer, SameSac
<1> QED
  BY <1>7, <1>8, <1>9 DEF Agreed

LEMMA AgreedStep ==
    ASSUME TypeOK, Types, [Next]_vars, \A i \in Conns : Agreed(i)
    PROVE  \A i \in Conns : Agreed(i)'
<1> SUFFICES ASSUME NEW i \in Conns
             PROVE  Agreed(i)'
  OBVIOUS
<1>0. Agreed(i) /\ Opened \subseteq Conns
  BY OpenedIsConns
<1>s. ASSUME UNCHANGED <<target, cpc, csess, spc, ssess, link>>
      PROVE  Agreed(i)'
  BY <1>0, <1>s, NothingHappened DEF link
<1>l. ASSUME NEW n \in Opened, ClientLeaves(n) \/ ClientEnd(n),
             ClientLeaves(n) => cpc[n] \notin {"ready", "closed"},
             UNCHANGED <<spc, ssess, target>>
      PROVE  Agreed(i)'
  <2> USE DEF Types, ClientTypes, Queues, SessionShapes, QueueShapes
  <2>1. /\ \/ cpc'[n] = "failed" /\ cpc[n] \notin {"ready", "closed"}
           \/ cpc'[n] = "closed"
        /\ toClient'[n] = <<>>
        /\ i # n => /\ cpc'[i] = cpc[i] /\ csess'[i] = csess[i]
                    /\ toClient'[i] = toClient[i]
    BY <1>0, <1>l DEF ClientLeaves, ClientGivesUp, ClientEnd
  <2>2. /\ \A m \in Range(toServer'[n]) : m \in Range(toServer[n]) \/ m.tag = "DATA_CNF"
        /\ i # n => toServer'[i] = toServer[i]
    <3>1. CASE UNCHANGED toServer
      BY <3>1
    <3>2. ASSUME NEW frame, frame.tag = "DATA_CNF", toServer' = Sent(toServer, n, frame)
          PROVE  <2>2
      <4> HIDE DEF QueueShapes
      <4>1. n \in Conns /\ QueueShapes(toServer)
        BY <1>0
      <4>2. /\ Range(toServer'[n]) = Range(toServer[n]) \cup {frame}
            /\ i # n => toServer'[i] = toServer[i]
        BY <3>2, <4>1, QueueSent
      <4> QED
        BY <3>2, <4>2
    <3> QED
      BY <1>l, <3>1, <3>2 DEF ClientLeaves, ClientEnd
  <2>3. CASE i = n
    BY <1>0, <1>l, <2>1, <2>2, <2>3, ClientGoneAgreed
  <2>4. CASE i # n
    BY <1>0, <1>l, <2>1, <2>2, <2>4, NothingHappened
  <2> QED
    BY <2>3, <2>4
<1>1. ASSUME NEW s \in Slaves, Connect(s)
      PROVE  Agreed(i)'
  BY <1>0, <1>1, ConnectAgreed
<1>2. ASSUME NEW n \in Opened, ClientHandshake(n)
      PROVE  Agreed(i)'
  <2>1. n \in Conns /\ Agreed(n) /\ UNCHANGED <<spc, ssess, target>>
    BY <1>0, <1>2 DEF ClientHandshake, server
  <2>2. ASSUME NEW pc, NEW sess, NEW frame, ClientMoves(n, pc, sess, frame)
        PROVE  Agreed(i)'
    BY <1>0, <2>1, <2>2, ClientMovesAgreed
  <2>3. cpc[n] \notin {"ready", "closed"}
    BY <1>2
    DEF ClientHandshake, ClientOpens, ClientReauthenticates, ClientCannotReauthenticate,
        ClientVerifies, ClientAgrees, ClientSendsAkh, ClientInitsSac, ClientSyncsSac,
        ClientUpdatesKey, ClientSyncsKey, ClientRecvFails, ClientGets, ClientWants
  <2> QED
    BY <1>2, <1>l, <2>1, <2>2, <2>3, ClientHandshakeMoves
<1>3. ASSUME NEW n \in Opened, ClientSaves(n)
      PROVE  Agreed(i)'
  <2>1. /\ cpc[n] = "save" /\ n \in Conns /\ Agreed(n)
        /\ cpc'[n] = "sac_req" /\ (i # n => cpc'[i] = cpc[i])
        /\ UNCHANGED <<csess, spc, ssess, toClient, toServer, target>>
    BY <1>0, <1>3 DEF ClientSaves, link, server, Types, ClientTypes
  <2>2. CASE i # n
    BY <1>0, <2>1, <2>2, NothingHappened
  <2>3. CASE i = n
    <3>1. MyId(n)' = MyId(n) /\ Opened' = Opened
      BY <2>1 DEF MyId, Opened
    <3>2. \A key : ~SameSac(n, key)
      BY <2>1 DEF SameSac
    <3>3. Untouched(n)' /\ ClientSide(n)' /\ FramesToClient(n)'
      BY <2>1, <3>1 DEF Agreed, Untouched, ClientSide, FramesToClient
    <3>4. ServerSide(n)' /\ FramesToServer(n)'
      BY <2>1, <3>1, <3>2 DEF Agreed, ServerSide, FramesToServer
    <3> QED
      BY <2>3, <3>3, <3>4 DEF Agreed
  <2> QED
    BY <2>2, <2>3
<1>4. ASSUME NEW n \in Opened, ClientTimeout(n) \/ SlowAnswer(n)
      PROVE  Agreed(i)'
  <2>1. cpc[n] \notin {"ready", "closed"}
    BY <1>4 DEF ClientTimeout, SlowAnswer, ClientWants
  <2>2. ClientLeaves(n) /\ UNCHANGED <<spc, ssess, target>>
    BY <1>4 DEF ClientTimeout, SlowAnswer, ClientFails, ClientLeaves, server
  <2> QED
    BY <1>l, <2>1, <2>2
<1>5. ASSUME NEW n \in Opened, ReleaseSocket(n) \/ Close(n)
      PROVE  Agreed(i)'
  <2>1. ClientEnd(n) /\ UNCHANGED <<spc, ssess, target>>
    BY <1>5 DEF ReleaseSocket, Close, server
  <2>2. ~ClientLeaves(n)
    BY <1>0, <2>1 DEF ClientLeaves, ClientGivesUp, ClientEnd, Types, ClientTypes
  <2> QED
    BY <1>l, <2>1, <2>2
<1>6. ASSUME NEW s \in Slaves, Accept(s)
      PROVE  Agreed(i)'
  BY <1>0, <1>6, AcceptAgreed
<1>7. ASSUME NEW n \in Opened, ServerHandshake(n)
      PROVE  Agreed(i)'
  <2>1. n \in Conns /\ Agreed(n) /\ UNCHANGED <<cpc, csess, target>>
    BY <1>0, <1>7 DEF ServerHandshake, client
  <2>2. ASSUME NEW pc, NEW sess, ServerMoves(n, pc, sess)
        PROVE  Agreed(i)'
    BY <1>0, <2>1, <2>2, ServerMovesAgreed
  <2>3. CASE ServerRaises(n)
    BY <1>0, <2>1, <2>3, SlaveEndsAgreed DEF ServerRaises
  <2>4. CASE ServerCloses(n)
    <3>1. /\ spc'[n] = "closed" /\ toServer'[n] = <<>> /\ UNCHANGED toClient
          /\ i # n => /\ spc'[i] = spc[i] /\ ssess'[i] = ssess[i]
                      /\ toServer'[i] = toServer[i]
      BY <2>1, <2>4
      DEF ServerCloses, Types, ServerTypes, Queues, SessionShapes, QueueShapes
    <3> QED
      BY <1>0, <2>1, <3>1, ServerGoneAgreed, NothingHappened
  <2>5. CASE ServerSaves(n)
    <3>1. /\ spc'[n] = "sac_cnf" /\ UNCHANGED <<toServer, ssess>>
          /\ i # n => spc'[i] = spc[i]
      BY <2>1, <2>5 DEF ServerSaves, Types, ServerTypes
    <3>2. /\ Range(toClient'[n]) = Range(toClient[n]) \cup {SacRequest(n)}
          /\ i # n => toClient'[i] = toClient[i]
      BY <2>1, <2>5, QueueSent DEF ServerSaves, Types, Queues
    <3>3. MyId(n)' = MyId(n) /\ Opened' = Opened /\ SacRequest(n).tag = "DATA_REQ"
      BY <2>1 DEF MyId, Opened, SacRequest, Apdu
    <3>4. Untouched(n)' /\ ServerSide(n)'
      BY <3>1, <3>3 DEF Untouched, ServerSide
    <3>5. ClientSide(n)' /\ FramesToClient(n)' /\ FramesToServer(n)'
      BY <2>1, <3>1, <3>2, <3>3
      DEF Agreed, ClientSide, FramesToClient, FramesToServer, SameSac
    <3>6. Agreed(n)'
      BY <3>4, <3>5 DEF Agreed
    <3> QED
      BY <1>0, <2>1, <3>1, <3>2, <3>6, NothingHappened
  <2> QED
    BY <1>7, <2>1, <2>2, <2>3, <2>4, <2>5, ServerHandshakeMoves
<1>8. ASSUME NEW n \in Opened, LineNoise(n)
      PROVE  Agreed(i)'
  BY <1>0, <1>8, LineNoiseAgreed
<1>9. ASSUME NEW s \in Slaves, CrashSlave(s) \/ AcceptRaises(s)
      PROVE  Agreed(i)'
  BY <1>0, <1>9, SlaveEndsAgreed DEF CrashSlave, AcceptRaises, client
<1>10. ASSUME RestartMaster
       PROVE  Agreed(i)'
  BY <1>0, <1>10, RestartMasterAgreed
<1>11. ASSUME \/ \E s \in Slaves : RestartSlave(s)
              \/ DeleteState \/ RegeneratePki \/ WritePki \/ StartMaster \/ UNCHANGED vars
       PROVE  Agreed(i)'
  BY <1>11, <1>s DEF RestartSlave, DeleteState, RegeneratePki, WritePki,
                     StartMaster, client, server, vars
<1> QED
  BY <1>1, <1>2, <1>3, <1>4, <1>5, <1>6, <1>7, <1>8, <1>9, <1>10, <1>11
  DEF Next, MasterNext, SlaveNext, IncidentNext

-----------------------------------------------------------------------------
(* Which end holds a content key *)

LEMMA HeldUntouched ==
    ASSUME NEW i, KeysHeld(i), cpc'[i] = cpc[i], csess'[i] = csess[i],
           spc'[i] = spc[i], ssess'[i] = ssess[i],
           \A m \in Range(toClient'[i]) :
               m \in Range(toClient[i]) \/ m.tag # "SAC_SYNC_REQ"
    PROVE  KeysHeld(i)'
BY DEF KeysHeld, SlaveKeyed

LEMMA ClientGoneHeld ==
    ASSUME NEW i, KeysHeld(i), cpc'[i] \in {"none", "failed", "closed"},
           csess'[i] = NewSession, toClient'[i] = <<>>,
           spc'[i] = spc[i], ssess'[i] = ssess[i]
    PROVE  KeysHeld(i)'
BY EmptyQueue DEF KeysHeld, SlaveKeyed, NewSession

LEMMA ServerGoneHeld ==
    ASSUME NEW i, KeysHeld(i), spc'[i] = "closed", ssess'[i] = NewSession,
           cpc'[i] = cpc[i], csess'[i] = csess[i]
    PROVE  KeysHeld(i)'
BY DEF KeysHeld, SlaveKeyed, NewSession

(* The slave's end goes on before it has a key *)
LEMMA ServerStartsHeld ==
    ASSUME NEW i, KeysHeld(i), ~SlaveKeyed(i), ssess'[i].ck = NoKey,
           cpc'[i] = cpc[i], csess'[i] = csess[i],
           \A m \in Range(toClient'[i]) :
               m \in Range(toClient[i]) \/ m.tag # "SAC_SYNC_REQ"
    PROVE  KeysHeld(i)'
BY DEF KeysHeld, SlaveKeyed

LEMMA ClientMovesHeld ==
    ASSUME Types, NEW n \in Conns, NEW pc, NEW sess, NEW frame,
           ClientMoves(n, pc, sess, frame), UNCHANGED <<spc, ssess>>,
           NEW i \in Conns, KeysHeld(i)
    PROVE  KeysHeld(i)'
<1> USE DEF Types, ClientTypes, Queues, SessionShapes
<1>1. /\ cpc'[n] = pc /\ csess'[n] = sess
      /\ i # n => cpc'[i] = cpc[i] /\ csess'[i] = csess[i]
  BY DEF ClientMoves, ClientStep
<1>2. /\ Range(toClient'[n]) \subseteq Range(toClient[n])
      /\ Head(toClient[n]) \in Range(toClient[n])
      /\ i # n => toClient'[i] = toClient[i]
  BY QueueTaken DEF ClientMoves, ClientStep
<1>3. CASE i = n
  BY <1>1, <1>2, <1>3 DEF ClientMoves, KeysHeld, SlaveKeyed
<1>4. CASE i # n
  BY <1>1, <1>2, <1>4, HeldUntouched
<1> QED
  BY <1>3, <1>4

LEMMA ServerMovesHeld ==
    ASSUME Types, NEW n \in Conns, NEW pc, NEW sess,
           ServerMoves(n, pc, sess), UNCHANGED <<cpc, csess>>,
           NEW i \in Conns, KeysHeld(i)
    PROVE  KeysHeld(i)'
<1> USE DEF Types, ServerTypes, Queues, SessionShapes
<1>1. /\ spc'[n] = pc /\ ssess'[n] = sess
      /\ i # n => spc'[i] = spc[i] /\ ssess'[i] = ssess[i]
  BY DEF ServerMoves, ServerGoesOn
<1>2. /\ \A m \in Range(toClient'[n]) :
            m \in Range(toClient[n]) \/ (m.tag = "SAC_SYNC_REQ" => pc = "ck_sync")
      /\ i # n => toClient'[i] = toClient[i]
  <2>1. CASE UNCHANGED toClient
    BY <2>1
  <2>2. ASSUME NEW frame, toClient' = Sent(toClient, n, frame),
               frame.tag = "SAC_SYNC_REQ" => pc = "ck_sync"
        PROVE  <1>2
    BY <2>2, QueueSent
  <2> QED
    BY <2>1, <2>2 DEF ServerMoves
<1>3. CASE i = n
  BY <1>1, <1>2, <1>3 DEF ServerMoves, KeysHeld, SlaveKeyed
<1>4. CASE i # n
  BY <1>1, <1>2, <1>4, HeldUntouched
<1> QED
  BY <1>3, <1>4

LEMMA SlaveEndsHeld ==
    ASSUME NEW s, NEW how, SlaveEnds(s, how), UNCHANGED <<cpc, csess>>,
           NEW i \in Conns, KeysHeld(i)
    PROVE  KeysHeld(i)'
<1>1. CASE i \in Opened /\ target[i] = s
  BY <1>1, ServerGoneHeld DEF SlaveEnds
<1>2. CASE ~(i \in Opened /\ target[i] = s)
  BY <1>2, HeldUntouched DEF SlaveEnds
<1> QED
  BY <1>1, <1>2

LEMMA KeysHeldStep ==
    ASSUME TypeOK, Types, [Next]_vars, NEW i \in Conns, Agreed(i), KeysHeld(i)
    PROVE  KeysHeld(i)'
<1>0. Opened \subseteq Conns
  BY OpenedIsConns
<1>q. QueueShapes(toClient)
  BY DEF Types, Queues
<1>s. ASSUME UNCHANGED <<cpc, csess, spc, ssess, toClient>>
      PROVE  KeysHeld(i)'
  BY <1>s, HeldUntouched
<1>l. ASSUME NEW n \in Opened, ClientGivesUp(n) \/ ClientEnd(n),
             UNCHANGED <<spc, ssess>>
      PROVE  KeysHeld(i)'
  <2> USE DEF Types, ClientTypes, SessionShapes, QueueShapes
  <2>1. /\ cpc'[n] \in {"failed", "closed"} /\ csess'[n] = NewSession
        /\ toClient'[n] = <<>>
        /\ i # n => /\ cpc'[i] = cpc[i] /\ csess'[i] = csess[i]
                    /\ toClient'[i] = toClient[i]
    BY <1>0, <1>l, <1>q DEF ClientGivesUp, ClientEnd
  <2>2. CASE i = n
    BY <1>l, <2>1, <2>2, ClientGoneHeld
  <2>3. CASE i # n
    BY <1>l, <2>1, <2>3, HeldUntouched
  <2> QED
    BY <2>2, <2>3
<1>1. ASSUME NEW s \in Slaves, Connect(s)
      PROVE  KeysHeld(i)'
  <2>1. UNCHANGED <<csess, spc, ssess, toClient>>
    BY <1>1 DEF Connect, server, link
  <2>2. CASE i = Len(target) + 1
    <3>1. i \notin Opened /\ cpc[i] = "none"
      BY <2>2, OpenedIsConns DEF Agreed, Untouched
    <3>2. cpc'[i] = "open_req"
      BY <1>1, <2>2 DEF Connect, Types, ClientTypes
    <3> QED
      BY <2>1, <3>1, <3>2 DEF KeysHeld, SlaveKeyed
  <2>3. CASE i # Len(target) + 1
    <3>1. cpc'[i] = cpc[i]
      BY <1>1, <2>3 DEF Connect, Types, ClientTypes
    <3> QED
      BY <2>1, <3>1, HeldUntouched
  <2> QED
    BY <2>2, <2>3
<1>2. ASSUME NEW n \in Opened, ClientHandshake(n)
      PROVE  KeysHeld(i)'
  <2>1. n \in Conns /\ UNCHANGED <<spc, ssess>>
    BY <1>0, <1>2 DEF ClientHandshake, server
  <2> QED
    BY <1>2, <1>l, <2>1, ClientHandshakeMoves, ClientMovesHeld DEF ClientLeaves
<1>3. ASSUME NEW n \in Opened, ClientSaves(n)
      PROVE  KeysHeld(i)'
  <2>1. /\ cpc[n] = "save" /\ cpc'[n] = "sac_req" /\ (i # n => cpc'[i] = cpc[i])
        /\ UNCHANGED <<csess, spc, ssess, toClient>>
    BY <1>0, <1>3 DEF ClientSaves, link, server, Types, ClientTypes
  <2> QED
    BY <2>1 DEF KeysHeld, SlaveKeyed
<1>4. ASSUME NEW n \in Opened,
             \/ ClientTimeout(n) \/ SlowAnswer(n) \/ ReleaseSocket(n) \/ Close(n)
      PROVE  KeysHeld(i)'
  BY <1>4, <1>l
  DEF ClientTimeout, SlowAnswer, ReleaseSocket, Close, ClientFails, server
<1>5. ASSUME NEW s \in Slaves, Accept(s)
      PROVE  KeysHeld(i)'
  <2> DEFINE open == Apdu("OPEN_REQ", NoValues, {})
  <2>1. PICK n \in Backlog(s) :
          /\ spc' = [spc EXCEPT ![n] = "open_cnf"]
          /\ ssess' = [ssess EXCEPT ![n] =
                     [NewSession EXCEPT !.identity = load_identity("server")]]
          /\ toClient' = Sent(toClient, n, open)
    BY <1>5 DEF Accept
  <2>2. n \in Conns /\ spc[n] = "none" /\ UNCHANGED <<cpc, csess>>
    BY <1>0, <1>5 DEF Backlog, Accept, client
  <2>3. open.tag # "SAC_SYNC_REQ"
    BY DEF Apdu
  <2> HIDE DEF open
  <2>4. /\ \A m \in Range(toClient'[n]) : m \in Range(toClient[n]) \/ m = open
        /\ i # n => toClient'[i] = toClient[i]
    BY <1>q, <2>1, <2>2, QueueSent
  <2>5. CASE i = n
    <3>1. ssess'[n].ck = NoKey
      BY <2>1, <2>2 DEF Types, ServerTypes, SessionShapes, NewSession
    <3> QED
      BY <2>2, <2>3, <2>4, <2>5, <3>1, ServerStartsHeld DEF SlaveKeyed
  <2>6. CASE i # n
    BY <2>1, <2>2, <2>4, <2>6, HeldUntouched
    DEF Types, ServerTypes, SessionShapes
  <2> QED
    BY <2>5, <2>6
<1>6. ASSUME NEW n \in Opened, ServerHandshake(n)
      PROVE  KeysHeld(i)'
  <2>1. n \in Conns /\ UNCHANGED <<cpc, csess>>
    BY <1>0, <1>6 DEF ServerHandshake, client
  <2>2. ASSUME NEW pc, NEW sess, ServerMoves(n, pc, sess)
        PROVE  KeysHeld(i)'
    BY <2>1, <2>2, ServerMovesHeld
  <2>3. CASE ServerRaises(n)
    BY <2>1, <2>3, SlaveEndsHeld DEF ServerRaises
  <2>4. CASE ServerCloses(n)
    <3>1. /\ spc'[n] = "closed" /\ ssess'[n] = NewSession /\ UNCHANGED toClient
          /\ i # n => spc'[i] = spc[i] /\ ssess'[i] = ssess[i]
      BY <2>1, <2>4 DEF ServerCloses, Types, ServerTypes, SessionShapes
    <3> QED
      BY <2>1, <3>1, ServerGoneHeld, HeldUntouched
  <2>5. CASE ServerSaves(n)
    <3>1. /\ spc[n] = "save" /\ UNCHANGED ssess /\ (i # n => spc'[i] = spc[i])
      BY <2>1, <2>5 DEF ServerSaves, Types, ServerTypes
    <3>2. /\ Range(toClient'[n]) = Range(toClient[n]) \cup {SacRequest(n)}
          /\ i # n => toClient'[i] = toClient[i]
      BY <1>q, <2>1, <2>5, QueueSent DEF ServerSaves
    <3>3. SacRequest(n).tag = "DATA_REQ"
      BY DEF SacRequest, Apdu
    <3>4. CASE i = n
      <4>1. ~SlaveKeyed(n) /\ ssess'[n].ck = NoKey
        BY <3>1, <3>4 DEF SlaveKeyed, KeysHeld
      <4> QED
        BY <2>1, <3>2, <3>3, <3>4, <4>1, ServerStartsHeld
    <3>5. CASE i # n
      BY <2>1, <3>1, <3>2, <3>5, HeldUntouched
    <3> QED
      BY <3>4, <3>5
  <2> QED
    BY <1>6, <2>1, <2>2, <2>3, <2>4, <2>5, ServerHandshakeMoves
<1>7. ASSUME NEW n \in Opened, LineNoise(n)
      PROVE  KeysHeld(i)'
  <2>1. UNCHANGED <<cpc, csess, spc, ssess>> /\ Garbled.tag = "GARBLED"
    BY <1>7 DEF LineNoise, client, server, Garbled, Apdu
  <2>2. Range(toClient'[i]) \subseteq Range(toClient[i]) \cup {Garbled}
    BY <1>0, <1>7, <1>q, Disturbed DEF LineNoise
  <2> QED
    BY <2>1, <2>2, HeldUntouched
<1>8. ASSUME NEW s \in Slaves, CrashSlave(s) \/ AcceptRaises(s)
      PROVE  KeysHeld(i)'
  BY <1>8, SlaveEndsHeld DEF CrashSlave, AcceptRaises, client
<1>9. ASSUME RestartMaster
      PROVE  KeysHeld(i)'
  BY <1>9, ClientGoneHeld DEF RestartMaster, server
<1>10. ASSUME \/ \E s \in Slaves : RestartSlave(s)
              \/ DeleteState \/ RegeneratePki \/ WritePki \/ StartMaster \/ UNCHANGED vars
       PROVE  KeysHeld(i)'
  BY <1>10, <1>s
  DEF RestartSlave, DeleteState, RegeneratePki, WritePki, StartMaster, client,
      server, link, vars
<1> QED
  BY <1>1, <1>2, <1>3, <1>4, <1>5, <1>6, <1>7, <1>8, <1>9, <1>10
  DEF Next, MasterNext, SlaveNext, IncidentNext

(* The inductive invariant holds of every run.                              *)
THEOREM AgreementInductive == Spec => []AgreementInvariant
<1> DEFINE AllAgreed == \A n \in Conns : Agreed(n) /\ KeysHeld(n)
<1>1. Init => AllAgreed
  BY EmptyQueue DEF Init, Agreed, Untouched, ClientSide, ServerSide, FramesToClient,
                    FramesToServer, KeysHeld, NewSession
<1>2. TypeInvariant /\ AllAgreed /\ [Next]_vars => AllAgreed'
  BY AgreedStep, KeysHeldStep, TypeInvariantParts DEF TypeInvariant
<1>3. TypeInvariant /\ AllAgreed => AgreementInvariant
  BY DEF TypeInvariant, AgreementInvariant
<1> HIDE DEF AllAgreed
<1> QED
  BY <1>1, <1>2, <1>3, TypeInvariantHolds, PTL DEF Spec

(* Both ends of a connection that serve requests hold the same keys, know    *)
(* each other and are at the same SAC counters, however many slaves share    *)
(* the address and whichever files are lost, torn or of another session.     *)
THEOREM KeysAgree == Spec => []KeyAgreement
<1>1. AgreementInvariant => KeyAgreement
  <2> SUFFICES ASSUME AgreementInvariant, NEW n \in Opened,
                      cpc[n] = "ready", spc[n] = "ready"
               PROVE  LET c == csess[n] s == ssess[n] IN
                      /\ c.ck = s.ck /\ c.bck = s.bck /\ c.ck # NoKey
                      /\ c.peer = MyId(n) /\ s.peer = ClientId
                      /\ c.auth = s.auth /\ c.dhsk = s.dhsk
                      /\ c.sac.key = s.sac.key
                      /\ c.sac.send = s.sac.recv /\ s.sac.send = c.sac.recv
    BY DEF KeyAgreement
  <2>1. ClientSide(n) /\ ServerSide(n)
    BY OpenedIsConns DEF AgreementInvariant, Agreed
  <2>2. ContentKey(n, MyId(n)) # NoKey
    BY DEF ContentKey, NoKey
  <2> QED
    BY <2>1, <2>2 DEF ClientSide, ServerSide, SameSac, Keyed
<1> QED
  BY <1>1, AgreementInductive, PTL

(* The slave serves requests only of a master that finished the handshake.  *)
THEOREM ServedIsReady == Spec => []ServesOnlyTheReady
<1>1. AgreementInvariant => ServesOnlyTheReady
  BY OpenedIsConns DEF AgreementInvariant, Agreed, ServerSide, ServesOnlyTheReady
<1> QED
  BY <1>1, AgreementInductive, PTL

-----------------------------------------------------------------------------
(* The accept loop survives.  The two ends of a connection take turns: at    *)
(* most one frame is on its way, and as long as the slave's end is there the *)
(* frame is what it asked, or the answer to what it asked.  Hence what it    *)
(* looks up in a DATA_CNF without testing for it is there, and what comes    *)
(* under the SAC comes under its key.                                        *)

Gone == {"none", "failed", "closed"}

(* Where the master's end is while what the slave asked before it went to s *)
(* is on its way, and where it is while its answer is                       *)
MasterAsked(s, c) ==
    \/ c \in Gone
    \/ s = "open_cnf" /\ c = "open_req"
    \/ s = "reauth" /\ c = "first_req"
    \/ s = "certs" /\ c \in {"first_req", "sac_req"}
    \/ s = "rh" /\ c = "dhpm"
    \/ s = "akh" /\ c = "akh_req"
    \/ s = "sac_cnf" /\ c \in {"save", "sac_req"}
    \/ s = "sac_sync" /\ c = "sac_sync"
    \/ s = "ck_cnf" /\ c = "ck_req"
    \/ s = "ck_sync" /\ c = "ck_sync"
MasterReplied(s, c) ==
    \/ c \in Gone
    \/ s = "open_cnf" /\ c = "first_req"
    \/ s = "reauth" /\ c = "sac_req"
    \/ s = "certs" /\ c = "dhpm"
    \/ s = "rh" /\ c = "akh_req"
    \/ s = "akh" /\ c \in {"save", "sac_req"}
    \/ s = "sac_cnf" /\ c = "sac_sync"
    \/ s = "sac_sync" /\ c = "ck_req"
    \/ s = "ck_cnf" /\ c = "ck_sync"
    \/ s = "ck_sync" /\ c = "ready"

(* m is what a slave asks that has this id and this SAC key and goes to s *)
FitsRequest(s, id, key, m) == m.tag # "GARBLED" =>
    /\ s = "reauth" => ~Has(m, "CERTS") /\ m.vals.SERVER_ID = id
    /\ s = "certs" => "AKH" \notin m.reqs /\ ~Has(m, "SERVER_ID")
    /\ s \in {"ck_cnf", "ck_sync"} => m.key = key
IsRequest(n, m) == FitsRequest(spc[n], MyId(n), ssess[n].sac.key, m)
IsReply(n, m) == m.tag # "GARBLED" =>
    /\ spc[n] = "certs" => Has(m, "CERTS")
    /\ spc[n] = "rh" => Has(m, "RH")
    /\ spc[n] \in {"ck_cnf", "ck_sync"} => m.key = ssess[n].sac.key

Lone(queue) == queue = <<>> \/ Tail(queue) = <<>>
Asking(n) == toClient[n] # <<>> =>
    /\ MasterAsked(spc[n], cpc[n])
    /\ \A m \in Range(toClient[n]) : IsRequest(n, m)
Answering(n) == toServer[n] # <<>> =>
    /\ MasterReplied(spc[n], cpc[n])
    /\ \A m \in Range(toServer[n]) : IsReply(n, m)

Conversation(n) ==
    /\ spc[n] = "none" => /\ toClient[n] = <<>> /\ toServer[n] = <<>>
                          /\ cpc[n] \in {"open_req"} \cup Gone
    /\ ServerAlive(n) => /\ toClient[n] = <<>> \/ toServer[n] = <<>>
                         /\ Lone(toClient[n]) /\ Lone(toServer[n])
                         /\ Asking(n) /\ Answering(n)
    /\ spc[n] = "save" => cpc[n] \in {"save", "sac_req"} \cup Gone
    /\ spc[n] \in {"save", "ready"} => toClient[n] = <<>> /\ toServer[n] = <<>>

LEMMA OneFrame ==
    ASSUME NEW m
    PROVE  /\ Append(<<>>, m) = <<m>> /\ <<m>> \o <<>> = <<m>>
           /\ <<m>> # <<>> /\ Tail(<<m>>) = <<>> /\ Head(<<m>>) = m /\ Range(<<m>>) = {m}
<1>1. Append(<<>>, m) = <<m>> /\ <<m>> \o <<>> = <<m>>
  OBVIOUS
<1> DEFINE none == <<>>
<1>2. IsQueue(none) /\ Range(none) = {}
  BY EmptyQueue
<1> HIDE DEF none
<1>a. Range(Append(none, m)) = Range(none) \cup {m}
  BY <1>2, AppendedQueue
<1>3. Range(Append(<<>>, m)) = {m}
  BY <1>2, <1>a DEF none
<1>4. <<m>> # <<>> /\ Tail(<<m>>) = <<>> /\ Head(<<m>>) = m
  OBVIOUS
<1> QED
  BY <1>1, <1>3, <1>4

LEMMA LoneSent ==
    ASSUME NEW queues, QueueShapes(queues), NEW n \in Conns, queues[n] = <<>>, NEW m
    PROVE  Sent(queues, n, m)[n] = <<m>>
BY OneFrame DEF Sent, QueueShapes

LEMMA LoneTaken ==
    ASSUME NEW queues, QueueShapes(queues), NEW n \in Conns, queues[n] # <<>>,
           Lone(queues[n])
    PROVE  Taken(queues, n)[n] = <<>>
BY DEF Taken, QueueShapes, Lone

LEMMA LoneJammed ==
    ASSUME NEW queues, QueueShapes(queues), NEW n \in Conns, queues[n] # <<>>,
           Lone(queues[n])
    PROVE  Jammed(queues, n)[n] = <<Garbled>>
<1>1. Jammed(queues, n)[n] = <<Garbled>> \o Tail(queues[n])
  BY DEF Jammed, QueueShapes
<1>2. Tail(queues[n]) = <<>>
  BY DEF Lone
<1> QED
  BY <1>1, <1>2, OneFrame

(* The connections a step leaves alone *)
LEMMA NothingSaid ==
    ASSUME NEW i \in Conns, Conversation(i),
           spc[i] # "none" => MyId(i)' = MyId(i),
           cpc'[i] = cpc[i], spc'[i] = spc[i], ssess'[i] = ssess[i],
           toClient'[i] = toClient[i], toServer'[i] = toServer[i]
    PROVE  Conversation(i)'
<1>1. spc[i] # "none" => (Asking(i) => Asking(i)') /\ (Answering(i) => Answering(i)')
  BY DEF Asking, Answering, IsRequest, FitsRequest, IsReply
<1> QED
  BY <1>1 DEF Conversation, ServerAlive

(* Once the slave's end is closed there is nothing to keep *)
LEMMA SlaveHungUp ==
    ASSUME NEW i, spc'[i] = "closed"
    PROVE  Conversation(i)'
BY DEF Conversation, ServerAlive

(* The master's end gives up: what it has answered stays *)
LEMMA MasterHungUp ==
    ASSUME NEW i \in Conns, Conversation(i), cpc'[i] \in Gone, toClient'[i] = <<>>,
           toServer'[i] = toServer[i], spc'[i] = spc[i], ssess'[i] = ssess[i]
    PROVE  Conversation(i)'
<1>1. Asking(i)' /\ Lone(toClient[i])'
  BY DEF Asking, Lone
<1>2. Answering(i) => Answering(i)'
  BY DEF Answering, IsReply, MasterReplied
<1> QED
  BY <1>1, <1>2 DEF Conversation, ServerAlive

(* The master's end answers the only frame there is *)
LEMMA MasterReplies ==
    ASSUME Types, NEW n \in Conns, Conversation(n), ServerAlive(n), toClient[n] # <<>>,
           NEW frame, IsReply(n, frame), MasterReplied(spc[n], cpc'[n]),
           toClient'[n] = <<>>, toServer' = Sent(toServer, n, frame),
           spc'[n] = spc[n], ssess'[n] = ssess[n]
    PROVE  Conversation(n)'
<1>1. toServer[n] = <<>> /\ spc[n] \notin {"none", "save", "ready", "closed"}
  BY DEF Conversation, ServerAlive
<1>2. toServer'[n] = <<frame>>
  BY <1>1, LoneSent DEF Types, Queues
<1>3. Asking(n)' /\ Lone(toClient[n])' /\ Lone(toServer[n])'
  BY <1>2, OneFrame DEF Asking, Lone
<1>4. Answering(n)'
  BY <1>2, OneFrame DEF Answering, IsReply
<1> QED
  BY <1>1, <1>3, <1>4 DEF Conversation, ServerAlive

(* The slave's end has taken the only frame there is, and asks *)
LEMMA SlaveAsks ==
    ASSUME Types, NEW n \in Conns, toClient[n] = <<>>, toServer'[n] = <<>>,
           NEW frame, FitsRequest(spc'[n], MyId(n)', ssess'[n].sac.key, frame),
           MasterAsked(spc'[n], cpc[n]),
           toClient' = Sent(toClient, n, frame), cpc'[n] = cpc[n],
           spc'[n] \notin {"none", "save", "ready", "closed"}
    PROVE  Conversation(n)'
<1>1. toClient'[n] = <<frame>>
  BY LoneSent DEF Types, Queues
<1>2. Answering(n)' /\ Lone(toClient[n])' /\ Lone(toServer[n])'
  BY <1>1, OneFrame DEF Answering, Lone
<1>3. Asking(n)'
  BY <1>1, OneFrame DEF Asking, IsRequest, FitsRequest
<1> QED
  BY <1>2, <1>3 DEF Conversation, ServerAlive

(* A frame the master's end reads while the slave's end is there *)
LEMMA MasterReads ==
    ASSUME Types, NEW n \in Conns, Conversation(n), ServerAlive(n),
           NEW m \in Incoming(toClient[n]), m.tag # "GARBLED"
    PROVE  /\ toClient[n] # <<>> /\ Taken(toClient, n)[n] = <<>>
           /\ MasterAsked(spc[n], cpc[n]) /\ IsRequest(n, m)
<1>1. toClient[n] # <<>> /\ m = Head(toClient[n])
  BY Received
<1>2. m \in Range(toClient[n])
  BY <1>1, QueueTaken DEF Types, Queues
<1>3. Asking(n) /\ Lone(toClient[n])
  BY DEF Conversation
<1>4. Taken(toClient, n)[n] = <<>>
  BY <1>1, <1>3, LoneTaken DEF Types, Queues
<1> QED
  BY <1>1, <1>2, <1>3, <1>4 DEF Asking

LEMMA WantedTags ==
    /\ \A pc \in DOMAIN ClientWants : ClientWants[pc] # "GARBLED"
    /\ \A pc \in DOMAIN ServerWants : ServerWants[pc] # "GARBLED"
BY DEF ClientWants, ServerWants

LEMMA AnswerGoesOut ==
    ASSUME Types, NEW n \in Conns, Conversation(n), ServerAlive(n),
           NEW m \in Incoming(toClient[n]), m.tag # "GARBLED",
           NEW pc, NEW sess, NEW frame, ClientStep(n, pc, sess, frame),
           IsReply(n, frame), MasterReplied(spc[n], pc), UNCHANGED <<spc, ssess>>
    PROVE  Conversation(n)'
<1>1. toClient[n] # <<>> /\ toClient'[n] = <<>>
  BY MasterReads DEF ClientStep
<1>2. cpc'[n] = pc
  BY DEF ClientStep, Types, ClientTypes
<1> QED
  BY <1>1, <1>2, MasterReplies DEF ClientStep

LEMMA MasterFails ==
    ASSUME Types, NEW n \in Conns, Conversation(n), ClientFails(n), UNCHANGED <<spc, ssess>>
    PROVE  Conversation(n)'
<1>1. cpc'[n] = "failed" /\ toClient'[n] = <<>> /\ UNCHANGED toServer
  BY DEF ClientFails, ClientGivesUp, Types, ClientTypes, Queues, QueueShapes
<1> QED
  BY <1>1, MasterHungUp DEF Gone

LEMMA ClientHandshakeConverses ==
    ASSUME Types, NEW n \in Conns, Conversation(n), ClientHandshake(n)
    PROVE  Conversation(n)'
<1> DEFINE old == csess[n]
<1>0. UNCHANGED <<spc, ssess>>
  BY DEF ClientHandshake, server
<1>f. ClientFails(n) => Conversation(n)'
  BY <1>0, MasterFails
<1>a. CASE spc[n] = "closed"
  BY <1>0, <1>a, SlaveHungUp
<1>b. CASE spc[n] = "none"
  <2>1. toClient[n] = <<>>
    BY <1>b DEF Conversation
  <2>2. Incoming(toClient[n]) = {}
    BY <2>1 DEF Incoming
  <2> QED
    BY <1>b, <2>1, <2>2
    DEF ClientHandshake, ClientOpens, ClientReauthenticates, ClientCannotReauthenticate,
        ClientVerifies, ClientAgrees, ClientSendsAkh, ClientInitsSac, ClientSyncsSac,
        ClientUpdatesKey, ClientSyncsKey, ClientRecvFails
<1> SUFFICES ASSUME ServerAlive(n)
             PROVE  Conversation(n)'
  BY <1>a, <1>b DEF ServerAlive
<1>r. ASSUME NEW m \in Incoming(toClient[n]), NEW pc \in DOMAIN ClientWants,
             ClientGets(n, pc, m)
      PROVE  /\ m.tag # "GARBLED" /\ cpc[n] = pc
             /\ MasterAsked(spc[n], pc) /\ IsRequest(n, m)
  <2>1. m.tag # "GARBLED" /\ cpc[n] = pc
    BY <1>r, WantedTags DEF ClientGets
  <2> QED
    BY <2>1, MasterReads
<1>w. {"open_req", "first_req", "dhpm", "akh_req", "sac_req", "sac_sync", "ck_req", "ck_sync"}
        \subseteq DOMAIN ClientWants
  BY DEF ClientWants
<1>1. CASE ClientOpens(n)
  <2>1. PICK m \in Incoming(toClient[n]) : ClientOpens(n)!(m)
    BY <1>1 DEF ClientOpens
  <2> DEFINE frame == Apdu("OPEN_CNF", [SYSTEM_ID |-> 1], {})
  <2>2. m.tag # "GARBLED" /\ spc[n] = "open_cnf"
    BY <1>r, <1>w, <2>1 DEF MasterAsked, Gone
  <2>3. IsReply(n, frame) /\ MasterReplied(spc[n], "first_req")
    BY <2>2 DEF IsReply, MasterReplied
  <2> HIDE DEF frame
  <2> QED
    BY <1>0, <2>1, <2>2, <2>3, AnswerGoesOut DEF frame
<1>2. CASE ClientReauthenticates(n)
  <2>1. PICK m \in Incoming(toClient[n]) : ClientReauthenticates(n)!(m)
    BY <1>2 DEF ClientReauthenticates
  <2>2. /\ m.tag # "GARBLED" /\ MasterAsked(spc[n], "first_req") /\ IsRequest(n, m)
        /\ "AKH" \in m.reqs /\ toClient[n] # <<>>
    BY <1>r, <1>w, <2>1, Received
  <2>3. spc[n] = "reauth"
    BY <2>2 DEF MasterAsked, Gone, IsRequest, FitsRequest
  <2>4. \A frame : IsReply(n, frame)
    BY <2>3 DEF IsReply
  <2>5. CASE m.vals.SERVER_ID = cctx.peer
    <3>1. MasterReplied(spc[n], "sac_req")
      BY <2>3 DEF MasterReplied
    <3>2. \E sess, frame : ClientStep(n, "sac_req", sess, frame)
      BY <2>1, <2>5
    <3> QED
      BY <1>0, <2>2, <2>4, <3>1, <3>2, AnswerGoesOut
  <2>6. CASE m.vals.SERVER_ID # cctx.peer
    <3>1. PICK frame : ClientGivesUp(n) /\ toServer' = Sent(toServer, n, frame)
      BY <2>1, <2>6
    <3>2. cpc'[n] = "failed" /\ toClient'[n] = <<>>
      BY <3>1 DEF ClientGivesUp, Types, ClientTypes, Queues, QueueShapes
    <3>3. MasterReplied(spc[n], cpc'[n])
      BY <3>2 DEF MasterReplied, Gone
    <3> QED
      BY <1>0, <2>2, <2>4, <3>1, <3>2, <3>3, MasterReplies
  <2> QED
    BY <2>5, <2>6
<1>3. CASE ClientCannotReauthenticate(n)
  BY <1>3, <1>f DEF ClientCannotReauthenticate
<1>4. CASE ClientVerifies(n)
  <2>1. PICK m \in Incoming(toClient[n]) : ClientVerifies(n)!(m)
    BY <1>4 DEF ClientVerifies
  <2> DEFINE sess == [old EXCEPT !.peer = m.vals.CERTS.id]
             vals == [DHPH |-> n, CERTS |-> Chain(identity, ClientId)]
             frame == Apdu("DATA_CNF", vals, {})
  <2>2. /\ m.tag # "GARBLED" /\ MasterAsked(spc[n], "first_req") /\ IsRequest(n, m)
        /\ Has(m, "CERTS")
    BY <1>r, <1>w, <2>1
  <2>3. spc[n] = "certs"
    BY <2>2 DEF MasterAsked, Gone, IsRequest, FitsRequest
  <2>4. ClientFails(n) \/ ClientStep(n, "dhpm", sess, frame)
    BY <2>1
  <2>5. IsReply(n, frame)
    BY <2>3 DEF IsReply, Has, Apdu
  <2>6. MasterReplied(spc[n], "dhpm")
    BY <2>3 DEF MasterReplied
  <2> HIDE DEF sess, frame
  <2> QED
    BY <1>0, <1>f, <2>2, <2>4, <2>5, <2>6, AnswerGoesOut
<1>5. CASE ClientAgrees(n)
  <2>1. PICK m \in Incoming(toClient[n]) : ClientAgrees(n)!(m)
    BY <1>5 DEF ClientAgrees
  <2> DEFINE dhsk == Dhsk(n, m.vals.DHPM, ClientId, old.peer)
             sess == [old EXCEPT !.dhsk = dhsk,
                                 !.auth = AuthKey(dhsk, ClientId, old.peer)]
             frame == Apdu("DATA_CNF", [RH |-> Rh(dhsk, ClientId)], {})
  <2>2. m.tag # "GARBLED" /\ MasterAsked(spc[n], "dhpm")
    BY <1>r, <1>w, <2>1
  <2>3. spc[n] = "rh"
    BY <2>2 DEF MasterAsked, Gone
  <2>4. ClientFails(n) \/ ClientStep(n, "akh_req", sess, frame)
    BY <2>1
  <2> HIDE DEF dhsk
  <2>5. IsReply(n, frame)
    BY <2>3 DEF IsReply, Has, Apdu
  <2>6. MasterReplied(spc[n], "akh_req")
    BY <2>3 DEF MasterReplied
  <2> HIDE DEF sess, frame
  <2> QED
    BY <1>0, <1>f, <2>2, <2>4, <2>5, <2>6, AnswerGoesOut
<1>6. CASE ClientSendsAkh(n)
  <2>1. PICK m \in Incoming(toClient[n]) : ClientSendsAkh(n)!(m)
    BY <1>6 DEF ClientSendsAkh
  <2>2. m.tag # "GARBLED" /\ MasterAsked(spc[n], "akh_req")
    BY <1>r, <1>w, <2>1
  <2>3. spc[n] = "akh"
    BY <2>2 DEF MasterAsked, Gone
  <2>4. ClientFails(n) \/ \E frame : ClientStep(n, "save", old, frame)
    BY <2>1
  <2>5. MasterReplied(spc[n], "save") /\ \A frame : IsReply(n, frame)
    BY <2>3 DEF MasterReplied, IsReply
  <2> QED
    BY <1>0, <1>f, <2>2, <2>4, <2>5, AnswerGoesOut
<1>7. CASE ClientInitsSac(n)
  <2>1. PICK m \in Incoming(toClient[n]) : ClientInitsSac(n)!(m)
    BY <1>7 DEF ClientInitsSac
  <2>2. m.tag # "GARBLED" /\ MasterAsked(spc[n], "sac_req") /\ IsRequest(n, m)
    BY <1>r, <1>w, <2>1
  <2>3. CASE ~Has(m, "SERVER_ID")
    BY <1>f, <2>1, <2>3
  <2>4. CASE Has(m, "SERVER_ID")
    <3>1. spc[n] = "sac_cnf"
      BY <2>2, <2>4 DEF MasterAsked, Gone, IsRequest, FitsRequest
    <3>2. ClientFails(n) \/ \E sess, frame : ClientStep(n, "sac_sync", sess, frame)
      BY <2>1
    <3>3. MasterReplied(spc[n], "sac_sync") /\ \A frame : IsReply(n, frame)
      BY <3>1 DEF MasterReplied, IsReply
    <3> QED
      BY <1>0, <1>f, <2>2, <3>2, <3>3, AnswerGoesOut
  <2> QED
    BY <2>3, <2>4
<1>8. CASE ClientSyncsSac(n)
  <2>1. PICK m \in Incoming(toClient[n]) : ClientSyncsSac(n)!(m)
    BY <1>8 DEF ClientSyncsSac
  <2>2. m.tag # "GARBLED" /\ MasterAsked(spc[n], "sac_sync")
    BY <1>r, <1>w, <2>1
  <2>3. spc[n] = "sac_sync"
    BY <2>2 DEF MasterAsked, Gone
  <2>4. \E frame : ClientStep(n, "ck_req", old, frame)
    BY <2>1
  <2>5. MasterReplied(spc[n], "ck_req") /\ \A frame : IsReply(n, frame)
    BY <2>3 DEF MasterReplied, IsReply
  <2> QED
    BY <1>0, <2>2, <2>4, <2>5, AnswerGoesOut
<1>k. IsSac(old.sac) /\ Unpacked(old.sac).key = old.sac.key
  <2>1. IsSac(old.sac)
    BY DEF Types, ClientTypes, SessionShapes, IsSession
  <2> QED
    BY <2>1, SacUsed
<1>9. CASE ClientUpdatesKey(n)
  <2>1. PICK m \in Incoming(toClient[n]) : ClientUpdatesKey(n)!(m)
    BY <1>9 DEF ClientUpdatesKey
  <2> DEFINE sac == Unpacked(old.sac)
             sess == Installed(old, Packed(sac), ContentKey(m.vals.KP, old.peer),
                               ContentKey(n, ClientId))
             frame == SacApdu("SAC_DATA_CNF", sac,
                              [CLIENT_ID |-> ClientId, KP |-> n, STATUS |-> "ok"], {})
  <2>2. m.tag # "GARBLED" /\ MasterAsked(spc[n], "ck_req") /\ IsRequest(n, m)
    BY <1>r, <1>w, <2>1
  <2>3. spc[n] = "ck_cnf"
    BY <2>2 DEF MasterAsked, Gone
  <2>4. ClientFails(n) \/ (ClientStep(n, "ck_sync", sess, frame) /\ m.key = old.sac.key)
    BY <2>1 DEF MacOk
  <2>5. m.key = ssess[n].sac.key
    BY <2>2, <2>3 DEF IsRequest, FitsRequest
  <2>6. frame.key = old.sac.key
    BY <1>k DEF SacApdu
  <2>7. MasterReplied(spc[n], "ck_sync")
    BY <2>3 DEF MasterReplied
  <2> HIDE DEF sess, frame
  <2>8. m.key = old.sac.key => IsReply(n, frame)
    BY <2>3, <2>5, <2>6 DEF IsReply
  <2> QED
    BY <1>0, <1>f, <2>2, <2>4, <2>7, <2>8, AnswerGoesOut
<1>10. CASE ClientSyncsKey(n)
  <2>1. PICK m \in Incoming(toClient[n]) : ClientSyncsKey(n)!(m)
    BY <1>10 DEF ClientSyncsKey
  <2> DEFINE sac == Unpacked(old.sac)
             sess == [old EXCEPT !.sac = Packed(sac)]
             frame == SacApdu("SAC_SYNC_CNF", sac, [STATUS |-> "ok"], {})
  <2>2. m.tag # "GARBLED" /\ MasterAsked(spc[n], "ck_sync") /\ IsRequest(n, m)
    BY <1>r, <1>w, <2>1
  <2>3. spc[n] = "ck_sync"
    BY <2>2 DEF MasterAsked, Gone
  <2>4. ClientFails(n) \/ (ClientStep(n, "ready", sess, frame) /\ m.key = old.sac.key)
    BY <2>1 DEF MacOk
  <2>5. m.key = ssess[n].sac.key
    BY <2>2, <2>3 DEF IsRequest, FitsRequest
  <2>6. frame.key = old.sac.key
    BY <1>k DEF SacApdu
  <2>7. MasterReplied(spc[n], "ready")
    BY <2>3 DEF MasterReplied
  <2> HIDE DEF sess, frame
  <2>8. m.key = old.sac.key => IsReply(n, frame)
    BY <2>3, <2>5, <2>6 DEF IsReply
  <2> QED
    BY <1>0, <1>f, <2>2, <2>4, <2>7, <2>8, AnswerGoesOut
<1>11. CASE ClientRecvFails(n)
  BY <1>11, <1>f DEF ClientRecvFails
<1> QED
  BY <1>1, <1>2, <1>3, <1>4, <1>5, <1>6, <1>7, <1>8, <1>9, <1>10, <1>11
  DEF ClientHandshake

(* A frame the slave's end reads *)
LEMMA SlaveReads ==
    ASSUME Types, NEW n \in Conns, Conversation(n), NEW pc \in DOMAIN ServerWants,
           NEW m \in Incoming(toServer[n]), ServerGets(n, pc, m)
    PROVE  /\ spc[n] = pc /\ ServerAlive(n) /\ m.tag # "GARBLED"
           /\ toServer[n] # <<>> /\ toClient[n] = <<>> /\ Taken(toServer, n)[n] = <<>>
           /\ MasterReplied(pc, cpc[n]) /\ IsReply(n, m)
<1>1. spc[n] = pc /\ m.tag # "GARBLED"
  BY WantedTags DEF ServerGets
<1>2. ServerAlive(n)
  BY <1>1 DEF ServerAlive, ServerWants
<1>3. toServer[n] # <<>> /\ m = Head(toServer[n])
  BY Received
<1>4. m \in Range(toServer[n])
  BY <1>3, QueueTaken DEF Types, Queues
<1>5. Answering(n) /\ Lone(toServer[n]) /\ toClient[n] = <<>>
  BY <1>2, <1>3 DEF Conversation
<1>6. Taken(toServer, n)[n] = <<>>
  BY <1>3, <1>5, LoneTaken DEF Types, Queues
<1> QED
  BY <1>1, <1>2, <1>3, <1>4, <1>5, <1>6 DEF Answering

LEMMA SlaveGoesOn ==
    ASSUME Types, NEW n \in Conns, NEW pc, NEW sess, ServerGoesOn(n, pc, sess)
    PROVE  spc'[n] = pc /\ ssess'[n] = sess /\ toServer' = Taken(toServer, n)
BY DEF ServerGoesOn, Types, ServerTypes, SessionShapes

LEMMA QuestionGoesOut ==
    ASSUME Types, NEW n \in Conns, toClient[n] = <<>>, Taken(toServer, n)[n] = <<>>,
           NEW pc, NEW sess, NEW frame, ServerStep(n, pc, sess, frame),
           FitsRequest(pc, MyId(n), sess.sac.key, frame), MasterAsked(pc, cpc[n]),
           cpc' = cpc, MyId(n)' = MyId(n), pc \notin {"none", "save", "ready", "closed"}
    PROVE  Conversation(n)'
<1>1. spc'[n] = pc /\ ssess'[n] = sess /\ toServer'[n] = <<>>
  BY SlaveGoesOn DEF ServerStep
<1> QED
  BY <1>1, SlaveAsks DEF ServerStep

LEMMA SlaveCloses ==
    ASSUME Types, NEW n \in Conns, ServerCloses(n) \/ (n \in Opened /\ ServerRaises(n))
    PROVE  Conversation(n)'
<1>1. spc'[n] = "closed"
  BY DEF ServerCloses, ServerRaises, SlaveEnds, Types, ServerTypes
<1> QED
  BY <1>1, SlaveHungUp

(* The frames the slave's end asks with *)
LEMMA FirstRequests ==
    ASSUME NEW n, NEW key
    PROVE  /\ FitsRequest("reauth", MyId(n), key,
                           Apdu("DATA_REQ", [SERVER_ID |-> MyId(n)], {"AKH"}))
           /\ FitsRequest("certs", MyId(n), key, CertificateRequest(n))
           /\ FitsRequest("sac_cnf", MyId(n), key, SacRequest(n))
<1>1. FitsRequest("reauth", MyId(n), key, Apdu("DATA_REQ", [SERVER_ID |-> MyId(n)], {"AKH"}))
  BY DEF FitsRequest, Has, Apdu
<1>2. FitsRequest("certs", MyId(n), key, CertificateRequest(n))
  <2> DEFINE certs == Chain(ssess[n].identity, MyId(n))
             frame == CertificateRequest(n)
  <2>1. frame.vals = [CERTS |-> certs] /\ frame.reqs = {"DHPH", "CERTS"}
    BY DEF CertificateRequest, Apdu
  <2>2. certs.id = MyId(n)
    BY DEF Chain
  <2> HIDE DEF certs, frame
  <2>3. ~Has(frame, "SERVER_ID") /\ frame.vals.CERTS.id = MyId(n) /\ "AKH" \notin frame.reqs
    BY <2>1, <2>2 DEF Has
  <2> QED
    BY <2>3 DEF FitsRequest, frame
<1>3. FitsRequest("sac_cnf", MyId(n), key, SacRequest(n))
  BY DEF FitsRequest, Has, SacRequest, Apdu
<1> QED
  BY <1>1, <1>2, <1>3

(* A handshake step of the slave keeps the conversation, and an exception    *)
(* that main() does not catch is raised only by a torn context file         *)
Unharmed(n) ==
    UNCHANGED sup \/ (spc[n] = "open_cnf" /\ sctx[target[n]].file = "torn")

LEMMA ServerHandshakeConverses ==
    ASSUME Types, NEW n \in Conns, n \in Opened, Conversation(n),
           ServerHandshake(n)
    PROVE  Conversation(n)' /\ Unharmed(n)
<1> DEFINE old == ssess[n]
           Goal == Conversation(n)' /\ Unharmed(n)
<1>0. cpc' = cpc /\ target' = target /\ MyId(n)' = MyId(n)
  BY DEF ServerHandshake, client, MyId
<1>c. ServerCloses(n) => Goal
  BY SlaveCloses DEF Unharmed, ServerCloses
<1>w. DOMAIN ServerWants = {"open_cnf", "reauth", "certs", "rh", "akh", "sac_cnf",
                            "sac_sync", "ck_cnf", "ck_sync"}
  BY DEF ServerWants
<1>s. IsSession(old) /\ IsSac(old.sac)
  BY DEF Types, ServerTypes, SessionShapes, IsSession
<1>1. CASE ServerOpens(n)
  <2>1. PICK m \in Incoming(toServer[n]) : ServerOpens(n)!(m)
    BY <1>1 DEF ServerOpens
  <2>2. /\ toClient[n] = <<>> /\ Taken(toServer, n)[n] = <<>>
        /\ MasterReplied("open_cnf", cpc[n])
    BY <1>w, <2>1, SlaveReads
  <2>3. MasterAsked("reauth", cpc[n]) /\ MasterAsked("certs", cpc[n])
    BY <2>2 DEF MasterReplied, MasterAsked
  <2> DEFINE frame == Apdu("DATA_REQ", [SERVER_ID |-> MyId(n)], {"AKH"})
             ctx == sctx[target[n]]
             sess == Loaded(old, ctx)
  <2>4. \/ ServerCloses(n)
        \/ ServerStep(n, "reauth", sess, frame) /\ UNCHANGED sup
        \/ ServerStep(n, "certs", old, CertificateRequest(n)) /\ UNCHANGED sup
        \/ ctx.file = "torn" /\ ServerRaises(n)
    BY <2>1
  <2>5. \A key : /\ FitsRequest("reauth", MyId(n), key, frame)
                /\ FitsRequest("certs", MyId(n), key, CertificateRequest(n))
    BY FirstRequests
  <2> HIDE DEF sess, frame
  <2>7. ServerStep(n, "reauth", sess, frame) => Conversation(n)'
    BY <1>0, <2>2, <2>3, <2>5, QuestionGoesOut
  <2>8. ServerStep(n, "certs", old, CertificateRequest(n)) => Conversation(n)'
    BY <1>0, <2>2, <2>3, <2>5, QuestionGoesOut
  <2>9. ctx.file = "torn" /\ ServerRaises(n) => Goal
    BY <2>1, SlaveCloses DEF Unharmed, ServerGets
  <2> QED
    BY <1>c, <2>4, <2>7, <2>8, <2>9 DEF Unharmed
<1>2. CASE ServerReauthenticates(n)
  <2>1. PICK m \in Incoming(toServer[n]) : ServerReauthenticates(n)!(m)
    BY <1>2 DEF ServerReauthenticates
  <2>2. /\ toClient[n] = <<>> /\ Taken(toServer, n)[n] = <<>>
        /\ MasterReplied("reauth", cpc[n])
    BY <1>w, <2>1, SlaveReads
  <2>3. MasterAsked("sac_cnf", cpc[n]) /\ MasterAsked("certs", cpc[n])
    BY <2>2 DEF MasterReplied, MasterAsked
  <2>4. \/ ServerStep(n, "sac_cnf", old, SacRequest(n))
        \/ ServerStep(n, "certs", old, CertificateRequest(n))
    BY <2>1
  <2>5. \A key : /\ FitsRequest("sac_cnf", MyId(n), key, SacRequest(n))
                /\ FitsRequest("certs", MyId(n), key, CertificateRequest(n))
    BY FirstRequests
  <2>6. Conversation(n)'
    BY <1>0, <2>2, <2>3, <2>4, <2>5, QuestionGoesOut
  <2> QED
    BY <2>1, <2>6 DEF Unharmed
<1>3. CASE ServerVerifies(n)
  <2>1. PICK m \in Incoming(toServer[n]) : ServerVerifies(n)!(m)
    BY <1>3 DEF ServerVerifies
  <2>2. /\ toClient[n] = <<>> /\ Taken(toServer, n)[n] = <<>> /\ spc[n] = "certs"
        /\ MasterReplied("certs", cpc[n]) /\ IsReply(n, m) /\ m.tag # "GARBLED"
    BY <1>w, <2>1, SlaveReads
  <2>3. Has(m, "CERTS")
    BY <2>2 DEF IsReply
  <2>4. MasterAsked("rh", cpc[n])
    BY <2>2 DEF MasterReplied, MasterAsked
  <2> DEFINE dhsk == Dhsk(m.vals.DHPH, n, m.vals.CERTS.id, MyId(n))
             sess == [old EXCEPT !.peer = m.vals.CERTS.id, !.dhsk = dhsk]
             vals == [DHPM |-> n, RM |-> Rm(dhsk, MyId(n))]
             frame == Apdu("DATA_REQ", vals, {"STATUS"})
  <2>5. ServerCloses(n) \/ (ServerStep(n, "rh", sess, frame) /\ UNCHANGED sup)
    BY <2>1, <2>3
  <2> HIDE DEF sess, dhsk
  <2>6. ~Has(frame, "CERTS")
    BY DEF Has, Apdu
  <2>7. FitsRequest("rh", MyId(n), sess.sac.key, frame)
    BY <2>6 DEF FitsRequest
  <2> HIDE DEF frame
  <2> QED
    BY <1>0, <1>c, <2>2, <2>4, <2>5, <2>7, QuestionGoesOut DEF Unharmed
<1>4. CASE ServerAgrees(n)
  <2>1. PICK m \in Incoming(toServer[n]) : ServerAgrees(n)!(m)
    BY <1>4 DEF ServerAgrees
  <2>2. /\ toClient[n] = <<>> /\ Taken(toServer, n)[n] = <<>> /\ spc[n] = "rh"
        /\ MasterReplied("rh", cpc[n]) /\ IsReply(n, m) /\ m.tag # "GARBLED"
    BY <1>w, <2>1, SlaveReads
  <2>3. Has(m, "RH")
    BY <2>2 DEF IsReply
  <2>4. MasterAsked("akh", cpc[n])
    BY <2>2 DEF MasterReplied, MasterAsked
  <2> DEFINE sess == [old EXCEPT !.auth = AuthKey(old.dhsk, old.peer, MyId(n))]
             frame == Apdu("DATA_REQ", NoValues, {"AKH"})
  <2>5. ServerCloses(n) \/ (ServerStep(n, "akh", sess, frame) /\ UNCHANGED sup)
    BY <2>1, <2>3
  <2> HIDE DEF sess
  <2>6. ~Has(frame, "CERTS")
    BY DEF Has, Apdu, NoValues
  <2>7. FitsRequest("akh", MyId(n), sess.sac.key, frame)
    BY <2>6 DEF FitsRequest
  <2> HIDE DEF frame
  <2> QED
    BY <1>0, <1>c, <2>2, <2>4, <2>5, <2>7, QuestionGoesOut DEF Unharmed
<1>5. CASE ServerChecksAkh(n)
  <2>1. PICK m \in Incoming(toServer[n]) : ServerChecksAkh(n)!(m)
    BY <1>5 DEF ServerChecksAkh
  <2>2. /\ toClient[n] = <<>> /\ Taken(toServer, n)[n] = <<>>
        /\ MasterReplied("akh", cpc[n])
    BY <1>w, <2>1, SlaveReads
  <2>3. ServerCloses(n) \/ (ServerGoesOn(n, "save", old) /\ UNCHANGED <<toClient, sup>>)
    BY <2>1
  <2>4. ASSUME ServerGoesOn(n, "save", old), UNCHANGED <<toClient, sup>>
        PROVE  Goal
    <3>1. spc'[n] = "save" /\ toServer'[n] = <<>> /\ toClient'[n] = <<>>
      BY <2>2, <2>4, SlaveGoesOn
    <3>2. cpc'[n] \in {"save", "sac_req"} \cup Gone
      BY <1>0, <2>2 DEF MasterReplied
    <3> QED
      BY <2>4, <3>1, <3>2 DEF Conversation, Asking, Answering, Lone, Unharmed
  <2> QED
    BY <1>c, <2>3, <2>4
<1>6. CASE ServerSaves(n)
  <2>1. /\ toClient[n] = <<>> /\ toServer[n] = <<>>
        /\ cpc[n] \in {"save", "sac_req"} \cup Gone
    BY <1>6 DEF ServerSaves, Conversation
  <2>2. /\ spc'[n] = "sac_cnf" /\ toServer' = toServer /\ UNCHANGED sup
        /\ toClient' = Sent(toClient, n, SacRequest(n))
    BY <1>6 DEF ServerSaves, Types, ServerTypes
  <2>3. MasterAsked("sac_cnf", cpc[n])
    BY <2>1 DEF MasterAsked
  <2>4. \A key : FitsRequest("sac_cnf", MyId(n), key, SacRequest(n))
    BY FirstRequests
  <2>5. Conversation(n)'
    BY <1>0, <2>1, <2>2, <2>3, <2>4, SlaveAsks
  <2> QED
    BY <2>2, <2>5 DEF Unharmed
<1>7. CASE ServerInitsSac(n)
  <2>1. PICK m \in Incoming(toServer[n]) : ServerInitsSac(n)!(m)
    BY <1>7 DEF ServerInitsSac
  <2>2. /\ toClient[n] = <<>> /\ Taken(toServer, n)[n] = <<>>
        /\ MasterReplied("sac_cnf", cpc[n])
    BY <1>w, <2>1, SlaveReads
  <2>3. MasterAsked("sac_sync", cpc[n])
    BY <2>2 DEF MasterReplied, MasterAsked
  <2> DEFINE key == SacKey(old.dhsk, old.auth, m.vals.NS_H, n)
             sess == [old EXCEPT !.sac = [NoSac EXCEPT !.key = key]]
             frame == Apdu("SYNC_REQ", NoValues, {})
  <2>4. ServerCloses(n) \/ (ServerStep(n, "sac_sync", sess, frame) /\ UNCHANGED sup)
    BY <2>1
  <2> HIDE DEF sess
  <2>5. ~Has(frame, "CERTS")
    BY DEF Has, Apdu, NoValues
  <2>6. FitsRequest("sac_sync", MyId(n), sess.sac.key, frame)
    BY <2>5 DEF FitsRequest
  <2> HIDE DEF frame
  <2> QED
    BY <1>0, <1>c, <2>2, <2>3, <2>4, <2>6, QuestionGoesOut DEF Unharmed
<1>8. CASE ServerSyncsSac(n)
  <2>1. PICK m \in Incoming(toServer[n]) : ServerSyncsSac(n)!(m)
    BY <1>8 DEF ServerSyncsSac
  <2>2. /\ toClient[n] = <<>> /\ Taken(toServer, n)[n] = <<>>
        /\ MasterReplied("sac_sync", cpc[n])
    BY <1>w, <2>1, SlaveReads
  <2>3. MasterAsked("ck_cnf", cpc[n])
    BY <2>2 DEF MasterReplied, MasterAsked
  <2> DEFINE after == Packed(old.sac)
             sess == [old EXCEPT !.sac = after]
             vals == [SERVER_ID |-> MyId(n), KP |-> n]
             frame == SacApdu("SAC_DATA_REQ", old.sac, vals, {"CLIENT_ID", "STATUS"})
  <2>4. ServerCloses(n) \/ (ServerStep(n, "ck_cnf", sess, frame) /\ UNCHANGED sup)
    BY <2>1
  <2>5. ~Has(frame, "CERTS") /\ frame.key = old.sac.key
    BY DEF Has, SacApdu
  <2>6. IsSac(after) /\ after.key = old.sac.key
    BY <1>s, SacUsed
  <2> HIDE DEF after, frame
  <2>7. sess.sac = after
    BY <1>s, <2>6, SacSet
  <2> HIDE DEF sess
  <2>8. FitsRequest("ck_cnf", MyId(n), sess.sac.key, frame)
    BY <2>5, <2>6, <2>7 DEF FitsRequest
  <2> QED
    BY <1>0, <1>c, <2>2, <2>3, <2>4, <2>8, QuestionGoesOut DEF Unharmed
<1>9. CASE ServerUpdatesKey(n)
  <2>1. PICK m \in Incoming(toServer[n]) : ServerUpdatesKey(n)!(m)
    BY <1>9 DEF ServerUpdatesKey
  <2>2. /\ toClient[n] = <<>> /\ Taken(toServer, n)[n] = <<>> /\ spc[n] = "ck_cnf"
        /\ MasterReplied("ck_cnf", cpc[n]) /\ IsReply(n, m) /\ m.tag # "GARBLED"
    BY <1>w, <2>1, SlaveReads
  <2>3. MasterAsked("ck_sync", cpc[n])
    BY <2>2 DEF MasterReplied, MasterAsked
  <2> DEFINE sac == Unpacked(old.sac)
             after == Packed(sac)
             ck == ContentKey(n, MyId(n))
             bck == ContentKey(m.vals.KP, old.peer)
             sess == Installed(old, after, ck, bck)
             frame == SacApdu("SAC_SYNC_REQ", sac, NoValues, {})
  <2>4. MacOk(old.sac, m)
    BY <2>2 DEF IsReply, MacOk
  <2>5. ServerCloses(n) \/ (ServerStep(n, "ck_sync", sess, frame) /\ UNCHANGED sup)
    BY <2>1, <2>4
  <2>6. ~Has(frame, "CERTS") /\ frame.key = sac.key
    BY DEF Has, SacApdu, NoValues
  <2>7. IsSac(after) /\ after.key = sac.key
    BY <1>s, SacUsed
  <2> HIDE DEF sac, after, frame, ck, bck
  <2>8. sess.sac = after
    BY <1>s, <2>7, KeysInstalled
  <2> HIDE DEF sess
  <2>9. FitsRequest("ck_sync", MyId(n), sess.sac.key, frame)
    BY <2>6, <2>7, <2>8 DEF FitsRequest
  <2> QED
    BY <1>0, <1>c, <2>2, <2>3, <2>5, <2>9, QuestionGoesOut DEF Unharmed
<1>10. CASE ServerSyncsKey(n)
  <2>1. PICK m \in Incoming(toServer[n]) : ServerSyncsKey(n)!(m)
    BY <1>10 DEF ServerSyncsKey
  <2>2. /\ toClient[n] = <<>> /\ Taken(toServer, n)[n] = <<>> /\ spc[n] = "ck_sync"
        /\ IsReply(n, m) /\ m.tag # "GARBLED"
    BY <1>w, <2>1, SlaveReads
  <2>3. MacOk(old.sac, m)
    BY <2>2 DEF IsReply, MacOk
  <2> DEFINE sess == [old EXCEPT !.sac = Unpacked(old.sac)]
  <2>4. ServerCloses(n) \/ (ServerGoesOn(n, "ready", sess) /\ UNCHANGED <<toClient, sup>>)
    BY <2>1, <2>3
  <2> HIDE DEF sess
  <2>5. ASSUME ServerGoesOn(n, "ready", sess), UNCHANGED <<toClient, sup>>
        PROVE  Goal
    <3>1. spc'[n] = "ready" /\ toServer'[n] = <<>> /\ toClient'[n] = <<>>
      BY <2>2, <2>5, SlaveGoesOn
    <3> QED
      BY <2>5, <3>1 DEF Conversation, Asking, Answering, Lone, Unharmed
  <2> QED
    BY <1>c, <2>4, <2>5
<1>11. CASE ServerRecvFails(n)
  BY <1>11, <1>c DEF ServerRecvFails
<1> QED
  BY <1>1, <1>2, <1>3, <1>4, <1>5, <1>6, <1>7, <1>8, <1>9, <1>10, <1>11
  DEF ServerHandshake

LEMMA ConnectConverses ==
    ASSUME TypeOK, Types, NEW s \in Slaves, Connect(s), NEW i \in Conns,
           Agreed(i), Conversation(i)
    PROVE  Conversation(i)'
<1> DEFINE new == Len(target) + 1
<1>1. UNCHANGED <<csess, spc, ssess, toClient, toServer>>
  BY DEF Connect, server, link
<1>2. Opened = 1..Len(target) /\ Len(target) \in Nat
  BY OpenedIsConns
<1>3. ASSUME i \in Opened
      PROVE  cpc'[i] = cpc[i] /\ MyId(i)' = MyId(i)
  <2>1. target'[i] = target[i]
    BY <1>2, <1>3, AppendProperties DEF TypeOK, Connect
  <2>2. cpc'[i] = cpc[i]
    BY <1>2, <1>3 DEF Connect, Types, ClientTypes
  <2> QED
    BY <2>1, <2>2 DEF MyId
<1>4. ASSUME i \notin Opened
      PROVE  spc[i] = "none" /\ cpc'[i] \in {"none", "open_req"}
  <2>1. spc[i] = "none" /\ cpc[i] = "none"
    BY <1>4 DEF Agreed, Untouched
  <2> QED
    BY <2>1 DEF Connect, Types, ClientTypes
<1>5. CASE i \in Opened
  BY <1>1, <1>3, <1>5, NothingSaid
<1>6. CASE i \notin Opened
  BY <1>1, <1>4, <1>6 DEF Conversation, ServerAlive, Gone
<1> QED
  BY <1>5, <1>6

LEMMA AcceptConverses ==
    ASSUME TypeOK, Types, NEW s, Accept(s), NEW i \in Conns, Conversation(i)
    PROVE  Conversation(i)'
<1> DEFINE open == Apdu("OPEN_REQ", NoValues, {})
<1>1. PICK n \in Backlog(s) :
        /\ spc' = [spc EXCEPT ![n] = "open_cnf"]
        /\ ssess' = [ssess EXCEPT ![n] =
                     [NewSession EXCEPT !.identity = load_identity("server")]]
        /\ toClient' = Sent(toClient, n, open)
  BY DEF Accept
<1>2. n \in Conns /\ spc[n] = "none"
  BY OpenedIsConns DEF Backlog
<1>3. UNCHANGED <<toServer, cpc, csess, target>> /\ MyId(i)' = MyId(i)
  BY DEF Accept, client, MyId
<1>4. FitsRequest("open_cnf", MyId(n), ssess'[n].sac.key, open)
  BY DEF FitsRequest, Has, Apdu, NoValues
<1> HIDE DEF open
<1>5. CASE i # n
  <2>1. spc'[i] = spc[i] /\ ssess'[i] = ssess[i]
    BY <1>1, <1>5 DEF Types, ServerTypes, SessionShapes
  <2>2. toClient'[i] = toClient[i]
    BY <1>1, <1>2, <1>5, QueueSent DEF Types, Queues
  <2> QED
    BY <1>3, <2>1, <2>2, NothingSaid
<1>6. CASE i = n
  <2>1. /\ toClient[n] = <<>> /\ toServer'[n] = <<>>
        /\ MasterAsked("open_cnf", cpc[n])
    BY <1>2, <1>3, <1>6 DEF Conversation, MasterAsked
  <2>2. spc'[n] = "open_cnf"
    BY <1>1, <1>2 DEF Types, ServerTypes
  <2> QED
    BY <1>1, <1>2, <1>3, <1>4, <1>6, <2>1, <2>2, SlaveAsks
<1> QED
  BY <1>5, <1>6

LEMMA DisturbedLone ==
    ASSUME NEW queues, QueueShapes(queues), NEW n \in Conns, queues[n] # <<>>,
           NEW after, after = Jammed(queues, n) \/ after = Taken(queues, n),
           NEW i \in Conns, Lone(queues[i])
    PROVE  Lone(after[i])
<1>1. CASE i = n
  <2>1. Taken(queues, n)[n] = <<>> /\ Jammed(queues, n)[n] = <<Garbled>>
    BY <1>1, LoneTaken, LoneJammed
  <2>2. after[n] = <<>> \/ after[n] = <<Garbled>>
    BY <2>1
  <2> QED
    BY <1>1, <2>2, OneFrame DEF Lone
<1>2. CASE i # n
  BY <1>2, QueueTaken, QueueJammed
<1> QED
  BY <1>1, <1>2

LEMMA LineNoiseConverses ==
    ASSUME Types, NEW n \in Conns, LineNoise(n), NEW i \in Conns, Conversation(i)
    PROVE  Conversation(i)'
<1>1. UNCHANGED <<cpc, csess, spc, ssess, target>> /\ MyId(i)' = MyId(i)
  BY DEF LineNoise, client, server, MyId
<1>2. Garbled.tag = "GARBLED"
  BY DEF Garbled, Apdu
<1>3. QueueShapes(toClient) /\ QueueShapes(toServer)
  BY DEF Types, Queues
<1>4. /\ Range(toClient'[i]) \subseteq Range(toClient[i]) \cup {Garbled}
      /\ toClient[i] = <<>> => toClient'[i] = <<>>
      /\ Lone(toClient[i]) => Lone(toClient'[i])
  BY <1>3, Disturbed, DisturbedLone DEF LineNoise
<1>5. /\ Range(toServer'[i]) \subseteq Range(toServer[i]) \cup {Garbled}
      /\ toServer[i] = <<>> => toServer'[i] = <<>>
      /\ Lone(toServer[i]) => Lone(toServer'[i])
  BY <1>3, Disturbed, DisturbedLone DEF LineNoise
<1>6. Asking(i) => Asking(i)'
  BY <1>1, <1>2, <1>4 DEF Asking, IsRequest, FitsRequest
<1>7. Answering(i) => Answering(i)'
  BY <1>1, <1>2, <1>5 DEF Answering, IsReply
<1> QED
  BY <1>1, <1>4, <1>5, <1>6, <1>7 DEF Conversation, ServerAlive

LEMMA SlaveEndsConverses ==
    ASSUME NEW s, NEW how, SlaveEnds(s, how), UNCHANGED <<cpc, target>>,
           NEW i \in Conns, Conversation(i)
    PROVE  Conversation(i)'
<1>0. MyId(i)' = MyId(i)
  BY DEF MyId
<1>1. CASE i \in Opened /\ target[i] = s
  BY <1>1, SlaveHungUp DEF SlaveEnds
<1>2. CASE ~(i \in Opened /\ target[i] = s)
  BY <1>0, <1>2, NothingSaid DEF SlaveEnds
<1> QED
  BY <1>1, <1>2

(* A handshake step concerns its own connection, unless the slave dies *)
LEMMA ClientHandshakeElsewhere ==
    ASSUME Types, NEW n \in Conns, ClientHandshake(n), NEW i \in Conns \ {n}
    PROVE  /\ cpc'[i] = cpc[i] /\ csess'[i] = csess[i]
           /\ toClient'[i] = toClient[i] /\ toServer'[i] = toServer[i]
<1> USE DEF Types, ClientTypes, Queues, SessionShapes
<1>1. CASE ClientLeaves(n)
  <2>1. /\ cpc'[i] = cpc[i] /\ csess'[i] = csess[i] /\ toClient'[i] = toClient[i]
    BY <1>1 DEF ClientLeaves, ClientGivesUp, QueueShapes
  <2>2. toServer'[i] = toServer[i]
    BY <1>1, QueueSent DEF ClientLeaves
  <2> QED
    BY <2>1, <2>2
<1>2. ASSUME NEW pc, NEW sess, NEW frame, ClientMoves(n, pc, sess, frame)
      PROVE  /\ cpc'[i] = cpc[i] /\ csess'[i] = csess[i]
             /\ toClient'[i] = toClient[i] /\ toServer'[i] = toServer[i]
  <2>1. toClient[n] # <<>> /\ ClientStep(n, pc, sess, frame)
    BY <1>2 DEF ClientMoves
  <2> QED
    BY <2>1, QueueTaken, QueueSent DEF ClientStep
<1> QED
  BY <1>1, <1>2, ClientHandshakeMoves

LEMMA ServerHandshakeElsewhere ==
    ASSUME Types, NEW n \in Conns, ServerHandshake(n), NEW i \in Conns \ {n}
    PROVE  \/ spc'[i] = "closed"
           \/ /\ spc'[i] = spc[i] /\ ssess'[i] = ssess[i]
              /\ toClient'[i] = toClient[i] /\ toServer'[i] = toServer[i]
<1> USE DEF Types, ServerTypes, Queues, SessionShapes
<1>1. CASE ServerCloses(n)
  BY <1>1 DEF ServerCloses, QueueShapes
<1>2. CASE ServerRaises(n)
  BY <1>2 DEF ServerRaises, SlaveEnds
<1>3. CASE ServerSaves(n)
  BY <1>3, QueueSent DEF ServerSaves
<1>4. ASSUME NEW pc, NEW sess, ServerMoves(n, pc, sess)
      PROVE  /\ spc'[i] = spc[i] /\ ssess'[i] = ssess[i]
             /\ toClient'[i] = toClient[i] /\ toServer'[i] = toServer[i]
  <2>1. toServer[n] # <<>> /\ ServerGoesOn(n, pc, sess)
    BY <1>4 DEF ServerMoves
  <2>2. spc'[i] = spc[i] /\ ssess'[i] = ssess[i] /\ toServer'[i] = toServer[i]
    BY <2>1, QueueTaken DEF ServerGoesOn
  <2>3. toClient'[i] = toClient[i]
    BY <1>4, QueueSent DEF ServerMoves
  <2> QED
    BY <2>2, <2>3
<1> QED
  BY <1>1, <1>2, <1>3, <1>4, ServerHandshakeMoves

LEMMA ConversationStep ==
    ASSUME TypeOK, Types, [Next]_vars, \A i \in Conns : Agreed(i) /\ Conversation(i)
    PROVE  \A i \in Conns : Conversation(i)'
<1> SUFFICES ASSUME NEW i \in Conns
             PROVE  Conversation(i)'
  OBVIOUS
<1>0. Agreed(i) /\ Conversation(i) /\ Opened \subseteq Conns
  BY OpenedIsConns
<1>t. UNCHANGED target => MyId(i)' = MyId(i)
  BY DEF MyId
<1>1. ASSUME NEW s \in Slaves, Connect(s)
      PROVE  Conversation(i)'
  BY <1>0, <1>1, ConnectConverses
<1>2. ASSUME NEW n \in Opened, ClientHandshake(n)
      PROVE  Conversation(i)'
  <2>1. UNCHANGED <<spc, ssess, target>> /\ n \in Conns
    BY <1>0, <1>2 DEF ClientHandshake, server
  <2>2. CASE i = n
    BY <1>0, <1>2, <2>1, <2>2, ClientHandshakeConverses
  <2>3. CASE i # n
    BY <1>0, <1>2, <1>t, <2>1, <2>3, ClientHandshakeElsewhere, NothingSaid
  <2> QED
    BY <2>2, <2>3
<1>3. ASSUME NEW n \in Opened, ClientSaves(n)
      PROVE  Conversation(i)'
  <2>1. /\ UNCHANGED <<spc, ssess, toClient, toServer, target>>
        /\ i # n => cpc'[i] = cpc[i]
        /\ i = n => cpc[i] = "save" /\ cpc'[i] = "sac_req"
    BY <1>0, <1>3 DEF ClientSaves, server, link, Types, ClientTypes
  <2>2. CASE i # n
    BY <1>0, <1>t, <2>1, <2>2, NothingSaid
  <2>3. CASE i = n
    <3>1. Asking(i) => Asking(i)'
      BY <1>t, <2>1, <2>3 DEF Asking, IsRequest, FitsRequest, MasterAsked, Gone
    <3>2. Answering(i) => Answering(i)'
      BY <2>1, <2>3 DEF Answering, IsReply, MasterReplied, Gone
    <3> QED
      BY <1>0, <2>1, <2>3, <3>1, <3>2 DEF Conversation, ServerAlive, Gone
  <2> QED
    BY <2>2, <2>3
<1>4. ASSUME NEW n \in Opened, ClientTimeout(n) \/ SlowAnswer(n)
      PROVE  Conversation(i)'
  <2>1. ClientFails(n) /\ UNCHANGED <<spc, ssess, target>> /\ n \in Conns
    BY <1>0, <1>4 DEF ClientTimeout, SlowAnswer, server
  <2>2. CASE i = n
    BY <1>0, <2>1, <2>2, MasterFails
  <2>3. CASE i # n
    <3>1. cpc'[i] = cpc[i] /\ toClient'[i] = toClient[i] /\ UNCHANGED toServer
      BY <2>1, <2>3 DEF ClientFails, ClientGivesUp, Types, ClientTypes, Queues, QueueShapes
    <3> QED
      BY <1>0, <1>t, <2>1, <3>1, NothingSaid
  <2> QED
    BY <2>2, <2>3
<1>5. ASSUME NEW n \in Opened, ReleaseSocket(n) \/ Close(n)
      PROVE  Conversation(i)'
  <2>1. ClientEnd(n) /\ UNCHANGED <<spc, ssess, target>> /\ n \in Conns
    BY <1>0, <1>5 DEF ReleaseSocket, Close, server
  <2>2. /\ UNCHANGED toServer
        /\ i = n => cpc'[i] = "closed" /\ toClient'[i] = <<>>
        /\ i # n => cpc'[i] = cpc[i] /\ toClient'[i] = toClient[i]
    BY <2>1 DEF ClientEnd, Types, ClientTypes, Queues, QueueShapes
  <2>3. CASE i = n
    BY <1>0, <2>1, <2>2, <2>3, MasterHungUp DEF Gone
  <2>4. CASE i # n
    BY <1>0, <1>t, <2>1, <2>2, <2>4, NothingSaid
  <2> QED
    BY <2>3, <2>4
<1>6. ASSUME NEW s \in Slaves, Accept(s)
      PROVE  Conversation(i)'
  BY <1>0, <1>6, AcceptConverses
<1>7. ASSUME NEW s \in Slaves, RestartSlave(s)
      PROVE  Conversation(i)'
  BY <1>0, <1>7, <1>t, NothingSaid DEF RestartSlave, client, link
<1>8. ASSUME NEW n \in Opened, ServerHandshake(n)
      PROVE  Conversation(i)'
  <2>1. UNCHANGED <<cpc, target>> /\ n \in Conns
    BY <1>0, <1>8 DEF ServerHandshake, client
  <2>2. CASE i = n
    BY <1>0, <1>8, <2>1, <2>2, ServerHandshakeConverses
  <2>3. CASE i # n
    BY <1>0, <1>8, <1>t, <2>1, <2>3, ServerHandshakeElsewhere, NothingSaid, SlaveHungUp
  <2> QED
    BY <2>2, <2>3
<1>9. ASSUME NEW n \in Opened, LineNoise(n)
      PROVE  Conversation(i)'
  BY <1>0, <1>9, LineNoiseConverses
<1>10. ASSUME NEW s \in Slaves, CrashSlave(s) \/ AcceptRaises(s)
       PROVE  Conversation(i)'
  BY <1>0, <1>10, SlaveEndsConverses DEF CrashSlave, AcceptRaises, client
<1>11. ASSUME RestartMaster
       PROVE  Conversation(i)'
  <2>1. /\ cpc'[i] \in Gone /\ toClient'[i] = <<>>
        /\ UNCHANGED <<toServer, spc, ssess>>
    BY <1>11 DEF RestartMaster, server, Gone
  <2> QED
    BY <1>0, <2>1, MasterHungUp
<1>12. ASSUME DeleteState \/ RegeneratePki \/ WritePki \/ StartMaster
       PROVE  Conversation(i)'
  BY <1>0, <1>12, <1>t, NothingSaid DEF DeleteState, RegeneratePki, WritePki,
                                        StartMaster, client, server, link
<1>13. ASSUME UNCHANGED vars
       PROVE  Conversation(i)'
  BY <1>0, <1>13, <1>t, NothingSaid DEF vars, client, server, link
<1> QED
  BY <1>1, <1>2, <1>3, <1>4, <1>5, <1>6, <1>7, <1>8, <1>9, <1>10, <1>11, <1>12, <1>13
  DEF Next, MasterNext, SlaveNext, IncidentNext

TurnInvariant == AgreementInvariant /\ \A i \in Conns : Conversation(i)

LEMMA InvariantTypes ==
    ASSUME AgreementInvariant
    PROVE  /\ TypeOK /\ Types /\ Files /\ Environment
           /\ \A i \in Conns : Agreed(i)
BY TypeInvariantParts DEF AgreementInvariant, TypeInvariant

(* The ends of every connection take turns *)
THEOREM TakeTurns == Spec => []TurnInvariant
<1>1. Init => \A i \in Conns : Conversation(i)
  BY DEF Init, Conversation, ServerAlive, Gone
<1>2. AgreementInvariant /\ (\A i \in Conns : Conversation(i)) /\ [Next]_vars
        => (\A i \in Conns : Conversation(i))'
  BY InvariantTypes, ConversationStep
<1> QED
  BY <1>1, <1>2, AgreementInductive, PTL DEF Spec, TurnInvariant

(* Only a torn file kills the slave *)
LEMMA SurvivesStep ==
    ASSUME TurnInvariant, [Next]_vars, NEW s \in Slaves, sup[s] = "up", sup'[s] = "died"
    PROVE  LoadsTornFile(s)
<1>1. /\ TypeOK /\ Types /\ Opened \subseteq Conns /\ \A i \in Conns : Conversation(i)
      /\ sup \in [Slaves -> {"up", "down", "died"}]
  BY InvariantTypes, OpenedIsConns DEF TurnInvariant, Environment
<1>2. sup' # sup
  OBVIOUS
<1>3. ASSUME NEW n \in Opened, ServerHandshake(n)
      PROVE  LoadsTornFile(s)
  <2>1. Unharmed(n)
    BY <1>1, <1>3, ServerHandshakeConverses
  <2>2. /\ sup' = [sup EXCEPT ![target[n]] = "died"]
        /\ spc[n] = "open_cnf" /\ sctx[target[n]].file = "torn"
    BY <1>2, <1>3, <2>1, ServerHandshakeOutside DEF Unharmed
  <2>3. s = target[n]
    BY <1>1, <2>2
  <2> QED
    BY <2>2, <2>3 DEF LoadsTornFile
<1>4. ASSUME NEW t \in Slaves, Accept(t) \/ RestartSlave(t) \/ CrashSlave(t)
      PROVE  LoadsTornFile(s)
  <2>1. UNCHANGED sup \/ sup' = [sup EXCEPT ![t] = "up"] \/ sup' = [sup EXCEPT ![t] = "down"]
    BY <1>4 DEF Accept, RestartSlave, CrashSlave, SlaveEnds
  <2> QED
    BY <1>1, <1>2, <2>1
<1>5. ASSUME NEW t \in Slaves, AcceptRaises(t)
      PROVE  LoadsTornFile(s)
  <2>1. sup' = [sup EXCEPT ![t] = "died"]
    BY <1>5 DEF AcceptRaises, SlaveEnds
  <2>2. s = t
    BY <1>1, <2>1
  <2> QED
    BY <1>5, <2>2 DEF AcceptRaises, LoadsTornFile
<1>6. ASSUME \/ MasterNext \/ RestartMaster \/ DeleteState \/ RegeneratePki \/ WritePki
             \/ UNCHANGED vars
      PROVE  LoadsTornFile(s)
  BY <1>2, <1>6
  DEF MasterNext, StartMaster, Connect, ClientHandshake, ClientSaves, ClientTimeout,
      ReleaseSocket, Close, RestartMaster, DeleteState, RegeneratePki, WritePki, vars, server
<1>7. ASSUME NEW n \in Opened, LineNoise(n) \/ SlowAnswer(n)
      PROVE  LoadsTornFile(s)
  BY <1>2, <1>7 DEF LineNoise, SlowAnswer, server
<1> QED
  BY <1>3, <1>4, <1>5, <1>6, <1>7 DEF Next, SlaveNext, IncidentNext

(* AcceptLoopSurvives (slave_server.py:47-83): whatever the masters send, the *)
(* accept loop ends by an exception only where it loads a torn file          *)
THEOREM AcceptLoopSurvives == Spec => SlaveSurvives
<1>1. TurnInvariant /\ [Next]_vars
        => [\A s \in Slaves : sup[s] = "up" /\ sup'[s] = "died" => LoadsTornFile(s)]_vars
  BY SurvivesStep
<1> QED
  BY <1>1, TakeTurns, PTL DEF Spec, SlaveSurvives

-----------------------------------------------------------------------------
(* The contexts stay in step, if there is one slave and no incident takes the *)
(* master's file away.                                                       *)

OneSlave == \A s, t \in Slaves : s = t
MasterFileSafe == Incidents \cap {"kill_master_in_save", "delete_master_state"} = {}

(* The key the master's file holds, or will hold when the master has saved   *)
Holds(key) ==
    \/ \E n \in Opened : cpc[n] = "save" /\ csess[n].auth = key
    \/ /\ \A n \in Opened : cpc[n] # "save"
       /\ cctx.file = "saved" /\ cctx.auth = key

(* The master uses one connection at a time, the slave serves them in turn  *)
InTurn(n, i) ==
    /\ cpc[n] \in {"failed", "closed"}
    /\ target[n] = target[i] /\ spc[i] # "none" => spc[n] = "closed"
InOrder == \A n, i \in Opened : n < i => InTurn(n, i)

(* Who the master believes it talks to *)
KnowsPeer(n) ==
    /\ cpc[n] \in {"dhpm", "akh_req", "save"} => csess[n].peer = MyId(n)
    /\ \A m \in Range(toClient[n]) : Has(m, "CERTS") => m.vals.CERTS.id = MyId(n)
KnowsFile == cctx.file = "saved" => \A s \in Slaves : cctx.peer = SlaveId[s]

(* The slave saves key next, or as soon as it has read the AKH on the way   *)
Saves(n, key) ==
    \/ spc[n] = "save" /\ ssess[n].auth = key
    \/ /\ spc[n] = "akh"
       /\ \E m \in Range(toServer[n]) : Has(m, "AKH") /\ m.vals.AKH = key
HasSaved(s, key) == sctx[s].file = "saved" /\ sctx[s].auth = key

(* A slave that has saved key is not on its way to another: it asks for no   *)
(* certificates, and the answer to its re-authentication is the right one   *)
NoOther(n, key) ==
    /\ cpc[n] \notin {"dhpm", "akh_req"}
    /\ cpc[n] \notin Gone => \A m \in Range(toClient[n]) : ~Has(m, "CERTS")
    /\ spc[n] = "reauth" =>
          /\ ssess[n].auth = key
          /\ \A m \in Range(toServer[n]) :
                m.tag # "GARBLED" => Has(m, "AKH") /\ m.vals.AKH = key

SavingHeld == \A n \in Conns : \A key : Saves(n, key) => Holds(key)
SavedHeld == \A s \in Slaves : \A key :
    HasSaved(s, key) => Holds(key) /\ \A n \in Conns : NoOther(n, key)

ContextInvariant ==
    /\ InOrder /\ KnowsFile /\ \A n \in Conns : KnowsPeer(n)
    /\ SavingHeld /\ SavedHeld

(* What a step that is no step of the handshake of n does to n *)
Bystands(n) ==
    /\ \/ cpc'[n] = cpc[n] /\ csess'[n] = csess[n]
       \/ cpc'[n] \in Gone /\ cpc[n] # "save" /\ (n \in Opened => cpc'[n] # "none")
       \/ cpc'[n] = "open_req" /\ n \notin Opened
    /\ \/ spc'[n] = spc[n] /\ ssess'[n] = ssess[n]
       \/ spc'[n] = "closed"
       \/ spc[n] = "none" /\ spc'[n] = "open_cnf"
    /\ \A m \in Range(toClient'[n]) : m \in Range(toClient[n]) \/ ~Has(m, "CERTS")
    /\ \A m \in Range(toServer'[n]) : m \in Range(toServer[n]) \/ m = Garbled

LEMMA StaysPut ==
    ASSUME NEW n, cpc'[n] = cpc[n], csess'[n] = csess[n], spc'[n] = spc[n],
           ssess'[n] = ssess[n], toClient'[n] = toClient[n], toServer'[n] = toServer[n]
    PROVE  Bystands(n)
BY DEF Bystands

LEMMA PlainFrames ==
    /\ ~Has(Garbled, "CERTS") /\ ~Has(Garbled, "AKH") /\ Garbled.tag = "GARBLED"
    /\ \A tag, reqs : ~Has(Apdu(tag, NoValues, reqs), "CERTS")
BY DEF Garbled, Has, Apdu, NoValues

LEMMA OthersBystand ==
    ASSUME Types, NEW i \in Conns, NEW n \in Conns, i # n,
           ClientHandshake(i) \/ ServerHandshake(i)
    PROVE  Bystands(n)
<1> USE DEF Types, ClientTypes, ServerTypes, Queues, SessionShapes
<1>1. CASE ClientHandshake(i)
  BY <1>1, ClientHandshakeElsewhere, StaysPut DEF ClientHandshake, server
<1>2. CASE ServerHandshake(i)
  <2>1. UNCHANGED <<cpc, csess>>
    BY <1>2 DEF ServerHandshake, client
  <2>2. /\ \/ spc'[n] = spc[n] /\ ssess'[n] = ssess[n]
           \/ spc'[n] = "closed"
        /\ toClient'[n] = toClient[n]
        /\ toServer'[n] = toServer[n] \/ toServer'[n] = <<>>
    <3>1. CASE ServerCloses(i)
      BY <2>1, <3>1 DEF ServerCloses, QueueShapes
    <3>2. CASE ServerRaises(i)
      BY <2>1, <3>2 DEF ServerRaises, SlaveEnds
    <3>3. CASE ServerSaves(i)
      BY <2>1, <3>3, QueueSent DEF ServerSaves
    <3>4. ASSUME NEW pc, NEW sess, ServerMoves(i, pc, sess)
          PROVE  /\ spc'[n] = spc[n] /\ ssess'[n] = ssess[n]
                 /\ toClient'[n] = toClient[n] /\ toServer'[n] = toServer[n]
      <4>1. toServer[i] # <<>> /\ ServerGoesOn(i, pc, sess)
        BY <3>4 DEF ServerMoves
      <4>2. spc'[n] = spc[n] /\ ssess'[n] = ssess[n] /\ toServer'[n] = toServer[n]
        BY <2>1, <4>1, QueueTaken DEF ServerGoesOn
      <4>3. toClient'[n] = toClient[n]
        BY <2>1, <3>4, QueueSent DEF ServerMoves
      <4> QED
        BY <4>2, <4>3
    <3> QED
      BY <1>2, <2>1, <3>1, <3>2, <3>3, <3>4, ServerHandshakeMoves
  <2> QED
    BY <2>1, <2>2, EmptyQueue DEF Bystands
<1> QED
  BY <1>1, <1>2

LEMMA StepOfConnection ==
    ASSUME MasterFileSafe, TypeOK, Types, [Next]_vars, NEW n \in Conns, Agreed(n)
    PROVE  \/ n \in Opened /\ (ClientHandshake(n) \/ ClientSaves(n) \/ ServerHandshake(n))
           \/ Bystands(n)
<1> SUFFICES ASSUME ~(n \in Opened /\ (ClientHandshake(n) \/ ClientSaves(n) \/ ServerHandshake(n)))
             PROVE  Bystands(n)
  OBVIOUS
<1>0. Opened \subseteq Conns /\ Opened = 1..Len(target) /\ Len(target) \in Nat
  BY OpenedIsConns
<1> USE DEF Types, ClientTypes, ServerTypes, Queues, SessionShapes
<1>1. ASSUME NEW s \in Slaves, Connect(s)
      PROVE  Bystands(n)
  <2>1. UNCHANGED <<csess, spc, ssess, toClient, toServer>>
    BY <1>1 DEF Connect, server, link
  <2>2. cpc'[n] = cpc[n] \/ (cpc'[n] = "open_req" /\ n \notin Opened)
    BY <1>0, <1>1 DEF Connect
  <2> QED
    BY <2>1, <2>2 DEF Bystands
<1>2. ASSUME NEW i \in Opened, ClientHandshake(i)
      PROVE  Bystands(n)
  BY <1>0, <1>2, OthersBystand
<1>3. ASSUME NEW i \in Opened, ClientSaves(i)
      PROVE  Bystands(n)
  BY <1>3, StaysPut DEF ClientSaves, server, link
<1>4. ASSUME NEW i \in Opened, ClientTimeout(i) \/ SlowAnswer(i)
      PROVE  Bystands(n)
  <2>1. ClientFails(i) /\ UNCHANGED <<spc, ssess>> /\ cpc[i] # "save" /\ i \in Conns
    BY <1>0, <1>4 DEF ClientTimeout, SlowAnswer, server, ClientWants
  <2>2. CASE i # n
    BY <2>1, <2>2, StaysPut DEF ClientFails, ClientGivesUp, QueueShapes
  <2>3. CASE i = n
    <3>1. cpc'[n] = "failed" /\ toClient'[n] = <<>> /\ UNCHANGED <<toServer, spc, ssess>>
      BY <2>1, <2>3 DEF ClientFails, ClientGivesUp, QueueShapes
    <3> QED
      BY <2>1, <2>3, <3>1, EmptyQueue DEF Bystands, Gone
  <2> QED
    BY <2>2, <2>3
<1>5. ASSUME NEW i \in Opened, ReleaseSocket(i) \/ Close(i)
      PROVE  Bystands(n)
  <2>1. ClientEnd(i) /\ UNCHANGED <<spc, ssess>> /\ cpc[i] # "save" /\ i \in Conns
    BY <1>0, <1>5 DEF ReleaseSocket, Close, server
  <2>2. CASE i # n
    BY <2>1, <2>2, StaysPut DEF ClientEnd, QueueShapes
  <2>3. CASE i = n
    <3>1. cpc'[n] = "closed" /\ toClient'[n] = <<>> /\ UNCHANGED <<toServer, spc, ssess>>
      BY <2>1, <2>3 DEF ClientEnd, QueueShapes
    <3> QED
      BY <2>1, <2>3, <3>1, EmptyQueue DEF Bystands, Gone
  <2> QED
    BY <2>2, <2>3
<1>6. ASSUME NEW s \in Slaves, Accept(s)
      PROVE  Bystands(n)
  <2> DEFINE open == Apdu("OPEN_REQ", NoValues, {})
  <2>1. PICK i \in Backlog(s) :
          /\ spc' = [spc EXCEPT ![i] = "open_cnf"]
          /\ ssess' = [ssess EXCEPT ![i] =
                     [NewSession EXCEPT !.identity = load_identity("server")]]
          /\ toClient' = Sent(toClient, i, open)
    BY <1>6 DEF Accept
  <2>2. i \in Conns /\ spc[i] = "none" /\ UNCHANGED <<cpc, csess, toServer>>
    BY <1>0, <1>6 DEF Backlog, Accept, client
  <2>3. ~Has(open, "CERTS")
    BY PlainFrames
  <2> HIDE DEF open
  <2>4. CASE i # n
    BY <2>1, <2>2, <2>4, QueueSent, StaysPut
  <2>5. CASE i = n
    <3>1. Range(toClient'[n]) = Range(toClient[n]) \cup {open}
      BY <2>1, <2>2, <2>5, QueueSent
    <3> QED
      BY <2>1, <2>2, <2>3, <2>5, <3>1 DEF Bystands
  <2> QED
    BY <2>4, <2>5
<1>7. ASSUME NEW s \in Slaves, RestartSlave(s)
      PROVE  Bystands(n)
  BY <1>7, StaysPut DEF RestartSlave, client, link
<1>8. ASSUME NEW i \in Opened, ServerHandshake(i)
      PROVE  Bystands(n)
  BY <1>0, <1>8, OthersBystand
<1>9. ASSUME NEW i \in Opened, LineNoise(i)
      PROVE  Bystands(n)
  <2>1. UNCHANGED <<cpc, csess, spc, ssess>> /\ i \in Conns
    BY <1>0, <1>9 DEF LineNoise, client, server
  <2>2. Range(toClient'[n]) \subseteq Range(toClient[n]) \cup {Garbled}
    BY <1>9, <2>1, Disturbed DEF LineNoise
  <2>3. Range(toServer'[n]) \subseteq Range(toServer[n]) \cup {Garbled}
    BY <1>9, <2>1, Disturbed DEF LineNoise
  <2> QED
    BY <2>1, <2>2, <2>3, PlainFrames DEF Bystands
<1>10. ASSUME NEW s \in Slaves, CrashSlave(s) \/ AcceptRaises(s)
       PROVE  Bystands(n)
  <2>1. (\E how : SlaveEnds(s, how)) /\ UNCHANGED <<cpc, csess>>
    BY <1>10 DEF CrashSlave, AcceptRaises, client
  <2> QED
    BY <2>1, EmptyQueue DEF SlaveEnds, Bystands
<1>11. ASSUME RestartMaster
       PROVE  Bystands(n)
  <2>1. \A i \in Opened : cpc[i] # "save"
    BY <1>11 DEF RestartMaster, Incident, MasterFileSafe
  <2>2. /\ cpc'[n] = (IF n \in Opened THEN "closed" ELSE "none") /\ toClient'[n] = <<>>
        /\ UNCHANGED <<toServer, spc, ssess>>
    BY <1>11 DEF RestartMaster, server
  <2>3. cpc[n] # "save"
    BY <2>1 DEF Agreed, Untouched
  <2> QED
    BY <2>2, <2>3, EmptyQueue DEF Bystands, Gone
<1>12. ASSUME DeleteState \/ RegeneratePki \/ WritePki \/ StartMaster
       PROVE  Bystands(n)
  BY <1>12, StaysPut DEF DeleteState, RegeneratePki, WritePki, StartMaster,
                         client, server, link
<1>13. ASSUME UNCHANGED vars
       PROVE  Bystands(n)
  BY <1>13, StaysPut DEF vars, client, server, link
<1> QED
  BY <1>1, <1>2, <1>3, <1>4, <1>5, <1>6, <1>7, <1>8, <1>9, <1>10, <1>11, <1>12, <1>13
  DEF Next, MasterNext, SlaveNext, IncidentNext
(* What was opened stays open to the same slave *)
LEMMA TargetsStay ==
    ASSUME TypeOK, [Next]_vars
    PROVE  Opened \subseteq Opened' /\ \A n \in Opened : target'[n] = target[n]
<1>1. Opened = 1..Len(target) /\ Len(target) \in Nat /\ target \in Seq(Slaves)
  BY OpenedIsConns DEF TypeOK
<1>2. ASSUME NEW s \in Slaves, Connect(s)
      PROVE  Opened \subseteq Opened' /\ \A n \in Opened : target'[n] = target[n]
  <2>1. target' = Append(target, s) /\ Len(target') = Len(target) + 1
    BY <1>1, <1>2, AppendProperties DEF Connect
  <2>2. \A n \in Opened : target'[n] = target[n]
    BY <1>1, <2>1, AppendProperties
  <2>3. Opened' = 1..(Len(target) + 1)
    BY <1>1, <2>1, AppendProperties DEF Opened
  <2> QED
    BY <1>1, <2>2, <2>3
<1>3. (\E s \in Slaves : Connect(s)) \/ UNCHANGED target
  BY DEF Next, MasterNext, SlaveNext, IncidentNext, ClientHandshake, ClientSaves,
         ClientTimeout, ReleaseSocket, Close, Accept, RestartSlave, ServerHandshake,
         LineNoise, SlowAnswer, CrashSlave, AcceptRaises, RestartMaster, DeleteState,
         RegeneratePki, WritePki, StartMaster, vars
<1>4. UNCHANGED target => Opened \subseteq Opened' /\ \A n \in Opened : target'[n] = target[n]
  BY DEF Opened
<1> QED
  BY <1>2, <1>3, <1>4

(* One connection is the master's, one the slave's *)
LEMMA NoThird ==
    ASSUME OneSlave, TypeOK, InOrder, NEW n \in Opened, NEW i \in Opened, n # i
    PROVE  /\ cpc[n] \in {"failed", "closed"} \/ cpc[i] \in {"failed", "closed"}
           /\ spc[n] # "none" /\ cpc[n] \notin {"failed", "closed"} =>
                 cpc[i] \in {"failed", "closed"} /\ spc[i] = "closed"
           /\ ServerAlive(n) =>
                 \/ spc[i] = "none" /\ n < i
                 \/ spc[i] = "closed" /\ cpc[i] \in {"failed", "closed"} /\ i < n
<1>1. n \in Nat /\ i \in Nat /\ (n < i \/ i < n)
  BY OpenedIsConns DEF Conns
<1>2. target[n] = target[i]
  BY TargetIsSlave DEF OneSlave
<1> QED
  BY <1>1, <1>2 DEF InOrder, InTurn, ServerAlive

LEMMA EndsBusy ==
    ASSUME NEW n
    PROVE  /\ ClientHandshake(n) => cpc[n] \in DOMAIN ClientWants
           /\ ServerHandshake(n) => spc[n] \notin {"none", "closed"}
<1>1. ClientHandshake(n) => cpc[n] \in DOMAIN ClientWants
  BY DEF ClientHandshake, ClientOpens, ClientReauthenticates, ClientCannotReauthenticate,
         ClientVerifies, ClientAgrees, ClientSendsAkh, ClientInitsSac, ClientSyncsSac,
         ClientUpdatesKey, ClientSyncsKey, ClientRecvFails, ClientGets, ClientWants
<1>2. ServerHandshake(n) => spc[n] \notin {"none", "closed"}
  BY DEF ServerHandshake, ServerOpens, ServerReauthenticates, ServerVerifies, ServerAgrees,
         ServerChecksAkh, ServerSaves, ServerInitsSac, ServerSyncsSac, ServerUpdatesKey,
         ServerSyncsKey, ServerRecvFails, ServerGets, ServerWants
<1> QED
  BY <1>1, <1>2

(* An end that is gone stays gone *)
LEMMA GoneStays ==
    ASSUME MasterFileSafe, TypeOK, Types, [Next]_vars, NEW n \in Opened, Agreed(n)
    PROVE  /\ cpc[n] \in {"failed", "closed"} => cpc'[n] \in {"failed", "closed"}
           /\ spc[n] = "closed" => spc'[n] = "closed"
<1>1. n \in Conns
  BY OpenedIsConns
<1>2. CASE Bystands(n)
  BY <1>2 DEF Bystands, Gone
<1>3. CASE ClientHandshake(n)
  BY <1>3, EndsBusy DEF ClientHandshake, server, ClientWants
<1>4. CASE ClientSaves(n)
  BY <1>4 DEF ClientSaves, server
<1>5. CASE ServerHandshake(n)
  BY <1>5, EndsBusy DEF ServerHandshake, client
<1> QED
  BY <1>1, <1>2, <1>3, <1>4, <1>5, StepOfConnection

(* What happens to a connection in the backlog: it is accepted when all      *)
(* before it are over, or closed with them                                  *)
LEMMA AcceptedInTurn ==
    ASSUME TypeOK, Types, [Next]_vars, NEW n \in Opened, NEW i \in Opened, n < i,
           target[n] = target[i], spc[i] = "none", spc'[i] # "none"
    PROVE  spc'[n] = "closed"
<1>1. n \in Conns /\ i \in Conns /\ ~(i <= n) /\ n # i
  BY OpenedIsConns DEF Conns
<1>2. \A s, how : SlaveEnds(s, how) => spc'[n] = "closed"
  BY <1>1 DEF SlaveEnds
<1> USE DEF Types, ServerTypes
<1>3. ASSUME NEW s \in Slaves, Accept(s)
      PROVE  spc'[n] = "closed"
  <2>1. ~Busy(s)
    BY <1>3 DEF Accept
  <2>2. PICK k \in Backlog(s) :
          /\ \A j \in Backlog(s) : k <= j
          /\ spc' = [spc EXCEPT ![k] = "open_cnf"]
    BY <1>3 DEF Accept
  <2>3. k = i
    BY <1>1, <2>2
  <2>4. n \notin Backlog(s) /\ target[n] = s
    BY <1>1, <2>2, <2>3 DEF Backlog
  <2>5. spc[n] = "closed"
    BY <2>1, <2>4 DEF Backlog, Busy, ServerAlive
  <2> QED
    BY <1>1, <2>2, <2>3, <2>5
<1>4. ASSUME NEW k \in Opened, ServerHandshake(k)
      PROVE  spc'[n] = "closed"
  <2>1. k # i /\ k \in Conns
    BY <1>4, EndsBusy, OpenedIsConns
  <2>2. CASE ServerRaises(k)
    BY <1>2, <2>2 DEF ServerRaises
  <2>3. ~(\E pc : spc' = [spc EXCEPT ![k] = pc])
    BY <1>1, <2>1
  <2>4. ServerRaises(k)
    BY <1>4, <2>1, <2>3, ServerHandshakeMoves
    DEF ServerCloses, ServerSaves, ServerMoves, ServerGoesOn
  <2> QED
    BY <2>2, <2>4
<1>5. ASSUME NEW s \in Slaves, CrashSlave(s) \/ AcceptRaises(s)
      PROVE  spc'[n] = "closed"
  BY <1>2, <1>5 DEF CrashSlave, AcceptRaises
<1>6. \/ \E s \in Slaves : Accept(s) \/ CrashSlave(s) \/ AcceptRaises(s)
      \/ \E k \in Opened : ServerHandshake(k)
  BY DEF Next, MasterNext, SlaveNext, IncidentNext, Connect, ClientHandshake, ClientSaves,
         ClientTimeout, ReleaseSocket, Close, RestartSlave, LineNoise, SlowAnswer,
         RestartMaster, DeleteState, RegeneratePki, WritePki, StartMaster, vars,
         server
<1> QED
  BY <1>3, <1>4, <1>5, <1>6

LEMMA OrderStep ==
    ASSUME MasterFileSafe, TypeOK, Types, [Next]_vars, \A n \in Conns : Agreed(n), InOrder
    PROVE  InOrder'
<1>1. Opened = 1..Len(target) /\ Opened \subseteq Conns /\ Len(target) \in Nat
  BY OpenedIsConns
<1> SUFFICES ASSUME NEW n \in Opened', NEW i \in Opened', n < i
             PROVE  InTurn(n, i)'
  BY DEF InOrder
<1>2. CASE n \in Opened /\ i \in Opened
  <2>1. InTurn(n, i) /\ target'[n] = target[n] /\ target'[i] = target[i]
    BY <1>2, TargetsStay DEF InOrder
  <2>2. cpc'[n] \in {"failed", "closed"} /\ (spc[n] = "closed" => spc'[n] = "closed")
    BY <1>1, <1>2, <2>1, GoneStays DEF InTurn
  <2>3. target[n] = target[i] /\ spc'[i] # "none" => spc'[n] = "closed"
    BY <1>2, <2>1, <2>2, AcceptedInTurn DEF InTurn
  <2> QED
    BY <2>1, <2>2, <2>3 DEF InTurn
<1>3. CASE ~(n \in Opened /\ i \in Opened)
  <2>1. PICK s \in Slaves : Connect(s)
    BY <1>3 DEF Opened, Next, MasterNext, SlaveNext, IncidentNext, ClientHandshake,
       ClientSaves, ClientTimeout, ReleaseSocket, Close, Accept, RestartSlave,
       ServerHandshake, LineNoise, SlowAnswer, CrashSlave, AcceptRaises, RestartMaster, DeleteState,
       RegeneratePki, WritePki, StartMaster, vars
  <2> DEFINE new == Len(target) + 1
  <2>2. target' = Append(target, s) /\ Len(target') = new
    BY <2>1, AppendProperties DEF Connect, TypeOK
  <2>3. Opened' = 1..new
    BY <2>1, <2>2, AppendProperties DEF Opened, Connect, TypeOK
  <2>4. i = new /\ n \in Opened
    BY <1>1, <1>3, <2>3
  <2>5. cpc'[n] \in {"failed", "closed"}
    BY <1>1, <2>1, <2>4 DEF Connect, Types, ClientTypes
  <2>6. new \in Conns /\ new \notin Opened
    BY <1>1, <2>1, ConstantsAssumption DEF Connect, Conns
  <2>7. spc'[i] = "none"
    BY <2>1, <2>4, <2>6 DEF Connect, server, Agreed, Untouched
  <2> QED
    BY <2>5, <2>7 DEF InTurn
<1> QED
  BY <1>2, <1>3

(* No key of n comes into play *)
NothingNew(n) == \A key :
    /\ Saves(n, key)' => Saves(n, key)
    /\ NoOther(n, key) => NoOther(n, key)'

(* A connection that takes no step of its handshake *)
LEMMA BystanderKept ==
    ASSUME TypeOK, [Next]_vars, NEW n \in Conns, Agreed(n), Bystands(n)
    PROVE  (KnowsPeer(n) => KnowsPeer(n)') /\ NothingNew(n)
<1>1. n \in Opened => MyId(n)' = MyId(n)
  BY TargetsStay DEF MyId
<1>2. n \notin Opened => Range(toClient[n]) = {}
  BY EmptyQueue DEF Agreed, Untouched
<1>3. n \notin Opened => cpc[n] = "none"
  BY DEF Agreed, Untouched
<1>4. KnowsPeer(n) => KnowsPeer(n)'
  BY <1>1, <1>2, <1>3 DEF KnowsPeer, Bystands, Gone
<1>5. ASSUME NEW key
      PROVE  /\ Saves(n, key)' => Saves(n, key)
             /\ NoOther(n, key) => NoOther(n, key)'
  <2>1. Saves(n, key)' => Saves(n, key)
    BY PlainFrames DEF Saves, Bystands
  <2>2. ASSUME NoOther(n, key)
        PROVE  NoOther(n, key)'
    <3>1. cpc'[n] \notin {"dhpm", "akh_req"}
      BY <2>2 DEF NoOther, Bystands, Gone
    <3>2. cpc'[n] \notin Gone => \A m \in Range(toClient'[n]) : ~Has(m, "CERTS")
      BY <1>2, <2>2 DEF NoOther, Bystands
    <3>3. spc'[n] = "reauth" =>
            /\ ssess'[n].auth = key
            /\ \A m \in Range(toServer'[n]) :
                  m.tag # "GARBLED" => Has(m, "AKH") /\ m.vals.AKH = key
      BY <2>2, PlainFrames DEF NoOther, Bystands
    <3> QED
      BY <3>1, <3>2, <3>3 DEF NoOther
  <2> QED
    BY <2>1, <2>2
<1> QED
  BY <1>4, <1>5 DEF NothingNew

(* A step of the master's end *)
ClientKept(n) ==
    /\ KnowsPeer(n)'
    /\ cpc'[n] = "save" => cpc[n] = "akh_req" /\ toClient[n] # <<>>
    /\ \A key :
          /\ Saves(n, key)' =>
                Saves(n, key) \/ (cpc'[n] = "save" /\ csess'[n].auth = key)
          /\ NoOther(n, key) /\ (cpc[n] = "first_req" => cctx.auth = key)
                => NoOther(n, key)'

LEMMA ClientMoveKept ==
    ASSUME Types, NEW n \in Conns, UNCHANGED <<spc, ssess, target>>,
           KnowsPeer(n), toClient[n] # <<>>, cpc[n] \notin Gone,
           NEW pc, NEW sess, NEW frame, ClientStep(n, pc, sess, frame),
           pc \in {"dhpm", "akh_req", "save"} => sess.peer = MyId(n),
           pc = "dhpm" => \E m \in Range(toClient[n]) : Has(m, "CERTS"),
           pc = "akh_req" => cpc[n] = "dhpm",
           pc = "save" => cpc[n] = "akh_req",
           spc[n] = "akh" /\ Has(frame, "AKH") => pc = "save" /\ frame.vals.AKH = sess.auth,
           spc[n] = "reauth" =>
              cpc[n] = "first_req" /\ Has(frame, "AKH") /\ frame.vals.AKH = cctx.auth
    PROVE  ClientKept(n)
<1>1. /\ cpc'[n] = pc /\ csess'[n] = sess
      /\ Range(toClient'[n]) \subseteq Range(toClient[n])
      /\ Range(toServer'[n]) = Range(toServer[n]) \cup {frame}
  <2>1. cpc'[n] = pc /\ csess'[n] = sess
    BY DEF ClientStep, Types, ClientTypes, SessionShapes
  <2>2. toClient' = Taken(toClient, n) /\ toServer' = Sent(toServer, n, frame)
    BY DEF ClientStep
  <2>3. Range(Taken(toClient, n)[n]) \subseteq Range(toClient[n])
    BY QueueTaken DEF Types, Queues
  <2>4. Range(Sent(toServer, n, frame)[n]) = Range(toServer[n]) \cup {frame}
    BY QueueSent DEF Types, Queues
  <2> QED
    BY <2>1, <2>2, <2>3, <2>4
<1>2. MyId(n)' = MyId(n)
  BY DEF MyId
<1>3. KnowsPeer(n)'
  BY <1>1, <1>2 DEF KnowsPeer
<1>4. ASSUME NEW key
      PROVE  Saves(n, key)' => Saves(n, key) \/ (cpc'[n] = "save" /\ csess'[n].auth = key)
  BY <1>1 DEF Saves
<1>5. ASSUME NEW key, NoOther(n, key), cpc[n] = "first_req" => cctx.auth = key
      PROVE  NoOther(n, key)'
  <2>1. cpc'[n] \notin {"dhpm", "akh_req"}
    BY <1>1, <1>5 DEF NoOther
  <2>2. \A m \in Range(toClient'[n]) : ~Has(m, "CERTS")
    BY <1>1, <1>5 DEF NoOther
  <2>3. spc'[n] = "reauth" =>
            /\ ssess'[n].auth = key
            /\ \A m \in Range(toServer'[n]) :
                  m.tag # "GARBLED" => Has(m, "AKH") /\ m.vals.AKH = key
    BY <1>1, <1>5 DEF NoOther
  <2> QED
    BY <2>1, <2>2, <2>3 DEF NoOther
<1> QED
  BY <1>1, <1>3, <1>4, <1>5 DEF ClientKept

LEMMA ClientFailsKept ==
    ASSUME Types, NEW n \in Conns, UNCHANGED <<spc, ssess, target>>, ClientFails(n)
    PROVE  ClientKept(n)
<1>1. /\ cpc'[n] = "failed" /\ toServer' = toServer /\ Range(toClient'[n]) = {}
  BY EmptyQueue DEF ClientFails, ClientGivesUp, Types, ClientTypes, Queues, QueueShapes
<1> QED
  BY <1>1 DEF ClientKept, KnowsPeer, Saves, NoOther

LEMMA ClientHandshakeKept ==
    ASSUME OneSlave, Types, NEW n \in Conns, n \in Opened, target[n] \in Slaves,
           Conversation(n), ClientHandshake(n), KnowsPeer(n), KnowsFile
    PROVE  ClientKept(n)
<1> DEFINE old == csess[n]
<1>0. UNCHANGED <<spc, ssess, target>> /\ cpc[n] \notin Gone
  BY EndsBusy DEF ClientHandshake, server, ClientWants, Gone
<1>f. ClientFails(n) => ClientKept(n)
  BY <1>0, ClientFailsKept
<1>r. ASSUME NEW m \in Incoming(toClient[n]), NEW pc \in DOMAIN ClientWants,
             ClientGets(n, pc, m)
      PROVE  /\ m.tag # "GARBLED" /\ cpc[n] = pc
             /\ toClient[n] # <<>> /\ m \in Range(toClient[n])
             /\ spc[n] # "closed" => MasterAsked(spc[n], pc) /\ IsRequest(n, m)
  <2>1. m.tag # "GARBLED" /\ cpc[n] = pc
    BY <1>r, WantedTags DEF ClientGets
  <2>2. toClient[n] # <<>> /\ m \in Range(toClient[n])
    BY Received, QueueTaken DEF Types, Queues
  <2>3. spc[n] # "none"
    BY <2>2 DEF Conversation
  <2> QED
    BY <2>1, <2>2, <2>3, MasterReads DEF ServerAlive
<1>w. {"open_req", "first_req", "dhpm", "akh_req", "sac_req", "sac_sync", "ck_req", "ck_sync"}
        \subseteq DOMAIN ClientWants
  BY DEF ClientWants
<1>s. ASSUME NEW m \in Incoming(toClient[n]),
             NEW pc \in {"open_req", "sac_req", "sac_sync", "ck_req", "ck_sync"},
             ClientGets(n, pc, m), NEW frame, NEW sess,
             NEW next \in {"first_req", "sac_sync", "ck_req", "ck_sync", "ready"},
             ClientStep(n, next, sess, frame)
      PROVE  ClientKept(n)
  <2>1. /\ toClient[n] # <<>> /\ cpc[n] = pc
        /\ spc[n] # "closed" => MasterAsked(spc[n], pc)
    BY <1>r, <1>s, <1>w
  <2>2. spc[n] \notin {"akh", "reauth"}
    BY <2>1 DEF MasterAsked, Gone
  <2> QED
    BY <1>0, <1>s, <2>1, <2>2, ClientMoveKept
<1>1. CASE ClientOpens(n)
  <2>1. PICK m \in Incoming(toClient[n]) : ClientOpens(n)!(m)
    BY <1>1 DEF ClientOpens
  <2>2. \E frame : ClientStep(n, "first_req", old, frame)
    BY <2>1
  <2> QED
    BY <1>s, <2>1, <2>2
<1>2. CASE ClientReauthenticates(n)
  <2>1. PICK m \in Incoming(toClient[n]) : ClientReauthenticates(n)!(m)
    BY <1>2 DEF ClientReauthenticates
  <2>2. /\ m.tag # "GARBLED" /\ cpc[n] = "first_req" /\ toClient[n] # <<>>
        /\ spc[n] # "closed" => MasterAsked(spc[n], "first_req") /\ IsRequest(n, m)
        /\ "AKH" \in m.reqs /\ cctx.file = "saved"
    BY <1>r, <1>w, <2>1
  <2>3. spc[n] \in {"reauth", "closed"}
    BY <2>2 DEF MasterAsked, Gone, IsRequest, FitsRequest
  <2>4. spc[n] = "reauth" => m.vals.SERVER_ID = cctx.peer
    BY <2>2 DEF IsRequest, FitsRequest, KnowsFile, MyId
  <2> DEFINE reply(key) == Apdu("DATA_CNF", [AKH |-> key], {})
  <2>5. \A key : Has(reply(key), "AKH") /\ reply(key).vals.AKH = key
    BY DEF Has, Apdu
  <2> HIDE DEF reply
  <2>6. CASE m.vals.SERVER_ID = cctx.peer
    <3>1. \E sess : ClientStep(n, "sac_req", sess, reply(cctx.auth))
      BY <2>1, <2>6 DEF reply
    <3> QED
      BY <1>0, <2>2, <2>3, <2>5, <3>1, ClientMoveKept
  <2>7. CASE m.vals.SERVER_ID # cctx.peer
    <3>1. ClientGivesUp(n) /\ spc[n] = "closed"
      BY <2>1, <2>3, <2>4, <2>7
    <3>2. cpc'[n] = "failed" /\ Range(toClient'[n]) = {} /\ spc'[n] = "closed"
      BY <1>0, <3>1, EmptyQueue
      DEF ClientGivesUp, Types, ClientTypes, Queues, QueueShapes
    <3> QED
      BY <3>2 DEF ClientKept, KnowsPeer, Saves, NoOther
  <2> QED
    BY <2>6, <2>7
<1>3. CASE ClientCannotReauthenticate(n)
  BY <1>3, <1>f DEF ClientCannotReauthenticate
<1>4. CASE ClientVerifies(n)
  <2>1. PICK m \in Incoming(toClient[n]) : ClientVerifies(n)!(m)
    BY <1>4 DEF ClientVerifies
  <2> DEFINE sess == [old EXCEPT !.peer = m.vals.CERTS.id]
             vals == [DHPH |-> n, CERTS |-> Chain(identity, ClientId)]
             frame == Apdu("DATA_CNF", vals, {})
  <2>2. /\ m.tag # "GARBLED" /\ cpc[n] = "first_req" /\ toClient[n] # <<>>
        /\ spc[n] # "closed" => MasterAsked(spc[n], "first_req") /\ IsRequest(n, m)
        /\ Has(m, "CERTS") /\ m \in Range(toClient[n])
    BY <1>r, <1>w, <2>1
  <2>3. spc[n] \in {"certs", "closed"}
    BY <2>2 DEF MasterAsked, Gone, IsRequest, FitsRequest
  <2>4. ClientFails(n) \/ ClientStep(n, "dhpm", sess, frame)
    BY <2>1
  <2>5. sess.peer = MyId(n)
    <3>1. IsSession(old)
      BY DEF Types, ClientTypes, SessionShapes
    <3>2. sess.peer = m.vals.CERTS.id
      BY <3>1, PeerSet
    <3> QED
      BY <2>2, <3>2 DEF KnowsPeer
  <2> HIDE DEF sess, frame
  <2> QED
    BY <1>0, <1>f, <2>2, <2>3, <2>4, <2>5, ClientMoveKept
<1>5. CASE ClientAgrees(n)
  <2>1. PICK m \in Incoming(toClient[n]) : ClientAgrees(n)!(m)
    BY <1>5 DEF ClientAgrees
  <2> DEFINE dhsk == Dhsk(n, m.vals.DHPM, ClientId, old.peer)
             auth == AuthKey(dhsk, ClientId, old.peer)
             sess == [old EXCEPT !.dhsk = dhsk, !.auth = auth]
             frame == Apdu("DATA_CNF", [RH |-> Rh(dhsk, ClientId)], {})
  <2>2. /\ m.tag # "GARBLED" /\ cpc[n] = "dhpm" /\ toClient[n] # <<>>
        /\ spc[n] # "closed" => MasterAsked(spc[n], "dhpm")
    BY <1>r, <1>w, <2>1
  <2>3. spc[n] \notin {"akh", "reauth"}
    BY <2>2 DEF MasterAsked, Gone
  <2>4. ClientFails(n) \/ ClientStep(n, "akh_req", sess, frame)
    BY <2>1
  <2> HIDE DEF dhsk, auth
  <2>5. sess.peer = MyId(n)
    <3>1. IsSession(old) /\ old.peer = MyId(n)
      BY <2>2 DEF Types, ClientTypes, SessionShapes, KnowsPeer
    <3>2. \A v, w : [old EXCEPT !.dhsk = v, !.auth = w].peer = old.peer
      BY <3>1 DEF IsSession, Fields
    <3> QED
      BY <3>1, <3>2
  <2> HIDE DEF sess, frame
  <2> QED
    BY <1>0, <1>f, <2>2, <2>3, <2>4, <2>5, ClientMoveKept
<1>6. CASE ClientSendsAkh(n)
  <2>1. PICK m \in Incoming(toClient[n]) : ClientSendsAkh(n)!(m)
    BY <1>6 DEF ClientSendsAkh
  <2> DEFINE frame == Apdu("DATA_CNF", [AKH |-> old.auth], {})
  <2>2. /\ cpc[n] = "akh_req" /\ toClient[n] # <<>>
        /\ spc[n] # "closed" => MasterAsked(spc[n], "akh_req")
    BY <1>r, <1>w, <2>1
  <2>3. spc[n] # "reauth"
    BY <2>2 DEF MasterAsked, Gone
  <2>4. ClientFails(n) \/ ClientStep(n, "save", old, frame)
    BY <2>1
  <2>5. frame.vals.AKH = old.auth
    BY DEF Apdu
  <2>6. old.peer = MyId(n)
    BY <2>2 DEF KnowsPeer
  <2> HIDE DEF frame
  <2> QED
    BY <1>0, <1>f, <2>2, <2>3, <2>4, <2>5, <2>6, ClientMoveKept
<1>7. CASE ClientInitsSac(n)
  <2>1. PICK m \in Incoming(toClient[n]) : ClientInitsSac(n)!(m)
    BY <1>7 DEF ClientInitsSac
  <2>2. ClientFails(n) \/ \E sess, frame : ClientStep(n, "sac_sync", sess, frame)
    BY <2>1
  <2> QED
    BY <1>f, <1>s, <2>1, <2>2
<1>8. CASE ClientSyncsSac(n)
  <2>1. PICK m \in Incoming(toClient[n]) : ClientSyncsSac(n)!(m)
    BY <1>8 DEF ClientSyncsSac
  <2>2. \E frame : ClientStep(n, "ck_req", old, frame)
    BY <2>1
  <2> QED
    BY <1>s, <2>1, <2>2
<1>9. CASE ClientUpdatesKey(n)
  <2>1. PICK m \in Incoming(toClient[n]) : ClientUpdatesKey(n)!(m)
    BY <1>9 DEF ClientUpdatesKey
  <2>2. ClientFails(n) \/ \E sess, frame : ClientStep(n, "ck_sync", sess, frame)
    BY <2>1
  <2> QED
    BY <1>f, <1>s, <2>1, <2>2
<1>10. CASE ClientSyncsKey(n)
  <2>1. PICK m \in Incoming(toClient[n]) : ClientSyncsKey(n)!(m)
    BY <1>10 DEF ClientSyncsKey
  <2>2. ClientFails(n) \/ \E sess, frame : ClientStep(n, "ready", sess, frame)
    BY <2>1
  <2> QED
    BY <1>f, <1>s, <2>1, <2>2
<1>11. CASE ClientRecvFails(n)
  BY <1>11, <1>f DEF ClientRecvFails
<1> QED
  BY <1>1, <1>2, <1>3, <1>4, <1>5, <1>6, <1>7, <1>8, <1>9, <1>10, <1>11
  DEF ClientHandshake

(* A step of the slave's end *)
ServerKept(n) ==
    /\ KnowsPeer(n)'
    /\ \A key :
          /\ Saves(n, key)' => Saves(n, key)
          /\ NoOther(n, key) /\ HasSaved(target[n], key) => NoOther(n, key)'

LEMMA ServerStepKept ==
    ASSUME Types, NEW n \in Conns, UNCHANGED <<cpc, csess, target>>, KnowsPeer(n),
           toClient[n] = <<>>, Taken(toServer, n)[n] = <<>>,
           NEW pc, NEW sess, NEW frame, ServerStep(n, pc, sess, frame),
           pc # "save", Has(frame, "CERTS") => frame.vals.CERTS.id = MyId(n),
           \A key : NoOther(n, key) /\ HasSaved(target[n], key) =>
              ~Has(frame, "CERTS") /\ (pc = "reauth" => sess.auth = key)
    PROVE  ServerKept(n)
<1>1. /\ spc'[n] = pc /\ ssess'[n] = sess /\ toServer'[n] = <<>>
      /\ toClient' = Sent(toClient, n, frame)
  BY SlaveGoesOn DEF ServerStep
<1>2. Range(toServer'[n]) = {} /\ Range(toClient'[n]) = {frame}
  <2>1. toClient'[n] = <<frame>>
    BY <1>1, LoneSent DEF Types, Queues
  <2> QED
    BY <1>1, <2>1, OneFrame, EmptyQueue
<1>3. MyId(n)' = MyId(n)
  BY DEF MyId
<1>4. KnowsPeer(n)'
  BY <1>2, <1>3 DEF KnowsPeer
<1>5. ASSUME NEW key
      PROVE  /\ Saves(n, key)' => Saves(n, key)
             /\ NoOther(n, key) /\ HasSaved(target[n], key) => NoOther(n, key)'
  BY <1>1, <1>2 DEF Saves, NoOther
<1> QED
  BY <1>4, <1>5 DEF ServerKept

LEMMA ServerGoneKept ==
    ASSUME Types, NEW n \in Conns, n \in Opened, UNCHANGED <<cpc, csess, target>>, KnowsPeer(n),
           ServerCloses(n) \/ ServerRaises(n)
    PROVE  ServerKept(n)
<1>1. spc'[n] = "closed" /\ toClient' = toClient
  BY DEF ServerCloses, ServerRaises, SlaveEnds, Types, ServerTypes
<1>2. MyId(n)' = MyId(n)
  BY DEF MyId
<1> QED
  BY <1>1, <1>2 DEF ServerKept, KnowsPeer, Saves, NoOther

LEMMA PlainQuestions ==
    ASSUME NEW n
    PROVE  /\ Has(CertificateRequest(n), "CERTS")
           /\ CertificateRequest(n).vals.CERTS.id = MyId(n)
           /\ ~Has(SacRequest(n), "CERTS")
           /\ ~Has(Apdu("DATA_REQ", [SERVER_ID |-> MyId(n)], {"AKH"}), "CERTS")
<1>1. /\ Has(CertificateRequest(n), "CERTS")
      /\ CertificateRequest(n).vals.CERTS.id = MyId(n)
  <2> DEFINE certs == Chain(ssess[n].identity, MyId(n))
  <2>1. CertificateRequest(n).vals = [CERTS |-> certs]
    BY DEF CertificateRequest, Apdu
  <2>2. certs.id = MyId(n)
    BY DEF Chain
  <2> HIDE DEF certs
  <2> QED
    BY <2>1, <2>2 DEF Has
<1>2. /\ ~Has(SacRequest(n), "CERTS")
      /\ ~Has(Apdu("DATA_REQ", [SERVER_ID |-> MyId(n)], {"AKH"}), "CERTS")
  BY DEF Has, SacRequest, Apdu
<1> QED
  BY <1>1, <1>2

(* What the slave's end has read of the last that came *)
LEMMA SlaveHasRead ==
    ASSUME Types, NEW n \in Conns, Conversation(n), NEW pc \in DOMAIN ServerWants,
           NEW m \in Incoming(toServer[n]), ServerGets(n, pc, m)
    PROVE  /\ m \in Range(toServer[n]) /\ m.tag # "GARBLED" /\ spc[n] = pc
           /\ toClient[n] = <<>> /\ Taken(toServer, n)[n] = <<>>
BY SlaveReads, Received, QueueTaken DEF Types, Queues

LEMMA ServerHandshakeKept ==
    ASSUME Types, NEW n \in Conns, n \in Opened, Conversation(n),
           ServerHandshake(n), KnowsPeer(n), ~ServerSaves(n)
    PROVE  ServerKept(n)
<1> DEFINE old == ssess[n]
<1>0. UNCHANGED <<cpc, csess, target>>
  BY DEF ServerHandshake, client
<1>c. ServerCloses(n) \/ ServerRaises(n) => ServerKept(n)
  BY <1>0, ServerGoneKept
<1>w. DOMAIN ServerWants = {"open_cnf", "reauth", "certs", "rh", "akh", "sac_cnf",
                            "sac_sync", "ck_cnf", "ck_sync"}
  BY DEF ServerWants
<1>s. ASSUME NEW m \in Incoming(toServer[n]), NEW pc \in DOMAIN ServerWants,
             ServerGets(n, pc, m), NEW frame, ~Has(frame, "CERTS"), NEW sess,
             NEW next \in {"rh", "akh", "sac_cnf", "sac_sync", "ck_cnf", "ck_sync"},
             ServerStep(n, next, sess, frame)
      PROVE  ServerKept(n)
  BY <1>0, <1>s, SlaveHasRead, ServerStepKept
<1>1. CASE ServerOpens(n)
  <2>1. PICK m \in Incoming(toServer[n]) : ServerOpens(n)!(m)
    BY <1>1 DEF ServerOpens
  <2>2. toClient[n] = <<>> /\ Taken(toServer, n)[n] = <<>>
    BY <1>w, <2>1, SlaveHasRead
  <2> DEFINE ctx == sctx[target[n]]
             open == Apdu("DATA_REQ", [SERVER_ID |-> MyId(n)], {"AKH"})
             certs == CertificateRequest(n)
             sess == Loaded(old, ctx)
  <2>3. \/ ServerCloses(n) \/ ServerRaises(n)
        \/ ctx.file = "saved" /\ ServerStep(n, "reauth", sess, open)
        \/ ctx.file = "absent" /\ ServerStep(n, "certs", old, certs)
    BY <2>1
  <2>4. CASE ctx.file = "saved" /\ ServerStep(n, "reauth", sess, open)
    <3>1. sess.auth = ctx.auth
      <4>1. IsSession(old)
        BY DEF Types, ServerTypes, SessionShapes
      <4> QED
        BY <4>1, ContextLoaded
    <3>2. ~Has(open, "CERTS")
      BY PlainQuestions
    <3> HIDE DEF sess, open
    <3>3. \A key : HasSaved(target[n], key) => sess.auth = key
      BY <3>1 DEF HasSaved
    <3> HIDE DEF ctx
    <3> QED
      BY <1>0, <2>2, <2>4, <3>2, <3>3, ServerStepKept
  <2>5. CASE ctx.file = "absent" /\ ServerStep(n, "certs", old, certs)
    <3>1. certs.vals.CERTS.id = MyId(n)
      BY PlainQuestions
    <3>2. \A key : ~HasSaved(target[n], key)
      BY <2>5 DEF HasSaved
    <3> HIDE DEF certs, ctx
    <3> QED
      BY <1>0, <2>2, <2>5, <3>1, <3>2, ServerStepKept
  <2> QED
    BY <1>c, <2>3, <2>4, <2>5
<1>2. CASE ServerReauthenticates(n)
  <2>1. PICK m \in Incoming(toServer[n]) : ServerReauthenticates(n)!(m)
    BY <1>2 DEF ServerReauthenticates
  <2>2. /\ m \in Range(toServer[n]) /\ m.tag # "GARBLED" /\ spc[n] = "reauth"
        /\ toClient[n] = <<>> /\ Taken(toServer, n)[n] = <<>>
    BY <1>w, <2>1, SlaveHasRead
  <2> DEFINE certs == CertificateRequest(n)
             sac == SacRequest(n)
             Right == Has(m, "AKH") /\ m.vals.AKH = old.auth
  <2>3. \/ ServerStep(n, "sac_cnf", old, sac)
        \/ ~Right /\ ServerStep(n, "certs", old, certs)
    BY <2>1
  <2>4. CASE ServerStep(n, "sac_cnf", old, sac)
    BY <1>s, <1>w, <2>1, <2>4, PlainQuestions
  <2>5. CASE ~Right /\ ServerStep(n, "certs", old, certs)
    <3>1. certs.vals.CERTS.id = MyId(n)
      BY PlainQuestions
    <3>2. \A key : ~NoOther(n, key)
      BY <2>2, <2>5 DEF NoOther
    <3> HIDE DEF certs
    <3> QED
      BY <1>0, <2>2, <2>5, <3>1, <3>2, ServerStepKept
  <2> QED
    BY <2>3, <2>4, <2>5
<1>3. CASE ServerVerifies(n)
  <2>1. PICK m \in Incoming(toServer[n]) : ServerVerifies(n)!(m)
    BY <1>3 DEF ServerVerifies
  <2> DEFINE dhsk == Dhsk(m.vals.DHPH, n, m.vals.CERTS.id, MyId(n))
             frame == Apdu("DATA_REQ", [DHPM |-> n, RM |-> Rm(dhsk, MyId(n))], {"STATUS"})
  <2>2. ServerCloses(n) \/ ServerRaises(n) \/ \E sess : ServerStep(n, "rh", sess, frame)
    BY <2>1
  <2> HIDE DEF dhsk
  <2>3. ~Has(frame, "CERTS")
    BY DEF Has, Apdu
  <2> HIDE DEF frame
  <2> QED
    BY <1>c, <1>s, <1>w, <2>1, <2>2, <2>3
<1>4. CASE ServerAgrees(n)
  <2>1. PICK m \in Incoming(toServer[n]) : ServerAgrees(n)!(m)
    BY <1>4 DEF ServerAgrees
  <2> DEFINE frame == Apdu("DATA_REQ", NoValues, {"AKH"})
  <2>2. ServerCloses(n) \/ ServerRaises(n) \/ \E sess : ServerStep(n, "akh", sess, frame)
    BY <2>1
  <2>3. ~Has(frame, "CERTS")
    BY PlainFrames
  <2> HIDE DEF frame
  <2> QED
    BY <1>c, <1>s, <1>w, <2>1, <2>2, <2>3
<1>5. CASE ServerChecksAkh(n)
  <2>1. PICK m \in Incoming(toServer[n]) : ServerChecksAkh(n)!(m)
    BY <1>5 DEF ServerChecksAkh
  <2>2. CASE Has(m, "AKH") /\ m.vals.AKH = old.auth
    <3>1. m \in Range(toServer[n]) /\ spc[n] = "akh"
      BY <1>w, <2>1, SlaveHasRead
    <3>2. spc'[n] = "save" /\ ssess'[n] = old /\ toClient' = toClient
      BY <2>1, <2>2, SlaveGoesOn
    <3>3. MyId(n)' = MyId(n)
      BY <1>0 DEF MyId
    <3> QED
      BY <1>0, <2>2, <3>1, <3>2, <3>3 DEF ServerKept, KnowsPeer, Saves, NoOther
  <2>3. CASE ~(Has(m, "AKH") /\ m.vals.AKH = old.auth)
    BY <1>c, <2>1, <2>3
  <2> QED
    BY <2>2, <2>3
<1>6. CASE ServerInitsSac(n)
  <2>1. PICK m \in Incoming(toServer[n]) : ServerInitsSac(n)!(m)
    BY <1>6 DEF ServerInitsSac
  <2> DEFINE frame == Apdu("SYNC_REQ", NoValues, {})
  <2>2. ServerCloses(n) \/ \E sess : ServerStep(n, "sac_sync", sess, frame)
    BY <2>1
  <2>3. ~Has(frame, "CERTS")
    BY PlainFrames
  <2> HIDE DEF frame
  <2> QED
    BY <1>c, <1>s, <1>w, <2>1, <2>2, <2>3
<1>7. CASE ServerSyncsSac(n)
  <2>1. PICK m \in Incoming(toServer[n]) : ServerSyncsSac(n)!(m)
    BY <1>7 DEF ServerSyncsSac
  <2> DEFINE frame == SacApdu("SAC_DATA_REQ", old.sac, [SERVER_ID |-> MyId(n), KP |-> n],
                              {"CLIENT_ID", "STATUS"})
  <2>2. ServerCloses(n) \/ \E sess : ServerStep(n, "ck_cnf", sess, frame)
    BY <2>1
  <2>3. ~Has(frame, "CERTS")
    BY DEF Has, SacApdu
  <2> HIDE DEF frame
  <2> QED
    BY <1>c, <1>s, <1>w, <2>1, <2>2, <2>3
<1>8. CASE ServerUpdatesKey(n)
  <2>1. PICK m \in Incoming(toServer[n]) : ServerUpdatesKey(n)!(m)
    BY <1>8 DEF ServerUpdatesKey
  <2> DEFINE frame == SacApdu("SAC_SYNC_REQ", Unpacked(old.sac), NoValues, {})
  <2>2. ServerCloses(n) \/ ServerRaises(n) \/ \E sess : ServerStep(n, "ck_sync", sess, frame)
    BY <2>1
  <2>3. ~Has(frame, "CERTS")
    BY DEF Has, SacApdu, NoValues
  <2> HIDE DEF frame
  <2> QED
    BY <1>c, <1>s, <1>w, <2>1, <2>2, <2>3
<1>9. CASE ServerSyncsKey(n)
  <2>1. PICK m \in Incoming(toServer[n]) : ServerSyncsKey(n)!(m)
    BY <1>9 DEF ServerSyncsKey
  <2>2. \/ ServerCloses(n) \/ ServerRaises(n)
        \/ (\E sess : ServerGoesOn(n, "ready", sess)) /\ toClient' = toClient
    BY <2>1
  <2>3. CASE (\E sess : ServerGoesOn(n, "ready", sess)) /\ toClient' = toClient
    <3>1. spc'[n] = "ready" /\ toClient' = toClient
      BY <2>3, SlaveGoesOn
    <3>2. MyId(n)' = MyId(n)
      BY <1>0 DEF MyId
    <3> QED
      BY <1>0, <3>1, <3>2 DEF ServerKept, KnowsPeer, Saves, NoOther
  <2> QED
    BY <1>c, <2>2, <2>3
<1>10. CASE ServerRecvFails(n)
  BY <1>c, <1>10 DEF ServerRecvFails
<1> QED
  BY <1>1, <1>2, <1>3, <1>4, <1>5, <1>6, <1>7, <1>8, <1>9, <1>10 DEF ServerHandshake

(* The files a step may write *)
LEMMA FilesOfStep ==
    ASSUME MasterFileSafe, [Next]_vars
    PROVE  /\ UNCHANGED cctx \/ \E n \in Opened : ClientSaves(n)
           /\ \/ \A s \in Slaves : \A key : HasSaved(s, key)' => HasSaved(s, key)
              \/ \E n \in Opened : ServerHandshake(n) /\ ServerSaves(n)
<1>1. ASSUME NEW n \in Opened, ServerHandshake(n), ~ServerSaves(n)
      PROVE  UNCHANGED <<cctx, sctx>>
  BY <1>1
  DEF ServerHandshake, ServerOpens, ServerReauthenticates, ServerVerifies, ServerAgrees,
      ServerChecksAkh, ServerInitsSac, ServerSyncsSac, ServerUpdatesKey, ServerSyncsKey,
      ServerRecvFails, client
<1>2. ASSUME NEW n \in Opened, ServerHandshake(n)
      PROVE  UNCHANGED cctx
  BY <1>2 DEF ServerHandshake, client
<1>3. ASSUME NEW s \in Slaves, CrashSlave(s) \/ AcceptRaises(s)
      PROVE  /\ UNCHANGED cctx
             /\ sctx' = sctx \/ sctx' = [sctx EXCEPT ![s] = TornContext]
  BY <1>3 DEF CrashSlave, AcceptRaises, client
<1>4. ASSUME DeleteState
      PROVE  /\ UNCHANGED cctx
             /\ \E s \in Slaves : sctx' = [sctx EXCEPT ![s] = NoContext]
  BY <1>4 DEF DeleteState, Incident, MasterFileSafe
<1>5. ASSUME RestartMaster
      PROVE  UNCHANGED <<cctx, sctx>>
  BY <1>5 DEF RestartMaster, Incident, MasterFileSafe, server
<1>6. ASSUME NEW n \in Opened, ClientSaves(n)
      PROVE  UNCHANGED sctx
  BY <1>6 DEF ClientSaves, server
<1>7. \/ UNCHANGED <<cctx, sctx>>
      \/ \E n \in Opened : ClientSaves(n) \/ ServerHandshake(n)
      \/ (\E s \in Slaves : CrashSlave(s) \/ AcceptRaises(s)) \/ DeleteState
  BY <1>5
  DEF Next, MasterNext, SlaveNext, IncidentNext, Connect, ClientHandshake, ClientTimeout,
      ReleaseSocket, Close, Accept, RestartSlave, LineNoise, SlowAnswer,
      RegeneratePki, WritePki, StartMaster,
      vars, client, server
<1>8. ASSUME NEW s, NEW file \in {NoContext, TornContext},
             sctx' = [sctx EXCEPT ![s] = file]
      PROVE  \A t \in Slaves : \A key : HasSaved(t, key)' => HasSaved(t, key)
  <2>1. file.file # "saved"
    BY ContextFiles
  <2> QED
    BY <1>8, <2>1 DEF HasSaved
<1>9. UNCHANGED sctx => \A s \in Slaves : \A key : HasSaved(s, key)' => HasSaved(s, key)
  BY DEF HasSaved
<1> QED
  BY <1>1, <1>2, <1>3, <1>4, <1>6, <1>7, <1>8, <1>9

LEMMA SavingKept ==
    ASSUME SavingHeld, \A key : Holds(key) => Holds(key)', \A i \in Conns : NothingNew(i)
    PROVE  SavingHeld'
<1> SUFFICES ASSUME NEW i \in Conns, NEW key, Saves(i, key)'
             PROVE  Holds(key)'
  BY DEF SavingHeld
<1>1. Saves(i, key)
  BY DEF NothingNew
<1> QED
  BY <1>1 DEF SavingHeld

LEMMA SavedKept ==
    ASSUME SavedHeld, \A key : Holds(key) => Holds(key)', \A i \in Conns : NothingNew(i),
           \A s \in Slaves : \A key : HasSaved(s, key)' => HasSaved(s, key)
    PROVE  SavedHeld'
<1> SUFFICES ASSUME NEW s \in Slaves, NEW key, HasSaved(s, key)'
             PROVE  Holds(key)' /\ \A i \in Conns : NoOther(i, key)'
  BY DEF SavedHeld
<1>1. Holds(key) /\ \A i \in Conns : NoOther(i, key)
  BY DEF SavedHeld
<1>2. \A i \in Conns : NoOther(i, key)'
  BY <1>1 DEF NothingNew
<1> QED
  BY <1>1, <1>2

(* A key the master holds it keeps, as long as it writes no file and none    *)
(* comes to hold another                                                    *)
LEMMA HoldsKept ==
    ASSUME UNCHANGED cctx, Opened \subseteq Opened',
           \A n \in Opened : cpc[n] = "save" => cpc'[n] = "save" /\ csess'[n] = csess[n],
           \A n \in Opened' : cpc'[n] = "save" => n \in Opened /\ cpc[n] = "save",
           NEW key, Holds(key)
    PROVE  Holds(key)'
BY DEF Holds

ContextParts ==
    /\ OneSlave /\ MasterFileSafe /\ TypeOK /\ Types /\ Files
    /\ Opened \subseteq Conns
    /\ \A i \in Conns : Agreed(i) /\ Conversation(i)
    /\ ContextInvariant

LEMMA ClientHandshakeInStep ==
    ASSUME ContextParts, [Next]_vars, NEW n \in Opened, ClientHandshake(n)
    PROVE  ContextInvariant'
<1> USE DEF ContextParts, ContextInvariant
<1>0. n \in Conns /\ target[n] \in Slaves
  BY TargetIsSlave
<1>1. UNCHANGED <<cctx, sctx, target, spc>> /\ Opened' = Opened
  BY DEF ClientHandshake, server, Opened
<1>2. ClientKept(n)
  BY <1>0, ClientHandshakeKept
<1>3. ASSUME NEW i \in Conns, i # n
      PROVE  /\ KnowsPeer(i)' /\ NothingNew(i)
             /\ cpc'[i] = cpc[i] /\ csess'[i] = csess[i]
  <2>1. Bystands(i)
    BY <1>0, <1>3, OthersBystand
  <2>2. cpc'[i] = cpc[i] /\ csess'[i] = csess[i]
    BY <1>0, <1>3, ClientHandshakeElsewhere
  <2> QED
    BY <2>1, <2>2, BystanderKept
<1>4. cpc[n] \notin Gone \cup {"save"}
  BY EndsBusy DEF ClientWants, Gone
<1>5. \A i \in Opened : cpc[i] # "save"
  BY <1>4, NoThird DEF Gone
<1>6. InOrder' /\ KnowsFile' /\ \A i \in Conns : KnowsPeer(i)'
  BY <1>1, <1>2, <1>3, OrderStep DEF KnowsFile, ClientKept
<1>7. \A s \in Slaves : \A key : HasSaved(s, key)' => HasSaved(s, key)
  BY <1>1 DEF HasSaved
<1>8. CASE cpc'[n] # "save"
  <2>1. \A key : Holds(key) => Holds(key)'
    BY <1>1, <1>3, <1>5, <1>8, HoldsKept
  <2>2. SavingHeld'
    BY <1>2, <1>3, <1>8, <2>1 DEF SavingHeld, ClientKept, NothingNew
  <2>3. ASSUME NEW s \in Slaves, NEW key, HasSaved(s, key)'
        PROVE  Holds(key)' /\ \A i \in Conns : NoOther(i, key)'
    <3>1. Holds(key) /\ \A i \in Conns : NoOther(i, key)
      BY <1>7, <2>3 DEF SavedHeld
    <3>2. cctx.auth = key
      BY <1>5, <3>1 DEF Holds
    <3> QED
      BY <1>2, <1>3, <2>1, <3>1, <3>2 DEF ClientKept, NothingNew
  <2>4. SavedHeld'
    BY <2>3 DEF SavedHeld
  <2> QED
    BY <1>6, <2>2, <2>4
<1>9. CASE cpc'[n] = "save"
  <2>1. cpc[n] = "akh_req" /\ toClient[n] # <<>>
    BY <1>2, <1>9 DEF ClientKept
  <2>2. \A s \in Slaves : \A key : ~HasSaved(s, key)
    BY <1>0, <2>1 DEF SavedHeld, NoOther
  <2>3. SavedHeld'
    BY <1>7, <2>2 DEF SavedHeld
  <2>4. spc[n] # "none" /\ spc[n] # "save" /\ (spc[n] = "akh" => Range(toServer[n]) = {})
    BY <1>0, <2>1, EmptyQueue DEF Conversation, ServerAlive
  <2>5. \A key : ~Saves(n, key)
    BY <2>4 DEF Saves
  <2>6. ASSUME NEW i \in Conns, i # n, NEW key
        PROVE  ~Saves(i, key)
    <3>1. spc[i] \in {"none", "closed"}
      BY <1>4, <2>4, <2>6, NoThird DEF Agreed, Untouched, Gone
    <3> QED
      BY <3>1 DEF Saves
  <2>7. ASSUME NEW key, csess'[n].auth = key
        PROVE  Holds(key)'
    BY <1>1, <1>9, <2>7 DEF Holds
  <2>8. SavingHeld'
    BY <1>2, <1>3, <2>5, <2>6, <2>7 DEF SavingHeld, ClientKept, NothingNew
  <2> QED
    BY <1>6, <2>3, <2>8
<1> QED
  BY <1>8, <1>9

LEMMA ClientSavesInStep ==
    ASSUME ContextParts, [Next]_vars, NEW n \in Opened, ClientSaves(n)
    PROVE  ContextInvariant'
<1> USE DEF ContextParts, ContextInvariant
<1>0. n \in Conns /\ target[n] \in Slaves
  BY TargetIsSlave
<1>1. /\ cctx' = ContextOf(csess[n]) /\ cpc[n] = "save" /\ cpc' = [cpc EXCEPT ![n] = "sac_req"]
      /\ UNCHANGED <<csess, spc, ssess, sctx, toClient, toServer, target>>
      /\ Opened' = Opened
  BY DEF ClientSaves, server, link, Opened
<1>2. cpc'[n] = "sac_req" /\ \A i \in Conns : i # n => cpc'[i] = cpc[i]
  BY <1>0, <1>1 DEF Types, ClientTypes
<1>3. cctx'.peer = csess[n].peer /\ cctx'.auth = csess[n].auth /\ cctx'.file = "saved"
  BY <1>1 DEF ContextOf
<1>4. KnowsFile'
  <2>1. csess[n].peer = SlaveId[target[n]]
    BY <1>0, <1>1 DEF KnowsPeer, MyId
  <2> QED
    BY <1>0, <1>3, <2>1 DEF KnowsFile, OneSlave
<1>5. ASSUME NEW i \in Conns
      PROVE  KnowsPeer(i)' /\ NothingNew(i)
  <2>1. CASE i # n
    BY <1>1, <1>2, <2>1, StaysPut, BystanderKept
  <2>2. CASE i = n
    <3>1. MyId(n)' = MyId(n) /\ KnowsPeer(n)
      BY <1>0, <1>1 DEF MyId
    <3>2. KnowsPeer(n)'
      BY <1>1, <1>2, <3>1 DEF KnowsPeer
    <3> QED
      BY <1>1, <1>2, <2>2, <3>2 DEF Saves, NoOther, Gone, NothingNew
  <2> QED
    BY <2>1, <2>2
<1>6. \A i \in Opened : i # n => cpc[i] # "save"
  BY <1>1, NoThird
<1>7. ASSUME NEW key, Holds(key)
      PROVE  Holds(key)'
  <2>1. csess[n].auth = key
    BY <1>1, <1>6, <1>7 DEF Holds
  <2>2. \A i \in Opened' : cpc'[i] # "save"
    BY <1>1, <1>2, <1>6
  <2> QED
    BY <1>3, <2>1, <2>2 DEF Holds
<1>8. SavingHeld'
  BY <1>5, <1>7, SavingKept
<1>9. \A s \in Slaves : \A key : HasSaved(s, key)' => HasSaved(s, key)
  BY <1>1 DEF HasSaved
<1>10. SavedHeld'
  BY <1>5, <1>7, <1>9, SavedKept
<1> QED
  BY <1>4, <1>5, <1>8, <1>10, OrderStep

LEMMA ServerHandshakeInStep ==
    ASSUME ContextParts, [Next]_vars, NEW n \in Opened, ServerHandshake(n)
    PROVE  ContextInvariant'
<1> USE DEF ContextParts, ContextInvariant
<1>0. n \in Conns /\ target[n] \in Slaves
  BY TargetIsSlave
<1>1. UNCHANGED <<cctx, cpc, csess, target>> /\ Opened' = Opened
  BY DEF ServerHandshake, client, Opened
<1>2. \A key : Holds(key) => Holds(key)'
  BY <1>1, HoldsKept
<1>3. ASSUME NEW i \in Conns, i # n
      PROVE  KnowsPeer(i)' /\ NothingNew(i)
  BY <1>0, <1>3, OthersBystand, BystanderKept
<1>4. InOrder' /\ KnowsFile'
  BY <1>1, OrderStep DEF KnowsFile
<1>5. CASE ServerSaves(n)
  <2>1. /\ spc[n] = "save" /\ sctx' = [sctx EXCEPT ![target[n]] = ContextOf(ssess[n])]
        /\ spc' = [spc EXCEPT ![n] = "sac_cnf"] /\ toClient' = Sent(toClient, n, SacRequest(n))
        /\ UNCHANGED <<toServer, ssess>>
    BY <1>5 DEF ServerSaves
  <2>2. cpc[n] \in {"save", "sac_req"} \cup Gone /\ toClient[n] = <<>>
    BY <1>0, <2>1 DEF Conversation
  <2>3. spc'[n] = "sac_cnf" /\ \A i \in Conns : i # n => spc'[i] = spc[i]
    BY <1>0, <2>1 DEF Types, ServerTypes
  <2>4. toClient'[n] = <<SacRequest(n)>>
    BY <1>0, <2>1, <2>2, LoneSent DEF Types, Queues
  <2>5. Range(toClient'[n]) = {SacRequest(n)} /\ ~Has(SacRequest(n), "CERTS")
    BY <2>4, OneFrame, PlainQuestions
  <2>6. KnowsPeer(n)'
    <3>1. MyId(n)' = MyId(n) /\ KnowsPeer(n)
      BY <1>0, <1>1 DEF MyId
    <3> QED
      BY <1>1, <2>5, <3>1 DEF KnowsPeer
  <2>7. \A key : ~Saves(n, key)'
    BY <2>3 DEF Saves
  <2>8. ASSUME NEW i \in Conns, NEW key
        PROVE  NoOther(i, key)'
    <3>1. CASE i = n
      BY <1>1, <2>2, <2>3, <2>5, <3>1 DEF NoOther, Gone
    <3>2. CASE i # n
      <4>1. \/ spc[i] = "none"
            \/ spc[i] = "closed" /\ cpc[i] \in {"failed", "closed"}
        BY <2>1, <3>2, NoThird DEF ServerAlive, Agreed, Untouched
      <4>2. spc[i] = "none" => cpc[i] \in {"open_req"} \cup Gone /\ Range(toClient[i]) = {}
        BY EmptyQueue DEF Conversation
      <4>3. NoOther(i, key)
        BY <4>1, <4>2 DEF NoOther, Gone
      <4> QED
        BY <1>3, <3>2, <4>3 DEF NothingNew
    <3> QED
      BY <3>1, <3>2
  <2>9. SavingHeld'
    <3>1. \A i \in Conns : NothingNew(i)
      BY <1>3, <2>7, <2>8 DEF NothingNew
    <3> QED
      BY <1>2, <3>1, SavingKept
  <2>10. ASSUME NEW s \in Slaves, NEW key, HasSaved(s, key)'
         PROVE  Holds(key)'
    <3>1. s = target[n]
      BY <1>0 DEF OneSlave
    <3>2. sctx'[s] = ContextOf(ssess[n])
      BY <2>1, <3>1 DEF Files
    <3>3. ssess[n].auth = key
      BY <2>10, <3>2 DEF HasSaved, ContextOf
    <3> QED
      BY <1>0, <1>2, <2>1, <3>3 DEF SavingHeld, Saves
  <2>11. SavedHeld'
    BY <2>8, <2>10 DEF SavedHeld
  <2> QED
    BY <1>3, <1>4, <2>6, <2>9, <2>11
<1>6. CASE ~ServerSaves(n)
  <2>1. ServerKept(n)
    BY <1>0, <1>6, ServerHandshakeKept
  <2>2. SavingHeld'
    <3> SUFFICES ASSUME NEW i \in Conns, NEW key, Saves(i, key)'
                 PROVE  Holds(key)'
      BY DEF SavingHeld
    <3>1. Saves(i, key)
      BY <1>3, <2>1 DEF ServerKept, NothingNew
    <3> QED
      BY <1>2, <3>1 DEF SavingHeld
  <2>3. UNCHANGED sctx
    BY <1>6
    DEF ServerHandshake, ServerOpens, ServerReauthenticates, ServerVerifies, ServerAgrees,
        ServerChecksAkh, ServerInitsSac, ServerSyncsSac, ServerUpdatesKey, ServerSyncsKey,
        ServerRecvFails
  <2>4. ASSUME NEW s \in Slaves, NEW key, HasSaved(s, key)'
        PROVE  Holds(key)' /\ \A i \in Conns : NoOther(i, key)'
    <3>1. HasSaved(s, key) /\ s = target[n]
      BY <1>0, <2>3, <2>4 DEF HasSaved, OneSlave
    <3>2. Holds(key) /\ \A i \in Conns : NoOther(i, key)
      BY <3>1 DEF SavedHeld
    <3> QED
      BY <1>0, <1>2, <1>3, <2>1, <3>1, <3>2 DEF ServerKept, NothingNew
  <2>5. SavedHeld'
    BY <2>4 DEF SavedHeld
  <2> QED
    BY <1>3, <1>4, <2>1, <2>2, <2>5 DEF ServerKept
<1> QED
  BY <1>5, <1>6

LEMMA OtherStepsInStep ==
    ASSUME ContextParts, [Next]_vars, Opened' \subseteq Conns,
           \A n \in Conns : Bystands(n), UNCHANGED cctx,
           \A s \in Slaves : \A key : HasSaved(s, key)' => HasSaved(s, key)
    PROVE  ContextInvariant'
<1> USE DEF ContextParts, ContextInvariant
<1>1. \A i \in Conns : KnowsPeer(i)' /\ NothingNew(i)
  BY BystanderKept
<1>2. Opened \subseteq Opened'
  BY TargetsStay
<1>3. \A i \in Opened : cpc[i] = "save" => cpc'[i] = "save" /\ csess'[i] = csess[i]
  BY DEF Bystands
<1>4. \A i \in Conns : cpc'[i] = "save" => i \in Opened /\ cpc[i] = "save"
  BY DEF Bystands, Gone, Agreed, Untouched
<1>5. \A key : Holds(key) => Holds(key)'
  BY <1>2, <1>3, <1>4, HoldsKept
<1>6. SavingHeld'
  BY <1>1, <1>5, SavingKept
<1>7. SavedHeld'
  BY <1>1, <1>5, SavedKept
<1>8. KnowsFile'
  BY DEF KnowsFile
<1> QED
  BY <1>1, <1>6, <1>7, <1>8, OrderStep

LEMMA ContextStep ==
    ASSUME ContextParts, [Next]_vars, Opened' \subseteq Conns
    PROVE  ContextInvariant'
<1>1. ASSUME NEW n \in Opened, ClientHandshake(n) \/ ClientSaves(n) \/ ServerHandshake(n)
      PROVE  ContextInvariant'
  BY <1>1, ClientHandshakeInStep, ClientSavesInStep, ServerHandshakeInStep
<1>2. ASSUME \A n \in Opened : ~(ClientHandshake(n) \/ ClientSaves(n) \/ ServerHandshake(n))
      PROVE  ContextInvariant'
  <2>1. \A n \in Conns : Bystands(n)
    BY <1>2, StepOfConnection DEF ContextParts
  <2>2. UNCHANGED cctx /\ \A s \in Slaves : \A key : HasSaved(s, key)' => HasSaved(s, key)
    BY <1>2, FilesOfStep DEF ContextParts
  <2> QED
    BY <2>1, <2>2, OtherStepsInStep
<1> QED
  BY <1>1, <1>2

(* Where one slave is reached at the address, and no incident tears or       *)
(* deletes the master's file, the master can answer for what the slave has   *)
(* saved: the AKH leaves before save_context, but whatever stops the master   *)
(* cleanly, the slave, the line or a deleted slave file in between, the next *)
(* re-authentication is asked under a key the master has.                    *)
THEOREM ContextsStayInStep ==
    ASSUME OneSlave, MasterFileSafe
    PROVE  Spec => []ContextsInStep
<1>1. Init => ContextInvariant
  BY EmptyQueue, ContextFiles
  DEF Init, ContextInvariant, InOrder, KnowsFile, KnowsPeer, SavingHeld, SavedHeld, Saves,
      HasSaved, Opened, NewSession
<1>2. TypeOK => Opened \subseteq Conns
  BY OpenedIsConns
<1>3. TurnInvariant /\ ContextInvariant => ContextParts
  BY <1>2, InvariantTypes DEF TurnInvariant, ContextParts
<1>4. ContextParts /\ (Opened \subseteq Conns)' /\ [Next]_vars => ContextInvariant'
  BY ContextStep
<1>5. TurnInvariant => TypeOK
  BY InvariantTypes DEF TurnInvariant
<1>6. ContextInvariant => ContextsInStep
  BY DEF ContextInvariant, SavedHeld, HasSaved, Holds, ContextsInStep, InStep
<1> QED
  BY <1>1, <1>2, <1>3, <1>4, <1>5, <1>6, TakeTurns, PTL DEF Spec

-----------------------------------------------------------------------------
(* EccSession implements SecureChannel: every step of the two programs is a *)
(* step of SecureChannel, under the mapping of Promise, or changes nothing  *)
(* of what it says.                                                         *)

(* The state of SecureChannel, as Promise maps it *)
MasterState == [n \in Conns |-> EndState(cpc[n], csess[n].ck)]
SlaveState == [n \in Conns |-> EndState(spc[n], ssess[n].ck)]
MasterKey == [n \in Conns |-> csess[n].ck]
SlaveKey == [n \in Conns |-> ssess[n].ck]

LEMMA EndStates ==
    ASSUME NEW pc, NEW key
    PROVE  /\ pc \in {"failed", "closed"} => EndState(pc, key) = "over"
           /\ pc = "ready" => EndState(pc, key) = "ready"
           /\ pc \notin {"failed", "closed", "ready"} =>
                  EndState(pc, key) = IF key = NoKey THEN "opening" ELSE "keyed"
BY DEF EndState

-----------------------------------------------------------------------------
(* The steps of SecureChannel, from what happens to the ends *)

MasterOthers(n) == \A i \in Conns \ {n} : /\ MasterState'[i] = MasterState[i]
                                          /\ MasterKey'[i] = MasterKey[i]
SlaveOthers(n) == \A i \in Conns \ {n} : /\ SlaveState'[i] = SlaveState[i]
                                         /\ SlaveKey'[i] = SlaveKey[i]
MasterStays == UNCHANGED <<MasterState, MasterKey>>
SlaveStays == UNCHANGED <<SlaveState, SlaveKey>>
OnlyHeldAt(n, key) ==
    \A i \in Conns \ {n} : MasterKey[i] # key /\ SlaveKey[i] # key

LEMMA NothingPromised ==
    ASSUME MasterStays, SlaveStays
    PROVE  UNCHANGED Promise!vars
BY DEF MasterStays, SlaveStays, MasterState, SlaveState, MasterKey, SlaveKey,
       Promise!vars

LEMMA PromisedMasterInstalls ==
    ASSUME NEW n \in Conns, MasterOthers(n), SlaveStays,
           MasterState[n] = "opening", MasterState'[n] = "keyed",
           MasterKey'[n] # NoKey, OnlyHeldAt(n, MasterKey'[n])
    PROVE  Promise!MasterInstalls(n)
<1>1. MasterState' = [MasterState EXCEPT ![n] = "keyed"]
  BY DEF MasterOthers, MasterState
<1>2. MasterKey' = [MasterKey EXCEPT ![n] = MasterKey'[n]]
  BY DEF MasterOthers, MasterKey
<1>3. UNCHANGED <<SlaveState, SlaveKey>>
  BY DEF SlaveStays
<1>4. \A i \in Conns \ {n} : /\ MasterKey[i] # MasterKey'[n]
                              /\ SlaveKey[i] # MasterKey'[n]
  BY DEF OnlyHeldAt
<1>6. MasterState[n] = "opening" /\ MasterKey'[n] # NoKey
  OBVIOUS
<1> QED
  BY ONLY <1>1, <1>2, <1>3, <1>4, <1>6, n \in Conns
  DEF MasterState, SlaveState, MasterKey, SlaveKey, Promise!MasterInstalls,
      Promise!HeldElsewhere

LEMMA PromisedSlaveInstalls ==
    ASSUME NEW n \in Conns, SlaveOthers(n), MasterStays,
           SlaveState[n] = "opening", SlaveState'[n] = "keyed",
           SlaveKey'[n] # NoKey, OnlyHeldAt(n, SlaveKey'[n]),
           \/ MasterState[n] = "keyed" /\ SlaveKey'[n] = MasterKey[n]
           \/ MasterState[n] = "over"
    PROVE  Promise!SlaveInstalls(n)
<1>1. SlaveState' = [SlaveState EXCEPT ![n] = "keyed"]
  BY DEF SlaveOthers, SlaveState
<1>2. SlaveKey' = [SlaveKey EXCEPT ![n] = SlaveKey'[n]]
  BY DEF SlaveOthers, SlaveKey
<1>3. UNCHANGED <<MasterState, MasterKey>>
  BY DEF MasterStays
<1>4. \A i \in Conns \ {n} : /\ MasterKey[i] # SlaveKey'[n]
                              /\ SlaveKey[i] # SlaveKey'[n]
  BY DEF OnlyHeldAt
<1>5. \/ MasterState[n] = "keyed" /\ SlaveKey'[n] = MasterKey[n]
      \/ MasterState[n] = "over"
  OBVIOUS
<1>6. SlaveState[n] = "opening" /\ SlaveKey'[n] # NoKey
  OBVIOUS
<1> QED
  BY ONLY <1>1, <1>2, <1>3, <1>4, <1>5, <1>6, n \in Conns
  DEF MasterState, SlaveState, MasterKey, SlaveKey, Promise!SlaveInstalls,
      Promise!HeldElsewhere

LEMMA PromisedMasterServes ==
    ASSUME NEW n \in Conns, MasterOthers(n), SlaveStays,
           MasterState[n] = "keyed", MasterState'[n] = "ready",
           MasterKey'[n] = MasterKey[n], SlaveState[n] \in {"keyed", "over"}
    PROVE  Promise!MasterServes(n)
BY DEF MasterOthers, SlaveStays, MasterState, SlaveState, MasterKey, SlaveKey,
       Promise!MasterServes

LEMMA PromisedSlaveServes ==
    ASSUME NEW n \in Conns, SlaveOthers(n), MasterStays,
           SlaveState[n] = "keyed", SlaveState'[n] = "ready",
           SlaveKey'[n] = SlaveKey[n], MasterState[n] \in {"ready", "over"}
    PROVE  Promise!SlaveServes(n)
BY DEF SlaveOthers, MasterStays, MasterState, SlaveState, MasterKey, SlaveKey,
       Promise!SlaveServes

LEMMA PromisedMasterEnds ==
    ASSUME NEW E \in SUBSET Conns, SlaveStays,
           \A i \in E : MasterState'[i] = "over" /\ MasterKey'[i] = NoKey,
           \A i \in Conns \ E : /\ MasterState'[i] = MasterState[i]
                                /\ MasterKey'[i] = MasterKey[i]
    PROVE  Promise!MasterEnds
<1>1. MasterState' = [n \in Conns |-> IF n \in E THEN "over" ELSE MasterState[n]]
  BY DEF MasterState
<1>2. MasterKey' = [n \in Conns |-> IF n \in E THEN NoKey ELSE MasterKey[n]]
  BY DEF MasterKey
<1>3. UNCHANGED <<SlaveState, SlaveKey>>
  BY DEF SlaveStays
<1> QED
  BY ONLY <1>1, <1>2, <1>3, E \in SUBSET Conns
  DEF MasterState, SlaveState, MasterKey, SlaveKey, Promise!MasterEnds

LEMMA PromisedSlaveEnds ==
    ASSUME NEW E \in SUBSET Conns, MasterStays,
           \A i \in E : SlaveState'[i] = "over" /\ SlaveKey'[i] = NoKey,
           \A i \in Conns \ E : /\ SlaveState'[i] = SlaveState[i]
                                /\ SlaveKey'[i] = SlaveKey[i]
    PROVE  Promise!SlaveEnds
<1>1. SlaveState' = [n \in Conns |-> IF n \in E THEN "over" ELSE SlaveState[n]]
  BY DEF SlaveState
<1>2. SlaveKey' = [n \in Conns |-> IF n \in E THEN NoKey ELSE SlaveKey[n]]
  BY DEF SlaveKey
<1>3. UNCHANGED <<MasterState, MasterKey>>
  BY DEF MasterStays
<1> QED
  BY ONLY <1>1, <1>2, <1>3, E \in SUBSET Conns
  DEF MasterState, SlaveState, MasterKey, SlaveKey, Promise!SlaveEnds

(* What is to be shown of a step *)
Kept == [Promise!Next]_(Promise!vars)

LEMMA PromisedSteps ==
    /\ \A n \in Conns : /\ Promise!MasterInstalls(n) => Kept
                        /\ Promise!SlaveInstalls(n) => Kept
                        /\ Promise!MasterServes(n) => Kept
                        /\ Promise!SlaveServes(n) => Kept
    /\ Promise!MasterEnds => Kept
    /\ Promise!SlaveEnds => Kept
BY DEF Kept, Promise!Next
-----------------------------------------------------------------------------
(* The steps of the programs.  Before an end has been given a content key    *)
(* it is "opening"; the key it is given is of its connection alone.          *)

LEMMA InvariantParts ==
    ASSUME AgreementInvariant
    PROVE  /\ TypeOK /\ Types /\ Opened \subseteq Conns
           /\ \A n \in Conns : Agreed(n) /\ KeysHeld(n)
BY TypeInvariantParts, OpenedIsConns DEF AgreementInvariant, TypeInvariant

LEMMA ContentKeys ==
    /\ \A n, id : ContentKey(n, id) # NoKey
    /\ \A n, i, id, other : ContentKey(n, id) = ContentKey(i, other) => n = i
BY DEF ContentKey, NoKey

LEMMA KeysInUse ==
    ASSUME AgreementInvariant, NEW n \in Conns
    PROVE  /\ MasterKey[n] \in {NoKey, ContentKey(n, MyId(n))}
           /\ SlaveKey[n] \in {NoKey, ContentKey(n, MyId(n))}
BY InvariantParts DEF Agreed, ClientSide, ServerSide, KeysHeld, MasterKey, SlaveKey

LEMMA KeyOfItsOwn ==
    ASSUME AgreementInvariant, NEW n \in Conns, NEW id
    PROVE  OnlyHeldAt(n, ContentKey(n, id))
BY KeysInUse, ContentKeys DEF OnlyHeldAt

(* What Promise makes of the program counters *)
LEMMA MasterStates ==
    ASSUME AgreementInvariant, NEW n \in Conns
    PROVE  /\ cpc[n] \in {"failed", "closed"} => MasterState[n] = "over"
           /\ cpc[n] = "ready" => MasterState[n] = "ready"
           /\ cpc[n] = "ck_sync" => /\ MasterState[n] = "keyed"
                                    /\ MasterKey[n] = ContentKey(n, MyId(n))
           /\ cpc[n] \notin {"failed", "closed", "ready", "ck_sync"} =>
                  MasterState[n] = "opening" /\ MasterKey[n] = NoKey
<1>1. KeysHeld(n) /\ ClientSide(n) /\ csess[n].ck = MasterKey[n]
  BY InvariantParts DEF Agreed, MasterKey
<1>2. MasterState[n] = EndState(cpc[n], csess[n].ck)
  BY DEF MasterState
<1> QED
  BY <1>1, <1>2, EndStates, ContentKeys DEF KeysHeld, ClientSide

LEMMA SlaveStates ==
    ASSUME AgreementInvariant, NEW n \in Conns
    PROVE  /\ spc[n] = "closed" => SlaveState[n] = "over"
           /\ spc[n] = "ready" => SlaveState[n] = "ready"
           /\ spc[n] = "ck_sync" => /\ SlaveState[n] = "keyed"
                                    /\ SlaveKey[n] = ContentKey(n, MyId(n))
           /\ spc[n] \notin {"failed", "closed", "ready", "ck_sync"} =>
                  SlaveState[n] = "opening" /\ SlaveKey[n] = NoKey
<1>1. KeysHeld(n) /\ ServerSide(n) /\ ssess[n].ck = SlaveKey[n]
  BY InvariantParts DEF Agreed, SlaveKey
<1>2. SlaveState[n] = EndState(spc[n], ssess[n].ck)
  BY DEF SlaveState
<1> QED
  BY <1>1, <1>2, EndStates, ContentKeys DEF KeysHeld, ServerSide

(* An end that is left alone *)
LEMMA MasterLeftAlone ==
    /\ \A i \in Conns : cpc'[i] = cpc[i] /\ csess'[i].ck = csess[i].ck =>
           MasterState'[i] = MasterState[i] /\ MasterKey'[i] = MasterKey[i]
    /\ UNCHANGED <<cpc, csess>> => MasterStays
BY DEF MasterState, MasterKey, MasterStays

LEMMA SlaveLeftAlone ==
    /\ \A i \in Conns : spc'[i] = spc[i] /\ ssess'[i].ck = ssess[i].ck =>
           SlaveState'[i] = SlaveState[i] /\ SlaveKey'[i] = SlaveKey[i]
    /\ UNCHANGED <<spc, ssess>> => SlaveStays
BY DEF SlaveState, SlaveKey, SlaveStays

(* All the ends of a side left alone *)
LEMMA MasterStands ==
    ASSUME \A i \in Conns : /\ MasterState'[i] = MasterState[i]
                            /\ MasterKey'[i] = MasterKey[i]
    PROVE  MasterStays
BY DEF MasterStays, MasterState, MasterKey

LEMMA SlaveStands ==
    ASSUME \A i \in Conns : /\ SlaveState'[i] = SlaveState[i]
                            /\ SlaveKey'[i] = SlaveKey[i]
    PROVE  SlaveStays
BY DEF SlaveStays, SlaveState, SlaveKey

(* An end after a step *)
LEMMA MasterAfter ==
    ASSUME NEW n \in Conns
    PROVE  /\ MasterState'[n] = EndState(cpc'[n], csess'[n].ck)
           /\ MasterKey'[n] = csess'[n].ck
BY DEF MasterState, MasterKey

LEMMA SlaveAfter ==
    ASSUME NEW n \in Conns
    PROVE  /\ SlaveState'[n] = EndState(spc'[n], ssess'[n].ck)
           /\ SlaveKey'[n] = ssess'[n].ck
BY DEF SlaveState, SlaveKey

LEMMA ClientMovesKept ==
    ASSUME AgreementInvariant, NEW n \in Conns, NEW pc, NEW sess, NEW frame,
           ClientMoves(n, pc, sess, frame), UNCHANGED <<spc, ssess>>
    PROVE  Kept
<1>0. Types /\ Agreed(n) /\ KeysHeld(n)
  BY InvariantParts
<1>1. /\ cpc'[n] = pc /\ csess'[n] = sess
      /\ \A i \in Conns \ {n} : cpc'[i] = cpc[i] /\ csess'[i] = csess[i]
  BY <1>0 DEF ClientMoves, ClientStep, Types, ClientTypes, SessionShapes
<1>2. SlaveStays /\ MasterOthers(n)
  BY <1>1, SlaveLeftAlone, MasterLeftAlone DEF MasterOthers
<1>3. MasterState'[n] = EndState(pc, sess.ck) /\ MasterKey'[n] = sess.ck
  BY <1>1, MasterAfter
<1>4. Head(toClient[n]) \in Range(toClient[n])
  BY <1>0, QueueTaken DEF ClientMoves, Types, Queues
<1>5. sess.ck = csess[n].ck \/ pc = "ck_sync"
  BY DEF ClientMoves
<1>6. CASE pc = "ck_sync"
  <2>1. cpc[n] = "ck_req" /\ sess.ck = ContentKey(n, csess[n].peer)
    BY <1>0, <1>4, <1>6 DEF ClientMoves, Agreed, FramesToClient
  <2>2. MasterState[n] = "opening" /\ MasterState'[n] = "keyed"
    BY <1>3, <1>6, <2>1, MasterStates, EndStates, ContentKeys
  <2>3. MasterKey'[n] # NoKey /\ OnlyHeldAt(n, MasterKey'[n])
    BY <1>3, <2>1, ContentKeys, KeyOfItsOwn
  <2> QED
    BY <1>2, <2>2, <2>3, PromisedMasterInstalls, PromisedSteps
<1>7. CASE pc = "ready"
  <2>1. cpc[n] = "ck_sync" /\ Head(toClient[n]).tag = "SAC_SYNC_REQ"
    BY <1>7 DEF ClientMoves
  <2>2. spc[n] \in {"ck_sync", "closed"}
    BY <1>0, <1>4, <2>1 DEF KeysHeld, SlaveKeyed, Agreed, ServerSide
  <2>3. SlaveState[n] \in {"keyed", "over"}
    BY <2>2, SlaveStates
  <2>4. MasterState[n] = "keyed" /\ MasterState'[n] = "ready"
    BY <1>3, <1>7, <2>1, MasterStates, EndStates
  <2>5. MasterKey'[n] = MasterKey[n]
    BY <1>3, <1>5, <1>7 DEF MasterKey
  <2> QED
    BY <1>2, <2>3, <2>4, <2>5, PromisedMasterServes, PromisedSteps
<1>8. CASE pc \notin {"ck_sync", "ready"}
  <2>1. /\ cpc[n] \notin {"failed", "closed", "ready", "ck_sync"}
        /\ pc \notin {"failed", "closed", "ready", "ck_sync"}
    BY <1>8 DEF ClientMoves
  <2>2. MasterState[n] = "opening" /\ MasterKey[n] = NoKey /\ csess[n].ck = NoKey
    BY <2>1, MasterStates DEF MasterKey
  <2>3. MasterState'[n] = "opening" /\ MasterKey'[n] = NoKey
    BY <1>3, <1>5, <1>8, <2>1, <2>2, EndStates
  <2>4. MasterStays
    BY <1>2, <2>2, <2>3, MasterStands DEF MasterOthers
  <2> QED
    BY <1>2, <2>4, NothingPromised DEF Kept
<1> QED
  BY <1>6, <1>7, <1>8

LEMMA ServerMovesKept ==
    ASSUME AgreementInvariant, NEW n \in Conns, NEW pc, NEW sess,
           ServerMoves(n, pc, sess), UNCHANGED <<cpc, csess>>
    PROVE  Kept
<1>0. Types /\ Agreed(n) /\ KeysHeld(n)
  BY InvariantParts
<1>1. /\ spc'[n] = pc /\ ssess'[n] = sess
      /\ \A i \in Conns \ {n} : spc'[i] = spc[i] /\ ssess'[i] = ssess[i]
  BY <1>0 DEF ServerMoves, ServerGoesOn, Types, ServerTypes, SessionShapes
<1>2. MasterStays /\ SlaveOthers(n)
  BY <1>1, SlaveLeftAlone, MasterLeftAlone DEF SlaveOthers
<1>3. SlaveState'[n] = EndState(pc, sess.ck) /\ SlaveKey'[n] = sess.ck
  BY <1>1, SlaveAfter
<1>4. Head(toServer[n]) \in Range(toServer[n])
  BY <1>0, QueueTaken DEF ServerMoves, Types, Queues
<1>5. sess.ck = ssess[n].ck \/ pc = "ck_sync"
  BY DEF ServerMoves
<1>6. CASE pc = "ck_sync"
  <2>1. /\ spc[n] = "ck_cnf" /\ sess.ck = ContentKey(n, MyId(n))
        /\ Head(toServer[n]).tag = "SAC_DATA_CNF"
    BY <1>6 DEF ServerMoves
  <2>2. SlaveState[n] = "opening" /\ SlaveState'[n] = "keyed"
    BY <1>3, <1>6, <2>1, SlaveStates, EndStates, ContentKeys
  <2>3. SlaveKey'[n] # NoKey /\ OnlyHeldAt(n, SlaveKey'[n])
    BY <1>3, <2>1, ContentKeys, KeyOfItsOwn
  <2>4. cpc[n] \in {"ck_sync", "failed", "closed"}
    BY <1>0, <1>4, <2>1 DEF Agreed, FramesToServer, SameSac, KeysHeld, SlaveKeyed
  <2>5. \/ MasterState[n] = "keyed" /\ SlaveKey'[n] = MasterKey[n]
        \/ MasterState[n] = "over"
    BY <1>3, <2>1, <2>4, MasterStates
  <2> QED
    BY <1>2, <2>2, <2>3, <2>5, PromisedSlaveInstalls, PromisedSteps
<1>7. CASE pc = "ready"
  <2>1. spc[n] = "ck_sync" /\ Head(toServer[n]).tag = "SAC_SYNC_CNF"
    BY <1>7 DEF ServerMoves
  <2>2. cpc[n] \in {"ready", "closed"}
    BY <1>0, <1>4, <2>1 DEF Agreed, FramesToServer
  <2>3. MasterState[n] \in {"ready", "over"}
    BY <2>2, MasterStates
  <2>4. SlaveState[n] = "keyed" /\ SlaveState'[n] = "ready"
    BY <1>3, <1>7, <2>1, SlaveStates, EndStates
  <2>5. SlaveKey'[n] = SlaveKey[n]
    BY <1>3, <1>5, <1>7 DEF SlaveKey
  <2> QED
    BY <1>2, <2>3, <2>4, <2>5, PromisedSlaveServes, PromisedSteps
<1>8. CASE pc \notin {"ck_sync", "ready"}
  <2>1. /\ spc[n] \notin {"failed", "closed", "ready", "ck_sync"}
        /\ pc \notin {"failed", "closed", "ready", "ck_sync"}
    BY <1>8 DEF ServerMoves
  <2>2. SlaveState[n] = "opening" /\ SlaveKey[n] = NoKey /\ ssess[n].ck = NoKey
    BY <2>1, SlaveStates DEF SlaveKey
  <2>3. SlaveState'[n] = "opening" /\ SlaveKey'[n] = NoKey
    BY <1>3, <1>5, <1>8, <2>1, <2>2, EndStates
  <2>4. SlaveStays
    BY <1>2, <2>2, <2>3, SlaveStands DEF SlaveOthers
  <2> QED
    BY <1>2, <2>4, NothingPromised DEF Kept
<1> QED
  BY <1>6, <1>7, <1>8
(* The master's end is given up or closed: csess is a new session *)
LEMMA ClientGoneKept ==
    ASSUME AgreementInvariant, NEW n \in Conns,
           ClientGivesUp(n) \/ ClientEnd(n), UNCHANGED <<spc, ssess>>
    PROVE  Kept
<1>1. Types
  BY InvariantParts
<1>2. /\ cpc'[n] \in {"failed", "closed"} /\ csess'[n] = NewSession
      /\ \A i \in Conns \ {n} : cpc'[i] = cpc[i] /\ csess'[i] = csess[i]
  BY <1>1 DEF ClientGivesUp, ClientEnd, Types, ClientTypes, SessionShapes
<1>3. MasterState'[n] = "over" /\ MasterKey'[n] = NoKey
  BY <1>2, MasterAfter, EndStates DEF NewSession
<1>4. SlaveStays /\ MasterOthers(n)
  BY <1>2, SlaveLeftAlone, MasterLeftAlone DEF MasterOthers
<1>5. {n} \in SUBSET Conns
  OBVIOUS
<1>6. Promise!MasterEnds
  BY <1>3, <1>4, <1>5, PromisedMasterEnds DEF MasterOthers
<1> QED
  BY <1>6, PromisedSteps

LEMMA ServerClosesKept ==
    ASSUME AgreementInvariant, NEW n \in Conns, ServerCloses(n),
           UNCHANGED <<cpc, csess>>
    PROVE  Kept
<1>1. Types
  BY InvariantParts
<1>2. /\ spc'[n] = "closed" /\ ssess'[n] = NewSession
      /\ \A i \in Conns \ {n} : spc'[i] = spc[i] /\ ssess'[i] = ssess[i]
  BY <1>1 DEF ServerCloses, Types, ServerTypes, SessionShapes
<1>3. SlaveState'[n] = "over" /\ SlaveKey'[n] = NoKey
  BY <1>2, SlaveAfter, EndStates DEF NewSession
<1>4. MasterStays /\ SlaveOthers(n)
  BY <1>2, SlaveLeftAlone, MasterLeftAlone DEF SlaveOthers
<1>5. {n} \in SUBSET Conns
  OBVIOUS
<1>6. Promise!SlaveEnds
  BY <1>3, <1>4, <1>5, PromisedSlaveEnds DEF SlaveOthers
<1> QED
  BY <1>6, PromisedSteps

(* A process that ends closes every connection it has *)
LEMMA SlaveEndsKept ==
    ASSUME NEW s, NEW how, SlaveEnds(s, how),
           UNCHANGED <<cpc, csess>>
    PROVE  Kept
<1> DEFINE E == {i \in Conns : i \in Opened /\ target[i] = s}
<1>1. \A i \in E : spc'[i] = "closed" /\ ssess'[i] = NewSession
  BY DEF SlaveEnds
<1>2. \A i \in Conns \ E : spc'[i] = spc[i] /\ ssess'[i] = ssess[i]
  BY DEF SlaveEnds
<1>3. E \in SUBSET Conns
  OBVIOUS
<1> HIDE DEF E
<1>4. \A i \in E : SlaveState'[i] = "over" /\ SlaveKey'[i] = NoKey
  BY <1>1, <1>3, SlaveAfter, EndStates DEF NewSession
<1>5. /\ MasterStays
      /\ \A i \in Conns \ E : /\ SlaveState'[i] = SlaveState[i]
                              /\ SlaveKey'[i] = SlaveKey[i]
  BY <1>2, SlaveLeftAlone, MasterLeftAlone
<1>6. Promise!SlaveEnds
  BY <1>3, <1>4, <1>5, PromisedSlaveEnds
<1> QED
  BY <1>6, PromisedSteps

LEMMA RestartMasterKept ==
    ASSUME AgreementInvariant, RestartMaster
    PROVE  Kept
<1>1. /\ \A i \in Conns : cpc'[i] = IF i \in Opened THEN "closed" ELSE "none"
      /\ \A i \in Conns : csess'[i] = NewSession
      /\ UNCHANGED <<spc, ssess>>
  BY DEF RestartMaster, server
<1>2. \A i \in Opened : MasterState'[i] = "over" /\ MasterKey'[i] = NoKey
  BY <1>1, InvariantParts, MasterAfter, EndStates DEF NewSession
<1>3. \A i \in Conns \ Opened : cpc[i] = "none" /\ csess[i].ck = NoKey
  BY InvariantParts DEF Agreed, Untouched, KeysHeld
<1>4. \A i \in Conns \ Opened : cpc'[i] = cpc[i] /\ csess'[i].ck = csess[i].ck
  BY <1>1, <1>3 DEF NewSession
<1>5. /\ SlaveStays /\ Opened \in SUBSET Conns
      /\ \A i \in Conns \ Opened : /\ MasterState'[i] = MasterState[i]
                                   /\ MasterKey'[i] = MasterKey[i]
  BY <1>1, <1>4, InvariantParts, SlaveLeftAlone, MasterLeftAlone
<1>6. Promise!MasterEnds
  BY <1>2, <1>5, PromisedMasterEnds
<1> QED
  BY <1>6, PromisedSteps

(* Steps of the ends that SecureChannel does not see *)
LEMMA ConnectKept ==
    ASSUME AgreementInvariant, NEW s \in Slaves, Connect(s)
    PROVE  Kept
<1> DEFINE n == Len(target) + 1
<1>1. Types /\ UNCHANGED <<csess, spc, ssess>>
  BY InvariantParts DEF Connect, server
<1>2. n \in Conns /\ n \notin Opened
  BY InvariantParts, OpenedIsConns, ConstantsAssumption DEF Connect, Conns
<1>3. cpc[n] = "none" /\ csess[n].ck = NoKey
  BY <1>2, InvariantParts DEF Agreed, Untouched, KeysHeld
<1> HIDE DEF n
<1>4. cpc'[n] = "open_req" /\ \A i \in Conns \ {n} : cpc'[i] = cpc[i]
  BY <1>1, <1>2 DEF Connect, Types, ClientTypes, n
<1>5. MasterState'[n] = MasterState[n] /\ MasterKey'[n] = MasterKey[n]
  BY <1>1, <1>2, <1>3, <1>4, MasterAfter, EndStates DEF MasterState, MasterKey
<1>6. MasterStays /\ SlaveStays
  BY <1>1, <1>4, <1>5, MasterStands, MasterLeftAlone, SlaveLeftAlone
<1> QED
  BY <1>6, NothingPromised DEF Kept

LEMMA ClientSavesKept ==
    ASSUME AgreementInvariant, NEW n \in Conns, ClientSaves(n)
    PROVE  Kept
<1>1. /\ cpc[n] = "save" /\ cpc'[n] = "sac_req"
      /\ \A i \in Conns \ {n} : cpc'[i] = cpc[i]
      /\ UNCHANGED <<csess, spc, ssess>>
  BY InvariantParts DEF ClientSaves, server, Types, ClientTypes
<1>2. MasterState'[n] = MasterState[n] /\ MasterKey'[n] = MasterKey[n]
  BY <1>1, MasterAfter, EndStates DEF MasterState, MasterKey
<1>3. MasterStays /\ SlaveStays
  BY <1>1, <1>2, MasterStands, MasterLeftAlone, SlaveLeftAlone
<1> QED
  BY <1>3, NothingPromised DEF Kept

LEMMA ServerSavesKept ==
    ASSUME AgreementInvariant, NEW n \in Conns, ServerSaves(n),
           UNCHANGED <<cpc, csess>>
    PROVE  Kept
<1>1. /\ spc[n] = "save" /\ spc'[n] = "sac_cnf" /\ UNCHANGED ssess
      /\ \A i \in Conns \ {n} : spc'[i] = spc[i]
  BY InvariantParts DEF ServerSaves, Types, ServerTypes
<1>2. SlaveState'[n] = SlaveState[n] /\ SlaveKey'[n] = SlaveKey[n]
  BY <1>1, SlaveAfter, EndStates DEF SlaveState, SlaveKey
<1>3. MasterStays /\ SlaveStays
  BY <1>1, <1>2, SlaveStands, MasterLeftAlone, SlaveLeftAlone
<1> QED
  BY <1>3, NothingPromised DEF Kept

LEMMA AcceptKept ==
    ASSUME AgreementInvariant, NEW s, Accept(s)
    PROVE  Kept
<1>1. Types /\ UNCHANGED <<cpc, csess>>
  BY InvariantParts DEF Accept, client
<1>2. PICK n \in Backlog(s) :
        /\ spc' = [spc EXCEPT ![n] = "open_cnf"]
        /\ ssess' = [ssess EXCEPT ![n] =
                     [NewSession EXCEPT !.identity = load_identity("server")]]
  BY DEF Accept
<1>3. n \in Conns /\ spc[n] = "none"
  BY InvariantParts DEF Backlog
<1>4. ssess[n].ck = NoKey
  BY <1>3, InvariantParts DEF KeysHeld
<1>5. /\ spc'[n] = "open_cnf" /\ ssess'[n].ck = NoKey
      /\ \A i \in Conns \ {n} : spc'[i] = spc[i] /\ ssess'[i] = ssess[i]
  BY <1>1, <1>2, <1>3 DEF Types, ServerTypes, SessionShapes, NewSession
<1>6. SlaveState'[n] = SlaveState[n] /\ SlaveKey'[n] = SlaveKey[n]
  BY <1>3, <1>4, <1>5, SlaveAfter, EndStates DEF SlaveState, SlaveKey
<1>7. MasterStays /\ SlaveStays
  BY <1>1, <1>5, <1>6, SlaveStands, MasterLeftAlone, SlaveLeftAlone
<1> QED
  BY <1>7, NothingPromised DEF Kept

LEMMA EveryStepKept ==
    ASSUME AgreementInvariant, [Next]_vars
    PROVE  Kept
<1>0. Types /\ Opened \subseteq Conns
  BY InvariantParts
<1>s. ASSUME UNCHANGED <<cpc, csess, spc, ssess>>
      PROVE  Kept
  BY <1>s, MasterLeftAlone, SlaveLeftAlone, NothingPromised DEF Kept
<1>1. ASSUME NEW s \in Slaves, Connect(s) \/ Accept(s)
      PROVE  Kept
  BY <1>1, ConnectKept, AcceptKept
<1>2. ASSUME NEW n \in Opened, ClientHandshake(n)
      PROVE  Kept
  <2>1. n \in Conns /\ UNCHANGED <<spc, ssess>>
    BY <1>0, <1>2 DEF ClientHandshake, server
  <2> QED
    BY <1>0, <1>2, <2>1, ClientHandshakeMoves, ClientMovesKept, ClientGoneKept
    DEF ClientLeaves
<1>3. ASSUME NEW n \in Opened, ClientSaves(n)
      PROVE  Kept
  BY <1>0, <1>3, ClientSavesKept
<1>4. ASSUME NEW n \in Opened,
             \/ ClientTimeout(n) \/ SlowAnswer(n) \/ ReleaseSocket(n) \/ Close(n)
      PROVE  Kept
  BY <1>0, <1>4, ClientGoneKept
  DEF ClientTimeout, SlowAnswer, ReleaseSocket, Close, ClientFails, server
<1>5. ASSUME NEW n \in Opened, ServerHandshake(n)
      PROVE  Kept
  <2>1. n \in Conns /\ UNCHANGED <<cpc, csess>>
    BY <1>0, <1>5 DEF ServerHandshake, client
  <2>2. CASE ServerRaises(n)
    BY <2>1, <2>2, SlaveEndsKept DEF ServerRaises
  <2>3. CASE ServerCloses(n)
    BY <2>1, <2>3, ServerClosesKept
  <2>4. CASE ServerSaves(n)
    BY <2>1, <2>4, ServerSavesKept
  <2>5. CASE \E pc, sess : ServerMoves(n, pc, sess)
    BY <2>1, <2>5, ServerMovesKept
  <2> QED
    BY <1>0, <1>5, <2>1, <2>2, <2>3, <2>4, <2>5, ServerHandshakeMoves
<1>6. ASSUME NEW s \in Slaves, CrashSlave(s) \/ AcceptRaises(s)
      PROVE  Kept
  BY <1>6, SlaveEndsKept DEF CrashSlave, AcceptRaises, client
<1>7. ASSUME RestartMaster
      PROVE  Kept
  BY <1>7, RestartMasterKept
<1>8. ASSUME \/ \E s \in Slaves : RestartSlave(s)
             \/ \E n \in Opened : LineNoise(n)
             \/ DeleteState \/ RegeneratePki \/ WritePki \/ StartMaster \/ UNCHANGED vars
      PROVE  Kept
  BY <1>8, <1>s
  DEF RestartSlave, LineNoise, DeleteState, RegeneratePki, WritePki, StartMaster,
      client, server, link, vars
<1> QED
  BY <1>1, <1>2, <1>3, <1>4, <1>5, <1>6, <1>7, <1>8
  DEF Next, MasterNext, SlaveNext, IncidentNext

(* The handshake keeps what SecureChannel promises, whichever messages,     *)
(* files or processes are lost: no two sessions share a content key,       *)
(* neither end serves before the other holds the key, and an end that is    *)
(* over holds none.                                                         *)
THEOREM HandshakeKeepsPromise == Spec => PromiseKept
<1>1. Init => Promise!Init
  BY EndStates DEF Init, Promise!Init, NewSession
<1>2. AgreementInvariant /\ [Next]_vars => [Promise!Next]_(Promise!vars)
  BY EveryStepKept DEF Kept
<1> QED
  BY <1>1, <1>2, AgreementInductive, PTL DEF Spec, PromiseKept, Promise!Spec
=============================================================================
