--------------------------- MODULE SerialLine_proof ---------------------------
(***************************************************************************)
(* What the operators of SerialLine do to the records on a line, stated    *)
(* once for the proofs about both profiles that use it.                    *)
(***************************************************************************)
EXTENDS SerialLine, SequenceTheorems, TLAPS

IsQueue(queue) == \E S : queue \in Seq(S)
IsLine(line) == line = [e \in Ends |-> line[e]] /\ \A e \in Ends : IsQueue(line[e])

(* A queue that lost records or had some damaged: nothing new is in it, and *)
(* what was its last record is still its last.                             *)
Thinned(new, old) ==
    /\ \A j \in DOMAIN new :
          \/ new[j] = Garbled
          \/ \E k \in DOMAIN old : new[j] = old[k] /\ (k = Len(old) => j = Len(new))
    /\ old = <<>> => new = <<>>
LineThinned(new, old) ==
    IsLine(new) /\ \A e \in Ends : Thinned(new[e], old[e])

(* Assignments to one, two or three fields of a record *)
LEMMA FieldSet ==
    ASSUME NEW r, NEW S, r = [x \in S |-> r[x]], NEW a \in S, NEW u
    PROVE  LET new == [r EXCEPT ![a] = u] IN
           /\ new = [x \in S |-> new[x]] /\ new[a] = u
           /\ \A x \in S \ {a} : new[x] = r[x]
OBVIOUS

LEMMA TwoFieldsSet ==
    ASSUME NEW r, NEW S, r = [x \in S |-> r[x]],
           NEW a \in S, NEW b \in S, a # b, NEW u, NEW v
    PROVE  LET new == [r EXCEPT ![a] = u, ![b] = v] IN
           /\ new = [x \in S |-> new[x]] /\ new[a] = u /\ new[b] = v
           /\ \A x \in S \ {a, b} : new[x] = r[x]
<1> DEFINE first == [r EXCEPT ![a] = u]
           both == [first EXCEPT ![b] = v]
<1>1. [r EXCEPT ![a] = u, ![b] = v] = both
  OBVIOUS
<1>2. first = [x \in S |-> first[x]] /\ first[a] = u /\ \A x \in S \ {a} : first[x] = r[x]
  OBVIOUS
<1> HIDE DEF first
<1>3. both = [x \in S |-> both[x]] /\ both[b] = v /\ \A x \in S \ {b} : both[x] = first[x]
  BY <1>2
<1> HIDE DEF both
<1> QED
  BY <1>1, <1>2, <1>3

LEMMA ThreeFieldsSet ==
    ASSUME NEW r, NEW S, r = [x \in S |-> r[x]],
           NEW a \in S, NEW b \in S, NEW c \in S, a # b, a # c, b # c,
           NEW u, NEW v, NEW w
    PROVE  LET new == [r EXCEPT ![a] = u, ![b] = v, ![c] = w] IN
           /\ new = [x \in S |-> new[x]] /\ new[a] = u /\ new[b] = v /\ new[c] = w
           /\ \A x \in S \ {a, b, c} : new[x] = r[x]
<1> DEFINE two == [r EXCEPT ![a] = u, ![b] = v]
           all == [two EXCEPT ![c] = w]
<1>1. [r EXCEPT ![a] = u, ![b] = v, ![c] = w] = all
  OBVIOUS
<1>2. /\ two = [x \in S |-> two[x]] /\ two[a] = u /\ two[b] = v
      /\ \A x \in S \ {a, b} : two[x] = r[x]
  BY TwoFieldsSet
<1> HIDE DEF two
<1>3. all = [x \in S |-> all[x]] /\ all[c] = w /\ \A x \in S \ {c} : all[x] = two[x]
  BY <1>2, FieldSet
<1> HIDE DEF all
<1> QED
  BY <1>1, <1>2, <1>3

LEMMA QueueFacts ==
    ASSUME NEW queue, IsQueue(queue)
    PROVE  /\ Len(queue) \in Nat /\ DOMAIN queue = 1..Len(queue)
           /\ queue = <<>> <=> Len(queue) = 0
           /\ queue # <<>> => Head(queue) = queue[1] /\ 1 \in DOMAIN queue
BY LenProperties, EmptySeq DEF IsQueue

LEMMA QuietIsLine == IsLine(QuietLine)
BY EmptySeq DEF IsLine, IsQueue, QuietLine

-----------------------------------------------------------------------------
(* Queues *)

LEMMA SameQueue == ASSUME NEW queue, IsQueue(queue) PROVE Thinned(queue, queue)
BY DEF Thinned

LEMMA EmptiedQueue == ASSUME NEW queue PROVE IsQueue(<<>>) /\ Thinned(<<>>, queue)
BY EmptySeq DEF Thinned, IsQueue

LEMMA TailThins ==
    ASSUME NEW queue, IsQueue(queue), queue # <<>>
    PROVE  /\ IsQueue(Tail(queue)) /\ Thinned(Tail(queue), queue)
           /\ Len(queue) = 1 => Tail(queue) = <<>>
<1>1. PICK S : queue \in Seq(S)
  BY DEF IsQueue
<1>2. /\ Tail(queue) \in Seq(S) /\ Len(Tail(queue)) = Len(queue) - 1
      /\ \A j \in 1..Len(Tail(queue)) : Tail(queue)[j] = queue[j + 1]
      /\ Len(queue) \in Nat /\ Len(queue) > 0 /\ DOMAIN queue = 1..Len(queue)
      /\ DOMAIN Tail(queue) = 1..Len(Tail(queue))
  BY <1>1, HeadTailProperties, LenProperties, EmptySeq
<1>3. \A j \in DOMAIN Tail(queue) :
         /\ j + 1 \in DOMAIN queue /\ Tail(queue)[j] = queue[j + 1]
         /\ j + 1 = Len(queue) => j = Len(Tail(queue))
  BY <1>2
<1>4. Len(queue) = 1 => Tail(queue) = <<>>
  <2> DEFINE rest == Tail(queue)
  <2>1. IsQueue(rest) /\ (Len(queue) = 1 => Len(rest) = 0)
    BY <1>2 DEF IsQueue
  <2> HIDE DEF rest
  <2>2. Len(queue) = 1 => rest = <<>>
    BY <2>1, QueueFacts
  <2> QED
    BY <2>2 DEF rest
<1> QED
  BY <1>2, <1>3, <1>4 DEF IsQueue, Thinned

LEMMA ReplaceThins ==
    ASSUME NEW queue, IsQueue(queue), NEW i \in DOMAIN queue
    PROVE  IsQueue(ReplaceAt(queue, i, Garbled)) /\ Thinned(ReplaceAt(queue, i, Garbled), queue)
<1>1. PICK S : queue \in Seq(S)
  BY DEF IsQueue
<1> DEFINE T == S \cup {Garbled}
           new == ReplaceAt(queue, i, Garbled)
<1>2. queue \in Seq(T) /\ Garbled \in T /\ DOMAIN queue = 1..Len(queue) /\ Len(queue) \in Nat
  BY <1>1, SeqMonotonic, LenProperties
<1>3. /\ new \in Seq(T) /\ Len(new) = Len(queue) /\ DOMAIN new = DOMAIN queue
      /\ \A j \in DOMAIN new : new[j] = IF j = i THEN Garbled ELSE queue[j]
  BY <1>2, ExceptSeq, LenProperties DEF ReplaceAt
<1> HIDE DEF new
<1>4. queue # <<>>
  BY <1>2, EmptySeq
<1>5. Thinned(new, queue)
  BY <1>3, <1>4 DEF Thinned
<1> QED
  BY <1>3, <1>5 DEF IsQueue, new

LEMMA RemoveThins ==
    ASSUME NEW queue, IsQueue(queue), NEW i \in DOMAIN queue
    PROVE  IsQueue(RemoveAt(queue, i)) /\ Thinned(RemoveAt(queue, i), queue)
<1>1. PICK S : queue \in Seq(S)
  BY DEF IsQueue
<1> DEFINE before == SubSeq(queue, 1, i - 1)
           after == SubSeq(queue, i + 1, Len(queue))
           new == RemoveAt(queue, i)
<1>2. Len(queue) \in Nat /\ i \in 1..Len(queue) /\ DOMAIN queue = 1..Len(queue)
  BY <1>1, LenProperties
<1>3. /\ before \in Seq(S) /\ Len(before) = i - 1
      /\ \A j \in 1..(i - 1) : before[j] = queue[j]
  BY <1>1, <1>2, SubSeqProperties
<1>4. /\ after \in Seq(S) /\ Len(after) = Len(queue) - i
      /\ \A j \in 1..(Len(queue) - i) : after[j] = queue[i + j]
  <2>1. /\ i + 1 \in 1..(Len(queue) + 1) /\ Len(queue) \in i..Len(queue)
        /\ IF i + 1 <= Len(queue) THEN Len(queue) - (i + 1) + 1 = Len(queue) - i
                                   ELSE Len(queue) - i = 0
    BY <1>2
  <2>2. after \in Seq(S) /\ Len(after) = Len(queue) - i
    BY <1>1, <1>2, <2>1, SubSeqProperties
  <2>3. \A j \in 1..Len(after) : after[j] = queue[i + 1 + j - 1]
    BY <1>1, <1>2, <2>1, SubSeqProperties
  <2> QED
    BY <1>2, <2>2, <2>3
<1>5. new = before \o after
  BY DEF RemoveAt
<1> HIDE DEF before, after, new
<1>6. /\ new \in Seq(S) /\ Len(new) = Len(queue) - 1 /\ DOMAIN new = 1..(Len(queue) - 1)
      /\ \A j \in 1..(Len(queue) - 1) :
            new[j] = IF j <= i - 1 THEN queue[j] ELSE queue[j + 1]
  <2>1. new \in Seq(S) /\ Len(new) = Len(before) + Len(after)
        /\ \A j \in 1..(Len(before) + Len(after)) :
              new[j] = IF j <= Len(before) THEN before[j] ELSE after[j - Len(before)]
    BY <1>3, <1>4, <1>5, ConcatProperties
  <2>2. DOMAIN new = 1..Len(new)
    BY <2>1, LenProperties
  <2>3. ASSUME NEW j \in 1..(Len(queue) - 1)
        PROVE  new[j] = IF j <= i - 1 THEN queue[j] ELSE queue[j + 1]
    <3>1. CASE j <= i - 1
      BY <3>1, <2>1, <1>2, <1>3, <1>4
    <3>2. CASE ~(j <= i - 1)
      <4>1. new[j] = after[j - (i - 1)]
        BY <3>2, <2>1, <1>2, <1>3, <1>4
      <4>2. j - (i - 1) \in 1..(Len(queue) - i) /\ i + (j - (i - 1)) = j + 1
        BY <3>2, <1>2
      <4> QED
        BY <3>2, <4>1, <4>2, <1>4
    <3> QED
      BY <3>1, <3>2
  <2> QED
    BY <2>1, <2>2, <2>3, <1>2, <1>3, <1>4
<1>7. \A j \in DOMAIN new : \E k \in DOMAIN queue :
         new[j] = queue[k] /\ (k = Len(queue) => j = Len(new))
  <2> TAKE j \in DOMAIN new
  <2>1. CASE j <= i - 1
    BY <2>1, <1>2, <1>6
  <2>2. CASE ~(j <= i - 1)
    <3>1. j + 1 \in DOMAIN queue /\ new[j] = queue[j + 1]
          /\ (j + 1 = Len(queue) => j = Len(new))
      BY <2>2, <1>2, <1>6
    <3> QED
      BY <3>1
  <2> QED
    BY <2>1, <2>2
<1>8. queue # <<>>
  BY <1>1, <1>2, EmptySeq
<1>9. Thinned(new, queue)
  BY <1>7, <1>8 DEF Thinned
<1> QED
  BY <1>6, <1>9 DEF IsQueue, new

-----------------------------------------------------------------------------
(* Lines *)

LEMMA QueueChanged ==
    ASSUME NEW line, IsLine(line), NEW e \in Ends, NEW queue, IsQueue(queue),
           Thinned(queue, line[e])
    PROVE  LineThinned([line EXCEPT ![e] = queue], line)
<1> DEFINE new == [line EXCEPT ![e] = queue]
<1>1. /\ new = [f \in Ends |-> new[f]]
      /\ \A f \in Ends : new[f] = IF f = e THEN queue ELSE line[f]
  BY DEF IsLine
<1> HIDE DEF new
<1>2. \A f \in Ends : IsQueue(new[f]) /\ Thinned(new[f], line[f])
  BY <1>1, SameQueue DEF IsLine
<1> QED
  BY <1>1, <1>2 DEF LineThinned, IsLine, new

(* A record is read *)
LEMMA TakenThins ==
    ASSUME NEW line, IsLine(line), NEW e \in Ends, line[e] # <<>>
    PROVE  /\ LineThinned(Taken(line, e), line)
           /\ Len(line[e]) = 1 => Taken(line, e)[e] = <<>>
           /\ \A f \in Ends \ {e} : Taken(line, e)[f] = line[f]
<1>1. IsQueue(Tail(line[e])) /\ Thinned(Tail(line[e]), line[e])
      /\ (Len(line[e]) = 1 => Tail(line[e]) = <<>>)
  BY TailThins DEF IsLine
<1>2. Taken(line, e) = [line EXCEPT ![e] = Tail(line[e])]
  BY DEF Taken
<1>3. Taken(line, e)[e] = Tail(line[e]) /\ \A f \in Ends \ {e} : Taken(line, e)[f] = line[f]
  BY <1>2 DEF IsLine
<1> QED
  BY <1>1, <1>2, <1>3, QueueChanged

(* A program opens the port *)
LEMMA OpenedThins ==
    ASSUME NEW line, IsLine(line), NEW e \in Ends, NEW port \in OpenedPort(line, e)
    PROVE  LineThinned(port, line)
<1>1. CASE port = line
  BY <1>1, SameQueue DEF LineThinned, IsLine
<1>2. CASE port = [line EXCEPT ![e] = <<>>]
  BY <1>2, EmptiedQueue, QueueChanged
<1> QED
  BY <1>1, <1>2 DEF OpenedPort

(* Noise on the line *)
LEMMA DisturbedThins ==
    ASSUME NEW line, IsLine(line), NEW new \in Disturbed(line)
    PROVE  LineThinned(new, line)
<1>1. PICK e \in Ends : \E i \in DOMAIN line[e] : new \in {Lost(line, e, i), Damaged(line, e, i)}
  BY DEF Disturbed
<1>2. PICK i \in DOMAIN line[e] : new \in {Lost(line, e, i), Damaged(line, e, i)}
  BY <1>1
<1>3. IsQueue(line[e])
  BY DEF IsLine
<1>4. CASE new = Lost(line, e, i)
  <2>1. new = [line EXCEPT ![e] = RemoveAt(line[e], i)]
    BY <1>4 DEF Lost
  <2> QED
    BY <2>1, <1>3, RemoveThins, QueueChanged
<1>5. CASE new = Damaged(line, e, i)
  <2>1. new = [line EXCEPT ![e] = ReplaceAt(line[e], i, Garbled)]
    BY <1>5 DEF Damaged
  <2> QED
    BY <2>1, <1>3, ReplaceThins, QueueChanged
<1> QED
  BY <1>2, <1>4, <1>5

(* A record is sent: it is the last, the others are as before *)
LEMMA SentOnLine ==
    ASSUME NEW line, IsLine(line), NEW e \in Ends, NEW r
    PROVE  /\ IsLine(Sent(line, e, r))
           /\ \A f \in Ends \ {e} : Sent(line, e, r)[f] = line[f]
           /\ Len(Sent(line, e, r)[e]) = Len(line[e]) + 1
           /\ \A i \in DOMAIN Sent(line, e, r)[e] :
                 \/ i \in DOMAIN line[e] /\ Sent(line, e, r)[e][i] = line[e][i]
                 \/ i = Len(line[e]) + 1 /\ Sent(line, e, r)[e][i] = r
<1>1. PICK S : line[e] \in Seq(S)
  BY DEF IsLine, IsQueue
<1> DEFINE T == S \cup {r}
           longer == Append(line[e], r)
           new == Sent(line, e, r)
<1>2. line[e] \in Seq(T) /\ r \in T
  BY <1>1, SeqMonotonic
<1>3. /\ longer \in Seq(T) /\ Len(longer) = Len(line[e]) + 1
      /\ \A i \in 1..Len(line[e]) : longer[i] = line[e][i]
      /\ longer[Len(line[e]) + 1] = r
  BY <1>2, AppendProperties
<1>4. DOMAIN longer = 1..(Len(line[e]) + 1) /\ DOMAIN line[e] = 1..Len(line[e])
      /\ Len(line[e]) \in Nat
  BY <1>2, <1>3, LenProperties
<1>5. new = [line EXCEPT ![e] = longer]
  BY DEF Sent
<1> HIDE DEF longer, new
<1>6. /\ new = [f \in Ends |-> new[f]] /\ new[e] = longer
      /\ \A f \in Ends \ {e} : new[f] = line[f]
  BY <1>5 DEF IsLine
<1>7. \A f \in Ends : IsQueue(new[f])
  BY <1>3, <1>6 DEF IsLine, IsQueue
<1>8. \A i \in DOMAIN longer :
         \/ i \in DOMAIN line[e] /\ longer[i] = line[e][i]
         \/ i = Len(line[e]) + 1 /\ longer[i] = r
  BY <1>3, <1>4
<1> QED
  BY <1>3, <1>6, <1>7, <1>8 DEF IsLine, new

(* A line on which one record is under way *)
Only(e, r) == Sent(QuietLine, e, r)

LEMMA OnlyOnLine ==
    ASSUME NEW e \in Ends, NEW r, NEW line, line = Only(e, r)
    PROVE  /\ line[e] # <<>> /\ Head(line[e]) = r /\ Taken(line, e) = QuietLine
           /\ \A f \in Ends \ {e} : line[f] = <<>>
<1>1. /\ Append(<<>>, r) = <<r>> /\ <<r>> # <<>> /\ Head(<<r>>) = r /\ Tail(<<r>>) = <<>>
  OBVIOUS
<1>2. line = [QuietLine EXCEPT ![e] = <<r>>]
  BY <1>1 DEF Only, Sent, QuietLine
<1>3. /\ line = [f \in Ends |-> line[f]] /\ line[e] = <<r>>
      /\ \A f \in Ends \ {e} : line[f] = <<>>
  BY <1>2 DEF QuietLine
<1>4. Taken(line, e) = [line EXCEPT ![e] = <<>>]
  BY <1>1, <1>3 DEF Taken
<1>5. [line EXCEPT ![e] = <<>>] = QuietLine
  BY <1>3 DEF QuietLine
<1> QED
  BY <1>1, <1>3, <1>4, <1>5

LEMMA TwoOnLine ==
    ASSUME NEW e \in Ends, NEW r, NEW s, NEW line, line = Sent(Only(e, r), e, s)
    PROVE  /\ line[e] # <<>> /\ Head(line[e]) = r /\ Taken(line, e) = Only(e, s)
           /\ \A f \in Ends \ {e} : line[f] = <<>>
<1>1. /\ Append(<<>>, r) = <<r>> /\ Append(<<>>, s) = <<s>> /\ Append(<<r>>, s) = <<r, s>>
      /\ <<r, s>> # <<>> /\ Head(<<r, s>>) = r /\ Tail(<<r, s>>) = <<s>>
  <2>1. Append(<<>>, r) = <<r>> /\ Append(<<>>, s) = <<s>>
    OBVIOUS
  <2>2. Append(<<r>>, s) = <<r, s>>
    <3> DEFINE T == {r, s}
    <3>1. <<r>> \in Seq(T) /\ s \in T /\ Len(<<r>>) = 1 /\ <<r>>[1] = r
      OBVIOUS
    <3>2. <<r, s>> \in Seq(T) /\ Len(<<r, s>>) = 2 /\ <<r, s>>[1] = r /\ <<r, s>>[2] = s
      OBVIOUS
    <3>3. PICK both : both = Append(<<r>>, s)
      OBVIOUS
    <3>4. both \in Seq(T) /\ Len(both) = 2 /\ both[1] = r /\ both[2] = s
      BY <3>1, <3>3, AppendProperties
    <3> HIDE DEF T
    <3>5. both = <<r, s>>
      BY <3>2, <3>4, SeqEqual
    <3> QED
      BY <3>3, <3>5
  <2>3. <<r, s>> # <<>>
    OBVIOUS
  <2>4. Head(<<r, s>>) = r /\ Tail(<<r, s>>) = <<s>>
    OBVIOUS
  <2> QED
    BY <2>1, <2>2, <2>3, <2>4
<1>2. PICK first : first = Only(e, r)
  OBVIOUS
<1>3. /\ first = [f \in Ends |-> first[f]] /\ first[e] = <<r>>
      /\ \A f \in Ends \ {e} : first[f] = <<>>
  BY <1>1, <1>2 DEF Only, Sent, QuietLine
<1>4. line = [first EXCEPT ![e] = <<r, s>>]
  BY <1>1, <1>2, <1>3 DEF Sent
<1>5. /\ line = [f \in Ends |-> line[f]] /\ line[e] = <<r, s>>
      /\ \A f \in Ends \ {e} : line[f] = <<>>
  BY <1>3, <1>4
<1>6. Taken(line, e) = [line EXCEPT ![e] = <<s>>]
  BY <1>1, <1>5 DEF Taken
<1>7. Only(e, s) = [QuietLine EXCEPT ![e] = <<s>>]
  BY <1>1 DEF Only, Sent, QuietLine
<1>8. [line EXCEPT ![e] = <<s>>] = [QuietLine EXCEPT ![e] = <<s>>]
  BY <1>5 DEF QuietLine
<1> QED
  BY <1>1, <1>5, <1>6, <1>7, <1>8
=============================================================================
