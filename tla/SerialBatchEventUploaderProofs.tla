------------------- MODULE SerialBatchEventUploaderProofs -------------------
(***************************************************************************)
(* Theorems about SerialBatchEventUploader for every number and size of    *)
(* calls, every limit, and however often POSTs fail or answers are lost.   *)
(***************************************************************************)
EXTENDS SerialBatchEventUploader, FiniteSetTheorems, TLAPS

-----------------------------------------------------------------------------
(* Sequences of events                                                      *)

\* All of q come before all of r
Before(q, r) == \A x \in Range(q), y \in Range(r) : x < y

LEMMA ConcatRange ==
    ASSUME NEW S, NEW q \in Seq(S), NEW r \in Seq(S)
    PROVE  q \o r \in Seq(S) /\ Range(q \o r) = Range(q) \cup Range(r)
<1>1. /\ q \o r \in Seq(S) /\ DOMAIN (q \o r) = 1..(Len(q) + Len(r))
      /\ DOMAIN q = 1..Len(q) /\ DOMAIN r = 1..Len(r)
      /\ Len(q) \in Nat /\ Len(r) \in Nat
  OBVIOUS
<1>2. /\ \A i \in 1..Len(q) : (q \o r)[i] = q[i]
      /\ \A i \in 1..Len(r) : (q \o r)[Len(q) + i] = r[i]
  OBVIOUS
<1>3. ASSUME NEW x \in Range(q \o r) PROVE x \in Range(q) \cup Range(r)
  <2>1. PICK i \in 1..(Len(q) + Len(r)) : x = (q \o r)[i]
    BY <1>1, <1>3 DEF Range
  <2>2. CASE i <= Len(q)
    BY <1>1, <1>2, <2>1, <2>2 DEF Range
  <2>3. CASE i > Len(q)
    <3>1. i - Len(q) \in 1..Len(r) /\ Len(q) + (i - Len(q)) = i
      BY <1>1, <2>1, <2>3
    <3>2. x = r[i - Len(q)]
      BY <1>2, <2>1, <3>1
    <3> QED
      BY <1>1, <3>1, <3>2 DEF Range
  <2> QED
    BY <1>1, <2>2, <2>3
<1>4. ASSUME NEW x \in Range(q) PROVE x \in Range(q \o r)
  BY <1>1, <1>2, <1>4 DEF Range
<1>5. ASSUME NEW x \in Range(r) PROVE x \in Range(q \o r)
  <2>1. PICK i \in 1..Len(r) : x = r[i]
    BY <1>1, <1>5 DEF Range
  <2>2. Len(q) + i \in 1..(Len(q) + Len(r)) /\ x = (q \o r)[Len(q) + i]
    BY <1>1, <1>2, <2>1
  <2> QED
    BY <1>1, <2>2 DEF Range
<1> QED
  BY <1>1, <1>3, <1>4, <1>5

LEMMA ConcatLen ==
    ASSUME NEW S, NEW q \in Seq(S), NEW r \in Seq(S)
    PROVE  Len(q \o r) = Len(q) + Len(r) /\ Len(q) \in Nat /\ Len(r) \in Nat
  OBVIOUS

\* A sequence is in order when its parts are, and one is before the other
LEMMA ConcatInOrder ==
    ASSUME NEW q \in Seq(Nat), NEW r \in Seq(Nat)
    PROVE  InOrder(q \o r) <=> InOrder(q) /\ InOrder(r) /\ Before(q, r)
<1>1. /\ DOMAIN (q \o r) = 1..(Len(q) + Len(r))
      /\ DOMAIN q = 1..Len(q) /\ DOMAIN r = 1..Len(r)
      /\ Len(q) \in Nat /\ Len(r) \in Nat
  OBVIOUS
<1>2. /\ \A i \in 1..Len(q) : (q \o r)[i] = q[i]
      /\ \A i \in 1..Len(r) : (q \o r)[Len(q) + i] = r[i]
  OBVIOUS
<1>3. ASSUME InOrder(q \o r) PROVE InOrder(q) /\ InOrder(r) /\ Before(q, r)
  <2>1. ASSUME NEW i \in 1..Len(q), NEW j \in 1..Len(q), i < j PROVE q[i] < q[j]
    <3>1. i \in 1..(Len(q) + Len(r)) /\ j \in 1..(Len(q) + Len(r))
      BY <1>1, <2>1
    <3> QED
      BY <1>1, <1>2, <1>3, <2>1, <3>1 DEF InOrder
  <2>2. ASSUME NEW i \in 1..Len(r), NEW j \in 1..Len(r), i < j PROVE r[i] < r[j]
    <3>1. /\ Len(q) + i \in 1..(Len(q) + Len(r)) /\ Len(q) + j \in 1..(Len(q) + Len(r))
          /\ Len(q) + i < Len(q) + j
      BY <1>1, <2>2
    <3> QED
      BY <1>1, <1>2, <1>3, <3>1 DEF InOrder
  <2>3. ASSUME NEW i \in 1..Len(q), NEW j \in 1..Len(r) PROVE q[i] < r[j]
    <3>1. /\ i \in 1..(Len(q) + Len(r)) /\ Len(q) + j \in 1..(Len(q) + Len(r))
          /\ i < Len(q) + j
      BY <1>1, <2>3
    <3> QED
      BY <1>1, <1>2, <1>3, <3>1 DEF InOrder
  <2> QED
    BY <1>1, <2>1, <2>2, <2>3 DEF InOrder, Before, Range
<1>4. ASSUME InOrder(q), InOrder(r), Before(q, r),
             NEW i \in 1..(Len(q) + Len(r)), NEW j \in 1..(Len(q) + Len(r)), i < j
      PROVE  (q \o r)[i] < (q \o r)[j]
  <2>1. CASE j <= Len(q)
    <3>1. i \in 1..Len(q) /\ j \in 1..Len(q)
      BY <1>1, <1>4, <2>1
    <3> QED
      BY <1>1, <1>2, <1>4, <3>1 DEF InOrder
  <2>2. CASE i > Len(q)
    <3> DEFINE k == i - Len(q)  l == j - Len(q)
    <3>1. k \in 1..Len(r) /\ l \in 1..Len(r) /\ k < l /\ i = Len(q) + k /\ j = Len(q) + l
      BY <1>1, <1>4, <2>2
    <3> HIDE DEF k, l
    <3> QED
      BY <1>1, <1>2, <1>4, <3>1 DEF InOrder
  <2>3. CASE i <= Len(q) /\ j > Len(q)
    <3> DEFINE l == j - Len(q)
    <3>1. i \in 1..Len(q) /\ l \in 1..Len(r) /\ j = Len(q) + l
      BY <1>1, <1>4, <2>3
    <3> HIDE DEF l
    <3>2. q[i] \in Range(q) /\ r[l] \in Range(r)
      BY <1>1, <3>1 DEF Range
    <3> QED
      BY <1>1, <1>2, <1>4, <3>1, <3>2 DEF Before
  <2> QED
    BY <1>1, <1>4, <2>1, <2>2, <2>3
<1> QED
  BY <1>1, <1>3, <1>4 DEF InOrder

\* The front and the rest of a sequence
LEMMA Cut ==
    ASSUME NEW S, NEW q \in Seq(S), NEW n \in 0..Len(q)
    PROVE  LET rest == SubSeq(q, n + 1, Len(q)) IN
           /\ rest \in Seq(S) /\ Len(rest) = Len(q) - n
           /\ \A i \in 1..(Len(q) - n) : rest[i] = q[n + i]
           /\ Range(rest) = {q[i] : i \in (n + 1)..Len(q)}
<1> DEFINE rest == SubSeq(q, n + 1, Len(q))
<1>1. /\ rest \in Seq(S) /\ Len(rest) = Len(q) - n
      /\ \A i \in 1..(Len(q) - n) : rest[i] = q[n + i]
  OBVIOUS
<1>2. DOMAIN rest = 1..(Len(q) - n) /\ Len(q) \in Nat
  BY <1>1
<1> HIDE DEF rest
<1>3. ASSUME NEW x \in Range(rest) PROVE \E i \in (n + 1)..Len(q) : x = q[i]
  <2>1. PICK j \in 1..(Len(q) - n) : x = rest[j]
    BY <1>2, <1>3 DEF Range
  <2>2. n + j \in (n + 1)..Len(q) /\ x = q[n + j]
    BY <1>1, <1>2, <2>1
  <2> QED
    BY <2>2
<1>4. ASSUME NEW i \in (n + 1)..Len(q) PROVE q[i] \in Range(rest)
  <2>1. i - n \in 1..(Len(q) - n) /\ n + (i - n) = i
    BY <1>2
  <2>2. rest[i - n] = q[i]
    BY <1>1, <2>1
  <2> QED
    BY <1>2, <2>1, <2>2 DEF Range
<1>5. Range(rest) = {q[i] : i \in (n + 1)..Len(q)}
  BY <1>3, <1>4
<1> QED
  BY <1>1, <1>5 DEF rest

\* What is picked are the elements at those places, in their order
LEMMA PickedFacts ==
    ASSUME NEW S, NEW q \in Seq(S), NEW P \in SUBSET (1..Len(q)), NEW s \in Picked(q, P)
    PROVE  /\ Cardinality(P) \in Nat
           /\ s \in Seq(S) /\ Len(s) = Cardinality(P)
           /\ Range(s) = {q[i] : i \in P}
           /\ S \subseteq Nat /\ InOrder(q) => InOrder(s)
<1>0. DOMAIN q = 1..Len(q) /\ Len(q) \in Nat /\ \A i \in 1..Len(q) : q[i] \in S
  OBVIOUS
<1>1. Cardinality(P) \in Nat
  <2>1. IsFiniteSet(1..Len(q))
    BY <1>0, FS_Interval
  <2>2. IsFiniteSet(P)
    BY <2>1, FS_Subset
  <2> QED
    BY <2>2, FS_CardinalityType
<1> DEFINE n == Cardinality(P)
<1>2. PICK at \in [1..n -> P] :
        /\ \A i, j \in 1..n : i < j => at[i] < at[j]
        /\ \A p \in P : \E i \in 1..n : at[i] = p
        /\ s = [i \in 1..n |-> q[at[i]]]
  BY DEF Picked
<1> HIDE DEF n
<1>3. \A i \in 1..n : at[i] \in 1..Len(q) /\ q[at[i]] \in S
  BY <1>0, <1>2
<1>4. n \in Nat
  BY <1>1 DEF n
<1>5. s \in Seq(S) /\ Len(s) = n /\ DOMAIN s = 1..n
  BY <1>2, <1>3, <1>4
<1>6. Range(s) = {q[i] : i \in P}
  BY <1>2, <1>5 DEF Range
<1>7. S \subseteq Nat /\ InOrder(q) => InOrder(s)
  BY <1>0, <1>2, <1>3, <1>5 DEF InOrder
<1> QED
  BY <1>1, <1>5, <1>6, <1>7 DEF n

LEMMA SeqOver ==
    ASSUME NEW S, NEW q \in Seq(Nat), Range(q) \subseteq S
    PROVE  q \in Seq(S)
<1>1. DOMAIN q = 1..Len(q) /\ Len(q) \in Nat
  OBVIOUS
<1>2. \A i \in 1..Len(q) : q[i] \in S
  BY <1>1 DEF Range
<1> QED
  BY <1>1, <1>2

LEMMA EmptyRange ==
    ASSUME NEW S, NEW q \in Seq(S)
    PROVE  q = <<>> <=> Range(q) = {}
<1>1. DOMAIN q = 1..Len(q) /\ Len(q) \in Nat
  OBVIOUS
<1>2. ASSUME q # <<>> PROVE q[1] \in Range(q)
  BY <1>1, <1>2 DEF Range
<1>3. Range(<<>>) = {}
  BY DEF Range
<1> QED
  BY <1>2, <1>3

LEMMA ElementOf == \A S : \A q \in Seq(S) : \A i \in DOMAIN q : q[i] \in S
  OBVIOUS

LEMMA EmptySeq == \A S : \A q \in Seq(S) : Len(q) = 0 <=> q = <<>>
  OBVIOUS

-----------------------------------------------------------------------------
(* The drain loop                                                           *)

\* What a round of the loop makes of the buffer q: it gives up some of what
\* cannot be serialized, and takes a batch from the front of the rest
Drained(q, skipped) ==
    /\ skipped \subseteq bad' /\ (skipped # {} => ByteLimit)
    /\ pending' \in Seq(Nat) /\ batch' \in Seq(Nat)
    /\ Range(q) = Range(batch') \cup Range(pending') \cup skipped
    /\ InOrder(q) =>
        /\ InOrder(batch') /\ InOrder(pending') /\ Before(batch', pending')
        /\ skipped \cap (Range(batch') \cup Range(pending')) = {}
    /\ Len(batch') <= MaxBatch
    /\ Len(batch') + Len(pending') <= Len(q)
    /\ ByteLimit => Range(batch') \cap bad' = {}

\* How the loop goes on: to the POST, or out, with the flushes that wait
Goes(count) ==
    \/ /\ phase' = "sending" /\ batch' # <<>> /\ failures' = count /\ flush' = flush
    \/ /\ phase' = "off" /\ batch' = <<>> /\ failures' = 0
       /\ IF pending' = <<>> THEN ResolveFlushes ELSE flush' = flush

LEMMA TakenFacts ==
    ASSUME NEW q \in Seq(Nat), NEW n \in TakeBatch(q),
           NEW taken \in Picked(q, Sendable(q, n)),
           pending' = SubSeq(q, n + 1, Len(q)), batch' = taken
    PROVE  /\ Drained(q, Skipped(q, n))
           /\ taken = <<>> => pending' = <<>> /\ ByteLimit /\ Range(q) \subseteq bad'
<1>1. DOMAIN q = 1..Len(q) /\ Len(q) \in Nat /\ n \in 1..Len(q) /\ n \in 0..Len(q)
      /\ \A i \in 1..Len(q) : q[i] \in Nat
  BY DEF TakeBatch
<1> DEFINE P == Sendable(q, n)
<1>2. P \in SUBSET (1..Len(q)) /\ P \subseteq 1..n
  BY <1>1 DEF Sendable
<1>3. /\ Cardinality(P) \in Nat
      /\ taken \in Seq(Nat) /\ Len(taken) = Cardinality(P)
      /\ Range(taken) = {q[i] : i \in P}
      /\ InOrder(q) => InOrder(taken)
  BY <1>2, PickedFacts
<1>4. /\ pending' \in Seq(Nat) /\ Len(pending') = Len(q) - n
      /\ \A i \in 1..(Len(q) - n) : pending'[i] = q[n + i]
      /\ Range(pending') = {q[i] : i \in (n + 1)..Len(q)}
  BY <1>1, Cut
<1>5. Cardinality(P) <= MaxBatch /\ Cardinality(P) <= n
  <2>1. IsFiniteSet(1..n) /\ Cardinality(1..n) = n
    BY <1>1, FS_Interval
  <2>2. Cardinality(P) <= Cardinality(1..n)
    BY <1>2, <2>1, FS_Subset
  <2> QED
    BY <2>1, <2>2 DEF TakeBatch
<1>6. Range(q) = Range(taken) \cup Range(pending') \cup Skipped(q, n)
  <2>1. Range(q) = {q[i] : i \in 1..Len(q)}
    BY <1>1 DEF Range
  <2>2. 1..Len(q) = P \cup ((1..n) \ P) \cup ((n + 1)..Len(q))
    BY <1>1, <1>2
  <2> HIDE DEF P
  <2>3. Skipped(q, n) = {q[i] : i \in (1..n) \ P}
    BY DEF Skipped, P
  <2> QED
    BY <1>3, <1>4, <2>1, <2>2, <2>3
<1>7. Skipped(q, n) \subseteq bad' /\ (Skipped(q, n) # {} => ByteLimit)
  BY DEF Skipped, Sendable
<1>8. ASSUME InOrder(q)
      PROVE  /\ InOrder(taken) /\ InOrder(pending') /\ Before(taken, pending')
             /\ Skipped(q, n) \cap (Range(taken) \cup Range(pending')) = {}
  <2>1. \A i, j \in 1..Len(q) : i < j => q[i] < q[j]
    BY <1>1, <1>8 DEF InOrder
  <2>2. DOMAIN pending' = 1..(Len(q) - n)
    BY <1>4
  <2>3. InOrder(pending')
    <3> SUFFICES ASSUME NEW i \in 1..(Len(q) - n), NEW j \in 1..(Len(q) - n), i < j
                 PROVE  pending'[i] < pending'[j]
      BY <2>2 DEF InOrder
    <3>1. n + i \in 1..Len(q) /\ n + j \in 1..Len(q) /\ n + i < n + j
      BY <1>1
    <3> QED
      BY <1>4, <2>1, <3>1
  <2>4. Before(taken, pending')
    <3> SUFFICES ASSUME NEW i \in P, NEW j \in (n + 1)..Len(q) PROVE q[i] < q[j]
      BY <1>3, <1>4 DEF Before
    <3> QED
      BY <1>1, <1>2, <2>1
  <2>5. ASSUME NEW i \in (1..n) \ P, NEW j \in P \cup ((n + 1)..Len(q)) PROVE q[i] # q[j]
    <3>1. i \in 1..Len(q) /\ j \in 1..Len(q) /\ i # j /\ (i < j \/ j < i)
      BY <1>1, <1>2, <2>5
    <3> QED
      BY <1>1, <2>1, <3>1
  <2>6. Skipped(q, n) \cap (Range(taken) \cup Range(pending')) = {}
    <3> HIDE DEF P
    <3>1. Skipped(q, n) = {q[i] : i \in (1..n) \ P}
      BY DEF Skipped, P
    <3>2. Range(taken) \cup Range(pending') = {q[j] : j \in P \cup ((n + 1)..Len(q))}
      BY <1>3, <1>4
    <3> QED
      BY <2>5, <3>1, <3>2
  <2> QED
    BY <1>3, <1>8, <2>3, <2>4, <2>6
<1>9. ByteLimit => Range(taken) \cap bad' = {}
  BY <1>3 DEF Sendable
<1>10. Drained(q, Skipped(q, n))
  <2>1. Len(taken) + Len(pending') <= Len(q) /\ Len(taken) <= MaxBatch
    BY <1>1, <1>3, <1>4, <1>5
  <2> QED
    BY <1>3, <1>4, <1>6, <1>7, <1>8, <1>9, <2>1 DEF Drained
<1>11. ASSUME taken = <<>> PROVE pending' = <<>> /\ ByteLimit /\ Range(q) \subseteq bad'
  <2>1. Cardinality(P) = 0 /\ 0 < MaxBatch
    BY <1>3, <1>11, SizesAssumption
  <2>2. n = Len(q)
    <3>1. ~(Cardinality(P) < MaxBatch /\ n < Len(q) /\ ~(Cardinality(P) > 0))
      BY DEF TakeBatch
    <3>2. ~(n < Len(q))
      BY <2>1, <3>1
    <3>3. n \in 1..Len(q) /\ Len(q) \in Nat
      BY <1>1
    <3> QED
      BY <3>2, <3>3
  <2>3. pending' = <<>> /\ Range(pending') = {} /\ Range(taken) = {}
    <3>1. Len(pending') = 0
      BY <1>1, <1>4, <2>2
    <3>2. pending' = <<>>
      BY <1>4, <3>1
    <3>3. Range(<<>>) = {}
      BY DEF Range
    <3> QED
      BY <1>11, <3>2, <3>3
  <2>4. Range(q) = Skipped(q, n) /\ q[1] \in Range(q)
    BY <1>1, <1>6, <2>3 DEF Range
  <2> QED
    BY <1>7, <2>3, <2>4
<1> QED
  BY <1>10, <1>11

\* A round of the loop.  It ends with a buffer that is not empty only when
\* closed, and on an open uploader it sends if anything can be sent.
LEMMA DrainFacts ==
    ASSUME NEW q \in Seq(Nat), NEW count, NEW gone, DrainLoop(q, count, gone)
    PROVE  /\ \E skipped \in SUBSET bad' :
                /\ lost' = lost \cup gone \cup skipped
                /\ Drained(q, skipped)
                /\ closed => skipped = {} /\ pending' = q
           /\ Goes(count)
           /\ ~closed /\ phase' = "off" =>
                pending' = <<>> /\ (q = <<>> \/ (ByteLimit /\ Range(q) \subseteq bad'))
<1>1. CASE (closed \/ q = <<>>) /\ DrainEnds(q) /\ lost' = lost \cup gone
  <2>1. pending' = q /\ batch' = <<>> /\ phase' = "off"
    BY <1>1 DEF DrainEnds
  <2>2. Range(<<>>) = {} /\ <<>> \in Seq(Nat) /\ Len(<<>>) = 0 /\ Len(q) \in Nat
        /\ InOrder(<<>>)
    BY DEF Range, InOrder
  <2>3. Drained(q, {})
    BY <2>1, <2>2, SizesAssumption DEF Drained, Before
  <2>4. Goes(count)
    BY <1>1 DEF DrainEnds, Goes
  <2>5. lost' = lost \cup gone \cup {} /\ {} \in SUBSET bad'
    BY <1>1
  <2>6. ~closed => pending' = <<>> /\ q = <<>>
    BY <1>1, <2>1
  <2>7. \E skipped \in SUBSET bad' :
                /\ lost' = lost \cup gone \cup skipped
                /\ Drained(q, skipped)
                /\ closed => skipped = {} /\ pending' = q
    BY <2>1, <2>3, <2>5
  <2>8. ~closed /\ phase' = "off" =>
            pending' = <<>> /\ (q = <<>> \/ (ByteLimit /\ Range(q) \subseteq bad'))
    BY <2>6
  <2> QED
    BY <2>4, <2>7, <2>8
<1>2. ASSUME ~closed, NEW n \in TakeBatch(q), NEW taken \in Picked(q, Sendable(q, n)),
             lost' = lost \cup gone \cup Skipped(q, n),
             IF taken = <<>> THEN DrainEnds(SubSeq(q, n + 1, Len(q)))
             ELSE /\ pending' = SubSeq(q, n + 1, Len(q)) /\ batch' = taken
                  /\ phase' = "sending" /\ failures' = count
                  /\ UNCHANGED flush
      PROVE  /\ \E skipped \in SUBSET bad' :
                  /\ lost' = lost \cup gone \cup skipped
                  /\ Drained(q, skipped)
                  /\ closed => skipped = {} /\ pending' = q
             /\ Goes(count)
             /\ ~closed /\ phase' = "off" =>
                  pending' = <<>> /\ (q = <<>> \/ (ByteLimit /\ Range(q) \subseteq bad'))
  <2>1. pending' = SubSeq(q, n + 1, Len(q)) /\ batch' = taken
        /\ (phase' = "off" => taken = <<>>)
    BY <1>2 DEF DrainEnds
  <2>2. /\ Drained(q, Skipped(q, n))
        /\ taken = <<>> => pending' = <<>> /\ ByteLimit /\ Range(q) \subseteq bad'
    BY <2>1, TakenFacts
  <2>3. Goes(count)
    BY <1>2, <2>1 DEF DrainEnds, Goes
  <2>4. Skipped(q, n) \in SUBSET bad'
    BY <2>2 DEF Drained
  <2> QED
    BY <1>2, <2>1, <2>2, <2>3, <2>4
<1> QED
  BY <1>1, <1>2 DEF DrainLoop

-----------------------------------------------------------------------------
(* The invariant                                                            *)

EventTypes ==
    /\ origin \in Seq(Nat) /\ Len(origin) \in Nat
    /\ {pending, batch, sent, received} \subseteq Seq(Nat)
    /\ Range(received) \subseteq Events
    /\ bad \subseteq Events /\ lost \subseteq Events
    /\ closed \in BOOLEAN /\ dropped \in Nat

\* EventsKept, part by part
Accounted ==
    /\ InOrder(sent) /\ InOrder(batch) /\ InOrder(pending)
    /\ Before(sent, batch) /\ Before(sent, pending) /\ Before(batch, pending)
    /\ Range(sent) \cup Range(batch) \cup Range(pending) = Events \ lost

\* What the server has not seen of the batch and the buffer is newer than all
\* it has seen, however the batches were cut
SeenFirst ==
    /\ InOrder(received)
    /\ \A e \in Range(received), d \in (Range(batch) \cup Range(pending)) \ Range(received) :
          e < d

\* On an open uploader a pause ends with something to send
LoopInv ==
    /\ phase \in {"off", "sending", "sleeping"} /\ failures \in 0..MaxFailures
    /\ batch # <<>> <=> phase = "sending"
    /\ ByteLimit => Range(batch) \cap bad = {}
    /\ phase = "off" /\ ~closed => pending = <<>>
    /\ phase = "sleeping" /\ ~closed =>
         pending # <<>> /\ ~(ByteLimit /\ Range(pending) \subseteq bad)

EventInv ==
    /\ EventTypes /\ Accounted /\ SeenFirst /\ LoopInv
    /\ Len(batch) <= MaxBatch /\ QueueBounded

\* What a flush() waits for is accounted for, until close() ends its wait
FlushInv ==
    /\ flush \in [Flushes -> [state : {"none", "waiting", "done", "released"},
                              due : SUBSET Events, before : Nat, after : Nat]]
    /\ \A f \in Flushes : flush[f].state = "waiting" /\ ~closed =>
        /\ flush[f].due \subseteq Range(sent) \cup lost \cup Range(batch) \cup Range(pending)
        /\ flush[f].before <= dropped
        /\ flush[f].before = dropped => flush[f].due \cap lost \subseteq bad
    /\ FlushMeansSent

\* A round of the loop, started with the buffer q, keeps the invariant
LEMMA RoundKeepsEvents ==
    ASSUME NEW q \in Seq(Nat), NEW count \in 0..MaxFailures, NEW gone,
           DrainLoop(q, count, gone), closed' = closed, closed \in BOOLEAN,
           origin' \in Seq(Nat), Len(origin') \in Nat, bad' \subseteq Events', lost \cup gone \subseteq Events',
           sent' \in Seq(Nat), received' \in Seq(Nat), Range(received') \subseteq Events',
           dropped' \in Nat,
           InOrder(sent'), InOrder(q), Before(sent', q), InOrder(received'),
           Range(sent') \cup Range(q) = Events' \ (lost \cup gone),
           \A e \in Range(received'), d \in Range(q) \ Range(received') : e < d,
           Len(q) <= MaxQueue + MaxBatch
    PROVE  EventInv'
<1>1. PICK skipped \in SUBSET bad' :
        /\ lost' = lost \cup gone \cup skipped
        /\ Drained(q, skipped)
  BY DrainFacts
<1>2. /\ Goes(count)
      /\ ~closed /\ phase' = "off" => pending' = <<>>
  BY DrainFacts
<1>3. EventTypes'
  BY <1>1 DEF EventTypes, Drained
<1>4. Range(batch') \subseteq Range(q) /\ Range(pending') \subseteq Range(q)
  BY <1>1 DEF Drained
<1>5. Accounted'
  <2>1. Before(sent', batch') /\ Before(sent', pending')
    BY <1>4 DEF Before
  <2>2. /\ InOrder(batch') /\ InOrder(pending') /\ Before(batch', pending')
        /\ skipped \cap (Range(batch') \cup Range(pending')) = {}
        /\ Range(q) = Range(batch') \cup Range(pending') \cup skipped
    BY <1>1 DEF Drained
  <2>3. \A e \in Range(sent') : e \notin skipped
    <3> SUFFICES ASSUME NEW e \in Range(sent'), e \in Range(q) PROVE FALSE
      BY <2>2
    <3>1. e < e
      BY DEF Before
    <3>2. e \in Nat
      BY DEF Events
    <3> QED
      BY <3>1, <3>2
  <2>4. Range(sent') \cup Range(batch') \cup Range(pending') = Events' \ lost'
    BY <1>1, <2>2, <2>3
  <2> QED
    BY <2>1, <2>2, <2>4 DEF Accounted, Before
<1>6. SeenFirst'
  BY <1>4 DEF SeenFirst
<1>7. LoopInv'
  <2>1. ByteLimit => Range(batch') \cap bad' = {}
    BY <1>1 DEF Drained
  <2>2. count \in 0..MaxFailures /\ 0 \in 0..MaxFailures
    BY SizesAssumption
  <2> QED
    BY <1>2, <2>1, <2>2 DEF LoopInv, Goes
<1>8. Len(batch') <= MaxBatch /\ QueueBounded'
  <2>1. /\ Len(batch') <= MaxBatch /\ Len(batch') + Len(pending') <= Len(q)
        /\ Len(batch') \in Nat /\ Len(pending') \in Nat /\ Len(q) \in Nat
    BY <1>1 DEF Drained
  <2> QED
    BY <2>1, SizesAssumption DEF QueueBounded
<1> QED
  BY <1>3, <1>5, <1>6, <1>7, <1>8 DEF EventInv

LEMMA RoundKeepsFlushes ==
    ASSUME NEW q \in Seq(Nat), NEW count, NEW gone, DrainLoop(q, count, gone),
           FlushInv, closed' = closed, dropped \in Nat, dropped' \in Nat, dropped <= dropped',
           Events \subseteq Events', bad \subseteq bad', Range(sent) \subseteq Range(sent'),
           Range(batch) \cup Range(pending) \subseteq Range(sent') \cup gone \cup Range(q),
           gone # {} => dropped < dropped'
    PROVE  FlushInv'
<1>1. PICK skipped \in SUBSET bad' :
        /\ lost' = lost \cup gone \cup skipped
        /\ Drained(q, skipped)
        /\ closed => skipped = {}
  BY DrainFacts
<1>2. /\ Goes(count)
      /\ Range(q) = Range(batch') \cup Range(pending') \cup skipped
  BY <1>1, DrainFacts DEF Drained
<1> DEFINE Owed(f) ==
        /\ flush[f].due \subseteq Range(sent') \cup lost' \cup Range(batch') \cup Range(pending')
        /\ flush[f].before <= dropped'
        /\ flush[f].before = dropped' => flush[f].due \cap lost' \subseteq bad'
<1>3. /\ flush \in [Flushes -> [state : {"none", "waiting", "done", "released"},
                                due : SUBSET Events', before : Nat, after : Nat]]
      /\ \A f \in Flushes : flush[f].before \in Nat
  BY DEF FlushInv
<1>4. ASSUME NEW f \in Flushes, flush[f].state = "waiting", ~closed PROVE Owed(f)
  <2>1. /\ flush[f].due \subseteq Range(sent) \cup lost \cup Range(batch) \cup Range(pending)
        /\ flush[f].before <= dropped
        /\ flush[f].before = dropped => flush[f].due \cap lost \subseteq bad
    BY <1>4 DEF FlushInv
  <2>2. flush[f].due \subseteq Range(sent') \cup lost' \cup Range(batch') \cup Range(pending')
    BY <1>1, <1>2, <2>1
  <2>3. flush[f].before <= dropped'
    BY <1>3, <2>1
  <2>4. ASSUME flush[f].before = dropped' PROVE flush[f].due \cap lost' \subseteq bad'
    <3>1. flush[f].before = dropped /\ gone = {}
      BY <1>3, <2>1, <2>4
    <3> QED
      BY <1>1, <2>1, <3>1
  <2> QED
    BY <2>2, <2>3, <2>4
<1>5. \A f \in Flushes : flush[f].state = "done" =>
        /\ flush[f].due \subseteq Range(sent') \cup lost'
        /\ flush[f].before = flush[f].after => flush[f].due \subseteq Range(sent') \cup bad'
  BY <1>1 DEF FlushInv, FlushMeansSent
<1>6. CASE flush' = flush
  <2>1. FlushMeansSent'
    BY <1>5, <1>6 DEF FlushMeansSent
  <2> QED
    BY <1>3, <1>4, <1>6, <2>1 DEF FlushInv
<1>7. CASE flush' # flush
  <2>1. /\ pending' = <<>> /\ batch' = <<>> /\ ResolveFlushes
        /\ Range(pending') = {} /\ Range(batch') = {}
    BY <1>2, <1>7 DEF Goes, Range
  <2>2. ASSUME NEW f \in Flushes
        PROVE  /\ flush'[f] \in [state : {"none", "waiting", "done", "released"},
                                 due : SUBSET Events', before : Nat, after : Nat]
               /\ flush'[f].state # "waiting"
               /\ flush'[f].state = "done" =>
                    /\ flush'[f].due \subseteq Range(sent') \cup lost'
                    /\ flush'[f].before = flush'[f].after =>
                         flush'[f].due \subseteq Range(sent') \cup bad'
    <3>1. CASE flush[f].state # "waiting"
      <4>1. flush'[f] = flush[f]
        BY <2>1, <3>1 DEF ResolveFlushes
      <4> QED
        BY <1>3, <1>5, <3>1, <4>1
    <3>2. CASE flush[f].state = "waiting"
      <4>1. flush'[f] = [flush[f] EXCEPT
                !.state = IF closed' THEN "released" ELSE "done", !.after = dropped']
        BY <2>1, <3>2 DEF ResolveFlushes
      <4>2. /\ flush'[f].state = (IF closed' THEN "released" ELSE "done")
            /\ flush'[f].due = flush[f].due /\ flush'[f].before = flush[f].before
            /\ flush'[f].after = dropped'
            /\ flush'[f] \in [state : {"none", "waiting", "done", "released"},
                              due : SUBSET Events', before : Nat, after : Nat]
        BY <1>3, <4>1
      <4>3. ASSUME ~closed
            PROVE  /\ flush[f].due \subseteq Range(sent') \cup lost'
                   /\ flush[f].before = dropped' => flush[f].due \subseteq Range(sent') \cup bad'
        BY <1>4, <2>1, <3>2, <4>3
      <4> QED
        BY <4>2, <4>3
    <3> QED
      BY <3>1, <3>2
  <2>3. flush' \in [Flushes -> [state : {"none", "waiting", "done", "released"},
                                due : SUBSET Events', before : Nat, after : Nat]]
    BY <2>1, <2>2 DEF ResolveFlushes
  <2>4. FlushMeansSent'
    BY <2>2 DEF FlushMeansSent
  <2> QED
    BY <2>2, <2>3, <2>4 DEF FlushInv
<1> QED
  BY <1>6, <1>7

-----------------------------------------------------------------------------
(* One lemma per step on the events                                         *)

\* The server has seen a batch more
LEMMA ReceivesFacts ==
    ASSUME EventInv, Receives
    PROVE  /\ received' \in Seq(Nat) /\ InOrder(received')
           /\ Range(received') = Range(received) \cup Range(batch)
           /\ \A e \in Range(received'), d \in Range(pending) \ Range(received') : e < d
<1> DEFINE P == {i \in DOMAIN batch : batch[i] \notin Range(received)}
<1>1. PICK new \in Picked(batch, P) : received' = received \o new
  BY DEF Receives
<1>2. /\ batch \in Seq(Nat) /\ received \in Seq(Nat) /\ DOMAIN batch = 1..Len(batch)
      /\ InOrder(batch) /\ Before(batch, pending)
  BY DEF EventInv, EventTypes, Accounted
<1>3. P \in SUBSET (1..Len(batch))
  BY <1>2
<1>4. /\ new \in Seq(Nat) /\ InOrder(new)
      /\ Range(new) = {batch[i] : i \in P}
  BY <1>2, <1>3, PickedFacts
<1>5. Range(new) = Range(batch) \ Range(received)
  BY <1>4 DEF Range
<1>6. /\ InOrder(received)
      /\ \A e \in Range(received), d \in (Range(batch) \cup Range(pending)) \ Range(received) :
            e < d
  BY DEF EventInv, SeenFirst
<1>7. Before(received, new)
  BY <1>5, <1>6 DEF Before
<1>8. received' \in Seq(Nat) /\ InOrder(received')
  BY <1>1, <1>2, <1>4, <1>6, <1>7, ConcatRange, ConcatInOrder
<1>9. Range(received') = Range(received) \cup Range(batch)
  BY <1>1, <1>2, <1>4, <1>5, ConcatRange
<1>10. \A e \in Range(received'), d \in Range(pending) \ Range(received') : e < d
  BY <1>2, <1>6, <1>9 DEF Before
<1> QED
  BY <1>8, <1>9, <1>10

\* What a failed or successful POST leaves the server with
LEMMA SeenAfterPost ==
    ASSUME EventInv, Receives \/ UNCHANGED received
    PROVE  /\ received' \in Seq(Nat) /\ InOrder(received')
           /\ Range(received') \subseteq Events
           /\ \A e \in Range(received'), d \in Range(pending) \ Range(received') : e < d
           /\ \A e \in Range(received'),
                 d \in (Range(batch) \cup Range(pending)) \ Range(received') : e < d
<1>1. CASE Receives
  BY <1>1, ReceivesFacts DEF EventInv, EventTypes, Accounted
<1>2. CASE UNCHANGED received
  BY <1>2 DEF EventInv, EventTypes, SeenFirst
<1> QED
  BY <1>1, <1>2

LEMMA EventFacts ==
    ASSUME EventInv
    PROVE  /\ pending \in Seq(Nat) /\ batch \in Seq(Nat) /\ sent \in Seq(Nat)
           /\ Len(pending) \in Nat /\ Len(batch) \in Nat
           /\ Len(pending) + Len(batch) <= MaxQueue + MaxBatch
           /\ Len(pending) <= MaxQueue + MaxBatch
           /\ closed \in BOOLEAN /\ dropped \in Nat
           /\ origin \in Seq(Nat) /\ Len(origin) \in Nat
           /\ bad \subseteq Events /\ lost \subseteq Events
           /\ Range(batch) \subseteq Events /\ Range(pending) \subseteq Events
           /\ failures \in 0..MaxFailures /\ 0 \in 0..MaxFailures
<1>1. /\ pending \in Seq(Nat) /\ batch \in Seq(Nat) /\ sent \in Seq(Nat)
      /\ Len(pending) \in Nat /\ Len(batch) \in Nat
  BY DEF EventInv, EventTypes
<1>2. Len(pending) + Len(batch) <= MaxQueue + MaxBatch /\ Len(pending) <= MaxQueue + MaxBatch
  BY <1>1, SizesAssumption DEF EventInv, QueueBounded
<1> QED
  BY <1>1, <1>2, SizesAssumption DEF EventInv, EventTypes, Accounted, LoopInv

LEMMA SendSucceedsKeeps ==
    ASSUME EventInv, FlushInv, SendSucceeds
    PROVE  EventInv' /\ FlushInv'
<1>1. /\ DrainLoop(pending, 0, {}) /\ Receives /\ sent' = sent \o batch
      /\ closed' = closed /\ origin' = origin /\ bad' = bad /\ dropped' = dropped
      /\ Events' = Events
  BY DEF SendSucceeds, Events
<1>2. /\ sent' \in Seq(Nat) /\ Range(sent') = Range(sent) \cup Range(batch)
      /\ InOrder(sent')
  BY <1>1, ConcatRange, ConcatInOrder, EventFacts DEF EventInv, Accounted
<1>3. /\ Before(sent', pending) /\ InOrder(pending)
      /\ Range(sent') \cup Range(pending) = Events \ (lost \cup {})
  BY <1>2 DEF EventInv, Accounted, Before
<1>4. EventInv'
  BY <1>1, <1>2, <1>3, EventFacts, SeenAfterPost, RoundKeepsEvents
<1>5. FlushInv'
  BY <1>1, <1>2, EventFacts, RoundKeepsFlushes
<1> QED
  BY <1>4, <1>5

LEMMA BatchDroppedKeeps ==
    ASSUME EventInv, FlushInv, BatchDropped
    PROVE  EventInv' /\ FlushInv'
<1>1. /\ DrainLoop(pending, 0, Range(batch)) /\ (Receives \/ UNCHANGED received)
      /\ sent' = sent /\ dropped' = dropped + 1
      /\ closed' = closed /\ origin' = origin /\ bad' = bad
      /\ Events' = Events
  BY DEF BatchDropped, SendFailed, Events
<1>2. /\ InOrder(sent) /\ InOrder(pending) /\ Before(sent, pending)
      /\ Range(sent) \cup Range(pending) = Events \ (lost \cup Range(batch))
  <2>1. /\ InOrder(sent) /\ InOrder(pending)
        /\ Before(sent, pending) /\ Before(sent, batch) /\ Before(batch, pending)
        /\ Range(sent) \cup Range(batch) \cup Range(pending) = Events \ lost
    BY DEF EventInv, Accounted
  <2>2. \A e \in Range(batch) : e \in Nat /\ e \notin Range(sent) /\ e \notin Range(pending)
    <3> SUFFICES ASSUME NEW e \in Range(batch)
                 PROVE  e \in Nat /\ e \notin Range(sent) /\ e \notin Range(pending)
      OBVIOUS
    <3>1. e \in Nat /\ ~(e < e)
      BY EventFacts DEF Events
    <3> QED
      BY <2>1, <3>1 DEF Before
  <2> QED
    BY <2>1, <2>2
<1>3. EventInv'
  <2>1. /\ InOrder(sent') /\ Before(sent', pending) /\ sent' \in Seq(Nat)
        /\ Range(sent') \cup Range(pending) = Events' \ (lost \cup Range(batch))
    BY <1>1, <1>2, EventFacts
  <2>2. /\ received' \in Seq(Nat) /\ InOrder(received') /\ Range(received') \subseteq Events'
        /\ \A e \in Range(received'), d \in Range(pending) \ Range(received') : e < d
    BY <1>1, SeenAfterPost
  <2>3. /\ origin' \in Seq(Nat) /\ Len(origin') \in Nat /\ bad' \subseteq Events' /\ dropped' \in Nat
        /\ lost \cup Range(batch) \subseteq Events'
    BY <1>1, EventFacts
  <2> QED
    BY <1>1, <1>2, <2>1, <2>2, <2>3, EventFacts, RoundKeepsEvents
<1>4. FlushInv'
  <2>1. dropped <= dropped' /\ dropped < dropped' /\ dropped' \in Nat
    BY <1>1, EventFacts
  <2> QED
    BY <1>1, <2>1, EventFacts, RoundKeepsFlushes
<1> QED
  BY <1>3, <1>4

LEMMA SleepEndsKeeps ==
    ASSUME EventInv, FlushInv, SleepEnds
    PROVE  EventInv' /\ FlushInv'
<1>1. /\ DrainLoop(pending, failures, {}) /\ phase = "sleeping"
      /\ sent' = sent /\ dropped' = dropped /\ received' = received
      /\ closed' = closed /\ origin' = origin /\ bad' = bad
      /\ Events' = Events
  BY DEF SleepEnds, Events
<1>2. batch = <<>> /\ Range(batch) = {}
  <2>1. batch = <<>>
    BY <1>1 DEF EventInv, LoopInv
  <2> QED
    BY <2>1 DEF Range
<1>3. /\ InOrder(sent) /\ InOrder(pending) /\ Before(sent, pending)
      /\ Range(sent) \cup Range(pending) = Events \ (lost \cup {})
  BY <1>2 DEF EventInv, Accounted
<1>4. /\ received \in Seq(Nat) /\ InOrder(received) /\ Range(received) \subseteq Events
      /\ \A e \in Range(received), d \in Range(pending) \ Range(received) : e < d
  BY DEF EventInv, EventTypes, SeenFirst
<1>5. EventInv'
  BY <1>1, <1>3, <1>4, EventFacts, RoundKeepsEvents
<1>6. FlushInv'
  BY <1>1, <1>2, EventFacts, RoundKeepsFlushes
<1> QED
  BY <1>5, <1>6

LEMMA SendFailsKeeps ==
    ASSUME EventInv, FlushInv, SendFails
    PROVE  EventInv' /\ FlushInv'
<1>1. /\ phase = "sending" /\ (Receives \/ UNCHANGED received) /\ ~Exhausted
      /\ pending' = batch \o pending /\ batch' = <<>> /\ phase' = "sleeping"
      /\ failures' = IF MaxFailures = 0 THEN 0 ELSE failures + 1
      /\ sent' = sent /\ dropped' = dropped /\ lost' = lost /\ flush' = flush
      /\ closed' = closed /\ origin' = origin /\ bad' = bad
      /\ Events' = Events
  BY DEF SendFails, SendFailed, Requeue, Events
<1>2. /\ pending' \in Seq(Nat) /\ Range(pending') = Range(batch) \cup Range(pending)
      /\ InOrder(pending') /\ Len(pending') = Len(batch) + Len(pending)
  BY <1>1, ConcatRange, ConcatInOrder, EventFacts DEF EventInv, Accounted
<1>3. Range(batch') = {} /\ Len(batch') = 0 /\ batch' \in Seq(Nat) /\ InOrder(batch')
  BY <1>1 DEF Range, InOrder
<1>4. EventTypes'
  BY <1>1, <1>2, <1>3, EventFacts, SeenAfterPost DEF EventTypes
<1>5. Accounted'
  BY <1>1, <1>2, <1>3 DEF EventInv, Accounted, Before
<1>6. SeenFirst'
  BY <1>1, <1>2, <1>3, SeenAfterPost DEF SeenFirst
<1>7. LoopInv'
  <2>1. failures' \in 0..MaxFailures
    BY <1>1, EventFacts, SizesAssumption DEF Exhausted
  <2>2. ~(ByteLimit /\ Range(pending') \subseteq bad')
    <3>1. batch # <<>> /\ Range(batch) # {} /\ (ByteLimit => Range(batch) \cap bad = {})
      BY <1>1, EmptyRange, EventFacts DEF EventInv, LoopInv
    <3> QED
      BY <1>1, <1>2, <3>1
  <2>3. pending' # <<>>
    <3>1. batch # <<>>
      BY <1>1 DEF EventInv, LoopInv
    <3>2. Len(batch) # 0
      BY <3>1, EventFacts, EmptySeq
    <3>3. Len(pending') # 0
      BY <1>2, <3>2, EventFacts
    <3> QED
      BY <3>3
  <2> QED
    BY <1>1, <1>3, <2>1, <2>2, <2>3 DEF LoopInv
<1>8. Len(batch') <= MaxBatch /\ QueueBounded'
  BY <1>2, <1>3, EventFacts, SizesAssumption DEF QueueBounded
<1>9. FlushInv'
  <2>1. FlushMeansSent'
    BY <1>1 DEF FlushInv, FlushMeansSent
  <2> QED
    BY <1>1, <1>2, <1>3, <2>1 DEF FlushInv
<1> QED
  BY <1>4, <1>5, <1>6, <1>7, <1>8, <1>9 DEF EventInv

LEMMA CloseKeeps ==
    ASSUME EventInv, FlushInv, Close
    PROVE  EventInv' /\ FlushInv'
<1>1. /\ closed' = TRUE /\ pending' = <<>> /\ lost' = lost \cup Range(pending)
      /\ batch' = batch /\ phase' = phase /\ failures' = failures
      /\ sent' = sent /\ received' = received /\ dropped' = dropped
      /\ origin' = origin /\ bad' = bad /\ Events' = Events /\ ResolveFlushes
  BY DEF Close, Events
<1>2. Range(pending') = {} /\ Len(pending') = 0 /\ pending' \in Seq(Nat) /\ InOrder(pending')
  BY <1>1 DEF Range, InOrder
<1>3. EventTypes'
  BY <1>1, <1>2, EventFacts DEF EventInv, EventTypes
<1>4. Accounted'
  <2>1. /\ Before(sent, pending) /\ Before(batch, pending)
        /\ InOrder(sent) /\ InOrder(batch) /\ Before(sent, batch)
        /\ Range(sent) \cup Range(batch) \cup Range(pending) = Events \ lost
    BY DEF EventInv, Accounted
  <2>2. \A e \in Range(pending) : e \notin Range(sent) /\ e \notin Range(batch)
    <3> SUFFICES ASSUME NEW e \in Range(pending)
                 PROVE  e \notin Range(sent) /\ e \notin Range(batch)
      OBVIOUS
    <3>1. e \in Nat /\ ~(e < e)
      BY EventFacts DEF Events
    <3> QED
      BY <2>1, <3>1 DEF Before
  <2> QED
    BY <1>1, <1>2, <2>1, <2>2 DEF Accounted, Before
<1>5. SeenFirst'
  BY <1>1, <1>2 DEF EventInv, SeenFirst
<1>6. LoopInv'
  BY <1>1 DEF EventInv, LoopInv
<1>7. Len(batch') <= MaxBatch /\ QueueBounded'
  BY <1>1, <1>2, EventFacts, SizesAssumption DEF EventInv, QueueBounded
<1>8. FlushInv'
  <2>1. ASSUME NEW f \in Flushes
        PROVE  /\ flush'[f] \in [state : {"none", "waiting", "done", "released"},
                                 due : SUBSET Events, before : Nat, after : Nat]
               /\ flush'[f].state = "done" => flush'[f] = flush[f]
    <3>1. flush[f] \in [state : {"none", "waiting", "done", "released"},
                        due : SUBSET Events, before : Nat, after : Nat]
      BY DEF FlushInv
    <3>2. CASE flush[f].state # "waiting"
      BY <1>1, <3>1, <3>2 DEF ResolveFlushes
    <3>3. CASE flush[f].state = "waiting"
      <4>1. flush'[f] = [flush[f] EXCEPT !.state = "released", !.after = dropped]
        BY <1>1, <3>3 DEF ResolveFlushes
      <4> QED
        BY <3>1, <4>1, EventFacts
    <3> QED
      BY <3>2, <3>3
  <2>2. flush' \in [Flushes -> [state : {"none", "waiting", "done", "released"},
                                due : SUBSET Events', before : Nat, after : Nat]]
    BY <1>1, <2>1 DEF ResolveFlushes
  <2>3. FlushMeansSent'
    BY <1>1, <2>1 DEF FlushInv, FlushMeansSent
  <2> QED
    BY <1>1, <2>2, <2>3 DEF FlushInv
<1> QED
  BY <1>3, <1>4, <1>5, <1>6, <1>7, <1>8 DEF EventInv

LEMMA FlushKeeps ==
    ASSUME EventInv, FlushInv, Flush
    PROVE  EventInv' /\ FlushInv'
<1>1. /\ UNCHANGED <<callVars, origin, bad, loopVars, closed, settled>> /\ Events' = Events
  BY DEF Flush, Events
<1>2. EventInv'
  BY <1>1 DEF EventInv, EventTypes, Accounted, SeenFirst, LoopInv, QueueBounded,
     callVars, loopVars, settled
<1>3. PICK f \in Flushes :
        /\ flush[f].state = "none"
        /\ flush' = [flush EXCEPT ![f] =
            [state |-> IF ~FlushNow THEN "waiting" ELSE IF closed THEN "released" ELSE "done",
             due |-> Range(batch \o pending), before |-> dropped, after |-> dropped]]
  BY DEF Flush
<1>4. Range(batch \o pending) = Range(batch) \cup Range(pending)
  BY ConcatRange, EventFacts
<1>5. flush'[f].due = Range(batch) \cup Range(pending) /\ flush'[f].before = dropped
      /\ flush'[f].after = dropped
      /\ flush'[f].state = (IF ~FlushNow THEN "waiting" ELSE IF closed THEN "released" ELSE "done")
      /\ \A g \in Flushes \ {f} : flush'[g] = flush[g]
  BY <1>3, <1>4 DEF FlushInv
<1>6. flush' \in [Flushes -> [state : {"none", "waiting", "done", "released"},
                              due : SUBSET Events', before : Nat, after : Nat]]
  BY <1>1, <1>3, <1>4, EventFacts DEF FlushInv
<1>7. FlushNow => Range(batch) \cup Range(pending) = {}
  <2> SUFFICES ASSUME FlushNow PROVE Range(batch) \cup Range(pending) = {}
    OBVIOUS
  <2>1. batch = <<>> /\ pending = <<>>
    BY DEF EventInv, LoopInv, FlushNow
  <2> QED
    BY <2>1 DEF Range
<1>8. lost \cap Range(batch) = {} /\ lost \cap Range(pending) = {}
  BY DEF EventInv, Accounted
<1>9. /\ sent' = sent /\ lost' = lost /\ batch' = batch /\ pending' = pending
      /\ dropped' = dropped /\ bad' = bad /\ closed' = closed
  BY <1>1 DEF loopVars, settled
<1>10. FlushMeansSent'
  BY <1>5, <1>7, <1>9 DEF FlushInv, FlushMeansSent
<1>11. FlushInv'
  <2> SUFFICES ASSUME NEW g \in Flushes, flush'[g].state = "waiting", ~closed
               PROVE  /\ flush'[g].due \subseteq Range(sent) \cup lost \cup Range(batch) \cup Range(pending)
                      /\ flush'[g].before <= dropped
                      /\ flush'[g].before = dropped => flush'[g].due \cap lost \subseteq bad
    BY <1>6, <1>9, <1>10 DEF FlushInv
  <2>1. CASE g = f
    BY <1>5, <1>8, <2>1, EventFacts
  <2>2. CASE g # f
    BY <1>5, <2>2 DEF FlushInv
  <2> QED
    BY <2>1, <2>2
<1> QED
  BY <1>2, <1>11

\* The events that enqueue() adds are newer than all others
LEMMA NewEvents ==
    ASSUME origin \in Seq(Nat), NEW k \in Nat, NEW n \in Sizes,
           origin' = origin \o [i \in 1..n |-> k]
    PROVE  LET new == [i \in 1..n |-> Len(origin) + i] IN
           /\ n \in Nat \ {0} /\ Len(origin) \in Nat
           /\ new \in Seq(Nat) /\ Len(new) = n /\ InOrder(new)
           /\ Range(new) = {Len(origin) + i : i \in 1..n}
           /\ origin' \in Seq(Nat) /\ Len(origin') = Len(origin) + n
           /\ Events' = Events \cup Range(new)
           /\ \A e \in Events, d \in Range(new) : e < d
<1> DEFINE new == [i \in 1..n |-> Len(origin) + i]
<1>1. n \in Nat \ {0} /\ Len(origin) \in Nat
  BY MaxItemsAssumption, SizesAssumption DEF Sizes
<1>2. new \in Seq(Nat) /\ Len(new) = n /\ DOMAIN new = 1..n
  BY <1>1
<1>3. Range(new) = {Len(origin) + i : i \in 1..n}
  BY <1>1 DEF Range
<1>4. InOrder(new)
  BY <1>1, <1>2 DEF InOrder
<1>5. [i \in 1..n |-> k] \in Seq(Nat) /\ Len([i \in 1..n |-> k]) = n
  BY <1>1
<1>6. origin' \in Seq(Nat) /\ Len(origin') = Len(origin) + n
  BY <1>1, <1>5
<1>7. \A e \in Events, d \in Range(new) : e < d
  BY <1>1, <1>3 DEF Events
<1>8. Events' = Events \cup Range(new)
  <2>1. Events' = 1..(Len(origin) + n)
    BY <1>6 DEF Events
  <2>2. ASSUME NEW e \in 1..(Len(origin) + n) PROVE e \in Events \cup Range(new)
    <3>1. CASE e <= Len(origin)
      BY <1>1, <3>1 DEF Events
    <3>2. CASE e > Len(origin)
      <4>1. e - Len(origin) \in 1..n /\ e = Len(origin) + (e - Len(origin))
        BY <1>1, <2>2, <3>2
      <4> QED
        BY <1>3, <4>1
    <3> QED
      BY <1>1, <2>2, <3>1, <3>2
  <2>3. Events \cup Range(new) \subseteq 1..(Len(origin) + n)
    <3>1. \A i \in 1..n : Len(origin) + i \in 1..(Len(origin) + n)
      BY <1>1
    <3>2. Events \subseteq 1..(Len(origin) + n)
      BY <1>1 DEF Events
    <3> HIDE DEF new
    <3> QED
      BY <1>3, <3>1, <3>2
  <2> QED
    BY <2>1, <2>2, <2>3
<1> QED
  BY <1>1, <1>2, <1>3, <1>4, <1>6, <1>7, <1>8

LEMMA PushKeeps ==
    ASSUME EventInv, FlushInv, ~closed, NEW k \in Nat, NEW n \in Sizes, Fits(n), Push(k, n)
    PROVE  EventInv' /\ FlushInv'
<1> DEFINE new == [i \in 1..n |-> Len(origin) + i]
           q == pending \o new
<1>1. /\ origin' = origin \o [i \in 1..n |-> k]
      /\ closed' = closed /\ sent' = sent /\ received' = received /\ dropped' = dropped
      /\ IF phase = "off" THEN DrainLoop(q, 0, {})
         ELSE /\ pending' = q /\ batch' = batch /\ phase' = phase
              /\ failures' = failures /\ flush' = flush /\ lost' = lost
  BY DEF Push, settled, loopVars
<1>2. \E B \in SUBSET {Len(origin) + i : i \in 1..n} : bad' = bad \cup B
  BY DEF Push
<1>3. /\ n \in Nat \ {0} /\ Len(origin) \in Nat
      /\ new \in Seq(Nat) /\ Len(new) = n /\ InOrder(new)
      /\ Range(new) = {Len(origin) + i : i \in 1..n}
      /\ origin' \in Seq(Nat) /\ Len(origin') = Len(origin) + n
      /\ Events' = Events \cup Range(new)
      /\ \A e \in Events, d \in Range(new) : e < d
  BY <1>1, NewEvents, EventFacts
<1> HIDE DEF new
<1>4. /\ Events \subseteq Events' /\ bad \subseteq bad' /\ bad' \subseteq Events'
      /\ bad' \cap Events = bad
  <2>1. PICK B \in SUBSET Range(new) : bad' = bad \cup B
    BY <1>2, <1>3
  <2>2. \A e \in Range(new) : e \notin Events
    <3> SUFFICES ASSUME NEW e \in Events, e \in Range(new) PROVE FALSE
      OBVIOUS
    <3>1. e < e /\ e \in Nat
      BY <1>3 DEF Events
    <3> QED
      BY <3>1
  <2> QED
    BY <1>3, <2>1, <2>2, EventFacts
<1>5. /\ pending \in Seq(Nat) /\ Range(pending) \subseteq Events /\ InOrder(pending)
      /\ sent \in Seq(Nat) /\ Range(sent) \subseteq Events /\ Range(batch) \subseteq Events
      /\ Range(received) \subseteq Events
  BY EventFacts DEF EventInv, Accounted, EventTypes
<1>0. q = pending \o new
  OBVIOUS
<1> HIDE DEF q
<1>6. q \in Seq(Nat) /\ Range(q) = Range(pending) \cup Range(new)
  BY <1>3, <1>5, <1>0, ConcatRange
<1>7. InOrder(q)
  BY <1>3, <1>5, <1>0, ConcatInOrder DEF Before
<1>8. Len(q) <= MaxQueue /\ Len(q) <= MaxQueue + MaxBatch /\ q # <<>>
  <2>1. pending \in Seq(Nat) /\ new \in Seq(Nat) /\ Len(new) = n /\ n \in Nat
    BY <1>3, <1>5
  <2>2. Len(q) = Len(pending) + Len(new) /\ Len(pending) \in Nat
    BY <2>1, <1>0, ConcatLen
  <2>3. Len(pending) + n <= MaxQueue
    BY DEF Fits
  <2>4. Len(q) # 0
    BY <1>3, <2>1, <2>2
  <2> QED
    BY <2>1, <2>2, <2>3, <2>4, SizesAssumption
<1>9. lost \subseteq Events /\ lost \cap Range(new) = {}
  <2>1. \A e \in Range(new) : e \notin Events
    <3> SUFFICES ASSUME NEW e \in Events, e \in Range(new) PROVE FALSE
      OBVIOUS
    <3>1. e < e /\ e \in Nat
      BY <1>3 DEF Events
    <3> QED
      BY <3>1
  <2> QED
    BY <2>1, EventFacts
<1>10. Before(sent, q) /\ Before(batch, q)
  BY <1>3, <1>5, <1>6 DEF EventInv, Accounted, Before
<1>11. Range(sent) \cup Range(batch) \cup Range(q) = Events' \ lost
  BY <1>3, <1>6, <1>9 DEF EventInv, Accounted
<1>12. \A e \in Range(received), d \in (Range(batch) \cup Range(q)) \ Range(received) : e < d
  BY <1>3, <1>5, <1>6 DEF EventInv, SeenFirst
<1>13. /\ received \in Seq(Nat) /\ InOrder(received) /\ InOrder(sent)
       /\ dropped \in Nat /\ closed \in BOOLEAN
  BY EventFacts DEF EventInv, Accounted, SeenFirst, EventTypes
<1>14. CASE phase = "off"
  <2>1. batch = <<>> /\ Range(batch) = {}
    <3>1. batch = <<>>
      BY <1>14 DEF EventInv, LoopInv
    <3> QED
      BY <3>1 DEF Range
  <2>2. DrainLoop(q, 0, {}) /\ 0 \in 0..MaxFailures
    BY <1>1, <1>14, SizesAssumption
  <2>3. /\ InOrder(sent') /\ Before(sent', q) /\ sent' \in Seq(Nat)
        /\ Range(sent') \cup Range(q) = Events' \ (lost \cup {})
        /\ lost \cup {} \subseteq Events'
    BY <1>1, <1>4, <1>5, <1>9, <1>10, <1>11, <1>13, <2>1
  <2>4. /\ received' \in Seq(Nat) /\ InOrder(received') /\ Range(received') \subseteq Events'
        /\ \A e \in Range(received'), d \in Range(q) \ Range(received') : e < d
    BY <1>1, <1>4, <1>5, <1>12, <1>13
  <2>5. EventInv'
    <3>1. origin' \in Seq(Nat) /\ Len(origin') \in Nat
      <4> HIDE DEF new
      <4>1. Len(origin') = Len(origin) + n /\ Len(origin) \in Nat /\ n \in Nat
        BY <1>3
      <4>2. origin' \in Seq(Nat)
        BY <1>3
      <4> QED
        BY <4>1, <4>2
    <3>2. bad' \subseteq Events'
      BY <1>4
    <3>3. dropped' \in Nat
      BY <1>1, <1>13
    <3> QED
      BY <1>1, <1>6, <1>7, <1>8, <1>13, <2>2, <2>3, <2>4, <3>1, <3>2, <3>3, RoundKeepsEvents
  <2>6. FlushInv'
    <3>1. Range(batch) \cup Range(pending) \subseteq Range(sent') \cup {} \cup Range(q)
      BY <1>6, <2>1
    <3>2. dropped \in Nat /\ dropped' \in Nat /\ dropped <= dropped' /\ Range(sent) \subseteq Range(sent')
      BY <1>1, <1>13
    <3> QED
      BY <1>1, <1>4, <1>6, <2>2, <3>1, <3>2, RoundKeepsFlushes
  <2> QED
    BY <2>5, <2>6
<1>15. CASE phase # "off"
  <2>1. /\ pending' = q /\ batch' = batch /\ phase' = phase
        /\ failures' = failures /\ flush' = flush /\ lost' = lost
    BY <1>1, <1>15
  <2>2. EventTypes'
    <3>1. origin' \in Seq(Nat) /\ Len(origin') \in Nat
      BY <1>3
    <3>3. bad' \subseteq Events' /\ lost' \subseteq Events' /\ Range(received') \subseteq Events'
      BY <1>1, <1>4, <1>5, <1>9, <2>1
    <3>2. batch' \in Seq(Nat) /\ pending' \in Seq(Nat) /\ sent' \in Seq(Nat) /\ received' \in Seq(Nat)
      BY <1>1, <1>5, <1>6, <1>13, <2>1, EventFacts
    <3> QED
      BY <1>1, <1>13, <3>1, <3>2, <3>3 DEF EventTypes
  <2>3. Accounted'
    BY <1>1, <1>7, <1>10, <1>11, <2>1 DEF EventInv, Accounted, Before
  <2>4. SeenFirst'
    BY <1>1, <1>12, <1>13, <2>1 DEF SeenFirst
  <2>5. LoopInv'
    <3>1. ByteLimit => Range(batch) \cap bad' = {}
      BY <1>4, <1>5 DEF EventInv, LoopInv
    <3>2. ByteLimit /\ Range(q) \subseteq bad' => Range(pending) \subseteq bad
      BY <1>4, <1>5, <1>6
    <3> QED
      BY <1>1, <1>8, <1>15, <2>1, <3>1, <3>2 DEF EventInv, LoopInv
  <2>6. Len(batch') <= MaxBatch /\ QueueBounded'
    <3>1. Len(batch) <= MaxBatch /\ Len(batch) \in Nat /\ Len(q) \in Nat
      BY <1>6, EventFacts DEF EventInv
    <3> QED
      BY <1>8, <2>1, <3>1, SizesAssumption DEF QueueBounded
  <2>7. FlushInv'
    <3>1. FlushMeansSent'
      BY <1>1, <1>4, <2>1 DEF FlushInv, FlushMeansSent
    <3>2. \A f \in Flushes : flush[f].due \subseteq Events
      BY DEF FlushInv
    <3>3. flush' \in [Flushes -> [state : {"none", "waiting", "done", "released"},
                                  due : SUBSET Events', before : Nat, after : Nat]]
      BY <1>4, <2>1 DEF FlushInv
    <3> QED
      BY <1>1, <1>4, <1>6, <2>1, <3>1, <3>2, <3>3 DEF FlushInv
  <2> QED
    BY <2>2, <2>3, <2>4, <2>5, <2>6, <2>7 DEF EventInv
<1> QED
  BY <1>14, <1>15

-----------------------------------------------------------------------------
(* The callers                                                              *)

Distinct(q) == \A i, j \in DOMAIN q : q[i] = q[j] => i = j

\* A call that is blocked waits in one place only, and the loop is at work as
\* long as one waits for space
CallerInv ==
    /\ calls \in Seq([size : Sizes, state : {"blocked", "accepted", "refused"}])
    /\ Len(calls) <= NumCalls
    /\ {blocked, woken, origin} \subseteq Seq(DOMAIN calls)
    /\ Distinct(woken) /\ Distinct(blocked) /\ Range(woken) \cap Range(blocked) = {}
    /\ Range(woken) \cup Range(blocked) = {k \in DOMAIN calls : calls[k].state = "blocked"}
    /\ phase = "off" /\ ~closed => blocked = <<>>

LEMMA ConcatDistinct ==
    ASSUME NEW S, NEW q \in Seq(S), NEW r \in Seq(S),
           Distinct(q), Distinct(r), Range(q) \cap Range(r) = {}
    PROVE  Distinct(q \o r)
<1>1. /\ DOMAIN (q \o r) = 1..(Len(q) + Len(r))
      /\ DOMAIN q = 1..Len(q) /\ DOMAIN r = 1..Len(r)
      /\ Len(q) \in Nat /\ Len(r) \in Nat
  OBVIOUS
<1>2. /\ \A i \in 1..Len(q) : (q \o r)[i] = q[i]
      /\ \A i \in 1..Len(r) : (q \o r)[Len(q) + i] = r[i]
  OBVIOUS
<1> SUFFICES ASSUME NEW i \in 1..(Len(q) + Len(r)), NEW j \in 1..(Len(q) + Len(r)),
                    i < j
             PROVE  (q \o r)[i] # (q \o r)[j]
  BY <1>1 DEF Distinct
<1>3. CASE j <= Len(q)
  <2>1. i \in 1..Len(q) /\ j \in 1..Len(q) /\ i # j
    BY <1>1, <1>3
  <2> QED
    BY <1>1, <1>2, <2>1 DEF Distinct
<1>4. CASE i > Len(q)
  <2> DEFINE k == i - Len(q)  l == j - Len(q)
  <2>1. k \in 1..Len(r) /\ l \in 1..Len(r) /\ k # l /\ i = Len(q) + k /\ j = Len(q) + l
    BY <1>1, <1>4
  <2> HIDE DEF k, l
  <2> QED
    BY <1>1, <1>2, <2>1 DEF Distinct
<1>5. CASE i <= Len(q) /\ j > Len(q)
  <2> DEFINE l == j - Len(q)
  <2>1. i \in 1..Len(q) /\ l \in 1..Len(r) /\ j = Len(q) + l
    BY <1>1, <1>5
  <2> HIDE DEF l
  <2>2. q[i] \in Range(q) /\ r[l] \in Range(r)
    BY <1>1, <2>1 DEF Range
  <2> QED
    BY <1>2, <2>1, <2>2
<1> QED
  BY <1>1, <1>3, <1>4, <1>5

LEMMA TailDistinct ==
    ASSUME NEW S, NEW q \in Seq(S), q # <<>>, Distinct(q)
    PROVE  /\ Head(q) \in S /\ Head(q) \in Range(q)
           /\ Tail(q) \in Seq(S) /\ Distinct(Tail(q))
           /\ Range(Tail(q)) = Range(q) \ {Head(q)}
<1>1. /\ Len(q) \in Nat /\ Len(q) >= 1 /\ DOMAIN q = 1..Len(q)
      /\ Head(q) = q[1] /\ Tail(q) \in Seq(S) /\ Len(Tail(q)) = Len(q) - 1
      /\ DOMAIN Tail(q) = 1..(Len(q) - 1)
  OBVIOUS
<1>2. \A i \in 1..(Len(q) - 1) : Tail(q)[i] = q[i + 1]
  OBVIOUS
<1>3. Head(q) \in S /\ Head(q) \in Range(q)
  BY <1>1 DEF Range
<1>4. Distinct(Tail(q))
  <2> SUFFICES ASSUME NEW i \in 1..(Len(q) - 1), NEW j \in 1..(Len(q) - 1),
                      Tail(q)[i] = Tail(q)[j]
               PROVE  i = j
    BY <1>1 DEF Distinct
  <2>1. q[i + 1] = q[j + 1] /\ i + 1 \in 1..Len(q) /\ j + 1 \in 1..Len(q)
    BY <1>1, <1>2
  <2>2. i + 1 = j + 1
    BY <1>1, <2>1 DEF Distinct
  <2> QED
    BY <2>2
<1>5. ASSUME NEW x \in Range(Tail(q)) PROVE x \in Range(q) /\ x # Head(q)
  <2>1. PICK i \in 1..(Len(q) - 1) : x = Tail(q)[i]
    BY <1>1, <1>5 DEF Range
  <2>2. x = q[i + 1] /\ i + 1 \in 1..Len(q) /\ 1 \in 1..Len(q) /\ i + 1 # 1
    BY <1>1, <1>2, <2>1
  <2> QED
    BY <1>1, <2>2 DEF Distinct, Range
<1>6. ASSUME NEW x \in Range(q), x # Head(q) PROVE x \in Range(Tail(q))
  <2>1. PICK i \in 1..Len(q) : x = q[i]
    BY <1>1, <1>6 DEF Range
  <2>2. i - 1 \in 1..(Len(q) - 1) /\ (i - 1) + 1 = i
    BY <1>1, <1>6, <2>1
  <2>3. Tail(q)[i - 1] = x
    BY <1>2, <2>1, <2>2
  <2> QED
    BY <1>1, <2>2, <2>3 DEF Range
<1> QED
  BY <1>1, <1>3, <1>4, <1>5, <1>6

LEMMA AppendDistinct ==
    ASSUME NEW S, NEW q \in Seq(S), NEW x \in S
    PROVE  /\ Append(q, x) \in Seq(S) /\ Range(Append(q, x)) = Range(q) \cup {x}
           /\ Distinct(q) /\ x \notin Range(q) => Distinct(Append(q, x))
<1>1. <<x>> \in Seq(S) /\ Append(q, x) = q \o <<x>>
  OBVIOUS
<1>2. Range(<<x>>) = {x} /\ Distinct(<<x>>)
  BY DEF Range, Distinct
<1>3. Append(q, x) \in Seq(S) /\ Range(Append(q, x)) = Range(q) \cup {x}
  <2>1. q \o <<x>> \in Seq(S) /\ Range(q \o <<x>>) = Range(q) \cup Range(<<x>>)
    BY <1>1, ConcatRange
  <2> QED
    BY <1>1, <1>2, <2>1
<1>4. ASSUME Distinct(q), x \notin Range(q) PROVE Distinct(Append(q, x))
  <2>1. Range(q) \cap Range(<<x>>) = {}
    BY <1>2, <1>4
  <2>2. Distinct(q \o <<x>>)
    BY <1>1, <1>2, <1>4, <2>1, ConcatDistinct
  <2> QED
    BY <1>1, <2>2
<1> QED
  BY <1>3, <1>4

\* The callers after a release of those that wait for space
LEMMA ReleaseKeeps ==
    ASSUME CallerInv, ReleaseBackpressure, calls' = calls, origin' = origin
    PROVE  CallerInv'
<1>1. /\ blocked' = <<>> /\ woken' = woken \o blocked
      /\ woken \in Seq(DOMAIN calls) /\ blocked \in Seq(DOMAIN calls)
  BY DEF ReleaseBackpressure, CallerInv
<1>2. /\ woken' \in Seq(DOMAIN calls) /\ Range(woken') = Range(woken) \cup Range(blocked)
      /\ Distinct(woken')
  BY <1>1, ConcatRange, ConcatDistinct DEF CallerInv
<1>3. blocked' \in Seq(DOMAIN calls) /\ Range(blocked') = {} /\ Distinct(blocked')
  BY <1>1 DEF Range, Distinct
<1> QED
  BY <1>1, <1>2, <1>3 DEF CallerInv

\* A call that a step adds
LEMMA CallAdded ==
    ASSUME CallerInv, NEW n \in Sizes, NEW s \in {"blocked", "accepted", "refused"},
           calls' = Append(calls, Call(n, s))
    PROVE  LET k == Len(calls) + 1 IN
           /\ k \in Nat /\ k \notin DOMAIN calls /\ DOMAIN calls' = DOMAIN calls \cup {k}
           /\ calls' \in Seq([size : Sizes, state : {"blocked", "accepted", "refused"}])
           /\ Len(calls') = k
           /\ {blocked, woken, origin} \subseteq Seq(DOMAIN calls')
           /\ {i \in DOMAIN calls' : calls'[i].state = "blocked"} =
                Range(woken) \cup Range(blocked) \cup (IF s = "blocked" THEN {k} ELSE {})
<1> DEFINE k == Len(calls) + 1
           R == [size : Sizes, state : {"blocked", "accepted", "refused"}]
<1>1. Call(n, s) \in R /\ Call(n, s).state = s
  BY DEF Call
<1>2. calls \in Seq(R)
  BY DEF CallerInv
<1> HIDE DEF R
<1>3. /\ Len(calls) \in Nat /\ DOMAIN calls = 1..Len(calls)
      /\ calls' \in Seq(R) /\ Len(calls') = k /\ DOMAIN calls' = 1..k
      /\ calls'[k] = Call(n, s)
      /\ \A i \in 1..Len(calls) : calls'[i] = calls[i]
  BY <1>1, <1>2
<1>4. k \in Nat /\ k \notin DOMAIN calls /\ DOMAIN calls' = DOMAIN calls \cup {k}
  BY <1>3
<1>5. ASSUME NEW q \in Seq(DOMAIN calls) PROVE q \in Seq(DOMAIN calls')
  <2>1. DOMAIN q = 1..Len(q) /\ Len(q) \in Nat /\ \A i \in 1..Len(q) : q[i] \in DOMAIN calls
    OBVIOUS
  <2>2. \A i \in 1..Len(q) : q[i] \in DOMAIN calls'
    BY <1>4, <2>1
  <2> QED
    BY <2>1, <2>2
<1>6. {blocked, woken, origin} \subseteq Seq(DOMAIN calls')
  <2>1. {blocked, woken, origin} \subseteq Seq(DOMAIN calls)
    BY DEF CallerInv
  <2> QED
    BY <1>5, <2>1
<1>7. {i \in DOMAIN calls' : calls'[i].state = "blocked"} =
        Range(woken) \cup Range(blocked) \cup (IF s = "blocked" THEN {k} ELSE {})
  <2>1. Range(woken) \cup Range(blocked) = {i \in DOMAIN calls : calls[i].state = "blocked"}
    BY DEF CallerInv
  <2> HIDE DEF k
  <2>2. \A i \in DOMAIN calls : calls'[i].state = calls[i].state
    BY <1>3
  <2>3. calls'[k].state = s
    BY <1>1, <1>3
  <2> QED
    BY <1>4, <2>1, <2>2, <2>3
<1> QED
  BY <1>3, <1>4, <1>6, <1>7 DEF R

\* A call that was woken and is now answered
LEMMA CallSettled ==
    ASSUME CallerInv, NEW k \in DOMAIN calls, NEW s \in {"accepted", "refused"},
           calls' = [calls EXCEPT ![k].state = s]
    PROVE  /\ calls' \in Seq([size : Sizes, state : {"blocked", "accepted", "refused"}])
           /\ Len(calls') = Len(calls) /\ DOMAIN calls' = DOMAIN calls
           /\ {i \in DOMAIN calls' : calls'[i].state = "blocked"} =
                (Range(woken) \cup Range(blocked)) \ {k}
<1> DEFINE R == [size : Sizes, state : {"blocked", "accepted", "refused"}]
<1>1. calls \in Seq(R)
  BY DEF CallerInv
<1>2. calls[k] \in R
  <2> HIDE DEF R
  <2>1. calls \in [1..Len(calls) -> R] /\ DOMAIN calls = 1..Len(calls)
    BY <1>1
  <2> QED
    BY <2>1
<1>3. [calls[k] EXCEPT !.state = s] \in R /\ [calls[k] EXCEPT !.state = s].state = s
  BY <1>2
<1> HIDE DEF R
<1>4. /\ calls' = [calls EXCEPT ![k] = [calls[k] EXCEPT !.state = s]]
      /\ DOMAIN calls = 1..Len(calls) /\ Len(calls) \in Nat
  BY <1>1
<1>5. calls' \in Seq(R) /\ Len(calls') = Len(calls) /\ DOMAIN calls' = DOMAIN calls
  BY <1>1, <1>3, <1>4
<1>6. calls'[k].state = s /\ \A i \in DOMAIN calls \ {k} : calls'[i] = calls[i]
  BY <1>3, <1>4
<1>7. Range(woken) \cup Range(blocked) = {i \in DOMAIN calls : calls[i].state = "blocked"}
  BY DEF CallerInv
<1> QED
  BY <1>5, <1>6, <1>7 DEF R

LEMMA RefusedKeeps ==
    ASSUME EventInv, FlushInv, Refused
    PROVE  /\ EventInv' /\ FlushInv'
           /\ origin' = origin /\ phase' = phase /\ closed' = closed /\ pending' = pending
<1>1. /\ origin' = origin /\ bad' = bad /\ pending' = pending /\ batch' = batch
      /\ phase' = phase /\ failures' = failures /\ closed' = closed /\ flush' = flush
      /\ sent' = sent /\ lost' = lost /\ received' = received /\ dropped' = dropped
      /\ Events' = Events
  BY DEF Refused, loopVars, settled, Events
<1>2. EventInv'
  BY <1>1 DEF EventInv, EventTypes, Accounted, SeenFirst, LoopInv, QueueBounded
<1>3. FlushInv'
  BY <1>1 DEF FlushInv, FlushMeansSent
<1> QED
  BY <1>1, <1>2, <1>3

\* What push does to the loop and to the list of the callers' events
LEMMA PushFacts ==
    ASSUME NEW S, NEW k \in S, NEW n \in Sizes, Push(k, n), origin \in Seq(S)
    PROVE  /\ origin' \in Seq(S) /\ closed' = closed
           /\ phase # "off" => phase' = phase
<1>1. /\ origin' = origin \o [i \in 1..n |-> k] /\ closed' = closed
      /\ phase # "off" => phase' = phase
  BY DEF Push
<1>2. [i \in 1..n |-> k] \in Seq(S)
  <2>1. n \in Nat
    BY MaxItemsAssumption, SizesAssumption DEF Sizes
  <2> QED
    BY <2>1
<1> QED
  BY <1>1, <1>2

\* An empty buffer takes every call: nobody waits for space that is there
LEMMA EmptyFits ==
    ASSUME NEW n \in Sizes, pending = <<>>
    PROVE  Fits(n)
  BY MaxItemsAssumption, SizesAssumption DEF Sizes, Fits

LEMMA EnqueueKeeps ==
    ASSUME EventInv, FlushInv, CallerInv, Enqueue
    PROVE  EventInv' /\ FlushInv' /\ CallerInv'
<1> DEFINE k == Len(calls) + 1
<1>1. PICK n \in Sizes :
        /\ k <= NumCalls /\ UNCHANGED woken
        /\ \/ /\ closed
              /\ calls' = Append(calls, Call(n, "refused"))
              /\ UNCHANGED blocked /\ Refused
           \/ /\ ~closed /\ Fits(n)
              /\ calls' = Append(calls, Call(n, "accepted"))
              /\ UNCHANGED blocked /\ Push(k, n)
           \/ /\ ~closed /\ ~Fits(n)
              /\ calls' = Append(calls, Call(n, "blocked"))
              /\ blocked' = Append(blocked, k) /\ Refused
  BY DEF Enqueue
<1>2. /\ Distinct(woken) /\ Distinct(blocked) /\ Range(woken) \cap Range(blocked) = {}
      /\ Range(woken) \cup Range(blocked) \subseteq DOMAIN calls
      /\ phase = "off" /\ ~closed => blocked = <<>>
  BY DEF CallerInv
<1> HIDE DEF k
<1>3. CASE closed /\ calls' = Append(calls, Call(n, "refused")) /\ UNCHANGED blocked /\ Refused
  <2>1. EventInv' /\ FlushInv' /\ origin' = origin /\ phase' = phase /\ closed' = closed
    BY <1>3, RefusedKeeps
  <2>2. CallerInv'
    BY <1>1, <1>2, <1>3, <2>1, CallAdded DEF CallerInv, k
  <2> QED
    BY <2>1, <2>2
<1>4. CASE /\ ~closed /\ Fits(n) /\ calls' = Append(calls, Call(n, "accepted"))
           /\ UNCHANGED blocked /\ Push(k, n)
  <2>1. /\ k \in Nat /\ k \in DOMAIN calls' /\ origin \in Seq(DOMAIN calls')
        /\ {blocked, woken} \subseteq Seq(DOMAIN calls')
        /\ calls' \in Seq([size : Sizes, state : {"blocked", "accepted", "refused"}])
        /\ Len(calls') = k
        /\ {i \in DOMAIN calls' : calls'[i].state = "blocked"} = Range(woken) \cup Range(blocked)
    BY <1>4, CallAdded DEF k
  <2>2. EventInv' /\ FlushInv'
    BY <1>4, <2>1, PushKeeps
  <2>3. /\ origin' \in Seq(DOMAIN calls') /\ closed' = closed
        /\ phase # "off" => phase' = phase
    BY <1>4, <2>1, PushFacts
  <2>4. CallerInv'
    BY <1>1, <1>2, <1>4, <2>1, <2>3 DEF CallerInv
  <2> QED
    BY <2>2, <2>4
<1>5. CASE /\ ~closed /\ ~Fits(n) /\ calls' = Append(calls, Call(n, "blocked"))
           /\ blocked' = Append(blocked, k) /\ Refused
  <2>1. EventInv' /\ FlushInv' /\ origin' = origin /\ phase' = phase /\ closed' = closed
    BY <1>5, RefusedKeeps
  <2>2. /\ k \in DOMAIN calls' /\ k \notin DOMAIN calls
        /\ {blocked, woken, origin} \subseteq Seq(DOMAIN calls')
        /\ calls' \in Seq([size : Sizes, state : {"blocked", "accepted", "refused"}])
        /\ Len(calls') = k
        /\ {i \in DOMAIN calls' : calls'[i].state = "blocked"} =
             Range(woken) \cup Range(blocked) \cup {k}
    BY <1>5, CallAdded DEF k
  <2>3. /\ blocked' \in Seq(DOMAIN calls') /\ Range(blocked') = Range(blocked) \cup {k}
        /\ Distinct(blocked')
    <3>1. blocked \in Seq(DOMAIN calls') /\ k \notin Range(blocked) /\ Distinct(blocked)
      BY <1>2, <2>2
    <3> QED
      BY <1>5, <2>2, <3>1, AppendDistinct
  <2>4. phase # "off"
    <3>1. pending # <<>>
      BY <1>5, EmptyFits
    <3> QED
      BY <1>5, <3>1 DEF EventInv, LoopInv
  <2>5. CallerInv'
    BY <1>1, <1>2, <1>5, <2>1, <2>2, <2>3, <2>4 DEF CallerInv
  <2> QED
    BY <2>1, <2>5
<1> QED
  BY <1>1, <1>3, <1>4, <1>5

LEMMA RetryKeeps ==
    ASSUME EventInv, FlushInv, CallerInv, Retry
    PROVE  EventInv' /\ FlushInv' /\ CallerInv'
<1> DEFINE k == Head(woken)  n == calls[k].size
<1>1. /\ woken # <<>> /\ woken' = Tail(woken)
      /\ \/ /\ closed
            /\ calls' = [calls EXCEPT ![k].state = "refused"]
            /\ UNCHANGED blocked /\ Refused
         \/ /\ ~closed /\ Fits(n)
            /\ calls' = [calls EXCEPT ![k].state = "accepted"]
            /\ UNCHANGED blocked /\ Push(k, n)
         \/ /\ ~closed /\ ~Fits(n)
            /\ blocked' = Append(blocked, k)
            /\ UNCHANGED calls /\ Refused
  BY DEF Retry
<1>2. /\ woken \in Seq(DOMAIN calls) /\ blocked \in Seq(DOMAIN calls) /\ origin \in Seq(DOMAIN calls)
      /\ calls \in Seq([size : Sizes, state : {"blocked", "accepted", "refused"}])
      /\ Len(calls) <= NumCalls
      /\ Distinct(woken) /\ Distinct(blocked) /\ Range(woken) \cap Range(blocked) = {}
      /\ Range(woken) \cup Range(blocked) = {i \in DOMAIN calls : calls[i].state = "blocked"}
      /\ phase = "off" /\ ~closed => blocked = <<>>
  BY DEF CallerInv
<1>3. /\ k \in DOMAIN calls /\ k \in Range(woken)
      /\ Tail(woken) \in Seq(DOMAIN calls) /\ Distinct(Tail(woken))
      /\ Range(Tail(woken)) = Range(woken) \ {k}
  BY <1>1, <1>2, TailDistinct
<1>4. n \in Sizes /\ k \in Nat
  <2>1. calls[k] \in [size : Sizes, state : {"blocked", "accepted", "refused"}]
    BY <1>2, <1>3, ElementOf
  <2>2. DOMAIN calls \subseteq Nat
    BY <1>2
  <2> QED
    BY <1>3, <2>1, <2>2
<1> HIDE DEF k, n
<1>5. CASE closed /\ calls' = [calls EXCEPT ![k].state = "refused"] /\ UNCHANGED blocked /\ Refused
  <2>1. EventInv' /\ FlushInv' /\ origin' = origin /\ phase' = phase /\ closed' = closed
    BY <1>5, RefusedKeeps
  <2>2. /\ calls' \in Seq([size : Sizes, state : {"blocked", "accepted", "refused"}])
        /\ Len(calls') = Len(calls) /\ DOMAIN calls' = DOMAIN calls
        /\ {i \in DOMAIN calls' : calls'[i].state = "blocked"} =
             (Range(woken) \cup Range(blocked)) \ {k}
    BY <1>3, <1>5, CallSettled
  <2>3. CallerInv'
    BY <1>1, <1>2, <1>3, <1>5, <2>1, <2>2 DEF CallerInv
  <2> QED
    BY <2>1, <2>3
<1>6. CASE /\ ~closed /\ Fits(n) /\ calls' = [calls EXCEPT ![k].state = "accepted"]
           /\ UNCHANGED blocked /\ Push(k, n)
  <2>1. /\ calls' \in Seq([size : Sizes, state : {"blocked", "accepted", "refused"}])
        /\ Len(calls') = Len(calls) /\ DOMAIN calls' = DOMAIN calls
        /\ {i \in DOMAIN calls' : calls'[i].state = "blocked"} =
             (Range(woken) \cup Range(blocked)) \ {k}
    BY <1>3, <1>6, CallSettled
  <2>2. EventInv' /\ FlushInv'
    BY <1>4, <1>6, PushKeeps
  <2>3. /\ origin' \in Seq(DOMAIN calls) /\ closed' = closed
        /\ phase # "off" => phase' = phase
    BY <1>2, <1>3, <1>4, <1>6, PushFacts
  <2>4. CallerInv'
    BY <1>1, <1>2, <1>3, <1>6, <2>1, <2>3 DEF CallerInv
  <2> QED
    BY <2>2, <2>4
<1>7. CASE ~closed /\ ~Fits(n) /\ blocked' = Append(blocked, k) /\ UNCHANGED calls /\ Refused
  <2>1. EventInv' /\ FlushInv' /\ origin' = origin /\ phase' = phase /\ closed' = closed
    BY <1>7, RefusedKeeps
  <2>2. /\ blocked' \in Seq(DOMAIN calls) /\ Range(blocked') = Range(blocked) \cup {k}
        /\ Distinct(blocked')
    <3>1. k \notin Range(blocked)
      BY <1>2, <1>3
    <3> QED
      BY <1>2, <1>3, <1>7, <3>1, AppendDistinct
  <2>3. phase # "off"
    <3>1. pending # <<>>
      BY <1>4, <1>7, EmptyFits
    <3> QED
      BY <1>7, <3>1 DEF EventInv, LoopInv
  <2>4. CallerInv'
    BY <1>1, <1>2, <1>3, <1>7, <2>1, <2>2, <2>3 DEF CallerInv
  <2> QED
    BY <2>1, <2>4
<1> QED
  BY <1>1, <1>5, <1>6, <1>7

-----------------------------------------------------------------------------
(* The theorems                                                             *)

Inv == EventInv /\ FlushInv /\ CallerInv

LEMMA InitInv == Init => Inv
<1> SUFFICES ASSUME Init PROVE Inv
  OBVIOUS
<1>1. /\ calls = <<>> /\ blocked = <<>> /\ woken = <<>> /\ origin = <<>> /\ bad = {}
      /\ pending = <<>> /\ batch = <<>> /\ phase = "off" /\ failures = 0
      /\ closed = FALSE /\ flush = [f \in Flushes |-> NewFlush]
      /\ sent = <<>> /\ lost = {} /\ received = <<>> /\ dropped = 0
  BY DEF Init
<1>2. /\ Range(<<>>) = {} /\ Len(<<>>) = 0 /\ InOrder(<<>>) /\ Distinct(<<>>) /\ Before(<<>>, <<>>)
      /\ \A S : <<>> \in Seq(S)
  BY DEF Range, InOrder, Distinct, Before
<1>3. Events = {}
  BY <1>1, <1>2 DEF Events
<1>4. EventTypes
  BY <1>1, <1>2 DEF EventTypes
<1>5. Accounted /\ SeenFirst
  BY <1>1, <1>2, <1>3 DEF Accounted, SeenFirst
<1>6. LoopInv
  BY <1>1, <1>2, SizesAssumption DEF LoopInv
<1>7. Len(batch) <= MaxBatch /\ QueueBounded
  BY <1>1, <1>2, SizesAssumption DEF QueueBounded
<1>8. FlushInv
  BY <1>1 DEF FlushInv, FlushMeansSent, NewFlush
<1>9. CallerInv
  <2>1. DOMAIN calls = {}
    BY <1>1
  <2> QED
    BY <1>1, <1>2, <2>1, SizesAssumption DEF CallerInv
<1> QED
  BY <1>4, <1>5, <1>6, <1>7, <1>8, <1>9 DEF Inv, EventInv

LEMMA NextInv == Inv /\ [Next]_vars => Inv'
<1> SUFFICES ASSUME Inv, [Next]_vars PROVE Inv'
  OBVIOUS
<1>0. EventInv /\ FlushInv /\ CallerInv
  BY DEF Inv
<1>1. CASE Enqueue
  BY <1>0, <1>1, EnqueueKeeps DEF Inv
<1>2. CASE Retry
  BY <1>0, <1>2, RetryKeeps DEF Inv
<1>3. CASE Flush
  <2>1. calls' = calls /\ blocked' = blocked /\ woken' = woken /\ origin' = origin
        /\ phase' = phase /\ closed' = closed
    BY <1>3 DEF Flush, callVars, loopVars
  <2>2. CallerInv'
    BY <1>0, <2>1 DEF CallerInv
  <2> QED
    BY <1>0, <1>3, <2>2, FlushKeeps DEF Inv
<1>4. CASE Close
  <2>1. CallerInv'
    BY <1>0, <1>4, ReleaseKeeps DEF Close
  <2> QED
    BY <1>0, <1>4, <2>1, CloseKeeps DEF Inv
<1>5. CASE SendSucceeds
  <2>1. CallerInv'
    BY <1>0, <1>5, ReleaseKeeps DEF SendSucceeds
  <2> QED
    BY <1>0, <1>5, <2>1, SendSucceedsKeeps DEF Inv
<1>6. CASE SendFails
  <2>1. calls' = calls /\ blocked' = blocked /\ woken' = woken /\ origin' = origin
        /\ phase' = "sleeping" /\ closed' = closed
    BY <1>6 DEF SendFails, SendFailed
  <2>2. CallerInv'
    BY <1>0, <2>1 DEF CallerInv
  <2> QED
    BY <1>0, <1>6, <2>2, SendFailsKeeps DEF Inv
<1>7. CASE BatchDropped
  <2>1. CallerInv'
    BY <1>0, <1>7, ReleaseKeeps DEF BatchDropped, SendFailed
  <2> QED
    BY <1>0, <1>7, <2>1, BatchDroppedKeeps DEF Inv
<1>8. CASE SleepEnds
  <2>1. calls' = calls /\ blocked' = blocked /\ woken' = woken /\ origin' = origin
        /\ phase = "sleeping" /\ closed' = closed /\ bad' = bad /\ DrainLoop(pending, failures, {})
    BY <1>8 DEF SleepEnds, callVars
  <2>2. phase' = "off" /\ ~closed => FALSE
    <3> SUFFICES ASSUME phase' = "off", ~closed PROVE FALSE
      OBVIOUS
    <3>1. pending # <<>> /\ ~(ByteLimit /\ Range(pending) \subseteq bad)
      BY <1>0, <2>1 DEF EventInv, LoopInv
    <3>2. pending \in Seq(Nat)
      BY <1>0, EventFacts
    <3> QED
      BY <2>1, <3>1, <3>2, DrainFacts
  <2>3. CallerInv'
    BY <1>0, <2>1, <2>2 DEF CallerInv
  <2> QED
    BY <1>0, <1>8, <2>3, SleepEndsKeeps DEF Inv
<1>9. CASE UNCHANGED vars
  <2>1. calls' = calls /\ blocked' = blocked /\ woken' = woken /\ Refused
    BY <1>9 DEF vars, callVars, Refused
  <2>2. EventInv' /\ FlushInv' /\ origin' = origin /\ phase' = phase /\ closed' = closed
    BY <1>0, <2>1, RefusedKeeps
  <2>3. CallerInv'
    BY <1>0, <2>1, <2>2 DEF CallerInv
  <2> QED
    BY <2>2, <2>3 DEF Inv
<1> QED
  BY <1>1, <1>2, <1>3, <1>4, <1>5, <1>6, <1>7, <1>8, <1>9 DEF Next

THEOREM Invariant == Spec => []Inv
<1>1. Init => Inv
  BY InitInv
<1>2. Inv /\ [Next]_vars => Inv'
  BY NextInv
<1> QED
  BY <1>1, <1>2, PTL DEF Spec

LEMMA TypesFromInv == Inv => TypeOK
<1> SUFFICES ASSUME Inv PROVE TypeOK
  OBVIOUS
<1>0. EventInv /\ FlushInv /\ CallerInv
  BY DEF Inv
<1>1. Range(blocked \o woken) = {k \in DOMAIN calls : calls[k].state = "blocked"}
  <2>1. /\ blocked \in Seq(DOMAIN calls) /\ woken \in Seq(DOMAIN calls)
        /\ Range(woken) \cup Range(blocked) = {k \in DOMAIN calls : calls[k].state = "blocked"}
    BY <1>0 DEF CallerInv
  <2>2. Range(blocked \o woken) = Range(blocked) \cup Range(woken)
    BY <2>1, ConcatRange
  <2> QED
    BY <2>1, <2>2
<1>2. {pending, batch, sent, received} \subseteq Seq(Events)
  <2>1. /\ {pending, batch, sent, received} \subseteq Seq(Nat)
        /\ Range(pending) \subseteq Events /\ Range(batch) \subseteq Events
        /\ Range(sent) \subseteq Events /\ Range(received) \subseteq Events
    BY <1>0 DEF EventInv, EventTypes, Accounted
  <2> QED
    BY <2>1, SeqOver
<1> QED
  BY <1>0, <1>1, <1>2
  DEF TypeOK, EventInv, EventTypes, LoopInv, FlushInv, CallerInv

LEMMA KeptFromInv == Inv => EventsKept
<1> SUFFICES ASSUME Inv PROVE EventsKept
  OBVIOUS
<1>0. EventInv
  BY DEF Inv
<1>1. /\ sent \in Seq(Nat) /\ batch \in Seq(Nat) /\ pending \in Seq(Nat)
      /\ InOrder(sent) /\ InOrder(batch) /\ InOrder(pending)
      /\ Before(sent, batch) /\ Before(sent, pending) /\ Before(batch, pending)
      /\ Range(sent) \cup Range(batch) \cup Range(pending) = Events \ lost
      /\ InOrder(received)
  BY <1>0 DEF EventInv, EventTypes, Accounted, SeenFirst
<1> DEFINE front == sent \o batch
<1>2. front \in Seq(Nat) /\ InOrder(front) /\ Range(front) = Range(sent) \cup Range(batch)
  BY <1>1, ConcatRange, ConcatInOrder
<1> HIDE DEF front
<1>3. Before(front, pending)
  BY <1>1, <1>2 DEF Before
<1>4. /\ InOrder(front \o pending)
      /\ Range(front \o pending) = Range(sent) \cup Range(batch) \cup Range(pending)
  BY <1>1, <1>2, <1>3, ConcatRange, ConcatInOrder
<1> QED
  BY <1>1, <1>4 DEF EventsKept, front

\* The variables stay in their ranges, and nobody waits for a wake-up that
\* nothing will cause: an open loop is at work while an event or a call waits.
THEOREM TypeCorrect == Spec => []TypeOK
<1>1. Inv => TypeOK
  BY TypesFromInv
<1> QED
  BY <1>1, Invariant, PTL

\* Every accepted event is sent, in flight, in the buffer or given up, exactly
\* one of these; it is sent, and seen by the server, in the order of acceptance.
THEOREM EventsKeptCorrect == Spec => []EventsKept
<1>1. Inv => EventsKept
  BY KeptFromInv
<1> QED
  BY <1>1, Invariant, PTL

\* A flush() that resolves has waited for all that was pending at its call, and
\* an unchanged droppedBatchCount means that none of it was dropped.
THEOREM FlushMeansSentCorrect == Spec => []FlushMeansSent
<1>1. Inv => FlushMeansSent
  BY DEF Inv, FlushInv
<1> QED
  BY <1>1, Invariant, PTL

\* The buffer and the batch in flight hold at most maxQueueSize + maxBatchSize
\* events.
THEOREM QueueBoundedCorrect == Spec => []QueueBounded
<1>1. Inv => QueueBounded
  BY DEF Inv, EventInv
<1> QED
  BY <1>1, Invariant, PTL

-----------------------------------------------------------------------------
(* The uploader implements the outbox                                       *)

Gone == lost \cup (IF closed THEN Range(pending) ELSE {})

LEMMA OutstandingFacts ==
    ASSUME EventInv
    PROVE  /\ Outbox!Outstanding =
                Range(batch) \cup (IF closed THEN {} ELSE Range(pending))
           /\ Range(batch) \cap Gone = {} /\ Range(batch) \cap Range(pending) = {}
           /\ lost \cap Range(pending) = {}
<1>1. /\ Before(sent, batch) /\ Before(sent, pending) /\ Before(batch, pending)
      /\ Range(sent) \cup Range(batch) \cup Range(pending) = Events \ lost
      /\ lost \subseteq Events /\ Events = 1..Len(origin)
  BY DEF EventInv, EventTypes, Accounted, Events
<1>2. \A e \in Events : ~(e < e)
  BY EventFacts DEF Events
<1>3. /\ Range(sent) \cap Range(batch) = {} /\ Range(sent) \cap Range(pending) = {}
      /\ Range(batch) \cap Range(pending) = {}
  BY <1>1, <1>2 DEF Before
<1>4. Outbox!Outstanding = Events \ (Range(sent) \cup Gone)
  BY <1>1 DEF Outbox!Outstanding, Outbox!Delivered, Range, Gone
<1>5. closed \in BOOLEAN
  BY EventFacts
<1>6. CASE closed
  BY <1>1, <1>3, <1>4, <1>6 DEF Gone
<1>7. CASE ~closed
  BY <1>1, <1>3, <1>4, <1>7 DEF Gone
<1> QED
  BY <1>5, <1>6, <1>7

LEMMA LosesFacts ==
    ASSUME NEW left, NEW S \in SUBSET left, dropped' \in {dropped, dropped + 1},
           S \subseteq bad' \/ dropped' > dropped \/ closed', Gone' = Gone \cup S
    PROVE  Outbox!Loses(left)
BY DEF Outbox!Loses, Gone

LEMMA GivesUp ==
    ASSUME NEW S \in SUBSET Outbox!Outstanding, S # {}, S \cap Gone = {},
           dropped' \in {dropped, dropped + 1},
           S \subseteq bad' \/ dropped' > dropped \/ closed', Gone' = Gone \cup S,
           origin' = origin, sent' = sent, bad' = bad, closed' = closed
    PROVE  Outbox!GiveUp
<1>1. Outbox!Loses(Outbox!Outstanding)
  BY LosesFacts
<1>2. Gone' # Gone
  OBVIOUS
<1> QED
  BY <1>1, <1>2 DEF Outbox!GiveUp, Gone

LEMMA Idles ==
    ASSUME origin' = origin, sent' = sent, Gone' = Gone, bad' = bad,
           dropped' = dropped, closed' = closed
    PROVE  UNCHANGED Outbox!outboxVars
BY DEF Outbox!outboxVars, Gone

\* Sequences in order have as many events as places
LEMMA InOrderCount ==
    ASSUME NEW q \in Seq(Nat), InOrder(q)
    PROVE  Cardinality(Range(q)) = Len(q)
<1>1. Len(q) \in Nat /\ DOMAIN q = 1..Len(q) /\ q \in [1..Len(q) -> Range(q)]
  BY DEF Range
<1>2. \A i, j \in 1..Len(q) : q[i] = q[j] => i = j
  <2> SUFFICES ASSUME NEW i \in 1..Len(q), NEW j \in 1..Len(q), i < j
               PROVE  q[i] # q[j]
    BY <1>1
  <2>1. q[i] < q[j] /\ q[i] \in Nat /\ q[j] \in Nat
    BY <1>1, ElementOf DEF InOrder
  <2> QED
    BY <2>1
<1>3. \A x \in Range(q) : \E i \in 1..Len(q) : q[i] = x
  BY <1>1 DEF Range
<1>4. ExistsBijection(1..Len(q), Range(q))
  BY <1>1, <1>2, <1>3 DEF ExistsBijection, Bijection, Injection, Surjection, IsInjective
<1> QED
  BY <1>1, <1>4, FS_CountingElements

LEMMA PushAccepts ==
    ASSUME EventInv, EventInv', ~closed, NEW k \in Nat, NEW n \in Sizes, Push(k, n)
    PROVE  Outbox!Accept
<1> DEFINE new == [i \in 1..n |-> Len(origin) + i]
           q == pending \o new
<1>1. /\ origin' = origin \o [i \in 1..n |-> k]
      /\ closed' = closed /\ sent' = sent /\ dropped' = dropped
      /\ IF phase = "off" THEN DrainLoop(q, 0, {}) ELSE lost' = lost
      /\ \E B \in SUBSET {Len(origin) + i : i \in 1..n} : bad' = bad \cup B
  BY DEF Push
<1>2. /\ n \in Nat \ {0} /\ Len(origin) \in Nat
      /\ new \in Seq(Nat) /\ Range(new) = {Len(origin) + i : i \in 1..n}
      /\ Len(origin') = Len(origin) + n
  BY <1>1, NewEvents, EventFacts
<1> DEFINE fresh == (Len(origin) + 1)..Len(origin')
<1>3. Range(new) = fresh
  <2>1. ASSUME NEW e \in fresh PROVE e \in {Len(origin) + i : i \in 1..n}
    <3>1. e - Len(origin) \in 1..n /\ e = Len(origin) + (e - Len(origin))
      BY <1>2
    <3> QED
      BY <3>1
  <2>2. \A i \in 1..n : Len(origin) + i \in fresh
    BY <1>2
  <2> HIDE DEF new, fresh
  <2> QED
    BY <1>2, <2>1, <2>2
<1>4. q \in Seq(Nat) /\ Range(q) = Range(pending) \cup Range(new)
  <2>1. pending \in Seq(Nat) /\ new \in Seq(Nat)
    BY <1>2, EventFacts
  <2> HIDE DEF new
  <2> QED
    BY <2>1, ConcatRange
<1> HIDE DEF new, q, fresh
<1>5. \E S \in SUBSET (Range(pending) \cup fresh) : S \subseteq bad' /\ lost' = lost \cup S
  <2>1. CASE phase = "off"
    <3>1. PICK skipped \in SUBSET bad' : lost' = lost \cup {} \cup skipped /\ Drained(q, skipped)
      BY <1>1, <1>4, <2>1, DrainFacts
    <3>2. skipped \subseteq Range(q)
      BY <3>1 DEF Drained
    <3> QED
      BY <1>3, <1>4, <3>1, <3>2
  <2>2. CASE phase # "off"
    <3>1. lost' = lost \cup {}
      BY <1>1, <2>2
    <3> QED
      BY <3>1
  <2> QED
    BY <2>1, <2>2
<1>6. PICK S \in SUBSET (Range(pending) \cup fresh) : S \subseteq bad' /\ lost' = lost \cup S
  BY <1>5
<1>7. Gone' = Gone \cup S /\ Range(pending) \subseteq Outbox!Outstanding
  BY <1>1, <1>6, OutstandingFacts DEF Gone
<1>8. Outbox!Loses(Outbox!Outstanding \cup fresh)
  <2>1. S \in SUBSET (Outbox!Outstanding \cup fresh) /\ dropped' \in {dropped, dropped + 1}
    BY <1>1, <1>6, <1>7
  <2> QED
    BY <1>6, <1>7, <2>1, LosesFacts
<1>9. Len(origin') \in Nat /\ Len(origin') > Len(origin)
  BY <1>2
<1>10. \E B \in SUBSET fresh : bad' = bad \cup B
  BY <1>1, <1>2, <1>3
<1> QED
  BY <1>1, <1>8, <1>9, <1>10 DEF Outbox!Accept, fresh

LEMMA SendDelivers ==
    ASSUME EventInv, EventInv', SendSucceeds
    PROVE  Outbox!Deliver
<1>1. /\ phase = "sending" /\ DrainLoop(pending, 0, {}) /\ sent' = sent \o batch
      /\ closed' = closed /\ origin' = origin /\ bad' = bad /\ dropped' = dropped
  BY DEF SendSucceeds
<1>2. /\ batch \in Seq(Nat) /\ InOrder(batch) /\ Before(batch, pending)
      /\ Range(batch) \subseteq Nat /\ batch # <<>>
  BY <1>1, EventFacts DEF EventInv, Accounted, LoopInv, Events
<1> DEFINE D == Range(batch)
<1>3. D \in (SUBSET Outbox!Outstanding) \ {{}}
  BY <1>2, OutstandingFacts, EmptyRange
<1>4. ASSUME NEW d \in D, NEW e \in Outbox!Outstanding, e < d PROVE e \in D
  <2>1. CASE e \in Range(pending)
    <3>1. d < e /\ d \in Nat /\ e \in Nat
      BY <1>2, <2>1, EventFacts DEF Before, Events
    <3> QED
      BY <1>4, <3>1
  <2>2. e \in Range(batch) \cup Range(pending)
    BY OutstandingFacts
  <2> QED
    BY <2>1, <2>2
<1>5. /\ batch \in [1..Cardinality(D) -> D]
      /\ \A i, j \in DOMAIN batch : i < j => batch[i] < batch[j]
  <2>1. Cardinality(D) = Len(batch)
    BY <1>2, InOrderCount
  <2>2. batch \in [1..Len(batch) -> Range(batch)]
    BY <1>2 DEF Range
  <2> QED
    BY <1>2, <2>1, <2>2 DEF InOrder
<1>6. Outbox!Loses(Outbox!Outstanding \ D)
  <2>1. PICK skipped \in SUBSET bad' :
          /\ lost' = lost \cup {} \cup skipped /\ Drained(pending, skipped)
          /\ closed => skipped = {} /\ pending' = pending
    BY <1>1, EventFacts, DrainFacts
  <2>2. skipped \subseteq Range(pending)
    BY <2>1 DEF Drained
  <2>3. skipped \in SUBSET (Outbox!Outstanding \ D)
    BY <2>1, <2>2, OutstandingFacts
  <2>4. Gone' = Gone \cup skipped
    BY <1>1, <2>1 DEF Gone
  <2> HIDE DEF D
  <2>5. dropped' \in {dropped, dropped + 1}
    BY <1>1
  <2> QED
    BY <2>1, <2>3, <2>4, <2>5, LosesFacts
<1> HIDE DEF D
<1>7. Outbox!Cardinality(D) = Cardinality(D)
  BY DEF Outbox!Cardinality, Cardinality
<1>8. \E s \in [1..Outbox!Cardinality(D) -> D] :
        /\ \A i, j \in DOMAIN s : i < j => s[i] < s[j]
        /\ sent' = sent \o s
  BY <1>1, <1>5, <1>7
<1>9. UNCHANGED <<Len(origin), bad, closed>>
  BY <1>1
<1> QED
  BY <1>3, <1>4, <1>6, <1>8, <1>9 DEF Outbox!Deliver

LEMMA SendFailsMaps ==
    ASSUME EventInv, EventInv', SendFails
    PROVE  Outbox!GiveUp \/ UNCHANGED Outbox!outboxVars
<1>1. /\ phase = "sending" /\ pending' = batch \o pending /\ sent' = sent /\ dropped' = dropped
      /\ lost' = lost /\ closed' = closed /\ origin' = origin /\ bad' = bad
  BY DEF SendFails, SendFailed, Requeue
<1>2. Range(pending') = Range(batch) \cup Range(pending)
  BY <1>1, ConcatRange, EventFacts
<1>3. Range(batch) # {} /\ Range(batch) \cap Gone = {} /\ Range(batch) \subseteq Outbox!Outstanding
  <2>1. batch # <<>>
    BY <1>1 DEF EventInv, LoopInv
  <2> QED
    BY <2>1, EmptyRange, EventFacts, OutstandingFacts
<1>4. CASE closed
  <2>1. Gone' = Gone \cup Range(batch)
    BY <1>1, <1>2, <1>4 DEF Gone
  <2> QED
    BY <1>1, <1>3, <1>4, <2>1, GivesUp
<1>5. CASE ~closed
  <2>1. Gone' = Gone
    BY <1>1, <1>5 DEF Gone
  <2> QED
    BY <1>1, <2>1, Idles
<1> QED
  BY <1>4, <1>5

LEMMA BatchDroppedMaps ==
    ASSUME EventInv, EventInv', BatchDropped
    PROVE  Outbox!GiveUp
<1>1. /\ phase = "sending" /\ DrainLoop(pending, 0, Range(batch)) /\ sent' = sent
      /\ dropped' = dropped + 1 /\ closed' = closed /\ origin' = origin /\ bad' = bad
  BY DEF BatchDropped, SendFailed
<1>2. PICK skipped \in SUBSET bad' :
        /\ lost' = lost \cup Range(batch) \cup skipped /\ Drained(pending, skipped)
        /\ closed => skipped = {} /\ pending' = pending
  BY <1>1, EventFacts, DrainFacts
<1>3. skipped \subseteq Range(pending)
  BY <1>2 DEF Drained
<1>4. /\ Range(batch) # {} /\ Range(batch) \cap Gone = {}
      /\ Range(batch) \subseteq Outbox!Outstanding
  <2>1. batch # <<>>
    BY <1>1 DEF EventInv, LoopInv
  <2> QED
    BY <2>1, EmptyRange, EventFacts, OutstandingFacts
<1>5. /\ skipped \subseteq Outbox!Outstanding /\ skipped \cap Gone = {}
      /\ Gone' = Gone \cup (Range(batch) \cup skipped)
  BY <1>1, <1>2, <1>3, OutstandingFacts DEF Gone
<1>6. dropped' > dropped
  BY <1>1, EventFacts
<1> QED
  BY <1>1, <1>4, <1>5, <1>6, GivesUp

LEMMA SleepEndsMaps ==
    ASSUME EventInv, EventInv', SleepEnds
    PROVE  Outbox!GiveUp \/ UNCHANGED Outbox!outboxVars
<1>1. /\ DrainLoop(pending, failures, {}) /\ sent' = sent /\ dropped' = dropped
      /\ closed' = closed /\ origin' = origin /\ bad' = bad
  BY DEF SleepEnds
<1>2. PICK skipped \in SUBSET bad' :
        /\ lost' = lost \cup {} \cup skipped /\ Drained(pending, skipped)
        /\ closed => skipped = {} /\ pending' = pending
  BY <1>1, EventFacts, DrainFacts
<1>3. skipped \subseteq Range(pending)
  BY <1>2 DEF Drained
<1>4. /\ skipped \subseteq Outbox!Outstanding /\ skipped \cap Gone = {}
      /\ Gone' = Gone \cup skipped
  BY <1>1, <1>2, <1>3, OutstandingFacts DEF Gone
<1>5. CASE skipped = {}
  BY <1>1, <1>4, <1>5, Idles
<1>6. CASE skipped # {}
  BY <1>1, <1>4, <1>6, GivesUp
<1> QED
  BY <1>5, <1>6

LEMMA CloseMaps ==
    ASSUME EventInv, EventInv', Close
    PROVE  Outbox!Close
<1>1. /\ ~closed /\ closed' = TRUE /\ pending' = <<>> /\ lost' = lost \cup Range(pending)
      /\ sent' = sent /\ dropped' = dropped /\ origin' = origin /\ bad' = bad
  BY DEF Close
<1>2. Range(pending') = {}
  BY <1>1 DEF Range
<1>3. Gone' = Gone \cup Range(pending) /\ Range(pending) \subseteq Outbox!Outstanding
  BY <1>1, <1>2, OutstandingFacts DEF Gone
<1>4. Outbox!Loses(Outbox!Outstanding)
  BY <1>1, <1>3, LosesFacts
<1> QED
  BY <1>1, <1>4 DEF Outbox!Close

LEMMA RefusedIdles ==
    ASSUME Refused
    PROVE  UNCHANGED Outbox!outboxVars
BY Idles DEF Refused, loopVars, settled, Gone

\* The uploader is an outbox: each step accepts, delivers in order, gives up or
\* does nothing an observer sees, and an open one gives up only what cannot be
\* serialized or what droppedBatchCount tells of.
THEOREM ImplementsOutbox == Spec => Outbox!OutboxSafety
<1>1. Init => Outbox!OutboxInit
  <2> SUFFICES ASSUME Init PROVE Outbox!OutboxInit
    OBVIOUS
  <2>1. Len(origin) = 0 /\ sent = <<>> /\ closed = FALSE /\ lost = {} /\ bad = {} /\ dropped = 0
    BY DEF Init
  <2> QED
    BY <2>1 DEF Outbox!OutboxInit
<1>2. Inv /\ Inv' /\ [Next]_vars => [Outbox!OutboxNext]_(Outbox!outboxVars)
  <2> SUFFICES ASSUME Inv, Inv', [Next]_vars
               PROVE  Outbox!OutboxNext \/ UNCHANGED Outbox!outboxVars
    OBVIOUS
  <2>0. EventInv /\ EventInv' /\ CallerInv
    BY DEF Inv
  <2>1. CASE Enqueue
    <3>1. PICK n \in Sizes : Refused \/ (~closed /\ Push(Len(calls) + 1, n))
      BY <2>1 DEF Enqueue
    <3>2. Len(calls) + 1 \in Nat
      BY <2>0 DEF CallerInv
    <3> QED
      BY <2>0, <3>1, <3>2, RefusedIdles, PushAccepts DEF Outbox!OutboxNext
  <2>2. CASE Retry
    <3>1. /\ Refused \/ (~closed /\ Push(Head(woken), calls[Head(woken)].size))
          /\ woken # <<>>
      BY <2>2 DEF Retry
    <3>2. woken # <<>> => Head(woken) \in Nat /\ calls[Head(woken)].size \in Sizes
      <4> SUFFICES ASSUME woken # <<>>
                   PROVE  Head(woken) \in Nat /\ calls[Head(woken)].size \in Sizes
        OBVIOUS
      <4>1. Head(woken) \in DOMAIN calls
        BY <2>0, TailDistinct DEF CallerInv
      <4>2. calls \in Seq([size : Sizes, state : {"blocked", "accepted", "refused"}])
        BY <2>0 DEF CallerInv
      <4>3. calls[Head(woken)] \in [size : Sizes, state : {"blocked", "accepted", "refused"}]
        BY <4>1, <4>2, ElementOf
      <4>4. DOMAIN calls = 1..Len(calls)
        BY <4>2
      <4> QED
        BY <4>1, <4>3, <4>4
    <3> QED
      BY <2>0, <3>1, <3>2, RefusedIdles, PushAccepts DEF Outbox!OutboxNext
  <2>3. CASE Flush
    <3>1. /\ origin' = origin /\ sent' = sent /\ lost' = lost /\ pending' = pending
          /\ closed' = closed /\ bad' = bad /\ dropped' = dropped
      BY <2>3 DEF Flush, loopVars, settled
    <3> QED
      BY <3>1, Idles DEF Gone
  <2>4. CASE Close
    BY <2>0, <2>4, CloseMaps DEF Outbox!OutboxNext
  <2>5. CASE SendSucceeds
    BY <2>0, <2>5, SendDelivers DEF Outbox!OutboxNext
  <2>6. CASE SendFails
    BY <2>0, <2>6, SendFailsMaps DEF Outbox!OutboxNext
  <2>7. CASE BatchDropped
    BY <2>0, <2>7, BatchDroppedMaps DEF Outbox!OutboxNext
  <2>8. CASE SleepEnds
    BY <2>0, <2>8, SleepEndsMaps DEF Outbox!OutboxNext
  <2>9. CASE UNCHANGED vars
    <3>1. Refused
      BY <2>9 DEF vars, Refused
    <3> QED
      BY <3>1, RefusedIdles
  <2> QED
    BY <2>1, <2>2, <2>3, <2>4, <2>5, <2>6, <2>7, <2>8, <2>9 DEF Next
<1> QED
  BY <1>1, <1>2, Invariant, PTL DEF Spec, Outbox!OutboxSafety
=============================================================================
