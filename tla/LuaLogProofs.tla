---------------------------- MODULE LuaLogProofs ----------------------------
(***************************************************************************)
(* The logger for any sizes of buffers, backlogs and files, however        *)
(* callers and worker interleave and whichever of its calls fails: the     *)
(* assertions of its worker hold, its files are rolled in time, and it     *)
(* implements the stream of LogStream.                                     *)
(*                                                                         *)
(* What Flat makes of a list of buffers is proved by taking the least      *)
(* length for which a law would fail (LeastNatural, UpTo).                 *)
(***************************************************************************)
EXTENDS LuaLog, SequenceTheorems, WellFoundedInduction, TLAPS

(* The lists of buffers, and the flags that say which buffers there are. *)
BufferType ==
  /\ spare \in BOOLEAN /\ buffers \in Seq(Seq(Nat)) /\ curr \in Seq(Nat)
  /\ toWrite \in Seq(Seq(Nat))
  /\ free1 \in BOOLEAN /\ free2 \in BOOLEAN
  /\ sent \in Nat

(* What the places of the worker say of them: it has given away as many of  *)
(* its free buffers as it has taken away, or fewer, and one only if the     *)
(* callers had used up the spare, hence filled a buffer.                    *)
Batch ==
  /\ wpc \in {"drop", "write"} => Len(toWrite) >= Missing
  /\ wpc = "drop" => Len(toWrite) > MaxBuffers
  /\ wpc \in {"top", "lock", "wait"} => free1 /\ free2
  /\ ~spare => buffers # <<>>

IInv == BufferType /\ Batch

-----------------------------------------------------------------------------
LEMMA MissingAtMostTwo ==
  ASSUME BufferType PROVE Missing \in 0 .. 2
  BY DEF BufferType, Missing

LEMMA BufferInit == Init => IInv
<1> SUFFICES ASSUME Init PROVE IInv
  OBVIOUS
<1>1. BufferType
  <2>1. <<>> \in Seq(Nat)
    OBVIOUS
  <2>2. <<>> \in Seq(Seq(Nat))
    OBVIOUS
  <2>3. /\ curr = <<>> /\ buffers = <<>> /\ toWrite = <<>> /\ sent = 0
        /\ spare = TRUE /\ free1 = FALSE /\ free2 = FALSE
    BY DEF Init
  <2>4. curr \in Seq(Nat) /\ buffers \in Seq(Seq(Nat)) /\ toWrite \in Seq(Seq(Nat))
    BY <2>1, <2>2, <2>3, Zenon
  <2> QED BY <2>3, <2>4 DEF BufferType
<1>2. Batch
  BY DEF Init, Batch
<1> QED BY <1>1, <1>2 DEF IInv

(* append moves a full buffer to the waiting ones when it takes the spare. *)
LEMMA PutStep ==
  ASSUME BufferType, Batch, NEW m \in Nat, Put(m)
  PROVE  /\ spare' \in BOOLEAN /\ buffers' \in Seq(Seq(Nat)) /\ curr' \in Seq(Nat)
         /\ ~spare' => buffers' # <<>>
<1>1. CASE curr' = Append(curr, m) /\ UNCHANGED <<spare, buffers>>
  BY <1>1 DEF BufferType, Batch
<1>2. CASE buffers' = Append(buffers, curr) /\ curr' = <<m>> /\ spare' = FALSE
  <2>1. buffers' \in Seq(Seq(Nat)) /\ Len(buffers') = Len(buffers) + 1 /\ Len(buffers) \in Nat
    BY <1>2 DEF BufferType
  <2>2. buffers' # <<>>
    BY <2>1
  <2>3. curr' \in Seq(Nat)
    BY <1>2
  <2> QED BY <1>2, <2>1, <2>2, <2>3
<1> QED BY <1>1, <1>2 DEF Put

LEMMA CallerStep ==
  ASSUME IInv, NEW m \in Nat, Put(m), sent' \in Nat, UNCHANGED worker
  PROVE  IInv'
<1>1. BufferType'
  BY PutStep DEF IInv, BufferType, worker
<1>2. Missing' = Missing
  BY DEF Missing, worker
<1>3. Batch'
  BY <1>2, PutStep DEF IInv, Batch, worker
<1> QED BY <1>1, <1>3 DEF IInv

LEMMA BuffersUnchanged ==
  ASSUME IInv, UNCHANGED <<shared, worker, sent>>
  PROVE  IInv'
  BY DEF IInv, BufferType, Batch, Missing, shared, worker

-----------------------------------------------------------------------------
(* The worker takes away one buffer more than were waiting: one for its     *)
(* first free buffer, and one that was waiting if the spare is replaced.    *)
LEMMA SwapStep ==
  ASSUME IInv, WorkerSwap
  PROVE  IInv'
<1>1. /\ toWrite' = Append(buffers, curr) /\ buffers' = <<>> /\ curr' = <<>>
      /\ free1' = FALSE /\ free2' = (free2 /\ spare) /\ spare' = TRUE /\ sent' = sent
      /\ wpc' = IF Len(buffers) + 1 > MaxBuffers THEN "drop" ELSE "write"
  BY DEF WorkerSwap
<1>2. free1 /\ free2 /\ (~spare => buffers # <<>>)
  BY DEF IInv, Batch, WorkerSwap
<1>3. BufferType'
  <2>1. toWrite' \in Seq(Seq(Nat)) /\ buffers' \in Seq(Seq(Nat)) /\ curr' \in Seq(Nat)
    BY <1>1 DEF IInv, BufferType
  <2>2. free1' \in BOOLEAN /\ free2' \in BOOLEAN /\ spare' \in BOOLEAN
    BY <1>1, <1>2
  <2> QED BY <1>1, <2>1, <2>2 DEF IInv, BufferType
<1>4. Len(toWrite') = Len(buffers) + 1
  BY <1>1 DEF IInv, BufferType
<1>5. Len(toWrite') >= Missing'
  <2>1. CASE spare
    <3>1. free1' = FALSE /\ free2' = TRUE
      BY <1>1, <1>2, <2>1
    <3>2. Missing' = 1
      BY <3>1 DEF Missing
    <3>3. Len(buffers) \in Nat
      BY DEF IInv, BufferType
    <3> QED BY <1>4, <3>2, <3>3
  <2>2. CASE ~spare
    <3>1. Len(buffers) >= 1
      BY <1>2, <2>2 DEF IInv, BufferType
    <3>2. Missing' <= 2
      BY <1>3 DEF BufferType, Missing
    <3>3. Missing' \in Nat
      BY <1>3 DEF BufferType, Missing
    <3> QED BY <1>4, <3>1, <3>2, <3>3 DEF IInv, BufferType
  <2> QED BY <2>1, <2>2
<1>6. wpc' = "drop" => Len(toWrite') > MaxBuffers
  BY <1>1, <1>4
<1> QED BY <1>1, <1>3, <1>5, <1>6 DEF IInv, Batch

(* Of a backlog two buffers are left, enough for both free buffers. *)
LEMMA DropStep ==
  ASSUME IInv, WorkerDrop
  PROVE  IInv'
<1>1. /\ wpc = "drop" /\ wpc' = "write" /\ Put(Notice)
      /\ toWrite' = SubSeq(toWrite, 1, 2)
      /\ free1' = free1 /\ free2' = free2 /\ sent' = sent
  BY DEF WorkerDrop
<1>2. Len(toWrite) >= 2
  BY <1>1, LogAssumption DEF IInv, BufferType, Batch
<1>3. toWrite' \in Seq(Seq(Nat)) /\ Len(toWrite') = 2
  BY <1>1, <1>2 DEF IInv, BufferType
<1>4. Missing' \in 0 .. 2
  BY <1>1, MissingAtMostTwo DEF IInv, Missing
<1>5. Notice \in Nat
  BY DEF Notice
<1>6. /\ spare' \in BOOLEAN /\ buffers' \in Seq(Seq(Nat)) /\ curr' \in Seq(Nat)
      /\ ~spare' => buffers' # <<>>
  BY <1>1, <1>5, PutStep DEF IInv
<1>7. BufferType'
  BY <1>1, <1>3, <1>6 DEF IInv, BufferType
<1> QED BY <1>1, <1>3, <1>4, <1>6, <1>7 DEF IInv, Batch

LEMMA WorkerStep ==
  ASSUME IInv, Worker
  PROVE  IInv'
<1>1. CASE WorkerStart
  BY <1>1 DEF WorkerStart, IInv, BufferType, Batch, Missing, shared
<1>2. CASE WorkerTop
  BY <1>2 DEF WorkerTop, IInv, BufferType, Batch, Missing, shared
<1>3. CASE WorkerWait
  BY <1>3 DEF WorkerWait, IInv, BufferType, Batch, Missing, shared
<1>4. CASE WorkerSwap
  BY <1>4, SwapStep
<1>5. CASE WorkerDrop
  BY <1>5, DropStep
<1>6. CASE WorkerWrite
  <2>1. /\ wpc' = "top" /\ free1' = TRUE /\ free2' = TRUE /\ toWrite' = <<>>
        /\ UNCHANGED <<curr, spare, buffers, sent>>
    BY <1>6 DEF WorkerWrite, shared
  <2> QED BY <2>1 DEF IInv, BufferType, Batch
<1> QED BY <1>1, <1>2, <1>3, <1>4, <1>5, <1>6 DEF Worker

LEMMA BufferStep == IInv /\ [Next]_vars => IInv'
<1> SUFFICES ASSUME IInv, [Next]_vars PROVE IInv'
  OBVIOUS
<1>1. CASE Log \/ Fatal
  <2>1. Accepted \in Nat
    BY DEF Accepted, IInv, BufferType
  <2> QED BY <1>1, <2>1, CallerStep DEF Log, Fatal
<1>2. CASE Exit \/ Joined \/ NewDay
  BY <1>2, BuffersUnchanged DEF Exit, Joined, NewDay
<1>3. CASE Worker
  BY <1>3, WorkerStep
<1>4. CASE UNCHANGED vars
  BY <1>4, BuffersUnchanged DEF vars
<1> QED BY <1>1, <1>2, <1>3, <1>4 DEF Next

-----------------------------------------------------------------------------
(* BuffersSuffice holds for every size of buffer and every limit of waiting *)
(* buffers from two on: the assertions of worker_func (lua-log.c:225-227,   *)
(* 263, 309, 318) never fail, and no callers' interleaving with the swap    *)
(* leaves the worker without a buffer to give back.                         *)
THEOREM AssertionsHold == Spec => []BuffersSuffice
<1>1. IInv => BuffersSuffice
  BY DEF IInv, Batch, BuffersSuffice
<1> QED BY BufferInit, BufferStep, <1>1, PTL DEF Spec

-----------------------------------------------------------------------------
(* The messages of a list of buffers.                                      *)

LEMMA LeastNatural ==
  ASSUME NEW S \in SUBSET Nat, S # {}
  PROVE  \E i \in S : \A j \in S : i <= j
  <1> DEFINE R == {p \in Nat \X Nat : p[1] < p[2]}
  <1>1. IsWellFoundedOn(R, Nat)
    BY NatLessThanWellFounded DEF OpToRel
  <1>2. PICK i \in S : \A j \in S : ~ (<<j, i>> \in R)
    <2> HIDE DEF R
    <2> QED BY <1>1, WFMin, Zenon
  <1>3. ASSUME NEW j \in S, j < i PROVE <<j, i>> \in R
    BY <1>3
  <1>4. \A j \in S : ~(j < i)
    <2> HIDE DEF R
    <2> QED BY <1>2, <1>3
  <1> QED BY <1>4

(* Induction over the numbers up to n, for a set instead of a predicate.   *)
LEMMA UpTo ==
  ASSUME NEW n \in Nat, NEW G, 0 \in G, \A i \in 1..n : i - 1 \in G => i \in G
  PROVE  \A i \in 0..n : i \in G
  <1> SUFFICES ASSUME NEW k \in 0..n, k \notin G PROVE FALSE
    OBVIOUS
  <1> DEFINE B == {i \in 0..n : i \notin G}
  <1>1. B \in SUBSET Nat /\ k \in B
    OBVIOUS
  <1>2. PICK m \in B : \A j \in B : m <= j
    BY <1>1, LeastNatural
  <1>3. m \in 1..n
    BY <1>2
  <1>4. m - 1 \in 0..n /\ ~(m <= m - 1)
    BY <1>3
  <1>5. m - 1 \in G
    BY <1>2, <1>4
  <1> QED BY <1>2, <1>3, <1>5

Messages == Seq(Nat)
Lists == Seq(Messages)

(* g is the function that Flat computes, up to n. *)
Joins(l, n, g) ==
  /\ g \in [0..n -> Messages] /\ g[0] = <<>>
  /\ \A i \in 1..n : g[i] = g[i - 1] \o l[i]

LEMMA JoinsExist ==
  ASSUME NEW l \in Lists
  PROVE  \E g : Joins(l, Len(l), g)
  <1> DEFINE n == Len(l)
             G == {i \in 0..n : \E g : Joins(l, i, g)}
  <1>1. n \in Nat /\ \A i \in 1..n : l[i] \in Messages
    BY DEF Lists
  <1> HIDE DEF n
  <1>2. 0 \in G
    <2> DEFINE z == [i \in 0..0 |-> <<>>]
    <2>1. z \in [0..0 -> Messages]
      BY EmptySeq DEF Messages
    <2>2. Joins(l, 0, z)
      BY <2>1 DEF Joins
    <2> QED BY <1>1, <2>2
  <1>3. ASSUME NEW i \in 1..n, i - 1 \in G PROVE i \in G
    <2>1. PICK g : Joins(l, i - 1, g)
      BY <1>3
    <2>2. i - 1 \in 0..i-1 /\ i \in Nat /\ g[i - 1] \in Messages
      BY <1>1, <2>1 DEF Joins
    <2> DEFINE h == [j \in 0..i |-> IF j = i THEN g[i - 1] \o l[i] ELSE g[j]]
    <2>3. g[i - 1] \o l[i] \in Messages
      BY <1>1, <2>2, ConcatProperties DEF Messages
    <2>4. \A j \in 0..i : j # i => j \in 0..i-1 /\ g[j] \in Messages
      BY <1>1, <2>1 DEF Joins
    <2>5. h \in [0..i -> Messages]
      BY <2>3, <2>4
    <2>6. h[0] = <<>> /\ h[i] = g[i - 1] \o l[i] /\ \A j \in 0..i-1 : h[j] = g[j]
      BY <1>1, <2>1, <2>2 DEF Joins
    <2> HIDE DEF h
    <2>7. ASSUME NEW j \in 1..i PROVE h[j] = h[j - 1] \o l[j]
      <3>1. CASE j = i
        BY <2>2, <2>6, <3>1
      <3>2. CASE j # i
        <4>1. j \in 1..i-1 /\ j \in 0..i-1 /\ j - 1 \in 0..i-1
          BY <2>2, <3>2
        <4> QED BY <2>1, <2>6, <4>1 DEF Joins
      <3> QED BY <3>1, <3>2
    <2>8. Joins(l, i, h)
      BY <2>5, <2>6, <2>7 DEF Joins
    <2>9. i \in 0..n
      BY <1>1
    <2> QED BY <2>8, <2>9
  <1>4. n \in 0..n
    BY <1>1
  <1>5. \A i \in 0..n : i \in G
    <2> HIDE DEF G
    <2> QED BY <1>1, <1>2, <1>3, UpTo
  <1> QED BY <1>4, <1>5 DEF n

LEMMA FlatIs ==
  ASSUME NEW l \in Lists, NEW g, Joins(l, Len(l), g)
  PROVE  Flat(l) = g[Len(l)]
  <1> DEFINE n == Len(l)
             Is(f) == f = [i \in 0..n |-> IF i = 0 THEN <<>> ELSE f[i - 1] \o l[i]]
             F == CHOOSE f : Is(f)
  <1>1. n \in Nat
    BY DEF Lists
  <1>2. Is(g)
    BY <1>1 DEF Joins
  <1>3. Flat(l) = F[n]
    BY DEF Flat
  <1>4. Is(F)
    <2> HIDE DEF Is
    <2> QED BY <1>2
  <1> HIDE DEF F, n
  <1>5. /\ F[0] = <<>> /\ \A i \in 1..n : F[i] = F[i - 1] \o l[i]
    BY <1>1, <1>4
  <1> HIDE DEF Is
  <1>6. /\ g[0] = <<>> /\ \A i \in 1..n : g[i] = g[i - 1] \o l[i]
    BY DEF Joins, n
  <1> DEFINE G == {i \in 0..n : F[i] = g[i]}
  <1>7. 0 \in G
    BY <1>1, <1>5, <1>6
  <1>8. ASSUME NEW i \in 1..n, i - 1 \in G PROVE i \in G
    <2>1. F[i - 1] = g[i - 1]
      BY <1>8
    <2>2. F[i] = F[i - 1] \o l[i] /\ g[i] = g[i - 1] \o l[i]
      BY <1>5, <1>6
    <2>3. F[i] = g[i] /\ i \in 0..n
      BY <1>1, <2>1, <2>2
    <2> QED BY <2>3
  <1>9. \A i \in 0..n : i \in G
    <2> HIDE DEF G
    <2> QED BY <1>1, <1>7, <1>8, UpTo
  <1>10. n \in 0..n
    BY <1>1
  <1> QED BY <1>3, <1>9, <1>10 DEF n

LEMMA FlatType == ASSUME NEW l \in Lists PROVE Flat(l) \in Messages
  <1>1. PICK g : Joins(l, Len(l), g)
    BY JoinsExist
  <1>2. Len(l) \in 0..Len(l)
    BY DEF Lists
  <1> QED BY <1>1, <1>2, FlatIs DEF Joins

LEMMA FlatEmpty == Flat(<<>>) = <<>>
  <1>1. <<>> \in Lists /\ Len(<<>>) = 0
    BY EmptySeq DEF Lists
  <1>2. PICK g : Joins(<<>>, 0, g)
    BY <1>1, JoinsExist
  <1> QED BY <1>1, <1>2, FlatIs DEF Joins

LEMMA FlatAppend ==
  ASSUME NEW l \in Lists, NEW b \in Messages
  PROVE  Append(l, b) \in Lists /\ Flat(Append(l, b)) = Flat(l) \o b
  <1> DEFINE n == Len(l)
  <1>1. n \in Nat
    BY DEF Lists
  <1>2. PICK m : m = Append(l, b)
    OBVIOUS
  <1>3. /\ m \in Lists /\ Len(m) = n + 1 /\ m[n + 1] = b
        /\ \A i \in 1..n : m[i] = l[i]
    BY <1>2, AppendProperties DEF Lists
  <1>4. PICK g : Joins(m, n + 1, g)
    BY <1>3, JoinsExist
  <1>5. Flat(m) = g[n] \o b
    <2>1. n + 1 \in 1..n+1 /\ (n + 1) - 1 = n
      BY <1>1
    <2>2. g[n + 1] = g[n] \o b
      BY <1>3, <1>4, <2>1 DEF Joins
    <2> QED BY <1>3, <1>4, <2>2, FlatIs
  <1> DEFINE h == [i \in 0..n |-> g[i]]
  <1>6. Joins(l, n, h)
    <2>1. \A i \in 0..n : i \in 0..n+1
      BY <1>1
    <2>2. h \in [0..n -> Messages] /\ h[0] = <<>>
      BY <1>1, <1>4, <2>1 DEF Joins
    <2>3. ASSUME NEW i \in 1..n PROVE h[i] = h[i - 1] \o l[i]
      <3>1. i \in 0..n /\ i - 1 \in 0..n /\ i \in 1..n+1
        BY <1>1
      <3> QED BY <1>3, <1>4, <3>1 DEF Joins
    <2> HIDE DEF h
    <2> QED BY <2>2, <2>3 DEF Joins
  <1>7. Flat(l) = g[n]
    <2>1. n \in 0..n
      BY <1>1
    <2>2. h[n] = g[n]
      BY <2>1
    <2> HIDE DEF h
    <2> QED BY <1>6, <2>2, FlatIs
  <1> QED BY <1>2, <1>3, <1>5, <1>7

LEMMA FlatTypes == \A l \in Lists : Flat(l) \in Messages
  BY FlatType

LEMMA FlatConcat ==
  ASSUME NEW l \in Lists, NEW m \in Lists
  PROVE  l \o m \in Lists /\ Flat(l \o m) = Flat(l) \o Flat(m)
  <1> DEFINE n == Len(m)
             P(i) == Flat(l \o SubSeq(m, 1, i)) = Flat(l) \o Flat(SubSeq(m, 1, i))
             G == {i \in 0..n : P(i)}
  <1>1. n \in Nat /\ \A i \in 1..n : m[i] \in Messages
    BY DEF Lists
  <1>2. l \o m \in Lists /\ l \o <<>> = l
    BY ConcatProperties, ConcatEmptySeq DEF Lists
  <1>3. Flat(l) \in Messages /\ Flat(l) \o <<>> = Flat(l)
    BY FlatType, ConcatEmptySeq DEF Messages
  <1>4. SubSeq(m, 1, 0) = <<>> /\ SubSeq(m, 1, n) = m
    BY SubSeqEmpty, SubSeqFull DEF Lists
  <1>5. \A i \in 0..n : SubSeq(m, 1, i) \in Lists
    <2>1. \A i \in 0..n : \A j \in 1..i : m[j] \in Messages
      BY <1>1
    <2> QED BY <1>1, <2>1, SubSeqProperties DEF Lists
  <1>6. 0 \in G
    <2>1. P(0)
      BY <1>2, <1>3, <1>4, FlatEmpty
    <2>2. 0 \in 0..n
      BY <1>1
    <2> HIDE DEF P, n
    <2> QED BY <2>1, <2>2
  <1>7. ASSUME NEW i \in 1..n, i - 1 \in G PROVE i \in G
    <2>1. i \in 0..n /\ i - 1 \in 0..n /\ 1 \in 1..n
      BY <1>1
    <2>2. PICK s \in Lists : s = SubSeq(m, 1, i - 1)
      BY <1>5, <2>1
    <2>3. SubSeq(m, 1, i) = s \o <<m[i]>>
      BY <2>1, <2>2, SubSeqRecursiveSecond DEF Lists
    <2>4. m[i] \in Messages /\ s \o <<m[i]>> = Append(s, m[i])
      BY <1>1, AppendIsConcat DEF Lists
    <2>5. l \o s \in Lists /\ l \o Append(s, m[i]) = Append(l \o s, m[i])
      <3>1. <<m[i]>> \in Lists /\ l \o s \in Lists
        BY <2>4, ConcatProperties DEF Lists
      <3>2. (l \o s) \o <<m[i]>> = l \o (s \o <<m[i]>>)
        BY <3>1, ConcatAssociative DEF Lists
      <3>3. (l \o s) \o <<m[i]>> = Append(l \o s, m[i])
        BY <2>4, <3>1, AppendIsConcat DEF Lists
      <3> QED BY <2>4, <3>1, <3>2, <3>3
    <2>6. Flat(l \o s) = Flat(l) \o Flat(s)
      BY <1>7, <2>2
    <2>7. Flat(Append(l \o s, m[i])) = (Flat(l) \o Flat(s)) \o m[i]
      BY <2>4, <2>5, <2>6, FlatAppend
    <2>8. Flat(Append(s, m[i])) = Flat(s) \o m[i]
      BY <2>4, FlatAppend
    <2>9. (Flat(l) \o Flat(s)) \o m[i] = Flat(l) \o (Flat(s) \o m[i])
      <3>1. PICK a \in Messages, b \in Messages, c \in Messages :
               a = Flat(l) /\ b = Flat(s) /\ c = m[i]
        BY <1>3, <2>4, FlatType
      <3>2. (a \o b) \o c = a \o (b \o c)
        BY ConcatAssociative DEF Messages
      <3> QED BY <3>1, <3>2
    <2>10. P(i)
      BY <2>3, <2>4, <2>5, <2>7, <2>8, <2>9
    <2> QED BY <2>1, <2>10
  <1>8. \A i \in 0..n : i \in G
    <2> HIDE DEF G
    <2> QED BY <1>1, <1>6, <1>7, UpTo
  <1>9. P(n)
    BY <1>1, <1>8
  <1> QED BY <1>2, <1>4, <1>9

(* Full buffers: as many messages as they can hold.                        *)
LEMMA FlatLength ==
  ASSUME NEW l \in Lists, NEW k \in Nat, \A i \in 1..Len(l) : Len(l[i]) = k
  PROVE  Len(Flat(l)) = Len(l) * k
  <1> DEFINE n == Len(l)
  <1>1. PICK g : Joins(l, n, g)
    BY JoinsExist
  <1>2. n \in Nat /\ \A i \in 1..n : l[i] \in Messages
    BY DEF Lists
  <1> DEFINE G == {i \in 0..n : Len(g[i]) = i * k}
  <1>3. 0 \in G
    <2>1. Len(g[0]) = 0 /\ 0 * k = 0
      BY <1>1, EmptySeq DEF Joins
    <2> QED BY <1>2, <2>1
  <1>4. ASSUME NEW i \in 1..n, i - 1 \in G PROVE i \in G
    <2>1. g[i] = g[i - 1] \o l[i] /\ g[i - 1] \in Messages /\ l[i] \in Messages
      <3>1. i - 1 \in 0..n
        BY <1>2
      <3> QED BY <1>1, <1>2, <3>1 DEF Joins
    <2>2. Len(g[i]) = Len(g[i - 1]) + Len(l[i])
      BY <2>1, ConcatProperties DEF Messages
    <2>3. Len(g[i - 1]) = (i - 1) * k /\ Len(l[i]) = k
      BY <1>4
    <2>4. (i - 1) * k + k = i * k
      BY <1>2
    <2>5. Len(g[i]) = i * k
      BY <2>2, <2>3, <2>4
    <2>6. i \in 0..n
      BY <1>2
    <2> QED BY <2>5, <2>6
  <1>5. \A i \in 0..n : i \in G
    <2> HIDE DEF G
    <2> QED BY <1>2, <1>3, <1>4, UpTo
  <1>6. Len(g[n]) = n * k
    BY <1>2, <1>5
  <1> QED BY <1>1, <1>6, FlatIs

-----------------------------------------------------------------------------
(* The files opened so far, and what they hold together.                   *)
Entry == [data : Messages, open : BOOLEAN, std : BOOLEAN]
Files == Seq(Entry)
DataOf(fs) == [i \in DOMAIN fs |-> fs[i].data]
Text(fs) == Flat(DataOf(fs))
Written(fs, d) == [fs EXCEPT ![Len(fs)].data = @ \o d]

LEMMA DataOfFiles ==
  ASSUME NEW fs \in Files
  PROVE  /\ DataOf(fs) \in Lists /\ Len(DataOf(fs)) = Len(fs)
         /\ \A i \in 1..Len(fs) : DataOf(fs)[i] = fs[i].data /\ fs[i] \in Entry
  <1>1. Len(fs) \in Nat /\ DOMAIN fs = 1..Len(fs) /\ \A i \in 1..Len(fs) : fs[i] \in Entry
    BY LenProperties, ElementOfSeq DEF Files
  <1>2. \A i \in 1..Len(fs) : fs[i].data \in Messages
    BY <1>1 DEF Entry
  <1>3. DataOf(fs) \in [1..Len(fs) -> Messages]
    BY <1>1, <1>2 DEF DataOf
  <1>4. DataOf(fs) \in Seq(Messages) /\ DOMAIN DataOf(fs) = 1..Len(fs)
    BY <1>1, <1>3, IsASeq
  <1>5. DataOf(fs) \in Lists /\ Len(DataOf(fs)) = Len(fs)
    BY <1>1, <1>4, LenProperties DEF Lists
  <1>6. \A i \in 1..Len(fs) : DataOf(fs)[i] = fs[i].data
    BY <1>1 DEF DataOf
  <1> QED BY <1>1, <1>5, <1>6

LEMMA ClosedFile ==
  ASSUME NEW fs \in Files, NEW h \in 1..Len(fs)
  PROVE  /\ Closed(fs, h) \in Files /\ Len(Closed(fs, h)) = Len(fs)
         /\ Closed(fs, h)[h].data = fs[h].data /\ Closed(fs, h)[h].std = fs[h].std
         /\ Text(Closed(fs, h)) = Text(fs)
  <1>1. Len(fs) \in Nat /\ DOMAIN fs = 1..Len(fs) /\ \A i \in 1..Len(fs) : fs[i] \in Entry
    BY LenProperties, ElementOfSeq DEF Files
  <1>2. PICK c : c = Closed(fs, h)
    OBVIOUS
  <1>3. /\ DOMAIN c = 1..Len(fs)
        /\ \A i \in 1..Len(fs) : c[i] = IF i = h THEN [fs[h] EXCEPT !.open = FALSE] ELSE fs[i]
    BY <1>1, <1>2 DEF Closed
  <1>4. fs[h] \in Entry
    BY <1>1
  <1>5. [fs[h] EXCEPT !.open = FALSE] \in Entry /\ c[h].data = fs[h].data /\ c[h].std = fs[h].std
    BY <1>3, <1>4 DEF Entry
  <1>6. \A i \in 1..Len(fs) : c[i] \in Entry /\ c[i].data = fs[i].data
    BY <1>1, <1>3, <1>5
  <1>7. c \in [1..Len(fs) -> Entry]
    <2>1. c = [i \in 1..Len(fs) |-> c[i]]
      BY <1>1, <1>2, <1>3 DEF Closed
    <2> QED BY <1>6, <2>1
  <1>8. c \in Files /\ Len(c) = Len(fs)
    BY <1>1, <1>3, <1>7, IsASeq, LenProperties DEF Files
  <1>9. DataOf(c) = DataOf(fs)
    BY <1>1, <1>3, <1>6 DEF DataOf
  <1> QED BY <1>2, <1>5, <1>8, <1>9 DEF Text

LEMMA OpenedFile ==
  ASSUME NEW fs \in Files, NEW b \in BOOLEAN
  PROVE  /\ Append(fs, File(b)) \in Files
         /\ Len(Append(fs, File(b))) = Len(fs) + 1
         /\ Append(fs, File(b))[Len(fs) + 1] = File(b)
         /\ Text(Append(fs, File(b))) = Text(fs)
  <1>1. File(b) \in Entry /\ File(b).data = <<>>
    BY EmptySeq DEF File, Entry, Messages
  <1>2. PICK a : a = Append(fs, File(b))
    OBVIOUS
  <1>3. /\ a \in Files /\ Len(a) = Len(fs) + 1 /\ a[Len(fs) + 1] = File(b)
        /\ \A i \in 1..Len(fs) : a[i] = fs[i]
    BY <1>1, <1>2, AppendProperties DEF Files
  <1>4. Len(fs) \in Nat
    BY DEF Files
  <1>5. DataOf(a) = Append(DataOf(fs), <<>>)
    <2>1. PICK u, v : u = DataOf(a) /\ v = DataOf(fs)
      OBVIOUS
    <2>2. /\ u \in Seq(Messages) /\ v \in Seq(Messages) /\ Len(u) = Len(a) /\ Len(v) = Len(fs)
          /\ \A i \in 1..Len(a) : u[i] = a[i].data
          /\ \A i \in 1..Len(fs) : v[i] = fs[i].data
      BY <1>3, <2>1, DataOfFiles DEF Lists
    <2>3. <<>> \in Messages
      BY EmptySeq DEF Messages
    <2>4. PICK x : x = Append(v, <<>>)
      OBVIOUS
    <2>5. /\ x \in Seq(Messages) /\ Len(x) = Len(v) + 1 /\ x[Len(v) + 1] = <<>>
          /\ \A i \in 1..Len(v) : x[i] = v[i]
      BY <2>2, <2>3, <2>4, AppendProperties
    <2>6. \A i \in 1..Len(u) : u[i] = x[i]
      BY <1>1, <1>3, <1>4, <2>2, <2>5
    <2>7. u = x
      BY <1>3, <2>2, <2>5, <2>6, SeqEqual
    <2> QED BY <2>1, <2>4, <2>7
  <1>6. Flat(Append(DataOf(fs), <<>>)) = Flat(DataOf(fs)) \o <<>>
    BY DataOfFiles, FlatAppend, EmptySeq DEF Messages
  <1>7. Flat(DataOf(fs)) \o <<>> = Flat(DataOf(fs))
    BY DataOfFiles, FlatType, ConcatEmptySeq DEF Messages
  <1> QED BY <1>2, <1>3, <1>5, <1>6, <1>7 DEF Text

LEMMA WrittenFile ==
  ASSUME NEW fs \in Files, Len(fs) # 0, NEW d \in Messages
  PROVE  /\ Written(fs, d) \in Files /\ Len(Written(fs, d)) = Len(fs)
         /\ Written(fs, d)[Len(fs)].data = fs[Len(fs)].data \o d
         /\ Written(fs, d)[Len(fs)].std = fs[Len(fs)].std
         /\ Written(fs, d)[Len(fs)].open = fs[Len(fs)].open
         /\ Text(Written(fs, d)) = Text(fs) \o d
  <1> DEFINE n == Len(fs)
  <1>1. n \in Nat /\ DOMAIN fs = 1..n /\ \A i \in 1..n : fs[i] \in Entry
    BY LenProperties, ElementOfSeq DEF Files
  <1>2. PICK c : c = Written(fs, d)
    OBVIOUS
  <1>3. /\ DOMAIN c = 1..n
        /\ \A i \in 1..n : c[i] = IF i = n THEN [fs[n] EXCEPT !.data = @ \o d] ELSE fs[i]
    BY <1>1, <1>2 DEF Written
  <1>4. n \in 1..n /\ fs[n] \in Entry /\ fs[n].data \in Messages
    BY <1>1 DEF Entry
  <1>5. fs[n].data \o d \in Messages
    BY <1>4, ConcatProperties DEF Messages
  <1>6. /\ c[n] \in Entry /\ c[n].data = fs[n].data \o d
        /\ c[n].std = fs[n].std /\ c[n].open = fs[n].open
    <2>1. c[n] = [fs[n] EXCEPT !.data = fs[n].data \o d]
      BY <1>3, <1>4
    <2> HIDE DEF n
    <2> QED BY <1>4, <1>5, <2>1 DEF Entry
  <1>7. \A i \in 1..n : c[i] \in Entry
    BY <1>1, <1>3, <1>6
  <1>8. c \in Files /\ Len(c) = n
    <2>1. c = [i \in 1..n |-> c[i]]
      BY <1>1, <1>2, <1>3 DEF Written
    <2>2. c \in [1..n -> Entry]
      BY <1>7, <2>1
    <2> QED BY <1>1, <1>3, <2>2, IsASeq, LenProperties DEF Files
  <1> DEFINE f == SubSeq(DataOf(fs), 1, n - 1)
             x == fs[n].data
  <1>9. /\ DataOf(fs) \in Lists /\ Len(DataOf(fs)) = n /\ DataOf(c) \in Lists /\ Len(DataOf(c)) = n
        /\ \A i \in 1..n : DataOf(fs)[i] = fs[i].data /\ DataOf(c)[i] = c[i].data
    BY <1>8, DataOfFiles
  <1>10. f \in Lists /\ Len(f) = n - 1 /\ \A i \in 1..n-1 : f[i] = fs[i].data
    <2>1. \A i \in 1..n-1 : DataOf(fs)[i] \in Messages /\ DataOf(fs)[1 + i - 1] = fs[i].data
      <3>1. \A i \in 1..n-1 : i \in 1..n /\ 1 + i - 1 = i
        BY <1>1
      <3> QED BY <1>9, <3>1, ElementOfSeq DEF Lists
    <2>2. /\ n - 1 \in Int /\ 1 \in Int /\ (n - 1) - 1 + 1 = n - 1
          /\ (IF 1 <= n - 1 THEN (n - 1) - 1 + 1 ELSE 0) = n - 1
      BY <1>1, <1>4
    <2> HIDE DEF n
    <2> QED BY <2>1, <2>2, SubSeqProperties DEF Lists
  <1>11. ASSUME NEW e \in Lists, Len(e) = n, NEW y \in Messages, e[n] = y,
                \A i \in 1..n-1 : e[i] = fs[i].data
         PROVE  e = Append(f, y)
    <2>1. PICK z : z = Append(f, y)
      OBVIOUS
    <2>2. /\ z \in Lists /\ Len(z) = n /\ z[n] = y /\ \A i \in 1..n-1 : z[i] = fs[i].data
      <3> HIDE DEF f, n
      <3>1. Len(f) + 1 = n
        BY <1>1, <1>10
      <3> QED BY <1>10, <2>1, <3>1, AppendProperties DEF Lists
    <2>3. \A i \in 1..n : e[i] = z[i]
      BY <1>1, <1>11, <2>2
    <2> HIDE DEF f
    <2> QED BY <1>11, <2>1, <2>2, <2>3, SeqEqual DEF Lists
  <1>12. DataOf(fs) = Append(f, x) /\ DataOf(c) = Append(f, x \o d)
    <2>1. \A i \in 1..n-1 : i \in 1..n /\ i # n
      <3> HIDE DEF n, f, x
      <3> QED BY <1>1
    <2>2. ASSUME NEW i \in 1..n-1
          PROVE  DataOf(fs)[i] = fs[i].data /\ DataOf(c)[i] = fs[i].data
      <3> HIDE DEF n
      <3>1. i \in 1..n /\ i # n
        BY <2>1
      <3>2. c[i] = fs[i]
        BY <1>3, <3>1
      <3>3. DataOf(fs)[i] = fs[i].data /\ DataOf(c)[i] = c[i].data
        BY <1>9, <3>1
      <3> QED BY <3>2, <3>3
    <2>3. DataOf(fs)[n] = x /\ DataOf(c)[n] = x \o d
      BY <1>4, <1>6, <1>9
    <2> HIDE DEF f, x, n
    <2>4. x \in Messages /\ x \o d \in Messages
      BY <1>4, <1>5 DEF x, n
    <2> QED BY <1>9, <1>11, <2>2, <2>3, <2>4
  <1>13. Flat(DataOf(fs)) = Flat(f) \o x /\ Flat(DataOf(c)) = Flat(f) \o (x \o d)
    <2> HIDE DEF f
    <2> QED BY <1>4, <1>5, <1>10, <1>12, FlatAppend
  <1>14. Flat(f) \o (x \o d) = (Flat(f) \o x) \o d
    <2> HIDE DEF f
    <2>1. Flat(f) \in Messages /\ x \in Messages
      BY <1>4, <1>10, FlatTypes
    <2> HIDE DEF x
    <2>3. PICK p \in Messages : p = Flat(f)
      BY <2>1
    <2>4. PICK q \in Messages : q = x
      BY <2>1
    <2>2. (p \o q) \o d = p \o (q \o d)
      BY ConcatAssociative DEF Messages
    <2> QED BY <2>2, <2>3, <2>4
  <1> QED BY <1>2, <1>6, <1>8, <1>13, <1>14 DEF Text

-----------------------------------------------------------------------------
(* What the worker knows of its files: the one in use is the last that was  *)
(* opened, its counter covers what it holds, and it has room for a batch.   *)
DiskInv ==
  /\ files \in Files /\ handle = Len(files)
  /\ written \in Nat /\ mday \in Nat /\ day \in Nat
  /\ wpc = "start" => files = <<>>
  /\ wpc # "start" /\ host # "dead" => handle # 0
  /\ host = "closed" => wpc = "done"
  /\ handle # 0 /\ host \notin {"closed", "dead"} => files[handle].open
  /\ handle # 0 /\ host # "dead" /\ ~files[handle].std
       => Len(files[handle].data) <= RollSize
  /\ handle # 0 => Len(files[handle].data) <= written \/ files[handle].std

(* After rollfile a new, empty file is in use, or the old one: for good if  *)
(* it is stdout, otherwise because the process ends.                        *)
Fresh(o) ==
  /\ o.alive /\ o.handle # 0
  /\ o.files[o.handle].open /\ o.files[o.handle].data = <<>>

Kept(o, h, w, fs) ==
  /\ o.handle = h /\ o.written = w
  /\ h # 0 => /\ o.files[h].data = fs[h].data
              /\ o.files[h].std = fs[h].std
  /\ o.alive => /\ h # 0 /\ o.files = fs
                /\ fs[h].std \/ Len(fs[h].data) <= RollSize

Rolled(o, h, w, fs) ==
  /\ o.written \in Nat /\ o.mday \in Nat /\ o.alive \in BOOLEAN
  /\ o.files \in Files /\ o.handle = Len(o.files)
  /\ Text(o.files) = Text(fs)
  /\ Fresh(o) \/ Kept(o, h, w, fs)

Opened(o, w, fs) ==
  /\ o.written = w /\ o.mday \in Nat /\ o.alive = TRUE
  /\ o.files \in Files /\ o.handle = Len(o.files) /\ o.handle = Len(fs) + 1
  /\ Text(o.files) = Text(fs)
  /\ Fresh(o)

LEMMA OpenNextIsFresh ==
  ASSUME NEW fs \in Files, NEW w \in Nat, NEW d \in Nat, NEW old \in Nat,
         NEW o \in OpenNext(fs, w, d, old)
  PROVE  Opened(o, w, fs)
  <1>1. PICK b \in BOOLEAN, e \in Nat : o = Outcome(Len(fs) + 1, w, e, Append(fs, File(b)), TRUE)
    BY DEF OpenNext
  <1>2. /\ o.written = w /\ o.mday = e /\ o.alive = TRUE /\ o.handle = Len(fs) + 1
        /\ o.files = Append(fs, File(b))
    BY <1>1 DEF Outcome
  <1>3. Len(fs) \in Nat
    BY DEF Files
  <1>4. /\ Append(fs, File(b)) \in Files
        /\ Len(Append(fs, File(b))) = Len(fs) + 1
        /\ Append(fs, File(b))[Len(fs) + 1] = File(b)
        /\ Text(Append(fs, File(b))) = Text(fs)
    BY OpenedFile
  <1>5. File(b).open = TRUE /\ File(b).data = <<>>
    BY DEF File
  <1>6. Fresh(o)
    BY <1>2, <1>3, <1>4, <1>5 DEF Fresh
  <1> QED BY <1>2, <1>4, <1>6 DEF Opened

LEMMA RollEffect ==
  ASSUME NEW fs \in Files, NEW w \in Nat, handle = Len(fs), mday \in Nat, day \in Nat,
         NEW o \in RollFile(w, fs)
  PROVE  Rolled(o, handle, w, fs)
  <1>1. PICK h \in Nat : h = handle
    BY DEF Files
  <1>2. CASE h # 0 /\ fs[h].std
    <2>1. o = Outcome(handle, w, mday, fs, TRUE)
      BY <1>1, <1>2 DEF RollFile
    <2>2. /\ o.handle = h /\ o.written = w /\ o.mday = mday /\ o.files = fs
          /\ o.alive = TRUE
      BY <1>1, <2>1 DEF Outcome
    <2> QED BY <1>1, <1>2, <2>2 DEF Rolled, Kept
  <1>3. CASE ~(h # 0 /\ fs[h].std)
    <2> DEFINE fs0 == IF handle # 0 /\ w > 0 THEN Closed(fs, handle) ELSE fs
    <2>1. PICK f : f = fs0
      OBVIOUS
    <2>2. /\ f \in Files /\ Len(f) = h /\ Text(f) = Text(fs)
          /\ h # 0 => f[h].data = fs[h].data /\ f[h].std = fs[h].std
      <3>1. CASE h # 0 /\ w > 0
        <4>1. h \in 1..Len(fs)
          BY <1>1, <3>1
        <4> QED BY <1>1, <2>1, <3>1, <4>1, ClosedFile
      <3>2. CASE ~(h # 0 /\ w > 0)
        BY <1>1, <2>1, <3>2
      <3> QED BY <3>1, <3>2
    <2>3. \/ o = Outcome(handle, w, mday, f, FALSE)
          \/ \E p \in OpenNext(f, w, day, mday) :
                o \in IF w >= RollSize /\ ~p.files[p.handle].std
                      THEN OpenNext(Closed(p.files, p.handle), 0, day, mday)
                      ELSE {p}
      BY <1>1, <1>3, <2>1 DEF RollFile
    <2>4. CASE o = Outcome(handle, w, mday, f, FALSE)
      <3>1. /\ o.handle = h /\ o.written = w /\ o.mday = mday /\ o.files = f
            /\ o.alive = FALSE
        BY <1>1, <2>4 DEF Outcome
      <3> QED BY <1>1, <2>2, <3>1 DEF Rolled, Kept
    <2>5. ASSUME NEW p \in OpenNext(f, w, day, mday),
                 o \in IF w >= RollSize /\ ~p.files[p.handle].std
                       THEN OpenNext(Closed(p.files, p.handle), 0, day, mday)
                       ELSE {p}
          PROVE  Rolled(o, handle, w, fs)
      <3>1. /\ p.written = w /\ p.mday \in Nat /\ p.alive = TRUE
            /\ p.files \in Files /\ p.handle = Len(p.files) /\ p.handle = Len(f) + 1
            /\ Text(p.files) = Text(f) /\ Fresh(p)
        BY <2>2, OpenNextIsFresh DEF Opened
      <3>2. CASE o = p
        BY <2>2, <3>1, <3>2 DEF Rolled
      <3>3. CASE o \in OpenNext(Closed(p.files, p.handle), 0, day, mday)
        <4>1. p.handle \in 1..Len(p.files)
          BY <2>2, <3>1
        <4>2. PICK c \in Files : c = Closed(p.files, p.handle) /\ Text(c) = Text(p.files)
          BY <3>1, <4>1, ClosedFile
        <4>3. PICK z \in Nat, d \in Nat, old \in Nat : o \in OpenNext(c, z, d, old)
          BY <3>3, <4>2
        <4>4. /\ o.written = z /\ o.mday \in Nat /\ o.alive = TRUE
              /\ o.files \in Files /\ o.handle = Len(o.files)
              /\ Text(o.files) = Text(c) /\ Fresh(o)
          <5>1. Opened(o, z, c)
            BY <4>3, OpenNextIsFresh
          <5> QED BY <5>1 DEF Opened
        <4>5. Text(o.files) = Text(fs) /\ o.written \in Nat /\ o.alive \in BOOLEAN
          BY <2>2, <3>1, <4>2, <4>4
        <4> QED BY <4>4, <4>5 DEF Rolled
      <3> QED BY <2>5, <3>2, <3>3
    <2> QED BY <2>3, <2>4, <2>5
  <1> QED BY <1>2, <1>3

(* No roll: the file in use keeps what it holds.                            *)
LEMMA StayEffect ==
  ASSUME NEW fs \in Files, NEW w \in Nat, handle = Len(fs), handle # 0, mday \in Nat,
         fs[handle].std \/ Len(fs[handle].data) <= RollSize
  PROVE  Rolled(Outcome(handle, w, mday, fs, TRUE), handle, w, fs)
  <1>1. PICK o : o = Outcome(handle, w, mday, fs, TRUE)
    OBVIOUS
  <1>2. /\ o.handle = handle /\ o.written = w /\ o.mday = mday /\ o.files = fs
        /\ o.alive = TRUE
    BY <1>1 DEF Outcome
  <1>3. Rolled(o, handle, w, fs)
    BY <1>2 DEF Rolled, Kept
  <1> QED BY <1>1, <1>3

(* A step of the worker that leaves the disk in such an outcome.            *)
LEMMA DiskStep ==
  ASSUME NEW fs \in Files, NEW w \in Nat, handle = Len(fs), host # "dead", host # "closed",
         NEW o, Rolled(o, handle, w, fs), SetDisk(o), Alive(o),
         handle # 0 => /\ Len(fs[handle].data) <= w \/ fs[handle].std
                       /\ fs[handle].open,
         day \in Nat, day' = day, wpc' # "start"
  PROVE  DiskInv' /\ Text(files') = Text(fs)
  <1>1. PICK h \in Nat : h = handle
    BY DEF Files
  <1>2. /\ files' = o.files /\ handle' = o.handle /\ written' = o.written /\ mday' = o.mday
        /\ host' = IF o.alive THEN host ELSE "dead"
    BY DEF SetDisk, Alive
  <1>3. /\ written' \in Nat /\ mday' \in Nat /\ o.alive \in BOOLEAN
        /\ files' \in Files /\ handle' = Len(files') /\ Text(files') = Text(fs)
        /\ Fresh(o) \/ Kept(o, h, w, fs)
    BY <1>1, <1>2 DEF Rolled
  <1>4. CASE Fresh(o)
    <2>1. /\ handle' # 0 /\ host' = host /\ files'[handle'].open
          /\ Len(files'[handle'].data) = 0
      BY <1>2, <1>4, EmptySeq DEF Fresh
    <2> QED BY <1>3, <2>1, LogAssumption DEF DiskInv
  <1>5. CASE Kept(o, h, w, fs)
    <2>1. /\ handle' = h /\ written' = w
          /\ h # 0 => files'[h].data = fs[h].data /\ files'[h].std = fs[h].std
          /\ o.alive => /\ h # 0 /\ files' = fs
                        /\ fs[h].std \/ Len(fs[h].data) <= RollSize
      BY <1>2, <1>5 DEF Kept
    <2>2. h # 0 => /\ Len(fs[h].data) <= w \/ fs[h].std
                   /\ fs[h].open
      BY <1>1
    <2>3. host' # "closed" /\ (~o.alive => host' = "dead")
      BY <1>2
    <2> QED BY <1>3, <2>1, <2>2, <2>3 DEF DiskInv
  <1> QED BY <1>3, <1>4, <1>5

-----------------------------------------------------------------------------
LEMMA DiskInit == Init => DiskInv
  <1> SUFFICES ASSUME Init PROVE DiskInv
    OBVIOUS
  <1>1. /\ files = <<>> /\ handle = 0 /\ written = 0 /\ mday = 0 /\ day = 1
        /\ wpc = "start" /\ host = "up"
    BY DEF Init
  <1>2. files \in Files /\ Len(files) = 0
    BY <1>1, EmptySeq DEF Files
  <1> QED BY <1>1, <1>2 DEF DiskInv

(* rollfile, called by the worker in any place with files that hold fs.      *)
LEMMA RollsDisk ==
  ASSUME NEW fs \in Files, NEW w \in Nat, NEW roll \in BOOLEAN,
         handle = Len(fs), mday \in Nat, day \in Nat, host # "dead", host # "closed",
         handle # 0 => /\ Len(fs[handle].data) <= w \/ fs[handle].std
                       /\ fs[handle].open,
         ~roll => handle # 0 /\ (fs[handle].std \/ Len(fs[handle].data) <= RollSize),
         \E o \in IF roll THEN RollFile(w, fs) ELSE {Outcome(handle, w, mday, fs, TRUE)} :
            SetDisk(o) /\ Alive(o),
         day' = day, wpc' # "start"
  PROVE  DiskInv' /\ Text(files') = Text(fs)
  <1>1. PICK o \in IF roll THEN RollFile(w, fs) ELSE {Outcome(handle, w, mday, fs, TRUE)} :
               SetDisk(o) /\ Alive(o)
    OBVIOUS
  <1>2. Rolled(o, handle, w, fs)
    <2>1. CASE roll
      <3>1. o \in RollFile(w, fs)
        BY <1>1, <2>1
      <3> QED BY <3>1, RollEffect
    <2>2. CASE ~roll
      <3>1. o = Outcome(handle, w, mday, fs, TRUE)
        BY <1>1, <2>2
      <3> QED BY <2>2, <3>1, StayEffect
    <2> QED BY <2>1, <2>2
  <1> QED BY <1>1, <1>2, DiskStep

LEMMA StartDisk ==
  ASSUME DiskInv, WorkerStart
  PROVE  DiskInv' /\ Text(files') = Text(files)
  <1>1. /\ wpc = "start" /\ host # "dead" /\ wpc' = "top" /\ day' = day
        /\ \E o \in RollFile(written, files) : SetDisk(o) /\ Alive(o)
    BY DEF WorkerStart
  <1>2. /\ files \in Files /\ handle = Len(files) /\ written \in Nat /\ mday \in Nat /\ day \in Nat
        /\ handle = 0 /\ host # "closed"
    BY <1>1, EmptySeq DEF DiskInv
  <1>3. PICK fs \in Files, w \in Nat : fs = files /\ w = written
    BY <1>2
  <1>4. PICK o \in RollFile(w, fs) : SetDisk(o) /\ Alive(o)
    BY <1>1, <1>3
  <1>5. Rolled(o, handle, w, fs)
    BY <1>2, <1>3, RollEffect
  <1> QED BY <1>1, <1>2, <1>3, <1>4, <1>5, DiskStep

LEMMA SwapDisk ==
  ASSUME DiskInv, WorkerSwap
  PROVE  DiskInv' /\ Text(files') = Text(files)
  <1>1. /\ wpc \in {"wait", "lock"} /\ host # "dead" /\ wpc' # "start" /\ day' = day
        /\ \E o \in IF mday # day THEN RollFile(written, files)
                    ELSE {Outcome(handle, written, mday, files, TRUE)} :
             SetDisk(o) /\ Alive(o)
    BY DEF WorkerSwap
  <1>2. /\ files \in Files /\ handle = Len(files) /\ written \in Nat /\ mday \in Nat /\ day \in Nat
        /\ handle # 0 /\ host # "closed" /\ files[handle].open
        /\ files[handle].std \/ Len(files[handle].data) <= RollSize
        /\ Len(files[handle].data) <= written \/ files[handle].std
    BY <1>1 DEF DiskInv
  <1>3. PICK fs \in Files, w \in Nat, roll \in BOOLEAN :
               fs = files /\ w = written /\ roll = (mday # day)
    BY <1>2
  <1>4. \E o \in IF roll THEN RollFile(w, fs) ELSE {Outcome(handle, w, mday, fs, TRUE)} :
           SetDisk(o) /\ Alive(o)
    BY <1>1, <1>3
  <1>5. DiskInv' /\ Text(files') = Text(fs)
    BY <1>1, <1>2, <1>3, <1>4, RollsDisk
  <1> QED BY <1>3, <1>5

LEMMA WriteDisk ==
  ASSUME DiskInv, toWrite \in Lists, WorkerWrite
  PROVE  DiskInv' /\ Text(files') = Text(files) \o Flat(toWrite)
  <1>1. PICK d \in Messages : d = Flat(toWrite)
    BY FlatTypes
  <1>2. Len(d) \in Nat
    BY DEF Messages
  <1>3. /\ wpc = "write" /\ host # "dead" /\ wpc' = "top" /\ day' = day
        /\ \E o \in IF written + Len(d) > RollSize
                    THEN RollFile(written + Len(d), [files EXCEPT ![handle].data = @ \o d])
                    ELSE {Outcome(handle, written + Len(d), mday,
                                  [files EXCEPT ![handle].data = @ \o d], TRUE)} :
             SetDisk(o) /\ Alive(o)
    BY <1>1 DEF WorkerWrite
  <1>4. /\ files \in Files /\ handle = Len(files) /\ written \in Nat /\ mday \in Nat /\ day \in Nat
        /\ handle # 0 /\ host # "closed" /\ files[handle].open
        /\ Len(files[handle].data) <= written \/ files[handle].std
    BY <1>3 DEF DiskInv
  <1>5. [files EXCEPT ![handle].data = @ \o d] = Written(files, d)
    BY <1>4 DEF Written
  <1>6. PICK old \in Files : old = files
    BY <1>4
  <1>7. PICK fs : fs = Written(old, d)
    OBVIOUS
  <1>8. /\ fs \in Files /\ Len(fs) = handle /\ fs[handle].data = old[handle].data \o d
        /\ fs[handle].std = old[handle].std /\ fs[handle].open = old[handle].open
        /\ Text(fs) = Text(old) \o d
    BY <1>4, <1>6, <1>7, WrittenFile
  <1>9. Len(fs[handle].data) = Len(old[handle].data) + Len(d) /\ Len(old[handle].data) \in Nat
    <2>1. handle \in 1..Len(old)
      BY <1>4, <1>6 DEF Files
    <2>2. old[handle].data \in Messages
      BY <2>1, DataOfFiles DEF Entry
    <2>3. PICK x \in Messages : x = old[handle].data
      BY <2>2
    <2>4. Len(x \o d) = Len(x) + Len(d) /\ Len(x) \in Nat
      BY ConcatProperties DEF Messages
    <2> QED BY <1>8, <2>3, <2>4
  <1>10. PICK w \in Nat : w = written + Len(d)
    BY <1>2, <1>4
  <1> DEFINE roll == w > RollSize
  <1>10a. roll \in BOOLEAN
    OBVIOUS
  <1>11. \E o \in IF roll THEN RollFile(w, fs) ELSE {Outcome(handle, w, mday, fs, TRUE)} :
           SetDisk(o) /\ Alive(o)
    BY <1>3, <1>5, <1>6, <1>7, <1>10
  <1>12. Len(fs[handle].data) <= w \/ fs[handle].std
    BY <1>2, <1>4, <1>6, <1>8, <1>9, <1>10
  <1>13. ~roll => fs[handle].std \/ Len(fs[handle].data) <= RollSize
    <2>1. Len(fs[handle].data) \in Nat
      BY <1>2, <1>9
    <2> QED BY <1>12, <2>1, LogAssumption
  <1>14. DiskInv' /\ Text(files') = Text(fs)
    <2> HIDE DEF roll
    <2> QED BY <1>3, <1>4, <1>6, <1>8, <1>10a, <1>11, <1>12, <1>13, RollsDisk
  <1> QED BY <1>1, <1>6, <1>8, <1>14

(* The other steps leave the files alone, but for the one that log_exit     *)
(* closes when the worker has returned.                                     *)
LEMMA OtherDisk ==
  ASSUME DiskInv,
         Log \/ Fatal \/ Exit \/ Joined \/ NewDay \/ WorkerTop \/ WorkerWait \/ WorkerDrop
           \/ UNCHANGED vars
  PROVE  DiskInv' /\ Text(files') = Text(files)
  <1>1. CASE Joined
    <2>1. /\ host = "join" /\ wpc = "done" /\ host' = "closed" /\ wpc' = "done"
          /\ UNCHANGED <<handle, written, mday, day>>
          /\ files' = IF handle # 0 THEN Closed(files, handle) ELSE files
      BY <1>1 DEF Joined, worker
    <2>2. files \in Files /\ handle = Len(files) /\ handle # 0
      BY <2>1 DEF DiskInv
    <2>3. handle \in 1..Len(files)
      BY <2>2 DEF Files
    <2>4. PICK fs \in Files, h \in Nat : fs = files /\ h = handle /\ h \in 1..Len(fs)
      BY <2>2, <2>3
    <2>5. /\ Closed(fs, h) \in Files /\ Len(Closed(fs, h)) = Len(fs)
          /\ Closed(fs, h)[h].data = fs[h].data /\ Closed(fs, h)[h].std = fs[h].std
          /\ Text(Closed(fs, h)) = Text(fs)
      BY <2>4, ClosedFile
    <2>6. /\ files' \in Files /\ Len(files') = Len(files) /\ handle' = handle
          /\ files'[handle'].data = files[handle].data /\ files'[handle'].std = files[handle].std
          /\ Text(files') = Text(files)
      BY <2>1, <2>2, <2>4, <2>5
    <2> QED BY <2>1, <2>2, <2>6 DEF DiskInv
  <1>2. CASE ~Joined
    <2>1. UNCHANGED <<handle, written, mday, files>>
      BY <1>2 DEF Log, Fatal, Exit, NewDay, WorkerTop, WorkerWait, WorkerDrop, vars, disk
    <2>2. /\ wpc' = "start" => wpc = "start"
          /\ wpc = "start" => wpc' = "start"
          /\ wpc = "done" => wpc' = "done"
      BY <1>2 DEF Log, Fatal, Exit, NewDay, WorkerTop, WorkerWait, WorkerDrop, vars, worker
    <2>3. /\ host' = "dead" <=> host = "dead"
          /\ host' = "closed" <=> host = "closed"
      BY <1>2 DEF Log, Fatal, Exit, NewDay, WorkerTop, WorkerWait, WorkerDrop, vars
    <2>4. day' = day \/ day' = day + 1
      BY <1>2 DEF Log, Fatal, Exit, NewDay, WorkerTop, WorkerWait, WorkerDrop, vars
    <2> QED BY <2>1, <2>2, <2>3, <2>4 DEF DiskInv
  <1> QED BY <1>1, <1>2

LEMMA DiskNext == DiskInv /\ IInv /\ [Next]_vars => DiskInv'
  <1> SUFFICES ASSUME DiskInv, IInv, [Next]_vars PROVE DiskInv'
    OBVIOUS
  <1>1. toWrite \in Lists
    BY DEF IInv, BufferType, Lists, Messages
  <1> QED BY <1>1, StartDisk, SwapDisk, WriteDisk, OtherDisk DEF Next, Worker

(* RollsInTime holds for every RollSize and every size of buffer: a file    *)
(* that is written is open, and no roll comes later than one batch after    *)
(* the limit (rollfile, lua-log.c:102, called at lua-log.c:221, 247 and 323) . *)
THEOREM FilesRollInTime == Spec => []RollsInTime
  <1>1. DiskInv => RollsInTime
    BY DEF DiskInv, RollsInTime
  <1> QED BY BufferInit, BufferStep, DiskInit, DiskNext, <1>1, PTL DEF Spec

-----------------------------------------------------------------------------
(* Pieces of a queue, and a queue of three of them.                         *)
LEMMA Piece ==
  ASSUME NEW q \in Messages, NEW x \in Messages, NEW k \in Nat, k + Len(x) <= Len(q),
         \A i \in 1..Len(x) : q[k + i] = x[i]
  PROVE  SubSeq(q, k + 1, k + Len(x)) = x
  <1>1. Len(x) \in Nat /\ Len(q) \in Nat
    BY DEF Messages
  <1>2. PICK n \in Int, m \in Int : m = k + 1 /\ n = k + Len(x) /\ n - m + 1 = Len(x)
    BY <1>1
  <1>3. PICK N : N = Nat
    OBVIOUS
  <1>4. \A i \in 1..Len(q) : q[i] \in N
    BY <1>3, ElementOfSeq DEF Messages
  <1>5. \A i \in m..n : q[i] \in N
    BY <1>1, <1>2, <1>4
  <1>6. PICK s : s = SubSeq(q, m, n)
    OBVIOUS
  <1>7. /\ s \in Seq(N) /\ Len(s) = IF m <= n THEN n - m + 1 ELSE 0
        /\ \A i \in 1..n - m + 1 : s[i] = q[m + i - 1]
    BY <1>5, <1>6, SubSeqProperties
  <1>8. Len(s) = Len(x)
    BY <1>1, <1>2, <1>7
  <1>9. ASSUME NEW i \in 1..Len(x) PROVE s[i] = x[i]
    <2>1. m + i - 1 = k + i
      BY <1>1, <1>2
    <2> QED BY <1>2, <1>7, <2>1
  <1>10. s = x
    BY <1>3, <1>7, <1>8, <1>9, SeqEqual DEF Messages
  <1> QED BY <1>2, <1>6, <1>10

Parts(a, b, c, q) ==
  /\ q \in Messages /\ Len(q) = Len(a) + Len(b) + Len(c)
  /\ SubSeq(q, 1, Len(a)) = a
  /\ SubSeq(q, Len(a) + 1, Len(a) + Len(b)) = b
  /\ SubSeq(q, Len(a) + Len(b) + 1, Len(q)) = c

LEMMA Cut ==
  ASSUME NEW a \in Messages, NEW b \in Messages, NEW c \in Messages
  PROVE  \E q : q = (a \o b) \o c /\ Parts(a, b, c, q)
  <1> DEFINE q == (a \o b) \o c
  <1>1. Len(a) \in Nat /\ Len(b) \in Nat /\ Len(c) \in Nat
    BY DEF Messages
  <1>2. PICK ab : ab = a \o b
    OBVIOUS
  <1>3. /\ ab \in Messages /\ Len(ab) = Len(a) + Len(b)
        /\ \A i \in 1..Len(a) + Len(b) : ab[i] = IF i <= Len(a) THEN a[i] ELSE b[i - Len(a)]
    BY <1>2, ConcatProperties DEF Messages
  <1>4. /\ q \in Messages /\ Len(q) = Len(ab) + Len(c)
        /\ \A i \in 1..Len(ab) + Len(c) : q[i] = IF i <= Len(ab) THEN ab[i] ELSE c[i - Len(ab)]
    BY <1>2, <1>3, ConcatProperties DEF Messages
  <1>5. Len(q) = Len(a) + Len(b) + Len(c)
    BY <1>1, <1>3, <1>4
  <1>6. \A i \in 1..Len(q) : q[i] \in Nat
    BY <1>4, ElementOfSeq DEF Messages
  <1>7. /\ \A i \in 1..Len(a) : q[i] = a[i]
        /\ \A i \in 1..Len(b) : q[Len(a) + i] = b[i]
        /\ \A i \in 1..Len(c) : q[Len(a) + Len(b) + i] = c[i]
    BY <1>1, <1>3, <1>4
  <1>8. ASSUME NEW x \in Messages, NEW k \in Nat, k + Len(x) <= Len(q),
               \A i \in 1..Len(x) : q[k + i] = x[i]
        PROVE  SubSeq(q, k + 1, k + Len(x)) = x
    BY <1>4, <1>8, Piece
  <1>9. SubSeq(q, 1, Len(a)) = a
    <2>1. 0 + Len(a) <= Len(q) /\ \A i \in 1..Len(a) : q[0 + i] = a[i]
      BY <1>1, <1>5, <1>7
    <2>2. SubSeq(q, 0 + 1, 0 + Len(a)) = a
      BY <1>8, <2>1
    <2>3. 0 + 1 = 1 /\ 0 + Len(a) = Len(a)
      BY <1>1
    <2> QED BY <2>2, <2>3
  <1>10. SubSeq(q, Len(a) + 1, Len(a) + Len(b)) = b
    <2>1. Len(a) + Len(b) <= Len(q)
      BY <1>1, <1>5
    <2> QED BY <1>1, <1>7, <1>8, <2>1
  <1>11. SubSeq(q, Len(a) + Len(b) + 1, Len(q)) = c
    <2>1. PICK k \in Nat : k = Len(a) + Len(b)
      BY <1>1
    <2>2. k + Len(c) = Len(q)
      BY <1>1, <1>5, <2>1
    <2>3. k + Len(c) <= Len(q)
      BY <1>1, <2>2
    <2>4. SubSeq(q, k + 1, k + Len(c)) = c
      BY <1>7, <1>8, <2>1, <2>3
    <2> QED BY <2>1, <2>2, <2>4
  <1>12. Parts(a, b, c, q)
    BY <1>4, <1>5, <1>9, <1>10, <1>11 DEF Parts
  <1> QED BY <1>12

LEMMA Associates ==
  \A a, b, c \in Messages :
     /\ a \o b \in Messages /\ (a \o b) \o c \in Messages
     /\ (a \o b) \o c = a \o (b \o c)
  <1> SUFFICES ASSUME NEW a \in Messages, NEW b \in Messages, NEW c \in Messages
               PROVE  /\ a \o b \in Messages /\ (a \o b) \o c \in Messages
                      /\ (a \o b) \o c = a \o (b \o c)
    OBVIOUS
  <1>1. a \o b \in Messages
    BY ConcatProperties DEF Messages
  <1>2. (a \o b) \o c \in Messages
    BY <1>1, ConcatProperties DEF Messages
  <1>3. (a \o b) \o c = a \o (b \o c)
    BY ConcatAssociative DEF Messages
  <1> QED BY <1>1, <1>2, <1>3

(* A backlog: every buffer but the last is full, the last is not empty.      *)
FullButLast(l) ==
  /\ \A i \in 1..Len(l) - 1 : Len(l[i]) = BufferSize - 1
  /\ l[Len(l)] # <<>>

(* What WorkerDrop keeps, A, and what it frees, B.                           *)
LEMMA Backlogged ==
  ASSUME NEW l \in Lists, Len(l) > MaxBuffers, FullButLast(l)
  PROVE  /\ SubSeq(l, 1, 2) \in Lists /\ SubSeq(l, 3, Len(l)) \in Lists
         /\ Flat(l) = Flat(SubSeq(l, 1, 2)) \o Flat(SubSeq(l, 3, Len(l)))
         /\ Len(Flat(SubSeq(l, 1, 2))) >= 1 /\ Len(Flat(SubSeq(l, 3, Len(l)))) >= 1
         /\ Len(Flat(l)) >= MaxBuffers * (BufferSize - 1)
  <1> DEFINE n == Len(l)
  <1>1. n \in Nat /\ n >= 3 /\ n > MaxBuffers
    BY LogAssumption DEF Lists
  <1>2. \A i \in 1..n : l[i] \in Messages
    BY ElementOfSeq DEF Lists
  <1>3. PICK k \in Nat : k = BufferSize - 1 /\ k >= 1
    BY LogAssumption
  <1>4. /\ \A i \in 1..n-1 : Len(l[i]) = k
        /\ l[n] \in Messages /\ Len(l[n]) \in Nat /\ Len(l[n]) >= 1
    <2>1. l[n] \in Messages /\ l[n] # <<>>
      BY <1>1, <1>2 DEF FullButLast
    <2>2. Len(l[n]) \in Nat /\ Len(l[n]) # 0
      BY <2>1, EmptySeq DEF Messages
    <2> QED BY <1>3, <2>1, <2>2 DEF FullButLast
  <1>5. PICK h : h = SubSeq(l, 1, 2)
    OBVIOUS
  <1>6. PICK t : t = SubSeq(l, 3, n)
    OBVIOUS
  <1>7. PICK f : f = SubSeq(l, 1, n - 1)
    OBVIOUS
  <1> HIDE DEF n
  <1>8. h \in Lists /\ Len(h) = 2 /\ h[1] = l[1] /\ h[2] = l[2]
    <2>1. \A i \in 1..2 : l[i] \in Messages
      BY <1>1, <1>2
    <2>2. /\ h \in Seq(Messages) /\ Len(h) = IF 1 <= 2 THEN 2 - 1 + 1 ELSE 0
          /\ \A i \in 1..2 - 1 + 1 : h[i] = l[1 + i - 1]
      BY <1>5, <2>1, SubSeqProperties
    <2> QED BY <2>2 DEF Lists
  <1>9. t \in Lists
    <2>1. \A i \in 3..n : l[i] \in Messages
      BY <1>1, <1>2
    <2> QED BY <1>1, <1>6, <2>1, SubSeqProperties DEF Lists
  <1>10. f \in Lists /\ Len(f) = n - 1 /\ \A i \in 1..n-1 : f[i] = l[i]
    <2>1. \A i \in 1..n-1 : l[i] \in Messages /\ 1 + i - 1 = i
      BY <1>1, <1>2
    <2>2. PICK m \in Int : m = n - 1
      BY <1>1
    <2>3. /\ f \in Seq(Messages) /\ Len(f) = IF 1 <= m THEN m - 1 + 1 ELSE 0
          /\ \A i \in 1..m - 1 + 1 : f[i] = l[1 + i - 1]
      BY <1>7, <2>1, <2>2, SubSeqProperties
    <2> QED BY <1>1, <2>1, <2>2, <2>3 DEF Lists
  <1>11. l = h \o t
    <2>1. 1 \in 1..Len(l) + 1 /\ 2 \in 1 - 1..Len(l) /\ n \in 2..Len(l)
      BY <1>1 DEF n
    <2>2. SubSeq(l, 1, 2) \o SubSeq(l, 2 + 1, n) = SubSeq(l, 1, n)
      BY <2>1, ConcatAdjacentSubSeq DEF Lists
    <2>3. SubSeq(l, 1, n) = l
      BY SubSeqFull DEF Lists, n
    <2>4. 2 + 1 = 3
      OBVIOUS
    <2> QED BY <1>5, <1>6, <2>2, <2>3, <2>4
  <1>12. l = Append(f, l[n])
    <2>1. PICK z : z = Append(f, l[n])
      OBVIOUS
    <2>2. /\ z \in Seq(Messages) /\ Len(z) = Len(f) + 1 /\ z[Len(f) + 1] = l[n]
          /\ \A i \in 1..Len(f) : z[i] = f[i]
      BY <1>4, <1>10, <2>1, AppendProperties DEF Lists
    <2>3. Len(z) = n /\ z[n] = l[n] /\ \A i \in 1..n-1 : z[i] = l[i]
      BY <1>1, <1>10, <2>2
    <2>4. \A i \in 1..n : z[i] = l[i]
      BY <1>1, <2>3
    <2>5. Len(l) = n
      BY DEF n
    <2> QED BY <2>1, <2>2, <2>3, <2>4, <2>5, SeqEqual DEF Lists
  <1>13. Flat(l) = Flat(h) \o Flat(t) /\ Flat(h) \in Messages /\ Flat(t) \in Messages
    BY <1>8, <1>9, <1>11, FlatConcat, FlatTypes
  <1>14. Len(Flat(h)) = 2 * k
    <2>1. \A i \in 1..Len(h) : Len(h[i]) = k
      BY <1>1, <1>4, <1>8
    <2> QED BY <1>8, <2>1, FlatLength
  <1>15. Len(Flat(f)) = (n - 1) * k
    <2>1. \A i \in 1..Len(f) : Len(f[i]) = k
      BY <1>4, <1>10
    <2>2. Len(Flat(f)) = Len(f) * k
      BY <1>10, <2>1, FlatLength
    <2> QED BY <1>10, <2>2
  <1>16. Len(Flat(l)) = Len(Flat(f)) + Len(l[n])
    <2>1. Flat(l) = Flat(f) \o l[n]
      BY <1>4, <1>10, <1>12, FlatAppend
    <2>2. Flat(f) \in Messages
      BY <1>10, FlatTypes
    <2> QED BY <1>4, <2>1, <2>2, ConcatProperties DEF Messages
  <1>17. Len(Flat(l)) = Len(Flat(h)) + Len(Flat(t)) /\ Len(Flat(t)) \in Nat
    BY <1>13, ConcatProperties DEF Messages
  <1>18. (n - 1) * k >= MaxBuffers * k /\ (n - 1) * k >= 2 * k
    <2>1. PICK x \in Nat, y \in Nat : x = n - 1 /\ y = MaxBuffers /\ x >= y /\ x >= 2
      BY <1>1, LogAssumption
    <2>2. x * k >= y * k /\ x * k >= 2 * k
      BY <2>1
    <2> QED BY <2>1, <2>2
  <1>19. (n - 1) * k \in Int /\ MaxBuffers * k \in Int
    BY <1>1, LogAssumption
  <1>20. Len(Flat(h)) >= 1 /\ Len(Flat(t)) >= 1 /\ Len(Flat(l)) >= MaxBuffers * k
    <2>1. PICK p \in Int, r \in Int : p = (n - 1) * k /\ r = MaxBuffers * k
      BY <1>19
    <2>2. p >= r /\ p >= 2 * k
      BY <1>18, <2>1
    <2>3. PICK u, v, w : u = Len(Flat(h)) /\ v = Len(Flat(t)) /\ w = Len(Flat(l))
      OBVIOUS
    <2>4. u = 2 * k /\ w = p + Len(l[n]) /\ w = u + v /\ v \in Nat
      BY <1>14, <1>15, <1>16, <1>17, <2>1, <2>3
    <2>5. u >= 1 /\ v >= 1 /\ w >= r
      BY <1>3, <1>4, <2>2, <2>4
    <2> QED BY <2>1, <2>3, <2>5
  <1> QED BY <1>3, <1>5, <1>6, <1>8, <1>9, <1>13, <1>20 DEF n

-----------------------------------------------------------------------------
(* What the waiting buffers hold: each was full when it joined the others,  *)
(* and the message that did not fit into it began the current one.          *)
StreamInv ==
  /\ lost \in Messages
  /\ wpc \notin {"drop", "write"} => toWrite = <<>>
  /\ Len(curr) < BufferSize
  /\ \A i \in 1..Len(buffers) : Len(buffers[i]) = BufferSize - 1
  /\ buffers # <<>> => curr # <<>>
  /\ wpc = "drop" => FullButLast(toWrite)

Typed == curr \in Messages /\ buffers \in Lists /\ toWrite \in Lists /\ sent \in Nat

LEMMA IInvTyped == IInv => Typed
  BY DEF IInv, BufferType, Typed, Lists, Messages

LEMMA StreamStart == Init => StreamInv
  <1> SUFFICES ASSUME Init PROVE StreamInv
    OBVIOUS
  <1>1. curr = <<>> /\ buffers = <<>> /\ toWrite = <<>> /\ lost = <<>> /\ wpc = "start"
    BY DEF Init
  <1>2. <<>> \in Messages /\ Len(<<>>) = 0
    BY EmptySeq DEF Messages
  <1>3. Len(buffers) = 0 /\ Len(curr) = 0
    BY <1>1
  <1>4. \A i \in 1..Len(buffers) : Len(buffers[i]) = BufferSize - 1
    BY <1>3
  <1> QED BY <1>1, <1>2, <1>3, <1>4, LogAssumption DEF StreamInv

LEMMA OneMore ==
  ASSUME NEW m \in Nat, NEW q \in Messages
  PROVE  /\ <<m>> \in Messages /\ <<m>> # <<>> /\ Len(<<m>>) = 1
         /\ Append(q, m) = q \o <<m>> /\ Append(q, m) \in Messages
         /\ Append(q, m) # <<>> /\ Len(Append(q, m)) = Len(q) + 1
  <1>1. PICK N : N = Nat
    OBVIOUS
  <1>2. m \in N /\ q \in Seq(N)
    BY <1>1 DEF Messages
  <1>3. /\ Append(q, m) = q \o <<m>> /\ Append(q, m) \in Seq(N)
        /\ Append(q, m) # <<>> /\ Len(Append(q, m)) = Len(q) + 1
    BY <1>2, AppendIsConcat, AppendProperties
  <1>4. <<m>> \in Seq(N) /\ <<m>> # <<>> /\ Len(<<m>>) = 1
    BY <1>2
  <1> QED BY <1>1, <1>3, <1>4 DEF Messages

(* Concatenation, kept abstract where only its laws matter.                 *)
Cat(a, b) == a \o b

LEMMA CatLaws ==
  /\ \A a, b \in Messages : Cat(a, b) \in Messages
  /\ \A a, b, c \in Messages : Cat(Cat(a, b), c) = Cat(a, Cat(b, c))
  <1>1. \A a, b \in Messages : Cat(a, b) \in Messages
    BY Associates DEF Cat
  <1>2. ASSUME NEW a \in Messages, NEW b \in Messages, NEW c \in Messages
        PROVE  Cat(Cat(a, b), c) = Cat(a, Cat(b, c))
    <2>1. (a \o b) \o c = a \o (b \o c)
      BY Associates
    <2> QED BY <2>1 DEF Cat
  <1> QED BY <1>1, <1>2

LEMMA Grows ==
  ASSUME NEW w \in Messages, NEW y \in Messages, NEW c \in Messages, NEW x \in Messages,
         NEW y2 \in Messages, NEW c2 \in Messages, Cat(y2, c2) = Cat(Cat(y, c), x)
  PROVE  Cat(Cat(w, y2), c2) = Cat(Cat(Cat(w, y), c), x)
  <1>1. Cat(Cat(w, y2), c2) = Cat(w, Cat(Cat(y, c), x))
    BY CatLaws
  <1>2. Cat(y, c) \in Messages
    BY CatLaws
  <1>3. Cat(w, Cat(Cat(y, c), x)) = Cat(Cat(w, Cat(y, c)), x)
    BY <1>2, CatLaws
  <1>4. Cat(w, Cat(y, c)) = Cat(Cat(w, y), c)
    BY CatLaws
  <1> QED BY <1>1, <1>3, <1>4

(* append: the queue of the callers grows by the message.                   *)
LEMMA PutQueue ==
  ASSUME Typed, StreamInv, NEW m \in Nat, Put(m)
  PROVE  /\ Len(curr') < BufferSize /\ curr' # <<>>
         /\ \A i \in 1..Len(buffers') : Len(buffers'[i]) = BufferSize - 1
         /\ Cat(Flat(buffers'), curr') = Cat(Cat(Flat(buffers), curr), <<m>>)
  <1>1. PICK c \in Messages, b \in Lists, x \in Messages : c = curr /\ b = buffers /\ x = <<m>>
    BY OneMore DEF Typed
  <1>2. PICK y \in Messages : y = Flat(b)
    BY FlatTypes
  <1>3. /\ Len(c) < BufferSize /\ \A i \in 1..Len(b) : Len(b[i]) = BufferSize - 1
    BY <1>1 DEF StreamInv
  <1>4. Len(c) \in Nat /\ Len(b) \in Nat
    BY DEF Messages, Lists
  <1>5. CASE Len(curr) + 1 < BufferSize
    <2>1. curr' = Append(c, m) /\ buffers' = b
      BY <1>1, <1>5 DEF Put
    <2>2. /\ Append(c, m) = c \o x /\ Len(Append(c, m)) = Len(c) + 1 /\ Append(c, m) # <<>>
      BY <1>1, OneMore
    <2>3. Cat(y, Cat(c, x)) = Cat(Cat(y, c), x) /\ Append(c, m) = Cat(c, x)
      BY <2>2, CatLaws DEF Cat
    <2>4. Len(curr') < BufferSize
      BY <1>1, <1>5, <2>1, <2>2
    <2> QED BY <1>1, <1>2, <1>3, <2>1, <2>2, <2>3, <2>4
  <1>6. CASE ~(Len(curr) + 1 < BufferSize)
    <2>1. buffers' = Append(b, c) /\ curr' = x
      BY <1>1, <1>6 DEF Put
    <2>2. Len(c) = BufferSize - 1
      BY <1>1, <1>3, <1>4, <1>6, LogAssumption
    <2>3. Flat(Append(b, c)) = Cat(y, c)
      BY <1>2, FlatAppend DEF Cat
    <2>4. PICK z : z = Append(b, c)
      OBVIOUS
    <2>5. /\ Len(z) = Len(b) + 1 /\ z[Len(b) + 1] = c /\ \A i \in 1..Len(b) : z[i] = b[i]
      BY <2>4, AppendProperties DEF Lists
    <2>6. \A i \in 1..Len(z) : Len(z[i]) = BufferSize - 1
      BY <1>3, <1>4, <2>2, <2>5
    <2>7. Len(x) = 1 /\ x # <<>>
      BY <1>1
    <2>8. Len(curr') < BufferSize /\ curr' # <<>>
      BY <2>1, <2>7, LogAssumption
    <2> QED BY <1>1, <1>2, <2>1, <2>3, <2>4, <2>6, <2>8
  <1> QED BY <1>5, <1>6

(* A caller's step: the whole queue grows by the message.                   *)
LEMMA CallerQueue ==
  ASSUME Typed, StreamInv, NEW m \in Nat, Put(m), UNCHANGED <<worker, lost>>
  PROVE  StreamInv' /\ Waiting' = Append(Waiting, m)
  <1>1. /\ Len(curr') < BufferSize /\ curr' # <<>>
        /\ \A i \in 1..Len(buffers') : Len(buffers'[i]) = BufferSize - 1
        /\ Cat(Flat(buffers'), curr') = Cat(Cat(Flat(buffers), curr), <<m>>)
    BY PutQueue
  <1>2. toWrite' = toWrite /\ wpc' = wpc /\ lost' = lost
    BY DEF worker
  <1>3. StreamInv'
    BY <1>1, <1>2 DEF StreamInv
  <1>4. PICK w \in Messages, y \in Messages, c \in Messages, x \in Messages :
               w = Flat(toWrite) /\ y = Flat(buffers) /\ c = curr /\ x = <<m>>
    <2>1. Flat(toWrite) \in Messages /\ Flat(buffers) \in Messages /\ curr \in Messages
      BY FlatTypes DEF Typed
    <2>2. <<m>> \in Messages
      BY OneMore DEF Typed
    <2> QED BY <2>1, <2>2
  <1>5. PICK y2, c2 : y2 = Flat(buffers') /\ c2 = curr'
    OBVIOUS
  <1>6. Cat(y2, c2) = Cat(Cat(y, c), x)
    BY <1>1, <1>4, <1>5
  <1>7. y2 \in Messages /\ c2 \in Messages
    <2>1. PICK b \in Lists : b = buffers
      BY DEF Typed
    <2>2. \/ curr' = Append(c, m) /\ buffers' = b
          \/ curr' = x /\ buffers' = Append(b, c)
      BY <1>4, <2>1 DEF Put
    <2>3. buffers' \in Lists /\ curr' \in Messages
      BY <2>2, OneMore, FlatAppend
    <2> QED BY <1>5, <2>3, FlatTypes
  <1>8. Cat(Cat(w, y2), c2) = Cat(Cat(Cat(w, y), c), x)
    BY <1>6, <1>7, Grows
  <1>9. PICK q \in Messages : q = Cat(Cat(w, y), c)
    BY CatLaws
  <1>10. Waiting = q /\ Waiting' = Cat(Cat(w, y2), c2)
    BY <1>2, <1>4, <1>5, <1>9 DEF Waiting, Cat
  <1>11. Append(q, m) = Cat(q, x)
    BY <1>4, OneMore DEF Cat
  <1> QED BY <1>3, <1>8, <1>9, <1>10, <1>11

-----------------------------------------------------------------------------
(* The swap moves the callers' buffers to the worker.                        *)
LEMMA SwapQueue ==
  ASSUME Typed, StreamInv, WorkerSwap
  PROVE  StreamInv' /\ Waiting' = Waiting
  <1>1. /\ toWrite' = Append(buffers, curr) /\ buffers' = <<>> /\ curr' = <<>>
        /\ wpc' = IF Len(buffers) + 1 > MaxBuffers THEN "drop" ELSE "write"
        /\ lost' = lost /\ toWrite = <<>>
    BY DEF WorkerSwap, StreamInv
  <1>2. PICK b \in Lists, c \in Messages : b = buffers /\ c = curr
    BY DEF Typed
  <1>3. /\ \A i \in 1..Len(b) : Len(b[i]) = BufferSize - 1
        /\ b # <<>> => c # <<>>
    BY <1>2 DEF StreamInv
  <1>4. PICK t : t = Append(b, c)
    OBVIOUS
  <1>5. /\ t \in Lists /\ Len(t) = Len(b) + 1 /\ t[Len(b) + 1] = c
        /\ \A i \in 1..Len(b) : t[i] = b[i]
    BY <1>4, AppendProperties DEF Lists
  <1>6. Len(b) \in Nat
    BY DEF Lists
  <1>7. wpc' = "drop" => FullButLast(t)
    <2> SUFFICES ASSUME Len(b) + 1 > MaxBuffers PROVE FullButLast(t)
      BY <1>1, <1>2
    <2>1. b # <<>>
      <3>1. Len(b) # 0
        BY LogAssumption
      <3> QED BY <3>1, EmptySeq
    <2>2. Len(t) - 1 = Len(b) /\ t[Len(t)] # <<>>
      BY <1>3, <1>5, <1>6, <2>1
    <2> QED BY <1>3, <1>5, <2>2 DEF FullButLast
  <1>8. Len(curr') < BufferSize
    <2>1. Len(curr') = 0
      BY <1>1, EmptySeq
    <2> QED BY <2>1, LogAssumption
  <1>9. \A i \in 1..Len(buffers') : Len(buffers'[i]) = BufferSize - 1
    <2>1. Len(buffers') = 0
      BY <1>1, EmptySeq
    <2> QED BY <2>1
  <1>10. StreamInv'
    <2>1. toWrite' = t /\ wpc' \in {"drop", "write"}
      BY <1>1, <1>2, <1>4
    <2> QED BY <1>1, <1>7, <1>8, <1>9, <2>1 DEF StreamInv
  <1>11. PICK y \in Messages, e \in Messages : y = Flat(b) /\ e = <<>> /\ Flat(<<>>) = e
    BY FlatTypes, FlatEmpty, EmptySeq DEF Messages
  <1>12. \A q \in Messages : Cat(e, q) = q /\ Cat(q, e) = q
    BY <1>11, ConcatEmptySeq DEF Cat, Messages
  <1>13. Flat(t) = Cat(y, c) /\ Cat(y, c) \in Messages
    BY <1>4, <1>11, FlatAppend, CatLaws DEF Cat
  <1>14. Waiting = Cat(Cat(e, y), c)
    BY <1>1, <1>2, <1>11 DEF Waiting, Cat
  <1>15. Waiting' = Cat(Cat(Flat(t), e), e)
    BY <1>1, <1>2, <1>4, <1>11 DEF Waiting, Cat
  <1> QED BY <1>10, <1>12, <1>13, <1>14, <1>15

(* The backlog is cut down to A, the two oldest buffers; B is lost, and the  *)
(* notice joins what the callers have put since the swap.                    *)
LEMMA DropQueue ==
  ASSUME Typed, StreamInv, Batch, WorkerDrop
  PROVE  /\ StreamInv' /\ Len(Waiting) >= MaxBuffers * (BufferSize - 1)
         /\ \E i, j \in 1..Len(Waiting) :
              /\ 1 < i /\ i <= j
              /\ lost' = lost \o SubSeq(Waiting, i, j)
              /\ Waiting' = SubSeq(Waiting, 1, i - 1)
                              \o SubSeq(Waiting, j + 1, Len(Waiting)) \o <<Notice>>
  <1>1. /\ wpc = "drop" /\ wpc' = "write" /\ Put(Notice)
        /\ toWrite' = SubSeq(toWrite, 1, 2)
        /\ lost' = lost \o Flat(SubSeq(toWrite, 3, Len(toWrite)))
    BY DEF WorkerDrop
  <1>2. PICK l \in Lists : l = toWrite /\ Len(l) > MaxBuffers /\ FullButLast(l)
    BY <1>1 DEF Typed, StreamInv, Batch
  <1>3. /\ SubSeq(l, 1, 2) \in Lists /\ SubSeq(l, 3, Len(l)) \in Lists
        /\ Flat(l) = Flat(SubSeq(l, 1, 2)) \o Flat(SubSeq(l, 3, Len(l)))
        /\ Len(Flat(SubSeq(l, 1, 2))) >= 1 /\ Len(Flat(SubSeq(l, 3, Len(l)))) >= 1
        /\ Len(Flat(l)) >= MaxBuffers * (BufferSize - 1)
    BY <1>2, Backlogged
  <1>4. PICK A \in Messages, B \in Messages :
               A = Flat(SubSeq(l, 1, 2)) /\ B = Flat(SubSeq(l, 3, Len(l)))
    BY <1>3, FlatTypes
  <1>5. Flat(l) = Cat(A, B) /\ Len(A) >= 1 /\ Len(B) >= 1
    BY <1>3, <1>4 DEF Cat
  <1>6. Notice \in Nat
    BY DEF Notice
  <1>7. /\ Len(curr') < BufferSize /\ curr' # <<>>
        /\ \A i \in 1..Len(buffers') : Len(buffers'[i]) = BufferSize - 1
        /\ Cat(Flat(buffers'), curr') = Cat(Cat(Flat(buffers), curr), <<Notice>>)
    BY <1>1, <1>6, PutQueue
  <1>8. lost \in Messages
    BY DEF StreamInv
  <1>9. lost' = Cat(lost, B) /\ lost' \in Messages
    BY <1>1, <1>2, <1>4, <1>8, CatLaws DEF Cat
  <1>10. StreamInv'
    BY <1>1, <1>7, <1>9 DEF StreamInv
  <1>11. PICK y \in Messages, c \in Messages, n \in Messages :
                y = Flat(buffers) /\ c = curr /\ n = <<Notice>>
    BY <1>6, FlatTypes, OneMore DEF Typed
  <1>12. PICK y2 \in Messages, c2 \in Messages : y2 = Flat(buffers') /\ c2 = curr'
    <2>1. PICK b \in Lists : b = buffers
      BY DEF Typed
    <2>2. \/ curr' = Append(c, Notice) /\ buffers' = b
          \/ curr' = n /\ buffers' = Append(b, c)
      BY <1>1, <1>11, <2>1 DEF Put
    <2>3. buffers' \in Lists /\ curr' \in Messages
      BY <1>6, <2>2, OneMore, FlatAppend
    <2> QED BY <2>3, FlatTypes
  <1>13. Cat(y2, c2) = Cat(Cat(y, c), n)
    BY <1>7, <1>11, <1>12
  <1>14. PICK T \in Messages : T = Cat(y, c)
    BY CatLaws
  <1>15. Cat(A, B) \in Messages
    BY CatLaws
  <1>16. PICK q : q = Cat(Cat(A, B), T)
    OBVIOUS
  <1>17. Waiting = q
    <2>1. Waiting = Cat(Cat(Flat(l), y), c)
      BY <1>2, <1>11 DEF Waiting, Cat
    <2>2. Cat(Cat(Cat(A, B), y), c) = Cat(Cat(A, B), Cat(y, c))
      BY <1>15, CatLaws
    <2> QED BY <1>5, <1>14, <1>16, <2>1, <2>2
  <1>18. Waiting' = Cat(Cat(A, T), n)
    <2>1. Waiting' = Cat(Cat(A, y2), c2)
      BY <1>1, <1>2, <1>4, <1>12 DEF Waiting, Cat
    <2>2. Cat(Cat(A, y2), c2) = Cat(Cat(Cat(A, y), c), n)
      BY <1>13, Grows
    <2>3. Cat(Cat(A, y), c) = Cat(A, T)
      BY <1>14, CatLaws
    <2> QED BY <2>1, <2>2, <2>3
  <1>19. q = (A \o B) \o T
    BY <1>16 DEF Cat
  <1>20. /\ q \in Messages /\ Len(q) = Len(A) + Len(B) + Len(T)
         /\ SubSeq(q, 1, Len(A)) = A
         /\ SubSeq(q, Len(A) + 1, Len(A) + Len(B)) = B
         /\ SubSeq(q, Len(A) + Len(B) + 1, Len(q)) = T
    <2>1. PICK p : p = (A \o B) \o T /\ Parts(A, B, T, p)
      BY Cut
    <2>2. p = q
      BY <1>19, <2>1
    <2> QED BY <2>1, <2>2 DEF Parts
  <1>21. Len(A) \in Nat /\ Len(B) \in Nat /\ Len(T) \in Nat
    BY DEF Messages
  <1>22. PICK i \in Nat, j \in Nat : i = Len(A) + 1 /\ j = Len(A) + Len(B)
    BY <1>21
  <1>23. i \in 1..Len(q) /\ j \in 1..Len(q) /\ 1 < i /\ i <= j /\ i - 1 = Len(A)
    BY <1>5, <1>20, <1>21, <1>22
  <1>24. SubSeq(q, i, j) = B /\ SubSeq(q, 1, i - 1) = A /\ SubSeq(q, j + 1, Len(q)) = T
    BY <1>20, <1>22, <1>23
  <1>25. lost' = lost \o SubSeq(q, i, j)
    BY <1>9, <1>24 DEF Cat
  <1>26. Waiting' = SubSeq(q, 1, i - 1) \o SubSeq(q, j + 1, Len(q)) \o <<Notice>>
    BY <1>11, <1>18, <1>24 DEF Cat
  <1>27. Len(q) >= MaxBuffers * (BufferSize - 1)
    <2>1. Len(Flat(l)) = Len(A) + Len(B)
      <3>1. Len(A \o B) = Len(A) + Len(B)
        BY ConcatProperties DEF Messages
      <3> QED BY <1>3, <1>4, <3>1
    <2>2. PICK r \in Int : r = MaxBuffers * (BufferSize - 1)
      BY LogAssumption
    <2>3. Len(Flat(l)) >= r
      BY <1>3, <2>2
    <2> QED BY <1>20, <1>21, <2>1, <2>2, <2>3
  <1> QED BY <1>10, <1>17, <1>23, <1>25, <1>26, <1>27

(* What the worker writes is the head of the queue.                          *)
LEMMA WriteQueue ==
  ASSUME Typed, StreamInv, WorkerWrite
  PROVE  /\ StreamInv'
         /\ Waiting \in Messages /\ Waiting' \in Messages /\ Flat(toWrite) \in Messages
         /\ Waiting = Flat(toWrite) \o Waiting'
  <1>1. /\ wpc' = "top" /\ toWrite' = <<>> /\ curr' = curr /\ buffers' = buffers
        /\ lost' = lost
    BY DEF WorkerWrite, shared
  <1>2. StreamInv'
    BY <1>1 DEF StreamInv
  <1>3. PICK w \in Messages, y \in Messages, c \in Messages, e \in Messages :
               /\ w = Flat(toWrite) /\ y = Flat(buffers) /\ c = curr
               /\ e = <<>> /\ e = Flat(<<>>)
    BY FlatTypes, FlatEmpty, EmptySeq DEF Typed, Messages
  <1>4. \A q \in Messages : Cat(e, q) = q
    BY <1>3, ConcatEmptySeq DEF Cat, Messages
  <1>5. Waiting = Cat(Cat(w, y), c)
    BY <1>3 DEF Waiting, Cat
  <1>6. Waiting' = Cat(Cat(e, y), c)
    BY <1>1, <1>3 DEF Waiting, Cat
  <1>7. Waiting' = Cat(y, c) /\ Waiting' \in Messages
    BY <1>4, <1>6, CatLaws
  <1>8. Waiting = Cat(w, Waiting')
    BY <1>5, <1>7, CatLaws
  <1>9. Waiting \in Messages
    BY <1>7, <1>8, CatLaws
  <1>10. Waiting = Flat(toWrite) \o Waiting'
    BY <1>3, <1>8 DEF Cat
  <1> QED BY <1>2, <1>3, <1>7, <1>9, <1>10

LEMMA QueueUnchanged ==
  ASSUME StreamInv, UNCHANGED <<curr, buffers, toWrite, lost>>,
         wpc' = "drop" => wpc = "drop", wpc \in {"drop", "write"} => wpc' = wpc
  PROVE  StreamInv' /\ Waiting' = Waiting
  <1>1. StreamInv'
    BY DEF StreamInv
  <1> QED BY <1>1 DEF Waiting

-----------------------------------------------------------------------------
(* The steps of the logger are steps of the stream.                          *)
LEMMA StoredIsText == Stored = Text(files) /\ Stored' = Text(files')
  BY DEF Stored, Text, DataOf

LEMMA AcceptStep ==
  ASSUME Typed, StreamInv, DiskInv, Log \/ Fatal
  PROVE  StreamInv' /\ \E m \in 1..MaxMessages : Stream!Accept(m)
  <1>1. /\ sent < MaxMessages /\ Put(sent + 1) /\ UNCHANGED <<worker, lost, files>>
    BY DEF Log, Fatal, Accepted, disk
  <1>2. sent + 1 \in 1..MaxMessages /\ sent + 1 \in Nat
    BY <1>1, LogAssumption DEF Typed
  <1>3. PICK m \in 1..MaxMessages : m = sent + 1 /\ m \in Nat
    BY <1>2
  <1>4. StreamInv' /\ Waiting' = Append(Waiting, m)
    BY <1>1, <1>3, CallerQueue
  <1>5. Stored' = Stored /\ lost' = lost
    BY <1>1, StoredIsText
  <1>6. Stream!Accept(m)
    BY <1>4, <1>5 DEF Stream!Accept
  <1> QED BY <1>4, <1>6

LEMMA StoreStep ==
  ASSUME Typed, StreamInv, DiskInv, WorkerWrite
  PROVE  /\ StreamInv'
         /\ \/ \E n \in 1..Len(Waiting) : Stream!Store(n)
            \/ UNCHANGED <<Waiting, Stored, lost>>
  <1>1. PICK w \in Messages : w = Flat(toWrite)
    BY FlatTypes DEF Typed
  <1>2. /\ StreamInv' /\ Waiting \in Messages /\ Waiting' \in Messages
        /\ Waiting = w \o Waiting'
    BY <1>1, WriteQueue
  <1>3. Stored' = Stored \o w /\ Stored \in Messages
    <2>1. Text(files') = Text(files) \o w
      BY <1>1, WriteDisk DEF Typed
    <2>2. Text(files) \in Messages
      BY DataOfFiles, FlatTypes DEF DiskInv, Text
    <2> QED BY <2>1, <2>2, StoredIsText
  <1>4. lost' = lost
    BY DEF WorkerWrite
  <1>5. PICK q \in Messages, r \in Messages, s \in Messages, e \in Messages :
               q = Waiting /\ r = Waiting' /\ s = Stored /\ e = <<>>
    BY <1>2, <1>3, EmptySeq DEF Messages
  <1>6. CASE w = <<>>
    <2>1. w \o r = r /\ s \o w = s
      BY <1>6, ConcatEmptySeq DEF Messages
    <2>2. Waiting' = Waiting /\ Stored' = Stored
      BY <1>2, <1>3, <1>5, <2>1
    <2> QED BY <1>2, <1>4, <2>2
  <1>7. CASE w # <<>>
    <2>1. PICK p : p = (w \o r) \o e /\ Parts(w, r, e, p)
      BY Cut
    <2>2. p = q
      <3>1. PICK t \in Messages : t = w \o r
        BY <1>2, <1>5
      <3>2. t \o e = t
        BY <1>5, ConcatEmptySeq DEF Messages
      <3> QED BY <1>2, <1>5, <2>1, <3>1, <3>2
    <2>3. PICK n \in Nat, k \in Nat : n = Len(w) /\ k = Len(r) /\ n >= 1
      <3>1. Len(w) \in Nat /\ Len(r) \in Nat
        BY DEF Messages
      <3>2. Len(w) # 0
        BY <1>7, EmptySeq DEF Messages
      <3> QED BY <3>1, <3>2
    <2>4. Len(e) = 0
      BY <1>5, EmptySeq
    <2>5. /\ Len(q) = n + k + 0 /\ SubSeq(q, 1, n) = w /\ SubSeq(q, n + 1, n + k) = r
      BY <2>1, <2>2, <2>3, <2>4 DEF Parts
    <2>6. n \in 1..Len(q) /\ n + k = Len(q)
      BY <2>3, <2>5
    <2>7. SubSeq(q, n + 1, Len(q)) = r
      BY <2>5, <2>6
    <2>8. Stream!Store(n)
      BY <1>3, <1>4, <1>5, <2>5, <2>6, <2>7 DEF Stream!Store
    <2> QED BY <1>2, <1>5, <2>6, <2>8
  <1> QED BY <1>6, <1>7

LEMMA DiscardStep ==
  ASSUME Typed, StreamInv, Batch, WorkerDrop
  PROVE  StreamInv' /\ \E i, j \in 1..Len(Waiting) : Stream!Discard(i, j)
  <1>1. Stored' = Stored
    BY StoredIsText DEF WorkerDrop, disk
  <1>2. /\ StreamInv' /\ Len(Waiting) >= MaxBuffers * (BufferSize - 1)
        /\ \E i, j \in 1..Len(Waiting) :
              /\ 1 < i /\ i <= j
              /\ lost' = lost \o SubSeq(Waiting, i, j)
              /\ Waiting' = SubSeq(Waiting, 1, i - 1)
                              \o SubSeq(Waiting, j + 1, Len(Waiting)) \o <<Notice>>
    BY DropQueue
  <1> QED BY <1>1, <1>2 DEF Stream!Discard

LEMMA QuietStep ==
  ASSUME Typed, StreamInv, DiskInv,
         Exit \/ Joined \/ NewDay \/ WorkerStart \/ WorkerTop \/ WorkerWait \/ UNCHANGED vars
  PROVE  StreamInv' /\ UNCHANGED <<Waiting, Stored, lost>>
  <1>1. Stored' = Stored
    BY OtherDisk, StartDisk, StoredIsText
  <1>2. UNCHANGED <<curr, buffers, toWrite, lost>>
    BY DEF Exit, Joined, NewDay, WorkerStart, WorkerTop, WorkerWait, vars, shared, worker
  <1>3. (wpc' = "drop" => wpc = "drop") /\ (wpc \in {"drop", "write"} => wpc' = wpc)
    BY DEF Exit, Joined, NewDay, WorkerStart, WorkerTop, WorkerWait, vars, worker
  <1>4. StreamInv' /\ Waiting' = Waiting
    BY <1>2, <1>3, QueueUnchanged
  <1> QED BY <1>1, <1>2, <1>4

LEMMA StreamStep ==
  IInv /\ DiskInv /\ StreamInv /\ [Next]_vars
    => StreamInv' /\ [Stream!StreamNext]_(Stream!streamVars)
  <1> SUFFICES ASSUME IInv, DiskInv, StreamInv, [Next]_vars
               PROVE  StreamInv' /\ [Stream!StreamNext]_(Stream!streamVars)
    OBVIOUS
  <1>1. Typed /\ Batch
    BY IInvTyped DEF IInv
  <1>2. CASE Log \/ Fatal
    BY <1>1, <1>2, AcceptStep DEF Stream!StreamNext
  <1>3. CASE WorkerWrite
    <2>1. StreamInv' /\ (\/ \E n \in 1..Len(Waiting) : Stream!Store(n)
                         \/ UNCHANGED <<Waiting, Stored, lost>>)
      BY <1>1, <1>3, StoreStep
    <2> QED BY <2>1 DEF Stream!StreamNext, Stream!streamVars
  <1>4. CASE WorkerDrop
    BY <1>1, <1>4, DiscardStep DEF Stream!StreamNext
  <1>5. CASE WorkerSwap
    <2>1. StreamInv' /\ Waiting' = Waiting /\ Stored' = Stored
      BY <1>1, <1>5, SwapQueue, SwapDisk, StoredIsText
    <2>2. lost' = lost
      BY <1>5 DEF WorkerSwap
    <2> QED BY <2>1, <2>2 DEF Stream!streamVars
  <1>6. CASE Exit \/ Joined \/ NewDay \/ WorkerStart \/ WorkerTop \/ WorkerWait \/ UNCHANGED vars
    BY <1>1, <1>6, QuietStep DEF Stream!streamVars
  <1> QED BY <1>2, <1>3, <1>4, <1>5, <1>6 DEF Next, Worker

LEMMA StreamBegins == Init => Stream!StreamInit
  <1> SUFFICES ASSUME Init PROVE Stream!StreamInit
    OBVIOUS
  <1>1. curr = <<>> /\ buffers = <<>> /\ toWrite = <<>> /\ lost = <<>> /\ files = <<>>
    BY DEF Init
  <1>2. PICK e \in Messages : e = <<>> /\ Flat(<<>>) = e
    BY FlatEmpty, EmptySeq DEF Messages
  <1>3. e \o e = e
    BY <1>2, ConcatEmptySeq DEF Messages
  <1>4. Waiting = <<>>
    BY <1>1, <1>2, <1>3 DEF Waiting
  <1>5. Stored = <<>>
    <2>1. files \in Files /\ Len(files) = 0
      BY <1>1, EmptySeq DEF Files
    <2>2. DataOf(files) \in Lists /\ Len(DataOf(files)) = 0
      BY <2>1, DataOfFiles
    <2>3. DataOf(files) = <<>>
      BY <2>2, EmptySeq DEF Lists
    <2> QED BY <1>2, <2>3, StoredIsText DEF Text
  <1> QED BY <1>1, <1>4, <1>5 DEF Stream!StreamInit

(* The logger implements LogStream whatever the sizes of buffers, backlogs  *)
(* and files, however callers and worker interleave and whichever of its    *)
(* calls fail: append (lua-log.c:168) accepts, the write loop of worker_func *)
(* stores, the cut of a backlog discards one block with a notice, and       *)
(* neither the swap nor a roll is seen.                                     *)
THEOREM LoggerIsAStream == Spec => ImplementsStream
  <1>1. IInv /\ DiskInv /\ [Next]_vars => IInv' /\ DiskInv'
    BY BufferStep, DiskNext
  <1> QED BY BufferInit, DiskInit, StreamStart, StreamBegins, <1>1, StreamStep, PTL
          DEF Spec, ImplementsStream, Stream!StreamSpec

-----------------------------------------------------------------------------
(* Where the worker and the callers are.                                     *)
Places ==
  /\ running \in BOOLEAN
  /\ wpc \in {"start", "top", "lock", "wait", "drop", "write", "done"}
  /\ host \in {"up", "join", "closed", "dead"}

LEMMA PlacesStep == Places /\ [Next]_vars => Places'
  <1> SUFFICES ASSUME Places, [Next]_vars PROVE Places'
    OBVIOUS
  <1>1. running' \in {running, FALSE}
    BY DEF Next, Worker, Log, Fatal, Exit, Joined, NewDay, WorkerStart, WorkerTop, WorkerWait,
           WorkerSwap, WorkerDrop, WorkerWrite, vars
  <1>2. wpc' \in {wpc, "top", "lock", "wait", "drop", "write", "done"}
    BY DEF Next, Worker, Log, Fatal, Exit, Joined, NewDay, WorkerStart, WorkerTop, WorkerWait,
           WorkerSwap, WorkerDrop, WorkerWrite, vars, worker
  <1>3. host' \in {host, "join", "closed", "dead"}
    BY DEF Next, Worker, Log, Fatal, Exit, Joined, NewDay, WorkerStart, WorkerTop, WorkerWait,
           WorkerSwap, WorkerDrop, WorkerWrite, vars, Alive
  <1> QED BY <1>1, <1>2, <1>3 DEF Places

(* TypeOK of the logger: the lists hold buffers of messages, the one in use  *)
(* is an opened file, and the counters count (struct logger, lua-log.c:50).  *)
THEOREM LogTypeCorrect == Spec => []TypeOK
  <1>1. Init => Places
    BY DEF Init, Places
  <1>2. IInv /\ DiskInv /\ StreamInv /\ Places => TypeOK
    <2> SUFFICES ASSUME IInv, DiskInv, StreamInv, Places PROVE TypeOK
      OBVIOUS
    <2>1. Files = Seq([data : Seq(Nat), open : BOOLEAN, std : BOOLEAN])
      BY DEF Files, Entry, Messages
    <2>2. handle \in 0..Len(files)
      BY DEF DiskInv, Files
    <2>3. /\ files \in Seq([data : Seq(Nat), open : BOOLEAN, std : BOOLEAN])
          /\ written \in Nat /\ mday \in Nat /\ day \in Nat
      BY <2>1 DEF DiskInv
    <2>4. lost \in Seq(Nat)
      BY DEF StreamInv, Messages
    <2> QED BY <2>2, <2>3, <2>4 DEF IInv, BufferType, Places, TypeOK
  <1>3. IInv /\ DiskInv /\ StreamInv /\ Places /\ [Next]_vars
          => IInv' /\ DiskInv' /\ StreamInv' /\ Places'
    BY BufferStep, DiskNext, StreamStep, PlacesStep
  <1> QED BY BufferInit, DiskInit, StreamStart, <1>1, <1>2, <1>3, PTL DEF Spec
=============================================================================
