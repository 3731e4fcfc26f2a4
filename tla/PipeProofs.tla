----------------------------- MODULE PipeProofs -----------------------------
(***************************************************************************)
(* Proofs about Pipe, for every size of the ring, every number of          *)
(* processes and every choice of which of them read, write, are preempted, *)
(* signalled, killed and meet page faults.                                 *)
(*                                                                         *)
(* Validate is not inductive: that a move of the ring keeps head, tail and *)
(* count in step rests on the range of the three and on what a chunk is    *)
(* bounded by, and that a pipe in use has an end left rests on the counts  *)
(* being those of the descriptors.  IInv joins the two and the types.      *)
(***************************************************************************)
EXTENDS Pipe, FiniteSetTheorems, TLAPS

\* The ring: its count is the way from tail to head.
RingInv ==
  /\ buf \in [0..Size-1 -> Bytes]
  /\ head \in 0..Size-1 /\ tail \in 0..Size-1 /\ count \in 0..Size
  /\ head = IF tail + count < Size THEN tail + count ELSE tail + count - Size

\* The ends: every count is the number of holders.
EndsInv ==
  /\ ends \in [Actors -> SUBSET Sides]
  /\ EndsCounted

\* What a read has and still wants is never longer than what it asked for.
CallInv ==
  /\ call \in [Actors -> [op : {"none", "read", "write"}, want : 0..MaxLen,
                          seq : Seq(Bytes), end : Ends]]
  /\ \A a \in Actors : Len(call[a].seq) + call[a].want <= MaxLen

\* Where each actor is, and whom it wakes.
PcTyped ==
  /\ pc \in [Actors -> Pcs]
  /\ after \in [Actors -> Pcs]
  /\ idx \in [Actors -> 1..N+1]

\* The wait slots.
SlotsTyped ==
  /\ blockedReader \in Pids \cup {NoPid}
  /\ blockedWriter \in Pids \cup {NoPid}

\* Everything else is typed.
RestTyped ==
  /\ state \in [Pids -> States]
  /\ onCpu \in [Pids -> BOOLEAN]
  /\ wakePending \in [Pids -> BOOLEAN]
  /\ wait \in [Pids -> {"none", "enrolled"}]
  /\ tries \in [Actors -> 0..MaxRetries]
  /\ sig \subseteq Pids /\ exiting \subseteq Pids /\ torn \subseteq Pids
  /\ victim \in Pids \cup {NoPid}

\* The inductive invariant.
IInv == RingInv /\ EndsInv /\ CallInv /\ PcTyped /\ SlotsTyped /\ RestTyped
-----------------------------------------------------------------------------
\* The killer is no process.
LEMMA ActorFacts ==
  /\ Killer \in Actors /\ Killer \notin Pids /\ Pids \subseteq Actors
  /\ NoPid \in Actors /\ Desktop \in Actors
  BY NAssumption DEF Killer, Actors, Pids, NoPid, Desktop

\* The sizes are numbers, the ring's and the transfer's not zero.
LEMMA SizeFacts ==
  /\ Size \in Nat /\ Size > 0
  /\ MaxLen \in Nat /\ MaxLen > 0
  /\ MaxRetries \in Nat
  BY SizesAssumption

\* A step around a ring, of at most its size.
LEMMA ModSum ==
  ASSUME NEW S \in Nat, S > 0, NEW t \in 0..S-1, NEW k \in 0..S
  PROVE  (t + k) % S = IF t + k < S THEN t + k ELSE t + k - S
  OBVIOUS

\* The least of two or three numbers is one of them and bounded by each.
LEMMA LeastOfTwo ==
  ASSUME NEW x \in Nat, NEW y \in Nat
  PROVE  /\ Least({x, y}) \in Nat
         /\ Least({x, y}) <= x /\ Least({x, y}) <= y
<1>1. \E z \in {x, y} : \A u \in {x, y} : z <= u
  OBVIOUS
<1> QED BY <1>1 DEF Least

\* So is the least of three.
LEMMA LeastOfThree ==
  ASSUME NEW x \in Nat, NEW y \in Nat, NEW z \in Nat
  PROVE  /\ Least({x, y, z}) \in Nat
         /\ Least({x, y, z}) <= x /\ Least({x, y, z}) <= y
         /\ Least({x, y, z}) <= z
<1>1. \E m \in {x, y, z} : \A u \in {x, y, z} : m <= u
  OBVIOUS
<1> QED BY <1>1 DEF Least

\* What a copy moves is within the chunk.
LEMMA CopyBounds ==
  ASSUME NEW p, NEW n \in Nat, NEW done \in CopyOutcomes(p, n)
  PROVE  done \in Nat /\ done <= n
  BY DEF CopyOutcomes

\* A chunk to read is within the bytes there are, a chunk to write within the
\* space there is and before the end of the ring.
LEMMA ChunkBounds ==
  ASSUME RingInv, NEW m \in Nat
  PROVE  /\ ReadChunk(m) \in Nat /\ ReadChunk(m) <= m
         /\ ReadChunk(m) <= count /\ ReadChunk(m) <= Size - tail
         /\ WriteChunk(m) \in Nat /\ WriteChunk(m) <= m
         /\ WriteChunk(m) <= Size - count /\ WriteChunk(m) <= Size - head
<1>1. count \in Nat /\ Size - tail \in Nat /\ Size - count \in Nat /\ Size - head \in Nat
  BY SizeFacts DEF RingInv
<1> QED BY <1>1, LeastOfThree DEF ReadChunk, WriteChunk
-----------------------------------------------------------------------------
\* The offset that goes k places on from t.
Moved(t, k) == IF t + k < Size THEN t + k ELSE t + k - Size

\* The remainder in the code is that offset, and an offset again.
LEMMA OffsetMoves ==
  ASSUME NEW t \in 0..Size-1, NEW k \in 0..Size
  PROVE  (t + k) % Size = Moved(t, k) /\ Moved(t, k) \in 0..Size-1
<1>1. (t + k) % Size = Moved(t, k)
  BY SizeFacts, ModSum DEF Moved
<1>2. Moved(t, k) \in 0..Size-1
  BY SizeFacts DEF Moved
<1> QED BY <1>1, <1>2

\* Taking at most what there is keeps the ring in step.
LEMMA PopKeepsRing ==
  ASSUME RingInv, NEW k \in Nat, k <= count, Pop(k)
  PROVE  RingInv'
<1>1. k \in 0..Size /\ tail \in 0..Size-1 /\ count \in 0..Size /\ head = Moved(tail, count)
  BY SizeFacts DEF RingInv, Moved
<1>2. tail' = Moved(tail, k) /\ tail' \in 0..Size-1
  BY <1>1, OffsetMoves DEF Pop
<1>3. count' = count - k /\ UNCHANGED <<buf, head>>
  BY DEF Pop
<1>4. count' \in 0..Size /\ head' = Moved(tail', count')
  BY <1>1, <1>2, <1>3, SizeFacts DEF Moved
<1> QED BY <1>2, <1>3, <1>4 DEF RingInv, Moved

\* So does adding at most what there is room for.
LEMMA AddKeepsRing ==
  ASSUME RingInv, NEW k \in Nat, k <= Size - count,
         buf' \in [0..Size-1 -> Bytes],
         head' = (head + k) % Size, count' = count + k, UNCHANGED tail
  PROVE  RingInv'
<1>1. /\ k \in 0..Size /\ tail \in 0..Size-1 /\ count \in 0..Size
      /\ head \in 0..Size-1 /\ head = Moved(tail, count)
  BY SizeFacts DEF RingInv, Moved
<1>2. head' = Moved(head, k) /\ head' \in 0..Size-1
  BY <1>1, OffsetMoves
<1>3. count' \in 0..Size /\ head' = Moved(tail', count')
  BY <1>1, <1>2, SizeFacts DEF Moved
<1> QED BY <1>1, <1>2, <1>3 DEF RingInv, Moved

\* At once ...
LEMMA PushKeepsRing ==
  ASSUME RingInv, NEW s \in Seq(Bytes), Len(s) <= Size - count, Push(s)
  PROVE  RingInv'
<1>1. Len(s) \in Nat /\ head \in 0..Size-1 /\ buf \in [0..Size-1 -> Bytes]
  BY DEF RingInv
<1>2. ASSUME NEW i \in 0..Size-1, i \in head..head + Len(s) - 1
      PROVE  s[i - head + 1] \in Bytes
  BY <1>2, <1>1, SizeFacts
<1>3. buf' \in [0..Size-1 -> Bytes]
  BY <1>1, <1>2 DEF Push
<1>4. head' = (head + Len(s)) % Size /\ count' = count + Len(s) /\ UNCHANGED tail
  BY DEF Push
<1> QED BY <1>1, <1>3, <1>4, AddKeepsRing

\* ... or around the end.
LEMMA WrappedKeepsRing ==
  ASSUME RingInv, NEW s \in Seq(Bytes), Len(s) <= Size - count, Wrapped(s)
  PROVE  RingInv'
<1>1. Len(s) \in Nat /\ head \in 0..Size-1 /\ buf \in [0..Size-1 -> Bytes]
  BY DEF RingInv
<1>2. ASSUME NEW i \in 0..Size-1, (i + Size - head) % Size < Len(s)
      PROVE  s[((i + Size - head) % Size) + 1] \in Bytes
  <2>1. (i + Size - head) % Size \in 0..Size-1
    BY <1>1, SizeFacts
  <2> QED BY <1>1, <1>2, <2>1
<1>3. buf' \in [0..Size-1 -> Bytes]
  BY <1>1, <1>2 DEF Wrapped
<1>4. head' = (head + Len(s)) % Size /\ count' = count + Len(s) /\ UNCHANGED tail
  BY DEF Wrapped
<1> QED BY <1>1, <1>3, <1>4, AddKeepsRing
-----------------------------------------------------------------------------
\* The steps that touch the ring.
LEMMA RingMoves ==
  [Next]_vars =>
    \/ UNCHANGED ring
    \/ \E p \in Pids : ReadCopy(p) \/ WriteCopy(p)
    \/ \E a \in Actors : TryRead(a) \/ TryPush(a) \/ Alloc(a)
<1> USE DEF ring, vars
<1>1. ASSUME NEW p \in Pids, CallStep(p)
      PROVE  UNCHANGED ring \/ ReadCopy(p) \/ WriteCopy(p)
  BY <1>1 DEF CallStep, ReadEmpty, WriteBroken, WriteFull, Resolve, PreSignal, Blocking,
     PostSignal, Unregister, Return
<1>2. ASSUME NEW a \in Actors, Waking(a) \/ TearDown(a)
      PROVE  UNCHANGED ring
  BY <1>2 DEF Waking, TearDown
<1>3. ASSUME NEW p \in Pids, TaskStep(p)
      PROVE  UNCHANGED ring \/ ReadCopy(p) \/ WriteCopy(p) \/ TryPush(p)
  BY <1>1, <1>2, <1>3, ActorFacts DEF TaskStep, Exit
<1>4. ASSUME NEW a \in Actors, Choice(a)
      PROVE  UNCHANGED ring \/ TryRead(a) \/ Alloc(a)
  BY <1>4 DEF Choice, TryWrite, Inherit, Close
<1>5. ASSUME KillerStep PROVE UNCHANGED ring \/ TryPush(Killer)
  BY <1>2, <1>5, ActorFacts DEF KillerStep
<1>6. ASSUME NEW p \in Pids,
             \/ StartRead(p) \/ StartWrite(p)
             \/ DispatchTask(p) \/ PreemptTask(p) \/ Send(p) \/ Deliver(p)
             \/ RequestKill(p) \/ KillOffCpu(p) \/ SelfDestroy(p)
      PROVE  UNCHANGED ring
  BY <1>6 DEF StartRead, StartWrite, DispatchTask, PreemptTask, Send, Deliver,
     RequestKill, KillOffCpu, SelfDestroy
<1> QED BY <1>3, <1>4, <1>5, <1>6, ActorFacts DEF Next

\* The first k elements, and the ones after them.
LEMMA Split ==
  ASSUME NEW S, NEW s \in Seq(S), NEW k \in Nat, k <= Len(s)
  PROVE  /\ SubSeq(s, 1, k) \in Seq(S) /\ Len(SubSeq(s, 1, k)) = k
         /\ SubSeq(s, k + 1, Len(s)) \in Seq(S)
         /\ Len(SubSeq(s, k + 1, Len(s))) = Len(s) - k
  OBVIOUS

\* The bytes a read takes are a sequence of as many bytes.
LEMMA OldestType ==
  ASSUME RingInv, NEW k \in Nat, k <= Size - tail
  PROVE  Oldest(k) \in Seq(Bytes) /\ Len(Oldest(k)) = k
<1>1. ASSUME NEW i \in 1..k PROVE buf[tail + i - 1] \in Bytes
  BY <1>1, SizeFacts DEF RingInv
<1> QED BY <1>1 DEF Oldest

\* Every step keeps the ring in step.
LEMMA RingStep ==
  ASSUME RingInv, CallInv, [Next]_vars
  PROVE  RingInv'
<1>1. CASE UNCHANGED ring
  BY <1>1 DEF ring, RingInv
<1>2. ASSUME NEW p \in Pids, ReadCopy(p) PROVE RingInv'
  <2>1. call[p].want \in Nat
    BY ActorFacts, SizeFacts DEF CallInv
  <2> DEFINE n == ReadChunk(call[p].want)
  <2>2. PICK done \in CopyOutcomes(p, n) : Pop(done)
    BY <1>2 DEF ReadCopy
  <2>3. n \in Nat /\ n <= count
    BY <2>1, ChunkBounds
  <2>4. done \in Nat /\ done <= n
    <3> HIDE DEF n
    <3> QED BY <2>2, <2>3, CopyBounds
  <2>5. done <= count
    <3> HIDE DEF n
    <3> QED BY <2>3, <2>4, SizeFacts DEF RingInv
  <2> QED BY <2>2, <2>4, <2>5, PopKeepsRing
<1>3. ASSUME NEW p \in Pids, WriteCopy(p) PROVE RingInv'
  <2>1. call[p].seq \in Seq(Bytes) /\ Len(call[p].seq) \in Nat
    BY ActorFacts DEF CallInv
  <2> DEFINE n == WriteChunk(Len(call[p].seq))
  <2>2. PICK done \in CopyOutcomes(p, n) : Push(SubSeq(call[p].seq, 1, done))
    BY <1>3 DEF WriteCopy
  <2>3. n \in Nat /\ n <= Len(call[p].seq) /\ n <= Size - count
    BY <2>1, ChunkBounds
  <2> HIDE DEF n
  <2>4. done \in Nat /\ done <= n
    BY <2>2, <2>3, CopyBounds
  <2>5. /\ SubSeq(call[p].seq, 1, done) \in Seq(Bytes)
        /\ Len(SubSeq(call[p].seq, 1, done)) = done
    BY <2>1, <2>3, <2>4, Split
  <2>6. done <= Size - count
    BY <2>3, <2>4, SizeFacts DEF RingInv
  <2> QED BY <2>2, <2>5, <2>6, PushKeepsRing
<1>4. ASSUME NEW a \in Actors, TryRead(a) PROVE RingInv'
  <2>1. PICK k \in 1..count : Pop(k)
    BY <1>4 DEF TryRead
  <2>2. k \in Nat /\ k <= count
    BY <2>1, SizeFacts DEF RingInv
  <2> QED BY <2>1, <2>2, PopKeepsRing
<1>5. ASSUME NEW a \in Actors, TryPush(a) PROVE RingInv'
  <2>1. PICK d \in Payloads : Wrapped(SubSeq(d, 1, Least({Len(d), Size - count})))
    BY <1>5 DEF TryPush
  <2> DEFINE n == Least({Len(d), Size - count})
  <2>2. d \in Seq(Bytes)
    BY SizesAssumption
  <2>3. n \in Nat /\ n <= Len(d) /\ n <= Size - count
    <3>1. Len(d) \in Nat /\ Size - count \in Nat
      BY <2>2, SizeFacts DEF RingInv
    <3> QED BY <3>1, LeastOfTwo
  <2>4. SubSeq(d, 1, n) \in Seq(Bytes) /\ Len(SubSeq(d, 1, n)) = n
    <3> HIDE DEF n
    <3> QED BY <2>2, <2>3, Split
  <2> QED BY <2>1, <2>3, <2>4, WrappedKeepsRing
<1>6. ASSUME NEW a \in Actors, Alloc(a) PROVE RingInv'
  BY <1>6, SizeFacts DEF Alloc, RingInv
<1> QED BY <1>1, <1>2, <1>3, <1>4, <1>5, <1>6, RingMoves
-----------------------------------------------------------------------------
\* The holders of an end are finitely many, and none only if there is none.
LEMMA HoldersFacts ==
  ASSUME NEW e
  PROVE  /\ IsFiniteSet(Holders(e))
         /\ Cardinality(Holders(e)) \in 0..N+1
         /\ (Cardinality(Holders(e)) = 0) <=> (Holders(e) = {})
<1>1. IsFiniteSet(Actors) /\ Cardinality(Actors) = N + 1
  BY NAssumption, FS_Interval DEF Actors
<1>2. Holders(e) \subseteq Actors
  BY DEF Holders
<1> QED BY <1>1, <1>2, NAssumption, FS_Subset, FS_EmptySet, FS_CardinalityType

\* One holder fewer.
LEMMA CloseEndKeepsEnds ==
  ASSUME EndsInv, NEW a, NEW p \in Actors, NEW e \in ends[p], NEW l,
         CloseEnd(a, p, e, l)
  PROVE  EndsInv'
<1>1. e \in Sides /\ ends[p] \subseteq Sides
  BY DEF EndsInv
<1>2. ends' \in [Actors -> SUBSET Sides]
  BY DEF CloseEnd, EndsInv
<1>3. ASSUME NEW f \in Sides, f # e PROVE Holders(f)' = Holders(f)
  BY <1>3 DEF Holders, CloseEnd, EndsInv
<1>4. Holders(e)' = Holders(e) \ {p} /\ p \in Holders(e)
  BY DEF Holders, CloseEnd, EndsInv
<1>5. Cardinality(Holders(e)') = Cardinality(Holders(e)) - 1
  BY <1>4, HoldersFacts, FS_RemoveElement
<1>6. /\ readers' = Cardinality(Holders("r")')
      /\ writers' = Cardinality(Holders("w")')
  BY <1>1, <1>3, <1>5 DEF Sides, CloseEnd, EndsInv, EndsCounted
<1>7. Cardinality(Holders("r")') \in Nat /\ Cardinality(Holders("w")') \in Nat
  <2>1. ASSUME NEW f PROVE IsFiniteSet(Holders(f)')
    <3>1. IsFiniteSet(Actors)
      BY NAssumption, FS_Interval DEF Actors
    <3>2. Holders(f)' \subseteq Actors
      BY DEF Holders
    <3> QED BY <3>1, <3>2, FS_Subset
  <2> QED BY <2>1, FS_CardinalityType
<1>8. Cardinality(Holders("r")) \in Nat /\ Cardinality(Holders("w")) \in Nat
  BY HoldersFacts
<1>9. inUse' = (readers' + writers' > 0)
  <2>1. inUse' = (inUse /\ ~(readers' = 0 /\ writers' = 0))
    BY DEF CloseEnd, Vacant
  <2>2. inUse
    <3>1. Cardinality(Holders(e)) > 0
      BY <1>4, HoldersFacts
    <3>2. readers + writers > 0
      BY <3>1, <1>1, <1>8 DEF Sides, EndsInv, EndsCounted
    <3> QED BY <3>2, Zenon DEF EndsInv, EndsCounted
  <2> QED BY <2>1, <2>2, <1>6, <1>7
<1> QED BY <1>2, <1>6, <1>9 DEF EndsInv, EndsCounted

\* One holder more.
LEMMA InheritKeepsEnds ==
  ASSUME EndsInv, NEW a \in Actors, NEW p \in Pids, NEW e \in Sides,
         Inherit(a, p, e)
  PROVE  EndsInv'
<1>1. p \in Actors /\ e \in ends[a] /\ e \notin ends[p]
  BY ActorFacts DEF Inherit
<1>2. ends' \in [Actors -> SUBSET Sides]
  BY DEF Inherit, EndsInv
<1>3. ASSUME NEW f \in Sides, f # e PROVE Holders(f)' = Holders(f)
  BY <1>3 DEF Holders, Inherit, EndsInv
<1>4. Holders(e)' = Holders(e) \cup {p} /\ p \notin Holders(e)
  BY <1>1 DEF Holders, Inherit, EndsInv
<1>5. Cardinality(Holders(e)') = Cardinality(Holders(e)) + 1
  BY <1>4, HoldersFacts, FS_AddElement
<1>6. /\ readers' = Cardinality(Holders("r")')
      /\ writers' = Cardinality(Holders("w")')
  BY <1>3, <1>5 DEF Sides, Inherit, EndsInv, EndsCounted
<1>7. /\ Cardinality(Holders("r")) \in Nat /\ Cardinality(Holders("w")) \in Nat
      /\ Cardinality(Holders(e)) > 0
  <2>1. a \in Holders(e)
    BY <1>1 DEF Holders
  <2> QED BY <2>1, HoldersFacts
<1>8. inUse /\ inUse'
  <2>1. readers + writers > 0
    BY <1>7 DEF Sides, EndsInv, EndsCounted
  <2>2. inUse
    BY <2>1, Zenon DEF EndsInv, EndsCounted
  <2>3. UNCHANGED inUse
    BY DEF Inherit
  <2> QED BY <2>2, <2>3
<1>9. readers' + writers' > 0
  BY <1>3, <1>5, <1>6, <1>7 DEF Sides
<1> QED BY <1>2, <1>6, <1>8, <1>9, Zenon DEF EndsInv, EndsCounted

\* A slot that is not in use has no holders; its opener becomes the only one.
LEMMA AllocKeepsEnds ==
  ASSUME EndsInv, NEW a \in Actors, Alloc(a)
  PROVE  EndsInv'
<1>1. ASSUME NEW e \in Sides PROVE Holders(e) = {}
  <2>1. ~(readers + writers > 0)
    BY Zenon DEF Alloc, EndsInv, EndsCounted
  <2>2. /\ Cardinality(Holders("r")) \in Nat /\ Cardinality(Holders("w")) \in Nat
        /\ readers = Cardinality(Holders("r")) /\ writers = Cardinality(Holders("w"))
    BY HoldersFacts DEF EndsInv, EndsCounted
  <2>3. Cardinality(Holders(e)) = 0
    BY <2>1, <2>2 DEF Sides
  <2> QED BY <2>3, HoldersFacts
<1>2. ends' \in [Actors -> SUBSET Sides]
  BY DEF Alloc, EndsInv
<1>3. ASSUME NEW e \in Sides PROVE Holders(e)' = {a}
  BY <1>1, <1>3 DEF Holders, Alloc, EndsInv
<1>4. Cardinality(Holders("r")') = 1 /\ Cardinality(Holders("w")') = 1
  BY <1>3, FS_Singleton DEF Sides
<1>5. readers' = 1 /\ writers' = 1 /\ inUse' = TRUE
  BY DEF Alloc
<1>6. readers' + writers' > 0
  BY <1>5
<1> QED BY <1>2, <1>4, <1>5, <1>6, Zenon DEF EndsInv, EndsCounted

\* The steps that touch the ends.
LEMMA EndsMoves ==
  ASSUME RestTyped, EndsInv, [Next]_vars
  PROVE  \/ UNCHANGED <<ends, readers, writers, inUse>>
         \/ \E a \in Actors : Alloc(a)
         \/ \E a \in Actors, p \in Pids, e \in Sides : Inherit(a, p, e)
         \/ \E a \in Actors, p \in Actors, l \in Pcs :
              \E e \in ends[p] : CloseEnd(a, p, e, l)
<1> DEFINE Kept == UNCHANGED <<ends, readers, writers, inUse>>
           Closed == \E a \in Actors, p \in Actors, l \in Pcs :
                       \E e \in ends[p] : CloseEnd(a, p, e, l)
<1> USE DEF vars, slots
<1>1. ASSUME NEW p \in Pids, CallStep(p) PROVE Kept
  BY <1>1 DEF CallStep, ReadCopy, ReadEmpty, WriteBroken, WriteCopy, WriteFull, Resolve,
     PreSignal, Blocking, PostSignal, Unregister, Return
<1>2. ASSUME NEW a \in Actors, Waking(a) \/ TryPush(a) PROVE Kept
  BY <1>2 DEF Waking, TryPush
<1>3. ASSUME NEW a \in Actors, TearDown(a) PROVE Kept \/ Closed
  <2>1. CASE ends[Dying(a)] = {}
    BY <1>3, <2>1 DEF TearDown
  <2>2. CASE ends[Dying(a)] # {}
    <3>1. Dying(a) \in Actors
      BY ActorFacts DEF Dying, RestTyped
    <3>2. \E e \in ends[Dying(a)] : CloseEnd(a, Dying(a), e, "teardown")
      BY <1>3, <2>2 DEF TearDown
    <3> QED BY <3>1, <3>2 DEF Pcs
  <2> QED BY <2>1, <2>2
<1>4. ASSUME NEW p \in Pids, TaskStep(p) PROVE Kept \/ Closed
  <2>1. CASE Exit(p)
    BY <2>1 DEF Exit
  <2> HIDE DEF Kept, Closed
  <2> QED BY <1>1, <1>2, <1>3, <1>4, <2>1, ActorFacts DEF TaskStep
<1>5. ASSUME NEW a \in Actors, NEW e \in Sides, Close(a, e) PROVE Closed
  BY <1>5 DEF Close, Pcs
<1>6. ASSUME NEW a \in Actors, TryRead(a) \/ TryWrite(a) PROVE Kept
  BY <1>6 DEF TryRead, TryWrite
<1>7. ASSUME NEW p \in Pids,
             \/ StartRead(p) \/ StartWrite(p)
             \/ DispatchTask(p) \/ PreemptTask(p) \/ Send(p) \/ Deliver(p)
             \/ RequestKill(p) \/ KillOffCpu(p) \/ SelfDestroy(p)
      PROVE  Kept
  BY <1>7 DEF StartRead, StartWrite, DispatchTask, PreemptTask, Send, Deliver,
     RequestKill, KillOffCpu, SelfDestroy
<1>8. ASSUME UNCHANGED vars PROVE Kept
  BY <1>8
<1> HIDE DEF Kept, Closed
<1>9. ASSUME KillerStep PROVE Kept \/ Closed
  BY <1>2, <1>3, <1>9, ActorFacts DEF KillerStep
<1>10. Kept \/ Closed \/ (\E a \in Actors : Alloc(a))
         \/ \E a \in Actors, p \in Pids, e \in Sides : Inherit(a, p, e)
  BY <1>4, <1>5, <1>6, <1>7, <1>8, <1>9, Zenon DEF Next, Choice
<1> QED BY <1>10 DEF Kept, Closed

\* Every step keeps the counts those of the descriptors.
LEMMA EndsStep ==
  ASSUME RestTyped, EndsInv, [Next]_vars
  PROVE  EndsInv'
<1>1. CASE UNCHANGED <<ends, readers, writers, inUse>>
  BY <1>1 DEF EndsInv, EndsCounted, Holders
<1> QED BY <1>1, EndsMoves, AllocKeepsEnds, InheritKeepsEnds, CloseEndKeepsEnds
-----------------------------------------------------------------------------
\* The steps that touch the calls.
LEMMA CallMoves ==
  ASSUME RestTyped, [Next]_vars
  PROVE  \/ UNCHANGED call
         \/ \E p \in Actors : call' = [call EXCEPT ![p] = NoCall]
         \/ \E p \in Actors, why \in Ends : End(p, why)
         \/ \E p \in Pids : StartRead(p) \/ StartWrite(p) \/ ReadCopy(p) \/ WriteCopy(p)
<1> DEFINE Kept == UNCHANGED call
           Over == \E p \in Actors : call' = [call EXCEPT ![p] = NoCall]
           Ended == \E p \in Actors, why \in Ends : End(p, why)
           Worked == \E p \in Pids :
                       StartRead(p) \/ StartWrite(p) \/ ReadCopy(p) \/ WriteCopy(p)
<1> USE DEF vars, callVars
<1>1. ASSUME NEW p \in Pids, CallStep(p) PROVE Kept \/ Over \/ Ended \/ Worked
  <2>1. CASE ReadEmpty(p)
    <3>1. UNCHANGED call \/ End(p, "eof") \/ End(p, "short")
      BY <2>1 DEF ReadEmpty
    <3> QED BY <3>1, ActorFacts DEF Ends
  <2>2. CASE WriteBroken(p)
    BY <2>2, ActorFacts DEF WriteBroken, Ends
  <2>3. CASE Resolve(p)
    BY <2>3, ActorFacts DEF Resolve, Ends
  <2>4. CASE Unregister(p)
    BY <2>4, ActorFacts DEF Unregister, Ends
  <2>5. CASE Return(p)
    BY <2>5, ActorFacts DEF Return
  <2>6. CASE WriteFull(p) \/ PreSignal(p) \/ Blocking(p) \/ PostSignal(p)
    BY <2>6 DEF WriteFull, PreSignal, Blocking, PostSignal
  <2>7. CASE ReadCopy(p) \/ WriteCopy(p)
    BY <2>7
  <2> HIDE DEF Kept, Over, Ended, Worked
  <2> QED BY <1>1, <2>1, <2>2, <2>3, <2>4, <2>5, <2>6, <2>7 DEF CallStep
<1>2. ASSUME NEW a \in Actors, Waking(a) \/ TryPush(a) PROVE Kept
  BY <1>2 DEF Waking, TryPush
<1>3. ASSUME NEW a \in Actors, TearDown(a) PROVE Kept \/ Over
  <2>1. Dying(a) \in Actors
    BY ActorFacts DEF Dying, RestTyped
  <2>2. UNCHANGED call \/ call' = [call EXCEPT ![Dying(a)] = NoCall]
    BY <1>3 DEF TearDown
  <2> QED BY <2>1, <2>2
<1>4. ASSUME NEW p \in Pids, Exit(p) PROVE Kept
  BY <1>4 DEF Exit
<1>5. ASSUME NEW a \in Actors, Choice(a) PROVE Kept
  BY <1>5 DEF Choice, TryRead, TryWrite, Alloc, Inherit, Close
<1>6. ASSUME NEW p \in Pids,
             \/ DispatchTask(p) \/ PreemptTask(p) \/ Send(p) \/ Deliver(p)
             \/ RequestKill(p) \/ KillOffCpu(p) \/ SelfDestroy(p)
      PROVE  Kept
  BY <1>6 DEF DispatchTask, PreemptTask, Send, Deliver, RequestKill, KillOffCpu,
     SelfDestroy
<1>7. ASSUME NEW p \in Pids, StartRead(p) \/ StartWrite(p) PROVE Worked
  BY <1>7
<1>8. ASSUME UNCHANGED vars PROVE Kept
  BY <1>8
<1> HIDE DEF Kept, Over, Ended, Worked
<1>9. ASSUME NEW p \in Pids, TaskStep(p) PROVE Kept \/ Over \/ Ended \/ Worked
  BY <1>1, <1>2, <1>3, <1>4, <1>9, ActorFacts DEF TaskStep
<1>10. ASSUME KillerStep PROVE Kept \/ Over
  BY <1>2, <1>3, <1>10, ActorFacts DEF KillerStep
<1>11. Kept \/ Over \/ Ended \/ Worked
  BY <1>5, <1>6, <1>7, <1>8, <1>9, <1>10, Zenon DEF Next
<1> QED BY <1>11 DEF Kept, Over, Ended, Worked

\* What a call record may be.
CallRecords == {c \in [op : {"none", "read", "write"}, want : 0..MaxLen,
                       seq : Seq(Bytes), end : Ends] : Len(c.seq) + c.want <= MaxLen}

\* One call replaced by another.
LEMMA CallReplaced ==
  ASSUME CallInv, NEW p \in Actors, NEW c \in CallRecords,
         call' = [call EXCEPT ![p] = c]
  PROVE  CallInv'
  BY DEF CallInv, CallRecords

\* No call is such a record.
LEMMA NoCallIsRecord == NoCall \in CallRecords
  BY SizeFacts DEF NoCall, CallRecords, Ends

\* A record with fields replaced is a record, if they fit it.
LEMMA FieldsReplaced ==
  ASSUME NEW c \in CallRecords, NEW m \in 0..MaxLen, NEW s \in Seq(Bytes), NEW e \in Ends
  PROVE  /\ Len(s) + m <= MaxLen =>
              [c EXCEPT !.want = m, !.seq = s, !.end = e] \in CallRecords
         /\ Len(s) + c.want <= MaxLen =>
              [c EXCEPT !.seq = s, !.end = e] \in CallRecords
<1> DEFINE R == [op : {"none", "read", "write"}, want : 0..MaxLen, seq : Seq(Bytes),
                 end : Ends]
           r1 == [c EXCEPT !.want = m, !.seq = s, !.end = e]
           r2 == [c EXCEPT !.seq = s, !.end = e]
<1>1. c \in R
  BY DEF CallRecords
<1>2. r1 \in R /\ r1.seq = s /\ r1.want = m
  BY <1>1
<1>3. r2 \in R /\ r2.seq = s /\ r2.want = c.want
  BY <1>1
<1> HIDE DEF r1, r2
<1>4. /\ Len(s) + m <= MaxLen => r1 \in CallRecords
      /\ Len(s) + c.want <= MaxLen => r2 \in CallRecords
  BY <1>2, <1>3 DEF CallRecords
<1> QED BY <1>4 DEF r1, r2

\* The calls a read and a write begin with.
LEMMA CallBegun ==
  /\ \A m \in 1..MaxLen : [NoCall EXCEPT !.op = "read", !.want = m] \in CallRecords
  /\ \A s \in Seq(Bytes) :
       Len(s) <= MaxLen => [NoCall EXCEPT !.op = "write", !.seq = s] \in CallRecords
<1> DEFINE R == [op : {"none", "read", "write"}, want : 0..MaxLen, seq : Seq(Bytes),
                 end : Ends]
           r(m) == [NoCall EXCEPT !.op = "read", !.want = m]
           w(s) == [NoCall EXCEPT !.op = "write", !.seq = s]
<1>1. NoCall \in R /\ NoCall.want = 0 /\ NoCall.seq = <<>>
  BY SizeFacts DEF NoCall, Ends
<1>2. ASSUME NEW m \in 1..MaxLen PROVE r(m) \in CallRecords
  <2>1. m \in 0..MaxLen /\ Len(<<>>) + m <= MaxLen
    BY SizeFacts
  <2>2. r(m) \in R /\ r(m).seq = NoCall.seq /\ r(m).want = m
    BY <1>1, <2>1
  <2> HIDE DEF r
  <2> QED BY <1>1, <2>1, <2>2 DEF CallRecords
<1>3. ASSUME NEW s \in Seq(Bytes), Len(s) <= MaxLen PROVE w(s) \in CallRecords
  <2>1. w(s) \in R /\ w(s).seq = s /\ w(s).want = 0
    BY <1>1
  <2> HIDE DEF w
  <2> QED BY <2>1, <1>3, SizeFacts DEF CallRecords
<1> QED BY <1>2, <1>3

\* A step that changes fields of a call replaces the call.
LEMMA CallAfter ==
  ASSUME CallInv, NEW p \in Actors, NEW m, NEW s, NEW e
  PROVE  /\ [call EXCEPT ![p].want = m, ![p].seq = s, ![p].end = e]
              = [call EXCEPT ![p] = [call[p] EXCEPT !.want = m, !.seq = s, !.end = e]]
         /\ [call EXCEPT ![p].seq = s, ![p].end = e]
              = [call EXCEPT ![p] = [call[p] EXCEPT !.seq = s, !.end = e]]
  BY DEF CallInv

\* Every call there is, is such a record.
LEMMA CallIsRecord ==
  ASSUME CallInv, NEW p \in Actors
  PROVE  call[p] \in CallRecords
  BY DEF CallInv, CallRecords

\* A read takes no more than it wants.
LEMMA ReadCopyKeepsCall ==
  ASSUME RingInv, CallInv, NEW p \in Pids, ReadCopy(p)
  PROVE  CallInv'
<1> DEFINE n == ReadChunk(call[p].want)
           c(d, w) == [call[p] EXCEPT !.want = call[p].want - d,
                                      !.seq = call[p].seq \o Oldest(d), !.end = w]
<1>1. /\ p \in Actors /\ call[p].want \in Nat /\ call[p].seq \in Seq(Bytes)
      /\ call[p].want <= MaxLen /\ call[p].op \in {"none", "read", "write"}
      /\ Len(call[p].seq) + call[p].want <= MaxLen
  BY ActorFacts, SizeFacts DEF CallInv
<1>2. n \in Nat /\ n <= call[p].want /\ n <= Size - tail
  BY <1>1, ChunkBounds
<1>3. PICK done \in CopyOutcomes(p, n), w \in {"ok", "no"} :
        call' = [call EXCEPT ![p].want = call[p].want - done,
                             ![p].seq = call[p].seq \o Oldest(done), ![p].end = w]
  BY <1>1 DEF ReadCopy, CallInv
<1>4. call' = [call EXCEPT ![p] = c(done, w)]
  BY <1>1, <1>3, CallAfter
<1> HIDE DEF n
<1>5. done \in Nat /\ done <= n
  BY <1>2, CopyBounds
<1>6. done <= Size - tail /\ done <= call[p].want
  BY <1>1, <1>2, <1>5, SizeFacts DEF RingInv
<1>7. Oldest(done) \in Seq(Bytes) /\ Len(Oldest(done)) = done
  BY <1>5, <1>6, OldestType
<1>8. /\ call[p].seq \o Oldest(done) \in Seq(Bytes)
      /\ Len(call[p].seq \o Oldest(done)) = Len(call[p].seq) + done
  <2> DEFINE s == call[p].seq
             o == Oldest(done)
  <2>1. s \in Seq(Bytes) /\ o \in Seq(Bytes) /\ Len(o) = done
    BY <1>1, <1>7
  <2> HIDE DEF s, o
  <2>2. s \o o \in Seq(Bytes) /\ Len(s \o o) = Len(s) + done
    BY <2>1
  <2> QED BY <2>2 DEF s, o
<1>9. call[p].want - done \in 0..MaxLen
  BY <1>1, <1>5, <1>6, SizeFacts
<1>10. /\ Len(call[p].seq \o Oldest(done)) + (call[p].want - done) <= MaxLen
       /\ w \in Ends
  BY <1>1, <1>5, <1>8, SizeFacts DEF Ends
<1>11. c(done, w) \in CallRecords
  BY <1>1, <1>8, <1>9, <1>10, CallIsRecord, FieldsReplaced
<1> QED BY <1>1, <1>4, <1>11, CallReplaced

\* A write has less left than before.
LEMMA WriteCopyKeepsCall ==
  ASSUME RingInv, CallInv, NEW p \in Pids, WriteCopy(p)
  PROVE  CallInv'
<1> DEFINE left == Len(call[p].seq)
           n == WriteChunk(left)
           c(d, w) == [call[p] EXCEPT !.seq = SubSeq(call[p].seq, d + 1, left),
                                      !.end = w]
<1>1. /\ p \in Actors /\ call[p].want \in 0..MaxLen /\ call[p].seq \in Seq(Bytes)
      /\ call[p].op \in {"none", "read", "write"}
      /\ left + call[p].want <= MaxLen /\ left \in Nat
  BY ActorFacts, SizeFacts DEF CallInv
<1>2. n \in Nat /\ n <= left
  BY <1>1, ChunkBounds
<1>3. PICK done \in CopyOutcomes(p, n), w \in {"ok", "no"} :
        call' = [call EXCEPT ![p].seq = SubSeq(call[p].seq, done + 1, left),
                             ![p].end = w]
  BY <1>1 DEF WriteCopy, CallInv
<1>4. call' = [call EXCEPT ![p] = c(done, w)]
  BY <1>1, <1>3, CallAfter
<1> HIDE DEF n
<1>5. done \in Nat /\ done <= left
  BY <1>1, <1>2, CopyBounds
<1>6. /\ SubSeq(call[p].seq, done + 1, left) \in Seq(Bytes)
      /\ Len(SubSeq(call[p].seq, done + 1, left)) = left - done
  BY <1>1, <1>5, Split
<1>7. /\ Len(SubSeq(call[p].seq, done + 1, left)) + call[p].want <= MaxLen
      /\ w \in Ends
  <2> HIDE DEF left
  <2> QED BY <1>1, <1>5, <1>6, SizeFacts DEF Ends
<1>8. c(done, w) \in CallRecords
  BY <1>1, <1>6, <1>7, CallIsRecord, FieldsReplaced
<1> QED BY <1>1, <1>4, <1>8, CallReplaced

\* Every step keeps the calls within what was asked for.
LEMMA CallsStep ==
  ASSUME RingInv, RestTyped, CallInv, [Next]_vars
  PROVE  CallInv'
<1>1. CASE UNCHANGED call
  BY <1>1 DEF CallInv
<1>2. CASE \E p \in Actors : call' = [call EXCEPT ![p] = NoCall]
  BY <1>2, CallReplaced, NoCallIsRecord
<1>3. ASSUME NEW p \in Actors, NEW why \in Ends, End(p, why) PROVE CallInv'
  BY <1>3 DEF End, CallInv
<1>4. ASSUME NEW p \in Pids, StartRead(p) PROVE CallInv'
  <2>1. PICK m \in 1..MaxLen :
          call' = [call EXCEPT ![p] = [NoCall EXCEPT !.op = "read", !.want = m]]
    BY <1>4 DEF StartRead
  <2> QED BY <2>1, ActorFacts, CallBegun, CallReplaced
<1>5. ASSUME NEW p \in Pids, StartWrite(p) PROVE CallInv'
  <2>1. PICK d \in Payloads :
          call' = [call EXCEPT ![p] = [NoCall EXCEPT !.op = "write", !.seq = d]]
    BY <1>5 DEF StartWrite
  <2>2. d \in Seq(Bytes) /\ Len(d) \in Nat /\ Len(d) <= MaxLen
    BY SizesAssumption
  <2>3. [NoCall EXCEPT !.op = "write", !.seq = d] \in CallRecords
    BY <2>2, CallBegun
  <2> QED BY <2>1, <2>3, ActorFacts, CallReplaced
<1> QED BY <1>1, <1>2, <1>3, <1>4, <1>5, CallMoves, ReadCopyKeepsCall, WriteCopyKeepsCall
-----------------------------------------------------------------------------
\* An actor goes on, and wakes nobody new.
LEMMA Move ==
  ASSUME PcTyped, NEW a \in Actors, NEW l \in Pcs, Go(a, l), UNCHANGED <<idx, after>>
  PROVE  PcTyped'
  BY DEF PcTyped, Go

\* A section that wakes w, or nobody.
LEMMA WakeThenTyped ==
  ASSUME PcTyped, NEW a \in Actors, NEW w \in Pids \cup {NoPid}, NEW l \in Pcs,
         WakeThen(a, w, l)
  PROVE  PcTyped'
<1>1. CASE w = NoPid
  BY <1>1, Move DEF WakeThen
<1>2. CASE w # NoPid
  <2>1. /\ Go(a, "pend") /\ idx' = [idx EXCEPT ![a] = w]
        /\ after' = [after EXCEPT ![a] = l]
    BY <1>2 DEF WakeThen
  <2>2. w \in 1..N+1 /\ "pend" \in Pcs
    BY <1>2, NAssumption DEF Pids, Pcs
  <2> QED BY <2>1, <2>2 DEF PcTyped, Go
<1> QED BY <1>1, <1>2

\* Every step leaves each actor somewhere in the code, with somebody to wake.
LEMMA PcStep ==
  ASSUME PcTyped, SlotsTyped, RestTyped, [Next]_vars
  PROVE  PcTyped'
<1> DEFINE Moves(a) == \E l \in Pcs : Go(a, l) /\ UNCHANGED <<idx, after>>
           Wakes(a) == \E w \in Pids \cup {NoPid}, l \in Pcs : WakeThen(a, w, l)
<1> USE DEF vars, waitVars
<1>1. ASSUME NEW a \in Actors, Moves(a) \/ Wakes(a) PROVE PcTyped'
  BY <1>1, Move, WakeThenTyped
<1>2. ASSUME NEW p \in Pids, CallStep(p) PROVE Moves(p) \/ Wakes(p)
  <2>1. CASE ReadCopy(p)
    BY <2>1 DEF ReadCopy, SlotsTyped, Pcs
  <2>2. CASE WriteCopy(p)
    BY <2>2 DEF WriteCopy, SlotsTyped, Pcs
  <2>3. CASE Blocking(p)
    BY <2>3 DEF Blocking, BlockStep, TestPending, SetWait, FallAsleep, Recheck,
       RollbackClear, RollbackRun, Resume, Yield, Pcs, BlockPcs
  <2>4. CASE ReadEmpty(p) \/ WriteBroken(p) \/ WriteFull(p) \/ Resolve(p)
    BY <2>4 DEF ReadEmpty, WriteBroken, WriteFull, Resolve, Pcs
  <2>5. CASE PreSignal(p) \/ PostSignal(p) \/ Unregister(p) \/ Return(p)
    BY <2>5 DEF PreSignal, PostSignal, Unregister, Return, Pcs, BlockPcs
  <2> HIDE DEF Moves, Wakes
  <2> QED BY <1>2, <2>1, <2>2, <2>3, <2>4, <2>5 DEF CallStep
<1>3. ASSUME NEW a \in Actors, TryPush(a) PROVE Wakes(a)
  BY <1>3 DEF TryPush, SlotsTyped, Pcs
<1>4. ASSUME NEW a \in Actors, Waking(a) PROVE PcTyped'
  <2>1. CASE WakePend(a) \/ WakeClear(a)
    <3>1. Moves(a)
      BY <1>4, <2>1 DEF Waking, WakeEnd, At, MakeReady, WakePend, WakeClear, Pcs
    <3> QED BY <1>1, <3>1
  <2>2. CASE WakeEnd(a)
    <3>1. /\ pc' = [pc EXCEPT ![a] = after[a]]
          /\ after' = [after EXCEPT ![a] = "idle"]
          /\ idx' = [idx EXCEPT ![a] = 1]
      BY <2>2 DEF WakeEnd, Go, EndScan
    <3>2. 1 \in 1..N+1 /\ "idle" \in Pcs
      BY NAssumption DEF Pcs
    <3> QED BY <3>1, <3>2 DEF PcTyped
  <2> QED BY <1>4, <2>1, <2>2 DEF Waking
<1>5. ASSUME NEW a \in Actors, NEW p, NEW e, NEW l \in Pcs, CloseEnd(a, p, e, l)
      PROVE  Wakes(a)
  BY <1>5 DEF CloseEnd, Peer, SlotsTyped
<1>6. ASSUME NEW a \in Actors, TearDown(a) PROVE Moves(a) \/ Wakes(a)
  <2>1. CASE ends[Dying(a)] # {}
    <3>1. "teardown" \in Pcs
      BY DEF Pcs
    <3> QED BY <1>5, <1>6, <2>1, <3>1 DEF TearDown
  <2>2. CASE ends[Dying(a)] = {}
    BY <1>6, <2>2 DEF TearDown, Pcs
  <2> QED BY <2>1, <2>2
<1>7. ASSUME NEW p \in Pids, Exit(p) PROVE Moves(p)
  BY <1>7 DEF Exit, Pcs
<1>8. ASSUME NEW a \in Actors, Choice(a)
      PROVE  Moves(a) \/ Wakes(a) \/ UNCHANGED <<pc, idx, after>>
  <2>1. CASE TryRead(a)
    BY <2>1 DEF TryRead, SlotsTyped, Pcs
  <2>2. CASE TryWrite(a)
    BY <2>2 DEF TryWrite, Pcs
  <2>3. ASSUME NEW e \in Sides, Close(a, e) PROVE Wakes(a)
    <3>1. "idle" \in Pcs
      BY DEF Pcs
    <3> QED BY <1>5, <2>3, <3>1 DEF Close
  <2>4. ASSUME Alloc(a) \/ \E e \in Sides, p \in Pids : Inherit(a, p, e)
        PROVE  UNCHANGED <<pc, idx, after>>
    BY <2>4 DEF Alloc, Inherit
  <2> HIDE DEF Moves, Wakes
  <2> QED BY <1>8, <2>1, <2>2, <2>3, <2>4 DEF Choice
<1>9. ASSUME NEW p \in Pids, StartRead(p) \/ StartWrite(p) \/ SelfDestroy(p)
      PROVE  Moves(p)
  BY <1>9 DEF StartRead, StartWrite, SelfDestroy, Pcs
<1>10. ASSUME NEW p \in Pids, Send(p) PROVE Wakes(Killer)
  BY <1>10 DEF Send, Pcs
<1>11. ASSUME NEW p \in Pids, KillOffCpu(p) PROVE Moves(Killer)
  BY <1>11 DEF KillOffCpu, Pcs
<1>12. ASSUME NEW p \in Pids,
              DispatchTask(p) \/ PreemptTask(p) \/ Deliver(p) \/ RequestKill(p)
       PROVE  UNCHANGED <<pc, idx, after>>
  BY <1>12 DEF DispatchTask, Dispatch, PreemptTask, Preempt, Deliver, RequestKill
<1>13. ASSUME UNCHANGED vars PROVE UNCHANGED <<pc, idx, after>>
  BY <1>13
<1>14. CASE UNCHANGED <<pc, idx, after>>
  BY <1>14 DEF PcTyped
<1> HIDE DEF Moves, Wakes
<1>15. ASSUME NEW p \in Pids, TaskStep(p) PROVE PcTyped'
  BY <1>1, <1>2, <1>3, <1>4, <1>6, <1>7, <1>15, ActorFacts DEF TaskStep
<1>16. ASSUME KillerStep PROVE PcTyped'
  BY <1>1, <1>3, <1>4, <1>6, <1>16, ActorFacts DEF KillerStep
<1> QED
  BY <1>1, <1>8, <1>9, <1>10, <1>11, <1>12, <1>13, <1>14, <1>15, <1>16, ActorFacts
  DEF Next
-----------------------------------------------------------------------------
\* Every step leaves a process, or nobody, in each wait slot.
LEMMA SlotsStep ==
  ASSUME SlotsTyped, [Next]_vars
  PROVE  SlotsTyped'
<1> USE DEF SlotsTyped, vars, slots
<1>1. ASSUME NEW p \in Pids, CallStep(p) PROVE SlotsTyped'
  BY <1>1 DEF CallStep, ReadCopy, ReadEmpty, WriteBroken, WriteCopy, WriteFull, Resolve,
     PreSignal, Blocking, PostSignal, Unregister, ClearOwn, Return
<1>2. ASSUME NEW a \in Actors, NEW p, NEW e, NEW l, CloseEnd(a, p, e, l)
      PROVE  SlotsTyped'
  BY <1>2 DEF CloseEnd
<1>3. ASSUME NEW a \in Actors, Waking(a) \/ TryPush(a) \/ TearDown(a) PROVE SlotsTyped'
  BY <1>2, <1>3 DEF Waking, TryPush, TearDown
<1>4. ASSUME NEW a \in Actors, Choice(a) PROVE SlotsTyped'
  <2>1. CASE TryRead(a) \/ TryWrite(a) \/ Alloc(a)
    BY <2>1 DEF TryRead, TryWrite, Alloc
  <2>2. CASE \E e \in Sides : Close(a, e)
    BY <1>2, <2>2 DEF Close
  <2>3. CASE \E e \in Sides, p \in Pids : Inherit(a, p, e)
    BY <2>3 DEF Inherit
  <2> QED BY <1>4, <2>1, <2>2, <2>3 DEF Choice
<1>5. ASSUME NEW p \in Pids,
             \/ StartRead(p) \/ StartWrite(p) \/ Exit(p)
             \/ DispatchTask(p) \/ PreemptTask(p) \/ Send(p) \/ Deliver(p)
             \/ RequestKill(p) \/ KillOffCpu(p) \/ SelfDestroy(p)
      PROVE  SlotsTyped'
  BY <1>5 DEF StartRead, StartWrite, Exit, DispatchTask, PreemptTask, Send, Deliver,
     RequestKill, KillOffCpu, SelfDestroy
<1>6. CASE UNCHANGED vars
  BY <1>6
<1> HIDE DEF SlotsTyped, vars, slots
<1> QED BY <1>1, <1>3, <1>4, <1>5, <1>6, ActorFacts DEF Next, TaskStep, KillerStep

\* Every step keeps the rest typed.
LEMMA RestStep ==
  ASSUME RestTyped, [Next]_vars
  PROVE  RestTyped'
<1> USE DEF RestTyped, vars, callVars, killVars, taskVars, waitVars
<1>1. ASSUME NEW p \in Pids, CallStep(p) PROVE RestTyped'
  <2>1. CASE \/ ReadCopy(p) \/ ReadEmpty(p) \/ WriteBroken(p) \/ WriteCopy(p)
             \/ WriteFull(p) \/ PreSignal(p) \/ PostSignal(p) \/ Unregister(p)
    BY <2>1 DEF ReadCopy, ReadEmpty, WriteBroken, WriteCopy, WriteFull, PreSignal,
       PostSignal, Unregister
  <2>2. CASE Resolve(p)
    <3>1. /\ UNCHANGED <<taskVars, sig, killVars>>
          /\ \/ UNCHANGED tries
             \/ tries[p] < MaxRetries /\ tries' = [tries EXCEPT ![p] = tries[p] + 1]
      BY <2>2 DEF Resolve
    <3>2. tries' \in [Actors -> 0..MaxRetries]
      BY <3>1, ActorFacts, SizeFacts
    <3> QED BY <3>1, <3>2
  <2>3. CASE Return(p)
    <3>1. 0 \in 0..MaxRetries
      BY SizeFacts
    <3> QED BY <2>3, <3>1 DEF Return
  <2>4. CASE Blocking(p)
    BY <2>4 DEF Blocking, BlockStep, TestPending, SetWait, FallAsleep, Recheck,
       RollbackClear, RollbackRun, Resume, Yield, States
  <2> QED BY <1>1, <2>1, <2>2, <2>3, <2>4 DEF CallStep
<1>2. ASSUME NEW a \in Actors, Waking(a) PROVE RestTyped'
  BY <1>2 DEF Waking, WakePend, WakeClear, WakeEnd, MakeReady, States
<1>3. ASSUME NEW a \in Actors, TryPush(a) PROVE RestTyped'
  BY <1>3 DEF TryPush
<1>4. ASSUME NEW a \in Actors, TearDown(a) PROVE RestTyped'
  <2>1. 0 \in 0..MaxRetries
    BY SizeFacts
  <2>2. /\ UNCHANGED <<taskVars, exiting, torn>>
        /\ UNCHANGED tries \/ tries' = [tries EXCEPT ![Dying(a)] = 0]
        /\ sig' \subseteq sig
        /\ victim' = NoPid \/ UNCHANGED victim
    BY <1>4 DEF TearDown
  <2> QED BY <2>1, <2>2
<1>5. ASSUME NEW p \in Pids, Exit(p) PROVE RestTyped'
  BY <1>5 DEF Exit, States
<1>6. ASSUME NEW a \in Actors, Choice(a) PROVE RestTyped'
  BY <1>6 DEF Choice, TryRead, TryWrite, Alloc, Inherit, Close
<1>7. ASSUME NEW p \in Pids, StartRead(p) \/ StartWrite(p) PROVE RestTyped'
  <2>1. 0 \in 0..MaxRetries
    BY SizeFacts
  <2> QED BY <1>7, <2>1 DEF StartRead, StartWrite
<1>8. ASSUME NEW p \in Pids, DispatchTask(p) \/ PreemptTask(p) PROVE RestTyped'
  BY <1>8 DEF DispatchTask, Dispatch, PreemptTask, Preempt, States
<1>9. ASSUME NEW p \in Pids, Send(p) \/ Deliver(p) \/ RequestKill(p) \/ SelfDestroy(p)
      PROVE  RestTyped'
  BY <1>9 DEF Send, Deliver, RequestKill, SelfDestroy
<1>10. ASSUME NEW p \in Pids, KillOffCpu(p) PROVE RestTyped'
  BY <1>10 DEF KillOffCpu, States
<1>11. CASE UNCHANGED vars
  BY <1>11
<1> HIDE DEF RestTyped, vars, callVars, killVars, taskVars, waitVars
<1> QED
  BY <1>1, <1>2, <1>3, <1>4, <1>5, <1>6, <1>7, <1>8, <1>9, <1>10, <1>11, ActorFacts
  DEF Next, TaskStep, KillerStep
-----------------------------------------------------------------------------
\* The initial state satisfies the invariant ...
LEMMA InitIInv == Init => IInv
<1> SUFFICES ASSUME Init PROVE IInv
  OBVIOUS
<1>1. RingInv
  BY SizeFacts DEF Init, RingInv
<1>2. EndsInv
  <2>1. ASSUME NEW e PROVE Holders(e) = {}
    BY DEF Init, Holders
  <2>2. Cardinality(Holders("r")) = 0 /\ Cardinality(Holders("w")) = 0
    BY <2>1, FS_EmptySet
  <2>3. (readers + writers > 0) = FALSE /\ inUse = FALSE
    BY DEF Init
  <2>4. ends \in [Actors -> SUBSET Sides] /\ readers = 0 /\ writers = 0
    BY DEF Init
  <2> QED BY <2>2, <2>3, <2>4, Zenon DEF EndsInv, EndsCounted
<1>3. CallInv
  BY SizeFacts DEF Init, CallInv, NoCall, Ends
<1>4. PcTyped
  BY NAssumption DEF Init, WaitInit, PcTyped, Pcs
<1>5. SlotsTyped /\ RestTyped
  BY SizeFacts DEF Init, WaitInit, SlotsTyped, RestTyped, States
<1> QED BY <1>1, <1>2, <1>3, <1>4, <1>5 DEF IInv

\* ... every step preserves it ...
LEMMA NextIInv == IInv /\ [Next]_vars => IInv'
  BY RingStep, EndsStep, CallsStep, PcStep, SlotsStep, RestStep DEF IInv

\* ... and so it holds throughout.
THEOREM IInvHolds == Spec => []IInv
<1> QED BY InitIInv, NextIInv, PTL DEF Spec

\* The invariant gives the types the runs check ...
LEMMA IInvTypes == IInv => TypeOK
<1> SUFFICES ASSUME IInv PROVE TypeOK
  OBVIOUS
<1>1. WaitTypeOK
  BY DEF IInv, PcTyped, RestTyped, WaitTypeOK
<1>2. readers \in 0..N+1 /\ writers \in 0..N+1 /\ inUse \in BOOLEAN
  BY HoldersFacts DEF IInv, EndsInv, EndsCounted
<1>3. call \in [Actors -> Calls]
  <2>1. ASSUME NEW a \in Actors PROVE call[a] \in Calls
    <3>1. /\ call[a] \in [op : {"none", "read", "write"}, want : 0..MaxLen,
                          seq : Seq(Bytes), end : Ends]
          /\ call[a].want \in Nat /\ Len(call[a].seq) \in Nat
          /\ Len(call[a].seq) <= MaxLen
      BY SizeFacts DEF IInv, CallInv
    <3>2. call[a].seq \in {<<>>} \cup Data
      <4>1. CASE Len(call[a].seq) = 0
        BY <3>1, <4>1
      <4>2. CASE Len(call[a].seq) # 0
        <5>1. call[a].seq \in [1..Len(call[a].seq) -> Bytes]
          BY <3>1
        <5>2. Len(call[a].seq) \in 1..MaxLen
          BY <3>1, <4>2, SizeFacts
        <5> QED BY <5>1, <5>2 DEF Data
      <4> QED BY <4>1, <4>2
    <3> QED BY <3>1, <3>2 DEF Calls
  <2>2. call = [a \in Actors |-> call[a]]
    BY DEF IInv, CallInv
  <2> QED BY <2>1, <2>2
<1> QED
  BY <1>1, <1>2, <1>3
  DEF IInv, RingInv, EndsInv, PcTyped, SlotsTyped, RestTyped, TypeOK

\* ... and what the timer validates.
LEMMA IInvValidates == IInv => Validate
<1> SUFFICES ASSUME IInv, inUse PROVE Validate
  BY DEF Validate
<1>1. (tail + count) % Size = head
  BY OffsetMoves DEF IInv, RingInv, Moved
<1>2. readers + writers > 0
  BY Zenon DEF IInv, EndsInv, EndsCounted
<1> QED BY <1>1, <1>2 DEF Validate

\* Every variable of a pipe has its type: the ring's offsets and count stay
\* within PIPE_BUF_SIZE, a call never asks for more than it was given, and the
\* counts of ends never leave the range of the holders there can be.
THEOREM TypeCorrect == Spec => []TypeOK
<1> QED BY IInvHolds, IInvTypes, PTL

\* pipe.validate never fails: head, tail and count agree for every size of the
\* ring, whatever chunks the copies are cut into by the end of the ring and by
\* page faults, and a pipe in use has an end open.
THEOREM AlwaysValid == Spec => []Validate
<1> QED BY IInvHolds, IInvValidates, PTL

\* The counts of ends are the descriptors, and the slot is in use as long as
\* there is one, however calls, closes and teardowns interleave.
THEOREM CountsAreHolders == Spec => []EndsCounted
<1>1. IInv => EndsCounted
  BY DEF IInv, EndsInv
<1> QED BY <1>1, IInvHolds, PTL
=============================================================================
