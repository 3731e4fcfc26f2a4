-------------------------- MODULE PipeStreamProofs --------------------------
(***************************************************************************)
(* The proof that Pipe implements ByteStream, for every size of the ring   *)
(* and every number of processes.                                          *)
(*                                                                         *)
(* The steps of the ring map to steps of the queue only where the callers  *)
(* are: a copy is a step of a call that has not ended and whose process    *)
(* still holds its end.  PlacesInv says so, and with it that a process     *)
(* being torn down, whose ends are closed under it, never reaches the code *)
(* of its call again.                                                      *)
(*                                                                         *)
(* The last part rests on the same places: no reader and no writer that    *)
(* has its side to itself sleeps through what it waits for.  WakeInv       *)
(* follows a wake() through its three stores and its sleeper through the   *)
(* handshake: which of the stores still to come will have an effect        *)
(* depends on how far the sleeper has got.                                 *)
(***************************************************************************)
EXTENDS PipeProofs, SequenceTheorems

\* The places of the three stores of wake().
WakerPcs == {"pend", "clear", "makeReady"}

\* Where an actor is, seen from the call it makes: past its wake().
Place(a) == IF pc[a] \in WakerPcs THEN after[a] ELSE pc[a]

\* The places of a call that has not ended.
CallPcs == BlockPcs \cup {"resume", "acquire", "loop", "presig", "unreg", "fault"}

\* A call that has not ended has something left to move, and its end.
InCall(p) ==
  /\ call[p].end = "no"
  /\ \/ call[p].op = "read" /\ call[p].want > 0 /\ "r" \in ends[p]
     \/ call[p].op = "write" /\ call[p].seq # <<>> /\ "w" \in ends[p]

\* A torn process runs its teardown, or never again.
Placed(p) ==
  IF p \in torn
    THEN IF onCpu[p] THEN Place(p) \in {"teardown", "exit"} ELSE state[p] = "zombie"
    ELSE /\ Place(p) \in CallPcs \cup {"idle", "done"}
         /\ Place(p) = "idle" => call[p] = NoCall
         /\ Place(p) \in CallPcs => InCall(p)

\* wake() goes on at a place that is not its own.
Settled == \A a \in Actors : after[a] \notin WakerPcs

\* The killer, as desktop, holds the end it writes to; as killer, a torn victim.
KillerPlaced ==
  /\ Place(Killer) = "try" => "w" \in ends[Killer]
  /\ Place(Killer) = "teardown" => victim \in torn

\* The invariant this module adds.
PlacesInv ==
  /\ torn \subseteq exiting
  /\ Settled
  /\ \A p \in Pids : Placed(p)
  /\ KillerPlaced
-----------------------------------------------------------------------------
\* A step of p alone: nobody else moves, changes its call or loses an end,
\* except the torn, and the dead stay dead.
Apart(p) ==
  /\ Settled'
  /\ torn \subseteq torn' /\ torn' \subseteq torn \cup {p} /\ torn' \subseteq exiting'
  /\ \A q \in Actors \ {p} :
       /\ Place(q)' = Place(q)
       /\ (call'[q] = call[q] /\ ends[q] \subseteq ends'[q]) \/ q \in torn
  /\ \A q \in Pids \ {p} :
       q \in torn => /\ onCpu'[q] = onCpu[q]
                     /\ state[q] = "zombie" => state'[q] = "zombie"
  /\ p # Killer => victim' = victim

\* Whoever does not take part stays placed.
LEMMA Bystander ==
  ASSUME PlacesInv, NEW p \in Actors, Apart(p), NEW q \in Pids \ {p}
  PROVE  Placed(q)'
<1>1. /\ q \in Actors /\ (q \in torn') = (q \in torn) /\ Place(q)' = Place(q) /\ Placed(q)
  BY ActorFacts DEF Apart, PlacesInv
<1>2. CASE q \in torn
  BY <1>1, <1>2 DEF Apart, Placed
<1>3. CASE q \notin torn
  <2>1. call'[q] = call[q] /\ ends[q] \subseteq ends'[q]
    BY <1>1, <1>3 DEF Apart
  <2>2. InCall(q) => InCall(q)'
    BY <2>1 DEF InCall
  <2> HIDE DEF InCall
  <2> QED BY <1>1, <1>3, <2>1, <2>2 DEF Placed
<1> QED BY <1>2, <1>3

\* A step of a process ...
LEMMA PidStep ==
  ASSUME RestTyped, PlacesInv, NEW p \in Pids, Apart(p), Placed(p)'
  PROVE  PlacesInv'
<1>1. \A q \in Pids : Placed(q)'
  BY Bystander, ActorFacts
<1>2. KillerPlaced'
  <2>1. Place(Killer)' = Place(Killer) /\ victim' = victim /\ torn \subseteq torn'
    BY ActorFacts DEF Apart
  <2>2. ends[Killer] \subseteq ends'[Killer]
    <3>1. Killer \notin torn
      BY ActorFacts DEF RestTyped
    <3> QED BY <3>1, ActorFacts DEF Apart
  <2> QED BY <2>1, <2>2 DEF KillerPlaced, PlacesInv
<1> QED BY <1>1, <1>2 DEF PlacesInv, Apart

\* ... and of the killer.
LEMMA KillersStep ==
  ASSUME PlacesInv, Apart(Killer), KillerPlaced'
  PROVE  PlacesInv'
<1>1. \A q \in Pids : Placed(q)'
  BY Bystander, ActorFacts
<1> QED BY <1>1 DEF PlacesInv, Apart

\* Where an actor is after it moved, and after a section that wakes somebody.
Lands(a, l) ==
  /\ Settled'
  /\ Place(a)' = l
  /\ \A b \in Actors \ {a} : Place(b)' = Place(b)

\* A step to l lands there ...
LEMMA GoLands ==
  ASSUME PcTyped, Settled, NEW a \in Actors, NEW l, l \notin WakerPcs,
         Go(a, l), UNCHANGED after
  PROVE  Lands(a, l)
  BY DEF PcTyped, Settled, Go, Place, Lands

\* ... and so does a section that wakes somebody and goes on at l.
LEMMA WakeThenLands ==
  ASSUME PcTyped, Settled, NEW a \in Actors, NEW w, NEW l, l \notin WakerPcs,
         WakeThen(a, w, l)
  PROVE  Lands(a, l)
<1>1. CASE w = NoPid
  BY <1>1, GoLands DEF WakeThen
<1>2. CASE w # NoPid
  BY <1>2 DEF WakeThen, PcTyped, Settled, Go, Place, Lands, WakerPcs
<1> QED BY <1>1, <1>2

\* The stores of wake() leave everybody where they are.
LEMMA WakingStays ==
  ASSUME PcTyped, Settled, NEW a \in Actors, Waking(a)
  PROVE  Lands(a, Place(a))
<1>1. CASE WakePend(a) \/ WakeClear(a)
  <2>1. /\ \E l \in WakerPcs : Go(a, l)
        /\ pc[a] \in WakerPcs /\ UNCHANGED after
    BY <1>1 DEF Waking, WakeEnd, At, MakeReady, WakePend, WakeClear, WakerPcs
  <2> QED BY <2>1 DEF PcTyped, Settled, Go, Place, Lands
<1>2. CASE WakeEnd(a)
  <2>1. /\ Go(a, after[a]) /\ after' = [after EXCEPT ![a] = "idle"]
        /\ pc[a] \in WakerPcs
    BY <1>2 DEF WakeEnd, MakeReady, At, WakerPcs
  <2>2. after[a] \notin WakerPcs /\ "idle" \notin WakerPcs
    BY DEF Settled, WakerPcs
  <2> QED BY <2>1, <2>2 DEF PcTyped, Settled, Go, Place, Lands
<1> QED BY <1>1, <1>2 DEF Waking
-----------------------------------------------------------------------------
\* A process that runs at a place of its call or in user mode is not torn.
LEMMA NotTorn ==
  ASSUME PlacesInv, NEW p \in Pids, onCpu[p],
         Place(p) \notin {"teardown", "exit"}
  PROVE  /\ p \notin torn
         /\ Place(p) \in CallPcs \cup {"idle", "done"}
         /\ Place(p) = "idle" => call[p] = NoCall
         /\ Place(p) \in CallPcs => InCall(p)
  BY DEF PlacesInv, Placed

\* Outside wake(), an actor is where its program counter says.
LEMMA AtPlace ==
  ASSUME NEW p, NEW l, l \notin WakerPcs, At(p, l)
  PROVE  Place(p) = l
  BY DEF At, Place

\* A process runs on a CPU only.
LEMMA PidRuns ==
  ASSUME NEW p \in Pids, Runs(p)
  PROVE  onCpu[p]
  BY ActorFacts DEF Runs

\* A step of p that moves p, and perhaps changes its call.
LEMMA MoveAlone ==
  ASSUME PlacesInv, NEW p \in Pids, NEW l, Lands(p, l),
         UNCHANGED <<ends, torn, exiting, victim>>,
         \A q \in Actors \ {p} : call'[q] = call[q],
         \A q \in Pids \ {p} : q \in torn =>
           /\ onCpu'[q] = onCpu[q]
           /\ state[q] = "zombie" => state'[q] = "zombie"
  PROVE  Apart(p)
  BY DEF Apart, PlacesInv, Lands

\* A process goes on in its call, or is done with it.
LEMMA GoesOn ==
  ASSUME IInv, PlacesInv, NEW p \in Pids, p \notin torn,
         NEW l \in CallPcs \cup {"idle", "done"}, Lands(p, l),
         UNCHANGED <<ends, torn, exiting, victim>>,
         \A q \in Actors \ {p} : call'[q] = call[q],
         \A q \in Pids \ {p} : q \in torn =>
           /\ onCpu'[q] = onCpu[q]
           /\ state[q] = "zombie" => state'[q] = "zombie",
         l = "idle" => call'[p] = NoCall,
         l \in CallPcs => InCall(p)'
  PROVE  PlacesInv'
<1>1. Apart(p)
  BY MoveAlone
<1>2. Placed(p)'
  BY DEF Lands, Placed
<1> QED BY <1>1, <1>2, PidStep DEF IInv

\* The same, when the call is what it was.
LEMMA GoesOnAsBefore ==
  ASSUME IInv, PlacesInv, NEW p \in Pids, p \notin torn,
         NEW l \in CallPcs \cup {"idle", "done"}, Lands(p, l),
         UNCHANGED <<ends, torn, exiting, victim, call>>,
         \A q \in Pids \ {p} : q \in torn =>
           /\ onCpu'[q] = onCpu[q]
           /\ state[q] = "zombie" => state'[q] = "zombie",
         l = "idle" => call[p] = NoCall,
         l \in CallPcs => InCall(p)
  PROVE  PlacesInv'
<1>1. InCall(p) => InCall(p)'
  BY DEF InCall
<1> QED BY <1>1, GoesOn

\* Where a process at work on its call is.
LEMMA Working ==
  ASSUME PlacesInv, NEW p \in Pids, NEW l \in CallPcs, At(p, l)
  PROVE  p \notin torn /\ Place(p) = l /\ InCall(p)
<1>1. l \notin WakerPcs /\ l \notin {"teardown", "exit"}
  BY DEF CallPcs, BlockPcs, WakerPcs
<1>2. onCpu[p] /\ Place(p) = l
  BY <1>1, AtPlace, PidRuns DEF At
<1> QED BY <1>1, <1>2, NotTorn

\* The blocking handshake moves a process about inside its call.
LEMMA BlockingPlaces ==
  ASSUME IInv, PlacesInv, NEW p \in Pids, Blocking(p)
  PROVE  PlacesInv'
<1>1. PICK k \in CallPcs, l \in CallPcs : At(p, k) /\ Go(p, l)
  BY DEF Blocking, BlockStep, TestPending, SetWait, FallAsleep, Recheck, RollbackClear,
     RollbackRun, Resume, Yield, CallPcs, BlockPcs
<1>2. /\ UNCHANGED <<ends, torn, exiting, victim, call, after>>
      /\ \A q \in Pids \ {p} : onCpu'[q] = onCpu[q] /\ state'[q] = state[q]
  BY DEF Blocking, BlockStep, TestPending, SetWait, FallAsleep, Recheck, RollbackClear,
     RollbackRun, Resume, Yield, taskVars, slots, callVars, killVars, IInv, RestTyped
<1>3. p \notin torn /\ InCall(p)
  BY <1>1, Working
<1>4. l \notin WakerPcs /\ l # "idle"
  BY DEF CallPcs, BlockPcs, WakerPcs
<1>5. Lands(p, l)
  BY <1>1, <1>2, <1>4, GoLands, ActorFacts DEF IInv, PlacesInv
<1> QED BY <1>2, <1>3, <1>4, <1>5, GoesOnAsBefore

\* A copy for a read leaves something to want, or ends the read.
LEMMA ReadCopyPlaces ==
  ASSUME IInv, PlacesInv, NEW p \in Pids, ReadCopy(p)
  PROVE  PlacesInv'
<1>1. At(p, "loop") /\ call[p].op = "read" /\ p \in Actors
  BY ActorFacts DEF ReadCopy, Looping
<1>2. p \notin torn /\ InCall(p)
  BY <1>1, Working DEF CallPcs
<1> DEFINE n == ReadChunk(call[p].want)
<1>3. PICK done \in CopyOutcomes(p, n) :
        /\ call' = [call EXCEPT ![p].want = call[p].want - done,
                                ![p].seq = call[p].seq \o Oldest(done),
                                ![p].end = IF done = call[p].want THEN "ok" ELSE "no"]
        /\ \E w : WakeThen(p, w, IF done = call[p].want THEN "done"
                                   ELSE IF done < n THEN "fault" ELSE "loop")
  BY <1>1 DEF ReadCopy, IInv, CallInv
<1>4. n \in Nat /\ n <= call[p].want /\ call[p].want \in Nat
  BY <1>1, ChunkBounds, SizeFacts DEF IInv, CallInv
<1>5. done \in Nat /\ done <= call[p].want
  <2> HIDE DEF n
  <2> QED BY <1>4, CopyBounds
<1> DEFINE l == IF done = call[p].want THEN "done"
                  ELSE IF done < n THEN "fault" ELSE "loop"
<1>6. l \in {"done", "fault", "loop"} /\ (l = "done") = (done = call[p].want)
  OBVIOUS
<1>7. l \in CallPcs \cup {"idle", "done"} /\ l # "idle" /\ l \notin WakerPcs
  <2> HIDE DEF l
  <2> QED BY <1>6 DEF CallPcs, WakerPcs
<1>8. Lands(p, l)
  <2>1. \E w : WakeThen(p, w, l)
    BY <1>3
  <2> HIDE DEF l
  <2> QED BY <2>1, <1>1, <1>7, WakeThenLands DEF IInv, PlacesInv
<1>9. l # "done" => InCall(p)'
  <2> SUFFICES ASSUME done # call[p].want PROVE InCall(p)'
    BY <1>6
  <2>1. call' = [call EXCEPT ![p] =
          [call[p] EXCEPT !.want = call[p].want - done, !.seq = call[p].seq \o Oldest(done),
                          !.end = "no"]]
    BY <1>1, <1>3, CallAfter DEF IInv
  <2>2. call'[p].op = "read" /\ call'[p].want = call[p].want - done /\ call'[p].end = "no"
    BY <1>1, <2>1 DEF IInv, CallInv
  <2>3. call[p].want - done > 0
    BY <1>4, <1>5
  <2>4. "r" \in ends'[p]
    BY <1>1, <1>2 DEF InCall, ReadCopy
  <2> QED BY <2>2, <2>3, <2>4 DEF InCall
<1>10. UNCHANGED <<ends, torn, exiting, victim, state, onCpu>>
  BY DEF ReadCopy, taskVars, killVars
<1>11. \A q \in Actors \ {p} : call'[q] = call[q]
  BY <1>1, <1>3 DEF IInv, CallInv
<1>12. "done" \notin CallPcs
  BY DEF CallPcs, BlockPcs
<1> HIDE DEF l
<1> QED BY <1>2, <1>7, <1>8, <1>9, <1>10, <1>11, <1>12, GoesOn

\* A copy for a write leaves bytes to write, or ends the write.
LEMMA WriteCopyPlaces ==
  ASSUME IInv, PlacesInv, NEW p \in Pids, WriteCopy(p)
  PROVE  PlacesInv'
<1>1. At(p, "loop") /\ call[p].op = "write" /\ p \in Actors
  BY ActorFacts DEF WriteCopy, Looping
<1>2. p \notin torn /\ InCall(p)
  BY <1>1, Working DEF CallPcs
<1> DEFINE left == Len(call[p].seq)
           n == WriteChunk(left)
<1>3. PICK done \in CopyOutcomes(p, n) :
        /\ call' = [call EXCEPT ![p].seq = SubSeq(call[p].seq, done + 1, left),
                                ![p].end = IF done = left THEN "ok" ELSE "no"]
        /\ \E w : WakeThen(p, w, IF done = left THEN "done"
                                   ELSE IF done < n THEN "fault" ELSE "loop")
  BY <1>1 DEF WriteCopy, IInv, CallInv
<1>4. call[p].seq \in Seq(Bytes) /\ left \in Nat
  BY <1>1 DEF IInv, CallInv
<1>5. n \in Nat /\ n <= left
  BY <1>4, ChunkBounds DEF IInv
<1>6. done \in Nat /\ done <= left
  <2> HIDE DEF n, left
  <2> QED BY <1>4, <1>5, CopyBounds
<1> DEFINE l == IF done = left THEN "done" ELSE IF done < n THEN "fault" ELSE "loop"
<1>7. l \in {"done", "fault", "loop"} /\ (l = "done") = (done = left)
  OBVIOUS
<1>8. l \in CallPcs \cup {"idle", "done"} /\ l # "idle" /\ l \notin WakerPcs
  <2> HIDE DEF l
  <2> QED BY <1>7 DEF CallPcs, WakerPcs
<1>9. Lands(p, l)
  <2>1. \E w : WakeThen(p, w, l)
    BY <1>3
  <2> HIDE DEF l
  <2> QED BY <2>1, <1>1, <1>8, WakeThenLands DEF IInv, PlacesInv
<1>10. l # "done" => InCall(p)'
  <2> SUFFICES ASSUME done # left PROVE InCall(p)'
    BY <1>7
  <2>1. call' = [call EXCEPT ![p] =
          [call[p] EXCEPT !.seq = SubSeq(call[p].seq, done + 1, left), !.end = "no"]]
    BY <1>1, <1>3, CallAfter DEF IInv
  <2>2. /\ call'[p].op = "write" /\ call'[p].end = "no"
        /\ call'[p].seq = SubSeq(call[p].seq, done + 1, left)
    BY <1>1, <2>1 DEF IInv, CallInv
  <2>3. Len(SubSeq(call[p].seq, done + 1, left)) = left - done
    BY <1>4, <1>6, Split
  <2>4. call'[p].seq # <<>>
    <3>1. left - done # 0
      <4> HIDE DEF left
      <4> QED BY <1>4, <1>6
    <3>2. Len(call'[p].seq) # 0
      BY <2>2, <2>3, <3>1
    <3>3. Len(<<>>) = 0
      OBVIOUS
    <3> HIDE DEF left
    <3> QED BY <3>2, <3>3
  <2>5. "w" \in ends'[p]
    BY <1>1, <1>2 DEF InCall, WriteCopy
  <2> QED BY <2>2, <2>4, <2>5 DEF InCall
<1>11. UNCHANGED <<ends, torn, exiting, victim, state, onCpu>>
  BY DEF WriteCopy, taskVars, killVars
<1>12. \A q \in Actors \ {p} : call'[q] = call[q]
  BY <1>1, <1>3 DEF IInv, CallInv
<1>13. "done" \notin CallPcs
  BY DEF CallPcs, BlockPcs
<1> HIDE DEF l
<1> QED BY <1>2, <1>8, <1>9, <1>10, <1>11, <1>12, <1>13, GoesOn

\* Every other step of a call.
LEMMA CallStepPlaces ==
  ASSUME IInv, PlacesInv, NEW p \in Pids, CallStep(p)
  PROVE  PlacesInv'
<1>p. p \in Actors /\ PcTyped /\ Settled
  BY ActorFacts DEF IInv, PlacesInv
<1>l. /\ {"loop", "presig", "unreg", "fault", "test", "acquire"} \subseteq CallPcs
      /\ "done" \notin CallPcs /\ "idle" \notin CallPcs /\ CallPcs \cap WakerPcs = {}
      /\ "done" \notin WakerPcs /\ "idle" \notin WakerPcs
  BY DEF CallPcs, BlockPcs, WakerPcs
\* To another place of the call, as it was ...
<1>a. ASSUME NEW k \in CallPcs, At(p, k), NEW l \in CallPcs, Go(p, l),
             UNCHANGED <<ends, torn, exiting, victim, call, after, state, onCpu>>
      PROVE  PlacesInv'
  BY <1>a, <1>p, <1>l, Working, GoLands, GoesOnAsBefore
\* ... or to its end.
<1>b. ASSUME NEW k \in CallPcs, At(p, k), NEW why, End(p, why), Go(p, "done"),
             UNCHANGED <<ends, torn, exiting, victim, after, state, onCpu>>
      PROVE  PlacesInv'
  <2>1. \A q \in Actors \ {p} : call'[q] = call[q]
    BY <1>b, <1>p DEF End, IInv, CallInv
  <2> QED BY <1>b, <1>p, <1>l, <2>1, Working, GoLands, GoesOn
<1> USE DEF taskVars, killVars, callVars, slots
<1>1. CASE ReadCopy(p)
  BY <1>1, ReadCopyPlaces
<1>2. CASE WriteCopy(p)
  BY <1>2, WriteCopyPlaces
<1>3. CASE Blocking(p)
  BY <1>3, BlockingPlaces
<1>4. CASE ReadEmpty(p)
  <2>1. /\ At(p, "loop")
        /\ \/ Go(p, "presig") /\ UNCHANGED call
           \/ Go(p, "done") /\ \E why : End(p, why)
        /\ UNCHANGED <<ends, torn, exiting, victim, after, state, onCpu>>
    BY <1>4 DEF ReadEmpty, Looping
  <2> QED BY <2>1, <1>a, <1>b, <1>l
<1>5. CASE WriteBroken(p)
  <2>1. /\ At(p, "loop") /\ Go(p, "done") /\ End(p, "epipe")
        /\ UNCHANGED <<ends, torn, exiting, victim, after, state, onCpu>>
    BY <1>5 DEF WriteBroken, Looping
  <2> QED BY <2>1, <1>b, <1>l
<1>6. CASE WriteFull(p)
  <2>1. /\ At(p, "loop") /\ Go(p, "presig")
        /\ UNCHANGED <<ends, torn, exiting, victim, call, after, state, onCpu>>
    BY <1>6 DEF WriteFull, Looping
  <2> QED BY <2>1, <1>a, <1>l
<1>7. CASE Resolve(p)
  <2>1. /\ At(p, "fault")
        /\ \/ Go(p, "loop") /\ UNCHANGED call
           \/ Go(p, "done") /\ End(p, "fault")
        /\ UNCHANGED <<ends, torn, exiting, victim, after, state, onCpu>>
    BY <1>7 DEF Resolve
  <2> QED BY <2>1, <1>a, <1>b, <1>l
<1>8. CASE PreSignal(p)
  <2>1. /\ At(p, "presig") /\ (Go(p, "unreg") \/ Go(p, "test"))
        /\ UNCHANGED <<ends, torn, exiting, victim, call, after, state, onCpu>>
    BY <1>8 DEF PreSignal
  <2> QED BY <2>1, <1>a, <1>l
<1>9. CASE PostSignal(p)
  <2>1. /\ At(p, "acquire") /\ (Go(p, "unreg") \/ Go(p, "loop"))
        /\ UNCHANGED <<ends, torn, exiting, victim, call, after, state, onCpu>>
    BY <1>9 DEF PostSignal
  <2> QED BY <2>1, <1>a, <1>l
<1>10. CASE Unregister(p)
  <2>1. /\ At(p, "unreg") /\ Go(p, "done") /\ End(p, "signal")
        /\ UNCHANGED <<ends, torn, exiting, victim, after, state, onCpu>>
    BY <1>10 DEF Unregister
  <2> QED BY <2>1, <1>b, <1>l
<1>11. CASE Return(p)
  <2>1. /\ At(p, "done") /\ Go(p, "idle") /\ call' = [call EXCEPT ![p] = NoCall]
        /\ UNCHANGED <<ends, torn, exiting, victim, after, state, onCpu>>
    BY <1>11 DEF Return
  <2>2. p \notin torn
    <3>1. onCpu[p] /\ Place(p) = "done"
      BY <2>1, <1>l, AtPlace, PidRuns DEF At
    <3> QED BY <3>1, NotTorn
  <2>3. call'[p] = NoCall /\ \A q \in Actors \ {p} : call'[q] = call[q]
    BY <2>1, <1>p DEF IInv, CallInv
  <2>4. Lands(p, "idle")
    BY <2>1, <1>p, <1>l, GoLands
  <2> QED BY <2>1, <2>2, <2>3, <2>4, <1>l, GoesOn
<1> QED BY <1>1, <1>2, <1>3, <1>4, <1>5, <1>6, <1>7, <1>8, <1>9, <1>10, <1>11 DEF CallStep
-----------------------------------------------------------------------------
\* A step in which nobody changes place, and ends are at most gained.
LEMMA SamePlaces ==
  ASSUME PlacesInv, Settled', \A a \in Actors : Place(a)' = Place(a),
         UNCHANGED <<call, torn, victim>>, torn \subseteq exiting',
         \A q \in Actors : ends[q] \subseteq ends'[q],
         \A q \in torn : /\ onCpu'[q] = onCpu[q]
                         /\ state[q] = "zombie" => state'[q] = "zombie"
  PROVE  PlacesInv'
<1>1. ASSUME NEW q \in Pids PROVE Placed(q)'
  <2>1. Place(q)' = Place(q) /\ (InCall(q) => InCall(q)')
    BY ActorFacts DEF InCall
  <2> HIDE DEF InCall, Place
  <2> QED BY <2>1 DEF PlacesInv, Placed
<1>2. KillerPlaced'
  BY ActorFacts DEF PlacesInv, KillerPlaced
<1> QED BY <1>1, <1>2 DEF PlacesInv

\* The same, said of the variables.
LEMMA SamePcs ==
  ASSUME PlacesInv, UNCHANGED <<pc, after, call, torn, victim>>, torn \subseteq exiting',
         \A q \in Actors : ends[q] \subseteq ends'[q],
         \A q \in torn : /\ onCpu'[q] = onCpu[q]
                         /\ state[q] = "zombie" => state'[q] = "zombie"
  PROVE  PlacesInv'
<1>1. Settled' /\ \A a \in Actors : Place(a)' = Place(a)
  BY DEF PlacesInv, Settled, Place
<1> QED BY <1>1, SamePlaces

\* A call begins.
LEMMA StartPlaces ==
  ASSUME IInv, PlacesInv, NEW p \in Pids, StartRead(p) \/ StartWrite(p)
  PROVE  PlacesInv'
<1>1. /\ At(p, "idle") /\ Go(p, "loop") /\ p \in Actors
      /\ UNCHANGED <<ends, torn, exiting, victim, after, state, onCpu>>
  BY ActorFacts DEF StartRead, StartWrite, taskVars, killVars
<1>2. "idle" \notin WakerPcs /\ "loop" \notin WakerPcs /\ "loop" \in CallPcs
  BY DEF WakerPcs, CallPcs
<1>3. p \notin torn
  <2>1. onCpu[p] /\ Place(p) = "idle"
    BY <1>1, <1>2, AtPlace, PidRuns DEF At
  <2> QED BY <2>1, NotTorn
<1>4. Lands(p, "loop")
  BY <1>1, <1>2, GoLands DEF IInv, PlacesInv
<1>5. \A q \in Actors \ {p} : call'[q] = call[q]
  BY DEF StartRead, StartWrite, IInv, CallInv
<1>6. InCall(p)'
  <2>1. CASE StartRead(p)
    <3>1. PICK m \in 1..MaxLen :
            call' = [call EXCEPT ![p] = [NoCall EXCEPT !.op = "read", !.want = m]]
      BY <2>1 DEF StartRead
    <3>2. call'[p] = [NoCall EXCEPT !.op = "read", !.want = m]
      BY <1>1, <3>1 DEF IInv, CallInv
    <3>3. call'[p].op = "read" /\ call'[p].want = m /\ call'[p].end = "no"
      BY <3>2 DEF NoCall
    <3>4. m > 0
      BY SizeFacts
    <3>5. "r" \in ends'[p]
      BY <2>1, <1>1 DEF StartRead
    <3> QED BY <3>3, <3>4, <3>5 DEF InCall
  <2>2. CASE StartWrite(p)
    <3>1. PICK d \in Payloads :
            call' = [call EXCEPT ![p] = [NoCall EXCEPT !.op = "write", !.seq = d]]
      BY <2>2 DEF StartWrite
    <3>2. call'[p] = [NoCall EXCEPT !.op = "write", !.seq = d]
      BY <1>1, <3>1 DEF IInv, CallInv
    <3>3. call'[p].op = "write" /\ call'[p].seq = d /\ call'[p].end = "no"
      BY <3>2 DEF NoCall
    <3>4. d # <<>>
      <4>1. PICK m \in 1..MaxLen : d \in [1..m -> Bytes]
        BY SizesAssumption
      <4>2. d \in Seq(Bytes) /\ Len(d) = m /\ m # 0
        BY <4>1, SizeFacts
      <4>3. Len(<<>>) = 0
        OBVIOUS
      <4> QED BY <4>2, <4>3
    <3>5. "w" \in ends'[p]
      BY <2>2, <1>1 DEF StartWrite
    <3> QED BY <3>3, <3>4, <3>5 DEF InCall
  <2> QED BY <2>1, <2>2
<1> QED BY <1>1, <1>2, <1>3, <1>4, <1>5, <1>6, GoesOn

\* wake() moves nobody.
LEMMA WakingPlaces ==
  ASSUME IInv, PlacesInv, NEW a \in Actors, Waking(a)
  PROVE  PlacesInv'
<1>1. Lands(a, Place(a))
  BY WakingStays DEF IInv, PlacesInv
<1>2. UNCHANGED <<call, torn, exiting, victim, ends, onCpu>>
  BY DEF Waking, WakePend, WakeClear, WakeEnd, MakeReady, callVars, killVars
<1>3. \A q \in Pids : state[q] = "zombie" => state'[q] = "zombie"
  BY DEF Waking, WakePend, WakeClear, WakeEnd, MakeReady, IInv, RestTyped
<1>4. torn \subseteq Pids /\ torn \subseteq exiting
  BY DEF IInv, RestTyped, PlacesInv
<1> QED BY <1>1, <1>2, <1>3, <1>4, SamePlaces DEF Lands

\* Calls that never wait, by a process in user mode or by the desktop.
LEMMA TryReadPlaces ==
  ASSUME IInv, PlacesInv, NEW a \in Actors, TryRead(a)
  PROVE  PlacesInv'
<1>1. At(a, "idle") /\ \E w : WakeThen(a, w, "idle")
  BY DEF TryRead
<1>2. Lands(a, "idle") /\ Place(a) = "idle"
  BY <1>1, WakeThenLands, AtPlace DEF IInv, PlacesInv, WakerPcs
<1>3. UNCHANGED <<call, torn, exiting, victim, ends, onCpu, state>>
  BY DEF TryRead, taskVars, callVars, killVars
<1>4. torn \subseteq exiting
  BY DEF PlacesInv
<1> QED BY <1>2, <1>3, <1>4, SamePlaces DEF Lands

\* The first section of tryWrite, by the desktop.
LEMMA TryWritePlaces ==
  ASSUME IInv, PlacesInv, NEW a \in Actors, TryWrite(a)
  PROVE  PlacesInv'
<1>1. a = Killer /\ Go(a, "try") /\ "w" \in ends[a]
  BY DEF TryWrite, Desktop
<1>2. UNCHANGED <<call, torn, exiting, victim, ends, onCpu, state, after>>
  BY DEF TryWrite, taskVars, callVars, killVars
<1>3. Lands(Killer, "try")
  BY <1>1, <1>2, GoLands DEF IInv, PlacesInv, WakerPcs
<1>4. Apart(Killer)
  BY <1>2, <1>3 DEF Apart, Lands, PlacesInv
<1>5. KillerPlaced'
  BY <1>1, <1>2, <1>3 DEF KillerPlaced, Lands
<1> QED BY <1>4, <1>5, KillersStep

\* Only the desktop is between the two sections of tryWrite.
LEMMA OnlyDesktopTries ==
  ASSUME PlacesInv, NEW a \in Actors, At(a, "try")
  PROVE  a = Killer /\ Place(a) = "try"
<1>1. Place(a) = "try"
  BY AtPlace DEF WakerPcs
<1>2. ASSUME a \in Pids PROVE FALSE
  <2>1. onCpu[a]
    BY <1>2, PidRuns DEF At
  <2>2. "try" \in CallPcs \cup {"idle", "done"}
    BY <1>1, <1>2, <2>1, NotTorn
  <2> QED BY <2>2 DEF CallPcs, BlockPcs
<1> QED BY <1>1, <1>2 DEF Actors, Pids, Killer

\* The second section of tryWrite.
LEMMA TryPushPlaces ==
  ASSUME IInv, PlacesInv, NEW a \in Actors, TryPush(a)
  PROVE  PlacesInv'
<1>1. At(a, "try") /\ \E w : WakeThen(a, w, "idle")
  BY DEF TryPush
<1>2. a = Killer
  BY <1>1, OnlyDesktopTries
<1>3. Lands(Killer, "idle")
  BY <1>1, <1>2, WakeThenLands DEF IInv, PlacesInv, WakerPcs
<1>4. UNCHANGED <<call, torn, exiting, victim, ends, onCpu, state>>
  BY DEF TryPush, taskVars, callVars, killVars
<1>5. Apart(Killer) /\ KillerPlaced'
  BY <1>3, <1>4 DEF Apart, Lands, PlacesInv, KillerPlaced
<1> QED BY <1>5, KillersStep

\* Ends are made, given on ...
LEMMA AllocPlaces ==
  ASSUME IInv, PlacesInv, NEW a \in Actors,
         Alloc(a) \/ \E e \in Sides, p \in Pids : Inherit(a, p, e)
  PROVE  PlacesInv'
<1>1. UNCHANGED <<pc, after, call, torn, exiting, victim, onCpu, state>>
  BY DEF Alloc, Inherit, waitVars, callVars, killVars
<1>2. \A q \in Actors : ends[q] \subseteq ends'[q]
  <2>1. CASE Alloc(a)
    BY <2>1 DEF Alloc, IInv, EndsInv
  <2>2. CASE \E e \in Sides, p \in Pids : Inherit(a, p, e)
    BY <2>2 DEF Inherit, IInv, EndsInv
  <2> QED BY <2>1, <2>2
<1>3. torn \subseteq exiting
  BY DEF PlacesInv
<1> QED BY <1>1, <1>2, <1>3, SamePcs

\* ... and closed by who is in no call.
LEMMA ClosePlaces ==
  ASSUME IInv, PlacesInv, NEW a \in Actors, NEW e \in Sides, Close(a, e)
  PROVE  PlacesInv'
<1>1. At(a, "idle") /\ CloseEnd(a, a, e, "idle")
  BY DEF Close
<1>2. Lands(a, "idle") /\ Place(a) = "idle"
  BY <1>1, WakeThenLands, AtPlace DEF CloseEnd, IInv, PlacesInv, WakerPcs
<1>3. /\ UNCHANGED <<call, torn, exiting, victim, onCpu, state>>
      /\ \A q \in Actors \ {a} : ends'[q] = ends[q]
  BY DEF Close, CloseEnd, taskVars, callVars, killVars, IInv, EndsInv
<1>4. Apart(a)
  BY <1>2, <1>3 DEF Apart, Lands, PlacesInv
<1>5. CASE a = Killer
  BY <1>2, <1>4, <1>5, KillersStep DEF Lands, KillerPlaced
<1>6. CASE a \in Pids
  <2>1. a \notin torn /\ call[a] = NoCall
    <3>1. onCpu[a]
      BY <1>1, <1>6, PidRuns DEF At
    <3> QED BY <1>2, <1>6, <3>1, NotTorn
  <2>2. Placed(a)'
    BY <1>2, <1>3, <2>1 DEF Placed, Lands, CallPcs, BlockPcs
  <2> QED BY <1>4, <1>6, <2>2, PidStep DEF IInv
<1> QED BY <1>5, <1>6 DEF Actors, Pids, Killer

\* Signals and requests to exit move no process.
LEMMA SignalPlaces ==
  ASSUME IInv, PlacesInv, NEW p \in Pids, Send(p) \/ Deliver(p) \/ RequestKill(p)
  PROVE  PlacesInv'
<1>1. torn \subseteq exiting
  BY DEF PlacesInv
<1>2. CASE Deliver(p) \/ RequestKill(p)
  BY <1>1, <1>2, SamePcs
  DEF Deliver, RequestKill, waitVars, callVars, killVars, IInv, EndsInv
<1>3. CASE Send(p)
  <2>1. At(Killer, "idle") /\ WakeThen(Killer, p, "idle")
    BY <1>3 DEF Send
  <2>2. Lands(Killer, "idle") /\ Place(Killer) = "idle"
    BY <2>1, ActorFacts, WakeThenLands, AtPlace DEF IInv, PlacesInv, WakerPcs
  <2>3. UNCHANGED <<call, torn, exiting, victim, ends, onCpu, state>>
    BY <1>3 DEF Send, taskVars, callVars, killVars
  <2> QED BY <1>1, <2>2, <2>3, SamePlaces DEF Lands
<1> QED BY <1>2, <1>3

\* The scheduler puts no torn process on a CPU, and takes none off.
LEMMA ScheduledPlaces ==
  ASSUME IInv, PlacesInv, NEW p \in Pids, DispatchTask(p) \/ PreemptTask(p)
  PROVE  PlacesInv'
<1>1. torn \subseteq exiting
  BY DEF PlacesInv
<1>2. /\ p \notin exiting
      /\ \A q \in Pids \ {p} : onCpu'[q] = onCpu[q] /\ state'[q] = state[q]
  BY DEF DispatchTask, Dispatch, PreemptTask, Preempt, IInv, RestTyped
<1>3. torn \subseteq Pids \ {p}
  BY <1>1, <1>2 DEF IInv, RestTyped
<1>4. UNCHANGED <<pc, after, call, torn, exiting, victim, ends>>
  BY DEF DispatchTask, Dispatch, PreemptTask, Preempt, callVars, killVars
<1> QED BY <1>1, <1>2, <1>3, <1>4, SamePcs

\* The killer takes a process that is on no CPU.
LEMMA KillOffCpuPlaces ==
  ASSUME IInv, PlacesInv, NEW p \in Pids, KillOffCpu(p)
  PROVE  PlacesInv'
<1>1. Lands(Killer, "teardown")
  BY ActorFacts, GoLands DEF KillOffCpu, IInv, PlacesInv, WakerPcs
<1>2. /\ UNCHANGED <<call, ends, onCpu, exiting>> /\ ~onCpu[p]
      /\ state' = [state EXCEPT ![p] = "zombie"]
      /\ torn' = torn \cup {p} /\ victim' = p /\ p \in exiting
  BY DEF KillOffCpu, callVars
<1>3. torn' \subseteq exiting' /\ Settled'
  BY <1>1, <1>2 DEF PlacesInv, Lands
<1>4. ASSUME NEW q \in Pids PROVE Placed(q)'
  <2>1. Place(q)' = Place(q) /\ Placed(q)
    BY <1>1, ActorFacts DEF Lands, PlacesInv
  <2>2. CASE q = p
    BY <1>2, <2>2 DEF Placed, IInv, RestTyped
  <2>3. CASE q # p
    <3>1. (q \in torn') = (q \in torn) /\ state'[q] = state[q]
      BY <1>2, <2>3 DEF IInv, RestTyped
    <3>2. InCall(q) => InCall(q)'
      BY <1>2 DEF InCall
    <3> HIDE DEF Place, InCall
    <3> QED BY <1>2, <2>1, <3>1, <3>2 DEF Placed
  <2> QED BY <2>2, <2>3
<1>5. KillerPlaced'
  BY <1>1, <1>2 DEF KillerPlaced, Lands
<1> QED BY <1>3, <1>4, <1>5 DEF PlacesInv

\* A process destroys itself, and exits.
LEMMA DiesPlaces ==
  ASSUME IInv, PlacesInv, NEW p \in Pids, SelfDestroy(p) \/ Exit(p)
  PROVE  PlacesInv'
<1>1. CASE SelfDestroy(p)
  <2>1. Lands(p, "teardown")
    BY <1>1, ActorFacts, GoLands DEF SelfDestroy, IInv, PlacesInv, WakerPcs
  <2>2. /\ UNCHANGED <<call, ends, onCpu, state, exiting, victim>> /\ onCpu[p]
        /\ torn' = torn \cup {p} /\ p \in exiting
    BY <1>1 DEF SelfDestroy, callVars, taskVars
  <2>3. Apart(p)
    BY <2>1, <2>2 DEF Apart, Lands, PlacesInv
  <2>4. Placed(p)'
    BY <2>1, <2>2 DEF Lands, Placed
  <2> QED BY <2>3, <2>4, PidStep DEF IInv
<1>2. CASE Exit(p)
  <2>1. Lands(p, "dead") /\ Place(p) = "exit"
    BY <1>2, ActorFacts, GoLands, AtPlace DEF Exit, IInv, PlacesInv, WakerPcs
  <2>2. /\ UNCHANGED <<call, ends, torn, exiting, victim>>
        /\ state' = [state EXCEPT ![p] = "zombie"]
        /\ onCpu' = [onCpu EXCEPT ![p] = FALSE]
    BY <1>2 DEF Exit, callVars, killVars
  <2>3. p \in torn
    BY <2>1 DEF PlacesInv, Placed, CallPcs, BlockPcs
  <2>4. Apart(p)
    BY <2>1, <2>2 DEF Apart, Lands, PlacesInv, IInv, RestTyped
  <2>5. Placed(p)'
    BY <2>2, <2>3 DEF Placed, IInv, RestTyped
  <2> QED BY <2>4, <2>5, PidStep DEF IInv
<1> QED BY <1>1, <1>2

\* Who is torn down: the process itself, or the victim in the killer's hands.
LEMMA DyingIsTorn ==
  ASSUME PlacesInv, NEW a \in Actors, At(a, "teardown")
  PROVE  Dying(a) \in torn /\ Place(a) = "teardown"
<1>1. Place(a) = "teardown"
  BY AtPlace DEF WakerPcs
<1>2. CASE a = Killer
  BY <1>1, <1>2 DEF PlacesInv, KillerPlaced, Dying
<1>3. CASE a \in Pids
  BY <1>1, <1>3, ActorFacts DEF PlacesInv, Placed, CallPcs, BlockPcs, Dying
<1> QED BY <1>1, <1>2, <1>3 DEF Actors, Pids, Killer

\* Ends close under a torn process only.
LEMMA TearDownPlaces ==
  ASSUME IInv, PlacesInv, NEW a \in Actors, TearDown(a)
  PROVE  PlacesInv'
<1>1. Dying(a) \in torn /\ Place(a) = "teardown" /\ At(a, "teardown")
  BY DyingIsTorn DEF TearDown
<1> DEFINE p == Dying(a)
<1>2. /\ UNCHANGED <<onCpu, state, exiting, torn>>
      /\ \A q \in Actors \ {p} : call'[q] = call[q] /\ ends'[q] = ends[q]
  BY DEF TearDown, CloseEnd, taskVars, callVars, slots, IInv, CallInv, EndsInv
<1>3. \/ Lands(a, "teardown") /\ UNCHANGED victim
      \/ Lands(a, IF a = Killer THEN "idle" ELSE "exit") /\ (a # Killer => UNCHANGED victim)
  <2>1. CASE ends[p] # {}
    <3>1. (\E w : WakeThen(a, w, "teardown")) /\ UNCHANGED victim
      BY <2>1 DEF TearDown, CloseEnd
    <3> QED BY <3>1, WakeThenLands DEF IInv, PlacesInv, WakerPcs
  <2>2. CASE ends[p] = {}
    <3>1. Go(a, IF a = Killer THEN "idle" ELSE "exit") /\ UNCHANGED after
      BY <2>2 DEF TearDown
    <3>2. a # Killer => UNCHANGED victim
      BY <2>2 DEF TearDown
    <3>3. (IF a = Killer THEN "idle" ELSE "exit") \notin WakerPcs
      BY DEF WakerPcs
    <3> QED BY <3>1, <3>2, <3>3, GoLands DEF IInv, PlacesInv
  <2> QED BY <2>1, <2>2
<1>4. Apart(a)
  BY <1>1, <1>2, <1>3 DEF Apart, Lands, PlacesInv
<1>5. CASE a = Killer
  <2>1. KillerPlaced'
    BY <1>1, <1>2, <1>3, <1>5 DEF KillerPlaced, Lands, Dying
  <2> QED BY <1>4, <1>5, <2>1, KillersStep
<1>6. CASE a \in Pids
  <2>1. a \in torn /\ onCpu[a]
    BY <1>1, <1>6, ActorFacts, PidRuns DEF Dying, At
  <2>2. Placed(a)'
    BY <1>2, <1>3, <1>6, <2>1, ActorFacts DEF Placed, Lands
  <2> QED BY <1>4, <1>6, <2>2, PidStep DEF IInv
<1> QED BY <1>5, <1>6 DEF Actors, Pids, Killer
-----------------------------------------------------------------------------
\* The initial state satisfies the invariant, and every step preserves it.
LEMMA InitPlaces == Init => PlacesInv
  BY ActorFacts DEF Init, WaitInit, PlacesInv, Placed, Place, Settled, KillerPlaced,
     WakerPcs, CallPcs, BlockPcs

\* Every step keeps everybody placed.
LEMMA NextPlaces == IInv /\ PlacesInv /\ [Next]_vars => PlacesInv'
<1> SUFFICES ASSUME IInv, PlacesInv, [Next]_vars PROVE PlacesInv'
  OBVIOUS
<1>1. ASSUME NEW p \in Pids, TaskStep(p) PROVE PlacesInv'
  BY <1>1, ActorFacts, CallStepPlaces, TryPushPlaces, WakingPlaces, TearDownPlaces,
     DiesPlaces DEF TaskStep
<1>2. ASSUME NEW a \in Actors, Choice(a) PROVE PlacesInv'
  BY <1>2, TryReadPlaces, TryWritePlaces, AllocPlaces, ClosePlaces DEF Choice
<1>3. CASE KillerStep
  BY <1>3, ActorFacts, TryPushPlaces, WakingPlaces, TearDownPlaces DEF KillerStep
<1>4. CASE UNCHANGED vars
  <2>1. torn \subseteq exiting
    BY DEF PlacesInv
  <2> QED BY <1>4, <2>1, SamePcs DEF vars, waitVars, callVars, killVars
<1> QED
  BY <1>1, <1>2, <1>3, <1>4, StartPlaces, SignalPlaces, ScheduledPlaces,
     KillOffCpuPlaces, DiesPlaces DEF Next

\* A process in a call holds the end it uses, and what is torn never goes on with
\* a call: throughout, for every choice of who is killed, signalled or preempted.
THEOREM PlacesHold == Spec => [](IInv /\ PlacesInv)
<1> QED BY InitIInv, NextIInv, InitPlaces, NextPlaces, PTL DEF Spec
-----------------------------------------------------------------------------
\* The first k elements, and the ones after them, one by one.
LEMMA Parts ==
  ASSUME NEW S, NEW s \in Seq(S), NEW k \in 0..Len(s)
  PROVE  /\ SubSeq(s, 1, k) \in Seq(S) /\ Len(SubSeq(s, 1, k)) = k
         /\ \A i \in 1..k : SubSeq(s, 1, k)[i] = s[i]
         /\ SubSeq(s, k + 1, Len(s)) \in Seq(S)
         /\ Len(SubSeq(s, k + 1, Len(s))) = Len(s) - k
         /\ \A i \in 1..Len(s) - k : SubSeq(s, k + 1, Len(s))[i] = s[k + i]
<1>1. Len(s) \in Nat /\ k \in Nat /\ k <= Len(s)
  OBVIOUS
<1>2. ASSUME NEW i \in 1..k PROVE s[i] \in S /\ SubSeq(s, 1, k)[i] = s[i]
  BY <1>1
<1>3. ASSUME NEW i \in 1..Len(s) - k PROVE SubSeq(s, k + 1, Len(s))[i] = s[k + i]
  BY <1>1
<1> QED BY <1>1, <1>2, <1>3, Split

\* The place of the i-th byte, as an offset without a remainder.
LEMMA PlaceOfByte ==
  ASSUME RingInv, NEW i \in 1..Size
  PROVE  /\ (tail + i - 1) % Size = IF tail + i - 1 < Size THEN tail + i - 1
                                                           ELSE tail + i - 1 - Size
         /\ (tail + i - 1) % Size \in 0..Size-1
<1>1. tail \in 0..Size-1 /\ i - 1 \in 0..Size /\ tail + i - 1 = tail + (i - 1)
  BY SizeFacts DEF RingInv
<1>2. (tail + (i - 1)) % Size = Moved(tail, i - 1) /\ Moved(tail, i - 1) \in 0..Size-1
  BY <1>1, OffsetMoves
<1> QED BY <1>1, <1>2 DEF Moved

\* What is in the ring is a sequence of count bytes.
ContentInv ==
  /\ Content \in Seq(Bytes) /\ Len(Content) = count
  /\ \A i \in 1..count : Content[i] = buf[(tail + i - 1) % Size]
  /\ count = 0 => Content = <<>>

\* The ring holds such a sequence.
LEMMA RingContent == RingInv => ContentInv
<1> SUFFICES ASSUME RingInv PROVE ContentInv
  OBVIOUS
<1>1. count \in Nat /\ count <= Size
  BY SizeFacts DEF RingInv
<1>2. ASSUME NEW i \in 1..count PROVE buf[(tail + i - 1) % Size] \in Bytes
  <2>1. i \in 1..Size
    BY <1>1, SizeFacts
  <2>2. (tail + i - 1) % Size \in 0..Size-1
    BY <2>1, PlaceOfByte
  <2> QED BY <2>2 DEF RingInv
<1>3. Content \in Seq(Bytes) /\ Len(Content) = count
  BY <1>1, <1>2 DEF Content
<1>4. \A i \in 1..count : Content[i] = buf[(tail + i - 1) % Size]
  BY DEF Content
<1>5. count = 0 => Content = <<>>
  BY <1>3, EmptySeq
<1> QED BY <1>3, <1>4, <1>5 DEF ContentInv

\* The same, part by part.
LEMMA ContentType ==
  ASSUME RingInv
  PROVE  /\ Content \in Seq(Bytes) /\ Len(Content) = count
         /\ \A i \in 1..count : Content[i] = buf[(tail + i - 1) % Size]
         /\ count = 0 => Content = <<>>
  BY RingContent DEF ContentInv

\* The same of the next state.
LEMMA RingContentNext == RingInv' => ContentInv'
  BY RingContent, PTL

\* The same, part by part, of the next state.
LEMMA ContentTypeNext ==
  ASSUME RingInv'
  PROVE  /\ Content' \in Seq(Bytes) /\ Len(Content') = count'
         /\ \A i \in 1..count' : Content'[i] = buf'[(tail' + i - 1) % Size]
         /\ count' = 0 => Content' = <<>>
  BY RingContentNext DEF ContentInv

\* The oldest bytes are the first of the content ...
LEMMA OldestOfContent ==
  ASSUME RingInv, NEW k \in Nat, k <= count, k <= Size - tail
  PROVE  Oldest(k) = SubSeq(Content, 1, k)
<1>1. count \in Nat /\ count <= Size /\ tail \in 0..Size-1
  BY SizeFacts DEF RingInv
<1>2. /\ SubSeq(Content, 1, k) \in Seq(Bytes) /\ Len(SubSeq(Content, 1, k)) = k
      /\ \A i \in 1..k : SubSeq(Content, 1, k)[i] = Content[i]
  BY <1>1, ContentType, Parts
<1>3. Oldest(k) \in Seq(Bytes) /\ Len(Oldest(k)) = k
  BY OldestType
<1>4. ASSUME NEW i \in 1..k PROVE Oldest(k)[i] = SubSeq(Content, 1, k)[i]
  <2>1. Oldest(k)[i] = buf[tail + i - 1]
    BY DEF Oldest
  <2>2. i \in 1..count /\ i \in 1..Size /\ tail + i - 1 < Size
    BY <1>1, SizeFacts
  <2>3. (tail + i - 1) % Size = tail + i - 1
    BY <2>2, PlaceOfByte
  <2> QED BY <1>2, <2>1, <2>2, <2>3, ContentType
<1> QED BY <1>2, <1>3, <1>4, SeqEqual

\* ... and are gone when they are taken.
LEMMA PopContent ==
  ASSUME RingInv, NEW k \in Nat, k <= count, Pop(k)
  PROVE  Content' = SubSeq(Content, k + 1, count)
<1> DEFINE rest == SubSeq(Content, k + 1, count)
<1>1. /\ count \in Nat /\ count <= Size /\ tail \in 0..Size-1 /\ k \in 0..Size
      /\ k \in 0..count
  BY SizeFacts DEF RingInv
<1>2. RingInv'
  BY PopKeepsRing
<1>3. /\ rest \in Seq(Bytes) /\ Len(rest) = count - k
      /\ \A i \in 1..count - k : rest[i] = Content[k + i]
  BY <1>1, ContentType, Parts
<1>4. tail' = Moved(tail, k) /\ count' = count - k /\ buf' = buf
  BY <1>1, OffsetMoves DEF Pop
<1>5. /\ Content' \in Seq(Bytes) /\ Len(Content') = count - k
      /\ \A i \in 1..count - k : Content'[i] = buf[(tail' + i - 1) % Size]
  <2>1. /\ Content' \in Seq(Bytes) /\ Len(Content') = count'
        /\ \A i \in 1..count' : Content'[i] = buf'[(tail' + i - 1) % Size]
    BY <1>2, <1>4, ContentTypeNext
  <2> QED BY <1>4, <2>1
<1>6. ASSUME NEW i \in 1..count - k PROVE Content'[i] = rest[i]
  <2>1. k + i \in 1..count /\ k + i \in 1..Size /\ i \in 1..Size
    BY <1>1, SizeFacts
  <2>2. (tail + (k + i) - 1) % Size = (tail' + i - 1) % Size
    <3>1. (tail + (k + i) - 1) % Size = IF tail + (k + i) - 1 < Size THEN tail + (k + i) - 1
                                           ELSE tail + (k + i) - 1 - Size
      BY <2>1, PlaceOfByte
    <3>2. tail' \in 0..Size-1 /\ tail' + i - 1 = tail' + (i - 1) /\ i - 1 \in 0..Size
      BY <1>2, <2>1, SizeFacts DEF RingInv
    <3>3. (tail' + (i - 1)) % Size = Moved(tail', i - 1)
      BY <3>2, OffsetMoves
    <3> QED BY <1>1, <1>4, <2>1, <3>1, <3>2, <3>3, SizeFacts DEF Moved
  <2>3. Content[k + i] = buf[(tail + (k + i) - 1) % Size]
    BY <2>1, ContentType
  <2> QED BY <1>3, <1>5, <2>2, <2>3
<1> QED BY <1>3, <1>5, <1>6, SeqEqual

\* A byte of the content keeps its place when k bytes are added behind it, and
\* the j-th of them is j - 1 places on from the head, around the end or not.
LEMMA AddedPlaces ==
  ASSUME RingInv, NEW k \in Nat, k <= Size - count
  PROVE  /\ \A i \in 1..count :
              LET o == (tail + i - 1) % Size
              IN /\ o \in 0..Size-1
                 /\ (o + Size - head) % Size >= k
                 /\ k <= Size - head => o \notin head..head + k - 1
         /\ \A j \in 1..k :
              LET o == (tail + (count + j) - 1) % Size
              IN /\ o \in 0..Size-1
                 /\ (o + Size - head) % Size = j - 1
                 /\ k <= Size - head => o = head + j - 1
<1>1. /\ count \in Nat /\ count <= Size /\ tail \in 0..Size-1 /\ head \in 0..Size-1
      /\ head = IF tail + count < Size THEN tail + count ELSE tail + count - Size
      /\ Size \in Nat /\ Size > 0
  BY SizeFacts DEF RingInv
<1>2. ASSUME NEW o \in 0..Size-1
      PROVE  (o + Size - head) % Size = IF o < head THEN o + Size - head ELSE o - head
  <2>1. o + Size - head = o + (Size - head) /\ Size - head \in 0..Size
    BY <1>1
  <2>2. (o + (Size - head)) % Size = Moved(o, Size - head)
    BY <2>1, OffsetMoves
  <2> QED BY <1>1, <2>1, <2>2 DEF Moved
<1>3. ASSUME NEW i \in 1..count
      PROVE  LET o == (tail + i - 1) % Size
             IN /\ o \in 0..Size-1
                /\ (o + Size - head) % Size >= k
                /\ k <= Size - head => o \notin head..head + k - 1
  <2> DEFINE o == (tail + i - 1) % Size
  <2>1. i \in 1..Size
    BY <1>1
  <2>2. /\ o = (IF tail + i - 1 < Size THEN tail + i - 1 ELSE tail + i - 1 - Size)
        /\ o \in 0..Size-1
    BY <2>1, PlaceOfByte
  <2> HIDE DEF o
  <2>3. (o + Size - head) % Size = IF o < head THEN o + Size - head ELSE o - head
    BY <1>2, <2>2
  <2>4. (o + Size - head) % Size >= k /\ (k <= Size - head => o \notin head..head + k - 1)
    BY <1>1, <2>2, <2>3
  <2> QED BY <2>2, <2>4 DEF o
<1>4. ASSUME NEW j \in 1..k
      PROVE  LET o == (tail + (count + j) - 1) % Size
             IN /\ o \in 0..Size-1
                /\ (o + Size - head) % Size = j - 1
                /\ k <= Size - head => o = head + j - 1
  <2> DEFINE o == (tail + (count + j) - 1) % Size
  <2>1. count + j \in 1..Size
    BY <1>1
  <2>2. /\ o = (IF tail + (count + j) - 1 < Size THEN tail + (count + j) - 1
                ELSE tail + (count + j) - 1 - Size)
        /\ o \in 0..Size-1
    BY <2>1, PlaceOfByte
  <2> HIDE DEF o
  <2>3. (o + Size - head) % Size = IF o < head THEN o + Size - head ELSE o - head
    BY <1>2, <2>2
  <2>4. (o + Size - head) % Size = j - 1 /\ (k <= Size - head => o = head + j - 1)
    BY <1>1, <2>1, <2>2, <2>3
  <2> QED BY <2>2, <2>4 DEF o
<1> QED BY <1>3, <1>4

\* A ring with old bytes where they were and those of s behind them holds the
\* content with s appended.
LEMMA AppendedContent ==
  ASSUME RingInv, RingInv', NEW s \in Seq(Bytes),
         tail' = tail, count' = count + Len(s),
         \A i \in 1..count : buf'[(tail + i - 1) % Size] = buf[(tail + i - 1) % Size],
         \A j \in 1..Len(s) : buf'[(tail + (count + j) - 1) % Size] = s[j]
  PROVE  Content' = Content \o s
<1>1. count \in Nat /\ Len(s) \in Nat
  BY SizeFacts DEF RingInv
<1>2. /\ Content \in Seq(Bytes) /\ Len(Content) = count
      /\ \A i \in 1..count : Content[i] = buf[(tail + i - 1) % Size]
  BY ContentType
<1>3. /\ Content' \in Seq(Bytes) /\ Len(Content') = count + Len(s)
      /\ \A i \in 1..count + Len(s) : Content'[i] = buf'[(tail + i - 1) % Size]
  BY ContentTypeNext
<1>4. /\ Content \o s \in Seq(Bytes) /\ Len(Content \o s) = count + Len(s)
      /\ \A i \in 1..count + Len(s) :
           (Content \o s)[i] = IF i <= count THEN Content[i] ELSE s[i - count]
  BY <1>2, ConcatProperties
<1>5. ASSUME NEW i \in 1..count + Len(s) PROVE Content'[i] = (Content \o s)[i]
  <2>1. CASE i <= count
    <3>1. i \in 1..count
      BY <1>1, <2>1
    <3> QED BY <1>2, <1>3, <1>4, <2>1, <3>1
  <2>2. CASE ~(i <= count)
    <3>1. i - count \in 1..Len(s) /\ count + (i - count) = i
      BY <1>1, <2>2
    <3>2. buf'[(tail + i - 1) % Size] = s[i - count]
      BY <3>1
    <3> QED BY <1>3, <1>4, <2>2, <3>2
  <2> QED BY <2>1, <2>2
<1> QED BY <1>3, <1>4, <1>5, SeqEqual

\* A chunk of a write appends its bytes.
LEMMA PushContent ==
  ASSUME RingInv, NEW s \in Seq(Bytes), Len(s) <= Size - count, Len(s) <= Size - head,
         Push(s)
  PROVE  Content' = Content \o s
<1>1. RingInv'
  BY PushKeepsRing
<1>2. /\ tail' = tail /\ count' = count + Len(s) /\ Len(s) \in Nat
      /\ buf' = [i \in 0..Size-1 |->
                   IF i \in head..head + Len(s) - 1 THEN s[i - head + 1] ELSE buf[i]]
  BY DEF Push
<1>3. ASSUME NEW i \in 1..count
      PROVE  buf'[(tail + i - 1) % Size] = buf[(tail + i - 1) % Size]
  BY <1>2, <1>3, AddedPlaces
<1>4. ASSUME NEW j \in 1..Len(s)
      PROVE  buf'[(tail + (count + j) - 1) % Size] = s[j]
  <2>1. /\ (tail + (count + j) - 1) % Size = head + j - 1
        /\ head + j - 1 \in 0..Size-1
    BY <1>2, <1>4, AddedPlaces
  <2>2. /\ head \in Nat /\ head + j - 1 \in head..head + Len(s) - 1
        /\ (head + j - 1) - head + 1 = j
    BY <1>2, SizeFacts DEF RingInv
  <2> QED BY <1>2, <2>1, <2>2
<1> QED BY <1>1, <1>2, <1>3, <1>4, AppendedContent

\* So does what tryWrite adds around the end of the ring.
LEMMA WrappedContent ==
  ASSUME RingInv, NEW s \in Seq(Bytes), Len(s) <= Size - count, Wrapped(s)
  PROVE  Content' = Content \o s
<1>1. RingInv'
  BY WrappedKeepsRing
<1>2. /\ tail' = tail /\ count' = count + Len(s) /\ Len(s) \in Nat
      /\ \A o \in 0..Size-1 : buf'[o] =
           IF (o + Size - head) % Size < Len(s)
             THEN s[((o + Size - head) % Size) + 1] ELSE buf[o]
  BY DEF Wrapped
<1>3. ASSUME NEW i \in 1..count
      PROVE  buf'[(tail + i - 1) % Size] = buf[(tail + i - 1) % Size]
  <2> DEFINE o == (tail + i - 1) % Size
             d == (o + Size - head) % Size
  <2>1. o \in 0..Size-1 /\ d >= Len(s) /\ d \in Nat
    <3>1. o \in 0..Size-1 /\ d >= Len(s)
      BY <1>2, <1>3, AddedPlaces
    <3>2. o + Size - head \in Nat
      BY <3>1, SizeFacts DEF RingInv
    <3>3. d \in Nat
      <4> HIDE DEF o
      <4> QED BY <3>2, SizeFacts
    <3> QED BY <3>1, <3>3
  <2>2. ~(d < Len(s))
    <3> HIDE DEF d
    <3> QED BY <1>2, <2>1
  <2> QED BY <1>2, <2>1, <2>2
<1>4. ASSUME NEW j \in 1..Len(s)
      PROVE  buf'[(tail + (count + j) - 1) % Size] = s[j]
  <2> DEFINE o == (tail + (count + j) - 1) % Size
  <2>1. o \in 0..Size-1 /\ (o + Size - head) % Size = j - 1
    BY <1>2, <1>4, AddedPlaces
  <2>2. j - 1 < Len(s) /\ (j - 1) + 1 = j
    BY <1>2
  <2> HIDE DEF o
  <2>3. buf'[o] = s[j]
    BY <1>2, <2>1, <2>2
  <2> QED BY <2>3 DEF o
<1> QED BY <1>1, <1>2, <1>3, <1>4, AppendedContent
-----------------------------------------------------------------------------
\* A step of the queue, or none.
StreamStep == [Stream!Next]_(Stream!vars)

\* An end in somebody's hands keeps the pipe in use; a count of zero is nobody.
LEMMA Held ==
  ASSUME EndsInv, NEW a \in Actors, NEW e \in ends[a]
  PROVE  inUse
<1>1. e \in Sides /\ a \in Holders(e)
  BY DEF EndsInv, Holders
<1>2. Cardinality(Holders(e)) > 0
  BY <1>1, HoldersFacts
<1>3. /\ Cardinality(Holders("r")) \in Nat /\ Cardinality(Holders("w")) \in Nat
      /\ readers = Cardinality(Holders("r")) /\ writers = Cardinality(Holders("w"))
  BY HoldersFacts DEF EndsInv, EndsCounted
<1>4. readers + writers > 0
  BY <1>1, <1>2, <1>3 DEF Sides
<1> QED BY <1>4, Zenon DEF EndsInv, EndsCounted

\* A count of zero means that nobody holds that end, a free slot that nobody does.
LEMMA ZeroIsNobody ==
  ASSUME EndsInv
  PROVE  /\ readers = 0 => Stream!Nobody("r")
         /\ writers = 0 => Stream!Nobody("w")
         /\ ~inUse => Stream!Nobody("r") /\ Stream!Nobody("w")
<1>1. readers = 0 => Stream!Nobody("r")
  BY HoldersFacts DEF EndsInv, EndsCounted, Holders, Stream!Nobody
<1>2. writers = 0 => Stream!Nobody("w")
  BY HoldersFacts DEF EndsInv, EndsCounted, Holders, Stream!Nobody
<1>3. ~inUse => Stream!Nobody("r") /\ Stream!Nobody("w")
  BY Held DEF Stream!Nobody
<1> QED BY <1>1, <1>2, <1>3

\* A step that leaves the ring, the ends and the calls.
LEMMA Stutter ==
  ASSUME UNCHANGED <<ring, inUse, ends, call>>
  PROVE  StreamStep
  BY DEF StreamStep, Stream!vars, ring, Content

\* A pipe is in use as long as somebody holds an end, here and one step on.
Live == inUse <=> \E b \in Actors : ends[b] # {}

\* A pipe in use is held.
LEMMA InUseIsHeld == EndsInv => Live
<1> SUFFICES ASSUME EndsInv PROVE Live
  OBVIOUS
<1>1. ASSUME NEW b \in Actors, ends[b] # {} PROVE inUse
  BY <1>1, Held
<1>2. ASSUME inUse PROVE \E b \in Actors : ends[b] # {}
  <2>1. ~Stream!Nobody("r") \/ ~Stream!Nobody("w")
    <3>1. readers + writers > 0
      BY <1>2, Zenon DEF EndsInv, EndsCounted
    <3>2. /\ Stream!Nobody("r") => Holders("r") = {}
          /\ Stream!Nobody("w") => Holders("w") = {}
      BY DEF Holders, Stream!Nobody
    <3> QED BY <3>1, <3>2, HoldersFacts DEF EndsInv, EndsCounted
  <2> QED BY <2>1 DEF Stream!Nobody
<1> QED BY <1>1, <1>2 DEF Live

\* And in the next state.
LEMMA InUseIsHeldNext == EndsInv' => Live'
  BY InUseIsHeld, PTL

\* A call begins for who holds the end.
LEMMA StartMaps ==
  ASSUME IInv, PlacesInv, NEW p \in Pids, StartRead(p) \/ StartWrite(p)
  PROVE  StreamStep
<1>1. /\ At(p, "idle") /\ p \in Actors
      /\ UNCHANGED <<ring, inUse, ends>>
  BY ActorFacts DEF StartRead, StartWrite, slots
<1>2. call[p] = NoCall
  <2>1. onCpu[p] /\ Place(p) = "idle"
    BY <1>1, AtPlace, PidRuns DEF At, WakerPcs
  <2> QED BY <2>1, NotTorn
<1>3. UNCHANGED (IF inUse THEN Content ELSE <<>>)
  BY <1>1 DEF ring, Content
<1>4. Stream!Begin(p)
  BY <1>1, <1>2, <1>3, SizesAssumption
  DEF StartRead, StartWrite, Stream!Begin, NoCall, Stream!NoCall, Stream!Data
<1> QED BY <1>1, <1>4 DEF StreamStep, Stream!Next

\* A copy for a read takes the oldest bytes, or nothing when its buffer is gone.
LEMMA ReadCopyMaps ==
  ASSUME IInv, PlacesInv, NEW p \in Pids, ReadCopy(p)
  PROVE  StreamStep
<1>1. /\ At(p, "loop") /\ call[p].op = "read" /\ p \in Actors
      /\ UNCHANGED <<ends, inUse>>
  BY ActorFacts DEF ReadCopy, Looping
<1>2. call[p].end = "no" /\ call[p].want > 0 /\ "r" \in ends[p]
  BY <1>1, Working DEF CallPcs, InCall
<1>3. inUse /\ inUse'
  BY <1>1, <1>2, Held DEF IInv
<1> DEFINE n == ReadChunk(call[p].want)
<1>4. PICK done \in CopyOutcomes(p, n) :
        /\ Pop(done)
        /\ call' = [call EXCEPT ![p].want = @ - done, ![p].seq = @ \o Oldest(done),
                                ![p].end = IF done = call[p].want THEN "ok" ELSE "no"]
  BY DEF ReadCopy
<1>5. /\ n \in Nat /\ n <= call[p].want /\ n <= count /\ n <= Size - tail
      /\ call[p].want \in Nat /\ count \in Nat /\ tail \in 0..Size-1
      /\ call[p].seq \in Seq(Bytes)
  BY <1>1, ChunkBounds, SizeFacts DEF IInv, CallInv, RingInv
<1> HIDE DEF n
<1>6. done \in Nat /\ done <= call[p].want /\ done <= count /\ done <= Size - tail
  <2>1. done \in Nat /\ done <= n
    BY <1>5, CopyBounds
  <2> QED BY <2>1, <1>5, SizeFacts
<1>7. Oldest(done) = SubSeq(Content, 1, done) /\ Content' = SubSeq(Content, done + 1, count)
  BY <1>4, <1>6, OldestOfContent, PopContent DEF IInv
<1>8. Len(Content) = count /\ Content \in Seq(Bytes)
  BY ContentType DEF IInv
<1>9. CASE done = 0
  <2>1. Oldest(done) = <<>>
    BY <1>7, <1>9, SubSeqEmpty
  <2>2. call[p].want - done = call[p].want /\ call[p].seq \o Oldest(done) = call[p].seq
    BY <1>5, <1>9, <2>1, ConcatEmptySeq
  <2>3. done # call[p].want
    BY <1>2, <1>5, <1>9
  <2>4. call' = [call EXCEPT ![p].want = call[p].want - done,
                             ![p].seq = call[p].seq \o Oldest(done), ![p].end = "no"]
    BY <1>1, <1>4, <2>3 DEF IInv, CallInv
  <2>5. call' = [call EXCEPT ![p] =
          [call[p] EXCEPT !.want = call[p].want, !.seq = call[p].seq, !.end = call[p].end]]
    BY <1>1, <1>2, <2>2, <2>4, CallAfter DEF IInv
  <2>6. call' = call
    BY <1>1, <2>5 DEF IInv, CallInv
  <2>7. /\ 0 \in 0..Size /\ (tail + 0) % Size = Moved(tail, 0) /\ Moved(tail, 0) = tail
        /\ count - 0 = count
    BY <1>5, SizeFacts, OffsetMoves DEF Moved
  <2>8. UNCHANGED ring
    BY <1>4, <1>9, <2>7 DEF Pop, ring
  <2> QED BY <1>1, <2>6, <2>8, Stutter
<1>10. CASE done # 0
  <2>1. done \in 1..count
    BY <1>5, <1>6, <1>10
  <2>2. /\ done \in 1..Len(Content)
        /\ call' = [call EXCEPT ![p].want = @ - done,
                                ![p].seq = @ \o SubSeq(Content, 1, done),
                                ![p].end = IF done = call[p].want THEN "ok" ELSE "no"]
        /\ Content' = SubSeq(Content, done + 1, Len(Content))
    BY <1>4, <1>7, <1>8, <2>1
  <2>3. Stream!Take(p)
    BY <1>1, <1>2, <1>3, <1>6, <2>2 DEF Stream!Take, Stream!Pending
  <2> QED BY <1>1, <2>3 DEF StreamStep, Stream!Next
<1> QED BY <1>9, <1>10

\* A copy for a write appends its first bytes, or none when its buffer is gone.
LEMMA WriteCopyMaps ==
  ASSUME IInv, PlacesInv, NEW p \in Pids, WriteCopy(p)
  PROVE  StreamStep
<1> DEFINE sq == call[p].seq
           n == WriteChunk(Len(sq))
<1>1. /\ At(p, "loop") /\ call[p].op = "write" /\ p \in Actors
      /\ UNCHANGED <<ends, inUse>>
  BY ActorFacts DEF WriteCopy, Looping
<1>2. call[p].end = "no" /\ sq # <<>> /\ "w" \in ends[p]
  BY <1>1, Working DEF CallPcs, InCall
<1>3. inUse /\ inUse'
  BY <1>1, <1>2, Held DEF IInv
<1>4. PICK done \in CopyOutcomes(p, n) :
        /\ Push(SubSeq(sq, 1, done))
        /\ call' = [call EXCEPT ![p].seq = SubSeq(@, done + 1, Len(sq)),
                                ![p].end = IF done = Len(sq) THEN "ok" ELSE "no"]
  BY DEF WriteCopy
<1>5. sq \in Seq(Bytes) /\ Len(sq) \in Nat /\ count \in Nat /\ head \in 0..Size-1
  BY <1>1, SizeFacts DEF IInv, CallInv, RingInv
<1>6. n \in Nat /\ n <= Len(sq) /\ n <= Size - count /\ n <= Size - head
  BY <1>5, ChunkBounds DEF IInv
<1>7. done \in Nat /\ done <= Len(sq) /\ done <= Size - count /\ done <= Size - head
  <2> HIDE DEF n, sq
  <2>1. done \in Nat /\ done <= n
    BY <1>6, CopyBounds
  <2> QED BY <2>1, <1>5, <1>6, SizeFacts
<1>8. /\ SubSeq(sq, 1, done) \in Seq(Bytes) /\ Len(SubSeq(sq, 1, done)) = done
      /\ SubSeq(sq, done + 1, Len(sq)) \in Seq(Bytes)
      /\ Len(SubSeq(sq, done + 1, Len(sq))) = Len(sq) - done
  BY <1>5, <1>7, Split
<1>9. Content' = Content \o SubSeq(sq, 1, done)
  BY <1>4, <1>7, <1>8, PushContent DEF IInv
<1>10. Len(Content) = count /\ Content \in Seq(Bytes)
  BY ContentType DEF IInv
<1>11. (SubSeq(sq, done + 1, Len(sq)) = <<>>) = (done = Len(sq))
  <2>1. (SubSeq(sq, done + 1, Len(sq)) = <<>>) = (Len(sq) - done = 0)
    BY <1>8, EmptySeq
  <2> QED BY <1>5, <1>7, <2>1
<1>12. CASE done = 0
  <2>1. Content' = Content
    BY <1>9, <1>10, <1>12, SubSeqEmpty, ConcatEmptySeq
  <2>2. SubSeq(sq, done + 1, Len(sq)) = sq
    BY <1>5, <1>12
  <2>3. done # Len(sq)
    BY <1>2, <1>5, <1>12, EmptySeq
  <2>4. call' = [call EXCEPT ![p] = [call[p] EXCEPT !.seq = sq, !.end = call[p].end]]
    BY <1>1, <1>2, <1>4, <2>2, <2>3, CallAfter DEF IInv, CallInv
  <2>5. call' = call
    BY <1>1, <2>4 DEF IInv, CallInv
  <2> QED BY <1>1, <2>1, <2>5 DEF StreamStep, Stream!vars
<1>13. CASE done # 0
  <2>1. done \in 1..Len(sq) /\ Len(Content) + done <= Size
    <3> HIDE DEF sq
    <3> QED BY <1>5, <1>7, <1>10, <1>13, SizeFacts
  <2>2. call' = [call EXCEPT ![p].seq = SubSeq(sq, done + 1, Len(sq)),
                    ![p].end = IF SubSeq(sq, done + 1, Len(sq)) = <<>> THEN "ok" ELSE "no"]
    BY <1>1, <1>4, <1>11 DEF IInv, CallInv
  <2>3. Stream!Put(p)
    BY <1>1, <1>2, <1>3, <1>9, <2>1, <2>2 DEF Stream!Put, Stream!Pending
  <2> QED BY <1>1, <2>3 DEF StreamStep, Stream!Next
<1> QED BY <1>12, <1>13

\* The reasons for which a call may end without having moved all it wanted.
LEMMA FinishMaps ==
  ASSUME IInv, PlacesInv, NEW p \in Pids, NEW l \in CallPcs, At(p, l),
         NEW why, End(p, why), UNCHANGED <<ring, inUse, ends>>,
         \/ why \in {"signal", "fault"}
         \/ call[p].op = "write" /\ why = "epipe" /\ readers = 0
         \/ /\ call[p].op = "read" /\ count = 0
            /\ \/ why = "eof" /\ writers = 0
               \/ why = "short" /\ call[p].seq # <<>>
  PROVE  StreamStep
<1>1. call[p].end = "no" /\ call[p].op \in {"read", "write"} /\ p \in Actors
  BY Working, ActorFacts DEF InCall
<1>2. UNCHANGED (IF inUse THEN Content ELSE <<>>)
  BY DEF ring, Content
<1>3. count = 0 => (IF inUse THEN Content ELSE <<>>) = <<>>
  BY ContentType DEF IInv
<1>4. (readers = 0 => Stream!Nobody("r")) /\ (writers = 0 => Stream!Nobody("w"))
  BY ZeroIsNobody DEF IInv
<1>5. Stream!Finish(p)
  BY <1>1, <1>2, <1>3, <1>4 DEF End, Stream!Finish
<1> QED BY <1>1, <1>5 DEF StreamStep, Stream!Next

\* A call returns, or its caller is dead.
LEMMA ReturnMaps ==
  ASSUME NEW p \in Actors, call' = [call EXCEPT ![p] = NoCall],
         UNCHANGED <<ring, inUse, ends>>
  PROVE  StreamStep
<1>1. UNCHANGED (IF inUse THEN Content ELSE <<>>)
  BY DEF ring, Content
<1>2. Stream!Return(p)
  BY <1>1 DEF Stream!Return, NoCall, Stream!NoCall
<1> QED BY <1>2 DEF StreamStep, Stream!Next

\* Every step of a call.
LEMMA CallStepMaps ==
  ASSUME IInv, PlacesInv, NEW p \in Pids, CallStep(p)
  PROVE  StreamStep
<1>l. {"loop", "unreg", "fault"} \subseteq CallPcs
  BY DEF CallPcs
<1> USE DEF slots, callVars, ring
<1>1. CASE ReadCopy(p)
  BY <1>1, ReadCopyMaps
<1>2. CASE WriteCopy(p)
  BY <1>2, WriteCopyMaps
<1>3. CASE ReadEmpty(p)
  <2>1. /\ At(p, "loop") /\ call[p].op = "read" /\ count = 0
        /\ UNCHANGED <<ring, inUse, ends>>
    BY <1>3 DEF ReadEmpty, Looping
  <2>2. CASE writers = 0 \/ call[p].seq # <<>>
    <3>1. End(p, IF writers = 0 /\ call[p].seq = <<>> THEN "eof" ELSE "short")
      BY <1>3, <2>2 DEF ReadEmpty
    <3>2. \/ End(p, "eof") /\ writers = 0
          \/ End(p, "short") /\ call[p].seq # <<>>
      BY <2>2, <3>1
    <3> QED BY <2>1, <3>2, <1>l, FinishMaps
  <2>3. CASE ~(writers = 0 \/ call[p].seq # <<>>)
    <3>1. UNCHANGED call
      BY <1>3, <2>3 DEF ReadEmpty
    <3> QED BY <2>1, <3>1, Stutter
  <2> QED BY <2>2, <2>3
<1>4. CASE WriteBroken(p)
  <2>1. /\ At(p, "loop") /\ call[p].op = "write" /\ readers = 0 /\ End(p, "epipe")
        /\ UNCHANGED <<ring, inUse, ends>>
    BY <1>4 DEF WriteBroken, Looping
  <2> QED BY <2>1, <1>l, FinishMaps
<1>5. CASE Resolve(p)
  <2>1. /\ At(p, "fault") /\ UNCHANGED <<ring, inUse, ends>>
        /\ UNCHANGED call \/ End(p, "fault")
    BY <1>5 DEF Resolve
  <2> QED BY <2>1, <1>l, FinishMaps, Stutter
<1>6. CASE Unregister(p)
  <2>1. At(p, "unreg") /\ End(p, "signal") /\ UNCHANGED <<ring, inUse, ends>>
    BY <1>6 DEF Unregister
  <2> QED BY <2>1, <1>l, FinishMaps
<1>7. CASE Return(p)
  <2>1. call' = [call EXCEPT ![p] = NoCall] /\ UNCHANGED <<ring, inUse, ends>>
    BY <1>7 DEF Return
  <2> QED BY <2>1, ActorFacts, ReturnMaps
<1>8. CASE WriteFull(p) \/ PreSignal(p) \/ Blocking(p) \/ PostSignal(p)
  BY <1>8, Stutter DEF WriteFull, PreSignal, Blocking, PostSignal
<1> QED BY <1>1, <1>2, <1>3, <1>4, <1>5, <1>6, <1>7, <1>8 DEF CallStep

\* A close, by the holder or for it; the last one drops what nobody has read.
LEMMA CloseEndMaps ==
  ASSUME IInv, NEW a, NEW p \in Actors, NEW e \in ends[p], NEW l,
         CloseEnd(a, p, e, l), UNCHANGED <<ring, call>>
  PROVE  StreamStep
<1>1. e \in {"r", "w"} /\ inUse
  BY Held DEF IInv, EndsInv, Sides
<1>2. EndsInv'
  BY CloseEndKeepsEnds DEF IInv
<1>3. inUse' <=> \E b \in Actors : ends'[b] # {}
  BY <1>2, InUseIsHeldNext DEF Live
<1>4. (IF inUse THEN Content ELSE <<>>)' =
        IF \A b \in Actors : ends'[b] = {} THEN <<>> ELSE IF inUse THEN Content ELSE <<>>
  BY <1>1, <1>3 DEF ring, Content
<1>5. Stream!Close(p, e)
  BY <1>4 DEF CloseEnd, Stream!Close
<1> QED BY <1>1, <1>5 DEF StreamStep, Stream!Next

\* A teardown closes ends, and then the call of the dead is over.
LEMMA TearDownMaps ==
  ASSUME IInv, PlacesInv, NEW a \in Actors, TearDown(a)
  PROVE  StreamStep
<1>1. Dying(a) \in Actors
  BY ActorFacts DEF Dying, IInv, RestTyped
<1>2. CASE ends[Dying(a)] # {}
  <2>1. PICK e \in ends[Dying(a)] : CloseEnd(a, Dying(a), e, "teardown")
    BY <1>2 DEF TearDown
  <2>2. UNCHANGED <<ring, call>>
    BY <1>2 DEF TearDown, callVars
  <2> QED BY <1>1, <2>1, <2>2, CloseEndMaps
<1>3. CASE ends[Dying(a)] = {}
  <2>1. call' = [call EXCEPT ![Dying(a)] = NoCall] /\ UNCHANGED <<ring, inUse, ends>>
    BY <1>3 DEF TearDown, slots
  <2> QED BY <1>1, <2>1, ReturnMaps
<1> QED BY <1>2, <1>3

\* A read that never waits takes the oldest bytes.
LEMMA TryReadMaps ==
  ASSUME IInv, PlacesInv, NEW a \in Actors, TryRead(a)
  PROVE  StreamStep
<1>1. PICK k \in 1..count : Pop(k)
  BY DEF TryRead
<1>2. "r" \in ends[a] /\ UNCHANGED <<ends, call, inUse>>
  BY DEF TryRead, callVars
<1>3. inUse /\ inUse'
  BY <1>2, Held DEF IInv
<1>4. count \in Nat /\ k \in Nat /\ k <= count
  BY SizeFacts DEF IInv, RingInv
<1>5. Content' = SubSeq(Content, k + 1, count) /\ Len(Content) = count
  BY <1>1, <1>4, PopContent, ContentType DEF IInv
<1>6. Stream!TryTake(a)
  BY <1>2, <1>3, <1>5 DEF Stream!TryTake
<1> QED BY <1>6 DEF StreamStep, Stream!Next

\* What fits of a write that never waits is appended, or nothing does.
LEMMA TryPushMaps ==
  ASSUME IInv, PlacesInv, NEW a \in Actors, TryPush(a)
  PROVE  StreamStep
<1>1. PICK d \in Payloads : Wrapped(SubSeq(d, 1, Least({Len(d), Size - count})))
  BY DEF TryPush
<1>2. "w" \in ends[a] /\ UNCHANGED <<ends, call, inUse>>
  BY OnlyDesktopTries DEF TryPush, callVars, PlacesInv, KillerPlaced
<1>3. inUse /\ inUse'
  BY <1>2, Held DEF IInv
<1> DEFINE n == Least({Len(d), Size - count})
           s == SubSeq(d, 1, n)
<1>4. d \in Seq(Bytes) /\ Len(d) \in Nat /\ Len(d) <= MaxLen
  BY SizesAssumption
<1>5. n \in Nat /\ n <= Len(d) /\ n <= Size - count
  <2>1. Size - count \in Nat
    BY SizeFacts DEF IInv, RingInv
  <2> QED BY <1>4, <2>1, LeastOfTwo
<1> HIDE DEF n
<1>6. s \in Seq(Bytes) /\ Len(s) = n
  BY <1>4, <1>5, Split
<1>7. Content' = Content \o s
  BY <1>1, <1>5, <1>6, WrappedContent DEF IInv, n
<1>8. Len(Content) = count /\ Content \in Seq(Bytes) /\ count \in Nat
  BY ContentType, SizeFacts DEF IInv, RingInv
<1>9. CASE n = 0
  <2>1. s = <<>>
    BY <1>6, <1>9, EmptySeq
  <2>2. Content' = Content
    BY <1>7, <1>8, <2>1, ConcatEmptySeq
  <2> QED BY <1>2, <2>2 DEF StreamStep, Stream!vars
<1>10. CASE n # 0
  <2>1. s \in Stream!Data
    <3>1. n \in 1..MaxLen
      BY <1>4, <1>5, <1>10, SizeFacts
    <3>2. s \in [1..n -> Bytes]
      BY <1>6, LenProperties
    <3> HIDE DEF s
    <3> QED BY <3>1, <3>2 DEF Stream!Data
  <2>2. Len(Content) + Len(s) <= Size
    <3> HIDE DEF s
    <3> QED BY <1>5, <1>6, <1>8, SizeFacts
  <2>3. Stream!TryPut(a)
    <3> HIDE DEF s
    <3> QED BY <1>2, <1>3, <1>7, <2>1, <2>2 DEF Stream!TryPut
  <2> QED BY <2>3 DEF StreamStep, Stream!Next
<1> QED BY <1>9, <1>10

\* A new pipe is made when nobody holds the last one.
LEMMA AllocMaps ==
  ASSUME IInv, NEW a \in Actors, Alloc(a)
  PROVE  StreamStep
<1>1. /\ ~inUse /\ inUse' /\ count' = 0 /\ UNCHANGED call
      /\ ends' = [ends EXCEPT ![a] = {"r", "w"}]
  BY DEF Alloc, callVars, Sides
<1>2. RingInv'
  BY SizeFacts DEF Alloc, IInv, RingInv
<1>3. Content' = <<>>
  BY <1>1, <1>2, ContentTypeNext
<1>4. Stream!Create(a)
  BY <1>1, <1>3, ZeroIsNobody DEF IInv, Stream!Create
<1> QED BY <1>4 DEF StreamStep, Stream!Next

\* An end is given on.
LEMMA InheritMaps ==
  ASSUME NEW a \in Actors, NEW p \in Pids, NEW e \in Sides, Inherit(a, p, e)
  PROVE  StreamStep
<1>1. p \in Actors /\ e \in {"r", "w"} /\ UNCHANGED <<ring, inUse, call>>
  BY ActorFacts DEF Inherit, callVars, Sides
<1>2. UNCHANGED (IF inUse THEN Content ELSE <<>>)
  BY <1>1 DEF ring, Content
<1>3. Stream!Inherit(a, p, e)
  BY <1>1, <1>2 DEF Inherit, Stream!Inherit
<1> QED BY <1>1, <1>3 DEF StreamStep, Stream!Next
-----------------------------------------------------------------------------
\* Every step maps to a step of the queue, or to none.
LEMMA NextMaps == IInv /\ PlacesInv /\ [Next]_vars => StreamStep
<1> SUFFICES ASSUME IInv, PlacesInv, [Next]_vars PROVE StreamStep
  OBVIOUS
<1> USE DEF slots, callVars
<1>1. ASSUME NEW a \in Actors, Waking(a) PROVE StreamStep
  BY <1>1, Stutter DEF Waking
<1>2. ASSUME NEW p \in Pids, TaskStep(p) PROVE StreamStep
  <2>1. CASE Exit(p)
    BY <2>1, Stutter DEF Exit
  <2> QED BY <1>1, <1>2, <2>1, ActorFacts, CallStepMaps, TryPushMaps, TearDownMaps
          DEF TaskStep
<1>3. ASSUME NEW a \in Actors, NEW e \in Sides, Close(a, e) PROVE StreamStep
  <2>1. e \in ends[a] /\ CloseEnd(a, a, e, "idle") /\ UNCHANGED <<ring, call>>
    BY <1>3 DEF Close
  <2> QED BY <2>1, CloseEndMaps
<1>4. ASSUME NEW a \in Actors, TryWrite(a) PROVE StreamStep
  BY <1>4, Stutter DEF TryWrite
<1>5. ASSUME NEW a \in Actors, Choice(a) PROVE StreamStep
  BY <1>3, <1>4, <1>5, TryReadMaps, AllocMaps, InheritMaps DEF Choice
<1>6. CASE KillerStep
  BY <1>1, <1>6, ActorFacts, TryPushMaps, TearDownMaps DEF KillerStep
<1>7. ASSUME NEW p \in Pids,
             \/ DispatchTask(p) \/ PreemptTask(p) \/ Send(p) \/ Deliver(p)
             \/ RequestKill(p) \/ KillOffCpu(p) \/ SelfDestroy(p)
      PROVE  StreamStep
  BY <1>7, Stutter DEF DispatchTask, PreemptTask, Send, Deliver, RequestKill, KillOffCpu,
     SelfDestroy
<1>8. CASE UNCHANGED vars
  BY <1>8, Stutter DEF vars
<1> QED BY <1>2, <1>5, <1>6, <1>7, <1>8, StartMaps DEF Next

\* The initial pipe, which nobody has made, is an empty queue.
LEMMA InitMaps == Init => Stream!Init
  BY DEF Init, Stream!Init, NoCall, Stream!NoCall

\* Whatever the ring, the wait slots, page faults, signals and kills do, the
\* callers of pipe.zig see one queue of bytes: nothing is lost, doubled or
\* swapped, a read ends with end of file only where nobody is left to write,
\* and a write with a broken pipe only where nobody is left to read.
THEOREM ImplementsByteStream == Spec => IsByteStream
<1>1. IInv /\ PlacesInv /\ [Next]_vars => [Stream!Next]_(Stream!vars)
  BY NextMaps DEF StreamStep
<1> QED BY <1>1, InitMaps, PlacesHold, PTL DEF Spec, IsByteStream, Stream!Spec
-----------------------------------------------------------------------------
(* No wake-up is lost to who has its side of the pipe to itself.            *)

\* The places of a wait: before the caller may be asleep at its yield, and after.
Early   == {"presig", "test", "enroll", "sleep", "recheck"}
Late    == {"yield", "resume"}
WaitPcs == Early \cup Late

\* The wake() that a is inside of will still take effect on p.  Before the yield
\* only its first store counts; after it, the other two, in their order.
Attends(a, p) ==
  /\ idx[a] = p
  /\ \/ pc[a] = "pend"
     \/ pc[a] = "clear" /\ pc[p] \in Late
     \/ pc[a] = "makeReady" /\ pc[p] \in Late /\ wait[p] = "none"

\* p goes on: it will see its pending wake, it can be dispatched, or is attended.
Woken(p) ==
  \/ pc[p] \in Early /\ wakePending[p]
  \/ pc[p] \in Late /\ state[p] # "sleeping" /\ wait[p] = "none"
  \/ \E a \in Actors : Attends(a, p)

\* p is in the wait slot of its side, and has nothing to go on with.
Waits(p) ==
  \/ call[p].op = "read" /\ blockedReader = p /\ count = 0 /\ writers > 0
  \/ call[p].op = "write" /\ blockedWriter = p /\ count = Size /\ readers > 0

\* Nobody else may make the calls that p is in: there is one wait slot per side,
\* and a second reader that parks displaces the first.
Alone(p) == IF call[p].op = "read" THEN MayRead \subseteq {p} ELSE MayWrite \subseteq {p}

\* Who waits alone is registered or goes on, and whoever waits goes on when it has a
\* signal to take that it has not looked for.
Awaits(p) ==
  p \notin torn /\ pc[p] \in WaitPcs =>
    /\ Alone(p) => Woken(p) \/ Waits(p)
    /\ p \in sig /\ pc[p] # "presig" => Woken(p)

\* Calls are made by who may, and no wake() goes on with a wait.
Orderly ==
  /\ \A a \in Actors : /\ call[a].op = "read" => a \in MayRead
                       /\ call[a].op = "write" => a \in MayWrite
                       /\ after[a] \notin WaitPcs

\* The invariant this section adds.
WakeInv == Orderly /\ \A p \in Pids : Awaits(p)

\* A parked caller that has a signal to take, or that could go on and has its side to
\* itself, has a wake() on its way.
Attended ==
  \A p \in Pids : Parked(p) /\ ((Ready(p) /\ Alone(p)) \/ p \in sig) => Coming(p)

\* Each side has one process.
OneEach == /\ \A p, q \in MayRead : p = q
           /\ \A p, q \in MayWrite : p = q
-----------------------------------------------------------------------------
\* Nothing happens to p, nor to any wake() under way.
Untouched(p) ==
  /\ \A a \in Actors : pc[a] \in WakerPcs => pc'[a] = pc[a] /\ idx'[a] = idx[a]
  /\ pc'[p] = pc[p] /\ state'[p] = state[p] /\ wait'[p] = wait[p]
  /\ wakePending'[p] = wakePending[p]

\* Who goes on still does.
LEMMA StaysWoken ==
  ASSUME NEW p \in Pids, Untouched(p), Woken(p)
  PROVE  Woken(p)'
<1>1. ASSUME NEW a \in Actors, Attends(a, p) PROVE Attends(a, p)'
  BY <1>1 DEF Attends, Untouched, WakerPcs
<1> HIDE DEF Attends
<1> QED BY <1>1 DEF Woken, Untouched

\* A section that takes p out of its slot wakes it.
LEMMA Wakes ==
  ASSUME PcTyped, NEW a \in Actors, NEW p \in Pids, NEW l, WakeThen(a, p, l)
  PROVE  Woken(p)'
<1>1. pc' = [pc EXCEPT ![a] = "pend"] /\ idx' = [idx EXCEPT ![a] = p]
  <2>1. p # NoPid
    BY DEF Pids, NoPid
  <2> QED BY <2>1 DEF WakeThen, Go
<1>2. Attends(a, p)'
  BY <1>1 DEF PcTyped, Attends
<1> QED BY <1>2 DEF Woken

\* A step of b, which is inside no wake(), as the others see it.
Steps(b) ==
  /\ pc[b] \notin WakerPcs
  /\ \A a \in Actors \ {b} : pc'[a] = pc[a] /\ idx'[a] = idx[a]

\* A section that wakes somebody, or nobody.
LEMMA WakeThenSteps ==
  ASSUME PcTyped, NEW b \in Actors, pc[b] \notin WakerPcs, NEW w, NEW l,
         WakeThen(b, w, l)
  PROVE  Steps(b)
  BY DEF PcTyped, WakeThen, Go, Steps

\* Who has its side to itself still has.
LEMMA SameAlone ==
  ASSUME NEW p \in Pids, call'[p] = call[p]
  PROVE  Alone(p)' <=> Alone(p)
  BY DEF Alone

\* Whoever waits while b takes a step is still registered, or is woken.
LEMMA OthersAwait ==
  ASSUME WakeInv, NEW b \in Actors, Steps(b), torn \subseteq torn', sig' \subseteq sig,
         NEW p \in Pids \ {b}, call'[p] = call[p] \/ p \in torn,
         state'[p] = state[p], wait'[p] = wait[p], wakePending'[p] = wakePending[p],
         p \notin torn /\ pc[p] \in WaitPcs /\ Alone(p) /\ Waits(p) => Waits(p)' \/ Woken(p)'
  PROVE  Awaits(p)'
<1>1. Untouched(p)
  BY ActorFacts DEF Steps, Untouched
<1>2. Woken(p) => Woken(p)'
  BY <1>1, StaysWoken
<1>3. Awaits(p) /\ pc'[p] = pc[p]
  BY <1>1 DEF WakeInv, Untouched
<1>4. p \in torn \/ (Alone(p)' <=> Alone(p))
  BY SameAlone
<1> HIDE DEF Woken, Waits, Alone
<1> QED BY <1>2, <1>3, <1>4 DEF Awaits

\* Waiting is about the call, the slots, the count and the ends.
LEMMA SameWaits ==
  ASSUME NEW p \in Pids, call'[p] = call[p],
         UNCHANGED <<count, readers, writers, blockedReader, blockedWriter>>
  PROVE  Waits(p) => Waits(p)'
  BY DEF Waits

\* Who waits holds its end of a pipe that is in use.
LEMMA WaiterHolds ==
  ASSUME IInv, PlacesInv, NEW p \in Pids, p \notin torn, pc[p] \in WaitPcs
  PROVE  inUse /\ InCall(p)
<1>1. Place(p) = pc[p] /\ pc[p] \in CallPcs
  BY DEF Place, WaitPcs, Early, Late, WakerPcs, CallPcs, BlockPcs
<1>2. InCall(p)
  BY <1>1 DEF PlacesInv, Placed
<1>3. inUse
  BY <1>2, Held, ActorFacts DEF InCall, IInv
<1> QED BY <1>2, <1>3

\* The counts of ends are numbers.
LEMMA CountsAreNumbers ==
  ASSUME EndsInv
  PROVE  readers \in Nat /\ writers \in Nat
<1>1. readers \in 0..N+1 /\ writers \in 0..N+1
  BY HoldersFacts DEF EndsInv, EndsCounted
<1> QED BY <1>1, NAssumption
-----------------------------------------------------------------------------
\* A read that copies wakes the writer it made room for.
LEMMA ReadCopyAwaits ==
  ASSUME IInv, WakeInv, NEW b \in Pids, ReadCopy(b), NEW p \in Pids
  PROVE  Awaits(p)'
<1>1. /\ At(b, "loop") /\ count > 0 /\ b \in Actors /\ "loop" \notin WakerPcs
      /\ UNCHANGED <<state, wait, wakePending, readers, writers, blockedReader, torn, sig>>
  BY ActorFacts DEF ReadCopy, Looping, taskVars, killVars, WakerPcs
<1> DEFINE n == ReadChunk(call[b].want)
           L(d) == IF d = call[b].want THEN "done" ELSE IF d < n THEN "fault" ELSE "loop"
<1>2. PICK done \in CopyOutcomes(b, n) :
        /\ Pop(done)
        /\ blockedWriter' = IF done > 0 THEN NoPid ELSE blockedWriter
        /\ WakeThen(b, IF done > 0 THEN blockedWriter ELSE NoPid, L(done))
  BY DEF ReadCopy
<1>3. L(done) \in {"done", "fault", "loop"}
  OBVIOUS
<1>4. done \in Nat
  <2>1. n \in Nat
    BY ActorFacts, ChunkBounds, SizeFacts DEF IInv, CallInv
  <2> QED BY <2>1, CopyBounds
<1> HIDE DEF L, n
<1>5. Steps(b)
  BY <1>1, <1>2, WakeThenSteps DEF IInv, At
<1>6. CASE p = b
  <2>1. pc'[b] \in {"pend", "done", "fault", "loop"}
    BY <1>1, <1>2, <1>3 DEF WakeThen, Go, IInv, PcTyped
  <2> QED BY <1>6, <2>1 DEF Awaits, WaitPcs, Early, Late
<1>7. CASE p # b
  <2>1. call'[p] = call[p]
    BY <1>7, ActorFacts DEF ReadCopy, IInv, CallInv
  <2>2. Waits(p) => call[p].op = "write" /\ blockedWriter = p /\ count = Size /\ readers > 0
    BY <1>1 DEF Waits
  <2>3. CASE done = 0
    <3>1. count' = count /\ blockedWriter' = blockedWriter
      BY <1>2, <2>3, SizeFacts DEF Pop, IInv, RingInv
    <3> QED BY <1>1, <1>5, <1>7, <2>1, <3>1, SameWaits, OthersAwait
  <2>4. CASE done # 0
    <3>1. WakeThen(b, blockedWriter, L(done))
      BY <1>2, <1>4, <2>4
    <3>2. Waits(p) => Woken(p)'
      BY <1>1, <2>2, <3>1, Wakes DEF IInv
    <3> QED BY <1>1, <1>5, <1>7, <2>1, <3>2, OthersAwait
  <2> QED BY <2>3, <2>4
<1> QED BY <1>6, <1>7

\* A write that copies wakes the reader it has bytes for.
LEMMA WriteCopyAwaits ==
  ASSUME IInv, WakeInv, NEW b \in Pids, WriteCopy(b), NEW p \in Pids
  PROVE  Awaits(p)'
<1>1. /\ At(b, "loop") /\ count < Size /\ b \in Actors /\ "loop" \notin WakerPcs
      /\ UNCHANGED <<state, wait, wakePending, readers, writers, blockedWriter, torn, sig>>
  BY ActorFacts DEF WriteCopy, Looping, taskVars, killVars, WakerPcs
<1> DEFINE sq == call[b].seq
           n == WriteChunk(Len(sq))
           L(d) == IF d = Len(sq) THEN "done" ELSE IF d < n THEN "fault" ELSE "loop"
<1>2. PICK done \in CopyOutcomes(b, n) :
        /\ Push(SubSeq(sq, 1, done))
        /\ blockedReader' = IF done > 0 THEN NoPid ELSE blockedReader
        /\ WakeThen(b, IF done > 0 THEN blockedReader ELSE NoPid, L(done))
  BY DEF WriteCopy
<1>3. L(done) \in {"done", "fault", "loop"}
  OBVIOUS
<1>4. sq \in Seq(Bytes) /\ Len(sq) \in Nat
  BY ActorFacts DEF IInv, CallInv
<1>n. n \in Nat /\ n <= Len(sq)
  BY <1>4, ChunkBounds DEF IInv
<1> HIDE DEF L, n, sq
<1>d. done \in Nat /\ done <= n
  BY <1>n, CopyBounds
<1>5. Steps(b)
  BY <1>1, <1>2, WakeThenSteps DEF IInv, At
<1>6. CASE p = b
  <2>1. pc'[b] \in {"pend", "done", "fault", "loop"}
    BY <1>1, <1>2, <1>3 DEF WakeThen, Go, IInv, PcTyped
  <2> QED BY <1>6, <2>1 DEF Awaits, WaitPcs, Early, Late
<1>7. CASE p # b
  <2>1. call'[p] = call[p]
    BY <1>7, ActorFacts DEF WriteCopy, IInv, CallInv
  <2>2. Waits(p) => call[p].op = "read" /\ blockedReader = p /\ count = 0 /\ writers > 0
    BY <1>1, SizeFacts DEF Waits, IInv, RingInv
  <2>3. CASE done = 0
    <3>1. Len(SubSeq(sq, 1, done)) = 0
      BY <1>4, <2>3, Split
    <3>2. count' = count /\ blockedReader' = blockedReader
      BY <1>2, <2>3, <3>1, SizeFacts DEF Push, IInv, RingInv
    <3> QED BY <1>1, <1>5, <1>7, <2>1, <3>2, SameWaits, OthersAwait
  <2>4. CASE done # 0
    <3>1. WakeThen(b, blockedReader, L(done))
      BY <1>2, <1>d, <2>4
    <3>2. Waits(p) => Woken(p)'
      BY <1>1, <2>2, <3>1, Wakes DEF IInv
    <3> QED BY <1>1, <1>5, <1>7, <2>1, <3>2, OthersAwait
  <2> QED BY <2>3, <2>4
<1> QED BY <1>6, <1>7
-----------------------------------------------------------------------------
\* Whoever is beside a step of b that leaves the slots, the ends and the count.
LEMMA BesideAwait ==
  ASSUME WakeInv, NEW b \in Actors, Steps(b), torn \subseteq torn', sig' \subseteq sig,
         UNCHANGED <<count, readers, writers, blockedReader, blockedWriter>>,
         NEW p \in Pids \ {b}, call'[p] = call[p] \/ p \in torn,
         state'[p] = state[p], wait'[p] = wait[p], wakePending'[p] = wakePending[p]
  PROVE  Awaits(p)'
<1>1. p \notin torn => (Waits(p) => Waits(p)')
  BY SameWaits
<1> QED BY <1>1, OthersAwait

\* A step of b from one place to another, waking nobody.
LEMMA GoSteps ==
  ASSUME PcTyped, NEW b \in Actors, pc[b] \notin WakerPcs, NEW l, Go(b, l),
         UNCHANGED idx
  PROVE  Steps(b) /\ pc'[b] = l
  BY DEF PcTyped, Go, Steps

\* Who is at no place of a wait awaits nothing.
LEMMA OutOfWait ==
  ASSUME NEW p, pc'[p] \notin WaitPcs
  PROVE  Awaits(p)'
  BY DEF Awaits

\* An empty pipe: the reader takes the slot, which nobody else can be in.
LEMMA ReadEmptyAwaits ==
  ASSUME IInv, PlacesInv, WakeInv, NEW b \in Pids, ReadEmpty(b), NEW p \in Pids
  PROVE  Awaits(p)'
<1>1. /\ At(b, "loop") /\ call[b].op = "read" /\ count = 0 /\ b \in Actors
      /\ UNCHANGED <<state, wait, wakePending, readers, writers, blockedWriter, torn, sig,
                     count, idx>>
  BY ActorFacts DEF ReadEmpty, Looping, taskVars, killVars, ring
<1>2. b \in MayRead
  BY <1>1 DEF WakeInv, Orderly
<1>3. CASE writers = 0 \/ call[b].seq # <<>>
  <2>1. Go(b, "done") /\ UNCHANGED blockedReader
    BY <1>3 DEF ReadEmpty
  <2>2. Steps(b) /\ pc'[b] = "done"
    BY <1>1, <2>1, GoSteps DEF IInv, At, WakerPcs
  <2>3. CASE p = b
    BY <2>2, <2>3, OutOfWait DEF WaitPcs, Early, Late
  <2>4. CASE p # b
    <3>1. call'[p] = call[p]
      BY <1>3, <2>4, ActorFacts DEF ReadEmpty, End, IInv, CallInv
    <3> QED BY <1>1, <2>1, <2>2, <2>4, <3>1, BesideAwait
  <2> QED BY <2>3, <2>4
<1>4. CASE ~(writers = 0 \/ call[b].seq # <<>>)
  <2>1. Go(b, "presig") /\ blockedReader' = b /\ UNCHANGED call
    BY <1>4 DEF ReadEmpty
  <2>2. Steps(b) /\ pc'[b] = "presig"
    BY <1>1, <2>1, GoSteps DEF IInv, At, WakerPcs
  <2>3. CASE p = b
    <3>1. writers > 0
      BY <1>4, CountsAreNumbers DEF IInv
    <3>2. Waits(b)'
      BY <1>1, <2>1, <3>1 DEF Waits
    <3> QED BY <2>2, <2>3, <3>2 DEF Awaits
  <2>4. CASE p # b
    <3>1. Alone(p) => call[p].op # "read"
      BY <1>2, <2>4 DEF Alone
    <3>2. Alone(p) /\ Waits(p) => Waits(p)'
      BY <1>1, <2>1, <3>1 DEF Waits
    <3> QED BY <1>1, <2>1, <2>2, <2>4, <3>2, OthersAwait
  <2> QED BY <2>3, <2>4
<1> QED BY <1>3, <1>4

\* A full pipe: so does the writer.
LEMMA WriteFullAwaits ==
  ASSUME IInv, PlacesInv, WakeInv, NEW b \in Pids, WriteFull(b), NEW p \in Pids
  PROVE  Awaits(p)'
<1>1. /\ At(b, "loop") /\ call[b].op = "write" /\ count = Size /\ readers > 0
      /\ b \in Actors
      /\ Go(b, "presig") /\ blockedWriter' = b
      /\ UNCHANGED <<state, wait, wakePending, readers, writers, blockedReader, torn, sig,
                     count, idx, call>>
  BY ActorFacts DEF WriteFull, Looping, taskVars, killVars, ring, callVars
<1>2. b \in MayWrite
  BY <1>1 DEF WakeInv, Orderly
<1>3. Steps(b) /\ pc'[b] = "presig"
  BY <1>1, GoSteps DEF IInv, At, WakerPcs
<1>4. CASE p = b
  <2>1. Waits(b)'
    BY <1>1 DEF Waits
  <2> QED BY <1>3, <1>4, <2>1 DEF Awaits
<1>5. CASE p # b
  <2>1. Alone(p) /\ Waits(p) => call[p].op # "write"
    BY <1>2, <1>5 DEF Alone
  <2>2. Alone(p) /\ Waits(p) => Waits(p)'
    BY <1>1, <2>1 DEF Waits
  <2> QED BY <1>1, <1>3, <1>5, <2>2, OthersAwait
<1> QED BY <1>4, <1>5

\* One step on through a wait, which loses no wake() and sets no store of one back.
LEMMA OneStepOn ==
  ASSUME IInv, PlacesInv, WakeInv, NEW p \in Pids, NEW k \in WaitPcs, NEW l \in WaitPcs,
         At(p, k), Steps(p), pc'[p] = l, UNCHANGED <<torn, sig, call>>,
         UNCHANGED <<count, readers, writers, blockedReader, blockedWriter>>,
         k = "presig" => p \notin sig, l # "presig",
         Woken(p) => Woken(p)'
  PROVE  Awaits(p)'
<1>1. (Waits(p) => Waits(p)') /\ (Alone(p)' <=> Alone(p))
  BY SameWaits, SameAlone
<1>2. Awaits(p) /\ pc[p] = k
  BY DEF WakeInv, At
<1> HIDE DEF Woken, Waits, Alone
<1> QED BY <1>1, <1>2 DEF Awaits

\* A step before the yield: the pending wake and the first store of one count.
LEMMA EarlyStep ==
  ASSUME NEW p \in Pids, pc[p] \in Early, pc'[p] \in Early, Steps(p),
         wakePending[p] => wakePending'[p], Woken(p)
  PROVE  Woken(p)'
<1>1. ASSUME NEW a \in Actors, Attends(a, p) PROVE Attends(a, p)'
  <2>1. pc[a] = "pend" /\ idx[a] = p
    BY <1>1 DEF Attends, Early, Late
  <2>2. a # p
    BY <2>1 DEF Early
  <2> QED BY <2>1, <2>2 DEF Steps, Attends
<1> HIDE DEF Attends
<1>2. (wakePending[p] /\ pc[p] \in Early) \/ \E a \in Actors : Attends(a, p)
  BY DEF Woken, Early, Late
<1> QED BY <1>1, <1>2 DEF Woken

\* The steps of the handshake.
LEMMA BlockingAwaits ==
  ASSUME IInv, PlacesInv, WakeInv, NEW b \in Pids, Blocking(b), NEW p \in Pids
  PROVE  Awaits(p)'
<1>1. UNCHANGED <<count, readers, writers, blockedReader, blockedWriter, torn, sig, call,
                  idx>>
  BY DEF Blocking, BlockStep, TestPending, SetWait, FallAsleep, Recheck, RollbackClear,
     RollbackRun, Resume, Yield, ring, slots, callVars, killVars
<1>2. \A q \in Pids \ {b} :
        state'[q] = state[q] /\ wait'[q] = wait[q] /\ wakePending'[q] = wakePending[q]
  BY DEF Blocking, BlockStep, TestPending, SetWait, FallAsleep, Recheck, RollbackClear,
     RollbackRun, Resume, Yield, taskVars, IInv, RestTyped
<1>3. PICK k, l : k \in BlockPcs \cup {"resume"} /\ At(b, k) /\ Go(b, l)
  BY DEF Blocking, BlockStep, TestPending, SetWait, FallAsleep, Recheck, RollbackClear,
     RollbackRun, Resume, Yield, BlockPcs
<1>4. Steps(b) /\ pc'[b] = l
  BY <1>1, <1>3, GoSteps, ActorFacts DEF IInv, At, WakerPcs, BlockPcs
<1>5. CASE p # b
  BY <1>1, <1>2, <1>4, <1>5, ActorFacts, BesideAwait
<1>6. CASE p = b /\ l \notin WaitPcs
  BY <1>4, <1>6, OutOfWait
<1>7. CASE p = b /\ l \in WaitPcs
  <2>1. CASE TestPending(b)
    <3>1. l = "enroll" /\ ~wakePending[b] /\ k = "test"
      <4>1. k = "test" /\ l = IF wakePending[b] THEN "acquire" ELSE "enroll"
        BY <1>3, <1>4, <2>1, ActorFacts DEF TestPending, At, Go, IInv, PcTyped
      <4>2. l # "acquire"
        BY <1>7 DEF WaitPcs, Early, Late
      <4> QED BY <4>1, <4>2
    <3>2. Woken(b) => Woken(b)'
      BY <1>3, <1>4, <3>1, EarlyStep DEF Early, At
    <3> QED BY <1>1, <1>3, <1>4, <1>7, <3>1, <3>2, OneStepOn DEF WaitPcs, Early
  <2>2. CASE SetWait(b) \/ FallAsleep(b)
    <3>1. k \in {"enroll", "sleep"} /\ l \in {"sleep", "recheck"} /\ UNCHANGED wakePending
      BY <1>3, <1>4, <2>2, ActorFacts DEF SetWait, FallAsleep, At, Go, IInv, PcTyped
    <3>2. Woken(b) => Woken(b)'
      BY <1>3, <1>4, <3>1, EarlyStep DEF Early, At
    <3> QED BY <1>1, <1>3, <1>4, <1>7, <3>1, <3>2, OneStepOn DEF WaitPcs, Early
  <2>3. CASE Recheck(b, FALSE)
    <3>1. k = "recheck" /\ l = "yield" /\ ~wakePending[b]
      BY <1>3, <1>4, <1>7, <2>3, ActorFacts
      DEF Recheck, At, Go, IInv, PcTyped, WaitPcs, Early, Late
    <3>2. ASSUME Woken(b) PROVE Woken(b)'
      <4>1. PICK a \in Actors : Attends(a, b)
        BY <1>3, <3>1, <3>2 DEF Woken, At, Early, Late
      <4>2. pc[a] = "pend" /\ idx[a] = b /\ a # b
        BY <1>3, <3>1, <4>1 DEF Attends, At, Late
      <4>3. Attends(a, b)'
        BY <1>4, <4>2 DEF Steps, Attends
      <4> QED BY <4>3 DEF Woken
    <3> QED BY <1>1, <1>3, <1>4, <1>7, <3>1, <3>2, OneStepOn DEF WaitPcs, Early
  <2>4. CASE Yield(b)
    <3>1. k = "yield" /\ l = "resume" /\ UNCHANGED wait
          /\ (state[b] # "sleeping" => state'[b] # "sleeping")
      BY <1>3, <1>4, <2>4, ActorFacts DEF Yield, At, Go, IInv, PcTyped, RestTyped
    <3>2. ASSUME Woken(b) PROVE Woken(b)'
      <4>1. pc[b] \in Late /\ pc'[b] \in Late /\ pc[b] \notin Early
        BY <1>3, <1>4, <3>1 DEF At, Late, Early
      <4>2. ASSUME NEW a \in Actors, Attends(a, b) PROVE Attends(a, b)'
        <5>1. a # b
          BY <4>1, <4>2 DEF Attends, Late
        <5> QED BY <1>4, <3>1, <4>1, <4>2, <5>1 DEF Steps, Attends
      <4> HIDE DEF Attends
      <4> QED BY <3>1, <3>2, <4>1, <4>2 DEF Woken
    <3> QED BY <1>1, <1>3, <1>4, <1>7, <3>1, <3>2, OneStepOn DEF WaitPcs, Early, Late
  <2>5. CASE RollbackClear(b) \/ RollbackRun(b) \/ Resume(b)
    <3>1. l \in {"rerun", "acquire"}
      BY <1>3, <1>4, <2>5, ActorFacts DEF RollbackClear, RollbackRun, Resume, Go, IInv, PcTyped
    <3> QED BY <1>7, <3>1 DEF WaitPcs, Early, Late
  <2> QED BY <2>1, <2>2, <2>3, <2>4, <2>5 DEF Blocking, BlockStep
<1> QED BY <1>5, <1>6, <1>7

\* The stores of wake(), in the order in which the sleeper depends on them.
LEMMA WakingAwaits ==
  ASSUME IInv, PlacesInv, WakeInv, NEW a \in Actors, Waking(a), NEW p \in Pids
  PROVE  Awaits(p)'
<1>1. /\ UNCHANGED <<count, readers, writers, blockedReader, blockedWriter, torn, sig, call>>
      /\ (Waits(p) => Waits(p)') /\ (Alone(p)' <=> Alone(p))
  BY SameWaits, SameAlone DEF Waking, ring, slots, callVars, killVars
<1>2. pc[a] \in WakerPcs /\ \A b \in Actors \ {a} : pc'[b] = pc[b] /\ idx'[b] = idx[b]
  BY DEF Waking, WakePend, WakeClear, WakeEnd, MakeReady, EndScan, At, Go, WakerPcs,
     IInv, PcTyped
<1>3. CASE p = a
  <2>1. CASE WakeEnd(a)
    <3>1. pc'[a] = after[a] /\ after[a] \notin WaitPcs
      BY <2>1 DEF WakeEnd, Go, IInv, PcTyped, WakeInv, Orderly
    <3> QED BY <1>3, <3>1, OutOfWait
  <2>2. CASE WakePend(a) \/ WakeClear(a)
    <3>1. pc'[a] \in {"clear", "makeReady"}
      BY <2>2 DEF WakePend, WakeClear, Go, IInv, PcTyped
    <3> QED BY <1>3, <3>1, OutOfWait DEF WaitPcs, Early, Late
  <2> QED BY <2>1, <2>2 DEF Waking
<1>4. CASE p # a
  <2>1. pc'[p] = pc[p]
    BY <1>2, <1>4, ActorFacts
  <2>2. ASSUME Woken(p), pc[p] \in WaitPcs PROVE Woken(p)'
    <3>1. idx[a] \in Nat
      BY NAssumption DEF IInv, PcTyped
    <3>2. CASE idx[a] # p
      <4>1. state'[p] = state[p] /\ wait'[p] = wait[p] /\ wakePending'[p] = wakePending[p]
        BY <3>2 DEF Waking, WakePend, WakeClear, WakeEnd, MakeReady, IInv, RestTyped
      <4>2. ASSUME NEW b \in Actors, Attends(b, p) PROVE Attends(b, p)'
        BY <1>2, <2>1, <3>2, <4>1, <4>2 DEF Attends
      <4> HIDE DEF Attends
      <4> QED BY <2>1, <2>2, <4>1, <4>2 DEF Woken
    <3>3. CASE idx[a] = p /\ WakePend(a)
      <4>1. wakePending'[p] /\ pc'[a] = "clear" /\ idx'[a] = p
        BY <3>3 DEF WakePend, Go, IInv, PcTyped, RestTyped
      <4>2. pc[p] \in Late => Attends(a, p)'
        BY <2>1, <4>1 DEF Attends
      <4> HIDE DEF Attends
      <4> QED BY <2>1, <2>2, <4>1, <4>2 DEF Woken, WaitPcs
    <3>4. CASE idx[a] = p /\ WakeClear(a)
      <4>1. /\ wait'[p] = "none" /\ pc'[a] = "makeReady" /\ idx'[a] = p /\ pc[a] = "clear"
            /\ UNCHANGED wakePending
        BY <3>4 DEF WakeClear, Go, At, IInv, PcTyped, RestTyped
      <4>2. CASE pc[p] \in Late
        <5>1. Attends(a, p)'
          BY <2>1, <4>1, <4>2 DEF Attends
        <5> QED BY <5>1 DEF Woken
      <4>3. CASE pc[p] \in Early
        <5>1. ASSUME NEW b \in Actors, Attends(b, p) PROVE Attends(b, p)'
          <6>1. pc[b] = "pend" /\ b # a /\ idx[b] = p
            BY <4>1, <4>3, <5>1 DEF Attends, Early, Late
          <6> QED BY <1>2, <6>1 DEF Attends
        <5> HIDE DEF Attends
        <5> QED BY <2>1, <2>2, <4>1, <4>3, <5>1 DEF Woken, Early, Late
      <4> QED BY <2>2, <4>2, <4>3 DEF WaitPcs
    <3>5. CASE idx[a] = p /\ WakeEnd(a)
      <4>1. /\ state'[p] # "sleeping" /\ pc[a] = "makeReady"
            /\ UNCHANGED <<wait, wakePending>>
        BY <3>5 DEF WakeEnd, MakeReady, At, IInv, RestTyped
      <4>2. CASE pc[p] \in Late /\ wait[p] = "none"
        BY <2>1, <4>1, <4>2 DEF Woken
      <4>3. CASE ~(pc[p] \in Late /\ wait[p] = "none")
        <5>1. ASSUME NEW b \in Actors, Attends(b, p) PROVE Attends(b, p)'
          <6>1. b # a
            BY <4>1, <4>3, <5>1 DEF Attends
          <6> QED BY <1>2, <2>1, <4>1, <5>1, <6>1 DEF Attends
        <5> HIDE DEF Attends
        <5> QED BY <2>1, <2>2, <4>1, <4>3, <5>1 DEF Woken
      <4> QED BY <4>2, <4>3
    <3> QED BY <3>2, <3>3, <3>4, <3>5 DEF Waking
  <2>3. Awaits(p)
    BY DEF WakeInv
  <2> HIDE DEF Woken, Waits, Alone
  <2> QED BY <1>1, <2>1, <2>2, <2>3 DEF Awaits
<1> QED BY <1>3, <1>4
-----------------------------------------------------------------------------
\* Every other step of a call leads out of the wait, or to its test.
LEMMA PlainCallAwaits ==
  ASSUME IInv, PlacesInv, WakeInv, NEW b \in Pids,
         WriteBroken(b) \/ Resolve(b) \/ PreSignal(b) \/ PostSignal(b) \/ Return(b),
         NEW p \in Pids
  PROVE  Awaits(p)'
<1> USE DEF slots, ring, callVars, killVars, taskVars
<1>1. /\ UNCHANGED <<state, wait, wakePending, torn, idx, count, readers, writers,
                     blockedReader, blockedWriter>>
      /\ sig' \subseteq sig
      /\ \A q \in Pids \ {b} : call'[q] = call[q]
  BY ActorFacts DEF WriteBroken, Resolve, PreSignal, PostSignal, Return, End, IInv, CallInv
<1>2. PICK k \in {"loop", "fault", "presig", "acquire", "done"},
           l \in {"done", "loop", "unreg", "test", "idle"} :
        /\ At(b, k) /\ Go(b, l)
        /\ l = "test" => k = "presig" /\ b \notin sig /\ UNCHANGED <<sig, call>>
  <2>1. CASE PreSignal(b)
    BY <2>1 DEF PreSignal
  <2>2. CASE PostSignal(b)
    BY <2>2 DEF PostSignal
  <2>3. CASE WriteBroken(b) \/ Resolve(b) \/ Return(b)
    BY <2>3 DEF WriteBroken, Resolve, Return, Looping
  <2> QED BY <2>1, <2>2, <2>3
<1>3. Steps(b) /\ pc'[b] = l
  BY <1>1, <1>2, GoSteps, ActorFacts DEF IInv, At, WakerPcs
<1>4. CASE p # b
  BY <1>1, <1>3, <1>4, ActorFacts, BesideAwait
<1>5. CASE p = b /\ l # "test"
  BY <1>2, <1>3, <1>5, OutOfWait DEF WaitPcs, Early, Late
<1>6. CASE p = b /\ l = "test"
  <2>1. Woken(b) => Woken(b)'
    BY <1>1, <1>2, <1>3, <1>6, EarlyStep DEF Early, At
  <2> QED BY <1>1, <1>2, <1>3, <1>6, <2>1, OneStepOn DEF WaitPcs, Early
<1> QED BY <1>4, <1>5, <1>6

\* Signalled, a caller takes only its own registration back.
LEMMA UnregisterAwaits ==
  ASSUME IInv, PlacesInv, WakeInv, NEW b \in Pids, Unregister(b), NEW p \in Pids
  PROVE  Awaits(p)'
<1>1. /\ At(b, "unreg") /\ Go(b, "done") /\ b \in Actors
      /\ UNCHANGED <<state, wait, wakePending, torn, idx, count, readers, writers, sig>>
  BY ActorFacts DEF Unregister, ring, killVars, taskVars
<1>2. Steps(b) /\ pc'[b] = "done"
  BY <1>1, GoSteps DEF IInv, At, WakerPcs
<1>3. CASE p = b
  BY <1>2, <1>3, OutOfWait DEF WaitPcs, Early, Late
<1>4. CASE p # b
  <2>1. /\ blockedReader = p => blockedReader' = p
        /\ blockedWriter = p => blockedWriter' = p
    BY <1>4 DEF Unregister, ClearOwn
  <2>2. call'[p] = call[p]
    BY <1>4, ActorFacts DEF Unregister, End, IInv, CallInv
  <2>3. Waits(p) => Waits(p)'
    BY <1>1, <2>1, <2>2 DEF Waits
  <2> QED BY <1>1, <1>2, <1>4, <2>2, <2>3, OthersAwait
<1> QED BY <1>3, <1>4

\* A call begins.
LEMMA StartAwaits ==
  ASSUME IInv, PlacesInv, WakeInv, NEW b \in Pids, StartRead(b) \/ StartWrite(b),
         NEW p \in Pids
  PROVE  Awaits(p)'
<1>1. /\ At(b, "idle") /\ Go(b, "loop") /\ b \in Actors
      /\ UNCHANGED <<state, wait, wakePending, torn, idx, count, readers, writers, sig,
                     blockedReader, blockedWriter>>
  BY ActorFacts DEF StartRead, StartWrite, ring, slots, killVars, taskVars
<1>2. Steps(b) /\ pc'[b] = "loop"
  BY <1>1, GoSteps DEF IInv, At, WakerPcs
<1>3. CASE p = b
  BY <1>2, <1>3, OutOfWait DEF WaitPcs, Early, Late
<1>4. CASE p # b
  <2>1. call'[p] = call[p]
    BY <1>4, ActorFacts DEF StartRead, StartWrite, IInv, CallInv
  <2> QED BY <1>1, <1>2, <1>4, <2>1, BesideAwait
<1> QED BY <1>3, <1>4

\* A read that never waits wakes the writer it made room for.
LEMMA TryReadAwaits ==
  ASSUME IInv, PlacesInv, WakeInv, NEW b \in Actors, TryRead(b), NEW p \in Pids
  PROVE  Awaits(p)'
<1>1. /\ At(b, "idle") /\ count > 0 /\ WakeThen(b, blockedWriter, "idle")
      /\ UNCHANGED <<state, wait, wakePending, torn, readers, writers, sig, call>>
  BY DEF TryRead, killVars, taskVars, callVars
<1>2. Steps(b) /\ pc'[b] \in {"pend", "idle"}
  BY <1>1, WakeThenSteps DEF IInv, At, WakerPcs, WakeThen, Go, PcTyped
<1>3. CASE p = b
  BY <1>2, <1>3, OutOfWait DEF WaitPcs, Early, Late
<1>4. CASE p # b
  <2>1. Waits(p) => blockedWriter = p
    BY <1>1 DEF Waits
  <2>2. Waits(p) => Woken(p)'
    BY <1>1, <2>1, Wakes DEF IInv
  <2> QED BY <1>1, <1>2, <1>4, <2>2, OthersAwait
<1> QED BY <1>3, <1>4

\* The first section of tryWrite.
LEMMA TryWriteAwaits ==
  ASSUME IInv, PlacesInv, WakeInv, NEW b \in Actors, TryWrite(b), NEW p \in Pids
  PROVE  Awaits(p)'
<1>1. /\ At(b, "idle") /\ Go(b, "try") /\ b = Killer
      /\ UNCHANGED <<state, wait, wakePending, torn, idx, count, readers, writers, sig,
                     blockedReader, blockedWriter, call>>
  BY DEF TryWrite, Desktop, ring, slots, killVars, taskVars, callVars
<1>2. Steps(b)
  BY <1>1, GoSteps DEF IInv, At, WakerPcs
<1> QED BY <1>1, <1>2, ActorFacts, BesideAwait

\* The second section of tryWrite wakes the reader, if anything fitted.
LEMMA TryPushAwaits ==
  ASSUME IInv, PlacesInv, WakeInv, NEW b \in Actors, TryPush(b), NEW p \in Pids
  PROVE  Awaits(p)'
<1>1. /\ At(b, "try")
      /\ UNCHANGED <<state, wait, wakePending, torn, readers, writers, sig, call,
                     blockedWriter>>
  BY DEF TryPush, killVars, taskVars, callVars
<1>2. b = Killer /\ p # b
  BY <1>1, OnlyDesktopTries, ActorFacts
<1>3. PICK d \in Payloads :
        LET n == Least({Len(d), Size - count})
        IN /\ Wrapped(SubSeq(d, 1, n))
           /\ blockedReader' = IF n > 0 THEN NoPid ELSE blockedReader
           /\ WakeThen(b, IF n > 0 THEN blockedReader ELSE NoPid, "idle")
  BY DEF TryPush
<1> DEFINE n == Least({Len(d), Size - count})
<1>4. d \in Seq(Bytes) /\ Len(d) \in Nat /\ count \in Nat
  BY SizesAssumption, SizeFacts DEF IInv, RingInv
<1>5. n \in Nat /\ n <= Len(d) /\ n <= Size - count
  <2>1. Size - count \in Nat
    BY SizeFacts DEF IInv, RingInv
  <2> QED BY <1>4, <2>1, LeastOfTwo
<1>6. /\ Wrapped(SubSeq(d, 1, n))
      /\ blockedReader' = IF n > 0 THEN NoPid ELSE blockedReader
      /\ WakeThen(b, IF n > 0 THEN blockedReader ELSE NoPid, "idle")
  BY <1>3
<1> HIDE DEF n
<1>7. Steps(b)
  BY <1>1, <1>6, WakeThenSteps DEF IInv, At, WakerPcs
<1>8. CASE n = 0
  <2>1. Len(SubSeq(d, 1, n)) = 0
    BY <1>4, <1>8, Split
  <2>2. count' = count /\ blockedReader' = blockedReader
    BY <1>4, <1>6, <1>8, <2>1 DEF Wrapped
  <2> QED BY <1>1, <1>2, <1>7, <2>2, BesideAwait
<1>9. CASE n # 0
  <2>1. WakeThen(b, blockedReader, "idle")
    BY <1>5, <1>6, <1>9
  <2>2. Waits(p) => blockedReader = p
    BY <1>4, <1>5, <1>9, SizeFacts DEF Waits
  <2>3. Waits(p) => Woken(p)'
    BY <2>1, <2>2, Wakes DEF IInv
  <2> QED BY <1>1, <1>2, <1>7, <2>3, OthersAwait
<1> QED BY <1>8, <1>9

\* A pipe is made where none is in use, so that nobody waits.
LEMMA AllocAwaits ==
  ASSUME IInv, PlacesInv, WakeInv, NEW b \in Actors, Alloc(b), NEW p \in Pids
  PROVE  Awaits(p)'
<1>1. ~inUse /\ UNCHANGED <<pc, torn>>
  BY DEF Alloc, waitVars, killVars
<1> QED BY <1>1, WaiterHolds DEF Awaits

\* A step that moves nobody and touches no task.
LEMMA StillAwait ==
  ASSUME WakeInv, NEW p \in Pids, UNCHANGED <<pc, idx, call>>, torn \subseteq torn',
         sig' \subseteq sig, Woken(p) => Woken(p)', Waits(p) => Waits(p)'
  PROVE  Awaits(p)'
<1>1. Awaits(p) /\ (Alone(p)' <=> Alone(p))
  BY SameAlone DEF WakeInv
<1> HIDE DEF Woken, Waits, Alone
<1> QED BY <1>1 DEF Awaits

\* One more end is no news to who waits.
LEMMA InheritAwaits ==
  ASSUME IInv, PlacesInv, WakeInv, NEW a \in Actors, NEW b \in Pids, NEW e \in Sides,
         Inherit(a, b, e), NEW p \in Pids
  PROVE  Awaits(p)'
<1>1. UNCHANGED <<state, wait, wakePending, pc, idx, torn, sig, call, count, blockedReader,
                  blockedWriter>>
  BY DEF Inherit, waitVars, ring, killVars, callVars
<1>2. (readers > 0 => readers' > 0) /\ (writers > 0 => writers' > 0)
  BY CountsAreNumbers DEF Inherit, IInv
<1>3. Woken(p) => Woken(p)'
  BY <1>1, StaysWoken DEF Untouched
<1>4. Waits(p) => Waits(p)'
  BY <1>1, <1>2 DEF Waits
<1> QED BY <1>1, <1>3, <1>4, StillAwait

\* A close wakes who waits for the side, whether or not it was its last end.
LEMMA CloseEndAwaits ==
  ASSUME IInv, PlacesInv, WakeInv, NEW b \in Actors, pc[b] \notin WakerPcs, NEW q,
         NEW e \in Sides, NEW l, CloseEnd(b, q, e, l), NEW p \in Pids \ {b},
         UNCHANGED <<state, wait, wakePending, torn, sig, call, ring>>
  PROVE  Awaits(p)'
<1>1. Steps(b)
  BY WakeThenSteps DEF CloseEnd, IInv
<1>2. call'[p] = call[p] /\ count' = count
  BY DEF ring
<1>3. CASE e = "r"
  <2>1. /\ WakeThen(b, blockedWriter, l)
        /\ UNCHANGED <<writers, blockedReader>>
    BY <1>3 DEF CloseEnd, Peer
  <2>2. blockedWriter = p => Woken(p)'
    BY <2>1, Wakes DEF IInv
  <2>3. Waits(p) => Waits(p)' \/ Woken(p)'
    BY <1>2, <2>1, <2>2 DEF Waits
  <2> QED BY <1>1, <1>2, <2>3, OthersAwait
<1>4. CASE e = "w"
  <2>1. /\ WakeThen(b, blockedReader, l)
        /\ UNCHANGED <<readers, blockedWriter>>
    BY <1>4 DEF CloseEnd, Peer
  <2>2. blockedReader = p => Woken(p)'
    BY <2>1, Wakes DEF IInv
  <2>3. Waits(p) => Waits(p)' \/ Woken(p)'
    BY <1>2, <2>1, <2>2 DEF Waits
  <2> QED BY <1>1, <1>2, <2>3, OthersAwait
<1> QED BY <1>3, <1>4 DEF Sides

\* A close in user mode.
LEMMA CloseAwaits ==
  ASSUME IInv, PlacesInv, WakeInv, NEW b \in Actors, NEW e \in Sides, Close(b, e),
         NEW p \in Pids
  PROVE  Awaits(p)'
<1>1. /\ At(b, "idle") /\ CloseEnd(b, b, e, "idle")
      /\ UNCHANGED <<state, wait, wakePending, torn, sig, call, ring>>
  BY DEF Close, taskVars, callVars, killVars
<1>2. pc[b] = "idle" /\ pc'[b] \in {"pend", "idle"}
  BY <1>1 DEF CloseEnd, WakeThen, Go, At, IInv, PcTyped
<1>3. CASE p = b
  BY <1>2, <1>3, OutOfWait DEF WaitPcs, Early, Late
<1>4. CASE p # b
  BY <1>1, <1>2, <1>4, CloseEndAwaits DEF WakerPcs
<1> QED BY <1>3, <1>4

\* A teardown closes the ends of the dead, who wait for nothing.
LEMMA TearDownAwaits ==
  ASSUME IInv, PlacesInv, WakeInv, NEW b \in Actors, TearDown(b), NEW p \in Pids
  PROVE  Awaits(p)'
<1>1. /\ At(b, "teardown") /\ Dying(b) \in torn
      /\ UNCHANGED <<state, wait, wakePending, torn>>
  BY DyingIsTorn DEF TearDown, taskVars
<1>2. CASE ends[Dying(b)] # {}
  <2>1. PICK e \in ends[Dying(b)] : CloseEnd(b, Dying(b), e, "teardown")
    BY <1>2 DEF TearDown
  <2>2. UNCHANGED <<sig, call, ring>>
    BY <1>2 DEF TearDown, callVars
  <2>3. e \in Sides
    <3>1. Dying(b) \in Actors
      BY <1>1, ActorFacts DEF IInv, RestTyped
    <3>2. ends[Dying(b)] \subseteq Sides
      BY <3>1 DEF IInv, EndsInv
    <3> QED BY <2>1, <3>2
  <2>4. pc[b] = "teardown" /\ pc'[b] \in {"pend", "teardown"}
    BY <1>1, <2>1 DEF CloseEnd, WakeThen, Go, At, IInv, PcTyped
  <2>5. CASE p = b
    BY <2>4, <2>5, OutOfWait DEF WaitPcs, Early, Late
  <2>6. CASE p # b
    BY <1>1, <2>1, <2>2, <2>3, <2>4, <2>6, CloseEndAwaits DEF WakerPcs
  <2> QED BY <2>5, <2>6
<1>3. CASE ends[Dying(b)] = {}
  <2>1. /\ Go(b, IF b = Killer THEN "idle" ELSE "exit")
        /\ call' = [call EXCEPT ![Dying(b)] = NoCall] /\ sig' \subseteq sig
        /\ UNCHANGED <<idx, count, readers, writers, blockedReader, blockedWriter>>
    BY <1>3 DEF TearDown, ring, slots
  <2>2. PICK l \in {"idle", "exit"} : Go(b, l)
    BY <2>1
  <2>3. Steps(b) /\ pc'[b] = l
    BY <1>1, <2>1, <2>2, GoSteps DEF IInv, At, WakerPcs
  <2>4. CASE p = b
    BY <2>3, <2>4, OutOfWait DEF WaitPcs, Early, Late
  <2>5. CASE p # b
    <3>1. call'[p] = call[p] \/ p \in torn
      BY <1>1, <2>1, ActorFacts DEF IInv, CallInv
    <3> QED BY <1>1, <2>1, <2>3, <2>5, <3>1, BesideAwait
  <2> QED BY <2>4, <2>5
<1> QED BY <1>2, <1>3

\* A signal is sent with a wake(), so that who waits looks for it.
LEMMA SendAwaits ==
  ASSUME IInv, PlacesInv, WakeInv, NEW q \in Pids, Send(q), NEW p \in Pids
  PROVE  Awaits(p)'
<1>1. /\ At(Killer, "idle") /\ WakeThen(Killer, q, "idle") /\ sig' = sig \cup {q}
      /\ UNCHANGED <<state, wait, wakePending, torn, call, count, readers, writers,
                     blockedReader, blockedWriter>>
  BY DEF Send, taskVars, callVars, ring, slots, killVars
<1>2. Steps(Killer)
  BY <1>1, ActorFacts, WakeThenSteps DEF IInv, At, WakerPcs
<1>3. Untouched(p)
  BY <1>1, <1>2, ActorFacts DEF Steps, Untouched
<1>4. (Woken(p) => Woken(p)') /\ (Waits(p) => Waits(p)') /\ (Alone(p)' <=> Alone(p))
  BY <1>1, <1>3, StaysWoken, SameWaits, SameAlone
<1>5. p = q => Woken(p)'
  BY <1>1, ActorFacts, Wakes DEF IInv
<1>6. Awaits(p) /\ pc'[p] = pc[p]
  BY <1>3 DEF WakeInv, Untouched
<1> HIDE DEF Woken, Waits, Alone
<1> QED BY <1>1, <1>4, <1>5, <1>6 DEF Awaits

\* A delivery, and a request to die.
LEMMA QuietAwaits ==
  ASSUME IInv, WakeInv, NEW q \in Pids, Deliver(q) \/ RequestKill(q), NEW p \in Pids
  PROVE  Awaits(p)'
<1>1. /\ UNCHANGED <<state, wait, wakePending, pc, idx, torn, call, count, readers, writers,
                     blockedReader, blockedWriter>>
      /\ sig' \subseteq sig
  BY DEF Deliver, RequestKill, waitVars, ring, slots, callVars, killVars
<1>2. (Woken(p) => Woken(p)') /\ (Waits(p) => Waits(p)')
  BY <1>1, StaysWoken, SameWaits DEF Untouched
<1> QED BY <1>1, <1>2, StillAwait

\* The scheduler takes nobody's wake-up away.
LEMMA ScheduledAwaits ==
  ASSUME IInv, WakeInv, NEW q \in Pids, DispatchTask(q) \/ PreemptTask(q), NEW p \in Pids
  PROVE  Awaits(p)'
<1>1. /\ UNCHANGED <<wait, wakePending, pc, idx, torn, sig, call, count, readers, writers,
                     blockedReader, blockedWriter>>
      /\ state[p] # "sleeping" => state'[p] # "sleeping"
  BY DEF DispatchTask, Dispatch, PreemptTask, Preempt, ring, slots, callVars, killVars, IInv,
     RestTyped
<1>2. Woken(p) => Woken(p)'
  BY <1>1 DEF Woken, Attends
<1>3. Waits(p) => Waits(p)'
  BY <1>1, SameWaits
<1> QED BY <1>1, <1>2, <1>3, StillAwait

\* The dead wait for nothing, and their death is no news to who waits.
LEMMA KilledAwaits ==
  ASSUME IInv, PlacesInv, WakeInv, NEW q \in Pids,
         KillOffCpu(q) \/ SelfDestroy(q) \/ Exit(q), NEW p \in Pids
  PROVE  Awaits(p)'
<1> USE DEF ring, slots, callVars, killVars, taskVars
<1>1. PICK b, k, l :
        /\ b \in Actors /\ k \notin WakerPcs /\ pc[b] = k /\ Go(b, l)
        /\ b = q \/ b = Killer
  BY ActorFacts DEF KillOffCpu, SelfDestroy, MaySchedule, Exit, At, WakerPcs
<1>2. /\ UNCHANGED <<wait, wakePending, idx, sig, call, count, readers, writers,
                     blockedReader, blockedWriter>>
      /\ torn \subseteq torn'
      /\ p # q => state'[p] = state[p]
  BY DEF KillOffCpu, SelfDestroy, Exit, IInv, RestTyped
<1>3. Steps(b)
  BY <1>1, <1>2, GoSteps DEF IInv
<1>4. CASE p = q
  <2>1. q \in torn'
    <3>1. CASE Exit(q)
      <4>1. At(q, "exit") /\ Place(q) = "exit" /\ UNCHANGED torn
        BY <3>1, AtPlace DEF Exit, WakerPcs
      <4> QED BY <4>1 DEF PlacesInv, Placed, CallPcs, BlockPcs
    <3>2. CASE KillOffCpu(q) \/ SelfDestroy(q)
      BY <3>2 DEF KillOffCpu, SelfDestroy
    <3> QED BY <3>1, <3>2
  <2> QED BY <1>4, <2>1 DEF Awaits
<1>5. CASE p # q
  BY <1>1, <1>2, <1>3, <1>5, ActorFacts, BesideAwait
<1> QED BY <1>4, <1>5
-----------------------------------------------------------------------------
\* Calls are made by who may.
LEMMA CallsOrderly ==
  ASSUME IInv, Orderly, [Next]_vars
  PROVE  \A a \in Actors : /\ call'[a].op = "read" => a \in MayRead
                           /\ call'[a].op = "write" => a \in MayWrite
<1> DEFINE G == \A a \in Actors : /\ call'[a].op = "read" => a \in MayRead
                                  /\ call'[a].op = "write" => a \in MayWrite
<1>1. CASE UNCHANGED call
  BY <1>1 DEF Orderly
<1>2. CASE \E p \in Actors : call' = [call EXCEPT ![p] = NoCall]
  <2>1. NoCall.op = "none"
    BY DEF NoCall
  <2> QED BY <1>2, <2>1 DEF IInv, CallInv, Orderly
<1>3. ASSUME NEW p \in Actors, NEW why \in Ends, End(p, why) PROVE G
  <2>1. \A a \in Actors : call'[a].op = call[a].op
    BY <1>3 DEF End, IInv, CallInv
  <2> QED BY <2>1 DEF Orderly
<1>4. ASSUME NEW p \in Pids, StartRead(p) \/ StartWrite(p) PROVE G
  <2>1. \A a \in Actors \ {p} : call'[a] = call[a]
    BY <1>4 DEF StartRead, StartWrite, IInv, CallInv
  <2>2. \/ call'[p].op = "read" /\ p \in MayRead
        \/ call'[p].op = "write" /\ p \in MayWrite
    BY <1>4, ActorFacts DEF StartRead, StartWrite, NoCall, IInv, CallInv
  <2> QED BY <2>1, <2>2 DEF Orderly
<1>5. ASSUME NEW p \in Pids, ReadCopy(p) \/ WriteCopy(p) PROVE G
  <2>1. p \in Actors /\ \A a \in Actors \ {p} : call'[a] = call[a]
    BY <1>5, ActorFacts DEF ReadCopy, WriteCopy, IInv, CallInv
  <2>2. call'[p].op = call[p].op
    <3>1. CASE ReadCopy(p)
      <4>1. PICK d : call' = [call EXCEPT ![p].want = call[p].want - d,
                                          ![p].seq = call[p].seq \o Oldest(d),
                                          ![p].end = IF d = call[p].want THEN "ok" ELSE "no"]
        BY <2>1, <3>1 DEF ReadCopy, IInv, CallInv
      <4> QED BY <2>1, <4>1 DEF IInv, CallInv
    <3>2. CASE WriteCopy(p)
      <4>1. PICK s, e : call' = [call EXCEPT ![p].seq = s, ![p].end = e]
        BY <2>1, <3>2 DEF WriteCopy, IInv, CallInv
      <4> QED BY <2>1, <4>1 DEF IInv, CallInv
    <3> QED BY <1>5, <3>1, <3>2
  <2> QED BY <2>1, <2>2 DEF Orderly
<1> QED BY <1>1, <1>2, <1>3, <1>4, <1>5, CallMoves DEF IInv

\* The places at which a wake() goes on.
AfterPcs == {"idle", "loop", "done", "fault", "teardown"}

\* A wake() goes on at none of the places of a wait.
LEMMA AfterOrderly ==
  ASSUME IInv, Orderly, [Next]_vars
  PROVE  \A a \in Actors : after'[a] \notin WaitPcs
<1> DEFINE G == \A a \in Actors : after'[a] \notin WaitPcs
<1>a. AfterPcs \cap WaitPcs = {}
  BY DEF AfterPcs, WaitPcs, Early, Late
<1>1. CASE UNCHANGED after
  BY <1>1 DEF Orderly
<1>2. ASSUME NEW a \in Actors, NEW w, NEW l \in AfterPcs, WakeThen(a, w, l) PROVE G
  BY <1>2, <1>a DEF WakeThen, Orderly, IInv, PcTyped
<1>3. ASSUME NEW a \in Actors, Waking(a) PROVE G
  BY <1>3 DEF Waking, WakeEnd, Orderly, IInv, PcTyped, WaitPcs, Early, Late
<1>4. ASSUME NEW p \in Pids, CallStep(p) PROVE G
  <2>1. CASE ReadCopy(p)
    <3>1. \E w, l : l \in AfterPcs /\ WakeThen(p, w, l)
      BY <2>1 DEF ReadCopy, AfterPcs
    <3> QED BY <1>2, <3>1, ActorFacts
  <2>2. CASE WriteCopy(p)
    <3>1. \E w, l : l \in AfterPcs /\ WakeThen(p, w, l)
      BY <2>2 DEF WriteCopy, AfterPcs
    <3> QED BY <1>2, <3>1, ActorFacts
  <2>3. CASE ~(ReadCopy(p) \/ WriteCopy(p))
    BY <1>1, <1>4, <2>3 DEF CallStep, ReadEmpty, WriteBroken, WriteFull, Resolve, PreSignal,
       Blocking, PostSignal, Unregister, Return, slots
  <2> QED BY <2>1, <2>2, <2>3
<1>5. ASSUME NEW a \in Actors, TryPush(a) PROVE G
  <2>1. \E w : WakeThen(a, w, "idle")
    BY <1>5 DEF TryPush
  <2> QED BY <1>2, <2>1 DEF AfterPcs
<1>6. ASSUME NEW a \in Actors, TearDown(a) PROVE G
  <2>1. (\E w : WakeThen(a, w, "teardown")) \/ UNCHANGED after
    BY <1>6 DEF TearDown, CloseEnd
  <2> QED BY <1>1, <1>2, <2>1 DEF AfterPcs
<1>7. ASSUME NEW a \in Actors, Choice(a) PROVE G
  <2>1. (\E w : WakeThen(a, w, "idle")) \/ UNCHANGED after
    BY <1>7 DEF Choice, TryRead, TryWrite, Alloc, Close, CloseEnd, Inherit
  <2> QED BY <1>1, <1>2, <2>1 DEF AfterPcs
<1>8. ASSUME NEW p \in Pids, Send(p) PROVE G
  BY <1>2, <1>8, ActorFacts DEF Send, AfterPcs
<1>9. ASSUME NEW p \in Pids,
             \/ StartRead(p) \/ StartWrite(p) \/ Exit(p)
             \/ DispatchTask(p) \/ PreemptTask(p) \/ Deliver(p)
             \/ RequestKill(p) \/ KillOffCpu(p) \/ SelfDestroy(p)
      PROVE  G
  BY <1>1, <1>9 DEF StartRead, StartWrite, Exit, DispatchTask, PreemptTask, Deliver,
     RequestKill, KillOffCpu, SelfDestroy
<1>10. CASE UNCHANGED vars
  BY <1>1, <1>10 DEF vars
<1> HIDE DEF G
<1>11. ASSUME NEW p \in Pids, TaskStep(p) PROVE G
  BY <1>3, <1>4, <1>5, <1>6, <1>9, <1>11, ActorFacts DEF TaskStep
<1>12. ASSUME KillerStep PROVE G
  BY <1>3, <1>5, <1>6, <1>12, ActorFacts DEF KillerStep
<1>13. ASSUME Next PROVE G
  BY <1>7, <1>8, <1>9, <1>11, <1>12, <1>13 DEF Next
<1> QED BY <1>10, <1>13 DEF G
-----------------------------------------------------------------------------
\* Nobody waits at first ...
LEMMA InitWakeInv == Init => WakeInv
  BY DEF Init, NoCall, WakeInv, Orderly, Awaits, WaitPcs, Early, Late, Actors, Pids

\* ... every step keeps everybody registered or woken ...
LEMMA NextWakeInv == IInv /\ PlacesInv /\ WakeInv /\ [Next]_vars => WakeInv'
<1> SUFFICES ASSUME IInv, PlacesInv, WakeInv, [Next]_vars PROVE WakeInv'
  OBVIOUS
<1>1. Orderly'
  BY CallsOrderly, AfterOrderly DEF WakeInv, Orderly
<1>2. ASSUME NEW p \in Pids PROVE Awaits(p)'
  <2>1. ASSUME NEW b \in Pids, CallStep(b) PROVE Awaits(p)'
    BY <2>1, ReadCopyAwaits, ReadEmptyAwaits, WriteCopyAwaits, WriteFullAwaits,
       BlockingAwaits, UnregisterAwaits, PlainCallAwaits DEF CallStep
  <2>2. ASSUME NEW b \in Pids, TaskStep(b) PROVE Awaits(p)'
    BY <2>1, <2>2, ActorFacts, TryPushAwaits, WakingAwaits, TearDownAwaits, KilledAwaits
       DEF TaskStep
  <2>3. ASSUME NEW a \in Actors, Choice(a) PROVE Awaits(p)'
    BY <2>3, TryReadAwaits, TryWriteAwaits, AllocAwaits, CloseAwaits, InheritAwaits
       DEF Choice
  <2>4. CASE KillerStep
    BY <2>4, ActorFacts, TryPushAwaits, WakingAwaits, TearDownAwaits DEF KillerStep
  <2>5. CASE UNCHANGED vars
    <3>1. Woken(p) => Woken(p)'
      BY <2>5, StaysWoken DEF vars, waitVars, Untouched
    <3>2. Waits(p) => Waits(p)'
      BY <2>5, SameWaits DEF vars, ring, slots, callVars
    <3> QED BY <2>5, <3>1, <3>2, StillAwait DEF vars, waitVars, killVars, callVars
  <2> QED BY <2>2, <2>3, <2>4, <2>5, StartAwaits, SendAwaits, QuietAwaits, ScheduledAwaits,
             KilledAwaits DEF Next
<1> QED BY <1>1, <1>2 DEF WakeInv

\* ... and who is parked with something to go on with, or a signal, is attended.
LEMMA NobodyForgotten == IInv /\ PlacesInv /\ WakeInv => Attended
<1> SUFFICES ASSUME IInv, PlacesInv, WakeInv,
                    NEW p \in Pids, Parked(p), (Ready(p) /\ Alone(p)) \/ p \in sig
             PROVE  Coming(p)
  BY DEF Attended
<1>1. pc[p] = "resume" /\ pc[p] \in WaitPcs /\ pc[p] \notin Early
  BY DEF Parked, WaitPcs, Early, Late
<1>2. p \notin torn
  BY DEF Parked, PlacesInv, Placed
<1>3. Ready(p) => ~Waits(p)
  BY SizeFacts DEF Ready, Waits, IInv, RingInv
<1>4. Woken(p)
  BY <1>1, <1>2, <1>3 DEF WakeInv, Awaits
<1>5. PICK a \in Actors : Attends(a, p)
  BY <1>1, <1>4 DEF Woken, Parked
<1> QED BY <1>5 DEF Attends, Coming

\* Who parks makes a call that it may make; with one process on each side it is alone.
LEMMA AloneOnItsSide ==
  ASSUME OneEach, IInv, PlacesInv, WakeInv, NEW p \in Pids, Parked(p)
  PROVE  Alone(p)
<1>1. p \notin torn /\ pc[p] \in WaitPcs /\ p \in Actors
  BY ActorFacts DEF Parked, PlacesInv, Placed, WaitPcs, Late
<1>2. call[p].op \in {"read", "write"}
  BY <1>1, WaiterHolds DEF InCall
<1>3. /\ call[p].op = "read" => p \in MayRead
      /\ call[p].op = "write" => p \in MayWrite
  BY <1>1 DEF WakeInv, Orderly
<1> QED BY <1>2, <1>3 DEF OneEach, Alone

\* No caller that has its side to itself sleeps through what it waits for, and nobody
\* at all sleeps through a signal: in pipes of every size, with any number of processes,
\* whatever is preempted, signalled, killed or closed meanwhile, pipe.zig's wake() for it
\* is on its way.  A second writer does a reader no harm, nor a second reader a writer.
THEOREM SleepersAttended == Spec => []Attended
<1>1. Spec => []WakeInv
  BY InitWakeInv, NextWakeInv, PlacesHold, PTL DEF Spec
<1> QED BY <1>1, NobodyForgotten, PlacesHold, PTL

\* With one process on each side that is everybody: a parked caller that could go on, or
\* has a signal to take, has a wake() on its way.
THEOREM NobodySleepsOn ==
  ASSUME OneEach
  PROVE  Spec => []NoLostWake
<1>1. Spec => []WakeInv
  BY InitWakeInv, NextWakeInv, PlacesHold, PTL DEF Spec
<1>2. IInv /\ PlacesInv /\ WakeInv => NoLostWake
  BY NobodyForgotten, AloneOnItsSide DEF Attended, NoLostWake
<1> QED BY <1>1, <1>2, PlacesHold, PTL
=============================================================================
