-------------------------------- MODULE Pipe --------------------------------
(***************************************************************************)
(* One anonymous pipe of src/src/proc/pipe.zig: the ring, the counts of    *)
(* open ends, and the two wait slots, on the handshake of module Wait.     *)
(*                                                                         *)
(* A section under the pipe's spin lock is one action, and so is each of   *)
(* the three stores of the wake() that follows it.  A system call's body   *)
(* is no preemption point (check_and_preempt_dynirq), so a process leaves  *)
(* its CPU only where it parks, pages its buffer in, or runs in user mode. *)
(* Abstracted: fdpoll.wakePollers, the desktop's own sleep, the number of  *)
(* bytes a call reports, and threads that share a table of descriptors.    *)
(***************************************************************************)
EXTENDS Wait, FiniteSets, Sequences

CONSTANTS
  Bytes,
  Size,         \* PIPE_BUF_SIZE
  MaxLen,       \* longest transfer a caller asks for (bound)
  Payloads,     \* what writers write (bound)
  MaxRetries,   \* usercopy.MAX_FAULT_RETRIES
  Openers,      \* actors that make a new pipe (bound)
  MayRead, MayWrite, \* pids that call read and write (bound)
  Preemptible,  \* pids the tick may take off their CPU in user mode (bound)
  Killable,     \* pids somebody may ask to exit (bound)
  Signalable,   \* pids somebody may signal (bound)
  Faulty        \* pids whose buffer may be evicted during a call (bound)

ASSUME SizesAssumption ==
  /\ Size \in Nat \ {0} /\ MaxLen \in Nat \ {0} /\ MaxRetries \in Nat
  /\ Payloads \subseteq UNION {[1..n -> Bytes] : n \in 1..MaxLen}

ASSUME PidSetsAssumption ==
  /\ Openers \subseteq Actors
  /\ MayRead \cup MayWrite \cup Preemptible \cup Killable \cup Signalable \cup Faulty
       \subseteq Pids

VARIABLES
  buf, head, tail, count,       \* Pipe: the ring
  readers, writers, inUse,      \* Pipe: the open ends, the slot
  blockedReader, blockedWriter, \* Pipe: the wait slots, NoPid for 0xFF
  ends,     \* fd tables: the ends each actor holds
  call,     \* each actor's read() or write(): its locals, and how it ended
  tries,    \* fault_tries of each actor's call
  after,    \* where each actor goes on after its wake()
  sig,      \* pids with a deliverable signal pending
  exiting, torn, victim \* as in module RwMutex

ring     == <<buf, head, tail, count>>
slots    == <<readers, writers, inUse, blockedReader, blockedWriter>>
callVars == <<call, tries>>
killVars == <<exiting, torn, victim>>
vars     == <<waitVars, ring, slots, ends, callVars, after, sig, killVars>>

Desktop == Killer  \* the one context outside Pids: desktop, killer, sender
NoPid   == 0
Sides   == {"r", "w"}

NoCall == [op |-> "none", want |-> 0, seq |-> <<>>, end |-> "no"]
Data   == UNION {[1..n -> Bytes] : n \in 1..MaxLen}
Ends   == {"no", "ok", "short", "eof", "epipe", "signal", "fault"}
Calls  == [op : {"none", "read", "write"}, want : 0..MaxLen,
           seq : {<<>>} \cup Data, end : Ends]

Pcs == BlockPcs \cup {"pend", "clear", "makeReady", "resume", "acquire"} \cup
  {"idle", "loop", "presig", "unreg", "fault", "done", "try", "teardown", "exit", "dead"}

TypeOK ==
  /\ WaitTypeOK
  /\ pc \in [Actors -> Pcs]
  /\ buf \in [0..Size-1 -> Bytes]
  /\ head \in 0..Size-1 /\ tail \in 0..Size-1 /\ count \in 0..Size
  /\ readers \in 0..N+1 /\ writers \in 0..N+1 /\ inUse \in BOOLEAN
  /\ blockedReader \in Pids \cup {NoPid} /\ blockedWriter \in Pids \cup {NoPid}
  /\ ends \in [Actors -> SUBSET Sides]
  /\ call \in [Actors -> Calls]
  /\ tries \in [Actors -> 0..MaxRetries]
  /\ after \in [Actors -> Pcs]
  /\ sig \subseteq Pids /\ exiting \subseteq Pids /\ torn \subseteq Pids
  /\ victim \in Pids \cup {NoPid}

Init ==
  /\ WaitInit
  /\ pc = [a \in Actors |-> "idle"]
  /\ buf \in [0..Size-1 -> Bytes] /\ head = 0 /\ tail = 0 /\ count = 0
  /\ readers = 0 /\ writers = 0 /\ inUse = FALSE
  /\ blockedReader = NoPid /\ blockedWriter = NoPid
  /\ ends = [a \in Actors |-> {}]
  /\ call = [a \in Actors |-> NoCall]
  /\ tries = [a \in Actors |-> 0]
  /\ after = [a \in Actors |-> "idle"]
  /\ sig = {} /\ exiting = {} /\ torn = {} /\ victim = NoPid

-----------------------------------------------------------------------------
(* The ring, under the lock. *)

Least(S) == CHOOSE x \in S : \A y \in S : x <= y

\* Mutants: the bytes there are, and the end of the ring, are not looked at.
ReadChunkUpToEnd(want) == Least({want, Size - tail})
WriteChunkAcrossEnd(left) == Least({left, Size - count})

\* Contiguous bytes a read of `want`, a write of `left`, can move at once.
ReadChunk(want) == Least({want, count, Size - tail})
WriteChunk(left) == Least({left, Size - count, Size - head})

\* The k oldest bytes, k contiguous; the content of the ring in order.
Oldest(k) == [i \in 1..k |-> buf[tail + i - 1]]
Content == [i \in 1..count |-> buf[(tail + i - 1) % Size]]

\* Mutant of Pop: the offset is not wrapped.
PopUnwrapped(k) ==
  /\ tail' = IF tail + k < Size THEN tail + k ELSE Size - 1
  /\ count' = count - k
  /\ UNCHANGED <<buf, head>>

Pop(k) ==
  /\ tail' = (tail + k) % Size
  /\ count' = count - k
  /\ UNCHANGED <<buf, head>>

Push(s) ==
  /\ buf' = [i \in 0..Size-1 |->
               IF i \in head..head + Len(s) - 1 THEN s[i - head + 1] ELSE buf[i]]
  /\ head' = (head + Len(s)) % Size
  /\ count' = count + Len(s)
  /\ UNCHANGED tail

\* A section that took `w` out of a wait slot: unlock, wake w, go on at l.
WakeThen(a, w, l) ==
  IF w = NoPid
    THEN Go(a, l) /\ UNCHANGED <<idx, after>>
    ELSE /\ Go(a, "pend")
         /\ idx' = [idx EXCEPT ![a] = w]
         /\ after' = [after EXCEPT ![a] = l]

\* The stores of wake().
WakeEnd(a) ==
  /\ MakeReady(a)
  /\ Go(a, after[a])
  /\ after' = [after EXCEPT ![a] = "idle"]
  /\ EndScan(a)

Waking(a) ==
  /\ \/ (WakePend(a) \/ WakeClear(a)) /\ UNCHANGED after
     \/ WakeEnd(a)
  /\ UNCHANGED <<ring, slots, ends, callVars, sig, killVars>>

-----------------------------------------------------------------------------
(* read() and write(). *)

StartRead(p) ==
  /\ At(p, "idle")
  /\ p \in MayRead /\ "r" \in ends[p]
  /\ \E n \in 1..MaxLen :
       call' = [call EXCEPT ![p] = [NoCall EXCEPT !.op = "read", !.want = n]]
  /\ tries' = [tries EXCEPT ![p] = 0]
  /\ Go(p, "loop")
  /\ UNCHANGED <<taskVars, idx, ring, slots, ends, after, sig, killVars>>

StartWrite(p) ==
  /\ At(p, "idle")
  /\ p \in MayWrite /\ "w" \in ends[p]
  /\ \E d \in Payloads :
       call' = [call EXCEPT ![p] = [NoCall EXCEPT !.op = "write", !.seq = d]]
  /\ tries' = [tries EXCEPT ![p] = 0]
  /\ Go(p, "loop")
  /\ UNCHANGED <<taskVars, idx, ring, slots, ends, after, sig, killVars>>

Looping(p, o) == At(p, "loop") /\ call[p].op = o

End(p, why) == call' = [call EXCEPT ![p].end = why]

\* The copy of `done` of `n` bytes stops short when the buffer is not there.
CopyOutcomes(p, n) == IF p \in Faulty THEN 0..n ELSE {n}

ReadCopy(p) ==
  LET n == ReadChunk(call[p].want)
  IN /\ Looping(p, "read")
     /\ count > 0
     /\ \E done \in CopyOutcomes(p, n) :
          LET whole == done = call[p].want
          IN /\ Pop(done)
             /\ call' = [call EXCEPT ![p].want = @ - done,
                                     ![p].seq = @ \o Oldest(done),
                                     ![p].end = IF whole THEN "ok" ELSE "no"]
             /\ blockedWriter' = IF done > 0 THEN NoPid ELSE blockedWriter
             /\ WakeThen(p, IF done > 0 THEN blockedWriter ELSE NoPid,
                  IF whole THEN "done" ELSE IF done < n THEN "fault" ELSE "loop")
     /\ UNCHANGED <<taskVars, readers, writers, inUse, blockedReader, ends, tries,
                    sig, killVars>>

\* Nothing to read: end of file, a short read, or the wait slot.
ReadEmpty(p) ==
  /\ Looping(p, "read")
  /\ count = 0
  /\ IF writers = 0 \/ call[p].seq # <<>>
       THEN /\ End(p, IF writers = 0 /\ call[p].seq = <<>> THEN "eof" ELSE "short")
            /\ Go(p, "done")
            /\ UNCHANGED blockedReader
       ELSE /\ blockedReader' = p
            /\ Go(p, "presig")
            /\ UNCHANGED call
  /\ UNCHANGED <<taskVars, idx, ring, readers, writers, inUse, blockedWriter, ends,
                 tries, after, sig, killVars>>

WriteBroken(p) ==
  /\ Looping(p, "write")
  /\ readers = 0
  /\ End(p, "epipe")
  /\ Go(p, "done")
  /\ UNCHANGED <<taskVars, idx, ring, slots, ends, tries, after, sig, killVars>>

WriteCopy(p) ==
  LET left == Len(call[p].seq)
      n    == WriteChunk(left)
  IN /\ Looping(p, "write")
     /\ readers > 0
     /\ count < Size
     /\ \E done \in CopyOutcomes(p, n) :
          LET whole == done = left
          IN /\ Push(SubSeq(call[p].seq, 1, done))
             /\ call' = [call EXCEPT ![p].seq = SubSeq(@, done + 1, left),
                                     ![p].end = IF whole THEN "ok" ELSE "no"]
             /\ blockedReader' = IF done > 0 THEN NoPid ELSE blockedReader
             /\ WakeThen(p, IF done > 0 THEN blockedReader ELSE NoPid,
                  IF whole THEN "done" ELSE IF done < n THEN "fault" ELSE "loop")
     /\ UNCHANGED <<taskVars, readers, writers, inUse, blockedWriter, ends, tries,
                    sig, killVars>>

WriteFull(p) ==
  /\ Looping(p, "write")
  /\ readers > 0
  /\ count = Size
  /\ blockedWriter' = p
  /\ Go(p, "presig")
  /\ UNCHANGED <<taskVars, idx, ring, readers, writers, inUse, blockedReader, ends,
                 callVars, after, sig, killVars>>

\* faultInReadable and faultInWritable: paged in, given up, or tried too often.
Resolve(p) ==
  /\ At(p, "fault")
  /\ \/ /\ tries[p] < MaxRetries
        /\ tries' = [tries EXCEPT ![p] = @ + 1]
        /\ Go(p, "loop")
        /\ UNCHANGED call
     \/ /\ End(p, "fault")
        /\ Go(p, "done")
        /\ UNCHANGED tries
  /\ UNCHANGED <<taskVars, idx, ring, slots, ends, after, sig, killVars>>

\* blockOnInterruptible looks for a signal before blockOn and after it.
PreSignal(p) ==
  /\ At(p, "presig")
  /\ Go(p, IF p \in sig THEN "unreg" ELSE "test")
  /\ UNCHANGED <<taskVars, idx, ring, slots, ends, callVars, after, sig, killVars>>

Blocking(p) ==
  /\ \/ BlockStep(p, FALSE)
     \/ p \notin exiting /\ Yield(p)
  /\ UNCHANGED <<ring, slots, ends, callVars, after, sig, killVars>>

PostSignal(p) ==
  /\ At(p, "acquire")
  /\ Go(p, IF p \in sig THEN "unreg" ELSE "loop")
  /\ UNCHANGED <<taskVars, idx, ring, slots, ends, callVars, after, sig, killVars>>

ClearOwn(slot, p) == IF slot = p THEN NoPid ELSE slot

\* Signalled: only the caller's own registration is taken back.
Unregister(p) ==
  /\ At(p, "unreg")
  /\ IF call[p].op = "read"
       THEN blockedReader' = ClearOwn(blockedReader, p) /\ UNCHANGED blockedWriter
       ELSE blockedWriter' = ClearOwn(blockedWriter, p) /\ UNCHANGED blockedReader
  /\ End(p, "signal")
  /\ Go(p, "done")
  /\ UNCHANGED <<taskVars, idx, ring, readers, writers, inUse, ends, tries, after,
                 sig, killVars>>

\* Back to user mode, where the pending signal is delivered.
Return(p) ==
  /\ At(p, "done")
  /\ call' = [call EXCEPT ![p] = NoCall]
  /\ tries' = [tries EXCEPT ![p] = 0]
  /\ sig' = sig \ {p}
  /\ Go(p, "idle")
  /\ UNCHANGED <<taskVars, idx, ring, slots, ends, after, killVars>>

-----------------------------------------------------------------------------
(* The calls that never wait. *)

TryRead(a) ==
  /\ At(a, "idle")
  /\ "r" \in ends[a]
  /\ count > 0
  /\ \E k \in 1..count : k <= MaxLen /\ Pop(k)
  /\ blockedWriter' = NoPid
  /\ WakeThen(a, blockedWriter, "idle")
  /\ UNCHANGED <<taskVars, readers, writers, inUse, blockedReader, ends, callVars,
                 sig, killVars>>

\* tryWrite, which only the desktop calls, looks at readers before the lock ...
TryWrite(a) ==
  /\ a = Desktop /\ At(a, "idle")
  /\ "w" \in ends[a]
  /\ readers > 0
  /\ Go(a, "try")
  /\ UNCHANGED <<taskVars, idx, ring, slots, ends, callVars, after, sig, killVars>>

\* ... and then pushes what fits, at once or around the end of the ring.
Wrapped(s) ==
  /\ buf' = [i \in 0..Size-1 |->
               LET k == (i + Size - head) % Size
               IN IF k < Len(s) THEN s[k + 1] ELSE buf[i]]
  /\ head' = (head + Len(s)) % Size
  /\ count' = count + Len(s)
  /\ UNCHANGED tail

TryPush(a) ==
  /\ At(a, "try")
  /\ \E d \in Payloads :
       LET n == Least({Len(d), Size - count})
       IN /\ Wrapped(SubSeq(d, 1, n))
          /\ blockedReader' = IF n > 0 THEN NoPid ELSE blockedReader
          /\ WakeThen(a, IF n > 0 THEN blockedReader ELSE NoPid, "idle")
  /\ UNCHANGED <<taskVars, readers, writers, inUse, blockedWriter, ends, callVars,
                 sig, killVars>>

-----------------------------------------------------------------------------
(* The ends: alloc, addReader, addWriter, closeReader, closeWriter. *)

Alloc(a) ==
  /\ a \in Openers /\ At(a, "idle")
  /\ ~inUse
  /\ inUse' = TRUE
  /\ head' = 0 /\ tail' = 0 /\ count' = 0
  /\ readers' = 1 /\ writers' = 1
  /\ blockedReader' = NoPid /\ blockedWriter' = NoPid
  /\ ends' = [ends EXCEPT ![a] = Sides]
  /\ UNCHANGED <<waitVars, buf, callVars, after, sig, killVars>>

\* A child, or a remapped descriptor, gets an end of its parent's.
Inherit(a, p, e) ==
  /\ At(a, "idle")
  /\ pc[p] = "idle" /\ p \notin torn
  /\ p \in IF e = "r" THEN MayRead ELSE MayWrite
  /\ e \in ends[a] \ ends[p]
  /\ ends' = [ends EXCEPT ![p] = @ \cup {e}]
  /\ IF e = "r" THEN readers' = readers + 1 /\ UNCHANGED writers
                ELSE writers' = writers + 1 /\ UNCHANGED readers
  /\ UNCHANGED <<waitVars, ring, inUse, blockedReader, blockedWriter, callVars, after,
                 sig, killVars>>

\* Mutant of Peer: only the last close of a side looks at the waiter.
PeerOfLast(e) ==
  CASE e = "r" /\ readers = 1 -> blockedWriter
    [] e = "w" /\ writers = 1 -> blockedReader
    [] OTHER -> NoPid

\* Mutant of Peer: a close wakes nobody.
PeerNobody(e) == NoPid

\* Who may be waiting for the side that closes.
Peer(e) == IF e = "r" THEN blockedWriter ELSE blockedReader

\* Mutant of Vacant: the slot is free when one side is closed.
VacantEither == readers' = 0 \/ writers' = 0

Vacant == readers' = 0 /\ writers' = 0

\* closeReader, closeWriter by a of an end p holds.
CloseEnd(a, p, e, l) ==
  /\ ends' = [ends EXCEPT ![p] = @ \ {e}]
  /\ readers' = IF e = "r" THEN readers - 1 ELSE readers
  /\ writers' = IF e = "w" THEN writers - 1 ELSE writers
  /\ blockedWriter' = IF e = "r" THEN NoPid ELSE blockedWriter
  /\ blockedReader' = IF e = "w" THEN NoPid ELSE blockedReader
  /\ inUse' = (inUse /\ ~Vacant)
  /\ WakeThen(a, Peer(e), l)

Close(a, e) ==
  /\ At(a, "idle")
  /\ e \in ends[a]
  /\ CloseEnd(a, a, e, "idle")
  /\ UNCHANGED <<taskVars, ring, callVars, sig, killVars>>

-----------------------------------------------------------------------------
(* Signals and death. *)

\* signals.send: the pending bit, then wake().
Send(p) ==
  /\ At(Killer, "idle")
  /\ p \in Signalable \ (sig \cup torn)
  /\ sig' = sig \cup {p}
  /\ WakeThen(Killer, p, "idle")
  /\ UNCHANGED <<taskVars, ring, slots, ends, callVars, killVars>>

Deliver(p) ==
  /\ At(p, "idle")
  /\ p \in sig
  /\ sig' = sig \ {p}
  /\ UNCHANGED <<waitVars, ring, slots, ends, callVars, after, killVars>>

RequestKill(p) ==
  /\ p \in Killable \ exiting
  /\ exiting' = exiting \cup {p}
  /\ UNCHANGED <<waitVars, ring, slots, ends, callVars, after, sig, torn, victim>>

KillOffCpu(p) ==
  /\ p \in exiting \ torn
  /\ pc[Killer] = "idle"
  /\ state[p] \in {"ready", "sleeping"}
  /\ ~onCpu[p]
  /\ state' = [state EXCEPT ![p] = "zombie"]
  /\ torn' = torn \cup {p}
  /\ victim' = p
  /\ Go(Killer, "teardown")
  /\ UNCHANGED <<onCpu, wakePending, wait, idx, ring, slots, ends, callVars, after, sig,
                 exiting>>

\* Where schedule() can be entered on p other than by its own yield: in user
\* mode and where its buffer is paged in.
MaySchedule(p) == MayPreempt(p) /\ p \notin torn /\ pc[p] \in {"idle", "fault"}

SelfDestroy(p) ==
  /\ p \in exiting \ torn
  /\ onCpu[p]
  /\ pc[p] = "yield" \/ MaySchedule(p)
  /\ torn' = torn \cup {p}
  /\ Go(p, "teardown")
  /\ UNCHANGED <<taskVars, idx, ring, slots, ends, callVars, after, sig, exiting, victim>>

Dying(a) == IF a = Killer THEN victim ELSE a

\* closePipeFds, one descriptor at a time.
TearDown(a) ==
  LET p == Dying(a)
  IN /\ At(a, "teardown")
     /\ IF ends[p] # {}
          THEN /\ \E e \in ends[p] : CloseEnd(a, p, e, "teardown")
               /\ UNCHANGED <<ring, callVars, sig, victim>>
          ELSE /\ Go(a, IF a = Killer THEN "idle" ELSE "exit")
               /\ call' = [call EXCEPT ![p] = NoCall]
               /\ tries' = [tries EXCEPT ![p] = 0]
               /\ sig' = sig \ {p}
               /\ victim' = IF a = Killer THEN NoPid ELSE victim
               /\ UNCHANGED <<idx, ring, slots, ends, after>>
     /\ UNCHANGED <<taskVars, exiting, torn>>

Exit(p) ==
  /\ At(p, "exit")
  /\ state' = [state EXCEPT ![p] = "zombie"]
  /\ onCpu' = [onCpu EXCEPT ![p] = FALSE]
  /\ Go(p, "dead")
  /\ UNCHANGED <<wakePending, wait, idx, ring, slots, ends, callVars, after, sig, killVars>>

-----------------------------------------------------------------------------
CallStep(p) ==
  \/ ReadCopy(p) \/ ReadEmpty(p)
  \/ WriteBroken(p) \/ WriteCopy(p) \/ WriteFull(p)
  \/ Resolve(p) \/ PreSignal(p) \/ Blocking(p) \/ PostSignal(p)
  \/ Unregister(p) \/ Return(p)

\* What a task does with no choice of its own.
TaskStep(p) == CallStep(p) \/ TryPush(p) \/ Waking(p) \/ TearDown(p) \/ Exit(p)

KillerStep == TryPush(Killer) \/ Waking(Killer) \/ TearDown(Killer)

DispatchTask(p) ==
  /\ Dispatch(p, exiting)
  /\ UNCHANGED <<ring, slots, ends, callVars, after, sig, killVars>>

PreemptTask(p) ==
  /\ p \in Preemptible \ exiting
  /\ MaySchedule(p)
  /\ Preempt(p)
  /\ UNCHANGED <<ring, slots, ends, callVars, after, sig, killVars>>

Choice(a) ==
  \/ TryRead(a) \/ TryWrite(a)
  \/ Alloc(a)
  \/ \E e \in Sides : Close(a, e) \/ \E p \in Pids : Inherit(a, p, e)

Next ==
  \/ \E p \in Pids :
       \/ StartRead(p) \/ StartWrite(p)
       \/ TaskStep(p)
       \/ DispatchTask(p) \/ PreemptTask(p)
       \/ Send(p) \/ Deliver(p)
       \/ RequestKill(p) \/ KillOffCpu(p) \/ SelfDestroy(p)
  \/ \E a \in Actors : Choice(a)
  \/ KillerStep

\* As in module RwMutex.
Fairness ==
  /\ \A p \in Pids : SF_vars(TaskStep(p)) /\ SF_vars(DispatchTask(p))
  /\ \A p \in Killable : WF_vars(SelfDestroy(p)) /\ SF_vars(KillOffCpu(p))
  /\ WF_vars(KillerStep)

Spec == Init /\ [][Next]_vars
FairSpec == Spec /\ Fairness

-----------------------------------------------------------------------------
(* Properties. *)

\* pipe.validate, which the timer runs: head, tail and count agree, and a pipe
\* in use holds no bytes that nobody could ever read or write.
Validate ==
  inUse => /\ (tail + count) % Size = head
           /\ count > 0 => readers + writers > 0

\* The counts are the descriptors: no close frees the slot under a holder, and
\* no slot outlives its last one.
Holders(e) == {a \in Actors : e \in ends[a]}

EndsCounted ==
  /\ readers = Cardinality(Holders("r")) /\ writers = Cardinality(Holders("w"))
  /\ inUse = (readers + writers > 0)

\* Off its CPU in the call, and not to be dispatched.
Parked(p) == /\ pc[p] = "resume" /\ ~onCpu[p]
             /\ \/ state[p] = "sleeping"
                \/ state[p] = "ready" /\ wait[p] = "enrolled"

\* What p waits for is there.
Ready(p) == IF call[p].op = "read" THEN count > 0 \/ writers = 0
                                   ELSE count < Size \/ readers = 0

Coming(p) == \E a \in Actors :
  pc[a] \in {"pend", "clear", "makeReady"} /\ idx[a] = p

\* The park race the lock was widened for: a parked reader or writer that could
\* go on, or has a signal to take, has a wake() on its way.
NoLostWake == \A p \in Pids : Parked(p) /\ (Ready(p) \/ p \in sig) => Coming(p)

\* Whatever the ring and the wait slots do, the callers see a queue of bytes.
Stream == INSTANCE ByteStream WITH queue <- IF inUse THEN Content ELSE <<>>

IsByteStream == Stream!Spec

\* "Wakes any blocked reader (so it sees writers==0 and returns 0 / EOF instead
\* of sleeping forever)", and its counterpart for a blocked writer.
HangUpEnds ==
  /\ \A p \in MayRead : (call[p].op = "read" /\ writers = 0) ~> (call[p].op = "none")
  /\ \A p \in MayWrite : (call[p].op = "write" /\ readers = 0) ~> (call[p].op = "none")

\* "Returns the number of bytes read; 0 indicates EOF (writer side fully
\* closed)": a read that comes back with nothing found the writers gone.
ZeroIsEof ==
  \A p \in Pids :
    pc[p] = "done" /\ call[p].op = "read" /\ call[p].seq = <<>> /\ call[p].end # "fault"
      => writers = 0
=============================================================================
