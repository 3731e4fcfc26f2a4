------------------------------ MODULE PmemLog ------------------------------
(***************************************************************************)
(* The append-only log in persistent memory, mm/pmem_log.zig, under losses *)
(* of power: a boot recovers the log, adds a record of its own, and leaves *)
(* a torn one behind it for the next boot to see through.                  *)
(*                                                                         *)
(* The region is an array of 4-byte words.  A store goes to the cache; it  *)
(* is durable after writeAt's flush and fence, and any part of it may be   *)
(* so before.  A power loss keeps what is durable.                         *)
(*                                                                         *)
(* The checksum is taken at its weakest: it tells sequence numbers apart,  *)
(* not what else is in a body.  What makes a record whole is then the      *)
(* order of its two writes.  All records are of one size, the boot         *)
(* counter's; its number stands for its two words.                         *)
(***************************************************************************)
EXTENDS Naturals, Sequences

CONSTANTS
  Size,       \* words in the region, the header's included
  MaxBoots    \* boots (bound)

ASSUME PmemAssumption == Size \in Nat /\ Size >= 4 /\ MaxBoots \in Nat

VARIABLES
  mem,      \* the region as the processor sees it
  dur,      \* the region as a loss of power would leave it
  pc,       \* where logBoot is
  boot,     \* the boot counter
  tail,     \* tail_off
  seq,      \* next_seq, which is also "committed"
  mark      \* the checksum of the body just written

vars == <<mem, dur, pc, boot, tail, seq, mark>>

Word == 0..(Size - 1)

\* A word that is a number; the checksum of a body; its complement.
Num(n)    == <<0, n>>
Crc(body) == <<1, body[1][2]>>
Not(crc)  == <<2, crc[2]>>
Zero      == Num(0)
Magic   == Num(1)

Base       == 4   \* ENTRIES_BASE: magic and capacity before it, two words each
MaxPayload == 64
TornWords  == 5

\* align8(seq ++ len ++ payload ++ crc), in words.
EntrySpan(len) == ((4 + len + 1) \div 2) * 2

\* The body of an entry: 8 bytes of sequence number, the length, the payload.
Body(n, payload) == <<Num(n), Zero, Num(Len(payload))>> \o payload

Record(b) == <<Num(b), Zero>>
Marker    == [i \in 1..TornWords |-> Zero]

TypeOK ==
  /\ DOMAIN mem = Word /\ DOMAIN dur = Word
  /\ pc \in {"down", "magic", "magicFence", "capacity", "capacityFence",
             "append", "bodyFence", "commit", "commitFence", "inject",
             "tornFence", "tornMark", "tornMarkFence", "done"}
  /\ boot \in 0..MaxBoots
  /\ tail \in Base..Size /\ seq \in 0..MaxBoots
  /\ seq > 0 => tail = Base + seq * EntrySpan(2)

Init ==
  /\ mem = [i \in Word |-> Zero] /\ dur = mem
  /\ pc = "down" /\ boot = 0
  /\ tail = Base /\ seq = 0 /\ mark = Zero

Go(l) == pc' = l

-----------------------------------------------------------------------------
(* Reading the region m back.                                              *)

LenAt(m, off)  == m[off + 2]
BodyAt(m, off, len) == [i \in 1..(3 + len) |-> m[off + i - 1]]

\* A length that is no number is taken to be out of range.
Plausible(w) == w[1] = 0 /\ w[2] \in 1..MaxPayload

\* Mutant of EntryValid: whatever is in the checksum's place will do.
EntryValidUnread(m, off, len) == TRUE

EntryValid(m, off, len) == m[off + 3 + len] = Crc(BodyAt(m, off, len))

\* The loop of recover goes on past the entry at off, the n-th.
Accepts(m, off, n) ==
  /\ off + 4 <= Size
  /\ Plausible(LenAt(m, off))
  /\ LET len == LenAt(m, off)[2]
     IN /\ off + EntrySpan(len) <= Size
        /\ EntryValid(m, off, len)
        /\ m[off] = Num(n) /\ m[off + 1] = Zero

\* The entries from off on, the first with number n: their payloads' first
\* words, and where they end.
Scan(m) ==
  LET from[p \in (0..Size) \X (0..Size)] ==
        IF Accepts(m, p[1], p[2])
          THEN LET len  == LenAt(m, p[1])[2]
                   rest == from[<<p[1] + EntrySpan(len), p[2] + 1>>]
               IN [log |-> <<m[p[1] + 3][2]>> \o rest.log, end |-> rest.end]
          ELSE [log |-> <<>>, end |-> p[1]]
  IN from[<<Base, 0>>]

-----------------------------------------------------------------------------
(* recover.                                                                *)

HasMagic(m) == m[0] = Magic

Recover ==
  /\ pc = "down" /\ boot < MaxBoots
  /\ boot' = boot + 1
  /\ IF HasMagic(mem)
       THEN /\ tail' = Scan(mem).end
            /\ seq' = Len(Scan(mem).log)
            /\ Go("append")
       ELSE /\ tail' = Base /\ seq' = 0
            /\ Go("magic")
  /\ UNCHANGED <<mem, dur, mark>>

\* The words ws stored from off on.
Put(off, ws) == mem' = [i \in Word |-> IF i \in off..(off + Len(ws) - 1)
                                         THEN ws[i - off + 1] ELSE mem[i]]

Step(from, off, ws, to) ==
  /\ pc = from
  /\ Put(off, ws)
  /\ Go(to)
  /\ UNCHANGED <<dur, boot, tail, seq>>

\* persistRange: flush and fence.
Fence(from, to) ==
  /\ pc = from
  /\ dur' = mem
  /\ Go(to)
  /\ UNCHANGED <<mem, boot, mark>>

PutMagic    == Step("magic", 0, <<Magic, Zero>>, "magicFence") /\ UNCHANGED mark
PutCapacity == Step("capacity", 2, <<Num(Size), Zero>>, "capacityFence")
                 /\ UNCHANGED mark

-----------------------------------------------------------------------------
(* append and injectTornTail.                                              *)

Fits(len) == tail + EntrySpan(len) <= Size

\* Mutant of WriteBody: body and mark in one writeAt.
WriteBodyMarked(from, payload, to) ==
  LET b == Body(seq, payload)
  IN Step(from, tail, b \o <<Crc(b)>>, to) /\ mark' = Crc(b)

\* writeBody, up to its fence: the caller gets the checksum.
WriteBody(from, payload, to) ==
  /\ Step(from, tail, Body(seq, payload), to)
  /\ mark' = Crc(Body(seq, payload))

AppendBody == Fits(2) /\ WriteBody("append", Record(boot), "bodyFence")

\* The log is full: nothing is logged any more.
Full(from, len, to) ==
  /\ pc = from /\ ~Fits(len)
  /\ Go(to)
  /\ UNCHANGED <<mem, dur, boot, tail, seq, mark>>

CommitMark == Step("commit", tail + 5, <<mark>>, "commitFence") /\ UNCHANGED mark

\* Mutant of Committed: the sequence number stays.
CommittedSameSeq == tail' = tail + EntrySpan(2) /\ UNCHANGED seq

\* Mutant of Committed: the tail stays.
CommittedInPlace == UNCHANGED tail /\ seq' = seq + 1

Committed == tail' = tail + EntrySpan(2) /\ seq' = seq + 1

CommitFence == Fence("commitFence", "inject") /\ Committed

TornBody == Fits(TornWords) /\ WriteBody("inject", Marker, "tornFence")

\* Mutant of Stamp: the checksum itself.
StampTrue(crc) == crc

Stamp(crc) == Not(crc)

TornMark == Step("tornMark", tail + 3 + TornWords,
                 <<Stamp(mark)>>, "tornMarkFence") /\ UNCHANGED mark

OtherFence ==
  /\ \/ Fence("magicFence", "capacity") \/ Fence("capacityFence", "append")
     \/ Fence("bodyFence", "commit") \/ Fence("tornFence", "tornMark")
     \/ Fence("tornMarkFence", "done")
  /\ UNCHANGED <<tail, seq>>

-----------------------------------------------------------------------------
\* The power fails: of the stores under way any part is durable.
Crash ==
  /\ pc # "down"
  /\ \E kept \in SUBSET {i \in Word : mem[i] # dur[i]} :
       dur' = [i \in Word |-> IF i \in kept THEN mem[i] ELSE dur[i]]
  /\ mem' = dur'
  /\ Go("down")
  /\ tail' = Base /\ seq' = 0 /\ mark' = Zero
  /\ UNCHANGED boot

Next ==
  \/ Recover \/ PutMagic \/ PutCapacity
  \/ AppendBody \/ CommitMark \/ CommitFence \/ TornBody \/ TornMark
  \/ OtherFence
  \/ Full("append", 2, "inject") \/ Full("inject", TornWords, "done")
  \/ Crash

Spec == Init /\ [][Next]_vars

-----------------------------------------------------------------------------
\* The log as a boot that found it now would recover it.
Recoverable == IF HasMagic(dur) THEN Scan(dur).log ELSE <<>>

Recovered == pc \notin {"down", "magic", "magicFence", "capacity", "capacityFence"}

Durable == INSTANCE DurableLog WITH
             log <- Recoverable, up <- Recovered, count <- seq

\* "A power loss in the middle of an append must never leave a half-written
\* record visible to the next boot", a committed record is never lost, moved
\* or changed, and what the running system believes is what is there.
IsDurableLog == Durable!Spec

\* The running system appends where recovery would end: its tail and number
\* are those a scan finds, whatever was left in the region before.
TailIsFree ==
  pc \in {"append", "inject", "done"} =>
    LET found == Scan(mem)
    IN found.end = tail /\ Len(found.log) = seq
=============================================================================
