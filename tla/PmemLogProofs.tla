--------------------------- MODULE PmemLogProofs ---------------------------
(***************************************************************************)
(* What the log in persistent memory promises, for every size of the       *)
(* region and every number of boots: recovery ends where the running       *)
(* system appends, and through every loss of power the log is the one      *)
(* that DurableLog describes.                                              *)
(*                                                                         *)
(* The scan is a recursive function.  That there is one, and what it finds *)
(* in a region that holds n records, is by induction; the library's        *)
(* theorem about it takes an operator, so it is stated here for sets.      *)
(***************************************************************************)
EXTENDS PmemLog, SequenceTheorems, WellFoundedInduction, TLAPS

-----------------------------------------------------------------------------
(* Induction.                                                              *)

\* A set of naturals that is not empty has a least element.
LEMMA Least ==
  ASSUME NEW T \in SUBSET Nat, T # {}
  PROVE  \E x \in T : \A y \in T : ~(y < x)
<1> DEFINE R == OpToRel(<, Nat)
<1>1. \E x \in T : \A y \in T : ~(<<y, x>> \in R)
  <2> HIDE DEF R
  <2>1. IsWellFoundedOn(R, Nat)
    BY NatLessThanWellFounded DEF R
  <2> QED BY <2>1, WFMin
<1>2. \A x, y \in T : y < x => <<y, x>> \in R
  BY DEF OpToRel
<1> QED BY <1>1, <1>2

\* A set of naturals with zero, and with the successor of each of its elements,
\* is all of them.
LEMMA SetInduction ==
  ASSUME NEW T \in SUBSET Nat, 0 \in T, \A n \in T : n + 1 \in T
  PROVE  T = Nat
<1> SUFFICES ASSUME Nat \ T # {} PROVE FALSE
  OBVIOUS
<1>1. PICK x \in Nat \ T : \A y \in Nat \ T : ~(y < x)
  BY Least
<1>2. x # 0 /\ x - 1 \in Nat /\ x - 1 < x
  OBVIOUS
<1>3. x - 1 \in T
  BY <1>1, <1>2
<1>4. x - 1 + 1 \in T
  BY <1>3
<1> QED BY <1>2, <1>4

-----------------------------------------------------------------------------
(* A region that holds n records.                                          *)

Words  == {0, 1, 2} \X Nat
Region == [Word -> Words]

\* Where the n-th record begins, the first being number 0.
Off(n) == Base + 6 * n

\* The n-th record is there, with its mark.
Whole(m, n) ==
  /\ Off(n) + 6 <= Size
  /\ m[Off(n)] = Num(n) /\ m[Off(n) + 1] = Zero /\ m[Off(n) + 2] = Num(2)
  /\ m[Off(n) + 5] = <<1, n>>

\* So are all before the n-th, and there is no mark of another.
Holds(m, n) ==
  /\ Off(n) <= Size
  /\ \A k \in 0..(n - 1) : Whole(m, k)
  /\ \A i \in Word : m[i][1] = 1 => m[i][2] < n

LogOf(m, n) == [k \in 1..n |-> m[Off(k - 1) + 3][2]]

\* Spans of entries: of a record, of a torn one, of any.
LEMMA Spans ==
  /\ EntrySpan(2) = 6 /\ EntrySpan(TornWords) = 10
  /\ \A len \in 1..MaxPayload : EntrySpan(len) \in 6..70 /\ 4 + len <= EntrySpan(len)
BY DEF EntrySpan, TornWords, MaxPayload

-----------------------------------------------------------------------------
(* The scan.                                                               *)

Places == (0..Size) \X (0..Size)

After(m, p) == <<p[1] + EntrySpan(LenAt(m, p[1])[2]), p[2] + 1>>

\* One round of the loop: what it returns if rest is what the later ones do.
Round(m, rest, p) ==
  IF Accepts(m, p[1], p[2])
    THEN [log |-> <<m[p[1] + 3][2]>> \o rest[After(m, p)].log,
          end |-> rest[After(m, p)].end]
    ELSE [log |-> <<>>, end |-> p[1]]

\* The loop goes forward, and not past the records there are.
LEMMA Forward ==
  ASSUME NEW m \in Region, NEW n \in Nat, Holds(m, n), NEW p \in Places,
         Accepts(m, p[1], p[2])
  PROVE  /\ p[2] < n
         /\ After(m, p) \in Places
         /\ After(m, p)[1] > p[1]
<1> DEFINE off == p[1]
           len == LenAt(m, off)[2]
<1>1. off \in 0..Size /\ p[2] \in 0..Size
  BY DEF Places
<1>2. len \in 1..MaxPayload /\ off + EntrySpan(len) <= Size
  BY DEF Accepts, Plausible
<1>3. m[off] = Num(p[2]) /\ m[off + 3 + len] = Crc(BodyAt(m, off, len))
  BY DEF Accepts, EntryValid
<1>4. EntrySpan(len) \in 6..70 /\ 4 + len <= EntrySpan(len)
  BY <1>2, Spans
<1>5. off + 3 + len \in Word
  BY <1>1, <1>2, <1>4, PmemAssumption DEF Word, MaxPayload
<1>6. BodyAt(m, off, len)[1] = m[off]
  <2> HIDE DEF off, len
  <2>1. 1 \in 1..(3 + len) /\ off + 1 - 1 = off
    BY <1>1, <1>2 DEF MaxPayload
  <2> QED BY <2>1 DEF BodyAt
<1>7. m[off + 3 + len] = <<1, p[2]>>
  BY <1>3, <1>6 DEF Crc, Num
<1>8. p[2] < n
  BY <1>5, <1>7 DEF Holds
<1>9. p[2] + 1 \in 0..Size
  BY <1>1, <1>8, PmemAssumption DEF Holds, Off, Base
<1>10. off + EntrySpan(len) \in 0..Size
  BY <1>1, <1>2, <1>4, PmemAssumption
<1> QED BY <1>1, <1>4, <1>8, <1>9, <1>10 DEF After, Places

\* There is a function that does what the loop does.
LEMMA ScanExists ==
  ASSUME NEW m \in Region, NEW n \in Nat, Holds(m, n)
  PROVE  \E f : f = [p \in Places |-> Round(m, f, p)]
<1> DEFINE Fits2(f, j) == \A p \in Places : p[1] + j > Size => f[p] = Round(m, f, p)
           T == {j \in Nat : \E f : f = [p \in Places |-> f[p]] /\ Fits2(f, j)}
<1>1. 0 \in T
  <2> DEFINE f == [p \in Places |-> 0]
  <2>1. f = [p \in Places |-> f[p]]
    OBVIOUS
  <2>2. Fits2(f, 0)
    BY PmemAssumption DEF Places
  <2> QED BY <2>1, <2>2
<1>2. ASSUME NEW j \in T
      PROVE  j + 1 \in T
  <2>1. PICK f : f = [p \in Places |-> f[p]] /\ Fits2(f, j)
    OBVIOUS
  <2> DEFINE g == [p \in Places |-> Round(m, f, p)]
  <2>2. g = [p \in Places |-> g[p]]
    OBVIOUS
  <2>3. ASSUME NEW p \in Places, p[1] + (j + 1) > Size
        PROVE  g[p] = Round(m, g, p)
    <3>1. CASE ~Accepts(m, p[1], p[2])
      BY <3>1 DEF Round
    <3>2. CASE Accepts(m, p[1], p[2])
      <4>1. After(m, p) \in Places /\ After(m, p)[1] > p[1]
        BY <3>2, Forward
      <4>2. After(m, p)[1] + j > Size
        BY <2>3, <4>1, PmemAssumption DEF Places
      <4>3. g[After(m, p)] = f[After(m, p)]
        BY <2>1, <4>1, <4>2
      <4> HIDE DEF g
      <4>4. g[p] = Round(m, f, p)
        BY DEF g
      <4> QED BY <3>2, <4>3, <4>4 DEF Round
    <3> QED BY <3>1, <3>2
  <2>4. Fits2(g, j + 1) /\ j + 1 \in Nat
    BY <2>3
  <2> HIDE DEF g, Fits2
  <2> QED BY <2>2, <2>4
<1>3. T = Nat
  <2> HIDE DEF T
  <2>1. T \in SUBSET Nat
    BY DEF T
  <2> QED BY <1>1, <1>2, <2>1, SetInduction
<1>4. Size + 1 \in T
  BY <1>3, PmemAssumption
<1>5. PICK f : f = [p \in Places |-> f[p]] /\ Fits2(f, Size + 1)
  BY <1>4
<1>6. \A p \in Places : f[p] = Round(m, f, p)
  <2>1. \A p \in Places : p[1] + (Size + 1) > Size
    BY PmemAssumption DEF Places
  <2> QED BY <1>5, <2>1
<1>7. [p \in Places |-> f[p]] = [p \in Places |-> Round(m, f, p)]
  BY <1>6
<1> QED BY <1>5, <1>7

\* The scan is that function.
LEMMA ScanIs ==
  ASSUME NEW m \in Region, NEW n \in Nat, Holds(m, n)
  PROVE  \E f : /\ f = [p \in Places |-> Round(m, f, p)]
                /\ Scan(m) = f[<<Base, 0>>]
<1> DEFINE from == CHOOSE f : f = [p \in Places |-> Round(m, f, p)]
<1>1. from = [p \in Places |-> Round(m, from, p)]
  BY ScanExists, Zenon
<1>2. Scan(m) = from[<<Base, 0>>]
  BY Zenon DEF Scan, Round, After, Places
<1> QED BY <1>1, <1>2

\* A whole record is accepted, and what follows it is the next place.
LEMMA Accepted ==
  ASSUME NEW m \in Region, NEW k \in Nat, Whole(m, k)
  PROVE  /\ Accepts(m, Off(k), k)
         /\ After(m, <<Off(k), k>>) = <<Off(k + 1), k + 1>>
<1> DEFINE off == Off(k)
<1>1. off \in Nat /\ off + 6 <= Size
  BY DEF Off, Base, Whole
<1>2. LenAt(m, off) = Num(2) /\ m[off] = Num(k) /\ m[off + 1] = Zero
  BY DEF Whole, LenAt
<1>3. EntrySpan(2) = 6 /\ 2 \in 1..MaxPayload
  BY Spans DEF MaxPayload
<1>4. m[off + 5] = <<1, k>> /\ off + 3 + 2 = off + 5
  BY <1>1 DEF Whole
<1>5. Crc(BodyAt(m, off, 2)) = <<1, k>>
  <2> HIDE DEF off
  <2>1. 1 \in 1..(3 + 2) /\ off + 1 - 1 = off
    BY <1>1
  <2>2. BodyAt(m, off, 2)[1] = m[off]
    BY <2>1 DEF BodyAt
  <2> QED BY <1>2, <2>2 DEF Crc, Num
<1>6. EntryValid(m, off, 2)
  BY <1>4, <1>5 DEF EntryValid
<1>7. Num(2)[1] = 0 /\ Num(2)[2] = 2
  BY DEF Num
<1>8. Accepts(m, off, k)
  <2> HIDE DEF off
  <2>1. off + 4 <= Size
    BY <1>1, PmemAssumption
  <2> QED BY <1>1, <1>2, <1>3, <1>6, <1>7, <2>1 DEF Accepts, Plausible
<1>9. After(m, <<off, k>>) = <<off + 6, k + 1>>
  BY <1>2, <1>3, <1>7 DEF After
<1>10. off + 6 = Off(k + 1)
  BY DEF Off, Base
<1> QED BY <1>8, <1>9, <1>10

\* Their payloads are in the region.
LEMMA Values ==
  ASSUME NEW m \in Region, NEW n \in Nat, Holds(m, n), NEW k \in 0..(n - 1)
  PROVE  m[Off(k) + 3] \in Words /\ m[Off(k) + 3][2] \in Nat
<1>1. Off(k) + 3 \in Word
  BY PmemAssumption DEF Holds, Off, Base, Word
<1> QED BY <1>1 DEF Region, Words

\* How many records there are.
LEMMA LogLen ==
  ASSUME NEW m \in Region, NEW n \in Nat, Holds(m, n)
  PROVE  LogOf(m, n) \in Seq(Nat) /\ Len(LogOf(m, n)) = n
<1>1. \A k \in 1..n : m[Off(k - 1) + 3][2] \in Nat
  BY Values
<1>2. LogOf(m, n) \in [1..n -> Nat]
  BY <1>1 DEF LogOf
<1> DEFINE s == LogOf(m, n)
<1> HIDE DEF s
<1>3. s \in Seq(Nat) /\ Len(s) = n
  <2>1. s \in [1..n -> Nat]
    BY <1>2 DEF s
  <2> QED BY <2>1, SeqDef
<1> QED BY <1>3 DEF s

\* In a region that holds n records the scan finds them, and ends behind them.
LEMMA ScanFinds ==
  ASSUME NEW m \in Region, NEW n \in Nat, Holds(m, n)
  PROVE  /\ Scan(m).end = Off(n)
         /\ Scan(m).log = LogOf(m, n)
<1>1. PICK f : /\ f = [p \in Places |-> Round(m, f, p)]
               /\ Scan(m) = f[<<Base, 0>>]
  BY ScanIs
<1> DEFINE Rest(k) == [j \in 1..(n - k) |-> m[Off(k + j - 1) + 3][2]]
           Good(k) == f[<<Off(k), k>>] = [log |-> Rest(k), end |-> Off(n)]
           T == {j \in Nat : j <= n => Good(n - j)}
<1>2. \A k \in 0..n : <<Off(k), k>> \in Places
  BY PmemAssumption DEF Holds, Off, Base, Places
<1>3. 0 \in T
  <2>1. ~Accepts(m, Off(n), n)
    <3> SUFFICES ASSUME Accepts(m, Off(n), n) PROVE FALSE
      OBVIOUS
    <3> DEFINE p == <<Off(n), n>>
    <3>1. p \in Places /\ p[1] = Off(n) /\ p[2] = n
      BY <1>2
    <3> HIDE DEF p
    <3>2. p[2] < n
      BY <3>1, Forward
    <3> QED BY <3>1, <3>2
  <2>2. f[<<Off(n), n>>] = [log |-> <<>>, end |-> Off(n)]
    <3>1. f[<<Off(n), n>>] = Round(m, f, <<Off(n), n>>)
      BY <1>1, <1>2
    <3> QED BY <2>1, <3>1 DEF Round
  <2>3. Rest(n) = <<>>
    OBVIOUS
  <2>4. Good(n) /\ n - 0 = n
    BY <2>2, <2>3
  <2> HIDE DEF Good
  <2> QED BY <2>4
<1>4. ASSUME NEW j \in T
      PROVE  j + 1 \in T
  <2> SUFFICES ASSUME j + 1 <= n PROVE Good(n - (j + 1))
    <3> HIDE DEF Good
    <3>1. j \in Nat
      OBVIOUS
    <3> QED BY <3>1
  <2> DEFINE k == n - (j + 1)
  <2>1. k \in 0..(n - 1) /\ k + 1 = n - j /\ k \in Nat
    OBVIOUS
  <2> HIDE DEF k
  <2>2. Good(k + 1)
    <3> HIDE DEF Good
    <3> QED BY <2>1
  <2>3. Whole(m, k)
    BY <2>1 DEF Holds
  <2>4. f[<<Off(k), k>>] = Round(m, f, <<Off(k), k>>)
    BY <1>1, <1>2, <2>1
  <2>5. Round(m, f, <<Off(k), k>>) =
          [log |-> <<m[Off(k) + 3][2]>> \o Rest(k + 1), end |-> Off(n)]
    <3> DEFINE p == <<Off(k), k>>
    <3>1. Accepts(m, p[1], p[2]) /\ After(m, p) = <<Off(k + 1), k + 1>>
      BY <2>1, <2>3, Accepted
    <3>2. p[1] = Off(k)
      OBVIOUS
    <3>3. f[After(m, p)] = [log |-> Rest(k + 1), end |-> Off(n)]
      BY <2>2, <3>1
    <3> HIDE DEF p, Rest
    <3>4. f[After(m, p)].log = Rest(k + 1) /\ f[After(m, p)].end = Off(n)
      BY <3>3
    <3>5. Round(m, f, p) = [log |-> <<m[Off(k) + 3][2]>> \o Rest(k + 1),
                            end |-> Off(n)]
      BY <3>1, <3>2, <3>4, Zenon DEF Round
    <3> QED BY <3>5 DEF p
  <2>6. <<m[Off(k) + 3][2]>> \o Rest(k + 1) = Rest(k)
    <3> DEFINE x == m[Off(k) + 3][2]
               s == Rest(k + 1)
    <3>1. n - (k + 1) \in Nat /\ \A i \in 1..(n - (k + 1)) : s[i] \in Nat
      BY <2>1, Values
    <3>2. s \in [1..(n - (k + 1)) -> Nat]
      BY <3>1
    <3>3. s \in Seq(Nat) /\ Len(s) = n - (k + 1) /\ x \in Nat
      <4>1. x \in Nat
        BY <2>1, Values
      <4> HIDE DEF s
      <4> QED BY <3>1, <3>2, <4>1, SeqDef
    <3>4. Rest(k) \in [1..(n - k) -> Nat] /\ n - k \in Nat
      BY <2>1, Values
    <3>5. Rest(k) \in Seq(Nat) /\ Len(Rest(k)) = n - k
      <4> HIDE DEF Rest
      <4> QED BY <3>4, SeqDef
    <3>6. ASSUME NEW i \in 1..(n - k)
          PROVE  (<<x>> \o s)[i] = Rest(k)[i]
      <4>1. CASE i = 1
        <5>1. Rest(k)[i] = x
          BY <4>1, <2>1
        <5>2. (<<x>> \o s)[1] = x
          <6> HIDE DEF s, x
          <6> QED BY <3>3
        <5> QED BY <4>1, <5>1, <5>2
      <4>2. CASE i > 1
        <5>1. i - 1 \in 1..(n - (k + 1)) /\ k + 1 + (i - 1) - 1 = k + i - 1
          <6>1. n \in Nat /\ k \in Nat /\ i \in Nat /\ i <= n - k
            BY <2>1
          <6> QED BY <6>1, <4>2
        <5>2. s[i - 1] = Rest(k)[i]
          BY <5>1
        <5>3. (<<x>> \o s)[i] = s[i - 1]
          <6> HIDE DEF s, x
          <6> QED BY <3>3, <4>2, <2>1
        <5> QED BY <5>2, <5>3
      <4> QED BY <2>1, <4>1, <4>2
    <3>7. <<x>> \o s \in Seq(Nat) /\ Len(<<x>> \o s) = n - k
      <4> HIDE DEF s, x
      <4> QED BY <2>1, <3>3
    <3> HIDE DEF s, x, Rest
    <3> QED BY <3>5, <3>6, <3>7, SeqEqual DEF s, x
  <2> QED BY <2>4, <2>5, <2>6 DEF k
<1>5. n \in T
  <2> HIDE DEF T
  <2>1. T \in SUBSET Nat
    BY DEF T
  <2> QED BY <1>3, <1>4, <2>1, SetInduction
<1>6. Good(0)
  <2> HIDE DEF Good
  <2>1. n <= n /\ n - n = 0
    OBVIOUS
  <2> QED BY <1>5, <2>1
<1>7. Off(0) = Base
  BY DEF Off, Base
<1>8. Rest(0) = LogOf(m, n)
  <2>1. n - 0 = n /\ \A j \in 1..n : 0 + j - 1 = j - 1
    OBVIOUS
  <2> QED BY <2>1 DEF LogOf
<1>9. Scan(m) = [log |-> Rest(0), end |-> Off(n)]
  BY <1>1, <1>6, <1>7
<1> HIDE DEF Rest
<1> QED BY <1>8, <1>9

-----------------------------------------------------------------------------
(* The inductive invariant.                                                *)

Fresh == {"magic", "magicFence", "capacity", "capacityFence"}
Early == {"append", "bodyFence", "commit", "commitFence"}
Late  == {"inject", "tornFence", "tornMark", "tornMarkFence", "done"}

\* The last boot that can have logged something.
Known == IF pc \in Early THEN boot - 1 ELSE boot

\* The n records are of boots up to b.
Logged(m, n, b) == \A k \in 0..(n - 1) : m[Off(k) + 3][2] <= b

Typed ==
  /\ mem \in Region /\ dur \in Region
  /\ pc \in {"down"} \cup Fresh \cup Early \cup Late
  /\ boot \in 0..MaxBoots /\ tail \in Nat /\ seq \in Nat

\* Without power, there are some records, and none before there is a log.
DownInv ==
  pc = "down" =>
    /\ mem = dur /\ tail = Base /\ seq = 0
    /\ \E n \in Nat : /\ Holds(dur, n) /\ Logged(dur, n, boot) /\ n <= boot
                      /\ ~HasMagic(dur) => n = 0

\* A log under construction is empty.
FreshInv ==
  pc \in Fresh =>
    /\ tail = Base /\ seq = 0 /\ boot > 0
    /\ Holds(mem, 0) /\ Holds(dur, 0)
    /\ pc # "magic" => HasMagic(mem)
    /\ pc \in {"capacity", "capacityFence"} => HasMagic(dur)

\* A log in use has its records in front of the tail, which no store touches.
UpInv ==
  pc \in Early \cup Late =>
    /\ HasMagic(mem) /\ HasMagic(dur)
    /\ tail = Off(seq) /\ seq <= Known
    /\ Holds(dur, seq) /\ Logged(dur, seq, Known)
    /\ Holds(mem, IF pc = "commitFence" THEN seq + 1 ELSE seq)
    /\ \A i \in Word : i < tail => mem[i] = dur[i]

\* A record's words, but for its mark.
Bodied(m) ==
  /\ m[tail] = Num(seq) /\ m[tail + 1] = Zero /\ m[tail + 2] = Num(2)
  /\ m[tail + 3] = Num(boot)

\* A body is durable before its mark is stored, and nothing else is under way.
WriteInv ==
  /\ pc \in {"append", "commit", "inject", "tornMark", "done"} => mem = dur
  /\ pc \in {"bodyFence", "commit", "commitFence"} => Fits(2) /\ Bodied(mem)
  /\ pc = "commitFence" => mem = [dur EXCEPT ![tail + 5] = <<1, seq>>]
  /\ pc \in {"bodyFence", "commit", "tornFence", "tornMark"} =>
       mark = <<1, seq>>
  /\ pc \in {"tornFence", "tornMark"} => Fits(TornWords)

PmemInv == Typed /\ DownInv /\ FreshInv /\ UpInv /\ WriteInv

\* A region with the same words in front of its end, and no new mark, holds the
\* same records.
LEMMA HoldsSame ==
  ASSUME NEW m \in Region, NEW w \in Region, NEW n \in Nat, Holds(m, n),
         \A i \in Word : i < Off(n) => w[i] = m[i],
         \A i \in Word : w[i][1] = 1 => w[i][2] < n
  PROVE  /\ Holds(w, n)
         /\ LogOf(w, n) = LogOf(m, n)
         /\ \A b : Logged(m, n, b) => Logged(w, n, b)
<1>1. \A k \in 0..(n - 1), d \in 0..5 : w[Off(k) + d] = m[Off(k) + d]
  <2> SUFFICES ASSUME NEW k \in 0..(n - 1), NEW d \in 0..5
               PROVE  w[Off(k) + d] = m[Off(k) + d]
    OBVIOUS
  <2>1. Off(k) + d \in Word /\ Off(k) + d < Off(n)
    BY PmemAssumption DEF Holds, Off, Base, Word
  <2> QED BY <2>1
<1>2. \A k \in 0..(n - 1) : /\ w[Off(k)] = m[Off(k)] /\ w[Off(k) + 1] = m[Off(k) + 1]
                            /\ w[Off(k) + 2] = m[Off(k) + 2]
                            /\ w[Off(k) + 3] = m[Off(k) + 3]
                            /\ w[Off(k) + 5] = m[Off(k) + 5]
  <2> SUFFICES ASSUME NEW k \in 0..(n - 1)
               PROVE  /\ w[Off(k)] = m[Off(k)] /\ w[Off(k) + 1] = m[Off(k) + 1]
                      /\ w[Off(k) + 2] = m[Off(k) + 2]
                      /\ w[Off(k) + 3] = m[Off(k) + 3]
                      /\ w[Off(k) + 5] = m[Off(k) + 5]
    OBVIOUS
  <2>1. Off(k) + 0 = Off(k)
    BY DEF Off, Base
  <2> QED BY <1>1, <2>1
<1>3. \A k \in 0..(n - 1) : Whole(w, k)
  BY <1>2 DEF Holds, Whole
<1>4. Holds(w, n)
  BY <1>3 DEF Holds
<1>5. \A k \in 1..n : w[Off(k - 1) + 3] = m[Off(k - 1) + 3]
  BY <1>2
<1> QED BY <1>2, <1>4, <1>5 DEF LogOf, Logged

\* With one more whole record it holds one more.
LEMMA HoldsNext ==
  ASSUME NEW m \in Region, NEW n \in Nat, Holds(m, n),
         NEW w \in Region, Whole(w, n),
         \A i \in Word : i < Off(n) => w[i] = m[i],
         \A i \in Word : w[i][1] = 1 => w[i][2] < n + 1
  PROVE  /\ Holds(w, n + 1)
         /\ LogOf(w, n + 1) = Append(LogOf(m, n), w[Off(n) + 3][2])
<1>1. \A k \in 0..(n - 1), d \in 0..5 : w[Off(k) + d] = m[Off(k) + d]
  <2> SUFFICES ASSUME NEW k \in 0..(n - 1), NEW d \in 0..5
               PROVE  w[Off(k) + d] = m[Off(k) + d]
    OBVIOUS
  <2>1. Off(k) + d \in Word /\ Off(k) + d < Off(n)
    BY PmemAssumption DEF Holds, Off, Base, Word
  <2> QED BY <2>1
<1>2. ASSUME NEW k \in 0..(n - 1)
      PROVE  Whole(w, k)
  <2>1. Off(k) + 0 = Off(k)
    BY DEF Off, Base
  <2>2. /\ w[Off(k)] = m[Off(k)] /\ w[Off(k) + 1] = m[Off(k) + 1]
        /\ w[Off(k) + 2] = m[Off(k) + 2] /\ w[Off(k) + 5] = m[Off(k) + 5]
    BY <1>1, <2>1
  <2> QED BY <2>2 DEF Holds, Whole
<1>3. \A k \in 0..n : Whole(w, k)
  BY <1>2
<1>4. Off(n + 1) <= Size
  BY DEF Whole, Off, Base
<1>5. Holds(w, n + 1)
  BY <1>3, <1>4 DEF Holds
<1>6. LogOf(w, n + 1) = Append(LogOf(m, n), w[Off(n) + 3][2])
  <2>1. LogOf(m, n) \in Seq(Nat) /\ Len(LogOf(m, n)) = n
    BY LogLen
  <2>2. LogOf(w, n + 1) \in Seq(Nat) /\ Len(LogOf(w, n + 1)) = n + 1
    BY <1>5, LogLen
  <2>3. w[Off(n) + 3][2] \in Nat
    BY <1>5, Values
  <2>4. \A k \in 1..n : LogOf(w, n + 1)[k] = LogOf(m, n)[k]
    <3>1. \A k \in 1..n : w[Off(k - 1) + 3] = m[Off(k - 1) + 3]
      BY <1>1
    <3> QED BY <3>1 DEF LogOf
  <2>5. LogOf(w, n + 1)[n + 1] = w[Off(n) + 3][2]
    <3>1. n + 1 - 1 = n /\ n + 1 \in 1..(n + 1)
      OBVIOUS
    <3> QED BY <3>1 DEF LogOf
  <2> DEFINE s == LogOf(m, n)
             t == LogOf(w, n + 1)
             x == w[Off(n) + 3][2]
  <2>6. s \in Seq(Nat) /\ t \in Seq(Nat) /\ x \in Nat /\ Len(s) = n /\ Len(t) = n + 1
    BY <2>1, <2>2, <2>3
  <2>7. (\A k \in 1..n : t[k] = s[k]) /\ t[n + 1] = x
    BY <2>4, <2>5
  <2> HIDE DEF s, t, x
  <2>8. /\ Append(s, x) \in Seq(Nat) /\ Len(Append(s, x)) = n + 1
        /\ \A k \in 1..(n + 1) : Append(s, x)[k] = t[k]
    BY <2>6, <2>7, AppendProperties
  <2>9. t = Append(s, x)
    BY <2>6, <2>8, SeqEqual
  <2> QED BY <2>9 DEF s, t, x
<1> QED BY <1>5, <1>6

-----------------------------------------------------------------------------
(* What is stored.                                                         *)

\* A body: its number, the length, the payload; its checksum is of the number.
LEMMA BodyIs ==
  ASSUME NEW n \in Nat, NEW t \in Seq(Words)
  PROVE  /\ Body(n, t) \in Seq(Words) /\ Len(Body(n, t)) = Len(t) + 3
         /\ Body(n, t)[1] = Num(n) /\ Body(n, t)[2] = Zero
         /\ Body(n, t)[3] = Num(Len(t))
         /\ \A j \in 1..Len(t) : Body(n, t)[j + 3] = t[j]
         /\ Crc(Body(n, t)) = <<1, n>>
<1> DEFINE h == <<Num(n), Zero, Num(Len(t))>>
<1>1. h \in Seq(Words) /\ Len(h) = 3
  <2>1. Len(t) \in Nat
    OBVIOUS
  <2> QED BY <2>1 DEF Num, Zero, Words
<1>2. h[1] = Num(n) /\ h[2] = Zero /\ h[3] = Num(Len(t))
  OBVIOUS
<1>3. Body(n, t) = h \o t
  BY DEF Body
<1> DEFINE c == h \o t
<1>4. /\ c \in Seq(Words) /\ Len(c) = Len(h) + Len(t)
      /\ \A i \in 1..(Len(h) + Len(t)) :
            c[i] = IF i <= Len(h) THEN h[i] ELSE t[i - Len(h)]
  <2> HIDE DEF h
  <2> QED BY <1>1, ConcatProperties
<1> HIDE DEF h, c
<1>5. Len(t) \in Nat
  OBVIOUS
<1>6. /\ Len(c) = Len(t) + 3
      /\ \A j \in 1..Len(t) : c[j + 3] = t[j]
  <2>1. Len(c) = Len(t) + 3
    BY <1>1, <1>4, <1>5
  <2>2. ASSUME NEW j \in 1..Len(t)
        PROVE  c[j + 3] = t[j]
    <3>1. j + 3 \in 1..(Len(h) + Len(t)) /\ ~(j + 3 <= Len(h)) /\ j + 3 - Len(h) = j
      BY <1>1, <1>5
    <3> QED BY <1>4, <3>1
  <2> QED BY <2>1, <2>2
<1>7. c[1] = h[1] /\ c[2] = h[2] /\ c[3] = h[3]
  <2>1. /\ 1 \in 1..(Len(h) + Len(t)) /\ 1 <= Len(h)
        /\ 2 \in 1..(Len(h) + Len(t)) /\ 2 <= Len(h)
        /\ 3 \in 1..(Len(h) + Len(t)) /\ 3 <= Len(h)
    BY <1>1, <1>5
  <2> QED BY <1>4, <2>1
<1>8. Crc(c) = <<1, n>>
  BY <1>2, <1>7 DEF Crc, Num
<1>9. Body(n, t) = c
  BY <1>3 DEF c
<1> QED BY <1>2, <1>4, <1>6, <1>7, <1>8, <1>9

\* So with a body none of whose words is a mark.
LEMMA BodyUnmarked ==
  ASSUME NEW n \in Nat, NEW t \in Seq(Words), \A j \in 1..Len(t) : t[j][1] = 0
  PROVE  \A i \in 1..Len(Body(n, t)) : Body(n, t)[i][1] # 1
<1> SUFFICES ASSUME NEW i \in 1..Len(Body(n, t)) PROVE Body(n, t)[i][1] # 1
  OBVIOUS
<1>1. i \in 1..(Len(t) + 3)
  BY BodyIs
<1>2. CASE i <= 3
  <2>1. i = 1 \/ i = 2 \/ i = 3
    BY <1>1, <1>2
  <2>2. /\ Body(n, t)[1] = Num(n) /\ Body(n, t)[2] = Zero
        /\ Body(n, t)[3] = Num(Len(t))
    BY BodyIs
  <2> QED BY <2>1, <2>2 DEF Num, Zero
<1>3. CASE i > 3
  <2>1. i - 3 \in 1..Len(t) /\ i - 3 + 3 = i
    <3>1. Len(t) \in Nat
      OBVIOUS
    <3> QED BY <1>1, <1>3, <3>1
  <2>2. Body(n, t)[i - 3 + 3] = t[i - 3]
    BY <2>1, BodyIs
  <2> QED BY <2>1, <2>2
<1> QED BY <1>1, <1>2, <1>3

\* A record's payload, and a torn one's.
LEMMA Payloads ==
  ASSUME NEW b \in Nat
  PROVE  /\ Record(b) \in Seq(Words) /\ Len(Record(b)) = 2
         /\ Record(b)[1] = Num(b) /\ \A j \in 1..2 : Record(b)[j][1] = 0
         /\ Marker \in Seq(Words) /\ Len(Marker) = TornWords
         /\ \A j \in 1..TornWords : Marker[j][1] = 0
<1>1. Record(b) = <<Num(b), Zero>> /\ Num(b) \in Words /\ Zero \in Words
  BY DEF Record, Num, Zero, Words
<1>2. Num(b)[1] = 0 /\ Zero[1] = 0
  BY DEF Num, Zero
<1>3. /\ Record(b) \in Seq(Words) /\ Len(Record(b)) = 2
      /\ Record(b)[1] = Num(b) /\ Record(b)[2] = Zero
  BY <1>1
<1>4. Marker \in [1..TornWords -> Words] /\ TornWords \in Nat
  BY <1>1 DEF Marker, TornWords
<1>5. Marker \in Seq(Words) /\ Len(Marker) = TornWords
  <2> HIDE DEF Marker, TornWords
  <2> QED BY <1>4, SeqDef
<1>6. \A j \in 1..TornWords : Marker[j] = Zero
  BY DEF Marker
<1> QED BY <1>2, <1>3, <1>5, <1>6

\* A store: its words from off on, and nothing else.
LEMMA Stored ==
  ASSUME mem \in Region, NEW off \in Nat, NEW ws \in Seq(Words), Put(off, ws)
  PROVE  /\ mem' \in Region
         /\ \A i \in Word : i < off => mem'[i] = mem[i]
         /\ \A i \in Word : \/ mem'[i] = mem[i]
                            \/ \E j \in 1..Len(ws) : mem'[i] = ws[j]
         /\ \A j \in 1..Len(ws) : off + j - 1 \in Word => mem'[off + j - 1] = ws[j]
<1>1. Len(ws) \in Nat /\ \A j \in 1..Len(ws) : ws[j] \in Words
  OBVIOUS
<1>2. Word \subseteq Nat
  BY PmemAssumption DEF Word
<1>3. \A i \in Word : i \in off..(off + Len(ws) - 1) => i - off + 1 \in 1..Len(ws)
  BY <1>1, <1>2
<1>4. mem' = [i \in Word |-> IF i \in off..(off + Len(ws) - 1)
                               THEN ws[i - off + 1] ELSE mem[i]]
  BY DEF Put
<1>5. mem' \in Region
  BY <1>1, <1>3, <1>4 DEF Region
<1>6. \A i \in Word : i < off => mem'[i] = mem[i]
  BY <1>1, <1>2, <1>4
<1>7. ASSUME NEW i \in Word
      PROVE  \/ mem'[i] = mem[i]
             \/ \E j \in 1..Len(ws) : mem'[i] = ws[j]
  BY <1>3, <1>4
<1>8. ASSUME NEW j \in 1..Len(ws), off + j - 1 \in Word
      PROVE  mem'[off + j - 1] = ws[j]
  <2>1. off + j - 1 \in off..(off + Len(ws) - 1) /\ off + j - 1 - off + 1 = j
    BY <1>1
  <2> HIDE DEF Word
  <2>2. mem'[off + j - 1] = ws[off + j - 1 - off + 1]
    BY <1>4, <1>8, <2>1
  <2> QED BY <2>1, <2>2
<1> QED BY <1>5, <1>6, <1>7, <1>8

\* A store behind the n records that stores no mark: they are there still.
LEMMA StoredBehind ==
  ASSUME mem \in Region, NEW n \in Nat, Holds(mem, n),
         NEW off \in Nat, off >= Off(n) \/ n = 0,
         NEW ws \in Seq(Words), Put(off, ws),
         \A j \in 1..Len(ws) : ws[j][1] # 1
  PROVE  /\ Holds(mem', n)
         /\ LogOf(mem', n) = LogOf(mem, n)
<1>1. mem' \in Region
  BY Stored
<1>2. \A i \in Word : mem'[i][1] = 1 => mem'[i][2] < n
  BY Stored DEF Holds
<1>3. CASE off >= Off(n)
  <2>1. \A i \in Word : i < Off(n) => mem'[i] = mem[i]
    <3>1. \A i \in Word : i < off => mem'[i] = mem[i]
      BY Stored
    <3> QED BY <1>3, <3>1, PmemAssumption DEF Word, Off, Base
  <2> QED BY <1>1, <1>2, <2>1, HoldsSame
<1>4. CASE n = 0
  BY <1>2, <1>4 DEF Holds, LogOf
<1> QED BY <1>3, <1>4

-----------------------------------------------------------------------------
(* Every step keeps the invariant.                                         *)

\* The words of the header, and where the entries begin.
LEMMA Header ==
  /\ Word \subseteq Nat /\ {0, 1, 2, 3} \subseteq Word
  /\ Base \in Nat /\ Off(0) = Base /\ Base <= Size /\ Base > 3
BY PmemAssumption DEF Word, Off, Base

\* An empty region holds no record.
LEMMA InitInv == Init => PmemInv
<1> SUFFICES ASSUME Init PROVE PmemInv
  OBVIOUS
<1>1. Typed
  <2>1. Zero \in Words
    BY DEF Zero, Num, Words
  <2>2. mem \in Region /\ dur \in Region
    BY <2>1 DEF Init, Region
  <2>3. boot \in 0..MaxBoots
    BY PmemAssumption DEF Init
  <2> QED BY <2>2, <2>3, Header DEF Typed, Init
<1>2. Holds(dur, 0)
  <2>1. \A i \in Word : dur[i][1] # 1
    BY DEF Init, Zero, Num
  <2> QED BY <2>1, Header DEF Holds
<1>3. DownInv
  <2>1. Logged(dur, 0, boot)
    BY DEF Logged
  <2> QED BY <1>2, <2>1 DEF DownInv, Init
<1>4. FreshInv /\ UpInv /\ WriteInv
  BY DEF Init, FreshInv, UpInv, WriteInv, Fresh, Early, Late
<1> QED BY <1>1, <1>3, <1>4 DEF PmemInv

\* Recovery finds the records that there are, or no log.
LEMMA RecoverKeeps ==
  ASSUME PmemInv, Recover
  PROVE  PmemInv'
<1>1. PICK n \in Nat : /\ Holds(dur, n) /\ Logged(dur, n, boot) /\ n <= boot
                       /\ ~HasMagic(dur) => n = 0
  BY DEF PmemInv, DownInv, Recover
<1>2. /\ pc = "down" /\ mem = dur /\ mem' = mem /\ dur' = dur /\ tail = Base /\ seq = 0
      /\ boot' = boot + 1 /\ boot' \in 0..MaxBoots /\ boot \in Nat
  BY PmemAssumption DEF PmemInv, Typed, DownInv, Recover
<1>3. mem \in Region
  BY DEF PmemInv, Typed
<1>4. CASE HasMagic(mem)
  <2>1. Scan(mem).end = Off(n) /\ Len(Scan(mem).log) = n
    BY <1>1, <1>2, <1>3, ScanFinds, LogLen
  <2>2. tail' = Off(n) /\ seq' = n /\ pc' = "append"
    BY <1>4, <2>1 DEF Recover, Go
  <2>3. Typed'
    <3>1. Off(n) \in Nat
      BY DEF Off, Base
    <3> QED BY <1>2, <1>3, <2>2, <3>1 DEF Typed, PmemInv, Early
  <2>4. DownInv' /\ FreshInv' /\ WriteInv'
    BY <1>2, <2>2 DEF DownInv, FreshInv, WriteInv, Fresh
  <2>5. UpInv'
    <3>1. Known' = boot
      BY <1>2, <2>2 DEF Known, Early
    <3>2. HasMagic(mem') /\ HasMagic(dur')
      BY <1>2, <1>4
    <3> QED BY <1>1, <1>2, <2>2, <3>1, <3>2 DEF UpInv
  <2> QED BY <2>3, <2>4, <2>5 DEF PmemInv
<1>5. CASE ~HasMagic(mem)
  <2>1. tail' = Base /\ seq' = 0 /\ pc' = "magic"
    BY <1>5 DEF Recover, Go
  <2>2. Holds(mem', 0) /\ Holds(dur', 0)
    BY <1>1, <1>2, <1>5
  <2>3. Typed'
    BY <1>2, <1>3, <2>1, Header DEF Typed, Fresh
  <2>4. FreshInv'
    BY <1>2, <2>1, <2>2 DEF FreshInv, Fresh
  <2>5. DownInv' /\ UpInv' /\ WriteInv'
    BY <2>1 DEF DownInv, UpInv, WriteInv, Early, Late
  <2> QED BY <2>3, <2>4, <2>5 DEF PmemInv
<1> QED BY <1>4, <1>5

\* The magic is stored.
LEMMA PutMagicKeeps ==
  ASSUME PmemInv, PutMagic
  PROVE  PmemInv'
<1> DEFINE ws == <<Magic, Zero>>
<1>1. /\ pc = "magic" /\ pc' = "magicFence" /\ Put(0, ws)
      /\ dur' = dur /\ boot' = boot /\ tail' = tail /\ seq' = seq
  BY DEF PutMagic, Step, Go
<1>2. /\ tail = Base /\ seq = 0 /\ boot > 0 /\ Holds(mem, 0) /\ Holds(dur, 0)
      /\ mem \in Region /\ Typed
  BY <1>1 DEF PmemInv, FreshInv, Fresh, Typed
<1>3. ws \in Seq(Words) /\ Len(ws) = 2 /\ ws[1] = Magic /\ \A j \in 1..2 : ws[j][1] # 1
  BY DEF Magic, Zero, Num, Words
<1> HIDE DEF ws
<1>4. mem' \in Region
  BY <1>1, <1>2, <1>3, Stored
<1>5. mem'[0] = Magic
  <2>1. 1 \in 1..Len(ws) /\ 0 + 1 - 1 = 0 /\ 0 \in Word
    BY <1>3, Header
  <2> QED BY <1>1, <1>2, <1>3, <2>1, Stored
<1>6. Holds(mem', 0)
  BY <1>1, <1>2, <1>3, StoredBehind
<1>7. Typed'
  BY <1>1, <1>2, <1>4 DEF Typed, Fresh
<1>8. FreshInv'
  BY <1>1, <1>2, <1>5, <1>6 DEF FreshInv, HasMagic
<1>9. DownInv' /\ UpInv' /\ WriteInv'
  BY <1>1 DEF DownInv, UpInv, WriteInv, Early, Late
<1> QED BY <1>7, <1>8, <1>9 DEF PmemInv

\* The capacity is stored.
LEMMA PutCapacityKeeps ==
  ASSUME PmemInv, PutCapacity
  PROVE  PmemInv'
<1> DEFINE ws == <<Num(Size), Zero>>
<1>1. /\ pc = "capacity" /\ pc' = "capacityFence" /\ Put(2, ws)
      /\ dur' = dur /\ boot' = boot /\ tail' = tail /\ seq' = seq
  BY DEF PutCapacity, Step, Go
<1>2. /\ tail = Base /\ seq = 0 /\ boot > 0 /\ Holds(mem, 0) /\ Holds(dur, 0)
      /\ HasMagic(mem) /\ HasMagic(dur) /\ mem \in Region /\ Typed
  BY <1>1 DEF PmemInv, FreshInv, Fresh, Typed
<1>3. ws \in Seq(Words) /\ Len(ws) = 2 /\ \A j \in 1..2 : ws[j][1] # 1
  BY PmemAssumption DEF Zero, Num, Words
<1> HIDE DEF ws
<1>4. mem' \in Region
  BY <1>1, <1>2, <1>3, Stored
<1>5. mem'[0] = mem[0]
  <2>1. 0 \in Word /\ 0 < 2
    BY Header
  <2> QED BY <1>1, <1>2, <1>3, <2>1, Stored
<1>6. Holds(mem', 0)
  BY <1>1, <1>2, <1>3, StoredBehind
<1>7. Typed'
  BY <1>1, <1>2, <1>4 DEF Typed, Fresh
<1>8. FreshInv'
  BY <1>1, <1>2, <1>5, <1>6 DEF FreshInv, HasMagic
<1>9. DownInv' /\ UpInv' /\ WriteInv'
  BY <1>1 DEF DownInv, UpInv, WriteInv, Early, Late
<1> QED BY <1>7, <1>8, <1>9 DEF PmemInv

\* In front of the tail there is no difference between what is durable and what
\* the processor sees.
LEMMA UpSame ==
  ASSUME PmemInv, pc \in Early \cup Late, pc # "commitFence"
  PROVE  /\ Holds(mem, seq) /\ Logged(mem, seq, Known)
         /\ LogOf(mem, seq) = LogOf(dur, seq)
<1>1. /\ mem \in Region /\ dur \in Region /\ seq \in Nat /\ tail = Off(seq)
      /\ Holds(dur, seq) /\ Logged(dur, seq, Known) /\ Holds(mem, seq)
      /\ \A i \in Word : i < tail => mem[i] = dur[i]
  BY DEF PmemInv, Typed, UpInv
<1>2. \A i \in Word : mem[i][1] = 1 => mem[i][2] < seq
  BY <1>1 DEF Holds
<1> QED BY <1>1, <1>2, HoldsSame

\* A log in use: its tail is in the region, and so is the header before it.
LEMMA UpTail ==
  ASSUME PmemInv, pc \in Early \cup Late
  PROVE  tail \in Nat /\ tail = Off(seq) /\ 0 < tail /\ tail <= Size /\ seq \in Nat
<1>1. seq \in Nat /\ tail = Off(seq) /\ Holds(dur, seq)
  BY DEF PmemInv, Typed, UpInv
<1> QED BY <1>1 DEF Holds, Off, Base

\* A store behind the tail of words that are no marks.
LEMMA StoreKeeps ==
  ASSUME PmemInv, pc \in Early \cup Late, pc # "commitFence",
         NEW off \in Nat, off >= tail,
         NEW ws \in Seq(Words), Put(off, ws), \A j \in 1..Len(ws) : ws[j][1] # 1,
         UNCHANGED <<dur, boot, tail, seq>>,
         pc' \in Early \cup Late, pc' # "commitFence", pc \in Early <=> pc' \in Early
  PROVE  Typed' /\ DownInv' /\ FreshInv' /\ UpInv'
<1>1. /\ mem \in Region /\ seq \in Nat /\ tail = Off(seq) /\ Holds(mem, seq)
      /\ HasMagic(mem) /\ Typed
      /\ \A i \in Word : i < tail => mem[i] = dur[i]
  BY DEF PmemInv, Typed, UpInv
<1>2. mem' \in Region /\ Holds(mem', seq)
  BY <1>1, Stored, StoredBehind
<1>3. \A i \in Word : i < tail => mem'[i] = mem[i]
  <2>1. \A i \in Word : i < off => mem'[i] = mem[i]
    BY <1>1, Stored
  <2>2. \A i \in Word : i < tail => i < off
    BY UpTail, Header
  <2> QED BY <2>1, <2>2
<1>4. HasMagic(mem')
  BY <1>1, <1>3, UpTail, Header DEF HasMagic
<1>5. Known' = Known
  BY DEF Known
<1>6. Typed'
  BY <1>1, <1>2 DEF Typed
<1>7. DownInv' /\ FreshInv'
  BY DEF DownInv, FreshInv, Fresh, Early, Late
<1>8. UpInv'
  <2>1. /\ HasMagic(dur) /\ seq <= Known /\ Holds(dur, seq) /\ Logged(dur, seq, Known)
    BY DEF PmemInv, UpInv
  <2>2. \A i \in Word : i < tail => mem'[i] = dur[i]
    BY <1>1, <1>3
  <2> QED BY <1>1, <1>2, <1>4, <1>5, <2>1, <2>2 DEF UpInv
<1> QED BY <1>6, <1>7, <1>8

\* A fence in a log in use, but for the one that commits.
LEMMA FenceKeeps ==
  ASSUME PmemInv, pc \in Early \cup Late, pc # "commitFence",
         dur' = mem, UNCHANGED <<mem, boot, tail, seq>>,
         pc' \in Early \cup Late, pc' # "commitFence", pc \in Early <=> pc' \in Early
  PROVE  Typed' /\ DownInv' /\ FreshInv' /\ UpInv'
<1>1. Holds(mem, seq) /\ Logged(mem, seq, Known)
  BY UpSame
<1>2. Typed /\ mem \in Region /\ HasMagic(mem) /\ tail = Off(seq) /\ seq <= Known
  BY DEF PmemInv, Typed, UpInv
<1>3. Known' = Known
  BY DEF Known
<1>4. Typed'
  BY <1>2 DEF Typed
<1>5. DownInv' /\ FreshInv'
  BY DEF DownInv, FreshInv, Fresh, Early, Late
<1>6. UpInv'
  BY <1>1, <1>2, <1>3 DEF UpInv
<1> QED BY <1>4, <1>5, <1>6

\* A record's body is stored behind the tail.
LEMMA AppendBodyKeeps ==
  ASSUME PmemInv, AppendBody
  PROVE  PmemInv'
<1> DEFINE ws == Body(seq, Record(boot))
<1>1. /\ pc = "append" /\ pc' = "bodyFence" /\ Put(tail, ws) /\ Fits(2)
      /\ dur' = dur /\ boot' = boot /\ tail' = tail /\ seq' = seq /\ mark' = Crc(ws)
  BY DEF AppendBody, WriteBody, Step, Go
<1>2. /\ pc \in Early \cup Late /\ pc' \in Early \cup Late
      /\ pc \in Early <=> pc' \in Early
  BY <1>1 DEF Early, Late
<1>3. tail \in Nat /\ tail + 6 <= Size /\ seq \in Nat /\ boot \in Nat /\ mem \in Region
  <2>1. tail + 6 <= Size
    BY <1>1, Spans DEF Fits
  <2> QED BY <1>2, <2>1, UpTail DEF PmemInv, Typed
<1>4. /\ Record(boot) \in Seq(Words) /\ Len(Record(boot)) = 2
      /\ Record(boot)[1] = Num(boot) /\ \A j \in 1..2 : Record(boot)[j][1] = 0
  BY <1>3, Payloads
<1>5. /\ ws \in Seq(Words) /\ Len(ws) = 5 /\ Crc(ws) = <<1, seq>>
      /\ ws[1] = Num(seq) /\ ws[2] = Zero /\ ws[3] = Num(2) /\ ws[4] = Num(boot)
  <2> DEFINE t == Record(boot)
  <2>1. t \in Seq(Words) /\ Len(t) = 2 /\ t[1] = Num(boot)
    BY <1>4
  <2> HIDE DEF t
  <2>2. /\ Body(seq, t) \in Seq(Words) /\ Len(Body(seq, t)) = Len(t) + 3
        /\ Body(seq, t)[1] = Num(seq) /\ Body(seq, t)[2] = Zero
        /\ Body(seq, t)[3] = Num(Len(t)) /\ Crc(Body(seq, t)) = <<1, seq>>
        /\ \A j \in 1..Len(t) : Body(seq, t)[j + 3] = t[j]
    BY <1>3, <2>1, BodyIs
  <2>3. Body(seq, t)[4] = Num(boot)
    <3>1. 1 \in 1..Len(t) /\ 1 + 3 = 4
      BY <2>1
    <3> QED BY <2>1, <2>2, <3>1
  <2> QED BY <2>1, <2>2, <2>3 DEF t
<1>6. \A j \in 1..Len(ws) : ws[j][1] # 1
  BY <1>3, <1>4, BodyUnmarked
<1> HIDE DEF ws
<1>7. Typed' /\ DownInv' /\ FreshInv' /\ UpInv'
  <2>1. tail >= tail
    BY <1>3
  <2> QED BY <1>1, <1>2, <1>3, <1>5, <1>6, <2>1, StoreKeeps
<1>8. Bodied(mem)'
  <2>1. \A j \in 1..4 : j \in 1..Len(ws) /\ tail + j - 1 \in Word
    BY <1>3, <1>5, PmemAssumption DEF Word
  <2>2. \A j \in 1..4 : mem'[tail + j - 1] = ws[j]
    BY <1>1, <1>3, <1>5, <2>1, Stored
  <2>3. /\ tail + 1 - 1 = tail /\ tail + 2 - 1 = tail + 1 /\ tail + 3 - 1 = tail + 2
        /\ tail + 4 - 1 = tail + 3
    BY <1>3
  <2>4. /\ mem'[tail] = ws[1] /\ mem'[tail + 1] = ws[2] /\ mem'[tail + 2] = ws[3]
        /\ mem'[tail + 3] = ws[4]
    <3>1. 1 \in 1..4 /\ 2 \in 1..4 /\ 3 \in 1..4 /\ 4 \in 1..4
      OBVIOUS
    <3> QED BY <2>2, <2>3, <3>1
  <2> QED BY <1>1, <1>5, <2>4 DEF Bodied
<1>9. WriteInv'
  <2>1. Fits(2)'
    BY <1>1 DEF Fits
  <2> QED BY <1>1, <1>5, <1>8, <2>1 DEF WriteInv
<1> QED BY <1>7, <1>9 DEF PmemInv

\* So is a torn one's.
LEMMA TornBodyKeeps ==
  ASSUME PmemInv, TornBody
  PROVE  PmemInv'
<1> DEFINE ws == Body(seq, Marker)
<1>1. /\ pc = "inject" /\ pc' = "tornFence" /\ Put(tail, ws) /\ Fits(TornWords)
      /\ dur' = dur /\ boot' = boot /\ tail' = tail /\ seq' = seq /\ mark' = Crc(ws)
  BY DEF TornBody, WriteBody, Step, Go
<1>2. /\ pc \in Early \cup Late /\ pc' \in Early \cup Late
      /\ pc \in Early <=> pc' \in Early
  BY <1>1 DEF Early, Late
<1>3. tail \in Nat /\ tail >= tail /\ seq \in Nat /\ boot \in Nat
  BY <1>2, UpTail DEF PmemInv, Typed
<1>4. /\ Marker \in Seq(Words) /\ Len(Marker) = TornWords
      /\ \A j \in 1..TornWords : Marker[j][1] = 0
  BY <1>3, Payloads
<1>5. /\ ws \in Seq(Words) /\ Crc(ws) = <<1, seq>>
      /\ \A j \in 1..Len(ws) : ws[j][1] # 1
  BY <1>3, <1>4, BodyIs, BodyUnmarked
<1> HIDE DEF ws
<1>6. Typed' /\ DownInv' /\ FreshInv' /\ UpInv'
  BY <1>1, <1>2, <1>3, <1>5, StoreKeeps
<1>7. WriteInv'
  <2>1. Fits(TornWords)'
    BY <1>1 DEF Fits
  <2> QED BY <1>1, <1>5, <2>1 DEF WriteInv
<1> QED BY <1>6, <1>7 DEF PmemInv

\* Its mark is none.
LEMMA TornMarkKeeps ==
  ASSUME PmemInv, TornMark
  PROVE  PmemInv'
<1> DEFINE ws == <<Stamp(mark)>>
<1>1. /\ pc = "tornMark" /\ pc' = "tornMarkFence" /\ Put(tail + 3 + TornWords, ws)
      /\ dur' = dur /\ boot' = boot /\ tail' = tail /\ seq' = seq
  BY DEF TornMark, Step, Go
<1>2. /\ pc \in Early \cup Late /\ pc' \in Early \cup Late
      /\ pc \in Early <=> pc' \in Early
  BY <1>1 DEF Early, Late
<1>3. tail \in Nat /\ seq \in Nat
  BY <1>2, UpTail
<1>4. Stamp(mark) = <<2, seq>>
  BY <1>1 DEF PmemInv, WriteInv, Stamp, Not
<1>5. ws \in Seq(Words) /\ \A j \in 1..Len(ws) : ws[j][1] # 1
  <2>1. <<2, seq>> \in Words
    BY <1>3 DEF Words
  <2> QED BY <1>4, <2>1
<1>6. tail + 3 + TornWords \in Nat /\ tail + 3 + TornWords >= tail
  BY <1>3 DEF TornWords
<1> HIDE DEF ws
<1>7. Typed' /\ DownInv' /\ FreshInv' /\ UpInv'
  BY <1>1, <1>2, <1>5, <1>6, StoreKeeps
<1>8. WriteInv'
  BY <1>1 DEF WriteInv
<1> QED BY <1>7, <1>8 DEF PmemInv

\* The mark is stored behind a body that is durable: the record is whole.
LEMMA CommitMarkKeeps ==
  ASSUME PmemInv, CommitMark
  PROVE  PmemInv'
<1>1. /\ pc = "commit" /\ pc' = "commitFence" /\ Put(tail + 5, <<mark>>)
      /\ dur' = dur /\ boot' = boot /\ tail' = tail /\ seq' = seq /\ mark' = mark
  BY DEF CommitMark, Step, Go
<1>2. /\ pc \in Early \cup Late /\ pc' \in Early \cup Late
      /\ pc \in Early <=> pc' \in Early
  BY <1>1 DEF Early, Late
<1>3. /\ mem = dur /\ Fits(2) /\ Bodied(mem) /\ mark = <<1, seq>>
      /\ mem \in Region /\ boot \in Nat /\ Typed
  BY <1>1 DEF PmemInv, WriteInv, Typed
<1>4. tail \in Nat /\ tail + 6 <= Size /\ seq \in Nat /\ tail = Off(seq)
  <2>1. tail + 6 <= Size
    BY <1>3, Spans DEF Fits
  <2> QED BY <1>2, <2>1, UpTail
<1>5. mem' = [dur EXCEPT ![tail + 5] = <<1, seq>>]
  <2> DEFINE off == tail + 5
             ws == <<mark>>
  <2>1. \A i \in Nat : i \in off..(off + Len(ws) - 1) <=> i = off
    BY <1>4
  <2>2. ws[off - off + 1] = <<1, seq>>
    BY <1>3, <1>4
  <2>3. mem' = [i \in Word |-> IF i \in off..(off + Len(ws) - 1)
                                 THEN ws[i - off + 1] ELSE mem[i]]
    BY <1>1 DEF Put
  <2> HIDE DEF off, ws
  <2>4. mem' = [i \in Word |-> IF i = off THEN <<1, seq>> ELSE dur[i]]
    BY <1>3, <2>1, <2>2, <2>3, Header
  <2> QED BY <1>3, <2>4 DEF Region, off
<1>6. tail + 5 \in Word /\ \A d \in 0..4 : tail + d \in Word
  BY <1>4, PmemAssumption DEF Word
<1>7. /\ mem' \in Region /\ mem'[tail + 5] = <<1, seq>>
      /\ \A i \in Word : i # tail + 5 => mem'[i] = dur[i]
  <2>1. <<1, seq>> \in Words
    BY <1>4 DEF Words
  <2> QED BY <1>3, <1>5, <1>6, <2>1 DEF Region
<1>8. Bodied(mem)'
  <2>1. /\ tail \in Word /\ tail # tail + 5 /\ tail + 1 \in Word /\ tail + 1 # tail + 5
        /\ tail + 2 \in Word /\ tail + 2 # tail + 5
        /\ tail + 3 \in Word /\ tail + 3 # tail + 5
    BY <1>4, PmemAssumption DEF Word
  <2> QED BY <1>1, <1>3, <1>7, <2>1 DEF Bodied
<1>9. Holds(mem', seq + 1)
  <2>1. Whole(mem', seq)
    BY <1>1, <1>4, <1>7, <1>8 DEF Whole, Bodied
  <2>2. Holds(mem, seq)
    BY <1>1, <1>2, UpSame
  <2>3. \A i \in Word : i < Off(seq) => mem'[i] = mem[i]
    BY <1>3, <1>4, <1>7, Header
  <2>4. \A i \in Word : mem'[i][1] = 1 => mem'[i][2] < seq + 1
    <3> SUFFICES ASSUME NEW i \in Word, mem'[i][1] = 1 PROVE mem'[i][2] < seq + 1
      OBVIOUS
    <3>1. CASE i = tail + 5
      BY <1>4, <1>7, <3>1
    <3>2. CASE i # tail + 5
      <4>1. mem'[i] = mem[i] /\ mem[i] \in Words
        BY <1>3, <1>7, <3>2 DEF Region
      <4>2. mem[i][2] \in Nat /\ mem[i][2] < seq
        BY <2>2, <4>1 DEF Holds, Words
      <4> QED BY <1>4, <4>1, <4>2
    <3> QED BY <3>1, <3>2
  <2> QED BY <1>3, <1>4, <1>7, <2>1, <2>2, <2>3, <2>4, HoldsNext
<1>10. Typed'
  BY <1>1, <1>2, <1>3, <1>7 DEF Typed
<1>11. DownInv' /\ FreshInv'
  BY <1>1 DEF DownInv, FreshInv, Fresh
<1>12. UpInv'
  <2>1. /\ HasMagic(mem) /\ HasMagic(dur) /\ seq <= Known
        /\ Holds(dur, seq) /\ Logged(dur, seq, Known)
    BY <1>2 DEF PmemInv, UpInv
  <2>2. Known' = Known
    BY <1>1, <1>2 DEF Known
  <2>3. \A i \in Word : i < tail => mem'[i] = dur[i]
    BY <1>4, <1>7, Header
  <2>4. HasMagic(mem')
    BY <1>4, <2>1, <2>3, <1>2, UpTail, Header DEF HasMagic
  <2> QED BY <1>1, <1>4, <1>9, <2>1, <2>2, <2>3, <2>4 DEF UpInv
<1>13. WriteInv'
  <2>1. Fits(2)'
    BY <1>1, <1>3 DEF Fits
  <2> QED BY <1>1, <1>5, <1>8, <2>1 DEF WriteInv
<1> QED BY <1>10, <1>11, <1>12, <1>13 DEF PmemInv

\* Behind the commit's store the region holds one record more, this boot's.
LEMMA Marked ==
  ASSUME PmemInv, pc = "commitFence"
  PROVE  /\ Holds(mem, seq + 1) /\ Logged(mem, seq + 1, boot)
         /\ LogOf(mem, seq + 1) = Append(LogOf(dur, seq), boot)
         /\ seq + 1 <= boot /\ HasMagic(mem)
<1>1. /\ mem \in Region /\ dur \in Region /\ seq \in Nat /\ boot \in Nat
      /\ tail = Off(seq)
  <2>1. pc \in Early \cup Late
    BY DEF Early
  <2> QED BY <2>1 DEF PmemInv, Typed, UpInv
<1>2. /\ Holds(dur, seq) /\ Logged(dur, seq, boot - 1) /\ seq <= boot - 1
      /\ Holds(mem, seq + 1) /\ HasMagic(mem)
      /\ \A i \in Word : i < tail => mem[i] = dur[i]
  BY DEF PmemInv, UpInv, Known, Early
<1>3. mem[Off(seq) + 3] = Num(boot)
  BY <1>1 DEF PmemInv, WriteInv, Bodied
<1>4. LogOf(mem, seq + 1) = Append(LogOf(dur, seq), boot)
  <2>1. Whole(mem, seq)
    BY <1>1, <1>2 DEF Holds
  <2>2. \A i \in Word : mem[i][1] = 1 => mem[i][2] < seq + 1
    BY <1>2 DEF Holds
  <2>3. mem[Off(seq) + 3][2] = boot
    BY <1>3 DEF Num
  <2> QED BY <1>1, <1>2, <2>1, <2>2, <2>3, HoldsNext
<1>5. Logged(mem, seq + 1, boot)
  <2> SUFFICES ASSUME NEW k \in 0..seq PROVE mem[Off(k) + 3][2] <= boot
    BY <1>1 DEF Logged
  <2>1. CASE k = seq
    BY <1>1, <1>3, <2>1 DEF Num
  <2>2. CASE k # seq
    <3>1. k \in 0..(seq - 1)
      BY <1>1, <2>2
    <3>2. Off(k) + 3 \in Word /\ Off(k) + 3 < tail
      BY <1>1, <1>2, <3>1, PmemAssumption DEF Holds, Off, Base, Word
    <3>3. mem[Off(k) + 3] = dur[Off(k) + 3] /\ dur[Off(k) + 3][2] <= boot - 1
      BY <1>2, <3>1, <3>2 DEF Logged
    <3>4. dur[Off(k) + 3][2] \in Nat
      BY <1>1, <1>2, <3>1, Values
    <3> QED BY <1>1, <3>3, <3>4
  <2> QED BY <2>1, <2>2
<1> QED BY <1>1, <1>2, <1>4, <1>5

\* The mark is durable: the tail and the number are moved behind the record.
LEMMA CommitFenceKeeps ==
  ASSUME PmemInv, CommitFence
  PROVE  PmemInv'
<1>1. /\ pc = "commitFence" /\ pc' = "inject" /\ dur' = mem /\ mem' = mem
      /\ boot' = boot /\ tail' = tail + 6 /\ seq' = seq + 1
  BY Spans DEF CommitFence, Fence, Committed, Go
<1>2. /\ Holds(mem, seq + 1) /\ Logged(mem, seq + 1, boot)
      /\ seq + 1 <= boot /\ HasMagic(mem)
  BY <1>1, Marked
<1>3. Typed /\ tail \in Nat /\ seq \in Nat /\ tail = Off(seq) /\ mem \in Region
  <2>1. pc \in Early \cup Late
    BY <1>1 DEF Early
  <2> QED BY <2>1 DEF PmemInv, Typed, UpInv
<1>4. tail' = Off(seq')
  BY <1>1, <1>3 DEF Off, Base
<1>5. Typed'
  BY <1>1, <1>3 DEF Typed, Late
<1>6. DownInv' /\ FreshInv' /\ WriteInv'
  BY <1>1 DEF DownInv, FreshInv, WriteInv, Fresh
<1>7. UpInv'
  <2>1. Known' = boot
    BY <1>1 DEF Known, Early
  <2> QED BY <1>1, <1>2, <1>4, <2>1 DEF UpInv
<1> QED BY <1>5, <1>6, <1>7 DEF PmemInv

\* The other fences.
LEMMA OtherFenceKeeps ==
  ASSUME PmemInv, OtherFence
  PROVE  PmemInv'
<1>1. dur' = mem /\ UNCHANGED <<mem, boot, tail, seq, mark>>
  BY DEF OtherFence, Fence
<1>2. Typed /\ boot \in Nat /\ mem \in Region
  BY DEF PmemInv, Typed
<1>3. CASE pc = "magicFence" /\ pc' = "capacity"
  <2>1. tail = Base /\ seq = 0 /\ boot > 0 /\ Holds(mem, 0) /\ HasMagic(mem)
    BY <1>3 DEF PmemInv, FreshInv, Fresh
  <2>2. Typed'
    BY <1>1, <1>2, <1>3 DEF Typed, Fresh
  <2>3. FreshInv'
    BY <1>1, <1>3, <2>1 DEF FreshInv
  <2>4. DownInv' /\ UpInv' /\ WriteInv'
    BY <1>3 DEF DownInv, UpInv, WriteInv, Early, Late
  <2> QED BY <2>2, <2>3, <2>4 DEF PmemInv
<1>4. CASE pc = "capacityFence" /\ pc' = "append"
  <2>1. tail = Base /\ seq = 0 /\ boot > 0 /\ Holds(mem, 0) /\ HasMagic(mem)
    BY <1>4 DEF PmemInv, FreshInv, Fresh
  <2>2. Typed'
    BY <1>1, <1>2, <1>4 DEF Typed, Early
  <2>3. UpInv'
    <3>1. Known' = boot - 1
      BY <1>1, <1>4 DEF Known, Early
    <3>2. Logged(mem, 0, boot - 1) /\ 0 <= boot - 1
      BY <1>2, <2>1 DEF Logged
    <3>3. Logged(mem, seq, boot - 1) /\ seq <= boot - 1
      BY <2>1, <3>2
    <3>4. /\ HasMagic(dur') /\ HasMagic(mem') /\ Holds(dur', seq') /\ Holds(mem', seq')
          /\ Logged(dur', seq', Known') /\ seq' <= Known'
      BY <1>1, <2>1, <3>1, <3>3
    <3>5. tail' = Off(seq')
      BY <1>1, <2>1, Header
    <3> QED BY <1>1, <1>4, <3>4, <3>5 DEF UpInv
  <2>4. DownInv' /\ FreshInv' /\ WriteInv'
    BY <1>1, <1>4 DEF DownInv, FreshInv, WriteInv, Fresh
  <2> QED BY <2>2, <2>3, <2>4 DEF PmemInv
<1>5. CASE pc = "bodyFence" /\ pc' = "commit"
  <2>1. Typed' /\ DownInv' /\ FreshInv' /\ UpInv'
    BY <1>1, <1>5, FenceKeeps DEF Early, Late
  <2>2. Fits(2) /\ Bodied(mem) /\ mark = <<1, seq>>
    BY <1>5 DEF PmemInv, WriteInv
  <2>3. Fits(2)' /\ Bodied(mem)'
    BY <1>1, <2>2 DEF Fits, Bodied
  <2>4. WriteInv'
    BY <1>1, <1>5, <2>2, <2>3 DEF WriteInv
  <2> QED BY <2>1, <2>4 DEF PmemInv
<1>6. CASE pc = "tornFence" /\ pc' = "tornMark"
  <2>1. Typed' /\ DownInv' /\ FreshInv' /\ UpInv'
    BY <1>1, <1>6, FenceKeeps DEF Early, Late
  <2>2. Fits(TornWords) /\ mark = <<1, seq>>
    BY <1>6 DEF PmemInv, WriteInv
  <2>3. Fits(TornWords)'
    BY <1>1, <2>2 DEF Fits
  <2>4. WriteInv'
    BY <1>1, <1>6, <2>2, <2>3 DEF WriteInv
  <2> QED BY <2>1, <2>4 DEF PmemInv
<1>7. CASE pc = "tornMarkFence" /\ pc' = "done"
  <2>1. Typed' /\ DownInv' /\ FreshInv' /\ UpInv'
    BY <1>1, <1>7, FenceKeeps DEF Early, Late
  <2>2. WriteInv'
    BY <1>1, <1>7 DEF WriteInv
  <2> QED BY <2>1, <2>2 DEF PmemInv
<1> QED BY <1>3, <1>4, <1>5, <1>6, <1>7 DEF OtherFence, Fence, Go

\* The log is full.
LEMMA FullKeeps ==
  ASSUME PmemInv, Full("append", 2, "inject") \/ Full("inject", TornWords, "done")
  PROVE  PmemInv'
<1>1. UNCHANGED <<mem, dur, boot, tail, seq, mark>>
  BY DEF Full
<1>2. \/ pc = "append" /\ pc' = "inject"
      \/ pc = "inject" /\ pc' = "done"
  BY DEF Full, Go
<1>3. Typed /\ boot \in Nat /\ seq \in Nat /\ dur \in Region
  BY DEF PmemInv, Typed
<1>4. Typed'
  BY <1>1, <1>2, <1>3 DEF Typed, Late
<1>5. DownInv' /\ FreshInv'
  BY <1>2 DEF DownInv, FreshInv, Fresh
<1>6. WriteInv'
  BY <1>1, <1>2 DEF PmemInv, WriteInv
<1>7. UpInv'
  <2>1. /\ HasMagic(mem) /\ HasMagic(dur) /\ tail = Off(seq) /\ seq <= Known
        /\ Holds(dur, seq) /\ Logged(dur, seq, Known) /\ Holds(mem, seq)
        /\ \A i \in Word : i < tail => mem[i] = dur[i]
    BY <1>2 DEF PmemInv, UpInv, Early, Late
  <2>2. Known \in {boot - 1, boot} /\ Known' = boot
    BY <1>1, <1>2 DEF Known, Early
  <2>3. seq <= boot
    BY <1>3, <2>1, <2>2
  <2>4. Logged(dur, seq, boot)
    <3> SUFFICES ASSUME NEW k \in 0..(seq - 1) PROVE dur[Off(k) + 3][2] <= boot
      BY DEF Logged
    <3>1. dur[Off(k) + 3][2] \in Nat /\ dur[Off(k) + 3][2] <= Known
      BY <1>3, <2>1, Values DEF Logged
    <3> QED BY <1>3, <2>2, <3>1
  <2> QED BY <1>1, <1>2, <2>1, <2>2, <2>3, <2>4 DEF UpInv
<1> QED BY <1>4, <1>5, <1>6, <1>7 DEF PmemInv

\* What a loss of power leaves: in a log in use, its records, and the one under
\* way if its mark made it.
LEMMA CrashLeaves ==
  ASSUME PmemInv, Crash
  PROVE  /\ dur' \in Region
         /\ pc \in Fresh => Holds(dur', 0)
         /\ pc \in Early \cup Late =>
              /\ HasMagic(dur')
              /\ \/ /\ Holds(dur', seq) /\ Logged(dur', seq, Known)
                    /\ LogOf(dur', seq) = LogOf(dur, seq)
                 \/ pc = "commitFence" /\ dur' = mem
<1>1. PICK kept \in SUBSET {i \in Word : mem[i] # dur[i]} :
        dur' = [i \in Word |-> IF i \in kept THEN mem[i] ELSE dur[i]]
  BY DEF Crash
<1>2. mem \in Region /\ dur \in Region
  BY DEF PmemInv, Typed
<1>3. \A i \in Word : dur'[i] = mem[i] \/ dur'[i] = dur[i]
  BY <1>1
<1>4. dur' \in Region
  BY <1>1, <1>2 DEF Region
<1>5. ASSUME pc \in Fresh
      PROVE  Holds(dur', 0)
  <2>1. Holds(mem, 0) /\ Holds(dur, 0)
    BY <1>5 DEF PmemInv, FreshInv
  <2> QED BY <1>3, <2>1 DEF Holds
<1>6. ASSUME pc \in Early \cup Late
      PROVE  /\ HasMagic(dur')
             /\ \/ /\ Holds(dur', seq) /\ Logged(dur', seq, Known)
                   /\ LogOf(dur', seq) = LogOf(dur, seq)
                \/ pc = "commitFence" /\ dur' = mem
  <2>1. /\ HasMagic(mem) /\ HasMagic(dur) /\ tail = Off(seq) /\ seq \in Nat
        /\ Holds(dur, seq) /\ Logged(dur, seq, Known)
        /\ \A i \in Word : i < tail => mem[i] = dur[i]
    BY <1>6 DEF PmemInv, Typed, UpInv
  <2>2. HasMagic(dur')
    BY <1>3, <2>1, Header DEF HasMagic
  <2>3. CASE pc # "commitFence"
    <3>1. Holds(mem, seq)
      BY <1>6, <2>3, UpSame
    <3>2. \A i \in Word : dur'[i][1] = 1 => dur'[i][2] < seq
      BY <1>3, <2>1, <3>1 DEF Holds
    <3>3. \A i \in Word : i < Off(seq) => dur'[i] = dur[i]
      BY <1>3, <2>1
    <3>4. /\ Holds(dur', seq) /\ LogOf(dur', seq) = LogOf(dur, seq)
          /\ Logged(dur', seq, Known)
      BY <1>2, <1>4, <2>1, <3>2, <3>3, HoldsSame
    <3> QED BY <2>2, <3>4
  <2>4. CASE pc = "commitFence"
    <3>1. mem = [dur EXCEPT ![tail + 5] = <<1, seq>>]
      BY <2>4 DEF PmemInv, WriteInv
    <3>2. \A i \in Word : i # tail + 5 => mem[i] = dur[i]
      BY <1>2, <3>1 DEF Region
    <3>3. CASE tail + 5 \in kept
      <4>1. \A i \in Word : dur'[i] = mem[i]
        BY <1>1, <3>2, <3>3
      <4>2. dur' = mem
        BY <1>2, <1>4, <4>1 DEF Region
      <4> QED BY <2>2, <2>4, <4>2
    <3>4. CASE tail + 5 \notin kept
      <4>1. \A i \in Word : dur'[i] = dur[i]
        BY <1>1, <3>2, <3>4
      <4>2. dur' = dur
        BY <1>2, <1>4, <4>1 DEF Region
      <4> QED BY <2>1, <2>2, <4>2
    <3> QED BY <3>3, <3>4
  <2> QED BY <2>3, <2>4
<1> QED BY <1>4, <1>5, <1>6

\* The power fails.
LEMMA CrashKeeps ==
  ASSUME PmemInv, Crash
  PROVE  PmemInv'
<1>1. /\ mem' = dur' /\ pc' = "down" /\ tail' = Base /\ seq' = 0 /\ boot' = boot
      /\ pc # "down" /\ boot \in Nat /\ boot \in 0..MaxBoots /\ seq \in Nat
  BY PmemAssumption DEF Crash, Go, PmemInv, Typed
<1>2. dur' \in Region
  BY CrashLeaves
<1>3. Typed'
  BY <1>1, <1>2, Header DEF Typed
<1>4. \E n \in Nat : /\ Holds(dur', n) /\ Logged(dur', n, boot) /\ n <= boot
                     /\ ~HasMagic(dur') => n = 0
  <2>1. CASE pc \in Fresh
    <3>1. Holds(dur', 0) /\ Logged(dur', 0, boot)
      BY <2>1, CrashLeaves DEF Logged
    <3> QED BY <1>1, <3>1
  <2>2. CASE pc \in Early \cup Late
    <3>1. HasMagic(dur')
      BY <2>2, CrashLeaves
    <3>2. CASE Holds(dur', seq) /\ Logged(dur', seq, Known)
      <4>1. Known \in {boot - 1, boot} /\ seq <= Known
        BY <2>2 DEF PmemInv, UpInv, Known
      <4>2. Logged(dur', seq, boot)
        <5> SUFFICES ASSUME NEW k \in 0..(seq - 1)
                     PROVE  dur'[Off(k) + 3][2] <= boot
          BY DEF Logged
        <5>1. dur'[Off(k) + 3][2] \in Nat /\ dur'[Off(k) + 3][2] <= Known
          BY <1>1, <1>2, <3>2, Values DEF Logged
        <5> QED BY <1>1, <4>1, <5>1
      <4> QED BY <1>1, <3>1, <3>2, <4>1, <4>2
    <3>3. CASE pc = "commitFence" /\ dur' = mem
      <4>1. Holds(mem, seq + 1) /\ Logged(mem, seq + 1, boot) /\ seq + 1 <= boot
        BY <3>3, Marked
      <4>2. seq + 1 \in Nat
        BY <1>1
      <4> QED BY <3>1, <3>3, <4>1, <4>2
    <3> QED BY <2>2, <3>2, <3>3, CrashLeaves
  <2> QED BY <1>1, <2>1, <2>2 DEF PmemInv, Typed
<1>5. DownInv'
  BY <1>1, <1>4 DEF DownInv
<1>6. FreshInv' /\ UpInv' /\ WriteInv'
  BY <1>1 DEF FreshInv, UpInv, WriteInv, Fresh, Early, Late
<1> QED BY <1>3, <1>5, <1>6 DEF PmemInv

\* Every step keeps the invariant.
LEMMA Keeps == PmemInv /\ [Next]_vars => PmemInv'
<1> SUFFICES ASSUME PmemInv, [Next]_vars PROVE PmemInv'
  OBVIOUS
<1>1. CASE Recover
  BY <1>1, RecoverKeeps
<1>2. CASE PutMagic
  BY <1>2, PutMagicKeeps
<1>3. CASE PutCapacity
  BY <1>3, PutCapacityKeeps
<1>4. CASE AppendBody
  BY <1>4, AppendBodyKeeps
<1>5. CASE CommitMark
  BY <1>5, CommitMarkKeeps
<1>6. CASE CommitFence
  BY <1>6, CommitFenceKeeps
<1>7. CASE TornBody
  BY <1>7, TornBodyKeeps
<1>8. CASE TornMark
  BY <1>8, TornMarkKeeps
<1>9. CASE OtherFence
  BY <1>9, OtherFenceKeeps
<1>10. CASE Full("append", 2, "inject") \/ Full("inject", TornWords, "done")
  BY <1>10, FullKeeps
<1>11. CASE Crash
  BY <1>11, CrashKeeps
<1>12. CASE UNCHANGED vars
  <2>1. Typed'
    BY <1>12 DEF PmemInv, Typed, vars
  <2>2. DownInv'
    BY <1>12 DEF PmemInv, DownInv, vars
  <2>3. FreshInv'
    BY <1>12 DEF PmemInv, FreshInv, vars
  <2>4. UpInv'
    <3>1. Known' = Known
      BY <1>12 DEF Known, vars
    <3> QED BY <1>12, <3>1 DEF PmemInv, UpInv, vars
  <2>5. WriteInv'
    <3>1. Fits(2)' = Fits(2) /\ Fits(TornWords)' = Fits(TornWords)
      BY <1>12 DEF Fits, vars
    <3>2. Bodied(mem)' = Bodied(mem)
      BY <1>12 DEF Bodied, vars
    <3> QED BY <1>12, <3>1, <3>2 DEF PmemInv, WriteInv, vars
  <2> QED BY <2>1, <2>2, <2>3, <2>4, <2>5 DEF PmemInv
<1> QED BY <1>1, <1>2, <1>3, <1>4, <1>5, <1>6, <1>7, <1>8, <1>9, <1>10, <1>11,
           <1>12 DEF Next

\* So it holds in every reachable state.
LEMMA Invariance == Spec => []PmemInv
BY InitInv, Keeps, PTL DEF Spec

-----------------------------------------------------------------------------
(* The invariants.                                                         *)

\* The tail and the number stay in the region, and the tail is where so many
\* records of the boot counter's size end, however full the log is.
THEOREM TypeCorrect == Spec => []TypeOK
<1>1. PmemInv => TypeOK
  <2> SUFFICES ASSUME PmemInv PROVE TypeOK
    OBVIOUS
  <2>1. DOMAIN mem = Word /\ DOMAIN dur = Word
    BY DEF PmemInv, Typed, Region
  <2>2. /\ pc \in {"down"} \cup Fresh \cup Early \cup Late
        /\ boot \in 0..MaxBoots /\ boot \in Nat /\ MaxBoots \in Nat
    BY PmemAssumption DEF PmemInv, Typed
  <2>3. CASE pc \in {"down"} \cup Fresh
    <3>1. tail = Base /\ seq = 0
      BY <2>3 DEF PmemInv, DownInv, FreshInv
    <3> QED BY <2>1, <2>2, <3>1, PmemAssumption
            DEF TypeOK, Fresh, Early, Late, Base
  <2>4. CASE pc \in Early \cup Late
    <3>1. tail = Off(seq) /\ seq <= Known /\ seq \in Nat /\ Holds(dur, seq)
      BY <2>4 DEF PmemInv, UpInv, Typed
    <3>2. tail = Base + seq * 6 /\ tail \in Base..Size
      BY <3>1, PmemAssumption DEF Holds, Off, Base
    <3>3. seq \in 0..MaxBoots
      BY <2>2, <3>1 DEF Known
    <3> QED BY <2>1, <2>2, <3>2, <3>3, Spans DEF TypeOK, Fresh, Early, Late
  <2> QED BY <2>2, <2>3, <2>4
<1> QED BY <1>1, Invariance, PTL

\* Between its writes the running system appends where recovery would end: what
\* a torn record left behind the tail is never taken for one.
THEOREM TailIsWhereScanEnds == Spec => []TailIsFree
<1>1. PmemInv => TailIsFree
  <2> SUFFICES ASSUME PmemInv, pc \in {"append", "inject", "done"}
               PROVE  Scan(mem).end = tail /\ Len(Scan(mem).log) = seq
    BY DEF TailIsFree
  <2>1. pc \in Early \cup Late /\ pc # "commitFence"
    BY DEF Early, Late
  <2>2. Holds(mem, seq) /\ tail = Off(seq) /\ mem \in Region /\ seq \in Nat
    BY <2>1, UpSame, UpTail DEF PmemInv, Typed
  <2> QED BY <2>2, ScanFinds, LogLen
<1> QED BY <1>1, Invariance, PTL

-----------------------------------------------------------------------------
(* The log that DurableLog describes.                                      *)

\* What a boot would recover from a region.
Recorded(m) == IF HasMagic(m) THEN Scan(m).log ELSE <<>>

\* With power it is the records in front of the tail; with a log under
\* construction there are none.
LEMMA RecordedIs ==
  ASSUME PmemInv
  PROVE  /\ pc \in Fresh => Recorded(dur) = <<>> /\ Recorded(mem) = <<>>
         /\ pc \in Early \cup Late => Recorded(dur) = LogOf(dur, seq)
<1>1. mem \in Region /\ dur \in Region /\ seq \in Nat
  BY DEF PmemInv, Typed
<1>2. ASSUME pc \in Fresh
      PROVE  Recorded(dur) = <<>> /\ Recorded(mem) = <<>>
  <2>1. Holds(mem, 0) /\ Holds(dur, 0)
    BY <1>2 DEF PmemInv, FreshInv
  <2>2. Scan(mem).log = LogOf(mem, 0) /\ Scan(dur).log = LogOf(dur, 0)
    BY <1>1, <2>1, ScanFinds
  <2>3. LogOf(mem, 0) = <<>> /\ LogOf(dur, 0) = <<>>
    BY DEF LogOf
  <2> QED BY <2>2, <2>3 DEF Recorded
<1>3. ASSUME pc \in Early \cup Late
      PROVE  Recorded(dur) = LogOf(dur, seq)
  <2>1. HasMagic(dur) /\ Holds(dur, seq)
    BY <1>3 DEF PmemInv, UpInv
  <2> QED BY <1>1, <2>1, ScanFinds DEF Recorded
<1> QED BY <1>2, <1>3

\* A boot's record is in the log at most once.
LEMMA NotYet ==
  ASSUME PmemInv, pc \in Early
  PROVE  boot \notin Durable!ToSet(LogOf(dur, seq))
<1>1. /\ dur \in Region /\ seq \in Nat /\ boot \in Nat
      /\ Holds(dur, seq) /\ Logged(dur, seq, boot - 1)
  BY DEF PmemInv, Typed, UpInv, Known
<1>2. \A k \in 1..seq : LogOf(dur, seq)[k] # boot
  <2> SUFFICES ASSUME NEW k \in 1..seq PROVE LogOf(dur, seq)[k] # boot
    OBVIOUS
  <2>1. k - 1 \in 0..(seq - 1) /\ LogOf(dur, seq)[k] = dur[Off(k - 1) + 3][2]
    BY <1>1 DEF LogOf
  <2>2. dur[Off(k - 1) + 3][2] \in Nat /\ dur[Off(k - 1) + 3][2] <= boot - 1
    BY <1>1, <2>1, Values DEF Logged
  <2> QED BY <1>1, <2>1, <2>2
<1> QED BY <1>2 DEF Durable!ToSet, LogOf

\* A step of DurableLog, or none.
DurableStep == [Durable!Next]_(Durable!logVars)

\* A step that leaves the log alone is none there.
LEMMA Stutters ==
  ASSUME Recorded(dur') = Recorded(dur), UNCHANGED <<boot, seq>>,
         Recovered' = Recovered
  PROVE  DurableStep
<1>1. Recoverable' = Recoverable
  BY DEF Recoverable, Recorded
<1> QED BY <1>1 DEF DurableStep, Durable!logVars

\* Recovery of a log, or a boot that has to make one.
LEMMA RecoverMaps ==
  ASSUME PmemInv, Recover
  PROVE  DurableStep
<1>1. /\ pc = "down" /\ mem' = mem /\ dur' = dur /\ mem = dur /\ boot' = boot + 1
      /\ seq = 0
  BY DEF Recover, PmemInv, DownInv
<1>2. Recoverable' = Recoverable
  BY <1>1 DEF Recoverable
<1>3. Recovered = FALSE
  BY <1>1 DEF Recovered
<1>4. CASE HasMagic(mem)
  <2>1. pc' = "append" /\ seq' = Len(Scan(mem).log)
    BY <1>4 DEF Recover, Go
  <2>2. Recoverable = Scan(mem).log
    BY <1>1, <1>4 DEF Recoverable
  <2>3. Recovered' = TRUE
    BY <2>1 DEF Recovered
  <2>4. boot' \in {boot, boot + 1}
    BY <1>1
  <2>5. Durable!Recover
    BY <1>2, <1>3, <2>1, <2>2, <2>3, <2>4 DEF Durable!Recover
  <2> QED BY <2>5 DEF DurableStep, Durable!Next
<1>5. CASE ~HasMagic(mem)
  <2>1. pc' = "magic" /\ seq' = seq
    BY <1>1, <1>5 DEF Recover, Go
  <2>2. Recovered' = FALSE
    BY <2>1 DEF Recovered
  <2>3. Durable!Boot
    BY <1>1, <1>2, <1>3, <2>1, <2>2 DEF Durable!Boot
  <2> QED BY <2>3 DEF DurableStep, Durable!Next
<1> QED BY <1>4, <1>5

\* A store is not durable.
LEMMA StoreMaps ==
  ASSUME PmemInv,
         PutMagic \/ PutCapacity \/ AppendBody \/ CommitMark \/ TornBody \/ TornMark
  PROVE  DurableStep
<1>1. UNCHANGED <<dur, boot, seq>>
  BY DEF PutMagic, PutCapacity, AppendBody, CommitMark, TornBody, TornMark, WriteBody,
         Step
<1>2. \/ pc = "magic" /\ pc' = "magicFence"
      \/ pc = "capacity" /\ pc' = "capacityFence"
      \/ pc \in {"append", "commit", "inject", "tornMark"}
         /\ pc' \in {"bodyFence", "commitFence", "tornFence", "tornMarkFence"}
  BY DEF PutMagic, PutCapacity, AppendBody, CommitMark, TornBody, TornMark, WriteBody,
         Step, Go
<1>3. Recovered' = Recovered
  BY <1>2 DEF Recovered
<1> QED BY <1>1, <1>3, Stutters

\* Nor does a log that is full change.
LEMMA FullMaps ==
  ASSUME PmemInv,
         Full("append", 2, "inject") \/ Full("inject", TornWords, "done")
  PROVE  DurableStep
<1>1. UNCHANGED <<dur, boot, seq>>
  BY DEF Full
<1>2. Recovered' = Recovered
  BY DEF Full, Go, Recovered
<1> QED BY <1>1, <1>2, Stutters

\* The fence behind the mark commits the record.
LEMMA CommitFenceMaps ==
  ASSUME PmemInv, CommitFence
  PROVE  DurableStep
<1>1. /\ pc = "commitFence" /\ pc' = "inject" /\ dur' = mem
      /\ boot' = boot /\ seq' = seq + 1
  BY DEF CommitFence, Fence, Committed, Go
<1>2. pc \in Early /\ pc \in Early \cup Late /\ mem \in Region /\ seq \in Nat
  BY <1>1 DEF PmemInv, Typed, Early
<1>3. Recoverable = LogOf(dur, seq)
  BY <1>2, RecordedIs DEF Recoverable, Recorded
<1>4. Recoverable' = LogOf(mem, seq + 1)
  <2>1. HasMagic(mem) /\ Holds(mem, seq + 1)
    BY <1>1, Marked
  <2>2. Scan(mem).log = LogOf(mem, seq + 1)
    BY <1>2, <2>1, ScanFinds
  <2> QED BY <1>1, <2>1, <2>2 DEF Recoverable
<1>5. Durable!Grown
  BY <1>1, <1>2, <1>3, <1>4, Marked, NotYet DEF Durable!Grown
<1>6. seq' = Len(Recoverable')
  BY <1>1, <1>2, <1>4, Marked, LogLen
<1>7. Recovered = TRUE /\ Recovered' = TRUE
  BY <1>1 DEF Recovered
<1>8. Durable!Commit
  BY <1>1, <1>5, <1>6, <1>7 DEF Durable!Commit
<1> QED BY <1>8 DEF DurableStep, Durable!Next

\* The fence behind the header ends the making of a log; the others make durable
\* what no recovery would find.
LEMMA OtherFenceMaps ==
  ASSUME PmemInv, OtherFence
  PROVE  DurableStep
<1>1. dur' = mem /\ mem' = mem /\ boot' = boot /\ seq' = seq
  BY DEF OtherFence, Fence
<1>2. CASE pc = "magicFence" /\ pc' = "capacity"
  <2>1. Recorded(dur') = Recorded(dur)
    BY <1>1, <1>2, RecordedIs DEF Fresh
  <2>2. Recovered' = Recovered
    BY <1>2 DEF Recovered
  <2> QED BY <1>1, <2>1, <2>2, Stutters
<1>3. CASE pc = "capacityFence" /\ pc' = "append"
  <2>1. Recorded(dur') = <<>> /\ Recorded(dur) = <<>>
    BY <1>1, <1>3, RecordedIs DEF Fresh
  <2>2. Recoverable' = <<>> /\ Recoverable = <<>>
    BY <2>1 DEF Recoverable, Recorded
  <2>3. seq' = Len(Recoverable)
    BY <1>1, <1>3, <2>2 DEF PmemInv, FreshInv, Fresh
  <2>4. Recovered = FALSE /\ Recovered' = TRUE
    BY <1>3 DEF Recovered
  <2>5. Durable!Recover
    BY <1>1, <2>2, <2>3, <2>4 DEF Durable!Recover
  <2> QED BY <2>5 DEF DurableStep, Durable!Next
<1>4. CASE \/ pc = "bodyFence" /\ pc' = "commit"
           \/ pc = "tornFence" /\ pc' = "tornMark"
           \/ pc = "tornMarkFence" /\ pc' = "done"
  <2>1. pc \in Early \cup Late /\ pc # "commitFence"
    BY <1>4 DEF Early, Late
  <2>2. Recorded(dur) = LogOf(dur, seq)
    BY <2>1, RecordedIs
  <2>3. Recorded(dur') = LogOf(mem, seq)
    <3>1. mem \in Region /\ seq \in Nat /\ HasMagic(mem)
      BY <2>1 DEF PmemInv, Typed, UpInv
    <3>2. Scan(mem).log = LogOf(mem, seq)
      BY <2>1, <3>1, UpSame, ScanFinds
    <3> QED BY <1>1, <3>1, <3>2 DEF Recorded
  <2>4. Recovered' = Recovered
    BY <1>4 DEF Recovered
  <2>5. LogOf(mem, seq) = LogOf(dur, seq)
    BY <2>1, UpSame
  <2> QED BY <1>1, <2>2, <2>3, <2>4, <2>5, Stutters
<1> QED BY <1>2, <1>3, <1>4 DEF OtherFence, Fence, Go

\* A loss of power leaves the log as it was, or with the record under way.
LEMMA CrashMaps ==
  ASSUME PmemInv, Crash
  PROVE  DurableStep
<1>1. pc # "down" /\ pc' = "down" /\ seq' = 0 /\ boot' = boot
  BY DEF Crash, Go
<1>2. Recovered' = FALSE
  BY <1>1 DEF Recovered
<1>3. dur' \in Region /\ seq \in Nat /\ mem \in Region
  BY CrashLeaves DEF PmemInv, Typed
<1>4. UNCHANGED Recoverable \/ (Recovered /\ Durable!Grown)
  <2>1. CASE pc \in Fresh
    <3>1. Recorded(dur') = <<>>
      <4>1. Scan(dur').log = LogOf(dur', 0) /\ LogOf(dur', 0) = <<>>
        <5>1. LogOf(dur', 0) = <<>>
          BY DEF LogOf
        <5>2. 0 \in Nat /\ Holds(dur', 0)
          BY <2>1, CrashLeaves
        <5> QED BY <1>3, <5>1, <5>2, ScanFinds
      <4> QED BY <4>1 DEF Recorded
    <3>2. Recorded(dur) = <<>>
      BY <2>1, RecordedIs
    <3> QED BY <3>1, <3>2 DEF Recoverable, Recorded
  <2>2. CASE pc \in Early \cup Late
    <3>1. Recoverable = LogOf(dur, seq)
      BY <2>2, RecordedIs DEF Recoverable, Recorded
    <3>2. HasMagic(dur')
      BY <2>2, CrashLeaves
    <3>3. CASE Holds(dur', seq) /\ LogOf(dur', seq) = LogOf(dur, seq)
      <4>1. Scan(dur').log = LogOf(dur', seq)
        BY <1>3, <3>3, ScanFinds
      <4> QED BY <3>1, <3>2, <3>3, <4>1 DEF Recoverable
    <3>4. CASE pc = "commitFence" /\ dur' = mem
      <4>1. Holds(mem, seq + 1) /\ LogOf(mem, seq + 1) = Append(LogOf(dur, seq), boot)
        BY <3>4, Marked
      <4>2. Scan(mem).log = LogOf(mem, seq + 1)
        BY <1>3, <4>1, ScanFinds
      <4>3. Recoverable' = Append(Recoverable, boot)
        BY <3>1, <3>2, <3>4, <4>1, <4>2 DEF Recoverable
      <4>4. boot \notin Durable!ToSet(Recoverable)
        BY <3>1, <3>4, NotYet DEF Early
      <4>5. Recovered
        BY <3>4 DEF Recovered
      <4> QED BY <4>3, <4>4, <4>5 DEF Durable!Grown
    <3> QED BY <2>2, <3>3, <3>4, CrashLeaves
  <2> QED BY <1>1, <2>1, <2>2 DEF PmemInv, Typed
<1>5. Durable!Crash
  BY <1>1, <1>2, <1>4 DEF Durable!Crash
<1> QED BY <1>5 DEF DurableStep, Durable!Next

\* Every step is one of DurableLog, or none.
LEMMA NextMaps == PmemInv /\ [Next]_vars => DurableStep
<1> SUFFICES ASSUME PmemInv, [Next]_vars PROVE DurableStep
  OBVIOUS
<1>1. CASE Recover
  BY <1>1, RecoverMaps
<1>2. CASE PutMagic \/ PutCapacity \/ AppendBody \/ CommitMark \/ TornBody \/ TornMark
  BY <1>2, StoreMaps
<1>3. CASE CommitFence
  BY <1>3, CommitFenceMaps
<1>4. CASE OtherFence
  BY <1>4, OtherFenceMaps
<1>5. CASE Full("append", 2, "inject") \/ Full("inject", TornWords, "done")
  BY <1>5, FullMaps
<1>6. CASE Crash
  BY <1>6, CrashMaps
<1>7. CASE UNCHANGED vars
  BY <1>7, Stutters DEF vars, Recovered
<1> QED BY <1>1, <1>2, <1>3, <1>4, <1>5, <1>6, <1>7 DEF Next

\* A region of zeroes is an empty log that no boot has recovered.
LEMMA InitMaps == Init => Durable!Init
<1> SUFFICES ASSUME Init PROVE Durable!Init
  OBVIOUS
<1>1. ~HasMagic(dur)
  BY Header DEF Init, HasMagic, Magic, Zero, Num
<1> QED BY <1>1 DEF Init, Durable!Init, Recoverable, Recovered

\* A loss of power at any instant of append, injectTornTail or the making of the
\* log leaves what the next recover finds with the record under way or without
\* it, every earlier record in its place; what was committed stays, and nothing
\* is taken for a record that was not committed.
THEOREM ImplementsDurableLog == Spec => IsDurableLog
<1>1. PmemInv /\ [Next]_vars => [Durable!Next]_(Durable!logVars)
  BY NextMaps DEF DurableStep
<1> QED BY <1>1, InitMaps, Invariance, PTL DEF Spec, IsDurableLog, Durable!Spec
=============================================================================
