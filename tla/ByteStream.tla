----------------------------- MODULE ByteStream -----------------------------
(***************************************************************************)
(* What an anonymous pipe promises its callers, whatever the ring and the  *)
(* wait slots of src/src/proc/pipe.zig do: one queue of bytes, appended to *)
(* by writes and emptied from the front by reads, and calls that end for a *)
(* reason the caller can rely on.                                          *)
(***************************************************************************)
EXTENDS Naturals, Sequences

CONSTANTS
  Actors,   \* who may hold an end
  Bytes,
  Size,     \* what the queue holds at most
  MaxLen    \* longest transfer asked for

VARIABLES
  queue,    \* bytes written and not read, oldest first
  ends,     \* the ends, "r" and "w", each actor holds
  call      \* each actor's read or write: what is left of it, how it ended

vars == <<queue, ends, call>>

NoCall == [op |-> "none", want |-> 0, seq |-> <<>>, end |-> "no"]

Data == UNION {[1..n -> Bytes] : n \in 1..MaxLen}

Nobody(e) == \A a \in Actors : e \notin ends[a]

Init ==
  /\ queue = <<>>
  /\ ends = [a \in Actors |-> {}]
  /\ call = [a \in Actors |-> NoCall]

Pending(a, o) == call[a].op = o /\ call[a].end = "no"

Begin(a) ==
  /\ call[a] = NoCall
  /\ \/ /\ "r" \in ends[a]
        /\ \E n \in 1..MaxLen :
             call' = [call EXCEPT ![a] = [NoCall EXCEPT !.op = "read", !.want = n]]
     \/ /\ "w" \in ends[a]
        /\ \E d \in Data :
             call' = [call EXCEPT ![a] = [NoCall EXCEPT !.op = "write", !.seq = d]]
  /\ UNCHANGED <<queue, ends>>

\* A read takes the oldest bytes; it is over when it has all it wants.
Take(a) ==
  /\ Pending(a, "read")
  /\ \E k \in 1..Len(queue) :
       /\ k <= call[a].want
       /\ queue' = SubSeq(queue, k + 1, Len(queue))
       /\ call' = [call EXCEPT ![a].want = @ - k,
                               ![a].seq = @ \o SubSeq(queue, 1, k),
                               ![a].end = IF k = call[a].want THEN "ok" ELSE "no"]
  /\ UNCHANGED ends

\* A write appends its bytes in order; it is over when it has none left.
Put(a) ==
  /\ Pending(a, "write")
  /\ \E k \in 1..Len(call[a].seq) :
       LET rest == SubSeq(call[a].seq, k + 1, Len(call[a].seq))
       IN /\ Len(queue) + k <= Size
          /\ queue' = queue \o SubSeq(call[a].seq, 1, k)
          /\ call' = [call EXCEPT ![a].seq = rest,
                                  ![a].end = IF rest = <<>> THEN "ok" ELSE "no"]
  /\ UNCHANGED ends

\* End of file: nothing to read, and nobody left to write.  Broken pipe:
\* nobody left to read.  Short read: some bytes, and none left for now.
Finish(a) ==
  /\ call[a].end = "no"
  /\ \/ /\ call[a].op = "read"
        /\ \E w \in {"eof", "short", "signal", "fault"} :
             /\ w = "eof" => queue = <<>> /\ Nobody("w")
             /\ w = "short" => queue = <<>> /\ call[a].seq # <<>>
             /\ call' = [call EXCEPT ![a].end = w]
     \/ /\ call[a].op = "write"
        /\ \E w \in {"epipe", "signal", "fault"} :
             /\ w = "epipe" => Nobody("r")
             /\ call' = [call EXCEPT ![a].end = w]
  /\ UNCHANGED <<queue, ends>>

\* Back to the caller, or dead.
Return(a) ==
  /\ call' = [call EXCEPT ![a] = NoCall]
  /\ UNCHANGED <<queue, ends>>

\* The desktop's calls, which never wait.
TryTake(a) ==
  /\ "r" \in ends[a]
  /\ \E k \in 1..Len(queue) : queue' = SubSeq(queue, k + 1, Len(queue))
  /\ UNCHANGED <<ends, call>>

TryPut(a) ==
  /\ "w" \in ends[a]
  /\ \E d \in Data : /\ Len(queue) + Len(d) <= Size
                     /\ queue' = queue \o d
  /\ UNCHANGED <<ends, call>>

\* A new pipe is empty, and made only when nobody holds the last one.
Create(a) ==
  /\ Nobody("r") /\ Nobody("w")
  /\ ends' = [ends EXCEPT ![a] = {"r", "w"}]
  /\ queue' = <<>>
  /\ UNCHANGED call

Inherit(a, b, e) ==
  /\ e \in ends[a]
  /\ ends' = [ends EXCEPT ![b] = @ \cup {e}]
  /\ UNCHANGED <<queue, call>>

\* The last close drops what nobody has read.
Close(a, e) ==
  /\ ends' = [ends EXCEPT ![a] = @ \ {e}]
  /\ queue' = IF \A b \in Actors : ends'[b] = {} THEN <<>> ELSE queue
  /\ UNCHANGED call

Next ==
  \E a \in Actors :
    \/ Begin(a) \/ Take(a) \/ Put(a) \/ Finish(a) \/ Return(a)
    \/ TryTake(a) \/ TryPut(a) \/ Create(a)
    \/ \E e \in {"r", "w"} : Close(a, e) \/ \E b \in Actors : Inherit(a, b, e)

Spec == Init /\ [][Next]_vars
=============================================================================
