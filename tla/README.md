# Zigos: TLA+ models of the kernel's concurrent core

Zigos is a 64-bit SMP kernel written in Zig (`src/src`), with its desktop, its
file systems, its network stack and its drivers in one address space, and user
processes made of threads. This directory holds TLA+ modules of the parts where
several CPUs, tasks and interrupts meet, TLC configurations that check them on
small instances, and proofs checked by TLAPS.

Contents: [the system](#the-system) - [modules](#modules) -
[runs](#runs) - [fairness](#fairness) - [proofs](#proofs) -
[windows the passing runs leave closed](#windows-the-passing-runs-leave-closed) -
[findings](#findings) - [what is not modelled](#what-is-not-modelled) -
[plan](#plan).

## The system

The kernel keeps a table of process slots (`proc/process.zig`, `PCB`). A slot
number is a pid; a thread is a slot whose `tgid` names the slot of its group's
lead. Almost every hard behaviour of the kernel is a protocol between the CPU a
task runs on, the CPU that wakes, kills or reaps it, and the tick.

| Component | State | Operations | Meets | Correct when |
|---|---|---|---|---|
| Blocking handshake (`sched.zig` blockOn*, wake, wakeAllWaitingOn) | per slot: `state`, `wait_kind`/`wait_target`, `wake_pending`, `on_cpu` | park: test-and-clear, enrol, `.sleeping`, recheck, yield or roll back; wake: latch, clear, make ready; scan of all slots | every primitive below; scheduler | a task does not sleep while what it waits for is there and nobody is about to wake it |
| RwMutex (`spinlock.zig`) | `readers`, `writer`, `writers_waiting`, `sleepers`, `seq` | acquireRead, acquire, tryAcquireRead, drop, dropPid | handshake; page faults and mmap (`as_lock`); teardown | writers exclude; writers do not starve; a dead holder does not wedge its group |
| Scheduler (`sched.zig`, `runqueue.zig`, `sched_asm.zig`) | `state`, `on_cpu`, `last_cpu`, `assigned_cpu`, `pinned_cpu`, run queues, per-pid state locks, each CPU's `current_pid` and stack | setState with queue update, schedule (pick, claim, switch), wake placement, migrate, setAffinity | lifecycle (kill, reap, reuse), tick | no kernel stack on two CPUs; a runnable task is in a queue; the dead do not run |
| Lifecycle (`lifecycle.zig`, `cpu/syscall/proc.zig`) | `state`, `tgid`, `parent_pid`, `page_directory`, `exit_requested`, `teardown_marked`, `group_exiting`, `death_tick` | exec, clone, exit, exit_group, kill, teardown, waitpid, reparent, sweep, slot reuse | scheduler; every resource a task owns | the address space outlives its threads and is freed once; every zombie is reaped; a parent is told |
| Pipes (`pipe.zig`, `slot_table.zig`) | ring, counts of ends, one wait slot per side, descriptor tables | alloc, read, write, tryRead, tryWrite, add/close of an end | handshake; signals; teardown; page-in of user buffers | a queue of bytes; no lost wake; end of file when the writers are gone |
| Signals, job control (`signals.zig`) | pending and blocked masks, `job_stopped` | send, deliver, stop, continue | handshake, scheduler, waitpid | no lost SIGKILL or SIGCONT into a stopping task |
| Mutex, spin locks, lock order (`spinlock.zig`, `witness.zig`) | owner, ticket | acquire, release, forced release | handshake, teardown | exclusion, no lost wake |
| Page faults, swap, page cache (`fault.zig`, `swap.zig`, `page_cache.zig`) | page table entries, swap slots, in-flight frames, dirty bits | fault, evict, swap in, write back, teardown | `as_lock`, TLB, block device | no page lost or mapped twice |
| TLB, address-space tags (`tlb.zig`, `pcid.zig`) | pending acks, generations | shootdown, reuse of a tag | scheduler switch, address-space edits | no stale translation after a shootdown returns |
| Softirqs, timers, deadlines (`softirq.zig`, `hrtimer.zig`) | pending masks, cached next deadline | raise, run, register, expire | handshake, tick | no raised work or deadline is missed |
| io rings and readiness (`iouring.zig`, `fdpoll.zig`) | rings, registrations | submit, complete, poll, wakePollers | handshake, pipes, sockets | no lost completion; no stale registration |
| Persistent log (`pmem_log.zig`) | records, tail | append, recover | power cuts | recovery finds a prefix of what was appended |
| Memory allocators (`pmm`, `heap`, `slab`, `tlsf`) | free lists, bitmaps | allocate, free | one spin lock each | no block handed out twice |
| File systems, network, drivers, graphics, crypto, eBPF, desktop | their own | their own | mostly sequential | see [what is not modelled](#what-is-not-modelled) |

Interactions. Blocking primitives call the handshake and are woken by it; a
`wake` moves a slot to `.ready`, which `setState` turns into a queue entry on
`assigned_cpu`; the tick or a yield enters `schedule()`, which also is where a
task honours `exit_requested`. A kill either waits for the victim's own CPU to
do that, or tears an off-CPU victim down from outside. Teardown calls back into
every primitive the victim may have held: `RwMutex.dropPid`, `closePipeFds`,
the address space, the parent's waitpid.

What is hard in it: stores whose order against another CPU's loads matters
(enrol and scan, demote and save); decisions taken on a value read before a lock
(queue of a task, "who is last", "is my parent waiting"); kills at any
instruction, of the one who was to wake or to free; slots reused under somebody
who has the number in hand. PROJECT.json lists these hazards, each at its line,
with the properties that watch it.

## Modules

| Module | Models | Grain |
|---|---|---|
| `Wait` | the handshake: sleeper's side, waker's side, dispatch and preemption as a sleeper sees them | one action per load or store another CPU can observe |
| `RwMutex` (extends `Wait`) | the whole lock, and what kill and teardown do to holders and waiters | a section under `guard` is one action |
| `RwMutexProofs` | theorems about `RwMutex`: types, exclusion, death, who ends a hold, wake-ups | |
| `Sched` | per-CPU queues, per-pid locks, `schedule()`, the stack switch, migration, affinity, external kill, slot reuse | a section under a queue's lock is one action |
| `MCSched` | `Sched` in the two scenes its run chooses from; the CPUs are interchangeable | |
| `SchedProofs` | theorems about `Sched` | |
| `Lifecycle` | groups, clone, exit, kills, `tearDownTask` step by step, pinned leads, waitpid, reparenting, sweep | one action per access another CPU can tell apart |
| `MCLifecycle` | `Lifecycle` in the two scenes its run chooses from | |
| `LifecycleProofs` | theorems about `Lifecycle` | |
| `ByteStream` | abstract specification: what a pipe promises its callers | one action per promised effect |
| `Pipe` (extends `Wait`) | one pipe: ring, ends, wait slots, signals, copy faults, kills; implements `ByteStream` | a section under the pipe's lock is one action, and each store of `wake()` |
| `MCPipe` | the payloads `Pipe`'s runs write | |
| `PipeProofs` | theorems about `Pipe`: types, `Validate`, `EndsCounted` | |
| `PipeStreamProofs` (extends `PipeProofs`) | the proof that `Pipe` implements `ByteStream`, and that it forgets no waiter | |
| `Swap` | eviction, discard, swap-in and mprotect of one address space's private pages, the fault path and the reclaim sweep around them, kills at every step | one action per compare-and-swap of an entry, per transfer, per store of a name that a killer reads |
| `MCSwap` | the symmetry of `Swap`'s run | |
| `SwapProofs` | theorems about `Swap` | |
| `Shootdown` | `doShootdown`, `flushUserPage`, the interrupt's handler, `loadCr3`, the life of an address-space tag | one action per access another processor can tell apart |
| `MCShootdown` | the symmetry of `Shootdown`'s runs | |
| `ShootdownProofs` | theorems about `Shootdown` | |
| `DurableLog` | abstract specification: a log that a loss of power leaves with the record under way or without it | one action per promised effect |
| `PmemLog` | the append-only log in persistent memory, recovery, and the torn record of the self test; implements `DurableLog` | one action per store and per fence |
| `PmemLogProofs` | theorems about `PmemLog`, and the proof that it implements `DurableLog` | |

Correspondence with the code. Names are the source's in the spelling of TLA+
(`wake_pending` is `wakePending`, `blocked_reader_pid` is `blockedReader`).
`pc` (in `Lifecycle`, `at`; in `Sched`, `step`) is where an actor is between two
actions, named for what it does next. PROJECT.json's `map` gives for every
definition the lines it stands for.

* `Wait`. `TestPending`, `SetWait`, `FallAsleep`, `Recheck`, `RollbackClear`,
  `RollbackRun`, `Yield`, `Resume` are the body of `blockOnLockSeq` in order;
  `ScanState`, `ScanMatch` the loop of `wakeAllWaitingOn`; `WakePend`,
  `WakeClear`, `MakeReady` the three stores of `wake()`. A task whose state is
  `.ready` under its own feet goes on executing, as it does on hardware. The
  client supplies the condition that `Recheck` reads.
* `RwMutex`. A release under `guard` bumps `seq`; since only "has it changed
  since I looked" is ever asked, `seqSeen` is the set of waiters for whom it has
  not. The mode a thread asks for, its retry, its hold and its release are
  `pc` values; `DropPid` is the teardown's walk, run by the dying task or by the
  killer (`Killer`, a task context outside the pids). `as_lock` is taken in
  page faults, which a tick may preempt, so `Preemptible` tasks lose their CPU
  at every instruction outside `guard`.
* `Sched`. `setState` is the transition under the pid's lock (`SetState`) and
  the queue update that follows it (`RqUpdate`); the lookup of the queue and the
  recheck under its lock (`acquireOwnRq`) are `LookUp` and `Settled`.
  `schedule()` is the chain of `Schedule`, `PickTask`/`PickIdle`, `Claim`,
  `Leave`, `Publish`, `SetCurrent`, `Swap`, `ClearOnCpu`. Which of the eligible
  tasks a queue yields (vruntime, bands) is left open: any.
* `Lifecycle`. `tearDownTask` is `Mark`, `FreeGroup`, `Retire`, `Notify` or
  `Unpin`, `End`; a killer's `killProcessWithStatus` is `Claim`, `Await` or
  `Poll`, `Doom`; `killPeers` is `NextPeer`; `cloneCurrent` is `Clone`,
  `JoinGroup`, `CheckGroup`, `Publish`. A thread's own `parent_pid` (its lead) is
  left out: nothing but a lead's parent is read in these paths.
* `Pipe`. A call is `StartRead` or `StartWrite`, then sections under the lock
  (`ReadCopy`, `ReadEmpty`, `WriteCopy`, `WriteFull`, `WriteBroken`) with the
  wake that each owes, `Resolve` where the copy faulted, and the interruptible
  park. A copy of `n` bytes into an evicted page moves any number up to `n`.
  A system call's body is not a preemption point (`check_and_preempt_dynirq`
  returns while `in_syscall`), so a process leaves its CPU only where it parks,
  is paged in, or runs in user mode. A process has its own descriptors.
* `Swap`. `evictFrame` is `EvictLoad` to `EvictWake`, `discardFrame` the
  `Discard...` actions, `swapInFrame` the `SwapIn...` ones, `lazyAlloc` the
  `Lazy...` ones; `Lookup`, `Enrol`, `Recheck`, `Resume` are the fault that meets
  an eviction (`blockOnSwapEvict`). `Read` and `Write` are user code, through the
  translation its CPU caches, which is not the entry. `Kill` is a teardown: it
  frees what `PCB.swap_inflight_slot` and `swap_inflight_frame` name and loses
  what only the dead stack named. Brackets of `pinPreemption` are one action.
* `Shootdown`. A processor stands for the pinned thread on it. `doShootdown` is
  `Lock`, `Bump`, `ReadMask`, `Scan` of each processor, `Send`, `Finish`;
  `flushUserPage` is `LoneBump`, `LoneMask`, `LoneScan`, and `LoneFinish` or the
  lock; `loadCr3` is `Load`, `Announce`, `ReadGen`, `WriteCr3`, `Drop` for a user
  tag and `LoadKernel`, `Leave` for the kernel's. A processor is taken to cache
  every translation of the tag it runs; `entry` says which are out of date.
* `PmemLog`. The region is an array of words in two copies, what the processor
  sees and what would survive. `Recover` is `recover`: it finds the log and
  walks it, or begins a format (`PutMagic`, `PutCapacity` and their fences). A boot
  then appends its record (`AppendBody`, a fence, `CommitMark`, `CommitFence`) and
  leaves a torn one (`TornBody`, a fence, `TornMark`: `injectTornTail`). `Crash` may
  come before any of these and keeps any part of the store under way.

## Runs

Each run finishes within about two minutes on two cores. Bounds are the CONSTANTS
of each `.cfg`; each says `(bound)` where it is declared.

| Run | Instance | Shows |
|---|---|---|
| `rwmutex` | 2 threads, both readers, one a writer too, both killable anywhere, fair; 20 k states | exclusion, no trace of a dead holder, no lost wake; every park ends; the writer gets the lock against an endless stream of readers |
| `rwmutex_lostwake` | 3 threads, none killed | counterexample to the handshake's claim, see [findings](#findings) |
| `sched` | scene "move": 2 CPUs, 2 tasks always movable, one killed and its slot reused; scene "loose": 1 task, everything it can meet, and any CPU may be overtaken between its pick and its claim; 2.9 M states up to the exchange of CPUs | "move": stacks, queues, death and reuse; both: whatever overtakes what, no runnable task drops out of all queues |
| `life` | scene "group": 3 slots, 1 process, the window of waitpid open; scene "reuse": 2 slots, 2 processes, an outside kill; 3.8 M states | a group of up to three threads that clone, exit and exit_group against each other; slots are reused, parents come and go, nothing leaks, a waiting parent hears |
| `life_lostwait` | 1 slot, the window of waitpid open | counterexample, see [findings](#findings) |
| `pipe_stream` | ring of 3 bytes, writes of two different bytes, the desktop's calls, a kill of the writer, fair; 234 k states | the ring implements `ByteStream`; the timer's `validate()` never fires; a read returns once the writers are gone, a write once the readers are |
| `pipe_wake` | ring of 1 byte, transfers of 1 or 2, the desktop's calls, signals, preemption, a kill, an evicted buffer; 5.0 M states | no parked caller is forgotten; the counts are the descriptors |
| `swap` | 2 threads, an anonymous page and one of a file image, 3 frames, 1 slot freed up to twice, a kill, mprotect, failing transfers; 0.8 M states | no write is lost, no cached translation misleads, no frame or slot has two owners, a kill costs one of them at most, a parked faulter has an evictor |
| `swap_lossless` | the same without mprotect | counterexample, see [findings](#findings) |
| `shoot` | 2 processors, 2 tags of which one's entries change, 1 page, 3 moves of a generation; scenes "locked" and "apart"; 3.2 M states | no processor uses a translation whose flush has returned, acknowledgements are paired, a processor in user tables is counted, a sender waits only for who can answer |
| `shoot_lazy` | 1 tag, 2 pages, flushes by two threads freely | counterexample, see [findings](#findings) |
| `pmemlog` | a region of 32 words (four records and a torn one), 6 boots, power lost anywhere; 5.7 k states | the log implements `DurableLog`; what lies beyond the tail is never a record |

Why the bounds are enough for what is claimed of them. The lock has two modes
and its masks treat pids alike: a thread of each mode and one of both is every
pair of roles that `Exclusion`, proved for any number, and the handshake
distinguish; the third thread, an overtaken waker, is in `rwmutex_lostwake`. Two
CPUs and two tasks are what a stack collision, a stolen task or a reused slot
takes; a third task adds only another choice for `PickTask`. Three slots hold a
lead, a worker that dies and a worker that is still being cloned. A pipe has one
wait slot per side, a reader and a writer at most in it; a ring of three bytes
takes a write of two that fits, one that is cut short and, the second time
around, one that crosses its end; two byte values tell a lost, a doubled and an
exchanged byte apart, because a payload's differ. One swap slot is reused by every
eviction, so a stale name of it always meets a new owner, and the third frame lets
a swap-in race an eviction. A shootdown has one sender at a time, and the
processors it looks at are independent of each other: with one target the lock,
the lone flush and the lazy reload all meet; that it holds for any number is
proved. Four records fill the log's region, and two more boots find it full.

`sched`'s scene "loose" opens the gap between a pick and its claim to everybody:
the code runs it with interrupts off, but a host may pause a virtual CPU there,
and the comment at `sched.zig:1527` says such pauses stretch windows to
milliseconds. In scene "move" that gap is closed (`Stallable = {}`), see
[below](#windows-the-passing-runs-leave-closed), and the properties that need it
closed say so (`OneStackUnstalled` and its neighbours in `MCSched`;
`ParentHearsUnbroken` in `MCLifecycle` likewise).

`shoot`'s scene "locked" leaves out `flushUserPage`; "apart" has it, and every
flush of an address space ends before the next one of the same space begins.
That is stricter than the code's callers are (`shoot_lazy` shows what they may
meet), and weaker than it looks: the processors still load, leave and reload the
tag at every step of the flush, and flushes of different tags overlap.

`CHECK_DEADLOCK FALSE` appears where the system may really stop: in the lock's,
the lifecycle's and the swap's runs because every task may be dead and the bound
on creations used up; in `shoot` because the generations reach their bound; in
`pmemlog` because the last boot has no next one; in `pipe_stream` because the
process that opened the pipe keeps both its ends and may read from an empty pipe
that only it could fill, which blocks for ever, as it does in POSIX. `sched` and
`pipe_wake` are checked for deadlock.

## Fairness

Each assumption is one the code's scheduling justifies.

* A task on its CPU executes (`TaskStep`), and a ready one is picked sooner or
  later (`DispatchTask`): the run queues order by vruntime, so a waiting task's
  turn comes. Strong fairness, because preemption disables both again and again.
* A doomed task reaches `schedule()` (`SelfDestroy`): at the latest at the next
  tick in user mode.
* The killer's context finishes what it began: it is a task too.
* In `Pipe`: a system call goes on, a parked task that is ready is dispatched, a
  fault is served, and a doomed task is torn down.

Fairness is stated in `RwMutex` (`NeverStranded`, `WriterNotStarved`) and `Pipe`
(`HangUpEnds`); the other modules' properties are of safety. What they say of a
waiter is that somebody alive owes it its wake (`VictimAttended`,
`FaulterAttended`, `AwaitedCanAnswer`), which is the part that can go wrong.

No fairness is assumed of user programs: nobody has to write to a pipe, close
an end, release by choice more than the code does, or clone.

## Proofs

`RwMutexProofs` proves, for every number of threads and every choice of which
read, write, are preempted and are killed (assumptions: `NAssumption` and the
subset assumptions of `RwMutex`):

* `TypeCorrect`: `Spec => []TypeOK`
* `LockExcludes`: `Spec => []Exclusion`
* `DeadHoldNothing`: `Spec => []NoDeadHolder`
* `OnlyHoldersLetGo`: `Spec => [][HoldsMove]_vars`
* `EnrolledAreWoken`: `Spec => []RescueInv`
* `TwoLoseNoWake`, of two threads in a table of any size (`TwoThreads`), of which one
  that is preempted is not also killed (`WakersFinish`): `Spec => []NoLostWake`

The argument is one inductive invariant, `IInv`. `Exclusion` alone is not
inductive: a step by a thread that is torn down and yet at a release would clear
the bit of somebody else's hold. `IInv` therefore adds what teardown guarantees
(`TornInv`): a torn task is either a zombie on no CPU or runs the rest of its own
teardown, so it never reaches the lock's code again; and what the killer has in
hand is torn (`VictimInv`). The type part is split in two (`PcTyped`,
`DataTyped`) so that a step that only moves a program counter is one lemma
(`Move`, `MoveOn`, `StartOver`) and not one per action. Each conjunct has a lemma
with one step per action, and `IInvStep` joins them.

`HoldsMove` says of a step what `Exclusion` says of states: it ends a hold only for
its holder, who gives it back or is torn down, and grants one only to a live task,
a reader's only while no writer holds or waits. `drop` stores "no writer" without
looking whose the lock is, and `dropPid` clears bits on another's behalf; that
neither takes a hold from a third party is what `Exclusion` and `TornInv` are for.

The claim above `blockOnLockSeq` that "either we see the new seq or the releaser sees
us asleep" (`sched.zig:3314`) has one part that holds of any number of threads and one
that does not. `RescueInv` is the first: a task past its recheck that is `.sleeping`
and still enrolled, and whose `seq` has moved, has a scan, a `wake()` or a teardown on
its way that will get to it. It needs `WaitInv` (a scan begins at the first slot;
whoever waits is in the mask that `drop` looks at) and no hypothesis: a waker that is
killed in the middle of its scan is no loss, because its own `dropPid` scans from the
start. The second part is about a sleeper whose wait fields a waker has already
cleared, at which no later scan will stop. Among three threads it can be forgotten,
which is the finding of `rwmutex_lostwake`, and among two if the waker dies between
its clear and its compare-and-swap. `TwoLoseNoWake` says that these are the only ways.
`RoleInv` tells who is where: only users are in the lock's code, a victim is off its
CPU, a waker leaves its CPU in a scan only by preemption. `ScanInv` says that while
anybody else scans or wakes, a task's `seq` has moved, so that its recheck sees it;
hence no wake that began before an enrolment is still under way after it. `HandInv`
says that from its enrolment on a task whose `seq` has not moved has its wait fields
set, and past the recheck either has them, or is awake, or has a living waker whose
compare-and-swap is still to come. All of it was checked by TLC, `RescueInv` with three
users and killed wakers, before it was proved.

`PipeProofs` proves, for every ring size, number of processes, set of payloads,
retry limit and choice of who reads, writes, opens, is preempted, signalled,
killed or meets page faults (assumptions: `NAssumption`, `SizesAssumption`,
`PidSetsAssumption`):

* `TypeCorrect`: `Spec => []TypeOK`
* `AlwaysValid`: `Spec => []Validate`
* `CountsAreHolders`: `Spec => []EndsCounted`

Its invariant `IInv` states the ring without a remainder (`RingInv`: head is
tail plus count, less `Size` if that is past the end), since `%` of two unknowns
is beyond the solver; `ModSum` and `OffsetMoves` are the only lemmas that meet
it. A pipe in use holding bytes has an end open only because the counts are
those of the descriptors, so `Validate` needs `EndsInv`; that a copy stays
inside the ring needs what a call still wants to be bounded (`CallInv`).
Lemmas named `...Moves` first say which actions touch the ring, the ends, the
calls, so that each part of the invariant is proved for those only.

`PipeStreamProofs` proves `ImplementsByteStream`: `Spec => IsByteStream`, the
refinement that `pipe_stream` checks for a ring of three bytes. It has three
parts. `PlacesInv` (theorem `PlacesHold`) says that a process in the middle of a
call holds its end, has something left to move and has not ended, and that what
is torn never goes on with a call; without it, a teardown could close an end
under a copy, and bytes could be read from a free slot. The content lemmas say what
`Pop`, `Push` and `Wrapped` do to the bytes in order, around the end of the ring
and short of it (`PopContent`, `PushContent`, `WrappedContent`). The lemmas named
`...Maps` then take each action to one of `ByteStream`, or to none. TLC found
`PlacesInv` to hold, as an invariant, on the instance of `pipe_wake` and on one
with two openers and both processes killable before it was proved.

Its last part proves that nobody is forgotten:

* `SleepersAttended`: `Spec => []Attended`, for any number of readers and writers
* `NobodySleepsOn`, if one process reads and one writes (`OneEach`):
  `Spec => []NoLostWake`

`Attended` says that a parked caller has a `wake()` on its way if it has a signal to
take, whoever it shares the pipe with, and if it could go on and has its side to
itself (`Alone`). Several writers thus do a lone reader no harm, nor several readers
a lone writer; only a second process parked on the same side displaces the first from
the one wait slot. `NoLostWake` is `Attended` where nobody shares a side, which is
what the source says of every workload (`pipe.zig:213`); without that it is false.
`WakeInv` follows the caller to where it is off its CPU: from the moment
it is in its slot, it is registered and has nothing to go on with (`Waits`), or
`Woken` holds. Which store of a `wake()` still counts depends on how far the
sleeper has come. Before its recheck only the first does, through `wake_pending`:
a clear or a compare-and-swap that arrives then is undone by the enrolment that
follows. At the yield and after it, the clear and the swap that are still to come
count, and the swap only if the wait fields are clear, for the pick passes over an
enrolled task. One lemma per section shows that who it takes out of a slot is
woken, and one per step of the handshake that no step outruns a `wake()`. TLC found
`WakeInv` to hold on the instance of `pipe_wake` and on one of three processes, the
third of which opens the pipe, before it was proved.

`ShootdownProofs` proves, for every number of processors, tags, pages and moves of
a generation (assumption: `ShootdownAssumption`):

* `TypeCorrect`: `Spec => []TypeOK`
* `AlwaysPaired`: `Spec => []AcksPaired`
* `AlwaysCounted`: `Spec => []Counted`
* `NoDeafTarget`: `Spec => []AwaitedCanAnswer`
* `StaleNeverUsed`: `Spec => [](scene # "threads" => StaleUnusable)`

The first four follow from `LoadInv` (in which order `loadCr3` stores the mask,
`loaded` and CR3) and `HoldInv` (one processor in the section, and what the
acknowledgements are to it). The last needs to say where a stale entry may still
be and what will end it. `RunSafe` is about the processors that run the tag: a
flush of the page has its bump still to come (`PreBump`), or has the processor in
sight (`Sighted`: in the set it scans, or among those it waits for), or the
processor's own CR3 write will drop the tag (`WillDrop`). `ReloadSafe` is about the
others: a flush has its bump to come, or the processor's generation is behind, so
that it drops the entry when it loads the tag. `Announce` turns the second into the
first (`LoadedStep`), and `markFlushed` is the step that could break the second
(`StaleTagKept`): it claims its own bump and every earlier one, which is right
because a flush that bumped earlier has already passed this processor, and wrong in
scene "threads", which is the finding of `shoot_lazy`. Every part of the invariant
was first checked by TLC on two processors and two pages.

`SchedProofs` proves, for every number of CPUs and slots and every choice of who is
moved, pinned and killed (assumptions: `SetsAssumption`, `DistinctAssumption`):

* `TypeCorrect`: `Spec => []TypeOK`
* `NeverLost`: `Spec => []NoTaskLost`
* `QueuesAgree`, if no affinity is set: `Spec => []QueuedWhereAssigned`
* `StacksApart`, `DeadStayOff`, `SlotsKeptWhole`, if no CPU is overtaken between its
  pick and its claim and the killer is not paused for the life of a slot
  (`Unstalled`): `Spec => []OneStack`, `[]DeadNeverRuns`, `[]NoReuseUnderfoot`

and each of the last four of `MCSpec`, whose scene "move" is what the run checks.
`NeverLost` needs no proviso and hardly an invariant: it is a matter of the locks.
`OneStack` needs to know whose stack a task's `on_cpu` and `last_cpu` speak of
(`OwnerInv`): a CPU on a stack is the one published for it, from before it has
arrived until after it has left, and a claim not yet published is one CPU's. That
invariant rests on where `schedule()` is in the switch (`SwitchInv`; a task claimed
again by the CPU it is on is not cleared under its own feet) and on the killer's
polls (`KillInv`; once it has seen its victim off every CPU, the victim stays off
because the pick passes over whoever is asked to exit).

`SwapProofs` proves, for every group of threads, every set of pages, frames and
slots, and every bound on kills and generations (assumptions: `SwapAssumption`,
and `DistinctAssumption`, by which no frame is a slot):

* `TypeCorrect`: `Spec => []TypeOK`
* `ContentIsKept`: `Spec => []ContentKept`
* `CachedIsRight`: `Spec => []CachedRight`
* `OwnerIsSole`: `Spec => []SoleOwner`
* `FaulterIsAttended`: `Spec => []FaulterAttended`
* `LeakIsBounded`: `Spec => []LeakBounded`

None of the first five is inductive, and they need each other. Effect lemmas say first what
any step of a thread may do: it moves no other thread (`OthersKept`), it gets to a
place of the code by one action only (`Arrivals`, `Departures`), an entry changes
by a compare-and-swap of the kind named (`EntryMoves`), a translation by an access
or a flush (`TranslationMoves`), a frame or a slot only if the thread has it in hand
(`FramesKept`, `SlotsKept`). The invariant `Inv` has a part for each thing that
interleavings could break, and each part is kept because of those facts and of other
parts:

* `Shape`: which locals count at each step, and what the channels hold there.
* `OwnInv`: what entries, channels and stacks name is allocated, and named once. It
  is `SoleOwner` in the form of four functions that no two arguments share.
* `GenInv`, `SlotFresh`: the entry of a swapped page has its slot's generation; while
  the generation a swap-in has read is still the slot's, the slot was not freed, so
  the copy it made is good (`ReadCopies`). This is what makes the compare of
  `SwapInWins` enough though the slot number could have come round.
* `EvictInv`, `DirtyNamed`, `DirtySeen`: a claimed entry is its evictor's until
  settled, nobody has it cached once it is flushed, and a write through a cached
  translation either precedes the copy to disk or is to a frame the entry still names.
* `CleanPage`, `CleanSeen`: a clean entry of a sourced page was never written to, which
  is what lets `discardFrame` drop it.
* `InflightClaimed`, `SleeperOwed`: an entry in flight has an evictor, a sleeper one
  that will wake it, or a kill took them.

`LeakIsBounded` comes on top of it. The lemma that keeps `OwnInv` also says of every
step that whatever is in use afterwards is named, or was unnamed before, or was on
the stack of the thread just killed (`NamesKept`); no thread ever has both a frame
and a slot on its stack alone, so a kill adds one to what is unnamed at most
(`LeakInv`).

`LifecycleProofs` proves, for every number of slots, of processes created and of
outside kills, and whether or not others act between waitpid's scan and its wait
(assumptions: `NAssumption`, `DistinctAssumption`), as long as the other three
windows [below](#windows-the-passing-runs-leave-closed) are closed
(`Unbroken`: `MidKill`, `SlowWorker` and `KillersQuit` off):

* `TypeCorrect`: `Spec => []TypeOK`
* `SpaceIsKept`: `Spec => []GroupKeepsSpace`
* `LeadIsPinned`: `Spec => []LeadPinned`
* `LastIsOne`: `Spec => []OneLast`
* `NothingLeaks`: `Spec => []NoLeak`
* `NobodyStraggles`: `Spec => []NoStraggler`
* `VictimIsAttended`: `Spec => []VictimAttended`
* `ParentIsHeard`, with `ScanGap` off as well: `Spec => []ParentHears`, and
  `MCSpec => []ParentHearsUnbroken`, which the run checks

The proviso is needed: for each of the three switches TLC has a behaviour that breaks
one of these. The first seven follow from one invariant, `LifeInv`. That a group's
address space outlives its members needs that the member which counts itself last
is (`LastAlone`: nobody else is unmarked or about to be marked), and that it is still
led (`TornLed`); both are broken by a thread that joins late unless a new thread has one
creator, who is live and unmarked while he creates it (`Cloning`, `OneCloner`), and by a
second teardown of the same victim unless a victim has one owner (`OneOwner`,
`Killing`). `Housed` is the other direction: every address space not freed has a lead
with an heir, that is, with somebody whose marking is to come, so nothing leaks.
`Passed` says where an exit_group's pass over the table stands: a member that is
neither claimed nor marked is still ahead of it, or is a thread whose creator has
yet to look at `group_exiting`. Each action has one lemma, with one step per part of
the invariant, and `Invariance` joins them. `ParentIsHeard` adds to it who will wake
the parent (`Told`): while the parent waits, each zombie child of it is still in the
teardown that ends with the wake, or was found pinned by the last member's, or its
group has a member that will be the last (`Remains`, kept by `Outlived`: a group whose
lead is gone first never runs out of such a member before its last). The parent
begins to wait only when no child can be reaped, and then every zombie among them has
members left. TLC checked every part on the two scenes of `life` before it was proved.

`PmemLogProofs` proves, for every size of the region and every number of boots
(assumption: `PmemAssumption`):

* `TypeCorrect`: `Spec => []TypeOK`
* `TailIsWhereScanEnds`: `Spec => []TailIsFree`
* `ImplementsDurableLog`: `Spec => IsDurableLog`, the refinement that `pmemlog` checks
  for 32 words

`Scan` is a recursive function, and the library's induction theorems are out of
reach because they take an operator. `SetInduction` states the same for a set of
naturals, and follows from the theorem that `<` is well founded; with it,
`ScanExists` shows that there is a function which does what the loop of `recover`
does, and `ScanFinds` what it returns for a region that holds `n` records, whatever
lies beyond them (`Holds`: each of the first `n` is whole, and no word is a mark of
a later one). `PmemInv` then says what the two copies of the region hold at each
step: the same records before a boot's writes (`UpInv`), a body that is durable
before its mark is stored (`WriteInv`), a log under construction that holds none
(`FreshInv`), and after any loss of power a log that is the one before it with the
record under way or without it (`DownInv`, lemma `CrashLeaves`). TLC checked
`PmemInv` on the instance of `pmemlog` before it was proved.

Only model-checked:

* `NoLostWake` of `RwMutex` of more than two threads has no theorem because it is
  false: the finding of `rwmutex_lostwake` has two scans overlap, with no kill and no
  preemption. What holds of any number is `EnrolledAreWoken`.
* The liveness properties `NeverStranded`, `WriterNotStarved` and `HangUpEnds`, which
  need fairness and ENABLED.

## Windows the passing runs leave closed

Some interleavings need one CPU to stand still for the time of a whole teardown
or of several dispatches. Each is a switch, a CONSTANT of its module, off in the
passing runs; setting it and checking the invariant named shows what depends on
that timing. None is excluded by a lock.

| Switch and instance | Invariant | What TLC finds |
|---|---|---|
| `Sched`, `Stallable = {c0}`, one movable task | `OneStack` | the claim at `sched.zig:1986` reads neither `on_cpu` nor `last_cpu`: a candidate that was stolen, ran elsewhere and was demoted with its save still to come is claimed, two CPUs on one stack. The comment at 1938-1940 counts on the gate at the pick |
| `Sched`, `Stallable = {c0}`, one killable task | `DeadNeverRuns` | the claim does not look at `exit_requested` again: a CPU that had picked the victim claims it after the killer has found it off every CPU (`lifecycle.zig:1443`) |
| `Sched`, `KillerStalls = TRUE` | `KillerOwns` | a killer paused between two polls while its victim dies and its slot is reused dooms the new occupant: the poll looks at the slot number only (`lifecycle.zig:1377`) |
| `Sched`, `Pinnable = {p1}`, nothing movable | `QueuedWhereAssigned` | `setAffinity` stores `assigned_cpu` of a task it saw not `.ready` (`sched.zig:445`), after a waker has queued it on its old CPU; `sched.zig:1582` says "a pid is in rq[pid.assigned_cpu] only". It stays runnable: `NoTaskLost` holds with affinity calls on |
| `RwMutex`, 2 threads, one preempted and killed | `NoLostWake` | a releaser killed inside `wake()`, between the clear and the store of `.ready`, leaves its target asleep with no wait fields, which `dropPid`'s walk passes over (`spinlock.zig:1251`) |
| `RwMutex`, 3 threads, fair | `NeverStranded` | the finding of `rwmutex_lostwake`, and the same with the target `.ready`: `pickMinVruntime` skips a task whose wait fields are set, the scan one that is not asleep |
| `Lifecycle`, `ScanGap`, 1 slot | `WaiterHasChild` | the sweep reaps the only child between waitpid's check and its wait (`cpu/syscall/proc.zig:673`) |
| `Lifecycle`, `MidKill`, 2 processes and a kill | `GroupKeepsSpace`, `OneLast` | a victim is `.zombie` before its killer's teardown has claimed: it may be reaped and its slot reused under that teardown (`lifecycle.zig:1448`), and a worker that exits in between and the killer both count themselves last (`lifecycle.zig:979`) |
| `Lifecycle`, `SlowWorker` | `ParentHears`, `LeadPinned` | a lead that claims last while a marked worker is still `.running` wakes its parent too early, or, without a parent, frees its slot under that worker (`lifecycle.zig:1243`, 1257; the comments at 1721-1724 and 1744-1745 promise otherwise) |
| `Lifecycle`, `KillersQuit` | `VictimAttended`, `NoStraggler` | a thread evicted in the middle of its exit_group pass leaves its claimed victim undispatchable and not torn down (`lifecycle.zig:1352`) |
| `Pipe`, two readers and the desktop, fair | `HangUpEnds` | a second parked reader displaces the first from the one wait slot; the last close wakes only the second, though the comment at `pipe.zig:211` says the first sleeps "until a signal or writer-close" |
| `Pipe`, `Signalable = {1}` | `ZeroIsEof` | a read interrupted before it has bytes returns 0, which `pipe.zig:122` reserves for end of file |
| `Swap`, any | `NoLeak` | between `allocSlot` and the store in `swap_inflight_slot`, and in the windows that the comment above `evictFrame` calls "zero names", a kill leaks a slot; `LeakBounded` says that it is one at most |
| `Swap`, any | `Returns` | an evictor that is killed after its commit owes a wake that nobody pays: a faulter that saw the entry in flight sleeps on, until its own recheck on another wake (`sched.zig:3379`) |
| `Shootdown`, two user tags | `Counted` without its exception | a switch from one user address space to another stores `loaded` before CR3: for these instructions the processor runs the old tag and says the new one. A flush of the old tag passes over it, and its entries are dropped by the CR3 write that follows, with interrupts off |

`life`'s scene "group" runs with `ScanGap` on. With `ScanGap`, `SlowWorker` and `KillersQuit` all on, `GroupKeepsSpace` and
`OneLast` still hold on two slots: only `MidKill` endangers memory.

## Findings

Four divergences from what a comment promises are runs of their own.

* `rwmutex_lostwake`. `wake()` latches `wake_pending`, clears the wait fields,
  then makes its target `.ready`. The target may consume the latch, fail to get
  the lock and enrol again before the clear lands: it sleeps with no wait fields,
  and the scan of every later release passes over it.
* `life_lostwait`. A child that dies between waitpid's scan and its enrolment
  finds `wait_kind` unset and wakes nobody; SIGCHLD is ignored by default and
  returns before its wake. The parent sleeps on a reapable child, which the
  sweep leaves alone because its parent waits.
* `swap_lossless`. `swapInFrame` installs a page without DIRTY, and the sweep
  tells by that bit alone whether a page of a file-backed region may be dropped
  and loaded again from the file. A page that was written, evicted to swap and
  swapped in again is dropped, and the write is gone.
* `shoot_lazy`. `markFlushed` records the number of its own bump as flushed, and
  with it absorbs an earlier bump by a flush of another page that is still under
  way. If the processor leaves for the kernel's tables before that flush looks at
  `loaded`, nobody interrupts it, and when it loads the tag again its generation
  agrees: the stale entry stays.

A smaller divergence: the comment in `reparentChildren` (`lifecycle.zig:1573`)
has orphans reaped "on the next exit"; they stay zombies until the sweep.

## What is not modelled

PROJECT.json lists every component with its reason. In short: sequential code
under one lock (allocators, page tables, file systems), programming of devices
(drivers, time sources, interrupt controllers), pure data transformations
(crypto, graphics, eBPF), observers (diagnostics, tests). About half of the
repository's lines are C: two games, vendored libraries and test programs for the
Linux personality. They run on the kernel and are not it, and no module is about
them; the kernel's own language is Zig.

Within the modelled components are left out:

* `Sched`, `Lifecycle`: vruntime arithmetic and latency accounting, the periodic
  balancer's choice, job control in the scheduler and in waitpid, exit codes, what
  a task owns beyond its address space.
* `Pipe`: the wake of pollers and of the desktop's sleep, and tables of
  descriptors shared by threads: a close by a sibling in the middle of fork's copy
  (`lifecycle.zig:492`) is therefore not seen.
* `Swap`: the accessed bit, shared and copy-on-write frames, munmap and the other
  operations that hold the write side of `as_lock`, and a transfer that goes on
  after its thread was killed. The page cache is a component of its own
  (`page_cache.zig:511`, a dirty page written while it is written back).
* `Shootdown`: machines without PCIDs or INVPCID, the kernel's own tag and the
  hypercall of Hyper-V.
* `PmemLog`: discovery of the device and `Persistent(T)`. A fresh region is
  zeroed, and the checksum is taken at its weakest, as telling sequence numbers
  apart and nothing else.
* Everywhere: memory orders weaker than x86's. Every action is one access in one
  total order, with the store-buffer cases the code closes by locked instructions
  taken as closed.

Races known to be worth a model and not yet in one: a softirq raised while its
worker parks (`softirq.zig:93`), a readiness registration on a reused slot
(`fdpoll.zig:218`), the cached next deadline (`sched.zig:2524`), the owner of a
Mutex against its forced release (`spinlock.zig:1024`), and the sleep of a
teardown that waits for its group (`lifecycle.zig:899`).

## Plan

In order; what is done is marked.

1. *Done.* `Wait` and `RwMutex`: the handshake on which everything blocks, and
   the lock on which page faults depend. Invariants and wake-ups proved.
2. *Done.* `Sched`: CPUs against tasks, wakers, the balancer and killers. Proved.
3. *Done.* `Lifecycle`: groups, teardown, waitpid. Proved.
4. *Done.* `Pipe` as an implementation of `ByteStream`. Refinement proved.
5. *Done.* `Swap`: faulters parked on an eviction, frames and slots in flight at a
   death. Proved.
6. *Done.* `Shootdown`: acknowledgements and address-space tags against switches
   of address space. Proved.
7. *Done.* `PmemLog`: an append-only log under power cuts, implementing a sequence
   of committed records. Refinement proved.
8. `Mutex` and `Futex` on `Wait`, with forced release, deadlines and signals; an
   abstract specification of a sleeping lock that `Mutex` and the write side of
   `RwMutex` both implement.
9. `JobControl`: the stop and continue handshake, SIGKILL into a stop, stopped
   children in waitpid.
10. `PageCache`: dirty pages written back while they are written.
11. `Deadlines` and `Softirq`: the cached next deadline, workers that park;
    `FdPoll`: registrations and the reuse of instance slots.
12. Two readers on one pipe, and descriptor tables shared by threads.

Runs to come follow the same pattern: two or three actors, one property per
question, a fair instance of two actors for liveness. Theorems worth proving
next: the invariants of the modules to come.
