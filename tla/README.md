# zc-ring-x1: TLA+ models, checks and proofs

zc-ring-x1 is a Rust crate of zero-copy message channels in shared memory. Messages live in
cache-line-aligned slots of a region that several threads or processes map; the endpoints reserve a
slot, read or write the message in place, and hand the slot over with one atomic store. This
directory models the protocols that make that safe, checks them with TLC and proves the central ones
with TLAPS.

Paths below are relative to the repository; the crate's code is in `src/`.

## The system

| Component | State | Operations | What must hold |
|---|---|---|---|
| SPSC v0 (`spsc/v0`) | two free-running indices | reserve, commit, release, abandon | bounded FIFO, exclusive guards |
| SPSC v1 (`spsc/v1`) | a seq word per slot, one private index per side | the same | the same, down to capacity 1, across the u32 wrap |
| SPSC v2 (`spsc/v2`) | v1 with the seq word inside the slot | the same | the same |
| SPSC v3 (`spsc/v3`) | up to 32 segments of slots, a take word, a give-back word | the same, plus a switch of segment inside commit and release | FIFO over all segments, no segment reused before it is drained |
| SPSC v4 (`spsc/v4`) | v3 plus role words, checkpoints and intent words in the region | claim, release, take over after a crash | a successor resumes where the dead endpoint was |
| MPSC v0, v1 (`mpsc/v0`, `mpsc/v1`) | seq words, an index claimed by CAS | send_with, reserve, release, tombstone on unwind | exclusive claims, delivery in claim order, a panic wedges nothing |
| MPSC v2 (`mpsc/v2`) | segments, a claim word of segment and position, a seal per segment | send_with with switch | the same across segments |
| MPSC v3, v4 (`mpsc/v3`, `mpsc/v4`) | v2 plus a roles word, a closed bit, waiter counts and wake words | join, leave, close, sleep, wake | no lost wake-up, no free under a holder |
| Pool v0 (`pool/v0`) | a free-stack linked through the free buffers | alloc, use, free, leak | no buffer lost or owned twice |
| Pool v1 (`pool/v1`) | several of v0's stacks by size | alloc with spill | the same per stack |
| Registry (`registry.rs`) | pool views by id | register, to_desc, to_slot | one owner per buffer across a hand-over |
| Wake, policy, clock | none, or a futex word | wait, wake, give up | used by MPSC v3 and v4 |
| Programs (the demo, `zcr-test-ipm`, `tp_matrix`, `tp_runner`) | counters, sentinels, clocks, a file in `/dev/shm` | loops that send and receive, processes that make, join, hand over and release a ring | no assertion fires, every line ends, reports are true, a hand-over loses nothing |

The rings of v3 and later take their segments from a pool; descriptors of pool buffers travel through
rings as messages. The two sides of a ring share only atomic words and the slots' bytes. Everything
that is hard here is concurrent: which of two processes owns the slot at an instant, what a stale load
may still be used for, what a panic or a crash between two stores leaves behind, and what happens when
a counter wraps. `PROJECT.json` lists these as hazards, each at its line.

## Modules

| Module | Models | Role |
|---|---|---|
| `FifoChannel` | | abstract: a bounded FIFO whose consumer looks before it takes |
| `ClaimQueue` | | abstract: places claimed in order, filled in any order, delivered in claim order |
| `SpscGuards` | SPSC v0 and v2 | the carrier of `Descriptors`; implements `FifoChannel` |
| `SpscSeq` | SPSC v1 | implements `FifoChannel` |
| `SpscSegments` | SPSC v3 | implements `FifoChannel` |
| `SpscTakeover` | SPSC v4 | implements `FifoChannel` through deaths and takeovers |
| `MpscSeq` | MPSC v0 and v1 | implements `ClaimQueue` |
| `MpscSegments` | MPSC v2 | implements `ClaimQueue` |
| `MpscSleep` | MPSC v3, mode Multi, over a wake that sleeps | `MpscWake`'s sleeps over `MpscSegments`' switches |
| `MpscWake` | MPSC v4, the sleep and wake of a ring of one segment | |
| `PoolStack` | Pool v0 | |
| `PoolStacks` | Pool v1 | every stack implements `PoolStack` |
| `Descriptors` | the registry, and a program that sends pool messages | composes `SpscGuards` and `PoolStacks` |
| `Regions` | init, attach and split of SPSC v0 to v2, MPSC v0 and v1, Pool v0 and v1 | |
| `SegmentRings` | init, attach, roles and release of SPSC v3 and v4, MPSC v2 to v4 | extends `Regions` |
| `Lifecycle` | | composes the two: a region becomes a pool, rings live in the pool |
| `Streams` | the loops of the demo and of `tp_matrix` | |
| `Ipm` | the commands of `zcr-test-ipm` | |
| `Programs` | | one program of either kind |
| `MCDescriptors`, `MCLifecycle`, `MCPrograms` | | instances too large for a `.cfg` |
| `RingLemmas` | | lemmas on remainders, windows of positions, `Append` and `Tail`, least elements |
| `SpscSeqProofs`, `SpscSegmentsProofs`, `SpscTakeoverProofs`, `MpscSeqProofs`, `MpscWakeProofs`, `PoolStackProofs`, `LifecycleProofs` | | the theorems about the module each is named after |

### How state and actions correspond to the code

One action is one atomic access of the code together with the private computation up to the next one.
A reservation that polls and finds nothing changes no state and is a stuttering step; giving up (the
wait policy returns `false`) is an action (`Full`, `NoMessage`). The message bytes are two halves,
written and read in separate steps, so that a guard that overlaps another shows as a torn message.
The word that names a slot's state is modelled with its value, its wrap and its comparison.

* `SpscSeq`: `ReserveWrite`, `WriteGuard` and `Full` are `Producer::reserve_slot_with`; `FillLo` and
  `FillHi` the application's writes through `DerefMut`; `AbandonWrite` the drop of the guard;
  `CommitIdx` and `CommitSeq` the two stores of `commit`. The consumer mirrors this.
* `SpscSegments`: the same, with `commit` in three steps: load the next slot's word (`CommitLook`), if
  it is not claimable load the give-back word and take a segment or stay (`CommitSwitch`,
  `CommitStay`), publish (`CommitPublish`). `release` is the seq store (`ReleaseSeq`) and, after a
  MOVED message, the give-back (`GiveBack`). Bit masks over segments are sets of segments; a word is a
  record of its seq bits and the segment its MOVED bit names. `chain` and `switchLead` are history.
* `SpscGuards`: one module for two versions, chosen by `version` at the start. `reserve_write0` and its
  like compare the two free-running indices, `reserve_write2` and its like the word in the slot; the
  guards' steps between are shared.
* `MpscSeq`: `version` chooses v0 or v1. v0's signed comparison (`Probe0`, `Stale`) tells an older word
  from a newer one, v1's only equal from unequal (`Probe`). `Send`, `Probe`, `Claim`, `LoseClaim`, `Behind` and `Full` are the loop of `send_with`;
  `LoseClaim` may fail spuriously, as a weak CAS may. `Commit` is the normal return of the fill and
  `Unwind` the drop of `TombstoneOnUnwind`. `SkipIdx` and `SkipSeq` are the consumer's inline skip.
* `SpscTakeover`: `SpscSegments`' commit and release with every checkpoint store a step of its own
  (`StoreProdResume` to `StoreProdCur` are `producer_switch`, `StoreConsResume` to `StoreConsCur`
  `consumer_switch`, the last store is `switch_done`). `ProducerDies` and `ConsumerDies` end a holder at
  any step: its private state (`pst`, `cst`) is gone and its role stays held. `ReclaimProducer` is a
  claim of a released role, `RepairProducer` a takeover that finds an intent and finishes or undoes the
  switch, in three stores, and `ScanProducer` one that finds none and scans the segment's words, one
  load a step. The words a dead side alone wrote are stable, so `load_producer`'s loads of them are one
  step. Taking a role is one step too, its CAS: a loser changes nothing. The message is one value, since
  `SpscSegments` covers torn reads. The stored position is forgotten when the role is claimed, because
  it is read of a released role only, and the resume entry of the segment in use when the switch into it
  is over, because the next switch overwrites it before anything reads it. `chain` and `tailAt` are history.
* `MpscSegments`: `Send` to `Unwind` as in `MpscSeq`, over a claim word of segment and position;
  `FindFree` to `CountSwitch` are `switch`, `LoseSwing` to `Untake` its lost race, `LookSeal` and `Follow`
  the consumer's look at the seal. Words are records, the in-use mask is a set, the message is one
  value. `chain`, `claims` and `switchLead` are history and `sent` bounds a run.
* `MpscWake`: `Send` to `Full` are the loop of `send`; `Commit` and `wake_consumer` its normal end, `Panic`
  an unwinding closure, which in this version leaves the slot unfinished. `CountIn`, `LoadSeen`, `RoomWord`,
  `RoomSeq`, `FutexWait`, `SleepEnds` and `CountOut` are `sleep_full` with `has_room`'s two loads.
  `Look`, `Release`, `ReadPanics` and `EmptyAgain` are `recv_at`; `CheckWaiters`, `Bump` and `WakeAll` are
  `wake_producers`; `EmptySleep`, `Flag`, `ConsumerFutexWait`, `ConsumerSleepEnds` and `Unflag` are
  `sleep_empty`. A wait policy is the choice among the steps enabled after an empty or a full look. `seen`
  is the set of producers whose loaded sequence still has `prod_wake`'s value, which stands for that
  counter as long as no producer sleeps through a multiple of 2^32 wakes. Messages carry no data.
* `MpscSleep`: the claim word has a segment, a position and the WAITING flag. `send` to `Commit` are the
  loop of `send`, `FindFree` to `Untake` `switch`, `CountIn` to `CountOut` `sleep_full` with the three loads
  of `has_room`, `Look` to `Release` the consumer with the give-back, and `Flag` to `Unflag`
  `sleep_empty`. The code is that of MPSC v4 in mode Multi: the two `switch` functions are identical.
* `PoolStacks`: `PoolStack`'s steps for the stack an allocation is at, and the step to the next larger
  one. The miss counters are left out.
* `Descriptors`: a sender thread allocates, writes, makes a descriptor and sends it; a receiver copies it
  out, releases the slot, makes a guard, and frees. Only the descriptor owns the buffer in between.
* `Regions`: `init_*`, `attach_*`, `validate_*` and `region_size_*` are the code's checks and sizes, one
  operator each; `StoreField` makes a Relaxed store of init visible, in any order, and `StoreMagic` the
  Release that comes last. An attacher may ask for another kind, have mapped another length or be built
  with another line size.
* `SegmentRings`: `TakeSegment`, `WriteSegment`, `StorePart` and `StoreSegmentMagic` are init over a pool,
  `GiveBack` its way out when the pool runs dry; `AttachBlock` and `AttachSegments` read the control block
  and then the segments it names. The roles word is a record. `Consume` stands for all a consumer does, and the
  consumer's checkpoint (segment, position, resume table) is the one number `cons_pos`: `ConsumerResumes`
  is about when it is written and found, over handovers. What the resume table holds is the matter of
  `SpscTakeover`, whose endpoints restore it, and of `MpscSegments`, whose consumer keeps it.
* `Streams`: a behaviour is one line of a table, [body, family, segs, depth, producers, pool]. `SoloSends`
  and `SoloReads` are the one-thread lines, `CountedSends` and `CountedReads` the stress lines,
  `MainSends` to `WorkerReads` the round-trip cells, `TimedSends` and `TimedReads` the streams that end by
  sentinels. A ring is what a loop sees of it: which sends find room, given the segments.
* `Ipm`: a process is one command; it may be started at any time and fails at its deadline at any time,
  a reader between two messages, a sender when a segment's worth or more is unread: its segment may be full
  while another is drained and not yet given back. A look that finds no room only because another
  producer's lost switch still holds a segment is left out, since the senders here wait on and try again.
* `PoolStack`: `PopHead`, `PopNext`, `PopCas`, `PopRetry` are the loop of `pop`, `FreeHead`, `FreeLink`,
  `FreeCas`, `FreeRetry` the loop of `free`, each buffer being freed on a thread of its own. `Use`
  overwrites the first word of a held buffer with application data that may look like an index.
  `stack` is history.

Operators introduced as "Fault" are variants of the definition that follows them, each with a
plausible slip in it. The specifications do not use them; `PROJECT.json` pairs each property with
the fault that breaks it.

One assumption is about the world and not the code: `NoWholeWrap`, in the MPSC modules. A claim is
a CAS on an index that wraps, so a producer stopped between its look at the seq word and its CAS, while the
others claim every position there is (2^32, or 2^26 where the claim word has 26 bits of position), would
claim with an out-of-date look. The models exclude that stall.

### Memory model

The models interleave single atomic accesses, as under sequential consistency. The code's hand-over
words are Release stores and Acquire loads and its private indices are Relaxed; a message's bytes are
accessed only between an Acquire that saw the hand-over and the Release that gives the slot away, so
for these words the interleavings are the ones that matter. Reordering of the Relaxed accesses is not
modelled. `MpscProducer` uses SeqCst on the claimed index for exactly the reason its comment gives.

## Runs

| Run | Bounds | Checks |
|---|---|---|
| `spsc_seq` | 2 slots, words of 8 values, 2 messages | seq words agree with both indices; guards exclusive; refines `FifoChannel`; the consumer goes on releasing and an asking producer goes on getting slots |
| `spsc_segments` | 2 segments of 2 slots, words of 4 values, 2 messages | free segments are empty and agreed on; a skipped load is sound; switch counts agree; refines `FifoChannel` |
| `spsc_takeover` | 2 segments of 2 slots, words of 8 values, 3 deaths | every successor resumes exactly and overwrites nothing unread; free sets exact; scans settle; refines `FifoChannel` |
| `mpsc_seq` | v0 and v1, 2 producers, 2 slots, words of 8 values | seq words agree with the claims, each position with one filler; Full was full; refines `ClaimQueue`; claiming is lock-free |
| `mpsc_segments` | 2 producers, 3 segments of 1 slot, words of 4 values, 5 sends | seals follow the claims; segments and switch counts accounted for, free segments ready; refines `ClaimQueue` |
| `mpsc_sleep` | 2 producers, 2 segments of 1 slot, words of 4 values, 3 sends, 1 panic | a sleeping consumer is seen over switches; sleeping producers wake; what is committed is received |
| `mpsc_wake` | 2 producers, 2 slots, words of 4 values, 1 panic | a sleeping consumer is seen, and not beside sleeping producers; sleeping producers wake |
| `mpsc_wake_spin` | 2 producers, 4 slots, a consumer that only spins | expected violation, see Findings |
| `pool_stack` | 3 buffers | stack, links and guards agree; no stale pop; pop returns |
| `descriptors` | 3 buffers in 2 stacks, 2 slots, words of 4 values | one owner per buffer; a buffer comes back as it was sent; each stack refines `PoolStack`; the ring refines `FifoChannel` |
| `lifecycle` | 7 kinds of region, 9 geometries, 6 mapping lengths, 2 line sizes; 5 kinds of ring, 8 asks, 2 buffers, 2 processes | who attaches finds a whole region of its kind inside its mapping; roles keep their ring; no buffer lost or freed twice; a new consumer resumes |
| `programs` | 71 lines of 6 messages or 1 clock check; `zcr-test-ipm`'s commands for three rings | no assertion fires; reports are true; hand-overs exact; everything ends |

Why the bounds suffice. Words of 4 or 8 values let every behaviour go round the range several times,
so all wraps are met; a range must exceed the capacity by two for the three values of a word to differ,
which the code's limit of a quarter of the range ensures. Two slots give a full ring, an empty one
and both guards alive in different slots. One slot, where every message is a switch, is the edge case of
`mpsc_segments`, `mpsc_sleep` and some of `programs`. Two messages tell a torn read from a whole one; in
the MPSC runs one value does, because what could be mixed up there are filled, open and dead places,
which differ. Two producers give every pairwise race of the claim; three segments let the ring leave a
segment and return to it while a producer is stopped; three buffers give two racing frees under a pop, and
in two stacks a spill and a free to either. Three deaths are one role's in a row (a repair of a repair cut
short) or a repair of one beside the death of the other. The scan needs depth 2 and a range of four times
that, which is the code's own limit. Deaths (`MaxDeaths`), sends (`MaxSends`), panics (`MaxPanics`, each of
which ends a v3 or v4 ring for good), the application's allocations (`MaxApp`), reuses of a buffer
(`MaxUses`), reads (`MaxReads`) and clock checks (`MaxChecks`, `MaxTrips`) bound the length of a run.
`mpsc_segments` identifies states that differ in the producers' names, which occur in no property; no run
with a liveness property does. At depth 2 `MpscWake`'s consumer checks for sleepers at every message;
depth 4 is the least at which it passes one by, which is what the expected violation needs. The geometries
of `lifecycle` have one of each reason to refuse (a count of zero, not a power of two, too large, a size
off the line) and the mapping lengths lie around the sizes needed.

Three runs do not check for deadlock, because what they model stops: in `lifecycle` the bounded uses come
to an end, in `mpsc_sleep` the sends do, and in `programs` every program exits, which `Finishes` demands.

`ScansSettle` says a scan beside a live peer fails at most M times, and is proved for every depth. The code
gives up after 1024 scans, so for segments of 1024 slots and more this does not exclude a refusal: it would
take a thousand scans with one commit in each.

Fairness. Safety is checked without any. `FairSpec` of the rings says that a thread inside a call goes
on, that the consumer polls again after `Empty`, and that the application does not drop its read guard
for ever (strong fairness of reading and releasing, since a drop disables them). The producer is never
obliged to send, to finish a fill it may abandon, or to retry after `Full`; in `MpscSeq` a weak CAS
that would infinitely often succeed does succeed. `PoolStack` asks only that a called `pop` runs on; the
freeing threads may stop anywhere. `MpscWake` and `MpscSleep` ask the same of calls in progress,
that a producer does not lose its claim to others for ever, and that a consumer whose receives sleep
(`recv_spin_sleep` with a finite spin and a sleep, or `reserve_slot_wait`) does sleep when it goes on
finding the ring empty; no producer has to send, and no sleep has to end by a timeout. `Programs` asks that
every thread and process that has not ended goes on, which is the scheduler's part, and that a process's
deadline comes.

MPSC v2 has no liveness run of its own: its loop and its switch are those of MPSC v3 without the sleep, and
`mpsc_sleep` shows that what is committed there is received.

## Proofs

Every theorem is about the specification TLC runs, unchanged, and holds for every value of the
constants that meets the module's named assumptions: a depth M of at least one slot, a number W of
words that M divides and that exceeds M by two (which the code's limits ensure, both being powers of
two), any number of segments, any set of messages that does not contain the value for "none", and any
set of producers, which `MpscWake` alone requires to be finite because its waiting word counts them.
`SegmentRings` asks for a finite pool whose buffers are numbered from 0, as the code's are, a finite set of
processes, because the roles word counts them, and a `max_producers` of at least one (`LifeAssumption`);
nothing is assumed of the geometries asked for, good or bad, nor of line sizes and lengths.
`SpscTakeover` asks for at least 4 M words, as `MAX_SEG_CAPACITY` gives, because a scan takes differences of
positions as signed, and for a clear intent word that differs from every set one (`IntentAssumption`), which
the code's flag makes sure of; the number of deaths is any.
The two MPSC modules also have `NoWholeWrap`, a guard of the model and not of the proofs.

| Module | Theorems |
|---|---|
| `SpscSeqProofs` | `TypeCorrect`; `SeqWordsAgree` (`SeqAgrees`); `GuardsExclusive` (`SlotExclusive`); `ReadsIntact`; `RingIsFifo` (`ImplementsFifo`) |
| `SpscSegmentsProofs` | `FreeSegments` (`FreeSegmentIsEmpty`); `SkippedLoads` (`SkippedLoadIsClaimable`); `SwitchCounts` (`SwitchesAgree`); `RingIsFifo` (`ImplementsFifo`) |
| `SpscTakeoverProofs` | `Invariant` (all of `IInv`); `ResumesExactly` (`ResumeExact`); `SegmentsStayExact` (`SegmentsExact`); `RingIsFifo` (`ImplementsFifo`); `TakeoversSettle` (`ScansSettle`) |
| `MpscSeqProofs` | `SeqWordsAgree` (`SeqAgrees`); `FullIsFull` (`FullWasFull`); `RingIsClaimQueue` (`ImplementsClaimQueue`) |
| `MpscWakeProofs` | `SleeperSeen` (`SleeperIsSeen`) |
| `PoolStackProofs` | `FreeBuffersOnStack` (`StackIsFree`); `LinksIntact` (`LinksSpellStack`); `NoAba` (`PopNotStale`); `NoSharedGuard`; `ExhaustedOnlyEmpty` |
| `LifecycleProofs` | `RingLifeInvariant` (all of `IInv`); `NoBufferLost` (`BuffersConserved`); `RolesKeepRing` (`RoleKeepsRing`); `ConsumerHandover` (`ConsumerResumes`); `MagicIsLast` (`AttachedAgrees`, the first half of `AttachedIsWhole`) |

In brackets is the property of the run. Each of these modules defines its inductive invariant, `IInv`,
as a conjunction of named parts, proves that `Init` implies it and that every action keeps it, and
derives the theorems.

Rings in general. A property such as `SeqAgrees` is not inductive alone, because whether a store keeps
it depends on where the storing side stands. What is added is the side's private state: a guard is over
the position its side's protocol is at, and under it the word does not change. The core of every step is
that a side which sees its value in the word learns the other's position: the values of a slot's word in
neighbouring laps differ modulo W. `RingLemmas` derives that from the division theorem. The proofs look at
a ring, or at one segment of it, as a window of M positions from the consumer's on; a commit or a claim
lengthens the used part of the window (`DistanceUp`), a release moves the window by one (`DistanceDown`,
`WindowNext`), and two positions of one window share no slot (`WindowInjective`). Nothing else of the
arithmetic is used by the proofs about actions.

`SpscSeqProofs`. `IInv` is `SeqAgrees` with `GuardsAgree` (what a guard knows) and `BytesIntact` (what the
bytes of committed, half-filled and half-read slots are). `RingIsFifo` shows that `CommitSeq` is `Send`,
`ReleaseSeq` is `Take`, `ReadHi` is `Peek`, and every other step is invisible or a `PutBack`.

`SpscSegmentsProofs`. Each side has a position in every segment, its own or the one it will resume at
(`PPos`, `CPos`); `WindowAgrees` says of every segment what lies between the two, with the one slot a commit
has chosen and not yet stored taken out (`Unstored`). `ChainLinked` says that the committed places form a
list in which each word tells where the next place is, from the consumer's place to the producer's;
`ChainUnread`, that they are different, unread, and that a MOVED word names a segment in use which the
consumer has not reached. A free segment has the same position on both sides, so taking it moves no
window. Giving back a segment could only go wrong if some other word also named the segment the consumer
enters; that word would lead back to the head of the chain, and no place is on it twice (`NamedOnce`).
`LeadAgrees` counts the segments in use, which is what the switch counts differ by. The capacity of the
channel, M times the number of segments, follows because the places have slots of their own (`RoomLeft`).

`SpscTakeoverProofs`. The ring itself, its words and the places of both sides, is moved by two steps only,
the store of a commit and the store of a release, whatever has died in between; `Core` is what is true of it,
and is built like `SpscSegments`' invariant. All other steps are of one side's checkpoint and of its
holder, and `ProdInv` and `ConsInv` say of every combination of the two that a successor could reconstruct
where the ring stands: which checkpoint words are stored at each point of a switch (`ProdStores`,
`ConsStores`), and what a set intent word means (`ProdIntent`, `ConsIntent`). The switch that an intent tells of
counts as made from the commit or the release on, whatever the masks in the region say by then (`Taken`,
`GivenBack`), and the segment it goes to, or comes from, looks used to the other side until then
(`SeenAgrees`); so undoing a switch whose slot is not yet stored and finishing one whose slot is both lead to
the side's place, also when a repair dies in its turn. A scan loads words while the peer stores them.
`ProdScanEnd` says that a producer's scan ends at its place whatever the consumer releases meanwhile, since a
release changes a value to another one of the same position; `ConsScanEnd`, that a consumer's does when the
values form one window at all: a commit it missed, where it saw a later one, leaves a hole in it. `TakeoversSettle` adds
`Settling`: every failed scan is paid for by a move of the peer in the scanned segment, of which there are at
most M, and a scan beside a peer that does not move loads the words as they are, which form a window
(`WordsFormWindow`).

`MpscSeqProofs`. `WindowAgrees` gives every claimed position a resolved word or exactly one producer at its
fill; `ClaimFresh` is what the compare-and-swap relies on: if the index has not moved since the word was
found claimable, the word has not changed either. Both versions are covered, v0 with its signed comparison.
`RingIsClaimQueue` shows that `Claim`, `Commit`, `Unwind` and the consumer's steps are the queue's.

`MpscWakeProofs`. The ring's part (`RingInv`) is that of `MpscSeq` without data. `Flagged` says that the flag
stays while the consumer sleeps; `ClaimSawFlag`, that the producer which claimed the sleeping consumer's
position saw the flag; `NoSleepers`, that from its check for sleepers on, and until something is claimed, the
consumer knows of every producer that it neither sleeps nor will sleep on what it has read so far. The
last is the delicate one: a producer between its two loads of `has_room` may still sleep on an empty ring if
the position it loaded is an old one, but then its loaded sequence is old too, and its futex call returns.

`PoolStackProofs`. The invariant adds to the properties what a free relies on between its link store and its
CAS (`FreeNotStale`). The single-popper argument of `pop`'s comment is `PopNotStale`: only the popper can take
a buffer off the stack, so the buffer it loaded is still on it and its link has not changed. `NoSharedGuard`
and `ExhaustedOnlyEmpty` follow from the first three and have no run. `EachStackIsPool` of `PoolStacks` says
that each stack of a v1 pool takes `PoolStack`'s steps, so what is proved of `PoolStack` is, on the checked
instance, true of each of them.

`LifecycleProofs`. The buffers are conserved because every one is in one place (`OnePlace`), which needs that
only one of the three sequences that own buffers is in use at a time (`OneRing`). That roles keep their ring
is about stale knowledge: a process may have looked at a ring's first segment before it was released, and
the buffer may since be free, be the application's or be another ring's. `HandleOK` says what its handle is
worth: if the buffer was not handed out again, it is the first of the ring that is alive, or it is marked
CLOSED and will stay so until it is handed out; and an attach that got past the magic of the first segment
while init goes on gets the whole ring or is refused. That rests on the order of init's stores (`Magics`: the
first n segments have their magic and all that precedes it, the next has the parts that are visible so far).
`RolesCounted`, `OneConsumer` and `RoleHasRing` tie the roles word to the holders, so the CAS of
`release_ring` that finds no role held closes a ring nobody uses; `Checkpoint` is the position while it has
no holder. The first phase has an invariant of its own, `RInv`: no attacher is past the magic before init
is done, and then no store is outstanding. It gives `AttachedAgrees`; that slots and buffers lie within the
mapping uses a fold over the stacks, and that the handle's geometry is the very sequence sorted by init uses
`SortSeq`, so the rest of `AttachedIsWhole` stays with TLC.

The inductive invariants were checked with TLC on small instances before they were proved.

Only model-checked: all liveness, and `ENABLED`, which are outside the prover's reach; of `MpscSegments`,
`SealsFollowClaims` and `SegmentsAccounted`, because they follow the seals with a recursive function over the
number of segments, about which nothing can be proved for every number without induction over an operator,
and for now its refinement; `TakenBackIntact` and `OneOwner`, whose descriptor indices are a fold over the
stacks, and the bounds in `AttachedIsWhole`, for the same reason; and `MpscSleep` and `Programs`.

## Findings

`mpsc_wake_spin`. A producer that found the ring full counts itself in and looks again before it sleeps.
That look, `has_room`, loads the claim word and then the seq word it names; if another producer claims and
commits in between, the seq word does not match and the producer sleeps on a ring that has room. A consumer
that receives the one message off a half-segment mark and then only spins never checks for sleepers,
although "A producer sleeps only on a full ring, [...] so the checks miss no sleeper". The sleep ends at its
timeout. `mpsc_wake` shows that a consumer that sleeps on the empty ring wakes the producer first. Loading
the claim word again after the seq word, as `send` does before it reports Full, would close the gap.

Three more disagreements between a comment and the code were met while modelling and have no run:

* `notes/ring-buffer-design.md` says of segments that "A switch happens only at a full segment". MPSC v2's
  switch compares the claim word with the one loaded when the segment was found full. A segment resumes at
  the position it was left at, so the ring can leave it, have it drained and enter it again with the very
  same claim word while the producer is stopped; the CAS then succeeds and the ring leaves a segment that
  carried nothing. It takes three segments. `mpsc_segments` has these steps and shows that delivery and
  the accounting of segments are not affected.
* `src/spsc/v4/producer.rs` says that "a producer whose role was taken over releases nothing". `release`
  stores the position before the CAS that tells whether the role is still its own, so a holder that was
  replaced though alive would overwrite its successor's position. Takeovers of live holders are the
  caller's error, and `SpscTakeover` has none.
* `src/mpsc/v0/mod.rs` says that "A producer's wrapping-signed diff reads a tombstoned previous lap as
  negative ("full")". For a capacity of at least 2, which v0 requires, the difference is 2^31 + 1 - M and
  so positive: the producer takes its position for stale and reloads it, without asking its policy, until
  the consumer passes the tombstone (`Stale` in `MpscSeq`). Nothing is lost by it: `FullWasFull` and
  `LockFree` hold.

## Plan

1. Done: the abstract specifications, the rings' data paths (`SpscGuards`, `SpscSeq`, `SpscSegments`,
   `SpscTakeover`, `MpscSeq`, `MpscSegments`), sleeping (`MpscWake`, `MpscSleep`), the pools (`PoolStack`,
   `PoolStacks`) and descriptors, regions, rings of segments and their lifecycle, and the programs.
2. Done: the proofs of `SpscSeq`, `SpscSegments`, `SpscTakeover`, `MpscSeq`, `MpscWake`, `PoolStack` and
   `Lifecycle`.
3. Proofs next: the refinement of `MpscSegments`.

## Not modelled

* Alignment and type checks (`zerocopy` bounds, `check_type`, `slot_ptr`) and the scratch words of the
  header, which the rings never read.
* The clock, and the platform back ends of `wake.rs` beyond what a futex promises.
* Of the programs: timing, pinning and placement, probes, histograms and tables, argument parsing, the
  reference lines over `std::sync::mpsc` except for the pool they free to, and the cordyceps cell. They
  share no state between actors that a ring does not already carry.
* The weaker orderings of Relaxed accesses, except in `Regions`, where init's stores reach an attacher in
  any order.
* A peer that writes arbitrary values into the shared words, except for the bounds checks it meets, and the
  takeover of a live holder.
