---------------------------- MODULE SegmentRings ----------------------------
(***************************************************************************)
(* The life of a ring of segments: SPSC v3 and v4, MPSC v2, v3 and v4 over *)
(* a v0 pool.  init takes the segments from the pool, or gives back what   *)
(* it took; processes attach to the rings that allow it; roles of the MPSC *)
(* v3 and v4 rings are taken and given back through one roles word, the    *)
(* consumer's with its checkpoint; release_ring closes the ring and frees  *)
(* its segments, from any process.                                         *)
(*                                                                         *)
(* A segment is the pool buffer it is in.  The pool is PoolStacks' free    *)
(* stack, a pop or a free one step here.  A header's first word, the       *)
(* magic, is also the word a free pool buffer keeps its link in (SPSC v3's *)
(* and MPSC v2's header has no magic; nobody attaches to them).  What the  *)
(* segments carry is MpscSegments' and SpscSegments'.                      *)
(*                                                                         *)
(* What a caller asks of init is [slot, cap, n, mode, wake]: the sizes,    *)
(* the segments, and for MPSC v3 and v4 the mode and the wake protocol the *)
(* program was compiled with.                                              *)
(***************************************************************************)
EXTENDS Regions, FiniteSets

CONSTANTS Bufs,         \* 0 .. buf_count - 1
          Asks,         \* what callers ask of init, good and bad
          MAX_SEGMENTS, MAX_SEG_CAPACITY,
          max_producers,
          RingProcs,    \* processes, all attached to the pool
          Creator,      \* the one of them that has &mut Pool
          MaxApp,       \* bound: buffers the application has at once
          MaxUses,      \* bound: times a buffer is handed out
          MaxReads      \* bound: messages read

ASSUME LifeAssumption ==
    /\ IsFiniteSet(Bufs) /\ Bufs = 0 .. Cardinality(Bufs) - 1
    /\ MAX_SEGMENTS \in Nat
    /\ IsFiniteSet(RingProcs) /\ Creator \in RingProcs
    /\ max_producers \in Nat \ {0}

NoRing == <<>>

VARIABLES
    version,                   \* "spsc3", "mpsc2", "spsc4", "mpsc3" or "mpsc4"
    free,                      \* the pool's free stack
    uses,                      \* history: times each buffer was handed out
    app,                       \* buffers the application has
    hdr,                       \* every buffer as a segment header
    mpc, ask, taken, unseen,   \* the creator in init
    ring,                      \* history: the ring's segments, from init to its close
    held,                      \* every process: its ring handle, and the roles it has
    closing,                   \* release_ring at work: what is still to clear and to free
    read                       \* history: messages read from the ring

segVars == <<version, free, uses, app, hdr, mpc, ask, taken, unseen, ring, held, closing, read>>

\* The stores of a segment's header and slots, before its magic.
Parts == {"info", "table", "slots"}

NoAsk == [slot |-> 0, cap |-> 0, n |-> 0, mode |-> "none", wake |-> "none"]

Header(m) == [magic |-> m, num |-> 0, ask |-> NoAsk, table |-> NoRing, slots |-> FALSE,
              closed |-> FALSE, consumer |-> FALSE, producers |-> 0, cons_pos |-> 0]

NoHandle == [segs |-> NoRing, use |-> 0, attaching |-> FALSE, mode |-> "none", wake |-> "none",
             producer |-> FALSE, consumer |-> "none", pos |-> 0]

NotClosing == [clear |-> NoRing, frees |-> NoRing]

SegInit(versions) ==
    /\ version \in versions
    /\ free = [i \in 1 .. Cardinality(Bufs) |-> i - 1] /\ app = {}
    /\ uses = [b \in Bufs |-> 0]
    /\ hdr = [b \in Bufs |-> Header("link")]
    /\ mpc = "idle" /\ ask = NoAsk /\ taken = NoRing /\ unseen = {}
    /\ ring = NoRing /\ closing = NotClosing /\ read = 0
    /\ held = [p \in RingProcs |-> NoHandle]

-----------------------------------------------------------------------------
(* The pool, as init and the application use it.                           *)

\* alloc_bytes pops the top of the stack.
Pop(b) ==
    /\ free # <<>> /\ b = Head(free) /\ uses[b] < MaxUses
    /\ free' = Tail(free)
    /\ uses' = [uses EXCEPT ![b] = @ + 1]

\* free writes the buffer's first word, and pushes it.
Push(b) ==
    /\ free' = <<b>> \o free
    /\ hdr' = [hdr EXCEPT ![b].magic = "link"]

AppAlloc(b) ==
    /\ mpc = "idle" /\ Cardinality(app) < MaxApp /\ Pop(b)
    /\ app' = app \cup {b}
    /\ UNCHANGED <<version, hdr, mpc, ask, taken, unseen, ring, held, closing, read>>

AppFree(b) ==
    /\ b \in app /\ Push(b)
    /\ app' = app \ {b}
    /\ UNCHANGED <<version, uses, mpc, ask, taken, unseen, ring, held, closing, read>>

-----------------------------------------------------------------------------
(* init.                                                                   *)

buf_size == geo[1].size

segment_size_spsc3(a) == L + a.slot * a.cap
segment_size_mpsc2(a) == 3 * L + a.slot * a.cap
segment_size_spsc4(a) == 4 * L + a.slot * a.cap
segment_size_mpsc3(a) == 7 * L + a.slot * a.cap
segment_size_mpsc4(a) == 7 * L + a.slot * a.cap

\* SPSC v3's, which the MPSC rings use too, and SPSC v4's own.
validate_geometry3(a) ==
    IsLines(a.slot, L) /\ a.cap \in PowersOfTwo /\ a.cap <= MAX_SEG_CAPACITY /\ a.n \in 1 .. MAX_SEGMENTS
validate_geometry4(a) ==
    IsLines(a.slot, L) /\ a.cap \in PowersOfTwo /\ a.cap <= MAX_SEG_CAPACITY /\ a.n \in 1 .. MAX_SEGMENTS

\* A ring of mode Single has one segment.
ModeFits(a) == a.mode = "single" => a.n = 1

\* What init and attach check of a ring's geometry.
Fits(v, a) ==
    CASE v = "spsc3" -> validate_geometry3(a) /\ segment_size_spsc3(a) <= buf_size
      [] v = "mpsc2" -> validate_geometry3(a) /\ segment_size_mpsc2(a) <= buf_size
      [] v = "spsc4" -> validate_geometry4(a) /\ segment_size_spsc4(a) <= buf_size
      [] v = "mpsc3" -> validate_geometry3(a) /\ ModeFits(a) /\ segment_size_mpsc3(a) <= buf_size
      [] v = "mpsc4" -> validate_geometry3(a) /\ ModeFits(a) /\ segment_size_mpsc4(a) <= buf_size

\* The geometry is accepted, and the segments are taken one by one.
StartRing(v, a) ==
    /\ version = v /\ mpc = "idle" /\ ring = NoRing /\ closing = NotClosing
    /\ held[Creator] = NoHandle
    /\ Fits(v, a)
    /\ mpc' = "taking" /\ ask' = a
    /\ UNCHANGED <<version, free, uses, app, hdr, taken, unseen, ring, held, closing, read>>

\* SPSC v3, v4 and MPSC v2 are compiled one way; MPSC v3's wake is not checked.
init_spsc3(a) == a.mode = "multi" /\ a.wake = "spin" /\ StartRing("spsc3", a)
init_mpsc2(a) == a.mode = "multi" /\ a.wake = "spin" /\ StartRing("mpsc2", a)
init_spsc4(a) == a.mode = "multi" /\ a.wake = "spin" /\ StartRing("spsc4", a)
init_mpsc3(a) == a.wake = "spin" /\ StartRing("mpsc3", a)
init_mpsc4(a) == StartRing("mpsc4", a)

init_ring(a) ==
    init_spsc3(a) \/ init_mpsc2(a) \/ init_spsc4(a) \/ init_mpsc3(a) \/ init_mpsc4(a)

TakeSegment(b) ==
    /\ mpc = "taking" /\ Len(taken) < ask.n /\ Pop(b)
    /\ taken' = Append(taken, b)
    /\ UNCHANGED <<version, app, hdr, mpc, ask, unseen, ring, held, closing, read>>

\* Fault: the buffers taken so far are dropped, not freed.
GiveBackDrops ==
    /\ mpc = "taking" /\ Len(taken) < ask.n /\ free = <<>>
    /\ mpc' = "idle" /\ ask' = NoAsk /\ taken' = NoRing
    /\ UNCHANGED <<version, free, uses, app, hdr, unseen, ring, held, closing, read>>

\* Exhausted: what was taken is freed, in order, and init fails.
GiveBack ==
    /\ \/ mpc = "taking" /\ Len(taken) < ask.n /\ free = <<>>
       \/ mpc = "giving"
    /\ IF taken = NoRing
       THEN mpc' = "idle" /\ ask' = NoAsk /\ UNCHANGED <<free, hdr, taken>>
       ELSE mpc' = "giving" /\ Push(Head(taken)) /\ taken' = Tail(taken) /\ UNCHANGED ask
    /\ UNCHANGED <<version, uses, app, unseen, ring, held, closing, read>>

Written == Cardinality({i \in DOMAIN taken : hdr[taken[i]].magic = "ring"})

\* The next segment's header is zeroed, the magic and the roles with it.
WriteSegment ==
    /\ \/ mpc = "taking" /\ Len(taken) = ask.n
       \/ mpc = "writing" /\ unseen = {} /\ Written < ask.n
    /\ mpc' = "storing"
    /\ unseen' = Parts
    /\ ring' = taken /\ read' = 0
    /\ hdr' = [hdr EXCEPT ![taken[Written + 1]] = Header("none")]
    /\ UNCHANGED <<version, free, uses, app, ask, taken, held, closing>>

\* The Relaxed stores of its fields, its table (segment 0's only) and its seq
\* words become visible in any order ...
StorePart(part) ==
    LET k == Written + 1
        h == hdr[taken[k]]
    IN  /\ mpc = "storing" /\ part \in unseen
        /\ unseen' = unseen \ {part}
        /\ hdr' = [hdr EXCEPT ![taken[k]] =
                     CASE part = "info"  -> [h EXCEPT !.num = k - 1, !.ask = ask]
                       [] part = "table" -> [h EXCEPT !.table = IF k = 1 THEN taken ELSE @]
                       [] part = "slots" -> [h EXCEPT !.slots = TRUE]]
        /\ UNCHANGED <<version, free, uses, app, mpc, ask, taken, ring, held, closing, read>>

\* ... and the magic after them.  After the last one init returns the handle.
StoreSegmentMagic ==
    LET b == taken[Written + 1] IN
    /\ mpc = "storing" /\ unseen = {}
    /\ hdr' = [hdr EXCEPT ![b].magic = "ring"]
    /\ IF Written + 1 < ask.n
       THEN mpc' = "writing" /\ UNCHANGED <<ask, taken, held>>
       ELSE /\ mpc' = "idle" /\ ask' = NoAsk /\ taken' = NoRing
            /\ held' = [held EXCEPT ![Creator] =
                          [NoHandle EXCEPT !.segs = taken, !.use = uses[taken[1]],
                                           !.mode = ask.mode, !.wake = ask.wake]]
    /\ UNCHANGED <<version, free, uses, app, unseen, ring, closing, read>>

-----------------------------------------------------------------------------
(* attach.                                                                 *)

\* A peer knows the buffer of segment 0, and may try before init is done: the
\* block's magic is checked first.
AttachBlock(p, v, m, w) ==
    /\ version = v /\ held[p] = NoHandle /\ ring # NoRing
    /\ hdr[ring[1]].magic = "ring"
    /\ held' = [held EXCEPT ![p] = [NoHandle EXCEPT !.attaching = TRUE, !.mode = m, !.wake = w,
                                                    !.segs = <<ring[1]>>, !.use = uses[ring[1]]]]
    /\ UNCHANGED <<version, free, uses, app, hdr, mpc, ask, taken, unseen, ring, closing, read>>

attach_spsc4(p)       == AttachBlock(p, "spsc4", "multi", "spin")
attach_mpsc3(p, m)    == AttachBlock(p, "mpsc3", m, "spin")
attach_mpsc4(p, m, w) == AttachBlock(p, "mpsc4", m, w)

\* The block's mode and wake are this build's, its geometry fits, the table's
\* entries are distinct buffers, the first one this, and every segment's header
\* agrees with the block.
Agrees(first, m, w) ==
    LET a == hdr[first].ask
        t == hdr[first].table
    IN  /\ a.mode = m /\ a.wake = w /\ Fits(version, a)
        /\ hdr[first].num = 0 /\ Len(t) = a.n
        /\ Cardinality(Range(t)) = Len(t) /\ t[1] = first
        /\ \A i \in DOMAIN t :
             hdr[t[i]].magic = "ring" /\ hdr[t[i]].num = i - 1 /\ hdr[t[i]].ask = a

\* The first segment was not handed out again since the handle was made.
Current(p) == held[p].segs # NoRing /\ uses[held[p].segs[1]] = held[p].use

\* All reads are one step: init wrote what they find before the first magic,
\* and until the segments are freed only release_ring changes it, clearing the
\* magics.  One found cleared is a refusal; else all is as at the first read.
AttachSegments(p) ==
    LET first == held[p].segs[1] IN
    /\ held[p].attaching /\ Current(p)
    /\ held' = [held EXCEPT ![p] = IF Agrees(first, held[p].mode, held[p].wake)
                                   THEN [@ EXCEPT !.attaching = FALSE, !.segs = hdr[first].table]
                                   ELSE NoHandle]
    /\ UNCHANGED <<version, free, uses, app, hdr, mpc, ask, taken, unseen, ring, closing, read>>

-----------------------------------------------------------------------------
(* The roles of an MPSC v3 or v4 ring.  A refused claim changes nothing,   *)
(* and a CAS that loses tries again: a claim is its successful CAS.        *)

Ready(p) == Current(p) /\ ~held[p].attaching
Block(p) == held[p].segs[1]

\* Fault: a closed ring is not refused.
ClaimProducerClosed(p, v) ==
    LET h == hdr[Block(p)] IN
    /\ version = v /\ Ready(p) /\ ~held[p].producer /\ h.producers < max_producers
    /\ hdr' = [hdr EXCEPT ![Block(p)].producers = @ + 1]
    /\ held' = [held EXCEPT ![p].producer = TRUE]
    /\ UNCHANGED <<version, free, uses, app, mpc, ask, taken, unseen, ring, closing, read>>

ClaimProducer(p, v) ==
    LET h == hdr[Block(p)] IN
    /\ version = v /\ Ready(p) /\ ~held[p].producer
    /\ ~h.closed /\ h.producers < max_producers
    /\ hdr' = [hdr EXCEPT ![Block(p)].producers = @ + 1]
    /\ held' = [held EXCEPT ![p].producer = TRUE]
    /\ UNCHANGED <<version, free, uses, app, mpc, ask, taken, unseen, ring, closing, read>>

claim_producer3(p) == ClaimProducer(p, "mpsc3")
producer4(p)       == ClaimProducer(p, "mpsc4")

ReleaseProducer(p) ==
    /\ held[p].producer
    /\ hdr' = [hdr EXCEPT ![Block(p)].producers = @ - 1]
    /\ held' = [held EXCEPT ![p].producer = FALSE]
    /\ UNCHANGED <<version, free, uses, app, mpc, ask, taken, unseen, ring, closing, read>>

ClaimConsumer(p, v) ==
    LET h == hdr[Block(p)] IN
    /\ version = v /\ Ready(p) /\ held[p].consumer = "none"
    /\ ~h.closed /\ ~h.consumer
    /\ hdr' = [hdr EXCEPT ![Block(p)].consumer = TRUE]
    /\ held' = [held EXCEPT ![p].consumer = "loading"]
    /\ UNCHANGED <<version, free, uses, app, mpc, ask, taken, unseen, ring, closing, read>>

claim_consumer3(p) == ClaimConsumer(p, "mpsc3")
consumer4(p)       == ClaimConsumer(p, "mpsc4")

\* The checkpoint is loaded after the role is taken.
load_consumer(p) ==
    /\ held[p].consumer = "loading"
    /\ held' = [held EXCEPT ![p].consumer = "held", ![p].pos = hdr[Block(p)].cons_pos]
    /\ UNCHANGED <<version, free, uses, app, hdr, mpc, ask, taken, unseen, ring, closing, read>>

\* A message is read and released: the consumer's own position moves.
Consume(p) ==
    /\ held[p].consumer = "held" /\ read < MaxReads
    /\ held' = [held EXCEPT ![p].pos = @ + 1]
    /\ read' = read + 1
    /\ UNCHANGED <<version, free, uses, app, hdr, mpc, ask, taken, unseen, ring, closing>>

\* release writes the checkpoint ...
store_consumer(p) ==
    /\ held[p].consumer = "held"
    /\ hdr' = [hdr EXCEPT ![Block(p)].cons_pos = held[p].pos]
    /\ held' = [held EXCEPT ![p].consumer = "stored", ![p].pos = 0]
    /\ UNCHANGED <<version, free, uses, app, mpc, ask, taken, unseen, ring, closing, read>>

\* Fault: the role is cleared before the checkpoint is written.
ReleaseConsumerFirst(p) ==
    /\ held[p].consumer = "held"
    /\ hdr' = [hdr EXCEPT ![Block(p)].consumer = FALSE]
    /\ held' = [held EXCEPT ![p].consumer = "none", ![p].pos = 0]
    /\ UNCHANGED <<version, free, uses, app, mpc, ask, taken, unseen, ring, closing, read>>

\* ... and then clears the role.
ReleaseConsumer(p) ==
    /\ held[p].consumer = "stored"
    /\ hdr' = [hdr EXCEPT ![Block(p)].consumer = FALSE]
    /\ held' = [held EXCEPT ![p].consumer = "none"]
    /\ UNCHANGED <<version, free, uses, app, mpc, ask, taken, unseen, ring, closing, read>>

\* The handle is dropped, which writes nothing.
DropHandle(p) ==
    /\ held[p] # NoHandle /\ ~held[p].producer /\ held[p].consumer = "none"
    /\ held' = [held EXCEPT ![p] = NoHandle]
    /\ UNCHANGED <<version, free, uses, app, hdr, mpc, ask, taken, unseen, ring, closing, read>>

-----------------------------------------------------------------------------
(* release_ring, from any process that has the ring.                       *)

\* The CAS from no role held to CLOSED; RingInUse and RingClosed change
\* nothing.  The table is read, and the handle is consumed.
ReleaseRing(p, v) ==
    LET h == hdr[Block(p)] IN
    /\ version = v /\ Ready(p) /\ ~held[p].producer /\ held[p].consumer = "none"
    /\ ~h.closed /\ ~h.consumer /\ h.producers = 0
    /\ hdr' = [hdr EXCEPT ![Block(p)].closed = TRUE]
    /\ closing' = [clear |-> held[p].segs, frees |-> h.table]
    /\ held' = [held EXCEPT ![p] = NoHandle]
    /\ ring' = NoRing /\ read' = 0
    /\ UNCHANGED <<version, free, uses, app, mpc, ask, taken, unseen>>

release_ring3(p) == ReleaseRing(p, "mpsc3")
release_ring4(p) == ReleaseRing(p, "mpsc4")

\* Every segment's magic is cleared, and then every segment is freed.
ClearMagic ==
    /\ closing.clear # NoRing
    /\ hdr' = [hdr EXCEPT ![Head(closing.clear)].magic = "none"]
    /\ closing' = [closing EXCEPT !.clear = Tail(@)]
    /\ UNCHANGED <<version, free, uses, app, mpc, ask, taken, unseen, ring, held, read>>

FreeSegment ==
    /\ closing.clear = NoRing /\ closing.frees # NoRing
    /\ Push(Head(closing.frees))
    /\ closing' = [closing EXCEPT !.frees = Tail(@)]
    /\ UNCHANGED <<version, uses, app, mpc, ask, taken, unseen, ring, held, read>>

-----------------------------------------------------------------------------
SegNext ==
    \/ \E b \in Bufs : AppAlloc(b) \/ AppFree(b) \/ TakeSegment(b)
    \/ \E a \in Asks : init_ring(a)
    \/ GiveBack \/ WriteSegment \/ StoreSegmentMagic \/ ClearMagic \/ FreeSegment
    \/ \E part \in Parts : StorePart(part)
    \/ \E p \in RingProcs :
         \/ attach_spsc4(p) \/ AttachSegments(p)
         \/ \E m \in {"single", "multi"} :
              attach_mpsc3(p, m) \/ \E w \in {"spin", "futex"} : attach_mpsc4(p, m, w)
         \/ claim_producer3(p) \/ producer4(p) \/ ReleaseProducer(p)
         \/ claim_consumer3(p) \/ consumer4(p) \/ load_consumer(p) \/ Consume(p)
         \/ store_consumer(p) \/ ReleaseConsumer(p)
         \/ DropHandle(p) \/ release_ring3(p) \/ release_ring4(p)

-----------------------------------------------------------------------------
(* Properties.                                                             *)

HasRole(p) == held[p].producer \/ held[p].consumer # "none"

\* A claim through one handle races the release through another: no segment is
\* closed, let alone freed, while a role of its ring is held anywhere, and the
\* roles word counts exactly the roles held.  Whoever has a ring, by init or by
\* attach during or after it, and finds it open has all of its segments, in
\* order, with every seq word set, and was compiled for the mode and the wake
\* protocol the ring was made with.
RoleKeepsRing ==
    /\ \A p \in RingProcs : HasRole(p) => held[p].segs = ring
    /\ ring # NoRing =>
         /\ hdr[ring[1]].magic = "ring" =>
              hdr[ring[1]].producers = Cardinality({p \in RingProcs : held[p].producer})
         /\ Cardinality({p \in RingProcs : held[p].consumer # "none"}) <= 1
    /\ \A p \in RingProcs : Ready(p) /\ ~hdr[Block(p)].closed =>
         /\ held[p].segs = ring /\ \A i \in DOMAIN ring : hdr[ring[i]].slots
         /\ held[p].mode = hdr[Block(p)].ask.mode /\ held[p].wake = hdr[Block(p)].ask.wake

\* The buffers of rings, of the one being made and of the one being freed.
Owned == taken \o (IF mpc = "idle" THEN ring ELSE NoRing) \o closing.frees

\* No buffer is lost and none is freed twice: each is on the free stack, the
\* application's, taken by init, the ring's, or about to be freed, once.
BuffersConserved ==
    LET all == free \o Owned \o SetToSeq(app)
    IN  Len(all) = Cardinality(Bufs) /\ Range(all) = Bufs

\* "The next consumer, in any process, continues exactly here": nothing read is
\* read again and nothing is skipped.
ConsumerResumes ==
    \A p \in RingProcs : held[p].consumer = "held" => held[p].pos = read

=============================================================================
