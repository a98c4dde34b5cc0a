------------------------------ MODULE Regions ------------------------------
(***************************************************************************)
(* The flat regions: SPSC v0, v1 and v2 rings, MPSC v0 and v1 rings, and   *)
(* v0 and v1 pools, each a header, then words, then slots or buffers, in   *)
(* one shared mapping.  A creator lays the region out; processes that have *)
(* mapped it attach, as any kind, at any time.                             *)
(*                                                                         *)
(* init's stores are Relaxed, and reach the other processes in any order,  *)
(* but for the last, of the magic, which is a Release.  Lengths are in     *)
(* words; a cache line has L of them in the creator's build, and the       *)
(* attacher's build may have another line size.  A geometry is a sequence  *)
(* of [size, count]: one for a ring or a v0 pool, one per stack for v1.    *)
(***************************************************************************)
EXTENDS Integers, Sequences, SequencesExt

CONSTANTS L,          \* words in a cache line, as the creator was built
          Lines,      \* line sizes the attachers are built with
          Lens,       \* lengths of mappings, the creator's and the attachers'
          Geometries, \* geometries the creator asks for, good ones and bad
          MaxCap,     \* MAX_CAPACITY of the rings with seq words
          POOL_NIL,   \* v0's and v1's NIL, which no count of buffers reaches
          Procs, NoGeo

Flat == {"spsc0", "spsc1", "spsc2", "mpsc0", "mpsc1", "pool0", "pool1"}

\* A region never laid out has no kind's magic.
NoMagic == "none"

VARIABLES
    kind, len,       \* what the creator lays out, and the length it has
    ipc, geo, todo,  \* the creator: in init, its geometry, stores not yet seen
    mem,             \* the header words of the region, and whether the rest is set
    handle           \* every attacher: in attach, or the handle it got

regionVars == <<kind, len, ipc, geo, todo, mem, handle>>

\* The stores of init before the magic: `words` are the indices, user words and
\* seq words of a ring, or the heads and links of a pool.
Fields == {"layout", "line", "stacks", "size", "count", "words"}

SizesOf(g)  == [i \in DOMAIN g |-> g[i].size]
CountsOf(g) == [i \in DOMAIN g |-> g[i].count]
Pairs(sizes, counts) ==
    [i \in DOMAIN sizes \cap DOMAIN counts |-> [size |-> sizes[i], count |-> counts[i]]]

-----------------------------------------------------------------------------
(* Geometry, per kind, for a build with `l` words in a line.               *)

PowersOfTwo == {1, 2, 4, 8, 16}

RoundUp(n, l)   == ((n + l - 1) \div l) * l
IsLines(n, l)   == n > 0 /\ n % l = 0
Bytes(g)        == FoldLeft(LAMBDA n, s : n + s.size * s.count, 0, g)
RingHeader(l)   == 4 * l
PoolHeader(l)   == 2 * l   \* of a v1 pool, with few stacks
One(g)          == Len(g) = 1

\* v0's bound is the whole range of powers of two.
validate_spsc0(g, l) == One(g) /\ IsLines(g[1].size, l) /\ g[1].count \in PowersOfTwo
validate_spsc1(g, l) == One(g) /\ IsLines(g[1].size, l) /\ g[1].count \in PowersOfTwo /\ g[1].count <= MaxCap
validate_spsc2(g, l) == One(g) /\ IsLines(g[1].size, l) /\ g[1].count \in PowersOfTwo /\ g[1].count <= MaxCap
validate_mpsc0(g, l) == One(g) /\ IsLines(g[1].size, l) /\ g[1].count \in PowersOfTwo /\ g[1].count \in 2 .. MaxCap
validate_mpsc1(g, l) == One(g) /\ IsLines(g[1].size, l) /\ g[1].count \in PowersOfTwo /\ g[1].count <= MaxCap
validate_pool0(g, l) == One(g) /\ IsLines(g[1].size, l) /\ g[1].count \notin {0, POOL_NIL}

\* validate_stacks, of the sorted stacks.
validate_pool1(g, l) ==
    /\ Len(g) > 0
    /\ \A i \in DOMAIN g : IsLines(g[i].size, l) /\ g[i].count > 0
    /\ \A i \in 2 .. Len(g) : g[i - 1].size < g[i].size
    /\ FoldLeft(LAMBDA n, s : n + s.count, 0, g) < POOL_NIL

\* The seq words of a ring are packed, and padded to whole lines.
seq_bytes(count, l) == RoundUp(count, l)

slots_offset1(g, l)      == RingHeader(l) + seq_bytes(g[1].count, l)
mpsc_slots_offset0(g, l) == RingHeader(l) + seq_bytes(g[1].count, l)
mpsc_slots_offset1(g, l) == RingHeader(l) + seq_bytes(g[1].count, l)

region_size_spsc0(g, l) == RingHeader(l) + Bytes(g)

region_size_spsc1(g, l) == RingHeader(l) + seq_bytes(g[1].count, l) + Bytes(g)
region_size_spsc2(g, l) == RingHeader(l) + Bytes(g)
region_size_mpsc0(g, l) == RingHeader(l) + seq_bytes(g[1].count, l) + Bytes(g)
region_size_mpsc1(g, l) == RingHeader(l) + seq_bytes(g[1].count, l) + Bytes(g)
region_size_pool0(g, l) == PoolHeader(l) + Bytes(g)
region_size_pool1(g, l) == PoolHeader(l) + Bytes(g)

\* stack_bases: each stack's buffers follow the one before.
stack_bases(g, l) == [i \in DOMAIN g |-> PoolHeader(l) + Bytes(SubSeq(g, 1, i - 1))]

\* Where a handle of kind k puts the first slot or buffer of entry i.
Base(k, g, l, i) ==
    CASE k \in {"spsc0", "spsc2"} -> RingHeader(l)
      [] k = "spsc1" -> slots_offset1(g, l)
      [] k = "mpsc0" -> mpsc_slots_offset0(g, l)
      [] k = "mpsc1" -> mpsc_slots_offset1(g, l)
      [] k = "pool0" -> PoolHeader(l)
      [] k = "pool1" -> stack_bases(g, l)[i]

\* LAYOUT_VERSION of each kind.
Layout(k) == IF k = "spsc0" THEN 2 ELSE 1

Sorted(g) == SortSeq(g, LAMBDA a, b : a.size < b.size)

-----------------------------------------------------------------------------
Idle == [pc |-> "idle", kind |-> NoMagic, line |-> 0, len |-> 0, geo |-> NoGeo]

\* A finished region of kind k.
Finished(k, g) ==
    [magic |-> k, layout |-> Layout(k), line |-> L, stacks |-> Len(g),
     size |-> SizesOf(g), count |-> CountsOf(g), words |-> k]

Blank ==
    [magic |-> NoMagic, layout |-> 0, line |-> 0, stacks |-> 0,
     size |-> <<0>>, count |-> <<0>>, words |-> NoMagic]

\* The region is fresh, or was another kind's, laid out before.
RegionInit ==
    /\ kind \in Flat /\ len \in Lens
    /\ ipc = "start" /\ geo = NoGeo /\ todo = {}
    /\ mem \in {Blank} \cup {Finished(k, <<[size |-> L, count |-> 2]>>) : k \in {"spsc0", "pool0"} \ {kind}}
    /\ handle = [p \in Procs |-> Idle]

\* The checks passed: the header is laid out.  A refused init changes nothing.
StartInit(k, g) ==
    /\ kind = k /\ ipc = "start"
    /\ ipc' = "storing" /\ geo' = g /\ todo' = Fields
    /\ UNCHANGED <<kind, len, mem, handle>>

init_spsc0(g) == validate_spsc0(g, L) /\ region_size_spsc0(g, L) <= len /\ StartInit("spsc0", g)
init_spsc1(g) == validate_spsc1(g, L) /\ region_size_spsc1(g, L) <= len /\ StartInit("spsc1", g)
init_spsc2(g) == validate_spsc2(g, L) /\ region_size_spsc2(g, L) <= len /\ StartInit("spsc2", g)
init_mpsc0(g) == validate_mpsc0(g, L) /\ region_size_mpsc0(g, L) <= len /\ StartInit("mpsc0", g)
init_mpsc1(g) == validate_mpsc1(g, L) /\ region_size_mpsc1(g, L) <= len /\ StartInit("mpsc1", g)
init_pool0(g) == validate_pool0(g, L) /\ region_size_pool0(g, L) <= len /\ StartInit("pool0", g)
init_pool1(g) ==
    validate_pool1(Sorted(g), L) /\ region_size_pool1(g, L) <= len /\ StartInit("pool1", Sorted(g))

init(g) ==
    \/ init_spsc0(g) \/ init_spsc1(g) \/ init_spsc2(g) \/ init_mpsc0(g) \/ init_mpsc1(g)
    \/ init_pool0(g) \/ init_pool1(g)

\* One of the Relaxed stores becomes visible.
StoreField(f) ==
    /\ ipc = "storing" /\ f \in todo
    /\ todo' = todo \ {f}
    /\ mem' = [mem EXCEPT ![f] = Finished(kind, geo)[f]]
    /\ UNCHANGED <<kind, len, ipc, geo, handle>>

\* Fault: the magic is no later than the other stores.
StoreMagicEarly ==
    /\ ipc = "storing" /\ mem.magic # kind
    /\ mem' = [mem EXCEPT !.magic = kind]
    /\ ipc' = IF todo = {} THEN "done" ELSE ipc
    /\ UNCHANGED <<kind, len, geo, todo, handle>>

\* The magic last, a Release store: init returns.
StoreMagic ==
    /\ ipc = "storing" /\ todo = {}
    /\ mem' = [mem EXCEPT !.magic = kind]
    /\ ipc' = "done"
    /\ UNCHANGED <<kind, len, geo, todo, handle>>

-----------------------------------------------------------------------------
(* attach, by a process whose mapping has n words and build has l in a     *)
(* line.                                                                   *)

\* The mapping has room for a header; that it is aligned is assumed.
header_ptr_spsc0(n, l) == n >= RingHeader(l)
header_ptr_spsc1(n, l) == n >= RingHeader(l)
header_ptr_spsc2(n, l) == n >= RingHeader(l)
header_ptr_mpsc0(n, l) == n >= RingHeader(l)
header_ptr_mpsc1(n, l) == n >= RingHeader(l)
header_ptr_pool0(n, l) == n >= PoolHeader(l)
header_ptr_pool1(n, l) == n >= PoolHeader(l)

HeaderFits(k, n, l) ==
    CASE k = "spsc0" -> header_ptr_spsc0(n, l)
      [] k = "spsc1" -> header_ptr_spsc1(n, l)
      [] k = "spsc2" -> header_ptr_spsc2(n, l)
      [] k = "mpsc0" -> header_ptr_mpsc0(n, l)
      [] k = "mpsc1" -> header_ptr_mpsc1(n, l)
      [] k = "pool0" -> header_ptr_pool0(n, l)
      [] k = "pool1" -> header_ptr_pool1(n, l)

\* header_ptr, and the Acquire load of the magic; BadMagic returns.  Whoever
\* still has the region as what it was before is done with it.
AttachMagic(p, k, n, l) ==
    /\ handle[p].pc = "idle" /\ (k = kind \/ ipc = "done")
    /\ HeaderFits(k, n, l)
    /\ mem.magic = k
    /\ handle' = [handle EXCEPT ![p] = [pc |-> "magic", kind |-> k, line |-> l, len |-> n, geo |-> NoGeo]]
    /\ UNCHANGED <<kind, len, ipc, geo, todo, mem>>

\* The other words are loaded and checked; an Err drops the region.
AttachFields(p, k, Valid(_, _), Size(_, _), entries) ==
    LET h == handle[p]
        g == Pairs(mem.size, mem.count)
        ok == /\ mem.layout = Layout(k) /\ mem.line = h.line
              /\ entries \in {0, mem.stacks}
              /\ Valid(g, h.line) /\ Size(g, h.line) <= h.len
    IN  /\ h.pc = "magic" /\ h.kind = k
        /\ handle' = [handle EXCEPT ![p] = IF ok THEN [h EXCEPT !.pc = "attached", !.geo = g] ELSE Idle]
        /\ UNCHANGED <<kind, len, ipc, geo, todo, mem>>

attach_spsc0(p) == AttachFields(p, "spsc0", validate_spsc0, region_size_spsc0, 0)
attach_spsc1(p) == AttachFields(p, "spsc1", validate_spsc1, region_size_spsc1, 0)
attach_spsc2(p) == AttachFields(p, "spsc2", validate_spsc2, region_size_spsc2, 0)
attach_mpsc0(p) == AttachFields(p, "mpsc0", validate_mpsc0, region_size_mpsc0, 0)
attach_mpsc1(p) == AttachFields(p, "mpsc1", validate_mpsc1, region_size_mpsc1, 0)
attach_pool0(p) == AttachFields(p, "pool0", validate_pool0, region_size_pool0, 0)

\* Pool::<N>::attach: the handle is made for N stacks, here two.
attach_pool1(p) == AttachFields(p, "pool1", validate_pool1, region_size_pool1, 2)

attach(p) ==
    \/ attach_spsc0(p) \/ attach_spsc1(p) \/ attach_spsc2(p) \/ attach_mpsc0(p) \/ attach_mpsc1(p)
    \/ attach_pool0(p) \/ attach_pool1(p)

\* split consumes the ring handle, and gives a producer and a consumer with its
\* geometry.  A pool is not split.
Split(p, k) ==
    /\ handle[p].pc = "attached" /\ handle[p].kind = k
    /\ handle' = [handle EXCEPT ![p].pc = "split"]
    /\ UNCHANGED <<kind, len, ipc, geo, todo, mem>>

split_spsc0(p) == Split(p, "spsc0")
split_spsc1(p) == Split(p, "spsc1")
split_spsc2(p) == Split(p, "spsc2")
split_mpsc0(p) == Split(p, "mpsc0")
split_mpsc1(p) == Split(p, "mpsc1")

split(p) ==
    split_spsc0(p) \/ split_spsc1(p) \/ split_spsc2(p) \/ split_mpsc0(p) \/ split_mpsc1(p)

RegionNext ==
    \/ \E g \in Geometries : init(g)
    \/ \E f \in Fields : StoreField(f)
    \/ StoreMagic
    \/ \E p \in Procs :
         \/ \E k \in Flat, n \in Lens, l \in Lines : AttachMagic(p, k, n, l)
         \/ attach(p) \/ split(p)

-----------------------------------------------------------------------------
(* Properties.                                                             *)

Attached == {p \in Procs : handle[p].pc \in {"attached", "split"}}

\* "A peer that pre-mapped the region must never observe MAGIC before the
\* geometry": whoever attaches, at any moment of init, attaches as the region's
\* kind, has the creator's geometry and line size, and finds every word of the
\* region initialised, whatever was there before.
AttachedAgrees ==
    \A p \in Attached :
        LET h == handle[p]
        IN  /\ h.kind = kind /\ h.line = L
            /\ SizesOf(h.geo) = SizesOf(geo) /\ CountsOf(h.geo) = CountsOf(geo)
            /\ todo = {} /\ mem.words = kind

\* And every slot and buffer the handle reaches is inside the process's own
\* mapping, past the header and the seq words, and none overlaps another.
AttachedIsWhole ==
    /\ AttachedAgrees
    /\ \A p \in Attached :
        LET h == handle[p]
            End(i) == Base(h.kind, h.geo, h.line, i) + h.geo[i].size * h.geo[i].count
        IN  /\ h.geo = geo
            /\ \A i \in DOMAIN h.geo : End(i) <= h.len
            /\ \A i \in 2 .. Len(h.geo) : End(i - 1) <= Base(h.kind, h.geo, h.line, i)

=============================================================================
