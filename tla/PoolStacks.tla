----------------------------- MODULE PoolStacks -----------------------------
(***************************************************************************)
(* The v1 buffer pool: several v0 free-stacks over one region, one per     *)
(* buffer size, smallest first.  An allocation pops the smallest stack     *)
(* whose buffers are large enough and, when that one is empty, tries each  *)
(* larger stack in turn.  A free goes straight to the buffer's own stack.  *)
(* The count of misses is statistics no operation reads, and left out.     *)
(*                                                                         *)
(* A buffer is its stack and its index there.  The steps of a pop and of a *)
(* free are PoolStack's; EachStackIsPool says so.  Who holds a guard is up *)
(* to the module that uses the pool.  `stack` is a history variable.       *)
(***************************************************************************)
EXTENDS Integers, Sequences, SequencesExt

CONSTANTS geometry,   \* StackGeometry records, in the order the caller gave
          NIL,        \* the terminator of a free-stack
          AppData,    \* what a holder may leave in a buffer's first word
          Sizes       \* sizes asked for, none larger than the largest buffer

\* init sorts the stacks and validate_stacks refuses two of one size.
stacks == SortSeq(geometry, LAMBDA g, h : g.buf_size < h.buf_size)

N      == Len(stacks)
Stacks == 1 .. N

Buffers == UNION {{[stack |-> s, idx |-> i] : i \in 0 .. stacks[s].buf_count - 1} : s \in Stacks}

\* validate_stacks.
ASSUME StacksAssumption ==
    /\ N > 0
    /\ \A s \in Stacks : stacks[s].buf_size > 0 /\ stacks[s].buf_count > 0
    /\ \A s \in 2 .. N : stacks[s - 1].buf_size < stacks[s].buf_size
    /\ NIL \notin UNION {0 .. stacks[s].buf_count - 1 : s \in Stacks}
    /\ \A z \in Sizes : z <= stacks[N].buf_size

VARIABLES
    heads,                         \* the head word of every stack
    link,                          \* the first word of every buffer
    guard, seen,                   \* every BufSlot guard, and the head its free loaded
    apc, wanted, at, ahead, anext, \* the allocator in alloc_sized and pop
    stack                          \* history: each stack's free buffers, top first

allocVars == <<apc, wanted, at, ahead, anext>>
poolVars  == <<heads, link, guard, seen, allocVars, stack>>

Locals(s) == 0 .. stacks[s].buf_count - 1
Here(i)   == [stack |-> at, idx |-> i]

\* init: link every stack's buffers in order, the last one ends the stack.
PoolInit ==
    /\ heads = [s \in Stacks |-> 0]
    /\ link = [b \in Buffers |-> IF b.idx + 1 = stacks[b.stack].buf_count THEN NIL ELSE b.idx + 1]
    /\ guard = [b \in Buffers |-> "free"]
    /\ seen = [b \in Buffers |-> NIL]
    /\ apc = "idle" /\ wanted = 1 /\ at = 1 /\ ahead = NIL /\ anext = NIL
    /\ stack = [s \in Stacks |-> [i \in 1 .. stacks[s].buf_count |-> i - 1]]

-----------------------------------------------------------------------------
(* alloc, alloc_bytes and alloc_with over alloc_sized.                     *)

\* The smallest stack whose buffers hold `size` bytes.
stack_for(size) ==
    CHOOSE s \in Stacks : stacks[s].buf_size >= size
                       /\ \A r \in 1 .. s - 1 : stacks[r].buf_size < size

\* alloc_sized returns: its locals and pop's go out of scope.
AllocReturn ==
    apc' = "idle" /\ wanted' = 1 /\ at' = 1 /\ ahead' = NIL /\ anext' = NIL

\* A caller asks for `size` bytes.
AllocSized(size) ==
    /\ apc = "idle"
    /\ apc' = "pop"
    /\ wanted' = stack_for(size)
    /\ at' = stack_for(size)
    /\ UNCHANGED <<heads, link, guard, seen, ahead, anext, stack>>

\* pop loads the head; NIL or an index past the stack's buffers is Exhausted.
PopHead ==
    /\ apc = "pop"
    /\ ahead' = heads[at]
    /\ apc' = IF heads[at] \in Locals(at) THEN "head" ELSE "empty"
    /\ UNCHANGED <<heads, link, guard, seen, wanted, at, anext, stack>>

\* ... then the head buffer's link, which is checked in the same way.
PopNext ==
    /\ apc = "head"
    /\ anext' = link[Here(ahead)]
    /\ apc' = IF link[Here(ahead)] \in Locals(at) \cup {NIL} THEN "next" ELSE "empty"
    /\ UNCHANGED <<heads, link, guard, seen, wanted, at, ahead, stack>>

\* Fault: the head of the stack wanted is moved, not of the one popped.
PopCasWanted ==
    /\ apc = "next"
    /\ heads[wanted] = ahead
    /\ heads' = [heads EXCEPT ![wanted] = anext]
    /\ guard' = [guard EXCEPT ![Here(ahead)] = "held"]
    /\ stack' = [stack EXCEPT ![at] = Tail(@)]
    /\ apc' = "served"
    /\ UNCHANGED <<link, seen, wanted, at, ahead, anext>>

\* The CAS moves that stack's head: the buffer is the caller's.
PopCas ==
    /\ apc = "next"
    /\ heads[at] = ahead
    /\ heads' = [heads EXCEPT ![at] = anext]
    /\ guard' = [guard EXCEPT ![Here(ahead)] = "held"]
    /\ stack' = [stack EXCEPT ![at] = Tail(@)]
    /\ apc' = "served"
    /\ UNCHANGED <<link, seen, wanted, at, ahead, anext>>

\* A racing free moved the head: load it again.
PopRetry ==
    /\ apc = "next"
    /\ heads[at] # ahead
    /\ apc' = "pop"
    /\ UNCHANGED <<heads, link, guard, seen, wanted, at, ahead, anext, stack>>

\* The stack is empty: the next larger one is tried.
Spill ==
    /\ apc = "empty" /\ at < N
    /\ at' = at + 1
    /\ apc' = "pop" /\ ahead' = NIL /\ anext' = NIL
    /\ UNCHANGED <<heads, link, guard, seen, wanted, stack>>

\* None is left: Err(Exhausted) to the caller, or to alloc_with's policy,
\* which may call again.
Exhausted ==
    /\ apc = "empty" /\ at = N
    /\ AllocReturn
    /\ UNCHANGED <<heads, link, guard, seen, stack>>

\* The guard is returned to the caller.
Served(b) ==
    /\ apc = "served" /\ b = Here(ahead)
    /\ AllocReturn
    /\ UNCHANGED <<heads, link, guard, seen, stack>>

AllocNext == PopHead \/ PopNext \/ PopCas \/ PopRetry \/ Spill \/ Exhausted

-----------------------------------------------------------------------------
(* BufSlot: use in place, free to the buffer's own stack, or drop.         *)

\* The holder writes through DerefMut, the first word included.
Write(b, v) ==
    /\ guard[b] = "held"
    /\ link' = [link EXCEPT ![b] = v]
    /\ UNCHANGED <<heads, guard, seen, allocVars, stack>>

FreeHead(b) ==
    /\ guard[b] \in {"held", "retry"}
    /\ guard' = [guard EXCEPT ![b] = "loaded"]
    /\ seen' = [seen EXCEPT ![b] = heads[b.stack]]
    /\ UNCHANGED <<heads, link, allocVars, stack>>

FreeLink(b) ==
    /\ guard[b] = "loaded"
    /\ guard' = [guard EXCEPT ![b] = "linked"]
    /\ link' = [link EXCEPT ![b] = seen[b]]
    /\ UNCHANGED <<heads, seen, allocVars, stack>>

FreeCas(b) ==
    /\ guard[b] = "linked"
    /\ heads[b.stack] = seen[b]
    /\ heads' = [heads EXCEPT ![b.stack] = b.idx]
    /\ guard' = [guard EXCEPT ![b] = "free"]
    /\ stack' = [stack EXCEPT ![b.stack] = <<b.idx>> \o @]
    /\ UNCHANGED <<link, seen, allocVars>>

FreeRetry(b) ==
    /\ guard[b] = "linked"
    /\ heads[b.stack] # seen[b]
    /\ guard' = [guard EXCEPT ![b] = "retry"]
    /\ UNCHANGED <<heads, link, seen, allocVars, stack>>

FreeNext(b) == FreeHead(b) \/ FreeLink(b) \/ FreeCas(b) \/ FreeRetry(b)

\* Dropped without free: leaked until the pool is initialised again.
Leak(b) ==
    /\ guard[b] = "held"
    /\ guard' = [guard EXCEPT ![b] = "leaked"]
    /\ UNCHANGED <<heads, link, seen, allocVars, stack>>

-----------------------------------------------------------------------------
(* PoolView: descriptor indices number the buffers across the stacks.      *)

\* view: the stacks' index ranges follow each other.
starts == [s \in Stacks |-> FoldLeft(LAMBDA n, g : n + g.buf_count, 0, SubSeq(stacks, 1, s - 1))]

\* desc_idx of a guard of this pool: its head names its stack.
desc_idx(b) == starts[b.stack] + b.idx

\* Fault: the range's last index is taken for the next stack's first.
LocateOffByOne(n) ==
    LET s == CHOOSE s \in Stacks : n <= starts[s] + stacks[s].buf_count
                                /\ \A r \in 1 .. s - 1 : n > starts[r] + stacks[r].buf_count
    IN  [stack |-> s, idx |-> n - starts[s]]

\* locate: the first range that ends past the index, or none.
Located(n) == \E s \in Stacks : n < starts[s] + stacks[s].buf_count

locate(n) ==
    LET s == CHOOSE s \in Stacks : n < starts[s] + stacks[s].buf_count
                                /\ \A r \in 1 .. s - 1 : n >= starts[r] + stacks[r].buf_count
    IN  [stack |-> s, idx |-> n - starts[s]]

\* type_fits, against the buffers of b's stack.
Fits(b, size) == size <= stacks[b.stack].buf_size

-----------------------------------------------------------------------------
(* Properties.                                                             *)

\* The allocator as one stack sees it.
InPop(s) == at = s /\ apc \in {"pop", "head", "next", "empty"}

OneStack(s) ==
    INSTANCE PoolStack
        WITH buf_count <- stacks[s].buf_count,
             first_free_idx <- heads[s],
             link <- [i \in Locals(s) |-> link[[stack |-> s, idx |-> i]]],
             guard <- [i \in Locals(s) |->
                         LET g == guard[[stack |-> s, idx |-> i]]
                         IN  IF g = "flight" THEN "held" ELSE g],
             seen <- [i \in Locals(s) |-> seen[[stack |-> s, idx |-> i]]],
             apc <- IF ~InPop(s) THEN "idle" ELSE IF apc = "empty" THEN "exhausted" ELSE apc,
             ahead <- IF InPop(s) THEN ahead ELSE NIL,
             anext <- IF InPop(s) THEN anext ELSE NIL,
             stack <- stack[s]

\* Every stack is a v0 pool of its own: what PoolStackProofs proves of one
\* free-stack holds of each stack, although one allocator serves them all.
EachStackIsPool ==
    /\ \A s \in Stacks : OneStack(s)!Init
    /\ [][\A s \in Stacks : [OneStack(s)!Next]_(OneStack(s)!vars)]_poolVars

=============================================================================
