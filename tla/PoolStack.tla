----------------------------- MODULE PoolStack -----------------------------
(***************************************************************************)
(* The v0 buffer pool: a free-stack whose links live in the first word of  *)
(* the free buffers themselves.  One allocator pops (the single-popper     *)
(* contract), every holder of a buffer may free it from its own thread, so *)
(* the frees of different buffers interleave with each other and with the  *)
(* pop.  A held buffer's first word is application data.                   *)
(*                                                                         *)
(* `stack` is a history variable: what the free-stack should hold, updated *)
(* in the step of each successful CAS.  No action reads it.                *)
(***************************************************************************)
EXTENDS Integers, Sequences

CONSTANTS buf_count,   \* buffers in the pool
          NIL,         \* the free-stack terminator, u32::MAX in the code
          AppData      \* what an application may leave in a buffer's first word

ASSUME PoolAssumption ==
    /\ buf_count \in Nat \ {0}
    /\ NIL \notin 0 .. buf_count - 1

Buffers == 0 .. buf_count - 1
Links   == Buffers \cup {NIL}

VARIABLES
    first_free_idx,    \* the free-stack's head word
    link,              \* the first word of every buffer
    guard,             \* the life of every buffer's BufSlot guard
    seen,              \* the head a free of that buffer has loaded
    apc, ahead, anext, \* the allocator in pop: where it is, loaded head and next
    stack              \* history: the free buffers, first to be popped first

allocVars == <<apc, ahead, anext>>
vars == <<first_free_idx, link, guard, seen, apc, ahead, anext, stack>>

Init ==
    /\ first_free_idx = 0
    /\ link = [b \in Buffers |-> IF b + 1 = buf_count THEN NIL ELSE b + 1]
    /\ guard = [b \in Buffers |-> "free"]
    /\ seen = [b \in Buffers |-> NIL]
    /\ apc = "idle" /\ ahead = NIL /\ anext = NIL
    /\ stack = [i \in 1 .. buf_count |-> i - 1]

-----------------------------------------------------------------------------
(* pop, behind alloc and alloc_bytes.                                      *)

\* pop returns: its locals go out of scope.
PopReturn == apc' = "idle" /\ ahead' = NIL /\ anext' = NIL

\* A caller asks for a buffer.
Alloc ==
    /\ apc = "idle"
    /\ apc' = "pop"
    /\ UNCHANGED <<first_free_idx, link, guard, seen, ahead, anext, stack>>

\* Load the head.  NIL, or an index outside the pool, is Exhausted.
PopHead ==
    /\ apc = "pop"
    /\ ahead' = first_free_idx
    /\ apc' = IF first_free_idx \in Buffers THEN "head" ELSE "exhausted"
    /\ UNCHANGED <<first_free_idx, link, guard, seen, anext, stack>>

\* Load the head buffer's link.  A link outside the pool is Exhausted.
PopNext ==
    /\ apc = "head"
    /\ anext' = link[ahead]
    /\ apc' = IF link[ahead] \in Links THEN "next" ELSE "exhausted"
    /\ UNCHANGED <<first_free_idx, link, guard, seen, ahead, stack>>

\* Fault: a plain store in place of the CAS.
PopCasUnchecked ==
    /\ apc = "next"
    /\ first_free_idx' = anext
    /\ guard' = [guard EXCEPT ![ahead] = "held"]
    /\ PopReturn
    /\ stack' = Tail(stack)
    /\ UNCHANGED <<link, seen>>

\* The CAS moves the head to the loaded link: the buffer is the caller's.
PopCas ==
    /\ apc = "next"
    /\ first_free_idx = ahead
    /\ first_free_idx' = anext
    /\ guard' = [guard EXCEPT ![ahead] = "held"]
    /\ PopReturn
    /\ stack' = Tail(stack)
    /\ UNCHANGED <<link, seen>>

\* Fault: only the head is taken from the failed CAS, not its link.
PopRetryKeepsNext ==
    /\ apc = "next"
    /\ first_free_idx # ahead
    /\ ahead' = first_free_idx
    /\ UNCHANGED <<first_free_idx, link, guard, seen, apc, anext, stack>>

\* Fault: the CAS is tried again with what was loaded before.
PopRetryStale ==
    /\ apc = "next"
    /\ first_free_idx # ahead
    /\ UNCHANGED vars

\* A racing free moved the head: retry from the load.
PopRetry ==
    /\ apc = "next"
    /\ first_free_idx # ahead
    /\ apc' = "pop"
    /\ UNCHANGED <<first_free_idx, link, guard, seen, ahead, anext, stack>>

\* Err(Exhausted) reaches the caller, or alloc_with's policy, which may call
\* again.
PopExhausted ==
    /\ apc = "exhausted"
    /\ PopReturn
    /\ UNCHANGED <<first_free_idx, link, guard, seen, stack>>

-----------------------------------------------------------------------------
(* BufSlot: use in place, free, or drop.                                   *)

\* The holder writes the buffer, its first word included.
Use(b) ==
    /\ guard[b] = "held"
    /\ \E v \in AppData : link' = [link EXCEPT ![b] = v]
    /\ UNCHANGED <<first_free_idx, guard, seen, allocVars, stack>>

\* free: load the head ...
FreeHead(b) ==
    /\ guard[b] \in {"held", "retry"}
    /\ guard' = [guard EXCEPT ![b] = "loaded"]
    /\ seen' = [seen EXCEPT ![b] = first_free_idx]
    /\ UNCHANGED <<first_free_idx, link, allocVars, stack>>

\* Fault: the link is not stored.
FreeLinkSkipped(b) ==
    /\ guard[b] = "loaded"
    /\ guard' = [guard EXCEPT ![b] = "linked"]
    /\ UNCHANGED <<first_free_idx, link, seen, allocVars, stack>>

\* ... store it as this buffer's link ...
FreeLink(b) ==
    /\ guard[b] = "loaded"
    /\ guard' = [guard EXCEPT ![b] = "linked"]
    /\ link' = [link EXCEPT ![b] = seen[b]]
    /\ UNCHANGED <<first_free_idx, seen, allocVars, stack>>

\* ... and CAS the head to this buffer.
FreeCas(b) ==
    /\ guard[b] = "linked"
    /\ first_free_idx = seen[b]
    /\ first_free_idx' = b
    /\ guard' = [guard EXCEPT ![b] = "free"]
    /\ stack' = <<b>> \o stack
    /\ UNCHANGED <<link, seen, allocVars>>

\* The head moved since the load: the loop starts over.
FreeRetry(b) ==
    /\ guard[b] = "linked"
    /\ first_free_idx # seen[b]
    /\ guard' = [guard EXCEPT ![b] = "retry"]
    /\ UNCHANGED <<first_free_idx, link, seen, allocVars, stack>>

\* The guard is dropped without free: the buffer is leaked.
Leak(b) ==
    /\ guard[b] = "held"
    /\ guard' = [guard EXCEPT ![b] = "leaked"]
    /\ UNCHANGED <<first_free_idx, link, seen, allocVars, stack>>

-----------------------------------------------------------------------------
Pop == PopHead \/ PopNext \/ PopCas \/ PopRetry \/ PopExhausted

Next ==
    \/ Alloc \/ Pop
    \/ \E b \in Buffers :
         \/ Use(b) \/ FreeHead(b) \/ FreeLink(b) \/ FreeCas(b) \/ FreeRetry(b)
         \/ Leak(b)

Spec == Init /\ [][Next]_vars

\* A pop once called runs on.  Nothing is asked of the freeing threads.
FairSpec == Spec /\ WF_vars(Pop)

-----------------------------------------------------------------------------
(* Properties.                                                             *)

Guards == {"free", "held", "loaded", "linked", "retry", "leaked"}

\* Types of the shared words and of the guards.
TypeOK ==
    /\ first_free_idx \in Links
    /\ link \in [Buffers -> Links \cup AppData]
    /\ guard \in [Buffers -> Guards]
    /\ seen \in [Buffers -> Links]
    /\ apc \in {"idle", "pop", "head", "next", "exhausted"}
    /\ ahead \in Links /\ anext \in Links
    /\ stack \in Seq(Buffers)

\* The buffers on the free-stack are exactly those no guard owns: none is
\* lost by a racing free, and none is both free and held.
StackIsFree ==
    /\ \A b \in Buffers : guard[b] = "free" <=> \E i \in 1 .. Len(stack) : stack[i] = b
    /\ \A i, j \in 1 .. Len(stack) : stack[i] = stack[j] => i = j

\* The head word and the links in the free buffers spell out that stack, so
\* an application's bytes are never followed as a link.
LinksSpellStack ==
    /\ first_free_idx = IF stack = <<>> THEN NIL ELSE stack[1]
    /\ \A i \in 1 .. Len(stack) :
         link[stack[i]] = IF i = Len(stack) THEN NIL ELSE stack[i + 1]

\* What makes the pop's CAS free of ABA with a single popper: the buffer it
\* loaded stays free, so the link it loaded is still that buffer's link.
PopNotStale ==
    /\ apc \in {"head", "next"} => ahead \in Buffers /\ guard[ahead] = "free"
    /\ apc = "next" => anext = link[ahead]

\* What a free relies on between its link store and its CAS.
FreeNotStale == \A b \in Buffers : guard[b] = "linked" => link[b] = seen[b]

\* The inductive invariant of the proofs.
IInv == TypeOK /\ StackIsFree /\ LinksSpellStack /\ PopNotStale /\ FreeNotStale

\* A pop never hands out a buffer some guard still owns.
NoDoubleAlloc ==
    [][\A b \in Buffers : guard'[b] = "held" /\ guard[b] # "held" => guard[b] = "free"]_vars

\* Exhausted is reported only for a pool that had no free buffer at the load,
\* never because of what a holder wrote in its buffer.
ExhaustedIsEmpty ==
    [][apc' = "exhausted" /\ apc # "exhausted" => stack = <<>>]_vars

\* The pop's retry loop ends: each retry is paid for by the free that moved
\* the head, and without pops there are only so many buffers to free.
PopReturns == apc # "idle" ~> apc = "idle"

=============================================================================
