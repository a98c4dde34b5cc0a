------------------------------ MODULE SpscSeq ------------------------------
(***************************************************************************)
(* The SPSC v1 ring: one seq word per slot decides who owns the slot.  The *)
(* word of the slot at position n is n while the slot is claimable,        *)
(* n + M + 1 once committed and n + M once released, all modulo the word's *)
(* range W (2^32 in the code).  producer_idx and consumer_idx are each     *)
(* side's own resume state and are never read by the other side.           *)
(*                                                                         *)
(* A message is two halves, so that a fill or an in-place read is not      *)
(* atomic and a torn message can be seen.  Every atomic load or store of   *)
(* the code is a step of its own, except that a load that fails and is     *)
(* retried changes nothing and is a stuttering step.                       *)
(***************************************************************************)
EXTENDS Integers, Sequences

CONSTANTS M,      \* capacity: the number of slots
          W,      \* the number of values of a seq or index word
          Msg,    \* messages
          NoMsg   \* a half that holds no message

\* validate_geometry: the capacity is a power of two (1 included) no larger
\* than a quarter of the word's range, so it divides the range and the three
\* values of a slot's word differ.
ASSUME GeometryAssumption ==
    /\ M \in Nat \ {0}
    /\ W \in Nat
    /\ W > M + 1
    /\ W % M = 0

ASSUME MsgAssumption == NoMsg \notin Msg

VARIABLES
    producer_idx, consumer_idx,  \* the header's two index words
    seq,                         \* the seq word of every slot
    buf,                         \* the bytes of every slot: two halves
    ppc, wpos, wmsg,             \* the producer: where it is, guard position, message
    cpc, rpos, got               \* the consumer: where it is, guard position, halves read

prodVars == <<producer_idx, ppc, wpos, wmsg>>
consVars == <<consumer_idx, cpc, rpos, got>>
vars == <<producer_idx, consumer_idx, seq, buf, ppc, wpos, wmsg, cpc, rpos, got>>

Slots == 0 .. M - 1
Words == 0 .. W - 1
Half  == Msg \cup {NoMsg}
Pair  == [lo : Half, hi : Half]

\* Wrapping u32 arithmetic and the slot a position falls in (idx & mask).
Wrap(n) == n % W
Slot(n) == n % M

ReleasedEarly(p)      == Wrap(p + M - 1)

\* The three values of the seq word of the slot at position p.
Claimable(p) == p
Committed(p) == Wrap(p + M + 1)
Released(p)  == Wrap(p + M)

Empty == [lo |-> NoMsg, hi |-> NoMsg]

Init ==
    /\ producer_idx = 0
    /\ consumer_idx = 0
    /\ seq = [i \in Slots |-> Claimable(i)]
    /\ buf = [i \in Slots |-> Empty]
    /\ ppc = "idle" /\ wpos = 0 /\ wmsg = NoMsg
    /\ cpc = "idle" /\ rpos = 0 /\ got = Empty

-----------------------------------------------------------------------------
(* The producer.                                                           *)

\* reserve_slot_with: the position is loaded once, before the retry loop.
ReserveWrite ==
    /\ ppc = "idle"
    /\ ppc' = "probing"
    /\ wpos' = producer_idx
    /\ UNCHANGED <<producer_idx, wmsg, seq, buf, consVars>>

\* Fault: the guard is made without looking at the slot.
WriteGuardUnchecked ==
    /\ ppc = "probing"
    /\ ppc' = "filling"
    /\ UNCHANGED <<producer_idx, wpos, wmsg, seq, buf, consVars>>

\* The slot is free: the WriteSlot guard is made.
WriteGuard ==
    /\ ppc = "probing"
    /\ seq[Slot(wpos)] = Claimable(wpos)
    /\ ppc' = "filling"
    /\ UNCHANGED <<producer_idx, wpos, wmsg, seq, buf, consVars>>

\* The slot is not free and the wait policy gives up: Err(Full).
Full ==
    /\ ppc = "probing"
    /\ seq[Slot(wpos)] # Claimable(wpos)
    /\ ppc' = "idle"
    /\ UNCHANGED <<producer_idx, wpos, wmsg, seq, buf, consVars>>

\* The application writes the message through DerefMut, in two parts.
FillLo ==
    /\ ppc = "filling"
    /\ \E m \in Msg : /\ wmsg' = m
                      /\ buf' = [buf EXCEPT ![Slot(wpos)].lo = m]
    /\ ppc' = "half"
    /\ UNCHANGED <<producer_idx, wpos, seq, consVars>>

FillHi ==
    /\ ppc = "half"
    /\ buf' = [buf EXCEPT ![Slot(wpos)].hi = wmsg]
    /\ ppc' = "filled"
    /\ UNCHANGED <<producer_idx, wpos, wmsg, seq, consVars>>

\* The guard is dropped without commit: the reservation is abandoned.
AbandonWrite ==
    /\ ppc \in {"filling", "half", "filled"}
    /\ ppc' = "idle"
    /\ UNCHANGED <<producer_idx, wpos, wmsg, seq, buf, consVars>>

\* commit: producer_idx first ...
CommitIdx ==
    /\ ppc = "filled"
    /\ producer_idx' = Wrap(wpos + 1)
    /\ ppc' = "committing"
    /\ UNCHANGED <<wpos, wmsg, seq, buf, consVars>>

\* ... and the seq word last, which hands the slot over.
CommitSeq ==
    /\ ppc = "committing"
    /\ seq' = [seq EXCEPT ![Slot(wpos)] = Committed(wpos)]
    /\ ppc' = "idle"
    /\ UNCHANGED <<producer_idx, wpos, wmsg, buf, consVars>>

-----------------------------------------------------------------------------
(* The consumer.                                                           *)

ReserveRead ==
    /\ cpc = "idle"
    /\ cpc' = "probing"
    /\ rpos' = consumer_idx
    /\ UNCHANGED <<consumer_idx, got, seq, buf, prodVars>>

\* Fault: the guard is made without looking at the slot.
ReadGuardUnchecked ==
    /\ cpc = "probing"
    /\ cpc' = "reading"
    /\ UNCHANGED <<consumer_idx, rpos, got, seq, buf, prodVars>>

\* The slot is committed: the ReadSlot guard is made.
ReadGuard ==
    /\ cpc = "probing"
    /\ seq[Slot(rpos)] = Committed(rpos)
    /\ cpc' = "reading"
    /\ UNCHANGED <<consumer_idx, rpos, got, seq, buf, prodVars>>

\* The slot is not committed and the wait policy gives up: Err(Empty).
NoMessage ==
    /\ cpc = "probing"
    /\ seq[Slot(rpos)] # Committed(rpos)
    /\ cpc' = "idle"
    /\ UNCHANGED <<consumer_idx, rpos, got, seq, buf, prodVars>>

\* The application reads the message through Deref, in two parts.
ReadLo ==
    /\ cpc = "reading"
    /\ got' = [got EXCEPT !.lo = buf[Slot(rpos)].lo]
    /\ cpc' = "half"
    /\ UNCHANGED <<consumer_idx, rpos, seq, buf, prodVars>>

ReadHi ==
    /\ cpc = "half"
    /\ got' = [got EXCEPT !.hi = buf[Slot(rpos)].hi]
    /\ cpc' = "read"
    /\ UNCHANGED <<consumer_idx, rpos, seq, buf, prodVars>>

\* The guard is dropped without release: the slot is delivered again.
DropRead ==
    /\ cpc \in {"reading", "half", "read"}
    /\ cpc' = "idle"
    /\ got' = Empty
    /\ UNCHANGED <<consumer_idx, rpos, seq, buf, prodVars>>

\* Fault: the index store is missing.
ReleaseIdxForgotten ==
    /\ cpc = "read"
    /\ cpc' = "releasing"
    /\ UNCHANGED <<consumer_idx, rpos, got, seq, buf, prodVars>>

\* release: consumer_idx first ...
ReleaseIdx ==
    /\ cpc = "read"
    /\ consumer_idx' = Wrap(rpos + 1)
    /\ cpc' = "releasing"
    /\ UNCHANGED <<rpos, got, seq, buf, prodVars>>

\* ... and the seq word last, which frees the slot.
ReleaseSeq ==
    /\ cpc = "releasing"
    /\ seq' = [seq EXCEPT ![Slot(rpos)] = Released(rpos)]
    /\ cpc' = "idle"
    /\ got' = Empty
    /\ UNCHANGED <<consumer_idx, rpos, buf, prodVars>>

-----------------------------------------------------------------------------
ProducerNext ==
    \/ ReserveWrite \/ WriteGuard \/ Full \/ FillLo \/ FillHi
    \/ AbandonWrite \/ CommitIdx \/ CommitSeq

ConsumerNext ==
    \/ ReserveRead \/ ReadGuard \/ NoMessage \/ ReadLo \/ ReadHi
    \/ DropRead \/ ReleaseIdx \/ ReleaseSeq

Next == ProducerNext \/ ConsumerNext

Spec == Init /\ [][Next]_vars

\* The application completes what it began, polls again after Empty, does not
\* drop its read guard for ever, and waits rather than give up when full.
Fairness ==
    /\ WF_vars(WriteGuard)
    /\ WF_vars(ReserveRead) /\ WF_vars(ReadGuard)
    /\ SF_vars(ReadLo) /\ SF_vars(ReadHi)
    /\ SF_vars(ReleaseIdx) /\ WF_vars(ReleaseSeq)

FairSpec == Spec /\ Fairness

-----------------------------------------------------------------------------
(* Derived state.                                                          *)

\* A side that has stored its index and not yet the seq word has not handed
\* its slot over: the protocol position is still the guard's.
WritePos == IF ppc = "committing" THEN wpos ELSE producer_idx
ReadPos  == IF cpc = "releasing" THEN rpos ELSE consumer_idx

\* Messages committed and not yet released.
Count == Wrap(WritePos - ReadPos)

Writing == ppc \in {"filling", "half", "filled", "committing"}
Reading == cpc \in {"reading", "half", "read", "releasing"}

-----------------------------------------------------------------------------
(* Properties.                                                             *)

\* Words are usize: everything stays below the wrap.
TypeOK ==
    /\ producer_idx \in Words /\ consumer_idx \in Words
    /\ seq \in [Slots -> Words]
    /\ buf \in [Slots -> Pair]
    /\ ppc \in {"idle", "probing", "filling", "half", "filled", "committing"}
    /\ wpos \in Words /\ wmsg \in Half
    /\ cpc \in {"idle", "probing", "reading", "half", "read", "releasing"}
    /\ rpos \in Words /\ got \in Pair

\* The seq words agree with the two private indices although neither side
\* reads the other's: from the read position on, the first Count slots are
\* committed and every other slot is claimable for the position the producer
\* will reach it at.  (commit, release, and both reserve_slot_with.)
SeqAgrees ==
    /\ Count <= M
    /\ \A k \in 0 .. M - 1 :
         seq[Slot(ReadPos + k)] = IF k < Count THEN Committed(ReadPos + k)
                                               ELSE Wrap(ReadPos + k)

\* A write guard and a read guard never cover the same slot, so the `&mut T`
\* of the one and the `&T` of the other never alias.
SlotExclusive == Writing /\ Reading => Slot(wpos) # Slot(rpos)

\* A message read in place through a guard is one message, not two halves of
\* different ones, and was written since the slot was last released.
NoTornRead ==
    cpc \in {"read", "releasing"} => got.lo = got.hi /\ got.lo \in Msg

\* What the guards rely on between their two index and seq stores: a guard's
\* position is its side's protocol position, a write guard exists only while
\* a slot is free and a read guard only while a message waits.
GuardsAgree ==
    /\ ppc \in {"probing", "filling", "half", "filled"} => wpos = producer_idx
    /\ ppc = "committing" => producer_idx = Wrap(wpos + 1)
    /\ Writing => Count < M
    /\ cpc \in {"probing", "reading", "half", "read"} => rpos = consumer_idx
    /\ cpc = "releasing" => consumer_idx = Wrap(rpos + 1)
    /\ Reading => Count > 0

\* Every committed slot holds one whole message, a guard being filled holds
\* what its fill has written so far, and a reader has read what is there.
BytesIntact ==
    /\ \A k \in 0 .. M - 1 :
         k < Count => /\ buf[Slot(ReadPos + k)].lo = buf[Slot(ReadPos + k)].hi
                      /\ buf[Slot(ReadPos + k)].lo \in Msg
    /\ ppc \in {"half", "filled", "committing"} =>
         /\ wmsg \in Msg
         /\ buf[Slot(wpos)].lo = wmsg
    /\ ppc \in {"filled", "committing"} => buf[Slot(wpos)].hi = wmsg
    /\ cpc \in {"half", "read", "releasing"} => got.lo = buf[Slot(rpos)].lo
    /\ cpc \in {"read", "releasing"} => got.hi = buf[Slot(rpos)].hi

\* The inductive invariant of the proofs.
IInv == TypeOK /\ SeqAgrees /\ GuardsAgree /\ BytesIntact

Pending == [k \in 1 .. Count |-> buf[Slot(ReadPos + k - 1)].lo]

Chan == INSTANCE FifoChannel
            WITH queue <- Pending,
                 held <- IF cpc \in {"read", "releasing"} THEN got.lo ELSE NoMsg,
                 Capacity <- M

\* The ring is a bounded FIFO channel: the slots between the two positions
\* are the queue, and a completed in-place read is the held message.
ImplementsFifo == Chan!ChanSpec

\* Neither side is stuck: while messages wait, the consumer that keeps polling
\* goes on releasing them, and a producer that keeps asking for a slot, by
\* waiting in one call or by calling again after Full, goes on getting them.
Drains ==
    /\ <>[](Count > 0) => []<><<ReleaseSeq>>_vars
    /\ []<>(ppc = "probing") => []<><<WriteGuard>>_vars

=============================================================================
