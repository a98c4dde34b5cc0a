----------------------------- MODULE SpscGuards -----------------------------
(***************************************************************************)
(* The SPSC v0 and v2 rings.  Both hand out a WriteSlot and a ReadSlot     *)
(* guard; they differ in how a slot is handed over.                        *)
(*                                                                         *)
(*   - v0: the free-running producer_idx and consumer_idx decide.  Each    *)
(*     side reads the other's index, and one store publishes or frees.     *)
(*   - v2: the seq word at the front of the slot decides, as in SpscSeq,   *)
(*     and travels with the body; the indices are each side's own.         *)
(*                                                                         *)
(* `version` is chosen once.  A message is a record of two words, filled   *)
(* and read one after the other.  A load that fails and is retried changes *)
(* nothing and is a stuttering step.                                       *)
(***************************************************************************)
EXTENDS Integers, Sequences

CONSTANTS M,        \* capacity
          W,        \* the number of values of an index or seq word
          Msg,      \* messages: records [lo, hi]
          NoMsg     \* no message, a record [lo, hi] outside Msg

\* v0's MAX_CAPACITY is half the word's range, v2's a quarter.
ASSUME GeometryAssumption ==
    /\ M \in Nat \ {0} /\ W \in Nat
    /\ W > M + 1 /\ W % M = 0 /\ 2 * M <= W
    /\ NoMsg \notin Msg

VARIABLES
    version,                     \* "v0" or "v2"
    producer_idx, consumer_idx,
    slot,                        \* every slot: seq word (v2 only) and body
    ppc, wpos, cpc, rpos, got    \* the two guards, as in SpscSeq

writeVars == <<producer_idx, ppc, wpos>>
readVars  == <<consumer_idx, cpc, rpos, got>>
ringVars  == <<version, writeVars, readVars, slot>>

Slots   == 0 .. M - 1
Wrap(n) == n % W
Slot(n) == n % M

\* v2: the three values of a slot's seq word.
Claimable(p) == p
Committed(p) == Wrap(p + M + 1)
Released(p)  == Wrap(p + M)

\* v0's and v2's init.
RingInit ==
    /\ version \in {"v0", "v2"}
    /\ producer_idx = 0 /\ consumer_idx = 0
    /\ slot = [i \in Slots |-> [seq |-> IF version = "v2" THEN Claimable(i) ELSE 0,
                                body |-> NoMsg]]
    /\ ppc = "idle" /\ wpos = 0
    /\ cpc = "idle" /\ rpos = 0 /\ got = NoMsg

-----------------------------------------------------------------------------
(* The producer.                                                           *)

\* reserve_slot_with: the position is loaded once, before the retry loop.
ReserveWrite ==
    /\ ppc = "idle"
    /\ ppc' = "probing"
    /\ wpos' = producer_idx
    /\ UNCHANGED <<version, producer_idx, slot, readVars>>

\* Fault: one message too many.
HasRoomOneMore == Wrap(wpos - consumer_idx) <= M

\* v0: the consumer's index leaves room.
HasRoom == Wrap(wpos - consumer_idx) < M

\* v2: the slot's own word says it is free.
IsClaimable == slot[Slot(wpos)].seq = Claimable(wpos)

Free(v) == IF v = "v0" THEN HasRoom ELSE IsClaimable

\* The slot is free: the WriteSlot guard is made ...
WriteGuard ==
    /\ ppc = "probing" /\ Free(version)
    /\ ppc' = "filling"
    /\ UNCHANGED <<version, producer_idx, wpos, slot, readVars>>

\* ... or the policy gives up: Err(Full).
Full ==
    /\ ppc = "probing" /\ ~Free(version)
    /\ ppc' = "idle" /\ wpos' = 0
    /\ UNCHANGED <<version, producer_idx, slot, readVars>>

\* The reservation of each version.
reserve_write0 == version = "v0" /\ (ReserveWrite \/ WriteGuard \/ Full)
reserve_write2 == version = "v2" /\ (ReserveWrite \/ WriteGuard \/ Full)

\* The application writes the message through DerefMut, in two parts.
FillLo(m) ==
    /\ ppc = "filling"
    /\ slot' = [slot EXCEPT ![Slot(wpos)].body.lo = m.lo]
    /\ ppc' = "half"
    /\ UNCHANGED <<version, producer_idx, wpos, readVars>>

FillHi(m) ==
    /\ ppc = "half"
    /\ slot' = [slot EXCEPT ![Slot(wpos)].body.hi = m.hi]
    /\ ppc' = "filled"
    /\ UNCHANGED <<version, producer_idx, wpos, readVars>>

\* The guard is dropped without commit: nothing is published.
AbandonWrite ==
    /\ ppc \in {"filling", "half", "filled"}
    /\ ppc' = "idle" /\ wpos' = 0
    /\ UNCHANGED <<version, producer_idx, slot, readVars>>

\* v0's commit is the one store of producer_idx.
Commit0 ==
    /\ version = "v0" /\ ppc = "filled"
    /\ producer_idx' = Wrap(wpos + 1)
    /\ ppc' = "idle" /\ wpos' = 0
    /\ UNCHANGED <<version, slot, readVars>>

\* v2's commit stores producer_idx, which the consumer never reads ...
Commit2Idx ==
    /\ version = "v2" /\ ppc = "filled"
    /\ producer_idx' = Wrap(wpos + 1)
    /\ ppc' = "committing"
    /\ UNCHANGED <<version, wpos, slot, readVars>>

\* ... and then the seq word, which hands the slot over.
Commit2Seq ==
    /\ ppc = "committing"
    /\ slot' = [slot EXCEPT ![Slot(wpos)].seq = Committed(wpos)]
    /\ ppc' = "idle" /\ wpos' = 0
    /\ UNCHANGED <<version, producer_idx, readVars>>

-----------------------------------------------------------------------------
(* The consumer.                                                           *)

ReserveRead ==
    /\ cpc = "idle"
    /\ cpc' = "probing"
    /\ rpos' = consumer_idx
    /\ UNCHANGED <<version, consumer_idx, got, slot, writeVars>>

\* v0: the producer's index is past this position.
IsBehind == producer_idx # rpos

\* v2: the slot's own word says it is committed.
IsCommitted == slot[Slot(rpos)].seq = Committed(rpos)

Unread(v) == IF v = "v0" THEN IsBehind ELSE IsCommitted

\* The slot is unread: the ReadSlot guard is made ...
ReadGuard ==
    /\ cpc = "probing" /\ Unread(version)
    /\ cpc' = "reading"
    /\ UNCHANGED <<version, consumer_idx, rpos, got, slot, writeVars>>

\* ... or the policy gives up: Err(Empty).
Empty ==
    /\ cpc = "probing" /\ ~Unread(version)
    /\ cpc' = "idle" /\ rpos' = 0
    /\ UNCHANGED <<version, consumer_idx, got, slot, writeVars>>

\* The reservation of each version.
reserve_read0 == version = "v0" /\ (ReserveRead \/ ReadGuard \/ Empty)
reserve_read2 == version = "v2" /\ (ReserveRead \/ ReadGuard \/ Empty)

\* The application reads the message through Deref, in two parts.
ReadLo ==
    /\ cpc = "reading"
    /\ got' = [got EXCEPT !.lo = slot[Slot(rpos)].body.lo]
    /\ cpc' = "half"
    /\ UNCHANGED <<version, consumer_idx, rpos, slot, writeVars>>

ReadHi ==
    /\ cpc = "half"
    /\ got' = [got EXCEPT !.hi = slot[Slot(rpos)].body.hi]
    /\ cpc' = "read"
    /\ UNCHANGED <<version, consumer_idx, rpos, slot, writeVars>>

\* The guard is dropped without release: the slot is delivered again.
DropRead ==
    /\ cpc \in {"reading", "half", "read"}
    /\ cpc' = "idle" /\ rpos' = 0 /\ got' = NoMsg
    /\ UNCHANGED <<version, consumer_idx, slot, writeVars>>

\* v0's release is the one store of consumer_idx.
Release0 ==
    /\ version = "v0" /\ cpc = "read"
    /\ consumer_idx' = Wrap(rpos + 1)
    /\ cpc' = "idle" /\ rpos' = 0 /\ got' = NoMsg
    /\ UNCHANGED <<version, slot, writeVars>>

\* v2's release stores consumer_idx ...
Release2Idx ==
    /\ version = "v2" /\ cpc = "read"
    /\ consumer_idx' = Wrap(rpos + 1)
    /\ cpc' = "releasing"
    /\ UNCHANGED <<version, rpos, got, slot, writeVars>>

\* ... and then the seq word, which frees the slot.
Release2Seq ==
    /\ cpc = "releasing"
    /\ slot' = [slot EXCEPT ![Slot(rpos)].seq = Released(rpos)]
    /\ cpc' = "idle" /\ rpos' = 0 /\ got' = NoMsg
    /\ UNCHANGED <<version, consumer_idx, writeVars>>

-----------------------------------------------------------------------------
(* Derived state.                                                          *)

\* Positions published and not yet freed: between the two stores of a v2
\* commit or release the word, and not the index, says where the slot is.
ReadPos  == IF cpc = "releasing" THEN rpos ELSE consumer_idx
WritePos == IF ppc = "committing" THEN wpos ELSE producer_idx
Unfreed  == Wrap(WritePos - ReadPos)

Queued == [k \in 1 .. Unfreed |-> slot[Slot(ReadPos + k - 1)].body]

Channel == INSTANCE FifoChannel
               WITH queue <- Queued,
                    held <- IF cpc \in {"read", "releasing"} THEN got ELSE NoMsg,
                    Capacity <- M

\* Both rings are bounded FIFO channels.
ImplementsFifo == Channel!ChanSpec

=============================================================================
