------------------------------ MODULE MpscSeq ------------------------------
(***************************************************************************)
(* The MPSC v0 and v1 rings: a seq word per slot, as in SpscSeq, and       *)
(* producer_idx claimed by a compare-and-swap.  They differ in the value   *)
(* of a committed slot, and in how a producer reads a slot it cannot       *)
(* claim.  A producer that has claimed a position fills the                *)
(* slot and then commits it; if its fill panics, the unwind commits a      *)
(* tombstone instead, which the consumer releases without delivering.      *)
(*                                                                         *)
(* The index a producer loaded may be stale when it loads the slot's word, *)
(* and the word stale when it tries the swap.  W is 2^32 in the code.      *)
(***************************************************************************)
EXTENDS Integers, Sequences

CONSTANTS M, W, Msg, NoMsg,
          Producers,       \* MpscProducer handles in use, one call each
          Versions,        \* the versions to start from, among "v0" and "v1"
          Open, Dead       \* the places of ClaimQueue that hold no message

\* MPSC_MAX_CAPACITY is a quarter of the word's range; v0 refuses capacity 1.
ASSUME GeometryAssumption ==
    /\ M \in Nat \ {0} /\ W \in Nat
    /\ Versions \subseteq {"v0", "v1"} /\ ("v0" \in Versions => M >= 2)
    /\ W % M = 0 /\ W % 2 = 0 /\ 4 * M <= W /\ W > 4

VARIABLES
    version,                 \* of the ring: chosen once
    producer_idx, consumer_idx, seq, buf,
    pc, pos, msg,            \* every producer: where it is, position, message
    cpc, rpos, got           \* the consumer, as in SpscSeq

consVars == <<version, consumer_idx, cpc, rpos, got>>
vars == <<version, producer_idx, consumer_idx, seq, buf, pc, pos, msg, cpc, rpos, got>>

Slots == 0 .. M - 1
Half  == Msg \cup {NoMsg}
Pair  == [lo : Half, hi : Half]

Wrap(n) == n % W
Slot(n) == n % M

TOMBSTONE     == W \div 2
Claimable(p)  == p
Committed0(p) == Wrap(p + 1)
Committed1(p) == Wrap(p + M + 1)
Committed(p)  == IF version = "v0" THEN Committed0(p) ELSE Committed1(p)
Tombstoned(p) == Wrap(Committed(p) + TOMBSTONE)
Released(p)   == Wrap(p + M)

Empty == [lo |-> NoMsg, hi |-> NoMsg]

Init ==
    /\ version \in Versions
    /\ producer_idx = 0 /\ consumer_idx = 0
    /\ seq = [i \in Slots |-> Claimable(i)]
    /\ buf = [i \in Slots |-> Empty]
    /\ pc = [p \in Producers |-> "idle"]
    /\ pos = [p \in Producers |-> 0]
    /\ msg = [p \in Producers |-> NoMsg]
    /\ cpc = "idle" /\ rpos = 0 /\ got = Empty

Goto(p, l) == pc' = [pc EXCEPT ![p] = l]

\* send_with returns: its locals go out of scope.
Return(p) ==
    /\ Goto(p, "idle")
    /\ pos' = [pos EXCEPT ![p] = 0]
    /\ msg' = [msg EXCEPT ![p] = NoMsg]

-----------------------------------------------------------------------------
(* MpscProducer::send_with.                                                *)

Send(p) ==
    /\ pc[p] = "idle"
    /\ Goto(p, "probe")
    /\ pos' = [pos EXCEPT ![p] = producer_idx]
    /\ UNCHANGED <<producer_idx, seq, buf, msg, consVars>>

\* v1: load the slot's word and compare it with the position.
Probe(p) ==
    /\ version = "v1" /\ pc[p] = "probe"
    /\ Goto(p, IF seq[Slot(pos[p])] = Claimable(pos[p]) THEN "claim" ELSE "reread")
    /\ UNCHANGED <<producer_idx, seq, buf, pos, msg, consVars>>

\* v0: the signed distance of the word from the position decides, between a
\* free slot, one not yet released, and a position another producer claimed.
Probe0(p) ==
    LET diff == Wrap(seq[Slot(pos[p])] - pos[p]) IN
    /\ version = "v0" /\ pc[p] = "probe"
    /\ Goto(p, IF diff = 0 THEN "claim" ELSE IF diff >= W \div 2 THEN "reread" ELSE "stale")
    /\ UNCHANGED <<producer_idx, seq, buf, pos, msg, consVars>>

\* v0: load the index again, and do not ask the policy.
Stale(p) ==
    /\ pc[p] = "stale"
    /\ pos' = [pos EXCEPT ![p] = producer_idx]
    /\ Goto(p, "probe")
    /\ UNCHANGED <<producer_idx, seq, buf, msg, consVars>>

\* No producer is stopped between its load of a slot's word and its next access
\* to the index while the others claim every position there is: 2^32 of them.
NoWholeWrap ==
    \A q \in Producers :
        pc[q] \in {"claim", "reread", "stale"} => pos[q] # Wrap(producer_idx + 1)

\* The compare-and-swap succeeds: the position is this producer's.
Claim(p) ==
    /\ pc[p] = "claim"
    /\ producer_idx = pos[p]
    /\ NoWholeWrap
    /\ producer_idx' = Wrap(pos[p] + 1)
    /\ Goto(p, "fill")
    /\ UNCHANGED <<seq, buf, pos, msg, consVars>>

\* It fails, because the index moved or spuriously (a weak CAS).
LoseClaim(p) ==
    /\ pc[p] = "claim"
    /\ pos' = [pos EXCEPT ![p] = producer_idx]
    /\ Goto(p, "probe")
    /\ UNCHANGED <<producer_idx, seq, buf, msg, consVars>>

\* Fault: the fresher index is not kept.
BehindStale(p) ==
    /\ pc[p] = "reread"
    /\ producer_idx # pos[p]
    /\ Goto(p, "probe")
    /\ UNCHANGED <<producer_idx, seq, buf, pos, msg, consVars>>

\* Not claimable: if the index moved, another producer claimed the position ...
Behind(p) ==
    /\ pc[p] = "reread"
    /\ producer_idx # pos[p]
    /\ pos' = [pos EXCEPT ![p] = producer_idx]
    /\ Goto(p, "probe")
    /\ UNCHANGED <<producer_idx, seq, buf, msg, consVars>>

\* ... if not, the ring is full: on_full retries or gives up with Err(Full).
Full(p) ==
    /\ pc[p] = "reread"
    /\ producer_idx = pos[p]
    /\ \/ Goto(p, "probe") /\ UNCHANGED <<pos, msg>>
       \/ Return(p)
    /\ UNCHANGED <<producer_idx, seq, buf, consVars>>

\* The fill closure writes the message, in two parts.
FillLo(p) ==
    /\ pc[p] = "fill"
    /\ \E m \in Msg : /\ msg' = [msg EXCEPT ![p] = m]
                      /\ buf' = [buf EXCEPT ![Slot(pos[p])].lo = m]
    /\ Goto(p, "half")
    /\ UNCHANGED <<producer_idx, seq, pos, consVars>>

FillHi(p) ==
    /\ pc[p] = "half"
    /\ buf' = [buf EXCEPT ![Slot(pos[p])].hi = msg[p]]
    /\ Goto(p, "filled")
    /\ UNCHANGED <<producer_idx, seq, pos, msg, consVars>>

\* The closure returned: disarm the guard and publish.
Commit(p) ==
    /\ pc[p] = "filled"
    /\ seq' = [seq EXCEPT ![Slot(pos[p])] = Committed(pos[p])]
    /\ Return(p)
    /\ UNCHANGED <<producer_idx, buf, consVars>>

\* Fault: the claim is abandoned.
UnwindSilent(p) ==
    /\ pc[p] \in {"fill", "half", "filled"}
    /\ Return(p)
    /\ UNCHANGED <<producer_idx, seq, buf, consVars>>

\* The closure panicked: TombstoneOnUnwind publishes the marked commit.
Unwind(p) ==
    /\ pc[p] \in {"fill", "half", "filled"}
    /\ seq' = [seq EXCEPT ![Slot(pos[p])] = Tombstoned(pos[p])]
    /\ Return(p)
    /\ UNCHANGED <<producer_idx, buf, consVars>>

-----------------------------------------------------------------------------
(* MpscConsumer::reserve_slot_with and MpscReadSlot::release.              *)

ReserveRead ==
    /\ cpc = "idle"
    /\ cpc' = "probing"
    /\ rpos' = consumer_idx
    /\ UNCHANGED <<version, producer_idx, consumer_idx, seq, buf, pc, pos, msg, got>>

\* Fault: the guard is made without looking at the slot.
ReadGuardUnchecked ==
    /\ cpc = "probing"
    /\ cpc' = "reading"
    /\ UNCHANGED <<version, producer_idx, consumer_idx, seq, buf, pc, pos, msg, rpos, got>>

ReadGuard ==
    /\ cpc = "probing"
    /\ seq[Slot(rpos)] = Committed(rpos)
    /\ cpc' = "reading"
    /\ UNCHANGED <<version, producer_idx, consumer_idx, seq, buf, pc, pos, msg, rpos, got>>

\* An unwound producer's slot: move the index on ...
SkipIdx ==
    /\ cpc = "probing"
    /\ seq[Slot(rpos)] = Tombstoned(rpos)
    /\ consumer_idx' = Wrap(rpos + 1)
    /\ cpc' = "skipping"
    /\ UNCHANGED <<version, producer_idx, seq, buf, pc, pos, msg, rpos, got>>

\* Fault: the skipped slot is not released.
SkipSeqKeeps ==
    /\ cpc = "skipping"
    /\ rpos' = Wrap(rpos + 1)
    /\ cpc' = "probing"
    /\ UNCHANGED <<version, producer_idx, consumer_idx, seq, buf, pc, pos, msg, got>>

\* ... release it and look at the next position, without asking the policy.
SkipSeq ==
    /\ cpc = "skipping"
    /\ seq' = [seq EXCEPT ![Slot(rpos)] = Released(rpos)]
    /\ rpos' = Wrap(rpos + 1)
    /\ cpc' = "probing"
    /\ UNCHANGED <<version, producer_idx, consumer_idx, buf, pc, pos, msg, got>>

NoMessage ==
    /\ cpc = "probing"
    /\ seq[Slot(rpos)] \notin {Committed(rpos), Tombstoned(rpos)}
    /\ cpc' = "idle" /\ rpos' = 0
    /\ UNCHANGED <<version, producer_idx, consumer_idx, seq, buf, pc, pos, msg, got>>

ReadLo ==
    /\ cpc = "reading"
    /\ got' = [got EXCEPT !.lo = buf[Slot(rpos)].lo]
    /\ cpc' = "half"
    /\ UNCHANGED <<version, producer_idx, consumer_idx, seq, buf, pc, pos, msg, rpos>>

ReadHi ==
    /\ cpc = "half"
    /\ got' = [got EXCEPT !.hi = buf[Slot(rpos)].hi]
    /\ cpc' = "read"
    /\ UNCHANGED <<version, producer_idx, consumer_idx, seq, buf, pc, pos, msg, rpos>>

\* Reading touches nothing shared: a guard dropped earlier makes no difference.
DropRead ==
    /\ cpc = "read"
    /\ cpc' = "idle" /\ rpos' = 0 /\ got' = Empty
    /\ UNCHANGED <<version, producer_idx, consumer_idx, seq, buf, pc, pos, msg>>

ReleaseIdx ==
    /\ cpc = "read"
    /\ consumer_idx' = Wrap(rpos + 1)
    /\ cpc' = "releasing"
    /\ UNCHANGED <<version, producer_idx, seq, buf, pc, pos, msg, rpos, got>>

ReleaseSeq ==
    /\ cpc = "releasing"
    /\ seq' = [seq EXCEPT ![Slot(rpos)] = Released(rpos)]
    /\ cpc' = "idle" /\ rpos' = 0 /\ got' = Empty
    /\ UNCHANGED <<version, producer_idx, consumer_idx, buf, pc, pos, msg>>

-----------------------------------------------------------------------------
SendSteps(p) ==
    \/ Send(p) \/ Claim(p) \/ LoseClaim(p) \/ Behind(p) \/ Full(p)
    \/ FillLo(p) \/ FillHi(p) \/ Commit(p) \/ Unwind(p)

\* The send of each version.
send_with0(p) == version = "v0" /\ (SendSteps(p) \/ Probe0(p) \/ Stale(p))
send_with1(p) == version = "v1" /\ (SendSteps(p) \/ Probe(p))

ProducerNext(p) == send_with0(p) \/ send_with1(p)

ReserveSteps == ReserveRead \/ ReadGuard \/ SkipIdx \/ SkipSeq \/ NoMessage

\* The reservation and the release of each version.
reserve_slot_with0 == version = "v0" /\ ReserveSteps
reserve_slot_with1 == version = "v1" /\ ReserveSteps
release0 == version = "v0" /\ (ReleaseIdx \/ ReleaseSeq)
release1 == version = "v1" /\ (ReleaseIdx \/ ReleaseSeq)

ConsumerNext ==
    \/ reserve_slot_with0 \/ reserve_slot_with1
    \/ ReadLo \/ ReadHi \/ DropRead \/ release0 \/ release1

Next == ConsumerNext \/ \E p \in Producers : ProducerNext(p)

Spec == Init /\ [][Next]_vars

\* A thread inside send_with goes on to its end and a weak CAS does not fail
\* for ever; no producer is obliged to start a send or to retry a full ring.
\* The consumer keeps polling, and does not drop its guard for ever.
Fairness ==
    /\ \A p \in Producers :
         /\ WF_vars(ProducerNext(p) /\ ~Send(p))
         /\ SF_vars(Claim(p))
    /\ WF_vars(ConsumerNext)
    /\ SF_vars(ReleaseIdx)

FairSpec == Spec /\ Fairness

-----------------------------------------------------------------------------
(* Derived state.                                                          *)

ReadPos == IF cpc \in {"releasing", "skipping"} THEN rpos ELSE consumer_idx

\* Positions claimed and not yet released.
Claimed == Wrap(producer_idx - ReadPos)

Filling(p) == pc[p] \in {"fill", "half", "filled"}

-----------------------------------------------------------------------------
(* Properties.                                                             *)

\* The seq words agree with the two indices: a claimed position is committed,
\* tombstoned, or still claimable with exactly one producer filling it, and a
\* position not yet claimed is claimable in the lap it will be reached in.
SeqAgrees ==
    /\ Claimed <= M
    /\ \A k \in 0 .. M - 1 :
         LET n == Wrap(ReadPos + k)
             fillers == {p \in Producers : Filling(p) /\ pos[p] = n}
         IN  IF k < Claimed
             THEN \/ seq[Slot(n)] \in {Committed(n), Tombstoned(n)} /\ fillers = {}
                  \/ seq[Slot(n)] = Claimable(n) /\ \E p \in Producers : fillers = {p}
             ELSE seq[Slot(n)] = Claimable(n) /\ fillers = {}

\* Full is reported of a ring that was full when its slot's word was loaded,
\* although the index is only re-read afterwards.
FullWasFull ==
    [][\A p \in Producers :
         (Probe(p) \/ Probe0(p)) /\ pc'[p] = "reread" /\ producer_idx = pos[p]
             => Claimed = M]_vars

Place(k) ==
    LET n == Wrap(ReadPos + k - 1) IN
    IF seq[Slot(n)] = Committed(n) THEN buf[Slot(n)].lo
    ELSE IF seq[Slot(n)] = Tombstoned(n) THEN Dead ELSE Open

Places == [k \in 1 .. Claimed |-> Place(k)]
Held   == IF cpc \in {"read", "releasing"} THEN got.lo ELSE NoMsg

Queue == INSTANCE ClaimQueue WITH queue <- Places, held <- Held, Capacity <- M

\* The ring delivers in claim order, however the fills finish.
ImplementsClaimQueue == Queue!QueueSpec

\* Claiming is lock-free: while some producer is in its retry loop, though not
\* always the same one, positions go on being claimed.
LockFree ==
    <>[](\E p \in Producers : pc[p] \in {"probe", "claim", "reread", "stale"}) =>
        []<><<\E p \in Producers : Claim(p)>>_vars

=============================================================================
