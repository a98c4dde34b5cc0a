--------------------------- MODULE SpscSegments ----------------------------
(***************************************************************************)
(* The SPSC v3 ring, the crate's default: a ring of up to 32 segments of M *)
(* slots.  A slot's word is v2's seq value in its low bits; the last       *)
(* message a producer commits in a segment also carries MOVED and the      *)
(* segment it goes on in.  The producer moves when the next slot of its    *)
(* segment is still unread and a segment is free; the consumer follows the *)
(* MOVED word and gives the segment it leaves back.  A segment is free     *)
(* when the producer's `taken` bit and the consumer's `given` bit agree.   *)
(*                                                                         *)
(* Positions are kept modulo the seq range W (2^SEQ_BITS): the code uses a *)
(* position only through seq_of and the slot mask.  Bit masks over the     *)
(* segments are sets of segments.  `chain` is a history variable, read by  *)
(* no action.                                                              *)
(***************************************************************************)
EXTENDS Integers, Sequences, FiniteSetsExt

CONSTANTS M,          \* seg_capacity: slots per segment
          W,          \* the number of seq values
          seg_count,  \* segments in the ring
          Msg, NoMsg,
          NoSeg       \* a word without MOVED

ASSUME GeometryAssumption ==
    /\ M \in Nat \ {0} /\ seg_count \in Nat \ {0}
    /\ W \in Nat /\ W > M + 1 /\ W % M = 0
    /\ NoMsg \notin Msg
    /\ NoSeg \notin 0 .. seg_count - 1

Segs  == 0 .. seg_count - 1
Slots == 0 .. M - 1
Seqs  == 0 .. W - 1

VARIABLES
    word, buf,         \* every slot's word and its message bytes, per segment
    given,             \* the give-back word in segment 0's header
    \* ProducerState and its WriteSlot guard
    ppc, pcur, ppos, presume, taken, claimable, wmsg,
    wat, wword,        \* the slot a commit publishes and the word it will store
    \* ConsumerState and its ReadSlot guard
    cpc, ccur, cpos, cresume, cgiven, rword, got,
    switchLead,        \* producer switches less consumer switches
    chain              \* history: committed, unreleased slots, oldest first

prodVars == <<ppc, pcur, ppos, presume, taken, claimable, wmsg, wat, wword>>
consVars == <<cpc, ccur, cpos, cresume, cgiven, rword, got>>
vars == <<word, buf, given, prodVars, consVars, switchLead, chain>>

seq_of(n) == n % W
Slot(n)   == n % M

Plain(n)     == [seq |-> seq_of(n), moved |-> NoSeg]
Claimable(p) == Plain(p)
Committed(p) == Plain(p + M + 1)
Released(p)  == Plain(p + M)

EmptyPair == [lo |-> NoMsg, hi |-> NoMsg]
Flip(mask, s) == SymDiff(mask, {s})

Init ==
    /\ word = [s \in Segs |-> [i \in Slots |-> Claimable(i)]]
    /\ buf = [s \in Segs |-> [i \in Slots |-> EmptyPair]]
    /\ given = {}
    /\ ppc = "idle" /\ pcur = 0 /\ ppos = 0 /\ presume = [s \in Segs |-> 0]
    /\ taken = {0} /\ claimable = FALSE /\ wmsg = NoMsg
    /\ wat = [seg |-> 0, pos |-> 0] /\ wword = Plain(0)
    /\ cpc = "idle" /\ ccur = 0 /\ cpos = 0 /\ cresume = [s \in Segs |-> 0]
    /\ cgiven = {} /\ rword = Plain(0) /\ got = EmptyPair
    /\ switchLead = 0
    /\ chain = <<>>

-----------------------------------------------------------------------------
(* Producer::reserve_slot_with and the fill.                               *)

\* A slot the last commit already saw claimable is not loaded again.
ReserveWrite ==
    /\ ppc = "idle"
    /\ ppc' = IF claimable THEN "filling" ELSE "probing"
    /\ UNCHANGED <<word, buf, given, pcur, ppos, presume, taken, claimable, wmsg,
                   wat, wword, consVars, switchLead, chain>>

\* Fault: the guard is made without looking at the slot.
WriteGuardUnchecked ==
    /\ ppc = "probing"
    /\ claimable' = TRUE
    /\ ppc' = "filling"
    /\ UNCHANGED <<word, buf, given, pcur, ppos, presume, taken, wmsg, wat, wword,
                   consVars, switchLead, chain>>

WriteGuard ==
    /\ ppc = "probing"
    /\ word[pcur][Slot(ppos)] = Claimable(ppos)
    /\ claimable' = TRUE
    /\ ppc' = "filling"
    /\ UNCHANGED <<word, buf, given, pcur, ppos, presume, taken, wmsg, wat, wword,
                   consVars, switchLead, chain>>

\* The wait policy gives up: Err(Full).
Full ==
    /\ ppc = "probing"
    /\ word[pcur][Slot(ppos)] # Claimable(ppos)
    /\ ppc' = "idle"
    /\ UNCHANGED <<word, buf, given, pcur, ppos, presume, taken, claimable, wmsg,
                   wat, wword, consVars, switchLead, chain>>

FillLo ==
    /\ ppc = "filling"
    /\ \E m \in Msg : /\ wmsg' = m
                      /\ buf' = [buf EXCEPT ![pcur][Slot(ppos)].lo = m]
    /\ ppc' = "half"
    /\ UNCHANGED <<word, given, pcur, ppos, presume, taken, claimable, wat, wword,
                   consVars, switchLead, chain>>

FillHi ==
    /\ ppc = "half"
    /\ buf' = [buf EXCEPT ![pcur][Slot(ppos)].hi = wmsg]
    /\ ppc' = "filled"
    /\ UNCHANGED <<word, given, pcur, ppos, presume, taken, claimable, wmsg, wat,
                   wword, consVars, switchLead, chain>>

\* The guard is dropped: the slot stays claimable and reserved for the next.
AbandonWrite ==
    /\ ppc \in {"filling", "half", "filled"}
    /\ ppc' = "idle"
    /\ UNCHANGED <<word, buf, given, pcur, ppos, presume, taken, claimable, wmsg,
                   wat, wword, consVars, switchLead, chain>>

-----------------------------------------------------------------------------
(* WriteSlot::commit: look ahead, maybe take a segment, publish.           *)

\* Load the next slot's word.
CommitLook ==
    /\ ppc = "filled"
    /\ wat' = [seg |-> pcur, pos |-> ppos]
    /\ wword' = Committed(ppos)
    /\ claimable' = (word[pcur][Slot(ppos + 1)] = Claimable(ppos + 1))
    /\ ppos' = seq_of(ppos + 1)
    /\ ppc' = IF claimable' THEN "publish" ELSE "switch"
    /\ UNCHANGED <<word, buf, given, pcur, presume, taken, wmsg, consVars,
                   switchLead, chain>>

\* The segment is about to be full: load the give-back word, and go on in the
\* lowest free segment where it was left ...
FreeSegs == Segs \ SymDiff(taken, given)

CommitSwitch ==
    /\ ppc = "switch"
    /\ FreeSegs # {}
    /\ LET k == CHOOSE s \in FreeSegs : \A t \in FreeSegs : s <= t IN
         /\ taken' = Flip(taken, k)
         /\ wword' = [wword EXCEPT !.moved = k]
         /\ presume' = [presume EXCEPT ![pcur] = ppos]
         /\ pcur' = k
         /\ ppos' = presume'[k]
    /\ switchLead' = switchLead + 1
    /\ ppc' = "publish"
    /\ UNCHANGED <<word, buf, given, claimable, wmsg, wat, consVars, chain>>

\* Fault: the flag is left set although the next slot is unread.
CommitStayClaims ==
    /\ ppc = "switch"
    /\ FreeSegs = {}
    /\ claimable' = TRUE
    /\ ppc' = "publish"
    /\ UNCHANGED <<word, buf, given, pcur, ppos, presume, taken, wmsg, wat, wword,
                   consVars, switchLead, chain>>

\* ... or, with none free, stay and let the next reserve wait in place.
CommitStay ==
    /\ ppc = "switch"
    /\ FreeSegs = {}
    /\ ppc' = "publish"
    /\ UNCHANGED <<word, buf, given, pcur, ppos, presume, taken, claimable, wmsg,
                   wat, wword, consVars, switchLead, chain>>

\* The seq store is last, the handover to the consumer.
CommitPublish ==
    /\ ppc = "publish"
    /\ word' = [word EXCEPT ![wat.seg][Slot(wat.pos)] = wword]
    /\ chain' = Append(chain, wat)
    /\ ppc' = "idle"
    /\ UNCHANGED <<buf, given, pcur, ppos, presume, taken, claimable, wmsg, wat,
                   wword, consVars, switchLead>>

-----------------------------------------------------------------------------
(* Consumer::reserve_slot_with and the in-place read.                      *)

ReserveRead ==
    /\ cpc = "idle"
    /\ cpc' = "probing"
    /\ UNCHANGED <<word, buf, given, prodVars, ccur, cpos, cresume, cgiven, rword,
                   got, switchLead, chain>>

\* One load tells everything: a message, and whether it is the last in its
\* segment.  A MOVED word naming a segment the ring lacks reads as Empty.
HasMessage(w) == w.seq = Committed(cpos).seq /\ w.moved \in Segs \cup {NoSeg}

ReadGuard ==
    /\ cpc = "probing"
    /\ HasMessage(word[ccur][Slot(cpos)])
    /\ rword' = word[ccur][Slot(cpos)]
    /\ cpc' = "reading"
    /\ UNCHANGED <<word, buf, given, prodVars, ccur, cpos, cresume, cgiven, got,
                   switchLead, chain>>

\* The wait policy gives up: Err(Empty).
NoMessage ==
    /\ cpc = "probing"
    /\ ~HasMessage(word[ccur][Slot(cpos)])
    /\ cpc' = "idle"
    /\ UNCHANGED <<word, buf, given, prodVars, ccur, cpos, cresume, cgiven, rword,
                   got, switchLead, chain>>

ReadLo ==
    /\ cpc = "reading"
    /\ got' = [got EXCEPT !.lo = buf[ccur][Slot(cpos)].lo]
    /\ cpc' = "half"
    /\ UNCHANGED <<word, buf, given, prodVars, ccur, cpos, cresume, cgiven, rword,
                   switchLead, chain>>

ReadHi ==
    /\ cpc = "half"
    /\ got' = [got EXCEPT !.hi = buf[ccur][Slot(cpos)].hi]
    /\ cpc' = "read"
    /\ UNCHANGED <<word, buf, given, prodVars, ccur, cpos, cresume, cgiven, rword,
                   switchLead, chain>>

DropRead ==
    /\ cpc \in {"reading", "half", "read"}
    /\ cpc' = "idle"
    /\ got' = EmptyPair
    /\ UNCHANGED <<word, buf, given, prodVars, ccur, cpos, cresume, cgiven, rword,
                   switchLead, chain>>

-----------------------------------------------------------------------------
(* ReadSlot::release.                                                      *)

\* The released seq goes first and clears MOVED.
ReleaseSeq ==
    /\ cpc = "read"
    /\ word' = [word EXCEPT ![ccur][Slot(cpos)] = Released(cpos)]
    /\ cpos' = seq_of(cpos + 1)
    /\ cpc' = IF rword.moved = NoSeg THEN "idle" ELSE "giving"
    /\ got' = EmptyPair
    /\ chain' = Tail(chain)
    /\ UNCHANGED <<buf, given, prodVars, ccur, cresume, cgiven, rword, switchLead>>

\* Fault: the position the segment is left at is not saved.
GiveBackNoResume ==
    /\ cpc = "giving"
    /\ cgiven' = Flip(cgiven, ccur)
    /\ given' = cgiven'
    /\ ccur' = rword.moved
    /\ cpos' = cresume[rword.moved]
    /\ switchLead' = switchLead - 1
    /\ cpc' = "idle"
    /\ UNCHANGED <<word, buf, prodVars, cresume, rword, got, chain>>

\* After a MOVED message: give the segment back and follow the producer.
GiveBack ==
    /\ cpc = "giving"
    /\ cgiven' = Flip(cgiven, ccur)
    /\ cresume' = [cresume EXCEPT ![ccur] = cpos]
    /\ given' = cgiven'
    /\ ccur' = rword.moved
    /\ cpos' = cresume'[rword.moved]
    /\ switchLead' = switchLead - 1
    /\ cpc' = "idle"
    /\ UNCHANGED <<word, buf, prodVars, rword, got, chain>>

-----------------------------------------------------------------------------
ProducerNext ==
    \/ ReserveWrite \/ WriteGuard \/ Full \/ FillLo \/ FillHi \/ AbandonWrite
    \/ CommitLook \/ CommitSwitch \/ CommitStay \/ CommitPublish

ConsumerNext ==
    \/ ReserveRead \/ ReadGuard \/ NoMessage \/ ReadLo \/ ReadHi \/ DropRead
    \/ ReleaseSeq \/ GiveBack

Next == ProducerNext \/ ConsumerNext

Spec == Init /\ [][Next]_vars

-----------------------------------------------------------------------------
(* Properties.                                                             *)

\* The segment lifecycle: a segment whose two bits agree holds no unread
\* message and no guard, both sides would resume it at the same position, and
\* all its slots are claimable from there on.
FreeSegmentIsEmpty ==
    \A s \in FreeSegs :
        /\ s # pcur /\ s # ccur
        /\ presume[s] = cresume[s]
        /\ \A i \in 0 .. M - 1 :
             word[s][Slot(presume[s] + i)] = Claimable(presume[s] + i)

\* A reserve that skips its load still gets a free slot: nothing the consumer
\* does after the look-ahead takes the slot away again.
SkippedLoadIsClaimable ==
    ppc = "idle" /\ claimable => word[pcur][Slot(ppos)] = Claimable(ppos)

\* Consumer::switches, "Once it has read everything the producer sent, it
\* equals the producer's count", and it never runs ahead of it.
SwitchesAgree ==
    /\ switchLead >= 0
    /\ chain = <<>> /\ ppc \in {"idle", "probing"} /\ cpc \in {"idle", "probing"} =>
         switchLead = 0 /\ pcur = ccur /\ ppos = cpos

Pending == [i \in DOMAIN chain |-> buf[chain[i].seg][Slot(chain[i].pos)].lo]

Chan == INSTANCE FifoChannel
            WITH queue <- Pending,
                 held <- IF cpc = "read" THEN got.lo ELSE NoMsg,
                 Capacity <- M * seg_count

\* The ring is a bounded FIFO channel over all its segments' slots.
ImplementsFifo == Chan!ChanSpec

=============================================================================
