------------------------------- MODULE MpscSleep -------------------------------
(***************************************************************************)
(* The MPSC v3 ring in mode Multi over a wake that sleeps: MpscWake's two  *)
(* sleeps over MpscSegments' switches, where they meet.                    *)
(*                                                                         *)
(*   - A producer at a full segment takes a free one, and sleeps when      *)
(*     there is none.  Room is a claimable slot or a free segment, and a   *)
(*     free segment may also come back from a producer whose switch lost.  *)
(*   - The consumer gives a segment back and then looks for sleepers.      *)
(*   - Both the claim's and the switch's CAS carry the WAITING flag over,  *)
(*     and lose to the consumer's setting of it.                           *)
(*                                                                         *)
(* Messages carry no data, and a segment's seal belongs to who has its     *)
(* bit: loading and clearing it, and putting it back, are one step each    *)
(* with the fetch on the in-use word.  MpscSegments has them apart, and is *)
(* about what is delivered.                                                *)
(***************************************************************************)
EXTENDS Integers, FiniteSetsExt

CONSTANTS
    M, W, seg_count,
    Producers,
    MaxSends,        \* bound: calls of send in a run
    MaxPanics        \* bound: write_msg closures that panic

ASSUME GeometryAssumption ==
    /\ M \in Nat \ {0} /\ seg_count \in Nat \ {0}
    /\ W \in Nat /\ W % M = 0 /\ 4 * M <= W
    /\ M > 1 => M % 2 = 0

VARIABLES
    claim,                      \* segment, position and WAITING flag
    in_use, seal, seq,          \* the other words of the ring
    prod_waiters, seen,         \* as in MpscWake
    pc, w, k, start,            \* every producer, as in MpscSegments
    cpc, cur, cpos, resume,     \* ConsumerState
    after,                      \* where the consumer goes from wake_producers
    sent, panics

ringVars == <<claim, in_use, seal, seq>>
waitVars == <<prod_waiters, seen>>
prodVars == <<pc, w, k, start>>
consVars == <<cpc, cur, cpos, resume, after>>
vars == <<ringVars, waitVars, prodVars, consVars, sent, panics>>

Segs  == 0 .. seg_count - 1
Slots == 0 .. M - 1

seq_of(n) == n % W
Slot(n)   == n % M

word(s, n, flag) == [seg |-> s, pos |-> seq_of(n), waiting |-> flag]
NoWord == word(0, 0, FALSE)
NoSeal == [moved |-> FALSE, seg |-> 0, pos |-> 0]

SeqAt(s, n)      == seq[s][Slot(n)]
SetSeq(s, n, v)  == seq' = [seq EXCEPT ![s][Slot(n)] = v]
Committed(n)     == seq_of(n + M + 1)
Released(n)      == seq_of(n + M)
Claimable(v)     == SeqAt(v.seg, v.pos) = v.pos
Free             == Segs \ in_use

\* wake_mask: half a segment, at least one.
WakeMark(n) == n % (IF M = 1 THEN 1 ELSE M \div 2) = 0

Init ==
    /\ claim = NoWord /\ in_use = {0} /\ seal = [s \in Segs |-> NoSeal]
    /\ seq = [s \in Segs |-> [i \in Slots |-> i]]
    /\ prod_waiters = 0 /\ seen = {}
    /\ pc = [p \in Producers |-> "idle"] /\ w = [p \in Producers |-> NoWord]
    /\ k = [p \in Producers |-> 0] /\ start = [p \in Producers |-> 0]
    /\ cpc = "look" /\ cur = 0 /\ cpos = 0 /\ resume = [s \in Segs |-> 0]
    /\ after = "look" /\ sent = 0 /\ panics = 0

Goto(p, l) == pc' = [pc EXCEPT ![p] = l]
Forget(p)  == w' = [w EXCEPT ![p] = NoWord]
Return(p)  == Goto(p, "idle") /\ Forget(p) /\ UNCHANGED <<k, start>>

-----------------------------------------------------------------------------
(* MpscProducer::send.                                                     *)

send(p) ==
    /\ \/ pc[p] = "load" /\ UNCHANGED sent
       \/ pc[p] = "idle" /\ sent < MaxSends /\ sent' = sent + 1
    /\ w' = [w EXCEPT ![p] = claim]
    /\ Goto(p, "probe")
    /\ UNCHANGED <<ringVars, waitVars, k, start, consVars, panics>>

Probe(p) ==
    /\ pc[p] = "probe"
    /\ Goto(p, IF Claimable(w[p]) THEN "claim" ELSE "reread")
    /\ UNCHANGED <<ringVars, waitVars, w, k, start, consVars, sent, panics>>

\* The CAS succeeds; the consumer's flag carries over.
Claim(p) ==
    /\ pc[p] = "claim" /\ claim = w[p]
    /\ claim' = word(w[p].seg, w[p].pos + 1, w[p].waiting)
    /\ Goto(p, "fill")
    /\ UNCHANGED <<in_use, seal, seq, waitVars, w, k, start, consVars, sent, panics>>

\* It fails, because the word changed or spuriously: on_lost, and again.
LoseClaim(p) ==
    /\ pc[p] = "claim"
    /\ w' = [w EXCEPT ![p] = claim]
    /\ Goto(p, "probe")
    /\ UNCHANGED <<ringVars, waitVars, k, start, consVars, sent, panics>>

\* Not claimable: a stale word, or a full segment, and a switch is tried.
Reread(p) ==
    /\ pc[p] = "reread"
    /\ w' = [w EXCEPT ![p] = claim]
    /\ Goto(p, IF claim = w[p] THEN "switch" ELSE "probe")
    /\ UNCHANGED <<ringVars, waitVars, k, start, consVars, sent, panics>>

\* What the policies do at a full ring, with the clock left open: spin until
\* the time is up; sleep through Room; spin, then sleep to a deadline, then give up.
send_spin       == {"load", "idle"}
RoomSleep       == {"count in"}
send_spin_sleep == {"load", "count in", "idle"}

Policies == send_spin \cup RoomSleep \cup send_spin_sleep

\* NoFree: the policy looks again, sleeps, or gives up with Err(Full).
on_full(p) ==
    /\ pc[p] = "switch" /\ Free = {}
    /\ \E l \in Policies : Goto(p, l)
    /\ Forget(p)
    /\ UNCHANGED <<ringVars, waitVars, k, start, consVars, sent, panics>>

\* write_msg returned: publish, and wake a consumer the CAS saw waiting.
Commit(p) ==
    /\ pc[p] = "fill"
    /\ SetSeq(w[p].seg, w[p].pos, Committed(w[p].pos))
    /\ IF w[p].waiting THEN Goto(p, "wake") /\ UNCHANGED <<w, k, start>> ELSE Return(p)
    /\ UNCHANGED <<claim, in_use, seal, waitVars, consVars, sent, panics>>

wake_consumer(p) ==
    /\ pc[p] = "wake"
    /\ Return(p)
    /\ cpc' = IF cpc = "asleep" THEN "unflag" ELSE cpc
    /\ UNCHANGED <<ringVars, waitVars, cur, cpos, resume, after, sent, panics>>

\* write_msg panics: the slot stays claimed, and nobody is woken.
Panic(p) ==
    /\ pc[p] = "fill" /\ panics < MaxPanics
    /\ Return(p)
    /\ panics' = panics + 1
    /\ UNCHANGED <<ringVars, waitVars, consVars, sent>>

-----------------------------------------------------------------------------
(* MpscProducer::switch.                                                   *)

FindFree(p) ==
    /\ pc[p] = "switch" /\ Free # {}
    /\ k' = [k EXCEPT ![p] = Min(Free)]
    /\ Goto(p, "take")
    /\ UNCHANGED <<ringVars, waitVars, w, start, consVars, sent, panics>>

\* fetch_or: another producer had it first, or it is ours, with its seal.
TakeLost(p) ==
    /\ pc[p] = "take" /\ k[p] \in in_use
    /\ k' = [k EXCEPT ![p] = 0]
    /\ Goto(p, "switch")
    /\ UNCHANGED <<ringVars, waitVars, w, start, consVars, sent, panics>>

Take(p) ==
    /\ pc[p] = "take" /\ k[p] \notin in_use
    /\ in_use' = in_use \cup {k[p]}
    /\ start' = [start EXCEPT ![p] = seal[k[p]].pos]
    /\ seal' = [seal EXCEPT ![k[p]] = NoSeal]
    /\ Goto(p, "swing")
    /\ UNCHANGED <<claim, seq, waitVars, w, k, consVars, sent, panics>>

SwitchEnds(p) ==
    /\ Goto(p, "load") /\ Forget(p)
    /\ k' = [k EXCEPT ![p] = 0] /\ start' = [start EXCEPT ![p] = 0]

\* Fault: the switch forgets the consumer's flag.
SwingNoFlag(p) ==
    /\ pc[p] = "swing" /\ claim = w[p]
    /\ claim' = word(k[p], start[p], FALSE)
    /\ Goto(p, "seal")
    /\ UNCHANGED <<in_use, seal, seq, waitVars, w, k, start, consVars, sent, panics>>

\* The claim word still names the full segment: swing it, flag and all.
Swing(p) ==
    /\ pc[p] = "swing" /\ claim = w[p]
    /\ claim' = word(k[p], start[p], w[p].waiting)
    /\ Goto(p, "seal")
    /\ UNCHANGED <<in_use, seal, seq, waitVars, w, k, start, consVars, sent, panics>>

SealOld(p) ==
    /\ pc[p] = "seal"
    /\ seal' = [seal EXCEPT ![w[p].seg] = [moved |-> TRUE, seg |-> k[p], pos |-> w[p].pos]]
    /\ SwitchEnds(p)
    /\ UNCHANGED <<claim, in_use, seq, waitVars, consVars, sent, panics>>

\* It moved: the seal and the bit go back.
Untake(p) ==
    /\ pc[p] = "swing" /\ claim # w[p]
    /\ seal' = [seal EXCEPT ![k[p]] = [NoSeal EXCEPT !.pos = start[p]]]
    /\ in_use' = in_use \ {k[p]}
    /\ SwitchEnds(p)
    /\ UNCHANGED <<claim, seq, waitVars, consVars, sent, panics>>

-----------------------------------------------------------------------------
(* MpscProducer::sleep_full and has_room.                                  *)

CountIn(p) ==
    /\ pc[p] = "count in"
    /\ prod_waiters' = prod_waiters + 1
    /\ Goto(p, "see")
    /\ UNCHANGED <<ringVars, seen, w, k, start, consVars, sent, panics>>

\* The wake sequence is read before the look.
LoadSeen(p) ==
    /\ pc[p] = "see"
    /\ seen' = seen \cup {p}
    /\ Goto(p, "room word")
    /\ UNCHANGED <<ringVars, prod_waiters, w, k, start, consVars, sent, panics>>

\* The three loads of the look: the claim word, its slot, the in-use word.
RoomWord(p) ==
    /\ pc[p] = "room word"
    /\ w' = [w EXCEPT ![p] = claim]
    /\ Goto(p, "room seq")
    /\ UNCHANGED <<ringVars, waitVars, k, start, consVars, sent, panics>>

RoomSeq(p) ==
    /\ pc[p] = "room seq"
    /\ Goto(p, IF Claimable(w[p]) THEN "count out" ELSE "room free")
    /\ Forget(p)
    /\ UNCHANGED <<ringVars, waitVars, k, start, consVars, sent, panics>>

RoomFree(p) ==
    /\ pc[p] = "room free"
    /\ Goto(p, IF Free = {} THEN "wait" ELSE "count out")
    /\ UNCHANGED <<ringVars, waitVars, w, k, start, consVars, sent, panics>>

\* Fault: the wake sequence is read only here, after the look.
FutexWaitLate(p) ==
    /\ pc[p] = "wait"
    /\ Goto(p, "asleep")
    /\ UNCHANGED <<ringVars, waitVars, w, k, start, consVars, sent, panics>>

FutexWait(p) ==
    /\ pc[p] = "wait"
    /\ Goto(p, IF p \in seen THEN "asleep" ELSE "count out")
    /\ UNCHANGED <<ringVars, waitVars, w, k, start, consVars, sent, panics>>

\* The sleep ends without a wake: its timeout or deadline, or a signal.
SleepEnds(p) ==
    /\ pc[p] = "asleep"
    /\ Goto(p, "count out")
    /\ UNCHANGED <<ringVars, waitVars, w, k, start, consVars, sent, panics>>

CountOut(p) ==
    /\ pc[p] = "count out"
    /\ prod_waiters' = prod_waiters - 1
    /\ seen' = seen \ {p}
    /\ Goto(p, "load")
    /\ UNCHANGED <<ringVars, w, k, start, consVars, sent, panics>>

-----------------------------------------------------------------------------
(* MpscConsumer::reserve and MpscReadSlot::release.                        *)

\* One turn of the loop: committed, or else look at the seal.
Look ==
    /\ cpc = "look"
    /\ cpc' = IF SeqAt(cur, cpos) = Committed(cpos) THEN "read" ELSE "seal"
    /\ UNCHANGED <<ringVars, waitVars, prodVars, cur, cpos, resume, after, sent, panics>>

Ended == seal[cur].moved /\ seal[cur].pos = cpos

\* The segment ended: give it back, go on in the next, and wake who waits.
Follow ==
    /\ cpc = "seal" /\ Ended
    /\ resume' = [resume EXCEPT ![cur] = cpos]
    /\ in_use' = in_use \ {cur}
    /\ cur' = seal[cur].seg /\ cpos' = resume'[seal[cur].seg]
    /\ cpc' = "check" /\ after' = "look"
    /\ UNCHANGED <<claim, seal, seq, waitVars, prodVars, sent, panics>>

NotEnded ==
    /\ cpc = "seal" /\ ~Ended
    /\ cpc' = "empty"
    /\ UNCHANGED <<ringVars, waitVars, prodVars, cur, cpos, resume, after, sent, panics>>

\* reserve_slot_with: on_empty looks again, or gives up.
reserve_slot_with ==
    /\ cpc = "empty"
    /\ cpc' = "look"
    /\ UNCHANGED <<ringVars, waitVars, prodVars, cur, cpos, resume, after, sent, panics>>

\* reserve_slot_wait: wake sleeping producers, and sleep.
reserve_slot_wait ==
    /\ cpc = "empty"
    /\ cpc' = "check" /\ after' = "flag"
    /\ UNCHANGED <<ringVars, waitVars, prodVars, cur, cpos, resume, sent, panics>>

\* The guard is dropped: the message stays.
DropRead ==
    /\ cpc = "read"
    /\ cpc' = "look"
    /\ UNCHANGED <<ringVars, waitVars, prodVars, cur, cpos, resume, after, sent, panics>>

Release ==
    /\ cpc = "read"
    /\ cpos' = seq_of(cpos + 1)
    /\ SetSeq(cur, cpos, Released(cpos))
    /\ cpc' = IF WakeMark(cpos') THEN "check" ELSE "look"
    /\ after' = "look"
    /\ UNCHANGED <<claim, in_use, seal, waitVars, prodVars, cur, resume, sent, panics>>

\* wake_producers: the count, then the sequence, then the wake of all.
CheckWaiters ==
    /\ cpc = "check"
    /\ cpc' = IF prod_waiters # 0 THEN "bump" ELSE after
    /\ UNCHANGED <<ringVars, waitVars, prodVars, cur, cpos, resume, after, sent, panics>>

Bump ==
    /\ cpc = "bump"
    /\ seen' = {}
    /\ cpc' = "wake"
    /\ UNCHANGED <<ringVars, prod_waiters, prodVars, cur, cpos, resume, after, sent, panics>>

WakeAll ==
    /\ cpc = "wake"
    /\ pc' = [p \in Producers |-> IF pc[p] = "asleep" THEN "count out" ELSE pc[p]]
    /\ cpc' = after
    /\ UNCHANGED <<ringVars, waitVars, w, k, start, cur, cpos, resume, after, sent, panics>>

-----------------------------------------------------------------------------
(* sleep_empty.                                                            *)

\* Set the flag; sleep only if the word still names this segment and position.
Flag ==
    /\ cpc = "flag"
    /\ claim' = [claim EXCEPT !.waiting = TRUE]
    /\ cpc' = IF claim' = word(cur, cpos, TRUE) THEN "wait" ELSE "unflag"
    /\ UNCHANGED <<in_use, seal, seq, waitVars, prodVars, cur, cpos, resume, after, sent, panics>>

ConsumerFutexWait ==
    /\ cpc = "wait"
    /\ cpc' = IF claim = word(cur, cpos, TRUE) THEN "asleep" ELSE "unflag"
    /\ UNCHANGED <<ringVars, waitVars, prodVars, cur, cpos, resume, after, sent, panics>>

ConsumerSleepEnds ==
    /\ cpc = "asleep"
    /\ cpc' = "unflag"
    /\ UNCHANGED <<ringVars, waitVars, prodVars, cur, cpos, resume, after, sent, panics>>

Unflag ==
    /\ cpc = "unflag"
    /\ claim' = [claim EXCEPT !.waiting = FALSE]
    /\ cpc' = "look" /\ after' = "look"
    /\ UNCHANGED <<in_use, seal, seq, waitVars, prodVars, cur, cpos, resume, sent, panics>>

-----------------------------------------------------------------------------
SendNext(p) ==
    \/ Probe(p) \/ Claim(p) \/ LoseClaim(p) \/ Reread(p) \/ on_full(p)
    \/ Commit(p) \/ wake_consumer(p)

SwitchNext(p) ==
    FindFree(p) \/ TakeLost(p) \/ Take(p) \/ Swing(p) \/ SealOld(p) \/ Untake(p)

SleepFullNext(p) ==
    \/ CountIn(p) \/ LoadSeen(p) \/ RoomWord(p) \/ RoomSeq(p) \/ RoomFree(p)
    \/ FutexWait(p) \/ CountOut(p)

ProducerNext(p) ==
    send(p) \/ SendNext(p) \/ SwitchNext(p) \/ Panic(p) \/ SleepFullNext(p) \/ SleepEnds(p)

ConsumerGoesOn ==
    \/ Look \/ Follow \/ NotEnded \/ Release
    \/ CheckWaiters \/ Bump \/ WakeAll \/ Flag \/ ConsumerFutexWait \/ Unflag

ConsumerNext ==
    ConsumerGoesOn \/ DropRead \/ reserve_slot_with \/ reserve_slot_wait \/ ConsumerSleepEnds

Next == ConsumerNext \/ \E p \in Producers : ProducerNext(p)

Spec == Init /\ [][Next]_vars

\* A call in progress goes on, and a claim or a switch is not lost for ever; no
\* producer is obliged to send.  The consumer receives, sleeping when it goes on
\* finding the ring empty, and does not drop one message's guard for ever.  No
\* sleep is obliged to end by itself.
Fairness ==
    /\ \A p \in Producers :
         /\ WF_vars(SendNext(p) \/ SwitchNext(p) \/ SleepFullNext(p) \/ (pc[p] = "load" /\ send(p)))
         /\ SF_vars(Claim(p))
    /\ WF_vars(ConsumerGoesOn \/ reserve_slot_with)
    /\ SF_vars(Release) /\ SF_vars(reserve_slot_wait)

FairSpec == Spec /\ Fairness

-----------------------------------------------------------------------------
(* Properties.                                                             *)

Claims(p) == pc[p] \in {"fill", "wake"}

\* The consumer's slot was claimed by a closure that panicked.
Wedged ==
    /\ panics > 0 /\ SeqAt(cur, cpos) = cpos
    /\ \A p \in Producers : ~(pc[p] = "fill" /\ w[p].seg = cur /\ w[p].pos = cpos)

\* No claim is ahead of what the consumer has read: the claim word is where it
\* is, or at the start of a segment that a switch has only just entered.
NothingAhead == claim.pos = (IF claim.seg = cur THEN cpos ELSE resume[claim.seg])

\* A sleeping consumer will be told of the next message: a claim that took the
\* flag along is on its way to a wake, or the flag is still on the claim word,
\* over however many switches, with nothing claimed before it was set.  And it
\* does not sleep beside sleeping producers alone.
SleepersAreSeen ==
    cpc = "asleep" =>
        \/ Wedged
        \/ \E p \in Producers : Claims(p) /\ w[p].waiting
        \/ /\ claim.waiting /\ NothingAhead
           /\ (\E p \in Producers : pc[p] = "asleep") =>
                 \E p \in Producers : pc[p] \notin {"idle", "asleep"}

\* A producer asleep for want of a segment is woken without the help of a
\* timeout, also when the segment it missed comes back from another producer's
\* lost switch, which wakes nobody.
ProducersWake ==
    \A p \in Producers : pc[p] = "asleep" ~> pc[p] # "asleep" \/ Wedged

\* The next message is committed, here or at the start of the segment the ring
\* went on in.
Readable ==
    \/ SeqAt(cur, cpos) = Committed(cpos)
    \/ /\ Ended
       /\ LET s == seal[cur].seg IN SeqAt(s, resume[s]) = Committed(resume[s])

\* What is committed is received, also by a consumer that goes to sleep while
\* producers switch segments.
Drains == <>[]Readable => []<><<Release>>_vars

=============================================================================
