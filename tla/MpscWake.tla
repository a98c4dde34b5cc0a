------------------------------- MODULE MpscWake -------------------------------
(***************************************************************************)
(* How the two sides of an MPSC v4 ring sleep and wake each other, for a   *)
(* ring of one segment (mode Single) over a wake that sleeps.              *)
(*                                                                         *)
(*   - The consumer sleeps on the claim word: it sets WAITING there and    *)
(*     sleeps while the word still names its own position.  A producer     *)
(*     whose claim CAS replaced a word with the flag wakes it after the    *)
(*     commit.                                                             *)
(*   - A producer counts itself in, reads the wake sequence, looks again   *)
(*     and sleeps while the sequence stands still.  The consumer checks    *)
(*     the count at every half segment of messages and before it sleeps.   *)
(*                                                                         *)
(* A wait policy is the choice among looking again, sleeping first and     *)
(* giving up.  A sleep may also return by itself (timeout, signal), which  *)
(* nothing here relies on.  Atomic accesses are sequentially consistent.   *)
(* Messages carry no data: MpscSeq is about what is delivered.             *)
(***************************************************************************)
EXTENDS Integers, FiniteSets

CONSTANTS
    M,               \* slots of the segment
    W,               \* seq values, 2^SEQ_BITS in the code
    Producers,
    ConsumerSleeps,  \* the consumer's receives sleep, not only spin
    MaxPanics        \* bound: write_msg closures that panic

ASSUME GeometryAssumption ==
    /\ M \in Nat \ {0} /\ W \in Nat /\ W % M = 0 /\ W > M + 1
    /\ M > 1 => M % 2 = 0
    /\ ConsumerSleeps \in BOOLEAN /\ MaxPanics \in Nat

\* The threads of a process are finitely many.
ASSUME ProducersAssumption == IsFiniteSet(Producers)

VARIABLES
    claim,          \* the claim word: position and WAITING flag
    seq,            \* every slot's seq word
    prod_waiters,   \* the producers' waiting word
    seen,           \* producers whose Seen still has prod_wake's value
    pc, w,          \* every producer: where it is, the claim word it loaded
    cpc, cpos,      \* ConsumerState
    after,          \* where the consumer goes from wake_producers
    panics          \* closures that panicked so far

ringVars == <<claim, seq>>
waitVars == <<prod_waiters, seen>>
prodVars == <<pc, w>>
consVars == <<cpc, cpos, after>>
vars == <<ringVars, waitVars, prodVars, consVars, panics>>

Slots == 0 .. M - 1

seq_of(n) == n % W
Slot(n)   == n % M

word(n, flag) == [pos |-> seq_of(n), waiting |-> flag]

Claimable(n) == n
Committed(n) == seq_of(n + M + 1)
Released(n)  == seq_of(n + M)

\* wake_mask: the consumer looks for sleeping producers at these positions.
HalfSegment == IF M = 1 THEN 1 ELSE M \div 2
WakeMark(n) == n % HalfSegment = 0

Init ==
    /\ claim = word(0, FALSE) /\ seq = [i \in Slots |-> i]
    /\ prod_waiters = 0 /\ seen = {}
    /\ pc = [p \in Producers |-> "idle"] /\ w = [p \in Producers |-> word(0, FALSE)]
    /\ cpc = "look" /\ cpos = 0 /\ after = "look"
    /\ panics = 0

Goto(p, l) == pc' = [pc EXCEPT ![p] = l]

\* A loaded word that is not used again is forgotten.
Forget(p) == w' = [w EXCEPT ![p] = word(0, FALSE)]

Return(p) == Goto(p, "idle") /\ Forget(p)

-----------------------------------------------------------------------------
(* MpscProducer::send.                                                     *)

Send(p) ==
    /\ pc[p] \in {"idle", "load"}
    /\ w' = [w EXCEPT ![p] = claim]
    /\ Goto(p, "probe")
    /\ UNCHANGED <<ringVars, waitVars, consVars, panics>>

Probe(p) ==
    /\ pc[p] = "probe"
    /\ Goto(p, IF seq[Slot(w[p].pos)] = Claimable(w[p].pos) THEN "claim" ELSE "reread")
    /\ UNCHANGED <<ringVars, waitVars, w, consVars, panics>>

\* No producer is stopped between its look and its CAS while the others claim
\* every position there is.
NoWholeWrap(n) ==
    \A q \in Producers : pc[q] \in {"claim", "reread"} => w[q].pos # n

\* The CAS succeeds; the consumer's flag carries over.
Claim(p) ==
    /\ pc[p] = "claim"
    /\ claim = w[p]
    /\ NoWholeWrap(seq_of(claim.pos + 1))
    /\ claim' = word(claim.pos + 1, claim.waiting)
    /\ Goto(p, "fill")
    /\ UNCHANGED <<seq, waitVars, w, consVars, panics>>

\* It fails, because the word changed or spuriously (a weak CAS).
LoseClaim(p) ==
    /\ pc[p] = "claim"
    /\ w' = [w EXCEPT ![p] = claim]
    /\ Goto(p, "probe")
    /\ UNCHANGED <<ringVars, waitVars, consVars, panics>>

\* Not claimable, and the word moved: a position another producer claimed ...
Behind(p) ==
    /\ pc[p] = "reread"
    /\ claim # w[p]
    /\ w' = [w EXCEPT ![p] = claim]
    /\ Goto(p, "probe")
    /\ UNCHANGED <<ringVars, waitVars, consVars, panics>>

\* What the policy of a full ring may answer: look again or give up, at a time
\* the model leaves open.  send_spin_sleep may also sleep first.
send_spin == {"load", "idle"}
send_spin_sleep == {"load", "count in", "idle"}

\* ... or not: the ring is full, and the policy is asked.
Full(p) ==
    /\ pc[p] = "reread"
    /\ claim = w[p]
    /\ \E l \in send_spin \cup send_spin_sleep : Goto(p, l)
    /\ Forget(p)
    /\ UNCHANGED <<ringVars, waitVars, consVars, panics>>

\* write_msg returned: publish, and wake a consumer the CAS saw waiting.
Commit(p) ==
    /\ pc[p] = "fill"
    /\ seq' = [seq EXCEPT ![Slot(w[p].pos)] = Committed(w[p].pos)]
    /\ IF w[p].waiting THEN Goto(p, "wake") /\ UNCHANGED w ELSE Return(p)
    /\ UNCHANGED <<claim, waitVars, consVars, panics>>

wake_consumer(p) ==
    /\ pc[p] = "wake"
    /\ Return(p)
    /\ cpc' = IF cpc = "asleep" THEN "unflag" ELSE cpc
    /\ UNCHANGED <<ringVars, waitVars, cpos, after, panics>>

\* write_msg panics: the slot stays unfinished, and nobody is woken.
Panic(p) ==
    /\ pc[p] = "fill" /\ panics < MaxPanics
    /\ Return(p)
    /\ panics' = panics + 1
    /\ UNCHANGED <<ringVars, waitVars, consVars>>

-----------------------------------------------------------------------------
(* MpscProducer::sleep_full.                                               *)

CountIn(p) ==
    /\ pc[p] = "count in"
    /\ prod_waiters' = prod_waiters + 1
    /\ Goto(p, "see")
    /\ UNCHANGED <<ringVars, seen, w, consVars, panics>>

\* Read the wake sequence before the last look.
LoadSeen(p) ==
    /\ pc[p] = "see"
    /\ seen' = seen \cup {p}
    /\ Goto(p, "room word")
    /\ UNCHANGED <<ringVars, prod_waiters, w, consVars, panics>>

\* has_room loads the claim word, then the seq word it names.
RoomWord(p) ==
    /\ pc[p] = "room word"
    /\ w' = [w EXCEPT ![p] = claim]
    /\ Goto(p, "room seq")
    /\ UNCHANGED <<ringVars, waitVars, consVars, panics>>

RoomSeq(p) ==
    /\ pc[p] = "room seq"
    /\ Goto(p, IF seq[Slot(w[p].pos)] = Claimable(w[p].pos) THEN "count out" ELSE "wait")
    /\ Forget(p)
    /\ UNCHANGED <<ringVars, waitVars, consVars, panics>>

\* The kernel compares and sleeps in one step.
FutexWait(p) ==
    /\ pc[p] = "wait"
    /\ Goto(p, IF p \in seen THEN "asleep" ELSE "count out")
    /\ UNCHANGED <<ringVars, waitVars, w, consVars, panics>>

\* The sleep ends without a wake: a timeout, or a signal.
SleepEnds(p) ==
    /\ pc[p] = "asleep"
    /\ Goto(p, "count out")
    /\ UNCHANGED <<ringVars, waitVars, w, consVars, panics>>

CountOut(p) ==
    /\ pc[p] = "count out"
    /\ prod_waiters' = prod_waiters - 1
    /\ seen' = seen \ {p}
    /\ Goto(p, "load")
    /\ UNCHANGED <<ringVars, w, consVars, panics>>

-----------------------------------------------------------------------------
(* MpscConsumer::recv_at and wake_producers.                               *)

\* A receive, or the next look of one: between calls the consumer is at "look".
Look ==
    /\ cpc = "look"
    /\ cpc' = IF seq[Slot(cpos)] = Committed(cpos) THEN "read" ELSE "empty"
    /\ UNCHANGED <<ringVars, waitVars, prodVars, cpos, after, panics>>

\* read_msg returned: release the slot, and at every half segment look for
\* sleeping producers.
Release ==
    /\ cpc = "read"
    /\ cpos' = seq_of(cpos + 1)
    /\ seq' = [seq EXCEPT ![Slot(cpos)] = Released(cpos)]
    /\ cpc' = IF WakeMark(cpos') THEN "check" ELSE "look"
    /\ after' = "look"
    /\ UNCHANGED <<claim, waitVars, prodVars, panics>>

\* read_msg panics: the message stays.
ReadPanics ==
    /\ cpc = "read"
    /\ cpc' = "look"
    /\ UNCHANGED <<ringVars, waitVars, prodVars, cpos, after, panics>>

\* What the policy of an empty look may answer: look again or give up, which
\* both go to "look".  recv_spin_sleep may also sleep first.
recv_spin == {"look"}
recv_spin_sleep == {"look", "check"}

recv_policy == IF ConsumerSleeps THEN recv_spin_sleep ELSE recv_spin

EmptyAgain ==
    /\ cpc = "empty"
    /\ cpc' = "look" /\ cpc' \in recv_policy
    /\ UNCHANGED <<ringVars, waitVars, prodVars, cpos, after, panics>>

CheckWaiters ==
    /\ cpc = "check"
    /\ cpc' = IF prod_waiters # 0 THEN "bump" ELSE after
    /\ UNCHANGED <<ringVars, waitVars, prodVars, cpos, after, panics>>

\* Fault: the sequence is left alone, and only those already asleep are woken.
BumpSkipped ==
    /\ cpc = "bump"
    /\ cpc' = "wake"
    /\ UNCHANGED <<ringVars, waitVars, prodVars, cpos, after, panics>>

\* prod_wake moves on from every value a producer has seen.
Bump ==
    /\ cpc = "bump"
    /\ seen' = {}
    /\ cpc' = "wake"
    /\ UNCHANGED <<ringVars, prod_waiters, prodVars, cpos, after, panics>>

WakeAll ==
    /\ cpc = "wake"
    /\ pc' = [p \in Producers |-> IF pc[p] = "asleep" THEN "count out" ELSE pc[p]]
    /\ cpc' = after
    /\ UNCHANGED <<ringVars, waitVars, w, cpos, after, panics>>

-----------------------------------------------------------------------------
(* EmptyLook::sleep_empty.                                                 *)

EmptySleep ==
    /\ cpc = "empty"
    /\ cpc' = "check" /\ cpc' \in recv_policy
    /\ after' = "flag"
    /\ UNCHANGED <<ringVars, waitVars, prodVars, cpos, panics>>

\* Fault: the word the fetch_or returned is not compared.
FlagUnchecked ==
    /\ cpc = "flag"
    /\ claim' = [claim EXCEPT !.waiting = TRUE]
    /\ cpc' = "asleep"
    /\ UNCHANGED <<seq, waitVars, prodVars, cpos, after, panics>>

\* Set the flag; sleep only if the word still names the position looked at.
Flag ==
    /\ cpc = "flag"
    /\ claim' = [claim EXCEPT !.waiting = TRUE]
    /\ cpc' = IF claim.pos = cpos THEN "wait" ELSE "unflag"
    /\ UNCHANGED <<seq, waitVars, prodVars, cpos, after, panics>>

ConsumerFutexWait ==
    /\ cpc = "wait"
    /\ cpc' = IF claim = word(cpos, TRUE) THEN "asleep" ELSE "unflag"
    /\ UNCHANGED <<ringVars, waitVars, prodVars, cpos, after, panics>>

ConsumerSleepEnds ==
    /\ cpc = "asleep"
    /\ cpc' = "unflag"
    /\ UNCHANGED <<ringVars, waitVars, prodVars, cpos, after, panics>>

Unflag ==
    /\ cpc = "unflag"
    /\ claim' = [claim EXCEPT !.waiting = FALSE]
    /\ cpc' = "look"
    /\ after' = "look"
    /\ UNCHANGED <<seq, waitVars, prodVars, cpos, panics>>

-----------------------------------------------------------------------------
SendNext(p) ==
    \/ Probe(p) \/ Claim(p) \/ LoseClaim(p) \/ Behind(p) \/ Full(p)
    \/ Commit(p) \/ wake_consumer(p)

SleepFullNext(p) ==
    CountIn(p) \/ LoadSeen(p) \/ RoomWord(p) \/ RoomSeq(p) \/ FutexWait(p) \/ CountOut(p)

ProducerNext(p) ==
    Send(p) \/ SendNext(p) \/ Panic(p) \/ SleepFullNext(p) \/ SleepEnds(p)

WakeNext == CheckWaiters \/ Bump \/ WakeAll

SleepEmptyNext == Flag \/ ConsumerFutexWait \/ Unflag

ConsumerNext ==
    \/ Look \/ Release \/ ReadPanics \/ EmptyAgain \/ WakeNext
    \/ EmptySleep \/ SleepEmptyNext \/ ConsumerSleepEnds

Next == ConsumerNext \/ \E p \in Producers : ProducerNext(p)

Spec == Init /\ [][Next]_vars

\* A call in progress goes on, and a claim is not lost to others for ever; no
\* producer is obliged to send.  The consumer polls, does not panic for ever
\* over one message, and, if its receives sleep, sleeps when it goes on finding
\* the ring empty.  No sleep is obliged to end by itself.
Fairness ==
    /\ \A p \in Producers :
         /\ WF_vars(SendNext(p) \/ SleepFullNext(p) \/ (pc[p] = "load" /\ Send(p)))
         /\ SF_vars(Claim(p))
    /\ WF_vars(Look \/ Release \/ EmptyAgain \/ WakeNext \/ SleepEmptyNext)
    /\ SF_vars(Release) /\ SF_vars(EmptySleep)

FairSpec == Spec /\ Fairness

-----------------------------------------------------------------------------
(* Derived state.                                                          *)

\* p has claimed a position and has yet to commit it, or to wake the consumer.
Claims(p) == pc[p] \in {"fill", "wake"}

\* The consumer's position was claimed by a closure that panicked.
Wedged ==
    /\ claim.pos # cpos /\ seq[Slot(cpos)] = Claimable(cpos)
    /\ \A p \in Producers : ~(pc[p] = "fill" /\ w[p].pos = cpos)

-----------------------------------------------------------------------------
(* Properties.                                                             *)

\* A producer has the consumer to wake, unless its closure panicked.
Wakeful == Wedged \/ \E p \in Producers : Claims(p) /\ w[p].waiting

\* sleep_empty: "nothing is claimed past what the consumer read, so no commit
\* is on its way, and every later claim CAS sees the flag": a consumer that
\* sleeps, or is about to, while a position is claimed has a producer that
\* will wake it after its commit, unless that producer's closure panicked.
\* "The two sides never sleep on each other": the same holds when it sleeps
\* beside a sleeping producer, whatever is claimed.
SleeperIsSeen ==
    cpc = "asleep" =>
        /\ claim.waiting
        /\ \/ claim.pos = cpos
           \/ Wakeful
        /\ (\E p \in Producers : pc[p] = "asleep") => Wakeful

\* "the checks miss no sleeper": a producer asleep on a full ring is woken,
\* without the help of a timeout, while the consumer goes on receiving.
ProducersWake ==
    \A p \in Producers : pc[p] = "asleep" ~> pc[p] # "asleep" \/ Wedged

=============================================================================
