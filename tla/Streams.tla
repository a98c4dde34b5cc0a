------------------------------ MODULE Streams ------------------------------
(***************************************************************************)
(* The loops that drive the rings: the demo's one-thread, two-thread,      *)
(* three-thread and stress lines, and tp_matrix's round-trip cells, timed  *)
(* streams and pool cells.  A behaviour is one line of a table: its        *)
(* threads run to their ends and the line's own assertions are its         *)
(* verdict.                                                                *)
(*                                                                         *)
(* A ring is what the loops see of it: messages in legs, a leg the stay of *)
(* the producer side in one segment.  A leg is full when `depth` of its    *)
(* messages are unreleased, and a segment is free while fewer than `segs`  *)
(* legs lie between the sides.  The SPSC rings look and move at a commit,  *)
(* the MPSC rings at a send that finds no room; looking and moving are two *)
(* steps.  A claim and its commit are one step, as no loop's fill panics.  *)
(***************************************************************************)
EXTENDS Integers, Sequences, FiniteSetsExt

CONSTANTS Lines,        \* the lines: body, family, segs, depth, producers, pool
          COUNT,        \* messages of a counted line
          CHECK_EVERY,  \* STREAM_CHECK_EVERY, CLOCK_CHECK_EVERY
          MaxChecks,    \* bound: clock checks before the time is up, in a stream
          MaxTrips,     \* ... and in a round-trip cell
          STOP          \* the sentinel, the largest value of a message

Solo    == {"one_t", "burst_1t"}                \* one thread plays both sides
Counted == {"two_t", "lagging_2t", "stream_2t"} \* COUNT messages, two threads or more
Timed   == {"timed", "pool"}                    \* until the time is up, then STOP

ASSUME LinesAssumption ==
    /\ \A l \in Lines : /\ l.body \in Solo \cup Counted \cup Timed \cup {"cell"}
                        /\ l.family \in {"spsc", "mpsc"}
                        /\ l.segs > 0 /\ l.depth > 0 /\ l.producers \in 1 .. 2
                        /\ l.producers = 2 => l.family = "mpsc" /\ COUNT % 2 = 0
    /\ COUNT < STOP /\ CHECK_EVERY * MaxChecks < STOP   \* no loop counts to 2^64

VARIABLES line,
          ring,         \* per ring: its messages and both sides' legs
          at,           \* every thread's place
          val, view,    \* the message in hand; what a look saw
          out, in,      \* messages sent and read, sentinels not counted
          stopped,      \* the producers that have sent STOP
          stops, next,  \* the consumer's: STOPs seen; each producer's next number
          free,         \* free buffers of the pool
          verdict       \* "run", then "ok", or "panic" of a final assertion

streamVars == <<line, ring, at, val, view, out, in, stopped, stops, next, free, verdict>>

AllThreads == {"solo", "main", "worker", "consumer", "p1", "p2"}

Producers(l) == IF l.producers = 1 THEN {"p1"} ELSE {"p1", "p2"}

Threads(l) ==
    CASE l.body \in Solo -> {"solo"}
      [] l.body = "cell" -> {"main", "worker"}
      [] OTHER -> Producers(l) \cup {"consumer"}

Nothing == [from |-> "none", i |-> 0, leg |-> 0, moved |-> FALSE]
NewRing == [q |-> <<>>, pl |-> 0, cl |-> 0, claims |-> 0]

StreamInit ==
    /\ line \in Lines
    /\ ring = [r \in {"req", "resp"} |-> NewRing]
    /\ at = [t \in Threads(line) |-> "ready"]
    /\ val = [t \in Threads(line) |-> Nothing]
    /\ view = [t \in Threads(line) |-> <<0, 0>>]
    /\ out = [t \in Threads(line) |-> 0] /\ in = [t \in Threads(line) |-> 0]
    /\ stopped = {} /\ stops = 0 /\ next = [t \in Threads(line) |-> 0]
    /\ free = line.pool
    /\ verdict = "run"

-----------------------------------------------------------------------------
(* What a thread does next.                                                *)

Tx(t) == IF t = "worker" THEN "resp" ELSE "req"
Rx(t) == IF t = "main" THEN "resp" ELSE "req"

\* The counted lines share COUNT out among the producers.
Quota == COUNT \div line.producers

\* burst_1t fills the whole ring and drains it, the one-message loop moves one.
chunk == IF line.body = "one_t" THEN 1 ELSE line.segs * line.depth
UpTo(t) == Min({(in[t] \div chunk) * chunk + chunk, COUNT})

SoloSends(t) == out[t] < UpTo(t)
SoloReads(t) == out[t] = UpTo(t) /\ in[t] < COUNT

\* A round-trip cell: main drives until the time is up, the worker echoes until
\* it reads STOP.
MainSends(t) == t \notin stopped /\ out[t] = in[t]
MainReads(t) == in[t] < out[t]
WorkerReads(t) == in[t] = out[t] /\ stops = 0
WorkerSends(t) == in[t] > out[t]

CountedSends(t) == out[t] < Quota
CountedReads(t) == in[t] < COUNT

\* The consumer of a timed line reads until every producer's STOP.
TimedSends(t) == t \notin stopped

\* Fault: the first producer's STOP ends the stream.
TimedReadsFirstStop(t) == stops = 0

TimedReads(t) == stops < line.producers

WantsSend(t) ==
    CASE t = "solo"   -> SoloSends(t)
      [] t = "main"   -> MainSends(t)
      [] t = "worker" -> WorkerSends(t)
      [] t = "consumer" -> FALSE
      [] OTHER -> IF line.body \in Timed THEN TimedSends(t) ELSE CountedSends(t)

WantsRecv(t) ==
    CASE t = "solo"   -> SoloReads(t)
      [] t = "main"   -> MainReads(t)
      [] t = "worker" -> WorkerReads(t)
      [] t = "consumer" -> IF line.body \in Timed THEN TimedReads(t) ELSE CountedReads(t)
      [] OTHER -> FALSE

\* drive counts from 1 and steps over the sentinel; the other loops count from 0.
Number(t) == IF t = "main" THEN 1 + (out[t] % (STOP - 1)) ELSE out[t]

\* The clock is looked at every CHECK_EVERY messages.
Clocked(t) == t = "main" \/ (line.body \in Timed /\ t # "consumer")
CheckDue(t) == out[t] > 0 /\ out[t] % CHECK_EVERY = 0
TimeUp(t) == Clocked(t) /\ CheckDue(t)
GoesOn(t) ==
    Clocked(t) => out[t] < CHECK_EVERY * (IF t = "main" THEN MaxTrips ELSE MaxChecks)

Message(t, n) == [Nothing EXCEPT !.from = t, !.i = n]

\* The worker echoes what it received.
ToSend(t) ==
    IF t = "worker" THEN {Message(t, val[t].i)}
    ELSE (IF GoesOn(t) THEN {Message(t, Number(t))} ELSE {})
         \cup (IF TimeUp(t) THEN {Message(t, STOP)} ELSE {})

Goto(t, place) == at' = [at EXCEPT ![t] = place]

StartSend(t) ==
    /\ at[t] = "ready" /\ WantsSend(t)
    /\ \E v \in ToSend(t) : val' = [val EXCEPT ![t] = v]
    /\ Goto(t, IF line.pool > 0 THEN "alloc" ELSE "send")
    /\ UNCHANGED <<line, ring, view, out, in, stopped, stops, next, free, verdict>>

\* alloc_with(spin), or the one-thread loop's unwrap of Exhausted.
Alloc(t) ==
    /\ at[t] = "alloc"
    /\ free > 0 \/ line.body \in Solo
    /\ free' = IF free > 0 THEN free - 1 ELSE 0
    /\ Goto(t, IF free > 0 THEN "send" ELSE "panic")
    /\ UNCHANGED <<line, ring, val, view, out, in, stopped, stops, next, verdict>>

-----------------------------------------------------------------------------
(* Sending.                                                                *)

InLeg(r, l) == Len(SelectSeq(r.q, LAMBDA m : m.leg = l))
Room(r)     == InLeg(r, r.pl) < line.depth
FreeSegment(r) == r.pl - r.cl + 1 < line.segs

\* The message is the consumer's; the sender counts it.
Sent(t) ==
    IF val[t].i = STOP
    THEN stopped' = stopped \cup {t} /\ UNCHANGED out
    ELSE out' = [out EXCEPT ![t] = @ + 1] /\ UNCHANGED stopped

\* SPSC reserve_slot_with: the slot is claimable.  Without room it spins, or
\* in the one-message loop Full SHOULD NOT HAPPEN.
SpscReserve(t) ==
    /\ at[t] = "send" /\ line.family = "spsc"
    /\ Room(ring[Tx(t)]) \/ line.body = "one_t"
    /\ Goto(t, IF Room(ring[Tx(t)]) THEN "look" ELSE "panic")
    /\ UNCHANGED <<line, ring, val, view, out, in, stopped, stops, next, free, verdict>>

\* commit: will the next slot of the segment be claimable?
SpscLook(t) ==
    /\ at[t] = "look"
    /\ LET r == ring[Tx(t)] IN
         /\ val' = [val EXCEPT ![t].leg = r.pl, ![t].moved = FALSE]
         /\ Goto(t, IF InLeg(r, r.pl) + 1 < line.depth THEN "publish" ELSE "move")
    /\ UNCHANGED <<line, ring, view, out, in, stopped, stops, next, free, verdict>>

\* Fault: the producer never leaves its segment.
SpscNoMove(t) ==
    /\ at[t] = "move"
    /\ Goto(t, "publish")
    /\ UNCHANGED <<line, ring, val, view, out, in, stopped, stops, next, free, verdict>>

SpscMove(t) ==
    /\ at[t] = "move"
    /\ IF FreeSegment(ring[Tx(t)])
       THEN /\ ring' = [ring EXCEPT ![Tx(t)].pl = @ + 1]
            /\ val' = [val EXCEPT ![t].moved = TRUE]
       ELSE UNCHANGED <<ring, val>>
    /\ Goto(t, "publish")
    /\ UNCHANGED <<line, view, out, in, stopped, stops, next, free, verdict>>

SpscPublish(t) ==
    /\ at[t] = "publish"
    /\ ring' = [ring EXCEPT ![Tx(t)].q = Append(@, val[t])]
    /\ Sent(t)
    /\ Goto(t, "ready")
    /\ UNCHANGED <<line, val, view, in, stops, next, free, verdict>>

\* MPSC send_with: claim, fill and commit ...
MpscClaim(t) ==
    /\ at[t] = "send" /\ line.family = "mpsc"
    /\ LET r == ring[Tx(t)] IN
         /\ Room(r)
         /\ ring' = [ring EXCEPT ![Tx(t)].q = Append(@, [val[t] EXCEPT !.leg = r.pl]),
                                 ![Tx(t)].claims = @ + 1]
    /\ Sent(t)
    /\ Goto(t, "ready")
    /\ UNCHANGED <<line, val, view, in, stops, next, free, verdict>>

\* ... or a full segment under this claim word ...
MpscFull(t) ==
    /\ at[t] = "send" /\ line.family = "mpsc"
    /\ ~Room(ring[Tx(t)])
    /\ view' = [view EXCEPT ![t] = <<ring[Tx(t)].pl, ring[Tx(t)].claims>>]
    /\ Goto(t, "full")
    /\ UNCHANGED <<line, ring, val, out, in, stopped, stops, next, free, verdict>>

\* ... which is left for a free one if the word is still that; with none free
\* the policy spins, or gives up in the one-message loop.
MpscMove(t) ==
    /\ at[t] = "full"
    /\ LET r == ring[Tx(t)]
           same == view[t] = <<r.pl, r.claims>>
       IN  /\ ring' = IF same /\ FreeSegment(r)
                      THEN [ring EXCEPT ![Tx(t)].pl = @ + 1] ELSE ring
           /\ Goto(t, IF ~FreeSegment(r) /\ line.body = "one_t" THEN "panic" ELSE "send")
    /\ view' = [view EXCEPT ![t] = <<0, 0>>]
    /\ UNCHANGED <<line, val, out, in, stopped, stops, next, free, verdict>>

-----------------------------------------------------------------------------
(* Receiving.                                                              *)

\* The MPSC consumer passes a seal when it looks for a message and its leg has
\* none left.
CanFollow(r) == line.family = "mpsc" /\ r.pl > r.cl /\ InLeg(r, r.cl) = 0

Follow(t) ==
    /\ at[t] = "ready" /\ WantsRecv(t) /\ CanFollow(ring[Rx(t)])
    /\ ring' = [ring EXCEPT ![Rx(t)].cl = @ + 1]
    /\ UNCHANGED <<line, at, val, view, out, in, stopped, stops, next, free, verdict>>

\* The read guard.  With no message the loops spin, but for the one-message
\* loop, where Empty SHOULD NOT HAPPEN.
Take(t) ==
    /\ at[t] = "ready" /\ WantsRecv(t) /\ ~CanFollow(ring[Rx(t)])
    /\ LET r == ring[Rx(t)] IN
         IF r.q # <<>> /\ Head(r.q).leg = r.cl
         THEN val' = [val EXCEPT ![t] = Head(r.q)] /\ Goto(t, "got")
         ELSE line.body = "one_t" /\ Goto(t, "panic") /\ UNCHANGED val
    /\ UNCHANGED <<line, ring, view, out, in, stopped, stops, next, free, verdict>>

\* The assertion on a message read: the stream's order, per producer, or the echo.
Expected(t, v) ==
    CASE t = "main" -> v.i = 1 + ((out[t] - 1) % (STOP - 1))
      [] t = "worker" -> TRUE
      [] t = "solo" -> v.i = in[t]
      [] OTHER -> v.i = next[v.from]

\* release, and the loop's account of the message.
Release(t) ==
    /\ at[t] = "got"
    /\ ring' = [ring EXCEPT ![Rx(t)].q = Tail(@)]
    /\ LET v == val[t]
           isStop == v.i = STOP
           ok == isStop \/ Expected(t, v)
       IN  /\ stops' = IF isStop THEN stops + 1 ELSE stops
           /\ in' = IF isStop THEN in ELSE [in EXCEPT ![t] = @ + 1]
           /\ next' = IF ~isStop /\ t = "consumer"
                      THEN [next EXCEPT ![v.from] = @ + 1] ELSE next
           /\ Goto(t, IF ~ok THEN "panic"
                      ELSE IF v.moved THEN "give"
                      ELSE IF line.pool > 0 THEN "free" ELSE "ready")
    /\ UNCHANGED <<line, val, view, out, stopped, free, verdict>>

\* Fault: the segment is left without counting the switch.
GiveUncounted(t) ==
    /\ at[t] = "give"
    /\ Goto(t, "ready")
    /\ UNCHANGED <<line, ring, val, view, out, in, stopped, stops, next, free, verdict>>

\* The SPSC consumer follows a MOVED message and gives its segment back.
Give(t) ==
    /\ at[t] = "give"
    /\ ring' = [ring EXCEPT ![Rx(t)].cl = @ + 1]
    /\ Goto(t, "ready")
    /\ UNCHANGED <<line, val, view, out, in, stopped, stops, next, free, verdict>>

\* The pool cells take the buffer back and free it, the STOP message's too.
FreeBuf(t) ==
    /\ at[t] = "free"
    /\ free' = free + 1
    /\ Goto(t, "ready")
    /\ UNCHANGED <<line, ring, val, view, out, in, stopped, stops, next, verdict>>

-----------------------------------------------------------------------------
\* A thread returns; main has the worker to join first.
Exit(t) ==
    /\ at[t] = "ready" /\ ~WantsSend(t) /\ ~WantsRecv(t)
    /\ t = "main" => at["worker"] = "exit"
    /\ Goto(t, "exit")
    /\ UNCHANGED <<line, ring, val, view, out, in, stopped, stops, next, free, verdict>>

\* The stress lines end on assertions: one more reserve finds the ring drained
\* (passing the seals on its way), and both sides switched as often.
Report ==
    /\ verdict = "run" /\ \A t \in Threads(line) : at[t] = "exit"
    /\ LET r == ring["req"]
           cl == IF line.body \in {"burst_1t", "lagging_2t"} /\ CanFollow(r)
                 THEN r.pl ELSE r.cl
           drained == line.body \in {"burst_1t", "lagging_2t"} => r.q = <<>>
           agree == line.body \in {"burst_1t", "lagging_2t", "stream_2t"} => r.pl = cl
       IN  /\ ring' = [ring EXCEPT !["req"].cl = cl]
           /\ verdict' = IF drained /\ agree THEN "ok" ELSE "panic"
    /\ UNCHANGED <<line, at, val, view, out, in, stopped, stops, next, free>>

ThreadNext(t) ==
    \/ StartSend(t) \/ Alloc(t)
    \/ SpscReserve(t) \/ SpscLook(t) \/ SpscMove(t) \/ SpscPublish(t)
    \/ MpscClaim(t) \/ MpscFull(t) \/ MpscMove(t)
    \/ Follow(t) \/ Take(t) \/ Release(t) \/ Give(t) \/ FreeBuf(t)
    \/ Exit(t)

StreamNext == (\E t \in Threads(line) : ThreadNext(t)) \/ Report

=============================================================================
