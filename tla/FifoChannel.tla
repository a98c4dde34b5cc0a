---------------------------- MODULE FifoChannel ----------------------------
(***************************************************************************)
(* What every single-consumer ring of the crate promises: a bounded first- *)
(* in first-out channel.  A message becomes visible to the consumer in one *)
(* step (the producer's commit), the consumer looks at the oldest message  *)
(* in place, may drop its guard (the same message is then delivered again) *)
(* or release it (the message leaves the channel).                         *)
(*                                                                         *)
(* The ring modules instantiate this module with a refinement mapping.     *)
(***************************************************************************)
EXTENDS Naturals, Sequences

CONSTANTS Msg,       \* the messages an application sends
          NoMsg,     \* the consumer holds no message
          Capacity   \* the most messages committed and not yet released

VARIABLES queue,     \* the committed, unreleased messages, oldest first
          held       \* the message the consumer has read in place, or NoMsg

chanVars == <<queue, held>>

ChanInit ==
    /\ queue = <<>>
    /\ held = NoMsg

\* A commit: the message joins the tail.
Send ==
    /\ Len(queue) < Capacity
    /\ \E m \in Msg : queue' = Append(queue, m)
    /\ UNCHANGED held

\* The consumer reads the oldest message in place.
Peek ==
    /\ queue # <<>>
    /\ held' = Head(queue)
    /\ UNCHANGED queue

\* The consumer's guard is dropped without a release: nothing is consumed.
PutBack ==
    /\ held' = NoMsg
    /\ UNCHANGED queue

\* The consumer releases the oldest message: the one it has read.
Take ==
    /\ queue # <<>> /\ held = Head(queue)
    /\ queue' = Tail(queue)
    /\ held' = NoMsg

ChanNext == Send \/ Peek \/ PutBack \/ Take

ChanSpec == ChanInit /\ [][ChanNext]_chanVars

=============================================================================
