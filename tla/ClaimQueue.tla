----------------------------- MODULE ClaimQueue -----------------------------
(***************************************************************************)
(* What a ring with several producers promises.  A producer claims the     *)
(* next place in the queue and fills it later, so places are taken in one  *)
(* order and filled in another.  The consumer meets the places in claim    *)
(* order: it waits at an open one, delivers a filled one and passes over   *)
(* one whose producer unwound.                                             *)
(***************************************************************************)
EXTENDS Naturals, Sequences

CONSTANTS Msg, NoMsg,
          Open,      \* a place claimed and not yet filled
          Dead,      \* a place whose fill panicked
          Capacity   \* the most places claimed and not yet released

VARIABLES queue,     \* the claimed, unreleased places, oldest first
          held       \* the message the consumer has read in place, or NoMsg

queueVars == <<queue, held>>

QueueInit == queue = <<>> /\ held = NoMsg

Claim ==
    /\ Len(queue) < Capacity
    /\ queue' = Append(queue, Open)
    /\ UNCHANGED held

\* A fill returns, or unwinds, in any order of the claims.
Resolve ==
    /\ \E i \in DOMAIN queue, v \in Msg \cup {Dead} :
         /\ queue[i] = Open
         /\ queue' = [queue EXCEPT ![i] = v]
    /\ UNCHANGED held

Peek ==
    /\ queue # <<>> /\ Head(queue) \in Msg
    /\ held' = Head(queue)
    /\ UNCHANGED queue

PutBack ==
    /\ held' = NoMsg
    /\ UNCHANGED queue

\* The message released is the one that was read.
Take ==
    /\ queue # <<>> /\ Head(queue) = held
    /\ queue' = Tail(queue)
    /\ held' = NoMsg

Skip ==
    /\ queue # <<>> /\ Head(queue) = Dead
    /\ queue' = Tail(queue)
    /\ UNCHANGED held

QueueNext == Claim \/ Resolve \/ Peek \/ PutBack \/ Take \/ Skip

QueueSpec == QueueInit /\ [][QueueNext]_queueVars

=============================================================================
