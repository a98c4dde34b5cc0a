-------------------------------- MODULE Ipm --------------------------------
(***************************************************************************)
(* zcr-test-ipm: processes that share a ring through a file in /dev/shm.   *)
(* A consumer makes the region (new) or joins it, producers and later      *)
(* consumers come and go, and a release ends the ring.  A process is one   *)
(* command of the program, run once, at any time; it fails where the code  *)
(* returns an Err, and a failed process never gives its role back, as no   *)
(* endpoint releases on drop.                                              *)
(*                                                                         *)
(* The ring is its queue of messages and its roles.  A message is its      *)
(* producer and its number; checksums always match, since a message is     *)
(* whole here.  How attach, the roles and the release work inside is       *)
(* SegmentRings.                                                           *)
(***************************************************************************)
EXTENDS Integers, Sequences, FiniteSets

CONSTANTS Commands,            \* per version: the process that runs each command
          IpmDepth, IpmSegs,   \* DEPTH and SEGMENTS or MPSC_SEGMENTS
          Nobody

VARIABLES ver,          \* "spsc4", "mpsc3" or "mpsc4": each has a file of its own
          file,         \* what the region holds
          q,            \* unread messages
          cons, prods,  \* the consumer role's holder and the producer roles'
          st,           \* every process's place
          k,            \* messages it has moved
          guard,        \* the message a consumer's read guard is on
          seen,         \* a consumer's: each producer's last number, or -1
          log           \* history: messages released, of this region's ring

ipmVars == <<ver, file, q, cons, prods, st, k, guard, seen, log>>

Procs(v) == DOMAIN Commands[v]
Cmd(p) == Commands[ver][p]
Senders(v) == {p \in Procs(v) : Commands[v][p].what = "producer"}

Running(p) == st[p] \notin {"off", "ok", "failed"}
Done(p, end) == st' = [st EXCEPT ![p] = end]

IpmInit ==
    /\ ver \in DOMAIN Commands
    /\ file = "none" /\ q = <<>> /\ cons = Nobody /\ prods = {}
    /\ st = [p \in Procs(ver) |-> "off"] /\ k = [p \in Procs(ver) |-> 0]
    /\ guard = [p \in Procs(ver) |-> Nobody]
    /\ seen = [p \in Procs(ver) |-> [s \in Senders(ver) |-> -1]]
    /\ log = <<>>

-----------------------------------------------------------------------------
\* map_at with create: the file is truncated and sized, so what a ring left
\* there is gone.  Two uses of the hard-coded file never run beside each other.
MapNew(p) ==
    /\ st[p] = "off" /\ Cmd(p).what = "new"
    /\ \A o \in Procs(ver) : ~Running(o)
    /\ file' = "zeroed" /\ q' = <<>> /\ cons' = Nobody /\ prods' = {} /\ log' = <<>>
    /\ Done(p, "mapped")
    /\ UNCHANGED <<ver, k, guard, seen>>

\* Pool::init, then Ring::init: a fresh pool's first buffer is FIRST_SEGMENT.
InitNew(p) ==
    /\ st[p] = "mapped"
    /\ file' = IF file = "zeroed" THEN "pool" ELSE "ring"
    /\ Done(p, IF file = "zeroed" THEN "mapped" ELSE "attached")
    /\ UNCHANGED <<ver, q, cons, prods, k, guard, seen, log>>

\* map_at without create, Pool::attach, Ring::attach: only a finished,
\* unreleased ring is attached to.
Attach(p) ==
    /\ st[p] = "off" /\ Cmd(p).what \in {"join", "producer", "release"}
    /\ Done(p, IF file = "ring" THEN "attached" ELSE "failed")
    /\ UNCHANGED <<ver, file, q, cons, prods, k, guard, seen, log>>

\* The attach as a ring that only spins: success is being refused.
AttachWrongWait(p) ==
    /\ st[p] = "off" /\ Cmd(p).what = "wrong-wait"
    /\ Done(p, IF file = "ring" THEN "ok" ELSE "failed")
    /\ UNCHANGED <<ver, file, q, cons, prods, k, guard, seen, log>>

\* Fault: a held role is handed out again.
ClaimConsumerHeld(p) ==
    /\ st[p] = "attached" /\ Cmd(p).what \in {"new", "join"}
    /\ IF file = "ring"
       THEN cons' = p /\ Done(p, "reading")
       ELSE UNCHANGED cons /\ Done(p, "failed")
    /\ UNCHANGED <<ver, file, q, prods, k, guard, seen, log>>

\* claim_consumer, or mpsc v4's consumer: RoleHeld or RingClosed fail.
ClaimConsumer(p) ==
    /\ st[p] = "attached" /\ Cmd(p).what \in {"new", "join"}
    /\ IF file = "ring" /\ cons = Nobody
       THEN cons' = p /\ Done(p, "reading")
       ELSE UNCHANGED cons /\ Done(p, "failed")
    /\ UNCHANGED <<ver, file, q, prods, k, guard, seen, log>>

\* claim_producer: the SPSC ring has one producer role.
ClaimProducer(p) ==
    /\ st[p] = "attached" /\ Cmd(p).what = "producer"
    /\ IF file = "ring" /\ (ver = "spsc4" => prods = {})
       THEN prods' = prods \cup {p} /\ Done(p, "sending")
       ELSE UNCHANGED prods /\ Done(p, "failed")
    /\ UNCHANGED <<ver, file, q, cons, k, guard, seen, log>>

-----------------------------------------------------------------------------
\* A message goes out, numbered from 0 in this process ...
SendOne(p) ==
    /\ st[p] = "sending" /\ k[p] < Cmd(p).n
    /\ Len(q) < IpmSegs * IpmDepth
    /\ q' = Append(q, [from |-> p, i |-> k[p]])
    /\ k' = [k EXCEPT ![p] = @ + 1]
    /\ UNCHANGED <<ver, file, cons, prods, st, guard, seen, log>>

\* ... or the wait for room ends, at once in SPSC: the producer's segment is
\* full of unread messages and no other was free when it looked, in SPSC at
\* its last commit.  A segment drained since, and not yet given back, is no
\* room, so there may be as few as one segment's messages unread.
GiveUpSend(p) ==
    /\ st[p] = "sending" /\ k[p] < Cmd(p).n
    /\ Len(q) >= IpmDepth
    /\ Done(p, "failed")
    /\ UNCHANGED <<ver, file, q, cons, prods, k, guard, seen, log>>

\* prod.release().
EndSend(p) ==
    /\ st[p] = "sending" /\ k[p] = Cmd(p).n
    /\ prods' = prods \ {p}
    /\ Done(p, "ok")
    /\ UNCHANGED <<ver, file, q, cons, k, guard, seen, log>>

\* A read guard on the oldest message ...
ReadOne(p) ==
    /\ st[p] = "reading" /\ k[p] < Cmd(p).n /\ q # <<>>
    /\ guard' = [guard EXCEPT ![p] = Head(q)]
    /\ Done(p, "got")
    /\ UNCHANGED <<ver, file, q, cons, prods, k, seen, log>>

\* ... is released, and the number is the producer's next, or its first seen here.
ReleaseOne(p) ==
    /\ st[p] = "got"
    /\ LET m == guard[p]
           last == seen[p][m.from]
       IN  /\ q' = SubSeq(q, 2, Len(q))
           /\ log' = Append(log, m)
           /\ seen' = [seen EXCEPT ![p][m.from] = m.i]
           /\ k' = [k EXCEPT ![p] = @ + 1]
           /\ Done(p, IF last = -1 \/ m.i = last + 1 THEN "reading" ELSE "failed")
    /\ guard' = [guard EXCEPT ![p] = Nobody]
    /\ UNCHANGED <<ver, file, cons, prods>>

\* The deadline passes with the ring empty.
GiveUpRead(p) ==
    /\ st[p] = "reading" /\ k[p] < Cmd(p).n /\ q = <<>>
    /\ Done(p, "failed")
    /\ UNCHANGED <<ver, file, q, cons, prods, k, guard, seen, log>>

\* cons.release(); the SPSC consumer just exits.
EndRead(p) ==
    /\ st[p] = "reading" /\ k[p] = Cmd(p).n
    /\ cons' = IF ver = "spsc4" THEN cons ELSE Nobody
    /\ Done(p, "ok")
    /\ UNCHANGED <<ver, file, q, prods, k, guard, seen, log>>

\* release_ring: RingInUse while any role is held, RingClosed the second time.
ReleaseRing(p) ==
    /\ st[p] = "attached" /\ Cmd(p).what = "release"
    /\ IF file = "ring" /\ cons = Nobody /\ prods = {}
       THEN file' = "released" /\ Done(p, "ok")
       ELSE UNCHANGED file /\ Done(p, "failed")
    /\ UNCHANGED <<ver, q, cons, prods, k, guard, seen, log>>

ProcessNext(p) ==
    \/ MapNew(p) \/ InitNew(p) \/ Attach(p) \/ AttachWrongWait(p)
    \/ ClaimConsumer(p) \/ ClaimProducer(p)
    \/ SendOne(p) \/ GiveUpSend(p) \/ EndSend(p)
    \/ ReadOne(p) \/ ReleaseOne(p) \/ GiveUpRead(p) \/ EndRead(p)
    \/ ReleaseRing(p)

IpmNext == \E p \in Procs(ver) : ProcessNext(p)

=============================================================================
