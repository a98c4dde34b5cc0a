------------------------------ MODULE Programs ------------------------------
(***************************************************************************)
(* The programs that use the crate: a line of the demo or of tp_matrix     *)
(* (Streams), or commands of zcr-test-ipm (Ipm).  A behaviour is of one    *)
(* program.                                                                *)
(***************************************************************************)
EXTENDS Streams, Ipm

VARIABLE program

vars == <<program, streamVars, ipmVars>>

NotRun == <<>>

StreamsNotRun ==
    /\ line = NotRun /\ ring = NotRun /\ at = NotRun /\ val = NotRun /\ view = NotRun
    /\ out = NotRun /\ in = NotRun /\ stopped = NotRun /\ stops = NotRun
    /\ next = NotRun /\ free = NotRun /\ verdict = NotRun

IpmNotRun ==
    /\ ver = NotRun /\ file = NotRun /\ q = NotRun /\ cons = NotRun /\ prods = NotRun
    /\ st = NotRun /\ k = NotRun /\ guard = NotRun /\ seen = NotRun /\ log = NotRun

Init ==
    \/ program = "streams" /\ StreamInit /\ IpmNotRun
    \/ program = "ipm" /\ IpmInit /\ StreamsNotRun

Next ==
    \/ program = "streams" /\ StreamNext /\ UNCHANGED <<program, ipmVars>>
    \/ program = "ipm" /\ IpmNext /\ UNCHANGED <<program, streamVars>>

\* Threads and processes that have not ended go on running: the scheduler is
\* fair, and every wait of zcr-test-ipm has a deadline.
Steps(t) ==
    /\ program = "streams" /\ t \in Threads(line) /\ ThreadNext(t)
    /\ UNCHANGED <<program, ipmVars>>

Runs ==
    /\ program = "ipm" /\ \E p \in Procs(ver) : Running(p) /\ ProcessNext(p)
    /\ UNCHANGED <<program, streamVars>>

Fairness ==
    /\ \A t \in AllThreads : WF_vars(Steps(t))
    /\ WF_vars(program = "streams" /\ Report /\ UNCHANGED <<program, ipmVars>>)
    /\ WF_vars(Runs)

Spec == Init /\ [][Next]_vars /\ Fairness

-----------------------------------------------------------------------------
(* Properties.                                                             *)

\* No assertion or unwrap of a loop ever fires: each producer's messages come
\* in order, the one-thread loops never meet Full, Empty or Exhausted, echoes
\* match across the counter's wrap, the stress lines end drained, and both
\* sides of a ring count the same switches ("switch counts differ").
NoPanic ==
    program = "streams" =>
        verdict # "panic" /\ \A t \in Threads(line) : at[t] # "panic"

Total(f) == MapThenSumSet(LAMBDA t : f[t], DOMAIN f)

\* What a finished line reports is what happened: as many reads as sends, a
\* sentinel read for each one sent, nothing left in a ring and every buffer
\* back in its pool.
ReportsAll ==
    program = "streams" /\ verdict = "ok" =>
        /\ Total(in) = Total(out) /\ stops = Cardinality(stopped)
        /\ \A r \in DOMAIN ring : ring[r].q = <<>>
        /\ free = line.pool

Numbers(p) ==
    LET mine == SelectSeq(log \o q, LAMBDA m : m.from = p)
    IN  [j \in DOMAIN mine |-> mine[j].i]

\* Consumer processes come and go, in time or not, and every producer's stream
\* goes on exactly where it stopped: what was read and what waits is 0, 1, 2,
\* ... up to what it has sent.  A released ring is used by nobody.
HandoverExact ==
    program = "ipm" =>
        /\ \A p \in Senders(ver) :
             /\ Numbers(p) = [j \in 1 .. Len(Numbers(p)) |-> j - 1]
             /\ p \in prods => Len(Numbers(p)) = k[p]
        /\ file = "released" => \A p \in Procs(ver) : st[p] \notin {"reading", "got", "sending"}

Ended ==
    IF program = "streams" THEN verdict # "run"
    ELSE \A p \in Procs(ver) : ~Running(p)

\* Every line ends, whatever its shape: no thread spins for room or for a
\* message that cannot come, and every process exits.
Finishes == <>[]Ended

=============================================================================
