----------------------------- MODULE Lifecycle -----------------------------
(***************************************************************************)
(* From bytes to rings and back: a region is laid out and attached to      *)
(* (Regions), and once every process is attached to a v0 pool, rings of    *)
(* segments are made in it, attached to, used and released (SegmentRings). *)
(* The two phases share nothing but the finished pool, so a behaviour here *)
(* is of one phase: the second starts where the first can end.             *)
(***************************************************************************)
EXTENDS SegmentRings

CONSTANTS Versions,   \* the rings of segments to check
          PoolLines   \* lines of a buffer of the pool they are in

\* The first phase: no ring of segments yet.
NoVersion == "none"

\* The second starts from a pool laid out for Bufs, attached by every process.
PoolReady ==
    LET g == <<[size |-> PoolLines * L, count |-> Cardinality(Bufs)]>>
        n == region_size_pool0(g, L)
    IN  /\ kind = "pool0" /\ len = n /\ ipc = "done" /\ geo = g /\ todo = {}
        /\ mem = Finished("pool0", g)
        /\ handle = [p \in Procs |->
                       [pc |-> "attached", kind |-> "pool0", line |-> L, len |-> n, geo |-> g]]

Init ==
    \/ RegionInit /\ SegInit({NoVersion})
    \/ PoolReady /\ SegInit(Versions)

Next ==
    \/ version = NoVersion /\ RegionNext /\ UNCHANGED segVars
    \/ version # NoVersion /\ SegNext /\ UNCHANGED regionVars

vars == <<regionVars, segVars>>

Spec == Init /\ [][Next]_vars

=============================================================================
