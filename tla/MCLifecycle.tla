---------------------------- MODULE MCLifecycle ----------------------------
(* Lifecycle, with geometries good and bad for each of the flat kinds, and *)
(* for the rings of segments.                                              *)
EXTENDS Lifecycle

Entry(size, count) == [size |-> size, count |-> count]

MCGeometries ==
    {<<Entry(4, c)>> : c \in {0, 1, 2, 3, 8}} \cup
    {<<Entry(8, 8)>>, <<Entry(2, 2)>>,
     <<Entry(8, 1), Entry(4, 2)>>, <<Entry(4, 1), Entry(4, 1)>>}

Ask(slot, cap, n, mode, wake) ==
    [slot |-> slot, cap |-> cap, n |-> n, mode |-> mode, wake |-> wake]

MCAsks ==
    {Ask(4, 2, 1, "multi", "spin"), Ask(4, 2, 2, "multi", "spin"), Ask(4, 2, 1, "single", "futex"),
     Ask(4, 2, 2, "single", "spin"), Ask(2, 2, 1, "multi", "spin"), Ask(4, 3, 1, "multi", "spin"),
     Ask(4, 4, 1, "multi", "futex"), Ask(4, 1, 4, "multi", "spin")}

=============================================================================
