----------------------------- MODULE MCPrograms -----------------------------
EXTENDS Programs, TLC

Line(body, family, segs, depth, producers, pool) ==
    [body |-> body, family |-> family, segs |-> segs, depth |-> depth,
     producers |-> producers, pool |-> pool]

\* Shapes from one slot to two segments of two, and the demo's many segments of
\* one slot; the pool cells have fewer, as many and more buffers than slots.
MCLines ==
    {Line(b, f, s, d, 1, 0) :
        b \in Solo \cup Counted, f \in {"spsc", "mpsc"}, s \in {1, 2}, d \in {1, 2}}
    \cup {Line(b, f, 3, 1, 1, 0) : b \in {"burst_1t", "stream_2t"}, f \in {"spsc", "mpsc"}}
    \cup {Line("cell", f, s, 1, 1, 0) : f \in {"spsc", "mpsc"}, s \in {1, 2}}
    \cup {Line("two_t", "mpsc", s, d, 2, 0) : s \in {1, 2}, d \in {1, 2}}
    \cup {Line("timed", "spsc", s, d, 1, 0) : s \in {1, 2}, d \in {1, 2}}
    \cup {Line("timed", "mpsc", s, 1, n, 0) : s \in {1, 2}, n \in {1, 2}}
    \cup {Line("pool", f, 1, 2, 1, n) : f \in {"spsc", "mpsc"}, n \in {1, 2, 3}}
    \cup {Line("two_t", f, 1, 2, 1, n) : f \in {"spsc", "mpsc"}, n \in {1, 2}}
    \cup {Line("one_t", "mpsc", 1, 2, 1, 1)}

Run(what, n) == [what |-> what, n |-> n]

\* Two rounds of the SPSC pair; two producers and two consumers that each read
\* half, and a release that may come too early; for v4 also the wrong wait.
MCCommands ==
    LET mpsc == [c1 |-> Run("new", 3), c2 |-> Run("join", 3), p1 |-> Run("producer", 3),
                 p2 |-> Run("producer", 3), r |-> Run("release", 0)]
    IN  [spsc4 |-> [c1 |-> Run("new", 1), c2 |-> Run("new", 1),
                    p1 |-> Run("producer", 1), p2 |-> Run("producer", 1)],
         mpsc3 |-> mpsc,
         mpsc4 |-> mpsc @@ [w |-> Run("wrong-wait", 0)]]

=============================================================================
