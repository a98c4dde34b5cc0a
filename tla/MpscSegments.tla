---------------------------- MODULE MpscSegments ----------------------------
(***************************************************************************)
(* The MPSC v2 ring: MpscSeq's claims and seq words over SpscSegments'     *)
(* segments.  One claim word names the current segment and the next        *)
(* position in it.  A producer at a full segment takes a free one by its   *)
(* bit in the in-use word, swings the claim word to it and then seals the  *)
(* segment it left with the end position and the segment that follows.     *)
(* The consumer looks at a seal only when a slot is neither committed nor  *)
(* tombstoned, and gives the segment back when it passes the end.          *)
(*                                                                         *)
(* Words are records of their bit fields and the in-use mask is a set.     *)
(* The bytes of a message are one value: what MpscSeq shows of torn reads  *)
(* is here that no fill overlaps another or the read.  `chain` and       *)
(* `switchLead` are history, read by no action; `sent` only bounds a       *)
(* run.                                                                    *)
(***************************************************************************)
EXTENDS Integers, Sequences, FiniteSetsExt, TLC

CONSTANTS M,          \* seg_capacity: slots per segment
          W,          \* the number of positions, 2^SEQ_BITS
          seg_count,
          Producers, Msg, NoMsg,
          Open, Dead, \* the places of ClaimQueue that hold no message
          MaxSends    \* bound: calls of send_with in a run

\* MAX_SEG_CAPACITY is a quarter of the positions.
ASSUME GeometryAssumption ==
    /\ M \in Nat \ {0} /\ seg_count \in Nat \ {0}
    /\ W \in Nat /\ W % M = 0 /\ 4 * M <= W
    /\ NoMsg \notin Msg /\ MaxSends \in Nat

Segs  == 0 .. seg_count - 1
Slots == 0 .. M - 1
Seqs  == 0 .. W - 1

VARIABLES
    claim, in_use, seal,     \* the header words
    seq, buf,                \* every slot's word and message, per segment
    pc, w, k, start,         \* every producer: the claim word it loaded, the
                             \* segment it took and that one's resume position
    cpc, cur, cpos, resume,  \* ConsumerState
    rseal, got,              \* the seal it loaded; the message it has read
    chain,                   \* history: claimed, unreleased slots, oldest first
    sent,                    \* calls of send_with so far
    switchLead               \* producer switches less consumer switches

ringVars == <<claim, in_use, seal, seq, buf>>
prodVars == <<pc, w, k, start>>
consVars == <<cpc, cur, cpos, resume, rseal, got>>
history  == <<chain, sent, switchLead>>
vars == <<ringVars, prodVars, consVars, history>>

seq_of(n) == n % W
Slot(n)   == n % M

Claimable(p)  == [seq |-> p, dead |-> FALSE]
Committed(p)  == [seq |-> seq_of(p + M + 1), dead |-> FALSE]
Tombstoned(p) == [Committed(p) EXCEPT !.dead = TRUE]
Released(p)   == [seq |-> seq_of(p + M), dead |-> FALSE]

word(s, p)  == [seg |-> s, pos |-> seq_of(p)]
NoSeal      == [moved |-> FALSE, seg |-> 0, pos |-> 0]
SeqAt(a)    == seq[a.seg][Slot(a.pos)]
SetSeq(a, v) == seq' = [seq EXCEPT ![a.seg][Slot(a.pos)] = v]

Init ==
    /\ claim = word(0, 0) /\ in_use = {0} /\ seal = [s \in Segs |-> NoSeal]
    /\ seq = [s \in Segs |-> [i \in Slots |-> Claimable(i)]]
    /\ buf = [s \in Segs |-> [i \in Slots |-> NoMsg]]
    /\ pc = [p \in Producers |-> "idle"] /\ w = [p \in Producers |-> word(0, 0)]
    /\ k = [p \in Producers |-> 0] /\ start = [p \in Producers |-> 0]
    /\ cpc = "idle" /\ cur = 0 /\ cpos = 0 /\ resume = [s \in Segs |-> 0]
    /\ rseal = NoSeal /\ got = NoMsg
    /\ chain = <<>> /\ sent = 0 /\ switchLead = 0

Goto(p, l) == pc' = [pc EXCEPT ![p] = l]

\* send_with returns: its locals go out of scope.
Return(p) ==
    /\ Goto(p, "idle")
    /\ w' = [w EXCEPT ![p] = word(0, 0)]
    /\ UNCHANGED <<k, start>>

\* switch returns to the loop of send_with, which loads the claim word again.
SwitchEnds(p) ==
    /\ Goto(p, "load")
    /\ w' = [w EXCEPT ![p] = word(0, 0)]
    /\ k' = [k EXCEPT ![p] = 0]
    /\ start' = [start EXCEPT ![p] = 0]

-----------------------------------------------------------------------------
(* MpscProducer::send_with.                                                *)

\* Load the claim word, at the call or for another turn of the loop.
Send(p) ==
    /\ pc[p] \in {"idle", "load"}
    /\ \/ pc[p] = "load" /\ UNCHANGED sent
       \/ pc[p] = "idle" /\ sent < MaxSends /\ sent' = sent + 1
    /\ w' = [w EXCEPT ![p] = claim]
    /\ Goto(p, "probe")
    /\ UNCHANGED <<ringVars, k, start, consVars, chain, switchLead>>

\* Load the slot's word and compare it with the position.
Probe(p) ==
    /\ pc[p] = "probe"
    /\ Goto(p, IF SeqAt(w[p]) = Claimable(w[p].pos) THEN "claim" ELSE "reread")
    /\ UNCHANGED <<ringVars, w, k, start, consVars, history>>

\* A producer that has looked at the slot of its view and has not tried its
\* compare-and-swap yet.
Looked(p) == pc[p] \in {"claim", "reread", "free", "take", "load seal", "clear seal", "swap"}

\* The positions of a segment do not go all the way round during one such
\* look.  (The claim word may come back to it by leaving the segment and
\* returning.)
NoWholeWrap(a) == \A q \in Producers : Looked(q) => w[q] # a

\* The compare-and-swap succeeds: the position is this producer's.
Claim(p) ==
    /\ pc[p] = "claim"
    /\ claim = w[p]
    /\ NoWholeWrap(word(w[p].seg, w[p].pos + 1))
    /\ claim' = word(w[p].seg, w[p].pos + 1)
    /\ chain' = Append(chain, w[p])
    /\ Goto(p, "fill")
    /\ UNCHANGED <<in_use, seal, seq, buf, w, k, start, consVars, sent, switchLead>>

\* It fails, because the word moved or spuriously (a weak CAS).
LoseClaim(p) ==
    /\ pc[p] = "claim"
    /\ w' = [w EXCEPT ![p] = claim]
    /\ Goto(p, "probe")
    /\ UNCHANGED <<ringVars, k, start, consVars, history>>

\* Not claimable: a stale word, or a full segment if the word has not moved.
Reread(p) ==
    /\ pc[p] = "reread"
    /\ w' = [w EXCEPT ![p] = claim]
    /\ Goto(p, IF claim = w[p] THEN "free" ELSE "probe")
    /\ UNCHANGED <<ringVars, k, start, consVars, history>>

\* The fill closure writes the message ...
Fill(p) ==
    /\ pc[p] = "fill"
    /\ \E m \in Msg : buf' = [buf EXCEPT ![w[p].seg][Slot(w[p].pos)] = m]
    /\ Goto(p, "filled")
    /\ UNCHANGED <<claim, in_use, seal, seq, w, k, start, consVars, history>>

\* ... and the return of the closure publishes it.
Commit(p) ==
    /\ pc[p] = "filled"
    /\ SetSeq(w[p], Committed(w[p].pos))
    /\ Return(p)
    /\ UNCHANGED <<claim, in_use, seal, buf, consVars, history>>

\* The closure panicked: TombstoneOnUnwind publishes the marked commit.
Unwind(p) ==
    /\ pc[p] \in {"fill", "filled"}
    /\ SetSeq(w[p], Tombstoned(w[p].pos))
    /\ Return(p)
    /\ UNCHANGED <<claim, in_use, seal, buf, consVars, history>>

-----------------------------------------------------------------------------
(* MpscProducer::switch.                                                   *)

\* Load the in-use word and pick the lowest free segment ...
FindFree(p) ==
    /\ pc[p] = "free"
    /\ Segs \ in_use # {}
    /\ k' = [k EXCEPT ![p] = Min(Segs \ in_use)]
    /\ Goto(p, "take")
    /\ UNCHANGED <<ringVars, w, start, consVars, history>>

\* ... or none is free: on_full retries or gives up with Err(Full).
Full(p) ==
    /\ pc[p] = "free"
    /\ Segs \ in_use = {}
    /\ SwitchEnds(p) \/ Return(p)
    /\ UNCHANGED <<ringVars, consVars, history>>

\* fetch_or of the bit: the segment is ours if it was clear.
Take(p) ==
    /\ pc[p] = "take"
    /\ in_use' = in_use \cup {k[p]}
    /\ Goto(p, IF k[p] \in in_use THEN "free" ELSE "load seal")
    /\ k' = IF k[p] \in in_use THEN [k EXCEPT ![p] = 0] ELSE k
    /\ UNCHANGED <<claim, seal, seq, buf, w, start, consVars, history>>

LoadSeal(p) ==
    /\ pc[p] = "load seal"
    /\ start' = [start EXCEPT ![p] = seal[k[p]].pos]
    /\ Goto(p, "clear seal")
    /\ UNCHANGED <<ringVars, w, k, consVars, history>>

\* Fault: the old seal is left on the segment.
ClearSealSkipped(p) ==
    /\ pc[p] = "clear seal"
    /\ Goto(p, "swap")
    /\ UNCHANGED <<ringVars, w, k, start, consVars, history>>

ClearSeal(p) ==
    /\ pc[p] = "clear seal"
    /\ seal' = [seal EXCEPT ![k[p]] = NoSeal]
    /\ Goto(p, "swap")
    /\ UNCHANGED <<claim, in_use, seq, buf, w, k, start, consVars, history>>

\* Fault: the claim word is swung without comparing it.
SwingUnchecked(p) ==
    /\ pc[p] = "swap"
    /\ claim' = word(k[p], start[p])
    /\ Goto(p, "seal")
    /\ UNCHANGED <<in_use, seal, seq, buf, w, k, start, consVars, chain, sent, switchLead>>

\* The claim word still names the full segment: swing it to the new one.
Swing(p) ==
    /\ pc[p] = "swap"
    /\ claim = w[p]
    /\ claim' = word(k[p], start[p])
    /\ Goto(p, "seal")
    /\ UNCHANGED <<in_use, seal, seq, buf, w, k, start, consVars, chain, sent, switchLead>>

SealOld(p) ==
    /\ pc[p] = "seal"
    /\ seal' = [seal EXCEPT ![w[p].seg] = [moved |-> TRUE, seg |-> k[p], pos |-> w[p].pos]]
    /\ Goto(p, "count")
    /\ UNCHANGED <<claim, in_use, seq, buf, w, k, start, consVars, history>>

CountSwitch(p) ==
    /\ pc[p] = "count"
    /\ switchLead' = switchLead + 1
    /\ SwitchEnds(p)
    /\ UNCHANGED <<ringVars, consVars, chain, sent>>

\* The claim word moved under the attempt: put the seal back ...
LoseSwing(p) ==
    /\ pc[p] = "swap"
    /\ claim # w[p]
    /\ Goto(p, "restore")
    /\ UNCHANGED <<ringVars, w, k, start, consVars, history>>

RestoreSeal(p) ==
    /\ pc[p] = "restore"
    /\ seal' = [seal EXCEPT ![k[p]] = [NoSeal EXCEPT !.pos = start[p]]]
    /\ Goto(p, "untake")
    /\ UNCHANGED <<claim, in_use, seq, buf, w, k, start, consVars, history>>

\* Fault: the segment is kept.
UntakeForgotten(p) ==
    /\ pc[p] = "untake"
    /\ SwitchEnds(p)
    /\ UNCHANGED <<ringVars, consVars, history>>

\* ... and the bit.
Untake(p) ==
    /\ pc[p] = "untake"
    /\ in_use' = in_use \ {k[p]}
    /\ SwitchEnds(p)
    /\ UNCHANGED <<claim, seal, seq, buf, consVars, history>>

-----------------------------------------------------------------------------
(* MpscConsumer::reserve_slot_with and MpscReadSlot::release.              *)

Here == [seg |-> cur, pos |-> cpos]

ReadGuard ==
    /\ cpc = "idle"
    /\ SeqAt(Here) = Committed(cpos)
    /\ cpc' = "reading"
    /\ UNCHANGED <<ringVars, prodVars, cur, cpos, resume, rseal, got, history>>

\* An unwound producer's slot: release it and look at the next position.
Skip ==
    /\ cpc = "idle"
    /\ SeqAt(Here) = Tombstoned(cpos)
    /\ SetSeq(Here, Released(cpos))
    /\ cpos' = seq_of(cpos + 1)
    /\ chain' = Tail(chain)
    /\ UNCHANGED <<claim, in_use, seal, buf, prodVars, cpc, cur, resume, rseal, got,
                   sent, switchLead>>

\* Neither: a second look, at the segment's seal.
NotCommitted ==
    /\ cpc = "idle"
    /\ SeqAt(Here) \notin {Committed(cpos), Tombstoned(cpos)}
    /\ cpc' = "look"
    /\ UNCHANGED <<ringVars, prodVars, cur, cpos, resume, rseal, got, history>>

\* MOVED with the end position equal to this one: the segment has ended.
LookSeal ==
    /\ cpc = "look"
    /\ seal[cur].moved /\ seal[cur].pos = cpos
    /\ rseal' = seal[cur]
    /\ cpc' = "follow"
    /\ UNCHANGED <<ringVars, prodVars, cur, cpos, resume, got, history>>

\* Otherwise on_empty retries or gives up with Err(Empty).
NoMessage ==
    /\ cpc = "look"
    /\ ~(seal[cur].moved /\ seal[cur].pos = cpos)
    /\ cpc' = "idle"
    /\ UNCHANGED <<ringVars, prodVars, cur, cpos, resume, rseal, got, history>>

\* Give the segment back and go on where the next one was left.
Follow ==
    /\ cpc = "follow"
    /\ resume' = [resume EXCEPT ![cur] = cpos]
    /\ in_use' = in_use \ {cur}
    /\ cur' = rseal.seg
    /\ cpos' = resume'[rseal.seg]
    /\ switchLead' = switchLead - 1
    /\ rseal' = NoSeal
    /\ cpc' = "idle"
    /\ UNCHANGED <<claim, seal, seq, buf, prodVars, got, chain, sent>>

Read ==
    /\ cpc = "reading"
    /\ got' = buf[cur][Slot(cpos)]
    /\ cpc' = "read"
    /\ UNCHANGED <<ringVars, prodVars, cur, cpos, resume, rseal, history>>

DropRead ==
    /\ cpc \in {"reading", "read"}
    /\ got' = NoMsg
    /\ cpc' = "idle"
    /\ UNCHANGED <<ringVars, prodVars, cur, cpos, resume, rseal, history>>

Release ==
    /\ cpc = "read"
    /\ SetSeq(Here, Released(cpos))
    /\ cpos' = seq_of(cpos + 1)
    /\ got' = NoMsg
    /\ chain' = Tail(chain)
    /\ cpc' = "idle"
    /\ UNCHANGED <<claim, in_use, seal, buf, prodVars, cur, resume, rseal,
                   sent, switchLead>>

-----------------------------------------------------------------------------
SwitchNext(p) ==
    \/ FindFree(p) \/ Full(p) \/ Take(p) \/ LoadSeal(p) \/ ClearSeal(p)
    \/ Swing(p) \/ SealOld(p) \/ CountSwitch(p)
    \/ LoseSwing(p) \/ RestoreSeal(p) \/ Untake(p)

ProducerNext(p) ==
    \/ Send(p) \/ Probe(p) \/ Claim(p) \/ LoseClaim(p) \/ Reread(p)
    \/ Fill(p) \/ Commit(p) \/ Unwind(p)
    \/ SwitchNext(p)

ConsumerNext ==
    \/ ReadGuard \/ Skip \/ NotCommitted \/ LookSeal \/ NoMessage \/ Follow
    \/ Read \/ DropRead \/ Release

Next == ConsumerNext \/ \E p \in Producers : ProducerNext(p)

Spec == Init /\ [][Next]_vars

\* Producers are interchangeable.
Symmetry == Permutations(Producers)

-----------------------------------------------------------------------------
(* Derived state.                                                          *)

Filling(p) == pc[p] \in {"fill", "filled"}

\* Segments a producer has taken and not yet swung the ring to.
Holding(p) == pc[p] \in {"load seal", "clear seal", "swap", "restore", "untake"}
Held == {k[p] : p \in {q \in Producers : Holding(q)}}

\* Where the ring went from the end of a segment: its seal says so, or the
\* producer that is about to seal it.
Exits(s, n) ==
    {k[p] : p \in {q \in Producers : pc[q] = "seal" /\ w[q] = word(s, n)}}
    \cup (IF seal[s].moved /\ seal[s].pos = n THEN {seal[s].seg} ELSE {})

\* The address at which a reader that stands at a goes on.
Turn(a) ==
    IF Exits(a.seg, a.pos) = {} THEN a
    ELSE LET s == CHOOSE t \in Exits(a.seg, a.pos) : TRUE IN word(s, resume[s])

Settle(a) ==
    LET turn[n \in 0 .. seg_count] == IF n = 0 THEN a ELSE Turn(turn[n - 1])
    IN  turn[seg_count]

\* The segments from the consumer's to the claim word's.
Leads(s) ==
    {k[p] : p \in {q \in Producers : pc[q] = "seal" /\ w[q].seg = s}}
    \cup (IF seal[s].moved THEN {seal[s].seg} ELSE {})

Path ==
    LET path[n \in 0 .. seg_count] ==
            IF n = 0 THEN {cur}
            ELSE path[n - 1] \cup UNION {Leads(s) : s \in path[n - 1]}
    IN  path[seg_count]

-----------------------------------------------------------------------------
(* Properties.                                                             *)

\* The seals lead the consumer through exactly the claimed positions in claim
\* order and end at the claim word, so that no claim lands in a segment the
\* ring has left and none is passed over.
SealsFollowClaims ==
    LET after(i) == IF i = 0 THEN Here ELSE word(chain[i].seg, chain[i].pos + 1) IN
    /\ \A i \in 1 .. Len(chain) : chain[i] = Settle(after(i - 1))
    /\ Settle(after(Len(chain))) = claim

\* Segment s is ready for reuse.
Ready(s) ==
    /\ \A i \in Slots :
         LET n == seq_of(resume[s] + i) IN seq[s][Slot(n)] = Claimable(n)
    /\ \A p \in Producers : ~(Filling(p) /\ w[p].seg = s)
    /\ s \notin Held => seal[s].pos = resume[s]
    /\ \A p \in Producers :
         Holding(p) /\ k[p] = s /\ pc[p] # "load seal" => start[p] = resume[s]

\* The in-use word counts the segments between the consumer and the claim
\* word and those a switch is trying: none is lost and none has two owners.
\* With no send in progress the producers' count of switches leads the
\* consumer's by the segments the consumer has yet to enter.  A segment nobody
\* is in is ready for reuse: no fill is in it, its slots are claimable from the
\* position the consumer left it at, and that is the position its next taker
\* reads from its seal.
SegmentsAccounted ==
    /\ in_use = Path \cup Held
    /\ Path \cap Held = {}
    /\ \A p, q \in Producers : Holding(p) /\ Holding(q) /\ k[p] = k[q] => p = q
    /\ (\A p \in Producers : pc[p] = "idle") => switchLead = Cardinality(Path) - 1
    /\ \A s \in Segs \ Path : Ready(s)

Place(a) ==
    IF SeqAt(a) = Committed(a.pos) THEN buf[a.seg][Slot(a.pos)]
    ELSE IF SeqAt(a) = Tombstoned(a.pos) THEN Dead ELSE Open

Queue == INSTANCE ClaimQueue
             WITH queue <- [i \in 1 .. Len(chain) |-> Place(chain[i])],
                  held <- got, Capacity <- M * seg_count

\* The ring delivers in claim order, across segments.
ImplementsClaimQueue == Queue!QueueSpec

=============================================================================
