--------------------------- MODULE MpscWakeProofs ---------------------------
(***************************************************************************)
(* Proofs about MpscWake for every segment depth M, every range W of seq   *)
(* values and any finite number of producers: a consumer that sleeps has a *)
(* producer that will wake it, or nothing to receive and no producer       *)
(* asleep beside it.                                                       *)
(***************************************************************************)
EXTENDS MpscWake, RingLemmas, FiniteSetTheorems

Words == 0 .. W - 1
Word  == [pos : Words, waiting : BOOLEAN]

TypeOK ==
    /\ claim \in Word /\ seq \in [Slots -> Words]
    /\ prod_waiters \in Int /\ seen \subseteq Producers
    /\ pc \in [Producers -> {"idle", "load", "probe", "claim", "reread", "fill", "wake",
                             "count in", "see", "room word", "room seq", "wait", "asleep",
                             "count out"}]
    /\ w \in [Producers -> Word]
    /\ cpc \in {"look", "read", "empty", "check", "bump", "wake", "flag", "wait",
                "asleep", "unflag"}
    /\ cpos \in Words /\ after \in {"look", "flag"}

\* The position k places on from r, and the positions claimed and not released.
At(r, k) == seq_of(r + k)
Claimed  == seq_of(claim.pos - cpos)

\* A claimed position is committed or as its claim found it; a free one is
\* claimable.
WindowAgrees ==
    /\ Claimed <= M
    /\ \A k \in 0 .. M - 1 :
         LET n == At(cpos, k) IN
         /\ k < Claimed => seq[Slot(n)] \in {n, Committed(n)}
         /\ k >= Claimed => seq[Slot(n)] = n

FillersInside ==
    \A p \in Producers : pc[p] = "fill" =>
        /\ seq[Slot(w[p].pos)] = w[p].pos
        /\ \E k \in 0 .. M - 1 : k < Claimed /\ w[p].pos = At(cpos, k)

FillersApart ==
    \A p, q \in Producers : pc[p] = "fill" /\ pc[q] = "fill" /\ w[p].pos = w[q].pos => p = q

ClaimFresh ==
    \A p \in Producers : pc[p] = "claim" /\ w[p].pos = claim.pos =>
        seq[Slot(claim.pos)] = claim.pos

ReadsCommitted == cpc = "read" => seq[Slot(cpos)] = Committed(cpos)

\* The ring's part of the invariant.
RingInv == /\ TypeOK /\ WindowAgrees /\ FillersInside /\ FillersApart
           /\ ClaimFresh /\ ReadsCommitted

\* The waiting word counts the producers inside sleep_full.
Counted == {p \in Producers : pc[p] \in {"see", "room word", "room seq", "wait",
                                         "asleep", "count out"}}
WaitersCounted == prod_waiters = Cardinality(Counted)

\* Only the consumer clears its flag.
Flagged == cpc \in {"wait", "asleep", "unflag"} => claim.waiting = TRUE

\* p neither sleeps nor will on what it has read so far of an empty ring: its
\* look is yet to come, or of the position that is free, or its sequence old.
Dozes(p) == pc[p] = "wait" \/ (pc[p] = "room seq" /\ w[p].pos # cpos)

\* From its check for sleepers on, until something is claimed, the consumer
\* knows that no producer sleeps or will.
NoSleepers ==
    claim.pos = cpos =>
        /\ cpc \in {"flag", "wait", "asleep"} =>
             \A p \in Producers : pc[p] # "asleep" /\ (p \in seen => ~Dozes(p))
        /\ cpc = "wake" /\ after = "flag" =>
             \A p \in seen : pc[p] # "asleep" /\ ~Dozes(p)

\* The producer that claimed the sleeping consumer's position saw the flag.
ClaimSawFlag ==
    cpc = "asleep" /\ claim.pos # cpos =>
        \/ Wedged
        \/ \E p \in Producers : /\ w[p].waiting = TRUE
                                /\ pc[p] = "wake" \/ (pc[p] = "fill" /\ w[p].pos = cpos)

\* The inductive invariant.
IInv == RingInv /\ WaitersCounted /\ Flagged /\ NoSleepers /\ ClaimSawFlag

-----------------------------------------------------------------------------
(* Words and slots.                                                        *)

\* The range and the depth in the form the lemmas on remainders ask for.
LEMMA Ranges ==
    /\ M \in Nat \ {0} /\ W \in Nat \ {0} /\ M \in Int /\ W \in Int
    /\ W % M = 0 /\ M + 1 < W
BY GeometryAssumption

\* A seq value is a word, and a word is its own seq value.
LEMMA SeqOf ==
    /\ \A n \in Int : seq_of(n) \in Words
    /\ \A n \in Words : seq_of(n) = n
BY Ranges, ModDef, ModSmall DEF seq_of, Words

\* A position's slot is one of the segment's.
LEMMA SlotType == \A n \in Int : Slot(n) \in Slots
BY Ranges, ModDef DEF Slot, Slots

\* The three values of a slot's word at one position differ.
LEMMA WordsDiffer ==
    ASSUME NEW n \in Words
    PROVE  /\ Committed(n) \in Words /\ Released(n) \in Words
           /\ Committed(n) # n /\ Committed(n) # Released(n) /\ Released(n) # n
<1>1. /\ n \in Int /\ n + M + 1 = n + (M + 1) /\ n + 0 = n /\ n + M + 1 \in Int /\ n + M \in Int
      /\ 0 \in 0 .. W - 1 /\ M \in 0 .. W - 1 /\ M + 1 \in 0 .. W - 1
      /\ M # 0 /\ M + 1 # 0 /\ M + 1 # M
  BY Ranges DEF Words
<1>2. \A i, j \in 0 .. W - 1 : (n + i) % W = (n + j) % W => i = j
  BY <1>1, Ranges, OffsetInjective, Zenon
<1>3. n % W = n
  BY SeqOf DEF seq_of
<1>4. Committed(n) \in Words /\ Released(n) \in Words
  BY <1>1, SeqOf DEF Committed, Released
<1>5. Committed(n) = (n + (M + 1)) % W /\ Released(n) = (n + M) % W /\ n = (n + 0) % W
  BY <1>1, <1>3, Zenon DEF Committed, Released, seq_of
<1>6. Committed(n) # n
  BY <1>1, <1>2, <1>5, Zenon
<1>7. Committed(n) # Released(n)
  BY <1>1, <1>2, <1>5, Zenon
<1>8. Released(n) # n
  BY <1>1, <1>2, <1>5, Zenon
<1> QED BY <1>4, <1>6, <1>7, <1>8

\* The window from a position on: M words, each with a slot of its own, and
\* the first position of the next lap in the slot of the first.
LEMMA WindowSlots ==
    ASSUME NEW r \in Words
    PROVE  /\ At(r, 0) = r /\ 0 \in 0 .. M - 1
           /\ \A k \in 0 .. M : At(r, k) \in Words /\ Slot(At(r, k)) \in Slots
           /\ \A j, k \in 0 .. M - 1 : Slot(At(r, j)) = Slot(At(r, k)) => j = k
           /\ At(r, M) = Released(r) /\ Slot(At(r, M)) = Slot(r)
           /\ \A k \in 0 .. M - 1 : At(seq_of(r + 1), k) = At(r, k + 1)
<1>1. At(r, 0) = r /\ 0 \in 0 .. M - 1
  <2>1. r + 0 = r /\ 0 \in 0 .. M - 1
    BY Ranges DEF Words
  <2> QED BY <2>1, SeqOf DEF At
<1>2. \A k \in 0 .. M : At(r, k) \in Words /\ Slot(At(r, k)) \in Slots
  BY Ranges, WindowWords, Zenon DEF At, seq_of, Slot, Words, Slots
<1>3. \A j, k \in 0 .. M - 1 : Slot(At(r, j)) = Slot(At(r, k)) => j = k
  <2> SUFFICES ASSUME NEW j \in 0 .. M - 1, NEW k \in 0 .. M - 1,
                      Slot(At(r, j)) = Slot(At(r, k))
               PROVE  j = k
    OBVIOUS
  <2>1. W \in Nat \ {0} /\ M \in Nat \ {0} /\ W % M = 0
    BY Ranges
  <2>2. r \in 0 .. W - 1 /\ ((r + j) % W) % M = ((r + k) % W) % M
    BY DEF At, seq_of, Slot, Words
  <2> QED BY <2>1, <2>2, WindowInjective, Zenon
<1>4. At(r, M) = Released(r) /\ Slot(At(r, M)) = Slot(r)
  BY Ranges, WindowLap, Zenon DEF At, seq_of, Slot, Words, Released
<1>5. \A k \in 0 .. M - 1 : At(seq_of(r + 1), k) = At(r, k + 1)
  <2>1. \A k \in 0 .. M - 1 : k \in Nat
    OBVIOUS
  <2> QED BY <2>1, Ranges, WindowNext, Zenon DEF At, seq_of, Words
<1> QED BY <1>1, <1>2, <1>3, <1>4, <1>5

\* The claimed positions are the first Claimed ones of the window, and the
\* claim word names the next one.
LEMMA ClaimedWindow ==
    ASSUME TypeOK
    PROVE  /\ claim.pos \in Words /\ cpos \in Words /\ Claimed \in Words /\ Claimed \in Nat
           /\ claim.pos = At(cpos, Claimed)
           /\ Claimed = 0 <=> claim.pos = cpos
<1>1. claim.pos \in Words /\ cpos \in Words
  BY DEF TypeOK, Word
<1>2. PICK a \in Words : a = claim.pos
  BY <1>1
<1>3. Claimed \in Words /\ Claimed \in Nat
  BY <1>1, Ranges, SeqOf DEF Words, Claimed
<1>4. a = At(cpos, Claimed)
  BY <1>1, <1>2, Ranges, DistanceAdds, Zenon DEF Claimed, At, seq_of, Words
<1>5. Claimed = 0 => a = cpos
  BY <1>1, <1>4, WindowSlots
<1>6. a = cpos => Claimed = 0
  <2>1. cpos - cpos = 0 /\ 0 \in Words
    BY <1>1, Ranges DEF Words
  <2> QED BY <1>2, <2>1, SeqOf DEF Claimed
<1> QED BY <1>1, <1>2, <1>3, <1>4, <1>5, <1>6

-----------------------------------------------------------------------------
(* The ring.                                                               *)

\* A filler's slot: in the window and apart from every other filler's.
LEMMA FillerSlot ==
    ASSUME RingInv, NEW p \in Producers, pc[p] = "fill"
    PROVE  \E i \in 0 .. M - 1 :
             /\ i < Claimed /\ w[p].pos = At(cpos, i) /\ Slot(w[p].pos) \in Slots
             /\ seq[Slot(w[p].pos)] = w[p].pos /\ w[p].pos \in Words
             /\ \A k \in 0 .. M - 1 : k # i => Slot(At(cpos, k)) # Slot(w[p].pos)
             /\ \A q \in Producers : q # p /\ pc[q] = "fill" => Slot(w[q].pos) # Slot(w[p].pos)
<1>1. PICK i \in 0 .. M - 1 : i < Claimed /\ w[p].pos = At(cpos, i)
  BY DEF RingInv, FillersInside
<1>2. seq[Slot(w[p].pos)] = w[p].pos
  BY DEF RingInv, FillersInside
<1>3. cpos \in Words /\ i \in 0 .. M
  BY ClaimedWindow, Ranges DEF RingInv
<1>4. /\ Slot(w[p].pos) \in Slots /\ w[p].pos \in Words
      /\ \A k \in 0 .. M - 1 : k # i => Slot(At(cpos, k)) # Slot(w[p].pos)
  BY <1>1, <1>3, WindowSlots
<1>5. ASSUME NEW q \in Producers, q # p, pc[q] = "fill"
      PROVE  Slot(w[q].pos) # Slot(w[p].pos)
  <2>1. PICK j \in 0 .. M - 1 : w[q].pos = At(cpos, j)
    BY <1>5 DEF RingInv, FillersInside
  <2>2. w[q].pos # w[p].pos
    BY <1>5 DEF RingInv, FillersApart
  <2> QED BY <1>1, <1>4, <2>1, <2>2
<1> QED BY <1>1, <1>2, <1>4, <1>5

\* A claimable word at the claim position means a free slot.
LEMMA ClaimableMeansRoom ==
    ASSUME RingInv, seq[Slot(claim.pos)] = claim.pos
    PROVE  /\ Claimed \in 0 .. M - 1 /\ claim.pos = At(cpos, Claimed)
           /\ \A k \in 0 .. M - 1 : k # Claimed => Slot(At(cpos, k)) # Slot(claim.pos)
<1>1. cpos \in Words /\ Claimed \in Nat /\ Claimed <= M /\ claim.pos = At(cpos, Claimed)
  BY ClaimedWindow DEF RingInv, WindowAgrees
<1>2. Claimed # M
  <2> SUFFICES ASSUME Claimed = M
               PROVE  FALSE
    OBVIOUS
  <2>1. /\ claim.pos = Released(cpos) /\ Slot(claim.pos) = Slot(cpos)
        /\ At(cpos, 0) = cpos /\ 0 \in 0 .. M - 1 /\ 0 < Claimed
    BY <1>1, WindowSlots, Ranges
  <2>2. seq[Slot(cpos)] \in {cpos, Committed(cpos)}
    BY <2>1 DEF RingInv, WindowAgrees
  <2> QED BY <1>1, <2>1, <2>2, WordsDiffer
<1>3. Claimed \in 0 .. M - 1
  BY <1>1, <1>2, Ranges
<1> QED BY <1>1, <1>3, WindowSlots

\* Every step keeps every variable in its type.
LEMMA TypeStep == TypeOK /\ [Next]_vars => TypeOK'
<1> SUFFICES ASSUME TypeOK, [Next]_vars
             PROVE  TypeOK'
  OBVIOUS
<1>1. \A n \in Words : /\ n \in Int /\ n + 1 \in Int /\ Slot(n) \in Slots
                        /\ Released(n) \in Words /\ Committed(n) \in Words
                        /\ seq_of(n + 1) \in Words
  <2> SUFFICES ASSUME NEW n \in Words
               PROVE  /\ n \in Int /\ n + 1 \in Int /\ Slot(n) \in Slots
                      /\ Released(n) \in Words /\ Committed(n) \in Words
                      /\ seq_of(n + 1) \in Words
    OBVIOUS
  <2>1. n \in Int /\ n + 1 \in Int
    BY Ranges DEF Words
  <2> QED BY <2>1, SeqOf, SlotType, WordsDiffer
<1>2. \A n \in Int : n + 1 \in Int /\ n - 1 \in Int
  OBVIOUS
<1>3. /\ cpos \in Words /\ claim.pos \in Words /\ claim.waiting \in BOOLEAN
      /\ Slot(cpos) \in Slots /\ Released(cpos) \in Words /\ seq_of(cpos + 1) \in Words
      /\ seq_of(claim.pos + 1) \in Words
  <2>1. cpos \in Words /\ claim.pos \in Words /\ claim.waiting \in BOOLEAN
    BY DEF TypeOK, Word
  <2> QED BY <1>1, <2>1, Zenon
<1>4. \A b \in BOOLEAN : word(0, b) \in Word /\ word(claim.pos + 1, b) \in Word
  <2>1. 0 \in Int
    OBVIOUS
  <2>2. seq_of(0) \in Words
    BY <2>1, SeqOf, Zenon
  <2> QED BY <1>3, <2>2 DEF word, Word
<1>5. [claim EXCEPT !.waiting = TRUE] \in Word /\ [claim EXCEPT !.waiting = FALSE] \in Word
  BY DEF TypeOK, Word
<1>6. ASSUME NEW p \in Producers
      PROVE  Slot(w[p].pos) \in Slots /\ Committed(w[p].pos) \in Words
  <2>1. w[p].pos \in Words
    BY DEF TypeOK, Word
  <2> QED BY <1>1, <2>1, Zenon
<1> USE DEF TypeOK, ringVars, waitVars, prodVars, consVars
<1>7. CASE UNCHANGED vars
  BY <1>7 DEF vars
<1>8. CASE ConsumerNext
  <2>1. CASE Look \/ ReadPanics \/ EmptyAgain \/ EmptySleep \/ CheckWaiters \/ Bump
             \/ ConsumerFutexWait \/ ConsumerSleepEnds
    BY <2>1 DEF Look, ReadPanics, EmptyAgain, EmptySleep, CheckWaiters, Bump,
                ConsumerFutexWait, ConsumerSleepEnds
  <2>2. CASE Release
    BY <1>3, <2>2 DEF Release
  <2>3. CASE WakeAll
    BY <2>3 DEF WakeAll
  <2>4. CASE Flag
    BY <1>5, <2>4 DEF Flag
  <2>5. CASE Unflag
    BY <1>5, <2>5 DEF Unflag
  <2> QED BY <1>8, <2>1, <2>2, <2>3, <2>4, <2>5 DEF ConsumerNext, WakeNext, SleepEmptyNext
<1>9. ASSUME NEW p \in Producers, ProducerNext(p)
      PROVE  TypeOK'
  <2> USE DEF Goto, Return, Forget
  <2>1. CASE Send(p) \/ Probe(p) \/ LoseClaim(p) \/ Behind(p)
    BY <2>1 DEF Send, Probe, LoseClaim, Behind
  <2>2. CASE Claim(p)
    BY <1>3, <1>4, <2>2 DEF Claim
  <2>3. CASE Full(p)
    BY <1>4, <2>3 DEF Full, send_spin, send_spin_sleep
  <2>4. CASE Commit(p)
    BY <1>4, <1>6, <2>4 DEF Commit
  <2>5. CASE wake_consumer(p) \/ Panic(p)
    BY <1>4, <2>5 DEF wake_consumer, Panic
  <2>6. CASE CountIn(p) \/ CountOut(p)
    <3>0. prod_waiters' \in {prod_waiters + 1, prod_waiters - 1} /\ seen' \subseteq seen
      BY <2>6, Zenon DEF CountIn, CountOut
    <3>1. prod_waiters' \in Int /\ seen' \subseteq Producers
      BY <1>2, <3>0, Zenon
    <3>2. /\ pc' \in [Producers -> {"idle", "load", "probe", "claim", "reread", "fill", "wake",
                                    "count in", "see", "room word", "room seq", "wait", "asleep",
                                    "count out"}]
          /\ UNCHANGED <<ringVars, w, consVars, panics>>
      BY <2>6, Zenon DEF CountIn, CountOut
    <3> QED BY <3>1, <3>2
  <2>7. CASE LoadSeen(p) \/ RoomWord(p) \/ FutexWait(p) \/ SleepEnds(p)
    BY <2>7 DEF LoadSeen, RoomWord, FutexWait, SleepEnds
  <2>8. CASE RoomSeq(p)
    BY <1>4, <2>8 DEF RoomSeq
  <2> QED BY <1>9, <2>1, <2>2, <2>3, <2>4, <2>5, <2>6, <2>7, <2>8
          DEF ProducerNext, SendNext, SleepFullNext
<1> QED BY <1>7, <1>8, <1>9 DEF Next

\* A step that leaves the position of the claim word, the slots and the
\* consumer's position alone, starts no fill, and goes to its compare-and-swap
\* or its read only with a word that allows it.
LEMMA RingStill ==
    ASSUME RingInv, TypeOK', claim'.pos = claim.pos, seq' = seq, cpos' = cpos,
           \A q \in Producers : pc'[q] = "fill" => pc[q] = "fill" /\ w'[q].pos = w[q].pos,
           \A q \in Producers : pc'[q] = "claim" =>
               /\ w'[q].pos = w[q].pos
               /\ pc[q] = "claim" \/ seq[Slot(w[q].pos)] = w[q].pos,
           cpc' = "read" => cpc = "read" \/ seq[Slot(cpos)] = Committed(cpos)
    PROVE  RingInv' /\ Claimed' = Claimed
<1>1. Claimed' = Claimed
  BY DEF Claimed
<1>2. WindowAgrees'
  BY <1>1 DEF RingInv, WindowAgrees
<1>3. FillersInside' /\ FillersApart'
  BY <1>1 DEF RingInv, FillersInside, FillersApart
<1>4. ClaimFresh'
  BY DEF RingInv, ClaimFresh
<1>5. ReadsCommitted'
  BY DEF RingInv, ReadsCommitted
<1> QED BY <1>1, <1>2, <1>3, <1>4, <1>5 DEF RingInv

\* A successful compare-and-swap claims the first free position.
LEMMA ClaimRing ==
    ASSUME RingInv, TypeOK', NEW p \in Producers, Claim(p)
    PROVE  /\ RingInv' /\ claim'.pos # cpos /\ pc'[p] = "fill" /\ w[p] = claim
           /\ claim'.waiting = claim.waiting
<1> USE DEF Claim, Goto, waitVars, consVars
<1>1. seq[Slot(claim.pos)] = claim.pos /\ w[p].pos = claim.pos
  BY DEF RingInv, ClaimFresh
<1>2. /\ Claimed \in 0 .. M - 1 /\ claim.pos = At(cpos, Claimed)
      /\ \A k \in 0 .. M - 1 : k # Claimed => Slot(At(cpos, k)) # Slot(claim.pos)
  BY <1>1, ClaimableMeansRoom
<1>3. claim'.pos = seq_of(claim.pos + 1) /\ claim'.waiting = claim.waiting
  BY SeqOf, ClaimedWindow, Ranges DEF word, RingInv, Words
<1>4. Claimed' = Claimed + 1
  <2>1. cpos \in 0 .. W - 1 /\ claim.pos \in 0 .. W - 1 /\ W \in Nat \ {0} /\ Claimed + 1 < W
    BY <1>2, ClaimedWindow, Ranges DEF RingInv, Words
  <2>2. PICK a \in 0 .. W - 1 : a = claim.pos
    BY <2>1
  <2>3. (((a + 1) % W) - cpos) % W = ((a - cpos) % W) + 1
    BY <2>1, <2>2, DistanceUp, Zenon DEF Claimed, seq_of
  <2> QED BY <1>3, <2>2, <2>3, Zenon DEF Claimed, seq_of
<1>5. claim'.pos # cpos
  <2>1. cpos \in Words /\ cpos - cpos = 0 /\ 0 \in Words /\ Claimed' # 0
    BY <1>2, <1>4, ClaimedWindow, Ranges DEF RingInv, Words
  <2>2. seq_of(cpos - cpos) = 0
    BY <2>1, SeqOf
  <2> QED BY <2>1, <2>2 DEF Claimed
<1>6. /\ pc'[p] = "fill" /\ pc[p] # "fill"
      /\ \A q \in Producers : q # p => pc'[q] = pc[q]
  BY DEF RingInv, TypeOK
<1>7. WindowAgrees'
  <2>1. Claimed' <= M
    BY <1>2, <1>4, Ranges
  <2>2. ASSUME NEW k \in 0 .. M - 1, NEW n, n = At(cpos, k)
        PROVE  /\ k < Claimed + 1 => seq[Slot(n)] \in {n, Committed(n)}
               /\ k >= Claimed + 1 => seq[Slot(n)] = n
    <3>1. CASE k = Claimed
      <4>1. seq[Slot(n)] = n
        BY <1>1, <1>2, <2>2, <3>1
      <4> QED BY <4>1
    <3>2. CASE k # Claimed
      <4>1. (k < Claimed + 1 <=> k < Claimed) /\ (k >= Claimed + 1 <=> k >= Claimed)
        BY <1>2, <3>2
      <4> QED BY <2>2, <4>1 DEF RingInv, WindowAgrees
    <3> QED BY <3>1, <3>2
  <2> QED BY <1>4, <2>1, <2>2 DEF WindowAgrees
<1>8. FillersInside'
  <2>1. ASSUME NEW q \in Producers, pc'[q] = "fill"
        PROVE  /\ seq[Slot(w[q].pos)] = w[q].pos
               /\ \E k \in 0 .. M - 1 : k < Claimed + 1 /\ w[q].pos = At(cpos, k)
    <3>1. CASE q = p
      <4>1. Claimed < Claimed + 1
        BY <1>2
      <4> QED BY <1>1, <1>2, <3>1, <4>1
    <3>2. CASE q # p
      <4>1. pc[q] = "fill"
        BY <1>6, <2>1, <3>2
      <4>2. PICK k \in 0 .. M - 1 : k < Claimed /\ w[q].pos = At(cpos, k)
        BY <4>1 DEF RingInv, FillersInside
      <4>3. k < Claimed + 1
        BY <1>2, <4>2
      <4> QED BY <4>1, <4>2, <4>3 DEF RingInv, FillersInside
    <3> QED BY <3>1, <3>2
  <2> QED BY <1>4, <2>1 DEF FillersInside
<1>9. FillersApart'
  <2>1. ASSUME NEW q \in Producers, q # p, pc[q] = "fill"
        PROVE  w[q].pos # w[p].pos
    <3>1. PICK k \in 0 .. M - 1 : k < Claimed /\ w[q].pos = At(cpos, k)
      BY <2>1 DEF RingInv, FillersInside
    <3>2. k # Claimed
      BY <1>2, <3>1
    <3> QED BY <1>1, <1>2, <3>1, <3>2
  <2> QED BY <1>6, <2>1 DEF RingInv, FillersApart
<1>10. ClaimFresh'
  BY <1>3, <1>6 DEF ClaimFresh, NoWholeWrap
<1>11. ReadsCommitted'
  BY DEF RingInv, ReadsCommitted
<1> QED BY <1>3, <1>5, <1>6, <1>7, <1>8, <1>9, <1>10, <1>11 DEF RingInv

\* A commit resolves the oldest unresolved claim of its own; every other slot
\* of the window keeps its word.
LEMMA CommitRing ==
    ASSUME RingInv, TypeOK', NEW p \in Producers, Commit(p)
    PROVE  /\ RingInv' /\ UNCHANGED <<claim, cpos, cpc>>
           /\ \A s \in Slots : s # Slot(w[p].pos) => seq'[s] = seq[s]
           /\ Slot(w[p].pos) = Slot(cpos) => w[p].pos = cpos
<1> USE DEF Goto, Return, Forget, consVars, waitVars
<1>1. /\ pc[p] = "fill" /\ UNCHANGED <<claim, cpos, cpc>> /\ Claimed' = Claimed
      /\ seq' = [seq EXCEPT ![Slot(w[p].pos)] = Committed(w[p].pos)]
  BY DEF Commit, Claimed
<1>2. PICK i \in 0 .. M - 1 :
             /\ i < Claimed /\ w[p].pos = At(cpos, i) /\ Slot(w[p].pos) \in Slots
             /\ seq[Slot(w[p].pos)] = w[p].pos /\ w[p].pos \in Words
             /\ \A k \in 0 .. M - 1 : k # i => Slot(At(cpos, k)) # Slot(w[p].pos)
             /\ \A q \in Producers : q # p /\ pc[q] = "fill" => Slot(w[q].pos) # Slot(w[p].pos)
  BY <1>1, FillerSlot
<1>3. /\ cpos \in Words /\ Claimed \in Nat /\ claim.pos \in Words
      /\ \A k \in 0 .. M - 1 : k \in 0 .. M
  BY ClaimedWindow, Ranges DEF RingInv
<1>4. /\ seq'[Slot(w[p].pos)] = Committed(w[p].pos)
      /\ \A s \in Slots : s # Slot(w[p].pos) => seq'[s] = seq[s]
  BY <1>1, <1>2 DEF RingInv, TypeOK
<1>5. \A k \in 0 .. M - 1 : /\ Slot(At(cpos, k)) \in Slots
                            /\ k # i => seq'[Slot(At(cpos, k))] = seq[Slot(At(cpos, k))]
  BY <1>2, <1>3, <1>4, WindowSlots
<1>6. /\ pc'[p] \in {"wake", "idle"}
      /\ \A q \in Producers : q # p => pc'[q] = pc[q] /\ w'[q] = w[q]
  BY DEF Commit, RingInv, TypeOK
<1>7. WindowAgrees'
  <2>1. ASSUME NEW k \in 0 .. M - 1, NEW n, n = At(cpos, k)
        PROVE  /\ k < Claimed => seq'[Slot(n)] \in {n, Committed(n)}
               /\ k >= Claimed => seq'[Slot(n)] = n
    <3>1. CASE k = i
      <4>1. ~(k >= Claimed)
        BY <1>2, <1>3, <3>1
      <4> QED BY <1>2, <1>4, <2>1, <3>1, <4>1
    <3>2. CASE k # i
      <4>1. seq'[Slot(n)] = seq[Slot(n)]
        BY <1>5, <2>1, <3>2
      <4> QED BY <2>1, <4>1 DEF RingInv, WindowAgrees
    <3> QED BY <3>1, <3>2
  <2> QED BY <1>1, <2>1 DEF RingInv, WindowAgrees
<1>8. FillersInside'
  <2>1. ASSUME NEW q \in Producers, q # p, pc[q] = "fill"
        PROVE  /\ seq'[Slot(w[q].pos)] = w[q].pos
               /\ \E k \in 0 .. M - 1 : k < Claimed /\ w[q].pos = At(cpos, k)
    <3>1. PICK j \in 0 .. M - 1 : j < Claimed /\ w[q].pos = At(cpos, j)
      BY <2>1 DEF RingInv, FillersInside
    <3>2. j # i
      BY <1>2, <2>1, <3>1
    <3>3. seq'[Slot(w[q].pos)] = seq[Slot(w[q].pos)]
      BY <1>5, <3>1, <3>2
    <3> QED BY <2>1, <3>1, <3>3 DEF RingInv, FillersInside
  <2> QED BY <1>1, <1>6, <2>1 DEF FillersInside
<1>9. FillersApart'
  BY <1>6 DEF RingInv, FillersApart
<1>10. ClaimFresh'
  <2>1. ASSUME seq[Slot(claim.pos)] = claim.pos
        PROVE  seq'[Slot(claim.pos)] = claim.pos
    <3>1. Claimed \in 0 .. M - 1 /\ claim.pos = At(cpos, Claimed)
      BY <2>1, ClaimableMeansRoom
    <3>2. Claimed # i
      BY <1>2, <1>3
    <3> QED BY <1>5, <2>1, <3>1, <3>2
  <2> QED BY <1>1, <1>6, <2>1 DEF RingInv, ClaimFresh
<1>11. At(cpos, 0) = cpos /\ 0 \in 0 .. M - 1
  BY <1>3, WindowSlots
<1>12. ReadsCommitted'
  <2>1. seq[Slot(cpos)] = Committed(cpos) => seq'[Slot(cpos)] = seq[Slot(cpos)]
    <3>1. ASSUME seq[Slot(cpos)] = Committed(cpos)
          PROVE  i # 0
      BY <1>2, <1>3, <1>11, <3>1, WordsDiffer
    <3> QED BY <1>5, <1>11, <3>1
  <2> QED BY <1>1, <2>1 DEF RingInv, ReadsCommitted
<1>13. Slot(w[p].pos) = Slot(cpos) => w[p].pos = cpos
  BY <1>2, <1>11
<1> QED BY <1>1, <1>4, <1>7, <1>8, <1>9, <1>10, <1>12, <1>13 DEF RingInv

\* A release frees the oldest position's slot for the next lap and moves the
\* window on by one.
LEMMA ReleaseRing ==
    ASSUME RingInv, TypeOK', Release
    PROVE  RingInv'
<1> USE DEF waitVars, prodVars
<1>1. /\ cpos' = seq_of(cpos + 1) /\ cpc' # "read" /\ UNCHANGED <<claim, pc, w>>
      /\ seq' = [seq EXCEPT ![Slot(cpos)] = Released(cpos)]
      /\ seq[Slot(cpos)] = Committed(cpos)
  BY DEF Release, RingInv, ReadsCommitted
<1>2. /\ cpos \in Words /\ Claimed \in Nat /\ Claimed <= M /\ claim.pos \in Words
      /\ claim.pos = At(cpos, Claimed)
  BY ClaimedWindow DEF RingInv, WindowAgrees
<1>3. /\ At(cpos, 0) = cpos /\ 0 \in 0 .. M - 1 /\ seq[Slot(cpos)] # cpos
      /\ At(cpos, M) = Released(cpos) /\ Slot(At(cpos, M)) = Slot(cpos)
  BY <1>1, <1>2, WindowSlots, WordsDiffer
<1>4. Claimed > 0
  <2>1. 0 >= Claimed => seq[Slot(At(cpos, 0))] = At(cpos, 0)
    BY <1>3 DEF RingInv, WindowAgrees
  <2> QED BY <1>2, <1>3, <2>1
<1>5. Claimed' = Claimed - 1
  <2>1. cpos \in 0 .. W - 1 /\ W \in Nat \ {0}
    BY <1>2, Ranges DEF Words
  <2>2. PICK a \in 0 .. W - 1 : a = claim.pos
    BY <1>2 DEF Words
  <2>3. (a - ((cpos + 1) % W)) % W = ((a - cpos) % W) - 1
    BY <1>4, <2>1, <2>2, DistanceDown, Zenon DEF Claimed, seq_of
  <2> QED BY <1>1, <2>2, <2>3, Zenon DEF Claimed, seq_of
<1>6. /\ Slot(cpos) \in Slots
      /\ \A k \in 1 .. M - 1 : Slot(At(cpos, k)) \in Slots /\ Slot(At(cpos, k)) # Slot(cpos)
  <2>1. /\ \A k \in 1 .. M - 1 : k \in 0 .. M - 1 /\ k # 0 /\ k \in 0 .. M
        /\ 0 \in 0 .. M
    BY Ranges
  <2> QED BY <1>2, <1>3, <2>1, WindowSlots
<1>7. /\ seq'[Slot(cpos)] = Released(cpos)
      /\ \A k \in 1 .. M - 1 : seq'[Slot(At(cpos, k))] = seq[Slot(At(cpos, k))]
  BY <1>1, <1>6 DEF RingInv, TypeOK
<1>8. \A k \in 0 .. M - 1 : At(cpos', k) = At(cpos, k + 1)
  BY <1>1, <1>2, WindowSlots
<1>9. WindowAgrees'
  <2>1. ASSUME NEW k \in 0 .. M - 1, NEW n, n = At(cpos, k + 1)
        PROVE  /\ k < Claimed - 1 => seq'[Slot(n)] \in {n, Committed(n)}
               /\ k >= Claimed - 1 => seq'[Slot(n)] = n
    <3>1. CASE k = M - 1
      <4>1. k + 1 = M /\ ~(k < Claimed - 1)
        BY <1>2, <3>1, Ranges
      <4> QED BY <1>3, <1>7, <2>1, <4>1
    <3>2. CASE k # M - 1
      <4>1. /\ k + 1 \in 1 .. M - 1 /\ k + 1 \in 0 .. M - 1
            /\ (k < Claimed - 1 <=> k + 1 < Claimed) /\ (k >= Claimed - 1 <=> k + 1 >= Claimed)
        BY <1>2, <3>2, Ranges
      <4>2. seq'[Slot(n)] = seq[Slot(n)]
        BY <1>7, <2>1, <4>1
      <4> QED BY <2>1, <4>1, <4>2 DEF RingInv, WindowAgrees
    <3> QED BY <3>1, <3>2
  <2>2. Claimed' <= M
    BY <1>2, <1>5, Ranges
  <2> QED BY <1>5, <1>8, <2>1, <2>2 DEF WindowAgrees
<1>10. FillersInside'
  <2>1. ASSUME NEW q \in Producers, pc[q] = "fill"
        PROVE  /\ seq'[Slot(w[q].pos)] = w[q].pos
               /\ \E k \in 0 .. M - 1 : k < Claimed - 1 /\ w[q].pos = At(cpos', k)
    <3>1. PICK j \in 0 .. M - 1 : j < Claimed /\ w[q].pos = At(cpos, j)
      BY <2>1 DEF RingInv, FillersInside
    <3>2. seq[Slot(w[q].pos)] = w[q].pos
      BY <2>1 DEF RingInv, FillersInside
    <3>3. j # 0
      BY <1>3, <3>1, <3>2
    <3>4. /\ j - 1 \in 0 .. M - 1 /\ j - 1 < Claimed - 1 /\ (j - 1) + 1 = j
          /\ j \in 1 .. M - 1
      BY <1>2, <3>1, <3>3, Ranges
    <3>5. w[q].pos = At(cpos', j - 1)
      BY <1>8, <3>1, <3>4
    <3>6. seq'[Slot(w[q].pos)] = w[q].pos
      BY <1>7, <3>1, <3>2, <3>4
    <3> QED BY <3>4, <3>5, <3>6
  <2> QED BY <1>1, <1>5, <2>1 DEF FillersInside
<1>11. FillersApart'
  BY <1>1 DEF RingInv, FillersApart
<1>12. ClaimFresh'
  <2>1. ASSUME seq[Slot(claim.pos)] = claim.pos
        PROVE  seq'[Slot(claim.pos)] = claim.pos
    <3>1. Claimed \in 0 .. M - 1
      BY <2>1, ClaimableMeansRoom
    <3>2. Claimed \in 1 .. M - 1
      BY <1>4, <3>1
    <3> QED BY <1>2, <1>7, <2>1, <3>2
  <2> QED BY <1>1, <2>1 DEF RingInv, ClaimFresh
<1>13. ReadsCommitted'
  BY <1>1 DEF ReadsCommitted
<1> QED BY <1>9, <1>10, <1>11, <1>12, <1>13 DEF RingInv

-----------------------------------------------------------------------------
(* The steps by what they leave alone.                                     *)

\* The steps of a producer that neither claim, commit nor wake.
Quiet(p) ==
    \/ Send(p) \/ Probe(p) \/ LoseClaim(p) \/ Behind(p) \/ Full(p) \/ Panic(p)
    \/ SleepFullNext(p) \/ SleepEnds(p)

\* They change no word of the ring and nothing of the consumer's, and start
\* neither a fill nor a wake.
LEMMA QuietStep ==
    ASSUME TypeOK, NEW p \in Producers, Quiet(p)
    PROVE  /\ UNCHANGED <<claim, seq, cpos, cpc, after>>
           /\ \A q \in Producers : q # p => pc'[q] = pc[q] /\ w'[q] = w[q]
           /\ pc'[p] \notin {"fill", "wake"} /\ pc[p] # "wake"
           /\ pc'[p] = "claim" => w'[p] = w[p] /\ seq[Slot(w[p].pos)] = w[p].pos
<1> USE DEF TypeOK, ringVars, waitVars, consVars, Goto, Return, Forget
<1>1. CASE Send(p) \/ LoseClaim(p) \/ Behind(p)
  BY <1>1 DEF Send, LoseClaim, Behind
<1>2. CASE Probe(p)
  BY <1>2 DEF Probe, Claimable
<1>3. CASE Full(p) \/ Panic(p)
  BY <1>3 DEF Full, Panic, send_spin, send_spin_sleep
<1>4. CASE CountIn(p) \/ LoadSeen(p) \/ FutexWait(p) \/ SleepEnds(p) \/ CountOut(p)
  BY <1>4 DEF CountIn, LoadSeen, FutexWait, SleepEnds, CountOut
<1>5. CASE RoomWord(p) \/ RoomSeq(p)
  BY <1>5 DEF RoomWord, RoomSeq
<1> QED BY <1>1, <1>2, <1>3, <1>4, <1>5 DEF Quiet, SleepFullNext

\* The consumer's steps other than a release move no position and change no
\* slot; producers are only woken.
LEMMA ConsumerStep ==
    ASSUME TypeOK, ConsumerNext, ~Release
    PROVE  /\ UNCHANGED <<seq, cpos, w, prod_waiters>> /\ claim'.pos = claim.pos
           /\ cpc' = "read" => cpc = "look" /\ seq[Slot(cpos)] = Committed(cpos)
           /\ \A q \in Producers : \/ pc'[q] = pc[q]
                                   \/ pc[q] = "asleep" /\ pc'[q] = "count out"
<1> USE DEF TypeOK, ringVars, waitVars, prodVars
<1>1. CASE Look \/ ReadPanics \/ EmptyAgain \/ CheckWaiters \/ Bump
  BY <1>1 DEF Look, ReadPanics, EmptyAgain, CheckWaiters, Bump
<1>2. CASE WakeAll
  BY <1>2 DEF WakeAll
<1>3. CASE EmptySleep \/ ConsumerFutexWait \/ ConsumerSleepEnds
  BY <1>3 DEF EmptySleep, ConsumerFutexWait, ConsumerSleepEnds
<1>4. CASE Flag \/ Unflag
  BY <1>4 DEF Flag, Unflag, Word
<1> QED BY <1>1, <1>2, <1>3, <1>4 DEF ConsumerNext, WakeNext, SleepEmptyNext

\* Every step keeps the ring's part of the invariant.
LEMMA RingStep ==
    ASSUME RingInv, TypeOK', [Next]_vars
    PROVE  RingInv'
<1>0. TypeOK
  BY DEF RingInv
<1>1. CASE UNCHANGED vars
  BY <1>1, RingStill DEF vars, ringVars, prodVars, consVars
<1>2. CASE ConsumerNext /\ ~Release
  <2>1. /\ UNCHANGED <<seq, cpos, w>> /\ claim'.pos = claim.pos
        /\ cpc' = "read" => seq[Slot(cpos)] = Committed(cpos)
        /\ \A q \in Producers : pc'[q] = pc[q] \/ pc'[q] = "count out"
    BY <1>0, <1>2, ConsumerStep
  <2>2. \A q \in Producers : pc'[q] \in {"fill", "claim"} => pc[q] = pc'[q]
    BY <2>1
  <2> QED BY <2>1, <2>2, RingStill
<1>3. ASSUME NEW p \in Producers, Quiet(p)
      PROVE  RingInv'
  <2>1. /\ UNCHANGED <<claim, seq, cpos, cpc>>
        /\ \A q \in Producers : q # p => pc'[q] = pc[q] /\ w'[q] = w[q]
        /\ pc'[p] # "fill"
        /\ pc'[p] = "claim" => w'[p] = w[p] /\ seq[Slot(w[p].pos)] = w[p].pos
    BY <1>0, <1>3, QuietStep
  <2> QED BY <2>1, RingStill
<1>4. ASSUME NEW p \in Producers, wake_consumer(p)
      PROVE  RingInv'
  <2>1. /\ UNCHANGED <<claim, seq, cpos>> /\ (cpc' = "read" => cpc = "read")
        /\ pc'[p] = "idle" /\ \A q \in Producers : q # p => pc'[q] = pc[q] /\ w'[q] = w[q]
    BY <1>4 DEF wake_consumer, ringVars, Return, Goto, Forget, RingInv, TypeOK
  <2> QED BY <2>1, RingStill
<1> QED BY <1>1, <1>2, <1>3, <1>4, ClaimRing, CommitRing, ReleaseRing
        DEF Next, ConsumerNext, ProducerNext, SendNext, Quiet

-----------------------------------------------------------------------------
(* Who sleeps, who counts and who will wake.                               *)

InSleepFull == {"see", "room word", "room seq", "wait", "asleep", "count out"}

\* Only a producer that enters or leaves sleep_full changes the count.
LEMMA CountStep ==
    ASSUME TypeOK, WaitersCounted, [Next]_vars
    PROVE  WaitersCounted'
<1>1. IsFiniteSet(Counted)
  BY ProducersAssumption, FS_Subset DEF Counted
<1>2. ASSUME prod_waiters' = prod_waiters,
             \A q \in Producers : pc'[q] \in InSleepFull <=> pc[q] \in InSleepFull
      PROVE  WaitersCounted'
  <2>1. Counted' = Counted
    BY <1>2 DEF Counted, InSleepFull
  <2> QED BY <1>2, <2>1 DEF WaitersCounted
<1>3. CASE UNCHANGED vars
  BY <1>2, <1>3 DEF vars, waitVars, prodVars
<1>4. CASE ConsumerNext
  <2>1. CASE Release
    BY <1>2, <2>1 DEF Release, waitVars, prodVars
  <2>2. CASE ~Release
    <3>1. /\ prod_waiters' = prod_waiters
          /\ \A q \in Producers : \/ pc'[q] = pc[q]
                                  \/ pc[q] = "asleep" /\ pc'[q] = "count out"
      BY <1>4, <2>2, ConsumerStep
    <3> QED BY <1>2, <3>1 DEF InSleepFull
  <2> QED BY <2>1, <2>2
<1>5. ASSUME NEW p \in Producers, ProducerNext(p)
      PROVE  WaitersCounted'
  <2> USE DEF Goto, Return, Forget, waitVars
  <2>1. CASE CountIn(p)
    <3>1. /\ prod_waiters' = prod_waiters + 1 /\ pc[p] = "count in"
          /\ pc' = [pc EXCEPT ![p] = "see"]
      BY <2>1 DEF CountIn
    <3>2. Counted' = Counted \cup {p} /\ p \notin Counted
      BY <3>1 DEF Counted, TypeOK
    <3>3. Cardinality(Counted') = Cardinality(Counted) + 1
      BY <1>1, <3>2, FS_AddElement
    <3> QED BY <3>1, <3>3 DEF WaitersCounted
  <2>2. CASE CountOut(p)
    <3>1. /\ prod_waiters' = prod_waiters - 1 /\ pc[p] = "count out"
          /\ pc' = [pc EXCEPT ![p] = "load"]
      BY <2>2 DEF CountOut
    <3>2. Counted' = Counted \ {p} /\ p \in Counted
      BY <3>1 DEF Counted, TypeOK
    <3>3. Cardinality(Counted') = Cardinality(Counted) - 1
      BY <1>1, <3>2, FS_RemoveElement
    <3> QED BY <3>1, <3>3 DEF WaitersCounted
  <2>3. CASE LoadSeen(p) \/ RoomWord(p) \/ RoomSeq(p) \/ FutexWait(p) \/ SleepEnds(p)
    <3>1. /\ prod_waiters' = prod_waiters /\ pc[p] \in InSleepFull
          /\ \E l \in InSleepFull : pc' = [pc EXCEPT ![p] = l]
      BY <2>3 DEF LoadSeen, RoomWord, RoomSeq, FutexWait, SleepEnds, InSleepFull
    <3> QED BY <1>2, <3>1 DEF TypeOK
  <2>4. CASE Send(p) \/ SendNext(p) \/ Panic(p)
    <3>1. /\ prod_waiters' = prod_waiters /\ pc[p] \notin InSleepFull
          /\ \E l : l \notin InSleepFull /\ pc' = [pc EXCEPT ![p] = l]
      BY <2>4 DEF SendNext, Send, Probe, Claim, LoseClaim, Behind, Full, Commit, wake_consumer,
                  Panic, InSleepFull, send_spin, send_spin_sleep
    <3> QED BY <1>2, <3>1 DEF TypeOK
  <2> QED BY <1>5, <2>1, <2>2, <2>3, <2>4 DEF ProducerNext, SleepFullNext
<1> QED BY <1>3, <1>4, <1>5 DEF Next

\* Only the consumer clears its flag, on its way back to its look.
LEMMA FlagStep ==
    ASSUME TypeOK, Flagged, [Next]_vars
    PROVE  Flagged'
<1> USE DEF Flagged, TypeOK, ringVars, consVars
<1>1. CASE UNCHANGED vars
  BY <1>1 DEF vars
<1>2. CASE ConsumerNext
  <2>1. CASE Look \/ Release \/ ReadPanics \/ EmptyAgain \/ EmptySleep \/ Bump
    BY <2>1 DEF Look, Release, ReadPanics, EmptyAgain, EmptySleep, Bump
  <2>2. CASE CheckWaiters \/ WakeAll
    BY <2>2 DEF CheckWaiters, WakeAll
  <2>3. CASE Flag \/ Unflag
    BY <2>3 DEF Flag, Unflag, Word
  <2>4. CASE ConsumerFutexWait \/ ConsumerSleepEnds
    BY <2>4 DEF ConsumerFutexWait, ConsumerSleepEnds
  <2> QED BY <1>2, <2>1, <2>2, <2>3, <2>4 DEF ConsumerNext, WakeNext, SleepEmptyNext
<1>3. ASSUME NEW p \in Producers, ProducerNext(p)
      PROVE  Flagged'
  <2>1. CASE Claim(p)
    BY <2>1 DEF Claim, word
  <2>2. CASE Commit(p)
    BY <2>2 DEF Commit
  <2>3. CASE wake_consumer(p)
    BY <2>3 DEF wake_consumer
  <2>4. CASE Quiet(p)
    BY <2>4, QuietStep
  <2> QED BY <1>3, <2>1, <2>2, <2>3, <2>4 DEF ProducerNext, SendNext, Quiet
<1> QED BY <1>1, <1>2, <1>3 DEF Next

\* On an empty ring the word a producer looks at is claimable.
LEMMA EmptyIsClaimable ==
    ASSUME RingInv, claim.pos = cpos
    PROVE  seq[Slot(cpos)] = cpos
<1>1. Claimed = 0 /\ cpos \in Words
  BY ClaimedWindow DEF RingInv
<1>2. At(cpos, 0) = cpos /\ 0 \in 0 .. M - 1 /\ 0 >= Claimed
  BY <1>1, WindowSlots
<1> QED BY <1>2 DEF RingInv, WindowAgrees

\* A producer with its Seen up to date does not doze off on an empty ring: its
\* last look finds room.
LEMMA NoDoze ==
    ASSUME RingInv, claim.pos = cpos, NEW p \in Producers, Quiet(p)
    PROVE  /\ (p \in seen => pc[p] # "asleep" /\ ~Dozes(p))
                => (p \in seen' => pc'[p] # "asleep" /\ ~Dozes(p)')
           /\ pc'[p] = "asleep" => p \in seen /\ Dozes(p)
           /\ \A q \in Producers : q # p => /\ (q \in seen' <=> q \in seen)
                                            /\ (Dozes(q)' <=> Dozes(q))
<1> USE DEF Goto, Return, Forget, waitVars, consVars, ringVars
<1>0. seq[Slot(cpos)] = cpos /\ TypeOK
  BY EmptyIsClaimable DEF RingInv
<1>1. /\ cpos' = cpos
      /\ \A q \in Producers : q # p => pc'[q] = pc[q] /\ w'[q] = w[q]
  BY <1>0, QuietStep
<1>2. \A q \in Producers : q # p => (q \in seen' <=> q \in seen)
  BY DEF Quiet, Send, Probe, LoseClaim, Behind, Full, Panic, SleepFullNext, SleepEnds,
         CountIn, LoadSeen, RoomWord, RoomSeq, FutexWait, CountOut
<1>3. \A q \in Producers : q # p => (Dozes(q)' <=> Dozes(q))
  <2> SUFFICES ASSUME NEW q \in Producers, q # p
               PROVE  Dozes(q)' <=> Dozes(q)
    OBVIOUS
  <2>1. pc'[q] = pc[q] /\ w'[q].pos = w[q].pos /\ cpos' = cpos
    BY <1>1
  <2> QED BY <2>1 DEF Dozes
<1>4. CASE RoomSeq(p)
  <2>1. /\ pc[p] = "room seq" /\ pc'[p] \in {"count out", "wait"} /\ seen' = seen
        /\ pc'[p] = "wait" => seq[Slot(w[p].pos)] # w[p].pos
    BY <1>0, <1>4 DEF RoomSeq, Claimable, TypeOK
  <2> QED BY <1>0, <1>2, <1>3, <2>1 DEF Dozes
<1>5. CASE RoomWord(p)
  <2>1. pc'[p] = "room seq" /\ w'[p] = claim /\ cpos' = cpos
    BY <1>0, <1>5 DEF RoomWord, TypeOK
  <2> QED BY <1>2, <1>3, <2>1 DEF Dozes
<1>6. CASE CountOut(p)
  <2>1. p \notin seen' /\ pc'[p] = "load"
    BY <1>0, <1>6 DEF CountOut, TypeOK
  <2> QED BY <1>2, <1>3, <2>1
<1>7. CASE FutexWait(p)
  <2>1. pc[p] = "wait" /\ seen' = seen /\ pc'[p] = IF p \in seen THEN "asleep" ELSE "count out"
    BY <1>0, <1>7 DEF FutexWait, TypeOK
  <2> QED BY <1>2, <1>3, <2>1 DEF Dozes
<1>8. CASE \/ Send(p) \/ Probe(p) \/ LoseClaim(p) \/ Behind(p) \/ Full(p) \/ Panic(p)
           \/ SleepEnds(p) \/ CountIn(p) \/ LoadSeen(p)
  <2>1. pc'[p] \notin {"asleep", "wait", "room seq"}
    BY <1>0, <1>8 DEF Send, Probe, LoseClaim, Behind, Full, Panic, SleepEnds, CountIn, LoadSeen,
                      TypeOK, send_spin, send_spin_sleep
  <2> QED BY <1>2, <1>3, <2>1 DEF Dozes
<1> QED BY <1>4, <1>5, <1>6, <1>7, <1>8 DEF Quiet, SleepFullNext

\* From its check on, the consumer of an empty ring knows that no producer
\* sleeps or will.
LEMMA NoSleepersStep ==
    ASSUME IInv, RingInv', [Next]_vars
    PROVE  NoSleepers'
<1>0. TypeOK /\ RingInv /\ NoSleepers /\ WaitersCounted
  BY DEF IInv, RingInv
<1>1. ASSUME UNCHANGED <<claim, cpos, cpc, after, seen, pc, w>>
      PROVE  NoSleepers'
  BY <1>0, <1>1 DEF NoSleepers, Dozes
<1>2. ASSUME cpc' \notin {"flag", "wait", "asleep", "wake"}
      PROVE  NoSleepers'
  BY <1>2 DEF NoSleepers
<1>3. CASE UNCHANGED vars
  BY <1>1, <1>3 DEF vars, ringVars, waitVars, prodVars, consVars
<1>4. CASE ConsumerNext
  <2> USE DEF ringVars, waitVars, prodVars
  <2>1. CASE \/ Look \/ Release \/ ReadPanics \/ EmptyAgain \/ EmptySleep
             \/ ConsumerSleepEnds \/ Unflag
    BY <1>2, <2>1 DEF Look, Release, ReadPanics, EmptyAgain, EmptySleep, ConsumerSleepEnds, Unflag
  <2>2. CASE CheckWaiters
    <3>1. CASE prod_waiters = 0
      <4>1. Counted = {}
        <5>1. IsFiniteSet(Counted)
          BY ProducersAssumption, FS_Subset DEF Counted
        <5> QED BY <1>0, <3>1, <5>1, FS_EmptySet DEF WaitersCounted
      <4>2. \A p \in Producers : pc[p] \notin {"asleep", "wait", "room seq"}
        BY <4>1 DEF Counted
      <4> QED BY <1>0, <2>2, <4>2 DEF CheckWaiters, NoSleepers, Dozes, TypeOK
    <3>2. CASE prod_waiters # 0
      BY <1>2, <2>2, <3>2 DEF CheckWaiters
    <3> QED BY <3>1, <3>2
  <2>3. CASE Bump
    BY <2>3 DEF Bump, NoSleepers
  <2>4. CASE WakeAll
    <3>1. /\ cpc = "wake" /\ cpc' = after /\ UNCHANGED <<claim, cpos, after, seen, w>>
          /\ \A p \in Producers : pc'[p] # "asleep" /\ (pc'[p] # "count out" => pc'[p] = pc[p])
      BY <2>4 DEF WakeAll
    <3>2. ASSUME NEW p \in Producers, Dozes(p)'
          PROVE  Dozes(p)
      BY <3>1, <3>2 DEF Dozes
    <3> QED BY <1>0, <3>1, <3>2 DEF NoSleepers, TypeOK
  <2>5. CASE Flag \/ ConsumerFutexWait
    <3>1. /\ claim'.pos = claim.pos /\ UNCHANGED <<cpos, after, seen, pc, w>>
          /\ cpc \in {"flag", "wait"} /\ cpc' \in {"wait", "asleep", "unflag"}
      BY <1>0, <2>5 DEF Flag, ConsumerFutexWait, TypeOK, Word
    <3> QED BY <1>0, <3>1 DEF NoSleepers, Dozes
  <2> QED BY <1>4, <2>1, <2>2, <2>3, <2>4, <2>5 DEF ConsumerNext, WakeNext, SleepEmptyNext
<1>5. ASSUME NEW p \in Producers, ProducerNext(p)
      PROVE  NoSleepers'
  <2>1. CASE Claim(p)
    <3>1. claim'.pos # cpos /\ cpos' = cpos
      BY <1>0, <2>1, ClaimRing DEF Claim, consVars, RingInv
    <3> QED BY <3>1 DEF NoSleepers
  <2>2. CASE Commit(p) \/ wake_consumer(p)
    <3>1. /\ UNCHANGED <<claim, cpos, after, seen>> /\ (cpc' = cpc \/ cpc' = "unflag")
          /\ \A q \in Producers : \/ pc'[q] = pc[q] /\ w'[q] = w[q]
                                  \/ pc'[q] \in {"idle", "wake"}
      BY <1>0, <2>2 DEF Commit, wake_consumer, ringVars, waitVars, consVars, Goto, Return, Forget,
                        TypeOK
    <3>2. ASSUME NEW q \in Producers
          PROVE  (pc'[q] = "asleep" => pc[q] = "asleep") /\ (Dozes(q)' => Dozes(q))
      <4>1. CASE pc'[q] = pc[q] /\ w'[q] = w[q]
        BY <3>1, <4>1 DEF Dozes
      <4>2. CASE pc'[q] \in {"idle", "wake"}
        BY <4>2 DEF Dozes
      <4> QED BY <3>1, <4>1, <4>2
    <3> QED BY <1>0, <3>1, <3>2 DEF NoSleepers, TypeOK
  <2>3. CASE Quiet(p)
    <3>1. /\ UNCHANGED <<claim, cpos, cpc, after>>
          /\ \A q \in Producers : q # p => pc'[q] = pc[q]
      BY <1>0, <2>3, QuietStep
    <3>2. CASE claim.pos # cpos
      BY <3>1, <3>2 DEF NoSleepers
    <3>3. CASE claim.pos = cpos
      <4>1. /\ (p \in seen => pc[p] # "asleep" /\ ~Dozes(p))
                 => (p \in seen' => pc'[p] # "asleep" /\ ~Dozes(p)')
            /\ pc'[p] = "asleep" => p \in seen /\ Dozes(p)
            /\ \A q \in Producers : q # p => /\ (q \in seen' <=> q \in seen)
                                             /\ (Dozes(q)' <=> Dozes(q))
        BY <1>0, <2>3, <3>3, NoDoze
      <4>2. seen' \subseteq Producers
        BY DEF RingInv, TypeOK
      <4>3. CASE cpc \in {"flag", "wait", "asleep"}
        <5>1. \A q \in Producers : pc[q] # "asleep" /\ (q \in seen => ~Dozes(q))
          BY <1>0, <3>3, <4>3 DEF NoSleepers
        <5>2. ASSUME NEW q \in Producers
              PROVE  pc'[q] # "asleep" /\ (q \in seen' => ~Dozes(q)')
          BY <3>1, <4>1, <5>1
        <5> QED BY <3>1, <4>3, <5>2 DEF NoSleepers
      <4>4. CASE cpc = "wake" /\ after = "flag"
        <5>1. \A q \in seen : pc[q] # "asleep" /\ ~Dozes(q)
          BY <1>0, <3>3, <4>4 DEF NoSleepers
        <5>2. ASSUME NEW q \in seen'
              PROVE  pc'[q] # "asleep" /\ ~Dozes(q)'
          BY <3>1, <4>1, <4>2, <5>1
        <5> QED BY <3>1, <4>4, <5>2 DEF NoSleepers
      <4> QED BY <3>1, <4>3, <4>4 DEF NoSleepers
    <3> QED BY <3>2, <3>3
  <2> QED BY <1>5, <2>1, <2>2, <2>3 DEF ProducerNext, SendNext, Quiet
<1> QED BY <1>3, <1>4, <1>5 DEF Next

\* While the consumer sleeps and something is claimed, the producer that
\* claimed its position has yet to wake it, unless its closure panicked.
LEMMA ClaimSawFlagStep ==
    ASSUME IInv, RingInv', [Next]_vars
    PROVE  ClaimSawFlag'
<1>0. TypeOK /\ RingInv /\ ClaimSawFlag /\ Flagged
  BY DEF IInv, RingInv
<1>1. ASSUME cpc' # "asleep"
      PROVE  ClaimSawFlag'
  BY <1>1 DEF ClaimSawFlag
<1>2. CASE UNCHANGED vars
  BY <1>0, <1>2 DEF ClaimSawFlag, Wedged, vars, ringVars, prodVars, consVars
<1>3. CASE ConsumerNext
  <2>1. CASE ConsumerFutexWait
    <3>1. CASE claim = word(cpos, TRUE)
      <4>1. cpos \in Words /\ seq_of(cpos) = cpos
        BY <1>0, SeqOf DEF TypeOK
      <4>2. claim.pos = cpos
        BY <3>1, <4>1 DEF word
      <4> QED BY <2>1, <4>2 DEF ConsumerFutexWait, ClaimSawFlag, ringVars
    <3>2. CASE claim # word(cpos, TRUE)
      BY <1>1, <2>1, <3>2 DEF ConsumerFutexWait
    <3> QED BY <3>1, <3>2
  <2>2. CASE ~ConsumerFutexWait
    <3>1. cpc' # "asleep"
      BY <1>0, <1>3, <2>2 DEF ConsumerNext, WakeNext, SleepEmptyNext, Look, Release, ReadPanics,
         EmptyAgain, EmptySleep, CheckWaiters, Bump, WakeAll, Flag, ConsumerSleepEnds, Unflag, TypeOK
    <3> QED BY <1>1, <3>1
  <2> QED BY <2>1, <2>2
<1>4. ASSUME NEW p \in Producers, ProducerNext(p)
      PROVE  ClaimSawFlag'
  <2> DEFINE Waker(q) == /\ w[q].waiting = TRUE
                         /\ pc[q] = "wake" \/ (pc[q] = "fill" /\ w[q].pos = cpos)
  <2>1. CASE wake_consumer(p)
    BY <1>1, <2>1 DEF wake_consumer
  <2> SUFFICES ASSUME ~wake_consumer(p), cpc' = "asleep", claim'.pos # cpos'
               PROVE  Wedged' \/ \E q \in Producers : Waker(q)'
    BY <2>1 DEF ClaimSawFlag
  <2>2. CASE Claim(p)
    <3>1. /\ cpc = "asleep" /\ cpos' = cpos /\ seq' = seq /\ w' = w /\ pc[p] = "claim"
          /\ pc' = [pc EXCEPT ![p] = "fill"] /\ claim = w[p]
      BY <2>2 DEF Claim, consVars, Goto
    <3>2. /\ pc'[p] = "fill" /\ \A q \in Producers : q # p => pc'[q] = pc[q]
      BY <1>0, <3>1 DEF TypeOK
    <3>3. CASE claim.pos = cpos
      <4>1. Waker(p)'
        BY <1>0, <3>1, <3>2, <3>3 DEF Flagged
      <4> QED BY <4>1
    <3>4. CASE claim.pos # cpos
      <4>1. CASE Wedged
        <5>1. Wedged'
          BY <3>1, <3>2, <3>4, <4>1 DEF Wedged
        <5> QED BY <5>1
      <4>2. ASSUME NEW q \in Producers, Waker(q)
            PROVE  Waker(q)'
        BY <3>1, <3>2, <4>2
      <4> QED BY <1>0, <3>1, <3>4, <4>1, <4>2 DEF ClaimSawFlag
    <3> QED BY <3>3, <3>4
  <2>3. CASE Commit(p)
    <3>1. /\ UNCHANGED <<claim, cpos, cpc>> /\ Slot(cpos) \in Slots
          /\ \A s \in Slots : s # Slot(w[p].pos) => seq'[s] = seq[s]
          /\ Slot(w[p].pos) = Slot(cpos) => w[p].pos = cpos
      <4>1. cpos \in Int
        BY <1>0, ClaimedWindow, Ranges DEF Words
      <4> QED BY <1>0, <2>3, <4>1, SlotType, CommitRing DEF RingInv
    <3>2. /\ pc[p] = "fill" /\ \A q \in Producers : q # p => pc'[q] = pc[q] /\ w'[q] = w[q]
          /\ pc'[p] \in {"wake", "idle"} /\ (w[p].waiting = TRUE => pc'[p] = "wake" /\ w'[p] = w[p])
      BY <1>0, <2>3 DEF Commit, Goto, Return, Forget, TypeOK
    <3>3. CASE Wedged
      <4>1. Wedged'
        BY <3>1, <3>2, <3>3 DEF Wedged
      <4> QED BY <4>1
    <3>4. ASSUME NEW q \in Producers, Waker(q)
          PROVE  Waker(q)'
      BY <3>1, <3>2, <3>4
    <3> QED BY <1>0, <3>1, <3>3, <3>4 DEF ClaimSawFlag
  <2>4. CASE Quiet(p)
    <3>1. /\ UNCHANGED <<claim, seq, cpos, cpc>>
          /\ \A q \in Producers : q # p => pc'[q] = pc[q] /\ w'[q] = w[q]
          /\ pc'[p] \notin {"fill", "wake"} /\ pc[p] # "wake"
      BY <1>0, <2>4, QuietStep
    <3>2. CASE Wedged
      <4>1. Wedged'
        BY <3>1, <3>2 DEF Wedged
      <4> QED BY <4>1
    <3>3. ASSUME NEW q \in Producers, q # p, Waker(q)
          PROVE  Waker(q)'
      BY <3>1, <3>3
    <3>4. CASE Waker(p)
      <4>1. seq[Slot(cpos)] = cpos /\ pc[p] = "fill" /\ w[p].pos = cpos
        BY <1>0, <3>1, <3>4 DEF RingInv, FillersInside
      <4>2. \A q \in Producers : q # p => ~(pc[q] = "fill" /\ w[q].pos = cpos)
        BY <1>0, <4>1 DEF RingInv, FillersApart
      <4>3. Wedged'
        BY <3>1, <4>1, <4>2 DEF Wedged, Claimable
      <4> QED BY <4>3
    <3> QED BY <1>0, <3>1, <3>2, <3>3, <3>4 DEF ClaimSawFlag
  <2> QED BY <1>4, <2>2, <2>3, <2>4 DEF ProducerNext, SendNext, Quiet
<1> QED BY <1>2, <1>3, <1>4 DEF Next

-----------------------------------------------------------------------------
(* The theorem.                                                            *)

LEMMA InitIInv == Init => IInv
<1> SUFFICES ASSUME Init
             PROVE  IInv
  OBVIOUS
<1>1. /\ 0 \in Words /\ 0 \in Int /\ seq_of(0) = 0 /\ 0 - 0 = 0
      /\ \A k \in 0 .. M - 1 : k \in Words /\ 0 + k = k /\ k >= 0 /\ ~(k < 0)
  <2>1. 0 \in Words /\ 0 \in Int /\ 0 - 0 = 0
    BY Ranges DEF Words
  <2>2. \A k \in 0 .. M - 1 : k \in Words /\ 0 + k = k /\ k >= 0 /\ ~(k < 0)
    BY Ranges DEF Words
  <2> QED BY <2>1, <2>2, SeqOf
<1>2. word(0, FALSE) = [pos |-> 0, waiting |-> FALSE]
  BY <1>1 DEF word
<1>3. claim.pos = 0 /\ cpos = 0 /\ Claimed = 0
  <2>1. claim = [pos |-> 0, waiting |-> FALSE] /\ cpos = 0
    BY <1>2, Zenon DEF Init
  <2>2. claim.pos = 0
    BY <2>1
  <2> QED BY <1>1, <2>1, <2>2 DEF Claimed
<1>4. TypeOK
  <2>1. claim \in Word /\ w \in [Producers -> Word]
    <3>1. [pos |-> 0, waiting |-> FALSE] \in Word
      BY <1>1 DEF Word
    <3>2. /\ claim = [pos |-> 0, waiting |-> FALSE]
          /\ w = [p \in Producers |-> [pos |-> 0, waiting |-> FALSE]]
      BY <1>2, Zenon DEF Init
    <3> QED BY <3>1, <3>2
  <2>2. seq \in [Slots -> Words]
    BY <1>1 DEF Init, Slots
  <2> QED BY <1>1, <2>1, <2>2 DEF Init, TypeOK
<1>5. WindowAgrees
  <2>1. ASSUME NEW k \in 0 .. M - 1
        PROVE  At(0, k) = k /\ Slot(k) = k /\ k \in Slots /\ seq[k] = k
    <3>1. k % M = k
      BY Ranges, ModSmall
    <3> QED BY <1>1, <3>1, SeqOf DEF At, Slot, Slots, Init
  <2>2. Claimed <= M
    BY <1>3, Ranges
  <2> QED BY <1>1, <1>3, <2>1, <2>2 DEF WindowAgrees
<1>6. FillersInside /\ FillersApart /\ ClaimFresh /\ ReadsCommitted
  BY DEF Init, FillersInside, FillersApart, ClaimFresh, ReadsCommitted
<1>7. WaitersCounted
  <2>1. Counted = {}
    BY DEF Init, Counted
  <2> QED BY <2>1, FS_EmptySet DEF WaitersCounted, Init
<1>8. Flagged /\ NoSleepers /\ ClaimSawFlag
  BY DEF Init, Flagged, NoSleepers, ClaimSawFlag
<1> QED BY <1>4, <1>5, <1>6, <1>7, <1>8 DEF IInv, RingInv

LEMMA StepIInv == IInv /\ [Next]_vars => IInv'
<1> SUFFICES ASSUME IInv, [Next]_vars
             PROVE  IInv'
  OBVIOUS
<1>1. RingInv /\ TypeOK /\ WaitersCounted /\ Flagged
  BY DEF IInv, RingInv
<1>2. TypeOK'
  BY <1>1, TypeStep
<1>3. RingInv'
  BY <1>1, <1>2, RingStep
<1>4. WaitersCounted' /\ Flagged'
  BY <1>1, CountStep, FlagStep
<1>5. NoSleepers' /\ ClaimSawFlag'
  BY <1>3, NoSleepersStep, ClaimSawFlagStep
<1> QED BY <1>3, <1>4, <1>5 DEF IInv

LEMMA SleeperFromIInv == IInv => SleeperIsSeen
<1> SUFFICES ASSUME IInv, cpc = "asleep"
             PROVE  /\ claim.waiting
                    /\ claim.pos = cpos \/ Wakeful
                    /\ (\E p \in Producers : pc[p] = "asleep") => Wakeful
  BY DEF SleeperIsSeen
<1>1. claim.waiting
  BY DEF IInv, Flagged
<1>2. claim.pos # cpos => Wakeful
  <2> SUFFICES ASSUME claim.pos # cpos, ~Wedged
               PROVE  \E p \in Producers : Claims(p) /\ w[p].waiting
    BY DEF Wakeful
  <2>1. PICK p \in Producers : /\ w[p].waiting = TRUE
                               /\ pc[p] = "wake" \/ (pc[p] = "fill" /\ w[p].pos = cpos)
    BY DEF IInv, ClaimSawFlag
  <2> QED BY <2>1 DEF Claims
<1>3. claim.pos = cpos => ~ \E p \in Producers : pc[p] = "asleep"
  BY DEF IInv, NoSleepers
<1> QED BY <1>1, <1>2, <1>3

\* The consumer of MPSC v4 never sleeps unseen: while it sleeps its flag
\* stands, a position claimed past it has a producer that will wake it after
\* the commit (unless that producer's closure panicked), and a producer asleep
\* beside it likewise, for any number of producers, any segment depth and
\* across every wrap of the seq values.
THEOREM SleeperSeen == Spec => []SleeperIsSeen
BY InitIInv, StepIInv, SleeperFromIInv, PTL DEF Spec

=============================================================================
