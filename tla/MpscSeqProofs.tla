--------------------------- MODULE MpscSeqProofs ---------------------------
(***************************************************************************)
(* Proofs about MpscSeq for every capacity M and word range W the code     *)
(* accepts, any number of producers and both versions of the ring.         *)
(*                                                                         *)
(* The ring is looked at as a window of M positions from ReadPos on.  The  *)
(* lemmas of the first part say which word and which slot belong to an     *)
(* offset in the window; the proofs about actions use only those.          *)
(***************************************************************************)
EXTENDS MpscSeq, RingLemmas

Words == 0 .. W - 1

TypeOK ==
    /\ version \in Versions
    /\ producer_idx \in Words /\ consumer_idx \in Words /\ rpos \in Words
    /\ seq \in [Slots -> Words] /\ buf \in [Slots -> Pair]
    /\ pc \in [Producers -> {"idle", "probe", "claim", "reread", "stale",
                             "fill", "half", "filled"}]
    /\ pos \in [Producers -> Words] /\ msg \in [Producers -> Half]
    /\ cpc \in {"idle", "probing", "skipping", "reading", "half", "read", "releasing"}
    /\ got \in Pair

\* The position k places on from r.
At(r, k) == Wrap(r + k)

\* Committed and Tombstoned of version v.
CommitWord(v, n) == IF v = "v0" THEN Committed0(n) ELSE Committed1(n)
DeadWord(v, n)   == Wrap(CommitWord(v, n) + TOMBSTONE)

\* A claimed position is resolved or has a producer that fills it; a free one
\* is claimable.
WindowAgrees ==
    /\ Claimed <= M
    /\ \A k \in 0 .. M - 1 :
         LET n == At(ReadPos, k) IN
         /\ k < Claimed =>
              \/ seq[Slot(n)] \in {CommitWord(version, n), DeadWord(version, n)}
              \/ seq[Slot(n)] = n /\ \E p \in Producers : Filling(p) /\ pos[p] = n
         /\ k >= Claimed => seq[Slot(n)] = n

\* A producer fills a position that is claimed and not resolved.
FillersInside ==
    \A p \in Producers : Filling(p) =>
        /\ seq[Slot(pos[p])] = pos[p]
        /\ \E k \in 0 .. M - 1 : k < Claimed /\ pos[p] = At(ReadPos, k)

FillersApart ==
    \A p, q \in Producers : Filling(p) /\ Filling(q) /\ pos[p] = pos[q] => p = q

\* What the compare-and-swap relies on: if the index has not moved since the
\* slot's word was found claimable, the word has not changed either.
ClaimFresh ==
    \A p \in Producers : pc[p] = "claim" /\ pos[p] = producer_idx =>
        seq[Slot(producer_idx)] = producer_idx

\* The consumer's position is the index it will store or has stored, and the
\* slot under its guard keeps its commit, or its tombstone, until released.
ConsumerAgrees ==
    /\ cpc \in {"probing", "reading", "half", "read"} => rpos = consumer_idx
    /\ cpc \in {"skipping", "releasing"} => consumer_idx = Wrap(rpos + 1)
    /\ cpc \in {"reading", "half", "read", "releasing"} =>
         seq[Slot(rpos)] = CommitWord(version, rpos)
    /\ cpc = "skipping" => seq[Slot(rpos)] = DeadWord(version, rpos)

\* Every committed slot holds one whole message, a slot being filled holds
\* what its fill has written so far, and a reader has read what is there.
BytesIntact ==
    /\ \A k \in 0 .. M - 1 :
         LET n == At(ReadPos, k) IN
         k < Claimed /\ seq[Slot(n)] = CommitWord(version, n) =>
             buf[Slot(n)].lo \in Msg /\ buf[Slot(n)].hi = buf[Slot(n)].lo
    /\ \A p \in Producers :
         /\ pc[p] \in {"half", "filled"} => msg[p] \in Msg /\ buf[Slot(pos[p])].lo = msg[p]
         /\ pc[p] = "filled" => buf[Slot(pos[p])].hi = msg[p]
    /\ cpc \in {"half", "read", "releasing"} => got.lo = buf[Slot(rpos)].lo
    /\ cpc \in {"read", "releasing"} => got.hi = buf[Slot(rpos)].hi

\* The inductive invariant.
IInv == /\ TypeOK /\ WindowAgrees /\ FillersInside /\ FillersApart
        /\ ClaimFresh /\ ConsumerAgrees /\ BytesIntact

-----------------------------------------------------------------------------
(* Words and slots.                                                        *)

\* The range and the capacity in the form the lemmas on remainders ask for.
LEMMA Ranges ==
    /\ M \in Nat \ {0} /\ W \in Nat \ {0} /\ M \in Int /\ W \in Int
    /\ W % M = 0 /\ TOMBSTONE \in Nat /\ W = 2 * TOMBSTONE /\ M + 1 < TOMBSTONE
    /\ \A v \in Versions : v \in {"v0", "v1"} /\ (v = "v0" => M >= 2)
BY GeometryAssumption DEF TOMBSTONE

\* A wrapped value is a word.
LEMMA WrapType == \A n \in Int : Wrap(n) \in Words
BY Ranges, ModDef DEF Wrap, Words

\* A word wraps to itself.
LEMMA WrapWord == \A n \in Words : Wrap(n) = n
BY Ranges, ModSmall DEF Wrap, Words

\* Wrapping a summand first changes nothing.
LEMMA WrapAdd == \A a, b \in Int : Wrap(Wrap(a) + b) = Wrap(a + b)
BY Ranges, ModAdd, Zenon DEF Wrap

\* Two offsets below the word's range wrap to different words.
LEMMA WrapInjective ==
    ASSUME NEW a \in Int, NEW i \in Words, NEW j \in Words, Wrap(a + i) = Wrap(a + j)
    PROVE  i = j
BY Ranges, OffsetInjective, Zenon DEF Wrap, Words

\* A position's slot is one of the ring's.
LEMMA SlotType == \A n \in Int : Slot(n) \in Slots
BY Ranges, ModDef DEF Slot, Slots

\* The slot does not depend on the wrapping of the word.
LEMMA SlotWrap == \A n \in Int : Slot(Wrap(n)) = Slot(n)
BY Ranges, ModOfMod, Zenon DEF Slot, Wrap

\* The values of a slot's word at one position are words, and differ: at every
\* capacity for v1, at two and more for v0, which refuses one.
LEMMA WordsDiffer ==
    ASSUME NEW v \in Versions, NEW n \in Words
    PROVE  /\ CommitWord(v, n) \in Words /\ DeadWord(v, n) \in Words /\ Released(n) \in Words
           /\ CommitWord(v, n) \notin {n, Released(n), DeadWord(v, n)}
           /\ DeadWord(v, n) \notin {n, Released(n)}
           /\ Released(n) # n
<1>1. PICK c \in Nat : /\ c \in {1, M + 1} /\ c # M
                       /\ CommitWord(v, n) = Wrap(n + c)
  <2>1. CASE v = "v0"
    <3>1. 1 # M /\ CommitWord(v, n) = Wrap(n + 1)
      BY <2>1, Ranges DEF CommitWord, Committed0
    <3> QED BY <3>1
  <2>2. CASE v = "v1"
    <3>1. M + 1 # M /\ M + 1 \in Nat /\ n + M + 1 = n + (M + 1)
      BY Ranges DEF Words
    <3> QED BY <2>2, <3>1 DEF CommitWord, Committed1
  <2> QED BY <2>1, <2>2, Ranges
<1>2. /\ n \in Int /\ n + c \in Int /\ n + M \in Int /\ TOMBSTONE \in Int
      /\ n + (c + TOMBSTONE) \in Int /\ (n + c) + TOMBSTONE = n + (c + TOMBSTONE)
  BY Ranges DEF Words
<1>3. DeadWord(v, n) = Wrap(n + (c + TOMBSTONE))
  BY <1>1, <1>2, WrapAdd DEF DeadWord
<1>4. n = Wrap(n + 0) /\ Released(n) = Wrap(n + M)
  BY <1>2, WrapWord DEF Released
<1>5. /\ 0 \in Words /\ c \in Words /\ M \in Words /\ c + TOMBSTONE \in Words
      /\ c \notin {0, M, c + TOMBSTONE} /\ c + TOMBSTONE \notin {0, M} /\ M # 0
  BY <1>1, Ranges DEF Words
<1>6. CommitWord(v, n) \in Words /\ DeadWord(v, n) \in Words /\ Released(n) \in Words
  BY <1>1, <1>2, <1>3, <1>4, WrapType
<1>7. CommitWord(v, n) \notin {n, Released(n), DeadWord(v, n)}
  BY <1>1, <1>2, <1>3, <1>4, <1>5, WrapInjective
<1>8. DeadWord(v, n) \notin {n, Released(n)} /\ Released(n) # n
  BY <1>2, <1>3, <1>4, <1>5, WrapInjective
<1> QED BY <1>6, <1>7, <1>8

\* The window from a position on: M words, each with a slot of its own, and
\* the first position of the next lap in the slot of the first.
LEMMA WindowSlots ==
    ASSUME NEW r \in Words
    PROVE  /\ At(r, 0) = r
           /\ \A k \in 0 .. M : At(r, k) \in Words /\ Slot(At(r, k)) \in Slots
           /\ \A j, k \in 0 .. M - 1 : Slot(At(r, j)) = Slot(At(r, k)) => j = k
           /\ At(r, M) = Released(r) /\ Slot(At(r, M)) = Slot(r)
<1>1. At(r, 0) = r
  <2>1. r + 0 = r
    BY Ranges DEF Words
  <2> QED BY <2>1, WrapWord DEF At
<1>2. \A k \in 0 .. M : At(r, k) \in Words /\ Slot(At(r, k)) \in Slots
  BY Ranges, WindowWords, Zenon DEF At, Wrap, Slot, Words, Slots
<1>3. \A j, k \in 0 .. M - 1 : Slot(At(r, j)) = Slot(At(r, k)) => j = k
  <2> SUFFICES ASSUME NEW j \in 0 .. M - 1, NEW k \in 0 .. M - 1,
                      Slot(At(r, j)) = Slot(At(r, k))
               PROVE  j = k
    OBVIOUS
  <2>1. W \in Nat \ {0} /\ M \in Nat \ {0} /\ W % M = 0
    BY Ranges
  <2>2. r \in 0 .. W - 1 /\ ((r + j) % W) % M = ((r + k) % W) % M
    BY DEF At, Wrap, Slot, Words
  <2> QED BY <2>1, <2>2, WindowInjective, Zenon
<1>4. At(r, M) = Released(r) /\ Slot(At(r, M)) = Slot(r)
  BY Ranges, WindowLap, Zenon DEF At, Wrap, Slot, Words, Released
<1> QED BY <1>1, <1>2, <1>3, <1>4

\* After one release the window has moved on by one.
LEMMA WindowShift ==
    ASSUME NEW r \in Words
    PROVE  \A k \in 0 .. M - 1 : At(Wrap(r + 1), k) = At(r, k + 1)
<1> SUFFICES ASSUME NEW k \in 0 .. M - 1
             PROVE  At(Wrap(r + 1), k) = At(r, k + 1)
  OBVIOUS
<1>1. W \in Nat \ {0} /\ r \in 0 .. (W - 1) /\ k \in Nat
  BY Ranges DEF Words
<1>2. (((r + 1) % W) + k) % W = (r + (k + 1)) % W
  BY <1>1, WindowNext, Zenon
<1> QED BY <1>2, Zenon DEF At, Wrap

\* The claimed positions are the first Claimed ones of the window, and the
\* index is the next one.
LEMMA ClaimedWindow ==
    ASSUME TypeOK
    PROVE  /\ ReadPos \in Words /\ Claimed \in Words /\ Claimed \in Nat
           /\ producer_idx = At(ReadPos, Claimed)
<1>1. ReadPos \in Words /\ producer_idx \in Words
  BY DEF TypeOK, ReadPos
<1>2. Claimed \in Words /\ Claimed \in Nat
  BY <1>1, Ranges, WrapType DEF Words, Claimed
<1> QED BY <1>1, <1>2, Ranges, DistanceAdds, Zenon DEF Claimed, At, Wrap, Words

\* The names the model gives the words.
LEMMA WordNames ==
    ASSUME NEW n
    PROVE  Committed(n) = CommitWord(version, n) /\ Tombstoned(n) = DeadWord(version, n)
BY DEF Committed, Tombstoned, CommitWord, DeadWord

-----------------------------------------------------------------------------
(* What the state of the window says.                                      *)

\* A filler's slot: in the window, apart from the consumer's and from every
\* resolved or free position's.
LEMMA FillerSlot ==
    ASSUME IInv, NEW p \in Producers, Filling(p)
    PROVE  \E i \in 0 .. M - 1 :
             /\ i < Claimed /\ pos[p] = At(ReadPos, i) /\ Slot(pos[p]) \in Slots
             /\ seq[Slot(pos[p])] = pos[p] /\ pos[p] \in Words
             /\ \A k \in 0 .. M - 1 : k # i => Slot(At(ReadPos, k)) # Slot(pos[p])
             /\ \A q \in Producers : q # p /\ Filling(q) => Slot(pos[q]) # Slot(pos[p])
<1>1. PICK i \in 0 .. M - 1 : i < Claimed /\ pos[p] = At(ReadPos, i)
  BY DEF IInv, FillersInside
<1>2. seq[Slot(pos[p])] = pos[p]
  BY DEF IInv, FillersInside
<1>3. ReadPos \in Words /\ i \in 0 .. M
  BY ClaimedWindow, Ranges DEF IInv
<1>4. /\ Slot(pos[p]) \in Slots /\ pos[p] \in Words
      /\ \A k \in 0 .. M - 1 : k # i => Slot(At(ReadPos, k)) # Slot(pos[p])
  BY <1>1, <1>3, WindowSlots
<1>5. ASSUME NEW q \in Producers, q # p, Filling(q)
      PROVE  Slot(pos[q]) # Slot(pos[p])
  <2>1. PICK j \in 0 .. M - 1 : pos[q] = At(ReadPos, j)
    BY <1>5 DEF IInv, FillersInside
  <2>2. pos[q] # pos[p]
    BY <1>5 DEF IInv, FillersApart
  <2> QED BY <1>1, <1>4, <2>1, <2>2
<1> QED BY <1>1, <1>2, <1>4, <1>5

\* A claimable word at the index means a free slot: on a full ring the word
\* there is one of the oldest position's, and none of those is claimable in
\* the next lap.
LEMMA ClaimableMeansRoom ==
    ASSUME IInv, seq[Slot(producer_idx)] = producer_idx
    PROVE  Claimed < M
<1> SUFFICES ASSUME Claimed = M
             PROVE  FALSE
  BY ClaimedWindow, Ranges DEF IInv, WindowAgrees
<1>1. ReadPos \in Words /\ version \in Versions /\ producer_idx = At(ReadPos, M)
  BY ClaimedWindow DEF IInv, TypeOK
<1>2. /\ producer_idx = Released(ReadPos) /\ Slot(producer_idx) = Slot(ReadPos)
      /\ At(ReadPos, 0) = ReadPos
  BY <1>1, WindowSlots
<1>3. 0 \in 0 .. M - 1 /\ 0 < Claimed
  BY Ranges
<1>4. seq[Slot(ReadPos)] \in {CommitWord(version, ReadPos), DeadWord(version, ReadPos), ReadPos}
  BY <1>2, <1>3 DEF IInv, WindowAgrees
<1> QED BY <1>1, <1>2, <1>4, WordsDiffer

\* A resolved word at the read position means the position is claimed, and no
\* producer fills it.
LEMMA ResolvedMeansClaimed ==
    ASSUME IInv,
           seq[Slot(ReadPos)] \in {CommitWord(version, ReadPos), DeadWord(version, ReadPos)}
    PROVE  /\ Claimed > 0
           /\ \A p \in Producers : Filling(p) => Slot(pos[p]) # Slot(ReadPos)
<1>1. ReadPos \in Words /\ version \in Versions /\ Claimed \in Nat
  BY ClaimedWindow DEF IInv, TypeOK
<1>2. At(ReadPos, 0) = ReadPos /\ 0 \in 0 .. M - 1
  BY <1>1, WindowSlots, Ranges
<1>3. seq[Slot(ReadPos)] # ReadPos
  BY <1>1, WordsDiffer
<1>4. Claimed # 0
  <2>1. 0 >= Claimed => seq[Slot(At(ReadPos, 0))] = At(ReadPos, 0)
    BY <1>2 DEF IInv, WindowAgrees
  <2> QED BY <1>1, <1>2, <1>3, <2>1
<1>5. ASSUME NEW p \in Producers, Filling(p)
      PROVE  Slot(pos[p]) # Slot(ReadPos)
  BY <1>2, <1>3, <1>5, FillerSlot
<1> QED BY <1>1, <1>4, <1>5

\* The consumer between its look at a resolved slot and its release.
ConsumerBusy == cpc \in {"skipping", "reading", "half", "read", "releasing"}

LEMMA BusySlot ==
    ASSUME IInv, ConsumerBusy
    PROVE  /\ rpos = ReadPos /\ Claimed > 0
           /\ \A p \in Producers : Filling(p) => Slot(pos[p]) # Slot(rpos)
<1>1. rpos = ReadPos
  BY DEF IInv, ConsumerAgrees, ReadPos, ConsumerBusy
<1>2. seq[Slot(rpos)] \in {CommitWord(version, rpos), DeadWord(version, rpos)}
  BY DEF IInv, ConsumerAgrees, ConsumerBusy
<1> QED BY <1>1, <1>2, ResolvedMeansClaimed

\* The index in the window, while the word there is claimable.
LEMMA IndexSlot ==
    ASSUME IInv, seq[Slot(producer_idx)] = producer_idx
    PROVE  /\ Claimed \in 0 .. M - 1 /\ producer_idx = At(ReadPos, Claimed)
           /\ \A k \in 0 .. M - 1 : k # Claimed => Slot(At(ReadPos, k)) # Slot(producer_idx)
<1>1. Claimed < M /\ ReadPos \in Words /\ Claimed \in Nat /\ producer_idx = At(ReadPos, Claimed)
  BY ClaimableMeansRoom, ClaimedWindow DEF IInv
<1>2. Claimed \in 0 .. M - 1
  BY <1>1, Ranges
<1> QED BY <1>1, <1>2, WindowSlots

-----------------------------------------------------------------------------
(* The steps.                                                              *)

\* Every step keeps every variable in its type: the words stay in the word's
\* range although positions run on for ever.
LEMMA TypeStep == TypeOK /\ [Next]_vars => TypeOK'
<1> SUFFICES ASSUME TypeOK, [Next]_vars
             PROVE  TypeOK'
  OBVIOUS
<1>1. /\ rpos \in Words /\ version \in Versions /\ Wrap(rpos + 1) \in Words
      /\ Released(rpos) \in Words /\ Slot(rpos) \in Slots
  BY WrapType, SlotType, Ranges, WordsDiffer DEF TypeOK, Words
<1>2. ASSUME NEW p \in Producers
      PROVE  /\ pos[p] \in Words /\ Wrap(pos[p] + 1) \in Words /\ Slot(pos[p]) \in Slots
             /\ Committed(pos[p]) \in Words /\ Tombstoned(pos[p]) \in Words
  <2>1. pos[p] \in Words /\ pos[p] \in Int
    BY Ranges DEF TypeOK, Words
  <2> QED BY <1>1, <2>1, WrapType, SlotType, WordsDiffer, WordNames, Ranges
<1> USE DEF TypeOK
<1>3. CASE UNCHANGED vars
  BY <1>3 DEF vars
<1>4. CASE ReserveSteps \/ ReadLo \/ ReadHi \/ DropRead \/ ReleaseIdx \/ ReleaseSeq
  <2>1. CASE ReserveRead \/ ReadGuard \/ SkipIdx \/ NoMessage \/ ReleaseIdx
    BY <1>1, <2>1, Ranges DEF ReserveRead, ReadGuard, SkipIdx, NoMessage, ReleaseIdx, Words
  <2>2. CASE SkipSeq
    BY <1>1, <2>2 DEF SkipSeq
  <2>3. CASE ReadLo \/ ReadHi
    BY <1>1, <2>3 DEF ReadLo, ReadHi, Pair
  <2>4. CASE DropRead
    BY <2>4, Ranges DEF DropRead, Empty, Pair, Half, Words
  <2>5. CASE ReleaseSeq
    BY <1>1, <2>5, Ranges DEF ReleaseSeq, Empty, Pair, Half, Words
  <2> QED BY <1>4, <2>1, <2>2, <2>3, <2>4, <2>5 DEF ReserveSteps
<1>5. ASSUME NEW p \in Producers, SendSteps(p) \/ Probe(p) \/ Probe0(p) \/ Stale(p)
      PROVE  TypeOK'
  <2> USE DEF Goto, Return, consVars
  <2>1. CASE Send(p) \/ LoseClaim(p) \/ Behind(p) \/ Stale(p) \/ Probe(p)
    BY <2>1 DEF Send, LoseClaim, Behind, Stale, Probe
  <2>2. CASE Probe0(p)
    BY <2>2 DEF Probe0
  <2>3. CASE Claim(p)
    BY <1>2, <2>3 DEF Claim
  <2>4. CASE Full(p)
    BY <2>4, Ranges DEF Full, Half, Words
  <2>5. CASE FillLo(p)
    BY <1>2, <2>5 DEF FillLo, Pair, Half
  <2>6. CASE FillHi(p)
    BY <1>2, <2>6 DEF FillHi, Pair, Half
  <2>7. CASE Commit(p)
    BY <1>2, <2>7, Ranges DEF Commit, Half, Words
  <2>8. CASE Unwind(p)
    BY <1>2, <2>8, Ranges DEF Unwind, Half, Words
  <2> QED BY <1>5, <2>1, <2>2, <2>3, <2>4, <2>5, <2>6, <2>7, <2>8 DEF SendSteps
<1> QED BY <1>3, <1>4, <1>5 DEF Next, ConsumerNext, ProducerNext, send_with0, send_with1,
        reserve_slot_with0, reserve_slot_with1, release0, release1

\* A step of a producer's search for a position: it touches nothing shared, and
\* goes to its compare-and-swap only with a word found claimable.
LEMMA SearchStep ==
    ASSUME IInv, TypeOK', NEW p \in Producers,
           UNCHANGED <<producer_idx, seq, buf, consVars>>,
           \A q \in Producers \ {p} : pc'[q] = pc[q] /\ pos'[q] = pos[q] /\ msg'[q] = msg[q],
           ~Filling(p), pc'[p] \notin {"fill", "half", "filled"},
           pc'[p] = "claim" => pos'[p] = pos[p] /\ seq[Slot(pos[p])] = pos[p]
    PROVE  IInv'
<1> USE DEF consVars
<1>1. ReadPos' = ReadPos /\ Claimed' = Claimed
  BY DEF ReadPos, Claimed
<1>2. \A q \in Producers : /\ Filling(q)' <=> Filling(q)
                           /\ Filling(q) => pos'[q] = pos[q] /\ pc'[q] = pc[q] /\ msg'[q] = msg[q]
  BY DEF Filling
<1>3. WindowAgrees'
  BY <1>1, <1>2 DEF IInv, WindowAgrees
<1>4. FillersInside' /\ FillersApart'
  BY <1>1, <1>2 DEF IInv, FillersInside, FillersApart
<1>5. ClaimFresh'
  BY DEF IInv, ClaimFresh
<1>6. ConsumerAgrees'
  BY DEF IInv, ConsumerAgrees
<1>7. BytesIntact'
  <2>1. \A q \in Producers : pc'[q] \in {"half", "filled"} => Filling(q)
    BY <1>2 DEF Filling
  <2> QED BY <1>1, <1>2, <2>1 DEF IInv, BytesIntact
<1> QED BY <1>3, <1>4, <1>5, <1>6, <1>7 DEF IInv

\* A successful compare-and-swap claims the first free position.
LEMMA ClaimStep ==
    ASSUME IInv, TypeOK', NEW p \in Producers, Claim(p)
    PROVE  /\ IInv' /\ Claimed < M /\ Claimed' = Claimed + 1 /\ ReadPos' = ReadPos
           /\ producer_idx = At(ReadPos, Claimed)
<1> USE DEF Claim, Goto, consVars
<1>1. ReadPos' = ReadPos /\ seq[Slot(producer_idx)] = producer_idx
  BY DEF ReadPos, IInv, ClaimFresh
<1>2. /\ Claimed \in 0 .. M - 1 /\ producer_idx = At(ReadPos, Claimed)
      /\ \A k \in 0 .. M - 1 : k # Claimed => Slot(At(ReadPos, k)) # Slot(producer_idx)
  BY <1>1, IndexSlot
<1>3. Claimed' = Claimed + 1
  <2>1. ReadPos \in 0 .. W - 1 /\ producer_idx \in 0 .. W - 1 /\ W \in Nat \ {0} /\ Claimed + 1 < W
    BY <1>2, ClaimedWindow, Ranges DEF IInv, TypeOK, Words
  <2> QED BY <1>1, <2>1, DistanceUp, Zenon DEF Claimed, Wrap
<1>4. \A q \in Producers : q # p => pc'[q] = pc[q] /\ (Filling(q)' <=> Filling(q))
  BY DEF IInv, TypeOK, Filling
<1>5. Filling(p)' /\ ~Filling(p) /\ pc'[p] = "fill"
  BY DEF IInv, TypeOK, Filling
<1>6. WindowAgrees'
  <2>1. Claimed' <= M
    BY <1>2, <1>3, Ranges
  <2>2. ASSUME NEW k \in 0 .. M - 1, NEW n, n = At(ReadPos, k)
        PROVE  /\ k < Claimed + 1 =>
                    \/ seq[Slot(n)] \in {CommitWord(version, n), DeadWord(version, n)}
                    \/ seq[Slot(n)] = n /\ \E q \in Producers : Filling(q)' /\ pos[q] = n
               /\ k >= Claimed + 1 => seq[Slot(n)] = n
    <3>1. CASE k < Claimed
      <4>1. ~(k >= Claimed + 1)
        BY <1>2, <3>1
      <4> QED BY <1>4, <1>5, <2>2, <3>1, <4>1 DEF IInv, WindowAgrees
    <3>2. CASE k = Claimed
      <4>1. seq[Slot(n)] = n
        BY <1>1, <1>2, <2>2, <3>2
      <4> QED BY <1>2, <1>5, <2>2, <3>2, <4>1
    <3>3. CASE k > Claimed
      <4>1. ~(k < Claimed + 1) /\ k >= Claimed
        BY <1>2, <3>3
      <4> QED BY <2>2, <4>1 DEF IInv, WindowAgrees
    <3> QED BY <1>2, <3>1, <3>2, <3>3
  <2> QED BY <1>1, <1>3, <2>1, <2>2 DEF WindowAgrees
<1>7. FillersInside'
  <2>1. ASSUME NEW q \in Producers, Filling(q)'
        PROVE  /\ seq[Slot(pos[q])] = pos[q]
               /\ \E k \in 0 .. M - 1 : k < Claimed + 1 /\ pos[q] = At(ReadPos, k)
    <3>1. CASE q = p
      <4>1. Claimed < Claimed + 1
        BY <1>2
      <4> QED BY <1>1, <1>2, <3>1, <4>1
    <3>2. CASE q # p
      <4>1. Filling(q)
        BY <1>4, <2>1, <3>2
      <4>2. PICK k \in 0 .. M - 1 : k < Claimed /\ pos[q] = At(ReadPos, k)
        BY <4>1 DEF IInv, FillersInside
      <4>3. k < Claimed + 1
        BY <1>2, <4>2
      <4> QED BY <4>1, <4>2, <4>3 DEF IInv, FillersInside
    <3> QED BY <3>1, <3>2
  <2> QED BY <1>1, <1>3, <2>1 DEF FillersInside
<1>8. FillersApart'
  <2>1. ASSUME NEW q \in Producers, q # p, Filling(q)
        PROVE  pos[q] # pos[p]
    <3>1. PICK k \in 0 .. M - 1 : k < Claimed /\ pos[q] = At(ReadPos, k)
      BY <2>1 DEF IInv, FillersInside
    <3>2. k # Claimed
      BY <1>2, <3>1
    <3> QED BY <1>2, <3>1, <3>2
  <2> QED BY <1>4, <1>5, <2>1 DEF IInv, FillersApart
<1>9. ClaimFresh'
  BY <1>4, <1>5 DEF ClaimFresh, NoWholeWrap
<1>10. ConsumerAgrees'
  BY DEF IInv, ConsumerAgrees
<1>11. BytesIntact'
  <2>1. ASSUME NEW k \in 0 .. M - 1, NEW n, n = At(ReadPos, k),
               k < Claimed + 1, seq[Slot(n)] = CommitWord(version, n)
        PROVE  buf[Slot(n)].lo \in Msg /\ buf[Slot(n)].hi = buf[Slot(n)].lo
    <3>1. CASE k < Claimed
      BY <2>1, <3>1 DEF IInv, BytesIntact
    <3>2. CASE k = Claimed
      <4>1. n \in Words /\ version \in Versions /\ seq[Slot(n)] = n
        BY <1>1, <1>2, <2>1, <3>2 DEF IInv, TypeOK
      <4> QED BY <2>1, <4>1, WordsDiffer
    <3> QED BY <1>2, <2>1, <3>1, <3>2
  <2> QED BY <1>1, <1>3, <1>4, <1>5, <2>1 DEF IInv, BytesIntact
<1>12. Claimed < M
  BY <1>2, Ranges
<1> QED BY <1>1, <1>2, <1>3, <1>6, <1>7, <1>8, <1>9, <1>10, <1>11, <1>12 DEF IInv

\* The fill writes to a slot that is nobody else's.
LEMMA FillStep ==
    ASSUME IInv, TypeOK', NEW p \in Producers, FillLo(p) \/ FillHi(p)
    PROVE  /\ IInv' /\ Claimed' = Claimed /\ ReadPos' = ReadPos
           /\ \A k \in 0 .. M - 1 : LET n == At(ReadPos, k) IN
                k < Claimed /\ seq[Slot(n)] = CommitWord(version, n) => buf'[Slot(n)] = buf[Slot(n)]
<1> USE DEF FillLo, FillHi, Goto, consVars
<1>1. ReadPos' = ReadPos /\ Claimed' = Claimed
  BY DEF ReadPos, Claimed
<1>2. Filling(p) /\ Filling(p)'
  BY DEF IInv, TypeOK, Filling
<1>3. \A q \in Producers : /\ Filling(q)' <=> Filling(q)
                           /\ q # p => pc'[q] = pc[q] /\ msg'[q] = msg[q]
                           /\ pc'[q] = "claim" => pc[q] = "claim"
  BY DEF IInv, TypeOK, Filling
<1>4. PICK i \in 0 .. M - 1 :
             /\ i < Claimed /\ pos[p] = At(ReadPos, i) /\ Slot(pos[p]) \in Slots
             /\ seq[Slot(pos[p])] = pos[p] /\ pos[p] \in Words
             /\ \A k \in 0 .. M - 1 : k # i => Slot(At(ReadPos, k)) # Slot(pos[p])
             /\ \A q \in Producers : q # p /\ Filling(q) => Slot(pos[q]) # Slot(pos[p])
  BY <1>2, FillerSlot
<1>5. \A s \in Slots : s # Slot(pos[p]) => buf'[s] = buf[s]
  BY DEF IInv, TypeOK
<1>6. WindowAgrees' /\ FillersInside' /\ FillersApart' /\ ClaimFresh' /\ ConsumerAgrees'
  BY <1>1, <1>3 DEF IInv, WindowAgrees, FillersInside, FillersApart, ClaimFresh, ConsumerAgrees
<1>7. ASSUME NEW k \in 0 .. M - 1, NEW n, n = At(ReadPos, k),
             k < Claimed, seq[Slot(n)] = CommitWord(version, n)
      PROVE  buf'[Slot(n)] = buf[Slot(n)]
  <2>1. k # i
    BY <1>4, <1>7, WordsDiffer DEF IInv, TypeOK
  <2>2. Slot(n) \in Slots /\ Slot(n) # Slot(pos[p])
    <3>1. ReadPos \in Words /\ k \in 0 .. M
      BY ClaimedWindow, Ranges DEF IInv
    <3> QED BY <1>4, <1>7, <2>1, <3>1, WindowSlots
  <2> QED BY <1>5, <2>2
<1>8. BytesIntact'
  <2>1. \A q \in Producers : q # p /\ Filling(q) => buf'[Slot(pos[q])] = buf[Slot(pos[q])]
    BY <1>4, <1>5, SlotType, Ranges DEF IInv, TypeOK, Words
  <2>2. /\ msg'[p] \in Msg /\ buf'[Slot(pos[p])].lo = msg'[p]
        /\ pc'[p] = "filled" => buf'[Slot(pos[p])].hi = msg'[p]
    BY <1>4 DEF IInv, TypeOK, BytesIntact, Pair
  <2>3. ASSUME NEW q \in Producers
        PROVE  /\ pc'[q] \in {"half", "filled"} =>
                    msg'[q] \in Msg /\ buf'[Slot(pos[q])].lo = msg'[q]
               /\ pc'[q] = "filled" => buf'[Slot(pos[q])].hi = msg'[q]
    <3>1. CASE q = p
      BY <2>2, <3>1
    <3>2. CASE q # p
      BY <1>3, <2>1, <3>2 DEF IInv, BytesIntact, Filling
    <3> QED BY <3>1, <3>2
  <2>4. ConsumerBusy => buf'[Slot(rpos)] = buf[Slot(rpos)]
    BY <1>2, <1>5, BusySlot, SlotType, Ranges DEF IInv, TypeOK, Words
  <2>5. /\ cpc' \in {"half", "read", "releasing"} => got'.lo = buf'[Slot(rpos)].lo
        /\ cpc' \in {"read", "releasing"} => got'.hi = buf'[Slot(rpos)].hi
    BY <2>4 DEF IInv, BytesIntact, ConsumerBusy
  <2> QED BY <1>1, <1>7, <2>3, <2>5 DEF IInv, BytesIntact
<1> QED BY <1>1, <1>6, <1>7, <1>8 DEF IInv

\* A commit or a tombstone resolves the producer's own position.
LEMMA ResolveStep ==
    ASSUME IInv, TypeOK', NEW p \in Producers, Commit(p) \/ Unwind(p)
    PROVE  /\ IInv' /\ Claimed' = Claimed /\ ReadPos' = ReadPos
           /\ \E i \in 0 .. M - 1 :
                /\ i < Claimed /\ pos[p] = At(ReadPos, i) /\ seq[Slot(pos[p])] = pos[p]
                /\ seq'[Slot(pos[p])] = IF Commit(p) THEN CommitWord(version, pos[p])
                                                     ELSE DeadWord(version, pos[p])
                /\ \A k \in 0 .. M - 1 : k # i =>
                     seq'[Slot(At(ReadPos, k))] = seq[Slot(At(ReadPos, k))]
<1> DEFINE v == IF Commit(p) THEN CommitWord(version, pos[p]) ELSE DeadWord(version, pos[p])
<1>1. /\ seq' = [seq EXCEPT ![Slot(pos[p])] = v] /\ Filling(p) /\ Return(p)
      /\ UNCHANGED <<producer_idx, buf, consVars>> /\ (Commit(p) => pc[p] = "filled")
  BY WordNames DEF Commit, Unwind, Filling
<1> HIDE DEF v
<1>2. v \in {CommitWord(version, pos[p]), DeadWord(version, pos[p])}
  BY DEF v
<1> USE DEF consVars, Return, Goto
<1>3. ReadPos' = ReadPos /\ Claimed' = Claimed
  BY <1>1 DEF ReadPos, Claimed
<1>4. PICK i \in 0 .. M - 1 :
             /\ i < Claimed /\ pos[p] = At(ReadPos, i) /\ Slot(pos[p]) \in Slots
             /\ seq[Slot(pos[p])] = pos[p] /\ pos[p] \in Words
             /\ \A k \in 0 .. M - 1 : k # i => Slot(At(ReadPos, k)) # Slot(pos[p])
             /\ \A q \in Producers : q # p /\ Filling(q) => Slot(pos[q]) # Slot(pos[p])
  BY <1>1, FillerSlot
<1>5. /\ seq'[Slot(pos[p])] = v
      /\ \A s \in Slots : s # Slot(pos[p]) => seq'[s] = seq[s]
      /\ \A k \in 0 .. M - 1 : Slot(At(ReadPos, k)) \in Slots
  <2>1. ReadPos \in Words /\ \A k \in 0 .. M - 1 : k \in 0 .. M
    BY ClaimedWindow, Ranges DEF IInv
  <2> QED BY <1>1, <1>4, <2>1, WindowSlots DEF IInv, TypeOK
<1>6. \A k \in 0 .. M - 1 : k # i => seq'[Slot(At(ReadPos, k))] = seq[Slot(At(ReadPos, k))]
  BY <1>4, <1>5
<1>7. ~Filling(p)' /\ \A q \in Producers : q # p => /\ pc'[q] = pc[q] /\ pos'[q] = pos[q]
                                                   /\ msg'[q] = msg[q] /\ (Filling(q)' <=> Filling(q))
  BY <1>1 DEF IInv, TypeOK, Filling
<1>8. WindowAgrees'
  <2>1. ASSUME NEW k \in 0 .. M - 1, NEW n, n = At(ReadPos, k)
        PROVE  /\ k < Claimed =>
                    \/ seq'[Slot(n)] \in {CommitWord(version, n), DeadWord(version, n)}
                    \/ seq'[Slot(n)] = n /\ \E q \in Producers : Filling(q)' /\ pos'[q] = n
               /\ k >= Claimed => seq'[Slot(n)] = n
    <3>1. CASE k = i
      <4>1. ~(k >= Claimed)
        BY <1>4, <3>1, ClaimedWindow DEF IInv
      <4> QED BY <1>2, <1>4, <1>5, <2>1, <3>1, <4>1
    <3>2. CASE k # i
      <4>1. n # pos[p]
        BY <1>4, <2>1, <3>2
      <4>2. seq'[Slot(n)] = seq[Slot(n)]
        BY <1>6, <2>1, <3>2
      <4> QED BY <1>7, <2>1, <4>1, <4>2 DEF IInv, WindowAgrees
    <3> QED BY <3>1, <3>2
  <2> QED BY <1>1, <1>3, <2>1 DEF IInv, WindowAgrees
<1>9. FillersInside'
  <2>1. ASSUME NEW q \in Producers, q # p, Filling(q)
        PROVE  /\ seq'[Slot(pos[q])] = pos[q]
               /\ \E k \in 0 .. M - 1 : k < Claimed /\ pos[q] = At(ReadPos, k)
    <3>1. Slot(pos[q]) \in Slots
      BY SlotType, Ranges DEF IInv, TypeOK, Words
    <3> QED BY <1>4, <1>5, <2>1, <3>1 DEF IInv, FillersInside
  <2> QED BY <1>3, <1>7, <2>1 DEF FillersInside
<1>10. FillersApart'
  BY <1>7 DEF IInv, FillersApart
<1>11. ClaimFresh'
  <2>1. ASSUME seq[Slot(producer_idx)] = producer_idx
        PROVE  seq'[Slot(producer_idx)] = producer_idx
    <3>1. Claimed \in 0 .. M - 1 /\ producer_idx = At(ReadPos, Claimed) /\ Claimed # i
      BY <1>4, <2>1, IndexSlot
    <3> QED BY <1>6, <2>1, <3>1
  <2>2. pc'[p] # "claim"
    BY <1>1 DEF IInv, TypeOK
  <2> QED BY <1>1, <1>7, <2>1, <2>2 DEF IInv, ClaimFresh
<1>12. ConsumerAgrees'
  <2>1. ConsumerBusy => seq'[Slot(rpos)] = seq[Slot(rpos)]
    BY <1>1, <1>5, BusySlot, SlotType, Ranges DEF IInv, TypeOK, Words
  <2> QED BY <1>1, <2>1 DEF IInv, ConsumerAgrees, ConsumerBusy
<1>13. BytesIntact'
  <2>1. ASSUME NEW k \in 0 .. M - 1, NEW n, n = At(ReadPos, k),
               k < Claimed, seq'[Slot(n)] = CommitWord(version, n)
        PROVE  buf[Slot(n)].lo \in Msg /\ buf[Slot(n)].hi = buf[Slot(n)].lo
    <3>1. CASE k = i
      <4>1. Commit(p)
        BY <1>4, <1>5, <2>1, <3>1, WordsDiffer DEF v, IInv, TypeOK
      <4> QED BY <1>1, <1>4, <2>1, <3>1, <4>1 DEF IInv, BytesIntact
    <3>2. CASE k # i
      BY <1>6, <2>1, <3>2 DEF IInv, BytesIntact
    <3> QED BY <3>1, <3>2
  <2>2. pc'[p] \notin {"half", "filled"}
    BY <1>7 DEF Filling
  <2> QED BY <1>1, <1>3, <1>7, <2>1, <2>2 DEF IInv, BytesIntact
<1> QED BY <1>3, <1>4, <1>5, <1>6, <1>8, <1>9, <1>10, <1>11, <1>12, <1>13 DEF IInv, v

\* A release, or the skip of a tombstone, frees the oldest position's slot for
\* the next lap and moves the window on by one.
LEMMA ReleaseStep ==
    ASSUME IInv, TypeOK', ReleaseSeq \/ SkipSeq
    PROVE  /\ IInv' /\ Claimed > 0 /\ Claimed' = Claimed - 1 /\ rpos = ReadPos
           /\ ReadPos' = Wrap(ReadPos + 1)
           /\ \A k \in 1 .. M - 1 : seq'[Slot(At(ReadPos, k))] = seq[Slot(At(ReadPos, k))]
<1> DEFINE v == Released(rpos)
<1>1. /\ ConsumerBusy /\ cpc \in {"skipping", "releasing"}
      /\ cpc' \in {"idle", "probing"} /\ (cpc' = "probing" => rpos' = Wrap(rpos + 1))
      /\ seq' = [seq EXCEPT ![Slot(rpos)] = v]
      /\ UNCHANGED <<version, producer_idx, consumer_idx, buf, pc, pos, msg>>
  BY DEF ReleaseSeq, SkipSeq, ConsumerBusy
<1> HIDE DEF v
<1>2. /\ rpos = ReadPos /\ Claimed > 0 /\ consumer_idx = Wrap(rpos + 1)
      /\ \A p \in Producers : Filling(p) => Slot(pos[p]) # Slot(rpos)
  BY <1>1, BusySlot DEF IInv, ConsumerAgrees
<1>3. ReadPos' = Wrap(ReadPos + 1)
  BY <1>1, <1>2 DEF ReadPos
<1>4. ReadPos \in Words /\ Claimed \in Nat /\ Claimed <= M
  BY ClaimedWindow DEF IInv, WindowAgrees
<1>5. Claimed' = Claimed - 1
  <2>1. ReadPos \in 0 .. W - 1 /\ producer_idx \in 0 .. W - 1 /\ W \in Nat \ {0}
    BY <1>4, Ranges DEF IInv, TypeOK, Words
  <2> QED BY <1>1, <1>2, <1>3, <2>1, DistanceDown, Zenon DEF Claimed, Wrap
<1>6. /\ At(ReadPos, 0) = ReadPos /\ Slot(rpos) \in Slots
      /\ At(ReadPos, M) = v /\ Slot(At(ReadPos, M)) = Slot(rpos)
      /\ \A k \in 1 .. M - 1 : Slot(At(ReadPos, k)) \in Slots /\ Slot(At(ReadPos, k)) # Slot(rpos)
  <2>1. 0 \in 0 .. M - 1 /\ \A k \in 1 .. M - 1 : k \in 0 .. M - 1 /\ k # 0 /\ k \in 0 .. M
    BY Ranges
  <2>2. rpos \in Int
    BY <1>2, <1>4, Ranges DEF Words
  <2> QED BY <1>2, <1>4, <2>1, <2>2, WindowSlots, SlotType DEF v
<1>7. /\ seq'[Slot(rpos)] = v
      /\ \A s \in Slots : s # Slot(rpos) => seq'[s] = seq[s]
      /\ \A k \in 1 .. M - 1 : seq'[Slot(At(ReadPos, k))] = seq[Slot(At(ReadPos, k))]
  BY <1>1, <1>6 DEF IInv, TypeOK
<1>8. \A k \in 0 .. M - 1 : At(ReadPos', k) = At(ReadPos, k + 1)
  BY <1>3, <1>4, WindowShift
<1>9. \A q \in Producers : Filling(q)' <=> Filling(q)
  BY <1>1 DEF Filling
<1>10. WindowAgrees'
  <2>1. ASSUME NEW k \in 0 .. M - 1, NEW n, n = At(ReadPos, k + 1)
        PROVE  /\ k < Claimed - 1 =>
                    \/ seq'[Slot(n)] \in {CommitWord(version, n), DeadWord(version, n)}
                    \/ seq'[Slot(n)] = n /\ \E q \in Producers : Filling(q) /\ pos[q] = n
               /\ k >= Claimed - 1 => seq'[Slot(n)] = n
    <3>1. CASE k = M - 1
      <4>1. k + 1 = M /\ ~(k < Claimed - 1)
        BY <1>4, <3>1, Ranges
      <4> QED BY <1>6, <1>7, <2>1, <4>1
    <3>2. CASE k # M - 1
      <4>1. /\ k + 1 \in 1 .. M - 1 /\ k + 1 \in 0 .. M - 1
            /\ (k < Claimed - 1 <=> k + 1 < Claimed) /\ (k >= Claimed - 1 <=> k + 1 >= Claimed)
        BY <1>4, <3>2, Ranges
      <4>2. seq'[Slot(n)] = seq[Slot(n)]
        BY <1>7, <2>1, <4>1
      <4> QED BY <2>1, <4>1, <4>2 DEF IInv, WindowAgrees
    <3> QED BY <3>1, <3>2
  <2>2. Claimed' <= M
    BY <1>4, <1>5, Ranges
  <2> QED BY <1>1, <1>5, <1>8, <1>9, <2>1, <2>2 DEF WindowAgrees
<1>11. FillersInside'
  <2>1. ASSUME NEW q \in Producers, Filling(q)
        PROVE  /\ seq'[Slot(pos[q])] = pos[q]
               /\ \E k \in 0 .. M - 1 : k < Claimed - 1 /\ pos[q] = At(ReadPos', k)
    <3>1. PICK j \in 0 .. M - 1 : j < Claimed /\ pos[q] = At(ReadPos, j)
      BY <2>1 DEF IInv, FillersInside
    <3>2. j # 0
      BY <1>2, <1>6, <2>1, <3>1
    <3>3. /\ j - 1 \in 0 .. M - 1 /\ j - 1 < Claimed - 1 /\ (j - 1) + 1 = j
          /\ j \in 1 .. M - 1
      BY <1>4, <3>1, <3>2, Ranges
    <3>4. pos[q] = At(ReadPos', j - 1)
      BY <1>8, <3>1, <3>3
    <3>5. seq'[Slot(pos[q])] = pos[q]
      BY <1>7, <2>1, <3>1, <3>3 DEF IInv, FillersInside
    <3> QED BY <3>3, <3>4, <3>5
  <2> QED BY <1>1, <1>5, <1>9, <2>1 DEF FillersInside
<1>12. FillersApart'
  BY <1>1, <1>9 DEF IInv, FillersApart
<1>13. ClaimFresh'
  <2>1. ASSUME seq[Slot(producer_idx)] = producer_idx
        PROVE  seq'[Slot(producer_idx)] = producer_idx
    <3>1. Claimed \in 1 .. M - 1 /\ producer_idx = At(ReadPos, Claimed)
      BY <1>2, <1>4, <2>1, IndexSlot
    <3> QED BY <1>7, <2>1, <3>1
  <2> QED BY <1>1, <2>1 DEF IInv, ClaimFresh
<1>14. ConsumerAgrees'
  BY <1>1, <1>2 DEF ConsumerAgrees
<1>15. BytesIntact'
  <2>1. ASSUME NEW k \in 0 .. M - 1, NEW n, n = At(ReadPos, k + 1),
               k < Claimed - 1, seq'[Slot(n)] = CommitWord(version, n)
        PROVE  buf[Slot(n)].lo \in Msg /\ buf[Slot(n)].hi = buf[Slot(n)].lo
    <3>1. k + 1 \in 1 .. M - 1 /\ k + 1 \in 0 .. M - 1 /\ k + 1 < Claimed
      BY <1>4, <2>1, Ranges
    <3>2. seq'[Slot(n)] = seq[Slot(n)]
      BY <1>7, <2>1, <3>1
    <3> QED BY <2>1, <3>1, <3>2 DEF IInv, BytesIntact
  <2> QED BY <1>1, <1>5, <1>8, <2>1 DEF IInv, BytesIntact
<1> QED BY <1>2, <1>3, <1>5, <1>7, <1>10, <1>11, <1>12, <1>13, <1>14, <1>15 DEF IInv

\* The consumer's other steps change nothing the producers look at.
LEMMA ConsumerStep ==
    ASSUME IInv, TypeOK',
           \/ ReserveRead \/ ReadGuard \/ SkipIdx \/ NoMessage \/ ReadLo \/ ReadHi
           \/ DropRead \/ ReleaseIdx
    PROVE  IInv' /\ ReadPos' = ReadPos /\ Claimed' = Claimed
<1>1. UNCHANGED <<version, producer_idx, seq, buf, pc, pos, msg>>
  BY DEF ReserveRead, ReadGuard, SkipIdx, NoMessage, ReadLo, ReadHi, DropRead, ReleaseIdx
<1>2. ReadPos' = ReadPos /\ Claimed' = Claimed
  <2>1. ReadPos' = ReadPos
    BY DEF IInv, ConsumerAgrees, ReadPos, ReserveRead, ReadGuard, SkipIdx, NoMessage,
           ReadLo, ReadHi, DropRead, ReleaseIdx
  <2> QED BY <1>1, <2>1 DEF Claimed
<1>3. \A q \in Producers : Filling(q)' <=> Filling(q)
  BY <1>1 DEF Filling
<1>4. WindowAgrees' /\ FillersInside' /\ FillersApart' /\ ClaimFresh'
  BY <1>1, <1>2, <1>3 DEF IInv, WindowAgrees, FillersInside, FillersApart, ClaimFresh
<1>5. ConsumerAgrees'
  BY <1>1, WordNames DEF IInv, ConsumerAgrees, ReserveRead, ReadGuard, SkipIdx,
     NoMessage, ReadLo, ReadHi, DropRead, ReleaseIdx
<1>6. BytesIntact'
  <2>1. /\ cpc' \in {"half", "read", "releasing"} => got'.lo = buf[Slot(rpos')].lo
        /\ cpc' \in {"read", "releasing"} => got'.hi = buf[Slot(rpos')].hi
    BY DEF IInv, TypeOK, Pair, BytesIntact, ReserveRead, ReadGuard, SkipIdx,
       NoMessage, ReadLo, ReadHi, DropRead, ReleaseIdx
  <2> QED BY <1>1, <1>2, <2>1 DEF IInv, BytesIntact
<1> QED BY <1>2, <1>4, <1>5, <1>6 DEF IInv

\* v0's signed distance is zero for the claimable word only.
LEMMA DiffZero ==
    ASSUME NEW s \in Words, NEW n \in Words, Wrap(s - n) = 0
    PROVE  s = n
<1>1. Wrap(n + Wrap(s - n)) = s
  BY Ranges, DistanceAdds, Zenon DEF Wrap, Words
<1>2. n + 0 = n
  BY Ranges DEF Words
<1> QED BY <1>1, <1>2, WrapWord

\* A producer's steps before its claim.
LEMMA SearchSteps ==
    ASSUME IInv, TypeOK', NEW p \in Producers,
           \/ Send(p) \/ Probe(p) \/ Probe0(p) \/ Stale(p) \/ LoseClaim(p)
           \/ Behind(p) \/ Full(p)
    PROVE  IInv' /\ UNCHANGED <<producer_idx, seq, buf, consVars>>
<1> USE DEF Goto, Return
<1>1. UNCHANGED <<producer_idx, seq, buf, consVars>>
  BY DEF Send, Probe, Probe0, Stale, LoseClaim, Behind, Full
<1>2. /\ ~Filling(p) /\ pc'[p] \notin {"fill", "half", "filled"}
      /\ \A q \in Producers \ {p} : pc'[q] = pc[q] /\ pos'[q] = pos[q] /\ msg'[q] = msg[q]
  BY DEF IInv, TypeOK, Filling, Send, Probe, Probe0, Stale, LoseClaim, Behind, Full
<1>3. pc'[p] = "claim" => pos'[p] = pos[p] /\ seq[Slot(pos[p])] = pos[p]
  <2>1. CASE Send(p) \/ Stale(p) \/ LoseClaim(p) \/ Behind(p) \/ Full(p)
    BY <2>1 DEF IInv, TypeOK, Send, Stale, LoseClaim, Behind, Full
  <2>2. CASE Probe(p)
    BY <2>2 DEF IInv, TypeOK, Probe, Claimable
  <2>3. CASE Probe0(p)
    <3>1. seq[Slot(pos[p])] \in Words /\ pos[p] \in Words
      BY SlotType, Ranges DEF IInv, TypeOK, Words
    <3>2. pc'[p] = "claim" => Wrap(seq[Slot(pos[p])] - pos[p]) = 0
      BY <2>3 DEF IInv, TypeOK, Probe0
    <3> QED BY <2>3, <3>1, <3>2, DiffZero DEF Probe0
  <2> QED BY <2>1, <2>2, <2>3
<1> QED BY <1>1, <1>2, <1>3, SearchStep

-----------------------------------------------------------------------------
\* init leaves the ring empty with every slot claimable for lap 0.
LEMMA InitIInv == Init => IInv
<1> SUFFICES ASSUME Init
             PROVE  IInv
  OBVIOUS
<1> USE DEF Init
<1>1. 0 \in Words /\ Slots \subseteq Words
  BY Ranges DEF Words, Slots
<1>2. TypeOK
  BY <1>1 DEF TypeOK, Claimable, Empty, Pair, Half
<1>3. ReadPos = 0 /\ Claimed = 0
  BY <1>1, WrapWord DEF ReadPos, Claimed
<1>4. \A q \in Producers : ~Filling(q) /\ pc[q] = "idle"
  BY DEF Filling
<1>5. WindowAgrees
  <2>1. ASSUME NEW k \in 0 .. M - 1
        PROVE  seq[Slot(At(0, k))] = At(0, k)
    <3>1. k \in Slots /\ 0 + k = k /\ Slot(k) = k
      BY Ranges, ModSmall DEF Slots, Slot
    <3>2. At(0, k) = k
      BY <1>1, <3>1, WrapWord DEF At
    <3> QED BY <3>1, <3>2 DEF Claimable
  <2> QED BY <1>3, <2>1, Ranges DEF WindowAgrees
<1>6. FillersInside /\ FillersApart /\ ClaimFresh /\ ConsumerAgrees
  BY <1>4 DEF FillersInside, FillersApart, ClaimFresh, ConsumerAgrees
<1>7. BytesIntact
  BY <1>3, <1>4, Ranges DEF BytesIntact
<1> QED BY <1>2, <1>5, <1>6, <1>7 DEF IInv

\* The inductive step.
LEMMA StepIInv == IInv /\ [Next]_vars => IInv'
<1> SUFFICES ASSUME IInv, [Next]_vars
             PROVE  IInv'
  OBVIOUS
<1>1. TypeOK'
  BY TypeStep DEF IInv
<1>2. CASE UNCHANGED vars
  <2>1. UNCHANGED <<version, producer_idx, consumer_idx, seq, buf, pc, pos, msg, cpc, rpos, got>>
    BY <1>2 DEF vars
  <2>2. ReadPos' = ReadPos /\ Claimed' = Claimed /\ \A q \in Producers : Filling(q)' <=> Filling(q)
    BY <2>1 DEF ReadPos, Claimed, Filling
  <2> QED BY <1>1, <2>1, <2>2 DEF IInv, WindowAgrees, FillersInside, FillersApart,
          ClaimFresh, ConsumerAgrees, BytesIntact
<1>3. CASE ConsumerNext
  BY <1>1, <1>3, ConsumerStep, ReleaseStep
     DEF ConsumerNext, reserve_slot_with0, reserve_slot_with1, release0, release1, ReserveSteps
<1>4. ASSUME NEW p \in Producers, ProducerNext(p)
      PROVE  IInv'
  BY <1>1, <1>4, SearchSteps, ClaimStep, FillStep, ResolveStep
     DEF ProducerNext, send_with0, send_with1, SendSteps
<1> QED BY <1>2, <1>3, <1>4 DEF Next

\* The invariant holds of every behaviour.
LEMMA Invariance == Spec => []IInv
BY InitIInv, StepIInv, PTL DEF Spec

-----------------------------------------------------------------------------
(* The invariants and the action property the runs check.                  *)

\* The seq words agree with the two indices: every claimed position is
\* resolved or has exactly one producer at its fill, and every free position
\* is claimable, whatever the producers' stale loads.
THEOREM SeqWordsAgree == Spec => []SeqAgrees
<1>1. IInv => SeqAgrees
  <2> SUFFICES ASSUME IInv
               PROVE  SeqAgrees
    OBVIOUS
  <2>1. Claimed <= M /\ ReadPos \in Words /\ version \in Versions /\ Claimed \in Nat
    BY ClaimedWindow DEF IInv, WindowAgrees, TypeOK
  <2>2. ASSUME NEW k \in 0 .. M - 1, NEW n, n = At(ReadPos, k), NEW F,
               F = {p \in Producers : Filling(p) /\ pos[p] = n}
        PROVE  IF k < Claimed
               THEN \/ seq[Slot(n)] \in {CommitWord(version, n), DeadWord(version, n)} /\ F = {}
                    \/ seq[Slot(n)] = n /\ \E p \in Producers : F = {p}
               ELSE seq[Slot(n)] = n /\ F = {}
    <3>1. n \in Words /\ k \in 0 .. M
      BY <2>1, <2>2, WindowSlots, Ranges
    <3>2. seq[Slot(n)] # n => F = {}
      BY <2>2 DEF IInv, FillersInside
    <3>3. CASE k >= Claimed
      <4>1. ASSUME NEW p \in Producers, Filling(p), pos[p] = n
            PROVE  FALSE
        <5>1. PICK j \in 0 .. M - 1 : j < Claimed /\ pos[p] = At(ReadPos, j)
          BY <4>1 DEF IInv, FillersInside
        <5>2. Slot(At(ReadPos, j)) = Slot(At(ReadPos, k))
          BY <2>2, <4>1, <5>1
        <5>3. j = k
          BY <2>1, <5>2, WindowSlots
        <5> QED BY <2>1, <3>3, <5>1, <5>3
      <4>2. F = {}
        BY <2>2, <4>1
      <4>3. seq[Slot(n)] = n /\ ~(k < Claimed)
        BY <2>1, <2>2, <3>3 DEF IInv, WindowAgrees
      <4> QED BY <4>2, <4>3
    <3>4. CASE k < Claimed
      <4>1. CASE seq[Slot(n)] \in {CommitWord(version, n), DeadWord(version, n)}
        <5>1. seq[Slot(n)] # n
          BY <2>1, <3>1, <4>1, WordsDiffer
        <5> QED BY <3>2, <3>4, <4>1, <5>1
      <4>2. CASE seq[Slot(n)] = n /\ \E p \in Producers : Filling(p) /\ pos[p] = n
        <5>1. PICK p \in Producers : Filling(p) /\ pos[p] = n
          BY <4>2
        <5>2. F = {p}
          BY <2>2, <5>1 DEF IInv, FillersApart
        <5> QED BY <3>4, <4>2, <5>2
      <4> QED BY <2>2, <3>4, <4>1, <4>2 DEF IInv, WindowAgrees
    <3> QED BY <2>1, <3>3, <3>4
  <2>3. ASSUME NEW k \in 0 .. M - 1
        PROVE  LET n == Wrap(ReadPos + k)
                   F == {p \in Producers : Filling(p) /\ pos[p] = n}
               IN  IF k < Claimed
                   THEN \/ seq[Slot(n)] \in {Committed(n), Tombstoned(n)} /\ F = {}
                        \/ seq[Slot(n)] = Claimable(n) /\ \E p \in Producers : F = {p}
                   ELSE seq[Slot(n)] = Claimable(n) /\ F = {}
    <3> DEFINE n == Wrap(ReadPos + k)
               F == {p \in Producers : Filling(p) /\ pos[p] = n}
    <3>1. Committed(n) = CommitWord(version, n) /\ Tombstoned(n) = DeadWord(version, n)
      BY WordNames
    <3>2. n = At(ReadPos, k) /\ F = {p \in Producers : Filling(p) /\ pos[p] = n}
      BY DEF At
    <3> HIDE DEF n, F
    <3>3. IF k < Claimed
          THEN \/ seq[Slot(n)] \in {Committed(n), Tombstoned(n)} /\ F = {}
               \/ seq[Slot(n)] = n /\ \E p \in Producers : F = {p}
          ELSE seq[Slot(n)] = n /\ F = {}
      BY <2>2, <3>1, <3>2
    <3> QED BY <3>3 DEF n, F, Claimable
  <2> QED BY <2>1, <2>3 DEF SeqAgrees
<1> QED BY <1>1, Invariance, PTL

\* send_with's order of loads is sound: a ring reported full was full when the
\* slot's word was loaded, in v0's signed comparison as in v1's.
THEOREM FullIsFull == Spec => FullWasFull
<1> DEFINE Reports == \A p \in Producers :
                        (Probe(p) \/ Probe0(p)) /\ pc'[p] = "reread" /\ producer_idx = pos[p]
                            => Claimed = M
<1>1. IInv => Reports
  <2> SUFFICES ASSUME IInv, NEW p \in Producers, Probe(p) \/ Probe0(p),
                      pc'[p] = "reread", producer_idx = pos[p], Claimed # M
               PROVE  FALSE
    OBVIOUS
  <2>1. /\ Claimed \in 0 .. M - 1 /\ Claimed >= Claimed
        /\ producer_idx = At(ReadPos, Claimed) /\ producer_idx \in Words
    BY ClaimedWindow, Ranges DEF IInv, WindowAgrees, TypeOK
  <2>2. seq[Slot(producer_idx)] = producer_idx
    BY <2>1 DEF IInv, WindowAgrees
  <2>3. CASE Probe(p)
    BY <2>2, <2>3 DEF Probe, Goto, Claimable, IInv, TypeOK
  <2>4. CASE Probe0(p)
    <3>1. producer_idx - producer_idx = 0 /\ 0 \in Words
      BY <2>1, Ranges DEF Words
    <3>2. Wrap(seq[Slot(pos[p])] - pos[p]) = 0
      BY <2>2, <3>1, WrapWord
    <3> QED BY <2>4, <3>2 DEF Probe0, Goto, IInv, TypeOK
  <2> QED BY <2>3, <2>4
<1>2. IInv /\ [Next]_vars => [Reports]_vars
  BY <1>1
<1>3. Spec => [][Reports]_vars
  BY <1>2, Invariance, PTL DEF Spec
<1> QED BY <1>3 DEF FullWasFull

-----------------------------------------------------------------------------
(* The ring implements the claim queue.                                    *)

\* What a slot at position n shows the queue, and the first c of the places
\* from position r on.
PlaceOf(v, s, b, n) ==
    IF s[Slot(n)] = CommitWord(v, n) THEN b[Slot(n)].lo
    ELSE IF s[Slot(n)] = DeadWord(v, n) THEN Dead ELSE Open

View(v, s, b, r, c) == [k \in 1 .. c |-> PlaceOf(v, s, b, At(r, k - 1))]

AllPlaces == Msg \cup {Open, Dead}

\* The mapped queue before a step ...
LEMMA PlacesView ==
    ASSUME ReadPos \in Int, Claimed \in Nat
    PROVE  Places = View(version, seq, buf, ReadPos, Claimed)
<1>1. \A k \in 1 .. Claimed : Wrap(ReadPos + k - 1) = At(ReadPos, k - 1)
  <2>1. \A k \in 1 .. Claimed : ReadPos + k - 1 = ReadPos + (k - 1)
    OBVIOUS
  <2> QED BY <2>1 DEF At
<1> QED BY <1>1 DEF Places, Place, View, PlaceOf, Committed, Tombstoned, CommitWord, DeadWord

\* ... and after it.
LEMMA PlacesViewNext ==
    ASSUME ReadPos' \in Int, Claimed' \in Nat
    PROVE  Places' = View(version', seq', buf', ReadPos', Claimed')
<1>1. \A k \in 1 .. Claimed' : Wrap(ReadPos' + k - 1) = At(ReadPos', k - 1)
  <2>1. \A k \in 1 .. Claimed' : ReadPos' + k - 1 = ReadPos' + (k - 1)
    OBVIOUS
  <2> QED BY <2>1 DEF At
<1> QED BY <1>1 DEF Places, Place, View, PlaceOf, Committed, Tombstoned, CommitWord, DeadWord

\* The mapped queue is a sequence of Claimed places.
LEMMA PlacesSeq ==
    ASSUME IInv
    PROVE  /\ Places = View(version, seq, buf, ReadPos, Claimed)
           /\ Places \in Seq(AllPlaces) /\ Len(Places) = Claimed
           /\ ReadPos \in Words /\ ReadPos \in Int /\ Claimed \in Nat /\ Claimed <= M
           /\ DOMAIN Places = 1 .. Claimed
           /\ \A k \in 1 .. Claimed :
                /\ k - 1 \in 0 .. M - 1 /\ k - 1 < Claimed
                /\ Places[k] = PlaceOf(version, seq, buf, At(ReadPos, k - 1))
<1>1. ReadPos \in Words /\ ReadPos \in Int /\ Claimed \in Nat /\ Claimed <= M
  BY ClaimedWindow, Ranges DEF IInv, WindowAgrees, Words
<1>2. Places = View(version, seq, buf, ReadPos, Claimed)
  BY <1>1, PlacesView
<1>3. \A k \in 1 .. Claimed : k - 1 \in 0 .. M - 1 /\ k - 1 < Claimed
  BY <1>1, Ranges
<1>4. \A k \in 1 .. Claimed : PlaceOf(version, seq, buf, At(ReadPos, k - 1)) \in AllPlaces
  BY <1>3 DEF IInv, BytesIntact, PlaceOf, AllPlaces
<1>5. View(version, seq, buf, ReadPos, Claimed) \in Seq(AllPlaces)
  BY <1>1, <1>4 DEF View
<1> QED BY <1>1, <1>2, <1>3, <1>5 DEF View

\* A step that neither moves the window nor changes what a claimed slot shows
\* is invisible to the queue.
LEMMA PlacesStill ==
    ASSUME IInv, Claimed' = Claimed, ReadPos' = ReadPos, version' = version, seq' = seq,
           \A k \in 0 .. M - 1 : LET n == At(ReadPos, k) IN
             k < Claimed /\ seq[Slot(n)] = CommitWord(version, n) => buf'[Slot(n)] = buf[Slot(n)]
    PROVE  Places' = Places
<1>1. /\ Places = View(version, seq, buf, ReadPos, Claimed)
      /\ ReadPos \in Int /\ Claimed \in Nat
      /\ \A k \in 1 .. Claimed : k - 1 \in 0 .. M - 1 /\ k - 1 < Claimed
  BY PlacesSeq
<1>2. Places' = View(version, seq, buf', ReadPos, Claimed)
  BY <1>1, PlacesViewNext
<1>3. \A k \in 1 .. Claimed : PlaceOf(version, seq, buf', At(ReadPos, k - 1))
                                = PlaceOf(version, seq, buf, At(ReadPos, k - 1))
  BY <1>1 DEF PlaceOf
<1> QED BY <1>1, <1>2, <1>3 DEF View

\* The compare-and-swap is the queue's Claim.
LEMMA ClaimClaims ==
    ASSUME IInv, TypeOK', NEW p \in Producers, Claim(p)
    PROVE  Queue!Claim
<1>1. /\ Claimed < M /\ Claimed' = Claimed + 1 /\ ReadPos' = ReadPos
      /\ producer_idx = At(ReadPos, Claimed)
      /\ UNCHANGED <<version, seq, buf, cpc, got>>
  BY ClaimStep DEF Claim, consVars
<1>2. /\ Places = View(version, seq, buf, ReadPos, Claimed)
      /\ Places \in Seq(AllPlaces) /\ Len(Places) = Claimed
      /\ ReadPos \in Int /\ Claimed \in Nat
      /\ \A k \in 1 .. Claimed : Places[k] = PlaceOf(version, seq, buf, At(ReadPos, k - 1))
  BY PlacesSeq
<1>3. PlaceOf(version, seq, buf, At(ReadPos, Claimed)) = Open
  <2>1. seq[Slot(producer_idx)] = producer_idx
    BY DEF IInv, ClaimFresh, Claim
  <2> QED BY <1>1, <2>1, WordsDiffer DEF PlaceOf, IInv, TypeOK
<1>4. Places' = [k \in 1 .. Claimed + 1 |-> PlaceOf(version, seq, buf, At(ReadPos, k - 1))]
  BY <1>1, <1>2, PlacesViewNext DEF View
<1>5. Append(Places, Open) = [k \in 1 .. Claimed + 1 |-> IF k <= Claimed THEN Places[k] ELSE Open]
  <2>1. Open \in AllPlaces
    BY DEF AllPlaces
  <2> QED BY <1>2, <2>1, AppendElements
<1>6. ASSUME NEW k \in 1 .. Claimed + 1
      PROVE  PlaceOf(version, seq, buf, At(ReadPos, k - 1))
               = IF k <= Claimed THEN Places[k] ELSE Open
  <2>1. CASE k <= Claimed
    BY <1>2, <2>1
  <2>2. CASE k = Claimed + 1
    <3>1. k - 1 = Claimed /\ ~(k <= Claimed)
      BY <1>2, <2>2
    <3> QED BY <1>3, <3>1
  <2> QED BY <1>2, <2>1, <2>2
<1>7. Places' = Append(Places, Open)
  BY <1>4, <1>5, <1>6
<1>8. Held' = Held
  BY <1>1 DEF Held
<1> QED BY <1>1, <1>2, <1>7, <1>8 DEF Queue!Claim

\* A commit and a tombstone are the queue's Resolve.
LEMMA ResolveResolves ==
    ASSUME IInv, TypeOK', NEW p \in Producers, Commit(p) \/ Unwind(p)
    PROVE  Queue!Resolve
<1> DEFINE w == IF Commit(p) THEN CommitWord(version, pos[p]) ELSE DeadWord(version, pos[p])
<1>1. Claimed' = Claimed /\ ReadPos' = ReadPos /\ UNCHANGED <<version, buf, cpc, got>>
  BY ResolveStep DEF Commit, Unwind, consVars
<1>2. PICK i \in 0 .. M - 1 :
            /\ i < Claimed /\ pos[p] = At(ReadPos, i) /\ seq[Slot(pos[p])] = pos[p]
            /\ seq'[Slot(pos[p])] = w
            /\ \A k \in 0 .. M - 1 : k # i =>
                 seq'[Slot(At(ReadPos, k))] = seq[Slot(At(ReadPos, k))]
  BY ResolveStep
<1>3. pos[p] \in Words /\ version \in Versions
  BY DEF IInv, TypeOK
<1> DEFINE m == IF Commit(p) THEN buf[Slot(pos[p])].lo ELSE Dead
<1>4. m \in Msg \cup {Dead}
  BY DEF IInv, BytesIntact, Commit
<1>5. PlaceOf(version, seq, buf, pos[p]) = Open
  BY <1>2, <1>3, WordsDiffer DEF PlaceOf
<1>6. PlaceOf(version, seq', buf, pos[p]) = m
  BY <1>2, <1>3, WordsDiffer DEF PlaceOf
<1> HIDE DEF w, m
<1>7. /\ Places = View(version, seq, buf, ReadPos, Claimed)
      /\ ReadPos \in Int /\ Claimed \in Nat /\ DOMAIN Places = 1 .. Claimed
      /\ \A k \in 1 .. Claimed :
           /\ k - 1 \in 0 .. M - 1 /\ k - 1 < Claimed
           /\ Places[k] = PlaceOf(version, seq, buf, At(ReadPos, k - 1))
  BY PlacesSeq
<1>8. i + 1 \in DOMAIN Places /\ (i + 1) - 1 = i
  BY <1>2, <1>7, Ranges
<1>9. Places[i + 1] = Open
  BY <1>2, <1>5, <1>7, <1>8
<1>10. Places' = [Places EXCEPT ![i + 1] = m]
  <2>1. Places' = [k \in 1 .. Claimed |-> PlaceOf(version, seq', buf, At(ReadPos, k - 1))]
    BY <1>1, <1>7, PlacesViewNext DEF View
  <2>2. ASSUME NEW k \in 1 .. Claimed
        PROVE  PlaceOf(version, seq', buf, At(ReadPos, k - 1))
                 = IF k = i + 1 THEN m ELSE Places[k]
    <3>1. CASE k = i + 1
      BY <1>2, <1>6, <1>8, <3>1
    <3>2. CASE k # i + 1
      <4>1. k - 1 # i /\ k - 1 \in 0 .. M - 1
        <5>1. k - 1 \in 0 .. M - 1
          BY <1>7
        <5> QED BY <5>1, <3>2
      <4>2. seq'[Slot(At(ReadPos, k - 1))] = seq[Slot(At(ReadPos, k - 1))]
        BY <1>2, <4>1
      <4> QED BY <1>7, <3>2, <4>2 DEF PlaceOf
    <3> QED BY <3>1, <3>2
  <2>3. [Places EXCEPT ![i + 1] = m] = [k \in 1 .. Claimed |-> IF k = i + 1 THEN m ELSE Places[k]]
    BY <1>7 DEF View
  <2> QED BY <2>1, <2>2, <2>3
<1>11. Held' = Held
  BY <1>1 DEF Held
<1> QED BY <1>4, <1>8, <1>9, <1>10, <1>11 DEF Queue!Resolve

\* Both releases remove the oldest place.
LEMMA ReleaseTails ==
    ASSUME IInv, TypeOK', ReleaseSeq \/ SkipSeq
    PROVE  /\ Places' = Tail(Places) /\ Places # <<>>
           /\ Head(Places) = PlaceOf(version, seq, buf, rpos)
<1>1. /\ Claimed > 0 /\ Claimed' = Claimed - 1 /\ rpos = ReadPos /\ ReadPos' = Wrap(ReadPos + 1)
      /\ \A k \in 1 .. M - 1 : seq'[Slot(At(ReadPos, k))] = seq[Slot(At(ReadPos, k))]
      /\ UNCHANGED <<version, buf>>
  BY ReleaseStep DEF ReleaseSeq, SkipSeq
<1>2. /\ Places = View(version, seq, buf, ReadPos, Claimed)
      /\ Places \in Seq(AllPlaces) /\ Len(Places) = Claimed
      /\ ReadPos \in Words /\ ReadPos \in Int /\ Claimed \in Nat /\ Claimed <= M
      /\ \A k \in 1 .. Claimed : Places[k] = PlaceOf(version, seq, buf, At(ReadPos, k - 1))
  BY PlacesSeq
<1>3. ReadPos' \in Int /\ Claimed' \in Nat
  BY <1>1, <1>2, WrapType, Ranges DEF Words
<1>4. Places' = [k \in 1 .. Claimed - 1 |-> PlaceOf(version, seq', buf, At(ReadPos', k - 1))]
  BY <1>1, <1>3, PlacesViewNext DEF View
<1>5. Tail(Places) = [k \in 1 .. Claimed - 1 |-> Places[k + 1]]
  BY <1>1, <1>2, TailElements
<1>6. ASSUME NEW k \in 1 .. Claimed - 1
      PROVE  PlaceOf(version, seq', buf, At(ReadPos', k - 1)) = Places[k + 1]
  <2>1. /\ k - 1 \in 0 .. M - 1 /\ (k - 1) + 1 = k /\ k \in 1 .. M - 1
        /\ k + 1 \in 1 .. Claimed /\ (k + 1) - 1 = k
    BY <1>2, Ranges
  <2>2. At(ReadPos', k - 1) = At(ReadPos, k)
    BY <1>1, <1>2, <2>1, WindowShift
  <2>3. seq'[Slot(At(ReadPos, k))] = seq[Slot(At(ReadPos, k))]
    BY <1>1, <2>1
  <2>4. Places[k + 1] = PlaceOf(version, seq, buf, At(ReadPos, k))
    BY <1>2, <2>1
  <2> QED BY <2>2, <2>3, <2>4 DEF PlaceOf
<1>7. Places' = Tail(Places)
  BY <1>4, <1>5, <1>6
<1>8. 1 \in 1 .. Claimed /\ 1 - 1 = 0 /\ At(ReadPos, 0) = ReadPos
  BY <1>1, <1>2, WindowSlots
<1>9. Places[1] = PlaceOf(version, seq, buf, rpos)
  BY <1>1, <1>2, <1>8
<1> QED BY <1>1, <1>2, <1>7, <1>9

\* The release of a message that was read is the queue's Take ...
LEMMA ReleaseTakes ==
    ASSUME IInv, TypeOK', ReleaseSeq
    PROVE  Queue!Take
<1>1. /\ Places' = Tail(Places) /\ Places # <<>>
      /\ Head(Places) = PlaceOf(version, seq, buf, rpos)
  BY ReleaseTails
<1>2. PlaceOf(version, seq, buf, rpos) = got.lo
  BY DEF ReleaseSeq, IInv, ConsumerAgrees, BytesIntact, PlaceOf
<1>3. Held = got.lo /\ Held' = NoMsg
  BY DEF Held, ReleaseSeq
<1> QED BY <1>1, <1>2, <1>3 DEF Queue!Take

\* ... the skip of a tombstone its Skip ...
LEMMA SkipSkips ==
    ASSUME IInv, TypeOK', SkipSeq
    PROVE  Queue!Skip
<1>1. /\ Places' = Tail(Places) /\ Places # <<>>
      /\ Head(Places) = PlaceOf(version, seq, buf, rpos)
  BY ReleaseTails
<1>2. PlaceOf(version, seq, buf, rpos) = Dead
  BY WordsDiffer DEF SkipSeq, IInv, TypeOK, ConsumerAgrees, PlaceOf
<1>3. Held = NoMsg /\ Held' = NoMsg
  BY DEF Held, SkipSeq
<1> QED BY <1>1, <1>2, <1>3 DEF Queue!Skip

\* ... the end of an in-place read its Peek ...
LEMMA ReadHiPeeks ==
    ASSUME IInv, TypeOK', ReadHi
    PROVE  Queue!Peek
<1>1. /\ UNCHANGED <<version, seq, buf>> /\ ReadPos' = ReadPos /\ Claimed' = Claimed
      /\ ConsumerBusy /\ cpc' = "read" /\ got'.lo = got.lo /\ got.lo = buf[Slot(rpos)].lo
      /\ seq[Slot(rpos)] = CommitWord(version, rpos)
  BY ConsumerStep DEF ReadHi, ConsumerBusy, IInv, BytesIntact, ConsumerAgrees, TypeOK, Pair
<1>2. Places' = Places
  BY <1>1, PlacesStill
<1>3. rpos = ReadPos /\ Claimed > 0
  BY <1>1, BusySlot
<1>4. /\ Places \in Seq(AllPlaces) /\ Len(Places) = Claimed /\ ReadPos \in Words /\ Claimed \in Nat
      /\ \A k \in 1 .. Claimed : Places[k] = PlaceOf(version, seq, buf, At(ReadPos, k - 1))
  BY PlacesSeq
<1>5. /\ 1 \in 1 .. Claimed /\ 1 - 1 = 0 /\ At(ReadPos, 0) = ReadPos /\ 0 \in 0 .. M - 1
      /\ 0 < Claimed
  BY <1>3, <1>4, WindowSlots, Ranges
<1>6. Places[1] = got.lo /\ got.lo \in Msg
  BY <1>1, <1>3, <1>4, <1>5 DEF PlaceOf, IInv, BytesIntact
<1>7. Places # <<>> /\ Head(Places) = got.lo
  BY <1>3, <1>4, <1>6
<1> QED BY <1>1, <1>2, <1>6, <1>7 DEF Queue!Peek, Held

\* ... and every other step of the consumer is invisible, or drops its guard.
LEMMA ConsumerUnseen ==
    ASSUME IInv, TypeOK',
           ReserveRead \/ ReadGuard \/ SkipIdx \/ NoMessage \/ ReadLo \/ DropRead \/ ReleaseIdx
    PROVE  Queue!PutBack \/ UNCHANGED Queue!queueVars
<1>1. /\ UNCHANGED <<version, seq, buf>> /\ ReadPos' = ReadPos /\ Claimed' = Claimed
  BY ConsumerStep DEF ReserveRead, ReadGuard, SkipIdx, NoMessage, ReadLo, DropRead, ReleaseIdx
<1>2. Places' = Places
  BY <1>1, PlacesStill
<1>3. Held' = NoMsg \/ Held' = Held
  BY DEF Held, ReserveRead, ReadGuard, SkipIdx, NoMessage, ReadLo, DropRead, ReleaseIdx
<1> QED BY <1>2, <1>3 DEF Queue!PutBack, Queue!queueVars

\* A producer's search and its fill are invisible.
LEMMA ProducerUnseen ==
    ASSUME IInv, TypeOK', NEW p \in Producers,
           \/ Send(p) \/ Probe(p) \/ Probe0(p) \/ Stale(p) \/ LoseClaim(p)
           \/ Behind(p) \/ Full(p) \/ FillLo(p) \/ FillHi(p)
    PROVE  UNCHANGED Queue!queueVars
<1>1. UNCHANGED <<version, seq, cpc, got>>
  BY DEF Send, Probe, Probe0, Stale, LoseClaim, Behind, Full, FillLo, FillHi, consVars
<1>2. Places' = Places
  <2>1. CASE FillLo(p) \/ FillHi(p)
    BY <1>1, <2>1, FillStep, PlacesStill
  <2>2. CASE ~(FillLo(p) \/ FillHi(p))
    <3>1. UNCHANGED <<producer_idx, consumer_idx, rpos, cpc, buf>>
      BY <2>2, SearchSteps DEF consVars
    <3>2. ReadPos' = ReadPos /\ Claimed' = Claimed
      BY <3>1 DEF ReadPos, Claimed
    <3> QED BY <1>1, <3>1, <3>2, PlacesStill
  <2> QED BY <2>1, <2>2
<1>3. Held' = Held
  BY <1>1 DEF Held
<1> QED BY <1>2, <1>3 DEF Queue!queueVars

\* The ring delivers what its producers committed in the order of their claims,
\* however late a fill ends: nothing is lost, duplicated or overwritten, a
\* tombstone is passed over and an unfinished claim is waited for, for any
\* number of producers, any capacity and across every wrap of the indices.
THEOREM RingIsClaimQueue == Spec => ImplementsClaimQueue
<1>1. Init => Queue!QueueInit
  <2> SUFFICES ASSUME Init
               PROVE  Queue!QueueInit
    OBVIOUS
  <2>1. Claimed = 0 /\ Held = NoMsg
    <3>1. 0 \in Words
      BY Ranges DEF Words
    <3> QED BY <3>1, WrapWord DEF Init, ReadPos, Claimed, Held
  <2>2. Places = <<>>
    BY <2>1 DEF Places
  <2> QED BY <2>1, <2>2 DEF Queue!QueueInit
<1>2. IInv /\ [Next]_vars => [Queue!QueueNext]_(Queue!queueVars)
  <2> SUFFICES ASSUME IInv, [Next]_vars
               PROVE  [Queue!QueueNext]_(Queue!queueVars)
    OBVIOUS
  <2>1. TypeOK'
    BY TypeStep DEF IInv
  <2>2. CASE UNCHANGED vars
    <3>1. UNCHANGED <<version, producer_idx, consumer_idx, seq, buf, cpc, rpos, got>>
      BY <2>2 DEF vars
    <3>2. ReadPos' = ReadPos /\ Claimed' = Claimed
      BY <3>1 DEF ReadPos, Claimed
    <3>3. Places' = Places
      BY <3>1, <3>2, PlacesStill
    <3>4. Held' = Held
      BY <3>1 DEF Held
    <3> QED BY <3>3, <3>4 DEF Queue!queueVars
  <2>3. CASE ConsumerNext
    BY <2>1, <2>3, ReleaseTakes, SkipSkips, ReadHiPeeks, ConsumerUnseen
       DEF ConsumerNext, reserve_slot_with0, reserve_slot_with1, release0, release1,
           ReserveSteps, Queue!QueueNext
  <2>4. ASSUME NEW p \in Producers, ProducerNext(p)
        PROVE  [Queue!QueueNext]_(Queue!queueVars)
    BY <2>1, <2>4, ClaimClaims, ResolveResolves, ProducerUnseen
       DEF ProducerNext, send_with0, send_with1, SendSteps, Queue!QueueNext
  <2> QED BY <2>2, <2>3, <2>4 DEF Next
<1> QED BY <1>1, <1>2, Invariance, PTL DEF Spec, ImplementsClaimQueue, Queue!QueueSpec

=============================================================================
