--------------------------- MODULE SpscSeqProofs ---------------------------
(***************************************************************************)
(* Proofs about SpscSeq for every capacity M and word range W that         *)
(* validate_geometry allows.  The remainders are dealt with in the lemmas  *)
(* on Wrap and Slot; the proofs about actions use only those lemmas.       *)
(***************************************************************************)
EXTENDS SpscSeq, RingLemmas

\* The range and the capacity in the form the lemmas on remainders ask for.
LEMMA Ranges ==
    /\ M \in Nat \ {0} /\ W \in Nat \ {0} /\ M \in Int /\ W \in Int
    /\ M + 1 < W
    /\ W % M = 0
BY GeometryAssumption

\* A wrapped value is a word.
LEMMA WrapType == \A n \in Int : Wrap(n) \in Words
BY Ranges, ModDef DEF Wrap, Words

\* A word wraps to itself.
LEMMA WrapWord == \A n \in Words : Wrap(n) = n
BY Ranges, ModSmall DEF Wrap, Words

\* Wrapping a summand first changes nothing.
LEMMA WrapAdd == \A a, b \in Int : Wrap(Wrap(a) + b) = Wrap(a + b)
BY Ranges, ModAdd, Zenon DEF Wrap

\* Nor does wrapping a subtrahend first.
LEMMA WrapSub == \A a, b \in Int : Wrap(b - Wrap(a)) = Wrap(b - a)
BY Ranges, ModSub, Zenon DEF Wrap

\* Two offsets below the word's range wrap to different words.
LEMMA WrapInjective ==
    ASSUME NEW a \in Int, NEW i \in Words, NEW j \in Words, Wrap(a + i) = Wrap(a + j)
    PROVE  i = j
BY Ranges, OffsetInjective, Zenon DEF Wrap, Words

\* A position's slot is one of the ring's: idx & mask is in bounds.
LEMMA SlotType == \A n \in Int : Slot(n) \in Slots
BY Ranges, ModDef DEF Slot, Slots

\* The slot does not depend on the wrapping of the word.
LEMMA SlotWrap == \A n \in Int : Slot(Wrap(n)) = Slot(n)
BY Ranges, ModOfMod, Zenon DEF Slot, Wrap

\* The M positions from any position on use M different slots ...
LEMMA SlotInjective ==
    ASSUME NEW a \in Int, NEW i \in 0 .. M - 1, NEW j \in 0 .. M - 1,
           Slot(a + i) = Slot(a + j)
    PROVE  i = j
BY Ranges, OffsetInjective, Zenon DEF Slot

\* ... and the next lap returns to the same slot.
LEMMA SlotLap == \A a \in Int : Slot(a + M) = Slot(a)
<1> SUFFICES ASSUME NEW a \in Int
             PROVE  Slot(a + M) = Slot(a)
  OBVIOUS
<1>1. 1 \in Int /\ M * 1 = M
  BY Ranges
<1>2. (a + M * 1) % M = a % M
  BY <1>1, Ranges, ModShift, Zenon
<1> QED BY <1>1, <1>2, Zenon DEF Slot

-----------------------------------------------------------------------------
\* The two protocol positions are words, and the write position is Count past
\* the read position.
LEMMA Positions ==
    ASSUME TypeOK
    PROVE  /\ WritePos \in Words /\ ReadPos \in Words /\ Count \in Words
           /\ WritePos = Wrap(ReadPos + Count)
<1>1. WritePos \in Words /\ ReadPos \in Words
  BY DEF TypeOK, WritePos, ReadPos
<1>2. Count \in Words
  BY <1>1, Ranges, WrapType DEF Words, Count
<1> QED BY <1>1, <1>2, Ranges, DistanceAdds, Zenon DEF Count, Wrap, Words


-----------------------------------------------------------------------------
\* Every step keeps every variable in its type: index and seq words stay in
\* the word's range although positions run on for ever.
LEMMA TypeStep == TypeOK /\ [Next]_vars => TypeOK'
<1> SUFFICES ASSUME TypeOK, [Next]_vars
             PROVE  TypeOK'
  OBVIOUS
<1> USE DEF TypeOK
<1>0. /\ Wrap(wpos + 1) \in Words /\ Committed(wpos) \in Words
      /\ Wrap(rpos + 1) \in Words /\ Released(rpos) \in Words
      /\ Slot(wpos) \in Slots /\ Slot(rpos) \in Slots
  <2>1. /\ wpos \in Int /\ rpos \in Int /\ M \in Int
        /\ wpos + 1 \in Int /\ rpos + 1 \in Int
        /\ wpos + M + 1 \in Int /\ rpos + M \in Int
    BY Ranges DEF Words
  <2> QED BY <2>1, WrapType, SlotType DEF Committed, Released
<1>1. CASE ReserveWrite \/ WriteGuard \/ Full \/ AbandonWrite
  BY <1>1 DEF ReserveWrite, WriteGuard, Full, AbandonWrite, consVars
<1>2. CASE FillLo
  BY <1>0, <1>2 DEF FillLo, Pair, Half, consVars
<1>3. CASE FillHi
  BY <1>0, <1>3 DEF FillHi, Pair, Half, consVars
<1>4. CASE CommitIdx
  BY <1>0, <1>4 DEF CommitIdx, consVars
<1>5. CASE CommitSeq
  BY <1>0, <1>5 DEF CommitSeq, consVars
<1>6. CASE ReserveRead \/ ReadGuard \/ NoMessage
  BY <1>6 DEF ReserveRead, ReadGuard, NoMessage, prodVars
<1>7. CASE ReadLo \/ ReadHi
  BY <1>0, <1>7 DEF ReadLo, ReadHi, Pair, prodVars
<1>8. CASE DropRead
  BY <1>8 DEF DropRead, Empty, Pair, Half, prodVars
<1>9. CASE ReleaseIdx
  BY <1>0, <1>9 DEF ReleaseIdx, prodVars
<1>10. CASE ReleaseSeq
  BY <1>0, <1>10 DEF ReleaseSeq, Empty, Pair, Half, prodVars
<1>11. CASE UNCHANGED vars
  BY <1>11 DEF vars
<1> QED BY <1>1, <1>2, <1>3, <1>4, <1>5, <1>6, <1>7, <1>8, <1>9, <1>10, <1>11
        DEF Next, ProducerNext, ConsumerNext

\* A commit adds one message, as long as the ring was not full ...
LEMMA CountUp ==
    ASSUME NEW p \in Words, NEW c \in Words, Wrap(p - c) < M
    PROVE  Wrap(Wrap(p + 1) - c) = Wrap(p - c) + 1
<1>1. Wrap(p - c) + 1 < W
  BY Ranges, WrapType DEF Words
<1> QED BY <1>1, Ranges, DistanceUp, Zenon DEF Wrap, Words

\* ... and a release removes one, as long as it was not empty.
LEMMA CountDown ==
    ASSUME NEW p \in Words, NEW c \in Words, Wrap(p - c) > 0
    PROVE  Wrap(p - Wrap(c + 1)) = Wrap(p - c) - 1
BY Ranges, DistanceDown, Zenon DEF Wrap, Words

\* Adding to a wrapped position leads to the same slot.
LEMMA SlotAdd == \A a, k \in Int : Slot(Wrap(a) + k) = Slot(a + k)
<1> SUFFICES ASSUME NEW a \in Int, NEW k \in Int
             PROVE  Slot(Wrap(a) + k) = Slot(a + k)
  OBVIOUS
<1>1. a + k \in Int /\ Wrap(a) + k \in Int
  BY WrapType, Ranges DEF Words
<1>2. Slot(Wrap(Wrap(a) + k)) = Slot(Wrap(a) + k) /\ Slot(Wrap(a + k)) = Slot(a + k)
  BY <1>1, SlotWrap
<1> QED BY <1>2, WrapAdd

-----------------------------------------------------------------------------
\* The slot at the write position: the one Count past the read position, and
\* none of the other M - 1 positions from there on.
LEMMA WriteSlot ==
    ASSUME IInv, Count < M
    PROVE  /\ Slot(WritePos) = Slot(ReadPos + Count)
           /\ \A k \in 0 .. M - 1 : k # Count => Slot(ReadPos + k) # Slot(WritePos)
<1>1. /\ ReadPos \in Int /\ Count \in 0 .. M - 1 /\ ReadPos + Count \in Int
      /\ WritePos = Wrap(ReadPos + Count)
  BY Positions, Ranges DEF IInv, Words
<1>2. Slot(WritePos) = Slot(ReadPos + Count)
  BY <1>1, SlotWrap
<1> QED BY <1>1, <1>2, SlotInjective

\* A step that moves neither position and no seq word keeps their agreement.
LEMMA Still ==
    ASSUME SeqAgrees, WritePos' = WritePos, ReadPos' = ReadPos, seq' = seq
    PROVE  Count' = Count /\ SeqAgrees'
<1>1. Count' = Count
  BY DEF Count
<1> QED BY <1>1 DEF SeqAgrees

\* A claimable word at the write position means a free slot: on a full ring
\* the word there is the oldest message's commit, which differs from it at
\* every capacity, 1 included.
LEMMA ClaimableMeansRoom ==
    ASSUME IInv, seq[Slot(WritePos)] = Claimable(WritePos)
    PROVE  Count < M
<1> SUFFICES ASSUME Count = M
             PROVE  FALSE
  BY Positions, Ranges DEF IInv, SeqAgrees, Words
<1>1. ReadPos \in Int /\ ReadPos + M \in Int /\ WritePos = Wrap(ReadPos + M)
  BY Positions, Ranges DEF IInv, Words
<1>2. Slot(WritePos) = Slot(ReadPos)
  BY <1>1, SlotWrap, SlotLap
<1>3. 0 \in 0 .. M - 1 /\ 0 < Count /\ ReadPos + 0 = ReadPos
  BY <1>1, Ranges
<1>4. seq[Slot(ReadPos)] = Committed(ReadPos)
  BY <1>3 DEF IInv, SeqAgrees
<1>5. Wrap(ReadPos + M) = Wrap(ReadPos + (M + 1))
  <2>1. ReadPos + M + 1 = ReadPos + (M + 1)
    BY <1>1, Ranges
  <2> QED BY <1>1, <1>2, <1>4, <2>1 DEF Committed, Claimable
<1>6. M \in Words /\ M + 1 \in Words /\ M # M + 1
  BY Ranges DEF Words
<1> QED BY <1>1, <1>5, <1>6, WrapInjective

\* A committed word at the read position means a message waits there.
LEMMA CommittedMeansMessage ==
    ASSUME IInv, seq[Slot(ReadPos)] = Committed(ReadPos)
    PROVE  Count > 0
<1> SUFFICES ASSUME Count = 0
             PROVE  FALSE
  BY Positions, Ranges DEF IInv, Words
<1>1. ReadPos \in Int /\ ReadPos + 0 = ReadPos /\ 0 \in 0 .. M - 1 /\ ~(0 < Count)
  BY Positions, Ranges DEF IInv, Words
<1>2. seq[Slot(ReadPos + 0)] = Wrap(ReadPos + 0)
  BY <1>1 DEF IInv, SeqAgrees
<1>3. Wrap(ReadPos + 0) = Wrap(ReadPos + (M + 1))
  <2>1. ReadPos + M + 1 = ReadPos + (M + 1)
    BY <1>1, Ranges
  <2> QED BY <1>1, <1>2, <2>1 DEF Committed
<1>4. 0 \in Words /\ M + 1 \in Words /\ 0 # M + 1
  BY Ranges DEF Words
<1> QED BY <1>1, <1>3, <1>4, WrapInjective

-----------------------------------------------------------------------------
(* One lemma per handover, then the whole step.                            *)

\* CommitSeq hands the slot at the write position over.
LEMMA CommitSeqStep == IInv /\ TypeOK' /\ CommitSeq => IInv'
<1> SUFFICES ASSUME IInv, TypeOK', CommitSeq
             PROVE  IInv'
  OBVIOUS
<1> USE DEF CommitSeq, consVars
<1>1. /\ WritePos = wpos /\ WritePos' = Wrap(WritePos + 1)
      /\ ReadPos' = ReadPos /\ Count < M
  BY DEF IInv, GuardsAgree, WritePos, ReadPos, Writing
<1>2. Count' = Count + 1
  BY <1>1, Positions, CountUp DEF IInv, Count
<1>3. /\ ReadPos \in Int /\ Count \in 0 .. M - 1
      /\ WritePos = Wrap(ReadPos + Count) /\ ReadPos + Count \in Int
  BY <1>1, Positions, Ranges DEF IInv, Words
<1>4. /\ Slot(wpos) = Slot(ReadPos + Count) /\ Slot(wpos) \in Slots
      /\ \A k \in 0 .. M - 1 : k # Count => Slot(ReadPos + k) # Slot(wpos)
  BY <1>1, <1>3, WriteSlot, SlotType
<1>5. Committed(wpos) = Committed(ReadPos + Count)
  <2>1. /\ M + 1 \in Int /\ wpos + M + 1 = wpos + (M + 1)
        /\ (ReadPos + Count) + M + 1 = (ReadPos + Count) + (M + 1)
    BY <1>3, Ranges DEF IInv, TypeOK, Words
  <2> QED BY <1>1, <1>3, <2>1, WrapAdd DEF Committed
<1>6. SeqAgrees'
  <2>1. Count' <= M
    BY <1>1, <1>2, <1>3, Ranges
  <2>2. ASSUME NEW k \in 0 .. M - 1
        PROVE  seq'[Slot(ReadPos + k)] = IF k < Count + 1 THEN Committed(ReadPos + k)
                                                          ELSE Wrap(ReadPos + k)
    <3>1. CASE k = Count
      BY <1>3, <1>4, <1>5, <3>1 DEF IInv, TypeOK
    <3>2. CASE k # Count
      <4>1. seq'[Slot(ReadPos + k)] = seq[Slot(ReadPos + k)]
        BY <1>4, <3>2 DEF IInv, TypeOK
      <4>2. k < Count + 1 <=> k < Count
        BY <1>3, <3>2
      <4> QED BY <4>1, <4>2 DEF IInv, SeqAgrees
    <3> QED BY <3>1, <3>2
  <2> QED BY <1>1, <1>2, <2>1, <2>2 DEF SeqAgrees, Committed, Wrap, Slot
<1>7. GuardsAgree'
  BY <1>2, <1>3, Ranges DEF IInv, GuardsAgree, Writing, Reading
<1>8. BytesIntact'
  <2>1. ASSUME NEW k \in 0 .. M - 1, k < Count + 1
        PROVE  /\ buf[Slot(ReadPos + k)].lo = buf[Slot(ReadPos + k)].hi
               /\ buf[Slot(ReadPos + k)].lo \in Msg
    <3>1. CASE k = Count
      BY <1>4, <3>1 DEF IInv, BytesIntact
    <3>2. CASE k # Count
      <4>1. k < Count
        BY <1>3, <2>1, <3>2
      <4> QED BY <4>1 DEF IInv, BytesIntact
    <3> QED BY <3>1, <3>2
  <2> QED BY <1>1, <1>2, <2>1 DEF IInv, BytesIntact, Slot
<1> QED BY <1>6, <1>7, <1>8 DEF IInv

\* ReleaseSeq frees the slot at the read position for the next lap.
LEMMA ReleaseSeqStep == IInv /\ TypeOK' /\ ReleaseSeq => IInv'
<1> SUFFICES ASSUME IInv, TypeOK', ReleaseSeq
             PROVE  IInv'
  OBVIOUS
<1> USE DEF ReleaseSeq, prodVars
<1>1. /\ ReadPos = rpos /\ ReadPos' = Wrap(ReadPos + 1)
      /\ WritePos' = WritePos /\ Count > 0
  BY DEF IInv, GuardsAgree, WritePos, ReadPos, Reading
<1>2. Count' = Count - 1
  BY <1>1, Positions, CountDown DEF IInv, Count
<1>3. /\ ReadPos \in Int /\ Count \in 1 .. M /\ ReadPos + 1 \in Int
  BY <1>1, Positions, Ranges DEF IInv, SeqAgrees, Words
<1>4. \A k \in 0 .. M - 1 : /\ Slot(ReadPos' + k) = Slot(ReadPos + (k + 1))
                            /\ Wrap(ReadPos' + k) = Wrap(ReadPos + (k + 1))
                            /\ Committed(ReadPos' + k) = Committed(ReadPos + (k + 1))
  <2> SUFFICES ASSUME NEW k \in 0 .. M - 1
               PROVE  /\ Slot(ReadPos' + k) = Slot(ReadPos + (k + 1))
                      /\ Wrap(ReadPos' + k) = Wrap(ReadPos + (k + 1))
                      /\ Committed(ReadPos' + k) = Committed(ReadPos + (k + 1))
    OBVIOUS
  <2>1. /\ k \in Int /\ k + M + 1 \in Int
        /\ (ReadPos + 1) + k = ReadPos + (k + 1)
        /\ (ReadPos + 1) + (k + M + 1) = (ReadPos + (k + 1)) + M + 1
    BY <1>3, Ranges
  <2>2. Wrap(ReadPos + 1) + (k + M + 1) = (Wrap(ReadPos + 1) + k) + M + 1
    BY <1>3, Ranges, WrapType DEF Words
  <2> QED BY <1>1, <1>3, <2>1, <2>2, SlotAdd, WrapAdd DEF Committed
<1>5. /\ Slot(rpos) \in Slots
      /\ \A k \in 0 .. M - 1 : k < M - 1 => Slot(ReadPos + (k + 1)) # Slot(rpos)
      /\ Slot(ReadPos + M) = Slot(rpos)
  <2>1. ASSUME NEW k \in 0 .. M - 1, k < M - 1
        PROVE  Slot(ReadPos + (k + 1)) # Slot(rpos)
    <3>1. k + 1 \in 0 .. M - 1 /\ 0 \in 0 .. M - 1 /\ ReadPos + 0 = ReadPos /\ k + 1 # 0
      BY <1>3, <2>1, Ranges
    <3> QED BY <1>1, <1>3, <3>1, SlotInjective
  <2> QED BY <1>1, <1>3, <2>1, SlotLap, SlotType
<1>6. SeqAgrees'
  <2>1. Count' <= M
    BY <1>2, <1>3, Ranges
  <2>2. ASSUME NEW k \in 0 .. M - 1
        PROVE  seq'[Slot(ReadPos + (k + 1))] =
                   IF k < Count - 1 THEN Committed(ReadPos + (k + 1))
                                    ELSE Wrap(ReadPos + (k + 1))
    <3>1. CASE k = M - 1
      <4>1. k + 1 = M /\ ~(k < Count - 1)
        BY <1>3, <3>1, Ranges
      <4>2. seq'[Slot(rpos)] = Wrap(rpos + M)
        BY <1>5 DEF IInv, TypeOK, Released
      <4> QED BY <1>1, <1>5, <4>1, <4>2
    <3>2. CASE k # M - 1
      <4>1. k < M - 1 /\ k + 1 \in 0 .. M - 1 /\ (k < Count - 1 <=> k + 1 < Count)
        BY <1>3, <3>2, Ranges
      <4>2. seq'[Slot(ReadPos + (k + 1))] = seq[Slot(ReadPos + (k + 1))]
        BY <1>5, <4>1 DEF IInv, TypeOK
      <4> QED BY <4>1, <4>2 DEF IInv, SeqAgrees
    <3> QED BY <3>1, <3>2
  <2>3. \A k \in 0 .. M - 1 :
            seq'[Slot(ReadPos' + k)] = IF k < Count' THEN Committed(ReadPos' + k)
                                                     ELSE Wrap(ReadPos' + k)
    BY <1>2, <1>4, <2>2
  <2> QED BY <2>1, <2>3 DEF SeqAgrees, Committed, Wrap, Slot
<1>7. GuardsAgree'
  BY <1>2, <1>3, Ranges DEF IInv, GuardsAgree, Writing, Reading
<1>8. BytesIntact'
  <2>1. ASSUME NEW k \in 0 .. M - 1, k < Count - 1
        PROVE  /\ buf[Slot(ReadPos' + k)].lo = buf[Slot(ReadPos' + k)].hi
               /\ buf[Slot(ReadPos' + k)].lo \in Msg
    <3>1. k + 1 \in 0 .. M - 1 /\ k + 1 < Count
      BY <1>3, <2>1, Ranges
    <3> QED BY <1>4, <3>1 DEF IInv, BytesIntact
  <2> QED BY <1>2, <2>1 DEF IInv, BytesIntact, Slot
<1> QED BY <1>6, <1>7, <1>8 DEF IInv

\* The fills write only the slot of the write guard, which holds no message
\* and which no reader sees.
LEMMA FillStep == IInv /\ TypeOK' /\ (FillLo \/ FillHi) => IInv'
<1> SUFFICES ASSUME IInv, TypeOK', FillLo \/ FillHi
             PROVE  IInv'
  OBVIOUS
<1> USE DEF FillLo, FillHi, consVars
<1>1. /\ WritePos = wpos /\ WritePos' = WritePos /\ ReadPos' = ReadPos
      /\ seq' = seq /\ Count < M
  BY DEF IInv, GuardsAgree, WritePos, ReadPos, Writing
<1>2. Count' = Count /\ SeqAgrees'
  BY <1>1, Still DEF IInv
<1>3. GuardsAgree'
  BY <1>2 DEF IInv, GuardsAgree, Writing, Reading
<1>4. /\ Slot(wpos) \in Slots /\ Count \in 0 .. M - 1 /\ ReadPos \in Int
      /\ \A k \in 0 .. M - 1 : k # Count => Slot(ReadPos + k) # Slot(wpos)
  BY <1>1, WriteSlot, SlotType, Positions, Ranges DEF IInv, Words
<1>5. \A k \in 0 .. M - 1 : k < Count => buf'[Slot(ReadPos + k)] = buf[Slot(ReadPos + k)]
  <2> SUFFICES ASSUME NEW k \in 0 .. M - 1, k < Count
               PROVE  buf'[Slot(ReadPos + k)] = buf[Slot(ReadPos + k)]
    OBVIOUS
  <2>1. Slot(ReadPos + k) \in Slots /\ Slot(ReadPos + k) # Slot(wpos)
    BY <1>4, SlotType, Ranges
  <2> QED BY <2>1 DEF IInv, TypeOK
<1>6. Reading => buf'[Slot(rpos)] = buf[Slot(rpos)]
  <2>1. Reading => rpos = ReadPos /\ 0 < Count
    BY DEF IInv, GuardsAgree, Reading, ReadPos
  <2>2. 0 \in 0 .. M - 1 /\ ReadPos + 0 = ReadPos
    BY <1>4, Ranges
  <2> QED BY <1>5, <2>1, <2>2
<1>7. BytesIntact'
  <2>1. \A k \in 0 .. M - 1 :
          k < Count => /\ buf'[Slot(ReadPos + k)].lo = buf'[Slot(ReadPos + k)].hi
                       /\ buf'[Slot(ReadPos + k)].lo \in Msg
    BY <1>5 DEF IInv, BytesIntact
  <2>2. /\ ppc' \in {"half", "filled"} /\ wmsg' \in Msg /\ buf'[Slot(wpos)].lo = wmsg'
        /\ ppc' = "filled" => buf'[Slot(wpos)].hi = wmsg'
    BY <1>4 DEF IInv, TypeOK, BytesIntact, Pair
  <2>3. /\ cpc' \in {"half", "read", "releasing"} => got'.lo = buf'[Slot(rpos)].lo
        /\ cpc' \in {"read", "releasing"} => got'.hi = buf'[Slot(rpos)].hi
    BY <1>6 DEF IInv, BytesIntact, Reading
  <2> QED BY <1>1, <1>2, <2>1, <2>2, <2>3 DEF BytesIntact, Slot
<1> QED BY <1>2, <1>3, <1>7 DEF IInv

\* The steps that change no seq word and no byte of a slot.
LEMMA LocalStep ==
    /\ IInv /\ TypeOK'
    /\ \/ ReserveWrite \/ WriteGuard \/ Full \/ AbandonWrite \/ CommitIdx
       \/ ReserveRead \/ ReadGuard \/ NoMessage \/ ReadLo \/ ReadHi \/ DropRead
       \/ ReleaseIdx \/ UNCHANGED vars
    => IInv'
<1> SUFFICES ASSUME IInv, TypeOK',
                    \/ ReserveWrite \/ WriteGuard \/ Full \/ AbandonWrite \/ CommitIdx
                    \/ ReserveRead \/ ReadGuard \/ NoMessage \/ ReadLo \/ ReadHi
                    \/ DropRead \/ ReleaseIdx \/ UNCHANGED vars
             PROVE  IInv'
  OBVIOUS
<1> USE DEF ReserveWrite, WriteGuard, Full, AbandonWrite, CommitIdx, ReserveRead,
            ReadGuard, NoMessage, ReadLo, ReadHi, DropRead, ReleaseIdx, vars,
            prodVars, consVars
<1>1. seq' = seq /\ buf' = buf /\ WritePos' = WritePos /\ ReadPos' = ReadPos
  BY DEF IInv, GuardsAgree, WritePos, ReadPos
<1>2. Count' = Count /\ SeqAgrees'
  BY <1>1, Still DEF IInv
<1>3. /\ WriteGuard => Count < M
      /\ ReadGuard => Count > 0
  BY ClaimableMeansRoom, CommittedMeansMessage
     DEF IInv, GuardsAgree, WritePos, ReadPos
<1>4. GuardsAgree'
  BY <1>2, <1>3 DEF IInv, GuardsAgree, Writing, Reading
<1>5. BytesIntact'
  <2>1. \A k \in 0 .. M - 1 :
          k < Count' => /\ buf'[Slot(ReadPos' + k)].lo = buf'[Slot(ReadPos' + k)].hi
                        /\ buf'[Slot(ReadPos' + k)].lo \in Msg
    BY <1>1, <1>2 DEF IInv, BytesIntact
  <2>2. /\ ppc' \in {"half", "filled", "committing"} =>
             wmsg' \in Msg /\ buf'[Slot(wpos')].lo = wmsg'
        /\ ppc' \in {"filled", "committing"} => buf'[Slot(wpos')].hi = wmsg'
    BY <1>1 DEF IInv, BytesIntact
  <2>3. /\ cpc' \in {"half", "read", "releasing"} => got'.lo = buf'[Slot(rpos')].lo
        /\ cpc' \in {"read", "releasing"} => got'.hi = buf'[Slot(rpos')].hi
    BY <1>1 DEF IInv, BytesIntact, TypeOK, Pair
  <2> QED BY <2>1, <2>2, <2>3 DEF BytesIntact, Slot
<1> QED BY <1>2, <1>4, <1>5 DEF IInv

-----------------------------------------------------------------------------
\* init leaves the ring empty with every slot claimable for lap 0.
LEMMA InitIInv == Init => IInv
<1> SUFFICES ASSUME Init
             PROVE  IInv
  OBVIOUS
<1> USE DEF Init
<1>1. 0 \in Words /\ Slots \subseteq Words
  BY Ranges DEF Words, Slots
<1>2. TypeOK
  BY <1>1 DEF TypeOK, Claimable, Empty, Pair, Half
<1>3. WritePos = 0 /\ ReadPos = 0 /\ Count = 0
  BY <1>1, WrapWord DEF WritePos, ReadPos, Count
<1>4. SeqAgrees
  <2>1. ASSUME NEW k \in 0 .. M - 1
        PROVE  seq[Slot(0 + k)] = Wrap(0 + k)
    <3>1. k \in Slots /\ 0 + k = k /\ Slot(k) = k
      BY Ranges, ModSmall DEF Slots, Slot
    <3> QED BY <1>1, <3>1, WrapWord DEF Claimable
  <2> QED BY <1>3, <2>1, Ranges DEF SeqAgrees
<1> QED BY <1>2, <1>3, <1>4, Ranges DEF IInv, GuardsAgree, BytesIntact, Writing, Reading

\* The inductive step.
LEMMA StepIInv == IInv /\ [Next]_vars => IInv'
<1>1. IInv => TypeOK
  BY DEF IInv
<1> QED BY <1>1, TypeStep, CommitSeqStep, ReleaseSeqStep, FillStep, LocalStep
        DEF Next, ProducerNext, ConsumerNext

\* Every variable keeps its type: u32 words wrap and never leave their range.
THEOREM TypeCorrect == Spec => []TypeOK
<1>1. IInv => TypeOK
  BY DEF IInv
<1> QED BY <1>1, InitIInv, StepIInv, PTL DEF Spec

\* The seq words of commit and release agree with both private indices.
THEOREM SeqWordsAgree == Spec => []SeqAgrees
<1>1. IInv => SeqAgrees
  BY DEF IInv
<1> QED BY <1>1, InitIInv, StepIInv, PTL DEF Spec

\* A WriteSlot and a ReadSlot guard never alias.
THEOREM GuardsExclusive == Spec => []SlotExclusive
<1>1. IInv => SlotExclusive
  <2> SUFFICES ASSUME IInv, Writing, Reading
               PROVE  Slot(wpos) # Slot(rpos)
    BY DEF SlotExclusive
  <2>1. wpos = WritePos /\ rpos = ReadPos /\ Count < M /\ Count > 0
    BY DEF IInv, GuardsAgree, Writing, Reading, WritePos, ReadPos
  <2>2. 0 \in 0 .. M - 1 /\ 0 # Count /\ ReadPos + 0 = ReadPos
    BY <2>1, Ranges, Positions DEF IInv, Words
  <2> QED BY <2>1, <2>2, WriteSlot
<1> QED BY <1>1, InitIInv, StepIInv, PTL DEF Spec

\* What a ReadSlot guard shows is one whole committed message.
THEOREM ReadsIntact == Spec => []NoTornRead
<1>1. IInv => NoTornRead
  <2> SUFFICES ASSUME IInv, cpc \in {"read", "releasing"}
               PROVE  got.lo = got.hi /\ got.lo \in Msg
    BY DEF NoTornRead
  <2>1. rpos = ReadPos /\ Count > 0
    BY DEF IInv, GuardsAgree, Reading, ReadPos
  <2>2. 0 \in 0 .. M - 1 /\ 0 < Count /\ ReadPos + 0 = ReadPos
    BY <2>1, Ranges, Positions DEF IInv, Words
  <2> QED BY <2>1, <2>2 DEF IInv, BytesIntact
<1> QED BY <1>1, InitIInv, StepIInv, PTL DEF Spec

-----------------------------------------------------------------------------
(* The ring implements the FIFO channel.                                   *)

\* The channel's view of the ring: a sequence of Count messages.
LEMMA PendingSeq ==
    ASSUME IInv
    PROVE  /\ Pending \in Seq(Msg) /\ Len(Pending) = Count /\ Count \in Nat
           /\ Count <= M /\ ReadPos \in Int
           /\ \A k \in 1 .. Count : Pending[k] = buf[Slot(ReadPos + k - 1)].lo
<1>1. Count \in Nat /\ Count <= M /\ ReadPos \in Int
  BY Positions, Ranges DEF IInv, SeqAgrees, Words
<1>2. ASSUME NEW k \in 1 .. Count
      PROVE  buf[Slot(ReadPos + k - 1)].lo \in Msg
  <2>1. k - 1 \in 0 .. M - 1 /\ k - 1 < Count /\ ReadPos + k - 1 = ReadPos + (k - 1)
    BY <1>1, Ranges
  <2> QED BY <2>1 DEF IInv, BytesIntact
<1> QED BY <1>1, <1>2 DEF Pending

\* A step that moves neither position and leaves every committed slot's bytes
\* alone is invisible to the channel.
LEMMA PendingStill ==
    ASSUME IInv, Count' = Count, ReadPos' = ReadPos,
           \A k \in 0 .. M - 1 : k < Count => buf'[Slot(ReadPos + k)] = buf[Slot(ReadPos + k)]
    PROVE  Pending' = Pending
<1>1. Count \in Nat /\ Count <= M /\ ReadPos \in Int
  BY PendingSeq
<1>2. ASSUME NEW k \in 1 .. Count
      PROVE  buf'[Slot(ReadPos + k - 1)] = buf[Slot(ReadPos + k - 1)]
  <2>1. k - 1 \in 0 .. M - 1 /\ k - 1 < Count /\ ReadPos + k - 1 = ReadPos + (k - 1)
    BY <1>1, Ranges
  <2> QED BY <2>1
<1> QED BY <1>2 DEF Pending, Slot

\* CommitSeq is the channel's Send.
LEMMA CommitSends == IInv /\ IInv' /\ CommitSeq => Chan!Send
<1> SUFFICES ASSUME IInv, IInv', CommitSeq
             PROVE  Chan!Send
  OBVIOUS
<1> USE DEF CommitSeq, consVars
<1>1. /\ WritePos = wpos /\ WritePos' = Wrap(WritePos + 1)
      /\ ReadPos' = ReadPos /\ Count < M /\ buf' = buf
  BY DEF IInv, GuardsAgree, WritePos, ReadPos, Writing
<1>2. Count' = Count + 1
  BY <1>1, Positions, CountUp DEF IInv, Count
<1>3. /\ Pending \in Seq(Msg) /\ Len(Pending) = Count /\ Count \in Nat /\ ReadPos \in Int
      /\ \A k \in 1 .. Count : Pending[k] = buf[Slot(ReadPos + k - 1)].lo
  BY PendingSeq
<1>4. wmsg \in Msg /\ buf[Slot(ReadPos + (Count + 1) - 1)].lo = wmsg
  <2>1. ReadPos + (Count + 1) - 1 = ReadPos + Count
    BY <1>3
  <2> QED BY <1>1, <2>1, WriteSlot DEF IInv, BytesIntact
<1>5. Pending' = Append(Pending, wmsg)
  <2>1. Pending' = [k \in 1 .. Count + 1 |-> buf[Slot(ReadPos + k - 1)].lo]
    BY <1>1, <1>2 DEF Pending, Slot
  <2>2. Append(Pending, wmsg) = [k \in 1 .. Count + 1 |-> IF k <= Count THEN Pending[k] ELSE wmsg]
    BY <1>3, <1>4, AppendElements
  <2>3. ASSUME NEW k \in 1 .. Count + 1
        PROVE  buf[Slot(ReadPos + k - 1)].lo = IF k <= Count THEN Pending[k] ELSE wmsg
    <3>1. CASE k <= Count
      BY <1>3, <3>1
    <3>2. CASE k = Count + 1
      BY <1>3, <1>4, <3>2
    <3> QED BY <1>3, <3>1, <3>2
  <2> QED BY <2>1, <2>2, <2>3
<1> QED BY <1>1, <1>3, <1>4, <1>5 DEF Chan!Send

\* ReleaseSeq is the channel's Take.
LEMMA ReleaseTakes == IInv /\ IInv' /\ ReleaseSeq => Chan!Take
<1> SUFFICES ASSUME IInv, IInv', ReleaseSeq
             PROVE  Chan!Take
  OBVIOUS
<1> USE DEF ReleaseSeq, prodVars
<1>1. /\ ReadPos = rpos /\ ReadPos' = Wrap(ReadPos + 1)
      /\ WritePos' = WritePos /\ Count > 0 /\ buf' = buf
  BY DEF IInv, GuardsAgree, WritePos, ReadPos, Reading
<1>2. Count' = Count - 1
  BY <1>1, Positions, CountDown DEF IInv, Count
<1>3. /\ Pending \in Seq(Msg) /\ Len(Pending) = Count /\ Count \in Nat /\ ReadPos \in Int
      /\ \A k \in 1 .. Count : Pending[k] = buf[Slot(ReadPos + k - 1)].lo
  BY PendingSeq
<1>4. Pending' = Tail(Pending)
  <2>1. Pending' = [k \in 1 .. Count - 1 |-> buf[Slot(ReadPos' + k - 1)].lo]
    BY <1>1, <1>2 DEF Pending, Slot
  <2>2. Tail(Pending) = [k \in 1 .. Count - 1 |-> Pending[k + 1]]
    BY <1>1, <1>3, TailElements
  <2>3. ASSUME NEW k \in 1 .. Count - 1
        PROVE  buf[Slot(ReadPos' + k - 1)].lo = Pending[k + 1]
    <3>1. /\ k - 1 \in Int /\ ReadPos + 1 \in Int /\ k + 1 \in 1 .. Count
          /\ (ReadPos + 1) + (k - 1) = ReadPos + (k + 1) - 1
      BY <1>3
    <3>2. Wrap(ReadPos + 1) + k - 1 = Wrap(ReadPos + 1) + (k - 1)
      BY <3>1, WrapType, Ranges DEF Words
    <3>3. Slot(ReadPos' + k - 1) = Slot(ReadPos + (k + 1) - 1)
      BY <1>1, <3>1, <3>2, SlotAdd
    <3> QED BY <1>3, <3>1, <3>3
  <2> QED BY <2>1, <2>2, <2>3
<1>5. Pending # <<>> /\ Head(Pending) = buf[Slot(ReadPos)].lo
  <2>1. 1 \in 1 .. Count /\ ReadPos + 1 - 1 = ReadPos
    BY <1>1, <1>3
  <2>2. Pending[1] = buf[Slot(ReadPos)].lo
    BY <1>3, <2>1
  <2> QED BY <1>1, <1>3, <2>2
<1>6. got.lo = buf[Slot(ReadPos)].lo
  BY <1>1 DEF IInv, BytesIntact
<1> QED BY <1>4, <1>5, <1>6 DEF Chan!Take

\* Completing an in-place read is the channel's Peek: it sees the oldest
\* committed message.
LEMMA ReadHiPeeks == IInv /\ IInv' /\ ReadHi => Chan!Peek
<1> SUFFICES ASSUME IInv, IInv', ReadHi
             PROVE  Chan!Peek
  OBVIOUS
<1> USE DEF ReadHi, prodVars
<1>1. /\ rpos = ReadPos /\ WritePos' = WritePos /\ ReadPos' = ReadPos
      /\ Count > 0 /\ buf' = buf /\ seq' = seq
  BY DEF IInv, GuardsAgree, WritePos, ReadPos, Reading
<1>2. Count' = Count
  BY <1>1, Still DEF IInv
<1>3. Pending' = Pending
  BY <1>1, <1>2, PendingStill
<1>4. /\ Pending \in Seq(Msg) /\ Len(Pending) = Count /\ Count \in Nat /\ ReadPos \in Int
      /\ Pending[1] = buf[Slot(ReadPos)].lo
  <2>1. ReadPos \in Int /\ 1 \in 1 .. Count /\ ReadPos + 1 - 1 = ReadPos
    BY <1>1, PendingSeq
  <2> QED BY <2>1, PendingSeq
<1>5. Pending # <<>> /\ Head(Pending) = buf[Slot(ReadPos)].lo
  BY <1>1, <1>4
<1>6. cpc' = "read" /\ got'.lo = buf[Slot(ReadPos)].lo
  BY <1>1 DEF IInv, BytesIntact, TypeOK, Pair
<1> QED BY <1>3, <1>5, <1>6 DEF Chan!Peek

\* Every other step is invisible to the channel, or drops the read guard.
LEMMA OtherSteps ==
    /\ IInv /\ IInv'
    /\ \/ ReserveWrite \/ WriteGuard \/ Full \/ AbandonWrite \/ CommitIdx
       \/ FillLo \/ FillHi
       \/ ReserveRead \/ ReadGuard \/ NoMessage \/ ReadLo \/ DropRead
       \/ ReleaseIdx \/ UNCHANGED vars
    => Chan!PutBack \/ UNCHANGED Chan!chanVars
<1> SUFFICES ASSUME IInv, IInv',
                    \/ ReserveWrite \/ WriteGuard \/ Full \/ AbandonWrite \/ CommitIdx
                    \/ FillLo \/ FillHi
                    \/ ReserveRead \/ ReadGuard \/ NoMessage \/ ReadLo \/ DropRead
                    \/ ReleaseIdx \/ UNCHANGED vars
             PROVE  Chan!PutBack \/ UNCHANGED Chan!chanVars
  OBVIOUS
<1> USE DEF ReserveWrite, WriteGuard, Full, AbandonWrite, CommitIdx, FillLo, FillHi,
            ReserveRead, ReadGuard, NoMessage, ReadLo, DropRead, ReleaseIdx, vars,
            prodVars, consVars
<1>1. seq' = seq /\ WritePos' = WritePos /\ ReadPos' = ReadPos
  BY DEF IInv, GuardsAgree, WritePos, ReadPos
<1>2. Count' = Count
  BY <1>1, Still DEF IInv
<1>3. \A k \in 0 .. M - 1 : k < Count => buf'[Slot(ReadPos + k)] = buf[Slot(ReadPos + k)]
  <2>1. CASE FillLo \/ FillHi
    <3>1. wpos = WritePos /\ Count < M
      BY <2>1 DEF IInv, GuardsAgree, WritePos, Writing
    <3>2. /\ Count \in 0 .. M - 1 /\ ReadPos \in Int
          /\ \A k \in 0 .. M - 1 : k # Count => Slot(ReadPos + k) # Slot(wpos)
      BY <3>1, WriteSlot, Positions, Ranges DEF IInv, Words
    <3> SUFFICES ASSUME NEW k \in 0 .. M - 1, k < Count
                 PROVE  buf'[Slot(ReadPos + k)] = buf[Slot(ReadPos + k)]
      OBVIOUS
    <3>3. Slot(ReadPos + k) \in Slots /\ Slot(ReadPos + k) # Slot(wpos)
      BY <3>2, SlotType, Ranges
    <3> QED BY <2>1, <3>3 DEF IInv, TypeOK
  <2>2. CASE ~(FillLo \/ FillHi)
    <3>1. buf' = buf
      BY <2>2
    <3> QED BY <3>1
  <2> QED BY <2>1, <2>2
<1>4. Pending' = Pending
  BY <1>1, <1>2, <1>3, PendingStill
<1>5. CASE DropRead
  BY <1>4, <1>5 DEF Chan!PutBack
<1>6. CASE ~DropRead
  <2>1. /\ got'.lo = got.lo \/ cpc' = "half"
        /\ cpc' \in {"read", "releasing"} <=> cpc \in {"read", "releasing"}
    BY <1>6 DEF IInv, TypeOK, Pair
  <2> QED BY <1>4, <2>1 DEF Chan!chanVars
<1> QED BY <1>5, <1>6

\* The v1 ring implements a FIFO channel of its capacity: nothing is lost,
\* duplicated, reordered or overwritten, at any capacity and word range, and
\* across every wrap of the indices.
THEOREM RingIsFifo == Spec => ImplementsFifo
<1>1. Init => Chan!ChanInit
  <2> SUFFICES ASSUME Init
               PROVE  Chan!ChanInit
    OBVIOUS
  <2>1. Count = 0 /\ cpc = "idle"
    <3>1. 0 \in Words
      BY Ranges DEF Words
    <3> QED BY <3>1, WrapWord DEF Init, WritePos, ReadPos, Count
  <2>2. Pending = <<>>
    BY <2>1 DEF Pending
  <2> QED BY <2>1, <2>2 DEF Chan!ChanInit
<1>2. IInv /\ IInv' /\ [Next]_vars => [Chan!ChanNext]_(Chan!chanVars)
  BY CommitSends, ReleaseTakes, ReadHiPeeks, OtherSteps
     DEF Next, ProducerNext, ConsumerNext, Chan!ChanNext
<1> QED BY <1>1, <1>2, InitIInv, StepIInv, PTL DEF Spec, ImplementsFifo, Chan!ChanSpec

=============================================================================
