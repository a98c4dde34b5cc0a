------------------------- MODULE SpscSegmentsProofs -------------------------
(***************************************************************************)
(* Proofs about SpscSegments, the crate's default ring, for every segment  *)
(* depth M, every number of segments and every range W of seq values.      *)
(*                                                                         *)
(* A segment is looked at as a window of M positions from where the        *)
(* consumer is, or will resume, in it.  The committed messages are a list  *)
(* of places, the chain, each of which says in its word where the next one *)
(* is; it leads from the consumer's place to the producer's.               *)
(***************************************************************************)
EXTENDS SpscSegments, RingLemmas, FiniteSetTheorems

Half    == Msg \cup {NoMsg}
Pair    == [lo : Half, hi : Half]
SegWord == [seq : Seqs, moved : Segs \cup {NoSeg}]
Place   == [seg : Segs, pos : Seqs]

TypeOK ==
    /\ word \in [Segs -> [Slots -> SegWord]] /\ buf \in [Segs -> [Slots -> Pair]]
    /\ taken \in SUBSET Segs /\ given \in SUBSET Segs /\ cgiven = given
    /\ ppc \in {"idle", "probing", "filling", "half", "filled", "switch", "publish"}
    /\ pcur \in Segs /\ ppos \in Seqs /\ presume \in [Segs -> Seqs]
    /\ claimable \in BOOLEAN /\ wmsg \in Half /\ wat \in Place /\ wword \in SegWord
    /\ cpc \in {"idle", "probing", "reading", "half", "read", "giving"}
    /\ ccur \in Segs /\ cpos \in Seqs /\ cresume \in [Segs -> Seqs]
    /\ rword \in SegWord /\ got \in Pair
    /\ switchLead \in Int /\ chain \in Seq(Place)

\* The word of position n in segment s.
WordAt(s, n) == word[s][Slot(n)]

\* The position k places on from r, and the seq value of a committed one.
At(r, k)     == seq_of(r + k)
CommitSeq(n) == seq_of(n + M + 1)

\* Where each side is, or will resume, in segment s, and the positions between.
PPos(s)   == IF s = pcur THEN ppos ELSE presume[s]
CPos(s)   == IF s = ccur THEN cpos ELSE cresume[s]
Unread(s) == seq_of(PPos(s) - CPos(s))

InUse == SymDiff(taken, given)

\* A commit has chosen its word, and has yet to store it.
Publishing  == ppc \in {"switch", "publish"}
Unstored(s) == IF Publishing /\ wat.seg = s THEN {wat.pos} ELSE {}

\* Both sides are in segments in use, and agree where to resume the others.
BitsAgree ==
    /\ pcur \in InUse /\ ccur \in InUse
    /\ \A s \in Segs : s \notin InUse => presume[s] = cresume[s]

\* The window from c on of segment s with the words wd, while the producer is
\* in segment p: the first u positions are committed, but for those in X; the
\* others are claimable; and a message with MOVED is the last in a segment the
\* producer has left.
Window(wd, c, u, X, s, p) ==
    /\ u <= M
    /\ \A k \in 0 .. M - 1 :
         LET n == At(c, k) IN
         /\ k < u /\ n \notin X =>
              /\ wd[Slot(n)].seq = CommitSeq(n)
              /\ wd[Slot(n)].moved # NoSeg => k + 1 = u /\ s # p
         /\ k >= u \/ n \in X => wd[Slot(n)] = Plain(n)

WindowAgrees ==
    \A s \in Segs : Window(word[s], CPos(s), Unread(s), Unstored(s), s, pcur)

\* A guard is over a claimable slot, and so is the next reserve that skips its
\* load.
WriteAgrees ==
    /\ ppc \in {"filling", "half", "filled"} => claimable = TRUE
    /\ ppc = "switch" => claimable = FALSE
    /\ claimable = TRUE => WordAt(pcur, ppos) = Plain(ppos)

\* What a commit is about to store.
CommitAgrees ==
    Publishing =>
        /\ PPos(wat.seg) = seq_of(wat.pos + 1) /\ wword.seq = CommitSeq(wat.pos)
        /\ Unread(wat.seg) > 0
        /\ wword.moved = NoSeg => wat.seg = pcur
        /\ wword.moved # NoSeg => /\ ppc = "publish" /\ wword.moved = pcur /\ wat.seg # pcur
                                  /\ pcur # ccur /\ ppos = cresume[pcur]

\* The word under a read guard stays, and a segment about to be given back is
\* one the producer has left where the consumer leaves it.
ReadAgrees ==
    /\ cpc \in {"reading", "half", "read"} =>
         rword = WordAt(ccur, cpos) /\ rword.seq = CommitSeq(cpos)
    /\ cpc = "giving" => /\ rword.moved \in InUse /\ rword.moved # ccur
                         /\ ccur # pcur /\ presume[ccur] = cpos

\* The next place the consumer, and the producer, will read and store.
ConsPlace == IF cpc = "giving" THEN [seg |-> rword.moved, pos |-> cresume[rword.moved]]
                               ELSE [seg |-> ccur, pos |-> cpos]
ProdPlace == IF Publishing THEN wat ELSE [seg |-> pcur, pos |-> ppos]

\* The place after e, as e's word v tells it.
After(e, v, resume) == IF v.moved = NoSeg THEN [seg |-> e.seg, pos |-> seq_of(e.pos + 1)]
                                          ELSE [seg |-> v.moved, pos |-> resume[v.moved]]
ChainWord(i) == WordAt(chain[i].seg, chain[i].pos)

\* The chain leads from the consumer's place to the producer's.
ChainLinked ==
    /\ chain = <<>> => ConsPlace = ProdPlace
    /\ chain # <<>> => chain[1] = ConsPlace
    /\ \A i \in 1 .. Len(chain) :
         After(chain[i], ChainWord(i), cresume) =
             IF i = Len(chain) THEN ProdPlace ELSE chain[i + 1]

\* A message at position n in a window from c on with u unread positions.
Stored(wd, c, u, n) ==
    /\ wd[Slot(n)].seq = CommitSeq(n)
    /\ \E k \in 0 .. M - 1 : k < u /\ n = At(c, k)

\* The places are different unread ones, and their MOVED words name segments in
\* use that the consumer has not reached.
ChainUnread ==
    /\ \A i \in 1 .. Len(chain) :
         LET s == chain[i].seg IN Stored(word[s], CPos(s), Unread(s), chain[i].pos)
    /\ \A i \in 1 .. Len(chain) :
         ChainWord(i).moved # NoSeg => ChainWord(i).moved \in InUse \ {ccur}
    /\ \A i, j \in 1 .. Len(chain) : chain[i] = chain[j] => i = j

\* One side's switches less the other's are the segments between them, each of
\* which some word on the way names.
LeadAgrees ==
    /\ switchLead = Cardinality(InUse) - 1
    /\ \A s \in InUse \ {ccur} :
         \/ cpc = "giving" /\ rword.moved = s
         \/ Publishing /\ wword.moved = s
         \/ \E i \in 1 .. Len(chain) : ChainWord(i).moved = s

\* Every committed slot holds one whole message, a slot being filled holds what
\* its fill has written so far, and a reader has read what is there.
BytesIntact ==
    /\ \A i \in 1 .. Len(chain) :
         LET b == buf[chain[i].seg][Slot(chain[i].pos)] IN b.lo \in Msg /\ b.hi = b.lo
    /\ ppc \in {"half", "filled"} =>
         wmsg \in Msg /\ buf[pcur][Slot(ppos)].lo = wmsg
    /\ ppc = "filled" => buf[pcur][Slot(ppos)].hi = wmsg
    /\ Publishing => LET b == buf[wat.seg][Slot(wat.pos)] IN b.lo \in Msg /\ b.hi = b.lo
    /\ cpc \in {"half", "read"} => got.lo = buf[ccur][Slot(cpos)].lo
    /\ cpc = "read" => got.hi = buf[ccur][Slot(cpos)].hi

\* The inductive invariant.
IInv == /\ TypeOK /\ BitsAgree /\ WindowAgrees /\ WriteAgrees /\ CommitAgrees /\ ReadAgrees
        /\ ChainLinked /\ ChainUnread /\ LeadAgrees /\ BytesIntact

-----------------------------------------------------------------------------
(* Words and slots.                                                        *)

\* The range and the depth in the form the lemmas on remainders ask for.
LEMMA Ranges ==
    /\ M \in Nat \ {0} /\ W \in Nat \ {0} /\ M \in Int /\ W \in Int
    /\ W % M = 0 /\ M + 1 < W /\ NoSeg \notin Segs
BY GeometryAssumption DEF Segs

\* A seq value is a word, and a word is its own seq value.
LEMMA SeqOf ==
    /\ \A n \in Int : seq_of(n) \in Seqs
    /\ \A n \in Seqs : seq_of(n) = n
BY Ranges, ModDef, ModSmall DEF seq_of, Seqs

\* A position's slot is one of the segment's, and its word's slot.
LEMMA SlotOf ==
    /\ \A n \in Int : Slot(n) \in Slots
    /\ \A n \in Int : Slot(seq_of(n)) = Slot(n)
<1>1. \A n \in Int : Slot(n) \in Slots
  BY Ranges, ModDef DEF Slot, Slots
<1>2. \A n \in Int : Slot(seq_of(n)) = Slot(n)
  BY Ranges, ModOfMod, Zenon DEF Slot, seq_of
<1> QED BY <1>1, <1>2

\* Two different words have different successors.
LEMMA SuccInjective ==
    ASSUME NEW a \in Seqs, NEW b \in Seqs, seq_of(a + 1) = seq_of(b + 1)
    PROVE  a = b
<1>1. 1 \in Int /\ a + 1 = 1 + a /\ b + 1 = 1 + b
  BY Ranges DEF Seqs
<1>2. (1 + a) % W = (1 + b) % W
  BY <1>1, Zenon DEF seq_of
<1> QED BY <1>1, <1>2, Ranges, OffsetInjective, Zenon DEF Seqs

\* The three seq values of a slot at one position differ.
LEMMA SeqsDiffer ==
    ASSUME NEW n \in Seqs
    PROVE  /\ CommitSeq(n) \in Seqs /\ At(n, M) \in Seqs
           /\ CommitSeq(n) # n /\ CommitSeq(n) # At(n, M) /\ At(n, M) # n
           /\ At(n, 1) # n
<1>1. /\ n \in Int /\ n + M + 1 = n + (M + 1) /\ n + 0 = n /\ n + M + 1 \in Int /\ n + M \in Int
      /\ 0 \in 0 .. W - 1 /\ M \in 0 .. W - 1 /\ M + 1 \in 0 .. W - 1 /\ 1 \in 0 .. W - 1
      /\ M # 0 /\ M + 1 # 0 /\ M + 1 # M /\ 1 # 0
  BY Ranges DEF Seqs
<1>2. \A i, j \in 0 .. W - 1 : (n + i) % W = (n + j) % W => i = j
  BY <1>1, Ranges, OffsetInjective, Zenon
<1>3. n % W = n
  BY SeqOf DEF seq_of
<1>4. CommitSeq(n) \in Seqs /\ At(n, M) \in Seqs
  BY <1>1, SeqOf DEF CommitSeq, At
<1>5. CommitSeq(n) = (n + (M + 1)) % W /\ At(n, M) = (n + M) % W /\ n = (n + 0) % W
  BY <1>1, <1>3, Zenon DEF CommitSeq, At, seq_of
<1>6. CommitSeq(n) # n
  BY <1>1, <1>2, <1>5, Zenon
<1>7. CommitSeq(n) # At(n, M)
  BY <1>1, <1>2, <1>5, Zenon
<1>8. At(n, M) # n
  BY <1>1, <1>2, <1>5, Zenon
<1>9. At(n, 1) # n
  BY <1>1, <1>2, <1>5, Zenon DEF At, seq_of
<1> QED BY <1>4, <1>6, <1>7, <1>8, <1>9

\* A word without MOVED.
LEMMA PlainWord ==
    ASSUME NEW n \in Seqs
    PROVE  /\ Plain(n) \in SegWord /\ Plain(n).seq = n /\ Plain(n).moved = NoSeg
           /\ Plain(n + 1) = Plain(At(n, 1)) /\ Slot(n + 1) = Slot(At(n, 1))
           /\ Released(n) = Plain(At(n, M)) /\ Claimable(n) = Plain(n)
           /\ Committed(n).seq = CommitSeq(n) /\ Committed(n).moved = NoSeg
           /\ Committed(n) \in SegWord /\ Released(n) \in SegWord
<1>1. /\ n + 1 \in Int /\ n + M \in Int /\ n + M + 1 \in Int
  BY Ranges DEF Seqs
<1>2. \A k \in Int : seq_of(seq_of(k)) = seq_of(k)
  BY SeqOf
<1>3. seq_of(n) = n /\ CommitSeq(n) \in Seqs /\ seq_of(n + M) \in Seqs
  BY <1>1, SeqOf DEF CommitSeq
<1>4. Plain(n + 1) = Plain(At(n, 1)) /\ Released(n) = Plain(At(n, M))
  BY <1>1, <1>2 DEF At, Plain, Released
<1>5. Slot(n + 1) = Slot(At(n, 1))
  BY <1>1, SlotOf DEF At
<1> QED BY <1>3, <1>4, <1>5 DEF Plain, Claimable, Committed, CommitSeq, Released, SegWord

\* The window from a position on: M words, each with a slot of its own, and
\* the first position of the next lap in the slot of the first.
LEMMA WindowSlots ==
    ASSUME NEW r \in Seqs
    PROVE  /\ At(r, 0) = r /\ 0 \in 0 .. M - 1 /\ Slot(r) \in Slots
           /\ \A k \in 0 .. M : At(r, k) \in Seqs /\ Slot(At(r, k)) \in Slots
           /\ \A j, k \in 0 .. M - 1 : Slot(At(r, j)) = Slot(At(r, k)) => j = k
           /\ Slot(At(r, M)) = Slot(r)
           /\ \A k \in 0 .. M - 1 : At(At(r, 1), k) = At(r, k + 1)
<1>1. At(r, 0) = r /\ 0 \in 0 .. M - 1 /\ 0 \in 0 .. M
  <2>1. r + 0 = r /\ 0 \in 0 .. M - 1 /\ 0 \in 0 .. M
    BY Ranges DEF Seqs
  <2> QED BY <2>1, SeqOf DEF At
<1>2. \A k \in 0 .. M : At(r, k) \in Seqs /\ Slot(At(r, k)) \in Slots
  BY Ranges, WindowWords, Zenon DEF At, seq_of, Slot, Seqs, Slots
<1>3. \A j, k \in 0 .. M - 1 : Slot(At(r, j)) = Slot(At(r, k)) => j = k
  <2> SUFFICES ASSUME NEW j \in 0 .. M - 1, NEW k \in 0 .. M - 1,
                      Slot(At(r, j)) = Slot(At(r, k))
               PROVE  j = k
    OBVIOUS
  <2>1. W \in Nat \ {0} /\ M \in Nat \ {0} /\ W % M = 0
    BY Ranges
  <2>2. r \in 0 .. W - 1 /\ ((r + j) % W) % M = ((r + k) % W) % M
    BY DEF At, seq_of, Slot, Seqs
  <2> QED BY <2>1, <2>2, WindowInjective, Zenon
<1>4. Slot(At(r, M)) = Slot(r)
  BY Ranges, WindowLap, Zenon DEF At, seq_of, Slot, Seqs
<1>5. \A k \in 0 .. M - 1 : At(At(r, 1), k) = At(r, k + 1)
  <2>1. \A k \in 0 .. M - 1 : k \in Nat
    OBVIOUS
  <2> QED BY <2>1, Ranges, WindowNext, Zenon DEF At, seq_of, Seqs
<1>6. Slot(r) \in Slots
  BY <1>1, <1>2
<1> QED BY <1>1, <1>2, <1>3, <1>4, <1>5, <1>6

\* Stepping from offset k to offset k + 1.
LEMMA WindowSucc ==
    ASSUME NEW r \in Seqs, NEW k \in Nat
    PROVE  At(r, k + 1) = At(At(r, k), 1)
<1>1. PICK n \in Int : n = r + k
  BY Ranges DEF Seqs
<1>2. r + (k + 1) = n + 1 /\ 1 \in Int
  BY <1>1, Ranges DEF Seqs
<1>3. ((n % W) + 1) % W = (n + 1) % W
  BY <1>2, Ranges, ModAdd, Zenon
<1> QED BY <1>1, <1>2, <1>3, Zenon DEF At, seq_of

-----------------------------------------------------------------------------
(* What happens to one window.                                             *)

\* Two positions of one window share a slot only if they are the same.
LEMMA StoredApart ==
    ASSUME NEW wd, NEW c \in Seqs, NEW u, NEW n, Stored(wd, c, u, n),
           NEW j \in 0 .. M - 1, Slot(At(c, j)) = Slot(n)
    PROVE  At(c, j) = n
<1>1. PICK k \in 0 .. M - 1 : n = At(c, k)
  BY DEF Stored
<1>2. j = k
  BY <1>1, WindowSlots
<1> QED BY <1>1, <1>2

\* A claimable word at the end of the unread positions means a free slot: in a
\* full window the word there is one of the oldest position's.
LEMMA WindowRoom ==
    ASSUME NEW wd, NEW c \in Seqs, NEW u \in Nat, NEW X, NEW s, NEW p, Window(wd, c, u, X, s, p),
           wd[Slot(At(c, u))] = Plain(At(c, u))
    PROVE  u \in 0 .. M - 1
<1>1. u <= M
  BY DEF Window
<1> SUFFICES ASSUME u = M
             PROVE  FALSE
  BY <1>1, Ranges
<1>2. /\ At(c, 0) = c /\ 0 \in 0 .. M - 1 /\ Slot(At(c, M)) = Slot(c) /\ At(c, M) \in Seqs
      /\ CommitSeq(c) # At(c, M) /\ At(c, M) # c /\ 0 < u
  BY WindowSlots, SeqsDiffer, Ranges
<1>3. wd[Slot(c)].seq = CommitSeq(c) \/ wd[Slot(c)] = Plain(c)
  BY <1>2 DEF Window
<1>4. wd[Slot(c)].seq = At(c, M)
  BY <1>2, PlainWord
<1> QED BY <1>2, <1>3, <1>4, PlainWord

\* A commit begins: the first free position is unread, and not yet stored.
LEMMA WindowGrow ==
    ASSUME NEW wd, NEW c \in Seqs, NEW u \in 0 .. M - 1, NEW s, Window(wd, c, u, {}, s, s)
    PROVE  Window(wd, c, u + 1, {At(c, u)}, s, s)
<1>1. u + 1 <= M
  BY Ranges
<1>2. ASSUME NEW k \in 0 .. M - 1, NEW n, n = At(c, k)
      PROVE  /\ k < u + 1 /\ n \notin {At(c, u)} =>
                  /\ wd[Slot(n)].seq = CommitSeq(n)
                  /\ wd[Slot(n)].moved # NoSeg => k + 1 = u + 1 /\ s # s
             /\ k >= u + 1 \/ n \in {At(c, u)} => wd[Slot(n)] = Plain(n)
  <2>1. CASE k = u
    <3>1. k >= u
      BY <2>1
    <3>2. wd[Slot(n)] = Plain(n)
      BY <1>2, <3>1 DEF Window
    <3> QED BY <1>2, <2>1, <3>2
  <2>2. CASE k # u
    <3>1. n # At(c, u)
      BY <1>2, <2>2, WindowSlots
    <3>2. (k < u + 1 <=> k < u) /\ (k >= u + 1 => k >= u)
      BY <2>2
    <3> QED BY <1>2, <3>1, <3>2 DEF Window
  <2> QED BY <2>1, <2>2
<1> QED BY <1>1, <1>2 DEF Window

\* It ends: the word is stored.
LEMMA WindowStore ==
    ASSUME NEW wd, NEW c \in Seqs, NEW u \in 1 .. M, NEW n, n = At(c, u - 1), NEW s, NEW p,
           Window(wd, c, u, {n}, s, p), NEW v, v.seq = CommitSeq(n), v.moved # NoSeg => s # p,
           NEW e, e[Slot(n)] = v, \A i \in Slots : i # Slot(n) => e[i] = wd[i]
    PROVE  Window(e, c, u, {}, s, p) /\ Stored(e, c, u, n)
<1>1. u - 1 \in 0 .. M - 1 /\ u - 1 < u /\ (u - 1) + 1 = u /\ \A k \in 0 .. M - 1 : k \in 0 .. M
  BY Ranges
<1>2. ASSUME NEW k \in 0 .. M - 1, NEW m, m = At(c, k)
      PROVE  /\ k < u => /\ e[Slot(m)].seq = CommitSeq(m)
                         /\ e[Slot(m)].moved # NoSeg => k + 1 = u /\ s # p
             /\ k >= u => e[Slot(m)] = Plain(m)
  <2>1. CASE k = u - 1
    <3>1. k + 1 = u /\ ~(k >= u) /\ m = n
      BY <1>1, <1>2, <2>1
    <3> QED BY <3>1
  <2>2. CASE k # u - 1
    <3>1. Slot(m) # Slot(n) /\ m # n /\ Slot(m) \in Slots
      BY <1>1, <1>2, <2>2, WindowSlots
    <3>2. e[Slot(m)] = wd[Slot(m)]
      BY <3>1
    <3> QED BY <1>2, <3>1, <3>2 DEF Window
  <2> QED BY <2>1, <2>2
<1>3. Window(e, c, u, {}, s, p)
  BY <1>2 DEF Window
<1>4. Stored(e, c, u, n)
  BY <1>1 DEF Stored
<1> QED BY <1>3, <1>4

\* A release: the oldest position's slot is claimable in the next lap, and the
\* window moves on by one.
LEMMA WindowRelease ==
    ASSUME NEW wd, NEW c \in Seqs, NEW u \in Nat, NEW X, NEW s, NEW p, Window(wd, c, u, X, s, p),
           wd[Slot(c)].seq = CommitSeq(c),
           NEW e, e[Slot(c)] = Plain(At(c, M)), \A i \in Slots : i # Slot(c) => e[i] = wd[i]
    PROVE  /\ u > 0 /\ c \notin X /\ Window(e, At(c, 1), u - 1, X, s, p)
           /\ wd[Slot(c)].moved # NoSeg => u = 1 /\ s # p
<1>1. /\ At(c, 0) = c /\ 0 \in 0 .. M - 1 /\ CommitSeq(c) # c /\ u <= M /\ Slot(c) \in Slots
      /\ Slot(At(c, M)) = Slot(c)
      /\ \A k \in 0 .. M - 1 : At(At(c, 1), k) = At(c, k + 1)
  BY WindowSlots, SeqsDiffer DEF Window
<1>2. wd[Slot(c)] # Plain(c)
  BY <1>1, PlainWord
<1>3. u > 0 /\ c \notin X
  <2>1. 0 >= u \/ c \in X => wd[Slot(c)] = Plain(c)
    BY <1>1 DEF Window
  <2> QED BY <1>2, <2>1
<1>4. wd[Slot(c)].moved # NoSeg => u = 1 /\ s # p
  <2>1. 0 < u /\ 0 + 1 = 1
    BY <1>3
  <2> QED BY <1>1, <1>3, <2>1 DEF Window
<1>5. ASSUME NEW k \in 0 .. M - 1, NEW n, n = At(c, k + 1)
      PROVE  /\ k < u - 1 /\ n \notin X =>
                  /\ e[Slot(n)].seq = CommitSeq(n)
                  /\ e[Slot(n)].moved # NoSeg => k + 1 = u - 1 /\ s # p
             /\ k >= u - 1 \/ n \in X => e[Slot(n)] = Plain(n)
  <2>1. CASE k = M - 1
    <3>1. k + 1 = M /\ ~(k < u - 1)
      BY <1>1, <2>1, Ranges
    <3> QED BY <1>1, <1>5, <3>1
  <2>2. CASE k # M - 1
    <3>1. /\ k + 1 \in 0 .. M - 1 /\ k + 1 \in 0 .. M /\ k + 1 # 0 /\ (k < u - 1 <=> k + 1 < u)
          /\ (k >= u - 1 <=> k + 1 >= u) /\ ((k + 1) + 1 = u => k + 1 = u - 1)
      BY <1>1, <2>2, Ranges
    <3>2. Slot(n) # Slot(c) /\ Slot(n) \in Slots
      BY <1>1, <1>5, <3>1, WindowSlots
    <3>3. e[Slot(n)] = wd[Slot(n)]
      BY <3>2
    <3>4. /\ k + 1 < u /\ n \notin X =>
                  /\ wd[Slot(n)].seq = CommitSeq(n)
                  /\ wd[Slot(n)].moved # NoSeg => (k + 1) + 1 = u /\ s # p
          /\ k + 1 >= u \/ n \in X => wd[Slot(n)] = Plain(n)
      BY <1>5, <3>1 DEF Window
    <3> QED BY <3>1, <3>3, <3>4
  <2> QED BY <2>1, <2>2
<1>6. u - 1 <= M
  BY <1>1, Ranges
<1>7. Window(e, At(c, 1), u - 1, X, s, p)
  BY <1>1, <1>5, <1>6 DEF Window
<1> QED BY <1>3, <1>4, <1>7

\* A stored message stays one when another one is released ...
LEMMA StoredRelease ==
    ASSUME NEW wd, NEW c \in Seqs, NEW u \in Nat, NEW n, n # c, Stored(wd, c, u, n),
           NEW e, \A i \in Slots : i # Slot(c) => e[i] = wd[i]
    PROVE  /\ Stored(e, At(c, 1), u - 1, n) /\ Slot(n) # Slot(c) /\ e[Slot(n)] = wd[Slot(n)]
<1>1. PICK k \in 0 .. M - 1 : k < u /\ n = At(c, k)
  BY DEF Stored
<1>2. /\ At(c, 0) = c /\ 0 \in 0 .. M - 1 /\ k \in 0 .. M
      /\ \A j \in 0 .. M - 1 : At(At(c, 1), j) = At(c, j + 1)
  BY WindowSlots, Ranges
<1>3. k # 0
  BY <1>1, <1>2
<1>4. Slot(n) # Slot(c) /\ Slot(n) \in Slots
  BY <1>1, <1>2, <1>3, WindowSlots
<1>5. k - 1 \in 0 .. M - 1 /\ k - 1 < u - 1 /\ (k - 1) + 1 = k
  BY <1>1, <1>3, Ranges
<1>6. n = At(At(c, 1), k - 1)
  BY <1>1, <1>2, <1>5
<1> QED BY <1>4, <1>5, <1>6 DEF Stored

\* ... and when one is stored.
LEMMA StoredStore ==
    ASSUME NEW wd, NEW c \in Seqs, NEW u \in Nat, NEW n, Stored(wd, c, u, n),
           NEW j \in 0 .. M - 1, NEW m, m = At(c, j), wd[Slot(m)] = Plain(m),
           NEW e, \A i \in Slots : i # Slot(m) => e[i] = wd[i]
    PROVE  Stored(e, c, u, n) /\ n # m /\ Slot(n) # Slot(m) /\ e[Slot(n)] = wd[Slot(n)]
<1>1. m \in Seqs /\ j \in 0 .. M
  BY WindowSlots, Ranges
<1>2. n # m
  <2>1. CommitSeq(m) # m
    BY <1>1, SeqsDiffer
  <2>2. wd[Slot(m)].seq = m
    BY <1>1, PlainWord
  <2>3. wd[Slot(n)].seq = CommitSeq(n)
    BY DEF Stored
  <2> QED BY <2>1, <2>2, <2>3
<1>3. Slot(n) # Slot(m)
  BY <1>2, StoredApart
<1>4. PICK k \in 0 .. M - 1 : n = At(c, k)
  BY DEF Stored
<1>5. Slot(n) \in Slots
  <2>1. k \in 0 .. M
    BY Ranges
  <2> QED BY <1>4, <2>1, WindowSlots
<1> QED BY <1>2, <1>3, <1>5 DEF Stored

-----------------------------------------------------------------------------
(* What the state says.                                                    *)

\* The two positions in a segment, and the unread ones between them.
LEMMA SegPositions ==
    ASSUME TypeOK, NEW s \in Segs
    PROVE  /\ PPos(s) \in Seqs /\ CPos(s) \in Seqs /\ Unread(s) \in Nat
           /\ PPos(s) = At(CPos(s), Unread(s))
           /\ Unread(s) = 0 <=> PPos(s) = CPos(s)
<1>1. PPos(s) \in Seqs /\ CPos(s) \in Seqs
  BY DEF TypeOK, PPos, CPos
<1>2. PICK a \in Seqs, c \in Seqs : a = PPos(s) /\ c = CPos(s)
  BY <1>1
<1>3. a - c \in Int /\ c - c = 0 /\ 0 \in Seqs
  BY Ranges DEF Seqs
<1>4. Unread(s) = seq_of(a - c)
  BY <1>2 DEF Unread
<1>5. Unread(s) \in Nat
  <2>1. seq_of(a - c) \in Seqs
    BY <1>3, SeqOf
  <2> QED BY <1>4, <2>1, Ranges DEF Seqs
<1>6. a = At(c, Unread(s))
  <2>1. W \in Nat \ {0} /\ a \in 0 .. W - 1 /\ c \in 0 .. W - 1
    BY Ranges DEF Seqs
  <2>2. (c + ((a - c) % W)) % W = a
    BY <2>1, DistanceAdds, Zenon
  <2> QED BY <1>4, <2>2, Zenon DEF At, seq_of
<1>7. Unread(s) = 0 => a = c
  BY <1>6, WindowSlots
<1>8. a = c => Unread(s) = 0
  BY <1>3, <1>4, SeqOf
<1> QED BY <1>1, <1>2, <1>5, <1>6, <1>7, <1>8

\* The place a commit is about to store: the last unread one of its segment,
\* still claimable.
LEMMA UnstoredPlace ==
    ASSUME IInv, Publishing
    PROVE  /\ wat.seg \in Segs /\ wat.pos \in Seqs /\ Unread(wat.seg) \in 1 .. M
           /\ Unread(wat.seg) - 1 \in 0 .. M - 1
           /\ wat.pos = At(CPos(wat.seg), Unread(wat.seg) - 1)
           /\ WordAt(wat.seg, wat.pos) = Plain(wat.pos)
           /\ Unstored(wat.seg) = {wat.pos}
<1>1. PICK s \in Segs, n \in Seqs : s = wat.seg /\ n = wat.pos
  BY DEF IInv, TypeOK, Place
<1>2. CPos(s) \in Seqs /\ Unread(s) \in Nat /\ PPos(s) = At(CPos(s), Unread(s))
  BY SegPositions DEF IInv
<1>3. PPos(s) = seq_of(n + 1) /\ Unread(s) > 0
  BY <1>1 DEF IInv, CommitAgrees
<1>4. Window(word[s], CPos(s), Unread(s), Unstored(s), s, pcur)
  BY DEF IInv, WindowAgrees
<1>5. Unread(s) \in 1 .. M
  BY <1>2, <1>3, <1>4 DEF Window
<1>6. PICK k \in 0 .. M - 1 : Unread(s) = k + 1 /\ k = Unread(s) - 1 /\ k \in Nat /\ k \in 0 .. M
  <2>1. /\ Unread(s) - 1 \in 0 .. M - 1 /\ Unread(s) = (Unread(s) - 1) + 1 /\ Unread(s) - 1 \in Nat
        /\ Unread(s) - 1 \in 0 .. M
    BY <1>5, Ranges
  <2> QED BY <2>1
<1>7. n = At(CPos(s), k)
  <2>1. At(CPos(s), k) \in Seqs
    BY <1>2, <1>6, WindowSlots
  <2>2. At(CPos(s), k + 1) = seq_of(At(CPos(s), k) + 1)
    BY <1>2, <1>6, WindowSucc DEF At
  <2> QED BY <1>2, <1>3, <1>6, <2>1, <2>2, SuccInjective
<1>8. Unstored(s) = {n}
  BY <1>1 DEF Unstored
<1>9. word[s][Slot(n)] = Plain(n)
  BY <1>4, <1>7, <1>8 DEF Window
<1> QED BY <1>1, <1>5, <1>6, <1>7, <1>8, <1>9 DEF WordAt

\* The slot of a write guard is the first free one of its segment.
LEMMA ClaimablePlace ==
    ASSUME IInv, claimable = TRUE
    PROVE  /\ Unread(pcur) \in 0 .. M - 1 /\ ppos = At(CPos(pcur), Unread(pcur))
           /\ WordAt(pcur, ppos) = Plain(ppos)
<1>1. pcur \in Segs /\ PPos(pcur) = ppos
  BY DEF IInv, TypeOK, PPos
<1>2. CPos(pcur) \in Seqs /\ Unread(pcur) \in Nat /\ ppos = At(CPos(pcur), Unread(pcur))
  BY <1>1, SegPositions DEF IInv
<1>3. WordAt(pcur, ppos) = Plain(ppos)
  BY DEF IInv, WriteAgrees
<1>4. Window(word[pcur], CPos(pcur), Unread(pcur), Unstored(pcur), pcur, pcur)
  BY <1>1 DEF IInv, WindowAgrees
<1>5. Unread(pcur) \in 0 .. M - 1
  BY <1>2, <1>3, <1>4, WindowRoom DEF WordAt
<1> QED BY <1>2, <1>3, <1>5

\* A committed word where the consumer is heads the chain.
LEMMA ReadPlace ==
    ASSUME IInv, cpc # "giving", WordAt(ccur, cpos).seq = CommitSeq(cpos)
    PROVE  chain # <<>> /\ chain[1] = [seg |-> ccur, pos |-> cpos]
<1>1. ccur \in Segs /\ CPos(ccur) = cpos /\ cpos \in Seqs
  BY DEF IInv, TypeOK, CPos
<1>2. WordAt(ccur, cpos) # Plain(cpos)
  BY <1>1, SeqsDiffer, PlainWord
<1>3. ConsPlace = [seg |-> ccur, pos |-> cpos]
  BY DEF ConsPlace
<1>4. chain # <<>>
  <2> SUFFICES ASSUME chain = <<>>
               PROVE  FALSE
    OBVIOUS
  <2>1. ProdPlace = [seg |-> ccur, pos |-> cpos]
    BY <1>3 DEF IInv, ChainLinked
  <2>2. CASE Publishing
    <3>1. wat.seg = ccur /\ wat.pos = cpos
      BY <2>1, <2>2 DEF ProdPlace
    <3> QED BY <1>2, <2>2, <3>1, UnstoredPlace
  <2>3. CASE ~Publishing
    <3>1. pcur = ccur /\ ppos = cpos
      BY <2>1, <2>3 DEF ProdPlace
    <3>2. PPos(ccur) = CPos(ccur)
      BY <3>1 DEF PPos, CPos
    <3>3. Unread(ccur) = 0
      BY <1>1, <3>2, SegPositions DEF IInv
    <3>4. Window(word[ccur], cpos, 0, Unstored(ccur), ccur, pcur)
      BY <1>1, <3>3 DEF IInv, WindowAgrees
    <3>5. At(cpos, 0) = cpos /\ 0 \in 0 .. M - 1 /\ 0 >= 0
      BY <1>1, WindowSlots
    <3>6. word[ccur][Slot(cpos)] = Plain(cpos)
      BY <3>4, <3>5 DEF Window
    <3> QED BY <1>2, <3>6 DEF WordAt
  <2> QED BY <2>2, <2>3
<1> QED BY <1>3, <1>4 DEF IInv, ChainLinked

\* The segment a commit goes on in is a free one.
LEMMA LowestFree ==
    ASSUME FreeSegs # {}
    PROVE  (CHOOSE s \in FreeSegs : \A t \in FreeSegs : s <= t) \in FreeSegs
<1>1. FreeSegs \in SUBSET Nat
  BY GeometryAssumption DEF FreeSegs, Segs
<1>2. \E s \in FreeSegs : \A t \in FreeSegs : s <= t
  BY <1>1, LowestExists
<1> QED BY <1>2, Zenon

LEMMA SwitchTo ==
    ASSUME CommitSwitch
    PROVE  \E k \in FreeSegs :
             /\ taken' = Flip(taken, k) /\ wword' = [wword EXCEPT !.moved = k]
             /\ presume' = [presume EXCEPT ![pcur] = ppos]
             /\ pcur' = k /\ ppos' = presume'[k]
<1> DEFINE k == CHOOSE s \in FreeSegs : \A t \in FreeSegs : s <= t
<1>1. k \in FreeSegs
  BY LowestFree, Zenon DEF CommitSwitch
<1>2. /\ taken' = Flip(taken, k) /\ wword' = [wword EXCEPT !.moved = k]
      /\ presume' = [presume EXCEPT ![pcur] = ppos]
      /\ pcur' = k /\ ppos' = presume'[k]
  BY Zenon DEF CommitSwitch
<1> HIDE DEF k
<1> QED BY <1>1, <1>2, Zenon

\* The places of the chain.
LEMMA ChainPlace ==
    ASSUME IInv, NEW i \in 1 .. Len(chain)
    PROVE  /\ chain[i].seg \in Segs /\ chain[i].pos \in Seqs /\ Slot(chain[i].pos) \in Slots
           /\ chain[i] = [seg |-> chain[i].seg, pos |-> chain[i].pos]
           /\ CPos(chain[i].seg) \in Seqs /\ Unread(chain[i].seg) \in Nat
           /\ Stored(word[chain[i].seg], CPos(chain[i].seg), Unread(chain[i].seg), chain[i].pos)
<1>1. chain[i] \in Place
  BY ElementOfSeq DEF IInv, TypeOK
<1>2. PICK s \in Segs, n \in Seqs : s = chain[i].seg /\ n = chain[i].pos
  BY <1>1 DEF Place
<1>3. chain[i] = [seg |-> s, pos |-> n]
  BY <1>1, <1>2 DEF Place
<1>4. Slot(n) \in Slots
  BY WindowSlots
<1>5. CPos(s) \in Seqs /\ Unread(s) \in Nat
  BY SegPositions DEF IInv
<1>6. Stored(word[s], CPos(s), Unread(s), n)
  BY <1>2 DEF IInv, ChainUnread
<1> QED BY <1>2, <1>3, <1>4, <1>5, <1>6

\* A place of the chain is not in the slot of a claimable word of its window.
LEMMA ChainApart ==
    ASSUME IInv, NEW i \in 1 .. Len(chain), NEW s \in Segs, NEW j \in 0 .. M - 1, NEW n,
           n = At(CPos(s), j), WordAt(s, n) = Plain(n)
    PROVE  chain[i].seg = s => Slot(chain[i].pos) # Slot(n) /\ chain[i].pos # n
<1> SUFFICES ASSUME chain[i].seg = s
             PROVE  Slot(chain[i].pos) # Slot(n) /\ chain[i].pos # n
  OBVIOUS
<1>1. PICK m \in Seqs : m = chain[i].pos
  BY ChainPlace
<1>2. Stored(word[s], CPos(s), Unread(s), m) /\ CPos(s) \in Seqs /\ Unread(s) \in Nat
  BY <1>1, ChainPlace
<1>3. word[s][Slot(n)] = Plain(n)
  BY DEF WordAt
<1>4. m # n /\ Slot(m) # Slot(n)
  <2>1. \A k \in Slots : k # Slot(n) => word[s][k] = word[s][k]
    OBVIOUS
  <2> QED BY <1>2, <1>3, <2>1, StoredStore
<1> QED BY <1>1, <1>4

\* A write guard's slot is none of the chain's.
LEMMA GuardApart ==
    ASSUME IInv, claimable = TRUE, NEW i \in 1 .. Len(chain)
    PROVE  chain[i].seg = pcur => Slot(chain[i].pos) # Slot(ppos)
<1>1. pcur \in Segs
  BY DEF IInv, TypeOK
<1> QED BY <1>1, ClaimablePlace, ChainApart

\* The place a read guard is over is the chain's first.
LEMMA ReadHead ==
    ASSUME IInv, cpc \in {"reading", "half", "read"}
    PROVE  /\ chain # <<>> /\ 1 \in 1 .. Len(chain) /\ chain[1] = [seg |-> ccur, pos |-> cpos]
           /\ ChainWord(1) = rword /\ WordAt(ccur, cpos).seq = CommitSeq(cpos)
<1>1. rword = WordAt(ccur, cpos) /\ WordAt(ccur, cpos).seq = CommitSeq(cpos)
  BY DEF IInv, ReadAgrees
<1>2. chain # <<>> /\ chain[1] = [seg |-> ccur, pos |-> cpos]
  BY <1>1, ReadPlace
<1>3. 1 \in 1 .. Len(chain)
  BY <1>2 DEF IInv, TypeOK
<1>4. chain[1].seg = ccur /\ chain[1].pos = cpos
  BY <1>2
<1> QED BY <1>1, <1>2, <1>3, <1>4 DEF ChainWord

-----------------------------------------------------------------------------
(* The steps.                                                              *)

\* Every step keeps every variable in its type.
LEMMA TypeStep ==
    ASSUME TypeOK, cpc = "read" => chain # <<>>, cpc = "giving" => rword.moved \in Segs,
           [Next]_vars
    PROVE  TypeOK'
<1>1. \A n \in Seqs : seq_of(n + 1) \in Seqs /\ Slot(n) \in Slots
  <2>1. \A n \in Seqs : n \in Int /\ n + 1 \in Int
    BY Ranges DEF Seqs
  <2> QED BY <2>1, SeqOf, SlotOf
<1>2. \A n \in Seqs : Released(n) \in SegWord /\ Committed(n) \in SegWord
  BY PlainWord
<1>3. EmptyPair \in Pair
  BY DEF EmptyPair, Pair, Half
<1>4. \A s \in Segs : Flip(taken, s) \in SUBSET Segs /\ Flip(cgiven, s) \in SUBSET Segs
  BY DEF TypeOK, Flip, SymDiff
<1>5. pcur \in Segs /\ ppos \in Seqs /\ ccur \in Segs /\ cpos \in Seqs
  BY DEF TypeOK
<1>6. wat.seg \in Segs /\ wat.pos \in Seqs
  BY DEF TypeOK, Place
<1>7. buf[ccur][Slot(cpos)].lo \in Half /\ buf[ccur][Slot(cpos)].hi \in Half
  <2>1. buf[ccur][Slot(cpos)] \in Pair
    BY <1>1, <1>5 DEF TypeOK
  <2> QED BY <2>1 DEF Pair
<1>8. \A m \in Half : /\ [buf EXCEPT ![pcur][Slot(ppos)].lo = m] \in [Segs -> [Slots -> Pair]]
                      /\ [buf EXCEPT ![pcur][Slot(ppos)].hi = m] \in [Segs -> [Slots -> Pair]]
  BY <1>1, <1>5 DEF TypeOK, Pair
<1> USE DEF TypeOK, prodVars, consVars
<1>9. CASE UNCHANGED vars
  BY <1>9 DEF vars
<1>10. CASE ReserveWrite
  BY <1>10 DEF ReserveWrite
<1>11. CASE WriteGuard
  BY <1>11 DEF WriteGuard
<1>12. CASE Full \/ AbandonWrite \/ CommitStay
  BY <1>12 DEF Full, AbandonWrite, CommitStay
<1>13. CASE FillLo
  <2>1. PICK m \in Msg : wmsg' = m /\ buf' = [buf EXCEPT ![pcur][Slot(ppos)].lo = m]
    BY <1>13 DEF FillLo
  <2>2. m \in Half
    BY DEF Half
  <2> QED BY <1>8, <1>13, <2>1, <2>2, Zenon DEF FillLo
<1>14. CASE FillHi
  <2>1. buf' = [buf EXCEPT ![pcur][Slot(ppos)].hi = wmsg]
    BY <1>14 DEF FillHi
  <2> QED BY <1>8, <1>14, <2>1, Zenon DEF FillHi
<1>15. CASE CommitLook
  BY <1>1, <1>2, <1>5, <1>15 DEF CommitLook, Place
<1>16. CASE CommitSwitch
  <2>1. PICK k \in Segs : /\ taken' = Flip(taken, k) /\ wword' = [wword EXCEPT !.moved = k]
                          /\ presume' = [presume EXCEPT ![pcur] = ppos]
                          /\ pcur' = k /\ ppos' = presume'[k]
    BY <1>16, SwitchTo, Zenon DEF FreeSegs
  <2>2. presume' \in [Segs -> Seqs] /\ ppos' \in Seqs
    BY <1>5, <2>1
  <2>3. wword' \in SegWord
    BY <2>1 DEF SegWord
  <2>4. pcur' \in Segs /\ taken' \in SUBSET Segs
    BY <1>4, <2>1, Zenon
  <2>5. /\ ppc' = "publish"
        /\ UNCHANGED <<word, buf, given, claimable, wmsg, wat, consVars, chain>>
        /\ switchLead' = switchLead + 1
    BY <1>16, Zenon DEF CommitSwitch
  <2> QED BY <2>2, <2>3, <2>4, <2>5
<1>17. CASE CommitPublish
  BY <1>1, <1>6, <1>17 DEF CommitPublish
<1>18. CASE ReserveRead \/ NoMessage
  BY <1>18 DEF ReserveRead, NoMessage
<1>19. CASE ReadGuard
  BY <1>1, <1>5, <1>19 DEF ReadGuard
<1>20. CASE ReadLo \/ ReadHi
  BY <1>7, <1>20 DEF ReadLo, ReadHi, Pair
<1>21. CASE DropRead
  BY <1>3, <1>21 DEF DropRead
<1>22. CASE ReleaseSeq
  <2>1. chain' \in Seq(Place)
    BY <1>22 DEF ReleaseSeq
  <2>2. word' \in [Segs -> [Slots -> SegWord]] /\ cpos' \in Seqs
    BY <1>1, <1>2, <1>5, <1>22 DEF ReleaseSeq
  <2> QED BY <1>3, <1>22, <2>1, <2>2 DEF ReleaseSeq
<1>23. CASE GiveBack
  <2>1. rword.moved \in Segs
    BY <1>23 DEF GiveBack
  <2>2. cresume' \in [Segs -> Seqs] /\ cpos' \in Seqs /\ ccur' \in Segs
    BY <1>5, <1>23, <2>1 DEF GiveBack
  <2>3. cgiven' \in SUBSET Segs
    BY <1>4, <1>5, <1>23, Zenon DEF GiveBack
  <2> QED BY <1>23, <2>2, <2>3 DEF GiveBack
<1> QED BY <1>9, <1>10, <1>11, <1>12, <1>13, <1>14, <1>15, <1>16, <1>17, <1>18, <1>19, <1>20,
           <1>21, <1>22, <1>23 DEF Next, ProducerNext, ConsumerNext

\* The steps that move neither side, store no word and hand no segment over.
LEMMA QuietStep ==
    ASSUME IInv, TypeOK',
           UNCHANGED <<word, given, pcur, ppos, presume, taken, wat, wword, ccur, cpos, cresume,
                       switchLead, chain>>,
           Publishing' <=> Publishing, ppc = "publish" => ppc' = "publish",
           cpc' = "giving" <=> cpc = "giving", cpc = "giving" => rword' = rword
    PROVE  /\ BitsAgree' /\ WindowAgrees' /\ CommitAgrees' /\ ChainLinked' /\ ChainUnread'
           /\ LeadAgrees'
<1>1. InUse' = InUse
  BY DEF InUse
<1>2. \A s \in Segs : /\ PPos(s)' = PPos(s) /\ CPos(s)' = CPos(s) /\ Unread(s)' = Unread(s)
                      /\ Unstored(s)' = Unstored(s)
  BY DEF PPos, CPos, Unread, Unstored
<1>3. BitsAgree'
  BY <1>1 DEF IInv, BitsAgree
<1>4. WindowAgrees'
  BY <1>2 DEF IInv, WindowAgrees
<1>5. CommitAgrees'
  <2>1. Publishing => wat.seg \in Segs
    BY UnstoredPlace
  <2> QED BY <1>2, <2>1 DEF IInv, CommitAgrees
<1>6. ConsPlace' = ConsPlace /\ ProdPlace' = ProdPlace
  BY DEF ConsPlace, ProdPlace
<1>7. \A i \in 1 .. Len(chain) : ChainWord(i)' = ChainWord(i)
  BY DEF ChainWord, WordAt
<1>8. ChainLinked'
  BY <1>6, <1>7 DEF IInv, ChainLinked
<1>9. ChainUnread'
  <2>1. \A i \in 1 .. Len(chain) : chain[i].seg \in Segs
    BY ChainPlace
  <2>2. \A i \in 1 .. Len(chain) :
           LET s == chain[i].seg IN Stored(word[s], CPos(s)', Unread(s)', chain[i].pos)
    BY <1>2, <2>1 DEF IInv, ChainUnread
  <2> QED BY <1>1, <1>7, <2>2 DEF IInv, ChainUnread
<1>10. LeadAgrees'
  BY <1>1, <1>7 DEF IInv, LeadAgrees
<1> QED BY <1>3, <1>4, <1>5, <1>8, <1>9, <1>10

LEMMA TypeKept ==
    ASSUME IInv, [Next]_vars
    PROVE  TypeOK'
<1>1. cpc = "read" => chain # <<>>
  BY ReadHead
<1>2. cpc = "giving" => rword.moved \in Segs
  BY DEF IInv, TypeOK, ReadAgrees, InUse, SymDiff
<1> QED BY <1>1, <1>2, TypeStep DEF IInv

\* The producer's steps that store no word.
LEMMA QuietProducer ==
    ASSUME IInv, ReserveWrite \/ WriteGuard \/ Full \/ AbandonWrite \/ CommitStay
    PROVE  IInv'
<1>1. TypeOK'
  BY TypeKept DEF Next, ProducerNext
<1> USE DEF ReserveWrite, WriteGuard, Full, AbandonWrite, CommitStay, consVars
<1>2. /\ BitsAgree' /\ WindowAgrees' /\ CommitAgrees' /\ ChainLinked' /\ ChainUnread'
      /\ LeadAgrees'
  BY <1>1, QuietStep DEF Publishing
<1>3. WriteAgrees'
  BY DEF IInv, WriteAgrees, WordAt, Claimable, TypeOK
<1>4. ReadAgrees'
  BY DEF IInv, ReadAgrees, WordAt, InUse
<1>5. BytesIntact'
  BY DEF IInv, BytesIntact, Publishing
<1> QED BY <1>1, <1>2, <1>3, <1>4, <1>5 DEF IInv

\* A fill writes the guard's slot only.
LEMMA FillApart ==
    ASSUME IInv, FillLo \/ FillHi, NEW i \in 1 .. Len(chain)
    PROVE  buf'[chain[i].seg][Slot(chain[i].pos)] = buf[chain[i].seg][Slot(chain[i].pos)]
<1>1. claimable = TRUE
  BY DEF IInv, WriteAgrees, FillLo, FillHi
<1>2. PICK s \in Segs, n \in Seqs : s = chain[i].seg /\ n = chain[i].pos /\ Slot(n) \in Slots
  BY ChainPlace
<1>3. s # pcur \/ Slot(n) # Slot(ppos)
  BY <1>1, <1>2, GuardApart
<1> QED BY <1>2, <1>3 DEF FillLo, FillHi, IInv, TypeOK

LEMMA QuietFill ==
    ASSUME IInv, FillLo \/ FillHi
    PROVE  IInv'
<1>1. TypeOK'
  BY TypeKept DEF Next, ProducerNext
<1>2. claimable = TRUE /\ ~Publishing /\ ~Publishing'
  BY DEF IInv, WriteAgrees, FillLo, FillHi, Publishing
<1>3. /\ BitsAgree' /\ WindowAgrees' /\ CommitAgrees' /\ ChainLinked' /\ ChainUnread'
      /\ LeadAgrees'
  BY <1>1, <1>2, QuietStep DEF FillLo, FillHi, consVars
<1>4. WriteAgrees'
  BY <1>2 DEF IInv, WriteAgrees, WordAt, FillLo, FillHi
<1>5. ReadAgrees'
  BY DEF IInv, ReadAgrees, WordAt, InUse, FillLo, FillHi, consVars
<1>6. \A i \in 1 .. Len(chain) :
          buf'[chain[i].seg][Slot(chain[i].pos)] = buf[chain[i].seg][Slot(chain[i].pos)]
  BY FillApart
<1>7. /\ cpc \in {"reading", "half", "read"} =>
           buf'[ccur][Slot(cpos)] = buf[ccur][Slot(cpos)]
  BY <1>6, ReadHead
<1>8. pcur \in Segs /\ Slot(ppos) \in Slots /\ buf[pcur][Slot(ppos)] \in Pair
  <2>1. pcur \in Segs /\ Slot(ppos) \in Slots
    BY WindowSlots DEF IInv, TypeOK
  <2> QED BY <2>1 DEF IInv, TypeOK
<1>9. /\ ppc' \in {"half", "filled"} => wmsg' \in Msg /\ buf'[pcur][Slot(ppos)].lo = wmsg'
      /\ ppc' = "filled" => buf'[pcur][Slot(ppos)].hi = wmsg'
  <2>1. CASE FillLo
    BY <1>8, <2>1 DEF FillLo, IInv, TypeOK, Pair
  <2>2. CASE FillHi
    BY <1>8, <2>2 DEF FillHi, IInv, TypeOK, Pair, BytesIntact
  <2> QED BY <2>1, <2>2
<1>10. UNCHANGED <<chain, pcur, ppos, cpc, ccur, cpos, got>>
  BY DEF FillLo, FillHi, consVars
<1>11. BytesIntact'
  BY <1>2, <1>6, <1>7, <1>9, <1>10 DEF IInv, BytesIntact
<1> QED BY <1>1, <1>3, <1>4, <1>5, <1>11 DEF IInv

\* The consumer's steps that store no word.
LEMMA QuietConsumer ==
    ASSUME IInv, ReserveRead \/ ReadGuard \/ NoMessage \/ ReadLo \/ ReadHi \/ DropRead
    PROVE  IInv'
<1>1. TypeOK'
  BY TypeKept DEF Next, ConsumerNext
<1>2. cpos \in Seqs
  BY DEF IInv, TypeOK
<1>3. Committed(cpos).seq = CommitSeq(cpos)
  BY <1>2, PlainWord
<1> USE DEF ReserveRead, ReadGuard, NoMessage, ReadLo, ReadHi, DropRead, prodVars
<1>4. /\ BitsAgree' /\ WindowAgrees' /\ CommitAgrees' /\ ChainLinked' /\ ChainUnread'
      /\ LeadAgrees'
  BY <1>1, QuietStep DEF Publishing
<1>5. WriteAgrees'
  BY DEF IInv, WriteAgrees, WordAt
<1>6. ReadAgrees'
  BY <1>3 DEF IInv, ReadAgrees, WordAt, InUse, HasMessage
<1>7. BytesIntact'
  <2>1. ReadLo => got'.lo = buf[ccur][Slot(cpos)].lo
    BY DEF IInv, TypeOK, Pair
  <2>2. ReadHi => got'.lo = got.lo /\ got'.hi = buf[ccur][Slot(cpos)].hi
    BY DEF IInv, TypeOK, Pair
  <2> QED BY <2>1, <2>2 DEF IInv, BytesIntact, Publishing
<1> QED BY <1>1, <1>4, <1>5, <1>6, <1>7 DEF IInv

\* The look ahead: the guard's position joins the unread ones.
LEMMA LookPositions ==
    ASSUME IInv, CommitLook, NEW p \in Segs, p = pcur
    PROVE  /\ \A s \in Segs : CPos(s)' = CPos(s) /\ (s # p => Unread(s)' = Unread(s))
           /\ PPos(p)' = At(ppos, 1) /\ Unread(p)' = Unread(p) + 1 /\ Unread(p) \in 0 .. M - 1
           /\ CPos(p) \in Seqs /\ ppos = At(CPos(p), Unread(p)) /\ ppos \in Seqs
<1>1. claimable = TRUE
  BY DEF IInv, WriteAgrees, CommitLook
<1>2. Unread(p) \in 0 .. M - 1 /\ ppos = At(CPos(p), Unread(p))
  BY <1>1, ClaimablePlace
<1>3. ppos \in Seqs
  BY DEF IInv, TypeOK
<1>4. PICK c \in Seqs : c = CPos(p)
  BY SegPositions DEF IInv
<1>5. \A s \in Segs : CPos(s)' = CPos(s)
  BY DEF CommitLook, consVars, CPos
<1>6. \A s \in Segs : s # p => Unread(s)' = Unread(s)
  BY DEF CommitLook, consVars, CPos, PPos, Unread
<1>7. Unread(p) = (ppos - c) % W
  BY <1>4 DEF PPos, Unread, seq_of
<1>8. PPos(p)' = (ppos + 1) % W
  BY DEF CommitLook, PPos, seq_of
<1>9. Unread(p)' = (((ppos + 1) % W) - c) % W
  BY <1>4, <1>5, <1>8 DEF Unread, seq_of
<1>10. Unread(p)' = Unread(p) + 1
  <2>1. Unread(p) + 1 < W
    BY <1>2, Ranges
  <2>2. W \in Nat \ {0} /\ ppos \in 0 .. W - 1 /\ c \in 0 .. W - 1
    BY <1>3, Ranges DEF Seqs
  <2>3. ((ppos - c) % W) + 1 < W
    BY <1>7, <2>1, Zenon
  <2>4. (((ppos + 1) % W) - c) % W = ((ppos - c) % W) + 1
    BY <2>2, <2>3, DistanceUp, Zenon
  <2> QED BY <1>7, <1>9, <2>4, Zenon
<1> QED BY <1>2, <1>3, <1>4, <1>5, <1>6, <1>8, <1>10 DEF At, seq_of

LEMMA LookStep ==
    ASSUME IInv, CommitLook
    PROVE  IInv'
<1>1. TypeOK'
  BY TypeKept DEF Next, ProducerNext
<1>2. PICK p \in Segs : p = pcur
  BY DEF IInv, TypeOK
<1>3. /\ \A s \in Segs : CPos(s)' = CPos(s) /\ (s # p => Unread(s)' = Unread(s))
      /\ PPos(p)' = At(ppos, 1) /\ Unread(p)' = Unread(p) + 1 /\ Unread(p) \in 0 .. M - 1
      /\ CPos(p) \in Seqs /\ ppos = At(CPos(p), Unread(p)) /\ ppos \in Seqs
  BY <1>2, LookPositions
<1>4. /\ Publishing' /\ ~Publishing /\ wat'.seg = p /\ wat'.pos = ppos
      /\ wat' = [seg |-> pcur, pos |-> ppos]
      /\ UNCHANGED <<word, buf, given, pcur, presume, taken, ccur, cpos, cresume, cpc, rword,
                     switchLead, chain, got>>
  BY <1>2 DEF Publishing, CommitLook, consVars
<1>5. InUse' = InUse
  BY <1>4 DEF InUse
<1>6. BitsAgree'
  BY <1>4, <1>5 DEF IInv, BitsAgree
<1>7. WindowAgrees'
  <2> SUFFICES ASSUME NEW s \in Segs
               PROVE  Window(word[s], CPos(s)', Unread(s)', Unstored(s)', s, pcur)
    BY <1>4 DEF WindowAgrees
  <2>1. Window(word[s], CPos(s), Unread(s), {}, s, pcur)
    BY <1>4 DEF IInv, WindowAgrees, Unstored
  <2>2. CASE s = p
    <3>1. Unstored(s)' = {ppos}
      BY <1>4, <2>2 DEF Unstored
    <3>2. Window(word[s], CPos(s), Unread(s) + 1, {ppos}, s, s)
      BY <1>2, <1>3, <2>1, <2>2, WindowGrow
    <3> QED BY <1>2, <1>3, <2>2, <3>1, <3>2
  <2>3. CASE s # p
    <3>1. Unstored(s)' = {}
      BY <1>4, <2>3 DEF Unstored
    <3> QED BY <1>3, <2>1, <2>3, <3>1
  <2> QED BY <2>2, <2>3
<1>8. WriteAgrees'
  <2>1. claimable' = (word[pcur][Slot(ppos + 1)] = Claimable(ppos + 1))
    BY DEF CommitLook
  <2>2. ppos' = At(ppos, 1) /\ ppc' = IF claimable' THEN "publish" ELSE "switch"
    BY DEF CommitLook, At
  <2>3. /\ Claimable(ppos + 1) = Plain(At(ppos, 1)) /\ Slot(ppos + 1) = Slot(At(ppos, 1))
    BY <1>3, PlainWord DEF Claimable
  <2>4. claimable' \in BOOLEAN
    BY <1>1 DEF TypeOK
  <2>5. WordAt(pcur, ppos)' = word[pcur][Slot(At(ppos, 1))]
    BY <1>4, <2>2 DEF WordAt
  <2>6. claimable' = TRUE => WordAt(pcur, ppos)' = Plain(ppos')
    BY <2>1, <2>2, <2>3, <2>5
  <2> QED BY <2>2, <2>4, <2>6 DEF WriteAgrees
<1>9. CommitAgrees'
  <2>1. wword'.seq = CommitSeq(ppos) /\ wword'.moved = NoSeg
    BY <1>3, PlainWord DEF CommitLook
  <2>2. Unread(p)' > 0
    BY <1>3
  <2>3. PPos(wat.seg)' = PPos(p)' /\ Unread(wat.seg)' = Unread(p)'
    BY <1>4 DEF PPos, CPos, Unread
  <2>4. wat'.seg = pcur' /\ PPos(wat.seg)' = seq_of(wat'.pos + 1)
    BY <1>2, <1>3, <1>4, <2>3 DEF At
  <2> QED BY <1>4, <2>1, <2>2, <2>3, <2>4 DEF CommitAgrees
<1>10. ReadAgrees'
  BY <1>4, <1>5 DEF IInv, ReadAgrees, WordAt
<1>11. \A i \in 1 .. Len(chain) : ChainWord(i)' = ChainWord(i)
  BY <1>4 DEF ChainWord, WordAt
<1>12. ConsPlace' = ConsPlace /\ ProdPlace' = ProdPlace
  BY <1>4 DEF ConsPlace, ProdPlace
<1>13. ChainLinked'
  BY <1>4, <1>11, <1>12 DEF IInv, ChainLinked
<1>14. ChainUnread'
  <2>1. ASSUME NEW i \in 1 .. Len(chain)
        PROVE  LET s == chain[i].seg IN Stored(word[s], CPos(s)', Unread(s)', chain[i].pos)
    <3>1. PICK s \in Segs : s = chain[i].seg /\ Stored(word[s], CPos(s), Unread(s), chain[i].pos)
      BY ChainPlace
    <3>2. \A k \in 0 .. M - 1 : k < Unread(s) => k < Unread(s)'
      <4>1. CASE s = p
        BY <1>3, <4>1
      <4>2. CASE s # p
        BY <1>3, <4>2
      <4> QED BY <4>1, <4>2
    <3>3. Stored(word[s], CPos(s)', Unread(s)', chain[i].pos)
      BY <1>3, <3>1, <3>2 DEF Stored
    <3> QED BY <1>4, <3>1, <3>3
  <2> QED BY <1>4, <1>5, <1>11, <2>1 DEF IInv, ChainUnread
<1>15. LeadAgrees'
  BY <1>4, <1>5, <1>11 DEF IInv, LeadAgrees
<1>16. BytesIntact'
  <2>1. ppc = "filled" /\ ppc' \in {"switch", "publish"}
    BY DEF CommitLook
  <2>2. LET b == buf[wat'.seg][Slot(wat'.pos)] IN b.lo \in Msg /\ b.hi = b.lo
    BY <1>2, <1>4, <2>1 DEF IInv, BytesIntact
  <2> QED BY <1>4, <2>1, <2>2 DEF IInv, BytesIntact
<1> QED BY <1>1, <1>6, <1>7, <1>8, <1>9, <1>10, <1>13, <1>14, <1>15, <1>16 DEF IInv

\* The segments in use are finitely many.
LEMMA InUseFinite ==
    ASSUME TypeOK
    PROVE  /\ IsFiniteSet(Segs) /\ IsFiniteSet(InUse) /\ InUse \subseteq Segs
           /\ \A s \in Segs : s \in FreeSegs <=> s \notin InUse
<1>1. IsFiniteSet(Segs)
  BY GeometryAssumption, FS_Interval DEF Segs
<1>2. InUse \subseteq Segs
  BY DEF TypeOK, InUse, SymDiff
<1> QED BY <1>1, <1>2, FS_Subset DEF FreeSegs, InUse

\* The producer goes on in a segment that has no unread position.
LEMMA WindowSwitch ==
    ASSUME NEW wd, NEW c, NEW u \in Nat, NEW X, NEW s, NEW p, NEW q, Window(wd, c, u, X, s, p),
           u = 0 \/ s # q
    PROVE  Window(wd, c, u, X, s, q)
<1>1. \A k \in 0 .. M - 1 : u = 0 => ~(k < u)
  OBVIOUS
<1> QED BY <1>1 DEF Window

\* Taking a free segment: no position moves.
LEMMA SwitchPositions ==
    ASSUME IInv, CommitSwitch, NEW k \in FreeSegs, taken' = Flip(taken, k), pcur' = k,
           presume' = [presume EXCEPT ![pcur] = ppos], ppos' = presume'[k]
    PROVE  /\ k \in Segs \ InUse /\ InUse' = InUse \cup {k} /\ k # pcur /\ k # ccur
           /\ presume[k] = cresume[k] /\ ppos' = presume[k] /\ Unread(k) = 0
           /\ \A s \in Segs : /\ PPos(s)' = PPos(s) /\ CPos(s)' = CPos(s)
                              /\ Unread(s)' = Unread(s)
<1>1. k \in Segs /\ k \notin InUse
  BY DEF FreeSegs, InUse
<1>2. UNCHANGED <<given, ccur, cpos, cresume>>
  BY DEF CommitSwitch, consVars
<1>3. InUse' = InUse \cup {k}
  BY <1>1, <1>2 DEF InUse, Flip, SymDiff
<1>4. k # pcur /\ k # ccur /\ presume[k] = cresume[k]
  BY <1>1 DEF IInv, BitsAgree
<1>5. pcur \in Segs /\ presume \in [Segs -> Seqs]
  BY DEF IInv, TypeOK
<1>6. ppos' = presume[k]
  BY <1>1, <1>4, <1>5
<1>7. \A s \in Segs : PPos(s)' = PPos(s)
  BY <1>4, <1>5, <1>6 DEF PPos
<1>8. \A s \in Segs : CPos(s)' = CPos(s)
  BY <1>2 DEF CPos
<1>9. \A s \in Segs : Unread(s)' = Unread(s)
  BY <1>7, <1>8 DEF Unread
<1>10. Unread(k) = 0
  <2>1. PPos(k) = CPos(k)
    BY <1>4 DEF PPos, CPos
  <2> QED BY <1>1, <2>1, SegPositions DEF IInv
<1> QED BY <1>1, <1>3, <1>4, <1>6, <1>7, <1>8, <1>9, <1>10

LEMMA SwitchStep ==
    ASSUME IInv, CommitSwitch
    PROVE  IInv'
<1>1. TypeOK'
  BY TypeKept DEF Next, ProducerNext
<1>2. PICK k \in FreeSegs :
           /\ taken' = Flip(taken, k) /\ wword' = [wword EXCEPT !.moved = k]
           /\ presume' = [presume EXCEPT ![pcur] = ppos]
           /\ pcur' = k /\ ppos' = presume'[k]
  BY SwitchTo
<1>3. /\ k \in Segs \ InUse /\ InUse' = InUse \cup {k} /\ k # pcur /\ k # ccur
      /\ presume[k] = cresume[k] /\ ppos' = presume[k] /\ Unread(k) = 0
      /\ \A s \in Segs : /\ PPos(s)' = PPos(s) /\ CPos(s)' = CPos(s) /\ Unread(s)' = Unread(s)
  BY <1>2, SwitchPositions, Zenon
<1>4. /\ Publishing' /\ Publishing /\ ppc = "switch" /\ ppc' = "publish"
      /\ UNCHANGED <<word, buf, given, wat, claimable, ccur, cpos, cresume, cpc, rword, chain, got>>
      /\ switchLead' = switchLead + 1
  BY DEF Publishing, CommitSwitch, consVars
<1>5. /\ wword.moved = NoSeg /\ wat.seg = pcur /\ wword.seq = CommitSeq(wat.pos)
      /\ PPos(wat.seg) = seq_of(wat.pos + 1) /\ Unread(wat.seg) > 0
  BY <1>4 DEF IInv, CommitAgrees
<1>6. /\ wword'.moved = k /\ wword'.seq = wword.seq /\ k # NoSeg
      /\ wat.seg \in Segs /\ pcur \in Segs /\ ccur \in Segs
  BY <1>2, <1>3, Ranges DEF IInv, TypeOK, SegWord, Place
<1>7. BitsAgree'
  <2>1. \A s \in Segs : s \notin InUse' => presume'[s] = presume[s]
    BY <1>2, <1>3 DEF IInv, TypeOK, BitsAgree
  <2> QED BY <1>2, <1>3, <1>4, <2>1 DEF IInv, BitsAgree
<1>8. WindowAgrees'
  <2> SUFFICES ASSUME NEW s \in Segs
               PROVE  Window(word[s], CPos(s)', Unread(s)', Unstored(s)', s, k)
    BY <1>2, <1>4 DEF WindowAgrees
  <2>1. Window(word[s], CPos(s), Unread(s), Unstored(s), s, pcur) /\ Unread(s) \in Nat
    BY SegPositions DEF IInv, WindowAgrees
  <2>2. Unstored(s)' = Unstored(s)
    BY <1>4 DEF Unstored
  <2>3. Unread(s) = 0 \/ s # k
    BY <1>3
  <2>4. Window(word[s], CPos(s), Unread(s), Unstored(s), s, k)
    BY <2>1, <2>3, WindowSwitch
  <2> QED BY <1>3, <2>2, <2>4
<1>9. WriteAgrees'
  BY <1>4 DEF IInv, WriteAgrees
<1>10. CommitAgrees'
  <2>1. PPos(wat.seg)' = PPos(wat.seg) /\ Unread(wat.seg)' = Unread(wat.seg)
    BY <1>3, <1>4, <1>6
  <2> QED BY <1>2, <1>3, <1>4, <1>5, <1>6, <2>1 DEF CommitAgrees
<1>11. ReadAgrees'
  <2>1. ccur # pcur => presume'[ccur] = presume[ccur]
    BY <1>2, <1>6 DEF IInv, TypeOK
  <2>2. WordAt(ccur, cpos)' = WordAt(ccur, cpos)
    BY <1>4 DEF WordAt
  <2> QED BY <1>2, <1>3, <1>4, <2>1, <2>2 DEF IInv, ReadAgrees
<1>12. \A i \in 1 .. Len(chain) : ChainWord(i)' = ChainWord(i)
  BY <1>4 DEF ChainWord, WordAt
<1>13. ConsPlace' = ConsPlace /\ ProdPlace' = ProdPlace
  BY <1>4 DEF ConsPlace, ProdPlace
<1>14. ChainLinked'
  BY <1>4, <1>12, <1>13 DEF IInv, ChainLinked
<1>15. ChainUnread'
  <2>1. \A i \in 1 .. Len(chain) : chain[i].seg \in Segs
    BY ChainPlace
  <2>2. \A i \in 1 .. Len(chain) :
           LET s == chain[i].seg IN Stored(word[s], CPos(s)', Unread(s)', chain[i].pos)
    BY <1>3, <1>4, <2>1 DEF IInv, ChainUnread
  <2> QED BY <1>3, <1>4, <1>12, <2>2 DEF IInv, ChainUnread
<1>16. LeadAgrees'
  <2>1. Cardinality(InUse \cup {k}) = Cardinality(InUse) + 1 /\ Cardinality(InUse) \in Nat
    BY <1>3, InUseFinite, FS_AddElement, FS_CardinalityType DEF IInv
  <2>2. switchLead' = Cardinality(InUse') - 1
    BY <1>3, <1>4, <2>1 DEF IInv, LeadAgrees
  <2>3. \A s \in InUse : s # wword.moved
    BY <1>5, InUseFinite, Ranges DEF IInv
  <2>4. ASSUME NEW s \in InUse', s # ccur
        PROVE  \/ cpc = "giving" /\ rword.moved = s
               \/ wword'.moved = s
               \/ \E i \in 1 .. Len(chain) : ChainWord(i)' = ChainWord(i) /\ ChainWord(i).moved = s
    <3>1. CASE s = k
      BY <1>6, <3>1
    <3>2. CASE s \in InUse
      BY <1>12, <2>3, <2>4, <3>2 DEF IInv, LeadAgrees
    <3> QED BY <1>3, <2>4, <3>1, <3>2
  <2> QED BY <1>4, <2>2, <2>4 DEF LeadAgrees
<1>17. BytesIntact'
  BY <1>4 DEF IInv, BytesIntact
<1> QED BY <1>1, <1>7, <1>8, <1>9, <1>10, <1>11, <1>14, <1>15, <1>16, <1>17 DEF IInv

\* Publishing: the word of the commit's place becomes the chain's last one.
LEMMA PublishWords ==
    ASSUME IInv, CommitPublish, NEW s \in Segs, NEW n \in Seqs, s = wat.seg, n = wat.pos,
           NEW l \in Nat, l = Len(chain)
    PROVE  /\ \A t \in Segs : t # s => word'[t] = word[t]
           /\ word'[s][Slot(n)] = wword
           /\ \A i \in Slots : i # Slot(n) => word'[s][i] = word[s][i]
           /\ Len(chain') = l + 1 /\ chain'[l + 1] = wat
           /\ \A i \in 1 .. l : /\ chain'[i] = chain[i] /\ ChainWord(i)' = ChainWord(i)
                                /\ chain[i] # wat
                                /\ chain[i].seg = s => Slot(chain[i].pos) # Slot(n)
           /\ ChainWord(l + 1)' = wword
<1>1. Publishing
  BY DEF CommitPublish, Publishing
<1>2. Slot(n) \in Slots /\ word \in [Segs -> [Slots -> SegWord]]
  BY WindowSlots DEF IInv, TypeOK
<1>3. /\ word'[s][Slot(n)] = wword /\ \A t \in Segs : t # s => word'[t] = word[t]
      /\ \A i \in Slots : i # Slot(n) => word'[s][i] = word[s][i]
  BY <1>2 DEF CommitPublish
<1>4. chain \in Seq(Place) /\ wat \in Place /\ chain' = Append(chain, wat)
  BY DEF IInv, TypeOK, CommitPublish
<1>5. Len(chain') = l + 1 /\ chain'[l + 1] = wat /\ \A i \in 1 .. l : chain'[i] = chain[i]
  BY <1>4
<1>6. ASSUME NEW i \in 1 .. l
      PROVE  chain[i].seg = s => Slot(chain[i].pos) # Slot(n) /\ chain[i].pos # n
  BY <1>1, UnstoredPlace, ChainApart
<1>7. ASSUME NEW i \in 1 .. l
      PROVE  ChainWord(i)' = ChainWord(i)
  <2>1. chain[i].seg \in Segs /\ Slot(chain[i].pos) \in Slots
    BY ChainPlace
  <2>2. word'[chain[i].seg][Slot(chain[i].pos)] = word[chain[i].seg][Slot(chain[i].pos)]
    BY <1>3, <1>6, <2>1
  <2> QED BY <1>5, <2>2 DEF ChainWord, WordAt
<1>8. ChainWord(l + 1)' = wword
  BY <1>3, <1>5 DEF ChainWord, WordAt
<1> QED BY <1>3, <1>5, <1>6, <1>7, <1>8

LEMMA PublishStep ==
    ASSUME IInv, CommitPublish
    PROVE  IInv'
<1>1. TypeOK'
  BY TypeKept DEF Next, ProducerNext
<1>2. Publishing /\ ~Publishing' /\ ppc' = "idle" /\ ppc = "publish"
  BY DEF CommitPublish, Publishing
<1>3. PICK s \in Segs, n \in Seqs, l \in Nat : s = wat.seg /\ n = wat.pos /\ l = Len(chain)
  BY DEF IInv, TypeOK, Place
<1>4. /\ \A t \in Segs : t # s => word'[t] = word[t]
      /\ word'[s][Slot(n)] = wword
      /\ \A i \in Slots : i # Slot(n) => word'[s][i] = word[s][i]
      /\ Len(chain') = l + 1 /\ chain'[l + 1] = wat
      /\ \A i \in 1 .. l : /\ chain'[i] = chain[i] /\ ChainWord(i)' = ChainWord(i)
                           /\ chain[i] # wat
                           /\ chain[i].seg = s => Slot(chain[i].pos) # Slot(n)
      /\ ChainWord(l + 1)' = wword
  BY <1>3, PublishWords
<1>5. UNCHANGED <<buf, given, pcur, ppos, presume, taken, claimable, wmsg, wat, wword, ccur, cpos,
                  cresume, cpc, rword, got, switchLead>>
  BY DEF CommitPublish, consVars
<1>6. /\ Unread(s) \in 1 .. M /\ Unread(s) - 1 \in 0 .. M - 1 /\ CPos(s) \in Seqs
      /\ n = At(CPos(s), Unread(s) - 1) /\ word[s][Slot(n)] = Plain(n) /\ Unstored(s) = {n}
      /\ Unread(s) \in Nat
  BY <1>2, <1>3, UnstoredPlace, SegPositions DEF IInv, WordAt
<1>7. /\ wword.seq = CommitSeq(n) /\ PPos(s) = seq_of(n + 1)
      /\ wword.moved = NoSeg => s = pcur
      /\ wword.moved # NoSeg => /\ wword.moved = pcur /\ s # pcur
                                /\ pcur # ccur /\ ppos = cresume[pcur]
  BY <1>2, <1>3 DEF IInv, CommitAgrees
<1>8. InUse' = InUse
  BY <1>5 DEF InUse
<1>9. \A t \in Segs : /\ PPos(t)' = PPos(t) /\ CPos(t)' = CPos(t) /\ Unread(t)' = Unread(t)
                      /\ Unstored(t)' = {}
  BY <1>2, <1>5 DEF PPos, CPos, Unread, Unstored
<1>10. BitsAgree'
  BY <1>5, <1>8 DEF IInv, BitsAgree
<1>11. Window(word'[s], CPos(s), Unread(s), {}, s, pcur) /\ Stored(word'[s], CPos(s), Unread(s), n)
  <2>1. Window(word[s], CPos(s), Unread(s), {n}, s, pcur)
    BY <1>6 DEF IInv, WindowAgrees
  <2>2. PICK c \in Seqs, u \in 1 .. M : c = CPos(s) /\ u = Unread(s) /\ n = At(c, u - 1)
    BY <1>6
  <2>3. Window(word[s], c, u, {n}, s, pcur)
    BY <2>1, <2>2
  <2>4. wword.moved # NoSeg => s # pcur
    BY <1>7
  <2>5. Window(word'[s], c, u, {}, s, pcur) /\ Stored(word'[s], c, u, n)
    <3>1. PICK e : /\ e = word'[s] /\ e[Slot(n)] = wword
                   /\ \A i \in Slots : i # Slot(n) => e[i] = word[s][i]
      BY <1>4
    <3>2. wword.seq = CommitSeq(n) /\ n = At(c, u - 1)
      BY <1>7, <2>2
    <3> QED BY <2>3, <2>4, <3>1, <3>2, WindowStore
  <2> QED BY <2>2, <2>5
<1>12. WindowAgrees'
  <2> SUFFICES ASSUME NEW t \in Segs
               PROVE  Window(word'[t], CPos(t)', Unread(t)', Unstored(t)', t, pcur)
    BY <1>5 DEF WindowAgrees
  <2>1. CASE t = s
    BY <1>9, <1>11, <2>1
  <2>2. CASE t # s
    <3>1. Unstored(t) = {} /\ word'[t] = word[t]
      BY <1>3, <1>4, <2>2 DEF Unstored
    <3>2. Window(word[t], CPos(t), Unread(t), {}, t, pcur)
      BY <3>1 DEF IInv, WindowAgrees
    <3> QED BY <1>9, <3>1, <3>2
  <2> QED BY <2>1, <2>2
<1>13. WriteAgrees'
  <2> SUFFICES ASSUME claimable = TRUE
               PROVE  WordAt(pcur, ppos)' = Plain(ppos)
    BY <1>2, <1>5 DEF WriteAgrees
  <2>1. WordAt(pcur, ppos) = Plain(ppos) /\ pcur \in Segs /\ Slot(ppos) \in Slots
    BY WindowSlots DEF IInv, WriteAgrees, TypeOK
  <2>2. CASE pcur = s
    <3>1. Unread(s) \in 0 .. M - 1 /\ ppos = At(CPos(s), Unread(s)) /\ Unread(s) # Unread(s) - 1
      BY <1>6, <2>2, ClaimablePlace
    <3>2. Slot(ppos) # Slot(n)
      BY <1>6, <3>1, WindowSlots
    <3> QED BY <1>4, <1>5, <2>1, <2>2, <3>2 DEF WordAt
  <2>3. CASE pcur # s
    BY <1>4, <1>5, <2>1, <2>3 DEF WordAt
  <2> QED BY <2>2, <2>3
<1>14. CommitAgrees'
  BY <1>2 DEF CommitAgrees
<1>15. ReadAgrees'
  <2>1. ASSUME cpc \in {"reading", "half", "read"}
        PROVE  WordAt(ccur, cpos)' = WordAt(ccur, cpos)
    <3>1. 1 \in 1 .. l /\ chain[1].seg = ccur /\ chain[1].pos = cpos
      BY <1>3, <2>1, ReadHead
    <3>2. ChainWord(1)' = ChainWord(1) /\ chain'[1] = chain[1]
      BY <1>4, <3>1
    <3> QED BY <1>5, <3>1, <3>2 DEF ChainWord, WordAt
  <2> QED BY <1>5, <1>8, <2>1 DEF IInv, ReadAgrees
<1>16. ChainLinked'
  <2>1. ConsPlace' = ConsPlace /\ ProdPlace = wat /\ ProdPlace' = [seg |-> pcur, pos |-> ppos]
    BY <1>2, <1>5 DEF ConsPlace, ProdPlace
  <2>2. After(wat, wword, cresume) = [seg |-> pcur, pos |-> ppos]
    BY <1>3, <1>7 DEF After, PPos
  <2>3. chain' # <<>> /\ l + 1 # l
    BY <1>1, <1>4 DEF TypeOK
  <2>4. chain'[1] = ConsPlace
    <3>1. CASE chain = <<>>
      <4>1. l = 0
        BY <1>3, <3>1
      <4> QED BY <1>4, <2>1, <3>1, <4>1 DEF IInv, ChainLinked
    <3>2. CASE chain # <<>>
      <4>1. 1 \in 1 .. l
        BY <1>3, <3>2 DEF IInv, TypeOK
      <4> QED BY <1>4, <3>2, <4>1 DEF IInv, ChainLinked
    <3> QED BY <3>1, <3>2
  <2>5. ASSUME NEW i \in 1 .. l + 1
        PROVE  After(chain'[i], ChainWord(i)', cresume) =
                   IF i = l + 1 THEN ProdPlace' ELSE chain'[i + 1]
    <3>1. CASE i = l + 1
      BY <1>4, <2>1, <2>2, <3>1
    <3>2. CASE i = l
      <4>1. i \in 1 .. l /\ i # l + 1
        BY <3>2
      <4>2. After(chain[i], ChainWord(i), cresume) = wat
        BY <1>3, <2>1, <3>2, <4>1 DEF IInv, ChainLinked
      <4> QED BY <1>4, <3>2, <4>1, <4>2
    <3>3. CASE i # l /\ i # l + 1
      <4>1. i \in 1 .. l /\ i + 1 \in 1 .. l
        BY <3>3
      <4>2. After(chain[i], ChainWord(i), cresume) = chain[i + 1]
        BY <1>3, <3>3, <4>1 DEF IInv, ChainLinked
      <4> QED BY <1>4, <3>3, <4>1, <4>2
    <3> QED BY <3>1, <3>2, <3>3
  <2> QED BY <1>4, <1>5, <2>1, <2>3, <2>4, <2>5 DEF ChainLinked
<1>17. ChainUnread'
  <2>1. ASSUME NEW i \in 1 .. l + 1, NEW t \in Segs, t = chain'[i].seg
        PROVE  Stored(word'[t], CPos(t)', Unread(t)', chain'[i].pos)
    <3>1. CASE i = l + 1
      BY <1>3, <1>4, <1>9, <1>11, <2>1, <3>1
    <3>2. CASE i # l + 1
      <4>1. i \in 1 .. l
        BY <3>2
      <4>2. chain'[i] = chain[i] /\ t = chain[i].seg
        BY <1>4, <2>1, <4>1
      <4>3. Stored(word[t], CPos(t), Unread(t), chain[i].pos)
        BY <1>3, <4>1, <4>2 DEF IInv, ChainUnread
      <4>4. Stored(word'[t], CPos(t), Unread(t), chain[i].pos)
        <5>1. CASE t = s
          BY <1>4, <1>6, <4>3, <5>1, StoredStore
        <5>2. CASE t # s
          BY <1>4, <4>3, <5>2
        <5> QED BY <5>1, <5>2
      <4> QED BY <1>9, <4>2, <4>4
    <3> QED BY <3>1, <3>2
  <2>2. ASSUME NEW i \in 1 .. l + 1, ChainWord(i)'.moved # NoSeg
        PROVE  ChainWord(i)'.moved \in InUse \ {ccur}
    <3>1. CASE i = l + 1
      BY <1>4, <1>7, <2>2, <3>1 DEF IInv, BitsAgree
    <3>2. CASE i # l + 1
      <4>1. i \in 1 .. l
        BY <3>2
      <4> QED BY <1>3, <1>4, <2>2, <4>1 DEF IInv, ChainUnread
    <3> QED BY <3>1, <3>2
  <2>3. ASSUME NEW i \in 1 .. l + 1, NEW j \in 1 .. l + 1, chain'[i] = chain'[j]
        PROVE  i = j
    <3>1. CASE i \in 1 .. l /\ j \in 1 .. l
      BY <1>3, <1>4, <2>3, <3>1 DEF IInv, ChainUnread
    <3>2. CASE i = l + 1 /\ j \in 1 .. l
      BY <1>4, <2>3, <3>2
    <3>3. CASE i \in 1 .. l /\ j = l + 1
      BY <1>4, <2>3, <3>3
    <3> QED BY <3>1, <3>2, <3>3
  <2>4. \A i \in 1 .. l + 1 : chain'[i].seg \in Segs
    <3>1. chain' \in Seq(Place)
      BY <1>1 DEF TypeOK
    <3>2. \A i \in 1 .. l + 1 : chain'[i] \in Place
      BY <1>4, <3>1, ElementOfSeq
    <3> QED BY <3>2 DEF Place
  <2>5. \A i \in 1 .. l + 1 :
           LET t == chain[i].seg IN Stored(word[t], CPos(t), Unread(t), chain[i].pos)'
    BY <2>1, <2>4
  <2> QED BY <1>4, <1>5, <1>8, <2>2, <2>3, <2>5 DEF ChainUnread
<1>18. LeadAgrees'
  <2>1. \A t \in InUse \ {ccur} :
          \/ cpc = "giving" /\ rword.moved = t
          \/ \E i \in 1 .. l + 1 : ChainWord(i)'.moved = t
    <3> SUFFICES ASSUME NEW t \in InUse \ {ccur}, ~(cpc = "giving" /\ rword.moved = t)
                 PROVE  \E i \in 1 .. l + 1 : ChainWord(i)'.moved = t
      OBVIOUS
    <3>1. wword.moved = t \/ \E i \in 1 .. l : ChainWord(i).moved = t
      BY <1>3 DEF IInv, LeadAgrees
    <3>2. l + 1 \in 1 .. l + 1 /\ \A i \in 1 .. l : i \in 1 .. l + 1
      OBVIOUS
    <3> QED BY <1>4, <3>1, <3>2
  <2>2. switchLead' = Cardinality(InUse') - 1
    BY <1>5, <1>8 DEF IInv, LeadAgrees
  <2> QED BY <1>4, <1>5, <1>8, <2>1, <2>2 DEF LeadAgrees
<1>19. BytesIntact'
  <2>1. ASSUME NEW i \in 1 .. l + 1
        PROVE  LET b == buf[chain'[i].seg][Slot(chain'[i].pos)] IN b.lo \in Msg /\ b.hi = b.lo
    <3>1. CASE i = l + 1
      BY <1>2, <1>4, <3>1 DEF IInv, BytesIntact
    <3>2. CASE i # l + 1
      <4>1. i \in 1 .. l
        BY <3>2
      <4> QED BY <1>3, <1>4, <4>1 DEF IInv, BytesIntact
    <3> QED BY <3>1, <3>2
  <2>2. /\ cpc \in {"half", "read"} => got.lo = buf[ccur][Slot(cpos)].lo
        /\ cpc = "read" => got.hi = buf[ccur][Slot(cpos)].hi
    BY DEF IInv, BytesIntact
  <2> QED BY <1>2, <1>4, <1>5, <2>1, <2>2 DEF BytesIntact
<1> QED BY <1>1, <1>10, <1>12, <1>13, <1>14, <1>15, <1>16, <1>17, <1>18, <1>19 DEF IInv

\* A release: the chain's first place leaves it, and its slot is claimable.
LEMMA ReleaseWords ==
    ASSUME IInv, ReleaseSeq, NEW s \in Segs, NEW n \in Seqs, s = ccur, n = cpos,
           NEW l \in Nat, l = Len(chain)
    PROVE  /\ \A t \in Segs : t # s => word'[t] = word[t]
           /\ word'[s][Slot(n)] = Plain(At(n, M))
           /\ \A i \in Slots : i # Slot(n) => word'[s][i] = word[s][i]
           /\ l > 0 /\ Len(chain') = l - 1 /\ \A i \in 1 .. l - 1 : chain'[i] = chain[i + 1]
           /\ chain[1] = [seg |-> s, pos |-> n] /\ ChainWord(1) = rword
           /\ word[s][Slot(n)].seq = CommitSeq(n) /\ word[s][Slot(n)] = rword
<1>1. /\ chain # <<>> /\ 1 \in 1 .. Len(chain) /\ chain[1] = [seg |-> s, pos |-> n]
      /\ ChainWord(1) = rword /\ WordAt(s, n).seq = CommitSeq(n)
  BY ReadHead DEF ReleaseSeq
<1>2. rword = WordAt(s, n)
  BY DEF IInv, ReadAgrees, ReleaseSeq
<1>3. Slot(n) \in Slots /\ word \in [Segs -> [Slots -> SegWord]]
  BY WindowSlots DEF IInv, TypeOK
<1>4. word' = [word EXCEPT ![s][Slot(n)] = Plain(At(n, M))]
  BY PlainWord DEF ReleaseSeq
<1>5. chain \in Seq(Place) /\ chain' = Tail(chain) /\ l > 0
  BY <1>1 DEF IInv, TypeOK, ReleaseSeq
<1>6. Len(chain') = l - 1 /\ \A i \in 1 .. l - 1 : chain'[i] = chain[i + 1]
  BY <1>5
<1> QED BY <1>1, <1>2, <1>3, <1>4, <1>5, <1>6 DEF WordAt

\* The segment's window moves on by one, the others stay.
LEMMA ReleasePositions ==
    ASSUME IInv, ReleaseSeq, NEW s \in Segs, NEW n \in Seqs, s = ccur, n = cpos
    PROVE  /\ \A t \in Segs : /\ PPos(t)' = PPos(t) /\ Unstored(t)' = Unstored(t)
                              /\ t # s => CPos(t)' = CPos(t) /\ Unread(t)' = Unread(t)
           /\ CPos(s) = n /\ CPos(s)' = At(n, 1) /\ Unread(s) \in Nat /\ Unread(s) > 0
           /\ Unread(s)' = Unread(s) - 1 /\ n \notin Unstored(s)
           /\ Window(word'[s], At(n, 1), Unread(s) - 1, Unstored(s), s, pcur)
           /\ rword.moved # NoSeg => Unread(s) = 1 /\ s # pcur
<1>1. PICK l \in Nat : l = Len(chain)
  BY DEF IInv, TypeOK
<1>2. /\ word'[s][Slot(n)] = Plain(At(n, M))
      /\ \A i \in Slots : i # Slot(n) => word'[s][i] = word[s][i]
      /\ word[s][Slot(n)].seq = CommitSeq(n) /\ word[s][Slot(n)] = rword
  BY <1>1, ReleaseWords
<1>3. /\ UNCHANGED <<ppc, pcur, ppos, presume, wat, ccur, cresume>> /\ cpos' = seq_of(n + 1)
  BY DEF ReleaseSeq, prodVars
<1>4. \A t \in Segs : /\ PPos(t)' = PPos(t) /\ Unstored(t)' = Unstored(t)
                      /\ t # s => CPos(t)' = CPos(t) /\ Unread(t)' = Unread(t)
  BY <1>3 DEF PPos, CPos, Unread, Unstored, Publishing
<1>5. CPos(s) = n /\ CPos(s)' = At(n, 1)
  BY <1>3 DEF CPos, At
<1>6. Unread(s) \in Nat /\ PPos(s) \in Seqs
  BY SegPositions DEF IInv
<1>7. Window(word[s], n, Unread(s), Unstored(s), s, pcur)
  BY <1>5 DEF IInv, WindowAgrees
<1>8. /\ Unread(s) > 0 /\ n \notin Unstored(s)
      /\ Window(word'[s], At(n, 1), Unread(s) - 1, Unstored(s), s, pcur)
      /\ rword.moved # NoSeg => Unread(s) = 1 /\ s # pcur
  <2>1. PICK wd, e : wd = word[s] /\ e = word'[s]
    OBVIOUS
  <2>2. /\ e[Slot(n)] = Plain(At(n, M)) /\ \A i \in Slots : i # Slot(n) => e[i] = wd[i]
        /\ wd[Slot(n)].seq = CommitSeq(n) /\ wd[Slot(n)] = rword
        /\ Window(wd, n, Unread(s), Unstored(s), s, pcur)
    BY <1>2, <1>7, <2>1
  <2>3. /\ Unread(s) > 0 /\ n \notin Unstored(s)
        /\ Window(e, At(n, 1), Unread(s) - 1, Unstored(s), s, pcur)
        /\ wd[Slot(n)].moved # NoSeg => Unread(s) = 1 /\ s # pcur
    BY <1>6, <2>2, WindowRelease
  <2> QED BY <2>1, <2>2, <2>3
<1>9. Unread(s)' = Unread(s) - 1
  <2>1. PICK p \in Seqs : p = PPos(s) /\ p = PPos(s)'
    BY <1>4, <1>6
  <2>2. Unread(s) = (p - n) % W /\ Unread(s)' = (p - ((n + 1) % W)) % W
    BY <1>5, <2>1 DEF Unread, At, seq_of
  <2>3. W \in Nat \ {0} /\ p \in 0 .. W - 1 /\ n \in 0 .. W - 1
    BY Ranges DEF Seqs
  <2>4. (p - n) % W > 0
    BY <1>8, <2>2, Zenon
  <2>5. (p - ((n + 1) % W)) % W = ((p - n) % W) - 1
    BY <2>3, <2>4, DistanceDown, Zenon
  <2> QED BY <2>2, <2>5, Zenon
<1> QED BY <1>4, <1>5, <1>6, <1>8, <1>9

LEMMA ReleaseStep ==
    ASSUME IInv, ReleaseSeq
    PROVE  IInv'
<1>1. TypeOK'
  BY TypeKept DEF Next, ConsumerNext
<1>2. PICK s \in Segs, n \in Seqs, l \in Nat : s = ccur /\ n = cpos /\ l = Len(chain)
  BY DEF IInv, TypeOK
<1>3. /\ \A t \in Segs : t # s => word'[t] = word[t]
      /\ word'[s][Slot(n)] = Plain(At(n, M))
      /\ \A i \in Slots : i # Slot(n) => word'[s][i] = word[s][i]
      /\ l > 0 /\ Len(chain') = l - 1 /\ \A i \in 1 .. l - 1 : chain'[i] = chain[i + 1]
      /\ chain[1] = [seg |-> s, pos |-> n] /\ ChainWord(1) = rword
      /\ word[s][Slot(n)].seq = CommitSeq(n) /\ word[s][Slot(n)] = rword
  BY <1>2, ReleaseWords
<1>4. /\ \A t \in Segs : /\ PPos(t)' = PPos(t) /\ Unstored(t)' = Unstored(t)
                         /\ t # s => CPos(t)' = CPos(t) /\ Unread(t)' = Unread(t)
      /\ CPos(s) = n /\ CPos(s)' = At(n, 1) /\ Unread(s) \in Nat /\ Unread(s) > 0
      /\ Unread(s)' = Unread(s) - 1 /\ n \notin Unstored(s)
      /\ Window(word'[s], At(n, 1), Unread(s) - 1, Unstored(s), s, pcur)
      /\ rword.moved # NoSeg => Unread(s) = 1 /\ s # pcur
  BY <1>2, ReleasePositions
<1>5. /\ UNCHANGED <<buf, given, ppc, pcur, ppos, presume, taken, claimable, wmsg, wat, wword,
                     ccur, cresume, rword, switchLead>>
      /\ cpc = "read" /\ cpc' = IF rword.moved = NoSeg THEN "idle" ELSE "giving"
      /\ cpos' = At(n, 1)
  BY <1>2 DEF ReleaseSeq, prodVars, At
<1>6. InUse' = InUse /\ (Publishing' <=> Publishing)
  BY <1>5 DEF InUse, Publishing
<1>7. BitsAgree'
  BY <1>5, <1>6 DEF IInv, BitsAgree
<1>8. WindowAgrees'
  <2> SUFFICES ASSUME NEW t \in Segs
               PROVE  Window(word'[t], CPos(t)', Unread(t)', Unstored(t)', t, pcur)
    BY <1>5 DEF WindowAgrees
  <2>1. CASE t = s
    BY <1>4, <2>1
  <2>2. CASE t # s
    <3>1. Window(word[t], CPos(t), Unread(t), Unstored(t), t, pcur)
      BY DEF IInv, WindowAgrees
    <3> QED BY <1>3, <1>4, <2>2, <3>1
  <2> QED BY <2>1, <2>2
<1>9. WriteAgrees'
  <2>1. ASSUME claimable = TRUE
        PROVE  WordAt(pcur, ppos)' = Plain(ppos)
    <3>1. WordAt(pcur, ppos) = Plain(ppos) /\ pcur \in Segs /\ Slot(ppos) \in Slots
      BY <2>1, WindowSlots DEF IInv, WriteAgrees, TypeOK
    <3>2. 1 \in 1 .. Len(chain) /\ chain[1].seg = s /\ chain[1].pos = n
      BY <1>2, <1>3
    <3>3. pcur = s => Slot(ppos) # Slot(n)
      BY <2>1, <3>2, GuardApart
    <3> QED BY <1>3, <1>5, <3>1, <3>3 DEF WordAt
  <2> QED BY <1>5, <2>1 DEF IInv, WriteAgrees
<1>10. CommitAgrees'
  <2> SUFFICES ASSUME Publishing
               PROVE  CommitAgrees'
    BY <1>6 DEF CommitAgrees
  <2>1. PICK t \in Segs, m \in Seqs : t = wat.seg /\ m = wat.pos
    BY UnstoredPlace
  <2>2. /\ PPos(t) = seq_of(m + 1) /\ wword.seq = CommitSeq(m) /\ Unread(t) > 0
    BY <2>1 DEF IInv, CommitAgrees
  <2>3. Unread(t)' > 0
    <3>1. CASE t = s
      <4>1. m = At(n, Unread(s) - 1) /\ m # n
        BY <1>4, <2>1, <3>1, UnstoredPlace
      <4>2. At(n, 0) = n
        BY WindowSlots
      <4>3. Unread(s) - 1 # 0
        BY <4>1, <4>2
      <4> QED BY <1>4, <3>1, <4>3
    <3>2. CASE t # s
      BY <1>4, <2>2, <3>2
    <3> QED BY <3>1, <3>2
  <2>4. PPos(wat.seg)' = seq_of(m + 1) /\ Unread(wat.seg)' > 0
    BY <1>4, <1>5, <2>1, <2>2, <2>3
  <2> QED BY <1>5, <2>1, <2>2, <2>4 DEF IInv, CommitAgrees
<1>11. ReadAgrees'
  <2> SUFFICES ASSUME rword.moved # NoSeg
               PROVE  /\ rword.moved \in InUse /\ rword.moved # ccur /\ ccur # pcur
                      /\ presume[ccur] = At(n, 1)
    BY <1>5, <1>6 DEF ReadAgrees
  <2>1. 1 \in 1 .. Len(chain)
    BY <1>2, <1>3
  <2>2. rword.moved \in InUse \ {ccur}
    BY <1>3, <2>1 DEF IInv, ChainUnread
  <2>3. PPos(s) = At(n, 1)
    BY <1>4, SegPositions DEF IInv
  <2> QED BY <1>2, <1>4, <2>2, <2>3 DEF PPos
<1>12. ASSUME NEW i \in 1 .. l - 1
       PROVE  /\ i + 1 \in 1 .. l /\ ChainWord(i)' = ChainWord(i + 1)
              /\ \A t \in Segs : t = chain[i + 1].seg =>
                    Stored(word'[t], CPos(t)', Unread(t)', chain[i + 1].pos)
  <2>1. i + 1 \in 1 .. l /\ 1 \in 1 .. l /\ i + 1 # 1
    BY <1>3
  <2>2. PICK t \in Segs, m \in Seqs : t = chain[i + 1].seg /\ m = chain[i + 1].pos /\ Slot(m) \in Slots
                                      /\ Stored(word[t], CPos(t), Unread(t), m)
                                      /\ chain[i + 1] = [seg |-> t, pos |-> m]
    BY <1>2, <2>1, ChainPlace
  <2>3. t = s => m # n
    <3>1. chain[i + 1] # chain[1]
      BY <1>2, <2>1 DEF IInv, ChainUnread
    <3> QED BY <1>3, <2>2, <3>1
  <2>4. Stored(word'[t], CPos(t)', Unread(t)', m) /\ word'[t][Slot(m)] = word[t][Slot(m)]
    <3>1. CASE t = s
      <4>1. Stored(word'[s], At(n, 1), Unread(s) - 1, m) /\ word'[s][Slot(m)] = word[s][Slot(m)]
        <5>1. PICK wd, e : /\ wd = word[s] /\ e = word'[s]
                           /\ \A j \in Slots : j # Slot(n) => e[j] = wd[j]
          BY <1>3
        <5>2. Stored(wd, n, Unread(s), m) /\ m # n /\ Unread(s) \in Nat
          BY <1>4, <2>2, <2>3, <3>1, <5>1
        <5>3. Stored(e, At(n, 1), Unread(s) - 1, m) /\ e[Slot(m)] = wd[Slot(m)]
          BY <5>1, <5>2, StoredRelease
        <5> QED BY <5>1, <5>3
      <4> QED BY <1>4, <3>1, <4>1
    <3>2. CASE t # s
      BY <1>3, <1>4, <2>2, <3>2
    <3> QED BY <3>1, <3>2
  <2>5. ChainWord(i)' = ChainWord(i + 1)
    BY <1>3, <2>2, <2>4 DEF ChainWord, WordAt
  <2> QED BY <2>1, <2>2, <2>4, <2>5
<1>13. ChainLinked'
  <2>1. ProdPlace' = ProdPlace
    BY <1>5, <1>6 DEF ProdPlace
  <2>2. ConsPlace' = After(chain[1], ChainWord(1), cresume)
    BY <1>2, <1>3, <1>5 DEF ConsPlace, After, At
  <2>3. ConsPlace' = IF l = 1 THEN ProdPlace ELSE chain[2]
    <3>1. 1 \in 1 .. Len(chain) /\ 1 + 1 = 2
      BY <1>2, <1>3
    <3> QED BY <1>2, <2>2, <3>1 DEF IInv, ChainLinked
  <2>4. chain' = <<>> => ConsPlace' = ProdPlace'
    <3> SUFFICES ASSUME chain' = <<>>
                 PROVE  l = 1
      BY <2>1, <2>3
    <3> QED BY <1>3
  <2>5. chain' # <<>> => chain'[1] = ConsPlace'
    <3> SUFFICES ASSUME chain' # <<>>
                 PROVE  chain'[1] = ConsPlace'
      OBVIOUS
    <3>1. Len(chain') # 0
      BY <1>1 DEF TypeOK
    <3>2. l # 1 /\ 1 \in 1 .. l - 1 /\ 1 + 1 = 2
      BY <1>3, <3>1
    <3> QED BY <1>3, <2>3, <3>2
  <2>6. ASSUME NEW i \in 1 .. l - 1
        PROVE  After(chain'[i], ChainWord(i)', cresume) =
                   IF i = l - 1 THEN ProdPlace ELSE chain'[i + 1]
    <3>1. After(chain[i + 1], ChainWord(i + 1), cresume) =
                   IF i + 1 = l THEN ProdPlace ELSE chain[(i + 1) + 1]
      BY <1>2, <1>12 DEF IInv, ChainLinked
    <3>2. i + 1 = l <=> i = l - 1
      OBVIOUS
    <3>3. i # l - 1 => i + 1 \in 1 .. l - 1
      OBVIOUS
    <3> QED BY <1>3, <1>12, <3>1, <3>2, <3>3
  <2> QED BY <1>3, <1>5, <2>1, <2>4, <2>5, <2>6 DEF ChainLinked
<1>14. ChainUnread'
  <2>1. ASSUME NEW i \in 1 .. l - 1
        PROVE  LET t == chain[i].seg IN Stored(word[t], CPos(t), Unread(t), chain[i].pos)'
    <3>1. chain[i + 1].seg \in Segs
      BY <1>2, <1>12, ChainPlace
    <3> QED BY <1>3, <1>12, <3>1
  <2>2. ASSUME NEW i \in 1 .. l - 1, ChainWord(i)'.moved # NoSeg
        PROVE  ChainWord(i)'.moved \in InUse \ {ccur}
    BY <1>2, <1>12, <2>2 DEF IInv, ChainUnread
  <2>3. ASSUME NEW i \in 1 .. l - 1, NEW j \in 1 .. l - 1, chain'[i] = chain'[j]
        PROVE  i = j
    <3>1. chain[i + 1] = chain[j + 1]
      BY <1>3, <2>3
    <3>2. i + 1 \in 1 .. l /\ j + 1 \in 1 .. l
      BY <1>12
    <3>3. i + 1 = j + 1
      BY <1>2, <3>1, <3>2 DEF IInv, ChainUnread
    <3> QED BY <3>3
  <2> QED BY <1>3, <1>5, <1>6, <2>1, <2>2, <2>3 DEF ChainUnread
<1>15. LeadAgrees'
  <2>1. ASSUME NEW t \in InUse \ {ccur}
        PROVE  \/ cpc' = "giving" /\ rword.moved = t
               \/ Publishing /\ wword.moved = t
               \/ \E i \in 1 .. l - 1 : ChainWord(i)'.moved = t
    <3>1. CASE Publishing /\ wword.moved = t
      BY <3>1
    <3>2. CASE \E i \in 1 .. l : ChainWord(i).moved = t
      <4>1. PICK i \in 1 .. l : ChainWord(i).moved = t
        BY <3>2
      <4>2. CASE i = 1
        <5>1. t # NoSeg
          BY InUseFinite, Ranges DEF IInv
        <5> QED BY <1>3, <1>5, <4>1, <4>2, <5>1
      <4>3. CASE i # 1
        <5>1. i - 1 \in 1 .. l - 1 /\ (i - 1) + 1 = i
          BY <4>3
        <5>2. ChainWord(i - 1)' = ChainWord(i)
          BY <1>12, <5>1
        <5> QED BY <4>1, <5>1, <5>2
      <4> QED BY <4>2, <4>3
    <3> QED BY <1>2, <1>5, <3>1, <3>2 DEF IInv, LeadAgrees
  <2>2. switchLead' = Cardinality(InUse') - 1
    BY <1>5, <1>6 DEF IInv, LeadAgrees
  <2> QED BY <1>3, <1>5, <1>6, <2>1, <2>2 DEF LeadAgrees
<1>16. BytesIntact'
  <2>1. ASSUME NEW i \in 1 .. l - 1
        PROVE  LET b == buf[chain'[i].seg][Slot(chain'[i].pos)] IN b.lo \in Msg /\ b.hi = b.lo
    BY <1>2, <1>3, <1>12 DEF IInv, BytesIntact
  <2>2. cpc' \notin {"half", "read"}
    BY <1>5
  <2> QED BY <1>3, <1>5, <1>6, <2>1, <2>2 DEF IInv, BytesIntact
<1> QED BY <1>1, <1>7, <1>8, <1>9, <1>10, <1>11, <1>13, <1>14, <1>15, <1>16 DEF IInv

\* The producer's place is none of the chain's.
LEMMA ProducerApart ==
    ASSUME IInv, NEW i \in 1 .. Len(chain)
    PROVE  chain[i] # ProdPlace
<1>1. PICK s \in Segs, n \in Seqs : /\ s = chain[i].seg /\ n = chain[i].pos
                                    /\ Stored(word[s], CPos(s), Unread(s), n)
  BY ChainPlace
<1>2. CASE Publishing
  BY <1>1, <1>2, UnstoredPlace, ChainApart DEF ProdPlace
<1>3. CASE ~Publishing
  <2> SUFFICES ASSUME s = pcur, n = ppos
               PROVE  FALSE
    BY <1>1, <1>3 DEF ProdPlace
  <2>1. CPos(s) \in Seqs /\ Unread(s) \in Nat /\ PPos(s) = n /\ n = At(CPos(s), Unread(s))
    BY SegPositions DEF IInv, PPos
  <2>2. PICK k \in 0 .. M - 1 : k < Unread(s) /\ n = At(CPos(s), k)
    BY <1>1 DEF Stored
  <2>3. Unread(s) <= M
    BY DEF IInv, WindowAgrees, Window
  <2>4. /\ k \in 0 .. W - 1 /\ Unread(s) \in 0 .. W - 1 /\ CPos(s) \in Int /\ W \in Nat \ {0}
        /\ k # Unread(s)
    BY <2>1, <2>2, <2>3, Ranges DEF Seqs
  <2>5. (CPos(s) + k) % W = (CPos(s) + Unread(s)) % W
    BY <2>1, <2>2 DEF At, seq_of
  <2> QED BY <2>4, <2>5, OffsetInjective, Zenon
<1> QED BY <1>2, <1>3

\* No word on the way names the segment the consumer goes on in: it would lead
\* back to where the chain begins.
LEMMA NamedOnce ==
    ASSUME IInv, cpc = "giving"
    PROVE  /\ \A i \in 1 .. Len(chain) : ChainWord(i).moved # rword.moved
           /\ Publishing => wword.moved # rword.moved
<1>1. PICK r \in Segs : r = rword.moved /\ r # ccur /\ r # NoSeg
  BY InUseFinite, Ranges DEF IInv, ReadAgrees
<1>2. ConsPlace = [seg |-> r, pos |-> cresume[r]]
  BY <1>1 DEF ConsPlace
<1>3. ASSUME NEW i \in 1 .. Len(chain), ChainWord(i).moved = r
      PROVE  FALSE
  <2>1. After(chain[i], ChainWord(i), cresume) = ConsPlace
    BY <1>1, <1>2, <1>3 DEF After
  <2>2. chain # <<>> /\ 1 \in 1 .. Len(chain)
    BY <1>3 DEF IInv, TypeOK
  <2>3. chain[1] = ConsPlace
    BY <2>2 DEF IInv, ChainLinked
  <2>4. CASE i = Len(chain)
    <3>1. chain[1] = ProdPlace
      BY <2>1, <2>3, <2>4 DEF IInv, ChainLinked
    <3> QED BY <2>2, <3>1, ProducerApart
  <2>5. CASE i # Len(chain)
    <3>1. chain[i + 1] = chain[1]
      BY <2>1, <2>3, <2>5 DEF IInv, ChainLinked
    <3>2. i + 1 \in 1 .. Len(chain) /\ i + 1 # 1
      BY <2>5 DEF IInv, TypeOK
    <3> QED BY <2>2, <3>1, <3>2 DEF IInv, ChainUnread
  <2> QED BY <2>4, <2>5
<1>4. ASSUME Publishing, wword.moved = r
      PROVE  FALSE
  <2>1. r = pcur /\ wat.seg # r /\ ppos = cresume[r]
    BY <1>1, <1>4 DEF IInv, CommitAgrees
  <2>2. Unread(r) = 0
    <3>1. PPos(r) = CPos(r)
      BY <1>1, <2>1 DEF PPos, CPos
    <3> QED BY <3>1, SegPositions DEF IInv
  <2>3. CASE chain = <<>>
    <3>1. ConsPlace = wat
      BY <1>4, <2>3 DEF IInv, ChainLinked, ProdPlace
    <3> QED BY <1>2, <2>1, <3>1
  <2>4. CASE chain # <<>>
    <3>1. 1 \in 1 .. Len(chain) /\ chain[1].seg = r
      BY <1>2, <2>4 DEF IInv, ChainLinked, TypeOK
    <3>2. Stored(word[r], CPos(r), 0, chain[1].pos)
      BY <2>2, <3>1, ChainPlace
    <3>3. \A k \in 0 .. M - 1 : ~(k < 0)
      OBVIOUS
    <3> QED BY <3>2, <3>3 DEF Stored
  <2> QED BY <2>3, <2>4
<1> QED BY <1>1, <1>3, <1>4

LEMMA GiveStep ==
    ASSUME IInv, GiveBack
    PROVE  IInv'
<1>1. TypeOK'
  BY TypeKept DEF Next, ConsumerNext
<1>2. PICK s \in Segs, n \in Seqs, r \in Segs : s = ccur /\ n = cpos /\ r = rword.moved
  BY InUseFinite DEF IInv, TypeOK, ReadAgrees, GiveBack
<1>3. /\ r \in InUse /\ r # s /\ s # pcur /\ presume[s] = n /\ s \in InUse
  BY <1>2 DEF IInv, ReadAgrees, BitsAgree, GiveBack
<1>4. /\ cpc = "giving" /\ cpc' = "idle" /\ ccur' = r
      /\ cresume' = [cresume EXCEPT ![s] = n] /\ cpos' = cresume'[r]
      /\ switchLead' = switchLead - 1 /\ given' = Flip(cgiven, s)
      /\ UNCHANGED <<word, buf, ppc, pcur, ppos, presume, taken, claimable, wmsg, wat, wword,
                     rword, got, chain>>
  BY <1>2 DEF GiveBack, prodVars
<1>5. cresume \in [Segs -> Seqs]
  BY DEF IInv, TypeOK
<1>6. cresume'[s] = n /\ \A t \in Segs : t # s => cresume'[t] = cresume[t]
  BY <1>4, <1>5
<1>7. cpos' = cresume[r]
  BY <1>3, <1>4, <1>6
<1>8. InUse' = InUse \ {s}
  <2>1. cgiven = given
    BY DEF IInv, TypeOK
  <2> QED BY <1>3, <1>4, <2>1 DEF InUse, Flip, SymDiff
<1>9. Publishing' <=> Publishing
  BY <1>4 DEF Publishing
<1>10. \A t \in Segs : CPos(t)' = CPos(t)
  BY <1>2, <1>3, <1>4, <1>6, <1>7 DEF CPos
<1>11. \A t \in Segs : PPos(t)' = PPos(t) /\ Unstored(t)' = Unstored(t)
  BY <1>4, <1>9 DEF PPos, Unstored
<1>12. \A t \in Segs : Unread(t)' = Unread(t)
  BY <1>10, <1>11 DEF Unread
<1>13. /\ \A i \in 1 .. Len(chain) : ChainWord(i).moved # r
       /\ Publishing => wword.moved # r
  BY <1>2, <1>4, NamedOnce
<1>14. BitsAgree'
  <2>1. pcur \in InUse'
    BY <1>3, <1>8 DEF IInv, BitsAgree
  <2>2. ASSUME NEW t \in Segs, t \notin InUse'
        PROVE  presume[t] = cresume'[t]
    <3>1. CASE t = s
      BY <1>3, <1>6, <3>1
    <3>2. CASE t # s
      BY <1>6, <1>8, <2>2, <3>2 DEF IInv, BitsAgree
    <3> QED BY <3>1, <3>2
  <2> QED BY <1>3, <1>4, <1>8, <2>1, <2>2 DEF BitsAgree
<1>15. WindowAgrees'
  BY <1>4, <1>10, <1>11, <1>12 DEF IInv, WindowAgrees
<1>16. WriteAgrees'
  BY <1>4 DEF IInv, WriteAgrees, WordAt
<1>17. CommitAgrees'
  <2> SUFFICES ASSUME Publishing
               PROVE  CommitAgrees'
    BY <1>9 DEF CommitAgrees
  <2>1. wat.seg \in Segs /\ pcur \in Segs
    BY UnstoredPlace DEF IInv, TypeOK
  <2>2. PPos(wat.seg)' = PPos(wat.seg) /\ Unread(wat.seg)' = Unread(wat.seg)
    BY <1>4, <1>11, <1>12, <2>1
  <2>3. cresume'[pcur] = cresume[pcur]
    BY <1>3, <1>6, <2>1
  <2> QED BY <1>4, <1>13, <2>2, <2>3 DEF IInv, CommitAgrees
<1>18. ReadAgrees'
  BY <1>4 DEF ReadAgrees
<1>19. \A i \in 1 .. Len(chain) : ChainWord(i)' = ChainWord(i)
  BY <1>4 DEF ChainWord, WordAt
<1>20. \A i \in 1 .. Len(chain) :
          ChainWord(i).moved # NoSeg => ChainWord(i).moved \in InUse \ {s, r}
  BY <1>2, <1>13 DEF IInv, ChainUnread
<1>21. ChainLinked'
  <2>1. ConsPlace' = ConsPlace /\ ProdPlace' = ProdPlace
    BY <1>2, <1>4, <1>7, <1>9 DEF ConsPlace, ProdPlace
  <2>2. ASSUME NEW i \in 1 .. Len(chain)
        PROVE  After(chain[i], ChainWord(i), cresume') = After(chain[i], ChainWord(i), cresume)
    <3>1. ChainWord(i).moved # NoSeg => cresume'[ChainWord(i).moved] = cresume[ChainWord(i).moved]
      BY <1>6, <1>20, InUseFinite DEF IInv
    <3> QED BY <3>1 DEF After
  <2> QED BY <1>4, <1>19, <2>1, <2>2 DEF IInv, ChainLinked
<1>22. ChainUnread'
  <2>1. \A i \in 1 .. Len(chain) : chain[i].seg \in Segs
    BY ChainPlace
  <2>2. \A i \in 1 .. Len(chain) :
           LET t == chain[i].seg IN Stored(word[t], CPos(t)', Unread(t)', chain[i].pos)
    BY <1>4, <1>10, <1>12, <2>1 DEF IInv, ChainUnread
  <2> QED BY <1>4, <1>8, <1>19, <1>20, <2>2 DEF IInv, ChainUnread
<1>23. LeadAgrees'
  <2>1. Cardinality(InUse \ {s}) = Cardinality(InUse) - 1 /\ Cardinality(InUse) \in Nat
    BY <1>3, InUseFinite, FS_RemoveElement, FS_CardinalityType DEF IInv
  <2>2. switchLead' = Cardinality(InUse') - 1
    BY <1>4, <1>8, <2>1 DEF IInv, LeadAgrees
  <2>3. ASSUME NEW t \in InUse \ {s, r}
        PROVE  \/ Publishing /\ wword.moved = t
               \/ \E i \in 1 .. Len(chain) : ChainWord(i).moved = t
    BY <1>2 DEF IInv, LeadAgrees
  <2> QED BY <1>4, <1>8, <1>9, <1>19, <2>2, <2>3 DEF LeadAgrees
<1>24. BytesIntact'
  BY <1>4, <1>9 DEF IInv, BytesIntact
<1> QED BY <1>1, <1>14, <1>15, <1>16, <1>17, <1>18, <1>21, <1>22, <1>23, <1>24 DEF IInv

-----------------------------------------------------------------------------
(* The invariant.                                                          *)

LEMMA InitIInv == Init => IInv
<1> SUFFICES ASSUME Init
             PROVE  IInv
  OBVIOUS
<1>1. /\ 0 \in Segs /\ 0 \in Seqs /\ Plain(0) \in SegWord /\ EmptyPair \in Pair
      /\ \A i \in Slots : i \in Seqs /\ Claimable(i) = Plain(i) /\ Plain(i) \in SegWord
  <2>1. 0 \in Segs /\ 0 \in Seqs /\ \A i \in Slots : i \in Seqs
    BY GeometryAssumption DEF Segs, Seqs, Slots
  <2> QED BY <2>1, PlainWord DEF EmptyPair, Pair, Half
<1>2. TypeOK
  <2>1. \A s \in Segs : word[s] \in [Slots -> SegWord] /\ buf[s] \in [Slots -> Pair]
    BY <1>1 DEF Init
  <2>2. word \in [Segs -> [Slots -> SegWord]] /\ buf \in [Segs -> [Slots -> Pair]]
    BY <1>1 DEF Init
  <2>3. wat \in Place
    BY <1>1 DEF Init, Place
  <2>4. /\ taken \in SUBSET Segs /\ given \in SUBSET Segs /\ cgiven = given
        /\ pcur \in Segs /\ ppos \in Seqs /\ presume \in [Segs -> Seqs]
        /\ ccur \in Segs /\ cpos \in Seqs /\ cresume \in [Segs -> Seqs]
    BY <1>1 DEF Init
  <2>5. wmsg \in Half /\ wword \in SegWord /\ rword \in SegWord /\ got \in Pair
    BY <1>1 DEF Init, Half
  <2> QED BY <2>2, <2>3, <2>4, <2>5 DEF Init, TypeOK
<1>3. InUse = {0}
  BY DEF Init, InUse, SymDiff
<1>4. BitsAgree
  BY <1>3 DEF Init, BitsAgree
<1>5. \A s \in Segs : PPos(s) = 0 /\ CPos(s) = 0 /\ Unread(s) = 0 /\ Unstored(s) = {}
  <2>1. \A s \in Segs : PPos(s) = 0 /\ CPos(s) = 0
    BY DEF Init, PPos, CPos
  <2> QED BY <1>2, <2>1, SegPositions DEF Init, Unstored, Publishing
<1>6. \A k \in Slots : At(0, k) = k /\ Slot(k) = k
  <2>1. \A k \in Slots : 0 + k = k /\ k \in Seqs /\ k \in 0 .. M - 1
    BY <1>1 DEF Slots
  <2> QED BY <2>1, SeqOf, Ranges, ModSmall DEF At, Slot
<1>7. WindowAgrees
  <2> SUFFICES ASSUME NEW s \in Segs
               PROVE  Window(word[s], 0, 0, {}, s, pcur)
    BY <1>5 DEF WindowAgrees
  <2>1. \A k \in 0 .. M - 1 : ~(k < 0)
    OBVIOUS
  <2>2. \A k \in 0 .. M - 1 : word[s][Slot(At(0, k))] = Plain(At(0, k))
    BY <1>1, <1>6 DEF Init, Slots
  <2>3. 0 <= M
    BY Ranges
  <2> QED BY <2>1, <2>2, <2>3 DEF Window
<1>8. WriteAgrees /\ CommitAgrees /\ ReadAgrees
  BY DEF Init, WriteAgrees, CommitAgrees, ReadAgrees, Publishing
<1>9. ChainLinked /\ ChainUnread /\ BytesIntact
  BY DEF Init, ChainLinked, ChainUnread, BytesIntact, ConsPlace, ProdPlace, Publishing
<1>10. LeadAgrees
  <2>1. Cardinality(InUse) = 1
    BY <1>3, FS_Singleton, Zenon
  <2>2. InUse \ {ccur} = {} /\ switchLead = 0
    BY <1>3 DEF Init
  <2> QED BY <2>1, <2>2 DEF LeadAgrees
<1> QED BY <1>2, <1>4, <1>7, <1>8, <1>9, <1>10 DEF IInv

LEMMA StepIInv == IInv /\ [Next]_vars => IInv'
<1> SUFFICES ASSUME IInv, [Next]_vars
             PROVE  IInv'
  OBVIOUS
<1>1. CASE UNCHANGED vars
  <2>1. TypeOK'
    BY TypeKept
  <2>2. UNCHANGED <<word, buf, given, ppc, pcur, ppos, presume, taken, claimable, wmsg, wat, wword,
                    cpc, ccur, cpos, cresume, cgiven, rword, got, switchLead, chain>>
    BY <1>1 DEF vars, prodVars, consVars
  <2>3. /\ BitsAgree' /\ WindowAgrees' /\ CommitAgrees' /\ ChainLinked' /\ ChainUnread'
        /\ LeadAgrees'
    BY <2>1, <2>2, QuietStep DEF Publishing
  <2>4. WriteAgrees' /\ ReadAgrees' /\ BytesIntact'
    BY <2>2 DEF IInv, WriteAgrees, ReadAgrees, BytesIntact, WordAt, InUse, Publishing
  <2> QED BY <2>1, <2>3, <2>4 DEF IInv
<1> QED BY <1>1, QuietProducer, QuietFill, LookStep, SwitchStep, PublishStep, QuietConsumer,
           ReleaseStep, GiveStep DEF Next, ProducerNext, ConsumerNext

-----------------------------------------------------------------------------
(* The theorems.                                                           *)

\* The segment lifecycle of v3, whatever the two sides' timing: a segment
\* whose bits agree holds no message and no guard, and both sides resume it at
\* the same position with all its slots claimable from there on.
THEOREM FreeSegments == Spec => []FreeSegmentIsEmpty
<1>1. IInv => FreeSegmentIsEmpty
  <2> SUFFICES ASSUME IInv, NEW s \in FreeSegs
               PROVE  /\ s # pcur /\ s # ccur /\ presume[s] = cresume[s]
                      /\ \A i \in 0 .. M - 1 :
                           word[s][Slot(presume[s] + i)] = Claimable(presume[s] + i)
    BY DEF FreeSegmentIsEmpty
  <2>1. s \in Segs /\ s \notin InUse
    BY DEF FreeSegs, InUse
  <2>2. s # pcur /\ s # ccur /\ presume[s] = cresume[s]
    BY <2>1 DEF IInv, BitsAgree
  <2>3. PICK p \in Seqs : p = presume[s] /\ p = PPos(s) /\ p = CPos(s)
    BY <2>1, <2>2 DEF IInv, TypeOK, PPos, CPos
  <2>4. Unread(s) = 0
    BY <2>1, <2>3, SegPositions DEF IInv
  <2>5. Window(word[s], p, 0, Unstored(s), s, pcur)
    BY <2>1, <2>3, <2>4 DEF IInv, WindowAgrees
  <2>6. ASSUME NEW i \in 0 .. M - 1
        PROVE  word[s][Slot(p + i)] = Claimable(p + i)
    <3>1. i >= 0 /\ p + i \in Int
      BY Ranges DEF Seqs
    <3>2. word[s][Slot(At(p, i))] = Plain(At(p, i))
      BY <2>5, <3>1 DEF Window
    <3>3. Slot(At(p, i)) = Slot(p + i)
      BY <3>1, SlotOf DEF At
    <3>4. seq_of(At(p, i)) = seq_of(p + i)
      BY <3>1, SeqOf DEF At
    <3> QED BY <3>2, <3>3, <3>4 DEF Claimable, Plain
  <2> QED BY <2>2, <2>3, <2>6
<1> QED BY <1>1, InitIInv, StepIInv, PTL DEF Spec

\* A reserve that skips its load, because the last commit's look ahead saw the
\* slot claimable, still gets a free slot.
THEOREM SkippedLoads == Spec => []SkippedLoadIsClaimable
<1>1. IInv => SkippedLoadIsClaimable
  BY DEF IInv, TypeOK, WriteAgrees, WordAt, Claimable, SkippedLoadIsClaimable
<1> QED BY <1>1, InitIInv, StepIInv, PTL DEF Spec

\* Consumer::switches never runs ahead of the producer's count, and equals it
\* once the consumer has read everything: both are then at the same place.
THEOREM SwitchCounts == Spec => []SwitchesAgree
<1>1. IInv => SwitchesAgree
  <2> SUFFICES ASSUME IInv
               PROVE  SwitchesAgree
    OBVIOUS
  <2>1. pcur \in InUse /\ ccur \in InUse /\ IsFiniteSet(InUse)
    BY InUseFinite DEF IInv, BitsAgree
  <2>2. switchLead >= 0
    <3>1. Cardinality(InUse \ {pcur}) = Cardinality(InUse) - 1 /\ IsFiniteSet(InUse \ {pcur})
      BY <2>1, FS_RemoveElement
    <3>2. Cardinality(InUse \ {pcur}) \in Nat
      BY <3>1, FS_CardinalityType
    <3> QED BY <3>1, <3>2 DEF IInv, LeadAgrees
  <2>3. ASSUME chain = <<>>, ppc \in {"idle", "probing"}, cpc \in {"idle", "probing"}
        PROVE  switchLead = 0 /\ pcur = ccur /\ ppos = cpos
    <3>1. ~Publishing /\ cpc # "giving" /\ Len(chain) = 0
      BY <2>3 DEF Publishing
    <3>2. pcur = ccur /\ ppos = cpos
      BY <2>3, <3>1 DEF IInv, ChainLinked, ConsPlace, ProdPlace
    <3>3. InUse \ {ccur} = {}
      BY <3>1 DEF IInv, LeadAgrees
    <3>4. InUse = {ccur}
      BY <2>1, <3>3
    <3>5. Cardinality(InUse) = 1
      BY <3>4, FS_Singleton
    <3> QED BY <3>2, <3>5 DEF IInv, LeadAgrees
  <2> QED BY <2>2, <2>3 DEF SwitchesAgree
<1> QED BY <1>1, InitIInv, StepIInv, PTL DEF Spec

-----------------------------------------------------------------------------
(* The channel.                                                            *)

\* A commit finds room: the chain's places have slots of their own, none of
\* them the commit's.
LEMMA RoomLeft ==
    ASSUME IInv, Publishing
    PROVE  Len(chain) < M * seg_count
<1>1. PICK l \in Nat : l = Len(chain)
  BY DEF IInv, TypeOK
<1>2. PICK w : w = <<wat.seg, Slot(wat.pos)>> /\ w \in Segs \X Slots
  <2>1. wat.seg \in Segs /\ wat.pos \in Seqs
    BY UnstoredPlace
  <2>2. Slot(wat.pos) \in Slots
    BY <2>1, WindowSlots
  <2>3. <<wat.seg, Slot(wat.pos)>> \in Segs \X Slots
    BY <2>1, <2>2
  <2> QED BY <2>3, Zenon
<1> DEFINE T == (Segs \X Slots) \ {w}
           f == [i \in 1 .. l |-> <<chain[i].seg, Slot(chain[i].pos)>>]
<1>3. ASSUME NEW i \in 1 .. l
      PROVE  f[i] \in T
  <2>1. chain[i].seg \in Segs /\ Slot(chain[i].pos) \in Slots
    BY <1>1, ChainPlace
  <2>2. chain[i].seg = wat.seg => Slot(chain[i].pos) # Slot(wat.pos)
    BY <1>1, UnstoredPlace, ChainApart
  <2> QED BY <1>2, <2>1, <2>2
<1>4. ASSUME NEW i \in 1 .. l, NEW j \in 1 .. l, f[i] = f[j]
      PROVE  i = j
  <2>1. chain[i].seg = chain[j].seg /\ Slot(chain[i].pos) = Slot(chain[j].pos)
    BY <1>4
  <2>2. PICK s \in Segs, n \in Seqs, m \in Seqs :
          /\ chain[i] = [seg |-> s, pos |-> n] /\ chain[j] = [seg |-> s, pos |-> m]
          /\ Stored(word[s], CPos(s), Unread(s), n) /\ Stored(word[s], CPos(s), Unread(s), m)
          /\ CPos(s) \in Seqs /\ Slot(n) = Slot(m)
    BY <1>1, <2>1, ChainPlace
  <2>3. PICK k \in 0 .. M - 1 : m = At(CPos(s), k)
    BY <2>2 DEF Stored
  <2>4. m = n
    BY <2>2, <2>3, StoredApart
  <2> QED BY <1>1, <2>2, <2>4 DEF IInv, ChainUnread
<1>5. f \in Injection(1 .. l, T)
  BY <1>3, <1>4 DEF Injection, IsInjective
<1>6. /\ IsFiniteSet(Segs) /\ Cardinality(Segs) = seg_count
      /\ IsFiniteSet(Slots) /\ Cardinality(Slots) = M
  BY GeometryAssumption, FS_Interval DEF Segs, Slots
<1>7. IsFiniteSet(Segs \X Slots) /\ Cardinality(Segs \X Slots) = seg_count * M
  BY <1>6, FS_Product
<1>8. IsFiniteSet(T) /\ Cardinality(T) = seg_count * M - 1
  <2>1. w \in Segs \X Slots
    BY <1>2
  <2>2. IsFiniteSet(T) /\ Cardinality(T) = Cardinality(Segs \X Slots) - 1
    BY <1>7, <2>1, FS_RemoveElement, Zenon
  <2> HIDE DEF T
  <2> QED BY <1>7, <2>2
<1>9. Cardinality(1 .. l) <= Cardinality(T)
  BY <1>5, <1>8, FS_Injection
<1>10. Cardinality(1 .. l) = l
  BY FS_Interval
<1> QED BY <1>1, <1>8, <1>9, <1>10, GeometryAssumption

\* The channel's queue, element by element.
LEMMA PendingSeq ==
    ASSUME IInv, NEW l \in Nat, l = Len(chain)
    PROVE  /\ Pending = [i \in 1 .. l |-> buf[chain[i].seg][Slot(chain[i].pos)].lo]
           /\ Pending \in Seq(Msg) /\ Len(Pending) = l
<1>1. Pending = [i \in 1 .. l |-> buf[chain[i].seg][Slot(chain[i].pos)].lo]
  BY DEF IInv, TypeOK, Pending
<1>2. \A i \in 1 .. l : buf[chain[i].seg][Slot(chain[i].pos)].lo \in Msg
  BY DEF IInv, BytesIntact
<1> QED BY <1>1, <1>2

\* CommitPublish is the channel's Send.
LEMMA PublishSends ==
    ASSUME IInv, CommitPublish
    PROVE  Chan!Send
<1>1. Publishing
  BY DEF CommitPublish, Publishing
<1>2. PICK s \in Segs, n \in Seqs, l \in Nat : s = wat.seg /\ n = wat.pos /\ l = Len(chain)
  BY DEF IInv, TypeOK, Place
<1>3. /\ Len(chain') = l + 1 /\ chain'[l + 1] = wat /\ \A i \in 1 .. l : chain'[i] = chain[i]
  BY <1>2, PublishWords, SMTT(30)
<1>4. chain' \in Seq(Place) /\ UNCHANGED <<buf, cpc, got>>
  BY DEF IInv, TypeOK, CommitPublish, consVars
<1>5. PICK m \in Msg : m = buf[wat.seg][Slot(wat.pos)].lo
  BY <1>1 DEF IInv, BytesIntact
<1>6. /\ Pending = [i \in 1 .. l |-> buf[chain[i].seg][Slot(chain[i].pos)].lo]
      /\ Pending \in Seq(Msg) /\ Len(Pending) = l
  BY <1>2, PendingSeq
<1>7. Pending' = [i \in 1 .. l + 1 |-> buf[chain'[i].seg][Slot(chain'[i].pos)].lo]
  BY <1>3, <1>4 DEF Pending
<1>8. Append(Pending, m) = [i \in 1 .. l + 1 |-> IF i <= l THEN Pending[i] ELSE m]
  BY <1>6, AppendElements
<1>9. \A i \in 1 .. l + 1 : buf[chain'[i].seg][Slot(chain'[i].pos)].lo =
                             IF i <= l THEN Pending[i] ELSE m
  BY <1>3, <1>5, <1>6
<1>10. Pending' = Append(Pending, m)
  BY <1>7, <1>8, <1>9
<1>11. Len(Pending) < M * seg_count
  BY <1>1, <1>2, <1>6, RoomLeft
<1> QED BY <1>4, <1>10, <1>11 DEF Chan!Send

\* ReleaseSeq is the channel's Take: it releases the message it has read.
LEMMA ReleaseTakes ==
    ASSUME IInv, ReleaseSeq
    PROVE  Chan!Take
<1>1. PICK s \in Segs, n \in Seqs, l \in Nat : s = ccur /\ n = cpos /\ l = Len(chain)
  BY DEF IInv, TypeOK
<1>2. /\ l > 0 /\ Len(chain') = l - 1 /\ \A i \in 1 .. l - 1 : chain'[i] = chain[i + 1]
      /\ chain[1] = [seg |-> s, pos |-> n]
  BY <1>1, ReleaseWords
<1>3. /\ chain' \in Seq(Place) /\ buf' = buf /\ cpc = "read" /\ cpc' # "read"
  BY <1>1, <1>2 DEF IInv, TypeOK, ReleaseSeq
<1>4. /\ Pending = [i \in 1 .. l |-> buf[chain[i].seg][Slot(chain[i].pos)].lo]
      /\ Pending \in Seq(Msg) /\ Len(Pending) = l
  BY <1>1, PendingSeq
<1>5. Pending' = [i \in 1 .. l - 1 |-> buf[chain'[i].seg][Slot(chain'[i].pos)].lo]
  BY <1>2, <1>3 DEF Pending
<1>6. Tail(Pending) = [i \in 1 .. l - 1 |-> Pending[i + 1]]
  BY <1>2, <1>4, TailElements
<1>7. \A i \in 1 .. l - 1 : buf[chain'[i].seg][Slot(chain'[i].pos)].lo = Pending[i + 1]
  <2>1. \A i \in 1 .. l - 1 : i + 1 \in 1 .. l
    BY <1>2
  <2> QED BY <1>2, <1>4, <2>1
<1>8. Pending' = Tail(Pending)
  BY <1>5, <1>6, <1>7
<1>9. Pending # <<>> /\ got.lo = Head(Pending)
  <2>1. got.lo = buf[s][Slot(n)].lo
    BY <1>1, <1>3 DEF IInv, BytesIntact
  <2>2. Pending[1] = buf[s][Slot(n)].lo
    BY <1>2, <1>4
  <2>3. \A q \in Seq(Msg) : Len(q) = l => q # <<>> /\ Head(q) = q[1]
    BY <1>2
  <2>4. Pending # <<>> /\ Head(Pending) = Pending[1]
    BY <1>4, <2>3, Zenon
  <2> QED BY <2>1, <2>2, <2>4, Zenon
<1> QED BY <1>3, <1>8, <1>9 DEF Chan!Take

\* Completing an in-place read is the channel's Peek.
LEMMA ReadHiPeeks ==
    ASSUME IInv, ReadHi
    PROVE  Chan!Peek
<1>1. PICK l \in Nat : l = Len(chain)
  BY DEF IInv, TypeOK
<1>2. 1 \in 1 .. l /\ chain[1] = [seg |-> ccur, pos |-> cpos]
  BY <1>1, ReadHead DEF ReadHi
<1>3. /\ Pending = [i \in 1 .. l |-> buf[chain[i].seg][Slot(chain[i].pos)].lo]
      /\ Pending \in Seq(Msg) /\ Len(Pending) = l
  BY <1>1, PendingSeq
<1>4. Pending' = Pending
  BY DEF Pending, ReadHi
<1>5. cpc' = "read" /\ got'.lo = buf[ccur][Slot(cpos)].lo
  BY DEF IInv, TypeOK, Pair, BytesIntact, ReadHi
<1>6. Pending # <<>> /\ got'.lo = Head(Pending)
  <2>1. Pending[1] = buf[ccur][Slot(cpos)].lo
    BY <1>2, <1>3
  <2> QED BY <1>2, <1>3, <1>5, <2>1
<1> QED BY <1>4, <1>5, <1>6 DEF Chan!Peek

\* A dropped read guard is the channel's PutBack, and every other step is
\* invisible to it.
LEMMA DropPutsBack ==
    ASSUME IInv, DropRead
    PROVE  Chan!PutBack
<1>1. Pending' = Pending
  BY DEF Pending, DropRead
<1>2. cpc' # "read"
  BY DEF DropRead
<1> QED BY <1>1, <1>2 DEF Chan!PutBack

LEMMA OtherSteps ==
    ASSUME IInv,
           \/ ReserveWrite \/ WriteGuard \/ Full \/ FillLo \/ FillHi \/ AbandonWrite
           \/ CommitLook \/ CommitSwitch \/ CommitStay
           \/ ReserveRead \/ ReadGuard \/ NoMessage \/ ReadLo \/ GiveBack \/ UNCHANGED vars
    PROVE  UNCHANGED Chan!chanVars
<1> USE DEF ReserveWrite, WriteGuard, Full, FillLo, FillHi, AbandonWrite, CommitLook, CommitSwitch,
            CommitStay, ReserveRead, ReadGuard, NoMessage, ReadLo, GiveBack, vars, prodVars,
            consVars
<1>1. chain' = chain
  OBVIOUS
<1>2. Pending' = Pending
  <2>1. CASE FillLo \/ FillHi
    <3>1. PICK l \in Nat : l = Len(chain) /\ DOMAIN chain = 1 .. l
      BY DEF IInv, TypeOK
    <3>2. \A i \in 1 .. l :
            buf'[chain[i].seg][Slot(chain[i].pos)] = buf[chain[i].seg][Slot(chain[i].pos)]
      BY <2>1, <3>1, FillApart
    <3> HIDE DEF FillLo, FillHi
    <3> QED BY <1>1, <3>1, <3>2 DEF Pending
  <2>2. CASE ~(FillLo \/ FillHi)
    <3>1. buf' = buf
      BY <2>2
    <3> QED BY <1>1, <3>1 DEF Pending
  <2> QED BY <2>1, <2>2
<1>3. /\ cpc' = "read" <=> cpc = "read"
      /\ cpc = "read" => got' = got
  OBVIOUS
<1> QED BY <1>2, <1>3 DEF Chan!chanVars

\* The v3 ring implements a FIFO channel with the capacity of all its segments
\* together: nothing is lost, duplicated, reordered or overwritten, at every
\* depth, number of segments and range of seq values, however the two sides
\* move between the segments.
THEOREM RingIsFifo == Spec => ImplementsFifo
<1>1. Init => Chan!ChanInit
  <2> SUFFICES ASSUME Init
               PROVE  Chan!ChanInit
    OBVIOUS
  <2>1. chain = <<>> /\ cpc = "idle"
    BY DEF Init
  <2>2. Pending = <<>>
    BY <2>1 DEF Pending
  <2> QED BY <2>1, <2>2 DEF Chan!ChanInit
<1>2. IInv /\ [Next]_vars => [Chan!ChanNext]_(Chan!chanVars)
  BY PublishSends, ReleaseTakes, ReadHiPeeks, DropPutsBack, OtherSteps
     DEF Next, ProducerNext, ConsumerNext, Chan!ChanNext
<1> QED BY <1>1, <1>2, InitIInv, StepIInv, PTL DEF Spec, ImplementsFifo, Chan!ChanSpec

=============================================================================
