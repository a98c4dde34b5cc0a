------------------------ MODULE SpscTakeoverProofs -------------------------
(***************************************************************************)
(* Proofs about SpscTakeover, the SPSC v4 ring whose roles outlive their   *)
(* holders, for every segment depth, every number of segments and every    *)
(* number of deaths.                                                       *)
(*                                                                         *)
(* The ring itself, its words, the chain of committed places and the place *)
(* of the next message, is moved by two steps only, the store of a commit  *)
(* and the store of a release; `Core` says what is true of it.  Everything *)
(* else is a side's checkpoint and its holder's private state, which must  *)
(* each tell a successor where the ring stands: `ProdInv` and `ConsInv`.   *)
(***************************************************************************)
EXTENDS SpscTakeover, RingLemmas, FunctionTheorems, FiniteSetTheorems

SlotWord == [seq : Seqs, moved : Segs \cup {NoSeg}]
Place    == [seg : Segs, pos : Seqs]
Resumes  == [Segs -> Seqs]

Storing  == {"store resume", "store intent", "store taken", "store cur"}
ProdPcs  == Storing \cup {"none", "idle", "filling", "filled", "pick", "publish", "switch done",
                          "repair taken", "repair cur", "repair done", "release", "scan"}
Giving   == {"store intent", "store cur", "release seq"}
ConsPcs  == Giving \cup {"none", "idle", "reading", "read", "give", "switch done",
                         "repair given", "repair cur", "repair done", "release", "scan"}

RingType ==
    /\ word \in [Segs -> [Slots -> SlotWord]]
    /\ buf \in [Segs -> [Slots -> Msg \cup {NoMsg}]]
    /\ given \in SUBSET Segs /\ chain \in Seq(Place) /\ tailAt \in Place

ProdType ==
    /\ prod_role \in {"free", "held", "released"} /\ prod_cur \in Segs /\ prod_pos \in Seqs
    /\ prod_taken \in SUBSET Segs /\ prod_resume \in Resumes
    /\ prod_switch \in Intents \cup {NoSwitch}
    /\ ppc \in ProdPcs /\ to \in Segs \cup {NoSeg} /\ pscan \in Seq(Seqs)
    /\ pst \in [cur : Segs, pos : Seqs, resume : Resumes, taken : SUBSET Segs,
                claimable : BOOLEAN]

ConsType ==
    /\ cons_role \in {"free", "held", "released"} /\ cons_cur \in Segs /\ cons_pos \in Seqs
    /\ cons_resume \in Resumes /\ cons_switch \in Intents \cup {NoSwitch}
    /\ cpc \in ConsPcs /\ rword \in SlotWord /\ got \in Msg \cup {NoMsg} /\ cscan \in Seq(Seqs)
    /\ cst \in [cur : Segs, pos : Seqs, resume : Resumes, given : SUBSET Segs]

TypeOK == RingType /\ ProdType /\ ConsType

-----------------------------------------------------------------------------
(* Where the ring stands.                                                  *)

\* The word of place e, the position k places on from r, and the seq value of
\* a committed one.
WordOf(e)    == word[e.seg][Slot(e.pos)]
Pos(r, k)    == seq_of(r + k)
CommitSeq(n) == seq_of(n + M + 1)

\* Where each side is, or will resume, in segment s, and the positions between.
PPos(s)   == IF s = tailAt.seg THEN tailAt.pos ELSE prod_resume[s]
CPos(s)   == IF s = headAt.seg THEN headAt.pos ELSE cons_resume[s]
Backlog(s) == seq_of(PPos(s) - CPos(s))

\* The switch bits of each side, the switch its intent word tells of counted
\* from the commit, or the release, that makes it.
Taken ==
    IF prod_switch = NoSwitch THEN prod_taken
    ELSE SetBit(prod_taken, prod_switch.to, prod_switch.bit <=> tailAt.seg # prod_switch.from)
GivenBack ==
    IF cons_switch = NoSwitch THEN given
    ELSE SetBit(given, cons_switch.from, cons_switch.bit <=> headAt.seg # cons_switch.from)

\* The segments in use, and those that the producer sees as in use.
Used == SymDiff(Taken, GivenBack)
Seen == SymDiff(Taken, given)

BitsAgree ==
    /\ tailAt.seg \in Used /\ headAt.seg \in Used
    /\ \A s \in Segs : s \notin Used => PPos(s) = CPos(s)

\* The window from c on of segment s with the words wd, while the producer is
\* in segment p: the first u positions are committed and the others claimable,
\* and a message with MOVED is the last in a segment the producer has left.
Window(wd, c, u, s, p) ==
    /\ u <= M
    /\ \A k \in 0 .. M - 1 :
         LET n == Pos(c, k) IN
         /\ k < u => /\ wd[Slot(n)].seq = CommitSeq(n)
                     /\ wd[Slot(n)].moved # NoSeg => k + 1 = u /\ s # p
         /\ k >= u => wd[Slot(n)] = Plain(n)

WindowAgrees == \A s \in Segs : Window(word[s], CPos(s), Backlog(s), s, tailAt.seg)

\* The place after e, as e's word v tells it, with the consumer's places cp.
After(e, v, cp) == IF v.moved = NoSeg THEN [seg |-> e.seg, pos |-> seq_of(e.pos + 1)]
                                      ELSE [seg |-> v.moved, pos |-> cp[v.moved]]
ConsPlaces == [s \in Segs |-> CPos(s)]

ChainWord(i) == WordOf(chain[i])

\* The chain leads from the consumer's place to the producer's.
ChainLinked ==
    \A i \in 1 .. Len(chain) :
        After(chain[i], ChainWord(i), ConsPlaces) =
            IF i = Len(chain) THEN tailAt ELSE chain[i + 1]

\* A message at position n in a window from c on with u unread positions.
Stored(wd, c, u, n) ==
    /\ wd[Slot(n)].seq = CommitSeq(n)
    /\ \E k \in 0 .. M - 1 : k < u /\ n = Pos(c, k)

\* The places are different unread ones, and their MOVED words name the segments
\* in use that the consumer has not reached.
ChainUnread ==
    /\ \A i \in 1 .. Len(chain) :
         LET s == chain[i].seg IN Stored(word[s], CPos(s), Backlog(s), chain[i].pos)
    /\ \A i \in 1 .. Len(chain) :
         ChainWord(i).moved # NoSeg => ChainWord(i).moved \in Used \ {headAt.seg}
    /\ \A i, j \in 1 .. Len(chain) : chain[i] = chain[j] => i = j
    /\ \A s \in Used \ {headAt.seg} : \E i \in 1 .. Len(chain) : ChainWord(i).moved = s

\* No segment in use looks free to the producer.
SeenAgrees == Used \subseteq Seen

Core == BitsAgree /\ WindowAgrees /\ ChainLinked /\ ChainUnread

\* A committed slot holds a message.
ChainFull ==
    \A i \in 1 .. Len(chain) : buf[chain[i].seg][Slot(chain[i].pos)] \in Msg

-----------------------------------------------------------------------------
(* What a side's checkpoint, and its live holder, know of the ring.        *)

\* An intent is set: the commit of its switch is to come, or is made.
ProdIntent(i) ==
    /\ i.from # i.to /\ tailAt.seg \in {i.from, i.to}
    /\ tailAt.seg = i.from => /\ prod_resume[i.from] = seq_of(tailAt.pos + 1)
                              /\ Backlog(i.from) < M /\ i.to \notin Seen
    /\ tailAt.seg = i.to => prod_resume[i.to] = tailAt.pos

ProdCheckpoint ==
    /\ prod_role = "free" =>
         /\ prod_switch = NoSwitch /\ prod_taken = {0} /\ tailAt = [seg |-> 0, pos |-> 0]
         /\ prod_resume = [s \in Segs |-> 0]
    /\ prod_role = "released" => prod_switch = NoSwitch /\ prod_pos = tailAt.pos
    /\ IF prod_switch = NoSwitch THEN prod_cur = tailAt.seg ELSE ProdIntent(prod_switch)

\* The commit has looked ahead; it has chosen where to go on.
Ahead     == ppc \in Storing \cup {"pick", "publish"}
Switching == to # NoSeg

\* The seq values loaded from the producer's segment, one per slot from slot 0
\* on: the last position of the slot before the producer's place, claimable
\* again or committed.
ProdLoads(v) ==
    /\ Len(v) <= M
    /\ \A i \in 0 .. Len(v) - 1 : \E k \in 0 .. M - 1 :
         Slot(Pos(tailAt.pos, k)) = i /\ v[i + 1] \in {Pos(tailAt.pos, k), Pos(tailAt.pos, k + 1)}

ProdHolder ==
    /\ prod_role = "held" /\ pst.cur = tailAt.seg
    /\ \A s \in Segs : s # tailAt.seg => pst.resume[s] = prod_resume[s]
    /\ pst.taken = IF Switching THEN Flip(Taken, to) ELSE Taken
    /\ Switching => /\ ppc \in Storing \cup {"publish"} /\ to \notin Seen /\ pst.claimable = FALSE
                    /\ pst.resume[tailAt.seg] = pst.pos
    /\ ppc # "scan" => pst.pos = IF Ahead THEN seq_of(tailAt.pos + 1) ELSE tailAt.pos
    /\ Ahead \/ Writing \/ pst.claimable = TRUE => Backlog(tailAt.seg) < M
    /\ ppc = "publish" /\ pst.claimable = TRUE => Backlog(tailAt.seg) + 1 < M
    /\ ppc \in {"filled", "pick", "publish"} \cup Storing =>
         buf[tailAt.seg][Slot(tailAt.pos)] \in Msg
    /\ Writing => pst.claimable = TRUE
    /\ ppc = "release" => prod_pos = tailAt.pos
    /\ ppc = "scan" => M >= 2 /\ pst.claimable = FALSE

\* What of a switch is stored; all of it, when its commit is to be published.
LastStored == ppc = "publish" /\ Switching
ProdStores ==
    /\ ppc \in Storing => Switching
    /\ ppc = "pick" => pst.claimable = FALSE
    /\ ppc = "store intent" => prod_resume[tailAt.seg] = pst.pos
    /\ IF ppc \in {"store taken", "store cur"} \/ LastStored
       THEN prod_switch = switch_intent(tailAt.seg, to, to \in pst.taken)
       ELSE prod_switch = NoSwitch <=>
              ppc \notin {"switch done", "repair taken", "repair cur", "repair done"}
    /\ ppc = "store cur" \/ LastStored => prod_taken = pst.taken
    /\ ppc \in {"switch done", "repair cur", "repair done"} => prod_taken = Taken
    /\ LastStored => prod_cur = to
    /\ ppc \in {"switch done", "repair done"} => prod_cur = tailAt.seg

ProdInv ==
    /\ ProdCheckpoint
    /\ IF ppc = "none" THEN to = NoSeg /\ pscan = <<>> ELSE ProdHolder /\ ProdStores
    /\ IF ppc = "scan" THEN ProdLoads(pscan) ELSE pscan = <<>>

\* The release of a switch's message is to come, or is made.
ConsIntent(i) ==
    /\ i.from # i.to /\ headAt.seg \in {i.from, i.to}
    /\ headAt.seg = i.from =>
         /\ chain # <<>> /\ WordOf(headAt) = [Committed(headAt.pos) EXCEPT !.moved = i.to]
         /\ cons_resume[i.from] = seq_of(headAt.pos + 1)
    /\ headAt.seg = i.to => cons_resume[i.to] = headAt.pos

ConsCheckpoint ==
    /\ cons_role = "free" =>
         /\ cons_switch = NoSwitch /\ given = {} /\ headAt = [seg |-> 0, pos |-> 0]
         /\ cons_resume = [s \in Segs |-> 0]
    /\ cons_role = "released" => cons_switch = NoSwitch /\ cons_pos = headAt.pos
    /\ IF cons_switch = NoSwitch THEN cons_cur = headAt.seg ELSE ConsIntent(cons_switch)

\* The seq values loaded from the consumer's segment: of each slot's position
\* from the consumer's place on, claimable or committed.
ConsLoads(v) ==
    /\ Len(v) <= M
    /\ \A i \in 0 .. Len(v) - 1 : \E k \in 0 .. M - 1 :
         LET n == Pos(headAt.pos, k) IN Slot(n) = i /\ v[i + 1] \in {n, CommitSeq(n)}

\* A guard is over the oldest message, whose slot the next release frees.
Holding == cpc \in {"reading", "read"} \cup Giving

ConsHolder ==
    /\ cons_role = "held"
    /\ cpc # "give" => cst.cur = headAt.seg
    /\ cpc \notin {"give", "scan"} => cst.pos = headAt.pos
    /\ \A s \in Segs : s # headAt.seg => cst.resume[s] = cons_resume[s]
    /\ cst.given = IF cpc \in Giving THEN Flip(GivenBack, headAt.seg) ELSE GivenBack
    /\ Holding => chain # <<>> /\ rword = WordOf(headAt)
    /\ cpc \in Giving => /\ rword.moved # NoSeg
                         /\ cst.resume[headAt.seg] = seq_of(headAt.pos + 1)
    /\ got = IF cpc \in {"read"} \cup Giving THEN buf[headAt.seg][Slot(headAt.pos)] ELSE NoMsg
    /\ cpc = "release" => cons_pos = headAt.pos
    /\ cpc = "scan" => M >= 2

ConsStores ==
    /\ cpc = "store intent" => cons_resume[headAt.seg] = seq_of(headAt.pos + 1)
    /\ IF cpc \in {"store cur", "release seq"}
       THEN cons_switch = switch_intent(headAt.seg, rword.moved, headAt.seg \in cst.given)
       ELSE cons_switch = NoSwitch <=>
              cpc \notin {"give", "switch done", "repair given", "repair cur", "repair done"}
    /\ cpc = "release seq" => cons_cur = rword.moved
    /\ cpc = "give" => /\ rword.moved = headAt.seg /\ cst.resume[headAt.seg] = headAt.pos
                       /\ cons_cur = headAt.seg /\ cons_switch.to = headAt.seg
    /\ cpc \in {"switch done", "repair cur", "repair done"} => given = GivenBack
    /\ cpc \in {"switch done", "repair done"} => cons_cur = headAt.seg

ConsInv ==
    /\ ConsCheckpoint
    /\ IF cpc = "none" THEN got = NoMsg /\ cscan = <<>> ELSE ConsHolder /\ ConsStores
    /\ IF cpc = "scan" THEN ConsLoads(cscan) ELSE cscan = <<>>

\* The inductive invariant.
IInv == TypeOK /\ Core /\ SeenAgrees /\ ChainFull /\ ProdInv /\ ConsInv

-----------------------------------------------------------------------------
(* Words and slots.                                                        *)

\* The range and the depth in the form the lemmas on remainders ask for.
LEMMA Ranges ==
    /\ M \in Nat \ {0} /\ W \in Nat \ {0} /\ M \in Int /\ W \in Int
    /\ W % M = 0 /\ M + 1 < W /\ NoSeg \notin Segs
BY GeometryAssumption DEF Segs

\* A seq value is a word, and a word is its own seq value.
LEMMA SeqOf ==
    /\ \A n \in Int : seq_of(n) \in Seqs
    /\ \A n \in Seqs : seq_of(n) = n
BY Ranges, ModDef, ModSmall DEF seq_of, Seqs

\* A position's slot is one of the segment's, and its word's slot.
LEMMA SlotOf ==
    /\ \A n \in Int : Slot(n) \in Slots
    /\ \A n \in Int : Slot(seq_of(n)) = Slot(n)
<1>1. \A n \in Int : Slot(n) \in Slots
  BY Ranges, ModDef DEF Slot, Slots
<1>2. \A n \in Int : Slot(seq_of(n)) = Slot(n)
  BY Ranges, ModOfMod, Zenon DEF Slot, seq_of
<1> QED BY <1>1, <1>2

\* Two different words have different successors.
LEMMA SuccInjective ==
    ASSUME NEW a \in Seqs, NEW b \in Seqs, seq_of(a + 1) = seq_of(b + 1)
    PROVE  a = b
<1>1. 1 \in Int /\ a + 1 = 1 + a /\ b + 1 = 1 + b
  BY Ranges DEF Seqs
<1>2. (1 + a) % W = (1 + b) % W
  BY <1>1, Zenon DEF seq_of
<1> QED BY <1>1, <1>2, Ranges, OffsetInjective, Zenon DEF Seqs

\* The three seq values of a slot at one position differ.
LEMMA SeqsDiffer ==
    ASSUME NEW n \in Seqs
    PROVE  /\ CommitSeq(n) \in Seqs /\ Pos(n, M) \in Seqs
           /\ CommitSeq(n) # n /\ CommitSeq(n) # Pos(n, M) /\ Pos(n, M) # n
           /\ Pos(n, 1) # n
<1>1. /\ n \in Int /\ n + M + 1 = n + (M + 1) /\ n + 0 = n /\ n + M + 1 \in Int /\ n + M \in Int
      /\ 0 \in 0 .. W - 1 /\ M \in 0 .. W - 1 /\ M + 1 \in 0 .. W - 1 /\ 1 \in 0 .. W - 1
      /\ M # 0 /\ M + 1 # 0 /\ M + 1 # M /\ 1 # 0
  BY Ranges DEF Seqs
<1>2. \A i, j \in 0 .. W - 1 : (n + i) % W = (n + j) % W => i = j
  BY <1>1, Ranges, OffsetInjective, Zenon
<1>3. n % W = n
  BY SeqOf DEF seq_of
<1>4. CommitSeq(n) \in Seqs /\ Pos(n, M) \in Seqs
  BY <1>1, SeqOf DEF CommitSeq, Pos
<1>5. CommitSeq(n) = (n + (M + 1)) % W /\ Pos(n, M) = (n + M) % W /\ n = (n + 0) % W
  BY <1>1, <1>3, Zenon DEF CommitSeq, Pos, seq_of
<1>6. CommitSeq(n) # n
  BY <1>1, <1>2, <1>5, Zenon
<1>7. CommitSeq(n) # Pos(n, M)
  BY <1>1, <1>2, <1>5, Zenon
<1>8. Pos(n, M) # n
  BY <1>1, <1>2, <1>5, Zenon
<1>9. Pos(n, 1) # n
  BY <1>1, <1>2, <1>5, Zenon DEF Pos, seq_of
<1> QED BY <1>4, <1>6, <1>7, <1>8, <1>9

\* A word without MOVED.
LEMMA PlainWord ==
    ASSUME NEW n \in Seqs
    PROVE  /\ Plain(n) \in SlotWord /\ Plain(n).seq = n /\ Plain(n).moved = NoSeg
           /\ Plain(n + 1) = Plain(Pos(n, 1)) /\ Slot(n + 1) = Slot(Pos(n, 1))
           /\ Released(n) = Plain(Pos(n, M)) /\ Claimable(n) = Plain(n)
           /\ Committed(n).seq = CommitSeq(n) /\ Committed(n).moved = NoSeg
           /\ Committed(n) \in SlotWord /\ Released(n) \in SlotWord
<1>1. /\ n + 1 \in Int /\ n + M \in Int /\ n + M + 1 \in Int
  BY Ranges DEF Seqs
<1>2. \A k \in Int : seq_of(seq_of(k)) = seq_of(k)
  BY SeqOf
<1>3. seq_of(n) = n /\ CommitSeq(n) \in Seqs /\ seq_of(n + M) \in Seqs
  BY <1>1, SeqOf DEF CommitSeq
<1>4. Plain(n + 1) = Plain(Pos(n, 1)) /\ Released(n) = Plain(Pos(n, M))
  BY <1>1, <1>2 DEF Pos, Plain, Released
<1>5. Slot(n + 1) = Slot(Pos(n, 1))
  BY <1>1, SlotOf DEF Pos
<1> QED BY <1>3, <1>4, <1>5 DEF Plain, Claimable, Committed, CommitSeq, Released, SlotWord

\* The window from a position on: M words, each with a slot of its own, and
\* the first position of the next lap in the slot of the first.
LEMMA WindowSlots ==
    ASSUME NEW r \in Seqs
    PROVE  /\ Pos(r, 0) = r /\ 0 \in 0 .. M - 1 /\ Slot(r) \in Slots
           /\ \A k \in 0 .. M : Pos(r, k) \in Seqs /\ Slot(Pos(r, k)) \in Slots
           /\ \A j, k \in 0 .. M - 1 : Slot(Pos(r, j)) = Slot(Pos(r, k)) => j = k
           /\ Slot(Pos(r, M)) = Slot(r)
           /\ \A k \in 0 .. M - 1 : Pos(Pos(r, 1), k) = Pos(r, k + 1)
<1>1. Pos(r, 0) = r /\ 0 \in 0 .. M - 1 /\ 0 \in 0 .. M
  <2>1. r + 0 = r /\ 0 \in 0 .. M - 1 /\ 0 \in 0 .. M
    BY Ranges DEF Seqs
  <2> QED BY <2>1, SeqOf DEF Pos
<1>2. \A k \in 0 .. M : Pos(r, k) \in Seqs /\ Slot(Pos(r, k)) \in Slots
  BY Ranges, WindowWords, Zenon DEF Pos, seq_of, Slot, Seqs, Slots
<1>3. \A j, k \in 0 .. M - 1 : Slot(Pos(r, j)) = Slot(Pos(r, k)) => j = k
  <2> SUFFICES ASSUME NEW j \in 0 .. M - 1, NEW k \in 0 .. M - 1,
                      Slot(Pos(r, j)) = Slot(Pos(r, k))
               PROVE  j = k
    OBVIOUS
  <2>1. W \in Nat \ {0} /\ M \in Nat \ {0} /\ W % M = 0
    BY Ranges
  <2>2. r \in 0 .. W - 1 /\ ((r + j) % W) % M = ((r + k) % W) % M
    BY DEF Pos, seq_of, Slot, Seqs
  <2> QED BY <2>1, <2>2, WindowInjective, Zenon
<1>4. Slot(Pos(r, M)) = Slot(r)
  BY Ranges, WindowLap, Zenon DEF Pos, seq_of, Slot, Seqs
<1>5. \A k \in 0 .. M - 1 : Pos(Pos(r, 1), k) = Pos(r, k + 1)
  <2>1. \A k \in 0 .. M - 1 : k \in Nat
    OBVIOUS
  <2> QED BY <2>1, Ranges, WindowNext, Zenon DEF Pos, seq_of, Seqs
<1>6. Slot(r) \in Slots
  BY <1>1, <1>2
<1> QED BY <1>1, <1>2, <1>3, <1>4, <1>5, <1>6

\* Stepping from offset k to offset k + 1.
LEMMA WindowSucc ==
    ASSUME NEW r \in Seqs, NEW k \in Nat
    PROVE  Pos(r, k + 1) = Pos(Pos(r, k), 1)
<1>1. PICK n \in Int : n = r + k
  BY Ranges DEF Seqs
<1>2. r + (k + 1) = n + 1 /\ 1 \in Int
  BY <1>1, Ranges DEF Seqs
<1>3. ((n % W) + 1) % W = (n + 1) % W
  BY <1>2, Ranges, ModAdd, Zenon
<1> QED BY <1>1, <1>2, <1>3, Zenon DEF Pos, seq_of

\* Offsets add up.
LEMMA PosAdd ==
    ASSUME NEW r \in Int, NEW j \in Int, NEW k \in Int
    PROVE  Pos(Pos(r, j), k) = Pos(r, j + k) /\ Pos(r, j) \in Seqs /\ Pos(r, j + W) = Pos(r, j)
<1>1. PICK n \in Int : n = r + j
  OBVIOUS
<1>2. n + k = r + (j + k) /\ n + W * 1 = r + (j + W) /\ 1 \in Int
  <2>1. PICK w \in Int : w = W /\ w * 1 = w
    BY Ranges
  <2>2. n + k = r + (j + k) /\ n + w = r + (j + w)
    BY <1>1
  <2> QED BY <2>1, <2>2
<1>3. ((n % W) + k) % W = (n + k) % W /\ (n + W * 1) % W = n % W
  <2>1. n \in Int /\ k \in Int /\ 1 \in Int /\ W \in Nat \ {0}
    BY <1>1, <1>2, Ranges
  <2>2. ((n % W) + k) % W = (n + k) % W
    BY <2>1, ModAdd, Zenon
  <2>3. (n + W * 1) % W = n % W
    BY <2>1, ModShift, Zenon
  <2> QED BY <2>2, <2>3
<1>4. n % W \in Seqs
  BY Ranges, ModDef DEF Seqs
<1> QED BY <1>1, <1>2, <1>3, <1>4, Zenon DEF Pos, seq_of

\* The position before a position's successor is the position.
LEMMA PosBack ==
    ASSUME NEW r \in Seqs
    PROVE  seq_of(seq_of(r + 1) - 1) = r /\ seq_of(r + 1) \in Seqs /\ seq_of(r - 1) \in Seqs
           /\ seq_of(seq_of(r - 1) + 1) = r
<1>1. r \in Int /\ 1 \in Int /\ -1 \in Int /\ 1 + (-1) = 0 /\ (-1) + 1 = 0
  BY Ranges DEF Seqs
<1>2. \A n \in Seqs : n \in Int /\ n - 1 = n + (-1)
  BY Ranges DEF Seqs
<1>3. Pos(Pos(r, 1), -1) = Pos(r, 0) /\ Pos(Pos(r, -1), 1) = Pos(r, 0)
      /\ Pos(r, 1) \in Seqs /\ Pos(r, -1) \in Seqs
  <2>0. r \in Int
    BY <1>1
  <2>1. PICK j \in Int, k \in Int : j = 1 /\ k = -1 /\ j + k = 0 /\ k + j = 0
    BY <1>1
  <2>2. Pos(Pos(r, j), k) = Pos(r, j + k) /\ Pos(r, j) \in Seqs
    BY <2>0, PosAdd
  <2>3. Pos(Pos(r, k), j) = Pos(r, k + j) /\ Pos(r, k) \in Seqs
    BY <2>0, PosAdd
  <2> QED BY <2>1, <2>2, <2>3
<1>4. Pos(r, 0) = r
  BY WindowSlots
<1>5. Pos(r, 1) = seq_of(r + 1) /\ Pos(r, -1) = seq_of(r - 1)
      /\ Pos(Pos(r, 1), -1) = seq_of(Pos(r, 1) - 1) /\ Pos(Pos(r, -1), 1) = seq_of(Pos(r, -1) + 1)
  BY <1>2, <1>3, Zenon DEF Pos
<1> QED BY <1>3, <1>4, <1>5

-----------------------------------------------------------------------------
(* What happens to one window.                                             *)

\* Two positions of one window share a slot only if they are the same.
LEMMA StoredApart ==
    ASSUME NEW wd, NEW c \in Seqs, NEW u, NEW n, Stored(wd, c, u, n),
           NEW j \in 0 .. M - 1, Slot(Pos(c, j)) = Slot(n)
    PROVE  Pos(c, j) = n
<1>1. PICK k \in 0 .. M - 1 : n = Pos(c, k)
  BY DEF Stored
<1>2. j = k
  BY <1>1, WindowSlots
<1> QED BY <1>1, <1>2

\* A claimable word at the end of the unread positions means a free slot: in a
\* full window the word there is one of the oldest position's.
LEMMA WindowRoom ==
    ASSUME NEW wd, NEW c \in Seqs, NEW u \in Nat, NEW s, NEW p, Window(wd, c, u, s, p),
           wd[Slot(Pos(c, u))] = Plain(Pos(c, u))
    PROVE  u \in 0 .. M - 1
<1>1. u <= M
  BY DEF Window
<1> SUFFICES ASSUME u = M
             PROVE  FALSE
  BY <1>1, Ranges
<1>2. /\ Pos(c, 0) = c /\ 0 \in 0 .. M - 1 /\ Slot(Pos(c, M)) = Slot(c) /\ Pos(c, M) \in Seqs
      /\ CommitSeq(c) # Pos(c, M) /\ Pos(c, M) # c /\ 0 < u
  BY WindowSlots, SeqsDiffer, Ranges
<1>3. wd[Slot(c)].seq = CommitSeq(c) \/ wd[Slot(c)] = Plain(c)
  BY <1>2 DEF Window
<1>4. wd[Slot(c)].seq = Pos(c, M)
  BY <1>2, PlainWord
<1> QED BY <1>2, <1>3, <1>4, PlainWord

\* So does one at the position after it, while that one is to be committed.
LEMMA WindowRoomNext ==
    ASSUME NEW wd, NEW c \in Seqs, NEW u \in 0 .. M - 1, NEW s, NEW p, Window(wd, c, u, s, p),
           wd[Slot(Pos(c, u + 1))] = Plain(Pos(c, u + 1))
    PROVE  u + 1 < M
<1> SUFFICES ASSUME u + 1 = M
             PROVE  FALSE
  BY Ranges
<1>1. /\ Pos(c, 0) = c /\ 0 \in 0 .. M - 1 /\ Slot(Pos(c, M)) = Slot(c) /\ Pos(c, M) \in Seqs
      /\ CommitSeq(c) # Pos(c, M) /\ Pos(c, M) # c
  BY WindowSlots, SeqsDiffer, Ranges
<1>2. wd[Slot(c)].seq = Pos(c, M)
  BY <1>1, PlainWord
<1>3. 0 < u \/ 0 >= u
  OBVIOUS
<1>4. wd[Slot(c)].seq = CommitSeq(c) \/ wd[Slot(c)] = Plain(c)
  BY <1>1, <1>3 DEF Window
<1> QED BY <1>1, <1>2, <1>4, PlainWord

\* A commit stores the first free position's word, in the producer's segment;
\* the producer may go on in another one.
LEMMA WindowStore ==
    ASSUME NEW wd, NEW c \in Seqs, NEW u \in 0 .. M - 1, NEW n, n = Pos(c, u), NEW s, NEW p,
           Window(wd, c, u, s, s), NEW v, v.seq = CommitSeq(n), v.moved # NoSeg => s # p,
           NEW e, e[Slot(n)] = v, \A i \in Slots : i # Slot(n) => e[i] = wd[i]
    PROVE  Window(e, c, u + 1, s, p) /\ Stored(e, c, u + 1, n)
<1>1. u < u + 1 /\ u + 1 <= M /\ \A k \in 0 .. M - 1 : k \in 0 .. M
  BY Ranges
<1>2. ASSUME NEW k \in 0 .. M - 1, NEW m, m = Pos(c, k)
      PROVE  /\ k < u + 1 => /\ e[Slot(m)].seq = CommitSeq(m)
                             /\ e[Slot(m)].moved # NoSeg => k + 1 = u + 1 /\ s # p
             /\ k >= u + 1 => e[Slot(m)] = Plain(m)
  <2>1. CASE k = u
    <3>1. ~(k >= u + 1) /\ m = n /\ k + 1 = u + 1
      BY <1>2, <2>1
    <3> QED BY <3>1
  <2>2. CASE k # u
    <3>1. Slot(m) # Slot(n) /\ Slot(m) \in Slots
      BY <1>1, <1>2, <2>2, WindowSlots
    <3>2. e[Slot(m)] = wd[Slot(m)] /\ (k < u + 1 => k < u) /\ (k >= u + 1 => k >= u)
      BY <2>2, <3>1
    <3>3. /\ k < u => wd[Slot(m)].seq = CommitSeq(m) /\ ~(wd[Slot(m)].moved # NoSeg)
          /\ k >= u => wd[Slot(m)] = Plain(m)
      BY <1>2 DEF Window
    <3> QED BY <3>2, <3>3
  <2> QED BY <2>1, <2>2
<1>3. Window(e, c, u + 1, s, p)
  BY <1>1, <1>2 DEF Window
<1>4. Stored(e, c, u + 1, n)
  BY <1>1 DEF Stored
<1> QED BY <1>3, <1>4

\* A window that the producer is not in does not depend on where it is.
LEMMA WindowAway ==
    ASSUME NEW wd, NEW c, NEW u \in Nat, NEW s, NEW p, Window(wd, c, u, s, p), NEW t,
           s # t \/ u = 0
    PROVE  Window(wd, c, u, s, t)
<1>1. \A k \in 0 .. M - 1 : k < u => u # 0
  OBVIOUS
<1> QED BY <1>1, Zenon DEF Window

\* A release: the oldest position's slot is claimable in the next lap, and the
\* window moves on by one.
LEMMA WindowRelease ==
    ASSUME NEW wd, NEW c \in Seqs, NEW u \in Nat, NEW s, NEW p, Window(wd, c, u, s, p),
           wd[Slot(c)].seq = CommitSeq(c),
           NEW e, e[Slot(c)] = Plain(Pos(c, M)), \A i \in Slots : i # Slot(c) => e[i] = wd[i]
    PROVE  /\ u > 0 /\ Window(e, Pos(c, 1), u - 1, s, p)
           /\ wd[Slot(c)].moved # NoSeg => u = 1 /\ s # p
<1>1. /\ Pos(c, 0) = c /\ 0 \in 0 .. M - 1 /\ CommitSeq(c) # c /\ u <= M /\ Slot(c) \in Slots
      /\ Slot(Pos(c, M)) = Slot(c)
      /\ \A k \in 0 .. M - 1 : Pos(Pos(c, 1), k) = Pos(c, k + 1)
  BY WindowSlots, SeqsDiffer DEF Window
<1>2. wd[Slot(c)] # Plain(c)
  BY <1>1, PlainWord
<1>3. u > 0
  <2>1. 0 >= u => wd[Slot(c)] = Plain(c)
    BY <1>1 DEF Window
  <2> QED BY <1>2, <2>1
<1>4. wd[Slot(c)].moved # NoSeg => u = 1 /\ s # p
  <2>1. 0 < u /\ 0 + 1 = 1
    BY <1>3
  <2> QED BY <1>1, <1>3, <2>1 DEF Window
<1>5. ASSUME NEW k \in 0 .. M - 1, NEW n, n = Pos(c, k + 1)
      PROVE  /\ k < u - 1 =>
                  /\ e[Slot(n)].seq = CommitSeq(n)
                  /\ e[Slot(n)].moved # NoSeg => k + 1 = u - 1 /\ s # p
             /\ k >= u - 1 => e[Slot(n)] = Plain(n)
  <2>1. CASE k = M - 1
    <3>1. k + 1 = M /\ ~(k < u - 1)
      BY <1>1, <2>1, Ranges
    <3> QED BY <1>1, <1>5, <3>1
  <2>2. CASE k # M - 1
    <3>1. /\ k + 1 \in 0 .. M - 1 /\ k + 1 \in 0 .. M /\ k + 1 # 0 /\ (k < u - 1 <=> k + 1 < u)
          /\ (k >= u - 1 <=> k + 1 >= u) /\ ((k + 1) + 1 = u => k + 1 = u - 1)
      BY <1>1, <2>2, Ranges
    <3>2. Slot(n) # Slot(c) /\ Slot(n) \in Slots
      BY <1>1, <1>5, <3>1, WindowSlots
    <3>3. e[Slot(n)] = wd[Slot(n)]
      BY <3>2
    <3>4. /\ k + 1 < u =>
                  /\ wd[Slot(n)].seq = CommitSeq(n)
                  /\ wd[Slot(n)].moved # NoSeg => (k + 1) + 1 = u /\ s # p
          /\ k + 1 >= u => wd[Slot(n)] = Plain(n)
      BY <1>5, <3>1 DEF Window
    <3> QED BY <3>1, <3>3, <3>4
  <2> QED BY <2>1, <2>2
<1>6. u - 1 <= M
  BY <1>1, Ranges
<1>7. Window(e, Pos(c, 1), u - 1, s, p)
  BY <1>1, <1>5, <1>6 DEF Window
<1> QED BY <1>3, <1>4, <1>7

\* A stored message stays one when another one is released ...
LEMMA StoredRelease ==
    ASSUME NEW wd, NEW c \in Seqs, NEW u \in Nat, NEW n, n # c, Stored(wd, c, u, n),
           NEW e, \A i \in Slots : i # Slot(c) => e[i] = wd[i]
    PROVE  /\ Stored(e, Pos(c, 1), u - 1, n) /\ Slot(n) # Slot(c) /\ e[Slot(n)] = wd[Slot(n)]
<1>1. PICK k \in 0 .. M - 1 : k < u /\ n = Pos(c, k)
  BY DEF Stored
<1>2. /\ Pos(c, 0) = c /\ 0 \in 0 .. M - 1 /\ k \in 0 .. M
      /\ \A j \in 0 .. M - 1 : Pos(Pos(c, 1), j) = Pos(c, j + 1)
  BY WindowSlots, Ranges
<1>3. k # 0
  BY <1>1, <1>2
<1>4. Slot(n) # Slot(c) /\ Slot(n) \in Slots
  BY <1>1, <1>2, <1>3, WindowSlots
<1>5. k - 1 \in 0 .. M - 1 /\ k - 1 < u - 1 /\ (k - 1) + 1 = k
  BY <1>1, <1>3, Ranges
<1>6. n = Pos(Pos(c, 1), k - 1)
  BY <1>1, <1>2, <1>5
<1> QED BY <1>4, <1>5, <1>6 DEF Stored

\* ... and when one is stored.
LEMMA StoredStore ==
    ASSUME NEW wd, NEW c \in Seqs, NEW u \in Nat, NEW n, Stored(wd, c, u, n),
           NEW j \in 0 .. M - 1, NEW m, m = Pos(c, j), wd[Slot(m)] = Plain(m),
           NEW e, \A i \in Slots : i # Slot(m) => e[i] = wd[i]
    PROVE  Stored(e, c, u, n) /\ n # m /\ Slot(n) # Slot(m) /\ e[Slot(n)] = wd[Slot(n)]
<1>1. m \in Seqs /\ j \in 0 .. M
  BY WindowSlots, Ranges
<1>2. n # m
  <2>1. CommitSeq(m) # m
    BY <1>1, SeqsDiffer
  <2>2. wd[Slot(m)].seq = m
    BY <1>1, PlainWord
  <2>3. wd[Slot(n)].seq = CommitSeq(n)
    BY DEF Stored
  <2> QED BY <2>1, <2>2, <2>3
<1>3. Slot(n) # Slot(m)
  BY <1>2, StoredApart
<1>4. PICK k \in 0 .. M - 1 : n = Pos(c, k)
  BY DEF Stored
<1>5. Slot(n) \in Slots
  <2>1. k \in 0 .. M
    BY Ranges
  <2> QED BY <1>4, <2>1, WindowSlots
<1> QED BY <1>2, <1>3, <1>5 DEF Stored

\* A longer window has the same messages.
LEMMA StoredGrow ==
    ASSUME NEW wd, NEW c, NEW u \in Nat, NEW n, Stored(wd, c, u, n)
    PROVE  Stored(wd, c, u + 1, n)
<1>1. \A k \in 0 .. M - 1 : k < u => k < u + 1
  OBVIOUS
<1> QED BY <1>1, Zenon DEF Stored

-----------------------------------------------------------------------------
(* What the state says.                                                    *)

\* The consumer's place.
LEMMA HeadPlace ==
    ASSUME TypeOK
    PROVE  /\ headAt \in Place /\ tailAt \in Place
           /\ headAt.seg \in Segs /\ headAt.pos \in Seqs /\ tailAt.seg \in Segs /\ tailAt.pos \in Seqs
           /\ Len(chain) \in Nat /\ (Len(chain) = 0 <=> chain = <<>>)
           /\ chain = <<>> => headAt = tailAt
           /\ chain # <<>> => 1 \in 1 .. Len(chain) /\ headAt = chain[1]
<1>1. chain \in Seq(Place) /\ tailAt \in Place
  BY DEF TypeOK, RingType
<1>2. chain # <<>> => 1 \in 1 .. Len(chain) /\ Head(chain) = chain[1] /\ chain[1] \in Place
  BY <1>1, ElementOfSeq
<1>3. headAt \in Place
  BY <1>1, <1>2 DEF headAt
<1> QED BY <1>1, <1>2, <1>3 DEF headAt, Place

\* The two positions in a segment, and the unread ones between them.
LEMMA SegPositions ==
    ASSUME TypeOK, NEW s \in Segs
    PROVE  /\ PPos(s) \in Seqs /\ CPos(s) \in Seqs /\ Backlog(s) \in Nat
           /\ PPos(s) = Pos(CPos(s), Backlog(s))
           /\ Backlog(s) = 0 <=> PPos(s) = CPos(s)
<1>1. PPos(s) \in Seqs /\ CPos(s) \in Seqs
  BY HeadPlace DEF TypeOK, ProdType, ConsType, Resumes, PPos, CPos
<1>2. PICK a \in Seqs, c \in Seqs : a = PPos(s) /\ c = CPos(s)
  BY <1>1
<1>3. a - c \in Int /\ c - c = 0 /\ 0 \in Seqs
  BY Ranges DEF Seqs
<1>4. Backlog(s) = seq_of(a - c)
  BY <1>2 DEF Backlog
<1>5. Backlog(s) \in Nat
  <2>1. seq_of(a - c) \in Seqs
    BY <1>3, SeqOf
  <2> QED BY <1>4, <2>1, Ranges DEF Seqs
<1>6. a = Pos(c, Backlog(s))
  <2>1. W \in Nat \ {0} /\ a \in 0 .. W - 1 /\ c \in 0 .. W - 1
    BY Ranges DEF Seqs
  <2>2. (c + ((a - c) % W)) % W = a
    BY <2>1, DistanceAdds, Zenon
  <2> QED BY <1>4, <2>2, Zenon DEF Pos, seq_of
<1>7. Backlog(s) = 0 => a = c
  BY <1>6, WindowSlots
<1>8. a = c => Backlog(s) = 0
  BY <1>3, <1>4, SeqOf
<1> QED BY <1>1, <1>2, <1>5, <1>6, <1>7, <1>8

\* The places of the chain.
LEMMA ChainPlace ==
    ASSUME TypeOK, Core, NEW i \in 1 .. Len(chain)
    PROVE  /\ chain[i].seg \in Segs /\ chain[i].pos \in Seqs /\ Slot(chain[i].pos) \in Slots
           /\ chain[i] = [seg |-> chain[i].seg, pos |-> chain[i].pos]
           /\ CPos(chain[i].seg) \in Seqs /\ Backlog(chain[i].seg) \in Nat
           /\ Stored(word[chain[i].seg], CPos(chain[i].seg), Backlog(chain[i].seg), chain[i].pos)
           /\ ChainWord(i).seq = CommitSeq(chain[i].pos)
<1>1. chain[i] \in Place
  BY ElementOfSeq DEF TypeOK, RingType
<1>2. PICK s \in Segs, n \in Seqs : s = chain[i].seg /\ n = chain[i].pos
  BY <1>1 DEF Place
<1>3. chain[i] = [seg |-> s, pos |-> n]
  BY <1>1, <1>2 DEF Place
<1>4. Slot(n) \in Slots
  BY WindowSlots
<1>5. CPos(s) \in Seqs /\ Backlog(s) \in Nat
  BY SegPositions
<1>6. Stored(word[s], CPos(s), Backlog(s), n)
  BY <1>2 DEF Core, ChainUnread
<1>7. ChainWord(i).seq = CommitSeq(n)
  BY <1>2, <1>6 DEF Stored, ChainWord, WordOf
<1> QED BY <1>2, <1>3, <1>4, <1>5, <1>6, <1>7

\* A place of the chain is not in the slot of a claimable word of its window.
LEMMA ChainApart ==
    ASSUME TypeOK, Core, NEW i \in 1 .. Len(chain), NEW s \in Segs, NEW j \in 0 .. M - 1, NEW n,
           n = Pos(CPos(s), j), word[s][Slot(n)] = Plain(n)
    PROVE  chain[i].seg = s => Slot(chain[i].pos) # Slot(n) /\ chain[i].pos # n
<1> SUFFICES ASSUME chain[i].seg = s
             PROVE  Slot(chain[i].pos) # Slot(n) /\ chain[i].pos # n
  OBVIOUS
<1>1. PICK m \in Seqs : m = chain[i].pos
  BY ChainPlace
<1>2. Stored(word[s], CPos(s), Backlog(s), m) /\ CPos(s) \in Seqs /\ Backlog(s) \in Nat
  BY <1>1, ChainPlace
<1>3. m # n /\ Slot(m) # Slot(n)
  <2>1. \A k \in Slots : k # Slot(n) => word[s][k] = word[s][k]
    OBVIOUS
  <2> QED BY <1>2, <2>1, StoredStore
<1> QED BY <1>1, <1>3

\* The place of the next message is the first free one of its segment: claimable,
\* if there is one, and then in the slot of no committed message.
LEMMA TailPlace ==
    ASSUME TypeOK, Core
    PROVE  /\ CPos(tailAt.seg) \in Seqs /\ Backlog(tailAt.seg) \in Nat
           /\ tailAt.pos = Pos(CPos(tailAt.seg), Backlog(tailAt.seg))
           /\ Window(word[tailAt.seg], CPos(tailAt.seg), Backlog(tailAt.seg), tailAt.seg, tailAt.seg)
           /\ WordOf(tailAt) = Plain(tailAt.pos) <=> Backlog(tailAt.seg) < M
           /\ Backlog(tailAt.seg) < M =>
                /\ Backlog(tailAt.seg) \in 0 .. M - 1
                /\ \A i \in 1 .. Len(chain) :
                     chain[i].seg = tailAt.seg => Slot(chain[i].pos) # Slot(tailAt.pos)
<1>1. PICK s \in Segs, n \in Seqs : s = tailAt.seg /\ n = tailAt.pos
  BY HeadPlace
<1>2. /\ CPos(s) \in Seqs /\ Backlog(s) \in Nat /\ n = Pos(CPos(s), Backlog(s))
  BY <1>1, SegPositions DEF PPos
<1>3. Window(word[s], CPos(s), Backlog(s), s, s)
  BY <1>1 DEF Core, WindowAgrees
<1>4. ASSUME word[s][Slot(n)] = Plain(n)
      PROVE  Backlog(s) < M
  <2>1. PICK c \in Seqs, u \in Nat : c = CPos(s) /\ u = Backlog(s)
    BY <1>2
  <2>2. word[s][Slot(Pos(c, u))] = Plain(Pos(c, u)) /\ Window(word[s], c, u, s, s)
    BY <1>2, <1>3, <1>4, <2>1
  <2>3. u \in 0 .. M - 1
    BY <2>2, WindowRoom
  <2> QED BY <2>1, <2>3, Ranges
<1>5. ASSUME Backlog(s) < M
      PROVE  /\ Backlog(s) \in 0 .. M - 1 /\ word[s][Slot(n)] = Plain(n)
             /\ \A i \in 1 .. Len(chain) : chain[i].seg = s => Slot(chain[i].pos) # Slot(n)
  <2>1. Backlog(s) \in 0 .. M - 1 /\ Backlog(s) >= Backlog(s)
    BY <1>2, <1>5, Ranges
  <2>2. word[s][Slot(n)] = Plain(n)
    BY <1>2, <1>3, <2>1 DEF Window
  <2> QED BY <1>2, <2>1, <2>2, ChainApart
<1> QED BY <1>1, <1>2, <1>3, <1>4, <1>5 DEF WordOf

\* The word at the consumer's place tells whether there is a message.
LEMMA HeadWord ==
    ASSUME TypeOK, Core
    PROVE  chain # <<>> <=> WordOf(headAt).seq = CommitSeq(headAt.pos)
<1>1. ASSUME chain # <<>>
      PROVE  WordOf(headAt).seq = CommitSeq(headAt.pos)
  BY <1>1, HeadPlace, ChainPlace DEF ChainWord
<1>2. ASSUME chain = <<>>
      PROVE  WordOf(headAt).seq # CommitSeq(headAt.pos)
  <2>1. headAt = tailAt
    BY <1>2, HeadPlace
  <2>2. PPos(tailAt.seg) = CPos(tailAt.seg)
    BY <2>1 DEF PPos, CPos
  <2>3. Backlog(tailAt.seg) < M
    BY <2>2, HeadPlace, SegPositions, Ranges
  <2>4. WordOf(tailAt) = Plain(tailAt.pos)
    BY <2>3, TailPlace
  <2>5. CommitSeq(tailAt.pos) # tailAt.pos /\ Plain(tailAt.pos).seq = tailAt.pos
    BY HeadPlace, SeqsDiffer, PlainWord
  <2> QED BY <2>1, <2>4, <2>5
<1> QED BY <1>1, <1>2

-----------------------------------------------------------------------------
(* What happens to the ring.                                               *)

\* Almost every step leaves the ring where it is.
LEMMA CoreKept ==
    ASSUME TypeOK, Core, UNCHANGED <<word, chain, tailAt>>, Used' = Used,
           \A s \in Segs : PPos(s)' = PPos(s) /\ CPos(s)' = CPos(s)
    PROVE  Core' /\ headAt' = headAt /\ \A s \in Segs : Backlog(s)' = Backlog(s)
<1>1. headAt' = headAt /\ headAt.seg \in Segs /\ tailAt.seg \in Segs
  BY HeadPlace DEF headAt
<1>2. \A s \in Segs : Backlog(s)' = Backlog(s)
  BY DEF Backlog
<1>3. ConsPlaces' = ConsPlaces
  BY DEF ConsPlaces
<1>4. \A i \in 1 .. Len(chain) : chain[i].seg \in Segs /\ ChainWord(i)' = ChainWord(i)
  BY ChainPlace DEF ChainWord, WordOf
<1>5. BitsAgree'
  BY <1>1 DEF Core, BitsAgree
<1>6. WindowAgrees'
  BY <1>2 DEF Core, WindowAgrees
<1>7. ChainLinked'
  BY <1>3, <1>4 DEF Core, ChainLinked
<1>8. ChainUnread'
  <2>1. ASSUME NEW i \in 1 .. Len(chain)
        PROVE  LET s == chain[i].seg IN Stored(word[s], CPos(s), Backlog(s), chain[i].pos)'
    BY <1>2, <1>4 DEF Core, ChainUnread
  <2> QED BY <1>1, <1>4, <2>1 DEF Core, ChainUnread
<1> QED BY <1>1, <1>2, <1>5, <1>6, <1>7, <1>8 DEF Core

\* A commit stores word v at the producer's place, [seg |-> f, pos |-> n], and the
\* producer goes on in segment g: the same, or one that was not in use.
Sends(f, n, v, g) ==
    /\ f = tailAt.seg /\ n = tailAt.pos /\ Backlog(f) < M
    /\ v.seq = CommitSeq(n) /\ v.moved = IF g = f THEN NoSeg ELSE g
    /\ word' = [word EXCEPT ![f][Slot(n)] = v]
    /\ chain' = Append(chain, tailAt)
    /\ g = tailAt'.seg /\ (g # f => g \notin Used)
    /\ Used' = Used \cup {g}
    /\ PPos(f)' = seq_of(n + 1) /\ \A s \in Segs : s # f => PPos(s)' = PPos(s)
    /\ \A s \in Segs : CPos(s)' = CPos(s)

\* The words and the chain of a commit.
LEMMA SendWords ==
    ASSUME TypeOK, Core, NEW f \in Segs, NEW n \in Seqs, NEW v, NEW g, Sends(f, n, v, g),
           NEW l \in Nat, l = Len(chain)
    PROVE  /\ \A t \in Segs : t # f => word'[t] = word[t]
           /\ word'[f][Slot(n)] = v
           /\ \A i \in Slots : i # Slot(n) => word'[f][i] = word[f][i]
           /\ chain' # <<>> /\ Len(chain') = l + 1 /\ chain'[l + 1] = tailAt
           /\ \A i \in 1 .. l : /\ chain'[i] = chain[i] /\ ChainWord(i)' = ChainWord(i)
                                /\ chain[i] # tailAt
                                /\ chain[i].seg = f => Slot(chain[i].pos) # Slot(n)
           /\ headAt' = headAt
           /\ chain # <<>> => word'[headAt.seg][Slot(headAt.pos)] = WordOf(headAt)
<1>1. /\ Slot(n) \in Slots /\ word \in [Segs -> [Slots -> SlotWord]]
      /\ word' = [word EXCEPT ![f][Slot(n)] = v] /\ chain' = Append(chain, tailAt)
      /\ f = tailAt.seg /\ n = tailAt.pos /\ Backlog(f) < M
  BY WindowSlots DEF TypeOK, RingType, Sends
<1>2. /\ word'[f][Slot(n)] = v /\ \A t \in Segs : t # f => word'[t] = word[t]
      /\ \A i \in Slots : i # Slot(n) => word'[f][i] = word[f][i]
  BY <1>1
<1>3. chain \in Seq(Place) /\ tailAt \in Place
  BY DEF TypeOK, RingType
<1>4. /\ Len(chain') = l + 1 /\ chain'[l + 1] = tailAt /\ \A i \in 1 .. l : chain'[i] = chain[i]
      /\ chain' \in Seq(Place) /\ chain' # <<>>
  BY <1>1, <1>3
<1>5. \A i \in 1 .. l : chain[i].seg = f => Slot(chain[i].pos) # Slot(n)
  BY <1>1, TailPlace
<1>6. ASSUME NEW i \in 1 .. l
      PROVE  word'[chain[i].seg][Slot(chain[i].pos)] = ChainWord(i) /\ chain[i] # tailAt
  <2>1. chain[i].seg \in Segs /\ Slot(chain[i].pos) \in Slots
    BY ChainPlace
  <2> QED BY <1>1, <1>2, <1>5, <2>1 DEF ChainWord, WordOf
<1>7. headAt' = headAt
  <2>1. CASE chain = <<>>
    <3>1. headAt = tailAt /\ l = 0
      BY <2>1, HeadPlace
    <3> QED BY <1>4, <3>1 DEF headAt
  <2>2. CASE chain # <<>>
    <3>1. 1 \in 1 .. l /\ headAt = chain[1]
      BY <2>2, HeadPlace
    <3> QED BY <1>4, <3>1 DEF headAt
  <2> QED BY <2>1, <2>2
<1>8. ASSUME chain # <<>>
      PROVE  word'[headAt.seg][Slot(headAt.pos)] = WordOf(headAt)
  <2>1. 1 \in 1 .. l /\ headAt = chain[1]
    BY <1>8, HeadPlace
  <2> QED BY <1>6, <2>1 DEF ChainWord
<1>9. \A i \in 1 .. l : ChainWord(i)' = ChainWord(i)
  BY <1>4, <1>6 DEF ChainWord, WordOf
<1> QED BY <1>2, <1>4, <1>5, <1>6, <1>7, <1>8, <1>9

\* The chain has one more message, and leads to where the producer goes on.
LEMMA CoreSends ==
    ASSUME TypeOK, TypeOK', Core, NEW f \in Segs, NEW n \in Seqs, NEW v, NEW g \in Segs,
           Sends(f, n, v, g)
    PROVE  /\ Core' /\ Backlog(f)' = Backlog(f) + 1
           /\ \A s \in Segs : s # f => Backlog(s)' = Backlog(s)
<1>1. PICK l \in Nat : l = Len(chain)
  BY HeadPlace
<1>a. /\ f = tailAt.seg /\ n = tailAt.pos /\ Backlog(f) < M /\ v.seq = CommitSeq(n)
      /\ v.moved = IF g = f THEN NoSeg ELSE g
      /\ g = tailAt'.seg /\ (g # f => g \notin Used) /\ Used' = Used \cup {g}
      /\ PPos(f)' = seq_of(n + 1) /\ \A s \in Segs : s # f => PPos(s)' = PPos(s)
      /\ \A s \in Segs : CPos(s)' = CPos(s)
  BY DEF Sends
<1>2. /\ \A t \in Segs : t # f => word'[t] = word[t]
      /\ word'[f][Slot(n)] = v
      /\ \A i \in Slots : i # Slot(n) => word'[f][i] = word[f][i]
      /\ Len(chain') = l + 1 /\ chain'[l + 1] = tailAt
      /\ \A i \in 1 .. l : /\ chain'[i] = chain[i] /\ ChainWord(i)' = ChainWord(i)
                           /\ chain[i] # tailAt
      /\ headAt' = headAt
  BY <1>1, SendWords
<1>3. \A s \in Segs : s # f => Backlog(s)' = Backlog(s)
  BY <1>a DEF Backlog
<1>4. PICK c \in Seqs, u \in 0 .. M - 1 :
        /\ c = CPos(f) /\ u = Backlog(f) /\ n = Pos(c, u) /\ Window(word[f], c, u, f, f)
        /\ word[f][Slot(n)] = Plain(n)
  BY <1>a, TailPlace DEF WordOf
<1>5. Backlog(f)' = u + 1
  <2>1. /\ W \in Nat \ {0} /\ n \in 0 .. W - 1 /\ c \in 0 .. W - 1 /\ ((n - c) % W) + 1 < W
    <3>1. u = (n - c) % W
      BY <1>a, <1>4 DEF Backlog, PPos, seq_of
    <3> QED BY <3>1, Ranges DEF Seqs
  <2>2. (((n + 1) % W) - c) % W = ((n - c) % W) + 1
    BY <2>1, DistanceUp, Zenon
  <2>3. Backlog(f) = (n - c) % W /\ Backlog(f)' = (((n + 1) % W) - c) % W
    BY <1>a, <1>4 DEF Backlog, PPos, seq_of
  <2> QED BY <1>4, <2>2, <2>3
<1>6. Window(word'[f], c, u + 1, f, g) /\ Stored(word'[f], c, u + 1, n)
  <2>1. PICK e : /\ e = word'[f] /\ e[Slot(n)] = v
                 /\ \A i \in Slots : i # Slot(n) => e[i] = word[f][i]
    BY <1>2
  <2>2. v.seq = CommitSeq(n) /\ (v.moved # NoSeg => f # g)
    BY <1>a
  <2>3. n = Pos(c, u) /\ Window(word[f], c, u, f, f)
    BY <1>4
  <2>4. Window(e, c, u + 1, f, g) /\ Stored(e, c, u + 1, n)
    <3>a. PICK x \in Seqs, k \in 0 .. M - 1 : x = c /\ k = u
      OBVIOUS
    <3>b. PICK wd : wd = word[f]
      OBVIOUS
    <3>1. x = c /\ k = u /\ wd = word[f]
      BY <3>a, <3>b
    <3>2. n = Pos(x, k) /\ Window(wd, x, k, f, f)
      BY <2>3, <3>1
    <3>3. v.moved # NoSeg => f # g
      BY <2>2
    <3>4. \A i \in Slots : i # Slot(n) => e[i] = wd[i]
      BY <2>1, <3>1
    <3>5. Window(e, x, k + 1, f, g) /\ Stored(e, x, k + 1, n)
      BY <2>1, <2>2, <3>2, <3>3, <3>4, WindowStore
    <3> QED BY <3>1, <3>5
  <2> QED BY <2>1, <2>4
<1>7. BitsAgree'
  <2>1. f \in Used /\ headAt.seg \in Used
    BY <1>a DEF Core, BitsAgree
  <2>2. ASSUME NEW s \in Segs, s \notin Used'
        PROVE  PPos(s)' = CPos(s)'
    BY <1>a, <2>1, <2>2 DEF Core, BitsAgree
  <2> QED BY <1>a, <1>2, <2>1, <2>2 DEF BitsAgree
<1>8. WindowAgrees'
  <2> SUFFICES ASSUME NEW s \in Segs
               PROVE  Window(word'[s], CPos(s), Backlog(s)', s, g)
    BY <1>a DEF WindowAgrees
  <2>1. CASE s = f
    BY <1>4, <1>5, <1>6, <2>1
  <2>2. CASE s # f
    <3>1. Window(word[s], CPos(s), Backlog(s), s, f) /\ Backlog(s) \in Nat
      BY <1>a, SegPositions DEF Core, WindowAgrees
    <3>2. s # g \/ Backlog(s) = 0
      BY <1>a, <2>2, SegPositions DEF Core, BitsAgree
    <3>3. Window(word[s], CPos(s), Backlog(s), s, g)
      BY <3>1, <3>2, WindowAway
    <3> QED BY <1>2, <1>3, <2>2, <3>3
  <2> QED BY <2>1, <2>2
<1>9. ConsPlaces' = ConsPlaces
  BY <1>a DEF ConsPlaces
<1>10. ChainWord(l + 1)' = v /\ \A i \in 1 .. l : ChainWord(i)' = ChainWord(i)
  BY <1>a, <1>2 DEF ChainWord, WordOf
<1>11. ChainLinked'
  <2>1. After(tailAt, v, ConsPlaces) = tailAt'
    <3>1. tailAt' = [seg |-> g, pos |-> PPos(g)']
      BY <1>a DEF TypeOK, RingType, Place, PPos
    <3>2. CASE g = f
      BY <1>a, <3>1, <3>2 DEF After
    <3>3. CASE g # f
      <4>1. PPos(g)' = CPos(g) /\ v.moved = g /\ g # NoSeg
        BY <1>a, <3>3, Ranges DEF Core, BitsAgree
      <4> QED BY <1>a, <3>1, <4>1 DEF After, ConsPlaces
    <3> QED BY <3>2, <3>3
  <2>2. ASSUME NEW i \in 1 .. l + 1
        PROVE  After(chain'[i], ChainWord(i)', ConsPlaces) =
                   IF i = l + 1 THEN tailAt' ELSE chain'[i + 1]
    <3>1. CASE i = l + 1
      BY <1>2, <1>10, <2>1, <3>1
    <3>2. CASE i = l
      <4>1. i \in 1 .. l /\ i # l + 1
        BY <3>2
      <4>2. After(chain[i], ChainWord(i), ConsPlaces) = tailAt
        BY <1>1, <3>2, <4>1 DEF Core, ChainLinked
      <4> QED BY <1>2, <3>2, <4>1, <4>2
    <3>3. CASE i # l /\ i # l + 1
      <4>1. i \in 1 .. l /\ i + 1 \in 1 .. l
        BY <3>3
      <4>2. After(chain[i], ChainWord(i), ConsPlaces) = chain[i + 1]
        BY <1>1, <3>3, <4>1 DEF Core, ChainLinked
      <4> QED BY <1>2, <3>3, <4>1, <4>2
    <3> QED BY <3>1, <3>2, <3>3
  <2> QED BY <1>2, <1>9, <2>2 DEF ChainLinked
<1>12. ChainUnread'
  <2>1. ASSUME NEW i \in 1 .. l + 1, NEW t \in Segs, t = chain'[i].seg
        PROVE  Stored(word'[t], CPos(t), Backlog(t)', chain'[i].pos)
    <3>1. CASE i = l + 1
      BY <1>a, <1>2, <1>4, <1>5, <1>6, <2>1, <3>1
    <3>2. CASE i # l + 1
      <4>1. i \in 1 .. l
        BY <3>2
      <4>2. chain'[i] = chain[i] /\ t = chain[i].seg
        BY <1>2, <2>1, <4>1
      <4>3. Stored(word[t], CPos(t), Backlog(t), chain[i].pos)
        BY <1>1, <4>1, <4>2 DEF Core, ChainUnread
      <4>4. CASE t = f
        <5>1. PICK e : e = word'[f] /\ \A j \in Slots : j # Slot(n) => e[j] = word[f][j]
          BY <1>2
        <5>2. Stored(e, c, u, chain[i].pos)
          <6>1. u \in Nat /\ Stored(word[f], c, u, chain[i].pos) /\ word[f][Slot(n)] = Plain(n)
            BY <1>4, <4>3, <4>4
          <6>2. n = Pos(c, u)
            BY <1>4
          <6> QED BY <5>1, <6>1, <6>2, StoredStore
        <5>3. Stored(e, c, u + 1, chain[i].pos)
          BY <5>2, StoredGrow
        <5> QED BY <1>a, <1>4, <1>5, <4>2, <4>4, <5>1, <5>3
      <4>5. CASE t # f
        BY <1>a, <1>2, <1>3, <4>2, <4>3, <4>5
      <4> QED BY <4>4, <4>5
    <3> QED BY <3>1, <3>2
  <2>2. ASSUME NEW i \in 1 .. l + 1, ChainWord(i)'.moved # NoSeg
        PROVE  ChainWord(i)'.moved \in Used' \ {headAt.seg}
    <3>1. CASE i = l + 1
      <4>1. v.moved = g /\ g # f
        BY <1>a, <1>10, <2>2, <3>1
      <4>2. headAt.seg \in Used
        BY DEF Core, BitsAgree
      <4> QED BY <1>a, <1>10, <3>1, <4>1, <4>2
    <3>2. CASE i # l + 1
      <4>1. i \in 1 .. l
        BY <3>2
      <4> QED BY <1>a, <1>1, <1>10, <2>2, <4>1 DEF Core, ChainUnread
    <3> QED BY <3>1, <3>2
  <2>3. ASSUME NEW i \in 1 .. l + 1, NEW j \in 1 .. l + 1, chain'[i] = chain'[j]
        PROVE  i = j
    <3>1. CASE i \in 1 .. l /\ j \in 1 .. l
      BY <1>1, <1>2, <2>3, <3>1 DEF Core, ChainUnread
    <3>2. CASE i = l + 1 /\ j \in 1 .. l
      BY <1>2, <2>3, <3>2
    <3>3. CASE i \in 1 .. l /\ j = l + 1
      BY <1>2, <2>3, <3>3
    <3> QED BY <3>1, <3>2, <3>3
  <2>4. ASSUME NEW s \in Used' \ {headAt.seg}
        PROVE  \E i \in 1 .. l + 1 : ChainWord(i)'.moved = s
    <3>1. l + 1 \in 1 .. l + 1 /\ \A i \in 1 .. l : i \in 1 .. l + 1
      OBVIOUS
    <3>2. CASE s \in Used
      <4>1. \E i \in 1 .. l : ChainWord(i).moved = s
        BY <1>1, <2>4, <3>2 DEF Core, ChainUnread
      <4> QED BY <1>10, <3>1, <4>1
    <3>3. CASE s \notin Used
      <4>1. s = g /\ g # f
        BY <1>a, <2>4, <3>3 DEF Core, BitsAgree
      <4> QED BY <1>a, <1>10, <3>1, <4>1
    <3> QED BY <3>2, <3>3
  <2>5. \A i \in 1 .. l + 1 : chain'[i].seg \in Segs
    <3>1. chain' \in Seq(Place)
      BY DEF TypeOK, RingType
    <3>2. \A i \in 1 .. l + 1 : chain'[i] \in Place
      BY <1>2, <3>1, ElementOfSeq
    <3> QED BY <3>2 DEF Place
  <2>6. \A i \in 1 .. l + 1 :
           LET t == chain[i].seg IN Stored(word[t], CPos(t), Backlog(t), chain[i].pos)'
    BY <1>a, <2>1, <2>5
  <2> QED BY <1>a, <1>2, <2>2, <2>3, <2>4, <2>6 DEF ChainUnread
<1> QED BY <1>3, <1>4, <1>5, <1>7, <1>8, <1>11, <1>12 DEF Core

\* The consumer's place once its message is released.
LEMMA HeadTakes ==
    ASSUME TypeOK, Core, chain # <<>>, chain' = Tail(chain), tailAt' = tailAt
    PROVE  /\ headAt' = After(headAt, WordOf(headAt), ConsPlaces)
           /\ WordOf(headAt).moved = NoSeg =>
                headAt'.seg = headAt.seg /\ headAt'.pos = seq_of(headAt.pos + 1)
           /\ WordOf(headAt).moved # NoSeg =>
                /\ WordOf(headAt).moved \in Segs /\ WordOf(headAt).moved \in Used \ {headAt.seg}
                /\ headAt'.seg = WordOf(headAt).moved /\ headAt'.pos = cons_resume[headAt'.seg]
                /\ headAt.seg # tailAt.seg /\ Backlog(headAt.seg) = 1
           /\ Backlog(headAt.seg) > 0
<1>1. PICK l \in Nat : l = Len(chain) /\ l > 0 /\ 1 \in 1 .. l /\ headAt = chain[1]
  BY HeadPlace
<1>2. PICK t \in Seq(Place) :
        t = chain' /\ Len(t) = l - 1 /\ \A i \in 1 .. l - 1 : t[i] = chain[i + 1]
  BY <1>1 DEF TypeOK, RingType
<1>3. After(headAt, WordOf(headAt), ConsPlaces) = IF l = 1 THEN tailAt ELSE chain[2]
  <2>1. After(chain[1], ChainWord(1), ConsPlaces) = IF 1 = l THEN tailAt ELSE chain[1 + 1]
    BY <1>1 DEF Core, ChainLinked
  <2> QED BY <1>1, <2>1 DEF ChainWord
<1>4. headAt' = IF l = 1 THEN tailAt ELSE chain[2]
  <2>1. CASE l = 1
    <3>1. chain' = <<>>
      <4>1. Len(t) = 0
        BY <1>2, <2>1
      <4>2. t = <<>>
        BY <4>1, EmptySeq
      <4> QED BY <1>2, <4>2
    <3> QED BY <2>1, <3>1 DEF headAt
  <2>2. CASE l # 1
    <3>1. 1 \in 1 .. l - 1 /\ 1 + 1 = 2 /\ Len(t) # 0
      BY <1>1, <1>2, <2>2
    <3>2. t # <<>> /\ Head(t) = t[1]
      BY <3>1
    <3> QED BY <1>2, <2>2, <3>1, <3>2 DEF headAt
  <2> QED BY <2>1, <2>2
<1>5. /\ headAt.seg \in Segs /\ headAt.pos \in Seqs /\ CPos(headAt.seg) = headAt.pos
      /\ Backlog(headAt.seg) \in Nat
      /\ Window(word[headAt.seg], headAt.pos, Backlog(headAt.seg), headAt.seg, tailAt.seg)
      /\ word[headAt.seg][Slot(headAt.pos)] = WordOf(headAt)
      /\ WordOf(headAt).seq = CommitSeq(headAt.pos)
  BY HeadPlace, SegPositions, HeadWord DEF CPos, Core, WindowAgrees, WordOf
<1>6. Backlog(headAt.seg) > 0 /\ (WordOf(headAt).moved # NoSeg =>
         Backlog(headAt.seg) = 1 /\ headAt.seg # tailAt.seg)
  <2>1. PICK c \in Seqs, u \in Nat : c = headAt.pos /\ u = Backlog(headAt.seg)
    BY <1>5
  <2>2. /\ Window(word[headAt.seg], c, u, headAt.seg, tailAt.seg)
        /\ word[headAt.seg][Slot(c)].seq = CommitSeq(c)
    BY <1>5, <2>1
  <2>3. /\ Pos(c, 0) = c /\ 0 \in 0 .. M - 1 /\ CommitSeq(c) # c /\ Plain(c).seq = c
    BY WindowSlots, SeqsDiffer, PlainWord
  <2>4. u > 0
    <3>1. 0 >= u => word[headAt.seg][Slot(c)] = Plain(c)
      BY <2>2, <2>3 DEF Window
    <3> QED BY <2>2, <2>3, <3>1
  <2>5. word[headAt.seg][Slot(c)].moved # NoSeg => 0 + 1 = u /\ headAt.seg # tailAt.seg
    BY <2>2, <2>3, <2>4 DEF Window
  <2> QED BY <1>5, <2>1, <2>4, <2>5
<1>7. ASSUME WordOf(headAt).moved # NoSeg
      PROVE  WordOf(headAt).moved \in Used \ {headAt.seg} /\ WordOf(headAt).moved \in Segs
  <2>1. WordOf(headAt) \in SlotWord
    BY <1>5, WindowSlots DEF TypeOK, RingType, WordOf
  <2>2. ChainWord(1) = WordOf(headAt)
    BY <1>1 DEF ChainWord
  <2> QED BY <1>1, <1>7, <2>1, <2>2 DEF Core, ChainUnread, SlotWord
<1>8. headAt' = After(headAt, WordOf(headAt), ConsPlaces)
  BY <1>3, <1>4
<1>9. ASSUME WordOf(headAt).moved # NoSeg
      PROVE  headAt'.seg = WordOf(headAt).moved /\ headAt'.pos = cons_resume[WordOf(headAt).moved]
  BY <1>7, <1>8, <1>9 DEF After, ConsPlaces, CPos
<1>10. ASSUME WordOf(headAt).moved = NoSeg
       PROVE  headAt'.seg = headAt.seg /\ headAt'.pos = seq_of(headAt.pos + 1)
  BY <1>8, <1>10 DEF After
<1> QED BY <1>6, <1>7, <1>8, <1>9, <1>10

\* A segment in use is a segment.
LEMMA NoSegUsed ==
    ASSUME TypeOK
    PROVE  /\ Taken \in SUBSET Segs /\ GivenBack \in SUBSET Segs /\ Used \in SUBSET Segs
           /\ Seen \in SUBSET Segs /\ NoSeg \notin Used
<1>1. Taken \in SUBSET Segs
  BY DEF TypeOK, ProdType, Taken, SetBit, Intents
<1>2. GivenBack \in SUBSET Segs /\ given \in SUBSET Segs
  BY DEF TypeOK, RingType, ConsType, GivenBack, SetBit, Intents
<1> QED BY <1>1, <1>2, Ranges DEF Used, Seen, SymDiff

\* A release frees the slot of the oldest message, at [seg |-> s, pos |-> n], whose
\* word is r, and a MOVED one takes its segment out of use.
Takes(s, n, r) ==
    /\ s = headAt.seg /\ n = headAt.pos /\ chain # <<>> /\ r = WordOf(headAt)
    /\ word' = [word EXCEPT ![s][Slot(n)] = Released(n)]
    /\ chain' = Tail(chain) /\ tailAt' = tailAt
    /\ Used' = IF r.moved = NoSeg THEN Used ELSE Used \ {s}
    /\ \A q \in Segs : PPos(q)' = PPos(q) /\ (q # s => CPos(q)' = CPos(q))
    /\ CPos(s)' = seq_of(n + 1)

\* The words and the chain of a release.
LEMMA TakeWords ==
    ASSUME TypeOK, Core, NEW s \in Segs, NEW n \in Seqs, NEW r, Takes(s, n, r),
           NEW l \in Nat, l = Len(chain)
    PROVE  /\ l > 0 /\ chain[1] = headAt /\ ChainWord(1) = r
           /\ \A q \in Segs : q # s => word'[q] = word[q]
           /\ word'[s][Slot(n)] = Plain(Pos(n, M))
           /\ \A i \in Slots : i # Slot(n) => word'[s][i] = word[s][i]
           /\ Len(chain') = l - 1 /\ \A i \in 1 .. l - 1 : chain'[i] = chain[i + 1]
           /\ \A q \in Segs : q # s => Backlog(q)' = Backlog(q)
           /\ CPos(s) = n /\ CPos(s)' = Pos(n, 1) /\ Backlog(s) \in Nat /\ Backlog(s) > 0
           /\ Backlog(s)' = Backlog(s) - 1
           /\ Window(word'[s], Pos(n, 1), Backlog(s) - 1, s, tailAt.seg)
           /\ r.moved # NoSeg => Backlog(s) = 1 /\ s # tailAt.seg
<1>1. /\ s = headAt.seg /\ n = headAt.pos /\ chain # <<>> /\ r = WordOf(headAt)
      /\ word' = [word EXCEPT ![s][Slot(n)] = Released(n)]
      /\ chain' = Tail(chain) /\ tailAt' = tailAt
      /\ \A q \in Segs : PPos(q)' = PPos(q) /\ (q # s => CPos(q)' = CPos(q))
      /\ CPos(s)' = seq_of(n + 1)
  BY DEF Takes
<1>2. l > 0 /\ 1 \in 1 .. l /\ chain[1] = headAt /\ ChainWord(1) = r
  BY <1>1, HeadPlace DEF ChainWord
<1>3. Slot(n) \in Slots /\ word \in [Segs -> [Slots -> SlotWord]]
  BY WindowSlots DEF TypeOK, RingType
<1>4. /\ word'[s][Slot(n)] = Plain(Pos(n, M)) /\ \A q \in Segs : q # s => word'[q] = word[q]
      /\ \A i \in Slots : i # Slot(n) => word'[s][i] = word[s][i]
  BY <1>1, <1>3, PlainWord
<1>5. Len(chain') = l - 1 /\ \A i \in 1 .. l - 1 : chain'[i] = chain[i + 1]
  BY <1>1, <1>2 DEF TypeOK, RingType
<1>6. /\ CPos(s) = n /\ CPos(s)' = Pos(n, 1) /\ PPos(s) \in Seqs /\ PPos(s)' = PPos(s)
      /\ Backlog(s) \in Nat
  BY <1>1, SegPositions DEF CPos, Pos
<1>7. \A q \in Segs : q # s => Backlog(q)' = Backlog(q)
  BY <1>1 DEF Backlog
<1>8. PICK u \in Nat : u = Backlog(s)
  BY <1>6
<1>9. Window(word[s], n, u, s, tailAt.seg) /\ word[s][Slot(n)].seq = CommitSeq(n)
      /\ word[s][Slot(n)] = r
  BY <1>1, <1>6, <1>8, HeadWord DEF Core, WindowAgrees, WordOf
<1>10. /\ u > 0 /\ Window(word'[s], Pos(n, 1), u - 1, s, tailAt.seg)
       /\ r.moved # NoSeg => u = 1 /\ s # tailAt.seg
  <2>1. PICK e : /\ e = word'[s] /\ e[Slot(n)] = Plain(Pos(n, M))
                 /\ \A i \in Slots : i # Slot(n) => e[i] = word[s][i]
    BY <1>4
  <2>2. /\ u > 0 /\ Window(e, Pos(n, 1), u - 1, s, tailAt.seg)
        /\ word[s][Slot(n)].moved # NoSeg => u = 1 /\ s # tailAt.seg
    BY <1>9, <2>1, WindowRelease
  <2> QED BY <1>9, <2>1, <2>2
<1>11. Backlog(s)' = u - 1
  <2>1. PICK a \in Seqs : a = PPos(s)
    BY <1>6
  <2>2. /\ W \in Nat \ {0} /\ a \in 0 .. W - 1 /\ n \in 0 .. W - 1
        /\ u = (a - n) % W /\ Backlog(s)' = (a - ((n + 1) % W)) % W
    BY <1>1, <1>6, <1>8, <2>1, Ranges DEF Seqs, Backlog, Pos, seq_of
  <2>3. (a - ((n + 1) % W)) % W = ((a - n) % W) - 1
    BY <1>10, <2>2, DistanceDown
  <2> QED BY <2>2, <2>3
<1> QED BY <1>2, <1>4, <1>5, <1>6, <1>7, <1>8, <1>10, <1>11

\* Each segment ahead of the consumer is named by one word on the way.
LEMMA NamedOnce ==
    ASSUME TypeOK, Core, NEW i \in 1 .. Len(chain), NEW j \in 1 .. Len(chain),
           ChainWord(i).moved # NoSeg, ChainWord(i).moved = ChainWord(j).moved
    PROVE  i = j
<1>1. PICK l \in Nat, t \in Segs : l = Len(chain) /\ t = ChainWord(i).moved
  <2>1. ChainWord(i) \in SlotWord
    BY ChainPlace DEF TypeOK, RingType, ChainWord, WordOf
  <2> QED BY <2>1, HeadPlace DEF SlotWord
<1>2. t \in Used \ {headAt.seg}
  BY <1>1 DEF Core, ChainUnread
<1> DEFINE e == [seg |-> t, pos |-> CPos(t)]
<1>3. ASSUME NEW k \in 1 .. l, ChainWord(k).moved = t
      PROVE  e = IF k = l THEN tailAt ELSE chain[k + 1]
  <2>1. After(chain[k], ChainWord(k), ConsPlaces) = e
    BY <1>1, <1>3 DEF After, ConsPlaces
  <2> QED BY <1>1, <2>1 DEF Core, ChainLinked
<1>4. ASSUME NEW k \in 1 .. l, chain[k] = e, e = tailAt
      PROVE  FALSE
  <2>1. tailAt.seg = t /\ tailAt.pos = CPos(t) /\ chain[k].seg = t
    BY <1>4
  <2>2. Backlog(t) = 0
    BY <2>1, SegPositions DEF PPos
  <2>3. Stored(word[t], CPos(t), 0, chain[k].pos)
    BY <1>1, <2>1, <2>2, ChainPlace
  <2> QED BY <2>3 DEF Stored
<1> HIDE DEF e
<1>5. CASE i = l /\ j = l
  BY <1>5
<1>6. CASE i = l /\ j # l
  <2>1. j + 1 \in 1 .. l /\ chain[j + 1] = e /\ e = tailAt
    BY <1>1, <1>3, <1>6
  <2> QED BY <1>4, <2>1
<1>7. CASE i # l /\ j = l
  <2>1. i + 1 \in 1 .. l /\ chain[i + 1] = e /\ e = tailAt
    BY <1>1, <1>3, <1>7
  <2> QED BY <1>4, <2>1
<1>8. CASE i # l /\ j # l
  <2>1. i + 1 \in 1 .. l /\ j + 1 \in 1 .. l /\ chain[i + 1] = e /\ chain[j + 1] = e
    BY <1>1, <1>3, <1>8
  <2>2. i + 1 = j + 1
    BY <1>1, <2>1 DEF Core, ChainUnread
  <2> QED BY <2>2
<1> QED BY <1>5, <1>6, <1>7, <1>8

\* The chain begins with the next message, and leads from there.
LEMMA CoreTakes ==
    ASSUME TypeOK, TypeOK', Core, NEW s \in Segs, NEW n \in Seqs, NEW r, Takes(s, n, r)
    PROVE  Core'
<1>1. PICK l \in Nat : l = Len(chain)
  BY HeadPlace
<1>2. /\ s = headAt.seg /\ n = headAt.pos /\ chain # <<>> /\ r = WordOf(headAt)
      /\ chain' = Tail(chain) /\ tailAt' = tailAt
      /\ Used' = IF r.moved = NoSeg THEN Used ELSE Used \ {s}
      /\ \A q \in Segs : PPos(q)' = PPos(q) /\ (q # s => CPos(q)' = CPos(q))
  BY DEF Takes
<1>3. /\ l > 0 /\ chain[1] = headAt /\ ChainWord(1) = r
      /\ \A q \in Segs : q # s => word'[q] = word[q]
      /\ word'[s][Slot(n)] = Plain(Pos(n, M))
      /\ \A i \in Slots : i # Slot(n) => word'[s][i] = word[s][i]
      /\ Len(chain') = l - 1 /\ \A i \in 1 .. l - 1 : chain'[i] = chain[i + 1]
      /\ \A q \in Segs : q # s => Backlog(q)' = Backlog(q)
      /\ CPos(s) = n /\ CPos(s)' = Pos(n, 1) /\ Backlog(s) \in Nat /\ Backlog(s) > 0
      /\ Backlog(s)' = Backlog(s) - 1
      /\ Window(word'[s], Pos(n, 1), Backlog(s) - 1, s, tailAt.seg)
      /\ r.moved # NoSeg => Backlog(s) = 1 /\ s # tailAt.seg
  BY <1>1, TakeWords
<1>4. /\ r.moved = NoSeg => headAt'.seg = s
      /\ r.moved # NoSeg => r.moved \in Used \ {s} /\ headAt'.seg = r.moved
  BY <1>2, HeadTakes
<1>5. tailAt.seg \in Used /\ s \in Used
  BY <1>2 DEF Core, BitsAgree
<1>6. BitsAgree'
  <2>1. ASSUME NEW q \in Segs, q \notin Used'
        PROVE  PPos(q)' = CPos(q)'
    <3>1. CASE q = s
      <4>1. r.moved # NoSeg
        BY <1>2, <1>5, <2>1, <3>1
      <4>2. Backlog(s)' = 0
        BY <1>3, <4>1
      <4>3. PPos(s)' = CPos(s)' <=> Backlog(s)' = 0
        <5>1. PPos(s)' \in Seqs /\ CPos(s)' \in Seqs
          BY <1>2, <1>3, SegPositions, WindowSlots, Ranges
        <5>2. PICK a \in Seqs, c \in Seqs : a = PPos(s)' /\ c = CPos(s)'
          BY <5>1
        <5>3. c = Pos(c, 0) /\ a = Pos(c, Backlog(s)')
          <6>1. W \in Nat \ {0} /\ a \in 0 .. W - 1 /\ c \in 0 .. W - 1
            BY Ranges DEF Seqs
          <6>2. (c + ((a - c) % W)) % W = a
            BY <6>1, DistanceAdds, Zenon
          <6>3. Backlog(s)' = (a - c) % W
            BY <5>2 DEF Backlog, seq_of
          <6>4. c = Pos(c, 0)
            BY WindowSlots
          <6> QED BY <6>2, <6>3, <6>4, Zenon DEF Pos, seq_of
        <5> QED BY <4>2, <5>2, <5>3
      <4> QED BY <3>1, <4>2, <4>3
    <3>2. CASE q # s
      <4>1. q \notin Used
        BY <1>2, <2>1, <3>2
      <4> QED BY <1>2, <2>1, <3>2, <4>1 DEF Core, BitsAgree
    <3> QED BY <3>1, <3>2
  <2>2. tailAt.seg \in Used'
    BY <1>2, <1>3, <1>5
  <2>3. headAt'.seg \in Used'
    BY <1>2, <1>4, <1>5
  <2> QED BY <1>2, <2>1, <2>2, <2>3 DEF BitsAgree
<1>7. WindowAgrees'
  <2> SUFFICES ASSUME NEW q \in Segs
               PROVE  Window(word'[q], CPos(q)', Backlog(q)', q, tailAt.seg)
    BY <1>2 DEF WindowAgrees
  <2>1. CASE q = s
    BY <1>3, <2>1
  <2>2. CASE q # s
    <3>1. Window(word[q], CPos(q), Backlog(q), q, tailAt.seg)
      BY DEF Core, WindowAgrees
    <3> QED BY <1>2, <1>3, <2>2, <3>1
  <2> QED BY <2>1, <2>2
<1>8. ASSUME NEW i \in 1 .. l - 1
      PROVE  /\ i + 1 \in 1 .. l /\ ChainWord(i)' = ChainWord(i + 1)
             /\ \A q \in Segs : q = chain[i + 1].seg =>
                   Stored(word'[q], CPos(q)', Backlog(q)', chain[i + 1].pos)
  <2>1. i + 1 \in 1 .. l /\ 1 \in 1 .. l /\ i + 1 # 1
    BY <1>3
  <2>2. PICK q \in Segs, m \in Seqs : q = chain[i + 1].seg /\ m = chain[i + 1].pos /\ Slot(m) \in Slots
                                      /\ Stored(word[q], CPos(q), Backlog(q), m)
                                      /\ chain[i + 1] = [seg |-> q, pos |-> m]
    BY <1>1, <2>1, ChainPlace
  <2>3. q = s => m # n
    <3>1. chain[i + 1] # chain[1]
      BY <1>1, <2>1 DEF Core, ChainUnread
    <3>2. headAt = [seg |-> s, pos |-> n]
      BY <1>2, HeadPlace DEF Place
    <3> QED BY <1>3, <2>2, <3>1, <3>2
  <2>4. Stored(word'[q], CPos(q)', Backlog(q)', m) /\ word'[q][Slot(m)] = word[q][Slot(m)]
    <3>1. CASE q = s
      <4>1. PICK u \in Nat : u = Backlog(s)
        BY <1>3
      <4>2. PICK w : w = word'[s] /\ \A j \in Slots : j # Slot(n) => w[j] = word[s][j]
        BY <1>3
      <4>3. Stored(word[s], n, u, m) /\ m # n
        BY <1>3, <2>2, <2>3, <3>1, <4>1
      <4>4. Stored(w, Pos(n, 1), u - 1, m) /\ w[Slot(m)] = word[s][Slot(m)]
        BY <4>2, <4>3, StoredRelease
      <4> QED BY <1>3, <3>1, <4>1, <4>2, <4>4
    <3>2. CASE q # s
      BY <1>2, <1>3, <2>2, <3>2
    <3> QED BY <3>1, <3>2
  <2>5. ChainWord(i)' = ChainWord(i + 1)
    BY <1>3, <2>2, <2>4 DEF ChainWord, WordOf
  <2> QED BY <2>1, <2>2, <2>4, <2>5
<1>9. ChainLinked'
  <2> SUFFICES ASSUME NEW i \in 1 .. l - 1
               PROVE  After(chain[i + 1], ChainWord(i + 1), ConsPlaces') =
                          IF i = l - 1 THEN tailAt ELSE chain'[i + 1]
    BY <1>2, <1>3, <1>8 DEF ChainLinked
  <2>1. After(chain[i + 1], ChainWord(i + 1), ConsPlaces) =
             IF i + 1 = l THEN tailAt ELSE chain[(i + 1) + 1]
    BY <1>1, <1>8 DEF Core, ChainLinked
  <2>2. (i + 1 = l <=> i = l - 1) /\ (i # l - 1 => i + 1 \in 1 .. l - 1)
    OBVIOUS
  <2>3. After(chain[i + 1], ChainWord(i + 1), ConsPlaces') =
           After(chain[i + 1], ChainWord(i + 1), ConsPlaces)
    <3>1. CASE ChainWord(i + 1).moved = NoSeg
      BY <3>1 DEF After
    <3>2. CASE ChainWord(i + 1).moved # NoSeg
      <4>1. PICK q : q = ChainWord(i + 1).moved
        OBVIOUS
      <4>2. ChainWord(i + 1) \in SlotWord
        <5>1. PICK e : e = chain[i + 1] /\ e.seg \in Segs /\ Slot(e.pos) \in Slots
          BY <1>1, <1>8, ChainPlace
        <5>2. word[e.seg][Slot(e.pos)] \in SlotWord
          BY <1>1, <5>1 DEF TypeOK, RingType
        <5> QED BY <5>1, <5>2 DEF ChainWord, WordOf
      <4>3. q \in Segs
        BY <3>2, <4>1, <4>2 DEF SlotWord
      <4>4. q # s
        BY <1>1, <1>2, <1>8, <3>2, <4>1 DEF Core, ChainUnread
      <4>5. ConsPlaces'[q] = ConsPlaces[q]
        BY <1>2, <4>3, <4>4 DEF ConsPlaces
      <4> QED BY <3>2, <4>1, <4>5 DEF After
    <3> QED BY <3>1, <3>2
  <2> QED BY <1>3, <2>1, <2>2, <2>3
<1>10. ChainUnread'
  <2>1. ASSUME NEW i \in 1 .. l - 1
        PROVE  LET q == chain[i].seg IN Stored(word[q], CPos(q), Backlog(q), chain[i].pos)'
    <3>1. chain[i + 1].seg \in Segs
      BY <1>1, <1>8, ChainPlace
    <3> QED BY <1>3, <1>8, <3>1
  <2>2. ASSUME NEW i \in 1 .. l - 1, ChainWord(i)'.moved # NoSeg
        PROVE  ChainWord(i)'.moved \in Used' \ {headAt'.seg}
    <3>1. PICK q : q = ChainWord(i + 1).moved /\ ChainWord(i)' = ChainWord(i + 1)
      BY <1>8
    <3>2. q # NoSeg /\ q \in Used \ {s}
      BY <1>1, <1>2, <1>8, <2>2, <3>1 DEF Core, ChainUnread
    <3>3. q # r.moved
      <4>1. i + 1 # 1 /\ 1 \in 1 .. Len(chain) /\ i + 1 \in 1 .. Len(chain)
        BY <1>1, <1>3, <1>8
      <4> QED BY <1>3, <3>1, <3>2, <4>1, NamedOnce
    <3> QED BY <1>2, <1>4, <3>1, <3>2, <3>3
  <2>3. ASSUME NEW i \in 1 .. l - 1, NEW j \in 1 .. l - 1, chain'[i] = chain'[j]
        PROVE  i = j
    <3>1. chain[i + 1] = chain[j + 1]
      BY <1>3, <2>3
    <3>2. i + 1 \in 1 .. l /\ j + 1 \in 1 .. l
      BY <1>8
    <3>3. i + 1 = j + 1
      BY <1>1, <3>1, <3>2 DEF Core, ChainUnread
    <3> QED BY <3>3
  <2>4. ASSUME NEW q \in Used' \ {headAt'.seg}
        PROVE  \E i \in 1 .. l - 1 : ChainWord(i)'.moved = q
    <3>1. q \in Used \ {s} /\ q # r.moved
      BY <1>2, <1>4, <1>5, <2>4, NoSegUsed
    <3>2. PICK i \in 1 .. l : ChainWord(i).moved = q
      BY <1>1, <1>2, <3>1 DEF Core, ChainUnread
    <3>3. i # 1
      BY <1>3, <3>1, <3>2
    <3>4. i - 1 \in 1 .. l - 1 /\ (i - 1) + 1 = i
      BY <3>3
    <3> QED BY <1>8, <3>2, <3>4
  <2> QED BY <1>3, <2>1, <2>2, <2>3, <2>4 DEF ChainUnread
<1> QED BY <1>6, <1>7, <1>9, <1>10 DEF Core

-----------------------------------------------------------------------------
(* A scan.                                                                 *)

\* The lowest of a set of integers, where one is named or a bound is.
LEMMA MinIs ==
    ASSUME NEW S \in SUBSET Int, NEW m \in S, \A x \in S : m <= x
    PROVE  Min(S) = m
<1>1. \A x \in S : (\A y \in S : x <= y) => x = m
  BY SMT
<1>2. Min(S) \in S /\ \A y \in S : Min(S) <= y
  BY Zenon DEF Min
<1> QED BY <1>1, <1>2, Zenon

\* The highest of a set of integers, where it is known.
LEMMA MaxIs ==
    ASSUME NEW S \in SUBSET Int, NEW m \in S, \A x \in S : x <= m
    PROVE  Max(S) = m
<1>1. \A x \in S : (\A y \in S : y <= x) => x = m
  BY SMT
<1>2. Max(S) \in S /\ \A y \in S : y <= Max(S)
  BY Zenon DEF Max
<1> QED BY <1>1, <1>2, Zenon

\* A set of integers with a lower bound has a lowest one.
LEMMA MinBounded ==
    ASSUME NEW S \in SUBSET Int, S # {}, NEW b \in Int, \A x \in S : b <= x
    PROVE  Min(S) \in S /\ \A x \in S : Min(S) <= x
<1> DEFINE T == {x - b : x \in S}
<1>1. T \in SUBSET Nat /\ T # {}
  <2>1. \A x \in S : x - b \in Nat
    OBVIOUS
  <2> QED BY <2>1
<1>2. PICK t \in T : \A u \in T : t <= u
  BY <1>1, LowestExists, Zenon
<1>3. PICK m \in S : t = m - b
  OBVIOUS
<1>4. ASSUME NEW x \in S
      PROVE  m <= x
  <2>1. x - b \in T
    OBVIOUS
  <2> HIDE DEF T
  <2>2. t <= x - b
    BY <1>2, <2>1
  <2> QED BY <1>3, <2>2
<1> QED BY <1>4, MinIs

\* The highest one.
LEMMA MaxBounded ==
    ASSUME NEW S \in SUBSET Int, S # {}, NEW b \in Int, \A x \in S : x <= b
    PROVE  Max(S) \in S /\ \A x \in S : x <= Max(S)
<1> DEFINE T == {b - x : x \in S}
<1>1. T \in SUBSET Nat /\ T # {}
  <2>1. \A x \in S : b - x \in Nat
    OBVIOUS
  <2> QED BY <2>1
<1>2. PICK t \in T : \A u \in T : t <= u
  BY <1>1, LowestExists, Zenon
<1>3. PICK m \in S : t = b - m
  OBVIOUS
<1>4. ASSUME NEW x \in S
      PROVE  m >= x
  <2>1. b - x \in T
    OBVIOUS
  <2> HIDE DEF T
  <2>2. t <= b - x
    BY <1>2, <2>1
  <2> QED BY <1>3, <2>2
<1>5. Max(S) \in S /\ \A y \in S : Max(S) >= y
  BY <1>4, Zenon DEF Max
<1> QED BY <1>5

\* A seq value in its own slot says that the slot is free, and the position that
\* was there last; one in the next slot that the position is unread.
LEMMA LoadIs ==
    ASSUME M >= 2, NEW v \in Seq(Seqs), Len(v) = M, NEW i \in Slots, NEW r \in Seqs, NEW x \in Int,
           v[i + 1] = Pos(r, x)
    PROVE  /\ Slot(Pos(r, x)) = i => i \notin Unread(v) /\ LastPos(v, i) = Pos(r, x - M)
           /\ Slot(Pos(r, x - 1)) = i => i \in Unread(v) /\ LastPos(v, i) = Pos(r, x - M - 1)
<1>1. PICK n \in Seqs : n = Pos(r, x)
  <2>1. r + x \in Int
    BY Ranges DEF Seqs
  <2> QED BY <2>1, SeqOf DEF Pos
<1>2. PICK a \in Int, b \in Int, c \in Int :
        /\ r \in Int /\ n \in Int /\ x + a = x - M /\ x + b = x - M - 1 /\ x + c = x - 1
        /\ n - M - 0 = n + a /\ n - M - 1 = n + b /\ c + 1 = 0 /\ n + 0 = n
  <2>1. /\ r \in Int /\ n \in Int /\ -M \in Int /\ (-M) - 1 \in Int /\ -1 \in Int
        /\ x + (-M) = x - M /\ x + ((-M) - 1) = x - M - 1 /\ x + (-1) = x - 1 /\ n + 0 = n
        /\ n - M - 0 = n + (-M) /\ n - M - 1 = n + ((-M) - 1) /\ (-1) + 1 = 0
    BY Ranges DEF Seqs
  <2> QED BY <2>1, Zenon
<1>3. Pos(n, a) = Pos(r, x - M) /\ Pos(n, b) = Pos(r, x - M - 1) /\ Pos(n, c) = Pos(r, x - 1)
  <2>1. \A k \in Int : Pos(Pos(r, x), k) = Pos(r, x + k)
    BY <1>2, PosAdd
  <2>2. Pos(n, a) = Pos(r, x + a) /\ Pos(n, b) = Pos(r, x + b) /\ Pos(n, c) = Pos(r, x + c)
    BY <1>1, <2>1
  <2> QED BY <1>2, <2>2
<1>4. i \in Unread(v) <=> Slot(n) # i
  BY <1>1 DEF Unread, Slot
<1>5. LastPos(v, i) = seq_of(n - M - (IF i \in Unread(v) THEN 1 ELSE 0))
  BY <1>1 DEF LastPos
<1>6. ASSUME Slot(n) = i
      PROVE  i \notin Unread(v) /\ LastPos(v, i) = Pos(r, x - M)
  <2>1. LastPos(v, i) = seq_of(n - M - 0)
    BY <1>4, <1>5, <1>6
  <2> QED BY <1>2, <1>3, <1>4, <1>6, <2>1, Zenon DEF Pos
<1>7. ASSUME Slot(Pos(n, c)) = i
      PROVE  i \in Unread(v) /\ LastPos(v, i) = Pos(r, x - M - 1)
  <2>1. PICK m \in Seqs : m = Pos(n, c)
    BY <1>2, PosAdd, Zenon
  <2>2. Pos(m, 1) = n /\ Pos(m, 0) = m /\ 0 \in 0 .. M - 1 /\ 1 \in 0 .. M - 1 /\ 1 # 0
    <3>1. 1 \in Int
      OBVIOUS
    <3>2. Pos(Pos(n, c), 1) = Pos(n, c + 1)
      BY <1>2, <3>1, PosAdd
    <3>3. Pos(n, 0) = n
      BY WindowSlots
    <3>4. Pos(m, 1) = n
      BY <1>2, <2>1, <3>2, <3>3
    <3> QED BY <3>4, WindowSlots, Ranges
  <2>3. Slot(n) # i
    BY <1>7, <2>1, <2>2, WindowSlots
  <2>4. LastPos(v, i) = seq_of(n - M - 1)
    BY <1>4, <1>5, <2>3
  <2> QED BY <1>2, <1>3, <1>4, <2>3, <2>4, Zenon DEF Pos
<1> QED BY <1>1, <1>3, <1>6, <1>7

\* Offsets below half the range come out with their sign.
LEMMA OffsetIs ==
    ASSUME NEW v, NEW i, NEW r \in Seqs, NEW a \in Int, NEW b \in Int,
           LastPos(v, i) = Pos(r, a), LastPos(v, 0) = Pos(r, b),
           a - b < 2 * M, b - a < 2 * M
    PROVE  Offset(v, i) = a - b
<1>1. PICK d \in Int : d = a - b
  OBVIOUS
<1>2. /\ M \in Nat \ {0} /\ W \in Nat \ {0} /\ 4 * M <= W /\ r \in Int
  BY Ranges, GeometryAssumption DEF Seqs
<1>3. seq_of(Pos(r, a) - Pos(r, b)) = d % W
  <2>1. PICK x \in Int, y \in Int : x = r + a /\ y = r + b
    BY <1>2
  <2>2. x % W \in Int /\ y % W \in Int
    BY <1>2, <2>1, ModDef
  <2>3. ((x % W) - (y % W)) % W = ((x % W) - y) % W
    BY <1>2, <2>2, ModSub, Zenon
  <2>4. ((x % W) + (-y)) % W = (x + (-y)) % W
    <3>1. -y \in Int
      OBVIOUS
    <3> QED BY <1>2, <3>1, ModAdd, Zenon
  <2>5. (x % W) + (-y) = (x % W) - y /\ x + (-y) = d
    BY <1>1, <1>2, <2>1, <2>2
  <2> QED BY <2>1, <2>3, <2>4, <2>5, Zenon DEF Pos, seq_of
<1>4. CASE d >= 0
  <2>1. d \in 0 .. W - 1 /\ ~(2 * d >= W)
    BY <1>1, <1>2, <1>4
  <2>2. d % W = d
    BY <1>2, <2>1, ModSmall
  <2> QED BY <1>1, <1>3, <2>1, <2>2 DEF Offset
<1>5. CASE d < 0
  <2>1. PICK e \in 0 .. W - 1 : e = d + W /\ 2 * e >= W /\ e - W = d
    BY <1>1, <1>2, <1>5
  <2>2. d % W = e
    <3>1. W * 1 = W /\ d + W * 1 = e /\ 1 \in Int
      BY <1>2, <2>1
    <3>2. (d + W * 1) % W = d % W
      BY <1>2, <3>1, ModShift, Zenon
    <3>3. e % W = e
      BY <1>2, ModSmall
    <3> QED BY <3>1, <3>2, <3>3, Zenon
  <2> QED BY <1>1, <1>3, <2>1, <2>2 DEF Offset
<1> QED BY <1>1, <1>4, <1>5

\* The end of the window is at the lowest offset, wherever slot 0 is in it.
LEMMA EndIs ==
    ASSUME NEW v, NEW r \in Seqs, NEW a \in Int, NEW m \in Int,
           LastPos(v, 0) = Pos(r, a - M), Min(Offsets(v, Slots)) = m
    PROVE  WindowEnd(v) = Pos(r, a + m)
<1>1. PICK n \in Seqs, x \in Int, y \in Int :
        n = Pos(r, x) /\ x = a - M /\ y = m + M /\ n \in Int /\ r \in Int /\ x + y = a + m
  <2>1. a - M \in Int /\ m + M \in Int /\ r \in Int /\ (a - M) + (m + M) = a + m
    BY Ranges DEF Seqs
  <2>2. Pos(r, a - M) \in Seqs
    BY <2>1, SeqOf, Ranges DEF Pos, Seqs
  <2>3. Pos(r, a - M) \in Int
    BY <2>2, Ranges DEF Seqs
  <2> QED BY <2>1, <2>2, <2>3, Zenon
<1>2. n + m + M = n + y
  BY <1>1, Ranges
<1>3. WindowEnd(v) = Pos(n, y)
  BY <1>1, <1>2 DEF WindowEnd, Pos
<1>4. Pos(Pos(r, x), y) = Pos(r, x + y)
  BY <1>1, PosAdd
<1> QED BY <1>1, <1>3, <1>4

\* Whatever the words do while they are loaded, the last positions of the slots
\* of the producer's segment stay: its scan ends at its place.
LEMMA ProdScanEnd ==
    ASSUME TypeOK, M >= 2, NEW v \in Seq(Seqs), Len(v) = M, ProdLoads(v)
    PROVE  WindowEnd(v) = tailAt.pos
<1>1. PICK r \in Seqs : r = tailAt.pos
  BY HeadPlace
<1>2. PICK K \in [Slots -> 0 .. M - 1] :
        \A i \in Slots : Slot(Pos(r, K[i])) = i /\ v[i + 1] \in {Pos(r, K[i]), Pos(r, K[i] + 1)}
  <2> DEFINE P(i, k) == Slot(Pos(r, k)) = i /\ v[i + 1] \in {Pos(r, k), Pos(r, k + 1)}
  <2>1. \A i \in Slots : \E k \in 0 .. M - 1 : P(i, k)
    BY <1>1 DEF ProdLoads, Slots
  <2> HIDE DEF P
  <2>2. PICK K : K = [i \in Slots |-> CHOOSE k \in 0 .. M - 1 : P(i, k)]
    OBVIOUS
  <2>3. K \in [Slots -> 0 .. M - 1] /\ \A i \in Slots : P(i, K[i])
    BY <2>1, <2>2, Zenon
  <2> QED BY <2>3 DEF P
<1>3. /\ 0 \in Slots /\ M \in Nat \ {0} /\ r \in Int
      /\ \A i \in Slots : K[i] \in 0 .. M - 1 /\ K[i] \in Int
  <2>1. 0 \in Slots /\ M \in Nat \ {0} /\ r \in Int
    BY Ranges DEF Slots, Seqs
  <2>2. \A i \in Slots : K[i] \in 0 .. M - 1
    OBVIOUS
  <2>3. 0 .. M - 1 \subseteq Int
    BY <2>1
  <2> QED BY <2>1, <2>2, <2>3
<1>4. ASSUME NEW i \in Slots
      PROVE  LastPos(v, i) = Pos(r, K[i] - M)
  <2>1. PICK k \in 0 .. M - 1 : k = K[i]
    BY <1>3
  <2>2. /\ k \in Int /\ k + 1 \in Int /\ (k + 1) - 1 = k /\ (k + 1) - M - 1 = k - M
    BY <1>3
  <2>3. Slot(Pos(r, k)) = i /\ (v[i + 1] = Pos(r, k) \/ v[i + 1] = Pos(r, k + 1))
    BY <1>2, <2>1
  <2>4. CASE v[i + 1] = Pos(r, k)
    <3>1. LastPos(v, i) = Pos(r, k - M)
      BY <2>2, <2>3, <2>4, LoadIs
    <3> QED BY <2>1, <3>1
  <2>5. CASE v[i + 1] = Pos(r, k + 1)
    <3>1. PICK x \in Int : x = k + 1 /\ x - 1 = k /\ x - M - 1 = k - M
      BY <2>2
    <3>2. v[i + 1] = Pos(r, x) /\ Slot(Pos(r, x - 1)) = i
      BY <2>3, <2>5, <3>1
    <3>3. LastPos(v, i) = Pos(r, x - M - 1)
      BY <3>2, LoadIs
    <3> QED BY <2>1, <3>1, <3>3
  <2> QED BY <2>3, <2>4, <2>5
<1>5. ASSUME NEW i \in Slots
      PROVE  Offset(v, i) = K[i] - K[0]
  <2>1. PICK a \in Int, b \in Int : a = K[i] - M /\ b = K[0] - M
    BY <1>3
  <2>2. a - b = K[i] - K[0] /\ a - b < 2 * M /\ b - a < 2 * M
    <3>1. PICK k \in 0 .. M - 1, l \in 0 .. M - 1 : k = K[i] /\ l = K[0]
      BY <1>3
    <3>2. a = k - M /\ b = l - M
      BY <2>1, <3>1
    <3>3. a - b = k - l /\ a - b < 2 * M /\ b - a < 2 * M
      BY <1>3, <3>2
    <3> QED BY <3>1, <3>3
  <2>3. LastPos(v, i) = Pos(r, a) /\ LastPos(v, 0) = Pos(r, b)
    BY <1>3, <1>4, <2>1
  <2>4. Offset(v, i) = a - b
    BY <2>2, <2>3, OffsetIs
  <2> QED BY <2>2, <2>4
<1>6. PICK z \in Slots : K[z] = 0
  <2>1. Pos(r, 0) = r /\ 0 \in 0 .. M - 1 /\ Slot(r) \in Slots
    BY WindowSlots
  <2>2. Slot(Pos(r, K[Slot(r)])) = Slot(Pos(r, 0)) /\ K[Slot(r)] \in 0 .. M - 1
    BY <1>2, <1>3, <2>1
  <2>3. K[Slot(r)] = 0
    BY <2>1, <2>2, WindowSlots
  <2> QED BY <2>1, <2>3
<1>7. Min(Offsets(v, Slots)) = 0 - K[0]
  <2>1. PICK S : S = Offsets(v, Slots)
    OBVIOUS
  <2>2. \A x \in S : \E i \in Slots : x = K[i] - K[0]
    BY <1>5, <2>1 DEF Offsets
  <2>3. S \in SUBSET Int /\ \A x \in S : 0 - K[0] <= x
    BY <1>3, <2>2
  <2>4. 0 - K[0] \in S
    BY <1>3, <1>5, <1>6, <2>1 DEF Offsets
  <2> QED BY <2>1, <2>3, <2>4, MinIs
<1>8. PICK a \in Int, m \in Int : a = K[0] /\ m = 0 - K[0] /\ a + m = 0
  BY <1>3
<1>9. LastPos(v, 0) = Pos(r, a - M) /\ Min(Offsets(v, Slots)) = m
  BY <1>3, <1>4, <1>7, <1>8
<1>10. WindowEnd(v) = Pos(r, a + m)
  BY <1>9, EndIs
<1> QED BY <1>1, <1>8, <1>10, WindowSlots

\* The values v are of the positions from r on, of which the K[i]-th is in slot i,
\* each claimable or committed.
OfWindow(v, r, K) ==
    \A i \in Slots : /\ Slot(Pos(r, K[i])) = i
                     /\ v[i + 1] \in {Pos(r, K[i]), CommitSeq(Pos(r, K[i]))}

\* The last position of slot i in them is the Q[i]-th from r on.
LastOfWindow(v, r, K, Q) ==
    \A i \in Slots : /\ Q[i] = K[i] - (IF i \in Unread(v) THEN 0 ELSE M)
                     /\ LastPos(v, i) = Pos(r, Q[i]) /\ Offset(v, i) = Q[i] - Q[0]

\* The values of a window tell where each slot's last position is, and which of
\* them are unread.
LEMMA LoadsPlace ==
    ASSUME M >= 2, NEW v \in Seq(Seqs), Len(v) = M, NEW r \in Seqs, NEW K \in [Slots -> 0 .. M - 1],
           OfWindow(v, r, K)
    PROVE  /\ \E Q \in [Slots -> Int] : LastOfWindow(v, r, K, Q)
           /\ \A i \in Slots : i \in Unread(v) <=> v[i + 1] = CommitSeq(Pos(r, K[i]))
<1>1. PICK U : U = Unread(v)
  OBVIOUS
<1>2. PICK Q \in [Slots -> Int] : \A i \in Slots : Q[i] = K[i] - (IF i \in U THEN 0 ELSE M)
  <2>1. PICK Q : Q = [i \in Slots |-> K[i] - (IF i \in U THEN 0 ELSE M)]
    OBVIOUS
  <2>2. \A i \in Slots : K[i] - (IF i \in U THEN 0 ELSE M) \in Int
    BY Ranges
  <2> QED BY <2>1, <2>2
<1>3. /\ 0 \in Slots /\ M \in Nat \ {0} /\ r \in Int
      /\ \A i \in Slots : /\ K[i] \in 0 .. M - 1 /\ K[i] \in Int /\ Q[i] \in Int
                          /\ 0 - M <= Q[i] /\ Q[i] < M
                          /\ (i \in U => Q[i] = K[i]) /\ (i \notin U => Q[i] = K[i] - M)
  <2>1. 0 \in Slots /\ M \in Nat \ {0} /\ r \in Int
    BY Ranges DEF Slots, Seqs
  <2>2. ASSUME NEW i \in Slots
        PROVE  /\ K[i] \in 0 .. M - 1 /\ K[i] \in Int /\ Q[i] \in Int
               /\ 0 - M <= Q[i] /\ Q[i] < M
               /\ (i \in U => Q[i] = K[i]) /\ (i \notin U => Q[i] = K[i] - M)
    <3>1. PICK k \in 0 .. M - 1 : k = K[i]
      OBVIOUS
    <3>2. Q[i] = k - (IF i \in U THEN 0 ELSE M)
      BY <1>2, <3>1
    <3> QED BY <2>1, <3>1, <3>2
  <2> QED BY <2>1, <2>2
<1>4. ASSUME NEW i \in Slots
      PROVE  /\ LastPos(v, i) = Pos(r, Q[i])
             /\ i \in U <=> v[i + 1] = CommitSeq(Pos(r, K[i]))
  <2>1. PICK k \in 0 .. M - 1 : k = K[i] /\ k \in Int
    BY <1>3
  <2>2. Slot(Pos(r, k)) = i /\ (v[i + 1] = Pos(r, k) \/ v[i + 1] = CommitSeq(Pos(r, k)))
    BY <2>1 DEF OfWindow
  <2>3. CASE v[i + 1] = Pos(r, k)
    <3>1. i \notin U /\ LastPos(v, i) = Pos(r, k - M)
      BY <1>1, <2>1, <2>2, <2>3, LoadIs
    <3>2. Pos(r, k) # CommitSeq(Pos(r, k))
      <4>1. Pos(r, k) \in Seqs
        BY <1>3, <2>1, PosAdd
      <4> QED BY <4>1, SeqsDiffer
    <3> QED BY <1>3, <2>1, <2>3, <3>1, <3>2
  <2>4. CASE v[i + 1] = CommitSeq(Pos(r, k))
    <3>1. PICK x \in Int, y \in Int : /\ x = k + M + 1 /\ y = M + 1 /\ k + y = x /\ x - 1 = k + M
                                      /\ x - M - 1 = k
      BY <1>3, <2>1
    <3>2. v[i + 1] = Pos(r, x)
      <4>1. PICK n \in Seqs : n = Pos(r, k)
        BY <1>3, <2>1, PosAdd
      <4>2. n + M + 1 = n + y
        BY <3>1, <1>3, Ranges DEF Seqs
      <4>3. Pos(n, y) = Pos(r, x)
        BY <1>3, <2>1, <3>1, <4>1, PosAdd
      <4> QED BY <2>4, <4>1, <4>2, <4>3, Zenon DEF CommitSeq, Pos
    <3>3. Slot(Pos(r, x - 1)) = i
      <4>1. PICK n \in Seqs : n = Pos(r, k)
        BY <1>3, <2>1, PosAdd
      <4>2. M \in Int /\ Pos(n, M) = Pos(r, x - 1)
        BY <1>3, <2>1, <3>1, <4>1, PosAdd
      <4> QED BY <2>2, <4>1, <4>2, WindowSlots
    <3>4. i \in U /\ LastPos(v, i) = Pos(r, k)
      BY <1>1, <3>1, <3>2, <3>3, LoadIs
    <3> QED BY <1>3, <2>1, <2>4, <3>4
  <2> QED BY <2>2, <2>3, <2>4
<1>5. ASSUME NEW i \in Slots
      PROVE  Offset(v, i) = Q[i] - Q[0]
  <2>1. PICK a \in Int, b \in Int : a = Q[i] /\ b = Q[0]
    BY <1>3
  <2>2. a - b < 2 * M /\ b - a < 2 * M
    <3>1. 0 - M <= a /\ a < M /\ 0 - M <= b /\ b < M
      BY <1>3, <2>1
    <3> QED BY <1>3, <3>1
  <2>3. LastPos(v, i) = Pos(r, a) /\ LastPos(v, 0) = Pos(r, b)
    BY <1>3, <1>4, <2>1
  <2>4. Offset(v, i) = a - b
    BY <2>2, <2>3, OffsetIs
  <2> QED BY <2>1, <2>4
<1>6. LastOfWindow(v, r, K, Q)
  BY <1>1, <1>2, <1>4, <1>5 DEF LastOfWindow
<1>7. \A i \in Slots : i \in Unread(v) <=> v[i + 1] = CommitSeq(Pos(r, K[i]))
  BY <1>1, <1>4
<1> QED BY <1>6, <1>7

\* A scan that finds one window has found the consumer's place: a commit that it
\* missed, where it saw a later one, leaves a hole in the window.
LEMMA ConsScanEnd ==
    ASSUME TypeOK, M >= 2, NEW v \in Seq(Seqs), Len(v) = M, ConsLoads(v), OneWindow(v)
    PROVE  FirstUnread(v) = headAt.pos
<1>1. PICK r \in Seqs : r = headAt.pos
  BY HeadPlace
<1>2. PICK K \in [Slots -> 0 .. M - 1] :
        \A i \in Slots : /\ Slot(Pos(r, K[i])) = i
                         /\ v[i + 1] \in {Pos(r, K[i]), CommitSeq(Pos(r, K[i]))}
  <2> DEFINE P(i, k) == Slot(Pos(r, k)) = i /\ v[i + 1] \in {Pos(r, k), CommitSeq(Pos(r, k))}
  <2>1. \A i \in Slots : \E k \in 0 .. M - 1 : P(i, k)
    BY <1>1 DEF ConsLoads, Slots
  <2> HIDE DEF P
  <2>2. PICK K : K = [i \in Slots |-> CHOOSE k \in 0 .. M - 1 : P(i, k)]
    OBVIOUS
  <2>3. K \in [Slots -> 0 .. M - 1] /\ \A i \in Slots : P(i, K[i])
    BY <2>1, <2>2, Zenon
  <2> QED BY <2>3 DEF P
<1>3. PICK U : U = Unread(v)
  OBVIOUS
<1>4. PICK Q \in [Slots -> Int] : LastOfWindow(v, r, K, Q)
  <2>1. OfWindow(v, r, K)
    BY <1>2 DEF OfWindow
  <2> QED BY <2>1, LoadsPlace
<1>5. /\ 0 \in Slots /\ M \in Nat \ {0} /\ r \in Int
      /\ \A i \in Slots : /\ K[i] \in 0 .. M - 1 /\ K[i] \in Int /\ Q[i] \in Int
                          /\ 0 - M <= Q[i] /\ Q[i] < M
                          /\ (i \in U => Q[i] = K[i]) /\ (i \notin U => Q[i] = K[i] - M)
  <2>1. 0 \in Slots /\ M \in Nat \ {0} /\ r \in Int
    BY Ranges DEF Slots, Seqs
  <2>2. ASSUME NEW i \in Slots
        PROVE  /\ K[i] \in 0 .. M - 1 /\ K[i] \in Int /\ Q[i] \in Int
               /\ 0 - M <= Q[i] /\ Q[i] < M
               /\ (i \in U => Q[i] = K[i]) /\ (i \notin U => Q[i] = K[i] - M)
    <3>1. PICK k \in 0 .. M - 1 : k = K[i]
      OBVIOUS
    <3>2. Q[i] = k - (IF i \in U THEN 0 ELSE M)
      BY <1>3, <1>4, <3>1 DEF LastOfWindow
    <3> QED BY <2>1, <3>1, <3>2
  <2> QED BY <2>1, <2>2
<1>6. \A i \in Slots : LastPos(v, i) = Pos(r, Q[i])
  BY <1>4 DEF LastOfWindow
<1>7. \A i \in Slots : Offset(v, i) = Q[i] - Q[0]
  BY <1>4 DEF LastOfWindow
<1>8. PICK z \in Slots : K[z] = 0
  <2>1. Pos(r, 0) = r /\ 0 \in 0 .. M - 1 /\ Slot(r) \in Slots
    BY WindowSlots
  <2>2. Slot(Pos(r, K[Slot(r)])) = Slot(Pos(r, 0)) /\ K[Slot(r)] \in 0 .. M - 1
    BY <1>2, <1>5, <2>1
  <2>3. K[Slot(r)] = 0
    BY <2>1, <2>2, WindowSlots
  <2> QED BY <2>1, <2>3
<1>9. PICK q \in Int : q = Q[0]
  BY <1>5
<1>10. U \subseteq Slots
  BY <1>3 DEF Unread
<1>11. PICK lo \in Int, hi \in Int :
         /\ lo = Min(Offsets(v, Slots)) /\ hi = Max(Offsets(v, Slots))
         /\ \A i \in Slots : lo <= Q[i] - q /\ Q[i] - q <= hi
         /\ \E i \in Slots : lo = Q[i] - q
         /\ \E i \in Slots : hi = Q[i] - q
  <2>1. PICK S : S = Offsets(v, Slots)
    OBVIOUS
  <2>2. /\ \A x \in S : \E i \in Slots : x = Q[i] - q
        /\ \A i \in Slots : Q[i] - q \in S
    BY <1>7, <1>9, <2>1 DEF Offsets
  <2>3. PICK b \in Int, t \in Int : b = (0 - M) - q /\ t = M - q
    <3>1. (0 - M) - q \in Int /\ M - q \in Int
      BY <1>5
    <3> QED BY <3>1, Zenon
  <2>4. S \in SUBSET Int /\ S # {} /\ \A x \in S : b <= x /\ x <= t
    <3>1. \A i \in Slots : Q[i] - q \in Int /\ b <= Q[i] - q /\ Q[i] - q <= t
      <4> SUFFICES ASSUME NEW i \in Slots
                   PROVE  Q[i] - q \in Int /\ b <= Q[i] - q /\ Q[i] - q <= t
        OBVIOUS
      <4>1. PICK y \in Int : y = Q[i] /\ 0 - M <= y /\ y < M
        BY <1>5
      <4>2. y - q \in Int /\ (0 - M) - q <= y - q /\ y - q <= M - q
        BY <1>5, <4>1
      <4> QED BY <2>3, <4>1, <4>2
    <3> QED BY <1>5, <2>2, <3>1
  <2>5. Min(S) \in S /\ \A x \in S : Min(S) <= x
    BY <2>4, MinBounded
  <2>6. Max(S) \in S /\ \A x \in S : x <= Max(S)
    BY <2>4, MaxBounded
  <2> QED BY <2>1, <2>2, <2>4, <2>5, <2>6
<1>12. PICK n \in Nat : n = Cardinality(U)
  <2>1. IsFiniteSet(Slots)
    BY Ranges, FS_Interval DEF Slots
  <2>2. IsFiniteSet(U)
    BY <1>10, <2>1, FS_Subset
  <2> QED BY <2>2, FS_CardinalityType
<1>13. /\ hi - lo = M - 1
       /\ U = {} \/ Min(Offsets(v, U)) = hi - n + 1
  BY <1>3, <1>11, <1>12 DEF OneWindow
<1>14. lo = (n - M) - q
  <2>1. ASSUME z \notin U
        PROVE  U = {} /\ lo = (0 - M) - q
    <3>1. Q[z] = 0 - M
      BY <1>5, <1>8, <2>1
    <3>2. lo = (0 - M) - q
      <4>1. lo <= (0 - M) - q
        BY <1>11, <3>1
      <4>2. PICK i \in Slots : lo = Q[i] - q
        BY <1>11
      <4>3. PICK y \in Int : y = Q[i] /\ 0 - M <= y
        BY <1>5
      <4> QED BY <1>5, <4>1, <4>2, <4>3
    <3>3. ASSUME NEW i \in U
          PROVE  FALSE
      <4>1. Q[i] >= 0 /\ Q[i] - q <= hi
        BY <1>5, <1>10, <1>11
      <4> QED BY <1>5, <1>10, <1>13, <3>2, <4>1
    <3> QED BY <3>2, <3>3
  <2>2. CASE U = {}
    <3>1. z \notin U /\ n = 0
      BY <1>12, <2>2, FS_EmptySet
    <3> QED BY <2>1, <3>1
  <2>3. CASE U # {}
    <3>1. z \in U
      BY <2>1, <2>3
    <3>2. Min(Offsets(v, U)) = 0 - q
      <4>1. PICK S : S = Offsets(v, U)
        OBVIOUS
      <4>2. /\ \A x \in S : \E i \in U : x = Q[i] - q
            /\ 0 - q \in S
        BY <1>5, <1>7, <1>8, <1>9, <1>10, <3>1, <4>1 DEF Offsets
      <4>3. S \in SUBSET Int /\ \A x \in S : 0 - q <= x
        BY <1>5, <1>10, <4>2
      <4> QED BY <4>1, <4>2, <4>3, MinIs
    <3> QED BY <1>5, <1>13, <2>3, <3>2
  <2> QED BY <2>2, <2>3
<1>15. PICK a \in Int : LastPos(v, 0) = Pos(r, a - M) /\ a + lo = n
  <2>1. PICK a \in Int : a = q + M /\ a - M = q /\ a + lo = n
    BY <1>5, <1>14
  <2> QED BY <1>5, <1>6, <1>9, <2>1
<1>16. WindowEnd(v) = Pos(r, n)
  <2>1. WindowEnd(v) = Pos(r, a + lo)
    BY <1>11, <1>15, EndIs
  <2> QED BY <1>15, <2>1
<1>17. PICK e \in Seqs, m \in Int : e = Pos(r, n) /\ m = 0 - n /\ n + m = 0 /\ e - n = e + m
  <2>1. n \in Int
    OBVIOUS
  <2>2. Pos(r, n) \in Seqs
    BY <1>5, <2>1, PosAdd
  <2>3. Pos(r, n) \in Int
    BY <2>2, Ranges DEF Seqs
  <2> QED BY <2>1, <2>2, <2>3
<1>18. Pos(e, m) = r
  <2>1. Pos(Pos(r, n), m) = Pos(r, n + m)
    BY <1>5, <1>17, PosAdd
  <2> QED BY <1>17, <2>1, WindowSlots
<1> QED BY <1>1, <1>3, <1>12, <1>16, <1>17, <1>18 DEF FirstUnread, Pos

-----------------------------------------------------------------------------
(* What a side's step leaves of the other.                                 *)

\* The messages on the way stay in their slots.
BufKept ==
    \A i \in 1 .. Len(chain) :
        buf'[chain[i].seg][Slot(chain[i].pos)] = buf[chain[i].seg][Slot(chain[i].pos)]

\* A step of the producer other than its commit, and one of the consumer other
\* than its release.
ProdStill ==
    /\ UNCHANGED <<word, chain, tailAt, consVars>> /\ BufKept /\ Taken' = Taken
    /\ \A s \in Segs : s # tailAt.seg => prod_resume'[s] = prod_resume[s]
ConsStill ==
    /\ UNCHANGED <<word, chain, tailAt, buf, prodVars>> /\ GivenBack' = GivenBack
    /\ given' \in {given, GivenBack}
    /\ \A s \in Segs : s # headAt.seg => cons_resume'[s] = cons_resume[s]

\* What the consumer knows of the ring stays true while its oldest message does.
LEMMA ConsKept ==
    ASSUME ConsInv, UNCHANGED consVars, headAt' = headAt, GivenBack' = GivenBack,
           chain # <<>> => /\ chain' # <<>> /\ WordOf(headAt)' = WordOf(headAt)
                           /\ buf'[headAt.seg][Slot(headAt.pos)] = buf[headAt.seg][Slot(headAt.pos)]
    PROVE  ConsInv'
<1> USE DEF consVars, consCp
<1>1. ConsCheckpoint'
  <2>1. ConsCheckpoint
    BY DEF ConsInv
  <2> QED BY <2>1 DEF ConsCheckpoint, ConsIntent, Committed, Plain
<1>2. cpc # "none" => ConsHolder'
  <2>1. cpc # "none" => ConsHolder
    BY DEF ConsInv
  <2> QED BY <2>1 DEF ConsHolder, Holding, Giving
<1>3. cpc # "none" => ConsStores'
  <2>1. cpc # "none" => ConsStores
    BY DEF ConsInv
  <2> QED BY <2>1 DEF ConsStores
<1>4. \A v : ConsLoads(v) => ConsLoads(v)'
  BY DEF ConsLoads
<1>5. IF cpc = "scan" THEN ConsLoads(cscan)' ELSE cscan = <<>>
  BY <1>4 DEF ConsInv
<1> QED BY <1>1, <1>2, <1>3, <1>5 DEF ConsInv

\* What the producer knows stays true while its place does and room only grows.
LEMMA ProdKept ==
    ASSUME TypeOK, ProdInv, UNCHANGED <<prodVars, tailAt, buf>>,
           NEW u \in Nat, Backlog(tailAt.seg)' = u, NEW w \in Nat, w = Backlog(tailAt.seg), u <= w,
           Seen' \subseteq Seen
    PROVE  ProdInv'
<1> USE DEF prodVars, prodCp
<1>1. Taken' = Taken
  BY DEF Taken
<1>2. (w < M => u < M) /\ (w + 1 < M => u + 1 < M)
  BY Ranges
<1>3. ProdCheckpoint'
  <2>1. ProdCheckpoint
    BY DEF ProdInv
  <2>2. ASSUME NEW i \in Intents, ProdIntent(i)
        PROVE  ProdIntent(i)'
    BY <1>2, <2>2 DEF ProdIntent
  <2> QED BY <2>1, <2>2 DEF ProdCheckpoint, TypeOK, ProdType
<1>4. ppc # "none" => ProdHolder'
  <2>1. ppc # "none" => ProdHolder
    BY DEF ProdInv
  <2> QED BY <1>1, <1>2, <2>1 DEF ProdHolder, Switching, Ahead, Writing, Storing
<1>5. ppc # "none" => ProdStores'
  <2>1. ppc # "none" => ProdStores
    BY DEF ProdInv
  <2> QED BY <1>1, <2>1 DEF ProdStores, Switching, LastStored, Storing
<1>6. \A v : ProdLoads(v) => ProdLoads(v)'
  BY DEF ProdLoads
<1>7. IF ppc = "scan" THEN ProdLoads(pscan)' ELSE pscan = <<>>
  BY <1>6 DEF ProdInv
<1> QED BY <1>3, <1>4, <1>5, <1>7 DEF ProdInv

\* A step of the producer that leaves the ring where it is.
LEMMA ProdFrame ==
    ASSUME TypeOK, Core, ProdStill
    PROVE  /\ Core' /\ headAt' = headAt /\ \A s \in Segs : Backlog(s)' = Backlog(s)
           /\ GivenBack' = GivenBack /\ Used' = Used /\ Seen' = Seen
<1> USE DEF ProdStill, consVars, consCp
<1>1. headAt' = headAt
  BY DEF headAt
<1>2. GivenBack' = GivenBack
  BY <1>1 DEF GivenBack
<1>3. Used' = Used /\ Seen' = Seen
  BY <1>2 DEF Used, Seen
<1>4. \A s \in Segs : PPos(s)' = PPos(s) /\ CPos(s)' = CPos(s)
  BY <1>1 DEF PPos, CPos
<1> QED BY <1>1, <1>2, <1>3, <1>4, CoreKept

\* A step of the producer that leaves the ring where it is keeps the invariant if
\* it keeps the producer's part.
LEMMA ProdKeeps ==
    ASSUME IInv, TypeOK', ProdStill, ProdInv'
    PROVE  IInv'
<1>1. TypeOK /\ Core /\ SeenAgrees /\ ChainFull /\ ConsInv
  BY DEF IInv
<1>2. /\ Core' /\ headAt' = headAt /\ GivenBack' = GivenBack /\ Used' = Used /\ Seen' = Seen
  BY <1>1, ProdFrame
<1>3. SeenAgrees'
  BY <1>1, <1>2 DEF SeenAgrees
<1>4. ChainFull'
  BY <1>1 DEF ChainFull, ProdStill, BufKept
<1>5. chain # <<>> =>
        /\ chain' # <<>> /\ WordOf(headAt)' = WordOf(headAt)
        /\ buf'[headAt.seg][Slot(headAt.pos)] = buf[headAt.seg][Slot(headAt.pos)]
  <2>1. chain # <<>> => 1 \in 1 .. Len(chain) /\ headAt = chain[1]
    BY <1>1, HeadPlace
  <2> QED BY <1>2, <2>1 DEF ProdStill, BufKept, WordOf
<1>6. ConsInv'
  BY <1>1, <1>2, <1>5, ConsKept DEF ProdStill
<1> QED BY <1>2, <1>3, <1>4, <1>6 DEF IInv

\* A step of the consumer that leaves the ring where it is.
LEMMA ConsFrame ==
    ASSUME TypeOK, Core, SeenAgrees, ConsStill
    PROVE  /\ Core' /\ headAt' = headAt /\ \A s \in Segs : Backlog(s)' = Backlog(s)
           /\ SeenAgrees' /\ Seen' \subseteq Seen
<1> USE DEF ConsStill, prodVars, prodCp
<1>1. headAt' = headAt
  BY DEF headAt
<1>2. Taken' = Taken
  BY DEF Taken
<1>3. Used' = Used
  BY <1>2 DEF Used
<1>4. \A s \in Segs : PPos(s)' = PPos(s) /\ CPos(s)' = CPos(s)
  BY <1>1 DEF PPos, CPos
<1>5. Seen' = Seen \/ Seen' = Used
  BY <1>2 DEF Used, Seen
<1>6. SeenAgrees' /\ Seen' \subseteq Seen
  BY <1>3, <1>5 DEF SeenAgrees
<1> QED BY <1>1, <1>3, <1>4, <1>6, CoreKept

\* The same of the consumer.
LEMMA ConsKeeps ==
    ASSUME IInv, TypeOK', ConsStill, ConsInv'
    PROVE  IInv'
<1>1. TypeOK /\ Core /\ SeenAgrees /\ ChainFull /\ ProdInv
  BY DEF IInv
<1>2. /\ Core' /\ SeenAgrees' /\ Seen' \subseteq Seen /\ \A s \in Segs : Backlog(s)' = Backlog(s)
  BY <1>1, ConsFrame
<1>3. ChainFull'
  BY <1>1 DEF ChainFull, ConsStill
<1>4. ProdInv'
  <2>1. PICK u \in Nat : u = Backlog(tailAt.seg)
    BY <1>1, HeadPlace, SegPositions
  <2>2. Backlog(tailAt.seg)' = u /\ u <= u
    BY <1>1, <1>2, <2>1, HeadPlace DEF ConsStill
  <2> QED BY <1>1, <1>2, <2>1, <2>2, ProdKept DEF ConsStill
<1> QED BY <1>2, <1>3, <1>4 DEF IInv

-----------------------------------------------------------------------------
(* The producer's steps that store nothing shared but a message.           *)

\* The checkpoint holds as long as the stored words and the ring do.
LEMMA CheckpointKept ==
    ASSUME TypeOK, Core, ProdCheckpoint, ProdStill, UNCHANGED prodCp
    PROVE  ProdCheckpoint'
<1>1. /\ Seen' = Seen /\ \A s \in Segs : Backlog(s)' = Backlog(s)
  BY ProdFrame
<1>2. \A i \in Intents : ProdIntent(i) => ProdIntent(i)'
  BY <1>1 DEF ProdIntent, ProdStill, prodCp, Intents
<1> QED BY <1>2 DEF ProdCheckpoint, ProdStill, prodCp, TypeOK, ProdType

\* A step that keeps the checkpoint leaves the ring alone when it keeps the
\* messages.
LEMMA PrivateStill ==
    ASSUME IInv, UNCHANGED <<word, chain, tailAt, consVars, prodCp>>, BufKept, ProdType',
           buf' \in [Segs -> [Slots -> Msg \cup {NoMsg}]]
    PROVE  /\ ProdStill /\ TypeOK' /\ ProdCheckpoint' /\ Taken' = Taken /\ Seen' = Seen
           /\ Backlog(tailAt.seg)' = Backlog(tailAt.seg) /\ tailAt' = tailAt
<1>1. ProdStill
  BY DEF ProdStill, prodCp, Taken
<1>2. TypeOK'
  BY DEF IInv, TypeOK, RingType, ConsType, consVars, consCp
<1>3. ProdCheckpoint'
  BY <1>1, CheckpointKept DEF IInv, ProdInv
<1>4. Seen' = Seen /\ Backlog(tailAt.seg)' = Backlog(tailAt.seg)
  BY <1>1, ProdFrame, HeadPlace DEF IInv, ProdStill
<1> QED BY <1>1, <1>2, <1>3, <1>4 DEF ProdStill

\* A holder's place, in short.
LEMMA HolderPlace ==
    ASSUME IInv, ppc # "none"
    PROVE  /\ ProdHolder /\ ProdStores /\ ProdCheckpoint /\ pst.cur = tailAt.seg /\ prod_role = "held"
           /\ pst.cur \in Segs /\ pst.pos \in Seqs /\ tailAt.pos \in Seqs
           /\ TypeOK /\ Core /\ ProdType
BY HeadPlace DEF IInv, ProdInv, ProdHolder, TypeOK, ProdType

\* A write guard is over a claimable slot, so there is room for its commit.
LEMMA WriteGuardStep ==
    ASSUME IInv, WriteGuard
    PROVE  IInv'
<1> USE DEF WriteGuard
<1>1. ProdHolder /\ ProdStores /\ pst.cur = tailAt.seg /\ TypeOK /\ Core /\ ProdType
  BY HolderPlace
<1>2. ProdType' /\ BufKept /\ UNCHANGED <<word, chain, tailAt, consVars, prodCp, buf>>
  BY <1>1 DEF ProdType, ProdPcs, BufKept, slotVars, history, prodCp
<1>3. /\ ProdStill /\ TypeOK' /\ ProdCheckpoint' /\ Taken' = Taken /\ Seen' = Seen
      /\ Backlog(tailAt.seg)' = Backlog(tailAt.seg) /\ tailAt' = tailAt
  BY <1>2, PrivateStill DEF IInv, TypeOK, RingType
<1>4. pst.pos = tailAt.pos /\ Backlog(tailAt.seg) < M
  <2>a. ppc = "idle"
    OBVIOUS
  <2>1. pst.pos = tailAt.pos
    <3> HIDE DEF WriteGuard
    <3> QED BY <1>1, <2>a DEF ProdHolder, Ahead, Storing
  <2>2. CASE pst.claimable = TRUE
    BY <1>1, <2>1, <2>2 DEF ProdHolder
  <2>3. CASE word[pst.cur][Slot(pst.pos)] = Claimable(pst.pos)
    BY <1>1, <2>1, <2>3, TailPlace, HeadPlace, PlainWord DEF WordOf
  <2> QED BY <1>1, <2>1, <2>2, <2>3 DEF ProdType
<1>5. ProdHolder'
  BY <1>1, <1>2, <1>3, <1>4 DEF ProdHolder, ProdType, Switching, Ahead, Writing, Storing, prodCp
<1>6. ProdStores'
  BY <1>1, <1>2, <1>3 DEF ProdStores, ProdHolder, ProdType, Switching, LastStored, Storing, prodCp
<1>7. ProdInv'
  BY <1>3, <1>5, <1>6 DEF IInv, ProdInv
<1> QED BY <1>3, <1>7, ProdKeeps

\* A fill touches no message on the way: its slot is not the place of one.
LEMMA FillApart ==
    ASSUME IInv, Fill
    PROVE  /\ pst.pos = tailAt.pos /\ Backlog(tailAt.seg) < M /\ tailAt.pos \in Seqs
           /\ \E m \in Msg : buf' = [buf EXCEPT ![pst.cur][Slot(pst.pos)] = m]
           /\ Slot(pst.pos) \in Slots /\ buf \in [Segs -> [Slots -> Msg \cup {NoMsg}]]
           /\ BufKept
<1> USE DEF Fill
<1>1. ProdHolder /\ ProdStores /\ pst.cur = tailAt.seg /\ TypeOK /\ Core /\ ProdType /\ pst.cur \in Segs
  BY HolderPlace
<1>2. pst.pos = tailAt.pos /\ Backlog(tailAt.seg) < M /\ tailAt.pos \in Seqs
  BY <1>1, HeadPlace DEF ProdHolder, Ahead, Storing, Writing
<1>3. PICK m \in Msg : buf' = [buf EXCEPT ![pst.cur][Slot(pst.pos)] = m]
  OBVIOUS
<1>4. Slot(pst.pos) \in Slots /\ buf \in [Segs -> [Slots -> Msg \cup {NoMsg}]]
  BY <1>1, <1>2, WindowSlots DEF TypeOK, RingType
<1>5. BufKept
  <2> SUFFICES ASSUME NEW i \in 1 .. Len(chain)
               PROVE  buf'[chain[i].seg][Slot(chain[i].pos)] = buf[chain[i].seg][Slot(chain[i].pos)]
    BY DEF BufKept
  <2>1. PICK s \in Segs, k \in Slots : s = chain[i].seg /\ k = Slot(chain[i].pos)
    BY <1>1, ChainPlace
  <2>2. s = tailAt.seg => k # Slot(tailAt.pos)
    BY <1>1, <1>2, <2>1, TailPlace
  <2> QED BY <1>1, <1>2, <1>3, <1>4, <2>1, <2>2
<1> QED BY <1>2, <1>3, <1>4, <1>5

\* A fill makes the slot of the next message hold one, and disturbs no other.
LEMMA FillStep ==
    ASSUME IInv, Fill
    PROVE  IInv'
<1> USE DEF Fill
<1>1. ProdHolder /\ ProdStores /\ pst.cur = tailAt.seg /\ TypeOK /\ Core /\ ProdType /\ pst.cur \in Segs
  BY HolderPlace
<1>2. pst.pos = tailAt.pos /\ Backlog(tailAt.seg) < M /\ tailAt.pos \in Seqs
  BY FillApart
<1>3. PICK m \in Msg : buf' = [buf EXCEPT ![pst.cur][Slot(pst.pos)] = m]
  OBVIOUS
<1>4. Slot(pst.pos) \in Slots /\ buf \in [Segs -> [Slots -> Msg \cup {NoMsg}]]
  BY FillApart
<1>5. BufKept
  BY FillApart
<1>6. ProdType' /\ UNCHANGED <<word, chain, tailAt, consVars, prodCp>>
  BY <1>1 DEF ProdType, ProdPcs, history, prodCp
<1>7. /\ ProdStill /\ TypeOK' /\ ProdCheckpoint' /\ Taken' = Taken /\ Seen' = Seen
      /\ Backlog(tailAt.seg)' = Backlog(tailAt.seg) /\ tailAt' = tailAt
  <2>1. buf' \in [Segs -> [Slots -> Msg \cup {NoMsg}]]
    BY <1>1, <1>3, <1>4
  <2> QED BY <1>5, <1>6, <2>1, PrivateStill
<1>8. buf'[tailAt.seg][Slot(tailAt.pos)] \in Msg
  BY <1>1, <1>2, <1>3, <1>4
<1>9. ProdHolder'
  BY <1>1, <1>2, <1>6, <1>7, <1>8 DEF ProdHolder, ProdType, Switching, Ahead, Writing, Storing, prodCp
<1>10. ProdStores'
  BY <1>1, <1>6, <1>7 DEF ProdStores, ProdHolder, ProdType, Switching, LastStored, Storing, prodCp
<1>11. ProdInv'
  BY <1>7, <1>9, <1>10 DEF IInv, ProdInv
<1> QED BY <1>7, <1>11, ProdKeeps

\* An abandoned guard leaves the ring as it was.
LEMMA AbandonStep ==
    ASSUME IInv, AbandonWrite
    PROVE  IInv'
<1> USE DEF AbandonWrite
<1>1. ProdHolder /\ ProdStores /\ pst.cur = tailAt.seg /\ TypeOK /\ Core /\ ProdType
  BY HolderPlace
<1>2. ProdType' /\ BufKept /\ UNCHANGED <<word, chain, tailAt, consVars, prodCp, buf>>
  BY <1>1 DEF ProdType, ProdPcs, BufKept, slotVars, history, prodCp
<1>3. /\ ProdStill /\ TypeOK' /\ ProdCheckpoint' /\ Taken' = Taken /\ Seen' = Seen
      /\ Backlog(tailAt.seg)' = Backlog(tailAt.seg) /\ tailAt' = tailAt
  BY <1>2, PrivateStill DEF IInv, TypeOK, RingType
<1>5. ProdHolder'
  BY <1>1, <1>2, <1>3 DEF ProdHolder, ProdType, Switching, Ahead, Writing, Storing, prodCp
<1>6. ProdStores'
  BY <1>1, <1>2, <1>3 DEF ProdStores, ProdHolder, ProdType, Switching, LastStored, Storing, prodCp
<1>7. ProdInv'
  BY <1>3, <1>5, <1>6 DEF IInv, ProdInv
<1> QED BY <1>3, <1>7, ProdKeeps

\* The commit's look at the next slot's word tells whether there is room after it.
LEMMA CommitLookStep ==
    ASSUME IInv, CommitLook
    PROVE  IInv'
<1>1. /\ ProdHolder /\ ProdStores /\ pst.cur = tailAt.seg /\ TypeOK /\ Core /\ ProdType
      /\ pst.cur \in Segs /\ tailAt.pos \in Seqs /\ ppc = "filled"
  BY HolderPlace DEF CommitLook
<1>2. pst.pos = tailAt.pos /\ Backlog(tailAt.seg) < M /\ to = NoSeg
  BY <1>1 DEF ProdHolder, Ahead, Storing, Writing, Switching
<1>3. PICK next \in Seqs, free \in BOOLEAN :
        /\ next = seq_of(tailAt.pos + 1) /\ next = Pos(tailAt.pos, 1)
        /\ free = (word[tailAt.seg][Slot(next)] = Plain(next))
        /\ pst' = [pst EXCEPT !.pos = next, !.claimable = free]
        /\ ppc' = IF free THEN "publish" ELSE "pick"
  <2>1. seq_of(tailAt.pos + 1) \in Seqs
    BY <1>1, PosBack
  <2> QED BY <1>1, <1>2, <2>1 DEF CommitLook, Claimable, Pos
<1>4. free = TRUE => Backlog(tailAt.seg) + 1 < M
  <2>1. PICK c \in Seqs, u \in 0 .. M - 1 :
          /\ c = CPos(tailAt.seg) /\ u = Backlog(tailAt.seg) /\ tailAt.pos = Pos(c, u)
          /\ Window(word[tailAt.seg], c, u, tailAt.seg, tailAt.seg)
    BY <1>1, <1>2, TailPlace
  <2>2. next = Pos(c, u + 1)
    BY <1>3, <2>1, WindowSucc
  <2> QED BY <1>3, <2>1, <2>2, WindowRoomNext
<1>5. ProdType' /\ BufKept /\ UNCHANGED <<word, chain, tailAt, consVars, prodCp, buf>>
      /\ UNCHANGED <<to, pscan>>
  BY <1>1, <1>3 DEF CommitLook, ProdType, ProdPcs, BufKept, slotVars, history, prodCp
<1>6. /\ ProdStill /\ TypeOK' /\ ProdCheckpoint' /\ Taken' = Taken /\ Seen' = Seen
      /\ Backlog(tailAt.seg)' = Backlog(tailAt.seg) /\ tailAt' = tailAt
  BY <1>5, PrivateStill DEF IInv, TypeOK, RingType
<1>7. ProdHolder'
  BY <1>1, <1>2, <1>3, <1>4, <1>5, <1>6
     DEF ProdHolder, ProdType, Switching, Ahead, Writing, Storing, prodCp
<1>8. ProdStores'
  BY <1>1, <1>2, <1>3, <1>5, <1>6
     DEF ProdStores, ProdHolder, ProdType, Switching, LastStored, Storing, prodCp
<1>9. ProdInv'
  BY <1>1, <1>3, <1>5, <1>6, <1>7, <1>8 DEF IInv, ProdInv
<1> QED BY <1>6, <1>9, ProdKeeps

\* The choice of a segment: one that nobody uses, whatever of a give-back is
\* still to be stored.
LEMMA CommitPickStep ==
    ASSUME IInv, CommitPick
    PROVE  IInv'
<1>1. /\ ProdHolder /\ ProdStores /\ pst.cur = tailAt.seg /\ TypeOK /\ Core /\ ProdType
      /\ pst.cur \in Segs /\ tailAt.pos \in Seqs /\ ppc = "pick"
  BY HolderPlace DEF CommitPick
<1>2. to = NoSeg /\ ~Switching /\ pst.taken = Taken /\ pst.claimable = FALSE /\ Backlog(tailAt.seg) < M
  BY <1>1 DEF ProdHolder, ProdStores, Ahead, Storing, Switching
<1>3. FreeSegs = Segs \ Seen
  BY <1>2 DEF FreeSegs, Seen
<1>4. /\ UNCHANGED <<word, chain, tailAt, consVars, prodCp, buf, pscan>>
      /\ \/ ppc' = "publish" /\ UNCHANGED <<pst, to>>
         \/ \E g \in Segs \ Seen :
              /\ to' = g /\ ppc' = "store resume"
              /\ pst' = [pst EXCEPT !.taken = Flip(@, g), !.resume[pst.cur] = pst.pos]
  <2>1. FreeSegs # {} => Min(FreeSegs) \in FreeSegs
    <3>1. FreeSegs \in SUBSET Int /\ 0 \in Int /\ \A x \in FreeSegs : 0 <= x
      BY <1>3 DEF Segs
    <3> QED BY <3>1, MinBounded
  <2> QED BY <1>1, <1>3, <2>1 DEF CommitPick, slotVars, history
<1>5. ProdType' /\ BufKept
  <2>1. CASE ppc' = "publish" /\ UNCHANGED <<pst, to>>
    BY <1>1, <1>4, <2>1 DEF ProdType, ProdPcs, BufKept, prodCp
  <2>2. ASSUME NEW g \in Segs \ Seen, to' = g, ppc' = "store resume",
               pst' = [pst EXCEPT !.taken = Flip(@, g), !.resume[pst.cur] = pst.pos]
        PROVE  ProdType' /\ BufKept
    <3>1. Flip(pst.taken, g) \in SUBSET Segs
      BY <1>1 DEF Flip, SymDiff, ProdType
    <3> QED BY <1>1, <1>4, <2>2, <3>1 DEF ProdType, ProdPcs, Storing, BufKept, prodCp, Resumes
  <2> QED BY <1>4, <2>1, <2>2
<1>6. /\ ProdStill /\ TypeOK' /\ ProdCheckpoint' /\ Taken' = Taken /\ Seen' = Seen
      /\ Backlog(tailAt.seg)' = Backlog(tailAt.seg) /\ tailAt' = tailAt
  BY <1>4, <1>5, PrivateStill DEF IInv, TypeOK, RingType
<1>7. CASE ppc' = "publish" /\ UNCHANGED <<pst, to>>
  <2>1. ProdHolder'
    BY <1>1, <1>2, <1>4, <1>6, <1>7 DEF ProdHolder, Switching, Ahead, Writing, Storing, prodCp
  <2>2. ProdStores'
    BY <1>1, <1>2, <1>4, <1>6, <1>7
       DEF ProdStores, ProdHolder, Switching, LastStored, Storing, prodCp
  <2>3. ProdInv'
    BY <1>1, <1>4, <1>6, <1>7, <2>1, <2>2 DEF IInv, ProdInv
  <2> QED BY <1>6, <2>3, ProdKeeps
<1>8. ASSUME NEW g \in Segs \ Seen, to' = g, ppc' = "store resume",
             pst' = [pst EXCEPT !.taken = Flip(@, g), !.resume[pst.cur] = pst.pos]
      PROVE  IInv'
  <2>1. g # NoSeg
    BY Ranges
  <2>2. ProdHolder'
    <3>1. PICK f \in Segs, n \in Seqs, R \in Resumes : f = pst.cur /\ n = pst.pos /\ R = pst.resume
      BY <1>1 DEF ProdType
    <3>2. /\ pst'.cur = f /\ pst'.pos = n /\ pst'.resume = [R EXCEPT ![f] = n]
          /\ pst'.taken = Flip(Taken, g) /\ pst'.claimable = FALSE
      BY <1>1, <1>2, <1>8, <3>1 DEF ProdType
    <3>3. pst'.resume[f] = n /\ \A s \in Segs : s # f => pst'.resume[s] = R[s]
      BY <3>1, <3>2 DEF Resumes
    <3>4. /\ prod_role' = "held" /\ f = tailAt.seg /\ n = seq_of(tailAt.pos + 1)
          /\ \A s \in Segs : s # tailAt.seg => R[s] = prod_resume'[s]
          /\ buf'[tailAt.seg][Slot(tailAt.pos)] \in Msg
      BY <1>1, <1>4, <3>1 DEF ProdHolder, Ahead, prodCp
    <3>5. Switching' /\ Ahead' /\ ~Writing' /\ ppc' \in Storing /\ ppc' = "store resume"
      BY <1>8, <2>1 DEF Switching, Ahead, Writing, Storing
    <3>6. /\ to' = g /\ to' \notin Seen' /\ Taken' = Taken /\ tailAt' = tailAt
          /\ Backlog(tailAt.seg)' < M
      BY <1>2, <1>6, <1>8
    <3> QED BY <3>2, <3>3, <3>4, <3>5, <3>6 DEF ProdHolder
  <2>3. ProdStores'
    BY <1>1, <1>2, <1>4, <1>6, <1>8, <2>1
       DEF ProdStores, ProdHolder, ProdType, Switching, LastStored, Storing, prodCp
  <2>4. ProdInv'
    BY <1>1, <1>4, <1>6, <1>8, <2>2, <2>3 DEF IInv, ProdInv
  <2> QED BY <1>6, <2>4, ProdKeeps
<1> QED BY <1>4, <1>7, <1>8

\* The values a holder that is gone, or one that begins, has.
LEMMA NewTypes ==
    /\ <<>> \in Seq(Seqs)
    /\ 0 \in Segs /\ 0 \in Seqs /\ NoSeg \notin Segs /\ Plain(0) \in SlotWord
    /\ NewProducer \in [cur : Segs, pos : Seqs, resume : Resumes, taken : SUBSET Segs,
                        claimable : BOOLEAN]
    /\ NewConsumer \in [cur : Segs, pos : Seqs, resume : Resumes, given : SUBSET Segs]
<1>1. 0 \in Segs /\ 0 \in Seqs /\ NoSeg \notin Segs
  BY GeometryAssumption DEF Segs, Seqs
<1>2. Plain(0) \in SlotWord
  BY <1>1, PlainWord
<1>3. [s \in Segs |-> 0] \in Resumes
  BY <1>1 DEF Resumes
<1>4. <<>> \in Seq(Seqs)
  OBVIOUS
<1> QED BY <1>1, <1>2, <1>3, <1>4 DEF NewProducer, NewConsumer

\* A scan that has loaded nothing.
LEMMA NoSlots == Len(<<>>) = 0 /\ 0 <= M /\ 0 .. 0 - 1 = {}
BY Ranges

\* A death leaves the checkpoint.
LEMMA ProducerDiesStep ==
    ASSUME IInv, ProducerDies
    PROVE  IInv'
<1>1. UNCHANGED <<word, chain, tailAt, consVars, prodCp, buf>> /\ TypeOK /\ ProdType
  BY DEF ProducerDies, slotVars, history, IInv, TypeOK
<1>2. ppc' = "none" /\ pst' = NewProducer /\ to' = NoSeg /\ pscan' = <<>>
  BY DEF ProducerDies, ProducerGone
<1>3. ProdType' /\ BufKept
  BY <1>1, <1>2, NewTypes DEF ProdType, ProdPcs, BufKept, prodCp
<1>4. ProdStill /\ TypeOK' /\ ProdCheckpoint'
  BY <1>1, <1>3, PrivateStill DEF TypeOK, RingType
<1>5. ProdInv'
  BY <1>2, <1>4 DEF ProdInv
<1> QED BY <1>4, <1>5, ProdKeeps

\* Every slot is one position's in a window.
LEMMA SlotReached ==
    ASSUME NEW r \in Seqs, NEW i \in Slots
    PROVE  \E k \in 0 .. M - 1 : Slot(Pos(r, k)) = i
<1>1. PICK d \in Int : /\ d = i - r /\ d + r = i /\ i \in 0 .. M - 1 /\ r \in Int
  BY Ranges DEF Seqs, Slots
<1>2. PICK k \in 0 .. M - 1 : k = d % M /\ k + r = r + k /\ r + k \in Int
  <2>1. d % M \in 0 .. M - 1
    BY Ranges, ModDef
  <2> QED BY <1>1, <2>1
<1>3. (k + r) % M = (d + r) % M
  BY <1>1, <1>2, Ranges, ModAdd, Zenon
<1>4. i % M = i
  BY <1>1, Ranges, ModSmall, Zenon
<1>5. Slot(Pos(r, k)) = (r + k) % M
  BY <1>2, Ranges, SlotOf, Zenon DEF Pos, Slot
<1> QED BY <1>1, <1>2, <1>3, <1>4, <1>5, Zenon

\* The word of a slot of the producer's segment, as its scan loads it.
LEMMA ProdLoad ==
    ASSUME TypeOK, Core, NEW i \in Slots, NEW x, x = word[tailAt.seg][i].seq
    PROVE  \E k \in 0 .. M - 1 :
             Slot(Pos(tailAt.pos, k)) = i /\ x \in {Pos(tailAt.pos, k), Pos(tailAt.pos, k + 1)}
<1>1. PICK c \in Seqs, u \in Nat, p \in Seqs :
        /\ p = tailAt.pos /\ c = CPos(tailAt.seg) /\ u = Backlog(tailAt.seg) /\ p = Pos(c, u)
        /\ Window(word[tailAt.seg], c, u, tailAt.seg, tailAt.seg)
  BY TailPlace, HeadPlace
<1>2. PICK j \in 0 .. M - 1 : Slot(Pos(c, j)) = i
  BY SlotReached
<1>3. u <= M /\ c \in Int /\ u \in Int /\ M \in Nat \ {0}
  BY <1>1, Ranges DEF Window, Seqs
<1>4. \A k \in Int : Pos(p, k) = Pos(c, u + k)
  BY <1>1, <1>3, PosAdd
<1>5. CASE j >= u
  <2>1. PICK k \in 0 .. M - 1 : k = j - u /\ u + k = j /\ k \in Int
    BY <1>3, <1>5
  <2>2. Pos(p, k) = Pos(c, j)
    BY <1>4, <2>1
  <2>3. Pos(c, j) \in Seqs
    BY <1>3, PosAdd
  <2>4. x = Pos(c, j)
    BY <1>1, <1>2, <1>5, <2>3, PlainWord DEF Window
  <2> QED BY <1>1, <1>2, <2>2, <2>4
<1>6. CASE j < u
  <2>1. PICK k \in 0 .. M - 1 : /\ k = j + M - u /\ u + k = j + M /\ u + (k + 1) = j + (M + 1)
                                /\ k \in Int /\ k + 1 \in Int /\ M + 1 \in Int /\ j \in Int /\ M \in Int
    BY <1>3, <1>6
  <2>2. PICK n \in Seqs : n = Pos(c, j)
    BY <1>3, <2>1, PosAdd
  <2>3. Pos(p, k) = Pos(n, M) /\ Pos(p, k + 1) = Pos(n, M + 1)
    <3>1. \A d \in Int : Pos(Pos(c, j), d) = Pos(c, j + d)
      BY <1>3, <2>1, PosAdd
    <3>2. Pos(p, k) = Pos(c, u + k) /\ Pos(p, k + 1) = Pos(c, u + (k + 1))
      BY <1>4, <2>1
    <3> QED BY <2>1, <2>2, <3>1, <3>2
  <2>4. x = CommitSeq(n)
    BY <1>1, <1>2, <1>6, <2>2 DEF Window
  <2>5. CommitSeq(n) = Pos(n, M + 1)
    <3>1. n + M + 1 = n + (M + 1)
      BY <1>3 DEF Seqs
    <3> QED BY <3>1, Zenon DEF CommitSeq, Pos
  <2>6. Slot(Pos(n, M)) = i
    BY <1>2, <2>2, WindowSlots
  <2> QED BY <1>1, <2>3, <2>4, <2>5, <2>6
<1> QED BY <1>3, <1>5, <1>6

\* A scan loads a word that says what its slot's last position is.
LEMMA ProdScanSlotStep ==
    ASSUME IInv, ProdScanSlot
    PROVE  IInv'
<1>1. /\ ProdHolder /\ ProdStores /\ pst.cur = tailAt.seg /\ TypeOK /\ Core /\ ProdType
      /\ ppc = "scan" /\ Len(pscan) < M /\ ProdLoads(pscan)
  BY HolderPlace DEF ProdScanSlot, IInv, ProdInv
<1>2. /\ UNCHANGED <<word, chain, tailAt, consVars, prodCp, buf, ppc, pst, to>>
      /\ pscan' = Append(pscan, word[tailAt.seg][Len(pscan)].seq)
  BY <1>1 DEF ProdScanSlot, slotVars, history
<1>3. PICK l \in Nat, x \in Seqs : /\ l = Len(pscan) /\ x = word[tailAt.seg][l].seq /\ l \in Slots
                                   /\ pscan \in Seq(Seqs)
  <2>1. Len(pscan) \in Nat /\ pscan \in Seq(Seqs)
    BY <1>1 DEF ProdType
  <2>2. Len(pscan) \in Slots
    BY <1>1, <2>1, Ranges DEF Slots
  <2>3. word[tailAt.seg][Len(pscan)] \in SlotWord
    BY <1>1, <2>2, HeadPlace DEF TypeOK, RingType
  <2> QED BY <2>1, <2>2, <2>3 DEF SlotWord
<1>4. pscan' \in Seq(Seqs) /\ Len(pscan') = l + 1 /\ pscan'[l + 1] = x
      /\ \A i \in 1 .. l : pscan'[i] = pscan[i]
  BY <1>2, <1>3
<1>5. ProdLoads(pscan')
  <2>1. ASSUME NEW i \in 0 .. l
        PROVE  \E k \in 0 .. M - 1 : /\ Slot(Pos(tailAt.pos, k)) = i
                                     /\ pscan'[i + 1] \in {Pos(tailAt.pos, k), Pos(tailAt.pos, k + 1)}
    <3>1. CASE i = l
      BY <1>1, <1>3, <1>4, <3>1, ProdLoad
    <3>2. CASE i # l
      <4>1. i \in 0 .. l - 1 /\ i + 1 \in 1 .. l
        BY <3>2
      <4> QED BY <1>1, <1>3, <1>4, <4>1 DEF ProdLoads
    <3> QED BY <3>1, <3>2
  <2>2. l + 1 <= M /\ \A i \in 0 .. (l + 1) - 1 : i \in 0 .. l
    BY <1>1, <1>3, Ranges
  <2> QED BY <1>4, <2>1, <2>2 DEF ProdLoads
<1>6. ProdType' /\ BufKept
  BY <1>1, <1>2, <1>4 DEF ProdType, BufKept, prodCp
<1>7. /\ ProdStill /\ TypeOK' /\ ProdCheckpoint' /\ Taken' = Taken /\ Seen' = Seen
      /\ Backlog(tailAt.seg)' = Backlog(tailAt.seg) /\ tailAt' = tailAt
  BY <1>2, <1>6, PrivateStill DEF IInv, TypeOK, RingType
<1>8. ProdHolder'
  BY <1>1, <1>2, <1>7 DEF ProdHolder, Switching, Ahead, Writing, Storing, prodCp
<1>9. ProdStores'
  BY <1>1, <1>2, <1>7 DEF ProdStores, Switching, LastStored, Storing, prodCp
<1>10. ProdLoads(pscan)'
  BY <1>5, <1>7 DEF ProdLoads
<1>11. ProdInv'
  BY <1>1, <1>2, <1>7, <1>8, <1>9, <1>10 DEF ProdInv
<1> QED BY <1>7, <1>11, ProdKeeps

\* A scan that finds one window ends at the producer's place.
LEMMA ProdScannedStep ==
    ASSUME IInv, ProdScanned
    PROVE  IInv'
<1>1. /\ ProdHolder /\ ProdStores /\ pst.cur = tailAt.seg /\ TypeOK /\ Core /\ ProdType
      /\ ppc = "scan" /\ Len(pscan) = M /\ ProdLoads(pscan) /\ M >= 2 /\ pscan \in Seq(Seqs)
      /\ tailAt.pos \in Seqs
  BY HolderPlace DEF ProdScanned, IInv, ProdInv, ProdHolder, ProdType
<1>2. /\ UNCHANGED <<word, chain, tailAt, consVars, prodCp, buf, to>> /\ pscan' = <<>>
      /\ \/ pst' = [pst EXCEPT !.pos = tailAt.pos] /\ ppc' = "idle"
         \/ UNCHANGED <<ppc, pst>>
  <2>1. WindowEnd(pscan) = tailAt.pos
    BY <1>1, ProdScanEnd
  <2> QED BY <2>1 DEF ProdScanned, slotVars, history
<1>3. ProdType' /\ BufKept
  BY <1>1, <1>2, NewTypes DEF ProdType, ProdPcs, BufKept, prodCp
<1>4. /\ ProdStill /\ TypeOK' /\ ProdCheckpoint' /\ Taken' = Taken /\ Seen' = Seen
      /\ Backlog(tailAt.seg)' = Backlog(tailAt.seg) /\ tailAt' = tailAt
  BY <1>2, <1>3, PrivateStill DEF IInv, TypeOK, RingType
<1>5. ProdHolder'
  BY <1>1, <1>2, <1>4 DEF ProdHolder, ProdType, Switching, Ahead, Writing, Storing, prodCp
<1>6. ProdStores'
  BY <1>1, <1>2, <1>4 DEF ProdStores, ProdHolder, Switching, LastStored, Storing, prodCp
<1>7. ProdLoads(<<>>)'
  BY NoSlots DEF ProdLoads
<1>8. ProdInv'
  BY <1>1, <1>2, <1>4, <1>5, <1>6, <1>7 DEF ProdInv
<1> QED BY <1>4, <1>8, ProdKeeps

-----------------------------------------------------------------------------
(* The producer's stores in its checkpoint.                                *)

\* A store in the checkpoint that leaves the switch bits as they are, and the
\* positions of the segments the producer is not in.
LEMMA StoreStill ==
    ASSUME IInv, UNCHANGED <<word, chain, tailAt, consVars, buf>>, ProdType', Taken' = Taken,
           \A s \in Segs : s # tailAt.seg => prod_resume'[s] = prod_resume[s]
    PROVE  /\ ProdStill /\ TypeOK' /\ Seen' = Seen /\ tailAt' = tailAt
           /\ Backlog(tailAt.seg)' = Backlog(tailAt.seg)
<1>1. ProdStill
  BY DEF ProdStill, BufKept
<1>2. TypeOK'
  BY DEF IInv, TypeOK, RingType, ConsType, consVars, consCp
<1>3. Seen' = Seen /\ Backlog(tailAt.seg)' = Backlog(tailAt.seg)
  BY <1>1, ProdFrame, HeadPlace DEF IInv
<1> QED BY <1>1, <1>2, <1>3

\* A truth value, as an intent word holds one.
LEMMA TruthOf ==
    ASSUME NEW q, NEW S
    PROVE  \E b \in BOOLEAN : b = (q \in S) /\ (b = TRUE <=> q \in S)
<1>1. CASE q \in S
  <2>1. TRUE \in BOOLEAN /\ TRUE = (q \in S) /\ (TRUE = TRUE <=> q \in S)
    BY <1>1
  <2> QED BY <2>1
<1>2. CASE q \notin S
  <2>1. FALSE \in BOOLEAN /\ FALSE = (q \in S) /\ (FALSE = TRUE <=> q \in S)
    BY <1>2
  <2> QED BY <2>1
<1> QED BY <1>1, <1>2

\* What setting and flipping a bit of a mask does.
LEMMA MaskBits ==
    ASSUME NEW S, NEW s
    PROVE  /\ SetBit(S, s, s \in S) = S
           /\ s \in Flip(S, s) <=> s \notin S
           /\ SetBit(Flip(S, s), s, ~(s \in Flip(S, s))) = S
           /\ SetBit(S, s, s \in Flip(S, s)) = Flip(S, s)
           /\ SetBit(S, s, ~(s \in Flip(S, s))) = S
           /\ SetBit(Flip(S, s), s, s \in Flip(S, s)) = Flip(S, s)
           /\ \A b \in BOOLEAN : SetBit(SetBit(S, s, b), s, b) = SetBit(S, s, b)
           /\ \A q : q # s => (q \in Flip(S, s) <=> q \in S)
BY DEF SetBit, Flip, SymDiff

\* The resume entry is stored of the segment in use, where no successor needs it.
LEMMA StoreProdResumeStep ==
    ASSUME IInv, StoreProdResume
    PROVE  IInv'
<1>1. /\ ProdHolder /\ ProdStores /\ ProdCheckpoint /\ pst.cur = tailAt.seg /\ TypeOK /\ Core /\ ProdType
      /\ ppc = "store resume" /\ prod_role = "held"
  BY HolderPlace DEF StoreProdResume
<1>2. /\ UNCHANGED <<word, chain, tailAt, consVars, buf, prod_role, prod_cur, prod_pos, prod_taken,
                     prod_switch, pst, to, pscan>>
      /\ prod_resume' = [prod_resume EXCEPT ![tailAt.seg] = pst.pos] /\ ppc' = "store intent"
  BY <1>1 DEF StoreProdResume, slotVars, history
<1>3. prod_switch = NoSwitch
  BY <1>1 DEF ProdStores, LastStored
<1>4. /\ ProdType' /\ Taken' = Taken /\ prod_resume'[tailAt.seg] = pst.pos
      /\ \A s \in Segs : s # tailAt.seg => prod_resume'[s] = prod_resume[s]
  <2>1. PICK f \in Segs, n \in Seqs : f = tailAt.seg /\ n = pst.pos
    BY <1>1, HeadPlace DEF ProdType
  <2>2. /\ prod_resume' \in Resumes /\ prod_resume'[f] = n
        /\ \A s \in Segs : s # f => prod_resume'[s] = prod_resume[s]
    BY <1>1, <1>2, <2>1 DEF ProdType, Resumes
  <2>3. ProdType'
    BY <1>1, <1>2, <2>2 DEF ProdType, ProdPcs, Storing
  <2>4. Taken' = Taken
    BY <1>2, <1>3 DEF Taken
  <2> QED BY <2>1, <2>2, <2>3, <2>4
<1>5. /\ ProdStill /\ TypeOK' /\ Seen' = Seen /\ tailAt' = tailAt
      /\ Backlog(tailAt.seg)' = Backlog(tailAt.seg)
  BY <1>2, <1>4, StoreStill
<1>6. ProdCheckpoint'
  BY <1>1, <1>2, <1>3 DEF ProdCheckpoint
<1>7. ProdHolder'
  BY <1>1, <1>2, <1>4, <1>5 DEF ProdHolder, Switching, Ahead, Writing, Storing
<1>8. ProdStores'
  BY <1>1, <1>2, <1>3, <1>4 DEF ProdStores, ProdHolder, Switching, LastStored, Storing
<1>9. ProdInv'
  BY <1>1, <1>2, <1>6, <1>7, <1>8 DEF IInv, ProdInv
<1> QED BY <1>5, <1>9, ProdKeeps

\* The intent makes the checkpoint tell of the switch before anything is stored
\* that it changes.
LEMMA StoreProdIntentStep ==
    ASSUME IInv, StoreProdIntent
    PROVE  IInv'
<1>1. /\ ProdHolder /\ ProdStores /\ ProdCheckpoint /\ pst.cur = tailAt.seg /\ TypeOK /\ Core /\ ProdType
      /\ ppc = "store intent" /\ prod_role = "held" /\ tailAt.seg \in Segs
  BY HolderPlace DEF StoreProdIntent
<1>2. /\ UNCHANGED <<word, chain, tailAt, consVars, buf, prod_role, prod_cur, prod_pos, prod_taken,
                     prod_resume, pst, to, pscan>>
      /\ ppc' = "store taken"
  BY <1>1 DEF StoreProdIntent, slotVars, history
<1>3. /\ prod_switch = NoSwitch /\ Switching /\ to \in Segs /\ to \notin Seen
      /\ pst.taken = Flip(Taken, to) /\ pst.pos = seq_of(tailAt.pos + 1)
      /\ prod_resume[tailAt.seg] = pst.pos /\ Backlog(tailAt.seg) < M
  BY <1>1 DEF ProdStores, ProdHolder, ProdType, LastStored, Storing, Switching, Ahead
<1>a. PICK b \in BOOLEAN : b = (to \in pst.taken) /\ (b = TRUE <=> to \in pst.taken)
  <2>1. PICK q, S : q = to /\ S = pst.taken
    OBVIOUS
  <2>2. \E b \in BOOLEAN : b = (q \in S) /\ (b = TRUE <=> q \in S)
    BY TruthOf
  <2> QED BY <2>1, <2>2
<1>4. PICK i : i = prod_switch' /\ i = switch_intent(tailAt.seg, to, b)
  BY <1>1, <1>a DEF StoreProdIntent
<1>5. /\ i \in Intents /\ i # NoSwitch /\ i.from = tailAt.seg /\ i.to = to /\ i.bit \in BOOLEAN
      /\ i.bit <=> to \in pst.taken
  <2>1. /\ i \in Intents /\ i # NoSwitch /\ i.from = tailAt.seg /\ i.to = to /\ i.bit = b
    <3>1. b \in BOOLEAN
      BY <1>a
    <3>2. PICK f \in Segs, t \in Segs : f = tailAt.seg /\ t = to
      BY <1>1, <1>3
    <3>3. i = [from |-> f, to |-> t, bit |-> b]
      BY <1>4, <3>2 DEF switch_intent
    <3>4. i \in Intents /\ i.from = f /\ i.to = t /\ i.bit = b
      BY <3>1, <3>3 DEF Intents
    <3> QED BY <3>2, <3>4, IntentAssumption
  <2> QED BY <1>a, <2>1
<1>6. Taken' = Taken
  <2>1. Taken = prod_taken
    BY <1>3 DEF Taken
  <2>2. Taken' = SetBit(prod_taken, to, ~(to \in Flip(prod_taken, to)))
    BY <1>2, <1>3, <1>4, <1>5, <2>1 DEF Taken
  <2> QED BY <2>1, <2>2, MaskBits
<1>7. ProdType'
  BY <1>1, <1>2, <1>4, <1>5 DEF ProdType, ProdPcs, Storing
<1>8. /\ ProdStill /\ TypeOK' /\ Seen' = Seen /\ tailAt' = tailAt
      /\ Backlog(tailAt.seg)' = Backlog(tailAt.seg)
  BY <1>2, <1>6, <1>7, StoreStill
<1>9. ProdIntent(i)'
  <2>1. tailAt.seg \in Seen
    BY DEF IInv, Core, BitsAgree, SeenAgrees
  <2> QED BY <1>2, <1>3, <1>4, <1>5, <1>8, <2>1 DEF ProdIntent
<1>10. ProdCheckpoint'
  BY <1>1, <1>2, <1>4, <1>5, <1>9 DEF ProdCheckpoint
<1>11. ProdHolder'
  BY <1>1, <1>2, <1>6, <1>8 DEF ProdHolder, Switching, Ahead, Writing, Storing
<1>12. ProdStores'
  <2>1. prod_switch' = switch_intent(tailAt.seg, to, to \in pst.taken)
    BY <1>1 DEF StoreProdIntent
  <2> QED BY <1>1, <1>2, <1>3, <2>1 DEF ProdStores, Switching, LastStored, Storing
<1>13. ProdInv'
  BY <1>1, <1>2, <1>10, <1>11, <1>12 DEF IInv, ProdInv
<1> QED BY <1>8, <1>13, ProdKeeps

\* The taken word and the segment are stored under the intent.
LEMMA StoreProdTakenStep ==
    ASSUME IInv, StoreProdTaken \/ StoreProdCur
    PROVE  IInv'
<1>1. /\ ProdHolder /\ ProdStores /\ ProdCheckpoint /\ pst.cur = tailAt.seg /\ TypeOK /\ Core /\ ProdType
      /\ ppc \in {"store taken", "store cur"} /\ prod_role = "held" /\ tailAt.seg \in Segs
  <2>1. ppc \in {"store taken", "store cur"}
    BY DEF StoreProdTaken, StoreProdCur
  <2>2. ppc # "none"
    BY <2>1
  <2> QED BY <2>1, <2>2, HolderPlace
<1>2. /\ UNCHANGED <<word, chain, tailAt, consVars, buf, prod_role, prod_pos,
                     prod_switch, prod_resume, pst, to, pscan>>
      /\ \/ /\ ppc = "store taken" /\ ppc' = "store cur" /\ prod_taken' = pst.taken
            /\ UNCHANGED prod_cur
         \/ /\ ppc = "store cur" /\ ppc' = "publish" /\ prod_cur' = to /\ UNCHANGED prod_taken
  BY <1>1 DEF StoreProdTaken, StoreProdCur, slotVars, history
<1>3. /\ Switching /\ to \in Segs /\ to \notin Seen /\ pst.taken = Flip(Taken, to)
      /\ prod_switch = switch_intent(tailAt.seg, to, to \in pst.taken)
      /\ pst.taken \in SUBSET Segs /\ ~(pst.claimable = TRUE)
  BY <1>1 DEF ProdStores, ProdHolder, ProdType, LastStored, Storing, Switching
<1>4. PICK i \in Intents : /\ i = prod_switch /\ i # NoSwitch
                           /\ i.from = tailAt.seg /\ i.to = to /\ i.bit \in BOOLEAN
                           /\ (i.bit <=> to \in pst.taken)
  <2>a. PICK b \in BOOLEAN : b = (to \in pst.taken) /\ (b = TRUE <=> to \in pst.taken)
    <3>1. PICK q, S : q = to /\ S = pst.taken
      OBVIOUS
    <3>2. \E b \in BOOLEAN : b = (q \in S) /\ (b = TRUE <=> q \in S)
      BY TruthOf
    <3> QED BY <3>1, <3>2
  <2>1. PICK i : i = prod_switch /\ i = switch_intent(tailAt.seg, to, b)
    BY <1>3, <2>a
  <2>2. i \in Intents /\ i # NoSwitch /\ i.from = tailAt.seg /\ i.to = to /\ i.bit = b
    <3>1. b \in BOOLEAN
      BY <2>a
    <3>2. PICK f \in Segs, t \in Segs : f = tailAt.seg /\ t = to
      BY <1>1, <1>3
    <3>3. i = [from |-> f, to |-> t, bit |-> b]
      BY <2>1, <3>2 DEF switch_intent
    <3>4. i \in Intents /\ i.from = f /\ i.to = t /\ i.bit = b
      BY <3>1, <3>3 DEF Intents
    <3> QED BY <3>2, <3>4, IntentAssumption
  <2> QED BY <2>a, <2>1, <2>2
<1>5. Taken' = Taken
  <2>1. CASE ppc = "store taken"
    <3>1. Taken' = SetBit(pst.taken, to, ~(to \in pst.taken))
      BY <1>2, <1>4, <2>1 DEF Taken
    <3> QED BY <1>3, <3>1, MaskBits
  <2>2. CASE ppc = "store cur"
    BY <1>2, <2>2 DEF Taken
  <2> QED BY <1>1, <2>1, <2>2
<1>6. ProdType'
  BY <1>1, <1>2, <1>3 DEF ProdType, ProdPcs, Storing
<1>7. /\ ProdStill /\ TypeOK' /\ Seen' = Seen /\ tailAt' = tailAt
      /\ Backlog(tailAt.seg)' = Backlog(tailAt.seg)
  BY <1>2, <1>5, <1>6, StoreStill
<1>8. ProdIntent(i)'
  <2>1. ProdIntent(i)
    BY <1>1, <1>4 DEF ProdCheckpoint
  <2> QED BY <1>2, <1>4, <1>7, <2>1 DEF ProdIntent
<1>9. ProdCheckpoint'
  BY <1>1, <1>2, <1>4, <1>8 DEF ProdCheckpoint
<1>10. ProdHolder'
  BY <1>1, <1>2, <1>3, <1>5, <1>7 DEF ProdHolder, Switching, Ahead, Writing, Storing
<1>11. ProdStores'
  BY <1>1, <1>2, <1>3 DEF ProdStores, Switching, LastStored, Storing
<1>12. ProdInv'
  BY <1>1, <1>2, <1>9, <1>10, <1>11 DEF IInv, ProdInv
<1> QED BY <1>7, <1>12, ProdKeeps

\* The intent is cleared when everything else tells of the new segment.
LEMMA ProdSwitchDoneStep ==
    ASSUME IInv, ProdSwitchDone
    PROVE  IInv'
<1>1. /\ ProdHolder /\ ProdStores /\ ProdCheckpoint /\ pst.cur = tailAt.seg /\ TypeOK /\ Core /\ ProdType
      /\ ppc \in {"switch done", "repair done"} /\ prod_role = "held" /\ tailAt.seg \in Segs
  <2>1. ppc \in {"switch done", "repair done"}
    BY DEF ProdSwitchDone
  <2>2. ppc # "none"
    BY <2>1
  <2> QED BY <2>1, <2>2, HolderPlace
<1>2. /\ UNCHANGED <<word, chain, tailAt, consVars, buf, prod_role, prod_cur, prod_pos, prod_taken,
                     to, pscan>>
      /\ prod_switch' = NoSwitch /\ ppc' = "idle"
      /\ prod_resume' = [prod_resume EXCEPT ![tailAt.seg] = 0]
      /\ pst' = [pst EXCEPT !.resume[tailAt.seg] = 0]
  BY <1>1 DEF ProdSwitchDone, slotVars, history
<1>3. /\ prod_taken = Taken /\ prod_cur = tailAt.seg /\ to = NoSeg
      /\ pst.pos = tailAt.pos /\ pst.taken = Taken
      /\ pst.claimable = TRUE => Backlog(tailAt.seg) < M
      /\ \A s \in Segs : s # tailAt.seg => pst.resume[s] = prod_resume[s]
  BY <1>1 DEF ProdStores, ProdHolder, Switching, Ahead, Storing
<1>4. PICK f \in Segs, n \in Seqs, R \in Resumes : f = tailAt.seg /\ n = pst.pos /\ R = pst.resume
  BY <1>1 DEF ProdType
<1>5. /\ pst'.cur = f /\ pst'.pos = n /\ pst'.resume = [R EXCEPT ![f] = 0]
      /\ pst'.taken = pst.taken /\ pst'.claimable = pst.claimable
      /\ DOMAIN pst' = DOMAIN pst
  BY <1>1, <1>2, <1>4 DEF ProdType
<1>6. /\ \A s \in Segs : s # f => pst'.resume[s] = R[s] /\ prod_resume'[s] = prod_resume[s]
      /\ pst'.resume \in Resumes /\ prod_resume' \in Resumes
  BY <1>1, <1>2, <1>4, <1>5, NewTypes DEF ProdType, Resumes
<1>7. Taken' = Taken
  BY <1>2, <1>3 DEF Taken
<1>8. ProdType'
  <2>1. pst' \in [cur : Segs, pos : Seqs, resume : Resumes, taken : SUBSET Segs,
                  claimable : BOOLEAN]
    BY <1>1, <1>2, <1>4, <1>5, <1>6 DEF ProdType
  <2> QED BY <1>1, <1>2, <1>6, <2>1 DEF ProdType, ProdPcs
<1>9. /\ ProdStill /\ TypeOK' /\ Seen' = Seen /\ tailAt' = tailAt
      /\ Backlog(tailAt.seg)' = Backlog(tailAt.seg)
  BY <1>2, <1>4, <1>6, <1>7, <1>8, StoreStill
<1>10. ProdCheckpoint'
  BY <1>1, <1>2, <1>3 DEF ProdCheckpoint
<1>11. ProdHolder'
  <2>1. ~Switching' /\ ~Ahead' /\ ~Writing'
    BY <1>2, <1>3 DEF Switching, Ahead, Writing, Storing
  <2>2. \A s \in Segs : s # tailAt.seg => pst'.resume[s] = prod_resume'[s]
    BY <1>3, <1>4, <1>6
  <2>3. /\ pst'.cur = tailAt.seg /\ pst'.pos = tailAt.pos /\ pst'.taken = Taken
        /\ pst'.claimable = TRUE => Backlog(tailAt.seg) < M
    BY <1>3, <1>4, <1>5
  <2> QED BY <1>1, <1>2, <1>7, <1>9, <2>1, <2>2, <2>3 DEF ProdHolder, Storing
<1>12. ProdStores'
  BY <1>2, <1>3 DEF ProdStores, Switching, LastStored, Storing
<1>13. ProdInv'
  BY <1>1, <1>2, <1>10, <1>11, <1>12 DEF IInv, ProdInv
<1> QED BY <1>9, <1>13, ProdKeeps

-----------------------------------------------------------------------------
(* The producer's release, and its successor.                              *)

\* A position stored for the release is the producer's place.
LEMMA StoreProdPosStep ==
    ASSUME IInv, StoreProdPos
    PROVE  IInv'
<1>1. /\ ProdHolder /\ ProdStores /\ ProdCheckpoint /\ pst.cur = tailAt.seg /\ TypeOK /\ Core /\ ProdType
      /\ ppc = "idle" /\ prod_role = "held" /\ tailAt.seg \in Segs /\ pst.pos \in Seqs
  BY HolderPlace DEF StoreProdPos
<1>2. /\ UNCHANGED <<word, chain, tailAt, consVars, buf, prod_role, prod_cur, prod_taken,
                     prod_switch, prod_resume, pst, to, pscan>>
      /\ ppc' = "release" /\ prod_pos' = pst.pos
  BY DEF StoreProdPos, slotVars, history
<1>3. ProdType' /\ Taken' = Taken
  BY <1>1, <1>2 DEF ProdType, ProdPcs, Taken
<1>4. /\ ProdStill /\ TypeOK' /\ Seen' = Seen /\ tailAt' = tailAt
      /\ Backlog(tailAt.seg)' = Backlog(tailAt.seg)
  BY <1>2, <1>3, StoreStill
<1>5. prod_switch = NoSwitch /\ pst.pos = tailAt.pos
  BY <1>1 DEF ProdStores, ProdHolder, LastStored, Ahead, Storing
<1>6. ProdCheckpoint'
  BY <1>1, <1>2, <1>5 DEF ProdCheckpoint
<1>7. ProdHolder'
  BY <1>1, <1>2, <1>3, <1>4, <1>5 DEF ProdHolder, Switching, Ahead, Writing, Storing
<1>8. ProdStores'
  BY <1>1, <1>2, <1>5 DEF ProdStores, ProdHolder, Switching, LastStored, Storing
<1>9. ProdInv'
  BY <1>1, <1>2, <1>6, <1>7, <1>8 DEF IInv, ProdInv
<1> QED BY <1>4, <1>9, ProdKeeps

\* A released role leaves a checkpoint that tells its place.
LEMMA ReleaseProducerStep ==
    ASSUME IInv, ReleaseProducer
    PROVE  IInv'
<1>1. /\ ProdHolder /\ ProdStores /\ ProdCheckpoint /\ TypeOK /\ Core /\ ProdType
      /\ ppc = "release"
  BY HolderPlace DEF ReleaseProducer
<1>2. /\ UNCHANGED <<word, chain, tailAt, consVars, buf, prod_pos, prod_cur, prod_taken,
                     prod_switch, prod_resume>>
      /\ prod_role' = "released" /\ ppc' = "none" /\ pst' = NewProducer /\ to' = NoSeg /\ pscan' = <<>>
  BY DEF ReleaseProducer, ProducerGone, slotVars, history
<1>3. ProdType' /\ Taken' = Taken
  BY <1>1, <1>2, NewTypes DEF ProdType, ProdPcs, Taken
<1>4. /\ ProdStill /\ TypeOK' /\ tailAt' = tailAt
  BY <1>2, <1>3, StoreStill
<1>5. prod_switch = NoSwitch /\ prod_pos = tailAt.pos
  BY <1>1 DEF ProdStores, ProdHolder, LastStored, Storing
<1>6. ProdCheckpoint'
  BY <1>1, <1>2, <1>5 DEF ProdCheckpoint
<1>7. ProdInv'
  BY <1>2, <1>6 DEF ProdInv
<1> QED BY <1>4, <1>7, ProdKeeps

\* A new holder knows the ring when it starts from a state that tells of it: its
\* table is the stored one, its mask what the words say, and it is at the place
\* of the next message or about to scan for it.
LEMMA NewHolder ==
    ASSUME IInv, ppc = "none", UNCHANGED <<word, chain, tailAt, consVars, buf, to, pscan>>,
           NEW R, R = prod_resume, NEW p \in Seqs,
           prod_role' = "held", UNCHANGED <<prod_cur, prod_taken, prod_switch, prod_resume>>,
           prod_pos' \in Seqs,
           pst' = [cur |-> tailAt.seg, pos |-> p, resume |-> R, taken |-> Taken, claimable |-> FALSE],
           \/ ppc' = "idle" /\ prod_switch = NoSwitch /\ p = tailAt.pos
           \/ ppc' = "repair taken" /\ prod_switch # NoSwitch /\ p = tailAt.pos
           \/ ppc' = "scan" /\ prod_switch = NoSwitch /\ M >= 2
    PROVE  IInv'
<1>1. /\ ProdCheckpoint /\ TypeOK /\ Core /\ ProdType /\ to = NoSeg /\ pscan = <<>>
      /\ tailAt.seg \in Segs
  BY HeadPlace DEF IInv, ProdInv, TypeOK
<1>2. ProdType' /\ Taken' = Taken
  <2>1. Taken \in SUBSET Segs
    BY <1>1, NoSegUsed
  <2>2. R \in Resumes /\ FALSE \in BOOLEAN
    BY <1>1 DEF ProdType
  <2>3. pst' \in [cur : Segs, pos : Seqs, resume : Resumes, taken : SUBSET Segs,
                  claimable : BOOLEAN]
    BY <1>1, <2>1, <2>2
  <2> QED BY <1>1, <2>3 DEF ProdType, ProdPcs, Taken
<1>3. /\ ProdStill /\ TypeOK' /\ Seen' = Seen /\ tailAt' = tailAt
      /\ Backlog(tailAt.seg)' = Backlog(tailAt.seg)
  BY <1>2, StoreStill
<1>4. ProdCheckpoint'
  <2>1. \A i \in Intents : ProdIntent(i) => ProdIntent(i)'
    BY <1>3 DEF ProdIntent, Intents
  <2> QED BY <1>1, <1>3, <2>1 DEF ProdCheckpoint, ProdType
<1>5. /\ pst'.cur = tailAt.seg /\ pst'.pos = p /\ pst'.resume = prod_resume /\ pst'.taken = Taken
      /\ pst'.claimable = FALSE
  BY DEF ProdHolder
<1>6. ProdHolder'
  <2>1. ~Switching' /\ ~Ahead' /\ ~Writing'
    BY <1>1 DEF Switching, Ahead, Writing, Storing
  <2> QED BY <1>2, <1>3, <1>5, <2>1 DEF ProdHolder, Storing
<1>7. ProdStores'
  BY <1>1 DEF ProdStores, Switching, LastStored, Storing
<1>8. ProdLoads(<<>>)'
  BY NoSlots DEF ProdLoads
<1>9. ProdInv'
  BY <1>1, <1>4, <1>6, <1>7, <1>8 DEF ProdInv
<1> QED BY <1>3, <1>9, ProdKeeps

\* The first holder starts at the beginning, where the ring is.
LEMMA ClaimProducerStep ==
    ASSUME IInv, ClaimProducer
    PROVE  IInv'
<1>1. /\ ProdCheckpoint /\ TypeOK /\ ProdType /\ ppc = "none" /\ prod_role = "free"
  BY DEF ClaimProducer, IInv, ProdInv, TypeOK
<1>2. /\ prod_switch = NoSwitch /\ prod_taken = {0} /\ tailAt = [seg |-> 0, pos |-> 0]
      /\ prod_resume = [s \in Segs |-> 0]
  BY <1>1 DEF ProdCheckpoint
<1>3. Taken = {0} /\ tailAt.seg = 0 /\ tailAt.pos = 0
  BY <1>2 DEF Taken
<1>4. /\ UNCHANGED <<word, chain, tailAt, consVars, buf, to, pscan, prod_cur, prod_pos, prod_taken,
                     prod_switch, prod_resume>>
      /\ prod_role' = "held" /\ ppc' = "idle"
      /\ pst' = [cur |-> tailAt.seg, pos |-> 0, resume |-> prod_resume, taken |-> Taken,
                 claimable |-> FALSE]
  BY <1>2, <1>3 DEF ClaimProducer, NewProducer, slotVars, history
<1>5. prod_pos' \in Seqs
  BY <1>1, <1>4 DEF ProdType
<1> QED BY <1>1, <1>2, <1>3, <1>4, <1>5, NewTypes, NewHolder

\* A holder of a released role starts at the stored position; that of a dead
\* holder's role without an intent has the segment and scans for the position.
LEMMA ReclaimProducerStep ==
    ASSUME IInv, ReclaimProducer \/ ScanProducer
    PROVE  IInv'
<1>1. /\ ProdCheckpoint /\ TypeOK /\ ProdType /\ ppc = "none" /\ prod_switch = NoSwitch
      /\ ReclaimProducer => prod_role = "released"
  BY DEF ReclaimProducer, ScanProducer, IInv, ProdInv, TypeOK
<1>2. Taken = prod_taken /\ prod_cur = tailAt.seg /\ (ReclaimProducer => prod_pos = tailAt.pos)
  BY <1>1 DEF ProdCheckpoint, Taken
<1>3. /\ UNCHANGED <<word, chain, tailAt, consVars, buf, to, pscan, prod_cur, prod_taken,
                     prod_switch, prod_resume>>
      /\ prod_role' = "held" /\ prod_pos' = 0
  BY DEF ReclaimProducer, ScanProducer, ResumeAs, slotVars, history
<1>4. PICK p \in Seqs :
        /\ pst' = [cur |-> prod_cur, pos |-> p, resume |-> prod_resume, taken |-> prod_taken,
                   claimable |-> FALSE]
        /\ \/ ppc' = "idle" /\ p = tailAt.pos
           \/ ppc' = "scan" /\ M >= 2
  <2>1. CASE ReclaimProducer
    <3>1. prod_pos \in Seqs
      BY <1>1 DEF ProdType
    <3> QED BY <1>2, <2>1, <3>1 DEF ReclaimProducer, ResumeAs
  <2>2. CASE ScanProducer
    BY <2>2, NewTypes DEF ScanProducer, ResumeAs
  <2> QED BY <2>1, <2>2
<1> QED BY <1>1, <1>2, <1>3, <1>4, NewTypes, NewHolder

\* The word at the last position of a segment left for good is no longer claimable.
LEMMA LeftWord ==
    ASSUME TypeOK, Core, NEW s \in Segs, NEW r \in Seqs, r = PPos(s),
           NEW p \in Seqs, p = seq_of(r - 1), s # tailAt.seg
    PROVE  word[s][Slot(p)] # Claimable(p)
<1>1. PICK c \in Seqs, u \in Nat : c = CPos(s) /\ u = Backlog(s) /\ r = Pos(c, u)
  BY SegPositions
<1>2. Window(word[s], c, u, s, tailAt.seg)
  BY <1>1 DEF Core, WindowAgrees
<1>3. /\ u <= M /\ c \in Int /\ M \in Nat \ {0} /\ r \in Int /\ -1 \in Int /\ r + (-1) = r - 1
      /\ u \in Int
  BY <1>2, Ranges DEF Window, Seqs
<1>4. p = Pos(c, u + (-1))
  <2>1. p = Pos(r, -1)
    BY <1>3, Zenon DEF Pos
  <2> QED BY <1>1, <1>3, <2>1, PosAdd
<1>5. /\ Claimable(p) = Plain(p) /\ Plain(p).seq = p /\ CommitSeq(p) # p /\ Pos(p, M) # p
      /\ Pos(p, M) \in Seqs
  BY PlainWord, SeqsDiffer
<1>6. CASE u > 0
  <2>1. PICK k \in 0 .. M - 1 : k = u + (-1) /\ k < u
    BY <1>3, <1>6
  <2>2. word[s][Slot(p)].seq = CommitSeq(p)
    BY <1>2, <1>4, <2>1 DEF Window
  <2> QED BY <1>5, <2>2
<1>7. CASE u = 0
  <2>1. PICK k \in 0 .. M - 1 : /\ k = M - 1 /\ k >= u /\ (u + (-1)) + M = k /\ M \in Int
                                /\ u + (-1) \in Int
    BY <1>3, <1>7
  <2>2. Pos(p, M) = Pos(c, k)
    BY <1>3, <1>4, <2>1, PosAdd
  <2>3. word[s][Slot(Pos(p, M))] = Plain(Pos(p, M))
    BY <1>2, <2>1, <2>2 DEF Window
  <2>4. Slot(Pos(p, M)) = Slot(p) /\ Plain(Pos(p, M)).seq = Pos(p, M)
    BY <1>5, WindowSlots, PlainWord
  <2> QED BY <1>5, <2>3, <2>4
<1> QED BY <1>3, <1>6, <1>7

\* The word of the switch's commit tells whether it was made.
LEMMA RepairProducerStep ==
    ASSUME IInv, RepairProducer
    PROVE  IInv'
<1>1. /\ ProdCheckpoint /\ TypeOK /\ Core /\ ProdType /\ ppc = "none" /\ prod_role # "free"
      /\ prod_switch # NoSwitch /\ tailAt.pos \in Seqs /\ tailAt.seg \in Segs
  BY HeadPlace DEF RepairProducer, IInv, ProdInv, TypeOK
<1>2. /\ UNCHANGED <<word, chain, tailAt, consVars, buf, to, pscan, prod_cur, prod_taken,
                     prod_switch, prod_resume>>
      /\ prod_role' = "held" /\ prod_pos' = 0 /\ ppc' = "repair taken"
  BY DEF RepairProducer, ResumeAs, slotVars, history
<1>3. PICK i \in Intents : i = prod_switch
  BY <1>1 DEF ProdType
<1>4. ProdIntent(i) /\ i.from \in Segs /\ i.to \in Segs /\ i.bit \in BOOLEAN
  BY <1>1, <1>3 DEF ProdCheckpoint, Intents
<1>5. PICK r \in Seqs, p \in Seqs : r = prod_resume[i.from] /\ p = seq_of(r - 1)
  BY <1>1, <1>4, PosBack DEF ProdType, Resumes
<1>6. pst' = [cur |-> tailAt.seg, pos |-> tailAt.pos, resume |-> prod_resume, taken |-> Taken,
              claimable |-> FALSE]
  <2>1. CASE tailAt.seg = i.from
    <3>1. r = seq_of(tailAt.pos + 1) /\ Backlog(tailAt.seg) < M
      BY <1>4, <1>5, <2>1 DEF ProdIntent
    <3>2. p = tailAt.pos
      BY <1>1, <1>5, <3>1, PosBack
    <3>3. word[i.from][Slot(p)] = Claimable(p)
      BY <1>1, <2>1, <3>1, <3>2, TailPlace, PlainWord DEF WordOf
    <3>4. ResumeAs(i.from, p, SetBit(prod_taken, i.to, ~i.bit))
      BY <1>3, <1>5, <3>3 DEF RepairProducer
    <3>5. Taken = SetBit(prod_taken, i.to, ~i.bit)
      BY <1>1, <1>3, <1>4, <2>1 DEF Taken, SetBit
    <3> QED BY <2>1, <3>2, <3>4, <3>5 DEF ResumeAs
  <2>2. CASE tailAt.seg # i.from
    <3>1. tailAt.seg = i.to /\ prod_resume[i.to] = tailAt.pos /\ r = PPos(i.from)
      BY <1>4, <1>5, <2>2 DEF ProdIntent, PPos
    <3>2. word[i.from][Slot(p)] # Claimable(p)
      BY <1>1, <1>4, <1>5, <2>2, <3>1, LeftWord
    <3>3. ResumeAs(i.to, prod_resume[i.to], SetBit(prod_taken, i.to, i.bit))
      BY <1>3, <1>5, <3>2 DEF RepairProducer
    <3>4. Taken = SetBit(prod_taken, i.to, i.bit)
      BY <1>1, <1>3, <1>4, <2>2 DEF Taken, SetBit
    <3> QED BY <3>1, <3>3, <3>4 DEF ResumeAs
  <2> QED BY <2>1, <2>2
<1> QED BY <1>1, <1>2, <1>6, NewTypes, NewHolder

\* The stores of a repair keep the checkpoint telling of the switch.
LEMMA RepairProdStoreStep ==
    ASSUME IInv, RepairProdTaken \/ RepairProdCur
    PROVE  IInv'
<1>1. /\ ProdHolder /\ ProdStores /\ ProdCheckpoint /\ pst.cur = tailAt.seg /\ TypeOK /\ Core /\ ProdType
      /\ ppc \in {"repair taken", "repair cur"} /\ prod_role = "held" /\ tailAt.seg \in Segs
  <2>1. ppc \in {"repair taken", "repair cur"}
    BY DEF RepairProdTaken, RepairProdCur
  <2>2. ppc # "none"
    BY <2>1
  <2> QED BY <2>1, <2>2, HolderPlace
<1>2. /\ UNCHANGED <<word, chain, tailAt, consVars, buf, prod_role, prod_pos,
                     prod_switch, prod_resume, pst, to, pscan>>
      /\ \/ /\ ppc = "repair taken" /\ ppc' = "repair cur" /\ prod_taken' = pst.taken
            /\ UNCHANGED prod_cur
         \/ /\ ppc = "repair cur" /\ ppc' = "repair done" /\ prod_cur' = pst.cur
            /\ UNCHANGED prod_taken
  BY DEF RepairProdTaken, RepairProdCur, slotVars, history
<1>3. /\ ~Switching /\ pst.taken = Taken /\ prod_switch # NoSwitch
      /\ pst.taken \in SUBSET Segs /\ pst.pos = tailAt.pos
      /\ ppc = "repair cur" => prod_taken = Taken
  BY <1>1 DEF ProdStores, ProdHolder, ProdType, LastStored, Storing, Switching, Ahead
<1>4. PICK i \in Intents : i = prod_switch /\ ProdIntent(i)
  BY <1>1, <1>3 DEF ProdCheckpoint, ProdType
<1>5. Taken' = Taken
  <2>1. CASE ppc = "repair taken"
    <3>1. prod_switch' = i /\ prod_taken' = Taken
      BY <1>2, <1>3, <1>4, <2>1
    <3>2. Taken = SetBit(prod_taken, i.to, i.bit <=> tailAt.seg # i.from)
      BY <1>3, <1>4 DEF Taken
    <3>3. Taken' = SetBit(Taken, i.to, i.bit <=> tailAt.seg # i.from)
      BY <1>2, <1>3, <1>4, <3>1 DEF Taken
    <3> QED BY <3>2, <3>3 DEF SetBit
  <2>2. CASE ppc = "repair cur"
    BY <1>2, <2>2 DEF Taken
  <2> QED BY <1>1, <2>1, <2>2
<1>6. ProdType'
  BY <1>1, <1>2, <1>3 DEF ProdType, ProdPcs
<1>7. /\ ProdStill /\ TypeOK' /\ Seen' = Seen /\ tailAt' = tailAt
      /\ Backlog(tailAt.seg)' = Backlog(tailAt.seg)
  BY <1>2, <1>5, <1>6, StoreStill
<1>8. ProdIntent(i)'
  BY <1>2, <1>4, <1>7 DEF ProdIntent
<1>9. ProdCheckpoint'
  BY <1>1, <1>2, <1>3, <1>4, <1>8 DEF ProdCheckpoint
<1>10. ProdHolder'
  BY <1>1, <1>2, <1>3, <1>5, <1>7 DEF ProdHolder, Switching, Ahead, Writing, Storing
<1>11. ProdStores'
  BY <1>1, <1>2, <1>3, <1>5 DEF ProdStores, Switching, LastStored, Storing
<1>12. ProdInv'
  BY <1>1, <1>2, <1>9, <1>10, <1>11 DEF IInv, ProdInv
<1> QED BY <1>7, <1>12, ProdKeeps

-----------------------------------------------------------------------------
(* The commit.                                                             *)

\* Where the commit goes on, and that it is a commit as CoreSends describes it.
LEMMA PublishSends ==
    ASSUME IInv, CommitPublish
    PROVE  \E f \in Segs, n \in Seqs, v \in SlotWord, g \in Segs :
             /\ Sends(f, n, v, g) /\ headAt' = headAt /\ GivenBack' = GivenBack
             /\ f = tailAt.seg /\ n = tailAt.pos /\ tailAt' = [seg |-> g, pos |-> tailAt'.pos]
             /\ tailAt'.pos \in Seqs
             /\ \/ /\ to = NoSeg /\ g = f /\ tailAt'.pos = pst.pos
                   /\ prod_switch = NoSwitch /\ Taken' = Taken
                \/ /\ to = g /\ g # f /\ tailAt'.pos = prod_resume[g] /\ g \notin Seen
                   /\ prod_resume[f] = pst.pos /\ pst.resume[f] = pst.pos
                   /\ prod_switch # NoSwitch /\ prod_switch.from = f /\ prod_switch.to = g
                   /\ prod_taken = pst.taken /\ prod_cur = g
                   /\ Taken' = Flip(Taken, g) /\ pst.taken = Flip(Taken, g)
<1>1. /\ ProdHolder /\ ProdStores /\ ProdCheckpoint /\ TypeOK /\ Core /\ ProdType /\ SeenAgrees
      /\ ppc = "publish"
  BY HolderPlace DEF CommitPublish, IInv
<1>2. PICK f \in Segs, n \in Seqs, q \in Seqs :
        /\ f = tailAt.seg /\ n = tailAt.pos /\ q = pst.pos /\ f = pst.cur
        /\ q = seq_of(n + 1) /\ n = seq_of(q - 1) /\ seq_of(q) = q /\ seq_of(n) = n
        /\ tailAt = [seg |-> f, pos |-> n]
  <2>1. PICK f \in Segs, n \in Seqs : f = tailAt.seg /\ n = tailAt.pos
    BY <1>1, HeadPlace
  <2>2. pst.pos = seq_of(n + 1) /\ f = pst.cur
    BY <1>1, <2>1 DEF ProdHolder, Ahead
  <2>3. seq_of(n + 1) \in Seqs /\ seq_of(seq_of(n + 1) - 1) = n
    BY PosBack
  <2>4. tailAt = [seg |-> f, pos |-> n]
    BY <1>1, <2>1 DEF TypeOK, RingType, Place
  <2>5. \A x \in Seqs : seq_of(x) = x
    BY SeqOf
  <2> QED BY <2>1, <2>2, <2>3, <2>4, <2>5
<1>3. /\ UNCHANGED <<buf, prodCp, consVars>> /\ Backlog(f) < M
      /\ word' = [word EXCEPT ![f][Slot(n)] = [Committed(n) EXCEPT !.moved = to]]
      /\ chain' = Append(chain, tailAt)
      /\ tailAt' = IF to = NoSeg THEN At(f, q) ELSE At(to, pst.resume[to])
  BY <1>1, <1>2 DEF CommitPublish, At, ProdHolder, Ahead
<1>4. PICK v \in SlotWord : /\ v = [Committed(n) EXCEPT !.moved = to]
                            /\ v.seq = CommitSeq(n) /\ v.moved = to
  <2>1. PICK x \in Seqs : x = CommitSeq(n) /\ Committed(n) = [seq |-> x, moved |-> NoSeg]
    BY PlainWord DEF SlotWord
  <2>2. [Committed(n) EXCEPT !.moved = to] = [seq |-> x, moved |-> to]
    BY <2>1
  <2> QED BY <1>1, <2>1, <2>2 DEF SlotWord, ProdType
<1>5. headAt' = headAt /\ GivenBack' = GivenBack
  <2>1. PICK c \in Seq(Place) : c = chain
    BY <1>1 DEF TypeOK, RingType
  <2>2. PICK e \in Place : e = tailAt
    BY <1>1, HeadPlace
  <2>3. Append(c, e) # <<>> /\ (c = <<>> => Head(Append(c, e)) = e)
        /\ (c # <<>> => Head(Append(c, e)) = Head(c))
    <3>1. Append(c, e) # <<>> /\ Head(Append(c, e)) = Append(c, e)[1]
      OBVIOUS
    <3>2. c = <<>> => Append(c, e)[1] = e
      OBVIOUS
    <3>3. c # <<>> => Append(c, e)[1] = c[1] /\ Head(c) = c[1]
      OBVIOUS
    <3> QED BY <3>1, <3>2, <3>3
  <2>4. headAt' = headAt
    BY <1>3, <2>1, <2>2, <2>3 DEF headAt
  <2> QED BY <1>3, <2>4 DEF GivenBack, consVars, consCp
<1>6. f \in Used /\ \A s \in Segs : CPos(s)' = CPos(s)
  BY <1>1, <1>2, <1>3, <1>5 DEF Core, BitsAgree, CPos, consVars, consCp
<1>7. CASE to = NoSeg
  <2>1. tailAt' = [seg |-> f, pos |-> q] /\ tailAt'.seg = f /\ tailAt'.pos = q
    BY <1>2, <1>3, <1>7 DEF At
  <2>2. prod_switch = NoSwitch
    BY <1>1, <1>7 DEF ProdStores, LastStored, Switching, Storing
  <2>3. Taken' = Taken
    BY <1>3, <2>2 DEF Taken, prodCp
  <2>4. Used' = Used \cup {f}
    BY <1>5, <1>6, <2>3 DEF Used
  <2>5. PPos(f)' = seq_of(n + 1) /\ \A s \in Segs : s # f => PPos(s)' = PPos(s)
    BY <1>2, <1>3, <2>1 DEF PPos, prodCp
  <2>6. Sends(f, n, v, f)
    BY <1>2, <1>3, <1>4, <1>6, <1>7, <2>1, <2>4, <2>5 DEF Sends
  <2> QED BY <1>2, <1>5, <1>7, <2>1, <2>2, <2>3, <2>6
<1>8. CASE to # NoSeg
  <2>1. PICK g \in Segs : g = to /\ g \notin Seen /\ g # f /\ g \notin Used /\ g # NoSeg
    <3>1. to \in Segs /\ to \notin Seen
      BY <1>1, <1>8 DEF ProdType, ProdHolder, Switching
    <3> QED BY <1>1, <1>6, <1>8, <3>1 DEF SeenAgrees
  <2>2. /\ prod_switch = switch_intent(f, g, g \in pst.taken) /\ prod_taken = pst.taken
        /\ pst.taken = Flip(Taken, g) /\ prod_cur = g /\ pst.resume[f] = q
        /\ pst.resume[g] = prod_resume[g]
    BY <1>1, <1>2, <1>8, <2>1 DEF ProdStores, ProdHolder, LastStored, Switching, Storing
  <2>3. PICK i \in Intents : /\ i = prod_switch /\ i # NoSwitch /\ i.from = f /\ i.to = g
                            /\ i.bit \in BOOLEAN /\ (i.bit <=> g \in pst.taken)
    <3>1. PICK b \in BOOLEAN : b = (to \in pst.taken) /\ (b = TRUE <=> to \in pst.taken)
      <4>1. PICK x, S : x = to /\ S = pst.taken
        OBVIOUS
      <4>2. \E b \in BOOLEAN : b = (x \in S) /\ (b = TRUE <=> x \in S)
        BY TruthOf
      <4> QED BY <4>1, <4>2
    <3>2. PICK i : i = prod_switch /\ i = switch_intent(f, g, b)
      BY <2>1, <2>2, <3>1
    <3>3. b \in BOOLEAN
      BY <3>1
    <3>4. i = [from |-> f, to |-> g, bit |-> b]
      BY <3>2 DEF switch_intent
    <3>5. i \in Intents /\ i.from = f /\ i.to = g /\ i.bit = b
      BY <2>1, <3>3, <3>4 DEF Intents
    <3> QED BY <2>1, <3>1, <3>2, <3>5, IntentAssumption
  <2>4. prod_resume[f] = q
    BY <1>1, <1>2, <2>3 DEF ProdCheckpoint, ProdIntent
  <2>5. tailAt' = [seg |-> g, pos |-> prod_resume[g]] /\ tailAt'.seg = g
        /\ tailAt'.pos = prod_resume[g] /\ prod_resume[g] \in Seqs
    <3>1. prod_resume[g] \in Seqs /\ \A x \in Seqs : seq_of(x) = x
      BY <1>1, SeqOf DEF ProdType, Resumes
    <3> QED BY <1>3, <1>8, <2>1, <2>2, <3>1 DEF At
  <2>6. Taken' = Flip(Taken, g)
    <3>1. prod_switch' = i /\ prod_taken' = Flip(Taken, g)
      BY <1>3, <2>2, <2>3 DEF prodCp
    <3>2. Taken' = SetBit(Flip(Taken, g), g, i.bit <=> tailAt'.seg # f)
      BY <2>3, <3>1 DEF Taken
    <3>3. (i.bit <=> tailAt'.seg # f) <=> g \in Flip(Taken, g)
      BY <2>1, <2>2, <2>3, <2>5
    <3> QED BY <3>2, <3>3, MaskBits DEF SetBit
  <2>7. Used' = Used \cup {g}
    BY <1>5, <2>1, <2>6 DEF Used, SymDiff, Flip
  <2>8. PPos(f)' = seq_of(n + 1) /\ \A s \in Segs : s # f => PPos(s)' = PPos(s)
    BY <1>2, <1>3, <2>1, <2>4, <2>5 DEF PPos, prodCp
  <2>9. Sends(f, n, v, g)
    BY <1>2, <1>3, <1>4, <1>6, <2>1, <2>5, <2>7, <2>8 DEF Sends
  <2> QED BY <1>2, <1>5, <2>1, <2>2, <2>3, <2>4, <2>5, <2>6, <2>9
<1> QED BY <1>7, <1>8

\* The commit's store appends the message's place and moves the producer to the
\* next, and under its intent it takes the segment there.
LEMMA CommitPublishStep ==
    ASSUME IInv, CommitPublish
    PROVE  IInv'
<1>1. /\ ProdHolder /\ ProdStores /\ ProdCheckpoint /\ TypeOK /\ Core /\ ProdType /\ SeenAgrees
      /\ ChainFull /\ ConsInv /\ ppc = "publish" /\ pst.cur = tailAt.seg /\ prod_role = "held"
  BY HolderPlace DEF CommitPublish, IInv
<1>2. PICK f \in Segs, n \in Seqs, v \in SlotWord, g \in Segs :
        /\ Sends(f, n, v, g) /\ headAt' = headAt /\ GivenBack' = GivenBack
        /\ f = tailAt.seg /\ n = tailAt.pos /\ tailAt' = [seg |-> g, pos |-> tailAt'.pos]
        /\ tailAt'.pos \in Seqs
        /\ \/ /\ to = NoSeg /\ g = f /\ tailAt'.pos = pst.pos
              /\ prod_switch = NoSwitch /\ Taken' = Taken
           \/ /\ to = g /\ g # f /\ tailAt'.pos = prod_resume[g] /\ g \notin Seen
              /\ prod_resume[f] = pst.pos /\ pst.resume[f] = pst.pos
              /\ prod_switch # NoSwitch /\ prod_switch.from = f /\ prod_switch.to = g
              /\ prod_taken = pst.taken /\ prod_cur = g
              /\ Taken' = Flip(Taken, g) /\ pst.taken = Flip(Taken, g)
  BY PublishSends
<1>3. /\ UNCHANGED <<buf, prodCp, consVars, pscan>>
      /\ word' = [word EXCEPT ![f][Slot(n)] = v] /\ chain' = Append(chain, tailAt)
      /\ pst' = [pst EXCEPT !.cur = g, !.pos = tailAt'.pos] /\ to' = NoSeg
      /\ ppc' = IF to = NoSeg THEN "idle" ELSE "switch done"
  <2>1. PICK e : e = tailAt' /\ e.seg = g
    BY <1>2 DEF Sends
  <2>2. pst' = [pst EXCEPT !.cur = e.seg, !.pos = e.pos]
    BY <2>1 DEF CommitPublish
  <2> QED BY <1>2, <2>1, <2>2 DEF Sends, CommitPublish
<1>4. /\ pst'.cur = g /\ pst'.pos = tailAt'.pos /\ pst'.resume = pst.resume
      /\ pst'.taken = pst.taken /\ pst'.claimable = pst.claimable /\ tailAt'.seg = g
  <2>1. PICK q \in Seqs : q = tailAt'.pos /\ tailAt'.seg = g
    BY <1>2 DEF Sends
  <2>2. pst' = [pst EXCEPT !.cur = g, !.pos = q]
    BY <1>3, <2>1
  <2> QED BY <1>1, <2>1, <2>2 DEF ProdType
<1>5. TypeOK'
  <2>1. tailAt' \in Place /\ tailAt \in Place
    BY <1>1, <1>2 DEF Place, TypeOK, RingType
  <2>2. Slot(n) \in Slots
    BY WindowSlots
  <2>3. word' \in [Segs -> [Slots -> SlotWord]]
    BY <1>1, <1>2, <1>3, <2>2 DEF TypeOK, RingType
  <2>4. RingType'
    <3>1. PICK c \in Seq(Place), e \in Place : c = chain /\ e = tailAt
      BY <1>1, <2>1 DEF TypeOK, RingType
    <3>2. Append(c, e) \in Seq(Place)
      OBVIOUS
    <3> QED BY <1>1, <1>3, <2>1, <2>3, <3>1, <3>2 DEF TypeOK, RingType, consVars, consCp
  <2>5. ProdType'
    BY <1>1, <1>2, <1>3 DEF ProdType, ProdPcs, prodCp
  <2>6. ConsType'
    BY <1>1, <1>3 DEF TypeOK, ConsType, consVars, consCp
  <2> QED BY <2>4, <2>5, <2>6 DEF TypeOK
<1>6. Core' /\ Backlog(f)' = Backlog(f) + 1
  BY <1>1, <1>2, <1>5, CoreSends
<1>7. SeenAgrees'
  <2>1. Used' = Used \cup {g} /\ g = tailAt'.seg /\ f \in Used
    BY <1>1, <1>2 DEF Sends, Core, BitsAgree
  <2>2. CASE g = f /\ Taken' = Taken
    BY <1>1, <1>3, <2>1, <2>2 DEF SeenAgrees, Seen, consVars, consCp
  <2>3. CASE g \notin Seen /\ Taken' = Flip(Taken, g)
    <3>1. Seen' = Seen \cup {g}
      BY <1>3, <2>3 DEF Seen, SymDiff, Flip, consVars, consCp
    <3> QED BY <1>1, <2>1, <3>1 DEF SeenAgrees
  <2> QED BY <1>2, <2>2, <2>3
<1>8. PICK l \in Nat : l = Len(chain)
  BY <1>1, HeadPlace
<1>9. /\ chain' # <<>> /\ Len(chain') = l + 1 /\ chain'[l + 1] = tailAt
      /\ \A i \in 1 .. l : chain'[i] = chain[i]
      /\ chain # <<>> => word'[headAt.seg][Slot(headAt.pos)] = WordOf(headAt)
  <2>1. Sends(f, n, v, g) /\ TypeOK /\ Core
    BY <1>1, <1>2
  <2> QED BY <1>8, <2>1, SendWords
<1>10. ChainFull'
  <2>1. buf[f][Slot(n)] \in Msg
    BY <1>1, <1>2 DEF ProdHolder
  <2>2. ASSUME NEW i \in 1 .. l + 1
        PROVE  buf[chain'[i].seg][Slot(chain'[i].pos)] \in Msg
    <3>1. CASE i = l + 1
      BY <1>2, <1>9, <2>1, <3>1
    <3>2. CASE i # l + 1
      <4>1. i \in 1 .. l
        BY <3>2
      <4> QED BY <1>1, <1>8, <1>9, <4>1 DEF ChainFull
    <3> QED BY <3>1, <3>2
  <2> QED BY <1>3, <1>9, <2>2 DEF ChainFull
<1>11. ConsInv'
  <2>1. chain # <<>> => /\ chain' # <<>> /\ WordOf(headAt)' = WordOf(headAt)
                        /\ buf'[headAt.seg][Slot(headAt.pos)] = buf[headAt.seg][Slot(headAt.pos)]
    BY <1>2, <1>3, <1>9 DEF WordOf
  <2> QED BY <1>1, <1>2, <1>3, <2>1, ConsKept
<1>12. CASE to = NoSeg
  <2>1. ppc' = "idle" /\ ~Switching /\ ~Switching' /\ ~Ahead' /\ ~Writing' /\ g = f /\ Taken' = Taken
        /\ prod_switch = NoSwitch
    BY <1>2, <1>3, <1>12, Ranges DEF Switching, Ahead, Writing, Storing
  <2>2. ProdCheckpoint'
    BY <1>1, <1>2, <1>3, <1>4, <2>1 DEF ProdCheckpoint, prodCp
  <2>3. pst.claimable = TRUE => Backlog(f)' < M
    BY <1>1, <1>2, <1>6 DEF ProdHolder
  <2>4. ProdHolder'
    BY <1>1, <1>2, <1>3, <1>4, <2>1, <2>3 DEF ProdHolder, Storing, prodCp
  <2>5. ProdStores'
    BY <1>3, <2>1 DEF ProdStores, LastStored, Storing, prodCp
  <2>6. ProdInv'
    BY <1>1, <1>3, <2>1, <2>2, <2>4, <2>5 DEF IInv, ProdInv
  <2> QED BY <1>5, <1>6, <1>7, <1>10, <1>11, <2>6 DEF IInv
<1>13. CASE to # NoSeg
  <2>1. /\ ppc' = "switch done" /\ Switching /\ ~Switching' /\ ~Ahead' /\ ~Writing' /\ g # f
        /\ prod_switch # NoSwitch /\ prod_switch.from = f /\ prod_switch.to = g
        /\ prod_taken = pst.taken /\ prod_cur = g /\ tailAt'.pos = prod_resume[g]
        /\ prod_resume[f] = pst.pos /\ pst.resume[f] = pst.pos
        /\ Taken' = Flip(Taken, g) /\ pst.taken = Flip(Taken, g)
    BY <1>2, <1>3, <1>13, Ranges DEF Switching, Ahead, Writing, Storing
  <2>2. ProdCheckpoint'
    <3>1. ProdIntent(prod_switch)'
      BY <1>2, <1>3, <1>4, <2>1 DEF ProdIntent, prodCp
    <3> QED BY <1>1, <1>3, <2>1, <3>1 DEF ProdCheckpoint, prodCp
  <2>3. ~(pst.claimable = TRUE) /\ \A s \in Segs : s # g => pst.resume[s] = prod_resume[s]
    BY <1>1, <1>2, <2>1 DEF ProdHolder
  <2>4. ProdHolder'
    BY <1>1, <1>2, <1>3, <1>4, <2>1, <2>3 DEF ProdHolder, Storing, prodCp
  <2>5. ProdStores'
    BY <1>3, <1>4, <2>1 DEF ProdStores, LastStored, Storing, prodCp
  <2>6. ProdInv'
    BY <1>1, <1>3, <2>1, <2>2, <2>4, <2>5 DEF IInv, ProdInv
  <2> QED BY <1>5, <1>6, <1>7, <1>10, <1>11, <2>6 DEF IInv
<1> QED BY <1>12, <1>13

-----------------------------------------------------------------------------
(* The consumer's steps that store nothing shared.                         *)

\* What stays of the ring in a step of the consumer but its release, for a store
\* in the checkpoint that leaves the switch bits as they are.
LEMMA ConsStoreStill ==
    ASSUME IInv, UNCHANGED <<word, chain, tailAt, prodVars, buf>>, ConsType',
           given' \in {given, GivenBack}, GivenBack' = GivenBack,
           \A s \in Segs : s # headAt.seg => cons_resume'[s] = cons_resume[s]
    PROVE  /\ ConsStill /\ TypeOK' /\ headAt' = headAt /\ WordOf(headAt)' = WordOf(headAt)
           /\ tailAt' = tailAt /\ chain' = chain /\ buf' = buf
<1>1. ConsStill
  BY DEF ConsStill
<1>2. headAt' = headAt
  BY DEF headAt
<1>3. TypeOK'
  <2>1. given' \in SUBSET Segs
    BY NoSegUsed DEF IInv, TypeOK, RingType
  <2>2. ProdType'
    BY DEF IInv, TypeOK, ProdType, prodVars, prodCp
  <2> QED BY <2>1, <2>2 DEF IInv, TypeOK, RingType
<1> QED BY <1>1, <1>2, <1>3 DEF WordOf

\* A step that keeps the checkpoint keeps what it tells.
LEMMA ConsPrivateStill ==
    ASSUME IInv, UNCHANGED <<word, chain, tailAt, prodVars, buf, consCp>>, ConsType'
    PROVE  /\ ConsStill /\ TypeOK' /\ headAt' = headAt /\ WordOf(headAt)' = WordOf(headAt)
           /\ GivenBack' = GivenBack /\ ConsCheckpoint'
<1>1. headAt' = headAt
  BY DEF headAt
<1>2. GivenBack' = GivenBack
  BY <1>1 DEF GivenBack, consCp
<1>3. ConsStill /\ TypeOK' /\ WordOf(headAt)' = WordOf(headAt)
  BY <1>2, ConsStoreStill DEF consCp
<1>4. ConsCheckpoint'
  <2>1. ConsCheckpoint
    BY DEF IInv, ConsInv
  <2> QED BY <1>1, <1>3, <2>1 DEF ConsCheckpoint, ConsIntent, Committed, Plain, consCp
<1> QED BY <1>1, <1>2, <1>3, <1>4

\* A holder of the consumer's role, in short.
LEMMA ConsHolderPlace ==
    ASSUME IInv, cpc # "none"
    PROVE  /\ ConsHolder /\ ConsStores /\ ConsCheckpoint /\ cons_role = "held"
           /\ cst.cur \in Segs /\ cst.pos \in Seqs /\ headAt.seg \in Segs /\ headAt.pos \in Seqs
           /\ TypeOK /\ Core /\ ConsType
BY HeadPlace DEF IInv, ConsInv, ConsHolder, TypeOK, ConsType

\* A guard's word is the oldest message's.
LEMMA ReadGuardStep ==
    ASSUME IInv, ReadGuard
    PROVE  IInv'
<1>1. /\ ConsHolder /\ ConsStores /\ TypeOK /\ Core /\ ConsType /\ cpc = "idle"
      /\ headAt.seg \in Segs /\ headAt.pos \in Seqs
  BY ConsHolderPlace DEF ReadGuard
<1>2. cst.cur = headAt.seg /\ cst.pos = headAt.pos /\ cst.given = GivenBack /\ got = NoMsg
  BY <1>1 DEF ConsHolder, Giving
<1>3. /\ UNCHANGED <<word, chain, tailAt, prodVars, buf, consCp, cst, got, cscan>>
      /\ cpc' = "reading" /\ rword' = WordOf(headAt)
      /\ WordOf(headAt).seq = Committed(headAt.pos).seq
  BY <1>2 DEF ReadGuard, WordOf, slotVars, history
<1>4. chain # <<>>
  BY <1>1, <1>3, PlainWord, HeadWord
<1>5. ConsType'
  <2>1. WordOf(headAt) \in SlotWord
    BY <1>1, WindowSlots DEF WordOf, TypeOK, RingType
  <2> QED BY <1>1, <1>3, <2>1 DEF ConsType, ConsPcs, consCp
<1>6. /\ ConsStill /\ TypeOK' /\ headAt' = headAt /\ WordOf(headAt)' = WordOf(headAt)
      /\ GivenBack' = GivenBack /\ ConsCheckpoint'
  BY <1>3, <1>5, ConsPrivateStill
<1>7. ConsHolder'
  BY <1>1, <1>2, <1>3, <1>4, <1>6 DEF ConsHolder, Holding, Giving, consCp
<1>8. ConsStores'
  BY <1>1, <1>3, <1>6 DEF ConsStores, Giving, consCp
<1>9. ConsInv'
  BY <1>1, <1>3, <1>6, <1>7, <1>8 DEF IInv, ConsInv
<1> QED BY <1>6, <1>9, ConsKeeps

\* The message read is the oldest.
LEMMA ReadStep ==
    ASSUME IInv, Read
    PROVE  IInv'
<1>1. /\ ConsHolder /\ ConsStores /\ TypeOK /\ Core /\ ConsType /\ cpc = "reading"
      /\ headAt.seg \in Segs /\ headAt.pos \in Seqs
  BY ConsHolderPlace DEF Read
<1>2. cst.cur = headAt.seg /\ cst.pos = headAt.pos /\ cst.given = GivenBack
  BY <1>1 DEF ConsHolder, Giving
<1>3. /\ UNCHANGED <<word, chain, tailAt, prodVars, buf, consCp, cst, rword, cscan>>
      /\ cpc' = "read" /\ got' = buf[headAt.seg][Slot(headAt.pos)]
  BY <1>2 DEF Read, slotVars, history
<1>4. ConsType'
  <2>1. buf[headAt.seg][Slot(headAt.pos)] \in Msg \cup {NoMsg}
    BY <1>1, WindowSlots DEF TypeOK, RingType
  <2> QED BY <1>1, <1>3, <2>1 DEF ConsType, ConsPcs, consCp
<1>5. /\ ConsStill /\ TypeOK' /\ headAt' = headAt /\ WordOf(headAt)' = WordOf(headAt)
      /\ GivenBack' = GivenBack /\ ConsCheckpoint'
  BY <1>3, <1>4, ConsPrivateStill
<1>6. ConsHolder'
  BY <1>1, <1>2, <1>3, <1>5 DEF ConsHolder, Holding, Giving, consCp
<1>7. ConsStores'
  BY <1>1, <1>3, <1>5 DEF ConsStores, Giving, consCp
<1>8. ConsInv'
  BY <1>1, <1>3, <1>5, <1>6, <1>7 DEF IInv, ConsInv
<1> QED BY <1>5, <1>8, ConsKeeps

\* A dropped read guard leaves the message the oldest.
LEMMA DropReadStep ==
    ASSUME IInv, DropRead
    PROVE  IInv'
<1>1. /\ ConsHolder /\ ConsStores /\ TypeOK /\ Core /\ ConsType /\ cpc \in {"reading", "read"}
      /\ headAt.seg \in Segs /\ headAt.pos \in Seqs
  <2>1. cpc \in {"reading", "read"}
    BY DEF DropRead
  <2>2. cpc # "none"
    BY <2>1
  <2> QED BY <2>1, <2>2, ConsHolderPlace
<1>2. cst.cur = headAt.seg /\ cst.pos = headAt.pos /\ cst.given = GivenBack
  BY <1>1 DEF ConsHolder, Giving
<1>3. /\ UNCHANGED <<word, chain, tailAt, prodVars, buf, consCp, cst, cscan>>
      /\ cpc' = "idle" /\ got' = NoMsg /\ rword' = Plain(0)
  BY DEF DropRead, slotVars, history
<1>4. ConsType'
  BY <1>1, <1>3, NewTypes DEF ConsType, ConsPcs, consCp
<1>5. /\ ConsStill /\ TypeOK' /\ headAt' = headAt /\ WordOf(headAt)' = WordOf(headAt)
      /\ GivenBack' = GivenBack /\ ConsCheckpoint'
  BY <1>3, <1>4, ConsPrivateStill
<1>6. ConsHolder'
  BY <1>1, <1>2, <1>3, <1>5 DEF ConsHolder, Holding, Giving, consCp
<1>7. ConsStores'
  BY <1>1, <1>3, <1>5 DEF ConsStores, Giving, consCp
<1>8. ConsInv'
  BY <1>1, <1>3, <1>5, <1>6, <1>7 DEF IInv, ConsInv
<1> QED BY <1>5, <1>8, ConsKeeps

\* A consumer may die at any step: its checkpoint tells a successor the rest.
LEMMA ConsumerDiesStep ==
    ASSUME IInv, ConsumerDies
    PROVE  IInv'
<1>1. UNCHANGED <<word, chain, tailAt, prodVars, buf, consCp>> /\ ConsType
  BY DEF ConsumerDies, slotVars, history, IInv, TypeOK
<1>2. cpc' = "none" /\ cst' = NewConsumer /\ rword' = Plain(0) /\ got' = NoMsg /\ cscan' = <<>>
  BY DEF ConsumerDies, ConsumerGone
<1>3. ConsType'
  BY <1>1, <1>2, NewTypes DEF ConsType, ConsPcs, consCp
<1>4. ConsStill /\ TypeOK' /\ ConsCheckpoint'
  BY <1>1, <1>3, ConsPrivateStill
<1>5. ConsInv'
  BY <1>2, <1>4 DEF ConsInv
<1> QED BY <1>4, <1>5, ConsKeeps

\* A position stored for the release is the consumer's place.
LEMMA StoreConsPosStep ==
    ASSUME IInv, StoreConsPos
    PROVE  IInv'
<1>1. /\ ConsHolder /\ ConsStores /\ ConsCheckpoint /\ TypeOK /\ Core /\ ConsType /\ cpc = "idle"
      /\ cst.pos \in Seqs /\ cons_role = "held"
  BY ConsHolderPlace DEF StoreConsPos
<1>2. /\ UNCHANGED <<word, chain, tailAt, prodVars, buf, cons_role, cons_cur, cons_switch,
                     cons_resume, given, cst, rword, got, cscan>>
      /\ cpc' = "release" /\ cons_pos' = cst.pos
  BY DEF StoreConsPos, slotVars, history
<1>3. cst.pos = headAt.pos /\ cons_switch = NoSwitch
  BY <1>1 DEF ConsHolder, ConsStores
<1>4. ConsType' /\ GivenBack' = GivenBack
  <2>1. headAt' = headAt
    BY <1>2 DEF headAt
  <2> QED BY <1>1, <1>2, <2>1 DEF ConsType, ConsPcs, GivenBack
<1>5. ConsStill /\ TypeOK' /\ headAt' = headAt /\ WordOf(headAt)' = WordOf(headAt)
  BY <1>2, <1>4, ConsStoreStill
<1>6. ConsCheckpoint'
  BY <1>1, <1>2, <1>3, <1>5 DEF ConsCheckpoint
<1>7. ConsHolder'
  BY <1>1, <1>2, <1>3, <1>4, <1>5 DEF ConsHolder, Holding, Giving
<1>8. ConsStores'
  BY <1>1, <1>2, <1>3, <1>5 DEF ConsStores, Giving
<1>9. ConsInv'
  BY <1>1, <1>2, <1>6, <1>7, <1>8 DEF IInv, ConsInv
<1> QED BY <1>5, <1>9, ConsKeeps

\* A released role leaves a checkpoint that tells its place.
LEMMA ReleaseConsumerStep ==
    ASSUME IInv, ReleaseConsumer
    PROVE  IInv'
<1>1. /\ ConsHolder /\ ConsStores /\ ConsCheckpoint /\ TypeOK /\ ConsType /\ cpc = "release"
  BY ConsHolderPlace DEF ReleaseConsumer
<1>2. /\ UNCHANGED <<word, chain, tailAt, prodVars, buf, cons_pos, cons_cur, cons_switch,
                     cons_resume, given>>
      /\ cons_role' = "released" /\ cpc' = "none" /\ cst' = NewConsumer /\ rword' = Plain(0)
      /\ got' = NoMsg /\ cscan' = <<>>
  BY DEF ReleaseConsumer, ConsumerGone, slotVars, history
<1>3. cons_pos = headAt.pos /\ cons_switch = NoSwitch
  BY <1>1 DEF ConsHolder, ConsStores
<1>4. ConsType' /\ GivenBack' = GivenBack
  <2>1. headAt' = headAt
    BY <1>2 DEF headAt
  <2> QED BY <1>1, <1>2, <2>1, NewTypes DEF ConsType, ConsPcs, GivenBack
<1>5. ConsStill /\ TypeOK' /\ headAt' = headAt
  BY <1>2, <1>4, ConsStoreStill
<1>6. ConsCheckpoint'
  BY <1>1, <1>2, <1>3, <1>5 DEF ConsCheckpoint
<1>7. ConsInv'
  BY <1>2, <1>6 DEF ConsInv
<1> QED BY <1>5, <1>7, ConsKeeps

-----------------------------------------------------------------------------
(* The consumer's stores in its checkpoint.                                *)

\* The resume entry is stored of the segment in use, where no successor needs it.
LEMMA StoreConsResumeStep ==
    ASSUME IInv, StoreConsResume
    PROVE  IInv'
<1>1. /\ ConsHolder /\ ConsStores /\ ConsCheckpoint /\ TypeOK /\ Core /\ ConsType /\ cpc = "read"
      /\ headAt.seg \in Segs /\ headAt.pos \in Seqs /\ cons_role = "held" /\ rword.moved # NoSeg
  BY ConsHolderPlace DEF StoreConsResume
<1>2. /\ cst.cur = headAt.seg /\ cst.pos = headAt.pos /\ cst.given = GivenBack
      /\ cons_switch = NoSwitch
      /\ \A s \in Segs : s # headAt.seg => cst.resume[s] = cons_resume[s]
  BY <1>1 DEF ConsHolder, ConsStores, Giving
<1>3. PICK f \in Segs, n \in Seqs, R \in Resumes, g \in SUBSET Segs :
        f = headAt.seg /\ n = seq_of(headAt.pos + 1) /\ R = cst.resume /\ g = Flip(GivenBack, f)
  <2>1. seq_of(headAt.pos + 1) \in Seqs
    BY <1>1, PosBack
  <2>2. Flip(GivenBack, headAt.seg) \in SUBSET Segs
    BY <1>1, NoSegUsed DEF Flip, SymDiff
  <2> QED BY <1>1, <2>1, <2>2 DEF ConsType
<1>4. /\ UNCHANGED <<word, chain, tailAt, prodVars, buf, cons_role, cons_cur, cons_pos, cons_switch,
                     given, rword, got, cscan>>
      /\ cpc' = "store intent" /\ cons_resume' = [cons_resume EXCEPT ![f] = n]
      /\ cst' = [cst EXCEPT !.given = g, !.resume[f] = n]
  BY <1>2, <1>3 DEF StoreConsResume, slotVars, history
<1>5. /\ cst'.cur = cst.cur /\ cst'.pos = cst.pos /\ cst'.given = g /\ cst'.resume = [R EXCEPT ![f] = n]
      /\ cst' \in [cur : Segs, pos : Seqs, resume : Resumes, given : SUBSET Segs]
      /\ cons_resume' \in Resumes /\ cons_resume'[f] = n
      /\ \A s \in Segs : s # f => cst'.resume[s] = R[s] /\ cons_resume'[s] = cons_resume[s]
  <2>1. [R EXCEPT ![f] = n] \in Resumes /\ \A s \in Segs : s # f => [R EXCEPT ![f] = n][s] = R[s]
    BY <1>3 DEF Resumes
  <2>2. /\ cst'.cur = cst.cur /\ cst'.pos = cst.pos /\ cst'.given = g
        /\ cst'.resume = [R EXCEPT ![f] = n]
        /\ cst' \in [cur : Segs, pos : Seqs, resume : Resumes, given : SUBSET Segs]
    BY <1>1, <1>3, <1>4, <2>1 DEF ConsType
  <2>3. /\ cons_resume' \in Resumes /\ cons_resume'[f] = n
        /\ \A s \in Segs : s # f => cons_resume'[s] = cons_resume[s]
    BY <1>1, <1>3, <1>4 DEF ConsType, Resumes
  <2> QED BY <2>1, <2>2, <2>3
<1>6. ConsType' /\ GivenBack' = GivenBack
  <2>1. headAt' = headAt
    BY <1>4 DEF headAt
  <2> QED BY <1>1, <1>4, <1>5, <2>1 DEF ConsType, ConsPcs, Giving, GivenBack
<1>7. ConsStill /\ TypeOK' /\ headAt' = headAt /\ WordOf(headAt)' = WordOf(headAt)
  BY <1>3, <1>4, <1>5, <1>6, ConsStoreStill
<1>8. ConsCheckpoint'
  BY <1>1, <1>2, <1>4, <1>7 DEF ConsCheckpoint
<1>9. ConsHolder'
  <2>1. \A s \in Segs : s # headAt.seg => cst'.resume[s] = cons_resume'[s]
    BY <1>2, <1>3, <1>5
  <2>2. cst'.resume[headAt.seg] = seq_of(headAt.pos + 1)
    BY <1>3, <1>5 DEF Resumes
  <2> QED BY <1>1, <1>2, <1>3, <1>4, <1>5, <1>6, <1>7, <2>1, <2>2 DEF ConsHolder, Holding, Giving
<1>10. ConsStores'
  BY <1>2, <1>3, <1>4, <1>5, <1>7 DEF ConsStores, Giving
<1>11. ConsInv'
  BY <1>1, <1>4, <1>8, <1>9, <1>10 DEF IInv, ConsInv
<1> QED BY <1>7, <1>11, ConsKeeps

\* The words of an intent.
LEMMA IntentWords ==
    ASSUME NEW f \in Segs, NEW t \in Segs, NEW g
    PROVE  \E i \in Intents : /\ i = switch_intent(f, t, f \in g) /\ i # NoSwitch
                              /\ i.from = f /\ i.to = t /\ i.bit \in BOOLEAN /\ (i.bit <=> f \in g)
<1>1. PICK b \in BOOLEAN : b = (f \in g) /\ (b = TRUE <=> f \in g)
  BY TruthOf
<1>2. PICK i : i = switch_intent(f, t, f \in g) /\ i = switch_intent(f, t, b)
  BY <1>1
<1>3. b \in BOOLEAN
  BY <1>1
<1>4. i = [from |-> f, to |-> t, bit |-> b]
  BY <1>2 DEF switch_intent
<1>5. i \in Intents /\ i.from = f /\ i.to = t /\ i.bit = b
  BY <1>3, <1>4 DEF Intents
<1> QED BY <1>1, <1>2, <1>5, IntentAssumption

\* The word of a guard over a MOVED message leads to a segment in use.
LEMMA MovedWord ==
    ASSUME TypeOK, Core, chain # <<>>, WordOf(headAt).moved # NoSeg
    PROVE  /\ WordOf(headAt).moved \in Segs /\ WordOf(headAt).moved # headAt.seg
           /\ WordOf(headAt) = [Committed(headAt.pos) EXCEPT !.moved = WordOf(headAt).moved]
<1>1. PICK f \in Segs, n \in Seqs : f = headAt.seg /\ n = headAt.pos
  BY HeadPlace
<1>2. PICK r \in SlotWord : r = WordOf(headAt) /\ r = ChainWord(1)
  BY <1>1, WindowSlots, HeadPlace DEF TypeOK, RingType, WordOf, ChainWord
<1>3. r.moved \in Segs
  BY <1>2 DEF SlotWord
<1>4. r.moved \in Used \ {headAt.seg}
  BY <1>2, HeadPlace DEF Core, ChainUnread
<1>5. r = [Committed(n) EXCEPT !.moved = r.moved]
  <2>1. PICK x \in Seqs : x = CommitSeq(n) /\ Committed(n) = [seq |-> x, moved |-> NoSeg]
    BY PlainWord DEF SlotWord
  <2>2. r.seq = x
    BY <1>1, <1>2, <2>1, HeadWord
  <2> QED BY <1>2, <2>1, <2>2 DEF SlotWord
<1> QED BY <1>1, <1>2, <1>3, <1>4, <1>5

\* The intent makes the checkpoint tell of the switch before anything is stored
\* that it changes.
LEMMA StoreConsIntentStep ==
    ASSUME IInv, StoreConsIntent
    PROVE  IInv'
<1>1. /\ ConsHolder /\ ConsStores /\ ConsCheckpoint /\ TypeOK /\ Core /\ ConsType
      /\ cpc = "store intent" /\ headAt.seg \in Segs /\ headAt.pos \in Seqs /\ cons_role = "held"
  BY ConsHolderPlace DEF StoreConsIntent
<1>2. /\ cst.cur = headAt.seg /\ cst.given = Flip(GivenBack, headAt.seg) /\ cons_switch = NoSwitch
      /\ chain # <<>> /\ rword = WordOf(headAt) /\ rword.moved # NoSeg
      /\ cons_resume[headAt.seg] = seq_of(headAt.pos + 1)
  BY <1>1 DEF ConsHolder, ConsStores, Holding, Giving
<1>3. /\ UNCHANGED <<word, chain, tailAt, prodVars, buf, cons_role, cons_cur, cons_pos,
                     cons_resume, given, cst, rword, got, cscan>>
      /\ cpc' = "store cur"
      /\ cons_switch' = switch_intent(headAt.seg, rword.moved, headAt.seg \in cst.given)
  BY <1>2 DEF StoreConsIntent, slotVars, history
<1>4. /\ rword.moved \in Segs /\ rword.moved # headAt.seg
      /\ WordOf(headAt) = [Committed(headAt.pos) EXCEPT !.moved = rword.moved]
  BY <1>1, <1>2, MovedWord
<1>5. PICK i \in Intents : /\ i = cons_switch' /\ i # NoSwitch /\ i.from = headAt.seg
                           /\ i.to = rword.moved /\ i.bit \in BOOLEAN
                           /\ (i.bit <=> headAt.seg \in cst.given)
  <2>1. PICK f \in Segs, t \in Segs : f = headAt.seg /\ t = rword.moved
    BY <1>1, <1>4
  <2>2. cons_switch' = switch_intent(f, t, f \in cst.given)
    BY <1>3, <2>1
  <2>3. PICK i \in Intents : /\ i = switch_intent(f, t, f \in cst.given) /\ i # NoSwitch
                             /\ i.from = f /\ i.to = t /\ i.bit \in BOOLEAN
                             /\ (i.bit <=> f \in cst.given)
    BY IntentWords
  <2> QED BY <2>1, <2>2, <2>3
<1>6. headAt' = headAt
  BY <1>3 DEF headAt
<1>7. GivenBack' = GivenBack
  <2>1. GivenBack = given
    BY <1>2 DEF GivenBack
  <2>2. GivenBack' = SetBit(given, headAt.seg, i.bit <=> headAt.seg # headAt.seg)
    BY <1>3, <1>5, <1>6 DEF GivenBack
  <2>3. (i.bit <=> headAt.seg # headAt.seg) <=> ~(headAt.seg \in Flip(given, headAt.seg))
    BY <1>2, <1>5, <2>1
  <2>4. SetBit(given, headAt.seg, ~(headAt.seg \in Flip(given, headAt.seg))) = given
    BY MaskBits
  <2> QED BY <2>1, <2>2, <2>3, <2>4 DEF SetBit
<1>8. ConsType'
  BY <1>1, <1>3, <1>5 DEF ConsType, ConsPcs, Giving
<1>9. ConsStill /\ TypeOK' /\ WordOf(headAt)' = WordOf(headAt)
  BY <1>3, <1>7, <1>8, ConsStoreStill
<1>10. ConsCheckpoint'
  <2>1. ConsIntent(i)'
    BY <1>2, <1>3, <1>4, <1>5, <1>6, <1>9 DEF ConsIntent, Committed, Plain
  <2> QED BY <1>1, <1>3, <1>5, <2>1 DEF ConsCheckpoint
<1>11. ConsHolder'
  BY <1>1, <1>3, <1>6, <1>7, <1>9 DEF ConsHolder, Holding, Giving
<1>12. ConsStores'
  BY <1>3, <1>6 DEF ConsStores
<1>13. ConsInv'
  BY <1>1, <1>3, <1>10, <1>11, <1>12 DEF IInv, ConsInv
<1> QED BY <1>9, <1>13, ConsKeeps

\* The segment is stored under the intent.
LEMMA StoreConsCurStep ==
    ASSUME IInv, StoreConsCur
    PROVE  IInv'
<1>1. /\ ConsHolder /\ ConsStores /\ ConsCheckpoint /\ TypeOK /\ Core /\ ConsType
      /\ cpc = "store cur" /\ headAt.seg \in Segs /\ headAt.pos \in Seqs /\ cons_role = "held"
  BY ConsHolderPlace DEF StoreConsCur
<1>2. /\ cst.cur = headAt.seg /\ chain # <<>> /\ rword = WordOf(headAt) /\ rword.moved # NoSeg
      /\ cons_switch = switch_intent(headAt.seg, rword.moved, headAt.seg \in cst.given)
  BY <1>1 DEF ConsHolder, ConsStores, Holding, Giving
<1>3. /\ UNCHANGED <<word, chain, tailAt, prodVars, buf, cons_role, cons_pos, cons_switch,
                     cons_resume, given, cst, rword, got, cscan>>
      /\ cpc' = "release seq" /\ cons_cur' = rword.moved
  BY DEF StoreConsCur, slotVars, history
<1>4. rword.moved \in Segs
  BY <1>1, <1>2, MovedWord
<1>5. PICK i \in Intents : i = cons_switch /\ i # NoSwitch
  <2>1. PICK f \in Segs, t \in Segs : f = headAt.seg /\ t = rword.moved
    BY <1>1, <1>4
  <2>2. cons_switch = switch_intent(f, t, f \in cst.given)
    BY <1>2, <2>1
  <2> QED BY <2>2, IntentWords
<1>6. headAt' = headAt
  BY <1>3 DEF headAt
<1>7. ConsType' /\ GivenBack' = GivenBack
  BY <1>1, <1>3, <1>4, <1>6 DEF ConsType, ConsPcs, Giving, GivenBack
<1>8. ConsStill /\ TypeOK' /\ WordOf(headAt)' = WordOf(headAt)
  BY <1>3, <1>7, ConsStoreStill
<1>9. ConsCheckpoint'
  <2>1. ConsIntent(i)'
    BY <1>1, <1>3, <1>5, <1>6, <1>8 DEF ConsCheckpoint, ConsIntent, Committed, Plain
  <2> QED BY <1>1, <1>3, <1>5, <2>1 DEF ConsCheckpoint
<1>10. ConsHolder'
  BY <1>1, <1>3, <1>6, <1>7, <1>8 DEF ConsHolder, Holding, Giving
<1>11. ConsStores'
  BY <1>2, <1>3, <1>6 DEF ConsStores
<1>12. ConsInv'
  BY <1>1, <1>3, <1>9, <1>10, <1>11 DEF IInv, ConsInv
<1> QED BY <1>8, <1>12, ConsKeeps

\* The give-back stores what the intent word tells since the release.
LEMMA GiveBackStep ==
    ASSUME IInv, GiveBack
    PROVE  IInv'
<1>1. /\ ConsHolder /\ ConsStores /\ ConsCheckpoint /\ TypeOK /\ Core /\ ConsType
      /\ cpc = "give" /\ headAt.seg \in Segs /\ headAt.pos \in Seqs /\ cons_role = "held"
  BY ConsHolderPlace DEF GiveBack
<1>2. /\ cst.given = GivenBack /\ got = NoMsg /\ cons_switch # NoSwitch
      /\ rword.moved = headAt.seg /\ cst.resume[headAt.seg] = headAt.pos
      /\ cons_cur = headAt.seg /\ cons_switch.to = headAt.seg
      /\ \A s \in Segs : s # headAt.seg => cst.resume[s] = cons_resume[s]
  BY <1>1 DEF ConsHolder, ConsStores, Giving
<1>3. PICK i \in Intents : i = cons_switch /\ ConsIntent(i) /\ i.to = headAt.seg
  BY <1>1, <1>2 DEF ConsCheckpoint, ConsType
<1>4. /\ UNCHANGED <<word, chain, tailAt, prodVars, buf, cons_role, cons_cur, cons_pos, cons_switch,
                     cons_resume, got, cscan>>
      /\ cpc' = "switch done" /\ given' = GivenBack /\ rword' = Plain(0)
      /\ cst' = [cst EXCEPT !.cur = headAt.seg, !.pos = headAt.pos]
  BY <1>2 DEF GiveBack, slotVars, history
<1>5. headAt' = headAt
  BY <1>4 DEF headAt
<1>6. GivenBack' = GivenBack
  <2>1. headAt.seg # i.from
    BY <1>3 DEF ConsIntent
  <2>2. GivenBack = SetBit(given, i.from, i.bit <=> headAt.seg # i.from)
    BY <1>2, <1>3 DEF GivenBack
  <2>3. GivenBack' = SetBit(GivenBack, i.from, i.bit <=> headAt.seg # i.from)
    BY <1>2, <1>3, <1>4, <1>5 DEF GivenBack
  <2> QED BY <2>2, <2>3 DEF SetBit
<1>7. ConsType'
  BY <1>1, <1>4, NewTypes DEF ConsType, ConsPcs
<1>8. ConsStill /\ TypeOK' /\ WordOf(headAt)' = WordOf(headAt)
  BY <1>4, <1>6, <1>7, ConsStoreStill
<1>9. ConsCheckpoint'
  <2>1. ConsIntent(i)'
    BY <1>3, <1>4, <1>5, <1>8 DEF ConsIntent, Committed, Plain
  <2> QED BY <1>1, <1>2, <1>3, <1>4, <2>1 DEF ConsCheckpoint
<1>10. cst'.cur = headAt.seg /\ cst'.pos = headAt.pos /\ cst'.resume = cst.resume
       /\ cst'.given = cst.given
  BY <1>1, <1>4 DEF ConsType
<1>11. ConsHolder'
  BY <1>1, <1>2, <1>4, <1>5, <1>6, <1>10 DEF ConsHolder, Holding, Giving
<1>12. ConsStores'
  BY <1>2, <1>4, <1>5, <1>6 DEF ConsStores
<1>13. ConsInv'
  BY <1>1, <1>4, <1>9, <1>11, <1>12 DEF IInv, ConsInv
<1> QED BY <1>8, <1>13, ConsKeeps

\* The intent is cleared when everything else tells of the new segment.
LEMMA ConsSwitchDoneStep ==
    ASSUME IInv, ConsSwitchDone
    PROVE  IInv'
<1>1. /\ ConsHolder /\ ConsStores /\ ConsCheckpoint /\ TypeOK /\ Core /\ ConsType
      /\ cpc \in {"switch done", "repair done"}
      /\ headAt.seg \in Segs /\ headAt.pos \in Seqs /\ cons_role = "held"
  <2>1. cpc \in {"switch done", "repair done"}
    BY DEF ConsSwitchDone
  <2>2. cpc # "none"
    BY <2>1
  <2> QED BY <2>1, <2>2, ConsHolderPlace
<1>2. /\ cst.cur = headAt.seg /\ cst.pos = headAt.pos /\ cst.given = GivenBack /\ got = NoMsg
      /\ given = GivenBack /\ cons_cur = headAt.seg
      /\ \A s \in Segs : s # headAt.seg => cst.resume[s] = cons_resume[s]
  BY <1>1 DEF ConsHolder, ConsStores, Giving
<1>3. PICK f \in Segs, R \in Resumes : f = headAt.seg /\ R = cst.resume
  BY <1>1 DEF ConsType
<1>4. /\ UNCHANGED <<word, chain, tailAt, prodVars, buf, cons_role, cons_cur, cons_pos, given,
                     rword, got, cscan>>
      /\ cpc' = "idle" /\ cons_switch' = NoSwitch
      /\ cons_resume' = [cons_resume EXCEPT ![f] = 0]
      /\ cst' = [cst EXCEPT !.resume[f] = 0]
  BY <1>2, <1>3 DEF ConsSwitchDone, slotVars, history
<1>5. headAt' = headAt
  BY <1>4 DEF headAt
<1>6. GivenBack' = GivenBack
  BY <1>2, <1>4 DEF GivenBack
<1>7. /\ cst'.cur = cst.cur /\ cst'.pos = cst.pos /\ cst'.given = cst.given
      /\ cst' \in [cur : Segs, pos : Seqs, resume : Resumes, given : SUBSET Segs]
      /\ cons_resume' \in Resumes
      /\ \A s \in Segs : s # f => cst'.resume[s] = R[s] /\ cons_resume'[s] = cons_resume[s]
  <2>1. [R EXCEPT ![f] = 0] \in Resumes /\ \A s \in Segs : s # f => [R EXCEPT ![f] = 0][s] = R[s]
    BY <1>3, NewTypes DEF Resumes
  <2>2. /\ cst'.cur = cst.cur /\ cst'.pos = cst.pos /\ cst'.given = cst.given
        /\ cst'.resume = [R EXCEPT ![f] = 0]
        /\ cst' \in [cur : Segs, pos : Seqs, resume : Resumes, given : SUBSET Segs]
    BY <1>1, <1>3, <1>4, <2>1 DEF ConsType
  <2>3. cons_resume' \in Resumes /\ \A s \in Segs : s # f => cons_resume'[s] = cons_resume[s]
    BY <1>1, <1>3, <1>4, NewTypes DEF ConsType, Resumes
  <2> QED BY <2>1, <2>2, <2>3
<1>8. ConsType'
  BY <1>1, <1>4, <1>7 DEF ConsType, ConsPcs
<1>9. ConsStill /\ TypeOK' /\ WordOf(headAt)' = WordOf(headAt)
  BY <1>3, <1>4, <1>6, <1>7, <1>8, ConsStoreStill
<1>10. ConsCheckpoint'
  BY <1>1, <1>2, <1>4, <1>5 DEF ConsCheckpoint
<1>11. ConsHolder'
  <2>1. \A s \in Segs : s # headAt.seg => cst'.resume[s] = cons_resume'[s]
    BY <1>2, <1>3, <1>7
  <2> QED BY <1>1, <1>2, <1>4, <1>5, <1>6, <1>7, <2>1 DEF ConsHolder, Holding, Giving
<1>12. ConsStores'
  BY <1>4 DEF ConsStores, Giving
<1>13. ConsInv'
  BY <1>1, <1>4, <1>10, <1>11, <1>12 DEF IInv, ConsInv
<1> QED BY <1>9, <1>13, ConsKeeps

-----------------------------------------------------------------------------
(* The consumer's successor.                                               *)

\* The consumer's counterpart of NewHolder.
LEMMA NewConsHolder ==
    ASSUME IInv, cpc = "none", UNCHANGED <<word, chain, tailAt, prodVars, buf, rword, got, cscan>>,
           NEW R, R = cons_resume, NEW p \in Seqs,
           cons_role' = "held", UNCHANGED <<cons_cur, cons_switch, cons_resume, given>>,
           cons_pos' \in Seqs,
           cst' = [cur |-> headAt.seg, pos |-> p, resume |-> R, given |-> GivenBack],
           \/ cpc' = "idle" /\ cons_switch = NoSwitch /\ p = headAt.pos
           \/ cpc' = "repair given" /\ cons_switch # NoSwitch /\ p = headAt.pos
           \/ cpc' = "scan" /\ cons_switch = NoSwitch /\ M >= 2
    PROVE  IInv'
<1>1. /\ ConsCheckpoint /\ TypeOK /\ Core /\ ConsType /\ got = NoMsg /\ cscan = <<>>
      /\ headAt.seg \in Segs
  BY HeadPlace DEF IInv, ConsInv, TypeOK
<1>2. headAt' = headAt
  BY DEF headAt
<1>3. ConsType' /\ GivenBack' = GivenBack
  <2>1. GivenBack \in SUBSET Segs
    BY <1>1, NoSegUsed
  <2>2. R \in Resumes
    BY <1>1 DEF ConsType
  <2>3. cst' \in [cur : Segs, pos : Seqs, resume : Resumes, given : SUBSET Segs]
    BY <1>1, <2>1, <2>2
  <2> QED BY <1>1, <1>2, <2>3 DEF ConsType, ConsPcs, GivenBack
<1>4. ConsStill /\ TypeOK' /\ WordOf(headAt)' = WordOf(headAt)
  BY <1>3, ConsStoreStill
<1>5. ConsCheckpoint'
  BY <1>1, <1>2, <1>4 DEF ConsCheckpoint, ConsIntent, Committed, Plain
<1>6. /\ cst'.cur = headAt.seg /\ cst'.pos = p /\ cst'.resume = cons_resume /\ cst'.given = GivenBack
  BY DEF ConsHolder
<1>7. ConsHolder'
  BY <1>1, <1>2, <1>3, <1>6 DEF ConsHolder, Holding, Giving
<1>8. ConsStores'
  BY DEF ConsStores, Giving
<1>9. ConsLoads(<<>>)'
  BY NoSlots DEF ConsLoads
<1>10. ConsInv'
  BY <1>1, <1>5, <1>7, <1>8, <1>9 DEF ConsInv
<1> QED BY <1>4, <1>10, ConsKeeps

\* The first holder starts at the beginning, where the ring is.
LEMMA ClaimConsumerStep ==
    ASSUME IInv, ClaimConsumer
    PROVE  IInv'
<1>1. /\ ConsCheckpoint /\ TypeOK /\ ConsType /\ cpc = "none" /\ cons_role = "free"
  BY DEF ClaimConsumer, IInv, ConsInv, TypeOK
<1>2. /\ cons_switch = NoSwitch /\ given = {} /\ headAt = [seg |-> 0, pos |-> 0]
      /\ cons_resume = [s \in Segs |-> 0]
  BY <1>1 DEF ConsCheckpoint
<1>3. GivenBack = {} /\ headAt.seg = 0 /\ headAt.pos = 0
  BY <1>2 DEF GivenBack
<1>4. /\ UNCHANGED <<word, chain, tailAt, prodVars, buf, rword, got, cscan, cons_cur, cons_pos,
                     cons_switch, cons_resume, given>>
      /\ cons_role' = "held" /\ cpc' = "idle"
      /\ cst' = [cur |-> headAt.seg, pos |-> 0, resume |-> cons_resume, given |-> GivenBack]
  BY <1>2, <1>3 DEF ClaimConsumer, NewConsumer, slotVars, history
<1>5. cons_pos' \in Seqs
  BY <1>1, <1>4 DEF ConsType
<1> QED BY <1>1, <1>2, <1>3, <1>4, <1>5, NewTypes, NewConsHolder

\* The consumer's counterpart of ReclaimProducerStep.
LEMMA ReclaimConsumerStep ==
    ASSUME IInv, ReclaimConsumer \/ ScanConsumer
    PROVE  IInv'
<1>1. /\ ConsCheckpoint /\ TypeOK /\ ConsType /\ cpc = "none" /\ cons_switch = NoSwitch
      /\ ReclaimConsumer => cons_role = "released"
  BY DEF ReclaimConsumer, ScanConsumer, IInv, ConsInv, TypeOK
<1>2. GivenBack = given /\ cons_cur = headAt.seg /\ (ReclaimConsumer => cons_pos = headAt.pos)
  BY <1>1 DEF ConsCheckpoint, GivenBack
<1>3. /\ UNCHANGED <<word, chain, tailAt, prodVars, buf, rword, got, cscan, cons_cur,
                     cons_switch, cons_resume, given>>
      /\ cons_role' = "held" /\ cons_pos' = 0
  BY DEF ReclaimConsumer, ScanConsumer, ResumeConsAs, slotVars, history
<1>4. PICK p \in Seqs :
        /\ cst' = [cur |-> cons_cur, pos |-> p, resume |-> cons_resume, given |-> given]
        /\ \/ cpc' = "idle" /\ p = headAt.pos
           \/ cpc' = "scan" /\ M >= 2
  <2>1. CASE ReclaimConsumer
    <3>1. cons_pos \in Seqs
      BY <1>1 DEF ConsType
    <3> QED BY <1>2, <2>1, <3>1 DEF ReclaimConsumer, ResumeConsAs
  <2>2. CASE ScanConsumer
    BY <2>2, NewTypes DEF ScanConsumer, ResumeConsAs
  <2> QED BY <2>1, <2>2
<1> QED BY <1>1, <1>2, <1>3, <1>4, NewTypes, NewConsHolder

\* The word at the position before the consumer's is not that position's commit.
LEMMA ReleasedWord ==
    ASSUME TypeOK, Core, NEW s \in Segs, NEW c \in Seqs, c = CPos(s),
           NEW p \in Seqs, p = seq_of(c - 1)
    PROVE  word[s][Slot(p)].seq # CommitSeq(p)
<1>1. PICK u \in Nat : u = Backlog(s)
  BY SegPositions
<1>2. Window(word[s], c, u, s, tailAt.seg)
  BY <1>1 DEF Core, WindowAgrees
<1>3. PICK k \in 0 .. M - 1 : /\ k = M - 1 /\ (-1) + M = k /\ M \in Int /\ -1 \in Int /\ c \in Int
                              /\ c + (-1) = c - 1 /\ k \in Int /\ (k < u \/ k >= u) /\ p \in Int
  BY <1>1, Ranges DEF Seqs
<1>4. PICK n \in Seqs : n = Pos(c, k) /\ n = Pos(p, M)
  <2>a. PICK d \in Int : d + M = k /\ c + d = c - 1
    BY <1>3
  <2>1. p = Pos(c, d)
    BY <2>a DEF Pos
  <2>b. c \in Int /\ M \in Int /\ d \in Int
    BY <1>3
  <2>2. Pos(Pos(c, d), M) = Pos(c, d + M)
    BY <2>b, PosAdd
  <2>3. Pos(c, k) \in Seqs
    BY <1>3, PosAdd, Zenon
  <2> QED BY <2>a, <2>1, <2>2, <2>3
<1>5. Slot(n) = Slot(p) /\ n # CommitSeq(p) /\ n # p /\ Plain(n).seq = n
  <2>1. Slot(Pos(p, M)) = Slot(p)
    BY WindowSlots
  <2>2. Pos(p, M) # CommitSeq(p) /\ Pos(p, M) # p
    BY SeqsDiffer
  <2> QED BY <1>4, <2>1, <2>2, PlainWord
<1>6. CommitSeq(n) # CommitSeq(p)
  <2> SUFFICES ASSUME CommitSeq(n) = CommitSeq(p)
               PROVE  FALSE
    OBVIOUS
  <2>1. PICK d \in Int, e \in Int : d = M + 1 /\ e = -(M + 1) /\ d + e = 0
    BY <1>3
  <2>2. /\ n \in Int /\ n + M + 1 = n + d /\ p + M + 1 = p + d
    BY <1>3, <2>1 DEF Seqs
  <2>3. Pos(n, d) = Pos(p, d)
    BY <2>2 DEF CommitSeq, Pos
  <2>4. \A a \in Int : Pos(Pos(a, d), e) = Pos(a, d + e)
    BY PosAdd, Zenon
  <2>5. Pos(n, 0) = n /\ Pos(p, 0) = p
    BY WindowSlots
  <2> QED BY <1>3, <1>5, <2>1, <2>2, <2>3, <2>4, <2>5
<1>7. word[s][Slot(n)].seq = CommitSeq(n) \/ word[s][Slot(n)] = Plain(n)
  BY <1>2, <1>3, <1>4 DEF Window
<1> QED BY <1>5, <1>6, <1>7

\* The word of the switch's release tells whether it was made.
LEMMA RepairConsumerStep ==
    ASSUME IInv, RepairConsumer
    PROVE  IInv'
<1>1. /\ ConsCheckpoint /\ TypeOK /\ Core /\ ConsType /\ cpc = "none" /\ cons_role # "free"
      /\ cons_switch # NoSwitch /\ headAt.pos \in Seqs /\ headAt.seg \in Segs
  BY HeadPlace DEF RepairConsumer, IInv, ConsInv, TypeOK
<1>2. /\ UNCHANGED <<word, chain, tailAt, prodVars, buf, rword, got, cscan, cons_cur,
                     cons_switch, cons_resume, given>>
      /\ cons_role' = "held" /\ cons_pos' = 0 /\ cpc' = "repair given"
  BY DEF RepairConsumer, ResumeConsAs, slotVars, history
<1>3. PICK i \in Intents : i = cons_switch
  BY <1>1 DEF ConsType
<1>4. ConsIntent(i) /\ i.from \in Segs /\ i.to \in Segs /\ i.bit \in BOOLEAN
  BY <1>1, <1>3 DEF ConsCheckpoint, Intents
<1>5. PICK c \in Seqs, p \in Seqs : c = cons_resume[i.from] /\ p = seq_of(c - 1)
  BY <1>1, <1>4, PosBack DEF ConsType, Resumes
<1>6. cst' = [cur |-> headAt.seg, pos |-> headAt.pos, resume |-> cons_resume, given |-> GivenBack]
  <2>1. CASE headAt.seg = i.from
    <3>1. c = seq_of(headAt.pos + 1) /\ WordOf(headAt) = [Committed(headAt.pos) EXCEPT !.moved = i.to]
      BY <1>4, <1>5, <2>1 DEF ConsIntent
    <3>2. p = headAt.pos
      BY <1>1, <1>5, <3>1, PosBack
    <3>3. word[i.from][Slot(p)] = [Committed(p) EXCEPT !.moved = i.to]
      BY <2>1, <3>1, <3>2 DEF WordOf
    <3>4. ResumeConsAs(i.from, p, SetBit(given, i.from, ~i.bit))
      BY <1>3, <1>5, <3>3 DEF RepairConsumer
    <3>5. GivenBack = SetBit(given, i.from, ~i.bit)
      BY <1>1, <1>3, <1>4, <2>1 DEF GivenBack, SetBit
    <3> QED BY <2>1, <3>2, <3>4, <3>5 DEF ResumeConsAs
  <2>2. CASE headAt.seg # i.from
    <3>1. headAt.seg = i.to /\ cons_resume[i.to] = headAt.pos /\ c = CPos(i.from)
      BY <1>4, <1>5, <2>2 DEF ConsIntent, CPos
    <3>2. word[i.from][Slot(p)].seq # CommitSeq(p)
      BY <1>1, <1>4, <1>5, <3>1, ReleasedWord
    <3>3. word[i.from][Slot(p)] # [Committed(p) EXCEPT !.moved = i.to]
      <4>1. PICK x \in Seqs : x = CommitSeq(p) /\ Committed(p) = [seq |-> x, moved |-> NoSeg]
        BY PlainWord DEF SlotWord
      <4>2. [Committed(p) EXCEPT !.moved = i.to].seq = x
        BY <4>1
      <4> QED BY <3>2, <4>1, <4>2
    <3>4. ResumeConsAs(i.to, cons_resume[i.to], SetBit(given, i.from, i.bit))
      BY <1>3, <1>5, <3>3 DEF RepairConsumer
    <3>5. GivenBack = SetBit(given, i.from, i.bit)
      BY <1>1, <1>3, <1>4, <2>2 DEF GivenBack, SetBit
    <3> QED BY <3>1, <3>4, <3>5 DEF ResumeConsAs
  <2> QED BY <2>1, <2>2
<1> QED BY <1>1, <1>2, <1>6, NewTypes, NewConsHolder

\* The stores of a repair keep the checkpoint telling of the switch.
LEMMA RepairConsStoreStep ==
    ASSUME IInv, RepairGiven \/ RepairConsCur
    PROVE  IInv'
<1>1. /\ ConsHolder /\ ConsStores /\ ConsCheckpoint /\ TypeOK /\ Core /\ ConsType
      /\ cpc \in {"repair given", "repair cur"}
      /\ headAt.seg \in Segs /\ headAt.pos \in Seqs /\ cons_role = "held"
  <2>1. cpc \in {"repair given", "repair cur"}
    BY DEF RepairGiven, RepairConsCur
  <2>2. cpc # "none"
    BY <2>1
  <2> QED BY <2>1, <2>2, ConsHolderPlace
<1>2. /\ cst.cur = headAt.seg /\ cst.pos = headAt.pos /\ cst.given = GivenBack /\ got = NoMsg
      /\ cons_switch # NoSwitch /\ (cpc = "repair cur" => given = GivenBack)
  BY <1>1 DEF ConsHolder, ConsStores, Giving
<1>3. PICK i \in Intents : i = cons_switch /\ ConsIntent(i)
  BY <1>1, <1>2 DEF ConsCheckpoint, ConsType
<1>4. /\ UNCHANGED <<word, chain, tailAt, prodVars, buf, cons_role, cons_pos, cons_switch,
                     cons_resume, cst, rword, got, cscan>>
      /\ \/ /\ cpc = "repair given" /\ cpc' = "repair cur" /\ given' = GivenBack
            /\ UNCHANGED cons_cur
         \/ /\ cpc = "repair cur" /\ cpc' = "repair done" /\ cons_cur' = headAt.seg
            /\ UNCHANGED given
  BY <1>2 DEF RepairGiven, RepairConsCur, slotVars, history
<1>5. headAt' = headAt
  BY <1>4 DEF headAt
<1>6. GivenBack' = GivenBack
  <2>1. GivenBack = SetBit(given, i.from, i.bit <=> headAt.seg # i.from)
    BY <1>2, <1>3 DEF GivenBack
  <2>2. GivenBack' = SetBit(given', i.from, i.bit <=> headAt.seg # i.from)
    BY <1>2, <1>3, <1>4, <1>5 DEF GivenBack
  <2> QED BY <1>4, <2>1, <2>2 DEF SetBit
<1>7. ConsType' /\ given' \in {given, GivenBack}
  BY <1>1, <1>4 DEF ConsType, ConsPcs
<1>8. ConsStill /\ TypeOK' /\ WordOf(headAt)' = WordOf(headAt)
  BY <1>4, <1>6, <1>7, ConsStoreStill
<1>9. ConsCheckpoint'
  <2>1. ConsIntent(i)'
    BY <1>3, <1>4, <1>5, <1>8 DEF ConsIntent, Committed, Plain
  <2> QED BY <1>1, <1>2, <1>3, <1>4, <2>1 DEF ConsCheckpoint
<1>10. ConsHolder'
  BY <1>1, <1>2, <1>4, <1>5, <1>6 DEF ConsHolder, Holding, Giving
<1>11. ConsStores'
  BY <1>1, <1>2, <1>4, <1>5, <1>6 DEF ConsStores
<1>12. ConsInv'
  BY <1>1, <1>4, <1>9, <1>10, <1>11 DEF IInv, ConsInv
<1> QED BY <1>8, <1>12, ConsKeeps

\* The word of a slot of the consumer's segment, as its scan loads it.
LEMMA ConsLoad ==
    ASSUME TypeOK, Core, NEW i \in Slots, NEW x, x = word[headAt.seg][i].seq
    PROVE  \E k \in 0 .. M - 1 :
             Slot(Pos(headAt.pos, k)) = i /\ x \in {Pos(headAt.pos, k), CommitSeq(Pos(headAt.pos, k))}
<1>1. PICK c \in Seqs, u \in Nat :
        /\ c = headAt.pos /\ u = Backlog(headAt.seg)
        /\ Window(word[headAt.seg], c, u, headAt.seg, tailAt.seg)
  BY HeadPlace, SegPositions DEF Core, WindowAgrees, CPos
<1>2. PICK j \in 0 .. M - 1 : Slot(Pos(c, j)) = i
  BY SlotReached
<1>3. PICK n \in Seqs : n = Pos(c, j)
  <2>1. j \in 0 .. M
    BY Ranges
  <2> QED BY <2>1, WindowSlots
<1>4. word[headAt.seg][Slot(n)].seq = CommitSeq(n) \/ word[headAt.seg][Slot(n)] = Plain(n)
  <2>1. j < u \/ j >= u
    BY <1>1
  <2> QED BY <1>1, <1>3, <2>1 DEF Window
<1> QED BY <1>1, <1>2, <1>3, <1>4, PlainWord

\* A scan loads a word of its slot's position in the window, committed or not.
LEMMA ConsScanSlotStep ==
    ASSUME IInv, ConsScanSlot
    PROVE  IInv'
<1>1. /\ ConsHolder /\ ConsStores /\ TypeOK /\ Core /\ ConsType /\ cst.cur = headAt.seg
      /\ cpc = "scan" /\ Len(cscan) < M /\ ConsLoads(cscan) /\ headAt.seg \in Segs
  BY ConsHolderPlace DEF ConsScanSlot, IInv, ConsInv, ConsHolder
<1>2. /\ UNCHANGED <<word, chain, tailAt, prodVars, buf, consCp, cpc, cst, rword, got>>
      /\ cscan' = Append(cscan, word[headAt.seg][Len(cscan)].seq)
  BY <1>1 DEF ConsScanSlot, slotVars, history
<1>3. PICK l \in Nat, x \in Seqs : /\ l = Len(cscan) /\ x = word[headAt.seg][l].seq /\ l \in Slots
                                   /\ cscan \in Seq(Seqs)
  <2>1. Len(cscan) \in Nat /\ cscan \in Seq(Seqs)
    BY <1>1 DEF ConsType
  <2>2. Len(cscan) \in Slots
    BY <1>1, <2>1, Ranges DEF Slots
  <2>3. word[headAt.seg][Len(cscan)] \in SlotWord
    BY <1>1, <2>2 DEF TypeOK, RingType
  <2> QED BY <2>1, <2>2, <2>3 DEF SlotWord
<1>4. cscan' \in Seq(Seqs) /\ Len(cscan') = l + 1 /\ cscan'[l + 1] = x
      /\ \A i \in 1 .. l : cscan'[i] = cscan[i]
  BY <1>2, <1>3
<1>5. ConsLoads(cscan')
  <2>1. ASSUME NEW i \in 0 .. l
        PROVE  \E k \in 0 .. M - 1 :
                 LET n == Pos(headAt.pos, k) IN Slot(n) = i /\ cscan'[i + 1] \in {n, CommitSeq(n)}
    <3>1. CASE i = l
      BY <1>1, <1>3, <1>4, <3>1, ConsLoad
    <3>2. CASE i # l
      <4>1. i \in 0 .. l - 1 /\ i + 1 \in 1 .. l
        BY <3>2
      <4> QED BY <1>1, <1>3, <1>4, <4>1 DEF ConsLoads
    <3> QED BY <3>1, <3>2
  <2>2. l + 1 <= M /\ \A i \in 0 .. (l + 1) - 1 : i \in 0 .. l
    BY <1>1, <1>3, Ranges
  <2> QED BY <1>4, <2>1, <2>2 DEF ConsLoads
<1>6. ConsType'
  BY <1>1, <1>2, <1>4 DEF ConsType, consCp
<1>7. /\ ConsStill /\ TypeOK' /\ headAt' = headAt /\ WordOf(headAt)' = WordOf(headAt)
      /\ GivenBack' = GivenBack /\ ConsCheckpoint'
  BY <1>2, <1>6, ConsPrivateStill
<1>8. ConsHolder'
  BY <1>1, <1>2, <1>7 DEF ConsHolder, Holding, Giving, consCp
<1>9. ConsStores'
  BY <1>1, <1>2, <1>7 DEF ConsStores, Giving, consCp
<1>10. ConsLoads(cscan)'
  BY <1>5, <1>7 DEF ConsLoads
<1>11. ConsInv'
  BY <1>1, <1>2, <1>7, <1>8, <1>9, <1>10 DEF ConsInv
<1> QED BY <1>7, <1>11, ConsKeeps

\* A scan that finds one window starts at the first unread position in it.
LEMMA ConsScannedStep ==
    ASSUME IInv, ConsScanned
    PROVE  IInv'
<1>1. /\ ConsHolder /\ ConsStores /\ TypeOK /\ Core /\ ConsType /\ cst.cur = headAt.seg
      /\ cpc = "scan" /\ Len(cscan) = M /\ ConsLoads(cscan) /\ headAt.pos \in Seqs
      /\ M >= 2 /\ cscan \in Seq(Seqs)
  BY ConsHolderPlace DEF ConsScanned, IInv, ConsInv, ConsHolder, ConsType
<1>2. /\ UNCHANGED <<word, chain, tailAt, prodVars, buf, consCp, rword, got>> /\ cscan' = <<>>
      /\ \/ cst' = [cst EXCEPT !.pos = headAt.pos] /\ cpc' = "idle"
         \/ UNCHANGED <<cpc, cst>>
  <2>1. OneWindow(cscan) => FirstUnread(cscan) = headAt.pos
    BY <1>1, ConsScanEnd
  <2> QED BY <2>1 DEF ConsScanned, slotVars, history
<1>3. ConsType'
  BY <1>1, <1>2, NewTypes DEF ConsType, ConsPcs, consCp
<1>4. /\ ConsStill /\ TypeOK' /\ headAt' = headAt /\ WordOf(headAt)' = WordOf(headAt)
      /\ GivenBack' = GivenBack /\ ConsCheckpoint'
  BY <1>2, <1>3, ConsPrivateStill
<1>5. /\ cst'.cur = cst.cur /\ cst'.resume = cst.resume /\ cst'.given = cst.given
      /\ cpc' = "idle" => cst'.pos = headAt.pos
  BY <1>1, <1>2 DEF ConsType
<1>6. ConsHolder'
  BY <1>1, <1>2, <1>4, <1>5 DEF ConsHolder, Holding, Giving, consCp
<1>7. ConsStores'
  BY <1>1, <1>2, <1>4 DEF ConsStores, Giving, consCp
<1>8. ConsLoads(<<>>)'
  BY NoSlots DEF ConsLoads
<1>9. ConsInv'
  BY <1>1, <1>2, <1>4, <1>6, <1>7, <1>8 DEF ConsInv
<1> QED BY <1>4, <1>9, ConsKeeps

-----------------------------------------------------------------------------
(* The release.                                                            *)

\* The release's store takes the oldest message off the ring, and under its
\* intent gives the message's segment back.
LEMMA SeqTakes ==
    ASSUME IInv, ReleaseSeq
    PROVE  \E s \in Segs, n \in Seqs, r \in SlotWord :
             /\ Takes(s, n, r) /\ s = headAt.seg /\ n = headAt.pos /\ r = rword
             /\ \/ /\ r.moved = NoSeg /\ cpc = "read" /\ cpc' = "idle" /\ cons_switch = NoSwitch
                   /\ headAt'.seg = s /\ headAt'.pos = seq_of(n + 1) /\ GivenBack' = GivenBack
                \/ /\ r.moved # NoSeg /\ cpc = "release seq" /\ cpc' = "give"
                   /\ r.moved \in Segs /\ r.moved # s
                   /\ headAt'.seg = r.moved /\ headAt'.pos = cons_resume[r.moved]
                   /\ GivenBack' = Flip(GivenBack, s)
                   /\ cons_switch \in Intents /\ cons_switch.from = s /\ cons_switch.to = r.moved
                   /\ cons_switch # NoSwitch /\ cons_cur = r.moved
<1>1. /\ ConsHolder /\ ConsStores /\ ConsCheckpoint /\ TypeOK /\ Core /\ ConsType
      /\ cpc \in {"read", "release seq"} /\ (cpc = "read" => rword.moved = NoSeg)
  <2>1. cpc \in {"read", "release seq"} /\ (cpc = "read" => rword.moved = NoSeg)
    BY DEF ReleaseSeq
  <2>2. cpc # "none"
    BY <2>1
  <2> QED BY <2>1, <2>2, ConsHolderPlace
<1>2. PICK s \in Segs, n \in Seqs, r \in SlotWord : s = headAt.seg /\ n = headAt.pos /\ r = rword
  BY <1>1, HeadPlace DEF ConsType
<1>3. /\ cst.cur = s /\ cst.pos = n /\ chain # <<>> /\ r = WordOf(headAt)
      /\ cpc = "release seq" => r.moved # NoSeg /\ cst.given = Flip(GivenBack, s)
  BY <1>1, <1>2 DEF ConsHolder, Holding, Giving
<1>4. /\ UNCHANGED <<buf, prodVars, consCp, cscan, tailAt>>
      /\ word' = [word EXCEPT ![s][Slot(n)] = Released(n)] /\ chain' = Tail(chain)
      /\ cpc' = IF cpc = "read" THEN "idle" ELSE "give"
  BY <1>1, <1>3 DEF ReleaseSeq
<1>5. /\ r.moved = NoSeg => headAt'.seg = s /\ headAt'.pos = seq_of(n + 1)
      /\ r.moved # NoSeg => /\ r.moved \in Segs /\ r.moved # s
                            /\ headAt'.seg = r.moved /\ headAt'.pos = cons_resume[r.moved]
  BY <1>1, <1>2, <1>3, <1>4, HeadTakes
<1>6. Taken' = Taken /\ \A q \in Segs : PPos(q)' = PPos(q)
  BY <1>4 DEF Taken, PPos, prodVars, prodCp
<1>7. CASE r.moved = NoSeg
  <2>1. cpc = "read" /\ cpc' = "idle" /\ cons_switch = NoSwitch
    BY <1>1, <1>3, <1>4, <1>7 DEF ConsStores
  <2>2. GivenBack' = GivenBack
    BY <1>4, <2>1 DEF GivenBack, consCp
  <2>3. Used' = Used
    BY <1>6, <2>2 DEF Used
  <2>4. CPos(s)' = seq_of(n + 1) /\ \A q \in Segs : q # s => CPos(q)' = CPos(q)
    BY <1>2, <1>4, <1>5, <1>7 DEF CPos, consCp
  <2>5. Takes(s, n, r)
    BY <1>2, <1>3, <1>4, <1>6, <1>7, <2>3, <2>4 DEF Takes
  <2> QED BY <1>2, <1>5, <1>7, <2>1, <2>2, <2>5
<1>8. CASE r.moved # NoSeg
  <2>1. cpc = "release seq" /\ cpc' = "give" /\ r.moved \in Segs /\ r.moved # s
    BY <1>1, <1>2, <1>4, <1>5, <1>8
  <2>2. /\ cons_switch = switch_intent(s, r.moved, s \in cst.given) /\ cons_cur = r.moved
        /\ cst.given = Flip(GivenBack, s)
    BY <1>1, <1>2, <1>3, <2>1 DEF ConsStores
  <2>3. PICK i \in Intents : /\ i = cons_switch /\ i # NoSwitch /\ i.from = s /\ i.to = r.moved
                             /\ i.bit \in BOOLEAN /\ (i.bit <=> s \in cst.given)
    <3>1. PICK t \in Segs : t = r.moved
      BY <2>1
    <3>2. cons_switch = switch_intent(s, t, s \in cst.given)
      BY <2>2, <3>1
    <3>3. \E i \in Intents : /\ i = switch_intent(s, t, s \in cst.given) /\ i # NoSwitch
                             /\ i.from = s /\ i.to = t
                             /\ i.bit \in BOOLEAN /\ (i.bit <=> s \in cst.given)
      BY IntentWords
    <3> QED BY <3>1, <3>2, <3>3
  <2>4. cons_resume[s] = seq_of(n + 1)
    <3>1. ConsIntent(i)
      BY <1>1, <2>3 DEF ConsCheckpoint
    <3> QED BY <1>2, <2>3, <3>1 DEF ConsIntent
  <2>5. GivenBack' = Flip(GivenBack, s)
    <3>1. GivenBack = SetBit(given, s, i.bit <=> s # s)
      BY <1>2, <2>3 DEF GivenBack
    <3>2. GivenBack' = SetBit(given, s, i.bit <=> r.moved # s)
      BY <1>4, <1>5, <1>8, <2>3 DEF GivenBack, consCp
    <3>3. i.bit <=> s \notin GivenBack
      BY <2>2, <2>3 DEF Flip, SymDiff
    <3> QED BY <2>1, <3>1, <3>2, <3>3 DEF SetBit, Flip, SymDiff
  <2>6. Used' = Used \ {s}
    <3>1. s \in Used
      BY <1>1, <1>2 DEF Core, BitsAgree
    <3> QED BY <1>6, <2>5, <3>1 DEF Used, Flip, SymDiff
  <2>7. CPos(s)' = seq_of(n + 1) /\ \A q \in Segs : q # s => CPos(q)' = CPos(q)
    BY <1>2, <1>4, <1>5, <1>8, <2>4 DEF CPos, consCp
  <2>8. Takes(s, n, r)
    BY <1>2, <1>3, <1>4, <1>6, <1>8, <2>6, <2>7 DEF Takes
  <2> QED BY <1>2, <1>5, <1>8, <2>1, <2>2, <2>3, <2>5, <2>8
<1> QED BY <1>7, <1>8

\* The release keeps what everybody knows of the ring; for the producer it can
\* only make room.
LEMMA ReleaseSeqStep ==
    ASSUME IInv, ReleaseSeq
    PROVE  IInv'
<1>1. /\ ConsHolder /\ ConsStores /\ ConsCheckpoint /\ TypeOK /\ Core /\ ConsType /\ SeenAgrees
      /\ ChainFull /\ ProdInv /\ cons_role = "held" /\ cscan = <<>>
  <2>1. cpc \in {"read", "release seq"}
    BY DEF ReleaseSeq
  <2>2. cpc # "none" /\ cpc # "scan"
    BY <2>1
  <2> QED BY <2>2, ConsHolderPlace DEF IInv, ConsInv
<1>2. PICK s \in Segs, n \in Seqs, r \in SlotWord :
        /\ Takes(s, n, r) /\ s = headAt.seg /\ n = headAt.pos /\ r = rword
        /\ \/ /\ r.moved = NoSeg /\ cpc = "read" /\ cpc' = "idle" /\ cons_switch = NoSwitch
              /\ headAt'.seg = s /\ headAt'.pos = seq_of(n + 1) /\ GivenBack' = GivenBack
           \/ /\ r.moved # NoSeg /\ cpc = "release seq" /\ cpc' = "give"
              /\ r.moved \in Segs /\ r.moved # s
              /\ headAt'.seg = r.moved /\ headAt'.pos = cons_resume[r.moved]
              /\ GivenBack' = Flip(GivenBack, s)
              /\ cons_switch \in Intents /\ cons_switch.from = s /\ cons_switch.to = r.moved
              /\ cons_switch # NoSwitch /\ cons_cur = r.moved
  BY SeqTakes
<1>3. PICK q \in Seqs : q = seq_of(n + 1)
  BY PosBack
<1>4. /\ cst.cur = s /\ cst.pos = n /\ \A t \in Segs : t # s => cst.resume[t] = cons_resume[t]
      /\ cst.given = IF cpc = "read" THEN GivenBack ELSE Flip(GivenBack, s)
      /\ cpc = "release seq" => cst.resume[s] = q /\ cons_resume[s] = q
  <2>1. cpc = "release seq" => cons_resume[s] = q
    BY <1>1, <1>2, <1>3 DEF ConsCheckpoint, ConsIntent
  <2> QED BY <1>1, <1>2, <1>3, <2>1 DEF ConsHolder, Giving
<1>5. /\ UNCHANGED <<buf, prodVars, consCp, cscan, tailAt>> /\ got' = NoMsg
      /\ cst' = [cst EXCEPT !.pos = q]
      /\ rword' = IF cpc' = "idle" THEN Plain(0) ELSE rword
  BY <1>3, <1>4 DEF ReleaseSeq
<1>6. /\ cst'.cur = s /\ cst'.pos = q /\ cst'.resume = cst.resume /\ cst'.given = cst.given
      /\ cst' \in [cur : Segs, pos : Seqs, resume : Resumes, given : SUBSET Segs]
  BY <1>1, <1>4, <1>5 DEF ConsType
<1>7. TypeOK'
  <2>1. word' \in [Segs -> [Slots -> SlotWord]]
    <3>1. PICK e \in SlotWord, j \in Slots : e = Released(n) /\ j = Slot(n)
      BY PlainWord, WindowSlots
    <3>2. word' = [word EXCEPT ![s][j] = e]
      BY <1>2, <3>1 DEF Takes
    <3> QED BY <1>1, <3>1, <3>2 DEF TypeOK, RingType
  <2>2. chain' \in Seq(Place)
    <3>1. PICK c \in Seq(Place) : c = chain /\ c # <<>>
      BY <1>1, <1>2 DEF TypeOK, RingType, Takes
    <3>2. Tail(c) \in Seq(Place)
      BY <3>1
    <3> QED BY <1>2, <3>1, <3>2 DEF Takes
  <2>3. ConsType'
    BY <1>1, <1>2, <1>5, <1>6, NewTypes DEF ConsType, ConsPcs, consCp
  <2>4. ProdType'
    BY <1>1, <1>5 DEF TypeOK, ProdType, prodVars, prodCp
  <2>5. RingType'
    BY <1>1, <1>5, <2>1, <2>2 DEF TypeOK, RingType, consCp
  <2> QED BY <2>3, <2>4, <2>5 DEF TypeOK
<1>8. Core'
  BY <1>1, <1>2, <1>7, CoreTakes
<1>9. Seen' = Seen /\ SeenAgrees'
  <2>1. Taken' = Taken /\ given' = given
    BY <1>5 DEF Taken, prodVars, prodCp, consCp
  <2>2. Used' \subseteq Used
    BY <1>2 DEF Takes
  <2> QED BY <1>1, <2>1, <2>2 DEF Seen, SeenAgrees
<1>10. PICK l \in Nat : l = Len(chain)
  BY <1>1, HeadPlace
<1>11. /\ Len(chain') = l - 1 /\ \A i \in 1 .. l - 1 : chain'[i] = chain[i + 1]
       /\ \A t \in Segs : t # s => Backlog(t)' = Backlog(t)
       /\ Backlog(s) \in Nat /\ Backlog(s) > 0 /\ Backlog(s)' = Backlog(s) - 1
  <2>1. TypeOK /\ Core /\ Takes(s, n, r)
    BY <1>1, <1>2
  <2> QED BY <1>10, <2>1, TakeWords
<1>12. ChainFull'
  <2>1. \A i \in 1 .. l - 1 : i + 1 \in 1 .. l
    BY <1>10
  <2> QED BY <1>1, <1>5, <1>10, <1>11, <2>1 DEF ChainFull
<1>13. ProdInv'
  <2>1. PICK w \in Nat : w = Backlog(tailAt.seg)
    BY <1>1, HeadPlace, SegPositions
  <2>2. PICK u \in Nat : Backlog(tailAt.seg)' = u /\ u <= w
    <3>1. CASE tailAt.seg = s
      <4>1. w - 1 \in Nat /\ w - 1 <= w /\ Backlog(s)' = w - 1 /\ tailAt' = tailAt
        BY <1>5, <1>11, <2>1, <3>1
      <4> QED BY <3>1, <4>1
    <3>2. CASE tailAt.seg # s
      <4>1. Backlog(tailAt.seg)' = w /\ w <= w
        BY <1>1, <1>5, <1>11, <2>1, <3>2, HeadPlace
      <4> QED BY <4>1
    <3> QED BY <3>1, <3>2
  <2> QED BY <1>1, <1>5, <1>9, <2>1, <2>2, ProdKept
<1>14. CASE r.moved = NoSeg
  <2>1. /\ cpc = "read" /\ cpc' = "idle" /\ cons_switch = NoSwitch /\ GivenBack' = GivenBack
        /\ headAt'.seg = s /\ headAt'.pos = q
    BY <1>2, <1>3, <1>14
  <2>2. ConsCheckpoint'
    BY <1>1, <1>2, <1>5, <2>1 DEF ConsCheckpoint, consCp
  <2>3. ConsHolder'
    BY <1>1, <1>4, <1>5, <1>6, <2>1 DEF ConsHolder, Holding, Giving, consCp
  <2>4. ConsStores'
    BY <1>5, <2>1 DEF ConsStores, Giving, consCp
  <2>5. ConsInv'
    BY <1>1, <1>5, <2>1, <2>2, <2>3, <2>4 DEF ConsInv
  <2> QED BY <1>7, <1>8, <1>9, <1>12, <1>13, <2>5 DEF IInv
<1>15. CASE r.moved # NoSeg
  <2>1. /\ cpc = "release seq" /\ cpc' = "give" /\ cons_switch # NoSwitch
        /\ cons_switch.from = s /\ cons_switch.to = r.moved /\ cons_cur = r.moved
        /\ GivenBack' = Flip(GivenBack, s) /\ r.moved \in Segs /\ r.moved # s
        /\ headAt'.seg = r.moved /\ headAt'.pos = cons_resume[r.moved] /\ rword' = r
    BY <1>2, <1>5, <1>15
  <2>2. ConsCheckpoint'
    <3>1. ConsIntent(cons_switch)'
      BY <1>5, <2>1 DEF ConsIntent, consCp
    <3> QED BY <1>1, <1>5, <2>1, <3>1 DEF ConsCheckpoint, consCp
  <2>3. ConsHolder'
    <3>1. \A t \in Segs : cst'.resume[t] = cons_resume'[t]
      BY <1>4, <1>5, <1>6, <2>1 DEF consCp
    <3> QED BY <1>1, <1>4, <1>5, <1>6, <2>1, <3>1 DEF ConsHolder, Holding, Giving, consCp
  <2>4. ConsStores'
    BY <1>4, <1>5, <1>6, <2>1 DEF ConsStores, Giving, consCp
  <2>5. ConsInv'
    BY <1>1, <1>5, <2>1, <2>2, <2>3, <2>4 DEF ConsInv
  <2> QED BY <1>7, <1>8, <1>9, <1>12, <1>13, <2>5 DEF IInv
<1> QED BY <1>14, <1>15

-----------------------------------------------------------------------------
(* The invariant.                                                          *)

\* A fresh ring: every word claimable in the first lap, both sides at the
\* beginning, and segment 0 alone in use.
LEMMA InitIInv ==
    ASSUME Init
    PROVE  IInv
<1>1. /\ word = [s \in Segs |-> [i \in Slots |-> Claimable(i)]]
      /\ buf = [s \in Segs |-> [i \in Slots |-> NoMsg]]
      /\ given = {} /\ chain = <<>> /\ prod_switch = NoSwitch /\ cons_switch = NoSwitch
      /\ prod_resume = [s \in Segs |-> 0] /\ cons_resume = [s \in Segs |-> 0]
      /\ prod_taken = {0}
  BY DEF Init
<1>2. /\ seq_of(0) = 0 /\ tailAt = [seg |-> 0, pos |-> 0] /\ headAt = tailAt
      /\ tailAt.seg = 0 /\ tailAt.pos = 0 /\ 0 \in Segs /\ 0 \in Seqs
  BY <1>1, SeqOf, NewTypes DEF Init, At, headAt
<1>3. \A i \in Slots : i \in Seqs /\ Claimable(i) = Plain(i) /\ Plain(i) \in SlotWord
  <2>1. \A i \in Slots : i \in Seqs
    BY Ranges DEF Slots, Seqs
  <2> QED BY <2>1, PlainWord
<1>4. TypeOK
  <2>1. RingType
    <3>1. word \in [Segs -> [Slots -> SlotWord]]
      BY <1>1, <1>3
    <3>2. chain \in Seq(Place)
      BY <1>1
    <3> QED BY <1>1, <1>2, <3>1, <3>2 DEF RingType, Place
  <2>2. [s \in Segs |-> 0] \in Resumes
    BY <1>2 DEF Resumes
  <2>3. ProdType
    BY <1>1, <1>2, <2>2, NewTypes DEF Init, ProdType, ProdPcs
  <2>4. ConsType
    BY <1>1, <1>2, <2>2, NewTypes DEF Init, ConsType, ConsPcs
  <2> QED BY <2>1, <2>3, <2>4 DEF TypeOK
<1>5. Taken = {0} /\ GivenBack = {} /\ Used = {0} /\ Seen = {0}
  <2>1. Taken = {0} /\ GivenBack = {}
    BY <1>1 DEF Taken, GivenBack
  <2> QED BY <1>1, <2>1 DEF Used, Seen, SymDiff
<1>6. \A s \in Segs : PPos(s) = 0 /\ CPos(s) = 0 /\ Backlog(s) = 0
  BY <1>1, <1>2 DEF PPos, CPos, Backlog
<1>7. BitsAgree
  BY <1>2, <1>5, <1>6 DEF BitsAgree
<1>8. WindowAgrees
  <2>1. ASSUME NEW s \in Segs, NEW k \in 0 .. M - 1
        PROVE  word[s][Slot(Pos(0, k))] = Plain(Pos(0, k))
    <3>1. k \in Slots /\ k \in Seqs /\ 0 + k = k
      BY <1>3 DEF Slots
    <3>2. Pos(0, k) = k
      BY <3>1, SeqOf DEF Pos
    <3>3. Slot(k) = k
      <4>1. k % M = k
        BY Ranges, ModSmall, Zenon
      <4> QED BY <4>1 DEF Slot
    <3> QED BY <1>1, <1>3, <3>1, <3>2, <3>3
  <2>2. 0 <= M /\ \A k \in 0 .. M - 1 : ~(k < 0)
    BY Ranges
  <2> QED BY <1>6, <2>1, <2>2 DEF WindowAgrees, Window
<1>9. Len(chain) = 0 /\ 1 .. 0 = {}
  BY <1>1
<1>10. ChainLinked /\ ChainUnread /\ ChainFull
  BY <1>2, <1>5, <1>9 DEF ChainLinked, ChainUnread, ChainFull
<1>11. SeenAgrees
  BY <1>5 DEF SeenAgrees
<1>12. ProdInv
  BY <1>1, <1>2 DEF Init, ProdInv, ProdCheckpoint
<1>13. ConsInv
  BY <1>1, <1>2 DEF Init, ConsInv, ConsCheckpoint
<1> QED BY <1>4, <1>7, <1>8, <1>10, <1>11, <1>12, <1>13 DEF IInv, Core

\* A step that changes nothing.
LEMMA StutterStep ==
    ASSUME IInv, UNCHANGED vars
    PROVE  IInv'
<1>1. /\ UNCHANGED <<word, chain, tailAt, prodVars, buf, consCp, consVars>>
      /\ cpc' = cpc /\ cscan' = cscan
  BY DEF vars, slotVars, history, consVars
<1>2. ConsType'
  BY <1>1 DEF IInv, TypeOK, ConsType, consVars, consCp
<1>3. /\ ConsStill /\ TypeOK' /\ headAt' = headAt /\ WordOf(headAt)' = WordOf(headAt)
      /\ GivenBack' = GivenBack
  BY <1>1, <1>2, ConsPrivateStill
<1>4. ConsInv'
  BY <1>1, <1>3, ConsKept DEF IInv
<1> QED BY <1>3, <1>4, ConsKeeps

\* Every step of the producer keeps the invariant.
LEMMA ProducerStep ==
    ASSUME IInv, ProducerNext
    PROVE  IInv'
<1>1. CASE ClaimProducer \/ WriteGuard \/ Fill \/ AbandonWrite
  BY <1>1, ClaimProducerStep, WriteGuardStep, FillStep, AbandonStep
<1>2. CASE CommitNext
  <2>1. CASE CommitLook \/ CommitPick \/ CommitPublish \/ ProdSwitchDone
    BY <2>1, CommitLookStep, CommitPickStep, CommitPublishStep, ProdSwitchDoneStep
  <2>2. CASE StoreProdResume \/ StoreProdIntent \/ StoreProdTaken \/ StoreProdCur
    BY <2>2, StoreProdResumeStep, StoreProdIntentStep, StoreProdTakenStep
  <2> QED BY <1>2, <2>1, <2>2 DEF CommitNext
<1>3. CASE StoreProdPos \/ ReleaseProducer \/ ProducerDies
  BY <1>3, StoreProdPosStep, ReleaseProducerStep, ProducerDiesStep
<1>4. CASE ProdTakeNext
  BY <1>4, ReclaimProducerStep, RepairProducerStep, RepairProdStoreStep, ProdScanSlotStep,
     ProdScannedStep DEF ProdTakeNext
<1> QED BY <1>1, <1>2, <1>3, <1>4 DEF ProducerNext

\* Every step of the consumer keeps the invariant.
LEMMA ConsumerStep ==
    ASSUME IInv, ConsumerNext
    PROVE  IInv'
<1>1. CASE ClaimConsumer \/ ReadGuard \/ Read \/ DropRead
  BY <1>1, ClaimConsumerStep, ReadGuardStep, ReadStep, DropReadStep
<1>2. CASE ReleaseNext
  <2>1. CASE StoreConsResume \/ StoreConsIntent \/ StoreConsCur
    BY <2>1, StoreConsResumeStep, StoreConsIntentStep, StoreConsCurStep
  <2>2. CASE ReleaseSeq \/ GiveBack \/ ConsSwitchDone
    BY <2>2, ReleaseSeqStep, GiveBackStep, ConsSwitchDoneStep
  <2> QED BY <1>2, <2>1, <2>2 DEF ReleaseNext
<1>3. CASE StoreConsPos \/ ReleaseConsumer \/ ConsumerDies
  BY <1>3, StoreConsPosStep, ReleaseConsumerStep, ConsumerDiesStep
<1>4. CASE ConsTakeNext
  BY <1>4, ReclaimConsumerStep, RepairConsumerStep, RepairConsStoreStep, ConsScanSlotStep,
     ConsScannedStep DEF ConsTakeNext
<1> QED BY <1>1, <1>2, <1>3, <1>4 DEF ConsumerNext

\* The invariant holds in every state, whoever has died and taken over.
THEOREM Invariant == Spec => []IInv
<1>1. Init => IInv
  BY InitIInv
<1>2. IInv /\ [Next]_vars => IInv'
  BY ProducerStep, ConsumerStep, StutterStep DEF Next
<1> QED BY <1>1, <1>2, PTL DEF Spec

-----------------------------------------------------------------------------
(* What it says.                                                           *)

\* What a holder knows under the invariant is what ResumeExact says of it.
LEMMA ResumeExactState ==
    ASSUME IInv
    PROVE  ResumeExact
<1>1. TypeOK /\ Core /\ DOMAIN chain = 1 .. Len(chain)
  BY DEF IInv, TypeOK, RingType
<1>2. ASSUME ppc = "idle" \/ Writing
      PROVE  /\ At(pst.cur, pst.pos) = tailAt /\ pst.cur = tailAt.seg /\ pst.pos = tailAt.pos
             /\ Writing => Backlog(tailAt.seg) < M
  <2>1. ProdHolder /\ pst.cur \in Segs /\ pst.pos \in Seqs
    <3>1. ppc # "none"
      BY <1>2 DEF Writing
    <3> QED BY <3>1, HolderPlace
  <2>2. /\ pst.cur = tailAt.seg /\ pst.pos = tailAt.pos
        /\ Writing => Backlog(tailAt.seg) < M
    BY <1>2, <2>1 DEF ProdHolder, Writing, Ahead, Storing
  <2>3. seq_of(pst.pos) = pst.pos
    BY <2>1, SeqOf
  <2> QED BY <1>1, <2>2, <2>3, HeadPlace DEF At, Place
<1>3. ASSUME cpc = "idle" \/ Reading
      PROVE  At(cst.cur, cst.pos) = headAt
  <2>1. ConsHolder /\ cst.cur \in Segs /\ cst.pos \in Seqs
    <3>1. cpc # "none"
      BY <1>3 DEF Reading
    <3> QED BY <3>1, ConsHolderPlace
  <2>2. cst.cur = headAt.seg /\ cst.pos = headAt.pos
    BY <1>3, <2>1 DEF ConsHolder, Reading
  <2>3. seq_of(cst.pos) = cst.pos
    BY <2>1, SeqOf
  <2> QED BY <1>1, <2>2, <2>3, HeadPlace DEF At, Place
<1>4. ASSUME Writing, NEW i \in 1 .. Len(chain)
      PROVE  <<pst.cur, Slot(pst.pos)>> # <<chain[i].seg, Slot(chain[i].pos)>>
  BY <1>1, <1>2, <1>4, TailPlace
<1> QED BY <1>1, <1>2, <1>3, <1>4 DEF ResumeExact

\* Every holder, the first or a successor by any path, continues exactly where
\* the role stood, and a fill touches no committed, unread message.
THEOREM ResumesExactly == Spec => []ResumeExact
<1>1. IInv => ResumeExact
  BY ResumeExactState
<1> QED BY <1>1, Invariant, PTL

\* The segments in use are those on the way from the consumer to the producer.
LEMMA UsedIsInUse ==
    ASSUME TypeOK, Core
    PROVE  Used = InUse
<1>1. PICK l \in Nat : l = Len(chain) /\ DOMAIN chain = 1 .. l
  BY HeadPlace DEF TypeOK, RingType
<1>2. InUse = {headAt.seg, tailAt.seg} \cup {chain[i].seg : i \in 1 .. l}
  BY <1>1 DEF InUse
<1>3. ASSUME NEW s \in Used
      PROVE  s \in InUse
  <2>1. CASE s = headAt.seg
    BY <1>2, <2>1
  <2>2. CASE s # headAt.seg
    <3>1. PICK i \in 1 .. l : ChainWord(i).moved = s
      BY <1>1, <1>3, <2>2 DEF Core, ChainUnread
    <3>2. s # NoSeg
      BY <1>3, NoSegUsed
    <3>3. After(chain[i], ChainWord(i), ConsPlaces).seg = s
      BY <3>1, <3>2 DEF After
    <3>4. After(chain[i], ChainWord(i), ConsPlaces) = IF i = l THEN tailAt ELSE chain[i + 1]
      BY <1>1 DEF Core, ChainLinked
    <3>5. i # l => i + 1 \in 1 .. l
      BY <1>1
    <3> QED BY <1>2, <3>3, <3>4, <3>5
  <2> QED BY <2>1, <2>2
<1>4. ASSUME NEW i \in 1 .. l
      PROVE  chain[i].seg \in Used
  <2> SUFFICES ASSUME chain[i].seg \notin Used
               PROVE  FALSE
    OBVIOUS
  <2>1. PICK s \in Segs : s = chain[i].seg
    BY <1>1, ChainPlace
  <2>2. Stored(word[s], CPos(s), Backlog(s), chain[i].pos)
    BY <1>1, <2>1, ChainPlace
  <2>3. Backlog(s) = 0
    BY <2>1, SegPositions DEF Core, BitsAgree
  <2> QED BY <2>2, <2>3 DEF Stored
<1>5. headAt.seg \in Used /\ tailAt.seg \in Used
  BY DEF Core, BitsAgree
<1> QED BY <1>2, <1>3, <1>4, <1>5

\* What the masks say under the invariant is what SegmentsExact says of them.
LEMMA SegmentsExactState ==
    ASSUME IInv
    PROVE  SegmentsExact
<1>1. TypeOK /\ Core /\ SeenAgrees
  BY DEF IInv
<1>2. ASSUME ppc \in {"idle", "pick"}
      PROVE  FreeSegs = Segs \ Seen /\ ProdHolder
  <2>1. ProdHolder
    <3>1. ppc # "none"
      BY <1>2
    <3> QED BY <3>1, HolderPlace
  <2>2. pst.taken = Taken
    BY <1>2, <2>1 DEF ProdHolder, Storing
  <2> QED BY <2>1, <2>2 DEF FreeSegs, Seen
<1>3. ASSUME ppc = "idle", cpc = "idle"
      PROVE  FreeSegs = Segs \ InUse
  <2>1. ConsStores
    BY <1>3, ConsHolderPlace
  <2>2. cons_switch = NoSwitch
    BY <1>3, <2>1 DEF ConsStores
  <2>3. Seen = Used
    BY <2>2 DEF GivenBack, Seen, Used
  <2> QED BY <1>1, <1>2, <1>3, <2>3, UsedIsInUse
<1>4. ASSUME ppc \in {"idle", "pick"}, NEW s \in FreeSegs, NEW i \in Slots, NEW n,
             n = pst.resume[s] + i
      PROVE  word[s][Slot(n)] = Claimable(n)
  <2>1. s \in Segs /\ s \notin Used /\ s # tailAt.seg /\ ProdHolder
    BY <1>1, <1>2, <1>4 DEF SeenAgrees, Core, BitsAgree
  <2>2. PICK c \in Seqs : c = CPos(s) /\ c = PPos(s) /\ Backlog(s) = 0
    BY <1>1, <2>1, SegPositions DEF Core, BitsAgree
  <2>3. pst.resume[s] = c
    BY <2>1, <2>2 DEF ProdHolder, PPos
  <2>4. Window(word[s], c, 0, s, tailAt.seg)
    BY <1>1, <2>1, <2>2 DEF Core, WindowAgrees
  <2>5. i \in 0 .. M - 1 /\ i >= 0 /\ c + i \in Int /\ n = c + i
    BY <1>4, <2>3, Ranges DEF Slots, Seqs
  <2>6. word[s][Slot(Pos(c, i))] = Plain(Pos(c, i))
    BY <2>4, <2>5 DEF Window
  <2>7. Slot(Pos(c, i)) = Slot(n) /\ seq_of(Pos(c, i)) = seq_of(n)
    <3>1. Slot(seq_of(n)) = Slot(n) /\ seq_of(n) \in Seqs
      BY <2>5, SlotOf, SeqOf
    <3> QED BY <2>5, <3>1, SeqOf DEF Pos
  <2> QED BY <2>6, <2>7 DEF Claimable, Plain
<1> QED BY <1>3, <1>4 DEF SegmentsExact

\* The free sets survive switches that were cut short, and a segment the
\* producer may take is claimable throughout from where its table says.
THEOREM SegmentsStayExact == Spec => []SegmentsExact
<1>1. IInv => SegmentsExact
  BY SegmentsExactState
<1> QED BY <1>1, Invariant, PTL

-----------------------------------------------------------------------------
(* The channel.                                                            *)

\* A commit finds room: the chain's places have slots of their own, none of
\* them the commit's.
LEMMA RoomLeft ==
    ASSUME TypeOK, Core, Backlog(tailAt.seg) < M
    PROVE  Len(chain) < M * seg_count
<1>1. PICK l \in Nat : l = Len(chain)
  BY HeadPlace
<1>2. PICK w : w = <<tailAt.seg, Slot(tailAt.pos)>> /\ w \in Segs \X Slots
  <2>1. tailAt.seg \in Segs /\ tailAt.pos \in Seqs
    BY HeadPlace
  <2>2. Slot(tailAt.pos) \in Slots
    BY <2>1, WindowSlots
  <2>3. <<tailAt.seg, Slot(tailAt.pos)>> \in Segs \X Slots
    BY <2>1, <2>2
  <2> QED BY <2>3, Zenon
<1> DEFINE T == (Segs \X Slots) \ {w}
           f == [i \in 1 .. l |-> <<chain[i].seg, Slot(chain[i].pos)>>]
<1>3. ASSUME NEW i \in 1 .. l
      PROVE  f[i] \in T
  <2>1. chain[i].seg \in Segs /\ Slot(chain[i].pos) \in Slots
    BY <1>1, ChainPlace
  <2>2. chain[i].seg = tailAt.seg => Slot(chain[i].pos) # Slot(tailAt.pos)
    BY <1>1, TailPlace
  <2> QED BY <1>2, <2>1, <2>2
<1>4. ASSUME NEW i \in 1 .. l, NEW j \in 1 .. l, f[i] = f[j]
      PROVE  i = j
  <2>1. chain[i].seg = chain[j].seg /\ Slot(chain[i].pos) = Slot(chain[j].pos)
    BY <1>4
  <2>2. PICK s \in Segs, n \in Seqs, m \in Seqs :
          /\ chain[i] = [seg |-> s, pos |-> n] /\ chain[j] = [seg |-> s, pos |-> m]
          /\ Stored(word[s], CPos(s), Backlog(s), n) /\ Stored(word[s], CPos(s), Backlog(s), m)
          /\ CPos(s) \in Seqs /\ Slot(n) = Slot(m)
    BY <1>1, <2>1, ChainPlace
  <2>3. PICK k \in 0 .. M - 1 : m = Pos(CPos(s), k)
    BY <2>2 DEF Stored
  <2>4. m = n
    BY <2>2, <2>3, StoredApart
  <2> QED BY <1>1, <2>2, <2>4 DEF Core, ChainUnread
<1>5. f \in Injection(1 .. l, T)
  BY <1>3, <1>4 DEF Injection, IsInjective
<1>6. /\ IsFiniteSet(Segs) /\ Cardinality(Segs) = seg_count
      /\ IsFiniteSet(Slots) /\ Cardinality(Slots) = M
  BY GeometryAssumption, FS_Interval DEF Segs, Slots
<1>7. IsFiniteSet(Segs \X Slots) /\ Cardinality(Segs \X Slots) = seg_count * M
  BY <1>6, FS_Product
<1>8. IsFiniteSet(T) /\ Cardinality(T) = seg_count * M - 1
  <2>1. w \in Segs \X Slots
    BY <1>2
  <2>2. IsFiniteSet(T) /\ Cardinality(T) = Cardinality(Segs \X Slots) - 1
    BY <1>7, <2>1, FS_RemoveElement, Zenon
  <2> HIDE DEF T
  <2> QED BY <1>7, <2>2
<1>9. Cardinality(1 .. l) <= Cardinality(T)
  BY <1>5, <1>8, FS_Injection
<1>10. Cardinality(1 .. l) = l
  BY FS_Interval
<1> QED BY <1>1, <1>8, <1>9, <1>10, GeometryAssumption

\* The channel's queue, element by element.
LEMMA PendingSeq ==
    ASSUME IInv, NEW l \in Nat, l = Len(chain)
    PROVE  /\ Pending = [i \in 1 .. l |-> buf[chain[i].seg][Slot(chain[i].pos)]]
           /\ Pending \in Seq(Msg) /\ Len(Pending) = l
           /\ chain # <<>> => /\ Pending # <<>>
                              /\ Head(Pending) = buf[headAt.seg][Slot(headAt.pos)]
<1>1. TypeOK /\ ChainFull /\ DOMAIN chain = 1 .. l
  BY DEF IInv, TypeOK, RingType
<1>2. Pending = [i \in 1 .. l |-> buf[chain[i].seg][Slot(chain[i].pos)]]
  BY <1>1 DEF Pending
<1>3. Pending \in Seq(Msg) /\ Len(Pending) = l
  <2>1. \A i \in 1 .. l : buf[chain[i].seg][Slot(chain[i].pos)] \in Msg
    BY <1>1 DEF ChainFull
  <2> QED BY <1>2, <2>1
<1>4. ASSUME chain # <<>>
      PROVE  Pending # <<>> /\ Head(Pending) = buf[headAt.seg][Slot(headAt.pos)]
  <2>1. 1 \in 1 .. l /\ headAt = chain[1]
    BY <1>1, <1>4, HeadPlace
  <2>2. Pending[1] = buf[headAt.seg][Slot(headAt.pos)]
    BY <1>2, <2>1
  <2>3. \A q \in Seq(Msg) : Len(q) = l => q # <<>> /\ Head(q) = q[1]
    BY <2>1
  <2>4. Pending # <<>> /\ Head(Pending) = Pending[1]
    BY <1>3, <2>3, Zenon
  <2> QED BY <2>2, <2>4
<1> QED BY <1>2, <1>3, <1>4

\* CommitPublish is the channel's Send.
LEMMA PublishIsSend ==
    ASSUME IInv, CommitPublish
    PROVE  Chan!Send
<1>1. /\ ProdHolder /\ TypeOK /\ Core /\ ppc = "publish"
  BY HolderPlace DEF CommitPublish
<1>2. PICK f \in Segs, n \in Seqs, v \in SlotWord, g \in Segs :
        /\ Sends(f, n, v, g) /\ f = tailAt.seg /\ n = tailAt.pos
  BY PublishSends
<1>3. PICK l \in Nat : l = Len(chain)
  BY <1>1, HeadPlace
<1>4. /\ Len(chain') = l + 1 /\ chain'[l + 1] = tailAt /\ \A i \in 1 .. l : chain'[i] = chain[i]
  <2>1. Sends(f, n, v, g) /\ TypeOK /\ Core
    BY <1>1, <1>2
  <2> QED BY <1>3, <2>1, SendWords
<1>5. DOMAIN chain' = 1 .. l + 1 /\ buf' = buf /\ got' = got
  <2>1. PICK c \in Seq(Place), e \in Place : c = chain /\ e = tailAt
    BY <1>1, HeadPlace DEF TypeOK, RingType
  <2>2. Append(c, e) \in Seq(Place)
    OBVIOUS
  <2>3. chain' = Append(chain, tailAt)
    BY <1>2 DEF Sends
  <2>4. PICK t \in Seq(Place) : t = chain'
    BY <2>1, <2>2, <2>3
  <2>5. DOMAIN t = 1 .. Len(t)
    OBVIOUS
  <2>6. DOMAIN chain' = 1 .. l + 1
    BY <1>4, <2>4, <2>5
  <2>7. buf' = buf /\ got' = got
    BY DEF CommitPublish, consVars
  <2> QED BY <2>6, <2>7
<1>6. PICK m \in Msg : m = buf[tailAt.seg][Slot(tailAt.pos)]
  BY <1>1 DEF ProdHolder
<1>7. /\ Pending = [i \in 1 .. l |-> buf[chain[i].seg][Slot(chain[i].pos)]]
      /\ Pending \in Seq(Msg) /\ Len(Pending) = l
  BY <1>3, PendingSeq
<1>8. Pending' = [i \in 1 .. l + 1 |-> buf[chain'[i].seg][Slot(chain'[i].pos)]]
  BY <1>5 DEF Pending
<1>9. Append(Pending, m) = [i \in 1 .. l + 1 |-> IF i <= l THEN Pending[i] ELSE m]
  BY <1>7, AppendElements
<1>10. \A i \in 1 .. l + 1 : buf[chain'[i].seg][Slot(chain'[i].pos)] =
                              IF i <= l THEN Pending[i] ELSE m
  BY <1>4, <1>6, <1>7
<1>11. Pending' = Append(Pending, m)
  BY <1>8, <1>9, <1>10
<1>12. Len(Pending) < M * seg_count
  <2>1. Backlog(tailAt.seg) < M
    BY <1>2 DEF Sends
  <2> QED BY <1>1, <1>3, <1>7, <2>1, RoomLeft
<1> QED BY <1>5, <1>11, <1>12 DEF Chan!Send

\* ReleaseSeq is the channel's Take: it releases the message it has read.
LEMMA ReleaseIsTake ==
    ASSUME IInv, ReleaseSeq
    PROVE  Chan!Take
<1>1. ConsHolder /\ TypeOK /\ Core /\ cpc \in {"read", "release seq"}
  <2>1. cpc \in {"read", "release seq"}
    BY DEF ReleaseSeq
  <2>2. cpc # "none"
    BY <2>1
  <2> QED BY <2>1, <2>2, ConsHolderPlace
<1>2. PICK s \in Segs, n \in Seqs, r \in SlotWord : Takes(s, n, r)
  BY SeqTakes
<1>3. PICK l \in Nat : l = Len(chain)
  BY <1>1, HeadPlace
<1>4. l > 0 /\ Len(chain') = l - 1 /\ \A i \in 1 .. l - 1 : chain'[i] = chain[i + 1]
  <2>1. Takes(s, n, r) /\ TypeOK /\ Core
    BY <1>1, <1>2
  <2> QED BY <1>3, <2>1, TakeWords
<1>5. DOMAIN chain' = 1 .. l - 1 /\ buf' = buf /\ got' = NoMsg /\ chain # <<>>
  <2>1. IInv'
    BY ReleaseSeqStep
  <2>2. chain' \in Seq(Place)
    BY <2>1 DEF IInv, TypeOK, RingType
  <2>3. PICK t \in Seq(Place) : t = chain'
    BY <2>2
  <2>4. DOMAIN t = 1 .. Len(t)
    OBVIOUS
  <2>5. DOMAIN chain' = 1 .. l - 1
    BY <1>4, <2>3, <2>4
  <2>6. buf' = buf /\ got' = NoMsg
    BY DEF ReleaseSeq
  <2>7. chain # <<>>
    BY <1>2 DEF Takes
  <2> QED BY <2>5, <2>6, <2>7
<1>6. /\ Pending = [i \in 1 .. l |-> buf[chain[i].seg][Slot(chain[i].pos)]]
      /\ Pending \in Seq(Msg) /\ Len(Pending) = l
      /\ Pending # <<>> /\ Head(Pending) = buf[headAt.seg][Slot(headAt.pos)]
  BY <1>3, <1>5, PendingSeq
<1>7. Pending' = [i \in 1 .. l - 1 |-> buf[chain'[i].seg][Slot(chain'[i].pos)]]
  <2>1. DOMAIN chain' = 1 .. l - 1 /\ buf' = buf
    BY <1>5
  <2>2. Pending' = [i \in DOMAIN chain' |-> buf'[chain'[i].seg][Slot(chain'[i].pos)]]
    BY DEF Pending
  <2> QED BY <2>1, <2>2, Zenon
<1>8. Tail(Pending) = [i \in 1 .. l - 1 |-> Pending[i + 1]]
  BY <1>4, <1>6, TailElements
<1>9. \A i \in 1 .. l - 1 : buf[chain'[i].seg][Slot(chain'[i].pos)] = Pending[i + 1]
  <2>1. \A i \in 1 .. l - 1 : i + 1 \in 1 .. l
    BY <1>4
  <2> QED BY <1>4, <1>6, <2>1
<1>10. Pending' = Tail(Pending)
  BY <1>7, <1>8, <1>9
<1>11. got = Head(Pending)
  BY <1>1, <1>6 DEF ConsHolder, Giving
<1> QED BY <1>5, <1>6, <1>10, <1>11 DEF Chan!Take

\* A read is the channel's Peek.
LEMMA ReadIsPeek ==
    ASSUME IInv, Read
    PROVE  Chan!Peek
<1>1. ConsHolder /\ TypeOK /\ cpc = "reading"
  BY ConsHolderPlace DEF Read
<1>2. cst.cur = headAt.seg /\ cst.pos = headAt.pos /\ chain # <<>>
  BY <1>1 DEF ConsHolder, Holding
<1>3. PICK l \in Nat : l = Len(chain)
  BY <1>1, HeadPlace
<1>4. Pending # <<>> /\ Head(Pending) = buf[headAt.seg][Slot(headAt.pos)]
  BY <1>2, <1>3, PendingSeq
<1>5. Pending' = Pending /\ got' = Head(Pending)
  BY <1>2, <1>4 DEF Pending, Read, slotVars, history
<1> QED BY <1>4, <1>5 DEF Chan!Peek

\* A dropped read guard is the channel's PutBack, and so is the end of a
\* consumer, whether it dies or releases its role.
LEMMA DropIsPutBack ==
    ASSUME IInv, DropRead \/ ConsumerDies \/ ReleaseConsumer
    PROVE  Chan!PutBack
<1>1. chain' = chain /\ buf' = buf /\ got' = NoMsg
  BY DEF DropRead, ConsumerDies, ReleaseConsumer, ConsumerGone, slotVars, history
<1> QED BY <1>1 DEF Chan!PutBack, Pending

\* The channel sees nothing of a step that keeps the chain and its messages.
LEMMA PendingKept ==
    ASSUME IInv, chain' = chain, BufKept, got' = got
    PROVE  UNCHANGED Chan!chanVars
<1>1. PICK l \in Nat : l = Len(chain) /\ DOMAIN chain = 1 .. l
  BY HeadPlace DEF IInv, TypeOK, RingType
<1>2. Pending' = Pending
  BY <1>1 DEF Pending, BufKept
<1> QED BY <1>2 DEF Chan!chanVars

\* The steps that the channel does not see.
LEMMA ProducerUnseen ==
    ASSUME IInv, ProducerNext, ~CommitPublish
    PROVE  UNCHANGED Chan!chanVars
<1>1. CASE Fill
  <2>1. BufKept
    BY <1>1, FillApart
  <2>2. chain' = chain /\ got' = got
    BY <1>1 DEF Fill, history, consVars
  <2> QED BY <2>1, <2>2, PendingKept
<1>2. CASE ~Fill
  <2>1. chain' = chain /\ buf' = buf /\ got' = got
    BY <1>2 DEF ProducerNext, CommitNext, ProdTakeNext, ClaimProducer, WriteGuard, AbandonWrite,
                CommitLook, CommitPick, StoreProdResume, StoreProdIntent, StoreProdTaken,
                StoreProdCur, ProdSwitchDone, StoreProdPos, ReleaseProducer, ProducerDies,
                ReclaimProducer, RepairProducer, RepairProdTaken, RepairProdCur, ScanProducer,
                ProdScanSlot, ProdScanned, slotVars, history, consVars
  <2>2. BufKept
    BY <2>1 DEF BufKept
  <2> QED BY <2>1, <2>2, PendingKept
<1> QED BY <1>1, <1>2

\* The steps of the consumer that the channel does not see.
LEMMA ConsumerUnseen ==
    ASSUME IInv, ConsumerNext, ~ReleaseSeq, ~Read, ~DropRead, ~ConsumerDies, ~ReleaseConsumer
    PROVE  UNCHANGED Chan!chanVars
<1>1. chain' = chain /\ buf' = buf /\ got' = got
  BY DEF ConsumerNext, ReleaseNext, ConsTakeNext, ClaimConsumer, ReadGuard, StoreConsResume,
         StoreConsIntent, StoreConsCur, GiveBack, ConsSwitchDone, StoreConsPos, ReclaimConsumer,
         RepairConsumer, RepairGiven, RepairConsCur, ScanConsumer, ConsScanSlot, ConsScanned,
         slotVars, history
<1>2. BufKept
  BY <1>1 DEF BufKept
<1> QED BY <1>1, <1>2, PendingKept

\* Every step of the ring is one of the channel's, or invisible to it.
LEMMA StepIsChan ==
    ASSUME IInv, [Next]_vars
    PROVE  [Chan!ChanNext]_(Chan!chanVars)
<1>1. CASE ProducerNext
  BY <1>1, PublishIsSend, ProducerUnseen DEF Chan!ChanNext
<1>2. CASE ConsumerNext
  BY <1>2, ReleaseIsTake, ReadIsPeek, DropIsPutBack, ConsumerUnseen DEF Chan!ChanNext
<1>3. CASE UNCHANGED vars
  <2>1. chain' = chain /\ buf' = buf /\ got' = got
    BY <1>3 DEF vars, slotVars, history, consVars
  <2>2. BufKept
    BY <2>1 DEF BufKept
  <2> QED BY <2>1, <2>2, PendingKept
<1> QED BY <1>1, <1>2, <1>3 DEF Next

\* The v4 ring implements a FIFO channel with the capacity of all its segments
\* together through any number of deaths and takeovers: a dead producer's
\* uncommitted message is not sent, a dead consumer's unreleased one is
\* delivered again, and nothing else is lost, duplicated, reordered or
\* overwritten.
THEOREM RingIsFifo == Spec => ImplementsFifo
<1>1. Init => Chan!ChanInit
  <2> SUFFICES ASSUME Init
               PROVE  Chan!ChanInit
    OBVIOUS
  <2>1. chain = <<>> /\ got = NoMsg
    BY DEF Init
  <2>2. Pending = <<>>
    BY <2>1 DEF Pending
  <2> QED BY <2>1, <2>2 DEF Chan!ChanInit
<1>2. IInv /\ [Next]_vars => [Chan!ChanNext]_(Chan!chanVars)
  BY StepIsChan
<1> QED BY <1>1, <1>2, Invariant, PTL DEF Spec, ImplementsFifo, Chan!ChanSpec

-----------------------------------------------------------------------------
(* Scans beside a live peer.                                               *)

\* The values v are those of the words of segment s from slot 0 on.
Loaded(v, s) == \A i \in 0 .. Len(v) - 1 : v[i + 1] = word[s][i].seq

\* A value in slot i says of a position in that slot that it is claimable or
\* committed.
LEMMA SlotOfSeq ==
    ASSUME NEW n \in Seqs, NEW i, i = Slot(n)
    PROVE  n % M = i /\ CommitSeq(n) % M = Slot(i + 1)
<1>1. /\ n \in Int /\ 1 \in Int /\ n + 1 \in Int /\ n + M + 1 \in Int
      /\ (n + 1) + M * 1 = n + M + 1
  BY Ranges DEF Seqs
<1>2. CommitSeq(n) % M = (n + M + 1) % M
  <2>1. Slot(seq_of(n + M + 1)) = Slot(n + M + 1)
    BY <1>1, SlotOf
  <2> QED BY <2>1 DEF CommitSeq, Slot
<1>3. ((n + 1) + M * 1) % M = (n + 1) % M
  BY <1>1, Ranges, ModShift, Zenon
<1>4. ((n % M) + 1) % M = (n + 1) % M
  BY <1>1, Ranges, ModAdd, Zenon
<1>5. n % M = i
  BY DEF Slot
<1>6. Slot(i + 1) = (n + 1) % M
  BY <1>4, <1>5, Zenon DEF Slot
<1> QED BY <1>1, <1>2, <1>3, <1>5, <1>6, Zenon

\* The first u positions of a window are in u slots.
LEMMA SlotsCounted ==
    ASSUME NEW r \in Seqs, NEW u \in 0 .. M, NEW U \in SUBSET Slots,
           \A k \in 0 .. M - 1 : Slot(Pos(r, k)) \in U <=> k < u
    PROVE  Cardinality(U) = u
<1> DEFINE f == [k \in 0 .. u - 1 |-> Slot(Pos(r, k))]
<1>1. /\ \A k \in 0 .. u - 1 : k \in 0 .. M - 1 /\ k < u
      /\ \A k \in 0 .. M - 1 : k < u => k \in 0 .. u - 1
      /\ u \in Int /\ 0 \in Int /\ u - 1 \in Int
  BY Ranges
<1>2. f \in [0 .. u - 1 -> U]
  BY <1>1
<1>3. \A j, k \in 0 .. u - 1 : f[j] = f[k] => j = k
  BY <1>1, WindowSlots
<1>4. \A i \in U : \E k \in 0 .. u - 1 : f[k] = i
  <2> SUFFICES ASSUME NEW i \in U
               PROVE  \E k \in 0 .. u - 1 : f[k] = i
    OBVIOUS
  <2>1. PICK k \in 0 .. M - 1 : Slot(Pos(r, k)) = i
    BY SlotReached
  <2>2. k \in 0 .. u - 1
    BY <1>1, <2>1
  <2> QED BY <2>1, <2>2
<1>5. ExistsBijection(0 .. u - 1, U)
  <2> HIDE DEF f
  <2>1. f \in Bijection(0 .. u - 1, U)
    BY <1>2, <1>3, <1>4, Fun_IsBij
  <2> QED BY <2>1 DEF ExistsBijection
<1>6. IsFiniteSet(0 .. u - 1) /\ Cardinality(0 .. u - 1) = u
  <2>1. /\ IsFiniteSet(0 .. u - 1)
        /\ Cardinality(0 .. u - 1) = IF 0 > u - 1 THEN 0 ELSE (u - 1) - 0 + 1
    BY <1>1, FS_Interval
  <2> QED BY <2>1
<1> QED BY <1>5, <1>6, FS_Bijection

\* The words of a segment, loaded while they do not change, form one window.
LEMMA WordsFormWindow ==
    ASSUME TypeOK, Core, M >= 2, NEW s \in Segs, NEW v \in Seq(Seqs), Len(v) = M, Loaded(v, s)
    PROVE  OneWindow(v)
<1>1. PICK r \in Seqs, u \in 0 .. M :
        /\ r = CPos(s) /\ u = Backlog(s) /\ Window(word[s], r, u, s, tailAt.seg)
  <2>1. CPos(s) \in Seqs /\ Backlog(s) \in Nat
    BY SegPositions
  <2>2. Window(word[s], CPos(s), Backlog(s), s, tailAt.seg)
    BY DEF Core, WindowAgrees
  <2>3. Backlog(s) <= M
    BY <2>2 DEF Window
  <2>4. Backlog(s) \in 0 .. M
    BY <2>1, <2>3, Ranges
  <2> QED BY <2>1, <2>2, <2>4
<1>2. /\ M \in Nat \ {0} /\ 0 \in Slots /\ 0 \in Int
      /\ \A k \in 0 .. M - 1 : k \in Nat /\ k < M
  BY Ranges DEF Slots
<1>3. PICK K \in [Slots -> 0 .. M - 1] : \A i \in Slots : Slot(Pos(r, K[i])) = i
  <2> DEFINE P(i, k) == Slot(Pos(r, k)) = i
  <2>1. \A i \in Slots : \E k \in 0 .. M - 1 : P(i, k)
    BY SlotReached
  <2> HIDE DEF P
  <2>2. PICK K : K = [i \in Slots |-> CHOOSE k \in 0 .. M - 1 : P(i, k)]
    OBVIOUS
  <2>3. K \in [Slots -> 0 .. M - 1] /\ \A i \in Slots : P(i, K[i])
    BY <2>1, <2>2, Zenon
  <2> QED BY <2>3 DEF P
<1>4. \A k \in 0 .. M - 1 : Slot(Pos(r, k)) \in Slots /\ K[Slot(Pos(r, k))] = k
  <2> SUFFICES ASSUME NEW k \in 0 .. M - 1
               PROVE  Slot(Pos(r, k)) \in Slots /\ K[Slot(Pos(r, k))] = k
    OBVIOUS
  <2>1. Slot(Pos(r, k)) \in Slots
    BY <1>2, WindowSlots, Ranges
  <2>2. K[Slot(Pos(r, k))] \in 0 .. M - 1 /\ Slot(Pos(r, K[Slot(Pos(r, k))])) = Slot(Pos(r, k))
    BY <1>3, <2>1
  <2> QED BY <2>1, <2>2, WindowSlots
<1>5. \A i \in Slots : /\ Pos(r, K[i]) \in Seqs
                       /\ K[i] < u => v[i + 1] = CommitSeq(Pos(r, K[i]))
                       /\ K[i] >= u => v[i + 1] = Pos(r, K[i])
  <2> SUFFICES ASSUME NEW i \in Slots
               PROVE  /\ Pos(r, K[i]) \in Seqs
                      /\ K[i] < u => v[i + 1] = CommitSeq(Pos(r, K[i]))
                      /\ K[i] >= u => v[i + 1] = Pos(r, K[i])
    OBVIOUS
  <2>1. PICK k \in 0 .. M - 1 : k = K[i] /\ Slot(Pos(r, k)) = i
    BY <1>3
  <2>2. Pos(r, k) \in Seqs
    BY <1>2, WindowSlots, Ranges
  <2>3. v[i + 1] = word[s][i].seq
    BY DEF Loaded, Slots
  <2>4. /\ k < u => word[s][i].seq = CommitSeq(Pos(r, k))
        /\ k >= u => word[s][i] = Plain(Pos(r, k))
    BY <1>1, <2>1 DEF Window
  <2>5. Plain(Pos(r, k)).seq = Pos(r, k)
    BY <2>2, PlainWord
  <2> QED BY <2>1, <2>2, <2>3, <2>4, <2>5
<1>6. \A i \in Slots : K[i] \in 0 .. M - 1 /\ K[i] \in Int /\ (K[i] < u \/ K[i] >= u)
  BY <1>1, <1>2, <1>3
<1>7. /\ \E Q \in [Slots -> Int] : LastOfWindow(v, r, K, Q)
      /\ \A i \in Slots : i \in Unread(v) <=> v[i + 1] = CommitSeq(Pos(r, K[i]))
  <2>1. OfWindow(v, r, K)
    BY <1>3, <1>5, <1>6 DEF OfWindow
  <2> QED BY <2>1, LoadsPlace
<1>8. \A i \in Slots : i \in Unread(v) <=> K[i] < u
  BY <1>5, <1>6, <1>7, SeqsDiffer
<1>9. PICK Q \in [Slots -> Int], q \in Int :
        /\ q = Q[0]
        /\ \A i \in Slots : /\ Offset(v, i) = Q[i] - q
                            /\ Q[i] = IF K[i] < u THEN K[i] ELSE K[i] - M
  <2>1. PICK Q \in [Slots -> Int] : \A i \in Slots :
          /\ Q[i] = K[i] - (IF i \in Unread(v) THEN 0 ELSE M) /\ Offset(v, i) = Q[i] - Q[0]
    BY <1>7 DEF LastOfWindow
  <2>2. Q[0] \in Int
    BY <1>2
  <2>3. \A i \in Slots : Q[i] = IF K[i] < u THEN K[i] ELSE K[i] - M
    BY <1>6, <1>8, <2>1
  <2> QED BY <2>1, <2>2, <2>3
<1>10. PICK lo \in Int, hi \in Int : lo = (u - M) - q /\ hi = (u - 1) - q
  BY <1>2
<1>11. \A i \in Slots : /\ Q[i] - q \in Int /\ lo <= Q[i] - q /\ Q[i] - q <= hi
                        /\ i \in Unread(v) => 0 - q <= Q[i] - q
  <2> SUFFICES ASSUME NEW i \in Slots
               PROVE  /\ Q[i] - q \in Int /\ lo <= Q[i] - q /\ Q[i] - q <= hi
                      /\ i \in Unread(v) => 0 - q <= Q[i] - q
    OBVIOUS
  <2>1. PICK k \in 0 .. M - 1, y \in Int :
          k = K[i] /\ y = Q[i] /\ y = (IF k < u THEN k ELSE k - M) /\ (i \in Unread(v) => k < u)
    BY <1>6, <1>8, <1>9
  <2>2. u - M <= y /\ y <= u - 1 /\ (k < u => 0 <= y)
    <3>1. k \in Int /\ 0 <= k /\ k <= M - 1 /\ u \in Int /\ u <= M
      BY <1>2
    <3>2. CASE k < u
      BY <1>2, <2>1, <3>1, <3>2
    <3>3. CASE ~(k < u)
      BY <1>2, <2>1, <3>1, <3>3
    <3> QED BY <3>2, <3>3
  <2>3. y - q \in Int /\ lo <= y - q /\ y - q <= hi /\ (k < u => 0 - q <= y - q)
    BY <1>2, <1>10, <2>2
  <2> QED BY <2>1, <2>3
<1>12. \E i \in Slots : Q[i] - q = lo
  <2>1. PICK k \in 0 .. M - 1 : (u < M /\ k = u) \/ (u = M /\ k = 0)
    <3>1. 0 \in 0 .. M - 1 /\ (u # M => u \in 0 .. M - 1 /\ u < M)
      BY <1>2
    <3> QED BY <3>1
  <2>2. (IF k < u THEN k ELSE k - M) - q = lo
    BY <1>2, <1>10, <2>1
  <2>3. PICK i \in Slots : K[i] = k
    BY <1>4
  <2>4. Q[i] = IF k < u THEN k ELSE k - M
    BY <1>9, <2>3
  <2> QED BY <2>2, <2>4
<1>13. \E i \in Slots : Q[i] - q = hi
  <2>1. PICK k \in 0 .. M - 1 : (u > 0 /\ k = u - 1) \/ (u = 0 /\ k = M - 1)
    <3>1. M - 1 \in 0 .. M - 1 /\ (u # 0 => u > 0 /\ u - 1 \in 0 .. M - 1)
      BY <1>2
    <3> QED BY <3>1
  <2>2. (IF k < u THEN k ELSE k - M) - q = hi
    BY <1>2, <1>10, <2>1
  <2>3. PICK i \in Slots : K[i] = k
    BY <1>4
  <2>4. Q[i] = IF k < u THEN k ELSE k - M
    BY <1>9, <2>3
  <2> QED BY <2>2, <2>4
<1>14. Min(Offsets(v, Slots)) = lo /\ Max(Offsets(v, Slots)) = hi
  <2>1. PICK S : S = Offsets(v, Slots)
    OBVIOUS
  <2>2. (\A x \in S : \E i \in Slots : x = Q[i] - q) /\ \A i \in Slots : Q[i] - q \in S
    BY <1>9, <2>1 DEF Offsets
  <2>3. S \in SUBSET Int /\ (\A x \in S : lo <= x /\ x <= hi) /\ lo \in S /\ hi \in S
    BY <1>11, <1>12, <1>13, <2>2
  <2> QED BY <2>1, <2>3, MinIs, MaxIs
<1>15. Cardinality(Unread(v)) = u
  <2>1. Unread(v) \in SUBSET Slots
    BY DEF Unread
  <2>2. \A k \in 0 .. M - 1 : Slot(Pos(r, k)) \in Unread(v) <=> k < u
    BY <1>4, <1>8
  <2> QED BY <2>1, <2>2, SlotsCounted
<1>16. Unread(v) = {} \/ Min(Offsets(v, Unread(v))) = 0 - q
  <2> SUFFICES ASSUME Unread(v) # {}
               PROVE  Min(Offsets(v, Unread(v))) = 0 - q
    OBVIOUS
  <2>1. PICK U : U = Unread(v) /\ U \subseteq Slots
    BY DEF Unread
  <2>2. PICK S : S = Offsets(v, U)
    OBVIOUS
  <2>3. (\A x \in S : \E i \in U : x = Q[i] - q) /\ \A i \in U : Q[i] - q \in S
    BY <1>9, <2>1, <2>2 DEF Offsets
  <2>4. PICK z \in U : Q[z] = 0
    <3>1. PICK i \in Slots : K[i] < u
      BY <1>8, <2>1
    <3>2. 0 \in 0 .. M - 1 /\ 0 < u
      BY <1>1, <1>2, <1>6, <3>1
    <3>3. PICK z \in Slots : K[z] = 0
      BY <1>4, <3>2
    <3>4. z \in U /\ Q[z] = IF 0 < u THEN 0 ELSE 0 - M
      BY <1>8, <1>9, <2>1, <3>2, <3>3
    <3> QED BY <3>2, <3>4
  <2>5. \A i \in U : Q[i] - q \in Int /\ 0 - q <= Q[i] - q
    BY <1>11, <2>1
  <2>6. S \in SUBSET Int /\ (\A x \in S : 0 - q <= x) /\ 0 - q \in S
    BY <2>3, <2>4, <2>5
  <2> QED BY <2>1, <2>2, <2>6, MinIs
<1>17. Placed(v)
  <2> SUFFICES ASSUME NEW i \in Slots
               PROVE  v[i + 1] % M \in {i, Slot(i + 1)}
    BY DEF Placed
  <2>1. PICK n \in Seqs : n = Pos(r, K[i]) /\ i = Slot(n) /\ (v[i + 1] = n \/ v[i + 1] = CommitSeq(n))
    BY <1>3, <1>5, <1>6
  <2>2. n % M = i /\ CommitSeq(n) % M = Slot(i + 1)
    BY <2>1, SlotOfSeq
  <2> QED BY <2>1, <2>2
<1>18. hi - lo = M - 1 /\ 0 - q = hi - u + 1
  BY <1>2, <1>10
<1> QED BY <1>14, <1>15, <1>16, <1>17, <1>18 DEF OneWindow

\* A side that scans beside a live peer has failed at most as often as the peer
\* has moved the ring on, and loads what the words say while the peer does not.
ProdSettle ==
    IF ppc = "scan"
    THEN /\ scans.prod + Backlog(tailAt.seg) <= M
         /\ scans.prod + Backlog(tailAt.seg) = M => Loaded(pscan, tailAt.seg)
    ELSE scans.prod = 0
ConsSettle ==
    IF cpc = "scan"
    THEN /\ scans.cons <= Backlog(headAt.seg)
         /\ scans.cons = Backlog(headAt.seg) => Loaded(cscan, headAt.seg)
    ELSE scans.cons = 0

Settling == scans \in [prod : Nat, cons : Nat] /\ ProdSettle /\ ConsSettle

\* What a step of the producer does to the scans: it begins one, loads a word,
\* ends one, or is not of a scan.
LEMMA ProducerScans ==
    ASSUME scans \in [prod : Nat, cons : Nat], ProducerNext
    PROVE  /\ scans' \in [prod : Nat, cons : Nat] /\ scans'.cons = scans.cons /\ UNCHANGED consVars
           /\ \/ ppc' # "scan" /\ (scans'.prod = 0 \/ (ppc # "scan" /\ scans'.prod = scans.prod))
              \/ /\ ScanProducer /\ ppc = "none" /\ ppc' = "scan" /\ scans' = scans /\ UNCHANGED pscan
              \/ ProdScanSlot /\ ppc = "scan" /\ ppc' = "scan" /\ scans' = scans
              \/ /\ ProdScanned /\ ~OneWindow(pscan) /\ ppc = "scan" /\ ppc' = "scan"
                 /\ scans'.prod = scans.prod + 1 /\ pscan' = <<>> /\ UNCHANGED <<word, tailAt>>
<1>1. CASE ScanProducer
  <2>1. /\ ppc = "none" /\ ppc' = "scan" /\ scans' = scans /\ UNCHANGED pscan
        /\ UNCHANGED consVars
    BY <1>1 DEF ScanProducer, counts
  <2> QED BY <1>1, <2>1
<1>a. CASE ProdScanSlot
  <2>1. /\ ppc = "scan" /\ ppc' = "scan" /\ scans' = scans /\ UNCHANGED consVars
    BY <1>a DEF ProdScanSlot, counts
  <2> QED BY <1>a, <2>1
<1>2. CASE ProdScanned
  <2>1. /\ ppc = "scan" /\ pscan' = <<>> /\ UNCHANGED <<word, tailAt>> /\ UNCHANGED consVars
    BY <1>2 DEF ProdScanned, slotVars, history
  <2>2. CASE OneWindow(pscan)
    <3>1. ppc' = "idle" /\ scans' = [scans EXCEPT !.prod = 0]
      BY <1>2, <2>2 DEF ProdScanned
    <3> QED BY <2>1, <3>1
  <2>3. CASE ~OneWindow(pscan)
    <3>1. ppc' = ppc /\ scans' = [scans EXCEPT !.prod = @ + 1]
      BY <1>2, <2>3 DEF ProdScanned
    <3>2. /\ scans' \in [prod : Nat, cons : Nat] /\ scans'.cons = scans.cons
          /\ scans'.prod = scans.prod + 1
      BY <3>1
    <3> QED BY <1>2, <2>1, <2>3, <3>1, <3>2
  <2> QED BY <2>2, <2>3
<1>3. CASE ReleaseProducer \/ ProducerDies
  BY <1>3 DEF ReleaseProducer, ProducerDies, ProducerGone
<1>4. CASE ClaimProducer \/ WriteGuard \/ Fill \/ AbandonWrite \/ StoreProdPos
  BY <1>4 DEF ClaimProducer, WriteGuard, Fill, AbandonWrite, StoreProdPos, counts
<1>5. CASE CommitNext
  BY <1>5 DEF CommitNext, CommitLook, CommitPick, StoreProdResume, StoreProdIntent, StoreProdTaken,
              StoreProdCur, CommitPublish, ProdSwitchDone, counts
<1>6. CASE ReclaimProducer \/ RepairProducer \/ RepairProdTaken \/ RepairProdCur
  BY <1>6 DEF ReclaimProducer, RepairProducer, RepairProdTaken, RepairProdCur, counts
<1> QED BY <1>1, <1>a, <1>2, <1>3, <1>4, <1>5, <1>6 DEF ProducerNext, ProdTakeNext

\* The same of the consumer.
LEMMA ConsumerScans ==
    ASSUME scans \in [prod : Nat, cons : Nat], ConsumerNext
    PROVE  /\ scans' \in [prod : Nat, cons : Nat] /\ scans'.prod = scans.prod /\ UNCHANGED prodVars
           /\ \/ cpc' # "scan" /\ (scans'.cons = 0 \/ (cpc # "scan" /\ scans'.cons = scans.cons))
              \/ /\ ScanConsumer /\ cpc = "none" /\ cpc' = "scan" /\ scans' = scans /\ UNCHANGED cscan
              \/ ConsScanSlot /\ cpc = "scan" /\ cpc' = "scan" /\ scans' = scans
              \/ /\ ConsScanned /\ ~OneWindow(cscan) /\ cpc = "scan" /\ cpc' = "scan"
                 /\ scans'.cons = scans.cons + 1 /\ cscan' = <<>> /\ UNCHANGED <<word, chain, tailAt>>
<1>1. CASE ScanConsumer
  <2>1. /\ cpc = "none" /\ cpc' = "scan" /\ scans' = scans /\ UNCHANGED cscan
        /\ UNCHANGED prodVars
    BY <1>1 DEF ScanConsumer, counts
  <2> QED BY <1>1, <2>1
<1>a. CASE ConsScanSlot
  <2>1. /\ cpc = "scan" /\ cpc' = "scan" /\ scans' = scans /\ UNCHANGED prodVars
    BY <1>a DEF ConsScanSlot, counts
  <2> QED BY <1>a, <2>1
<1>2. CASE ConsScanned
  <2>1. /\ cpc = "scan" /\ cscan' = <<>> /\ UNCHANGED <<word, chain, tailAt>> /\ UNCHANGED prodVars
    BY <1>2 DEF ConsScanned, slotVars, history
  <2>2. CASE OneWindow(cscan)
    <3>1. cpc' = "idle" /\ scans' = [scans EXCEPT !.cons = 0]
      BY <1>2, <2>2 DEF ConsScanned
    <3> QED BY <2>1, <3>1
  <2>3. CASE ~OneWindow(cscan)
    <3>1. cpc' = cpc /\ scans' = [scans EXCEPT !.cons = @ + 1]
      BY <1>2, <2>3 DEF ConsScanned
    <3>2. /\ scans' \in [prod : Nat, cons : Nat] /\ scans'.prod = scans.prod
          /\ scans'.cons = scans.cons + 1
      BY <3>1
    <3> QED BY <1>2, <2>1, <2>3, <3>1, <3>2
  <2> QED BY <2>2, <2>3
<1>3. CASE ReleaseConsumer \/ ConsumerDies
  BY <1>3 DEF ReleaseConsumer, ConsumerDies, ConsumerGone
<1>4. CASE ClaimConsumer \/ ReadGuard \/ Read \/ DropRead \/ StoreConsPos
  BY <1>4 DEF ClaimConsumer, ReadGuard, Read, DropRead, StoreConsPos, counts
<1>5. CASE ReleaseNext
  BY <1>5 DEF ReleaseNext, StoreConsResume, StoreConsIntent, StoreConsCur, ReleaseSeq, GiveBack,
              ConsSwitchDone, counts
<1>6. CASE ReclaimConsumer \/ RepairConsumer \/ RepairGiven \/ RepairConsCur
  BY <1>6 DEF ReclaimConsumer, RepairConsumer, RepairGiven, RepairConsCur, counts
<1> QED BY <1>1, <1>a, <1>2, <1>3, <1>4, <1>5, <1>6 DEF ConsumerNext, ConsTakeNext

\* A step of the producer that does not commit leaves the ring where it is.
LEMMA ProducerApart ==
    ASSUME IInv, ProducerNext, ~CommitPublish
    PROVE  /\ UNCHANGED <<word, chain, tailAt, consVars>>
           /\ headAt' = headAt /\ \A s \in Segs : Backlog(s)' = Backlog(s)
<1>1. UNCHANGED <<word, chain, tailAt, consVars>>
  BY DEF ProducerNext, CommitNext, ProdTakeNext, ClaimProducer, WriteGuard, Fill, AbandonWrite,
         CommitLook, CommitPick, StoreProdResume, StoreProdIntent, StoreProdTaken,
         StoreProdCur, ProdSwitchDone, StoreProdPos, ReleaseProducer, ProducerDies,
         ReclaimProducer, RepairProducer, RepairProdTaken, RepairProdCur, ScanProducer,
         ProdScanSlot, ProdScanned, slotVars, history
<1>2. \A s \in Segs : s # tailAt.seg => prod_resume'[s] = prod_resume[s]
  <2>1. CASE StoreProdResume \/ ProdSwitchDone
    <3>1. ppc # "none"
      BY <2>1 DEF StoreProdResume, ProdSwitchDone
    <3>2. pst.cur = tailAt.seg /\ prod_resume \in Resumes
      BY <3>1, HolderPlace DEF ProdType
    <3>3. \E n : prod_resume' = [prod_resume EXCEPT ![pst.cur] = n]
      BY <2>1 DEF StoreProdResume, ProdSwitchDone
    <3> QED BY <1>1, <3>2, <3>3 DEF Resumes
  <2>2. CASE ~StoreProdResume /\ ~ProdSwitchDone
    <3>1. prod_resume' = prod_resume
      BY <2>2 DEF ProducerNext, CommitNext, ProdTakeNext, ClaimProducer, WriteGuard, Fill, AbandonWrite,
           CommitLook, CommitPick, StoreProdIntent, StoreProdTaken,
           StoreProdCur, StoreProdPos, ReleaseProducer, ProducerDies,
           ReclaimProducer, RepairProducer, RepairProdTaken, RepairProdCur, ScanProducer,
           ProdScanSlot, ProdScanned, prodCp
    <3> QED BY <1>1, <3>1
  <2> QED BY <2>1, <2>2
<1>3. headAt' = headAt
  BY <1>1 DEF headAt
<1>4. \A s \in Segs : PPos(s)' = PPos(s) /\ CPos(s)' = CPos(s)
  BY <1>1, <1>2, <1>3 DEF PPos, CPos, consVars, consCp
<1> QED BY <1>1, <1>3, <1>4 DEF Backlog

\* The same of a step of the consumer that does not release.
LEMMA ConsumerApart ==
    ASSUME IInv, ConsumerNext, ~ReleaseSeq
    PROVE  /\ UNCHANGED <<word, chain, tailAt, prodVars>>
           /\ headAt' = headAt /\ \A s \in Segs : Backlog(s)' = Backlog(s)
<1>1. UNCHANGED <<word, chain, tailAt, prodVars>>
  BY DEF ConsumerNext, ReleaseNext, ConsTakeNext, ClaimConsumer, ReadGuard, Read, DropRead,
         StoreConsResume, StoreConsIntent, StoreConsCur, GiveBack, ConsSwitchDone, StoreConsPos,
         ReleaseConsumer, ConsumerDies, ReclaimConsumer, RepairConsumer, RepairGiven, RepairConsCur,
         ScanConsumer, ConsScanSlot, ConsScanned, slotVars, history
<1>2. \A s \in Segs : s # headAt.seg => cons_resume'[s] = cons_resume[s]
  <2>1. CASE StoreConsResume \/ ConsSwitchDone
    <3>1. cpc # "none" /\ cpc # "give"
      BY <2>1 DEF StoreConsResume, ConsSwitchDone
    <3>2. cst.cur = headAt.seg /\ cons_resume \in Resumes
      BY <3>1, ConsHolderPlace DEF ConsType, ConsHolder
    <3>3. \E n : cons_resume' = [cons_resume EXCEPT ![cst.cur] = n]
      BY <2>1 DEF StoreConsResume, ConsSwitchDone
    <3> QED BY <1>1, <3>2, <3>3 DEF Resumes
  <2>2. CASE ~StoreConsResume /\ ~ConsSwitchDone
    <3>1. cons_resume' = cons_resume
      BY <2>2 DEF ConsumerNext, ReleaseNext, ConsTakeNext, ClaimConsumer, ReadGuard, Read, DropRead,
           StoreConsIntent, StoreConsCur, GiveBack, StoreConsPos,
           ReleaseConsumer, ConsumerDies, ReclaimConsumer, RepairConsumer, RepairGiven, RepairConsCur,
           ScanConsumer, ConsScanSlot, ConsScanned, consCp
    <3> QED BY <1>1, <3>1
  <2> QED BY <2>1, <2>2
<1>3. headAt' = headAt
  BY <1>1 DEF headAt
<1>4. \A s \in Segs : PPos(s)' = PPos(s) /\ CPos(s)' = CPos(s)
  BY <1>1, <1>2, <1>3 DEF PPos, CPos, prodVars, prodCp
<1> QED BY <1>1, <1>3, <1>4 DEF Backlog
\* The producer moves the consumer's segment on, or leaves its words alone.
LEMMA ProducerMoves ==
    ASSUME IInv, TypeOK', ProducerNext, NEW h \in Segs, h = headAt.seg
    PROVE  /\ headAt' = headAt /\ Backlog(h) \in Nat
           /\ \/ word'[h] = word[h] /\ Backlog(h)' = Backlog(h)
              \/ Backlog(h)' = Backlog(h) + 1
<1>1. TypeOK /\ Core /\ Backlog(h) \in Nat
  BY SegPositions DEF IInv
<1>2. CASE CommitPublish
  <2>1. PICK f \in Segs, n \in Seqs, v \in SlotWord, g \in Segs :
          Sends(f, n, v, g) /\ headAt' = headAt
    BY <1>2, PublishSends
  <2>2. Backlog(f)' = Backlog(f) + 1 /\ \A s \in Segs : s # f => Backlog(s)' = Backlog(s)
    BY <1>1, <2>1, CoreSends
  <2>3. \A s \in Segs : s # f => word'[s] = word[s]
    <3>1. word' = [word EXCEPT ![f][Slot(n)] = v] /\ word \in [Segs -> [Slots -> SlotWord]]
      BY <1>1, <2>1 DEF Sends, TypeOK, RingType
    <3> QED BY <3>1
  <2> QED BY <1>1, <2>1, <2>2, <2>3
<1>3. CASE ~CommitPublish
  BY <1>1, <1>3, ProducerApart
<1> QED BY <1>2, <1>3

\* The consumer moves the producer's segment on, or leaves its words alone.
LEMMA ConsumerMoves ==
    ASSUME IInv, ConsumerNext, NEW t \in Segs, t = tailAt.seg
    PROVE  /\ tailAt' = tailAt /\ Backlog(t) \in Nat
           /\ \/ word'[t] = word[t] /\ Backlog(t)' = Backlog(t)
              \/ Backlog(t)' = Backlog(t) - 1
<1>1. TypeOK /\ Core /\ Backlog(t) \in Nat
  BY SegPositions DEF IInv
<1>2. CASE ReleaseSeq
  <2>1. PICK s \in Segs, n \in Seqs, r \in SlotWord : Takes(s, n, r)
    BY <1>2, SeqTakes
  <2>2. PICK l \in Nat : l = Len(chain)
    BY <1>1, HeadPlace
  <2>3. /\ \A q \in Segs : q # s => word'[q] = word[q]
        /\ \A q \in Segs : q # s => Backlog(q)' = Backlog(q)
        /\ Backlog(s)' = Backlog(s) - 1
    BY <1>1, <2>1, <2>2, TakeWords
  <2>4. tailAt' = tailAt
    BY <2>1 DEF Takes
  <2> QED BY <1>1, <2>3, <2>4
<1>3. CASE ~ReleaseSeq
  BY <1>1, <1>3, ConsumerApart
<1> QED BY <1>2, <1>3

\* What has been loaded stays what the words say while they do not change.
LEMMA LoadedKept ==
    ASSUME NEW s \in Segs, word'[s] = word[s]
    PROVE  /\ Loaded(pscan, s) /\ pscan' = pscan => Loaded(pscan, s)'
           /\ Loaded(cscan, s) /\ cscan' = cscan => Loaded(cscan, s)'
BY DEF Loaded

\* The next word is loaded.
LEMMA LoadedNext ==
    ASSUME NEW s \in Segs, NEW v \in Seq(Seqs), NEW x \in Seqs, Len(v) \in Nat,
           Loaded(v, s), x = word[s][Len(v)].seq
    PROVE  \A i \in 0 .. Len(Append(v, x)) - 1 : Append(v, x)[i + 1] = word[s][i].seq
<1>1. PICK l \in Nat : l = Len(v)
  OBVIOUS
<1>2. /\ Len(Append(v, x)) = l + 1 /\ Append(v, x)[l + 1] = x
      /\ \A i \in 1 .. l : Append(v, x)[i] = v[i]
  BY <1>1
<1> SUFFICES ASSUME NEW i \in 0 .. l
             PROVE  Append(v, x)[i + 1] = word[s][i].seq
  BY <1>1, <1>2
<1>3. i = l \/ (i \in 0 .. l - 1 /\ i + 1 \in 1 .. l)
  BY <1>1
<1> QED BY <1>1, <1>2, <1>3 DEF Loaded
\* Nothing loaded is what the words say.
LEMMA NothingLoaded ==
    ASSUME NEW s
    PROVE  /\ pscan' = <<>> => Loaded(pscan, s)'
           /\ cscan' = <<>> => Loaded(cscan, s)'
<1>1. \A i : i \notin 0 .. Len(<<>>) - 1
  BY NoSlots
<1> QED BY <1>1 DEF Loaded

\* A producer's scan goes on, and another begins, under its bound.
LEMMA ProducerSettles ==
    ASSUME IInv, ProducerNext, Settling
    PROVE  ProdSettle'
<1>1. PICK t \in Segs : t = tailAt.seg
  BY HeadPlace DEF IInv
<1>2. scans \in [prod : Nat, cons : Nat] /\ ProdSettle
  BY DEF Settling
<1>3. PICK p \in Nat, u \in Nat : p = scans.prod /\ u = Backlog(t) /\ u <= M
  <2>1. Backlog(t) \in Nat /\ Backlog(t) <= M
    BY <1>1, SegPositions, TailPlace DEF IInv, Window
  <2> QED BY <1>2, <2>1
<1>4. ASSUME ~CommitPublish
      PROVE  tailAt' = tailAt /\ word'[t] = word[t] /\ Backlog(t)' = u
  BY <1>1, <1>3, <1>4, ProducerApart
<1>5. ASSUME ppc' = "scan", tailAt' = tailAt,
             NEW q \in Nat, q = scans'.prod, NEW b, b = Backlog(t)',
             q + b <= M, q + b = M => Loaded(pscan, t)'
      PROVE  ProdSettle'
  BY <1>1, <1>5 DEF ProdSettle
<1>6. CASE ppc' # "scan" /\ (scans'.prod = 0 \/ (ppc # "scan" /\ scans'.prod = scans.prod))
  BY <1>2, <1>6 DEF ProdSettle
<1>7. CASE ScanProducer /\ ppc = "none" /\ ppc' = "scan" /\ scans' = scans /\ UNCHANGED pscan
  <2>1. ~CommitPublish
    BY <1>7 DEF CommitPublish
  <2>2. pscan' = <<>>
    BY <1>7 DEF IInv, ProdInv
  <2>3. scans'.prod = 0
    BY <1>2, <1>7 DEF ProdSettle
  <2>4. 0 \in Nat /\ 0 + u <= M
    BY <1>3
  <2> QED BY <1>4, <1>5, <1>7, <2>1, <2>2, <2>3, <2>4, NothingLoaded
<1>8. CASE ProdScanSlot /\ ppc = "scan" /\ ppc' = "scan" /\ scans' = scans
  <2>1. ~CommitPublish
    BY <1>8 DEF CommitPublish
  <2>2. PICK l \in Nat : l = Len(pscan) /\ l \in Slots
    <3>1. Len(pscan) \in Nat /\ Len(pscan) < M
      BY <1>8 DEF ProdScanSlot, IInv, TypeOK, ProdType
    <3> QED BY <3>1, Ranges DEF Slots
  <2>3. PICK x \in Seqs : x = word[t][l].seq
    <3>1. word[t][l] \in SlotWord
      BY <1>1, <2>2 DEF IInv, TypeOK, RingType
    <3> QED BY <3>1 DEF SlotWord
  <2>4. pscan' = Append(pscan, x) /\ pscan \in Seq(Seqs)
    <3>1. pst.cur = t
      BY <1>1, <1>8, HolderPlace
    <3> QED BY <1>8, <2>2, <2>3, <3>1 DEF ProdScanSlot, IInv, TypeOK, ProdType
  <2>5. Loaded(pscan, t) => Loaded(pscan, t)'
    <3> SUFFICES ASSUME Loaded(pscan, t)
                 PROVE  Loaded(pscan, t)'
      OBVIOUS
    <3>1. \A i \in 0 .. Len(Append(pscan, x)) - 1 : Append(pscan, x)[i + 1] = word[t][i].seq
      BY <2>2, <2>3, <2>4, LoadedNext
    <3> QED BY <1>4, <2>1, <2>4, <3>1 DEF Loaded
  <2>6. p + u <= M /\ (p + u = M => Loaded(pscan, t))
    BY <1>1, <1>2, <1>3, <1>8 DEF ProdSettle
  <2>7. scans'.prod = p
    BY <1>3, <1>8
  <2> QED BY <1>4, <1>5, <1>8, <2>1, <2>5, <2>6, <2>7
<1>9. CASE /\ ProdScanned /\ ~OneWindow(pscan) /\ ppc = "scan" /\ ppc' = "scan"
           /\ scans'.prod = scans.prod + 1 /\ pscan' = <<>> /\ UNCHANGED <<word, tailAt>>
  <2>1. ~CommitPublish
    BY <1>9 DEF CommitPublish
  <2>2. TypeOK /\ Core /\ M >= 2 /\ pscan \in Seq(Seqs) /\ Len(pscan) = M
    BY <1>9, HolderPlace DEF ProdHolder, ProdType, ProdScanned
  <2>3. ~Loaded(pscan, t)
    BY <1>9, <2>2, WordsFormWindow
  <2>4. p + u <= M /\ p + u # M
    BY <1>1, <1>2, <1>3, <1>9, <2>3 DEF ProdSettle
  <2>5. p + 1 \in Nat /\ (p + 1) + u <= M
    BY <1>3, <2>4, Ranges
  <2>6. scans'.prod = p + 1
    BY <1>3, <1>9
  <2> QED BY <1>4, <1>5, <1>9, <2>1, <2>5, <2>6, NothingLoaded
<1> QED BY <1>2, <1>6, <1>7, <1>8, <1>9, ProducerScans

\* A consumer's scan goes on, and another begins, under its bound.
LEMMA ConsumerSettles ==
    ASSUME IInv, ConsumerNext, Settling
    PROVE  ConsSettle'
<1>1. PICK h \in Segs : h = headAt.seg
  BY HeadPlace DEF IInv
<1>2. scans \in [prod : Nat, cons : Nat] /\ ConsSettle
  BY DEF Settling
<1>3. PICK p \in Nat, u \in Nat : p = scans.cons /\ u = Backlog(h)
  BY <1>1, <1>2, SegPositions DEF IInv
<1>4. ASSUME ~ReleaseSeq
      PROVE  headAt' = headAt /\ word'[h] = word[h] /\ Backlog(h)' = u
  BY <1>1, <1>3, <1>4, ConsumerApart
<1>5. ASSUME cpc' = "scan", headAt' = headAt,
             NEW q \in Nat, q = scans'.cons, NEW b, b = Backlog(h)',
             q <= b, q = b => Loaded(cscan, h)'
      PROVE  ConsSettle'
  BY <1>1, <1>5 DEF ConsSettle
<1>6. CASE cpc' # "scan" /\ (scans'.cons = 0 \/ (cpc # "scan" /\ scans'.cons = scans.cons))
  BY <1>2, <1>6 DEF ConsSettle
<1>7. CASE ScanConsumer /\ cpc = "none" /\ cpc' = "scan" /\ scans' = scans /\ UNCHANGED cscan
  <2>1. ~ReleaseSeq
    BY <1>7 DEF ReleaseSeq
  <2>2. cscan' = <<>>
    BY <1>7 DEF IInv, ConsInv
  <2>3. scans'.cons = 0
    BY <1>2, <1>7 DEF ConsSettle
  <2>4. 0 \in Nat /\ 0 <= u
    BY <1>3
  <2> QED BY <1>4, <1>5, <1>7, <2>1, <2>2, <2>3, <2>4, NothingLoaded
<1>8. CASE ConsScanSlot /\ cpc = "scan" /\ cpc' = "scan" /\ scans' = scans
  <2>1. ~ReleaseSeq
    BY <1>8 DEF ReleaseSeq
  <2>2. PICK l \in Nat : l = Len(cscan) /\ l \in Slots
    <3>1. Len(cscan) \in Nat /\ Len(cscan) < M
      BY <1>8 DEF ConsScanSlot, IInv, TypeOK, ConsType
    <3> QED BY <3>1, Ranges DEF Slots
  <2>3. PICK x \in Seqs : x = word[h][l].seq
    <3>1. word[h][l] \in SlotWord
      BY <1>1, <2>2 DEF IInv, TypeOK, RingType
    <3> QED BY <3>1 DEF SlotWord
  <2>4. cscan' = Append(cscan, x) /\ cscan \in Seq(Seqs)
    <3>1. cst.cur = h
      BY <1>1, <1>8, ConsHolderPlace DEF ConsHolder
    <3> QED BY <1>8, <2>2, <2>3, <3>1 DEF ConsScanSlot, IInv, TypeOK, ConsType
  <2>5. Loaded(cscan, h) => Loaded(cscan, h)'
    <3> SUFFICES ASSUME Loaded(cscan, h)
                 PROVE  Loaded(cscan, h)'
      OBVIOUS
    <3>1. \A i \in 0 .. Len(Append(cscan, x)) - 1 : Append(cscan, x)[i + 1] = word[h][i].seq
      BY <2>2, <2>3, <2>4, LoadedNext
    <3> QED BY <1>4, <2>1, <2>4, <3>1 DEF Loaded
  <2>6. p <= u /\ (p = u => Loaded(cscan, h))
    BY <1>1, <1>2, <1>3, <1>8 DEF ConsSettle
  <2>7. scans'.cons = p
    BY <1>3, <1>8
  <2> QED BY <1>4, <1>5, <1>8, <2>1, <2>5, <2>6, <2>7
<1>9. CASE /\ ConsScanned /\ ~OneWindow(cscan) /\ cpc = "scan" /\ cpc' = "scan"
           /\ scans'.cons = scans.cons + 1 /\ cscan' = <<>> /\ UNCHANGED <<word, chain, tailAt>>
  <2>1. ~ReleaseSeq
    BY <1>9 DEF ReleaseSeq
  <2>2. TypeOK /\ Core /\ M >= 2 /\ cscan \in Seq(Seqs) /\ Len(cscan) = M
    BY <1>9, ConsHolderPlace DEF ConsHolder, ConsType, ConsScanned
  <2>3. ~Loaded(cscan, h)
    BY <1>9, <2>2, WordsFormWindow
  <2>4. p <= u /\ p # u
    BY <1>1, <1>2, <1>3, <1>9, <2>3 DEF ConsSettle
  <2>5. p + 1 \in Nat /\ p + 1 <= u
    BY <1>3, <2>4
  <2>6. scans'.cons = p + 1
    BY <1>3, <1>9
  <2> QED BY <1>4, <1>5, <1>9, <2>1, <2>5, <2>6, NothingLoaded
<1> QED BY <1>2, <1>6, <1>7, <1>8, <1>9, ConsumerScans

\* A step of the consumer lowers the backlog of the segment that a producer
\* scans, or leaves its words alone.
LEMMA ProducerSettlesApart ==
    ASSUME IInv, ConsumerNext, Settling
    PROVE  ProdSettle'
<1>1. PICK t \in Segs : t = tailAt.seg
  BY HeadPlace DEF IInv
<1>2. scans'.prod = scans.prod /\ ppc' = ppc /\ pscan' = pscan
  BY ConsumerScans DEF Settling, prodVars
<1>3. /\ tailAt' = tailAt /\ Backlog(t) \in Nat
      /\ \/ word'[t] = word[t] /\ Backlog(t)' = Backlog(t)
         \/ Backlog(t)' = Backlog(t) - 1
  BY <1>1, ConsumerMoves
<1>4. CASE ppc # "scan"
  BY <1>2, <1>4 DEF Settling, ProdSettle
<1>5. CASE ppc = "scan"
  <2>1. PICK p \in Nat, u \in Nat : p = scans.prod /\ u = Backlog(t)
    BY <1>3 DEF Settling
  <2>2. p + u <= M /\ (p + u = M => Loaded(pscan, t))
    BY <1>1, <1>5, <2>1 DEF Settling, ProdSettle
  <2>3. CASE word'[t] = word[t] /\ Backlog(t)' = Backlog(t)
    <3>1. Loaded(pscan, t) => Loaded(pscan, t)'
      BY <1>2, <2>3, LoadedKept
    <3> QED BY <1>1, <1>2, <1>3, <1>5, <2>1, <2>2, <2>3, <3>1 DEF ProdSettle
  <2>4. CASE Backlog(t)' = Backlog(t) - 1
    <3>1. PICK b \in Int : b = Backlog(t)' /\ p + b <= M /\ p + b # M
      BY <2>1, <2>2, <2>4, Ranges
    <3> QED BY <1>1, <1>2, <1>3, <1>5, <2>1, <3>1 DEF ProdSettle
  <2> QED BY <1>3, <2>3, <2>4
<1> QED BY <1>4, <1>5

\* A step of the producer raises the backlog of the segment that a consumer
\* scans, or leaves its words alone.
LEMMA ConsumerSettlesApart ==
    ASSUME IInv, TypeOK', ProducerNext, Settling
    PROVE  ConsSettle'
<1>1. PICK h \in Segs : h = headAt.seg
  BY HeadPlace DEF IInv
<1>2. scans'.cons = scans.cons /\ cpc' = cpc /\ cscan' = cscan
  BY ProducerScans DEF Settling, consVars
<1>3. /\ headAt' = headAt /\ Backlog(h) \in Nat
      /\ \/ word'[h] = word[h] /\ Backlog(h)' = Backlog(h)
         \/ Backlog(h)' = Backlog(h) + 1
  BY <1>1, ProducerMoves
<1>4. CASE cpc # "scan"
  BY <1>2, <1>4 DEF Settling, ConsSettle
<1>5. CASE cpc = "scan"
  <2>1. PICK p \in Nat, u \in Nat : p = scans.cons /\ u = Backlog(h)
    BY <1>3 DEF Settling
  <2>2. p <= u /\ (p = u => Loaded(cscan, h))
    BY <1>1, <1>5, <2>1 DEF Settling, ConsSettle
  <2>3. CASE word'[h] = word[h] /\ Backlog(h)' = Backlog(h)
    <3>1. Loaded(cscan, h) => Loaded(cscan, h)'
      BY <1>2, <2>3, LoadedKept
    <3> QED BY <1>1, <1>2, <1>3, <1>5, <2>1, <2>2, <2>3, <3>1 DEF ConsSettle
  <2>4. CASE Backlog(h)' = Backlog(h) + 1
    <3>1. PICK b \in Int : b = Backlog(h)' /\ p <= b /\ p # b
      BY <2>1, <2>2, <2>4
    <3> QED BY <1>1, <1>2, <1>3, <1>5, <2>1, <3>1 DEF ConsSettle
  <2> QED BY <1>3, <2>3, <2>4
<1> QED BY <1>4, <1>5

\* Nobody scans at the beginning.
LEMMA InitSettling ==
    ASSUME Init
    PROVE  Settling
<1>1. scans = [prod |-> 0, cons |-> 0] /\ ppc = "none" /\ cpc = "none"
  BY DEF Init
<1> QED BY <1>1 DEF Settling, ProdSettle, ConsSettle

\* A step that changes nothing keeps the bounds.
LEMMA StutterSettles ==
    ASSUME Settling, UNCHANGED vars
    PROVE  Settling'
<1>1. /\ UNCHANGED <<scans, word, chain, tailAt, ppc, pscan, cpc, cscan>>
      /\ UNCHANGED <<prod_resume, cons_resume>>
  BY DEF vars, counts, slotVars, history, prodVars, consVars, prodCp, consCp
<1>2. headAt' = headAt
  BY <1>1 DEF headAt
<1>3. \A s : Backlog(s)' = Backlog(s) /\ (Loaded(pscan, s)' <=> Loaded(pscan, s))
                                      /\ (Loaded(cscan, s)' <=> Loaded(cscan, s))
  BY <1>1, <1>2 DEF Backlog, PPos, CPos, Loaded
<1> QED BY <1>1, <1>2, <1>3 DEF Settling, ProdSettle, ConsSettle

\* A scan that has failed M times succeeds: no more than M positions are in a
\* segment to be committed, or to be released.
LEMMA SettlingState ==
    ASSUME IInv, Settling
    PROVE  ScansSettle
<1>1. TypeOK /\ Core /\ tailAt.seg \in Segs /\ headAt.seg \in Segs
  BY HeadPlace DEF IInv
<1>2. \A s \in Segs : Backlog(s) \in Nat /\ Backlog(s) <= M
  BY <1>1, SegPositions DEF Core, WindowAgrees, Window
<1>3. scans.prod \in Nat /\ scans.cons \in Nat /\ ProdSettle /\ ConsSettle
  BY DEF Settling
<1>4. scans.prod <= M
  BY <1>1, <1>2, <1>3, Ranges DEF ProdSettle
<1>5. scans.cons <= M
  BY <1>1, <1>2, <1>3, Ranges DEF ConsSettle
<1> QED BY <1>4, <1>5 DEF ScansSettle

\* A takeover beside a live peer is not refused: at every depth, a successor's
\* scan fails at most M times before the words form one window, whatever the
\* peer does meanwhile.
THEOREM TakeoversSettle == Spec => []ScansSettle
<1>1. Init => Settling
  BY InitSettling
<1>2. IInv /\ IInv' /\ Settling /\ [Next]_vars => Settling'
  <2> SUFFICES ASSUME IInv, IInv', Settling, [Next]_vars
               PROVE  Settling'
    OBVIOUS
  <2>1. TypeOK'
    BY DEF IInv
  <2>2. CASE ProducerNext
    <3>1. scans' \in [prod : Nat, cons : Nat]
      BY <2>2, ProducerScans DEF Settling
    <3> QED BY <2>1, <2>2, <3>1, ProducerSettles, ConsumerSettlesApart DEF Settling
  <2>3. CASE ConsumerNext
    <3>1. scans' \in [prod : Nat, cons : Nat]
      BY <2>3, ConsumerScans DEF Settling
    <3> QED BY <2>3, <3>1, ConsumerSettles, ProducerSettlesApart DEF Settling
  <2>4. CASE UNCHANGED vars
    BY <2>4, StutterSettles
  <2> QED BY <2>2, <2>3, <2>4 DEF Next
<1>3. IInv /\ Settling => ScansSettle
  BY SettlingState
<1> QED BY <1>1, <1>2, <1>3, Invariant, PTL DEF Spec

=============================================================================
