-------------------------- MODULE LifecycleProofs ---------------------------
(***************************************************************************)
(* Proofs about the life of a ring of segments, for any number of buffers, *)
(* processes and segments: no buffer is lost or freed twice, a role keeps  *)
(* its ring, and a consumer resumes where the last one stopped.  And about *)
(* the regions before that: attach finds what init laid out.               *)
(***************************************************************************)
EXTENDS Lifecycle, RingLemmas, FiniteSetTheorems

-----------------------------------------------------------------------------
(* The inductive invariant.                                                *)

Modes == {a.mode : a \in Asks} \cup {"none", "single", "multi"}
Wakes == {a.wake : a \in Asks} \cup {"none", "spin", "futex"}

Headers ==
    [magic : {"link", "none", "ring"}, num : Int, ask : Asks \cup {NoAsk}, table : Seq(Bufs),
     slots : BOOLEAN, closed : BOOLEAN, consumer : BOOLEAN, producers : Nat, cons_pos : Nat]

Handles ==
    [segs : Seq(Bufs), use : Nat, attaching : BOOLEAN, mode : Modes, wake : Wakes,
     producer : BOOLEAN, consumer : {"none", "loading", "held", "stored"}, pos : Nat]

SegTypeOK ==
    /\ free \in Seq(Bufs) /\ uses \in [Bufs -> Nat] /\ app \in SUBSET Bufs
    /\ hdr \in [Bufs -> Headers]
    /\ mpc \in {"idle", "taking", "giving", "writing", "storing"}
    /\ ask \in Asks \cup {NoAsk} /\ taken \in Seq(Bufs) /\ unseen \in SUBSET Parts
    /\ ring \in Seq(Bufs) /\ held \in [RingProcs -> Handles]
    /\ closing \in [clear : Seq(Bufs), frees : Seq(Bufs)] /\ read \in Nat

\* One ring at a time: init begins when there is none and none is being freed,
\* and it is made of the buffers init took.
OneRing ==
    /\ mpc = "idle" => taken = NoRing
    /\ mpc # "idle" => closing = NotClosing /\ ask.n \in Nat \ {0}
    /\ mpc \in {"taking", "giving"} => ring = NoRing
    /\ mpc = "taking" => Len(taken) <= ask.n
    /\ mpc \in {"writing", "storing"} => ring = taken /\ Len(taken) = ask.n /\ read = 0
    /\ mpc # "storing" => unseen = {}
    /\ ring # NoRing => closing = NotClosing

\* So at most one of the three sequences of Owned has buffers: this one.
Kept == IF mpc # "idle" THEN taken ELSE IF ring # NoRing THEN ring ELSE closing.frees

\* Every buffer is in one place, once.
OnePlace ==
    /\ IsInjective(free) /\ IsInjective(Kept)
    /\ Range(free) \cap Range(Kept) = {}
    /\ app \cap (Range(free) \cup Range(Kept)) = {}
    /\ Bufs \subseteq app \cup Range(free) \cup Range(Kept)

\* The magics are stored in order: the first n segments have theirs, and what
\* is stored before it.
Stored(n) ==
    \A i \in DOMAIN ring :
        /\ hdr[ring[i]].magic = "ring" <=> i <= n
        /\ i <= n => hdr[ring[i]].slots

\* What is visible of segment n + 1 while its parts are stored.
Visible(n) ==
    /\ "slots" \notin unseen => hdr[ring[n + 1]].slots
    /\ n = 0 /\ "table" \notin unseen => hdr[ring[1]].table = ring
    /\ n = 0 /\ "info" \notin unseen => hdr[ring[1]].ask = ask

Magics ==
    /\ \A b \in Bufs : hdr[b].magic = "ring" => b \in Range(ring) \cup Range(closing.clear)
    /\ Range(closing.clear) \subseteq Range(closing.frees)
    /\ ring # NoRing =>
         /\ \E n \in 0 .. Len(ring) :
              /\ Stored(n)
              /\ n = Len(ring) <=> mpc = "idle"
              /\ mpc = "writing" => n > 0
              /\ mpc = "storing" => Visible(n)
         /\ hdr[ring[1]].magic = "ring" =>
              hdr[ring[1]].table = ring /\ (mpc # "idle" => hdr[ring[1]].ask = ask)

\* A handle whose first segment was not handed out again is the ring's, whole
\* once attach is done, or of a ring that is closed and not reused.
HandleOK(p) ==
    held[p].segs # NoRing =>
      /\ held[p].use <= uses[Block(p)]
      /\ Current(p) =>
           IF ring # NoRing /\ Block(p) = ring[1]
           THEN /\ hdr[ring[1]].magic = "ring"
                /\ ~held[p].attaching =>
                     /\ held[p].segs = ring /\ mpc = "idle"
                     /\ held[p].mode = hdr[ring[1]].ask.mode
                     /\ held[p].wake = hdr[ring[1]].ask.wake
           ELSE hdr[Block(p)].closed /\ Block(p) \in Range(free) \cup Range(closing.frees)

Producers == {p \in RingProcs : held[p].producer}

\* The roles held are of the ring, and its roles word counts them.
RoleHasRing ==
    \A p \in RingProcs : HasRole(p) => Ready(p) /\ ring # NoRing /\ held[p].segs = ring

RolesCounted ==
    ring # NoRing =>
      /\ ~hdr[ring[1]].closed
      /\ hdr[ring[1]].producers = Cardinality(Producers)
      /\ hdr[ring[1]].consumer <=> \E p \in RingProcs : held[p].consumer # "none"

OneConsumer ==
    \A p, q \in RingProcs : held[p].consumer # "none" /\ held[q].consumer # "none" => p = q

\* The checkpoint is where the ring was read to, unless the consumer has it.
Checkpoint ==
    /\ ConsumerResumes
    /\ ring # NoRing /\ (\A p \in RingProcs : held[p].consumer # "held") => hdr[ring[1]].cons_pos = read

IInv ==
    /\ SegTypeOK /\ OneRing /\ OnePlace /\ Magics
    /\ \A p \in RingProcs : HandleOK(p)
    /\ RoleHasRing /\ RolesCounted /\ OneConsumer /\ Checkpoint

-----------------------------------------------------------------------------
(* Sequences without repetition.                                           *)

\* An element taken from the front.
LEMMA TakenFront ==
    ASSUME NEW S, NEW s \in Seq(S), s # <<>>
    PROVE  /\ Head(s) \in S /\ Tail(s) \in Seq(S)
           /\ Range(s) = {Head(s)} \cup Range(Tail(s))
           /\ IsInjective(s) => IsInjective(Tail(s)) /\ Head(s) \notin Range(Tail(s))
<1>1. PICK n \in Nat \ {0} : n = Len(s)
  BY EmptySeq
<1>2. DOMAIN s = 1 .. n
  BY <1>1
<1>3. /\ Head(s) = s[1] /\ Head(s) \in S /\ Tail(s) \in Seq(S)
      /\ Tail(s) = [k \in 1 .. n - 1 |-> s[k + 1]]
  BY <1>1, HeadTailProperties, TailElements
<1>4. PICK t : t = Tail(s) /\ DOMAIN t = 1 .. n - 1 /\ \A k \in 1 .. n - 1 : t[k] = s[k + 1]
  BY <1>3
<1>5. Range(s) = {s[1]} \cup Range(t)
  <2>1. \A i \in 1 .. n : i = 1 \/ (i - 1 \in 1 .. n - 1 /\ s[i] = s[(i - 1) + 1])
    OBVIOUS
  <2>2. \A i \in 1 .. n - 1 : i + 1 \in 1 .. n
    OBVIOUS
  <2>3. \A x \in Range(s) : x = s[1] \/ x \in Range(t)
    <3> TAKE x \in Range(s)
    <3>1. PICK i \in 1 .. n : x = s[i]
      BY <1>2 DEF Range
    <3>2. CASE i = 1
      BY <3>1, <3>2
    <3>3. CASE i - 1 \in 1 .. n - 1 /\ s[i] = s[(i - 1) + 1]
      <4>1. t[i - 1] = x
        BY <1>4, <3>1, <3>3
      <4> QED BY <1>4, <3>3, <4>1 DEF Range
    <3> QED BY <2>1, <3>2, <3>3
  <2>4. s[1] \in Range(s) /\ \A i \in 1 .. n - 1 : t[i] \in Range(s)
    BY <1>2, <1>4, <2>2 DEF Range
  <2>5. Range(t) \subseteq Range(s)
    BY <1>4, <2>4 DEF Range
  <2> QED BY <2>3, <2>4, <2>5
<1>6. ASSUME IsInjective(s) PROVE IsInjective(t) /\ s[1] \notin Range(t)
  <2>1. \A i, j \in 1 .. n : s[i] = s[j] => i = j
    BY <1>6, <1>2 DEF IsInjective
  <2>2. \A i, j \in 1 .. n - 1 : s[i + 1] = s[j + 1] => i = j
    <3> TAKE i, j \in 1 .. n - 1
    <3>1. i + 1 \in 1 .. n /\ j + 1 \in 1 .. n
      OBVIOUS
    <3> QED BY <3>1, <2>1
  <2>3. \A i \in 1 .. n - 1 : s[i + 1] # s[1]
    <3> TAKE i \in 1 .. n - 1
    <3>1. i + 1 \in 1 .. n /\ 1 \in 1 .. n /\ i + 1 # 1
      OBVIOUS
    <3> QED BY <3>1, <2>1
  <2>4. \A i, j \in 1 .. n - 1 : t[i] = t[j] => i = j
    BY <1>4, <2>2
  <2>5. IsInjective(t)
    BY <1>4, <2>4, Zenon DEF IsInjective
  <2>6. s[1] \notin Range(t)
    BY <1>4, <2>3 DEF Range
  <2> QED BY <2>5, <2>6
<1> QED BY <1>3, <1>4, <1>5, <1>6

\* Two sequences without repetition that share nothing, ...
Apart(s, t) == IsInjective(s) /\ IsInjective(t) /\ Range(s) \cap Range(t) = {}

\* ... and one after the other.
Joined(S, s, t) ==
    s \o t \in Seq(S) /\ IsInjective(s \o t) /\ Range(s \o t) = Range(s) \cup Range(t)

LEMMA DistinctConcat ==
    ASSUME NEW S, NEW s \in Seq(S), NEW t \in Seq(S), Apart(s, t)
    PROVE  Joined(S, s, t)
<1>0. IsInjective(s) /\ IsInjective(t) /\ Range(s) \cap Range(t) = {}
  BY DEF Apart
<1>1. PICK m \in Nat, n \in Nat, u \in Seq(S) :
        m = Len(s) /\ n = Len(t) /\ u = s \o t /\ Len(u) = m + n
  <2>1. Len(s) \in Nat /\ Len(t) \in Nat
    OBVIOUS
  <2>2. s \o t \in Seq(S) /\ Len(s \o t) = Len(s) + Len(t)
    BY ConcatProperties
  <2> QED BY <2>1, <2>2
<1>2. DOMAIN s = 1 .. m /\ DOMAIN t = 1 .. n /\ DOMAIN u = 1 .. m + n
  BY <1>1
<1>3. \A i \in 1 .. m + n : u[i] = IF i <= m THEN s[i] ELSE t[i - m]
  BY <1>1, ConcatProperties
<1>4. \A i \in 1 .. m : s[i] \in Range(s)
  BY <1>2 DEF Range
<1>5. \A i \in 1 .. n : t[i] \in Range(t)
  BY <1>2 DEF Range
<1>6. \A i, j \in 1 .. m : s[i] = s[j] => i = j
  BY <1>0, <1>2 DEF IsInjective
<1>7. \A i, j \in 1 .. n : t[i] = t[j] => i = j
  BY <1>0, <1>2 DEF IsInjective
<1>8. ASSUME NEW i \in 1 .. m + n, NEW j \in 1 .. m + n, u[i] = u[j] PROVE i = j
  <2>1. CASE i <= m /\ j <= m
    BY <2>1, <1>8, <1>3, <1>6
  <2>2. CASE ~(i <= m) /\ ~(j <= m)
    <3>1. i - m \in 1 .. n /\ j - m \in 1 .. n /\ t[i - m] = t[j - m]
      BY <2>2, <1>8, <1>3
    <3>2. i - m = j - m
      BY <3>1, <1>7
    <3> QED BY <3>2
  <2>3. CASE i <= m /\ ~(j <= m)
    <3>1. i \in 1 .. m /\ j - m \in 1 .. n /\ s[i] = t[j - m]
      BY <2>3, <1>8, <1>3
    <3> QED BY <1>0, <3>1, <1>4, <1>5
  <2>4. CASE ~(i <= m) /\ j <= m
    <3>1. j \in 1 .. m /\ i - m \in 1 .. n /\ s[j] = t[i - m]
      BY <2>4, <1>8, <1>3
    <3> QED BY <1>0, <3>1, <1>4, <1>5
  <2> QED BY <2>1, <2>2, <2>3, <2>4
<1>9. IsInjective(u)
  BY <1>2, <1>8 DEF IsInjective
<1>10. Range(u) = Range(s) \cup Range(t)
  BY <1>1, RangeConcatenation
<1> QED BY <1>1, <1>9, <1>10, Zenon DEF Joined

\* One element is such a sequence.
LEMMA OneElement ==
    ASSUME NEW S, NEW e \in S
    PROVE  <<e>> \in Seq(S) /\ IsInjective(<<e>>) /\ Range(<<e>>) = {e}
BY DEF IsInjective, Range

\* An element put in front.
LEMMA PutFront ==
    ASSUME NEW S, NEW s \in Seq(S), NEW e \in S, IsInjective(s), e \notin Range(s)
    PROVE  /\ <<e>> \o s \in Seq(S) /\ IsInjective(<<e>> \o s)
           /\ Range(<<e>> \o s) = {e} \cup Range(s)
<1>1. <<e>> \in Seq(S) /\ IsInjective(<<e>>) /\ Range(<<e>>) = {e}
  BY OneElement
<1>2. Range(<<e>>) \cap Range(s) = {}
  BY <1>1
<1>3. PICK t \in Seq(S) : t = <<e>> /\ IsInjective(t) /\ Range(t) = {e} /\ Range(t) \cap Range(s) = {}
  BY <1>1, <1>2
<1>4. Joined(S, t, s)
  <2>1. Apart(t, s)
    BY <1>3 DEF Apart
  <2> QED BY <2>1, DistinctConcat, Zenon
<1> QED BY <1>3, <1>4, Zenon DEF Joined

\* An element put at the end.
LEMMA PutEnd ==
    ASSUME NEW S, NEW s \in Seq(S), NEW e \in S, IsInjective(s), e \notin Range(s)
    PROVE  /\ Append(s, e) \in Seq(S) /\ IsInjective(Append(s, e))
           /\ Range(Append(s, e)) = Range(s) \cup {e}
<1>1. <<e>> \in Seq(S) /\ IsInjective(<<e>>) /\ Range(<<e>>) = {e}
  BY OneElement
<1>2. PICK t \in Seq(S) : t = <<e>> /\ IsInjective(t) /\ Range(t) = {e}
  BY <1>1
<1>3. Append(s, e) = s \o t
  BY <1>2, AppendIsConcat
<1>4. Range(s) \cap Range(t) = {}
  BY <1>2
<1>5. Joined(S, s, t)
  <2>1. Apart(s, t)
    BY <1>2, <1>4 DEF Apart
  <2> QED BY <2>1, DistinctConcat, Zenon
<1> QED BY <1>2, <1>3, <1>5, Zenon DEF Joined

\* The empty sequence has no elements.
LEMMA EmptyDistinct == IsInjective(<<>>) /\ Range(<<>>) = {}
BY DEF IsInjective, Range

\* SetToSeq lists a finite set, each element once.
LEMMA ListedOnce ==
    ASSUME NEW T, IsFiniteSet(T)
    PROVE  /\ SetToSeq(T) \in Seq(T) /\ IsInjective(SetToSeq(T))
           /\ Range(SetToSeq(T)) = T
<1>1. PICK n \in Nat : n = Cardinality(T) /\ ExistsBijection(1 .. n, T)
  BY FS_CardinalityType
<1>2. \E f \in [1 .. n -> T] : IsInjective(f)
  BY <1>1 DEF ExistsBijection, Bijection, Injection
<1>3. PICK f \in [1 .. n -> T] : f = SetToSeq(T) /\ IsInjective(f)
  BY <1>1, <1>2, Zenon DEF SetToSeq
<1>4. IsFiniteSet(1 .. n) /\ Cardinality(1 .. n) = n
  BY FS_Interval
<1>5. f \in Injection(1 .. n, T)
  BY <1>3 DEF Injection
<1>6. f \in Surjection(1 .. n, T)
  BY <1>1, <1>4, <1>5, FS_Injection
<1>7. Range(f) = T
  BY <1>3, <1>6 DEF Range, Surjection
<1> QED BY <1>3, <1>7

\* A sequence that lists a finite set has its length.
LEMMA LengthOfList ==
    ASSUME NEW T, IsFiniteSet(T), NEW s \in Seq(T), IsInjective(s), Range(s) = T
    PROVE  Len(s) = Cardinality(T)
<1>1. PICK n \in Nat : n = Len(s) /\ s \in [1 .. n -> T] /\ DOMAIN s = 1 .. n
  OBVIOUS
<1>2. s \in Injection(1 .. n, T)
  BY <1>1 DEF Injection
<1>3. s \in Surjection(1 .. n, T)
  BY <1>1 DEF Surjection, Range
<1>4. Cardinality(1 .. n) = n
  BY FS_Interval
<1>5. Cardinality(1 .. n) = Cardinality(T)
  BY <1>2, <1>3, FS_Injection
<1> QED BY <1>1, <1>4, <1>5

-----------------------------------------------------------------------------
(* What the invariant says of the checked properties.                      *)

\* One of the three sequences has buffers, the others none.
LEMMA OwnedIsKept ==
    ASSUME SegTypeOK, OneRing
    PROVE  Owned = Kept /\ Kept \in Seq(Bufs)
<1>1. PICK f \in Seq(Bufs), t \in Seq(Bufs), r \in Seq(Bufs) :
        f = closing.frees /\ t = taken /\ r = ring
  BY DEF SegTypeOK
<1>2. \A s \in Seq(Bufs) : s \o <<>> = s /\ <<>> \o s = s
  BY ConcatEmptySeq
<1>3. CASE mpc # "idle"
  <2>1. f = <<>>
    BY <1>1, <1>3 DEF OneRing, NotClosing, NoRing
  <2>2. Owned = t \o <<>> \o <<>> /\ Kept = t
    BY <1>1, <1>3, <2>1, Zenon DEF Owned, Kept, NoRing
  <2> QED BY <1>1, <1>2, <2>2
<1>4. CASE mpc = "idle" /\ ring # NoRing
  <2>1. f = <<>> /\ t = <<>>
    BY <1>1, <1>4 DEF OneRing, NotClosing, NoRing
  <2>2. Owned = <<>> \o r \o <<>> /\ Kept = r
    BY <1>1, <1>4, <2>1, Zenon DEF Owned, Kept, NoRing
  <2> QED BY <1>1, <1>2, <2>2
<1>5. CASE mpc = "idle" /\ ring = NoRing
  <2>1. t = <<>> /\ r = <<>>
    BY <1>1, <1>5 DEF OneRing, NoRing
  <2>2. Owned = <<>> \o <<>> \o f /\ Kept = f
    BY <1>1, <1>5, <2>1, Zenon DEF Owned, Kept, NoRing
  <2>3. <<>> \o <<>> = <<>>
    BY <1>2, <2>1
  <2> QED BY <1>1, <1>2, <2>2, <2>3
<1> QED BY <1>3, <1>4, <1>5

\* Every buffer in one place, once: none is lost, and none is there twice.
LEMMA PlacesConserve ==
    ASSUME SegTypeOK, OneRing, OnePlace
    PROVE  BuffersConserved
<1>1. PICK k \in Seq(Bufs), f \in Seq(Bufs) : k = Kept /\ k = Owned /\ f = free
  BY OwnedIsKept DEF SegTypeOK
<1>2. /\ IsInjective(f) /\ IsInjective(k) /\ Range(f) \cap Range(k) = {}
      /\ app \cap (Range(f) \cup Range(k)) = {}
      /\ Bufs \subseteq app \cup Range(f) \cup Range(k)
  BY <1>1 DEF OnePlace
<1>3. PICK u \in Seq(Bufs) : u = f \o k /\ IsInjective(u) /\ Range(u) = Range(f) \cup Range(k)
  <2>1. Apart(f, k)
    BY <1>2 DEF Apart
  <2>2. Joined(Bufs, f, k)
    BY <2>1, DistinctConcat, Zenon
  <2> QED BY <2>2, Zenon DEF Joined
<1>4. IsFiniteSet(Bufs) /\ app \in SUBSET Bufs /\ IsFiniteSet(app)
  BY LifeAssumption, FS_Subset DEF SegTypeOK
<1>5. PICK a \in Seq(Bufs) : a = SetToSeq(app) /\ IsInjective(a) /\ Range(a) = app
  <2>1. SetToSeq(app) \in Seq(app) /\ IsInjective(SetToSeq(app)) /\ Range(SetToSeq(app)) = app
    BY <1>4, ListedOnce
  <2>2. SetToSeq(app) \in Seq(Bufs)
    BY <1>4, <2>1, SeqMonotonic
  <2> QED BY <2>1, <2>2
<1>6. Range(u) \cap Range(a) = {}
  BY <1>2, <1>3, <1>5
<1>7. PICK s \in Seq(Bufs) : s = u \o a /\ IsInjective(s) /\ Range(s) = Range(u) \cup Range(a)
  <2>1. Apart(u, a)
    BY <1>3, <1>5, <1>6 DEF Apart
  <2>2. Joined(Bufs, u, a)
    BY <2>1, DistinctConcat, Zenon
  <2> QED BY <2>2, Zenon DEF Joined
<1>8. Range(s) = Bufs
  <2>1. Range(s) \subseteq Bufs
    BY RangeOfSeq
  <2> QED BY <1>2, <1>3, <1>5, <1>7, <2>1
<1>9. Len(s) = Cardinality(Bufs)
  BY <1>4, <1>7, <1>8, LengthOfList
<1>10. s = free \o Owned \o SetToSeq(app)
  BY <1>1, <1>3, <1>5, <1>7, Zenon
<1> QED BY <1>8, <1>9, <1>10, Zenon DEF BuffersConserved

\* A ring's first segment is a buffer.
LEMMA FirstOfRing ==
    ASSUME NEW s \in Seq(Bufs), s # NoRing
    PROVE  s[1] \in Bufs /\ Len(s) \in Nat \ {0} /\ DOMAIN s = 1 .. Len(s) /\ 1 \in DOMAIN s
           /\ \A i \in DOMAIN s : s[i] \in Bufs
BY EmptySeq DEF NoRing

\* The roles a process has are of the ring, which is open, whole and its own.
LEMMA RolesKeep ==
    ASSUME IInv
    PROVE  RoleKeepsRing
<1> USE DEF IInv
<1>1. \A p \in RingProcs : HasRole(p) => held[p].segs = ring
  BY DEF RoleHasRing
<1>2. ring # NoRing => hdr[ring[1]].producers = Cardinality({p \in RingProcs : held[p].producer})
  BY DEF RolesCounted, Producers
<1>3. Cardinality({p \in RingProcs : held[p].consumer # "none"}) <= 1
  <2> DEFINE C == {p \in RingProcs : held[p].consumer # "none"}
  <2>1. CASE C = {}
    BY <2>1, FS_EmptySet
  <2>2. CASE C # {}
    <3>1. PICK p \in RingProcs : held[p].consumer # "none"
      BY <2>2
    <3>2. C = {p}
      BY <3>1 DEF OneConsumer
    <3>3. Cardinality({p}) = 1
      BY FS_Singleton
    <3> QED BY <3>2, <3>3
  <2> QED BY <2>1, <2>2
<1>4. ASSUME NEW p \in RingProcs, Ready(p), ~hdr[Block(p)].closed
      PROVE  /\ held[p].segs = ring /\ \A i \in DOMAIN ring : hdr[ring[i]].slots
             /\ held[p].mode = hdr[Block(p)].ask.mode /\ held[p].wake = hdr[Block(p)].ask.wake
  <2>1. held[p].segs # NoRing /\ Current(p) /\ ~held[p].attaching /\ HandleOK(p)
    BY <1>4 DEF Ready, Current
  <2>2. /\ ring # NoRing /\ Block(p) = ring[1] /\ held[p].segs = ring /\ mpc = "idle"
        /\ held[p].mode = hdr[ring[1]].ask.mode /\ held[p].wake = hdr[ring[1]].ask.wake
    BY <1>4, <2>1 DEF HandleOK
  <2>3. PICK n \in 0 .. Len(ring) : Stored(n) /\ (n = Len(ring) <=> mpc = "idle")
    BY <2>2 DEF Magics
  <2>4. \A i \in DOMAIN ring : i <= n
    BY <2>2, <2>3 DEF SegTypeOK
  <2>5. \A i \in DOMAIN ring : hdr[ring[i]].slots
    BY <2>3, <2>4 DEF Stored
  <2> QED BY <2>2, <2>5, Zenon
<1> QED BY <1>1, <1>2, <1>3, <1>4, Zenon DEF RoleKeepsRing

-----------------------------------------------------------------------------
(* Initially every buffer is on the free stack.                            *)

\* A pool whose buffers are all free, and no ring.
LEMMA InitInvariant ==
    ASSUME NEW V, SegInit(V)
    PROVE  IInv
<1>1. PICK n \in Nat : Bufs = 0 .. n - 1 /\ free = [i \in 1 .. n |-> i - 1]
  <2>1. Cardinality(Bufs) \in Nat
    BY LifeAssumption, FS_CardinalityType
  <2> QED BY <2>1, LifeAssumption, Zenon DEF SegInit
<1>2. /\ taken = <<>> /\ ring = <<>> /\ closing = [clear |-> <<>>, frees |-> <<>>]
      /\ mpc = "idle" /\ app = {} /\ unseen = {}
  BY DEF SegInit, NoRing, NotClosing
<1>3. Kept = <<>>
  BY <1>2 DEF Kept, NoRing
<1>4. SegTypeOK
  <2>1. free \in Seq(Bufs)
    <3>1. \A i \in 1 .. n : i - 1 \in 0 .. n - 1
      OBVIOUS
    <3> QED BY <1>1, <3>1
  <2>2. hdr \in [Bufs -> Headers]
    BY DEF SegInit, Header, Headers, NoRing
  <2>3. held \in [RingProcs -> Handles]
    BY DEF SegInit, NoHandle, Handles, NoRing, Modes, Wakes
  <2>4. taken \in Seq(Bufs) /\ ring \in Seq(Bufs) /\ closing \in [clear : Seq(Bufs), frees : Seq(Bufs)]
    BY <1>2
  <2> QED BY <1>2, <2>1, <2>2, <2>3, <2>4 DEF SegTypeOK, SegInit
<1>5. OneRing
  BY <1>2 DEF OneRing, NotClosing, NoRing
<1>6. OnePlace
  <2>1. IsInjective(free)
    BY <1>1 DEF IsInjective
  <2>2. Range(free) = Bufs
    <3>1. \A b \in Bufs : b + 1 \in 1 .. n /\ (b + 1) - 1 = b /\ free[b + 1] = b
      BY <1>1
    <3>2. \A i \in 1 .. n : free[i] \in Bufs
      BY <1>1
    <3> QED BY <1>1, <3>1, <3>2 DEF Range
  <2> QED BY <1>2, <1>3, <2>1, <2>2, EmptyDistinct DEF OnePlace
<1>7. Magics
  <2>1. \A b \in Bufs : hdr[b].magic = "link"
    BY DEF SegInit, Header
  <2> QED BY <1>2, <2>1, EmptyDistinct DEF Magics, NoRing
<1>8. ASSUME NEW p \in RingProcs PROVE held[p].segs = NoRing /\ held[p].consumer = "none" /\ ~held[p].producer
  BY DEF SegInit, NoHandle
<1>9. \A p \in RingProcs : HandleOK(p)
  BY <1>8 DEF HandleOK
<1>10. RoleHasRing /\ RolesCounted /\ OneConsumer /\ Checkpoint
  BY <1>2, <1>8 DEF RoleHasRing, RolesCounted, OneConsumer, HasRole, Checkpoint, ConsumerResumes, NoRing
<1> QED BY <1>4, <1>5, <1>6, <1>7, <1>9, <1>10 DEF IInv

-----------------------------------------------------------------------------
(* The roles.                                                              *)

\* Whoever has a role, or finds the ring open, has the ring, and init is over.
LEMMA Holder ==
    ASSUME IInv, NEW p \in RingProcs, HasRole(p) \/ (Ready(p) /\ ~hdr[Block(p)].closed)
    PROVE  /\ ring # NoRing /\ ring[1] \in Bufs /\ Block(p) = ring[1]
           /\ held[p].segs = ring /\ mpc = "idle" /\ Ready(p)
<1> USE DEF IInv
<1>1. Ready(p) /\ held[p].segs # NoRing /\ ~held[p].attaching /\ Current(p) /\ HandleOK(p)
  BY DEF RoleHasRing, Ready, Current
<1>2. ring # NoRing /\ Block(p) = ring[1]
  <2>1. CASE HasRole(p)
    BY <2>1 DEF RoleHasRing, Block
  <2>2. CASE ~hdr[Block(p)].closed
    BY <1>1, <2>2 DEF HandleOK
  <2> QED BY <2>1, <2>2
<1>3. held[p].segs = ring /\ mpc = "idle"
  BY <1>1, <1>2 DEF HandleOK
<1>4. ring[1] \in Bufs
  BY <1>2, FirstOfRing DEF SegTypeOK
<1> QED BY <1>1, <1>2, <1>3, <1>4

\* Taking and giving roles changes no handle's segments, and of a header only
\* the roles and the checkpoint.
SameRing ==
    /\ UNCHANGED <<free, uses, app, mpc, ask, taken, unseen, ring, closing>>
    /\ \A b \in Bufs : /\ hdr'[b].magic = hdr[b].magic /\ hdr'[b].ask = hdr[b].ask
                       /\ hdr'[b].table = hdr[b].table /\ hdr'[b].slots = hdr[b].slots
                       /\ hdr'[b].closed = hdr[b].closed
    /\ \A p \in RingProcs : /\ held'[p].segs = held[p].segs /\ held'[p].use = held[p].use
                            /\ held'[p].attaching = held[p].attaching
                            /\ held'[p].mode = held[p].mode /\ held'[p].wake = held[p].wake

\* An operation on a role leaves the rest of the invariant alone.
LEMMA RoleFrame ==
    ASSUME IInv, SameRing, mpc = "idle"
    PROVE  /\ OneRing' /\ OnePlace' /\ Magics' /\ \A p \in RingProcs : HandleOK(p)'
           /\ \A p \in RingProcs : Ready(p)' <=> Ready(p)
<1> USE DEF IInv
<1>1. \A i \in DOMAIN ring : ring[i] \in Bufs
  BY DEF SegTypeOK
<1>2. ring # NoRing => ring[1] \in Bufs
  BY FirstOfRing DEF SegTypeOK
<1>3. OneRing'
  BY DEF OneRing, SameRing
<1>4. OnePlace'
  <2>1. Kept' = Kept
    BY DEF Kept, SameRing
  <2> QED BY <2>1 DEF OnePlace, SameRing
<1>5. Magics'
  <2>1. \A b \in Bufs : hdr'[b].magic = "ring" => b \in Range(ring) \cup Range(closing.clear)
    BY DEF Magics, SameRing
  <2>2. ASSUME ring # NoRing, NEW n \in 0 .. Len(ring), Stored(n) PROVE Stored(n)'
    BY <1>1, <2>2 DEF Stored, SameRing
  <2>3. ring # NoRing => \E n \in 0 .. Len(ring) : Stored(n)' /\ (n = Len(ring) <=> mpc = "idle")
    BY <2>2 DEF Magics
  <2>4. ring # NoRing /\ hdr'[ring[1]].magic = "ring" => hdr'[ring[1]].table = ring
    BY <1>2 DEF Magics, SameRing
  <2> QED BY <2>1, <2>3, <2>4 DEF Magics, SameRing
<1>6. ASSUME NEW p \in RingProcs PROVE HandleOK(p)' /\ (Ready(p)' <=> Ready(p))
  <2>1. HandleOK(p)
    OBVIOUS
  <2>2. held[p].segs \in Seq(Bufs)
    BY DEF SegTypeOK, Handles
  <2>3. held[p].segs # NoRing => Block(p) \in Bufs
    BY <2>2, FirstOfRing DEF Block
  <2>4. (Current(p)' <=> Current(p)) /\ Block(p)' = Block(p)
    BY DEF Current, Block, SameRing
  <2>5. Ready(p)' <=> Ready(p)
    BY <2>4 DEF Ready, SameRing
  <2>6. HandleOK(p)'
    BY <1>2, <2>1, <2>3, <2>4 DEF HandleOK, SameRing
  <2> QED BY <2>5, <2>6
<1> QED BY <1>3, <1>4, <1>5, <1>6

\* The fields of a header that a role's step leaves alone.
SameBlock(g, h) ==
    /\ h.magic = g.magic /\ h.ask = g.ask /\ h.table = g.table
    /\ h.slots = g.slots /\ h.closed = g.closed

\* The fields of a handle that a role's step leaves alone.
SameHandle(j, k) ==
    /\ k.segs = j.segs /\ k.use = j.use /\ k.attaching = j.attaching
    /\ k.mode = j.mode /\ k.wake = j.wake

\* The words of the first segment that a role operation stores, one at a time.
LEMMA EditProducers ==
    ASSUME NEW g \in Headers, NEW n \in Nat, NEW h, h = [g EXCEPT !.producers = n]
    PROVE  /\ h \in Headers /\ SameBlock(g, h) /\ h.producers = n
           /\ h.consumer = g.consumer /\ h.cons_pos = g.cons_pos
BY DEF Headers, SameBlock

LEMMA EditConsumer ==
    ASSUME NEW g \in Headers, NEW c \in BOOLEAN, NEW h, h = [g EXCEPT !.consumer = c]
    PROVE  /\ h \in Headers /\ SameBlock(g, h) /\ h.consumer = c
           /\ h.producers = g.producers /\ h.cons_pos = g.cons_pos
BY DEF Headers, SameBlock

LEMMA EditPosition ==
    ASSUME NEW g \in Headers, NEW n \in Nat, NEW h, h = [g EXCEPT !.cons_pos = n]
    PROVE  /\ h \in Headers /\ SameBlock(g, h) /\ h.cons_pos = n
           /\ h.producers = g.producers /\ h.consumer = g.consumer
BY DEF Headers, SameBlock

LEMMA EditRole ==
    ASSUME NEW j \in Handles, NEW k, NEW r \in BOOLEAN, k = [j EXCEPT !.producer = r]
    PROVE  /\ k \in Handles /\ SameHandle(j, k) /\ k.producer = r
           /\ k.consumer = j.consumer /\ k.pos = j.pos
BY DEF Handles, SameHandle

\* A reader's step that changes one of the two keeps the other.
LEMMA KeepReader ==
    ASSUME NEW j \in Handles, NEW c, NEW n
    PROVE  /\ [j EXCEPT !.consumer = c] = [j EXCEPT !.consumer = c, !.pos = j.pos]
           /\ [j EXCEPT !.pos = n] = [j EXCEPT !.consumer = j.consumer, !.pos = n]
BY DEF Handles

\* 1 for a role that is held.
One01(r) == IF r THEN 1 ELSE 0

\* The step of process p on the roles word and the checkpoint of its ring.
RoleStep(p, b, h, k) ==
    /\ b = ring[1] /\ b = Block(p) /\ ring # NoRing /\ mpc = "idle"
    /\ held[p].segs = ring /\ Ready(p)
    /\ hdr' = [hdr EXCEPT ![b] = h] /\ held' = [held EXCEPT ![p] = k]
    /\ UNCHANGED <<free, uses, app, mpc, ask, taken, unseen, ring, closing>> /\ read' \in Nat
    /\ SameBlock(hdr[b], h) /\ SameHandle(held[p], k)
    /\ h.producers = hdr[b].producers + One01(k.producer) - One01(held[p].producer)
    /\ \/ h.consumer = hdr[b].consumer /\ (k.consumer = "none" <=> held[p].consumer = "none")
       \/ ~hdr[b].consumer /\ h.consumer /\ k.consumer # "none"
       \/ held[p].consumer # "none" /\ ~h.consumer /\ k.consumer = "none"

\* Such a step keeps all of the invariant but what it says of the checkpoint.
LEMMA RoleStepKeeps ==
    ASSUME IInv, NEW p \in RingProcs, NEW b \in Bufs, NEW h \in Headers, NEW k \in Handles,
           RoleStep(p, b, h, k)
    PROVE  /\ SegTypeOK' /\ OneRing' /\ OnePlace' /\ Magics' /\ \A q \in RingProcs : HandleOK(q)'
           /\ RoleHasRing' /\ RolesCounted' /\ OneConsumer'
           /\ hdr'[b] = h /\ held'[p] = k /\ \A q \in RingProcs \ {p} : held'[q] = held[q]
<1>1. hdr \in [Bufs -> Headers] /\ held \in [RingProcs -> Handles]
  BY DEF IInv, SegTypeOK
<1>2. hdr' \in [Bufs -> Headers] /\ hdr'[b] = h /\ \A c \in Bufs \ {b} : hdr'[c] = hdr[c]
  BY <1>1 DEF RoleStep
<1>3. held' \in [RingProcs -> Handles] /\ held'[p] = k /\ \A q \in RingProcs \ {p} : held'[q] = held[q]
  BY <1>1 DEF RoleStep
<1>4. SegTypeOK'
  BY <1>2, <1>3 DEF IInv, SegTypeOK, RoleStep
<1>5. SameRing
  BY <1>2, <1>3, Zenon DEF SameRing, RoleStep, SameBlock, SameHandle
<1>6. /\ OneRing' /\ OnePlace' /\ Magics' /\ \A q \in RingProcs : HandleOK(q)'
      /\ \A q \in RingProcs : (Ready(q)' <=> Ready(q)) /\ held'[q].segs = held[q].segs
  BY <1>5, RoleFrame DEF SameRing, RoleStep
<1>7. RoleHasRing'
  BY <1>3, <1>6 DEF IInv, RoleHasRing, HasRole, RoleStep
<1>8. PICK n \in Nat : n = Cardinality(Producers) /\ IsFiniteSet(Producers)
  BY LifeAssumption, FS_Subset, FS_CardinalityType DEF Producers
<1>9. Cardinality(Producers') = n + One01(k.producer) - One01(held[p].producer)
  <2>1. CASE k.producer = held[p].producer
    <3>1. Producers' = Producers
      BY <1>3, <2>1 DEF Producers
    <3> QED BY <1>8, <2>1, <3>1 DEF One01
  <2>2. CASE k.producer /\ ~held[p].producer
    <3>1. Producers' = Producers \cup {p} /\ p \notin Producers
      BY <1>3, <2>2 DEF Producers
    <3>2. Cardinality(Producers \cup {p}) = n + 1
      BY <1>8, <3>1, FS_AddElement
    <3>3. One01(k.producer) = 1 /\ One01(held[p].producer) = 0
      BY <2>2 DEF One01
    <3> QED BY <3>1, <3>2, <3>3
  <2>3. CASE ~k.producer /\ held[p].producer
    <3>1. Producers' = Producers \ {p} /\ p \in Producers
      BY <1>3, <2>3 DEF Producers
    <3>2. Cardinality(Producers \ {p}) = n - 1
      BY <1>8, <3>1, FS_RemoveElement
    <3>3. One01(k.producer) = 0 /\ One01(held[p].producer) = 1
      BY <2>3 DEF One01
    <3> QED BY <3>1, <3>2, <3>3
  <2>4. k.producer \in BOOLEAN /\ held[p].producer \in BOOLEAN
    BY <1>1 DEF Handles
  <2> QED BY <2>1, <2>2, <2>3, <2>4
<1>10. hdr[b].producers = n /\ ~hdr[b].closed /\ (hdr[b].consumer <=> \E q \in RingProcs : held[q].consumer # "none")
  BY <1>8 DEF IInv, RolesCounted, RoleStep
<1>11. OneConsumer' /\ (h.consumer <=> \E q \in RingProcs : held'[q].consumer # "none")
  <2>1. OneConsumer
    BY DEF IInv
  <2>2. CASE h.consumer = hdr[b].consumer /\ (k.consumer = "none" <=> held[p].consumer = "none")
    <3>1. \A q \in RingProcs : held'[q].consumer = "none" <=> held[q].consumer = "none"
      BY <1>3, <2>2
    <3> QED BY <1>10, <2>1, <2>2, <3>1 DEF OneConsumer
  <2>3. CASE ~hdr[b].consumer /\ h.consumer /\ k.consumer # "none"
    BY <1>3, <1>10, <2>3 DEF OneConsumer
  <2>4. CASE held[p].consumer # "none" /\ ~h.consumer /\ k.consumer = "none"
    BY <1>3, <2>1, <2>4 DEF OneConsumer
  <2> QED BY <2>2, <2>3, <2>4 DEF RoleStep
<1>12. RolesCounted'
  <2>1. h.producers = Cardinality(Producers')
    BY <1>9, <1>10 DEF RoleStep
  <2>2. ~h.closed
    BY <1>10 DEF RoleStep, SameBlock
  <2> QED BY <1>2, <1>11, <2>1, <2>2 DEF RolesCounted, RoleStep
<1> QED BY <1>2, <1>3, <1>4, <1>6, <1>7, <1>11, <1>12

\* The handle and the header of a process that takes or gives back a role.
LEMMA RoleParts ==
    ASSUME IInv, NEW p \in RingProcs, HasRole(p) \/ (Ready(p) /\ ~hdr[Block(p)].closed)
    PROVE  \E b \in Bufs, g \in Headers, j \in Handles :
             /\ b = ring[1] /\ b = Block(p) /\ ring # NoRing /\ mpc = "idle"
             /\ held[p].segs = ring /\ Ready(p) /\ g = hdr[b] /\ j = held[p]
<1>1. PICK b \in Bufs : /\ b = ring[1] /\ b = Block(p) /\ ring # NoRing /\ mpc = "idle"
                        /\ held[p].segs = ring /\ Ready(p)
  BY Holder
<1>2. hdr[b] \in Headers /\ held[p] \in Handles
  BY DEF IInv, SegTypeOK
<1> QED BY <1>1, <1>2

\* A producer's claim: one more counted, one more holder.
LEMMA ClaimProducerStep ==
    ASSUME IInv, NEW p \in RingProcs, NEW v, ClaimProducer(p, v)
    PROVE  IInv'
<1>1. PICK b \in Bufs, g \in Headers, j \in Handles :
        /\ b = ring[1] /\ b = Block(p) /\ ring # NoRing /\ mpc = "idle"
        /\ held[p].segs = ring /\ Ready(p) /\ g = hdr[b] /\ j = held[p]
  BY RoleParts DEF ClaimProducer
<1>2. PICK n \in Nat : n = g.producers + 1
  BY DEF Headers
<1>3. PICK h : h = [g EXCEPT !.producers = n]
  OBVIOUS
<1>4. PICK k : k = [j EXCEPT !.producer = TRUE]
  OBVIOUS
<1>5. /\ h \in Headers /\ SameBlock(g, h) /\ h.producers = n
      /\ h.consumer = g.consumer /\ h.cons_pos = g.cons_pos
  BY <1>3, EditProducers
<1>6. /\ k \in Handles /\ SameHandle(j, k) /\ k.producer = TRUE
      /\ k.consumer = j.consumer /\ k.pos = j.pos
  BY <1>4, EditRole
<1>7. /\ hdr' = [hdr EXCEPT ![b] = h] /\ held' = [held EXCEPT ![p] = k]
      /\ UNCHANGED <<free, uses, app, mpc, ask, taken, unseen, ring, closing, read>>
      /\ ~j.producer
  BY <1>1, <1>2, <1>3, <1>4 DEF ClaimProducer
<1>8. RoleStep(p, b, h, k)
  <2>1. h.producers = g.producers + One01(k.producer) - One01(j.producer)
    BY <1>2, <1>5, <1>6, <1>7 DEF One01, Headers
  <2>2. read' \in Nat
    BY <1>7 DEF IInv, SegTypeOK
  <2> QED BY <1>1, <1>5, <1>6, <1>7, <2>1, <2>2 DEF RoleStep
<1>9. /\ SegTypeOK' /\ OneRing' /\ OnePlace' /\ Magics' /\ \A q \in RingProcs : HandleOK(q)'
      /\ RoleHasRing' /\ RolesCounted' /\ OneConsumer'
      /\ hdr'[b] = h /\ held'[p] = k /\ \A q \in RingProcs \ {p} : held'[q] = held[q]
  BY <1>5, <1>6, <1>8, RoleStepKeeps
<1>10. \A q \in RingProcs : held'[q].consumer = held[q].consumer /\ held'[q].pos = held[q].pos
  BY <1>1, <1>6, <1>9
<1>11. Checkpoint'
  BY <1>1, <1>5, <1>7, <1>9, <1>10 DEF IInv, Checkpoint, ConsumerResumes
<1> QED BY <1>9, <1>11 DEF IInv

\* And its release.
LEMMA ReleaseProducerStep ==
    ASSUME IInv, NEW p \in RingProcs, ReleaseProducer(p)
    PROVE  IInv'
<1>1. PICK b \in Bufs, g \in Headers, j \in Handles :
        /\ b = ring[1] /\ b = Block(p) /\ ring # NoRing /\ mpc = "idle"
        /\ held[p].segs = ring /\ Ready(p) /\ g = hdr[b] /\ j = held[p]
  BY RoleParts DEF ReleaseProducer, HasRole
<1>2. PICK n \in Nat : n = g.producers - 1 /\ j.producer
  <2>1. j.producer /\ p \in Producers
    BY <1>1 DEF ReleaseProducer, Producers
  <2>2. IsFiniteSet(Producers) /\ Cardinality(Producers) \in Nat
    BY LifeAssumption, FS_Subset, FS_CardinalityType DEF Producers
  <2>3. Cardinality(Producers) # 0
    BY <2>1, <2>2, FS_EmptySet
  <2>4. g.producers = Cardinality(Producers)
    BY <1>1 DEF IInv, RolesCounted
  <2> QED BY <2>1, <2>2, <2>3, <2>4
<1>3. PICK h : h = [g EXCEPT !.producers = n]
  OBVIOUS
<1>4. PICK k : k = [j EXCEPT !.producer = FALSE]
  OBVIOUS
<1>5. /\ h \in Headers /\ SameBlock(g, h) /\ h.producers = n
      /\ h.consumer = g.consumer /\ h.cons_pos = g.cons_pos
  BY <1>2, <1>3, EditProducers
<1>6. /\ k \in Handles /\ SameHandle(j, k) /\ k.producer = FALSE
      /\ k.consumer = j.consumer /\ k.pos = j.pos
  BY <1>2, <1>4, EditRole
<1>7. /\ hdr' = [hdr EXCEPT ![b] = h] /\ held' = [held EXCEPT ![p] = k]
      /\ UNCHANGED <<free, uses, app, mpc, ask, taken, unseen, ring, closing>> /\ read' = read
  BY <1>1, <1>2, <1>3, <1>4 DEF ReleaseProducer, HasRole
<1>8. RoleStep(p, b, h, k)
  <2>1. h.producers = g.producers + One01(k.producer) - One01(j.producer)
    BY <1>2, <1>5, <1>6 DEF One01, Headers, Handles
  <2>2. read' \in Nat
    BY <1>7 DEF IInv, SegTypeOK
  <2>3. h.consumer = g.consumer /\ (k.consumer = "none" <=> j.consumer = "none")
    BY <1>1, <1>2, <1>5, <1>6 DEF ReleaseProducer, HasRole
  <2> QED BY <1>1, <1>5, <1>6, <1>7, <2>1, <2>2, <2>3 DEF RoleStep
<1>9. /\ SegTypeOK' /\ OneRing' /\ OnePlace' /\ Magics' /\ \A q \in RingProcs : HandleOK(q)'
      /\ RoleHasRing' /\ RolesCounted' /\ OneConsumer'
      /\ hdr'[b] = h /\ held'[p] = k /\ \A q \in RingProcs \ {p} : held'[q] = held[q]
  BY <1>5, <1>6, <1>8, RoleStepKeeps
<1>10. Checkpoint'
  <2>1. \A q \in RingProcs : held'[q].consumer = held[q].consumer /\ held'[q].pos = held[q].pos
    BY <1>1, <1>6, <1>9
  <2> QED BY <1>1, <1>5, <1>7, <1>9, <2>1 DEF IInv, Checkpoint, ConsumerResumes
<1> QED BY <1>9, <1>10 DEF IInv

\* The consumer flag is free, so nobody has the role.
LEMMA ClaimConsumerStep ==
    ASSUME IInv, NEW p \in RingProcs, NEW v, ClaimConsumer(p, v)
    PROVE  IInv'
<1>1. PICK b \in Bufs, g \in Headers, j \in Handles :
        /\ b = ring[1] /\ b = Block(p) /\ ring # NoRing /\ mpc = "idle"
        /\ held[p].segs = ring /\ Ready(p) /\ g = hdr[b] /\ j = held[p]
  BY RoleParts DEF ClaimConsumer
<1>2. g.producers \in Nat /\ g.cons_pos \in Nat /\ j.pos \in Nat /\ ~g.consumer /\ j.consumer = "none"
  BY <1>1 DEF Headers, Handles, ClaimConsumer
<1>3. PICK h : h = [g EXCEPT !.consumer = TRUE]
  OBVIOUS
<1>4. PICK k : k = [j EXCEPT !.consumer = "loading", !.pos = j.pos]
  OBVIOUS
<1>5. /\ h \in Headers /\ SameBlock(g, h) /\ h.producers = g.producers
      /\ h.consumer = TRUE /\ h.cons_pos = g.cons_pos
  BY <1>2, <1>3, EditConsumer
<1>6. /\ k \in Handles /\ SameHandle(j, k) /\ k.producer = j.producer
      /\ k.consumer = "loading" /\ k.pos = j.pos
  BY <1>2, <1>4 DEF Handles, SameHandle
<1>7. /\ hdr' = [hdr EXCEPT ![b] = h] /\ held' = [held EXCEPT ![p] = k]
      /\ UNCHANGED <<free, uses, app, mpc, ask, taken, unseen, ring, closing>> /\ read' = read
  BY <1>1, <1>2, <1>3, <1>4, KeepReader DEF ClaimConsumer
<1>8. RoleStep(p, b, h, k)
  <2>1. h.producers = g.producers + One01(k.producer) - One01(j.producer)
    BY <1>2, <1>5, <1>6 DEF One01, Headers, Handles
  <2>2. read' \in Nat
    BY <1>7 DEF IInv, SegTypeOK
  <2>3. ~g.consumer /\ h.consumer /\ k.consumer # "none"
    BY <1>1, <1>2, <1>5, <1>6 DEF ClaimConsumer
  <2> QED BY <1>1, <1>5, <1>6, <1>7, <2>1, <2>2, <2>3 DEF RoleStep
<1>9. /\ SegTypeOK' /\ OneRing' /\ OnePlace' /\ Magics' /\ \A q \in RingProcs : HandleOK(q)'
      /\ RoleHasRing' /\ RolesCounted' /\ OneConsumer'
      /\ hdr'[b] = h /\ held'[p] = k /\ \A q \in RingProcs \ {p} : held'[q] = held[q]
  BY <1>5, <1>6, <1>8, RoleStepKeeps
<1>10. Checkpoint'
  <2>1. OneConsumer /\ Checkpoint /\ (g.consumer <=> \E q \in RingProcs : held[q].consumer # "none")
    BY <1>1 DEF IInv, RolesCounted
  <2>2. \A q \in RingProcs : held[q].consumer = "none"
    BY <1>1, <1>2, <2>1 DEF Handles, IInv, SegTypeOK
  <2>3. h.cons_pos = read
    BY <1>1, <1>5, <2>1, <2>2 DEF Checkpoint
  <2>4. ConsumerResumes'
    BY <1>6, <1>9, <2>2 DEF ConsumerResumes
  <2> QED BY <1>1, <1>7, <1>9, <2>3, <2>4 DEF Checkpoint
<1> QED BY <1>9, <1>10 DEF IInv

\* The new consumer loads the position, which nobody else moves now.
LEMMA LoadConsumerStep ==
    ASSUME IInv, NEW p \in RingProcs, load_consumer(p)
    PROVE  IInv'
<1>1. PICK b \in Bufs, g \in Headers, j \in Handles :
        /\ b = ring[1] /\ b = Block(p) /\ ring # NoRing /\ mpc = "idle"
        /\ held[p].segs = ring /\ Ready(p) /\ g = hdr[b] /\ j = held[p]
  BY RoleParts DEF load_consumer, HasRole
<1>2. g.producers \in Nat /\ g.cons_pos \in Nat /\ j.pos \in Nat /\ j.consumer = "loading"
  BY <1>1 DEF Headers, Handles, load_consumer
<1>3. PICK h : h = g
  OBVIOUS
<1>4. PICK k : k = [j EXCEPT !.consumer = "held", !.pos = g.cons_pos]
  OBVIOUS
<1>5. /\ h \in Headers /\ SameBlock(g, h) /\ h.producers = g.producers
      /\ h.consumer = g.consumer /\ h.cons_pos = g.cons_pos
  BY <1>2, <1>3 DEF SameBlock
<1>6. /\ k \in Handles /\ SameHandle(j, k) /\ k.producer = j.producer
      /\ k.consumer = "held" /\ k.pos = g.cons_pos
  BY <1>2, <1>4 DEF Handles, SameHandle
<1>7. /\ hdr' = [hdr EXCEPT ![b] = h] /\ held' = [held EXCEPT ![p] = k]
      /\ UNCHANGED <<free, uses, app, mpc, ask, taken, unseen, ring, closing>> /\ read' = read
  BY <1>1, <1>2, <1>3, <1>4 DEF load_consumer, HasRole, IInv, SegTypeOK
<1>8. RoleStep(p, b, h, k)
  <2>1. h.producers = g.producers + One01(k.producer) - One01(j.producer)
    BY <1>2, <1>5, <1>6 DEF One01, Headers, Handles
  <2>2. read' \in Nat
    BY <1>7 DEF IInv, SegTypeOK
  <2>3. h.consumer = g.consumer /\ (k.consumer = "none" <=> j.consumer = "none")
    BY <1>1, <1>2, <1>5, <1>6 DEF load_consumer, HasRole
  <2> QED BY <1>1, <1>5, <1>6, <1>7, <2>1, <2>2, <2>3 DEF RoleStep
<1>9. /\ SegTypeOK' /\ OneRing' /\ OnePlace' /\ Magics' /\ \A q \in RingProcs : HandleOK(q)'
      /\ RoleHasRing' /\ RolesCounted' /\ OneConsumer'
      /\ hdr'[b] = h /\ held'[p] = k /\ \A q \in RingProcs \ {p} : held'[q] = held[q]
  BY <1>5, <1>6, <1>8, RoleStepKeeps
<1>10. Checkpoint'
  <2>1. OneConsumer /\ Checkpoint /\ (g.consumer <=> \E q \in RingProcs : held[q].consumer # "none")
    BY <1>1 DEF IInv, RolesCounted
  <2> QED BY <1>1, <1>2, <1>5, <1>6, <1>7, <1>9, <2>1 DEF OneConsumer, Checkpoint, ConsumerResumes
<1> QED BY <1>9, <1>10 DEF IInv

\* Only the consumer reads on, in its own position.
LEMMA ConsumeStep ==
    ASSUME IInv, NEW p \in RingProcs, Consume(p)
    PROVE  IInv'
<1>1. PICK b \in Bufs, g \in Headers, j \in Handles :
        /\ b = ring[1] /\ b = Block(p) /\ ring # NoRing /\ mpc = "idle"
        /\ held[p].segs = ring /\ Ready(p) /\ g = hdr[b] /\ j = held[p]
  BY RoleParts DEF Consume, HasRole
<1>2. g.producers \in Nat /\ g.cons_pos \in Nat /\ j.pos \in Nat /\ j.pos + 1 \in Nat /\ j.consumer = "held"
  BY <1>1 DEF Headers, Handles, Consume
<1>3. PICK h : h = g
  OBVIOUS
<1>4. PICK k : k = [j EXCEPT !.consumer = j.consumer, !.pos = j.pos + 1]
  OBVIOUS
<1>5. /\ h \in Headers /\ SameBlock(g, h) /\ h.producers = g.producers
      /\ h.consumer = g.consumer /\ h.cons_pos = g.cons_pos
  BY <1>2, <1>3 DEF SameBlock
<1>6. /\ k \in Handles /\ SameHandle(j, k) /\ k.producer = j.producer
      /\ k.consumer = "held" /\ k.pos = j.pos + 1
  BY <1>2, <1>4 DEF Handles, SameHandle
<1>7. /\ hdr' = [hdr EXCEPT ![b] = h] /\ held' = [held EXCEPT ![p] = k]
      /\ UNCHANGED <<free, uses, app, mpc, ask, taken, unseen, ring, closing>> /\ read' = read + 1
  BY <1>1, <1>2, <1>3, <1>4, KeepReader DEF Consume, HasRole, IInv, SegTypeOK
<1>8. RoleStep(p, b, h, k)
  <2>1. h.producers = g.producers + One01(k.producer) - One01(j.producer)
    BY <1>2, <1>5, <1>6 DEF One01, Headers, Handles
  <2>2. read' \in Nat
    BY <1>7 DEF IInv, SegTypeOK
  <2>3. h.consumer = g.consumer /\ (k.consumer = "none" <=> j.consumer = "none")
    BY <1>1, <1>2, <1>5, <1>6 DEF Consume, HasRole
  <2> QED BY <1>1, <1>5, <1>6, <1>7, <2>1, <2>2, <2>3 DEF RoleStep
<1>9. /\ SegTypeOK' /\ OneRing' /\ OnePlace' /\ Magics' /\ \A q \in RingProcs : HandleOK(q)'
      /\ RoleHasRing' /\ RolesCounted' /\ OneConsumer'
      /\ hdr'[b] = h /\ held'[p] = k /\ \A q \in RingProcs \ {p} : held'[q] = held[q]
  BY <1>5, <1>6, <1>8, RoleStepKeeps
<1>10. Checkpoint'
  <2>1. OneConsumer /\ Checkpoint /\ (g.consumer <=> \E q \in RingProcs : held[q].consumer # "none")
    BY <1>1 DEF IInv, RolesCounted
  <2> QED BY <1>1, <1>2, <1>5, <1>6, <1>7, <1>9, <2>1 DEF OneConsumer, Checkpoint, ConsumerResumes
<1> QED BY <1>9, <1>10 DEF IInv

\* The checkpoint is stored before the flag is cleared.
LEMMA StoreConsumerStep ==
    ASSUME IInv, NEW p \in RingProcs, store_consumer(p)
    PROVE  IInv'
<1>1. PICK b \in Bufs, g \in Headers, j \in Handles :
        /\ b = ring[1] /\ b = Block(p) /\ ring # NoRing /\ mpc = "idle"
        /\ held[p].segs = ring /\ Ready(p) /\ g = hdr[b] /\ j = held[p]
  BY RoleParts DEF store_consumer, HasRole
<1>2. g.producers \in Nat /\ g.cons_pos \in Nat /\ j.pos \in Nat /\ j.consumer = "held"
  BY <1>1 DEF Headers, Handles, store_consumer
<1>3. PICK h : h = [g EXCEPT !.cons_pos = j.pos]
  OBVIOUS
<1>4. PICK k : k = [j EXCEPT !.consumer = "stored", !.pos = 0]
  OBVIOUS
<1>5. /\ h \in Headers /\ SameBlock(g, h) /\ h.producers = g.producers
      /\ h.consumer = g.consumer /\ h.cons_pos = j.pos
  BY <1>2, <1>3, EditPosition
<1>6. /\ k \in Handles /\ SameHandle(j, k) /\ k.producer = j.producer
      /\ k.consumer = "stored" /\ k.pos = 0
  BY <1>2, <1>4 DEF Handles, SameHandle
<1>7. /\ hdr' = [hdr EXCEPT ![b] = h] /\ held' = [held EXCEPT ![p] = k]
      /\ UNCHANGED <<free, uses, app, mpc, ask, taken, unseen, ring, closing>> /\ read' = read
  BY <1>1, <1>2, <1>3, <1>4 DEF store_consumer, HasRole
<1>8. RoleStep(p, b, h, k)
  <2>1. h.producers = g.producers + One01(k.producer) - One01(j.producer)
    BY <1>2, <1>5, <1>6 DEF One01, Headers, Handles
  <2>2. read' \in Nat
    BY <1>7 DEF IInv, SegTypeOK
  <2>3. h.consumer = g.consumer /\ (k.consumer = "none" <=> j.consumer = "none")
    BY <1>1, <1>2, <1>5, <1>6 DEF store_consumer, HasRole
  <2> QED BY <1>1, <1>5, <1>6, <1>7, <2>1, <2>2, <2>3 DEF RoleStep
<1>9. /\ SegTypeOK' /\ OneRing' /\ OnePlace' /\ Magics' /\ \A q \in RingProcs : HandleOK(q)'
      /\ RoleHasRing' /\ RolesCounted' /\ OneConsumer'
      /\ hdr'[b] = h /\ held'[p] = k /\ \A q \in RingProcs \ {p} : held'[q] = held[q]
  BY <1>5, <1>6, <1>8, RoleStepKeeps
<1>10. Checkpoint'
  <2>1. OneConsumer /\ Checkpoint /\ (g.consumer <=> \E q \in RingProcs : held[q].consumer # "none")
    BY <1>1 DEF IInv, RolesCounted
  <2>2. \A q \in RingProcs \ {p} : held[q].consumer # "held"
    BY <1>1, <1>2, <2>1 DEF OneConsumer
  <2>3. h.cons_pos = read
    BY <1>1, <1>2, <1>5, <2>1 DEF Checkpoint, ConsumerResumes
  <2>4. ConsumerResumes'
    BY <1>6, <1>9, <2>2 DEF ConsumerResumes
  <2> QED BY <1>1, <1>7, <1>9, <2>3, <2>4 DEF Checkpoint
<1> QED BY <1>9, <1>10 DEF IInv

\* So the next consumer finds it there.
LEMMA ReleaseConsumerStep ==
    ASSUME IInv, NEW p \in RingProcs, ReleaseConsumer(p)
    PROVE  IInv'
<1>1. PICK b \in Bufs, g \in Headers, j \in Handles :
        /\ b = ring[1] /\ b = Block(p) /\ ring # NoRing /\ mpc = "idle"
        /\ held[p].segs = ring /\ Ready(p) /\ g = hdr[b] /\ j = held[p]
  BY RoleParts DEF ReleaseConsumer, HasRole
<1>2. g.producers \in Nat /\ g.cons_pos \in Nat /\ j.pos \in Nat /\ j.consumer = "stored"
  BY <1>1 DEF Headers, Handles, ReleaseConsumer
<1>3. PICK h : h = [g EXCEPT !.consumer = FALSE]
  OBVIOUS
<1>4. PICK k : k = [j EXCEPT !.consumer = "none", !.pos = j.pos]
  OBVIOUS
<1>5. /\ h \in Headers /\ SameBlock(g, h) /\ h.producers = g.producers
      /\ h.consumer = FALSE /\ h.cons_pos = g.cons_pos
  BY <1>2, <1>3, EditConsumer
<1>6. /\ k \in Handles /\ SameHandle(j, k) /\ k.producer = j.producer
      /\ k.consumer = "none" /\ k.pos = j.pos
  BY <1>2, <1>4 DEF Handles, SameHandle
<1>7. /\ hdr' = [hdr EXCEPT ![b] = h] /\ held' = [held EXCEPT ![p] = k]
      /\ UNCHANGED <<free, uses, app, mpc, ask, taken, unseen, ring, closing>> /\ read' = read
  BY <1>1, <1>2, <1>3, <1>4, KeepReader DEF ReleaseConsumer, HasRole
<1>8. RoleStep(p, b, h, k)
  <2>1. h.producers = g.producers + One01(k.producer) - One01(j.producer)
    BY <1>2, <1>5, <1>6 DEF One01, Headers, Handles
  <2>2. read' \in Nat
    BY <1>7 DEF IInv, SegTypeOK
  <2>3. j.consumer # "none" /\ ~h.consumer /\ k.consumer = "none"
    BY <1>1, <1>2, <1>5, <1>6 DEF ReleaseConsumer, HasRole
  <2> QED BY <1>1, <1>5, <1>6, <1>7, <2>1, <2>2, <2>3 DEF RoleStep
<1>9. /\ SegTypeOK' /\ OneRing' /\ OnePlace' /\ Magics' /\ \A q \in RingProcs : HandleOK(q)'
      /\ RoleHasRing' /\ RolesCounted' /\ OneConsumer'
      /\ hdr'[b] = h /\ held'[p] = k /\ \A q \in RingProcs \ {p} : held'[q] = held[q]
  BY <1>5, <1>6, <1>8, RoleStepKeeps
<1>10. Checkpoint'
  <2>1. OneConsumer /\ Checkpoint /\ (g.consumer <=> \E q \in RingProcs : held[q].consumer # "none")
    BY <1>1 DEF IInv, RolesCounted
  <2>2. \A q \in RingProcs : held[q].consumer # "held"
    BY <1>1, <1>2, <2>1 DEF OneConsumer
  <2>3. \A q \in RingProcs : held'[q].consumer # "held"
    BY <1>6, <1>9, <2>2
  <2>4. h.cons_pos = read
    BY <1>1, <1>5, <2>1, <2>2 DEF Checkpoint
  <2> QED BY <1>1, <1>7, <1>9, <2>3, <2>4 DEF Checkpoint, ConsumerResumes
<1> QED BY <1>9, <1>10 DEF IInv

-----------------------------------------------------------------------------
(* Handles made and dropped.                                               *)

\* The handle of a process without a role changes, and nothing else.
LEMMA HandleStep ==
    ASSUME IInv, NEW p \in RingProcs, NEW k \in Handles, held' = [held EXCEPT ![p] = k],
           UNCHANGED <<free, uses, app, hdr, mpc, ask, taken, unseen, ring, closing, read>>,
           ~HasRole(p), ~k.producer, k.consumer = "none",
           held'[p] = k => HandleOK(p)'
    PROVE  IInv'
<1>1. held \in [RingProcs -> Handles]
  BY DEF IInv, SegTypeOK
<1>2. held' \in [RingProcs -> Handles] /\ held'[p] = k /\ \A q \in RingProcs \ {p} : held'[q] = held[q]
  BY <1>1
<1>3. SegTypeOK' /\ OneRing'
  BY <1>2 DEF IInv, SegTypeOK, OneRing
<1>4. OnePlace' /\ Magics'
  BY DEF IInv, OnePlace, Kept, Magics, Stored, Visible
<1>5. \A q \in RingProcs : HandleOK(q)'
  <2>1. ASSUME NEW q \in RingProcs \ {p} PROVE HandleOK(q)'
    <3>1. held'[q] = held[q] /\ HandleOK(q)
      BY <1>2 DEF IInv
    <3> QED BY <3>1 DEF HandleOK, Current, Block
  <2> QED BY <1>2, <2>1
<1>6. \A q \in RingProcs : held'[q].producer = held[q].producer /\ held'[q].consumer = held[q].consumer
  <2>1. held[p].producer = FALSE /\ k.producer = FALSE /\ held[p].consumer = "none"
    BY <1>1 DEF HasRole, Handles
  <2> QED BY <1>2, <2>1
<1>7. RoleHasRing'
  <2>1. ASSUME NEW q \in RingProcs, HasRole(q)' PROVE Ready(q)' /\ ring # NoRing /\ held'[q].segs = ring
    <3>1. HasRole(q) /\ q # p
      BY <1>6, <2>1 DEF HasRole
    <3>2. held'[q] = held[q] /\ Ready(q) /\ ring # NoRing /\ held[q].segs = ring
      BY <1>2, <3>1 DEF IInv, RoleHasRing
    <3> QED BY <3>2 DEF Ready, Current
  <2> QED BY <2>1 DEF RoleHasRing
<1>8. Producers' = Producers
  BY <1>6 DEF Producers
<1>9. RolesCounted' /\ OneConsumer'
  BY <1>6, <1>8 DEF IInv, RolesCounted, OneConsumer
<1>10. Checkpoint'
  <2>1. \A q \in RingProcs : held'[q].consumer = "held" => held'[q].pos = held[q].pos
    BY <1>2, <1>6
  <2> QED BY <1>6, <2>1 DEF IInv, Checkpoint, ConsumerResumes
<1> QED BY <1>3, <1>4, <1>5, <1>7, <1>9, <1>10 DEF IInv

\* A handle without a role may go at any time.
LEMMA DropHandleStep ==
    ASSUME IInv, NEW p \in RingProcs, DropHandle(p)
    PROVE  IInv'
<1>1. NoHandle \in Handles /\ ~NoHandle.producer /\ NoHandle.consumer = "none" /\ NoHandle.segs = NoRing
  BY DEF NoHandle, Handles, NoRing, Modes, Wakes
<1>2. /\ held' = [held EXCEPT ![p] = NoHandle] /\ ~HasRole(p)
      /\ UNCHANGED <<free, uses, app, hdr, mpc, ask, taken, unseen, ring, closing, read>>
  BY DEF DropHandle, HasRole
<1>3. held'[p] = NoHandle => HandleOK(p)'
  BY <1>1 DEF HandleOK
<1> QED BY <1>1, <1>2, <1>3, HandleStep

\* attach finds the magic in the first segment.
LEMMA AttachBlockStep ==
    ASSUME IInv, NEW p \in RingProcs, NEW v, NEW m \in Modes, NEW w \in Wakes, AttachBlock(p, v, m, w)
    PROVE  IInv'
<1>1. ring # NoRing /\ ring[1] \in Bufs
  BY FirstOfRing DEF AttachBlock, IInv, SegTypeOK
<1>2. PICK b \in Bufs, n \in Nat : b = ring[1] /\ n = uses[b]
  BY <1>1 DEF IInv, SegTypeOK
<1>3. PICK s \in Seq(Bufs) : s = <<b>> /\ s[1] = b
  <2>1. <<b>> \in Seq(Bufs) /\ <<b>>[1] = b
    OBVIOUS
  <2> QED BY <2>1, Zenon
<1>4. PICK k : k = [NoHandle EXCEPT !.attaching = TRUE, !.mode = m, !.wake = w, !.segs = s, !.use = n]
  OBVIOUS
<1>5. /\ k \in Handles /\ k.segs = s /\ k.use = n /\ k.attaching
      /\ ~k.producer /\ k.consumer = "none"
  <2>1. k = [segs |-> s, use |-> n, attaching |-> TRUE, mode |-> m, wake |-> w,
             producer |-> FALSE, consumer |-> "none", pos |-> 0]
    BY <1>4 DEF NoHandle
  <2> QED BY <2>1 DEF Handles
<1>6. /\ held' = [held EXCEPT ![p] = k] /\ hdr[b].magic = "ring" /\ held[p] = NoHandle
      /\ UNCHANGED <<free, uses, app, hdr, mpc, ask, taken, unseen, ring, closing, read>>
  BY <1>2, <1>3, <1>4, Zenon DEF AttachBlock
<1>7. ~HasRole(p)
  BY <1>6 DEF HasRole, NoHandle
<1>8. held'[p] = k => HandleOK(p)'
  <2>1. SUFFICES ASSUME held'[p] = k PROVE HandleOK(p)'
    OBVIOUS
  <2>2. /\ Block(p)' = b /\ held'[p].use = n /\ uses'[b] = n /\ held'[p].attaching
        /\ ring' = ring /\ hdr'[b].magic = "ring"
    BY <1>2, <1>3, <1>5, <1>6, <2>1 DEF Block
  <2> QED BY <1>1, <1>2, <2>2 DEF HandleOK
<1> QED BY <1>5, <1>6, <1>7, <1>8, HandleStep

\* attach ends with the whole ring: the block's magic is stored after its
\* table, and the last segment's after all of the others.
LEMMA AttachSegmentsStep ==
    ASSUME IInv, NEW p \in RingProcs, AttachSegments(p)
    PROVE  IInv'
<1>1. PICK j \in Handles : j = held[p] /\ j.attaching /\ j.segs # NoRing /\ j.segs \in Seq(Bufs)
  BY DEF AttachSegments, Current, IInv, SegTypeOK, Handles
<1>2. PICK b \in Bufs, g \in Headers : b = j.segs[1] /\ g = hdr[b]
  BY <1>1, FirstOfRing DEF IInv, SegTypeOK
<1>3. /\ held' = [held EXCEPT ![p] = IF Agrees(b, j.mode, j.wake)
                                     THEN [j EXCEPT !.attaching = FALSE, !.segs = g.table]
                                     ELSE NoHandle]
      /\ UNCHANGED <<free, uses, app, hdr, mpc, ask, taken, unseen, ring, closing, read>>
  BY <1>1, <1>2 DEF AttachSegments
<1>4. ~HasRole(p)
  BY <1>1 DEF IInv, RoleHasRing, Ready
<1>5. CASE ~Agrees(b, j.mode, j.wake)
  <2>1. NoHandle \in Handles /\ ~NoHandle.producer /\ NoHandle.consumer = "none" /\ NoHandle.segs = NoRing
    BY DEF NoHandle, Handles, NoRing, Modes, Wakes
  <2>2. held' = [held EXCEPT ![p] = NoHandle]
    BY <1>3, <1>5
  <2>3. held'[p] = NoHandle => HandleOK(p)'
    BY <2>1 DEF HandleOK
  <2> QED BY <1>3, <1>4, <2>1, <2>2, <2>3, HandleStep
<1>6. CASE Agrees(b, j.mode, j.wake)
  <2>1. PICK k : k = [j EXCEPT !.attaching = FALSE, !.segs = g.table]
    OBVIOUS
  <2>2. /\ k \in Handles /\ k.segs = g.table /\ k.use = j.use /\ k.mode = j.mode /\ k.wake = j.wake
        /\ k.producer = j.producer /\ k.consumer = j.consumer /\ g.table \in Seq(Bufs)
    BY <2>1 DEF Handles, Headers
  <2>3. ~k.producer /\ k.consumer = "none"
    BY <1>1, <1>4, <2>2 DEF HasRole
  <2>4. held' = [held EXCEPT ![p] = k]
    BY <1>3, <1>6, <2>1
  <2>5. /\ g.ask.mode = j.mode /\ g.ask.wake = j.wake /\ g.table[1] = b
        /\ \A i \in DOMAIN g.table : hdr[g.table[i]].magic = "ring"
    BY <1>2, <1>6, Zenon DEF Agrees
  <2>6. j.use = uses[b] /\ HandleOK(p) /\ Current(p) /\ Block(p) = b
    BY <1>1, <1>2 DEF AttachSegments, Current, IInv, Block
  <2>7. ASSUME ring # NoRing, b = ring[1]
        PROVE  g.magic = "ring" /\ g.table = ring /\ mpc = "idle"
    <3>1. g.magic = "ring" /\ g.table = ring
      BY <1>1, <1>2, <2>6, <2>7 DEF HandleOK, IInv, Magics
    <3>2. PICK l \in Nat \ {0} : l = Len(ring) /\ l \in DOMAIN ring
      BY <2>7, FirstOfRing DEF IInv, SegTypeOK
    <3>3. PICK n \in 0 .. l : Stored(n) /\ (n = l <=> mpc = "idle")
      BY <2>7, <3>2 DEF IInv, Magics
    <3>4. hdr[ring[l]].magic = "ring"
      BY <2>5, <3>1, <3>2, Zenon
    <3>5. l <= n
      BY <3>2, <3>3, <3>4, Zenon DEF Stored
    <3> QED BY <3>1, <3>3, <3>5
  <2>8. ASSUME held'[p] = k PROVE HandleOK(p)'
    <3>1. SUFFICES ASSUME g.table # NoRing PROVE HandleOK(p)'
      BY <2>2, <2>8 DEF HandleOK
    <3>2. Block(p)' = b /\ held'[p].segs = g.table /\ held'[p].use = uses[b]
      BY <2>2, <2>5, <2>6, <2>8 DEF Block
    <3>3. CASE ring # NoRing /\ b = ring[1]
      <4>1. g.magic = "ring" /\ g.table = ring /\ mpc = "idle" /\ uses[b] \in Nat
        BY <2>7, <3>3 DEF IInv, SegTypeOK
      <4>2. held'[p].mode = g.ask.mode /\ held'[p].wake = g.ask.wake
        BY <2>2, <2>5, <2>8
      <4> QED BY <1>2, <1>3, <3>2, <3>3, <4>1, <4>2 DEF HandleOK
    <3>4. CASE ~(ring # NoRing /\ b = ring[1])
      <4>1. hdr[b].closed /\ b \in Range(free) \cup Range(closing.frees)
        BY <1>1, <2>6, <3>4 DEF HandleOK
      <4> QED BY <1>3, <3>2, <3>4, <4>1 DEF HandleOK, IInv, SegTypeOK
    <3> QED BY <3>3, <3>4
  <2> QED BY <1>3, <1>4, <2>2, <2>3, <2>4, <2>8, HandleStep
<1> QED BY <1>5, <1>6

-----------------------------------------------------------------------------
(* Buffers handed out and freed.                                           *)

\* The ring's buffers are what init took, or what it left.
LEMMA RingIsKept ==
    ASSUME IInv, ring # NoRing
    PROVE  Kept = ring /\ Range(ring) = Range(Kept) /\ ring[1] \in Range(Kept)
<1>1. Kept = ring
  BY DEF IInv, SegTypeOK, OneRing, Kept
<1>2. ring[1] \in Range(ring)
  BY FirstOfRing DEF IInv, SegTypeOK, Range
<1> QED BY <1>1, <1>2

\* A step that leaves the handles and the block's roles alone.
LEMMA RolesFrame ==
    ASSUME IInv, UNCHANGED <<held, ring, read>>,
           ring # NoRing => /\ uses'[ring[1]] = uses[ring[1]]
                            /\ hdr'[ring[1]].closed = hdr[ring[1]].closed
                            /\ hdr'[ring[1]].producers = hdr[ring[1]].producers
                            /\ hdr'[ring[1]].consumer = hdr[ring[1]].consumer
                            /\ hdr'[ring[1]].cons_pos = hdr[ring[1]].cons_pos
    PROVE  RoleHasRing' /\ RolesCounted' /\ OneConsumer' /\ Checkpoint'
<1>1. RoleHasRing'
  <2>1. ASSUME NEW p \in RingProcs, HasRole(p)' PROVE Ready(p)' /\ ring # NoRing /\ held[p].segs = ring
    <3>1. Ready(p) /\ ring # NoRing /\ held[p].segs = ring
      BY <2>1 DEF HasRole, IInv, RoleHasRing
    <3> QED BY <3>1 DEF Ready, Current
  <2> QED BY <2>1 DEF RoleHasRing
<1>2. RolesCounted' /\ OneConsumer'
  BY DEF IInv, RolesCounted, OneConsumer, Producers
<1>3. Checkpoint'
  BY DEF IInv, Checkpoint, ConsumerResumes
<1> QED BY <1>1, <1>2, <1>3

\* A buffer handed out was nobody's, and no handle of a closed ring takes it
\* for its own.
LEMMA PopKeeps ==
    ASSUME IInv, NEW b \in Bufs, Pop(b),
           UNCHANGED <<hdr, mpc, ask, unseen, ring, held, closing, read>>
    PROVE  /\ b \in Range(free) /\ b \notin Range(Kept) /\ b \notin app
           /\ free' \in Seq(Bufs) /\ IsInjective(free') /\ Range(free') = Range(free) \ {b}
           /\ uses' \in [Bufs -> Nat]
           /\ Magics' /\ \A p \in RingProcs : HandleOK(p)'
           /\ RoleHasRing' /\ RolesCounted' /\ OneConsumer' /\ Checkpoint'
<1>1. free \in Seq(Bufs) /\ free # <<>> /\ b = Head(free) /\ free' = Tail(free) /\ IsInjective(free)
  BY DEF Pop, IInv, SegTypeOK, OnePlace
<1>2. /\ free' \in Seq(Bufs) /\ IsInjective(free') /\ Range(free) = {b} \cup Range(free')
      /\ b \notin Range(free')
  BY <1>1, TakenFront
<1>3. Range(free') = Range(free) \ {b} /\ b \in Range(free)
  BY <1>2
<1>4. b \notin Range(Kept) /\ b \notin app
  BY <1>3 DEF IInv, OnePlace
<1>5. /\ uses \in [Bufs -> Nat] /\ uses' \in [Bufs -> Nat] /\ uses'[b] = uses[b] + 1
      /\ \A c \in Bufs \ {b} : uses'[c] = uses[c]
  BY DEF Pop, IInv, SegTypeOK
<1>6. ring # NoRing => ring[1] \in Bufs \ {b}
  BY <1>4, RingIsKept, FirstOfRing DEF IInv, SegTypeOK
<1>7. Magics'
  BY DEF IInv, Magics, Stored, Visible
<1>8. ASSUME NEW p \in RingProcs PROVE HandleOK(p)'
  <2>1. SUFFICES ASSUME held[p].segs # NoRing PROVE HandleOK(p)'
    BY DEF HandleOK
  <2>2. PICK c \in Bufs, u \in Nat : c = Block(p) /\ u = held[p].use
    BY <2>1, FirstOfRing DEF IInv, SegTypeOK, Handles, Block
  <2>3. HandleOK(p) /\ u <= uses[c] /\ Block(p)' = c
    BY <2>1, <2>2 DEF IInv, HandleOK, Block
  <2>4. CASE c = b
    <3>1. u < uses'[c] /\ uses'[c] \in Nat
      BY <1>5, <2>3, <2>4
    <3>2. ~Current(p)'
      BY <2>2, <2>3, <3>1 DEF Current, Block
    <3> QED BY <2>2, <2>3, <3>1, <3>2 DEF HandleOK
  <2>5. CASE c # b
    <3>1. uses'[c] = uses[c] /\ (Current(p)' <=> Current(p))
      BY <1>5, <2>2, <2>5 DEF Current, Block
    <3>2. c \in Range(free) \cup Range(closing.frees) => c \in Range(free') \cup Range(closing.frees)
      BY <1>3, <2>5
    <3> QED BY <2>1, <2>2, <2>3, <3>1, <3>2 DEF HandleOK
  <2> QED BY <2>4, <2>5
<1>9. RoleHasRing' /\ RolesCounted' /\ OneConsumer' /\ Checkpoint'
  BY <1>5, <1>6, RolesFrame
<1> QED BY <1>2, <1>3, <1>4, <1>5, <1>7, <1>8, <1>9

\* The application takes a buffer off the stack.
LEMMA AppAllocStep ==
    ASSUME IInv, NEW b \in Bufs, AppAlloc(b)
    PROVE  IInv'
<1>1. /\ b \in Range(free) /\ b \notin Range(Kept) /\ b \notin app
      /\ free' \in Seq(Bufs) /\ IsInjective(free') /\ Range(free') = Range(free) \ {b}
      /\ uses' \in [Bufs -> Nat]
      /\ Magics' /\ \A p \in RingProcs : HandleOK(p)'
      /\ RoleHasRing' /\ RolesCounted' /\ OneConsumer' /\ Checkpoint'
  BY PopKeeps DEF AppAlloc
<1>2. app' = app \cup {b} /\ UNCHANGED <<hdr, mpc, ask, taken, unseen, ring, held, closing, read>>
  BY DEF AppAlloc
<1>3. SegTypeOK' /\ OneRing'
  BY <1>1, <1>2 DEF IInv, SegTypeOK, OneRing
<1>4. Kept' = Kept
  BY <1>2 DEF Kept
<1>5. OnePlace'
  BY <1>1, <1>2, <1>4 DEF IInv, OnePlace
<1> QED BY <1>1, <1>3, <1>5 DEF IInv

\* init takes one, for its next segment.
LEMMA TakeSegmentStep ==
    ASSUME IInv, NEW b \in Bufs, TakeSegment(b)
    PROVE  IInv'
<1>1. /\ b \in Range(free) /\ b \notin Range(Kept) /\ b \notin app
      /\ free' \in Seq(Bufs) /\ IsInjective(free') /\ Range(free') = Range(free) \ {b}
      /\ uses' \in [Bufs -> Nat]
      /\ Magics' /\ \A p \in RingProcs : HandleOK(p)'
      /\ RoleHasRing' /\ RolesCounted' /\ OneConsumer' /\ Checkpoint'
  BY PopKeeps DEF TakeSegment
<1>2. /\ taken' = Append(taken, b) /\ UNCHANGED <<app, hdr, mpc, ask, unseen, ring, held, closing, read>>
      /\ mpc = "taking" /\ Len(taken) < ask.n
  BY DEF TakeSegment
<1>3. Kept = taken /\ Kept' = taken' /\ taken \in Seq(Bufs) /\ IsInjective(taken)
  BY <1>2 DEF Kept, IInv, SegTypeOK, OnePlace
<1>4. taken' \in Seq(Bufs) /\ IsInjective(taken') /\ Range(taken') = Range(taken) \cup {b}
  BY <1>1, <1>2, <1>3, PutEnd
<1>5. Len(taken') = Len(taken) + 1
  BY <1>2, <1>3, AppendProperties
<1>6. SegTypeOK'
  BY <1>1, <1>2, <1>4 DEF IInv, SegTypeOK
<1>7. OneRing'
  <2>1. ask.n \in Nat /\ Len(taken) \in Nat
    BY <1>2, <1>3 DEF IInv, OneRing
  <2> QED BY <1>2, <1>5, <2>1 DEF IInv, OneRing
<1>8. OnePlace'
  BY <1>1, <1>2, <1>3, <1>4 DEF IInv, OnePlace
<1> QED BY <1>1, <1>6, <1>7, <1>8 DEF IInv

\* A magic word, and nothing else of the header, is changed.
LEMMA EditMagic ==
    ASSUME NEW g \in Headers, NEW m \in {"link", "none", "ring"}, NEW h, h = [g EXCEPT !.magic = m]
    PROVE  /\ h \in Headers /\ h.magic = m /\ h.ask = g.ask /\ h.table = g.table
           /\ h.slots = g.slots /\ h.closed = g.closed
           /\ h.producers = g.producers /\ h.consumer = g.consumer /\ h.cons_pos = g.cons_pos
BY DEF Headers

\* One magic is written, and no other word of a header.
LEMMA MagicWritten ==
    ASSUME IInv, NEW b \in Bufs, NEW m \in {"link", "none", "ring"},
           hdr' = [hdr EXCEPT ![b].magic = m]
    PROVE  /\ hdr' \in [Bufs -> Headers] /\ hdr'[b].magic = m
           /\ \A c \in Bufs \ {b} : hdr'[c] = hdr[c]
           /\ \A c \in Bufs : /\ hdr'[c].ask = hdr[c].ask /\ hdr'[c].table = hdr[c].table
                              /\ hdr'[c].slots = hdr[c].slots /\ hdr'[c].closed = hdr[c].closed
                              /\ hdr'[c].producers = hdr[c].producers
                              /\ hdr'[c].consumer = hdr[c].consumer
                              /\ hdr'[c].cons_pos = hdr[c].cons_pos
<1>1. PICK g \in Headers : g = hdr[b]
  BY DEF IInv, SegTypeOK
<1>2. PICK h : h = [g EXCEPT !.magic = m]
  OBVIOUS
<1>3. /\ h \in Headers /\ h.magic = m /\ h.ask = g.ask /\ h.table = g.table
      /\ h.slots = g.slots /\ h.closed = g.closed
      /\ h.producers = g.producers /\ h.consumer = g.consumer /\ h.cons_pos = g.cons_pos
  BY <1>2, EditMagic
<1>4. hdr' = [hdr EXCEPT ![b] = h] /\ hdr \in [Bufs -> Headers]
  BY <1>1, <1>2 DEF IInv, SegTypeOK
<1>5. hdr' \in [Bufs -> Headers] /\ hdr'[b] = h /\ \A c \in Bufs \ {b} : hdr'[c] = hdr[c]
  BY <1>3, <1>4
<1> QED BY <1>1, <1>3, <1>5

\* A buffer freed leaves the ring's headers alone, whatever else frees it.
LEMMA PushKeeps ==
    ASSUME IInv, NEW b \in Bufs, Push(b), b \notin Range(free), b \notin Range(ring),
           UNCHANGED <<uses, ring, held, read>>,
           ring # NoRing => UNCHANGED <<mpc, ask, unseen>>,
           closing'.clear = closing.clear,
           Range(closing.clear) \subseteq Range(closing'.frees),
           Range(closing.frees) \subseteq Range(closing'.frees) \cup {b}
    PROVE  /\ free' \in Seq(Bufs) /\ IsInjective(free') /\ Range(free') = {b} \cup Range(free)
           /\ hdr' \in [Bufs -> Headers]
           /\ Magics' /\ \A p \in RingProcs : HandleOK(p)'
           /\ RoleHasRing' /\ RolesCounted' /\ OneConsumer' /\ Checkpoint'
<1>1. free \in Seq(Bufs) /\ free' = <<b>> \o free /\ IsInjective(free)
  BY DEF Push, IInv, SegTypeOK, OnePlace
<1>2. free' \in Seq(Bufs) /\ IsInjective(free') /\ Range(free') = {b} \cup Range(free)
  BY <1>1, PutFront
<1>3. /\ hdr' \in [Bufs -> Headers] /\ hdr'[b].magic = "link"
      /\ \A c \in Bufs \ {b} : hdr'[c] = hdr[c]
      /\ \A c \in Bufs : /\ hdr'[c].ask = hdr[c].ask /\ hdr'[c].table = hdr[c].table
                         /\ hdr'[c].slots = hdr[c].slots /\ hdr'[c].closed = hdr[c].closed
                         /\ hdr'[c].producers = hdr[c].producers
                         /\ hdr'[c].consumer = hdr[c].consumer
                         /\ hdr'[c].cons_pos = hdr[c].cons_pos
  <2>1. hdr' = [hdr EXCEPT ![b].magic = "link"]
    BY DEF Push
  <2> QED BY <2>1, MagicWritten
<1>4. \A i \in DOMAIN ring : ring[i] \in Bufs /\ ring[i] # b /\ hdr'[ring[i]] = hdr[ring[i]]
  <2>1. \A i \in DOMAIN ring : ring[i] \in Bufs /\ ring[i] # b
    BY DEF IInv, SegTypeOK, Range
  <2> QED BY <1>3, <2>1
<1>5. ring # NoRing => ring[1] \in Bufs /\ hdr'[ring[1]] = hdr[ring[1]]
  BY <1>4, FirstOfRing DEF IInv, SegTypeOK
<1>6. Magics'
  <2>1. \A c \in Bufs : hdr'[c].magic = "ring" => c \in Range(ring) \cup Range(closing.clear)
    BY <1>3 DEF IInv, Magics
  <2>2. ASSUME ring # NoRing, NEW n \in 0 .. Len(ring), Stored(n) PROVE Stored(n)'
    BY <1>4, <2>2 DEF Stored
  <2>3. ASSUME ring # NoRing, NEW n \in 0 .. Len(ring), mpc = "storing", n # Len(ring), Visible(n)
        PROVE  Visible(n)'
    <3>1. n + 1 \in DOMAIN ring
      BY <2>3 DEF IInv, SegTypeOK
    <3> QED BY <1>4, <1>5, <2>3, <3>1 DEF Visible
  <2>4. ring # NoRing =>
          \E n \in 0 .. Len(ring) : /\ Stored(n)' /\ (n = Len(ring) <=> mpc' = "idle")
                                    /\ mpc' = "writing" => n > 0
                                    /\ mpc' = "storing" => Visible(n)'
    BY <2>2, <2>3 DEF IInv, Magics
  <2>5. ring # NoRing /\ hdr'[ring[1]].magic = "ring" =>
          hdr'[ring[1]].table = ring /\ (mpc' # "idle" => hdr'[ring[1]].ask = ask')
    BY <1>5 DEF IInv, Magics
  <2> QED BY <2>1, <2>4, <2>5 DEF Magics
<1>7. ASSUME NEW p \in RingProcs PROVE HandleOK(p)'
  <2>1. SUFFICES ASSUME held[p].segs # NoRing PROVE HandleOK(p)'
    BY DEF HandleOK
  <2>2. PICK c \in Bufs : c = Block(p)
    BY <2>1, FirstOfRing DEF IInv, SegTypeOK, Handles, Block
  <2>3. HandleOK(p) /\ Block(p)' = c /\ (Current(p)' <=> Current(p)) /\ hdr'[c].closed = hdr[c].closed
    BY <1>3, <2>2 DEF IInv, Block, Current
  <2>4. c \in Range(free) \cup Range(closing.frees) => c \in Range(free') \cup Range(closing'.frees)
    BY <1>2
  <2> QED BY <1>5, <2>1, <2>2, <2>3, <2>4 DEF HandleOK
<1>8. RoleHasRing' /\ RolesCounted' /\ OneConsumer' /\ Checkpoint'
  BY <1>5, RolesFrame
<1> QED BY <1>2, <1>3, <1>6, <1>7, <1>8

\* The application gives a buffer back.
LEMMA AppFreeStep ==
    ASSUME IInv, NEW b \in Bufs, AppFree(b)
    PROVE  IInv'
<1>1. /\ b \in app /\ Push(b) /\ app' = app \ {b}
      /\ UNCHANGED <<uses, mpc, ask, taken, unseen, ring, held, closing, read>>
  BY DEF AppFree
<1>2. b \notin Range(free) /\ b \notin Range(Kept)
  BY <1>1 DEF IInv, OnePlace
<1>3. b \notin Range(ring)
  <2>1. CASE ring = NoRing
    BY <2>1, EmptyDistinct DEF NoRing
  <2>2. CASE ring # NoRing
    BY <1>2, <2>2, RingIsKept
  <2> QED BY <2>1, <2>2
<1>4. Range(closing.clear) \subseteq Range(closing.frees)
  BY DEF IInv, Magics
<1>5. /\ free' \in Seq(Bufs) /\ IsInjective(free') /\ Range(free') = {b} \cup Range(free)
      /\ hdr' \in [Bufs -> Headers]
      /\ Magics' /\ \A p \in RingProcs : HandleOK(p)'
      /\ RoleHasRing' /\ RolesCounted' /\ OneConsumer' /\ Checkpoint'
  BY <1>1, <1>2, <1>3, <1>4, PushKeeps
<1>6. SegTypeOK' /\ OneRing'
  BY <1>1, <1>5 DEF IInv, SegTypeOK, OneRing
<1>7. Kept' = Kept
  BY <1>1 DEF Kept
<1>8. OnePlace'
  BY <1>1, <1>2, <1>5, <1>7 DEF IInv, OnePlace
<1> QED BY <1>5, <1>6, <1>8 DEF IInv

\* release_ring gives back the next segment of the closed ring.
LEMMA FreeSegmentStep ==
    ASSUME IInv, FreeSegment
    PROVE  IInv'
<1>1. PICK f \in Seq(Bufs), e \in Seq(Bufs) :
        f = closing.frees /\ f # <<>> /\ e = Tail(f) /\ closing.clear = <<>>
  BY TakenFront DEF FreeSegment, IInv, SegTypeOK, NoRing
<1>2. PICK b \in Bufs : b = Head(f) /\ Push(b)
  BY <1>1, TakenFront DEF FreeSegment
<1>3. /\ closing' = [closing EXCEPT !.frees = e]
      /\ UNCHANGED <<uses, app, mpc, ask, taken, unseen, ring, held, read>>
  BY <1>1 DEF FreeSegment
<1>4. closing' = [clear |-> <<>>, frees |-> e] /\ closing'.clear = <<>> /\ closing'.frees = e
  BY <1>1, <1>3 DEF IInv, SegTypeOK
<1>5. mpc = "idle" /\ ring = NoRing /\ taken = NoRing
  BY <1>1 DEF IInv, OneRing, NotClosing, NoRing
<1>6. Kept = f /\ Kept' = e
  BY <1>1, <1>3, <1>4, <1>5 DEF Kept
<1>7. Range(f) = {b} \cup Range(e) /\ IsInjective(e) /\ b \notin Range(e)
  BY <1>1, <1>2, <1>6, TakenFront DEF IInv, OnePlace
<1>8. b \notin Range(free) /\ b \notin app /\ b \notin Range(ring) /\ Range(closing.clear) = {}
  BY <1>1, <1>5, <1>6, <1>7, EmptyDistinct DEF IInv, OnePlace, NoRing
<1>9. /\ free' \in Seq(Bufs) /\ IsInjective(free') /\ Range(free') = {b} \cup Range(free)
      /\ hdr' \in [Bufs -> Headers]
      /\ Magics' /\ \A p \in RingProcs : HandleOK(p)'
      /\ RoleHasRing' /\ RolesCounted' /\ OneConsumer' /\ Checkpoint'
  BY <1>1, <1>2, <1>3, <1>4, <1>5, <1>7, <1>8, PushKeeps
<1>10. SegTypeOK' /\ OneRing'
  BY <1>3, <1>4, <1>5, <1>9 DEF IInv, SegTypeOK, OneRing
<1>11. OnePlace'
  BY <1>3, <1>6, <1>7, <1>8, <1>9 DEF IInv, OnePlace
<1> QED BY <1>9, <1>10, <1>11 DEF IInv

\* init that ran out of buffers gives back what it took.
LEMMA GiveBackStep ==
    ASSUME IInv, GiveBack
    PROVE  IInv'
<1>1. mpc \in {"taking", "giving"} /\ UNCHANGED <<uses, app, unseen, ring, held, closing, read>>
  BY DEF GiveBack
<1>2. /\ ring = NoRing /\ closing = NotClosing /\ Kept = taken /\ taken \in Seq(Bufs) /\ unseen = {}
      /\ closing.frees = <<>> /\ closing.clear = <<>>
  BY <1>1 DEF IInv, SegTypeOK, OneRing, Kept, NotClosing, NoRing
<1>3. CASE taken = NoRing
  <2>1. mpc' = "idle" /\ ask' = NoAsk /\ UNCHANGED <<free, hdr, taken>>
    BY <1>3 DEF GiveBack
  <2>2. SegTypeOK' /\ OneRing'
    BY <1>1, <1>2, <1>3, <2>1 DEF IInv, SegTypeOK, OneRing
  <2>3. Kept' = taken
    BY <1>1, <1>2, <1>3, <2>1 DEF Kept, NoRing
  <2>4. OnePlace'
    BY <1>1, <1>2, <2>1, <2>3 DEF IInv, OnePlace
  <2>5. Magics'
    BY <1>1, <1>2, <2>1 DEF IInv, Magics
  <2>6. \A p \in RingProcs : HandleOK(p)'
    BY <1>1, <1>2, <2>1 DEF IInv, HandleOK, Current, Block
  <2>7. RoleHasRing' /\ RolesCounted' /\ OneConsumer' /\ Checkpoint'
    BY <1>1, <1>2, RolesFrame
  <2> QED BY <2>2, <2>4, <2>5, <2>6, <2>7 DEF IInv
<1>4. CASE taken # NoRing
  <2>1. PICK b \in Bufs, e \in Seq(Bufs) : b = Head(taken) /\ e = Tail(taken)
    BY <1>2, <1>4, TakenFront DEF NoRing
  <2>2. mpc' = "giving" /\ Push(b) /\ taken' = e /\ UNCHANGED ask
    BY <1>4, <2>1 DEF GiveBack
  <2>3. Range(taken) = {b} \cup Range(e) /\ IsInjective(e) /\ b \notin Range(e)
    BY <1>2, <1>4, <2>1, TakenFront DEF IInv, OnePlace, NoRing
  <2>4. b \notin Range(free) /\ b \notin app /\ b \notin Range(ring) /\ Range(closing.clear) = {}
    BY <1>2, <2>3, EmptyDistinct DEF IInv, OnePlace, NoRing
  <2>5. /\ free' \in Seq(Bufs) /\ IsInjective(free') /\ Range(free') = {b} \cup Range(free)
        /\ hdr' \in [Bufs -> Headers]
        /\ Magics' /\ \A p \in RingProcs : HandleOK(p)'
        /\ RoleHasRing' /\ RolesCounted' /\ OneConsumer' /\ Checkpoint'
    BY <1>1, <1>2, <2>2, <2>4, PushKeeps
  <2>6. SegTypeOK' /\ OneRing'
    BY <1>1, <1>2, <2>2, <2>5 DEF IInv, SegTypeOK, OneRing
  <2>7. Kept' = e
    BY <2>2 DEF Kept
  <2>8. OnePlace'
    BY <1>1, <1>2, <2>3, <2>4, <2>5, <2>7 DEF IInv, OnePlace
  <2> QED BY <2>5, <2>6, <2>8 DEF IInv
<1> QED BY <1>3, <1>4

-----------------------------------------------------------------------------
(* The ring closed.                                                        *)

\* The ring is closed when its roles word counts nobody: so nobody has a role.
LEMMA ReleaseRingStep ==
    ASSUME IInv, NEW p \in RingProcs, NEW v, ReleaseRing(p, v)
    PROVE  IInv'
<1>1. PICK b \in Bufs, g \in Headers, j \in Handles :
        /\ b = ring[1] /\ b = Block(p) /\ ring # NoRing /\ mpc = "idle"
        /\ held[p].segs = ring /\ Ready(p) /\ g = hdr[b] /\ j = held[p]
  BY RoleParts DEF ReleaseRing
<1>2. PICK h : h = [g EXCEPT !.closed = TRUE]
  OBVIOUS
<1>3. h \in Headers /\ h.closed /\ h.magic = g.magic
  BY <1>2 DEF Headers
<1>4. g.magic = "ring" /\ g.table = ring
  BY <1>1 DEF IInv, HandleOK, Magics, Ready, Current
<1>5. /\ hdr' = [hdr EXCEPT ![b] = h] /\ held' = [held EXCEPT ![p] = NoHandle]
      /\ closing' = [clear |-> ring, frees |-> ring] /\ ring' = NoRing /\ read' = 0
      /\ UNCHANGED <<free, uses, app, mpc, ask, taken, unseen>>
      /\ ~g.consumer /\ g.producers = 0
  BY <1>1, <1>2, <1>4 DEF ReleaseRing
<1>6. hdr' \in [Bufs -> Headers] /\ hdr'[b] = h /\ \A c \in Bufs \ {b} : hdr'[c] = hdr[c]
  BY <1>3, <1>5 DEF IInv, SegTypeOK
<1>7. NoHandle \in Handles /\ ~NoHandle.producer /\ NoHandle.consumer = "none" /\ NoHandle.segs = NoRing
  BY DEF NoHandle, Handles, NoRing, Modes, Wakes
<1>8. /\ held' \in [RingProcs -> Handles] /\ held'[p] = NoHandle
      /\ \A q \in RingProcs \ {p} : held'[q] = held[q]
  BY <1>5, <1>7 DEF IInv, SegTypeOK
<1>9. \A q \in RingProcs : ~HasRole(q)
  <2>1. IsFiniteSet(Producers)
    BY LifeAssumption, FS_Subset DEF Producers
  <2>2. Cardinality(Producers) = 0 /\ \A q \in RingProcs : held[q].consumer = "none"
    BY <1>1, <1>5 DEF IInv, RolesCounted
  <2>3. Producers = {}
    BY <2>1, <2>2, FS_EmptySet
  <2> QED BY <2>2, <2>3 DEF HasRole, Producers
<1>10. \A q \in RingProcs : ~held'[q].producer /\ held'[q].consumer = "none"
  BY <1>7, <1>8, <1>9 DEF HasRole
<1>11. ring \in Seq(Bufs) /\ closing'.clear = ring /\ closing'.frees = ring
  BY <1>5 DEF IInv, SegTypeOK
<1>12. SegTypeOK'
  <2>1. <<>> \in Seq(Bufs)
    OBVIOUS
  <2> QED BY <1>5, <1>6, <1>8, <1>11, <2>1 DEF IInv, SegTypeOK, NoRing
<1>13. OneRing'
  BY <1>1, <1>5 DEF IInv, OneRing
<1>14. OnePlace'
  <2>1. Kept = ring /\ Kept' = ring
    BY <1>1, <1>5, <1>11 DEF Kept
  <2> QED BY <1>5, <2>1 DEF IInv, OnePlace
<1>15. closing.clear = <<>> /\ closing.frees = <<>>
  BY <1>1 DEF IInv, OneRing, NotClosing, NoRing
<1>16. Magics'
  <2>1. \A c \in Bufs : hdr'[c].magic = hdr[c].magic
    BY <1>1, <1>3, <1>6
  <2>2. \A c \in Bufs : hdr[c].magic = "ring" => c \in Range(ring)
    BY <1>15, EmptyDistinct DEF IInv, Magics
  <2> QED BY <1>5, <1>11, <2>1, <2>2 DEF Magics
<1>17. ASSUME NEW q \in RingProcs PROVE HandleOK(q)'
  <2>1. CASE q = p
    BY <1>7, <1>8, <2>1 DEF HandleOK
  <2>2. CASE q # p
    <3>1. SUFFICES ASSUME held[q].segs # NoRing PROVE HandleOK(q)'
      BY <1>8, <2>2 DEF HandleOK
    <3>2. held'[q] = held[q] /\ HandleOK(q) /\ Block(q)' = Block(q) /\ (Current(q)' <=> Current(q))
      BY <1>5, <1>8, <2>2 DEF IInv, Block, Current
    <3>3. PICK c \in Bufs : c = Block(q)
      BY <3>1, FirstOfRing DEF IInv, SegTypeOK, Handles, Block
    <3>4. ASSUME Current(q) PROVE hdr'[c].closed /\ c \in Range(free) \cup Range(ring)
      <4>1. CASE c = b
        BY <1>1, <1>3, <1>6, <4>1, RingIsKept
      <4>2. CASE c # b
        <5>1. hdr[c].closed /\ c \in Range(free) \cup Range(closing.frees)
          BY <1>1, <3>1, <3>2, <3>3, <3>4, <4>2 DEF HandleOK
        <5> QED BY <1>6, <1>15, <4>2, <5>1, EmptyDistinct
      <4> QED BY <4>1, <4>2
    <3> QED BY <1>5, <1>11, <3>1, <3>2, <3>3, <3>4 DEF HandleOK
  <2> QED BY <2>1, <2>2
<1>18. RoleHasRing' /\ RolesCounted' /\ OneConsumer' /\ Checkpoint'
  BY <1>5, <1>10 DEF RoleHasRing, HasRole, RolesCounted, OneConsumer, Checkpoint, ConsumerResumes
<1> QED BY <1>12, <1>13, <1>14, <1>16, <1>17, <1>18 DEF IInv

\* The magics of a closed ring go before any of its buffers is freed.
LEMMA ClearMagicStep ==
    ASSUME IInv, ClearMagic
    PROVE  IInv'
<1>1. PICK c \in Seq(Bufs), f \in Seq(Bufs), e \in Seq(Bufs) :
        c = closing.clear /\ c # <<>> /\ e = Tail(c) /\ f = closing.frees
  BY TakenFront DEF ClearMagic, IInv, SegTypeOK, NoRing
<1>2. PICK b \in Bufs : b = Head(c) /\ hdr' = [hdr EXCEPT ![b].magic = "none"]
  BY <1>1, TakenFront DEF ClearMagic
<1>3. /\ closing' = [closing EXCEPT !.clear = e]
      /\ UNCHANGED <<free, uses, app, mpc, ask, taken, unseen, ring, held, read>>
  BY <1>1 DEF ClearMagic
<1>4. closing' = [clear |-> e, frees |-> f] /\ closing'.clear = e /\ closing'.frees = f
  BY <1>1, <1>3 DEF IInv, SegTypeOK
<1>5. mpc = "idle" /\ ring = NoRing /\ taken = NoRing
  BY <1>1 DEF IInv, OneRing, NotClosing, NoRing
<1>6. Range(c) = {b} \cup Range(e)
  BY <1>1, <1>2, TakenFront
<1>7. /\ hdr' \in [Bufs -> Headers] /\ hdr'[b].magic = "none"
      /\ \A d \in Bufs \ {b} : hdr'[d] = hdr[d]
      /\ \A d \in Bufs : hdr'[d].closed = hdr[d].closed
  BY <1>2, MagicWritten
<1>8. SegTypeOK' /\ OneRing'
  BY <1>3, <1>4, <1>5, <1>7 DEF IInv, SegTypeOK, OneRing
<1>9. OnePlace'
  <2>1. Kept = f /\ Kept' = f
    BY <1>1, <1>3, <1>4, <1>5 DEF Kept
  <2> QED BY <1>3, <2>1 DEF IInv, OnePlace
<1>10. Magics'
  <2>1. ASSUME NEW d \in Bufs, hdr'[d].magic = "ring" PROVE d \in Range(e)
    <3>1. d # b /\ hdr[d].magic = "ring"
      BY <1>7, <2>1
    <3>2. d \in Range(ring) \cup Range(c)
      BY <1>1, <3>1 DEF IInv, Magics
    <3> QED BY <1>5, <1>6, <3>1, <3>2, EmptyDistinct DEF NoRing
  <2>2. Range(c) \subseteq Range(f)
    BY <1>1 DEF IInv, Magics
  <2> QED BY <1>3, <1>4, <1>5, <1>6, <2>1, <2>2 DEF Magics
<1>11. ASSUME NEW p \in RingProcs PROVE HandleOK(p)'
  <2>1. SUFFICES ASSUME held[p].segs # NoRing PROVE HandleOK(p)'
    BY <1>3 DEF HandleOK
  <2>2. PICK d \in Bufs : d = Block(p)
    BY <2>1, FirstOfRing DEF IInv, SegTypeOK, Handles, Block
  <2>3. HandleOK(p) /\ Block(p)' = d /\ (Current(p)' <=> Current(p)) /\ hdr'[d].closed = hdr[d].closed
    BY <1>3, <1>7, <2>2 DEF IInv, Block, Current
  <2> QED BY <1>1, <1>3, <1>4, <1>5, <2>1, <2>2, <2>3 DEF HandleOK
<1>12. RoleHasRing' /\ RolesCounted' /\ OneConsumer' /\ Checkpoint'
  BY <1>3, <1>5, RolesFrame
<1> QED BY <1>8, <1>9, <1>10, <1>11, <1>12 DEF IInv

-----------------------------------------------------------------------------
(* init.                                                                   *)

\* A ring that fits has a segment.
LEMMA FitsHasSegments ==
    ASSUME NEW a, NEW v \in {"spsc3", "mpsc2", "spsc4", "mpsc3", "mpsc4"}, Fits(v, a)
    PROVE  a.n \in Nat \ {0}
<1>1. validate_geometry3(a) \/ validate_geometry4(a)
  BY Zenon DEF Fits
<1>2. a.n \in 1 .. MAX_SEGMENTS
  BY <1>1 DEF validate_geometry3, validate_geometry4
<1> QED BY <1>2, LifeAssumption

\* init starts, with nothing taken.
LEMMA StartRingStep ==
    ASSUME IInv, NEW a \in Asks, init_ring(a)
    PROVE  IInv'
<1>1. PICK v \in {"spsc3", "mpsc2", "spsc4", "mpsc3", "mpsc4"} : StartRing(v, a)
  BY DEF init_ring, init_spsc3, init_mpsc2, init_spsc4, init_mpsc3, init_mpsc4
<1>2. /\ mpc = "idle" /\ ring = NoRing /\ closing = NotClosing /\ mpc' = "taking" /\ ask' = a
      /\ UNCHANGED <<free, uses, app, hdr, taken, unseen, ring, held, closing, read>>
      /\ Fits(v, a)
  BY <1>1 DEF StartRing
<1>3. a.n \in Nat \ {0}
  BY <1>2, FitsHasSegments
<1>4. taken = <<>> /\ closing.frees = <<>> /\ unseen = {} /\ Len(taken) = 0
  BY <1>2 DEF IInv, OneRing, NotClosing, NoRing
<1>5. SegTypeOK'
  BY <1>2 DEF IInv, SegTypeOK
<1>6. OneRing'
  BY <1>2, <1>3, <1>4 DEF OneRing
<1>7. OnePlace'
  <2>1. Kept = <<>> /\ Kept' = <<>>
    BY <1>2, <1>4 DEF Kept
  <2> QED BY <1>2, <2>1 DEF IInv, OnePlace
<1>8. Magics'
  BY <1>2 DEF IInv, Magics
<1>9. \A p \in RingProcs : HandleOK(p)'
  BY <1>2 DEF IInv, HandleOK, Current, Block
<1>10. RoleHasRing' /\ RolesCounted' /\ OneConsumer' /\ Checkpoint'
  BY <1>2, RolesFrame
<1> QED BY <1>5, <1>6, <1>7, <1>8, <1>9, <1>10 DEF IInv

\* While init works nobody has a role.
LEMMA NoRolesInInit ==
    ASSUME IInv, mpc # "idle"
    PROVE  /\ \A p \in RingProcs : ~HasRole(p) /\ ~held[p].producer /\ held[p].consumer = "none"
           /\ Cardinality(Producers) = 0
<1>1. \A p \in RingProcs : ~HasRole(p)
  BY Holder
<1>2. Producers = {}
  BY <1>1 DEF HasRole, Producers
<1> QED BY <1>1, <1>2, FS_EmptySet DEF HasRole

\* The segments with a magic are counted.
LEMMA WrittenIs ==
    ASSUME SegTypeOK, NEW n \in 0 .. Len(taken),
           \A i \in DOMAIN taken : hdr[taken[i]].magic = "ring" <=> i <= n
    PROVE  Written = n
<1>1. DOMAIN taken = 1 .. Len(taken) /\ Len(taken) \in Nat
  BY DEF SegTypeOK
<1>2. {i \in DOMAIN taken : hdr[taken[i]].magic = "ring"} = 1 .. n
  BY <1>1
<1>3. Cardinality(1 .. n) = n
  BY FS_Interval
<1> QED BY <1>2, <1>3 DEF Written

\* A handle made while init works is attaching, to the block; the others are
\* of closed rings, whose segments are free.
LEMMA HandlesInInit ==
    ASSUME IInv, mpc # "idle", NEW p \in RingProcs, held[p].segs # NoRing, Current(p)
    PROVE  /\ held[p].use <= uses[Block(p)] /\ Block(p) \in Bufs
           /\ \/ /\ ring # NoRing /\ Block(p) = ring[1] /\ hdr[ring[1]].magic = "ring"
                 /\ held[p].attaching
              \/ /\ ~(ring # NoRing /\ Block(p) = ring[1])
                 /\ Block(p) \in Range(free) /\ Block(p) \notin Range(taken) /\ hdr[Block(p)].closed
<1>1. HandleOK(p) /\ Block(p) \in Bufs
  BY FirstOfRing DEF IInv, SegTypeOK, Handles, Block
<1>2. CASE ring # NoRing /\ Block(p) = ring[1]
  BY <1>1, <1>2 DEF HandleOK
<1>3. CASE ~(ring # NoRing /\ Block(p) = ring[1])
  <2>1. closing.frees = <<>> /\ Kept = taken
    BY DEF IInv, OneRing, NotClosing, NoRing, Kept
  <2>2. hdr[Block(p)].closed /\ Block(p) \in Range(free)
    BY <1>1, <1>3, <2>1, EmptyDistinct DEF HandleOK
  <2>3. Block(p) \notin Range(taken)
    BY <2>1, <2>2 DEF IInv, OnePlace
  <2> QED BY <1>1, <1>3, <2>2, <2>3 DEF HandleOK
<1> QED BY <1>2, <1>3

\* What is written when the next header is zeroed.
LEMMA WriteSegmentPoint ==
    ASSUME IInv, WriteSegment
    PROVE  \E n \in Nat, l \in Nat, b \in Bufs :
             /\ l = Len(taken) /\ n < l /\ DOMAIN taken = 1 .. l /\ b = taken[n + 1] /\ Written = n
             /\ \A i \in 1 .. l : taken[i] \in Bufs
             /\ \A i \in 1 .. l : hdr[taken[i]].magic = "ring" <=> i <= n
             /\ \A i \in 1 .. l : i <= n => hdr[taken[i]].slots
             /\ \A c \in Bufs : hdr[c].magic = "ring" => c \in Range(taken)
             /\ n > 0 => /\ ring = taken /\ read = 0 /\ hdr[ring[1]].table = ring
                         /\ hdr[ring[1]].ask = ask
             /\ ring \in {NoRing, taken} /\ l = ask.n /\ mpc # "idle"
<1>1. mpc \in {"taking", "writing"} /\ taken \in Seq(Bufs) /\ ask.n \in Nat \ {0}
  BY DEF WriteSegment, IInv, SegTypeOK, OneRing
<1>2. PICK l \in Nat \ {0} : l = Len(taken) /\ l = ask.n /\ DOMAIN taken = 1 .. l
  BY <1>1 DEF WriteSegment, IInv, OneRing
<1>3. \A i \in 1 .. l : taken[i] \in Bufs
  BY <1>1, <1>2
<1>4. closing.clear = <<>>
  BY <1>1 DEF IInv, OneRing, NotClosing, NoRing
<1>5. \A c \in Bufs : hdr[c].magic = "ring" => c \in Range(ring)
  BY <1>4, EmptyDistinct DEF IInv, Magics
<1>6. CASE mpc = "taking"
  <2>1. ring = NoRing
    BY <1>6 DEF IInv, OneRing
  <2>2. \A c \in Bufs : hdr[c].magic # "ring"
    BY <1>5, <2>1, EmptyDistinct DEF NoRing
  <2>3. \A i \in 1 .. l : ~(i <= 0) /\ hdr[taken[i]].magic # "ring"
    BY <1>3, <2>2
  <2>4. Written = 0
    BY <1>2, <2>3, WrittenIs DEF IInv
  <2>5. taken[0 + 1] \in Bufs
    BY <1>2, <1>3
  <2> QED BY <1>2, <1>3, <1>6, <2>1, <2>2, <2>3, <2>4, <2>5
<1>7. CASE mpc = "writing"
  <2>1. ring = taken /\ read = 0 /\ ring # NoRing
    BY <1>2, <1>7 DEF IInv, OneRing, NoRing
  <2>2. PICK n \in 0 .. l : Stored(n) /\ (n = l <=> mpc = "idle") /\ n > 0
    BY <1>2, <1>7, <2>1 DEF IInv, Magics
  <2>3. n < l /\ n \in Nat /\ n + 1 \in 1 .. l
    BY <1>7, <2>2
  <2>4. \A i \in 1 .. l : (hdr[taken[i]].magic = "ring" <=> i <= n) /\ (i <= n => hdr[taken[i]].slots)
    BY <1>2, <2>1, <2>2 DEF Stored
  <2>5. Written = n
    BY <1>2, <2>4, WrittenIs DEF IInv
  <2>6. hdr[ring[1]].magic = "ring"
    BY <2>1, <2>2, <2>4
  <2>7. hdr[ring[1]].table = ring /\ hdr[ring[1]].ask = ask
    BY <1>7, <2>1, <2>6 DEF IInv, Magics
  <2> QED BY <1>2, <1>3, <1>5, <1>7, <2>1, <2>3, <2>4, <2>5, <2>7
<1> QED BY <1>1, <1>6, <1>7

\* init zeroes the header of its next segment, whose magic was not stored yet.
LEMMA WriteSegmentStep ==
    ASSUME IInv, WriteSegment
    PROVE  IInv'
<1>1. PICK n \in Nat, l \in Nat, b \in Bufs :
        /\ l = Len(taken) /\ n < l /\ DOMAIN taken = 1 .. l /\ b = taken[n + 1] /\ Written = n
        /\ \A i \in 1 .. l : taken[i] \in Bufs
        /\ \A i \in 1 .. l : hdr[taken[i]].magic = "ring" <=> i <= n
        /\ \A i \in 1 .. l : i <= n => hdr[taken[i]].slots
        /\ \A c \in Bufs : hdr[c].magic = "ring" => c \in Range(taken)
        /\ n > 0 => /\ ring = taken /\ read = 0 /\ hdr[ring[1]].table = ring
                    /\ hdr[ring[1]].ask = ask
        /\ ring \in {NoRing, taken} /\ l = ask.n /\ mpc # "idle"
  BY WriteSegmentPoint
<1>2. PICK h \in Headers :
        /\ h = Header("none") /\ h.magic = "none" /\ ~h.closed /\ h.producers = 0
        /\ ~h.consumer /\ h.cons_pos = 0
  <2>1. Header("none") \in Headers
    BY DEF Header, Headers, NoRing
  <2>2. /\ Header("none").magic = "none" /\ ~Header("none").closed /\ Header("none").producers = 0
        /\ ~Header("none").consumer /\ Header("none").cons_pos = 0
    BY DEF Header
  <2> QED BY <2>1, <2>2
<1>3. /\ hdr' = [hdr EXCEPT ![b] = h] /\ mpc' = "storing" /\ unseen' = Parts /\ ring' = taken /\ read' = 0
      /\ UNCHANGED <<free, uses, app, ask, taken, held, closing>>
  BY <1>1, <1>2 DEF WriteSegment
<1>4. hdr' \in [Bufs -> Headers] /\ hdr'[b] = h /\ \A c \in Bufs \ {b} : hdr'[c] = hdr[c]
  BY <1>3 DEF IInv, SegTypeOK
<1>5. \A i \in 1 .. l : i # n + 1 => taken[i] \in Bufs \ {b} /\ hdr'[taken[i]] = hdr[taken[i]]
  <2>1. IsInjective(taken)
    BY <1>1 DEF IInv, OnePlace, Kept
  <2>2. n + 1 \in 1 .. l
    BY <1>1
  <2>3. \A i \in 1 .. l : i # n + 1 => taken[i] # b
    BY <1>1, <2>1, <2>2 DEF IsInjective
  <2> QED BY <1>1, <1>4, <2>3
<1>6. b \in Range(taken) /\ taken[1] \in Range(taken) /\ 1 \in 1 .. l /\ n + 1 \in 1 .. l
  <2>1. n + 1 \in 1 .. l /\ 1 \in 1 .. l
    BY <1>1
  <2> QED BY <1>1, <2>1 DEF Range
<1>7. SegTypeOK'
  BY <1>3, <1>4 DEF IInv, SegTypeOK
<1>8. OneRing'
  BY <1>1, <1>3 DEF IInv, OneRing
<1>9. OnePlace'
  <2>1. Kept' = Kept
    BY <1>1, <1>3 DEF Kept
  <2> QED BY <1>3, <2>1 DEF IInv, OnePlace
<1>10. Magics'
  <2>1. \A c \in Bufs : hdr'[c].magic = "ring" => c \in Range(taken)
    BY <1>1, <1>2, <1>4
  <2>2. Stored(n)'
    <3>1. ASSUME NEW i \in 1 .. l
          PROVE  (hdr'[taken[i]].magic = "ring" <=> i <= n) /\ (i <= n => hdr'[taken[i]].slots)
      <4>1. CASE i = n + 1
        BY <1>1, <1>2, <1>4, <4>1
      <4>2. CASE i # n + 1
        BY <1>1, <1>5, <4>2
      <4> QED BY <4>1, <4>2
    <3> QED BY <1>1, <1>3, <3>1 DEF Stored
  <2>3. Visible(n)'
    BY <1>3 DEF Visible, Parts
  <2>4. hdr'[taken[1]].magic = "ring" => hdr'[taken[1]].table = taken /\ hdr'[taken[1]].ask = ask
    <3>1. CASE n = 0
      BY <1>1, <1>2, <1>4, <3>1
    <3>2. CASE n # 0
      BY <1>1, <1>5, <1>6, <3>2
    <3> QED BY <3>1, <3>2
  <2>5. n \in 0 .. Len(taken) /\ n # Len(taken)
    BY <1>1
  <2> QED BY <1>3, <2>1, <2>2, <2>3, <2>4, <2>5 DEF Magics, IInv
<1>11. ASSUME NEW p \in RingProcs PROVE HandleOK(p)'
  <2>1. SUFFICES ASSUME held[p].segs # NoRing PROVE HandleOK(p)'
    BY <1>3 DEF HandleOK
  <2>2. Block(p)' = Block(p) /\ (Current(p)' <=> Current(p)) /\ held[p].use <= uses[Block(p)]
    BY <1>3, <2>1 DEF IInv, HandleOK, Block, Current
  <2>3. CASE ~Current(p)
    BY <1>3, <2>2, <2>3 DEF HandleOK
  <2>4. CASE Current(p)
    <3>1. Block(p) \in Bufs
      BY <1>1, <2>1, <2>4, HandlesInInit
    <3>2. CASE ring # NoRing /\ Block(p) = ring[1] /\ hdr[ring[1]].magic = "ring" /\ held[p].attaching
      <4>1. ring = taken /\ Block(p) = taken[1] /\ hdr'[taken[1]].magic = "ring"
        BY <1>1, <1>5, <1>6, <3>2
      <4> QED BY <1>3, <2>2, <3>2, <4>1 DEF HandleOK
    <3>3. CASE Block(p) \in Range(free) /\ Block(p) \notin Range(taken) /\ hdr[Block(p)].closed
      <4>1. Block(p) # b /\ Block(p) # taken[1] /\ hdr'[Block(p)] = hdr[Block(p)]
        BY <1>4, <1>6, <3>1, <3>3
      <4> QED BY <1>3, <2>2, <3>3, <4>1 DEF HandleOK
    <3> QED BY <1>1, <2>1, <2>4, <3>2, <3>3, HandlesInInit
  <2> QED BY <2>3, <2>4
<1>12. /\ \A p \in RingProcs : ~HasRole(p) /\ ~held[p].producer /\ held[p].consumer = "none"
       /\ Cardinality(Producers) = 0
  BY <1>1, NoRolesInInit
<1>13. /\ ~hdr'[taken[1]].closed /\ hdr'[taken[1]].producers = 0 /\ ~hdr'[taken[1]].consumer
       /\ hdr'[taken[1]].cons_pos = 0
  <2>1. CASE n = 0
    BY <1>1, <1>2, <1>4, <2>1
  <2>2. CASE n # 0
    <3>1. ring = taken /\ ring # NoRing /\ read = 0 /\ hdr'[taken[1]] = hdr[taken[1]]
      BY <1>1, <1>5, <1>6, <2>2 DEF NoRing, IInv, SegTypeOK
    <3> QED BY <1>12, <3>1 DEF IInv, RolesCounted, Checkpoint
  <2> QED BY <2>1, <2>2
<1>14. RoleHasRing' /\ OneConsumer'
  BY <1>3, <1>12 DEF RoleHasRing, HasRole, OneConsumer
<1>15. Producers' = Producers
  BY <1>3 DEF Producers
<1>16. RolesCounted' /\ Checkpoint'
  BY <1>3, <1>12, <1>13, <1>15 DEF RolesCounted, Checkpoint, ConsumerResumes
<1> QED BY <1>7, <1>8, <1>9, <1>10, <1>11, <1>14, <1>16 DEF IInv

\* Where init is while it stores the parts of a segment.
LEMMA StoringPoint ==
    ASSUME IInv, mpc = "storing"
    PROVE  \E n \in Nat, l \in Nat, b \in Bufs :
             /\ l = Len(taken) /\ n < l /\ DOMAIN taken = 1 .. l /\ l = ask.n
             /\ b = taken[n + 1] /\ Written = n /\ Stored(n) /\ Visible(n)
             /\ ring = taken /\ ring # NoRing /\ b \in Range(taken) /\ b \notin Range(free)
             /\ \A i \in 1 .. l : taken[i] \in Bufs /\ (i # n + 1 => taken[i] # b)
<1>1. /\ ring = taken /\ taken \in Seq(Bufs) /\ Len(taken) = ask.n /\ ask.n \in Nat \ {0}
      /\ Kept = taken
  BY DEF IInv, SegTypeOK, OneRing, Kept
<1>2. PICK l \in Nat \ {0} : l = Len(taken) /\ l = ask.n /\ DOMAIN taken = 1 .. l
  BY <1>1
<1>3. ring # NoRing
  BY <1>1, <1>2 DEF NoRing
<1>4. PICK n \in 0 .. l : Stored(n) /\ Visible(n) /\ (n = l <=> mpc = "idle")
  BY <1>1, <1>2, <1>3 DEF IInv, Magics
<1>5. n \in Nat /\ n < l /\ n + 1 \in 1 .. l
  BY <1>4
<1>6. Written = n
  BY <1>1, <1>2, <1>4, WrittenIs DEF Stored, IInv
<1>7. \A i \in 1 .. l : taken[i] \in Bufs /\ taken[i] \in Range(taken)
  BY <1>1, <1>2 DEF Range
<1>8. \A i \in 1 .. l : i # n + 1 => taken[i] # taken[n + 1]
  BY <1>1, <1>2, <1>5 DEF IInv, OnePlace, IsInjective
<1>9. Range(free) \cap Range(taken) = {}
  BY <1>1 DEF IInv, OnePlace
<1>10. PICK b \in Bufs : b = taken[n + 1] /\ b \in Range(taken) /\ b \notin Range(free)
  BY <1>5, <1>7, <1>9
<1> QED BY <1>1, <1>2, <1>3, <1>4, <1>5, <1>6, <1>7, <1>8, <1>10

\* A segment's header once a part of it is visible, as StorePart stores it.
EditedPart(g, k, a, t, part) ==
    CASE part = "info"  -> [g EXCEPT !.num = k - 1, !.ask = a]
      [] part = "table" -> [g EXCEPT !.table = IF k = 1 THEN t ELSE @]
      [] part = "slots" -> [g EXCEPT !.slots = TRUE]

\* A part of a segment becomes visible: only the words of that part change.
LEMMA EditPart ==
    ASSUME NEW g \in Headers, NEW k \in Nat, NEW a \in Asks \cup {NoAsk}, NEW t \in Seq(Bufs),
           NEW part \in Parts, NEW h, h = EditedPart(g, k, a, t, part)
    PROVE  /\ h \in Headers /\ h.magic = g.magic /\ h.closed = g.closed
           /\ h.producers = g.producers /\ h.consumer = g.consumer /\ h.cons_pos = g.cons_pos
           /\ h.slots = (part = "slots" \/ g.slots)
           /\ h.table = IF part = "table" /\ k = 1 THEN t ELSE g.table
           /\ h.ask = IF part = "info" THEN a ELSE g.ask
<1>1. CASE part = "info"
  <2>1. PICK m \in Int : m = k - 1
    OBVIOUS
  <2>2. h = [g EXCEPT !.num = m, !.ask = a]
    BY <1>1, <2>1 DEF EditedPart
  <2>3. /\ h \in Headers /\ h.magic = g.magic /\ h.closed = g.closed
        /\ h.producers = g.producers /\ h.consumer = g.consumer /\ h.cons_pos = g.cons_pos
        /\ h.slots = g.slots /\ h.table = g.table /\ h.ask = a /\ g.slots \in BOOLEAN
    BY <2>2 DEF Headers
  <2> QED BY <1>1, <2>3
<1>2. CASE part = "table"
  <2>1. PICK u \in Seq(Bufs) : u = IF k = 1 THEN t ELSE g.table
    BY DEF Headers
  <2>2. h = [g EXCEPT !.table = u]
    BY <1>2, <2>1 DEF EditedPart
  <2> QED BY <1>2, <2>1, <2>2 DEF Headers
<1>3. CASE part = "slots"
  <2>1. h = [g EXCEPT !.slots = TRUE]
    BY <1>3 DEF EditedPart
  <2> QED BY <1>3, <2>1 DEF Headers
<1> QED BY <1>1, <1>2, <1>3 DEF Parts

\* One of the stores that precede a segment's magic becomes visible.
LEMMA StorePartStep ==
    ASSUME IInv, NEW part \in Parts, StorePart(part)
    PROVE  IInv'
<1>1. PICK n \in Nat, l \in Nat, b \in Bufs :
        /\ l = Len(taken) /\ n < l /\ DOMAIN taken = 1 .. l /\ l = ask.n
        /\ b = taken[n + 1] /\ Written = n /\ Stored(n) /\ Visible(n)
        /\ ring = taken /\ ring # NoRing /\ b \in Range(taken) /\ b \notin Range(free)
        /\ \A i \in 1 .. l : taken[i] \in Bufs /\ (i # n + 1 => taken[i] # b)
  BY StoringPoint DEF StorePart
<1>2. PICK g \in Headers, k \in Nat : g = hdr[b] /\ k = n + 1
  BY DEF IInv, SegTypeOK
<1>3. PICK a \in Asks \cup {NoAsk}, t \in Seq(Bufs) : a = ask /\ t = taken
  BY DEF IInv, SegTypeOK
<1>4. PICK h : h = EditedPart(g, k, a, t, part)
  OBVIOUS
<1>5. /\ h \in Headers /\ h.magic = g.magic /\ h.closed = g.closed
      /\ h.producers = g.producers /\ h.consumer = g.consumer /\ h.cons_pos = g.cons_pos
      /\ h.slots = (part = "slots" \/ g.slots)
      /\ h.table = IF part = "table" /\ k = 1 THEN t ELSE g.table
      /\ h.ask = IF part = "info" THEN a ELSE g.ask
  BY <1>4, EditPart
<1>6. /\ hdr' = [hdr EXCEPT ![b] = h] /\ mpc = "storing" /\ unseen' = unseen \ {part}
      /\ UNCHANGED <<free, uses, app, mpc, ask, taken, ring, held, closing, read>>
  BY <1>1, <1>2, <1>3, <1>4 DEF StorePart, EditedPart
<1>7. hdr' \in [Bufs -> Headers] /\ hdr'[b] = h /\ \A c \in Bufs \ {b} : hdr'[c] = hdr[c]
  BY <1>5, <1>6 DEF IInv, SegTypeOK
<1>8. \A c \in Bufs : /\ hdr'[c].magic = hdr[c].magic /\ hdr'[c].closed = hdr[c].closed
                      /\ hdr'[c].producers = hdr[c].producers /\ hdr'[c].consumer = hdr[c].consumer
                      /\ hdr'[c].cons_pos = hdr[c].cons_pos
  BY <1>2, <1>5, <1>7
<1>9. taken[1] \in Bufs /\ (n # 0 => taken[1] # b) /\ (n = 0 => taken[1] = b)
  <2>1. 1 \in 1 .. l /\ (n # 0 => 1 # n + 1)
    BY <1>1
  <2> QED BY <1>1, <2>1
<1>10. SegTypeOK'
  BY <1>6, <1>7 DEF IInv, SegTypeOK
<1>11. OneRing'
  BY <1>6 DEF IInv, OneRing
<1>12. OnePlace'
  <2>1. Kept' = Kept
    BY <1>6 DEF Kept
  <2> QED BY <1>6, <2>1 DEF IInv, OnePlace
<1>13. Magics'
  <2>1. \A c \in Bufs : hdr'[c].magic = "ring" => c \in Range(ring) \cup Range(closing.clear)
    BY <1>8 DEF IInv, Magics
  <2>2. Stored(n)'
    <3>1. ASSUME NEW i \in 1 .. l
          PROVE  (hdr'[taken[i]].magic = "ring" <=> i <= n) /\ (i <= n => hdr'[taken[i]].slots)
      <4>1. (hdr[taken[i]].magic = "ring" <=> i <= n) /\ (i <= n => hdr[taken[i]].slots)
        BY <1>1 DEF Stored
      <4>2. i <= n => hdr'[taken[i]] = hdr[taken[i]]
        BY <1>1, <1>7
      <4> QED BY <1>1, <1>8, <4>1, <4>2
    <3> QED BY <1>1, <1>6, <3>1 DEF Stored
  <2>3. Visible(n)'
    <3>1. "slots" \notin unseen' => h.slots
      BY <1>1, <1>2, <1>5, <1>6 DEF Visible
    <3>2. n = 0 /\ "table" \notin unseen' => h.table = taken
      BY <1>1, <1>2, <1>3, <1>5, <1>6, <1>9 DEF Visible
    <3>3. n = 0 /\ "info" \notin unseen' => h.ask = ask
      BY <1>1, <1>2, <1>3, <1>5, <1>6, <1>9 DEF Visible
    <3> QED BY <1>1, <1>6, <1>7, <1>9, <3>1, <3>2, <3>3 DEF Visible
  <2>4. hdr'[taken[1]].magic = "ring" => hdr'[taken[1]].table = taken /\ hdr'[taken[1]].ask = ask
    <3>1. SUFFICES ASSUME hdr'[taken[1]].magic = "ring"
                   PROVE  hdr'[taken[1]].table = taken /\ hdr'[taken[1]].ask = ask
      OBVIOUS
    <3>2. hdr[taken[1]].magic = "ring"
      BY <1>8, <1>9, <3>1
    <3>3. 1 <= n
      BY <1>1, <3>2 DEF Stored
    <3>4. hdr'[taken[1]] = hdr[taken[1]]
      BY <1>7, <1>9, <3>3
    <3> QED BY <1>1, <1>6, <3>2, <3>4 DEF IInv, Magics
  <2>5. n \in 0 .. Len(taken) /\ n # Len(taken)
    BY <1>1
  <2> QED BY <1>1, <1>6, <2>1, <2>2, <2>3, <2>4, <2>5 DEF Magics, IInv
<1>14. ASSUME NEW p \in RingProcs PROVE HandleOK(p)'
  <2>1. SUFFICES ASSUME held[p].segs # NoRing PROVE HandleOK(p)'
    BY <1>6 DEF HandleOK
  <2>2. Block(p)' = Block(p) /\ (Current(p)' <=> Current(p)) /\ held[p].use <= uses[Block(p)]
    BY <1>6, <2>1 DEF IInv, HandleOK, Block, Current
  <2>3. CASE ~Current(p)
    BY <1>6, <2>2, <2>3 DEF HandleOK
  <2>4. CASE Current(p)
    BY <1>1, <1>6, <1>8, <1>9, <2>1, <2>2, <2>4, HandlesInInit DEF HandleOK
  <2> QED BY <2>3, <2>4
<1>15. RoleHasRing' /\ RolesCounted' /\ OneConsumer' /\ Checkpoint'
  BY <1>1, <1>6, <1>8, <1>9, RolesFrame
<1> QED BY <1>10, <1>11, <1>12, <1>13, <1>14, <1>15 DEF IInv

\* A segment's magic is stored when all that precedes it is.
LEMMA StoreSegmentMagicStep ==
    ASSUME IInv, StoreSegmentMagic
    PROVE  IInv'
<1>1. PICK n \in Nat, l \in Nat, b \in Bufs :
        /\ l = Len(taken) /\ n < l /\ DOMAIN taken = 1 .. l /\ l = ask.n
        /\ b = taken[n + 1] /\ Written = n /\ Stored(n) /\ Visible(n)
        /\ ring = taken /\ ring # NoRing /\ b \in Range(taken) /\ b \notin Range(free)
        /\ \A i \in 1 .. l : taken[i] \in Bufs /\ (i # n + 1 => taken[i] # b)
  BY StoringPoint DEF StoreSegmentMagic
<1>2. /\ hdr' = [hdr EXCEPT ![b].magic = "ring"] /\ mpc = "storing" /\ unseen = {}
      /\ UNCHANGED <<free, uses, app, unseen, ring, closing, read>>
  BY <1>1 DEF StoreSegmentMagic
<1>3. /\ hdr' \in [Bufs -> Headers] /\ hdr'[b].magic = "ring"
      /\ \A c \in Bufs \ {b} : hdr'[c] = hdr[c]
      /\ \A c \in Bufs : /\ hdr'[c].ask = hdr[c].ask /\ hdr'[c].table = hdr[c].table
                         /\ hdr'[c].slots = hdr[c].slots /\ hdr'[c].closed = hdr[c].closed
                         /\ hdr'[c].producers = hdr[c].producers
                         /\ hdr'[c].consumer = hdr[c].consumer
                         /\ hdr'[c].cons_pos = hdr[c].cons_pos
  BY <1>2, MagicWritten
<1>4. taken[1] \in Bufs /\ (n # 0 => taken[1] # b) /\ (n = 0 => taken[1] = b) /\ n + 1 \in 1 .. l
  <2>1. 1 \in 1 .. l /\ (n # 0 => 1 # n + 1) /\ n + 1 \in 1 .. l
    BY <1>1
  <2> QED BY <1>1, <2>1
<1>5. Stored(n + 1)'
  <2>1. ASSUME NEW i \in 1 .. l
        PROVE  (hdr'[taken[i]].magic = "ring" <=> i <= n + 1) /\ (i <= n + 1 => hdr'[taken[i]].slots)
    <3>1. (hdr[taken[i]].magic = "ring" <=> i <= n) /\ (i <= n => hdr[taken[i]].slots)
      BY <1>1 DEF Stored
    <3>2. CASE i = n + 1
      <4>1. hdr[taken[i]].slots
        BY <1>1, <1>2, <3>2 DEF Visible
      <4> QED BY <1>1, <1>3, <3>2, <4>1
    <3>3. CASE i # n + 1
      <4>1. hdr'[taken[i]] = hdr[taken[i]]
        BY <1>1, <1>3, <3>3
      <4> QED BY <1>1, <3>1, <3>3, <4>1
    <3> QED BY <3>2, <3>3
  <2> QED BY <1>1, <1>2, <2>1 DEF Stored
<1>6. hdr'[taken[1]].magic = "ring" /\ hdr'[taken[1]].table = taken /\ hdr'[taken[1]].ask = ask
  <2>1. hdr[taken[1]].table = taken /\ hdr[taken[1]].ask = ask
    <3>1. CASE n = 0
      BY <1>1, <1>2, <3>1 DEF Visible
    <3>2. CASE n # 0
      <4>1. hdr[taken[1]].magic = "ring"
        BY <1>1, <3>2 DEF Stored
      <4> QED BY <1>1, <1>2, <4>1 DEF IInv, Magics
    <3> QED BY <3>1, <3>2
  <2>2. hdr'[taken[1]].magic = "ring"
    BY <1>1, <1>2, <1>5 DEF Stored
  <2> QED BY <1>3, <1>4, <2>1, <2>2
<1>7. \A c \in Bufs : hdr'[c].magic = "ring" => c \in Range(ring) \cup Range(closing.clear)
  BY <1>1, <1>3 DEF IInv, Magics
<1>8. Kept = taken
  BY <1>2 DEF Kept
<1>9. ASSUME NEW p \in RingProcs, held[p].segs # NoRing, Current(p)
      PROVE  /\ held[p].use <= uses[Block(p)]
             /\ \/ Block(p) = ring[1] /\ held[p].attaching
                \/ Block(p) # ring[1] /\ Block(p) \in Range(free) /\ hdr'[Block(p)].closed
  BY <1>1, <1>2, <1>3, <1>9, HandlesInInit
<1>10. CASE n + 1 < ask.n
  <2>1. mpc' = "writing" /\ UNCHANGED <<ask, taken, held>>
    BY <1>1, <1>10 DEF StoreSegmentMagic
  <2>2. SegTypeOK' /\ OneRing'
    BY <1>2, <1>3, <2>1 DEF IInv, SegTypeOK, OneRing
  <2>3. OnePlace'
    <3>1. Kept' = taken
      BY <2>1 DEF Kept
    <3> QED BY <1>2, <1>8, <3>1 DEF IInv, OnePlace
  <2>4. Magics'
    <3>1. n + 1 \in 0 .. Len(taken) /\ n + 1 # Len(taken) /\ n + 1 > 0
      BY <1>1, <1>10
    <3> QED BY <1>1, <1>2, <1>5, <1>6, <1>7, <2>1, <3>1 DEF Magics, IInv
  <2>5. ASSUME NEW p \in RingProcs PROVE HandleOK(p)'
    <3>1. SUFFICES ASSUME held[p].segs # NoRing PROVE HandleOK(p)'
      BY <2>1 DEF HandleOK
    <3>2. Block(p)' = Block(p) /\ (Current(p)' <=> Current(p)) /\ held[p].use <= uses[Block(p)]
      BY <1>2, <2>1, <3>1 DEF IInv, HandleOK, Block, Current
    <3>3. CASE ~Current(p)
      BY <1>2, <2>1, <3>2, <3>3 DEF HandleOK
    <3>4. CASE Current(p)
      BY <1>1, <1>2, <1>6, <1>9, <2>1, <3>1, <3>2, <3>4 DEF HandleOK
    <3> QED BY <3>3, <3>4
  <2>6. RoleHasRing' /\ RolesCounted' /\ OneConsumer' /\ Checkpoint'
    BY <1>1, <1>2, <1>3, <1>4, <2>1, RolesFrame
  <2> QED BY <2>2, <2>3, <2>4, <2>5, <2>6 DEF IInv
<1>11. CASE ~(n + 1 < ask.n)
  <2>1. PICK u \in Nat : u = uses[taken[1]]
    BY <1>4 DEF IInv, SegTypeOK
  <2>2. PICK k : k = [NoHandle EXCEPT !.segs = taken, !.use = u, !.mode = ask.mode, !.wake = ask.wake]
    OBVIOUS
  <2>3. /\ k \in Handles /\ k.segs = taken /\ k.use = u /\ k.mode = ask.mode /\ k.wake = ask.wake
        /\ ~k.attaching /\ ~k.producer /\ k.consumer = "none"
    <3>1. ask.mode \in Modes /\ ask.wake \in Wakes /\ taken \in Seq(Bufs)
      BY DEF IInv, SegTypeOK, NoAsk, Modes, Wakes
    <3>2. k = [segs |-> taken, use |-> u, attaching |-> FALSE, mode |-> ask.mode, wake |-> ask.wake,
               producer |-> FALSE, consumer |-> "none", pos |-> 0]
      BY <2>2 DEF NoHandle
    <3> QED BY <3>1, <3>2 DEF Handles
  <2>4. /\ mpc' = "idle" /\ ask' = NoAsk /\ taken' = NoRing
        /\ held' = [held EXCEPT ![Creator] = k]
    BY <1>1, <1>11, <2>1, <2>2 DEF StoreSegmentMagic
  <2>5. /\ held' \in [RingProcs -> Handles] /\ held'[Creator] = k
        /\ \A q \in RingProcs \ {Creator} : held'[q] = held[q]
    BY <2>3, <2>4, LifeAssumption DEF IInv, SegTypeOK
  <2>6. SegTypeOK' /\ OneRing'
    <3>1. <<>> \in Seq(Bufs)
      OBVIOUS
    <3> QED BY <1>2, <1>3, <2>4, <2>5, <3>1 DEF IInv, SegTypeOK, OneRing, NoRing
  <2>7. OnePlace'
    <3>1. Kept' = taken
      BY <1>1, <1>2, <2>4 DEF Kept
    <3> QED BY <1>2, <1>8, <3>1 DEF IInv, OnePlace
  <2>8. Magics'
    <3>1. n + 1 \in 0 .. Len(taken) /\ n + 1 = Len(taken)
      BY <1>1, <1>11
    <3> QED BY <1>1, <1>2, <1>5, <1>6, <1>7, <2>4, <3>1 DEF Magics, IInv
  <2>9. ASSUME NEW p \in RingProcs PROVE HandleOK(p)'
    <3>1. CASE p = Creator
      <4>1. Block(p)' = ring[1] /\ uses'[ring[1]] = u
        BY <1>1, <1>2, <2>1, <2>3, <2>5, <3>1 DEF Block
      <4> QED BY <1>1, <1>2, <1>6, <2>3, <2>4, <2>5, <3>1, <4>1 DEF HandleOK
    <3>2. CASE p # Creator
      <4>1. held'[p] = held[p]
        BY <2>5, <3>2
      <4>2. SUFFICES ASSUME held[p].segs # NoRing PROVE HandleOK(p)'
        BY <4>1 DEF HandleOK
      <4>3. Block(p)' = Block(p) /\ (Current(p)' <=> Current(p)) /\ held[p].use <= uses[Block(p)]
        BY <1>2, <4>1, <4>2 DEF IInv, HandleOK, Block, Current
      <4>4. CASE ~Current(p)
        BY <1>2, <4>1, <4>3, <4>4 DEF HandleOK
      <4>5. CASE Current(p)
        BY <1>1, <1>2, <1>6, <1>9, <4>1, <4>2, <4>3, <4>5 DEF HandleOK
      <4> QED BY <4>4, <4>5
    <3> QED BY <3>1, <3>2
  <2>10. /\ \A p \in RingProcs : ~HasRole(p) /\ ~held[p].producer /\ held[p].consumer = "none"
         /\ Cardinality(Producers) = 0
    BY <1>2, NoRolesInInit
  <2>11. \A p \in RingProcs : ~held'[p].producer /\ held'[p].consumer = "none"
    BY <2>3, <2>5, <2>10
  <2>12. Producers' = Producers
    BY <2>10, <2>11 DEF Producers
  <2>13. RoleHasRing' /\ OneConsumer'
    BY <2>11 DEF RoleHasRing, HasRole, OneConsumer
  <2>14. RolesCounted' /\ Checkpoint'
    <3>1. /\ ~hdr[taken[1]].closed /\ hdr[taken[1]].producers = Cardinality(Producers)
          /\ ~hdr[taken[1]].consumer /\ hdr[taken[1]].cons_pos = read
      BY <1>1, <2>10 DEF IInv, RolesCounted, Checkpoint
    <3> QED BY <1>1, <1>2, <1>3, <1>4, <2>11, <2>12, <3>1
            DEF RolesCounted, Checkpoint, ConsumerResumes
  <2> QED BY <2>6, <2>7, <2>8, <2>9, <2>13, <2>14 DEF IInv
<1> QED BY <1>10, <1>11

-----------------------------------------------------------------------------
(* The theorems.                                                           *)

\* Every step of the second phase keeps the invariant.
LEMMA SegNextKeeps ==
    ASSUME IInv, SegNext
    PROVE  IInv'
<1>1. ASSUME NEW b \in Bufs, AppAlloc(b) \/ AppFree(b) \/ TakeSegment(b) PROVE IInv'
  BY <1>1, AppAllocStep, AppFreeStep, TakeSegmentStep
<1>2. ASSUME NEW a \in Asks, init_ring(a) PROVE IInv'
  BY <1>2, StartRingStep
<1>3. CASE GiveBack \/ WriteSegment \/ StoreSegmentMagic \/ ClearMagic \/ FreeSegment
  BY <1>3, GiveBackStep, WriteSegmentStep, StoreSegmentMagicStep, ClearMagicStep, FreeSegmentStep
<1>4. ASSUME NEW part \in Parts, StorePart(part) PROVE IInv'
  BY <1>4, StorePartStep
<1>5. ASSUME NEW p \in RingProcs,
             \/ attach_spsc4(p) \/ AttachSegments(p)
             \/ \E m \in {"single", "multi"} :
                  attach_mpsc3(p, m) \/ \E w \in {"spin", "futex"} : attach_mpsc4(p, m, w)
      PROVE  IInv'
  <2>1. "single" \in Modes /\ "multi" \in Modes /\ "spin" \in Wakes /\ "futex" \in Wakes
    BY DEF Modes, Wakes
  <2>2. CASE attach_spsc4(p)
    BY <2>1, <2>2, AttachBlockStep, Zenon DEF attach_spsc4
  <2>3. ASSUME NEW m \in {"single", "multi"}, attach_mpsc3(p, m) PROVE IInv'
    <3>1. m \in Modes
      BY DEF Modes
    <3> QED BY <2>1, <2>3, <3>1, AttachBlockStep, Zenon DEF attach_mpsc3
  <2>4. ASSUME NEW m \in {"single", "multi"}, NEW w \in {"spin", "futex"}, attach_mpsc4(p, m, w)
        PROVE  IInv'
    <3>1. m \in Modes /\ w \in Wakes
      BY DEF Modes, Wakes
    <3> QED BY <2>4, <3>1, AttachBlockStep, Zenon DEF attach_mpsc4
  <2> QED BY <1>5, <2>2, <2>3, <2>4, AttachSegmentsStep
<1>6. ASSUME NEW p \in RingProcs,
             \/ claim_producer3(p) \/ producer4(p) \/ ReleaseProducer(p)
             \/ claim_consumer3(p) \/ consumer4(p)
      PROVE  IInv'
  BY <1>6, ClaimProducerStep, ReleaseProducerStep, ClaimConsumerStep
     DEF claim_producer3, producer4, claim_consumer3, consumer4
<1>7. ASSUME NEW p \in RingProcs,
             load_consumer(p) \/ Consume(p) \/ store_consumer(p) \/ ReleaseConsumer(p) \/ DropHandle(p)
      PROVE  IInv'
  BY <1>7, LoadConsumerStep, ConsumeStep, StoreConsumerStep, ReleaseConsumerStep, DropHandleStep
<1>8. ASSUME NEW p \in RingProcs, release_ring3(p) \/ release_ring4(p) PROVE IInv'
  BY <1>8, ReleaseRingStep DEF release_ring3, release_ring4
<1> QED BY <1>1, <1>2, <1>3, <1>4, <1>5, <1>6, <1>7, <1>8 DEF SegNext

\* The invariant holds throughout both phases of the lifecycle.
THEOREM RingLifeInvariant == Spec => []IInv
<1>1. Init => IInv
  BY InitInvariant DEF Init
<1>2. IInv /\ [Next]_vars => IInv'
  <2>1. SUFFICES ASSUME IInv, [Next]_vars PROVE IInv'
    OBVIOUS
  <2>2. CASE SegNext
    BY <2>1, <2>2, SegNextKeeps
  <2>3. CASE UNCHANGED segVars
    <3>1. SegTypeOK' /\ OneRing' /\ OnePlace'
      BY <2>1, <2>3 DEF segVars, IInv, SegTypeOK, OneRing, OnePlace, Kept
    <3>2. Magics'
      BY <2>1, <2>3 DEF segVars, IInv, Magics, Stored, Visible
    <3>3. \A p \in RingProcs : HandleOK(p)'
      BY <2>1, <2>3 DEF segVars, IInv, HandleOK, Current, Block
    <3>4. RoleHasRing'
      BY <2>1, <2>3 DEF segVars, IInv, RoleHasRing, HasRole, Ready, Current
    <3>5. RolesCounted'
      <4>1. Producers' = Producers
        BY <2>3 DEF segVars, Producers
      <4> QED BY <2>1, <2>3, <4>1 DEF segVars, IInv, RolesCounted
    <3>6. OneConsumer' /\ Checkpoint'
      BY <2>1, <2>3 DEF segVars, IInv, OneConsumer, Checkpoint, ConsumerResumes
    <3> QED BY <3>1, <3>2, <3>3, <3>4, <3>5, <3>6 DEF IInv
  <2> QED BY <2>1, <2>2, <2>3 DEF Next, vars
<1> QED BY <1>1, <1>2, PTL DEF Spec

\* init that runs out of buffers, rings made and released again, and the
\* application's own allocations lose no buffer and free none twice.
THEOREM NoBufferLost == Spec => []BuffersConserved
<1>1. IInv => BuffersConserved
  BY PlacesConserve DEF IInv
<1> QED BY <1>1, RingLifeInvariant, PTL

\* Claims, releases, attaches during init and release_ring may interleave in any
\* way: no segment of a ring is closed or freed while a role of it is held, and
\* who finds a ring open has all of it, initialised.
THEOREM RolesKeepRing == Spec => []RoleKeepsRing
<1>1. IInv => RoleKeepsRing
  BY RolesKeep
<1> QED BY <1>1, RingLifeInvariant, PTL

\* A consumer's role handed from process to process goes on where it stopped.
THEOREM ConsumerHandover == Spec => []ConsumerResumes
<1>1. IInv => ConsumerResumes
  BY DEF IInv, Checkpoint
<1> QED BY <1>1, RingLifeInvariant, PTL

-----------------------------------------------------------------------------
(* The first phase: init of a flat region, and attach at any moment of it. *)

\* The words of a header, and what a handle keeps.
HeaderWords == {"magic", "layout", "line", "stacks", "size", "count", "words"}
HandleWords == {"pc", "kind", "line", "len", "geo"}

RegionTypeOK ==
    /\ ipc \in {"start", "storing", "done"} /\ todo \subseteq Fields
    /\ DOMAIN mem = HeaderWords
    /\ DOMAIN handle = Procs /\ \A p \in Procs : DOMAIN handle[p] = HandleWords

\* A store that is not outstanding has reached every process.
FieldsStored ==
    ipc # "start" => \A f \in Fields \ todo : mem[f] = Finished(kind, geo)[f]

\* The magic is the kind's from the end of init on, and not before.
MagicLast ==
    /\ ipc = "done" => todo = {}
    /\ ipc = "done" <=> mem.magic = kind

\* So who got past the magic came after init.
LookedAfter ==
    \A p \in Procs : handle[p].pc # "idle" => ipc = "done" /\ handle[p].kind = kind

RInv == RegionTypeOK /\ FieldsStored /\ MagicLast /\ LookedAfter /\ AttachedAgrees

\* A finished region's words agree with its geometry.
LEMMA FinishedWords ==
    ASSUME NEW k, NEW g
    PROVE  /\ DOMAIN Finished(k, g) = HeaderWords /\ Finished(k, g).magic = k
           /\ Finished(k, g).words = k /\ Finished(k, g).line = L
           /\ Finished(k, g).size = SizesOf(g) /\ Finished(k, g).count = CountsOf(g)
BY DEF Finished, HeaderWords

\* What attach reads from the sizes and counts of a geometry is that geometry.
LEMMA PairsAgree ==
    ASSUME NEW g, NEW h, h = Pairs(SizesOf(g), CountsOf(g))
    PROVE  SizesOf(h) = SizesOf(g) /\ CountsOf(h) = CountsOf(g)
<1>1. DOMAIN h = DOMAIN g
  BY DEF Pairs, SizesOf, CountsOf
<1>2. \A i \in DOMAIN g : h[i].size = g[i].size /\ h[i].count = g[i].count
  BY DEF Pairs, SizesOf, CountsOf
<1> QED BY <1>1, <1>2 DEF SizesOf, CountsOf

\* A region that was of another kind, or of none, and a finished pool.
LEMMA RegionStarts ==
    ASSUME Init
    PROVE  RInv
<1>1. CASE RegionInit
  <2>1. PICK g : mem = Blank \/ \E k \in {"spsc0", "pool0"} \ {kind} : mem = Finished(k, g)
    BY <1>1 DEF RegionInit
  <2>2. DOMAIN mem = HeaderWords /\ mem.magic # kind
    BY <1>1, <2>1, FinishedWords DEF Blank, HeaderWords, RegionInit, Flat, NoMagic
  <2>3. \A p \in Procs : DOMAIN handle[p] = HandleWords /\ handle[p].pc = "idle"
    BY <1>1 DEF RegionInit, Idle, HandleWords
  <2>4. ipc = "start" /\ todo = {} /\ DOMAIN handle = Procs
    BY <1>1 DEF RegionInit
  <2> QED BY <2>2, <2>3, <2>4
          DEF RInv, RegionTypeOK, FieldsStored, MagicLast, LookedAfter, AttachedAgrees, Attached
<1>2. CASE PoolReady
  <2>1. PICK g : mem = Finished("pool0", g) /\ geo = g /\ kind = "pool0" /\ ipc = "done" /\ todo = {}
                 /\ handle = [p \in Procs |-> [pc |-> "attached", kind |-> "pool0", line |-> L,
                                               len |-> region_size_pool0(g, L), geo |-> g]]
    BY <1>2 DEF PoolReady
  <2>2. DOMAIN handle = Procs /\ \A p \in Procs :
          /\ DOMAIN handle[p] = HandleWords /\ handle[p].kind = kind /\ handle[p].line = L
          /\ handle[p].geo = geo
    BY <2>1 DEF HandleWords
  <2>3. RegionTypeOK /\ FieldsStored /\ MagicLast /\ LookedAfter
    BY <2>1, <2>2, FinishedWords DEF RegionTypeOK, FieldsStored, MagicLast, LookedAfter
  <2>4. AttachedAgrees
    BY <2>1, <2>2, FinishedWords DEF AttachedAgrees, Attached
  <2> QED BY <2>3, <2>4 DEF RInv
<1> QED BY <1>1, <1>2 DEF Init

\* The creator's steps: nobody is past the magic yet.
LEMMA NobodyYet ==
    ASSUME RInv, ipc # "done"
    PROVE  Attached = {} /\ mem.magic # kind
BY DEF RInv, MagicLast, LookedAfter, Attached

\* init's checks passed.
LEMMA StartInitStep ==
    ASSUME RInv, NEW k, NEW g, StartInit(k, g)
    PROVE  RInv'
<1>1. /\ ipc = "start" /\ ipc' = "storing" /\ todo' = Fields
      /\ UNCHANGED <<kind, len, mem, handle>>
  BY DEF StartInit
<1>2. Attached = {} /\ Attached' = {} /\ mem.magic # kind
  BY <1>1, NobodyYet DEF Attached
<1> QED BY <1>1, <1>2 DEF RInv, RegionTypeOK, FieldsStored, MagicLast, LookedAfter, AttachedAgrees

\* A store becomes visible.
LEMMA StoreFieldStep ==
    ASSUME RInv, NEW f \in Fields, StoreField(f)
    PROVE  RInv'
<1>1. /\ ipc = "storing" /\ f \in todo /\ todo' = todo \ {f}
      /\ mem' = [mem EXCEPT ![f] = Finished(kind, geo)[f]]
      /\ UNCHANGED <<kind, len, ipc, geo, handle>>
  BY DEF StoreField
<1>2. Attached = {} /\ Attached' = {} /\ mem.magic # kind
  BY <1>1, NobodyYet DEF Attached
<1>3. f \in HeaderWords /\ f # "magic" /\ "magic" \in HeaderWords
  BY DEF HeaderWords, Fields
<1>4. /\ DOMAIN mem' = HeaderWords /\ mem'[f] = Finished(kind, geo)[f]
      /\ \A x \in HeaderWords \ {f} : mem'[x] = mem[x]
  BY <1>1, <1>3 DEF RInv, RegionTypeOK
<1>5. mem'.magic = mem.magic
  BY <1>3, <1>4
<1>6. FieldsStored'
  <2>1. \A x \in Fields \ todo' : mem'[x] = Finished(kind, geo)[x]
    BY <1>1, <1>4 DEF RInv, FieldsStored, Fields, HeaderWords
  <2> QED BY <1>1, <2>1 DEF FieldsStored, Finished
<1> QED BY <1>1, <1>2, <1>4, <1>5, <1>6
        DEF RInv, RegionTypeOK, MagicLast, LookedAfter, AttachedAgrees

\* The magic follows all of them.
LEMMA StoreMagicStep ==
    ASSUME RInv, StoreMagic
    PROVE  RInv'
<1>1. /\ ipc = "storing" /\ todo = {} /\ ipc' = "done"
      /\ mem' = [mem EXCEPT !["magic"] = kind]
      /\ UNCHANGED <<kind, len, geo, todo, handle>>
  BY DEF StoreMagic
<1>2. Attached = {} /\ Attached' = {}
  BY <1>1, NobodyYet DEF Attached
<1>3. /\ DOMAIN mem' = HeaderWords /\ mem'.magic = kind
      /\ \A x \in HeaderWords \ {"magic"} : mem'[x] = mem[x]
  BY <1>1 DEF RInv, RegionTypeOK, HeaderWords
<1>4. FieldsStored'
  <2>1. \A x \in Fields \ todo' : mem'[x] = Finished(kind, geo)[x]
    BY <1>1, <1>3 DEF RInv, FieldsStored, Fields, HeaderWords
  <2> QED BY <1>1, <2>1 DEF FieldsStored, Finished
<1>5. \A p \in Procs : handle[p].pc = "idle"
  BY <1>1 DEF RInv, LookedAfter
<1> QED BY <1>1, <1>2, <1>3, <1>4, <1>5
        DEF RInv, RegionTypeOK, MagicLast, LookedAfter, AttachedAgrees

\* An attacher's steps change its handle: idle, or one that agrees.
LEMMA AttacherStep ==
    ASSUME RInv, NEW p \in Procs, NEW h, handle' = [handle EXCEPT ![p] = h],
           UNCHANGED <<kind, len, ipc, geo, todo, mem>>, DOMAIN h = HandleWords,
           h.pc # "idle" => ipc = "done" /\ h.kind = kind,
           h.pc \in {"attached", "split"} =>
             /\ h.line = L /\ SizesOf(h.geo) = SizesOf(geo) /\ CountsOf(h.geo) = CountsOf(geo)
    PROVE  RInv'
<1>1. /\ DOMAIN handle' = Procs /\ handle'[p] = h
      /\ \A q \in Procs \ {p} : handle'[q] = handle[q]
  BY DEF RInv, RegionTypeOK
<1>2. RegionTypeOK' /\ FieldsStored' /\ MagicLast' /\ LookedAfter'
  BY <1>1 DEF RInv, RegionTypeOK, FieldsStored, MagicLast, LookedAfter, Finished
<1>3. ASSUME NEW q \in Attached'
      PROVE  /\ handle'[q].kind = kind /\ handle'[q].line = L
             /\ SizesOf(handle'[q].geo) = SizesOf(geo) /\ CountsOf(handle'[q].geo) = CountsOf(geo)
             /\ todo = {} /\ mem.words = kind
  <2>1. q \in Procs /\ handle'[q].pc \in {"attached", "split"}
    BY DEF Attached
  <2>2. CASE q = p
    <3>1. ipc = "done" /\ todo = {} /\ "words" \in Fields
      BY <1>1, <2>1, <2>2 DEF RInv, MagicLast, Fields
    <3>2. mem["words"] = Finished(kind, geo)["words"]
      BY <3>1 DEF RInv, FieldsStored
    <3> QED BY <1>1, <2>1, <2>2, <3>1, <3>2, FinishedWords
  <2>3. CASE q # p
    BY <1>1, <2>1, <2>3 DEF RInv, AttachedAgrees, Attached
  <2> QED BY <2>2, <2>3
<1>4. AttachedAgrees'
  BY <1>3 DEF AttachedAgrees, SizesOf, CountsOf
<1> QED BY <1>2, <1>4 DEF RInv

\* A magic of the kind is one that init stored.
LEMMA AttachMagicStep ==
    ASSUME RInv, NEW p \in Procs, NEW k, NEW n, NEW l, AttachMagic(p, k, n, l)
    PROVE  RInv'
<1>1. PICK h : h = [pc |-> "magic", kind |-> k, line |-> l, len |-> n, geo |-> NoGeo]
  OBVIOUS
<1>2. DOMAIN h = HandleWords /\ h.pc = "magic" /\ h.kind = k
  BY <1>1 DEF HandleWords
<1>3. ipc = "done" /\ k = kind
  BY DEF AttachMagic, RInv, MagicLast
<1>4. handle' = [handle EXCEPT ![p] = h] /\ UNCHANGED <<kind, len, ipc, geo, todo, mem>>
  BY <1>1 DEF AttachMagic
<1> QED BY <1>2, <1>3, <1>4, AttacherStep

\* The words attach checks are init's, whichever of its checks they pass.
LEMMA AttachFieldsStep ==
    ASSUME RInv, NEW p \in Procs, NEW ok \in BOOLEAN, handle[p].pc = "magic",
           ok => mem.line = handle[p].line,
           handle' = [handle EXCEPT ![p] =
                        IF ok THEN [handle[p] EXCEPT !.pc = "attached", !.geo = Pairs(mem.size, mem.count)]
                              ELSE Idle],
           UNCHANGED <<kind, len, ipc, geo, todo, mem>>
    PROVE  RInv'
<1>1. PICK j, g, h :
        /\ j = handle[p] /\ g = Pairs(mem.size, mem.count)
        /\ h = IF ok THEN [j EXCEPT !.pc = "attached", !.geo = g] ELSE Idle
        /\ handle' = [handle EXCEPT ![p] = h] /\ DOMAIN j = HandleWords
  BY DEF RInv, RegionTypeOK
<1>2. ipc = "done" /\ j.kind = kind
  BY <1>1 DEF RInv, LookedAfter
<1>3. CASE ~ok
  <2>1. DOMAIN h = HandleWords /\ h.pc = "idle"
    BY <1>1, <1>3 DEF Idle, HandleWords
  <2> QED BY <1>1, <2>1, AttacherStep
<1>4. CASE ok
  <2>1. h = [j EXCEPT !.pc = "attached", !.geo = g]
    BY <1>1, <1>4
  <2>2. DOMAIN h = HandleWords /\ h.geo = g /\ h.kind = j.kind /\ h.line = j.line
    BY <1>1, <2>1 DEF HandleWords
  <2>3. "size" \in Fields \ todo /\ "count" \in Fields \ todo /\ "line" \in Fields \ todo
    BY <1>2 DEF RInv, MagicLast, Fields
  <2>4. mem["size"] = SizesOf(geo) /\ mem["count"] = CountsOf(geo) /\ mem["line"] = L
    BY <1>2, <2>3, FinishedWords DEF RInv, FieldsStored
  <2>5. SizesOf(g) = SizesOf(geo) /\ CountsOf(g) = CountsOf(geo)
    BY <1>1, <2>4, PairsAgree
  <2> QED BY <1>1, <1>2, <1>4, <2>2, <2>4, <2>5, AttacherStep
<1> QED BY <1>3, <1>4

\* split keeps what attach found.
LEMMA SplitStep ==
    ASSUME RInv, NEW p \in Procs, NEW k, Split(p, k)
    PROVE  RInv'
<1>1. PICK j, h : j = handle[p] /\ h = [j EXCEPT !.pc = "split"] /\ DOMAIN j = HandleWords
  BY DEF RInv, RegionTypeOK
<1>2. /\ handle' = [handle EXCEPT ![p] = h] /\ j.pc = "attached"
      /\ UNCHANGED <<kind, len, ipc, geo, todo, mem>>
  BY <1>1 DEF Split
<1>3. DOMAIN h = HandleWords /\ h.kind = j.kind /\ h.line = j.line /\ h.geo = j.geo
  BY <1>1 DEF HandleWords
<1>4. p \in Attached /\ ipc = "done" /\ j.kind = kind
  BY <1>1, <1>2 DEF Attached, RInv, LookedAfter
<1>5. /\ h.line = L /\ SizesOf(h.geo) = SizesOf(geo) /\ CountsOf(h.geo) = CountsOf(geo)
  BY <1>1, <1>3, <1>4 DEF RInv, AttachedAgrees
<1> QED BY <1>2, <1>3, <1>4, <1>5, AttacherStep

\* Every step of the first phase keeps the invariant.
LEMMA RegionNextKeeps ==
    ASSUME RInv, RegionNext
    PROVE  RInv'
<1>1. ASSUME NEW g, init(g) PROVE RInv'
  <2>1. \E k, s : StartInit(k, s)
    BY <1>1 DEF init, init_spsc0, init_spsc1, init_spsc2, init_mpsc0, init_mpsc1, init_pool0, init_pool1
  <2> QED BY <2>1, StartInitStep
<1>2. ASSUME NEW f \in Fields, StoreField(f) PROVE RInv'
  BY <1>2, StoreFieldStep
<1>3. CASE StoreMagic
  BY <1>3, StoreMagicStep
<1>4. ASSUME NEW p \in Procs, NEW k, NEW n, NEW l, AttachMagic(p, k, n, l) PROVE RInv'
  BY <1>4, AttachMagicStep
<1>5. ASSUME NEW p \in Procs, attach(p) PROVE RInv'
  <2>1. PICK ok \in BOOLEAN :
          /\ handle[p].pc = "magic" /\ (ok => mem.line = handle[p].line)
          /\ handle' = [handle EXCEPT ![p] =
                         IF ok THEN [handle[p] EXCEPT !.pc = "attached", !.geo = Pairs(mem.size, mem.count)]
                               ELSE Idle]
          /\ UNCHANGED <<kind, len, ipc, geo, todo, mem>>
    <3>1. CASE attach_spsc0(p)
      BY <3>1 DEF attach_spsc0, AttachFields
    <3>2. CASE attach_spsc1(p)
      BY <3>2 DEF attach_spsc1, AttachFields
    <3>3. CASE attach_spsc2(p)
      BY <3>3 DEF attach_spsc2, AttachFields
    <3>4. CASE attach_mpsc0(p)
      BY <3>4 DEF attach_mpsc0, AttachFields
    <3>5. CASE attach_mpsc1(p)
      BY <3>5 DEF attach_mpsc1, AttachFields
    <3>6. CASE attach_pool0(p)
      BY <3>6 DEF attach_pool0, AttachFields
    <3>7. CASE attach_pool1(p)
      BY <3>7 DEF attach_pool1, AttachFields
    <3> QED BY <1>5, <3>1, <3>2, <3>3, <3>4, <3>5, <3>6, <3>7 DEF attach
  <2> QED BY <2>1, AttachFieldsStep
<1>6. ASSUME NEW p \in Procs, split(p) PROVE RInv'
  BY <1>6, SplitStep DEF split, split_spsc0, split_spsc1, split_spsc2, split_mpsc0, split_mpsc1
<1> QED BY <1>1, <1>2, <1>3, <1>4, <1>5, <1>6 DEF RegionNext

\* Whoever attaches to a region, of any kind, at any moment of init, finds the
\* kind, the line size and the geometry init asked for, and every word set.
THEOREM MagicIsLast == Spec => []AttachedAgrees
<1>1. Init => RInv
  BY RegionStarts
<1>2. RInv /\ [Next]_vars => RInv'
  <2>1. SUFFICES ASSUME RInv, [Next]_vars PROVE RInv'
    OBVIOUS
  <2>2. CASE RegionNext
    BY <2>1, <2>2, RegionNextKeeps
  <2>3. CASE UNCHANGED regionVars
    BY <2>1, <2>3 DEF regionVars, RInv, RegionTypeOK, FieldsStored, MagicLast, LookedAfter,
         AttachedAgrees, Attached, Finished, SizesOf, CountsOf
  <2> QED BY <2>1, <2>2, <2>3 DEF Next, vars
<1>3. RInv => AttachedAgrees
  BY DEF RInv
<1> QED BY <1>1, <1>2, <1>3, PTL DEF Spec

=============================================================================
