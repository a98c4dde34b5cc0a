----------------------------- MODULE RingLemmas -----------------------------
(***************************************************************************)
(* Facts that the rings' proofs cite.  Sequence words wrap at the range w  *)
(* of a word, and a position's slot is its remainder by the capacity m,    *)
(* which divides w: the first part is about remainders.  The refinement    *)
(* mappings build a queue from the slots one by one: the second part gives *)
(* Append and Tail element by element.                                     *)
(***************************************************************************)
EXTENDS Integers, SequenceTheorems, WellFoundedInduction, TLAPS

\* Division with remainder.
LEMMA ModDef ==
    ASSUME NEW d \in Nat \ {0}, NEW a \in Int
    PROVE  /\ a \div d \in Int
           /\ a % d \in 0 .. (d - 1)
           /\ a = (d * (a \div d)) + (a % d)
OBVIOUS

\* The same, with the quotient and the remainder named.
LEMMA ModSplit ==
    ASSUME NEW d \in Nat \ {0}, NEW a \in Int
    PROVE  \E q \in Int, r \in 0 .. (d - 1) : a = d * q + r /\ r = a % d
<1>1. /\ a \div d \in Int
      /\ a % d \in 0 .. (d - 1)
      /\ a = (d * (a \div d)) + (a % d)
  BY ModDef
<1> QED BY <1>1

\* Two different multiples of d are at least d apart.
LEMMA MultipleStep ==
    ASSUME NEW d \in Nat \ {0}, NEW q \in Int, NEW p \in Int, q < p
    PROVE  d * p >= d * q + d
<1>1. PICK e \in Nat \ {0} : p = q + e
  <2>1. p - q \in Nat \ {0} /\ p = q + (p - q)
    OBVIOUS
  <2> QED BY <2>1
<1>2. d * e >= d
  OBVIOUS
<1>3. d * p = d * q + d * e
  BY <1>1
<1> QED BY <1>2, <1>3

\* Quotient and remainder are unique.
LEMMA ModUnique ==
    ASSUME NEW d \in Nat \ {0}, NEW q \in Int, NEW p \in Int,
           NEW r \in 0 .. (d - 1), NEW s \in 0 .. (d - 1),
           d * q + r = d * p + s
    PROVE  q = p /\ r = s
<1>1. PICK m \in Int, n \in Int : m = d * q /\ n = d * p
  OBVIOUS
<1>2. m + r = n + s
  BY <1>1, Zenon
<1>3. ~(q < p)
  <2>1. SUFFICES ASSUME q < p PROVE FALSE
    OBVIOUS
  <2>2. n >= m + d
    BY <2>1, <1>1, MultipleStep
  <2> QED BY <2>2, <1>2
<1>4. ~(p < q)
  <2>1. SUFFICES ASSUME p < q PROVE FALSE
    OBVIOUS
  <2>2. m >= n + d
    BY <2>1, <1>1, MultipleStep
  <2> QED BY <2>2, <1>2
<1>5. q = p
  BY <1>3, <1>4
<1>6. m = n
  BY <1>1, <1>5, Zenon
<1> QED BY <1>2, <1>5, <1>6

\* The remainder of a number written as a multiple plus a rest.
LEMMA ModIs ==
    ASSUME NEW d \in Nat \ {0}, NEW a \in Int, NEW q \in Int,
           NEW r \in 0 .. (d - 1), a = d * q + r
    PROVE  a % d = r
<1>1. PICK p \in Int, s \in 0 .. (d - 1) : a = d * p + s /\ s = a % d
  BY ModSplit
<1>2. d * q + r = d * p + s
  BY <1>1
<1>3. r = s
  BY <1>2, ModUnique
<1> QED BY <1>1, <1>3

\* A number below d is its own remainder.
LEMMA ModSmall ==
    ASSUME NEW d \in Nat \ {0}, NEW a \in 0 .. (d - 1)
    PROVE  a % d = a
<1>1. a = d * 0 + a
  OBVIOUS
<1> QED BY <1>1, ModIs

\* Adding a multiple of d keeps the remainder.
LEMMA ModShift ==
    ASSUME NEW d \in Nat \ {0}, NEW a \in Int, NEW k \in Int
    PROVE  (a + d * k) % d = a % d
<1>1. PICK p \in Int, s \in 0 .. (d - 1) : a = d * p + s /\ s = a % d
  BY ModSplit
<1>2. a + d * k = d * (p + k) + s
  BY <1>1
<1>3. a + d * k \in Int /\ p + k \in Int
  BY <1>1
<1> QED BY <1>1, <1>2, <1>3, ModIs

\* A remainder may be taken early in a sum.
LEMMA ModAdd ==
    ASSUME NEW d \in Nat \ {0}, NEW a \in Int, NEW b \in Int
    PROVE  ((a % d) + b) % d = (a + b) % d
<1>1. PICK q \in Int, r \in 0 .. (d - 1) : a = d * q + r /\ r = a % d
  BY ModSplit
<1>2. PICK s \in Int : s = r + b
  OBVIOUS
<1>3. PICK m \in Int : m = d * q
  OBVIOUS
<1>4. a = m + r
  BY <1>1, <1>3, Zenon
<1>5. a + b = s + m
  BY <1>2, <1>4
<1>6. (s + d * q) % d = s % d
  BY ModShift
<1> QED BY <1>1, <1>2, <1>3, <1>5, <1>6, Zenon

\* A remainder may be taken early in a difference.
LEMMA ModSub ==
    ASSUME NEW d \in Nat \ {0}, NEW a \in Int, NEW b \in Int
    PROVE  (b - (a % d)) % d = (b - a) % d
<1>1. PICK q \in Int, r \in 0 .. (d - 1) : a = d * q + r /\ r = a % d
  BY ModSplit
<1>2. PICK s \in Int : s = b - a
  OBVIOUS
<1>3. PICK m \in Int : m = d * q
  OBVIOUS
<1>4. a = m + r
  BY <1>1, <1>3, Zenon
<1>5. b - r = s + m
  BY <1>2, <1>4
<1>6. (s + d * q) % d = s % d
  BY ModShift
<1> QED BY <1>1, <1>2, <1>3, <1>5, <1>6, Zenon

\* Numbers less than d apart with the same remainder are equal.
LEMMA ModInjective ==
    ASSUME NEW d \in Nat \ {0}, NEW a \in Int, NEW b \in Int,
           a <= b, b < a + d, a % d = b % d
    PROVE  a = b
<1>1. PICK q \in Int, r \in 0 .. (d - 1) : a = d * q + r /\ r = a % d
  BY ModSplit
<1>2. PICK p \in Int, s \in 0 .. (d - 1) : b = d * p + s /\ s = b % d
  BY ModSplit
<1>3. r = s
  BY <1>1, <1>2, Zenon
<1>4. PICK m \in Int, n \in Int : m = d * q /\ n = d * p
  OBVIOUS
<1>5. a = m + r /\ b = n + r
  BY <1>1, <1>2, <1>3, <1>4, Zenon
<1>6. ~(q < p)
  <2>1. SUFFICES ASSUME q < p PROVE FALSE
    OBVIOUS
  <2>2. n >= m + d
    BY <2>1, <1>4, MultipleStep
  <2> QED BY <2>2, <1>5
<1>7. ~(p < q)
  <2>1. SUFFICES ASSUME p < q PROVE FALSE
    OBVIOUS
  <2>2. m >= n + d
    BY <2>1, <1>4, MultipleStep
  <2> QED BY <2>2, <1>5
<1>8. q = p
  BY <1>6, <1>7
<1>9. m = n
  BY <1>4, <1>8, Zenon
<1> QED BY <1>5, <1>9, Zenon

\* Wrapping at a multiple of m does not change the slot.
LEMMA ModOfMod ==
    ASSUME NEW m \in Nat \ {0}, NEW w \in Nat \ {0}, w % m = 0, NEW a \in Int
    PROVE  (a % w) % m = a % m
<1>1. PICK q \in Int, s \in 0 .. (w - 1) : a = w * q + s /\ s = a % w
  BY ModSplit
<1>2. PICK k \in Int, z \in 0 .. (m - 1) : w = m * k + z /\ z = w % m
  BY ModSplit
<1>3. w = m * k
  BY <1>2
<1>4. PICK j \in Int : j = k * q
  OBVIOUS
<1>5. w * q = m * j
  BY <1>3, <1>4
<1>6. a = s + m * j
  <2>1. PICK n \in Int : n = w * q
    OBVIOUS
  <2>2. a = n + s
    BY <1>1, <2>1, Zenon
  <2>3. a = s + n
    BY <2>2
  <2> QED BY <2>1, <2>3, <1>5, Zenon
<1>7. s \in Int
  OBVIOUS
<1>8. (s + m * j) % m = s % m
  BY <1>7, ModShift
<1> QED BY <1>1, <1>6, <1>8

\* Different offsets below d from one base have different remainders.
LEMMA OffsetInjective ==
    ASSUME NEW d \in Nat \ {0}, NEW a \in Int,
           NEW i \in 0 .. (d - 1), NEW j \in 0 .. (d - 1), (a + i) % d = (a + j) % d
    PROVE  i = j
<1>1. PICK x \in Int, y \in Int : x = a + i /\ y = a + j
  OBVIOUS
<1>2. x % d = y % d
  BY <1>1, Zenon
<1>3. x < y + d /\ y < x + d
  BY <1>1
<1>4. x <= y => x = y
  BY <1>2, <1>3, ModInjective, Zenon
<1>5. y <= x => y = x
  BY <1>2, <1>3, ModInjective, Zenon
<1>6. x = y
  BY <1>4, <1>5
<1> QED BY <1>1, <1>6

\* A word is another word plus their distance.
LEMMA DistanceAdds ==
    ASSUME NEW w \in Nat \ {0}, NEW p \in 0 .. (w - 1), NEW c \in 0 .. (w - 1)
    PROVE  (c + ((p - c) % w)) % w = p
<1>1. PICK d \in Int : d = p - c
  OBVIOUS
<1>2. d % w \in 0 .. (w - 1)
  BY ModDef
<1>3. ((d % w) + c) % w = (d + c) % w
  <2>1. c \in Int
    OBVIOUS
  <2> QED BY <2>1, ModAdd, Zenon
<1>4. d + c = p /\ (d % w) + c = c + (d % w)
  BY <1>1, <1>2
<1>5. p % w = p
  BY ModSmall
<1> QED BY <1>1, <1>3, <1>4, <1>5, Zenon

\* Advancing the first of two words adds one to their distance, as long as
\* that stays below the range ...
LEMMA DistanceUp ==
    ASSUME NEW w \in Nat \ {0}, NEW p \in 0 .. (w - 1), NEW c \in 0 .. (w - 1),
           ((p - c) % w) + 1 < w
    PROVE  (((p + 1) % w) - c) % w = ((p - c) % w) + 1
<1>1. PICK d \in Int, q \in Int, e \in Int : d = p - c /\ q = p + 1 /\ e = 0 - c
  OBVIOUS
<1>2. d % w \in 0 .. (w - 1) /\ q % w \in 0 .. (w - 1)
  BY ModDef
<1>3. ((q % w) + e) % w = (q + e) % w /\ ((d % w) + 1) % w = (d + 1) % w
  <2>1. 1 \in Int
    OBVIOUS
  <2> QED BY <2>1, ModAdd, Zenon
<1>4. q + e = d + 1 /\ (q % w) + e = (q % w) - c
  BY <1>1, <1>2
<1>5. (d % w) + 1 \in 0 .. (w - 1)
  BY <1>1, <1>2
<1>6. ((d % w) + 1) % w = (d % w) + 1
  BY <1>5, ModSmall
<1> QED BY <1>1, <1>3, <1>4, <1>6, Zenon

\* ... and advancing the second takes one away, unless they are equal.
LEMMA DistanceDown ==
    ASSUME NEW w \in Nat \ {0}, NEW p \in 0 .. (w - 1), NEW c \in 0 .. (w - 1),
           (p - c) % w > 0
    PROVE  (p - ((c + 1) % w)) % w = ((p - c) % w) - 1
<1>1. PICK d \in Int, q \in Int : d = p - c /\ q = c + 1
  OBVIOUS
<1>2. d % w \in 0 .. (w - 1)
  BY ModDef
<1>3. (p - (q % w)) % w = (p - q) % w /\ ((d % w) + (-1)) % w = (d + (-1)) % w
  <2>1. p \in Int /\ -1 \in Int
    OBVIOUS
  <2> QED BY <2>1, ModSub, ModAdd, Zenon
<1>4. p - q = d + (-1) /\ (d % w) + (-1) = (d % w) - 1
  BY <1>1, <1>2
<1>5. (d % w) - 1 \in 0 .. (w - 1)
  BY <1>1, <1>2
<1>6. ((d % w) - 1) % w = (d % w) - 1
  BY <1>5, ModSmall
<1> QED BY <1>1, <1>3, <1>4, <1>6, Zenon

(* The window of m positions from a word r on.                             *)

\* They are words, and a word's slot does not depend on its wrapping.
LEMMA WindowWords ==
    ASSUME NEW w \in Nat \ {0}, NEW m \in Nat \ {0}, w % m = 0,
           NEW r \in 0 .. (w - 1), NEW k \in 0 .. m
    PROVE  (r + k) % w \in 0 .. (w - 1) /\ ((r + k) % w) % m \in 0 .. (m - 1)
<1>1. r + k \in Int
  OBVIOUS
<1>2. (r + k) % w \in 0 .. (w - 1) /\ (r + k) % m \in 0 .. (m - 1)
  BY <1>1, ModDef
<1>3. ((r + k) % w) % m = (r + k) % m
  BY <1>1, ModOfMod, Zenon
<1> QED BY <1>2, <1>3, Zenon

\* Each is in a slot of its own ...
LEMMA WindowInjective ==
    ASSUME NEW w \in Nat \ {0}, NEW m \in Nat \ {0}, w % m = 0, NEW r \in 0 .. (w - 1),
           NEW j \in 0 .. (m - 1), NEW k \in 0 .. (m - 1),
           ((r + j) % w) % m = ((r + k) % w) % m
    PROVE  j = k
<1>1. r + j \in Int /\ r + k \in Int /\ r \in Int
  OBVIOUS
<1>2. ((r + j) % w) % m = (r + j) % m /\ ((r + k) % w) % m = (r + k) % m
  BY <1>1, ModOfMod, Zenon
<1> QED BY <1>1, <1>2, OffsetInjective, Zenon

\* ... the first one of the next lap is in the slot of the first ...
LEMMA WindowLap ==
    ASSUME NEW w \in Nat \ {0}, NEW m \in Nat \ {0}, w % m = 0, NEW r \in 0 .. (w - 1)
    PROVE  ((r + m) % w) % m = r % m
<1>1. r + m \in Int /\ r \in Int /\ 1 \in Int /\ m * 1 = m
  OBVIOUS
<1>2. ((r + m) % w) % m = (r + m) % m
  BY <1>1, ModOfMod, Zenon
<1>3. (r + m * 1) % m = r % m
  BY <1>1, ModShift, Zenon
<1> QED BY <1>1, <1>2, <1>3, Zenon

\* ... and the window from the next word on is the same, moved by one.
LEMMA WindowNext ==
    ASSUME NEW w \in Nat \ {0}, NEW r \in 0 .. (w - 1), NEW k \in Nat
    PROVE  (((r + 1) % w) + k) % w = (r + (k + 1)) % w
<1>1. r + 1 \in Int /\ k \in Int /\ (r + 1) + k = r + (k + 1)
  OBVIOUS
<1>2. (((r + 1) % w) + k) % w = ((r + 1) + k) % w
  BY <1>1, ModAdd, Zenon
<1> QED BY <1>1, <1>2, Zenon

-----------------------------------------------------------------------------
\* Append, element by element.
LEMMA AppendElements ==
    ASSUME NEW S, NEW s \in Seq(S), NEW e \in S, NEW n \in Nat, Len(s) = n
    PROVE  Append(s, e) = [k \in 1 .. n + 1 |-> IF k <= n THEN s[k] ELSE e]
<1> DEFINE t == [k \in 1 .. n + 1 |-> IF k <= n THEN s[k] ELSE e]
<1>1. \A k \in 1 .. n + 1 : (IF k <= n THEN s[k] ELSE e) \in S
  BY ElementOfSeq
<1>2. t \in Seq(S) /\ Len(t) = n + 1
  BY <1>1
<1>3. PICK u \in Seq(S) : u = Append(s, e) /\ Len(u) = n + 1
  BY AppendProperties
<1>4. \A k \in 1 .. n + 1 : u[k] = t[k]
  BY <1>3, AppendProperties
<1> HIDE DEF t
<1>5. u = t
  BY <1>2, <1>3, <1>4, SeqEqual
<1> QED BY <1>3, <1>5 DEF t

\* Tail, element by element.
LEMMA TailElements ==
    ASSUME NEW S, NEW s \in Seq(S), NEW n \in Nat, Len(s) = n, n > 0
    PROVE  Tail(s) = [k \in 1 .. n - 1 |-> s[k + 1]]
<1> DEFINE t == [k \in 1 .. n - 1 |-> s[k + 1]]
<1>1. \A k \in 1 .. n - 1 : s[k + 1] \in S
  BY ElementOfSeq
<1>2. t \in Seq(S) /\ Len(t) = n - 1
  BY <1>1
<1>3. s # <<>>
  OBVIOUS
<1>4. PICK u \in Seq(S) : u = Tail(s) /\ Len(u) = n - 1
  BY <1>3, HeadTailProperties
<1>5. \A k \in 1 .. n - 1 : u[k] = t[k]
  BY <1>3, <1>4, HeadTailProperties
<1> HIDE DEF t
<1>6. u = t
  BY <1>2, <1>4, <1>5, SeqEqual
<1> QED BY <1>4, <1>6 DEF t

-----------------------------------------------------------------------------
\* A set of naturals that is not empty has a lowest element.
LEMMA LowestExists ==
    ASSUME NEW S \in SUBSET Nat, S # {}
    PROVE  \E s \in S : \A t \in S : s <= t
<1> DEFINE R == {ss \in Nat \X Nat : ss[1] < ss[2]}
<1>1. IsWellFoundedOn(R, Nat)
  BY NatLessThanWellFounded, Zenon DEF OpToRel
<1> HIDE DEF R
<1>2. PICK s \in S : \A t \in S : ~(<<t, s>> \in R)
  BY <1>1, WFMin, Zenon
<1>3. \A t \in S : ~(t < s)
  BY <1>2 DEF R
<1> QED BY <1>3

=============================================================================
