-------------------------- MODULE PoolStackProofs --------------------------
(***************************************************************************)
(* The free-stack's theorems, for any number of buffers, any application   *)
(* data and any number of concurrent frees.                                *)
(*                                                                         *)
(* The invariant is IInv.  What a CAS decides is a single word, so each    *)
(* conjunct says what that word implies about state the CAS does not see:  *)
(* StackIsFree ties the guards to the stack, LinksSpellStack ties the head *)
(* and links to it, PopNotStale keeps the popper's two loads valid and     *)
(* FreeNotStale the freeing thread's.                                      *)
(***************************************************************************)
EXTENDS PoolStack, SequenceTheorems, TLAPS

\* No index of the pool is the terminator.
LEMMA Geometry ==
    /\ buf_count \in Nat /\ buf_count > 0
    /\ NIL \notin Buffers
BY PoolAssumption DEF Buffers

\* Pushing a buffer shifts every other by one place.
LEMMA PushProperties ==
    ASSUME NEW S, NEW s \in Seq(S), NEW b \in S
    PROVE  /\ <<b>> \o s \in Seq(S)
           /\ Len(<<b>> \o s) = Len(s) + 1
           /\ (<<b>> \o s)[1] = b
           /\ \A i \in 1 .. Len(s) : (<<b>> \o s)[i + 1] = s[i]
           /\ \A i \in 2 .. Len(s) + 1 : (<<b>> \o s)[i] = s[i - 1]
OBVIOUS

\* Popping a buffer shifts every other back by one place.
LEMMA PopProperties ==
    ASSUME NEW S, NEW s \in Seq(S), s # <<>>
    PROVE  /\ Tail(s) \in Seq(S)
           /\ Len(s) \in Nat /\ Len(s) >= 1
           /\ Len(Tail(s)) = Len(s) - 1
           /\ \A i \in 1 .. Len(s) - 1 : Tail(s)[i] = s[i + 1]
<1>1. Len(s) \in Nat /\ Len(s) # 0
  OBVIOUS
<1> QED BY <1>1, HeadTailProperties

\* The pool as init leaves it satisfies the invariant.
LEMMA InitIInv == Init => IInv
<1> SUFFICES ASSUME Init
             PROVE  IInv
  OBVIOUS
<1> USE Geometry DEF Init
<1>1. stack \in Seq(Buffers) /\ Len(stack) = buf_count
      /\ \A i \in 1 .. buf_count : stack[i] = i - 1
  BY DEF Buffers
<1>2. TypeOK
  BY <1>1 DEF TypeOK, Links, Buffers, Guards
<1>3. StackIsFree
  <2>1. ASSUME NEW b \in Buffers
        PROVE  guard[b] = "free" /\ \E i \in 1 .. Len(stack) : stack[i] = b
    <3>1. b + 1 \in 1 .. Len(stack) /\ stack[b + 1] = b
      BY <1>1 DEF Buffers
    <3> QED BY <3>1
  <2> QED BY <1>1, <2>1 DEF StackIsFree
<1>4. LinksSpellStack
  <2>1. stack # <<>> /\ stack[1] = 0
    BY <1>1
  <2>2. ASSUME NEW i \in 1 .. Len(stack)
        PROVE  link[stack[i]] = IF i = Len(stack) THEN NIL ELSE stack[i + 1]
    <3>1. i \in 1 .. buf_count /\ stack[i] = i - 1 /\ i - 1 \in Buffers
      BY <1>1 DEF Buffers
    <3>2. link[i - 1] = IF (i - 1) + 1 = buf_count THEN NIL ELSE (i - 1) + 1
      BY <3>1
    <3>3. i # buf_count => stack[i + 1] = i
      BY <1>1, <3>1
    <3> QED BY <1>1, <3>1, <3>2, <3>3
  <2> QED BY <2>1, <2>2 DEF LinksSpellStack
<1>5. PopNotStale /\ FreeNotStale
  BY DEF PopNotStale, FreeNotStale
<1> QED BY <1>2, <1>3, <1>4, <1>5 DEF IInv

-----------------------------------------------------------------------------
(* The steps that move the head.                                           *)

\* The head word names the first buffer of a stack that is not empty.
LEMMA HeadIsFirst ==
    ASSUME IInv
    PROVE  /\ stack = <<>> <=> first_free_idx = NIL
           /\ stack # <<>> => /\ Len(stack) \in Nat /\ Len(stack) >= 1
                              /\ first_free_idx = stack[1] /\ stack[1] \in Buffers
<1>1. stack \in Seq(Buffers)
  BY DEF IInv, TypeOK
<1>2. stack # <<>> => Len(stack) \in Nat /\ Len(stack) >= 1 /\ stack[1] \in Buffers
  BY <1>1, PopProperties, ElementOfSeq
<1> QED BY <1>2, Geometry DEF IInv, LinksSpellStack

\* A free buffer's first word is a link: the application has no guard to it.
LEMMA FreeLinkInLinks ==
    ASSUME IInv, NEW b \in Buffers, guard[b] = "free"
    PROVE  link[b] \in Links
<1>1. PICK i \in 1 .. Len(stack) : stack[i] = b
  BY DEF IInv, StackIsFree
<1>2. stack \in Seq(Buffers)
  BY DEF IInv, TypeOK
<1>3. i # Len(stack) => stack[i + 1] \in Buffers
  BY <1>2, ElementOfSeq
<1>4. link[b] = IF i = Len(stack) THEN NIL ELSE stack[i + 1]
  BY <1>1 DEF IInv, LinksSpellStack
<1> QED BY <1>3, <1>4 DEF Links

\* The pop's CAS takes the first buffer off the stack.
LEMMA PopCasStep == IInv /\ PopCas => IInv'
<1> SUFFICES ASSUME IInv, PopCas
             PROVE  IInv'
  OBVIOUS
<1> USE DEF PopCas, PopReturn
<1>1. /\ ahead \in Buffers /\ guard[ahead] = "free" /\ anext = link[ahead]
      /\ ahead # NIL /\ stack \in Seq(Buffers)
  BY Geometry DEF IInv, PopNotStale, TypeOK
<1>2. /\ stack # <<>> /\ stack[1] = ahead /\ Len(stack) \in Nat /\ Len(stack) >= 1
  BY <1>1, HeadIsFirst
<1>3. /\ stack' \in Seq(Buffers) /\ Len(stack') = Len(stack) - 1
      /\ \A i \in 1 .. Len(stack) - 1 : stack'[i] = stack[i + 1]
  BY <1>1, <1>2, PopProperties
<1>4. anext = IF Len(stack) = 1 THEN NIL ELSE stack[2]
  <2>1. \A i \in 1 .. Len(stack) :
          link[stack[i]] = IF i = Len(stack) THEN NIL ELSE stack[i + 1]
    BY DEF IInv, LinksSpellStack
  <2>2. 1 \in 1 .. Len(stack) /\ 1 + 1 = 2
    BY <1>2
  <2>3. link[stack[1]] = IF 1 = Len(stack) THEN NIL ELSE stack[2]
    BY <2>1, <2>2
  <2> QED BY <1>1, <1>2, <2>3
<1>5. TypeOK'
  BY <1>1, <1>3 DEF IInv, TypeOK, Guards, Links
<1>6. \A i, j \in 1 .. Len(stack) : stack[i] = stack[j] => i = j
  BY DEF IInv, StackIsFree
<1>7. StackIsFree'
  <2>1. ASSUME NEW i \in 1 .. Len(stack'), NEW j \in 1 .. Len(stack'), stack'[i] = stack'[j]
        PROVE  i = j
    BY <1>2, <1>3, <1>6, <2>1
  <2>2. ASSUME NEW b \in Buffers
        PROVE  guard'[b] = "free" <=> \E i \in 1 .. Len(stack') : stack'[i] = b
    <3>1. CASE b = ahead
      <4>1. guard'[b] = "held"
        BY <3>1 DEF IInv, TypeOK
      <4>2. \A i \in 1 .. Len(stack') : stack'[i] # b
        BY <1>2, <1>3, <1>6, <3>1
      <4> QED BY <4>1, <4>2
    <3>2. CASE b # ahead
      <4>1. guard'[b] = guard[b]
        BY <3>2 DEF IInv, TypeOK
      <4>2. (\E i \in 1 .. Len(stack) : stack[i] = b) => \E i \in 1 .. Len(stack') : stack'[i] = b
        <5>1. SUFFICES ASSUME NEW i \in 1 .. Len(stack), stack[i] = b
                       PROVE  \E k \in 1 .. Len(stack') : stack'[k] = b
          OBVIOUS
        <5>2. i # 1
          BY <1>2, <3>2, <5>1
        <5>3. i - 1 \in 1 .. Len(stack') /\ stack'[i - 1] = stack[i]
          BY <1>2, <1>3, <5>2
        <5> QED BY <5>1, <5>3
      <4>3. (\E i \in 1 .. Len(stack') : stack'[i] = b) => \E i \in 1 .. Len(stack) : stack[i] = b
        <5>1. SUFFICES ASSUME NEW i \in 1 .. Len(stack'), stack'[i] = b
                       PROVE  \E k \in 1 .. Len(stack) : stack[k] = b
          OBVIOUS
        <5>2. i + 1 \in 1 .. Len(stack) /\ stack[i + 1] = b
          BY <1>2, <1>3, <5>1
        <5> QED BY <5>2
      <4> QED BY <4>1, <4>2, <4>3 DEF IInv, StackIsFree
    <3> QED BY <3>1, <3>2
  <2> QED BY <2>1, <2>2 DEF StackIsFree
<1>8. LinksSpellStack'
  <2>1. link' = link /\ first_free_idx' = anext
    OBVIOUS
  <2> HIDE DEF PopCas, PopReturn
  <2>2. first_free_idx' = IF stack' = <<>> THEN NIL ELSE stack'[1]
    <3>1. CASE Len(stack) = 1
      BY <1>2, <1>3, <1>4, <2>1, <3>1
    <3>2. CASE Len(stack) # 1
      <4>1. stack' # <<>> /\ 1 \in 1 .. Len(stack) - 1
        BY <1>2, <1>3, <3>2
      <4> QED BY <1>3, <1>4, <2>1, <3>2, <4>1
    <3> QED BY <3>1, <3>2
  <2>3. ASSUME NEW i \in 1 .. Len(stack')
        PROVE  link'[stack'[i]] = IF i = Len(stack') THEN NIL ELSE stack'[i + 1]
    <3>1. i + 1 \in 1 .. Len(stack) /\ stack'[i] = stack[i + 1]
      BY <1>2, <1>3
    <3>2. link[stack[i + 1]] = IF i + 1 = Len(stack) THEN NIL ELSE stack[(i + 1) + 1]
      BY <3>1 DEF IInv, LinksSpellStack
    <3>3. CASE i = Len(stack')
      BY <1>2, <1>3, <2>1, <3>1, <3>2, <3>3
    <3>4. CASE i # Len(stack')
      <4>1. i + 1 \in 1 .. Len(stack) - 1 /\ i + 1 # Len(stack)
        BY <1>2, <1>3, <3>4
      <4>2. stack'[i + 1] = stack[(i + 1) + 1]
        BY <1>3, <4>1
      <4> QED BY <2>1, <3>1, <3>2, <3>4, <4>1, <4>2
    <3> QED BY <3>3, <3>4
  <2> QED BY <2>2, <2>3 DEF LinksSpellStack
<1>9. PopNotStale' /\ FreeNotStale'
  BY DEF IInv, TypeOK, PopNotStale, FreeNotStale
<1> QED BY <1>5, <1>7, <1>8, <1>9 DEF IInv

\* The free's CAS puts its buffer on the stack, linked to the old head.
LEMMA FreeCasStep == \A b \in Buffers : IInv /\ FreeCas(b) => IInv'
<1> SUFFICES ASSUME NEW b \in Buffers, IInv, FreeCas(b)
             PROVE  IInv'
  OBVIOUS
<1> USE DEF FreeCas
<1>1. /\ guard[b] = "linked" /\ link[b] = first_free_idx /\ link' = link
      /\ stack \in Seq(Buffers) /\ Len(stack) \in Nat
  BY DEF IInv, TypeOK, FreeNotStale
<1>2. /\ stack' \in Seq(Buffers) /\ Len(stack') = Len(stack) + 1
      /\ stack'[1] = b
      /\ \A i \in 1 .. Len(stack) : stack'[i + 1] = stack[i]
      /\ \A i \in 2 .. Len(stack) + 1 : stack'[i] = stack[i - 1]
  BY <1>1, PushProperties
<1>3. /\ guard'[b] = "free"
      /\ \A c \in Buffers : c # b => guard'[c] = guard[c]
  BY DEF IInv, TypeOK
<1>4. \A i \in 1 .. Len(stack) : stack[i] # b
  BY <1>1 DEF IInv, StackIsFree
<1>5. TypeOK'
  BY <1>2 DEF IInv, TypeOK, Guards, Links, allocVars
<1>6. StackIsFree'
  <2>1. ASSUME NEW i \in 1 .. Len(stack'), NEW j \in 1 .. Len(stack'), stack'[i] = stack'[j]
        PROVE  i = j
    <3>1. \A m, n \in 1 .. Len(stack) : stack[m] = stack[n] => m = n
      BY DEF IInv, StackIsFree
    <3>2. CASE i = 1 /\ j = 1
      BY <3>2
    <3>3. CASE i = 1 /\ j # 1
      BY <1>1, <1>2, <1>4, <2>1, <3>3
    <3>4. CASE i # 1 /\ j = 1
      BY <1>1, <1>2, <1>4, <2>1, <3>4
    <3>5. CASE i # 1 /\ j # 1
      <4>1. i - 1 \in 1 .. Len(stack) /\ j - 1 \in 1 .. Len(stack)
        BY <1>1, <1>2, <3>5
      <4>2. stack[i - 1] = stack[j - 1]
        BY <1>1, <1>2, <2>1, <3>5
      <4> QED BY <3>1, <4>1, <4>2
    <3> QED BY <3>2, <3>3, <3>4, <3>5
  <2>2. ASSUME NEW c \in Buffers
        PROVE  guard'[c] = "free" <=> \E i \in 1 .. Len(stack') : stack'[i] = c
    <3>1. CASE c = b
      BY <1>1, <1>2, <1>3, <3>1
    <3>2. CASE c # b
      <4>1. (\E i \in 1 .. Len(stack) : stack[i] = c) => \E i \in 1 .. Len(stack') : stack'[i] = c
        <5>1. SUFFICES ASSUME NEW i \in 1 .. Len(stack), stack[i] = c
                       PROVE  \E k \in 1 .. Len(stack') : stack'[k] = c
          OBVIOUS
        <5>2. i + 1 \in 1 .. Len(stack') /\ stack'[i + 1] = c
          BY <1>1, <1>2, <5>1
        <5> QED BY <5>2
      <4>2. (\E i \in 1 .. Len(stack') : stack'[i] = c) => \E i \in 1 .. Len(stack) : stack[i] = c
        <5>1. SUFFICES ASSUME NEW i \in 1 .. Len(stack'), stack'[i] = c
                       PROVE  \E k \in 1 .. Len(stack) : stack[k] = c
          OBVIOUS
        <5>2. i # 1
          BY <1>2, <3>2, <5>1
        <5>3. i - 1 \in 1 .. Len(stack) /\ stack[i - 1] = c
          BY <1>1, <1>2, <5>1, <5>2
        <5> QED BY <5>3
      <4> QED BY <1>3, <3>2, <4>1, <4>2 DEF IInv, StackIsFree
    <3> QED BY <3>1, <3>2
  <2> QED BY <2>1, <2>2 DEF StackIsFree
<1>7. LinksSpellStack'
  <2>1. stack' # <<>> /\ first_free_idx' = stack'[1]
    BY <1>1, <1>2
  <2>2. ASSUME NEW i \in 1 .. Len(stack')
        PROVE  link'[stack'[i]] = IF i = Len(stack') THEN NIL ELSE stack'[i + 1]
    <3>1. CASE i = 1
      <4>1. first_free_idx = IF stack = <<>> THEN NIL ELSE stack[1]
        BY DEF IInv, LinksSpellStack
      <4>2. CASE stack = <<>>
        BY <1>1, <1>2, <3>1, <4>1, <4>2
      <4>3. CASE stack # <<>>
        <5>1. Len(stack) >= 1 /\ stack'[2] = stack[1]
          BY <1>1, <1>2, <4>3, PopProperties
        <5> QED BY <1>1, <1>2, <3>1, <4>1, <4>3, <5>1
      <4> QED BY <4>2, <4>3
    <3>2. CASE i # 1
      <4>1. i - 1 \in 1 .. Len(stack) /\ stack'[i] = stack[i - 1]
        BY <1>1, <1>2, <3>2
      <4>2. link[stack[i - 1]] = IF i - 1 = Len(stack) THEN NIL ELSE stack[(i - 1) + 1]
        BY <4>1 DEF IInv, LinksSpellStack
      <4>3. i # Len(stack') => stack'[i + 1] = stack[(i - 1) + 1]
        BY <1>1, <1>2, <4>1
      <4> QED BY <1>1, <1>2, <4>1, <4>2, <4>3
    <3> QED BY <3>1, <3>2
  <2> QED BY <2>1, <2>2 DEF LinksSpellStack
<1>8. PopNotStale' /\ FreeNotStale'
  BY <1>1, <1>3 DEF IInv, TypeOK, PopNotStale, FreeNotStale, allocVars
<1> QED BY <1>5, <1>6, <1>7, <1>8 DEF IInv

-----------------------------------------------------------------------------
(* The steps that leave the head alone.                                    *)

\* The popper's loads, its retry and its return.
LEMMA PopStep ==
    IInv /\ (Alloc \/ PopHead \/ PopNext \/ PopRetry \/ PopExhausted) => IInv'
<1> SUFFICES ASSUME IInv, Alloc \/ PopHead \/ PopNext \/ PopRetry \/ PopExhausted
             PROVE  IInv'
  OBVIOUS
<1> USE DEF Alloc, PopHead, PopNext, PopRetry, PopExhausted, PopReturn
<1>1. StackIsFree' /\ LinksSpellStack' /\ FreeNotStale'
  BY DEF IInv, StackIsFree, LinksSpellStack, FreeNotStale
<1>2. CASE PopHead
  <2>1. stack = <<>> \/ guard[first_free_idx] = "free"
    <3>1. SUFFICES ASSUME stack # <<>>
                   PROVE  guard[first_free_idx] = "free"
      OBVIOUS
    <3>2. first_free_idx \in Buffers /\ 1 \in 1 .. Len(stack) /\ stack[1] = first_free_idx
      BY <3>1, HeadIsFirst
    <3> QED BY <3>2 DEF IInv, StackIsFree
  <2>2. PopNotStale'
    BY <1>2, <2>1, HeadIsFirst, Geometry DEF IInv, TypeOK, PopNotStale
  <2>3. TypeOK'
    BY <1>2 DEF IInv, TypeOK
  <2> QED BY <1>1, <2>2, <2>3 DEF IInv
<1>3. CASE PopNext
  <2>1. ahead \in Buffers /\ guard[ahead] = "free"
    BY <1>3 DEF IInv, PopNotStale
  <2>2. TypeOK'
    BY <1>3, <2>1, FreeLinkInLinks DEF IInv, TypeOK
  <2>3. PopNotStale'
    BY <1>3, <2>1 DEF PopNotStale
  <2> QED BY <1>1, <2>2, <2>3 DEF IInv
<1>4. CASE Alloc \/ PopRetry \/ PopExhausted
  BY <1>1, <1>4 DEF IInv, TypeOK, PopNotStale, Links
<1> QED BY <1>2, <1>3, <1>4

\* What a holder does before its CAS touches only its own buffer, which is on
\* nobody's stack and is not the one the popper looks at.
LEMMA HolderStep ==
    \A b \in Buffers :
        IInv /\ (Use(b) \/ FreeHead(b) \/ FreeLink(b) \/ FreeRetry(b) \/ Leak(b)) => IInv'
<1> SUFFICES ASSUME NEW b \in Buffers, IInv,
                    Use(b) \/ FreeHead(b) \/ FreeLink(b) \/ FreeRetry(b) \/ Leak(b)
             PROVE  IInv'
  OBVIOUS
<1> USE DEF Use, FreeHead, FreeLink, FreeRetry, Leak, allocVars
<1>1. /\ guard[b] # "free" /\ guard'[b] # "free"
      /\ \A c \in Buffers : c # b => guard'[c] = guard[c] /\ link'[c] = link[c]
                                     /\ seen'[c] = seen[c]
      /\ stack' = stack /\ first_free_idx' = first_free_idx
      /\ apc' = apc /\ ahead' = ahead /\ anext' = anext
  BY DEF IInv, TypeOK
<1>2. TypeOK'
  BY DEF IInv, TypeOK, Guards, Links
<1>3. StackIsFree'
  <2>1. \A c \in Buffers : guard'[c] = "free" <=> guard[c] = "free"
    BY <1>1
  <2> QED BY <1>1, <2>1 DEF IInv, StackIsFree
<1>4. LinksSpellStack'
  <2>1. \A i \in 1 .. Len(stack) : stack[i] \in Buffers /\ stack[i] # b
    <3>1. stack \in Seq(Buffers)
      BY DEF IInv, TypeOK
    <3>2. \A i \in 1 .. Len(stack) : stack[i] \in Buffers
      BY <3>1, ElementOfSeq
    <3> QED BY <1>1, <3>2 DEF IInv, StackIsFree
  <2>2. \A i \in 1 .. Len(stack) : link'[stack[i]] = link[stack[i]]
    BY <1>1, <2>1
  <2> QED BY <1>1, <2>2 DEF IInv, LinksSpellStack
<1>5. PopNotStale'
  BY <1>1 DEF IInv, PopNotStale
<1>6. FreeNotStale'
  <2>1. guard'[b] = "linked" => link'[b] = seen'[b]
    BY DEF IInv, TypeOK
  <2> QED BY <1>1, <2>1 DEF IInv, FreeNotStale
<1> QED BY <1>2, <1>3, <1>4, <1>5, <1>6 DEF IInv

\* Every step keeps the invariant.
LEMMA StepIInv == IInv /\ [Next]_vars => IInv'
<1> SUFFICES ASSUME IInv, [Next]_vars
             PROVE  IInv'
  OBVIOUS
<1>1. CASE UNCHANGED vars
  BY <1>1 DEF vars, IInv, TypeOK, StackIsFree, LinksSpellStack, PopNotStale, FreeNotStale
<1>2. CASE Next
  BY <1>2, PopStep, PopCasStep, FreeCasStep, HolderStep DEF Next, Pop
<1> QED BY <1>1, <1>2

\* The invariant holds throughout.
LEMMA Invariance == Spec => []IInv
BY InitIInv, StepIInv, PTL DEF Spec

-----------------------------------------------------------------------------
(* The theorems.                                                           *)

\* The free-stack never loses a buffer to racing frees and never holds one a
\* guard owns: what pop and free keep true of the pool at every instant.
THEOREM FreeBuffersOnStack == Spec => []StackIsFree
<1>1. IInv => StackIsFree
  BY DEF IInv
<1> QED BY <1>1, Invariance, PTL

\* The head word and the in-buffer links always spell the stack, whatever the
\* holders write in the first word of their buffers.
THEOREM LinksIntact == Spec => []LinksSpellStack
<1>1. IInv => LinksSpellStack
  BY DEF IInv
<1> QED BY <1>1, Invariance, PTL

\* The single-popper claim of pop's comment, "there is no ABA hazard": the
\* head and link it loaded are still right when its CAS succeeds.
THEOREM NoAba == Spec => []PopNotStale
<1>1. IInv => PopNotStale
  BY DEF IInv
<1> QED BY <1>1, Invariance, PTL

\* alloc never returns a buffer whose guard is alive elsewhere.
THEOREM NoSharedGuard == Spec => NoDoubleAlloc
<1>1. IInv /\ [Next]_vars =>
        [\A b \in Buffers : guard'[b] = "held" /\ guard[b] # "held" => guard[b] = "free"]_vars
  <2> SUFFICES ASSUME IInv, Next, NEW b \in Buffers, guard'[b] = "held", guard[b] # "held"
               PROVE  guard[b] = "free"
    OBVIOUS
  <2>1. CASE PopCas
    BY <2>1 DEF PopCas, IInv, TypeOK, PopNotStale
  <2>2. CASE Alloc \/ PopHead \/ PopNext \/ PopRetry \/ PopExhausted
    BY <2>2 DEF Alloc, PopHead, PopNext, PopRetry, PopExhausted
  <2>3. ASSUME NEW c \in Buffers,
               Use(c) \/ FreeHead(c) \/ FreeLink(c) \/ FreeCas(c) \/ FreeRetry(c) \/ Leak(c)
        PROVE  FALSE
    BY <2>3 DEF Use, FreeHead, FreeLink, FreeCas, FreeRetry, Leak, IInv, TypeOK
  <2> QED BY <2>1, <2>2, <2>3 DEF Next, Pop
<1> QED BY <1>1, Invariance, PTL DEF Spec, NoDoubleAlloc

\* pop reports Exhausted only of an empty pool: its two bounds checks on the
\* head and the link never fire because of what a holder wrote.
THEOREM ExhaustedOnlyEmpty == Spec => ExhaustedIsEmpty
<1>1. IInv /\ [Next]_vars =>
        [apc' = "exhausted" /\ apc # "exhausted" => stack = <<>>]_vars
  <2> SUFFICES ASSUME IInv, Next, apc' = "exhausted", apc # "exhausted"
               PROVE  stack = <<>>
    OBVIOUS
  <2>1. CASE PopHead
    BY <2>1, HeadIsFirst DEF PopHead
  <2>2. CASE PopNext
    BY <2>2, FreeLinkInLinks DEF PopNext, IInv, PopNotStale
  <2>3. CASE Alloc \/ PopCas \/ PopRetry \/ PopExhausted
    BY <2>3 DEF Alloc, PopCas, PopRetry, PopExhausted, PopReturn
  <2>4. ASSUME NEW c \in Buffers,
               Use(c) \/ FreeHead(c) \/ FreeLink(c) \/ FreeCas(c) \/ FreeRetry(c) \/ Leak(c)
        PROVE  FALSE
    BY <2>4 DEF Use, FreeHead, FreeLink, FreeCas, FreeRetry, Leak, allocVars
  <2> QED BY <2>1, <2>2, <2>3, <2>4 DEF Next, Pop
<1> QED BY <1>1, Invariance, PTL DEF Spec, ExhaustedIsEmpty

=============================================================================
