---------------------------- MODULE SequenceLemmas ----------------------------
(***************************************************************************)
(* Facts about sequences that the proofs of several components need.       *)
(***************************************************************************)
EXTENDS SequencesExt, SequenceTheorems, NaturalsInduction,
        WellFoundedInduction, TLAPS

-----------------------------------------------------------------------------
(* Queues *)

\* Concatenation is associative.
LEMMA Associative ==
  ASSUME NEW T
  PROVE  \A a, b, c \in Seq(T) : (a \o b) \o c = a \o (b \o c)
<1> TAKE a, b, c \in Seq(T)
<1> QED
  BY ConcatAssociative

\* Moving the head of one queue to the end of the one before it changes
\* nothing of what the two hold together.
LEMMA MoveHead ==
  ASSUME NEW S, NEW s \in Seq(S), NEW q \in Seq(S), q # <<>>
  PROVE  /\ Append(s, Head(q)) \in Seq(S)
         /\ Tail(q) \in Seq(S)
         /\ Append(s, Head(q)) \o Tail(q) = s \o q
<1>1. Head(q) \in S /\ Tail(q) \in Seq(S) /\ q = <<Head(q)>> \o Tail(q)
  <2>1. Head(q) \in S /\ Tail(q) \in Seq(S)
    BY HeadTailProperties
  <2>2. q = <<Head(q)>> \o Tail(q)
    BY <2>1
  <2> QED  BY <2>1, <2>2
<1>2. Append(s, Head(q)) = s \o <<Head(q)>>
  BY <1>1, AppendIsConcat
<1>3. (s \o <<Head(q)>>) \o Tail(q) = s \o (<<Head(q)>> \o Tail(q))
  <2>1. <<Head(q)>> \in Seq(S)
    BY <1>1
  <2> QED  BY <1>1, <2>1, ConcatAssociative
<1>4. Append(s, Head(q)) \in Seq(S)
  BY <1>1, AppendProperties
<1> QED  BY <1>1, <1>2, <1>3, <1>4

\* An element appended to the last of two queues is appended to the whole.
LEMMA AppendBehind ==
  ASSUME NEW S, NEW s \in Seq(S), NEW q \in Seq(S), NEW e \in S
  PROVE  s \o Append(q, e) = Append(s \o q, e)
<1>1. <<e>> \in Seq(S) /\ s \o q \in Seq(S)
  BY ConcatProperties
<1>2. Append(q, e) = q \o <<e>> /\ Append(s \o q, e) = (s \o q) \o <<e>>
  BY <1>1, AppendIsConcat
<1>3. (s \o q) \o <<e>> = s \o (q \o <<e>>)
  BY <1>1, ConcatAssociative
<1> QED  BY <1>2, <1>3

\* Taking the head of a queue takes the head of the whole.
LEMMA HeadOfWhole ==
  ASSUME NEW S, NEW s \in Seq(S), NEW q \in Seq(S), s # <<>>
  PROVE  /\ s \o q # <<>>
         /\ Head(s \o q) = Head(s)
         /\ Tail(s \o q) = Tail(s) \o q
<1>1. Head(s) \in S /\ Tail(s) \in Seq(S) /\ Len(Tail(s)) = Len(s) - 1
  BY HeadTailProperties
<1>2. s \o q \in Seq(S) /\ Len(s \o q) = Len(s) + Len(q)
  BY ConcatProperties
<1>3. Len(s) \in Nat \ {0} /\ Len(q) \in Nat
  BY EmptySeq, LenProperties
<1>4. s \o q # <<>>
  BY <1>2, <1>3
<1>5. Head(s \o q) = Head(s)
  BY <1>3, <1>4, ConcatProperties
<1>6. Tail(s \o q) = Tail(s) \o q
  <2>1. Tail(s \o q) \in Seq(S) /\ Len(Tail(s \o q)) = Len(s) + Len(q) - 1
    BY <1>2, <1>4, HeadTailProperties
  <2>2. Tail(s) \o q \in Seq(S) /\ Len(Tail(s) \o q) = Len(s) - 1 + Len(q)
    BY <1>1, ConcatProperties
  <2>3. ASSUME NEW i \in 1 .. Len(Tail(s \o q))
        PROVE  Tail(s \o q)[i] = (Tail(s) \o q)[i]
    <3>1. Tail(s \o q)[i] = (s \o q)[i + 1]
      BY <1>2, <1>4, HeadTailProperties
    <3>2. i + 1 \in 1 .. Len(s) + Len(q)
      BY <1>3, <2>1
    <3>3. (s \o q)[i + 1] = IF i + 1 <= Len(s) THEN s[i + 1]
                            ELSE q[i + 1 - Len(s)]
      BY <3>2, ConcatProperties
    <3>4. (Tail(s) \o q)[i] = IF i <= Len(s) - 1 THEN Tail(s)[i]
                              ELSE q[i - (Len(s) - 1)]
      BY <1>1, <1>3, <2>1, ConcatProperties
    <3>5. i <= Len(s) - 1 => Tail(s)[i] = s[i + 1]
      BY <1>1, <1>3, HeadTailProperties
    <3> QED  BY <1>3, <2>1, <3>1, <3>3, <3>4, <3>5
  <2> QED  BY <1>3, <2>1, <2>2, <2>3, SeqEqual
<1> QED  BY <1>4, <1>5, <1>6
-----------------------------------------------------------------------------
(* Flattening *)

\* Induction over the numbers, with a set in the place of a predicate.
LEMMA NaturalsInSet ==
  ASSUME NEW S, 0 \in S, \A n \in Nat : n \in S => n + 1 \in S
  PROVE  Nat \subseteq S
<1> DEFINE T == Nat \ S
<1> SUFFICES ASSUME T # {} PROVE FALSE
  OBVIOUS
<1>1. IsWellFoundedOn(OpToRel(<, Nat), Nat)
  BY NatLessThanWellFounded
<1>2. PICK x \in T : \A y \in T : ~ (<<y, x>> \in OpToRel(<, Nat))
  <2>1. T \subseteq Nat
    OBVIOUS
  <2> HIDE DEF T
  <2> QED
    BY <1>1, <2>1, WFMin
<1>3. \A y \in T : ~ (y < x)
  BY <1>2 DEF OpToRel
<1>4. x \in Nat /\ x # 0
  BY <1>2
<1>5. x - 1 \in Nat /\ x - 1 \in S /\ (x - 1) + 1 = x
  BY <1>3, <1>4
<1>6. x \in S
  BY <1>5
<1> QED
  BY <1>2, <1>6

\* g[i] is the first i elements of s one behind the other, up to n.
ChainTo(n, g, s, T) ==
  /\ g \in [0 .. n -> Seq(T)]
  /\ g[0] = <<>>
  /\ \A i \in 1 .. n : g[i] = g[i - 1] \o s[i]

Chain(g, s, T) == ChainTo(Len(s), g, s, T)

\* A chain grows by the next element.
LEMMA ChainGrows ==
  ASSUME NEW T, NEW s, NEW n \in Nat, s[n + 1] \in Seq(T),
         NEW g, ChainTo(n, g, s, T)
  PROVE  \E h : ChainTo(n + 1, h, s, T) /\ h[n] = g[n]
<1> DEFINE h == [i \in 0 .. n + 1 |-> IF i = n + 1 THEN g[n] \o s[n + 1] ELSE g[i]]
<1>1. \A i \in 0 .. n : i \in 0 .. n + 1 /\ i # n + 1 /\ g[i] \in Seq(T)
  BY DEF ChainTo
<1>2. n \in 0 .. n /\ n + 1 \in 0 .. n + 1 /\ 0 \in 0 .. n
  OBVIOUS
<1>3. g[n] \o s[n + 1] \in Seq(T)
  BY <1>1, <1>2, ConcatProperties
<1>4. \A i \in 0 .. n : h[i] = g[i]
  BY <1>1
<1>5. h[n + 1] = g[n] \o s[n + 1]
  BY <1>2
<1>6. \A i \in 0 .. n + 1 : i \in 0 .. n \/ i = n + 1
  OBVIOUS
<1>7. \A i \in 0 .. n + 1 : h[i] \in Seq(T)
  <2> HIDE DEF h
  <2> QED
    BY <1>1, <1>3, <1>4, <1>5, <1>6
<1>8. h \in [0 .. n + 1 -> Seq(T)]
  BY <1>7
<1> HIDE DEF h
<1>9. h[0] = <<>>
  BY <1>2, <1>4 DEF ChainTo
<1>10. \A i \in 1 .. n + 1 : h[i] = h[i - 1] \o s[i]
  <2> TAKE i \in 1 .. n + 1
  <2>1. CASE i = n + 1
    <3>1. i - 1 = n
      BY <2>1
    <3> QED
      BY <1>2, <1>4, <1>5, <2>1, <3>1
  <2>2. CASE i # n + 1
    <3>1. i - 1 \in 0 .. n /\ i \in 0 .. n /\ i \in 1 .. n
      BY <2>2
    <3>2. g[i] = g[i - 1] \o s[i]
      BY <3>1 DEF ChainTo
    <3> QED
      BY <1>4, <3>1, <3>2
  <2> QED
    BY <2>1, <2>2
<1> QED
  BY <1>2, <1>4, <1>8, <1>9, <1>10 DEF ChainTo

\* Every sequence of sequences has a chain.
LEMMA ChainExists ==
  ASSUME NEW T, NEW s \in Seq(Seq(T))
  PROVE  \E g : Chain(g, s, T)
<1> DEFINE S == {n \in Nat : n <= Len(s) => \E g : ChainTo(n, g, s, T)}
<1>1. 0 \in S
  <2> DEFINE h == [i \in 0 .. 0 |-> <<>>]
  <2>1. ChainTo(0, h, s, T)
    BY EmptySeq DEF ChainTo
  <2> QED
    BY <2>1
<1>2. ASSUME NEW n \in Nat, n \in S PROVE n + 1 \in S
  <2>1. ASSUME n + 1 <= Len(s) PROVE \E g : ChainTo(n + 1, g, s, T)
    <3>1. Len(s) \in Nat /\ n <= Len(s) /\ n + 1 \in 1 .. Len(s)
      BY <2>1, LenProperties
    <3>2. s[n + 1] \in Seq(T)
      BY <3>1, ElementOfSeq
    <3> QED
      BY <1>2, <3>1, <3>2, ChainGrows
  <2> QED
    BY <2>1
<1>3. Nat \subseteq S
  <2> HIDE DEF S
  <2> QED
    BY <1>1, <1>2, NaturalsInSet
<1>4. Len(s) \in Nat /\ Len(s) <= Len(s)
  BY LenProperties
<1>5. Len(s) \in S
  BY <1>3, <1>4
<1> QED
  BY <1>4, <1>5 DEF Chain

\* FlattenSeq is the end of the chain.
LEMMA FlattenIsChain ==
  ASSUME NEW T, NEW s \in Seq(Seq(T)), NEW g, Chain(g, s, T)
  PROVE  FlattenSeq(s) = g[Len(s)] /\ FlattenSeq(s) \in Seq(T)
<1>1. Len(s) \in Nat
  BY LenProperties
<1>2. CASE Len(s) = 0
  <2>1. s = <<>>
    BY <1>2, EmptySeq
  <2> QED
    BY <1>2, <2>1 DEF FlattenSeq, Chain, ChainTo
<1>3. CASE Len(s) # 0
  <2> DEFINE Body(f) == [i \in 1 .. Len(s) |->
                           IF i = 1 THEN s[i] ELSE f[i - 1] \o s[i]]
             h == [i \in 1 .. Len(s) |-> g[i]]
             flatten == CHOOSE f : f = Body(f)
  <2>1. h = Body(h)
    <3>1. \A i \in 1 .. Len(s) : h[i] = (IF i = 1 THEN s[i] ELSE h[i - 1] \o s[i])
      <4> TAKE i \in 1 .. Len(s)
      <4>1. g[i] = g[i - 1] \o s[i]
        BY DEF Chain, ChainTo
      <4>2. CASE i = 1
        <5>1. s[1] \in Seq(T)
          BY <1>1, <1>3, ElementOfSeq
        <5>2. g[0] = <<>>
          BY DEF Chain, ChainTo
        <5>3. i - 1 = 0
          BY <4>2
        <5>4. g[1] = g[0] \o s[1]
          BY <4>1, <4>2, <5>3
        <5>5. <<>> \o s[1] = s[1]
          BY <5>1, ConcatEmptySeq
        <5> QED
          BY <4>2, <5>2, <5>4, <5>5
      <4>3. CASE i # 1
        <5>1. i - 1 \in 1 .. Len(s)
          BY <1>1, <4>3
        <5> QED
          BY <4>1, <4>3, <5>1
      <4> QED
        BY <4>2, <4>3
    <3> QED
      BY <3>1
  <2>2. flatten = Body(flatten)
    <3> HIDE DEF h, Body
    <3> QED
      BY <2>1
  <2>3. FlattenSeq(s) = flatten[Len(s)]
    BY <1>3 DEF FlattenSeq
  <2> DEFINE S == {n \in Nat : n \in 1 .. Len(s) => flatten[n] = h[n]}
  <2>4. 0 \in S
    OBVIOUS
  <2>5. ASSUME NEW n \in Nat, n \in S PROVE n + 1 \in S
    <3> SUFFICES ASSUME n + 1 \in 1 .. Len(s) PROVE flatten[n + 1] = h[n + 1]
      OBVIOUS
    <3> HIDE DEF flatten, h
    <3>1. \A i \in 1 .. Len(s) :
            flatten[i] = (IF i = 1 THEN s[i] ELSE flatten[i - 1] \o s[i])
      BY <2>2
    <3>2. \A i \in 1 .. Len(s) : h[i] = (IF i = 1 THEN s[i] ELSE h[i - 1] \o s[i])
      BY <2>1
    <3>3. CASE n = 0
      <4>1. n + 1 = 1 /\ n + 1 \in 1 .. Len(s)
        BY <3>3
      <4> QED
        BY <3>1, <3>2, <4>1
    <3>4. CASE n # 0
      <4>1. n \in 1 .. Len(s) /\ n + 1 - 1 = n /\ n + 1 # 1
        BY <1>1, <3>4
      <4>2. flatten[n] = h[n]
        BY <2>5, <4>1
      <4> QED
        BY <3>1, <3>2, <4>1, <4>2
    <3> QED
      BY <3>3, <3>4
  <2>6. Nat \subseteq S
    <3> HIDE DEF S
    <3> QED
      BY <2>4, <2>5, NaturalsInSet
  <2>7. Len(s) \in 1 .. Len(s) /\ Len(s) \in Nat
    BY <1>1, <1>3
  <2>8. flatten[Len(s)] = h[Len(s)]
    <3> HIDE DEF flatten, h
    <3> QED
      BY <2>6, <2>7
  <2>9. g[Len(s)] \in Seq(T)
    BY <1>1 DEF Chain, ChainTo
  <2> QED
    BY <2>3, <2>7, <2>8, <2>9
<1> QED
  BY <1>2, <1>3

\* Flattening one sequence more puts it behind the others.
LEMMA FlattenAppend ==
  ASSUME NEW T, NEW s \in Seq(Seq(T)), NEW e \in Seq(T)
  PROVE  /\ FlattenSeq(s) \in Seq(T)
         /\ FlattenSeq(Append(s, e)) = FlattenSeq(s) \o e
<1> DEFINE v == Append(s, e)
<1>1. PICK g : Chain(g, s, T)
  BY ChainExists
<1>2. /\ v \in Seq(Seq(T)) /\ Len(s) \in Nat /\ Len(v) = Len(s) + 1
      /\ v[Len(s) + 1] = e
      /\ \A i \in 1 .. Len(s) : v[i] = s[i]
  BY AppendProperties, LenProperties
<1> HIDE DEF v
<1>3. ChainTo(Len(s), g, v, T)
  BY <1>1, <1>2 DEF Chain, ChainTo
<1>4. PICK h : ChainTo(Len(s) + 1, h, v, T) /\ h[Len(s)] = g[Len(s)]
  BY <1>2, <1>3, ChainGrows
<1>5. h[Len(s) + 1] = h[Len(s)] \o e
  <2> DEFINE m == Len(s) + 1
  <2>1. m \in 1 .. m /\ m - 1 = Len(s) /\ v[m] = e
    BY <1>2
  <2>2. \A i \in 1 .. m : h[i] = h[i - 1] \o v[i]
    BY <1>4 DEF ChainTo
  <2> HIDE DEF m
  <2>3. h[m] = h[Len(s)] \o e
    BY <2>1, <2>2
  <2> QED
    BY <2>3 DEF m
<1>6. Chain(h, v, T)
  BY <1>2, <1>4 DEF Chain
<1>7. FlattenSeq(v) = h[Len(v)] /\ FlattenSeq(s) = g[Len(s)] /\ FlattenSeq(s) \in Seq(T)
  BY <1>1, <1>2, <1>6, FlattenIsChain
<1> QED
  BY <1>2, <1>4, <1>5, <1>7 DEF v

\* Flattening puts the first sequence before the others.
LEMMA FlattenHead ==
  ASSUME NEW T, NEW s \in Seq(Seq(T)), s # <<>>
  PROVE  /\ s[1] \in Seq(T) /\ FlattenSeq(Tail(s)) \in Seq(T)
         /\ FlattenSeq(s) = s[1] \o FlattenSeq(Tail(s))
<1>0. \A a, b, c \in Seq(T) : (a \o b) \o c = a \o (b \o c)
  BY SMTT(30), Associative
<1> DEFINE v == Tail(s)
<1>1. /\ v \in Seq(Seq(T)) /\ Len(v) \in Nat /\ Len(s) = Len(v) + 1
      /\ \A i \in 1 .. Len(v) : v[i] = s[i + 1] /\ v[i] \in Seq(T)
      /\ s[1] \in Seq(T)
  <2>1. /\ v \in Seq(Seq(T)) /\ Len(v) = Len(s) - 1
        /\ \A i \in 1 .. Len(v) : v[i] = s[i + 1]
    BY HeadTailProperties
  <2>2. Len(s) \in Nat /\ Len(s) # 0 /\ Len(v) \in Nat
    BY <2>1, LenProperties, EmptySeq
  <2>3. \A i \in 1 .. Len(v) : v[i] \in Seq(T)
    BY <2>1, ElementOfSeq
  <2>4. s[1] \in Seq(T)
    BY <2>2, ElementOfSeq
  <2> HIDE DEF v
  <2> QED
    BY <2>1, <2>2, <2>3, <2>4
<1> HIDE DEF v
<1>2. PICK g : Chain(g, v, T)
  BY <1>1, ChainExists
<1>3. \A i \in 0 .. Len(v) : g[i] \in Seq(T) /\ s[1] \o g[i] \in Seq(T)
  <2> TAKE i \in 0 .. Len(v)
  <2>1. g[i] \in Seq(T)
    BY <1>2 DEF Chain, ChainTo
  <2> QED
    BY <1>1, <2>1, ConcatProperties
<1> DEFINE h == [i \in 0 .. Len(s) |-> IF i = 0 THEN <<>> ELSE s[1] \o g[i - 1]]
<1>4. h[0] = <<>>
  BY <1>1
<1>5. \A i \in 0 .. Len(v) : i + 1 \in 0 .. Len(s) /\ h[i + 1] = s[1] \o g[i]
  <2> TAKE i \in 0 .. Len(v)
  <2> DEFINE j == i + 1
  <2>1. j \in 0 .. Len(s) /\ j # 0 /\ j - 1 = i
    BY <1>1
  <2>2. \A k \in 0 .. Len(s) : k # 0 => h[k] = s[1] \o g[k - 1]
    OBVIOUS
  <2> HIDE DEF h, j
  <2>3. h[j] = s[1] \o g[i]
    BY <2>1, <2>2
  <2> QED
    BY <2>1, <2>3 DEF j
<1>6. \A i \in 0 .. Len(s) : i = 0 \/ \E j \in 0 .. Len(v) : i = j + 1
  <2> TAKE i \in 0 .. Len(s)
  <2>1. CASE i # 0
    <3>1. i - 1 \in 0 .. Len(v) /\ i = (i - 1) + 1
      BY <1>1, <2>1
    <3> QED
      BY <3>1
  <2> QED
    BY <2>1
<1>7. \A i \in 0 .. Len(s) : h[i] \in Seq(T)
  <2> HIDE DEF h
  <2> QED
    BY <1>3, <1>4, <1>5, <1>6, EmptySeq
<1>8. h \in [0 .. Len(s) -> Seq(T)]
  BY <1>7
<1> HIDE DEF h
<1>9. \A i \in 1 .. Len(s) : h[i] = h[i - 1] \o s[i]
  <2> TAKE i \in 1 .. Len(s)
  <2>1. CASE i = 1
    <3>1. h[1] = s[1] \o g[0] /\ g[0] = <<>>
      <4>1. 0 \in 0 .. Len(v) /\ 0 + 1 = 1
        BY <1>1
      <4>2. g[0] = <<>>
        BY <1>2 DEF Chain, ChainTo
      <4> QED
        BY <1>5, <4>1, <4>2
    <3>2. s[1] \o <<>> = s[1] /\ <<>> \o s[1] = s[1]
      BY <1>1, ConcatEmptySeq
    <3>3. i - 1 = 0
      BY <2>1
    <3> QED
      BY <1>4, <2>1, <3>1, <3>2, <3>3
  <2>2. CASE i # 1
    <3> DEFINE j == i - 1
    <3>1. j \in 1 .. Len(v) /\ j \in 0 .. Len(v) /\ j - 1 \in 0 .. Len(v)
          /\ i = j + 1 /\ i - 1 = (j - 1) + 1
      BY <1>1, <2>2
    <3> HIDE DEF j
    <3>2. h[i] = s[1] \o g[j] /\ h[i - 1] = s[1] \o g[j - 1]
      BY <1>5, <3>1
    <3>3. g[j] = g[j - 1] \o v[j]
      BY <1>2, <3>1 DEF Chain, ChainTo
    <3>4. v[j] = s[i] /\ v[j] \in Seq(T)
      BY <1>1, <3>1
    <3>5. (s[1] \o g[j - 1]) \o v[j] = s[1] \o (g[j - 1] \o v[j])
      <4>1. s[1] \in Seq(T) /\ g[j - 1] \in Seq(T) /\ v[j] \in Seq(T)
        BY <1>1, <1>3, <3>1, <3>4
      <4> QED
        BY <1>0, <4>1
    <3> QED
      BY <3>2, <3>3, <3>4, <3>5
  <2> QED
    BY <2>1, <2>2
<1>10. Chain(h, s, T)
  BY <1>4, <1>8, <1>9 DEF Chain, ChainTo
<1>11. h[Len(s)] = s[1] \o g[Len(v)]
  <2>1. Len(v) \in 0 .. Len(v) /\ Len(s) = Len(v) + 1
    BY <1>1
  <2> QED
    BY <1>5, <2>1
<1>12. FlattenSeq(s) = h[Len(s)] /\ FlattenSeq(v) = g[Len(v)] /\ FlattenSeq(v) \in Seq(T)
  BY <1>1, <1>2, <1>10, FlattenIsChain
<1> QED
  BY <1>1, <1>11, <1>12 DEF v

=============================================================================
