------------------------------ MODULE FoldProofs ------------------------------
(***************************************************************************)
(* Induction along a fold of a sequence.  Op stands for the operation that *)
(* is folded, with a parameter p that stays the same: an instance of this  *)
(* module for an operator of a specification has the facts about its fold. *)
(***************************************************************************)
EXTENDS Integers, Sequences, SequencesExt, WellFoundedInduction, TLAPS

CONSTANT Op(_, _, _)

Fold(p, base, seq) == FoldLeft(LAMBDA s, e : Op(p, s, e), base, seq)

\* Induction over the natural numbers, of membership in a set.
LEMMA SetInduction ==
    ASSUME NEW T, 0 \in T, \A n \in Nat : n \in T => n + 1 \in T
    PROVE  \A n \in Nat : n \in T
  <1> SUFFICES ASSUME NEW n \in Nat, n \notin T PROVE FALSE
    OBVIOUS
  <1> DEFINE U == {k \in Nat : k \notin T}
             R == {ss \in Nat \X Nat : ss[1] < ss[2]}
  <1>1. IsWellFoundedOn(R, Nat)
    BY NatLessThanWellFounded DEF OpToRel
  <1>2. \E x \in U : \A y \in U : ~ (<<y, x>> \in R)
    <2>1. U \subseteq Nat /\ U # {}
      OBVIOUS
    <2> HIDE DEF U, R
    <2> QED
      BY <1>1, <2>1, WFMin
  <1>3. PICK x \in U : \A y \in U : ~ (<<y, x>> \in R)
    BY <1>2
  <1>4. x # 0 /\ x - 1 \in Nat
    OBVIOUS
  <1>5. x - 1 \in U
    BY <1>4
  <1>6. <<x - 1, x>> \in R
    BY <1>4
  <1> QED
    BY <1>3, <1>5, <1>6

LEMMA MaxOfInterval ==
    ASSUME NEW n \in Nat, NEW s \in SUBSET (1 .. n + 1), n + 1 \in s
    PROVE  Max(s) = n + 1
  <1>1. \A x \in s : x \in Nat /\ n + 1 >= x
    OBVIOUS
  <1>2. \E x \in s : \A y \in s : x >= y
    BY <1>1
  <1>3. Max(s) \in s /\ Max(s) >= n + 1
    BY <1>2 DEF Max
  <1>4. Max(s) \in Nat /\ n + 1 >= Max(s) /\ n + 1 \in Nat
    BY <1>1, <1>3
  <1> QED
    BY <1>3, <1>4

\* A nonempty set of indices has a greatest one.
LEMMA MaxIn ==
    ASSUME NEW n \in Nat, NEW s \in SUBSET (1 .. n), s # {}
    PROVE  Max(s) \in s
  <1> DEFINE T == {k \in Nat : \A u \in SUBSET (1 .. k) :
                        u # {} => \E x \in u : \A y \in u : x >= y}
  <1>1. 0 \in T
    <2>1. 1 .. 0 = {}
      OBVIOUS
    <2> QED
      BY <2>1
  <1>2. ASSUME NEW k \in Nat, k \in T PROVE k + 1 \in T
    <2> SUFFICES ASSUME NEW u \in SUBSET (1 .. k + 1), u # {}
                 PROVE  \E x \in u : \A y \in u : x >= y
      OBVIOUS
    <2>1. CASE k + 1 \in u
      BY <2>1
    <2>2. CASE k + 1 \notin u
      <3>1. u \in SUBSET (1 .. k)
        BY <2>2
      <3> QED
        BY <1>2, <3>1
    <2> QED
      BY <2>1, <2>2
  <1>3. n \in T
    <2> HIDE DEF T
    <2> QED
      BY <1>1, <1>2, SetInduction
  <1> QED
    BY <1>3 DEF Max

\* A fold is the last of the values that its steps compute.
LEMMA FoldSteps ==
    ASSUME NEW p, NEW base, NEW E, NEW seq \in Seq(E)
    PROVE  \E f : /\ f[0] = base
                  /\ \A k \in 1 .. Len(seq) : f[k] = Op(p, f[k - 1], seq[k])
                  /\ Fold(p, base, seq) = f[Len(seq)]
  <1> DEFINE n == Len(seq)
             Rec(h, x) == IF x = {} THEN base
                          ELSE Op(p, h[x \ {Max(x)}], seq[Max(x)])
             T == {k \in Nat : \E h : h = [x \in SUBSET (1 .. k) |-> Rec(h, x)]}
             iter == CHOOSE h : h = [x \in SUBSET (1 .. n) |-> Rec(h, x)]
  <1>0. n \in Nat /\ DOMAIN seq = 1 .. n
    OBVIOUS
  <1>1. Fold(p, base, seq) = iter[1 .. n]
    BY <1>0 DEF Fold, FoldLeft, MapThenFoldSet
  <1>2. n \in T
    <2>1. 0 \in T
      <3> DEFINE h == [x \in SUBSET (1 .. 0) |-> base]
      <3>1. 1 .. 0 = {} /\ SUBSET (1 .. 0) = {{}}
        OBVIOUS
      <3>2. h = [x \in SUBSET (1 .. 0) |-> Rec(h, x)]
        BY <3>1
      <3> QED
        BY <3>2
    <2>2. ASSUME NEW k \in Nat, k \in T PROVE k + 1 \in T
      <3>1. PICK h : h = [x \in SUBSET (1 .. k) |-> Rec(h, x)]
        BY <2>2
      <3> DEFINE g == [x \in SUBSET (1 .. k + 1) |->
                        IF k + 1 \in x THEN Rec([y \in SUBSET (1 .. k + 1) |-> h[y]], x)
                                       ELSE h[x]]
      <3>2. g = [x \in SUBSET (1 .. k + 1) |-> Rec(g, x)]
        <4> SUFFICES ASSUME NEW x \in SUBSET (1 .. k + 1) PROVE g[x] = Rec(g, x)
          OBVIOUS
        <4>1. CASE k + 1 \in x
          <5>1. Max(x) = k + 1 /\ x \ {k + 1} \in SUBSET (1 .. k)
            BY <4>1, MaxOfInterval
          <5>2. g[x \ {k + 1}] = h[x \ {k + 1}]
            BY <5>1
          <5> QED
            BY <4>1, <5>1, <5>2
        <4>2. CASE k + 1 \notin x
          <5>1. x \in SUBSET (1 .. k)
            BY <4>2
          <5>2. g[x] = h[x] /\ h[x] = Rec(h, x)
            BY <3>1, <4>2, <5>1
          <5>3. CASE x # {}
            <6>1. Max(x) \in x
              BY <5>1, <5>3, MaxIn
            <6>2. g[x \ {Max(x)}] = h[x \ {Max(x)}]
              BY <4>2, <5>1
            <6> QED
              BY <5>2, <5>3, <6>2
          <5> QED
            BY <5>2, <5>3
        <4> QED
          BY <4>1, <4>2
      <3>3. \E h2 : h2 = [x \in SUBSET (1 .. k + 1) |-> Rec(h2, x)]
        <4> HIDE DEF g, Rec
        <4> QED
          BY <3>2
      <3>4. k + 1 \in Nat
        OBVIOUS
      <3> QED
        BY <3>3, <3>4
    <2> HIDE DEF T
    <2> QED
      BY <1>0, <2>1, <2>2, SetInduction
  <1>3. iter = [x \in SUBSET (1 .. n) |-> Rec(iter, x)]
    BY <1>2
  <1> HIDE DEF iter
  <1> DEFINE f == [k \in 0 .. n |-> iter[1 .. k]]
  <1>4. f[0] = base
    BY <1>0, <1>3
  <1>5. ASSUME NEW k \in 1 .. n PROVE f[k] = Op(p, f[k - 1], seq[k])
    <2>1. Max(1 .. k) = k /\ (1 .. k) \ {k} = 1 .. k - 1
      <3>1. k - 1 \in Nat /\ (k - 1) + 1 = k /\ k \in 1 .. k
        BY <1>0
      <3> QED
        BY <3>1, MaxOfInterval
    <2>2. k \in 0 .. n /\ k - 1 \in 0 .. n
      BY <1>0
    <2>3. f[k] = iter[1 .. k] /\ f[k - 1] = iter[1 .. k - 1]
      BY <2>2
    <2>4. 1 .. k \in SUBSET (1 .. n) /\ 1 .. k # {}
      <3>1. \A x \in 1 .. k : x \in 1 .. n
        BY <1>0
      <3> QED
        BY <3>1
    <2>5. iter[1 .. k] = Rec(iter, 1 .. k)
      BY <1>3, <2>4
    <2> QED
      BY <2>1, <2>3, <2>4, <2>5
  <1>6. f[n] = iter[1 .. n]
    BY <1>0
  <1> QED
    BY <1>1, <1>4, <1>5, <1>6

\* What holds of the base and is handed on by every step holds of the fold:
\* the values after k steps are in S[k].
LEMMA FoldInvariant ==
    ASSUME NEW p, NEW base, NEW E, NEW seq \in Seq(E), NEW S,
           base \in S[0],
           \A k \in 1 .. Len(seq) : \A s \in S[k - 1] : Op(p, s, seq[k]) \in S[k]
    PROVE  Fold(p, base, seq) \in S[Len(seq)]
  <1>1. PICK f : /\ f[0] = base
                 /\ \A k \in 1 .. Len(seq) : f[k] = Op(p, f[k - 1], seq[k])
                 /\ Fold(p, base, seq) = f[Len(seq)]
    BY FoldSteps
  <1> DEFINE T == {k \in Nat : k <= Len(seq) => f[k] \in S[k]}
  <1>2. 0 \in T
    BY <1>1
  <1>3. ASSUME NEW k \in Nat, k \in T PROVE k + 1 \in T
    <2> SUFFICES ASSUME k + 1 <= Len(seq) PROVE f[k + 1] \in S[k + 1]
      OBVIOUS
    <2>1. Len(seq) \in Nat /\ k + 1 \in 1 .. Len(seq) /\ (k + 1) - 1 = k
      OBVIOUS
    <2>2. f[k] \in S[k] /\ f[k + 1] = Op(p, f[k], seq[k + 1])
      BY <1>1, <1>3, <2>1
    <2> QED
      BY <2>1, <2>2
  <1>4. Len(seq) \in T
    <2> HIDE DEF T
    <2> QED
      BY <1>2, <1>3, SetInduction
  <1> QED
    BY <1>1, <1>4
=============================================================================
