---------------------------- MODULE ProofLemmas ----------------------------
(***************************************************************************)
(* Lemmas the other proofs share.  What push_back and pop_front do to the  *)
(* set of the items of a list without duplicates; and induction on the     *)
(* natural numbers, stated for sets, with the recursive functions that it  *)
(* gives a value to, FlattenSeq among them.                                *)
(***************************************************************************)
EXTENDS SequencesExt, SequenceTheorems, FiniteSetTheorems, WellFoundedInduction, TLAPS

\* Append adds one item to the set, and keeps a list of distinct items one.
LEMMA AppendItem ==
  ASSUME NEW S, NEW s \in Seq(S), NEW x \in S
  PROVE  /\ Append(s, x) \in Seq(S)
         /\ ToSet(Append(s, x)) = ToSet(s) \cup {x}
         /\ IsInjective(s) /\ x \notin ToSet(s) => IsInjective(Append(s, x))
<1>1. /\ Append(s, x) \in Seq(S)
      /\ Len(Append(s, x)) = Len(s) + 1
      /\ DOMAIN Append(s, x) = 1..(Len(s) + 1)
      /\ \A i \in 1..Len(s) : Append(s, x)[i] = s[i]
      /\ Append(s, x)[Len(s) + 1] = x
      /\ DOMAIN s = 1..Len(s)
      /\ Len(s) \in Nat
  BY AppendProperties, LenProperties
<1>2. ToSet(Append(s, x)) = ToSet(s) \cup {x}
  BY <1>1 DEF ToSet
<1>3. ASSUME IsInjective(s), x \notin ToSet(s)
      PROVE  IsInjective(Append(s, x))
  BY <1>1, <1>3 DEF IsInjective, ToSet
<1>4. QED
  BY <1>1, <1>2, <1>3

\* Head and Tail split a non-empty list; of a list of distinct items the tail
\* no longer has the head.
LEMMA TailItem ==
  ASSUME NEW S, NEW s \in Seq(S), s # <<>>
  PROVE  /\ Head(s) \in S
         /\ Head(s) \in ToSet(s)
         /\ Tail(s) \in Seq(S)
         /\ Len(Tail(s)) = Len(s) - 1
         /\ ToSet(Tail(s)) \cup {Head(s)} = ToSet(s)
         /\ IsInjective(s) => /\ IsInjective(Tail(s))
                              /\ Head(s) \notin ToSet(Tail(s))
<1>1. /\ Head(s) \in S
      /\ Head(s) = s[1]
      /\ Tail(s) \in Seq(S)
      /\ Len(s) \in Nat \ {0}
      /\ Len(Tail(s)) = Len(s) - 1
      /\ DOMAIN s = 1..Len(s)
      /\ DOMAIN Tail(s) = 1..(Len(s) - 1)
      /\ \A i \in 1..(Len(s) - 1) : Tail(s)[i] = s[i + 1]
  BY HeadTailProperties, LenProperties, EmptySeq
<1>2. ToSet(Tail(s)) \cup {Head(s)} = ToSet(s)
  <2>1. ASSUME NEW i \in 1..Len(s)
        PROVE  s[i] \in ToSet(Tail(s)) \cup {Head(s)}
    <3>1. CASE i = 1
      BY <3>1, <1>1
    <3>2. CASE i # 1
      <4>1. i - 1 \in 1..(Len(s) - 1) /\ Tail(s)[i - 1] = s[i]
        BY <3>2, <1>1
      <4>2. QED
        BY <4>1, <1>1 DEF ToSet
    <3>3. QED
      BY <3>1, <3>2
  <2>2. \A i \in 1..(Len(s) - 1) : i + 1 \in 1..Len(s)
    BY <1>1
  <2>3. QED
    BY <1>1, <2>1, <2>2 DEF ToSet
<1>3. ASSUME IsInjective(s)
      PROVE  IsInjective(Tail(s)) /\ Head(s) \notin ToSet(Tail(s))
  BY <1>1, <1>3 DEF IsInjective, ToSet
<1>4. QED
  BY <1>1, <1>2, <1>3

\* The empty list.
LEMMA EmptyItems ==
  ASSUME NEW S
  PROVE  <<>> \in Seq(S) /\ Len(<<>>) = 0 /\ ToSet(<<>>) = {} /\ IsInjective(<<>>)
BY EmptySeq, LenProperties DEF ToSet, IsInjective

\* Lists one after the other, by a name: the provers expand \o.
Joined(s, t) == s \o t

LEMMA JoinedType == ASSUME NEW S PROVE \A s, t \in Seq(S) : Joined(s, t) \in Seq(S)
BY ConcatProperties DEF Joined

LEMMA JoinedOnce ==
  ASSUME NEW S
  PROVE  \A s, t, u \in Seq(S) : Joined(Joined(s, t), u) = Joined(s, Joined(t, u))
BY ConcatAssociative DEF Joined

-----------------------------------------------------------------------------
(***************************************************************************)
(* Induction.  The library's theorems have an operator as a parameter; a   *)
(* set says the same.                                                      *)
(***************************************************************************)
\* A set of natural numbers has a least element: of the intervals 1..n one is
\* in no other.
LEMMA LeastNumber ==
  ASSUME NEW T \in SUBSET Nat, T # {}
  PROVE  \E n \in T : \A m \in T : n <= m
<1>1. PICK k \in T : TRUE
  OBVIOUS
<1> DEFINE U == {1..n : n \in T \cap 0..k}
           R == StrictSubsetOrdering(1..k)
<1>2. k \in Nat /\ IsFiniteSet(1..k)
  BY <1>1, FS_Interval
<1>3. IsWellFoundedOn(R, SUBSET (1..k))
  BY <1>2, FS_StrictSubsetOrderingWellFounded, FS_FiniteSubsetsOfFinite
<1>4. U \subseteq SUBSET (1..k) /\ U # {}
  BY <1>1, <1>2
<1>5. PICK x \in U : \A y \in U : ~(<<y, x>> \in R)
  <2> HIDE DEF R, U
  <2> QED
    BY <1>3, <1>4, WFMin
<1>6. PICK n \in T \cap 0..k : x = 1..n
  BY <1>5
<1>7. ASSUME NEW m \in T, m < n
      PROVE  FALSE
  <2>1. m \in T \cap 0..k /\ n \in Nat /\ m \in Nat
    BY <1>2, <1>6, <1>7
  <2>2. 1..m \in U
    BY <2>1
  <2>3. 1..m \subseteq 1..n /\ n \in 1..n /\ n \notin 1..m
    BY <1>7, <2>1
  <2>4. <<1..m, 1..n>> \in R
    BY <1>4, <1>5, <1>6, <2>2, <2>3 DEF StrictSubsetOrdering
  <2>5. QED
    BY <1>5, <1>6, <2>2, <2>4
<1>8. QED
  BY <1>6, <1>7

LEMMA Induction ==
  ASSUME NEW T, 0 \in T, \A n \in Nat : n \in T => n + 1 \in T
  PROVE  Nat \subseteq T
<1> SUFFICES ASSUME Nat \ T # {} PROVE FALSE
  OBVIOUS
<1>1. PICK n \in Nat \ T : \A m \in Nat \ T : n <= m
  BY LeastNumber
<1>2. n # 0 /\ n - 1 \in Nat
  BY <1>1
<1>3. n - 1 \notin T
  BY <1>2
<1>4. n <= n - 1
  BY <1>1, <1>2, <1>3
<1>5. QED
  BY <1>4

\* A base and a step function into D, and f their recursion over 0..N.
StepsIn(D, base, Step, N) ==
  /\ N \in Nat
  /\ base \in D
  /\ \A n \in 1..N : \A v \in D : Step[<<n, v>>] \in D

Recurs(f, D, base, Step, N) ==
  /\ f \in [0..N -> D]
  /\ f[0] = base
  /\ \A n \in 1..N : f[n] = Step[<<n, f[n - 1]>>]

\* A recursion that stays in a set has a value: Step[<<n, v>>] is the value
\* for n after the value v for n - 1.
LEMMA Recursion ==
  ASSUME NEW D, NEW base, NEW Step, NEW N, StepsIn(D, base, Step, N)
  PROVE  \E f : Recurs(f, D, base, Step, N)
<1> USE DEF StepsIn, Recurs
<1> DEFINE Upto(m) == \E f \in [0..m -> D] :
                         /\ f[0] = base
                         /\ \A n \in 1..m : f[n] = Step[<<n, f[n - 1]>>]
           T == {m \in Nat : m <= N => Upto(m)}
<1>1. 0 \in T
  <2>1. Upto(0)
    <3> DEFINE f == [n \in 0..0 |-> base]
    <3>1. f \in [0..0 -> D] /\ f[0] = base /\ 1..0 = {}
      OBVIOUS
    <3> HIDE DEF f
    <3> QED
      BY <3>1
  <2>2. QED
    BY <2>1
<1>2. ASSUME NEW m \in Nat, m \in T
      PROVE  m + 1 \in T
  <2>1. SUFFICES ASSUME m + 1 <= N PROVE Upto(m + 1)
    OBVIOUS
  <2>2. PICK f \in [0..m -> D] :
           /\ f[0] = base
           /\ \A n \in 1..m : f[n] = Step[<<n, f[n - 1]>>]
    BY <1>2, <2>1
  <2> DEFINE g == [n \in 0..m + 1 |-> IF n = m + 1 THEN Step[<<m + 1, f[m]>>] ELSE f[n]]
  <2>3. f[m] \in D /\ Step[<<m + 1, f[m]>>] \in D
    BY <2>1, <2>2
  <2>4. g \in [0..m + 1 -> D]
    BY <2>2, <2>3
  <2>5. \A n \in 0..m : g[n] = f[n]
    OBVIOUS
  <2>6. g[m + 1] = Step[<<m + 1, f[m]>>]
    OBVIOUS
  <2> HIDE DEF g
  <2>7. g[0] = base
    BY <2>2, <2>5
  <2>8. ASSUME NEW n \in 1..m + 1
        PROVE  g[n] = Step[<<n, g[n - 1]>>]
    <3>1. n - 1 \in 0..m /\ g[n - 1] = f[n - 1]
      BY <2>5
    <3>2. CASE n = m + 1
      BY <2>5, <2>6, <3>2
    <3>3. CASE n \in 1..m
      BY <2>2, <2>5, <3>1, <3>3
    <3>4. QED
      BY <3>2, <3>3
  <2>9. QED
    BY <2>4, <2>7, <2>8
<1>3. Nat \subseteq T
  <2> HIDE DEF T
  <2> QED
    BY <1>1, <1>2, Induction
<1>4. QED
  BY <1>3
-----------------------------------------------------------------------------
(***************************************************************************)
(* FlattenSeq.                                                             *)
(***************************************************************************)
\* f[n] is the concatenation of the first n sequences of ss.
Sums(f, ss, S) ==
  /\ f \in [0..Len(ss) -> Seq(S)]
  /\ f[0] = <<>>
  /\ \A n \in 1..Len(ss) : f[n] = f[n - 1] \o ss[n]

LEMMA FlattenSums ==
  ASSUME NEW S, NEW ss \in Seq(Seq(S)), NEW f, Sums(f, ss, S)
  PROVE  FlattenSeq(ss) = f[Len(ss)]
<1> DEFINE N == Len(ss)
<1>1. N \in Nat /\ f \in [0..N -> Seq(S)] /\ f[0] = <<>>
  BY DEF Sums
<1>2. ASSUME NEW n \in 1..N
      PROVE  f[n] = f[n - 1] \o ss[n] /\ ss[n] \in Seq(S) /\ f[n] \in Seq(S)
  <2>1. ss[n] \in Seq(S)
    BY ElementOfSeq
  <2>2. f[n] = f[n - 1] \o ss[n]
    BY Zenon DEF Sums
  <2>3. f[n] \in Seq(S)
    <3>1. n \in 0..N
      BY <1>1
    <3>2. QED
      BY <1>1, <3>1, Zenon
  <2>4. QED
    BY <2>1, <2>2, <2>3
<1>3. CASE N = 0
  <2>1. ss = <<>>
    BY <1>3
  <2>2. FlattenSeq(ss) = ss
    BY <1>3 DEF FlattenSeq
  <2>3. QED
    BY <1>1, <1>3, <2>1, <2>2
<1>4. CASE N > 0
  <2> DEFINE F == CHOOSE F : F = [i \in 1..N |-> IF i = 1 THEN ss[i] ELSE F[i - 1] \o ss[i]]
             h == [i \in 1..N |-> f[i]]
  <2>1. FlattenSeq(ss) = F[N]
    BY <1>4 DEF FlattenSeq
  <2>2. h = [i \in 1..N |-> IF i = 1 THEN ss[i] ELSE h[i - 1] \o ss[i]]
    <3>1. ASSUME NEW i \in 1..N
          PROVE  h[i] = IF i = 1 THEN ss[i] ELSE h[i - 1] \o ss[i]
      <4>1. CASE i = 1
        <5>1. f[1] = <<>> \o ss[1] /\ ss[1] \in Seq(S)
          <6>1. f[i] = f[i - 1] \o ss[i] /\ ss[i] \in Seq(S)
            BY <1>2
          <6>2. i - 1 = 0 /\ f[i - 1] = <<>>
            BY <1>1, <4>1
          <6>3. QED
            BY <4>1, <6>1, <6>2
        <5>2. <<>> \o ss[1] = ss[1]
          BY <5>1, ConcatEmptySeq
        <5>3. QED
          BY <4>1, <5>1, <5>2
      <4>2. CASE i # 1
        <5>1. i - 1 \in 1..N
          BY <1>1, <4>2
        <5>2. QED
          BY <1>2, <4>2, <5>1
      <4>3. QED
        BY <4>1, <4>2
    <3> HIDE DEF h
    <3>2. h = [i \in 1..N |-> h[i]]
      BY DEF h
    <3>3. QED
      BY <3>1, <3>2
  <2>3. F = [i \in 1..N |-> IF i = 1 THEN ss[i] ELSE F[i - 1] \o ss[i]]
    <3> HIDE DEF h
    <3> QED
      BY <2>2
  <2> HIDE DEF F
  <2> DEFINE T == {n \in Nat : n + 1 \in 1..N => F[n + 1] = f[n + 1]}
  <2>4. 0 \in T
    <3>1. 1 \in 1..N /\ F[1] = ss[1]
      BY <1>1, <1>4, <2>3
    <3>2. f[1] = <<>> \o ss[1] /\ ss[1] \in Seq(S)
      BY <1>1, <1>2, <3>1
    <3>3. <<>> \o ss[1] = ss[1]
      BY <3>2, ConcatEmptySeq
    <3>4. QED
      BY <3>1, <3>2, <3>3
  <2>5. ASSUME NEW n \in Nat, n \in T
        PROVE  n + 1 \in T
    <3>1. SUFFICES ASSUME (n + 1) + 1 \in 1..N PROVE F[(n + 1) + 1] = f[(n + 1) + 1]
      OBVIOUS
    <3>2. n + 1 \in 1..N /\ F[n + 1] = f[n + 1]
      BY <1>1, <2>5, <3>1
    <3>3. F[(n + 1) + 1] = F[n + 1] \o ss[(n + 1) + 1]
      <4>1. (n + 1) + 1 # 1 /\ ((n + 1) + 1) - 1 = n + 1
        OBVIOUS
      <4>2. QED
        BY <2>3, <3>1, <4>1
    <3>4. f[(n + 1) + 1] = f[n + 1] \o ss[(n + 1) + 1]
      <4>1. ((n + 1) + 1) - 1 = n + 1
        OBVIOUS
      <4>2. QED
        BY <1>2, <3>1, <4>1
    <3>5. QED
      BY <3>2, <3>3, <3>4
  <2>6. Nat \subseteq T
    <3> HIDE DEF T
    <3> QED
      BY <2>4, <2>5, Induction
  <2>7. N - 1 \in Nat /\ (N - 1) + 1 = N /\ N \in 1..N
    BY <1>1, <1>4
  <2>8. F[N] = f[N]
    BY <2>6, <2>7
  <2>9. QED
    BY <2>1, <2>8
<1>5. QED
  BY <1>1, <1>3, <1>4

LEMMA SumsExist ==
  ASSUME NEW S, NEW ss \in Seq(Seq(S))
  PROVE  \E f : Sums(f, ss, S)
<1> DEFINE N == Len(ss)
           Step == [nv \in (1..N) \X Seq(S) |-> nv[2] \o ss[nv[1]]]
<1>1. N \in Nat /\ <<>> \in Seq(S)
  BY EmptySeq
<1>2. ASSUME NEW n \in 1..N, NEW v \in Seq(S)
      PROVE  Step[<<n, v>>] = v \o ss[n] /\ v \o ss[n] \in Seq(S)
  <2>1. ss[n] \in Seq(S)
    OBVIOUS
  <2>2. QED
    BY <2>1, ConcatProperties
<1> HIDE DEF Step
<1>3. StepsIn(Seq(S), <<>>, Step, N)
  BY <1>1, <1>2 DEF StepsIn
<1>4. PICK f : Recurs(f, Seq(S), <<>>, Step, N)
  BY <1>3, Recursion, Zenon
<1>5. f \in [0..N -> Seq(S)] /\ f[0] = <<>>
  BY <1>4, Zenon DEF Recurs
<1>6. ASSUME NEW n \in 1..N
      PROVE  f[n] = f[n - 1] \o ss[n]
  <2>1. n - 1 \in 0..N
    BY <1>1
  <2>2. f[n] = Step[<<n, f[n - 1]>>]
    BY <1>4, Zenon DEF Recurs
  <2>3. f[n - 1] \in Seq(S)
    BY <1>5, <2>1
  <2>4. QED
    BY <1>2, <2>2, <2>3, Zenon
<1>7. QED
  BY <1>5, <1>6, Zenon DEF Sums

\* What FlattenSeq does with one sequence more.
LEMMA FlattenAppend ==
  ASSUME NEW S, NEW ss \in Seq(Seq(S)), NEW s \in Seq(S)
  PROVE  /\ FlattenSeq(ss) \in Seq(S)
         /\ FlattenSeq(Append(ss, s)) = FlattenSeq(ss) \o s
<1>1. PICK f : Sums(f, ss, S)
  BY SumsExist
<1> DEFINE N == Len(ss)
           g == [n \in 0..N + 1 |-> IF n = N + 1 THEN f[N] \o s ELSE f[n]]
           tt == Append(ss, s)
<1>2. N \in Nat /\ f \in [0..N -> Seq(S)] /\ f[0] = <<>>
  BY <1>1 DEF Sums
<1>3. FlattenSeq(ss) = f[N] /\ f[N] \in Seq(S)
  BY <1>1, <1>2, FlattenSums
<1>4. /\ tt \in Seq(Seq(S)) /\ Len(tt) = N + 1 /\ tt[N + 1] = s
      /\ \A n \in 1..N : tt[n] = ss[n]
  BY AppendProperties
<1>5. f[N] \o s \in Seq(S)
  BY <1>3, ConcatProperties
<1>6. g \in [0..N + 1 -> Seq(S)] /\ g[N + 1] = f[N] \o s /\ \A n \in 0..N : g[n] = f[n]
  BY <1>2, <1>5
<1> HIDE DEF g, tt
<1>7. \A n \in 1..N + 1 : g[n] = g[n - 1] \o tt[n]
  <2>1. \A n \in 1..N : f[n] = f[n - 1] \o ss[n]
    BY <1>1, Zenon DEF Sums
  <2>2. ASSUME NEW n \in 1..N
        PROVE  g[n] = g[n - 1] \o tt[n]
    <3>1. n \in 0..N /\ n - 1 \in 0..N
      BY <1>2
    <3>2. g[n] = f[n] /\ g[n - 1] = f[n - 1] /\ tt[n] = ss[n] /\ f[n] = f[n - 1] \o ss[n]
      BY <1>4, <1>6, <2>1, <3>1, Zenon
    <3>3. QED
      BY <3>2, Zenon
  <2>3. (N + 1) - 1 = N /\ N \in 0..N
    BY <1>2
  <2>4. g[N + 1] = g[(N + 1) - 1] \o tt[N + 1]
    BY <1>4, <1>6, <2>3
  <2>5. ASSUME NEW n \in 1..N + 1
        PROVE  g[n] = g[n - 1] \o tt[n]
    <3>1. n \in 1..N \/ n = N + 1
      BY <1>2
    <3>2. QED
      BY <2>2, <2>4, <3>1
  <2>6. QED
    BY <2>5
<1>8. Sums(g, tt, S)
  BY <1>2, <1>4, <1>6, <1>7, SMTT(20) DEF Sums
<1>9. QED
  BY <1>3, <1>4, <1>6, <1>8, FlattenSums DEF tt
=============================================================================
