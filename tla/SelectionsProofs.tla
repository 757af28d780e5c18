-------------------------- MODULE SelectionsProofs --------------------------
(***************************************************************************)
(* Lemmas on sequences and on the operators of Selections, for sequences   *)
(* of every length.  The prover has no induction over data: these proofs   *)
(* use the well-founded order of the natural numbers, on a set instead of  *)
(* a predicate (SetInduction, SeqInduction).                               *)
(***************************************************************************)
EXTENDS Selections, Integers, FiniteSets, SequenceTheorems, FiniteSetTheorems,
        WellFoundedInduction, TLAPS

-----------------------------------------------------------------------------
(* Induction, and FlattenSeq. *)

\* A set with 0 that is closed under the successor holds all numbers.
LEMMA SetInduction ==
  ASSUME NEW N, 0 \in N, \A n \in Nat : n \in N => n + 1 \in N
  PROVE  Nat \subseteq N
<1> DEFINE R == OpToRel(<, Nat)
<1> DEFINE T == Nat \ N
<1>1. IsWellFoundedOn(R, Nat)
  BY NatLessThanWellFounded
<1>2. ASSUME T # {} PROVE FALSE
  <2> HIDE DEF R
  <2>1. PICK x \in T : \A y \in T : ~ (<<y, x>> \in R)
    BY <1>1, <1>2, WFMin
  <2>2. x # 0 /\ x - 1 \in Nat
    OBVIOUS
  <2>3. <<x - 1, x>> \in R
    BY <2>1, <2>2 DEF R, OpToRel
  <2>4. x - 1 \in N
    BY <2>1, <2>2, <2>3
  <2> QED
    BY <2>2, <2>4
<1> QED
  BY <1>2

\* A set with the empty sequence that is closed under Append holds all
\* sequences.
LEMMA SeqInduction ==
  ASSUME NEW S, NEW P, <<>> \in P,
         \A s \in Seq(S), e \in S : s \in P => Append(s, e) \in P
  PROVE  Seq(S) \subseteq P
<1> DEFINE N == {n \in Nat : \A s \in Seq(S) : Len(s) = n => s \in P}
<1>1. 0 \in N
  <2>1. ASSUME NEW s \in Seq(S), Len(s) = 0 PROVE s \in P
    BY <2>1, EmptySeq
  <2> QED
    BY <2>1
<1>2. ASSUME NEW n \in Nat, n \in N PROVE n + 1 \in N
  <2>1. ASSUME NEW s \in Seq(S), Len(s) = n + 1 PROVE s \in P
    <3> DEFINE t == SubSeq(s, 1, n)
    <3>1. s[n + 1] \in S /\ \A i \in 1 .. n : s[i] \in S
      BY <2>1, ElementOfSeq
    <3>2. t \in Seq(S) /\ Len(t) = n /\ \A i \in 1 .. n : t[i] = s[i]
      BY <3>1, SubSeqProperties
    <3>3. s = Append(t, s[n + 1])
      BY <2>1, <3>1, <3>2
    <3>4. t \in P
      BY <1>2, <3>2
    <3> QED
      BY <3>1, <3>2, <3>3, <3>4
  <2> QED
    BY <2>1
<1>3. Nat \subseteq N
  <2> HIDE DEF N
  <2> QED
    BY <1>1, <1>2, SetInduction
<1> QED
  <2>1. ASSUME NEW s \in Seq(S) PROVE s \in P
    <3>1. Len(s) \in Nat
      OBVIOUS
    <3> QED
      BY <1>3, <3>1
  <2> QED
    BY <2>1

Flattened(f, ss, i) == IF i = 1 THEN ss[i] ELSE f[i - 1] \o ss[i]
IsFlat(f, ss, n)    == f = [i \in 1 .. n |-> Flattened(f, ss, i)]

LEMMA IsFlatAt ==
  ASSUME NEW f, NEW ss, NEW n \in Nat, IsFlat(f, ss, n), NEW i \in 1 .. n
  PROVE  f[i] = Flattened(f, ss, i)
BY DEF IsFlat

LEMMA FlatExists ==
  ASSUME NEW S, NEW ss \in Seq(Seq(S))
  PROVE  \A n \in Nat : n <= Len(ss) => \E f \in [1 .. n -> Seq(S)] : IsFlat(f, ss, n)
<1> DEFINE N == {n \in Nat : n <= Len(ss) => \E f \in [1 .. n -> Seq(S)] : IsFlat(f, ss, n)}
<1>1. 0 \in N
  <2> DEFINE e == [i \in {} |-> {}]
  <2>1. e \in [1 .. 0 -> Seq(S)]
    OBVIOUS
  <2>2. IsFlat(e, ss, 0)
    BY DEF IsFlat
  <2> QED
    BY <2>1, <2>2
<1>2. ASSUME NEW n \in Nat, n \in N PROVE n + 1 \in N
  <2> SUFFICES ASSUME n + 1 <= Len(ss)
               PROVE  \E g \in [1 .. n + 1 -> Seq(S)] : IsFlat(g, ss, n + 1)
    OBVIOUS
  <2>1. PICK f \in [1 .. n -> Seq(S)] : IsFlat(f, ss, n)
    BY <1>2
  <2> DEFINE g == [i \in 1 .. n + 1 |-> Flattened(f, ss, i)]
  <2>0. DOMAIN g = 1 .. n + 1 /\ \A i \in 1 .. n + 1 : g[i] = Flattened(f, ss, i)
    OBVIOUS
  <2>7. g = [i \in 1 .. n + 1 |-> g[i]]
    OBVIOUS
  <2>8. g = [i \in 1 .. n + 1 |-> Flattened(f, ss, i)]
    OBVIOUS
  <2> HIDE DEF g
  <2>2. \A i \in 1 .. n : g[i] = f[i]
    BY <2>0, <2>1, IsFlatAt
  <2>3. \A i \in 1 .. n + 1 : Flattened(g, ss, i) = Flattened(f, ss, i)
    <3> SUFFICES ASSUME NEW i \in 1 .. n + 1, i # 1
                 PROVE  Flattened(g, ss, i) = Flattened(f, ss, i)
      BY DEF Flattened
    <3>1. i - 1 \in 1 .. n
      OBVIOUS
    <3>2. g[i - 1] = f[i - 1]
      BY <2>2, <3>1
    <3> QED
      BY <3>2, Zenon DEF Flattened
  <2>4. IsFlat(g, ss, n + 1)
    BY <2>3, <2>8 DEF IsFlat
  <2>5. Flattened(f, ss, n + 1) \in Seq(S)
    <3>1. ss[n + 1] \in Seq(S)
      BY ElementOfSeq
    <3>2. n # 0 => f[n] \in Seq(S)
      OBVIOUS
    <3> QED
      BY <3>1, <3>2 DEF Flattened
  <2>6. g \in [1 .. n + 1 -> Seq(S)]
    <3>1. \A i \in 1 .. n + 1 : g[i] \in Seq(S)
      <4>1. \A i \in 1 .. n : g[i] \in Seq(S)
        BY <2>2
      <4> QED
        BY <4>1, <2>0, <2>5
    <3> QED
      BY <3>1, <2>7
  <2> QED
    BY <2>4, <2>6
<1> QED
  <2> HIDE DEF N
  <2>1. Nat \subseteq N
    BY <1>1, <1>2, SetInduction
  <2> QED
    BY <2>1 DEF N

\* Two of them agree as far as both go.
LEMMA FlatUnique ==
  ASSUME NEW ss, NEW m \in Nat, NEW n \in Nat, m <= n,
         NEW f, NEW g, IsFlat(f, ss, m), IsFlat(g, ss, n)
  PROVE  \A i \in 1 .. m : f[i] = g[i]
<1> DEFINE N == {k \in Nat : k + 1 <= m => f[k + 1] = g[k + 1]}
<1>0. /\ \A i \in 1 .. m : f[i] = Flattened(f, ss, i)
      /\ \A i \in 1 .. n : g[i] = Flattened(g, ss, i)
  BY DEF IsFlat
<1>1. 0 \in N
  BY <1>0 DEF Flattened
<1>2. ASSUME NEW k \in Nat, k \in N PROVE k + 1 \in N
  <2> SUFFICES ASSUME k + 2 <= m PROVE f[k + 2] = g[k + 2]
    OBVIOUS
  <2>1. k + 2 \in 1 .. m /\ k + 2 \in 1 .. n /\ k + 2 # 1
    OBVIOUS
  <2>2. f[(k + 2) - 1] = g[(k + 2) - 1]
    BY <1>2
  <2>3. Flattened(f, ss, k + 2) = Flattened(g, ss, k + 2)
    BY <2>1, <2>2, Zenon DEF Flattened
  <2> QED
    BY <1>0, <2>1, <2>3
<1>3. Nat \subseteq N
  <2> HIDE DEF N
  <2> QED
    BY <1>1, <1>2, SetInduction
<1> QED
  <2>1. ASSUME NEW i \in 1 .. m PROVE f[i] = g[i]
    <3>1. i - 1 \in N
      BY <1>3
    <3> QED
      BY <3>1
  <2> QED
    BY <2>1

\* FlattenSeq is the last value of any such function.
LEMMA FlattenIsFlat ==
  ASSUME NEW S, NEW ss \in Seq(Seq(S)), ss # <<>>
  PROVE  \E f \in [1 .. Len(ss) -> Seq(S)] : IsFlat(f, ss, Len(ss)) /\ FlattenSeq(ss) = f[Len(ss)]
<1> DEFINE F == CHOOSE f : IsFlat(f, ss, Len(ss))
<1>1. PICK f \in [1 .. Len(ss) -> Seq(S)] : IsFlat(f, ss, Len(ss))
  BY FlatExists
<1>2. IsFlat(F, ss, Len(ss))
  BY <1>1
<1>3. Len(ss) # 0
  OBVIOUS
<1>4. FlattenSeq(ss) = F[Len(ss)]
  BY <1>3, Zenon DEF FlattenSeq, IsFlat, Flattened
<1>5. f[Len(ss)] = F[Len(ss)]
  <2> HIDE DEF F
  <2> QED
    BY <1>1, <1>2, <1>3, FlatUnique
<1> QED
  BY <1>1, <1>4, <1>5

LEMMA FlattenEmpty == FlattenSeq(<<>>) = <<>>
<1>1. Len(<<>>) = 0
  OBVIOUS
<1> QED
  BY <1>1, Zenon DEF FlattenSeq

LEMMA FlattenType ==
  ASSUME NEW S, NEW ss \in Seq(Seq(S))
  PROVE  FlattenSeq(ss) \in Seq(S)
<1>1. CASE ss = <<>>
  <2>1. FlattenSeq(ss) = <<>>
    BY <1>1, FlattenEmpty, Zenon
  <2> QED
    BY <2>1, EmptySeq
<1>2. CASE ss # <<>>
  <2>1. Len(ss) \in 1 .. Len(ss)
    BY <1>2, EmptySeq
  <2>2. PICK f \in [1 .. Len(ss) -> Seq(S)] : FlattenSeq(ss) = f[Len(ss)]
    BY <1>2, FlattenIsFlat
  <2>3. f[Len(ss)] \in Seq(S)
    BY <2>1
  <2> QED
    BY <2>2, <2>3
<1> QED
  BY <1>1, <1>2

\* FlattenSeq takes its rows one after the other.
LEMMA FlattenAppend ==
  ASSUME NEW S, NEW ss \in Seq(Seq(S)), NEW s \in Seq(S)
  PROVE  FlattenSeq(Append(ss, s)) = FlattenSeq(ss) \o s
<1> DEFINE tt == Append(ss, s)
<1> DEFINE n == Len(ss)
<1>1. /\ n \in Nat /\ tt \in Seq(Seq(S)) /\ Len(tt) = n + 1 /\ tt # <<>>
      /\ \A i \in 1 .. n : tt[i] = ss[i]
      /\ tt[n + 1] = s
  BY AppendProperties
<1> HIDE DEF tt
<1>2. PICK g \in [1 .. n + 1 -> Seq(S)] : IsFlat(g, tt, n + 1) /\ FlattenSeq(tt) = g[n + 1]
  BY <1>1, FlattenIsFlat
<1>3. CASE ss = <<>>
  <2>1. FlattenSeq(tt) = g[1] /\ n = 0
    BY <1>2, <1>3
  <2>2. g[1] = tt[1]
    <3>1. 1 \in 1 .. n + 1
      BY <2>1
    <3>2. g[1] = Flattened(g, tt, 1)
      BY <1>1, <1>2, <3>1, IsFlatAt
    <3> QED
      BY <3>2, Zenon DEF Flattened
  <2>3. FlattenSeq(tt) = s
    BY <1>1, <2>1, <2>2
  <2>4. FlattenSeq(ss) = <<>>
    BY <1>3, FlattenEmpty
  <2> QED
    BY <2>3, <2>4, ConcatEmptySeq DEF tt
<1>4. CASE ss # <<>>
  <2>1. PICK f \in [1 .. n -> Seq(S)] : IsFlat(f, ss, n) /\ FlattenSeq(ss) = f[n]
    BY <1>4, FlattenIsFlat
  <2>2. \A i \in 1 .. n : Flattened(f, ss, i) = Flattened(f, tt, i)
    <3> SUFFICES ASSUME NEW i \in 1 .. n PROVE Flattened(f, ss, i) = Flattened(f, tt, i)
      OBVIOUS
    <3>1. ss[i] = tt[i]
      BY <1>1
    <3> QED
      BY <3>1, Zenon DEF Flattened
  <2>3. IsFlat(f, tt, n)
    BY <2>1, <2>2, Zenon DEF IsFlat
  <2>4. n \in 1 .. n /\ n + 1 \in 1 .. n + 1 /\ n + 1 # 1 /\ (n + 1) - 1 = n /\ n <= n + 1
    BY <1>1, <1>4, EmptySeq
  <2>5. f[n] = g[n]
    BY <1>1, <1>2, <2>3, <2>4, FlatUnique
  <2>6. g[n + 1] = Flattened(g, tt, n + 1)
    BY <1>1, <1>2, <2>4, IsFlatAt
  <2>7. g[n + 1] = g[n] \o tt[n + 1]
    BY <2>4, <2>6, Zenon DEF Flattened
  <2> QED
    BY <1>1, <1>2, <2>1, <2>5, <2>7 DEF tt
<1> QED
  BY <1>3, <1>4

-----------------------------------------------------------------------------
(* The elements of a sequence that are in a set. *)

One(e, T) == IF e \in T THEN <<e>> ELSE <<>>

LEMMA ThoseRows ==
  ASSUME NEW S, NEW s \in Seq(S), NEW T
  PROVE  [i \in DOMAIN s |-> One(s[i], T)] \in Seq(Seq(S))
<1>1. \A i \in 1 .. Len(s) : One(s[i], T) \in Seq(S)
  BY ElementOfSeq DEF One
<1> QED
  BY <1>1

LEMMA ThoseType ==
  ASSUME NEW S, NEW s \in Seq(S), NEW T
  PROVE  Those(s, T) \in Seq(S)
<1>1. Those(s, T) = FlattenSeq([i \in DOMAIN s |-> One(s[i], T)])
  BY Zenon DEF Those, One
<1> QED
  BY <1>1, ThoseRows, FlattenType

LEMMA ThoseEmpty == \A T : Those(<<>>, T) = <<>>
<1> SUFFICES ASSUME NEW T PROVE Those(<<>>, T) = <<>>
  OBVIOUS
<1>1. Those(<<>>, T) = FlattenSeq([i \in DOMAIN <<>> |-> One(<<>>[i], T)])
  BY Zenon DEF Those, One
<1>2. [i \in DOMAIN <<>> |-> One(<<>>[i], T)] = <<>>
  OBVIOUS
<1> QED
  BY <1>1, <1>2, FlattenEmpty, Zenon

LEMMA ThoseAppend ==
  ASSUME NEW S, NEW s \in Seq(S), NEW e \in S, NEW T
  PROVE  Those(Append(s, e), T) = Those(s, T) \o One(e, T)
<1> DEFINE t == Append(s, e)
<1> DEFINE Rows(r) == [i \in DOMAIN r |-> One(r[i], T)]
<1>1. t \in Seq(S) /\ Len(t) = Len(s) + 1 /\ t[Len(s) + 1] = e
        /\ \A i \in 1 .. Len(s) : t[i] = s[i]
  OBVIOUS
<1>2. Those(t, T) = FlattenSeq(Rows(t)) /\ Those(s, T) = FlattenSeq(Rows(s))
  BY Zenon DEF Those, One
<1>3. Rows(t) \in Seq(Seq(S)) /\ Rows(s) \in Seq(Seq(S)) /\ One(e, T) \in Seq(S)
  <2>1. One(e, T) \in Seq(S)
    BY DEF One
  <2> QED
    BY <1>1, <2>1, ThoseRows
<1>4. Rows(t) = Append(Rows(s), One(e, T))
  <2>1. /\ Rows(s) \in Seq(Seq(S)) /\ Len(Rows(s)) = Len(s)
        /\ \A i \in 1 .. Len(s) : Rows(s)[i] = One(s[i], T)
    BY <1>3
  <2>2. /\ Rows(t) \in Seq(Seq(S)) /\ Len(Rows(t)) = Len(s) + 1
        /\ \A i \in 1 .. Len(s) + 1 : Rows(t)[i] = One(t[i], T)
    BY <1>1, <1>3
  <2> HIDE DEF Rows, t
  <2>3. \A i \in 1 .. Len(s) + 1 : Rows(t)[i] = Append(Rows(s), One(e, T))[i]
    BY <1>1, <1>3, <2>1, <2>2
  <2>4. /\ Append(Rows(s), One(e, T)) \in Seq(Seq(S))
        /\ Len(Append(Rows(s), One(e, T))) = Len(s) + 1
    BY <1>3, <2>1
  <2> QED
    BY <2>2, <2>3, <2>4, SeqEqual
<1> HIDE DEF Rows
<1> QED
  BY <1>2, <1>3, <1>4, FlattenAppend

LEMMA ThoseOne == \A e, T : Those(<<e>>, T) = One(e, T)
<1> SUFFICES ASSUME NEW e, NEW T PROVE Those(<<e>>, T) = One(e, T)
  OBVIOUS
<1>1. <<e>> = Append(<<>>, e) /\ <<>> \in Seq({e}) /\ e \in {e}
  OBVIOUS
<1>2. Those(Append(<<>>, e), T) = Those(<<>>, T) \o One(e, T)
  BY <1>1, ThoseAppend
<1>3. <<>> \o One(e, T) = One(e, T)
  BY ConcatEmptySeq DEF One
<1> QED
  BY <1>1, <1>2, <1>3, ThoseEmpty, Zenon

LEMMA ThoseRange ==
  ASSUME NEW S, NEW s \in Seq(S), NEW T
  PROVE  Those(s, T) \in Seq(S \cap T)
<1>1. Those(s, T) = FlattenSeq([i \in DOMAIN s |-> One(s[i], T)])
  BY Zenon DEF Those, One
<1>2. [i \in DOMAIN s |-> One(s[i], T)] \in Seq(Seq(S \cap T))
  <2>1. ASSUME NEW i \in 1 .. Len(s) PROVE One(s[i], T) \in Seq(S \cap T)
    <3>1. s[i] \in S
      BY ElementOfSeq
    <3>2. CASE s[i] \in T
      <4>1. s[i] \in S \cap T
        BY <3>1, <3>2
      <4>2. <<s[i]>> \in Seq(S \cap T)
        BY <4>1
      <4> QED
        BY <3>2, <4>2, Zenon DEF One
    <3>3. CASE s[i] \notin T
      <4>1. One(s[i], T) = <<>>
        BY <3>3, Zenon DEF One
      <4> QED
        BY <4>1, EmptySeq
    <3> QED
      BY <3>2, <3>3
  <2> QED
    BY <2>1
<1> QED
  BY <1>1, <1>2, FlattenType

\* Only the elements that s can have matter.
LEMMA ThoseSame ==
  ASSUME NEW S, NEW s \in Seq(S), NEW T, NEW U, S \cap T = S \cap U
  PROVE  Those(s, T) = Those(s, U)
<1>1. \A i \in DOMAIN s : One(s[i], T) = One(s[i], U)
  <2> SUFFICES ASSUME NEW i \in DOMAIN s PROVE One(s[i], T) = One(s[i], U)
    OBVIOUS
  <2>1. s[i] \in S
    OBVIOUS
  <2> QED
    BY <2>1, Zenon DEF One
<1>2. [i \in DOMAIN s |-> One(s[i], T)] = [i \in DOMAIN s |-> One(s[i], U)]
  BY <1>1, Zenon
<1> QED
  BY <1>2, Zenon DEF Those, One

LEMMA ThoseAll ==
  ASSUME NEW T
  PROVE  \A s \in Seq(T) : Those(s, T) = s
<1> DEFINE P == {s \in Seq(T) : Those(s, T) = s}
<1>1. <<>> \in P
  BY ThoseEmpty, EmptySeq
<1>2. ASSUME NEW s \in Seq(T), NEW e \in T, s \in P PROVE Append(s, e) \in P
  <2>1. Those(Append(s, e), T) = s \o <<e>>
    <3>1. One(e, T) = <<e>>
      BY DEF One
    <3>2. Those(Append(s, e), T) = Those(s, T) \o One(e, T)
      BY ThoseAppend
    <3>3. Those(s, T) = s
      BY <1>2
    <3> QED
      BY <3>1, <3>2, <3>3, Zenon
  <2> QED
    BY <2>1, AppendProperties, AppendIsConcat
<1> HIDE DEF P
<1>3. Seq(T) \subseteq P
  BY <1>1, <1>2, SeqInduction
<1> QED
  BY <1>3 DEF P

LEMMA ThoseNone ==
  ASSUME NEW S, NEW T, S \cap T = {}, NEW s \in Seq(S)
  PROVE  Those(s, T) = <<>>
<1>1. Those(s, T) \in Seq({})
  BY ThoseRange
<1>2. Len(Those(s, T)) = 0
  <2> SUFFICES ASSUME Len(Those(s, T)) # 0 PROVE FALSE
    OBVIOUS
  <2>1. 1 \in 1 .. Len(Those(s, T))
    BY <1>1, LenProperties
  <2> QED
    BY <1>1, <2>1, ElementOfSeq
<1> QED
  BY <1>1, <1>2, EmptySeq

LEMMA ThoseConcat ==
  ASSUME NEW S, NEW s \in Seq(S), NEW T
  PROVE  \A t \in Seq(S) : Those(s \o t, T) = Those(s, T) \o Those(t, T)
<1> DEFINE P == {t \in Seq(S) : Those(s \o t, T) = Those(s, T) \o Those(t, T)}
<1>1. <<>> \in P
  <2>1. s \o <<>> = s /\ Those(s, T) \o <<>> = Those(s, T)
    BY ThoseType, ConcatEmptySeq
  <2>2. Those(s \o <<>>, T) = Those(s, T) \o Those(<<>>, T)
    BY <2>1, ThoseEmpty, Zenon
  <2> QED
    BY <2>2, EmptySeq
<1>2. ASSUME NEW t \in Seq(S), NEW e \in S, t \in P PROVE Append(t, e) \in P
  <2>1. s \o Append(t, e) = Append(s \o t, e) /\ s \o t \in Seq(S) /\ Append(t, e) \in Seq(S)
    OBVIOUS
  <2>2. Those(Append(s \o t, e), T) = Those(s \o t, T) \o One(e, T)
    BY <2>1, ThoseAppend
  <2>3. Those(s \o t, T) = Those(s, T) \o Those(t, T)
    BY <1>2
  <2>4. Those(Append(t, e), T) = Those(t, T) \o One(e, T)
    BY ThoseAppend
  <2>5. (Those(s, T) \o Those(t, T)) \o One(e, T) = Those(s, T) \o (Those(t, T) \o One(e, T))
    <3> DEFINE a == Those(s, T)
    <3> DEFINE b == Those(t, T)
    <3> DEFINE c == One(e, T)
    <3>1. a \in Seq(S) /\ b \in Seq(S) /\ c \in Seq(S)
      BY ThoseType DEF One
    <3> HIDE DEF a, b, c
    <3>2. (a \o b) \o c = a \o (b \o c)
      BY <3>1, ConcatAssociative
    <3> QED
      BY <3>2 DEF a, b, c
  <2> QED
    BY <2>1, <2>2, <2>3, <2>4, <2>5
<1> HIDE DEF P
<1>3. Seq(S) \subseteq P
  BY <1>1, <1>2, SeqInduction
<1> QED
  BY <1>3 DEF P

\* Two selections are one.
LEMMA ThoseThose ==
  ASSUME NEW S, NEW T, NEW U
  PROVE  \A s \in Seq(S) : Those(Those(s, T), U) = Those(s, T \cap U)
<1> DEFINE P == {s \in Seq(S) : Those(Those(s, T), U) = Those(s, T \cap U)}
<1>1. <<>> \in P
  BY ThoseEmpty
<1>2. ASSUME NEW s \in Seq(S), NEW e \in S, s \in P PROVE Append(s, e) \in P
  <2>1. Those(s, T) \in Seq(S) /\ One(e, T) \in Seq(S) /\ Append(s, e) \in Seq(S)
    BY ThoseType DEF One
  <2>2. Those(Those(Append(s, e), T), U) = Those(s, T \cap U) \o Those(One(e, T), U)
    <3>1. Those(Append(s, e), T) = Those(s, T) \o One(e, T)
      BY ThoseAppend
    <3>2. Those(Those(s, T) \o One(e, T), U) = Those(Those(s, T), U) \o Those(One(e, T), U)
      BY <2>1, ThoseConcat
    <3>3. Those(Those(s, T), U) = Those(s, T \cap U)
      BY <1>2
    <3> QED
      BY <3>1, <3>2, <3>3, Zenon
  <2>3. Those(One(e, T), U) = One(e, T \cap U)
    <3>1. Those(<<e>>, U) = One(e, U)
      BY ThoseOne
    <3> QED
      BY <3>1, ThoseEmpty DEF One
  <2>4. Those(Append(s, e), T \cap U) = Those(s, T \cap U) \o One(e, T \cap U)
    BY ThoseAppend
  <2> QED
    BY <2>1, <2>2, <2>3, <2>4
<1> HIDE DEF P
<1>3. Seq(S) \subseteq P
  BY <1>1, <1>2, SeqInduction
<1> QED
  BY <1>3 DEF P

LEMMA AppendDomain ==
  ASSUME NEW S, NEW s \in Seq(S), NEW e \in S
  PROVE  /\ Append(s, e) \in Seq(S) /\ Append(s, e)[Len(s) + 1] = e
         /\ \A k \in 1 .. Len(s) : Append(s, e)[k] = s[k]
         /\ DOMAIN Append(s, e) = 1 .. Len(s) + 1
         /\ DOMAIN s = 1 .. Len(s) /\ Len(s) \in Nat
<1>1. /\ Append(s, e) \in Seq(S) /\ Append(s, e)[Len(s) + 1] = e
      /\ \A k \in 1 .. Len(s) : Append(s, e)[k] = s[k]
      /\ Len(Append(s, e)) = Len(s) + 1
  BY AppendProperties
<1> QED
  BY <1>1, LenProperties

LEMMA FunctionIsSeq ==
  ASSUME NEW S, NEW n \in Nat, NEW f, f = [i \in 1 .. n |-> f[i]], \A i \in 1 .. n : f[i] \in S
  PROVE  f \in Seq(S) /\ Len(f) = n
<1>1. f \in [1 .. n -> S]
  OBVIOUS
<1> QED
  BY <1>1

LEMMA IsAppend ==
  ASSUME NEW S, NEW s \in Seq(S), NEW e \in S, NEW t, DOMAIN t = 1 .. Len(s) + 1,
         t = [k \in DOMAIN t |-> t[k]],
         \A k \in 1 .. Len(s) : t[k] = s[k], t[Len(s) + 1] = e
  PROVE  t = Append(s, e)
<1>1. \A k \in 1 .. Len(s) + 1 : t[k] \in S
  <2>1. Len(s) \in Nat /\ \A k \in 1 .. Len(s) : s[k] \in S
    BY ElementOfSeq
  <2> QED
    BY <2>1
<1>2. t \in Seq(S) /\ Len(t) = Len(s) + 1
  <2>1. t = [k \in 1 .. Len(s) + 1 |-> t[k]]
    BY Zenon
  <2>2. Len(s) + 1 \in Nat
    OBVIOUS
  <2> QED
    BY <1>1, <2>1, <2>2, FunctionIsSeq
<1>3. Append(s, e) \in Seq(S) /\ Len(Append(s, e)) = Len(s) + 1
        /\ \A k \in 1 .. Len(s) + 1 : t[k] = Append(s, e)[k]
  BY AppendProperties
<1> QED
  BY <1>2, <1>3, SeqEqual

\* A selection of a flattened list is the selections of its rows, flattened.
LEMMA ThoseFlatten ==
  ASSUME NEW S, NEW T
  PROVE  \A ss \in Seq(Seq(S)) :
           Those(FlattenSeq(ss), T) = FlattenSeq([k \in DOMAIN ss |-> Those(ss[k], T)])
<1> DEFINE Each(ss) == [k \in DOMAIN ss |-> Those(ss[k], T)]
<1> DEFINE P == {ss \in Seq(Seq(S)) : Those(FlattenSeq(ss), T) = FlattenSeq(Each(ss))}
<1>1. <<>> \in P
  <2>1. Each(<<>>) = <<>>
    OBVIOUS
  <2>2. Those(FlattenSeq(<<>>), T) = FlattenSeq(Each(<<>>))
    BY <2>1, ThoseEmpty, FlattenEmpty, Zenon
  <2> QED
    BY <2>2, EmptySeq
<1>2. ASSUME NEW ss \in Seq(Seq(S)), NEW s \in Seq(S), ss \in P PROVE Append(ss, s) \in P
  <2>1. /\ Append(ss, s) \in Seq(Seq(S)) /\ Append(ss, s)[Len(ss) + 1] = s
        /\ \A k \in 1 .. Len(ss) : Append(ss, s)[k] = ss[k]
        /\ DOMAIN Append(ss, s) = 1 .. Len(ss) + 1
        /\ DOMAIN ss = 1 .. Len(ss) /\ Len(ss) \in Nat
    BY AppendDomain
  <2>2. /\ Each(ss) \in Seq(Seq(S)) /\ Len(Each(ss)) = Len(ss)
        /\ \A k \in 1 .. Len(ss) : Each(ss)[k] = Those(ss[k], T)
    <3>1. \A k \in 1 .. Len(ss) : Those(ss[k], T) \in Seq(S)
      BY ElementOfSeq, ThoseType
    <3>2. /\ Each(ss) = [k \in 1 .. Len(ss) |-> Each(ss)[k]]
          /\ \A k \in 1 .. Len(ss) : Each(ss)[k] = Those(ss[k], T)
      BY <2>1, Zenon
    <3> HIDE DEF Each
    <3>3. \A k \in 1 .. Len(ss) : Each(ss)[k] \in Seq(S)
      BY <3>1, <3>2
    <3> QED
      BY <2>1, <3>2, <3>3, FunctionIsSeq
  <2>3. Each(Append(ss, s)) = Append(Each(ss), Those(s, T))
    <3> DEFINE rows == Each(ss)
    <3> DEFINE all == Each(Append(ss, s))
    <3> DEFINE last == Those(s, T)
    <3>1. /\ DOMAIN all = 1 .. Len(ss) + 1 /\ all = [k \in DOMAIN all |-> all[k]]
          /\ \A k \in 1 .. Len(ss) + 1 : all[k] = Those(Append(ss, s)[k], T)
      BY <2>1, Zenon
    <3>2. last \in Seq(S)
      BY ThoseType
    <3>3. all[Len(ss) + 1] = last /\ \A k \in 1 .. Len(ss) : all[k] = rows[k]
      <4> HIDE DEF Each
      <4>1. Len(ss) + 1 \in 1 .. Len(ss) + 1 /\ \A k \in 1 .. Len(ss) : k \in 1 .. Len(ss) + 1
        BY <2>1
      <4>2. all[Len(ss) + 1] = last
        BY <2>1, <3>1, <4>1, Zenon
      <4>3. ASSUME NEW k \in 1 .. Len(ss) PROVE all[k] = rows[k]
        BY <2>1, <2>2, <3>1, <4>1, Zenon
      <4> QED
        BY <4>2, <4>3
    <3> HIDE DEF all, rows, last
    <3>4. all = Append(rows, last)
      BY <2>2, <3>1, <3>2, <3>3, IsAppend DEF rows
    <3> QED
      BY <3>4 DEF all, rows, last
  <2>4. FlattenSeq(Append(ss, s)) = FlattenSeq(ss) \o s
    BY FlattenAppend
  <2>5. Those(FlattenSeq(ss) \o s, T) = Those(FlattenSeq(ss), T) \o Those(s, T)
    BY FlattenType, ThoseConcat
  <2>6. FlattenSeq(Append(Each(ss), Those(s, T))) = FlattenSeq(Each(ss)) \o Those(s, T)
    <3>1. Those(s, T) \in Seq(S)
      BY ThoseType
    <3> HIDE DEF Each
    <3> QED
      BY <2>2, <3>1, FlattenAppend
  <2>7. Those(FlattenSeq(ss), T) = FlattenSeq(Each(ss))
    BY <1>2
  <2>8. Those(FlattenSeq(Append(ss, s)), T) = FlattenSeq(Each(Append(ss, s)))
    <3> HIDE DEF Each
    <3> QED
      BY <2>3, <2>4, <2>5, <2>6, <2>7, Zenon
  <2> QED
    BY <2>1, <2>8
<1>3. Seq(Seq(S)) \subseteq P
  <2> HIDE DEF P
  <2> QED
    BY <1>1, <1>2, SeqInduction
<1> QED
  BY <1>3

LEMMA FlattenNone ==
  ASSUME NEW S
  PROVE  \A ss \in Seq(Seq(S)) : (\A k \in DOMAIN ss : ss[k] = <<>>) => FlattenSeq(ss) = <<>>
<1> DEFINE P == {ss \in Seq(Seq(S)) : (\A k \in DOMAIN ss : ss[k] = <<>>) => FlattenSeq(ss) = <<>>}
<1>1. <<>> \in P
  <2>1. <<>> \in Seq(Seq(S))
    OBVIOUS
  <2> QED
    BY <2>1, FlattenEmpty
<1>2. ASSUME NEW ss \in Seq(Seq(S)), NEW s \in Seq(S), ss \in P PROVE Append(ss, s) \in P
  <2>1. /\ Append(ss, s) \in Seq(Seq(S)) /\ Append(ss, s)[Len(ss) + 1] = s
        /\ \A k \in 1 .. Len(ss) : Append(ss, s)[k] = ss[k]
        /\ DOMAIN Append(ss, s) = 1 .. Len(ss) + 1
        /\ DOMAIN ss = 1 .. Len(ss) /\ Len(ss) \in Nat
    BY AppendDomain
  <2>2. ASSUME \A k \in DOMAIN Append(ss, s) : Append(ss, s)[k] = <<>>
        PROVE  FlattenSeq(Append(ss, s)) = <<>>
    <3>1. s = <<>> /\ \A k \in DOMAIN ss : ss[k] = <<>>
      BY <2>1, <2>2
    <3>2. FlattenSeq(ss) = <<>>
      BY <1>2, <3>1
    <3>3. FlattenSeq(Append(ss, s)) = FlattenSeq(ss) \o s
      BY FlattenAppend
    <3>4. <<>> \o s = s
      BY ConcatEmptySeq
    <3> QED
      BY <3>1, <3>2, <3>3, <3>4, Zenon
  <2> QED
    BY <2>1, <2>2
<1>3. Seq(Seq(S)) \subseteq P
  <2> HIDE DEF P
  <2> QED
    BY <1>1, <1>2, SeqInduction
<1> QED
  BY <1>3

LEMMA FlattenOne ==
  ASSUME NEW S
  PROVE  \A ss \in Seq(Seq(S)) : \A k \in DOMAIN ss :
           (\A i \in DOMAIN ss : i # k => ss[i] = <<>>) => FlattenSeq(ss) = ss[k]
<1> DEFINE P == {ss \in Seq(Seq(S)) : \A k \in DOMAIN ss :
                   (\A i \in DOMAIN ss : i # k => ss[i] = <<>>) => FlattenSeq(ss) = ss[k]}
<1>1. <<>> \in P
  OBVIOUS
<1>2. ASSUME NEW ss \in Seq(Seq(S)), NEW s \in Seq(S), ss \in P PROVE Append(ss, s) \in P
  <2>1. /\ Append(ss, s) \in Seq(Seq(S)) /\ Append(ss, s)[Len(ss) + 1] = s
        /\ \A k \in 1 .. Len(ss) : Append(ss, s)[k] = ss[k]
        /\ DOMAIN Append(ss, s) = 1 .. Len(ss) + 1
        /\ DOMAIN ss = 1 .. Len(ss) /\ Len(ss) \in Nat
    BY AppendDomain
  <2>2. FlattenSeq(Append(ss, s)) = FlattenSeq(ss) \o s
    BY FlattenAppend
  <2>3. ASSUME NEW k \in DOMAIN Append(ss, s),
               \A i \in DOMAIN Append(ss, s) : i # k => Append(ss, s)[i] = <<>>
        PROVE  FlattenSeq(Append(ss, s)) = Append(ss, s)[k]
    <3>1. CASE k = Len(ss) + 1
      <4>1. \A i \in DOMAIN ss : ss[i] = <<>>
        BY <2>1, <2>3, <3>1
      <4>2. FlattenSeq(ss) = <<>>
        BY <4>1, FlattenNone
      <4>3. <<>> \o s = s
        BY ConcatEmptySeq
      <4> QED
        BY <2>1, <2>2, <3>1, <4>2, <4>3, Zenon
    <3>2. CASE k # Len(ss) + 1
      <4>1. k \in DOMAIN ss /\ s = <<>> /\ Append(ss, s)[k] = ss[k]
              /\ \A i \in DOMAIN ss : i # k => ss[i] = <<>>
        BY <2>1, <2>3, <3>2
      <4>2. FlattenSeq(ss) = ss[k]
        BY <1>2, <4>1
      <4>3. ss[k] \o <<>> = ss[k]
        <5>1. ss[k] \in Seq(S)
          BY <4>1
        <5> QED
          BY <5>1, ConcatEmptySeq
      <4> QED
        BY <2>2, <4>1, <4>2, <4>3, Zenon
    <3> QED
      BY <3>1, <3>2
  <2> QED
    BY <2>1, <2>3
<1>3. Seq(Seq(S)) \subseteq P
  <2> HIDE DEF P
  <2> QED
    BY <1>1, <1>2, SeqInduction
<1> QED
  BY <1>3

-----------------------------------------------------------------------------
(* A finite set of integers in descending order. *)

IsDescending(s, P) ==
  /\ s \in [1 .. Cardinality(P) -> P]
  /\ \A p \in P : \E i \in DOMAIN s : s[i] = p
  /\ \A i, j \in DOMAIN s : i < j => s[i] > s[j]

LEMMA SmallestExists ==
  ASSUME NEW P, P \subseteq Int, IsFiniteSet(P), P # {}
  PROVE  \E x \in P : \A y \in P : x <= y
<1> DEFINE N == {n \in Nat : \A Q \in SUBSET Int : IsFiniteSet(Q) /\ Cardinality(Q) = n /\ Q # {}
                               => \E x \in Q : \A y \in Q : x <= y}
<1>1. 0 \in N
  BY FS_EmptySet
<1>2. ASSUME NEW n \in Nat, n \in N PROVE n + 1 \in N
  <2> SUFFICES ASSUME NEW Q \in SUBSET Int, IsFiniteSet(Q), Cardinality(Q) = n + 1, Q # {}
               PROVE  \E x \in Q : \A y \in Q : x <= y
    OBVIOUS
  <2>1. PICK z \in Q : TRUE
    OBVIOUS
  <2>2. IsFiniteSet(Q \ {z}) /\ Cardinality(Q \ {z}) = n
    <3>1. IsFiniteSet(Q \ {z}) /\ Cardinality(Q \ {z}) = Cardinality(Q) - 1
      BY FS_RemoveElement
    <3> QED
      BY <3>1
  <2>3. CASE Q \ {z} = {}
    BY <2>3
  <2>4. CASE Q \ {z} # {}
    <3>1. PICK x \in Q \ {z} : \A y \in Q \ {z} : x <= y
      BY <1>2, <2>2, <2>4
    <3>2. CASE x <= z
      BY <3>1, <3>2
    <3>3. CASE z < x
      <4>1. \A y \in Q : z <= y
        BY <3>1, <3>3
      <4> QED
        BY <4>1
    <3> QED
      BY <3>2, <3>3
  <2> QED
    BY <2>3, <2>4
<1>3. Nat \subseteq N
  <2> HIDE DEF N
  <2> QED
    BY <1>1, <1>2, SetInduction
<1>4. Cardinality(P) \in N
  BY <1>3, FS_CardinalityType
<1> QED
  BY <1>4

\* Every finite set of integers can be listed in descending order.
LEMMA DescendingExists ==
  ASSUME NEW P, P \subseteq Int, IsFiniteSet(P)
  PROVE  \E s : IsDescending(s, P)
<1> DEFINE N == {n \in Nat : \A Q \in SUBSET Int : IsFiniteSet(Q) /\ Cardinality(Q) = n
                               => \E s : IsDescending(s, Q)}
<1>1. 0 \in N
  <2> SUFFICES ASSUME NEW Q \in SUBSET Int, IsFiniteSet(Q), Cardinality(Q) = 0
               PROVE  \E s : IsDescending(s, Q)
    OBVIOUS
  <2>1. Q = {}
    BY FS_EmptySet
  <2> DEFINE e == [i \in 1 .. 0 |-> 0]
  <2>2. e \in [1 .. Cardinality(Q) -> Q] /\ DOMAIN e = {}
    OBVIOUS
  <2>3. IsDescending(e, Q)
    <3> HIDE DEF e
    <3> QED
      BY <2>1, <2>2 DEF IsDescending
  <2> QED
    BY <2>3
<1>2. ASSUME NEW n \in Nat, n \in N PROVE n + 1 \in N
  <2> SUFFICES ASSUME NEW Q \in SUBSET Int, IsFiniteSet(Q), Cardinality(Q) = n + 1
               PROVE  \E s : IsDescending(s, Q)
    OBVIOUS
  <2>1. Q # {}
    BY FS_EmptySet
  <2>2. PICK x \in Q : \A y \in Q : x <= y
    BY <2>1, SmallestExists
  <2>3. IsFiniteSet(Q \ {x}) /\ Cardinality(Q \ {x}) = n
    <3>1. IsFiniteSet(Q \ {x}) /\ Cardinality(Q \ {x}) = Cardinality(Q) - 1
      BY FS_RemoveElement
    <3> QED
      BY <3>1
  <2>4. PICK s : IsDescending(s, Q \ {x})
    BY <1>2, <2>3
  <2>5. /\ s \in [1 .. n -> Q \ {x}]
        /\ \A p \in Q \ {x} : \E i \in 1 .. n : s[i] = p
        /\ \A i, j \in 1 .. n : i < j => s[i] > s[j]
    BY <2>3, <2>4 DEF IsDescending
  <2> DEFINE t == [i \in 1 .. n + 1 |-> IF i = n + 1 THEN x ELSE s[i]]
  <2>6. /\ t \in [1 .. n + 1 -> Q] /\ t[n + 1] = x
        /\ \A i \in 1 .. n : t[i] = s[i] /\ t[i] > x
    <3>1. \A i \in 1 .. n : s[i] \in Q /\ s[i] # x
      BY <2>5
    <3>2. \A y \in Q : y # x => y > x
      BY <2>2
    <3>3. n + 1 \in 1 .. n + 1 /\ \A i \in 1 .. n : i \in 1 .. n + 1 /\ i # n + 1
      OBVIOUS
    <3>4. t[n + 1] = x /\ \A i \in 1 .. n : t[i] = s[i]
      BY <3>3, Zenon
    <3>5. t \in [1 .. n + 1 -> Q]
      BY <3>1
    <3> QED
      BY <3>1, <3>2, <3>4, <3>5
  <2> HIDE DEF t
  <2>7. \A p \in Q : \E i \in 1 .. n + 1 : t[i] = p
    <3> SUFFICES ASSUME NEW p \in Q PROVE \E i \in 1 .. n + 1 : t[i] = p
      OBVIOUS
    <3>1. CASE p = x
      BY <2>6, <3>1
    <3>2. CASE p # x
      <4>1. PICK i \in 1 .. n : s[i] = p
        BY <2>5, <3>2
      <4> QED
        BY <2>6, <4>1
    <3> QED
      BY <3>1, <3>2
  <2>8. \A i, j \in 1 .. n + 1 : i < j => t[i] > t[j]
    <3> SUFFICES ASSUME NEW i \in 1 .. n + 1, NEW j \in 1 .. n + 1, i < j PROVE t[i] > t[j]
      OBVIOUS
    <3>1. i \in 1 .. n
      OBVIOUS
    <3>2. CASE j = n + 1
      BY <2>6, <3>1, <3>2
    <3>3. CASE j # n + 1
      BY <2>5, <2>6, <3>1, <3>3
    <3> QED
      BY <3>2, <3>3
  <2>9. IsDescending(t, Q)
    BY <2>6, <2>7, <2>8 DEF IsDescending
  <2> QED
    BY <2>9
<1>3. Nat \subseteq N
  <2> HIDE DEF N
  <2> QED
    BY <1>1, <1>2, SetInduction
<1>4. Cardinality(P) \in N
  BY <1>3, FS_CardinalityType
<1> QED
  BY <1>4

-----------------------------------------------------------------------------
(* Lists of records that are sorted by descending priority. *)

Ranked(E)  == \A e \in E : e.priority \in Int
Sorted(l)  == \A i, j \in DOMAIN l : i < j => l[i].priority >= l[j].priority
At(E, p)   == {e \in E : e.priority = p}

LEMMA OneType ==
  ASSUME NEW S, NEW e \in S, NEW T
  PROVE  One(e, T) \in Seq(S)
<1>1. <<e>> \in Seq(S) /\ <<>> \in Seq(S)
  OBVIOUS
<1> QED
  BY <1>1, Zenon DEF One

LEMMA SortedConcat ==
  ASSUME NEW A, NEW B, NEW a \in Seq(A), NEW b \in Seq(B), Ranked(A), Ranked(B),
         Sorted(a), Sorted(b), \A x \in A, y \in B : x.priority >= y.priority
  PROVE  Sorted(a \o b)
<1> DEFINE l == a \o b
<1>1. a \in Seq(A \cup B) /\ b \in Seq(A \cup B)
  BY SeqMonotonic
<1>2. /\ l \in Seq(A \cup B) /\ DOMAIN l = 1 .. Len(a) + Len(b)
      /\ \A i \in 1 .. Len(a) + Len(b) : l[i] = IF i <= Len(a) THEN a[i] ELSE b[i - Len(a)]
  BY <1>1, ConcatProperties, LenProperties
<1>3. Len(a) \in Nat /\ Len(b) \in Nat /\ DOMAIN a = 1 .. Len(a) /\ DOMAIN b = 1 .. Len(b)
        /\ (\A i \in 1 .. Len(a) : a[i] \in A) /\ (\A i \in 1 .. Len(b) : b[i] \in B)
  BY LenProperties, ElementOfSeq
<1> HIDE DEF l
<1> SUFFICES ASSUME NEW i \in DOMAIN l, NEW j \in DOMAIN l, i < j
             PROVE  l[i].priority >= l[j].priority
  BY DEF Sorted, l
<1>4. i \in 1 .. Len(a) + Len(b) /\ j \in 1 .. Len(a) + Len(b)
  BY <1>2
<1>5. CASE j <= Len(a)
  <2>1. i \in DOMAIN a /\ j \in DOMAIN a /\ l[i] = a[i] /\ l[j] = a[j]
    BY <1>2, <1>3, <1>4, <1>5
  <2> QED
    BY <2>1 DEF Sorted
<1>6. CASE i > Len(a)
  <2>1. i - Len(a) \in DOMAIN b /\ j - Len(a) \in DOMAIN b
    BY <1>3, <1>4, <1>6
  <2>2. l[i] = b[i - Len(a)] /\ l[j] = b[j - Len(a)] /\ i - Len(a) < j - Len(a)
    BY <1>2, <1>3, <1>4, <1>6
  <2> QED
    BY <2>1, <2>2 DEF Sorted
<1>7. CASE i <= Len(a) /\ j > Len(a)
  <2>1. i \in 1 .. Len(a) /\ j - Len(a) \in 1 .. Len(b) /\ l[i] = a[i] /\ l[j] = b[j - Len(a)]
    BY <1>2, <1>3, <1>4, <1>7
  <2> QED
    BY <1>3, <2>1
<1> QED
  BY <1>3, <1>4, <1>5, <1>6, <1>7

LEMMA EqualIsSorted ==
  ASSUME NEW A, NEW p \in Int, \A e \in A : e.priority = p, NEW s \in Seq(A)
  PROVE  Sorted(s)
<1>1. \A i \in DOMAIN s : s[i].priority = p
  BY ElementOfSeq, LenProperties
<1> QED
  BY <1>1 DEF Sorted

LEMMA SortedBefore ==
  ASSUME NEW E, NEW l \in Seq(E), NEW e \in E, Sorted(Append(l, e))
  PROVE  Sorted(l) /\ \A i \in DOMAIN l : l[i].priority >= e.priority
<1>1. /\ Append(l, e)[Len(l) + 1] = e
      /\ \A k \in 1 .. Len(l) : Append(l, e)[k] = l[k]
      /\ DOMAIN Append(l, e) = 1 .. Len(l) + 1
      /\ DOMAIN l = 1 .. Len(l) /\ Len(l) \in Nat
  BY AppendDomain
<1>2. Sorted(l)
  <2> SUFFICES ASSUME NEW i \in DOMAIN l, NEW j \in DOMAIN l, i < j
               PROVE  l[i].priority >= l[j].priority
    BY DEF Sorted
  <2>1. i \in DOMAIN Append(l, e) /\ j \in DOMAIN Append(l, e)
          /\ Append(l, e)[i] = l[i] /\ Append(l, e)[j] = l[j]
    BY <1>1
  <2> QED
    BY <2>1 DEF Sorted
<1>3. ASSUME NEW i \in DOMAIN l PROVE l[i].priority >= e.priority
  <2>1. i \in DOMAIN Append(l, e) /\ Append(l, e)[i] = l[i] /\ Len(l) + 1 \in DOMAIN Append(l, e)
          /\ i < Len(l) + 1
    BY <1>1
  <2> QED
    BY <1>1, <2>1 DEF Sorted
<1> QED
  BY <1>2, <1>3

LEMMA ThoseSorted ==
  ASSUME NEW E, Ranked(E), NEW T
  PROVE  \A l \in Seq(E) : Sorted(l) => Sorted(Those(l, T))
<1> DEFINE P == {l \in Seq(E) : Sorted(l) => Sorted(Those(l, T))}
<1>1. <<>> \in P
  BY ThoseEmpty, EmptySeq
<1>2. ASSUME NEW l \in Seq(E), NEW e \in E, l \in P PROVE Append(l, e) \in P
  <2> SUFFICES ASSUME Sorted(Append(l, e)) PROVE Sorted(Those(Append(l, e), T))
    BY AppendProperties
  <2>1. Sorted(l) /\ \A i \in DOMAIN l : l[i].priority >= e.priority
    BY SortedBefore
  <2>2. Sorted(Those(l, T))
    BY <1>2, <2>1
  <2> DEFINE R == {l[i] : i \in DOMAIN l}
  <2>3. l \in Seq(R) /\ Ranked(R)
    <3>1. DOMAIN l = 1 .. Len(l) /\ Len(l) \in Nat /\ l = [i \in 1 .. Len(l) |-> l[i]]
      BY LenProperties
    <3>2. \A i \in 1 .. Len(l) : l[i] \in R
      BY <3>1
    <3>3. Ranked(R)
      BY <3>1, ElementOfSeq DEF Ranked
    <3> HIDE DEF R
    <3> QED
      BY <3>1, <3>2, <3>3, FunctionIsSeq
  <2>4. \A x \in R : x.priority >= e.priority
    BY <2>1
  <2> HIDE DEF R
  <2>5. Those(l, T) \in Seq(R)
    BY <2>3, ThoseType
  <2>6. One(e, T) \in Seq({e})
    BY OneType
  <2>7. Sorted(One(e, T)) /\ Ranked({e})
    <3>1. e.priority \in Int
      BY DEF Ranked
    <3> QED
      BY <2>6, <3>1, EqualIsSorted DEF Ranked
  <2>8. Sorted(Those(l, T) \o One(e, T))
    BY <2>2, <2>3, <2>4, <2>5, <2>6, <2>7, SortedConcat
  <2> QED
    BY <2>8, ThoseAppend, Zenon
<1>3. Seq(E) \subseteq P
  <2> HIDE DEF P
  <2> QED
    BY <1>1, <1>2, SeqInduction
<1> QED
  BY <1>3

\* What a list has of a priority is there if one of its elements has it.
LEMMA SliceNotEmpty ==
  ASSUME NEW E, NEW l \in Seq(E), NEW e \in E
  PROVE  /\ Those(Append(l, e), At(E, e.priority)) = Append(Those(l, At(E, e.priority)), e)
         /\ Those(Append(l, e), At(E, e.priority)) # <<>>
<1>1. One(e, At(E, e.priority)) = <<e>>
  BY DEF One, At
<1>2. Those(Append(l, e), At(E, e.priority)) = Those(l, At(E, e.priority)) \o <<e>>
  BY <1>1, ThoseAppend
<1> DEFINE s == Those(l, At(E, e.priority))
<1>3. s \in Seq(E)
  BY ThoseType
<1> HIDE DEF s
<1>4. s \o <<e>> = Append(s, e) /\ Append(s, e) # <<>>
  BY <1>3, AppendIsConcat, AppendProperties
<1> QED
  BY <1>2, <1>4 DEF s

\* A priority that a slice has is one of the list.
LEMMA SliceFromList ==
  ASSUME NEW E, NEW l \in Seq(E), NEW p, Those(l, At(E, p)) # <<>>
  PROVE  \E i \in DOMAIN l : l[i].priority = p
<1> SUFFICES ASSUME \A i \in DOMAIN l : l[i].priority # p PROVE Those(l, At(E, p)) = <<>>
  OBVIOUS
<1> DEFINE R == {l[i] : i \in DOMAIN l}
<1>1. l \in Seq(R)
  <2>1. DOMAIN l = 1 .. Len(l) /\ Len(l) \in Nat /\ l = [i \in 1 .. Len(l) |-> l[i]]
    BY LenProperties
  <2>2. \A i \in 1 .. Len(l) : l[i] \in R
    BY <2>1
  <2> HIDE DEF R
  <2> QED
    BY <2>1, <2>2, FunctionIsSeq
<1>2. R \cap At(E, p) = {}
  BY DEF At
<1> HIDE DEF R
<1> QED
  BY <1>1, <1>2, ThoseNone

\* A sorted list is determined by what it has of each priority.
LEMMA SortedUnique ==
  ASSUME NEW E, Ranked(E)
  PROVE  \A l, m \in Seq(E) :
           Sorted(l) /\ Sorted(m) /\ (\A p \in Int : Those(l, At(E, p)) = Those(m, At(E, p)))
             => l = m
<1> DEFINE Same(l, m) == \A p \in Int : Those(l, At(E, p)) = Those(m, At(E, p))
<1> DEFINE P == {l \in Seq(E) : \A m \in Seq(E) : Sorted(l) /\ Sorted(m) /\ Same(l, m) => l = m}
<1>1. <<>> \in P
  <2> SUFFICES ASSUME NEW m \in Seq(E), Same(<<>>, m), m # <<>> PROVE FALSE
    BY EmptySeq
  <2>1. PICK t \in Seq(E), e \in E : m = Append(t, e)
    BY SequenceEmptyOrAppend
  <2>2. e.priority \in Int
    BY DEF Ranked
  <2>3. Those(m, At(E, e.priority)) = <<>>
    BY <2>2, ThoseEmpty
  <2> QED
    BY <2>1, <2>3, SliceNotEmpty
<1>2. ASSUME NEW l \in Seq(E), NEW e \in E, l \in P PROVE Append(l, e) \in P
  <2> DEFINE all == Append(l, e)
  <2> SUFFICES ASSUME NEW m \in Seq(E), Sorted(all), Sorted(m), Same(all, m) PROVE all = m
    BY AppendProperties
  <2>1. e.priority \in Int
    BY DEF Ranked
  <2>2. Those(m, At(E, e.priority)) = Append(Those(l, At(E, e.priority)), e)
    BY <2>1, SliceNotEmpty
  <2>3. Those(m, At(E, e.priority)) # <<>>
    <3>1. Those(all, At(E, e.priority)) # <<>>
      BY SliceNotEmpty
    <3>2. Those(all, At(E, e.priority)) = Those(m, At(E, e.priority))
      BY <2>1
    <3> QED
      BY <3>1, <3>2
  <2>4. m # <<>>
    BY <2>3, ThoseEmpty
  <2>5. PICK n \in Seq(E), d \in E : m = Append(n, d)
    BY <2>4, SequenceEmptyOrAppend
  <2>6. d.priority \in Int
    BY DEF Ranked
  <2>7. Those(all, At(E, d.priority)) = Append(Those(n, At(E, d.priority)), d)
    BY <2>5, <2>6, SliceNotEmpty
  <2>8. Those(all, At(E, d.priority)) # <<>>
    <3>1. Those(m, At(E, d.priority)) # <<>>
      BY <2>5, SliceNotEmpty
    <3>2. Those(all, At(E, d.priority)) = Those(m, At(E, d.priority))
      BY <2>6
    <3> QED
      BY <3>1, <3>2
  <2>9. d.priority <= e.priority
    <3>1. PICK i \in DOMAIN m : m[i].priority = e.priority
      BY <2>3, SliceFromList
    <3>2. /\ DOMAIN m = 1 .. Len(n) + 1 /\ m[Len(n) + 1] = d /\ DOMAIN n = 1 .. Len(n)
          /\ Len(n) \in Nat /\ \A k \in 1 .. Len(n) : m[k] = n[k]
      BY <2>5, AppendDomain
    <3>3. \A k \in DOMAIN n : n[k].priority >= d.priority
      BY <2>5, SortedBefore
    <3>4. CASE i = Len(n) + 1
      BY <2>1, <3>1, <3>2, <3>4
    <3>5. CASE i \in DOMAIN n
      BY <2>1, <2>6, <3>1, <3>2, <3>3, <3>5
    <3> QED
      BY <3>2, <3>4, <3>5
  <2>10. e.priority <= d.priority
    <3>0. PICK k \in Seq(E) : k = all
      BY AppendProperties
    <3>1. PICK i \in DOMAIN all : all[i].priority = d.priority
      <4>1. Those(k, At(E, d.priority)) # <<>>
        BY <2>8, <3>0
      <4>2. \E i \in DOMAIN k : k[i].priority = d.priority
        BY <4>1, SliceFromList
      <4> QED
        BY <3>0, <4>2
    <3>2. /\ DOMAIN all = 1 .. Len(l) + 1 /\ all[Len(l) + 1] = e /\ DOMAIN l = 1 .. Len(l)
          /\ Len(l) \in Nat /\ \A j \in 1 .. Len(l) : all[j] = l[j]
      BY AppendDomain
    <3>3. \A j \in DOMAIN l : l[j].priority >= e.priority
      BY SortedBefore
    <3>4. CASE i = Len(l) + 1
      BY <2>6, <3>1, <3>2, <3>4
    <3>5. CASE i \in DOMAIN l
      BY <2>1, <2>6, <3>1, <3>2, <3>3, <3>5
    <3> QED
      BY <3>2, <3>4, <3>5
  <2>11. d.priority = e.priority
    BY <2>1, <2>6, <2>9, <2>10
  <2>12. Append(Those(n, At(E, e.priority)), d) = Append(Those(l, At(E, e.priority)), e)
    BY <2>2, <2>5, <2>11, SliceNotEmpty
  <2>13. Those(n, At(E, e.priority)) = Those(l, At(E, e.priority)) /\ d = e
    <3> DEFINE a == Those(n, At(E, e.priority))
    <3> DEFINE b == Those(l, At(E, e.priority))
    <3>1. a \in Seq(E) /\ b \in Seq(E)
      BY ThoseType
    <3> HIDE DEF a, b
    <3>2. Append(a, d) = Append(b, e) => a = b /\ d = e
      BY <3>1, AppendInjective
    <3> QED
      BY <2>12, <3>2 DEF a, b
  <2>14. ASSUME NEW p \in Int PROVE Those(l, At(E, p)) = Those(n, At(E, p))
    <3>1. CASE p = e.priority
      BY <2>13, <3>1
    <3>2. CASE p # e.priority
      <4>1. One(e, At(E, p)) = <<>>
        BY <3>2 DEF One, At
      <4>2. Those(all, At(E, p)) = Those(l, At(E, p)) \o <<>>
        <5>1. Those(all, At(E, p)) = Those(l, At(E, p)) \o One(e, At(E, p))
          BY ThoseAppend
        <5> QED
          BY <4>1, <5>1, Zenon
      <4>3. Those(m, At(E, p)) = Those(n, At(E, p)) \o <<>>
        <5>1. Those(m, At(E, p)) = Those(n, At(E, p)) \o One(d, At(E, p))
          BY <2>5, ThoseAppend
        <5> QED
          BY <2>13, <4>1, <5>1, Zenon
      <4>4. Those(all, At(E, p)) = Those(m, At(E, p))
        OBVIOUS
      <4>5. Those(l, At(E, p)) \o <<>> = Those(l, At(E, p))
              /\ Those(n, At(E, p)) \o <<>> = Those(n, At(E, p))
        BY ThoseType, ConcatEmptySeq
      <4> QED
        BY <4>2, <4>3, <4>4, <4>5, Zenon
    <3> QED
      BY <3>1, <3>2
  <2>15. Sorted(l) /\ Sorted(n)
    BY <2>5, SortedBefore
  <2>16. l = n
    BY <1>2, <2>14, <2>15
  <2> QED
    BY <2>5, <2>13, <2>16
<1>3. Seq(E) \subseteq P
  <2> HIDE DEF P
  <2> QED
    BY <1>1, <1>2, SeqInduction
<1> QED
  BY <1>3

-----------------------------------------------------------------------------
(* A list in which a block of one priority is inserted. *)

\* A list of lists that have one priority each, descending, is sorted when it
\* is flattened.
LEMMA FlattenSorted ==
  ASSUME NEW E, Ranked(E)
  PROVE  \A ss \in Seq(Seq(E)) : \A d :
           /\ \A k \in DOMAIN ss : d[k] \in Int /\ ss[k] \in Seq(At(E, d[k]))
           /\ \A i, j \in DOMAIN ss : i < j => d[i] > d[j]
           => Sorted(FlattenSeq(ss))
<1> DEFINE Falls(ss, d) ==
      /\ \A k \in DOMAIN ss : d[k] \in Int /\ ss[k] \in Seq(At(E, d[k]))
      /\ \A i, j \in DOMAIN ss : i < j => d[i] > d[j]
<1> DEFINE P == {ss \in Seq(Seq(E)) : \A d : Falls(ss, d) => Sorted(FlattenSeq(ss))}
<1>1. <<>> \in P
  <2>1. Sorted(<<>>)
    BY EmptySeq DEF Sorted
  <2> QED
    BY <2>1, FlattenEmpty, EmptySeq
<1>2. ASSUME NEW ss \in Seq(Seq(E)), NEW s \in Seq(E), ss \in P PROVE Append(ss, s) \in P
  <2> SUFFICES ASSUME NEW d, Falls(Append(ss, s), d) PROVE Sorted(FlattenSeq(Append(ss, s)))
    BY AppendProperties
  <2> DEFINE n == Len(ss)
  <2>1. /\ n \in Nat /\ DOMAIN ss = 1 .. n /\ DOMAIN Append(ss, s) = 1 .. n + 1
        /\ Append(ss, s)[n + 1] = s /\ \A k \in 1 .. n : Append(ss, s)[k] = ss[k]
    BY AppendDomain
  <2> HIDE DEF n
  <2>2. d[n + 1] \in Int /\ s \in Seq(At(E, d[n + 1]))
    <3>1. n + 1 \in DOMAIN Append(ss, s)
      BY <2>1
    <3> QED
      BY <2>1, <3>1, Zenon
  <2>3. \A k \in 1 .. n : /\ d[k] \in Int /\ ss[k] \in Seq(At(E, d[k])) /\ d[k] > d[n + 1]
    <3> SUFFICES ASSUME NEW k \in 1 .. n
                 PROVE  d[k] \in Int /\ ss[k] \in Seq(At(E, d[k])) /\ d[k] > d[n + 1]
      OBVIOUS
    <3>1. k \in 1 .. n + 1 /\ n + 1 \in 1 .. n + 1 /\ k < n + 1
      BY <2>1
    <3> QED
      BY <2>1, <3>1
  <2>4. \A i, j \in 1 .. n : i < j => d[i] > d[j]
    <3>1. \A i \in 1 .. n : i \in 1 .. n + 1
      BY <2>1
    <3> QED
      BY <2>1, <3>1
  <2>5. Falls(ss, d)
    BY <2>1, <2>3, <2>4
  <2>6. Sorted(FlattenSeq(ss))
    BY <1>2, <2>5
  <2> DEFINE A == {e \in E : e.priority > d[n + 1]}
  <2>7. FlattenSeq(ss) \in Seq(A)
    <3>1. ASSUME NEW k \in 1 .. n PROVE ss[k] \in Seq(A)
      <4>1. At(E, d[k]) \subseteq A
        BY <2>3 DEF At
      <4> QED
        BY <2>3, <4>1, SeqMonotonic
    <3>2. ss = [k \in 1 .. n |-> ss[k]]
      BY <2>1
    <3> HIDE DEF A
    <3>3. ss \in Seq(Seq(A))
      BY <2>1, <3>1, <3>2, FunctionIsSeq
    <3> QED
      BY <3>3, FlattenType
  <2>8. Sorted(s)
    BY <2>2, EqualIsSorted DEF At
  <2>9. Ranked(A) /\ Ranked(At(E, d[n + 1]))
    BY DEF Ranked, At
  <2>10. \A x \in A, y \in At(E, d[n + 1]) : x.priority >= y.priority
    BY <2>2 DEF Ranked, At
  <2> HIDE DEF A
  <2>11. Sorted(FlattenSeq(ss) \o s)
    BY <2>2, <2>6, <2>7, <2>8, <2>9, <2>10, SortedConcat
  <2> QED
    BY <2>11, FlattenAppend, Zenon
<1>3. Seq(Seq(E)) \subseteq P
  <2> HIDE DEF P
  <2> QED
    BY <1>1, <1>2, SeqInduction
<1> QED
  BY <1>3

SplitInThree(a, b, c, T) ==
  Those(a \o b \o c, T) = Those(a, T) \o Those(b, T) \o Those(c, T)

LEMMA ThoseThreeParts ==
  ASSUME NEW S, NEW a \in Seq(S), NEW b \in Seq(S), NEW c \in Seq(S), NEW T
  PROVE  SplitInThree(a, b, c, T)
<1>1. Those(a \o b, T) = Those(a, T) \o Those(b, T)
  BY ThoseConcat
<1>2. PICK d \in Seq(S) : d = a \o b
  BY ConcatProperties
<1>3. Those(d \o c, T) = Those(d, T) \o Those(c, T)
  BY ThoseConcat
<1> QED
  BY <1>1, <1>2, <1>3, Zenon DEF SplitInThree

\* Elements of one priority are inserted in a sorted list, behind those of T.
Insertion(E, l, T, s, p) ==
  /\ Those(l, T) \o s \o Those(l, E \ T) \in Seq(E)
  /\ Sorted(l) => Sorted(Those(l, T) \o s \o Those(l, E \ T))
  /\ Those(Those(l, T) \o s \o Those(l, E \ T), At(E, p))
       = Those(l, T \cap At(E, p)) \o s \o Those(l, At(E, p) \ T)
  /\ \A q \in Int : q # p =>
       Those(Those(l, T) \o s \o Those(l, E \ T), At(E, q)) = Those(l, At(E, q))

\* A block of priority p between those above it and those below leaves the
\* list sorted and the other slices as they were.
LEMMA Inserted ==
  ASSUME NEW E, Ranked(E), NEW l \in Seq(E), NEW p \in Int, NEW s \in Seq(At(E, p)),
         NEW T \in SUBSET E,
         \A x \in T : x.priority >= p, \A y \in E \ T : p >= y.priority
  PROVE  Insertion(E, l, T, s, p)
<1> DEFINE a == Those(l, T)
<1> DEFINE b == Those(l, E \ T)
<1>1. a \in Seq(T) /\ b \in Seq(E \ T)
  <2>1. a \in Seq(E \cap T) /\ b \in Seq(E \cap (E \ T))
    BY ThoseRange
  <2>2. E \cap T = T /\ E \cap (E \ T) = E \ T
    OBVIOUS
  <2> HIDE DEF a, b
  <2> QED
    BY <2>1, <2>2, Zenon
<1>2. a \in Seq(E) /\ b \in Seq(E) /\ s \in Seq(E)
  <2>1. At(E, p) \subseteq E
    BY DEF At
  <2> QED
    BY <2>1, ThoseType, SeqMonotonic
<1>3. ASSUME NEW U PROVE Those(a \o s \o b, U) = Those(l, T \cap U) \o Those(s, U) \o Those(l, (E \ T) \cap U)
  <2>1. Those(a, U) = Those(l, T \cap U) /\ Those(b, U) = Those(l, (E \ T) \cap U)
    BY ThoseThose
  <2> HIDE DEF a, b
  <2>2. Those(a \o s \o b, U) = Those(a, U) \o Those(s, U) \o Those(b, U)
    <3>1. SplitInThree(a, s, b, U)
      BY <1>2, ThoseThreeParts
    <3> QED
      BY <3>1, Zenon DEF SplitInThree
  <2> QED
    BY <2>1, <2>2, Zenon
<1>4. a \o s \o b \in Seq(E)
  <2> HIDE DEF a, b
  <2> QED
    BY <1>2, ConcatProperties
<1>5. ASSUME Sorted(l) PROVE Sorted(a \o s \o b)
  <2>1. Sorted(a) /\ Sorted(b)
    BY <1>5, ThoseSorted
  <2>2. Sorted(s)
    BY EqualIsSorted DEF At
  <2> DEFINE A == T \cup At(E, p)
  <2>3. a \o s \in Seq(A)
    <3>1. a \in Seq(A) /\ s \in Seq(A)
      BY <1>1, SeqMonotonic
    <3> HIDE DEF a, A
    <3> QED
      BY <3>1, ConcatProperties
  <2>4. Ranked(T) /\ Ranked(At(E, p)) /\ Ranked(E \ T) /\ Ranked(A)
    BY DEF Ranked, At
  <2>5. \A x \in T, y \in At(E, p) : x.priority >= y.priority
    BY DEF At
  <2> HIDE DEF a, b
  <2>6. Sorted(a \o s)
    BY <1>1, <2>1, <2>2, <2>4, <2>5, SortedConcat
  <2>7. \A x \in A, y \in E \ T : x.priority >= y.priority
    BY DEF Ranked, At
  <2> HIDE DEF A
  <2> DEFINE c == a \o s
  <2> HIDE DEF c
  <2>8. c \in Seq(A) /\ Sorted(c)
    BY <2>3, <2>6 DEF c
  <2>9. Sorted(c \o b)
    BY <1>1, <2>1, <2>4, <2>7, <2>8, SortedConcat
  <2> QED
    BY <2>9 DEF c
<1>6. Those(a \o s \o b, At(E, p)) = Those(l, T \cap At(E, p)) \o s \o Those(l, At(E, p) \ T)
  <2>1. Those(s, At(E, p)) = s
    BY ThoseAll
  <2>2. (E \ T) \cap At(E, p) = At(E, p) \ T
    BY DEF At
  <2> HIDE DEF a, b
  <2> QED
    BY <1>3, <2>1, <2>2, Zenon
<1>7. ASSUME NEW q \in Int, q # p PROVE Those(a \o s \o b, At(E, q)) = Those(l, At(E, q))
  <2>1. Those(s, At(E, q)) = <<>>
    <3>1. At(E, p) \cap At(E, q) = {}
      BY <1>7 DEF At
    <3> QED
      BY <3>1, ThoseNone
  <2> DEFINE h == Those(l, At(E, q))
  <2>2. h \in Seq(E)
    BY ThoseType
  <2>3. Those(l, {}) = <<>>
    BY ThoseNone
  <2>4. (\A x \in At(E, q) : x \in T) \/ (\A x \in At(E, q) : x \in E \ T)
    BY <1>7 DEF At, Ranked
  <2>5. CASE \A x \in At(E, q) : x \in T
    <3>1. T \cap At(E, q) = At(E, q) /\ (E \ T) \cap At(E, q) = {}
      BY <2>5
    <3>2. Those(a \o s \o b, At(E, q)) = h \o <<>> \o <<>>
      <4> HIDE DEF a, b
      <4> QED
        BY <1>3, <2>1, <2>3, <3>1, Zenon
    <3> HIDE DEF a, b, h
    <3>3. h \o <<>> \o <<>> = h
      BY <2>2, ConcatEmptySeq
    <3> QED
      BY <3>2, <3>3, Zenon DEF h
  <2>6. CASE \A x \in At(E, q) : x \in E \ T
    <3>1. T \cap At(E, q) = {} /\ (E \ T) \cap At(E, q) = At(E, q)
      BY <2>6
    <3>2. Those(a \o s \o b, At(E, q)) = <<>> \o <<>> \o h
      <4> HIDE DEF a, b
      <4> QED
        BY <1>3, <2>1, <2>3, <3>1, Zenon
    <3> HIDE DEF a, b, h
    <3>3. <<>> \o <<>> \o h = h
      BY <2>2, ConcatEmptySeq, EmptySeq
    <3> QED
      BY <3>2, <3>3, Zenon DEF h
  <2> QED
    BY <2>4, <2>5, <2>6
<1> QED
  BY <1>4, <1>5, <1>6, <1>7, Zenon DEF Insertion

-----------------------------------------------------------------------------
(* Cutting lists. *)

LEMMA CutBetween ==
  ASSUME NEW S, NEW x \in Seq(S), NEW y \in Seq(S), NEW l \in Seq(S), l = x \o y
  PROVE  /\ Len(x) \in 0 .. Len(l)
         /\ SubSeq(l, 1, Len(x)) = x
         /\ SubSeq(l, Len(x) + 1, Len(l)) = y
<1>1. /\ Len(x) \in Nat /\ Len(y) \in Nat /\ Len(l) = Len(x) + Len(y)
      /\ \A i \in 1 .. Len(l) : l[i] = IF i <= Len(x) THEN x[i] ELSE y[i - Len(x)]
      /\ \A i \in 1 .. Len(l) : l[i] \in S
  <2>1. /\ Len(x \o y) = Len(x) + Len(y)
        /\ \A i \in 1 .. Len(x) + Len(y) :
             (x \o y)[i] = IF i <= Len(x) THEN x[i] ELSE y[i - Len(x)]
    BY ConcatProperties
  <2>2. Len(x) \in Nat /\ Len(y) \in Nat /\ Len(l) \in Nat /\ \A i \in 1 .. Len(l) : l[i] \in S
    BY LenProperties, ElementOfSeq
  <2> QED
    BY <2>1, <2>2, Zenon
<1>2. SubSeq(l, 1, Len(x)) = x
  <2> DEFINE p == SubSeq(l, 1, Len(x))
  <2>1. \A i \in 1 .. Len(x) : l[i] \in S
    BY <1>1
  <2>2. p \in Seq(S) /\ Len(p) = (IF 1 <= Len(x) THEN Len(x) - 1 + 1 ELSE 0)
          /\ \A i \in 1 .. Len(x) - 1 + 1 : p[i] = l[1 + i - 1]
    BY <1>1, <2>1, SubSeqProperties
  <2> HIDE DEF p
  <2>3. Len(p) = Len(x) /\ \A i \in 1 .. Len(p) : p[i] = x[i]
    BY <1>1, <2>2
  <2>4. p = x
    BY <2>2, <2>3, SeqEqual
  <2> QED
    BY <2>4 DEF p
<1>3. SubSeq(l, Len(x) + 1, Len(l)) = y
  <2> DEFINE p == SubSeq(l, Len(x) + 1, Len(l))
  <2>1. \A i \in Len(x) + 1 .. Len(l) : l[i] \in S
    BY <1>1
  <2>2. /\ p \in Seq(S)
        /\ Len(p) = (IF Len(x) + 1 <= Len(l) THEN Len(l) - (Len(x) + 1) + 1 ELSE 0)
        /\ \A i \in 1 .. Len(l) - (Len(x) + 1) + 1 : p[i] = l[Len(x) + 1 + i - 1]
    BY <1>1, <2>1, SubSeqProperties
  <2> HIDE DEF p
  <2>3. Len(p) = Len(y)
    BY <1>1, <2>2
  <2>4. ASSUME NEW i \in 1 .. Len(p) PROVE p[i] = y[i]
    <3>1. Len(x) + i \in 1 .. Len(l) /\ ~ Len(x) + i <= Len(x) /\ Len(x) + i - Len(x) = i
      BY <1>1, <2>3
    <3>2. p[i] = l[Len(x) + i]
      <4>1. i \in 1 .. Len(l) - (Len(x) + 1) + 1 /\ Len(x) + 1 + i - 1 = Len(x) + i
        BY <1>1, <2>3
      <4> QED
        BY <2>2, <4>1
    <3> QED
      BY <1>1, <3>1, <3>2
  <2>5. p = y
    BY <2>2, <2>3, <2>4, SeqEqual
  <2> QED
    BY <2>5 DEF p
<1> QED
  BY <1>1, <1>2, <1>3

(* The provers do not match equations between concatenations: the lemmas     *)
(* that follow name them.                                                    *)

Parted(l, a, r, b)     == l = a \o r \o b
Regrouped(a, r, s, b)  == (a \o r) \o (s \o b) = a \o (r \o s) \o b
Associated(a, r, b)    == (a \o r) \o b = a \o (r \o b)
Joined(l, a, b)        ==
  /\ l = a \o b /\ Len(l) = Len(a) + Len(b)
  /\ \A j \in 1 .. Len(a) + Len(b) : l[j] = IF j <= Len(a) THEN a[j] ELSE b[j - Len(a)]
SplitInTwo(a, b, T)    == Those(a \o b, T) = Those(a, T) \o Those(b, T)
IsPart(p, s, m, n)     == p = SubSeq(s, m, n) /\ Len(p) = (IF m <= n THEN n - m + 1 ELSE 0)

LEMMA Associates ==
  ASSUME NEW S, NEW a \in Seq(S), NEW r \in Seq(S), NEW b \in Seq(S)
  PROVE  Associated(a, r, b)
BY ConcatAssociative DEF Associated

LEMMA Joins ==
  ASSUME NEW S, NEW a \in Seq(S), NEW b \in Seq(S)
  PROVE  \E l \in Seq(S) : Joined(l, a, b)
<1>1. /\ a \o b \in Seq(S) /\ Len(a \o b) = Len(a) + Len(b)
      /\ \A j \in 1 .. Len(a) + Len(b) :
           (a \o b)[j] = IF j <= Len(a) THEN a[j] ELSE b[j - Len(a)]
  BY ConcatProperties
<1>2. Joined(a \o b, a, b)
  BY <1>1, Zenon DEF Joined
<1> QED
  BY <1>1, <1>2, Zenon

LEMMA SplitsInTwo ==
  ASSUME NEW S, NEW a \in Seq(S), NEW b \in Seq(S), NEW T
  PROVE  SplitInTwo(a, b, T)
BY ThoseConcat DEF SplitInTwo

LEMMA Parts ==
  ASSUME NEW S, NEW s \in Seq(S), NEW m \in Nat \ {0}, NEW n \in Nat, n <= Len(s)
  PROVE  \E p \in Seq(S) : IsPart(p, s, m, n)
<1>1. \A i \in m .. n : s[i] \in S
  BY ElementOfSeq
<1>2. /\ SubSeq(s, m, n) \in Seq(S)
      /\ Len(SubSeq(s, m, n)) = (IF m <= n THEN n - m + 1 ELSE 0)
  BY <1>1, SubSeqProperties
<1>3. IsPart(SubSeq(s, m, n), s, m, n)
  BY <1>2, Zenon DEF IsPart
<1> QED
  BY <1>2, <1>3, Zenon

LEMMA Regroups ==
  ASSUME NEW S, NEW a \in Seq(S), NEW r \in Seq(S), NEW s \in Seq(S), NEW b \in Seq(S)
  PROVE  Regrouped(a, r, s, b)
<1>1. PICK u \in Seq(S) : Joined(u, a, r)
  BY Joins
<1>2. Associated(u, s, b) /\ Associated(a, r, s)
  BY Associates
<1> QED
  BY <1>1, <1>2, Zenon DEF Joined, Associated, Regrouped

\* Cutting a list in its middle part.
CutsInside(l, a, r, b, k) ==
  /\ Len(a) + k \in 0 .. Len(l)
  /\ SubSeq(l, 1, Len(a) + k) = a \o SubSeq(r, 1, k)
  /\ SubSeq(l, Len(a) + k + 1, Len(l)) = SubSeq(r, k + 1, Len(r)) \o b

LEMMA CutInside ==
  ASSUME NEW S, NEW a \in Seq(S), NEW r \in Seq(S), NEW b \in Seq(S), NEW l \in Seq(S),
         Parted(l, a, r, b), NEW k \in 0 .. Len(r)
  PROVE  CutsInside(l, a, r, b, k)
<1>0. /\ Len(r) \in Nat /\ k \in Nat /\ k <= Len(r)
      /\ 1 \in Nat \ {0} /\ k + 1 \in Nat \ {0} /\ Len(r) <= Len(r)
  BY LenProperties
<1>1. PICK r1 \in Seq(S) : IsPart(r1, r, 1, k)
  BY <1>0, Parts
<1>2. PICK r2 \in Seq(S) : IsPart(r2, r, k + 1, Len(r))
  BY <1>0, Parts
<1>3. Len(r1) = k
  BY <1>0, <1>1 DEF IsPart
<1>4. r = r1 \o r2
  <2>1. SubSeq(r, 1, k) \o SubSeq(r, k + 1, Len(r)) = SubSeq(r, 1, Len(r))
    <3>1. 1 \in 1 .. Len(r) + 1 /\ k \in 1 - 1 .. Len(r) /\ Len(r) \in k .. Len(r)
      BY <1>0
    <3> QED
      BY <3>1, ConcatAdjacentSubSeq
  <2>2. SubSeq(r, 1, Len(r)) = r
    BY SubSeqFull
  <2> QED
    BY <1>1, <1>2, <2>1, <2>2, Zenon DEF IsPart
<1>5. PICK x \in Seq(S) : Joined(x, a, r1)
  BY Joins
<1>6. PICK y \in Seq(S) : Joined(y, r2, b)
  BY Joins
<1>7. l = x \o y
  <2>1. Regrouped(a, r1, r2, b)
    BY Regroups
  <2> QED
    BY <1>4, <1>5, <1>6, <2>1, Zenon DEF Joined, Parted, Regrouped
<1>8. /\ Len(x) \in 0 .. Len(l)
      /\ SubSeq(l, 1, Len(x)) = x
      /\ SubSeq(l, Len(x) + 1, Len(l)) = y
  BY <1>7, CutBetween
<1>9. Len(x) = Len(a) + k
  BY <1>3, <1>5, Zenon DEF Joined
<1> QED
  BY <1>1, <1>2, <1>5, <1>6, <1>8, <1>9, Zenon DEF IsPart, Joined, CutsInside

\* What Expire does to a list whose middle part holds the goal acted for.
ExpiresInside(l, a, r, b, k, T) ==
  Those(SubSeq(l, 1, Len(a) + k), T) \o SubSeq(l, Len(a) + k + 1, Len(l))
    = Those(a, T) \o (Those(SubSeq(r, 1, k), T) \o SubSeq(r, k + 1, Len(r))) \o b

\* Dropping the elements ahead of a place inside r, but those of T.
LEMMA ExpireInside ==
  ASSUME NEW S, NEW a \in Seq(S), NEW r \in Seq(S), NEW b \in Seq(S), NEW l \in Seq(S),
         Parted(l, a, r, b), NEW k \in 0 .. Len(r), NEW T
  PROVE  ExpiresInside(l, a, r, b, k, T)
<1>0. /\ Len(r) \in Nat /\ k \in Nat /\ k <= Len(r)
      /\ 1 \in Nat \ {0} /\ k + 1 \in Nat \ {0} /\ Len(r) <= Len(r)
  BY LenProperties
<1>1. CutsInside(l, a, r, b, k)
  BY CutInside
<1>2. PICK r1 \in Seq(S) : IsPart(r1, r, 1, k)
  BY <1>0, Parts
<1>3. PICK r2 \in Seq(S) : IsPart(r2, r, k + 1, Len(r))
  BY <1>0, Parts
<1>4. SplitInTwo(a, r1, T)
  BY SplitsInTwo
<1>5. PICK ta \in Seq(S) : ta = Those(a, T)
  BY ThoseType
<1>6. PICK tr \in Seq(S) : tr = Those(r1, T)
  BY ThoseType
<1>7. Regrouped(ta, tr, r2, b)
  BY Regroups
<1> QED
  BY <1>1, <1>2, <1>3, <1>4, <1>5, <1>6, <1>7, Zenon
     DEF CutsInside, IsPart, SplitInTwo, Regrouped, ExpiresInside

\* Removing an element of the middle part of a list.
RemovesInside(l, a, r, b, i) ==
  RemoveAt(l, Len(a) + i) = a \o RemoveAt(r, i) \o b

LEMMA ElementInside ==
  ASSUME NEW S, NEW a \in Seq(S), NEW r \in Seq(S), NEW b \in Seq(S), NEW l \in Seq(S),
         Parted(l, a, r, b), NEW i \in 1 .. Len(r)
  PROVE  Len(a) + i \in DOMAIN l /\ l[Len(a) + i] = r[i]
<1>0. PICK u \in Seq(S) : Joined(u, a, r)
  BY Joins
<1>1. /\ Len(u) = Len(a) + Len(r)
      /\ \A j \in 1 .. Len(a) + Len(r) : u[j] = IF j <= Len(a) THEN a[j] ELSE r[j - Len(a)]
  BY <1>0, Zenon DEF Joined
<1>2. l = u \o b
  BY <1>0, Zenon DEF Joined, Parted
<1>3. /\ Len(l) = Len(u) + Len(b)
      /\ \A j \in 1 .. Len(u) + Len(b) : l[j] = IF j <= Len(u) THEN u[j] ELSE b[j - Len(u)]
  <2>1. PICK v \in Seq(S) : Joined(v, u, b)
    BY Joins
  <2> QED
    BY <1>2, <2>1, Zenon DEF Joined
<1>4. Len(a) \in Nat /\ Len(r) \in Nat /\ Len(b) \in Nat /\ DOMAIN l = 1 .. Len(l)
  BY LenProperties
<1>5. PICK j \in 1 .. Len(a) + Len(r) : j = Len(a) + i
  BY <1>4
<1>6. j \in DOMAIN l /\ l[j] = u[j]
  BY <1>1, <1>3, <1>4
<1>7. u[j] = r[i]
  <2>1. ~ j <= Len(a) /\ j - Len(a) = i
    BY <1>4, <1>5
  <2> QED
    BY <1>1, <2>1
<1> QED
  BY <1>5, <1>6, <1>7, Zenon

\* The first part of a list, and where the others end.
LEMMA PartsInside ==
  ASSUME NEW S, NEW a \in Seq(S), NEW r \in Seq(S), NEW b \in Seq(S), NEW l \in Seq(S),
         Parted(l, a, r, b)
  PROVE  /\ Len(l) = Len(a) + Len(r) + Len(b)
         /\ \A i \in 1 .. Len(a) : l[i] = a[i]
<1>0. PICK u \in Seq(S) : Joined(u, a, r)
  BY Joins
<1>1. /\ Len(u) = Len(a) + Len(r)
      /\ \A j \in 1 .. Len(a) + Len(r) : u[j] = IF j <= Len(a) THEN a[j] ELSE r[j - Len(a)]
  BY <1>0, Zenon DEF Joined
<1>2. l = u \o b
  BY <1>0, Zenon DEF Joined, Parted
<1>3. /\ Len(l) = Len(u) + Len(b)
      /\ \A j \in 1 .. Len(u) + Len(b) : l[j] = IF j <= Len(u) THEN u[j] ELSE b[j - Len(u)]
  <2>1. PICK v \in Seq(S) : Joined(v, u, b)
    BY Joins
  <2> QED
    BY <1>2, <2>1, Zenon DEF Joined
<1>4. Len(a) \in Nat /\ Len(r) \in Nat /\ Len(b) \in Nat
  BY LenProperties
<1>5. ASSUME NEW i \in 1 .. Len(a) PROVE l[i] = a[i]
  <2>1. i \in 1 .. Len(a) + Len(r) /\ i <= Len(a) /\ i \in 1 .. Len(u) + Len(b) /\ i <= Len(u)
    BY <1>1, <1>4
  <2> QED
    BY <1>1, <1>3, <2>1
<1> QED
  BY <1>1, <1>3, <1>5

\* Removing one element of r from the list around it.
LEMMA RemoveInside ==
  ASSUME NEW S, NEW a \in Seq(S), NEW r \in Seq(S), NEW b \in Seq(S), NEW l \in Seq(S),
         Parted(l, a, r, b), NEW i \in 1 .. Len(r)
  PROVE  RemovesInside(l, a, r, b, i)
<1>1. Len(a) \in Nat /\ Len(r) \in Nat
  BY LenProperties
<1>2. PICK k \in 0 .. Len(r) : k = i - 1
  BY <1>1
<1>3. i \in 0 .. Len(r) /\ Len(a) + k = (Len(a) + i) - 1 /\ k \in Nat /\ k <= Len(r)
        /\ i + 1 \in Nat \ {0} /\ Len(r) <= Len(r)
  BY <1>1, <1>2
<1>4. CutsInside(l, a, r, b, i) /\ CutsInside(l, a, r, b, k)
  BY <1>3, CutInside
<1>5. PICK r1 \in Seq(S) : IsPart(r1, r, 1, k)
  BY <1>3, Parts
<1>6. PICK r2 \in Seq(S) : IsPart(r2, r, i + 1, Len(r))
  BY <1>1, <1>3, Parts
<1>7. Regrouped(a, r1, r2, b)
  BY Regroups
<1>8. SubSeq(l, 1, (Len(a) + i) - 1) = a \o r1
  BY <1>3, <1>4, <1>5, Zenon DEF CutsInside, IsPart
<1>9. SubSeq(l, Len(a) + i + 1, Len(l)) = r2 \o b
  BY <1>4, <1>6, Zenon DEF CutsInside, IsPart
<1>10. RemoveAt(l, Len(a) + i) = (a \o r1) \o (r2 \o b)
  <2>1. RemoveAt(l, Len(a) + i)
          = SubSeq(l, 1, (Len(a) + i) - 1) \o SubSeq(l, Len(a) + i + 1, Len(l))
    BY DEF RemoveAt
  <2> QED
    BY <1>8, <1>9, <2>1, Zenon
<1>11. RemoveAt(r, i) = r1 \o r2
  BY <1>2, <1>5, <1>6, Zenon DEF IsPart, RemoveAt
<1> QED
  BY <1>7, <1>10, <1>11, Zenon DEF Regrouped, RemovesInside

AppendsLast(s, t, e) == s \o Append(t, e) = Append(s \o t, e)

LEMMA AppendLast ==
  ASSUME NEW S, NEW s \in Seq(S), NEW t \in Seq(S), NEW e \in S
  PROVE  AppendsLast(s, t, e)
<1>1. PICK d \in Seq(S) : d = <<e>>
  <2>1. <<e>> \in Seq(S)
    OBVIOUS
  <2> QED
    BY <2>1, Zenon
<1>2. PICK j \in Seq(S) : j = s \o t
  BY ConcatProperties
<1>3. Associated(s, t, d)
  BY Associates
<1>4. Append(t, e) = t \o <<e>> /\ Append(j, e) = j \o <<e>>
  BY AppendIsConcat
<1> QED
  BY <1>1, <1>2, <1>3, <1>4, Zenon DEF Associated, AppendsLast
=============================================================================
