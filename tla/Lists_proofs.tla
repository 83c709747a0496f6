---------------------------- MODULE Lists_proofs ----------------------------
(***************************************************************************)
(* Lemmas about lists, for the proofs that use them: induction on numbers  *)
(* and on sequences, for a set of them; the set of a list, lists without   *)
(* repetitions (Apart), what is kept of a list, totals, queues in order of *)
(* arrival (Rising, Requeue), blocks that tokens take (Ceil), and a list   *)
(* cut up at rising places (CutUp).                                        *)
(***************************************************************************)
EXTENDS Lists, FiniteSets, FiniteSetsExt, SequenceTheorems, FiniteSetTheorems,
        WellFoundedInduction, TLAPS

\* Induction on the naturals, for a set of them.
LEMMA NatInd ==
  ASSUME NEW P, 0 \in P, \A n \in Nat : n \in P => n + 1 \in P PROVE \A n \in Nat : n \in P
<1> DEFINE less == OpToRel(<, Nat)
           T == {n \in Nat : n \notin P}
<1>1. \A m, n \in Nat : m < n => <<m, n>> \in less
  BY DEF OpToRel
<1>2. IsWellFoundedOn(less, Nat)
  BY NatLessThanWellFounded
<1> HIDE DEF less
<1>3. SUFFICES ASSUME T # {} PROVE FALSE
  OBVIOUS
<1>4. PICK x \in T : \A y \in T : ~ (<<y, x>> \in less)
  BY <1>2, <1>3, WFMin
<1>5. x \in Nat /\ x # 0 /\ x - 1 \in Nat
  BY <1>4
<1>6. x - 1 \in P
  <2>1. <<x - 1, x>> \in less
    BY <1>1, <1>5
  <2> QED BY <1>4, <1>5, <2>1
<1>7. x \in P
  BY <1>5, <1>6
<1> QED BY <1>4, <1>7

\* Induction on sequences, for a set of them.
LEMMA SeqInd ==
  ASSUME NEW S, NEW P, << >> \in P, \A s \in Seq(S), e \in S : s \in P => Append(s, e) \in P
  PROVE  \A s \in Seq(S) : s \in P
<1> DEFINE N == {n \in Nat : \A s \in Seq(S) : Len(s) = n => s \in P}
<1>1. 0 \in N
  BY EmptySeq
<1>2. ASSUME NEW n \in Nat, n \in N PROVE n + 1 \in N
  <2> SUFFICES ASSUME NEW s \in Seq(S), Len(s) = n + 1 PROVE s \in P
    OBVIOUS
  <2>1. s # << >>
    BY <1>2
  <2>2. PICK t \in Seq(S), e \in S : s = Append(t, e)
    BY <2>1, SequenceEmptyOrAppend
  <2>3. Len(t) = n
    BY <2>2, AppendProperties, LenProperties
  <2> QED BY <1>2, <2>2, <2>3
<1> HIDE DEF N
<1>3. \A n \in Nat : n \in N
  BY <1>1, <1>2, NatInd, Zenon
<1> QED BY <1>3, LenProperties DEF N

\* The recursive function of FlattenSeq is there.
LEMMA FlattenThere ==
  ASSUME NEW S, NEW ss \in Seq(Seq(S))
  PROVE  \A n \in Nat : n <= Len(ss) =>
           \E f : f = [i \in 1 .. n |-> IF i = 1 THEN ss[i] ELSE f[i - 1] \o ss[i]]
<1> DEFINE Eq(f, n) == f = [i \in 1 .. n |-> IF i = 1 THEN ss[i] ELSE f[i - 1] \o ss[i]]
           N == {n \in Nat : n <= Len(ss) => \E f : Eq(f, n)}
<1>1. 0 \in N
  <2> DEFINE f == [i \in 1 .. 0 |-> 0]
  <2>1. Eq(f, 0)
    OBVIOUS
  <2> HIDE DEF f, Eq
  <2> QED BY <2>1
<1>2. ASSUME NEW n \in Nat, n \in N PROVE n + 1 \in N
  <2> SUFFICES ASSUME n + 1 <= Len(ss) PROVE \E g : Eq(g, n + 1)
    <3> HIDE DEF Eq
    <3> QED OBVIOUS
  <2>1. n <= Len(ss)
    BY LenProperties
  <2>2. PICK f : Eq(f, n)
    <3> HIDE DEF Eq
    <3> QED BY <1>2, <2>1
  <2> DEFINE g == [i \in 1 .. n + 1 |-> IF i = 1 THEN ss[i] ELSE f[i - 1] \o ss[i]]
  <2>3. ASSUME NEW i \in 1 .. n PROVE g[i] = f[i]
    <3>1. f[i] = IF i = 1 THEN ss[i] ELSE f[i - 1] \o ss[i]
      BY <2>2
    <3> QED BY <3>1
  <2>4. ASSUME NEW i \in 1 .. n + 1, i # 1 PROVE g[i - 1] = f[i - 1]
    <3>1. i - 1 \in 1 .. n
      BY <2>4
    <3> HIDE DEF g
    <3> QED BY <2>3, <3>1
  <2>5. Eq(g, n + 1)
    <3> HIDE DEF g
    <3>1. [i \in 1 .. n + 1 |-> IF i = 1 THEN ss[i] ELSE g[i - 1] \o ss[i]]
            = [i \in 1 .. n + 1 |-> IF i = 1 THEN ss[i] ELSE f[i - 1] \o ss[i]]
      BY <2>4
    <3> QED BY <3>1 DEF g
  <2> HIDE DEF g, Eq
  <2> QED BY <2>5
<1> HIDE DEF N
<1>3. \A n \in Nat : n \in N
  BY <1>1, <1>2, NatInd, Zenon
<1> QED BY <1>3 DEF N

\* FlattenSeq by the steps it takes.
LEMMA FlattenSteps ==
  ASSUME NEW S, NEW ss \in Seq(Seq(S)), ss # << >>
  PROVE  \E f \in [1 .. Len(ss) -> Seq(S)] :
           /\ f[1] = ss[1]
           /\ \A i \in 1 .. Len(ss) : i # 1 => f[i] = f[i - 1] \o ss[i]
           /\ FlattenSeq(ss) = f[Len(ss)]
<1>1. Len(ss) \in Nat /\ Len(ss) > 0
  BY EmptySeq
<1> DEFINE Eq(f) == f = [i \in 1 .. Len(ss) |-> IF i = 1 THEN ss[i] ELSE f[i - 1] \o ss[i]]
           f0 == CHOOSE f : Eq(f)
<1>2. \E f : Eq(f)
  <2>1. Len(ss) <= Len(ss)
    BY <1>1
  <2> QED BY <1>1, <2>1, FlattenThere, Zenon
<1>3. Eq(f0)
  BY <1>2, Zenon
<1>4. FlattenSeq(ss) = f0[Len(ss)]
  <2>1. Len(ss) # 0
    BY <1>1
  <2> QED BY <2>1, Zenon DEF FlattenSeq
<1> HIDE DEF f0
<1>5. f0[1] = ss[1] /\ \A i \in 1 .. Len(ss) : i # 1 => f0[i] = f0[i - 1] \o ss[i]
  <2>1. ASSUME NEW i \in 1 .. Len(ss)
        PROVE  f0[i] = IF i = 1 THEN ss[i] ELSE f0[i - 1] \o ss[i]
    BY <1>3
  <2>2. 1 \in 1 .. Len(ss)
    BY <1>1
  <2> QED BY <2>1, <2>2
<1>6. \A n \in Nat : n \in {k \in Nat : k + 1 <= Len(ss) => f0[k + 1] \in Seq(S)}
  <2> DEFINE N == {k \in Nat : k + 1 <= Len(ss) => f0[k + 1] \in Seq(S)}
  <2>1. 0 \in N
    BY <1>1, <1>5, ElementOfSeq
  <2>2. ASSUME NEW n \in Nat, n \in N PROVE n + 1 \in N
    <3> SUFFICES ASSUME n + 2 <= Len(ss) PROVE f0[n + 2] \in Seq(S)
      OBVIOUS
    <3>1. f0[n + 1] \in Seq(S) /\ ss[n + 2] \in Seq(S)
      BY <1>1, <2>2, ElementOfSeq
    <3>2. n + 2 \in 1 .. Len(ss) /\ n + 2 # 1 /\ (n + 2) - 1 = n + 1
      BY <1>1
    <3>3. f0[n + 2] = f0[n + 1] \o ss[n + 2]
      BY <1>5, <3>2
    <3> QED BY <3>1, <3>3, ConcatProperties
  <2> HIDE DEF N
  <2>3. \A n \in Nat : n \in N
    BY <2>1, <2>2, NatInd, Zenon
  <2> QED BY <2>3 DEF N
<1>7. f0 \in [1 .. Len(ss) -> Seq(S)]
  <2>1. ASSUME NEW i \in 1 .. Len(ss) PROVE f0[i] \in Seq(S)
    <3>1. i - 1 \in Nat /\ (i - 1) + 1 = i
      BY <1>1
    <3>2. (i - 1) + 1 <= Len(ss)
      BY <1>1
    <3> QED BY <1>6, <3>1, <3>2
  <2> QED BY <1>3, <2>1
<1> QED BY <1>4, <1>5, <1>7

\* Joining no lists gives none.
LEMMA FlattenEmpty == FlattenSeq(<< >>) = << >>
  BY DEF FlattenSeq

\* Joined, lists over S are a list over S.
LEMMA FlattenType ==
  ASSUME NEW S, NEW ss \in Seq(Seq(S)) PROVE FlattenSeq(ss) \in Seq(S)
<1>1. CASE ss = << >>
  BY <1>1, FlattenEmpty, EmptySeq
<1>2. CASE ss # << >>
  <2>1. Len(ss) \in 1 .. Len(ss)
    BY <1>2, EmptySeq
  <2>2. PICK f \in [1 .. Len(ss) -> Seq(S)] : FlattenSeq(ss) = f[Len(ss)]
    BY <1>2, FlattenSteps
  <2> QED BY <2>1, <2>2
<1> QED BY <1>1, <1>2

\* A list joined last is at the end.
LEMMA FlattenAppend ==
  ASSUME NEW S, NEW ss \in Seq(Seq(S)), NEW s \in Seq(S)
  PROVE  FlattenSeq(Append(ss, s)) = FlattenSeq(ss) \o s
<1> DEFINE tt == Append(ss, s)
<1>1. /\ tt \in Seq(Seq(S)) /\ tt # << >> /\ Len(tt) = Len(ss) + 1 /\ Len(ss) \in Nat
      /\ \A i \in 1 .. Len(ss) : tt[i] = ss[i]
      /\ tt[Len(ss) + 1] = s
  BY AppendProperties, LenProperties
<1> HIDE DEF tt
<1>2. PICK g \in [1 .. Len(tt) -> Seq(S)] :
           /\ g[1] = tt[1]
           /\ \A i \in 1 .. Len(tt) : i # 1 => g[i] = g[i - 1] \o tt[i]
           /\ FlattenSeq(tt) = g[Len(tt)]
  BY <1>1, FlattenSteps
<1>3. CASE ss = << >>
  <2>1. FlattenSeq(tt) = s
    BY <1>1, <1>2, <1>3, EmptySeq
  <2> QED BY <2>1, <1>3, FlattenEmpty, ConcatEmptySeq DEF tt
<1>4. CASE ss # << >>
  <2>1. PICK f \in [1 .. Len(ss) -> Seq(S)] :
           /\ f[1] = ss[1]
           /\ \A i \in 1 .. Len(ss) : i # 1 => f[i] = f[i - 1] \o ss[i]
           /\ FlattenSeq(ss) = f[Len(ss)]
    BY <1>4, FlattenSteps
  <2>2. Len(ss) > 0
    BY <1>4, EmptySeq
  <2> DEFINE N == {k \in Nat : k + 1 <= Len(ss) => f[k + 1] = g[k + 1]}
  <2>3. 0 \in N
    BY <1>1, <1>2, <2>1, <2>2
  <2>4. ASSUME NEW n \in Nat, n \in N PROVE n + 1 \in N
    <3> SUFFICES ASSUME n + 2 <= Len(ss) PROVE f[n + 2] = g[n + 2]
      OBVIOUS
    <3>1. f[n + 1] = g[n + 1] /\ tt[n + 2] = ss[n + 2]
      BY <1>1, <2>4
    <3>2. /\ n + 2 \in 1 .. Len(ss) /\ n + 2 \in 1 .. Len(tt) /\ n + 2 # 1
          /\ (n + 2) - 1 = n + 1
      BY <1>1
    <3>3. f[n + 2] = f[n + 1] \o ss[n + 2]
      BY <2>1, <3>2
    <3>4. g[n + 2] = g[n + 1] \o tt[n + 2]
      BY <1>2, <3>2
    <3> QED BY <3>1, <3>3, <3>4
  <2>5. \A n \in Nat : n \in N
    <3> HIDE DEF N
    <3> QED BY <2>3, <2>4, NatInd, Zenon
  <2>6. f[Len(ss)] = g[Len(ss)]
    <3>1. Len(ss) - 1 \in Nat /\ (Len(ss) - 1) + 1 = Len(ss)
      BY <1>1, <2>2
    <3>2. (Len(ss) - 1) + 1 <= Len(ss)
      BY <1>1
    <3> QED BY <2>5, <3>1, <3>2
  <2>7. g[Len(tt)] = g[Len(ss)] \o s
    <3>1. Len(tt) \in 1 .. Len(tt) /\ Len(tt) # 1 /\ Len(tt) - 1 = Len(ss)
      BY <1>1, <2>2
    <3> QED BY <1>1, <1>2, <3>1
  <2> QED BY <1>2, <2>1, <2>6, <2>7 DEF tt
<1> QED BY <1>3, <1>4

---------------------------------------------------------------------------
(* What is in a sequence.                                                  *)

\* The set of a list, by its places.
LEMMA SetOf ==
  ASSUME NEW S, NEW s \in Seq(S)
  PROVE  /\ ToSet(s) = {s[i] : i \in 1 .. Len(s)} /\ ToSet(s) \subseteq S
         /\ s = << >> <=> ToSet(s) = {}
<1>1. Len(s) \in Nat /\ DOMAIN s = 1 .. Len(s) /\ \A i \in 1 .. Len(s) : s[i] \in S
  BY LenProperties
<1>2. s # << >> => 1 \in 1 .. Len(s)
  BY EmptySeq
<1>3. s = << >> => Len(s) = 0
  BY EmptySeq
<1>4. ToSet(s) = {s[i] : i \in 1 .. Len(s)}
  BY <1>1, Zenon DEF ToSet
<1> QED BY <1>1, <1>2, <1>3, <1>4

\* No list has no elements.
LEMMA SetOfEmpty == ToSet(<< >>) = {}
  BY DEF ToSet

\* The elements of two lists in a row.
LEMMA SetOfConcat ==
  ASSUME NEW S, NEW s \in Seq(S), NEW t \in Seq(S) PROVE ToSet(s \o t) = ToSet(s) \cup ToSet(t)
<1>1. /\ Len(s) \in Nat /\ Len(t) \in Nat
      /\ s \o t \in Seq(S) /\ Len(s \o t) = Len(s) + Len(t)
      /\ \A i \in 1 .. Len(s) + Len(t) :
           (s \o t)[i] = IF i <= Len(s) THEN s[i] ELSE t[i - Len(s)]
  BY ConcatProperties, LenProperties
<1> DEFINE u == s \o t
<1> HIDE DEF u
<1>5. /\ ToSet(u) = {u[i] : i \in 1 .. Len(u)} /\ ToSet(s) = {s[i] : i \in 1 .. Len(s)}
      /\ ToSet(t) = {t[i] : i \in 1 .. Len(t)}
  BY <1>1, SetOf DEF u
<1>2. ASSUME NEW i \in 1 .. Len(u) PROVE u[i] \in ToSet(s) \cup ToSet(t)
  <2>1. CASE i <= Len(s)
    BY <1>1, <2>1, SetOf DEF u
  <2>2. CASE ~(i <= Len(s))
    <3>1. i - Len(s) \in 1 .. Len(t)
      BY <1>1, <2>2 DEF u
    <3> QED BY <1>1, <2>2, <3>1, SetOf DEF u
  <2> QED BY <2>1, <2>2
<1>3. ASSUME NEW i \in 1 .. Len(s) PROVE s[i] \in ToSet(u)
  <2>1. i \in 1 .. Len(u) /\ u[i] = s[i]
    BY <1>1 DEF u
  <2> QED BY <1>5, <2>1
<1>4. ASSUME NEW i \in 1 .. Len(t) PROVE t[i] \in ToSet(u)
  <2>1. i + Len(s) \in 1 .. Len(u) /\ u[i + Len(s)] = t[i]
    BY <1>1 DEF u
  <2> QED BY <1>5, <2>1
<1>6. ToSet(u) = ToSet(s) \cup ToSet(t)
  BY <1>2, <1>3, <1>4, <1>5
<1> QED BY <1>6 DEF u

\* The elements of a list one longer.
LEMMA SetOfAppend ==
  ASSUME NEW S, NEW s \in Seq(S), NEW e \in S PROVE ToSet(Append(s, e)) = ToSet(s) \cup {e}
<1>1. <<e>> \in Seq(S) /\ ToSet(<<e>>) = {e}
  BY DEF ToSet
<1>2. Append(s, e) = s \o <<e>>
  BY AppendIsConcat
<1>3. ToSet(s \o <<e>>) = ToSet(s) \cup ToSet(<<e>>)
  BY <1>1, SetOfConcat, ZenonT(40)
<1> QED BY <1>1, <1>2, <1>3

\* The elements of a sequence are all different.
Apart(s) == \A i, j \in DOMAIN s : s[i] = s[j] => i = j

\* Two lists in a row have no element twice when neither has, and none in
\* common.
LEMMA ApartConcat ==
  ASSUME NEW S, NEW s \in Seq(S), NEW t \in Seq(S)
  PROVE  Apart(s \o t) <=> Apart(s) /\ Apart(t) /\ ToSet(s) \cap ToSet(t) = {}
<1>1. /\ Len(s) \in Nat /\ Len(t) \in Nat
      /\ s \o t \in Seq(S) /\ Len(s \o t) = Len(s) + Len(t)
      /\ \A i \in 1 .. Len(s) + Len(t) :
           (s \o t)[i] = IF i <= Len(s) THEN s[i] ELSE t[i - Len(s)]
  BY ConcatProperties, LenProperties
<1> DEFINE u == s \o t
<1> HIDE DEF u
<1>2. /\ DOMAIN u = 1 .. Len(s) + Len(t) /\ DOMAIN s = 1 .. Len(s) /\ DOMAIN t = 1 .. Len(t)
  BY <1>1, LenProperties DEF u
<1>3. \A i \in 1 .. Len(s) : u[i] = s[i]
  BY <1>1 DEF u
<1>4. \A i \in 1 .. Len(t) : u[i + Len(s)] = t[i]
  BY <1>1 DEF u
<1>5. ASSUME Apart(u) PROVE Apart(s) /\ Apart(t) /\ ToSet(s) \cap ToSet(t) = {}
  <2>1. Apart(s)
    BY <1>1, <1>2, <1>3, <1>5 DEF Apart
  <2>2. ASSUME NEW i \in 1 .. Len(t), NEW j \in 1 .. Len(t), t[i] = t[j] PROVE i = j
    <3>1. i + Len(s) \in DOMAIN u /\ j + Len(s) \in DOMAIN u
      BY <1>1, <1>2
    <3>2. i + Len(s) = j + Len(s)
      BY <1>4, <1>5, <2>2, <3>1 DEF Apart
    <3> QED BY <1>1, <3>2
  <2>3. ASSUME NEW i \in 1 .. Len(s), NEW j \in 1 .. Len(t), s[i] = t[j] PROVE FALSE
    <3>1. i \in DOMAIN u /\ j + Len(s) \in DOMAIN u /\ i # j + Len(s)
      BY <1>1, <1>2
    <3> QED BY <1>3, <1>4, <1>5, <2>3, <3>1 DEF Apart
  <2> QED BY <1>2, <2>1, <2>2, <2>3, SetOf DEF Apart
<1>6. ASSUME Apart(s), Apart(t), ToSet(s) \cap ToSet(t) = {} PROVE Apart(u)
  <2> SUFFICES ASSUME NEW i \in DOMAIN u, NEW j \in DOMAIN u, u[i] = u[j] PROVE i = j
    BY DEF Apart
  <2>1. \A k \in DOMAIN u : \/ k \in 1 .. Len(s) /\ u[k] = s[k] /\ u[k] \in ToSet(s)
                            \/ k - Len(s) \in 1 .. Len(t) /\ u[k] = t[k - Len(s)] /\ u[k] \in ToSet(t)
    <3> SUFFICES ASSUME NEW k \in DOMAIN u
                 PROVE  \/ k \in 1 .. Len(s) /\ u[k] = s[k] /\ u[k] \in ToSet(s)
                        \/ k - Len(s) \in 1 .. Len(t) /\ u[k] = t[k - Len(s)] /\ u[k] \in ToSet(t)
      OBVIOUS
    <3>1. k \in 1 .. Len(s) \/ k - Len(s) \in 1 .. Len(t)
      BY <1>1, <1>2
    <3>2. CASE k \in 1 .. Len(s)
      BY <1>3, <3>2, SetOf
    <3>3. CASE k - Len(s) \in 1 .. Len(t)
      <4>1. u[k] = t[k - Len(s)]
        BY <1>1, <1>2, <1>4, <3>3
      <4> QED BY <3>3, <4>1, SetOf
    <3> QED BY <3>1, <3>2, <3>3
  <2>2. CASE i \in 1 .. Len(s) /\ j \in 1 .. Len(s)
    BY <1>2, <1>3, <1>6, <2>2 DEF Apart
  <2>3. CASE i - Len(s) \in 1 .. Len(t) /\ j - Len(s) \in 1 .. Len(t)
    <3>1. t[i - Len(s)] = t[j - Len(s)]
      BY <1>1, <1>2, <1>4, <2>3
    <3>2. i - Len(s) = j - Len(s)
      BY <1>2, <1>6, <2>3, <3>1 DEF Apart
    <3> QED BY <1>1, <1>2, <3>2
  <2> QED BY <1>6, <2>1, <2>2, <2>3
<1> QED BY <1>5, <1>6 DEF u

\* A list without repetitions stays so when a new element comes.
LEMMA ApartAppend ==
  ASSUME NEW S, NEW s \in Seq(S), NEW e \in S
  PROVE  Apart(Append(s, e)) <=> Apart(s) /\ e \notin ToSet(s)
<1>1. <<e>> \in Seq(S) /\ ToSet(<<e>>) = {e} /\ Apart(<<e>>)
  BY DEF ToSet, Apart
<1>2. Append(s, e) = s \o <<e>>
  BY AppendIsConcat
<1>3. Apart(s \o <<e>>) <=> Apart(s) /\ ToSet(s) \cap {e} = {}
  BY <1>1, ApartConcat, Zenon
<1> QED BY <1>2, <1>3

\* What is in a sequence of sequences is what is in them.
LEMMA FlattenMembers ==
  ASSUME NEW S, NEW ss \in Seq(Seq(S))
  PROVE  \A e : e \in ToSet(FlattenSeq(ss)) <=> \E i \in 1 .. Len(ss) : e \in ToSet(ss[i])
<1> DEFINE Good(r) == \A e : e \in ToSet(FlattenSeq(r)) <=> \E i \in 1 .. Len(r) : e \in ToSet(r[i])
           P == {r \in Seq(Seq(S)) : Good(r)}
<1>1. << >> \in P
  <2>1. Good(<< >>)
    BY FlattenEmpty, SetOfEmpty, EmptySeq
  <2> HIDE DEF Good
  <2> QED BY <2>1, EmptySeq
<1>2. ASSUME NEW r \in Seq(Seq(S)), NEW s \in Seq(S), r \in P PROVE Append(r, s) \in P
  <2> DEFINE q == Append(r, s)
  <2>1. /\ q \in Seq(Seq(S)) /\ Len(q) = Len(r) + 1 /\ Len(r) \in Nat
        /\ \A i \in 1 .. Len(r) : q[i] = r[i]
        /\ q[Len(r) + 1] = s
    BY AppendProperties, LenProperties
  <2>2. FlattenSeq(q) = FlattenSeq(r) \o s /\ FlattenSeq(r) \in Seq(S)
    BY FlattenAppend, FlattenType
  <2>3. ToSet(FlattenSeq(q)) = ToSet(FlattenSeq(r)) \cup ToSet(s)
    BY <2>2, SetOfConcat
  <2> HIDE DEF q
  <2>4. Good(r)
    BY <1>2
  <2>5. Good(q)
    <3> SUFFICES ASSUME NEW e
                 PROVE  e \in ToSet(FlattenSeq(q)) <=> \E i \in 1 .. Len(q) : e \in ToSet(q[i])
      OBVIOUS
    <3>1. e \in ToSet(FlattenSeq(q)) <=> (\E i \in 1 .. Len(r) : e \in ToSet(r[i])) \/ e \in ToSet(s)
      BY <2>3, <2>4
    <3>2. ASSUME NEW i \in 1 .. Len(q), e \in ToSet(q[i])
          PROVE  (\E j \in 1 .. Len(r) : e \in ToSet(r[j])) \/ e \in ToSet(s)
      <4>1. i \in 1 .. Len(r) \/ i = Len(r) + 1
        BY <2>1
      <4> QED BY <2>1, <3>2, <4>1
    <3>3. ASSUME NEW i \in 1 .. Len(r), e \in ToSet(r[i])
          PROVE  \E j \in 1 .. Len(q) : e \in ToSet(q[j])
      <4>1. i \in 1 .. Len(q) /\ q[i] = r[i]
        BY <2>1
      <4> QED BY <3>3, <4>1
    <3>4. ASSUME e \in ToSet(s) PROVE \E j \in 1 .. Len(q) : e \in ToSet(q[j])
      <4>1. Len(r) + 1 \in 1 .. Len(q) /\ q[Len(r) + 1] = s
        BY <2>1
      <4> QED BY <3>4, <4>1
    <3> QED BY <3>1, <3>2, <3>3, <3>4
  <2> HIDE DEF Good
  <2>6. q \in P
    BY <2>1, <2>5
  <2> QED BY <2>6 DEF q
<1> HIDE DEF P
<1>3. \A r \in Seq(Seq(S)) : r \in P
  BY <1>1, <1>2, SeqInd, Zenon
<1> QED BY <1>3 DEF P

\* It names nothing twice if they do not and have nothing in common.
LEMMA FlattenApart ==
  ASSUME NEW S, NEW ss \in Seq(Seq(S)),
         \A i \in 1 .. Len(ss) : Apart(ss[i]),
         \A i, j \in 1 .. Len(ss) : i # j => ToSet(ss[i]) \cap ToSet(ss[j]) = {}
  PROVE  Apart(FlattenSeq(ss))
<1> DEFINE Each(r) == /\ \A i \in 1 .. Len(r) : Apart(r[i])
                      /\ \A i, j \in 1 .. Len(r) : i # j => ToSet(r[i]) \cap ToSet(r[j]) = {}
           P == {r \in Seq(Seq(S)) : Each(r) => Apart(FlattenSeq(r))}
<1>1. << >> \in P
  <2>1. Apart(FlattenSeq(<< >>))
    BY FlattenEmpty DEF Apart
  <2> HIDE DEF Each
  <2> QED BY <2>1, EmptySeq
<1>2. ASSUME NEW r \in Seq(Seq(S)), NEW s \in Seq(S), r \in P PROVE Append(r, s) \in P
  <2> DEFINE q == Append(r, s)
  <2>1. /\ q \in Seq(Seq(S)) /\ Len(q) = Len(r) + 1 /\ Len(r) \in Nat
        /\ \A i \in 1 .. Len(r) : q[i] = r[i]
        /\ q[Len(r) + 1] = s
    BY AppendProperties, LenProperties
  <2>2. FlattenSeq(q) = FlattenSeq(r) \o s /\ FlattenSeq(r) \in Seq(S)
    BY FlattenAppend, FlattenType
  <2> HIDE DEF q
  <2>3. ASSUME Each(q) PROVE Apart(FlattenSeq(q))
    <3>1. \A i \in 1 .. Len(r) : i \in 1 .. Len(q) /\ i # Len(r) + 1
      BY <2>1
    <3>2. Each(r)
      BY <2>1, <2>3, <3>1
    <3>3. Len(r) + 1 \in 1 .. Len(q)
      BY <2>1
    <3>4. Apart(s)
      BY <2>1, <2>3, <3>3
    <3>5. ToSet(FlattenSeq(r)) \cap ToSet(s) = {}
      <4> SUFFICES ASSUME NEW e \in ToSet(FlattenSeq(r)), e \in ToSet(s) PROVE FALSE
        OBVIOUS
      <4>1. \E i \in 1 .. Len(r) : e \in ToSet(r[i])
        BY FlattenMembers
      <4>a. PICK i \in 1 .. Len(r) : e \in ToSet(r[i])
        BY <4>1
      <4>2. ToSet(q[i]) \cap ToSet(q[Len(r) + 1]) = {}
        BY <2>3, <3>1, <3>3
      <4> QED BY <2>1, <4>a, <4>2
    <3>6. Apart(FlattenSeq(r))
      <4> HIDE DEF Each
      <4> QED BY <1>2, <3>2
    <3> QED BY <2>2, <3>4, <3>5, <3>6, ApartConcat
  <2> HIDE DEF Each
  <2>4. q \in P
    BY <2>1, <2>3
  <2> QED BY <2>4 DEF q
<1> HIDE DEF P
<1>3. \A r \in Seq(Seq(S)) : r \in P
  BY <1>1, <1>2, SeqInd, Zenon
<1> QED BY <1>3 DEF P

---------------------------------------------------------------------------
(* Kept.                                                                   *)

\* Nothing is kept of nothing.
LEMMA KeptEmpty == ASSUME NEW T PROVE Kept(<< >>, T) = << >>
<1>1. [i \in DOMAIN << >> |-> IF << >>[i] \in T THEN << << >>[i] >> ELSE << >>] = << >>
  OBVIOUS
<1> QED BY <1>1, FlattenEmpty DEF Kept

\* What is kept of a list one longer.
LEMMA KeptAppend ==
  ASSUME NEW S, NEW T, NEW s \in Seq(S), NEW e \in S
  PROVE  /\ Kept(s, T) \in Seq(S)
         /\ Kept(Append(s, e), T) = IF e \in T THEN Append(Kept(s, T), e) ELSE Kept(s, T)
<1> DEFINE Ones(r) == [i \in DOMAIN r |-> IF r[i] \in T THEN <<r[i]>> ELSE << >>]
           last == IF e \in T THEN <<e>> ELSE << >>
           t == Append(s, e)
<1>1. ASSUME NEW r \in Seq(S) PROVE Ones(r) \in Seq(Seq(S)) /\ Len(Ones(r)) = Len(r)
  <2>1. Len(r) \in Nat /\ DOMAIN r = 1 .. Len(r) /\ \A i \in 1 .. Len(r) : r[i] \in S
    BY LenProperties
  <2>2. \A i \in 1 .. Len(r) : (IF r[i] \in T THEN <<r[i]>> ELSE << >>) \in Seq(S)
    BY <2>1
  <2> QED BY <2>1, <2>2
<1>2. /\ t \in Seq(S) /\ Len(t) = Len(s) + 1 /\ Len(s) \in Nat
      /\ \A i \in 1 .. Len(s) : t[i] = s[i]
      /\ t[Len(s) + 1] = e
      /\ DOMAIN s = 1 .. Len(s) /\ DOMAIN t = 1 .. Len(s) + 1
  BY AppendProperties, LenProperties
<1>3. last \in Seq(S)
  OBVIOUS
<1>4. Ones(t) = Append(Ones(s), last)
  <2> HIDE DEF t, last
  <2>1. /\ Append(Ones(s), last) \in Seq(Seq(S)) /\ Len(Append(Ones(s), last)) = Len(s) + 1
        /\ \A i \in 1 .. Len(s) : Append(Ones(s), last)[i] = Ones(s)[i]
        /\ Append(Ones(s), last)[Len(s) + 1] = last
    <3>1. Ones(s) \in Seq(Seq(S)) /\ Len(Ones(s)) = Len(s)
      BY <1>1
    <3> HIDE DEF Ones
    <3> QED BY <1>3, <3>1, AppendProperties
  <2>2. Ones(t) \in Seq(Seq(S)) /\ Len(Ones(t)) = Len(s) + 1
    BY <1>1, <1>2
  <2>3. ASSUME NEW i \in 1 .. Len(s) + 1 PROVE Ones(t)[i] = Append(Ones(s), last)[i]
    <3>1. CASE i \in 1 .. Len(s)
      <4>1. Ones(t)[i] = Ones(s)[i]
        BY <1>2, <3>1
      <4> HIDE DEF Ones
      <4> QED BY <2>1, <3>1, <4>1
    <3>2. CASE i = Len(s) + 1
      <4>1. Ones(t)[i] = last
        BY <1>2, <3>2 DEF last
      <4> HIDE DEF Ones
      <4> QED BY <2>1, <3>2, <4>1
    <3> QED BY <1>2, <3>1, <3>2
  <2> DEFINE a == Ones(t)
             b == Append(Ones(s), last)
  <2>4. a \in Seq(Seq(S)) /\ b \in Seq(Seq(S)) /\ Len(a) = Len(b) /\ \A i \in 1 .. Len(a) : a[i] = b[i]
    BY <2>1, <2>2, <2>3
  <2> HIDE DEF a, b
  <2>5. a = b
    BY <2>4, SeqEqual
  <2> QED BY <2>5 DEF a, b
<1>5. Kept(s, T) = FlattenSeq(Ones(s)) /\ Kept(t, T) = FlattenSeq(Ones(t))
  BY DEF Kept
<1>6. Ones(s) \in Seq(Seq(S))
  BY <1>1
<1> HIDE DEF Ones, t
<1>7. FlattenSeq(Ones(t)) = FlattenSeq(Ones(s)) \o last /\ FlattenSeq(Ones(s)) \in Seq(S)
  BY <1>3, <1>4, <1>6, FlattenAppend, FlattenType
<1>8. CASE e \in T
  <2>1. FlattenSeq(Ones(s)) \o <<e>> = Append(FlattenSeq(Ones(s)), e)
    BY <1>7, AppendIsConcat
  <2> QED BY <1>5, <1>7, <1>8, <2>1 DEF t
<1>9. CASE e \notin T
  BY <1>5, <1>7, <1>9, ConcatEmptySeq DEF t
<1> QED BY <1>5, <1>7, <1>8, <1>9

\* Where the kept elements were: in the same order, and all of those in the set.
KeptAt(s, k, T, h) ==
  /\ h \in [1 .. Len(k) -> 1 .. Len(s)]
  /\ \A i, j \in 1 .. Len(k) : i < j => h[i] < h[j]
  /\ \A j \in 1 .. Len(k) : k[j] = s[h[j]] /\ k[j] \in T
  /\ \A i \in 1 .. Len(s) : s[i] \in T => \E j \in 1 .. Len(k) : h[j] = i

\* What is kept of a list stands in it at rising places.
LEMMA KeptPlaces ==
  ASSUME NEW S, NEW T, NEW s \in Seq(S)
  PROVE  Kept(s, T) \in Seq(S) /\ \E h : KeptAt(s, Kept(s, T), T, h)
<1> DEFINE P == {r \in Seq(S) : Kept(r, T) \in Seq(S) /\ \E h : KeptAt(r, Kept(r, T), T, h)}
<1>1. << >> \in P
  <2> DEFINE h == [i \in 1 .. 0 |-> 0]
  <2>1. Kept(<< >>, T) = << >> /\ << >> \in Seq(S) /\ Len(<< >>) = 0
    BY KeptEmpty, EmptySeq
  <2>2. KeptAt(<< >>, << >>, T, h)
    BY <2>1 DEF KeptAt
  <2> HIDE DEF h
  <2> QED BY <2>1, <2>2
<1>2. ASSUME NEW r \in Seq(S), NEW e \in S, r \in P PROVE Append(r, e) \in P
  <2> DEFINE q == Append(r, e)
             k == Kept(r, T)
             n == Len(r)
             m == Len(k)
  <2>1. /\ q \in Seq(S) /\ Len(q) = n + 1 /\ n \in Nat
        /\ \A i \in 1 .. n : q[i] = r[i]
        /\ q[n + 1] = e
    BY AppendProperties, LenProperties
  <2>2. k \in Seq(S) /\ m \in Nat
    BY <1>2, LenProperties
  <2>3. PICK h : KeptAt(r, k, T, h)
    BY <1>2
  <2>4. Kept(q, T) = IF e \in T THEN Append(k, e) ELSE k
    BY KeptAppend
  <2> HIDE DEF q, P
  <2>5. CASE e \in T
    <3> DEFINE l == Append(k, e)
               g == [j \in 1 .. m + 1 |-> IF j <= m THEN h[j] ELSE n + 1]
    <3>1. /\ l \in Seq(S) /\ Len(l) = m + 1
          /\ \A j \in 1 .. m : l[j] = k[j]
          /\ l[m + 1] = e
      BY <2>2, AppendProperties
    <3> HIDE DEF l, k
    <3>2. g \in [1 .. Len(l) -> 1 .. Len(q)]
      BY <2>1, <2>2, <2>3, <3>1 DEF KeptAt
    <3>3. ASSUME NEW i \in 1 .. Len(l), NEW j \in 1 .. Len(l), i < j PROVE g[i] < g[j]
      <4>a. i \in 1 .. m
        BY <2>2, <3>1, <3>3
      <4>1. i \in 1 .. m /\ g[i] = h[i] /\ h[i] \in 1 .. n
        <5>1. h \in [1 .. m -> 1 .. n]
          BY <2>3, Zenon DEF KeptAt
        <5>2. g[i] = h[i]
          BY <2>2, <4>a
        <5> HIDE DEF g, m, n
        <5> QED BY <4>a, <5>1, <5>2
      <4>2. CASE j <= m
        <5>1. j \in 1 .. m /\ g[j] = h[j] /\ h[i] < h[j]
          BY <2>2, <2>3, <3>1, <3>3, <4>1, <4>2 DEF KeptAt
        <5> QED BY <4>1, <5>1
      <4>3. CASE ~(j <= m)
        <5>1. g[j] = n + 1
          BY <2>2, <3>1, <4>3
        <5> QED BY <2>1, <4>1, <5>1
      <4> QED BY <4>2, <4>3
    <3>4. ASSUME NEW j \in 1 .. Len(l) PROVE l[j] = q[g[j]] /\ l[j] \in T
      <4>1. CASE j \in 1 .. m
        <5>1. g[j] = h[j] /\ h[j] \in 1 .. n /\ k[j] = r[h[j]] /\ k[j] \in T
          BY <2>2, <2>3, <4>1 DEF KeptAt
        <5> QED BY <2>1, <3>1, <4>1, <5>1
      <4>2. CASE j = m + 1
        <5>1. g[j] = n + 1
          BY <2>2, <4>2
        <5> QED BY <2>1, <2>5, <3>1, <4>2, <5>1
      <4> QED BY <2>2, <3>1, <4>1, <4>2
    <3>5. ASSUME NEW i \in 1 .. Len(q), q[i] \in T PROVE \E j \in 1 .. Len(l) : g[j] = i
      <4>1. CASE i \in 1 .. n
        <5>1. PICK j \in 1 .. m : h[j] = i
          BY <2>1, <2>3, <3>5, <4>1 DEF KeptAt
        <5>2. j \in 1 .. Len(l) /\ g[j] = i
          BY <2>2, <3>1, <5>1
        <5> HIDE DEF g
        <5> QED BY <5>2
      <4>2. CASE i = n + 1
        <5>1. m + 1 \in 1 .. Len(l) /\ g[m + 1] = i
          BY <2>2, <3>1, <4>2
        <5> HIDE DEF g
        <5> QED BY <5>1
      <4>3. i \in 1 .. n \/ i = n + 1
        BY <2>1
      <4> QED BY <4>1, <4>2, <4>3
    <3> HIDE DEF g
    <3>6. KeptAt(q, l, T, g)
      BY <3>2, <3>3, <3>4, <3>5 DEF KeptAt
    <3>7. Kept(q, T) = l
      BY <2>4, <2>5 DEF l
    <3> QED BY <2>1, <3>1, <3>6, <3>7 DEF P, q
  <2>6. CASE e \notin T
    <3>1. KeptAt(q, k, T, h)
      <4> HIDE DEF k
      <4>1. \A j \in 1 .. Len(k) : h[j] \in 1 .. n /\ k[j] = r[h[j]] /\ k[j] \in T
        BY <2>3 DEF KeptAt
      <4>2. h \in [1 .. Len(k) -> 1 .. Len(q)]
        BY <2>1, <2>3 DEF KeptAt
      <4>3. \A j \in 1 .. Len(k) : k[j] = q[h[j]]
        BY <2>1, <4>1
      <4>4. ASSUME NEW i \in 1 .. Len(q), q[i] \in T PROVE \E j \in 1 .. Len(k) : h[j] = i
        <5>1. i \in 1 .. n \/ i = n + 1
          BY <2>1
        <5>2. i \in 1 .. n
          BY <2>1, <2>6, <4>4, <5>1
        <5> QED BY <2>1, <2>3, <4>4, <5>2 DEF KeptAt
      <4> QED BY <2>3, <4>1, <4>2, <4>3, <4>4 DEF KeptAt
    <3>2. Kept(q, T) = k
      BY <2>4, <2>6
    <3> QED BY <2>1, <2>2, <3>1, <3>2 DEF P, q
  <2> QED BY <2>5, <2>6
<1> HIDE DEF P
<1>3. \A r \in Seq(S) : r \in P
  BY <1>1, <1>2, SeqInd, Zenon
<1> QED BY <1>3 DEF P

\* The elements kept are those of the list that were to be.
LEMMA KeptSet ==
  ASSUME NEW S, NEW T, NEW s \in Seq(S) PROVE ToSet(Kept(s, T)) = ToSet(s) \cap T
<1> DEFINE k == Kept(s, T)
<1>1. k \in Seq(S)
  BY KeptPlaces
<1>2. PICK h : KeptAt(s, k, T, h)
  BY KeptPlaces
<1> HIDE DEF k
<1>3. ToSet(k) = {k[i] : i \in 1 .. Len(k)} /\ ToSet(s) = {s[i] : i \in 1 .. Len(s)}
  BY <1>1, SetOf
<1>4. ASSUME NEW j \in 1 .. Len(k) PROVE k[j] \in ToSet(s) \cap T
  BY <1>2, <1>3 DEF KeptAt
<1>5. ASSUME NEW i \in 1 .. Len(s), s[i] \in T PROVE s[i] \in ToSet(k)
  <2>1. PICK j \in 1 .. Len(k) : h[j] = i
    BY <1>2, <1>5 DEF KeptAt
  <2>2. k[j] = s[i]
    BY <1>2, <2>1 DEF KeptAt
  <2> QED BY <1>3, <2>2
<1>6. ToSet(k) = ToSet(s) \cap T
  BY <1>3, <1>4, <1>5
<1> QED BY <1>6 DEF k

\* What is kept of a list without repetitions has none.
LEMMA KeptApart ==
  ASSUME NEW S, NEW T, NEW s \in Seq(S), Apart(s) PROVE Apart(Kept(s, T))
<1> DEFINE k == Kept(s, T)
<1>1. k \in Seq(S)
  BY KeptPlaces
<1>2. PICK h : KeptAt(s, k, T, h)
  BY KeptPlaces
<1> HIDE DEF k
<1>3. DOMAIN k = 1 .. Len(k) /\ DOMAIN s = 1 .. Len(s) /\ Len(k) \in Nat /\ Len(s) \in Nat
  BY <1>1, LenProperties
<1>4. ASSUME NEW i \in 1 .. Len(k), NEW j \in 1 .. Len(k), k[i] = k[j] PROVE i = j
  <2>1. h[i] = h[j] /\ h[i] \in Nat
    BY <1>2, <1>3, <1>4, SMTT(30) DEF KeptAt, Apart
  <2>2. ~(i < j) /\ ~(j < i)
    BY <1>2, <2>1 DEF KeptAt
  <2> QED BY <2>2
<1> QED BY <1>3, <1>4 DEF k, Apart

---------------------------------------------------------------------------
(* Least and greatest.                                                     *)

\* Some number of a set is the least.
LEMMA LeastOf ==
  ASSUME NEW S \in SUBSET Nat, S # {} PROVE \E m \in S : \A n \in S : m <= n
<1> DEFINE less == OpToRel(<, Nat)
<1>1. \A m, n \in Nat : m < n => <<m, n>> \in less
  BY DEF OpToRel
<1>2. IsWellFoundedOn(less, Nat)
  BY NatLessThanWellFounded
<1> HIDE DEF less
<1>3. PICK x \in S : \A y \in S : ~ (<<y, x>> \in less)
  BY <1>2, WFMin
<1>4. ASSUME NEW y \in S PROVE x <= y
  <2>1. ~(y < x)
    BY <1>1, <1>3
  <2> QED BY <2>1
<1> QED BY <1>4

\* The least number of a set is Min of it.
LEMMA MinOf ==
  ASSUME NEW S \in SUBSET Nat, S # {} PROVE Min(S) \in S /\ \A n \in S : Min(S) <= n
BY LeastOf DEF Min

\* The greatest number of a bounded set is Max of it.
LEMMA MaxOf ==
  ASSUME NEW N \in Nat, NEW S \in SUBSET (0 .. N), S # {}
  PROVE  Max(S) \in S /\ \A n \in S : n <= Max(S)
<1> DEFINE D == {N - n : n \in S}
<1>0. \A n \in S : N - n \in Nat
  OBVIOUS
<1>1. D \in SUBSET Nat /\ D # {}
  BY <1>0
<1>2. PICK d \in D : \A n \in D : d <= n
  <2> HIDE DEF D
  <2> QED BY <1>1, LeastOf
<1>a. \E x \in S : d = N - x
  BY <1>2
<1>3. PICK x \in S : d = N - x
  BY <1>a
<1>4. \A n \in S : x >= n
  BY <1>2, <1>3, SMTT(30)
<1> QED BY <1>4 DEF Max

---------------------------------------------------------------------------
(* Sums.                                                                   *)

\* The recursive function of FoldLeft is there.
LEMMA SumThere ==
  ASSUME NEW s, NEW m \in Nat, \A i \in 1 .. m : s[i] \in Int
  PROVE  \A n \in Nat : n <= m =>
           \E f \in [SUBSET (1 .. n) -> Int] : \A X \in SUBSET (1 .. n) :
              f[X] = IF X = {} THEN 0 ELSE f[X \ {Max(X)}] + s[Max(X)]
<1> DEFINE Ok(f, n) == \A X \in SUBSET (1 .. n) :
              f[X] = IF X = {} THEN 0 ELSE f[X \ {Max(X)}] + s[Max(X)]
           P == {n \in Nat : n <= m => \E f \in [SUBSET (1 .. n) -> Int] : Ok(f, n)}
<1>1. 0 \in P
  <2> DEFINE f == [X \in SUBSET (1 .. 0) |-> 0]
  <2>1. f \in [SUBSET (1 .. 0) -> Int] /\ Ok(f, 0)
    <3>1. \A X \in SUBSET (1 .. 0) : X = {}
      OBVIOUS
    <3> QED BY <3>1
  <2> HIDE DEF f, Ok
  <2> QED BY <2>1
<1>2. ASSUME NEW n \in Nat, n \in P PROVE n + 1 \in P
  <2> SUFFICES ASSUME n + 1 <= m PROVE \E g \in [SUBSET (1 .. n + 1) -> Int] : Ok(g, n + 1)
    <3>1. n + 1 \in Nat
      OBVIOUS
    <3> HIDE DEF Ok
    <3> QED BY <3>1, Zenon
  <2>1. PICK f \in [SUBSET (1 .. n) -> Int] : Ok(f, n)
    <3>1. n <= m
      OBVIOUS
    <3> HIDE DEF Ok
    <3> QED BY <1>2, <3>1
  <2> DEFINE g == [X \in SUBSET (1 .. n + 1) |->
                     IF n + 1 \in X THEN f[X \ {n + 1}] + s[n + 1] ELSE f[X]]
  <2>2. s[n + 1] \in Int
    OBVIOUS
  <2>3. ASSUME NEW X \in SUBSET (1 .. n + 1) PROVE X \ {n + 1} \in SUBSET (1 .. n)
    OBVIOUS
  <2>4. g \in [SUBSET (1 .. n + 1) -> Int]
    <3>1. ASSUME NEW X \in SUBSET (1 .. n + 1), n + 1 \notin X PROVE X \in SUBSET (1 .. n)
      BY <3>1
    <3> QED BY <2>2, <2>3, <3>1
  <2>5. ASSUME NEW X \in SUBSET (1 .. n + 1)
        PROVE  g[X] = IF X = {} THEN 0 ELSE g[X \ {Max(X)}] + s[Max(X)]
    <3>1. CASE n + 1 \in X
      <4>0. X \in SUBSET (0 .. n + 1) /\ X # {} /\ n + 1 \in Nat
        BY <3>1
      <4>1. Max(X) \in X /\ \A k \in X : k <= Max(X)
        BY <4>0, MaxOf
      <4>a. Max(X) \in 1 .. n + 1 /\ n + 1 <= Max(X)
        BY <3>1, <4>1
      <4>2. Max(X) = n + 1
        BY <4>a
      <4>3. g[X] = f[X \ {n + 1}] + s[n + 1]
        BY <3>1
      <4>4. g[X \ {n + 1}] = f[X \ {n + 1}]
        OBVIOUS
      <4> HIDE DEF g
      <4> QED BY <4>0, <4>2, <4>3, <4>4
    <3>2. CASE n + 1 \notin X
      <4>1. X \in SUBSET (1 .. n)
        BY <3>2
      <4>2. g[X] = f[X] /\ g[X \ {Max(X)}] = f[X \ {Max(X)}]
        BY <3>2
      <4>3. f[X] = IF X = {} THEN 0 ELSE f[X \ {Max(X)}] + s[Max(X)]
        BY <2>1, <4>1
      <4> HIDE DEF g, Ok
      <4> QED BY <4>2, <4>3
    <3> QED BY <3>1, <3>2
  <2>6. Ok(g, n + 1)
    <3> HIDE DEF g
    <3> QED BY <2>5
  <2> HIDE DEF g, Ok
  <2> QED BY <2>4, <2>6
<1> HIDE DEF P
<1>3. \A n \in Nat : n \in P
  BY <1>1, <1>2, NatInd, Zenon
<1> QED BY <1>3 DEF P

\* What a sum is, by the function that folds the list.
LEMMA TotalSteps ==
  ASSUME NEW s \in Seq(Int)
  PROVE  \E f \in [SUBSET (1 .. Len(s)) -> Int] :
           /\ Total(s) = f[1 .. Len(s)]
           /\ \A X \in SUBSET (1 .. Len(s)) :
                f[X] = IF X = {} THEN 0 ELSE f[X \ {Max(X)}] + s[Max(X)]
<1>1. Len(s) \in Nat /\ DOMAIN s = 1 .. Len(s) /\ \A i \in 1 .. Len(s) : s[i] \in Int
  BY LenProperties
<1> DEFINE S == 1 .. Len(s)
           Eq(f) == f = [X \in SUBSET S |-> IF X = {} THEN 0 ELSE f[X \ {Max(X)}] + s[Max(X)]]
           f0 == CHOOSE f : Eq(f)
<1>2. \E f \in [SUBSET S -> Int] : \A X \in SUBSET S :
                f[X] = IF X = {} THEN 0 ELSE f[X \ {Max(X)}] + s[Max(X)]
  <2>1. Len(s) <= Len(s)
    BY <1>1
  <2> QED BY <1>1, <2>1, SumThere
<1>3. PICK f \in [SUBSET S -> Int] : \A X \in SUBSET S :
                f[X] = IF X = {} THEN 0 ELSE f[X \ {Max(X)}] + s[Max(X)]
  BY <1>2
<1>4. Eq(f)
  <2> DEFINE h == [X \in SUBSET S |-> IF X = {} THEN 0 ELSE f[X \ {Max(X)}] + s[Max(X)]]
  <2>1. \A X \in SUBSET S : f[X] = h[X]
    BY <1>3
  <2>2. DOMAIN f = SUBSET S /\ f = [X \in SUBSET S |-> f[X]]
    BY <1>3
  <2> HIDE DEF S
  <2> QED BY <2>1, <2>2
<1>5. Eq(f0)
  <2> HIDE DEF S
  <2> QED BY <1>4, Zenon
<1>6. Total(s) = f0[S]
  BY <1>1, Zenon DEF Total, FoldLeft, MapThenFoldSet
<1> DEFINE P == {n \in Nat : n <= Len(s) => \A X \in SUBSET (1 .. n) : f0[X] = f[X]}
<1> HIDE DEF f0
<1>7. \A X \in SUBSET S : f0[X] = IF X = {} THEN 0 ELSE f0[X \ {Max(X)}] + s[Max(X)]
  BY <1>5
<1>8. 0 \in P
  <2>1. {} \in SUBSET S /\ \A X \in SUBSET (1 .. 0) : X = {}
    OBVIOUS
  <2> QED BY <1>3, <1>7, <2>1
<1>9. ASSUME NEW n \in Nat, n \in P PROVE n + 1 \in P
  <2> SUFFICES ASSUME n + 1 <= Len(s), NEW X \in SUBSET (1 .. n + 1) PROVE f0[X] = f[X]
    OBVIOUS
  <2>1. X \in SUBSET S /\ X \in SUBSET (0 .. n + 1) /\ n + 1 \in Nat
    BY <1>1
  <2>2. CASE X = {}
    BY <1>3, <1>7, <2>1, <2>2
  <2>3. CASE X # {}
    <3>1. Max(X) \in X /\ \A k \in X : k <= Max(X)
      BY <2>1, <2>3, MaxOf
    <3>2. ASSUME NEW k \in X \ {Max(X)} PROVE k \in 1 .. n
      <4>1. k <= Max(X) /\ k # Max(X) /\ k \in 1 .. n + 1 /\ Max(X) \in 1 .. n + 1
        BY <3>1
      <4> QED BY <4>1
    <3>a. n <= Len(s)
      BY <1>1
    <3>3. X \ {Max(X)} \in SUBSET (1 .. n) /\ n <= Len(s)
      BY <3>2, <3>a, Zenon
    <3>4. f0[X \ {Max(X)}] = f[X \ {Max(X)}]
      BY <1>9, <3>3
    <3> QED BY <1>3, <1>7, <2>1, <2>3, <3>4
  <2> QED BY <2>2, <2>3
<1> HIDE DEF P
<1>10. \A n \in Nat : n \in P
  BY <1>8, <1>9, NatInd, Zenon
<1>11. f0[S] = f[S]
  BY <1>1, <1>10 DEF P
<1> QED BY <1>3, <1>6, <1>11

\* The total of no numbers.
LEMMA TotalEmpty == ASSUME NEW s \in Seq(Int), Len(s) = 0 PROVE Total(s) = 0
<1>1. PICK f \in [SUBSET (1 .. Len(s)) -> Int] :
        /\ Total(s) = f[1 .. Len(s)]
        /\ \A X \in SUBSET (1 .. Len(s)) : f[X] = IF X = {} THEN 0 ELSE f[X \ {Max(X)}] + s[Max(X)]
  BY TotalSteps
<1>2. 1 .. Len(s) = {} /\ {} \in SUBSET (1 .. Len(s))
  OBVIOUS
<1> QED BY <1>1, <1>2

\* The total of a list one longer.
LEMMA TotalAppend ==
  ASSUME NEW s \in Seq(Int), NEW e \in Int
  PROVE  Total(s) \in Int /\ Total(Append(s, e)) = Total(s) + e
<1> DEFINE t == Append(s, e)
           n == Len(s)
<1>1. /\ t \in Seq(Int) /\ Len(t) = n + 1 /\ n \in Nat
      /\ \A i \in 1 .. n : t[i] = s[i]
      /\ t[n + 1] = e
  BY AppendProperties, LenProperties
<1> HIDE DEF t
<1>2. PICK f \in [SUBSET (1 .. n) -> Int] :
        /\ Total(s) = f[1 .. n]
        /\ \A X \in SUBSET (1 .. n) : f[X] = IF X = {} THEN 0 ELSE f[X \ {Max(X)}] + s[Max(X)]
  BY TotalSteps
<1> HIDE DEF n
<1>a. \E g \in [SUBSET (1 .. Len(t)) -> Int] :
        /\ Total(t) = g[1 .. Len(t)]
        /\ \A X \in SUBSET (1 .. Len(t)) : g[X] = IF X = {} THEN 0 ELSE g[X \ {Max(X)}] + t[Max(X)]
  BY <1>1, TotalSteps
<1>3. PICK g \in [SUBSET (1 .. n + 1) -> Int] :
        /\ Total(t) = g[1 .. n + 1]
        /\ \A X \in SUBSET (1 .. n + 1) : g[X] = IF X = {} THEN 0 ELSE g[X \ {Max(X)}] + t[Max(X)]
  <2>1. Len(t) = n + 1
    BY <1>1
  <2> QED BY <1>a, <2>1, Zenon
<1> DEFINE P == {k \in Nat : k <= n => \A X \in SUBSET (1 .. k) : g[X] = f[X]}
<1>4. 0 \in P
  <2>1. {} \in SUBSET (1 .. n) /\ {} \in SUBSET (1 .. n + 1) /\ \A X \in SUBSET (1 .. 0) : X = {}
    OBVIOUS
  <2> QED BY <1>2, <1>3, <2>1
<1>5. ASSUME NEW k \in Nat, k \in P PROVE k + 1 \in P
  <2> SUFFICES ASSUME k + 1 <= n, NEW X \in SUBSET (1 .. k + 1) PROVE g[X] = f[X]
    BY SMTT(30)
  <2>1. /\ X \in SUBSET (1 .. n) /\ X \in SUBSET (1 .. n + 1) /\ X \in SUBSET (0 .. k + 1)
        /\ k + 1 \in Nat
    BY <1>1
  <2>2. CASE X = {}
    BY <1>2, <1>3, <2>1, <2>2
  <2>3. CASE X # {}
    <3>1. Max(X) \in X /\ \A j \in X : j <= Max(X)
      BY <2>1, <2>3, MaxOf
    <3>2. ASSUME NEW j \in X \ {Max(X)} PROVE j \in 1 .. k
      <4>1. j <= Max(X) /\ j # Max(X) /\ j \in 1 .. k + 1 /\ Max(X) \in 1 .. k + 1
        BY <3>1
      <4> QED BY <4>1
    <3>a. k <= n
      BY <1>1
    <3>5. X \ {Max(X)} \in SUBSET (1 .. k) /\ k <= n
      BY <3>2, <3>a, Zenon
    <3>3. g[X \ {Max(X)}] = f[X \ {Max(X)}]
      BY <1>5, <3>5
    <3>4. t[Max(X)] = s[Max(X)]
      BY <1>1, <2>1, <3>1
    <3> QED BY <1>2, <1>3, <2>1, <2>3, <3>3, <3>4
  <2> QED BY <2>2, <2>3
<1> HIDE DEF P
<1>6. \A k \in Nat : k \in P
  BY <1>4, <1>5, NatInd, Zenon
<1>7. g[1 .. n] = f[1 .. n]
  <2>1. n <= n /\ 1 .. n \in SUBSET (1 .. n)
    BY <1>1
  <2> QED BY <1>1, <1>6, <2>1 DEF P
<1>8. Max(1 .. n + 1) = n + 1
  <2>a. n + 1 \in Nat /\ n + 1 \in 1 .. n + 1
    BY <1>1
  <2>b. \A i \in 1 .. n + 1 : i \in 0 .. n + 1
    OBVIOUS
  <2>1. /\ 1 .. n + 1 \in SUBSET (0 .. n + 1) /\ 1 .. n + 1 # {} /\ n + 1 \in Nat
        /\ n + 1 \in 1 .. n + 1
    BY <2>a, <2>b, Zenon
  <2>2. Max(1 .. n + 1) \in 1 .. n + 1 /\ \A k \in 1 .. n + 1 : k <= Max(1 .. n + 1)
    BY <2>1, MaxOf
  <2>3. n + 1 <= Max(1 .. n + 1)
    BY <2>1, <2>2
  <2> QED BY <1>1, <2>2, <2>3
<1>9. (1 .. n + 1) \ {n + 1} = 1 .. n
  BY <1>1
<1>10. g[1 .. n + 1] = g[1 .. n] + e
  <2>a. n + 1 \in 1 .. n + 1
    BY <1>1
  <2>1. 1 .. n + 1 \in SUBSET (1 .. n + 1) /\ 1 .. n + 1 # {}
    BY <2>a, Zenon
  <2>2. g[1 .. n + 1] = g[(1 .. n + 1) \ {n + 1}] + t[n + 1]
    BY <1>3, <1>8, <2>1
  <2> QED BY <1>1, <1>9, <2>2
<1>11. 1 .. n \in SUBSET (1 .. n)
  OBVIOUS
<1> QED BY <1>2, <1>3, <1>7, <1>10, <1>11, SMTT(30) DEF t, n

\* A sum of naturals is one, and what is summed up to a place grows.
LEMMA TotalNat ==
  ASSUME NEW s \in Seq(Nat) PROVE Total(s) \in Nat
<1> DEFINE P == {q \in Seq(Nat) : Total(q) \in Nat}
<1>1. << >> \in P
  <2>1. << >> \in Seq(Int) /\ << >> \in Seq(Nat) /\ Len(<< >>) = 0
    BY EmptySeq
  <2>2. Total(<< >>) = 0
    <3> HIDE DEF Total
    <3> QED BY <2>1, TotalEmpty
  <2> QED BY <2>1, <2>2
<1>2. ASSUME NEW q \in Seq(Nat), NEW e \in Nat, q \in P PROVE Append(q, e) \in P
  <2>1. q \in Seq(Int) /\ e \in Int
    OBVIOUS
  <2>2. Total(Append(q, e)) = Total(q) + e
    BY <2>1, TotalAppend
  <2> QED BY <1>2, <2>2, AppendProperties
<1> HIDE DEF P
<1>3. \A q \in Seq(Nat) : q \in P
  BY <1>1, <1>2, SeqInd, Zenon
<1> QED BY <1>3 DEF P

---------------------------------------------------------------------------
(* Division.                                                               *)

\* What quotient and remainder are.
LEMMA DivMod ==
  ASSUME NEW n \in Nat, NEW t \in Nat, t > 0
  PROVE  /\ n \div t \in Nat /\ n % t \in 0 .. t - 1
         /\ n % t = n - t * (n \div t)
<1>1. n \div t \in Nat
  OBVIOUS
<1>2. n % t \in 0 .. t - 1
  OBVIOUS
<1>3. n % t = n - t * (n \div t)
  OBVIOUS
<1> QED BY <1>1, <1>2, <1>3

\* A number below k times t has a quotient below k.
LEMMA DivUnder ==
  ASSUME NEW n \in Nat, NEW t \in Nat, t > 0, NEW k \in Nat, n < k * t
  PROVE  n \div t < k
<1> DEFINE d == n \div t
<1>1. d \in Nat /\ t * d <= n
  <2>1. n % t >= 0 /\ n % t = n - t * d
    BY DivMod
  <2>2. d \in Nat
    BY DivMod
  <2> HIDE DEF d
  <2> QED BY <2>1, <2>2
<1> HIDE DEF d
<1>2. ASSUME k <= d PROVE t * k <= t * d
  BY <1>1, <1>2
<1>3. t * k = k * t
  OBVIOUS
<1> QED BY <1>1, <1>2, <1>3 DEF d

\* Quotient and remainder tell a number.
LEMMA DivSame ==
  ASSUME NEW m \in Nat, NEW n \in Nat, NEW t \in Nat, t > 0, m \div t = n \div t, m % t = n % t
  PROVE  m = n
<1>1. m % t = m - t * (m \div t) /\ n % t = n - t * (n \div t) /\ m \div t \in Nat /\ n \div t \in Nat
  BY DivMod
<1> DEFINE d == n \div t
           r == n % t
<1>2. r = m - t * d /\ r = n - t * d /\ d \in Nat
  BY <1>1
<1> HIDE DEF d, r
<1> QED BY <1>2

\* The numbers after a up to b, in order.
Span(a, b) == [i \in 1 .. b - a |-> a + i]

\* What a span of consecutive numbers is.
LEMMA SpanSeq ==
  ASSUME NEW a \in Nat, NEW b \in Nat, a <= b
  PROVE  /\ Span(a, b) \in Seq(Nat) /\ Len(Span(a, b)) = b - a
         /\ \A i \in 1 .. b - a : Span(a, b)[i] = a + i
         /\ ToSet(Span(a, b)) = a + 1 .. b
         /\ Span(a, b) = << >> <=> a = b
<1>1. Span(a, b) \in Seq(Nat) /\ Len(Span(a, b)) = b - a /\ \A i \in 1 .. b - a : Span(a, b)[i] = a + i
  BY DEF Span
<1>2. ToSet(Span(a, b)) = {Span(a, b)[i] : i \in 1 .. b - a}
  <2>1. ToSet(Span(a, b)) = {Span(a, b)[i] : i \in 1 .. Len(Span(a, b))}
    BY <1>1, SetOf
  <2> QED BY <1>1, <2>1
<1>3. ASSUME NEW r \in a + 1 .. b PROVE r \in ToSet(Span(a, b))
  <2>1. r - a \in 1 .. b - a /\ a + (r - a) = r
    BY <1>3
  <2> QED BY <1>1, <1>2, <2>1
<1>4. ASSUME NEW i \in 1 .. b - a PROVE Span(a, b)[i] \in a + 1 .. b
  BY <1>1
<1>5. Span(a, b) = << >> <=> a = b
  BY <1>1, EmptySeq
<1> QED BY <1>1, <1>2, <1>3, <1>4, <1>5

\* Two spans that meet are one.
LEMMA SpanConcat ==
  ASSUME NEW a \in Nat, NEW b \in Nat, NEW c \in Nat, a <= b, b <= c
  PROVE  Span(a, b) \o Span(b, c) = Span(a, c)
<1> DEFINE x == Span(a, b)
           y == Span(b, c)
           z == Span(a, c)
           w == x \o y
<1>1. x \in Seq(Nat) /\ Len(x) = b - a /\ \A i \in 1 .. b - a : x[i] = a + i
  BY SpanSeq
<1>2. y \in Seq(Nat) /\ Len(y) = c - b /\ \A i \in 1 .. c - b : y[i] = b + i
  BY SpanSeq
<1>3. z \in Seq(Nat) /\ Len(z) = c - a /\ \A i \in 1 .. c - a : z[i] = a + i
  <2>1. a <= c
    OBVIOUS
  <2> QED BY <2>1, SpanSeq
<1> HIDE DEF x, y, z
<1>4. /\ w \in Seq(Nat) /\ Len(w) = Len(x) + Len(y)
      /\ \A i \in 1 .. Len(x) + Len(y) : w[i] = IF i <= Len(x) THEN x[i] ELSE y[i - Len(x)]
  <2>1. x \in Seq(Nat) /\ y \in Seq(Nat)
    BY <1>1, <1>2
  <2> QED BY <2>1, ConcatProperties, Zenon
<1> HIDE DEF w
<1>5. w \in Seq(Nat) /\ Len(w) = c - a
  BY <1>1, <1>2, <1>4
<1>6. ASSUME NEW i \in 1 .. c - a PROVE w[i] = z[i]
  <2>1. i \in 1 .. Len(x) + Len(y) /\ z[i] = a + i
    BY <1>1, <1>2, <1>3
  <2>2. CASE i <= b - a
    BY <1>1, <1>4, <2>1, <2>2
  <2>3. CASE ~(i <= b - a)
    <3>1. i - (b - a) \in 1 .. c - b /\ b + (i - (b - a)) = a + i
      BY <2>3
    <3>2. w[i] = y[i - (b - a)]
      BY <1>1, <1>4, <2>1, <2>3
    <3> QED BY <1>2, <2>1, <3>1, <3>2
  <2> QED BY <2>2, <2>3
<1>7. w = z
  BY <1>3, <1>5, <1>6, SeqEqual
<1> QED BY <1>7 DEF x, y, z, w

\* A span cut in two.
LEMMA SpanSub ==
  ASSUME NEW a \in Nat, NEW b \in Nat, a <= b, NEW m \in 0 .. b - a
  PROVE  /\ SubSeq(Span(a, b), 1, m) = Span(a, a + m)
         /\ SubSeq(Span(a, b), m + 1, b - a) = Span(a + m, b)
  BY DEF Span

\* KeptAppend for numbers.
LEMMA KeptAppendNat ==
  ASSUME NEW T, NEW s \in Seq(Nat), NEW e \in Nat
  PROVE  Kept(Append(s, e), T) = IF e \in T THEN Append(Kept(s, T), e) ELSE Kept(s, T)
  BY KeptAppend

\* The numbers kept between two bounds are a span.
LEMMA KeptSpan ==
  ASSUME NEW N \in Nat, NEW a \in Nat, NEW b \in Nat, a <= b, b <= N
  PROVE  Kept([r \in 1 .. N |-> r], {r \in 1 .. N : a < r /\ r <= b}) = Span(a, b)
<1> DEFINE T == {r \in 1 .. N : a < r /\ r <= b}
           id(n) == [r \in 1 .. n |-> r]
           m(n) == IF n <= a THEN a ELSE IF n <= b THEN n ELSE b
           P == {n \in Nat : n <= N => Kept(id(n), T) = Span(a, m(n))}
<1>1. 0 \in P
  <2>1. id(0) = << >> /\ m(0) = a /\ Span(a, a) = << >>
    BY SpanSeq
  <2> HIDE DEF id, T, m
  <2> QED BY <2>1, KeptEmpty
<1>2. ASSUME NEW n \in Nat, n \in P PROVE n + 1 \in P
  <2> SUFFICES ASSUME n + 1 <= N PROVE Kept(id(n + 1), T) = Span(a, m(n + 1))
    BY DEF P
  <2>1. Kept(id(n), T) = Span(a, m(n))
    BY <1>2
  <2>2. id(n) \in Seq(Nat) /\ id(n + 1) = Append(id(n), n + 1)
    OBVIOUS
  <2>3. n + 1 \in T <=> a < n + 1 /\ n + 1 <= b
    OBVIOUS
  <2>4. Kept(id(n + 1), T) = IF n + 1 \in T THEN Append(Span(a, m(n)), n + 1) ELSE Span(a, m(n))
    <3>1. n + 1 \in Nat
      OBVIOUS
    <3> HIDE DEF id, T, m
    <3>2. Kept(Append(id(n), n + 1), T) = IF n + 1 \in T THEN Append(Kept(id(n), T), n + 1) ELSE Kept(id(n), T)
      <4>1. id(n) \in Seq(Nat)
        BY <2>2
      <4> QED BY <3>1, <4>1, KeptAppendNat
    <3> QED BY <2>1, <2>2, <3>2
  <2>5. CASE n + 1 \in T
    <3>1. m(n) = n /\ m(n + 1) = n + 1 /\ a <= n
      BY <2>3, <2>5
    <3>2. Append(Span(a, n), n + 1) = Span(a, n + 1)
      BY <3>1 DEF Span
    <3> QED BY <2>4, <2>5, <3>1, <3>2
  <2>6. CASE n + 1 \notin T
    <3>1. m(n) = m(n + 1)
      BY <2>3, <2>6
    <3> QED BY <2>4, <2>6, <3>1
  <2> QED BY <2>5, <2>6
<1>3. N \in P
  <2> HIDE DEF P
  <2> QED BY <1>1, <1>2, NatInd
<1>4. m(N) = b
  OBVIOUS
<1> QED BY <1>3, <1>4

\* Of numbers in order, those a condition holds of up to some point.
LEMMA ThoseUpTo ==
  ASSUME NEW N \in Nat, NEW D \in SUBSET (1 .. N), \A i, j \in 1 .. N : j \in D /\ i <= j => i \in D
  PROVE  \E c \in 0 .. N : \A i \in 1 .. N : i \in D <=> i <= c
<1>1. \E m \in 0 .. N : \A i \in 1 .. N : i \in D <=> i <= m
  <2>1. CASE D = {}
    <3>1. 0 \in 0 .. N /\ \A i \in 1 .. N : i \in D <=> i <= 0
      BY <2>1
    <3> QED BY <3>1, Zenon
  <2>2. CASE D # {}
    <3>1. D \in SUBSET (0 .. N)
      OBVIOUS
    <3>2. Max(D) \in D /\ \A n \in D : n <= Max(D)
      BY <2>2, <3>1, MaxOf
    <3> DEFINE m == Max(D)
    <3> HIDE DEF m
    <3>3. m \in D /\ m \in 1 .. N /\ \A n \in D : n <= m
      BY <3>2 DEF m
    <3>4. m \in 0 .. N /\ \A i \in 1 .. N : i \in D => i <= m
      BY <3>3
    <3>5. \A i \in 1 .. N : i <= m => i \in D
      BY <3>3
    <3> QED BY <3>4, <3>5, Zenon
  <2> QED BY <2>1, <2>2
<1> QED BY <1>1, Zenon

\* Finitely many numbers have a bound.
LEMMA BoundOf ==
  ASSUME NEW N \in Nat, NEW f \in [1 .. N -> Nat]
  PROVE  \E M \in Nat : \A i \in 1 .. N : f[i] <= M
<1> DEFINE P == {n \in Nat : n <= N => \E M \in Nat : \A i \in 1 .. n : f[i] <= M}
<1>1. 0 \in P
  OBVIOUS
<1>2. ASSUME NEW n \in Nat, n \in P PROVE n + 1 \in P
  <2> SUFFICES ASSUME n + 1 <= N PROVE \E M \in Nat : \A i \in 1 .. n + 1 : f[i] <= M
    OBVIOUS
  <2>1. PICK M \in Nat : \A i \in 1 .. n : f[i] <= M
    BY <1>2
  <2>2. f[n + 1] \in Nat
    OBVIOUS
  <2>3. \A i \in 1 .. n + 1 : f[i] <= M + f[n + 1]
    <3> SUFFICES ASSUME NEW i \in 1 .. n + 1 PROVE f[i] <= M + f[n + 1]
      OBVIOUS
    <3>1. f[i] \in Nat /\ (i \in 1 .. n \/ i = n + 1)
      OBVIOUS
    <3> QED BY <2>1, <2>2, <3>1
  <2> QED BY <2>2, <2>3
<1> HIDE DEF P
<1>3. N \in P
  BY <1>1, <1>2, NatInd
<1> QED BY <1>3 DEF P

\* Of numbered places some of which are taken, the rank among the free ones
\* numbers these without a gap.
LEMMA Ranked ==
  ASSUME NEW N \in Nat, NEW V \in SUBSET (1 .. N)
  PROVE  LET rank(j) == Cardinality({i \in V : i <= j})
         IN  /\ IsFiniteSet(V) /\ Cardinality(V) \in Nat
             /\ \A j \in V : rank(j) \in 1 .. Cardinality(V)
             /\ \A i, j \in V : i # j => rank(i) # rank(j)
             /\ \A p \in 1 .. Cardinality(V) : \E j \in V : rank(j) = p
<1> DEFINE rank(j) == Cardinality({i \in V : i <= j})
           n == Cardinality(V)
<1>1. IsFiniteSet(V) /\ n \in Nat
  <2>1. IsFiniteSet(1 .. N)
    BY FS_Interval
  <2>2. IsFiniteSet(V)
    BY <2>1, FS_Subset
  <2> QED BY <2>2, FS_CardinalityType
<1>2. ASSUME NEW j \in V PROVE IsFiniteSet({i \in V : i <= j}) /\ rank(j) \in 1 .. n
  <2>1. IsFiniteSet({i \in V : i <= j}) /\ rank(j) <= n
    BY <1>1, FS_Subset
  <2>2. rank(j) \in Nat /\ (rank(j) = 0 <=> {i \in V : i <= j} = {})
    BY <2>1, FS_CardinalityType, FS_EmptySet
  <2>3. j \in {i \in V : i <= j}
    OBVIOUS
  <2> HIDE DEF rank, n
  <2> QED BY <1>1, <2>1, <2>2, <2>3
<1>3. ASSUME NEW i \in V, NEW j \in V, i < j PROVE rank(i) < rank(j)
  <2>1. {k \in V : k <= i} \subseteq {k \in V : k <= j} /\ {k \in V : k <= i} # {k \in V : k <= j}
    <3>1. j \in {k \in V : k <= j} /\ j \notin {k \in V : k <= i}
      BY <1>3
    <3>2. \A k \in V : k <= i => k <= j
      BY <1>3
    <3> QED BY <3>1, <3>2, Zenon
  <2>2. IsFiniteSet({k \in V : k <= j})
    BY <1>2
  <2> QED BY <2>1, <2>2, FS_Subset, <1>2
<1>4. ASSUME NEW i \in V, NEW j \in V, i # j PROVE rank(i) # rank(j)
  <2>1. i < j \/ j < i
    BY <1>4
  <2>2. rank(i) \in Nat /\ rank(j) \in Nat
    BY <1>1, <1>2
  <2> HIDE DEF rank
  <2> QED BY <1>3, <2>1, <2>2
<1>5. ASSUME NEW p \in 1 .. n PROVE \E j \in V : rank(j) = p
  <2> DEFINE f == [j \in V |-> rank(j)]
             W == 1 .. n
  <2>1. IsFiniteSet(W) /\ Cardinality(W) = n
    BY <1>1, FS_Interval
  <2>2. f \in Injection(V, W)
    <3>1. f \in [V -> W]
      BY <1>2
    <3>2. \A i, j \in V : f[i] = f[j] => i = j
      <4>1. \A j \in V : f[j] = rank(j)
        OBVIOUS
      <4> HIDE DEF f, rank
      <4> QED BY <1>4, <4>1
    <3> HIDE DEF f
    <3> QED BY <3>1, <3>2 DEF Injection, IsInjective
  <2>3. f \in Surjection(V, W)
    <3> HIDE DEF f, W
    <3> QED BY <1>1, <2>1, <2>2, FS_Injection DEF n
  <2>4. \A y \in W : \E x \in V : f[x] = y
    <3> HIDE DEF f, W
    <3> QED BY <2>3, Zenon DEF Surjection
  <2> QED BY <2>4
<1> QED BY <1>1, <1>2, <1>4, <1>5, Zenon

\* How many numbers there are after a up to b.
LEMMA SpanCount ==
  ASSUME NEW a \in Int, NEW b \in Int, a <= b
  PROVE  IsFiniteSet(a + 1 .. b) /\ Cardinality(a + 1 .. b) = b - a
<1>1. IsFiniteSet(a + 1 .. b) /\ Cardinality(a + 1 .. b) = IF a + 1 > b THEN 0 ELSE b - (a + 1) + 1
  <2>1. a + 1 \in Int
    OBVIOUS
  <2> DEFINE c == a + 1
  <2> HIDE DEF c
  <2> QED BY <2>1, FS_Interval DEF c
<1> QED BY <1>1

\* The numbers up to n are n.
LEMMA CountTo ==
  ASSUME NEW n \in Nat PROVE IsFiniteSet(1 .. n) /\ Cardinality(1 .. n) = n
  BY FS_Interval

---------------------------------------------------------------------------
(* Queues.                                                                 *)

\* A sequence in two parts.
LEMMA HeadAndRest ==
  ASSUME NEW S, NEW s \in Seq(S), NEW k \in 0 .. Len(s)
  PROVE  /\ SubSeq(s, 1, k) \in Seq(S) /\ SubSeq(s, k + 1, Len(s)) \in Seq(S)
         /\ Len(SubSeq(s, 1, k)) = k /\ Len(SubSeq(s, k + 1, Len(s))) = Len(s) - k
         /\ \A i \in 1 .. k : SubSeq(s, 1, k)[i] = s[i]
         /\ \A i \in 1 .. Len(s) - k : SubSeq(s, k + 1, Len(s))[i] = s[k + i]
         /\ s = SubSeq(s, 1, k) \o SubSeq(s, k + 1, Len(s))
<1> DEFINE a == SubSeq(s, 1, k)
           b == SubSeq(s, k + 1, Len(s))
<1>1. Len(s) \in Nat /\ k \in Nat /\ k <= Len(s) /\ \A i \in 1 .. Len(s) : s[i] \in S
  BY LenProperties, ElementOfSeq
<1>2. a \in Seq(S) /\ Len(a) = k /\ \A i \in 1 .. k : a[i] = s[i]
  OBVIOUS
<1>3. b \in Seq(S) /\ Len(b) = Len(s) - k /\ \A i \in 1 .. Len(s) - k : b[i] = s[k + i]
  OBVIOUS
<1> DEFINE c == a \o b
<1>4. c \in Seq(S) /\ Len(c) = Len(s)
      /\ \A i \in 1 .. Len(s) : c[i] = IF i <= k THEN a[i] ELSE b[i - k]
  <2> HIDE DEF a, b
  <2>1. /\ c \in Seq(S) /\ Len(c) = Len(a) + Len(b)
        /\ \A i \in 1 .. Len(a) + Len(b) : c[i] = IF i <= Len(a) THEN a[i] ELSE b[i - Len(a)]
    BY <1>2, <1>3, ConcatProperties
  <2>2. Len(a) + Len(b) = Len(s) /\ Len(a) = k
    BY <1>1, <1>2, <1>3
  <2> HIDE DEF c
  <2> QED BY <2>1, <2>2
<1>5. ASSUME NEW i \in 1 .. Len(s) PROVE c[i] = s[i]
  <2>1. CASE i <= k
    <3> HIDE DEF a, b, c
    <3> QED BY <1>1, <1>2, <1>4, <2>1
  <2>2. CASE k < i
    <3>1. i - k \in 1 .. Len(s) - k /\ k + (i - k) = i /\ ~(i <= k)
      BY <1>1, <2>2
    <3> HIDE DEF a, b, c
    <3> QED BY <1>3, <1>4, <3>1
  <2>3. i <= k \/ k < i
    BY <1>1
  <2> QED BY <2>1, <2>2, <2>3
<1>6. c = s
  <2> HIDE DEF c
  <2> QED BY <1>4, <1>5, SeqEqual
<1> QED BY <1>2, <1>3, <1>6

\* A list that is not empty is its head and its tail.
LEMMA HeadAndTail ==
  ASSUME NEW S, NEW s \in Seq(S), s # << >>
  PROVE  /\ Head(s) \in S /\ Tail(s) \in Seq(S) /\ s = << Head(s) >> \o Tail(s)
         /\ ToSet(s) = {Head(s)} \cup ToSet(Tail(s)) /\ Head(s) \in ToSet(s)
         /\ Apart(s) <=> Apart(Tail(s)) /\ Head(s) \notin ToSet(Tail(s))
         /\ Head(s) = s[1] /\ Len(s) > 0 /\ Len(Tail(s)) = Len(s) - 1
<1> DEFINE h == Head(s)
           t == Tail(s)
<1>1. Len(s) \in Nat /\ Len(s) > 0
  BY EmptySeq, LenProperties
<1>2. /\ h \in S /\ t \in Seq(S) /\ h = s[1] /\ Len(t) = Len(s) - 1
      /\ \A i \in 1 .. Len(s) - 1 : t[i] = s[i + 1]
  BY <1>1, HeadTailProperties
<1>3. <<h>> \in Seq(S) /\ ToSet(<<h>>) = {h} /\ Apart(<<h>>) /\ Len(<<h>>) = 1 /\ <<h>>[1] = h
  BY <1>2 DEF ToSet, Apart
<1> DEFINE o == <<h>>
           c == o \o t
<1> HIDE DEF h, t, o
<1>4. c \in Seq(S) /\ Len(c) = Len(s) /\ \A i \in 1 .. Len(s) : c[i] = IF i <= 1 THEN o[i] ELSE t[i - 1]
  BY <1>1, <1>2, <1>3, ConcatProperties DEF o
<1>5. ASSUME NEW i \in 1 .. Len(s) PROVE c[i] = s[i]
  <2>1. CASE i = 1
    BY <1>2, <1>3, <1>4, <2>1 DEF o
  <2>2. CASE i # 1
    <3>1. i - 1 \in 1 .. Len(s) - 1 /\ (i - 1) + 1 = i /\ ~(i <= 1)
      BY <1>1, <2>2
    <3> HIDE DEF c
    <3> QED BY <1>2, <1>4, <3>1
  <2> QED BY <2>1, <2>2
<1>6. c = s
  <2> HIDE DEF c
  <2> QED BY <1>4, <1>5, SeqEqual
<1>7. ToSet(c) = {h} \cup ToSet(t)
  <2>1. o \in Seq(S) /\ ToSet(o) = {h}
    BY <1>3 DEF o
  <2> QED BY <1>2, <2>1, SetOfConcat
<1>8. Apart(c) <=> Apart(t) /\ h \notin ToSet(t)
  <2>1. Apart(c) <=> Apart(o) /\ Apart(t) /\ ToSet(o) \cap ToSet(t) = {}
    BY <1>2, <1>3, ApartConcat DEF o
  <2> QED BY <1>3, <2>1 DEF o
<1>9. s = o \o t
  BY <1>6
<1> HIDE DEF c
<1> QED BY <1>1, <1>2, <1>6, <1>7, <1>8, <1>9 DEF h, t, o

\* What of a sequence comes first is what is before the rest.
LEMMA FrontAndLast ==
  ASSUME NEW S, NEW s \in Seq(S), s # << >>
  PROVE  /\ Front(s) \in Seq(S) /\ Last(s) \in S /\ s = Append(Front(s), Last(s))
         /\ Len(Front(s)) = Len(s) - 1 /\ Len(s) > 0 /\ Last(s) = s[Len(s)]
         /\ \A i \in 1 .. Len(s) - 1 : Front(s)[i] = s[i]
<1> DEFINE k == Len(s) - 1
           f == SubSeq(s, 1, k)
           c == Append(f, s[Len(s)])
<1>1. Len(s) \in Nat /\ Len(s) > 0 /\ k \in 0 .. Len(s) /\ s[Len(s)] \in S /\ Len(s) = k + 1
  BY EmptySeq, LenProperties, ElementOfSeq
<1>2. f \in Seq(S) /\ Len(f) = k /\ \A i \in 1 .. k : f[i] = s[i]
  <2> HIDE DEF k
  <2> QED BY <1>1, HeadAndRest
<1> HIDE DEF f, k
<1>3. c \in Seq(S) /\ Len(c) = k + 1 /\ \A i \in 1 .. k + 1 : c[i] = IF i <= k THEN f[i] ELSE s[Len(s)]
  BY <1>1, <1>2, AppendProperties
<1>4. ASSUME NEW i \in 1 .. k + 1 PROVE c[i] = s[i]
  <2>1. CASE i <= k
    <3> HIDE DEF c
    <3> QED BY <1>1, <1>2, <1>3, <2>1
  <2>2. CASE i = k + 1
    <3>1. ~(i <= k)
      BY <1>1, <2>2
    <3> HIDE DEF c
    <3> QED BY <1>1, <1>3, <2>2, <3>1
  <2>3. i <= k \/ i = k + 1
    BY <1>1
  <2> QED BY <2>1, <2>2, <2>3
<1>5. c = s
  <2> HIDE DEF c
  <2> QED BY <1>1, <1>3, <1>4, SeqEqual
<1>6. Front(s) = f /\ Last(s) = s[Len(s)]
  BY DEF Front, Last, f, k
<1>7. k = Len(s) - 1
  BY DEF k
<1> QED BY <1>1, <1>2, <1>5, <1>6, <1>7

\* The requests of a queue by when they arrive.
Rising(s, arr) == \A i, j \in 1 .. Len(s) : i < j => arr[s[i]] <= arr[s[j]]

\* Two lists in a row rise when both do, and the one below the other.
LEMMA RisingConcat ==
  ASSUME NEW S, NEW s \in Seq(S), NEW t \in Seq(S), NEW arr \in [S -> Nat]
  PROVE  Rising(s \o t, arr) <=>
           /\ Rising(s, arr) /\ Rising(t, arr)
           /\ \A x \in ToSet(s), y \in ToSet(t) : arr[x] <= arr[y]
<1> DEFINE u == s \o t
           m == Len(s)
           n == Len(t)
<1>1. /\ m \in Nat /\ n \in Nat /\ u \in Seq(S) /\ Len(u) = m + n
      /\ \A i \in 1 .. m + n : u[i] = IF i <= m THEN s[i] ELSE t[i - m]
  BY ConcatProperties, LenProperties
<1>2. ToSet(s) = {s[i] : i \in 1 .. m} /\ ToSet(t) = {t[i] : i \in 1 .. n}
  BY SetOf
<1> HIDE DEF u, m, n
<1>3. ASSUME Rising(u, arr)
      PROVE  Rising(s, arr) /\ Rising(t, arr) /\ \A x \in ToSet(s), y \in ToSet(t) : arr[x] <= arr[y]
  <2>1. ASSUME NEW i \in 1 .. m, NEW j \in 1 .. m, i < j PROVE arr[s[i]] <= arr[s[j]]
    <3>1. i \in 1 .. m + n /\ j \in 1 .. m + n /\ u[i] = s[i] /\ u[j] = s[j]
      BY <1>1, SMTT(30)
    <3> QED BY <1>1, <1>3, <2>1, <3>1 DEF Rising
  <2>2. ASSUME NEW i \in 1 .. n, NEW j \in 1 .. n, i < j PROVE arr[t[i]] <= arr[t[j]]
    <3> DEFINE a == m + i
               b == m + j
    <3>1. a \in 1 .. m + n /\ b \in 1 .. m + n /\ a < b /\ a - m = i /\ b - m = j /\ ~(a <= m) /\ ~(b <= m)
      BY <1>1, <2>2
    <3> HIDE DEF a, b
    <3>2. u[a] = t[i] /\ u[b] = t[j]
      BY <1>1, <3>1
    <3> QED BY <1>1, <1>3, <3>1, <3>2 DEF Rising
  <2>3. ASSUME NEW i \in 1 .. m, NEW j \in 1 .. n PROVE arr[s[i]] <= arr[t[j]]
    <3> DEFINE b == m + j
    <3>1. i \in 1 .. m + n /\ b \in 1 .. m + n /\ i < b /\ b - m = j /\ ~(b <= m) /\ i <= m
      BY <1>1, SMTT(30)
    <3> HIDE DEF b
    <3>2. u[i] = s[i] /\ u[b] = t[j]
      BY <1>1, <3>1
    <3> QED BY <1>1, <1>3, <3>1, <3>2 DEF Rising
  <2> QED BY <1>2, <2>1, <2>2, <2>3 DEF Rising, m, n
<1>4. ASSUME Rising(s, arr), Rising(t, arr), \A x \in ToSet(s), y \in ToSet(t) : arr[x] <= arr[y]
      PROVE  Rising(u, arr)
  <2> SUFFICES ASSUME NEW i \in 1 .. m + n, NEW j \in 1 .. m + n, i < j PROVE arr[u[i]] <= arr[u[j]]
    BY <1>1 DEF Rising
  <2>1. CASE j <= m
    <3>1. i \in 1 .. m /\ j \in 1 .. m /\ u[i] = s[i] /\ u[j] = s[j]
      BY <1>1, <2>1, SMTT(30)
    <3> QED BY <1>4, <3>1 DEF Rising, m
  <2>2. CASE i <= m /\ ~(j <= m)
    <3>1. i \in 1 .. m /\ j - m \in 1 .. n /\ u[i] = s[i] /\ u[j] = t[j - m]
      BY <1>1, <2>2
    <3>2. s[i] \in ToSet(s) /\ t[j - m] \in ToSet(t)
      BY <1>2, <3>1
    <3> QED BY <1>4, <3>1, <3>2
  <2>3. CASE ~(i <= m)
    <3>a. i \in Nat /\ j \in Nat /\ i < j /\ m < i /\ i <= m + n /\ j <= m + n
      BY <1>1, <2>3
    <3>1. i - m \in 1 .. n /\ j - m \in 1 .. n /\ i - m < j - m /\ ~(i <= m) /\ ~(j <= m)
      BY <1>1, <3>a
    <3>2. u[i] = t[i - m] /\ u[j] = t[j - m]
      BY <1>1, <3>1
    <3> QED BY <1>4, <3>1, <3>2 DEF Rising, n
  <2> QED BY <1>1, <2>1, <2>2, <2>3
<1> QED BY <1>3, <1>4 DEF u

\* Requeueing: e goes before the first in s that arrived later, if there is one.
LaterThan(s, arr, e) == {i \in 1 .. Len(s) : arr[s[i]] > arr[e]}

Requeue(s, arr, e) ==
  IF LaterThan(s, arr, e) = {} THEN Append(s, e) ELSE InsertAt(s, Min(LaterThan(s, arr, e)), e)

\* A request put back into a queue in order of arrival leaves it in order, and
\* one longer by the request.
LEMMA Requeueing ==
  ASSUME NEW S, NEW s \in Seq(S), NEW arr \in [S -> Nat], Rising(s, arr), NEW e \in S
  PROVE  /\ Requeue(s, arr, e) \in Seq(S)
         /\ ToSet(Requeue(s, arr, e)) = ToSet(s) \cup {e}
         /\ Rising(Requeue(s, arr, e), arr)
         /\ Apart(s) /\ e \notin ToSet(s) => Apart(Requeue(s, arr, e))
         /\ Requeue(s, arr, e) # << >>
<1> DEFINE I == LaterThan(s, arr, e)
           o == <<e>>
<1>1. o \in Seq(S) /\ ToSet(o) = {e} /\ Apart(o) /\ Len(o) = 1 /\ o[1] = e
  BY DEF ToSet, Apart
<1>2. Rising(o, arr)
  BY <1>1 DEF Rising
<1>3. Len(s) \in Nat /\ \A i \in 1 .. Len(s) : s[i] \in S /\ arr[s[i]] \in Nat
  BY LenProperties, ElementOfSeq
<1>4. ASSUME NEW a \in Seq(S), NEW b \in Seq(S), s = a \o b,
             \A x \in ToSet(a) : arr[x] <= arr[e], \A y \in ToSet(b) : arr[e] <= arr[y],
             Requeue(s, arr, e) = (a \o o) \o b
      PROVE  /\ Requeue(s, arr, e) \in Seq(S)
             /\ ToSet(Requeue(s, arr, e)) = ToSet(s) \cup {e}
             /\ Rising(Requeue(s, arr, e), arr)
             /\ Apart(s) /\ e \notin ToSet(s) => Apart(Requeue(s, arr, e))
             /\ Requeue(s, arr, e) # << >>
  <2> DEFINE c == a \o o
             d == c \o b
  <2> HIDE DEF I, o
  <2>1. c \in Seq(S) /\ d \in Seq(S)
    BY <1>1, <1>4, ConcatProperties
  <2>2. /\ ToSet(s) = ToSet(a) \cup ToSet(b) /\ ToSet(c) = ToSet(a) \cup {e}
    BY <1>1, <1>4, SetOfConcat
  <2>3. Rising(a, arr) /\ Rising(b, arr) /\ \A x \in ToSet(a), y \in ToSet(b) : arr[x] <= arr[y]
    BY <1>4, RisingConcat
  <2>4. Rising(c, arr)
    BY <1>1, <1>2, <1>4, <2>3, RisingConcat
  <2>5. Apart(s) <=> Apart(a) /\ Apart(b) /\ ToSet(a) \cap ToSet(b) = {}
    BY <1>4, ApartConcat
  <2>6. Apart(c) <=> Apart(a) /\ ToSet(a) \cap {e} = {}
    BY <1>1, <1>4, ApartConcat
  <2> HIDE DEF c
  <2>7. ToSet(d) = ToSet(c) \cup ToSet(b)
    BY <1>4, <2>1, SetOfConcat
  <2>8. Rising(d, arr)
    BY <1>4, <2>1, <2>2, <2>3, <2>4, RisingConcat
  <2>9. Apart(d) <=> Apart(c) /\ Apart(b) /\ ToSet(c) \cap ToSet(b) = {}
    BY <1>4, <2>1, ApartConcat
  <2>10. Requeue(s, arr, e) = d
    BY <1>4 DEF c
  <2>11. ToSet(d) = ToSet(s) \cup {e}
    BY <2>2, <2>7
  <2>12. d # << >>
    <3>1. e \in ToSet(d)
      BY <2>11
    <3> QED BY <2>1, <3>1, SetOf
  <2> HIDE DEF d
  <2> QED BY <2>1, <2>2, <2>5, <2>6, <2>8, <2>9, <2>10, <2>11, <2>12
<1>5. CASE I = {}
  <2>1. Requeue(s, arr, e) = (s \o o) \o << >>
    <3>1. Requeue(s, arr, e) = Append(s, e) /\ Append(s, e) = s \o o /\ s \o o \in Seq(S)
      BY <1>1, <1>5, AppendIsConcat, ConcatProperties DEF Requeue
    <3> QED BY <3>1, ConcatEmptySeq
  <2>2. << >> \in Seq(S) /\ s = s \o << >> /\ ToSet(<< >>) = {}
    BY EmptySeq, ConcatEmptySeq, SetOfEmpty
  <2>3. \A x \in ToSet(s) : arr[x] <= arr[e]
    <3>1. ToSet(s) = {s[i] : i \in 1 .. Len(s)}
      BY SetOf
    <3>2. \A i \in 1 .. Len(s) : arr[s[i]] <= arr[e]
      BY <1>3, <1>5 DEF LaterThan
    <3> QED BY <3>1, <3>2
  <2> HIDE DEF I, o
  <2> QED BY <1>4, <2>1, <2>2, <2>3
<1>6. CASE I # {}
  <2> DEFINE k == Min(I)
             a == SubSeq(s, 1, k - 1)
             b == SubSeq(s, k, Len(s))
  <2>1. k \in I /\ \A i \in I : k <= i
    <3>1. I \in SUBSET Nat
      BY <1>3 DEF LaterThan
    <3> HIDE DEF I
    <3> QED BY <1>6, <3>1, MinOf
  <2>2. k \in 1 .. Len(s) /\ arr[s[k]] > arr[e]
    BY <2>1 DEF LaterThan
  <2> HIDE DEF k
  <2>3. k - 1 \in 0 .. Len(s) /\ (k - 1) + 1 = k
    BY <1>3, <2>2
  <2>4. /\ a \in Seq(S) /\ b \in Seq(S) /\ s = a \o b /\ Len(a) = k - 1 /\ Len(b) = Len(s) - (k - 1)
        /\ \A i \in 1 .. k - 1 : a[i] = s[i]
        /\ \A i \in 1 .. Len(s) - (k - 1) : b[i] = s[(k - 1) + i]
    <3> DEFINE z == k - 1
    <3>1. z \in 0 .. Len(s) /\ z + 1 = k
      BY <2>3
    <3> HIDE DEF z
    <3>2. /\ SubSeq(s, 1, z) \in Seq(S) /\ SubSeq(s, z + 1, Len(s)) \in Seq(S)
          /\ s = SubSeq(s, 1, z) \o SubSeq(s, z + 1, Len(s))
          /\ Len(SubSeq(s, 1, z)) = z /\ Len(SubSeq(s, z + 1, Len(s))) = Len(s) - z
          /\ \A i \in 1 .. z : SubSeq(s, 1, z)[i] = s[i]
          /\ \A i \in 1 .. Len(s) - z : SubSeq(s, z + 1, Len(s))[i] = s[z + i]
      BY <3>1, HeadAndRest, ZenonT(40)
    <3>3. a = SubSeq(s, 1, z) /\ b = SubSeq(s, z + 1, Len(s)) /\ z = k - 1
      BY <3>1 DEF z
    <3> HIDE DEF a, b
    <3> QED BY <3>2, <3>3
  <2>5. \A i \in 1 .. Len(b) : b[i] = s[k + i - 1]
    <3> HIDE DEF a, b
    <3> SUFFICES ASSUME NEW i \in 1 .. Len(b) PROVE b[i] = s[k + i - 1]
      OBVIOUS
    <3>1. (k - 1) + i = k + i - 1
      BY <1>3, <2>2
    <3>2. b[i] = s[(k - 1) + i]
      BY <2>4
    <3> QED BY <3>1, <3>2
  <2>6. Requeue(s, arr, e) = (a \o o) \o b
    BY <1>6, Zenon DEF Requeue, InsertAt, k
  <2> HIDE DEF a, b
  <2>7. \A x \in ToSet(a) : arr[x] <= arr[e]
    <3>1. ToSet(a) = {a[i] : i \in 1 .. Len(a)}
      BY <2>4, SetOf
    <3> SUFFICES ASSUME NEW i \in 1 .. k - 1 PROVE arr[s[i]] <= arr[e]
      BY <2>4, <3>1
    <3>2. i \in 1 .. Len(s) /\ i < k
      BY <1>3, <2>2
    <3>3. i \notin I
      BY <2>1, <2>2, <3>2
    <3> QED BY <1>3, <3>2, <3>3 DEF LaterThan
  <2>8. \A y \in ToSet(b) : arr[e] <= arr[y]
    <3>1. ToSet(b) = {b[i] : i \in 1 .. Len(b)}
      BY <2>4, SetOf
    <3> SUFFICES ASSUME NEW i \in 1 .. Len(b) PROVE arr[e] <= arr[b[i]]
      BY <3>1
    <3>2. k + i - 1 \in 1 .. Len(s) /\ (k + i - 1 = k \/ k < k + i - 1)
      BY <1>3, <2>2, <2>4
    <3> DEFINE j == k + i - 1
    <3> HIDE DEF j
    <3>3. arr[s[k]] <= arr[s[j]]
      <4>1. j \in 1 .. Len(s) /\ (j = k \/ k < j)
        BY <3>2 DEF j
      <4> QED BY <1>3, <2>2, <4>1 DEF Rising
    <3>4. arr[e] < arr[s[k]] /\ arr[e] \in Nat /\ arr[s[k]] \in Nat /\ arr[s[j]] \in Nat
      BY <1>3, <2>2, <3>2 DEF j
    <3>5. b[i] = s[j]
      BY <2>5 DEF j
    <3> QED BY <3>3, <3>4, <3>5, SMTT(30)
  <2> HIDE DEF I, o
  <2> QED BY <1>4, <2>4, <2>6, <2>7, <2>8
<1> QED BY <1>5, <1>6

---------------------------------------------------------------------------
(* Blocks of b tokens.                                                     *)

Ceil(t, b) == (t + b - 1) \div b

\* The blocks t tokens take are the fewest that hold them.
LEMMA CeilIs ==
  ASSUME NEW t \in Nat, NEW b \in Nat, b > 0
  PROVE  /\ Ceil(t, b) \in Nat
         /\ \A k \in Nat : Ceil(t, b) <= k <=> t <= k * b
<1> DEFINE n == t + b - 1
           d == Ceil(t, b)
<1>1. n \in Nat /\ t = n - b + 1
  OBVIOUS
<1>2. /\ d = n \div b /\ d \in Nat
  <2> HIDE DEF n
  <2>1. n \div b \in Nat
    BY <1>1, DivMod
  <2> QED BY <2>1 DEF Ceil, n
<1>3. n - b * d \in 0 .. b - 1
  <2> HIDE DEF n, d
  <2>1. n % b \in 0 .. b - 1 /\ n % b = n - b * (n \div b)
    BY <1>1, DivMod
  <2> QED BY <1>2, <2>1
<1> HIDE DEF n, d
<1>4. ASSUME NEW k \in Nat, d <= k PROVE t <= k * b
  <2> DEFINE x == b * d
             y == b * k
  <2>1. x <= y
    BY <1>2, <1>4
  <2>2. x \in Nat /\ y \in Nat /\ k * b = y /\ n - x \in 0 .. b - 1
    BY <1>2, <1>3
  <2> HIDE DEF x, y
  <2> QED BY <1>1, <2>1, <2>2
<1>5. ASSUME NEW k \in Nat, t <= k * b PROVE d <= k
  <2> DEFINE y == k * b
             j == k + 1
  <2>1. y \in Nat /\ j * b = y + b /\ j \in Nat
    OBVIOUS
  <2>2. n < j * b
    <3> HIDE DEF y, j
    <3>1. t <= y
      BY <1>5 DEF y
    <3> QED BY <1>1, <2>1, <3>1
  <2> HIDE DEF y, j
  <2>3. n \div b < j
    BY <1>1, <2>1, <2>2, DivUnder
  <2> QED BY <1>2, <2>3 DEF j
<1> QED BY <1>2, <1>4, <1>5 DEF d

\* One token more takes at most one block more.
LEMMA CeilStep ==
  ASSUME NEW t \in Nat, NEW b \in Nat, b > 0
  PROVE  /\ Ceil(0, b) = 0
         /\ Ceil(t + 1, b) \in Nat /\ Ceil(t, b) <= Ceil(t + 1, b) /\ Ceil(t + 1, b) <= Ceil(t, b) + 1
         /\ t <= Ceil(t, b) * b
         /\ Ceil(t * b, b) = t
         /\ \A s \in Nat : s <= t => Ceil(s, b) <= Ceil(t, b)
<1> DEFINE d == Ceil(t, b)
           e == Ceil(t + 1, b)
<1>1. d \in Nat /\ e \in Nat /\ t + 1 \in Nat /\ 0 \in Nat
  <2>1. t + 1 \in Nat /\ 0 \in Nat
    OBVIOUS
  <2> QED BY <2>1, CeilIs, Zenon
<1>2. Ceil(0, b) = 0
  <2>1. Ceil(0, b) \in Nat /\ (Ceil(0, b) <= 0 <=> 0 <= 0 * b)
    BY CeilIs
  <2> QED BY <2>1
<1>3. t <= d * b
  <2>1. d <= d
    BY <1>1
  <2> QED BY <1>1, <2>1, CeilIs
<1>4. t + 1 <= e * b
  <2>1. e <= e
    BY <1>1
  <2> HIDE DEF e
  <2>2. Ceil(t + 1, b) <= e <=> t + 1 <= e * b
    BY <1>1, CeilIs
  <2> QED BY <2>1, <2>2 DEF e
<1>5. d <= e
  <2> HIDE DEF e
  <2>1. t <= e * b
    <3> DEFINE x == e * b
    <3>1. x \in Nat
      BY <1>1
    <3> HIDE DEF x
    <3>2. t + 1 <= x
      BY <1>4 DEF x
    <3>3. t <= x
      BY <3>1, <3>2
    <3> QED BY <3>3 DEF x
  <2> QED BY <1>1, <2>1, CeilIs
<1>6. e <= d + 1
  <2> HIDE DEF d
  <2>1. (d + 1) * b = d * b + b
    BY <1>1
  <2>2. d * b \in Nat
    BY <1>1
  <2>3. t + 1 <= (d + 1) * b
    <3> DEFINE x == d * b
    <3>1. x \in Nat /\ t <= x /\ (d + 1) * b = x + b
      BY <1>3, <2>1, <2>2
    <3> HIDE DEF x
    <3> QED BY <3>1
  <2>4. d + 1 \in Nat
    BY <1>1
  <2> QED BY <1>1, <2>3, <2>4, CeilIs
<1>7. Ceil(t * b, b) = t
  <2> DEFINE x == t * b
             f == Ceil(x, b)
  <2>1. x \in Nat /\ f \in Nat
    <3>1. x \in Nat
      OBVIOUS
    <3> HIDE DEF x
    <3> QED BY <3>1, CeilIs
  <2>2. \A k \in Nat : f <= k <=> x <= k * b
    <3> HIDE DEF x
    <3> QED BY <2>1, CeilIs
  <2>3. f <= t
    <3>1. x <= t * b
      BY <2>1
    <3> HIDE DEF x, f
    <3> QED BY <2>2, <3>1
  <2>4. x <= f * b
    <3> HIDE DEF x, f
    <3>1. f <= f
      BY <2>1
    <3> QED BY <2>1, <2>2, <3>1
  <2>5. ~(f < t)
    <3> SUFFICES ASSUME f < t PROVE FALSE
      OBVIOUS
    <3> HIDE DEF f
    <3>1. f + 1 <= t
      BY <2>1
    <3>2. (f + 1) * b <= t * b
      BY <2>1, <3>1
    <3>3. (f + 1) * b = f * b + b
      BY <2>1
    <3> DEFINE y == f * b
    <3>4. x \in Nat /\ y \in Nat /\ y + b <= x /\ x <= y
      BY <2>1, <2>4, <3>2, <3>3
    <3> HIDE DEF x, y
    <3> QED BY <3>4
  <2> HIDE DEF f
  <2>6. f = t
    BY <2>1, <2>3, <2>5
  <2> QED BY <2>6 DEF f
<1>8. ASSUME NEW s \in Nat, s <= t PROVE Ceil(s, b) <= d
  <2> DEFINE x == d * b
  <2>1. x \in Nat /\ t <= x
    BY <1>1, <1>3
  <2> HIDE DEF x, d
  <2>2. s <= d * b
    BY <1>8, <2>1 DEF x
  <2> QED BY <1>1, <2>2, CeilIs
<1> QED BY <1>1, <1>2, <1>3, <1>5, <1>6, <1>7, <1>8

---------------------------------------------------------------------------
(* The other way round.                                                    *)

\* A list reversed.
LEMMA ReverseOf ==
  ASSUME NEW S, NEW s \in Seq(S)
  PROVE  /\ Reverse(s) \in Seq(S) /\ Len(Reverse(s)) = Len(s) /\ ToSet(Reverse(s)) = ToSet(s)
         /\ \A i \in 1 .. Len(s) : Reverse(s)[i] = s[(Len(s) - i) + 1]
         /\ Apart(s) => Apart(Reverse(s))
<1> DEFINE r == Reverse(s)
           n == Len(s)
<1>1. n \in Nat /\ \A i \in 1 .. n : s[i] \in S
  BY LenProperties, ElementOfSeq
<1>2. ASSUME NEW i \in 1 .. n PROVE (n - i) + 1 \in 1 .. n
  BY <1>1
<1>3. r \in [1 .. n -> S] /\ \A i \in 1 .. n : r[i] = s[(n - i) + 1]
  BY <1>1, <1>2 DEF Reverse
<1> HIDE DEF r, n
<1>4. r \in Seq(S) /\ Len(r) = n /\ DOMAIN r = 1 .. n
  BY <1>1, <1>3
<1>5. DOMAIN s = 1 .. n /\ ToSet(s) = {s[i] : i \in 1 .. n} /\ ToSet(r) = {r[i] : i \in 1 .. n}
  BY <1>4, SetOf DEF n
<1>6. ToSet(r) = ToSet(s)
  <2>1. ASSUME NEW i \in 1 .. n PROVE s[i] \in ToSet(r)
    <3> DEFINE j == (n - i) + 1
    <3>1. j \in 1 .. n /\ (n - j) + 1 = i
      BY <1>1
    <3> HIDE DEF j
    <3> QED BY <1>3, <1>5, <3>1
  <2> QED BY <1>2, <1>3, <1>5, <2>1
<1>7. ASSUME Apart(s) PROVE Apart(r)
  <2> SUFFICES ASSUME NEW i \in 1 .. n, NEW j \in 1 .. n, r[i] = r[j] PROVE i = j
    BY <1>4 DEF Apart
  <2> DEFINE a == (n - i) + 1
             b == (n - j) + 1
  <2>1. a \in 1 .. n /\ b \in 1 .. n
    BY <1>2
  <2>2. s[a] = s[b]
    BY <1>3
  <2>3. a = b
    <3> HIDE DEF a, b
    <3> QED BY <1>5, <1>7, <2>1, <2>2 DEF Apart
  <2> QED BY <1>1, <2>3
<1> QED BY <1>3, <1>4, <1>6, <1>7 DEF r, n

\* What is kept of two sequences.
LEMMA KeptAll ==
  ASSUME NEW S, NEW T, NEW s \in Seq(S), ToSet(s) \subseteq T PROVE Kept(s, T) = s
<1> DEFINE P == {r \in Seq(S) : ToSet(r) \subseteq T => Kept(r, T) = r}
<1>1. << >> \in P
  BY KeptEmpty, EmptySeq
<1>2. ASSUME NEW r \in Seq(S), NEW e \in S, r \in P PROVE Append(r, e) \in P
  <2>1. /\ Kept(Append(r, e), T) = IF e \in T THEN Append(Kept(r, T), e) ELSE Kept(r, T)
        /\ ToSet(Append(r, e)) = ToSet(r) \cup {e} /\ Append(r, e) \in Seq(S)
    BY KeptAppend, SetOfAppend, AppendProperties
  <2>2. ASSUME ToSet(Append(r, e)) \subseteq T PROVE Kept(Append(r, e), T) = Append(r, e)
    BY <1>2, <2>1, <2>2
  <2> QED BY <2>1, <2>2
<1> HIDE DEF P
<1>3. s \in P
  <2>1. \A r \in Seq(S) : r \in P
    BY <1>1, <1>2, SeqInd, Zenon
  <2> QED BY <2>1
<1> QED BY <1>3 DEF P

\* What is kept of two lists in a row.
LEMMA KeptConcat ==
  ASSUME NEW S, NEW T, NEW s \in Seq(S), NEW t \in Seq(S)
  PROVE  Kept(s \o t, T) = Kept(s, T) \o Kept(t, T)
<1> DEFINE P == {r \in Seq(S) : Kept(s \o r, T) = Kept(s, T) \o Kept(r, T)}
<1>0. Kept(s, T) \in Seq(S)
  BY KeptPlaces
<1>1. << >> \in P
  <2>1. s \o << >> = s /\ Kept(s, T) \o << >> = Kept(s, T)
    BY <1>0, ConcatEmptySeq
  <2> QED BY <2>1, KeptEmpty, EmptySeq
<1>2. ASSUME NEW r \in Seq(S), NEW e \in S, r \in P PROVE Append(r, e) \in P
  <2>1. /\ Kept(Append(r, e), T) = IF e \in T THEN Append(Kept(r, T), e) ELSE Kept(r, T)
        /\ Kept(r, T) \in Seq(S) /\ Append(r, e) \in Seq(S)
    BY KeptAppend, AppendProperties
  <2>2. s \o Append(r, e) = Append(s \o r, e) /\ s \o r \in Seq(S)
    BY ConcatProperties, AppendIsConcat, ConcatAssociative, SMTT(30)
  <2>3. Kept(Append(s \o r, e), T) = IF e \in T THEN Append(Kept(s \o r, T), e) ELSE Kept(s \o r, T)
    <3> DEFINE q == s \o r
    <3>1. q \in Seq(S)
      BY <2>2
    <3> HIDE DEF q
    <3>2. Kept(Append(q, e), T) = IF e \in T THEN Append(Kept(q, T), e) ELSE Kept(q, T)
      BY <3>1, KeptAppend
    <3> QED BY <3>2 DEF q
  <2>4. Kept(s, T) \o Append(Kept(r, T), e) = Append(Kept(s, T) \o Kept(r, T), e)
    <3> DEFINE a == Kept(s, T)
               b == Kept(r, T)
    <3>1. a \in Seq(S) /\ b \in Seq(S)
      BY <1>0, <2>1
    <3> HIDE DEF a, b
    <3>2. a \o Append(b, e) = Append(a \o b, e)
      BY <3>1
    <3> QED BY <3>2 DEF a, b
  <2>5. Kept(s \o r, T) = Kept(s, T) \o Kept(r, T)
    BY <1>2
  <2> QED BY <2>1, <2>2, <2>3, <2>4, <2>5
<1> HIDE DEF P
<1>3. t \in P
  <2>1. \A r \in Seq(S) : r \in P
    BY <1>1, <1>2, SeqInd, Zenon
  <2> QED BY <2>1
<1> QED BY <1>3 DEF P


---------------------------------------------------------------------------
(* A sequence dealt out in slices.                                         *)

\* Numbers none of which is below the one before it rise.
LEMMA Climbing ==
  ASSUME NEW m \in Nat, NEW N \in [0 .. m -> Nat], \A i \in 1 .. m : N[i - 1] <= N[i]
  PROVE  \A i, j \in 0 .. m : i <= j => N[i] <= N[j]
<1> DEFINE D == {d \in Nat : \A i \in 0 .. m : i + d \in 0 .. m => N[i] <= N[i + d]}
<1>1. 0 \in D
  OBVIOUS
<1>2. ASSUME NEW d \in Nat, d \in D PROVE d + 1 \in D
  <2>1. ASSUME NEW i \in 0 .. m, i + (d + 1) \in 0 .. m PROVE N[i] <= N[i + (d + 1)]
    <3>1. i + d \in 0 .. m /\ (i + d) + 1 \in 1 .. m /\ ((i + d) + 1) - 1 = i + d
          /\ i + (d + 1) = (i + d) + 1
      BY <2>1
    <3>2. N[i] <= N[i + d]
      BY <1>2, <3>1
    <3> DEFINE k == (i + d) + 1
    <3>3. k \in 1 .. m /\ k - 1 = i + d /\ k \in 0 .. m
      BY <3>1
    <3> HIDE DEF k
    <3>4. N[k - 1] <= N[k]
      BY <3>3
    <3>5. N[i] \in Nat /\ N[i + d] \in Nat /\ N[k] \in Nat
      BY <3>1, <3>3
    <3> QED BY <3>1, <3>2, <3>3, <3>4, <3>5 DEF k
  <2> QED BY <2>1
<1> HIDE DEF D
<1>3. \A d \in Nat : d \in D
  BY <1>1, <1>2, NatInd
<1>4. ASSUME NEW i \in 0 .. m, NEW j \in 0 .. m, i <= j PROVE N[i] <= N[j]
  <2>1. j - i \in D /\ i + (j - i) = j
    BY <1>3, <1>4
  <2> QED BY <2>1 DEF D
<1> QED BY <1>4

\* What a part of a list is.
LEMMA CutAt ==
  ASSUME NEW S, NEW s \in Seq(S), NEW a \in Nat, NEW b \in Nat, a <= b, b <= Len(s)
  PROVE  /\ SubSeq(s, a + 1, b) \in Seq(S) /\ Len(SubSeq(s, a + 1, b)) = b - a
         /\ \A p \in 1 .. b - a : SubSeq(s, a + 1, b)[p] = s[a + p]
<1> DEFINE m == a + 1
<1>1. m \in Int /\ b \in Int /\ b - m + 1 = b - a /\ (m <= b => b - m + 1 = b - a)
      /\ (~(m <= b) => b - a = 0)
  OBVIOUS
<1>2. \A p \in m .. b : s[p] \in S
  BY ElementOfSeq
<1>3. \A p \in 1 .. b - a : m + p - 1 = a + p
  OBVIOUS
<1> HIDE DEF m
<1>4. /\ SubSeq(s, m, b) \in Seq(S)
      /\ Len(SubSeq(s, m, b)) = IF m <= b THEN b - m + 1 ELSE 0
      /\ \A p \in 1 .. b - m + 1 : SubSeq(s, m, b)[p] = s[m + p - 1]
  BY <1>1, <1>2, SubSeqProperties
<1> DEFINE u == SubSeq(s, m, b)
<1> HIDE DEF u
<1>5. u \in Seq(S) /\ Len(u) = b - a
  BY <1>1, <1>4 DEF u
<1>6. \A p \in 1 .. b - a : u[p] = s[a + p]
  BY <1>1, <1>3, <1>4 DEF u
<1> QED BY <1>5, <1>6 DEF u, m

Slice(s, N, i) == SubSeq(s, N[i - 1] + 1, N[i])

\* What slices are, of a list with nothing twice.
CutUp(S, s, N, m) ==
  /\ \A i \in 1 .. m : /\ Slice(s, N, i) \in Seq(S) /\ Apart(Slice(s, N, i))
                       /\ Len(Slice(s, N, i)) = N[i] - N[i - 1]
  /\ \A i, j \in 1 .. m : i # j => ToSet(Slice(s, N, i)) \cap ToSet(Slice(s, N, j)) = {}
  /\ \A e : (\E i \in 1 .. m : e \in ToSet(Slice(s, N, i))) <=> (\E p \in 1 .. N[m] : e = s[p])

\* The slices of a list between rising cuts have no element in common, and are
\* all that is before the last cut.
LEMMA SlicesCut ==
  ASSUME NEW S, NEW s \in Seq(S), Apart(s), NEW m \in Nat, NEW N \in [0 .. m -> Nat],
         N[0] = 0, N[m] <= Len(s), \A i \in 1 .. m : N[i - 1] <= N[i]
  PROVE  CutUp(S, s, N, m)
<1>0. \A i, j \in 0 .. m : i <= j => N[i] <= N[j]
  BY Climbing
<1>1. Len(s) \in Nat /\ DOMAIN s = 1 .. Len(s) /\ \A p \in 1 .. Len(s) : s[p] \in S
  OBVIOUS
<1>2. ASSUME NEW i \in 1 .. m
      PROVE  /\ N[i - 1] \in Nat /\ N[i] \in Nat /\ N[i - 1] <= N[i] /\ N[i] <= N[m] /\ N[m] \in Nat
             /\ N[i] <= Len(s)
  <2> DEFINE h == i - 1
  <2>1. h \in 0 .. m /\ i \in 0 .. m /\ m \in 0 .. m /\ i <= m
    OBVIOUS
  <2>2. N[i - 1] <= N[i]
    OBVIOUS
  <2> HIDE DEF h
  <2>3. N[h] \in Nat /\ N[i] \in Nat /\ N[m] \in Nat /\ N[i] <= N[m]
    BY <1>0, <2>1
  <2> QED BY <1>1, <2>2, <2>3 DEF h
<1>3. ASSUME NEW i \in 1 .. m
      PROVE  /\ Slice(s, N, i) \in Seq(S) /\ Apart(Slice(s, N, i))
             /\ Len(Slice(s, N, i)) = N[i] - N[i - 1]
             /\ ToSet(Slice(s, N, i)) = {s[p] : p \in N[i - 1] + 1 .. N[i]}
  <2> DEFINE a == N[i - 1]
             b == N[i]
             u == SubSeq(s, a + 1, b)
  <2>1. a \in Nat /\ b \in Nat /\ a <= b /\ b <= Len(s) /\ Slice(s, N, i) = u
    BY <1>2 DEF Slice
  <2> HIDE DEF a, b
  <2>2. /\ u \in Seq(S) /\ Len(u) = b - a /\ \A p \in 1 .. b - a : u[p] = s[a + p]
    BY <2>1, CutAt, ZenonT(40)
  <2>3. Apart(u)
    <3>1. DOMAIN u = 1 .. b - a
      BY <2>2
    <3>2. \A p \in 1 .. b - a : a + p \in DOMAIN s
      BY <1>1, <2>1
    <3> HIDE DEF u
    <3>3. ASSUME NEW p \in 1 .. b - a, NEW q \in 1 .. b - a, u[p] = u[q] PROVE p = q
      <4>1. s[a + p] = s[a + q]
        BY <2>2, <3>3
      <4>2. a + p = a + q
        BY <3>2, <4>1 DEF Apart
      <4> QED BY <2>1, <4>2
    <3> QED BY <3>1, <3>3 DEF Apart
  <2>4. ToSet(u) = {s[p] : p \in a + 1 .. b}
    <3> HIDE DEF u
    <3>1. ToSet(u) = {u[p] : p \in 1 .. Len(u)}
      BY <2>2, SetOf
    <3>2. ASSUME NEW p \in 1 .. b - a PROVE a + p \in a + 1 .. b /\ u[p] = s[a + p]
      BY <2>1, <2>2, SMTT(30)
    <3>3. ASSUME NEW p \in a + 1 .. b PROVE p - a \in 1 .. b - a /\ u[p - a] = s[p]
      <4> DEFINE k == p - a
      <4>1. k \in 1 .. b - a /\ a + k = p
        BY <2>1
      <4> HIDE DEF k
      <4>2. u[k] = s[a + k]
        BY <2>2, <4>1
      <4> QED BY <4>1, <4>2 DEF k
    <3>4. {u[p] : p \in 1 .. b - a} \subseteq {s[p] : p \in a + 1 .. b}
      BY <3>2, ZenonT(40)
    <3>5. {s[p] : p \in a + 1 .. b} \subseteq {u[p] : p \in 1 .. b - a}
      BY <3>3, SMTT(30)
    <3> QED BY <2>2, <3>1, <3>4, <3>5
  <2> QED BY <2>1, <2>2, <2>3, <2>4 DEF a, b
<1>4. ASSUME NEW i \in 1 .. m, NEW j \in 1 .. m, i < j
      PROVE  ToSet(Slice(s, N, i)) \cap ToSet(Slice(s, N, j)) = {}
  <2> DEFINE k == j - 1
  <2>1. k \in 0 .. m /\ i \in 0 .. m /\ i <= k
    BY <1>4
  <2> HIDE DEF k
  <2>2. N[i] <= N[k]
    BY <1>0, <2>1
  <2>3. N[i] <= N[j - 1]
    BY <2>2 DEF k
  <2>4. ASSUME NEW p \in N[i - 1] + 1 .. N[i], NEW q \in N[j - 1] + 1 .. N[j], s[p] = s[q] PROVE FALSE
    <3>1. N[i - 1] \in Nat /\ N[i] \in Nat /\ N[j - 1] \in Nat /\ N[j] \in Nat /\ N[j] <= Len(s)
          /\ N[i] <= Len(s)
      BY <1>2
    <3>2. p \in 1 .. Len(s) /\ q \in 1 .. Len(s) /\ p < q
      BY <1>1, <2>3, <3>1, SMTT(30)
    <3>3. p = q
      BY <1>1, <2>4, <3>2 DEF Apart
    <3> QED BY <3>2, <3>3
  <2>5. /\ ToSet(Slice(s, N, i)) = {s[p] : p \in N[i - 1] + 1 .. N[i]}
        /\ ToSet(Slice(s, N, j)) = {s[p] : p \in N[j - 1] + 1 .. N[j]}
    BY <1>3
  <2> QED BY <2>4, <2>5
<1>5. \A i, j \in 1 .. m : i # j => ToSet(Slice(s, N, i)) \cap ToSet(Slice(s, N, j)) = {}
  <2>1. ASSUME NEW i \in 1 .. m, NEW j \in 1 .. m, i # j
        PROVE  ToSet(Slice(s, N, i)) \cap ToSet(Slice(s, N, j)) = {}
    <3>1. i < j \/ j < i
      BY <2>1
    <3>2. j < i => ToSet(Slice(s, N, j)) \cap ToSet(Slice(s, N, i)) = {}
      BY <1>4
    <3> QED BY <1>4, <3>1, <3>2
  <2> QED BY <2>1
<1>6. ASSUME NEW p \in 1 .. N[m] PROVE \E i \in 1 .. m : p \in N[i - 1] + 1 .. N[i]
  <2> DEFINE I == {i \in 0 .. m : p <= N[i]}
  <2>1. I \in SUBSET Nat /\ I # {}
    <3>1. m \in 0 .. m /\ N[m] \in Nat
      OBVIOUS
    <3>2. m \in I
      BY <3>1
    <3>3. 0 .. m \subseteq Nat
      OBVIOUS
    <3> QED BY <3>2, <3>3
  <2>2. PICK k \in I : \A n \in I : k <= n
    <3> HIDE DEF I
    <3> QED BY <2>1, LeastOf
  <2>3. k # 0 /\ k \in 1 .. m /\ p <= N[k]
    BY <2>2
  <2>4. ~(p <= N[k - 1])
    <3> DEFINE h == k - 1
    <3>1. h \in 0 .. m /\ ~(k <= h)
      BY <2>3
    <3> HIDE DEF h
    <3>2. h \notin I
      BY <2>2, <3>1
    <3> QED BY <3>1, <3>2 DEF h
  <2>5. N[k - 1] \in Nat /\ N[k] \in Nat
    BY <1>2, <2>3
  <2>6. p \in N[k - 1] + 1 .. N[k]
    BY <2>3, <2>4, <2>5
  <2> QED BY <2>3, <2>6
<1>7. ASSUME NEW e
      PROVE  (\E i \in 1 .. m : e \in ToSet(Slice(s, N, i))) <=> (\E p \in 1 .. N[m] : e = s[p])
  <2>1. ASSUME NEW i \in 1 .. m, e \in ToSet(Slice(s, N, i)) PROVE \E p \in 1 .. N[m] : e = s[p]
    <3>1. PICK p \in N[i - 1] + 1 .. N[i] : e = s[p]
      BY <1>3, <2>1
    <3>2. N[i - 1] \in Nat /\ N[i] \in Nat /\ N[m] \in Nat /\ N[i] <= N[m]
      BY <1>2
    <3>3. p \in 1 .. N[m]
      BY <3>2
    <3> QED BY <3>1, <3>3
  <2>2. ASSUME NEW p \in 1 .. N[m], e = s[p] PROVE \E i \in 1 .. m : e \in ToSet(Slice(s, N, i))
    <3>1. PICK i \in 1 .. m : p \in N[i - 1] + 1 .. N[i]
      BY <1>6
    <3>2. e \in {s[q] : q \in N[i - 1] + 1 .. N[i]}
      BY <2>2, <3>1
    <3> QED BY <1>3, <3>1, <3>2
  <2> QED BY <2>1, <2>2
<1>8. \A i \in 1 .. m : /\ Slice(s, N, i) \in Seq(S) /\ Apart(Slice(s, N, i))
                        /\ Len(Slice(s, N, i)) = N[i] - N[i - 1]
  BY <1>3, Zenon
<1> QED BY <1>5, <1>7, <1>8, Zenon DEF CutUp

\* The elements of a list are those at its places.
LEMMA Listed ==
  ASSUME NEW S, NEW s \in Seq(S)
  PROVE  /\ \A i \in 1 .. Len(s) : s[i] \in S /\ s[i] \in ToSet(s)
         /\ \A e \in ToSet(s) : \E i \in 1 .. Len(s) : s[i] = e
<1>1. ToSet(s) = {s[i] : i \in 1 .. Len(s)}
  BY SetOf
<1> QED BY <1>1, ElementOfSeq

\* What is kept depends only on the elements there are.
LEMMA KeptSame ==
  ASSUME NEW S, NEW T, NEW U, NEW s \in Seq(S), \A e \in ToSet(s) : e \in T <=> e \in U
  PROVE  Kept(s, T) = Kept(s, U)
<1>1. s \in Seq(S) /\ \A i \in DOMAIN s : s[i] \in ToSet(s)
  BY LenProperties, Listed
<1>2. [i \in DOMAIN s |-> IF s[i] \in T THEN <<s[i]>> ELSE << >>]
        = [i \in DOMAIN s |-> IF s[i] \in U THEN <<s[i]>> ELSE << >>]
  BY <1>1
<1> QED BY <1>2, Zenon DEF Kept
=============================================================================
