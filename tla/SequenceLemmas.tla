--------------------------- MODULE SequenceLemmas ----------------------------
(***************************************************************************)
(* Vectors and channels that have each of their elements once: what is     *)
(* left of them when one is added, taken, removed or replaced; and         *)
(* sequences put one behind the other.                                     *)
(***************************************************************************)
EXTENDS Integers, SequencesExt, SequenceTheorems, WellFoundedInduction, TLAPS

(* push_back, or a message is sent.                                        *)
LEMMA AppendOnce ==
  ASSUME NEW S, NEW v \in Seq(S), NEW e \in S
  PROVE  /\ Append(v, e) \in Seq(S)
         /\ ToSet(Append(v, e)) = ToSet(v) \cup {e}
         /\ IsInjective(v) /\ e \notin ToSet(v) => IsInjective(Append(v, e))
<1> DEFINE w == Append(v, e)
<1>1. /\ w \in Seq(S) /\ DOMAIN w = 1 .. Len(v) + 1 /\ DOMAIN v = 1 .. Len(v)
      /\ \A i \in DOMAIN v : w[i] = v[i]
      /\ w[Len(v) + 1] = e /\ Len(v) \in Nat
  OBVIOUS
<1>2. ToSet(w) = ToSet(v) \cup {e}
  BY <1>1 DEF ToSet
<1>3. IsInjective(v) /\ e \notin ToSet(v) => IsInjective(w)
  BY <1>1 DEF ToSet, IsInjective
<1>4. QED BY <1>1, <1>2, <1>3

(* The oldest is taken.                                                    *)
LEMMA TakeOnce ==
  ASSUME NEW S, NEW v \in Seq(S), v # <<>>, IsInjective(v)
  PROVE  /\ Tail(v) \in Seq(S) /\ Head(v) \in ToSet(v)
         /\ ToSet(Tail(v)) = ToSet(v) \ {Head(v)}
         /\ IsInjective(Tail(v))
<1> DEFINE w == Tail(v)
<1>1. /\ w \in Seq(S) /\ Len(v) \in Nat \ {0} /\ DOMAIN v = 1 .. Len(v)
      /\ DOMAIN w = 1 .. Len(v) - 1
      /\ \A i \in DOMAIN w : w[i] = v[i + 1] /\ i + 1 \in DOMAIN v
      /\ Head(v) = v[1]
  OBVIOUS
<1>2. \A k \in DOMAIN v \ {1} : k - 1 \in DOMAIN w /\ w[k - 1] = v[k]
  BY <1>1
<1>3. ToSet(w) = ToSet(v) \ {Head(v)}
  <2>1. ASSUME NEW s \in ToSet(w) PROVE s \in ToSet(v) \ {Head(v)}
    BY <1>1 DEF ToSet, IsInjective
  <2>2. ASSUME NEW s \in ToSet(v) \ {Head(v)} PROVE s \in ToSet(w)
    <3>1. PICK k \in DOMAIN v : s = v[k]
      BY DEF ToSet
    <3>2. k \in DOMAIN v \ {1}
      BY <1>1, <3>1
    <3>3. QED BY <1>2, <3>1, <3>2 DEF ToSet
  <2>3. QED BY <2>1, <2>2
<1>4. IsInjective(w)
  BY <1>1 DEF IsInjective
<1>5. Head(v) \in ToSet(v)
  <2>1. 1 \in DOMAIN v
    BY <1>1
  <2>2. QED BY <1>1, <2>1 DEF ToSet
<1>6. QED BY <1>1, <1>3, <1>4, <1>5

(* The later ones are lost.                                                *)
LEMMA PrefixOnce ==
  ASSUME NEW S, NEW v \in Seq(S), NEW w \in Prefixes(v), IsInjective(v)
  PROVE  /\ w \in Seq(S)
         /\ ToSet(w) \subseteq ToSet(v)
         /\ IsInjective(w)
<1>1. PICK n \in 0 .. Len(v) : w = SubSeq(v, 1, n)
  BY DEF Prefixes
<1>2. /\ Len(v) \in Nat /\ DOMAIN v = 1 .. Len(v)
      /\ w \in Seq(S) /\ DOMAIN w = 1 .. n
      /\ \A k \in DOMAIN w : k \in DOMAIN v /\ w[k] = v[k]
  BY <1>1
<1>3. QED BY <1>2 DEF ToSet, IsInjective

(* One is replaced by another.                                             *)
LEMMA ReplaceOnce ==
  ASSUME NEW S, NEW v \in Seq(S), NEW i \in DOMAIN v, NEW e \in S,
         IsInjective(v), e \notin ToSet(v) \ {v[i]}
  PROVE  LET w == [v EXCEPT ![i] = e]
         IN  /\ w \in Seq(S)
             /\ ToSet(w) = (ToSet(v) \ {v[i]}) \cup {e}
             /\ IsInjective(w)
<1> DEFINE w == [v EXCEPT ![i] = e]
<1>1. /\ w \in Seq(S) /\ DOMAIN w = DOMAIN v /\ w[i] = e
      /\ \A k \in DOMAIN v \ {i} : w[k] = v[k]
  OBVIOUS
<1> HIDE DEF w
<1>2. ToSet(w) = (ToSet(v) \ {v[i]}) \cup {e}
  BY <1>1 DEF ToSet, IsInjective
<1>3. IsInjective(w)
  BY <1>1 DEF ToSet, IsInjective
<1>4. QED BY <1>1, <1>2, <1>3 DEF w

(* erase removes the one at an iterator.                                   *)
LEMMA RemoveOnce ==
  ASSUME NEW S, NEW v \in Seq(S), NEW i \in DOMAIN v, IsInjective(v)
  PROVE  /\ RemoveAt(v, i) \in Seq(S)
         /\ ToSet(RemoveAt(v, i)) = ToSet(v) \ {v[i]}
         /\ IsInjective(RemoveAt(v, i))
<1> DEFINE front == SubSeq(v, 1, i - 1)
           back  == SubSeq(v, i + 1, Len(v))
           w     == RemoveAt(v, i)
           Place(j) == IF j < i THEN j ELSE j + 1
<1>1. Len(v) \in Nat /\ DOMAIN v = 1 .. Len(v) /\ i \in 1 .. Len(v)
  OBVIOUS
<1>2. /\ front \in Seq(S) /\ Len(front) = i - 1
      /\ \A j \in 1 .. i - 1 : front[j] = v[j]
  BY <1>1
<1>3. /\ back \in Seq(S) /\ Len(back) = Len(v) - i
      /\ \A j \in 1 .. Len(v) - i : back[j] = v[j + i]
  <2>1. /\ i + 1 \in Int /\ Len(v) \in Int
        /\ \A j \in i + 1 .. Len(v) : v[j] \in S
    BY <1>1
  <2>2. /\ back \in Seq(S)
        /\ Len(back) = IF i + 1 <= Len(v) THEN Len(v) - (i + 1) + 1 ELSE 0
        /\ \A j \in 1 .. Len(v) - (i + 1) + 1 : back[j] = v[i + 1 + j - 1]
    BY <2>1, SubSeqProperties
  <2> HIDE DEF back
  <2>3. Len(back) = Len(v) - i
    BY <1>1, <2>2
  <2>4. ASSUME NEW j \in 1 .. Len(v) - i PROVE back[j] = v[j + i]
    <3>1. j \in 1 .. Len(v) - (i + 1) + 1 /\ i + 1 + j - 1 = j + i
      BY <1>1
    <3>2. back[j] = v[i + 1 + j - 1]
      BY <2>2, <3>1
    <3>3. QED BY <3>1, <3>2
  <2>5. QED BY <2>2, <2>3, <2>4
<1>4. /\ w \in Seq(S) /\ DOMAIN w = 1 .. Len(v) - 1
      /\ \A j \in DOMAIN w : w[j] = v[Place(j)] /\ Place(j) \in DOMAIN v \ {i}
  <2>1. w = front \o back
    BY DEF RemoveAt
  <2> HIDE DEF front, back, w
  <2>2. w \in Seq(S) /\ Len(w) = Len(v) - 1 /\ DOMAIN w = 1 .. Len(v) - 1
    <3>1. w \in Seq(S) /\ Len(w) = Len(front) + Len(back)
      BY <1>2, <1>3, <2>1, ConcatProperties
    <3>2. Len(w) = (i - 1) + (Len(v) - i)
      BY <1>2, <1>3, <3>1
    <3>3. Len(w) = Len(v) - 1
      BY <1>1, <3>2
    <3>4. QED BY <3>1, <3>3
  <2>3. ASSUME NEW j \in DOMAIN w
        PROVE  w[j] = v[Place(j)] /\ Place(j) \in DOMAIN v \ {i}
    <3>1. w[j] = IF j <= i - 1 THEN front[j] ELSE back[j - (i - 1)]
      <4>1. w[j] = IF j <= Len(front) THEN front[j] ELSE back[j - Len(front)]
        <5>1. j \in 1 .. Len(front) + Len(back)
          BY <1>1, <1>2, <1>3, <2>2
        <5>2. QED BY <1>2, <1>3, <2>1, <5>1, ConcatProperties
      <4>2. QED BY <1>1, <1>2, <4>1
    <3>2. CASE j < i
      BY <1>1, <1>2, <2>2, <3>1, <3>2
    <3>3. CASE ~ j < i
      <4>1. j - (i - 1) \in 1 .. Len(v) - i /\ j - (i - 1) + i = j + 1
        BY <1>1, <2>2, <3>3
      <4>2. w[j] = v[j + 1] /\ Place(j) = j + 1
        <5>1. j > i - 1 /\ j - (i - 1) \in 1 .. Len(v) - i
          BY <1>1, <2>2, <3>3, <4>1
        <5>2. w[j] = back[j - (i - 1)]
          BY <1>1, <2>2, <3>1, <5>1
        <5>3. back[j - (i - 1)] = v[j - (i - 1) + i]
          BY <1>3, <5>1
        <5>4. QED BY <3>3, <4>1, <5>2, <5>3
      <4>3. j + 1 \in DOMAIN v \ {i}
        BY <1>1, <2>2, <3>3, SMTT(30)
      <4>4. QED BY <4>2, <4>3
    <3>4. QED BY <3>2, <3>3
  <2>4. QED BY <2>2, <2>3
<1>5. \A k \in DOMAIN v \ {i} : \E j \in DOMAIN w : Place(j) = k
  <2>1. ASSUME NEW k \in DOMAIN v, k < i
        PROVE  k \in DOMAIN w /\ Place(k) = k
    BY <1>1, <1>4, <2>1
  <2>2. ASSUME NEW k \in DOMAIN v, k > i
        PROVE  k - 1 \in DOMAIN w /\ Place(k - 1) = k
    BY <1>1, <1>4, <2>2
  <2>3. QED BY <1>1, <2>1, <2>2
<1>6. ToSet(w) = ToSet(v) \ {v[i]}
  <2> HIDE DEF w, Place
  <2>1. ASSUME NEW s \in ToSet(w) PROVE s \in ToSet(v) \ {v[i]}
    BY <1>1, <1>4 DEF ToSet, IsInjective
  <2>2. ASSUME NEW s \in ToSet(v) \ {v[i]} PROVE s \in ToSet(w)
    BY <1>1, <1>4, <1>5 DEF ToSet
  <2>3. QED BY <2>1, <2>2
<1>7. IsInjective(w)
  <2>1. \A j, k \in DOMAIN w : Place(j) = Place(k) => j = k
    BY <1>1, <1>4
  <2> HIDE DEF w, Place
  <2>2. QED BY <1>4, <2>1 DEF IsInjective
<1>8. QED BY <1>4, <1>6, <1>7

(* std::find and erase remove the one there is.                            *)
LEMMA RemoveFirstOnce ==
  ASSUME NEW S, NEW v \in Seq(S), NEW e, IsInjective(v)
  PROVE  /\ RemoveFirst(v, e) \in Seq(S)
         /\ ToSet(RemoveFirst(v, e)) = ToSet(v) \ {e}
         /\ IsInjective(RemoveFirst(v, e))
<1>1. Len(v) \in Nat /\ DOMAIN v = 1 .. Len(v)
  OBVIOUS
<1>2. CASE \E i \in 1 .. Len(v) : v[i] = e
  <2>1. PICK k \in 1 .. Len(v) : v[k] = e
    BY <1>2
  <2>2. {i \in 1 .. Len(v) : v[i] = e} = {k}
    BY <1>1, <2>1 DEF IsInjective
  <2>3. Min({k}) = k
    BY <2>1 DEF Min
  <2>4. RemoveFirst(v, e) = RemoveAt(v, k)
    BY <1>2, <2>2, <2>3 DEF RemoveFirst, SelectInSeq
  <2>5. QED BY <1>1, <2>1, <2>4, RemoveOnce
<1>3. CASE ~ \E i \in 1 .. Len(v) : v[i] = e
  <2>1. RemoveFirst(v, e) = v
    BY <1>3 DEF RemoveFirst
  <2>2. e \notin ToSet(v)
    BY <1>1, <1>3 DEF ToSet
  <2>3. QED BY <2>1, <2>2
<1>4. QED BY <1>2, <1>3

-----------------------------------------------------------------------------
(* What FlattenSeq, which is defined by recursion, does for a sequence of  *)
(* any length.  The induction is over the set T of the numbers for which   *)
(* something is so, or its least counterexample.                           *)
LEMMA LeastNumber ==
  ASSUME NEW T, T \subseteq Nat, T # {}
  PROVE  \E n \in T : \A m \in T : n <= m
<1>1. IsWellFoundedOn(OpToRel(<,Nat), Nat)
  BY NatLessThanWellFounded
<1>2. PICK n \in T : \A m \in T : ~ (<<m, n>> \in OpToRel(<,Nat))
  BY <1>1, WFMin
<1>3. ASSUME NEW m \in T PROVE n <= m
  <2>1. ~ (<<m, n>> \in OpToRel(<,Nat))
    BY <1>2
  <2>2. <<m, n>> \in Nat \X Nat
    OBVIOUS
  <2>3. ~ m < n
    BY <2>1, <2>2 DEF OpToRel
  <2>4. QED BY <2>3
<1>4. QED BY <1>3

(* What is so of 0, and of each number if it is of the one before.         *)
LEMMA ByInduction ==
  ASSUME NEW n \in Nat, NEW T,
         0 \in T, \A k \in 1 .. n : k - 1 \in T => k \in T
  PROVE  n \in T
<1> DEFINE U == {k \in 0 .. n : k \notin T}
<1>1. U \subseteq Nat
  OBVIOUS
<1>2. CASE U # {}
  <2>1. PICK k \in U : \A j \in U : k <= j
    <3> HIDE DEF U
    <3>1. QED BY <1>1, <1>2, LeastNumber
  <2>2. k \in 1 .. n
    BY <2>1
  <2>3. k - 1 \in T
    BY <2>1, <2>2
  <2>4. QED BY <2>1, <2>2, <2>3
<1>3. CASE U = {}
  BY <1>3
<1>4. QED BY <1>2, <1>3

(* f[i] is the first i sequences of s, one behind the other.               *)
Joins(f, s, n) ==
  f = [i \in 1 .. n |-> IF i = 1 THEN s[i] ELSE f[i - 1] \o s[i]]

LEMMA JoinsAt ==
  ASSUME NEW f, NEW s, NEW n, Joins(f, s, n), NEW i \in 1 .. n
  PROVE  f[i] = IF i = 1 THEN s[i] ELSE f[i - 1] \o s[i]
BY DEF Joins

(* There is such a function: the definition of FlattenSeq has a meaning.   *)
LEMMA JoinsExists ==
  ASSUME NEW s, NEW n \in Nat
  PROVE  \E f : Joins(f, s, n)
<1> DEFINE T == {k \in Nat : \E f : Joins(f, s, k)}
<1>1. 0 \in T
  <2>1. DEFINE h == [i \in 1 .. 0 |-> s[i]]
  <2>2. \A i \in 1 .. 0 : s[i] = IF i = 1 THEN s[i] ELSE h[i - 1] \o s[i]
    OBVIOUS
  <2>3. Joins(h, s, 0)
    BY <2>2 DEF Joins
  <2>4. QED BY <2>3
<1>2. ASSUME NEW k \in 1 .. n, k - 1 \in T
      PROVE  k \in T
  <2>1. PICK g : Joins(g, s, k - 1)
    BY <1>2
  <2>2. DEFINE h == [i \in 1 .. k |->
                       IF i = k THEN IF i = 1 THEN s[i] ELSE g[i - 1] \o s[i]
                                ELSE g[i]]
  <2>3. ASSUME NEW i \in 1 .. k
        PROVE  h[i] = IF i = 1 THEN s[i] ELSE h[i - 1] \o s[i]
    <3>1. CASE i = 1
      <4>1. CASE i = k
        BY <3>1, <4>1
      <4>2. CASE i # k
        <5>1. i \in 1 .. k - 1
          BY <1>2, <4>2
        <5>2. g[i] = s[i]
          BY <2>1, <3>1, <5>1, JoinsAt
        <5>3. QED BY <3>1, <4>2, <5>2
      <4>3. QED BY <4>1, <4>2
    <3>2. CASE i # 1
      <4>1. i - 1 \in 1 .. k /\ i - 1 # k
        BY <1>2, <3>2
      <4>2. h[i - 1] = g[i - 1]
        BY <4>1
      <4>3. CASE i = k
        BY <3>2, <4>2, <4>3
      <4>4. CASE i # k
        <5>1. i \in 1 .. k - 1
          BY <1>2, <4>4
        <5>2. g[i] = IF i = 1 THEN s[i] ELSE g[i - 1] \o s[i]
          BY <2>1, <5>1, JoinsAt
        <5>3. QED BY <3>2, <4>2, <4>4, <5>2
      <4>5. QED BY <4>3, <4>4
    <3>3. QED BY <3>1, <3>2
  <2>4. Joins(h, s, k)
    BY <2>3 DEF Joins
  <2>5. QED BY <1>2, <2>4
<1>3. n \in T
  <2> HIDE DEF T
  <2>1. QED BY <1>1, <1>2, ByInduction
<1>4. QED BY <1>3

LEMMA FlattenJoins ==
  ASSUME NEW s, Len(s) \in Nat \ {0}
  PROVE  \E f : Joins(f, s, Len(s)) /\ FlattenSeq(s) = f[Len(s)]
<1> DEFINE f == CHOOSE g : Joins(g, s, Len(s))
<1>1. Joins(f, s, Len(s))
  BY JoinsExists
<1>2. FlattenSeq(s) = f[Len(s)]
  BY DEF FlattenSeq, Joins
<1>3. QED BY <1>1, <1>2

(* The first m of them are all that its first m values depend on.          *)
LEMMA JoinsSame ==
  ASSUME NEW s, NEW t, NEW f, NEW g, NEW m \in Nat, NEW n \in Nat,
         Joins(f, s, m), Joins(g, t, n), m <= n,
         \A i \in 1 .. m : t[i] = s[i]
  PROVE  \A i \in 1 .. m : g[i] = f[i]
<1> SUFFICES ASSUME NEW i \in 1 .. m PROVE g[i] = f[i]
  OBVIOUS
<1> DEFINE T == {k \in Nat : k \in 1 .. m => g[k] = f[k]}
<1>1. 0 \in T
  OBVIOUS
<1>2. ASSUME NEW k \in 1 .. i, k - 1 \in T
      PROVE  k \in T
  <2>1. /\ k \in 1 .. m /\ k \in 1 .. n /\ k \in Nat
        /\ k # 1 => k - 1 \in 1 .. m
    OBVIOUS
  <2>2. f[k] = IF k = 1 THEN s[k] ELSE f[k - 1] \o s[k]
    BY <2>1, JoinsAt
  <2>3. g[k] = IF k = 1 THEN t[k] ELSE g[k - 1] \o t[k]
    BY <2>1, JoinsAt
  <2>4. k # 1 => g[k - 1] = f[k - 1]
    BY <1>2, <2>1
  <2>5. g[k] = f[k]
    BY <2>1, <2>2, <2>3, <2>4
  <2>6. QED BY <2>1, <2>5
<1>3. i \in T
  <2>1. i \in Nat
    OBVIOUS
  <2> HIDE DEF T
  <2>2. QED BY <1>1, <1>2, <2>1, ByInduction
<1>4. QED BY <1>3

LEMMA FlattenType ==
  ASSUME NEW S, NEW s \in Seq(Seq(S))
  PROVE  FlattenSeq(s) \in Seq(S)
<1>1. CASE Len(s) = 0
  BY <1>1 DEF FlattenSeq
<1>2. CASE Len(s) # 0
  <2>1. Len(s) \in Nat \ {0}
    BY <1>2
  <2>2. PICK f : Joins(f, s, Len(s)) /\ FlattenSeq(s) = f[Len(s)]
    BY <2>1, FlattenJoins
  <2> DEFINE T == {k \in Nat : k \in 1 .. Len(s) => f[k] \in Seq(S)}
  <2>3. 0 \in T
    OBVIOUS
  <2>4. ASSUME NEW k \in 1 .. Len(s), k - 1 \in T
        PROVE  k \in T
    <3>1. s[k] \in Seq(S) /\ k \in Nat /\ (k # 1 => k - 1 \in 1 .. Len(s))
      BY <2>1
    <3>2. f[k] = IF k = 1 THEN s[k] ELSE f[k - 1] \o s[k]
      BY <2>2, JoinsAt
    <3>3. k # 1 => f[k - 1] \in Seq(S)
      BY <2>4, <3>1
    <3>4. f[k] \in Seq(S)
      BY <3>1, <3>2, <3>3, ConcatProperties
    <3>5. QED BY <3>1, <3>4
  <2>5. Len(s) \in T
    <3> HIDE DEF T
    <3>1. QED BY <2>1, <2>3, <2>4, ByInduction
  <2>6. QED BY <2>1, <2>2, <2>5
<1>3. QED BY <1>1, <1>2

(* One more sequence is put at the end.                                    *)
LEMMA FlattenAppend ==
  ASSUME NEW S, NEW s \in Seq(Seq(S)), NEW x \in Seq(S)
  PROVE  FlattenSeq(Append(s, x)) = FlattenSeq(s) \o x
<1> DEFINE t == Append(s, x)
<1>1. /\ t \in Seq(Seq(S)) /\ Len(t) = Len(s) + 1 /\ Len(s) \in Nat
      /\ \A i \in 1 .. Len(s) : t[i] = s[i]
      /\ t[Len(s) + 1] = x
  OBVIOUS
<1> HIDE DEF t
<1>2. Len(t) \in Nat \ {0} /\ Len(t) \in 1 .. Len(t) /\ Len(t) - 1 = Len(s)
  BY <1>1
<1>3. PICK g : Joins(g, t, Len(t)) /\ FlattenSeq(t) = g[Len(t)]
  BY <1>2, FlattenJoins
<1>4. g[Len(t)] = IF Len(t) = 1 THEN x ELSE g[Len(s)] \o x
  BY <1>1, <1>2, <1>3, JoinsAt
<1>5. CASE Len(s) = 0
  <2>1. FlattenSeq(s) = <<>>
    BY <1>5 DEF FlattenSeq
  <2>2. <<>> \o x = x
    BY ConcatEmptySeq
  <2>3. Len(t) = 1
    BY <1>1, <1>5
  <2>4. QED BY <1>3, <1>4, <2>1, <2>2, <2>3 DEF t
<1>6. CASE Len(s) # 0
  <2>1. /\ Len(s) \in Nat \ {0} /\ Len(s) <= Len(t) /\ Len(t) # 1
        /\ Len(s) \in 1 .. Len(s)
    BY <1>1, <1>6
  <2>2. PICK f : Joins(f, s, Len(s)) /\ FlattenSeq(s) = f[Len(s)]
    BY <2>1, FlattenJoins
  <2>3. \A i \in 1 .. Len(s) : g[i] = f[i]
    <3> DEFINE m == Len(s)
               n == Len(t)
    <3>1. m \in Nat /\ n \in Nat /\ m <= n
      BY <1>2, <2>1
    <3>2. Joins(f, s, m) /\ Joins(g, t, n)
      BY <1>3, <2>2, Zenon
    <3>3. \A i \in 1 .. m : t[i] = s[i]
      BY <1>1, Zenon
    <3> HIDE DEF m, n
    <3>4. \A i \in 1 .. m : g[i] = f[i]
      BY <3>1, <3>2, <3>3, JoinsSame, SMTT(30)
    <3>5. QED BY <3>4 DEF m
  <2>4. QED BY <1>3, <1>4, <2>1, <2>2, <2>3 DEF t
<1>7. QED BY <1>5, <1>6

(* Concatenation is associative.                                           *)
Associates(a, b, c) == (a \o b) \o c = a \o (b \o c)

LEMMA Associative == ASSUME NEW S PROVE \A a, b, c \in Seq(S) : Associates(a, b, c)
<1> SUFFICES ASSUME NEW a \in Seq(S), NEW b \in Seq(S), NEW c \in Seq(S)
             PROVE  (a \o b) \o c = a \o (b \o c)
  BY DEF Associates
<1> QED BY ConcatAssociative

(* t has one element more than s, in front.                                *)
OneMore(s, t) == Len(t) = Len(s) + 1 /\ \A i \in 1 .. Len(s) : t[i + 1] = s[i]

(* A sequence of sequences in a row, its first one taken apart.            *)
LEMMA FlattenFirst ==
  ASSUME NEW S, NEW s \in Seq(Seq(S)), NEW t \in Seq(Seq(S)), OneMore(s, t)
  PROVE  FlattenSeq(t) = t[1] \o FlattenSeq(s)
<1> DEFINE UpTo(q, k) == [i \in 1 .. k |-> q[i]]
<1>1. ASSUME NEW q \in Seq(Seq(S)), NEW k \in 1 .. Len(q)
      PROVE  /\ UpTo(q, k) \in Seq(Seq(S)) /\ FlattenSeq(UpTo(q, k)) \in Seq(S)
             /\ FlattenSeq(UpTo(q, k)) = FlattenSeq(UpTo(q, k - 1)) \o q[k]
  <2> DEFINE u == UpTo(q, k - 1)
             v == UpTo(q, k)
             x == q[k]
  <2>1. k \in Nat /\ k - 1 \in Nat /\ \A i \in 1 .. k : q[i] \in Seq(S)
    OBVIOUS
  <2>2. \A i \in 1 .. k - 1 : i \in 1 .. k
    OBVIOUS
  <2>3. u \in Seq(Seq(S)) /\ v \in Seq(Seq(S)) /\ x \in Seq(S)
    BY <2>1, <2>2, IsASeq
  <2>4. /\ Len(u) = k - 1 /\ Len(v) = k /\ v[k] = x
        /\ \A i \in 1 .. k - 1 : v[i] = u[i]
    BY <2>1, <2>2
  <2> HIDE DEF u, v, x, UpTo
  <2>5. v = Append(u, x)
    <3>1. /\ Append(u, x) \in Seq(Seq(S)) /\ Len(Append(u, x)) = k
          /\ Append(u, x)[k] = x
          /\ \A i \in 1 .. k - 1 : Append(u, x)[i] = u[i]
      <4>1. k - 1 + 1 = k
        BY <2>1
      <4>2. QED BY <2>3, <2>4, <4>1, AppendProperties
    <3>2. \A i \in 1 .. k : i = k \/ i \in 1 .. k - 1
      OBVIOUS
    <3>3. \A i \in 1 .. k : v[i] = Append(u, x)[i]
      BY <2>4, <3>1, <3>2
    <3>4. Len(v) = Len(Append(u, x)) /\ \A i \in 1 .. Len(v) : v[i] = Append(u, x)[i]
      BY <2>4, <3>1, <3>3
    <3>5. v \in Seq(Seq(S)) /\ Append(u, x) \in Seq(Seq(S))
      BY <2>3, <3>1
    <3>6. QED BY <3>4, <3>5, SeqEqual
  <2>6. FlattenSeq(v) = FlattenSeq(u) \o x /\ FlattenSeq(v) \in Seq(S)
    BY <2>3, <2>5, FlattenAppend, FlattenType
  <2>7. QED BY <2>3, <2>6 DEF u, v, x
<1>2. FlattenSeq(UpTo(s, 0)) = <<>> /\ FlattenSeq(UpTo(t, 0)) = <<>>
  BY DEF FlattenSeq
<1>3. /\ Len(s) \in Nat /\ Len(t) \in Nat /\ UpTo(s, Len(s)) = s
      /\ UpTo(t, Len(s) + 1) = t /\ 1 \in 1 .. Len(t) /\ t[1] \in Seq(S)
  BY DEF OneMore
<1> HIDE DEF UpTo
<1> DEFINE T == {k \in Nat : k <= Len(s) =>
                   /\ FlattenSeq(UpTo(s, k)) \in Seq(S)
                   /\ FlattenSeq(UpTo(t, k + 1)) =
                        t[1] \o FlattenSeq(UpTo(s, k))}
<1>4. 0 \in T
  <2>1. FlattenSeq(UpTo(t, 1)) = FlattenSeq(UpTo(t, 1 - 1)) \o t[1]
    BY <1>1, <1>3
  <2>2. 1 - 1 = 0 /\ 0 + 1 = 1 /\ <<>> \in Seq(S)
    OBVIOUS
  <2>3. <<>> \o t[1] = t[1] /\ t[1] \o <<>> = t[1]
    BY <1>3, ConcatEmptySeq
  <2>4. QED BY <1>2, <2>1, <2>2, <2>3
<1>5. ASSUME NEW k \in 1 .. Len(s), k - 1 \in T PROVE k \in T
  <2>1. /\ k \in Nat /\ k - 1 <= Len(s) /\ (k - 1) + 1 = k
        /\ k + 1 \in 1 .. Len(t) /\ (k + 1) - 1 = k /\ s[k] \in Seq(S)
        /\ t[k + 1] = s[k]
    BY <1>3, SMTT(30) DEF OneMore
  <2>2. /\ FlattenSeq(UpTo(s, k - 1)) \in Seq(S)
        /\ FlattenSeq(UpTo(t, k)) = t[1] \o FlattenSeq(UpTo(s, k - 1))
    BY <1>5, <2>1
  <2>3. /\ FlattenSeq(UpTo(s, k)) \in Seq(S)
        /\ FlattenSeq(UpTo(s, k)) = FlattenSeq(UpTo(s, k - 1)) \o s[k]
    BY <1>1
  <2>4. FlattenSeq(UpTo(t, k + 1)) = FlattenSeq(UpTo(t, k)) \o s[k]
    <3> DEFINE h == k + 1
    <3>1. h \in 1 .. Len(t) /\ h - 1 = k /\ t[h] = s[k]
      BY <2>1
    <3> HIDE DEF h
    <3>2. FlattenSeq(UpTo(t, h)) = FlattenSeq(UpTo(t, h - 1)) \o t[h]
      BY <1>1, <3>1
    <3>3. QED BY <3>1, <3>2 DEF h
  <2> DEFINE a == FlattenSeq(UpTo(s, k - 1))
  <2>5. (t[1] \o a) \o s[k] = t[1] \o (a \o s[k])
    <3> DEFINE x == t[1]
               y == s[k]
    <3>1. a \in Seq(S) /\ x \in Seq(S) /\ y \in Seq(S)
      BY <1>3, <2>1, <2>2
    <3> HIDE DEF a, x, y
    <3>2. Associates(x, a, y)
      BY <3>1, Associative
    <3>3. QED BY <3>2, Zenon DEF Associates, x, y
  <2>6. QED BY <2>1, <2>2, <2>3, <2>4, <2>5
<1> HIDE DEF T
<1>6. Len(s) \in T
  BY <1>3, <1>4, <1>5, ByInduction
<1>7. QED BY <1>3, <1>6 DEF T

(* A window of a sequence, from behind m up to n.                          *)
LEMMA Window ==
  ASSUME NEW S, NEW v \in Seq(S), NEW m \in Nat, NEW n \in Nat,
         m <= n, n <= Len(v)
  PROVE  /\ SubSeq(v, m + 1, n) \in Seq(S)
         /\ Len(SubSeq(v, m + 1, n)) = n - m
         /\ \A i \in 1 .. n - m : SubSeq(v, m + 1, n)[i] = v[m + i]
<1> DEFINE w == SubSeq(v, m + 1, n)
<1>1. m + 1 \in Int /\ n \in Int /\ \A i \in m + 1 .. n : v[i] \in S
  OBVIOUS
<1>2. /\ w \in Seq(S)
      /\ Len(w) = IF m + 1 <= n THEN n - (m + 1) + 1 ELSE 0
      /\ \A i \in 1 .. n - (m + 1) + 1 : w[i] = v[m + 1 + i - 1]
  BY <1>1, SubSeqProperties
<1> HIDE DEF w
<1>3. Len(w) = n - m
  BY <1>2
<1>4. ASSUME NEW i \in 1 .. n - m PROVE w[i] = v[m + i]
  <2>1. i \in 1 .. n - (m + 1) + 1 /\ m + 1 + i - 1 = m + i
    OBVIOUS
  <2>2. w[i] = v[m + 1 + i - 1]
    BY <1>2, <2>1
  <2>3. QED BY <2>1, <2>2
<1>5. QED BY <1>2, <1>3, <1>4 DEF w

(* Two windows that meet, and a sequence in two parts.                     *)
LEMMA WindowsMeet ==
  ASSUME NEW S, NEW v \in Seq(S), NEW l \in Nat, NEW m \in Nat, NEW n \in Nat,
         l <= m, m <= n, n <= Len(v)
  PROVE  SubSeq(v, l + 1, m) \o SubSeq(v, m + 1, n) = SubSeq(v, l + 1, n)
<1>1. /\ l + 1 \in 1 .. Len(v) + 1 /\ m \in (l + 1) - 1 .. Len(v)
      /\ n \in m .. Len(v)
  OBVIOUS
<1>2. QED BY <1>1, ConcatAdjacentSubSeq

LEMMA InTwo ==
  ASSUME NEW S, NEW v \in Seq(S), NEW n \in Nat, n <= Len(v)
  PROVE  v = SubSeq(v, 1, n) \o SubSeq(v, n + 1, Len(v))
<1>1. /\ 1 \in 1 .. Len(v) + 1 /\ n \in 1 - 1 .. Len(v)
      /\ Len(v) \in n .. Len(v)
  OBVIOUS
<1>2. SubSeq(v, 1, n) \o SubSeq(v, n + 1, Len(v)) = SubSeq(v, 1, Len(v))
  BY <1>1, ConcatAdjacentSubSeq
<1>3. SubSeq(v, 1, Len(v)) = v
  BY SubSeqFull
<1>4. QED BY <1>2, <1>3, Zenon

(* What is in front of a concatenation is its beginning.                   *)
LEMMA FrontOf ==
  ASSUME NEW S, NEW a \in Seq(S), NEW b \in Seq(S)
  PROVE  SubSeq(a \o b, 1, Len(a)) = a
<1>1. a \o b \in Seq(S) /\ Len(a) \in Nat /\ Len(a) <= Len(a \o b)
  BY ConcatProperties
<1> DEFINE w == SubSeq(a \o b, 0 + 1, Len(a))
<1>2. /\ w \in Seq(S) /\ Len(w) = Len(a) - 0
      /\ \A i \in 1 .. Len(a) - 0 : w[i] = (a \o b)[0 + i]
  BY <1>1, Window
<1> HIDE DEF w
<1>3. ASSUME NEW i \in 1 .. Len(a) PROVE w[i] = a[i]
  <2>1. i \in 1 .. Len(a) - 0 /\ 0 + i = i
    OBVIOUS
  <2>2. w[i] = (a \o b)[i]
    BY <1>2, <2>1
  <2>3. i \in 1 .. Len(a) + Len(b) /\ i <= Len(a)
    BY <1>1
  <2>4. (a \o b)[i] = a[i]
    BY <2>3, ConcatProperties
  <2>5. QED BY <2>2, <2>4
<1>4. Len(w) = Len(a) /\ \A i \in 1 .. Len(w) : w[i] = a[i]
  BY <1>1, <1>2, <1>3
<1>5. w = a
  BY <1>2, <1>4, SeqEqual
<1>6. QED BY <1>5 DEF w

LEMMA Beginning ==
  ASSUME NEW S, NEW a \in Seq(S), NEW b \in Seq(S)
  PROVE  IsPrefix(a, a \o b)
<1>1. Len(a) <= Len(a \o b)
  BY ConcatProperties
<1>2. SubSeq(a \o b, 1, Len(a)) = a /\ SubSeq(a, 1, Len(a)) = a
  BY FrontOf, SubSeqFull
<1>3. QED BY <1>1, <1>2 DEF IsPrefix

(* The beginning of a window is a window.                                  *)
LEMMA FrontOfWindow ==
  ASSUME NEW S, NEW v \in Seq(S), NEW m \in Nat, NEW n \in Nat, NEW k \in Nat,
         m + k <= n, n <= Len(v)
  PROVE  SubSeq(SubSeq(v, m + 1, n), 1, k) = SubSeq(v, m + 1, m + k)
<1> DEFINE u == SubSeq(v, m + 1, n)
           a == SubSeq(v, m + 1, m + k)
           b == SubSeq(v, m + k + 1, n)
<1>1. /\ m + k \in Nat /\ m <= m + k /\ m + k - m = k /\ m <= n
      /\ m + k <= Len(v)
  OBVIOUS
<1>2. a \in Seq(S) /\ Len(a) = m + k - m /\ b \in Seq(S)
  BY <1>1, Window
<1>3. a \o b = u
  BY <1>1, WindowsMeet
<1> HIDE DEF u, a, b
<1>4. SubSeq(a \o b, 1, Len(a)) = a
  BY <1>2, FrontOf
<1>5. SubSeq(u, 1, k) = a
  BY <1>1, <1>2, <1>3, <1>4, Zenon
<1>6. QED BY <1>5 DEF u, a

=============================================================================
