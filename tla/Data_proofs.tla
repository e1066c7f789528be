---------------------------- MODULE Data_proofs ----------------------------
(***************************************************************************)
(* Facts about numbers, finite sets and recursive definitions that the     *)
(* proofs about the modules share.  Induction is over the least            *)
(* counterexample, and every fact is about sets and functions, so that it  *)
(* can be cited for any data.                                              *)
(***************************************************************************)
EXTENDS Integers, Sequences, FiniteSets, Functions, FiniteSetTheorems, TLAPS

LessThan == OpToRel(<, Nat)

\* Every set of natural numbers that is not empty has a least element.
LEMMA LeastNat ==
  ASSUME NEW T, T \subseteq Nat, T # {}
  PROVE  \E x \in T : \A y \in T : x <= y
<1>1. IsWellFoundedOn(LessThan, Nat)
  BY NatLessThanWellFounded DEF LessThan
<1>2. PICK x \in T : \A y \in T : <<y, x>> \notin LessThan
  BY <1>1, WFMin, Zenon
<1>3. \A m, n \in Nat : <<m, n>> \in LessThan <=> m < n
  BY DEF LessThan, OpToRel
<1>4. \A y \in T : ~(y < x)
  BY <1>2, <1>3
<1> QED
  BY <1>4

\* What holds of 0, and of a number's successor with the number, holds of all.
LEMMA Stepwise ==
  ASSUME NEW S, 0 \in S, \A n \in Nat : n \in S => n + 1 \in S
  PROVE  Nat \subseteq S
<1> SUFFICES ASSUME Nat \ S # {} PROVE FALSE
  OBVIOUS
<1>1. PICK n \in Nat \ S : \A m \in Nat \ S : n <= m
  <2>1. Nat \ S \subseteq Nat
    OBVIOUS
  <2> QED
    BY <2>1, LeastNat
<1>2. n - 1 \in Nat \ S /\ n - 1 < n
  BY <1>1
<1> QED
  BY <1>1, <1>2

\* pick takes an element out of each set that is not empty.
Picks(D, pick) == \A s \in SUBSET D : s # {} => pick[s] \in s

\* g and h agree on a set whenever they agree on what is left of it without that element.
AgreeByRemoval(D, pick, g, h) ==
  /\ g[{}] = h[{}]
  /\ \A s \in SUBSET D : s # {} /\ g[s \ {pick[s]}] = h[s \ {pick[s]}] => g[s] = h[s]

\* Two functions that agree on a finite set whenever they agree on what is left of it
\* after one element is taken out agree everywhere.
LEMMA SameByRemoval ==
  ASSUME NEW D, IsFiniteSet(D), NEW pick, Picks(D, pick),
         NEW g, NEW h, AgreeByRemoval(D, pick, g, h)
  PROVE  \A s \in SUBSET D : g[s] = h[s]
<1> USE DEF Picks, AgreeByRemoval
<1> DEFINE Bad == {s \in SUBSET D : g[s] # h[s]}
           Sizes == {Cardinality(s) : s \in Bad}
<1>1. \A s \in SUBSET D : IsFiniteSet(s) /\ Cardinality(s) \in Nat
  BY FS_Subset, FS_CardinalityType
<1>2. SUFFICES ASSUME Bad # {} PROVE FALSE
  OBVIOUS
<1>3. Sizes \subseteq Nat /\ Sizes # {}
  BY <1>1, <1>2
<1>4. PICK n \in Sizes : \A m \in Sizes : n <= m
  <2> HIDE DEF Sizes
  <2> QED
    BY <1>3, LeastNat
<1>5. PICK s \in Bad : \A t \in Bad : Cardinality(s) <= Cardinality(t)
  BY <1>4
<1>6. s \in SUBSET D /\ s # {} /\ pick[s] \in s
  OBVIOUS
<1>7. s \ {pick[s]} \in Bad
  BY <1>6
<1>8. Cardinality(s \ {pick[s]}) = Cardinality(s) - 1
  BY <1>1, <1>6, FS_RemoveElement
<1> QED
  BY <1>1, <1>5, <1>6, <1>7, <1>8

\* h takes the elements of a set one by one, and makes a step with each.
Folds(D, V, base, step, pick, h) ==
  /\ h \in [SUBSET D -> V]
  /\ h = [s \in SUBSET D |-> IF s = {} THEN base ELSE step[<<h[s \ {pick[s]}], pick[s]>>]]

\* A value can be built up by taking the elements of a finite set one by one.
LEMMA FoldRecursion ==
  ASSUME NEW D, IsFiniteSet(D), NEW V, NEW base \in V, NEW step \in [V \X D -> V],
         NEW pick, Picks(D, pick)
  PROVE  \E h : Folds(D, V, base, step, pick, h)
<1> USE DEF Picks, Folds
<1> DEFINE Next(h) == [s \in SUBSET D |->
                         IF s = {} THEN base ELSE step[<<h[s \ {pick[s]}], pick[s]>>]]
           Upto(h, n) == \A s \in SUBSET D : Cardinality(s) <= n => h[s] = Next(h)[s]
           S == {n \in Nat : \E h \in [SUBSET D -> V] : Upto(h, n)}
<1>1. \A s \in SUBSET D : IsFiniteSet(s) /\ Cardinality(s) \in Nat
  BY FS_Subset, FS_CardinalityType
<1>2. \A s \in SUBSET D : s # {} => Cardinality(s \ {pick[s]}) = Cardinality(s) - 1
  BY <1>1, FS_RemoveElement
<1>3. \A s \in SUBSET D : s # {} => Cardinality(s) # 0
  BY <1>1, FS_EmptySet
<1>4. ASSUME NEW h \in [SUBSET D -> V]
      PROVE  Next(h) \in [SUBSET D -> V]
  BY <1>4
<1>5. 0 \in S
  <2>1. [s \in SUBSET D |-> base] \in [SUBSET D -> V]
    OBVIOUS
  <2>2. Upto([s \in SUBSET D |-> base], 0)
    BY <1>1, <1>3
  <2> QED
    BY <2>1, <2>2
<1>6. ASSUME NEW n \in Nat, n \in S
      PROVE  n + 1 \in S
  <2>1. PICK h \in [SUBSET D -> V] : Upto(h, n)
    BY <1>6
  <2>2. ASSUME NEW s \in SUBSET D, Cardinality(s) <= n + 1
        PROVE  Next(h)[s] = Next(Next(h))[s]
    <3>1. CASE s = {}
      BY <3>1
    <3>2. CASE s # {}
      <4> DEFINE rest == s \ {pick[s]}
      <4>1. rest \in SUBSET D /\ Cardinality(rest) <= n
        BY <1>1, <1>2, <2>2, <3>2
      <4>2. h[rest] = Next(h)[rest]
        BY <2>1, <4>1
      <4>3. /\ Next(h)[s] = step[<<h[rest], pick[s]>>]
            /\ Next(Next(h))[s] = step[<<Next(h)[rest], pick[s]>>]
        BY <3>2
      <4> QED
        BY <4>2, <4>3
    <3> QED
      BY <3>1, <3>2
  <2>3. Next(h) \in [SUBSET D -> V] /\ Upto(Next(h), n + 1)
    BY <1>4, <2>2
  <2> HIDE DEF Next, Upto
  <2>4. n + 1 \in Nat /\ \E k \in [SUBSET D -> V] : Upto(k, n + 1)
    BY <2>3
  <2> QED
    BY <2>4
<1>7. Nat \subseteq S
  <2> HIDE DEF S
  <2> QED
    BY <1>5, <1>6, Stepwise
<1>8. Cardinality(D) \in S
  BY <1>1, <1>7
<1>9. PICK h \in [SUBSET D -> V] : Upto(h, Cardinality(D))
  BY <1>8
<1>10. \A s \in SUBSET D : Cardinality(s) <= Cardinality(D)
  BY FS_Subset
<1>11. h = Next(h)
  BY <1>4, <1>9, <1>10
<1> QED
  BY <1>11

-----------------------------------------------------------------------------
(* Sums *)

\* As many tokens as the numbers of S add up to.
Tokens(f, S) == {t \in S \X Nat : t[2] \in 1..f[t[1]]}

\* One more index brings as many tokens as its number says.
LEMMA TokensAdd ==
  ASSUME NEW D, NEW f \in [D -> Nat], NEW S \in SUBSET D, NEW x \in D \ S,
         IsFiniteSet(Tokens(f, S))
  PROVE  /\ IsFiniteSet(Tokens(f, S \cup {x}))
         /\ Cardinality(Tokens(f, S \cup {x})) = Cardinality(Tokens(f, S)) + f[x]
<1> DEFINE More == {x} \X (1..f[x])
<1>1. Tokens(f, S \cup {x}) = Tokens(f, S) \cup More /\ Tokens(f, S) \cap More = {}
  <2>1. 1..f[x] \subseteq Nat
    OBVIOUS
  <2> QED
    BY <2>1 DEF Tokens
<1>2. IsFiniteSet(1..f[x]) /\ Cardinality(1..f[x]) = f[x]
  BY FS_Interval
<1>3. IsFiniteSet({x}) /\ Cardinality({x}) = 1
  BY FS_Singleton
<1>4. IsFiniteSet(More) /\ Cardinality(More) = f[x]
  <2>1. IsFiniteSet(More) /\ Cardinality(More) = Cardinality({x}) * Cardinality(1..f[x])
    BY <1>2, <1>3, FS_Product
  <2> QED
    BY <1>2, <1>3, <2>1
<1>5. Cardinality({}) = 0 /\ Cardinality(Tokens(f, S)) \in Nat
  BY FS_EmptySet, FS_CardinalityType
<1>6. IsFiniteSet(Tokens(f, S) \cup More)
  BY <1>4, FS_Union
<1>7. /\ Cardinality(Tokens(f, S) \cup More)
           = Cardinality(Tokens(f, S)) + Cardinality(More) - Cardinality(Tokens(f, S) \cap More)
  BY <1>4, FS_Union
<1>8. f[x] \in Nat
  OBVIOUS
<1> HIDE DEF More
<1>9. Cardinality(Tokens(f, S) \cap More) = 0
  BY <1>1, <1>5
<1>10. Cardinality(Tokens(f, S) \cup More) = Cardinality(Tokens(f, S)) + f[x]
  BY <1>4, <1>5, <1>7, <1>8, <1>9
<1> QED
  BY <1>1, <1>6, <1>10, Zenon

\* The tokens of finitely many indices are finitely many.
LEMMA TokensFinite ==
  ASSUME NEW D, NEW f \in [D -> Nat], NEW S \in SUBSET D, IsFiniteSet(S)
  PROVE  IsFiniteSet(Tokens(f, S))
<1> DEFINE g == [s \in SUBSET S |-> IsFiniteSet(Tokens(f, s))]
           h == [s \in SUBSET S |-> TRUE]
           pick == [s \in SUBSET S |-> CHOOSE x \in s : TRUE]
<1>1. Tokens(f, {}) = {}
  BY DEF Tokens
<1>2. g[{}] = h[{}]
  BY <1>1, FS_EmptySet
<1>3. Picks(S, pick)
  BY DEF Picks
<1>4. ASSUME NEW s \in SUBSET S, s # {}, g[s \ {pick[s]}] = h[s \ {pick[s]}]
      PROVE  g[s] = h[s]
  <2>1. pick[s] \in D \ (s \ {pick[s]}) /\ s = (s \ {pick[s]}) \cup {pick[s]}
    BY <1>3, <1>4 DEF Picks
  <2>2. IsFiniteSet(Tokens(f, s \ {pick[s]}))
    BY <1>4
  <2> HIDE DEF pick
  <2>3. IsFiniteSet(Tokens(f, (s \ {pick[s]}) \cup {pick[s]}))
    BY <2>1, <2>2, TokensAdd
  <2> QED
    BY <2>1, <2>3
<1>5. \A s \in SUBSET S : g[s] = h[s]
  <2> HIDE DEF g, h, pick
  <2>1. AgreeByRemoval(S, pick, g, h)
    BY <1>2, <1>4 DEF AgreeByRemoval
  <2> QED
    BY <1>3, <2>1, SameByRemoval
<1> QED
  BY <1>5

\* A sum counts the tokens of its indices.
LEMMA SumCountsTokens ==
  ASSUME NEW D, NEW f \in [D -> Nat], NEW S \in SUBSET D, IsFiniteSet(S)
  PROVE  SumFunctionOnSet(f, S) = Cardinality(Tokens(f, S))
<1> DEFINE pick == [s \in SUBSET S |-> CHOOSE x \in s : TRUE]
           count == [s \in SUBSET S |-> Cardinality(Tokens(f, s))]
           Sums(h) == h = [s \in SUBSET S |->
                             IF s = {} THEN 0
                             ELSE f[CHOOSE x \in s : TRUE] + h[s \ {CHOOSE x \in s : TRUE}]]
           sum == CHOOSE h : Sums(h)
<1>1. SumFunctionOnSet(f, S) = sum[S]
  BY DEF SumFunctionOnSet, FoldFunctionOnSet, MapThenFoldSet
<1>2. Picks(S, pick)
  BY DEF Picks
<1>3. count[{}] = 0
  <2>1. Tokens(f, {}) = {}
    BY DEF Tokens
  <2> QED
    BY <2>1, FS_EmptySet
<1>4. ASSUME NEW s \in SUBSET S, s # {}
      PROVE  count[s] = f[pick[s]] + count[s \ {pick[s]}]
  <2> DEFINE rest == s \ {pick[s]}
  <2>1. rest \in SUBSET S /\ pick[s] \in D \ rest /\ s = rest \cup {pick[s]}
    BY <1>2, <1>4 DEF Picks
  <2>2. IsFiniteSet(rest)
    BY <2>1, FS_Subset
  <2>3. IsFiniteSet(Tokens(f, rest))
    BY <2>1, <2>2, TokensFinite
  <2>4. Cardinality(Tokens(f, rest)) \in Nat
    BY <2>3, FS_CardinalityType
  <2>5. Cardinality(Tokens(f, rest \cup {pick[s]})) = Cardinality(Tokens(f, rest)) + f[pick[s]]
    <3> HIDE DEF rest, pick
    <3> QED
      BY <2>1, <2>3, TokensAdd
  <2>6. f[pick[s]] \in Nat
    BY <2>1
  <2>7. count[s] = Cardinality(Tokens(f, rest \cup {pick[s]}))
    BY <2>1
  <2>8. count[rest] = Cardinality(Tokens(f, rest))
    BY <2>1
  <2> HIDE DEF count, pick
  <2> QED
    BY <2>4, <2>5, <2>6, <2>7, <2>8
<1>5. Sums(count)
  BY <1>3, <1>4
<1>6. Sums(sum)
  <2> HIDE DEF Sums, count
  <2> QED
    BY <1>5
<1>7. /\ sum[{}] = 0
      /\ \A s \in SUBSET S : s # {} => sum[s] = f[pick[s]] + sum[s \ {pick[s]}]
  <2> HIDE DEF sum
  <2> QED
    BY <1>6
<1>8. \A s \in SUBSET S : sum[s] = count[s]
  <2> HIDE DEF sum, count, pick
  <2>1. AgreeByRemoval(S, pick, sum, count)
    BY <1>3, <1>4, <1>7 DEF AgreeByRemoval
  <2> HIDE DEF Sums
  <2> QED
    BY <1>2, <2>1, SameByRemoval
<1> QED
  BY <1>1, <1>8

\* A sum grows by the number of the index that is added, and is 0 over no index.
LEMMA SumAdd ==
  ASSUME NEW D, NEW f \in [D -> Nat], NEW S \in SUBSET D, NEW x \in D \ S, IsFiniteSet(S)
  PROVE  /\ SumFunctionOnSet(f, S) \in Nat
         /\ SumFunctionOnSet(f, S \cup {x}) = SumFunctionOnSet(f, S) + f[x]
<1>1. IsFiniteSet(S \cup {x}) /\ S \cup {x} \in SUBSET D
  BY FS_AddElement
<1>2. IsFiniteSet(Tokens(f, S))
  BY TokensFinite
<1>3. /\ SumFunctionOnSet(f, S) = Cardinality(Tokens(f, S))
      /\ SumFunctionOnSet(f, S \cup {x}) = Cardinality(Tokens(f, S \cup {x}))
  BY <1>1, SumCountsTokens
<1> QED
  BY <1>2, <1>3, TokensAdd, FS_CardinalityType

LEMMA SumOfNone ==
  ASSUME NEW D, NEW f \in [D -> Nat]
  PROVE  SumFunctionOnSet(f, {}) = 0
<1>1. Tokens(f, {}) = {}
  BY DEF Tokens
<1> QED
  BY <1>1, SumCountsTokens, FS_EmptySet

-----------------------------------------------------------------------------
(* Counting what a sequence holds *)

\* The places of l in a sequence.
Places(w, l) == {i \in DOMAIN w : w[i] = l}

\* What a sequence holds has a last place in it.
LEMMA LastPlace ==
  ASSUME NEW X, NEW w \in Seq(X), NEW l, Places(w, l) # {}
  PROVE  \E n \in DOMAIN w : w[n] = l /\ \A m \in DOMAIN w : w[m] = l => m <= n
<1> DEFINE T == {k \in 0..Len(w) : Len(w) - k \in DOMAIN w /\ w[Len(w) - k] = l}
<1>0. Len(w) \in Nat /\ DOMAIN w = 1..Len(w)
  OBVIOUS
<1>1. T \subseteq Nat /\ T # {}
  <2>1. PICK i \in 1..Len(w) : w[i] = l
    BY <1>0 DEF Places
  <2>2. PICK k \in 0..Len(w) : Len(w) - k = i
    <3>1. Len(w) - i \in 0..Len(w) /\ Len(w) - (Len(w) - i) = i
      BY <1>0
    <3> QED
      BY <3>1
  <2>3. k \in T
    BY <1>0, <2>1, <2>2
  <2>4. T \subseteq Nat
    BY <1>0
  <2> QED
    BY <2>3, <2>4
<1>2. PICK k \in T : \A j \in T : k <= j
  <2> HIDE DEF T
  <2> QED
    BY <1>1, LeastNat
<1>3. /\ Len(w) - k \in DOMAIN w /\ w[Len(w) - k] = l
      /\ \A m \in DOMAIN w : w[m] = l => m <= Len(w) - k
  <2>1. ASSUME NEW m \in DOMAIN w, w[m] = l
        PROVE  m <= Len(w) - k
    <3>1. Len(w) - m \in T
      BY <1>0, <2>1
    <3> QED
      BY <1>0, <1>2, <3>1
  <2> QED
    BY <1>2, <2>1
<1> QED
  BY <1>3

\* A sequence has finitely many places.
LEMMA PlacesFinite ==
  ASSUME NEW X, NEW w \in Seq(X), NEW l
  PROVE  IsFiniteSet(Places(w, l)) /\ Cardinality(Places(w, l)) \in Nat
<1>1. Len(w) \in Nat /\ DOMAIN w = 1..Len(w)
  OBVIOUS
<1>2. IsFiniteSet(1..Len(w))
  BY <1>1, FS_Interval
<1>3. Places(w, l) \in SUBSET (1..Len(w))
  BY <1>1 DEF Places
<1> QED
  BY <1>2, <1>3, FS_Subset, FS_CardinalityType

\* A prefix holds no more of l than the sequence, and all of it if it has the last place.
LEMMA PartCounts ==
  ASSUME NEW X, NEW w \in Seq(X), NEW n \in DOMAIN w, NEW l
  PROVE  LET part == Cardinality(Places(SubSeq(w, 1, n), l))
             whole == Cardinality(Places(w, l)) IN
         /\ part \in Nat /\ whole \in Nat /\ part <= whole
         /\ (\A m \in DOMAIN w : w[m] = l => m <= n) => part = whole
<1> DEFINE part == {i \in 1..n : w[i] = l}
           whole == Places(w, l)
<1>1. Len(w) \in Nat /\ DOMAIN w = 1..Len(w) /\ n \in 1..Len(w)
  OBVIOUS
<1>2. DOMAIN SubSeq(w, 1, n) = 1..n /\ \A i \in 1..n : SubSeq(w, 1, n)[i] = w[i]
  BY <1>1
<1>3. Places(SubSeq(w, 1, n), l) = part
  BY <1>2 DEF Places
<1>4. IsFiniteSet(whole) /\ part \subseteq whole
  <2>1. IsFiniteSet(whole)
    BY PlacesFinite
  <2>2. part \subseteq whole
    BY <1>1 DEF Places
  <2> QED
    BY <2>1, <2>2
<1>5. (\A m \in DOMAIN w : w[m] = l => m <= n) => part = whole
  BY <1>1 DEF Places
<1> HIDE DEF part, whole
<1>6. IsFiniteSet(part) /\ Cardinality(part) <= Cardinality(whole)
  BY <1>4, FS_Subset
<1> QED
  BY <1>3, <1>4, <1>5, <1>6, FS_CardinalityType DEF whole

\* Counting up to each place, and refusing what is one too many there, is the same as
\* comparing all the counts: the last place of l has counted all of them.
LEMMA CountedWithin ==
  ASSUME NEW X, NEW w \in Seq(X), NEW limit \in [X -> Nat]
  PROVE  (\A n \in DOMAIN w : Cardinality(Places(SubSeq(w, 1, n), w[n])) <= limit[w[n]])
           <=> (\A l \in X : Cardinality(Places(w, l)) <= limit[l])
<1>1. \A n \in DOMAIN w : w[n] \in X
  OBVIOUS
<1>2. ASSUME \A l \in X : Cardinality(Places(w, l)) <= limit[l], NEW n \in DOMAIN w
      PROVE  Cardinality(Places(SubSeq(w, 1, n), w[n])) <= limit[w[n]]
  <2> DEFINE part == Cardinality(Places(SubSeq(w, 1, n), w[n]))
             whole == Cardinality(Places(w, w[n]))
  <2>1. part \in Nat /\ whole \in Nat /\ part <= whole
    BY PartCounts
  <2>2. whole <= limit[w[n]] /\ limit[w[n]] \in Nat
    BY <1>1, <1>2
  <2> HIDE DEF part, whole
  <2>3. part <= limit[w[n]]
    BY <2>1, <2>2
  <2> QED
    BY <2>3 DEF part
<1>3. ASSUME \A n \in DOMAIN w : Cardinality(Places(SubSeq(w, 1, n), w[n])) <= limit[w[n]],
             NEW l \in X
      PROVE  Cardinality(Places(w, l)) <= limit[l]
  <2>1. CASE Places(w, l) = {}
    <3>1. Cardinality(Places(w, l)) = 0
      BY <2>1, FS_EmptySet
    <3> QED
      BY <3>1
  <2>2. CASE Places(w, l) # {}
    <3>1. PICK n \in DOMAIN w : w[n] = l /\ \A m \in DOMAIN w : w[m] = l => m <= n
      BY <2>2, LastPlace
    <3>2. Cardinality(Places(SubSeq(w, 1, n), l)) = Cardinality(Places(w, l))
      BY <3>1, PartCounts
    <3> QED
      BY <1>3, <3>1, <3>2
  <2> QED
    BY <2>1, <2>2
<1> QED
  BY <1>2, <1>3
=============================================================================
