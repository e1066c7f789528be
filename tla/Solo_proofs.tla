---------------------------- MODULE Solo_proofs ----------------------------
(***************************************************************************)
(* Theorems about Solo and the boards it is built on, for every alphabet,  *)
(* dictionary, set of grids, configured size and bound on the tries.       *)
(*                                                                         *)
(* The folds of the model are unfolded step by step, so that the size that *)
(* is read, the trie that is built and the paths of a word are told place  *)
(* by place.  The trie names a node by the letters on the way to it; the   *)
(* search of a grid has fewer free cells with every call, and finds the    *)
(* words that lie before it.  The invariant of the loop then relates the   *)
(* best board to all the boards that were drawn.                           *)
(***************************************************************************)
EXTENDS Solo, Data_proofs, SequenceTheorems

-----------------------------------------------------------------------------
(* Folding a sequence *)

\* Of a finite set of places that is not empty, Max takes one.
LEMMA MaxTakesOne ==
  ASSUME NEW n \in Nat, NEW s \in SUBSET (1..n), s # {}
  PROVE  Max(s) \in s
<1> DEFINE T == {k \in 0..n : n - k \in s}
<1>1. T \subseteq Nat /\ T # {}
  <2>1. PICK x \in s : TRUE
    OBVIOUS
  <2>2. x \in Int /\ n - x \in 0..n /\ n - (n - x) = x
    OBVIOUS
  <2>3. n - x \in T
    BY <2>2
  <2>4. T \subseteq Nat
    OBVIOUS
  <2> HIDE DEF T
  <2> QED
    BY <2>3, <2>4
<1>2. PICK k \in T : \A j \in T : k <= j
  <2> HIDE DEF T
  <2> QED
    BY <1>1, LeastNat
<1>3. n - k \in s /\ \A y \in s : n - k >= y
  <2>1. ASSUME NEW y \in s PROVE n - k >= y
    <3>1. n - y \in T
      OBVIOUS
    <3> QED
      BY <1>2, <3>1
  <2> QED
    BY <1>2, <2>1
<1> QED
  BY <1>3 DEF Max

\* Taking the largest place out of a prefix leaves the prefix that is one shorter.
LEMMA TopOfPrefix ==
  ASSUME NEW k \in Nat \ {0}
  PROVE  Max(1..k) = k /\ (1..k) \ {k} = 1..(k - 1)
<1>1. k \in 1..k /\ \A y \in 1..k : k >= y
  OBVIOUS
<1>2. \A x \in 1..k : (\A y \in 1..k : x >= y) => x = k
  BY <1>1
<1> QED
  BY <1>1, <1>2 DEF Max

\* What FoldLeft does with the places of a sequence, the largest of them last.
FoldsPlaces(n, V, base, step, h) ==
  /\ h \in [SUBSET (1..n) -> V]
  /\ h = [s \in SUBSET (1..n) |-> IF s = {} THEN base ELSE step[<<h[s \ {Max(s)}], Max(s)>>]]

\* There is a function that does so.
LEMMA FoldExists ==
  ASSUME NEW n \in Nat, NEW V, NEW base \in V, NEW step \in [V \X (1..n) -> V]
  PROVE  \E h : FoldsPlaces(n, V, base, step, h)
<1> DEFINE D == 1..n
           pick == [s \in SUBSET D |-> Max(s)]
<1>1. IsFiniteSet(D)
  BY FS_Interval
<1>2. Picks(D, pick)
  BY MaxTakesOne DEF Picks
<1>3. PICK h : Folds(D, V, base, step, pick, h)
  <2>1. step \in [V \X D -> V]
    OBVIOUS
  <2> HIDE DEF pick, D
  <2> QED
    BY <1>1, <1>2, <2>1, FoldRecursion
<1>4. FoldsPlaces(n, V, base, step, h)
  BY <1>3 DEF Folds, FoldsPlaces
<1> QED
  BY <1>4

\* fold makes the steps as long as what it has built is in V.
Follows(n, V, base, step, fold) ==
  /\ fold[{}] = base
  /\ \A s \in SUBSET (1..n) :
       s # {} /\ fold[s \ {Max(s)}] \in V => fold[s] = step[<<fold[s \ {Max(s)}], Max(s)>>]

\* g is what fold has built of each prefix.
Steps(n, V, base, step, fold, g) ==
  /\ g \in [0..n -> V] /\ g[0] = base /\ \A k \in 1..n : g[k] = step[<<g[k - 1], k>>]
  /\ fold[1..n] = g[n]

\* What is built of the places of a sequence is built prefix by prefix.
LEMMA FoldSteps ==
  ASSUME NEW n \in Nat, NEW V, NEW base \in V, NEW step \in [V \X (1..n) -> V],
         NEW fold, Follows(n, V, base, step, fold)
  PROVE  \E g : Steps(n, V, base, step, fold, g)
<1> DEFINE S == {k \in Nat : k \in 0..n => fold[1..k] \in V}
<1>1. fold[1..0] = base
  <2>1. 1..0 = {}
    OBVIOUS
  <2> QED
    BY <2>1 DEF Follows
<1>2. ASSUME NEW k \in Nat, k + 1 \in 0..n, fold[1..k] \in V
      PROVE  fold[1..(k + 1)] = step[<<fold[1..k], k + 1>>] /\ fold[1..(k + 1)] \in V
  <2>1. Max(1..(k + 1)) = k + 1 /\ (1..(k + 1)) \ {k + 1} = 1..k
    <3>1. k + 1 \in Nat \ {0} /\ (k + 1) - 1 = k
      OBVIOUS
    <3> QED
      BY <3>1, TopOfPrefix
  <2>2. 1..(k + 1) \in SUBSET (1..n) /\ 1..(k + 1) # {} /\ k + 1 \in 1..n
    <3>1. k + 1 \in 1..n /\ k + 1 \in 1..(k + 1)
      BY <1>2
    <3>2. \A i \in 1..(k + 1) : i \in 1..n
      BY <3>1
    <3> QED
      BY <3>1, <3>2
  <2>3. fold[1..(k + 1)] = step[<<fold[1..k], k + 1>>]
    BY <1>2, <2>1, <2>2 DEF Follows
  <2> QED
    BY <1>2, <2>2, <2>3
<1>3. Nat \subseteq S
  <2>1. 0 \in S
    BY <1>1
  <2>2. ASSUME NEW k \in Nat, k \in S PROVE k + 1 \in S
    <3>1. ASSUME k + 1 \in 0..n PROVE fold[1..(k + 1)] \in V
      <4>1. k \in 0..n
        BY <2>2, <3>1
      <4>2. fold[1..k] \in V
        BY <2>2, <4>1
      <4> HIDE DEF S
      <4> QED
        BY <1>2, <2>2, <3>1, <4>2
    <3> QED
      BY <3>1
  <2> HIDE DEF S
  <2> QED
    BY <2>1, <2>2, Stepwise
<1> DEFINE g == [k \in 0..n |-> fold[1..k]]
<1>4. g \in [0..n -> V]
  BY <1>3
<1>5. ASSUME NEW k \in 1..n
      PROVE  g[k] = step[<<g[k - 1], k>>]
  <2>1. k - 1 \in Nat /\ (k - 1) + 1 = k /\ k \in 0..n /\ k - 1 \in 0..n
    OBVIOUS
  <2>2. fold[1..(k - 1)] \in V
    BY <1>3, <2>1
  <2>3. fold[1..k] = step[<<fold[1..(k - 1)], k>>]
    BY <1>2, <2>1, <2>2
  <2> QED
    BY <2>1, <2>3
<1>6. g[0] = base /\ g[n] = fold[1..n]
  BY <1>1
<1>7. Steps(n, V, base, step, fold, g)
  <2> HIDE DEF g
  <2> QED
    BY <1>4, <1>5, <1>6 DEF Steps
<1> QED
  BY <1>7

-----------------------------------------------------------------------------
(* The size *)

\* The loop over the digits, with a sum that wraps around.
LEMMA WrappedNumber ==
  ASSUME NEW q \in Seq(0..9)
  PROVE  \E g \in [0..Len(q) -> Int] :
           /\ g[0] = 0 /\ \A k \in 1..Len(q) : g[k] = Wrap(10 * g[k - 1] + q[k])
           /\ FoldLeft(LAMBDA n, c : Wrap(10 * n + c), 0, q) = g[Len(q)]
<1> DEFINE D == DOMAIN q
           Iter(h) == h = [s \in SUBSET D |->
                             IF s = {} THEN 0 ELSE Wrap(10 * h[s \ {Max(s)}] + q[Max(s)])]
           step == [x \in Int \X D |-> Wrap(10 * x[1] + q[x[2]])]
           fold == CHOOSE h : Iter(h)
<1>1. FoldLeft(LAMBDA n, c : Wrap(10 * n + c), 0, q) = fold[D]
  BY DEF FoldLeft, MapThenFoldSet
<1>2. Len(q) \in Nat /\ D = 1..Len(q) /\ \A i \in D : q[i] \in Int
  OBVIOUS
<1>3. step \in [Int \X (1..Len(q)) -> Int]
  <2>1. \A x \in Int : Wrap(x) \in Int
    BY SoloAssumption DEF Wrap
  <2>2. \A x \in Int \X D : 10 * x[1] + q[x[2]] \in Int
    BY <1>2
  <2> QED
    BY <1>2, <2>1, <2>2
<1>4. PICK h : FoldsPlaces(Len(q), Int, 0, step, h)
  <2>1. Len(q) \in Nat /\ 0 \in Int
    OBVIOUS
  <2> HIDE DEF step, D, Iter, fold
  <2> QED
    BY <1>3, <2>1, FoldExists
<1>5. \A s \in SUBSET D : s # {} => Max(s) \in s
  BY <1>2, MaxTakesOne
<1>6. ASSUME NEW s \in SUBSET D, s # {}, NEW i \in Int
      PROVE  step[<<i, Max(s)>>] = Wrap(10 * i + q[Max(s)])
  BY <1>5, <1>6
<1>7. Iter(h)
  <2> HIDE DEF step
  <2> QED
    BY <1>2, <1>4, <1>6 DEF FoldsPlaces
<1>8. Iter(fold)
  <2> HIDE DEF Iter
  <2> QED
    BY <1>7
<1>9. Follows(Len(q), Int, 0, step, fold)
  <2> HIDE DEF step, fold
  <2> QED
    BY <1>2, <1>6, <1>8 DEF Follows
<1>10. PICK g : Steps(Len(q), Int, 0, step, fold, g)
  <2>1. Len(q) \in Nat /\ 0 \in Int
    OBVIOUS
  <2> HIDE DEF step, D, Iter, fold
  <2> QED
    BY <1>3, <1>9, <2>1, FoldSteps
<1>11. \A k \in 1..Len(q) : g[k] = Wrap(10 * g[k - 1] + q[k])
  <2>1. \A k \in 1..Len(q) : g[k - 1] \in Int
    BY <1>2, <1>10 DEF Steps
  <2> HIDE DEF fold
  <2> QED
    BY <1>2, <1>10, <2>1 DEF Steps
<1>12. fold[D] = g[Len(q)]
  <2> HIDE DEF fold, step
  <2> QED
    BY <1>2, <1>10 DEF Steps
<1> HIDE DEF fold, Iter, step, D
<1> QED
  BY <1>1, <1>10, <1>11, <1>12 DEF Steps

\* The loop over the digits, with a sum that has no bound.
LEMMA PlainNumber ==
  ASSUME NEW q \in Seq(0..9)
  PROVE  \E g \in [0..Len(q) -> Int] :
           /\ g[0] = 0 /\ \A k \in 1..Len(q) : g[k] = 10 * g[k - 1] + q[k]
           /\ FoldLeft(LAMBDA n, c : 10 * n + c, 0, q) = g[Len(q)]
<1> DEFINE D == DOMAIN q
           Iter(h) == h = [s \in SUBSET D |->
                             IF s = {} THEN 0 ELSE 10 * h[s \ {Max(s)}] + q[Max(s)]]
           step == [x \in Int \X D |-> 10 * x[1] + q[x[2]]]
           fold == CHOOSE h : Iter(h)
<1>1. FoldLeft(LAMBDA n, c : 10 * n + c, 0, q) = fold[D]
  BY DEF FoldLeft, MapThenFoldSet
<1>2. Len(q) \in Nat /\ D = 1..Len(q) /\ \A i \in D : q[i] \in Int
  OBVIOUS
<1>3. step \in [Int \X (1..Len(q)) -> Int]
  <2>1. \A x \in Int : Wrap(x) \in Int
    BY SoloAssumption DEF Wrap
  <2>2. \A x \in Int \X D : 10 * x[1] + q[x[2]] \in Int
    BY <1>2
  <2> QED
    BY <1>2, <2>1, <2>2
<1>4. PICK h : FoldsPlaces(Len(q), Int, 0, step, h)
  <2>1. Len(q) \in Nat /\ 0 \in Int
    OBVIOUS
  <2> HIDE DEF step, D, Iter, fold
  <2> QED
    BY <1>3, <2>1, FoldExists
<1>5. \A s \in SUBSET D : s # {} => Max(s) \in s
  BY <1>2, MaxTakesOne
<1>6. ASSUME NEW s \in SUBSET D, s # {}, NEW i \in Int
      PROVE  step[<<i, Max(s)>>] = 10 * i + q[Max(s)]
  BY <1>5, <1>6
<1>7. Iter(h)
  <2> HIDE DEF step
  <2> QED
    BY <1>2, <1>4, <1>6 DEF FoldsPlaces
<1>8. Iter(fold)
  <2> HIDE DEF Iter
  <2> QED
    BY <1>7
<1>9. Follows(Len(q), Int, 0, step, fold)
  <2> HIDE DEF step, fold
  <2> QED
    BY <1>2, <1>6, <1>8 DEF Follows
<1>10. PICK g : Steps(Len(q), Int, 0, step, fold, g)
  <2>1. Len(q) \in Nat /\ 0 \in Int
    OBVIOUS
  <2> HIDE DEF step, D, Iter, fold
  <2> QED
    BY <1>3, <1>9, <2>1, FoldSteps
<1>11. \A k \in 1..Len(q) : g[k] = 10 * g[k - 1] + q[k]
  <2>1. \A k \in 1..Len(q) : g[k - 1] \in Int
    BY <1>2, <1>10 DEF Steps
  <2> HIDE DEF fold
  <2> QED
    BY <1>2, <1>10, <2>1 DEF Steps
<1>12. fold[D] = g[Len(q)]
  <2> HIDE DEF fold, step
  <2> QED
    BY <1>2, <1>10 DEF Steps
<1> HIDE DEF fold, Iter, step, D
<1> QED
  BY <1>1, <1>10, <1>11, <1>12 DEF Steps

\* A number that fits an int does not wrap around, and neither does what stands before it.
LEMMA NumberFits ==
  ASSUME NEW q \in Seq(0..9)
  PROVE  LET plain == FoldLeft(LAMBDA n, c : 10 * n + c, 0, q)
             wrapped == FoldLeft(LAMBDA n, c : Wrap(10 * n + c), 0, q) IN
         plain \in Int /\ wrapped \in Int /\ (plain <= MaxInt => wrapped = plain)
<1> DEFINE plain == FoldLeft(LAMBDA n, c : 10 * n + c, 0, q)
           wrapped == FoldLeft(LAMBDA n, c : Wrap(10 * n + c), 0, q)
           n == Len(q)
<1>1. PICK g \in [0..n -> Int] :
        /\ g[0] = 0 /\ \A k \in 1..n : g[k] = 10 * g[k - 1] + q[k]
        /\ plain = g[n]
  BY PlainNumber
<1>2. PICK h \in [0..n -> Int] :
        /\ h[0] = 0 /\ \A k \in 1..n : h[k] = Wrap(10 * h[k - 1] + q[k])
        /\ wrapped = h[n]
  BY WrappedNumber
<1>3. n \in Nat /\ MaxInt \in Nat /\ n \in 0..n /\ \A k \in 1..n : q[k] \in 0..9
  BY SoloAssumption
<1> HIDE DEF plain, wrapped, n
<1>4. \A k \in Nat : k \in 0..n => g[k] \in Nat
  <2> DEFINE S == {k \in Nat : k \in 0..n => g[k] \in Nat}
  <2>1. 0 \in S
    BY <1>1
  <2>2. ASSUME NEW k \in Nat, k \in S PROVE k + 1 \in S
    <3>1. ASSUME k + 1 \in 0..n PROVE g[k + 1] \in Nat
      <4>1. k + 1 \in 1..n /\ (k + 1) - 1 = k /\ g[k] \in Nat
        BY <1>3, <2>2, <3>1
      <4>2. g[k + 1] = 10 * g[k] + q[k + 1] /\ q[k + 1] \in 0..9
        BY <1>1, <1>3, <4>1
      <4> QED
        BY <4>1, <4>2
    <3> QED
      BY <3>1
  <2> HIDE DEF S
  <2>3. Nat \subseteq S
    BY <2>1, <2>2, Stepwise
  <2> QED
    BY <2>3 DEF S
<1>5. \A j \in Nat : j \in 0..n => g[n - j] <= g[n]
  <2> DEFINE S == {j \in Nat : j \in 0..n => g[n - j] <= g[n]}
  <2>1. 0 \in S
    BY <1>1, <1>3
  <2>2. ASSUME NEW j \in Nat, j \in S PROVE j + 1 \in S
    <3>1. ASSUME j + 1 \in 0..n PROVE g[n - (j + 1)] <= g[n]
      <4> DEFINE k == n - j
      <4>1. k \in 1..n /\ n - (j + 1) = k - 1 /\ k - 1 \in 0..n /\ k \in 0..n /\ j \in 0..n
        BY <1>3, <3>1
      <4>2. g[k] <= g[n] /\ g[k] \in Nat /\ g[k - 1] \in Nat /\ q[k] \in 0..9 /\ g[n] \in Nat
        BY <1>3, <1>4, <2>2, <4>1
      <4>3. g[k] = 10 * g[k - 1] + q[k]
        BY <1>1, <4>1
      <4>4. g[k - 1] <= g[n]
        <5> DEFINE x == g[k - 1]
                   y == g[k]
                   z == q[k]
        <5>1. x \in Nat /\ y \in Nat /\ z \in 0..9 /\ y = 10 * x + z /\ y <= g[n] /\ g[n] \in Nat
          BY <4>2, <4>3
        <5> HIDE DEF x, y, z
        <5>2. x <= g[n]
          BY <5>1
        <5> QED
          BY <5>2 DEF x
      <4> QED
        BY <4>1, <4>4
    <3> QED
      BY <3>1
  <2> HIDE DEF S
  <2>3. Nat \subseteq S
    BY <2>1, <2>2, Stepwise
  <2> QED
    BY <2>3 DEF S
<1>6. ASSUME NEW k \in 0..n
      PROVE  g[k] \in Nat /\ g[k] <= g[n]
  <2> DEFINE j == n - k
  <2>1. j \in Nat /\ j \in 0..n /\ n - j = k /\ k \in Nat
    BY <1>3
  <2> HIDE DEF j
  <2> QED
    BY <1>4, <1>5, <2>1
<1>7. ASSUME NEW x \in Nat, x <= MaxInt
      PROVE  Wrap(x) = x
  <2> DEFINE a == x + MaxInt + 1
             b == 2 * MaxInt + 2
  <2>1. a \in Int /\ b \in Int /\ 0 <= a /\ a < b
    BY <1>3, <1>7
  <2> HIDE DEF a, b
  <2>2. a % b = a
    BY <2>1
  <2>3. Wrap(x) = (a % b) - (MaxInt + 1)
    BY DEF Wrap, a, b
  <2> QED
    BY <1>3, <2>2, <2>3 DEF a
<1>8. ASSUME g[n] <= MaxInt
      PROVE  h[n] = g[n]
  <2> DEFINE S == {k \in Nat : k \in 0..n => h[k] = g[k]}
  <2>1. 0 \in S
    BY <1>1, <1>2
  <2>2. ASSUME NEW k \in Nat, k \in S PROVE k + 1 \in S
    <3>1. ASSUME k + 1 \in 0..n PROVE h[k + 1] = g[k + 1]
      <4>1. k + 1 \in 1..n /\ (k + 1) - 1 = k /\ h[k] = g[k]
        BY <1>3, <2>2, <3>1
      <4>2. g[k + 1] = 10 * g[k] + q[k + 1] /\ h[k + 1] = Wrap(10 * g[k] + q[k + 1])
        BY <1>1, <1>2, <4>1
      <4>3. g[k + 1] \in Nat /\ g[k + 1] <= MaxInt
        BY <1>3, <1>6, <1>8, <3>1
      <4> QED
        BY <1>7, <4>2, <4>3
    <3> QED
      BY <3>1
  <2> HIDE DEF S
  <2>3. Nat \subseteq S
    BY <2>1, <2>2, Stepwise
  <2> QED
    BY <1>3, <2>3 DEF S
<1>9. plain \in Int /\ wrapped \in Int /\ (plain <= MaxInt => wrapped = plain)
  BY <1>1, <1>2, <1>3, <1>8
<1> QED
  BY <1>9 DEF plain, wrapped

\* Clamping gives the nearest size of those that are offered.
LEMMA ClampIsNearest ==
  ASSUME NEW kind \in Kinds, NEW m \in Int
  PROVE  LET limit == IF kind = "rack" THEN 8 ELSE 6 IN
         /\ Clamp(kind, m) \in 4..limit
         /\ \A s \in 4..limit : Distance(s, m) >= Distance(Clamp(kind, m), m)
BY DEF Kinds, Clamp, Distance, LargerOf, SmallerOf

\* One request at a time: the query is read before there is a goal.
Asking ==
  /\ asked \in {NoQuery} \cup [kind : Kinds, query : Queries]
  /\ asked # NoQuery => goal = NoGoal

\* The sizes that are read from a query are offered.
LEMMA ReadSizeServes ==
  ASSUME Asking, asked # NoQuery, ReadSize
  PROVE  LET q == asked.query
             limit == IF asked.kind = "rack" THEN 8 ELSE 6
             number == IF q = <<>> \/ Contains(q, Other) THEN DefaultSize[asked.kind]
                       ELSE FoldLeft(LAMBDA n, c : 10 * n + c, 0, q) IN
         /\ goal'.size \in 4..limit
         /\ number <= MaxInt =>
              \A s \in 4..limit : Distance(s, number) >= Distance(goal'.size, number)
<1> DEFINE q == asked.query
           kind == asked.kind
           limit == IF kind = "rack" THEN 8 ELSE 6
           number == IF q = <<>> \/ Contains(q, Other) THEN DefaultSize[kind]
                     ELSE FoldLeft(LAMBDA n, c : 10 * n + c, 0, q)
           read == IntQuery(q, DefaultSize[kind])
<1>1. kind \in Kinds /\ q \in Queries
  BY DEF Asking
<1>2. goal'.size = Clamp(kind, read)
  BY DEF ReadSize, Generate
<1>3. read \in Int /\ number \in Int /\ (number <= MaxInt => read = number)
  <2>1. CASE q = <<>> \/ Contains(q, Other)
    BY <1>1, <2>1, SoloAssumption DEF IntQuery
  <2>2. CASE ~(q = <<>> \/ Contains(q, Other))
    <3>1. q \in Seq(0..9)
      <4>1. q \in Seq(0..9 \cup {Other})
        BY <1>1, SoloAssumption
      <4>2. \A i \in 1..Len(q) : q[i] \in 0..9
        BY <2>2, <4>1 DEF Contains
      <4> QED
        BY <4>1, <4>2
    <3> QED
      BY <2>2, <3>1, NumberFits DEF IntQuery
  <2> QED
    BY <2>1, <2>2
<1> HIDE DEF q, kind, number, read
<1>4. /\ Clamp(kind, read) \in 4..limit
      /\ number <= MaxInt =>
           \A s \in 4..limit : Distance(s, number) >= Distance(Clamp(kind, read), number)
  BY <1>1, <1>3, ClampIsNearest
<1> QED
  BY <1>2, <1>4 DEF q, kind, number

-----------------------------------------------------------------------------
(* The trie *)

Node == [children : [Letters -> Nat], isWord : BOOLEAN]

\* Every child is a node.
Tries ==
  {t \in Seq(Node) :
     Len(t) >= 1 /\ \A n \in 1..Len(t), l \in Letters : t[n].children[l] \in 0..Len(t)}

\* A node stands for the letters on the way to it from the root: no two nodes for the
\* same letters, and every node but the root is a child.
Named(t, name) ==
  /\ name \in [1..Len(t) -> Seq(Letters)] /\ name[1] = <<>>
  /\ \A n \in 1..Len(t), l \in Letters :
       t[n].children[l] # 0 => name[t[n].children[l]] = Append(name[n], l)
  /\ \A m, n \in 1..Len(t) : name[m] = name[n] => m = n
  /\ \A n \in 1..Len(t) : n # 1 => \E m \in 1..Len(t), l \in Letters : t[m].children[l] = n

\* The nodes that end a word are those of S, and there is a node for each of its prefixes.
HoldsWords(t, name, S) ==
  /\ \A n \in 1..Len(t) : t[n].isWord <=> name[n] \in S
  /\ \A w \in S : \A k \in 0..Len(w) : \E n \in 1..Len(t) : name[n] = SubSeq(w, 1, k)

\* What InsertLetter makes of a node without the child it looks for.
WithChild(t, cur, l) == Append([t EXCEPT ![cur].children[l] = Len(t) + 1], NewNode)

GrownBy(t, cur, l, new, u) ==
  /\ u \in Tries /\ Len(u) = new
  /\ \A n \in 1..Len(t) : u[n].isWord = t[n].isWord
  /\ \A n \in 1..Len(t), k \in Letters :
       u[n].children[k] = IF n = cur /\ k = l THEN new ELSE t[n].children[k]
  /\ u[new].isWord = FALSE /\ \A k \in Letters : u[new].children[k] = 0

\* A node gets the child that is looked for, and every other one is kept.
LEMMA ChildAdded ==
  ASSUME NEW t \in Tries, NEW cur \in 1..Len(t), NEW l \in Letters
  PROVE  GrownBy(t, cur, l, Len(t) + 1, WithChild(t, cur, l))
<1> DEFINE new == Len(t) + 1
           v == [t EXCEPT ![cur].children[l] = new]
           u == Append(v, NewNode)
<1>1. /\ t \in Seq(Node) /\ Len(t) \in Nat /\ Len(t) >= 1
      /\ \A n \in 1..Len(t) : t[n] \in Node
      /\ \A n \in 1..Len(t), k \in Letters : t[n].children[k] \in 0..Len(t)
  BY DEF Tries
<1>2. NewNode \in Node /\ NewNode.isWord = FALSE /\ \A k \in Letters : NewNode.children[k] = 0
  BY DEF Node, NewNode
<1>3. ASSUME NEW n \in 1..Len(t)
      PROVE  /\ v[n] \in Node /\ v[n].isWord = t[n].isWord
             /\ \A k \in Letters :
                  v[n].children[k] = IF n = cur /\ k = l THEN new ELSE t[n].children[k]
  <2>1. new \in Nat
    BY <1>1
  <2>2. CASE n = cur
    <3>1. v[n] = [t[cur] EXCEPT !.children[l] = new]
      BY <1>1, <2>2
    <3>2. t[cur] \in Node /\ t[cur].children \in [Letters -> Nat] /\ t[cur].isWord \in BOOLEAN
      BY <1>1 DEF Node
    <3> DEFINE c == [t[cur].children EXCEPT ![l] = new]
    <3>3. c \in [Letters -> Nat]
          /\ \A k \in Letters : c[k] = IF k = l THEN new ELSE t[cur].children[k]
      BY <2>1, <3>2
    <3>4. v[n] = [children |-> c, isWord |-> t[cur].isWord]
      BY <3>1, <3>2 DEF Node
    <3> HIDE DEF v, new, c
    <3>5. v[n] \in Node
      BY <3>2, <3>3, <3>4 DEF Node
    <3> QED
      BY <2>2, <3>3, <3>4, <3>5
  <2>3. CASE n # cur
    <3>1. v[n] = t[n]
      BY <1>1, <2>3
    <3> HIDE DEF v, new
    <3> QED
      BY <1>1, <2>3, <3>1
  <2> QED
    BY <2>2, <2>3
<1>4. v \in Seq(Node) /\ Len(v) = Len(t)
  <2>1. DOMAIN v = 1..Len(t) /\ v = [n \in 1..Len(t) |-> v[n]]
    BY <1>1
  <2> HIDE DEF v
  <2>2. v \in [1..Len(t) -> Node]
    BY <1>3, <2>1
  <2> QED
    BY <1>1, <2>2
<1> HIDE DEF v
<1>5. /\ u \in Seq(Node) /\ Len(u) = new /\ u[new] = NewNode
      /\ \A n \in 1..Len(t) : u[n] = v[n]
  BY <1>1, <1>2, <1>4
<1> HIDE DEF u
<1>6. \A n \in 1..new : n \in 1..Len(t) \/ n = new
  BY <1>1
<1>7. \A n \in 1..new, k \in Letters : u[n].children[k] \in 0..new
  <2>1. \A i \in 0..Len(t) : i \in 0..new
    BY <1>1
  <2>2. new \in 0..new /\ 0 \in 0..new
    BY <1>1
  <2> HIDE DEF new
  <2> QED
    BY <1>1, <1>2, <1>3, <1>5, <1>6, <2>1, <2>2
<1>8. u \in Tries
  BY <1>1, <1>5, <1>7 DEF Tries
<1>9. GrownBy(t, cur, l, new, u)
  BY <1>2, <1>3, <1>5, <1>8 DEF GrownBy
<1> QED
  BY <1>9 DEF u, v, WithChild

\* Two sequences that are equal with one more element are equal without it.
LEMMA AppendTells ==
  ASSUME NEW X, NEW s \in Seq(X), NEW u \in Seq(X), NEW a \in X, NEW b \in X,
         Append(s, a) = Append(u, b)
  PROVE  s = u /\ a = b
<1>1. /\ Len(s) \in Nat /\ Len(u) \in Nat
      /\ Len(Append(s, a)) = Len(s) + 1 /\ Len(Append(u, b)) = Len(u) + 1
      /\ Append(s, a)[Len(s) + 1] = a /\ Append(u, b)[Len(u) + 1] = b
      /\ \A i \in 1..Len(s) : Append(s, a)[i] = s[i]
      /\ \A i \in 1..Len(u) : Append(u, b)[i] = u[i]
  OBVIOUS
<1>2. Len(s) = Len(u) /\ a = b
  BY <1>1
<1>3. \A i \in 1..Len(s) : s[i] = u[i]
  BY <1>1, <1>2
<1> QED
  BY <1>2, <1>3

\* A node without the child that is looked for: no node stands for the letters to there.
LEMMA NoSuchNode ==
  ASSUME NEW t \in Tries, NEW name, Named(t, name),
         NEW cur \in 1..Len(t), NEW l \in Letters, t[cur].children[l] = 0
  PROVE  \A n \in 1..Len(t) : name[n] # Append(name[cur], l)
<1> SUFFICES ASSUME NEW n \in 1..Len(t), name[n] = Append(name[cur], l)
             PROVE  FALSE
  OBVIOUS
<1>1. /\ name \in [1..Len(t) -> Seq(Letters)] /\ name[1] = <<>>
      /\ \A i \in 1..Len(t), k \in Letters :
           t[i].children[k] # 0 => name[t[i].children[k]] = Append(name[i], k)
      /\ \A i, j \in 1..Len(t) : name[i] = name[j] => i = j
      /\ \A i \in 1..Len(t) : i # 1 => \E m \in 1..Len(t), k \in Letters : t[m].children[k] = i
  BY DEF Named
<1>2. Append(name[cur], l) # <<>>
  BY <1>1
<1>3. PICK m \in 1..Len(t), k \in Letters : t[m].children[k] = n
  BY <1>1, <1>2
<1>4. name[n] = Append(name[m], k)
  <2>1. n # 0
    BY DEF Tries
  <2>2. t[m].children[k] # 0 => name[t[m].children[k]] = Append(name[m], k)
    BY DEF Named
  <2> QED
    BY <1>3, <2>1, <2>2
<1>5. name[m] = name[cur] /\ k = l
  <2> DEFINE a == name[m]
             b == name[cur]
  <2>1. a \in Seq(Letters) /\ b \in Seq(Letters) /\ Append(a, k) = Append(b, l)
    BY <1>1, <1>4
  <2> HIDE DEF a, b
  <2>2. a = b /\ k = l
    BY <2>1, AppendTells
  <2> QED
    BY <2>2 DEF a, b
<1>6. m = cur
  BY <1>1, <1>5
<1> QED
  BY <1>3, <1>5, <1>6

\* InsertLetter goes on to the child, which it adds if there is none, and keeps the rest.
GoesOn(t, name, S, cur, l, r) ==
  /\ r = [nodes |-> r.nodes, cur |-> r.cur]
  /\ r.nodes \in Tries /\ Len(t) <= Len(r.nodes) /\ r.cur \in 1..Len(r.nodes)
  /\ \E nm : /\ Named(r.nodes, nm) /\ HoldsWords(r.nodes, nm, S)
             /\ nm[r.cur] = Append(name[cur], l)
             /\ \A n \in 1..Len(t) : nm[n] = name[n]

\* Inserting a letter goes on to the node for it.
LEMMA LetterInserted ==
  ASSUME NEW t \in Tries, NEW name, Named(t, name), NEW S, HoldsWords(t, name, S),
         NEW cur \in 1..Len(t), NEW l \in Letters
  PROVE  GoesOn(t, name, S, cur, l, InsertLetter([nodes |-> t, cur |-> cur], l))
<1> DEFINE r == InsertLetter([nodes |-> t, cur |-> cur], l)
<1>1. /\ cur # 0 /\ Len(t) \in Nat /\ t[cur].children[l] \in 0..Len(t)
  BY DEF Tries
<1>2. CASE t[cur].children[l] # 0
  <2>1. r = [nodes |-> t, cur |-> t[cur].children[l]]
    BY <1>1, <1>2 DEF InsertLetter
  <2>2. name[t[cur].children[l]] = Append(name[cur], l)
    BY <1>2 DEF Named
  <2> HIDE DEF r
  <2>3. r.nodes = t /\ r.cur = t[cur].children[l] /\ r.cur \in 1..Len(t)
    BY <1>1, <1>2, <2>1
  <2>4. r = [nodes |-> r.nodes, cur |-> r.cur]
    BY <2>1, <2>3
  <2> QED
    BY <1>1, <2>2, <2>3, <2>4 DEF r, GoesOn
<1>3. CASE t[cur].children[l] = 0
  <2> DEFINE new == Len(t) + 1
             u == WithChild(t, cur, l)
             nm == [n \in 1..new |-> IF n = new THEN Append(name[cur], l) ELSE name[n]]
  <2>1. r = [nodes |-> u, cur |-> new]
    BY <1>1, <1>3 DEF InsertLetter, WithChild
  <2>2. /\ u \in Tries /\ Len(u) = new
        /\ \A n \in 1..Len(t) : u[n].isWord = t[n].isWord
        /\ \A n \in 1..Len(t), k \in Letters :
             u[n].children[k] = IF n = cur /\ k = l THEN new ELSE t[n].children[k]
        /\ u[new].isWord = FALSE /\ \A k \in Letters : u[new].children[k] = 0
    <3>1. GrownBy(t, cur, l, Len(t) + 1, WithChild(t, cur, l))
      BY ChildAdded
    <3> QED
      BY <3>1 DEF GrownBy
  <2> HIDE DEF u, r
  <2>3. /\ \A n \in 1..new : n \in 1..Len(t) \/ n = new
        /\ \A n \in 1..Len(t) : n \in 1..new /\ n # new /\ nm[n] = name[n]
        /\ new \in 1..new /\ new # 1 /\ nm[new] = Append(name[cur], l)
    <3>1. Len(t) >= 1 /\ Len(t) \in Nat
      BY DEF Tries
    <3>2. /\ \A n \in 1..new : n \in 1..Len(t) \/ n = new
          /\ \A n \in 1..Len(t) : n \in 1..new /\ n # new
          /\ new \in 1..new /\ new # 1
      BY <3>1
    <3> HIDE DEF new
    <3> QED
      BY <3>2
  <2>4. /\ name \in [1..Len(t) -> Seq(Letters)] /\ name[1] = <<>>
        /\ \A i \in 1..Len(t), k \in Letters :
             t[i].children[k] # 0 => name[t[i].children[k]] = Append(name[i], k)
        /\ \A i, j \in 1..Len(t) : name[i] = name[j] => i = j
        /\ \A i \in 1..Len(t) : i # 1 => \E m \in 1..Len(t), k \in Letters : t[m].children[k] = i
    BY DEF Named
  <2>5. \A n \in 1..Len(t) : name[n] # Append(name[cur], l)
    BY <1>3, NoSuchNode
  <2>6. \A i \in 1..Len(t), k \in Letters : t[i].children[k] \in 0..Len(t)
    BY DEF Tries
  <2>7. nm \in [1..new -> Seq(Letters)] /\ nm[1] = <<>>
    <3>1. Append(name[cur], l) \in Seq(Letters)
      BY <2>4
    <3>2. 1 \in 1..Len(t)
      BY <1>1
    <3> QED
      BY <2>3, <2>4, <3>1, <3>2
  <2> HIDE DEF nm, new
  <2>8. ASSUME NEW n \in 1..new, NEW k \in Letters, u[n].children[k] # 0
        PROVE  nm[u[n].children[k]] = Append(nm[n], k)
    <3>1. n \in 1..Len(t)
      BY <2>2, <2>3, <2>8
    <3>2. CASE n = cur /\ k = l
      BY <2>2, <2>3, <3>1, <3>2
    <3>3. CASE ~(n = cur /\ k = l)
      <4>1. u[n].children[k] = t[n].children[k] /\ t[n].children[k] \in 1..Len(t)
        BY <1>1, <2>2, <2>6, <2>8, <3>1, <3>3
      <4>2. name[t[n].children[k]] = Append(name[n], k)
        <5>1. t[n].children[k] # 0
          BY <1>1, <4>1
        <5>2. \A i \in 1..Len(t), a \in Letters :
                t[i].children[a] # 0 => name[t[i].children[a]] = Append(name[i], a)
          BY <2>4
        <5> QED
          BY <3>1, <5>1, <5>2
      <4>3. nm[t[n].children[k]] = name[t[n].children[k]] /\ nm[n] = name[n]
        BY <2>3, <3>1, <4>1
      <4> QED
        BY <4>1, <4>2, <4>3
    <3> QED
      BY <3>2, <3>3
  <2>9. \A i, j \in 1..new : nm[i] = nm[j] => i = j
    BY <2>3, <2>4, <2>5
  <2>10. ASSUME NEW n \in 1..new, n # 1
         PROVE  \E m \in 1..new, k \in Letters : u[m].children[k] = n
    <3>1. CASE n = new
      BY <2>2, <2>3, <3>1
    <3>2. CASE n # new
      <4>1. n \in 1..Len(t)
        BY <2>3, <3>2
      <4>2. PICK m \in 1..Len(t), k \in Letters : t[m].children[k] = n
        BY <2>4, <2>10, <4>1
      <4>3. ~(m = cur /\ k = l)
        BY <1>3, <4>1, <4>2
      <4> QED
        BY <2>2, <2>3, <4>2, <4>3
    <3> QED
      BY <3>1, <3>2
  <2>11. Named(u, nm)
    BY <2>2, <2>7, <2>8, <2>9, <2>10 DEF Named
  <2>12. ASSUME NEW n \in 1..new
         PROVE  u[n].isWord <=> nm[n] \in S
    <3>1. CASE n \in 1..Len(t)
      BY <2>2, <2>3, <3>1 DEF HoldsWords
    <3>2. CASE n = new
      <4>1. ASSUME nm[new] \in S PROVE FALSE
        <5> DEFINE w == nm[new]
        <5>1. w \in Seq(Letters) /\ Len(w) \in 0..Len(w) /\ SubSeq(w, 1, Len(w)) = w
          BY <2>3, <2>7
        <5> HIDE DEF w
        <5>2. PICK i \in 1..Len(t) : name[i] = w
          BY <4>1, <5>1 DEF HoldsWords, w
        <5> QED
          BY <2>3, <2>5, <5>2 DEF w
      <4> QED
        BY <2>2, <3>2, <4>1
    <3> QED
      BY <2>3, <3>1, <3>2
  <2>13. \A w \in S : \A k \in 0..Len(w) : \E n \in 1..new : nm[n] = SubSeq(w, 1, k)
    <3> SUFFICES ASSUME NEW w \in S, NEW k \in 0..Len(w)
                 PROVE  \E n \in 1..new : nm[n] = SubSeq(w, 1, k)
      OBVIOUS
    <3>1. PICK n \in 1..Len(t) : name[n] = SubSeq(w, 1, k)
      BY DEF HoldsWords
    <3> QED
      BY <2>3, <3>1
  <2>14. HoldsWords(u, nm, S)
    BY <2>2, <2>12, <2>13 DEF HoldsWords
  <2>15. r.nodes = u /\ r.cur = new /\ r = [nodes |-> r.nodes, cur |-> r.cur]
    BY <2>1
  <2>16. Len(t) <= new
    BY <1>1 DEF new
  <2>17. \E x : /\ Named(r.nodes, x) /\ HoldsWords(r.nodes, x, S)
                /\ x[r.cur] = Append(name[cur], l)
                /\ \A n \in 1..Len(t) : x[n] = name[n]
    BY <2>3, <2>11, <2>14, <2>15
  <2> QED
    BY <2>2, <2>3, <2>15, <2>16, <2>17 DEF r, GoesOn
<1> QED
  BY <1>1, <1>2, <1>3

\* The states of the insertion of a word.
States == {s \in [nodes : Tries, cur : Nat] : s.cur \in 0..Len(s.nodes)}

\* Whatever the letter, the insertion stays within its states.
LEMMA StateKept ==
  ASSUME NEW s \in States, NEW l \in Letters
  PROVE  InsertLetter(s, l) \in States
<1> DEFINE t == s.nodes
           cur == s.cur
<1>1. t \in Tries /\ cur \in 0..Len(t) /\ cur \in Nat /\ Len(t) \in Nat
      /\ s = [nodes |-> t, cur |-> cur]
  BY DEF States, Tries
<1>2. CASE cur = 0
  BY <1>1, <1>2 DEF InsertLetter, States
<1>3. CASE cur # 0 /\ t[cur].children[l] # 0
  <2>1. t[cur].children[l] \in 0..Len(t)
    BY <1>1, <1>3 DEF Tries
  <2>2. InsertLetter(s, l) = [s EXCEPT !.cur = t[cur].children[l]]
    BY <1>3 DEF InsertLetter
  <2> QED
    BY <1>1, <2>1, <2>2 DEF States
<1>4. CASE cur # 0 /\ t[cur].children[l] = 0
  <2> DEFINE u == WithChild(t, cur, l)
  <2>1. GrownBy(t, cur, l, Len(t) + 1, u)
    BY <1>1, <1>4, ChildAdded
  <2>2. InsertLetter(s, l) = [nodes |-> u, cur |-> Len(t) + 1]
    BY <1>4 DEF InsertLetter, WithChild
  <2> HIDE DEF u, t
  <2>3. u \in Tries /\ Len(u) = Len(t) + 1 /\ Len(t) + 1 \in Nat
    BY <1>1, <2>1 DEF GrownBy
  <2> QED
    BY <2>2, <2>3 DEF States
<1> QED
  BY <1>2, <1>3, <1>4

\* After k letters of w: the node for them is reached, and there is one for each prefix.
Reached(s, S, w, k) ==
  /\ s \in States /\ s.cur # 0
  /\ \E name : /\ Named(s.nodes, name) /\ HoldsWords(s.nodes, name, S)
               /\ name[s.cur] = SubSeq(w, 1, k)
               /\ \A j \in 0..k : \E n \in 1..Len(s.nodes) : name[n] = SubSeq(w, 1, j)

\* One letter more.
LEMMA ReachedNext ==
  ASSUME NEW S, NEW w \in Seq(Letters), NEW k \in Nat, k + 1 <= Len(w),
         NEW s, Reached(s, S, w, k)
  PROVE  Reached(InsertLetter(s, w[k + 1]), S, w, k + 1)
<1> DEFINE t == s.nodes
           cur == s.cur
           l == w[k + 1]
           r == InsertLetter([nodes |-> t, cur |-> cur], l)
<1>1. t \in Tries /\ cur \in 1..Len(t) /\ s = [nodes |-> t, cur |-> cur]
  BY DEF States, Reached, Tries
<1>2. PICK name : /\ Named(t, name) /\ HoldsWords(t, name, S)
                  /\ name[cur] = SubSeq(w, 1, k)
                  /\ \A j \in 0..k : \E n \in 1..Len(t) : name[n] = SubSeq(w, 1, j)
  BY DEF Reached
<1>3. l \in Letters /\ Append(SubSeq(w, 1, k), l) = SubSeq(w, 1, k + 1)
  <2>1. Len(w) \in Nat /\ k + 1 \in 1..Len(w)
    OBVIOUS
  <2>2. /\ SubSeq(w, 1, k) \in Seq(Letters) /\ Len(SubSeq(w, 1, k)) = k
        /\ SubSeq(w, 1, k + 1) \in Seq(Letters) /\ Len(SubSeq(w, 1, k + 1)) = k + 1
        /\ \A i \in 1..k : SubSeq(w, 1, k)[i] = w[i]
        /\ \A i \in 1..(k + 1) : SubSeq(w, 1, k + 1)[i] = w[i]
    BY <2>1
  <2> DEFINE a == SubSeq(w, 1, k)
             b == SubSeq(w, 1, k + 1)
  <2>3. l \in Letters
    BY <2>1
  <2> HIDE DEF a, b, l
  <2>4. /\ Append(a, l) \in Seq(Letters) /\ Len(Append(a, l)) = k + 1
        /\ \A i \in 1..(k + 1) : Append(a, l)[i] = IF i = k + 1 THEN l ELSE a[i]
    BY <2>2, <2>3 DEF a
  <2>5. \A i \in 1..(k + 1) : Append(a, l)[i] = b[i]
    BY <2>2, <2>4 DEF a, b, l
  <2>6. b \in Seq(Letters) /\ Len(b) = k + 1
    BY <2>2 DEF b
  <2>7. Append(a, l) = b
    BY <2>4, <2>5, <2>6
  <2> QED
    BY <2>3, <2>7 DEF a, b
<1>4. /\ r.nodes \in Tries /\ Len(t) <= Len(r.nodes) /\ r.cur \in 1..Len(r.nodes)
      /\ \E nm : /\ Named(r.nodes, nm) /\ HoldsWords(r.nodes, nm, S)
                 /\ nm[r.cur] = Append(name[cur], l)
                 /\ \A n \in 1..Len(t) : nm[n] = name[n]
  <2>1. GoesOn(t, name, S, cur, l, InsertLetter([nodes |-> t, cur |-> cur], l))
    <3> HIDE DEF t, cur, l
    <3> QED
      BY <1>1, <1>2, <1>3, LetterInserted
  <2> HIDE DEF t, cur, l
  <2> QED
    BY <2>1 DEF GoesOn
<1>5. PICK nm : /\ Named(r.nodes, nm) /\ HoldsWords(r.nodes, nm, S)
                /\ nm[r.cur] = Append(name[cur], l)
                /\ \A n \in 1..Len(t) : nm[n] = name[n]
  BY <1>4
<1>6. nm[r.cur] = SubSeq(w, 1, k + 1)
  BY <1>2, <1>3, <1>5
<1>7. ASSUME NEW j \in 0..(k + 1)
      PROVE  \E n \in 1..Len(r.nodes) : nm[n] = SubSeq(w, 1, j)
  <2> HIDE DEF t, cur, l, r
  <2>1. CASE j = k + 1
    BY <1>4, <1>6, <2>1
  <2>2. CASE j # k + 1
    <3>1. j \in 0..k
      BY <2>2
    <3>2. PICK n \in 1..Len(t) : name[n] = SubSeq(w, 1, j)
      BY <1>2, <3>1
    <3>3. n \in 1..Len(r.nodes)
      <4>1. Len(t) \in Nat /\ Len(r.nodes) \in Nat
        BY <1>1, <1>4 DEF Tries
      <4> QED
        BY <1>4, <4>1
    <3> QED
      BY <1>5, <3>2, <3>3
  <2> QED
    BY <2>1, <2>2
<1>8. r \in States
  BY <1>1, <1>3, StateKept DEF Reached
<1>9. InsertLetter(s, w[k + 1]) = r
  BY <1>1
<1>10. r.cur # 0
  BY <1>4
<1> HIDE DEF t, cur, l, r
<1>11. Reached(r, S, w, k + 1)
  BY <1>5, <1>6, <1>7, <1>8, <1>10 DEF Reached
<1> QED
  BY <1>9, <1>11

\* The insertion, letter by letter.
InsertsBy(t, w, g) ==
  /\ g \in [0..Len(w) -> States] /\ g[0] = [nodes |-> t, cur |-> 1]
  /\ \A k \in 1..Len(w) : g[k] = InsertLetter(g[k - 1], w[k])
  /\ FoldLeft(InsertLetter, [nodes |-> t, cur |-> 1], w) = g[Len(w)]

\* Insert takes the letters of its word one after the other.
LEMMA InsertUnfolds ==
  ASSUME NEW t \in Tries, NEW w \in Seq(Letters)
  PROVE  \E g : InsertsBy(t, w, g)
<1> DEFINE D == DOMAIN w
           base == [nodes |-> t, cur |-> 1]
           Iter(h) == h = [s \in SUBSET D |->
                             IF s = {} THEN base ELSE InsertLetter(h[s \ {Max(s)}], w[Max(s)])]
           step == [x \in States \X D |-> InsertLetter(x[1], w[x[2]])]
           fold == CHOOSE h : Iter(h)
<1>1. FoldLeft(InsertLetter, base, w) = fold[D]
  BY DEF FoldLeft, MapThenFoldSet
<1>2. Len(w) \in Nat /\ D = 1..Len(w) /\ \A i \in D : w[i] \in Letters
  OBVIOUS
<1>3. base \in States /\ step \in [States \X (1..Len(w)) -> States]
  <2>1. base \in States
    <3>1. Len(t) \in Nat /\ 1 \in 0..Len(t)
      BY DEF Tries
    <3> QED
      BY <3>1 DEF States
  <2>2. \A x \in States \X D : InsertLetter(x[1], w[x[2]]) \in States
    BY <1>2, StateKept
  <2> QED
    BY <1>2, <2>1, <2>2
<1>4. PICK h : FoldsPlaces(Len(w), States, base, step, h)
  <2> HIDE DEF step, D, Iter, fold, base
  <2> QED
    BY <1>2, <1>3, FoldExists
<1>5. \A s \in SUBSET D : s # {} => Max(s) \in s
  BY <1>2, MaxTakesOne
<1>6. ASSUME NEW s \in SUBSET D, s # {}, NEW i \in States
      PROVE  step[<<i, Max(s)>>] = InsertLetter(i, w[Max(s)])
  BY <1>5, <1>6
<1>7. Iter(h)
  <2> HIDE DEF step, base
  <2> QED
    BY <1>2, <1>4, <1>6 DEF FoldsPlaces
<1>8. Iter(fold)
  <2> HIDE DEF Iter
  <2> QED
    BY <1>7
<1>9. Follows(Len(w), States, base, step, fold)
  <2> HIDE DEF step, fold, base
  <2> QED
    BY <1>2, <1>6, <1>8 DEF Follows
<1>10. PICK g : Steps(Len(w), States, base, step, fold, g)
  <2> HIDE DEF step, D, Iter, fold, base
  <2> QED
    BY <1>2, <1>3, <1>9, FoldSteps
<1>11. \A k \in 1..Len(w) : g[k] = InsertLetter(g[k - 1], w[k])
  <2>1. \A k \in 1..Len(w) : g[k - 1] \in States
    BY <1>2, <1>10 DEF Steps
  <2> HIDE DEF fold, base
  <2> QED
    BY <1>2, <1>10, <2>1 DEF Steps
<1>12. fold[D] = g[Len(w)]
  <2> HIDE DEF fold, step, base
  <2> QED
    BY <1>2, <1>10 DEF Steps
<1>13. FoldLeft(InsertLetter, base, w) = g[Len(w)]
  BY <1>1, <1>12
<1> HIDE DEF fold, Iter, step, D
<1> QED
  BY <1>10, <1>11, <1>13 DEF Steps, InsertsBy

\* Insert marks the node it ends at.
LEMMA InsertMarks ==
  ASSUME NEW t \in Tries, NEW w \in Seq(Letters), NEW g, InsertsBy(t, w, g)
  PROVE  LET s == g[Len(w)] IN
         /\ Insert(w, t) = IF s.cur = 0 THEN s.nodes ELSE [s.nodes EXCEPT ![s.cur].isWord = TRUE]
         /\ s \in States
<1>1. g[Len(w)] \in States
  <2>1. Len(w) \in 0..Len(w)
    OBVIOUS
  <2> QED
    BY <2>1 DEF InsertsBy
<1>2. FoldLeft(InsertLetter, [nodes |-> t, cur |-> 1], w) = g[Len(w)]
  BY DEF InsertsBy
<1> QED
  BY <1>1, <1>2 DEF Insert

\* u is t with the end of a word at c.
MarkedAt(t, c, u) ==
  /\ u \in Tries /\ Len(u) = Len(t)
  /\ \A n \in 1..Len(t) : /\ u[n].children = t[n].children
                          /\ u[n].isWord = IF n = c THEN TRUE ELSE t[n].isWord

\* Marking a node as the end of a word changes nothing else.
LEMMA WordMarked ==
  ASSUME NEW t \in Tries, NEW c \in 1..Len(t)
  PROVE  MarkedAt(t, c, [t EXCEPT ![c].isWord = TRUE])
<1> DEFINE u == [t EXCEPT ![c].isWord = TRUE]
<1>1. /\ t \in Seq(Node) /\ Len(t) \in Nat /\ Len(t) >= 1 /\ DOMAIN t = 1..Len(t)
      /\ \A n \in 1..Len(t) : t[n] \in Node
      /\ \A n \in 1..Len(t), k \in Letters : t[n].children[k] \in 0..Len(t)
  BY DEF Tries
<1>2. ASSUME NEW n \in 1..Len(t)
      PROVE  /\ u[n] \in Node /\ u[n].children = t[n].children
             /\ u[n].isWord = IF n = c THEN TRUE ELSE t[n].isWord
  <2>1. t[n] \in Node
    BY <1>1
  <2>2. CASE n = c
    <3>1. u[n] = [t[c] EXCEPT !.isWord = TRUE]
      BY <1>1, <2>2
    <3> HIDE DEF u
    <3> QED
      BY <2>1, <2>2, <3>1 DEF Node
  <2>3. CASE n # c
    <3>1. u[n] = t[n]
      BY <1>1, <2>3
    <3> HIDE DEF u
    <3> QED
      BY <2>1, <2>3, <3>1
  <2> QED
    BY <2>2, <2>3
<1>3. DOMAIN u = 1..Len(t) /\ u = [n \in 1..Len(t) |-> u[n]]
  BY <1>1
<1> HIDE DEF u
<1>4. u \in Seq(Node) /\ Len(u) = Len(t)
  <2>1. u \in [1..Len(t) -> Node]
    BY <1>2, <1>3
  <2> QED
    BY <1>1, <2>1
<1>5. u \in Tries
  BY <1>1, <1>2, <1>4 DEF Tries
<1>6. MarkedAt(t, c, u)
  BY <1>2, <1>4, <1>5 DEF MarkedAt
<1> QED
  BY <1>6 DEF u

\* A trie of the words of S.
TrieOf(t, S) == t \in Tries /\ \E name : Named(t, name) /\ HoldsWords(t, name, S)

\* Inserting a word makes a trie of a trie.
LEMMA InsertKept ==
  ASSUME NEW t \in Tries, NEW w \in Seq(Letters)
  PROVE  Insert(w, t) \in Tries
<1>1. PICK g : InsertsBy(t, w, g)
  BY InsertUnfolds
<1> DEFINE s == g[Len(w)]
           u == [s.nodes EXCEPT ![s.cur].isWord = TRUE]
<1>2. /\ Insert(w, t) = IF s.cur = 0 THEN s.nodes ELSE u
      /\ s \in States
  BY <1>1, InsertMarks
<1> HIDE DEF s
<1>3. s.nodes \in Tries /\ s.cur \in 0..Len(s.nodes) /\ Len(s.nodes) \in Nat
  BY <1>2 DEF States, Tries
<1>4. s.cur # 0 => u \in Tries
  <2> DEFINE v == s.nodes
             c == s.cur
  <2>1. c # 0 => v \in Tries /\ c \in 1..Len(v)
    BY <1>3
  <2> HIDE DEF v, c
  <2>2. c # 0 => MarkedAt(v, c, [v EXCEPT ![c].isWord = TRUE])
    BY <2>1, WordMarked
  <2> QED
    BY <2>2 DEF MarkedAt, v, c
<1> QED
  BY <1>2, <1>3, <1>4

\* Insert adds the word.
LEMMA WordInserted ==
  ASSUME NEW S, NEW t, TrieOf(t, S), NEW w \in Seq(Letters)
  PROVE  TrieOf(Insert(w, t), S \cup {w})
<1>1. PICK g : InsertsBy(t, w, g)
  BY InsertUnfolds DEF TrieOf
<1> DEFINE P == {k \in Nat : k <= Len(w) => Reached(g[k], S, w, k)}
<1>2. Len(w) \in Nat
  OBVIOUS
<1>3. 0 \in P
  <2> DEFINE s == g[0]
  <2>1. s.nodes = t /\ s.cur = 1 /\ s \in States
    BY <1>1, <1>2 DEF InsertsBy
  <2>2. PICK name : Named(t, name) /\ HoldsWords(t, name, S)
    BY DEF TrieOf
  <2>3. name[1] = SubSeq(w, 1, 0)
    <3>1. SubSeq(w, 1, 0) = <<>>
      OBVIOUS
    <3> QED
      BY <2>2, <3>1 DEF Named
  <2>4. 1 \in 1..Len(t)
    BY DEF TrieOf, Tries
  <2>5. \A j \in 0..0 : j = 0
    OBVIOUS
  <2> HIDE DEF s
  <2>6. Reached(s, S, w, 0)
    BY <2>1, <2>2, <2>3, <2>4, <2>5 DEF Reached
  <2> QED
    BY <2>6 DEF s
<1>4. ASSUME NEW k \in Nat, k \in P PROVE k + 1 \in P
  <2>1. ASSUME k + 1 <= Len(w) PROVE Reached(g[k + 1], S, w, k + 1)
    <3>1. Reached(g[k], S, w, k)
      BY <1>2, <1>4, <2>1
    <3>2. k + 1 \in 1..Len(w) /\ (k + 1) - 1 = k
      BY <1>2, <2>1
    <3>3. g[k + 1] = InsertLetter(g[k], w[k + 1])
      BY <1>1, <3>2 DEF InsertsBy
    <3> QED
      BY <2>1, <3>1, <3>3, ReachedNext
  <2> QED
    BY <2>1
<1>5. Reached(g[Len(w)], S, w, Len(w))
  <2> HIDE DEF P
  <2>1. Nat \subseteq P
    BY <1>3, <1>4, Stepwise
  <2> QED
    BY <1>2, <2>1 DEF P
<1> HIDE DEF P
<1> DEFINE s == g[Len(w)]
           v == s.nodes
           c == s.cur
           u == [v EXCEPT ![c].isWord = TRUE]
<1>6. v \in Tries /\ c \in 1..Len(v) /\ Insert(w, t) = u
  <2>1. Insert(w, t) = IF s.cur = 0 THEN s.nodes ELSE u
    BY <1>1, InsertMarks DEF TrieOf
  <2>2. v \in Tries /\ c \in 0..Len(v) /\ c # 0 /\ Len(v) \in Nat
    BY <1>5 DEF Reached, States, Tries
  <2> HIDE DEF s
  <2> QED
    BY <2>1, <2>2
<1>7. PICK name : /\ Named(v, name) /\ HoldsWords(v, name, S)
                  /\ name[c] = SubSeq(w, 1, Len(w))
                  /\ \A j \in 0..Len(w) : \E n \in 1..Len(v) : name[n] = SubSeq(w, 1, j)
  BY <1>5 DEF Reached
<1> HIDE DEF s, v, c
<1>8. /\ u \in Tries /\ Len(u) = Len(v)
      /\ \A n \in 1..Len(v) : /\ u[n].children = v[n].children
                              /\ u[n].isWord = IF n = c THEN TRUE ELSE v[n].isWord
  <2>1. MarkedAt(v, c, u)
    BY <1>6, WordMarked
  <2> QED
    BY <2>1 DEF MarkedAt
<1> HIDE DEF u
<1>9. name[c] = w
  BY <1>7
<1>10. Named(u, name)
  <2>1. /\ name \in [1..Len(v) -> Seq(Letters)] /\ name[1] = <<>>
        /\ \A n \in 1..Len(v), l \in Letters :
             v[n].children[l] # 0 => name[v[n].children[l]] = Append(name[n], l)
        /\ \A m, n \in 1..Len(v) : name[m] = name[n] => m = n
        /\ \A n \in 1..Len(v) : n # 1 => \E m \in 1..Len(v), l \in Letters : v[m].children[l] = n
    BY <1>7 DEF Named
  <2>2. \A n \in 1..Len(v), l \in Letters : u[n].children[l] = v[n].children[l]
    BY <1>8
  <2>3. Len(u) = Len(v)
    BY <1>8
  <2>4. /\ \A n \in 1..Len(v), l \in Letters :
             u[n].children[l] # 0 => name[u[n].children[l]] = Append(name[n], l)
        /\ \A n \in 1..Len(v) : n # 1 => \E m \in 1..Len(v), l \in Letters : u[m].children[l] = n
    <3>1. ASSUME NEW n \in 1..Len(v), NEW l \in Letters, u[n].children[l] # 0
          PROVE  name[u[n].children[l]] = Append(name[n], l)
      <4>1. u[n].children[l] = v[n].children[l]
        BY <2>2
      <4>2. v[n].children[l] # 0
        BY <3>1, <4>1
      <4>3. name[v[n].children[l]] = Append(name[n], l)
        BY <2>1, <4>2
      <4> QED
        BY <4>1, <4>3
    <3>2. ASSUME NEW n \in 1..Len(v), n # 1
          PROVE  \E m \in 1..Len(v), l \in Letters : u[m].children[l] = n
      <4>1. PICK m \in 1..Len(v), l \in Letters : v[m].children[l] = n
        BY <2>1, <3>2
      <4>2. u[m].children[l] = n
        BY <2>2, <4>1
      <4> QED
        BY <4>2
    <3> QED
      BY <3>1, <3>2
  <2> QED
    BY <2>1, <2>3, <2>4 DEF Named
<1>11. \A n \in 1..Len(v) : u[n].isWord <=> name[n] \in S \cup {w}
  <2>1. \A n \in 1..Len(v) : name[n] = w => n = c
    BY <1>6, <1>7, <1>9 DEF Named
  <2> QED
    BY <1>7, <1>8, <1>9, <2>1 DEF HoldsWords
<1>12. \A x \in S \cup {w} : \A k \in 0..Len(x) : \E n \in 1..Len(v) : name[n] = SubSeq(x, 1, k)
  BY <1>7 DEF HoldsWords
<1>13. HoldsWords(u, name, S \cup {w})
  BY <1>8, <1>11, <1>12 DEF HoldsWords
<1> QED
  BY <1>6, <1>8, <1>10, <1>13 DEF TrieOf

\* The trie holds the dictionary.
LEMMA TrieHolds == TrieOf(Trie, Dictionary)
<1> DEFINE D == Dictionary
           base == <<NewNode>>
           pick == [s \in SUBSET D |-> CHOOSE x \in s : TRUE]
           Iter(h) == h = [s \in SUBSET D |->
                             IF s = {} THEN base
                             ELSE Insert(CHOOSE x \in s : TRUE, h[s \ {CHOOSE x \in s : TRUE}])]
           step == [x \in Tries \X D |-> Insert(x[2], x[1])]
           fold == CHOOSE h : Iter(h)
<1>1. Trie = fold[D]
  BY DEF Trie, FoldSet, MapThenFoldSet
<1>2. IsFiniteSet(D) /\ D \subseteq Seq(Letters)
  <2>1. \A w \in D : w \in Seq(Letters)
    BY LexiconAssumption DEF Dictionary
  <2>2. D \in SUBSET WordList
    BY DEF Dictionary
  <2> QED
    BY <2>1, <2>2, LexiconAssumption, FS_Subset
<1>3. Picks(D, pick)
  BY DEF Picks
<1>4. TrieOf(base, {})
  <2>1. NewNode \in Node /\ NewNode.isWord = FALSE /\ \A l \in Letters : NewNode.children[l] = 0
    BY DEF NewNode, Node
  <2>2. base \in Seq(Node) /\ Len(base) = 1 /\ base[1] = NewNode
    BY <2>1
  <2>3. \A n \in 1..1 : n = 1
    OBVIOUS
  <2> HIDE DEF base
  <2>4. base \in Tries
    <3>1. \A n \in 1..Len(base), l \in Letters : base[n].children[l] \in 0..Len(base)
      <4>1. \A n \in 1..1, l \in Letters : base[n].children[l] = 0
        BY <2>1, <2>2, <2>3
      <4>2. 0 \in 0..1
        OBVIOUS
      <4> QED
        BY <2>2, <4>1, <4>2
    <3>2. base \in Seq(Node) /\ Len(base) >= 1
      BY <2>2
    <3> HIDE DEF D, pick, Iter, step, fold
    <3> QED
      BY <3>1, <3>2 DEF Tries
  <2> DEFINE name == [n \in 1..1 |-> <<>>]
  <2>5. name \in [1..1 -> Seq(Letters)] /\ name[1] = <<>>
    OBVIOUS
  <2> HIDE DEF name
  <2>6. Named(base, name) /\ HoldsWords(base, name, {})
    BY <2>1, <2>2, <2>3, <2>5 DEF Named, HoldsWords
  <2> QED
    BY <2>4, <2>6 DEF TrieOf
<1>5. step \in [Tries \X D -> Tries]
  BY <1>2, InsertKept
<1>6. base \in Tries
  BY <1>4 DEF TrieOf
<1>7. PICK h : Folds(D, Tries, base, step, pick, h)
  <2> HIDE DEF step, pick, D, Iter, fold, base
  <2> QED
    BY <1>2, <1>3, <1>5, <1>6, FoldRecursion
<1>8. Iter(h)
  <2>1. ASSUME NEW s \in SUBSET D, s # {}
        PROVE  step[<<h[s \ {pick[s]}], pick[s]>>]
                 = Insert(CHOOSE x \in s : TRUE, h[s \ {CHOOSE x \in s : TRUE}])
    <3>1. pick[s] = CHOOSE x \in s : TRUE
      OBVIOUS
    <3>2. pick[s] \in D /\ h[s \ {pick[s]}] \in Tries
      BY <1>3, <1>7, <2>1 DEF Picks, Folds
    <3>3. step[<<h[s \ {pick[s]}], pick[s]>>] = Insert(pick[s], h[s \ {pick[s]}])
      <4> DEFINE a == h[s \ {pick[s]}]
                 b == pick[s]
      <4>1. a \in Tries /\ b \in D
        BY <3>2
      <4> HIDE DEF a, b
      <4>2. step[<<a, b>>] = Insert(b, a)
        BY <4>1
      <4> QED
        BY <4>2 DEF a, b
    <3> HIDE DEF pick, step
    <3> QED
      BY <3>1, <3>3
  <2> HIDE DEF step, pick, base
  <2> QED
    BY <1>7, <2>1 DEF Folds
<1>9. Iter(fold)
  <2> HIDE DEF Iter
  <2> QED
    BY <1>8
<1> DEFINE holds == [s \in SUBSET D |-> TrieOf(fold[s], s)]
           true == [s \in SUBSET D |-> TRUE]
<1>10. holds[{}] = true[{}]
  <2>1. fold[{}] = base
    <3> HIDE DEF fold, base
    <3> QED
      BY <1>9
  <2> HIDE DEF fold, base
  <2> QED
    BY <1>4, <2>1
<1>11. ASSUME NEW s \in SUBSET D, s # {}, holds[s \ {pick[s]}] = true[s \ {pick[s]}]
       PROVE  holds[s] = true[s]
  <2>1. pick[s] \in s /\ pick[s] = CHOOSE x \in s : TRUE
    BY <1>3, <1>11 DEF Picks
  <2>2. TrieOf(fold[s \ {pick[s]}], s \ {pick[s]})
    <3> HIDE DEF fold, pick
    <3> QED
      BY <1>11
  <2>3. fold[s] = Insert(pick[s], fold[s \ {pick[s]}])
    <3> HIDE DEF fold, base
    <3> QED
      BY <1>9, <1>11
  <2>4. pick[s] \in Seq(Letters) /\ (s \ {pick[s]}) \cup {pick[s]} = s
    BY <1>2, <2>1
  <2> HIDE DEF fold, pick
  <2>5. TrieOf(Insert(pick[s], fold[s \ {pick[s]}]), (s \ {pick[s]}) \cup {pick[s]})
    BY <2>2, <2>4, WordInserted
  <2> QED
    BY <2>3, <2>4, <2>5
<1>12. AgreeByRemoval(D, pick, holds, true)
  <2> HIDE DEF holds, true, pick
  <2> QED
    BY <1>10, <1>11 DEF AgreeByRemoval
<1>13. \A s \in SUBSET D : holds[s] = true[s]
  <2> HIDE DEF holds, true, pick, D
  <2> QED
    BY <1>2, <1>3, <1>12, SameByRemoval
<1>14. TrieOf(fold[D], D)
  <2> HIDE DEF fold
  <2> QED
    BY <1>13
<1> QED
  BY <1>1, <1>14

-----------------------------------------------------------------------------
(* The search of a grid *)

\* h gathers what a search finds of its own and what the searches it starts find.
Gathers(S, V, own, succ, h) ==
  /\ h \in [S -> SUBSET V]
  /\ h = [d \in S |-> own[d] \cup UNION {h[x] : x \in succ[d]}]

\* Every search starts searches of a lower rank only.
Descends(S, succ, rank) ==
  /\ succ \in [S -> SUBSET S] /\ rank \in [S -> Nat]
  /\ \A d \in S : \A x \in succ[d] : rank[x] < rank[d]

\* Searches whose rank falls, from one they all have, find something that is well defined.
LEMMA GatherRecursion ==
  ASSUME NEW S, NEW V, NEW own \in [S -> SUBSET V], NEW succ, NEW rank,
         Descends(S, succ, rank), NEW m \in Nat, \A d \in S : rank[d] <= m
  PROVE  \E h : Gathers(S, V, own, succ, h)
<1> DEFINE Step(h) == [d \in S |-> own[d] \cup UNION {h[x] : x \in succ[d]}]
           Upto(h, n) == \A d \in S : rank[d] <= n => h[d] = Step(h)[d]
           P == {n \in Nat : \E h \in [S -> SUBSET V] : Upto(h, n)}
<1>1. /\ succ \in [S -> SUBSET S] /\ rank \in [S -> Nat]
      /\ \A d \in S : \A x \in succ[d] : rank[x] < rank[d] /\ x \in S
  BY DEF Descends
<1>2. ASSUME NEW h \in [S -> SUBSET V]
      PROVE  Step(h) \in [S -> SUBSET V]
  BY <1>1
<1>3. ASSUME NEW h \in [S -> SUBSET V], NEW k \in [S -> SUBSET V], NEW d \in S,
             \A x \in succ[d] : h[x] = k[x]
      PROVE  Step(h)[d] = Step(k)[d]
  <2>1. {h[x] : x \in succ[d]} = {k[x] : x \in succ[d]}
    BY <1>3
  <2> QED
    BY <2>1
<1>4. 0 \in P
  <2> DEFINE h == Step([d \in S |-> {}])
  <2>1. [d \in S |-> {}] \in [S -> SUBSET V]
    OBVIOUS
  <2> HIDE DEF Step
  <2>2. h \in [S -> SUBSET V]
    BY <1>2, <2>1
  <2>3. ASSUME NEW d \in S, rank[d] <= 0
        PROVE  h[d] = Step(h)[d]
    <3>1. succ[d] = {}
      BY <1>1, <2>3
    <3> QED
      BY <1>3, <2>1, <2>2, <3>1
  <2> QED
    BY <2>2, <2>3
<1>5. ASSUME NEW n \in Nat, n \in P
      PROVE  n + 1 \in P
  <2>1. PICK h \in [S -> SUBSET V] : Upto(h, n)
    BY <1>5
  <2> DEFINE k == Step(h)
  <2>2. k \in [S -> SUBSET V]
    <3> HIDE DEF Step
    <3> QED
      BY <1>2
  <2>3. ASSUME NEW d \in S, rank[d] <= n + 1
        PROVE  k[d] = Step(k)[d]
    <3>1. \A x \in succ[d] : x \in S /\ rank[x] <= n
      BY <1>1, <2>3
    <3> HIDE DEF Step
    <3>2. \A x \in succ[d] : h[x] = k[x]
      BY <2>1, <3>1
    <3> QED
      BY <1>3, <2>2, <3>2
  <2> HIDE DEF Step, k
  <2>4. n + 1 \in Nat /\ Upto(k, n + 1)
    BY <2>3
  <2> QED
    BY <2>2, <2>4
<1>6. m \in P
  <2> HIDE DEF P
  <2> QED
    BY <1>4, <1>5, Stepwise
<1>7. PICK h \in [S -> SUBSET V] : Upto(h, m)
  BY <1>6
<1>8. h = Step(h)
  BY <1>2, <1>7
<1>9. Gathers(S, V, own, succ, h)
  BY <1>8 DEF Gathers
<1> QED
  BY <1>9
Cells(w) == 0..(w * w - 1)

\* The grids of the program: no cell is beyond the mask.
IsGrid(letters, w) == w \in 4..6 /\ letters \in Seq(Letters) /\ Len(letters) = w * w

Searches(w) ==
  [cell : Cells(w), node : 1..Len(Trie), used : SUBSET Nat, buf : Seq(Letters)]

\* A search as dfs makes it: its letter, its node and word, what it finds of its own and
\* the searches it starts.
LetterAt(letters, d) == letters[d.cell + 1]
NodeOf(letters, d) == Trie[d.node].children[LetterAt(letters, d)]
WordOf(letters, d) == Append(d.buf, LetterAt(letters, d))
Pruned(letters, d) == Bit(d.cell) \cap d.used # {} \/ NodeOf(letters, d) = 0

Own(letters, d) ==
  IF Pruned(letters, d) THEN {}
  ELSE IF Trie[NodeOf(letters, d)].isWord /\ Len(WordOf(letters, d)) >= MinWordLen
       THEN {WordOf(letters, d)} ELSE {}

Onward(letters, d, c) ==
  [cell |-> c, node |-> NodeOf(letters, d), used |-> d.used \cup Bit(d.cell),
   buf |-> WordOf(letters, d)]

Started(letters, w, d) ==
  IF Pruned(letters, d) THEN {} ELSE {Onward(letters, d, c) : c \in Neighbours(d.cell, w)}

From(c) == [cell |-> c, node |-> 1, used |-> {}, buf |-> <<>>]

\* The cells a search may still visit.
FreeCells(w, d) == Cells(w) \ d.used

\* A cell of a grid is within the mask, and its letter is one of the grid's.
LEMMA GridCells ==
  ASSUME NEW letters, NEW w, IsGrid(letters, w)
  PROVE  /\ w * w \in Nat /\ IsFiniteSet(Cells(w))
         /\ \A c \in Cells(w) : /\ c \in Nat /\ Bit(c) = {c} /\ letters[c + 1] \in Letters
                                /\ Neighbours(c, w) \subseteq Cells(w)
<1>1. w \in {4, 5, 6}
  BY DEF IsGrid
<1>2. w * w \in Nat /\ w * w <= 36
  BY <1>1
<1> DEFINE n == w * w
<1>3. letters \in Seq(Letters) /\ Len(letters) = n
  BY DEF IsGrid
<1> HIDE DEF n
<1>4. n \in Nat /\ n <= 36
  BY <1>2 DEF n
<1>5. IsFiniteSet(0..(n - 1))
  BY <1>4, FS_Interval
<1>6. ASSUME NEW c \in 0..(n - 1)
      PROVE  c \in Nat /\ Bit(c) = {c} /\ letters[c + 1] \in Letters
  <2>1. c \in Nat /\ c < 64 /\ c + 1 \in 1..Len(letters)
    BY <1>3, <1>4
  <2> QED
    BY <1>3, <2>1 DEF Bit, MaskBits
<1>7. \A c \in 0..(n - 1) : Neighbours(c, w) \subseteq 0..(n - 1)
  BY DEF Neighbours, n
<1> QED
  BY <1>4, <1>5, <1>6, <1>7 DEF n, Cells

\* A search that is not pruned starts searches with one free cell less.
LEMMA SearchGoesOn ==
  ASSUME NEW letters, NEW w, IsGrid(letters, w),
         NEW d \in Searches(w), ~Pruned(letters, d)
  PROVE  /\ NodeOf(letters, d) \in 1..Len(Trie) /\ NodeOf(letters, d) # 0
         /\ LetterAt(letters, d) \in Letters /\ WordOf(letters, d) \in Seq(Letters)
         /\ d.cell \in Cells(w) /\ d.cell \notin d.used /\ Bit(d.cell) = {d.cell}
         /\ \A c \in Neighbours(d.cell, w) :
              /\ c \in Cells(w) /\ Onward(letters, d, c) \in Searches(w)
              /\ FreeCells(w, Onward(letters, d, c)) = FreeCells(w, d) \ {d.cell}
<1>1. /\ d.cell \in Cells(w) /\ d.node \in 1..Len(Trie) /\ d.used \in SUBSET Nat
      /\ d.buf \in Seq(Letters)
  BY DEF Searches
<1>2. /\ d.cell \in Nat /\ Bit(d.cell) = {d.cell} /\ LetterAt(letters, d) \in Letters
      /\ Neighbours(d.cell, w) \subseteq Cells(w)
  BY <1>1, GridCells DEF LetterAt
<1>3. d.cell \notin d.used /\ NodeOf(letters, d) # 0
  BY <1>2 DEF Pruned
<1>4. NodeOf(letters, d) \in 1..Len(Trie)
  <2>1. Trie \in Tries
    BY TrieHolds DEF TrieOf
  <2>2. Len(Trie) \in Nat /\ NodeOf(letters, d) \in 0..Len(Trie)
    BY <1>1, <1>2, <2>1 DEF Tries, NodeOf
  <2> QED
    BY <1>3, <2>2
<1>5. WordOf(letters, d) \in Seq(Letters)
  BY <1>1, <1>2 DEF WordOf
<1>6. ASSUME NEW c \in Neighbours(d.cell, w)
      PROVE  /\ c \in Cells(w) /\ Onward(letters, d, c) \in Searches(w)
             /\ FreeCells(w, Onward(letters, d, c)) = FreeCells(w, d) \ {d.cell}
  <2>1. c \in Cells(w) /\ d.used \cup Bit(d.cell) \in SUBSET Nat
    BY <1>1, <1>2
  <2>2. Onward(letters, d, c) \in Searches(w)
    BY <1>4, <1>5, <2>1 DEF Onward, Searches
  <2>3. FreeCells(w, Onward(letters, d, c)) = FreeCells(w, d) \ {d.cell}
    BY <1>2 DEF FreeCells, Onward
  <2> QED
    BY <2>1, <2>2, <2>3
<1> QED
  BY <1>1, <1>2, <1>3, <1>4, <1>5, <1>6

\* What the searches of a grid find, as dfs gathers it.
FindsAll(letters, w, f) ==
  \A d \in Searches(w) :
    f[d] = Own(letters, d) \cup UNION {f[x] : x \in Started(letters, w, d)}

\* Solve gathers what a search from each cell finds.
LEMMA SolveSearches ==
  ASSUME NEW letters, NEW w, IsGrid(letters, w)
  PROVE  \E f : FindsAll(letters, w, f) /\ Solve(letters, w) = UNION {f[From(c)] : c \in Cells(w)}
<1> DEFINE S == Searches(w)
           V == Seq(Letters)
           body(h, d) ==
             IF Pruned(letters, d) THEN {}
             ELSE (IF Trie[NodeOf(letters, d)].isWord /\ Len(WordOf(letters, d)) >= MinWordLen
                   THEN {WordOf(letters, d)} ELSE {})
                  \cup UNION {h[Onward(letters, d, c)] : c \in Neighbours(d.cell, w)}
           Iter(h) == h = [d \in S |-> body(h, d)]
           f == CHOOSE h : Iter(h)
           own == [d \in S |-> Own(letters, d)]
           started == [d \in S |-> Started(letters, w, d)]
           rank == [d \in S |-> Cardinality(FreeCells(w, d))]
           m == Cardinality(Cells(w))
<1>1. Solve(letters, w) = UNION {f[From(c)] : c \in Cells(w)}
  BY DEF Solve, Pruned, NodeOf, WordOf, LetterAt, Onward, From, Cells, Searches
<1>2. own \in [S -> SUBSET V]
  <2>1. ASSUME NEW d \in S PROVE Own(letters, d) \in SUBSET V
    BY SearchGoesOn DEF Own
  <2> QED
    BY <2>1
<1>3. m \in Nat /\ \A d \in S : rank[d] \in Nat /\ rank[d] <= m
  <2>1. IsFiniteSet(Cells(w))
    BY GridCells
  <2>2. \A d \in S : FreeCells(w, d) \subseteq Cells(w)
    BY DEF FreeCells
  <2> QED
    BY <2>1, <2>2, FS_Subset, FS_CardinalityType
<1>4. Descends(S, started, rank)
  <2>1. ASSUME NEW d \in S, NEW x \in Started(letters, w, d)
        PROVE  x \in S /\ rank[x] < rank[d]
    <3>1. ~Pruned(letters, d)
      BY <2>1 DEF Started
    <3>2. PICK c \in Neighbours(d.cell, w) : x = Onward(letters, d, c)
      BY <2>1 DEF Started
    <3>3. /\ x \in S /\ FreeCells(w, x) = FreeCells(w, d) \ {d.cell}
          /\ d.cell \in FreeCells(w, d)
      BY <3>1, <3>2, SearchGoesOn DEF FreeCells
    <3>4. IsFiniteSet(FreeCells(w, d))
      BY GridCells, FS_Subset DEF FreeCells
    <3>5. Cardinality(FreeCells(w, d) \ {d.cell}) = Cardinality(FreeCells(w, d)) - 1
          /\ Cardinality(FreeCells(w, d)) \in Nat
      BY <3>3, <3>4, FS_RemoveElement, FS_CardinalityType
    <3>6. rank[d] = Cardinality(FreeCells(w, d)) /\ rank[x] = Cardinality(FreeCells(w, x))
      BY <3>3
    <3> HIDE DEF S, rank
    <3> QED
      BY <3>3, <3>5, <3>6
  <2>2. started \in [S -> SUBSET S]
    BY <2>1
  <2>3. rank \in [S -> Nat]
    BY <1>3
  <2>4. \A d \in S : \A x \in started[d] : rank[x] < rank[d]
    <3>1. \A d \in S : started[d] = Started(letters, w, d)
      OBVIOUS
    <3> HIDE DEF S, started, rank
    <3> QED
      BY <2>1, <3>1
  <2> HIDE DEF S, started, rank
  <2> QED
    BY <2>2, <2>3, <2>4 DEF Descends
<1>5. PICK h : Gathers(S, V, own, started, h)
  <2> HIDE DEF S, V, own, started, rank, m, Iter, f
  <2> QED
    BY <1>2, <1>3, <1>4, GatherRecursion
<1>6. ASSUME NEW k, NEW d \in S
      PROVE  body(k, d) = Own(letters, d) \cup UNION {k[x] : x \in Started(letters, w, d)}
  <2>1. CASE Pruned(letters, d)
    BY <2>1 DEF Own, Started
  <2>2. CASE ~Pruned(letters, d)
    <3>1. /\ Started(letters, w, d) = {Onward(letters, d, c) : c \in Neighbours(d.cell, w)}
          /\ Own(letters, d) = IF Trie[NodeOf(letters, d)].isWord
                                  /\ Len(WordOf(letters, d)) >= MinWordLen
                               THEN {WordOf(letters, d)} ELSE {}
      BY <2>2 DEF Own, Started
    <3>2. {k[x] : x \in {Onward(letters, d, c) : c \in Neighbours(d.cell, w)}}
            = {k[Onward(letters, d, c)] : c \in Neighbours(d.cell, w)}
      OBVIOUS
    <3> QED
      BY <2>2, <3>1, <3>2
  <2> QED
    BY <2>1, <2>2
<1>7. Iter(h)
  <2>1. h = [d \in S |-> own[d] \cup UNION {h[x] : x \in started[d]}]
    BY <1>5 DEF Gathers
  <2>2. \A d \in S : own[d] \cup UNION {h[x] : x \in started[d]} = body(h, d)
    <3>1. \A d \in S : own[d] = Own(letters, d) /\ started[d] = Started(letters, w, d)
      OBVIOUS
    <3> HIDE DEF body, S, own, started
    <3> QED
      BY <1>6, <3>1
  <2> HIDE DEF body, S, own, started
  <2> QED
    BY <2>1, <2>2
<1>8. Iter(f)
  <2> HIDE DEF Iter
  <2> QED
    BY <1>7
<1>9. FindsAll(letters, w, f)
  <2>1. \A d \in S : f[d] = body(f, d)
    <3> HIDE DEF body, f
    <3> QED
      BY <1>8
  <2> HIDE DEF body, f
  <2> QED
    BY <1>6, <2>1 DEF FindsAll
<1> QED
  BY <1>1, <1>9

\* The cells q lead on from a search over cells it has not used, each a neighbour of the
\* one before, and spell out what v has after the letters that are traced.
Leads(letters, w, d, v, q) ==
  /\ q \in [(Len(d.buf) + 1)..Len(v) -> Cells(w)] /\ q[Len(d.buf) + 1] = d.cell
  /\ \A i \in (Len(d.buf) + 1)..Len(v) : letters[q[i] + 1] = v[i] /\ q[i] \notin d.used
  /\ \A i \in (Len(d.buf) + 1)..(Len(v) - 1) : q[i + 1] \in Neighbours(q[i], w)
  /\ \A i, j \in (Len(d.buf) + 1)..Len(v) : q[i] = q[j] => i = j

\* The words of the dictionary that a search has before it.
IsAhead(letters, w, d, v) ==
  /\ v \in Dictionary /\ Len(d.buf) < Len(v) /\ \A i \in 1..Len(d.buf) : v[i] = d.buf[i]
  /\ \E q : Leads(letters, w, d, v, q)

\* name is the letters of each node of the trie.
NamesTrie(name) == Named(Trie, name) /\ HoldsWords(Trie, name, Dictionary)

\* The length of a word, and of a search's word.
LEMMA WordLength ==
  ASSUME NEW v \in Dictionary
  PROVE  v \in Seq(Letters) /\ Len(v) \in Nat /\ Len(v) >= MinWordLen /\ Len(v) >= 3
<1>1. v \in Seq(Letters \cup {Other}) /\ \A n \in DOMAIN v : v[n] \in Letters
  BY LexiconAssumption DEF Dictionary
<1>2. v \in Seq(Letters)
  BY <1>1
<1>3. Len(v) \in Nat /\ Len(v) >= MinWordLen /\ MinWordLen \in Nat /\ MinWordLen > 2
  BY <1>1, LexiconAssumption DEF Dictionary
<1> QED
  BY <1>2, <1>3

\* What lies before a search that is started lies before the search that starts it.
LEMMA AheadOfStarted ==
  ASSUME NEW letters, NEW w, IsGrid(letters, w), NEW d \in Searches(w), ~Pruned(letters, d),
         NEW c \in Neighbours(d.cell, w), NEW v, IsAhead(letters, w, Onward(letters, d, c), v)
  PROVE  IsAhead(letters, w, d, v)
<1> DEFINE x == Onward(letters, d, c)
           k == Len(d.buf)
           n == Len(v)
           u == WordOf(letters, d)
           l == LetterAt(letters, d)
<1>1. x.cell = c /\ x.used = d.used \cup Bit(d.cell) /\ x.buf = u
  BY DEF Onward
<1>2. /\ d.cell \in Cells(w) /\ d.cell \notin d.used /\ Bit(d.cell) = {d.cell}
      /\ l \in Letters /\ d.buf \in Seq(Letters) /\ c \in Cells(w)
  BY SearchGoesOn DEF Searches
<1>3. /\ k \in Nat /\ Len(u) = k + 1 /\ u[k + 1] = l /\ \A i \in 1..k : u[i] = d.buf[i]
  BY <1>2 DEF WordOf
<1> HIDE DEF x
<1>4. PICK q : Leads(letters, w, x, v, q)
  BY DEF IsAhead, x
<1>5. v \in Dictionary /\ Len(u) < n /\ \A i \in 1..Len(u) : v[i] = u[i]
  BY <1>1 DEF IsAhead, x
<1>6. n \in Nat /\ k + 1 < n /\ v[k + 1] = l /\ \A i \in 1..k : v[i] = d.buf[i]
  <2>1. n \in Nat
    BY <1>5, WordLength
  <2>2. \A i \in 1..(k + 1) : v[i] = u[i]
    BY <1>3, <1>5
  <2>3. k + 1 \in 1..(k + 1) /\ \A i \in 1..k : i \in 1..(k + 1)
    BY <1>3
  <2> HIDE DEF k, n, u, l
  <2> QED
    BY <1>3, <1>5, <2>1, <2>2, <2>3
<1> HIDE DEF k, n, u, l
<1>7. /\ q \in [(k + 2)..n -> Cells(w)] /\ q[k + 2] = c
      /\ \A i \in (k + 2)..n : letters[q[i] + 1] = v[i] /\ q[i] \notin d.used \cup {d.cell}
      /\ \A i \in (k + 2)..(n - 1) : q[i + 1] \in Neighbours(q[i], w)
      /\ \A i, j \in (k + 2)..n : q[i] = q[j] => i = j
  <2>1. Len(x.buf) + 1 = k + 2
    BY <1>1, <1>3
  <2> QED
    BY <1>1, <1>2, <1>4, <2>1 DEF Leads, n
<1> DEFINE r == [i \in (k + 1)..n |-> IF i = k + 1 THEN d.cell ELSE q[i]]
<1>8. /\ \A i \in (k + 1)..n : i = k + 1 \/ i \in (k + 2)..n
      /\ \A i \in (k + 2)..n : i \in (k + 1)..n /\ i # k + 1
      /\ k + 1 \in (k + 1)..n
  BY <1>3, <1>6
<1>9. /\ r \in [(k + 1)..n -> Cells(w)] /\ r[k + 1] = d.cell
      /\ \A i \in (k + 2)..n : r[i] = q[i]
  BY <1>2, <1>7, <1>8
<1> HIDE DEF r
<1>10. \A i \in (k + 1)..n : letters[r[i] + 1] = v[i] /\ r[i] \notin d.used
  <2>1. letters[d.cell + 1] = l
    BY DEF l, LetterAt
  <2> QED
    BY <1>2, <1>6, <1>7, <1>8, <1>9, <2>1
<1>11. ASSUME NEW i \in (k + 1)..(n - 1)
       PROVE  r[i + 1] \in Neighbours(r[i], w)
  <2>1. CASE i = k + 1
    <3>1. i + 1 = k + 2 /\ k + 2 \in (k + 2)..n
      BY <1>3, <1>6, <2>1
    <3> QED
      BY <1>7, <1>9, <2>1, <3>1
  <2>2. CASE i # k + 1
    <3>1. i \in (k + 2)..n /\ i + 1 \in (k + 2)..n /\ i \in (k + 2)..(n - 1)
      BY <1>3, <1>6, <2>2
    <3> QED
      BY <1>7, <1>9, <3>1
  <2> QED
    BY <2>1, <2>2
<1>12. \A i, j \in (k + 1)..n : r[i] = r[j] => i = j
  BY <1>7, <1>8, <1>9
<1>13. Leads(letters, w, d, v, r)
  BY <1>9, <1>10, <1>11, <1>12 DEF Leads, k, n
<1>14. k < n
  BY <1>3, <1>6
<1> QED
  BY <1>5, <1>6, <1>13, <1>14 DEF IsAhead, k, n

\* The word a search finds of its own lies before it.
LEMMA OwnIsAhead ==
  ASSUME NEW letters, NEW w, IsGrid(letters, w), NEW name, NamesTrie(name),
         NEW d \in Searches(w), name[d.node] = d.buf, NEW v \in Own(letters, d)
  PROVE  IsAhead(letters, w, d, v)
<1> DEFINE k == Len(d.buf)
           l == LetterAt(letters, d)
           q == [i \in (k + 1)..(k + 1) |-> d.cell]
<1>1. ~Pruned(letters, d) /\ v = WordOf(letters, d) /\ Trie[NodeOf(letters, d)].isWord
  BY DEF Own
<1>2. /\ d.cell \in Cells(w) /\ d.cell \notin d.used /\ d.node \in 1..Len(Trie)
      /\ l \in Letters /\ d.buf \in Seq(Letters)
      /\ NodeOf(letters, d) \in 1..Len(Trie) /\ NodeOf(letters, d) # 0
  BY <1>1, SearchGoesOn DEF Searches
<1>3. name[NodeOf(letters, d)] = v
  <2>1. \A n \in 1..Len(Trie), a \in Letters :
          Trie[n].children[a] # 0 => name[Trie[n].children[a]] = Append(name[n], a)
    BY DEF NamesTrie, Named
  <2> QED
    BY <1>1, <1>2, <2>1 DEF NodeOf, WordOf
<1>4. v \in Dictionary
  BY <1>1, <1>2, <1>3 DEF NamesTrie, HoldsWords
<1>5. k \in Nat /\ Len(v) = k + 1 /\ v[k + 1] = l /\ \A i \in 1..k : v[i] = d.buf[i]
  BY <1>1, <1>2 DEF WordOf
<1>6. q \in [(k + 1)..(k + 1) -> Cells(w)] /\ \A i \in (k + 1)..(k + 1) : q[i] = d.cell /\ i = k + 1
  BY <1>2, <1>5
<1>7. letters[d.cell + 1] = l
  BY DEF LetterAt
<1>8. (k + 1)..(k + 1 - 1) = {} /\ k + 1 \in (k + 1)..(k + 1) /\ k < k + 1
  BY <1>5
<1> HIDE DEF q, l
<1>9. Leads(letters, w, d, v, q)
  <2>1. /\ q[k + 1] = d.cell
        /\ \A i \in (k + 1)..(k + 1) : letters[q[i] + 1] = v[i] /\ q[i] \notin d.used
        /\ \A i \in (k + 1)..(k + 1 - 1) : q[i + 1] \in Neighbours(q[i], w)
        /\ \A i, j \in (k + 1)..(k + 1) : q[i] = q[j] => i = j
    <3> HIDE DEF k
    <3> QED
      BY <1>2, <1>5, <1>6, <1>7, <1>8
  <2> QED
    BY <1>5, <1>6, <2>1 DEF Leads
<1> QED
  BY <1>4, <1>5, <1>8, <1>9 DEF IsAhead

\* A word that lies before a search is its own or lies before a search that it starts.
LEMMA AheadGoesOn ==
  ASSUME NEW letters, NEW w, IsGrid(letters, w), NEW name, NamesTrie(name),
         NEW d \in Searches(w), name[d.node] = d.buf, NEW v, IsAhead(letters, w, d, v)
  PROVE  /\ ~Pruned(letters, d)
         /\ \/ v \in Own(letters, d)
            \/ \E c \in Neighbours(d.cell, w) : IsAhead(letters, w, Onward(letters, d, c), v)
<1> DEFINE k == Len(d.buf)
           n == Len(v)
           u == WordOf(letters, d)
           l == LetterAt(letters, d)
           next == NodeOf(letters, d)
<1>1. PICK q : Leads(letters, w, d, v, q)
  BY DEF IsAhead
<1>2. /\ v \in Dictionary /\ v \in Seq(Letters) /\ n \in Nat /\ n >= MinWordLen
      /\ k < n /\ \A i \in 1..k : v[i] = d.buf[i]
  BY WordLength DEF IsAhead
<1>3. /\ d.cell \in Cells(w) /\ d.node \in 1..Len(Trie) /\ d.buf \in Seq(Letters) /\ k \in Nat
      /\ Bit(d.cell) = {d.cell} /\ l \in Letters
  BY GridCells DEF Searches, LetterAt
<1>4. k + 1 \in (k + 1)..n /\ q[k + 1] = d.cell
  BY <1>1, <1>2, <1>3 DEF Leads
<1>5. v[k + 1] = l /\ d.cell \notin d.used
  BY <1>1, <1>4 DEF Leads, LetterAt
<1>6. u \in Seq(Letters) /\ Len(u) = k + 1 /\ \A i \in 1..(k + 1) : u[i] = v[i]
  <2>1. /\ u \in Seq(Letters) /\ Len(u) = k + 1 /\ u[k + 1] = l
        /\ \A i \in 1..k : u[i] = d.buf[i]
    BY <1>3 DEF WordOf
  <2>2. \A i \in 1..(k + 1) : i \in 1..k \/ i = k + 1
    BY <1>3
  <2> HIDE DEF k, u, l
  <2> QED
    BY <1>2, <1>5, <2>1, <2>2
<1>7. u = SubSeq(v, 1, k + 1) /\ k + 1 \in 0..n
  <2> DEFINE a == SubSeq(v, 1, k + 1)
  <2>1. k + 1 \in 1..n
    BY <1>2, <1>3
  <2>2. a \in Seq(Letters) /\ Len(a) = k + 1 /\ \A i \in 1..(k + 1) : a[i] = v[i]
    BY <1>2, <2>1
  <2>3. k + 1 \in 0..n
    BY <2>1
  <2> HIDE DEF a, u, k, n
  <2>4. u = a
    BY <1>6, <2>2
  <2> QED
    BY <2>3, <2>4 DEF a
<1>8. Trie \in Tries /\ Named(Trie, name) /\ HoldsWords(Trie, name, Dictionary)
  BY TrieHolds DEF TrieOf, NamesTrie
<1>9. u = Append(name[d.node], l)
  BY DEF WordOf
<1>10. next # 0
  <2>1. PICK m \in 1..Len(Trie) : name[m] = u
    BY <1>2, <1>7, <1>8 DEF HoldsWords
  <2> SUFFICES ASSUME next = 0 PROVE FALSE
    OBVIOUS
  <2>2. Trie[d.node].children[l] = 0
    BY DEF NodeOf
  <2> HIDE DEF next, u, k, l
  <2>3. \A i \in 1..Len(Trie) : name[i] # Append(name[d.node], l)
    BY <1>3, <1>8, <2>2, NoSuchNode
  <2> QED
    BY <1>9, <2>1, <2>3
<1>11. ~Pruned(letters, d)
  BY <1>3, <1>5, <1>10 DEF Pruned
<1>12. next \in 1..Len(Trie) /\ name[next] = u
  <2>1. next \in 1..Len(Trie)
    BY <1>11, SearchGoesOn
  <2>2. name[next] = Append(name[d.node], l)
    BY <1>3, <1>8, <1>10 DEF NodeOf, Named
  <2> QED
    BY <1>9, <2>1, <2>2
<1>13. CASE n = k + 1
  <2>1. u = v
    BY <1>2, <1>6, <1>13
  <2>2. Trie[next].isWord
    BY <1>2, <1>8, <1>12, <2>1 DEF HoldsWords
  <2>3. v \in Own(letters, d)
    BY <1>2, <1>11, <2>1, <2>2 DEF Own
  <2> QED
    BY <1>11, <2>3
<1>14. CASE n # k + 1
  <2> DEFINE c == q[k + 2]
             x == Onward(letters, d, c)
             r == [i \in (k + 2)..n |-> q[i]]
  <2>1. /\ k + 1 < n /\ k + 1 \in (k + 1)..(n - 1) /\ (k + 1) + 1 = k + 2
        /\ k + 2 \in (k + 2)..n /\ \A i \in (k + 2)..n : i \in (k + 1)..n /\ i # k + 1
        /\ \A i \in (k + 2)..(n - 1) : i \in (k + 1)..(n - 1) /\ i + 1 \in (k + 2)..n
                                       /\ i \in (k + 2)..n
    BY <1>2, <1>3, <1>14
  <2>2. /\ q \in [(k + 1)..n -> Cells(w)]
        /\ \A i \in (k + 1)..n : letters[q[i] + 1] = v[i] /\ q[i] \notin d.used
        /\ \A i \in (k + 1)..(n - 1) : q[i + 1] \in Neighbours(q[i], w)
        /\ \A i, j \in (k + 1)..n : q[i] = q[j] => i = j
    BY <1>1 DEF Leads
  <2>3. c \in Neighbours(d.cell, w)
    <3>1. q[(k + 1) + 1] \in Neighbours(q[k + 1], w)
      BY <2>1, <2>2
    <3> HIDE DEF k
    <3> QED
      BY <1>4, <2>1, <3>1
  <2>4. x.cell = c /\ x.used = d.used \cup {d.cell} /\ x.buf = u /\ Len(x.buf) = k + 1
    BY <1>3, <1>6 DEF Onward
  <2> HIDE DEF x, k, n, u
  <2>5. r \in [(k + 2)..n -> Cells(w)] /\ \A i \in (k + 2)..n : r[i] = q[i]
    BY <2>1, <2>2
  <2> HIDE DEF r
  <2>6. \A i \in (k + 2)..n : letters[r[i] + 1] = v[i] /\ r[i] \notin d.used \cup {d.cell}
    BY <1>4, <2>1, <2>2, <2>5
  <2>7. /\ r[k + 2] = c
        /\ \A i \in (k + 2)..(n - 1) : r[i + 1] \in Neighbours(r[i], w)
        /\ \A i, j \in (k + 2)..n : r[i] = r[j] => i = j
    BY <2>1, <2>2, <2>5
  <2>8. Len(x.buf) + 1 = k + 2 /\ Len(x.buf) < n
    BY <1>3, <2>1, <2>4
  <2>9. Leads(letters, w, x, v, r)
    BY <2>4, <2>5, <2>6, <2>7, <2>8 DEF Leads, n
  <2>10. \A i \in 1..Len(x.buf) : v[i] = x.buf[i]
    BY <1>6, <2>4
  <2>11. IsAhead(letters, w, x, v)
    BY <1>2, <2>8, <2>9, <2>10 DEF IsAhead, n
  <2> QED
    BY <1>11, <2>3, <2>11 DEF x
<1> QED
  BY <1>13, <1>14

\* A search finds the words that lie before it.
LEMMA SearchFinds ==
  ASSUME NEW letters, NEW w, IsGrid(letters, w), NEW name, NamesTrie(name),
         NEW f, FindsAll(letters, w, f)
  PROVE  \A d \in Searches(w) : name[d.node] = d.buf =>
           \A v : v \in f[d] <=> IsAhead(letters, w, d, v)
<1> DEFINE Right(d) == name[d.node] = d.buf =>
                         \A v : v \in f[d] <=> IsAhead(letters, w, d, v)
           P == {n \in Nat : \A d \in Searches(w) :
                               Cardinality(FreeCells(w, d)) < n => Right(d)}
<1>1. \A d \in Searches(w) : IsFiniteSet(FreeCells(w, d)) /\ Cardinality(FreeCells(w, d)) \in Nat
  BY GridCells, FS_Subset, FS_CardinalityType DEF FreeCells
<1>2. 0 \in P
  BY <1>1
<1>3. ASSUME NEW n \in Nat, n \in P
      PROVE  n + 1 \in P
  <2>1. ASSUME NEW d \in Searches(w), Cardinality(FreeCells(w, d)) < n + 1,
               name[d.node] = d.buf
        PROVE  \A v : v \in f[d] <=> IsAhead(letters, w, d, v)
    <3>1. f[d] = Own(letters, d) \cup UNION {f[x] : x \in Started(letters, w, d)}
      BY DEF FindsAll
    <3>2. ASSUME ~Pruned(letters, d), NEW c \in Neighbours(d.cell, w)
          PROVE  \A v : v \in f[Onward(letters, d, c)]
                          <=> IsAhead(letters, w, Onward(letters, d, c), v)
      <4> DEFINE x == Onward(letters, d, c)
      <4>1. /\ x \in Searches(w) /\ FreeCells(w, x) = FreeCells(w, d) \ {d.cell}
            /\ d.cell \in FreeCells(w, d)
        BY <3>2, SearchGoesOn DEF FreeCells
      <4>2. Cardinality(FreeCells(w, x)) = Cardinality(FreeCells(w, d)) - 1
        BY <1>1, <4>1, FS_RemoveElement
      <4>3. Cardinality(FreeCells(w, x)) < n
        BY <1>1, <2>1, <4>2
      <4>4. name[x.node] = x.buf
        <5>1. x.node = NodeOf(letters, d) /\ x.buf = Append(name[d.node], LetterAt(letters, d))
          BY <2>1 DEF Onward, WordOf
        <5>2. /\ NodeOf(letters, d) # 0 /\ LetterAt(letters, d) \in Letters
              /\ d.node \in 1..Len(Trie)
          BY <3>2, SearchGoesOn DEF Searches
        <5>3. \A m \in 1..Len(Trie), a \in Letters :
                Trie[m].children[a] # 0 => name[Trie[m].children[a]] = Append(name[m], a)
          BY DEF NamesTrie, Named
        <5> HIDE DEF x
        <5> QED
          BY <5>1, <5>2, <5>3 DEF NodeOf
      <4> HIDE DEF x
      <4>5. Right(x)
        BY <1>3, <4>1, <4>3
      <4> QED
        BY <4>4, <4>5 DEF x
    <3>3. ASSUME NEW v \in f[d] PROVE IsAhead(letters, w, d, v)
      <4>1. CASE v \in Own(letters, d)
        BY <2>1, <4>1, OwnIsAhead
      <4>2. CASE v \notin Own(letters, d)
        <5>1. PICK x \in Started(letters, w, d) : v \in f[x]
          BY <3>1, <4>2
        <5>2. ~Pruned(letters, d)
          BY <5>1 DEF Started
        <5>3. PICK c \in Neighbours(d.cell, w) : x = Onward(letters, d, c)
          BY <5>1, <5>2 DEF Started
        <5>4. IsAhead(letters, w, Onward(letters, d, c), v)
          BY <3>2, <5>1, <5>2, <5>3
        <5> QED
          BY <5>2, <5>4, AheadOfStarted
      <4> QED
        BY <4>1, <4>2
    <3>4. ASSUME NEW v, IsAhead(letters, w, d, v) PROVE v \in f[d]
      <4>1. /\ ~Pruned(letters, d)
            /\ \/ v \in Own(letters, d)
               \/ \E c \in Neighbours(d.cell, w) : IsAhead(letters, w, Onward(letters, d, c), v)
        BY <2>1, <3>4, AheadGoesOn
      <4>2. CASE v \in Own(letters, d)
        BY <3>1, <4>2
      <4>3. CASE \E c \in Neighbours(d.cell, w) : IsAhead(letters, w, Onward(letters, d, c), v)
        <5>1. PICK c \in Neighbours(d.cell, w) : IsAhead(letters, w, Onward(letters, d, c), v)
          BY <4>3
        <5>2. v \in f[Onward(letters, d, c)]
          BY <3>2, <4>1, <5>1
        <5>3. Onward(letters, d, c) \in Started(letters, w, d)
          BY <4>1 DEF Started
        <5> QED
          BY <3>1, <5>2, <5>3
      <4> QED
        BY <4>1, <4>2, <4>3
    <3> QED
      BY <3>3, <3>4
  <2> QED
    BY <2>1
<1>4. Nat \subseteq P
  <2> HIDE DEF P
  <2> QED
    BY <1>2, <1>3, Stepwise
<1>5. ASSUME NEW d \in Searches(w)
      PROVE  Right(d)
  <2>1. Cardinality(FreeCells(w, d)) + 1 \in P
    BY <1>1, <1>4
  <2> HIDE DEF Right
  <2> QED
    BY <1>1, <2>1
<1> QED
  BY <1>5

\* The cells of q spell out v, each a neighbour of the one before, and none comes twice.
IsPath(letters, w, v, n, q) ==
  /\ q \in Seq(Cells(w)) /\ Len(q) = n
  /\ \A i \in 1..n : letters[q[i] + 1] = v[i]
  /\ \A i \in 1..(n - 1) : q[i + 1] \in Neighbours(q[i], w)
  /\ \A i, j \in 1..n : q[i] = q[j] => i = j

\* Solve finds the words that a path of the grid spells out.
LEMMA SolveFindsPaths ==
  ASSUME NEW letters, NEW w, IsGrid(letters, w)
  PROVE  \A v : v \in Solve(letters, w)
                  <=> v \in Dictionary /\ \E q : IsPath(letters, w, v, Len(v), q)
<1>1. PICK name : NamesTrie(name)
  BY TrieHolds DEF TrieOf, NamesTrie
<1>2. PICK f : FindsAll(letters, w, f) /\ Solve(letters, w) = UNION {f[From(c)] : c \in Cells(w)}
  BY SolveSearches
<1>3. ASSUME NEW c \in Cells(w)
      PROVE  /\ From(c).cell = c /\ From(c).used = {} /\ Len(From(c).buf) = 0
             /\ \A v : v \in f[From(c)] <=> IsAhead(letters, w, From(c), v)
  <2>1. Len(Trie) >= 1 /\ Len(Trie) \in Nat
    BY TrieHolds DEF TrieOf, Tries
  <2>2. From(c) \in Searches(w)
    BY <2>1 DEF From, Searches
  <2>3. name[From(c).node] = From(c).buf
    BY <1>1 DEF From, NamesTrie, Named
  <2>4. From(c).cell = c /\ From(c).used = {} /\ Len(From(c).buf) = 0
    BY DEF From
  <2> QED
    BY <1>1, <1>2, <2>2, <2>3, <2>4, SearchFinds
<1>4. ASSUME NEW v \in Dictionary, NEW c \in Cells(w), NEW q, Leads(letters, w, From(c), v, q)
      PROVE  IsPath(letters, w, v, Len(v), q)
  <2>1. Len(v) \in Nat /\ 0 + 1 = 1
    BY WordLength
  <2>2. /\ q \in [1..Len(v) -> Cells(w)]
        /\ \A i \in 1..Len(v) : letters[q[i] + 1] = v[i]
        /\ \A i \in 1..(Len(v) - 1) : q[i + 1] \in Neighbours(q[i], w)
        /\ \A i, j \in 1..Len(v) : q[i] = q[j] => i = j
    BY <1>3, <1>4, <2>1 DEF Leads
  <2>3. q \in Seq(Cells(w)) /\ Len(q) = Len(v)
    BY <2>1, <2>2
  <2> QED
    BY <2>2, <2>3 DEF IsPath
<1>5. ASSUME NEW v \in Dictionary, NEW q, IsPath(letters, w, v, Len(v), q)
      PROVE  q[1] \in Cells(w) /\ IsAhead(letters, w, From(q[1]), v)
  <2>1. Len(v) \in Nat /\ Len(v) >= 3 /\ 0 + 1 = 1
    BY WordLength
  <2>2. q \in [1..Len(v) -> Cells(w)] /\ q[1] \in Cells(w)
    BY <1>5, <2>1 DEF IsPath
  <2>3. From(q[1]).cell = q[1] /\ From(q[1]).used = {} /\ Len(From(q[1]).buf) = 0
    BY <1>3, <2>2
  <2>4. Leads(letters, w, From(q[1]), v, q)
    BY <1>5, <2>1, <2>2, <2>3 DEF IsPath, Leads
  <2>5. 0 < Len(v) /\ \A i \in 1..0 : FALSE
    BY <2>1
  <2> QED
    BY <2>2, <2>3, <2>4, <2>5 DEF IsAhead
<1>6. ASSUME NEW v, v \in Solve(letters, w)
      PROVE  v \in Dictionary /\ \E q : IsPath(letters, w, v, Len(v), q)
  <2>1. PICK c \in Cells(w) : v \in f[From(c)]
    BY <1>2, <1>6
  <2>2. IsAhead(letters, w, From(c), v)
    BY <1>3, <2>1
  <2> QED
    BY <1>4, <2>2 DEF IsAhead
<1>7. ASSUME NEW v \in Dictionary, NEW q, IsPath(letters, w, v, Len(v), q)
      PROVE  v \in Solve(letters, w)
  <2>1. q[1] \in Cells(w) /\ v \in f[From(q[1])]
    BY <1>3, <1>5, <1>7
  <2> QED
    BY <1>2, <2>1
<1> QED
  BY <1>6, <1>7

\* Traced makes paths one cell longer, and keeps the legal ones.
Grown(letters, w, paths, l) ==
  {p \in {Append(p, c) : p \in paths, c \in {k \in 0..(w * w - 1) : letters[k + 1] = l}} :
     /\ IsInjective(p)
     /\ \A i \in 1..(Len(p) - 1) : p[i + 1] \in Neighbours(p[i], w)}

\* Of the paths for the first letters it makes those for one letter more.
LEMMA PathsGrow ==
  ASSUME NEW letters, NEW w, IsGrid(letters, w), NEW v \in Seq(Letters),
         NEW k \in Nat, NEW paths, \A p : p \in paths <=> IsPath(letters, w, v, k, p)
  PROVE  \A p : p \in Grown(letters, w, paths, v[k + 1])
                  <=> IsPath(letters, w, v, k + 1, p)
<1>1. ASSUME NEW p \in Grown(letters, w, paths, v[k + 1])
      PROVE  IsPath(letters, w, v, k + 1, p)
  <2>1. PICK q \in paths, c \in Cells(w) : p = Append(q, c) /\ letters[c + 1] = v[k + 1]
    BY <1>1 DEF Grown, Cells
  <2>2. IsPath(letters, w, v, k, q)
    OBVIOUS
  <2>3. q \in Seq(Cells(w)) /\ Len(q) = k /\ \A i \in 1..k : letters[q[i] + 1] = v[i]
    BY <2>2 DEF IsPath
  <2>4. /\ p \in Seq(Cells(w)) /\ Len(p) = k + 1 /\ p[k + 1] = c /\ DOMAIN p = 1..(k + 1)
        /\ \A i \in 1..k : p[i] = q[i]
    BY <2>1, <2>3
  <2>5. \A i \in 1..(k + 1) : i \in 1..k \/ i = k + 1
    OBVIOUS
  <2>6. \A i \in 1..(k + 1) : letters[p[i] + 1] = v[i]
    BY <2>1, <2>3, <2>4, <2>5
  <2>7. /\ \A i, j \in 1..(k + 1) : p[i] = p[j] => i = j
        /\ \A i \in 1..(k + 1 - 1) : p[i + 1] \in Neighbours(p[i], w)
    <3>1. /\ \A i, j \in DOMAIN p : p[i] = p[j] => i = j
          /\ \A i \in 1..(Len(p) - 1) : p[i + 1] \in Neighbours(p[i], w)
      BY <1>1 DEF Grown, IsInjective
    <3> QED
      BY <2>4, <3>1
  <2> QED
    BY <2>4, <2>6, <2>7 DEF IsPath
<1>2. ASSUME NEW p, IsPath(letters, w, v, k + 1, p)
      PROVE  p \in Grown(letters, w, paths, v[k + 1])
  <2> DEFINE q == SubSeq(p, 1, k)
             c == p[k + 1]
  <2>1. /\ p \in Seq(Cells(w)) /\ Len(p) = k + 1 /\ DOMAIN p = 1..(k + 1)
        /\ \A i \in 1..(k + 1) : letters[p[i] + 1] = v[i]
        /\ \A i \in 1..(k + 1 - 1) : p[i + 1] \in Neighbours(p[i], w)
        /\ \A i, j \in 1..(k + 1) : p[i] = p[j] => i = j
    BY <1>2 DEF IsPath
  <2>2. c \in Cells(w) /\ letters[c + 1] = v[k + 1]
    BY <2>1
  <2>3. q \in Seq(Cells(w)) /\ Len(q) = k /\ \A i \in 1..k : q[i] = p[i]
    BY <2>1
  <2> HIDE DEF q, c
  <2>4. p = Append(q, c)
    <3>1. /\ Append(q, c) \in Seq(Cells(w)) /\ Len(Append(q, c)) = k + 1
          /\ \A i \in 1..(k + 1) : Append(q, c)[i] = p[i]
      BY <2>2, <2>3 DEF c
    <3> QED
      BY <2>1, <3>1
  <2>5. IsPath(letters, w, v, k, q)
    <3>1. /\ \A i \in 1..k : i \in 1..(k + 1) /\ i \in 1..(k + 1 - 1)
          /\ \A i \in 1..(k - 1) : i \in 1..k /\ i + 1 \in 1..k
      OBVIOUS
    <3> QED
      BY <2>1, <2>3, <3>1 DEF IsPath
  <2>6. q \in paths
    BY <2>5
  <2>7. IsInjective(p) /\ \A i \in 1..(Len(p) - 1) : p[i + 1] \in Neighbours(p[i], w)
    BY <2>1 DEF IsInjective
  <2>8. p \in {Append(x, y) : x \in paths, y \in {j \in 0..(w * w - 1) : letters[j + 1] = v[k + 1]}}
    BY <2>2, <2>4, <2>6 DEF Cells
  <2> QED
    BY <2>7, <2>8 DEF Grown
<1> QED
  BY <1>1, <1>2

\* A word is traced when a path spells it out.
LEMMA TracedByPath ==
  ASSUME NEW letters, NEW w, IsGrid(letters, w), NEW v \in Seq(Letters)
  PROVE  Traced(v, letters, w) <=> \E q : IsPath(letters, w, v, Len(v), q)
<1> DEFINE D == DOMAIN v
           n == Len(v)
           base == {<<>>}
           V == SUBSET Seq(Cells(w))
           Iter(h) == h = [s \in SUBSET D |->
                             IF s = {} THEN base
                             ELSE Grown(letters, w, h[s \ {Max(s)}], v[Max(s)])]
           step == [x \in V \X D |-> Grown(letters, w, x[1], v[x[2]])]
           fold == CHOOSE h : Iter(h)
<1>1. Traced(v, letters, w) <=> fold[D] # {}
  BY DEF Traced, FoldLeft, MapThenFoldSet, Grown
<1>2. n \in Nat /\ D = 1..n
  OBVIOUS
<1>3. base \in V
  OBVIOUS
<1>4. step \in [V \X (1..n) -> V]
  <2>1. ASSUME NEW paths \in V, NEW l
        PROVE  Grown(letters, w, paths, l) \in V
    <3>1. ASSUME NEW p \in Grown(letters, w, paths, l)
          PROVE  p \in Seq(Cells(w))
      <4>1. PICK q \in paths, c \in Cells(w) : p = Append(q, c)
        BY <3>1 DEF Grown, Cells
      <4>2. q \in Seq(Cells(w))
        OBVIOUS
      <4> QED
        BY <4>1, <4>2
    <3> QED
      BY <3>1
  <2> HIDE DEF V
  <2> QED
    BY <1>2, <2>1
<1>5. PICK h : FoldsPlaces(n, V, base, step, h)
  <2> HIDE DEF step, D, Iter, fold, V, base, n
  <2> QED
    BY <1>2, <1>3, <1>4, FoldExists
<1>6. \A s \in SUBSET D : s # {} => Max(s) \in s
  BY <1>2, MaxTakesOne
<1>7. ASSUME NEW s \in SUBSET D, s # {}, NEW a \in V
      PROVE  step[<<a, Max(s)>>] = Grown(letters, w, a, v[Max(s)])
  <2> HIDE DEF V
  <2> QED
    BY <1>6, <1>7
<1>8. Iter(h)
  <2> HIDE DEF step, V, base
  <2> QED
    BY <1>2, <1>5, <1>7 DEF FoldsPlaces
<1>9. Iter(fold)
  <2> HIDE DEF Iter
  <2> QED
    BY <1>8
<1>10. Follows(n, V, base, step, fold)
  <2> HIDE DEF step, fold, V, base
  <2> QED
    BY <1>2, <1>7, <1>9 DEF Follows
<1>11. PICK g : Steps(n, V, base, step, fold, g)
  <2> HIDE DEF step, D, Iter, fold, V, base, n
  <2> QED
    BY <1>2, <1>3, <1>4, <1>10, FoldSteps
<1>12. /\ g[0] = {<<>>} /\ fold[D] = g[n]
       /\ \A k \in 1..n : g[k] = Grown(letters, w, g[k - 1], v[k])
  <2>1. \A k \in 1..n : k - 1 \in 0..n /\ g[k - 1] \in V
    <3>1. \A k \in 1..n : k - 1 \in 0..n
      BY <1>2
    <3> HIDE DEF V, fold, step, base
    <3> QED
      BY <1>11, <3>1 DEF Steps
  <2>2. \A k \in 1..n : step[<<g[k - 1], k>>] = Grown(letters, w, g[k - 1], v[k])
    <3> HIDE DEF V, n, D
    <3> QED
      BY <1>2, <2>1
  <2> HIDE DEF V, step, fold
  <2> QED
    BY <1>2, <1>11, <2>2 DEF Steps
<1> HIDE DEF fold, Iter, step, V, D
<1> DEFINE P == {k \in Nat : k \in 0..n => \A p : p \in g[k] <=> IsPath(letters, w, v, k, p)}
<1>13. 0 \in P
  <2>1. ASSUME NEW p, IsPath(letters, w, v, 0, p) PROVE p = <<>>
    BY <2>1 DEF IsPath
  <2>2. IsPath(letters, w, v, 0, <<>>)
    <3>1. \A i \in 1..0 : FALSE
      OBVIOUS
    <3>2. \A i \in 1..(0 - 1) : FALSE
      OBVIOUS
    <3>3. <<>> \in Seq(Cells(w)) /\ Len(<<>>) = 0
      OBVIOUS
    <3> QED
      BY <3>1, <3>2, <3>3 DEF IsPath
  <2> QED
    BY <1>12, <2>1, <2>2
<1>14. ASSUME NEW k \in Nat, k \in P PROVE k + 1 \in P
  <2>1. ASSUME k + 1 \in 0..n
        PROVE  \A p : p \in g[k + 1] <=> IsPath(letters, w, v, k + 1, p)
    <3>1. k \in 0..n /\ k + 1 \in 1..n /\ (k + 1) - 1 = k
      BY <1>2, <2>1
    <3>2. g[k + 1] = Grown(letters, w, g[k], v[k + 1])
      BY <1>12, <3>1
    <3>3. \A p : p \in g[k] <=> IsPath(letters, w, v, k, p)
      BY <1>14, <3>1
    <3> DEFINE paths == g[k]
    <3> HIDE DEF paths, n
    <3>4. \A p : p \in Grown(letters, w, paths, v[k + 1]) <=> IsPath(letters, w, v, k + 1, p)
      <4>1. \A p : p \in paths <=> IsPath(letters, w, v, k, p)
        BY <3>3 DEF paths
      <4> QED
        BY <4>1, PathsGrow
    <3> QED
      BY <3>2, <3>4 DEF paths
  <2> QED
    BY <2>1
<1>15. \A p : p \in g[n] <=> IsPath(letters, w, v, n, p)
  <2> HIDE DEF P
  <2>1. n \in P /\ n \in 0..n
    BY <1>2, <1>13, <1>14, Stepwise
  <2> QED
    BY <2>1 DEF P
<1> QED
  BY <1>1, <1>12, <1>15

\* The solver finds the words that can be traced.
LEMMA SolveIsReal ==
  ASSUME NEW letters, NEW w, IsGrid(letters, w)
  PROVE  Solve(letters, w) = {v \in Dictionary : Traced(v, letters, w)}
<1>1. \A v \in Dictionary : v \in Seq(Letters)
  BY WordLength
<1>2. \A v \in Dictionary : Traced(v, letters, w) <=> \E q : IsPath(letters, w, v, Len(v), q)
  BY <1>1, TracedByPath
<1> QED
  BY <1>2, SolveFindsPaths

-----------------------------------------------------------------------------
(* The words of a board *)

\* The words found on a rack are told by its multiset of letters.
LEMMA FoundAreSpelled ==
  ASSUME NEW r \in Seq(Letters)
  PROVE  FindWords(r) = {w \in Dictionary : Spelled(w, r)}
<1> SUFFICES ASSUME NEW w \in Dictionary
             PROVE  CanBuild(w, r) <=> Spelled(w, r)
  BY DEF FindWords
<1> DEFINE limit == [l \in Letters |-> LetterCount(r, l)]
<1>1. \A s, l : LetterCount(s, l) = Cardinality(Places(s, l))
  BY DEF LetterCount, Places
<1>2. w \in Seq(Letters)
  BY WordLength
<1>3. limit \in [Letters -> Nat]
  BY <1>1, PlacesFinite
<1>4. (\A n \in DOMAIN w : Cardinality(Places(SubSeq(w, 1, n), w[n])) <= limit[w[n]])
        <=> (\A l \in Letters : Cardinality(Places(w, l)) <= limit[l])
  <2> HIDE DEF limit
  <2> QED
    BY <1>2, <1>3, CountedWithin
<1>5. \A n \in DOMAIN w : w[n] \in Letters
  BY <1>2
<1>6. CanBuild(w, r)
        <=> \A n \in DOMAIN w : Cardinality(Places(SubSeq(w, 1, n), w[n])) <= limit[w[n]]
  BY <1>1, <1>5 DEF CanBuild
<1>7. Spelled(w, r) <=> \A l \in Letters : Cardinality(Places(w, l)) <= limit[l]
  BY <1>1 DEF Spelled
<1> QED
  BY <1>4, <1>6, <1>7

\* How many letters a rack has, and which of them are vowels.
RackOf(size, n, r) ==
  /\ r \in Seq(Letters) /\ Len(r) = n + (size - RackVowels(size))
  /\ \A i \in 1..n : r[i] \in Vowels
  /\ \A i \in (n + 1)..(n + (size - RackVowels(size))) : r[i] \in Consonants

\* A drawn rack has its vowels and then its consonants; a rack of one letter, for which the
\* number of vowels is negative, has no vowel and two consonants.
LEMMA RackDrawn ==
  ASSUME NEW size \in Nat \ {0}, NEW r \in DrawRack(size)
  PROVE  RackOf(size, IF size = 1 THEN 0 ELSE RackVowels(size), r)
<1> DEFINE n == IF size = 1 THEN 0 ELSE RackVowels(size)
           m == size - RackVowels(size)
<1>1. /\ n \in Nat /\ m \in Nat /\ (1..RackVowels(size)) = 1..n
  <2>1. CASE size = 1
    BY <2>1 DEF RackVowels, SmallerOf, LargerOf
  <2>2. CASE size # 1
    <3>1. size \div 3 \in Nat /\ size \div 3 <= size
      OBVIOUS
    <3> QED
      BY <2>2, <3>1 DEF RackVowels, SmallerOf, LargerOf
  <2> QED
    BY <2>1, <2>2
<1>2. PICK v \in DrawnFrom(Vowels, RackVowels(size)), c \in DrawnFrom(Consonants, m) : r = v \o c
  BY DEF DrawRack
<1>3. v \in [1..n -> Vowels] /\ c \in [1..m -> Consonants]
  BY <1>1, <1>2 DEF DrawnFrom
<1> HIDE DEF n, m
<1>4. /\ v \in Seq(Letters) /\ Len(v) = n /\ \A i \in 1..n : v[i] \in Vowels
      /\ c \in Seq(Letters) /\ Len(c) = m /\ \A i \in 1..m : c[i] \in Consonants
  <2>1. Vowels \subseteq Letters /\ Consonants \subseteq Letters
    BY BoardsAssumption DEF Consonants
  <2> QED
    BY <1>1, <1>3, <2>1
<1>5. /\ r \in Seq(Letters) /\ Len(r) = n + m
      /\ \A i \in 1..n : r[i] = v[i]
      /\ \A i \in (n + 1)..(n + m) : r[i] = c[i - n] /\ i - n \in 1..m
  <2>1. v \o c \in Seq(Letters) /\ Len(v \o c) = n + m
    BY <1>4
  <2>2. \A i \in 1..n : i \in 1..(n + m) /\ i <= n
    BY <1>1
  <2>3. \A i \in (n + 1)..(n + m) : i \in 1..(n + m) /\ ~(i <= n) /\ i - n \in 1..m
    BY <1>1
  <2>4. \A i \in 1..(n + m) : (v \o c)[i] = IF i <= n THEN v[i] ELSE c[i - n]
    BY <1>4
  <2> QED
    BY <1>2, <2>1, <2>2, <2>3, <2>4
<1> QED
  BY <1>4, <1>5 DEF RackOf, n, m

\* A goal has a board whose words the program finds, all of them and no other.
LEMMA WordsOfGoal ==
  ASSUME NEW g \in Goals, NEW letters \in DrawBoard(g)
  PROVE  Words(g, letters) = RealWords[<<g, letters>>]
<1>1. <<g, letters>> \in Drawable
  BY DEF Drawable
<1>2. CASE g.kind = "rack"
  <2>1. g.size \in Nat \ {0}
    <3>1. g.size \in (4..8) \cup DailySizes \/ g.size \in 4..6
      BY DEF Goals
    <3>2. DailySizes \subseteq Nat \ {0} /\ 4..8 \subseteq Nat \ {0} /\ 4..6 \subseteq Nat \ {0}
      BY SoloAssumption
    <3> QED
      BY <3>1, <3>2
  <2>2. letters \in Seq(Letters)
    BY <1>2, <2>1, RackDrawn DEF DrawBoard, RackOf
  <2>3. Words(g, letters) = {w \in Dictionary : Spelled(w, letters)}
    BY <1>2, <2>2, FoundAreSpelled DEF Words
  <2> QED
    BY <1>1, <1>2, <2>3 DEF RealWords
<1>3. CASE g.kind # "rack"
  <2>1. g.size \in 4..6 /\ letters \in Grids[g.size]
    BY <1>3 DEF Goals, DrawBoard
  <2>2. IsGrid(letters, g.size)
    BY <2>1, SoloAssumption DEF IsGrid
  <2>3. Words(g, letters) = {w \in Dictionary : Traced(w, letters, g.size)}
    BY <1>3, <2>2, SolveIsReal DEF Words
  <2> QED
    BY <1>1, <1>3, <2>3 DEF RealWords
<1> QED
  BY <1>2, <1>3

\* The words of a board are finitely many, and none is empty.
LEMMA GoalWords ==
  ASSUME NEW g \in Goals, NEW letters \in DrawBoard(g)
  PROVE  /\ Words(g, letters) = RealWords[<<g, letters>>]
         /\ IsFiniteSet(Words(g, letters)) /\ Cardinality(Words(g, letters)) \in Nat
         /\ <<>> \notin Words(g, letters)
<1>1. Words(g, letters) = RealWords[<<g, letters>>]
  BY WordsOfGoal
<1>2. RealWords[<<g, letters>>] \subseteq Dictionary
  <2>1. <<g, letters>> \in Drawable
    BY DEF Drawable
  <2> QED
    BY <2>1 DEF RealWords
<1>3. IsFiniteSet(Dictionary)
  <2>1. Dictionary \subseteq WordList
    BY DEF Dictionary
  <2> QED
    BY <2>1, LexiconAssumption, FS_Subset
<1>4. <<>> \notin Dictionary
  <2>1. Len(<<>>) = 0
    OBVIOUS
  <2> QED
    BY <2>1, WordLength
<1>5. IsFiniteSet(Words(g, letters))
  BY <1>1, <1>2, <1>3, FS_Subset
<1> QED
  BY <1>1, <1>2, <1>4, <1>5, FS_CardinalityType

-----------------------------------------------------------------------------
(* The loop *)

\* A drawn board with its words.
Board(g, letters) == [letters |-> letters, words |-> Words(g, letters)]

\* A board of the goal that has a word.
IsBoard(b) ==
  \E letters \in drawn : b = Board(goal, letters) /\ Words(goal, letters) # {}

\* Nothing is drawn before there is a goal; then the best board is one of those drawn, as
\* long as one has a word, and no other has more.
Generating ==
  /\ goal \in {NoGoal} \cup Goals
  /\ goal = NoGoal => best = Blank /\ result = Pending /\ drawn = {}
  /\ goal # NoGoal =>
       /\ drawn \subseteq DrawBoard(goal)
       /\ best = Blank \/ IsBoard(best)
       /\ \A letters \in drawn : Cardinality(Words(goal, letters)) <= Cardinality(best.words)
       /\ result \in {Pending, Blank} \/ IsBoard(result)

Inv == Asking /\ Generating

\* No goal is no goal of a request.
LEMMA NoGoalApart == NoGoal \notin Goals
BY DEF NoGoal, Goals

\* The number of words that is enough is not 0.
LEMMA FloorHolds ==
  ASSUME NEW g \in Goals
  PROVE  MinWords(g) \in Nat /\ MinWords(g) > 0
<1>1. g.size \in Nat
  <2>1. g.size \in (4..8) \cup DailySizes \/ g.size \in 4..6
    BY DEF Goals
  <2>2. DailySizes \subseteq Nat /\ 4..8 \subseteq Nat /\ 4..6 \subseteq Nat
    BY SoloAssumption
  <2> QED
    BY <2>1, <2>2
<1> DEFINE s == g.size
           c == s * s
<1>2. s \in Nat /\ c \in Nat
  BY <1>1
<1> HIDE DEF s, c
<1>3. RackMinWords(s) \in Nat /\ RackMinWords(s) > 0
  BY <1>2 DEF RackMinWords
<1>4. GridMinWords(c) \in Nat /\ GridMinWords(c) > 0
  BY <1>2 DEF GridMinWords
<1> QED
  BY <1>3, <1>4 DEF MinWords, s, c

\* What a drawn board does to the best one and to the answer.
Drawn(letters) ==
  /\ letters \in DrawBoard(goal) /\ tries' = tries + 1
  /\ best' = IF Cardinality(Words(goal, letters)) > Cardinality(best.words)
             THEN Board(goal, letters) ELSE best
  /\ result' = IF Cardinality(Words(goal, letters)) >= MinWords(goal) THEN Board(goal, letters)
               ELSE IF tries' = MaxTries THEN best' ELSE Pending
  /\ drawn' = drawn \cup {letters}

\* A round of the loop draws one board.
LEMMA DrawDraws ==
  ASSUME Draw
  PROVE  goal # NoGoal /\ result = Pending /\ asked' = asked /\ goal' = goal
         /\ \E letters \in DrawBoard(goal) : Drawn(letters)
BY DEF Draw, Drawn, Board, Better, Outcome, Counted

\* The best board after a draw.
LEMMA BestKept ==
  ASSUME Inv, goal \in Goals, goal' = goal, NEW letters, Drawn(letters)
  PROVE  /\ drawn' \subseteq DrawBoard(goal) /\ letters \in drawn'
         /\ best' = Blank \/ IsBoard(best)'
         /\ Cardinality(best'.words) \in Nat
         /\ \A x \in drawn' : Cardinality(Words(goal, x)) <= Cardinality(best'.words)
<1>1. letters \in DrawBoard(goal) /\ drawn' = drawn \cup {letters} /\ goal # NoGoal
  BY NoGoalApart DEF Drawn
<1>2. /\ drawn \subseteq DrawBoard(goal) /\ (best = Blank \/ IsBoard(best))
      /\ \A x \in drawn : Cardinality(Words(goal, x)) <= Cardinality(best.words)
  BY <1>1 DEF Inv, Generating
<1>3. \A x \in DrawBoard(goal) : /\ Cardinality(Words(goal, x)) \in Nat
                                 /\ Words(goal, x) = {} => Cardinality(Words(goal, x)) = 0
  BY GoalWords, FS_EmptySet
<1>4. Cardinality(best.words) \in Nat
  <2>1. CASE best = Blank
    BY <2>1, FS_EmptySet DEF Blank
  <2>2. CASE IsBoard(best)
    <3>1. PICK x \in drawn : best = Board(goal, x)
      BY <2>2 DEF IsBoard
    <3>2. best.words = Words(goal, x) /\ x \in DrawBoard(goal)
      BY <1>2, <3>1 DEF Board
    <3> QED
      BY <1>3, <3>2
  <2> QED
    BY <1>2, <2>1, <2>2
<1>5. CASE Cardinality(Words(goal, letters)) > Cardinality(best.words)
  <2>1. best' = Board(goal, letters) /\ Words(goal, letters) # {}
    <3>1. best' = Board(goal, letters)
      BY <1>5 DEF Drawn
    <3>2. Words(goal, letters) # {}
      BY <1>1, <1>3, <1>4, <1>5
    <3> QED
      BY <3>1, <3>2
  <2>2. best'.words = Words(goal, letters)
    BY <2>1 DEF Board
  <2>3. IsBoard(best)'
    BY <1>1, <2>1 DEF IsBoard, Board
  <2>4. \A x \in drawn' : Cardinality(Words(goal, x)) <= Cardinality(Words(goal, letters))
    <3> SUFFICES ASSUME NEW x \in drawn'
                 PROVE  Cardinality(Words(goal, x)) <= Cardinality(Words(goal, letters))
      OBVIOUS
    <3> DEFINE m == Cardinality(Words(goal, x))
               n == Cardinality(Words(goal, letters))
               b == Cardinality(best.words)
    <3>0. x \in drawn \/ x = letters
      BY <1>1
    <3>1. m \in Nat /\ n \in Nat /\ b \in Nat /\ n > b /\ (m <= b \/ m = n)
      <4>1. m \in Nat /\ n \in Nat
        BY <1>1, <1>2, <1>3, <3>0
      <4>2. m <= b \/ m = n
        BY <1>2, <3>0
      <4> QED
        BY <1>4, <1>5, <4>1, <4>2
    <3> HIDE DEF m, n, b
    <3>2. m <= n
      BY <3>1
    <3> QED
      BY <3>2 DEF m, n
  <2>5. drawn' \subseteq DrawBoard(goal) /\ letters \in drawn'
    BY <1>1, <1>2
  <2>6. Cardinality(best'.words) \in Nat
    BY <1>1, <1>3, <2>2
  <2>7. \A x \in drawn' : Cardinality(Words(goal, x)) <= Cardinality(best'.words)
    BY <2>2, <2>4
  <2> QED
    BY <2>3, <2>5, <2>6, <2>7
<1>6. CASE ~(Cardinality(Words(goal, letters)) > Cardinality(best.words))
  <2>1. best' = best
    BY <1>6 DEF Drawn
  <2>2. best' = Blank \/ IsBoard(best)'
    BY <1>1, <1>2, <2>1 DEF IsBoard, Board
  <2>3. Cardinality(Words(goal, letters)) <= Cardinality(best.words)
    <3> DEFINE n == Cardinality(Words(goal, letters))
               b == Cardinality(best.words)
    <3>1. n \in Nat /\ b \in Nat /\ ~(n > b)
      BY <1>1, <1>3, <1>4, <1>6
    <3> HIDE DEF n, b
    <3>2. n <= b
      BY <3>1
    <3> QED
      BY <3>2 DEF n, b
  <2>4. drawn' \subseteq DrawBoard(goal) /\ letters \in drawn'
    BY <1>1, <1>2
  <2>5. Cardinality(best'.words) \in Nat
    BY <1>4, <2>1
  <2>6. \A x \in drawn' : Cardinality(Words(goal, x)) <= Cardinality(best'.words)
    <3>1. \A x \in drawn' : Cardinality(Words(goal, x)) <= Cardinality(best.words)
      BY <1>1, <1>2, <2>3
    <3> QED
      BY <2>1, <3>1
  <2> QED
    BY <2>2, <2>4, <2>5, <2>6
<1> QED
  BY <1>5, <1>6

\* The invariant holds at first.
LEMMA InitInv == Init => Inv
BY DEF Init, Inv, Asking, Generating

\* Every step keeps the invariant.
LEMMA NextInv == Inv /\ [Next]_vars => Inv'
<1> SUFFICES ASSUME Inv, [Next]_vars PROVE Inv'
  OBVIOUS
<1>1. ASSUME NEW kind \in Kinds, SoloRequest(kind) PROVE Inv'
  <2>1. PICK q \in Queries : asked' = [kind |-> kind, query |-> q]
    BY <1>1 DEF SoloRequest
  <2>2. goal = NoGoal /\ goal' = goal /\ best' = best /\ result' = result /\ drawn' = drawn
    BY <1>1 DEF SoloRequest, Idle
  <2>3. Asking'
    BY <2>1, <2>2 DEF Asking
  <2>4. Generating'
    BY <2>2 DEF Inv, Generating
  <2> QED
    BY <2>3, <2>4 DEF Inv
<1>2. ASSUME NEW g \in Goals, Generate(g), goal = NoGoal
      PROVE  Generating'
  BY <1>2, NoGoalApart DEF Inv, Generating, Generate
<1>3. CASE ReadSize
  <2>1. asked # NoQuery /\ Asking /\ goal = NoGoal /\ asked' = NoQuery
    BY <1>3 DEF ReadSize, Inv, Asking
  <2> DEFINE g == [kind |-> asked.kind,
                   size |-> Clamp(asked.kind, IntQuery(asked.query, DefaultSize[asked.kind]))]
  <2>2. Generate(g) /\ goal' = g
    BY <1>3 DEF ReadSize, Generate
  <2>3. g.size \in 4..(IF asked.kind = "rack" THEN 8 ELSE 6)
    BY <1>3, <2>1, <2>2, ReadSizeServes
  <2>4. asked.kind \in Kinds
    BY <2>1 DEF Asking
  <2>5. g \in Goals
    BY <2>3, <2>4 DEF Goals, Kinds
  <2> HIDE DEF g
  <2> QED
    BY <1>2, <2>1, <2>2, <2>5 DEF Inv, Asking
<1>4. CASE DailyRequest
  <2>1. PICK s \in DailySizes : Generate([kind |-> "rack", size |-> s])
    BY <1>4 DEF DailyRequest
  <2>2. [kind |-> "rack", size |-> s] \in Goals
    BY DEF Goals
  <2>3. goal = NoGoal /\ asked = NoQuery /\ asked' = asked
    BY <1>4 DEF DailyRequest, Idle
  <2> QED
    BY <1>2, <2>1, <2>2, <2>3 DEF Inv, Asking
<1>5. CASE Draw
  <2>1. PICK letters \in DrawBoard(goal) : Drawn(letters)
    BY <1>5, DrawDraws
  <2>2. goal # NoGoal /\ result = Pending /\ asked' = asked /\ goal' = goal /\ goal \in Goals
    BY <1>5, DrawDraws DEF Inv, Generating
  <2>3. /\ drawn' \subseteq DrawBoard(goal) /\ letters \in drawn'
        /\ best' = Blank \/ IsBoard(best)'
        /\ \A x \in drawn' : Cardinality(Words(goal, x)) <= Cardinality(best'.words)
    BY <2>1, <2>2, BestKept
  <2>4. result' \in {Pending, Blank} \/ IsBoard(result)'
    <3>1. CASE Cardinality(Words(goal, letters)) >= MinWords(goal)
      <4>1. result' = Board(goal, letters)
        BY <2>1, <3>1 DEF Drawn
      <4>2. Words(goal, letters) # {}
        <5> DEFINE n == Cardinality(Words(goal, letters))
                   m == MinWords(goal)
        <5>1. n \in Nat /\ m \in Nat /\ m > 0 /\ n >= m
          BY <2>2, <3>1, GoalWords, FloorHolds
        <5> HIDE DEF n, m
        <5>2. n # 0
          BY <5>1
        <5> QED
          BY <5>2, FS_EmptySet DEF n
      <4> QED
        BY <2>2, <2>3, <4>1, <4>2 DEF IsBoard, Board
    <3>2. CASE ~(Cardinality(Words(goal, letters)) >= MinWords(goal))
      <4>1. result' \in {best', Pending}
        BY <2>1, <3>2 DEF Drawn
      <4>2. result' = best' => result' = Blank \/ IsBoard(result)'
        BY <2>3 DEF IsBoard
      <4> QED
        BY <4>1, <4>2
    <3> QED
      BY <3>1, <3>2
  <2>5. Generating'
    BY <2>2, <2>3, <2>4 DEF Generating
  <2>6. Asking'
    BY <2>2 DEF Inv, Asking
  <2> QED
    BY <2>5, <2>6 DEF Inv
<1>6. CASE UNCHANGED vars
  BY <1>6 DEF vars, Inv, Asking, Generating, IsBoard
<1> QED
  BY <1>1, <1>3, <1>4, <1>5, <1>6 DEF Next

\* The invariant holds always.
LEMMA Invariance == Spec => []Inv
<1> QED
  BY InitInv, NextInv, PTL DEF Spec, Safety

-----------------------------------------------------------------------------
(* The theorems *)

\* Whatever is asked, the board has a size the program offers, the nearest one to the
\* number in the query or to the default: the size of handleSoloRack and handleSoloGrid.
THEOREM SizesServed == Spec => SizeIsServed
<1>1. ASSUME Inv, [Next]_vars, asked # NoQuery
      PROVE  ReadSize \/ UNCHANGED vars
  <2>1. goal = NoGoal
    BY <1>1 DEF Inv, Asking
  <2>2. (\A kind \in Kinds : ~SoloRequest(kind)) /\ ~DailyRequest /\ ~Draw
    BY <1>1, <2>1 DEF SoloRequest, DailyRequest, Idle, Draw
  <2> QED
    BY <1>1, <2>2 DEF Next
<1>2. Inv /\ [Next]_vars =>
        [asked # NoQuery =>
           LET q == asked.query
               limit == IF asked.kind = "rack" THEN 8 ELSE 6
               number == IF q = <<>> \/ Contains(q, Other) THEN DefaultSize[asked.kind]
                         ELSE FoldLeft(LAMBDA n, c : 10 * n + c, 0, q) IN
           /\ goal'.size \in 4..limit
           /\ number <= MaxInt =>
                \A s \in 4..limit : Distance(s, number) >= Distance(goal'.size, number)]_vars
  BY <1>1, ReadSizeServes DEF Inv
<1> QED
  BY <1>2, Invariance, PTL DEF Spec, Safety, SizeIsServed

\* A board, when it is one that was drawn, has the words that can be played on it.
LEMMA BoardsAreReal ==
  ASSUME Inv, NEW b \in {best, result} \ {Blank, Pending}
  PROVE  /\ goal \in Goals /\ b.letters \in DrawBoard(goal)
         /\ b.words = RealWords[<<goal, b.letters>>] /\ b.words # {}
<1>1. goal # NoGoal /\ goal \in Goals /\ drawn \subseteq DrawBoard(goal) /\ IsBoard(b)
  BY DEF Inv, Generating
<1>2. PICK letters \in drawn : b = Board(goal, letters) /\ Words(goal, letters) # {}
  BY <1>1 DEF IsBoard
<1>3. b.letters = letters /\ b.words = Words(goal, letters)
  BY <1>2 DEF Board
<1> QED
  BY <1>1, <1>2, <1>3, GoalWords

\* The words that are sent with a board are the ones that can be played on it: what
\* rack.Generate gets from FindWords, and grid.Generate from Solve.
THEOREM WordsReal == Spec => []WordsAreReal
<1>1. Inv => WordsAreReal
  BY BoardsAreReal DEF WordsAreReal
<1> QED
  BY <1>1, Invariance, PTL

\* Two different values are two.
LEMMA PairCounts ==
  ASSUME NEW i, NEW j, i # j
  PROVE  IsFiniteSet({i, j}) /\ Cardinality({i, j}) = 2
<1>1. IsFiniteSet({i}) /\ Cardinality({i}) = 1 /\ j \notin {i}
  BY FS_Singleton
<1>2. IsFiniteSet({i} \cup {j}) /\ Cardinality({i} \cup {j}) = Cardinality({i}) + 1
  BY <1>1, FS_AddElement
<1>3. Cardinality({i} \cup {j}) = 2
  BY <1>1, <1>2
<1>4. {i} \cup {j} = {i, j}
  OBVIOUS
<1> QED
  BY <1>2, <1>3, <1>4, Zenon

\* No word is spelled with two letters.
LEMMA TwoAreTooFew ==
  ASSUME NEW r \in Seq(Letters), Len(r) = 2, NEW w \in Dictionary
  PROVE  ~Spelled(w, r)
<1> SUFFICES ASSUME Spelled(w, r) PROVE FALSE
  OBVIOUS
<1>1. /\ w \in Seq(Letters) /\ Len(w) >= 3 /\ Len(w) \in Nat
      /\ {1, 2, 3} \subseteq DOMAIN w /\ DOMAIN r = {1, 2}
      /\ w[1] \in Letters /\ w[2] \in Letters /\ w[3] \in Letters
  <2>1. w \in Seq(Letters) /\ Len(w) >= 3 /\ Len(w) \in Nat
    BY WordLength
  <2> QED
    BY <2>1
<1>2. \A l \in Letters :
        /\ Cardinality(Places(w, l)) <= Cardinality(Places(r, l))
        /\ IsFiniteSet(Places(w, l)) /\ Cardinality(Places(w, l)) \in Nat
        /\ IsFiniteSet(Places(r, l)) /\ Cardinality(Places(r, l)) \in Nat
        /\ Places(r, l) \subseteq {1, 2}
  <2>1. \A l \in Letters : Cardinality(Places(w, l)) <= Cardinality(Places(r, l))
    BY DEF Spelled, LetterCount, Places
  <2>2. \A l \in Letters : Places(r, l) \subseteq {1, 2}
    BY <1>1 DEF Places
  <2> QED
    BY <1>1, <2>1, <2>2, PlacesFinite
<1>3. IsFiniteSet({1, 2}) /\ Cardinality({1, 2}) = 2
  <2>1. 1 # 2
    OBVIOUS
  <2> QED
    BY <2>1, PairCounts
<1>4. IsFiniteSet({1, 2, 3}) /\ Cardinality({1, 2, 3}) = 3
  <2>1. Cardinality({1, 2} \cup {3}) = Cardinality({1, 2}) + 1 /\ IsFiniteSet({1, 2} \cup {3})
    <3>1. 3 \notin {1, 2}
      OBVIOUS
    <3> QED
      BY <1>3, <3>1, FS_AddElement
  <2>2. Cardinality({1, 2} \cup {3}) = 3
    <3> DEFINE a == Cardinality({1, 2} \cup {3})
               b == Cardinality({1, 2})
    <3>1. a = b + 1 /\ b = 2
      BY <1>3, <2>1
    <3> HIDE DEF a, b
    <3>2. a = 3
      BY <3>1
    <3> QED
      BY <3>2 DEF a
  <2>3. {1, 2} \cup {3} = {1, 2, 3}
    OBVIOUS
  <2> QED
    BY <2>1, <2>2, <2>3, Zenon
<1>5. ASSUME NEW i \in {1, 2, 3}
      PROVE  w[i] \in {r[1], r[2]} /\ w[i] \in Letters
  <2>1. w[i] \in Letters /\ i \in Places(w, w[i])
    BY <1>1 DEF Places
  <2>2. Places(r, w[i]) # {}
    <3> SUFFICES ASSUME Places(r, w[i]) = {} PROVE FALSE
      OBVIOUS
    <3>1. Cardinality(Places(r, w[i])) = 0
      BY FS_EmptySet
    <3>2. Cardinality(Places(w, w[i])) = 0
      <4> DEFINE m == Cardinality(Places(w, w[i]))
      <4>1. m \in Nat /\ m <= 0
        BY <1>2, <2>1, <3>1
      <4> HIDE DEF m
      <4>2. m = 0
        BY <4>1
      <4> QED
        BY <4>2 DEF m
    <3>3. Places(w, w[i]) = {}
      BY <1>2, <2>1, <3>2, FS_EmptySet
    <3> QED
      BY <2>1, <3>3
  <2> QED
    BY <1>1, <2>1, <2>2 DEF Places
<1>6. PICK i \in {1, 2, 3}, j \in {1, 2, 3} : i # j /\ w[i] = w[j]
  <2>1. w[1] \in {r[1], r[2]} /\ w[2] \in {r[1], r[2]} /\ w[3] \in {r[1], r[2]}
    BY <1>5
  <2>2. w[1] = w[2] \/ w[1] = w[3] \/ w[2] = w[3]
    BY <2>1
  <2> QED
    BY <2>2
<1> DEFINE l == w[i]
<1>7. l \in Letters /\ {i, j} \subseteq Places(w, l)
  BY <1>1, <1>5, <1>6 DEF Places
<1> HIDE DEF l
<1>8. Places(r, l) = {1, 2}
  <2>1. Cardinality({i, j}) <= Cardinality(Places(w, l))
    BY <1>2, <1>7, FS_Subset
  <2>2. Cardinality({i, j}) = 2
    BY <1>6, PairCounts
  <2>3. Cardinality(Places(r, l)) <= Cardinality({1, 2})
    BY <1>2, <1>3, <1>7, FS_Subset
  <2>4. Cardinality(Places(r, l)) = Cardinality({1, 2})
    <3> DEFINE m == Cardinality(Places(w, l))
               k == Cardinality(Places(r, l))
    <3>1. m \in Nat /\ k \in Nat /\ m <= k /\ 2 <= m /\ k <= 2
      BY <1>2, <1>3, <1>7, <2>1, <2>2, <2>3
    <3> HIDE DEF m, k
    <3>2. k = 2
      BY <3>1
    <3> QED
      BY <1>3, <3>2 DEF k
  <2>5. Places(r, l) \subseteq {1, 2}
    BY <1>2, <1>7
  <2> QED
    BY <1>3, <2>4, <2>5, FS_Subset
<1>9. r[1] = l /\ r[2] = l
  BY <1>8 DEF Places
<1>10. {1, 2, 3} \subseteq Places(w, l)
  <2>1. w[1] = l /\ w[2] = l /\ w[3] = l
    BY <1>5, <1>9
  <2> QED
    BY <1>1, <2>1 DEF Places
<1>11. 3 <= Cardinality(Places(w, l))
  BY <1>2, <1>4, <1>7, <1>10, FS_Subset
<1>12. Cardinality(Places(r, l)) = 2
  BY <1>3, <1>8
<1> DEFINE m == Cardinality(Places(w, l))
<1>13. m \in Nat /\ m <= 2 /\ 3 <= m
  BY <1>2, <1>7, <1>11, <1>12
<1> HIDE DEF m
<1> QED
  BY <1>13

\* A rack that is answered with words has the letters of its size, a vowel and two consonants;
\* the sizes 1 and 2, which the environment can set, draw racks on which there is no word.
THEOREM RacksWhole == Spec => []RacksAreWhole
<1>1. ASSUME Inv, goal.kind = "rack", result \notin {Blank, Pending}
      PROVE  /\ Len(result.letters) = goal.size
             /\ \E i \in 1..goal.size : result.letters[i] \in Vowels
             /\ \E i, j \in 1..goal.size :
                  i # j /\ {result.letters[i], result.letters[j]} \subseteq Consonants
  <2> DEFINE size == goal.size
             r == result.letters
             n == RackVowels(size)
  <2>1. /\ goal \in Goals /\ r \in DrawBoard(goal)
        /\ result.words = RealWords[<<goal, r>>] /\ result.words # {}
    BY <1>1, BoardsAreReal
  <2>2. size \in Nat \ {0}
    <3>1. goal.size \in (4..8) \cup DailySizes \/ goal.size \in 4..6
      BY <2>1 DEF Goals
    <3>2. DailySizes \subseteq Nat \ {0} /\ 4..8 \subseteq Nat \ {0} /\ 4..6 \subseteq Nat \ {0}
      BY SoloAssumption
    <3> QED
      BY <3>1, <3>2
  <2>3. r \in DrawRack(size)
    BY <1>1, <2>1 DEF DrawBoard
  <2>4. PICK w \in Dictionary : Spelled(w, r)
    <3>1. <<goal, r>> \in Drawable
      BY <2>1 DEF Drawable
    <3> QED
      BY <1>1, <2>1, <3>1 DEF RealWords
  <2> HIDE DEF size, r
  <2>5. RackOf(size, IF size = 1 THEN 0 ELSE RackVowels(size), r)
    BY <2>2, <2>3, RackDrawn
  <2>6. Len(r) # 2
    BY <2>4, <2>5, TwoAreTooFew DEF RackOf
  <2>7. size >= 3
    <3>1. CASE size = 1
      BY <2>5, <2>6, <3>1 DEF RackOf, RackVowels, SmallerOf, LargerOf
    <3>2. CASE size = 2
      BY <2>5, <2>6, <3>2 DEF RackOf, RackVowels, SmallerOf, LargerOf
    <3> QED
      BY <2>2, <3>1, <3>2
  <2>8. n \in Nat /\ n >= 1 /\ size - n >= 2 /\ size \in Nat
    <3>1. size \div 3 \in Nat /\ size \div 3 <= size
      BY <2>2
    <3> QED
      BY <2>2, <2>7, <3>1 DEF RackVowels, SmallerOf, LargerOf
  <2>9. /\ Len(r) = n + (size - n) /\ \A i \in 1..n : r[i] \in Vowels
        /\ \A i \in (n + 1)..(n + (size - n)) : r[i] \in Consonants
    BY <2>5, <2>7 DEF RackOf
  <2> HIDE DEF n
  <2>10. n + (size - n) = size /\ 1 \in 1..n /\ 1 \in 1..size
    BY <2>8
  <2>11. /\ n + 1 \in (n + 1)..size /\ n + 2 \in (n + 1)..size
         /\ n + 1 \in 1..size /\ n + 2 \in 1..size /\ n + 1 # n + 2
    BY <2>8
  <2>12. {r[n + 1], r[n + 2]} \subseteq Consonants
    BY <2>9, <2>10, <2>11
  <2> QED
    BY <2>9, <2>10, <2>11, <2>12 DEF size, r
<1>2. Inv => RacksAreWhole
  BY <1>1 DEF RacksAreWhole
<1> QED
  BY <1>2, Invariance, PTL

-----------------------------------------------------------------------------
(* The promise of a generator *)

Answer == IF result = Pending THEN <<Other>> ELSE result.letters

\* The worth of a board that is drawn.
LEMMA WorthOfBoard ==
  ASSUME goal \in Goals, NEW b \in DrawBoard(goal)
  PROVE  /\ [d \in Drawable |-> Cardinality(RealWords[d])][<<goal, b>>]
              = Cardinality(Words(goal, b))
         /\ Cardinality(Words(goal, b)) \in Nat
         /\ Words(goal, b) = {} <=> Cardinality(Words(goal, b)) = 0
<1>1. <<goal, b>> \in Drawable
  BY DEF Drawable
<1> QED
  BY <1>1, GoalWords, FS_EmptySet

\* A goal is asked for.
LEMMA AskKept ==
  ASSUME NEW g \in Goals, Generate(g), goal = NoGoal
  PROVE  Good!Next
<1>1. Good!Ask(g)
  BY DEF Good!Ask, Generate
<1> QED
  BY <1>1 DEF Good!Next

\* The best board of the loop is one that no other drawn board beats.
LEMMA BestIsBest ==
  ASSUME Inv, goal \in Goals, goal' = goal, NEW letters, Drawn(letters)
  PROVE  best'.letters \in Good!Best(drawn') /\ best' # Pending
<1>1. /\ drawn' \subseteq DrawBoard(goal) /\ letters \in drawn'
      /\ best' = Blank \/ IsBoard(best)'
      /\ \A x \in drawn' : Cardinality(Words(goal, x)) <= Cardinality(best'.words)
  BY BestKept
<1> DEFINE Worth(b) == [d \in Drawable |-> Cardinality(RealWords[d])][<<goal, b>>]
           Top == {c \in drawn' : \A d \in drawn' : Worth(d) <= Worth(c)}
<1>2. Good!Best(drawn') = {IF Worth(b) = 0 THEN <<>> ELSE b : b \in Top}
  BY DEF Good!Best
<1>3. \A b \in drawn' : /\ Worth(b) = Cardinality(Words(goal, b)) /\ Worth(b) \in Nat
                        /\ Words(goal, b) = {} <=> Worth(b) = 0
  BY <1>1, WorthOfBoard
<1> HIDE DEF Worth
<1>4. CASE best' = Blank
  <2>1. best'.letters = <<>> /\ best'.words = {} /\ best' # Pending
    BY <1>4 DEF Blank, Pending
  <2>2. \A x \in drawn' : Worth(x) = 0
    <3>1. Cardinality(best'.words) = 0
      BY <2>1, FS_EmptySet
    <3>2. \A x \in drawn' : Worth(x) \in Nat /\ Worth(x) <= 0
      BY <1>1, <1>3, <3>1
    <3> QED
      BY <3>2
  <2>3. letters \in Top
    BY <1>1, <2>2
  <2> QED
    BY <1>1, <1>2, <2>1, <2>2, <2>3
<1>5. CASE IsBoard(best)'
  <2>1. PICK b \in drawn' : best' = Board(goal, b) /\ Words(goal, b) # {}
    BY <1>5 DEF IsBoard, Board
  <2>2. best'.letters = b /\ best'.words = Words(goal, b)
    BY <2>1 DEF Board
  <2>3. b \in Top /\ Worth(b) # 0
    BY <1>1, <1>3, <2>1, <2>2
  <2>4. best' # Pending
    <3>1. <<>> \notin Words(goal, b)
      BY <1>1, <2>1, GoalWords
    <3>2. <<>> \in Pending.words
      BY DEF Pending
    <3> QED
      BY <2>2, <3>1, <3>2
  <2> QED
    BY <1>2, <2>2, <2>3, <2>4
<1> QED
  BY <1>1, <1>4, <1>5

\* A round of the loop draws a board and answers as promised.
LEMMA DrawKept ==
  ASSUME Inv, Draw
  PROVE  Good!Next
<1>1. PICK letters \in DrawBoard(goal) : Drawn(letters)
  BY DrawDraws
<1>2. goal # NoGoal /\ goal \in Goals /\ result = Pending /\ goal' = goal
  BY DrawDraws DEF Inv, Generating
<1> DEFINE worth == [d \in Drawable |-> Cardinality(RealWords[d])][<<goal, letters>>]
           floor == [g \in Goals |-> MinWords(g)][goal]
<1>3. worth = Cardinality(Words(goal, letters)) /\ floor = MinWords(goal)
  BY <1>2, WorthOfBoard
<1>4. Answer' \in IF worth >= floor THEN {letters}
                  ELSE IF tries' = MaxTries THEN Good!Best(drawn') ELSE {<<Other>>}
  <2> HIDE DEF worth, floor
  <2>1. CASE worth >= floor
    <3>1. result' = Board(goal, letters)
      BY <1>1, <1>3, <2>1 DEF Drawn
    <3>2. result'.letters = letters /\ result'.words = Words(goal, letters)
      BY <3>1 DEF Board
    <3>3. <<>> \notin Words(goal, letters) /\ <<>> \in Pending.words
      BY <1>2, GoalWords DEF Pending
    <3>4. result' # Pending
      BY <3>2, <3>3
    <3> QED
      BY <2>1, <3>2, <3>4 DEF Answer
  <2>2. CASE ~(worth >= floor) /\ tries' = MaxTries
    <3>1. result' = best'
      BY <1>1, <1>3, <2>2 DEF Drawn
    <3>2. best'.letters \in Good!Best(drawn') /\ best' # Pending
      BY <1>1, <1>2, BestIsBest
    <3>3. Answer' = best'.letters
      BY <3>1, <3>2 DEF Answer
    <3> QED
      BY <2>2, <3>2, <3>3
  <2>3. CASE ~(worth >= floor) /\ tries' # MaxTries
    <3>1. result' = Pending
      BY <1>1, <1>3, <2>3 DEF Drawn
    <3> QED
      BY <2>3, <3>1 DEF Answer
  <2> QED
    BY <2>1, <2>2, <2>3
<1>5. Answer = <<Other>> /\ tries' = tries + 1 /\ drawn' = drawn \cup {letters}
  BY <1>1, <1>2 DEF Answer, Drawn
<1>6. Good!Draw(letters)
  BY <1>2, <1>4, <1>5 DEF Good!Draw, Answer
<1>7. letters \in [g \in Goals |-> DrawBoard(g)][goal]
  BY <1>2
<1> QED
  BY <1>2, <1>6, <1>7 DEF Good!Next

\* Whatever the configuration, the loop answers the first board with enough words, and,
\* when the tries are used up, one that no other drawn board beats: what rack.Generate and
\* grid.Generate promise, without the promise that they end.
THEOREM GeneratesSafely == Spec => Good!Safety
<1>1. Init => Good!Init
  BY DEF Init, Good!Init
<1>2. ASSUME Inv, [Next]_vars
      PROVE  [Good!Next]_(Good!vars)
  <2>1. ASSUME NEW kind \in Kinds, SoloRequest(kind) PROVE UNCHANGED Good!vars
    BY <2>1 DEF SoloRequest, Good!vars
  <2>2. CASE ReadSize
    <3>1. asked # NoQuery /\ Asking /\ goal = NoGoal
      BY <1>2, <2>2 DEF ReadSize, Inv, Asking
    <3>2. goal' \in Goals /\ Generate(goal')
      <4>1. goal' \in {NoGoal} \cup Goals
        BY <1>2, NextInv DEF Inv, Generating
      <4>2. goal'.kind = asked.kind /\ asked.kind \in Kinds
        BY <2>2, <3>1 DEF ReadSize, Generate, Asking
      <4>3. goal' # NoGoal
        BY <4>2 DEF NoGoal, Kinds
      <4> QED
        BY <2>2, <4>1, <4>3 DEF ReadSize, Generate
    <3> QED
      BY <3>1, <3>2, AskKept
  <2>3. CASE DailyRequest
    <3>1. PICK s \in DailySizes : Generate([kind |-> "rack", size |-> s])
      BY <2>3 DEF DailyRequest
    <3>2. [kind |-> "rack", size |-> s] \in Goals
      BY DEF Goals
    <3>3. goal = NoGoal
      BY <2>3 DEF DailyRequest, Idle
    <3> QED
      BY <3>1, <3>2, <3>3, AskKept
  <2>4. CASE Draw
    BY <1>2, <2>4, DrawKept
  <2>5. CASE UNCHANGED vars
    BY <2>5 DEF vars, Good!vars
  <2> QED
    BY <1>2, <2>1, <2>2, <2>3, <2>4, <2>5 DEF Next
<1> QED
  BY <1>1, <1>2, Invariance, PTL DEF Spec, Safety, Good!Safety
=============================================================================
