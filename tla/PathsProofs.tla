---------------------------- MODULE PathsProofs -----------------------------
(***************************************************************************)
(* What the functions of Paths return, for every path: a normalized path   *)
(* is its own normal form, and a file that is joined to a destination is   *)
(* found below it.                                                         *)
(***************************************************************************)
EXTENDS Paths, FiniteSetTheorems, SequenceTheorems, TLAPS

-----------------------------------------------------------------------------
(* InOrder lists a set of positions.  Induction is by a least counterexample. *)

LEMMA Least ==
  ASSUME NEW T, T \subseteq Nat, T # {}
  PROVE  \E x \in T : \A y \in T : x <= y
<1>1. \E x \in T : \A y \in T : <<y, x>> \notin OpToRel(<, Nat)
  BY NatLessThanWellFounded, WFMin
<1>2. PICK x \in T : \A y \in T : <<y, x>> \notin OpToRel(<, Nat)
  BY <1>1
<1>3. \A y \in T : ~(y < x)
  BY <1>2 DEF OpToRel
<1>4. QED BY <1>3

Increasing(f) == \A i, j \in DOMAIN f : i < j => f[i] < f[j]
Lists(f, S) == f \in [1..Cardinality(S) -> S] /\ Increasing(f)

LEMMA ListExtended ==
  ASSUME NEW n \in Nat \ {0}, NEW S \in SUBSET (1..n), n \in S, NEW f, Lists(f, S \ {n})
  PROVE  \E g : Lists(g, S)
<1> DEFINE T == S \ {n}
           g == [i \in 1..Cardinality(S) |-> IF i = Cardinality(S) THEN n ELSE f[i]]
<1>1. IsFiniteSet(S) /\ Cardinality(S) \in Nat /\ Cardinality(T) \in Nat
      /\ Cardinality(T) = Cardinality(S) - 1
  <2>1. IsFiniteSet(1..n)
    BY FS_Interval
  <2>2. IsFiniteSet(S)
    BY <2>1, FS_Subset
  <2>3. IsFiniteSet(T) /\ Cardinality(T) = Cardinality(S) - 1
    BY <2>2, FS_RemoveElement
  <2>4. Cardinality(S) \in Nat /\ Cardinality(T) \in Nat
    BY <2>2, <2>3, FS_CardinalityType
  <2>5. QED BY <2>2, <2>3, <2>4
<1>2. f \in [1..Cardinality(T) -> T] /\ Increasing(f)
  BY DEF Lists
<1>3. \A i \in 1..Cardinality(S) : i # Cardinality(S) => i \in 1..Cardinality(T)
  BY <1>1
<1>4. \A i \in 1..Cardinality(T) : f[i] \in 1..n /\ f[i] # n /\ f[i] \in S
  BY <1>2
<1>5. g \in [1..Cardinality(S) -> S]
  BY <1>3, <1>4
<1>6. \A i, j \in 1..Cardinality(S) : i < j => g[i] < g[j]
  <2> SUFFICES ASSUME NEW i \in 1..Cardinality(S), NEW j \in 1..Cardinality(S), i < j
               PROVE  g[i] < g[j]
    OBVIOUS
  <2>1. i # Cardinality(S) /\ i \in 1..Cardinality(T) /\ g[i] = f[i]
    BY <1>1, <1>3
  <2>2. CASE j = Cardinality(S)
    <3>1. g[j] = n BY <2>2
    <3>2. f[i] < n BY <1>4, <2>1
    <3>3. QED BY <2>1, <3>1, <3>2
  <2>3. CASE j # Cardinality(S)
    <3>1. j \in 1..Cardinality(T) /\ g[j] = f[j] BY <1>3, <2>3
    <3>2. f[i] < f[j] BY <1>2, <2>1, <3>1 DEF Increasing
    <3>3. QED BY <2>1, <3>1, <3>2
  <2>4. QED BY <2>2, <2>3
<1>7. Lists(g, S)
  BY <1>5, <1>6 DEF Lists, Increasing
<1>8. QED BY <1>7

LEMMA ListExists == \A n \in Nat : \A S \in SUBSET (1..n) : \E f : Lists(f, S)
<1> DEFINE Bad == {n \in Nat : ~ \A S \in SUBSET (1..n) : \E f : Lists(f, S)}
<1> SUFFICES ASSUME Bad # {} PROVE FALSE
  OBVIOUS
<1>1. PICK n \in Bad : \A m \in Bad : n <= m
  <2>1. Bad \subseteq Nat
    OBVIOUS
  <2> HIDE DEF Bad
  <2>2. QED BY <2>1, Least
<1>2. PICK S \in SUBSET (1..n) : ~ \E f : Lists(f, S)
  OBVIOUS
<1>3. n # 0
  <2> SUFFICES ASSUME n = 0 PROVE FALSE
    OBVIOUS
  <2>1. S = {}
    OBVIOUS
  <2>2. Cardinality(S) = 0
    BY <2>1, FS_EmptySet
  <2>3. Lists([i \in 1..0 |-> i], S)
    BY <2>1, <2>2 DEF Lists, Increasing
  <2>4. QED BY <1>2, <2>3
<1>4. n - 1 \in Nat /\ n - 1 \notin Bad
  <2>1. n \in Nat /\ n - 1 \in Nat
    BY <1>3
  <2> HIDE DEF Bad
  <2>2. QED BY <1>1, <2>1
<1>5. \A T \in SUBSET (1..(n - 1)) : \E f : Lists(f, T)
  BY <1>4
<1>6. S \ {n} \in SUBSET (1..(n - 1))
  OBVIOUS
<1>7. PICK f : Lists(f, S \ {n})
  BY <1>5, <1>6
<1>8. CASE n \in S
  <2>1. n \in Nat \ {0}
    BY <1>3
  <2> HIDE DEF Bad
  <2>2. QED BY <1>2, <1>7, <1>8, <2>1, ListExtended
<1>9. CASE n \notin S
  <2>1. S \ {n} = S
    BY <1>9
  <2>2. QED BY <1>2, <1>7, <2>1
<1>10. QED BY <1>8, <1>9

LEMMA InOrderLists == ASSUME NEW n \in Nat, NEW S \in SUBSET (1..n) PROVE Lists(InOrder(S), S)
<1>1. PICK f : Lists(f, S)
  BY ListExists
<1>2. \E g \in [1..Cardinality(S) -> S] : \A i, j \in DOMAIN g : i < j => g[i] < g[j]
  BY <1>1 DEF Lists, Increasing
<1>3. QED BY <1>2 DEF InOrder, Lists, Increasing

\* A list of all positions has each at its place.
LEMMA FullList ==
  ASSUME NEW n \in Nat, NEW f \in [1..n -> 1..n], Increasing(f)
  PROVE  \A i \in 1..n : f[i] = i
<1> DEFINE Low  == {i \in 1..n : f[i] < i}
           High == {k \in 0..(n - 1) : f[n - k] > n - k}
<1>1. Low = {}
  <2> SUFFICES ASSUME Low # {} PROVE FALSE
    OBVIOUS
  <2>1. \E i \in Low : \A j \in Low : i <= j
    <3>1. Low \subseteq Nat
      OBVIOUS
    <3> HIDE DEF Low
    <3>2. QED BY <3>1, Least
  <2>2. PICK i \in Low : \A j \in Low : i <= j
    BY <2>1
  <2>3. i \in 1..n /\ f[i] < i /\ f[i] \in 1..n
    OBVIOUS
  <2>4. i - 1 \in 1..n /\ i - 1 \notin Low
    BY <2>2, <2>3
  <2>5. f[i - 1] \in 1..n /\ f[i - 1] >= i - 1
    BY <2>4
  <2>6. f[i - 1] < f[i]
    BY <2>3, <2>4 DEF Increasing
  <2>7. QED BY <2>3, <2>5, <2>6
<1>2. High = {}
  <2> SUFFICES ASSUME High # {} PROVE FALSE
    OBVIOUS
  <2>1. \E k \in High : \A j \in High : k <= j
    <3>1. High \subseteq Nat
      OBVIOUS
    <3> HIDE DEF High
    <3>2. QED BY <3>1, Least
  <2>2. PICK k \in High : \A j \in High : k <= j
    BY <2>1
  <2>3. k \in 0..(n - 1) /\ n - k \in 1..n /\ f[n - k] > n - k /\ f[n - k] \in 1..n
    OBVIOUS
  <2>4. k - 1 \in 0..(n - 1) /\ k - 1 \notin High /\ n - (k - 1) \in 1..n
    <3>1. k # 0
      BY <2>3
    <3>2. k - 1 \in 0..(n - 1) /\ n - (k - 1) \in 1..n
      BY <2>3, <3>1
    <3>3. k - 1 \notin High
      <4> HIDE DEF High
      <4>1. QED BY <2>2, <2>3
    <3>4. QED BY <3>2, <3>3
  <2>5. f[n - (k - 1)] \in 1..n /\ f[n - (k - 1)] <= n - (k - 1)
    BY <2>4
  <2>6. f[n - k] < f[n - (k - 1)]
    BY <2>3, <2>4 DEF Increasing
  <2>7. QED BY <2>3, <2>5, <2>6
<1>3. SUFFICES ASSUME NEW i \in 1..n PROVE f[i] = i
  OBVIOUS
<1>4. f[i] \in 1..n /\ ~(f[i] < i)
  BY <1>1
<1>5. ~(f[i] > i)
  <2>1. n - i \in 0..(n - 1) /\ n - (n - i) = i
    OBVIOUS
  <2>2. QED BY <1>2, <2>1
<1>6. QED BY <1>4, <1>5

-----------------------------------------------------------------------------
(* paths.go *)

\* Taking the parts of a path without ".." leaves names.
LEMMA PartsAreNames ==
  ASSUME NEW p \in Text, ".." \notin Range(p)
  PROVE  Normal(Parts(p))
<1> DEFINE place == InOrder(Kept(p))
<1>1. DOMAIN p = 1..Len(p) /\ Len(p) \in Nat /\ \A i \in 1..Len(p) : p[i] \in STRING
  BY LenProperties, ElementOfSeq DEF Text
<1>2. Kept(p) \in SUBSET (1..Len(p))
  BY <1>1 DEF Kept
<1>3. Lists(place, Kept(p))
  BY <1>1, <1>2, InOrderLists
<1>4. Cardinality(Kept(p)) \in Nat
  <2>1. IsFiniteSet(1..Len(p))
    BY <1>1, FS_Interval
  <2>2. IsFiniteSet(Kept(p))
    BY <1>2, <2>1, FS_Subset
  <2>3. QED BY <2>2, FS_CardinalityType
<1>5. place \in [1..Cardinality(Kept(p)) -> Kept(p)]
  BY <1>3 DEF Lists
<1>6. Parts(p) = [k \in 1..Cardinality(Kept(p)) |-> p[place[k]]]
  BY <1>5 DEF Parts
<1>7. \A k \in 1..Cardinality(Kept(p)) :
         place[k] \in 1..Len(p) /\ p[place[k]] \in STRING /\ p[place[k]] \notin {"", ".", ".."}
  BY <1>1, <1>5 DEF Kept, Range
<1>8. Parts(p) \in [1..Cardinality(Kept(p)) -> STRING]
  BY <1>6, <1>7
<1>9. Parts(p) \in Text
  BY <1>4, <1>8 DEF Text
<1>10. QED BY <1>6, <1>7, <1>9 DEF Normal

\* Of a path of names all parts stay.
LEMMA PartsOfNames == ASSUME NEW p, Normal(p) PROVE Parts(p) = p
<1>1. p \in Text /\ Len(p) \in Nat /\ DOMAIN p = 1..Len(p) /\ p = [i \in 1..Len(p) |-> p[i]]
  BY LenProperties DEF Normal, Text
<1>2. Kept(p) = 1..Len(p)
  BY <1>1 DEF Normal, Kept
<1>3. Cardinality(Kept(p)) = Len(p)
  BY <1>1, <1>2, FS_Interval
<1>4. InOrder(Kept(p)) \in [1..Len(p) -> 1..Len(p)] /\ Increasing(InOrder(Kept(p)))
  BY <1>1, <1>2, <1>3, InOrderLists DEF Lists
<1>5. \A i \in 1..Len(p) : InOrder(Kept(p))[i] = i
  BY <1>1, <1>4, FullList
<1>6. QED BY <1>1, <1>4, <1>5 DEF Parts

LEMMA NamesOf ==
  ASSUME NEW p, Normal(p)
  PROVE  /\ p \in Seq(STRING) /\ DOMAIN p = 1..Len(p) /\ Len(p) \in Nat
         /\ \A i \in 1..Len(p) : p[i] \in STRING /\ p[i] \notin {"", ".", ".."}
         /\ p # <<>> => Len(p) # 0 /\ p[1] # ""
<1>1. p \in Seq(STRING) /\ DOMAIN p = 1..Len(p) /\ Len(p) \in Nat
  BY LenProperties DEF Normal, Text
<1>2. \A i \in 1..Len(p) : p[i] \in STRING /\ p[i] \notin {"", ".", ".."}
  BY <1>1, ElementOfSeq DEF Normal
<1>3. p # <<>> => Len(p) # 0
  BY <1>1, EmptySeq
<1>4. p # <<>> => 1 \in 1..Len(p)
  BY <1>1, <1>3
<1>5. QED BY <1>1, <1>2, <1>3, <1>4

LEMMA NormalizedIsNormal ==
  ASSUME NEW p \in Text, NormalizeRemotePath(p) # Invalid
  PROVE  Normal(NormalizeRemotePath(p))
BY PartsAreNames DEF NormalizeRemotePath

LEMMA NormalStays ==
  ASSUME NEW p, Normal(p)
  PROVE  /\ Drivelike(p) => NormalizeRemotePath(p) = Invalid
         /\ ~Drivelike(p) => NormalizeRemotePath(p) = p
<1>1. ".." \notin Range(p)
  BY DEF Normal, Range
<1>2. p # <<>> => p[1] # ""
  BY NamesOf
<1>3. Rooted(p) <=> Drivelike(p)
  BY <1>2 DEF Rooted, Drivelike
<1>4. QED BY <1>1, <1>3, PartsOfNames DEF NormalizeRemotePath

\* A file joined to a destination is found below it, and nowhere else.
LEMMA JoinedIsInside ==
  ASSUME NEW d, NEW p, Normal(d), Normal(p), p # <<>>
  PROVE  /\ Normal(d \o p) /\ d \o p # <<>>
         /\ Inside(d, d \o p)
         /\ Below(d, d \o p) = p
         /\ Drivelike(d \o p) => Drivelike(d) \/ Drivelike(p)
<1> USE DEF Text
<1> DEFINE q == d \o p
<1>1. /\ d \in Text /\ p \in Text /\ Len(d) \in Nat /\ Len(p) \in Nat \ {0}
      /\ DOMAIN d = 1..Len(d) /\ DOMAIN p = 1..Len(p)
  BY LenProperties, EmptySeq DEF Normal
<1>2. /\ q \in Text /\ Len(q) = Len(d) + Len(p)
      /\ DOMAIN q = 1..(Len(d) + Len(p))
      /\ \A i \in 1..(Len(d) + Len(p)) : q[i] = IF i <= Len(d) THEN d[i] ELSE p[i - Len(d)]
  BY <1>1, ConcatProperties, LenProperties
<1> HIDE DEF q
<1>3. Normal(q)
  <2>1. ASSUME NEW i \in 1..(Len(d) + Len(p)) PROVE q[i] \notin {"", ".", ".."}
    <3>1. CASE i <= Len(d)
      <4>1. i \in DOMAIN d /\ q[i] = d[i]
        BY <1>1, <1>2, <3>1
      <4>2. QED BY <4>1 DEF Normal
    <3>2. CASE ~(i <= Len(d))
      <4>1. i - Len(d) \in DOMAIN p /\ q[i] = p[i - Len(d)]
        BY <1>1, <1>2, <3>2
      <4>2. QED BY <4>1 DEF Normal
    <3>3. QED BY <3>1, <3>2
  <2>2. QED BY <1>2, <2>1 DEF Normal
<1>4. q # <<>> /\ q # d
  <2>1. \A m \in Nat, n \in Nat \ {0} : m + n # 0 /\ m + n # m
    OBVIOUS
  <2>2. Len(q) # 0 /\ Len(q) # Len(d)
    BY <1>1, <1>2, <2>1, Zenon
  <2>3. QED BY <2>2, EmptySeq
<1>5. SubSeq(d, 1, Len(d)) = d
  BY <1>1, SubSeqFull
<1>6. SubSeq(q, 1, Len(d)) = d
  <2> DEFINE s == SubSeq(q, 1, Len(d))
  <2>1. \A i \in 1..Len(d) : q[i] = d[i] /\ q[i] \in STRING
    BY <1>1, <1>2, ElementOfSeq
  <2>2. s \in Text /\ Len(s) = Len(d) /\ \A i \in 1..Len(d) : s[i] = q[i]
    BY <1>1, <2>1, SubSeqProperties
  <2> HIDE DEF s
  <2>3. \A i \in 1..Len(d) : s[i] = d[i]
    BY <2>1, <2>2
  <2>4. s = d
    BY <1>1, <2>2, <2>3, SeqEqual
  <2>5. QED BY <2>4 DEF s
<1>7. Inside(d, q)
  <2>1. d # Invalid /\ q # Invalid
    BY <1>1, <1>2, InvalidAssumption
  <2>2. Len(d) <= Len(q)
    BY <1>1, <1>2
  <2>3. IsPrefix(d, q)
    BY <1>5, <1>6, <2>2 DEF IsPrefix
  <2>4. QED BY <1>4, <2>1, <2>3 DEF Inside, IsStrictPrefix
<1>8. Below(d, q) = p
  <2> DEFINE s == SubSeq(q, Len(d) + 1, Len(q))
  <2>1. /\ Len(d) + 1 \in Int /\ Len(q) \in Int
        /\ Len(d) + 1 <= Len(q) /\ Len(q) - (Len(d) + 1) + 1 = Len(p)
    BY <1>1, <1>2
  <2>2. \A i \in (Len(d) + 1)..Len(q) : q[i] \in STRING
    <3>1. \A i \in 1..Len(q) : q[i] \in STRING
      BY <1>2, ElementOfSeq
    <3>2. QED BY <1>1, <1>2, <3>1
  <2>3. /\ s \in Text /\ Len(s) = Len(p)
        /\ \A i \in 1..Len(p) : s[i] = q[(Len(d) + 1) + i - 1]
    BY <2>1, <2>2, SubSeqProperties
  <2> HIDE DEF s
  <2>4. \A i \in 1..Len(p) : q[(Len(d) + 1) + i - 1] = p[i]
    <3> SUFFICES ASSUME NEW i \in 1..Len(p) PROVE q[(Len(d) + 1) + i - 1] = p[i]
      OBVIOUS
    <3>1. /\ (Len(d) + 1) + i - 1 = Len(d) + i
          /\ Len(d) + i \in 1..(Len(d) + Len(p))
          /\ ~(Len(d) + i <= Len(d))
          /\ (Len(d) + i) - Len(d) = i
      BY <1>1
    <3>2. QED BY <1>2, <3>1
  <2>5. s = p
    BY <1>1, <2>3, <2>4, SeqEqual
  <2>6. QED BY <2>5 DEF Below, s
<1>9. Drivelike(q) => Drivelike(d) \/ Drivelike(p)
  <2>1. CASE d = <<>>
    <3>1. q = p
      BY <1>1, <2>1, ConcatEmptySeq DEF q
    <3>2. QED BY <3>1
  <2>2. CASE d # <<>>
    <3>1. 1 <= Len(d) /\ 1 \in 1..(Len(d) + Len(p))
      <4>1. Len(d) # 0
        BY <2>2, NamesOf
      <4>2. QED BY <1>1, <4>1
    <3>2. q[1] = d[1]
      BY <1>2, <3>1
    <3>3. QED BY <2>2, <3>2 DEF Drivelike
  <2>3. QED BY <2>1, <2>2
<1>10. QED BY <1>3, <1>4, <1>7, <1>8, <1>9 DEF q

\* path.Clean changes no path of names: its loop has copied the parts so far.
LEMMA CleanStays == ASSUME NEW p, Normal(p) PROVE Clean(p) = p
<1> DEFINE Step(done, i) ==
             IF p[i] \in {"", "."} THEN done
             ELSE IF p[i] = ".." /\ done # <<>> /\ Last(done) # ".." THEN Front(done)
             ELSE Append(done, p[i])
           Loop(g) == [i \in 0..Len(p) |-> IF i = 0 THEN <<>> ELSE Step(g[i - 1], i)]
           copy == [i \in 0..Len(p) |-> SubSeq(p, 1, i)]
           f == CHOOSE g : g = Loop(g)
<1>1. p \in Seq(STRING) /\ Len(p) \in Nat /\ DOMAIN p = 1..Len(p)
  BY NamesOf
<1>2. \A i \in 1..Len(p) : p[i] \in STRING /\ p[i] \notin {"", ".", ".."}
  BY NamesOf
<1>3. \A i \in 1..Len(p) : \A done : Step(done, i) = Append(done, p[i])
  BY <1>2
<1> HIDE DEF Step
<1>4. \A i \in 1..Len(p) : Append(SubSeq(p, 1, i - 1), p[i]) = SubSeq(p, 1, i)
  <2> SUFFICES ASSUME NEW i \in 1..Len(p) PROVE Append(SubSeq(p, 1, i - 1), p[i]) = SubSeq(p, 1, i)
    OBVIOUS
  <2>1. 1 \in 1..Len(p) /\ i \in 1..Len(p) /\ i - 1 \in Int
    BY <1>1
  <2>2. SubSeq(p, 1, i) = SubSeq(p, 1, i - 1) \o <<p[i]>>
    BY <1>1, <2>1, SubSeqRecursiveSecond
  <2>3. SubSeq(p, 1, i - 1) \in Seq(STRING)
    <3>1. \A j \in 1..(i - 1) : p[j] \in STRING
      <4>1. 1..(i - 1) \subseteq 1..Len(p)
        BY <1>1
      <4>2. QED BY <1>2, <4>1
    <3>2. QED BY <2>1, <3>1, SubSeqProperties
  <2>4. Append(SubSeq(p, 1, i - 1), p[i]) = SubSeq(p, 1, i - 1) \o <<p[i]>>
    BY <1>2, <2>3, AppendIsConcat
  <2>5. QED BY <2>2, <2>4
<1>5. SubSeq(p, 1, 0) = <<>>
  BY SubSeqEmpty
<1>6. copy = Loop(copy)
  <2>1. ASSUME NEW i \in 0..Len(p)
        PROVE  SubSeq(p, 1, i) = IF i = 0 THEN <<>> ELSE Step(copy[i - 1], i)
    <3>1. CASE i = 0 BY <1>5, <3>1
    <3>2. CASE i # 0
      <4>1. i \in 1..Len(p) /\ i - 1 \in 0..Len(p)
        BY <1>1, <3>2
      <4>2. copy[i - 1] = SubSeq(p, 1, i - 1)
        BY <4>1
      <4>3. QED BY <1>3, <1>4, <3>2, <4>1, <4>2
    <3>3. QED BY <3>1, <3>2
  <2>2. QED BY <2>1
<1>7. f = Loop(f)
  <2> HIDE DEF copy, Loop
  <2>1. QED BY <1>6
<1>8. \A i \in 0..Len(p) : f[i] = SubSeq(p, 1, i)
  <2> HIDE DEF f
  <2> DEFINE Bad == {i \in 0..Len(p) : f[i] # SubSeq(p, 1, i)}
  <2> SUFFICES ASSUME Bad # {} PROVE FALSE
    OBVIOUS
  <2>1. \E i \in Bad : \A j \in Bad : i <= j
    <3>1. Bad \subseteq Nat
      OBVIOUS
    <3> HIDE DEF Bad
    <3>2. QED BY <3>1, Least
  <2>2. PICK i \in Bad : \A j \in Bad : i <= j
    BY <2>1
  <2>3. i \in 0..Len(p) /\ f[i] # SubSeq(p, 1, i)
    OBVIOUS
  <2>4. f[i] = IF i = 0 THEN <<>> ELSE Step(f[i - 1], i)
    BY <1>7, <2>3
  <2>5. i # 0
    BY <1>5, <2>3, <2>4
  <2>6. i \in 1..Len(p) /\ i - 1 \in 0..Len(p)
    BY <1>1, <2>3, <2>5
  <2>7. i - 1 \notin Bad
    <3> HIDE DEF Bad
    <3>1. QED BY <2>2, <2>6
  <2>8. f[i - 1] = SubSeq(p, 1, i - 1)
    BY <2>6, <2>7
  <2>9. QED BY <1>3, <1>4, <2>3, <2>4, <2>5, <2>6, <2>8
<1>9. Clean(p) = f[Len(p)]
  BY DEF Clean, Step
<1>10. QED BY <1>1, <1>8, <1>9, SubSeqFull

\* The walk leaves a path of names as it is, or refuses it for its drive.
LEMMA WalkedStays ==
  ASSUME NEW p, Normal(p), p # <<>>
  PROVE  cleanRelativeSlashPath(p) = IF Drivelike(p) THEN Invalid ELSE p
<1>1. p[1] # ""
  BY NamesOf
<1>2. Rooted(p) <=> Drivelike(p)
  BY <1>1 DEF Rooted, Drivelike
<1>3. QED
  BY <1>2, CleanStays, NormalStays DEF cleanRelativeSlashPath, NormalizeRemoteFilePath

\* The directories of a file are paths of names, and have its drive.
LEMMA ParentsAreNormal ==
  ASSUME NEW p, Normal(p), p # <<>>, NEW q \in Parents(p)
  PROVE  Normal(q) /\ q # <<>> /\ (Drivelike(q) => Drivelike(p))
<1>1. p \in Seq(STRING) /\ Len(p) \in Nat
  BY NamesOf
<1>2. PICK i \in 1..(Len(p) - 1) : q = SubSeq(p, 1, i)
  BY DEF Parents
<1>3. /\ \A j \in 1..i : p[j] \in STRING
      /\ \A j \in 1..i : p[j] \notin {"", ".", ".."}
  <2>1. 1..i \subseteq 1..Len(p)
    BY <1>1
  <2>2. QED BY <2>1, NamesOf
<1>4. /\ q \in Seq(STRING) /\ Len(q) = i /\ i \in Nat \ {0}
      /\ \A j \in 1..i : q[j] = p[j]
  <2>1. i \in 0..Len(p) /\ i \in Nat \ {0}
    BY <1>1
  <2>2. q = [j \in 1..i |-> p[j]]
    BY <1>1, <1>2, <2>1, SubSeqRestrict DEF Restrict
  <2>3. q \in [1..i -> STRING]
    BY <1>3, <2>2
  <2>4. q \in Seq(STRING)
    BY <2>1, <2>3
  <2>5. Len(q) = i
    BY <2>1, <2>3, <2>4, LenProperties
  <2>6. QED BY <2>1, <2>2, <2>4, <2>5
<1>5. DOMAIN q = 1..i
  BY <1>4, LenProperties
<1>6. Normal(q)
  BY <1>3, <1>4, <1>5 DEF Normal, Text
<1>7. q # <<>>
  BY <1>4, EmptySeq
<1>8. q[1] = p[1]
  BY <1>4
<1>9. QED BY <1>6, <1>7, <1>8 DEF Drivelike

-----------------------------------------------------------------------------
(* A destination and its files, once they are normalized. *)

\* What is inside a destination is the destination joined to what is below it.
LEMMA InsideIsJoined ==
  ASSUME NEW d, NEW m, Normal(d), Normal(m), Inside(d, m)
  PROVE  Below(d, m) \in Text /\ m = d \o Below(d, m)
<1>1. /\ d \in Seq(STRING) /\ m \in Seq(STRING) /\ Len(d) \in Nat /\ Len(m) \in Nat
      /\ SubSeq(d, 1, Len(d)) = d /\ SubSeq(m, 1, Len(m)) = m
  BY NamesOf, SubSeqFull
<1>2. Len(d) <= Len(m) /\ SubSeq(m, 1, Len(d)) = d
  BY <1>1 DEF Inside, IsStrictPrefix, IsPrefix
<1>3. Below(d, m) \in Text
  <2>1. \A i \in (Len(d) + 1)..Len(m) : m[i] \in STRING
    <3>1. (Len(d) + 1)..Len(m) \subseteq 1..Len(m)
      BY <1>1
    <3>2. \A i \in 1..Len(m) : m[i] \in STRING
      BY NamesOf
    <3>3. QED BY <3>1, <3>2
  <2>2. Len(d) + 1 \in Int /\ Len(m) \in Int
    BY <1>1
  <2>3. QED BY <2>1, <2>2, SubSeqProperties DEF Below, Text
<1>4. m = SubSeq(m, 1, Len(d)) \o SubSeq(m, Len(d) + 1, Len(m))
  <2>1. 1 \in 1..(Len(m) + 1) /\ Len(d) \in (1 - 1)..Len(m) /\ Len(m) \in Len(d)..Len(m)
    BY <1>1, <1>2
  <2>2. QED BY <1>1, <2>1, ConcatAdjacentSubSeq
<1>5. QED BY <1>2, <1>3, <1>4 DEF Below

\* The name of a file leads back to the file, unless a drive is involved; with a
\* drive it has no name.
LEMMA JoinLeadsBack ==
  ASSUME NEW d, NEW p, Normal(d), Normal(p), p # <<>>
  PROVE  IF Drivelike(d) \/ Drivelike(p)
         THEN JoinDestinationFile(d, p) = Invalid
         ELSE /\ JoinDestinationFile(d, p) = d \o p
              /\ RelativeToDestination(d, d \o p) = p
<1>1. CASE Drivelike(d)
  <2>1. NormalizeRemotePath(d) = Invalid
    BY <1>1, NormalStays
  <2>2. QED BY <1>1, <2>1 DEF JoinDestinationFile
<1>2. CASE ~Drivelike(d) /\ Drivelike(p)
  <2>1. NormalizeRemotePath(p) = Invalid
    BY <1>2, NormalStays
  <2>2. NormalizeRemoteFilePath(p) = Invalid
    BY <2>1 DEF NormalizeRemoteFilePath
  <2>3. QED BY <1>2, <2>2 DEF JoinDestinationFile
<1>3. CASE ~Drivelike(d) /\ ~Drivelike(p)
  <2>1. NormalizeRemotePath(d) = d /\ NormalizeRemotePath(p) = p
    BY <1>3, NormalStays
  <2>2. /\ Normal(d \o p) /\ d \o p # <<>> /\ ~Drivelike(d \o p)
        /\ Inside(d, d \o p) /\ Below(d, d \o p) = p
    BY <1>3, JoinedIsInside
  <2>3. NormalizeRemotePath(d \o p) = d \o p
    BY <2>2, NormalStays
  <2>4. d # Invalid /\ p # Invalid
    BY InvalidAssumption DEF Normal
  <2>5. RelativeToDestination(d, d \o p) = p
    BY <2>1, <2>2, <2>3 DEF RelativeToDestination, NormalizeRemoteFilePath
  <2>6. JoinDestinationFile(d, p) = d \o p
    BY <2>1, <2>4, <2>5 DEF JoinDestinationFile, NormalizeRemoteFilePath
  <2>7. QED BY <1>3, <2>5, <2>6
<1>4. QED BY <1>1, <1>2, <1>3

\* A name of the game that is below the destination, as it is deleted.
LEMMA RemoteLeadsBack ==
  ASSUME NEW d, NEW name \in Text, Normal(d), RelativeToDestination(d, name) # Invalid
  PROVE  LET m == NormalizeRemoteFilePath(name)
         IN  IF Drivelike(m)
             THEN RelativeToDestination(d, m) = Invalid
             ELSE /\ RelativeToDestination(d, m) \in Text
                  /\ m = d \o RelativeToDestination(d, m)
                  /\ ~Drivelike(d)
<1> DEFINE m == NormalizeRemoteFilePath(name)
<1>1. ~Drivelike(d) /\ NormalizeRemotePath(d) = d
  <2>1. NormalizeRemotePath(d) # Invalid
    BY DEF RelativeToDestination, Inside
  <2>2. QED BY <2>1, NormalStays
<1>2. m # Invalid /\ Inside(d, m)
  BY <1>1 DEF RelativeToDestination, Inside
<1>3. m = NormalizeRemotePath(name) /\ m # <<>> /\ Normal(m)
  <2>1. m = NormalizeRemotePath(name) /\ m # <<>>
    BY <1>2 DEF NormalizeRemoteFilePath
  <2>2. QED BY <1>2, <2>1, NormalizedIsNormal
<1> HIDE DEF m
<1>4. CASE Drivelike(m)
  <2>1. NormalizeRemotePath(m) = Invalid
    BY <1>3, <1>4, NormalStays
  <2>2. NormalizeRemoteFilePath(m) = Invalid
    BY <2>1 DEF NormalizeRemoteFilePath
  <2>3. RelativeToDestination(d, m) = Invalid
    BY <2>2 DEF RelativeToDestination, Inside
  <2>4. QED BY <1>4, <2>3 DEF m
<1>5. CASE ~Drivelike(m)
  <2>1. NormalizeRemoteFilePath(m) = m
    BY <1>3, <1>5, NormalStays DEF NormalizeRemoteFilePath
  <2>2. RelativeToDestination(d, m) = Below(d, m)
    BY <1>1, <1>2, <2>1 DEF RelativeToDestination
  <2>3. Below(d, m) \in Text /\ m = d \o Below(d, m)
    BY <1>2, <1>3, InsideIsJoined
  <2>4. QED BY <1>1, <1>5, <2>2, <2>3 DEF m
<1>6. QED BY <1>4, <1>5

\* Unless it fails, the walk finds the files that no pattern ignores, themselves or
\* in one of the directories they are in.
LEMMA WalkFinds ==
  ASSUME NEW t, \A p \in t : Normal(p) /\ p # <<>>, NEW ignore, ~WalkFails(ignore, t)
  PROVE  WalkSource(ignore, t) = {p \in t : ~ignoredPath(ignore, p)}
<1>1. \A p \in t : p \in Reached(ignore, t) <=> \A q \in Parents(p) : ~IsIgnored(ignore, q)
  BY DEF Reached
<1>2. \A p \in t \cap Reached(ignore, t) : cleanRelativeSlashPath(p) = p
  <2> SUFFICES ASSUME NEW p \in t \cap Reached(ignore, t)
               PROVE  cleanRelativeSlashPath(p) = p
    OBVIOUS
  <2>1. cleanRelativeSlashPath(p) # Invalid
    BY DEF WalkFails
  <2>2. QED BY <2>1, WalkedStays
<1>3. WalkSource(ignore, t) = {p \in t \cap Reached(ignore, t) : ~IsIgnored(ignore, p)}
  BY <1>2 DEF WalkSource
<1>4. QED BY <1>1, <1>3 DEF ignoredPath

\* A walk that fails still does where there is more to come by.
LEMMA WalkFailsForMore ==
  ASSUME NEW t, NEW more, NEW ignore, WalkFails(ignore, t)
  PROVE  WalkFails(ignore, t \cup more)
<1>1. Reached(ignore, t) \subseteq Reached(ignore, t \cup more)
  BY DEF Reached
<1>2. QED BY <1>1 DEF WalkFails

\* The walk fails for a drive only.
LEMMA WalkFailsForDrive ==
  ASSUME NEW t, \A p \in t : Normal(p) /\ p # <<>>, NEW ignore, WalkFails(ignore, t)
  PROVE  \E p \in t : Drivelike(p)
<1>1. PICK q \in Reached(ignore, t) : cleanRelativeSlashPath(q) = Invalid
  BY DEF WalkFails
<1>2. PICK p \in t : q \in Parents(p) \cup {p}
  BY DEF Reached
<1>3. Normal(q) /\ q # <<>> /\ (Drivelike(q) => Drivelike(p))
  BY <1>2, ParentsAreNormal
<1>4. q # Invalid
  BY <1>3, InvalidAssumption DEF Normal
<1>5. QED BY <1>1, <1>3, <1>4, WalkedStays
=============================================================================
