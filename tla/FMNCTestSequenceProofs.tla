----------------------- MODULE FMNCTestSequenceProofs -----------------------
(***************************************************************************)
(* Theorems about FMNCTestSequence, for any requests, lengths of the pages, *)
(* times and bounds.                                                        *)
(*                                                                          *)
(* A sequence of n slices has marks f[0] = 0 < f[1] < ... < f[n], where its *)
(* slices begin and end, and places perm: the k-th slice sent is the one    *)
(* from f[perm[k] - 1] to f[perm[k]].  Cutting makes the marks, and every   *)
(* rearrangement only changes the places, in a test that is measured only   *)
(* within the windows.  With that the client's side is arithmetic on        *)
(* places: after d slices it has come to mark m if 1..m are among the first *)
(* d places and m + 1 is not.                                               *)
(***************************************************************************)
EXTENDS FMNCTestSequence, SequenceTheorems, FiniteSetTheorems, WellFoundedInduction,
        TLAPS

-----------------------------------------------------------------------------
(* Sequences and sets of numbers.                                           *)

\* A set of naturals has a least member.  This also stands for induction, which
\* is used as: no least counterexample.
LEMMA LeastNat ==
    ASSUME NEW T \in SUBSET Nat, T # {} PROVE \E n \in T : \A m \in T : n <= m
<1>1. \E n \in T : \A m \in T : ~ (<<m, n>> \in OpToRel(<, Nat))
  BY NatLessThanWellFounded, WFMin
<1>2. \A m, n \in Nat : <<m, n>> \in OpToRel(<, Nat) <=> m < n
  BY DEF OpToRel
<1>3. \E n \in T : \A m \in T : ~ (m < n)
  <2>1. \A m \in T : m \in Nat
    OBVIOUS
  <2>. QED
    BY <1>1, <1>2, <2>1, Zenon
<1>. QED
  BY <1>3

\* An element between two sequences.
LEMMA BetweenProperties ==
    ASSUME NEW S, NEW front \in Seq(S), NEW back \in Seq(S), NEW e \in S
    PROVE  /\ front \o <<e>> \o back \in Seq(S)
           /\ Len(front \o <<e>> \o back) = Len(front) + 1 + Len(back)
           /\ \A k \in 1..Len(front) + 1 + Len(back) :
                 (front \o <<e>> \o back)[k] =
                     IF k <= Len(front) THEN front[k]
                     ELSE IF k = Len(front) + 1 THEN e ELSE back[k - Len(front) - 1]
<1>1. Len(front) \in Nat /\ Len(back) \in Nat
  BY LenProperties
<1>2. /\ front \o <<e>> \in Seq(S)
      /\ Len(front \o <<e>>) = Len(front) + 1
      /\ \A k \in 1..Len(front) + 1 :
            (front \o <<e>>)[k] = IF k <= Len(front) THEN front[k] ELSE e
  <2>1. <<e>> \in Seq(S) /\ Len(<<e>>) = 1 /\ <<e>>[1] = e
    OBVIOUS
  <2>. QED
    BY <1>1, <2>1, ConcatProperties
<1> DEFINE u == front \o <<e>>
<1>3. /\ u \o back \in Seq(S)
      /\ Len(u \o back) = Len(u) + Len(back)
      /\ \A k \in 1..Len(u) + Len(back) :
            (u \o back)[k] = IF k <= Len(u) THEN u[k] ELSE back[k - Len(u)]
  BY <1>2, ConcatProperties
<1> DEFINE t == u \o back
<1>. QED
  BY <1>1, <1>2, <1>3

\* The sequence with an element before place i, from what is before and behind it.
Parts(s, i, front, back) ==
    /\ Len(front) = i - 1 /\ \A k \in 1..i - 1 : front[k] = s[k]
    /\ Len(back) = Len(s) - i + 1 /\ \A k \in 1..Len(s) - i + 1 : back[k] = s[i + k - 1]

LEMMA InsertedBetween ==
    ASSUME NEW S, NEW s \in Seq(S), NEW i \in 1..Len(s) + 1, NEW e \in S,
           NEW front \in Seq(S), NEW back \in Seq(S), Parts(s, i, front, back)
    PROVE  /\ front \o <<e>> \o back \in Seq(S)
           /\ Len(front \o <<e>> \o back) = Len(s) + 1
           /\ \A k \in 1..Len(s) + 1 :
                 (front \o <<e>> \o back)[k]
                     = IF k < i THEN s[k] ELSE IF k = i THEN e ELSE s[k - 1]
<1>1. Len(s) \in Nat /\ i \in Nat /\ Len(front) + 1 + Len(back) = Len(s) + 1
  BY LenProperties DEF Parts
<1>2. ASSUME NEW k \in 1..Len(s) + 1
      PROVE  (front \o <<e>> \o back)[k]
                 = IF k < i THEN s[k] ELSE IF k = i THEN e ELSE s[k - 1]
  <2>1. (front \o <<e>> \o back)[k]
            = IF k <= Len(front) THEN front[k]
              ELSE IF k = Len(front) + 1 THEN e ELSE back[k - Len(front) - 1]
    BY <1>1, BetweenProperties
  <2>2. CASE k > i
    <3>1. k - Len(front) - 1 \in 1..Len(s) - i + 1 /\ i + (k - Len(front) - 1) - 1 = k - 1
      BY <1>1, <2>2 DEF Parts
    <3>. QED
      BY <1>1, <2>1, <2>2, <3>1 DEF Parts
  <2>3. CASE k <= i
    BY <1>1, <2>1, <2>3 DEF Parts
  <2>. QED
    BY <1>1, <2>2, <2>3
<1>3. /\ front \o <<e>> \o back \in Seq(S)
      /\ Len(front \o <<e>> \o back) = Len(front) + 1 + Len(back)
  BY BetweenProperties
<1>. QED
  BY <1>1, <1>2, <1>3

\* Inserting moves the elements from the place on up by one.
LEMMA InsertProperties ==
    ASSUME NEW S, NEW s \in Seq(S), NEW i \in 1..Len(s) + 1, NEW e \in S
    PROVE  /\ InsertAt(s, i, e) \in Seq(S)
           /\ DOMAIN InsertAt(s, i, e) = 1..Len(s) + 1
           /\ Len(InsertAt(s, i, e)) = Len(s) + 1
           /\ \A k \in 1..Len(s) + 1 :
                 InsertAt(s, i, e)[k] = IF k < i THEN s[k] ELSE IF k = i THEN e ELSE s[k - 1]
           /\ ToSet(InsertAt(s, i, e)) = ToSet(s) \cup {e}
           /\ IsInjective(s) /\ e \notin ToSet(s) => IsInjective(InsertAt(s, i, e))
<1>1. Len(s) \in Nat /\ DOMAIN s = 1..Len(s) /\ i \in Nat /\ \A k \in 1..Len(s) : s[k] \in S
  BY LenProperties, ElementOfSeq
<1>2. /\ SubSeq(s, 1, i - 1) \in Seq(S) /\ Len(SubSeq(s, 1, i - 1)) = i - 1
      /\ \A k \in 1..i - 1 : SubSeq(s, 1, i - 1)[k] = s[k]
  <2>1. \A k \in 1..i - 1 : s[k] \in S
    BY <1>1
  <2>. QED
    BY <1>1, <2>1, SubSeqProperties
<1>3. /\ SubSeq(s, i, Len(s)) \in Seq(S) /\ Len(SubSeq(s, i, Len(s))) = Len(s) - i + 1
      /\ \A k \in 1..Len(s) - i + 1 : SubSeq(s, i, Len(s))[k] = s[i + k - 1]
  <2>1. \A k \in i..Len(s) : s[k] \in S
    BY <1>1
  <2>. QED
    BY <1>1, <2>1, SubSeqProperties
<1>4. PICK front \in Seq(S), back \in Seq(S) :
        /\ front = SubSeq(s, 1, i - 1) /\ back = SubSeq(s, i, Len(s))
        /\ Parts(s, i, front, back)
  BY <1>2, <1>3 DEF Parts
<1>5. PICK t \in Seq(S) :
        /\ t = InsertAt(s, i, e) /\ Len(t) = Len(s) + 1
        /\ \A k \in 1..Len(s) + 1 : t[k] = IF k < i THEN s[k] ELSE IF k = i THEN e ELSE s[k - 1]
  <2>1. InsertAt(s, i, e) = front \o <<e>> \o back
    BY <1>4 DEF InsertAt
  <2>2. /\ front \o <<e>> \o back \in Seq(S)
        /\ Len(front \o <<e>> \o back) = Len(s) + 1
        /\ \A k \in 1..Len(s) + 1 :
              (front \o <<e>> \o back)[k]
                  = IF k < i THEN s[k] ELSE IF k = i THEN e ELSE s[k - 1]
    <3>1. Parts(s, i, front, back)
      BY <1>4
    <3>. QED
      BY <3>1, InsertedBetween
  <2>. QED
    BY <2>1, <2>2
<1>6. DOMAIN t = 1..Len(s) + 1
  BY <1>5, LenProperties
<1>7. ToSet(t) = ToSet(s) \cup {e}
  <2>1. ASSUME NEW k \in 1..Len(s) + 1 PROVE t[k] \in ToSet(s) \cup {e}
    <3>1. CASE k > i
      <4>1. k - 1 \in 1..Len(s) /\ t[k] = s[k - 1]
        BY <1>1, <1>5, <3>1
      <4>. QED
        BY <1>1, <4>1 DEF ToSet
    <3>2. CASE k < i
      <4>1. k \in 1..Len(s) /\ t[k] = s[k]
        BY <1>1, <1>5, <3>2
      <4>. QED
        BY <1>1, <4>1 DEF ToSet
    <3>3. CASE k = i
      BY <1>1, <1>5, <3>3
    <3>. QED
      BY <1>1, <3>1, <3>2, <3>3
  <2>2. ASSUME NEW k \in 1..Len(s) PROVE s[k] \in ToSet(t)
    <3>1. CASE k < i
      <4>1. k \in 1..Len(s) + 1 /\ t[k] = s[k]
        BY <1>1, <1>5, <3>1
      <4>. QED
        BY <1>6, <4>1 DEF ToSet
    <3>2. CASE k >= i
      <4>1. k + 1 \in 1..Len(s) + 1 /\ t[k + 1] = s[k]
        BY <1>1, <1>5, <3>2
      <4>. QED
        BY <1>6, <4>1 DEF ToSet
    <3>. QED
      BY <1>1, <3>1, <3>2
  <2>3. e \in ToSet(t)
    BY <1>1, <1>5, <1>6 DEF ToSet
  <2>. QED
    BY <1>1, <1>6, <2>1, <2>2, <2>3 DEF ToSet
<1>8. ASSUME IsInjective(s), e \notin ToSet(s) PROVE IsInjective(t)
  <2>1. \A k \in 1..Len(s) : s[k] # e
    BY <1>1, <1>8 DEF ToSet
  <2>2. \A j, k \in 1..Len(s) : s[j] = s[k] => j = k
    BY <1>1, <1>8 DEF IsInjective
  <2>3. SUFFICES ASSUME NEW j \in 1..Len(s) + 1, NEW k \in 1..Len(s) + 1, t[j] = t[k]
                 PROVE  j = k
    BY <1>6 DEF IsInjective
  <2>. QED
    BY <1>1, <1>5, <2>1, <2>2, <2>3
<1>. QED
  BY <1>5, <1>6, <1>7, <1>8

\* The least member of a set of naturals, as Min finds it.
LEMMA MinProperties ==
    ASSUME NEW T \in SUBSET Nat, T # {}
    PROVE  Min(T) \in T /\ \A m \in T : Min(T) <= m
<1>1. \E n \in T : \A m \in T : n <= m
  BY LeastNat
<1>. QED
  BY <1>1 DEF Min

-----------------------------------------------------------------------------

\* f[k] is the sum of the first k of n lengths.
IsSums(f, lens, n) ==
    /\ f \in [0..n -> Nat] /\ f[0] = 0
    /\ \A k \in 1..n : f[k] = f[k - 1] + lens[k]

\* There are sums of any lengths.
LEMMA SumsExist ==
    ASSUME NEW n \in Nat, NEW lens, \A k \in 1..n : lens[k] \in Nat
    PROVE  \E f : IsSums(f, lens, n)
<1> DEFINE Bad == {k \in 0..n : ~ \E f : IsSums(f, lens, k)}
<1>1. SUFFICES ASSUME Bad # {} PROVE FALSE
  OBVIOUS
<1>2. PICK k \in Bad : \A m \in Bad : k <= m
  <2>1. Bad \in SUBSET Nat
    OBVIOUS
  <2>. QED
    BY <1>1, <2>1, LeastNat
<1>3. k # 0
  <2>1. IsSums([i \in 0..0 |-> 0], lens, 0)
    BY DEF IsSums
  <2>. QED
    BY <2>1
<1>4. k - 1 \in 0..n /\ k - 1 \notin Bad /\ k \in Nat \ {0}
  BY <1>2, <1>3
<1>5. PICK f : IsSums(f, lens, k - 1)
  BY <1>4
<1>6. PICK g : g = [i \in 0..k |-> IF i = k THEN f[k - 1] + lens[k] ELSE f[i]]
  OBVIOUS
<1>7. IsSums(g, lens, k)
  BY <1>4, <1>5, <1>6 DEF IsSums
<1>. QED
  BY <1>7

\* The folds of the library over 1..n are such a function, which takes the largest first.
Folding(g, lens, n) ==
    g = [s \in SUBSET (1..n) |-> IF s = {} THEN 0 ELSE g[s \ {Max(s)}] + lens[Max(s)]]

\* Sums ascend, by at least the next length.
LEMMA SumsGrow ==
    ASSUME NEW n \in Nat, NEW lens, \A k \in 1..n : lens[k] \in Nat, NEW f, IsSums(f, lens, n)
    PROVE  \A i \in 0..n : \A j \in i..n : f[i] <= f[j] /\ (i < j => f[i] + lens[i + 1] <= f[j])
<1>1. SUFFICES ASSUME NEW i \in 0..n
               PROVE  \A j \in i..n : f[i] <= f[j] /\ (i < j => f[i] + lens[i + 1] <= f[j])
  OBVIOUS
<1> DEFINE Bad == {j \in i..n : ~ (f[i] <= f[j] /\ (i < j => f[i] + lens[i + 1] <= f[j]))}
<1>2. SUFFICES ASSUME Bad # {} PROVE FALSE
  OBVIOUS
<1>3. PICK j \in Bad : \A m \in Bad : j <= m
  <2>1. Bad \in SUBSET Nat
    OBVIOUS
  <2>. QED
    BY <1>2, <2>1, LeastNat
<1>4. \A k \in 0..n : f[k] \in Nat
  BY DEF IsSums
<1>5. j # i
  BY <1>3, <1>4
<1>6. j - 1 \in i..n /\ j \in 1..n /\ j - 1 \notin Bad
  BY <1>3, <1>5
<1>7. f[j] = f[j - 1] + lens[j] /\ lens[j] \in Nat /\ f[i] \in Nat /\ f[j - 1] \in Nat
  BY <1>4, <1>6 DEF IsSums
<1>8. f[i] <= f[j - 1] /\ (i < j - 1 => f[i] + lens[i + 1] <= f[j - 1])
  BY <1>6
<1>9. f[i] <= f[j]
  BY <1>7, <1>8
<1>10. f[i] + lens[i + 1] <= f[j]
  <2>1. CASE i = j - 1
    BY <1>6, <1>7, <2>1
  <2>2. CASE i < j - 1
    <3>1. i + 1 \in 1..n
      BY <1>6, <2>2
    <3>. QED
      BY <1>7, <1>8, <2>2, <3>1
  <2>. QED
    BY <1>6, <2>1, <2>2
<1>. QED
  BY <1>3, <1>9, <1>10

LEMMA MaxProperties ==
    ASSUME NEW n \in Nat, NEW s \in SUBSET (1..n), s # {}
    PROVE  Max(s) \in s /\ \A x \in s : x <= Max(s)
<1>1. PICK T : T = {n - x : x \in s}
  OBVIOUS
<1>2. PICK y \in s : \A x \in s : n - y <= n - x
  <2>1. \A x \in s : n - x \in Nat
    OBVIOUS
  <2>2. T \in SUBSET Nat
    BY <1>1, <2>1, Zenon
  <2>3. T # {}
    BY <1>1, Zenon
  <2>4. PICK m \in T : \A t \in T : m <= t
    BY <2>2, <2>3, LeastNat
  <2>5. PICK y \in s : m = n - y
    BY <1>1, <2>4, Zenon
  <2>6. \A x \in s : n - x \in T
    BY <1>1, Zenon
  <2>. QED
    BY <2>4, <2>5, <2>6, Zenon
<1>3. \A x \in s : y >= x
  BY <1>2
<1>. QED
  BY <1>2, <1>3 DEF Max

LEMMA FoldingExists ==
    ASSUME NEW n \in Nat, NEW lens, \A k \in 1..n : lens[k] \in Nat
    PROVE  \E g : Folding(g, lens, n)
<1> DEFINE Bad == {k \in 0..n : ~ \E g : Folding(g, lens, k)}
<1>1. SUFFICES ASSUME Bad # {} PROVE FALSE
  OBVIOUS
<1>2. PICK k \in Bad : \A m \in Bad : k <= m
  <2>1. Bad \in SUBSET Nat
    OBVIOUS
  <2>. QED
    BY <1>1, <2>1, LeastNat
<1>3. k # 0
  <2>1. PICK g : g = [s \in SUBSET (1..0) |-> 0]
    OBVIOUS
  <2>2. \A s \in SUBSET (1..0) : s = {}
    OBVIOUS
  <2>3. g = [s \in SUBSET (1..0) |-> IF s = {} THEN 0 ELSE g[s \ {Max(s)}] + lens[Max(s)]]
    BY <2>1, <2>2
  <2>. QED
    BY <2>3 DEF Folding
<1>4. k - 1 \in 0..n /\ k - 1 \notin Bad /\ k \in Nat \ {0}
  BY <1>2, <1>3
<1>5. PICK f : Folding(f, lens, k - 1)
  BY <1>4
<1>6. PICK g : g = [s \in SUBSET (1..k) |-> IF k \in s THEN f[s \ {k}] + lens[k] ELSE f[s]]
  OBVIOUS
<1>7. ASSUME NEW s \in SUBSET (1..k)
      PROVE  g[s] = IF s = {} THEN 0 ELSE g[s \ {Max(s)}] + lens[Max(s)]
  <2>1. CASE k \in s
    <3>1. Max(s) = k
      <4>1. Max(s) \in s /\ \A x \in s : x <= Max(s)
        BY <1>4, <2>1, MaxProperties
      <4>2. Max(s) \in 1..k /\ k <= Max(s)
        BY <2>1, <4>1, Zenon
      <4>. QED
        BY <1>4, <4>2
    <3>2. s \ {k} \in SUBSET (1..k) /\ k \notin s \ {k}
      OBVIOUS
    <3>3. g[s \ {k}] = f[s \ {k}]
      BY <1>6, <3>2
    <3>. QED
      BY <1>6, <2>1, <3>1, <3>3
  <2>2. CASE k \notin s
    <3>1. s \in SUBSET (1..(k - 1))
      BY <1>4, <2>2
    <3>2. f[s] = IF s = {} THEN 0 ELSE f[s \ {Max(s)}] + lens[Max(s)]
      BY <1>5, <3>1 DEF Folding
    <3>3. s \ {Max(s)} \in SUBSET (1..k) /\ k \notin s \ {Max(s)}
      BY <2>2
    <3>4. g[s] = f[s] /\ g[s \ {Max(s)}] = f[s \ {Max(s)}]
      BY <1>6, <2>2, <3>3
    <3>. QED
      BY <3>2, <3>4
  <2>. QED
    BY <2>1, <2>2
<1>8. Folding(g, lens, k)
  BY <1>6, <1>7 DEF Folding
<1>. QED
  BY <1>8

\* What a fold adds up are the sums.
LEMMA FoldingSums ==
    ASSUME NEW n \in Nat, NEW lens, \A k \in 1..n : lens[k] \in Nat,
           NEW f, IsSums(f, lens, n), NEW g, Folding(g, lens, n)
    PROVE  \A k \in 0..n : g[1..k] = f[k]
<1> DEFINE Bad == {k \in 0..n : g[1..k] # f[k]}
<1>1. SUFFICES ASSUME Bad # {} PROVE FALSE
  BY Zenon
<1>2. PICK k \in Bad : \A m \in Bad : k <= m
  <2>1. Bad \in SUBSET Nat
    OBVIOUS
  <2>. QED
    BY <1>1, <2>1, LeastNat
<1>3. 1..k \in SUBSET (1..n)
  BY <1>2
<1>4. g[1..k] = IF 1..k = {} THEN 0 ELSE g[(1..k) \ {Max(1..k)}] + lens[Max(1..k)]
  BY <1>3 DEF Folding
<1>5. k # 0
  <2>1. ASSUME k = 0 PROVE 1..k = {}
    BY <2>1
  <2>. QED
    BY <1>2, <1>4, <2>1 DEF IsSums
<1>6. k \in 1..n /\ k - 1 \in 0..n /\ k - 1 \notin Bad
  BY <1>2, <1>5
<1>7. Max(1..k) = k
  <2>1. 1..k # {}
    <3>1. k \in Nat \ {0} /\ k \in 1..k
      BY <1>6
    <3>. QED
      BY <3>1, Zenon
  <2>2. Max(1..k) \in 1..k /\ \A x \in 1..k : x <= Max(1..k)
    BY <1>3, <2>1, MaxProperties
  <2>. QED
    BY <1>6, <2>2
<1>8. (1..k) \ {k} = 1..(k - 1)
  BY <1>6
<1>9. 1..k # {}
  <2>1. k \in Nat \ {0} /\ k \in 1..k
    BY <1>6
  <2>. QED
    BY <2>1, Zenon
<1>10. g[1..k] = g[1..(k - 1)] + lens[k]
  BY <1>4, <1>7, <1>8, <1>9
<1>11. f[k] = f[k - 1] + lens[k] /\ g[1..(k - 1)] = f[k - 1]
  BY <1>6 DEF IsSums
<1>. QED
  BY <1>2, <1>10, <1>11

\* The sum as Total folds it, and as wrapFile_PNG counts its stairs.
LEMMA TotalIs ==
    ASSUME NEW n \in Nat, NEW pieces, DOMAIN pieces = 1..n, \A k \in 1..n : pieces[k].len \in Nat,
           NEW f, IsSums(f, [k \in 1..n |-> pieces[k].len], n)
    PROVE  Total(pieces) = f[n]
<1> DEFINE lens == [k \in 1..n |-> pieces[k].len]
           Def(g) == [s \in SUBSET (1..n) |->
                         IF s = {} THEN 0 ELSE g[s \ {Max(s)}] + pieces[Max(s)].len]
           iter == CHOOSE g : g = Def(g)
<1>1. Total(pieces) = iter[1..n]
  BY DEF Total, FoldLeft, MapThenFoldSet
<1>2. ASSUME NEW g PROVE Folding(g, lens, n) <=> g = Def(g)
  <2>1. \A s \in SUBSET (1..n) : s # {} => lens[Max(s)] = pieces[Max(s)].len
    BY MaxProperties
  <2>2. [s \in SUBSET (1..n) |-> IF s = {} THEN 0 ELSE g[s \ {Max(s)}] + lens[Max(s)]] = Def(g)
    BY <2>1
  <2>. QED
    BY <2>2, Zenon DEF Folding
<1>3. \A k \in 1..n : lens[k] \in Nat
  OBVIOUS
<1>4. \E g : g = Def(g)
  <2>1. PICK g : Folding(g, lens, n)
    BY <1>3, FoldingExists
  <2>. QED
    BY <1>2, <2>1, Zenon
<1>5. iter = Def(iter)
  BY <1>4, Zenon
<1>6. Folding(iter, lens, n)
  BY <1>2, <1>5, Zenon
<1> HIDE DEF iter
<1>7. iter[1..n] = f[n]
  BY <1>3, <1>6, FoldingSums
<1>. QED
  BY <1>1, <1>7

\* FoldLeft with + gives the last of the sums.
LEMMA PlusIs ==
    ASSUME NEW n \in Nat, NEW lens, DOMAIN lens = 1..n, \A k \in 1..n : lens[k] \in Nat,
           NEW f, IsSums(f, lens, n)
    PROVE  FoldLeft(+, 0, lens) = f[n]
<1> DEFINE Def(g) == [s \in SUBSET (1..n) |-> IF s = {} THEN 0 ELSE g[s \ {Max(s)}] + lens[Max(s)]]
           iter == CHOOSE g : g = Def(g)
<1>1. FoldLeft(+, 0, lens) = iter[1..n]
  BY DEF FoldLeft, MapThenFoldSet
<1>2. ASSUME NEW g PROVE Folding(g, lens, n) <=> g = Def(g)
  BY DEF Folding
<1>4. \E g : g = Def(g)
  <2>1. PICK g : Folding(g, lens, n)
    BY FoldingExists
  <2>. QED
    BY <1>2, <2>1, Zenon
<1>5. iter = Def(iter)
  BY <1>4, Zenon
<1>6. Folding(iter, lens, n)
  BY <1>2, <1>5, Zenon
<1> HIDE DEF iter
<1>7. iter[1..n] = f[n]
  BY <1>6, FoldingSums
<1>. QED
  BY <1>1, <1>7

\* Each slice starts where the lengths before it end.
LEMMA CutIs ==
    ASSUME NEW n \in Nat, NEW pieces, DOMAIN pieces = 1..n, \A k \in 1..n : pieces[k].len \in Nat,
           NEW f, IsSums(f, [k \in 1..n |-> pieces[k].len], n)
    PROVE  Cut(pieces) =
               [k \in 1..n |-> Slice(f[k - 1], pieces[k].len, pieces[k].group, pieces[k].out)]
<1> DEFINE Def(g) == [k \in 1..n |-> IF k = 1 THEN 0 ELSE g[k - 1] + pieces[k - 1].len]
           pos == CHOOSE g : g = Def(g)
<1>1. Cut(pieces) = [k \in 1..n |-> Slice(pos[k], pieces[k].len, pieces[k].group, pieces[k].out)]
  BY DEF Cut
<1>2. \E g : g = Def(g)
  <2>1. PICK g : g = [k \in 1..n |-> f[k - 1]]
    OBVIOUS
  <2>2. ASSUME NEW k \in 1..n PROVE g[k] = IF k = 1 THEN 0 ELSE g[k - 1] + pieces[k - 1].len
    <3>1. CASE k = 1
      BY <2>1, <3>1 DEF IsSums
    <3>2. CASE k # 1
      <4>1. k - 1 \in 1..n
        BY <3>2
      <4>2. f[k - 1] = f[(k - 1) - 1] + pieces[k - 1].len
        BY <4>1 DEF IsSums
      <4>. QED
        BY <2>1, <3>2, <4>1, <4>2
    <3>. QED
      BY <3>1, <3>2
  <2>3. g = Def(g)
    BY <2>1, <2>2
  <2>. QED
    BY <2>3, Zenon
<1>3. pos = Def(pos)
  BY <1>2, Zenon
<1> HIDE DEF pos
<1> DEFINE Bad == {k \in 1..n : pos[k] # f[k - 1]}
<1>4. Bad = {}
  <2>1. SUFFICES ASSUME Bad # {} PROVE FALSE
    BY Zenon
  <2>2. PICK k \in Bad : \A m \in Bad : k <= m
    <3>1. Bad \in SUBSET Nat
      OBVIOUS
    <3>. QED
      BY <2>1, <3>1, LeastNat
  <2>3. pos[k] = IF k = 1 THEN 0 ELSE pos[k - 1] + pieces[k - 1].len
    BY <1>3
  <2>4. k # 1
    BY <2>2, <2>3 DEF IsSums
  <2>5. k - 1 \in 1..n /\ k - 1 \notin Bad
    BY <2>2, <2>4
  <2>6. f[k - 1] = f[(k - 1) - 1] + pieces[k - 1].len
    BY <2>5 DEF IsSums
  <2>. QED
    BY <2>2, <2>3, <2>4, <2>5, <2>6
<1>5. \A k \in 1..n : pos[k] = f[k - 1]
  BY <1>4
<1>. QED
  BY <1>1, <1>5

-----------------------------------------------------------------------------
(* Windows.                                                                *)

LEMMA DivMod ==
    ASSUME NEW a \in Nat, NEW w \in Nat \ {0}
    PROVE  /\ a \div w \in Nat /\ a % w \in 0..(w - 1)
           /\ a = w * (a \div w) + (a % w)
OBVIOUS

\* q is how often w goes into a, and r the rest.
Divides(a, w, q, r) == q \in Nat /\ r \in 0..(w - 1) /\ a = w * q + r

\* Only the quotient and the remainder divide a number.
LEMMA DivModUnique ==
    ASSUME NEW w \in Nat \ {0}, NEW q, NEW r, NEW a \in Nat, Divides(a, w, q, r)
    PROVE  a \div w = q /\ a % w = r
<1>. q \in Nat /\ r \in 0..(w - 1) /\ a = w * q + r
  BY DEF Divides
<1>1. PICK p \in Nat, s \in 0..(w - 1) : p = a \div w /\ s = a % w /\ a = w * p + s
  <2>1. /\ a \div w \in Nat /\ a % w \in 0..(w - 1)
        /\ a = w * (a \div w) + (a % w)
    BY DivMod, Zenon
  <2>. QED
    BY <2>1, Zenon
<1>2. ~ (p < q)
  <2>1. ASSUME p < q PROVE w * (p + 1) <= w * q
    BY <2>1
  <2>2. w * (p + 1) = w * p + w
    OBVIOUS
  <2>. QED
    BY <1>1, <2>1, <2>2
<1>3. ~ (q < p)
  <2>1. ASSUME q < p PROVE w * (q + 1) <= w * p
    BY <2>1
  <2>2. w * (q + 1) = w * q + w
    OBVIOUS
  <2>. QED
    BY <1>1, <2>1, <2>2
<1>. QED
  BY <1>1, <1>2, <1>3

\* A window of w has its first place at a multiple of w and one.
LEMMA OpeningIs ==
    ASSUME NEW w \in Nat \ {0}, NEW k \in Nat \ {0}
    PROVE  /\ Opening(k, w) \in Nat \ {0} /\ Opening(k, w) <= k /\ k <= Closing(k, w)
           /\ Closing(k, w) = Opening(k, w) + w - 1
           /\ \A j \in Opening(k, w)..Closing(k, w) :
                 Opening(j, w) = Opening(k, w) /\ Closing(j, w) = Closing(k, w)
<1>1. PICK q \in Nat, r \in 0..(w - 1) : q = (k - 1) \div w /\ r = (k - 1) % w /\ k - 1 = w * q + r
  BY DivMod
<1>2. PICK m \in Nat : m = w * q
  OBVIOUS
<1>3. Opening(k, w) = m + 1 /\ Closing(k, w) = m + w
  BY <1>1, <1>2 DEF Opening, Closing
<1>4. ASSUME NEW j \in (m + 1)..(m + w) PROVE Opening(j, w) = m + 1 /\ Closing(j, w) = m + w
  <2>1. PICK i \in 0..(w - 1), a \in Nat : i = j - 1 - m /\ a = j - 1 /\ a = w * q + i
    BY <1>2
  <2>2. a % w = i
    <3>1. Divides(a, w, q, i)
      BY <2>1 DEF Divides
    <3>. QED
      BY <3>1, DivModUnique
  <2>3. Opening(j, w) = j - i
    BY <2>1, <2>2 DEF Opening
  <2>. QED
    BY <2>1, <2>3 DEF Closing
<1>. QED
  BY <1>1, <1>2, <1>3, <1>4

-----------------------------------------------------------------------------
(* Changes of place.                                                       *)

PieceSet == [len : Nat \ {0}, group : Nat, out : Nat]
SliceSet == [start : Nat, len : Nat \ {0}, group : Nat, exp : Nat, out : Nat]

\* A permutation of the places 1..n.
Places(n, perm) ==
    /\ perm \in [1..n -> 1..n]
    /\ \A i, j \in 1..n : perm[i] = perm[j] => i = j
    /\ \A j \in 1..n : \E i \in 1..n : perm[i] = j

\* u has the slices of t, the one of place perm[k] at place k.
Reorders(u, t, n, perm) ==
    /\ u \in Seq(SliceSet) /\ Len(u) = n /\ Places(n, perm)
    /\ \A k \in 1..n : u[k].start = t[perm[k]].start /\ u[k].len = t[perm[k]].len

\* Every slice stays in its window, and the lowest of it comes last and knows where it ends.
ByWindows(u, t, n, perm) ==
    /\ n % Window = 0
    /\ \A k \in 1..n : /\ Closing(k, Window) <= n
                       /\ Opening(perm[k], Window) = Opening(k, Window)
                       /\ perm[Closing(k, Window)] = Opening(k, Window)
                       /\ u[Closing(k, Window)].exp = EndOf(t[Closing(k, Window)])

LEMMA SeqFromFunction ==
    ASSUME NEW S, NEW n \in Nat, NEW f \in [1..n -> S]
    PROVE  f \in Seq(S) /\ Len(f) = n /\ DOMAIN f = 1..n
<1>1. f \in Seq(S)
  BY IsASeq
<1>2. Len(f) \in Nat /\ DOMAIN f = 1..Len(f)
  BY <1>1, LenProperties
<1>3. 1..n = 1..Len(f)
  BY <1>2
<1>. QED
  BY <1>1, <1>2, <1>3

LEMMA SeqAsFunction ==
    ASSUME NEW S, NEW s \in Seq(S)
    PROVE  Len(s) \in Nat /\ DOMAIN s = 1..Len(s) /\ \A k \in 1..Len(s) : s[k] \in S
BY LenProperties, ElementOfSeq

LEMMA Whole ==
    ASSUME NEW n \in Nat, n % Window = 0, NEW k \in 1..n
    PROVE  Closing(k, Window) <= n
<1>1. PICK q \in Nat, r \in 0..4 : q = (k - 1) \div 5 /\ r = (k - 1) % 5 /\ k - 1 = 5 * q + r
  OBVIOUS
<1>2. PICK p \in Nat : n = 5 * p
  BY DEF Window
<1>3. 5 * q < 5 * p
  BY <1>1, <1>2
<1>. QED
  BY <1>1, <1>2, <1>3 DEF Opening, Closing, Window

LEMMA LowestIs ==
    ASSUME NEW x \in SliceSet, NEW y \in SliceSet
    PROVE  /\ Lowest(x, EndOf(y)) \in SliceSet
           /\ Lowest(x, EndOf(y)).start = x.start /\ Lowest(x, EndOf(y)).len = x.len
           /\ Lowest(x, EndOf(y)).out = x.out /\ Lowest(x, EndOf(y)).exp = EndOf(y)
<1>2. PICK e \in Nat : e = EndOf(y)
  BY DEF SliceSet, EndOf
<1>3. PICK a \in Nat, l \in Nat \ {0}, g \in Nat, b \in Nat, o \in Nat :
        x = [start |-> a, len |-> l, group |-> g, exp |-> b, out |-> o]
  BY DEF SliceSet
<1>4. PICK y1 : y1 = [x EXCEPT !.group = 3]
  OBVIOUS
<1>5. y1 = [start |-> a, len |-> l, group |-> 3, exp |-> b, out |-> o]
  BY <1>3, <1>4
<1>6. [y1 EXCEPT !.exp = e] = [start |-> a, len |-> l, group |-> 3, exp |-> e, out |-> o]
  BY <1>5
<1>7. Lowest(x, e) = [y1 EXCEPT !.exp = e]
  BY <1>4 DEF Lowest
<1>. QED
  BY <1>2, <1>3, <1>6, <1>7 DEF SliceSet

LEMMA AtTime ==
    ASSUME NEW x \in SliceSet, NEW o \in Nat
    PROVE  /\ [x EXCEPT !.out = o] \in SliceSet
           /\ [x EXCEPT !.out = o].start = x.start /\ [x EXCEPT !.out = o].len = x.len
           /\ [x EXCEPT !.out = o].out = o /\ [x EXCEPT !.out = o].exp = x.exp
BY DEF SliceSet

\* k lies in the window from o to c.
InWindow(k, w, o, c) ==
    /\ o = Opening(k, w) /\ c = Closing(k, w) /\ o <= k /\ k <= c /\ c = o + w - 1
    /\ \A j \in o..c : Opening(j, w) = o /\ Closing(j, w) = c

LEMMA WindowIs ==
    ASSUME NEW k \in Nat \ {0}, NEW w \in Nat \ {0}
    PROVE  \E o \in Nat \ {0}, c \in Nat : InWindow(k, w, o, c)
<1>1. PICK o \in Nat \ {0} : o = Opening(k, w)
  BY OpeningIs
<1>2. PICK c \in Nat : c = Closing(k, w) /\ c = o + w - 1
  BY <1>1, OpeningIs
<1>3. InWindow(k, w, o, c)
  BY <1>1, <1>2, OpeningIs DEF InWindow
<1>. QED
  BY <1>3

\* Where the slice that SwapEnds sends k-th comes from.
SwapPlace(k, n) ==
    IF Closing(k, Window) > n THEN k
    ELSE IF k = Opening(k, Window) THEN Closing(k, Window)
    ELSE IF k = Closing(k, Window) THEN Opening(k, Window)
    ELSE k

LEMMA SwapPlaces ==
    ASSUME NEW n \in Nat
    PROVE  /\ Places(n, [k \in 1..n |-> SwapPlace(k, n)])
           /\ \A k \in 1..n : SwapPlace(k, n) \in Opening(k, Window)..Closing(k, Window)
<1>. Window \in Nat \ {0} /\ Window > 1
  BY DEF Window
<1>1. ASSUME NEW k \in 1..n
      PROVE  /\ SwapPlace(k, n) \in 1..n
             /\ SwapPlace(k, n) \in Opening(k, Window)..Closing(k, Window)
             /\ SwapPlace(SwapPlace(k, n), n) = k
  <2>1. PICK o \in Nat \ {0}, c \in Nat : InWindow(k, Window, o, c)
    <3>1. k \in Nat \ {0}
      OBVIOUS
    <3>. QED
      BY <3>1, WindowIs
  <2>. /\ o = Opening(k, Window) /\ c = Closing(k, Window) /\ o <= k /\ k <= c /\ c = o + Window - 1
       /\ \A j \in o..c : Opening(j, Window) = o /\ Closing(j, Window) = c
    BY <2>1 DEF InWindow
  <2>2. \A j \in o..c :
            SwapPlace(j, n) =
                IF c > n THEN j ELSE IF j = o THEN c ELSE IF j = c THEN o ELSE j
    BY <2>1 DEF SwapPlace
  <2>. QED
    BY <2>1, <2>2
<1>2. PICK perm : perm = [k \in 1..n |-> SwapPlace(k, n)]
  OBVIOUS
<1>3. perm \in [1..n -> 1..n] /\ \A k \in 1..n : perm[perm[k]] = k
  BY <1>1, <1>2
<1>4. Places(n, perm)
  BY <1>3 DEF Places
<1>. QED
  BY <1>1, <1>2, <1>4

\* SwapEnds only changes places, within the windows.
LEMMA SwapEndsReorders ==
    ASSUME NEW t \in Seq(SliceSet), NEW n \in Nat, n = Len(t)
    PROVE  \E perm : /\ Reorders(SwapEnds(t), t, n, perm)
                     /\ \A k \in 1..n : SwapEnds(t)[k].out = t[k].out
                     /\ n % Window = 0 => ByWindows(SwapEnds(t), t, n, perm)
<1>. Window \in Nat \ {0} /\ Window > 1
  BY DEF Window
<1>1. DOMAIN t = 1..n /\ \A k \in 1..n : t[k] \in SliceSet
  BY SeqAsFunction
<1>. \A k \in 1..n : t[k].out \in Nat
  BY <1>1 DEF SliceSet
<1>2. PICK perm : perm = [k \in 1..n |-> SwapPlace(k, n)] /\ Places(n, perm)
  BY SwapPlaces
<1>3. PICK u : u = SwapEnds(t)
  OBVIOUS
<1>4. ASSUME NEW k \in 1..n
      PROVE  /\ u[k] \in SliceSet
             /\ u[k].start = t[perm[k]].start /\ u[k].len = t[perm[k]].len /\ u[k].out = t[k].out
             /\ Closing(k, Window) <= n => Opening(perm[k], Window) = Opening(k, Window)
             /\ Closing(k, Window) <= n => perm[Closing(k, Window)] = Opening(k, Window)
             /\ k = Closing(k, Window) => u[k].exp = EndOf(t[k])
  <2>1. PICK o \in Nat \ {0}, c \in Nat : InWindow(k, Window, o, c)
    <3>1. k \in Nat \ {0}
      OBVIOUS
    <3>. QED
      BY <3>1, WindowIs
  <2>. /\ o = Opening(k, Window) /\ c = Closing(k, Window) /\ o <= k /\ k <= c /\ c = o + Window - 1
       /\ \A j \in o..c : Opening(j, Window) = o /\ Closing(j, Window) = c
    BY <2>1 DEF InWindow
  <2>2. u[k] = CASE c > n -> t[k]
                 [] c <= n /\ k = o -> [t[c] EXCEPT !.out = t[k].out]
                 [] c <= n /\ k = c -> [Lowest(t[o], EndOf(t[c])) EXCEPT !.out = t[k].out]
                 [] OTHER -> t[k]
    BY <1>1, <1>3, <2>1 DEF SwapEnds
  <2>3. perm[k] = IF c > n THEN k ELSE IF k = o THEN c ELSE IF k = c THEN o ELSE k
    BY <1>2, <2>1 DEF SwapPlace
  <2>4. c <= n => perm[c] = o
    BY <1>2, <2>1 DEF SwapPlace
  <2>5. c <= n => Opening(perm[k], Window) = o
    BY <2>1, <2>3
  <2>6. CASE c > n
    BY <1>1, <2>1, <2>2, <2>3, <2>6
  <2>7. CASE c <= n /\ k = o
    <3>1. t[c] \in SliceSet /\ t[k].out \in Nat
      BY <1>1, <2>1, <2>7
    <3>2. u[k] = [t[c] EXCEPT !.out = t[k].out]
      BY <2>1, <2>2, <2>7
    <3>. QED
      BY <2>1, <2>3, <2>4, <2>5, <2>7, <3>1, <3>2, AtTime
  <2>8. CASE c <= n /\ k = c
    <3>1. PICK x : x = Lowest(t[o], EndOf(t[c]))
      OBVIOUS
    <3>4. t[o] \in SliceSet /\ t[c] \in SliceSet /\ k # o
      BY <1>1, <2>8
    <3>2. x \in SliceSet /\ x.start = t[o].start /\ x.len = t[o].len /\ x.exp = EndOf(t[c])
      BY <3>1, <3>4, LowestIs
    <3>3. u[k] = [x EXCEPT !.out = t[k].out]
      <4>1. u[k] = [Lowest(t[o], EndOf(t[c])) EXCEPT !.out = t[k].out]
        BY <2>2, <2>8, <3>4
      <4>. QED
        BY <3>1, <4>1, Zenon
    <3>. QED
      BY <2>1, <2>3, <2>4, <2>5, <2>8, <3>2, <3>3, AtTime
  <2>9. CASE c <= n /\ k # o /\ k # c
    BY <1>1, <2>1, <2>2, <2>3, <2>4, <2>5, <2>9
  <2>. QED
    BY <2>1, <2>6, <2>7, <2>8, <2>9
<1>5. u \in [1..n -> SliceSet]
  <2>1. DOMAIN u = 1..n /\ u = [k \in 1..n |-> u[k]]
    BY <1>1, <1>3 DEF SwapEnds
  <2>. QED
    BY <1>4, <2>1
<1>6. Reorders(u, t, n, perm)
  BY <1>2, <1>4, <1>5, SeqFromFunction DEF Reorders
<1>7. ASSUME n % Window = 0 PROVE ByWindows(u, t, n, perm)
  <2>1. ASSUME NEW k \in 1..n
        PROVE  /\ Closing(k, Window) \in 1..n
               /\ Closing(Closing(k, Window), Window) = Closing(k, Window)
    <3>1. Closing(k, Window) <= n
      BY <1>7, Whole
    <3>2. PICK o \in Nat \ {0}, c \in Nat : InWindow(k, Window, o, c)
      <4>1. k \in Nat \ {0}
        OBVIOUS
      <4>. QED
        BY <4>1, WindowIs
    <3>. QED
      BY <3>1, <3>2 DEF InWindow
  <2>2. ASSUME NEW k \in 1..n
        PROVE  /\ Closing(k, Window) <= n
               /\ Opening(perm[k], Window) = Opening(k, Window)
               /\ perm[Closing(k, Window)] = Opening(k, Window)
               /\ u[Closing(k, Window)].exp = EndOf(t[Closing(k, Window)])
    <3>1. PICK c \in 1..n : c = Closing(k, Window) /\ Closing(c, Window) = c /\ c <= n
      BY <2>1
    <3>2. u[c].exp = EndOf(t[c])
      BY <1>4, <3>1, Zenon
    <3>3. Opening(perm[k], Window) = Opening(k, Window) /\ perm[c] = Opening(k, Window)
      BY <1>4, <3>1, Zenon
    <3>. QED
      BY <3>1, <3>2, <3>3, Zenon
  <2>. QED
    BY <1>7, <2>2 DEF ByWindows
<1>. QED
  BY <1>3, <1>4, <1>6, <1>7

\* Where the slice that FirstToEnd sends k-th comes from.
EndPlace(k, n, w) ==
    IF Closing(k, w) > n THEN k ELSE IF k < Closing(k, w) THEN k + 1 ELSE Opening(k, w)

LEMMA EndPlaces ==
    ASSUME NEW n \in Nat, NEW w \in Nat \ {0}
    PROVE  Places(n, [k \in 1..n |-> EndPlace(k, n, w)])
<1> DEFINE Back(k) == IF Closing(k, w) > n THEN k
                      ELSE IF k > Opening(k, w) THEN k - 1 ELSE Closing(k, w)
<1>1. ASSUME NEW k \in 1..n
      PROVE  /\ EndPlace(k, n, w) \in 1..n /\ Back(k) \in 1..n
             /\ Back(EndPlace(k, n, w)) = k /\ EndPlace(Back(k), n, w) = k
  <2>1. PICK o \in Nat \ {0}, c \in Nat : InWindow(k, w, o, c)
    <3>1. k \in Nat \ {0}
      OBVIOUS
    <3>. QED
      BY <3>1, WindowIs
  <2>. /\ o <= k /\ k <= c /\ c = o + w - 1
       /\ \A j \in o..c : Opening(j, w) = o /\ Closing(j, w) = c
    BY <2>1 DEF InWindow
  <2>2. \A j \in o..c : /\ EndPlace(j, n, w) = IF c > n THEN j ELSE IF j < c THEN j + 1 ELSE o
                        /\ Back(j) = IF c > n THEN j ELSE IF j > o THEN j - 1 ELSE c
    BY DEF EndPlace
  <2> HIDE DEF Back
  <2>3. CASE c > n
    BY <2>2, <2>3
  <2>4. CASE c <= n
    <3>1. CASE k = o
      BY <2>2, <2>4, <3>1
    <3>2. CASE k # o
      BY <2>2, <2>4, <3>2
    <3>. QED
      BY <3>1, <3>2
  <2>. QED
    BY <2>3, <2>4
<1> HIDE DEF Back
<1>2. PICK perm, back : perm = [k \in 1..n |-> EndPlace(k, n, w)] /\ back = [k \in 1..n |-> Back(k)]
  OBVIOUS
<1>3. /\ perm \in [1..n -> 1..n] /\ \A k \in 1..n : back[k] \in 1..n
      /\ \A k \in 1..n : back[perm[k]] = k /\ perm[back[k]] = k
  BY <1>1, <1>2
<1>4. Places(n, perm)
  BY <1>3 DEF Places
<1>. QED
  BY <1>2, <1>4

\* So does FirstToEnd, within its own windows.
LEMMA FirstToEndReorders ==
    ASSUME NEW t \in Seq(SliceSet), NEW n \in Nat, n = Len(t), NEW w \in Nat \ {0},
           NEW measured \in BOOLEAN
    PROVE  \E perm : /\ Reorders(FirstToEnd(t, w, measured), t, n, perm)
                     /\ n % Window = 0 /\ w = Window /\ measured
                           => ByWindows(FirstToEnd(t, w, measured), t, n, perm)
<1>1. DOMAIN t = 1..n /\ \A k \in 1..n : t[k] \in SliceSet
  BY SeqAsFunction
<1>2. PICK perm : perm = [k \in 1..n |-> EndPlace(k, n, w)] /\ Places(n, perm)
  BY EndPlaces
<1>3. PICK u : u = FirstToEnd(t, w, measured)
  OBVIOUS
<1>4. ASSUME NEW k \in 1..n
      PROVE  /\ u[k] \in SliceSet
             /\ u[k].start = t[perm[k]].start /\ u[k].len = t[perm[k]].len
             /\ Closing(k, w) <= n => Opening(perm[k], w) = Opening(k, w)
             /\ Closing(k, w) <= n => perm[Closing(k, w)] = Opening(k, w)
             /\ k = Closing(k, w) /\ measured => u[k].exp = EndOf(t[k])
  <2>1. PICK o \in Nat \ {0}, c \in Nat : InWindow(k, w, o, c)
    <3>1. k \in Nat \ {0}
      OBVIOUS
    <3>. QED
      BY <3>1, WindowIs
  <2>. /\ o = Opening(k, w) /\ c = Closing(k, w) /\ o <= k /\ k <= c /\ c = o + w - 1
       /\ \A j \in o..c : Opening(j, w) = o /\ Closing(j, w) = c
    BY <2>1 DEF InWindow
  <2>2. u[k] = CASE c > n -> t[k]
                 [] c <= n /\ k < c -> t[k + 1]
                 [] OTHER -> IF measured THEN Lowest(t[o], EndOf(t[c])) ELSE t[o]
    BY <1>1, <1>3 DEF FirstToEnd
  <2>3. perm[k] = IF c > n THEN k ELSE IF k < c THEN k + 1 ELSE o
    BY <1>2 DEF EndPlace
  <2>4. c <= n => perm[c] = o
    BY <1>2 DEF EndPlace
  <2>5. c <= n => Opening(perm[k], w) = o
    BY <2>3
  <2>6. CASE c > n
    BY <1>1, <2>2, <2>3, <2>6
  <2>7. CASE c <= n /\ k < c
    <3>1. u[k] = t[k + 1] /\ k + 1 \in 1..n /\ perm[k] = k + 1
      BY <2>2, <2>3, <2>7
    <3>. QED
      BY <1>1, <2>4, <2>5, <2>7, <3>1
  <2>8. CASE c <= n /\ k = c
    <3>1. u[k] = (IF measured THEN Lowest(t[o], EndOf(t[c])) ELSE t[o]) /\ perm[k] = o
      BY <2>2, <2>3, <2>8
    <3>2. t[o] \in SliceSet /\ t[c] \in SliceSet
      BY <1>1, <2>8
    <3>3. CASE measured
      <4>3. PICK x \in SliceSet, y \in SliceSet : x = t[o] /\ y = t[c]
        BY <3>2
      <4>1. u[k] = Lowest(x, EndOf(y))
        BY <3>1, <3>3, <4>3
      <4>4. /\ u[k] \in SliceSet /\ u[k].start = x.start /\ u[k].len = x.len
            /\ u[k].exp = EndOf(y)
        BY <4>1, LowestIs
      <4>2. /\ u[k] \in SliceSet /\ u[k].start = t[o].start /\ u[k].len = t[o].len
            /\ u[k].exp = EndOf(t[k])
        BY <2>8, <4>3, <4>4
      <4>. QED
        BY <2>4, <2>5, <3>1, <4>2
    <3>4. CASE ~ measured
      BY <2>4, <2>5, <3>1, <3>2, <3>4
    <3>. QED
      BY <3>3, <3>4
  <2>. QED
    BY <2>6, <2>7, <2>8
<1>5. u \in [1..n -> SliceSet]
  <2>1. DOMAIN u = 1..n /\ u = [k \in 1..n |-> u[k]]
    BY <1>1, <1>3 DEF FirstToEnd
  <2>. QED
    BY <1>4, <2>1
<1>6. Reorders(u, t, n, perm)
  BY <1>2, <1>4, <1>5, SeqFromFunction DEF Reorders
<1>7. ASSUME n % Window = 0, w = Window, measured PROVE ByWindows(u, t, n, perm)
  <2>1. ASSUME NEW k \in 1..n
        PROVE  /\ Closing(k, w) \in 1..n
               /\ Closing(Closing(k, w), w) = Closing(k, w)
    <3>1. Closing(k, w) <= n
      BY <1>7, Whole
    <3>2. PICK o \in Nat \ {0}, c \in Nat : InWindow(k, w, o, c)
      <4>1. k \in Nat \ {0}
        OBVIOUS
      <4>. QED
        BY <4>1, WindowIs
    <3>. QED
      BY <3>1, <3>2 DEF InWindow
  <2>2. ASSUME NEW k \in 1..n
        PROVE  /\ Closing(k, w) <= n
               /\ Opening(perm[k], w) = Opening(k, w)
               /\ perm[Closing(k, w)] = Opening(k, w)
               /\ u[Closing(k, w)].exp = EndOf(t[Closing(k, w)])
    <3>1. PICK c \in 1..n : c = Closing(k, w) /\ Closing(c, w) = c /\ c <= n
      BY <2>1
    <3>2. u[c].exp = EndOf(t[c])
      BY <1>4, <1>7, <3>1, Zenon
    <3>3. Opening(perm[k], w) = Opening(k, w) /\ perm[c] = Opening(k, w)
      BY <1>4, <3>1, Zenon
    <3>. QED
      BY <3>1, <3>2, <3>3, Zenon
  <2>. QED
    BY <1>7, <2>2 DEF ByWindows
<1>. QED
  BY <1>3, <1>6, <1>7

-----------------------------------------------------------------------------
(* Slices side by side.                                                    *)

\* Where the slices begin and end, in the order of the test's bytes.
Marks(n, f) ==
    /\ f \in [0..n -> Nat] /\ f[0] = 0
    /\ \A k \in 1..n : f[k - 1] < f[k]

\* The slices before they are rearranged.
Plain(t, n, f) ==
    /\ t \in Seq(SliceSet) /\ Len(t) = n /\ Marks(n, f)
    /\ \A k \in 1..n : t[k].start = f[k - 1] /\ t[k].len = f[k] - f[k - 1]

\* The slice at place k is the one between the marks perm[k] - 1 and perm[k].
Tiles(u, n, f, perm) ==
    /\ u \in Seq(SliceSet) /\ Len(u) = n /\ Marks(n, f) /\ Places(n, perm)
    /\ \A k \in 1..n : u[k].start = f[perm[k] - 1] /\ u[k].len = f[perm[k]] - f[perm[k] - 1]

\* All windows are whole, and each ends with its lowest slice, which expects all of it.
Windowed(u, n, f, perm) ==
    /\ n % Window = 0
    /\ \A k \in 1..n : /\ Closing(k, Window) <= n
                       /\ Opening(perm[k], Window) = Opening(k, Window)
                       /\ perm[Closing(k, Window)] = Opening(k, Window)
                       /\ u[Closing(k, Window)].exp = f[Closing(k, Window)]

LEMMA MarksAscend ==
    ASSUME NEW n \in Nat, NEW f, Marks(n, f)
    PROVE  \A i, j \in 0..n : i < j => f[i] < f[j]
<1>1. PICK lens : lens = [k \in 1..n |-> f[k] - f[k - 1]]
  OBVIOUS
<1>2. \A k \in 1..n : lens[k] \in Nat /\ f[k] = f[k - 1] + lens[k] /\ lens[k] > 0
  <2>1. \A k \in 1..n : f[k] \in Nat /\ f[k - 1] \in Nat /\ f[k - 1] < f[k]
    BY DEF Marks
  <2>. QED
    BY <1>1, <2>1
<1>3. IsSums(f, lens, n)
  BY <1>2 DEF IsSums, Marks
<1>4. ASSUME NEW i \in 0..n, NEW j \in 0..n, i < j PROVE f[i] < f[j]
  <2>1. j \in i..n /\ i + 1 \in 1..n
    BY <1>4
  <2>2. f[i] + lens[i + 1] <= f[j]
    BY <1>2, <1>3, <1>4, <2>1, SumsGrow
  <2>3. f[i] \in Nat /\ f[j] \in Nat /\ lens[i + 1] \in Nat /\ lens[i + 1] > 0
    BY <1>2, <2>1 DEF Marks
  <2>. QED
    BY <2>2, <2>3
<1>. QED
  BY <1>4

\* Rearranging what was cut leaves the marks and gives the places.
LEMMA ReorderedTiles ==
    ASSUME NEW t, NEW n \in Nat, NEW f, Plain(t, n, f), NEW u, NEW perm, Reorders(u, t, n, perm)
    PROVE  /\ Tiles(u, n, f, perm)
           /\ ByWindows(u, t, n, perm) => Windowed(u, n, f, perm)
<1>1. Tiles(u, n, f, perm)
  <2>1. \A k \in 1..n : perm[k] \in 1..n
    BY DEF Reorders, Places
  <2>. QED
    BY <2>1 DEF Reorders, Plain, Tiles
<1>2. ASSUME ByWindows(u, t, n, perm), NEW k \in 1..n
      PROVE  u[Closing(k, Window)].exp = f[Closing(k, Window)]
  <2>1. PICK o \in Nat \ {0}, c \in Nat : InWindow(k, Window, o, c)
    <3>1. k \in Nat \ {0} /\ Window \in Nat \ {0}
      BY DEF Window
    <3>. QED
      BY <3>1, WindowIs
  <2>2. c = Closing(k, Window) /\ c \in 1..n
    BY <1>2, <2>1 DEF InWindow, ByWindows
  <2>3. u[c].exp = t[c].start + t[c].len
    BY <1>2, <2>2 DEF ByWindows, EndOf
  <2>4. t[c].start = f[c - 1] /\ t[c].len = f[c] - f[c - 1] /\ f[c] \in Nat /\ f[c - 1] \in Nat
    <3>1. c \in 1..n /\ c \in 0..n /\ c - 1 \in 0..n
      BY <2>2
    <3>2. f[c] \in Nat /\ f[c - 1] \in Nat
      BY <3>1 DEF Plain, Marks
    <3>. QED
      BY <3>1, <3>2 DEF Plain
  <2>. QED
    BY <2>2, <2>3, <2>4
<1>3. ByWindows(u, t, n, perm) => Windowed(u, n, f, perm)
  BY <1>2 DEF ByWindows, Windowed
<1>. QED
  BY <1>1, <1>3

\* Cut makes the marks, and the last is the total.
LEMMA CutPlain ==
    ASSUME NEW pieces \in Seq(PieceSet), NEW n \in Nat, n = Len(pieces)
    PROVE  \E f : /\ Plain(Cut(pieces), n, f)
                  /\ Total(pieces) = f[n]
                  /\ \A k \in 1..n : Cut(pieces)[k].out = pieces[k].out
<1>1. DOMAIN pieces = 1..n /\ \A k \in 1..n : pieces[k] \in PieceSet
  BY SeqAsFunction
<1>2. \A k \in 1..n : /\ pieces[k].len \in Nat \ {0}
                      /\ pieces[k].group \in Nat /\ pieces[k].out \in Nat
  BY <1>1 DEF PieceSet
<1>3. PICK lens : lens = [k \in 1..n |-> pieces[k].len]
  OBVIOUS
<1>4. \A k \in 1..n : lens[k] \in Nat
  BY <1>2, <1>3
<1>5. PICK f : IsSums(f, lens, n)
  BY <1>4, SumsExist
<1>6. IsSums(f, [k \in 1..n |-> pieces[k].len], n)
  BY <1>3, <1>5
<1>7. Total(pieces) = f[n]
  BY <1>1, <1>2, <1>6, TotalIs
<1>8. PICK t : /\ t = Cut(pieces)
               /\ t = [k \in 1..n |->
                          Slice(f[k - 1], pieces[k].len, pieces[k].group, pieces[k].out)]
  <2>1. n \in Nat /\ DOMAIN pieces = 1..n /\ \A k \in 1..n : pieces[k].len \in Nat
    BY <1>1, <1>2
  <2>2. Cut(pieces) =
            [k \in 1..n |-> Slice(f[k - 1], pieces[k].len, pieces[k].group, pieces[k].out)]
    BY <1>6, <2>1, CutIs, ZenonT(60)
  <2>. QED
    BY <2>2, Zenon
<1>9. ASSUME NEW k \in 1..n
      PROVE  /\ f[k - 1] \in Nat /\ f[k] \in Nat /\ f[k] = f[k - 1] + pieces[k].len
             /\ t[k] \in SliceSet /\ t[k].start = f[k - 1] /\ t[k].len = pieces[k].len
             /\ t[k].out = pieces[k].out
  <2>1. f[k - 1] \in Nat /\ f[k] \in Nat /\ f[k] = f[k - 1] + pieces[k].len
    BY <1>3, <1>5 DEF IsSums
  <2>2. t[k] = Slice(f[k - 1], pieces[k].len, pieces[k].group, pieces[k].out)
    BY <1>8
  <2>. QED
    BY <1>2, <2>1, <2>2 DEF Slice, SliceSet
<1>10. t \in [1..n -> SliceSet]
  BY <1>8, <1>9
<1>11. Marks(n, f)
  BY <1>2, <1>5, <1>9 DEF IsSums, Marks
<1>12. Plain(t, n, f)
  <2>1. t \in Seq(SliceSet) /\ Len(t) = n
    BY <1>10, SeqFromFunction
  <2>2. ASSUME NEW k \in 1..n PROVE t[k].start = f[k - 1] /\ t[k].len = f[k] - f[k - 1]
    BY <1>2, <1>9
  <2>. QED
    BY <1>11, <2>1, <2>2 DEF Plain
<1>. QED
  BY <1>7, <1>8, <1>9, <1>12

LEMMA PartPlaces ==
    ASSUME NEW a \in Nat, NEW b \in Nat, NEW p, Places(a, p), NEW q, Places(b, q),
           NEW perm, perm = [k \in 1..(a + b) |-> IF k <= a THEN p[k] ELSE a + q[k - a]]
    PROVE  Places(a + b, perm)
<1>1. \A k \in 1..(a + b) : k <= a => k \in 1..a /\ p[k] \in 1..a /\ perm[k] = p[k]
  BY DEF Places
<1>2. \A k \in 1..(a + b) :
         k > a => k - a \in 1..b /\ q[k - a] \in 1..b /\ perm[k] = a + q[k - a]
  BY DEF Places
<1>3. ASSUME NEW k \in 1..(a + b)
      PROVE  perm[k] \in 1..(a + b) /\ (perm[k] <= a <=> k <= a)
  <2>1. CASE k <= a
    BY <1>1, <2>1
  <2>2. CASE k > a
    <3>1. PICK x \in 1..b : perm[k] = a + x
      BY <1>2, <2>2
    <3>. QED
      BY <2>2, <3>1
  <2>. QED
    BY <2>1, <2>2
<1>4. ASSUME NEW i \in 1..(a + b), NEW j \in 1..(a + b), perm[i] = perm[j] PROVE i = j
  <2>1. CASE i <= a
    <3>1. j <= a
      BY <1>3, <1>4, <2>1
    <3>. QED
      BY <1>1, <1>4, <2>1, <3>1 DEF Places
  <2>2. CASE i > a
    <3>1. j > a
      <4>1. (perm[i] <= a <=> i <= a) /\ (perm[j] <= a <=> j <= a)
        BY <1>3
      <4>2. ~ (i <= a)
        BY <2>2
      <4>3. ~ (j <= a)
        BY <1>4, <4>1, <4>2, Zenon
      <4>. QED
        BY <4>3
    <3>4. PICK x \in 1..b, y \in 1..b :
             perm[i] = a + x /\ x = q[i - a] /\ perm[j] = a + y /\ y = q[j - a]
      BY <1>2, <2>2, <3>1
    <3>2. q[i - a] = q[j - a] /\ i - a \in 1..b /\ j - a \in 1..b
      BY <1>2, <1>4, <2>2, <3>1, <3>4
    <3>3. i - a = j - a
      BY <3>2 DEF Places
    <3>. QED
      BY <3>3
  <2>. QED
    BY <2>1, <2>2
<1>5. ASSUME NEW j \in 1..(a + b) PROVE \E i \in 1..(a + b) : perm[i] = j
  <2>1. CASE j <= a
    <3>1. PICK i \in 1..a : p[i] = j
      BY <2>1 DEF Places
    <3>2. i \in 1..(a + b) /\ i <= a
      OBVIOUS
    <3>. QED
      BY <1>1, <3>1, <3>2
  <2>2. CASE j > a
    <3>1. j - a \in 1..b
      BY <2>2
    <3>2. PICK i \in 1..b : q[i] = j - a
      BY <3>1 DEF Places
    <3>3. a + i \in 1..(a + b) /\ a + i > a /\ (a + i) - a = i
      OBVIOUS
    <3>4. perm[a + i] = a + q[i]
      BY <1>2, <3>3
    <3>5. a + q[i] = j
      BY <3>2
    <3>. QED
      BY <3>3, <3>4, <3>5
  <2>. QED
    BY <2>1, <2>2
<1>. QED
  BY <1>3, <1>4, <1>5 DEF Places

\* Two parts of a sequence, each rearranged.
LEMMA PartsReorder ==
    ASSUME NEW t \in Seq(SliceSet), NEW a \in Nat, NEW b \in Nat, Len(t) = a + b,
           NEW t1, t1 = SubSeq(t, 1, a), NEW t2, t2 = SubSeq(t, a + 1, Len(t)),
           NEW u, NEW p, Reorders(u, t1, a, p), NEW v, NEW q, Reorders(v, t2, b, q)
    PROVE  \E perm : /\ Reorders(u \o v, t, a + b, perm)
                     /\ ByWindows(u, t1, a, p) /\ ByWindows(v, t2, b, q)
                           => ByWindows(u \o v, t, a + b, perm)
<1>1. \A k \in 1..(a + b) : t[k] \in SliceSet
  BY SeqAsFunction
<1>2. \A k \in 1..a : t1[k] = t[k]
  <2>1. \A k \in 1..a : t[k] \in SliceSet
    BY <1>1
  <2>. QED
    BY <2>1, SubSeqProperties
<1>3. \A k \in 1..b : t2[k] = t[a + k]
  <2>1. \A k \in (a + 1)..(a + b) : t[k] \in SliceSet
    BY <1>1
  <2>2. \A k \in 1..b : t2[k] = t[(a + 1) + k - 1]
    BY <2>1, SubSeqProperties
  <2>. QED
    BY <2>2
<1>4. PICK w : w = u \o v
  OBVIOUS
<1>5. /\ w \in Seq(SliceSet) /\ Len(w) = a + b
      /\ \A k \in 1..(a + b) : w[k] = IF k <= a THEN u[k] ELSE v[k - a]
  <2>1. u \in Seq(SliceSet) /\ Len(u) = a /\ v \in Seq(SliceSet) /\ Len(v) = b
    BY DEF Reorders
  <2>2. /\ u \o v \in Seq(SliceSet) /\ Len(u \o v) = Len(u) + Len(v)
        /\ \A k \in 1..(Len(u) + Len(v)) :
              (u \o v)[k] = IF k <= Len(u) THEN u[k] ELSE v[k - Len(u)]
    BY <2>1, ConcatProperties
  <2>. QED
    BY <1>4, <2>1, <2>2
<1>6. PICK perm : perm = [k \in 1..(a + b) |-> IF k <= a THEN p[k] ELSE a + q[k - a]]
  OBVIOUS
<1>7. Places(a + b, perm)
  <2>1. Places(a, p) /\ Places(b, q)
    BY DEF Reorders
  <2>. QED
    BY <1>6, <2>1, PartPlaces
<1>8. ASSUME NEW k \in 1..(a + b) PROVE w[k].start = t[perm[k]].start /\ w[k].len = t[perm[k]].len
  <2>1. CASE k <= a
    <3>1. k \in 1..a /\ p[k] \in 1..a /\ perm[k] = p[k] /\ w[k] = u[k]
      BY <1>5, <1>6, <2>1 DEF Reorders, Places
    <3>2. u[k].start = t1[p[k]].start /\ u[k].len = t1[p[k]].len
      BY <3>1 DEF Reorders
    <3>3. t1[p[k]] = t[p[k]]
      BY <1>2, <3>1
    <3>. QED
      BY <3>1, <3>2, <3>3
  <2>2. CASE k > a
    <3>1. k - a \in 1..b /\ q[k - a] \in 1..b /\ perm[k] = a + q[k - a] /\ w[k] = v[k - a]
      BY <1>5, <1>6, <2>2 DEF Reorders, Places
    <3>2. v[k - a].start = t2[q[k - a]].start /\ v[k - a].len = t2[q[k - a]].len
      BY <3>1 DEF Reorders
    <3>3. t2[q[k - a]] = t[a + q[k - a]]
      BY <1>3, <3>1
    <3>. QED
      BY <3>1, <3>2, <3>3
  <2>. QED
    BY <2>1, <2>2
<1>9. Reorders(w, t, a + b, perm)
  BY <1>5, <1>7, <1>8 DEF Reorders
<1>10. ASSUME ByWindows(u, t1, a, p), ByWindows(v, t2, b, q) PROVE ByWindows(w, t, a + b, perm)
  <2>1. PICK m \in Nat : a = 5 * m
    BY <1>10 DEF ByWindows, Window
  <2>2. (a + b) % Window = 0
    BY <1>10, <2>1 DEF ByWindows, Window
  <2>3. \A k \in 1..b : Opening(a + k, Window) = a + Opening(k, Window)
    BY <2>1 DEF Opening, Window
  <2>4. ASSUME NEW k \in 1..(a + b)
        PROVE  /\ Closing(k, Window) <= a + b
               /\ Opening(perm[k], Window) = Opening(k, Window)
               /\ perm[Closing(k, Window)] = Opening(k, Window)
               /\ w[Closing(k, Window)].exp = EndOf(t[Closing(k, Window)])
    <3>1. CASE k <= a
      <4>1. k \in 1..a /\ perm[k] = p[k]
        BY <1>6, <3>1
      <4>2. PICK c \in Nat \ {0} : c = Closing(k, Window) /\ c <= a
        <5>1. k \in Nat \ {0} /\ Window \in Nat \ {0}
          BY DEF Window
        <5>2. PICK o \in Nat \ {0}, c \in Nat : InWindow(k, Window, o, c)
          BY <5>1, WindowIs
        <5>. QED
          BY <1>10, <4>1, <5>2 DEF InWindow, ByWindows
      <4>3. c \in 1..a /\ perm[c] = p[c] /\ w[c] = u[c] /\ t1[c] = t[c]
        BY <1>2, <1>5, <1>6, <4>2
      <4>. QED
        BY <1>10, <4>1, <4>2, <4>3 DEF ByWindows
    <3>2. CASE k > a
      <4>1. PICK j \in 1..b : j = k - a /\ k = a + j
        BY <3>2
      <4>2. PICK o \in Nat \ {0}, c \in 1..b : InWindow(j, Window, o, c)
        <5>1. j \in Nat \ {0} /\ Window \in Nat \ {0}
          BY DEF Window
        <5>2. PICK o \in Nat \ {0}, c \in Nat : InWindow(j, Window, o, c)
          BY <5>1, WindowIs
        <5>3. c = Closing(j, Window) /\ c >= j
          BY <5>2 DEF InWindow
        <5>4. c <= b
          BY <1>10, <5>3 DEF ByWindows
        <5>. QED
          BY <5>2, <5>3, <5>4
      <4>3. Opening(k, Window) = a + o /\ Closing(k, Window) = a + c
        BY <2>3, <4>1, <4>2 DEF InWindow, Closing, Window
      <4>6. \A i \in 1..b : a + i \in 1..(a + b) /\ ~ (a + i <= a) /\ (a + i) - a = i
        OBVIOUS
      <4>7. \A i \in 1..b : perm[a + i] = a + q[i] /\ w[a + i] = v[i]
        BY <1>5, <1>6, <4>6
      <4>4. /\ perm[k] = a + q[j] /\ q[j] \in 1..b /\ perm[a + c] = a + q[c]
            /\ w[a + c] = v[c] /\ t2[c] = t[a + c]
        BY <1>3, <4>1, <4>7 DEF Reorders, Places
      <4>5. Opening(q[j], Window) = o /\ q[c] = o /\ v[c].exp = EndOf(t2[c])
        BY <1>10, <4>2 DEF ByWindows, InWindow
      <4>. QED
        BY <2>3, <4>3, <4>4, <4>5
    <3>. QED
      BY <3>1, <3>2
  <2>. QED
    BY <2>2, <2>4 DEF ByWindows
<1>. QED
  BY <1>4, <1>9, <1>10

\* The bytes of the first k slices.
Bytes(u, k) == {b \in Nat : \E i \in 1..k : u[i].start <= b /\ b < u[i].start + u[i].len}

\* Slices with different places have no byte in common.
LEMMA TilesApart ==
    ASSUME NEW n \in Nat, NEW f, NEW perm, NEW u, Tiles(u, n, f, perm)
    PROVE  /\ \A k \in 1..n : /\ perm[k] \in 1..n
                              /\ u[k].start \in Nat /\ u[k].len \in Nat \ {0}
                              /\ u[k].start = f[perm[k] - 1] /\ u[k].start + u[k].len = f[perm[k]]
           /\ \A i, k \in 1..n : perm[i] < perm[k] => u[i].start + u[i].len <= u[k].start
<1>1. \A k \in 0..n : f[k] \in Nat
  BY DEF Tiles, Marks
<1>2. ASSUME NEW k \in 1..n
      PROVE  /\ perm[k] \in 1..n
             /\ u[k].start \in Nat /\ u[k].len \in Nat \ {0}
             /\ u[k].start = f[perm[k] - 1] /\ u[k].start + u[k].len = f[perm[k]]
  <2>1. PICK p \in 1..n : p = perm[k]
    BY DEF Tiles, Places
  <2>2. u[k].start = f[p - 1] /\ u[k].len = f[p] - f[p - 1]
    BY <2>1 DEF Tiles
  <2>3. p - 1 \in 0..n /\ p \in 0..n /\ f[p - 1] < f[p]
    BY DEF Tiles, Marks
  <2>4. f[p - 1] \in Nat /\ f[p] \in Nat
    BY <1>1, <2>3
  <2>. QED
    BY <2>1, <2>2, <2>3, <2>4
<1>3. ASSUME NEW i \in 1..n, NEW k \in 1..n, perm[i] < perm[k]
      PROVE  u[i].start + u[i].len <= u[k].start
  <2>1. PICK p \in 1..n, q \in 1..n : p = perm[i] /\ q = perm[k] /\ p < q
    BY <1>2, <1>3
  <2>2. f[p] <= f[q - 1]
    <3>1. CASE p = q - 1
      BY <1>1, <3>1
    <3>2. CASE p < q - 1
      <4>1. f[p] < f[q - 1]
        BY <3>2, MarksAscend DEF Tiles
      <4>. QED
        BY <1>1, <4>1
    <3>. QED
      BY <2>1, <3>1, <3>2
  <2>. QED
    BY <1>2, <2>1, <2>2
<1>. QED
  BY <1>2, <1>3

\* The first k slices have as many bytes as their lengths sum up to.
LEMMA BytesCounted ==
    ASSUME NEW n \in Nat, NEW f, NEW perm, NEW u, Tiles(u, n, f, perm),
           NEW g, IsSums(g, [k \in 1..n |-> u[k].len], n)
    PROVE  \A k \in 0..n : IsFiniteSet(Bytes(u, k)) /\ Cardinality(Bytes(u, k)) = g[k]
<1> DEFINE Bad == {k \in 0..n : ~ (IsFiniteSet(Bytes(u, k)) /\ Cardinality(Bytes(u, k)) = g[k])}
<1>1. SUFFICES ASSUME Bad # {} PROVE FALSE
  OBVIOUS
<1>2. PICK k \in Bad : \A m \in Bad : k <= m
  <2>1. Bad \in SUBSET Nat
    OBVIOUS
  <2>. QED
    BY <1>1, <2>1, LeastNat
<1>3. k # 0
  <2>1. Bytes(u, 0) = {}
    BY DEF Bytes
  <2>2. g[0] = 0
    BY DEF IsSums
  <2>. QED
    BY <1>2, <2>1, <2>2, FS_EmptySet
<1>4. k \in 1..n /\ k - 1 \in 0..n /\ k - 1 \notin Bad
  BY <1>2, <1>3
<1>5. PICK a \in Nat, l \in Nat \ {0} : a = u[k].start /\ l = u[k].len
  BY <1>4, TilesApart
<1>6. PICK S, T : S = Bytes(u, k - 1) /\ T = a..(a + l - 1)
  OBVIOUS
<1>7. IsFiniteSet(S) /\ Cardinality(S) = g[k - 1]
  BY <1>4, <1>6
<1>8. IsFiniteSet(T) /\ Cardinality(T) = l
  BY <1>6, FS_Interval
<1>9. S \cap T = {}
  <2>1. SUFFICES ASSUME NEW b \in S, b \in T PROVE FALSE
    OBVIOUS
  <2>2. PICK i \in 1..(k - 1) : b \in Nat /\ u[i].start <= b /\ b < u[i].start + u[i].len
    BY <1>6, <2>1 DEF Bytes
  <2>3. b \in Nat /\ a <= b /\ b < a + l
    BY <1>6, <2>1, <2>2
  <2>4. i \in 1..n /\ i # k
    BY <1>4, <2>2
  <2>5. PICK p \in 1..n, q \in 1..n : p = perm[i] /\ q = perm[k]
    BY <1>4, <2>4, TilesApart
  <2>6. p # q
    <3>1. p = q => i = k
      BY <1>4, <2>4, <2>5 DEF Tiles, Places
    <3>. QED
      BY <2>4, <3>1
  <2>7. PICK x \in Nat, y \in Nat : x = u[i].start /\ y = u[i].len /\ x <= b /\ b < x + y
    BY <2>2, <2>4, TilesApart
  <2>8. CASE p < q
    <3>1. u[i].start + u[i].len <= u[k].start
      BY <1>4, <2>4, <2>5, <2>8, TilesApart
    <3>2. x + y <= a
      BY <1>5, <2>7, <3>1, Zenon
    <3>. QED
      BY <2>3, <2>7, <3>2
  <2>9. CASE q < p
    <3>1. u[k].start + u[k].len <= u[i].start
      BY <1>4, <2>4, <2>5, <2>9, TilesApart
    <3>2. a + l <= x
      BY <1>5, <2>7, <3>1, Zenon
    <3>. QED
      BY <2>3, <2>7, <3>2
  <2>. QED
    BY <2>6, <2>8, <2>9
<1>10. Bytes(u, k) = S \cup T
  <2>1. ASSUME NEW b \in Bytes(u, k) PROVE b \in S \cup T
    <3>1. PICK i \in 1..k : b \in Nat /\ u[i].start <= b /\ b < u[i].start + u[i].len
      BY <2>1 DEF Bytes
    <3>2. CASE i = k
      <4>1. b \in Nat /\ a <= b /\ b < a + l
        BY <1>5, <3>1, <3>2
      <4>2. b \in a..(a + l - 1)
        BY <4>1
      <4>. QED
        BY <1>6, <4>2
    <3>3. CASE i # k
      <4>1. i \in 1..(k - 1)
        BY <1>4, <3>3
      <4>. QED
        BY <1>6, <3>1, <4>1 DEF Bytes
    <3>. QED
      BY <3>2, <3>3
  <2>2. ASSUME NEW b \in S PROVE b \in Bytes(u, k)
    <3>1. PICK i \in 1..(k - 1) : b \in Nat /\ u[i].start <= b /\ b < u[i].start + u[i].len
      BY <1>6, <2>2 DEF Bytes
    <3>2. i \in 1..k
      BY <1>4
    <3>. QED
      BY <3>1, <3>2 DEF Bytes
  <2>3. ASSUME NEW b \in T PROVE b \in Bytes(u, k)
    <3>1. b \in Nat /\ a <= b /\ b < a + l /\ k \in 1..k
      BY <1>4, <1>6, <2>3
    <3>. QED
      BY <1>5, <3>1 DEF Bytes
  <2>. QED
    BY <2>1, <2>2, <2>3
<1>11. /\ IsFiniteSet(S \cup T)
       /\ Cardinality(S \cup T) = Cardinality(S) + Cardinality(T) - Cardinality(S \cap T)
  BY <1>7, <1>8, FS_Union
<1>12. Cardinality(S \cap T) = 0
  BY <1>9, FS_EmptySet
<1>13. g[k] = g[k - 1] + l /\ g[k - 1] \in Nat
  BY <1>4, <1>5 DEF IsSums
<1>14. IsFiniteSet(Bytes(u, k)) /\ Cardinality(Bytes(u, k)) = g[k]
  BY <1>7, <1>8, <1>10, <1>11, <1>12, <1>13
<1>. QED
  BY <1>2, <1>14

\* The total is the last mark, whatever the order: both count the bytes.
LEMMA TotalTiles ==
    ASSUME NEW n \in Nat, NEW f, NEW perm, NEW u, Tiles(u, n, f, perm)
    PROVE  Total(u) = f[n]
<1>1. DOMAIN u = 1..n /\ \A k \in 1..n : u[k].len \in Nat
  BY SeqAsFunction, TilesApart DEF Tiles
<1>2. PICK lens : lens = [k \in 1..n |-> u[k].len]
  OBVIOUS
<1>3. \A k \in 1..n : lens[k] \in Nat
  BY <1>1, <1>2
<1>4. PICK g : IsSums(g, lens, n)
  BY <1>3, SumsExist
<1>5. IsSums(g, [k \in 1..n |-> u[k].len], n)
  BY <1>2, <1>4
<1>6. Total(u) = g[n]
  BY <1>1, <1>5, TotalIs
<1>7. Cardinality(Bytes(u, n)) = g[n]
  BY <1>5, BytesCounted
<1>8. f[n] \in Nat
  BY DEF Tiles, Marks
<1>9. Bytes(u, n) = 0..(f[n] - 1)
  <2>1. ASSUME NEW b \in Bytes(u, n) PROVE b \in 0..(f[n] - 1)
    <3>1. PICK i \in 1..n : b \in Nat /\ b < u[i].start + u[i].len
      BY <2>1 DEF Bytes
    <3>2. PICK p \in 1..n : b < f[p]
      BY <3>1, TilesApart
    <3>3. p = n \/ f[p] < f[n]
      <4>1. Marks(n, f) /\ p \in 0..n /\ n \in 0..n /\ (p = n \/ p < n)
        BY DEF Tiles
      <4>. QED
        BY <4>1, MarksAscend
    <3>4. f[p] \in Nat
      BY DEF Tiles, Marks
    <3>. QED
      BY <1>8, <3>1, <3>2, <3>3, <3>4
  <2>2. ASSUME NEW b \in 0..(f[n] - 1) PROVE b \in Bytes(u, n)
    <3>1. PICK T : T = {j \in 0..n : b < f[j]}
      OBVIOUS
    <3>2. T \in SUBSET Nat /\ n \in T
      BY <1>8, <3>1
    <3>3. PICK j \in T : \A m \in T : j <= m
      BY <3>2, LeastNat
    <3>4. j # 0
      BY <3>1 DEF Tiles, Marks
    <3>5. j \in 1..n /\ j - 1 \in 0..n /\ ~ (j - 1 \in T)
      BY <3>1, <3>3, <3>4
    <3>6. b < f[j] /\ ~ (b < f[j - 1]) /\ f[j - 1] \in Nat
      BY <3>1, <3>3, <3>5 DEF Tiles, Marks
    <3>7. PICK i \in 1..n : perm[i] = j
      BY <3>5 DEF Tiles, Places
    <3>8. u[i].start <= b /\ b < u[i].start + u[i].len
      BY <3>6, <3>7, TilesApart
    <3>. QED
      BY <3>8 DEF Bytes
  <2>. QED
    BY <2>1, <2>2
<1>10. Cardinality(0..(f[n] - 1)) = f[n]
  <2>1. PICK m \in Nat : m = f[n]
    BY <1>8
  <2>2. Cardinality(0..(m - 1)) = IF 0 > m - 1 THEN 0 ELSE (m - 1) - 0 + 1
    BY FS_Interval
  <2>. QED
    BY <2>1, <2>2
<1>. QED
  BY <1>6, <1>7, <1>9, <1>10

\* The starts of the slices and the end of the last are their ends and the first byte.
LEMMA TilesCover ==
    ASSUME NEW n \in Nat, NEW f, NEW perm, NEW u, Tiles(u, n, f, perm), n > 0
    PROVE  /\ {s.start : s \in ToSet(u)} \cup {Total(u)} = {EndOf(s) : s \in ToSet(u)} \cup {0}
           /\ Cardinality({s.start : s \in ToSet(u)}) = Len(u)
<1>1. DOMAIN u = 1..n /\ Len(u) = n
  BY SeqAsFunction DEF Tiles
<1>2. PICK S : S = {s.start : s \in ToSet(u)} /\ S = {u[k].start : k \in 1..n}
  BY <1>1 DEF ToSet
<1>3. PICK E : E = {EndOf(s) : s \in ToSet(u)} /\ E = {u[k].start + u[k].len : k \in 1..n}
  BY <1>1 DEF ToSet, EndOf
<1>4. S = {f[j] : j \in 0..(n - 1)}
  <2>1. ASSUME NEW j \in 0..(n - 1) PROVE f[j] \in S
    <3>1. PICK k \in 1..n : perm[k] = j + 1
      BY DEF Tiles, Places
    <3>2. u[k].start = f[j]
      BY <3>1, TilesApart
    <3>. QED
      BY <1>2, <3>2, Zenon
  <2>2. ASSUME NEW k \in 1..n PROVE \E j \in 0..(n - 1) : u[k].start = f[j]
    <3>1. perm[k] - 1 \in 0..(n - 1) /\ u[k].start = f[perm[k] - 1]
      BY TilesApart
    <3>. QED
      BY <3>1
  <2>3. \A x \in S : \E k \in 1..n : x = u[k].start
    BY <1>2, Zenon
  <2>. QED
    BY <2>1, <2>2, <2>3
<1>5. E = {f[j] : j \in 1..n}
  <2>1. ASSUME NEW j \in 1..n PROVE f[j] \in E
    <3>1. PICK k \in 1..n : perm[k] = j
      BY DEF Tiles, Places
    <3>2. u[k].start + u[k].len = f[j]
      BY <3>1, TilesApart
    <3>. QED
      BY <1>3, <3>2, Zenon
  <2>2. ASSUME NEW k \in 1..n PROVE \E j \in 1..n : u[k].start + u[k].len = f[j]
    BY TilesApart
  <2>3. \A x \in E : \E k \in 1..n : x = u[k].start + u[k].len
    BY <1>3, Zenon
  <2>. QED
    BY <2>1, <2>2, <2>3
<1>6. S \cup {f[n]} = E \cup {f[0]}
  <2>1. \A j \in 0..(n - 1) : j = 0 \/ j \in 1..n
    OBVIOUS
  <2>2. \A j \in 1..n : j = n \/ j \in 0..(n - 1)
    OBVIOUS
  <2>3. 0 \in 0..(n - 1) /\ n \in 1..n
    OBVIOUS
  <2>. QED
    BY <1>4, <1>5, <2>1, <2>2, <2>3
<1>7. Total(u) = f[n] /\ f[0] = 0
  BY TotalTiles DEF Tiles, Marks
<1>8. Cardinality(S) = n
  <2>1. PICK h : h = [k \in 1..n |-> u[k].start]
    OBVIOUS
  <2>2. ASSUME NEW i \in 1..n, NEW k \in 1..n, u[i].start = u[k].start PROVE i = k
    <3>1. /\ perm[i] \in Nat /\ perm[k] \in Nat /\ u[i].start \in Nat
          /\ u[i].len \in Nat \ {0} /\ u[k].len \in Nat \ {0}
      BY TilesApart
    <3>2. ~ (perm[i] < perm[k]) /\ ~ (perm[k] < perm[i])
      BY <2>2, <3>1, TilesApart
    <3>3. perm[i] = perm[k]
      BY <3>1, <3>2
    <3>. QED
      BY <3>3 DEF Tiles, Places
  <2>3. h \in Bijection(1..n, S)
    BY <1>2, <2>1, <2>2 DEF Bijection, Injection, Surjection, IsInjective
  <2>4. ExistsBijection(1..n, S)
    BY <2>3 DEF ExistsBijection
  <2>. QED
    BY <2>4, FS_CountingElements
<1>. QED
  BY <1>1, <1>2, <1>3, <1>6, <1>7, <1>8

-----------------------------------------------------------------------------
(* The pieces of the tests.                                                *)

\* h[k] is the first k of n sequences behind one another.
Flattening(h, seqs, n) ==
    h = [i \in 1..n |-> IF i = 1 THEN seqs[i] ELSE h[i - 1] \o seqs[i]]

\* There is one, for any sequences.
LEMMA FlatteningExists ==
    ASSUME NEW n \in Nat, NEW seqs
    PROVE  \E h : Flattening(h, seqs, n)
<1> DEFINE Bad == {k \in 0..n : ~ \E h : Flattening(h, seqs, k)}
<1>1. SUFFICES ASSUME Bad # {} PROVE FALSE
  OBVIOUS
<1>2. PICK k \in Bad : \A m \in Bad : k <= m
  <2>1. Bad \in SUBSET Nat
    OBVIOUS
  <2>. QED
    BY <1>1, <2>1, LeastNat
<1>3. k # 0
  <2>1. PICK h : h = [i \in 1..0 |-> seqs[i]]
    OBVIOUS
  <2>2. \A i \in 1..0 : FALSE
    OBVIOUS
  <2>3. h = [i \in 1..0 |-> IF i = 1 THEN seqs[i] ELSE h[i - 1] \o seqs[i]]
    BY <2>1, <2>2
  <2>. QED
    BY <2>3 DEF Flattening
<1>4. k - 1 \in 0..n /\ k - 1 \notin Bad /\ k \in Nat \ {0}
  BY <1>2, <1>3
<1>5. PICK g : Flattening(g, seqs, k - 1)
  BY <1>4
<1>6. PICK h : h = [i \in 1..k |-> IF i < k THEN g[i]
                                   ELSE IF i = 1 THEN seqs[i] ELSE g[i - 1] \o seqs[i]]
  OBVIOUS
<1>7. ASSUME NEW i \in 1..k PROVE h[i] = IF i = 1 THEN seqs[i] ELSE h[i - 1] \o seqs[i]
  <2>1. i # 1 => i - 1 \in 1..k /\ i - 1 < k /\ h[i - 1] = g[i - 1]
    BY <1>4, <1>6
  <2>2. CASE i < k
    <3>1. i \in 1..(k - 1)
      BY <1>4, <2>2
    <3>2. g[i] = IF i = 1 THEN seqs[i] ELSE g[i - 1] \o seqs[i]
      BY <1>5, <3>1 DEF Flattening
    <3>. QED
      BY <1>6, <2>1, <2>2, <3>2
  <2>3. CASE i = k
    BY <1>6, <2>1, <2>3
  <2>. QED
    BY <1>4, <2>2, <2>3
<1>8. Flattening(h, seqs, k)
  <2>1. h = [i \in 1..k |-> h[i]]
    BY <1>6
  <2>2. [i \in 1..k |-> h[i]] = [i \in 1..k |-> IF i = 1 THEN seqs[i] ELSE h[i - 1] \o seqs[i]]
    BY <1>7, Zenon
  <2>. QED
    BY <2>1, <2>2, Zenon DEF Flattening
<1>. QED
  BY <1>8

\* The sequences behind one another: there are at least as many elements.
LEMMA FlattenIs ==
    ASSUME NEW S, NEW n \in Nat \ {0}, NEW seqs, Len(seqs) = n,
           \A k \in 1..n : seqs[k] \in Seq(S) /\ Len(seqs[k]) > 0
    PROVE  FlattenSeq(seqs) \in Seq(S) /\ Len(FlattenSeq(seqs)) >= n
<1> DEFINE Def(h) == [i \in 1..n |-> IF i = 1 THEN seqs[i] ELSE h[i - 1] \o seqs[i]]
           flat == CHOOSE h : h = Def(h)
<1>1. FlattenSeq(seqs) = flat[n]
  BY DEF FlattenSeq
<1>2. \E h : h = Def(h)
  BY FlatteningExists DEF Flattening
<1>3. flat = Def(flat)
  BY <1>2, Zenon
<1> HIDE DEF flat
<1> DEFINE Bad == {k \in 1..n : ~ (flat[k] \in Seq(S) /\ Len(flat[k]) >= k)}
<1>4. Bad = {}
  <2>1. SUFFICES ASSUME Bad # {} PROVE FALSE
    BY Zenon
  <2>2. PICK k \in Bad : \A m \in Bad : k <= m
    <3>1. Bad \in SUBSET Nat
      OBVIOUS
    <3>. QED
      BY <2>1, <3>1, LeastNat
  <2>3. flat[k] = IF k = 1 THEN seqs[k] ELSE flat[k - 1] \o seqs[k]
    BY <1>3
  <2>4. seqs[k] \in Seq(S) /\ Len(seqs[k]) > 0 /\ Len(seqs[k]) \in Nat
    BY SeqAsFunction
  <2>5. k # 1
    BY <2>2, <2>3, <2>4
  <2>6. k - 1 \in 1..n /\ k - 1 \notin Bad
    BY <2>2, <2>5
  <2>7. flat[k - 1] \in Seq(S) /\ Len(flat[k - 1]) >= k - 1 /\ Len(flat[k - 1]) \in Nat
    BY <2>6, SeqAsFunction
  <2>8. flat[k - 1] \o seqs[k] \in Seq(S)
        /\ Len(flat[k - 1] \o seqs[k]) = Len(flat[k - 1]) + Len(seqs[k])
    BY <2>4, <2>7, ConcatProperties
  <2>9. flat[k] = flat[k - 1] \o seqs[k]
    BY <2>3, <2>5
  <2>10. Len(flat[k]) >= k
    BY <2>4, <2>7, <2>8, <2>9
  <2>. QED
    BY <2>2, <2>8, <2>9, <2>10
<1>5. n \in 1..n
  OBVIOUS
<1>. QED
  BY <1>1, <1>4, <1>5

LEMMA TimesIs ==
    ASSUME NEW sp \in Nat, NEW k \in Nat \ {0}
    PROVE  Times(sp, k) \in Nat
BY DEF Times, Forever

LEMMA StairsAre ==
    ASSUME NEW a \in Nat, NEW b \in Nat, NEW c \in Nat, NEW sz \in Nat \ {0}
    PROVE  /\ b * c \in Nat
           /\ Stairs(a, b, c, sz) \in [1..(a + b * c) -> Nat \ {0}]
<1>1. PICK d \in Nat : d = b * c
  OBVIOUS
<1>2. d > 0 => c > 0
  BY <1>1
<1>3. ASSUME NEW k \in 1..(a + d), k > a PROVE sz * (((k - a - 1) % c) + 1) \in Nat \ {0}
  <2>1. c \in Nat \ {0} /\ k - a - 1 \in Nat
    BY <1>2, <1>3
  <2>2. PICK r \in Nat : r = (k - a - 1) % c
    BY <2>1, DivMod
  <2>3. sz * (r + 1) \in Nat \ {0}
    OBVIOUS
  <2>. QED
    BY <2>2, <2>3
<1>. QED
  BY <1>1, <1>3 DEF Stairs

\* A rate of a train is a sequence of pieces, none of them empty.
LEMMA SubtrainIs ==
    ASSUME NEW r, {r.length, r.step, r.rmin, r.rmax, r.gap} \subseteq Nat, r.step >= 2,
           r.gap * r.rmin >= 8, r.gap * r.rmax >= 8, NEW k \in 0..(r.step - 1)
    PROVE  Subtrain(r, k) \in Seq(PieceSet) /\ Len(Subtrain(r, k)) > 0
<1>1. PICK lo \in Nat, hi \in Nat, gap \in Nat, steps \in Nat \ {0} :
         lo = r.rmin /\ hi = r.rmax /\ gap = r.gap /\ steps = r.step - 1
  OBVIOUS
<1>2. k \in 0..steps
  BY <1>1
<1>3. PICK q \in Int : q = (k * (hi - lo)) \div steps
  BY <1>1
<1>4. (lo <= hi => q >= 0) /\ (hi <= lo => q >= hi - lo)
  <2>1. steps * q <= k * (hi - lo) /\ k * (hi - lo) < steps * (q + 1)
    BY <1>3
  <2>2. ASSUME lo <= hi PROVE q >= 0
    <3>1. k * (hi - lo) >= 0
      BY <2>2
    <3>2. ASSUME q + 1 <= 0 PROVE steps * (q + 1) <= 0
      BY <3>2
    <3>. QED
      BY <2>1, <3>1, <3>2
  <2>3. ASSUME hi <= lo PROVE q >= hi - lo
    <3>1. k * (hi - lo) >= steps * (hi - lo)
      BY <1>2, <2>3
    <3>2. ASSUME q + 1 <= hi - lo PROVE steps * (q + 1) <= steps * (hi - lo)
      BY <3>2
    <3>. QED
      BY <2>1, <3>1, <3>2
  <2>. QED
    BY <2>2, <2>3
<1>5. PICK rate \in Nat : rate = lo + q /\ (rate >= lo \/ rate >= hi)
  BY <1>4
<1>6. PICK x \in Nat : x = gap * rate /\ x >= 8
  <2>1. gap * lo >= 8 /\ gap * hi >= 8
    BY <1>1
  <2>2. gap * rate >= gap * lo \/ gap * rate >= gap * hi
    BY <1>5
  <2>. QED
    BY <2>1, <2>2
<1>7. PICK n \in Nat \ {0} : n = x \div 11120 + 1 /\ x >= 8 * n
  BY <1>6
<1>8. PICK len \in Nat \ {0} : len = x \div (8 * n)
  <2>1. PICK w \in Nat \ {0} : w = 8 * n
    OBVIOUS
  <2>2. x \div w \in Nat /\ x % w \in 0..(w - 1) /\ x = w * (x \div w) + (x % w)
    BY <2>1, DivMod
  <2>3. x \div w # 0
    BY <1>7, <2>1, <2>2
  <2>. QED
    BY <2>1, <2>2, <2>3
<1>9. PICK bursts \in Nat : bursts = IF r.length > 20 \div n THEN r.length ELSE 20 \div n
  BY <1>7
<1> DEFINE Gap(i, n1) == IF i % n1 = 0 THEN r.gap ELSE 40
           Burst(n1, len1, bursts1) ==
        [i \in 1..bursts1 * n1 + 1 |->
            IF i > bursts1 * n1 THEN Piece(64, 1, 2000)
            ELSE Piece(len1, 1, Gap(i, n1))]
           Rate == r.rmin + (k * (r.rmax - r.rmin)) \div (r.step - 1)
           Count(x1) == x1 \div (MTU * 8) + 1
           Longer(n1) == IF r.length > 20 \div n1 THEN r.length ELSE 20 \div n1
<1>10. Subtrain(r, k) = Burst(Count(r.gap * Rate), (r.gap * Rate) \div (8 * Count(r.gap * Rate)),
                              Longer(Count(r.gap * Rate)))
  BY Zenon DEF Subtrain
<1>11. Rate = rate
  BY <1>1, <1>3, <1>5
<1>12. Count(x) = n
  BY <1>7 DEF MTU
<1>13. Longer(n) = bursts
  BY <1>9
<1> HIDE DEF Rate, Count, Longer, Burst
<1>14. r.gap * rate = x
  BY <1>1, <1>6
<1>15. Subtrain(r, k) = Burst(n, len, bursts)
  BY <1>8, <1>10, <1>11, <1>12, <1>13, <1>14, Zenon
<1>16. PICK m \in Nat : m = bursts * n
  OBVIOUS
<1>17. \A i \in 1..m + 1 :
         (IF i > m THEN Piece(64, 1, 2000) ELSE Piece(len, 1, Gap(i, n))) \in PieceSet
  BY DEF Piece, PieceSet
<1> HIDE DEF Gap
<1>18. Burst(n, len, bursts) = [i \in 1..m + 1 |->
            IF i > m THEN Piece(64, 1, 2000) ELSE Piece(len, 1, Gap(i, n))]
  BY <1>16 DEF Burst
<1>19. Burst(n, len, bursts) \in [1..m + 1 -> PieceSet]
  BY <1>17, <1>18
<1>20. m + 1 \in Nat
  BY <1>16
<1>21. Burst(n, len, bursts) \in Seq(PieceSet) /\ Len(Burst(n, len, bursts)) = m + 1
  BY <1>19, <1>20, SeqFromFunction, ZenonT(40)
<1>. QED
  BY <1>15, <1>16, <1>21

\* Whole windows, the given pieces first.
LEMMA PadToIs ==
    ASSUME NEW pieces \in Seq(PieceSet), NEW p \in PieceSet
    PROVE  /\ PadTo(pieces, p) \in Seq(PieceSet)
           /\ Len(PadTo(pieces, p)) % Window = 0
           /\ Len(PadTo(pieces, p)) >= Len(pieces)
<1>1. PICK l \in Nat : l = Len(pieces)
  BY LenProperties
<1>2. PICK m \in Nat : m = (Window - (l % Window)) % Window /\ (l + m) % Window = 0
  BY DEF Window
<1>3. PICK rest : rest = [i \in 1..m |-> p]
  OBVIOUS
<1>4. rest \in Seq(PieceSet) /\ Len(rest) = m
  <2>1. rest \in [1..m -> PieceSet]
    BY <1>3
  <2>. QED
    BY <2>1, SeqFromFunction
<1>5. PadTo(pieces, p) = pieces \o rest
  BY <1>1, <1>2, <1>3 DEF PadTo
<1>6. pieces \o rest \in Seq(PieceSet) /\ Len(pieces \o rest) = l + m
  BY <1>1, <1>4, ConcatProperties
<1>. QED
  BY <1>1, <1>2, <1>5, <1>6

LEMMA TrainPiecesAre ==
    ASSUME NEW r \in Requests, r.kind = "train", r.step >= 2
    PROVE  /\ TrainPieces(r) \in Seq(PieceSet)
           /\ Len(TrainPieces(r)) % Window = 0
<1>1. {r.length, r.step, r.rmin, r.rmax, r.gap} \subseteq Nat
  BY RequestAssumption
<1>2. r.gap * r.rmin >= 8 /\ r.gap * r.rmax >= 8
  BY SliceAssumption
<1>3. PICK n \in Nat \ {0} : n = r.step /\ n >= 2
  BY <1>1
<1>4. PICK parts : parts = [k \in 1..n |-> Subtrain(r, k - 1)]
  OBVIOUS
<1>5. \A k \in 1..n : parts[k] \in Seq(PieceSet) /\ Len(parts[k]) > 0
  <2>1. \A k \in 0..(r.step - 1) : Subtrain(r, k) \in Seq(PieceSet) /\ Len(Subtrain(r, k)) > 0
    BY <1>1, <1>2, SubtrainIs
  <2>2. \A k \in 1..n : k - 1 \in 0..(r.step - 1)
    BY <1>3
  <2>. QED
    BY <1>4, <2>1, <2>2
<1>6. Len(parts) = n
  <2>1. parts \in [1..n -> Seq(PieceSet)]
    BY <1>4, <1>5
  <2>. QED
    BY <2>1, SeqFromFunction
<1>7. PICK train : train = FlattenSeq(parts)
  OBVIOUS
<1>8. train \in Seq(PieceSet) /\ Len(train) >= n
  BY <1>5, <1>6, <1>7, FlattenIs
<1>9. Len(train) - 1 \in 1..Len(train)
  BY <1>3, <1>8, LenProperties
<1>10. Piece(train[Len(train) - 1].len, 1, 40) \in PieceSet
  <2>1. train[Len(train) - 1] \in PieceSet
    BY <1>8, <1>9, ElementOfSeq
  <2>. QED
    BY <2>1 DEF Piece, PieceSet
<1>11. TrainPieces(r) = PadTo(train, Piece(train[Len(train) - 1].len, 1, 40))
  BY <1>3, <1>4, <1>7 DEF TrainPieces
<1>. QED
  BY <1>8, <1>10, <1>11, PadToIs

LEMMA CellularPiecesAre ==
    ASSUME NEW r \in Requests, r.kind = "cellular"
    PROVE  /\ CellularPieces(r) \in Seq(PieceSet)
           /\ Len(CellularPieces(r)) % Window = 0
<1>1. PICK n \in Nat, gap \in Nat : n = r.packets /\ gap = r.gap
  BY RequestAssumption
<1> DEFINE Gap(k, gap1) == IF k = 1 THEN 40000 ELSE IF k % 20 = 1 THEN 20000 ELSE gap1
           Rates(n1, gap1) == [k \in 1..n1 + 1 |-> Piece(CellularMTU, 1, Gap(k, gap1))]
           train == Rates(n, gap)
<1>6. CellularPieces(r) = PadTo(Rates(r.packets, r.gap), Piece(CellularMTU, 1, r.gap))
  BY DEF CellularPieces
<1>2. \A k \in 1..n + 1 : Piece(CellularMTU, 1, Gap(k, gap)) \in PieceSet
  BY DEF Piece, PieceSet, CellularMTU
<1> HIDE DEF Gap
<1>3. train \in [1..n + 1 -> PieceSet] /\ n + 1 \in Nat
  BY <1>2
<1> HIDE DEF Rates
<1>4. train \in Seq(PieceSet)
  BY <1>3, SeqFromFunction
<1>5. Piece(CellularMTU, 1, gap) \in PieceSet
  BY DEF Piece, PieceSet, CellularMTU
<1>7. CellularPieces(r) = PadTo(train, Piece(CellularMTU, 1, gap))
  BY <1>1, <1>6, Zenon
<1>. QED
  BY <1>4, <1>5, <1>7, PadToIs

BlockSet == [part : {"start", "frame", "end", "comment"}, len : Nat]

\* The buffer of a page has the bytes that are needed.
LEMMA PageIs ==
    ASSUME NEW need \in Nat
    PROVE  Total(Page(need)) >= need
<1>1. PICK a \in Nat, b \in Nat, c \in Nat : a = PageStart /\ b = PageFrame /\ c = PageEnd
  BY ParameterAssumption
<1> DEFINE page == <<Block("start", a), Block("frame", b), Block("end", c)>>
<1>2. /\ page \in Seq(BlockSet) /\ Len(page) = 3 /\ DOMAIN page = 1..3
      /\ page[1].len = a /\ page[2].len = b /\ page[3].len = c
  <2>1. /\ Block("start", a) \in BlockSet /\ Block("frame", b) \in BlockSet
        /\ Block("end", c) \in BlockSet
        /\ Block("start", a).len = a /\ Block("frame", b).len = b /\ Block("end", c).len = c
    BY DEF Block, BlockSet
  <2>. QED
    BY <2>1
<1>3. Page(need) = IF Total(page) >= need THEN page
                   ELSE InsertAt(page, 3, Block("comment", need - Total(page)))
  BY <1>1, Zenon DEF Page
<1> HIDE DEF page
<1>4. Total(page) = a + b + c
  <2>1. PICK f : f = [k \in 0..3 |-> IF k = 0 THEN 0 ELSE IF k = 1 THEN a
                                     ELSE IF k = 2 THEN a + b ELSE a + b + c]
    OBVIOUS
  <2>2. IsSums(f, [k \in 1..3 |-> page[k].len], 3)
    BY <1>2, <2>1 DEF IsSums
  <2>3. \A k \in 1..3 : page[k].len \in Nat
    BY <1>2
  <2>4. Total(page) = f[3]
    BY <1>2, <2>2, <2>3, TotalIs
  <2>. QED
    BY <2>1, <2>4
<1>5. CASE Total(page) >= need
  BY <1>3, <1>5
<1>6. CASE ~ (Total(page) >= need)
  <2>1. PICK d \in Nat : d = need - Total(page)
    BY <1>4, <1>6
  <2>2. PICK all : all = InsertAt(page, 3, Block("comment", d))
    OBVIOUS
  <2>12. Block("comment", d) \in BlockSet /\ Block("comment", d).len = d
    BY DEF Block, BlockSet
  <2>3. PICK e \in BlockSet : e = Block("comment", d) /\ e.len = d
    BY <2>12, Zenon
  <2>11. /\ page \in Seq(BlockSet) /\ Len(page) + 1 = 4 /\ 3 \in 1..Len(page) + 1
         /\ all = InsertAt(page, 3, e)
    BY <1>2, <2>2, <2>3
  <2>4. /\ DOMAIN all = 1..4
        /\ \A k \in 1..4 : all[k] = IF k < 3 THEN page[k] ELSE IF k = 3 THEN e ELSE page[k - 1]
    <3>1. \A i \in 1..Len(page) + 1 :
             /\ DOMAIN InsertAt(page, i, e) = 1..Len(page) + 1
             /\ \A k \in 1..Len(page) + 1 :
                   InsertAt(page, i, e)[k] =
                       IF k < i THEN page[k] ELSE IF k = i THEN e ELSE page[k - 1]
      BY <2>11, InsertProperties
    <3>. QED
      BY <2>11, <3>1
  <2>5. all[1].len = a /\ all[2].len = b /\ all[3].len = d /\ all[4].len = c
    BY <1>2, <2>3, <2>4
  <2>6. PICK f : f = [k \in 0..4 |-> IF k = 0 THEN 0 ELSE IF k = 1 THEN a
                                     ELSE IF k = 2 THEN a + b
                                     ELSE IF k = 3 THEN a + b + d ELSE a + b + d + c]
    OBVIOUS
  <2>7. \A k \in 1..4 : all[k].len \in Nat
    BY <2>5
  <2>8. IsSums(f, [k \in 1..4 |-> all[k].len], 4)
    BY <2>5, <2>6, <2>7 DEF IsSums
  <2>9. Total(all) = f[4]
    <3>1. 4 \in Nat /\ DOMAIN all = 1..4
      BY <2>4
    <3>. QED
      BY <2>7, <2>8, <3>1, TotalIs, ZenonT(40)
  <2>10. Page(need) = all
    BY <1>3, <1>6, <2>1, <2>2, Zenon
  <2>. QED
    BY <1>4, <2>1, <2>6, <2>9, <2>10
<1>. QED
  BY <1>5, <1>6

-----------------------------------------------------------------------------
(* The tests.                                                              *)

\* The slices of every test lie side by side.
Laid(ss) == \E f, perm : Tiles(ss, Len(ss), f, perm)

\* In one that is measured they also stay in their windows.
LaidInWindows(ss) ==
    \E f, perm : Tiles(ss, Len(ss), f, perm) /\ Windowed(ss, Len(ss), f, perm)

LEMMA EmptyLaid ==
    Laid(<<>>) /\ LaidInWindows(<<>>) /\ Total(<<>>) = 0
<1>1. PICK f, perm : f = [k \in 0..0 |-> 0] /\ perm = [k \in 1..0 |-> k]
  OBVIOUS
<1>2. Marks(0, f) /\ Places(0, perm)
  BY <1>1 DEF Marks, Places
<1>3. <<>> \in Seq(SliceSet) /\ Len(<<>>) = 0
  BY EmptySeq
<1>4. Tiles(<<>>, 0, f, perm) /\ Windowed(<<>>, 0, f, perm)
  BY <1>2, <1>3 DEF Tiles, Windowed, Window
<1>5. Total(<<>>) = f[0]
  BY <1>4, TotalTiles
<1>. QED
  BY <1>1, <1>3, <1>4, <1>5 DEF Laid, LaidInWindows

\* nFixed pieces and the stairs after them, each part rearranged on its own.
DemoOf(t, a, b, c, sp) ==
    /\ Laid(t.seq) /\ (a % Window = 0 /\ (b * c) % Window = 0 => LaidInWindows(t.seq))
    /\ Total(t.seq) <= Total(t.blocks)
    /\ \A k \in 1..Len(t.seq) : k <= a => t.seq[k].out = sp

\* Such is the web demo, for any numbers of slices and stairs.
LEMMA WebDemoIs ==
    ASSUME NEW a \in Nat, NEW b \in Nat, NEW c \in Nat, NEW sz \in Nat \ {0}, NEW sp \in Nat
    PROVE  DemoOf(WebDemo(a, b, c, sz, sp), a, b, c, sp)
<1>1. PICK d \in Nat : d = b * c
  BY StairsAre
<1>2. PICK lens \in [1..(a + d) -> Nat \ {0}] : lens = Stairs(a, b, c, sz)
  BY <1>1, StairsAre
<1>3. DOMAIN lens = 1..(a + d)
  OBVIOUS
<1> DEFINE PieceOf(k) == IF k <= a THEN Piece(lens[k], 1, sp) ELSE Piece(lens[k], 2, Times(sp, k))
<1>4. PICK pieces : pieces = [k \in 1..(a + d) |-> PieceOf(k)]
  OBVIOUS
<1>5. \A k \in 1..(a + d) : PieceOf(k) \in PieceSet
  BY TimesIs DEF Piece, PieceSet
<1>6. pieces \in Seq(PieceSet) /\ Len(pieces) = a + d
  <2>1. pieces \in [1..(a + d) -> PieceSet]
    BY <1>4, <1>5
  <2>. QED
    BY <2>1, SeqFromFunction
<1>7. PICK all : all = Cut(pieces)
  OBVIOUS
<1>8. PICK f : /\ Plain(all, a + d, f) /\ Total(pieces) = f[a + d]
               /\ \A k \in 1..(a + d) : all[k].out = pieces[k].out
  BY <1>6, <1>7, CutPlain
<1>9. all \in Seq(SliceSet) /\ Len(all) = a + d
  BY <1>8 DEF Plain
<1>10. PICK t1, t2 : t1 = SubSeq(all, 1, a) /\ t2 = SubSeq(all, a + 1, Len(all))
  OBVIOUS
<1>11. \A k \in 1..(a + d) : all[k] \in SliceSet
  BY <1>9, SeqAsFunction
<1>12. t1 \in Seq(SliceSet) /\ Len(t1) = a /\ \A k \in 1..a : t1[k] = all[k]
  <2>1. \A k \in 1..a : all[k] \in SliceSet
    BY <1>11
  <2>. QED
    BY <1>10, <2>1, SubSeqProperties
<1>13. t2 \in Seq(SliceSet) /\ Len(t2) = d
  <2>1. \A k \in (a + 1)..(a + d) : all[k] \in SliceSet
    BY <1>11
  <2>. QED
    BY <1>9, <1>10, <2>1, SubSeqProperties
<1>14. PICK u, v : u = SwapEnds(t1) /\ v = FirstToEnd(t2, Window, TRUE)
  OBVIOUS
<1>15. PICK p : /\ Reorders(u, t1, a, p) /\ \A k \in 1..a : u[k].out = t1[k].out
                /\ a % Window = 0 => ByWindows(u, t1, a, p)
  BY <1>12, <1>14, SwapEndsReorders
<1>16. PICK q : Reorders(v, t2, d, q) /\ (d % Window = 0 => ByWindows(v, t2, d, q))
  <2>1. Window \in Nat \ {0} /\ TRUE \in BOOLEAN
    BY DEF Window
  <2>. QED
    BY <1>13, <1>14, <2>1, FirstToEndReorders
<1>17. PICK perm : /\ Reorders(u \o v, all, a + d, perm)
                   /\ ByWindows(u, t1, a, p) /\ ByWindows(v, t2, d, q)
                         => ByWindows(u \o v, all, a + d, perm)
  BY <1>9, <1>10, <1>15, <1>16, PartsReorder
<1>18. PICK w : w = u \o v
  OBVIOUS
<1>19. Tiles(w, a + d, f, perm) /\ (ByWindows(w, all, a + d, perm) => Windowed(w, a + d, f, perm))
  BY <1>8, <1>17, <1>18, ReorderedTiles
<1>20. Len(w) = a + d
  BY <1>19 DEF Tiles
<1>21. Laid(w) /\ (a % Window = 0 /\ d % Window = 0 => LaidInWindows(w))
  BY <1>15, <1>16, <1>17, <1>18, <1>19, <1>20 DEF Laid, LaidInWindows
<1>22. Total(w) = f[a + d] /\ f[a + d] \in Nat
  <2>1. a + d \in Nat /\ f \in [0..(a + d) -> Nat]
    BY <1>19 DEF Tiles, Marks
  <2>2. Total(w) = f[a + d]
    BY <1>19, <2>1, TotalTiles
  <2>. QED
    BY <2>1, <2>2
<1>23. PICK page : page = Page(Total(pieces))
  OBVIOUS
<1>24. Total(w) <= Total(page)
  <2>1. Total(page) >= Total(pieces)
    BY <1>8, <1>22, <1>23, PageIs
  <2>. QED
    BY <1>8, <1>22, <2>1
<1>25. \A k \in 1..Len(w) : k <= a => w[k].out = sp
  <2>1. SUFFICES ASSUME NEW k \in 1..a PROVE w[k].out = sp
    BY <1>20
  <2>2. w[k] = u[k]
    <3>1. k <= Len(u) /\ k \in 1..Len(u) + Len(v)
      BY <1>15, <1>16 DEF Reorders
    <3>. QED
      BY <1>15, <1>16, <1>18, <3>1, ConcatProperties DEF Reorders
  <2>3. k \in 1..(a + d) /\ k <= a
    OBVIOUS
  <2>4. pieces[k] = Piece(lens[k], 1, sp)
    BY <1>4, <2>3
  <2>5. pieces[k].out = sp
    BY <2>4 DEF Piece
  <2>6. w[k].out = all[k].out
    BY <1>12, <1>15, <2>2
  <2>. QED
    BY <1>8, <2>3, <2>5, <2>6
<1>26. WebDemo(a, b, c, sz, sp) = Test(page, w)
  <2>1. pieces = [k \in DOMAIN lens |-> PieceOf(k)]
    BY <1>3, <1>4
  <2>. QED
    BY <1>2, <1>7, <1>9, <1>10, <1>14, <1>18, <1>23, <2>1 DEF WebDemo
<1>27. WebDemo(a, b, c, sz, sp).seq = w /\ WebDemo(a, b, c, sz, sp).blocks = page
  BY <1>26 DEF Test
<1>. QED
  BY <1>1, <1>21, <1>24, <1>25, <1>27 DEF DemoOf

\* A train of whole windows is laid in windows, with the times of its pieces.
LEMMA TrainIs ==
    ASSUME NEW pieces \in Seq(PieceSet), Len(pieces) % Window = 0
    PROVE  \A t : t = Train(pieces) =>
           /\ Laid(t.seq) /\ LaidInWindows(t.seq)
           /\ Total(t.seq) <= Total(t.blocks)
           /\ \A k \in 1..Len(t.seq) : t.seq[k].out = pieces[k].out
<1>1. PICK n \in Nat : n = Len(pieces)
  BY LenProperties
<1>2. PICK all, u, page : all = Cut(pieces) /\ u = SwapEnds(all) /\ page = Page(Total(pieces))
  OBVIOUS
<1>3. PICK f : /\ Plain(all, n, f) /\ Total(pieces) = f[n]
               /\ \A k \in 1..n : all[k].out = pieces[k].out
  BY <1>1, <1>2, CutPlain
<1>4. all \in Seq(SliceSet) /\ Len(all) = n
  BY <1>3 DEF Plain
<1>5. PICK perm : /\ Reorders(u, all, n, perm) /\ \A k \in 1..n : u[k].out = all[k].out
                  /\ n % Window = 0 => ByWindows(u, all, n, perm)
  BY <1>2, <1>4, SwapEndsReorders
<1>6. Tiles(u, n, f, perm) /\ Windowed(u, n, f, perm)
  <2>1. ByWindows(u, all, n, perm)
    BY <1>1, <1>5
  <2>. QED
    BY <1>3, <1>5, <2>1, ReorderedTiles
<1>7. Len(u) = n /\ f[n] \in Nat
  BY <1>6 DEF Tiles, Marks
<1>8. Laid(u) /\ LaidInWindows(u)
  BY <1>6, <1>7 DEF Laid, LaidInWindows
<1>9. Total(u) = f[n]
  BY <1>6, TotalTiles
<1>10. Total(u) <= Total(page)
  <2>1. Total(page) >= Total(pieces)
    BY <1>2, <1>3, <1>7, PageIs
  <2>. QED
    BY <1>3, <1>9, <2>1
<1>11. \A k \in 1..Len(u) : u[k].out = pieces[k].out
  BY <1>3, <1>5, <1>7
<1>12. Train(pieces).seq = u /\ Train(pieces).blocks = page
  BY <1>2 DEF Train, Test
<1>. QED
  BY <1>8, <1>10, <1>11, <1>12

LEMMA SliceCountIs ==
    ASSUME NEW bytes \in Int, NEW sz \in Nat \ {0}
    PROVE  /\ SliceCount(bytes, sz) \in Int
           /\ bytes > 0 => SliceCount(bytes, sz) > 0
           /\ \A k \in 1..SliceCount(bytes, sz) :
                 (IF k * sz <= bytes THEN sz ELSE bytes % sz) \in Nat \ {0}
<1>1. PICK c \in Int : c = SliceCount(bytes, sz)
  BY DEF SliceCount
<1>2. sz * c <= bytes + sz - 1 /\ bytes + sz - 1 < sz * (c + 1)
  <2>1. PICK a \in Int : a = bytes + sz - 1
    OBVIOUS
  <2>2. sz * (a \div sz) <= a /\ a < sz * ((a \div sz) + 1)
    OBVIOUS
  <2>3. c = a \div sz
    BY <1>1, <2>1 DEF SliceCount
  <2>. QED
    BY <2>1, <2>2, <2>3
<1>3. ASSUME bytes > 0 PROVE c > 0
  <2>1. ASSUME c <= 0 PROVE sz * (c + 1) <= sz
    BY <2>1
  <2>. QED
    BY <1>2, <1>3, <2>1
<1>4. ASSUME NEW k \in 1..c, ~ (k * sz <= bytes) PROVE bytes % sz \in Nat \ {0}
  <2>1. k * sz <= sz * c
    BY <1>4
  <2>2. PICK m \in Nat : m = sz * (k - 1)
    OBVIOUS
  <2>3. k * sz = m + sz
    BY <2>2
  <2>4. bytes < m + sz /\ m + sz <= bytes + sz - 1
    BY <1>2, <1>4, <2>1, <2>3
  <2>5. PICK r \in 0..(sz - 1) : r = bytes - m /\ r # 0
    BY <2>4
  <2>6. Divides(bytes, sz, k - 1, r)
    BY <2>2, <2>5 DEF Divides
  <2>7. bytes \in Nat
    BY <2>4
  <2>8. bytes % sz = r
    BY <2>6, <2>7, DivModUnique
  <2>. QED
    BY <2>5, <2>8
<1>. QED
  BY <1>1, <1>3, <1>4

LEMMA SliceCountNat ==
    ASSUME NEW bytes \in Nat, NEW sz \in Nat \ {0}
    PROVE  SliceCount(bytes, sz) \in Nat
BY DEF SliceCount

\* The slices of bytes of them, one after another, have them all.
LEMMA SlicesSum ==
    ASSUME NEW bytes \in Nat, NEW sz \in Nat \ {0}, NEW n \in Nat, n = SliceCount(bytes, sz)
    PROVE  \E f : f[n] = bytes
                  /\ IsSums(f, [k \in 1..n |-> IF k * sz <= bytes THEN sz ELSE bytes % sz], n)
<1>1. sz * n <= bytes + sz - 1 /\ bytes <= sz * n
  <2>1. PICK a \in Nat : a = bytes + sz - 1
    OBVIOUS
  <2>2. sz * (a \div sz) <= a /\ a < sz * ((a \div sz) + 1)
    OBVIOUS
  <2>3. n = a \div sz
    BY <2>1 DEF SliceCount
  <2>4. sz * (n + 1) = sz * n + sz
    OBVIOUS
  <2>. QED
    BY <2>1, <2>2, <2>3, <2>4
<1>2. PICK f : f = [k \in 0..n |-> IF k * sz <= bytes THEN k * sz ELSE bytes]
  OBVIOUS
<1>3. f \in [0..n -> Nat] /\ f[0] = 0
  <2>1. \A k \in 0..n : k * sz \in Nat
    OBVIOUS
  <2>2. 0 * sz = 0 /\ 0 \in 0..n
    OBVIOUS
  <2>. QED
    BY <1>2, <2>1, <2>2
<1>4. f[n] = bytes
  <2>1. n * sz = sz * n /\ n \in 0..n
    OBVIOUS
  <2>. QED
    BY <1>1, <1>2, <2>1
<1>5. ASSUME NEW k \in 1..n PROVE f[k] = f[k - 1] + (IF k * sz <= bytes THEN sz ELSE bytes % sz)
  <2>1. PICK m \in Nat : m = (k - 1) * sz
    OBVIOUS
  <2>2. k * sz = m + sz /\ k * sz <= sz * n
    <3>1. k * sz = m + sz
      BY <2>1
    <3>2. sz * k <= sz * n /\ sz * k = k * sz
      OBVIOUS
    <3>. QED
      BY <3>1, <3>2
  <2>3. m < bytes
    BY <1>1, <2>2
  <2>4. f[k - 1] = m
    <3>1. k - 1 \in 0..n
      OBVIOUS
    <3>. QED
      BY <1>2, <2>1, <2>3, <3>1
  <2>5. f[k] = IF m + sz <= bytes THEN m + sz ELSE bytes
    <3>1. k \in 0..n
      OBVIOUS
    <3>. QED
      BY <1>2, <2>2, <3>1
  <2>6. ASSUME ~ (m + sz <= bytes) PROVE bytes % sz = bytes - m
    <3>1. PICK r \in 0..(sz - 1) : r = bytes - m
      BY <2>3, <2>6
    <3>2. Divides(bytes, sz, k - 1, r)
      BY <2>1, <3>1 DEF Divides
    <3>. QED
      BY <3>1, <3>2, DivModUnique
  <2>. QED
    BY <2>2, <2>4, <2>5, <2>6
<1>6. IsSums(f, [k \in 1..n |-> IF k * sz <= bytes THEN sz ELSE bytes % sz], n)
  <2> DEFINE len(k) == IF k * sz <= bytes THEN sz ELSE bytes % sz
  <2>1. \A k \in 1..n : f[k] = f[k - 1] + len(k)
    BY <1>5
  <2> HIDE DEF len
  <2>2. IsSums(f, [k \in 1..n |-> len(k)], n)
    BY <1>3, <2>1 DEF IsSums
  <2>. QED
    BY <2>2 DEF len
<1>. QED
  BY <1>4, <1>6

\* What is sent at the times out: slices side by side, of all bytes.
LEMMA InSlicesIs ==
    ASSUME NEW bytes \in Nat, NEW sz \in Nat \ {0}, NEW n \in Nat, n = SliceCount(bytes, sz),
           NEW out, \A k \in 1..n : out[k] \in Nat
    PROVE  \E f : Plain(InSlices(bytes, sz, out), n, f) /\ f[n] = bytes
<1> DEFINE len(k) == IF k * sz <= bytes THEN sz ELSE bytes % sz
           pieces == [k \in 1..n |-> Piece(len(k), 0, out[k])]
<1>1. \A k \in 1..n : len(k) \in Nat \ {0}
  BY SliceCountIs
<1>2. InSlices(bytes, sz, out) = Cut(pieces)
  BY DEF InSlices
<1>6. PICK g : g[n] = bytes /\ IsSums(g, [k \in 1..n |-> len(k)], n)
  BY SlicesSum
<1> HIDE DEF len
<1>3. pieces \in [1..n -> PieceSet]
  BY <1>1 DEF Piece, PieceSet
<1>4. pieces \in Seq(PieceSet) /\ Len(pieces) = n
  BY <1>3, SeqFromFunction
<1>7. DOMAIN pieces = 1..n /\ \A k \in 1..n : pieces[k].len = len(k)
  BY DEF Piece
<1> HIDE DEF pieces
<1>8. Total(pieces) = g[n]
  <2>1. [k \in 1..n |-> pieces[k].len] = [k \in 1..n |-> len(k)]
    BY <1>7
  <2>2. IsSums(g, [k \in 1..n |-> pieces[k].len], n)
    BY <1>6, <2>1, Zenon
  <2>3. \A k \in 1..n : pieces[k].len \in Nat
    BY <1>1, <1>7
  <2>. QED
    BY <1>7, <2>2, <2>3, TotalIs
<1>5. PICK f : Plain(Cut(pieces), n, f) /\ Total(pieces) = f[n]
  BY <1>4, CutPlain
<1>. QED
  BY <1>2, <1>5, <1>6, <1>8, Zenon

LEMMA OneBlock ==
    ASSUME NEW part, NEW len \in Nat
    PROVE  Total(<<Block(part, len)>>) = len
<1> DEFINE bs == <<Block(part, len)>>
<1>1. DOMAIN bs = 1..1 /\ bs[1].len = len
  BY DEF Block
<1> HIDE DEF bs
<1>2. PICK f : f = [k \in 0..1 |-> IF k = 0 THEN 0 ELSE len]
  OBVIOUS
<1>3. IsSums(f, [k \in 1..1 |-> bs[k].len], 1)
  BY <1>1, <1>2 DEF IsSums
<1>4. \A k \in 1..1 : bs[k].len \in Nat
  BY <1>1
<1>5. Total(bs) = f[1]
  BY <1>1, <1>3, <1>4, TotalIs
<1>6. Total(bs) = len
  BY <1>2, <1>5
<1>. QED
  BY <1>6 DEF bs

\* Any rearrangement of slices side by side that have all bytes.
LEMMA RearrangedLaid ==
    ASSUME NEW t, NEW n \in Nat, NEW f, Plain(t, n, f), NEW u, NEW perm, Reorders(u, t, n, perm)
    PROVE  Laid(u) /\ Total(u) = f[n] /\ f[n] \in Nat
<1>1. Tiles(u, n, f, perm)
  BY ReorderedTiles
<1>2. Len(u) = n /\ f \in [0..n -> Nat]
  BY <1>1 DEF Tiles, Marks
<1>3. Total(u) = f[n]
  BY <1>1, TotalTiles
<1>. QED
  BY <1>1, <1>2, <1>3 DEF Laid, LaidInWindows

LEMMA UnchangedReorders ==
    ASSUME NEW t \in Seq(SliceSet), NEW n \in Nat, n = Len(t)
    PROVE  \E perm : Reorders(t, t, n, perm)
<1>1. PICK perm : perm = [k \in 1..n |-> k]
  OBVIOUS
<1>2. Reorders(t, t, n, perm)
  BY <1>1 DEF Reorders, Places
<1>. QED
  BY <1>2

\* All slices in one window, if there are any.
LEMMA OneWindowReorders ==
    ASSUME NEW t \in Seq(SliceSet), NEW n \in Nat, n = Len(t), NEW measured \in BOOLEAN
    PROVE  \E perm : Reorders(FirstToEnd(t, n, measured), t, n, perm)
<1>1. CASE n > 0
  BY <1>1, FirstToEndReorders
<1>2. CASE n = 0
  <2>1. t = <<>>
    BY <1>2, EmptySeq
  <2>2. FirstToEnd(t, n, measured) = t
    BY <2>1 DEF FirstToEnd
  <2>. QED
    BY <2>2, UnchangedReorders, Zenon
<1>. QED
  BY <1>1, <1>2

LEMMA ResultsIs ==
    ASSUME NEW bytes \in Nat, NEW sz \in Nat
    PROVE  \A t : t = Results(bytes, sz) =>
              Laid(t.seq) /\ Total(t.seq) <= Total(t.blocks)
<1>1. PICK mss \in Nat \ {0} : mss = IF sz = 0 THEN 1400 ELSE sz
  OBVIOUS
<1>2. PICK n \in Nat : n = SliceCount(bytes, mss)
  BY SliceCountNat
<1>3. PICK out : out = [k \in 1..n |-> (k - 1) * 1000]
  OBVIOUS
<1>4. \A k \in 1..n : out[k] \in Nat
  BY <1>3
<1>5. PICK all : all = InSlices(bytes, mss, out)
  OBVIOUS
<1>6. PICK f : Plain(all, n, f) /\ f[n] = bytes
  BY <1>2, <1>4, <1>5, InSlicesIs
<1>7. all \in Seq(SliceSet) /\ Len(all) = n
  BY <1>6 DEF Plain
<1>8. PICK u : u = FirstToEnd(all, 2, FALSE)
  OBVIOUS
<1>9. PICK perm : Reorders(u, all, n, perm)
  <2>1. 2 \in Nat \ {0} /\ FALSE \in BOOLEAN
    OBVIOUS
  <2>. QED
    BY <1>7, <1>8, <2>1, FirstToEndReorders
<1>10. Laid(u) /\ Total(u) = bytes
  BY <1>6, <1>9, RearrangedLaid
<1>11. Results(bytes, sz).seq = u /\ Results(bytes, sz).blocks = <<Block("results", bytes)>>
  BY <1>1, <1>2, <1>3, <1>5, <1>8 DEF Results, Test
<1>12. Total(u) <= Total(<<Block("results", bytes)>>)
  BY <1>10, OneBlock
<1>. QED
  BY <1>10, <1>11, <1>12, Zenon

LEMMA IndexIs ==
    ASSUME NEW flip \in BOOLEAN, NEW sz \in Nat \ {0}, NEW sp \in Nat
    PROVE  \A t : t = Index(flip, sz, sp) =>
              Laid(t.seq) /\ Total(t.seq) <= Total(t.blocks)
<1>1. PICK bytes \in Nat : bytes = IndexPage
  BY ParameterAssumption
<1>2. PICK n \in Nat : n = SliceCount(bytes, sz)
  BY SliceCountNat
<1>3. PICK out : out = [k \in 1..n |-> Times(sp, k)]
  OBVIOUS
<1>4. \A k \in 1..n : out[k] \in Nat
  BY <1>3, TimesIs
<1>5. PICK all : all = InSlices(bytes, sz, out)
  OBVIOUS
<1>6. PICK f : Plain(all, n, f) /\ f[n] = bytes
  BY <1>2, <1>4, <1>5, InSlicesIs
<1>7. all \in Seq(SliceSet) /\ Len(all) = n
  BY <1>6 DEF Plain
<1>8. PICK u : u = IF flip THEN FirstToEnd(all, n, FALSE) ELSE all
  OBVIOUS
<1>9. PICK perm : Reorders(u, all, n, perm)
  BY <1>7, <1>8, OneWindowReorders, UnchangedReorders
<1>10. Laid(u) /\ Total(u) = bytes
  BY <1>6, <1>9, RearrangedLaid
<1>11. Index(flip, sz, sp).seq = u /\ Index(flip, sz, sp).blocks = <<Block("index", bytes)>>
  BY <1>1, <1>2, <1>3, <1>5, <1>7, <1>8 DEF Index, Test
<1>12. Total(u) <= Total(<<Block("index", bytes)>>)
  BY <1>10, OneBlock
<1>. QED
  BY <1>10, <1>11, <1>12, Zenon

\* The rest of an image goes after stairs that may have gone beyond it.
LEMMA ImageIs ==
    ASSUME NEW r \in Requests, r.kind = "image", NEW sz \in Nat \ {0}, NEW sp \in Nat
    PROVE  Laid(Image(r, sz, sp).seq)
<1>1. PICK a \in Nat, b \in Nat, c \in Nat, bytes \in Nat :
         a = r.fixed /\ b = r.loops /\ c = r.multi /\ bytes = r.bytes
  BY RequestAssumption
<1>2. PICK d \in Nat : d = a + b * c
  BY StairsAre
<1>3. PICK stairs \in [1..d -> Nat \ {0}] : stairs = Stairs(a, b, c, sz)
  BY <1>2, StairsAre
<1>4. PICK rest \in Int : rest = bytes - FoldLeft(+, 0, stairs)
  <2>1. \A k \in 1..d : stairs[k] \in Nat
    BY <1>3
  <2>2. PICK f : IsSums(f, stairs, d)
    BY <2>1, SumsExist
  <2>3. DOMAIN stairs = 1..d /\ f[d] \in Nat
    BY <2>2 DEF IsSums
  <2>4. FoldLeft(+, 0, stairs) = f[d]
    BY <2>1, <2>2, <2>3, PlusIs
  <2>5. bytes - f[d] \in Int
    BY <2>3
  <2>. QED
    BY <2>4, <2>5, Zenon
<1> DEFINE Part(k) == IF k * sz <= rest THEN sz ELSE rest % sz
           more == [k \in 1..SliceCount(rest, sz) |-> Part(k)]
           lens == stairs \o more
           Group(k) == IF k <= r.fixed THEN 1 ELSE IF k <= Len(stairs) THEN 2 ELSE 3
           pieces == [k \in DOMAIN lens |-> Piece(lens[k], Group(k), Times(sp, k))]
           all == Cut(pieces)
<1>5. Image(r, sz, sp) = IF r.bytes = 0 THEN Test(<<>>, <<>>)
                         ELSE Test(<<Block("header", r.header), Block("image", r.bytes)>>,
                                   FirstToEnd(all, Len(all), TRUE))
  <2>1. Stairs(r.fixed, r.loops, r.multi, sz) = stairs /\ r.bytes - FoldLeft(+, 0, stairs) = rest
    BY <1>1, <1>3, <1>4, Zenon
  <2>. QED
    BY <2>1 DEF Image
<1>6. more \in Seq(Nat \ {0})
  <2>1. PICK m \in Int : m = SliceCount(rest, sz)
    BY SliceCountIs
  <2>2. \A k \in 1..m : Part(k) \in Nat \ {0}
    BY <2>1, SliceCountIs
  <2> HIDE DEF Part
  <2>3. PICK m1 \in Nat : 1..m1 = 1..m
    <3>1. CASE m < 0
      <4>1. 1..0 = 1..m
        BY <3>1
      <4>. QED
        BY <4>1
    <3>2. CASE m >= 0
      BY <3>2
    <3>. QED
      BY <3>1, <3>2
  <2>4. more \in [1..m1 -> Nat \ {0}]
    BY <2>1, <2>2, <2>3
  <2>. QED
    BY <2>4, SeqFromFunction
<1> HIDE DEF more
<1>7. stairs \in Seq(Nat \ {0})
  BY SeqFromFunction
<1>8. lens \in Seq(Nat \ {0})
  BY <1>6, <1>7, ConcatProperties
<1> HIDE DEF lens
<1>9. PICK n \in Nat : DOMAIN lens = 1..n /\ \A k \in 1..n : lens[k] \in Nat \ {0}
  BY <1>8, SeqAsFunction
<1>10. \A k \in 1..n : Group(k) \in Nat
  OBVIOUS
<1> HIDE DEF Group
<1>11. pieces \in [1..n -> PieceSet]
  <2>1. \A k \in 1..n : Piece(lens[k], Group(k), Times(sp, k)) \in PieceSet
    BY <1>9, <1>10, TimesIs DEF Piece, PieceSet
  <2>. QED
    BY <1>9, <2>1
<1>12. pieces \in Seq(PieceSet) /\ Len(pieces) = n
  BY <1>11, SeqFromFunction
<1> HIDE DEF pieces
<1>13. PICK f : Plain(all, n, f)
  BY <1>12, CutPlain
<1>14. all \in Seq(SliceSet) /\ Len(all) = n
  BY <1>13 DEF Plain
<1> HIDE DEF all
<1>15. PICK perm : Reorders(FirstToEnd(all, n, TRUE), all, n, perm)
  BY <1>14, OneWindowReorders
<1>16. Laid(FirstToEnd(all, Len(all), TRUE))
  BY <1>13, <1>14, <1>15, RearrangedLaid
<1>17. Laid(<<>>)
  BY EmptyLaid DEF Laid, LaidInWindows
<1>18. CASE r.bytes = 0
  <2>1. Image(r, sz, sp).seq = <<>>
    BY <1>5, <1>18 DEF Test
  <2>. QED
    BY <1>17, <2>1, Zenon
<1>19. CASE r.bytes # 0
  <2>1. Image(r, sz, sp).seq = FirstToEnd(all, Len(all), TRUE)
    BY <1>5, <1>19 DEF Test
  <2>. QED
    BY <1>16, <2>1, Zenon
<1>. QED
  BY <1>18, <1>19

LEMMA SimpleIs ==
    Total(Simple) = 2700
<1>1. DOMAIN Simple = 1..5 /\ Simple[1].len = 100 /\ Simple[2].len = 200
      /\ Simple[3].len = 200 /\ Simple[4].len = 200 /\ Simple[5].len = 2000
  BY DEF Simple, Block
<1>2. PICK f : f = [k \in 0..5 |-> IF k = 0 THEN 0 ELSE IF k = 1 THEN 100
                                   ELSE IF k < 5 THEN 200 * k - 100 ELSE 2700]
  OBVIOUS
<1>3. \A k \in 1..5 : Simple[k].len \in Nat
  BY <1>1
<1>4. IsSums(f, [k \in 1..5 |-> Simple[k].len], 5)
  BY <1>1, <1>2, <1>3 DEF IsSums
<1>5. Total(Simple) = f[5]
  <2>1. 5 \in Nat /\ DOMAIN Simple = 1..5
    BY <1>1
  <2>. QED
    BY <1>3, <1>4, <2>1, TotalIs, Zenon
<1>. QED
  BY <1>2, <1>5

\* Slices of 50 bytes in the order of places.
Fifties(n, perm, out) == [k \in 1..n |-> Slice((perm[k] - 1) * 50, 50, 0, out[k])]

LEMMA FiftiesLaid ==
    ASSUME NEW n \in Nat, NEW perm, Places(n, perm), NEW out, \A k \in 1..n : out[k] \in Nat,
           NEW u, u = Fifties(n, perm, out)
    PROVE  Laid(u) /\ Total(u) = 50 * n
<1>1. PICK f : f = [k \in 0..n |-> 50 * k]
  OBVIOUS
<1>2. Marks(n, f)
  BY <1>1 DEF Marks
<1>3. ASSUME NEW k \in 1..n
      PROVE  /\ u[k] \in SliceSet
             /\ u[k].start = f[perm[k] - 1] /\ u[k].len = f[perm[k]] - f[perm[k] - 1]
  <2>1. PICK p \in 1..n : p = perm[k]
    BY DEF Places
  <2>2. u[k] = Slice((p - 1) * 50, 50, 0, out[k])
    BY <2>1 DEF Fifties
  <2>3. f[p - 1] = 50 * (p - 1) /\ f[p] = 50 * p
    BY <1>1
  <2>4. (p - 1) * 50 \in Nat /\ out[k] \in Nat
    OBVIOUS
  <2>. QED
    BY <2>1, <2>2, <2>3, <2>4 DEF Slice, SliceSet
<1>4. u \in Seq(SliceSet) /\ Len(u) = n
  <2>1. u \in [1..n -> SliceSet]
    BY <1>3 DEF Fifties
  <2>. QED
    BY <2>1, SeqFromFunction
<1>5. Tiles(u, n, f, perm)
  BY <1>2, <1>3, <1>4 DEF Tiles
<1>6. Total(u) = 50 * n
  <2>1. f[n] = 50 * n
    BY <1>1
  <2>2. Total(u) = f[n]
    BY <1>5, TotalTiles
  <2>. QED
    BY <2>1, <2>2
<1>. QED
  BY <1>4, <1>5, <1>6 DEF Laid, LaidInWindows

\* Every test choice, known or not.
LEMMA PredefinedIs ==
    ASSUME NEW choice \in Nat, NEW sz \in Nat \ {0}, NEW sp \in Nat
    PROVE  \A t : t = Predefined(choice, sz, sp) =>
              Laid(t.seq) /\ (choice = 4 => LaidInWindows(t.seq)) /\ Total(t.seq) <= Total(t.blocks)
<1>1. CASE choice = 0
  <2>1. PICK perm, out : /\ perm = [k \in 1..6 |-> (k % 6) + 1]
                         /\ out = [k \in 1..6 |-> 1000 * (k - 1)]
    OBVIOUS
  <2>2. PICK u : u = [k \in 1..6 |-> Slice((k % 6) * 50, 50, 0, 1000 * (k - 1))]
    OBVIOUS
  <2>3. Places(6, perm)
    <3>1. \A k \in 1..6 : k % 6 = IF k = 6 THEN 0 ELSE k
      OBVIOUS
    <3>2. perm = [k \in 1..6 |-> IF k = 6 THEN 1 ELSE k + 1]
      BY <2>1, <3>1
    <3>. QED
      BY <3>2 DEF Places
  <2>4. \A k \in 1..6 : out[k] \in Nat /\ out[k] = 1000 * (k - 1)
    BY <2>1
  <2>5. \A k \in 1..6 : Slice((perm[k] - 1) * 50, 50, 0, out[k])
                            = Slice((k % 6) * 50, 50, 0, 1000 * (k - 1))
    BY <2>1, <2>4
  <2>6. u = Fifties(6, perm, out)
    BY <2>2, <2>5 DEF Fifties
  <2>7. Laid(u) /\ Total(u) = 300
    <3>1. 6 \in Nat /\ \A k \in 1..6 : out[k] \in Nat
      BY <2>4
    <3>2. Laid(u) /\ Total(u) = 50 * 6
      BY <2>3, <2>6, <3>1, FiftiesLaid, Zenon
    <3>. QED
      BY <3>2
  <2>8. Predefined(choice, sz, sp).seq = u /\ Predefined(choice, sz, sp).blocks = Simple
    BY <1>1, <2>2 DEF Predefined, Test
  <2>9. Total(u) <= Total(Simple)
    BY <2>7, SimpleIs
  <2>10. Laid(u) /\ (choice = 4 => LaidInWindows(u))
    BY <1>1, <2>7 DEF Laid, LaidInWindows
  <2>. QED
    BY <2>8, <2>9, <2>10, Zenon
<1>2. CASE choice = 1
  <2>1. PICK perm, out : /\ perm = [k \in 1..10 |-> k]
                         /\ out = [k \in 1..10 |-> IF k = 1 THEN Forever ELSE 1000 * (k - 2)]
    OBVIOUS
  <2>2. PICK u : u = [k \in 1..10 |-> Slice((k - 1) * 50, 50, 0,
                                            IF k = 1 THEN Forever ELSE 1000 * (k - 2))]
    OBVIOUS
  <2>3. Places(10, perm)
    BY <2>1 DEF Places
  <2>4. \A k \in 1..10 : out[k] \in Nat
    BY <2>1 DEF Forever
  <2>6. u = Fifties(10, perm, out)
    BY <2>1, <2>2 DEF Fifties
  <2>7. Laid(u) /\ Total(u) = 500
    <3>1. 10 \in Nat /\ \A k \in 1..10 : out[k] \in Nat
      BY <2>4
    <3>2. Laid(u) /\ Total(u) = 50 * 10
      BY <2>3, <2>6, <3>1, FiftiesLaid, Zenon
    <3>. QED
      BY <3>2
  <2>8. Predefined(choice, sz, sp).seq = u /\ Predefined(choice, sz, sp).blocks = Simple
    BY <1>2, <2>2 DEF Predefined, Test
  <2>9. Total(u) <= Total(Simple)
    BY <2>7, SimpleIs
  <2>10. Laid(u) /\ (choice = 4 => LaidInWindows(u))
    BY <1>2, <2>7 DEF Laid, LaidInWindows
  <2>. QED
    BY <2>8, <2>9, <2>10, Zenon
<1>3. CASE choice \in {2, 3}
  <2>1. PICK flip \in BOOLEAN : flip <=> choice = 3
    OBVIOUS
  <2>2. Predefined(choice, sz, sp) = Index(flip, sz, sp)
    <3>1. CASE choice = 2
      <4>1. flip = FALSE
        BY <2>1, <3>1
      <4>2. choice # 0 /\ choice # 1
        BY <3>1
      <4>3. Predefined(choice, sz, sp) = Index(FALSE, sz, sp)
        BY <3>1, <4>2 DEF Predefined
      <4>. QED
        BY <4>1, <4>3, Zenon
    <3>2. CASE choice = 3
      <4>1. flip = TRUE
        BY <2>1, <3>2
      <4>2. choice # 0 /\ choice # 1 /\ choice # 2
        BY <3>2
      <4>3. Predefined(choice, sz, sp) = Index(TRUE, sz, sp)
        BY <3>2, <4>2 DEF Predefined
      <4>. QED
        BY <4>1, <4>3, Zenon
    <3>. QED
      BY <1>3, <3>1, <3>2
  <2>3. Laid(Index(flip, sz, sp).seq)
        /\ Total(Index(flip, sz, sp).seq) <= Total(Index(flip, sz, sp).blocks)
    BY IndexIs
  <2>4. Laid(Index(flip, sz, sp).seq) /\ (choice = 4 => LaidInWindows(Index(flip, sz, sp).seq))
    BY <1>3, <2>3 DEF Laid, LaidInWindows
  <2>. QED
    BY <2>2, <2>3, <2>4, Zenon
<1>4. CASE choice = 4
  <2>1. Predefined(choice, sz, sp) = WebDemo(75, 10, 3, sz, sp)
    BY <1>4 DEF Predefined
  <2>2. PICK t : t = WebDemo(75, 10, 3, sz, sp)
    OBVIOUS
  <2>3. /\ Laid(t.seq)
        /\ (75 % Window = 0 /\ (10 * 3) % Window = 0 => LaidInWindows(t.seq))
        /\ Total(t.seq) <= Total(t.blocks)
    <3>1. 75 \in Nat /\ 10 \in Nat /\ 3 \in Nat
      OBVIOUS
    <3>. QED
      <4>1. DemoOf(t, 75, 10, 3, sp)
        BY <2>2, <3>1, WebDemoIs
      <4>. QED
        BY <4>1 DEF DemoOf
  <2>4. Laid(t.seq) /\ (choice = 4 => LaidInWindows(t.seq))
    BY <2>3 DEF Laid, LaidInWindows, Window
  <2>. QED
    BY <2>1, <2>2, <2>3, <2>4, Zenon
<1>5. CASE choice \notin 0..4
  <2>1. Predefined(choice, sz, sp).seq = <<>> /\ Predefined(choice, sz, sp).blocks = Simple
    <3>1. choice # 0 /\ choice # 1 /\ choice # 2 /\ choice # 3 /\ choice # 4
      BY <1>5
    <3>2. Predefined(choice, sz, sp) = Test(Simple, <<>>)
      BY <3>1 DEF Predefined
    <3>. QED
      BY <3>2 DEF Test
  <2>2. Laid(<<>>) /\ (choice = 4 => LaidInWindows(<<>>)) /\ Total(<<>>) <= Total(Simple)
    BY EmptyLaid, SimpleIs DEF Laid, LaidInWindows
  <2>. QED
    BY <2>1, <2>2, Zenon
<1>. QED
  BY <1>1, <1>2, <1>3, <1>4, <1>5

\* What every test is like, whatever the sessions before it left.
Fits(r, bs, ss) ==
    /\ Laid(ss) /\ (Measured(r) => LaidInWindows(ss))
    /\ r.kind # "image" => Total(ss) <= Total(bs)
    /\ r.kind = "custom" => \A k \in 1..Len(ss) : k <= r.fixed => ss[k].out = r.spacing
    /\ r.kind = "train" => \A k \in 1..Len(ss) : ss[k].out = TrainPieces(r)[k].out

\* Whatever is asked for, with any size and spacing left behind, the test fits.
LEMMA TestFits ==
    ASSUME NEW r \in Requests, NEW sz \in Nat \ {0}, NEW sp \in Nat,
           r.kind = "custom" => sp = r.spacing
    PROVE  Fits(r, TestFor(r, sz, sp).blocks, TestFor(r, sz, sp).seq)
<1>1. PICK t : t = TestFor(r, sz, sp)
  OBVIOUS
<1>2. CASE r.kind \in {"web", "custom"}
  <2>1. PICK a \in Nat, b \in Nat, c \in Nat : a = r.fixed /\ b = r.loops /\ c = r.multi
    <3>1. {r.fixed, r.loops, r.multi} \subseteq Nat
      BY <1>2, RequestAssumption
    <3>. QED
      BY <3>1
  <2>2. t = WebDemo(a, b, c, sz, sp)
    BY <1>1, <1>2, <2>1 DEF TestFor
  <2>3. /\ Laid(t.seq)
        /\ (a % Window = 0 /\ (b * c) % Window = 0 => LaidInWindows(t.seq))
        /\ Total(t.seq) <= Total(t.blocks)
        /\ \A k \in 1..Len(t.seq) : k <= a => t.seq[k].out = sp
    <3>1. DemoOf(t, a, b, c, sp)
      BY <2>2, WebDemoIs
    <3>. QED
      BY <3>1 DEF DemoOf
  <2>4. Measured(r) => a % Window = 0 /\ (b * c) % Window = 0
    BY <1>2, <2>1 DEF Measured
  <2>5. Laid(t.seq) /\ (Measured(r) => LaidInWindows(t.seq))
    BY <2>3, <2>4 DEF Laid, LaidInWindows
  <2>. QED
    BY <1>1, <1>2, <2>1, <2>3, <2>5 DEF Fits
<1>3. CASE r.kind = "train" /\ r.step < 2
  <2>1. t.seq = <<>> /\ t.blocks = <<>>
    BY <1>1, <1>3 DEF TestFor, Test
  <2>2. /\ Laid(t.seq) /\ (Measured(r) => LaidInWindows(t.seq))
        /\ Total(t.seq) <= Total(t.blocks) /\ Len(t.seq) = 0
    BY <2>1, EmptyLaid, EmptySeq DEF Laid, LaidInWindows
  <2>. QED
    BY <1>1, <1>3, <2>2 DEF Fits
<1>4. CASE r.kind = "train" /\ ~ (r.step < 2)
  <2>1. r.step >= 2
    BY <1>4, RequestAssumption
  <2>2. PICK pieces \in Seq(PieceSet) : pieces = TrainPieces(r) /\ Len(pieces) % Window = 0
    BY <1>4, <2>1, TrainPiecesAre
  <2>3. t = Train(pieces)
    BY <1>1, <1>4, <2>2 DEF TestFor
  <2>4. /\ Laid(t.seq) /\ LaidInWindows(t.seq) /\ Total(t.seq) <= Total(t.blocks)
        /\ \A k \in 1..Len(t.seq) : t.seq[k].out = pieces[k].out
    BY <2>2, <2>3, TrainIs
  <2>5. Laid(t.seq) /\ (Measured(r) => LaidInWindows(t.seq))
    BY <2>4 DEF Laid, LaidInWindows
  <2>. QED
    BY <1>1, <1>4, <2>2, <2>4, <2>5 DEF Fits
<1>5. CASE r.kind = "cellular"
  <2>2. PICK pieces \in Seq(PieceSet) : pieces = CellularPieces(r) /\ Len(pieces) % Window = 0
    BY <1>5, CellularPiecesAre
  <2>3. t = Train(pieces)
    BY <1>1, <1>5, <2>2 DEF TestFor
  <2>4. Laid(t.seq) /\ LaidInWindows(t.seq) /\ Total(t.seq) <= Total(t.blocks)
    BY <2>2, <2>3, TrainIs
  <2>5. Laid(t.seq) /\ (Measured(r) => LaidInWindows(t.seq))
    BY <2>4 DEF Laid, LaidInWindows
  <2>. QED
    BY <1>1, <1>5, <2>4, <2>5 DEF Fits
<1>6. CASE r.kind = "image"
  <2>1. t = Image(r, sz, sp)
    BY <1>1, <1>6 DEF TestFor
  <2>2. Laid(t.seq)
    BY <1>6, <2>1, ImageIs
  <2>3. ~ Measured(r)
    BY <1>6 DEF Measured
  <2>4. Laid(t.seq) /\ (Measured(r) => LaidInWindows(t.seq))
    BY <2>2, <2>3 DEF Laid, LaidInWindows
  <2>. QED
    BY <1>1, <1>6, <2>4 DEF Fits
<1>7. CASE r.kind = "results"
  <2>1. PICK bytes \in Nat : bytes = r.bytes
    BY <1>7, RequestAssumption
  <2>2. t = Results(bytes, sz)
    BY <1>1, <1>7, <2>1 DEF TestFor
  <2>3. Laid(t.seq) /\ Total(t.seq) <= Total(t.blocks)
    BY <2>2, ResultsIs
  <2>4. ~ Measured(r)
    BY <1>7 DEF Measured
  <2>5. Laid(t.seq) /\ (Measured(r) => LaidInWindows(t.seq))
    BY <2>3, <2>4 DEF Laid, LaidInWindows
  <2>. QED
    BY <1>1, <1>7, <2>3, <2>5 DEF Fits
<1>8. CASE r.kind = "choice"
  <2>1. PICK choice \in Nat : choice = r.choice
    BY <1>8, RequestAssumption
  <2>2. t = Predefined(choice, sz, sp)
    BY <1>1, <1>8, <2>1 DEF TestFor
  <2>3. Laid(t.seq) /\ (choice = 4 => LaidInWindows(t.seq)) /\ Total(t.seq) <= Total(t.blocks)
    BY <2>2, PredefinedIs
  <2>4. Measured(r) => choice = 4
    BY <1>8, <2>1 DEF Measured
  <2>5. Laid(t.seq) /\ (Measured(r) => LaidInWindows(t.seq))
    BY <2>3, <2>4 DEF Laid, LaidInWindows
  <2>. QED
    BY <1>1, <1>8, <2>3, <2>5 DEF Fits
<1>9. r.kind \in {"web", "custom", "train", "cellular", "image", "results", "choice"}
  BY RequestAssumption
<1>. QED
  BY <1>2, <1>3, <1>4, <1>5, <1>6, <1>7, <1>8, <1>9

-----------------------------------------------------------------------------
(* What the client has.                                                    *)

\* The segment between two marks, and the FIN behind the last.
Segment(f, j) == [start |-> f[j - 1], len |-> f[j] - f[j - 1], fin |-> FALSE]
FinSegment(n, f) == [start |-> f[n], len |-> 1, fin |-> TRUE]

\* What has come of the first d slices sent: all up to m, and not the one after it.
Got(perm, d) == {perm[i] : i \in 1..d}
Reach(n, perm, d, m) ==
    m \in 0..n /\ (\A j \in 1..m : j \in Got(perm, d)) /\ m + 1 \notin Got(perm, d)
Apart(f, perm, d, m) == {Segment(f, j) : j \in {i \in Got(perm, d) : i > m}}

\* One slice more is one that had not come.
LEMMA GotOneMore ==
    ASSUME NEW n \in Nat, NEW perm, Places(n, perm), NEW d \in 0..(n - 1)
    PROVE  /\ d + 1 \in 1..n /\ perm[d + 1] \in 1..n
           /\ Got(perm, d + 1) = Got(perm, d) \cup {perm[d + 1]}
           /\ perm[d + 1] \notin Got(perm, d)
           /\ Got(perm, d) \subseteq 1..n
<1>1. d + 1 \in 1..n /\ perm[d + 1] \in 1..n
  BY DEF Places
<1>2. \A i \in 1..d : i \in 1..n /\ i # d + 1 /\ perm[i] \in 1..n
  BY DEF Places
<1>3. perm[d + 1] \notin Got(perm, d)
  BY <1>1, <1>2 DEF Got, Places
<1>4. Got(perm, d + 1) = Got(perm, d) \cup {perm[d + 1]}
  <2>1. \A i : i \in 1..(d + 1) <=> i \in 1..d \/ i = d + 1
    OBVIOUS
  <2>. QED
    BY <2>1, Zenon DEF Got
<1>5. Got(perm, d) \subseteq 1..n
  BY <1>2 DEF Got
<1>. QED
  BY <1>1, <1>3, <1>4, <1>5

LEMMA SegmentIs ==
    ASSUME NEW n \in Nat, NEW f, Marks(n, f), NEW j \in 1..n
    PROVE  /\ Segment(f, j).start = f[j - 1] /\ EndOf(Segment(f, j)) = f[j]
           /\ Segment(f, j).fin = FALSE /\ f[j - 1] \in Nat /\ f[j] \in Nat /\ f[j - 1] < f[j]
<1>1. f[j - 1] \in Nat /\ f[j] \in Nat /\ f[j - 1] < f[j]
  BY DEF Marks
<1>. QED
  BY <1>1 DEF Segment, EndOf

\* Marks are in the order of their numbers.
LEMMA MarksOrder ==
    ASSUME NEW n \in Nat, NEW f, Marks(n, f), NEW i \in 0..n, NEW j \in 0..n
    PROVE  /\ f[i] \in Nat /\ f[j] \in Nat
           /\ i < j <=> f[i] < f[j]
           /\ i = j <=> f[i] = f[j]
<1>1. f[i] \in Nat /\ f[j] \in Nat
  BY DEF Marks
<1>2. (i < j => f[i] < f[j]) /\ (j < i => f[j] < f[i])
  BY MarksAscend
<1>. QED
  BY <1>1, <1>2

\* The client takes the next segment: it goes on from m to m2 if that is the one
\* it waits for, and keeps it apart otherwise.
LEMMA ClientTakes ==
    ASSUME NEW n \in Nat, NEW f, Marks(n, f), NEW perm, Places(n, perm), NEW d \in 0..(n - 1),
           NEW m, Reach(n, perm, d, m), client.seq = f[m], client.apart = Apart(f, perm, d, m),
           NEW p, p = Segment(f, perm[d + 1])
    PROVE  \E m2 : /\ Reach(n, perm, d + 1, m2)
                   /\ p.start >= client.seq
                   /\ p.start = client.seq <=> perm[d + 1] = m + 1
                   /\ p.start = client.seq => /\ Contiguous(p) = f[m2]
                                              /\ {x \in client.apart : x.start >= f[m2]}
                                                    = Apart(f, perm, d + 1, m2)
                   /\ p.start # client.seq => /\ m2 = m
                                              /\ client.apart \cup {p} = Apart(f, perm, d + 1, m)
<1>1. PICK j0 \in 1..n : j0 = perm[d + 1]
  BY GotOneMore
<1>2. PICK G, G1 : G = Got(perm, d) /\ G1 = Got(perm, d + 1)
  OBVIOUS
<1>3. G1 = G \cup {j0} /\ j0 \notin G /\ G \subseteq 1..n
  BY <1>1, <1>2, GotOneMore
<1>4. m \in 0..n /\ (\A j \in 1..m : j \in G) /\ m + 1 \notin G
  BY <1>2 DEF Reach
<1>5. j0 > m
  BY <1>3, <1>4
<1>6. p.start = f[j0 - 1]
  BY <1>1 DEF Segment
<1>7. j0 - 1 \in 0..n /\ m \in 0..n
  BY <1>4
<1>8. p.start >= client.seq /\ (p.start = client.seq <=> j0 = m + 1)
  <2>1. /\ f[m] \in Nat /\ f[j0 - 1] \in Nat
        /\ m < j0 - 1 <=> f[m] < f[j0 - 1]
        /\ m = j0 - 1 <=> f[m] = f[j0 - 1]
    BY <1>7, MarksOrder
  <2>. QED
    BY <1>4, <1>5, <1>6, <2>1
<1>9. client.apart = {Segment(f, j) : j \in {i \in G : i > m}}
  BY <1>2 DEF Apart
<1>10. CASE j0 # m + 1
  <2>1. Reach(n, perm, d + 1, m)
    BY <1>2, <1>3, <1>4, <1>10 DEF Reach
  <2>2. {i \in G1 : i > m} = {i \in G : i > m} \cup {j0}
    BY <1>3, <1>5
  <2>3. Apart(f, perm, d + 1, m) = client.apart \cup {p}
    BY <1>1, <1>2, <1>9, <2>2, Zenon DEF Apart
  <2>. QED
    BY <1>1, <1>8, <1>10, <2>1, <2>3
<1>11. CASE j0 = m + 1
  <2>1. PICK I : I = {i \in (m + 1)..n : i + 1 \notin G1}
    OBVIOUS
  <2>2. I \in SUBSET Nat /\ n \in I
    <3>1. G1 \subseteq 1..n
      BY <1>3
    <3>2. n + 1 \notin G1
      BY <3>1
    <3>. QED
      BY <1>4, <1>11, <2>1, <3>2
  <2>3. PICK m2 \in I : \A i \in I : m2 <= i
    BY <2>2, LeastNat
  <2>4. m2 \in (m + 1)..n /\ m2 + 1 \notin G1
    BY <2>1, <2>3
  <2>5. ASSUME NEW i \in (m + 1)..m2 PROVE i \in G1
    <3>1. CASE i = m + 1
      BY <1>3, <1>11, <3>1
    <3>2. CASE i # m + 1
      <4>1. i - 1 \in (m + 1)..n /\ i - 1 < m2 /\ (i - 1) + 1 = i
        BY <1>4, <2>4, <3>2
      <4>2. i - 1 \notin I
        BY <2>2, <2>3, <4>1
      <4>. QED
        BY <2>1, <4>1, <4>2
    <3>. QED
      BY <3>1, <3>2
  <2>6. Reach(n, perm, d + 1, m2)
    <3>1. \A j \in 1..m2 : j \in G1
      <4>1. \A j \in 1..m2 : j \in 1..m \/ j \in (m + 1)..m2
        BY <1>4, <2>4
      <4>. QED
        BY <1>3, <1>4, <2>5, <4>1
    <3>. QED
      BY <1>2, <1>4, <2>4, <3>1 DEF Reach
  <2>7. PICK C : C = {e \in {EndOf(x) : x \in client.apart \cup {p}} :
                        \A x \in client.apart : x.start # e}
    OBVIOUS
  <2>8. Contiguous(p) = Min(C)
    BY <2>7, Zenon DEF Contiguous
  <2>9. ASSUME NEW j \in G1, j > m, j + 1 \notin G1 PROVE f[j] \in C
    <3>1. j \in 1..n /\ Segment(f, j) \in client.apart \cup {p}
      BY <1>1, <1>3, <1>9, <2>9
    <3>2. EndOf(Segment(f, j)) = f[j]
      BY <3>1, SegmentIs
    <3>3. ASSUME NEW x \in client.apart PROVE x.start # f[j]
      <4>1. PICK i \in G : i > m /\ x = Segment(f, i)
        BY <1>9
      <4>2. i \in 1..n /\ x.start = f[i - 1] /\ i - 1 \in 0..n /\ j \in 0..n
        BY <1>3, <3>1, <4>1 DEF Segment
      <4>3. i - 1 # j
        BY <1>3, <2>9, <4>1, <4>2
      <4>4. PICK h \in 0..n : h = i - 1 /\ x.start = f[h] /\ h # j
        BY <4>2, <4>3
      <4>. QED
        BY <4>2, <4>4, MarksOrder
    <3>. QED
      BY <2>7, <3>1, <3>2, <3>3
  <2>10. ASSUME NEW e \in C PROVE e \in Nat /\ f[m2] <= e
    <3>1. PICK j \in G1 : j > m /\ e = EndOf(Segment(f, j))
      BY <1>1, <1>3, <1>5, <1>9, <2>7
    <3>7. j \in 1..n /\ j \in 0..n
      BY <1>1, <1>3
    <3>2. j \in 1..n /\ e = f[j] /\ j \in 0..n
      BY <3>1, <3>7, SegmentIs
    <3>3. j + 1 \notin G1
      <4>1. ASSUME j + 1 \in G1 PROVE FALSE
        <5>1. j + 1 \in G /\ j + 1 > m /\ j + 1 \in 1..n
          BY <1>3, <1>4, <1>11, <3>1, <3>2, <4>1
        <5>2. Segment(f, j + 1) \in client.apart
          BY <1>9, <5>1
        <5>3. Segment(f, j + 1).start = f[(j + 1) - 1] /\ (j + 1) - 1 = j
          <6>1. PICK h \in 1..n : h = j + 1 /\ h - 1 = j
            BY <3>2, <5>1
          <6>2. Segment(f, h).start = f[h - 1]
            BY <6>1, SegmentIs
          <6>. QED
            BY <6>1, <6>2
        <5>. QED
          BY <2>7, <3>2, <5>2, <5>3
      <4>. QED
        BY <4>1
    <3>4. m2 <= j
      BY <1>4, <2>1, <2>3, <3>1, <3>2, <3>3
    <3>5. m2 \in 0..n
      BY <1>4, <2>4
    <3>6. /\ f[m2] \in Nat /\ f[j] \in Nat /\ (m2 < j <=> f[m2] < f[j]) /\ (m2 = j <=> f[m2] = f[j])
      BY <3>2, <3>5, MarksOrder
    <3>. QED
      BY <3>2, <3>4, <3>5, <3>6
  <2>11. f[m2] \in C
    BY <1>4, <2>4, <2>5, <2>9
  <2>12. Min(C) = f[m2]
    <3>1. C \in SUBSET Nat /\ C # {}
      BY <2>10, <2>11
    <3>2. Min(C) \in C /\ \A e \in C : Min(C) <= e
      BY <3>1, MinProperties
    <3>3. Min(C) \in Nat /\ f[m2] \in Nat /\ Min(C) <= f[m2] /\ f[m2] <= Min(C)
      BY <2>10, <2>11, <3>2
    <3>. QED
      BY <3>3
  <2>13. ASSUME NEW j \in G, j > m PROVE Segment(f, j).start >= f[m2] <=> j > m2
    <3>1. j \in 1..n /\ j - 1 \in 0..n /\ m2 \in 0..n /\ Segment(f, j).start = f[j - 1]
      BY <1>3, <1>4, <2>4 DEF Segment
    <3>2. /\ f[j - 1] \in Nat /\ f[m2] \in Nat
          /\ j - 1 < m2 <=> f[j - 1] < f[m2]
      BY <3>1, MarksOrder
    <3>. QED
      BY <3>1, <3>2
  <2>14. {i \in G1 : i > m2} = {i \in G : i > m /\ i > m2}
    <3>1. m \in Nat /\ m2 \in Nat /\ m2 >= m + 1 /\ \A i \in G1 : i \in Nat
      BY <1>1, <1>3, <1>4, <2>4
    <3>2. \A i \in G1 : i > m2 => i \in G /\ i > m
      BY <1>3, <1>11, <3>1
    <3>3. \A i \in G : i \in G1
      BY <1>3
    <3>. QED
      BY <3>2, <3>3
  <2>15. {x \in client.apart : x.start >= f[m2]} = Apart(f, perm, d + 1, m2)
    <3>1. Apart(f, perm, d + 1, m2) = {Segment(f, j) : j \in {i \in G : i > m /\ i > m2}}
      BY <1>2, <2>14, Zenon DEF Apart
    <3>2. ASSUME NEW x \in client.apart, x.start >= f[m2]
          PROVE  x \in {Segment(f, j) : j \in {i \in G : i > m /\ i > m2}}
      <4>1. PICK j \in G : j > m /\ x = Segment(f, j)
        BY <1>9
      <4>. QED
        BY <2>13, <3>2, <4>1
    <3>3. ASSUME NEW j \in G, j > m, j > m2
          PROVE  Segment(f, j) \in client.apart /\ Segment(f, j).start >= f[m2]
      BY <1>9, <2>13, <3>3
    <3>. QED
      BY <3>1, <3>2, <3>3
  <2>. QED
    BY <1>1, <1>8, <1>11, <2>6, <2>8, <2>12, <2>15
<1>. QED
  BY <1>10, <1>11

\* How far the whole windows among d slices go.
Windows(d) == Window * (d \div Window)

LEMMA WindowsAre ==
    ASSUME NEW d \in Nat
    PROVE  /\ Windows(d) \in 0..d /\ d < Windows(d) + Window
           /\ Opening(d + 1, Window) = Windows(d) + 1
           /\ Closing(d + 1, Window) = Windows(d) + Window
           /\ d > 0 /\ d % Window = 0 => Closing(d, Window) = d /\ Windows(d) = d
           /\ d % Window # 0 => Opening(d, Window) = Windows(d) + 1 /\ Windows(d) < d
           /\ d > 0 /\ Windows(d) > 0 => Closing(Windows(d), Window) = Windows(d)
<1>1. PICK q \in Nat, r \in 0..4 : q = d \div 5 /\ r = d % 5 /\ d = 5 * q + r
  OBVIOUS
<1>2. Windows(d) = 5 * q
  BY <1>1 DEF Windows, Window
<1>3. Opening(d + 1, Window) = 5 * q + 1
  BY <1>1 DEF Opening, Window
<1>4. d > 0 /\ r = 0 => Opening(d, Window) = d - 4
  BY <1>1 DEF Opening, Window
<1>5. r # 0 => Opening(d, Window) = 5 * q + 1
  BY <1>1 DEF Opening, Window
<1>6. q > 0 => Opening(5 * q, Window) = 5 * q - 4
  BY DEF Opening, Window
<1>. QED
  BY <1>1, <1>2, <1>3, <1>4, <1>5, <1>6 DEF Closing, Window

LEMMA OpeningForm ==
    ASSUME NEW k \in Nat \ {0}
    PROVE  \E a \in Nat : Opening(k, Window) = 5 * a + 1 /\ 5 * a < k /\ k <= 5 * a + 5
<1>1. PICK a \in Nat, r \in 0..4 : r = (k - 1) % 5 /\ k - 1 = 5 * a + r
  <2>1. PICK h \in Nat : h = k - 1
    OBVIOUS
  <2>2. PICK a \in Nat, r \in 0..4 : r = h % 5 /\ h = 5 * a + r
    OBVIOUS
  <2>. QED
    BY <2>1, <2>2
<1>. QED
  BY <1>1 DEF Opening, Window

\* In windows the client is always as far as they are complete.
LEMMA ReachIs ==
    ASSUME NEW n \in Nat, NEW f, NEW perm, NEW u, Places(n, perm), Windowed(u, n, f, perm),
           NEW d \in 0..n, NEW m, Reach(n, perm, d, m)
    PROVE  m = Windows(d)
<1>1. PICK w \in 0..d : w = Windows(d) /\ d < w + 5
  BY WindowsAre DEF Window
<1>2. \A j \in 1..w : j \in Got(perm, d)
  <2>1. SUFFICES ASSUME NEW j \in 1..w PROVE j \in Got(perm, d)
    OBVIOUS
  <2>2. PICK i \in 1..n : perm[i] = j
    <3>1. j \in 1..n
      BY <1>1
    <3>. QED
      BY <3>1 DEF Places
  <2>3. Opening(i, Window) = Opening(j, Window)
    BY <2>2 DEF Windowed
  <2>4. i <= w
    <3>1. PICK q \in Nat : w = 5 * q
      BY <1>1 DEF Windows, Window
    <3>2. PICK a \in Nat : Opening(i, Window) = 5 * a + 1 /\ 5 * a < i /\ i <= 5 * a + 5
      <4>1. i \in Nat \ {0}
        OBVIOUS
      <4>. QED
        BY <4>1, OpeningForm
    <3>3. PICK b \in Nat : Opening(j, Window) = 5 * b + 1 /\ 5 * b < j /\ j <= 5 * b + 5
      <4>1. j \in Nat \ {0}
        OBVIOUS
      <4>. QED
        BY <4>1, OpeningForm
    <3>4. a = b
      <4>1. 5 * a + 1 = 5 * b + 1
        BY <2>3, <3>2, <3>3, Zenon
      <4>. QED
        BY <4>1
    <3>5. b < q
      BY <3>1, <3>3
    <3>. QED
      BY <3>1, <3>2, <3>4, <3>5
  <2>. QED
    BY <1>1, <2>2, <2>4 DEF Got
<1>3. w + 1 \notin Got(perm, d)
  <2>1. SUFFICES ASSUME NEW i \in 1..d, perm[i] = w + 1 PROVE FALSE
    BY DEF Got
  <2>2. i \in 1..n
    OBVIOUS
  <2>3. Opening(w + 1, Window) = w + 1
    <3>1. PICK q \in Nat : w = 5 * q
      BY <1>1 DEF Windows, Window
    <3>. QED
      BY <3>1 DEF Opening, Window
  <2>4. Opening(i, Window) = w + 1
    BY <2>1, <2>2, <2>3 DEF Windowed
  <2>5. PICK c \in 1..n : c = Closing(i, Window) /\ perm[c] = Opening(i, Window) /\ c = w + 5
    <3>1. Closing(i, Window) <= n /\ perm[Closing(i, Window)] = Opening(i, Window)
      BY <2>2 DEF Windowed
    <3>2. Closing(i, Window) = w + 5
      BY <1>1, <2>4 DEF Closing, Window
    <3>. QED
      BY <1>1, <3>1, <3>2
  <2>6. c = i
    BY <2>1, <2>2, <2>4, <2>5 DEF Places
  <2>. QED
    BY <1>1, <2>5, <2>6
<1>4. m \in 0..n /\ (\A j \in 1..m : j \in Got(perm, d)) /\ m + 1 \notin Got(perm, d)
  BY DEF Reach
<1>5. ~ (m < w)
  <2>1. m < w => m + 1 \in 1..w
    BY <1>4
  <2>. QED
    BY <1>2, <1>4, <2>1
<1>6. ~ (w < m)
  <2>1. w < m => w + 1 \in 1..m
    BY <1>1, <1>4
  <2>. QED
    BY <1>3, <1>4, <2>1
<1>. QED
  BY <1>1, <1>4, <1>5, <1>6

\* What closes a window finds the rest of it with the client.
LEMMA ClosingTakes ==
    ASSUME NEW n \in Nat, NEW f, NEW perm, NEW u, Places(n, perm), Windowed(u, n, f, perm),
           NEW d \in 0..(n - 1), NEW m, Reach(n, perm, d, m), perm[d + 1] = m + 1
    PROVE  Apart(f, perm, d, m) # {}
<1>1. PICK w \in 0..d : w = Windows(d) /\ m = w
  BY ReachIs, WindowsAre
<1>2. Opening(d + 1, Window) = w + 1 /\ Closing(d + 1, Window) = w + 5 /\ d + 1 \in 1..n
  BY <1>1, WindowsAre DEF Window
<1>3. PICK c \in 1..n : c = w + 5 /\ perm[c] = w + 1
  <2>1. Closing(d + 1, Window) <= n /\ perm[Closing(d + 1, Window)] = Opening(d + 1, Window)
    BY <1>2 DEF Windowed
  <2>. QED
    BY <1>1, <1>2, <2>1
<1>4. d = w + 4
  <2>1. d + 1 \in 1..n /\ perm[c] = perm[d + 1]
    BY <1>1, <1>2, <1>3
  <2>2. \A i, j \in 1..n : perm[i] = perm[j] => i = j
    BY DEF Places
  <2>3. c = d + 1
    BY <2>1, <2>2, Zenon
  <2>. QED
    BY <1>1, <1>3, <2>3
<1>5. d \in 1..n /\ d \in 1..d
  BY <1>1, <1>4
<1>6. Opening(d, Window) = w + 1
  <2>1. PICK q \in Nat : w = 5 * q
    BY <1>1 DEF Windows, Window
  <2>. QED
    BY <1>4, <2>1 DEF Opening, Window
<1>7. PICK j \in 1..n : j = perm[d] /\ Opening(j, Window) = w + 1
  BY <1>5, <1>6 DEF Places, Windowed
<1>8. j > m
  <2>1. j \in Nat \ {0} /\ Window \in Nat \ {0}
    BY DEF Window
  <2>2. Opening(j, Window) <= j
    BY <2>1, OpeningIs
  <2>. QED
    BY <1>1, <1>7, <2>2
<1>9. j \in Got(perm, d)
  BY <1>5, <1>7 DEF Got
<1>. QED
  BY <1>8, <1>9 DEF Apart

-----------------------------------------------------------------------------
(* The inductive invariant.                                                *)

Packet == [start : Nat, len : Nat, fin : BOOLEAN]

\* The types of the variables; a size of 0 would be divided by.
TypeInv ==
    /\ size \in Nat \ {0} /\ spacing \in Nat
    /\ request \in Requests \cup {NoRequest}
    /\ state \in {"none", "active", "waiting", "waiting_fin_ack", "purged"}
    /\ next \in Nat
    /\ wire \in Seq(Packet)
    /\ client \in [seq : Nat, apart : SUBSET Packet, delayed : BOOLEAN]
    /\ acks \in Seq(Nat) /\ received \in Seq(Nat)

\* Nothing is left of a session that is over.
IdleInv ==
    state = "none" => /\ request = NoRequest /\ seq = <<>> /\ next = 0
                      /\ wire = <<>> /\ client = NewClient /\ acks = <<>> /\ received = <<>>

\* How many slices the client has taken from the wire.
Taken == next - Len(wire)

\* The rest of what was sent is on the wire, and the client is as far as the
\* mark m, with what lies behind it apart.
Flowing(n, f, perm, m) ==
    /\ Taken \in Nat
    /\ \A i \in 1..Len(wire) : wire[i] = Segment(f, perm[Taken + i])
    /\ Reach(n, perm, Taken, m)
    /\ client.seq = f[m] /\ client.apart = Apart(f, perm, Taken, m)

\* Only the FIN is on the wire, or it has come.
Finishing(n, f) ==
    /\ client.apart = {}
    /\ \/ wire = <<FinSegment(n, f)>> /\ client.seq = f[n]
       \/ wire = <<>> /\ client.seq = f[n] + 1

\* The answers so far, in the order they were given.
Answer(k) == IF k <= Len(received) THEN received[k] ELSE acks[k - Len(received)]

\* Each slice taken brought an answer: how far the whole windows among them go.
Answered(n, f) ==
    /\ client.delayed = FALSE
    /\ Len(received) + Len(acks) + Len(wire) = IF state = "waiting_fin_ack" THEN next + 1 ELSE next
    /\ \A k \in 1..(Len(received) + Len(acks)) :
          Answer(k) = IF k <= n THEN f[Windows(k)] ELSE f[n] + 1

\* What holds of a session whose slices have these marks and places.
Session(n, f, perm, m) ==
    /\ Tiles(seq, n, f, perm)
    /\ state # "waiting_fin_ack" => Flowing(n, f, perm, m)
    /\ state = "waiting_fin_ack" => Finishing(n, f)
    /\ Measured(request) => Windowed(seq, n, f, perm) /\ Answered(n, f)

\* How far the sequence is sent; the spacing is the time of the slice sent last.
Position ==
    /\ next <= Len(seq)
    /\ state \in {"waiting", "waiting_fin_ack"} => next = Len(seq)
    /\ state = "active" /\ next > 0 => spacing = seq[next].out

\* A session that is on sends what was asked for.
SessionInv ==
    state # "none" => /\ request \in Requests /\ Fits(request, blocks, seq) /\ Position
                      /\ \E f, perm, m : Session(Len(seq), f, perm, m)

IInv == TypeInv /\ IdleInv /\ SessionInv

\* The invariant holds at first, and every step keeps it: one lemma for each.
LEMMA InitInv ==
    Init => IInv
<1>1. DefaultSize \in Nat \ {0} /\ DefaultSpacing \in Nat
  BY DEF DefaultSize, DefaultSpacing
<1>2. NewClient \in [seq : Nat, apart : SUBSET Packet, delayed : BOOLEAN]
  BY DEF NewClient
<1>. QED
  BY <1>1, <1>2, EmptySeq DEF Init, IInv, TypeInv, IdleInv, SessionInv

\* What a test is for a session that begins.
LEMMA LaidFor ==
    ASSUME NEW r, NEW bs, NEW ss, Fits(r, bs, ss)
    PROVE  \E f, perm : Tiles(ss, Len(ss), f, perm)
                        /\ (Measured(r) => Windowed(ss, Len(ss), f, perm))
BY DEF Fits, Laid, LaidInWindows

LEMMA CreateInv ==
    ASSUME IInv, NEW r \in Requests, CreateTestSequence(r)
    PROVE  IInv'
<1> DEFINE sz == IF r.kind = "custom" THEN r.size ELSE size
           sp == IF r.kind = "custom" THEN r.spacing ELSE spacing
<1>1. sz \in Nat \ {0} /\ sp \in Nat /\ (r.kind = "custom" => sp = r.spacing)
  <2>1. r.kind = "custom" => r.size \in Nat /\ r.spacing \in Nat /\ r.size > 0
    <3>1. r.kind = "custom" => {r.fixed, r.loops, r.multi, r.size, r.spacing} \subseteq Nat
      BY RequestAssumption
    <3>. QED
      BY <3>1, SliceAssumption
  <2>. QED
    BY <2>1 DEF IInv, TypeInv
<1>2. blocks' = TestFor(r, sz, sp).blocks /\ seq' = TestFor(r, sz, sp).seq /\ size' = sz
  BY DEF CreateTestSequence
<1>3. spacing' \in Nat
  BY <1>1 DEF CreateTestSequence, DefaultSpacing
<1>4. /\ request' = r /\ state' = "active" /\ next' = 0 /\ wire' = <<>> /\ client' = NewClient
      /\ acks' = <<>> /\ received' = <<>>
  BY DEF CreateTestSequence, IInv, IdleInv
<1> HIDE DEF sz, sp
<1>5. TypeInv'
  <2>1. NewClient \in [seq : Nat, apart : SUBSET Packet, delayed : BOOLEAN]
    BY DEF NewClient
  <2>. QED
    BY <1>1, <1>2, <1>3, <1>4, <2>1, EmptySeq DEF TypeInv
<1>6. Fits(r, blocks', seq')
  BY <1>1, <1>2, TestFits
<1>7. PICK ss, n : ss = seq' /\ n = Len(ss)
  OBVIOUS
<1>8. PICK f, perm : Tiles(ss, n, f, perm) /\ (Measured(r) => Windowed(ss, n, f, perm))
  BY <1>6, <1>7, LaidFor
<1>9. n \in Nat /\ f[0] = 0
  BY <1>7, <1>8, LenProperties DEF Tiles, Marks
<1>10. Position'
  BY <1>4, <1>7, <1>9 DEF Position
<1>11. Taken' = 0 /\ Len(wire') = 0
  <2>1. Len(<<>>) = 0
    OBVIOUS
  <2>2. Len(wire') = 0
    BY <1>4, <2>1, Zenon
  <2>3. Taken' = next' - Len(wire')
    BY DEF Taken
  <2>. QED
    BY <1>4, <2>2, <2>3
<1>12. Flowing(n, f, perm, 0)'
  <2>1. Reach(n, perm, 0, 0) /\ Apart(f, perm, 0, 0) = {}
    BY <1>9 DEF Reach, Got, Apart
  <2>. QED
    BY <1>4, <1>9, <1>11, <2>1 DEF Flowing, NewClient
<1>13. Answered(n, f)'
  BY <1>4, <1>11, EmptySeq DEF Answered, NewClient
<1>14. Session(n, f, perm, 0)'
  BY <1>4, <1>7, <1>8, <1>12, <1>13 DEF Session
<1>15. SessionInv'
  BY <1>4, <1>6, <1>7, <1>10, <1>14 DEF SessionInv
<1>16. IdleInv'
  BY <1>4 DEF IdleInv
<1>. QED
  BY <1>5, <1>15, <1>16 DEF IInv

\* Of a session that is on, by name: its slices, marks and places, and what the
\* types say of the lengths.
LEMMA OnSession ==
    ASSUME IInv, state # "none"
    PROVE  \E n, f, perm, m :
              /\ n \in Nat /\ n = Len(seq)
              /\ Session(n, f, perm, m) /\ Marks(n, f) /\ Places(n, perm)
              /\ seq \in Seq(SliceSet) /\ next \in 0..n
              /\ Len(wire) \in Nat /\ Len(acks) \in Nat /\ Len(received) \in Nat
<1>1. PICK f, perm, m : Session(Len(seq), f, perm, m)
  BY DEF IInv, SessionInv
<1>2. PICK n : n = Len(seq)
  OBVIOUS
<1>3. Tiles(seq, n, f, perm)
  BY <1>1, <1>2 DEF Session
<1>4. n \in Nat
  BY <1>2, <1>3, LenProperties DEF Tiles
<1>5. next \in 0..n
  BY <1>2, <1>4 DEF IInv, TypeInv, SessionInv, Position
<1>6. Len(wire) \in Nat /\ Len(acks) \in Nat /\ Len(received) \in Nat
  BY LenProperties DEF IInv, TypeInv
<1>. QED
  BY <1>1, <1>2, <1>3, <1>4, <1>5, <1>6 DEF Tiles

\* A slice joins the end of the wire; nothing else that counts changes.
LEMMA SendSliceInv ==
    ASSUME IInv, SendSlice
    PROVE  IInv'
<1>1. state = "active" /\ state' \in {"active", "waiting"}
  BY DEF SendSlice
<1>2. PICK n, f, perm, m :
         /\ n \in Nat /\ n = Len(seq) /\ Session(n, f, perm, m) /\ Marks(n, f) /\ Places(n, perm)
         /\ seq \in Seq(SliceSet) /\ next \in 0..n
         /\ Len(wire) \in Nat /\ Len(acks) \in Nat /\ Len(received) \in Nat
  BY <1>1, OnSession
<1>3. PICK k \in 1..n : k = next + 1
  BY <1>2 DEF SendSlice
<1>4. PICK x \in SliceSet : x = seq[k]
  BY <1>2, ElementOfSeq
<1>5. PICK p : p = [start |-> x.start, len |-> x.len, fin |-> FALSE]
  OBVIOUS
<1>6. p = Segment(f, perm[k]) /\ p \in Packet
  <2>1. x.start = f[perm[k] - 1] /\ x.len = f[perm[k]] - f[perm[k] - 1]
    BY <1>2, <1>4 DEF Session, Tiles
  <2>. QED
    BY <1>4, <1>5, <2>1 DEF Segment, Packet, SliceSet
<1>7. /\ next' = k /\ spacing' = x.out /\ wire' = Append(wire, p)
      /\ state' = (IF k < n THEN "active" ELSE "waiting")
      /\ UNCHANGED <<size, request, blocks, seq, client, acks, received>>
  BY <1>2, <1>3, <1>4, <1>5 DEF SendSlice
<1>8. PICK l \in Nat : l = Len(wire)
  BY <1>2
<1>9. /\ wire' \in Seq(Packet) /\ Len(wire') = l + 1
      /\ \A i \in 1..l : wire'[i] = wire[i]
      /\ wire'[l + 1] = p
  BY <1>6, <1>7, <1>8, AppendProperties DEF IInv, TypeInv
<1>10. TypeInv'
  BY <1>1, <1>3, <1>4, <1>7, <1>9 DEF IInv, TypeInv, SliceSet
<1>11. IdleInv'
  BY <1>1 DEF IdleInv
<1>12. Position'
  BY <1>1, <1>2, <1>3, <1>4, <1>7 DEF Position
<1>13. PICK d \in Nat : d = Taken /\ d + l = next
  <2>1. PICK d \in Nat : d = Taken
    BY <1>1, <1>2 DEF Session, Flowing
  <2>2. d = next - l
    BY <1>8, <2>1 DEF Taken
  <2>. QED
    BY <1>2, <2>1, <2>2
<1>14. Taken' = d
  BY <1>3, <1>7, <1>8, <1>9, <1>13 DEF Taken
<1>15. Flowing(n, f, perm, m)'
  <2>1. \A i \in 1..l : wire[i] = Segment(f, perm[d + i])
    BY <1>1, <1>2, <1>8, <1>13 DEF Session, Flowing
  <2>2. d + (l + 1) = k
    BY <1>3, <1>13
  <2>3. \A i \in 1..(l + 1) : wire'[i] = Segment(f, perm[d + i])
    <3>1. wire'[l + 1] = Segment(f, perm[d + (l + 1)])
      BY <1>6, <1>9, <2>2, Zenon
    <3>2. \A i \in 1..(l + 1) : i \in 1..l \/ i = l + 1
      OBVIOUS
    <3>. QED
      BY <1>9, <2>1, <3>1, <3>2, Zenon
  <2>4. Reach(n, perm, d, m) /\ client.seq = f[m] /\ client.apart = Apart(f, perm, d, m)
    BY <1>1, <1>2, <1>13 DEF Session, Flowing
  <2>. QED
    BY <1>7, <1>9, <1>14, <2>3, <2>4 DEF Flowing
<1>16. Measured(request) => Answered(n, f)'
  <2>1. Measured(request) => Answered(n, f)
    BY <1>2 DEF Session
  <2>2. ASSUME Answered(n, f) PROVE Answered(n, f)'
    <3>1. Len(received') + Len(acks') + Len(wire') = next'
      <4>1. PICK a \in Nat, b \in Nat : a = Len(acks) /\ b = Len(received)
        BY <1>2
      <4>2. b + a + l = next
        BY <1>1, <1>8, <2>2, <4>1 DEF Answered
      <4>3. b + a + (l + 1) = k
        BY <1>2, <1>3, <4>2
      <4>. QED
        BY <1>7, <1>9, <4>1, <4>3
    <3>2. \A j : Answer(j)' = Answer(j)
      BY <1>7 DEF Answer
    <3>. QED
      BY <1>1, <1>7, <2>2, <3>1, <3>2 DEF Answered
  <2>. QED
    BY <2>1, <2>2
<1>17. Session(n, f, perm, m)'
  BY <1>1, <1>2, <1>7, <1>15, <1>16 DEF Session
<1>18. SessionInv'
  BY <1>1, <1>2, <1>7, <1>12, <1>17 DEF IInv, SessionInv
<1>. QED
  BY <1>10, <1>11, <1>18 DEF IInv

\* When nothing is on the wire any more all slices were taken, so the client has all marks.
LEMMA SendFINInv ==
    ASSUME IInv, SendFIN
    PROVE  IInv'
<1>1. state = "waiting" /\ state' = "waiting_fin_ack" /\ wire = <<>>
  BY DEF SendFIN, Arrived
<1>2. PICK n, f, perm, m :
         /\ n \in Nat /\ n = Len(seq) /\ Session(n, f, perm, m) /\ Marks(n, f) /\ Places(n, perm)
         /\ seq \in Seq(SliceSet) /\ next \in 0..n
         /\ Len(wire) \in Nat /\ Len(acks) \in Nat /\ Len(received) \in Nat
  BY <1>1, OnSession
<1>3. next = n /\ Len(wire) = 0 /\ Taken = n
  <2>1. Len(<<>>) = 0
    OBVIOUS
  <2>. QED
    BY <1>1, <1>2, <2>1 DEF IInv, SessionInv, Position, Taken
<1>4. Reach(n, perm, n, m) /\ client.seq = f[m] /\ client.apart = Apart(f, perm, n, m)
  BY <1>1, <1>2, <1>3 DEF Session, Flowing
<1>5. m = n
  <2>1. n \in Nat /\ Places(n, perm)
    BY <1>2
  <2>2. m \in 0..n /\ m + 1 \notin Got(perm, n)
    BY <1>4 DEF Reach
  <2>3. \A j \in 1..n : j \in Got(perm, n)
    BY <2>1 DEF Places, Got
  <2>. QED
    BY <2>1, <2>2, <2>3
<1>6. client.apart = {}
  <2>1. n \in Nat /\ Places(n, perm)
    BY <1>2
  <2>2. \A j \in Got(perm, n) : j \in 1..n
    BY <2>1 DEF Places, Got
  <2>3. \A j \in Got(perm, n) : ~ (j > n)
    BY <2>1, <2>2
  <2>. QED
    BY <1>4, <1>5, <2>3 DEF Apart
<1>7. Total(seq) = f[n] /\ f[n] \in Nat
  BY <1>2, TotalTiles DEF Session, Marks
<1>8. wire' = <<FinSegment(n, f)>>
  <2>1. wire' = Append(<<>>, FinSegment(n, f))
    BY <1>1, <1>7 DEF SendFIN, FinSegment
  <2>. QED
    BY <2>1
<1>9. UNCHANGED <<size, spacing, request, blocks, seq, next, client, acks, received>>
  BY DEF SendFIN
<1>10. wire' \in Seq(Packet) /\ Len(wire') = 1
  <2>1. FinSegment(n, f) \in Packet
    BY <1>7 DEF FinSegment, Packet
  <2>. QED
    BY <1>8, <2>1
<1>11. TypeInv'
  BY <1>1, <1>9, <1>10 DEF IInv, TypeInv
<1>12. IdleInv'
  BY <1>1 DEF IdleInv
<1>13. Position'
  BY <1>1, <1>2, <1>3, <1>9 DEF Position
<1>14. Finishing(n, f)'
  BY <1>4, <1>5, <1>6, <1>8, <1>9 DEF Finishing
<1>15. Measured(request) => Answered(n, f)'
  <2>1. Measured(request) => Answered(n, f)
    BY <1>2 DEF Session
  <2>2. ASSUME Answered(n, f) PROVE Answered(n, f)'
    <3>1. Len(received') + Len(acks') + Len(wire') = next' + 1
      BY <1>1, <1>2, <1>3, <1>9, <1>10, <2>2 DEF Answered
    <3>2. \A j : Answer(j)' = Answer(j)
      BY <1>9 DEF Answer
    <3>. QED
      BY <1>1, <1>9, <2>2, <3>1, <3>2 DEF Answered
  <2>. QED
    BY <2>1, <2>2
<1>16. Session(n, f, perm, m)'
  BY <1>1, <1>2, <1>9, <1>14, <1>15 DEF Session
<1>17. SessionInv'
  BY <1>1, <1>2, <1>9, <1>13, <1>16 DEF IInv, SessionInv
<1>. QED
  BY <1>11, <1>12, <1>17 DEF IInv

LEMMA PurgeInv ==
    ASSUME IInv, Purge
    PROVE  IInv'
<1>1. /\ state = "active" /\ state' = "purged"
      /\ UNCHANGED <<size, spacing, request, blocks, seq, next, wire, client, acks, received>>
  BY DEF Purge
<1>2. PICK n, f, perm, m :
         /\ n \in Nat /\ n = Len(seq) /\ Session(n, f, perm, m) /\ Marks(n, f) /\ Places(n, perm)
         /\ seq \in Seq(SliceSet) /\ next \in 0..n
         /\ Len(wire) \in Nat /\ Len(acks) \in Nat /\ Len(received) \in Nat
  BY <1>1, OnSession
<1>3. TypeInv' /\ IdleInv'
  BY <1>1 DEF IInv, TypeInv, IdleInv
<1>4. Position'
  BY <1>1, <1>2 DEF Position
<1>5. Session(n, f, perm, m)'
  BY <1>1, <1>2 DEF Session, Flowing, Taken, Answered, Answer
<1>6. SessionInv'
  BY <1>1, <1>2, <1>4, <1>5 DEF IInv, SessionInv
<1>. QED
  BY <1>3, <1>6 DEF IInv

\* An answer moves from the one queue to the other; the order of answers stays.
LEMMA ReceiveInv ==
    ASSUME IInv, Receive
    PROVE  IInv'
<1>1. /\ acks # <<>> /\ received' = Append(received, Head(acks)) /\ acks' = Tail(acks)
      /\ UNCHANGED <<size, spacing, request, state, blocks, seq, next, wire, client>>
  BY DEF Receive
<1>2. state # "none"
  BY <1>1 DEF IInv, IdleInv
<1>3. PICK n, f, perm, m :
         /\ n \in Nat /\ n = Len(seq) /\ Session(n, f, perm, m) /\ Marks(n, f) /\ Places(n, perm)
         /\ seq \in Seq(SliceSet) /\ next \in 0..n
         /\ Len(wire) \in Nat /\ Len(acks) \in Nat /\ Len(received) \in Nat
  BY <1>2, OnSession
<1>4. acks \in Seq(Nat) /\ received \in Seq(Nat)
  BY DEF IInv, TypeInv
<1>5. PICK a \in Nat \ {0}, b \in Nat : a = Len(acks) /\ b = Len(received)
  BY <1>1, <1>3, <1>4, EmptySeq
<1>6. /\ Head(acks) \in Nat /\ Head(acks) = acks[1]
      /\ acks' \in Seq(Nat) /\ Len(acks') = a - 1
      /\ \A i \in 1..(a - 1) : acks'[i] = acks[i + 1]
  BY <1>1, <1>4, <1>5, HeadTailProperties
<1>7. /\ received' \in Seq(Nat) /\ Len(received') = b + 1
      /\ \A i \in 1..b : received'[i] = received[i]
      /\ received'[b + 1] = acks[1]
  BY <1>1, <1>4, <1>5, <1>6, AppendProperties
<1>8. TypeInv' /\ IdleInv'
  BY <1>1, <1>2, <1>6, <1>7 DEF IInv, TypeInv, IdleInv
<1>9. \A k \in 1..(b + a) : Answer(k)' = Answer(k)
  <2>1. SUFFICES ASSUME NEW k \in 1..(b + a) PROVE Answer(k)' = Answer(k)
    OBVIOUS
  <2>2. CASE k <= b
    BY <1>5, <1>7, <2>2 DEF Answer
  <2>3. CASE k = b + 1
    BY <1>5, <1>7, <2>3 DEF Answer
  <2>4. CASE k > b + 1
    <3>1. PICK i \in 1..(a - 1) : i = k - (b + 1) /\ k - b = i + 1
      BY <2>4
    <3>2. Answer(k)' = acks'[i]
      BY <1>7, <2>4, <3>1 DEF Answer
    <3>3. Answer(k) = acks[i + 1]
      BY <1>5, <2>4, <3>1 DEF Answer
    <3>. QED
      BY <1>6, <3>2, <3>3
  <2>. QED
    BY <2>2, <2>3, <2>4
<1>10. Measured(request) => Answered(n, f)'
  <2>1. Measured(request) => Answered(n, f)
    BY <1>3 DEF Session
  <2>2. ASSUME Answered(n, f) PROVE Answered(n, f)'
    <3>1. (b + 1) + (a - 1) = b + a
      OBVIOUS
    <3>2. Len(received') + Len(acks') = b + a
      BY <1>6, <1>7, <3>1, Zenon
    <3>. QED
      BY <1>1, <1>5, <1>9, <2>2, <3>2 DEF Answered
  <2>. QED
    BY <2>1, <2>2
<1>11. Session(n, f, perm, m)'
  BY <1>1, <1>3, <1>10 DEF Session, Flowing, Taken, Finishing
<1>12. Position'
  BY <1>1, <1>2, <1>3 DEF IInv, SessionInv, Position
<1>13. SessionInv'
  BY <1>1, <1>2, <1>3, <1>11, <1>12 DEF IInv, SessionInv
<1>. QED
  BY <1>8, <1>13 DEF IInv

LEMMA OverInv ==
    ASSUME IInv, Over
    PROVE  IInv'
<1>1. /\ state' = "none" /\ request' = NoRequest /\ seq' = <<>> /\ next' = 0 /\ wire' = <<>>
      /\ client' = NewClient /\ acks' = <<>> /\ received' = <<>>
      /\ UNCHANGED <<size, spacing>>
  BY DEF Over, Arrived
<1>2. NewClient \in [seq : Nat, apart : SUBSET Packet, delayed : BOOLEAN]
  BY DEF NewClient
<1>3. TypeInv'
  BY <1>1, <1>2, EmptySeq DEF IInv, TypeInv
<1>. QED
  BY <1>1, <1>3 DEF IInv, IdleInv, SessionInv

\* Only where nothing is measured an answer is ever delayed.
LEMMA DelayedAckInv ==
    ASSUME IInv, DelayedAck
    PROVE  IInv'
<1>1. /\ client.delayed /\ client' = [client EXCEPT !.delayed = FALSE]
      /\ acks' = Append(acks, client.seq)
      /\ UNCHANGED <<size, spacing, request, state, blocks, seq, next, wire, received>>
  BY DEF DelayedAck
<1>2. state # "none"
  BY <1>1 DEF IInv, IdleInv, NewClient
<1>3. PICK n, f, perm, m :
         /\ n \in Nat /\ n = Len(seq) /\ Session(n, f, perm, m) /\ Marks(n, f) /\ Places(n, perm)
         /\ seq \in Seq(SliceSet) /\ next \in 0..n
         /\ Len(wire) \in Nat /\ Len(acks) \in Nat /\ Len(received) \in Nat
  BY <1>2, OnSession
<1>4. client \in [seq : Nat, apart : SUBSET Packet, delayed : BOOLEAN]
  BY DEF IInv, TypeInv
<1>5. /\ client' \in [seq : Nat, apart : SUBSET Packet, delayed : BOOLEAN]
      /\ client'.seq = client.seq /\ client'.apart = client.apart
  BY <1>1, <1>4
<1>6. acks' \in Seq(Nat)
  BY <1>1, <1>4, AppendProperties DEF IInv, TypeInv
<1>7. TypeInv' /\ IdleInv'
  BY <1>1, <1>2, <1>5, <1>6 DEF IInv, TypeInv, IdleInv
<1>8. ~ Measured(request)
  BY <1>1, <1>3 DEF Session, Answered
<1>9. Session(n, f, perm, m)'
  BY <1>1, <1>3, <1>5, <1>8 DEF Session, Flowing, Taken, Finishing
<1>10. Position'
  BY <1>1, <1>2, <1>3 DEF IInv, SessionInv, Position
<1>11. SessionInv'
  BY <1>1, <1>2, <1>3, <1>9, <1>10 DEF IInv, SessionInv
<1>. QED
  BY <1>7, <1>11 DEF IInv

\* The client takes a slice from the wire.
LEMMA TakeSliceInv ==
    ASSUME IInv, Deliver, state # "waiting_fin_ack"
    PROVE  IInv'
<1>1. wire # <<>> /\ wire' = Tail(wire)
      /\ UNCHANGED <<size, spacing, request, state, blocks, seq, next, received>>
  BY DEF Deliver
<1>2. state # "none"
  BY <1>1 DEF IInv, IdleInv
<1>3. PICK n, f, perm, m :
         /\ n \in Nat /\ n = Len(seq) /\ Session(n, f, perm, m) /\ Marks(n, f) /\ Places(n, perm)
         /\ seq \in Seq(SliceSet) /\ next \in 0..n
         /\ Len(wire) \in Nat /\ Len(acks) \in Nat /\ Len(received) \in Nat
  BY <1>2, OnSession
<1>4. /\ wire \in Seq(Packet) /\ acks \in Seq(Nat) /\ received \in Seq(Nat)
      /\ client \in [seq : Nat, apart : SUBSET Packet, delayed : BOOLEAN]
  BY DEF IInv, TypeInv
<1>5. PICK l \in Nat \ {0}, a \in Nat, b \in Nat :
         l = Len(wire) /\ a = Len(acks) /\ b = Len(received)
  BY <1>1, <1>3, <1>4, EmptySeq
<1>6. PICK p \in Packet : p = Head(wire) /\ p = wire[1]
  BY <1>1, <1>4, HeadTailProperties
<1>7. wire' \in Seq(Packet) /\ Len(wire') = l - 1 /\ \A i \in 1..(l - 1) : wire'[i] = wire[i + 1]
  BY <1>1, <1>4, <1>5, HeadTailProperties
<1>8. Flowing(n, f, perm, m)
  BY <1>2, <1>3 DEF Session
<1>9. PICK d \in Nat : d = Taken /\ d + l = next
  <2>1. PICK d \in Nat : d = Taken
    BY <1>8 DEF Flowing
  <2>2. d = next - l
    BY <1>5, <2>1 DEF Taken
  <2>. QED
    BY <1>3, <1>5, <2>1, <2>2
<1>10. d \in 0..(n - 1) /\ d \in 0..n /\ d + 1 \in 0..n /\ d + 1 <= n
  <2>1. n \in Nat /\ d + l <= n
    BY <1>3, <1>9
  <2>. QED
    BY <2>1
<1>11. Reach(n, perm, d, m) /\ client.seq = f[m] /\ client.apart = Apart(f, perm, d, m)
       /\ \A i \in 1..l : wire[i] = Segment(f, perm[d + i])
  BY <1>5, <1>8, <1>9 DEF Flowing
<1>12. p = Segment(f, perm[d + 1])
  BY <1>6, <1>11
<1>13. PICK m2 : /\ Reach(n, perm, d + 1, m2)
                 /\ p.start >= client.seq
                 /\ p.start = client.seq <=> perm[d + 1] = m + 1
                 /\ p.start = client.seq => /\ Contiguous(p) = f[m2]
                                            /\ {x \in client.apart : x.start >= f[m2]}
                                                  = Apart(f, perm, d + 1, m2)
                 /\ p.start # client.seq => /\ m2 = m
                                            /\ client.apart \cup {p} = Apart(f, perm, d + 1, m)
  <2>1. n \in Nat /\ Marks(n, f) /\ Places(n, perm)
    BY <1>3
  <2>. QED
    BY <1>10, <1>11, <1>12, <2>1, ClientTakes
<1>14. m \in 0..n /\ m2 \in 0..n /\ f[m] \in Nat /\ f[m2] \in Nat
  <2>1. m \in 0..n /\ m2 \in 0..n
    BY <1>11, <1>13 DEF Reach
  <2>. QED
    BY <1>3, <2>1 DEF Marks
<1>15. /\ client'.seq = f[m2] /\ client'.apart = Apart(f, perm, d + 1, m2)
       /\ client'.apart \in SUBSET Packet
       /\ client' = [seq |-> client'.seq, apart |-> client'.apart, delayed |-> client'.delayed]
       /\ client'.delayed \in BOOLEAN
       /\ ~ client'.delayed => acks' = Append(acks, f[m2])
       /\ client'.delayed => acks' = acks /\ p.start = client.seq /\ client.apart = {}
  <2>1. CASE p.start = client.seq
    <3>1. PICK A : A = {x \in client.apart : x.start >= f[m2]}
      OBVIOUS
    <3>2. ~ (p.start > client.seq)
      BY <1>4, <2>1
    <3>3. PICK delays \in BOOLEAN : delays <=> client.apart = {} /\ ~client.delayed /\ ~p.fin
      OBVIOUS
    <3>4. /\ client' = [seq |-> f[m2], apart |-> A, delayed |-> delays]
          /\ acks' = IF delays THEN acks ELSE Append(acks, f[m2])
      BY <1>6, <1>13, <2>1, <3>1, <3>2, <3>3, Zenon DEF Deliver
    <3>. QED
      BY <1>4, <1>13, <2>1, <3>1, <3>3, <3>4
  <2>2. CASE p.start # client.seq
    <3>1. p.start > client.seq
      <4>1. p.start \in Nat /\ client.seq \in Nat
        BY <1>4, <1>6 DEF Packet
      <4>. QED
        BY <1>13, <2>2, <4>1
    <3>2. /\ client' = [seq |-> client.seq, apart |-> client.apart \cup {p}, delayed |-> FALSE]
          /\ acks' = Append(acks, client.seq)
      BY <1>6, <2>2, <3>1 DEF Deliver
    <3>. QED
      BY <1>4, <1>6, <1>11, <1>13, <2>2, <3>2
  <2>. QED
    BY <2>1, <2>2
<1>16. acks' \in Seq(Nat)
  <2>1. Append(acks, f[m2]) \in Seq(Nat)
    BY <1>4, <1>14, AppendProperties
  <2>. QED
    BY <1>4, <1>15, <2>1
<1>17. TypeInv' /\ IdleInv'
  BY <1>1, <1>2, <1>7, <1>14, <1>15, <1>16 DEF IInv, TypeInv, IdleInv
<1>18. Taken' = d + 1
  <2>1. Taken' = next' - Len(wire')
    BY DEF Taken
  <2>. QED
    BY <1>1, <1>5, <1>7, <1>9, <2>1
<1>19. Flowing(n, f, perm, m2)'
  <2>1. \A i \in 1..(l - 1) : wire'[i] = Segment(f, perm[(d + 1) + i])
    <3>1. SUFFICES ASSUME NEW i \in 1..(l - 1) PROVE wire'[i] = Segment(f, perm[(d + 1) + i])
      OBVIOUS
    <3>2. i + 1 \in 1..l /\ d + (i + 1) = (d + 1) + i
      OBVIOUS
    <3>. QED
      BY <1>7, <1>11, <3>2
  <2>. QED
    BY <1>7, <1>9, <1>13, <1>15, <1>18, <2>1 DEF Flowing
<1>20. Measured(request) => Answered(n, f)'
  <2>1. Measured(request) => Windowed(seq, n, f, perm) /\ Answered(n, f)
    BY <1>3 DEF Session
  <2>2. ASSUME Windowed(seq, n, f, perm), Answered(n, f) PROVE Answered(n, f)'
    <3>1. n \in Nat /\ Marks(n, f) /\ Places(n, perm)
      BY <1>3
    <3>2. ~ client'.delayed
      <4>1. SUFFICES ASSUME client'.delayed PROVE FALSE
        OBVIOUS
      <4>2. perm[d + 1] = m + 1 /\ Apart(f, perm, d, m) = {}
        BY <1>11, <1>13, <1>15, <4>1
      <4>3. Apart(f, perm, d, m) # {}
        BY <1>10, <1>11, <2>2, <3>1, <4>2, ClosingTakes
      <4>. QED
        BY <4>2, <4>3
    <3>3. client'.delayed = FALSE /\ acks' = Append(acks, f[m2])
      BY <1>15, <3>2
    <3>4. b + a = d
      <4>1. b + a + l = next
        BY <1>5, <2>2 DEF Answered
      <4>. QED
        BY <1>5, <1>9, <4>1
    <3>5. Len(acks') = a + 1 /\ acks'[a + 1] = f[m2] /\ \A i \in 1..a : acks'[i] = acks[i]
      BY <1>4, <1>5, <1>14, <3>3, AppendProperties
    <3>6. Len(received') + Len(acks') + Len(wire') = next' /\ Len(received') + Len(acks') = d + 1
      <4>1. Len(received') = b /\ Len(acks') = a + 1 /\ Len(wire') = l - 1 /\ next' = d + l
        BY <1>1, <1>5, <1>7, <1>9, <3>5
      <4>2. b + (a + 1) + (l - 1) = d + l /\ b + (a + 1) = d + 1
        BY <3>4
      <4>. QED
        BY <4>1, <4>2, Zenon
    <3>7. m2 = Windows(d + 1)
      BY <1>10, <1>13, <2>2, <3>1, ReachIs
    <3>8. \A k \in 1..(d + 1) : Answer(k)' = IF k <= n THEN f[Windows(k)] ELSE f[n] + 1
      <4>1. SUFFICES ASSUME NEW k \in 1..(d + 1) PROVE Answer(k)' = f[Windows(k)]
        BY <1>10, <3>1
      <4>2. CASE k = d + 1
        <5>1. ~ (k <= b) /\ k - b = a + 1
          BY <3>4, <4>2
        <5>2. Answer(k)' = acks'[a + 1]
          BY <1>1, <1>5, <5>1 DEF Answer
        <5>. QED
          BY <3>5, <3>7, <4>2, <5>2
      <4>3. CASE k <= d
        <5>1. k <= n /\ k \in 1..(b + a)
          BY <1>10, <3>1, <3>4, <4>3
        <5>2. Answer(k) = f[Windows(k)]
          BY <1>5, <2>2, <5>1 DEF Answered
        <5>3. ~ (k <= b) => k - b \in 1..a
          BY <5>1
        <5>4. Answer(k)' = Answer(k)
          BY <1>1, <1>5, <3>5, <5>3 DEF Answer
        <5>. QED
          BY <5>2, <5>4
      <4>. QED
        BY <4>2, <4>3
    <3>. QED
      <4>1. state' # "waiting_fin_ack"
        BY <1>1
      <4>. QED
        BY <3>3, <3>6, <3>8, <4>1 DEF Answered
  <2>. QED
    BY <2>1, <2>2
<1>21. Session(n, f, perm, m2)'
  BY <1>1, <1>3, <1>19, <1>20 DEF Session
<1>22. Position'
  BY <1>1, <1>2, <1>3 DEF IInv, SessionInv, Position
<1>23. SessionInv'
  BY <1>1, <1>2, <1>3, <1>21, <1>22 DEF IInv, SessionInv
<1>. QED
  BY <1>17, <1>23 DEF IInv

\* The client takes the FIN.
LEMMA TakeFINInv ==
    ASSUME IInv, Deliver, state = "waiting_fin_ack"
    PROVE  IInv'
<1>1. wire # <<>> /\ wire' = Tail(wire)
      /\ UNCHANGED <<size, spacing, request, state, blocks, seq, next, received>>
  BY DEF Deliver
<1>2. PICK n, f, perm, m :
         /\ n \in Nat /\ n = Len(seq) /\ Session(n, f, perm, m) /\ Marks(n, f) /\ Places(n, perm)
         /\ seq \in Seq(SliceSet) /\ next \in 0..n
         /\ Len(wire) \in Nat /\ Len(acks) \in Nat /\ Len(received) \in Nat
  BY OnSession
<1>3. acks \in Seq(Nat) /\ received \in Seq(Nat)
  BY DEF IInv, TypeInv
<1>4. next = n
  BY <1>2 DEF IInv, SessionInv, Position
<1>5. client.apart = {} /\ wire = <<FinSegment(n, f)>> /\ client.seq = f[n]
  BY <1>1, <1>2 DEF Session, Finishing
<1>6. PICK e \in Nat : e = f[n]
  BY <1>2 DEF Marks
<1>7. PICK p : p = FinSegment(n, f) /\ p = Head(wire)
  BY <1>5
<1>8. p.start = e /\ p.fin = TRUE /\ EndOf(p) = e + 1
  BY <1>6, <1>7 DEF FinSegment, EndOf
<1>9. Contiguous(p) = e + 1
  <2>1. PICK C : C = {c \in {EndOf(x) : x \in client.apart \cup {p}} :
                         \A x \in client.apart : x.start # c}
    OBVIOUS
  <2>2. C = {e + 1}
    BY <1>5, <1>8, <2>1
  <2>3. Min({e + 1}) \in {e + 1}
    <3>1. {e + 1} \in SUBSET Nat /\ {e + 1} # {}
      BY <1>6
    <3>. QED
      BY <3>1, MinProperties
  <2>. QED
    BY <2>1, <2>2, <2>3 DEF Contiguous
<1>10. wire' = <<>> /\ Len(wire') = 0 /\ Len(wire) = 1
  BY <1>1, <1>5
<1>11. client' = [seq |-> e + 1, apart |-> {}, delayed |-> FALSE] /\ acks' = Append(acks, e + 1)
  <2>1. p.start = client.seq /\ ~ (p.start > client.seq)
    BY <1>5, <1>6, <1>8
  <2>2. {x \in client.apart : x.start >= e + 1} = {}
    BY <1>5
  <2>. QED
    BY <1>7, <1>8, <1>9, <2>1, <2>2 DEF Deliver
<1>12. PICK a \in Nat, b \in Nat : a = Len(acks) /\ b = Len(received)
  BY <1>2
<1>13. /\ acks' \in Seq(Nat) /\ Len(acks') = a + 1 /\ acks'[a + 1] = e + 1
       /\ \A i \in 1..a : acks'[i] = acks[i]
  BY <1>3, <1>11, <1>12, AppendProperties
<1>14. TypeInv' /\ IdleInv'
  BY <1>1, <1>10, <1>11, <1>13, EmptySeq DEF IInv, TypeInv, IdleInv
<1>15. Finishing(n, f)'
  BY <1>6, <1>10, <1>11 DEF Finishing
<1>16. Measured(request) => Answered(n, f)'
  <2>1. Measured(request) => Answered(n, f)
    BY <1>2 DEF Session
  <2>2. ASSUME Answered(n, f) PROVE Answered(n, f)'
    <3>1. b + a = n
      <4>1. b + a + 1 = n + 1
        BY <1>4, <1>10, <1>12, <2>2 DEF Answered
      <4>. QED
        BY <1>2, <4>1
    <3>2. /\ Len(received') + Len(acks') + Len(wire') = next' + 1
          /\ Len(received') + Len(acks') = n + 1
      <4>1. Len(received') = b /\ Len(wire') = 0 /\ next' = n
        BY <1>1, <1>4, <1>10, <1>12
      <4>2. b + (a + 1) = n + 1 /\ b + (a + 1) + 0 = n + 1
        BY <1>2, <3>1
      <4>. QED
        BY <1>13, <4>1, <4>2, Zenon
    <3>3. \A k \in 1..(n + 1) : Answer(k)' = IF k <= n THEN f[Windows(k)] ELSE f[n] + 1
      <4>1. SUFFICES ASSUME NEW k \in 1..(n + 1)
                     PROVE  Answer(k)' = IF k <= n THEN f[Windows(k)] ELSE e + 1
        BY <1>6
      <4>2. n \in Nat
        BY <1>2
      <4>3. CASE k = n + 1
        <5>1. ~ (k <= b) /\ k - b = a + 1 /\ ~ (k <= n)
          BY <3>1, <4>2, <4>3
        <5>2. Answer(k)' = acks'[a + 1]
          BY <1>1, <1>12, <5>1 DEF Answer
        <5>. QED
          BY <1>13, <5>1, <5>2
      <4>4. CASE k <= n
        <5>1. k \in 1..(b + a)
          BY <3>1, <4>2, <4>4
        <5>2. Answer(k) = f[Windows(k)]
          BY <1>12, <2>2, <4>4, <5>1 DEF Answered
        <5>3. ~ (k <= b) => k - b \in 1..a
          BY <5>1
        <5>4. Answer(k)' = Answer(k)
          BY <1>1, <1>12, <1>13, <5>3 DEF Answer
        <5>. QED
          BY <4>4, <5>2, <5>4
      <4>. QED
        BY <4>2, <4>3, <4>4
    <3>. QED
      BY <1>1, <1>11, <3>2, <3>3 DEF Answered
  <2>. QED
    BY <2>1, <2>2
<1>17. Session(n, f, perm, m)'
  BY <1>1, <1>2, <1>15, <1>16 DEF Session
<1>18. Position'
  BY <1>1, <1>2 DEF IInv, SessionInv, Position
<1>19. SessionInv'
  BY <1>1, <1>2, <1>17, <1>18 DEF IInv, SessionInv
<1>. QED
  BY <1>14, <1>19 DEF IInv

LEMMA StutterInv ==
    ASSUME IInv, UNCHANGED vars
    PROVE  IInv'
<1>1. UNCHANGED <<size, spacing, request, state, blocks, seq, next, wire, client, acks, received>>
  BY DEF vars
<1>2. TypeInv' /\ IdleInv'
  BY <1>1 DEF IInv, TypeInv, IdleInv
<1>3. CASE state = "none"
  <2>1. SessionInv'
    BY <1>1, <1>3 DEF SessionInv
  <2>. QED
    BY <1>2, <2>1 DEF IInv
<1>4. CASE state # "none"
  <2>1. PICK n, f, perm, m : n = Len(seq) /\ Session(n, f, perm, m)
    BY <1>4, OnSession
  <2>2. Session(n, f, perm, m)'
    BY <1>1, <2>1 DEF Session, Flowing, Finishing, Taken, Answered, Answer
  <2>3. Position'
    BY <1>1, <1>4 DEF IInv, SessionInv, Position
  <2>4. SessionInv'
    BY <1>1, <1>4, <2>1, <2>2, <2>3 DEF IInv, SessionInv
  <2>. QED
    BY <1>2, <2>4 DEF IInv
<1>. QED
  BY <1>3, <1>4

LEMMA StepInv ==
    ASSUME IInv, [Next]_vars
    PROVE  IInv'
<1>1. CASE \E r \in Requests : CreateTestSequence(r)
  BY <1>1, CreateInv
<1>2. CASE SendSlice
  BY <1>2, SendSliceInv
<1>3. CASE SendFIN
  BY <1>3, SendFINInv
<1>4. CASE Purge
  BY <1>4, PurgeInv
<1>5. CASE Receive
  BY <1>5, ReceiveInv
<1>6. CASE Over
  BY <1>6, OverInv
<1>7. CASE Deliver
  BY <1>7, TakeSliceInv, TakeFINInv
<1>8. CASE DelayedAck
  BY <1>8, DelayedAckInv
<1>9. CASE UNCHANGED vars
  BY <1>9, StutterInv
<1>. QED
  BY <1>1, <1>2, <1>3, <1>4, <1>5, <1>6, <1>7, <1>8, <1>9 DEF Next

LEMMA Invariance ==
    Spec => []IInv
<1>1. Init => IInv
  BY InitInv
<1>2. IInv /\ [Next]_vars => IInv'
  BY StepInv
<1>. QED
  BY <1>1, <1>2, PTL DEF Spec

-----------------------------------------------------------------------------
(* The theorems.                                                           *)

\* The variables keep their types: above all, the slice size that one session
\* leaves in the manager is never 0, by which the next one would divide.
THEOREM TypeCorrect ==
    Spec => []TypeInv
<1>1. IInv => TypeInv
  BY DEF IInv
<1>. QED
  BY <1>1, Invariance, PTL

LEMMA GapsFollow ==
    ASSUME IInv
    PROVE  GapsAsAsked
<1>1. SUFFICES ASSUME state = "active", next > 0
               PROVE  CASE request.kind = "custom" ->
                              next <= request.fixed => spacing = request.spacing
                        [] request.kind = "train" -> spacing = TrainPieces(request)[next].out
                        [] OTHER -> TRUE
  BY DEF GapsAsAsked
<1>2. spacing = seq[next].out /\ Fits(request, blocks, seq)
  BY <1>1 DEF IInv, SessionInv, Position
<1>3. next \in 1..Len(seq)
  <2>1. PICK n : n = Len(seq) /\ n \in Nat /\ next \in 0..n
    BY <1>1, OnSession
  <2>. QED
    BY <1>1, <2>1
<1>. QED
  BY <1>2, <1>3 DEF Fits

\* A client that asks for a spacing, or for the gaps of a train, gets them: the
\* gap that doTimer_Slicing arms is the one of the request, whatever the sessions
\* before left in the manager and whichever slices changed places.
THEOREM GapsSafe ==
    Spec => []GapsAsAsked
<1>1. IInv => GapsAsAsked
  BY GapsFollow
<1>. QED
  BY <1>1, Invariance, PTL

LEMMA BytesFollow ==
    ASSUME IInv
    PROVE  EveryByteOnce
<1>1. CASE state = "none"
  <2>1. seq = <<>> /\ state # "waiting_fin_ack"
    BY <1>1 DEF IInv, IdleInv
  <2>. QED
    BY <2>1, Zenon DEF EveryByteOnce
<1>2. CASE state # "none"
  <2>1. PICK n, f, perm, m : n \in Nat /\ n = Len(seq) /\ Session(n, f, perm, m)
                             /\ seq \in Seq(SliceSet)
    BY <1>2, OnSession
  <2>2. Tiles(seq, n, f, perm)
    BY <2>1 DEF Session
  <2>3. seq # <<>> =>
           /\ {s.start : s \in ToSet(seq)} \cup {Total(seq)}
                 = {EndOf(s) : s \in ToSet(seq)} \cup {0}
           /\ Cardinality({s.start : s \in ToSet(seq)}) = Len(seq)
    <3>1. SUFFICES ASSUME seq # <<>>
                   PROVE  /\ {s.start : s \in ToSet(seq)} \cup {Total(seq)}
                                = {EndOf(s) : s \in ToSet(seq)} \cup {0}
                          /\ Cardinality({s.start : s \in ToSet(seq)}) = Len(seq)
      OBVIOUS
    <3>2. n > 0
      BY <2>1, <3>1, EmptySeq
    <3>. QED
      BY <2>1, <2>2, <3>2, TilesCover
  <2>4. request.kind # "image" => Total(seq) <= Total(blocks)
    BY <1>2 DEF IInv, SessionInv, Fits
  <2>5. state = "waiting_fin_ack" /\ wire = <<>> =>
           client.seq = Total(seq) + 1 /\ client.apart = {}
    <3>1. Total(seq) = f[n]
      BY <2>1, <2>2, TotalTiles
    <3>. QED
      BY <2>1, <3>1 DEF Session, Finishing
  <2>. QED
    BY <2>3, <2>4, <2>5, Zenon DEF EveryByteOnce
<1>. QED
  BY <1>1, <1>2

\* The slices of every test, for every request and for whatever size and spacing
\* earlier sessions left behind, cover it from its first byte to its last without
\* a gap or an overlap, although the slices of every window change places; the
\* buffer has those bytes; and when the FIN has come the client has all of them.
THEOREM BytesSafe ==
    Spec => []EveryByteOnce
<1>1. IInv => EveryByteOnce
  BY BytesFollow
<1>. QED
  BY <1>1, Invariance, PTL

LEMMA PairsFollow ==
    ASSUME IInv
    PROVE  PairsMatch
<1>1. SUFFICES ASSUME Measured(request)
               PROVE  /\ Len(received) + Len(acks) + Len(wire)
                            = IF state = "waiting_fin_ack" THEN next + 1 ELSE next
                      /\ \A k \in DOMAIN Pairs :
                            Pairs[k].rcvd \in
                                {NoAnswer, CASE k % Window = 0 -> Pairs[k].sent.exp
                                             [] k < Window -> 0
                                             [] OTHER -> Pairs[Opening(k, Window) - 1].sent.exp}
  BY DEF PairsMatch
<1>2. state # "none"
  BY <1>1 DEF IInv, IdleInv, NoRequest, Measured
<1>3. PICK n, f, perm, m :
         /\ n \in Nat /\ n = Len(seq) /\ Session(n, f, perm, m) /\ Marks(n, f) /\ Places(n, perm)
         /\ seq \in Seq(SliceSet) /\ next \in 0..n
         /\ Len(wire) \in Nat /\ Len(acks) \in Nat /\ Len(received) \in Nat
  BY <1>2, OnSession
<1>4. Windowed(seq, n, f, perm) /\ Answered(n, f) /\ f[0] = 0
  BY <1>1, <1>3 DEF Session, Marks
<1>5. DOMAIN Pairs = 1..next
  BY DEF Pairs
<1>6. ASSUME NEW k \in 1..next
      PROVE  Pairs[k].rcvd \in
                 {NoAnswer, CASE k % Window = 0 -> Pairs[k].sent.exp
                              [] k < Window -> 0
                              [] OTHER -> Pairs[Opening(k, Window) - 1].sent.exp}
  <2>1. k \in 1..n /\ k \in Nat /\ k > 0 /\ k <= n
    BY <1>3
  <2>2. /\ Pairs[k].sent = seq[k]
        /\ Pairs[k].rcvd = IF k <= Len(received) THEN received[k] ELSE NoAnswer
    BY DEF Pairs
  <2>3. CASE k > Len(received)
    BY <1>3, <2>1, <2>2, <2>3
  <2>4. CASE k <= Len(received)
    <3>1. Pairs[k].rcvd = Answer(k)
      BY <2>2, <2>4 DEF Answer
    <3>2. k \in 1..(Len(received) + Len(acks))
      BY <1>3, <2>1, <2>4
    <3>3. Pairs[k].rcvd = f[Windows(k)]
      BY <1>4, <2>1, <3>1, <3>2 DEF Answered
    <3>4. CASE k % Window = 0
      <4>1. Closing(k, Window) = k /\ Windows(k) = k
        BY <2>1, <3>4, WindowsAre
      <4>2. seq[k].exp = f[k]
        BY <1>4, <2>1, <4>1 DEF Windowed
      <4>3. Pairs[k].rcvd = Pairs[k].sent.exp
        BY <2>2, <3>3, <4>1, <4>2, Zenon
      <4>4. ~ (k < Window)
        BY <2>1, <3>4 DEF Window
      <4>. QED
        BY <3>4, <4>3, <4>4
    <3>5. CASE k % Window # 0
      <4>1. PICK w \in 0..k : w = Windows(k) /\ Opening(k, Window) = w + 1 /\ w < k /\ k < w + 5
        BY <2>1, <3>5, WindowsAre DEF Window
      <4>2. CASE k < Window
        <5>1. w = 0
          <6>1. PICK q \in Nat : w = 5 * q
            BY <2>1, <4>1 DEF Windows, Window
          <6>. QED
            BY <4>1, <4>2, <6>1 DEF Window
        <5>. QED
          BY <1>4, <3>3, <3>5, <4>1, <4>2, <5>1
      <4>3. CASE ~ (k < Window)
        <5>1. w > 0 /\ w \in 1..n /\ w \in 1..next /\ w = Opening(k, Window) - 1
          <6>1. n \in Nat /\ next \in 0..n
            BY <1>3
          <6>2. k >= 5 /\ k < w + 5 /\ w < k
            BY <2>1, <4>1, <4>3 DEF Window
          <6>3. w > 0 /\ w < k /\ k \in 1..next
            BY <6>2
          <6>4. w \in 1..next
            BY <6>1, <6>3
          <6>. QED
            BY <4>1, <6>1, <6>3, <6>4
        <5>2. Closing(w, Window) = w
          BY <2>1, <4>1, <5>1, WindowsAre
        <5>3. seq[w].exp = f[w]
          BY <1>4, <5>1, <5>2 DEF Windowed
        <5>4. Pairs[w].sent = seq[w]
          BY <5>1 DEF Pairs
        <5>. QED
          BY <3>3, <3>5, <4>1, <4>3, <5>1, <5>3, <5>4
      <4>. QED
        BY <4>2, <4>3
    <3>. QED
      BY <3>4, <3>5
  <2>. QED
    BY <1>3, <2>1, <2>3, <2>4
<1>. QED
  BY <1>4, <1>5, <1>6 DEF Answered

\* In a test of whole windows every slice brings exactly one answer, none is
\* delayed or left out, and the answer that doAnalysis pairs with a slice by its
\* place in the queue says how far the windows up to it were complete.
THEOREM PairsSafe ==
    Spec => []PairsMatch
<1>1. IInv => PairsMatch
  BY PairsFollow
<1>. QED
  BY <1>1, Invariance, PTL
====
