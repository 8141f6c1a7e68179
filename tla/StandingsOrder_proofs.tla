------------------------- MODULE StandingsOrder_proofs -------------------------
(***************************************************************************)
(* The scan over a stable sort ranks any number of teams by the rules.     *)
(***************************************************************************)
EXTENDS StandingsOrder, LeagueTable_proofs

\* What t took from the matches among the teams involved, in given scores.
ShareIn(sc, m, t) ==
    LET gf == IF t = Home[m] THEN sc[m][1] ELSE sc[m][2]
        ga == IF t = Home[m] THEN sc[m][2] ELSE sc[m][1]
    IN  IF gf > ga THEN 3 ELSE IF gf = ga THEN 1 ELSE 0

MatchesIn(sc, t, involved) == {m \in PlayedIn(sc) : t \in {Home[m], Away[m]}
                                                   /\ {Home[m], Away[m]} \subseteq involved}

Took(sc, t, involved) == MapThenSumSet(LAMBDA m : ShareIn(sc, m, t), MatchesIn(sc, t, involved))

LEMMA TookTyped ==
    ASSUME NEW sc, NEW t, NEW involved
    PROVE  Took(sc, t, involved) \in Nat
<1> DEFINE S == MatchesIn(sc, t, involved)
           f == [m \in S |-> ShareIn(sc, m, t)]
<1>1. f \in [S -> Nat]
  BY DEF ShareIn
<1>2. IsFiniteSet(S)
  BY SeasonFinite, FS_Subset DEF MatchesIn, PlayedIn
<1> DEFINE A(g) == [s \in SUBSET S |-> IF s = {} THEN 0
                        ELSE LET x == CHOOSE y \in s : TRUE IN ShareIn(sc, x, t) + g[s \ {x}]]
           B(g) == [s \in SUBSET S |-> IF s = {} THEN 0
                        ELSE LET x == CHOOSE y \in s : TRUE IN f[x] + g[s \ {x}]]
<1>3. Took(sc, t, involved) = (CHOOSE g : g = A(g))[S]
  BY Zenon DEF Took, MapThenSumSet, MapThenFoldSet
<1>4. Sum(f, S) = (CHOOSE g : g = B(g))[S]
  BY Zenon DEF Sum, MapThenSumSet, MapThenFoldSet
<1>5. \A g : A(g) = B(g)
  <2>1. \A s \in SUBSET S : s # {} => (CHOOSE y \in s : TRUE) \in s
    OBVIOUS
  <2> HIDE DEF S
  <2>2. \A s \in SUBSET S : s # {} => f[CHOOSE y \in s : TRUE] = ShareIn(sc, CHOOSE y \in s : TRUE, t)
    BY <2>1
  <2> HIDE DEF f
  <2> QED  BY <2>2
<1> HIDE DEF A, B, f, S
<1>6. (CHOOSE g : g = A(g)) = (CHOOSE g : g = B(g))
  BY <1>5
<1> QED  BY <1>1, <1>2, <1>3, <1>4, <1>6, SumTyped

LEMMA HeadToHeadIs ==
    ASSUME NEW involved
    PROVE  HeadToHead(involved) = [t \in involved |-> Took(score, t, involved)]
BY Zenon DEF HeadToHead, Took, Share, ShareIn, MatchesIn

\* The points each team took from those it is tied with.
Tied(tb, t) == {u \in Team : PrimaryEqual(tb[u], tb[t])}
Pts(t) == Took(score, t, Tied(table, t))

LEMMA KeysAre ==
    \A t \in Team : Keys[t] = <<table[t].points, GoalDifference(table[t]), table[t].goalsFor, Pts(t)>>
<1>1. \A t \in Team : TiedWith(t) = Tied(table, t)
  BY DEF TiedWith, Tied, PrimaryEqual
<1>2. \A t \in Team : Keys[t] = <<table[t].points, GoalDifference(table[t]), table[t].goalsFor,
                                  Took(score, t, TiedWith(t))>>
  BY Zenon DEF Keys, Took, Share, ShareIn, MatchesIn
<1> QED  BY <1>1, <1>2 DEF Pts

-------------------------------------------------------------------------------
(* The stable sort *)

\* R puts the places 1 .. N in a strict total order.
TotalOrder(R, N) ==
    /\ \A j \in 1 .. N : <<j, j>> \notin R
    /\ \A j, k \in 1 .. N : j # k => <<j, k>> \in R \/ <<k, j>> \in R
    /\ \A j, k, l \in 1 .. N : <<j, k>> \in R /\ <<k, l>> \in R => <<j, l>> \in R

UpTo(R, N, k) == {j \in 1 .. N : <<j, k>> \in R \/ j = k}

\* The rank of a place is its number in the order, and there is one for each.
LEMMA Ranks ==
    ASSUME NEW N \in Nat, NEW R, TotalOrder(R, N)
    PROVE  /\ \A j, k \in 1 .. N : <<j, k>> \in R
                 => Cardinality(UpTo(R, N, j)) < Cardinality(UpTo(R, N, k))
           /\ \A p \in 1 .. N : \E j \in 1 .. N : Cardinality(UpTo(R, N, j)) = p
<1> DEFINE rank == [k \in 1 .. N |-> Cardinality(UpTo(R, N, k))]
<1>1. IsFiniteSet(1 .. N) /\ Cardinality(1 .. N) = N
  BY FS_Interval
<1>2. ASSUME NEW k \in 1 .. N
      PROVE  /\ IsFiniteSet(UpTo(R, N, k))
             /\ Cardinality(UpTo(R, N, k)) \in 1 .. N
  <2>1. UpTo(R, N, k) \subseteq 1 .. N /\ k \in UpTo(R, N, k)
    BY DEF UpTo
  <2>2. /\ IsFiniteSet(UpTo(R, N, k)) /\ Cardinality(UpTo(R, N, k)) <= N
        /\ Cardinality(UpTo(R, N, k)) \in Nat
    BY <1>1, <2>1, FS_Subset, FS_CardinalityType
  <2>3. Cardinality(UpTo(R, N, k)) # 0
    BY <2>1, <2>2, FS_EmptySet
  <2> QED  BY <2>2, <2>3
<1>3. ASSUME NEW j \in 1 .. N, NEW k \in 1 .. N, <<j, k>> \in R
      PROVE  Cardinality(UpTo(R, N, j)) < Cardinality(UpTo(R, N, k))
  <2>1. UpTo(R, N, j) \subseteq UpTo(R, N, k) /\ k \in UpTo(R, N, k) /\ k \notin UpTo(R, N, j)
    BY <1>3 DEF TotalOrder, UpTo
  <2>2. /\ Cardinality(UpTo(R, N, j)) <= Cardinality(UpTo(R, N, k))
        /\ Cardinality(UpTo(R, N, j)) # Cardinality(UpTo(R, N, k))
    BY <1>2, <2>1, FS_Subset
  <2> QED  BY <1>2, <2>2
<1>4. rank \in Injection(1 .. N, 1 .. N)
  <2>1. rank \in [1 .. N -> 1 .. N]
    BY <1>2
  <2>2. \A j, k \in 1 .. N : rank[j] = rank[k] => j = k
    <3> SUFFICES ASSUME NEW j \in 1 .. N, NEW k \in 1 .. N, rank[j] = rank[k], j # k
                 PROVE  FALSE
      OBVIOUS
    <3>1. <<j, k>> \in R \/ <<k, j>> \in R
      BY DEF TotalOrder
    <3> QED  BY <1>2, <1>3, <3>1
  <2> HIDE DEF rank
  <2> QED  BY <2>1, <2>2 DEF Injection, IsInjective
<1>5. rank \in Surjection(1 .. N, 1 .. N)
  <2> HIDE DEF rank
  <2> QED  BY <1>1, <1>4, FS_Injection
<1>6. \A p \in 1 .. N : \E j \in 1 .. N : rank[j] = p
  <2> HIDE DEF rank
  <2> QED  BY <1>5 DEF Surjection
<1> QED  BY <1>3, <1>6

\* at takes the places by their ranks.
Ranked(at, R, N) ==
    /\ at \in [1 .. N -> 1 .. N]
    /\ \A p \in 1 .. N : Cardinality(UpTo(R, N, at[p])) = p

\* Who takes the places by their ranks takes them in order.
LEMMA TakenInOrder ==
    ASSUME NEW N \in Nat, NEW R, TotalOrder(R, N), NEW at, Ranked(at, R, N)
    PROVE  /\ \A p, q \in 1 .. N : p < q => <<at[p], at[q]>> \in R
           /\ \A j \in 1 .. N : \E p \in 1 .. N : at[p] = j
<1> USE DEF Ranked
<1>1. ASSUME NEW p \in 1 .. N, NEW q \in 1 .. N, p < q PROVE <<at[p], at[q]>> \in R
  <2>1. at[p] # at[q]
    BY <1>1
  <2>2. <<at[q], at[p]>> \notin R
    BY <1>1, Ranks
  <2> QED  BY <2>1, <2>2 DEF TotalOrder
<1>2. \A p, q \in 1 .. N : at[p] = at[q] => p = q
  OBVIOUS
<1>3. at \in Injection(1 .. N, 1 .. N)
  BY <1>2 DEF Injection, IsInjective
<1>4. at \in Surjection(1 .. N, 1 .. N)
  BY <1>3, FS_Interval, FS_Injection
<1> QED  BY <1>1, <1>4 DEF Surjection

\* L puts the places in a strict weak order.
WeakOrder(L, N) ==
    /\ \A j \in 1 .. N : <<j, j>> \notin L
    /\ \A j, k, l \in 1 .. N : <<j, k>> \in L /\ <<k, l>> \in L => <<j, l>> \in L
    /\ \A j, k, l \in 1 .. N : <<j, k>> \in L => <<j, l>> \in L \/ <<l, k>> \in L

\* What L leaves undecided, the places decide.
Stably(L, N) == {jk \in (1 .. N) \X (1 .. N) : \/ jk \in L
                                               \/ <<jk[2], jk[1]>> \notin L /\ jk[1] < jk[2]}

LEMMA StableOrder ==
    ASSUME NEW N \in Nat, NEW L, WeakOrder(L, N)
    PROVE  TotalOrder(Stably(L, N), N)
<1>1. \A j, k \in 1 .. N : <<j, k>> \in Stably(L, N)
                             <=> <<j, k>> \in L \/ (<<k, j>> \notin L /\ j < k)
  BY DEF Stably
<1>2. \A j \in 1 .. N : <<j, j>> \notin Stably(L, N)
  <2> SUFFICES ASSUME NEW j \in 1 .. N PROVE <<j, j>> \notin Stably(L, N)
    OBVIOUS
  <2>1. <<j, j>> \notin L
    BY DEF WeakOrder
  <2>2. <<j, j>> \in Stably(L, N) <=> <<j, j>> \in L \/ (<<j, j>> \notin L /\ j < j)
    BY DEF Stably
  <2>3. ~(j < j)
    OBVIOUS
  <2> QED  BY <2>1, <2>2, <2>3
<1>3. \A j, k \in 1 .. N : j # k => <<j, k>> \in Stably(L, N) \/ <<k, j>> \in Stably(L, N)
  BY <1>1
<1>4. ASSUME NEW j \in 1 .. N, NEW k \in 1 .. N, NEW l \in 1 .. N,
             <<j, k>> \in Stably(L, N), <<k, l>> \in Stably(L, N)
      PROVE  <<j, l>> \in Stably(L, N)
  <2>1. <<j, k>> \in L \/ (<<k, j>> \notin L /\ j < k)
    BY <1>1, <1>4
  <2>2. <<k, l>> \in L \/ (<<l, k>> \notin L /\ k < l)
    BY <1>1, <1>4
  <2>3. CASE <<j, l>> \in L
    BY <1>1, <2>3
  <2>4. CASE <<j, l>> \notin L
    <3>1. <<l, j>> \notin L /\ j < l
      BY <2>1, <2>2, <2>4 DEF WeakOrder
    <3> QED  BY <1>1, <3>1
  <2> QED  BY <2>3, <2>4
<1> QED  BY <1>2, <1>3, <1>4 DEF TotalOrder

\* result is s, its places in the order at.
Reorders(result, s, at, N) ==
    /\ at \in [1 .. N -> 1 .. N]
    /\ \A j \in 1 .. N : \E p \in 1 .. N : at[p] = j
    /\ \A p, q \in 1 .. N : at[p] = at[q] => p = q
    /\ result = [p \in 1 .. N |-> s[at[p]]]

\* The place of j when the places are sorted by L.
PlaceBy(L, N, j) == Cardinality({k \in 1 .. N : \/ <<k, j>> \in L
                                                \/ <<j, k>> \notin L /\ k <= j})
Taken(L, N, p) == CHOOSE j \in 1 .. N : PlaceBy(L, N, j) = p

Sorted(s, L, N) == [p \in 1 .. N |-> s[Taken(L, N, p)]]

InOrder(at, L, N) ==
    \A p, q \in 1 .. N : p < q => \/ <<at[p], at[q]>> \in L
                                  \/ <<at[q], at[p]>> \notin L /\ at[p] < at[q]

LEMMA SortPermutes ==
    ASSUME NEW N \in Nat, NEW L, WeakOrder(L, N), NEW s
    PROVE  \E at : Reorders(Sorted(s, L, N), s, at, N) /\ InOrder(at, L, N)
<1> DEFINE R == Stably(L, N)
           at == [p \in 1 .. N |-> Taken(L, N, p)]
<1>1. TotalOrder(R, N)
  BY StableOrder
<1>2. \A j, k \in 1 .. N : <<j, k>> \in R <=> <<j, k>> \in L \/ (<<k, j>> \notin L /\ j < k)
  BY DEF Stably
<1> HIDE DEF R
<1>3. \A j \in 1 .. N : PlaceBy(L, N, j) = Cardinality(UpTo(R, N, j))
  <2> SUFFICES ASSUME NEW j \in 1 .. N
               PROVE  {k \in 1 .. N : \/ <<k, j>> \in L
                                      \/ <<j, k>> \notin L /\ k <= j} = UpTo(R, N, j)
    BY DEF PlaceBy
  <2>1. <<j, j>> \notin L
    BY DEF WeakOrder
  <2> QED  BY <1>2, <2>1 DEF UpTo
<1>4. \A p \in 1 .. N : /\ Taken(L, N, p) \in 1 .. N
                        /\ Cardinality(UpTo(R, N, Taken(L, N, p))) = p
  <2> SUFFICES ASSUME NEW p \in 1 .. N
               PROVE  /\ Taken(L, N, p) \in 1 .. N
                      /\ Cardinality(UpTo(R, N, Taken(L, N, p))) = p
    OBVIOUS
  <2>1. \E j \in 1 .. N : PlaceBy(L, N, j) = p
    BY <1>1, <1>3, Ranks
  <2>2. Taken(L, N, p) \in 1 .. N /\ PlaceBy(L, N, Taken(L, N, p)) = p
    BY <2>1 DEF Taken
  <2> QED  BY <1>3, <2>2
<1>5. /\ at \in [1 .. N -> 1 .. N]
      /\ \A p \in 1 .. N : at[p] = Taken(L, N, p)
      /\ \A p \in 1 .. N : Cardinality(UpTo(R, N, at[p])) = p
  BY <1>4
<1> HIDE DEF at
<1>11. Ranked(at, R, N)
  BY <1>5 DEF Ranked
<1>6. /\ \A p, q \in 1 .. N : p < q => <<at[p], at[q]>> \in R
      /\ \A j \in 1 .. N : \E p \in 1 .. N : at[p] = j
  BY <1>1, <1>11, TakenInOrder
<1>7. \A p, q \in 1 .. N : at[p] = at[q] => p = q
  BY <1>5
<1>8. [p \in 1 .. N |-> s[Taken(L, N, p)]] = [p \in 1 .. N |-> s[at[p]]]
  BY <1>5
<1>9. Reorders(Sorted(s, L, N), s, at, N)
  BY <1>5, <1>6, <1>7, <1>8 DEF Reorders, Sorted
<1>10. InOrder(at, L, N)
  BY <1>2, <1>5, <1>6 DEF InOrder
<1> QED  BY <1>9, <1>10

\* The sort of the table, as it comes from the query.
LEMMA SortedBefore ==
    ASSUME table \in [Team -> TableRow], NEW N \in Nat, NEW s \in [1 .. N -> Team]
    PROVE  \E at : /\ Reorders(StableSort(s, Before), s, at, N)
                   /\ \A p, q \in 1 .. N : p < q =>
                         \/ Before(s[at[p]], s[at[q]])
                         \/ ~Before(s[at[q]], s[at[p]]) /\ at[p] < at[q]
<1> DEFINE L == {jk \in (1 .. N) \X (1 .. N) : Before(s[jk[1]], s[jk[2]])}
<1>1. \A j, k \in 1 .. N : <<j, k>> \in L <=> Before(s[j], s[k])
  OBVIOUS
<1>2. WeakOrder(L, N)
  <2>1. ASSUME NEW j \in 1 .. N, NEW k \in 1 .. N, NEW l \in 1 .. N
        PROVE  /\ ~Before(s[j], s[j])
               /\ Before(s[j], s[k]) /\ Before(s[k], s[l]) => Before(s[j], s[l])
               /\ Before(s[j], s[k]) => Before(s[j], s[l]) \/ Before(s[l], s[k])
    <3>1. table[s[j]] \in TableRow /\ table[s[k]] \in TableRow /\ table[s[l]] \in TableRow
      OBVIOUS
    <3> QED  BY <3>1, PrimaryOrder DEF Before
  <2> HIDE DEF L
  <2> QED  BY <1>1, <2>1 DEF WeakOrder
<1> HIDE DEF L
<1>3. StableSort(s, Before) = Sorted(s, L, N)
  <2> DEFINE Place(k) == Cardinality({j \in 1 .. N : \/ Before(s[j], s[k])
                                                     \/ ~Before(s[k], s[j]) /\ j <= k})
  <2>1. DOMAIN s = 1 .. N
    OBVIOUS
  <2>2. StableSort(s, Before) = [p \in 1 .. N |-> s[CHOOSE j \in 1 .. N : Place(j) = p]]
    BY <2>1 DEF StableSort
  <2>3. \A j \in 1 .. N : Place(j) = PlaceBy(L, N, j)
    BY <1>1 DEF PlaceBy
  <2> HIDE DEF Place
  <2>4. \A p \in 1 .. N : (CHOOSE j \in 1 .. N : Place(j) = p) = Taken(L, N, p)
    BY <2>3 DEF Taken
  <2> QED  BY <2>2, <2>4 DEF Sorted
<1>4. PICK at : Reorders(Sorted(s, L, N), s, at, N) /\ InOrder(at, L, N)
  BY <1>2, SortPermutes
<1>5. at \in [1 .. N -> 1 .. N]
  BY <1>4 DEF Reorders
<1>6. \A p, q \in 1 .. N : p < q => \/ Before(s[at[p]], s[at[q]])
                                    \/ ~Before(s[at[q]], s[at[p]]) /\ at[p] < at[q]
  BY <1>1, <1>4, <1>5 DEF InOrder
<1> QED  BY <1>3, <1>4, <1>6

\* The sort of a group by what its teams took from one another.
SortedBy(s, h2h) ==
    LET Less(a, b) == h2h[a] > h2h[b]
    IN  StableSort(s, Less)

LEMMA SortedByPoints ==
    ASSUME NEW N \in Nat, NEW S, NEW s \in [1 .. N -> S], NEW h2h \in [S -> Nat]
    PROVE  \E at : /\ Reorders(SortedBy(s, h2h), s, at, N)
                   /\ \A p, q \in 1 .. N : p < q =>
                         \/ h2h[s[at[p]]] > h2h[s[at[q]]]
                         \/ h2h[s[at[p]]] = h2h[s[at[q]]] /\ at[p] < at[q]
<1> DEFINE L == {jk \in (1 .. N) \X (1 .. N) : h2h[s[jk[1]]] > h2h[s[jk[2]]]}
<1>1. \A j, k \in 1 .. N : <<j, k>> \in L <=> h2h[s[j]] > h2h[s[k]]
  OBVIOUS
<1>2. \A j \in 1 .. N : h2h[s[j]] \in Nat
  OBVIOUS
<1> HIDE DEF L
<1>3. WeakOrder(L, N)
  BY <1>1, <1>2 DEF WeakOrder
<1>4. SortedBy(s, h2h) = Sorted(s, L, N)
  <2> DEFINE Place(k) == Cardinality({j \in 1 .. N : \/ h2h[s[j]] > h2h[s[k]]
                                                     \/ ~(h2h[s[k]] > h2h[s[j]]) /\ j <= k})
  <2>1. DOMAIN s = 1 .. N
    OBVIOUS
  <2>2. SortedBy(s, h2h) = [p \in 1 .. N |-> s[CHOOSE j \in 1 .. N : Place(j) = p]]
    BY <2>1 DEF SortedBy, StableSort
  <2>3. \A j \in 1 .. N : Place(j) = PlaceBy(L, N, j)
    BY <1>1 DEF PlaceBy
  <2> HIDE DEF Place
  <2>4. \A p \in 1 .. N : (CHOOSE j \in 1 .. N : Place(j) = p) = Taken(L, N, p)
    BY <2>3 DEF Taken
  <2> QED  BY <2>2, <2>4 DEF Sorted
<1>5. PICK at : Reorders(Sorted(s, L, N), s, at, N) /\ InOrder(at, L, N)
  BY <1>3, SortPermutes
<1>6. at \in [1 .. N -> 1 .. N]
  BY <1>5 DEF Reorders
<1>7. \A p, q \in 1 .. N : p < q =>
                         \/ h2h[s[at[p]]] > h2h[s[at[q]]]
                         \/ h2h[s[at[p]]] = h2h[s[at[q]]] /\ at[p] < at[q]
  <2> SUFFICES ASSUME NEW p \in 1 .. N, NEW q \in 1 .. N, p < q
               PROVE  \/ h2h[s[at[p]]] > h2h[s[at[q]]]
                      \/ h2h[s[at[p]]] = h2h[s[at[q]]] /\ at[p] < at[q]
    OBVIOUS
  <2>1. at[p] \in 1 .. N /\ at[q] \in 1 .. N
    BY <1>6
  <2>2. \/ <<at[p], at[q]>> \in L
        \/ <<at[q], at[p]>> \notin L /\ at[p] < at[q]
    BY <1>5 DEF InOrder
  <2>3. h2h[s[at[p]]] \in Nat /\ h2h[s[at[q]]] \in Nat
    BY <1>2, <2>1
  <2>4. CASE <<at[p], at[q]>> \in L
    BY <1>1, <2>1, <2>4
  <2>5. CASE <<at[p], at[q]>> \notin L
    <3>1. h2h[s[at[p]]] = h2h[s[at[q]]]
      BY <1>1, <2>1, <2>2, <2>3, <2>5
    <3> QED  BY <2>2, <2>5, <3>1
  <2> QED  BY <2>4, <2>5
<1> QED  BY <1>4, <1>5, <1>7

-------------------------------------------------------------------------------
(* The inductive invariant of the scan *)

Rank == 1 .. Size
Asked(t) == Position(query, t)

\* A list of all the teams, each once.
Lists(s) ==
    /\ s \in [Rank -> Team]
    /\ \A t \in Team : \E k \in Rank : s[k] = t
    /\ \A k, l \in Rank : s[k] = s[l] => k = l

\* Rows in the primary order.
Descending(s) == \A k, l \in Rank : k < l => ~Before(s[l], s[k])

\* No two rows equal on points, difference and goals lie on either side of n.
Border(s, n) == n \in 2 .. Size => ~Equal(s[n - 1], s[n])

\* Team a belongs before b by what they took from the teams they are tied with,
\* or by the query.
Precedes(a, b) == Pts(a) > Pts(b) \/ (Pts(a) = Pts(b) /\ Asked(a) < Asked(b))

\* The groups the scan has passed are in their final order.
Scanned(s, n) == \A k, l \in Rank : k < l /\ l < n /\ Equal(s[k], s[l]) => Precedes(s[k], s[l])

\* The others are in the order of the query.
Waiting(s, n) == \A k, l \in Rank : n <= k /\ k < l /\ Equal(s[k], s[l]) => Asked(s[k]) < Asked(s[l])

OrderInv ==
    /\ table \in [Team -> TableRow]
    /\ Lists(query)
    /\ i \in 1 .. Size + 1
    /\ Lists(rows)
    /\ Descending(rows)
    /\ Border(rows, i)
    /\ Scanned(rows, i)
    /\ Waiting(rows, i)

\* The rows of these teams compare as the primary order does.
LEMMA Compare ==
    ASSUME table \in [Team -> TableRow], NEW a \in Team, NEW b \in Team, NEW c \in Team
    PROVE  /\ ~Before(a, a) /\ Equal(a, a)
           /\ Before(a, b) /\ Before(b, c) => Before(a, c)
           /\ Before(a, b) => Before(a, c) \/ Before(c, b)
           /\ Equal(a, b) <=> ~Before(a, b) /\ ~Before(b, a)
<1>1. table[a] \in TableRow /\ table[b] \in TableRow /\ table[c] \in TableRow
  OBVIOUS
<1>2. Equal(a, a) <=> ~Before(a, a)
  BY <1>1, PrimaryOrder DEF Before, Equal
<1> QED  BY <1>1, <1>2, PrimaryOrder DEF Before, Equal

LEMMA Positions ==
    ASSUME NEW s, Lists(s)
    PROVE  /\ \A k \in Rank : Position(s, s[k]) = k
           /\ \A t \in Team : Position(s, t) \in Rank /\ s[Position(s, t)] = t
<1>1. ASSUME NEW t \in Team PROVE Position(s, t) \in Rank /\ s[Position(s, t)] = t
  <2>1. \E k \in Rank : s[k] = t
    BY DEF Lists
  <2> QED  BY <2>1 DEF Position, Rank
<1>2. ASSUME NEW k \in Rank PROVE Position(s, s[k]) = k
  <2>1. s[k] \in Team
    BY DEF Lists
  <2> QED  BY <1>1, <2>1 DEF Lists
<1> QED  BY <1>1, <1>2

LEMMA SizeTyped == Size \in Nat
BY SeasonFinite, FS_CardinalityType DEF Size

LEMMA LeastIn ==
    ASSUME NEW S \in SUBSET Nat, S # {}
    PROVE  \E x \in S : \A y \in S : x <= y
<1> DEFINE P == {n \in Nat : \A y \in S : n <= y}
<1>1. SUFFICES ASSUME \A x \in S : \E y \in S : y < x PROVE FALSE
  OBVIOUS
<1>2. 0 \in P
  OBVIOUS
<1>3. ASSUME NEW k \in Nat, k \in P PROVE k + 1 \in P
  <2>1. k \notin S
    BY <1>1, <1>3
  <2> QED  BY <1>3, <2>1
<1>4. Nat \subseteq P
  <2> HIDE DEF P
  <2> QED  BY <1>2, <1>3, SetInduction
<1>5. PICK y \in S : TRUE
  OBVIOUS
<1>6. y + 1 \in P
  BY <1>4, <1>5
<1> QED  BY <1>5, <1>6

\* The scan finds where a group ends.
LEMMA GroupEndIs ==
    ASSUME table \in [Team -> TableRow], Lists(rows), NEW first \in Rank
    PROVE  /\ GroupEnd(first) \in first + 1 .. Size + 1
           /\ \A k \in first .. GroupEnd(first) - 1 : Equal(rows[first], rows[k])
           /\ GroupEnd(first) <= Size => ~Equal(rows[first], rows[GroupEnd(first)])
<1> USE SizeTyped DEF Rank
<1> DEFINE E == {j \in first + 1 .. Size + 1 : j <= Size => ~Equal(rows[first], rows[j])}
<1>1. Size + 1 \in E
  OBVIOUS
<1>2. E \in SUBSET Nat
  OBVIOUS
<1>3. PICK j \in E : \A k \in E : j <= k
  <2> HIDE DEF E
  <2> QED  BY <1>1, <1>2, LeastIn
<1>4. ASSUME NEW k \in first .. j - 1 PROVE Equal(rows[first], rows[k])
  <2>1. CASE k = first
    <3>1. rows[first] \in Team
      BY DEF Lists
    <3> QED  BY <2>1, <3>1, Compare
  <2>2. CASE k # first
    <3>1. k \notin E
      <4>1. k < j
        BY <1>2, <1>3
      <4> HIDE DEF E
      <4> QED  BY <1>2, <1>3, <4>1
    <3> QED  BY <1>3, <2>2, <3>1
  <2> QED  BY <2>1, <2>2
<1>5. \E e \in first + 1 .. Size + 1 :
        /\ \A k \in first .. e - 1 : Equal(rows[first], rows[k])
        /\ e <= Size => ~Equal(rows[first], rows[e])
  BY <1>3, <1>4
<1> QED  BY <1>5, Zenon DEF GroupEnd

\* Rows on either side of a border are not equal.
LEMMA Separated ==
    ASSUME table \in [Team -> TableRow], NEW s, Lists(s), Descending(s),
           NEW n \in 1 .. Size + 1, Border(s, n),
           NEW k \in Rank, NEW l \in Rank, k < n, n <= l
    PROVE  ~Equal(s[k], s[l]) /\ ~Equal(s[l], s[k])
<1> USE SizeTyped DEF Rank
<1>1. n \in 2 .. Size
  OBVIOUS
<1>2. /\ s[n - 1] \in Team /\ s[n] \in Team /\ s[k] \in Team /\ s[l] \in Team
  BY <1>1 DEF Lists
<1>3. ~Equal(s[n - 1], s[n]) /\ ~Before(s[n], s[n - 1])
  BY <1>1 DEF Border, Descending
<1>4. Before(s[n - 1], s[n])
  BY <1>2, <1>3, Compare
<1>5. s[k] = s[n - 1] \/ ~Before(s[n - 1], s[k])
  BY <1>1 DEF Descending
<1>6. s[l] = s[n] \/ ~Before(s[l], s[n])
  BY <1>1 DEF Descending
<1>7. Before(s[k], s[n])
  BY <1>2, <1>4, <1>5, Compare
<1>8. Before(s[k], s[l])
  BY <1>2, <1>6, <1>7, Compare
<1> QED  BY <1>2, <1>8, Compare

\* move reorders the rows a .. b - 1 and leaves the others.
Moves(move, a, b) ==
    /\ move \in [Rank -> Rank]
    /\ \A k \in Rank : \E l \in Rank : move[l] = k
    /\ \A k, l \in Rank : move[k] = move[l] => k = l
    /\ \A k \in Rank : IF k \in a .. b - 1 THEN move[k] \in a .. b - 1 ELSE move[k] = k

\* The teams of a group are those its teams are tied with.
LEMMA GroupIsTied ==
    ASSUME OrderInv, NEW j \in Rank \cup {Size + 1}, j = GroupEnd(i), NEW k \in i .. j - 1
    PROVE  /\ i \in Rank /\ k \in Rank
           /\ Border(rows, j)
           /\ Tied(table, rows[k]) = {rows[l] : l \in i .. j - 1}
<1> USE SizeTyped DEF Rank
<1>1. i \in Rank /\ k \in Rank /\ i .. j - 1 \subseteq Rank /\ j \in 1 .. Size + 1 /\ i \in 1 .. Size + 1
  BY DEF OrderInv
<1>2. table \in [Team -> TableRow] /\ Lists(rows) /\ Descending(rows) /\ Border(rows, i)
  BY DEF OrderInv
<1>3. /\ j \in i + 1 .. Size + 1
      /\ \A l \in i .. j - 1 : Equal(rows[i], rows[l])
      /\ j <= Size => ~Equal(rows[i], rows[j])
  BY <1>1, <1>2, GroupEndIs
<1>4. \A l \in Rank : rows[l] \in Team
  BY <1>2 DEF Lists
<1>5. \A a, b, c \in Team : Equal(a, b) /\ Equal(a, c) => Equal(b, c)
  BY DEF Equal, PrimaryEqual
<1>6. Border(rows, j)
  <2> SUFFICES ASSUME j \in 2 .. Size, Equal(rows[j - 1], rows[j]) PROVE FALSE
    BY DEF Border
  <2>1. Equal(rows[i], rows[j - 1])
    BY <1>1, <1>3
  <2> QED  BY <1>3, <2>1 DEF Equal, PrimaryEqual
<1>7. ASSUME NEW l \in i .. j - 1 PROVE rows[l] \in Tied(table, rows[k])
  <2>1. PrimaryEqual(table[rows[l]], table[rows[k]])
    BY <1>3 DEF Equal, PrimaryEqual
  <2> QED  BY <1>1, <1>4, <2>1 DEF Tied
<1>8. ASSUME NEW u \in Tied(table, rows[k]) PROVE \E l \in i .. j - 1 : u = rows[l]
  <2>1. PICK l \in Rank : u = rows[l]
    BY <1>2 DEF Tied, Lists
  <2>2. Equal(rows[l], rows[k])
    BY <2>1 DEF Tied, Equal
  <2>3. ~(l < i)
    BY <1>1, <1>2, <2>2, Separated
  <2>4. ~(j <= l)
    BY <1>1, <1>2, <1>6, <2>2, Separated
  <2> QED  BY <1>1, <2>1, <2>3, <2>4
<1> QED  BY <1>1, <1>6, <1>7, <1>8

\* SortGroup moves the rows of a group, those first that took most from the others.
LEMMA GroupMoves ==
    ASSUME OrderInv, i <= Size, NEW j, j = GroupEnd(i)
    PROVE  \E move : /\ Moves(move, i, j)
                     /\ (IF j - i > 1 THEN SortGroup(i, j) ELSE rows)
                          = [k \in Rank |-> rows[move[k]]]
                     /\ \A k, l \in i .. j - 1 : k < l =>
                           \/ Pts(rows[move[k]]) > Pts(rows[move[l]])
                           \/ Pts(rows[move[k]]) = Pts(rows[move[l]]) /\ move[k] < move[l]
<1> USE SizeTyped
<1>1. table \in [Team -> TableRow] /\ Lists(rows) /\ i \in Rank
  BY DEF OrderInv, Rank
<1>2. j \in i + 1 .. Size + 1
  BY <1>1, GroupEndIs
<1>3. i .. j - 1 \subseteq Rank /\ j \in Rank \cup {Size + 1} /\ i \in Nat /\ j \in Nat
  BY <1>1, <1>2 DEF Rank
<1>4. CASE ~(j - i > 1)
  <2> DEFINE move == [k \in Rank |-> k]
  <2>1. Moves(move, i, j)
    BY DEF Moves
  <2>2. rows = [k \in Rank |-> rows[move[k]]]
    <3>1. rows = [k \in Rank |-> rows[k]]
      BY <1>1 DEF Lists
    <3> QED  BY <3>1
  <2>3. \A k, l \in i .. j - 1 : ~(k < l)
    BY <1>2, <1>3, <1>4
  <2> HIDE DEF move
  <2> QED  BY <1>4, <2>1, <2>2, <2>3
<1>5. CASE j - i > 1
  <2> DEFINE N == j - i
             involved == {rows[k] : k \in i .. j - 1}
             h2h == [t \in involved |-> Took(score, t, involved)]
             s == [k \in 1 .. N |-> rows[i + k - 1]]
             group == SortedBy(s, h2h)
  <2>1. N \in Nat /\ N >= 2 /\ \A k \in 1 .. N : i + k - 1 \in i .. j - 1
    <3>1. N \in Nat /\ N >= 2
      BY <1>3, <1>5
    <3>2. ASSUME NEW k \in 1 .. N PROVE i + k - 1 \in i .. j - 1
      BY <1>3, <3>1
    <3> QED  BY <3>1, <3>2
  <2>2. s \in [1 .. N -> involved] /\ \A k \in 1 .. N : s[k] = rows[i + k - 1]
    BY <2>1
  <2>3. h2h \in [involved -> Nat]
    BY TookTyped
  <2>4. \A k \in i .. j - 1 : h2h[rows[k]] = Pts(rows[k])
    <3> SUFFICES ASSUME NEW k \in i .. j - 1 PROVE h2h[rows[k]] = Pts(rows[k])
      OBVIOUS
    <3>1. Tied(table, rows[k]) = involved
      BY <1>3, GroupIsTied
    <3>2. rows[k] \in involved
      OBVIOUS
    <3> QED  BY <3>1, <3>2 DEF Pts
  <2>5. SortGroup(i, j) = [k \in Rank |-> IF k \in i .. j - 1 THEN group[k - i + 1] ELSE rows[k]]
    <3>1. SortGroup(i, j) = [k \in Rank |-> IF k \in i .. j - 1
                                             THEN SortedBy(s, HeadToHead(involved))[k - i + 1]
                                             ELSE rows[k]]
      BY Zenon DEF SortGroup, SortedBy, Rank
    <3>2. HeadToHead(involved) = h2h
      BY HeadToHeadIs
    <3> HIDE DEF h2h, s, involved
    <3> QED  BY <3>1, <3>2
  <2> HIDE DEF N, involved, h2h, s
  <2>6. PICK at : /\ Reorders(group, s, at, N)
                  /\ \A p, q \in 1 .. N : p < q =>
                         \/ h2h[s[at[p]]] > h2h[s[at[q]]]
                         \/ h2h[s[at[p]]] = h2h[s[at[q]]] /\ at[p] < at[q]
    BY <2>1, <2>2, <2>3, SortedByPoints
  <2> HIDE DEF group
  <2> DEFINE move == [k \in Rank |-> IF k \in i .. j - 1 THEN (i + at[(k - i) + 1]) - 1 ELSE k]
  <2>7. /\ at \in [1 .. N -> 1 .. N]
        /\ \A p \in 1 .. N : \E q \in 1 .. N : at[q] = p
        /\ \A p, q \in 1 .. N : at[p] = at[q] => p = q
        /\ group = [p \in 1 .. N |-> s[at[p]]]
    BY <2>6 DEF Reorders
  <2>8. ASSUME NEW k \in i .. j - 1
        PROVE  /\ k - i + 1 \in 1 .. N
               /\ move[k] = (i + at[(k - i) + 1]) - 1
               /\ move[k] \in i .. j - 1
               /\ at[(k - i) + 1] = (move[k] - i) + 1
               /\ group[k - i + 1] = rows[move[k]]
    <3>1. k \in Rank /\ (k - i) + 1 \in 1 .. N
      BY <1>3, <2>1 DEF N
    <3>2. at[(k - i) + 1] \in 1 .. N
      BY <2>7, <3>1
    <3>3. move[k] = (i + at[(k - i) + 1]) - 1
      BY <3>1
    <3> HIDE DEF move
    <3>4. move[k] \in i .. j - 1 /\ at[(k - i) + 1] = (move[k] - i) + 1
      BY <1>3, <2>1, <3>2, <3>3 DEF N
    <3>5. group[(k - i) + 1] = rows[i + at[(k - i) + 1] - 1]
      BY <2>2, <2>7, <3>1, <3>2
    <3>6. i + at[(k - i) + 1] - 1 = move[k]
      BY <1>3, <2>1, <3>2, <3>3
    <3> QED  BY <3>1, <3>3, <3>4, <3>5, <3>6
  <2>9. \A k \in Rank : k \notin i .. j - 1 => move[k] = k
    OBVIOUS
  <2>10. DOMAIN move = Rank /\ move = [k \in Rank |-> move[k]]
    OBVIOUS
  <2> HIDE DEF move
  <2>11. Moves(move, i, j)
    <3>1. move \in [Rank -> Rank]
      BY <1>3, <2>8, <2>9, <2>10
    <3>2. ASSUME NEW k \in Rank PROVE \E l \in Rank : move[l] = k
      <4>1. CASE k \notin i .. j - 1
        BY <2>9, <4>1
      <4>2. CASE k \in i .. j - 1
        <5>1. (k - i) + 1 \in 1 .. N
          BY <2>8, <4>2
        <5>2. PICK q \in 1 .. N : at[q] = (k - i) + 1
          BY <2>7, <5>1
        <5> DEFINE l == i + q - 1
        <5>3. l \in i .. j - 1 /\ (l - i) + 1 = q
          BY <1>3, <2>1
        <5> HIDE DEF l
        <5>4. move[l] = (i + ((k - i) + 1)) - 1
          BY <2>8, <5>2, <5>3
        <5>5. move[l] = k
          BY <1>3, <4>2, <5>4
        <5> QED  BY <1>3, <5>3, <5>5
      <4> QED  BY <4>1, <4>2
    <3>3. ASSUME NEW k \in Rank, NEW l \in Rank, move[k] = move[l] PROVE k = l
      <4>1. CASE k \in i .. j - 1 /\ l \in i .. j - 1
        <5>1. at[(k - i) + 1] = at[(l - i) + 1]
          BY <2>8, <3>3, <4>1
        <5>2. (k - i) + 1 \in 1 .. N /\ (l - i) + 1 \in 1 .. N
          BY <2>8, <4>1
        <5>3. (k - i) + 1 = (l - i) + 1
          BY <2>7, <5>1, <5>2
        <5> QED  BY <1>3, <4>1, <5>3
      <4> QED  BY <2>8, <2>9, <3>3, <4>1
    <3> QED  BY <2>8, <2>9, <3>1, <3>2, <3>3 DEF Moves
  <2>12. SortGroup(i, j) = [k \in Rank |-> rows[move[k]]]
    <3>1. \A k \in Rank : (IF k \in i .. j - 1 THEN group[k - i + 1] ELSE rows[k]) = rows[move[k]]
      BY <2>8, <2>9
    <3> QED  BY <2>5, <3>1
  <2>13. ASSUME NEW k \in i .. j - 1, NEW l \in i .. j - 1, k < l
         PROVE  \/ Pts(rows[move[k]]) > Pts(rows[move[l]])
                \/ Pts(rows[move[k]]) = Pts(rows[move[l]]) /\ move[k] < move[l]
    <3> DEFINE p == (k - i) + 1
               q == (l - i) + 1
    <3>1. p \in 1 .. N /\ q \in 1 .. N /\ p < q
      BY <1>3, <2>8, <2>13
    <3>2. move[k] \in i .. j - 1 /\ move[l] \in i .. j - 1
          /\ at[p] = (move[k] - i) + 1 /\ at[q] = (move[l] - i) + 1
      BY <2>8
    <3> HIDE DEF p, q
    <3>3. s[at[p]] = rows[move[k]] /\ s[at[q]] = rows[move[l]]
      <4>1. at[p] \in 1 .. N /\ at[q] \in 1 .. N
        BY <2>7, <3>1
      <4>2. i + at[p] - 1 = move[k] /\ i + at[q] - 1 = move[l]
        BY <1>3, <3>2, <4>1
      <4> QED  BY <2>2, <4>1, <4>2
    <3>4. \/ h2h[s[at[p]]] > h2h[s[at[q]]]
          \/ h2h[s[at[p]]] = h2h[s[at[q]]] /\ at[p] < at[q]
      BY <2>6, <3>1
    <3>5. at[p] < at[q] => move[k] < move[l]
      BY <1>3, <3>2
    <3> QED  BY <2>4, <3>2, <3>3, <3>4, <3>5
  <2> QED  BY <1>5, <2>11, <2>12, <2>13
<1> QED  BY <1>4, <1>5

-------------------------------------------------------------------------------
(* The invariant holds *)

LEMMA InitOrder == Init => OrderInv
<1> SUFFICES ASSUME Init PROVE OrderInv
  OBVIOUS
<1> USE SizeTyped
<1>1. table \in [Team -> TableRow]
  <2>1. \A m \in PlayedIn(score) : score[m] \in Nat \X Nat
    BY ScoresTyped DEF Init, PlayedIn
  <2> QED  BY <2>1, CalculateTyped DEF Init
<1>2. query \in [Rank -> Team] /\ \A k, l \in Rank : k < l => query[k] # query[l]
  BY DEF Init, QueryOrders, Rank
<1>3. Lists(query)
  <2>1. \A k, l \in Rank : query[k] = query[l] => k = l
    BY <1>2 DEF Rank
  <2>2. query \in Injection(Rank, Team)
    BY <1>2, <2>1 DEF Injection, IsInjective
  <2>3. IsFiniteSet(Rank) /\ Cardinality(Rank) = Cardinality(Team)
    BY FS_Interval DEF Rank, Size
  <2>4. query \in Surjection(Rank, Team)
    BY <2>2, <2>3, SeasonFinite, FS_Injection
  <2> QED  BY <1>2, <2>1, <2>4 DEF Lists, Surjection
<1>4. PICK at : /\ Reorders(rows, query, at, Size)
                /\ \A p, q \in Rank : p < q =>
                      \/ Before(query[at[p]], query[at[q]])
                      \/ ~Before(query[at[q]], query[at[p]]) /\ at[p] < at[q]
  BY <1>1, <1>2, SortedBefore DEF Init, Rank
<1>5. /\ at \in [Rank -> Rank] /\ rows = [p \in Rank |-> query[at[p]]]
      /\ \A j \in Rank : \E p \in Rank : at[p] = j
      /\ \A p, q \in Rank : at[p] = at[q] => p = q
  BY <1>4 DEF Reorders, Rank
<1>6. Lists(rows)
  <2>1. rows \in [Rank -> Team]
    BY <1>2, <1>5
  <2>2. ASSUME NEW t \in Team PROVE \E k \in Rank : rows[k] = t
    <3>1. PICK j \in Rank : query[j] = t
      BY <1>3 DEF Lists
    <3>2. PICK p \in Rank : at[p] = j
      BY <1>5
    <3> QED  BY <1>5, <3>1, <3>2
  <2>3. \A k, l \in Rank : rows[k] = rows[l] => k = l
    BY <1>3, <1>5 DEF Lists
  <2> QED  BY <2>1, <2>2, <2>3 DEF Lists
<1>7. Descending(rows)
  <2> SUFFICES ASSUME NEW k \in Rank, NEW l \in Rank, k < l PROVE ~Before(rows[l], rows[k])
    BY DEF Descending
  <2>1. rows[k] \in Team /\ rows[l] \in Team
    BY <1>6 DEF Lists
  <2>2. Before(rows[k], rows[l]) \/ ~Before(rows[l], rows[k])
    BY <1>4, <1>5
  <2> QED  BY <1>1, <2>1, <2>2, Compare
<1>8. Waiting(rows, i)
  <2> SUFFICES ASSUME NEW k \in Rank, NEW l \in Rank, k < l, Equal(rows[k], rows[l])
               PROVE  Asked(rows[k]) < Asked(rows[l])
    BY DEF Waiting
  <2>1. rows[k] \in Team /\ rows[l] \in Team
    BY <1>6 DEF Lists
  <2>2. ~Before(rows[k], rows[l])
    BY <1>1, <2>1, Compare
  <2>3. at[k] < at[l]
    BY <1>4, <1>5, <2>2
  <2>4. Asked(rows[k]) = at[k] /\ Asked(rows[l]) = at[l]
    BY <1>3, <1>5, Positions DEF Asked
  <2> QED  BY <2>3, <2>4
<1>9. i \in 1 .. Size + 1 /\ Border(rows, i) /\ Scanned(rows, i)
  BY DEF Init, Border, Scanned, Rank
<1> QED  BY <1>1, <1>3, <1>6, <1>7, <1>8, <1>9 DEF OrderInv

LEMMA ScanKeepsOrder == OrderInv /\ ScanGroup => OrderInv'
<1> SUFFICES ASSUME OrderInv, ScanGroup PROVE OrderInv'
  OBVIOUS
<1> USE SizeTyped
<1> DEFINE j == GroupEnd(i)
<1>1. /\ table \in [Team -> TableRow] /\ Lists(rows) /\ Lists(query) /\ Descending(rows)
      /\ Border(rows, i) /\ Scanned(rows, i) /\ Waiting(rows, i) /\ i \in Rank
      /\ i \in 1 .. Size + 1
  BY DEF OrderInv, ScanGroup, Rank
<1>2. j \in i + 1 .. Size + 1 /\ \A k \in i .. j - 1 : Equal(rows[i], rows[k])
  BY <1>1, GroupEndIs
<1>3. i .. j - 1 \subseteq Rank /\ j \in Rank \cup {Size + 1} /\ i \in Nat /\ j \in 1 .. Size + 1
  BY <1>1, <1>2 DEF Rank
<1>4. Border(rows, j)
  <2>1. i \in i .. j - 1
    BY <1>2, <1>3
  <2> HIDE DEF j
  <2> QED  BY <1>3, <2>1, GroupIsTied DEF j
<1>5. PICK move : /\ Moves(move, i, j)
                  /\ (IF j - i > 1 THEN SortGroup(i, j) ELSE rows)
                       = [k \in Rank |-> rows[move[k]]]
                  /\ \A k, l \in i .. j - 1 : k < l =>
                        \/ Pts(rows[move[k]]) > Pts(rows[move[l]])
                        \/ Pts(rows[move[k]]) = Pts(rows[move[l]]) /\ move[k] < move[l]
  BY GroupMoves DEF ScanGroup
<1>6. /\ rows' = [k \in Rank |-> rows[move[k]]] /\ i' = j
      /\ score' = score /\ table' = table /\ query' = query
  BY <1>5 DEF ScanGroup
<1> HIDE DEF j
<1>7. /\ \A k \in Rank : move[k] \in Rank /\ rows'[k] = rows[move[k]] /\ rows[move[k]] \in Team
      /\ \A k \in Rank : IF k \in i .. j - 1 THEN move[k] \in i .. j - 1 ELSE move[k] = k
  BY <1>1, <1>5, <1>6 DEF Moves, Lists
<1>8. /\ \A a, b : Before(a, b)' <=> Before(a, b)
      /\ \A a, b : Equal(a, b)' <=> Equal(a, b)
      /\ \A a, b : Precedes(a, b)' <=> Precedes(a, b)
      /\ \A a : Asked(a)' = Asked(a)
  BY <1>6 DEF Before, Equal, Precedes, Asked, Pts
<1>9. Lists(rows)'
  <2>1. rows' \in [Rank -> Team]
    BY <1>6, <1>7
  <2>2. ASSUME NEW t \in Team PROVE \E k \in Rank : rows'[k] = t
    <3>1. PICK l \in Rank : rows[l] = t
      BY <1>1 DEF Lists
    <3>2. PICK k \in Rank : move[k] = l
      BY <1>5 DEF Moves
    <3> QED  BY <1>7, <3>1, <3>2
  <2>3. ASSUME NEW k \in Rank, NEW l \in Rank, rows'[k] = rows'[l] PROVE k = l
    <3>1. rows[move[k]] = rows[move[l]]
      BY <1>7, <2>3
    <3>2. move[k] = move[l]
      BY <1>1, <1>7, <3>1 DEF Lists
    <3> QED  BY <1>5, <3>2 DEF Moves
  <2> QED  BY <2>1, <2>2, <2>3 DEF Lists
<1>10. Descending(rows)'
  <2> SUFFICES ASSUME NEW k \in Rank, NEW l \in Rank, k < l
               PROVE  ~Before(rows[move[l]], rows[move[k]])
    BY <1>7, <1>8 DEF Descending
  <2>1. CASE move[k] < move[l]
    BY <1>1, <1>7, <2>1 DEF Descending
  <2>2. CASE ~(move[k] < move[l])
    <3>1. k \in i .. j - 1 /\ l \in i .. j - 1
      BY <1>3, <1>7, <2>2 DEF Rank
    <3>2. Equal(rows[move[l]], rows[move[k]])
      BY <1>2, <1>7, <3>1 DEF Equal, PrimaryEqual
    <3> QED  BY <1>1, <1>7, <3>2, Compare
  <2> QED  BY <2>1, <2>2
<1>11. Border(rows, i)'
  <2> SUFFICES ASSUME j \in 2 .. Size PROVE ~Equal(rows[move[j - 1]], rows[move[j]])
    BY <1>6, <1>7, <1>8 DEF Border, Rank
  <2>1. /\ j - 1 \in Rank /\ j \in Rank /\ move[j] = j /\ move[j - 1] \in i .. j - 1
    BY <1>2, <1>3, <1>7 DEF Rank
  <2> QED  BY <1>1, <1>3, <1>4, <1>7, <2>1, Separated
<1>12. Scanned(rows, i)'
  <2> SUFFICES ASSUME NEW k \in Rank, NEW l \in Rank, k < l, l < j,
                      Equal(rows[move[k]], rows[move[l]])
               PROVE  Precedes(rows[move[k]], rows[move[l]])
    BY <1>6, <1>7, <1>8 DEF Scanned
  <2>1. CASE l < i
    <3>1. move[k] = k /\ move[l] = l
      BY <1>3, <1>7, <2>1 DEF Rank
    <3> QED  BY <1>1, <2>1, <3>1 DEF Scanned
  <2>2. CASE k < i /\ i <= l
    <3>1. move[k] = k /\ move[l] \in i .. j - 1
      BY <1>3, <1>7, <2>2 DEF Rank
    <3> QED  BY <1>1, <1>3, <1>7, <2>2, <3>1, Separated
  <2>3. CASE i <= k
    <3>1. k \in i .. j - 1 /\ l \in i .. j - 1
      BY <1>3, <2>3 DEF Rank
    <3>2. \/ Pts(rows[move[k]]) > Pts(rows[move[l]])
          \/ Pts(rows[move[k]]) = Pts(rows[move[l]]) /\ move[k] < move[l]
      BY <1>5, <3>1
    <3>3. move[k] < move[l] => Asked(rows[move[k]]) < Asked(rows[move[l]])
      <4>1. move[k] \in i .. j - 1 /\ move[k] \in Rank /\ move[l] \in Rank
        BY <1>7, <3>1
      <4>2. i <= move[k]
        BY <1>3, <4>1
      <4> QED  BY <1>1, <4>1, <4>2 DEF Waiting
    <3> QED  BY <3>2, <3>3 DEF Precedes
  <2> QED  BY <1>3, <2>1, <2>2, <2>3 DEF Rank
<1>13. Waiting(rows, i)'
  <2> SUFFICES ASSUME NEW k \in Rank, NEW l \in Rank, j <= k, k < l,
                      Equal(rows[move[k]], rows[move[l]])
               PROVE  Asked(rows[move[k]]) < Asked(rows[move[l]])
    BY <1>6, <1>7, <1>8 DEF Waiting
  <2>1. move[k] = k /\ move[l] = l /\ i <= k
    BY <1>2, <1>3, <1>7 DEF Rank
  <2> QED  BY <1>1, <2>1 DEF Waiting
<1> QED  BY <1>1, <1>3, <1>6, <1>9, <1>10, <1>11, <1>12, <1>13 DEF OrderInv, Lists

\* The invariant of the scan.
THEOREM OrderInvariant == Spec => []OrderInv
<1>1. OrderInv /\ UNCHANGED vars => OrderInv'
  BY DEF OrderInv, vars, Lists, Descending, Border, Scanned, Waiting, Before, Equal,
         Precedes, Asked, Pts, Rank
<1> QED  BY <1>1, InitOrder, ScanKeepsOrder, PTL DEF Spec

-------------------------------------------------------------------------------
(* The order of the table *)

\* The rules that place a above b.
LEMMA AboveIs ==
    ASSUME table \in [Team -> TableRow], NEW a \in Team, NEW b \in Team
    PROVE  /\ Above(Keys, a, b) => Before(a, b) \/ (Equal(a, b) /\ Pts(a) > Pts(b))
           /\ Keys[a] = Keys[b] => Equal(a, b) /\ Pts(a) = Pts(b)
<1> DEFINE K(t) == <<table[t].points, GoalDifference(table[t]), table[t].goalsFor, Pts(t)>>
<1>1. Keys[a] = K(a) /\ Keys[b] = K(b)
  BY KeysAre
<1>2. Keys[a] = Keys[b] => Equal(a, b) /\ Pts(a) = Pts(b)
  BY <1>1 DEF Equal, PrimaryEqual
<1>3. ASSUME Above(Keys, a, b) PROVE Before(a, b) \/ (Equal(a, b) /\ Pts(a) > Pts(b))
  <2>1. PICK k \in 1 .. 4 : /\ K(a)[k] > K(b)[k]
                            /\ \A l \in 1 .. k - 1 : K(a)[l] = K(b)[l]
    BY <1>1, <1>3 DEF Above
  <2>2. CASE k = 1
    BY <2>1, <2>2 DEF Before, PrimaryLess
  <2>3. CASE k = 2
    BY <2>1, <2>3 DEF Before, PrimaryLess
  <2>4. CASE k = 3
    BY <2>1, <2>4 DEF Before, PrimaryLess
  <2>5. CASE k = 4
    BY <2>1, <2>5 DEF Equal, PrimaryEqual
  <2> QED  BY <2>2, <2>3, <2>4, <2>5
<1> QED  BY <1>2, <1>3

\* When the scan is over the table obeys the ranking rules, and at every step it
\* holds each team once: SortWithHeadToHead, for any number of teams and matches.
THEOREM TableFollowsTheRules == Spec => []RankedByRules
<1>1. ASSUME OrderInv PROVE RankedByRules
  <2> USE SizeTyped
  <2>1. Lists(rows) /\ table \in [Team -> TableRow] /\ Descending(rows)
    BY <1>1 DEF OrderInv
  <2>2. {rows[k] : k \in 1 .. Size} = Team
    BY <2>1 DEF Lists, Rank
  <2>3. ASSUME Done, NEW a \in Team, NEW b \in Team, Above(Keys, a, b)
        PROVE  Position(rows, a) < Position(rows, b)
    <3> DEFINE p == Position(rows, a)
               q == Position(rows, b)
    <3>1. p \in Rank /\ q \in Rank /\ rows[p] = a /\ rows[q] = b
      BY <2>1, Positions
    <3> HIDE DEF p, q
    <3>2. Before(a, b) \/ (Equal(a, b) /\ Pts(a) > Pts(b))
      BY <2>1, <2>3, AboveIs
    <3>3. Pts(a) \in Nat /\ Pts(b) \in Nat
      BY TookTyped DEF Pts
    <3>4. p # q
      BY <2>1, <3>1, <3>2, <3>3, Compare
    <3>5. ASSUME q < p PROVE FALSE
      <4>1. ~Before(a, b)
        BY <2>1, <3>1, <3>5 DEF Descending
      <4>2. Equal(b, a) /\ Pts(a) > Pts(b)
        BY <3>2, <4>1 DEF Equal, PrimaryEqual
      <4>3. p < i
        BY <1>1, <2>3, <3>1 DEF OrderInv, Done, Rank
      <4>4. Precedes(b, a)
        BY <1>1, <3>1, <3>5, <4>2, <4>3 DEF OrderInv, Scanned
      <4> QED  BY <3>3, <4>2, <4>4 DEF Precedes
    <3>6. p < q
      BY <3>1, <3>4, <3>5 DEF Rank
    <3> QED  BY <3>6 DEF p, q
  <2> QED  BY <2>2, <2>3 DEF RankedByRules
<1> QED  BY <1>1, OrderInvariant, PTL

\* Teams that the rules cannot separate stay in the order of the query: the sort
\* of SortWithHeadToHead and the sort of a group are both stable.
THEOREM InseparableTeamsStay == Spec => []TiesKeepTheirOrder
<1>1. ASSUME OrderInv PROVE TiesKeepTheirOrder
  <2> USE SizeTyped
  <2> SUFFICES ASSUME Done, NEW a \in Team, NEW b \in Team, Keys[a] = Keys[b],
                      Position(query, a) < Position(query, b)
               PROVE  Position(rows, a) < Position(rows, b)
    BY DEF TiesKeepTheirOrder
  <2>1. Lists(rows) /\ Lists(query) /\ table \in [Team -> TableRow]
    BY <1>1 DEF OrderInv
  <2> DEFINE p == Position(rows, a)
             q == Position(rows, b)
  <2>2. p \in Rank /\ q \in Rank /\ rows[p] = a /\ rows[q] = b
    BY <2>1, Positions
  <2>3. Asked(a) \in Rank /\ Asked(b) \in Rank /\ Asked(a) < Asked(b)
    BY <2>1, Positions DEF Asked
  <2> HIDE DEF p, q
  <2>4. Equal(b, a) /\ Pts(a) = Pts(b) /\ Pts(a) \in Nat
    <3>1. Equal(a, b) /\ Pts(a) = Pts(b)
      BY <2>1, AboveIs
    <3>2. Pts(a) \in Nat
      BY TookTyped DEF Pts
    <3> QED  BY <3>1, <3>2 DEF Equal, PrimaryEqual
  <2>5. ASSUME q < p PROVE FALSE
    <3>1. p < i
      BY <1>1, <2>2 DEF OrderInv, Done, Rank
    <3>2. Precedes(b, a)
      BY <1>1, <2>2, <2>4, <2>5, <3>1 DEF OrderInv, Scanned
    <3> QED  BY <2>3, <2>4, <3>2 DEF Precedes, Rank
  <2>6. p # q
    BY <2>2, <2>3 DEF Rank
  <2>7. p < q
    BY <2>2, <2>5, <2>6 DEF Rank
  <2> QED  BY <2>7 DEF p, q
<1> QED  BY <1>1, OrderInvariant, PTL
===============================================================================
