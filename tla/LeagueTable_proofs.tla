-------------------------- MODULE LeagueTable_proofs --------------------------
(***************************************************************************)
(* What the folds of the league table compute, by induction over finite    *)
(* sets.  The induction lemmas are stated about a set of good values, not  *)
(* about a predicate, so that every prover can use them.                   *)
(***************************************************************************)
EXTENDS LeagueTable, FiniteSetTheorems, TLAPS

\* The row of a team: all its figures are counts.
TableRow == [played : Nat, won : Nat, drawn : Nat, lost : Nat,
        goalsFor : Nat, goalsAgainst : Nat, points : Nat]

-------------------------------------------------------------------------------
(* Induction and recursion *)

LEMMA SetInduction ==
    ASSUME NEW P, 0 \in P, \A k \in Nat : k \in P => k + 1 \in P
    PROVE  Nat \subseteq P
<1> DEFINE R == OpToRel(<, Nat)
<1>1. IsWellFoundedOn(R, Nat)
  BY NatLessThanWellFounded, Zenon
<1>2. \A x, y \in Nat : x < y => <<x, y>> \in R
  BY DEF OpToRel
<1> HIDE DEF R
<1>3. SUFFICES ASSUME Nat \ P # {} PROVE FALSE
  OBVIOUS
<1>4. PICK x \in Nat \ P : \A y \in Nat \ P : ~ (<<y, x>> \in R)
  BY <1>1, <1>3, WFMin, Zenon
<1>5. x - 1 \in Nat \ P
  BY <1>4
<1>6. x - 1 < x
  OBVIOUS
<1> QED  BY <1>2, <1>4, <1>5, <1>6

\* What holds of the empty set and of every set when it holds of that set
\* without its chosen element, holds of every finite set.
LEMMA SubsetInduction ==
    ASSUME NEW S, IsFiniteSet(S), NEW P, {} \in P,
           \A T \in SUBSET S : T # {} /\ T \ {CHOOSE y \in T : TRUE} \in P => T \in P
    PROVE  SUBSET S \subseteq P
<1> DEFINE Good(k) == \A T \in SUBSET S : Cardinality(T) = k => T \in P
           Q == {k \in Nat : Good(k)}
<1>1. \A T \in SUBSET S : IsFiniteSet(T) /\ Cardinality(T) \in Nat
  BY FS_Subset, FS_CardinalityType
<1>2. Good(0)
  BY <1>1, FS_EmptySet
<1>3. ASSUME NEW k \in Nat, Good(k) PROVE Good(k + 1)
  <2> SUFFICES ASSUME NEW T \in SUBSET S, Cardinality(T) = k + 1 PROVE T \in P
    OBVIOUS
  <2> DEFINE x == CHOOSE y \in T : TRUE
  <2>1. T # {}
    <3>1. T = {} => Cardinality(T) = 0
      BY FS_EmptySet, Zenon
    <3> QED  BY <3>1
  <2>2. x \in T
    BY <2>1
  <2> HIDE DEF x
  <2>3. Cardinality(T \ {x}) = k
    <3>1. IsFiniteSet(T)
      BY <1>1
    <3>2. Cardinality(T \ {x}) = Cardinality(T) - 1
      BY <2>2, <3>1, FS_RemoveElement
    <3> QED  BY <3>2
  <2>4. T \ {x} \in P
    BY <1>3, <2>3
  <2> QED  BY <2>1, <2>4 DEF x
<1>4. Nat \subseteq Q
  <2>1. 0 \in Q
    BY <1>2
  <2>2. \A k \in Nat : k \in Q => k + 1 \in Q
    <3> HIDE DEF Good
    <3> QED  BY <1>3
  <2> HIDE DEF Q
  <2> QED  BY <2>1, <2>2, SetInduction
<1> QED  BY <1>1, <1>4

\* A fold over a finite set is defined: step[<<x, a>>] folds x into a.
Folds(iter, S, base, step) ==
    iter = [s \in SUBSET S |-> IF s = {} THEN base
                               ELSE step[<<CHOOSE y \in s : TRUE,
                                           iter[s \ {CHOOSE y \in s : TRUE}]>>]]

LEMMA FoldExists ==
    ASSUME NEW S, IsFiniteSet(S), NEW D, NEW base \in D, NEW step \in [S \X D -> D]
    PROVE  \E iter \in [SUBSET S -> D] : Folds(iter, S, base, step)
<1> DEFINE Small(k) == {s \in SUBSET S : Cardinality(s) <= k}
           least(s) == CHOOSE y \in s : TRUE
           Value(f, s) == IF s = {} THEN base ELSE step[<<least(s), f[s \ {least(s)}]>>]
           Good(f, k) == f \in [Small(k) -> D] /\ \A s \in Small(k) : f[s] = Value(f, s)
           Q == {k \in Nat : \E f : Good(f, k)}
<1>1. \A s \in SUBSET S : IsFiniteSet(s) /\ Cardinality(s) \in Nat
  BY FS_Subset, FS_CardinalityType
<1>2. \A s \in SUBSET S : s # {} =>
          /\ least(s) \in s /\ s \ {least(s)} \in SUBSET S
          /\ Cardinality(s \ {least(s)}) = Cardinality(s) - 1
  BY <1>1, FS_RemoveElement
<1> HIDE DEF least
<1>3. Good([s \in Small(0) |-> base], 0)
  BY <1>1, FS_EmptySet
<1>4. ASSUME NEW k \in Nat, NEW f, Good(f, k) PROVE \E g : Good(g, k + 1)
  <2> DEFINE g == [s \in Small(k + 1) |-> IF s \in Small(k) THEN f[s] ELSE Value(f, s)]
  <2>1. ASSUME NEW s \in Small(k + 1), s # {} PROVE s \ {least(s)} \in Small(k)
    BY <1>1, <1>2, <2>1
  <2>2. \A s \in Small(k + 1) : s # {} => g[s \ {least(s)}] = f[s \ {least(s)}]
    <3>1. \A s \in Small(k) : s \in Small(k + 1)
      BY <1>1
    <3> HIDE DEF Small, Value
    <3> QED  BY <2>1, <3>1
  <2>3. ASSUME NEW s \in Small(k + 1) PROVE Value(f, s) \in D
    <3>1. CASE s = {}
      BY <3>1
    <3>2. CASE s # {}
      <4>1. f[s \ {least(s)}] \in D
        BY <1>4, <2>1, <3>2
      <4>2. <<least(s), f[s \ {least(s)}]>> \in S \X D
        BY <1>2, <3>2, <4>1
      <4> QED  BY <3>2, <4>2
    <3> QED  BY <3>1, <3>2
  <2>4. \A s \in Small(k + 1) : g[s] = Value(f, s)
    <3> HIDE DEF Small, Value
    <3> QED  BY <1>4
  <2>5. \A s \in Small(k + 1) : Value(g, s) = Value(f, s)
    <3> HIDE DEF g, Small
    <3> QED  BY <2>2
  <2>6. g \in [Small(k + 1) -> D]
    <3>1. \A s \in Small(k + 1) : g[s] \in D
      <4> HIDE DEF g, Value, Small
      <4> QED  BY <2>3, <2>4
    <3> HIDE DEF Small, Value
    <3> QED  BY <3>1
  <2> HIDE DEF g, Value
  <2>7. Good(g, k + 1)
    BY <2>4, <2>5, <2>6
  <2> QED  BY <2>7
<1>5. Nat \subseteq Q
  <2>1. 0 \in Q
    <3> HIDE DEF Good
    <3> QED  BY <1>3
  <2>2. \A k \in Nat : k \in Q => k + 1 \in Q
    <3> HIDE DEF Good
    <3> QED  BY <1>4
  <2> HIDE DEF Q
  <2> QED  BY <2>1, <2>2, SetInduction
<1>6. PICK f : Good(f, Cardinality(S))
  <2>1. Cardinality(S) \in Nat
    BY FS_CardinalityType
  <2> HIDE DEF Good
  <2> QED  BY <1>5, <2>1
<1>7. Small(Cardinality(S)) = SUBSET S
  BY FS_Subset
<1>8. f \in [SUBSET S -> D] /\ \A s \in SUBSET S : f[s] = Value(f, s)
  BY <1>6, <1>7
<1>9. f = [s \in SUBSET S |-> Value(f, s)]
  <2> HIDE DEF Value
  <2> QED  BY <1>8
<1> QED  BY <1>8, <1>9 DEF Folds, least

-------------------------------------------------------------------------------
(* Calculate *)

\* What a match adds to the row of one of its teams.
LEMMA CreditIs ==
    ASSUME NEW row \in TableRow, NEW gf, NEW ga
    PROVE  LET new == Credit(row, gf, ga)
           IN  /\ new.played = row.played + 1
               /\ new.won = IF gf > ga THEN row.won + 1 ELSE row.won
               /\ new.drawn = IF gf = ga THEN row.drawn + 1 ELSE row.drawn
               /\ new.lost = IF gf < ga THEN row.lost + 1 ELSE row.lost
               /\ new.goalsFor = row.goalsFor + gf
               /\ new.goalsAgainst = row.goalsAgainst + ga
               /\ new.points = IF gf > ga THEN row.points + 3
                              ELSE IF gf = ga THEN row.points + 1 ELSE row.points
BY DEF Credit, TableRow

LEMMA CreditTyped ==
    ASSUME NEW row \in TableRow, NEW gf \in Nat, NEW ga \in Nat
    PROVE  Credit(row, gf, ga) \in TableRow
<1> DEFINE won == IF gf > ga THEN row.won + 1 ELSE row.won
           drawn == IF gf = ga THEN row.drawn + 1 ELSE row.drawn
           lost == IF gf < ga THEN row.lost + 1 ELSE row.lost
           points == IF gf > ga THEN row.points + 3
                     ELSE IF gf = ga THEN row.points + 1 ELSE row.points
<1>1. /\ row.played + 1 \in Nat /\ row.goalsFor + gf \in Nat /\ row.goalsAgainst + ga \in Nat
      /\ won \in Nat /\ drawn \in Nat /\ lost \in Nat /\ points \in Nat
  BY DEF TableRow
<1>2. Credit(row, gf, ga)
         = [row EXCEPT !.played = row.played + 1, !.goalsFor = row.goalsFor + gf,
                       !.goalsAgainst = row.goalsAgainst + ga,
                       !.won = won, !.drawn = drawn, !.lost = lost, !.points = points]
  BY Zenon DEF Credit, TableRow
<1> HIDE DEF won, drawn, lost, points
<1>3. [row EXCEPT !.played = row.played + 1, !.goalsFor = row.goalsFor + gf,
                       !.goalsAgainst = row.goalsAgainst + ga,
                       !.won = won, !.drawn = drawn, !.lost = lost, !.points = points] \in TableRow
  BY <1>1 DEF TableRow
<1> QED  BY <1>2, <1>3

LEMMA ApplyMatchRows ==
    ASSUME NEW table \in [Team -> TableRow], NEW home \in Team, NEW away \in Team, home # away,
           NEW goals, NEW t \in Team
    PROVE  ApplyMatch(table, home, away, goals)[t]
             = IF t = home THEN Credit(table[t], goals[1], goals[2])
               ELSE IF t = away THEN Credit(table[t], goals[2], goals[1]) ELSE table[t]
BY DEF ApplyMatch

LEMMA ApplyMatchTyped ==
    ASSUME NEW table \in [Team -> TableRow], NEW home \in Team, NEW away \in Team, home # away,
           NEW goals \in Nat \X Nat
    PROVE  ApplyMatch(table, home, away, goals) \in [Team -> TableRow]
<1> DEFINE new == ApplyMatch(table, home, away, goals)
<1>1. goals[1] \in Nat /\ goals[2] \in Nat
  OBVIOUS
<1>2. ASSUME NEW t \in Team PROVE new[t] \in TableRow
  <2>1. Credit(table[t], goals[1], goals[2]) \in TableRow
    BY <1>1, CreditTyped
  <2>2. Credit(table[t], goals[2], goals[1]) \in TableRow
    BY <1>1, CreditTyped
  <2> QED  BY <2>1, <2>2, ApplyMatchRows
<1>3. new = [t \in Team |-> new[t]]
  BY DEF ApplyMatch
<1> HIDE DEF new
<1>4. new \in [Team -> TableRow]
  BY <1>2, <1>3
<1> QED  BY <1>4 DEF new

\* The fold of Calculate, with a table for every set of matches.
LEMMA CalculateFolds ==
    ASSUME NEW score, \A m \in PlayedIn(score) : score[m] \in Nat \X Nat
    PROVE  \E iter \in [SUBSET PlayedIn(score) -> [Team -> TableRow]] :
              /\ Calculate(score) = iter[PlayedIn(score)]
              /\ iter[{}] = ZeroTable
              /\ \A s \in SUBSET PlayedIn(score) : s # {} =>
                    LET m == CHOOSE y \in s : TRUE
                    IN  iter[s] = ApplyMatch(iter[s \ {m}], Home[m], Away[m], score[m])
<1> DEFINE S == PlayedIn(score)
           D == [Team -> TableRow]
           step == [a \in S \X D |-> ApplyMatch(a[2], Home[a[1]], Away[a[1]], score[a[1]])]
           R(f) == [s \in SUBSET S |->
                      IF s = {} THEN ZeroTable
                      ELSE LET x == CHOOSE y \in s : TRUE
                           IN  ApplyMatch(f[s \ {x}], Home[x], Away[x], score[x])]
           iter == CHOOSE f : f = R(f)
<1>1. Calculate(score) = iter[S]
  BY Zenon DEF Calculate, FoldSet, MapThenFoldSet
<1>2. S \subseteq Match /\ IsFiniteSet(S)
  BY SeasonFinite, FS_Subset DEF PlayedIn
<1>3. step \in [S \X D -> D]
  <2> SUFFICES ASSUME NEW a \in S \X D
               PROVE  ApplyMatch(a[2], Home[a[1]], Away[a[1]], score[a[1]]) \in D
    BY Zenon
  <2>1. a[1] \in S /\ a[2] \in D
    OBVIOUS
  <2> QED  BY <1>2, <2>1, ScheduleTyped, NobodyPlaysThemselves, ApplyMatchTyped
<1>4. ZeroTable \in D
  BY DEF ZeroTable, ZeroRow, TableRow
<1> HIDE DEF D
<1>5. PICK g \in [SUBSET S -> D] : Folds(g, S, ZeroTable, step)
  BY <1>2, <1>3, <1>4, FoldExists
<1>6. \A s \in SUBSET S : s # {} => (CHOOSE y \in s : TRUE) \in s
  OBVIOUS
<1>7. g = R(g)
  <2> DEFINE new(s) == CHOOSE y \in s : TRUE
             A(s) == IF s = {} THEN ZeroTable ELSE step[<<new(s), g[s \ {new(s)}]>>]
             B(s) == IF s = {} THEN ZeroTable
                     ELSE ApplyMatch(g[s \ {new(s)}], Home[new(s)], Away[new(s)], score[new(s)])
  <2>1. ASSUME NEW s \in SUBSET S PROVE A(s) = B(s)
    <3>1. CASE s = {}
      BY <3>1
    <3>2. CASE s # {}
      <4>1. new(s) \in S /\ s \ {new(s)} \in SUBSET S
        BY <1>6, <3>2
      <4> HIDE DEF S, new
      <4>2. <<new(s), g[s \ {new(s)}]>> \in S \X D
        BY <4>1
      <4> QED  BY <3>2, <4>2
    <3> QED  BY <3>1, <3>2
  <2>2. g = [s \in SUBSET S |-> A(s)]
    BY <1>5 DEF Folds
  <2> HIDE DEF A, B
  <2>3. g = [s \in SUBSET S |-> B(s)]
    BY <2>1, <2>2
  <2> QED  BY <2>3 DEF B
<1> HIDE DEF R
<1>8. iter = R(iter)
  BY <1>7
<1>9. \A s \in SUBSET S : iter[s] = IF s = {} THEN ZeroTable
                                    ELSE LET x == CHOOSE y \in s : TRUE
                                         IN  ApplyMatch(iter[s \ {x}], Home[x], Away[x], score[x])
  <2> DEFINE B(s) == IF s = {} THEN ZeroTable
                     ELSE LET x == CHOOSE y \in s : TRUE
                          IN  ApplyMatch(iter[s \ {x}], Home[x], Away[x], score[x])
  <2>1. iter = [s \in SUBSET S |-> B(s)]
    BY <1>8 DEF R
  <2> HIDE DEF B, iter
  <2>2. \A s \in SUBSET S : iter[s] = B(s)
    BY <2>1
  <2> QED  BY <2>2 DEF B
<1>10. DOMAIN iter = SUBSET S /\ iter = [s \in SUBSET S |-> iter[s]]
  <2> DEFINE B(s) == IF s = {} THEN ZeroTable
                     ELSE LET x == CHOOSE y \in s : TRUE
                          IN  ApplyMatch(iter[s \ {x}], Home[x], Away[x], score[x])
  <2>1. iter = [s \in SUBSET S |-> B(s)]
    BY <1>8 DEF R
  <2> HIDE DEF B, iter
  <2> QED  BY <2>1
<1> HIDE DEF iter
<1>11. SUBSET S \subseteq {s \in SUBSET S : iter[s] \in D}
  <2> DEFINE P == {s \in SUBSET S : iter[s] \in D}
  <2>1. {} \in P
    BY <1>4, <1>9
  <2>2. ASSUME NEW s \in SUBSET S, s # {}, s \ {CHOOSE y \in s : TRUE} \in P PROVE s \in P
    <3> SUFFICES iter[s] \in D
      OBVIOUS
    <3> DEFINE x == CHOOSE y \in s : TRUE
    <3>1. x \in S
      BY <1>6, <2>2
    <3>2. iter[s] = ApplyMatch(iter[s \ {x}], Home[x], Away[x], score[x])
      BY <1>9, <2>2
    <3>3. iter[s \ {x}] \in [Team -> TableRow]
      BY <2>2 DEF D
    <3>4. Home[x] \in Team /\ Away[x] \in Team /\ score[x] \in Nat \X Nat
          /\ Home[x] # Away[x]
      BY <1>2, <3>1, ScheduleTyped, NobodyPlaysThemselves
    <3> HIDE DEF x
    <3>5. ApplyMatch(iter[s \ {x}], Home[x], Away[x], score[x]) \in [Team -> TableRow]
      BY <3>3, <3>4, ApplyMatchTyped
    <3> QED  BY <3>2, <3>5 DEF D
  <2> HIDE DEF P
  <2>3. SUBSET S \subseteq P
    BY <1>2, <2>1, <2>2, SubsetInduction
  <2> QED  BY <2>3 DEF P
<1>12. iter \in [SUBSET S -> D]
  BY <1>10, <1>11
<1> QED  BY <1>1, <1>9, <1>12 DEF D

LEMMA CalculateTyped ==
    ASSUME NEW score, \A m \in PlayedIn(score) : score[m] \in Nat \X Nat
    PROVE  Calculate(score) \in [Team -> TableRow]
<1>1. PICK iter \in [SUBSET PlayedIn(score) -> [Team -> TableRow]] :
          Calculate(score) = iter[PlayedIn(score)]
  BY CalculateFolds
<1> QED  BY <1>1

-------------------------------------------------------------------------------
(* The primary order of the rows is a strict weak order *)

LEMMA PrimaryOrder ==
    ASSUME NEW a \in TableRow, NEW b \in TableRow, NEW c \in TableRow
    PROVE  /\ ~PrimaryLess(a, a)
           /\ PrimaryLess(a, b) /\ PrimaryLess(b, c) => PrimaryLess(a, c)
           /\ PrimaryLess(a, b) => PrimaryLess(a, c) \/ PrimaryLess(c, b)
           /\ PrimaryEqual(a, b) <=> ~PrimaryLess(a, b) /\ ~PrimaryLess(b, a)
BY DEF PrimaryLess, PrimaryEqual, GoalDifference, TableRow

-------------------------------------------------------------------------------
(* Sums *)

Sum(f, S) == MapThenSumSet(LAMBDA x : f[x], S)

\* The fold of a sum, with a sum for every subset.
Sums(sum, f, S) ==
    /\ sum \in [SUBSET S -> Nat]
    /\ Sum(f, S) = sum[S]
    /\ sum[{}] = 0
    /\ \A s \in SUBSET S : s # {} =>
          LET x == CHOOSE y \in s : TRUE IN sum[s] = f[x] + sum[s \ {x}]

LEMMA SumFolds ==
    ASSUME NEW S, IsFiniteSet(S), NEW f \in [S -> Nat]
    PROVE  \E sum : Sums(sum, f, S)
<1> DEFINE step == [a \in S \X Nat |-> f[a[1]] + a[2]]
           R(g) == [s \in SUBSET S |->
                      IF s = {} THEN 0
                      ELSE LET x == CHOOSE y \in s : TRUE IN f[x] + g[s \ {x}]]
           iter == CHOOSE g : g = R(g)
<1>1. Sum(f, S) = iter[S]
  BY Zenon DEF Sum, MapThenSumSet, MapThenFoldSet
<1>2. step \in [S \X Nat -> Nat]
  OBVIOUS
<1>3. PICK g \in [SUBSET S -> Nat] : Folds(g, S, 0, step)
  BY <1>2, FoldExists
<1>4. \A s \in SUBSET S : s # {} => (CHOOSE y \in s : TRUE) \in s
  OBVIOUS
<1>5. g = R(g)
  <2> DEFINE new(s) == CHOOSE y \in s : TRUE
             A(s) == IF s = {} THEN 0 ELSE step[<<new(s), g[s \ {new(s)}]>>]
             B(s) == IF s = {} THEN 0 ELSE f[new(s)] + g[s \ {new(s)}]
  <2>1. ASSUME NEW s \in SUBSET S PROVE A(s) = B(s)
    <3>1. CASE s = {}
      BY <3>1
    <3>2. CASE s # {}
      <4>1. new(s) \in S /\ s \ {new(s)} \in SUBSET S
        BY <1>4, <3>2
      <4> HIDE DEF new
      <4>2. <<new(s), g[s \ {new(s)}]>> \in S \X Nat
        BY <4>1
      <4> QED  BY <3>2, <4>2
    <3> QED  BY <3>1, <3>2
  <2>2. g = [s \in SUBSET S |-> A(s)]
    BY <1>3 DEF Folds
  <2> HIDE DEF A, B
  <2>3. g = [s \in SUBSET S |-> B(s)]
    BY <2>1, <2>2
  <2> QED  BY <2>3 DEF B
<1> HIDE DEF R
<1>6. iter = R(iter)
  BY <1>5
<1> DEFINE B(s) == IF s = {} THEN 0
                   ELSE LET x == CHOOSE y \in s : TRUE IN f[x] + iter[s \ {x}]
<1>7. iter = [s \in SUBSET S |-> B(s)]
  BY <1>6 DEF R
<1> HIDE DEF iter
<1>8. \A s \in SUBSET S : iter[s] = B(s)
  <2> HIDE DEF B
  <2> QED  BY <1>7
<1>9. DOMAIN iter = SUBSET S /\ iter = [s \in SUBSET S |-> iter[s]]
  BY <1>7
<1>10. SUBSET S \subseteq {s \in SUBSET S : iter[s] \in Nat}
  <2> DEFINE P == {s \in SUBSET S : iter[s] \in Nat}
  <2>1. {} \in P
    <3>1. {} \in SUBSET S /\ B({}) = 0
      OBVIOUS
    <3> HIDE DEF B
    <3> QED  BY <1>8, <3>1
  <2>2. ASSUME NEW s \in SUBSET S, s # {}, s \ {CHOOSE y \in s : TRUE} \in P PROVE s \in P
    BY <1>4, <1>8, <2>2
  <2> HIDE DEF P
  <2>3. SUBSET S \subseteq P
    BY <2>1, <2>2, SubsetInduction
  <2> QED  BY <2>3 DEF P
<1>11. iter \in [SUBSET S -> Nat]
  BY <1>9, <1>10
<1> QED  BY <1>1, <1>8, <1>11 DEF Sums

LEMMA SumTyped ==
    ASSUME NEW S, IsFiniteSet(S), NEW f \in [S -> Nat]
    PROVE  Sum(f, S) \in Nat
<1>1. PICK sum : Sums(sum, f, S)
  BY SumFolds
<1> QED  BY <1>1 DEF Sums

\* Nothing sums up to nothing.
LEMMA SumOfZeros ==
    ASSUME NEW S, IsFiniteSet(S)
    PROVE  Sum([y \in S |-> 0], S) = 0
<1> DEFINE f == [y \in S |-> 0]
<1>1. f \in [S -> Nat] /\ \A x \in S : f[x] = 0
  OBVIOUS
<1> HIDE DEF f
<1>2. PICK sum : Sums(sum, f, S)
  BY <1>1, SumFolds
<1> DEFINE P == {s \in SUBSET S : sum[s] = 0}
<1>3. {} \in P
  BY <1>2 DEF Sums
<1>4. ASSUME NEW s \in SUBSET S, s # {}, s \ {CHOOSE y \in s : TRUE} \in P PROVE s \in P
  BY <1>1, <1>2, <1>4 DEF Sums
<1> HIDE DEF P
<1>5. SUBSET S \subseteq P
  BY <1>3, <1>4, SubsetInduction
<1> QED  BY <1>2, <1>5 DEF P, f, Sums

\* The same amount more for some of them is that amount for each more in all.
LEMMA SumOfMore ==
    ASSUME NEW S, IsFiniteSet(S), NEW f \in [S -> Nat], NEW L \in SUBSET S, NEW c \in Nat,
           NEW g \in [S -> Nat], \A x \in S : g[x] = IF x \in L THEN f[x] + c ELSE f[x]
    PROVE  Sum(g, S)
             = Sum(f, S) + c * Cardinality(L)
<1>1. PICK sum : Sums(sum, f, S)
  BY SumFolds
<1>2. PICK more : Sums(more, g, S)
  BY SumFolds
<1> DEFINE P == {s \in SUBSET S : more[s] = sum[s] + c * Cardinality(s \cap L)}
<1>3. {} \in P
  <2>1. Cardinality({} \cap L) = 0
    BY FS_EmptySet, Zenon
  <2> QED  BY <1>1, <1>2, <2>1 DEF Sums
<1>4. ASSUME NEW s \in SUBSET S, s # {}, s \ {CHOOSE y \in s : TRUE} \in P PROVE s \in P
  <2> DEFINE x == CHOOSE y \in s : TRUE
             less == s \ {x}
             k == Cardinality(less \cap L)
  <2>1. x \in s /\ less \in SUBSET S
    BY <1>4
  <2>2. IsFiniteSet(less \cap L) /\ k \in Nat
    <3>1. IsFiniteSet(less)
      BY <2>1, FS_Subset
    <3> HIDE DEF less
    <3> QED  BY <3>1, FS_Intersection, FS_CardinalityType
  <2>3. Cardinality(s \cap L) = IF x \in L THEN k + 1 ELSE k
    <3>1. CASE x \in L
      <4>1. s \cap L = (less \cap L) \cup {x} /\ x \notin less \cap L
        BY <2>1, <3>1
      <4> HIDE DEF x, less
      <4>2. Cardinality((less \cap L) \cup {x}) = k + 1
        BY <2>2, <4>1, FS_AddElement
      <4> QED  BY <3>1, <4>1, <4>2
    <3>2. CASE x \notin L
      <4>1. s \cap L = less \cap L
        BY <2>1, <3>2
      <4> QED  BY <3>2, <4>1
    <3> QED  BY <3>1, <3>2
  <2>4. /\ more[s] = g[x] + more[less] /\ sum[s] = f[x] + sum[less]
        /\ more[less] = sum[less] + c * k
    BY <1>1, <1>2, <1>4 DEF Sums
  <2>5. /\ f[x] \in Nat /\ sum[less] \in Nat /\ g[x] = IF x \in L THEN f[x] + c ELSE f[x]
        /\ c * k \in Nat /\ c * (k + 1) = c * k + c
    BY <1>1, <2>1, <2>2 DEF Sums
  <2> HIDE DEF x, less, k
  <2>6. more[s] = sum[s] + c * (IF x \in L THEN k + 1 ELSE k)
    BY <2>4, <2>5
  <2> QED  BY <2>3, <2>6
<1> HIDE DEF P
<1>5. SUBSET S \subseteq P
  BY <1>3, <1>4, SubsetInduction
<1>6. S \in P /\ S \cap L = L
  BY <1>5
<1> QED  BY <1>1, <1>2, <1>6 DEF P, Sums
===============================================================================
