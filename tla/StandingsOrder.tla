---------------------------- MODULE StandingsOrder ----------------------------
(***************************************************************************)
(* SortWithHeadToHead: the order in which GetStandings shows the table.    *)
(* A stable sort by points, goal difference and goals scored, then a scan  *)
(* that reorders each group of rows equal on all three by the points its   *)
(* teams took from one another.  The rows come from SQL in the same        *)
(* primary order, equal rows in any order.                                 *)
(***************************************************************************)
EXTENDS LeagueTable

CONSTANT Score  \* the scores a match may end with

ASSUME ScoresTyped == Score \subseteq Nat \X Nat

VARIABLES score,  \* the fixtures
          table,  \* the figures of the rows
          rows,   \* the teams of the rows, in their order
          query,  \* the rows as SQL returned them
          i       \* the first row the scan has not reached

vars == <<score, table, rows, query, i>>

Size == Cardinality(Team)

Before(a, b) == PrimaryLess(table[a], table[b])
Equal(a, b) == PrimaryEqual(table[a], table[b])

\* What team t took from match m.
Share(m, t) ==
    LET gf == IF t = Home[m] THEN score[m][1] ELSE score[m][2]
        ga == IF t = Home[m] THEN score[m][2] ELSE score[m][1]
    IN  IF gf > ga THEN 3 ELSE IF gf = ga THEN 1 ELSE 0

HeadToHeadAgainstAll(involved) ==
    [t \in involved |-> MapThenSumSet(LAMBDA m : Share(m, t),
        {m \in PlayedIn(score) : t \in {Home[m], Away[m]}})]

\* The points of each team in the matches among the teams involved.
HeadToHead(involved) ==
    [t \in involved |-> MapThenSumSet(LAMBDA m : Share(m, t),
        {m \in PlayedIn(score) : t \in {Home[m], Away[m]}
                                 /\ {Home[m], Away[m]} \subseteq involved})]

StableSort(s, Less(_, _)) ==
    LET place(k) == Cardinality({j \in DOMAIN s : \/ Less(s[j], s[k])
                                                  \/ ~Less(s[k], s[j]) /\ j <= k})
    IN  [k \in DOMAIN s |-> s[CHOOSE j \in DOMAIN s : place(j) = k]]

\* The rows from first on that equal the first of them.
GroupEnd(first) ==
    CHOOSE j \in first + 1 .. Size + 1 :
        /\ \A k \in first .. j - 1 : Equal(rows[first], rows[k])
        /\ j <= Size => ~Equal(rows[first], rows[j])

SortGroupTiesByID(first, next) ==
    LET involved == {rows[k] : k \in first .. next - 1}
        h2h == HeadToHead(involved)
        Less(a, b) == h2h[a] > h2h[b] \/ (h2h[a] = h2h[b] /\ a < b)
        group == StableSort([k \in 1 .. next - first |-> rows[first + k - 1]], Less)
    IN  [k \in 1 .. Size |-> IF k \in first .. next - 1 THEN group[k - first + 1] ELSE rows[k]]

\* applyHeadToHead on the rows first .. next - 1.
SortGroup(first, next) ==
    LET involved == {rows[k] : k \in first .. next - 1}
        h2h == HeadToHead(involved)
        Less(a, b) == h2h[a] > h2h[b]
        group == StableSort([k \in 1 .. next - first |-> rows[first + k - 1]], Less)
    IN  [k \in 1 .. Size |-> IF k \in first .. next - 1 THEN group[k - first + 1] ELSE rows[k]]

\* The rows of SQL, in the order of standingsOrderBy.
QueryOrders == {s \in [1 .. Size -> Team] :
                   \A k, l \in 1 .. Size : k < l => s[k] # s[l] /\ ~Before(s[l], s[k])}

Init ==
    /\ score \in [Match -> Score \cup {Unplayed}]
    /\ table = Calculate(score)
    /\ query \in QueryOrders
    /\ rows = StableSort(query, Before)
    /\ i = 1

ScanGroup ==
    /\ i <= Size
    /\ LET j == GroupEnd(i)
       IN  /\ rows' = IF j - i > 1 THEN SortGroup(i, j) ELSE rows
           /\ i' = j
    /\ UNCHANGED <<score, table, query>>

Spec == Init /\ [][ScanGroup]_vars
-------------------------------------------------------------------------------
(* Properties *)

TiedWith(t) == {u \in Team : table[u].points = table[t].points
                             /\ GoalDifference(table[u]) = GoalDifference(table[t])
                             /\ table[u].goalsFor = table[t].goalsFor}

\* The ranking rules, stated on teams and not on rows: points, then goal
\* difference, then goals, then the points taken from the teams tied on all
\* of these.
Keys ==
    LET headToHead(t) ==
            MapThenSumSet(LAMBDA m : Share(m, t),
                          {m \in PlayedIn(score) : t \in {Home[m], Away[m]}
                               /\ {Home[m], Away[m]} \subseteq TiedWith(t)})
    IN  [t \in Team |-> <<table[t].points, GoalDifference(table[t]), table[t].goalsFor, headToHead(t)>>]

Above(keys, a, b) ==
    \E k \in 1 .. 4 : keys[a][k] > keys[b][k] /\ \A l \in 1 .. k - 1 : keys[a][l] = keys[b][l]

Done == i > Size
Position(s, t) == CHOOSE k \in 1 .. Size : s[k] = t

\* When the scan is over the table obeys the ranking rules: no team stands
\* above one that the rules place higher, and no team is lost or doubled.
RankedByRules ==
    /\ {rows[k] : k \in 1 .. Size} = Team
    /\ Done => LET keys == Keys
               IN  \A a, b \in Team : Above(keys, a, b) => Position(rows, a) < Position(rows, b)

\* Teams that the rules cannot separate stay in the order of the query, so
\* that one answer of SQL gives one table.
TiesKeepTheirOrder ==
    Done => LET keys == Keys
            IN  \A a, b \in Team :
                    keys[a] = keys[b] /\ Position(query, a) < Position(query, b)
                        => Position(rows, a) < Position(rows, b)
===============================================================================
