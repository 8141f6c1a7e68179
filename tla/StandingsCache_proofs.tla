------------------------- MODULE StandingsCache_proofs -------------------------
(***************************************************************************)
(* What reading and eviction achieve without the help of expiry: for any   *)
(* clients, and for a client whose requests come one at a time and do not  *)
(* fail.                                                                   *)
(***************************************************************************)
EXTENDS StandingsCache, TLAPS

Filled(p) == [rows |-> seen[p].rows, played |-> seen[p].played]

\* A server that has just started is in a state of the type.
LEMMA InitTyped == Init => TypeOK
<1> SUFFICES ASSUME Init PROVE TypeOK
    OBVIOUS
<1>1. version \in 0 .. MaxCommits /\ cached \in SUBSET Entry
    BY MaxCommitsTyped DEF Init
<1>2. Nothing \in Seen
    BY MaxCommitsTyped DEF Nothing, Seen
<1>3. seen \in [Proc -> Seen]
    BY <1>2, Zenon DEF Init
<1>4. pc \in [Proc -> PC] /\ excused \in BOOLEAN
    BY Zenon DEF Init, PC
<1> QED
    BY <1>1, <1>3, <1>4, Zenon DEF TypeOK

\* What a GetStandings has read is an entry.
LEMMA FilledIsEntry == ASSUME TypeOK, NEW p \in Proc PROVE Filled(p) \in Entry
BY DEF TypeOK, Filled, Seen, Entry

LEMMA StepTyped == TypeOK /\ [Next]_vars => TypeOK'
<1> SUFFICES ASSUME TypeOK, [Next]_vars PROVE TypeOK'
    OBVIOUS
<1> USE MaxCommitsTyped DEF Goto, Arrive
<1>1. version' \in 0 .. MaxCommits
    BY DEF TypeOK, Next, Read, vars, Miss, GetWeek, ReadWeek, ReadRows, ReadPlayed, Fill,
           AnswerWeek, ReadFails, WriteOnce, PlayAll, Commit, Evict, WriteFails, Expire, Restart
<1>2. cached' \in SUBSET Entry
  <2>1. ASSUME NEW p \in Proc, Fill(p) PROVE cached' = {Filled(p)}
      BY <2>1, Zenon DEF Fill, Filled
  <2>2. ASSUME NEW p \in Proc, Fill(p) PROVE cached' \in SUBSET Entry
      BY <2>1, <2>2, FilledIsEntry
  <2> QED
      BY <2>2 DEF TypeOK, Next, Read, vars, Miss, GetWeek, ReadWeek, ReadRows, ReadPlayed,
           AnswerWeek, ReadFails, WriteOnce, PlayAll, Commit, Evict, WriteFails, Expire, Restart
<1>3. pc' \in [Proc -> PC]
    BY DEF TypeOK, Next, Read, vars, Miss, GetWeek, ReadWeek, ReadRows, ReadPlayed, Fill, PC,
           Reading,
           AnswerWeek, ReadFails, WriteOnce, PlayAll, Commit, Evict, WriteFails, Expire, Restart
<1>4. seen' \in [Proc -> Seen]
    BY DEF TypeOK, Next, Read, vars, Miss, GetWeek, ReadWeek, ReadRows, ReadPlayed, Fill, Seen,
           Nothing,
           AnswerWeek, ReadFails, WriteOnce, PlayAll, Commit, Evict, WriteFails, Expire, Restart
<1>5. excused' \in BOOLEAN
    BY Zenon
       DEF TypeOK, Next, Read, vars, Miss, GetWeek, ReadWeek, ReadRows, ReadPlayed, Fill,
           AnswerWeek, ReadFails, WriteOnce, PlayAll, Commit, Evict, WriteFails, Expire, Restart
<1> QED
    BY <1>1, <1>2, <1>3, <1>4, <1>5, Zenon DEF TypeOK

\* Every variable keeps its type.
THEOREM CacheTypeCorrect == Spec => []TypeOK
<1>1. Init => TypeOK
    BY InitTyped
<1>2. TypeOK /\ [Next]_vars => TypeOK'
    BY StepTyped
<1> QED
    BY <1>1, <1>2, PTL DEF Spec

-------------------------------------------------------------------------------

\* Every read is at least as recent as the one before it, and none is ahead of
\* the committed tables.
InOrder(p) ==
    /\ pc[p] \in {"played", "week_played"} => seen[p].rows <= version
    /\ pc[p] = "week_rows" => seen[p].fixtures <= version
    /\ pc[p] \in {"week_played", "week_answer"} => seen[p].fixtures <= seen[p].rows
    /\ pc[p] \in {"fill", "week_answer"} => seen[p].rows <= seen[p].played

ReadInv ==
    /\ TypeOK
    /\ HeadToHeadNotBehind
    /\ \A p \in Proc : InOrder(p)

LEMMA InitReadInv == Init => ReadInv
<1> SUFFICES ASSUME Init PROVE ReadInv
    OBVIOUS
<1>1. HeadToHeadNotBehind
    BY DEF Init, HeadToHeadNotBehind
<1>2. \A p \in Proc : InOrder(p)
    BY DEF Init, InOrder
<1> QED
    BY <1>1, <1>2, InitTyped DEF ReadInv

\* The steps of a read meet the version of now; a commit only raises it; the
\* other steps leave no read half done.
LEMMA StepInOrder == ReadInv /\ [Next]_vars => \A p \in Proc : InOrder(p)'
<1> SUFFICES ASSUME ReadInv, [Next]_vars, NEW p \in Proc PROVE InOrder(p)'
    OBVIOUS
<1> USE MaxCommitsTyped DEF ReadInv, InOrder, TypeOK, Seen, Goto, Arrive
<1>1. CASE UNCHANGED vars
    BY <1>1 DEF vars
<1>2. ASSUME NEW q \in Proc, Miss(q) \/ GetWeek(q) PROVE InOrder(p)'
    BY <1>2 DEF Miss, GetWeek
<1>3. ASSUME NEW q \in Proc, ReadWeek(q) PROVE InOrder(p)'
    BY <1>3 DEF ReadWeek
<1>4. ASSUME NEW q \in Proc, ReadRows(q) PROVE InOrder(p)'
    BY <1>4 DEF ReadRows
<1>5. ASSUME NEW q \in Proc, ReadPlayed(q) PROVE InOrder(p)'
    BY <1>5 DEF ReadPlayed
<1>6. ASSUME NEW q \in Proc, Fill(q) \/ AnswerWeek(q) \/ ReadFails(q) PROVE InOrder(p)'
    BY <1>6 DEF Fill, AnswerWeek, ReadFails, Reading
<1>7. ASSUME NEW q \in Proc, WriteOnce(q) \/ PlayAll(q) PROVE InOrder(p)'
    BY <1>7 DEF WriteOnce, PlayAll
<1>8. ASSUME NEW q \in Proc, Commit(q) PROVE InOrder(p)'
    BY <1>8 DEF Commit
<1>9. ASSUME NEW q \in Proc, Evict(q) \/ WriteFails(q) PROVE InOrder(p)'
    BY <1>9 DEF Evict, WriteFails
<1>10. CASE Expire \/ Restart
    BY <1>10 DEF Expire, Restart
<1> QED
    BY <1>1, <1>2, <1>3, <1>4, <1>5, <1>6, <1>7, <1>8, <1>9, <1>10 DEF Next, Read

LEMMA StepReadInv == ReadInv /\ [Next]_vars => ReadInv'
<1> SUFFICES ASSUME ReadInv, [Next]_vars PROVE ReadInv'
    OBVIOUS
<1>1. TypeOK' /\ \A p \in Proc : InOrder(p)'
    BY StepTyped, StepInOrder DEF ReadInv
<1>2. ASSUME NEW p \in Proc, Fill(p) PROVE HeadToHeadNotBehind'
  <2>1. cached' = {Filled(p)}
      BY <1>2, Zenon DEF Fill, Filled
  <2>2. Filled(p).rows <= Filled(p).played
      BY <1>2 DEF Fill, Goto, Filled, ReadInv, InOrder
  <2> QED
      BY <2>1, <2>2 DEF HeadToHeadNotBehind
<1>3. cached' \subseteq cached => HeadToHeadNotBehind'
    BY DEF ReadInv, HeadToHeadNotBehind
<1>4. (\E p \in Proc : Fill(p)) \/ cached' \subseteq cached
    BY DEF Next, Read, vars, Miss, GetWeek, ReadWeek, ReadRows, ReadPlayed, Arrive,
           AnswerWeek, ReadFails, WriteOnce, PlayAll, Commit, Evict, WriteFails, Expire, Restart
<1>5. HeadToHeadNotBehind'
    BY <1>2, <1>3, <1>4
<1> QED
    BY <1>1, <1>5, Zenon DEF ReadInv

\* For any clients and commits: the version of the played fixtures that rank a
\* cached entry is not older than the version of its rows.
THEOREM PlayedNotOlderThanRows == Spec => []HeadToHeadNotBehind
<1>1. ReadInv => HeadToHeadNotBehind
    BY DEF ReadInv
<1> QED
    BY <1>1, InitReadInv, StepReadInv, PTL DEF Spec

\* For any clients and commits: the table under the fixtures of a week is not
\* older than they are.
THEOREM WeekAnswersAreOfNow == Spec => []WeekAsOfNow
<1>1. ReadInv => WeekAsOfNow
    BY DEF ReadInv, InOrder, WeekAsOfNow
<1> QED
    BY <1>1, InitReadInv, StepReadInv, PTL DEF Spec

-------------------------------------------------------------------------------

\* What is cached, and what a read has met, is of versions committed by now.
Past ==
    /\ \A e \in cached : e.rows <= version /\ e.played <= version
    /\ \A p \in Proc : /\ seen[p].fixtures <= version
                       /\ seen[p].rows <= version
                       /\ seen[p].played <= version

LEMMA StepPast == TypeOK /\ Past /\ [Next]_vars => Past'
<1> SUFFICES ASSUME TypeOK, Past, [Next]_vars PROVE Past'
    OBVIOUS
<1>1. /\ version \in Nat /\ seen \in [Proc -> Seen]
      /\ \A e \in cached : e.rows \in Nat /\ e.played \in Nat
      /\ \A p \in Proc : /\ seen[p].fixtures \in Nat
                        /\ seen[p].rows \in Nat
                        /\ seen[p].played \in Nat
    BY MaxCommitsTyped DEF TypeOK, Seen, Entry
<1>2. ASSUME cached' \subseteq cached, version' = version \/ version' = version + 1, seen' = seen
      PROVE  Past'
    BY <1>1, <1>2 DEF Past
<1>3. ASSUME NEW q \in Proc, cached' = cached, version' = version,
             \/ seen' = [seen EXCEPT ![q].fixtures = version]
             \/ seen' = [seen EXCEPT ![q].rows = version]
             \/ seen' = [seen EXCEPT ![q].played = version]
      PROVE  Past'
  <2> SUFFICES ASSUME NEW p \in Proc
               PROVE  /\ seen'[p].fixtures <= version
                      /\ seen'[p].rows <= version
                      /\ seen'[p].played <= version
      BY <1>3 DEF Past
  <2>1. CASE p # q
      BY <1>1, <1>3, <2>1 DEF Past
  <2>2. CASE p = q
      BY <1>1, <1>3, <2>2 DEF Past, Seen
  <2> QED
      BY <2>1, <2>2
<1>4. ASSUME NEW q \in Proc, seen' = [seen EXCEPT ![q] = Nothing], version' = version,
             \A e \in cached' : e.rows <= version /\ e.played <= version
      PROVE  Past'
    BY <1>1, <1>4 DEF Past, Nothing
<1>5. ASSUME NEW q \in Proc, Fill(q) PROVE Past'
  <2>1. cached' = {Filled(q)} /\ version' = version /\ seen' = [seen EXCEPT ![q] = Nothing]
      BY <1>5, Zenon DEF Fill, Filled
  <2>2. Filled(q).rows <= version /\ Filled(q).played <= version
      BY DEF Past, Filled
  <2> QED
      BY <1>4, <2>1, <2>2
<1>6. ASSUME NEW q \in Proc, AnswerWeek(q) \/ ReadFails(q) PROVE Past'
    BY <1>4, <1>6 DEF Past, AnswerWeek, ReadFails
<1>7. CASE Restart
    BY <1>1, <1>7 DEF Restart, Past, Nothing
<1>8. CASE UNCHANGED vars \/ Expire
    BY <1>2, <1>8 DEF vars, Expire
<1>9. ASSUME NEW q \in Proc, Miss(q) \/ GetWeek(q) \/ WriteOnce(q) \/ PlayAll(q) PROVE Past'
    BY <1>2, <1>9 DEF Miss, GetWeek, WriteOnce, PlayAll, Arrive
<1>10. ASSUME NEW q \in Proc, ReadWeek(q) \/ ReadRows(q) \/ ReadPlayed(q) PROVE Past'
    BY <1>3, <1>10 DEF ReadWeek, ReadRows, ReadPlayed
<1>11. ASSUME NEW q \in Proc, Commit(q) \/ Evict(q) \/ WriteFails(q) PROVE Past'
    BY <1>2, <1>11 DEF Commit, Evict, WriteFails
<1> QED
    BY <1>5, <1>6, <1>7, <1>8, <1>9, <1>10, <1>11 DEF Next, Read

-------------------------------------------------------------------------------

Writing == {p \in Proc : pc[p] \in {"committed", "play_all"}}

\* A stale entry is excused, or some running write will evict it.
Accounted == TypeOK /\ (Fresh \/ excused \/ Writing # {})

LEMMA FillAccounted ==
    ASSUME Accounted, Accounted => TypeOK', NEW p \in Proc, Fill(p)
    PROVE  Accounted'
<1>1. CASE seen[p].rows = version /\ seen[p].played = version
  <2>1. Filled(p) = [rows |-> version, played |-> version]
      BY <1>1 DEF Filled
  <2>2. cached' = {Filled(p)} /\ version' = version
      BY Zenon DEF Fill, Filled
  <2>3. Fresh'
      BY <2>1, <2>2 DEF Fresh
  <2> QED
      BY <2>3, Zenon DEF Accounted
<1>2. CASE ~(seen[p].rows = version /\ seen[p].played = version)
  <2>1. {seen[p].rows, seen[p].played} # {version}
      BY <1>2
  <2>2. excused'
      BY <2>1, Zenon DEF Fill
  <2> QED
      BY <2>2, Zenon DEF Accounted
<1> QED
    BY <1>1, <1>2

LEMMA StepAccounted == Accounted /\ [Next]_vars => Accounted'
<1> SUFFICES ASSUME Accounted, [Next]_vars PROVE Accounted'
    OBVIOUS
<1>1. TypeOK'
    BY StepTyped DEF Accounted
<1>2. Accounted => TypeOK'
    BY <1>1
<1> USE DEF Accounted, TypeOK, Fresh, Writing, Goto, Arrive
<1>3. CASE UNCHANGED vars
    BY <1>1, <1>3, Zenon DEF vars
<1>4. ASSUME NEW p \in Proc, Miss(p) \/ GetWeek(p) \/ WriteOnce(p) \/ PlayAll(p)
      PROVE  Accounted'
    BY <1>1, <1>4 DEF Miss, GetWeek, WriteOnce, PlayAll
<1>5. ASSUME NEW p \in Proc, ReadWeek(p) \/ ReadRows(p) \/ ReadPlayed(p) PROVE Accounted'
    BY <1>1, <1>5 DEF ReadWeek, ReadRows, ReadPlayed
<1>6. ASSUME NEW p \in Proc, Fill(p) PROVE Accounted'
    BY <1>2, <1>6, FillAccounted
<1>7. ASSUME NEW p \in Proc, AnswerWeek(p) \/ ReadFails(p) PROVE Accounted'
    BY <1>1, <1>7 DEF AnswerWeek, ReadFails, Reading
<1>8. ASSUME NEW p \in Proc, Commit(p) PROVE Accounted'
    BY <1>1, <1>8 DEF Commit
<1>9. ASSUME NEW p \in Proc, Evict(p) PROVE Accounted'
    BY <1>1, <1>9 DEF Evict
<1>10. ASSUME NEW p \in Proc, WriteFails(p) PROVE Accounted'
    BY <1>1, <1>10 DEF WriteFails
<1>11. CASE Expire \/ Restart
    BY <1>1, <1>11 DEF Expire, Restart
<1> QED
    BY <1>3, <1>4, <1>5, <1>6, <1>7, <1>8, <1>9, <1>10, <1>11 DEF Next, Read

\* For any number of clients, commits and failures: while no request runs, an
\* entry that is stale was filled across a commit or left by a failed handler.
THEOREM StaleAccounted == Spec => []StaleOnlyIfExcused
<1>1. Init => Accounted
    BY InitTyped, Zenon DEF Init, Accounted, Fresh
<1>2. Accounted => StaleOnlyIfExcused
    BY DEF Accounted, Writing, StaleOnlyIfExcused, Quiet
<1> QED
    BY <1>1, <1>2, StepAccounted, PTL DEF Spec

\* All of it at once, for who looks at the tables behind the versions.
LEMMA CacheInvariant == Spec => [](ReadInv /\ Past /\ Accounted)
<1>1. Init => ReadInv /\ Past /\ Accounted
  <2> SUFFICES ASSUME Init PROVE ReadInv /\ Past /\ Accounted
      OBVIOUS
  <2>1. ReadInv
      BY InitReadInv
  <2>2. Past
      BY DEF Init, Past, Nothing
  <2>3. Accounted
      BY InitTyped, Zenon DEF Init, Accounted, Fresh
  <2> QED
      BY <2>1, <2>2, <2>3
<1>2. ReadInv /\ Past /\ Accounted /\ [Next]_vars => (ReadInv /\ Past /\ Accounted)'
  <2>1. ReadInv => TypeOK
      BY DEF ReadInv
  <2> QED
      BY <2>1, StepReadInv, StepPast, StepAccounted
<1> QED
    BY <1>1, <1>2, PTL DEF Spec

-------------------------------------------------------------------------------

OneAtATime == Faults = FALSE /\ \A p, q \in Proc : p = q

\* The only stale entry is the one that the running write is about to evict.
IInv ==
    /\ TypeOK
    /\ Writing = {} => Fresh
    /\ \A p \in Proc : /\ pc[p] \in {"played", "fill"} => seen[p].rows = version
                       /\ pc[p] = "fill" => seen[p].played = version

LEMMA StepIInv == OneAtATime /\ IInv /\ [Next]_vars => IInv'
<1> SUFFICES ASSUME OneAtATime, IInv, [Next]_vars PROVE IInv'
    OBVIOUS
<1>1. TypeOK'
    BY StepTyped DEF IInv
<1> USE DEF OneAtATime, IInv, TypeOK, Fresh, Writing, Goto, Arrive
<1>2. CASE UNCHANGED vars
    BY <1>1, <1>2 DEF vars
<1>3. ASSUME NEW p \in Proc, Miss(p) \/ GetWeek(p) \/ WriteOnce(p) \/ PlayAll(p)
      PROVE  IInv'
    BY <1>1, <1>3 DEF Miss, GetWeek, WriteOnce, PlayAll
<1>4. ASSUME NEW p \in Proc, ReadWeek(p) PROVE IInv'
    BY <1>1, <1>4 DEF ReadWeek
<1>5. ASSUME NEW p \in Proc, ReadRows(p) PROVE IInv'
    BY <1>1, <1>5 DEF ReadRows, Seen
<1>6. ASSUME NEW p \in Proc, ReadPlayed(p) PROVE IInv'
    BY <1>1, <1>6 DEF ReadPlayed, Seen
<1>7. ASSUME NEW p \in Proc, Fill(p) PROVE IInv'
    BY <1>1, <1>7 DEF Fill
<1>8. ASSUME NEW p \in Proc, AnswerWeek(p) \/ ReadFails(p) \/ WriteFails(p) PROVE IInv'
    BY <1>1, <1>8 DEF AnswerWeek, ReadFails, WriteFails
<1>9. ASSUME NEW p \in Proc, Commit(p) PROVE IInv'
    BY <1>1, <1>9 DEF Commit
<1>10. ASSUME NEW p \in Proc, Evict(p) PROVE IInv'
    BY <1>1, <1>10 DEF Evict
<1>11. CASE Expire \/ Restart
    BY <1>1, <1>11 DEF Expire, Restart
<1> QED
    BY <1>2, <1>3, <1>4, <1>5, <1>6, <1>7, <1>8, <1>9, <1>10, <1>11 DEF Next, Read

\* While no request runs, the cache holds the committed standings or nothing.
THEOREM FreshForOneClient == OneAtATime => (Spec => []FreshWhenQuiet)
<1> SUFFICES ASSUME OneAtATime PROVE Spec => []FreshWhenQuiet
    OBVIOUS
<1>1. Init => IInv
    BY InitTyped, Zenon DEF Init, IInv, Fresh
<1>2. IInv /\ [Next]_vars => IInv'
    BY StepIInv
<1>3. IInv => FreshWhenQuiet
    BY DEF IInv, FreshWhenQuiet, Quiet, Writing
<1> QED
    BY <1>1, <1>2, <1>3, PTL DEF Spec
===============================================================================
