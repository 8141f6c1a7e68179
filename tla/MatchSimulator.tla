---------------------------- MODULE MatchSimulator ----------------------------
(***************************************************************************)
(* PoissonSimulator: expected goals from the strengths and forms of two    *)
(* teams, and goals from a uniform draw by inverting the Poisson           *)
(* distribution.  Floating point is replaced by fixed point: expected      *)
(* goals are in thousandths, probabilities and draws in units of 1/One.    *)
(* Like floats, fixed-point terms become too small to add up to One: a     *)
(* draw close to One is only stopped by maxIterations.                     *)
(***************************************************************************)
EXTENDS TeamForm

CONSTANTS Attack, Defense, HomeAdvantage,  \* the strengths of each team
          Draw,                            \* the values of rng.Float64()
          maxIterations                    \* bound of the sampling loop

One == 10000
baseRate == 1400
maxGoalsPerTeam == 6

ASSUME StrengthsTyped == /\ Attack \in [Team -> 1 .. 100]
                         /\ Defense \in [Team -> 1 .. 100]
                         /\ HomeAdvantage \in [Team -> 0 .. 20]
ASSUME LoopBounded == maxIterations \in Nat
ASSUME DrawsAreBelowOne == Draw \subseteq 0 .. One - 1

Lesser(a, b) == IF a < b THEN a ELSE b

-------------------------------------------------------------------------------
(* Expected goals *)

FormWeight == [result \in {"W", "D", "L"} |->
                  CASE result = "W" -> 11 [] result = "D" -> 10 [] result = "L" -> 9]

\* rate times the average weight of the form, in tenths.
FormMultiplier(rate, form) ==
    IF form = <<>> THEN rate
    ELSE (rate * FoldFunction(LAMBDA result, sum : sum + FormWeight[result], 0, form))
             \div (10 * Len(form))

HomeXG(home, away, form) ==
    FormMultiplier(
        (baseRate * Attack[home] * (100 + HomeAdvantage[home])) \div (100 * Defense[away]), form)

AwayXG(home, away, form) ==
    FormMultiplier((baseRate * Attack[away]) \div Defense[home], form)

-------------------------------------------------------------------------------
(* The sampler *)

\* math.Exp(-lambda), by the series of exp(lambda).
ExpMinus(lambda) ==
    LET series[k \in 0 .. maxIterations] ==
            IF k = 0 THEN [term |-> One, sum |-> One]
            ELSE LET before == series[k - 1]
                     next == (before.term * lambda) \div (1000 * k)
                 IN  [term |-> next, sum |-> before.sum + next]
    IN  (One * One) \div series[maxIterations].sum

\* walk[k] is the state of the loop after at most k turns; it goes on while
\* the draw is above the cumulative probability of k goals.
SampleFromUniform(lambda, u) ==
    LET walk[k \in 0 .. maxIterations] ==
            IF k = 0 THEN LET none == ExpMinus(lambda)
                          IN  [p |-> none, cumulative |-> none, goals |-> 0]
            ELSE LET w == walk[k - 1]
                     p == (w.p * lambda) \div (1000 * k)
                 IN  IF u > w.cumulative
                     THEN [p |-> p, cumulative |-> w.cumulative + p, goals |-> k]
                     ELSE w
    IN  walk[maxIterations].goals

Sample(lambda, u) == IF lambda <= 0 THEN 0 ELSE SampleFromUniform(lambda, u)

GoalsUncapped(lambda, u) == Sample(lambda, u)
Goals(lambda, u) == Lesser(Sample(lambda, u), maxGoalsPerTeam)

\* The result of match m when the two draws are u.
Simulate(m, forms, u) ==
    <<Goals(HomeXG(Home[m], Away[m], forms[Home[m]]), u[1]),
      Goals(AwayXG(Home[m], Away[m], forms[Away[m]]), u[2])>>

-------------------------------------------------------------------------------
(* What an Edit may enter *)

MaxGoals == 6

\* inGoalsRange for both teams.
ValidateEditFixture(s) == s[1] \in 0 .. MaxGoals /\ s[2] \in 0 .. MaxGoals
===============================================================================
