------------------------------- MODULE Arena --------------------------------
(***************************************************************************)
(* The arena: candidate patches are shuffled behind blind aliases          *)
(* (DoubleBlindAnonymizer), graded by the rubric (RubricGraderV1) and the  *)
(* best one is named the winner (ArenaEvaluator).                          *)
(*                                                                         *)
(* A candidate is what the grader looks at: its profile.  The rows that    *)
(* the evaluation stores meanwhile are in module Remediation.              *)
(*                                                                         *)
(* A definition introduced as a slip is used by no specification: it is    *)
(* a mistake this code could well contain, kept here to show that a        *)
(* property would notice it.                                               *)
(***************************************************************************)
EXTENDS Naturals, FiniteSets

CONSTANTS
    Candidates,    \* candidate patches
    Latencies,     \* latencyOverheadMs, in whole milliseconds
    NoCandidate    \* bestCandidate before one was found

ASSUME CandidatesAssumption ==
    IsFiniteSet(Candidates) /\ Candidates # {} /\ NoCandidate \notin Candidates
ASSUME LatenciesAssumption == Latencies \subseteq Nat

VARIABLES
    profile,       \* what is known of each candidate
    place,      \* its place after the shuffle, 0 before: the alias
    graded,        \* how many candidates were graded
    best, highest, \* bestCandidate and highestScore, one up: 0 stands for -1
    winner         \* the candidate named in the summary

arenaVars == <<profile, place, graded, best, highest, winner>>

Profiles ==
    [testPassed : BOOLEAN, concurrencyPassed : BOOLEAN, hasSecurityFlaws : BOOLEAN,
     latency : Latencies, isIdempotent : BOOLEAN]

Size == Cardinality(Candidates)

-----------------------------------------------------------------------------
(* RubricGraderV1.evaluate                                                 *)

Correctness(p) == IF p.testPassed THEN 25 ELSE 0
Security(p) == IF p.hasSecurityFlaws THEN 0 ELSE 20

\* Slip: the two thresholds are tested in the wrong order.
PerformanceUnordered(p) ==
    IF p.latency <= 5 THEN 15 ELSE IF p.latency > 20 THEN 10 ELSE 5

Performance(p) ==
    IF p.latency > 20 THEN 5 ELSE IF p.latency > 5 THEN 10 ELSE 15

Contract == 10
Reliability(p) == IF p.isIdempotent THEN 10 ELSE 5
TestQuality(p) == IF p.concurrencyPassed THEN 10 ELSE 0
Clarity == 10

TotalScore(p) ==
    Correctness(p) + Security(p) + Performance(p) + Contract + Reliability(p)
        + TestQuality(p) + Clarity

IsDisqualified(p) == ~p.testPassed \/ p.hasSecurityFlaws

Score(c) == TotalScore(profile[c])
Eligible == {c \in Candidates : ~IsDisqualified(profile[c])}

ArenaTypeOK ==
    /\ profile \in [Candidates -> Profiles]
    /\ place \in [Candidates -> 0..Size]
    /\ graded \in 0..Size
    /\ best \in Candidates \cup {NoCandidate}
    /\ highest \in 0..101
    /\ winner \in Candidates \cup {NoCandidate}

-----------------------------------------------------------------------------
(* ArenaEvaluator.evaluateIncidentCandidates                               *)

ArenaInit ==
    /\ profile \in [Candidates -> Profiles]
    /\ place = [c \in Candidates |-> 0]
    /\ graded = 0
    /\ best = NoCandidate
    /\ highest = 0
    /\ winner = NoCandidate

IsShuffled == \A c \in Candidates : place[c] # 0

\* DoubleBlindAnonymizer.anonymize: any order is possible.
Anonymize ==
    /\ ~IsShuffled
    /\ \E order \in [Candidates -> 1..Size] :
        /\ \A c, d \in Candidates : order[c] = order[d] => c = d
        /\ place' = order
    /\ UNCHANGED <<profile, graded, best, highest, winner>>

\* Slip: disqualified candidates take part.
BetterAnyhow(c) == Score(c) + 1 > highest

Better(c) == c \in Eligible /\ Score(c) + 1 > highest

\* The next candidate in blind order is graded and compared with the best.
Grade(c) ==
    /\ IsShuffled
    /\ place[c] = graded + 1
    /\ graded' = graded + 1
    /\ IF Better(c)
       THEN best' = c /\ highest' = Score(c) + 1
       ELSE UNCHANGED <<best, highest>>
    /\ UNCHANGED <<profile, place, winner>>

\* bestCandidate || evaluatedCandidates[0]
NameWinner(c) ==
    /\ graded = Size
    /\ winner = NoCandidate
    /\ IF best = NoCandidate THEN place[c] = 1 ELSE c = best
    /\ winner' = c
    /\ UNCHANGED <<profile, place, graded, best, highest>>

ArenaNext == Anonymize \/ \E c \in Candidates : Grade(c) \/ NameWinner(c)

ArenaSpec == ArenaInit /\ [][ArenaNext]_arenaVars

-----------------------------------------------------------------------------
(* Properties.                                                             *)

\* If any candidate qualifies, the winner does, and nobody who qualifies
\* scored more: the random order of the grading decides between equals only.
WinnerIsBest ==
    winner # NoCandidate /\ Eligible # {} =>
        /\ winner \in Eligible
        /\ \A c \in Eligible : Score(c) <= Score(winner)

\* c is at least as good as d in everything the grader looks at.
AtLeastAsGood(c, d) ==
    /\ d.testPassed => c.testPassed
    /\ d.concurrencyPassed => c.concurrencyPassed
    /\ c.hasSecurityFlaws => d.hasSecurityFlaws
    /\ c.latency <= d.latency
    /\ d.isIdempotent => c.isIdempotent

\* The winner is never worse in every respect than a candidate it beat: the
\* rubric's thresholds and weights respect the order of what they measure.
WinnerIsNotDominated ==
    winner # NoCandidate =>
        \A c \in Eligible :
            AtLeastAsGood(profile[c], profile[winner]) => Score(c) = Score(winner)

=============================================================================
