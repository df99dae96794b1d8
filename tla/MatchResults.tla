---------------------------- MODULE MatchResults ----------------------------
(***************************************************************************)
(* apps/api/src/modules/matching: a pass evaluates every candidate capacity   *)
(* of an opportunity and ranks the eligible ones; the list shows the latest   *)
(* result of each capacity, whichever passes those come from.                *)
(*                                                                         *)
(* A candidate is its capacity profile, the day the profile was confirmed,    *)
(* and its provider's passport.  Time is in days, capacities are named by     *)
(* naturals, and a result's id is the order of its creation.                 *)
(***************************************************************************)
EXTENDS MatchingEngine, Sequences

\* classifyCapacityFreshness with its windows, for a profile of this platform.
LiveFreshness(asOf, now) ==
    CASE now - asOf <= 30 -> "FRESH"
      [] now - asOf \in 31..90 -> "AGING"
      [] OTHER -> "STALE"

\* liveProviderPassportStatus: READY and VERIFIED last as long as the readiness
\* they were computed from.
LivePassportStatus(passport, now) ==
    IF passport = Absent THEN Absent
    ELSE IF passport.status \in {"READY", "VERIFIED"} /\ now - passport.computedAt > 90 THEN "STALE"
    ELSE passport.status

\* evaluate: what the rules see of a candidate, with what the request asks for.  The
\* merchant's risk is not known.
CapacityInput(candidate, now) == [candidate.cap EXCEPT !.freshness = LiveFreshness(candidate.asOf, now)]
CandidateContext(candidate, asked, now) ==
    [passportStatus |-> LivePassportStatus(candidate.passport, now), averageTicket |-> asked.averageTicket,
     requiredRail |-> asked.requiredRail, hold |-> FALSE,
     risk |-> [chargeback |-> Absent, fraud |-> Absent, refund |-> Absent]]

EligibleAt(opp, candidate, asked, now) ==
    EvaluateEligibility(opp, CapacityInput(candidate, now), CandidateContext(candidate, asked, now)).eligible

\* matchResultRepository.create refuses a ranked ineligible row, and an eligible
\* row without its rank.
Accepted(row) == row.eligible <=> row.rank # Absent

\* Mutant: the rank is the place among all candidates.
Ranked_Everybody(opp, candidates, asked, now) == DOMAIN candidates

\* The candidates a pass ranks.
Ranked(opp, candidates, asked, now) == {c \in DOMAIN candidates : EligibleAt(opp, candidates[c], asked, now)}

\* evaluate: the rows of a pass, by capacity, all with the pass's now.
EvaluatePass(opp, candidates, asked, now) ==
    LET ranked == RankMatches([c \in Ranked(opp, candidates, asked, now) |->
                     ScoreMatch(opp, CapacityInput(candidates[c], now),
                                CandidateContext(candidates[c], asked, now))])
    IN  [c \in DOMAIN candidates |->
            [eligible |-> EligibleAt(opp, candidates[c], asked, now),
             rank |-> IF c \in DOMAIN ranked THEN ranked[c].rank ELSE Absent,
             evaluatedAt |-> now]]

-----------------------------------------------------------------------------
(* listLatestByOpportunity, over a set of rows with their capacity and id.    *)

\* Mutant: the row created last.
Newer_ById(a, b) == a.id > b.id

\* evaluatedAt descending, then id ascending.
Newer(a, b) == a.evaluatedAt > b.evaluatedAt \/ (a.evaluatedAt = b.evaluatedAt /\ a.id < b.id)

LatestOf(rows) == {a \in rows : \A b \in rows : b.capacity = a.capacity /\ b # a => Newer(a, b)}

\* Eligible first, by rank and then by capacity.  Of two ineligible rows the
\* comparison is Infinity - Infinity, NaN, which the sort takes for a tie: they
\* stay in the order of the query, and the capacity is never compared.
ShownBefore(a, b) ==
    \/ a.eligible /\ ~b.eligible
    \/ a.eligible /\ b.eligible /\ (a.rank < b.rank \/ (a.rank = b.rank /\ a.capacity < b.capacity))
    \/ ~a.eligible /\ ~b.eligible /\ Newer(a, b)

\* The place the sort gives a row.
PlaceAmong(latest, a) == 1 + Cardinality({b \in latest : ShownBefore(b, a)})

ListLatest(rows) ==
    LET latest == LatestOf(rows)
    IN  [i \in 1..Cardinality(latest) |-> CHOOSE a \in latest : PlaceAmong(latest, a) = i]
=============================================================================
