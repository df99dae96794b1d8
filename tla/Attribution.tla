----------------------------- MODULE Attribution -----------------------------
(***************************************************************************)
(* packages/attribution: the score of a claim, its tier, and the ranking of  *)
(* competing claims.  Months and days are naturals; scores are tenths of a   *)
(* point, computed exactly.  A claim's evidence is a sequence of items.      *)
(***************************************************************************)
EXTENDS Integers, Sequences, FiniteSets, FiniteSetsExt

DirectnessTiers == {"D0", "D1", "D2", "D3", "D4", "D5"}
EvidenceItems ==
    [evidenceType: {"CONTRACT", "COUNTERPARTY_ACKNOWLEDGMENT", "EMAIL_THREAD", "CRM_RECORD", "OTHER"},
     verificationState: {"SELF_REPORTED", "DOCUMENT_EXTRACTED", "API_VERIFIED", "COUNTERPARTY_CONFIRMED",
                         "OPERATOR_VERIFIED"}]

\* evidenceBasePoints
BasePoints(type) ==
    CASE type = "CONTRACT" -> 40
      [] type = "COUNTERPARTY_ACKNOWLEDGMENT" -> 35
      [] type = "EMAIL_THREAD" -> 20
      [] type = "CRM_RECORD" -> 15
      [] type = "OTHER" -> 5

\* evidenceVerificationMultiplier, in tenths
Multiplier(state) ==
    CASE state = "SELF_REPORTED" -> 4
      [] state = "DOCUMENT_EXTRACTED" -> 7
      [] state = "API_VERIFIED" -> 9
      [] state \in {"COUNTERPARTY_CONFIRMED", "OPERATOR_VERIFIED"} -> 10

ProximityScore(tier) ==
    CASE tier = "D5" -> 100 [] tier = "D4" -> 80 [] tier = "D3" -> 60
      [] tier = "D2" -> 35  [] tier = "D1" -> 15 [] tier = "D0" -> 0

AtMost(n, high) == IF n > high THEN high ELSE n

\* Math.round(p / q).
Rounded(p, q) == (2 * p + q) \div (2 * q)

\* Points times tenths are tenths of a point; the sum stops at 100 points.
ScoreEvidence(items) ==
    AtMost(MapThenSumSet(LAMBDA i : BasePoints(items[i].evidenceType) * Multiplier(items[i].verificationState),
                         DOMAIN items), 1000)

\* 0.4 * 100 m/36 + 0.3 proximity + 0.2 evidence + 0.1 * 100 (60 - lag)/60,
\* in tenths over the common denominator 180, rounded once.
Weighted(claim) ==
    Rounded(2000 * AtMost(claim.historyMonths, 36)
            + 540 * ProximityScore(claim.directnessTier)
            + 36 * ScoreEvidence(claim.evidenceItems)
            + 300 * (60 - AtMost(claim.submissionLagDays, 60)), 180)

\* scoreClaim().total: zeroAttributionTiers earn nothing.
ScoreClaim(claim) == IF claim.directnessTier = "D0" THEN 0 ELSE Weighted(claim)

\* tierThresholds
AttributionTier(total) ==
    IF total >= 700 THEN "strong" ELSE IF total >= 400 THEN "moderate" ELSE "negligible"

-----------------------------------------------------------------------------
(* rankClaims: claims is a function from claim id to total and submittedAt.   *)

\* Mutant: the later claim is put first.
ClaimBefore_LatestFirst(claims, c, d) ==
    \/ claims[c].total > claims[d].total
    \/ /\ claims[c].total = claims[d].total
       /\ \/ claims[c].submittedAt > claims[d].submittedAt
          \/ claims[c].submittedAt = claims[d].submittedAt /\ c < d

\* The comparison of the sort: score, then time of submission, then id.
ClaimBefore(claims, c, d) ==
    \/ claims[c].total > claims[d].total
    \/ /\ claims[c].total = claims[d].total
       /\ \/ claims[c].submittedAt < claims[d].submittedAt
          \/ claims[c].submittedAt = claims[d].submittedAt /\ c < d

RankClaims(claims) ==
    [c \in DOMAIN claims |->
        [rank |-> 1 + Cardinality({d \in DOMAIN claims : ClaimBefore(claims, d, c)}),
         tiedWith |-> {d \in DOMAIN claims \ {c} : claims[d] = claims[c]}]]
=============================================================================
