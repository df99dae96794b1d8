--------------------------- MODULE MatchingEngine ---------------------------
(***************************************************************************)
(* packages/matching: the eligibility rules, the ranking factors and the     *)
(* ranking of the eligible capacities.  Pure functions of an opportunity,    *)
(* a capacity profile and a context.                                         *)
(*                                                                         *)
(* Money, basis points and days are naturals.  Scores are tenths of a point  *)
(* (0..1000 for the code's 0..100 with one decimal) and weights hundredths,  *)
(* computed exactly: where the code's doubles fall exactly between two       *)
(* tenths, the model rounds up.  Amounts are assumed to stay below 2^53, the  *)
(* bound under which Number() of a bigint is exact.  `Absent' stands for an   *)
(* undefined input.                                                         *)
(***************************************************************************)
EXTENDS Integers, FiniteSets

CONSTANT Absent

\* MatchCapacityInput; mdrBps is commercialTerms', Absent when there are none.
CapacityFields ==
    {"currency", "jurisdictions", "mccsAccepted", "mccsExcluded", "acceptingNewVolume",
     "monthlyCapacity", "minTicket", "maxTicket", "ceiling", "settlementRail",
     "settlementCadenceDays", "freshness", "mdrBps"}

RuleFamilies ==
    {"ROLE", "JURISDICTION", "MCC_PRODUCT", "VOLUME_TICKET", "EVIDENCE_LICENSE", "RISK",
     "SETTLEMENT", "TECHNICAL", "FRESHNESS", "COMPLIANCE_HOLD"}

\* overridableByCode: the codes an operator may not wave through.
NonOverridable ==
    {"JURISDICTION_UNSPECIFIED", "JURISDICTION_NO_OVERLAP", "MCC_UNSPECIFIED",
     "MCC_ACCEPTED_LIST_EMPTY", "MCC_EXCLUDED", "MCC_NOT_ACCEPTED", "EVIDENCE_LICENSE_NOT_READY",
     "EVIDENCE_LICENSE_UNKNOWN", "FRESHNESS_UNKNOWN", "COMPLIANCE_HOLD_ACTIVE"}

\* A RuleResult without its wording.
Finding(rule, code, status, blocking) ==
    [rule |-> rule, code |-> code, status |-> status, blocking |-> blocking,
     overridable |-> code \notin NonOverridable]
Pass(rule, code) == Finding(rule, code, "PASS", FALSE)

CheckRole == Pass("ROLE", "ROLE_ASSUMED_COMPATIBLE")

CheckJurisdiction(opp, cap) ==
    CASE opp.jurisdictions = {} \/ cap.jurisdictions = {} ->
            Finding("JURISDICTION", "JURISDICTION_UNSPECIFIED", "UNKNOWN", TRUE)
      [] OTHER ->
            IF opp.jurisdictions \cap cap.jurisdictions = {}
            THEN Finding("JURISDICTION", "JURISDICTION_NO_OVERLAP", "INELIGIBLE", TRUE)
            ELSE Pass("JURISDICTION", "JURISDICTION_OVERLAP_OK")

CheckMccProduct(opp, cap) ==
    IF opp.mccs = {} THEN Finding("MCC_PRODUCT", "MCC_UNSPECIFIED", "UNKNOWN", TRUE)
    ELSE IF cap.mccsAccepted = {} THEN Finding("MCC_PRODUCT", "MCC_ACCEPTED_LIST_EMPTY", "UNKNOWN", TRUE)
    ELSE IF opp.mccs \cap cap.mccsExcluded # {} THEN Finding("MCC_PRODUCT", "MCC_EXCLUDED", "INELIGIBLE", TRUE)
    ELSE IF ~(opp.mccs \subseteq cap.mccsAccepted) THEN Finding("MCC_PRODUCT", "MCC_NOT_ACCEPTED", "INELIGIBLE", TRUE)
    ELSE Pass("MCC_PRODUCT", "MCC_COVERED")

\* bigintRatio >= 1: with no demand any capacity is enough.
Headroom(opp, cap) == cap.monthlyCapacity >= opp.movable30d

\* checkVolumeTicket, first finding; a currency mismatch is left to SETTLEMENT.
CheckVolume(opp, cap) ==
    IF ~cap.acceptingNewVolume THEN Finding("VOLUME_TICKET", "VOLUME_NOT_ACCEPTING", "INELIGIBLE", TRUE)
    ELSE IF opp.currency # cap.currency THEN Finding("VOLUME_TICKET", "VOLUME_CURRENCY_MISMATCH", "UNKNOWN", FALSE)
    ELSE IF ~Headroom(opp, cap) THEN Finding("VOLUME_TICKET", "VOLUME_INSUFFICIENT_HEADROOM", "INELIGIBLE", TRUE)
    ELSE Pass("VOLUME_TICKET", "VOLUME_HEADROOM_OK")

\* checkVolumeTicket, second finding; a maximum of 0 is no maximum.
CheckTicket(cap, ctx) ==
    IF ctx.averageTicket = Absent THEN Finding("VOLUME_TICKET", "TICKET_SIZE_NOT_SUPPLIED", "UNKNOWN", FALSE)
    ELSE IF \/ ctx.averageTicket < cap.minTicket
            \/ cap.maxTicket > 0 /\ ctx.averageTicket > cap.maxTicket
    THEN Finding("VOLUME_TICKET", "TICKET_SIZE_OUT_OF_RANGE", "INELIGIBLE", TRUE)
    ELSE Pass("VOLUME_TICKET", "TICKET_SIZE_OK")

\* Mutant: a passport nobody looked up is let through.
CheckEvidenceLicense_FailOpen(ctx) ==
    IF ctx.passportStatus \in {"READY", "VERIFIED"} THEN Pass("EVIDENCE_LICENSE", "EVIDENCE_LICENSE_READY")
    ELSE Finding("EVIDENCE_LICENSE", "EVIDENCE_LICENSE_NOT_READY", "BLOCKED", ctx.passportStatus # Absent)

CheckEvidenceLicense(ctx) ==
    IF ctx.passportStatus = Absent THEN Finding("EVIDENCE_LICENSE", "EVIDENCE_LICENSE_UNKNOWN", "UNKNOWN", TRUE)
    ELSE IF ctx.passportStatus \in {"READY", "VERIFIED"} THEN Pass("EVIDENCE_LICENSE", "EVIDENCE_LICENSE_READY")
    ELSE Finding("EVIDENCE_LICENSE", "EVIDENCE_LICENSE_NOT_READY", "BLOCKED", TRUE)

\* The merchant's known figures, each beside the capacity's ceiling.
Risks == {"chargeback", "fraud", "refund"}
KnownRisks(ctx) == {r \in Risks : ctx.risk[r] # Absent}

CheckRisk(cap, ctx) ==
    IF KnownRisks(ctx) = {} THEN Finding("RISK", "RISK_NO_HISTORY", "UNKNOWN", FALSE)
    ELSE IF \E r \in KnownRisks(ctx) : ctx.risk[r] > cap.ceiling[r]
    THEN Finding("RISK", "RISK_CEILING_EXCEEDED", "INELIGIBLE", TRUE)
    ELSE Pass("RISK", "RISK_WITHIN_CEILING")

CheckSettlement(opp, cap, ctx) ==
    IF opp.currency # cap.currency
    THEN Finding("SETTLEMENT", "SETTLEMENT_CURRENCY_UNSUPPORTED", "INELIGIBLE", TRUE)
    ELSE IF ctx.requiredRail # Absent /\ ctx.requiredRail # cap.settlementRail
    THEN Finding("SETTLEMENT", "SETTLEMENT_RAIL_UNSUPPORTED", "INELIGIBLE", TRUE)
    ELSE Pass("SETTLEMENT", "SETTLEMENT_OK")

CheckTechnical == Finding("TECHNICAL", "TECHNICAL_NOT_EVALUATED", "UNKNOWN", FALSE)

CheckFreshness(cap) ==
    CASE cap.freshness = "FRESH"   -> Pass("FRESHNESS", "FRESHNESS_FRESH")
      [] cap.freshness = "AGING"   -> Finding("FRESHNESS", "FRESHNESS_AGING", "REFRESH_REQUIRED", FALSE)
      [] cap.freshness = "STALE"   -> Finding("FRESHNESS", "FRESHNESS_STALE", "REFRESH_REQUIRED", TRUE)
      [] cap.freshness = "UNKNOWN" -> Finding("FRESHNESS", "FRESHNESS_UNKNOWN", "REFRESH_REQUIRED", TRUE)

CheckComplianceHold(ctx) ==
    IF ctx.hold THEN Finding("COMPLIANCE_HOLD", "COMPLIANCE_HOLD_ACTIVE", "BLOCKED", TRUE)
    ELSE Pass("COMPLIANCE_HOLD", "COMPLIANCE_HOLD_NONE_KNOWN")

EvaluateEligibility(opp, cap, ctx) ==
    LET results == {CheckRole, CheckJurisdiction(opp, cap), CheckMccProduct(opp, cap),
                    CheckVolume(opp, cap), CheckTicket(cap, ctx), CheckEvidenceLicense(ctx),
                    CheckRisk(cap, ctx), CheckSettlement(opp, cap, ctx), CheckTechnical,
                    CheckFreshness(cap), CheckComplianceHold(ctx)}
        blockers == {r \in results : r.status # "PASS" /\ r.blocking}
    IN  [eligible |-> blockers = {}, results |-> results, blockers |-> blockers,
         warnings |-> {r \in results : r.status # "PASS" /\ ~r.blocking}]

-----------------------------------------------------------------------------
(* scoring.ts                                                               *)

Clamp(low, high, n) == IF n < low THEN low ELSE IF n > high THEN high ELSE n

\* Math.round(p / q).
RoundDiv(p, q) == (2 * p + q) \div (2 * q)

\* Mutant: a ratio above the band scores above 100.
Score_NoClamp(p, q) == RoundDiv(1000 * p, q)

\* clamp0to100 and round1 of 100 * p / q, in tenths.
Score(p, q) == Clamp(0, 1000, RoundDiv(1000 * p, q))

Neutral == 500

\* Twice the extras, at most twenty points, off the coverage.
ScoreMccProductFit(opp, cap) ==
    LET matched == Cardinality(opp.mccs \cap cap.mccsAccepted)
        penalty == Clamp(0, 20, 2 * (Cardinality(cap.mccsAccepted) - matched))
        asked   == Cardinality(opp.mccs)
    IN  IF asked = 0 THEN 0 ELSE Score(100 * matched - penalty * asked, 100 * asked)

ScoreGeographyLicensingFit(opp, cap) ==
    IF opp.jurisdictions = {} THEN 0
    ELSE Score(Cardinality(opp.jurisdictions \cap cap.jurisdictions), Cardinality(opp.jurisdictions))

\* The headroom ratio over the band 1..5.
ScoreVolumeTicketFit(opp, cap) ==
    IF opp.currency # cap.currency \/ opp.movable30d = 0 THEN Neutral
    ELSE Score(cap.monthlyCapacity - opp.movable30d, 4 * opp.movable30d)

\* The average share of the ceilings left unused: sum over the n figures of
\* (ceiling - figure) / ceiling, over n, on the common denominator.
ScoreRiskHistoryFit(cap, ctx) ==
    LET used == {r \in KnownRisks(ctx) : cap.ceiling[r] > 0}
        scale(r) == IF r \in used THEN cap.ceiling[r] ELSE 1
        spare(r) == IF r \in used THEN cap.ceiling[r] - ctx.risk[r] ELSE 0
        unused == spare("chargeback") * (scale("fraud") * scale("refund"))
                  + spare("fraud") * (scale("chargeback") * scale("refund"))
                  + spare("refund") * (scale("chargeback") * scale("fraud"))
    IN  IF used = {} THEN Neutral
        ELSE Score(unused, Cardinality(used) * (scale("fraud") * (scale("chargeback") * scale("refund"))))

\* The cadence over the band 1..10 days, and the rate over 80..450 basis points.
ScoreSettlementCurrencyFit(opp, cap) ==
    IF opp.currency # cap.currency THEN 0 ELSE Score(10 - cap.settlementCadenceDays, 9)

ScoreCommercialUtility(cap) ==
    IF cap.mdrBps = Absent THEN Neutral ELSE Score(450 - cap.mdrBps, 370)

ScoreTechnicalLaunchFit == 700

ScoreProviderReliabilityFreshness(cap) ==
    CASE cap.freshness = "FRESH" -> 1000
      [] cap.freshness = "AGING" -> 600
      [] cap.freshness = "STALE" -> 200
      [] cap.freshness = "UNKNOWN" -> 0

ScoreOutcomeCalibratedLikelihood == 500

\* Each contribution is rounded before they are added.
Contribution(score, weight) == RoundDiv(score * weight, 100)

\* scoreMatch().total; the weights are rankingWeights.
ScoreMatch(opp, cap, ctx) ==
    Contribution(ScoreMccProductFit(opp, cap), 22)
    + Contribution(ScoreGeographyLicensingFit(opp, cap), 17)
    + Contribution(ScoreVolumeTicketFit(opp, cap), 13)
    + Contribution(ScoreRiskHistoryFit(cap, ctx), 13)
    + Contribution(ScoreSettlementCurrencyFit(opp, cap), 10)
    + Contribution(ScoreCommercialUtility(cap), 10)
    + Contribution(ScoreTechnicalLaunchFit, 7)
    + Contribution(ScoreProviderReliabilityFreshness(cap), 5)
    + Contribution(ScoreOutcomeCalibratedLikelihood, 3)

-----------------------------------------------------------------------------
(* ranking.ts.  Capacities are named by naturals, which the code compares as  *)
(* strings; total is a function from the capacities to be ranked.            *)

\* The comparison of the sort.
RankedBefore(total, a, b) == total[a] > total[b] \/ (total[a] = total[b] /\ a < b)

\* rankMatches: the place in the sorted list, and who has the same total.
RankMatches(total) ==
    [a \in DOMAIN total |->
        [rank |-> 1 + Cardinality({b \in DOMAIN total : RankedBefore(total, b, a)}),
         total |-> total[a],
         tiedWith |-> {b \in DOMAIN total \ {a} : total[b] = total[a]}]]
=============================================================================
