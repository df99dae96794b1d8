--------------------------- MODULE MCCalculations ---------------------------
(* Inputs of Calculations for TLC.                                            *)
EXTENDS Calculations

\* An opportunity and a capacity that fit, and what may differ from them: any
\* value of the fields of one or two rule families at a time.
Opportunity == [currency |-> "EUR", jurisdictions |-> {1, 2}, mccs |-> {1, 2}, movable30d |-> 2]
Capacity ==
    [currency |-> "EUR", jurisdictions |-> {1, 2, 3}, mccsAccepted |-> {1, 2, 3}, mccsExcluded |-> {},
     acceptingNewVolume |-> TRUE, monthlyCapacity |-> 4, minTicket |-> 1, maxTicket |-> 2,
     ceiling |-> [chargeback |-> 3, fraud |-> 2, refund |-> 0], settlementRail |-> "SEPA",
     settlementCadenceDays |-> 3, freshness |-> "FRESH", mdrBps |-> 200]
NoRisk == [chargeback |-> Absent, fraud |-> Absent, refund |-> Absent]
MatchContext ==
    [passportStatus |-> "READY", averageTicket |-> Absent, requiredRail |-> Absent, hold |-> FALSE, risk |-> NoRisk]

Input(opp, cap, ctx) == [opp |-> opp, cap |-> cap, ctx |-> ctx]

CoverageInputs ==
    {Input([Opportunity EXCEPT !.jurisdictions = j, !.mccs = m],
           [Capacity EXCEPT !.jurisdictions = k, !.mccsAccepted = a, !.mccsExcluded = x], MatchContext) :
        j \in SUBSET {1, 2}, m \in SUBSET {1, 2}, k \in SUBSET {1, 2}, a \in SUBSET {1, 2, 3}, x \in SUBSET {1, 3}}

VolumeInputs ==
    {Input([Opportunity EXCEPT !.movable30d = d],
           [Capacity EXCEPT !.currency = u, !.monthlyCapacity = c, !.acceptingNewVolume = v, !.freshness = f,
                            !.settlementRail = s],
           [MatchContext EXCEPT !.requiredRail = r]) :
        d \in 0..3, u \in {"EUR", "USD"}, c \in 0..16, v \in BOOLEAN,
        f \in {"FRESH", "AGING", "STALE", "UNKNOWN"}, s \in {"SEPA", "SWIFT"}, r \in {Absent, "SEPA"}}

TermInputs ==
    {Input(Opportunity, [Capacity EXCEPT !.maxTicket = t, !.settlementCadenceDays = n, !.mdrBps = b],
           [MatchContext EXCEPT !.averageTicket = w, !.passportStatus = p, !.hold = h]) :
        t \in {0, 1, 2}, n \in {0, 1, 7, 10, 11}, b \in {Absent, 0, 80, 81, 263, 450, 451},
        w \in {Absent, 0, 1, 2, 3}, p \in {Absent, "DRAFT", "READY", "VERIFIED", "STALE"}, h \in BOOLEAN}

RiskInputs ==
    {Input(Opportunity, [Capacity EXCEPT !.ceiling = z], [MatchContext EXCEPT !.risk = y]) :
        z \in [{"chargeback", "fraud", "refund"} -> {0, 2, 3}],
        y \in [{"chargeback", "fraud", "refund"} -> {Absent, 0, 1, 3}]}

MCMatchInputs == {CoverageInputs, VolumeInputs, TermInputs, RiskInputs}

\* Two candidates, around the days at which a profile and a readiness age; one of the
\* capacities does not fit the ticket and the rail that a request may ask for.
MCPassInputs ==
    LET candidates ==
          [cap: {Capacity, [Capacity EXCEPT !.mdrBps = 80, !.maxTicket = 1, !.settlementRail = "SWIFT"],
                 [Capacity EXCEPT !.acceptingNewVolume = FALSE]},
           asOf: {0, 1, 61}, passport: {Absent} \cup [status: {"READY", "BLOCKED"}, computedAt: {0, 1}]]
    IN  {[opp |-> Opportunity, candidates |-> c, asked |-> a, now |-> 91] :
            c \in [1..2 -> candidates], a \in [averageTicket: {Absent, 2}, requiredRail: {Absent, "SEPA"}]}

\* A pass over some of two capacities, of which each eligible one has a place.
Passes ==
    UNION {UNION {{[c \in over |-> [eligible |-> c \in DOMAIN rank, evaluatedAt |-> t,
                                   rank |-> IF c \in DOMAIN rank THEN rank[c] ELSE Absent]] :
                      rank \in {r \in [ranked -> 1..2] : {r[c] : c \in ranked} = 1..Cardinality(ranked)}} :
                      ranked \in SUBSET over} : over \in SUBSET {1, 2}, t \in 1..3}

MCHistories == [1..3 -> Passes]

MCRankInputs == UNION {[ids -> 0..3] : ids \in SUBSET (1..4)}

Item(type, state) == [evidenceType |-> type, verificationState |-> state]
Items ==
    {Item(t, s) : t \in {"CONTRACT", "COUNTERPARTY_ACKNOWLEDGMENT", "EMAIL_THREAD", "CRM_RECORD", "OTHER"},
                  s \in {"SELF_REPORTED", "DOCUMENT_EXTRACTED", "API_VERIFIED", "OPERATOR_VERIFIED"}}

\* No, one, two, or enough pieces of evidence to pass the ceiling.
MCClaimInputs ==
    [historyMonths: {0, 1, 17, 36, 37}, directnessTier: DirectnessTiers, submissionLagDays: {0, 1, 29, 60, 61},
     evidenceItems: {<<>>} \cup {<<e>> : e \in Items} \cup {<<e, e, e>> : e \in Items}]

MCRankedClaims == UNION {[ids -> [total: {0, 400, 700}, submittedAt: 1..2]] : ids \in SUBSET (1..3)}

\* Two schedules of two bases, the newer with components that may have another
\* basis of their own; an event of each basis, one of them with deductions; none,
\* one or two later entries, the first of two a payment.
MCLedgerInputs ==
    LET fixed == [kind |-> "FIXED_AMOUNT", value |-> 1]
        bps(n) == [kind |-> "PERCENTAGE_BPS", value |-> n]
        schedules == {[basis |-> "GPV", components |-> k, basisOf |-> b, cap |-> 2, floor |-> 1] :
                        k \in {<<bps(5), fixed>>, <<bps(5), bps(5)>>, <<bps(2), bps(3)>>},
                        b \in [1..2 -> {Null, "SETUP_FEE"}]}
        old == [basis |-> "SETUP_FEE", components |-> <<bps(5)>>, basisOf |-> <<Null>>, cap |-> Null, floor |-> Null]
        events == [basis: {"GPV", "SETUP_FEE"}, gross: 1..2, deductions: {0, 2}]
        entries == {[event |-> 1, component |-> c, entryType |-> t[1], direction |-> t[2], amount |-> a] :
                      c \in 1..2, a \in 1..2,
                      t \in {"ADJUSTMENT", "PAYMENT", "REVERSAL"} \X {"CREDIT", "DEBIT"}}
        later == {<<>>} \cup {<<x>> : x \in entries}
                 \cup {<<x, y>> : x \in {z \in entries : z.entryType = "PAYMENT" /\ z.amount = 1},
                                  y \in {z \in entries : z.entryType # "PAYMENT"}}
    IN  {[schedules |-> <<s, old>>, events |-> <<e, f>>, later |-> l] : s \in schedules, e \in events,
            f \in {x \in events : x.gross = 2 /\ x.deductions = 0}, l \in later}

MCSecrets == {0, 1, 83, 255}
MCCoeffs == {<<a>> : a \in Byte}
=============================================================================
