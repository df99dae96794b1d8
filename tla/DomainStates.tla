---------------------------- MODULE DomainStates ----------------------------
(***************************************************************************)
(* The status enumerations and transition tables of packages/domain/src.   *)
(* Each table is a set of <<from, to>> pairs, so that a status change is    *)
(* legal exactly when its pair is in the table: this is what the            *)
(* assertValid*Transition functions decide before they return or throw.     *)
(***************************************************************************)
EXTENDS Naturals, Sequences

\* opportunity-states.ts: Opportunity.status
OpportunityStatuses ==
    {"DRAFT", "READINESS_BLOCKED", "MATCH_READY", "INVITED", "QUOTED",
     "SELECTED", "ACTIVATING", "LIVE", "CLOSED"}

OpportunityTransitions ==
    {<<"DRAFT", "READINESS_BLOCKED">>, <<"DRAFT", "MATCH_READY">>,
     <<"READINESS_BLOCKED", "DRAFT">>, <<"READINESS_BLOCKED", "MATCH_READY">>,
     <<"MATCH_READY", "READINESS_BLOCKED">>, <<"MATCH_READY", "INVITED">>,
     <<"INVITED", "MATCH_READY">>, <<"INVITED", "QUOTED">>,
     <<"QUOTED", "INVITED">>, <<"QUOTED", "SELECTED">>,
     <<"SELECTED", "ACTIVATING">>, <<"SELECTED", "QUOTED">>,
     <<"ACTIVATING", "LIVE">>, <<"ACTIVATING", "SELECTED">>,
     <<"LIVE", "CLOSED">>}

\* rfq-states.ts: RFQ.status. QUOTED is the one status that may be re-entered.
RfqStatuses ==
    {"DRAFT", "SENT", "ACKNOWLEDGED", "QUESTIONS", "QUOTED",
     "EXPIRED", "DECLINED", "SELECTED"}

RfqTransitions ==
    {<<"DRAFT", "SENT">>}
    \cup ({"SENT"} \X {"ACKNOWLEDGED", "QUESTIONS", "QUOTED", "EXPIRED", "DECLINED"})
    \cup ({"ACKNOWLEDGED"} \X {"QUESTIONS", "QUOTED", "EXPIRED", "DECLINED"})
    \cup ({"QUESTIONS"} \X {"QUOTED", "EXPIRED", "DECLINED"})
    \cup ({"QUOTED"} \X {"SELECTED", "QUOTED", "EXPIRED", "DECLINED"})

\* rfq-states.ts: RFQRecipient.state
RecipientStates == {"INVITED", "ACKNOWLEDGED", "DECLINED", "QUOTED", "EXPIRED"}

RecipientTransitions ==
    ({"INVITED"} \X {"ACKNOWLEDGED", "DECLINED", "QUOTED", "EXPIRED"})
    \cup ({"ACKNOWLEDGED"} \X {"DECLINED", "QUOTED", "EXPIRED"})
    \cup ({"QUOTED"} \X {"DECLINED", "EXPIRED"})

\* rfq-states.ts: Quote.status
QuoteStatuses == {"SUBMITTED", "SELECTED", "REJECTED", "EXPIRED", "WITHDRAWN"}

QuoteTransitions ==
    {"SUBMITTED"} \X {"SELECTED", "REJECTED", "EXPIRED", "WITHDRAWN"}

\* economics-states.ts: CommissionSchedule.status
ScheduleStatuses == {"DRAFT", "ACTIVE", "SUPERSEDED", "RETIRED"}

ScheduleTransitions ==
    ({"DRAFT"} \X {"ACTIVE", "RETIRED"}) \cup ({"ACTIVE"} \X {"SUPERSEDED", "RETIRED"})

\* claim-states.ts: Claim.status. Nothing in the code writes EXPIRED or WITHDRAWN.
ClaimStatuses ==
    {"FILED", "SCORED", "VERIFIED", "PARTIAL", "DISPUTED", "REJECTED",
     "EXPIRED", "WITHDRAWN"}

ClaimTransitions ==
    ({"FILED"} \X {"SCORED", "WITHDRAWN"})
    \cup ({"SCORED"} \X {"VERIFIED", "PARTIAL", "REJECTED", "DISPUTED", "EXPIRED", "WITHDRAWN"})
    \cup ({"VERIFIED", "PARTIAL"} \X {"DISPUTED"})
    \cup ({"DISPUTED"} \X {"VERIFIED", "PARTIAL", "REJECTED"})

ClaimDecisionOutcomes == {"VERIFIED", "PARTIAL", "REJECTED"}

\* passport-states.ts: Passport.status. Nothing in the code writes SUSPENDED.
PassportStatuses ==
    {"DRAFT", "INCOMPLETE", "READY", "VERIFIED", "STALE", "SUSPENDED"}

PassportTransitions ==
    ({"DRAFT"} \X {"INCOMPLETE", "READY", "SUSPENDED"})
    \cup ({"INCOMPLETE"} \X {"READY", "SUSPENDED"})
    \cup ({"READY"} \X {"INCOMPLETE", "VERIFIED", "STALE", "SUSPENDED"})
    \cup ({"VERIFIED"} \X {"INCOMPLETE", "READY", "STALE", "SUSPENDED"})
    \cup ({"STALE"} \X {"INCOMPLETE", "READY", "VERIFIED", "SUSPENDED"})
    \cup {<<"SUSPENDED", "INCOMPLETE">>}

\* lockbox-states.ts: Lockbox.status.  No row is ever a DRAFT, and nothing in the
\* code writes MATCH_ELIGIBLE or DISPUTED.
LockboxStatuses ==
    {"DRAFT", "SEALED", "COMMITTED", "FROZEN", "OPENED", "MATCH_ELIGIBLE", "WITHDRAWN", "DISPUTED"}

LockboxTransitions ==
    {<<"DRAFT", "SEALED">>}
    \cup ({"SEALED"} \X {"COMMITTED", "WITHDRAWN"})
    \cup ({"COMMITTED"} \X {"FROZEN", "WITHDRAWN", "DISPUTED"})
    \cup ({"FROZEN"} \X {"OPENED", "DISPUTED"})
    \cup ({"OPENED"} \X {"MATCH_ELIGIBLE", "DISPUTED"})
    \cup ({"MATCH_ELIGIBLE"} \X {"WITHDRAWN", "DISPUTED"})
    \cup ({"DISPUTED"} \X {"FROZEN", "WITHDRAWN"})

\* canWithdrawFrom
CanWithdrawFrom(status) == <<status, "WITHDRAWN">> \in LockboxTransitions

LockboxReleaseCascade == <<"SEALED", "COMMITTED", "FROZEN", "OPENED">>

\* assertValidLockboxReleaseCascade: the status is on the cascade, short of its
\* end, and every hop from there is in the table.
CanReleaseFrom(status) ==
    \E i \in 1..3 :
        /\ LockboxReleaseCascade[i] = status
        /\ \A j \in i..3 : <<LockboxReleaseCascade[j], LockboxReleaseCascade[j + 1]>> \in LockboxTransitions

\* deal-states.ts: DealRoom.status and DealCondition.state
DealRoomStatuses ==
    {"OPEN", "CONDITIONS", "APPROVED", "ACTIVATION", "LIVE", "DECLINED", "ARCHIVED"}

DealRoomTransitions ==
    ({"OPEN"} \X {"CONDITIONS", "APPROVED", "DECLINED"})
    \cup ({"CONDITIONS"} \X {"APPROVED", "DECLINED"})
    \cup ({"APPROVED"} \X {"ACTIVATION", "DECLINED"})
    \cup ({"ACTIVATION"} \X {"LIVE", "DECLINED"})
    \cup {<<"LIVE", "ARCHIVED">>}

ConditionStates == {"PENDING", "SATISFIED", "WAIVED", "REJECTED"}

ConditionTransitions ==
    ({"PENDING"} \X {"SATISFIED", "WAIVED", "REJECTED"}) \cup {<<"REJECTED", "PENDING">>}
=============================================================================
