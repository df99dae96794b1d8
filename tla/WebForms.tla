------------------------------ MODULE WebForms ------------------------------
(***************************************************************************)
(* apps/web: what the forms send for what is typed into them, and what the   *)
(* request schemas of packages/contracts take.                              *)
(*                                                                         *)
(* A text is empty, blank (spaces), an identifier, words, or a whole number: *)
(* within the bound of its field, beyond it, or so long that a double holds  *)
(* no such number ("huge").  Neither words nor identifiers begin with a       *)
(* digit; signs and fractions are left out.  A form sends nothing, or a body: *)
(* a function from the fields it fills in to what they hold.  Left out are    *)
(* fields filled from a fixed choice or a calendar, lengths, and the numbers  *)
(* of a claim, which the browser keeps within the bounds of the schema.       *)
(***************************************************************************)
EXTENDS Naturals

Texts == {"empty", "blank", "words", "id", "digits", "toolarge", "huge"}

Trim(t) == IF t = "blank" THEN "empty" ELSE t
Filled(t) == Trim(t) # "empty"
Number(t) == t \in {"digits", "toolarge", "huge"}

\* An optional field is left out when its text is empty.
Body(required, optional) ==
    [f \in DOMAIN required \cup {o \in DOMAIN optional : optional[o] # "empty"} |->
        IF f \in DOMAIN required THEN required[f] ELSE optional[f]]

NoFields == [f \in {} |-> "empty"]

\* What leaves the browser: the body, when the form is complete and the CSRF cookie there.
Send(token, ready, body) == IF token /\ ready THEN {body} ELSE {}

\* `required` of the browser: not empty, but blank is something.
DeclineForm(in, token) == Send(token, in.reason # "empty", [declineReason |-> in.reason])

\* A number input holds a number from its minimum up, or nothing, which counts as 0:
\* too few days to be valid for, and with a huge number of them the date is none.
SubmitQuoteForm(in, token) ==
    LET number(t) == IF Number(t) THEN t ELSE "digits"
    IN  Send(token, in.days \in {"digits", "toolarge"},
             [bps |-> number(in.bps), reserveBps |-> number(in.reserve),
              monthlyAmountMinor |-> number(in.capacity), validUntil |-> in.days])

SelectQuoteSection(in, token) == Send(token, Filled(in.reason), [reason |-> in.reason])
PostConditionForm(in, token) == Send(token, in.description # "empty", [description |-> in.description])
ResolveForm(in, token) == Send(token, TRUE, Body(NoFields, [resolutionNote |-> in.note]))
RecordDecisionForm(in, token) == Send(token, in.reason # "empty", [reason |-> in.reason])
WithdrawForm(in, token) == Send(token, TRUE, Body(NoFields, [withdrawReason |-> Trim(in.reason)]))
ReleaseForm(in, token) == Send(token, Filled(in.conditionRef), [conditionRef |-> Trim(in.conditionRef)])
DisputeForm(in, token) == Send(token, Filled(in.basis), [basis |-> Trim(in.basis)])
DecideForm(in, token) == Send(token, Filled(in.reason), [reason |-> Trim(in.reason)])
FactForm(in, token) ==
    Send(token, Filled(in.key) /\ Filled(in.value), [fieldKey |-> Trim(in.key), normalizedValue |-> Trim(in.value)])
EvidenceForm(in, token) ==
    Send(token, Filled(in.objectRef), Body([objectRef |-> Trim(in.objectRef)], [issuer |-> Trim(in.issuer)]))
VerifyForm(in, token) == Send(token, Filled(in.reason), [reason |-> Trim(in.reason)])
SealSubmissionForm(in, token) ==
    Send(token, \A f \in DOMAIN in : f # "label" => Filled(in[f]),
         Body([counterpartyPrivate |-> Trim(in.counterparty), evidenceSummary |-> Trim(in.evidence),
               priorDealHistory |-> Trim(in.history)],
              [metadataSummary |-> Trim(in.label)]))

\* The subject is chosen from the directory, or typed where there is none to read.
\* There may be no row of evidence; one that is there says something.
CreateClaimForm(in, token) ==
    LET ready == in.subject # "empty" /\ Filled(in.relationship)
        claim == [subjectOrgId |-> in.subject, relationshipType |-> Trim(in.relationship)]
    IN  Send(token, ready, claim)
        \cup Send(token, ready /\ Filled(in.fact), Body(claim, [assertedFact |-> Trim(in.fact)]))

\* Number.parseInt(...) and the bounds of a share.
CreateScheduleForm(in, token) == Send(token, in.bps = "digits", [bps |-> in.bps])

RecordRevenueEventForm(in, token) ==
    Send(token, Number(in.gross) /\ (Filled(in.deductions) => Number(in.deductions)) /\ Filled(in.period),
         Body([period |-> Trim(in.period), source |-> Trim(in.source), grossAmountMinor |-> in.gross],
              [deductionsMinor |-> Trim(in.deductions)]))

\* Number.parseInt(...) again: what is huge parses as Infinity, which is no integer.
EvaluateForm(in, token) ==
    Send(token, Filled(in.ticket) => in.ticket \in {"digits", "toolarge"},
         Body(NoFields, [averageTicketMinor |-> Trim(in.ticket), requiredSettlementRail |-> Trim(in.rail)]))

InputsOf ==
    [decline |-> {"reason"}, submit_quote |-> {"bps", "reserve", "capacity", "days"}, select_quote |-> {"reason"},
     post_condition |-> {"description"}, resolve_condition |-> {"note"}, record_decision |-> {"reason"},
     withdraw |-> {"reason"}, release |-> {"conditionRef"}, dispute |-> {"basis"}, decide |-> {"reason"},
     fact |-> {"key", "value"}, evidence |-> {"objectRef", "issuer"}, verify |-> {"reason"},
     seal |-> {"counterparty", "evidence", "history", "label"}, claim |-> {"subject", "relationship", "fact"},
     schedule |-> {"bps"}, revenue |-> {"period", "source", "gross", "deductions"},
     evaluate |-> {"ticket", "rail"}]

Sent(form, in, token) ==
    CASE form = "decline"           -> DeclineForm(in, token)
      [] form = "submit_quote"      -> SubmitQuoteForm(in, token)
      [] form = "select_quote"      -> SelectQuoteSection(in, token)
      [] form = "post_condition"    -> PostConditionForm(in, token)
      [] form = "resolve_condition" -> ResolveForm(in, token)
      [] form = "record_decision"   -> RecordDecisionForm(in, token)
      [] form = "withdraw"          -> WithdrawForm(in, token)
      [] form = "release"           -> ReleaseForm(in, token)
      [] form = "dispute"           -> DisputeForm(in, token)
      [] form = "decide"            -> DecideForm(in, token)
      [] form = "fact"              -> FactForm(in, token)
      [] form = "evidence"          -> EvidenceForm(in, token)
      [] form = "verify"            -> VerifyForm(in, token)
      [] form = "seal"              -> SealSubmissionForm(in, token)
      [] form = "claim"             -> CreateClaimForm(in, token)
      [] form = "schedule"          -> CreateScheduleForm(in, token)
      [] form = "revenue"           -> RecordRevenueEventForm(in, token)
      [] form = "evaluate"          -> EvaluateForm(in, token)

-----------------------------------------------------------------------------
(* packages/contracts: what a field of a request may hold.                  *)

Ids == {"conditionRef", "subjectOrgId"}
BoundedNumbers == {"bps", "reserveBps", "monthlyAmountMinor", "averageTicketMinor", "validUntil"}
Amounts == {"grossAmountMinor", "deductionsMinor"}
Unchecked == {"normalizedValue", "resolutionNote", "withdrawReason", "issuer", "metadataSummary",
              "requiredSettlementRail"}

\* A number has a bound, if only that of int(): what a double can count; a date has
\* a year of four digits, and an amount sent as a string no bound.  A required string
\* has at least one character, blanks included.
FieldTakes(field, text) ==
    CASE field \in Ids            -> text = "id"
      [] field \in BoundedNumbers -> text = "digits"
      [] field \in Amounts        -> Number(text)
      [] field \in Unchecked      -> TRUE
      [] OTHER                    -> text # "empty"

\* The fields of a body that the schema refuses.
Refused(body) == {f \in DOMAIN body : ~FieldTakes(f, body[f])}
=============================================================================
