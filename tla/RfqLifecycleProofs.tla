------------------------- MODULE RfqLifecycleProofs -------------------------
(***************************************************************************)
(* Proofs about RfqLifecycle for every set of opportunities, RFQs,         *)
(* providers, quotes and concurrent requests, and for every clock bound.   *)
(***************************************************************************)
EXTENDS RfqLifecycle, TLAPS

\* An RFQ names an opportunity; a quote names an RFQ that exists and a provider.
RowRefs ==
    /\ \A r \in Rfqs : Exists(rfq[r]) => rfq[r].opp \in Opportunities
    /\ \A t \in Quotes : Exists(quote[t]) =>
        /\ quote[t].rfq \in Rfqs /\ Exists(rfq[quote[t].rfq])
        /\ quote[t].provider \in Providers

\* A request in flight knows the rows its next step needs.
RequestRefs(q) ==
    /\ pc[q] \in {"createReady", "createCommitted"} => target[q].opp \in Opportunities
    /\ pc[q] = "createCommitted" => target[q].rfq \in Rfqs
    /\ pc[q] \in {"declineReady", "submitOpportunityRead", "submitReady"} =>
         target[q].rfq \in Rfqs /\ target[q].provider \in Providers
    /\ pc[q] \in {"submitOpportunityRead", "submitReady", "selectRfqRead",
                  "selectOpportunityRead", "selectReady"} =>
         /\ target[q].rfq \in Rfqs /\ Exists(rfq[target[q].rfq])
         /\ target[q].opp = rfq[target[q].rfq].opp
    /\ pc[q] \in {"withdrawReady", "selectRfqRead", "selectOpportunityRead", "selectReady"} =>
         target[q].quote \in Quotes
    /\ pc[q] \in {"withdrawReady", "selectReady"} => Exists(quote[target[q].quote])
    /\ pc[q] = "selectReady" => quote[target[q].quote].rfq = target[q].rfq

RefsResolve == RowRefs /\ \A q \in Requests : RequestRefs(q)

\* Rows are never deleted and never change hands, so what a request saw
\* existing still exists when its transaction runs.
RowsPersist ==
    /\ \A r \in Rfqs : Exists(rfq[r]) => Exists(rfq'[r]) /\ rfq'[r].opp = rfq[r].opp
    /\ \A t \in Quotes : Exists(quote[t]) =>
        /\ Exists(quote'[t])
        /\ quote'[t].rfq = quote[t].rfq /\ quote'[t].provider = quote[t].provider

IInv ==
    /\ TypeOK
    /\ RefsResolve
    /\ DealMatchesAward
    /\ OneDealPerRfq
    /\ QuoteVersionsDistinct
    /\ ExpiryKeyIsSpent

-----------------------------------------------------------------------------
(* Facts about the tables and the rows                                     *)

\* What the transition tables of rfq-states.ts allow, as far as it matters.
LEMMA Tables ==
    /\ \A s : <<s, "SELECTED">> \in QuoteTransitions => s = "SUBMITTED"
    /\ \A s : <<s, "WITHDRAWN">> \in QuoteTransitions => s = "SUBMITTED"
    /\ \A s : <<s, "SELECTED">> \in RfqTransitions => s = "QUOTED"
    /\ \A s : <<s, "QUOTED">> \in RecipientTransitions => s \in RecipientStates
BY DEF QuoteTransitions, RfqTransitions, RecipientTransitions, RecipientStates

\* The statuses the code writes are statuses.
LEMMA StatusMembers ==
    /\ {"MATCH_READY", "INVITED", "QUOTED", "SELECTED"} \subseteq OpportunityStatuses
    /\ {"SENT", "QUOTED", "EXPIRED", "SELECTED"} \subseteq RfqStatuses
    /\ {"INVITED", "DECLINED", "QUOTED"} \subseteq RecipientStates
    /\ {"SUBMITTED", "WITHDRAWN", "SELECTED"} \subseteq QuoteStatuses
    /\ ExpirableStatuses \subseteq RfqStatuses
BY DEF OpportunityStatuses, RfqStatuses, RecipientStates, QuoteStatuses, ExpirableStatuses

\* The empty rows and requests have the types of rows and requests.
LEMMA EmptyTypes ==
    /\ NoTarget \in Target
    /\ NoSnapshot \in Snapshot
    /\ AbsentRfq \in RfqRow
    /\ AbsentQuote \in QuoteRow
BY DEF NoTarget, Target, NoSnapshot, Snapshot, AbsentRfq, RfqRow, AbsentQuote, QuoteRow

\* Changing the status of a row keeps the row in its type.
LEMMA RfqUpdate ==
    ASSUME NEW f \in [Rfqs -> RfqRow], NEW r, NEW s \in RfqStatuses
    PROVE  [f EXCEPT ![r].status = s] \in [Rfqs -> RfqRow]
BY DEF RfqRow

\* The same for quotes.
LEMMA QuoteUpdate ==
    ASSUME NEW f \in [Quotes -> QuoteRow], NEW t, NEW s \in QuoteStatuses
    PROVE  [f EXCEPT ![t].status = s] \in [Quotes -> QuoteRow]
BY DEF QuoteRow

\* expireOne keeps the rows and the idempotency records typed.
LEMMA ExpireOneTypes ==
    ASSUME TypeOK, NEW r \in Rfqs, ExpireOne(r)
    PROVE  rfq' \in [Rfqs -> RfqRow] /\ expiryKey' \in [Rfqs -> RfqStatuses \cup {"ABSENT"}]
<1>1. CASE rfq[r].status \in ExpirableStatuses /\ expiryKey[r] = "ABSENT"
  <2>1. rfq' = [rfq EXCEPT ![r].status = "EXPIRED"] /\ expiryKey' = [expiryKey EXCEPT ![r] = rfq[r].status]
    BY <1>1 DEF ExpireOne
  <2>2. rfq' \in [Rfqs -> RfqRow]
    BY <2>1, RfqUpdate, StatusMembers DEF TypeOK
  <2>3. rfq[r].status \in RfqStatuses
    BY <1>1, StatusMembers
  <2> QED BY <2>1, <2>2, <2>3 DEF TypeOK
<1>2. CASE ~(rfq[r].status \in ExpirableStatuses /\ expiryKey[r] = "ABSENT")
  BY <1>2 DEF ExpireOne, TypeOK
<1> QED BY <1>1, <1>2

\* nextQuoteVersion returns naturals.
LEMMA NextVersionNat ==
    ASSUME TypeOK, NEW r, NEW p, NEW n \in NextQuoteVersion(r, p)
    PROVE  n \in Nat
BY DEF NextQuoteVersion, TypeOK, QuotesBy, QuotesOf, QuoteRow

-----------------------------------------------------------------------------
(* Type correctness                                                        *)

LEMMA InitIInv == Init => IInv
<1> SUFFICES ASSUME Init PROVE IInv
  OBVIOUS
<1>1. TypeOK
  BY EmptyTypes, StatusMembers DEF Init, TypeOK, RequestPoints
<1>2. RefsResolve
  BY DEF Init, RefsResolve, RowRefs, RequestRefs, Exists, AbsentRfq, AbsentQuote
<1>3. DealMatchesAward /\ OneDealPerRfq
  BY DEF Init, DealMatchesAward, OneDealPerRfq, AbsentRfq, AbsentQuote
<1>4. QuoteVersionsDistinct /\ ExpiryKeyIsSpent
  BY DEF Init, QuoteVersionsDistinct, ExpiryKeyIsSpent, Exists, AbsentQuote
<1> QED BY <1>1, <1>2, <1>3, <1>4 DEF IInv

\* One step of the system keeps every variable in its type; the references are
\* needed because a request's target may be None until they say it is not.
LEMMA TypeOKStep ==
    ASSUME TypeOK, RefsResolve, [Next]_vars
    PROVE  TypeOK'
<1> USE ConstantsAssumption, EmptyTypes, StatusMembers
<1>0. CASE UNCHANGED vars
  BY <1>0 DEF TypeOK, vars, dbVars, requestVars, workerVars
<1>1. ASSUME NEW q \in Requests, RequestStep(q) PROVE TypeOK'
  <2> USE DEF TypeOK, dbVars, workerVars, requestVars, RequestPoints
  <2>1. CASE Fail(q)
    BY <2>1 DEF Fail, Finish
  <2>2. ASSUME NEW o \in Opportunities, CreateRead(q, o) PROVE TypeOK'
    BY <2>2 DEF CreateRead, Begin, Target, Snapshot
  <2>3. CASE CreateCommit(q)
    <3>1. PICK r \in Rfqs, invited \in SUBSET Providers, d \in DueDates : CreateRows(q, r, invited, d)
      BY <2>3 DEF CreateCommit
    <3>2. [opp |-> target[q].opp, status |-> "SENT", dueAt |-> d] \in RfqRow
      BY DEF RfqRow, Target, ConstantsAssumption
    <3>3. rfq' \in [Rfqs -> RfqRow]
      BY <3>1, <3>2 DEF CreateRows
    <3>4. recipient' \in [Rfqs -> [Providers -> RecipientStates \cup {"ABSENT"}]]
      BY <3>1 DEF CreateRows
    <3>5. target' \in [Requests -> Target]
      BY <3>1, ZenonT(60) DEF Target, CreateRows
    <3>6. opportunity' \in [Opportunities -> OpportunityStatuses]
      BY <2>3 DEF CreateCommit
    <3> QED BY <2>3, <3>3, <3>4, <3>5, <3>6 DEF CreateCommit
  <2>4. CASE CreateEnqueue(q)
    BY <2>4 DEF CreateEnqueue, Finish, RefsResolve, RequestRefs
  <2>5. ASSUME NEW r \in Rfqs, NEW p \in Providers, DeclineRead(q, r, p) PROVE TypeOK'
    BY <2>5 DEF DeclineRead, Begin, Target
  <2>6. CASE DeclineCommit(q)
    BY <2>6 DEF DeclineCommit, Finish
  <2>7. ASSUME NEW r \in Rfqs, NEW p \in Providers, SubmitReadOpportunity(q, r, p) PROVE TypeOK'
    BY <2>7 DEF SubmitReadOpportunity, Begin, Target, Snapshot, RefsResolve, RowRefs, RequestRefs, RfqRow
  <2>8. CASE SubmitReadRecipient(q)
    BY <2>8, Tables DEF SubmitReadRecipient, SubmitAdmits, Snapshot
  <2>9. CASE SubmitCommit(q)
    <3> DEFINE r == target[q].rfq
               p == target[q].provider
    <3>1. PICK t \in Quotes, n \in NextQuoteVersion(r, p) :
              quote' = [quote EXCEPT ![t] =
                          [rfq |-> r, provider |-> p, version |-> n,
                           status |-> "SUBMITTED"]]
      BY <2>9 DEF SubmitCommit
    <3>2. r \in Rfqs /\ p \in Providers
      BY <2>9 DEF SubmitCommit, RefsResolve, RequestRefs
    <3>3. [rfq |-> r, provider |-> p, version |-> n,
           status |-> "SUBMITTED"] \in QuoteRow
      BY <3>2, NextVersionNat DEF QuoteRow, ConstantsAssumption
    <3>4. quote' \in [Quotes -> QuoteRow]
      BY <3>1, <3>3
    <3>5. rfq' \in [Rfqs -> RfqRow]
      <4>1. rfq' = rfq \/ rfq' = [rfq EXCEPT ![r].status = "QUOTED"]
        BY <2>9 DEF SubmitCommit
      <4> QED BY <4>1, RfqUpdate
    <3>6. recipient' \in [Rfqs -> [Providers -> RecipientStates \cup {"ABSENT"}]]
      BY <2>9 DEF SubmitCommit
    <3>7. opportunity' \in [Opportunities -> OpportunityStatuses]
      BY <2>9 DEF SubmitCommit
    <3> QED BY <2>9, <3>4, <3>5, <3>6, <3>7 DEF SubmitCommit, Finish
  <2>10. ASSUME NEW t \in Quotes, WithdrawRead(q, t) PROVE TypeOK'
    BY <2>10 DEF WithdrawRead, Begin, Target, QuoteRow
  <2>11. CASE WithdrawCommit(q)
    BY <2>11, ZenonT(60) DEF WithdrawCommit, Finish, QuoteRow
  <2>12. ASSUME NEW r \in Rfqs, NEW t \in Quotes, SelectReadRfq(q, r, t) PROVE TypeOK'
    BY <2>12 DEF SelectReadRfq, Begin, Target, RfqRow
  <2>13. CASE SelectReadOpportunity(q)
    BY <2>13 DEF SelectReadOpportunity
  <2>14. CASE SelectReadQuote(q)
    BY <2>14 DEF SelectReadQuote
  <2>15. CASE SelectCommit(q)
    <3> DEFINE r == target[q].rfq
               t == target[q].quote
               o == target[q].opp
    <3>1. /\ r \in Rfqs /\ t \in Quotes /\ o \in Opportunities
          /\ quote[t].provider \in Providers
      BY <2>15 DEF SelectCommit, RefsResolve, RowRefs, RequestRefs
    <3>2. dealRooms' \subseteq DealRoomRow
      BY <2>15, <3>1 DEF SelectCommit, NewDealRoom, DealRoomRow
    <3>3. rfq' \in [Rfqs -> RfqRow] /\ quote' \in [Quotes -> QuoteRow]
      BY <2>15, RfqUpdate, QuoteUpdate DEF SelectCommit
    <3>4. opportunity' \in [Opportunities -> OpportunityStatuses]
      BY <2>15 DEF SelectCommit
    <3> QED BY <2>15, <3>2, <3>3, <3>4 DEF SelectCommit, Finish
  <2> QED BY <1>1, <2>1, <2>2, <2>3, <2>4, <2>5, <2>6, <2>7, <2>8, <2>9, <2>10, <2>11, <2>12, <2>13, <2>14, <2>15
    DEF RequestStep
<1>2. ASSUME WorkerStep PROVE TypeOK'
  <2> USE DEF TypeOK, dbVars, requestVars
  <2>1. ASSUME NEW r \in Rfqs, RunExpiryJob(r) PROVE TypeOK'
    BY <2>1, ExpireOneTypes DEF RunExpiryJob
  <2>2. CASE StartSweep
    BY <2>2 DEF StartSweep, Overdue
  <2>3. CASE SweepStep
    BY <2>3, ExpireOneTypes DEF SweepStep
  <2>4. CASE SweepCrash
    BY <2>4 DEF SweepCrash
  <2> QED BY <1>2, <2>1, <2>2, <2>3, <2>4 DEF WorkerStep
<1>3. CASE Tick
  BY <1>3 DEF Tick, TypeOK, dbVars, requestVars, workerVars
<1> QED BY <1>0, <1>1, <1>2, <1>3 DEF Next

-----------------------------------------------------------------------------
(* References                                                              *)

\* A write of an RFQ's status leaves its opportunity and every other RFQ alone.
LEMMA RfqStatusWrite ==
    ASSUME NEW f \in [Rfqs -> RfqRow], NEW r, NEW s,
           NEW g, g = [f EXCEPT ![r].status = s]
    PROVE  \A x \in Rfqs :
               /\ g[x].opp = f[x].opp
               /\ x # r => g[x] = f[x]
               /\ x = r => g[x].status = s
BY DEF RfqRow

\* expireOne changes no row but the status of its RFQ.
LEMMA ExpireOnePersists ==
    ASSUME TypeOK, NEW r \in Rfqs, ExpireOne(r)
    PROVE  \A s \in Rfqs : Exists(rfq[s]) => Exists(rfq'[s]) /\ rfq'[s].opp = rfq[s].opp
<1>1. rfq' = rfq \/ rfq' = [rfq EXCEPT ![r].status = "EXPIRED"]
  BY DEF ExpireOne
<1>2. CASE rfq' = [rfq EXCEPT ![r].status = "EXPIRED"]
  <2>1. \A x \in Rfqs :
            /\ rfq'[x].opp = rfq[x].opp
            /\ x # r => rfq'[x] = rfq[x]
            /\ x = r => rfq'[x].status = "EXPIRED"
    BY <1>2, RfqStatusWrite DEF TypeOK
  <2> QED BY <2>1 DEF Exists
<1> QED BY <1>1, <1>2

\* Every step keeps the rows.
LEMMA Persist ==
    ASSUME TypeOK, RefsResolve, [Next]_vars
    PROVE  RowsPersist
<1> USE DEF RowsPersist
<1>0. CASE UNCHANGED <<rfq, quote>>
  BY <1>0, SMTT(30)
<1>1. ASSUME NEW q \in Requests, RequestStep(q) PROVE RowsPersist
  <2>1. CASE CreateCommit(q)
    <3>1. PICK r \in Rfqs, invited \in SUBSET Providers, d \in DueDates : CreateRows(q, r, invited, d)
      BY <2>1 DEF CreateCommit
    <3> QED BY <2>1, <3>1 DEF CreateCommit, CreateRows, TypeOK, Exists
  <2>2. CASE SubmitCommit(q)
    <3> DEFINE r == target[q].rfq
               p == target[q].provider
    <3>1. PICK t \in Quotes, n \in NextQuoteVersion(r, p) :
              /\ ~Exists(quote[t])
              /\ quote' = [quote EXCEPT ![t] =
                             [rfq |-> r, provider |-> p, version |-> n,
                              status |-> "SUBMITTED"]]
      BY <2>2 DEF SubmitCommit
    <3>2. rfq' = rfq \/ rfq' = [rfq EXCEPT ![r].status = "QUOTED"]
      BY <2>2 DEF SubmitCommit
    <3>3. \A s \in Rfqs : Exists(rfq[s]) => Exists(rfq'[s]) /\ rfq'[s].opp = rfq[s].opp
      <4>1. CASE rfq' = [rfq EXCEPT ![r].status = "QUOTED"]
        <5>1. \A x \in Rfqs :
                  /\ rfq'[x].opp = rfq[x].opp
                  /\ x # r => rfq'[x] = rfq[x]
                  /\ x = r => rfq'[x].status = "QUOTED"
          BY <4>1, RfqStatusWrite DEF TypeOK
        <5> QED BY <5>1 DEF Exists
      <4> QED BY <3>2, <4>1
    <3> QED BY <3>1, <3>3 DEF TypeOK
  <2>3. CASE WithdrawCommit(q)
    BY <2>3 DEF WithdrawCommit, TypeOK, Exists, QuoteRow
  <2>4. CASE SelectCommit(q)
    BY <2>4 DEF SelectCommit, TypeOK, Exists, QuoteRow, RfqRow
  <2>5. CASE UNCHANGED <<rfq, quote>>
    BY <2>5
  <2> QED BY <1>1, <2>1, <2>2, <2>3, <2>4, <2>5 DEF RequestStep, Fail, CreateRead, CreateEnqueue, DeclineRead,
        DeclineCommit, SubmitReadOpportunity, SubmitReadRecipient, WithdrawRead, SelectReadRfq,
        SelectReadOpportunity, SelectReadQuote, dbVars
<1>2. CASE WorkerStep
  BY <1>0, <1>2, ExpireOnePersists
    DEF WorkerStep, RunExpiryJob, StartSweep, SweepStep, SweepCrash, dbVars, TypeOK
<1>3. CASE Tick
  BY <1>0, <1>3 DEF Tick, dbVars
<1> QED BY <1>0, <1>1, <1>2, <1>3 DEF Next, vars, dbVars

\* A request that does not move keeps its references.
LEMMA RequestRefsKept ==
    ASSUME RowsPersist, NEW q \in Requests, RequestRefs(q),
           pc'[q] = pc[q], target'[q] = target[q]
    PROVE  RequestRefs(q)'
<1>1. \A r \in Rfqs : Exists(rfq[r]) => Exists(rfq'[r]) /\ rfq'[r].opp = rfq[r].opp
  BY ZenonT(60) DEF RowsPersist
<1>2. \A t \in Quotes : Exists(quote[t]) => Exists(quote'[t]) /\ quote'[t].rfq = quote[t].rfq
  BY ZenonT(60) DEF RowsPersist
<1> QED BY <1>1, <1>2 DEF RequestRefs

\* A request that moves, or is told to fail, has read what its next step needs.
LEMMA RequestRefsStep ==
    ASSUME TypeOK, TypeOK', RefsResolve, RowsPersist, NEW q \in Requests, RequestStep(q)
    PROVE  RequestRefs(q)'
<1> USE DEF TypeOK, RefsResolve, RowRefs, RequestRefs, RowsPersist, dbVars
<1>1. CASE pc'[q] = "idle"
  BY <1>1
<1>2. ASSUME NEW o \in Opportunities, CreateRead(q, o) PROVE RequestRefs(q)'
  BY <1>2 DEF CreateRead, Begin
<1>3. CASE CreateCommit(q)
  <2>1. PICK r \in Rfqs, invited \in SUBSET Providers, d \in DueDates : CreateRows(q, r, invited, d)
    BY <1>3 DEF CreateCommit
  <2>2. pc'[q] = "createCommitted" /\ target'[q].rfq = r /\ target'[q].opp = target[q].opp
    BY <1>3, <2>1 DEF CreateCommit, CreateRows, Target
  <2> QED BY <1>3, <2>2 DEF CreateCommit
<1>4. ASSUME NEW r \in Rfqs, NEW p \in Providers, DeclineRead(q, r, p) PROVE RequestRefs(q)'
  BY <1>4 DEF DeclineRead, Begin
<1>5. ASSUME NEW r \in Rfqs, NEW p \in Providers, SubmitReadOpportunity(q, r, p) PROVE RequestRefs(q)'
  BY <1>5 DEF SubmitReadOpportunity, Begin, Exists
<1>6. CASE SubmitReadRecipient(q)
  BY <1>6 DEF SubmitReadRecipient
<1>7. ASSUME NEW t \in Quotes, WithdrawRead(q, t) PROVE RequestRefs(q)'
  BY <1>7, Tables DEF WithdrawRead, Begin, Exists
<1>8. ASSUME NEW r \in Rfqs, NEW t \in Quotes, SelectReadRfq(q, r, t) PROVE RequestRefs(q)'
  BY <1>8, Tables DEF SelectReadRfq, Begin, Exists
<1>9. CASE SelectReadOpportunity(q)
  BY <1>9 DEF SelectReadOpportunity
<1>10. CASE SelectReadQuote(q)
  BY <1>10, Tables DEF SelectReadQuote, Exists
<1>11. CASE Finish(q)
  BY <1>1, <1>11, SMTT(30) DEF Finish
<1> QED BY <1>2, <1>3, <1>4, <1>5, <1>6, <1>7, <1>8, <1>9, <1>10, <1>11 DEF RequestStep, Fail,
      CreateEnqueue, DeclineCommit, SubmitCommit, WithdrawCommit, SelectCommit

\* The rows a step creates name rows that exist.
LEMMA RowRefsStep ==
    ASSUME TypeOK, RefsResolve, RowsPersist, [Next]_vars
    PROVE  RowRefs'
<1> USE DEF RowsPersist, RowRefs
<1>0. CASE \A r \in Rfqs : Exists(rfq'[r]) => Exists(rfq[r])
  <2>1. \A r \in Rfqs : Exists(rfq'[r]) => rfq'[r].opp \in Opportunities
    BY <1>0 DEF RefsResolve
  <2>2. CASE \A t \in Quotes : Exists(quote'[t]) => Exists(quote[t])
    BY <2>1, <2>2 DEF RefsResolve
  <2>3. ASSUME NEW q \in Requests, SubmitCommit(q) PROVE RowRefs'
    <3> DEFINE r == target[q].rfq
               p == target[q].provider
    <3>1. PICK t \in Quotes, n \in NextQuoteVersion(r, p) :
              quote' = [quote EXCEPT ![t] =
                          [rfq |-> r, provider |-> p, version |-> n,
                           status |-> "SUBMITTED"]]
      BY <2>3 DEF SubmitCommit
    <3>2. r \in Rfqs /\ p \in Providers /\ Exists(rfq[r])
      BY <2>3 DEF SubmitCommit, RefsResolve, RequestRefs
    <3>3. quote'[t].rfq = r /\ quote'[t].provider = p
      BY <3>1 DEF TypeOK
    <3>4. \A x \in Quotes : x # t => quote'[x] = quote[x]
      BY <3>1 DEF TypeOK
    <3> QED BY <2>1, <3>2, <3>3, <3>4 DEF RefsResolve
  <2>4. CASE UNCHANGED quote
    BY <2>2, <2>4
  <2>5. ASSUME NEW q \in Requests, WithdrawCommit(q) \/ SelectCommit(q) PROVE RowRefs'
    <3>1. \A t \in Quotes : Exists(quote'[t]) => Exists(quote[t])
      <4>1. target[q].quote \in Quotes /\ Exists(quote[target[q].quote])
        BY <2>5 DEF WithdrawCommit, SelectCommit, RefsResolve, RequestRefs
      <4>2. \A t \in Quotes : t # target[q].quote => quote'[t] = quote[t]
        BY <2>5 DEF WithdrawCommit, SelectCommit, TypeOK
      <4> QED BY <4>1, <4>2
    <3> QED BY <2>2, <3>1
  <2> QED BY <2>3, <2>4, <2>5, ZenonT(60) DEF Next, RequestStep, Fail, CreateRead, CreateCommit,
        CreateEnqueue, DeclineRead, DeclineCommit, SubmitReadOpportunity, SubmitReadRecipient,
        WithdrawRead, SelectReadRfq, SelectReadOpportunity, SelectReadQuote, WorkerStep,
        RunExpiryJob, StartSweep, SweepStep, SweepCrash, Tick, vars, dbVars
<1>1. ASSUME NEW q \in Requests, CreateCommit(q) PROVE RowRefs'
  <2>1. PICK r \in Rfqs, invited \in SUBSET Providers, d \in DueDates : CreateRows(q, r, invited, d)
    BY <1>1 DEF CreateCommit
  <2>2. target[q].opp \in Opportunities
    BY <1>1 DEF CreateCommit, RefsResolve, RequestRefs
  <2>3. rfq'[r].opp = target[q].opp /\ \A x \in Rfqs : x # r => rfq'[x] = rfq[x]
    BY <2>1 DEF CreateRows, TypeOK
  <2>4. quote' = quote
    BY <1>1 DEF CreateCommit
  <2> QED BY <2>2, <2>3, <2>4 DEF RefsResolve
<1> QED
  <2>1. CASE UNCHANGED rfq
    BY <1>0, <2>1
  <2>2. ASSUME NEW q \in Requests, SubmitCommit(q) \/ SelectCommit(q) PROVE RowRefs'
    <3>1. target[q].rfq \in Rfqs /\ Exists(rfq[target[q].rfq])
      BY <2>2 DEF SubmitCommit, SelectCommit, RefsResolve, RequestRefs
    <3>2. PICK s : rfq' = rfq \/ rfq' = [rfq EXCEPT ![target[q].rfq].status = s]
      BY <2>2 DEF SubmitCommit, SelectCommit
    <3> QED BY <1>0, <3>1, <3>2, RfqStatusWrite, SMTT(30) DEF TypeOK
  <2>3. ASSUME NEW r \in Rfqs, ExpireOne(r) PROVE RowRefs'
    <3>1. rfq' = rfq \/ (Exists(rfq[r]) /\ rfq' = [rfq EXCEPT ![r].status = "EXPIRED"])
      BY <2>3 DEF ExpireOne, Exists, ExpirableStatuses
    <3> QED BY <1>0, <3>1, RfqStatusWrite DEF TypeOK
  <2> QED BY <1>1, <2>1, <2>2, <2>3, ZenonT(60) DEF Next, RequestStep, Fail, CreateRead,
        CreateEnqueue, DeclineRead, DeclineCommit, SubmitReadOpportunity, SubmitReadRecipient,
        WithdrawRead, WithdrawCommit, SelectReadRfq, SelectReadOpportunity, SelectReadQuote, WorkerStep,
        RunExpiryJob, StartSweep, SweepStep, SweepCrash, Tick, vars, dbVars, TypeOK

\* Every step keeps every reference.
LEMMA RefsStep ==
    ASSUME TypeOK, TypeOK', RefsResolve, [Next]_vars
    PROVE  RefsResolve'
<1>1. RowsPersist
  BY Persist
<1>2. RowRefs'
  BY <1>1, RowRefsStep
<1>3. ASSUME NEW q \in Requests PROVE RequestRefs(q)'
  <2>1. CASE pc'[q] = pc[q] /\ target'[q] = target[q]
    BY <1>1, <2>1, RequestRefsKept DEF RefsResolve
  <2>2. CASE RequestStep(q)
    BY <1>1, <2>2, RequestRefsStep, SMTT(30)
  <2>3. ASSUME NEW s \in Requests, s # q, RequestStep(s)
        PROVE  pc'[q] = pc[q] /\ target'[q] = target[q]
    BY <2>3, ZenonT(60) DEF TypeOK, RequestStep, Begin, Finish, Fail, CreateRead, CreateCommit, CreateRows,
         CreateEnqueue, DeclineRead, DeclineCommit, SubmitReadOpportunity, SubmitReadRecipient,
         SubmitCommit, WithdrawRead, WithdrawCommit, SelectReadRfq, SelectReadOpportunity,
         SelectReadQuote, SelectCommit
  <2>4. CASE WorkerStep \/ Tick \/ UNCHANGED vars
    BY <2>1, <2>4 DEF WorkerStep, RunExpiryJob, StartSweep, SweepStep, SweepCrash, Tick, vars, requestVars
  <2> QED BY <2>1, <2>2, <2>3, <2>4 DEF Next
<1> QED BY <1>2, <1>3 DEF RefsResolve

-----------------------------------------------------------------------------
(* Awards                                                                  *)

\* A step that opens no room, changes no SELECTED row and makes none.
LeavesAwardsAlone ==
    /\ dealRooms' = dealRooms
    /\ \A r \in Rfqs : "SELECTED" \in {rfq[r].status, rfq'[r].status} => rfq'[r] = rfq[r]
    /\ \A t \in Quotes : "SELECTED" \in {quote[t].status, quote'[t].status} => quote'[t] = quote[t]

\* Such a step keeps rooms and selections together.
LEMMA AwardsKept ==
    ASSUME TypeOK, DealMatchesAward, OneDealPerRfq, LeavesAwardsAlone
    PROVE  DealMatchesAward' /\ OneDealPerRfq'
<1>1. \A d \in dealRooms : d.rfq \in Rfqs /\ d.quote \in Quotes
  BY DEF TypeOK, DealRoomRow
<1>2. OneDealPerRfq'
  BY DEF OneDealPerRfq, LeavesAwardsAlone
<1> QED BY <1>1, <1>2 DEF DealMatchesAward, LeavesAwardsAlone

\* expireOne touches no SELECTED RFQ.
LEMMA ExpireOneSpares ==
    ASSUME TypeOK, NEW r \in Rfqs, ExpireOne(r)
    PROVE  \A x \in Rfqs : "SELECTED" \in {rfq[x].status, rfq'[x].status} => rfq'[x] = rfq[x]
<1>1. CASE rfq' = rfq
  BY <1>1
<1>2. CASE rfq[r].status \in ExpirableStatuses /\ rfq' = [rfq EXCEPT ![r].status = "EXPIRED"]
  <2>1. \A x \in Rfqs :
            /\ rfq'[x].opp = rfq[x].opp
            /\ x # r => rfq'[x] = rfq[x]
            /\ x = r => rfq'[x].status = "EXPIRED"
    BY <1>2, RfqStatusWrite DEF TypeOK
  <2> QED BY <1>2, <2>1 DEF ExpirableStatuses
<1> QED BY <1>1, <1>2 DEF ExpireOne

\* selectQuote's transaction: the re-read quote is still SUBMITTED, so it has
\* no room; the unique constraint says that the RFQ has none either.
LEMMA SelectAwards ==
    ASSUME TypeOK, RefsResolve, DealMatchesAward, OneDealPerRfq,
           NEW q \in Requests, SelectCommit(q)
    PROVE  DealMatchesAward' /\ OneDealPerRfq'
<1> DEFINE r == target[q].rfq
           t == target[q].quote
           o == target[q].opp
           room == [rfq |-> r, quote |-> t, opp |-> o, provider |-> quote[t].provider]
<1>1. /\ r \in Rfqs /\ t \in Quotes
      /\ o = rfq[r].opp /\ quote[t].rfq = r
  BY DEF SelectCommit, RefsResolve, RequestRefs
<1>2. /\ \A d \in dealRooms : d.rfq # r /\ d.quote # t
      /\ dealRooms' = dealRooms \cup {room}
  BY DEF SelectCommit, NewDealRoom, DealRoomIsUnique
<1>3. /\ \A x \in Rfqs : x # r => rfq'[x] = rfq[x]
      /\ rfq'[r].status = "SELECTED" /\ rfq'[r].opp = o
  <2>1. rfq' = [rfq EXCEPT ![r].status = "SELECTED"]
    BY DEF SelectCommit
  <2> QED BY <1>1, <2>1, RfqStatusWrite DEF TypeOK
<1>4. /\ \A x \in Quotes : x # t => quote'[x] = quote[x]
      /\ quote'[t].status = "SELECTED" /\ quote'[t].rfq = r
      /\ quote'[t].provider = quote[t].provider
  <2>1. quote' = [quote EXCEPT ![t].status = "SELECTED"]
    BY DEF SelectCommit
  <2> QED BY <1>1, <2>1 DEF TypeOK, QuoteRow
<1>5. \A d \in dealRooms : d.rfq \in Rfqs /\ d.quote \in Quotes
  BY DEF TypeOK, DealRoomRow
<1>6. room.rfq = r /\ room.quote = t /\ room.opp = o /\ room.provider = quote[t].provider
  OBVIOUS
<1>7. OneDealPerRfq'
  BY <1>2, <1>6 DEF OneDealPerRfq
<1>8. DealMatchesAward'
  <2> HIDE DEF room, r, t, o
  <2>1. ASSUME NEW d \in dealRooms'
        PROVE  /\ quote'[d.quote].status = "SELECTED"
               /\ quote'[d.quote].rfq = d.rfq
               /\ quote'[d.quote].provider = d.provider
               /\ rfq'[d.rfq].status = "SELECTED"
               /\ rfq'[d.rfq].opp = d.opp
    <3>1. CASE d \in dealRooms
      BY <1>2, <1>3, <1>4, <1>5, <3>1 DEF DealMatchesAward
    <3>2. CASE d = room
      BY <1>3, <1>4, <1>6, <3>2
    <3> QED BY <1>2, <3>1, <3>2
  <2>2. \A x \in Quotes : quote'[x].status = "SELECTED" => \E d \in dealRooms' : d.quote = x
    BY <1>2, <1>4, <1>6 DEF DealMatchesAward
  <2>3. \A x \in Rfqs : rfq'[x].status = "SELECTED" => \E d \in dealRooms' : d.rfq = x
    BY <1>2, <1>3, <1>6 DEF DealMatchesAward
  <2> QED BY <2>1, <2>2, <2>3 DEF DealMatchesAward
<1> QED BY <1>7, <1>8

\* Every step keeps deal rooms and awards together.
LEMMA AwardStep ==
    ASSUME TypeOK, RefsResolve, DealMatchesAward, OneDealPerRfq, [Next]_vars
    PROVE  DealMatchesAward' /\ OneDealPerRfq'
<1> SUFFICES LeavesAwardsAlone \/ \E q \in Requests : SelectCommit(q)
  BY AwardsKept, SelectAwards
<1>0. CASE UNCHANGED <<rfq, quote, dealRooms>>
  BY <1>0 DEF LeavesAwardsAlone
<1>1. ASSUME NEW q \in Requests, RequestStep(q), ~SelectCommit(q)
      PROVE  LeavesAwardsAlone
  <2>1. CASE CreateCommit(q)
    <3>1. PICK r \in Rfqs, invited \in SUBSET Providers, d \in DueDates : CreateRows(q, r, invited, d)
      BY <2>1 DEF CreateCommit
    <3>2. rfq[r].status = "ABSENT" /\ rfq'[r].status = "SENT" /\ \A x \in Rfqs : x # r => rfq'[x] = rfq[x]
      BY <3>1 DEF CreateRows, TypeOK, Exists
    <3> QED BY <2>1, <3>2 DEF CreateCommit, LeavesAwardsAlone
  <2>2. CASE SubmitCommit(q)
    <3> DEFINE r == target[q].rfq
               p == target[q].provider
    <3>1. PICK t \in Quotes, n \in NextQuoteVersion(r, p) :
              /\ ~Exists(quote[t])
              /\ quote' = [quote EXCEPT ![t] =
                             [rfq |-> r, provider |-> p, version |-> n,
                              status |-> "SUBMITTED"]]
      BY <2>2 DEF SubmitCommit
    <3>2. \A x \in Quotes : "SELECTED" \in {quote[x].status, quote'[x].status} => quote'[x] = quote[x]
      BY <3>1 DEF TypeOK, Exists
    <3>3. CASE rfq' = rfq
      BY <2>2, <3>2, <3>3 DEF SubmitCommit, LeavesAwardsAlone
    <3>4. CASE rfq' = [rfq EXCEPT ![r].status = "QUOTED"]
      <4>1. rfq[r].status # "SELECTED"
        BY <2>2 DEF SubmitCommit
      <4>2. \A x \in Rfqs :
                /\ rfq'[x].opp = rfq[x].opp
                /\ x # r => rfq'[x] = rfq[x]
                /\ x = r => rfq'[x].status = "QUOTED"
        BY <3>4, RfqStatusWrite DEF TypeOK
      <4>3. dealRooms' = dealRooms
        BY <2>2 DEF SubmitCommit
      <4> QED BY <3>2, <4>1, <4>2, <4>3 DEF LeavesAwardsAlone
    <3> QED BY <2>2, <3>3, <3>4 DEF SubmitCommit
  <2>3. CASE WithdrawCommit(q)
    <3>1. quote[target[q].quote].status = "SUBMITTED"
      BY <2>3, Tables DEF WithdrawCommit, FreshQuoteAllows
    <3> QED BY <2>3, <3>1 DEF WithdrawCommit, LeavesAwardsAlone, TypeOK, QuoteRow
  <2>4. CASE UNCHANGED <<rfq, quote, dealRooms>>
    BY <2>4 DEF LeavesAwardsAlone
  <2> QED BY <1>1, <2>1, <2>2, <2>3, <2>4 DEF RequestStep, Fail, CreateRead, CreateEnqueue, DeclineRead,
        DeclineCommit, SubmitReadOpportunity, SubmitReadRecipient, WithdrawRead, SelectReadRfq,
        SelectReadOpportunity, SelectReadQuote, dbVars
<1>2. CASE WorkerStep
  BY <1>0, <1>2, ExpireOneSpares DEF WorkerStep, RunExpiryJob, StartSweep, SweepStep, SweepCrash,
     dbVars, TypeOK, LeavesAwardsAlone
<1>3. CASE Tick
  BY <1>0, <1>3 DEF Tick, dbVars
<1> QED BY <1>0, <1>1, <1>2, <1>3 DEF Next, vars, dbVars

-----------------------------------------------------------------------------
(* Quote versions and expiry records                                       *)

\* nextQuoteVersion is above every version the provider has on the RFQ.
LEMMA NextVersionAbove ==
    ASSUME TypeOK, NEW r, NEW p, NEW n \in NextQuoteVersion(r, p), NEW t \in QuotesBy(r, p)
    PROVE  quote[t].version # n
<1>1. \A s \in QuotesBy(r, p) : quote[s].version \in Nat
  BY DEF TypeOK, QuotesBy, QuotesOf, QuoteRow
<1> QED BY <1>1 DEF NextQuoteVersion

\* A step that leaves the keys of existing quotes alone and creates none.
LEMMA VersionsKept ==
    ASSUME QuoteVersionsDistinct,
           \A t \in Quotes : /\ Exists(quote'[t]) => Exists(quote[t])
                             /\ quote'[t].rfq = quote[t].rfq /\ quote'[t].provider = quote[t].provider
                             /\ quote'[t].version = quote[t].version
    PROVE  QuoteVersionsDistinct'
BY SMTT(30) DEF QuoteVersionsDistinct

\* submitQuote is the only writer of versions.
LEMMA VersionsStep ==
    ASSUME TypeOK, RefsResolve, QuoteVersionsDistinct, [Next]_vars
    PROVE  QuoteVersionsDistinct'
<1>1. CASE UNCHANGED quote
  BY <1>1 DEF QuoteVersionsDistinct
<1>2. ASSUME NEW q \in Requests, SubmitCommit(q) PROVE QuoteVersionsDistinct'
  <2> DEFINE r == target[q].rfq
             p == target[q].provider
  <2>1. PICK t \in Quotes, n \in NextQuoteVersion(r, p) :
            /\ ~Exists(quote[t])
            /\ quote' = [quote EXCEPT ![t] =
                           [rfq |-> r, provider |-> p, version |-> n, status |-> "SUBMITTED"]]
    BY <1>2 DEF SubmitCommit
  <2> HIDE DEF r, p
  <2>2. quote'[t].rfq = r /\ quote'[t].provider = p /\ quote'[t].version = n
    BY <2>1 DEF TypeOK
  <2>3. \A x \in Quotes : x # t => quote'[x] = quote[x]
    BY <2>1 DEF TypeOK
  <2>4. \A x \in Quotes : x # t /\ Exists(quote[x]) /\ quote[x].rfq = r /\ quote[x].provider = p
                          => quote[x].version # n
    BY NextVersionAbove DEF QuotesBy, QuotesOf
  <2> SUFFICES ASSUME NEW x \in Quotes, NEW y \in Quotes,
                      Exists(quote'[x]), Exists(quote'[y]), quote'[x].rfq = quote'[y].rfq,
                      quote'[x].provider = quote'[y].provider, quote'[x].version = quote'[y].version
               PROVE  x = y
    BY DEF QuoteVersionsDistinct
  <2>5. CASE x = t \/ y = t
    BY <2>2, <2>3, <2>4, <2>5
  <2>6. CASE x # t /\ y # t
    BY <2>3, <2>6 DEF QuoteVersionsDistinct
  <2> QED BY <2>5, <2>6
<1>3. ASSUME NEW q \in Requests, WithdrawCommit(q) \/ SelectCommit(q) PROVE QuoteVersionsDistinct'
  <2>1. PICK t \in Quotes : t = target[q].quote /\ Exists(quote[t])
    BY <1>3 DEF WithdrawCommit, SelectCommit, RefsResolve, RequestRefs
  <2>2. PICK s : quote' = [quote EXCEPT ![t].status = s]
    BY <1>3, <2>1 DEF WithdrawCommit, SelectCommit
  <2>3. \A x \in Quotes : /\ x # t => quote'[x] = quote[x]
                          /\ quote'[x].rfq = quote[x].rfq /\ quote'[x].provider = quote[x].provider
                          /\ quote'[x].version = quote[x].version
    BY <2>2 DEF TypeOK, QuoteRow
  <2> QED BY <2>1, <2>3, VersionsKept
<1> QED BY <1>1, <1>2, <1>3 DEF Next, RequestStep, Fail, CreateRead, CreateCommit,
      CreateEnqueue, DeclineRead, DeclineCommit, SubmitReadOpportunity, SubmitReadRecipient,
      WithdrawRead, SelectReadRfq, SelectReadOpportunity, SelectReadQuote, WorkerStep,
      RunExpiryJob, StartSweep, SweepStep, SweepCrash, Tick, vars, dbVars

\* expireOne spends an RFQ's record in the transaction that expires it.
LEMMA ExpireOneSpends ==
    ASSUME TypeOK, ExpiryKeyIsSpent, NEW r \in Rfqs, ExpireOne(r)
    PROVE  ExpiryKeyIsSpent'
<1>1. CASE UNCHANGED <<rfq, expiryKey>>
  BY <1>1 DEF ExpiryKeyIsSpent
<1>2. CASE /\ rfq' = [rfq EXCEPT ![r].status = "EXPIRED"]
           /\ expiryKey' = [expiryKey EXCEPT ![r] = rfq[r].status]
  <2>1. \A x \in Rfqs :
            /\ rfq'[x].opp = rfq[x].opp
            /\ x # r => rfq'[x] = rfq[x]
            /\ x = r => rfq'[x].status = "EXPIRED"
    BY <1>2, RfqStatusWrite DEF TypeOK
  <2>2. \A x \in Rfqs : x # r => expiryKey'[x] = expiryKey[x]
    BY <1>2 DEF TypeOK
  <2> QED BY <2>1, <2>2 DEF ExpiryKeyIsSpent
<1> QED BY <1>1, <1>2 DEF ExpireOne

\* A write to an RFQ whose record is unspent, or one that awards it, keeps the rest.
LEMMA SpentKept ==
    ASSUME TypeOK, ExpiryKeyIsSpent, expiryKey' = expiryKey, NEW r \in Rfqs,
           \A x \in Rfqs : x # r => rfq'[x] = rfq[x],
           rfq[r].status \notin {"EXPIRED", "SELECTED"} \/ rfq'[r].status = "SELECTED"
    PROVE  ExpiryKeyIsSpent'
BY DEF ExpiryKeyIsSpent

LEMMA SpentStep ==
    ASSUME TypeOK, RefsResolve, ExpiryKeyIsSpent, [Next]_vars
    PROVE  ExpiryKeyIsSpent'
<1>1. CASE UNCHANGED <<rfq, expiryKey>>
  BY <1>1 DEF ExpiryKeyIsSpent
<1>2. ASSUME NEW q \in Requests, CreateCommit(q) PROVE ExpiryKeyIsSpent'
  <2>1. PICK r \in Rfqs, invited \in SUBSET Providers, d \in DueDates : CreateRows(q, r, invited, d)
    BY <1>2 DEF CreateCommit
  <2>2. rfq[r].status = "ABSENT" /\ \A x \in Rfqs : x # r => rfq'[x] = rfq[x]
    BY <2>1 DEF CreateRows, TypeOK, Exists
  <2>3. expiryKey' = expiryKey
    BY <1>2 DEF CreateCommit, workerVars
  <2> QED BY <2>2, <2>3, SpentKept
<1>3. ASSUME NEW q \in Requests, SubmitCommit(q) PROVE ExpiryKeyIsSpent'
  <2>1. PICK r \in Rfqs : r = target[q].rfq
    BY <1>3 DEF SubmitCommit, RefsResolve, RequestRefs
  <2>2. /\ rfq' = rfq \/ rfq' = [rfq EXCEPT ![r].status = "QUOTED"]
        /\ rfq[r].status \notin {"EXPIRED", "SELECTED"}
        /\ expiryKey' = expiryKey
    BY <1>3, <2>1 DEF SubmitCommit, workerVars
  <2>3. \A x \in Rfqs : x # r => rfq'[x] = rfq[x]
    BY <2>2, RfqStatusWrite DEF TypeOK
  <2> QED BY <2>2, <2>3, SpentKept
<1>4. ASSUME NEW q \in Requests, SelectCommit(q) PROVE ExpiryKeyIsSpent'
  <2>1. PICK r \in Rfqs : r = target[q].rfq
    BY <1>4 DEF SelectCommit, RefsResolve, RequestRefs
  <2>2. rfq' = [rfq EXCEPT ![r].status = "SELECTED"] /\ expiryKey' = expiryKey
    BY <1>4, <2>1 DEF SelectCommit, workerVars
  <2>3. \A x \in Rfqs : /\ x # r => rfq'[x] = rfq[x]
                        /\ x = r => rfq'[x].status = "SELECTED"
    BY <2>2, RfqStatusWrite DEF TypeOK
  <2> QED BY <2>2, <2>3, SpentKept
<1>5. ASSUME NEW r \in Rfqs, RunExpiryJob(r) PROVE ExpiryKeyIsSpent'
  BY <1>1, <1>5, ExpireOneSpends DEF RunExpiryJob
<1>6. CASE SweepStep
  BY <1>6, ExpireOneSpends DEF SweepStep, TypeOK
<1> QED BY <1>1, <1>2, <1>3, <1>4, <1>5, <1>6 DEF Next, RequestStep, Fail, CreateRead,
      CreateEnqueue, DeclineRead, DeclineCommit, SubmitReadOpportunity, SubmitReadRecipient,
      WithdrawRead, WithdrawCommit, SelectReadRfq, SelectReadOpportunity, SelectReadQuote, WorkerStep,
      StartSweep, SweepCrash, Tick, vars, dbVars, workerVars

-----------------------------------------------------------------------------
(* The abstract award                                                      *)

\* A room is the winner of its RFQ, and an RFQ without one has none.
LEMMA WinnerIs ==
    ASSUME OneDealPerRfq, NEW r \in Rfqs
    PROVE  /\ \A d \in dealRooms : d.rfq = r => Winner[r] = d.quote
           /\ (\A d \in dealRooms : d.rfq # r) => Winner[r] = None
<1>1. ASSUME NEW d \in dealRooms, d.rfq = r PROVE Winner[r] = d.quote
  <2>1. Winner[r] = (CHOOSE e \in dealRooms : e.rfq = r).quote
    BY <1>1 DEF Winner
  <2>2. (CHOOSE e \in dealRooms : e.rfq = r) \in dealRooms /\ (CHOOSE e \in dealRooms : e.rfq = r).rfq = r
    BY <1>1
  <2>3. (CHOOSE e \in dealRooms : e.rfq = r) = d
    BY <1>1, <2>2 DEF OneDealPerRfq
  <2> QED BY <2>1, <2>3
<1>2. (\A d \in dealRooms : d.rfq # r) => Winner[r] = None
  BY DEF Winner
<1> QED BY <1>1, <1>2

\* The offer of each quote, and the states of quotes that offers tell apart.
LEMMA OfferIs ==
    /\ Offer = [t \in Quotes |-> [rfq |-> quote[t].rfq, state |-> OfferState(quote[t].status)]]
    /\ OfferState("ABSENT") = "none" /\ OfferState("SUBMITTED") = "live"
    /\ OfferState("WITHDRAWN") = "withdrawn" /\ OfferState("SELECTED") = "won"
BY DEF Offer, OfferState

\* A write to one quote is a write to one offer.
LEMMA OfferWrite ==
    ASSUME TypeOK, TypeOK', NEW t \in Quotes, \A x \in Quotes : x # t => quote'[x] = quote[x]
    PROVE  Offer' = [Offer EXCEPT ![t] = [rfq |-> quote'[t].rfq, state |-> OfferState(quote'[t].status)]]
<1>1. Offer' = [x \in Quotes |-> [rfq |-> quote'[x].rfq, state |-> OfferState(quote'[x].status)]]
  BY DEF Offer, OfferState
<1>2. \A x \in Quotes : x # t => [rfq |-> quote'[x].rfq, state |-> OfferState(quote'[x].status)]
                                = [rfq |-> quote[x].rfq, state |-> OfferState(quote[x].status)]
  OBVIOUS
<1>3. Offer = [x \in Quotes |-> [rfq |-> quote[x].rfq, state |-> OfferState(quote[x].status)]]
  BY OfferIs
<1> QED BY <1>1, <1>2, <1>3

\* submitQuote makes an offer on an RFQ that is not awarded.
LEMMA SubmitOffers ==
    ASSUME IInv, TypeOK', NEW q \in Requests, SubmitCommit(q)
    PROVE  \E r \in Rfqs, t \in Quotes : Award!Submit(r, t)
<1>0. TypeOK /\ DealMatchesAward /\ OneDealPerRfq
  BY DEF IInv
<1>1. PICK r \in Rfqs : r = target[q].rfq
  BY DEF SubmitCommit, IInv, RefsResolve, RequestRefs
<1>2. PICK t \in Quotes, n \in NextQuoteVersion(r, target[q].provider) :
          /\ ~Exists(quote[t])
          /\ quote' = [quote EXCEPT ![t] = [rfq |-> r, provider |-> target[q].provider, version |-> n,
                                            status |-> "SUBMITTED"]]
  BY <1>1 DEF SubmitCommit
<1>3. quote'[t].rfq = r /\ quote'[t].status = "SUBMITTED" /\ \A x \in Quotes : x # t => quote'[x] = quote[x]
  BY <1>0, <1>2 DEF TypeOK
<1>4. Offer' = [Offer EXCEPT ![t] = [rfq |-> r, state |-> "live"]]
  BY <1>0, <1>3, OfferWrite, OfferIs
<1>5. Offer[t].state = "none"
  BY <1>2, OfferIs DEF Exists
<1>6. \A d \in dealRooms : d.rfq # r
  BY <1>0, <1>1 DEF SubmitCommit, DealMatchesAward
<1>7. Winner[r] = None
  BY <1>0, <1>6, WinnerIs
<1>8. Winner' = Winner
  BY DEF SubmitCommit, Winner
<1> QED BY <1>4, <1>5, <1>7, <1>8 DEF Award!Submit

\* withdrawQuote takes back an offer that is still live.
LEMMA WithdrawWithdraws ==
    ASSUME IInv, TypeOK', NEW q \in Requests, WithdrawCommit(q)
    PROVE  \E t \in Quotes : Award!Withdraw(t)
<1>0. TypeOK
  BY DEF IInv
<1>1. PICK t \in Quotes : t = target[q].quote
  BY DEF WithdrawCommit, IInv, RefsResolve, RequestRefs
<1>2. quote[t].status = "SUBMITTED"
  BY <1>1, Tables DEF WithdrawCommit, FreshQuoteAllows
<1>3. /\ quote'[t].rfq = quote[t].rfq /\ quote'[t].status = "WITHDRAWN"
      /\ \A x \in Quotes : x # t => quote'[x] = quote[x]
  BY <1>0, <1>1 DEF WithdrawCommit, TypeOK, QuoteRow
<1>4. Offer[t].state = "live" /\ Offer[t].rfq = quote[t].rfq
  BY <1>2, OfferIs
<1>5. Offer' = [Offer EXCEPT ![t] = [rfq |-> Offer[t].rfq, state |-> "withdrawn"]]
  BY <1>0, <1>3, <1>4, OfferWrite, OfferIs
<1>6. Winner' = Winner
  BY DEF WithdrawCommit, Winner
<1> QED BY <1>4, <1>5, <1>6 DEF Award!Withdraw

\* selectQuote awards an RFQ that has no winner to an offer that is live.
LEMMA SelectsAward ==
    ASSUME IInv, TypeOK', OneDealPerRfq', NEW q \in Requests, SelectCommit(q)
    PROVE  \E r \in Rfqs, t \in Quotes : Award!Award(r, t)
<1>0. TypeOK /\ OneDealPerRfq
  BY DEF IInv
<1>1. PICK r \in Rfqs : r = target[q].rfq
  BY DEF SelectCommit, IInv, RefsResolve, RequestRefs
<1>2. PICK t \in Quotes : t = target[q].quote
  BY DEF SelectCommit, IInv, RefsResolve, RequestRefs
<1>3. quote[t].rfq = r /\ quote[t].status = "SUBMITTED"
  BY <1>1, <1>2, Tables DEF SelectCommit, FreshQuoteAllows, IInv, RefsResolve, RequestRefs
<1>4. /\ quote'[t].rfq = r /\ quote'[t].status = "SELECTED"
      /\ \A x \in Quotes : x # t => quote'[x] = quote[x]
  BY <1>0, <1>2, <1>3 DEF SelectCommit, TypeOK, QuoteRow
<1>5. Offer[t] = [rfq |-> r, state |-> "live"]
  BY <1>3, OfferIs
<1>6. Offer' = [Offer EXCEPT ![t] = [rfq |-> r, state |-> "won"]]
  BY <1>0, <1>4, OfferWrite, OfferIs
<1> DEFINE room == NewDealRoom(q)
<1>7. dealRooms' = dealRooms \cup {room} /\ room.rfq = r /\ room.quote = t
  BY <1>1, <1>2 DEF SelectCommit, NewDealRoom
<1> HIDE DEF room
<1>8. \A d \in dealRooms : d.rfq # r
  BY <1>1 DEF SelectCommit, DealRoomIsUnique
<1>9. Winner[r] = None
  BY <1>0, <1>8, WinnerIs
<1>10. Winner' = [Winner EXCEPT ![r] = t]
  <2>1. Winner' = [x \in Rfqs |-> Winner'[x]] /\ Winner = [x \in Rfqs |-> Winner[x]]
    BY DEF Winner
  <2>2. Winner'[r] = t
    <3>1. \E d \in dealRooms' : d.rfq = r
      BY <1>7
    <3>2. Winner'[r] = (CHOOSE e \in dealRooms' : e.rfq = r).quote
      BY <3>1 DEF Winner
    <3>3. (CHOOSE e \in dealRooms' : e.rfq = r) \in dealRooms' /\ (CHOOSE e \in dealRooms' : e.rfq = r).rfq = r
      BY <3>1
    <3>4. (CHOOSE e \in dealRooms' : e.rfq = r) = room
      BY <1>7, <1>8, <3>3
    <3> QED BY <1>7, <3>2, <3>4
  <2>3. ASSUME NEW x \in Rfqs, x # r PROVE Winner'[x] = Winner[x]
    <3>1. {e \in dealRooms' : e.rfq = x} = {e \in dealRooms : e.rfq = x}
      BY <1>7, <2>3
    <3>2. \A e : e \in dealRooms' /\ e.rfq = x <=> e \in dealRooms /\ e.rfq = x
      BY <1>7, <2>3
    <3>3. (CHOOSE e \in dealRooms' : e.rfq = x) = (CHOOSE e \in dealRooms : e.rfq = x)
      BY <3>2
    <3> QED BY <3>2, <3>3 DEF Winner
  <2> QED BY <2>1, <2>2, <2>3
<1> QED BY <1>5, <1>6, <1>9, <1>10 DEF Award!Award

\* Every other step is invisible to the award.
LEMMA AwardSimulated ==
    ASSUME IInv, IInv', [Next]_vars
    PROVE  [Award!Next]_<<Offer, Winner>>
<1>0. TypeOK' /\ OneDealPerRfq'
  BY DEF IInv
<1>1. CASE UNCHANGED <<quote, dealRooms>>
  BY <1>1 DEF Offer, OfferState, Winner
<1>2. ASSUME NEW q \in Requests, SubmitCommit(q) PROVE Award!Next
  BY <1>0, <1>2, SubmitOffers DEF Award!Next
<1>3. ASSUME NEW q \in Requests, WithdrawCommit(q) PROVE Award!Next
  BY <1>0, <1>3, WithdrawWithdraws DEF Award!Next
<1>4. ASSUME NEW q \in Requests, SelectCommit(q) PROVE Award!Next
  BY <1>0, <1>4, SelectsAward DEF Award!Next
<1> QED BY <1>1, <1>2, <1>3, <1>4 DEF Next, RequestStep, Fail, CreateRead, CreateCommit,
      CreateEnqueue, DeclineRead, DeclineCommit, SubmitReadOpportunity, SubmitReadRecipient,
      WithdrawRead, SelectReadRfq, SelectReadOpportunity, SelectReadQuote, WorkerStep,
      RunExpiryJob, StartSweep, SweepStep, SweepCrash, Tick, vars, dbVars

-----------------------------------------------------------------------------
(* Theorems                                                                *)

\* IInv is an inductive invariant of the pipeline.
LEMMA Invariance == Spec => []IInv
<1>1. IInv /\ [Next]_vars => IInv'
  <2> SUFFICES ASSUME IInv, [Next]_vars PROVE IInv'
    OBVIOUS
  <2>1. TypeOK /\ RefsResolve /\ DealMatchesAward /\ OneDealPerRfq /\ QuoteVersionsDistinct /\ ExpiryKeyIsSpent
    BY DEF IInv
  <2>2. TypeOK'
    BY <2>1, TypeOKStep
  <2>3. RefsResolve'
    BY <2>1, <2>2, RefsStep
  <2>4. DealMatchesAward' /\ OneDealPerRfq'
    BY <2>1, AwardStep
  <2>5. QuoteVersionsDistinct'
    BY <2>1, VersionsStep
  <2>6. ExpiryKeyIsSpent'
    BY <2>1, SpentStep
  <2> QED BY <2>2, <2>3, <2>4, <2>5, <2>6 DEF IInv
<1> QED BY <1>1, InitIInv, PTL DEF Spec

\* Whatever requests and worker jobs do, every row stays a row of its table.
THEOREM TypeCorrect == Spec => []TypeOK
<1>1. IInv => TypeOK
  BY DEF IInv
<1> QED BY <1>1, Invariance, PTL

\* selectQuote, withdrawQuote and expireOne racing in any number: a deal room
\* and its selected quote and RFQ never come apart.
THEOREM AwardSafety == Spec => []DealMatchesAward
<1>1. IInv => DealMatchesAward
  BY DEF IInv
<1> QED BY <1>1, Invariance, PTL

\* However many selections race on an RFQ, they open one deal room.
THEOREM SingleDeal == Spec => []OneDealPerRfq
<1>1. IInv => OneDealPerRfq
  BY DEF IInv
<1> QED BY <1>1, Invariance, PTL

\* submitQuote and expireOne, for any number of submissions, jobs and sweeps that
\* race: rows keep their types, no two quotes of a provider on an RFQ share a
\* version, and an expiry record is spent only with its expiry.
THEOREM RowsSound == Spec => []RowsAreSound
<1>1. IInv => RowsAreSound
  BY DEF IInv, RowsAreSound
<1> QED BY <1>1, Invariance, PTL

\* The pipeline implements QuoteAward for every number of rows and requests: under
\* the mapping Offer and Winner, submitQuote submits, withdrawQuote withdraws,
\* selectQuote awards, and every other step of the API and the worker stutters.
THEOREM Refinement == Spec => ImplementsQuoteAward
<1>1. Init => Award!Init
  <2> SUFFICES ASSUME Init PROVE Award!Init
    OBVIOUS
  <2>1. \A t \in Quotes : quote[t].rfq = None /\ quote[t].status = "ABSENT"
    BY DEF Init, AbsentQuote
  <2>2. Offer = [t \in Quotes |-> [rfq |-> None, state |-> "none"]]
    BY <2>1, OfferIs
  <2>3. Winner = [r \in Rfqs |-> None]
    BY DEF Init, Winner
  <2> QED BY <2>2, <2>3 DEF Award!Init
<1>2. IInv /\ IInv' /\ [Next]_vars => [Award!Next]_<<Offer, Winner>>
  BY AwardSimulated
<1>3. [Award!Next]_<<Offer, Winner>> => [Award!Next]_(Award!vars)
  BY DEF Award!vars
<1> QED BY <1>1, <1>2, <1>3, Invariance, PTL DEF Spec, ImplementsQuoteAward, Award!Spec
=============================================================================
