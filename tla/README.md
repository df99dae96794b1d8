# TLA+ models of the TOL platform

TOL is a marketplace for payment capacity. Merchants publish opportunities, send
requests for quotes (RFQs) to providers, select a quote, work the deal in a deal
room and share the revenue by commission schedules; organizations prove who they
are with a passport of evidence, seal documents in lockboxes, and claim credit for
the relationships they brought. The program is a Fastify API (`apps/api`) and a
BullMQ worker (`apps/worker`) over one PostgreSQL database, with pure logic in
`packages/`.

This directory holds TLA+ models of the parts of it that can go wrong in ways a
test hardly reaches, the TLC runs that check them on small instances, and TLAPS
proofs of the main results for instances of any size. `PROJECT.json` lists every
component, run, property, mutant, finding, hazard and theorem, and maps each
definition to the lines it models.

## 1. Inventory

Every API mutation has the same shape, and most of the difficulty comes from it:

1. rows are read and checked **outside** any transaction, one statement at a time;
2. one READ COMMITTED transaction takes `pg_advisory_xact_lock(hashtext(id))`,
   reads **some** of those rows again, checks them again and writes;
3. after the commit a job may be enqueued in Redis, which may fail silently.

So a status read in step 1 may be old in step 2; whether that matters depends on
what is read again. Some handlers (memberships, sessions, volume slices) take no
advisory lock and rely on row locks and unique indexes alone. The worker runs
handlers concurrently, retries them, times them out without stopping them, and
sweeps the tables for what a lost job left behind; each handler guards its effect
with an idempotency record written in the same transaction.

| Component | State it keeps | Operations | Interacts with | What makes it correct | Status |
|---|---|---|---|---|---|
| RFQ pipeline (`modules/rfqs`) | RFQ, RFQRecipient, Quote, DealRoom; Opportunity.status | create, decline, submitQuote, withdrawQuote, selectQuote | opportunity cascade; enqueues `rfq-expiry`; creates deal rooms | an RFQ is awarded once, to a live quote, and the deal room, quote and RFQ agree | modelled |
| RFQ expiry job (`jobs/rfq-expiry`) | RFQ.status, JobIdempotency | delayed job, sweep | same rows as the pipeline | an overdue RFQ closes; the record is spent only with the effect | modelled |
| Passport (`modules/passport`, `packages/evidence`) | Passport, Fact, Evidence, ReadinessResult | create, upsertFact, addEvidence, verify, demotion on read | enqueues `passport-readiness` | the status reflects the facts; reviews survive late recomputes | modelled |
| Passport readiness job | the same, JobIdempotency | recompute one, sweep | API writes | no older result replaces a newer one | modelled |
| Economics (`modules/economics`) | CommissionSchedule, RevenueEvent, CommissionAccrual, CommissionPayment | createSchedule, recordRevenueEvent, recordPayment, adjustLedger | enqueues `economics-accrual` | accrued once, never overpaid, append-only | modelled |
| Economics accrual job | CommissionAccrual, JobIdempotency | reconcile one event | API accrual | does not accrue twice | modelled |
| Economics engine (`packages/domain/economics-engine.ts`) | none (pure) | split, balance, reconciliation, cap and floor | economics | loses no unit; the books balance | modelled |
| Claims (`modules/claims`) | Claim, ClaimDispute, ClaimDecision | create, fileDispute, decide | scoring | DISPUTED exactly with one open dispute; one decision each | modelled |
| Attribution scoring (`packages/attribution`) | none (pure) | score, tier, rank | claims | the ranking is a total order of the right rows | modelled |
| Deal rooms (`modules/deals`) | DealRoom.status, DealCondition, DealDecision, timeline | postCondition, resolveCondition, recordDecision | rooms made by selectQuote | the first decision decides; a condition is resolved once | modelled |
| Lockbox (`modules/lockbox`) | Lockbox, LockboxKeyShare, receipts, disclosure evidence | seal, withdraw, release | `packages/crypto`, idempotency | nothing is disclosed after a withdrawal | modelled |
| Crypto (`packages/crypto`) | none (pure) | GF(256), split, combine, envelope | lockbox | two shares open, one tells nothing | partly |
| API idempotency (`shared/idempotency.ts`) | IdempotencyKey | find, reserve, run, complete | mutating routes | a retry runs the handler at most once | modelled |
| Memberships, authentication | Membership, Session | login, logout, switch organization, invite, change status, change role | every request's actor | a change of a membership rests on authority that was there when it was read | modelled |
| Authorization (`packages/authz`) | none (pure) | can, field policy, the matrix | every handler | tenants are apart, duties are separated | modelled |
| Marketplace visibility | none (projections) | cards, lists, redaction | authorization | the lists show what the matrix allows | modelled |
| Matching (`packages/matching`, `modules/matching`) | MatchResult (append only) | evaluate a pass, list the latest | opportunities, capacity | eligibility as specified; better terms never hurt | modelled |
| Capacity (`modules/capacity`, `jobs/capacity-freshness`) | CapacityProfile.freshness, JobIdempotency | create, recompute, sweep | matching reads the class | the class is never ahead of the clock, and catches up | modelled |
| Worker runtime and queue (`worker-runtime.ts`, `sweeps.ts`, `packages/queue`) | BullMQ jobs and attempts | enqueue, take, time out, stall, retry, dead-letter | every job | overlapping attempts are harmless; every job ends | modelled |
| Opportunities (`modules/opportunities`) | Opportunity, VolumeSlice | create, replaceVolumeSlices, reconcile | RFQ pipeline | no cell twice; a reconciled answer is true | modelled |
| Web pages and forms (`apps/web`) | what a page shows, what a form holds | the buttons a page offers, the bodies a form sends | the API, whose matrix and tables they copy | a copied rule says what the original says; a body fits its contract | partly |
| Zod contracts (`packages/contracts`) | none (pure) | accept or refuse a body | every route and form | the forms meet them | partly |
| Organizations, audit, health, web shell and sign-in, configuration, infrastructure | rows, projections, wiring | single-row writes, reads | all | no protocol | not modelled |

`PROJECT.json` gives the reason for each component left out.

**Where it is hard.** Interleavings of two requests between check and write
(quotes, awards, disputes, payments, releases, role changes); the worker's clock and
list being old when it writes; a job lost, late, delivered twice or running on after
its timeout; a crash in the middle of a sweep; keys that are spent and never expire;
row locks taken in opposite orders; rounding and batches whose parts are each within
a limit and whose sum is not. The `hazards` list has each of them at its line.

## 2. The modules

| Module | Models | Used by |
|---|---|---|
| `DomainStates` | status sets and transition tables of `packages/domain/src/*-states.ts`; a transition is legal exactly when its pair is in the table, which is what `assertValid*Transition` decides | most |
| `QuoteAward` | abstract: what awarding business promises | refined by `RfqLifecycle`; the refinement is checked and proved |
| `RfqLifecycle` | RFQ pipeline and expiry job | `MCRfqLifecycle`, `RfqLifecycleProofs` |
| `PassportReadiness` | passport service, `packages/evidence`, readiness job | `MCPassportReadiness`, `PassportReadinessProofs` |
| `EconomicsLedger` | economics service and accrual job | `MCEconomicsLedger`, `AccountingProofs` |
| `ClaimDisputes` | claims service | `MCClaimDisputes`, `ClaimDisputesProofs` |
| `Idempotency` | the key table and the steps around a handler | `Lockbox` |
| `Lockbox` | lockbox service, its shares and its disclosure log | `MCLockbox`, `LockboxProofs` |
| `DealRoom` | deals service | `MCDealRoom`, `DealRoomProofs` |
| `Access` | sessions and memberships | `MCAccess`, `AccessProofs` |
| `CapacityJobs` | capacity service, freshness job, worker runtime, queue | `MCCapacityJobs`, `CapacityJobsProofs` |
| `VolumeSlices` | the opportunity's breakdown | `MCVolumeSlices`, `AccountingProofs` |
| `Authz` | the permission matrix, `can()`, the field policy | `Visibility`, `Lockbox`, `DealRoom`, `Calculations` |
| `Visibility` | what each list and card shows, and to whom | `Calculations` |
| `MatchingEngine`, `MatchResults` | eligibility, scoring, ranking; a pass, and the latest results | `Calculations` |
| `Attribution` | claim score, tier and ranking | `Calculations` |
| `CommissionSplit`, `LedgerPeriod` | the split of a revenue event; balances, reconciliation and caps over a period | `Calculations` |
| `Shamir` | GF(256), split and combine | `Lockbox`, `Calculations` |
| `WebPages` | what each page offers to whom, beside what its service would accept | `Calculations` |
| `WebForms` | what each form sends, and what the schema of the body refuses | `Calculations` |
| `Calculations` | one call of any of the pure modules | `MCCalculations`, `AccessProofs`, `AccountingProofs` |
| `*Proofs` | theorems of the modules they extend (section 4) | |

The `MC*` modules add only symmetry sets and constant values; the `.cfg` files
replace no definition, so TLC and TLAPS read the same specification.

**How code becomes actions.** A request in flight is an element of `Requests`; its
program counter says which statement it has reached, and `target`/`input`/`snapshot`/`seen*`
hold what it read. Reads before a transaction are actions of their own wherever
their result may be old when it is used. In `RfqLifecycle`, `PassportReadiness`,
`EconomicsLedger` and `ClaimDisputes` a transaction is one action, because the lock
(or, in `RfqLifecycle`, the absence of any shared read in it) makes it atomic. In
`Lockbox`, `DealRoom`, `Access` and `VolumeSlices` the lock itself is state: each
statement of a transaction is an action, other requests run between two of them, and
it is the advisory lock or the row locks that must keep them apart. A transaction that
stops in the middle rolls back: its writes are in its last action, or are taken back.
A check that throws before its transaction is simply not enabled; a request that has
begun may stop at any point (`Fail`, `Stop`: a throw, a unique-index violation or a
crash of the process). Where a module does not import `Authz`, authorization is taken
as granted to every caller for whom some role could have it. Audit rows are written in
the transaction they describe and no decision reads them, so they are left out. Time
is a counter; a job in the queue may run at any time or never.

- **RfqLifecycle.** `create` is `CreateRead`, `CreateCommit`, `CreateEnqueue`;
  `submitQuote` reads the RFQ and opportunity, then the recipient, then commits;
  `selectQuote` has three reads and a commit that writes the RFQ, quote, opportunity
  and deal room. Only the quote is read again under the lock (`FreshQuoteAllows`);
  the unique indexes of `DealRoom` are `DealRoomIsUnique`. `expireOne` is one action
  with its idempotency record; the sweep lists at most `SweepLimit` overdue RFQs and
  then visits them one at a time, and may crash between two.
- **PassportReadiness.** One passport. `Freshness`, `IsReadinessBlocked`,
  `TargetStatusAfterRecompute` and `IsPassportReadinessStale` are the pure functions
  of `packages/evidence` and `packages/domain`; `RecomputeReadinessAndStatus` is
  shared by the API writes; the worker's `RecomputePassport` uses the clock reading
  of the moment its handler was called, and the key of `RecomputeKey`.
- **EconomicsLedger.** One deal room and one commission basis. Ledger rows are kept
  as their sums per accrual root, which is all the service computes from them. The
  share of each component is a constant: `CommissionSplit` says how it is computed.
- **ClaimDisputes.** Claims on one relationship, so that every claim competes with
  every other. All rows a check reads are read again under the lock, except what
  never changes, so the reads before it are one action.
- **Idempotency and Lockbox.** `SealFind`, `SealReserve`, `SealCommit`, `SealComplete`
  are `withIdempotency` around `seal`; a crash may fall between any two. The data key
  is one byte, really shared by `Shamir`, and the payload is encrypted by an ideal
  cipher under that key and the lockbox's identity, so a release reconstructs the key
  from two shares and can only read what it opens. Withdrawal destroys all three.
- **DealRoom.** One room. `Arrive` is the read before the transaction, then `Acquire`,
  `FreshRead` and `Write`, which writes the status, the condition or decision, and the
  timeline. The timeline is in commit order.
- **Access.** A session row names a user and the membership it acts for. The `onRequest`
  hook reads the session (`AuthRead`) and then the user and the membership it names
  (`Authenticate`, with `Resolve`): Prisma answers the include with a SELECT for each
  table, so a switch, a suspension or a revocation may commit between them. The handlers
  go on with the actor it found, and ask `Permits` before they write. `seenActive` is a
  history variable: what has been ACTIVE of a request's user since it read its session.
  `ChangeUpdate` takes a row lock that `StatusCommit` or `RoleCommit` releases.
- **CapacityJobs.** A job has a state and a count of attempts; an execution (`Execs`)
  runs one attempt, may time out and run on (`abandoned`), and is lost in a crash. It
  holds the job's lock (`locked`) until it ends, or until Redis is away for longer than
  the lock lasts (`LoseLock`). BullMQ gives a job whose lock ran out to another attempt,
  beside the first handler if that one lives, `MaxStalled` times, and then fails it; it
  refuses the outcome of a handler that no longer holds its job (`Settle`). The
  worker starts only when both services are reachable. Jobs the API enqueues have one
  attempt, scheduled ones `Attempts`: only the worker's queue has the default options.
- **VolumeSlices.** `Delete` works on the snapshot taken when the statement began and
  waits for rows that an open transaction has deleted; `Insert` waits for an open
  transaction's equal cell, or fails on a committed one; `Deadlock` is PostgreSQL's.
- **Calculations.** A behaviour is one call with any input within the bounds, then its
  outcome, an error included. Shared mutable data enters as an input: the passes in the
  order they committed for the list of matches, later entries for the books. A page is
  opened by any role on a record of any owner and counterparty, in any status; a form is
  sent with each field blank, valid or wrong in one of the ways its schema tells apart: a
  word for an identifier, a number beyond its bound, or one too long for a double.

## 3. Runs

| Run | Checks | Shows |
|---|---|---|
| `rfq_award` | DealMatchesAward, OneDealPerRfq, RowsAreSound, ImplementsQuoteAward | two requests and the expiry worker on two RFQs of one opportunity never separate a deal room from its award, quote versions are distinct, an expiry record is spent only with its effect, and the pipeline implements `QuoteAward` |
| `rfq_expiry_live` | OverdueRfqCloses | with lost jobs and a crash in a sweep, an overdue RFQ still closes |
| `passport_races` | StatusReflectsFacts, StaleOnlyWhenOld, VerificationSurvives | late demotions and recomputes replace nothing newer |
| `economics_ledger` | LedgerIsSound, NeverOverpaid, LedgerIsAppendOnly | racing events, payments, adjustments and the worker keep the books |
| `economics_overpay` | PaymentWithinBalance (violated) | one batch naming an accrual twice overpays it |
| `claim_disputes` | DisputedIffOneOpenDispute, DecisionsAccountForDisputes, OutcomesAreFinal | filings and decisions in any order keep one dispute and one decision each |
| `lockbox` | WithdrawalHolds, DisclosedOnceAsSealed, SealIsIdempotent | a withdrawn lockbox cannot be opened and is not disclosed, a released one is disclosed once and as sealed, and one key seals one lockbox, retries and crashes included |
| `deal_room` | RoomIsSound, ConditionResolvedOnce, EveryRequestEnds | the first decision decides, the timeline replays to the status, a resolution is not overwritten, nobody waits for ever |
| `access` | SessionsAreSound, ChangesRestOnAuthority, DeactivationEndsSessions | no session speaks for another user, a membership changes only on an authority that was ACTIVE at some time since the request read its session, and a deactivation ends the user's sessions |
| `capacity_jobs` | FreshnessIsSound, EveryJobEnds, SweepCatchesUp | through an outage, a crash, a timeout, a lost lock and lost jobs no job is held twice, no class is entered twice or ahead of the clock, every job ends, and the sweep brings its page up to date |
| `volume_slices` | SlicesAreSound, ReconciledAnswerHolds, EveryReplacementEnds | racing replacements store no cell twice and no submission in part, an answer that reconciles is true, lock waits end |
| `calculations` | TenantIsolation, SeparationOfDuties, VisibilityFollowsMatrix, EligibilityMatchesTable, BetterTermsNeverHurt, RankingIsFair, ListNeverGoesBack, SplitIsFair, BooksBalance, ClaimRankingIsFair, TwoSharesNoFewer | the pure functions against reference definitions and relations between calls; the pages offer what the services accept, and the forms send what the contracts accept, with the exceptions listed in section 5 |

Properties that name several things (`RowsAreSound`, `LedgerIsSound`, `RoomIsSound`...)
are conjunctions of named parts, each with its own comment; a module's type invariant
is one of the parts. The violated run states what the contract of `recordPayment` says;
`findings` quotes it.

**Bounds and why they are enough.** Two requests at a time suffice for every race
the code guards against, because each guard protects one read from one other
writer; the worker is a third actor in the RFQ, passport and ledger runs.

- `rfq_award`: two RFQs of one opportunity (the opportunity is the row they share) and
  two quotes; with one provider the two quotes of one RFQ come from two racing
  submissions, so the two-selections race is there. `MaxTime = 1` with
  `DueDates = {0}` makes an RFQ open, then overdue. `rfq_expiry_live` has two due dates
  and a sweep of one RFQ at a time, so the sweep must come back.
- `passport_races`: times 0, 1 and 2 expire evidence (`Expiries = {1}`) and age a
  result (`StaleAfter = 1`); `MaxVersion = 2` gives an edit after a recompute.
- `economics_ledger`: two components of one recipient, so that a batch may mix them,
  with shares 1 and 2 against a `MaxAmount` of 2; one adjustment and batches of two
  entries reach every combination of payment against debit.
- `claim_disputes`: two competing claims, two disputes and three decisions: dispute
  after decision, decision of a dispute, and a decision racing each.
- `lockbox`: two lockboxes, two requests, one key and two payloads: a retry of the same
  request, the key reused for another payload, and a withdrawal racing a release. The
  data keys include the byte 0; every pair of shares occurs.
- `deal_room`: three requests, so that two wait for the lock of a third, and a decision
  can fall between the two steps of a condition.
- `access`: two users with a session each, two requests, and three membership rows, one
  of them another role of the same user in the same organization.
- `capacity_jobs`: one profile seeded and one created, two executions, two attempts,
  `SweepLimit = 1` (a page that is full, so the older profile is not on it), three
  times for the three classes, and one fault of any kind. `MaxStalled = 1` is BullMQ's
  default, which the worker does not change; the queue outlives the worker, so a sweep an
  earlier one left may be there from the start, and one stall more fails it.
- `volume_slices`: four submissions: two with the same cells in opposite order, one
  of a disjoint cell that it repeats, one of a stranger; the summary's totals are met by
  some of what may be stored and not by the rest.
- `calculations`: the whole authorization matrix over three organizations (one's own,
  another's, a third); for matching, inputs at, just below and just above each limit,
  with missing values, and passes that ask for a ticket and a rail one capacity lacks;
  every commission input of four components, seven units and 10000 basis points scaled
  to 5, which has remainders that tie, empty pools and zero shares; sharing over chosen
  secrets and coefficients, 0 and the maximal byte included.

Deadlock is off where a bound on rows, or idle users, may stop the system.

**Symmetry** permutes identifiers the specification only compares for equality, in
runs without liveness.

**Fairness.**
- `rfq_expiry_live`: weak fairness of `StartSweep` and `SweepStep`. The worker registers
  the sweep as a repeatable job every five minutes (`apps/worker/src/sweeps.ts`) and
  BullMQ runs what is scheduled, so a sweep that stays possible happens, and one that is
  running goes on unless it crashes (`MaxCrashes` bounds the crashes).
- `capacity_jobs`: weak fairness of the return of a service, the worker's start, its
  schedule, and of taking jobs and running handlers: the process manager restarts the
  worker, and BullMQ gives a waiting job to a free slot and a stalled one back.
  Faults are bounded by `MaxFaults`; none is obliged to happen, and no lock to run out.
- `deal_room`: weak fairness of the statements of a transaction that holds the lock, and
  strong fairness of `Acquire`: PostgreSQL queues the waiters of an advisory lock.
- `volume_slices`: weak fairness of a request's next statement, and of the deadlock
  detector, which runs after `deadlock_timeout`.

No user is obliged to act, no delayed job to arrive, and the clock need not advance.

**Mutants.** Every property of a passing run has a mutant of the code's logic (a
dropped second read, a missing index, a lock released too early or never, a key without
the class, a fail-open check, an off-by-one in the bonus units...) under which TLC finds
it violated; they are the operators named `X_Y` before each `X`.

## 4. Proofs

TLAPS proves the following for every set of rows, requests and handlers, every clock
bound and every input, from the assumptions on the constants only. Those are named in
the modules that declare the constants, and TLC evaluates them in every run: sets of
identifiers are finite where something is summed or counted over them, a marker such as
`Nobody`, `None` or `Absent` is not one of the values it stands in for, and amounts are
numbers. Every invariant of a passing run is either proved here or listed at the end of
this section.

| Module | Theorem | Property | Invariant it rests on |
|---|---|---|---|
| `RfqLifecycleProofs` | `TypeCorrect` | the type invariant | `TypeOK` |
| | `AwardSafety` | DealMatchesAward | `IInv` |
| | `SingleDeal` | OneDealPerRfq | `IInv` |
| | `RowsSound` | RowsAreSound | `IInv` |
| | `Refinement` | ImplementsQuoteAward | `IInv`, `RowsPersist` |
| `PassportReadinessProofs` | `TypeCorrect` | the type invariant | `TypeOK` |
| | `StatusIsSound` | StatusReflectsFacts | `ClockOrder` |
| | `DemotionIsSound` | StaleOnlyWhenOld | `ClockOrder` |
| | `ReviewIsKept` | VerificationSurvives | `ClockOrder` |
| `ClaimDisputesProofs` | `TypeCorrect` | the type invariant | `TypeOK` |
| | `DisputeSafety` | DisputedIffOneOpenDispute | `RequestRefs` |
| | `DecisionAccounts` | DecisionsAccountForDisputes | `Undecided` |
| | `OutcomesKept` | OutcomesAreFinal | the same |
| `LockboxProofs` | `Withdrawal_Holds` | WithdrawalHolds | `BoxInv` |
| | `Disclosed_Once` | DisclosedOnceAsSealed | `BoxInv` |
| | `Seal_Idempotent` | SealIsIdempotent | `BoxInv`, `KeyInv` |
| `DealRoomProofs` | `TypeCorrect` | the type invariant | `IInv` |
| | `Room_Sound` | RoomIsSound | `IInv` |
| | `Resolved_Once` | ConditionResolvedOnce | `IInv` |
| `AccessProofs` | `Sessions_Sound` | SessionsAreSound | `IInv` |
| | `Changes_RestOnAuthority` | ChangesRestOnAuthority | `IInv`, `AuthorityOK` |
| | `Deactivation_EndsSessions` | DeactivationEndsSessions | `IInv`, `RevokesAll` |
| | `Tenants_Isolated` | TenantIsolation | `CanInv` |
| | `Duties_Separated` | SeparationOfDuties | `CanInv` |
| | `Eligibility_Table` | EligibilityMatchesTable | `MatchInv` |
| | `Better_NeverHurts` | BetterTermsNeverHurt | `MatchInv` |
| `CapacityJobsProofs` | `Freshness_Sound` | FreshnessIsSound | `RowPart`, `JobPart` |
| `AccountingProofs` | `Ledger_Sound` | LedgerIsSound | `IInv` |
| | `Never_Overpaid` | NeverOverpaid | `IInv` |
| | `Append_Only` | LedgerIsAppendOnly | `IInv` |
| | `Slices_Sound` | SlicesAreSound | `SlicesInv` |
| | `Answer_Holds` | ReconciledAnswerHolds | `SlicesInv` |
| | `Split_Fair` | SplitIsFair | `SplitInv` |
| | `Ranking_Fair` | RankingIsFair | `RankInv` |
| | `Claims_RankedFairly` | ClaimRankingIsFair | `ClaimInv` |
| | `Books_Balance` | BooksBalance | `LedgerInv` |
| | `List_NeverGoesBack` | ListNeverGoesBack | `ListInv` |

A proof that a step keeps an invariant has one lemma per action (`...Keeps`), and under
it one step per conjunct the action can disturb. None of the properties is inductive as
it stands; what each needs is the interesting part.

- **RfqLifecycle.** `IInv` adds `RefsResolve`: a request holds identifiers it read long
  ago, and the transaction of a selection is only sound because the rows they name still
  exist and belong together. That rests on `RowsPersist`, a fact about each step: rows
  are never deleted and never change hands. The refinement maps the rows to the state of
  `QuoteAward`; each action is shown to be one of its steps or to change nothing it
  speaks of. The award itself needs `DealMatchesAward` in the state before it, because
  the transaction reads only the quote again.
- **PassportReadiness.** `ClockOrder` says that a clock reading still held lies in the
  past; with `BlockedMonotone` (time alone never unblocks a passport) it makes a
  recompute with an old clock harmless for INCOMPLETE.
- **ClaimDisputes.** `RequestRefs` (a request in flight is about a claim) and `Undecided`
  (a claim that is missing or SCORED has no decision), without which creating a claim
  could break the accounts.
- **Lockbox.** `Checked`: what a transaction has checked is still so when it writes,
  because it holds the lock of that lockbox; `Undisclosed`: a lockbox that was not opened
  was disclosed to nobody. For the keys, `KeyInUse`: a key without a row is used by
  nobody, the request that reserved it is alone with it and has sealed nothing before its
  handler runs. The secret sharing is not expanded: what a release opens is stated by the
  specification and kept as it was sealed.
- **DealRoom.** `ReadIsCurrent` (under the lock, what was read last is still so),
  `InputsOK`, and `PostedAtTheEnd` (the condition about to be posted does not exist yet).
  `TimelineReplaysStatus` concatenates sequences; it is carried as `EventChain`, each
  event starting from the status the one before it left, and the two are shown to say the
  same.
- **Access.** A session is written from what a request has read, so what is known of
  sessions needs what is known of requests: `RequestOK`. `AuthorityOK` follows the
  membership a request acts as from the hook to its commit: it was ACTIVE after the
  session was read, and it permits the change the request has gone on to, however its row
  changes meanwhile. `RevokesAll` accounts for the
  sessions that were there when a change was asked for, from its update to its commit.
- **CapacityJobs.** Two halves: `JobPart`, which handlers run, for which job, with which
  list and clock reading, and that at most one holds a job (`Attending`); and `RowPart`,
  the log of each profile, whose every class has its key spent (`KeysSpent`). They meet
  in `Recompute`: the list names rows that exist and the clock reading lies in the past,
  so what is written is no staler than now. That a profile enters no class twice is the
  key's doing, whatever the overlapping handlers do.
- **EconomicsLedger.** `PaymentsAccountForLedger` equates two sums, over the payments on
  file and over the accruals. A batch adds its total to the first and, accrual by accrual,
  the sum of its entries to the second; `BatchSplits` shows these are equal for any batch.
- **VolumeSlices** (in `AccountingProofs`, beside the ledger). `DeletesApart` is what the row
  locks give: open transactions delete different rows, and rows that are still there.
  `CellsApart` is the unique index, `SeenWhole` says a statement's snapshot holds a
  submission whole or not at all. `StoredReconciles` shows that the rows of a reconciled
  body, listed in whatever order a read gives them, have the same sums.
- **CommissionSplit.** The units left after rounding down are as many as the remainders
  divided by the base (`PoolFacts`), the ranks of the remainders are a permutation
  (`RankOrder`), so exactly those units are handed out, each where something was rounded
  down. That no other split is closer is a duality argument: with one price per unit, a
  recipient's amount is the cheapest for it among all whole numbers (`UnitPrice`,
  `NearestNumber`), and the prices of two splits of the same units are equal.
- **Rankings.** The place of a row is one more than the number of rows before it; in a
  strict total order those counts are 0..n-1, each once. For `rankMatches` and `rankClaims`
  what is left is that their comparison is such an order, which for claims needs all three
  criteria. The score of a claim is monotone in each factor, although it is rounded and
  its evidence is capped.
- **The books of a period.** Every row belongs to an accepted event and to a component
  whose accrual is there (`LedgerRows`), so the rows of a period are its chains, each row in
  one, and the accruals under a schedule are those of its events. With `TotalParts` (a
  total may be taken part by part) the balances of the chains add up to the period's, the
  entries of a split to its net amount, and the net amounts to what a cap is held against.
  `LedgerAssumption` says what the contracts guarantee of the input: components such as the
  split accepts, amounts that are not negative, later entries that are no accruals.
- **The list of the latest matches.** Rows have their own ids (`IdsApart`), so "newer" is a
  strict total order of a capacity's rows and there is one latest (`LatestFacts`). The
  list's comparison orders the latest rows (`ShownOrder`), so the places it gives are 1..n,
  each once, and the list has every latest row at its place (`ListFacts`). A further pass
  only adds rows, so the latest of a capacity only advances. `HistoryAssumption` says what
  the repository's two-way guard guarantees: whoever is eligible has a rank.
- **The matrix and the rule table.** `Tenants_Isolated` and `Duties_Separated` follow the
  grants role by role for any organizations; `Eligibility_Table` shows for each rule when
  it blocks, and that no blocker is the table.
- **Better terms.** `NoWorse` says when one capacity offers no worse terms than another, and
  every change the property makes is one (`ImprovedIsNoWorse`). On such terms no rule blocks
  that did not (`BetterStaysEligible`) and no factor falls (`FactorsGrow`). Each factor is a
  clamped, rounded fraction, so it is enough to compare fractions by cross-multiplication
  (`FractionsGrow`, `ScoreGrows`); for the risk factor, an average of quotients on a common
  denominator, that comparison is `ShareGrows`. `MatchAssumption` says what the schemas
  guarantee: the fields are there, amounts are naturals, lists are finite.

Sums are folds over sets, and induction over data is out of the prover's reach. The
theory of sums (`TotalStep` to `TotalParts`) goes round it: if a fact about the subsets
of a finite set fails for some, it fails for one that is minimal (`MinimalSubset`, from
the well-foundedness of the strict subsets), and one element taken out of that one is a
contradiction. The fold of the library is characterised by `RunExists` and `RunUnique`.
The ledger, the slices, the split and the scores all rest on it, which is why they share a
module.

**Only model-checked.**
- Liveness (OverdueRfqCloses, EveryJobEnds, SweepCatchesUp, EveryRequestEnds,
  EveryReplacementEnds): fairness and ENABLED are out of this prover's reach.
- VisibilityFollowsMatrix: seven pages and ten lists against the matrix, a fixed table
  that TLC enumerates; the forms are finite too.
- TwoSharesNoFewer: the logarithm tables of GF(256) are recursive functions, and what they
  compute would have to be proved by evaluation.

## 5. Where the code and its comments part

Each of the following holds in the models as it does in the code. The first eight are
stated as properties at the end of their modules, where a comment, a contract or a test
of the repository says them; TLC refutes each one when it is added to the module's
configuration. `PaymentWithinBalance` has a run of its own (section 3).

- `RfqTerminalIsFinal`: selectQuote makes SELECTED an RFQ that expired after its first
  read, although the job calls EXPIRED terminal.
- `CascadeFiresFromExpectedStatus`: the opportunity's cascade is written from the status
  read before the transaction.
- `ReplayHidesNothing`: a passport that becomes STALE twice with unchanged facts meets a
  spent key, and the worker leaves it STALE (it takes `MaxTime = 5`; one request is enough).
- `NotVerifiedOnExpiredEvidence`: verify checks the status, not the evidence's expiry.
- `SupersedesActiveVersion`: two requests supersede the same commission schedule (it
  takes three `Schedules`).
- `OneSubmissionStored`: replaceVolumeSlices "Replaces the Opportunity's ENTIRE
  volume-slice breakdown" (`opportunities/service.ts:100`), but two overlapping
  replacements of disjoint cells both stay. So the PUT may answer a mismatch, or a match,
  that the next GET no longer sees.
- `InProgressIsInFlight`: a key whose handler failed or whose process died stays reserved
  without a response, and every retry is told that its request is "still in flight"
  (`shared/idempotency.ts:66-67`); `expiresAt` is written and never read.
- `ClassOnlyAges`: the freshness job takes its time before it waits for the profile's
  lock, so a late handler writes AGING back to FRESH; the key of AGING is then spent, and
  the stored class stays behind until STALE.

Others, seen while modelling:

- RFQs: a decline is overwritten by a racing submitQuote; a second quote on an RFQ is
  refused by the recipient table although the code computes versions for it;
  `validUntil` is enforced nowhere.
- Claims: a provisional claim's window is enforced nowhere.
- Economics: an accrual may be booked on a schedule superseded meanwhile; a component
  with a basis of its own in a schedule of another basis is never paid, because the
  schedule is looked up by the event's basis (`economics/service.ts:446`); the engine
  handles REVERSAL entries, which no code writes.
- Lockbox: a release whose answer is lost cannot be repeated.
- Deals: the list shows a merchant's user the rooms where it is on the provider's side;
  a REJECTED condition may reopen by the table, and no route offers it.
- Access: switch-org may answer with another membership than the session's
  (`auth/routes.ts:93`); inviting again turns ACTIVE into INVITED and revokes no
  session (the next request's hook still refuses it); two concurrent role changes leave two roles.
- Worker: jobs enqueued by the API have one attempt, although `queue.ts:32` says its
  options apply "to every job unless overridden" and `enqueue.ts:107` calls them
  retriable; sweeps read only the newest 500 rows.
- Opportunities: one created through the API stays DRAFT (`opportunity-states.ts:36`).
- Web: no page offers a dispute to anybody who may file one, because whoever has the
  standing may not open the claim's page; finance may record revenue, and the economics
  page begins with a deal that finance cannot read; a REJECTED condition has a Resolve
  button with targets the table refuses; the deal page offers posting and deciding to any
  reader, auditors included, and the lockbox page a withdrawal to any role of the sealer;
  a quote is still offered after quoting and after the RFQ closed; the comment on the
  economics page has merchants read schedules, which the matrix does not grant them.
- Forms: a revenue event's empty source, a quote's rate beyond the schema's million
  basis points, its capacity beyond 2^53 and its date beyond the year 9999, and a ticket
  beyond 2^53 in the matching form are sent and refused; identifiers are typed as free
  text where the schema asks for a UUID.
- Matching: the comparator of `match-result.repository.ts:109-114` is NaN on two
  ineligible rows (both ranks infinite), so their order by capacity is not reached; the
  recorded input versions leave the passport out.

## 6. What the models do not say

- Transactions are atomic and the advisory lock's hash is free of collisions (a
  collision only serialises more). Encryption is ideal. Amounts in matching stay below
  2^53, beyond which the code's `Number()` of a bigint rounds. Attribution scores are exact
  tenths, where the code computes in doubles.
- The readiness score and its warnings, password hashing, tokens, cookies, the HMAC of
  receipts, the audit rows of jobs, bands and risk tiers of cards: no decision that is
  modelled reads them.
- **Not modelled**: organizations and `me` (single-row writes and reads), audit listing,
  health and bootstrap, mappers and the schemas no form meets (their admitted values are
  the models' inputs), the shell, lists and sign-in of the web client, which keep no
  authoritative state, configuration, event names and the database client, seeds,
  placeholders and infrastructure.

## 7. Plan

Done, in this order: the RFQ pipeline with its expiry and the abstract award; the
passport; the split and the ledger; claims; lockbox with idempotency and secret sharing;
deal rooms; sessions and memberships; capacity with the worker runtime; volume slices;
the pure algorithms; the pages and forms; and the proofs of section 4. Left to prove:
`VisibilityFollowsMatrix`, page by page, from the grants of each role.
