# CAMS: TLA+ models and proofs of the case and trustee dataflows

CAMS (CAse Management System of the U.S. Trustee Program) keeps its own copy of
the courts' bankruptcy cases and of what its users decide about them. Most of
what can go wrong in it goes wrong in the *dataflows*: queue-triggered functions
that copy data from DXTR (the courts' database), match it to CAMS records, write
several documents without a transaction and announce the result downstream to
ACMS; and in the few requests of the API that write many documents. Paths below
are relative to `src/backend/` unless they start with `src/`.

## 1. The system

| Component | State it keeps | Operations | Hard behaviour |
|---|---|---|---|
| Trustee appointment sync, case writes (`lib/use-cases/dataflows/sync-trustee-case-appointments.ts`, `trustee-case-appointments.mongo.repository.ts`) | two partitions of appointment rows, surrogate rows, pending verifications, variations, an output binding | match a DXTR trustee, soft-close, create, repair, announce | no transaction over the two copies; concurrent pages; redelivery; crashes between calls |
| Trustee appointment sync, export and queue (`function-apps/dataflows/import/sync-trustee-case-appointments.ts`) | two sync dates, page queue, DLQ, counters on messages | start, page out, process, requeue, give up | overlapping exports, two retry policies on one page, poison messages |
| Trustee match verification and its remap (`trustee-match-verification.use-case.ts`, `trustee-verification-remap.ts`) | verification documents, remap queue | approve, reject, remap a page of surrogates | approval against a running sync, retried deletes, continuation without a cursor |
| Downstream transition (`function-apps/dataflows/downstream`) | rows of the ACMS transition database, a watermark | apply open/close events, merge ACMS's rows daily | redelivery and reordering of events, days against instants |
| Case sync (`import/sync-cases.ts`, `export-and-load-case.ts`, `cases-runtime-state.ts`) | cases, two sync dates, pages | export changed cases, load them, detect division changes | dates stored before the pages are flushed; patches of appointments that fail |
| Division changes (`migrations/division-change-cleanup.ts`) | everything keyed by case id | copy, re-key, delete, mark | several documents, no transaction, clean-ups side by side |
| Case assignment (`case-assignment.ts`) | assignments, audit trail, announcements | replace the assignees of a role, on a case and its members | concurrent requests, failures between the documents |
| Orders: transfers (`orders.ts`, `orders.dxtr.gateway.ts`) | transfer orders, transfer documents of both cases, a cursor | import from DXTR, approve, reject | a cursor compared as a string, orders entered while it reads, two users |
| Orders: consolidations (`orders.ts`) | consolidation orders, references, attorneys, history | split, approve, reject | two users, partial failure between the references |
| Trustee migration (`migrations/migrate-trustees.ts`, `trustee-migration-state.service.ts`) | trustees, a state document with counters | a chain of pages; a fan-out of heal pages | restart in the middle, counters of concurrent handlers |
| Deleted cases, archive, other migrations | cases and what hangs on them | copy then delete, backfills | several documents, no transaction |
| Trustees, trustee appointments, notes, lists, offices, staff, session | single documents | create, update, read | mostly one document a request |
| Matching and scoring, paging, backoff | none | pure functions | boundaries |
| User interface | forms, session timer | rendering | none of its own beyond the API |

How they interact: timers put a start message on a queue; a start handler reads
DXTR, stores a date and sends pages to a second queue; page handlers run up to
ten at a time (`host.json`, `batchSize`), are delivered at least once and go to
a poison queue after five deliveries (`maxDequeueCount`). The appointment sync
needs cases that case sync loaded (else `not-yet-synced`), leaves surrogates
that only the remap of an approved verification ends, and announces appointments
on a queue that the downstream transition consumes. Case sync tells the clean-up
of a division change by a queue of its own. The order sync makes the orders that
requests then approve. The API sets the same output bindings as the dataflows.

What makes each correct: the two copies of an appointment agree and tell the
court's latest decision; no transaction, case change or court order is skipped
by a stored date or cursor; every event gets its attempts and no more; a
mismatch marks a case once and approval replaces every mark; a document of a
case that changes its id is neither lost nor left behind; an assignment's audit
trail tells its changes and what ended stays ended; an order and the references
of its cases agree, and an approval is carried out in full; downstream keeps the
youngest event; a migration that says it is complete is.

`PROJECT.json` lists every component with its status and, under `hazards`, each
place in the code where one of these can break, with the properties that watch
it or the reason why none does.

## 2. Modules

| Module | What it is | Proofs |
|---|---|---|
| `CaseAppointments` | one case: handlers that process events, every awaited call an action | `CaseAppointmentsProofs` |
| `ActiveAppointment` | the abstract promise: at most one active appointment, ended before the next is made, and only ones an event asked for | (refined there) |
| `AppointmentSyncQueue` | exporters, sync dates, page queue, retry counters, DLQ and poison queue | `AppointmentSyncQueueProofs` |
| `VerificationRemap` | one mismatch over several cases: the sync that marks, the user who decides, the remap | `VerificationRemapProofs` |
| `CaseAssignment` | requests that replace the assignees of a role | `CaseAssignmentProofs` |
| `OrderSync` | the import of court orders with its cursor, and the decision on transfers | `OrderSyncProofs` |
| `Consolidations` | the decision on consolidation orders | `ConsolidationsProofs` |
| `CaseSync` | the daily sync of cases and the clean-up after a change of division | `CaseSyncProofs` |
| `DownstreamTransition` | the two tables ACMS's readers see, the events and the daily merge | `AcmsProofs` |
| `TrusteeMigration` | the migration chain and the healing fan-out over one state document | `AcmsProofs` |
| `MC...` | the small instance of each that TLC checks: values of the constants and, where said below, a restriction of the environment | |

Common to all: an action is one awaited call together with the synchronous code
up to the next one, so that other invocations and failures come between any two;
`PROJECT.json` `map` gives the lines of every definition. An invocation has a
program counter (`pc`, `startPc`, `pagePc`) and a record of its local variables
(`job`, `run`, `page`, `request`, `local`, `sync`, `user`). A failure is an
action of its own: an error that the code catches goes where the `catch` goes,
one that it does not catch ends the invocation, and a host that stops loses the
output bindings. Logging, telemetry and the texts of messages are left out.
"Variant" marks an operator that is not part of the model: a plausible edit of
the action below it, with which a run is seen to fail.

**`CaseAppointments`.** Every database operation of the sync touches the rows of
one case only, so one case is modelled. `caseRows` and `trusteeRows` are the two
partitions, keyed by the natural key (trustee or fingerprint, `assignedOn`) that
`upsert` queries by; a row is its document id and whether `unassignedOn` is
unset. A surrogate is a row whose holder is a fingerprint. `pending` and
`variations` stand for the verification and variation documents by their only
relevant part. `Abort(h, kind)` is a call that throws: `transient` (an error
`isTransientInfraError` accepts: the event is retried), `permanent` (DLQ), or
`crash` (the binding is lost and the message comes back). `Deliver` may take any
event at any time up to `MaxDeliveries`: pages are delivered at least once,
retried with delays, exported again. `enqueue`
(`lib/adapters/gateways/api-to-dataflows`) *sets* an output binding to one
message, so a second set in the same invocation replaces the first: `outbox[h]`
holds at most one, `EndPage` flushes it, `LosePage` drops it. Matching (names,
scores, recency) is free within `Matched` and `Unmatched`; a fingerprint in both
may match on one attempt and not on the next, because trustees are edited. The
downstream feature flag is on.

**`AppointmentSyncQueue`.** Here an event has only an outcome. `committed` are
the transactions DXTR shows, `watermark` the two stored dates, `queue` the
visible messages. `unsyncedSeen` is not in the code: it counts how often an
event's case was found missing. `Start` reads the two dates (or date 0 on a reset
or a failed read), the two queries settle independently, pages go out in any
division of at most `PageSize`, rejected events go to the DLQ, and only then are
the dates stored; a failed store is swallowed. `Receive` hides a message,
`ProcessEvent` draws one of the outcomes of `processAppointments`,
`RetryTransient` and `RetryUnsynced` send the two kinds back on messages of
their own, `SendDeadLetter` sends the rest, `Complete` deletes the message;
`PageFails` is redelivery, or the poison queue at `MaxDequeueCount`. Assumed of
DXTR: each query shows its transactions in strictly increasing `TX_DATE`
(`Commit`); the query's strict `>` would otherwise skip one (see the hazard at
`cases.dxtr.gateway.ts:1375`).

**`VerificationRemap`.** A mark is a surrogate, kept as `caseMark` and
`listMark`; `caseRow` and `listRow` are the real rows. The sync writes the case
copy first, the remap finds a case by its trustee copy and deletes the case copy
first. A decision is a read, a write and a queue message; the remap lists a page
of marks without a cursor, replaces each, and queues itself again while there
are more. `Earlier` lets the court have appointed another trustee before.

**`CaseAssignment`.** `assignments` are documents with ids of their own, `audit`
the last audit entry of each case. A request works through the case and the
members of its joint administration. It asks for a *list*, which may name somebody
twice: `new Set` at `case-assignment.ts:128` holds fresh objects and removes
nobody, each place of the list that finds no existing assignment is created
(`request[q].add` is the set of those places), and `approveConsolidation` passes
such a list for whoever holds two roles on the lead case (`orders.ts:476`). So
one request, alone and unbroken, may give a role twice; `HeldAsListed` says that
it never comes to more than the list has places, and `LastListStands` that the
*set* of assignees is the list's. `contended` and `broken` (not in the code)
remember on which cases two requests overlapped or one broke off, `overruled`
which request has not the last word on a case.

**`OrderSync`.** `dxtr` holds the court orders, `txId` the cursor, which the code
keeps and compares as a *string*. A number is compared that way by `Padded`,
which fills the shorter numeral up to `Width` digits from the powers of ten
`Tens`. `late` (not in the code) are the transactions entered while a sync reads.

**`Consolidations`.** A pending order lists the cases of a DXTR job. A decision
creates an order for what it takes out and one for the rest before it deletes
the old one; an approval then writes a reference of the member, one of the lead,
attorneys and history, case by case. `overlapped` (not in the code) remembers
that two requests worked at once.

**`CaseSync`.** A case's id begins with its division: `Ids == Cases \X Divisions`.
`dxtr` has, for each case, its division now, its fields, and its date in each of
the two feeds (`AO_CS`, `AO_TX`). `synced` are the case documents by id, `docs`
what else hangs on them, `pages` and `fixes` the two queues (bags: at least once).
A page handler goes through `exportAndLoad` call by call, a clean-up through
`cleanupOrphanedCase`. The last five variables (`cutOff` ... `abandoned`) are not
in the code: they remember the circumstances under which the properties make no
claim.

**`DownstreamTransition`.** One case and appointment type in `CMMAP_CAMS` and
`CMMAP_ALL`, by `RECORD_SEQ_NBR`. An instant is a number and a day has
`DayLength` of them, so that the code's mixture of dates and time stamps is kept.

**`TrusteeMigration`.** `todIds` and `mapped` stand for trustees and professional
ids, `doc` for the state document with its cursor, `healRecordsRemaining` and the
two statuses. `AloneSpec`, the specification that is checked and proved about,
restricts starts to moments when every queue is empty (`OneAtATime`), as an
operator would. The read and write of `InitHealState` are one step there. Its
names differ from those of `DownstreamTransition`, so that `AcmsProofs` can extend
both: they share no state.

## 3. Runs

Everything below passes; the last two are statements of the repository that the
code does not keep, and TLC finds the counterexample.

| Run | Instance | What it shows |
|---|---|---|
| `appointments_in_order` | one handler; a trustee is appointed, replaced, appointed again; the case is synced late and may be moved; transient and permanent failures and crashes between any two calls; three deliveries each | `PartitionsAgree`, `LatestEventWins`, `SettledHasActive`: once all is settled the case has an active appointment, both partitions agree on it, and it is the court's latest |
| `appointments_replayed` | one handler, the same events in any order, each delivered twice, one of the two names may match on one attempt and not on the next; crashes | `TrusteeCopiesHaveCaseCopy`, `LinkedIsListed`, `OneSurrogatePerMismatch`, `SurrogateSurvives`, `AnnouncedAsStored`, `ImplementsActiveAppointment` (refinement) |
| `queue` | one export of three transactions of both sources, one too large for a message; free outcomes, a fault and a transient error anywhere, redelivery, poison; fairness | `NothingLost`, `OversizedIsReported`, `UnsyncedGetsItsRetries`, `QueueDrains` |
| `remap_faults` | two cases of one mismatch, pages of one; an approval or rejection and a sync beside the remap; two failures of any kind; fairness | `NeverForgotten`, `NoMarkSkipped`, `RemapClears` |
| `assignment` | two requests out of five, one list with a repeat, on a lead case and its member; an attorney who holds a role twice from before; an error or a crash anywhere | `RemovedIsGone`, `HeldAsListed`, `OneLead`, `AuditTells`, `LastListStands`, `EndedStaysEnded` |
| `orders` | three syncs over ids that gain a digit (from 8) or do not (from 11), orders entered while a sync reads, one failure, two people deciding | `CursorCovers`, `ImportedOnce`, `OnePendingOrder`, `TransferRecorded` |
| `consolidations` | two requests out of nine decisions on two jobs with cases in common, two failed calls | `NoCaseLost`, `MemberFirst`, `OneConsolidation`, `OneOrderPerId`, `ApprovalIsComplete` |
| `case_sync` | two cases of which one changes division, there and back; two starts, two handlers, one failure anywhere, redelivery; a document from the start and one a user adds | `NothingMissed`, `MovedLeavesNothing`, `OrphanIsCleaned`, `NoDocumentLost` |
| `downstream` | every initial content of two ACMS rows, two days, two events late, twice or out of order, a change by ACMS, daily merges that break off | `YoungestEventStays`, `OwnedRowsFollowCams` |
| `migration` | two pages of ATS records and two heal pages; three orders of any kind, each sent at rest; two invocations; a page cut short by rate limiting, two failures, redelivery and poison | `CompletedIsMigrated`, `HealLosesNothing`, `HealedIsHealed` |
| `patch_retried` (violated) | two changes of a case, two syncs, no failure | `PatchIsRetried`. `export-and-load-case.ts` says of a failed patch "will retry on next sync"; `updateCaseFields` hands the driver bare fields, which it refuses, and the next sync compares DXTR with what this one wrote and has nothing to patch |
| `healed` (violated) | a migration, then a healing, no failure | `HealConverges`. `recordHealPageResult` takes its page off the counter atomically and then writes back the whole document it read; a sibling that finished in between is undone, and the healing is never completed |

**Preconditions.** Some properties say "unless requests overlapped", "unless a
call failed", "unless somebody gave up". Each stands for something the code has no
transaction, lock or retry against. The variables that remember these
circumstances are named in section 2; no action reads them. `RemovedIsGone` holds
without any, and `LastListStands` leaves out only the requests that were
overruled themselves, not what happened before them; `HeldAsListed`, `OneLead`,
`AuditTells`, `ImportedOnce`, `OneOrderPerId` and `ApprovalIsComplete` say how far
the code goes when nothing interferes, and make no claim under the overlaps and
failures they name: there the code does go wrong, and `hazards` does not count
them against those. `HealLosesNothing` counts as reported what a message put on
the DLQ or given up was about, and everything when an order to heal is refused
because a migration runs; so an order that is refused because its own first
delivery broke off (`migrate-trustees.ts:247`) is not caught by it. `remap_faults`
has one user; that two of them do no harm to `NeverForgotten` rests on the theorem
`MarksAreReplaced`.
`appointments_in_order` is constrained (`InOrder` and `Reported`, which make
`InOrderSpec`) to events that come in date order, each until it is settled
and a permanently failed soft-close not tried again: the code promises no more,
since an earlier event delivered again after a later one wins. `queue` has all
transactions in DXTR before the first export, `migration` sends an order when
the queues are empty, as an operator does.

**Bounds.** Two trustees are what a reassignment needs, three events what a
return needs. Three deliveries are a first attempt, a retry and a replay of a
finished one: the states of a row the code tells apart (missing, partly written,
written). Two actors are the fewest that interleave; where a proof exists, it
covers any number of them. Limits of 1 stand for larger ones (2 not-yet-synced
retries, 5 dequeues, pages of hundreds): each counter passes below, at and beyond
its limit. `Width` 1000 has every length of numeral that ids of the run reach.
`MaxCommits`, `MaxSyncs`, `MaxRuns`, `MaxFaults`, `MaxTransients`, `MaxChanges`,
`MaxStarts`, `MaxEvents`, `MaxAcmsChanges`, `MaxEscapes`, `MaxFailures` and
`MaxDeliveries` of the environment only stop the exploration and occur in guards.
`CHECK_DEADLOCK FALSE` is set throughout because the bounded inputs end; that the
queue and a remap do *not* get stuck is what `QueueDrains` and `RemapClears` say.
Symmetry is declared over interchangeable actors and, in `downstream` and
`orders`, trustees and targets that no definition distinguishes; never together
with a liveness property.

**Fairness.** `WF_vars(StartStep(s))` and `WF_vars(PageStep(h))` in `queue`,
`WF_vars` of `DecisionStep(u)`, `SyncStep(s)` and `RemapStep(r)` in
`remap_faults`: Node continues an invocation whose awaited call has returned,
drivers time out, and the host polls a queue for as long as it has messages.
Nothing is assumed of when a timer fires, whether a user acts, which message is
taken first, or that a failure happens or does not; failures are bounded, the
usual reading of "once errors stop".

Every property has a mutant, a plausible edit of one action kept beside it in the
module as a "Variant" (or, where one definition says it, in `PROJECT.json`),
under which TLC finds the property violated.

## 4. Proofs

The theorems hold for every value of the constants under the named assumptions
of the modules, which say what kind of thing a constant is and little else:

* `StoreAssumption`, `EventAssumption`, `HandlerAssumption` (appointments),
  `EventAssumption`, `LimitAssumption` (queue), `TransitionAssumption`,
  `CaseAssumption`, `SeedAssumption`, `TargetAssumption`, `BoundAssumption`,
  `InputAssumption`: kinds, and that absent values are no values;
* `MigrationAssumption`: ATS and ACMS records are finitely many positive numbers, and
  pages hold at least one;
* `GivenAssumption`: at first a case has one lead;
* `EarlyAssumption`: finitely many documents exist at first; `Jobs` and
  `Attorneys` are finite, because ids are counted;
* `TensAssumption`: `Tens` are the powers of ten up to `Width`, which is beyond
  every id; `UserAssumption`: the sync is not one of the users.

Nine theorems have a hypothesis of their own. `OneHandler` (one invocation at a
time on a case) for `OneSurrogate`, `AnnouncedStored`, `OneActive` and
`Implements`, the last two also with `NoPermanentFailure`; without them two
active rows are possible, as a comment on `getActiveByCaseId` accepts.
`SettledActive`, `PartitionsInAgreement` and `LatestWins` need `OneHandler` and
`AllMatch`: an event whose name matches nobody is settled by a surrogate, and the
case waits for a person. The last two are about `InOrderSpec`, since an earlier
event delivered again after a later one wins, and need real dates (`Dated`). These
are the circumstances of the run `appointments_in_order`. The
migration's are about `AloneSpec`: a second start while pages are queued would run
two chains over one state. `LoneHealingConverges` is moreover about a single
invocation at a time (`OneInvocation`), which is no setting of the host but the
case that tells what the violation in `healed` is owed to. And
`"crash" \notin Faults` for `ApprovalsAreQueued`: a host that stops between the
write and the return of a decision loses the message.

In every module the types are a theorem (`TypeCorrect`, `QueueTypes`, `...Types`)
and part of the induction; no run checks them separately. The argument for each:

**Appointments** (`CaseAppointmentsProofs`). `JobsKnown` ties what a handler holds
to the call it is about to make. On it rest `SurrogatesSurvive`, an action
property, `TrusteeCopiesCovered` (a case copy is never removed, and each write of
a trustee copy follows one of the case copy) and `LinkedListed`, for any number of
handlers. For one handler, `AloneInv` says what it may rely on at each call
because nobody ran in between; `VacantInv`, that between ending one appointment
and making the next there is none. From it `Implements`: initial states map to
initial states, a soft-close to `Vacate`, a create to `Appoint`, a delivery to
`Request`, every other step to a stutter of `ActiveAppointment`.

`ServedInv`: a case without an appointment that some event had been linked to is
`Owed` one, by an attempt between two calls or by an event yet to be settled
(`SettledActive`, in any order of events). `OrderInv`, for events taken in order:
all but the latest one taken have succeeded, and its appointment is at one of
five stages: `Before`, `HalfClosed` (the old one ended in the case partition
only), `Vacated`, `HalfOpened` (the new one in the case partition only) and
`Held`. Which of them a handler may meet at each call is `At`; wherever an attempt
is cut off, the next one finds one of them and goes on from there. The invariant
is a disjunction, because the case may be moved, an event may be on the DLQ
(`Stopped`) or on its way there (`SoftFailed`). TLC checked it on
`appointments_in_order` before it was proved.

**Queue** (`AppointmentSyncQueueProofs`). `NothingIsLost` needs `QueueInv`:

* `StartsInv`: up to the date an exporter read, and up to the one it will store,
  every transaction is accounted for, except those it has yet to send;
* `PagesInv`: every event of a held message is still owed by its handler, or is
  settled, or waits in a *younger* message;
* `IdsInv`: ids are given once. It makes `PagesInv` inductive: two handlers cannot
  each let go in reliance on the other's message, since "younger" is an order;
* `MarksInv`: `NothingLost` for both stored dates, with the fact that a date is a
  committed transaction's, so that a later commit is beyond it.

`HeldInv` says what can be on a message at all: `FitInv`, no oversized event ever
is, so that of all that accounts for one only the DLQ is left
(`OversizedAreReported`); `TriedInv`, an event of a message was found unsynced at
least as often as the message's counter says (`UnsyncedGetTheirRetries`).

**Remap** (`VerificationRemapProofs`). `RInv`: what a running remap has done so
far for the mark at hand, and that every message names a trustee somebody chose;
a mark goes only after the case has that trustee's row (`MarksAreReplaced`).
`KInv` adds who carries a mark that is due (a message, or a remap that has it on
its list or will ask for more) and that ids are not used again
(`NoMarkIsSkipped`).

**Assignment** (`CaseAssignmentProofs`). What a request drops is in the store or
was ended by another, and an ended document is never written back
(`NothingRevived`, `RemovalsTold`: any overlap, any failure). `HInv`, for a case
without overlap: between its read and its writes a request knows the active
assignments of the case, so that what somebody holds and what it has still to
create for him together are no more than his places in its list
(`RoleHeldAsListed`, `LeadHeldOnce`). `AInv`: after the second read what will be
recorded is what is active (`AuditIsTold`). `LInv` follows every request over the
cases it has come to: it is overruled there, or no rival is at work and either the
assignees are its list or what is missing to that is what it is about to write
(`Covers`). A rival's read overrules it; whoever else writes, writes elsewhere or
in another role (`WritesHere`), which rests on `PInv`: a request drops only
assignments of its role on the case where it is (`LastListDoesStand`).

**Orders** (`OrderSyncProofs`). `CInv`: what the sync has read of DXTR at each
call and what it still has to write (`CursorIsCovered`). `PInv`: nobody else gives
a job a pending order between the count and the create (`OnePending`). `RInv`: an
approved transfer is recorded or a user is at the step that records it
(`TransferIsRecorded`). `NInv`: whatever is a task is at or before the cursor, or
was written by the sync that is about to store it; with the lemma that ids with
the same number of digits compare as strings as they do as numbers
(`NoOrderTwice`).

**Consolidations** (`ConsolidationsProofs`). `LInv`: a request that splits an order
holds its cases until they are in another (`NoCaseIsLost`). `MInv`: the member's
reference is written before the lead's (`MemberIsFirst`). `SoleInv`: without
overlap, what a request has checked is still so when it writes
(`OneConsolidationEach`, `OneOrderEach`). `FInv`: how far the request of an
approved order has come, and that later requests take nothing of it back
(`ApprovalsAreComplete`).

**Case sync** (`CaseSyncProofs`). `DInv`: a document about to be deleted has a
copy with a larger number; following the copies never leads back, so with any
number of clean-ups one stays (`NothingIsLost`). `NothingIsMissed` follows a
change from place to place. `StartKnows`: what a start is about to pass with its
dates is among its ids or newer than those dates. `NotMissed`, for each case: it
is beyond a date, among a start's ids, in a page; or every handler that has it is
going to read it, has read what DXTR holds, has written it or reports it, and if
none has it, it was reported or is written. A read that became old is written only
by a handler whose page came before the change, which then is to come in again.
That the document is one that is shown needs the rest: an id is only marked as
moved when the case has left it (`OrphansLeft`), because a handler that looks for
other ids of its case cannot yet find the one the case has just moved to
(`FreshUnseen`, `IdsVisited`), unless two handlers have the case at once, which is
noticed (`OverlapSeen`).

For a case that moves once at most, `WInv` says that what is sent to the clean-up
goes from its first division, its home, to the id of now (`PairsDirected`; a
finding that came too late is `astray`), that a clean-up lists and deletes its
orphan's documents only (`ListedIsOwn`), and that they are there unless another
handler has the case (`ListedIsThere`). `OInv`: whoever is about to write the new
id for the first time has found the home (`FoundFirst`), and from then on the
finding is in a handler's hands or in a message until the home is marked or it was
given up (`HomeNoticed`); a message is dropped only when the home is marked
already, two handlers overlapped, or its tries are used up. From it
`OrphansAreCleaned`. `EmptyInv`: a clean-up has emptied the parts it is through
with, lists whatever is left of the one at hand, and the reference points elsewhere;
no other clean-up brings anything to the home, since it is nobody's target, so two
clean-ups side by side, or one that is run again, do no harm
(`NothingIsLeftBehind`). These invariants were checked with TLC on `case_sync`
(1.9 million states) before they were proved.

**Downstream** (`AcmsProofs`, first part). `DInv`: no event is dated ahead of
the clock, and `CMMAP_ALL` is never behind `CMMAP_CAMS`; so what the merge or an
event puts into one is what the other has (`OwnedFollow`, `YoungestStays`).

**Migration** (`AcmsProofs`, second part), of `AloneSpec`, by five invariants that
build on each other. The first four were checked with TLC on the instance of
`migration` (4.1 million states) before they were proved, `EInv` on instances
with one worker (up to 466,000 states); for each there are lemmas for the
actions of the module.

* `KInv`: every invocation is at a step its message allows, with the locals of
  that step, and its message, still queued, is nobody else's. Messages other than
  pages of a healing are alone in the queues: the handlers of all but heal pages
  have no company, which is what `OneAtATime` buys (`MigrationTypes`).
* `HInv` (`HealingLosesNothing`): once a healing has begun every record is
  accounted for or in a message. Inductive with `PagesCovered`: what a handler of a
  page no longer has before it is done or in a message *younger* than its own
  (ids order them), so a page that is aborted and delivered again, or ends on the
  DLQ after it sent its rest, takes nothing away. `StatesCovered`: a migration
  page may write back a state in which a healing had begun, and a start that
  finds a healing completed may be refused (`HealDoneCovered`).
* `SInv` (`MigrationCompletes`): the state document, every copy of it that an
  invocation holds and every page message are `Sound`: what is at or before their
  cursor is settled, and everything is if they say completed. Copies matter,
  because a page writes back whole what it read at its beginning. Settled records
  only become more, except by a deletion, and until the state is reset after it
  no claim is made (`deleted`). Within a page, what is not yet to do is settled; a
  trustee is stored with the TOD ids it was *found* with, which are still those
  it has.
* `LInv` (`CompletedHealingIsDone`), as long as no call failed: a *ledger*, a
  function from each record to the id of the message with which it is going to be
  counted (0 once it was). The counter of the state document, what a page read of it
  and the copy a page is about to write back are each at least the number of
  records not yet counted; a page in progress has counted exactly what it is
  through with. So the counter never runs ahead, though a sibling's stale copy may
  set it *back*, which is why it need not arrive at 0 (`HealConverges`, violated in
  `healed`). A page cut short moves its rest to the ledger entry of the new
  message. After a failure the claim would be false: a page redelivered after its
  decrement is counted twice, and then the healing is reported as completed while
  siblings still run.
* `EInv` (`LoneHealingConverges`), for one invocation at a time and as long as no
  call failed: the counter is *exact*. It stands at the records of the pages that
  wait plus those the page in progress has still to take off; what that page
  read and is about to write back is what the state still says, for nobody wrote in
  between; and when nothing waits, the state says completed. So pages cut short
  and put back, of any number, do not keep a healing from its end; of what
  `healed` finds, only the write-back beside a sibling is left as the cause.

**Only model-checked.** `QueueDrains` and `RemapClears`, since liveness under
fairness is out of the prover's reach; the two violated properties, which are
refuted by counterexamples (`HealConverges` is a theorem for one invocation). Every invariant and action property of a passing run
is a theorem. Assumed and not shown: what the tables say of DXTR, the storage
queues and the host (section 2), and what the constants' assumptions above say.

## 5. Not modelled

Components without a module, with the reason, are in `PROJECT.json`: pure text
work (name normalisation, scores, SQL), single-document requests, offices and
staff, the user session, the user interface, gateways and mocks, deployment, and
the copy-then-delete of deleted cases. They are most of the repository's lines.

Left out of the parts that are modelled:

* appointment sync: the operator's `lastSyncDate`, `overrideRuntimeState`,
  `deleteAll` and `flushQueues`; a start date set by hand beyond the stored one
  skips transactions because it was asked to;
* case sync: a page put back because of rate limiting, the operator's reset and
  start date; `findOrphanedCasePairs` and `checkCaseForDivisionChange`, the repair
  that searches all cases; the member lists of consolidations when a case changes
  division;
* downstream: events of staff (the same merge under another `APPT_TYPE`; the API
  sends `acmsProfessionalId` null, so they always lack an id), deletion codes, and
  the backfill;
* trustee migration: the `importAll` filter, ATS records without a complete name,
  reports of ambiguous flags, the appointments of migrated trustees, addresses,
  `flushQueues`. An invocation's return is one step (`Return`): its output
  bindings are flushed and its message is deleted. A host that stops between the
  two delivers a page again whose successor is already queued, and two chains
  of pages run over one state; that is left out as is a second start
  (`OneAtATime`). The three attempts at a trustee are one step that succeeds or
  gives it up (`GiveUpTrustee`);
* assignment and orders: the checks of the user and the reads for the screen. In
  `Consolidations` finding an order by its key and replacing it
  (`UpdateOrDelete`), assigning the lead's attorneys to a member (`Assign`, of which
  `CaseAssignment` models every call) and reading and writing a member's history
  (`MemberHistory`) are one step each, though several calls are awaited in them.

## 6. Plan

1. A common abstract export, from unseen to held to settled, that both
   `AppointmentSyncQueue` and `CaseSync` refine.
2. Pure operators: page division by bytes and count, backoff, overlap of trustee
   appointments, each against a reference definition.
