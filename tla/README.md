# A TLA+ model of Q Saudi Work Follow

The application follows material haulage: trips of trucks between an origin and
a destination, inside projects. A Node server owns the trips in Firestore and
publishes them to a Google workbook per project. Field operators work in a
browser application that keeps working offline. This directory models the seven
parts where hard guarantees are made across failures and several actors: the
**trip command service**, the **offline outbox** that feeds it, the
**synchronization** of the workbook with its **coordinator**, the
**provisioning** of the workspace, the **offline authorization** by Google, the
**execution of a roster import**, and the **relationships of the fleet** (who takes
part in a project and who works with whom).

Paths below are relative to the repository's root (`src/services/...`).

## 1. The system

| Component | State it keeps | Operations | Hard behaviour | Model |
|---|---|---|---|---|
| Trip command service (`src/services/tripCommands.server.ts`, `trip.service.ts`, `operationalProfileResolver.ts`, `canonicalTripPersistence.server.ts`) | trips, `sync_operations` (the ledger), `trip_events`, trip counter, `workspace_sync_outbox` revisions | 18 commands: three creations, eleven transitions, two checkpoints, late driver, exception | retries, several accounts with one operation id, rules that change between two commands, imports in mid-life | `TripLifecycle`, `TripCommands` |
| Offline outbox (`src/services/offline/*`, the field screens) | IndexedDB outbox, cached trips, conflict records; per tab a memory copy and `isSyncing` | queue, pass, mark, conflict check, send, acknowledge, fail, retry, clear, resolve | lost and late messages, reloads, two tabs on one database, two people on one device | `OfflineOutbox` |
| Workspace synchronization (`projectGoogleWorkspace.server.ts`, `projectWorkspaceProjectionState.server.ts`, `workspaceGoogleTransport.server.ts`, `server/operationalReportSheets.ts`) | lease, dirty tabs, event revisions; the workbook | claim, renew, deliver, acknowledge, finish, release, refresh of the reports | a lease that expires while its owner delivers, a change during a delivery, a request that outlives its sender | `WorkspaceSync` |
| Synchronization coordinator (`server/workspaceSyncCoordinator.ts`) | lease and cursor of an administrator | a pass: page, examine, deliver, finish | starvation behind the cursor, a project that always fails, lost leases | `SyncCoordinator` |
| Workspace provisioning (`workspaceProvisioning.server.ts`, `workspaceManagedRoot.server.ts`, parts of `projectGoogleWorkspace.server.ts`) | announced and recorded resource ids, binding, status, three leases | ensure: lock, root folders, folder, spreadsheet, bind, script, recovery | a crash or lost answer between a creation at Google and saving its id; two projects of one account | `WorkspaceProvisioning` |
| Google offline authorization (`workspaceGoogleOfflineAuthorization.server.ts`) | consent transactions, grants, the project's pointer, version and connection | begin, callback, access, recheck, revoke | overtaken consents, a lost acknowledgement of the activation, an access that judges an old grant | `GoogleAuthorization` |
| Roster import execution (`services/import/rosterExecution.server.ts`, `rosterSession.server.ts`, ...) | session, staged plan, operation with a fence, receipts, audit log | start, advance, retry, cancel, checkpoints | several requests on one plan, crashes between groups, stale reviews | `RosterExecution` |
| Fleet relationships (`projectParticipationAuthority.server.ts`, `membershipConsequences.server.ts`, `temporalRelationshipAuthority.server.ts`, `driverTruckIntake.server.ts`, `import/reviewedRosterCommit.server.ts`, `projectProvisioning.server.ts`) | memberships, affiliations, assignments and allocations with their slots, dirty tabs | enroll, reactivate, suspend, remove; affiliate; assign, allocate, close; intakes; commit of a reviewed roster; global status | two collections that must agree without a constraint, consequences of a removal, a clock older than what it is compared with | `FleetRelationships` |
| Operational configuration (`projectCommands.server.ts`) | `operationalConfiguration` of the project | `configureOperations` | changes between the commands of a trip | in `TripCommands` |
| Accounts (`adminAccount.server.ts`) | `users` | suspend, roles, assignments, driver link | change between a command and its retry | `ChangeAccount` in `TripCommands` |
| Project lifecycle, pricing, legacy client engine, reports, security filters, screens | | | | not modelled (section 8) |

Components meet in these places. A device sends its queued operations over HTTP
to the command service and stores the trip that comes back. A command, in its own
transaction, raises the revision of the trip's `workspace_sync_outbox` event; a
pass of the synchronization delivers the event to the workbook, and the
coordinator decides which project gets a pass. The synchronization may only run
with a grant in force (authorization) and a bound workbook (provisioning).
Administration and the roster import change accounts, relationships and the
configuration, which a command reads in its transaction. A change of the fleet marks
the tabs of the workbook that show it, in its own transaction; the
synchronization delivers what is marked.

What makes each component correct:

* commands: an operation takes effect once; an acknowledgement stays true; fences
  hold on every road; numbers are unique; a trip never goes back;
* outbox: SYNCED means committed or dismissed; what is handed in is kept until it is
  settled; what is queued is committed in the end; the cache does not run ahead of
  the server, and a trip is only in conflict once it has ended there;
* synchronization: one writer at a time, although requests outlive passes; the
  workbook only moves forward, a delivered event is shown, one row per trip, and
  the workbook catches up when changes end;
* coordinator: a grant with work waits a bounded number of passes;
* provisioning: nothing is made twice at Google, a saved id exists, READY means
  whole, and an ensure that is tried again comes to an end;
* authorization: at most one grant in force, none comes back, what was overtaken
  never comes into force, the connection shown and the answers given are true;
* roster: each group of the reviewed plan is written once and in order; the
  journal, the receipts and the session never disagree;
* fleet: the slots and the history name the same relationships, only members with
  one carrier work together and nobody works for a carrier that left, history is
  only ever closed, and what the roster shows of a truck is marked when it changes.

## 2. Modules

* **`TripLifecycle`** has only operators: statuses, `ALLOWED_TRIP_TRANSITIONS`
  (`StandardNext`), the edges and fences of a configured project
  (`ProfileAllows`), the effect of a transition on a trip (`Advanced`), the
  commands with their roles and targets.
* **`TripCommands`** is the service. A command is one Firestore transaction and
  therefore one action. `Authorized` is what is read of the account, `IsFresh`,
  `IsLedgerReplay` and `IsLegacyReplay` are the idempotency decisions, and
  `Commit` is what every accepted command writes: trip, events, projection
  revision and ledger entry. A refused command writes nothing. The environment
  actions change what commands read.
* **`OfflineOutbox`** extends `TripCommands` with a device. Everything between two
  awaits of `syncAll` is one action: `StartPass` (the snapshot), `MarkSending`,
  then `FlagConflict`, `SendCommand` or `Unauthenticated`, and `Acknowledge`,
  `Refused` or `ConnectionLost`; each change of a record is a read in that step and
  a `PutRecord` later. `HandleRequest` executes the real command of
  `TripCommands`. A request whose sender gave up stays in `orphans` and may still
  arrive.
* **`WorkspaceSync`** is one project's synchronization. A pass is one call of
  `retrySync` or `refreshOperationalReports` in some server process; each await is a
  step. A write request is a `flight`: it takes effect (`Land`) or not (`Reject`)
  at any time of its life, also after its pass has died. Time is counted in
  ticks: what is left of the lease, what is left of a request's life.
* **`SyncCoordinator`** is the pass over one administrator's grants; the delivery
  of a project, which `WorkspaceSync` details, is one step of it.
* **`WorkspaceProvisioning`** is `ensure` for several projects of one account and
  several executions. `Decision` is the rule that every creation follows, from
  what is announced, what is recorded and what a listing shows.
* **`GoogleAuthorization`** has one state machine per consent (the browser's
  callback), per access and per revocation, over one project's documents.
* **`RosterExecution`** is the session, the plan and the requests that execute it.
* **`FleetRelationships`** is the memberships, affiliations, assignments and
  allocations of one project. A command is one transaction and one action. `Readable`
  is the reader that refuses when slot and history disagree, `Write` is
  `writeTemporalClosures` followed by `writeTemporalPlan`, and `Establish` is what
  the plans of one transaction check and write together. `at` is the clock reading a
  command took before its last read, so it may be older than what it finds.
* **Abstract specifications**: `OperationLog` (an operation of a caller takes
  effect once, on one subject, every effect is counted, subjects move forward),
  `ProjectionMirror` (the workbook shows committed revisions, only moves forward,
  and what is settled is shown), `Postbox` (what is handed in is kept until it is
  delivered or given up, and nothing else is delivered), `GrantRegister` (one grant
  in force, once) and `ImportPlan` (one adopted plan, written group after group).
  `TripCommands`, `WorkspaceSync`, `OfflineOutbox`, `GoogleAuthorization` and
  `RosterExecution` implement them (`ImplementsLog`, `MirrorSpec`, `PostboxSpec`,
  `RegisterSpec`, `PlanSpec`): the INSTANCE with its refinement mapping stands at
  the end of each module. For `Postbox`, an operation is posted once it was queued,
  kept while its record is in the outbox, delivered once any account's ledger has
  it, and dropped once a resolution dismissed it.
* **`*_proofs`** hold the theorems, **`MC_*`** the instances.

Definitions marked `Fault:` are never used by the specification: each is a
plausible bug that stands just before the definition it would replace, and the
property it belongs to fails with it.

Correspondence of state:

| Variable | Code |
|---|---|
| `trip` | `projects/{p}/trips`; weights as measured or not, `points` the required checkpoints in `operationalTimeline`, `profile` the `operationalSnapshot`, `finalized` is `financials.isFinalized` |
| `ledger` | `projects/{p}/sync_operations/TRIP-CMD-<sha256(user:operation)>`; the fingerprint is the command, trip and payload it digests |
| `revision` | `workspace_sync_outbox` (`enqueueTripGoogleProjection`) |
| `nextNumber` | `systemCounters/tripNumber_{p}` |
| `events` | `trip_events`, by document id: `at` and `kind` for ids made of a clock reading, `of` and `kind` for ids that name the trip |
| `eligible` | what `validateCanonicalTripEntities` finds of carrier, truck, driver, material and rule |
| `outbox`, `conflict` (OfflineOutbox) | the IndexedDB stores of these names |
| `writing`, `clearing` | records a tab or the user has read and is about to put back, and those `clearSynced` is about to delete |
| `view` | the trips store on disk and the memory copy of each tab |
| `pass`, `wire`, `orphans` (OfflineOutbox) | the local variables of a running `syncAll`, requests in flight, and those nobody waits for |
| `data` (WorkspaceSync) | the canonical documents, as a revision per trip and per master tab |
| `outbox`, `dirtyTabs`, `mutationRevision` | `workspace_sync_outbox` and `workspace_projection_state` of the project |
| `lease` (WorkspaceSync) | `syncOwner`, `syncLeaseExpiresAt` of `workspace_continuity` |
| `cell`, `shown` | the trip tab by row, and the master tabs, of the workbook |
| `pc`, `todo`, `event`, `read`, `row`, `fresh`, `due`, `rest` | the local variables of `retrySync`, `projectGoogleSheetEvent` and `projectMasterTabs` |
| `grant`, `lease`, `cursor` (SyncCoordinator) | `workspace_google_authorizations`, `workspace_sync_coordinators` |
| `skipped` | history: passes that ended without trying a grant that has work |
| `intent`, `recorded`, `bound`, `status`, `lease` (WorkspaceProvisioning) | the announced and saved ids, binding and status in `workspace_continuity` and the account's root documents; the ensure, provision and sync leases |
| `made`, `sent` | the files at Google, and the requests for one still on their way |
| `consent`, `grant`, `pointer`, `version`, `connection` | `workspace_google_oauth_transactions`, `workspace_google_authorizations`, and the authorization's fields of `workspace_continuity` |
| `callback`, `access`, `revocation` | the requests the server is handling; `overtaken` is history |
| `session`, `operation`, `receipts`, `audit` | the roster session, `importExecutions`, its receipts, and the log that a written group leaves |
| `membership`, `affiliation` (FleetRelationships) | the four membership collections of the project, `driver_carrier_affiliations` and `truck_carrier_affiliations` |
| `record` | `driver_truck_assignments` and `truck_material_allocations`, by document id |
| `slot` | `driver_active_assignments`, `truck_active_assignments`, `truck_active_material_allocations` |
| `marked` | the tabs the last transaction marked in `workspace_projection_state` |
| `eligible` (FleetRelationships) | the identities whose global status is ACTIVE |
| `request` (RosterExecution) | what a request in progress read and decided |

## 3. Runs

| Run | Question | Bounds |
|---|---|---|
| `TripCommands_lifecycle` | Does the ledger stay true, are the fences of COMPLETED complete, do the snapshots of all trips share a profile, does no trip go back? | one trip, one supervisor, two drivers, each command under its own operation id, clock 0..1; no configuration, scales on both sides, no scales |
| `TripCommands_idempotency` | One trip per operation id, unique numbers, retries acknowledged, refinement of `OperationLog` | two users that change between supervisor and driver, two operation ids, two trips, two payloads, a trip from before the ledger |
| `OfflineOutbox_delivery` | Is every queued operation committed in the end, and none held back as a conflict while its trip goes on? | a chain of three whose first screen caches the trip as completed, five attempts as in the code, one lost message, one manual retry |
| `OfflineOutbox_tabs` | SYNCED means committed; refinement of `Postbox` | two tabs (symmetric), one loading, two resolutions that may edit it, one lost message, one reload, one clearing, one automatic attempt |
| `OfflineOutbox_device` | Executed for one account at most; cached trips are not ahead of the server | two people, three trip ids (so that a loading could be executed twice; the unused two are symmetric), a loading and an arrival, the same arrival at the office, one loss, one resolution, two changes of user, two automatic attempts |
| `OfflineOutbox_reload` (violated) | `docs/OFFLINE_MODEL.md:96`, saved locally and uploaded later: a reload while SENDING leaves the operation for good | one operation, one reload, no other fault |
| `WorkspaceSync_delivery` | One writer; rows; what is DELIVERED or clean is shown; refinement of `ProjectionMirror`; the workbook catches up | two trips, one master tab, two passes (one may be a report refresh), two changes, one fault; times 2/1/1 |
| `SyncCoordinator` | Is every grant reached within a bounded number of passes, and served in the end? | three grants, one of a project that always fails and one not yet active, two passes, pages of two, one delivery per pass, one fault; deadlock is checked |
| `WorkspaceProvisioning` | Nothing is made twice; saved ids exist; READY is whole; repeated ensures come to an end | two projects of one account, two executions, both root folders, two faults |
| `GoogleAuthorization` | One grant in force, true answers, refinement of `GrantRegister` | three consents of two administrators (symmetric), one access, one revocation, two faults |
| `RosterExecution` | Journal, receipts and session agree, failures shown are true, refinement of `ImportPlan` | three groups, two per request, two requests (symmetric), two edits of the session, five calls, two faults |
| `FleetRelationships` | Do slots and history agree, do only participants work, is history kept, is the roster marked? | two drivers, two trucks, two carriers, a material of the project and one it lacks at first, six documents, three commands, clock 0..1, a consequence limit of 1; the global status of one carrier and of one truck may change |

The largest of them have between 230 000 and 880 000 distinct states. Most type
invariants, `IdentityFixed` and `RevisionCountsCommands` hold by theorem
(section 4); the runs spend their time on what is harder.

**Why the bounds are enough.** The interesting coincidences need two of
something: two accounts with one operation id, two tabs on one database, two
payloads under one operation id, two passes on one lease, two projects that need
one root folder, two requests on one plan. Consents are three, so that one can
overtake another that overtook a first. The chain of three is the longest one a
screen queues. Five attempts is the number in the code, and the last operation of
a chain spends two of them being refused; elsewhere the number only decides how
often a failed operation is sent again. With one attempt (`OfflineOutbox_tabs`) a
failed operation is still sent again by a pass of the other tab that had it in
its snapshot and after a resolution; with two (`OfflineOutbox_device`) by the next
pass. Three groups with two per request make one attempt end between groups and
a second finish. Pages of two behind a cursor over three grants make every
page boundary, and one delivery per pass makes the limit bite before the page
ends. In `WorkspaceSync` the times keep the order of the code's (a request lives
no longer than what a renewal leaves, and less than the lease), which
`TimesAssumption` states; one tick each is the smallest. The budgets for faults
are the smallest numbers that let the fault happen between any two other
steps, and two where the recovery from one fault may meet another.
In `FleetRelationships` three commands are an intake that makes two relationships,
one that displaces or moves them, and one that ends a membership or closes what is
left; six documents are a full roster and a change of both drivers, and a consequence limit
of one (50 in the code) makes the refusal of a removal happen.
The clock of the trip commands and of the fleet needs only to tell "same
millisecond" from "later".
In `SyncCoordinator`, `skipped` needs no bound: `BoundedWait` keeps it finite.

**Deadlock.** Only `SyncCoordinator` never stops. Elsewhere the budgets of
changes and calls run out, and a system with nothing left to do stops.

**Fairness.**
* `OfflineOutbox`: weak fairness of starting a pass, of the steps of a pass and of
  the server's answer, per tab. A pass is started by the browser's `online` event
  and by the button of the drawer (`networkStatus.service.ts`); within a pass every
  await either returns or fails, and a lost connection is the failure.
* `WorkspaceSync`: weak fairness of a pass's steps, of the requests on their
  way, of time, and of some pass being started while something is owed. Each step
  is an await that returns or throws (requests time out after 15 s).
* `SyncCoordinator`: weak fairness of a pass's steps, of a request for a pass
  while none runs, and of the expiry of a dead pass's lease.
* `WorkspaceProvisioning`: the steps of an execution and Google's decision on a
  request go on (weak), leases without an owner expire (weak), and `ensure` is
  called again for a project that is not ready (strong: the lease of another
  execution disables it in between, but not forever).

That passes and `ensure` are requested again is an assumption about the callers,
not about this code: the administrator's button and the HTTP entry point start
them, the automatic trigger in the browser was retired
(`MASTER_PROJECT_HANDOFF.md:8`), and the scheduled entry is dormant. Nothing is
assumed of users, of reloads, of late requests, of heartbeats or of retries of an
import: two clients that retry a roster in turn may supersede each other's fence
forever, so nothing is claimed to finish there.

## 4. What is proved

Eight modules hold theorems, for every value of the constants that satisfies the
named assumption of the module.

`TripCommands_proofs` (identifiers differ from `None`, finitely many trip ids,
requests have the shape the validation lets through, trips from before the
ledger have no snapshot and have a driver):

| Theorem | States |
|---|---|
| `TypeCorrect` | `[]TypeOK` |
| `AtMostOneTrip` | `[]OneTripPerOperation` |
| `TripNumbersUnique` | `[]NumbersUnique` |
| `SnapshotsAgree` | `[]SnapshotsShareProfile` |
| `TripIdentityFixed` | `IdentityFixed` |
| `TripsMoveForward` | `TripsOnlyMoveForward` |
| `CompletedTripsFenced` | `[]CompletedIsFenced` |
| `RevisionsCountCommands` | `[]RevisionCountsCommands` |
| `AcknowledgementsStayTrue` | `[]LedgerExplained` |
| `RetriesAcknowledged` | `[]RetryIsAcknowledged` |
| `ServiceImplementsLog` | `ImplementsLog`: initial states map to initial states, each step to a step or a stutter |

The argument has one hinge. `CommandShape` says that every command, whichever
of the seven actions it is, is one `Commit` of one trip record that either makes a
new trip (`Creates`: unused id, the caller's operation id, a free number, the
project's configuration) or changes one (`Updates`: same identity, a driver only
where there was none, never back, a finished trip untouched but for the
exceptions flag), that the record is what the ledger will say of the command
(`Fulfils`), and that it is `Fenced` if the trip was. It is proved action by action,
with `AdvancedIsTrip`, `AdvancedIsFenced` and `EdgesGoForward` for the transition
tables. `StepShape` adds the environment. All theorems but the first then need only
the few facts of these that concern them. `TypeOK` is the inductive invariant they
rest on. `NumbersUnique` is inductive because its second part keeps the counter
above every number, and `MaximumExists` gives the number a missing counter
starts from. `SnapshotsShareProfile` needs that a configuration, once given, is
only replaced by one of the same profile while trips exist. `LedgerExplained` is
strengthened to `LedgerHolds`: a late driver named by an entry is somebody, which is
why nobody replaces him afterwards. `RevisionCountsCommands` is strengthened to
`RevisionsCounted`: each trip has finitely many entries, and a fresh operation adds
exactly one. `RetryIsAcknowledged` follows from `TypeOK` and `LedgerHolds` in
every state.

`OfflineOutbox_proofs` extends these theorems to the device and the service together.
`OutboxAssumption` says what the devices are given: no operation is queued twice, each
stands for a command that `queuedTripCommand` can make (no checkpoint, no dispatch, no
late driver), a resolution may change its payload and nothing else, and the ids the
device makes up are its own: neither the office's commands nor trips from before the
ledger carry them, and no local id is a trip's id at the server.

| Theorem | States |
|---|---|
| `DeviceIsClient` | `OutboxSpec => Spec`: to the service a device is a client like others, so all of `TripCommands_proofs` holds of the composition |
| `OutboxTypeCorrect` | `[]OutboxTypeOK` |
| `DoneIsCommitted` | `[]DoneMeansCommitted` |
| `OutboxAppliesOnce` | `[]AppliedOnce` |
| `CacheStaysBehind` | `[]CacheNotAhead` |
| `ConflictsAreReal` | `[]OnlyEndedTripsConflict`: an operation on a trip is held back for a person only when the trip has ended at the server (`outbox.service.ts:153`, an optimistic record is no witness) |
| `OutboxIsPostbox` | `PostboxSpec`: initial states map to initial states, each step to a step or a stutter |
| `NothingIsLost` | `[]Box!NothingLost`: what was queued is what is in the outbox or settled |

The argument looks at each side through a few facts. Of the service the device needs
`ServiceMoves` (a step is an execution of a command, of the device's own with the
command and trip it queued, or nothing) and what follows from it, `ServiceGrows`: a
commitment stays, a trip stays and does not go back. `AppliedOnce` is decided
there: a second account has no ledger entry, but a transition finds the trip
at its target already, and the tables lead up only (`EdgesGoUp`); a loading
finds its operation id on the trip it made (`SecondIsRefused`). A checkpoint
could be recorded twice, which is why it matters that no screen queues one.
Of the device, `RecordMoves` says what the steps do to a record,
and `OutboxInv` is the invariant. `DoneMeansCommitted` alone is not inductive: a
record may say SYNCED in the hands of a tab that is about to put it back, a
deletion may be under way for what was read as SYNCED before, and an answer
that will make it SYNCED may be on the wire. `DoneKnown` extends it to the
records being written and cleared, and `AnswersKnown` to the answers and the trips
they carry, without which `CacheNotAhead` (`ViewTrue`) would not survive an
acknowledgement. `OnlyEndedTripsConflict` is inductive beside it: a copy that is
not marked as the device's own says COMPLETED or RETURNED only of a trip in its last
rank, which a trip does not leave (`EndsAreLast`), so what the conflict check
believed stays true for as long as the conflict lasts. `RecordsPosted`, `QueuesPosted`, `ConflictsPosted` and `Delivered \subseteq
Posted` say that whatever is about an operation (its record, a place in a pass, a
conflict, an entry of the ledger) is about one that was queued, which the refinement
needs.

`WorkspaceSync_proofs` (`CapacityAssumption`, `NamesAssumption`, `TimesAssumption`):

| Theorem | States |
|---|---|
| `TypeCorrect` | `[]TypeOK` |
| `OneWriterAlways` | `[]OneWriter` |
| `OneRowAlways` | `[]OneRowPerTrip` |
| `DeliveredAlwaysShown` | `[]DeliveredIsShown` |
| `DirtyTabAlwaysQueued` | `[]DirtyTabIsQueued` |
| `RowsAlwaysKept` | `RowsKept` |
| `SynchronizationMirrors` | `MirrorSpec` |

The invariant says four things of a pass. `Shape`: which of its local variables mean
something at each step. `Knows`: what it read is never ahead of the documents, and
while `mutationRevision` is the one it read, the master data it read are current and
the dirty tabs are those it delivers. `WhileOwner`: while the lease is its own, what it
read of the workbook and what it wrote is what the workbook shows. `FlightFits`: a
request on its way belongs to the holder of the lease, ends before the lease does,
and moves the workbook forward. A step of one pass is a `Bystander` step for
every other one, which loses at most the lease; that a lease is never taken while a
request flies is what `RequestLife <= RenewBelow` of `TimesAssumption` is for.

`SyncCoordinator_proofs` (`CoordinatorAssumption`: finitely many numbered grants):

| Theorem | States |
|---|---|
| `TypeCorrect` | `[]TypeOK` |
| `WaitIsBounded` | `[]BoundedWait` |

The argument is a distance: how many grants the cursor has to pass before it comes to
the watched one. `Near` bounds the passes that skipped it and the distance of
the stored cursor together, by one round for each thing that went wrong.
`ComesNearer` carries this through a pass of the lease's owner: with the first
grant it looks at it has come nearer (`MovingOn`), starting again from the
beginning does not set it back (`StartingAgain`), and a pass that is cut short has its
fault to pay with (`LostIsPaid`). `SeesWatched` says that the watched grant, when it
has work, is still on the page or behind it.

`GoogleAuthorization_proofs` (`None` is no consent and no administrator):

| Theorem | States |
|---|---|
| `TypeCorrect` | `[]TypeOK` |
| `AtMostOneActiveGrant` | `[]OneActiveGrant` |
| `ConnectionIsTruthful` | `[]ConnectionTellsGrant` |
| `OvertakenNeverActive` | `[]OvertakenConsentsFenced` |
| `PointerNeverDangles` | `[]PointerNamesGrant` |
| `AnswersAreTrue` | `[]AnswerIsTrue` |
| `AuthorizationImplementsRegister` | `RegisterSpec` |

The invariant says in which status a grant may be for each step of its callback,
that the pointer names the only grant that was ever in force and is, and that a
consent that was overtaken carries an older version than the project's or another
pointer, which is what the transactions compare.

`WorkspaceProvisioning_proofs`:

| Theorem | States |
|---|---|
| `ProvisioningTypes` | `[]TypeOK` |
| `NothingMadeTwice` | `[]MadeOnce` |
| `SavedIdsExist` | `[]RecordedExists` |
| `ReadyWorkspaceIsWhole` | `[]ReadyIsWhole` |

`MadeOnce` is far from inductive. Around it the proof needs that what was made or
sent was announced (`NothingUnannounced`), that a live announcement belongs to
the one execution that holds the lease (`AnnouncedByOne`) and has not been sent
before its send step (`NotYetSent`), what an execution announces
(`AnnouncesTheNew`) and records (`RecordsTheMade`), and that roles are dealt
with in order (`RolesInOrder`), which is why a bound project has its folder and
spreadsheet.

`RosterExecution_proofs` (at least one group, at least one per request):

| Theorem | States |
|---|---|
| `TypeCorrect` | `[]TypeOK` |
| `JournalNeverDisagrees` | `[]JournalAgrees` |
| `ShownFailuresAreTrue` | `[]FailureIsTrue` |
| `OnlyReviewedIsExecuted` | `[]PlanIsReviewed` |
| `ExecutionImplementsPlan` | `PlanSpec` |

Here the invariant relates the requests in progress to the documents: what a
request read of the review is what the session says while its version stands
(`ReviewRead`), and no request holds a fence or a version from the future
(`Fresh`). Each action is reduced to what it does to the documents
(the `Effect` lemmas) before the invariant is proved of it.

`FleetRelationships_proofs` (`EntityAssumption`: the kinds of identities are
disjoint; `NoneAssumption`: `None` is no record, affiliation or status):

| Theorem | States |
|---|---|
| `TypeCorrect` | `[]TypeOK` |
| `SlotsAlwaysAgree` | `[]SlotsAgree` |
| `OnlyParticipants` | `[]ParticipantsOnly` |
| `HistoryAlwaysKept` | `HistoryKept` |
| `RosterAlwaysMarked` | `RosterMarked` |

Every command is a membership or affiliation change together with one `Write`,
so the proof is about `Write` first: what a write may be given (`Writable`) and what
it leaves (`Written`), from which the slots agree afterwards (`SlotsAfter`) and
only open relationships were closed (`HistoryAfter`). `TransactionKeeps` adds who
takes part: whatever loses a membership or an affiliation must have lost its
relationships in the same write. The three parts of the invariant are needed
together: that a removal closes every relationship of an identity is known only
because the slots it follows agree with the history, and that nobody works for a
carrier that left follows from the affiliations, which the relationships rest on.
`RosterMarked` needs `SlotsAgree` to know which truck a write shows.

## 5. What is only model-checked

Liveness: `EventuallyCommitted`, `Converges`, `EveryGrantServed` and `Recovers`, which
is out of the prover's reach. Every other property of a passing run is a theorem.
`OfflineOutbox` has an ENABLED, in `Accepts`, which decides whether the service
refuses a request; no proof looks inside, so the theorems hold whenever the
service may refuse, but that a request it would accept is not refused
is seen in the runs only. No module declares a RECURSIVE operator.

## 6. Abstractions to know, and what the models showed

Trip commands and outbox:

* Payloads keep what the rules tell apart: the identities, the driver, which
  weights are there, which checkpoints, the row's status. A weight is measured or
  not. Two members of `Ids` differ in carrier, truck or material, so comparing
  them is what the replay of a trip from before the ledger compares.
* The steps of a compound `RECORD_LOADING` happen at one clock reading; their
  event ids differ by the status.
* `configureOperations` may refuse for reasons of the workspace (a binding under
  maintenance, a stale assessment). The model allows every change that some
  workspace state allows, so its properties hold in particular for those.
* Trip documents carry no version, so the version conflict of `detectConflict`
  never arises; what remains are finished trips and, for a creation, cached price
  lists and affiliations, which the model leaves open (`MayConflict`).
* Of the resolution strategies, those that drop the local command are one, and
  those that send it again are two: with the same payload, or with another.
* The conflict check comes before the request although the comment at
  `outbox.service.ts:103` places the idempotency check before the commit: an operation
  that was committed and whose answer was lost may be flagged as a conflict
  (`FlagConflict`), and a resolution that sends it again is then acknowledged by
  the ledger.
* `updateOutboxStatus` reads a record and puts it back in another transaction
  (`writing`, `PutRecord`), and `clearSynced` deletes one by one what it read as
  SYNCED (`clearing`, `DeleteRecord`): a record may be overwritten by what another tab
  had read, or come back after it was deleted, and is then acknowledged from the
  ledger. `refreshInboundTrips` is one step, although it fetches before it puts.

The workspace:

* `WorkspaceSync`: a pass that sees an error takes it that its request has no later
  effect; only a request whose process died outlives its pass, for at most
  `RequestLife`. Clock skew between servers, events of trips from before the
  profiles, the report cooldown, health texts and a lease whose expiry is not a
  number are left out. The reconciliation of a tab, two requests in the code,
  is one.
* `SyncCoordinator`: the 25 second budget is a fault that ends the loop early; the
  delivery is one step that succeeds or fails.
* `WorkspaceProvisioning`: leases have no clock, an expiry is an event (of a
  running execution: a fault). `PREPARING` also stands for the two statuses that ask
  for attention without closing the operation. A listing that does not show a
  resource yet costs a fault. The destination receipt and the checks of subject and
  configuration, which only refuse, are left out. Recovery of the script is one
  step.
* `GoogleAuthorization`: refusals of an administrator's rights are among the
  faults; grants from before the binding, and their adoption, are left out; the
  revocation at Google's side is best effort in the code and absent here. A
  candidate whose callback dies stays `PENDING_VALIDATION`.
* `RosterExecution`: whether a group passes the canonical validation is a
  choice; what it writes is one entry of the log. A transaction whose
  acknowledgement is lost runs again, as the SDK's do.

The fleet:

* The clock of a command is read before the slots, in its own transaction but not
  at its commit: two relationships of a truck may overlap in time by what passed
  between. `HistoryKept` says what does hold, that no relationship ends before
  it began.
* Authorization, the project's status, pricing rules that would keep a material,
  and the fingerprints of the assessment only refuse; they are left out, so the
  properties hold with and without them. Ids are random, and which unused one a
  relationship gets is immaterial. Making a new global identity is seen as an identity
  that has no membership yet. Commands that find what they ask for change nothing
  and are left out.

Differences from what the documents say, seen while modelling. One is a finding
(`OfflineOutbox_reload`, checked by a run that fails on purpose); the others are
recorded here:

* The newest operation of the outbox is sent first (`indexedDB.service.ts:297`), so
  the operations of a chain are refused before they succeed;
  `docs/OFFLINE_MODEL.md:111` says they are ordered by the life of the trip.
* After a lost answer and a change of user an exception is executed for both
  accounts; `docs/ARCHITECTURE.md:166` says processed exactly once.
* Two events of one millisecond share an id, and the second replaces the first;
  `docs/ARCHITECTURE.md:237` calls the stream append-only.
* A row imported in transit completes without the loading weight its profile
  measures (`OPERATIONAL_PROFILES_WORKSPACE_ENGINE_CONTRACT.md:52`), and an open
  exception does not stop the completion of a trip (`docs/ARCHITECTURE.md:247`).
* `ACCEPT_SERVER_STATE` deletes the cached trip it has just stored
  (`conflictResolution.service.ts:507`).
* A report refresh sends without a fence and without a heartbeat
  (`SendReport`), while `GWS2_BACKGROUND_AUTHORIZATION_CONTRACT.md:79` has every
  provider request fenced. It writes other tabs than the deliveries.
* A delivery that takes more than 120 s lets a second pass of the coordinator
  begin (`05_DECISION_AND_DEBT_LOG.md:173` excludes overlap); the project's own lease
  keeps the two from delivering the same project. A pass that lost its lease
  may also mark a project degraded that another pass has delivered
  (`workspaceSyncCoordinator.ts:82`), and the cursor of one that ended early passes a
  grant it has not tried for one round, which `BoundedWait` counts.
* A rejected creation (HTTP 429, say) of a project's folder or spreadsheet leaves it
  announced, and nothing ever shows it: the project needs recovery for good
  (`Lost`). Only a root folder's announcement is withdrawn
  (`workspaceManagedRoot.server.ts:28`). A failure between the announcement of the script and
  its request consumes the creation too, which `GWS_ONE_PROVISIONING_ENGINE.md`
  rules out for failures before the request.
* A roster attempt that fails on a group which another attempt has written
  already reports `PARTIAL` without naming a failure; a commit that races one
  that succeeds may get an error although the import is committed.
* A change of an affiliation marks no tab
  (`projectParticipationAuthority.server.ts:146`), although the driver and the fleet
  tabs show the carrier of the ACTIVE affiliation;
  `docs/reconstruction/PROJECT_GOOGLE_SHEET_SYNC_CONTRACT.md:222` has affiliation
  commands reuse `markDirtyInTransaction`. `RosterMarked` excepts exactly these
  commands. For the same reason an intake of a driver who is a member already and
  only gains an affiliation marks nothing of the driver tab.

## 7. Plan

1. Local ids of trips that are only queued; the fetch and the put of
   `refreshInboundTrips` split, with the proof of `CacheNotAhead` extended to it.
2. `AdminAccounts` (the last administrator) and the project's life cycle.

## 8. Not modelled, and why

The project's life cycle is decided in single transactions on the documents they
read; the models see its outcome. Pricing
amounts are decimal arithmetic that unit tests reach. The legacy client engines
(`tripEngine`, `tripStateMachine`, `commitEngine`, `conflictEngine`,
`exceptionEngine`, `weightEngine`) simulate in one browser's memory what the
server decides. Reports, dashboards and data quality only read. The security
middleware keeps no state of the domain. Screens, localization and scripts are
presentation, except for the writes of the field screens, which are `Enqueue`,
`StartUnloading` and `RefreshTrips`.
