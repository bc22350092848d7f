# Supaglue in TLA+

Supaglue copies the records of its customers' CRM and engagement tools into a
database its users own, keeps them fresh with scheduled syncs, and writes back to
the tools through one unified API. This directory specifies the parts of it that
hold state and run concurrently, model-checks them with TLC and proves their
safety with TLAPS. Paths are relative to the root of the repository; `src/` stands
in front of the ones quoted in `PROJECT.json`.

Run a check with `tlc -config <cfg> <module>` and a proof with `tlapm <module>.tla`;
`PROJECT.json` lists every run with its module, configuration and properties, and
maps each definition to the lines of code it models.

## 1. The system

Four processes share one Postgres database and one Temporal cluster:

- **API server** (`apps/api`): handles requests of the users and of their
  customers. Many requests run at once; a request is a sequence of statements and
  at most a few transactions.
- **Sync worker** (`apps/sync-worker`, `packages/sync-workflows`): executes Temporal
  workflows and activities. A worker can die at any await; Temporal retries.
- **Temporal**: keeps one schedule per sync (`run-object-sync-<id>`), and one that
  starts `processSyncChanges` every 10 seconds.
- **Management UI** (`apps/mgmt-ui`): a front end over the API.

Third-party providers (Salesforce, HubSpot, ...) and the destination database are
outside of them.

### Components

| Component | State | Operations | Interacts through |
| --- | --- | --- | --- |
| Sync orchestration: `sync_service.ts`, `do_process_sync_changes.ts` | Temporal schedules; locals of an attempt | three parts: connection-level changes, sync-config changes, sync changes | the three change tables (an outbox), `syncs`, Temporal |
| Connections and syncs API: `connection_and_sync_service.ts` | `connections`, `syncs`, `sync_changes` | create, delete, pause, resume, trigger | writes the outbox in its transactions |
| Sync configs: `sync_config_service.ts` | `sync_configs`, `sync_config_changes` | create, update, delete, upsert | foreign keys to `syncs`, the outbox |
| Connection settings: `connection_service.ts` | JSON columns of `connections` | connection sync config, entity and field mappings, credentials | the outbox for the first one |
| Customers, entities, schemas, providers | their tables | delete cascades by foreign key; `addObject` rewrites a sync config; objects and entity mappings of a provider | foreign keys, names inside JSON columns |
| System settings | `processSyncChangesFull` | set by a route, read and reset by the activity | one flag |
| Object sync workflow: `run_object_sync.ts` and its small activities | row of the sync, `sync_runs` | strategy, phases, mark, clearing of arguments, self-pause | the row of the sync, Temporal |
| Data plane: `sync_object_records.ts`, `sync_entity_records.ts` | none that lasts | stream a listing into a destination writer | provider, destination |
| Destinations: `destination_service.ts` | `destinations`, a cache of writers in each worker | update under a version, writer of a row | the cache |
| Destination writers: `postgres_impl.ts`, `supaglue.ts` | temporary and main tables of the destination | import, copy in batches, mark missing rows, upsert one record | the same rows as the unified API |
| Unified API writes: `common_object_service.ts`, `object_record_service.ts` | none | write to the provider, read back, upsert into the destination | destination |
| Lists of the API: `pagination.ts`, `managed_data_service.ts`, `sync_service.ts`, `sync_run_service.ts` | none; a cursor is all they know of the reader | pages forward and back | rows of the destination, `syncs`, `sync_runs` |
| Remotes: `packages/core/remotes` | access tokens in memory | list, get, create, update at the provider | provider |
| OAuth token refresh: `remote_service.ts`, `connection_service.ts`, the clients | credentials of a connection, copies of them in clients | refresh, event, write-back of tokens, OAuth callback | `connections`, provider |
| Webhooks, magic links, applications and API keys, metadata and associations | rows of their own, or none | single statements, best-effort calls | none |
| Mappers, schemas, types; routes; UI; OpenAPI and docs | none | data conversion, dispatch, declarations | none |

### What is hard here

- **Two sources of truth.** A sync is a row in Postgres and a schedule in Temporal,
  with no transaction across the two. Everything rests on change rows that are
  written with the row and deleted only when Temporal has been brought up to it.
- **Stale copies.** The activity works on copies read before its loops; requests read
  rows before their transactions; a run decides from the row it read at its start
  and clears at its end what the row holds by then.
- **Cascades.** Foreign keys delete syncs without a change row.
- **Retries and crashes.** Every statement of the activity can be the last one of an
  attempt. An attempt that outlives its timeout runs on beside its retry.
- **A mark that moves.** An incremental run lists what changed after the newest change
  seen so far. A mark that moves too early, or too far, loses a record with no trace.
- **Two writers of the destination.** A run copies a listing that may be minutes old
  while the unified API writes the same rows.
- **Nine ways to list.** Providers differ in who filters, in the order of the pages, in
  what a page starts from and in how a deleted record shows; records change meanwhile.
- **Copies of credentials.** Every client keeps the tokens it was built with, refreshes
  them on its own, and tells the row through an event that nobody waits for.
- **Columns of JSON.** Settings are read, changed and written back as a whole, and are
  checked against tables that change later.

`PROJECT.json` lists the hazards one by one, each at the line where it bites, with the
properties that cover it.

### What makes each part correct

- *Orchestration*: every live sync that differs from its schedule has work recorded
  for it; an acknowledged change has been applied; no schedule is left without a
  change row that names it; one sync per connection and object; the syncs of a
  connection are those its config calls for; all of it converges.
- *Object sync*: nothing at or below the mark is missing; the mark falls only on a
  full run; a full run comes after N incremental ones; a forced refresh is not lost;
  the destination ends up equal to the provider.
- *Listing*: whichever way a provider is listed, only what changes under an open run, or
  in the mark's own time unit, can be missed, and a full run repairs that.
- *Tokens*: a usable refresh token never gets lost while nothing fails; a call that checks
  its access token goes out with a live one.
- *Settings*: what was accepted works; the settings page shows what the syncs use; no
  lost update but by a stale copy; a cached writer is the writer of its row.
- *Lists*: a walk forward shows everything; the page before ends where this one begins;
  among syncs both only as far as the order tells them apart.

## 2. Modules

| Module | What it is |
| --- | --- |
| `ProcessSyncChanges` | the control plane: API transactions, the outbox, the activity and Temporal's schedules |
| `ProcessInvariant` | the inductive invariant of its safety |
| `ProcessMatch` | the inductive invariant of `SyncsMatchConfig` |
| `ProcessQuiet` | the same system with one more history variable: the attempts that no request has disturbed |
| `ScheduleMirror` | what the control plane promises, without tables and activity |
| `ProcessMirror` | the refinement mapping from `ProcessSyncChanges` to `ScheduleMirror` |
| `ProcessTypeProofs`, `ProcessSafetyProofs`, `ProcessMatchProofs` | proofs of the type invariant, of the two inductive invariants and what follows from them, (`ProcessSafetyProofs`) of the refinement and (`ProcessMatchProofs`) of what undisturbed attempts bring about |
| `SyncRun` | one sync at work: workflow, data activity, destination, write-backs, clients |
| `SyncRunInvariant`, `SyncRunProofs` | the inductive invariants of its safety, and the proofs |
| `Listing` | how each provider is listed, and what its listings miss |
| `ListingInvariant`, `ListingProofs` | the inductive invariant of an open listing, and proofs of everything `Listing` states |
| `TokenRefresh` | the tokens of one connection: row, clients, provider, events |
| `TokenRefreshInvariant`, `TokenRefreshProofs` | the inductive invariants of its safety, and the proofs |
| `Settings` | schemas, entities, objects, mappings, the destination and its cached writer |
| `SettingsProofs` | proofs of everything `Settings` states |
| `Pages` | the lists the API answers page by page |
| `PagesInvariant`, `PagesProofs` | the inductive invariant of walks through lists, and proofs of everything `Pages` states |
| `MCProcess`, `MCQuiet`, `MCSyncRun`, `MCListing`, `MCTokens`, `MCSettings`, `MCPages` | instances of them for TLC |

The first two specifications meet in the row of the sync. `ProcessSyncChanges` treats a run
as one of the callers of `SetPaused` (a run pauses its own sync in its catch block)
and the schedule as the thing to keep right; `SyncRun` takes a schedule that starts
runs, and treats what the control plane does to the row as `SetPaused` and
`SetStrategy`. `SyncRun` has one listing, by pages or at once; `Listing` opens that step
up for each provider and keeps of a run its beginning and its end. `TokenRefresh` leaves
out what calls are for, and `Settings` and `Pages` touch neither.

Definitions called "Wrong: ..." are plausible bugs of the code: no
specification uses them, and for each property there is one that breaks it.

### ProcessSyncChanges

One action is what another process can see between two awaits: one statement, one
transaction or one Temporal call. A request with reads before its transaction is two
actions, `BeginX` and `CommitX`, with its read kept in `birth`, `listed` or
`dropListed`, and `AbortX` when the transaction is refused. An attempt `w` of the
activity walks through `pc[w]`:

| `pc` | Code (`sync_service.ts`) |
| --- | --- |
| `readConnChanges`, `loadConnections`, `loadConfigs` | part 1 reads change rows, connections, configs (256-280) |
| `create`, `insert`, `remove` | for each connection: `createMany`, `INSERT INTO sync_changes`, `deleteMany` (283-354, 401-449) |
| `readConfigChanges`, `loadChangedConfigs` | part 2 (367-428) |
| `readSyncChanges`, `loadSyncs` | part 3 (490-521) |
| `pauseDoomed`, `deleteDoomed` | `#deleteTemporalSyncs` (566-637) |
| `upsert`, `schedule` | strategy column, then `upsertTemporalSync`, for each sync (526-551, 639-728) |
| `resetFull` | the flag, if the attempt had read it as true (`do_process_sync_changes.ts` 15-24) |

`plan[w]` holds the locals of parts 1 and 2, `batch[w]` those of part 3. A sync is
`<<connection, object, n>>`, where `n` counts the syncs that pair has had: it stands
for the uuid of the row, so that a sync that is deleted and created again is another
sync. Change rows are named by what they are about. `connRows`, `configRows` and
`syncRows` are the ones the attempt has read and not seen added to since: deleting
change rows by id deletes exactly those.

Part 3 pauses all doomed schedules in one action and deletes them in another,
although the code loops over them: nothing but the activity writes schedules, and a
failure between two of them leaves the same change rows as one before the loop.

History variables: `unannounced` (syncs that left by a foreign key with no change
row), `outdated` (connections whose config changed with no change row), `unseenFull`; and in
`ProcessQuiet`, `quiet` (attempts under way beside which no request has taken a step).

### SyncRun

`pc` follows `runObjectSync`: `getSync`, `strategy`, `begin` (first
`updateSyncState`), `transfer` (the data activity), `end` (second
`updateSyncState`), `clear`, `success`, `caught`. The data activity is `job`: `list`
into the temporary table, `copy` in batches by id, `delete` to mark missing rows.
A record is a number and its version the time of its last change; `dest` and
`deleted` are its row in the destination. `seen` is the copy of the row that the run
works on.

A client's write goes through `SendWrite` (the provider has it), `ReadBack` (the API
reads the record again) and `WriteBack` (the unconditional upsert), or `EndWrite`.
`triggerSync` is `RecordArgs` and `Trigger`, two calls with other processes between
them.

An activity can take effect and still be seen to fail (`BeginPhase(FALSE)`, ...), fail
without effect (`ActivityFails`), and the data activity can fail at each of its
stages with what it has copied left in place (`JobFails`).

What is taken from outside of the repository, and marked external in the map:
records change one at a time and no two changes carry the same time; a deleted id
does not come back; a deletion shows only as absence from a full listing (providers
that also list archived records say more); a listing is either fixed when it is
submitted (`Paged = FALSE`, as the Salesforce bulk query) or read page by page
(`Paged = TRUE`, as HubSpot's). Of a listing by pages, `Passed` are the records whose last
change is on no page though a later change is; they become `astray` when the mark passes
them, as a record does that a late write-back leaves older than the provider's.

Left out: two attempts of the data activity at once (in `Listing`, below), the deletion of
a sync or of its schedule while a run is open, a small activity that lands after its
timeout.

### ScheduleMirror and ProcessMirror

`ScheduleMirror` says what the outbox is for. There are syncs somebody wants, some of them
paused, and schedules; a sync is `behind` when somebody has it on a list to look at.
`Request` may change what is wanted if it puts on the list what is no longer in step;
`Upsert` and `Retire` touch only schedules on the list, and may use an old answer;
`Acknowledge` shortens the list by nothing that still needs it. The mapping takes the
rows of `syncs` for what is wanted and the syncs that a change row, a row of their
connection or config, or the full flag covers for the list. Syncs that left by a foreign key are
`abandoned`: the price of the cascades is in the abstract specification too.

### Listing

A provider is a record of five answers: who filters by the time of change, in which
order pages come, whether a page starts after a key or after a count, how deleted
records show, and which time a record is given. Nine combinations cover the eleven
listings of the code; HubSpot's search is a tenth that its policy turns into when an
incremental listing is small enough (`Method`), as the code does by probing.

`Begin` chooses the mark the listing starts from, `ListPage` reads a page at the
provider as it is now, filters it and keeps the newest version of an id, `EndOfPass`
goes on to the archived records or to the write, `EndRun` copies, marks what is
missing and moves the mark, `FailRun` drops what was listed. `GiveUp` and
`GhostWrites` are an attempt that misses its heartbeats when it has listed everything:
its retry starts over and it writes later, beside it. An attempt given up while it is
still listing would list more and write the same way; it is left out.

Changes do not have times of their own here: many records may change at one tick, also
at the tick that becomes the mark. `slipped` is the history variable that says which
records the code cannot promise: those that changed under an open run or after it at
the mark's own time, those such a change shifts on pages found by counting, and those
a ghost wrote.

### TokenRefresh

A token is the number of the provider's answer that brought it, an access token the time until
which it is accepted. `stored` is the row, `client` what each remote client holds, with
a second holder (`api`) for the generated clients inside Outreach's and Salesloft's
(`outreach.client.ts`, `salesloft.client.ts`). Policies say when a client asks for new
tokens, whether an answer brings a refresh token, whether the true expiry is recorded.

`Begin` checks the expiry and asks if need be, `BeginPassthrough` (Salesforce) asks always, and
`BeginUnchecked` sends what is there, as the functions do that do not come by
`maybeRefreshAccessToken`: records read back from Salesloft (`salesloft/index.ts:190`, `231`), a user
from HubSpot (`hubspot/index.ts:2154`), passthrough requests to Gong and MS Dynamics (`base.ts:228`).
`Grant`, `Refuse` and
`Fail` are the provider's, `Receive` is the client that takes the answer over and emits `token_refreshed`,
`ReadRow` and `UpdateRow` are `updateConnectionWithNewTokens`, which the event starts and
nobody awaits. `LoseAnswer` and `LoseWrite` are a process that dies, or a write that
fails, with the history variable `lost`. `Revoke` is the customer withdrawing the
grant, `Reconnect` the OAuth callback over the existing row.

Some of what the policies hold is odd and is modelled as it is: Marketo's `expires_in` is
added as milliseconds (`marketo/index.ts:95`), so it refreshes on nearly every call;
Outreach's inner client asks at a path without a host and cannot refresh; Salesloft's
inner client refreshes into a variable of its own; MS Dynamics asks only after the
expiry. What the provider does is external: whether it rotates refresh tokens is left
open for each policy whose answers bring one, except that Salesforce and Pardot are
taken to keep theirs. Gong's access keys and Slack, whose tokens do not expire, are left out.

### Settings

The JSON columns that requests read, change at one key and write back are one record
`columns`, and a request is an entry of `calls` with the copy it has read: `Open`,
`Check` (the schema is read later than the connection), `Save` or `Drop`. The row of the
destination is a fourth such column, and the only one whose update names the version it
has read. Updates and deletes of schemas, entities, objects and the provider's mappings by
the developer need no copy and are one action each. A worker reads the row of the destination
(`ReadDestination`) and asks for a writer later (`GetWriter`).

What syncs make of it (`UsedFields`, `UsedEntity`) and what the settings page shows
(`ListedFields`, `ListedEntity`) are operators, translated from the two pieces of code
that merge the levels of mappings, once each.

What the model keeps as the code has it: an entry that names a field and no target is
accepted for a field that the schema maps, and then stops every sync of the object
(`lib/schema.ts` throws); two objects without a schema count as a duplicate;
`validateEntityMappings` compares objects by reference; `upsertEntityMapping` does not
look at the entity's fields; a customer's mapping without an object takes the provider's
away; deleting a schema or an entity leaves what refers to it.

### Pages

A row is its id, `row` says whether it matches the query. Records and sync runs are listed by id; syncs
by customer, provider and object, which several may share (entity syncs have no object, and a common
and a standard object may have one name): `Place` gives them places, and every query may answer those
at one place in another order (`SyncOrders`). `ManagedPage` is
the SQL of `managed_data_service.ts` with `getPaginatedSupaglueRecords`, `PrismaPage` the
`findMany` of syncs and sync runs with `getPaginationResult`; what Prisma does with a
cursor whose row has gone is taken from the SQL it issues and stands in `Found`. A reader
starts, follows `next` or `previous`, while rows enter, leave and are deleted. `ORDER BY`
is `InOrder`: the i-th row is the one that has i - 1 rows before it (`Rank`) in the order of the query.
A reader that goes back, or on from a row that matches no more or shares its place (`GoesOnFrom`), has `strayed`.

## 3. Runs

| Run | Asks | States |
| --- | --- | --- |
| `clients` | from an empty database, one connection and one config: four of create, delete, pause, resume, connection config, config update, against the activity, with one crash; the refinement of `ScheduleMirror`, what undisturbed attempts leave, and convergence | 344,919 |
| `admin` | from a settled system, two connections, two config ids, an entity: any three operations of the API, those that delete, replace or cascade among them, with one crash | 1,250,082 |
| `transfer` | two records, three changes, deletions, write-backs, a full run after each incremental one: nothing missed, the mark never falls, the destination becomes a mirror | 466,529 |
| `control` | two triggers, pauses or strategy changes, three changes of records listed page by page, one failure, a full run after two incremental ones | 3,700,766 |
| `listing` | nine ways of listing two records page by page: equal times, deletions, failed runs, an attempt that writes after it was given up | 3,229,549 |
| `tokens` | eight policies, two clients, two calls: refreshes at once, unchecked calls, lost answers and writes, a withdrawn grant or a reconnection | 3,386,123 |
| `settings` | two requests that read and write back, one change by the developer, a worker with a cached writer | 825,536 |
| `pages` | seven rows, three at a time, the three lists, two pairs of syncs that share a place, three rows coming and going | 505,044 |
| `full_lost`, `entities`, `read_after_write`, `pages_back` | four statements of the repository that its code does not keep (section 5) | counterexamples |

### Properties of the control plane

- `DriftIsPending`: a live sync whose schedule is missing or has the wrong paused
  state is named by a change row, a change row of its connection or config, or the
  full flag. It is the promise of the outbox, and what a crash between any two
  statements could break.
- `OrphansOnlyUnannounced`: a schedule without a sync is either named by a change row
  or left behind by a foreign key. The exception is real: deleting a customer or an
  entity, and syncs added between a request's read and its transaction, leave
  schedules that nothing deletes.
- `AckMeansApplied`: when a SyncChange goes, Temporal shows what the row says.
- `OneSyncPerObject`: three creators rely on `skipDuplicates` and on the unique index.
- `SyncsMatchConfig`: when no change row says otherwise, a connection has the syncs
  its config and its own overrides call for, but for entities (section 5). `MatchInv` in the
  run `admin` is its inductive strengthening.
- `MirrorsSyncs`: every behaviour of the control plane is one of `ScheduleMirror`.
- `QuietAttemptsSettle`: an attempt that no request disturbs and nothing ends from outside leaves no
  change row, no flag and no sync that disagrees with its schedule, whatever earlier
  attempts left half done; it throws only for what is poisoned (section 5).
- `Converges`: once clients and failures stop, no change row is left and every sync
  agrees with its schedule, for good; unless a change row is poisoned (section 5).

### Properties of a sync

- `NothingMissed`: a record the provider last changed at or before the mark is in the
  destination in that version, unless a late write-back put an older one over it or it was
  changed while pages were read and its last change is on none of them (history variable
  `astray`). A run that fails halfway, a changed strategy and a repeated run must all keep it.
- `MarkNeverFalls`: the mark goes down only when a full run begins or ends.
- `FullEveryN`: of any N + 1 successful runs in a row one is full.
- `EarlyRefreshKept`: a forced refresh recorded before a run has read its row survives
  every failure until a full run is through.
- `EventuallyMirrored`: if the sync is not paused for good, the destination ends up
  equal to the provider and stays so.

### Properties of the rest

- `OnlySlippedAreMissed`: whichever way a provider is listed, a record at or below the
  mark is in the destination, unless it changed under an open run, at the mark's own
  tick, was shifted by such a change, or a ghost wrote it.
- `QuietFullRunRepairs`: a full run under which nothing changes and no ghost writes makes
  the destination right for every record, deletions included; Apollo's sequences, whose
  listing says nothing of deleted ones, are the exception.
- `NeverStranded`: while the grant stands and no answer or write is lost, a refresh token
  that the provider accepts is in the row or on its way there.
- `AccessIsLive`: a call that has been checked by a client that refreshes ahead of the expiry
  goes out with an access token that the provider accepts, whichever unchecked calls go out beside it.
- `RefusedOnlyIfWithdrawn`: where refresh tokens are not rotated, a refresh is refused
  only after the customer has withdrawn the grant.
- `ListedIsUsed`: the settings page and a sync that can run agree on every mapping.
- `AcceptedMappingsWork`: an accepted field mapping stops no sync while its schema is
  unchanged, but for the one kind of entry named in section 5.
- `OnlyStaleCopiesLose`: a save whose copy is current changes its own key and no other.
- `WriterIsOfTheRow`: the version tells rows of a destination apart, so that the cached
  writer is never used for another row than the one it was made from.
- `ForwardWalksShowAll`: a walk to the end shows every row that was there throughout, in
  order and once, provided that for lists with Prisma the row of each cursor still matches
  and, among syncs, shares its place with no other. Syncs may tie anywhere else.
- `PagesInv`: the inductive strengthening of these two: cursors face outwards, and a walk
  that only went forward has shown everything before the place of the cursor it would go on from.
- `ListsStepBack`: the page before a page of syncs or sync runs ends where that begins, if its
  first row still matches and shares its place with no other.

### Bounds, and why they are enough

- *Calls and crashes* (`MaxApiCalls`, `MaxCrashes`): a race needs a request between two
  steps of an attempt, and the retry that follows. Three or four calls allow a
  create, a change and a delete of one connection inside one attempt; one crash gives
  every statement a retry. The proofs lift both bounds, and those on connections,
  objects and configs.
- *Objects*: one of each kind that the code treats differently (common, standard with
  overrides, entity). Two entities only where the violation needs them. The config of `admin` starts with
  the common object and the entity, and requests name the standard one: every update replaces and every override adds.
- *Records* (2) and *changes* (`MaxClock`): to be lost, a record has to change while another
  carries the mark past it: three changes, one before, one under and one after. `transfer` has
  listings fixed at their submission, deletions and write-backs, `control` pages, so that
  there are records that the mark passes, and arguments, strategies and failures.
- *EveryN* 1 and 2: the boundary of "N in a row", with the row of runs kept at N + 1.
- *MaxAttempts* 2 (3 in the code): one retry and one final failure.
- *Requests* (2): a trigger racing a run and one more request around it.
- *Listing*: a page of one record and a search limit of one, so that two records make two
  pages and one more than the search allows; three ticks, so that a record can change
  before, at and after a mark. Ghosts are limited to one policy (`GivenUp`): what they do is
  past the listing, and the same for all.
- *Tokens*: tokens live for five ticks, are refreshed from three before, and a check, an answer and a
  call are at most one tick apart; five ticks of the clock are a whole life. Three
  answers: two refreshes at once and one after them, or after a reconnection. Of withdrawal and
  reconnection one happens in a behaviour; the proofs have any number. Pipedrive's policy is
  HubSpot's without the unchecked call and is not run again.
- *Settings*: one request per column would not race; two do. One change by the developer between
  the check and the save of a request. Two keys in each column, so that one can be lost.
- *Pages*: seven rows are three pages of three, so that a reader can be in the middle with a page on
  each side; three rows may change under the way. One pair of syncs that share a place lies within the first page
  and one across or within the second, depending on which of the rows are there: without the exception of
  `GoesOnFrom` `ForwardWalksShowAll` is false in this instance.

`tokens` and `settings` check safety only, and use symmetry of calls, clients, schemas, entities and
objects: their specifications compare these for equality and name none. Deadlock is checked but
in `settings`, where the budgets of requests and changes can run out.

### Fairness

`ProcessSyncChanges`: weak fairness of each attempt's next step. The schedule starts
`processSyncChanges` every 10 seconds and Temporal retries its activity without a
limit of attempts (`workflows/process_sync_changes.ts`), so an attempt that can take a
step takes one. No fairness is assumed of clients and crashes. `Converges` is checked with them
bounded, and an attempt that is poisoned for ever is its only excuse.

`SyncRun`: weak fairness of `StartRun` while the sync is not paused (its interval
schedule), of the steps of an open run (Temporal carries a workflow to its end), and of
the steps of each write-back (a request ends). None of clients, of the provider, of
failures. `transfer` has no failures, to leave room for the third change; that a failed
run leaves a state the next one can start from is what `control` checks.

The others have safety properties only. Where they would promise that something happens,
it depends on callers that the code does not schedule: nobody retries a lost write of tokens.

## 4. Proofs

TLAPS proves, for every value of the constants:

| Theorem | States | Assumes |
| --- | --- | --- |
| `TypeCorrect` | `Spec => []TypeOK` | nothing |
| `SyncsAreUnique` | `Spec => []OneSyncPerObject` | nothing |
| `InvariantHolds` | `Spec => []IndInv` | `Overlap = FALSE` |
| `DriftStaysPending` | `Spec => []DriftIsPending` | `Overlap = FALSE` |
| `OrphansStayNamed` | `Spec => []OrphansOnlyUnannounced` | `Overlap = FALSE` |
| `AcksAreApplied` | `Spec => AckMeansApplied` | `Overlap = FALSE` |
| `MatchHolds` | `Spec => []MatchInv` | `Overlap = FALSE` |
| `SyncsFollowConfig` | `Spec => []SyncsMatchConfig` | `Overlap = FALSE` |
| `QuietAttemptsConverge` | `QuietSpec => QuietAttemptsSettle` | `Overlap = FALSE` |
| `ScheduleMirrorImplemented` | `Spec => MirrorsSyncs` | `Overlap = FALSE` |
| `TypeCorrect` (runs) | `Spec => []TypeOK` | nothing |
| `EveryNRunsOneIsFull` | `Spec => []FullEveryN` | nothing |
| `EarlyRefreshIsKept` | `Spec => []EarlyRefreshKept` | nothing |
| `MarkFallsOnlyWhenFull` | `Spec => MarkNeverFalls` | nothing |
| `NothingIsMissed` | `Spec => []NothingMissed` | nothing |
| `ListingTyped` | `Spec => []TypeOK` | nothing |
| `OpenListingsAreComplete` | `Spec => []ListingInv` | nothing |
| `MarkPassesOnlySlipped` | `Spec => []OnlySlippedAreMissed` | nothing |
| `QuietFullRunsRepair` | `Spec => QuietFullRunRepairs` | nothing |
| `WritersAreOfTheirRow` | `Spec => []WriterIsOfTheRow` | nothing |
| `TypesAreKept` (settings) | `Spec => []TypeOK` | nothing |
| `FreshCopiesLoseNothing` | `Spec => OnlyStaleCopiesLose` | nothing |
| `AcceptedMappingsLetSyncsRun` | `Spec => []AcceptedMappingsWork` | nothing |
| `PagesShowWhatSyncsUse` | `Spec => []ListedIsUsed` | nothing |
| `TypeCorrect` (tokens) | `Spec => []TypeOK` | nothing |
| `CallsGoOutAlive` | `Spec => []AccessIsLive` | nothing |
| `RefusalsAreWithdrawals` | `Spec => []RefusedOnlyIfWithdrawn` | nothing |
| `ConnectionsStayUsable` | `Spec => []NeverStranded` | `RotatesByTheClock` |
| `WalksAreWhole` | `Spec => []PagesInv` | nothing |
| `PagesAreInOrder` | `Spec => []TypeOK` | nothing |
| `ForwardShowsAll` | `Spec => []ForwardWalksShowAll` | nothing |
| `PreviousPagesAdjoin` | `Spec => ListsStepBack` | nothing |

`Overlap = FALSE` says that no attempt outlives its timeout. It is needed (section 5).
The only other assumptions are those on constants, which TLC evaluates in each run.

The argument. `DriftIsPending` is not inductive: at the end of part 1 the activity
deletes rows, and only what it has done since it read them makes that safe. `IndInv`
(module `ProcessInvariant`) adds what the attempt still has in hand:

- `NothingForgotten`: were the rows that the attempt has read deleted now, every sync
  would still agree with its schedule, be named by a row that is left, or be in the
  attempt's hands. When a part is at its end nothing is in hand, so its rows can go.
- `CopyIsCurrent`: part 3's copy of `paused` is right for each sync still to do, or a
  SyncChange that the attempt has not read names that sync. A pause during the loop is
  overwritten, and repaired by the next attempt.
- `RemovalIsAnnounced`: between the INSERT and `deleteMany`, each sync of the
  connection has a SyncChange.
- `IdsAreIssued`, `BatchMatchesPC`: a uuid in a copy never names a later sync.
- `WorkHasRows`, `RowsAreThere`, `LocalsMatchPC`, `Alone`: which locals are in use where.

For the API the proof goes through a contract, `ApiStep` (change rows only grow, what
changes is named by a row nobody has read, uuids are fresh): `ApiContract` shows that
every operation meets it, `ApiKeepsGlobal` and `ApiKeepsAttempt` that it keeps the
invariant. For the activity there is one lemma for each action. The run `clients`
checks `IndInv` as an invariant.

`ScheduleMirrorImplemented` uses the same contract, and `IndInv` before and after the step: what takes no
row away is a `Request` (the API, the loops of parts 1 and 2, reads), what only takes rows away
is an `Acknowledge`, and the schedules are touched by `Retire` for the doomed and by `Upsert` for a sync
that is on the list, or by nothing at all if it is not (`CopyIsCurrent`). That the lists still cover
what is out of step afterwards is `DriftIsPending` and `OrphansOnlyUnannounced` of the state reached.

`SyncsFollowConfig` rests on `MatchInv` (module `ProcessMatch`), which looks at a connection and its config
as a pair. A pair is `UpWithout(w)` if no row would name it once the attempt has deleted the rows it has
read. Then its syncs fit, or the attempt is still to see to it (`Owed`), and the attempt's copies of the
config and of the connection's own config are current (`ConfigIsCurrent`, `OverrideIsCurrent`): a write that makes a copy old
leaves a row the attempt has not read, so the pair is no longer `UpWithout`, and what the attempt does
from the old copy is mended by the next. `OneConfig` is needed because a config may be deleted and another one
created for the provider in the middle of part 2. Every operation of the API keeps a second contract,
`MatchStep`; the activity again has a lemma for each action. The run `admin` checks `MatchInv` as an invariant.

`QuietAttemptsConverge` is the part of `Converges` that is safety. `QuietInv` (module `ProcessQuiet`) says that
an undisturbed attempt has read all the rows there are (`RowsAreAll`) and that its copies are the tables
(`CopiesAreTrue`). So each part leaves its change table empty (`EndSettles`); with no row and no flag
left, `DriftIsCovered` of `IndInv` says that every sync agrees with its schedule; and where
`createMany` cannot be done from a true copy, the tables themselves are poisoned (`OnlyPoisonThrows`).
What is left to fairness is that an attempt ends.

`SyncsAreUnique` has an invariant of its own, that only a live connection has syncs:
it is what makes the unconditional creation in `create()` safe.

*Runs* (`SyncRunInvariant`). Only the open run moves the mark, so what it has read is the row's until
it begins, and the row has from then on where its listing starts (`MarkInHand`). An incremental run
was not due to be full when it chose, and no run ends while it is open (`NotDue`). A refresh that counts
as early is in the row, in the copy that the run decides by, or the run is full (`RefreshInHand`).

`NothingMissed` needs to know how far the data activity is. While it copies, each record is in the
listing as it is, or has not changed since the mark, or has changed after everything listed
(`ListingIsComplete`): the mark that is returned is the time of a listed record, so it passes over
no change that the listing lacks. What is left to copy is above the mark (`LeftIsNews`), so a
copy that is older than the provider's record breaks nothing the mark claims; what was copied
is in place (`CopiedIsInPlace`), and a complete listing marks as deleted only what comes back, if at all, later.
That is so of a listing taken in one step. Of pages it is not: what a listing lacks and the returned mark
passes is then `Passed`, and becomes `astray` with it. The rest of the argument is the same for both.

*Listings* (`ListingInvariant`). What the mark claims (`MarkIsSafe`) has to come from what the listing has read,
so the invariant says how far it has come. `ReadIsListed`: what the cursor has passed is in the
temporary table as it is at the provider, for every record that the listing owes (`Still`: it is not in
`slipped`, or nothing has changed at all). A cursor that is a key orders the records strictly, so what is
after the last one of a page is exactly what the page did not have (`KeyLeavesTheRest`). A cursor that is
a count is right only while the count of records read is the count of those before the next page
(`CountIsRight`, `CountLeavesTheRest`); a change breaks that, and then puts all that is not yet listed into
`slipped`. An empty page therefore means that the pass has come past everything
(`EmptyPageIsTheEnd`), and what the passes owe is listed when the rows are written (`PassesAreComplete`).
`EndsExist`, that a finite set of records has a first one and a last one, is proved from the library's
well-founded order of finite sets by strict inclusion, as its theorems for induction over the naturals take
operators. The theorems hold for every combination of answers in `Policy`, more than the
providers that TLC runs through. The run `listing` checks `ListingInv` as an invariant.

*Destinations.* `VersionsNameRows`: whatever rows there are in the table, with a run that has read one
and in the writer, none is ahead of the table and two of one version are the same. An update
keeps it because it names the version it has read.

*Settings.* `FreshCopies`: an open request that no write has overtaken holds its column as it is, so
what it writes back differs from the column in its own key only. `MappingsChecked`: every field mapping
that is stored, or that a request has a copy of, passed `ValidFor` under the schema it names;
with the types, that leaves `createFieldMappingConfig` no reason to throw but the entries
without a target. `ListedIsUsed` follows from the types alone, by cases on which of the mappings exist.

*Tokens* (`TokenRefreshInvariant`). What is under way is at most `Delay` old (`InTime`). From that and from
what clients record of the expiry, a token that is not due outlives the call that
uses it (`AccessKept`); what a client holds may be replaced under a call that goes out, but only by an
answer that is younger than the call. Calls that skip the check are in the steps of the proof and not in the claim.

`NeverStranded` is the subtle one, as the write of tokens reads the row and updates it with no
lock. `Rotation` says why this is safe with a provider that replaces the refresh token it is
shown: an answer is new to everybody (`AnswersAreNew`, `WritesAreNew`); the only client that holds
the token of a write under way got it together with an expiry so far ahead that it has no reason
to refresh before the write has landed (`NotShownYet`); of the calls of one client at most one is
answered, because they all show the same token, and an inner client that has its own access token
leaves the outer one's refresh token used up (`OneAnswerEach`). So no token dies on its way to the
row (`FlightsAlive`), and whichever write lands last, it is alive. `RotatesByTheClock` is what
this needs of the providers: those that rotate are asked by a recorded expiry, never on every call
or on rejection. It holds for the instance that TLC checks; Salesforce and Pardot would break it
if they rotated.

*Lists* (`PagesInvariant`). The order of a query tells all rows apart and keeps to their places
(`OrdersAreOrdered`), and that is all that is used of it. That the answer of `ORDER BY` has every
row once and in order needs no induction: a row that comes before another has the smaller rank
(`RankKeepsOrder`), so ranks are an injection of the rows into as many numbers as there are rows,
hence onto (`RankIsOnto`), and `InOrderSorts` follows. From that, what each kind of page has of
the rows beyond its cursor: a page forward has all of them, or all that are at a place before its
own `next` cursor, which is its last row (`ManagedPages`, `PrismaPages`, `ShowsOn`); for that
`PrismaPages` needs the cursor's row to match still, as then it is the first row found and the one
that is skipped (`CursorIsFoundFirst`). A walk that has shown everything before the place of its
cursor (`WalkIsWhole`) therefore goes on in order and leaves out nothing (`WalkGoesOn`): with no
other row at the cursor's place, what is beyond the cursor is what is at a later place, in
whatever order the next query answers. So a page may end within a tie only if the walk ends there,
and a row that stays in the list has been shown by the end. `ListsStepBack` needs that the
`previous` cursor of a page is its own first row (`CursorsAreOfThePage`) and that the rows going
back come nearest first (`PrismaStepsBack`). The run `pages` checks `PagesInv` as an invariant.

Only model-checked: liveness (`Converges`, `EventuallyMirrored`), which rests on fairness and
ENABLED and is out of reach of the provers used here. Of `Converges` what remains is that
an attempt comes to its end; what it has done by then is proved.

## 5. Where the code and its documents differ

| Run | Statement | What the code does |
| --- | --- | --- |
| `pages_back` | "We fetch `pageSize + 1` records so we know if we need to return a `next` pagination" (`managed_data_service.ts:112`) | going back, `rows.slice(1)` drops the record next to the cursor instead of the one too many (`pagination.ts:121`) |
| `full_lost` | a run resets the full flag only if it was true to begin with, so that it does not discard a request made during it (`do_process_sync_changes.ts:15`) | a full run discards a request made during it |
| `entities` | "any syncs for any deleted objects will be cascadingly deleted" (openapi, `force_delete_syncs`) | while one entity is listed, syncs of dropped entities stay |
| `read_after_write` | "Data invalidation provides read-after-write semantics" (`data-invalidation.mdx:5`) | a run with an older listing puts the old version back, until a later run |

Limits that came up and have no run of their own; the models contain them, as exceptions of
properties or behind a constant:

- *Overlap.* An attempt that outlives its timeout writes an older `paused` last, with no
  change row left. `Overlap = TRUE` and two attempts in `ProcessClients.cfg` show `DriftIsPending`
  false. `TypeOK` and `OneSyncPerObject` are proved with it.
- *Poison.* One change row of a connection without a config, or of a listing that names a
  deleted entity, makes every attempt throw, for all connections (`Poisoned`, the exception of
  `Converges` and `QuietAttemptsSettle`).
- *A refresh asked for during a run* is cleared by that run unread, and its trigger is
  skipped (`connection_and_sync_service.ts`, `run_object_sync.ts`). `EarlyRefreshKept` says what survives;
  with `wanted # "none"` for its first conjunct it is false.
- *Listings page by page* pass records: without `Passed` in `astray`, `NothingMissed` is false in
  `control`. Record 1 is listed in version 1, it changes at time 2, record 2 on a
  later page changes at time 3 and is listed; the mark becomes 3, and version 2 of record
  1 is below it. `Listing` has the other ways to slip: pages that are counts into a list sorted by
  time of change, changes within the mark's own tick (the code asks for what changed after the mark,
  not at it). A quiet full run repairs them (`QuietFullRunRepairs`); without
  `fullSyncEveryNIncrementals` only another change of the same record does.
- *Empty pages of records.* A page that a cursor leads to and that has become empty reads
  `rows[0]` of no rows and throws (`Pages` keeps it as `failed`).
- *Lists with Prisma* start at a cursor's row: once that row is gone or matches no more,
  the list ends early or skips a row (`strayed` in `ForwardWalksShowAll`).
- *The list of syncs* is ordered by customer, provider and object (`sync_service.ts:39`), which is not
  unique. Of two syncs at one place, where a page ends, the next query may skip or repeat one with nothing
  changed; and the page before, which is read downwards, need not be the page shown before (`Alone`).
- *Unchecked access tokens.* The functions named under `TokenRefresh` in section 2 go out with
  whatever access token their client has, expired or not, and fail at the provider then; the next checked
  call refreshes it.
- *Tokens.* The write-back reads the row and updates it ("TODO: Not atomic."): were two of them apart for longer
  than `Delay` allows, an older answer could go over a newer one. A lost answer or write strands a
  connection whose provider rotates tokens, until the customer reconnects. Oddities of single clients
  are named in section 2.
- *Settings.* An entry that names a field and no target is accepted for a field that the schema
  maps, and fails every sync of the object. Two objects without a schema are refused as
  duplicates. The idempotency key of an upsert of an entity record is `<entity id>-create` or `-update`,
  without the connection: not modelled, as what the key does is Temporal's. `provider.delete`
  counts its sync configs before it deletes, without a transaction.

## 6. Not modelled

- *Webhooks*: notifications of finished runs and writes. `maybeSendSyncFinishWebhook` and
  its kin send one message to Svix and swallow its errors; nothing reads them back. HubSpot's webhook
  targets follow a commit by calls whose failure nothing repairs and that nothing else depends on.
- *Magic links, applications, API keys, metadata, associations*: single statements on rows
  that no other part of these models reads.
- *Mappers, schemas, request builders, generated types*: conversions without state. They and the
  constants of `packages/utils` and `packages/schemas/gen` are most of the lines of the repository,
  which is why the map covers a small share of them: of the remotes it has how they list and how they
  refresh, and of the services every operation with a state of its own that others depend on.
- *UI, routes, OpenAPI*: stateless around the services above.
- *Search attributes, sync periods, names*: data that no control decision of these modules depends on.
- *An attempt of the data activity that still lists when it is given up* (`Listing` has the one that
  has listed everything), *a small activity that lands after its timeout*, *the deletion of a sync or
  of its schedule while a run is open*: planned.
- *Provider limits*: rate limiting and retries inside the clients; to the callers they
  are a slower answer or a failure.

## 7. Plan

Done: the control plane with proofs of all its safety properties and its abstract specification, a sync at work, the ways of
listing, tokens, settings, lists. Next, in this order:

1. The termination of a run by the deletion of its sync, and an attempt that still lists
   when it is given up, in `Listing`.
2. HubSpot's webhook targets of sync configs, whose calls follow the commit.

Every safety property that a run checks is also a theorem, under the assumptions of section 4; what these
two items add to `Listing` and to the control plane is to be proved with them.
