# xg-canvas in TLA+

A verification development kept beside the xg-canvas source. xg-canvas is a
canvas for generating media with external model vendors: a NestJS API
(`apps/canvas-api`) over PostgreSQL and Redis, a React client
(`apps/canvas-web`), and packages they share. This document says what the
system's parts are, which of them are modelled and how, what is model-checked
and what is proved. Paths are relative to `src/`; `api:` stands for
`apps/canvas-api/src/`, `web:` for `apps/canvas-web/src/`, and task files without
a directory are in `api:task/`.

1. Inventory – 2. Modules – 3. Runs – 4. Properties – 5. Fairness – 6. Proofs –
7. What is only model-checked – 8. What is not modelled – 9. Where the code and
its documentation disagree – 10. Observations – 11. Plan

## 1. Inventory

### The core: a Task and its vendor invocation

A *Task* is one request of a user to generate something. It outlives HTTP
requests, process restarts and vendor outages, and it costs money: the vendor
bills every job it accepts. Six services, running in every API instance, act on
the same row with nothing between them but guarded SQL statements.

| part | state | operations | interacts with |
|---|---|---|---|
| execution store (`task-execution.store.ts`) | `canvas.tasks`: status, lease token and expiry, invocation id, vendor job, retry and attempt counters | claim, start, renew, prepare, save the job, defer, attach without lease, release, reschedule | every other part |
| runner (`task-runner.service.ts`) | slots in use, a dispatching flag, one heartbeat per execution | two timers that claim Tasks; heartbeat; abort signal | store, executor, poller |
| executor (`task-executor.service.ts`) | locals of one run | invoke, attach the job, undo it, decide on a retry | store, invoke, recovery, terminal |
| recovery (`task-invoke-recovery.service.ts`) | a list of orphan rows read earlier | recover a reclaimed invocation; adopt or compensate orphan jobs; abandon unknown attempts | ledger, store, vendor |
| poller (`task-poller.service.ts`) | locals of one poll | poll a job; retry the download; fail or re-dispatch | vendor, ledger, terminal |
| terminal (`task-terminal.service.ts`) | none | finish a Task, its ledger row and its node in one transaction; cancel by the owner | ledger, node, vendor |
| retry (`task-retry.service.ts`) | none | put a finished Task back in the queue | ledger, store |
| invoke (`account/invoke/*`) | locals of one call | candidates of channel and credential in order; one ledger row per attempt; failover after a definite rejection | ledger, adapters |
| ledger (`request-log/*`) | `ops.request_logs`: one row per physical attempt, keyed by (logical id, attempt number) | begin, record the job, settle once; lists for recovery; sweeper | all of the above |
| vendor (adapters) | the job | accept, reject, finish, cancel | modelled in `VendorCall` |

What is hard here: an execution that stalls longer than its lease keeps running
beside the one that took over; a process may die between any two statements;
the vendor's answer may be lost; a row read a moment ago may have changed; and
six writers race to settle the same ledger row. Correct means: the vendor takes
an invocation at most once; nothing reaches it without a ledger row; a settled
row is final and agrees with the Task; a late result never lands on a Task that
has moved on; no recorded vendor job is forgotten; every invocation is decided.

### The rest of the system

| part | state | hard behaviour | what makes it correct |
|---|---|---|---|
| node write-back (`api:database/task-node-terminal-projection.ts`) | a canvas node's output | Tasks of one node end in any order; `created_at` is the start of a transaction that waits for the node's lock | the newest Task wins |
| HTTP client, adapters, CLI runner (`api:account/adapters`, `api:account/dreamina`, `api:common/http`) | none | time-outs of writes, late, garbled and lost answers | one job per invocation; a report is true |
| registry and catalog (`api:account/registry`, `catalog`, `provider`, `channel`, `model-definition`) | epoch, revisions, in-memory snapshot | commit and snapshot swap are separate; several instances; releases beside local edits | the stored catalog builds; a pinned Task stays reachable |
| credentials, keyring (`api:account/credential`) | key file, encrypted rows | first start of several instances; rotation; verdicts that arrive late | what is stored can be read; a running job keeps its credential |
| object storage (`api:account/storage`) | settings, cached client | probe and save overlap | settings marked verified were probed |
| sessions (`api:session`) | database row, Redis cache, tombstone | validate, refresh and revoke overlap; a crash between database and Redis | a kicked session stays out, a live one gets in |
| identities, verification, merge (`api:identity`) | identities, accounts, one-time codes | concurrent guesses; checks separate from writes | a code is used once; nobody loses an account |
| authorization (`api:authz`) | role bindings, cached capability sets | concurrent demotions; cache filled from old reads | a super admin remains; the cache is what is granted |
| setup (`api:setup`) | one row, a cached flag | concurrent first runs, adoption | routes open only when an owner exists |
| uploads (`api:asset`) | draft row, staging and final objects | database and storage disagree after a failure; cleanup beside completion | an asset has its object; staged objects do not stay for ever |
| canvas (`api:canvas`, `web:canvas`) | nodes, edges, version, snapshots, the editor's view | whole-canvas replace beside node updates; restore without a transaction; undo | no cycle without a race; a sole editor sees the server's graph |
| web task polling (`web:canvas/task-poll-manager.ts`) | generations, polls | answers of older requests arrive late | a node never goes back; a live Task is followed |
| runner's budget | slots, claims under way | two timers share one budget over an `await` | one hard cap |
| chat (`api:chat`, `web:pages/chat`) | conversations, messages, a stream | lost connections, late lists, deletion | replies match the ledger; the page shows its conversation |
| generation forms, constraint engine (`web:generation`, `packages/constraint-engine`) | the form, the contract | model, mode or contract change under the form; an upload answers late | what a form lets through the server accepts |
| quick generation feed (`web:pages/quick-gen`) | rows, polls, browser conversations | lists, polls and replies arrive in any order | rows behind are polled |
| settings pages (`web:settings`, `api:account/credential/provider-models.service.ts`, `feature-config`) | the page, lists under way | late lists, overlapping saves | imported models can be called; a chain is of one save |
| billing, statistics; projects, workspaces, libraries; presentation; scripts | rows | single-statement reads and writes with membership checks | section 8 |

`PROJECT.json` lists each part as a component with its status, and the hazards
found while reading, each with its line and the properties that would catch it.

## 2. Modules

```
TaskRow ── InvokeLedger ── TaskLifecycle ── TaskLifecycleInv ── MCTaskLifecycle               (TLC)
                              │                    └── TaskLifecycleSafety ── …Results ── …Refinement
           TaskMachine ◄──────┘                                                               (TLAPS)
           (INSTANCE, refinement)

MCSecrets   = Session, Verification, Keyring, ObjectStorage, VendorCall, Permissions   ◄── MCSecretsProofs
MCMembers   = Identity, InstanceAdmin                                                  ◄── MCMembersProofs
MCWorkspace = CanvasGraph, NodeWriteback, NodePolling, Uploads, Registry (Catalog),
              TaskRunner, Chat                                                         ◄── MCWorkspaceProofs
MCPages     = Credentials, Onboarding, FeatureModels, Inputs, Params, GenerationFeed   ◄── MCPagesProofs
              (the last four use Subsequence: filters and sums of lists)                   ◄── MCFormsProofs
```

The components below the core share no state with each other at the grain they
are modelled at, so an MC module sets several of them *side by side*: a variable
`scope`, chosen by `Init` and never changed, names the component that moves, and
the others rest in their initial state. The state spaces add up where a product
would multiply them, and one run checks them all. Every component is an
`INSTANCE`, with its constants given in the MC module; a property of the run is
the component's property under its scope.

### 2.1 The Task core

- **TaskRow**: one row of `canvas.tasks`. Every SQL statement is a pair: a
  predicate `May...` for its WHERE clause and an operator for its SET list.
- **InvokeLedger**: the invoke rows of `ops.request_logs`, and the queries that
  recovery, retry and the sweepers make over them.
- **TaskLifecycle**: who runs which statement when. All interleaving is here.
- **TaskMachine**: what the subsystem promises about a Task, with the declared
  status table of `state-machine.ts` and no leases, ledger or recovery.
- **TaskLifecycleInv**: the inductive invariants.
- **MCTaskLifecycle** and its `.cfg` files: the small instances.

| variable | stands for |
|---|---|
| `task` | the row. `lease`/`live` are `lease_token` and `lease_expires_at > NOW()`; `logical` is `invoke_logical_request_id` (with `invoke_prepared_at`); `req` is `invoke_request_id` with `external_task_id` and the pinned route, which a CHECK constraint makes NULL together |
| `ledger` | the physical attempts, by (logical id, attempt number), which a unique index makes a name |
| `preflight` | the row without attempt number that a failure before any dispatch leaves |
| `exec[k]` | the execution that was given lease token `k`: `run` (with `InvokeService.invoke` inlined) or `pollOne`; its next step and the values it has read |
| `pass[i]` | the orphan pass of instance `i`, with the row it listed and the Task as it was then |
| `owner` | the owner's retry between its check and its update |
| `vendor[r]` | what became of the dispatch of row `r` |
| `key[l]` | the number in the idempotency key of invocation `l` |
| `faults` | crashes, stalls and failed writes so far |

A step is one SQL statement or transaction, or one vendor call.

| code | actions |
|---|---|
| `tick`, `pollRunning` | `ClaimInvoke`, `ClaimPoll` |
| `run` | `Start`, `Prepare`, `PrepareMisses`, `Succeed`, `SucceedThrows` |
| `InvokeService.invoke` | `Preflight`, `PreflightFails`, `BeginAttempt`, `BeginFails`, `Dispatch`, `DispatchUnknown`, `Log...` (one per answer), `LogFails` |
| `handleRunning` | `SaveExternal`, `SaveExternalThrows`, `Discard` |
| `handleFailed`, `terminal.fail` | `HandleFailed` |
| `recoverClaimed` | `RecoverAccepted`, `RecoverSettled`, `RecoverExpired`, `RecoverDefers`, `Adopt`, `AdoptMissed` |
| `pollOne`, `failOrRetry` | `PollAgain`, `PollIngestFails`, `PollSucceeded`, `PollFailed`, `PollFailThrows`, `Reschedule`, `PollGivesUp` |
| `reconcileAcceptedOrphans` | `ListOrphan`, `Orphan...` |
| `reconcileAbandonedUnknowns`, `reconcileOnce` | `Abandon`, `SweepDetached` |
| `cancelByOwner`, `retry` | `Cancel`, `RetryCheck`, `RetryUpdate` |
| heartbeat, lease, process | `Heartbeat`, `LeaseExpires`, `Stall`, `Crash`, `CrashPass` |

Abstractions:

- One Task. Executions of different Tasks share no row; the runner's capacity,
  which they do share, is `TaskRunner`.
- Tokens name executions and are used again once no execution and no row has
  them, so a small set gives unboundedly many claims. Invocation ids are drawn
  once only; their number bounds a behaviour, as `MaxRetry`, `MaxAttempts` and
  `MaxFaults` do.
- Deadlines are enabling conditions, not clocks: what waits for a time may
  happen at any time after it was set. The abandon window and the sweeper's
  grace period are therefore arbitrarily short, which only adds behaviours.
- The vendor's job is named after the ledger row whose dispatch created it: job
  ids are unique per accepted request. Hence the branch of the orphan pass for
  two rows with one job is not modelled.
- A vendor cancel that follows a commit is in the step of that commit; it
  either arrives or (a fault) does not, and then the job is `uncancelled`.
- The sweepers' list and update are one step: a row that is a candidate stays
  one while it is pending without a job, and the update checks that again.
- Error codes are two representatives each of what the code tells apart:
  retryable, final, and those with a meaning of their own. The streak of
  transient poll failures is a free choice between trying again and giving up.
- `terminal.fail` failing in the database is a `Crash`: the runner only logs it.
- The sweeper of the request log is assumed enabled, as it is by default. Its
  branch for the row a Task is attached to is dead for invoke rows, which have
  a job then, and `INVOKE_CORRELATION_MISSING` is unreachable because the
  executor recovers only a row that has an invocation id.
- `cancelByOwner` keeps an earlier `error` value; the model's `error` is the
  code a *failed* Task shows, which is where the code reads it.

### 2.2 Secrets, sessions and vendors (MCSecrets)

- **Session** (`api:session/session.service.ts`). `row` is `auth_sessions`, `live`
  the positive cache entry, `tomb` the tombstone, `req` the requests with what they
  have read, `now` a small clock in units far above a second. `IssueRead`,
  `IssueCommit`, `IssueFill`, `KickNext` are `issue`; `Judge`, `Find`, `CacheRow`
  are `validate`; `Extend`, `Recache` are the sliding refresh; `FindToRevoke`,
  `UpdateRevoked`, `KickRevoked`, `FindAll`, `UpdateAll` are the revocations.
  `Crash` and refused Redis commands end a request between any two statements.
- **Verification** (`api:identity/verification.service.ts`): `challenge` is the
  table; a guess reads the newest challenge (`Guess`), and then counts
  (`WrongCode`) or consumes (`Consume`) with a guarded update. `tried` and
  `accepted` are history. Hashing is left out: a guess is right or wrong.
- **Keyring** (`api:account/credential/encryption-keyring.store.ts`,
  `encryption.service.ts`): `file`, `env`, `boot`, `mem`, the advisory lock
  `holder`, and `payload`, what is stored with which key. An instance starts by
  `Lock`, `LoadFile`, `Import` or `Generate`, `Check`; operators may change the
  environment (`Configure`) or lose the file (`LoseFile`). The secret directory is
  shared between instances, as the compose files have it.
- **ObjectStorage** (`api:account/storage/object-storage.client.ts`): a request
  resolves blank secrets from the row (`Resolve`), may probe, looks at the row
  again and writes what differs (`Look`, `Write`), and another builds the client
  an instance caches (`ReadRow`, `SetRuntime`). The exploration stops once two
  saves have overlapped (`overlap`), see section 10.
- **VendorCall** (the adapters, `_shared/http-client.ts`, `guarded-outbound.ts`,
  `bounded-body.ts`, `dreamina-cli.runner.ts`, and the failover loop of
  `invoke.service.ts`): one call in flight, a vendor that may take a submission
  late, and answers by kind. A 4xx, a 429, a redirect and a JSON body without job
  id mean that there is no job; a 2xx that is no JSON, a body that is too large
  and a 5xx may hide one.
- **Permissions** (`api:authz/authz.service.ts`, `role-binding.service.ts`,
  `authz-bootstrap.service.ts`): one user and one project. A resolve reads the
  system and the project roles in two statements and stores and lists the key in
  two more; a change commits and then reads the index, deletes the entries and
  the index. Overlapping assignments exclude each other on their row; the guard
  of the last super admin is InstanceAdmin's. The exploration stops at `lapsed`, a
  change nobody will invalidate.

### 2.3 Members of an instance (MCMembers)

- **Identity** (`api:identity/identity.service.ts`, `merge.service.ts`): `holder`
  is `auth_identities`, `account` the users, `req` the requests between their check
  and their write. `BindFind`/`BindInsert`, `UnbindFind`/`UnbindDelete`,
  `ForceBindCheck`/`ForceBind`, `FullMergeCheck`, `SilentMergeCheck`,
  `SilentMergeOther`/`DoMerge`, `LoginFind`/`LoginCreate`. The caller has proved
  control of the identity a request names; contacts are verified.
- **InstanceAdmin** (`api:setup/setup.service.ts`, `role-binding.service.ts`,
  `merge.service.ts`, `scripts/recover-instance-owner.mjs`): `setSystemRole` is a
  READ COMMITTED transaction that locks binding rows one after the other:
  `BeginRole`, `LockOwn`, `LockSuperRole`, `LockOther`, `CountOthers`, `WriteRole`,
  and `DeadlockDetected` for PostgreSQL's way out. A row has an identity, so that a
  waiter sees that its row was replaced. `FOR UPDATE` without `OF` also locks the
  row of the role.

### 2.4 The workspace (MCWorkspace)

- **CanvasGraph** (`api:canvas/*`, `web:canvas/sync`, `canvas-state.ts`): two
  clients with one request each; the graph, its version and the snapshots. Most
  operations write in one statement and bump the version in another; `CheckEdge`
  and `SaveEdge` are `createEdge`; `ReadPart`/`SaveShot` a snapshot; `Restore`,
  `ClearEdges`, `PutNodes`, `PutEdges` a restore. Only the editor's view is
  followed, with one undo step. `raced` and `lost` record overtaken writes; the
  exploration stops there.
- **NodeWriteback** (`task-node-terminal-projection.ts`, `task.service.ts`,
  `task-retry.service.ts`, `api:canvas/node.service.ts`): Tasks of one node created
  under its lock with `created_at` from the start of the transaction, ended in any
  order, retried; whole-node saves that may put back older data.
- **NodePolling** (`task-poll-manager.ts`, `useNodeRunner.ts`,
  `useCanvasTaskResume`): clicks with generations, polls, late answers, opening and
  leaving the project, edits and undo. `author` and `dropped` are history.
- **Uploads** (`asset-upload.service.ts`, `asset-upload-cleanup.service.ts`,
  `asset.service.ts`): one draft, two staging keys and two final keys; attempts
  that complete it, each ending in a commit, a rollback with discard, a lost
  connection or a crash; a cleanup pass; the poster; soft delete.
- **Catalog, Registry** (`api:account/catalog`, `registry`, `provider`, `channel`,
  `model-definition`, `invoke/*-resolver.service.ts`): Catalog is a library of
  operators over the tables of revisions (what a write makes of them, whether a
  snapshot builds, what it answers); Registry runs the writes as SERIALIZABLE
  transactions on two instances, with the operation queue, the swap of the
  snapshot after the commit, restarts, and one Task with its pin. `active` covers
  the deprecated lifecycle, credentials are one per channel, slugs of channels are
  distinct, vendor imports are `CreatedModels` one at a time.
- **TaskRunner** (`task-runner.service.ts`): two timers, one budget, claims that
  are awaited.
- **Chat** (`api:chat/*`, `web:pages/chat/ChatPage.tsx`): turns as streams or plain
  requests, deltas heard until the connection is lost, the ledger row and its
  sweeper; a page that navigates and loads. Two explorations: "replies" (the
  server, without a page) and "chat page" (the page acts when the server waits; at
  most one deletion; it stops at `left`). Text is abstracted.

### 2.5 Pages and forms (MCPages)

- **Credentials** (`credential.service.ts`, `credential-resolver.service.ts`): every
  write but the verdict of a validation is one step, because `mutateLocal` makes it
  a SERIALIZABLE transaction under one lock. One validation and one call at a time;
  a payload that this instance cannot decrypt is one of the `foreign` secrets.
- **Onboarding** (`provider-models.service.ts`, `VendorModelImport.tsx`,
  `useCredentialWizard.ts`): one provider; the two pages that list the vendor's
  models, let the user pick, and write; lists that arrive late, answers that are
  lost. At most two lists are under way.
- **FeatureModels** (`feature-config.service.ts`, `FeatureConfig.tsx`): the
  statements of a save under READ COMMITTED with their row locks and unique
  indexes, one save per administrator, beside a removal. Two explorations:
  "features" (the page and one more save that leaves the feature enabled; the form
  is edited before or after that save, not within it) and "saves" (three such saves,
  with the page closed). `joined` records that a save put its
  rows beside another's.
- **Inputs** (`input-contract-ui.ts`, `generation-input.ts`,
  `prompt-mentions.ts`, the two forms, `task-input.validator.ts`,
  `task-input-resolver.service.ts`, `input-contract.validator.ts`): a form is
  followed up to its first submission, with one upload at a time; known gaps
  between form and server are named in the module (`KnownGap...`) and described in
  section 10. After the references have changed under an upload, nothing but its
  answer changes them.
- **Params** (`packages/constraint-engine`, `model-params.ts`, the controls): the
  engine's states of the fields, against a reference definition, and what the
  server's check accepts. Lists, empty texts, fractions, patterns and lengths are
  not values of the model; `gt` and `lte` are expressed by `gte` and `lt`.
- **Subsequence**: the filter and the sum of a list as recursive functions, which
  the proofs can unfold, used by the modules above.
- **GenerationFeed** (`useGenerationFeed.ts`, `useConversations.ts`,
  `QuickGenPage.tsx`): two explorations: "feed" (one Task, one conversation) and
  "conversations" (two Tasks that do not move, no polls). One tab; it stops once a
  Task is `missed`, a row behind for a reason the page cannot see.

## 3. Runs

Deadlock is not checked in any run: a Task that has ended, an upload that was
cleaned up, or a bound that is reached is where the system rightly stops. States
are distinct states.

| run | instance | states |
|---|---|---|
| `safety` | 2 executions, 2 invocations with 2 candidates each, 1 pass, 1 automatic and 1 owner retry, 1 fault | 1.5 million |
| `refinement` | as above with 1 candidate and 2 faults | 2.1 million |
| `liveness` | 2 executions, 2 invocations, 1 candidate, 1 automatic retry, 1 fault | 0.1 million |
| `secrets` | 2 requests, 2 sessions, TTLs and clock of 2 units, 2 codes with 2 guesses each, 2 instances, 2 key ids, 2 settings, 3 candidates with 2 retries, 3 roles with 2 capabilities | 2.1 million |
| `members` | 3 accounts, 3 login methods in 2 groups, 2 requests, 2 instances, 2 rows per user | 0.7 million |
| `workspace` | 2 nodes, 2 clients and 2 versions; 3 Tasks of a node; 2 clicks and 2 visits; 2 attempts and 1 cleanup; 2 instances and 3 epochs; 3 works in 2 slots; 2 turns in 2 conversations | 3.0 million |
| `pages` | 2 credentials on 2 channels; 2 vendor models; 4 administrators, of whom 2 save with the page open or 3 with it closed; a form over 4 contracts, 5 of parameters; 2 Tasks in 2 conversations | 1.4 million |
| `poll_reconcile`, `reclaim`, `abandon`, `revoke`, `strand` | the smallest instance that shows the disagreement | one documented claim each, section 9 |

**Why these bounds.** *Core*: two executions are the smallest number that can
disagree about a lease, and a third would have to come after one of them has
ended (its token is then free again). Two invocations let one replace another by
either kind of retry, so every comparison of an old and a new invocation occurs.
Two candidates let a failover overlap a reclaim. One fault at any step is enough
for each hazard taken alone; the refinement run has two. *Components*: two
requests are what a check can be overtaken by, and each property below relates
at most two overlapping requests to one that came before; the clock is long
enough for an entry to expire while a request stands still, and to be written
again afterwards. Three accounts are needed for an absorbed account whose
absorber is absorbed in turn. Three epochs contain a release, a local write
and a restart between them. Where section 6 has a theorem, the bounds do not
matter for the property it states.

Symmetry is used for tokens, requests, accounts, sessions and ids that no
property or action tells apart, and in no run with a liveness property.

## 4. Properties

Every property has a mutant: a plausible mistake in one modelled definition,
defined just before it, with which TLC finds that property violated.

**Core.** `AtMostOncePerInvocation`: among all attempts of one logical
invocation the vendor accepts at most one. `KeysDistinct`: two invocations never
carry the same idempotency key, although `attempt_no` grows only when a claim
finds neither lease nor invocation. `TerminalSettlesLedger`: a finished Task with
a job has that job's row settled the same way. `SuccessHasResult`: a Task
succeeds only with a job of its current invocation that the vendor completed and
the ledger settled as a success. `RecordedJobsAccountedFor`: a row with a job id
is settled only after the job ended or a cancel was tried. `LeaseFences`: under a
live lease only its holder changes the row, apart from the owner's cancel and the
expiry. `SettledOnce`: a settled row never changes, a recorded job id stays.
`ImplementsTaskMachine`: statuses move along the declared table, an invocation
is opened by a running Task only, the Task succeeds only with an invocation the
vendor took, and the system by itself never drops an invocation that the vendor
may be working on. `OrphansResolved`: a job recorded in the ledger is attached to
the Task or its row is settled, eventually. `InvocationsDecided`: an opened
invocation gets its job attached, goes back to the queue, or ends with the Task,
eventually.

**Secrets.** `SessionsJudged`: a session that was kicked is never accepted again,
a live one is. `CodesHold`: a code lets one request in, and overlapping guesses
exceed the limit by at most their number. `StartReadsAll`: a step by which an
instance comes up leaves it able to decrypt everything stored, unless a lost key
file was replaced from an environment. `VerifiedWasProbed`: settings stored as
verified were probed with that secret, unless saves overlapped.
`CachedAsGranted`: a cached capability set is what the database grants, or a
deletion of it is due. `VendorJobsReported`: an invocation leaves at most one job
at the vendors, and what is reported of the vendor is so.

**Members.** `LostOnlyWhenOvertaken`: a step after which some account cannot be
reached any more is the write of a request that was overtaken between its check
and its write. `GateOpensWithOwner`: routes other than the setup are served only
when an active owner exists. `SuperAdminKept`: role changes leave a super admin,
except a demotion whose target was granted the role while it waited.

**Workspace.** `AcyclicUnlessRaced`; `CanvasAgrees`: a snapshot of the current
version is the current graph, and a sole editor sees the server's graph, undo
included, unless a version was lost. `NewestResultShown`: a bound node shows the
result of its newest visible Task unless a whole-node save overwrote it.
`LiveTaskFollowed`, `ShownMovesForward`: a live Task that is shown is polled, and
no late answer takes a node back. `ObjectsAccountedFor`, `ExpiredStaysExpired`: an
asset has the object verified for it, staged objects are known to a row a cleanup
selects, an expired upload does not become an asset. `CatalogServes`: the stored
catalog builds, a Task keeps its model, price and route until a revocation, an
instance serves its own writes, an epoch names one content. `CapKept`: invokes
and polls share one hard cap. `ChatAgrees`: replies are answers exactly where the
ledger has a success; the page shows the conversation it is in.

**Pages.** `CredentialsServe`, `CredentialRowsKept`: a running job keeps its
credential, a new call takes none that was removed before, a verdict is about the
payload it was asked for. `ModelsServe`: a model that comes into use has a channel
it can be called through; a feature's chain is the chain of one save. `FeedAgrees`:
rows that are behind are polled, and a Task is shown where it was asked for.
`FormsAgree`: what a form lets through the server accepts, except the named gaps,
and it holds what was picked and not taken back. `EngineDecides`: the last
constraint on a field decides its state.

**Why refinement has one candidate.** With two, TLC finds a behaviour in which
the system drops an invocation the vendor is working on: an execution is about
to send its second candidate and stalls, a reclaiming execution reads the first
candidate's retryable rejection as the newest row and schedules a retry, and the
stalled execution dispatches. It is the consequence of the disagreement that
`reclaim` records (section 9); with one candidate per invocation the promise
holds, and is proved.

## 5. Fairness

The runner's timers and the recovery's timer run for ever, so claims, orphan
passes and sweeps are weakly fair. Each statement and each vendor call of an
execution returns or throws (every HTTP request has a time-out), so an
execution's next step is weakly fair; an execution that dies is `Crash`, a fault,
and faults are finite. A lease that is not renewed expires. Two strong
assumptions: a pass lists up to a hundred orphans, so a row that keeps being an
orphan is listed although its turns may be interleaved with attempts to attach
it; and a recovery that is deferred again and again finds its deadline passed,
because `invoke_prepared_at` does not move. Nothing is assumed of the vendor's
progress or of the owner. The components of sections 2.2 to 2.5 are checked for
safety only and state no fairness.

## 6. Proofs

TLAPS checks every theorem from the modules as they stand, for all values of the
constants that satisfy the named assumptions.

| theorem | module | states |
|---|---|---|
| `TypeCorrect` | TaskLifecycleSafety | `TypeOK` of the Task core |
| `AtMostOnceCorrect` | TaskLifecycleSafety | `AtMostOncePerInvocation` |
| `LedgerFirstCorrect` | TaskLifecycleSafety | `LedgerBeforeDispatch`: a vendor call has a ledger row |
| `KeysDistinctCorrect` | TaskLifecycleSafety | `KeysDistinct` |
| `SettledOnceCorrect` | TaskLifecycleSafety | `SettledOnce` |
| `LeaseFencesCorrect` | TaskLifecycleSafety | `LeaseFences` |
| `TerminalSettlesCorrect` | TaskLifecycleSafety | `TerminalSettlesLedger` |
| `SuccessCorrect` | TaskLifecycleResults | `SuccessHasResult` |
| `JobsAccountedCorrect` | TaskLifecycleResults | `RecordedJobsAccountedFor` |
| `RefinementCorrect` | TaskLifecycleRefinement | the lifecycle implements `TaskMachine` when `MaxFailover = 1` |
| `StatusFollowsTable` | TaskLifecycleRefinement | the status moves along the declared table, for any `MaxFailover` |
| `SessionsJudgedCorrect` | MCSecretsProofs | `SessionsJudged` |
| `CodesHoldCorrect` | MCSecretsProofs | `CodesHold` |
| `StartReadsAllCorrect` | MCSecretsProofs | `StartReadsAll` |
| `VerifiedCorrect` | MCSecretsProofs | `VerifiedWasProbed` |
| `CachedAsGrantedCorrect` | MCSecretsProofs | `CachedAsGranted` |
| `VendorJobsReportedCorrect` | MCSecretsProofs | `VendorJobsReported` |
| `SecretsTyped` | MCSecretsProofs | `TypeOK` of all six components |
| `LostOnlyCorrect` | MCMembersProofs | `LostOnlyWhenOvertaken` |
| `GateOpensCorrect` | MCMembersProofs | `GateOpensWithOwner` |
| `SuperAdminCorrect` | MCMembersProofs | `SuperAdminKept` |
| `MembersTyped` | MCMembersProofs | `TypeOK` of both components |
| `CapKeptCorrect` | MCWorkspaceProofs | `CapKept` |
| `NewestResultCorrect` | MCWorkspaceProofs | `NewestResultShown` |
| `LiveTaskCorrect` | MCWorkspaceProofs | `LiveTaskFollowed` |
| `ShownForwardCorrect` | MCWorkspaceProofs | `ShownMovesForward` |
| `ObjectsAccountedCorrect` | MCWorkspaceProofs | `ObjectsAccountedFor` |
| `ExpiredStaysCorrect` | MCWorkspaceProofs | `ExpiredStaysExpired` |
| `AcyclicCorrect` | MCWorkspaceProofs | `AcyclicUnlessRaced` |
| `CanvasAgreesCorrect` | MCWorkspaceProofs | `CanvasAgrees` |
| `ChatAgreesCorrect` | MCWorkspaceProofs | `ChatAgrees` |
| `CatalogServesCorrect` | MCWorkspaceProofs | `CatalogServes` |
| `WorkspaceTyped` | MCWorkspaceProofs | `TypeOK` of all seven components |
| `CredentialsServeCorrect` | MCPagesProofs | `CredentialsServe` |
| `CredentialRowsCorrect` | MCPagesProofs | `CredentialRowsKept` |
| `ModelsServeCorrect` | MCPagesProofs | `ModelsServe` |
| `FeedAgreesCorrect` | MCPagesProofs | `FeedAgrees` |
| `EngineDecidesCorrect` | MCFormsProofs | `EngineDecides` |
| `FormsAgreeCorrect` | MCFormsProofs | `FormsAgree` |
| `PagesTyped` | MCFormsProofs | `TypeOK` of all six components |

With these every safety property of every passing run is proved; the runs'
two liveness properties are not (section 7).

**Assumptions.** Each is named in the module that declares its constants, and TLC
evaluates it in the runs. *Core*: there is a candidate, `None` is neither a token
nor an invocation, the code sets are sets of codes, bounds are natural numbers.
*Components*: bounds and limits are natural numbers (`CodeLimits`,
`SessionLimits`, `VendorLimits`, `KeyringLimits`, `RunnerLimits`,
`PollingLimits`, `RowLimit`); what stands for a missing value is no value
(`NoneIsNoValue`, `NoneIsNoRow`, `NoneIsNoPoll`, `NoneIsNoUser`, `NothingReported`);
some names differ (`RolesDistinct`, `TasksDiffer`); the requests that are counted are
finitely many (`RequestsFinite`, `CanvasLimits`); the editor of a canvas is one
of its clients, and an edge is no node (`CanvasLimits`); a conversation is no turn
(`ChatLimits`); the catalog an instance is installed with is one and builds, and
the documents of the releases, of which each build embeds one, are documents
(`CatalogLimits`); a route is a list of channels with a way of signing in, the
lists a vendor gives are lists of its models, presets are not among them, and the
editor is one of the administrators (`CredentialLimits`, `ProviderLimits`,
`FeatureLimits`); the home conversation is not one that was created (`FeedLimits`);
the contracts have the shape the catalog's schemas give them, every asset has a
media type, and an output that reaches a node over an edge is of the type its
asset has (`InputLimits`, `ParamLimits`). Contracts need not be *valid* for this:
validity is a guard of the actions, as in the code. Nothing is assumed of how
many requests, accounts, sessions, keys, nodes, clicks or attempts there are; the
keyring has two instances. A component's theorem
holds for the component as its MC module bounds it: where section 2 says that an
exploration stops, the theorem says nothing of what would come after.

### The argument for the core

At most one acceptance per invocation is not inductive. Why should a second
attempt not be accepted? Because the execution that sends it still is where it
was when nothing had been accepted (`NothingTakenYet`); because no other
execution is on its way to the vendor with the same invocation
(`OneDispatcher`); and that is so because an execution enters the dispatch steps
only with an invocation nobody had drawn (`FreshUntouched`), which in turn needs
that what the lease holder read at the start is still in the row
(`StartedOnRow`), since otherwise it would overwrite another's invocation. The
row each attempt writes is the newest (`DispatchOrder`), so a settled row is not
begun again, which is half of `SettledOnce` and of `LedgerBeforeDispatch`.
`KeysDistinct` needs that the current invocation has the current `attempt_no` and
all others a smaller one (`KeysBelowAttempt`). Together with the shapes of the
records these parts are `Core`; with `TerminalSettlesLedger` they are `IInv`.

What becomes of a job once it has a row is `Custody`. `SuccessHasResult` needs that
an execution about to succeed has its result from the vendor and has settled
its own row (`ResultsEarned`), and that the holder of the lease works on the Task's
invocation (`HolderKnows`). `RecordedJobsAccountedFor` needs that a row gets its job
only after the answer, from the execution that was answered (`RecordedAfterAnswer`),
and that an orphan pass never saw a finished Task with the row it works on still
attached (`SeenUnfinished`).

For the refinement, `RetrySound` says what a retry rests on: an execution
that is going to send its Task back to the queue does so for an invocation that no
vendor works on, and of which none will hear again (`Hopeless`). It is false with two candidates (section 4), and
`MaxFailover = 1` is a hypothesis of `RefinementCorrect`, not an assumption of the
module. What does not need it, the status table, is `StatusFollowsTable`.

**The layout.** Most steps leave most parts alone. For each part of `Core` a
*quiet* lemma says under which conditions on the primed variables it is kept
(for instance `OneDispatcher` when no execution enters the dispatch steps), and
each action is shown to be quiet for the part or is treated on its own. What the
remaining actions do is stated once per action, and `CoreNext` puts them
together. The last part of the module shows that each change of the Task row is one the
holder, the owner or the clock makes (`NextRow`).

### The arguments for the components

An MC module's step is a step of the component in `scope`, so each invariant is
stated under its scope, proved for the component's actions, and trivial for the
others.

- **Sessions** (`SessionInv`). A positive cache entry may be written after the
  tombstone of its session. It does no harm because the expiry of the row only
  grows (`RowsGrow`), what a request will write ends no later than the row
  (`RequestFits`), and a tombstone stays until the row's last expiry (`TombSound`).
- **Codes** (`VerifyInv`). What was tried on a challenge is at most what its
  counter says and the guesses that have been read and not yet counted
  (`Uncounted`); a challenge that is not used has let nobody in.
- **Keyring** (`KeyringInv`). Only the holder of the lock is between load and
  check; what a running instance holds agrees with the file wherever both have a
  key (`Extended`); the file has the key of every stored payload, unless a lost
  file was replaced from an environment (`Holds`).
- **Object storage** (`StorageInv`). What a request is about to write as verified
  was probed with that secret (`Fits`).
- **Permissions** (`PermissionInv`). A cached set that is not what is granted is
  still to be deleted: its key is in the index and a change has yet to read the
  index or has read the key (`Covered`). What a resolve has read is what the
  database says unless a change overtook it (`ReadFits`).
- **Vendor calls** (`VendorInv`). Candidates before the current one have no job and
  no request on the wire, later ones are untouched; each answer says what it can say
  of the job (`AnswerSound`), and the loop goes on only after one that means that
  there is none (`ReportSound`).
- **Identities** (`IdentityInv`). `RequestSound` is what a request that is about to
  write has checked. The theorem is about steps: each of the five writes is shown to
  keep every account reachable when what was checked is still so.
- **Setup and super admins** (`AdminInv`). An initialized instance has an active
  owner (`SetupSound`). Those a demotion counted are locked by it and are
  super admins until it has written (`TxSound`), so two demotions cannot count each
  other.
- **Runner** (`RunnerInv`). At most one timer is awaiting its claims, and what it
  asked for fits beside what runs.
- **Canvas** (`CanvasInv`). What a request has read and nobody has changed since
  is the graph (`ReadSound`). So an edge that was checked and not overtaken
  closes no cycle (`AcyclicWithEdge`), and every graph that is read, kept as a
  snapshot or shown is acyclic. A request about to store a snapshot of the current
  version is overtaken only by a change that still has to raise the version
  (`Timely`), and there is no snapshot of a later version (`ShotsSound`). An
  editor that is not behind shows the graph, or will once it is answered
  (`ViewSound`). Requests under way reserve the versions they will write (`Busy`),
  which is why the bound on versions cuts none of them off half-way.
- **Chat** (`RepliesInv`, `PageInv`). What a turn has recorded follows its steps
  (`TurnSound`), a message is one of a turn that has come as far and says what the
  ledger row says (`MessageSound`), and that row is final once the reply is
  stored. The page waits for the messages of the conversation it is in, or shows
  no other (`PageSound`), as long as the user has not left a conversation without
  a name or messages. The proof needs no exception for a page that has moved on
  while a turn is being answered: `PageShowsItsConversation` states none.
- **Registry** (`RegistryInv`). Take all catalogs that are held: each instance's
  snapshot, what waits to be put in place, and the database. Those of a later epoch
  have every revision of an earlier one, those of one epoch are equal, and all but
  the empty one build (`HeldSound`). It rests on a lemma per operator of `Catalog`:
  no write and no activation takes a revision away (`LocalWritesGrow`,
  `ActivateGrows`). So the revisions a Task has pinned are in every later snapshot
  (`PinHeld`), and the route it was sent by is in the database (`RouteHeld`). An
  instance has one snapshot waiting at most, of its own last epoch, which is why
  the queue makes it serve its own writes.
- **Write-back** (`WritebackInv`). Places in the order are distinct, and the newest
  visible Task that is bound and has succeeded is the one shown, unless its
  result is being written or was overwritten (`ResultShown`).
- **Polling** (`PollingInv`). A poll and a call belong to a generation no greater
  than the counter (`GenerationsSound`); what the current poll is about has not
  ended on the screen (`ShownSound`); a resume whose boundary is still current finds
  a blank node (`ResumeSound`); a live Task that is shown is polled, about to
  be replaced, or was dropped by an abandoned click (`Followed`).
- **Uploads** (`UploadsInv`). One attempt works under the draft's lock, and the
  copies it has verified are still there when it writes (`CopiesKept`); whoever
  discards, or a commit whose outcome is unknown, sets `undone`. What is staged
  belongs to a row a cleanup selects (`StagingSound`), and what a cleaner believes
  of the row is still so (`PassFits`).
- **Credentials** (`CredentialInv`). A job's credential is stored on the job's channel
  as long as the job runs (`OnChannel`): no write takes a stored row away or moves it
  to another channel. What a call has listed is stored on its channel and was not
  removed before the call began, and what was removed then stays archived
  (`CallHolds`).
- **Onboarding** (`OnboardingInv`). A page that has not taken a list of another
  channel for its own (`astray`) shows, has picked and posts only what the vendor
  has on its channel, and for the import that channel has a key, which it keeps
  (`WizardHolds`, `ImportHolds`); so do the lists under way (`ListsHold`).
- **Feature models** (`FeatureInv`). `SaveHolds` says what the rows of a save under
  way are at each of its statements, and what it has locked. Two saves that are
  both past their inserts are on different sides of the lock (`Apart`). The
  committed rows are, place for place, the chain of one save (`BindingsHold`).
  With three saves this is false, and TLC's counterexample is a schedule of the
  code: the first and the third begin, the second commits a one-model chain; the
  third, whose delete ran before, finds that model's row, inserts only its own second
  place and waits; the first now deletes the row that stood in the way, and the
  third commits a chain that starts at place 1. Hence the hypothesis of
  `ChainIsOfOneSave`: at most two saves, or no save that put its rows
  beside another's (`joined`).
- **Generation feed** (`FeedInv`). Every row the page holds, and every row in an
  answer under way (`InHand`), is the server's row or one that is behind in a way the
  page can see (`Behind`, `RowsHold`); what is behind is polled or its row is on
  its way (`Coming`); a request's reply tags the conversation it was sent from
  (`RequestHolds`, `TagsHold`).
- **Parameters** (`ParamInv`). The engine is a fold of the actions over the states of
  the fields. A lemma about folds says that what only some steps write is what
  the last of them wrote, or the start (`LastDecides`); `EngineDecides` is that
  lemma once per kind of action, and needs nothing of the reachable states but
  their types. For the forms: what the command bar holds under a schema, and what
  either form sends under one, is for every field with options an option up to its
  looks or the default (`Fits`, `FormFits`, `SentFits`), through every change of
  model; so a chosen option is refused in the cases of `KnownGap` only.
- **Inputs** (`InputInv`). Two lists must agree: what the form counts, in
  units, and what the server counts after it has expanded the entries. The form's
  merge is a fold that keeps each slot within its maximum (`Within`) and each
  reference one its slot takes (`Agreed`), whatever was picked before under another
  mode. Expanding an entry gives as many assets as it had units when it was picked,
  unless it was edited; so the sums over both lists are equal
  (`Resolved` rests on `TotalConcat`: the sum of two lists is the sum of their
  sums), and the contract's bounds hold for the resolved list (`Passes`). `TaskHolds`
  carries this from the submission to the execution. That the form holds what was
  picked (`Keeps`) is kept by every action but an upload's answer after another change,
  and `crossed` is just that.

## 7. What is only model-checked

- Liveness (`OrphansResolved`, `InvocationsDecided`): fairness and ENABLED are
  outside TLAPS' reach here.
- That the engine's evaluation of a *condition* means what it should: it is a
  recursive function over a tree of conditions, taken as it is by both sides of
  `EngineDecides`. The recursions along lists (filters, sums, merges, the engine's
  actions) are proved, by induction on how far the list was read: the library's
  induction theorems take an operator as a parameter, so the module proves its own
  from the least number that is not reached (`UpTo`).
- That the named exceptions are as small as they could be: `KnownGap` of Inputs and
  of Params are disjunctions read from the code, and each is described in section 10.
- What lies beyond an MC module's bound (`FeaturesBounded`, `FeedBounded`,
  `InputsBounded` and those of section 2): the theorems are about the bounded
  next-state relation, which fixes where an exploration stops and not how large the
  constants are.
- That the instances behave as an implementation of anything abstract: only the
  Task core has an abstract specification.

## 8. What is not modelled

- Billing, cost and statistics: read-only aggregation of settled ledger rows.
- Projects, workspaces and content libraries: single-statement reads and
  writes after a membership check; there is no protocol.
- The presentation of the web interface, and what is formatted or logged.
- Scripts and migrations; the constraints of the schema are used as a source.
- Of parts that are modelled in part, what `PROJECT.json` names at each: address
  filtering of outbound requests, bundle signatures and digests, password hashing
  and OAuth state, listing and tagging of assets, positions and handles of the
  canvas, debounced position patches, the login flow of the CLI.

## 9. Where the code and its documentation disagree

Each is a `violation` run with one property that restates the sentence; the
counterexample TLC prints is the schedule.

1. **A waiting Task whose row is already settled** (`poll_reconcile`). The
   comment in `request-log.service.ts:80-84` says a polling terminal transition can
   always reconcile. An orphan pass that missed its attach re-reads the Task
   (`task-invoke-recovery.service.ts:163`), sees no job, and is overtaken by the
   owner's `saveExternalResult`; it then cancels the job and settles the row. The
   Task stays `running`: success, failure and the owner's cancel all throw in
   `assertInvokeFinalized`.
2. **A reclaimed invocation sent again** (`reclaim`). "A reclaimed logical
   invocation is never sent to the vendor a second time" holds for the
   reclaiming execution; the one that lost its lease still goes on to its next
   failover candidate unless the heartbeat's abort arrives first. At most one
   attempt is *accepted* all the same.
3. **An attempt never abandoned** (`abandon`). `docs/task-lifecycle.md:249-252`
   promises that an unresolved attempt is abandoned after a window, so that the
   owner may retry. The query asks for a cancelled Task or the error
   `INVOKE_OUTCOME_UNKNOWN`; an insert of `begin` that commits although its
   acknowledgement is lost fails the Task with `ADAPTER_INTERNAL`, and the retry
   stays blocked.
4. **A revocation that is not instant** (`revoke`). `session.guard.ts:11-12` says
   revocation is instant. `revokeAllForUser` lists the active sessions, revokes
   every active session in a second statement, and writes tombstones for those it
   had listed: a session issued in between is revoked in the database while its
   positive cache entry lets it in until its TTL ends.
5. **A merge that strands the last super admin** (`strand`).
   `merge.service.ts:119-120` says that a merge hands privileged status over. When
   the survivor already holds another system binding, the unique index makes the
   insert do nothing, and the next statement deletes the merged account's binding.

## 10. Observations

What was met while modelling and is not the subject of a run: behaviours the
models include or name as an exception, and some at their edge. They are notes
for the maintainers, each to be judged on its own.

**Tasks and ledger.** The sweeper's `NOT (NULL = id)` never closes the pending row
of an earlier invocation of a cancelled Task that has no invocation id
(`request-log-reconciler.service.ts:69`).

**Canvas and nodes.** `CanvasService.update` writes a stale version back, so that a
version is used twice and `createSnapshot` returns an older snapshot.
`NodeService.update` overwrites a concurrent write-back. Restore and delete clear
`source_node_id` of running Tasks: their results are not written and the poll is
cancelled silently. Two quick clicks whose POSTs are reordered leave the shown
Task's result unwritten; a click abandoned after `beginNodeSubmission` leaves the
old live Task unpolled. A torn snapshot makes restore fail after it has deleted.
The client's `isValidConnection` does not look for cycles, and replace trusts the
client. The auto-save debounce (`auto-save.ts:12`) replaces a pending position
patch. The storyboard script uses node ids read before the model call, and
repeated `shot_no` collide.

**Sessions and accounts.** A refresh may race a revoke; a crash between the
database and the tombstone leaves the cache entry; the comment of schema 003 does
not match the refresh. A re-grant of super to a super, concurrent with that
account's demotion, can remove the last super admin.

**Permissions.** A deletion of the index that crosses another resolve's SADD
orphans a cache key (against the comment at `authz.service.ts:18`). A resolve
overtaken by a change caches a stale set. Merge and crash leave cached sets for up
to 300 s. Reseeding of roles is visible row by row.

**Uploads.** A discard after a rollback can delete the objects of a concurrent or
retried attempt; so can a lost acknowledgement of a commit. A disconnected attempt
keeps copying. `completeThumbnail` saves the whole row and can undo `softDelete`. A
discard after a failed head may delete a late PUT.

**Catalog and storage.** A retired rate card keeps its slug, so its model can never
be priced again (409). An official release that collides with a local slug or
`model_id` makes reload and bootstrap fail. Another instance's snapshot stays
stale; so does one's own when the acknowledgement of the commit is lost. Two
overlapping saves of the storage settings can leave a verified mark on settings
that were never probed; `getRuntime` racing a save caches the older client.

**Keys and credentials.** `assertReferencedKeysExist` compares ids only; a running
instance with an older keyring cannot decrypt what a newer one stores. Replacing a
payload keeps the old verdict (for display). An unreachable vendor is recorded as
invalid. A rotated credential is used to poll jobs created under the old key. One
row that cannot be decrypted fails every call on its channel, while
`resolveProviderApiContext` tries the next. Failing keys are never marked used, so
`MAX_FAILOVER` bad ones hide a good one.

**Vendor calls.** `docs/task-lifecycle.md:90` says `definitely_rejected` means that
there is no vendor job; a 2xx of bailian that is no JSON, and a stream's 5xx, are
reported so by default. A garbled poll answer of bailian, or a `task_status` it
does not know, ends the Task as failed while the job may run. An openai invoke with
a garbled 2xx succeeds with empty text. Failures to connect, and local failures of
dreamina, are `outcome_unknown`. Dreamina's `run` ignores a signal that is aborted
already.

**Chat.** A client that disconnects breaks the generator: the reply is never saved
and its ledger row waits for the sweeper (against `002_chat_schema.sql:3-4`). The
sweeper may close the row of a long stream that still runs, whose reply is then
stored as failed. `convs.save` brings back a conversation deleted meanwhile. In
`ChatPage`, `onMeta` uses the conversation of its closure, the error path of
`loadConversation` lacks the `loadSeq` guard, sending during a load loses the
temporary messages, and navigating during a turn while another conversation loads
leaves the wrong messages.

**Quick generation.** A late list can replace newer rows or drop finished Tasks, and
a stale terminal row is not polled. Enter pressed twice sends twice. A submission
whose reply is lost is untagged and appears under the default conversation; deleting
a conversation hides its Tasks everywhere; two tabs overwrite each other's
conversations. `SaveToProject` copies one by one and a retry duplicates. "Generate
again" is offered on succeeded Tasks, which the server always refuses, and cancelled
rows have no retry button.

**Forms and parameters.** In prompt-only mode the fallback slots are wrong (against
`useNodeRunner.ts:78` and `docs/adapter-guide.md` §6). The client accepts an image
for an `image_list` slot, which the server refuses; library entries in
`image_list`, `entity_ref` and video slots are always refused; `filterRefsForSlots`
ignores library kinds after a change of mode. An answer to an upload in
`ResourcePicker` overwrites picks made meanwhile (`ReferenceSlots.tsx:59-66`,
`ReferenceUploader.tsx:140-148`). `slot.max` goes up to 1000, the API takes 32
references. The chips of the canvas show a number box for toggles and send a scalar
for a multiple choice; options are compared as strings by the client and with `===`
by the server; defaults are not checked against options; forms do not enforce number
ranges and ignore constraints and `visible_when`. The quick form sends stale values
when the schema fails to load. `engine.reconcileParams` is not used and may return a
default that is not valid.

**Settings pages.** A vendor's list may arrive under another channel, and picks of
presets that a toggle hides are still enabled. A wizard save repeated after a lost
answer stores a second credential. A late analysis shows under another log
(`Logs.tsx:84-102`). In `ModelDetail` a save of the text reverts another admin's
change. Saves of a feature's chain are last-writer-wins; overlapping saves can
mix one's `enabled` with the other's chain, and three can leave a chain that
starts at place 1 (section 6, Feature models). A late
answer closes whichever drawer is open; edits made while saving are lost. The
dreamina login goes on after a cancel.

## 11. Plan

The modules planned at the start are written, and the safety properties the runs
check are proved. What could follow, in this order:

1. An abstract specification of the catalog (one sequence of contents, by epoch)
   and the proof that `Registry` implements it; so far only the Task core has one.
2. Three saves of a feature's chain once the service locks the configuration row
   before it deletes: the hypothesis of `ChainIsOfOneSave` then goes.
3. `KnownGap` of Inputs, one disjunct at a time, as the forms learn what the server
   checks.
