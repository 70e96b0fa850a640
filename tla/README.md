# Investor Intelligence: TLA+ models and proofs

Investor Intelligence is a research pipeline (Python and PowerShell on one Windows
host) that publishes sealed snapshots to Cloudflare KV, and a Cloudflare Worker that
serves them to LINE users, answers general questions with a local language model and
pushes the Top 20 to its owner. This directory holds TLA+ models of the parts of it
where order, failure and concurrency decide whether it is correct, the TLC
configurations that check them, and proofs checked by TLAPS.

All paths below are relative to the repository's root (`src/` in `PROJECT.json`).

## 1. Inventory

| Component | State | Operations | What makes it correct |
|---|---|---|---|
| **Activation transaction** `cloud/src/v213/activation-v3.ts` | KV: pointer `snapshot:current`, objects `snapshot:<run>:<key>`, rollback journal per transaction | commit, rollback, finalize (signed admin requests) | a promoted snapshot is complete; a rollback restores exactly what was displaced; nothing reported undone is served |
| **Sealed refresh client** `scripts/v213_sealed_refresh.ps1`, `sync-v213-activation-bundle.ps1`, `scripts/v213_operation_lock.ps1` | operation lock, one journal file per refresh | refresh (commit, then finalize or rollback), confirmed reconciliation | one refresh at a time; an uncertain outcome blocks the next one until it is decided; the lock is released |
| **Sealed snapshot reader** `cloud/src/v213/snapshot-seal.ts`, `public-snapshot.ts` | the pinned view of one request | pin, read and verify each object | a view is one commit's set of objects or nothing |
| **Tenant private data** `cloud/src/storage.ts` | KV: deletion epoch, memory flag, conversation, slow-job records, all keyed by tenant and epoch | memory on/off, clear, save, put job, look up, delete-my-data | a deletion is final also for what was in flight |
| **Question and data-command handlers** `cloud/src/v211/worker.ts`, `cloud/src/qa.ts` | per event: captured epoch, history, answer promise, parked job | answer, quick reply, park, late completion | what the user is told is what happened |
| **Friend model lane** `cloud/src/v213/friend-qa-gate.ts` (Durable Object) | stored: leases, counters; in memory: waiting room, wake loop | acquire, release, wake, wait timer, admit, jobWrites | bounded concurrency, one place per friend, no lost wake-up, charges only for what ran |
| **Webhook front** `cloud/src/line.ts`, `cloud/src/v211/worker.ts`, `cloud/src/v211/line-access.ts` | KV: event claims, rate windows | verify, claim, complete, release, classify access | an event is processed at most once unless it failed |
| **Owner pairing** `cloud/src/v21/owner-storage.ts` | KV: owner pairing, used code | pair, status, remove | one owner, one use per code |
| **Broadcast and owner push** `cloud/src/v213/broadcast.ts`, `broadcast-dedupe.ts`, `cloud/src/v21/line-push-policy.ts`, `line-push.ts` | Durable Object: claims; KV: free-quota reservations | claim, reserve, push, record | no second push of one edition, never beyond the free quota |
| **Free relay** `cloud/src/v213/free-relay.ts` | Durable Object: current route, refresh claims | publish route, claim refresh, read | only a newer authenticated route replaces a route |
| **Hourly sealed publisher** `scripts/publish_sealed_snapshot.py`, `sync_sealed_snapshot_kv.py`, `run_production_sealed_refresh.ps1` | ledger of written keys, operation lock | build seal, write blobs, verify, move the pointer | pointer last, after everything it names; retries do not rewrite |
| **Local model gateway and bridge** `scripts/v213_local_llm_gateway.py`, `run_v213_local_llm_bridge_core.ps1` | generation slots, supervised processes | admit, generate, time out, restart | bounded generations, slots always returned |
| **QA capacity** `scripts/v213_qa_capacity.py`, `v213_qa_capacity_synthetic_journal.py` | lease files, journal | take, renew, release, reclaim | one holder, stale holders reclaimed |
| **Guidance journal** `scripts/revenue_guidance_storage.py`, `revenue_guidance_windows.py` | two slots of one file, the lease that holds it, its version tokens | acquire, read, commit, close | an acknowledged commit survives a kill, no update is lost |
| **Guidance updater** `scripts/revenue_guidance_autoupdate.py`, `revenue_guidance_overlay.py` | generations and the pointer to the one in force, order of service; in a run: what it decided and has not published | detect, re-verify, admit, publish, capture, verify, record | a record is not used past a later document; every issuer gets its turn |
| **Guidance capture store** `scripts/revenue_guidance_overlay.py` | captures (two files each), accounting journal with reservations | reserve, write, settle, reconcile | what is counted is what is there |
| **Guidance attempt history** `scripts/revenue_guidance_overlay.py` | sealed segments, open attempts, index of verified and settled ones | append, supersede, seal, audit | published attempts are never changed or lost |
| **Guidance release checker** `scripts/revenue_guidance_release_check.py` | a few retained rows per issuer and reference | check | what a feed listed is seen by the next run |
| **Guidance verifier** `scripts/revenue_guidance_auto_verify.py`, `revenue_guidance.py` | none | derive a record from captures | deterministic in what it is given |
| **Schedules, install coordinator** | Windows tasks, installed files | switch, install, roll back | all or nothing |
| **Research pipeline, formatting, launcher** | files | sequential transformation | content rules, not interleavings |

How they interact. The pipeline's refresh client sends a signed bundle to the Worker,
which writes KV and moves the pointer; the hourly publisher moves the same pointer from
the host. Every question pins that pointer. A LINE event becomes a Worker invocation:
the webhook front claims it, the handler answers from the snapshot, runs a data command
on the tenant's private data, or asks the model; a friend's model question first takes
a lease in the Durable Object. Cloudflare KV has no transactions, and events of one
user run concurrently; Durable Object storage has transactions, but other requests of
the object run between them.

The guidance of the order model comes from files on the host. The release checker lists
what issuers published after the record in force; an updater run commits what it
detected, captures the filing, verifies it and publishes a new generation; a reader
admits the record of the generation in force, or nothing. Under the provider's own state
lies the journal, one file with two slots written through native requests.

The production template (`cloud/wrangler.v213.production.template.toml`) switches three
of these paths off: activation commits (`V213_ACTIVATION_COMMIT_ENABLED`, the hourly
publisher is then the only writer of the pointer), conversation memory
(`MEMORY_FEATURE_AVAILABLE`) and friends (`V213_LINE_ACCESS_MODE="owner_only"`). The
models describe the code with the feature on: findings about them matter on the day
the switch is turned.

What is hard, and hardly reached by the unit tests: the client gives up on a request
whose handler still runs; a handler dies between two KV calls; two transactions carry
one run id; a deletion runs between the check and the write of another event; a timer
fires between a storage transaction and its continuation; an instance is evicted with
its waiting room; an updater run dies between two of its files, or meets code and a
registry installed since the last one; a native request is never answered.
`PROJECT.json` lists these hazards at their lines, with the properties aimed at them, or
a note where none is yet.

## 2. Modules

| Module | Contents |
|---|---|
| `PublishedSnapshot` | abstract: a snapshot that is switched at once and whole, and undone exactly or kept |
| `Activation` | commit, rollback, finalize; the refresh client and its journal; reader; hourly publisher; implements `PublishedSnapshot` |
| `MCActivation` | two bundles that share a run id, for TLC |
| `ActivationProofs` | types; the reader's view; without late handlers: served activations are complete, recoverable, exactly undone, never undone once finalized; the refinement |
| `TenantJobs` | abstract: slow jobs that a deletion empties, and shuts out, in one step |
| `TenantData` | deletion epoch, conversation, jobs; a question's two flows and the data commands; implements `TenantJobs` |
| `MCTenantData` | questions and commands, for TLC |
| `TenantDataProofs` | types; deleted jobs stay deleted; a reported cancellation is true; a deletion leaves nothing behind; the refinement |
| `FriendQaGate` | the model lane's Durable Object and the Workers that use it |
| `MCFriendQaGate` | three friends and the owner, for TLC |
| `FriendQaGateProofs` | types; cap and lease; one place each; limits; arrival order; leases handed back; no lost wake-up |
| `DurableRegister` | abstract: a register written by compare and swap |
| `GuidanceJournal` | the two-slot journal, request by request; implements `DurableRegister` |
| `MCGuidanceJournal` | two values, for TLC |
| `GuidanceJournalProofs` | types; the slot in force kept; no lost update; tokens; the refinement |
| `GuidanceCaptures` | the capture store and its accounting |
| `GuidanceCapturesProofs` | types; objects and bytes counted exactly |
| `GuidanceHistory` | operators on one issuer's attempts: append, supersede, seal, audit |
| `GuidanceHistoryProofs` | lemmas: what those operators do to histories, segments and index |
| `GuidanceUpdate` | the updater's run, composed of the two; the checker, the reader's admission, installations |
| `MCGuidanceUpdate` | issuers, documents and identities, for TLC |
| `GuidanceUpdateProofs` | the updater implements the capture store's specification; types; quota; detections first; audits; histories kept; nothing forgotten |
| `GuidanceBarredProofs` | a record is not used past a later document, under two hypotheses on releases and verifiers |

Definitions written "Mutant" in a module are faulty variants of the definition that
follows. No specification uses them; each shows, when put in the place of the right
one, that a property notices the fault.

### Activation

State. `pointer`, `store` and `undo` are the KV entries; `c`, `r`, `f` the program
counters and locals of the three Worker handlers, one per refresh; `client`, `journal`,
`bundle` the host's side; `reader` one view per question. A bundle's content is named by
its transaction: what the properties need of an object is whose it is. Claims and seals
carry in addition the refresh at whose clock they were made.

Actions. Every KV call of `ingestV213ActivationBundle`, `rollbackV213Activation` and
`finalizeV213Activation` is one action (`CommitReadPointer` ... `CommitReverify`, and so
on), with the code's checks between them as guards or as the branch to an error.
`HandlerFails` is a KV call that throws, at any point. `StartRefresh`, `CommitReply`,
`FinalizeReply`, `RollbackReply` are the client's try and catch blocks, `Timeout` its 90
seconds, `ClientCrash` the death of the script with the journal file as it is, and
`Reconcile` the operator's confirmed reconciliation. With `LateHandlers = TRUE` a
handler goes on after its client stopped waiting, which is what Cloudflare does.

| Run | Bounds | Shows |
|---|---|---|
| `activation` | two refreshes, two transactions with one run id, two hourly pointers, two faults | completeness, recoverability, rollback target, nothing undone or finalized is mistreated; `PublishedSnapshot` is implemented; the lock is released |
| `activation_late` | the same with late handlers, one fault, one question | the reader's view is of one commit |
| `activation_late_undone` (violation) | late handlers | a late commit promotes what was recorded as not committed |
| `activation_reconcile` (violation) | one fault | a journal that no reconciliation resolves |

Why the bounds suffice: every collision the code guards against is between two
transactions (its own and the one whose journal or objects it meets), and each recovery
path starts from one fault and is tested by a second one inside it.

Fairness: handlers run and answers are read (weak fairness of each handler and of the
client's replies), and the operator keeps confirming. `RefreshEnds` needs only that; it
does not assume that no call fails.

### TenantData

State. `marker` is the deletion epoch in force, `flag`, `conv`, `job` the private
records by epoch. A question is two concurrent flows of one event, as in the code:
`ans` is `generalAnswer` (read the history, ask the model, save), `rep` is
`processAuthorizedLineEvent` around it (capture the epoch, wait seven seconds, park,
complete later). `cmd` is a data command of any kind.

Actions. One KV call each, in the code's order: `tenantWriteEpoch` is read where the code
reads it, so what is stale in the code is stale in the model. `deleteTenantData` is
`Rotate`, `List`, one `DeleteKey` per key. `ReplyReference` is the LINE reply between the
pending record and the registration of its completion; when it fails (`CallFails`) the
record stays pending and nobody knows its reference. A `WorkerKilled` ends both flows.

Abstractions. The KV list returns what is stored (the code relies on rotation, not on
the list, for correctness; eventual consistency of the list is not modelled). A
conversation is the set of the questions in it; the cut to the last eight messages only
removes. `MarkerExpires` waits until the records of left epochs are gone: the comment at
`storage.ts:63-64` asks for exactly that; that the configured TTLs achieve it is not shown
(both may be one day; see the hazard at line 65). One tenant is modelled: keys carry the
tenant's id.

| Run | Bounds | Shows |
|---|---|---|
| `tenant_data` | one question, two commands, one failed call, one kill, two deletions | jobs stay deleted; a reported cancellation is true; a deletion leaves nothing in the epochs it left; `TenantJobs` is implemented; a parked job is decided |
| `tenant_data_erased` (violation) | one question, two commands | an old question enters the new conversation |

Why the bounds suffice: jobs of different questions have different keys, so one question
shows what can happen to its record; two commands give a deletion with another deletion
or a re-enabling around it. `JobErased`, `CancelledLeavesNothing`, `LeftEpochsEmpty` and
the refinement are proved for any number.

Fairness: a Worker that is not killed continues (its calls return or throw, the model
call has a timeout of twenty seconds). `PendingResolves` promises nothing once a Worker
was killed: it leaves its job pending until the record expires, as the code intends.

### FriendQaGate

State. `leases` and `count` are the object's storage; `waiters`, `wake`, `wakeAgain` its
memory; `req` and `outcome` each acquire request inside the object; `w` the Worker that
sent it. The minute and the day counter run through the same code and are one counter.

Actions. A storage transaction is one step; the code after its `await` is another
(`AcquireContinues`, `WakeGrant`, `WakeGaveUp`, ...), so timers, releases and other requests
come between. The waiting room is changed inside the transaction, as in the code, so a
waiter can be chosen before its own request continues. `AcquireLost` and `ReleaseLost` are
calls whose answer the Worker does not get in time; the request may still take effect.
`StorageFails` is a transaction that throws; `Evicted` the loss of the instance.

Assumption on time: a lease (40 s) is longer than the call it covers (28 s) and its
release, so `LeaseExpires` only concerns leases that nobody uses. It is what
`DEFAULT_LEASE_MS` is made of; a Worker suspended for longer is outside the model.

| Run | Bounds | Shows |
|---|---|---|
| `friend_gate` | two questions of one friend, one each of two others, two slots, limit one, one lost answer, one eviction, one new bucket | cap, limits, one place each, arrival order, no lost wake-up, leases handed back |
| `friend_gate_live` | two friends and the owner, one slot, one fault of every kind | every question is decided, every lease ends |

Why the bounds suffice: a race of the wake loop involves a candidate, a second waiter and
one who frees a slot; the per-friend rules involve two questions of one friend. The
proofs cover any number for everything but liveness.

Fairness: the object's and the Workers' code continues, timers fire, leases expire. No
fairness is assumed of calls arriving or of anything failing.

### GuidanceJournal

State. `disk` is what a read of the two slots returns, `platter` what is flushed; `lease`
the one lease there may be (the file is opened without sharing), `issued` its version
tokens, `at` the native request its commit has submitted. `told` and `acked` record what
callers were told.

Actions. `Open`, `Read`, `Commit`, `Conflict`, `Close` are the lease's operations; a commit
then goes through its eight requests (invalidate the older slot, flush, read back, write
the body, flush, write the magic, flush, verify), each of which completes
(`RequestDone`), fails and closes the lease (`RequestFails`), or is never answered and
quarantines it (`RequestHangs`, then perhaps `LateEffect`). `Killed` ends the process at
any point, `PowerFails` loses what was not flushed, wholly or in part.

| Run | Bounds | Shows |
|---|---|---|
| `guidance_journal` | two values, five versions, three tokens per lease, two power failures | acknowledged commits stay readable, no update is lost, no finished commit lacks a token; `DurableRegister` is implemented |

Refinement. `RegisterKept` maps the slot in force to the register's value and a journal
that does not parse to an unreadable register. A torn slot makes the journal unreadable
on purpose (`JournalRecoveryRequired`): the code never falls back to the other slot by
itself. `SlotKept` therefore says what matters to the person who repairs it: the
other slot holds everything acknowledged. It is stated up to the first power failure,
because a lease that was killed may leave its slot unflushed, and a power failure under
the next lease can then take both. What is never lost silently is covered by the
refinement, which allows power failures.

Bounds: a commit touches two slots and the version before it; two values and five
versions let each slot be overwritten more than once after it was in force. The proofs
cover any number of values, versions, tokens and failures.

### GuidanceUpdate, GuidanceCaptures, GuidanceHistory

State. `cur` is the generation the pointer names (per issuer: history, detections; and the
identity of the installed code that wrote it), `orphan` a generation file without a pointer,
`segs` the segment files, `queue` the issuer served last. `run` is what the running updater
holds in memory. `rows` are the checker's receipts, `published` what issuers have filed,
`version` the installed identity. `GuidanceCaptures` adds the accounting journal and the
two files of every capture.

Actions follow a run in the code's order. `Begin` is everything up to the first
publication: open the store, phase 0 (`AtEntry`), re-verification (`Reverified`), admission
(`Admission`), phase 1 (`AfterEntry`). `WriteGeneration` and `MovePointer` publish. Then one
issuer after another: `Skip`, `NoResults`, or `Detect`, which commits the event before
anything is fetched, `TakeTurn`, which writes the order, `Reuse`, `Fetch` and `WriteCapture`
for its documents, and `Decide`, `Fails` or `Exhausted`, which record the attempt. `Break` is
an error nobody expected, `Crash` a death between any two durable writes. `Check` and
`Install` are the checker and the operator. `Usable` is the reader: the issuer has a record
that the order model may use.

`known` is a history variable: the documents that a run which published took notice of
for an issuer, in phase 0 or in phase 1 (`Noticed`, kept in the run's field `seen`).
`NothingForgotten` says what becomes of them: each stays among the issuer's detections, or
these overflowed for ever, or a verified attempt accounts for it. `OldNumbersBarred`
compares `known` with the reader's decision.

The bytes a capture occupies are its byte places, `Content`: a set has as many bytes as its
captures have places. It is a sum written as the size of a set.

| Run | Bounds | Shows |
|---|---|---|
| `guidance_update` | one issuer, two releases and a page no release accounts for, one installation, any number of runs, checks and crashes | a record is not used past a later document; nothing noticed is forgotten; nothing is captured before it is committed; histories are audited and only grow; captures are counted and within the quota |
| `guidance_update_live` | two issuers, the first may break every run, the second's source never answers | the second is served |
| `guidance_update_blocked` (violation) | one issuer, two releases, an installation with an edited curated record | a later release is never tried |

Why the bounds suffice. Two releases give a predecessor and a successor, which is as far
as admission looks; the second identity reads another number in the first and refuses the
second, so re-verification re-decides, blocks or keeps. Segments of two attempts, an index
of two and two settled events make sealing, truncation and a full index happen within
few attempts; one retained row, two detections and small quotas make each of those limits
bite. The state is finite without a bound on crashes, runs or checks.

Fairness. The updater is scheduled again and again and a run that is not killed goes on:
weak fairness of `Step`, with its enabling condition written out (`CanStep`). Nothing is
assumed of the checker, of installations or of sources. `ServedInTurn` excludes that runs
are killed for ever other than by an error in the service of an issuer (`Break`), which is
the case the order of service is made for.

Simplifications. The plain state root only, not the capability lane (`B1Store`). Checks and
installations happen between runs: a run reads the receipts once at its start, under its
lock. Verification is a verdict that is a function of the captures, the identity and the
anchor of the predecessor, as the code requires of it (a stored producer is re-derived).
One results filing and one feed stand for the pages of an event; time horizons, page
sizes, the NBIS dialect and unsafe document identifiers are left out.

What the models show of this code besides, without a run of its own. A source that uses up
the budget before its first capture gets its place in the order back, so it comes first
again in every run, against the intent of the comment at
`scripts/revenue_guidance_autoupdate.py:957`; the live run therefore has no such issuer
(`Slow = {}`). A crash between the first generation file and the first pointer leaves a
root that every later run refuses (`Damaged`); it fails closed, and an operator must
clear it. A human review that finds a document irrelevant does not remove its detection
once that was committed for a curated record: only a verified release does.

## 3. Proofs

All theorems hold for every value of the constants that satisfies the named assumptions
of the module (numbers are naturals, `Nil` is none of the values, the owner is not a
friend, two bundles may share a run id or not, every capture has a size).

`ActivationProofs`. `TypeCorrect` needs `TypeInv`: a handler's transaction is the one in
its refresh's journal file, so handlers only run for refreshes that have one, and claims
read back were made by a refresh. `ViewIsSealed` adds `ReadInv`: what a reader has
collected so far is what the seal it pinned lists. Both hold with handlers that outlive
their requests.

Its second half proves the five safety properties of the transaction under the
hypothesis `LateHandlers = FALSE`; the run `activation_late_undone` shows that it is needed.
None of them is inductive. `SafeInv` says: one handler at a time, that of the refresh
holding the lock, and at most one unresolved refresh (`Exclusive`); the pointer is
`Settled` (traced to a finished refresh, or not an activation's) or `Pending` (the
unresolved one's, with its journal or finalized); only the unresolved refresh's bundle has
a rollback journal, and it names a settled pointer of another run (`UndoInv`), so writing
objects damages neither what is served nor what can be restored (`OtherRun`); and what each
program counter of commit, rollback and finalize knows. The decisive step is the
rollback's: it restores only when the pointer is of its run, hence pending, hence not of a
finalized refresh.

`ImplementsPublished` is the refinement of `PublishedSnapshot`, under the same hypothesis.
What is shown is what the store holds for the run the pointer names; what an undo would
bring back is the rollback journal of the served transaction. The promotion is the switch,
the restoring write the undo, the deletion of the journal by finalize keeps the
snapshot, the hourly publication is an edition. The other calls of all handlers,
their failures and the client's steps do not show: objects are written for another run than
the served one (`OtherRun`), and a settled pointer has no journal (`SettledSpare`).

`TenantDataProofs`. `JobErased` is not inductive. `JobInv` adds: epochs are drawn fresh and
no record lies under one not yet drawn (`Fresh`), a record is only under the epoch its
question captured (`OwnEpoch`), nothing is stored before the first put (`NothingYet`), a
question begun before a deletion has ended or captured an epoch that is not in force
(`ErasedInv`), and a question reported as cancelled has ended (`ToldInv`).
`DeletionIsComplete` has its own invariant `LeftInv`: while nothing has failed, every record
under an epoch that a deletion left has somebody on the way to remove it, the flow that wrote it and will look at the epoch
again, or a deletion that is about to list the keys or has this one on its list.
`MarkerExpires` is the step that makes an old epoch current again: its guard and `OwnEpoch`
are what the argument turns on.

`ImplementsTenantJobs` is the refinement of `TenantJobs`. A lookup shows the records under
the epoch in force; a question is open while it has not ended and the epoch it captured is
that one. Rotating the epoch is the whole deletion: listing and deleting keys afterwards
touches what is shown only where a question begun after the rotation has already put a
record, which the abstract module allows as an expiry (such a record can be lost). A put
shows only under the epoch in force, hence by an open question, and moves its record
forward: `Forward` says that a question about to write has a status its record has not
reached, and that a record is taken back only under an epoch that is not in force. The
check before a put, the one after it and the removal do not show.

`FriendQaGateProofs`. `IInv` adds to the properties: a waiter is an undecided request of a
friend that is still waiting (`RoomInv`); the loop's candidate holds a lease which no
Worker uses (`WakeInv`); a granted friend whose Worker may run the model has its lease
(`LeaseInv`); a waiter not yet charged has room under the limit (`RateInv`), which is why
checking at registration and charging at the grant is enough. `HandInv` and `WakeupInv` go
on top of it: until an eviction or a failure, a lease that was neither granted nor refused is the one the
loop is about to grant or hand back; and while a friend who could use a slot waits, the
loop runs, or will look again, or someone is about to call it. `ServedInOrder` is a step
property of the two actions that grant. `DropRoom` is the lemma on
the waiting room: dropping keeps all others, in order.

`GuidanceJournalProofs`. `IInv` adds to the four properties: a slot and what is flushed of
it differ in the magic only, or neither is valid (`Related`); should both slots parse after
a power failure, the newer one covers every version a caller was told (`NewestCovers`); a
commit in flight writes the older slot, at each of its eight requests in the state that
`Writes` describes, and the other slot holds what the caller expects to replace
(`CommitInv`). With that a kill, a failed request and a power cut at any request leave
either the old or the new authority, or a journal that does not parse.
`ImplementsRegister` is the refinement of `DurableRegister`. The request that makes the new
magic readable is the register's write, and so is a kill or a power failure in the middle
of that request which leaves it readable; a read, a refused swap and the end of a commit
tell a caller; an interruption that leaves a journal that does not parse breaks the
register, a power failure after it may mend it, and all other steps stutter.

`GuidanceCapturesProofs`. `StoreInv` says: the journal has its shape (`LedgerShape`), what
each stage of a write has done (`Writing`: a reservation is open only while its capture is
being written or after a run died in it), and the counts are those of what is on the disk
or reserved (`FilesExact`, `BytesExact`). Reconciliation is the decisive step: the
reservations that were never written are disjoint from what is. The bytes need a lemma on
`Content`: those of a capture that is not held are disjoint from all others', and their
number is its size.

`GuidanceHistoryProofs` has lemmas on one entry, for attempts from any set. `Sound` is what
its audit rests on: whole segments chained and stored, and an index whose locators lie in
the history, in order, at verified attempts. Appending, superseding a trailing wait,
withdrawing the newest producer and sealing all keep it; sealing keeps the history itself,
so a locator that moves from the open attempts into a segment keeps its place. `Later` is
what one attempt does to a history, `Stays` what any number of them leave of the published
one: all of it, but perhaps a wait that came last.

`GuidanceUpdateProofs`. `UpdateImplementsStore`: every step of the updater is a step of the
capture store or leaves it alone, so what is proved of the store alone holds in the
updater (`UpdateCounted`, `UpdateBytesCounted`). The rest follows from one invariant,
`UpdateInv`, whose parts need each other:

- `RowsInv` and `StoredInv`: what is on the disk has its form, and every published history
  is `Sound` for the segments that are there (`TypeCorrect`, `HistoriesPassAudit`).
- `RunInv`: so is every history a run holds in memory; sealing it writes the segments
  before the pointer can name them.
- `GrownInv`: a run's histories are the published ones and what it added (`Stays`), and
  equal to them when the run has nothing to publish. That is `HistoryIsKept`, because the
  pointer moves to what the run holds.
- `LeadInv`: the event being served is its issuer's own and is recorded in the run, and in
  the published history before the place in the order is taken. With `CommittedInv` this
  gives `CommittedBefore`.
- `CapsInv`: what a run captured for its event is on the disk, the capture being written
  apart, so the attempt it records references what is there.
- `QuotaInv`: the journal's count is at most what the run found at its start plus what it
  spent, which is what is compared with the quota (`QuotaRespected`).
- `SeenInv`: every document in `known`, and in the running run every document noticed,
  is `Covered`: detected, or the detections overflowed, or accounted for by a verified
  attempt. What a run takes off the detections, the producer it admits accounts for, and
  that producer stands in the history at the place the index gives; verified attempts stay.
  This is `NothingIsForgotten`.

The choice of the oldest event and the cut of too many detections are `CHOOSE`s;
`OldestIsOne` and `DetectionsAre` show that there is something to choose.

`GuidanceBarredProofs` proves `OldNumbersBarred`, the reader's bar: a record is not used
when a publishing run has seen a later document of the issuer. It does not hold for
every value of the constants. The theorem has two hypotheses, and neither follows from
the code:

- `ReleasesInOrder`: what a release proves to be its own is dated before the issuer's next
  release. It is a statement about filings. A verified release accounts for what it
  proves; if the next one could be filed before a document that the earlier one proved, the
  later producer would not account for it.
- `OlderReadingsStand`: an installed identity that withdraws a release (refuses what an
  earlier identity read) leaves the readings of the issuer's older releases as they were,
  then and later. It is a demand on who changes the verifier. Without it the bar fails.
  Let three identities read, refuse and read again the first release, and read, read and
  refuse the second. While the first release is the producer and alone, the checker keeps a
  row that starts at it and lists nothing later. The second identity withdraws it and
  verifies the second release; the third withdraws that and verifies the first anew, and
  the old row counts again: the record is used although the second release has been seen.
  TLC finds this when the instance is given these readings.

TLC checks that the instances meet both (`InstanceHypotheses` in `MCGuidanceUpdate`), and not
emptily: their second identity withdraws the second release and reads another number in
the first. While no identity refuses what one before it read, the second hypothesis holds by
itself (`BarredUnlessWithdrawn`).

The inductive invariant is `OldInv`, on top of `UpdateInv`. Whether the bar holds is decided
by verified attempts that the index, cut to its limit, may no longer locate, so the
invariant says what becomes of them: the located events ascend in days, and a verified
event that is not located was refused by a later identity (`Refuted`) or is older than all
that are (`Explained`; `OldStored` for the published histories, `OldRun` for those in
memory). `BarsLater` says of the checker's rows: one that starts at the event verified last
lists every later event that was ever verified; `OldRows` that they list what is out and
start at verified events. `OldOrder` and `OldLead`
bound what a run may still append: the events in its order of service are older than none
that is located, which is what keeps the index ascending. In the final argument
(`UsableLeavesNothing`) a document of `known` is accounted for by a verified event of the
history, by `NothingForgotten`'s invariant; if that event is not after the producer, the
releases' order makes the producer account for the document too; if it is, the producer's
row lists it, and admission refuses.

Only model-checked:

- liveness (`RefreshEnds`, `PendingResolves`, `Decided`, `ServedInTurn`) and fairness, out of
  reach of the prover;
- that the instances' releases and identities meet the two hypotheses above.

## 4. Findings

1. A commit interrupted between the rollback journal and the pointer cannot be
   reconciled: rollback refuses with `V213_ACTIVATION_ROLLBACK_POINTER_MISMATCH` for
   ever, and every later refresh is refused (`ReconciliationDecides`).
2. A commit that outlives its request can promote the pointer after rollback answered
   `not_committed` (`UndoneNotServed` with late handlers).
3. `generalAnswer` saves the conversation without the epoch captured for the question: a
   question older than a deletion can enter the new conversation (`ConversationErased`).
4. An issuer whose stored producer is still reproduced, but whose predecessor changed
   (an edited curated record), is refused by admission in every later run before its
   events are looked at; the documentation says that a later results release can still
   renew it (`LaterReleaseTried`).

## 5. Plan

| Step | Module | Content | Runs and theorems |
|---|---|---|---|
| done | `Activation`, `TenantData`, `FriendQaGate` | sections 2 and 3 | eight runs, twenty theorems, two refinements (both proved) |
| done | `GuidanceJournal`, `GuidanceCaptures`, `GuidanceHistory`, `GuidanceUpdate` | sections 2 and 3 | four runs, nineteen theorems, two refinements (both proved) |
| 1 | `SealedSync` | hourly publisher: attempts, retries, ledger, TTL reuse, verification, pointer last | a served pointer's blobs exist and outlive it; retries are idempotent; refines an abstract "publish atomically" |
| 2 | `Broadcast` | dedupe claims, quota reservation, lost and ambiguous LINE answers, cron overlap | at most one push per edition; the free quota; an abstract "send once or not at all" |
| 3 | `LineEvents` | claim, complete, release of webhook events with redelivery; pairing | at most once unless failed; one use per code; composes with `admit` |
| 4 | `FriendQaGate` | retried transaction callbacks, `admit`, `jobWrites` | the retry keeps one decided place at most |
| 5 | `FreeRelay`, `QaCapacity`, `Gateway` | route claims, lease files, generation slots | one holder; slots returned |

## 6. Not modelled

The acquisition, parsing and scoring of research data, report text and formatting, and
the launcher's user interface transform data sequentially; their correctness is about
content. Cryptography (signatures, encryption, hashes) is taken to work: a signed request
comes from the client, a decrypted record is the one stored. Legacy unsealed snapshot
views and the earlier activation versions are not modelled, nor how the guidance verifier
extracts numbers from a filing. The remaining components and
the reasons are in `PROJECT.json`.

## 7. Running

    tlc -config Activation.cfg MCActivation
    tlc -config TenantData.cfg MCTenantData
    tlc -config FriendQaGate.cfg MCFriendQaGate
    tlc -config GuidanceJournal.cfg MCGuidanceJournal
    tlc -config GuidanceUpdate.cfg MCGuidanceUpdate
    tlapm ActivationProofs.tla
    tlapm TenantDataProofs.tla
    tlapm FriendQaGateProofs.tla
    tlapm GuidanceJournalProofs.tla
    tlapm GuidanceCapturesProofs.tla
    tlapm GuidanceHistoryProofs.tla
    tlapm GuidanceUpdateProofs.tla
    tlapm GuidanceBarredProofs.tla

`PROJECT.json` names the module and the configuration of every run. Deadlock checking is
off in all of them: when all refreshes, questions and commands have ended and the fault
bounds are used up, the system rests.
