# A TLA+ verification of the ShardPilot Go SDK

The SDK is a client library: a host process calls `Track`, `Enqueue`, `Flush`,
`SetConsent` and `Close`, and a worker goroutine batches events and sends them
to an ingest service. What makes it hard is consent. A denial has to stop events
that are queued, batched or already on the network; under the opt-in *consent
floor* a decision has to survive crashes, failing writes and damaged files, and
its receipt has to reach the consent service ahead of the events it allows. The
opt-in *disk spool* keeps what could not be sent for the next start, and must
forget exactly what a denial or a withdrawal condemns. Around this core, remote
config and experiments keep caches and records of their own that late answers,
other processes, withdrawals and failing writes must not corrupt.

This directory holds the models of that core, the TLC configurations that check
them, and the TLAPS proofs. `PROJECT.json` maps every definition to source
lines and lists runs, mutants, hazards and theorems.

## 1. Inventory of the system

| Component | State | Operations | Interacts through |
|---|---|---|---|
| event pipeline (`client.go`, `queue.go`) | bounded queue, worker batch, `seenConsentEpoch`, counters, `trackWG` | `Track`, `Enqueue`, `Flush`, worker loop, `publishRequestResult` | queue channel, `lifecycleMu`, consent atomics, `consentGate` |
| consent decisions (`consent.go`) | live state, epoch, gate, tickets | `SetConsent`, `SetConsentDecision` | drains the queue, cancels the gate, calls record and outbox |
| receipt trail (`consent_outbox.go`) | mirror of `consent-outbox.json`, dirty flag, owed keys, settled keys, dispatch claim, deferral | mint, append, prune, dispatch pass, retries, restart, close verdict | record, spool wipe, consent service, event gate |
| decision record (`consent_record.go`) | `consent.json`, unwitnessed mark | load, save, mark | restart of the floor |
| disk spool (`spool.go`, `analytics_retry.go`) | entries, file, resend list, owed wipe, retry deadline, withdrawal marker | append, ack, resend, purge, load | worker, decisions, experiments |
| retry pacing, close (`client.go`) | `deferUntil`, back-off streak; `closeErr`, `closeExpired` | `applyRetryPacing`, `Close`, `finishClose` | worker, all lanes |
| default consent sender (`consent.go`) | channel of 16 | `enqueueConsentPublish`, `consentSender` | decisions, close |
| remote config (`remote_config.go`) | snapshot, cache file, settled sequence numbers, cooldown | `FetchRemoteConfig`, install, clear | other processes through the cache file |
| experiments (`experiments.go`, `experiment_*.go`) | entries, durable record, owed exposures and outcomes, withdrawal epochs, auth latch, subjects | fetch/settle, apply, seal, withdraw, sweep | queue, spool, consent, close |
| crash reporter (`pkg/crash`) | breadcrumbs, sampler | `Emit`, `post` with retries | network only |
| consent policy (`internal/consentpolicy`) | none | verify, plan | decisions |
| transport, envelopes, config, tokens, identity file | none or one file | encode, send, sign | all of the above |

What is hard in it, and the properties that make each part correct:

* **Pipeline**: the denial's drain, the worker's receive and a flush's discard
  take from one channel; the worker holds events that a drain cannot see; a
  publish is on the network while consent changes. Correct means: every event is
  counted exactly once; a batch never spans consent epochs; a denial aborts
  what is in flight; nothing accepted after a re-grant is lost with stale
  events; every event leaves in the end.
* **Decisions**: the fast half runs before the slow half of an older decision.
  Correct means: a denial is never overtaken by a grant.
* **Floor**: two files and a remote service are written one after the other, and
  each write may fail or be cut off by a crash. Correct means: no superseded
  grant is ever in force or restored, a durable denial and a recorded grant
  survive, receipts are delivered in order and in the end, events follow the
  grant, `Close` reports success only when the files restore the decision.
* **Spool**: every operation is a chain of file operations that may each fail or
  half succeed, and the worker holds copies the spool cannot reach. Correct
  means: what was counted as spooled is on file until its outcome, file and
  mirror agree, and what was settled, evicted, withdrawn or purged never returns.
* **Pacing**: one timer, one deadline and one signal serve the worker's own
  failures, the successes of `Track` calls and the deadline of an earlier
  process. Correct means: no retry is missed between a check and the select, and
  no event waits behind the deadline of work that is gone.
* **Close**: several `Close` calls with contexts of their own share one teardown
  and its verdict. Correct means: every call returns, success means that
  everything has ended, and no stored verdict hides a loss.
* **Default sender**: a bounded channel from which producer and consumer both
  take. Correct means: the service ends up with the newest decision.
* **Remote config**: overlapping fetches and other processes settle in any
  order. Correct means: values that were withdrawn stay closed, the getters do
  not go back, a 304 is never served from another target's body.
* **Experiments**: an assignment, the facts it caused and the key they are
  withdrawn by live in memory, in a record, in the queue, in the worker, in a
  request and in the spool. Correct means: what a verdict, an age refusal, a
  sentinel or a denial has ended is not served, installed or sent afterwards,
  whatever was under way; and what was promised to be stored is on file.

## 2. Modules

| Module | What it is |
|---|---|
| `EventPipeline` | the event path and the consent decisions racing with it, default configuration |
| `MCEventPipeline` | its instances for TLC |
| `EventPipelineProofs` | type correctness, the accounting of events, the order of decisions, the gate, the epochs |
| `ConsentFloor` | decisions, record, trail, dispatch, crash and restart of the floor |
| `MCConsentFloor` | its instances for TLC, callers symmetric |
| `ConsentFloorInvariants` | the inductive invariants of the floor, in layers: `Base`, `Denials`, `Floor`, `PairInv`, `Deliver`, `Undec`, `Gate`, `Clean`, and what each kind of step does (`Shrinks`, `Appends`, `Mints`, `Restarts`...) |
| `ConsentFloorProofs` | every step keeps them; the trail stays in order and is delivered in order; no grant comes back past a denial, or leaves ahead of one; a durable denial and a recorded grant survive; events wait for the grant's answer |
| `DiskSpool` | the disk spool with its files, the worker that feeds and resends it, decisions and withdrawals |
| `MCDiskSpool` | its instances for TLC: events with ids of their own (symmetric), or two generations of one id |
| `RetryPacing`, `MCRetryPacing` | when the worker retries |
| `RetryPacingProofs` | its types; no deadline without work |
| `ClientLifecycle`, `MCClientLifecycle` | `Close`, the goroutines it ends, the default consent sender |
| `ClientLifecycleProofs` | its types, the refinement of the register, losses reported, clean means complete |
| `ConsentRegister` | abstract: what the default sender promises the service; `ClientLifecycle` implements it |
| `RemoteConfig`, `MCRemoteConfig` | fetches of several processes over one durable record |
| `RemoteConfigProofs` | its types; withdrawn values stay closed; a 304 keeps to its target; getters are not turned back |
| `ExperimentAssignments`, `MCExperimentAssignments` | fetch and settlement of assignments in memory |
| `ExperimentAssignmentsProofs` | its types; late answers neither revive nor install; a declared minor is not served |
| `ExperimentStore`, `MCExperimentStore` | their durable record, the owed writes, the history of fact keys |
| `ExperimentStoreProofs` | its types; ended assignments stay gone; leftovers are owed their removal; the keys of facts are known |
| `ExperimentFacts`, `MCExperimentFacts` | applications and facts, from the call to the service |
| `ExperimentFactsProofs` | withdrawn facts are never sent; stored applications are on file; copies share their receipt |
| `ExperimentSubject`, `MCExperimentSubject` | a handle with a consent of its own, and its facts |

Each module states the state of its component in full and that of its
neighbours as far as it sees them: the worker appears in six of them, with its
batch in `EventPipeline`, its spool in `DiskSpool`, its clock in `RetryPacing`,
its end in `ClientLifecycle` and the facts it carries in the two experiment
modules. The types of every module are its `TypeOK`. They are proved for the six
modules with a theorem `TypeCorrect`; in `ConsentFloor`, `DiskSpool`,
`ExperimentFacts` and `ExperimentSubject` they document the variables, and adding
`TypeOK` to the `INVARIANTS` of a configuration checks them. (The proved
invariants of `ConsentFloor` and `ExperimentFacts` start with types too, without
the bounds that only the instances have.)

### EventPipeline

One `SetConsent` caller is a *decider*. A denial's fast half runs under
`lifecycleMu`, but the worker and in-flight publishes do not take that lock, so
it is five steps: `Deny` (store), `DenyEpoch`, `DenyGate`, `DenyDrain` (one
receive each), `DenyUnlock` (count and unlock). Its slow half, `DenySlow`,
concerns the event path only through the ticket. A grant is `Grant` (ticket and
epoch snapshot) and `GrantStore`. `Enqueue` and the check of `Track` are whole
critical sections. `publishRequestResult` is the same three steps for the worker
and for each `Track` call: `LoadGate`, `SendRequest`, and an outcome
(`TrackPublished`, `BatchRefused`, ...). The worker's loop, its receives, ticks,
`publishWorkerBatch` and `flushAvailable` are one action per stretch between two
reads of shared state.

Abstractions: an event is an identity and its intake epoch; "denied" stands for
both denied states; retry pacing is a choice (a tick may happen or not, a full
batch may publish at once or wait); the consent floor, the spool, experiment
facts, held-for-age events and oversized events are off, as in the default
configuration, where these calls do nothing; the consent sender that the slow
half feeds and `Close` are in `ClientLifecycle`, retry pacing in `RetryPacing`.

### ConsentFloor

A decision's key identifies both the decision and its receipt. `Decide` is the
fast half; the slow half is `BeginGrant`, `MintReceipt`, `GrantRecord`,
`FinishDecision` for a grant (receipt first) and `BeginDenial`, `MintReceipt`,
`FinishDecision` for a denial (record first). A dispatch pass retries the owed
mint, the owed trail write and the owed record (`RetryMint`, `RetryPersist`,
`RetryRecord`), takes the claim, and then picks, re-checks, posts and settles
receipts one by one; `EventLeg` is the gate behind it. `Crash` forgets all but
the files; `DamageFile` makes a file unreadable, wholly or in one receipt;
`Restart` is `initConsentFloor` with its healing, marking and withholding rules.
Every write takes a Boolean that says whether it succeeds.

Three history variables state the properties: which decision each key was
(`kind`), which keys were ever on disk (`wit`), which this process took
(`mine`). A decision that dies with the process before any write is, rightly,
not the newest decision any more.

Abstractions: one scope and one configured, valid actor; records written by the
floor; the memory of settled keys is unbounded (256 in the code); stamps are
numbers; `RetryMint` appends the receipt and marks it in one step (the code
holds the decision lock over both); the size limit of the file and the
sanitising of notice metadata are left out; a joining pass that waits for the
claim is a pass that starts later; the holds of a receipt are evaluated in one step
of `NextReceipt` (the code reads them one after the other; those that matter are
read again in `RecheckGrant`); the length of a deferral is not modelled,
only that it ends. The consent service, process death and file damage are
external and are modelled from how the code deals with them: the service records
a key once, or refuses it for good, or does neither; its answer may be lost.

### DiskSpool

An event is an envelope and `IdOf` its `event_id`. `mem` is the `diskSpool`
struct and `disk` its directory: the append log with its deadline, the wipe
marker, the withdrawal marker and the decision record. The methods of
`diskSpool` run under its mutex and so are operators; each yields the *set* of
its possible results (memory and directory afterwards, capacity reports,
newly counted events, error, failed file operations), because any file
operation in it may fail. A failed write may have landed all the same: the
rename went through and the directory sync failed, or the log bytes were written
and the sync refused; a failed append may also leave a torn line, which swallows
the next record. `Then` runs one operation after another.

The actions are the stretches between which the lock is free: the worker's
`PullChunk`, `SendChunk`, `SendBatch`, the outcomes of a request
(`...Settled`, `...Retryable`, `Aborted`), `Tick` (`spoolMaintain`),
`CloseRemnant` and `CloseExit`; `Withdraw`, the sentinel's sweep; and
`applySpoolConsent` in the order of its writes (`DenyRecord`, `DenyOwe`,
`DenyRetry`, `DenyDestroy`, `DenyPurge`, `Grant`, `GrantRecord`). A handoff
first puts the changed retry clocks of spooled members on file
(`persistDelivery`); when that fails the request does not leave
(`chunkUnsent`, `batchUnsent`), and while a wipe is owed it is refused as a
denial. `Crash` can come between any two steps; `Restart` is `initSpool`.

History variables: `promised` (counted in `Stats.Spooled`, no outcome yet),
`condemned` (purged by a denial), `inHand` (held by the worker when a
denial took effect), `withdrawn` (with durable proof), and `residual`: the code
admits that a denial whose record, marker and removal all fail leaves nothing
behind.

Abstractions: the byte cap and the compaction threshold (the count cap
stands for both caps, a compaction may follow any append); the limit of 4096
on settled ids; other writers of the directory, damaged files and a directory
that cannot be made private; the values of retry clocks (an event expires at any
time, a clock may have changed or not); stored applications and age holds; the
actor check; the floor is off and one `SetConsent` call runs at a time (the
order of concurrent decisions is `EventPipeline`'s subject).

### RetryPacing

`pace` is the worker's `deferUntil`, its failure streak and
`workerPacingFromRestore`. `Top` is the loop up to the timer, `Arm` computes
`nextPacingWake` (a step of its own: a deadline may pass between the two), and
the `Select...` actions are the cases of the `select`. `Paced` is
`applyRetryPacing` by kind of outcome; `Reconciled` is
`reconcileSpoolWithdrawal`. A `Track` call counts its success in one step and
signals it in the next, as the code does.

Abstractions: time is a deadline that passes at some moment; the batch is empty,
fresh or held behind the deadline; the spool has work or has not. The consent
plane's share of the timer, its wake and `consentGatedResendParked` are left out.
`everDenied` and the `held` mark of the batch serve the property only.

### ClientLifecycle and ConsentRegister

Each `Close` call goes through its waits (`waitForTracks`,
`waitForConsentDecisions`), then either waits for the one in flight, returns the
stored verdict, tears down (`FinishBegins` to `Conclude`), or drains again after
a retryable verdict (`Redrain`, `AwaitLanes`). Its context may end at any moment
(`ContextEnds`), and each wait has its own way out. An error is the set of the
errors joined so far: `ctx`, `flush`, `gated`, `pending`, `lost`. In the default
mode a decision is handed to the sender in the two selects of
`enqueueConsentPublish`, separate steps, since the sender takes from the channel
between them.

`ConsentRegister` is what the service, which keeps the last decision it is told,
relies on: decisions are told in the order in which they were taken, each at
most once, older ones may be skipped, and the newest is told in the end.
`ImplementsRegister` is the refinement: `decided` is the tickets given out (none
under the floor), `told` the last decision handed to the transport.

Abstractions: the worker holds work or does not, and a publish is one step; a
busy sender is one that has not yet taken the next decision; the host's own
`Flush` calls and the sweeps of owed experiment facts around the final flush are
left out; a failed request of the sender is only logged, as in the code.

### RemoteConfig

A fetch is `Begin` (sequence number), `Dispatch` (adopting a newer record of
another process, choosing the validator), `Answer`, and one settling action per
kind of answer; an install that has to write is cut in two, `Install` and
`WriteOK` or `WriteFailed`, because the mutex is released for neither but another
process may write in between. `file` is the record the processes share. The
service publishes, unpublishes and refuses at any time (external).

Abstractions: a document is its version, an attribute set its target; there is a
cache path (without one nothing is durable); the
cooldown is a window that ends; the record's stamp comes from a small set of
clock values. `spoiled` marks that a write failed, raced with another process's
or replaced or cleared a record: then `NoGetterRollback` says nothing.

### ExperimentAssignments

A call is a host fetch, with a declared age or without, or the lane's
revalidation. It takes a sequence number, is dispatched, answered, and settled in
`Settle` by the operators that follow `settleExperimentFetch` and
`installLocked`: refused across a change of consent (`Refused`), of another
subject (`Current`), fenced by a newer answer (`Fenced`), stale against a
withdrawal (`Fresh`). Re-mint, the auth latch with its retained entries, the
sentinel, age refusals and the end of a declaration are actions of their own.

Abstractions: an assignment is its sequence number, its subject and whether it is
age-gated; the capture of the consent epoch is merged with the declaration; a
failure to mint a subject is left out, and the rollback of a first mint equals
its refusal.

### ExperimentStore

`mem` and `kept` are what is served and what the latch retains; `pend` and
`clear` are the owed syncs, drops and clears; `disk` is the record with its
tombstone; `mir` and `ret` are the known fact keys. A write is a job between
`StartSave` and `SaveLands` or `SaveFails`, and a process that restarts in between
finds either record. A scope is numbered when its subject is minted, and a
number is never used again, as the subject's identifier is random. `emitted` are
the facts in the pipeline, until they are settled or a clear forgets every key;
`given` is what a caller may still build a fact from. A re-mint may leave the subject
file as it was, or written with a failure reported; `PersistSubject` writes it later.

Abstractions: a re-mint that a denial undoes at its commit point, with the removal
of the new subject file and the tombstone it may leave (`experiments.go`
4171 to 4215), is not a step here; `ExperimentAssignments` has it as
`RemintRevoked`, without the files.

### ExperimentFacts

The way of an application: owed (`ApplyVariant`, `TrackPoint`), stored, sealed on
the network, replaced on file by its fact (`Handoff`), queued (`Enqueue`),
received, built into a request, re-checked and handed to the transport (`Send`),
failed and spooled again, resent in a chunk, or held for a pending age. Against
it run the denial with its re-arming of owed points, the key withdrawal with
its marks and their pruning, the sentinel with its purge sweep, a failing write
and a crash.

Abstractions: one experiment, one subject and one fact key; the head of the sweep
and the following region under `e.mu` are one step, as are the answer to a seal
and what follows it, the re-check of a built batch and its handoff to the
transport, and the two halves of a denial; failures of the spool's removals are
`DiskSpool`'s; oversized events, foreign scopes and an unsaved fact key are one
kind of refusal.

A consent drop of a point is counted against its receipt, the
`pointConsentReported` flag behind the `eventDelivery` pointer, and it is
counted once only if every copy of the point holds the same pointer. `receipts`
says which pointers exist: `issued` numbers those made for an application
(`newEventDelivery`, once per owed record, per re-armed record and per entry a
start loads), `stored` is the one of its spool entry, and the field `rc` the one
of any other copy. Each leg that makes a copy takes the receipt where the code
takes it: the spool entry of a handoff or a capture from the record, the queued
fact from the emission in place of the one `prepareEvent` has just made
(`AttachedWith`), a respooled entry from the envelope of the request, and a
restored application and its entry from the load. Two drops count twice when they
spend different receipts, so `spent` is the set of the receipts spent, and
`ConsentDropCountedOnce` says that no two of them are of one application.
Receipts and counters belong to the process and start over with it. Left out: a
client without a spool, whose owed records have no receipt yet
(`experiments.go` 3352), and `persistDelivery`'s update of the mirror's pointer
(`analytics_retry.go` 79), which gives the entry the receipt of the copy on its
way, here the one it has.

A write of `replaceApplication` that reports failure may have landed
(`Replaced`); the mirror is rolled back all the same and the file is ahead of it
until the next write, or a start finds the fact in the intent's place.
`spared` exempts the facts that a failed request was respooling when a sentinel
landed, a residual that the code documents (`experiment_facts.go` 1047).

### ExperimentSubject

The handle `h` with its entries, declarations, owed points and withdrawal
numbers; the `plane` with its sentinel and purge generations and the latch; the
`client`'s consent; fetches; the delivery passes of the lane and of `Close`,
which share one slot; and the worker's copies of the handle's facts. A fact is
stamped with the number of the handle's last withdrawal before the check that
lets it into the queue, so a withdrawal that comes later covers it.

Abstractions: a pass that goes on to the next point is a new pass; a handle's
facts are never spooled, as in the code (`spool.go` 2232). A client denial, and
a re-grant after it, may come between the check of `commit` and its enqueue
(`ClientDenies`): the fact then leaves although the denial has counted it, see
the limits below, and `ClientDenies` therefore does not declare the ids that are
between the two (`InHand`) withdrawn.

## 3. Runs

| Run | Instance | Shows |
|---|---|---|
| `pipeline` | 2 deciders, 1 tracker, queue 1, batch 2, 2 calls, 3 decisions, fairness | the safety of the pipeline, and that every accepted event leaves it |
| `floor_faults` | 2 callers, 3 decisions, forced minor too, trail of 2, 1 fault, 2 crashes, 1 damaged file, retryable answers and aborted attempts | what is in force, restored, delivered and let through follows the newest decision |
| `floor_live` | 2 decisions, trail of 1, clock that jumps, 1 fault, 1 crash, refused and lost deliveries, fairness | stamps in decision order; denials are delivered in the end |
| `spool_faults` | 3 events in a spool of 2, 3 decisions, 3 faults, 2 exits | counted events are on file, file and mirror agree, denials are final |
| `spool_live` | 2 facts under one id, 1 sweep, 1 decision, 1 expiry, 2 faults, 1 exit, fairness | withdrawals are terminal; every counted event gets its outcome |
| `remote_config` | 2 processes, 3 fetches of which 2 overlap, 2 targets, 2 versions, 2 changes around them | withdrawn values stay closed, no rollback, no body of another target |
| `exp_store` | 2 experiments, 2 installs, 2 subjects, 2 faults, 2 withdrawals or restarts | ended assignments stay gone, debts are kept, fact keys stay known |
| `exp_assignments` | 2 experiments, 2 host calls and the lane, 3 sequence numbers, 1 outside event | late answers revive, install and hand out nothing |
| `exp_facts` | 2 applications, queue of 1, 1 denial, 1 withdrawal, 1 fault, 1 crash | withdrawn facts are not sent, stored ones survive, copies of a point share the receipt against which its drop is counted |
| `exp_subject` | 2 experiments, 2 points, 2 fetches, both passes, queue of 1, 1 outside event | the same for a handle |
| `lifecycle` | 2 `Close` calls, 1 `Track`, 2 decisions, channel of 1, floor on and off, fairness | clean means complete, losses reported, every `Close` returns, the register is implemented |
| `pacing` | 2 `Track` calls, fairness | no missed retry, no inherited deadline |

*Why the bounds are enough.* Two deciders and three decisions allow
deny/re-grant/deny around any step of a third party, and a grant overtaken by a
denial in its ticket wait. A queue of one and a batch of two give the full queue,
the full batch, the partial batch and a receive that steals from a drain; two
events in the queue at once are left to the theorems of `EventPipelineProofs`,
which hold for every bound. In the
floor three decisions allow a grant between two denials and the reverse; a fault
and two crashes let a write fail, and a restart itself be cut off before its
repairs. A trail of two overflows with three decisions, one of one with two. One
dispatch pass at a time is checked: with the worker's and a `Track` caller's pass
racing for the claim the instance is too large for these bounds. In the spool
three events overflow a mirror of two; three faults are the record, the marker
and the record's retry of one denial; two exits let a restart be cut off before
its own rewrite; three decisions are grant, deny, grant, the shortest way to
revive what a denial purged; two facts under one id are the two generations a
merge must tell apart. In the remaining modules two overlapping calls are what
it takes for answers to cross, and a bound of one or two outside events
(`MaxTurns`, `MaxDenials`, ...) places a withdrawal, and a return from it, between
any two steps; two `Close` calls are an owner and a waiter that becomes the
owner, and a channel of one overflows with two decisions. Deadlock is checked
except where the instance may rightly stop because its bounds are used up or the
client is closed (`CHECK_DEADLOCK FALSE`).

*Fairness.* For the pipeline: the worker goroutine runs; a `select` whose ticker
or queue is ready again and again takes it in the end (Go's `select` chooses
uniformly), hence strong fairness of `Tick` and `Receive`; started decisions
finish; and, as an assumption on the service, a batch that is sent again and
again is accepted once (strong fairness of `BatchPublished`). For the floor:
started decisions finish, the worker's passes recur with its ticker and wakes, a
deferral ends, and a service that is asked again and again records or refuses a
receipt. For the spool: the worker's steps and its ticker run, a started decision
finishes, a closing process exits and the host starts it again (weak fairness),
and a request that is sent again and again is accepted once (strong fairness of
the two deliveries). For lifecycle and pacing: every goroutine that can run does,
every HTTP attempt ends because the transport bounds it by `HTTPTimeout`, and
the cases of a `select` are chosen at random; nothing is assumed of contexts, of
the flush ticker, of new events or of the passing of deadlines. No fairness is
assumed of callers, crashes or faults.

*Hazards met only in part.* Some hazards of the list in `PROJECT.json` are larger
than the instance that stands for them.

* Ids used again: the two envelopes under one id are in `spool_live`, whereas
  `SpoolInSync` is checked in `spool_faults`, where every event has its own id.
  (It was checked once on the instance of `spool_live` as well, and holds.)
* The withdrawal marker that comes back after it was spent: `spool_faults` has no
  facts and no sweep, and `SpooledSurvives` leaves such a second generation out,
  as the code does lose it, see below.
* The owed wipe: in `spool_live` the one decision is the grant that opens the
  spool, so a wipe owed while events wait is only in `spool_faults`, where
  `CondemnedNeverLoads` states what it must not let through; that it is retried in
  the end is not checked.
* A handoff that doubles an exposure: nothing says that an application is sent at
  most once. It is not so: a batch whose answer was lost is sent again, and the
  service removes duplicates by the event id, which every copy keeps.

Every property of these runs has a mutant: a faulty variant of one definition (named next to
it in the module) under which the same run finds the property violated.

### What the models showed about the code

Where the code does something else than its comments or documents say, the
properties above carry the exception in their statement; lifting it reproduces
the trace.

*Events across a deny and a re-grant.*

* A pre-denial batch can be published. The worker settles the epoch, then loads
  the gate (`client.go` 2015). A denial *and* a re-grant in between leave consent
  open and the gate new, so neither the re-check nor the cancellation stops the
  old batch. `CHANGELOG.md` 1458 says "events from before a denial never publish,
  even across a later re-grant".
* A flush can discard fresh events. The denied branches of `flushAvailable`
  (`client.go` 1650, 1732) drain the queue without looking at the epoch of its
  events; after a quick re-grant these are new. The comment on
  `drainQueueAdmitted` sets out to avoid exactly this loss.
* A condemned chunk can be resent. A chunk pulled before a denial is checked
  again for withdrawn facts and age, not against the mirror (`spool.go` 2609):
  after a purge and a re-grant it leaves under the new gate. `spool.go` 3065 says
  "Events a denial condemned must never resend, whatever decision follows."
* A counted point can still be sent: between the handoff of an application and
  its enqueue (`experiment_facts.go` 298), and between the check and the enqueue
  of a handle's `commit` (`experiment_subject.go` 942), a denial and a re-grant
  count it as withdrawn and let it through.

*Retry pacing.*

* Fresh events can wait behind a stale Retry-After. `admitReceivedEvent` drops a
  condemned batch and its streak but not the deadline, and a denial that purges
  spool-only work leaves it armed too; the loop clears it only when it finds the
  batch gone itself (`client.go` 956). The comment there names the case as the
  one to avoid. `FreshNotDeferred` therefore excludes runs with a denial: without
  one, a batch of fresh events never coexists with a deadline.
* Events that joined before a withdrawal inherit the withdrawn chunk's deadline
  (`client.go` 937).
* A flush that the receipt gate holds back consumes a `Track` success without
  ending the deferral (`client.go` 1343): the next success ends it.
* The comments on `applyRetryPacing` and `backoffDelay` (`client.go` 1326, 1466)
  say that the first failure arms no delay; the code gives it one second.

*Close.*

* A deadline that ends the final `Flush`, or the drain of the outbox, is stored
  without `closeExpired` (`client.go` 807, 871): later callers with live contexts
  get the first caller's deadline as their verdict, against the comments at 729
  and 750.
* When the final flush is refused by the receipt gate or an age hold, that error
  masks an expiry and is then replaced by the drain's verdict (`client.go` 824,
  872): `Close` may return nil while the worker still runs.
  `CleanCloseIsComplete` excludes such runs (`gated`).

*Floor and spool.*

* After damage, delivery can be out of decision order: unprovable grants are
  skipped while later denials are delivered; a fresh decision lifts the block
  and the grant follows them. It takes four decisions. `DeliveryInDecisionOrder`
  states that nothing but a grant after damage comes late; `floor_faults` has
  three decisions, and an instance with four (one caller, no failed writes,
  two crashes, one damage) was checked once and passed too.
* `SpooledSurvives` leaves out a second generation of a withdrawn id. When a
  withdrawal leaves its marker but no record (both writes of the record failed),
  `load` returns at the missing record without reading the marker; a fresh fact
  under the same id is then spooled and counted, and the start after that
  discards it.
* A deferred eviction is not promised: a rewrite that lands and then fails to
  sync has removed the event already, while its report waits for the next
  rewrite; an exit in between loses it without a report.

*Experiments.*

* An owed drop does not always outrank the entry it resolves
  (`experiments.go` 2703): stamped by a clock that jumped back, its retry may
  leave the entry, and only the next withdrawal removes it.
* A fact can be kept before the record that holds its key has landed
  (`experiments.go` 2154, 2218); a crash then leaves a fact whose key no
  withdrawal finds. `FactKeysKnown` covers a restart only for keys on file.
* A retried clear can forget keys that facts still carry. `clearDurableRecordLocked`
  drops the whole history because "the real-subjects sentinel withdraws the keys
  and every fact that carries them" (`experiments.go` 2259). `retryDurableSync`
  also retries a clear that `preload` re-armed from the tombstone of a re-mint
  whose subject file was not written (`experiments.go` 1587, 4224): no sentinel
  has landed, yet a restored application (`experiment_applications.go` 298) may
  have become a fact whose key was just stored. The shortest trace is install,
  save, re-mint with an unwritten subject file, restart, a fact, the retried
  clear. `FactKeysKnown` therefore ends with a clear. The comment at
  `experiments.go` 1215, that owed applications "live only in memory", does not
  take the restored ones into account either.
* The auth latch cancels an owed write of an entry it takes out of service
  (`experiments.go` 3119).
* A non-adult declaration that was begun without a subject is not carried over
  to the subject minted meanwhile: `endNonAdultDeclaration` returns when there
  is none (`experiments.go` 3701). `MinorNotServed` is limited to the subject it
  was declared for.

## 4. Proofs

The theorems hold for every value of the constants that the named assumption of
the module allows: any sets of callers, fetches, experiments or processes, any
capacity and any bound. Each invariant below was model-checked on an instance of
its module before it was proved.

### Event pipeline

`SizesAssumption`, `NamesAssumption`: sizes are positive, names are distinct, the
trackers are finitely many.

* `TypeCorrect` (`TypeOK`). `tracking >= 0` is not inductive: the invariant
  `TypeInv` adds that `tracking` is the number of `Track` calls under way
  (`TrackingCounts`) and that the worker holds a received event exactly between
  receive and admission (`RecvHeld`).
* `EveryEventAccounted` (`Accounting`), on top of `TypeInv`: each action moves
  events between two terms of the sum.
* `DenialWins` (`NoDenialUnderGrant`). `LockInv`: `lifecycleMu` is held by the
  denial in its fast half and consent is denied meanwhile. `TicketInv`: tickets
  in use are distinct and not yet served, and a grant waiting with an older
  ticket than a denial has an epoch snapshot that is already stale. So a grant
  that is served either is behind every denial or does not store.
* `DenialAborts` (`DenialAbortsInFlight`). `GateInv`: no publish holds a gate
  that does not exist yet, and once no denial is before its swap of the gate,
  every request on the network under a denied state carries an older one.
* `OneEpochPerBatch` (`BatchIsOneEpoch`). `EpochInv` adds that no event is
  stamped later than the current epoch.
* `FreshEventsKept` (`EpochDropsArePreDenial`), an action property, from the same
  invariants.

### Consent floor

`FloorAssumption`: kinds and outcomes are among those that exist, clocks are
numbers, the trail has room for one receipt, and `None` is neither a pass nor a
receipt. For every number of callers, passes, decisions, failing writes, crashes
and damaged files:

* `TrailStaysOrdered` (`TrailOrdered`). Keys and stamps are given out by
  different parts of the code at different times, and three owed writes and two
  files may hold an older view; the invariant `Base` says why they still agree.
  `CallInv`: a decision that waits for its turn is newer than everything on disk,
  in memory and owed; one in its slow half is the only one, and its receipt and
  record carry its own key and stamp or older ones. `OwedInv`: an owed mint is
  newer than every receipt, and what is owed belongs to the newest decision
  handled. `StampInv`: no stamp on disk or in memory is ahead of the clock that
  gives out the next one, and a receipt newer than the record has a later stamp
  unless a mark has moved the record's. `KeptInv`: memory and file hold the same
  unsettled receipts, and what only memory holds is newer, so that the merge in
  `saveLocked` appends in order. The trail is filtered by positions (`Without`),
  and the lemmas at the head of the module derive from that what a filter and a
  merge keep, without an induction.
* `NoGrantRevived` (`NoGrantPastDenial`), from `Denials` on top of `Base`. While
  a denial is the newest decision that ever reached the disk, either its receipt
  is on file and in the trail, or it is *covered*: the record is the denial, or
  says forced-minor, or damage has left nothing from which a start could prove a
  grant (`Covered`, `DeniedInv`). A receipt that is the last proof is held back
  from the wire (`Proof`: it is marked, or the decision is about to mark it), so
  no answer settles it; `HandInv` is the same of the receipt a pass has in hand.
  `HeldInv` and `OwedTop` say what the record already holds while a mint or a
  record is owed. From this `CoveredBlocks`, `DeniedTop` and `RestartProof` show
  that no start resolves a grant, in each branch of its reading of the two files.
  `LiveInv` is the running half: a grant in line may open the live state only if
  no denial has bumped the epoch since its ticket.
* `DenialsSurvive` (`DurableDenialSurvives`), from `Denials` and `MinorInv`
  (forced-minor is the last decision a process can take, and its files keep it
  so). Where nothing is damaged, a covered denial is in the record, and no receipt
  on file is newer than it (`RecordStands`); one that is not covered is the last
  receipt on file, and heals the older record (`TailTells`).
* `GrantsSurvive` (`RecordedGrantSurvives`), from `PairInv` on top of these: the
  two writes of a grant, receipt and record, travel together while nothing is
  damaged. The newest grant on disk is in the trail or has the record
  (`PairOnFile`); in the trail without its record, it is marked or its decision is
  still under way (`PairHeld`), and a start that heals re-creates the record or
  the marks (`RestartWrites`, `HealsNewest`); a record that is missing is owed, by
  the newest decision handled (`PairOwed`). So what a pass picks past the holds is
  behind its record (`PickedPair`), and with it all that is in hand or recorded by
  the service (`SentInv`).
* `DeliveredInOrder` (`DeliveryInDecisionOrder`), from `Deliver` on top of `Base`:
  what left the process is older than what waits. A pass that has a receipt under
  way holds the claim (`ClaimInv`), and nothing older waits behind it but a grant
  that a damaged file cannot prove (`AheadInv`); decisions without a receipt are
  newer than all that left (`SentOlder`). A receipt can come back, from a file that
  a failed write left behind its settlement or after a lost answer: `HeardInv` says
  that what was settled was heard by the service, and `QueueInv` that a receipt not
  heard yet is newer than all it has recorded. Damage is the exception the property
  makes, for grants only.
* `GrantsWaitForDenials` (`NoGrantAheadOfHeldDenial`), an action property, from
  `Floor` (all of the above) and `Undec`. If the process has decided, `FloorGrant`
  and the holds that the step looks at once more leave a denial behind the grant or
  nothing newer. What is left is the process that a start left undecided, as it
  could read neither file: `UndecInv` says that when a denial is the newest on disk,
  the trail it may send from is empty or cannot prove a grant, until a decision is
  taken.
* `EventsWaitForAnswer` (`EventsFollowGrant`), an action property, from `Floor`,
  `HandedInv` and `Gate`: at any time one can say where the newest grant is until
  the service answers it. On disk, it is in the trail's file, answered, or damage
  has lost it for good (`FiledInv`, `Lost`); in memory it is in the trail, owed its
  mint, answered, or no longer the newest (`Backed`). What was settled was answered
  or overtaken (`SettledInv`); a grant that comes to its record, or is owed it, has
  its receipt (`RecordInv`, `OwedGrant`), and a grant owed its mint was never on
  disk (`MintedInv`). Hence a live grant is backed (`GrantBacked`): a flush that
  finds no receipt in the trail and no mint owed can only have a grant that was
  answered, and the receipts it handed over itself were answered (`HandedInv`).
* `CleanCloseIsKept` (`CleanCloseRestores`), from all of these and `Clean`. `InForce`:
  the newest decision handled is the live one, unless a denial that waits for its
  turn has shut the live state already; a grant that came back too late to open it
  is older than such a denial (`EpochInv`), and what this process decided is newer
  than what it found (`OldInv`). `NewestCarried`: that decision has been on disk, or
  is on its way there in the trail, an owed mint or a call. So a clean verdict,
  which finds nothing owed, leaves a decision on disk, of which the theorems above
  say what a start takes up. `RestInv` is the process that a start left without a
  grant and that has decided nothing since: either nothing in the files can become a
  grant (`Blocked`), or the denial at the trail's tail heals the record that is owed
  (`TailOwed`), and no pass settles either away.

### Retry pacing

No assumption on the `Track` calls.

* `TypeCorrect`, and `FreshEventsNotDeferred` (`FreshNotDeferred`). `PacingInv`:
  until the first denial a deadline stands over a held batch, or over no batch
  and a spool that has work or was just emptied by a withdrawal
  (`DeadlineHasWork`); and the worker sends only when no deadline is armed and
  there is something to send (`SendsWork`). The second part is what makes the
  first inductive: a deadline that an outcome arms belongs to what was sent.

### Close and the default sender

`LifecycleAssumption`: the channel has room for one decision.

* `TypeCorrect`.
* `SenderImplementsRegister`: the safety half of the refinement that
  `ImplementsRegister` checks. `SendsInv`: the channel is strictly increasing,
  above what was told and not above the ticket served last. So dropping the head
  to make room, or draining at the stop, tells nothing out of order.
* `LossesAreReported` (`LossReported`), an action property, from the same
  invariant.
* `CleanCloseComplete` (`CleanCloseIsComplete`). `StopInv`: nothing is stopped
  before the client is closed and every decision is served, so that a sender
  that ended has told everything. `OwnerInv`: the call that holds the teardown is
  in it, and a waiting call waits for one that is or for a verdict. `VerdictInv`:
  a call that has met no error so far has seen end what it waited for, and a
  stored verdict without error means that the lanes have ended.

### Remote config

`RemoteConfigAssumption`: every fetch belongs to a process; clocks and bounds are
numbers; `None` is not a record.

* `TypeCorrect`.
* `FailClosed` (`RevokedStaysClosed`) and `RevalidatesOwnTarget`
  (`TargetNotMixed`), from `ConfigInv`. Of each process: a settled number is
  not above the last one given out and a failure not above what is settled, an
  open scope shows a snapshot that was fetched after its last failure, and a
  scope with a pending clear is closed and not the one held (`Fenced`). Of each
  fetch: its number was given out, and the fallback record it carries is of its
  own scope (`Tracked`). The shared record needs no clause: a process takes it
  over only into an open scope, under the number of a fetch that no settled
  answer has overtaken.
* `GettersOnlyAdvance` (`NoGetterRollback`), an action property, from `RollInv`
  on top of `ConfigInv`. Here the shared record does need clauses, all of them
  under the proviso that nothing has spoiled the file: every record that a
  process holds or falls back to is an earlier content of it (`PastInv`), a
  write that finds the file as its process read it makes it younger
  (`AdvanceInv`), a process writes only the record it holds, and one at a time
  (`WriterInv`), and the getters show the held record (`SnapFits`). An answer is
  no older than any record that was captured before its fetch began
  (`VersionInv`, `AnswerInv`, `ClearedInv`); that is where the order of answers
  drops out of the argument.

### Experiments

`ExperimentAssignmentsAssumption`: the lane is not a host call, bands are among
the three that exist, `None` is neither a declaration nor an age.
`ExperimentStoreAssumption`: there is a scope, and `None`
is none of the values it stands in for. `ExperimentFactsAssumption`: queue and
owed list have room, the applications are finitely many, and `None` is not an
emission.

* `ExperimentAssignmentsProofs`: `TypeCorrect`; `WithdrawnStaysWithdrawn`
  (`NoRevival`) and `NothingAcrossDenial` (`NoInstallAcrossDenial`, an action
  property), from `CacheInv`. `NumberInv`: of two calls the one with the lower
  sequence number has the older auth epoch. `FenceInv`: a call numbered before a
  verdict on its experiment meets the sequence fence or a newer auth epoch.
  `BarInv`: one from before a sentinel meets a newer auth epoch, one from before
  a denial a newer consent epoch. Between them the three checks of
  `installLocked` cover every withdrawal, though each of them alone is blind to
  some.
* `DeclaredMinorNotServed` (`MinorNotServed`), from `MinorInv`. `LatchInv`: the
  latch retains something only while nothing is cached, so lifting it uncovers
  nothing older. `AgeInv`: a pending declaration is the host's last word, and the
  request that is to decide it is no older. While it is pending the getters hide
  the experiment. Once it is not (`Stands`, `Shut`), nothing older that belongs
  to a real subject is cached or retained, and every older request still under
  way meets the sequence fence or a newer auth epoch.
* `ExperimentStoreProofs`: `TypeCorrect`; `EndedStaysEnded`
  (`DroppedStaysGone`) and `GhostsAreOwed` (`GhostIsOwed`), from `StoreInv`.
  `DebtInv`: every stored entry of the current scope has not ended, or a clear is
  owed, or a drop stamped no lower than the entry, or the write of an entry
  stamped no lower (`Answered`). While a save is under way this holds of the
  record on file with the intents owed should it fail, and of the record being
  written with the intents owed in either case, because a failed save may have
  landed. `ClearInv`: an owed clear of the current scope finds nothing in memory
  or in the latch. `NumberInv`: no number of an assignment or a scope is used
  twice; the first attempt at this proof failed because the model numbered a
  scope again after a restart, which the code, with its random subjects, does
  not.
* `FactKeysAreKnown` (`FactKeysKnown`), from `KeyInv` on top of `StoreInv`. The
  key of a live fact (`FactHolds`) is among the retired keys of its scope if that
  is no longer the current one; otherwise it is in the mirror and, if it was
  filed, in the record on file and in the one being written, whichever of them a
  crash leaves. `DurableInv`: a mirror that is marked durable has the history of
  the record on file, which is what lets `recordFactKeyLocked` skip the write.
  `SaveInv`: a save of the current scope writes the mirror's history, and one of
  an earlier scope finds that scope's record on file, so that it overwrites
  nothing of the current one.
* `ExperimentFactsProofs`: `FactsInvariant` (the inductive invariant `FactInv`),
  and from it `WithdrawnFactsNeverSent` (`NoWithdrawnFactSent`, an action
  property), `StoredApplicationsSurvive` (`StoredSurvives`) and
  `ConsentDropsCountedOnce` (`ConsentDropCountedOnce`). The code does not track
  withdrawn facts down; it stamps every fact with the key and purge generations
  of its making and lets each station drop what is older than the last
  withdrawal. The invariant says why no station is missed:
  * `PipeInv`: every fact in queue, batch, hold or request whose application was
    withdrawn carries a stamp that a filter recognises, and its sequence number
    is not below the low watermark and is noted, or about to be noted by the
    emission that queued it. So `Prune` forgets no mark that a fact still needs.
  * `OwedInv`, `SweepInv`: an owed application is not withdrawn, and an emission
    past its handoff carries the same stamps; `SpoolInv`: the mirror holds
    nothing withdrawn and, when it is empty, neither does the file.
  * `OrderInv`: the queue is numbered above what the worker took and what a
    denial drained.
  * `WorkerInv`: the batch has passed the filters of the generations the worker
    last looked at, so that looking again only when a generation has moved is
    sound; a request being respooled, and a chunk pulled before the withdrawal,
    still show the last check a generation that has moved.
  * `PointsInv`, on top of `FactInv`: every copy of a point, in the owed list, an
    emission, the queue, batch, hold, request, chunk and spool, has the receipt
    last issued for it, and so has every receipt spent. A second receipt is
    issued only to an automatic exposure, which a denial arms again under its
    own id, and no point has the id of one.

  Checking `FactInv` with TLC before proving it, with two denials and a restart,
  exposed two errors of an earlier version of the model: receipts and counters
  survived a restart, and a denial did not count the facts in the spool.

### Only model-checked

* Liveness (`EventsSettle`, `DenialsDelivered`, `SpooledSettles`, `NoStalledRetry`,
  `CloseReturns`, the fairness half of `ImplementsRegister`): the proof system has
  no support for fairness and `ENABLED` here.
* `DiskSpool`: its record is a sequence filtered with `SelectSeq`, and a fact about
  that for every sequence takes an induction over its recursive definition, which
  the installed prover cannot even unfold; a filter by positions, as in
  `ConsentFloor`, is the way in. `ExperimentSubject`, a smaller relative of
  `ExperimentFacts`, is proved nothing about yet.

## 5. Not modelled, and the plan

Not modelled, as they carry no protocol of their own: the HTTP transport,
compression and the parsing of answers (the modules model their outcomes),
configuration, event envelopes, sizes and redaction, tokens and their
cryptography, the rejection ring, the anonymous identity file, the crash
reporter (a separate client that shares no state with this one), the example
programs. The evaluation of a consent policy document is a pure function and a
candidate for operators checked against a reference definition.

Left of the plan:

1. Theorems: `DiskSpool` over a filter that is defined by its positions.
2. An abstract specification of the floor (decision in force, durable,
   delivered) that `ConsentFloor` implements, and of the pipeline as a lossy
   queue.
3. The composition of `ExperimentStore` and `ExperimentFacts`: a withdrawal that
   looks its keys up in the one and condemns the facts of the other.
4. The consent plane's share of the timer in `RetryPacing`, and the sweeps of
   `Close` in `ClientLifecycle`.

## 6. Running it

`tlc -config EventPipeline.cfg MCEventPipeline` checks one run;
`tlapm EventPipelineProofs.tla`, and the same for every other `...Proofs`
module, checks the proofs. Each run takes at most a few minutes on two cores,
`ConsentFloorProofs`, `ExperimentStoreProofs`, `ExperimentAssignmentsProofs` and
`ExperimentFactsProofs` somewhat longer.
