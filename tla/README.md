# TLA+ verification of the dsh plugin API

This directory holds specifications of the parts of the plugin API whose correctness
depends on interleavings, failures and restarts, the TLC configurations that check them on
small instances, and proofs checked by TLAPS. `PROJECT.json` ties every definition to the
source lines it models, lists the runs with their properties, one plausible bug ("mutant")
for each property that the run detects, the hazards of the code and the results proved.

## 1. The system and its parts

The host half of the plugin API (`src/lib`) is a facade that plugins call. Each facade member
is an *authority*: one owner module that keeps the state, admits callers, serializes
operations and answers with discriminated outcomes; adapters below it reach storage, the agent
loop or the official services. `src/packages` replaces official packages (agent loop, llm,
mcp, attachments, ...) by forks with additive slices that the authorities talk to. All of it
is one-threaded JavaScript: a stretch of code between two awaits is atomic, everything else
interleaves; processes crash and restart on top of persisted units.

| component | state | operations | what is hard | correct means |
|---|---|---|---|---|
| coordination lease, memory adapter (`coordination-lease.js`, `coordination-adapters.js`) | record per resource, a serial lane, watch listeners | acquire, heartbeat, release, takeover, compareAndSet, watch, dispose | handles and proofs go stale while an operation waits; inclusive expiry; sequence across release and expiry | a generation names one grant; only its holder changes it; watchers are told |
| coordination lease, storage bridge (same file, 432-662) | the persisted unit's record | the same, in two unit calls each | crash between read and write, answers that never come | fencing survives restarts |
| workspace mutation transaction (`workspace-mutation-transaction.js`, `workspace-transaction-adapters.js`) | transaction record with revision, claims, change ledger | prepare, record, commit, rollback, recover | concurrent calls on snapshots, lease lost between check and write, partial restore, crash in committing | one outcome, no lost mutation, ledger agrees |
| session request authority (`session-interaction-operation-authority.js`) and the interaction slice of the agent loop (`agent-loop/lib/interaction-slice.js`) | operations, live index per session, dedupe index, children; per session slot with pending admissions and the live attempt | request, cancel, attempt facts, dispose; admit, cancelAttempt, beginAttempt, endAttempt | durable append between admission and registration, lost facts, cancel against end, loop restart | one final terminal, cancel settles, no orphaned admission |
| tool calls of a step (`agent-loop/lib/forked-loop.js`, `executeToolCalls`) | a pool of running dispatches, outcomes by call, the session log | start, prepare, dispatch, append, finalize | dispatches end in any order, abort and failure in between, repetition by recovery | every call once, answered in model order, the step ends |
| recovery policy (`recovery-policy.js`, `recovery-classifier.js`, `recovery-adapters.js`, `recovery-slice.js`) | registered policies, the decision remembered for each window | register, release, decide, commit, dispose | policies come and go while one of them is awaited; two evaluations of one window | a decision is consumed once; a policy that is gone has no say, one that asks to stop has the last word |
| model route policy (`agent-loop/lib/route-policy.js`) | circuit breaker per route, pinned window decisions | decide, report | half-open probe races, clock | one probe at a time, open routes not chosen |
| session channel (`session-channel.js`, `session-channel-core.js`) | channels with a deadline, subscriptions with a watermark, a log of the session's events bounded by count and age | open, subscribe, fetchEvents, ack, resume, heartbeat, revoke, dispose | eviction and remounts under a reader's cursor, lost answers, lazy expiry | no silent loss: a reader continues its cursor or is told to resynchronize; a dead channel serves nobody |
| task execution observation (`task-execution-*.js`), execution observation reducer | a registry of tasks, changed by compare-and-swap under a lease; views folded from events | claim, reassign, settle; ingest, snapshot | two owners of one task, late and repeated events | a task is settled once, by the owner of its lease |
| checkpoint capture, plan, restore | records, restore progress | capture, plan, restore | partial restore, live attempt while restoring | restore stops attempts first, no half restore reported as done |
| attachment pipeline (`attachments/lib/journal.js`, `pipeline-service.js`) | record, object and metadata files, a lock per content, the current record per owner | put, remove; ingest, transform, cleanup | crash or failure between the files, content shared by owners, guards that go stale while the disk is awaited | a record always has its content, one derived record per source, cleanup spares what is current |
| events bus, attention hub, activity store | listeners, queues, views | subscribe, emit, dispose | re-entrancy during dispatch, disposal while dispatching | disposed listeners are not called |
| mcp connection and catalog, skill activation, llm decoration and adapter registration | generations, registrations | connect, refresh, register, dispose | a stale generation's answer applied to a newer one | only the current generation is visible |
| profile mutation, credentials mutation, profile manager | versioned documents | propose, apply, revert | compare-and-swap conflicts, partial apply | no lost update |
| decision participation, remote publication, client rebind, client request bridge | pending requests, epochs | ask, answer, rebind | late answers, reconnects | an answer is applied once and in its epoch |
| security owner, policy and egress; permission presets, plan mode, session branch and title | policies, small per-session state machines | decide, set, reset | mostly sequential | table-driven |
| client bundles, forked official code, build scripts | | | generated or third-party | not modelled |

The components interact by calls and injected adapters: the workspace transaction reads the
coordination lease (its fencing evidence) and writes through a registry that is a memory map
or a storage-domain unit with compare-and-swap; the request authority calls the slice's
`admit` and `cancelAttempt` directly and receives the slice's facts as synchronous events; the
recovery policy is asked by the agent loop when a preparation or a dispatch fails, and consulted
by the transaction for advice that changes no state there; the session channel listens to the
events bus and is read by remote devices through the connection packages.

## 2. Modules

| module | what it is |
|---|---|
| `FencedLease` | abstract specification: a fence that only grows, granted anew, written while live, retired, closed |
| `LeaseRecords` | record, handle, `matchHandle`, `proofMatches`, shared by the two adapters |
| `CoordinationLease` | facade and memory adapter: lane, watchers, clock, disposal; implements `FencedLease` |
| `CoordinationLeaseProofs` | theorems about `CoordinationLease` for every instance |
| `DurableLease` | storage-domain bridge: processes, unit reads and writes, crashes, unconfirmed answers; implements `FencedLease` |
| `DurableLeaseProofs` | theorems about `DurableLease` |
| `AtomicMutation` | abstract specification: a set of mutations committed or undone as a whole, or parked |
| `WorkspaceTransaction` | concurrent calls of the transaction, one step per stretch between awaits; implements `AtomicMutation` |
| `WorkspaceTransactionProofs` | theorems about `WorkspaceTransaction` |
| `InteractionBoundary` | operators on the interaction slot of the agent loop |
| `WorkOrder` | abstract specification: requests with a file and work that is begun once, an outcome said once, and stops that stand |
| `RequestAuthority` | the request authority over those slots and the loop's turns; implements `WorkOrder` |
| `RequestAuthorityProofs` | theorems about `RequestAuthority` |
| `StopCascade` | a stop request going down the tree of operations, call by call, over the index of children |
| `StopCascadeProofs` | theorems about `StopCascade` |
| `AttachmentJournal` | put, remove, restoration and object lock of the attachment journal, one step per file operation |
| `AttachmentPipeline` | ingest, transform and cleanup over the journal, with the current record and its loading |
| `AttachmentProofs` | theorems about `AttachmentPipeline` over `AttachmentJournal` |
| `EventLog` | abstract specification: a log that only grows; an answer continues the reader's cursor or says that it cannot |
| `SessionChannel` | the engine of the session channel behind its gate, with clock and remounts; implements `EventLog` |
| `SessionChannelProofs` | theorems about `SessionChannel` |
| `RecoveryPolicy` | the recovery authority: policies, evaluations with two awaits per policy, decisions |
| `ToolCalls` | `executeToolCalls` with the dispatches beside it, over `RecoveryPolicy` |
| `ToolCallsProofs` | theorems about `ToolCalls` |
| `MCAttachmentPipeline`, `MCSessionChannel`, `MCToolCalls` | symmetry, view and model values for TLC |

### How state and actions correspond to the code

**CoordinationLease.** `record`, `subs` and `lane` are the adapter's map entry, listener set and
promise chain for one resource (resources share nothing but an epoch label). `Submit*` are the
facade's methods up to `laneFor(key).run(...)`: from there on the arguments are fixed, which is
why handles are chosen from every handle ever `issued`. `Serve` is the body that the lane runs,
one disjunct per method, `refuse` all early returns. A generation string is its sequence
number and fencing tokens are fresh numbers. Time moves only by `Tick`.

**DurableLease.** A call is `Begin` (unit read) followed by the unit's write or compare-and-swap
and the `Confirm` of its answer; between read and write other processes run. A unit that answers
with a promise is "unknown" to the bridge whether or not it stored. `restart` loses the call. A
takeover may prove itself by the generation that a refused call was told (`KnownProofs`), also of a
grant that was never confirmed.

**WorkspaceTransaction.** `call[c].at` is the program counter of one call between two awaits and
`call[c].snap` the snapshot of the record that every later write is based on. `publishTransition`
is the state table plus the registry's compare-and-swap. `fencingValid` is evaluated in a step of
its own, so the lease can be lost between the check and the write. `NotWritten` covers a refused
write, an unavailable store and a write stored without confirmation. `leaseGrant`/`leaseRetire`
are what `FencedLease` allows the lease to do. As an `AtomicMutation` it is what the record says,
with what is listed in the ledger and what was restored: no call, snapshot or lease is left. Claims, checkpoints, approvals, restore and ledger
adapters are external: each answers either way.

**RequestAuthority.** An entry of `op` is one request, numbered by the operation id it mints.
"appending" is the await of the durable append, after admission and before registration.
`requestCancel` is the shared propagation path (cancel, handle dispose, signal abort, parent
cascade). A whole stop is one step here, of the set that a stop has to reach; that the code's walk
over the index reaches it is the subject of `StopCascade`.
`turnBegins`, `turnEnds`, `turnBreaks` are the hook points in `forked-loop.js`, where a broken
turn is one whose durable `turn/end` could not be written; facts reach the authority in the same
step because the event dispatch is synchronous.
As a `WorkOrder` a request is what its record says (`FileOf`) and what became of its work
(`WorkOf`): it waits while a slot has it pending, was begun while a slot has it as its attempt or
as the one the next turn inherits, and is over otherwise. The file and the work go different
ways: work is begun and over while the append is awaited, and goes on after a stop, a restart of the
loop forgets the work and keeps the file, disposal forgets the file and keeps the work.

**StopCascade.** `frames` are the nested calls of `requestCancel`, the innermost last. A call is
"outside" while an observer (notified by `commitTerminal`) or the abort handlers of an attempt
run, who may call back: `cancel`, `register` or `dispose` in the middle of the walk. Then it copies
the children it finds (`copyChildren`) and takes one after the other, `visit`ing those that are
live by now and `skip`ping the rest; a `Set` is iterated in any order. `commitTerminal` takes the
operation out of the index of its parent, over which the call above is walking. What a stop has to
reach is written down when it begins, from the tree and not from the index: the live operations
below along operations that are live (`owed`). A live operation below a finished one is not among
them, and the code does not reach it; nor is a child that is registered after the copy, or whose append
is still awaited.

**AttachmentJournal, AttachmentPipeline.** `call[c].at` is the file operation a call does next,
and the booleans of a call are the locals of `remove`. Writes are `atomicWrite`: a failed one may
or may not have left its file, because the directory is synchronised after the rename. `locks[d]`
is the promise chain of `withObjectLock` as a queue. `remove(c, allowed)` takes the caller's
`canRemove` as a parameter, which `AttachmentPipeline` supplies and which is evaluated again at
each boundary. The two counts of the references inside `remove` list every record: a failure to
list a directory is thrown and undoes the removal (`removeReads`), but a file that cannot be read is
listed as corrupt and a scope that cannot be listed is skipped, so that a count may miss references
(`removeOverlooks`). `records` are numbered in the order of their creation, and `latest` is the
maximum of those whose files were read.
A transform starts from a record that some call answered; a cleanup names one record, because
each has a generation of its own. `ensureCurrent`, `loadLists`, `loadReads` and `loadResolves` are
the shared promise of `_ensureCurrent`: the directory is listed, then its files are read, of which
some are gone by then or cannot be read, and what was found is stored. `find` takes a listed file
that it cannot read, of whatever record of the owner, for the one it looks for; so the removal of
another record may turn a transform down as corrupt (`transformMisled`, which allows this for every
record of the owner that is gone and is wider than the code in that). `restart` keeps the three sets of files and loses the rest. The
listing and the first look of a cleanup are one step: what they decide is decided again, on fresh
state, by `canRemove` under the lock.
`overtaken` remembers the owners for whom a late read overwrote a publication (the
fourth disagreement of section 5); the properties about the current record make an exception for
them, and `NewestNotCleaned` states one of them without it. `misread` remembers those whose journal
was read past an unreadable record to an older one, and `lost` the content that could not be put
back, or was deleted because both counts missed every reference to it; one misled count is made good
by the other, and the properties hold through it.

**SessionChannel.** The gate (rate limits, verifier, authorizer) awaits but leaves nothing in the
engine, and an engine method looks at its channel from the start and in one step; so a call is
its engine method, with arguments as old as the reader's knowledge. `channels` and `subs` keep
every entry ever made, by position; `history` is the session's whole log, of which `log` retains
the end. `Visited` is the expiry that `findChannel` applies to what it looks at, and `refused` a
call that does no more than that. A generation is 1, the only one a caller is ever told, or 2.
The frames of an answer are the set of the events handed out, since their order is that of the
log. `feed` is the way the session surface hands its events over: as the bus does (`array`, in which
the listener finds no session), as one object without a sequence, or as one with the event's `seq`.
In the second the engine numbers the event by its count `seq`, which counts the events of all
sessions and begins again with each mount; `cursors` remembers which number each event was given,
and two events of different mounts may have the same. A reader hands back the cursor of an event it
was given, and the engine finds the first entry with that number. `Foreign` are the cursors that an
earlier engine gave out, for which the code keeps no promise (section 5); `NothingSkipped` and
`ImplementsEventLog` leave them out and are violated if they do not. `Reaches` lets an answer be lost on its way; `arrived` is what a reader has. `remount` disposes
the engine and mounts a new one: the log and all handles are gone, the session goes on.

**ToolCalls, RecoveryPolicy.** `main` names the await at which `executeToolCalls` stands and each
of its actions runs to the next await; `run[c]` is the same for the promise of one dispatch, and
both share `slot`, `failed` (`schedulerFailure`), `log` and the decisions. Whether a call may run
in parallel is answered afresh wherever the code asks, so a group may end early. An evaluation
works on the snapshot `left` of the policies; `fresh` are those of it whose registration is still
the current one, which `counts` looks at after each of the two awaits. The decision window of a
failure is the call. The repeated dispatch stands outside the `try` of the first one, so its
failure rejects the call's promise and sets nothing.

## 3. Runs

| run | checks | bounds |
|---|---|---|
| `coordination_lease` | types; `GenerationNeverReminted`; `WatcherNeverBehind`; `OnlyTheHolderChangesAGrant`; `LiveLeaseDisplacedOnlyByProof`; `ImplementsFencedLease`; `EveryCallAnswered` | 2 owners, 1 watcher, clock to 2, 4 operations, 2 waiting: enough for a grant, its expiry or release, a successor and a stale handle queued behind them |
| `durable_lease` | fencing and refinement with crashes and unconfirmed writes, one process at a time; `ConfirmedGrantPersisted`; `LiveLeaseNotOverwritten` | 2 owners, terms 1 and 2, clock to 3, 4 calls |
| `workspace_transaction` | `OutcomesAgree`, `NoRecordedMutationLost`, `LedgerMatchesCommit`, `ExternalEffectsApproved`, `ImplementsAtomicMutation` | 2 concurrent calls, 5 in all, 1 rollbackable and 1 external mutation, 1 file, 2 lease grants, durable registry |
| `workspace_transaction_recover` | *violation*: `recover` moves the record without a valid lease | the same constants, fewer calls |
| `workspace_transaction_claims` | *violation*: a failed prepare keeps its claims | the same constants, fewer calls |
| `request_authority` | `ImplementsWorkOrder`, `CancelPrecedesOutcome`, `IndexesNameLiveOperations`, `WaitingWorkIsWanted`, `CancelSettles` | 2 sessions, 2 requests, 1 key, 1 loop restart: a parent and a child on the same session or on two, one queued behind the other, stopped, lost or late; longer chains and queues are left to the proofs, which bound neither |
| `request_authority_exclusive` | *violation*: two live operations on one session | 1 session, 3 requests, 1 key, 1 loop restart |
| `stop_cascade` | `NothingLeftBehind`, `StopsGoDown` (types and `ChildrenIndexed` are proved) | 3 operations: a grandchild, two siblings or one below a finished operation, each stopped again or disposed by code that is called in the middle of a stop; calls may nest three deep |
| `attachments` | `RecordsReadable`, `LockDiscipline`, `SingleChild`, `SourceStaysReadable`, `NewestSparedUnlessOvertaken` | 2 owners that share one content, 2 calls at a time, 3 records ever (one exists at the start), 1 mishap (a failed file operation, a call given up or a restart) and 1 more in what it may bring about (`ioAgain`: putting back what a `remove` deleted, its counts, the loading after a restart); a publication taken back needs two of the calls, a lost restoration, a deletion that both counts allowed and a load past a child two of the mishaps; after the second a run goes on only while a `remove` that failed has yet to put back what it deleted (`SecondMishapCompounds`), any other is checked in the state that it leads to |
| `attachments_newest` | *violation*: cleanup removes the record an owner was given last | 1 owner, 2 records, no mishap |
| `session_channel` | types; `ImplementsEventLog`, `NothingSkipped`, `DeadChannelStaysDead` | 2 devices, 2 kinds of events, all three feeds, a window of 3 events and 1 unit of time, 4 events, of which an engine that counts numbers 2, batches of 2, 1 channel with 1 subscription, time to 2, 2 mounts: enough for an eviction by count and one by age under a cursor, a filtered batch that is cut, a heartbeat and an expiry, a remount with an event missed, and a number given twice, by two engines |
| `tool_calls` | types; `CallsAnsweredInOrder`, `RerunsAuthorised`, `StepEnds` | 3 calls, a pool of 2, 2 policies of which 1 is registered at first, 1 change of the policies or disposal: the pool fills, results overtake each other, both preparation and dispatch of a call fail |

Bounds are constants named `Max...` and appear only in guards of the actions that would go past
them. The counters they stop (calls, clock, generations, restarts) have no other influence, so a
run explores every interleaving up to the bound. Deadlock is checked in `tool_calls`, where a step
that is over is the only state to stop in (`Stopped`), and nowhere else: the other systems may
stop when their bounds are spent, and a quiet authority is a legitimate state.

`attachments` declares its calls symmetric (it checks no liveness); the first owner is the one of
the initial record, so owners are not. `session_channel` declares devices and kinds symmetric,
which are only compared, and leaves `answer` out of its view: no action reads it, and the
properties read it in the step that sets it.

**Fairness.** `EveryCallAnswered` assumes that the runtime runs the next link of a promise chain
(`WF(Serve)`): `createSerialLane` continues on success and on failure alike. `CancelSettles`
assumes that an armed timer fires (`WF(confirmTimeout)`), and nothing about the loop: the code
arms the timer exactly because the loop may never report. `StepEnds` assumes that as long as the
loop, a dispatch or a policy can take a step, one of them does (`WF(Progress)`), which the run
loop of the runtime does; it thereby takes for granted that tools and policies answer, in any
order and with any result, because the code has no deadline for them: neither the pool nor an
evaluation survives a tool or a policy that never settles. Policies that change and the abort are
under no fairness. No other fairness is assumed.

## 4. Proofs

`CoordinationLeaseProofs` proves for every set of owners, terms and subscribers, and every bound:

- `TypeCorrect`: the type invariant, by the types of the record, handle and queue operators.
- `GenerationUnique`: `GenerationNeverReminted`. It is not inductive by itself: a new grant must
  differ from every issued handle. `GenerationInv` adds that no issued handle is ahead of the
  record (`NoHandleAhead`) and that a handle of the record's generation has the record's owner
  and token. `StepCases` reduces every step to four kinds: nothing stored, a grant (generation
  + 1, fresh token), an update that keeps the identity, disposal.
- `WatchersInformed`: `WatcherNeverBehind`, from the fact that every store is an `emitChange`.
- `HolderOnly` and `DisplacedByProof`: the two action properties, from the type invariant,
  `MatchIsLiveIdentity` (what `matchHandle = "ok"` means) and `Unleased` (a record of generation
  0 is `NoRecord`).
- `Refinement`: `ImplementsFencedLease`, step by step from the same case analysis.
- `LaneAdvances`: when n calls are answered and one more was made, one more is answered, for every
  n. It has the hypothesis `LaneCanRun`: whenever a call waits, `Serve` is enabled. The prover has
  no ENABLED, so this one fact is not derived; it holds because one of the methods or `refuse`
  applies to whatever is queued, and `Serve` changes the lane. That
  every call is answered (`EveryCallAnswered`) is this step taken again and again, an induction the
  provers cannot make, and stays with TLC.

The assumptions are `LeaseAssumption` (there is an owner and a term, terms are positive) only.

`DurableLeaseProofs`. `TypeCorrect` holds for any processes. `TurnsSuffice` says what more than one
process needs: as long as no operation starts between the two unit calls of another (`Turns`),
`GenerationNeverReminted`, `ConfirmedGrantPersisted`, `LiveLeaseNotOverwritten` and
`ImplementsFencedLease` hold for any number of processes, crashes and writes of unknown fate. `GenerationUnique`,
`GrantPersisted`, `NotOverwritten` and `Refinement` are the case of one process (`OneProcess`), which
takes turns with itself. Of processes that overlap nothing is proved and nothing is promised: acquire,
heartbeat and release store without a condition, and the design presents the lane as the
order of one process, not as a lock between processes (`docs/specs/coordination-lease/design.md:87-90`). The inductive invariant says what the one call that may be under way has read: a
pending grant or update is based on what is stored now (`GrantWaits`, `UpdateWaits`), whatever
crashed before it.

`WorkspaceTransactionProofs` proves `TypeCorrect`, `OutcomesAgreed`, `MutationsKept`, `LedgerTrue`,
`EffectsApproved`, each for the run's property of similar name, and `RestoredFirst`
(`RolledBackMeansRestored`, which the abstract transaction that the run checks implies). The invariant relates the snapshots to the record: a snapshot is no newer than the record
and, at the same revision, has its state and its mutations (`SnapshotAge`); a call is at a point
where its snapshot has the state that belongs to it (`SnapshotState`); of commit and rollback at
most one ever shows in the record, in a snapshot or in what was done (`OneWay`); the ledger is
appended once (`AppendOnce`). A transition is therefore a transition from what the
writer read. `Refinement` (`ImplementsAtomicMutation`) needs one thing more: at most one call
carries the commit or the rollback out, the one that published its beginning; while it is about to
append to the ledger or to restore, the record has no outcome, although a `recover` may have parked
it; and a snapshot that still is the record has its approval (`Owned`). From the abstract transaction two results come almost for free: from a terminal outcome on nothing
changes the record, the ledger or what was restored (`TerminalKept`), and what is `recovering` or
`unknown` never reaches an outcome (`ParkedForGood`), the way out that section 5 finds missing.

`RequestAuthorityProofs` proves `IndexesCurrent` (`IndexesNameLiveOperations`), `CancelWins`
(`CancelPrecedesOutcome`) and `TerminalKept`, from the
types of the operations and from the fact that an outcome is only ever set with a terminal state.
That part makes no use of what the slots of the loop hold. A second invariant relates the two,
from which `TypeCorrect` and `WaitingIsWanted` (`WaitingWorkIsWanted`) follow: an id waits in one
place of one slot and is in no attempt (`Apart`), the slots know no id that was not minted
(`Minted`), and only an operation with an attempt awaits the confirmation of a stop (`TimersRun`):
the timer of a stop never ends an operation that still waits. A withdrawal leaves a part of the
queue (`Withdrawn`); `cancelAttempt` in the code takes the first entry with the id it is given, and
`Apart` says there is no second.
`Refinement` (`ImplementsWorkOrder`) rests on these and on two more facts: whoever was asked to stop
has ended or has its timer armed, and no other timer is armed (`StopsAwaited`); and a request whose
append is awaited waits on its own session only (`AtHome`), also after disposal, so that a failed
append takes back all of its work. Each step is one step of the order: a cancel is the `Stop` of
a whole set, a turn `Begin`s what waited longest, the end of an attempt `Report`s or, when nobody
listens any more, lets the work `Expire`. `StopsSettle` proves `CancelSettles` under `FairSpec` and
the hypothesis `TimerCanFire`, that `confirmTimeout` is enabled while its timer is armed on a live
operation. This is its guard; that the guard is ENABLED is again what the prover has no rule for.

`StopCascadeProofs` proves `TypeCorrect`, `StopReachesAll` (`NothingLeftBehind`), `StopsDescend`
(`StopsGoDown`) and `IndexKept` (`ChildrenIndexed`), for any number of operations, any tree and any
nesting of calls. The invariant says what the calls under way will still come to: the children left
in a call that walks, and all children of one that is outside and has not copied them yet. What a
stop owes lies in every set that holds these and, with an operation, its live children (`Owes`). A
commit in a nested call takes operations out of the index that are asked at that moment, and so
takes nothing out of reach that is owed; when no call is left the empty set is such a set, and nothing
is owed.

`AttachmentProofs` proves `TypeCorrect`, `LockDisciplineKept`, `RecordsStayReadable`,
`SingleChildKept`, `SourceKept` and `NewestSpared`, for any owners, contents, calls, records and
mishaps. The invariant has three parts. `CallsStaged` says what a call knows at each stage.
`JournalInv` says that whoever works on a content is at the head of its queue and that what a
`remove` has deleted or still has to put back agrees with the files (`ContentKnown`).
A step of a call either touches only the files of the content whose lock it holds and its own
record (`Works`), or no file at all. A count that was misled lets a `remove` go on although the
content is referenced; the second count either finds the reference or adds the content to `lost`,
and `ContentKnown` speaks of what is not lost. `ServiceInv` is about currency: a derived record
has one maker, a record that a `canRemove` lets go is neither the newest nor about to be published,
and as long as a derived record may be there its parent is not made current again (`ChildKnown`),
unless the owner's journal was misread, from which at most one child survives; what a read under way
has listed is bounded by what was made before it (`Listed`). TLC checks the whole invariant too.

`ToolCallsProofs` proves `RerunsBounded` (`RerunsAuthorised`): a call is repeated once at most, and
never against a current policy's stop. The invariant says that the decision for a call that was
repeated is used or forgotten with the whole authority (`RepeatedOnce`), and that an evaluation
opposed by a policy concludes with a stop (`OpposedMeansStop`). `TypeCorrect` and `AnsweredInOrder`
(`CallsAnsweredInOrder`) rest on two more parts: a call that was started is under way, has its
outcome, or has its result in the log (`PoolInv`); the log holds the started calls and the
committed results and nothing else, in model order (`LogInv`). When nobody is awaited any more and
the step goes on, all that was started is committed (`AllCommitted`): what the comment at
`forked-loop.js:337` says, "unreachable: a non-aborted group commits every started call", is
proved. The pairs of the calls that were never started then complete the log (`AllSkipped`).
`NoDeadlock` is the deadlock check of the run for every number of calls: until the step is done or
has failed, main, a dispatch or a policy that was asked has a step to take (`CanGo`, the guard of
`Progress`). Its invariant (`AliveInv`) says that an evaluation is under way for exactly the calls
somebody asks about, that main races for something, and that what it waits for was started.

`SessionChannelProofs` proves `TypeCorrect`, `ReadersSkipNothing` (`NothingSkipped`), `Refinement`
(`ImplementsEventLog`) and `DeadStaysDead` (`DeadChannelStaysDead`), for any windows, deadlines,
filters, feeds and numbers of everything that is bounded in the run. The
cursors that one engine gives out grow, and a sequence of the session grows throughout (`Numbered`),
so that a cursor of this engine or of an event's own sequence names one retained event at most
(`OneEventPerCursor`); of one that is `Foreign` this is false, and `ReadersSkipNothing` and `Refinement` do not speak of it. The rest of the
invariant has two parts. What is retained is the end of the session's log: eviction by count and by age only ever cuts at the head
(`ObserveRetains`). And what has reached a reader that named a cursor has no gap after it, and
contains the reader's watermark (`Reader`). From the first part a position in the window and one in
the whole log differ by a constant, so the frames of an answer are a continuation in that log
(`FramesOfTheLog`), which is the refinement; and an answer adds to what its reader has without
leaving a gap (`NoGap`). A dead channel stays dead because only a channel that `findChannel` serves
is extended, revoked or read through, and that one is alive (`ServedIsAlive`).

The assumptions are those the modules state on their constants (`LeaseAssumption`,
`JournalAssumption` and so on), which TLC evaluates in the runs, and the hypotheses named above:
`OneProcess` or `Turns`, and `LaneCanRun` and `TimerCanFire` in the two results about liveness.

With TLC stays liveness as the runs state it: `EveryCallAnswered` and `StepEnds` need an induction
over the calls, and `CancelSettles` is proved only up to the hypothesis on ENABLED. Every safety
property, action property and refinement of a passing run is proved. The queue operators the proofs
meet are written by position (`After`, `Pairs`, `Without`), not by recursion over a sequence,
because the provers cannot use the induction theorems.

## 5. Where the code and its documents disagree

Each is a run that TLC violates, quoted in `PROJECT.json`:

1. `recover` does not validate the lease, although a stale owner is said to be rejected;
2. a `prepare` that fails after claiming files keeps the claims, although it is said to release
   its temporary resources;
3. a session is exclusive only for requests whose predecessor is registered: two requests that
   overlap in the durable append are both accepted;
4. in a fresh process the first read of an owner's current attachment record may resolve after a
   publication and overwrite it, and a cleanup then removes the record just published.

Seen while modelling and not checked as a property: the clean-up of a refused claim releases
every file resource and relies on the adapter to refuse foreign ones
(`workspace-mutation-transaction.js:591`); a transaction that reached `recovering` or `unknown`
is never settled from the ledger, which is only asked while the state is `committing` (that it has
no way to an outcome is proved as `ParkedForGood`); the
rollback of a `fileClaim` mutation passes the generation string where `prepare` passes the lease
evidence (`:1122`); the duplicate answer for a key that waits in the slot names an operation id
that was never registered (`session-interaction-operation-authority.js:540`), and the same key on
two sessions is admitted twice while the first is being appended; an operation whose attempt
starts and ends during its own append never hears of it and stays accepted until it is
cancelled; the stop of an operation reaches no live operation below one that has finished, nor a child whose
append is still awaited; operations queued in the lane before `dispose` still run, on cleared maps; the catch block of
the journal's `remove` swallows a failed restoration of the content and then still restores the record
(`journal.js:367`), which is one of the two exceptions `lost` in `RecordsReadable`; the other is that the scan for
references swallows what it cannot read (`journal.js:134`, `:209`), so that two such failures in one
`remove` delete content that is still referenced; `find` answers with an unreadable file of any
record of the owner (`journal.js:239`), so that a concurrent removal makes a transform of another
record fail with `ATTACHMENT_CORRUPT`; a first load that cannot read the newest record takes an
older one for current (`journal.js:222`), from which a second record may be derived; a failing batch sets the
current record back to a snapshot and undoes a newer publication (`pipeline-service.js:666`); a
failed first listing of the journal leaves an owner without a current record for the life of the
service, and a cleanup then spares nothing, although the comment calls this fail-closed
(`pipeline-service.js:380`); a crash between an object and its metadata makes every later `put`
of that content fail, which the code's comment intends (`journal.js:176`).

Session channel: the events bus delivers an event as one frozen array of session and event
(`events-bus.js:585`), while the listener expects one object (`session-channel.js:329`), as the
mocks of the tests send it, so that no event of the real bus enters the log; this is one of the three feeds of the run, under
which every answer is empty. An event without a sequence, such as the listener's test sends
(`session-channel-cross-package.test.mjs:302`), is numbered by the engine (`session-channel-core.js:198`). The
count is shared by all sessions and begins again after a remount, and the engine cannot tell a cursor of
its predecessor from one of its own: with the feed of that test a reader that comes back after a remount
may be continued at another event without being told, although an out-of-window cursor is to be answered
with `resync-required` and events are never to be dropped silently
(`docs/specs/interactive-session-access/requirements.md:102`,
`docs/specs/remote-session-channel/design.md:202`). The connection's fencing table passes a callback to an `observe` that takes none
(`session-channel-connection/lib/slices.js:103`). A subscriber without a cursor whose first answer
was empty begins at the retained head, whatever was evicted meanwhile. An expired channel gets a new generation at
every look, and a revoked one may end as expired.

Tool calls and recovery: a repeated dispatch that fails sets no `schedulerFailure`
(`forked-loop.js:268`), so that further calls may be started until its promise is raced, contrary to
the comment above `executeToolCalls`; after a scheduler failure the recovery of another call may
still dispatch it again; the table of decisions evicts beyond 128 (`recovery-policy.js:829`), after
which a window may be decided anew; two overlapping evaluations of one window each remember a
decision; a proposal chosen before its policy was released still decides; neither evaluations
nor tools have a deadline.

Outside the modelled parts: the restore of a checkpoint plans on live state that it reads before
the awaits of planning and of the lease and does not read again, though the design orders a
re-check after the acquisition; each of its steps has one heartbeat, while a step may outlast the
lease. The circuit of a route stays half-open after a probe that was aborted or
never answers (`route-policy.js:603`). A delivery into a live operation awaits its attachments and
then reaches whatever turn is live (`session-interaction-operation-authority.js:430`).

## 6. Not modelled

Inside the modelled components: listings, previews, observers' payloads, redaction, bounded
texts, audit rings, backend labels, the resync flag of `watch`, staleness proofs that a unit
verifies itself, delivery into a live operation (`steer`, `queue`), the activity correlation; of
the attachments the batches, the official image store, admission and transform policies,
concurrency limits, projection, and a listing that sees only part of a concurrent change (the files of one directory
are read at one moment); of the durable lease two processes whose operations overlap, and a write that
answers with a promise and takes effect only after that answer; of the session channel the rate limits, the verifier and authorizer chains, redaction and the connection
and gateway packages; of the recovery policy the evidence, the validation of a proposal's
parameters, the audit, the bound of the decision table and the path of failed model requests; of
the agent loop everything but the interaction slice and the tool calls of a step.

Whole components not modelled are listed in `PROJECT.json` with their reason. Measured in lines they
are nearly all of the repository: client bundles (`lib/client.js` of the host and of the
packages), the forked runtimes, manifests and wiring, and table-driven surfaces whose state is one
step deep. The modules here cover the authorities where several actors meet.

## 7. Plan

Done, most important behaviour first: the lease with its memory adapter and its storage bridge,
both against `FencedLease`; the workspace transaction over the lease, against `AtomicMutation`; the
request authority with the loop's slots, against `WorkOrder`, and its stop cascade call by call; attachment journal and pipeline; the session channel against `EventLog`; the tool
calls of a step with the recovery policy; and proofs for each of them.

What would follow:

1. `CheckpointRestore`: the plan, the lease and the stop of a live attempt, with what is read
   before each await (section 5).
2. `TaskRegistry`: claim, reassign and settle over the lease and a compare-and-swap.
3. Delivery into a live operation, with the agent's inbox, in `RequestAuthority`.
4. `RouteBreaker`: the circuit breaker of the route policy with its clock.
5. Batches in `AttachmentPipeline`.
6. `ExecutionObservation`: the reducers as pure functions against a reference definition.
