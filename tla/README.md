# Formal models of corvint-tasks

TLA+ models of the journal-backed task store of `corvint-tasks`, the TLC runs
that check them, and TLAPS proofs about them. Paths below are relative to the
repository (`src/` is its root, `internal/...` means `src/internal/...`).

| File | What it is |
|---|---|
| `FixtureStore.tla` | the writer: `internal/store` over the journal, the staging slots and the intent projections |
| `AtomicStore.tla` | what a caller is promised: an atomic, once-only, versioned store |
| `MCFixtureStore.tla`, `StoreSafety.cfg`, `StoreRedo.cfg` | the passing runs of the writer |
| `StoreClaims.tla`, `Claim*.cfg` | statements of the documentation that the code does not meet |
| `FixtureStoreProofs.tla` | the inductive invariant of the writer, the theorems that follow, and the refinement of `AtomicStore` |
| `SnapshotReader.tla` | the read commands beside the writer: `snapshot.Reader` around the pinned load of the intent tree |
| `MCSnapshotReader.tla`, `Readers.cfg`, `ClaimForked.cfg` | the runs of the reader |
| `SnapshotReaderProofs.tla` | the reader's inductive invariant and the theorems that follow |
| `ArchiveExport.tla`, `MCArchiveExport.tla`, `ArchiveExport.cfg` | `archive export` beside the writer and the editor |
| `ArchiveExportProofs.tla` | the export's inductive invariant and its two theorems |
| `TicketLifecycle.tla`, `MCTicketLifecycle.tla`, `TicketLifecycle.cfg` | what the ticket verbs and the adoption of a hand edit may do to records |
| `TicketLifecycleProofs.tla` | typing, dependencies, serials, acceptance, revalidation, hand edits and advice, for every sequence of verbs and adoptions |
| `ReleaseControl.tla`, `ReleaseControlProofs.tla` | release records, candidates, attestations and promotions beside a source tree that moves, and its proofs |
| `RepoLock.tla`, `RepoLockProofs.tla` | the polling acquisition of `taskman.lock`, and its proofs |
| `StoreCapacity.tla`, `StoreCapacityProofs.tla` | the admissions of plans, redos and aborts at the archive's limits, and its proofs |
| `MCParts.tla`, `Parts.cfg` | the run of the last three parts, which share no state |

## 1. The system

One repository holds one queue. Its *private state* (`<common>/taskman/`:
receipts, `head.json`, `barrier.json`, `reservations.json`, the request index
`requests/<xx>/<sha>`, `evidence/`, `pinned/`, `staging/`) is written only by
the program. Its *intent projections* (`queue.json`, `policy.json`,
`tickets/*.json`, `releases/*.json` in the primary worktree) are written by the
program and tracked by Git, and a human may edit or check them out at any time.

### Inventory

| Component | State it keeps | Operations | Hard about it | What makes it correct |
|---|---|---|---|---|
| Store writer `internal/store` | none in memory between commands; all the files above | `Init`, `Mutate`, `Release`, `PolicyUpdate`, `Barrier`, `Reconcile`; `apply`, `redoPending` | crash or error between any two publications, retries, human edits in every window | one chain of receipts; once per request; receipt before posts before head; no lost update; nothing a human wrote is overwritten |
| Transaction model `internal/transaction` (`model.go`) | none (pure) | `Model`, `freeze` | decides on what was read earlier | only canonical content is replaced |
| Capacity `internal/transaction` (`capacity.go`, `recovery.go`) | none (pure) | `CheckCapacity`, `RedoCapacity`, `AbortCapacity` | bounds at their limit, posts in another order than checked | a plan that is admitted never passes a limit, can be redone or abandoned, and leaves a paused store its UNPAUSE |
| Staging descriptors `internal/snapshot/stage*.go`, `transaction/stage.go` | `staging/active.json` | `ClassifyStage`, `Cleanup` | a crash between an unlink and its fsync | (no caller in this commit; not modelled) |
| Journal audit `internal/journal` | none | `Audit`, `BarrierRemoval`, `Reconciliation`, `RequestIndex.Lookup` | reads many files while a writer may run | an answer describes one state of the store |
| Lock `internal/authority/lock.go` | `taskman.lock`, an flock | `AcquireLock`, `Close` | deadline, cancellation, replaced lock file | mutual exclusion; bounded wait |
| Authority session `internal/authority/fixture_session.go` | pinned directories, live stages | `Prepare`, `Link`, `Replace`, `RemoveBarrier`, `RemoveStage`, `Mkdir` | effect performed but completion failed | no slot is lost, no destination clobbered |
| Readers `internal/snapshot/probe.go` | none | `Probe`, `Reader.Read` | no lock; a writer may commit in between | a returned snapshot held while the body ran |
| Ticket mutations `internal/mutation`, `internal/ticket` | ticket records, `nextSerial` | fourteen verbs, `Adopt`, the derived view | long legal sequences; hand edits | valid records, acyclic dependencies, numbers that pin what they name, advice that can be followed |
| Release control `internal/release` | release records | CREATE, UPDATE, CANDIDATE, EXTERNAL_ATTEST, MANUAL_ATTEST, PROMOTE | evidence that ages, a source tree that moves while it is read | a promotion rests on evidence that answers today's policy, tickets and predecessors, and is never undone |
| Archive `internal/archive` | none | `Export`, `Verify` | exports while a writer may run, listing and reading piece by piece | what is delivered is the store of one settled moment |
| Intent, wire, safeopen, cli, fixture | none | codecs, discovery, flags | single values | (not state machines) |

### How they interact

A mutating command (CLI -> `store`) resolves the repository, takes
`taskman.lock` for its whole run, opens an authority session, checks the
writer guards, completes a pending receipt (`Mutate`, `Release`,
`PolicyUpdate` only), looks the request id up in the index, audits the journal,
computes a `transaction.Plan`, re-reads what it had observed and applies the
plan: evidence, receipt (the commit point), posts, barrier deletion, head.
Readers (snapshot, archive, journal audit) take no lock.

`transaction.Model` asks `mutation.Apply` or `Adopt` (tickets) or
`release.Apply` (releases) for the post record; `CheckCapacity` has the last word
before a plan is applied. A release session additionally reads the Git source
tree, which neither lock nor journal protects. `FixtureStore` takes the post
records as given; `TicketLifecycle` and `ReleaseControl` say which they are, one
committed receipt per step.

Everything hard about the writer follows from two facts: the plan is published
file by file, so an error or a crash can fall between any two files; and one
half of those files can be changed by a human who takes no lock.

## 2. FixtureStore

### State

| Variable | In the code |
|---|---|
| `stateDir` | existence of the state dir and its subdirectories (`Mkdir` in `Init`) |
| `receipts` | `receipts/<n>.json`; a receipt has the request it carries (`cmd`), its `pre` and `post` entries and the blobs it refers to |
| `head` | `lastSeq` of `head.json`, 0 when the file is absent |
| `file` | contents of every projection: policy, queue, tickets, releases, the barrier, one request-index file per request id |
| `evidence`, `slots` | blobs in `evidence/`; number of occupied `staging/aNN` slots |
| `phase`, `cmd`, `plan`, `redoing`, `todo`, `how`, `mine` | local state of the one process that holds the lock: program point, request, plan, whether it runs `redoPosts`, posts left, the decision for the current artifact, and the slots its deferred cleanup owns |
| `acked` | history: what was reported `COMPLETED` to callers |
| `edits`, `faults`, `crashes` | counters that bound the environment |

A number `n` as file content stands for the bytes that receipt `n` computed for
that path, 0 for the queue and policy authored before `init`; `EditBytes` are
contents only a human writes. Two contents are equal when their SHA-256 digests
are.

### Actions

| Action | Code |
|---|---|
| `BeginInit`, `MakeDirectories` | `store.Init` up to `apply` |
| `Mutate`, `PolicyUpdate`, `Barrier`, `Reconcile`, and `Begin`, which is any of them | the entry points of `internal/store` (`Release` goes the way of `Mutate`): each takes the lock and runs its guards, then `Fresh`, `Replay` or, the first two only, `StartRedo`; a refusal changes nothing and is no step |
| `Fresh` / `Replay` / `StartRedo` | audit, index lookup and `transaction.Model`; the stored answer; `redoPending`'s validation |
| `Resume` | the same command after its redo |
| `StageEvidence`, `LinkEvidence`, `StageReceipt`, `LinkReceipt` | phases 0 and 1 of `applyWithFaults` |
| `SkipPost`, `StagePost`, `RefusePost` | the redo rule `settled` |
| `LinkPost`, `VerifyPost`, `RenamePost` | `Link`; `Replace`: its second read of the destination and its rename are two steps, and an edit in between (`how = "raced"`) is renamed over |
| `PostsDone`, `DeleteBarrier`, `StageHead`, `PublishHead` | `removeBarrierPost`, the head artifact, `advanceHead` |
| `Finish`, `Abort` | deferred `RemoveStage` calls, the report, the release of the lock |
| `Fault` | any native call returns an error, before or after its effect (`fixtureEffectError`) |
| `Crash` | the holder dies, or its cleanup fails: the disk stays as it is |
| `Edit` | a human writes, deletes or checks out one projection, at any time |

Modelling decisions a reader should know:

* The steps before the first effect are one action. They read, under the lock,
  files that only the editor can change, and `bindObservation` (or the second
  audit of `Barrier` and `Reconcile`) repeats the reading right before the
  effects; an edit that falls in between is refused as if it had come first.
* The three ways a record is written by one post are one operation `MUTATE`;
  `base` is the record whose revision the caller expects, `NoFile` for a CREATE
  under an explicit name or a release CREATE. `CREATE` is the serial create,
  which republishes the queue. `POLICY_UPDATE` is the blob-backed case.
* Only the `ADMISSION` barrier is reachable: no operation of this commit
  writes an `ALL` barrier. It does not stop mutations, as in the code.
* `KEEP_JOURNAL` of a release has no "nothing to change" answer for identical
  bytes, unlike that of a ticket; `ADOPT_FILE` is refused for releases.
* An `INIT` that fails leaves a state dir without a head; later
  initializations are refused (`BLOCKED`) and no other command finds a store,
  also when the genesis receipt was linked (`NeverRedone`). The model keeps that
  state.
* The limit of 11 slots and the `RESTORE_INCOMPLETE` marker only refuse and are
  not modelled; nothing in the model stages more than 9 artifacts.
* `VERSION`, `reservations.json` and the pinned INIT record are posted once by
  the genesis receipt and never again; they are represented by the policy and
  the queue it posts beside them.

## 3. SnapshotReader

`SnapshotReader` extends `FixtureStore`: the writer, the editor, errors and
crashes go on while a reader, which takes no lock, reads one file at a time.
`StoreStep` is a step of any of them.

| Variable | In the code |
|---|---|
| `at`, `pass`, `attempt` | program point; first probe, body or re-probe; the loop counter of `Reader.Read` |
| `obs`, `left` | the `Snapshot` that the running probe fills, and the listed files `TreeDigest` has not read |
| `first`, `bodyErr` | `s` and `bodyErr` of `Reader.Read` |
| `verdict` | how the last read ended |
| `instants` | history: the states the store went through during the read |

| Action | Code |
|---|---|
| `BeginRead` | `withStore` calls `Reader.Read` |
| `ReadHead`, `CheckSecondSlot`, `CheckNextSlot`, `ReadBarrier` | `Probe` and `checkSlots`; a failed probe is returned verbatim |
| `ListDirectory`, `ReadFile` | the two phases of `TreeDigest`, in all three passes |
| `EndFirstProbe`, `Load` | the end of the first probe; the digest comparison of `LoadExpecting` and its decoding |
| `EndRead` | `Same`; answer, retry or `SNAPSHOT_MOVED` |

* `rename(2)` replaces a file at once, so reading one file is one step. Listing
  one directory is one step as well; the last receipt, which nothing replaces,
  is read with the barrier.
* Decoding may fail exactly on a tree that is not the canonical one of the
  pinned head; `MALFORMED` stands for all its error codes. What a verb then
  computes from a loaded tree is not modelled.
* With unlimited human edits that change two files back and forth in step with
  all three passes, a read can pair contents that never met; the digests cannot
  tell. The runs have one edit; the theorems about what a moving store is
  reported as have none, those about types and quiet reads have any number.

## 4. ArchiveExport

`ArchiveExport` composes the writer and the editor of `FixtureStore` with the
probes of `SnapshotReader` (with `Retries = 0`, as `readArchive` uses them) and
the body of `archive.Export`.

| Action | Code |
|---|---|
| `BeginExport`, `BeginAttempt`, `EndAttempt` | `readArchive`: up to `Attempts` one-shot reads, repeated for `SNAPSHOT_MOVED` only |
| `Probe` | `snapshot.Reader.Read` around the body |
| `ListBefore`, `CaptureFile` | `captureLayout`: seven directories one after the other, then the intent files, which must be the listed ones |
| `CheckCapture` | the comparison with the probed tree; `validateStage` |
| `ReadBarrierFile`, `ReadHeadFile`, `CountReceipts` | the digest pass, the receipt count, the copy pass |
| `ListAfter` | the deferred second listing, whose difference overrides any outcome of the body |
| `VerifyAndDeliver` | `Verify` of the staged stream, then the copy to the caller, which may fail half way |

Names of receipts, request records and blobs stand for their bytes, since these
files are never replaced. Equal contents stand for the same identity, size and
time, which makes the comparison of listings weaker than the code's.

## 5. The parts without the journal

* **TicketLifecycle.** `ticket` is the inventory of canonical records,
  `nextSerial` the queue's. One action per verb, through `Step` (role and status
  rules and the change), `Finalize` (acceptance revision, dependencies, gates,
  the closed validator) and the caller's expected revision; `Create` with
  `AllocateSerial`; `AdoptFile` with the composition of a hand edit into verbs.
  `Blockers` and `NextAction` are the derived view. A refused verb is no step.
  Replay is answered by the store before any of this runs. The rows that a policy
  removes from the role matrix are `RemovedOps`. Dependencies are lists of edges
  (ticket, obligation, gate), and a payload may carry any of `DependencyLists`:
  like `readDependencies`, decoding lets a repeated edge and an obligation without
  its gate through, and `Revalidate` (`EdgesProper` within `Valid`) refuses them.
  `FitsFile` is the bound on an encoded record, which `Revalidate` and the reading
  of a hand-edited file share; the proofs hold for every such predicate.
* **ReleaseControl.** `release`, `scoped` (tickets) and `policy` are canonical
  records; `head` and `worktree` the Git source; `session` what the running
  CANDIDATE or PROMOTE session has observed. `Observe`, `ObserveHead` and
  `ObserveFile` are `ObserveSource`, one git command or file at a time, while
  `Edit` and `GitCommit` go on; `Capture` and `Promote` end the session. The lock
  keeps `TicketVerb`, `PolicyUpdate`, `Define` and `Attest` out of a session.
* **RepoLock.** `entry` is the inode the name leads to, `flock` the owner of each
  inode's lock, `call` the program point, descriptor, deadline and cancellation
  of each process. `Acquire`, `Stat`, `Open`, `Confirm`, `Attempt`, `Wake`,
  `Verify`, `Return` and `Close` are the code in order; `Replace`,
  `MoveDirectory`, `Die`, `Cancel` and `Tick` the environment. `lost` remembers
  that the file was replaced after a call had looked for the last time, which no
  caller of flock can prevent.
* **StoreCapacity.** `kept` is the inventory as five counters, `plan` and `left`
  the plan being published and its outstanding posts. `Admit` is
  `CheckCapacity`, `Resume` is the capacity guard of `RedoCapacity` (not the checks
  of `validateRedoInventory`, that an inventory matches its receipt); publication
  happens in any order, and `Interrupt` falls between any two publications.

## 6. Properties and runs

| Property | The hazard it is about |
|---|---|
| `TypeOK` | types; that cleanup never removes more slots than exist |
| `ChainOrder` | no fork, no gap, at most one receipt beyond the head |
| `RequestOnce` | a retry after an error, a crash or a lost answer commits nothing twice |
| `NoPostBeforeReceipt` | no projection carries bytes of a receipt that is not linked |
| `SettledProjections` | the head never overtakes a post |
| `EvidenceFirst` | blobs, and the bytes a reconciliation discards, outlive the receipt |
| `NoLostUpdate` | what is replaced is what the caller had read |
| `AckedIsCommitted` | an answer is true and about that very request |
| `OverwritesOnlyPre` | bytes that are not the receipt's `pre` are overwritten only if they came after `replace` had looked for the last time |
| `ImplementsAtomicStore` | refinement: `receipts` is a log, a command takes effect when its receipt is linked, it is settled by the head |
| `IdleIsRedoable` | a receipt that a returned command left pending may be redone by the next mutating one, unless it is `NeverRedone` (a failed `INIT`; the deletion of an `UNPAUSE`) or a human changed its projections |
| `PendingRedone` | and eventually is, with the same exceptions |
| `FailedUnpauseWaits` | a failed `UNPAUSE` is never guessed at: receipts, head and barrier stay until somebody can finish it (as `docs/SPEC.md:604-606` says, no command of this commit can) |
| `LockReleased` | every command returns |
| `ReadIsAtomic` | a successful read pairs a head, a barrier and an intent tree that held together, settled, at one instant of the call |
| `FailureIsAFact` | a decoding error is one of a single state, never of a read across a commit |
| `PendingIsTrue` | `REDO_PENDING` is about a receipt that was pending during the call |
| `QuietReadAnswers` | a store that stands still gets the answer it deserves at once, never "moved" |
| `ExportIsOneMoment` | what is delivered is the store at one settled instant: head, barrier, intent tree, receipts, request records and blobs |
| `CountAndStreamAreFacts` | the export's own two accusations, a count of the receipts and a stream that does not verify, are never about a store that merely moved (`claim_export_moved` and `claim_forked_read` show two others that are) |
| `DependenciesResolve` | every dependency leads to a record, and no sequence of changes leaves a group of tickets that waits for itself |
| `SerialsSound` | no two records share a serial, and CREATE finds a free one while there is one |
| `StepsStayValid` | the step rules keep a record inside the closed validator by themselves, but for two payloads: a self-supersession, and a dependency list that repeats an edge or pairs obligation and gate wrongly |
| `HandEditIsTheVerb` | a file edited as one verb would have, and within the bound, is adopted, to the verb's record |
| `NextActionHelps` | the advised verb can be issued, and some use of it removes the blocker it is advised for exactly if that is not `TICKET_STATE` |
| `AcceptanceIsPinned` | revision, acceptance revision and completion never stand for two different things |
| `PromotionChain` | what was promoted, and what it was promoted on, is never undone |
| `ReleaseOrderSound` | the predecessor relation has a first release in every set |
| `ReadyIsPromotable` | what the assessment calls READY the validator accepts as promoted |
| `PromotedOnCurrentEvidence` | evidence answers the policy, tickets and predecessors of the moment of promotion |
| `QuietCaptureIsClean` | a capture that nobody raced binds the committed tree of its commit |
| `OneHolder` | two holders only if the file was replaced after one of them looked |
| `AcquireReturns` | every call returns by its deadline, whoever keeps the lock |
| `NeverBeyondLimits` | no order of publication, and no interruption, passes a limit |
| `PausedCanUnpause` | the largest UNPAUSE is admitted whenever a store is paused |
| `RecoveryNeverRefused` | a linked receipt is never refused its redo for capacity, nor an abandoned preparation its abort |

`ReaderTypeOK`, `TicketTypeOK` and `PartsTypeOK` are the type invariants.

| Run | Bounds | Shows |
|---|---|---|
| `store_safety` | 1 ticket, 1 release, 3 requests, 3 receipts, 1 edit, 1 fault, 1 crash; 231 684 states | every safety property of the writer and the refinement |
| `store_redo` | 3 requests, 3 receipts, 1 edit, 1 fault, no crash, fair | the redo properties |
| `readers` | 1 ticket, 1 retry; 3 receipts without an edit or 2 with one; 1.0 million states | reads across whole and half commits and an edit; quiet stores |
| `archive_export` | 1 ticket, the genesis store, 1 more commit, 1 edit of the queue made while no command holds the lock, 2 attempts; 0.3 million states | exports across a commit and an edit |
| `ticket_lifecycle` | three scopes of 5 mutations; 2 holds, 2 approvals, 3 tickets, lists of up to 2 dependencies, files of up to 2 list entries; 26 161 states | sequences of verbs, hand edits, creations |
| `parts` | four instances, see below; 0.76 million states | releases, lock, capacity |
| `claim_*` | smallest bounds that exhibit the disagreement | section 8 |

The bounds are the smallest at which the cases that matter meet: three receipts
are `INIT`, a transaction, and one that conflicts with, undoes or reconciles it
while the chain is at its limit; one edit, one fault and one crash in the same
behaviour already give every window (an edit between `settled` and `replace`, a
fault after the commit point, a crash of the redo that follows it). A second
ticket or release adds another post of the same kind, and the proofs hold for
any set of them. The reader's run needs three receipts for a successor of a
successor of the head a reader saw, and one retry for a moved attempt that is
repeated and one that is not. Request ids are symmetric in the runs of the store,
the reader and the export.

The export begins on the store that `INIT` left, for an export only compares what
it reads in one call; the commit beside it is one with a blob, a new request
record or a new barrier (`CREATE`, `PAUSE`), the edit falls between two commands
(the writer's runs have it inside one), two attempts give a moved one that is
repeated and one that is not, and nothing is followed after the outcome. The
theorems of section 7 have no such bounds, but no edit.

`MCTicketLifecycle` chooses a *scope* in its first state: a queue that grows and
rewires its dependencies ("graph"), one ticket that meets every verb ("record"),
one ticket whose file is edited by hand ("file"). No verb reads more than its own
record and the graph, so each scope keeps the other inputs at one value. Three
tickets give a cycle that is not a pair; serials up to 3 give one that is taken
by an explicit token and one that cannot be issued. Lists of two dependencies
give a repeated edge, the class `MANUAL` one that is never eligible, and files of
two entries a record that outgrows its bound.

`MCParts` chooses a *part* in its first state, and only that part moves: the
parts share no state, so their product would add nothing. "race" is one release
beside two edits or commits of a source of two files, with three receipts
(create, capture, promote or a second capture); "chain" is two releases that may
name each other, two policies that disagree on the kind and the requirement of a
gate, and two ticket verbs or policy updates between nine receipts; "lock" is two
processes, two lock files and a wait of two ticks; "capacity" has limits of 5
receipts, 8 journal bytes, 2 blobs, 4 intent bytes and 18 scanned entries, at
which each limit binds in some state.

The runs do not check deadlock: a store whose journal is full, a queue whose
mutations are spent, a lock whose clock is at its bound or an export that has
ended has no step left.

### Fairness

`FairSpec` assumes `WF(Holder)`: a process that was started runs until it
returns, since between two effects the code does nothing that can block; and
`SF` of `Mutate`: operators keep issuing mutating
commands, and one of them is taken infinitely often if it is infinitely often
possible. `LockFairness` assumes `WF(Proceed(p))` for each process and `WF(Tick)`: a
runnable process runs and time passes; nobody is forced to close a lock.
Neither editors, nor faults, nor crashes, nor cancellations are forced. Crashes
are excluded from `store_redo` because after one the property fails
(`claim_crash_redo`).

## 7. Proofs

`FixtureStoreProofs` proves for every set of tickets, releases and requests and
for every bound, from `ConstantsAssumption` alone: `TypeCorrect`, `OneChain`,
`AtMostOnce`, `ReceiptBeforePosts`, `BlobsBeforeReceipt`, `UpdatesAreNotLost`,
`AnswersAreTrue` and `OnlyPreIsOverwritten`, whose statement leaves out exactly
the window of `replace` between its second read and its rename.

None of these properties is inductive: that a link does not commit a request a
second time depends on what the holder had looked up several steps earlier,
with faults, crashes and edits in between. `Inv` says what the holder knows at
each program point:

* `Planned`: until the receipt is linked, the plan is well formed, its request
  is in no receipt, it was decided on the content of the receipts below it, and
  its blobs are in evidence once the receipt is staged;
* `Underway`: from the link until the head, the plan is `receipts[head + 1]` and
  the outstanding posts are among its posts;
* `Holding`, `Checked`, `Finished`, `Staging`, `SlotsOK`, `Uncommitted`: what
  the remaining points know (the slot it will consume is its own; the answer it
  will give names the receipt the head has just reached).

`Chain` is what readers of the journal see. The proof that a step preserves
`Inv` has one lemma per action; `LatestFrame` and `HeldIsContent` carry the
facts about latest afterimages, `PlansAreSound` those about `transaction.Model`.
`Inv` was checked with TLC before it was proved.

The second half of `FixtureStoreProofs` proves two theorems that need to know
not only when a plan was decided but what it says.

* `StoreIsAtomic` (`Spec => ImplementsAtomicStore`): under the mapping of
  receipts to a log, the link of a receipt is the transaction of `AtomicStore`,
  the rename of the head its settlement, and every other step, fault, crash and
  redo a stutter. `AbstractInv` supplies the guards of the abstract transaction:
  what the holder has planned is what its verb may change (`Justified`, `Genesis`),
  every receipt indexes its own request and no other (`Indexing`), and a command
  that resumes after its redo still has its targets (`Resuming`).
* `HeadImpliesPosts` (`Spec => []SettledProjections`): a path no human touched
  holds its canonical content or, while a receipt is pending, that receipt's
  (`Following`); what is no longer outstanding has been published (`Publishing`,
  `Deleting`, `Heading`), so the head that is renamed last finds every post done.
  `SkipPost`, by which a redo accepts bytes it finds, and the deletion of the
  barrier, which `apply` leaves to `removeBarrier`, are the cases where this could
  go wrong.

Its last part proves what errors leave behind (`RecoveryInv`, on top of `Inv` and
`ContentInv`): what a receipt replaces is the content below it (`Anchors`); what
was decided for the next post still holds when it is made (`Decisions`); a
command fails, or leaves a receipt pending, only because a native call returned
an error, and until a second error every occupied slot is one its holder will
remove, but for the slot of the head a redo has staged (`Errors`).

* `UntouchedIsPreOrPost`: whatever errors and crashes interrupted it, a linked
  receipt whose projections no human touched finds each of them at its latest
  content or at the receipt's `pre`, so the audit never takes it for diverged.
* `OneErrorIsRedone`: `IdleIsRedoable`, with its exceptions (`NeverRedone`: a
  genesis receipt without a head, and the deletion of an `UNPAUSE`), with no edit,
  no crash and at most one error. These conditions are needed: a crash leaves a
  slot nobody owns (`claim_crash_redo`), and a second error, of a redo, the slot of
  a head.
* `UnpauseIsNotGuessed`: `FailedUnpauseWaits` for any number of edits, errors and
  crashes. While a receipt that deletes the barrier is pending, whatever holds the
  lock with another command is a redo of that very receipt, and its outstanding
  posts keep the deletion, which only `removeBarrier` of the original performs.

`SnapshotReaderProofs` proves `ReadsAreAtomic`, `FailuresAreFacts` and
`PendingIsReportedTruly` of the composed system for every number of
transactions, errors, crashes and attempts, under the assumption that no human
edits (`MaxEdits = 0`). `ReadersWriteNothing` makes every step of the system a
step of the store, so `Inv` holds beside readers too. `ReaderInv` says, at each
point of a read, that what was read under head `h` still stands or that receipt
`h + 1` is linked (`Overtaken`), which a later slot check cannot miss: `Probing`
and `Pinned` for the first probe, `Confirmed` for the re-probe, `Warned` for the
slot checks themselves. `StoreFrame` gathers what a step of the store may do to
the files a reader looks at, and `HeadStands` why a head without a successor is
the current one.

Two more of its theorems hold for any number of edits as well.
`ReaderTypeCorrect` rests on `Local`, which ties the program point, the pass and
the partial snapshot together. `QuietReadsAnswer`
(`System => []QuietReadAnswers`) rests on `Quiet`: as long as the store has been
in one state since the read began (`Alone`), all that was read is what the store
holds (`Steady`), whatever happened to the store before; once it has moved,
nothing is claimed. That a body's error and the answer agree takes `Told`, what
the body may have said of the very store that is there.

`ArchiveExportProofs` proves `DeliveriesAreOneMoment`
(`ExportSpec => []ExportIsOneMoment`) and `CountAndStreamAreTrue` for every
number of transactions, errors, crashes and attempts, again with `MaxEdits = 0`.
An edit that is taken back between two looks leaves equal contents, which the
model cannot tell from an untouched file (section 4), so with unlimited edits the
statements would be about the abstraction. The difficulty is that nothing the
export has listed is known to be current while it runs: what was listed only
grows, and that it also stood still is learnt at the slot check of the second
probe, after everything has been copied. `ExportInv` therefore carries
conditional facts.

* `Growing`, `Remembered`: the listed names are still there, and *if* nothing
  follows the probed head (`Standing`), they are all, and the remembered moment
  is the present. Blobs come before their receipt, so they may grow even then;
  the moment's lie between those of the two listings.
* `Copying`, `Miscounted`: what a body without a refusal has compared, and that a
  refused count had a reason.
* `Backed`: once the second probe has passed its slot check under the first one's
  head, the copy is `Coherent` and the count was not refused
  (`StandingIsCoherent`, the one lemma where the conditions are discharged).

`SettledStore` says what a store between two transactions looks like: receipts
up to the head, one request record for each, and a queue the program computed.
It needs `Inv`, `AbstractInv`, `ContentInv` and `QueueWritten` (no verb gives the
queue a value of its caller's), hence a staged stream always verifies.

`TicketLifecycleProofs` proves, for every role matrix, limit and payload, and
any sequence of verbs, creations and adoptions, all seven properties of the run;
it assumes of the constants what `TicketLifecycle` does, among it that the
templates of CREATE and the dependency lists of payloads are of the type of their
fields (`Templates \subseteq Template`, `DependencyLists \subseteq Seq(Edge)`),
and nothing of `FitsFile`. Verbs and adoptions end in the same finalization; `Committed` says
what it leaves of a record and `Born` what a creation does. `TicketInv` says that
every record has its `Shape`, is accepted by the closed validator (`Valid`), and
is a DRAFT only while nothing opens it (`Derived`); that dependencies resolve, no
two identities share a serial, and the inventory is finite.

* `NoTicketWaitsForItself` (`DependenciesResolve`). A changed record may depend
  only on tickets from which it is not reachable: in a group that contains it,
  either a ticket that waited for none of the others still does, or the group
  reachable from the changed one is smaller and does not contain it.
* `SerialsNeverWedge` (`SerialsSound`). That `CREATE` finds a serial is a
  pigeonhole: the window `allocateSerial` looks at is one wider than the
  inventory (`SerialFound`).
* `AcceptancePinned` (`AcceptanceIsPinned`) and `RecordsWellTyped`
  (`TicketTypeOK`) follow from `TicketInv` and the shape of what each verb builds.
* `ValidatorRefusesTwoPayloads` (`StepsStayValid`): verb by verb, what the step
  rules accept the validator accepts too, given a record that it accepts, but for
  the two payloads the property names. Only `REFINE` writes `supersedes` and only
  `SET_DEPENDENCIES` the list of dependencies (`WhoWrites`).
* `HandEditsAreVerbs` (`HandEditIsTheVerb`). `adopt` compares a file with its
  record part by part; the proof shows that after the edit of one verb every
  other part is equal, so the composition is empty or exactly that verb. `Derived`
  is needed here: a verb that assigns what is there already would open a DRAFT that
  its criteria open, while an adoption that sees no difference composes no verb.
* `AdviceIsSound` (`NextActionHelps`). `NoCycle`: of a record that satisfies
  `TicketInv` a view never reports `DEPENDENCY_MISSING` or `CYCLE`; for each other
  code, the advised verb commits (`VerbCommits`) and, but for `TICKET_STATE`, what
  it leaves does not have the code (`AdviceHelps`). For `TICKET_STATE` the verb is
  `REFINE`, which keeps the class (`RefineKeepsClass`), so no use of it helps. The
  advice takes for granted what `AdviceOpen` says, and the run's
  constants satisfy: an owner is bound, no policy row takes the advised verbs
  from him, an effect set can be qualified, and there are ids enough for a
  full list of approvals.

Two loops, of an adoption over the verbs it composed and of a removal by ids over
its list, are recursive functions of the model. Instead of an induction theorem,
which would take an operator as its parameter, the proofs take the least length
at which such a function would not exist, or a claim about it fail
(`LoopsCompose`, `LeastOfSome`), and build it there from the length before.

`StoreCapacityProofs` proves `LimitsHold`, `UnpauseIsAdmitted` and
`RecoveryIsAdmitted` for every limit, plan and order of publication, with an
interruption between any two publications. `CheckCapacity` measures one order of
the posts; `CapacityInv` says what that leaves in each stage for every other:
`Room` for the posts still to come, whichever comes next, and the `Reserve` of one
`UNPAUSE` if they leave the store paused. Room and Reserve are kept by each single
post, do not depend on the order, and imply every prefix `RedoCapacity` measures.
`CapacityTypeCorrect` types the store; it assumes that the value standing for no
plan is not itself a plan.

`RepoLockProofs` proves, for any number of processes, any wait and poll
interval, and any replacement of the lock file: `MutualExclusion`
(`LockSpec => []OneHolder`) and `NothingLeftHeld`
(`LockSpec => []FailureHoldsNothing`). `OneHolder` is not inductive: that a
holder's descriptor is on the current file was decided when it looked, and
another process may since have opened, been granted and looked itself. `LockInv`
says of every call which inode its descriptor is on (`Descriptor`), that a call
beyond the grant is the owner of that inode's lock (`HolderWasGranted`), that a
lock belongs only to such a call (`GrantIsHeld`), and that after the last look
the name still leads to that inode unless `lost` is set (`LookedIsCurrent`). Two
holders that are not `lost` are then on one inode, whose lock has one owner.
There is one lemma per action; `RefuseKeeps`, `OneCallKeeps` and `AdvanceKeeps`
carry what the actions share. `LockTypeCorrect` is the typing inside `LockInv`.

`ReleaseControlProofs` proves all five promises of `ReleaseControl` for any
releases, tickets, gates, policies and files. `PromotionChain` is not inductive:
that a promotion may name the promotion of each predecessor was decided at the
capture, many operations earlier. `ReleaseInv` adds what every record keeps in
between: its validator admits it (`RecordValid`) and a candidate bound promoted
predecessors only (`WellFormed`); a promoted record rests on promotions that
stand (`Rests`). `PublishKeeps` carries what the four publishing operations
share: one record changes, and no promoted one. From `ReleaseInv` follow
`PromotionsStand`, `PromotionsAreCurrent` (of the one step that promotes) and
`ReadinessIsEnough`. `QuietCapturesAreClean` needs `SessionInv`: a session
nobody raced has read the committed files in order. `OrderIsSound` needs no
induction over the graph, for `ValidateGraph` runs at every write over exactly
the definitions that are there afterwards (`PublishOrders`); it assumes
`AbsentIsNoRecord`, that the value standing for an absent record is not itself a
record, which a model value is not. `ReleaseTypeCorrect` types records, tickets,
policy and session; it is inductive with a ticket's acceptance revision never
ahead of its version (`TypedWorld`).

Model-checked only:

* the liveness properties and what they assume (`PendingRedone`, `LockReleased`,
  `AcquireReturns`): TLAPS has no rules for fairness here;
* `IdleIsRedoable` with an edit: `store_redo` checks it with one edit and one
  error; `OneErrorIsRedone` proves it without edits. It fails with a crash, with a
  second error in a redo, and with an edit that is taken back, so no theorem could
  state it for every bound;
* the reader's three properties about a moving store, and the export's two, while
  humans edit;
* `PartsTypeOK` as one formula: it is the conjunction of three type invariants,
  each of which is a theorem of its own part (`ReleaseTypeCorrect`,
  `LockTypeCorrect`, `CapacityTypeCorrect`).

## 8. Where documentation and code differ

* **Redo after a crash** (`CrashIsRedoable`). A slot of a dead holder is
  `MALFORMED` for every later audit, so a receipt that was linked before the
  crash is not redone, although the crash matrix and the comment on `apply` say
  so. `docs/SPEC.md` lists recovery through the staging descriptor as not
  delivered, but not that redo is lost with it.
* **Slots cleared on return** (`SlotsClearedOnReturn`), in two ways: `Replace`
  succeeds without consuming its slot when the destination already holds the
  post bytes, and `apply` forgets it (this is what the run shows); `advanceHead`
  cleans up only after a link, so an error of its `Replace` leaves `a00`. Either
  leaves the store unreadable and unwritable.
* **Deleted projections** (`DeletionNotUndone`). An absent destination is
  created whatever the receipt's `pre` is; the specification asks for a null
  `pre`.
* **`reconcile intent` of a pending receipt** (`DivergedReceiptSettles`). It is
  refused with `REDO_PENDING`, while redo is refused because of the divergence.
* **Fork reported of a sound store** (`ForkedIsAFact`). A reader that read the
  head just before one transaction settled and the next was linked reports
  `JOURNAL_FORKED` and refuses; the specification gives a read whose snapshot
  changed `NOT_RUN` with `REDO_PENDING` or `SNAPSHOT_MOVED`.
* **Export beside a transaction** (`MovementIsMoved`). An export that meets an
  occupied staging slot of a running transaction refuses with `MALFORMED` unless
  its second listing differs; row C10a (`docs/SPEC.md:1729`) gives it
  `SNAPSHOT_MOVED`.

Acknowledged by the sources and therefore no finding: an `UNPAUSE` that failed
before its deletion stays pending, and no recovery path supports it
(`docs/SPEC.md:604-606`, `redo.go:104`); `FailedUnpauseWaits` is what holds of it.

Seen while modelling, and not run as claims:

* The comment on `publish` (`store.go:393-397`) and `docs/SPEC.md:1513-1515` call
  a replacement a compare-and-swap that refuses a file which changed between read
  and write. `replace` reads, and renames over whatever is there then, as its own
  comment says ("No CAS is claimed", `fixture_session.go:703`; `docs/SPEC.md:1598`).
  The model has the window; it is the exception of `OverwritesOnlyPre`.
* Row C2 of the crash matrix (`docs/SPEC.md:1717`) has a redo of receipt 1 with "no
  head for INIT". `redoPending` fails without a head (`redo.go:25`) and `Init`
  answers `BLOCKED` for a state dir that exists (`store.go:438`), so an `INIT` that
  failed after its receipt link is never completed. `docs/SPEC.md:1599` says that
  recovery of an interrupted genesis is held; it is an exception of
  `IdleIsRedoable` and `PendingRedone`.
* `README.md:98` says candidate capture requires a clean worktree. The code asks
  `git status` first and reads the files later, so an edit in between is
  captured; `QuietCaptureIsClean` is what holds.
* A release without criteria and gates is `READY` with no evidence, and `PROMOTE`
  refuses it, because a promotion must name some (exception in
  `ReadyIsPromotable`).
* The view of an open ticket whose class is `MANUAL`, `EXTERNAL` or `NEVER`
  advises `refine` (`view.go:260-274`). The view calls that the next permitted
  operation, which it is, but no refinement changes the class (exception in
  `NextActionHelps`). It also advises `GRANT_APPROVAL` of a ticket whose list of
  approvals, which only grows, is full.
* A `REFINE` that makes a ticket supersede itself, and a `SET_DEPENDENCIES` whose
  list repeats an edge or pairs obligation and gate wrongly, pass decoding and every
  step rule and are refused by the validator alone (exceptions in `StepsStayValid`).
* `RedoCapacity` and `AbortCapacity` have no caller outside tests in this commit;
  `StoreCapacity` checks what they would decide. A human
  who grows the intent tree between two commands can spend the reserve of a
  paused store; the model's intent tree changes by plans alone.

## 9. Not modelled, and the plan

Not modelled: `journal/source.go`, `safeopen`, `qualify` and the mount tables
(single system calls), `wire` and the other codecs (values of single strings),
`ClassifyStage`, `Cleanup`, `DeleteRedo` and `publish.go` (no caller: the slots of
this commit's writer have no descriptor, and `FixtureStore` says what becomes of
them), the CLI's flags and printing, and the
generator of example queues. Of `capacity.go` the tar, manifest and temporary
bytes are left out; of `archive`, the layout limits and `Verify` of an arbitrary
stream.

Done: the writer, the readers, the lock, the capacity rules, the ticket and
release lifecycles, the export. Left, most important
first:

1. Proofs under a bounded number of human edits: which of them `ReadIsAtomic`,
   `FailureIsAFact` and `ExportIsOneMoment` tolerate, stated with the condition
   instead of `MaxEdits = 0`.
2. The journal audit's own double capture.
3. Staging descriptors and their cleanup, once a writer of the repository leaves
   descriptors behind.
4. The identities a session pins (`fixtureSame`), with an actor that swaps
   directories.
