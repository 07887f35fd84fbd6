# Matt Auto: TLA+ models, checks and proofs

Matt Auto (`src/src/`) is a Pi coding-agent package that drives delivery
workflows. A specification becomes tickets; worker processes implement the
tickets in worktrees; their branches are integrated on the workflow's
Integration branch; one Workflow PR delivers that branch to the Target branch.
Several *Workflow homes* (sessions in checkouts, on one machine or on several)
work on one repository at the same time. They share nothing but a git remote, a
tracker and, inside a checkout, a file system. There is no server: every
decision is taken by a session that read something a moment ago.

This directory models the parts of that system in which several sessions meet,
checks them with TLC on small instances, and proves with TLAPS, for every value of
the constants, the safety of the lease protocol all the others rest on and of the queue
and the home lock, and much of that of the delivery, the pipeline, the slots and the
life of a workflow.

## 1. Inventory

| component | state | operations | talks to |
|---|---|---|---|
| Coordination leases, `adapters/coordination.ts` | one JSON record in a commit behind a reserved ref of the remote; what the session kept of its lease | `acquireLease`, `renewLease`, `releaseLease`, `verifyLease`, `listLeases`; the worker-capacity policy record | git remote, by conditional pushes |
| Target-branch queue, `target-branch-queue.ts` | the candidates in the manifests of all Active workflows (the queue itself is stored nowhere); `heldTargetLease` | nine commands of `transition` | coordination port; tracker |
| Target delivery, `coordinator.ts`, `target-refresh.ts`, `workflow-pr-guard.ts` | `pendingTargetRefresh`, `targetRefreshInProgress`, `targetDeliveryQueue`, `activeConflictWorker`; the Integration worktree | `openWorkflowPr`, `runTargetRefresh`, conflict worker events, `mergeWorkflowPr`, pause | queue; git; forge; workers |
| Workflow-home lock, `adapters/workflow-home-lock.ts` | a directory with `lock.json` beside the checkout; `heldWorkflowHomeLock` | `acquire`, `renew`, `release`, `inspect` | file system |
| Workflow coordinator lease and home binding, `coordinator.ts` | the held lease of the workflow, the local binding | `ensure...Lease`, heartbeat, `releaseHeld...` | coordination port; preferences |
| Worker slots, `worker-capacity.ts`, `coordinator.ts` 1227-1631 | slot leases, the scheduler lease, demands of every workflow | plan, acquire, heartbeat, release | coordination port |
| Implementation pipeline, `coordinator.ts`, `parallel-delivery-state.ts` | running workers, `pendingDisposition`, `pendingIntegration`, CI waits | dispatch, worker events, disposition, integration, CI gate, conflict repair | workers; git; tracker; slots |
| Stages and routing, `coordinator.ts`, `launch-rules.ts`, `adapters/workflow-manifest.ts` | stage in the manifest, cached Workflow-home route | spec, tickets, follow-up, rework, resume | tracker; skills |
| Cleanup and submodule gate, `coordinator.ts` 8563-8897 | worktrees, branches, gitlinks, `lastCompletedWorkflow` | cleanup after the merge, closing of the spec, gitlink publication | git; tracker |
| Repository preferences, `adapters/preferences.ts` | a JSON file, a lock directory | read, merge, replace | file system |
| Git, tracker and worker adapters | none of their own | commands and their answers | git, `gh`, Forgejo, child processes |
| Panel and menus | what is shown | calls of the above | the operator |

What makes them hard, and what makes them correct:

- **Leases.** Reads, clock readings and pushes of several sessions interleave;
  a push that timed out may land later; answers are lost; wall clocks differ
  and are stepped; sessions die. *Correct if* no two acquisitions share a
  fencing token, a live lease is not taken over, a release is final, a kept
  lease is worth something until it expires, and a dead session's lease comes
  back.
- **Queue.** Nine commands, each several awaited calls that may throw before or
  after they took effect; the queue is recomputed from manifests others write
  meanwhile. *Correct if* the lane follows the candidate, nobody is overtaken,
  a candidate's life has no illegal turn, and retries end.
- **Delivery.** A refresh spans a merge in a worktree, perhaps a worker, a local
  verification, a push and a record, and the lane may run out, the Target move
  or the operator pause anywhere in it. *Correct if* what is recorded was
  verified, what is merged is what was recorded, nothing lands on a base it was
  not refreshed against, and the lane is given back.
- **Home lock.** Every call names a path, so what a session read, made or moved
  may be another directory by the time it acts. *Correct if* one live session
  owns the checkout and a dead one's lock comes free.
- **Slots.** A plan is computed from demands and leases read one after the other,
  under a scheduler lease that may run out; heartbeats, launches, results and
  crashes meet on the same slot. *Correct if* no ticket is in two slots, the
  policy is kept, no process runs on without its slot, and every ticket gets one.
- **Pipeline.** The run loop, the handlers of worker events, the finisher of a
  resolved conflict and the operator's stops share one pending disposition, one
  pending Integration and one Integration worktree. *Correct if* what is called
  integrated was verified and pushed, two units never work in the worktree at
  once, no ticket's Integration is dropped by another's write, and every ticket is
  closed in the end.
- **Stages, routing, cleanup.** A home acts on a cached route, and writes the
  manifest from the copy it loaded; several issues, links and branches are made or
  removed one by one; sessions die, and another home takes over. *Correct if* a
  draft becomes one workflow, a published breakdown is complete, no write undoes
  another, and a merged workflow is cleaned up, entirely.

`PROJECT.json` lists these hazards line by line, each with the properties that
would catch it going wrong.

## 2. Modules

```
FencedLease  <-- refines --  CoordinationLease  <-- EXTENDS --  CoordinationLeaseProofs
                                    :  (its leases, taken as fenced generations)
                             TargetBranchQueue  <-- EXTENDS --  TargetDelivery
                                               <-- EXTENDS --  TargetBranchQueueProofs
                       TargetBranchQueueProofs  <-- EXTENDS --  TargetBranchQueueLaneProofs
                                TargetDelivery  <-- EXTENDS --  TargetDeliveryProofs
                                   WorkerSlots  <-- EXTENDS --  WorkerSlotsProofs
                             WorkflowLifecycle  <-- EXTENDS --  WorkflowLifecycleProofs
                        ImplementationPipeline  <-- EXTENDS --  ImplementationPipelineProofs
                              WorkflowHomeLock  <-- EXTENDS --  WorkflowHomeLockProofs
```

ImplementationPipeline, WorkerSlots, WorkflowLifecycle and WorkflowHomeLock stand on
leases as CoordinationLease shows them to be, and on each other only through what they
assume of each other (said below). TargetDeliveryProofs also extends
TargetBranchQueueLaneProofs: the queue's frames are the delivery's. Each component is instantiated for TLC by the `MC` module of its name.

### FencedLease
The promise of a lease without storage, clocks or messages: generations are
granted one at a time, each to one home; a generation ends when it is released
or superseded; a home believes only in a generation that was granted to it.

### CoordinationLease (`adapters/coordination.ts`)
One ref, any number of sessions. `store` is the record behind the remote ref,
`pushes` the conditional pushes under way, `skew` each session's distance from
true time. An operation is a call (`CallAcquire`, `CallRenew`, `CallVerify`,
`CallRelease`, `CallReleaseObserved`), a `Read` of the ref, a decision with the
wall clock as it is then (`Submit`, `Confirm` or `Refuse`), and the answer of
the push (`Acknowledge`, or `Refuse`, or after a lost answer `LoseAnswer` and
`Settle`, the re-read). `Land`, `Reject` and `LosePush` are the remote. Object
ids are numbers drawn from `lastOid`; a record is abstracted to the fields the
decisions look at. `Readable` is what `parseLeaseRecord` demands of the order of
times. `grants` and `gaveUp` are history variables.

### TargetBranchQueue (`target-branch-queue.ts`)
A command of a home is a frame: the list of awaited calls it has still to make,
the draft of the manifest it will write, and the generation it verified. Each
call is an action (`VerifyWorkflowAuthority`, `VerifyHeldLease`, `VerifyFence`,
`AcquireLane`, `ReleaseLane`, `RenewLane`, `InspectLane`, `Load`, `Reload`,
`WriteManifest`), and any of them may throw (`CallThrows`) or take effect and
lose its answer (`AnswerLost`). `LoadTo...` are the decisions of the nine
commands. Leases appear as what CoordinationLease shows them to be: fenced
generations that may run out at any moment (`lane`, `owner`). `ahead` and
`disturbed` are history variables.

### TargetDelivery (`coordinator.ts`: refresh and merge)
Extends the queue by its only caller. `flow[h]` is the place at which
`runTargetRefresh`, `finishTargetRefreshAfterMerge`, `failTargetRefresh` or
`mergeWorkflowPr` of home `h` awaits something; a step that issues a command of
the queue hands it over with `Give`, and the queue's own actions run it. The
forge is `target`, `head` and `merged`. A commit is a number: the Target branch
advances by one, and the head of an Integration branch is the newest Target
commit in it, so "contains" is `<=`. `Pause`/`EndPause` are
`abortSessionWorkers` before and after the awaited release, with the flow it
interrupts going on. Abstractions:

- one action of a home at a time; a pause, and a worker's end, come between;
- the cached Active workflow is read when an action starts;
- the submodule gate and the readiness checks return without a change, so they
  are stutters; transcripts and telemetry are left out;
- a Conflict resolution worker that reports `completed` has committed the merge
  of the Target commit it was told; git refuses to check out or to merge in a
  worktree with an unfinished merge;
- a command of an orchestrator that was dropped (by a pause or a failure) is not
  interleaved with one of the orchestrator made after it;
- there is no clock: retries' backoffs have elapsed and the queue's order is that
  of workflow ids;
- the policy of the Target branch is the same throughout, and could be read when
  the PR was opened (it may be unreadable later on).

### WorkflowHomeLock (`adapters/workflow-home-lock.ts` and its callers)
`place` is the directory at the lock's path, `aside[s]` what a release moved
away. Every file-system call is an action on whatever is at the path by then;
the record is written to a temporary file in the directory and renamed.
`CallEnsure`, `CallHeartbeat` and `CallRelease` are the coordinator's calls. A
session's process may die between any two calls. `InTime` is the assumption the
code's timeout makes: while a session lives, it writes the record of a directory
it made, and renews its lock, before `StaleAfter` has passed. Process ids are not
reused, and a session runs one lock operation at a time.

### ImplementationPipeline (`coordinator.ts`, `ui/menu.ts`, `adapters/workers.ts`)
One home, its tickets, and three kinds of actors. Flow 0 is the run loop of the
panel: it asks for the next actions (`Surface`, the `Choose...` actions) and carries
one out, from `PlanImplementation` to `LaunchWorker`, or from `Dispose` over
`LoadUnit`, `MergeUnit`, `GateUnit`, `VerifyUnit`, `PushUnit`, `WriteManifest` and
`RecordUnit` to `CheckCi` and `CloseTicket`. Flow `t` is the event handler that
finishes ticket `t` after a Conflict resolution worker, beside the loop. Workers
`Report` and `Exit`; their events are appended to the transcript (`ReceiveEvent`)
and handled (`SettleResult`, `SettleExit`, `SettleResolver`), or lost (`LoseEvent`),
and then an exit is made up (`SynthesizeExit`). `BeginStop`, `StopWorkers` and what
follows are pause, terminate, emergency stop and quit; `Crash` is the session that
dies. A commit is abstracted to the set of attempts a branch contains. Abstractions:

- a result and the exit that follows it are one event where the code handles them
  in one go; commits are made by the time a worker reports, exits or is stopped;
- `StopWorkers` ends every listed worker in one step;
- the recovery cooldown delays an offer and nothing else; the caches are those of
  WorkflowLifecycle;
- a refusal of the coordination authority is a failed call; a failed result ends the
  loop, and the operator's restart is the loop going on;
- a crash ends the workers' processes; a Conflict resolution worker that reports
  `completed` has committed the merge it was given.

### WorkerSlots (`coordinator.ts` 1172-1717, `worker-capacity.ts`)
`flow[h]` is the place of `startImplementation` of home `h`, from the verification of
what it holds over the policy (`EnsurePolicy`), the scheduler lease
(`AcquireScheduler`), two reads (`ReadDemands`, `ReadLeases`), a renewal, the grant
and the release to registration and launch. `Claimable` is
`planRepositoryWorkerSlots`. `Heartbeat` renews, releases or abandons a slot;
`EndProcess` and `HandleResult` are the worker's end; `Crash` makes the home's next
session a new holder. Leases are granted, verified and lost as CoordinationLease
shows: one that lapsed (`LapseSlot`, `LapseScheduler`) is never current again.

### WorkflowLifecycle (`coordinator.ts`, `adapters/workflow-manifest.ts`, `adapters/tracker.ts`)
The tracker's issues and manifests, branches and workspaces, and of each home the
binding on disk, the route, lease, confirmation and Integration in memory. A command
loads its route (`LoadRoute`: cached, or read, then `RouteCommand`) and goes through
its awaited calls, each of which can fail or lose its answer: create-spec and
follow-up (`CreateSpecIssue`, `ClaimWorkflow`, `FoundWorkflow`, `BindHome`),
create-tickets (`PublishTicket` for each ticket), an Integration or merge write
(`PushBranches`, `ConfirmAuthority`, `WriteManifest`), cleanup (`RemoveFiles`,
`DeleteBranches`, `ConfirmAuthority`, `WriteManifest`, `CloseSpec`, `UnbindHome`) and
`Resume`. The panel reads a route of its own (`PollTracker`, `PollRoute`). An
Integration unit and a merge are one manifest write each: what leads to them is in
ImplementationPipeline and TargetDelivery. Workflows without coordination and their
legacy pointer are left out.

## 3. Runs

| run | question | result |
|---|---|---|
| `lease_stepped_clocks` | do tokens stay unique, and are takeovers and releases right, with wall clocks stepped at any time? | yes |
| `lease_recovery` | is the protocol a FencedLease, is a kept lease current until it expires, and is a dead session's lease taken, with clocks that are not stepped? | yes |
| `queue_commands` | one home given all nine commands at any time, with faults | holds |
| `home_lock` | one owner, no forgotten lock, a dead owner's lock is taken, on one machine or two, with a failing call | holds |
| `home_lock_race` | is only a stale lock ever reclaimed? | **no**: the slower of two reclaimers moves the faster one's new lock away |
| `target_delivery` | two homes deliver two PRs, with a pause, crash, failed call, lapse or foreign push | holds |
| `delivery_progress` | is a PR refreshed again when the merge finds the Target branch advanced? | **no** |
| `pipeline_stops` | is what a manifest calls integrated pushed and verified, and the worktree used by one unit at a time, with every kind of stop? | yes |
| `pipeline_parallel` | do two tickets in parallel leave each other's Integration alone, and are both closed in the end? | yes |
| `worker_slots` | is the allocation serial, within the policy, free of doubles, and does it serve everyone, with dead sessions and lost answers? | yes |
| `lifecycle` | do two homes, a crash and two failures leave no double workflow, no half breakdown, no lost write, no left-over branch? | yes |
| `lifecycle_cleanup` | is a merged workflow cleaned up in the end, whoever dies half-way? | yes |

Twelve more configurations are kept to be run by hand; they are smaller questions, or
show what the bounds named below keep out:

| configuration | property | result |
|---|---|---|
| `CoordinationLeaseWedge.cfg` | `ExpiryRecovers` | violated: a clock stepped back makes a record nobody can parse |
| `TargetBranchQueueRace.cfg` | `NoOvertaking`, `LaneFollowsCandidate` | hold for two workflows that race for the lane |
| `TargetBranchQueueTakeover.cfg` | `WrittenUnderCoordinatorLease` | violated: the lease may end between the check and the write (and `CandidateLifecycle` with it) |
| `WorkflowHomeLockForgotten.cfg` | `RefusedByAnotherOnly` | violated: after a failed renewal a session's own record refuses it |
| `TargetDeliveryStaleBase.cfg` | `NoStaleBaseMerge` | violated: a home whose lane ran out after it looked merges beside the new holder |
| `TargetDeliveryChecks.cfg` | `ChecksEndTheWait` | violated: a refreshed PR waits for the required checks for ever, no command of the coordinator reports them |
| `ImplementationPipelineQuit.cfg` | `UnfinishedMergeIsPreserved` | violated: after a quit between conflict and relaunch the transcript does not say the merge is to be finished |
| `ImplementationPipelineRepush.cfg` | `PushedIsVerified` | violated: a retry of a red CI pushes a merge that no verification has seen |
| `ImplementationPipelineStops.cfg` | `OneUnitInTheTree` | violated: two stops that drop a Conflict resolution worker while its result is handled |
| `ImplementationPipelineDiscard.cfg` | `IntegratedIsPushed` | violated: after a termination that discards, a new attempt inherits the history of the discarded one of the same number, and is recorded without a merge |
| `WorkerSlotsLaunch.cfg` | `ProcessHasSlot` | violated: a slot lost between grant and launch |
| `WorkflowLifecycleClose.cfg` | `CompletedSpecIsClosed` | violated: a panel read beside the cleanup unbinds the home, and the spec stays open |

### Bounds
- *Leases*: two sessions (the third party of every race is the network: a push
  may land after its sender gave up), three commits, so two takeovers or a
  takeover and a renewal; TTL and skew of one unit, so that a clock can be right,
  fast, or stepped across an expiry. `CoordinationLeaseWedge.cfg` needs a TTL of two and three
  ticks to let a lease live past a step.
- *Queue*: `queue_commands` has one home, two ids, budgets one and two, three
  failures in a row, a backoff that reaches its cap, two faults, and two grants of
  the lane, so a lane is lost and taken again inside any sequence of commands.
  `TargetBranchQueueRace.cfg` has two workflows, each with a home, and no faults, but a clock,
  so that each may become merge-ready first.
- *Delivery*: two homes, four grants of the lane (each refreshes and merges once,
  or one of them three times), and one fault: one pause, crash, throwing call, lost
  answer, foreign push, or lapse of a lane its holder still remembers. Lapses of a
  lane nobody remembers are free.
- *Home lock*: two sessions (three in the race: one dead, two reclaiming), one or
  two machines, three attempts as in the code, one failing call, and a clock that
  passes the timeout.

- *Pipeline*: two tickets, one blocked by the other or both at once, two or three
  attempts, so that retry, rework and a new attempt after a discard all happen; one
  stop of any kind at any moment with one fault (refusal, failure, red CI, lost
  event, rework), or two faults without stops. With two faults and a stop the
  invariants hold too (4.5 million states, by hand). `DiscardWaits` makes a
  termination that discards wait until no flow or event is under way. Without it
  `terminateRun` clears `integrationInProgress` under a unit that goes on, and
  `OneUnitInTheTree` fails. `EventsAreShort` makes a stop wait, before it drops the
  workers, for the events that are being handled (the append to a transcript). The
  listed runs do without it. With two stops it is needed: one drops a resolver whose
  result is being handled, the loop starts another and the first result is finished
  beside it; when that failed, a second stop lets the loop and the second result both
  go on with the unit. With it, one ticket, two stops and either a termination or two
  faults, all properties of `pipeline_stops` hold (1.2 and 1.1 million states, by hand),
  and they are theorems, `IntegratedIsPushed` and
  `UnitsPushVerified` without terminations.
- *Slots*: two homes configured for one and two workers, three tickets, so that one
  home competes with itself and with the other; two sessions each, one fault. A token
  is drawn at most eight times, more than the runs need. `LaunchIsPrompt` says that
  no slot is lost between its grant and its launch; `WorkerSlotsLaunch.cfg` shows what
  happens otherwise. The scheduler lease is taken to outlast the one call that
  follows its renewal.
- *Lifecycle*: two homes that both start workflows, two workflows of two tickets, two
  drafts (a spec and a breakdown, or a spec and a second one), one crash, two faults,
  one home with a panel. Three drafts with one founder hold too (3.4 million states,
  by hand). `ReadsAreShort` says that a copy of a manifest that a home has before it
  acquires the lease, from a tracker read or from the cached route, is still current
  when it does: no other home has acquired the lease, worked and given it up in
  between. Without it a home takes the lease after it read, goes on with the older copy,
  and `NothingIsUndone` and `CompletedIsClean` fail, because `loadWorkflowHomeRoute`
  acquires the lease after the read and uses the copy from before (finding 12 for the
  cache). `LeasesOutlast` says that a lease that is renewed by its home's timer does not
  expire; `PollsBeside` FALSE that the panel does not read while a command runs. The last two are what the heartbeat and the panel's
  timers make likely, not certain: section 4 says what is lost without them.

Deadlock is not checked in any run but `queue_commands`: all sessions may have
crashed, everything may be delivered or closed, and the bounds end the rest.

### Fairness
- *Leases* (`LiveSpec`): the network answers or loses a push in the end, a live
  session's call goes on, the heartbeat timer renews and whoever needs the lease
  asks again (panel refresh, queue retries). A read that rivals keep disturbing is
  granted strong fairness: the code re-reads at every attempt.
- *Home lock* (`LiveSpec`): a live session goes on with its calls and asks again,
  as the panel's refresh does.
- *Delivery* (`EagerDeliverySpec`): calls return, workers end; and the operator, or
  auto-advance, in the end chooses an action that is offered again and again.
  `delivery_progress` fails even with this much help, and so does `ChecksEndTheWait`,
  which needs one workflow, one home and no fault: nobody else is to blame for the wait.
- *Pipeline* (`PipelineLiveSpec`): flows, handlers and stops go on, agents end, and
  what the panel offers again and again is chosen in the end, by auto-advance or by
  the operator. Reworks, stops and lost events are not fair.
- *Slots* (`SlotsLiveSpec`): calls return, timers fire, workers end, leases nobody
  renews expire; a home asks again at every panel refresh (strong fairness of `Begin`)
  and meets the scheduler lease free at times (25 tries with pauses).
- *Lifecycle* (`LifecycleLiveSpec`): calls return, caches and the leases of the dead
  expire, and the operator of each home resumes what he may and asks for the cleanup
  again and again.
- The bounds end some behaviours; the leads-to properties name them as an outcome
  (`Recovered`, `CheckoutIsTaken`).

## 4. Findings

In `PROJECT.json`:

1. `home_lock_race`: `reclaimIfStale` renames whatever is at the path, without
   looking whether it is still the directory whose record it judged. Two sessions
   that read the same dead owner's record can both acquire.
2. `delivery_progress`: a merge that finds the Target branch advanced records a
   deterministic failure. Nothing in the coordinator issues `requeue-retry`; the
   candidate stays `retryable`, no refresh is offered, and the merge, the one action
   still offered, is refused at every attempt.

From the configurations run by hand:

3. With required checks a refreshed candidate waits in `awaiting-pr-checks`, and
   nothing in the coordinator issues `observe-pr-checks`, the command that would admit
   it when they are green. Merge stays on offer and is refused, refresh is on offer and
   refused: the lane's bootstrap is for PRs without a validated Target commit
   (`ChecksEndTheWait`, `TargetDeliveryChecks.cfg`).
4. One failed write of a renewal makes a session forget its home lock and then find
   its own living process as the owner, for good.
5. `renewLease` keeps `acquiredAt` and writes `heartbeatAt` from the wall clock;
   `parseLeaseRecord` refuses a record whose times are out of order, and so does
   every later read.
6. The tracker's write of a manifest is not fenced. With `LeasesOutlast` FALSE a
   publication that lost its lease and took it again silently can even overwrite a
   workflow that was completed meanwhile.
7. Before `mergePullRequest` the remembered lane is compared with itself, and the
   forge checks the head only: a home whose lane ran out after it looked merges beside
   the new holder, whose own merge then lands on a base its PR was not refreshed
   against. `LaneKeepsBaseFresh` says what does hold.
8. A conflicted merge is preserved in the worktree by a quit or a crash, but between
   the conflict and the launch of the resolver the transcript does not say so, and
   what is tried next finds a worktree with an unfinished merge.
9. A stop lists the running workers, kills them, and then appends "aborted" to the
  transcript of each (9352-9376), also of one whose result was settled meanwhile and
  whose branch the loop has merged. The merge stays in the Integration branch, nothing
  says that it is to be finished, and the retry of another ticket's red CI pushes it:
  CONTEXT.md:84 promises the checks "before push or CI".
10. A heartbeat that errs between grant and launch abandons the slot and deletes the
   registration; the launch goes on, and a process runs that nobody tracks.
11. A panel read between the last manifest write of a cleanup and the close finds the
   workflow completed and clears the binding; the close then has no authority, is
   skipped, and nothing retries it.
12. A route is cached as "bound" for twenty seconds, and outlives its lease: a
   publication takes the lease of the workflow it creates, which gives up that of the
   workflow the home is bound to, and when its manifest or its binding cannot be
   written it releases its own and leaves the cache (coordinator.ts 4530-4586). Another
   home can then work on the old workflow and give its lease up, and the next command
   here takes the cached copy, acquires the lease without a new read
   (`ensureActiveWorkflowCoordinatorLease`) and writes from it: what the other home
   recorded is undone. The proof of `WritesGoOn` found this; the bounds of `lifecycle`
   are too small for it, and `ReadsAreShort` now excludes it by name (`Timely`).

Seen while modelling, in no run: a lost answer of `createIssue` leaves a spec issue
without a manifest beside the one the retry makes; a failed create-tickets leaves its
tickets; a takeover leaves the former home's workspaces; a retry of a half-done
cleanup knows its local branches and the integrated ones only; `SIGKILL` is never
sent to a worker that ignores `SIGTERM` (`adapters/workers.ts` 313-333), and the null
exit code of a killed one is read as completion; `updateWorkerCapacityPolicy` has no
caller.

## 5. Proofs

`CoordinationLeaseProofs` proves, for every set of sessions, TTL, skew and bound:

| theorem | says |
|---|---|
| `TypeCorrect` | `Spec => []TypeOK` |
| `Inductive` | `Spec => []LeaseInv` |
| `FencingSafety` | `Spec => []FencingTokensAreUnique` |
| `Takeover` | `Spec => NoTakeoverOfLiveLease` |
| `ReleaseStays` | `Spec => ReleaseIsFinal` |
| `KeptLease` | `~ClockSteps` gives `Spec => []KeptLeaseIsCurrent` |
| `Implements` | `Spec => ImplementsFencedLease` |

Assumptions are those the module declares of its constants. The safety
properties are not inductive: whether a late push does harm depends on what its
sender saw. `LeaseInv` adds

- `SnapshotInv`: object ids only grow at the ref, and a snapshot whose id is still
  the ref's is still what the ref holds;
- `PushInv`: a push that can still land either continues the lease it expects,
  under the same token, or starts the next generation after one that is over;
- `GrantInv`: the ref, the history of grants, and every lease a session holds,
  was called with or waits for agree on the token;
- `PhaseInv`: a session that reads or decides does so for some operation.

A push lands only on the id it expects, so what `PushInv` says of it is what
happens to the ref; the action properties follow from this step. `KeptLease`
needs more, and clocks that are not stepped: every record ends a TTL after its
heartbeat (`TtlInv`), a renewal that is on its way does not shorten what the
session relies on (`RenewalInv`), and what a session keeps is covered by the
record behind the ref or by one that expired (`CoverInv`). With stepped clocks the
property is false. `Implements` maps `grants` to their holders, `open` to "not
released", and `believed` to the generation a session keeps, and takes one step of
`Next` at a time to a step of FencedLease or a stutter.

`TargetBranchQueueProofs` proves, for every set of homes, workflows, commits,
commands and retry policies and every bound:

| theorem | says |
|---|---|
| `QueueTypeCorrect` | `Spec => []TypeOK` |
| `QueueLifeInductive` | `OneHomePerWorkflow` gives `Spec => []LifeInv` |
| `LifecycleKept` | `OneHomePerWorkflow` gives `Spec => CandidateLifecycle` |
| `BudgetKept` | `OneHomePerWorkflow` gives `Spec => RetryBudgetIsKept` |

A command decides on the candidate it read and writes it some awaited calls later, as
a whole manifest. The proof has to say which frames have decided: `WillLook` says that
before every write among the calls still to make there is the call after which the
command decides, and `Settled` that a frame of which this is not true carries a
candidate that is still a legal `Move` of the one in the tracker. `Proper` adds that a
candidate to be tried again is not exhausted. Every step either passes such a decision
on (`Passes`), makes one (`Decides`), or writes it (`Writes`); nobody else writes
between the two if each workflow has one home, and a backoff that has elapsed stays
elapsed. `OneHomePerWorkflow` is needed: with the two homes of
`TargetBranchQueueTakeover.cfg`, TLC finds `CandidateLifecycle` violated by the write
of a home whose workflow another one has taken over.

`TargetBranchQueueLaneProofs` proves of the queue, with the same parameters:

| theorem | says |
|---|---|
| `LaneInductive` | `OneHomePerWorkflow` gives `Spec => []LaneInv` |
| `LaneFollows` | `OneHomePerWorkflow` gives `Spec => []LaneFollowsCandidate` |
| `QueueIsFifo` | `Spec => NoOvertaking` |

That a home has the lane exactly while its candidate is refreshing is true between
commands only. `LaneInv` says what is true within one: the calls a command has still
to make (`todo`), its kind and whether the candidate it will write is refreshing put an
undisturbed home into one of six cases. It has not touched the lane yet (`Untouched`),
records a failure of a candidate whose lane is known to be over (`Failing`), has taken the
lane and not yet written that the candidate refreshes (`Taking`), writes that it does not and
then gives the lane back (`Leaving`, `Giving`), or writes something no lane is about
(`Apart`). There is a lemma per call, stated of the frame alone, and one per action.
`OneHomePerWorkflow` is needed, for another home's write would change the candidate
under the command. `QueueIsFifo` does without it: whoever was ahead when the lane was
taken and has stayed so is in the history variable `ahead`, and `LineInv` says that
these are ahead still, and that a command past its second look at the queue has
nobody there.

`TargetDeliveryProofs` proves, for every set of homes, workflows and commits, any
number of faults and lane grants, with and without required checks:

| theorem | says |
|---|---|
| `DeliveryTypeCorrect` | `DeliverySpec => []DeliveryTypeOK` |
| `HeadsContainTheirTarget` | `DeliverySpec => []ValidatedShaIsInHead` |
| `RecordedMergesHappened` | `DeliverySpec => []RecordedMergeHappened` |
| `MergedHeadWasRecorded` | `DeliverySpec => RecordedHeadIsMerged` |
| `FlowsGiveTheLaneBack` | `DeliverySpec => []LaneIsGivenBack` |
| `MergesUnderTheLaneAreFresh` | `DeliverySpec => LaneKeepsBaseFresh` |

`DeliveryAssumption` gives every workflow one home, so the queue's argument carries
over to the queue as the delivery drives it. What a refresh or a merge learns is used
several calls later, by a command, by the forge or by the next step, and a pause can
drop the orchestrator in between while the flow goes on. `DeliveryInv` says what is
still true then:

- `FlowInv`: from the merge of the Target branch to the record, the Target commit the
  flow remembers is the one the local Integration branch contains; a merging flow's
  snapshot has the head and the Target commit of the manifest as it is now, and the
  head it looked at is the snapshot's; a Conflict resolution worker has a conflict to
  resolve, and no flow beside it;
- `CommandInv`: a command that says "merged" was given after the merge, one that
  carries an outcome of a refresh was given by a flow that waits for it, with a head
  that contains its Target commit; and what it has decided still follows from the
  manifest it will replace (`Derived`, from the queue's proof);
- `TruthInv`: no manifest says more than that. This is what the first three theorems
  conclude;
- `ForgeInv`: the Target branch has moved at most once per fault and per merged
  workflow, which is why the bound on commits is one that keeps every step's commit
  in its type.

The step that could break it is the write of a command, which replaces the manifest
under the flow that gave it. `WrittenIsTrue` shows that it changes `headSha` and
`validatedTargetSha` only while the flow waits at `released`, where it remembers
neither, and says "merged" only when the forge did.

`FlowsGiveTheLaneBack` has an invariant of its own, `BackInv`, about the homes none of
whose queue calls threw or found its lease gone. The queue alone cannot promise that
the lane is given back, for it is the flow that gives the commands; so `Back` relates
the lease to both. A home without a lease is not in a command that would have to give
one back or would leave with one, unless it is about to ask (`Asks`, `Lacks`); a home
with one is in a command that gives it back however it ends (`GivesBack`), in one that
takes or renews it, and then its flow waits for that answer (`Takes`, `Renews`), or
between commands at a step that goes on with the lane (`Keeps`), a running Conflict
resolution worker being one. In the last two cases the home is not in a pause, for a
pause gives the lane up first, and only a home with a queue has a lease at all. The
part about the pause is what makes it inductive: a flow may be overtaken by a pause at
every call, goes on, and finds no lane where it left one.

`MergesUnderTheLaneAreFresh` needs `BaseInv`: no two homes remember the same lane
(`OneHolder`), a command that still has to take the lane belongs to a flow that waits for
its answer, and while a flow that looked at the Target branch has the lane, nobody else
has merged under it. The second part is what keeps the third from being broken by a flow
that lost its lane after the look and takes another one before the merge.

`ImplementationPipelineProofs` proves, for every set of tickets and blockers, every
number of slots, attempts and faults and any number of stops:

| theorem | says |
|---|---|
| `PipelineTypeCorrect` | `PipelineSpec => []PipelineTypeOK` |
| `UnitsAreSerial` | `DiscardWaits` and `EventsAreShort` give `PipelineSpec => []OneUnitInTheTree` |
| `IntegrationsAreKept` | `DiscardWaits` and `EventsAreShort` give `PipelineSpec => IntegratedIsNeverLost` |
| `IntegratedWasPushed` | `NoDiscard` gives `PipelineSpec => []IntegratedIsPushed` |
| `PushesAreVerified` | `NoDiscard` and `EventsAreShort` give `PipelineSpec => UnitsPushVerified` |

The types need `MailInv`: a child that runs has sent nothing, but an exit may have been
made up for it, so that there are never more than two messages of a worker and the
second one is its result. The flag `integrationInProgress` alone does not make units
serial, for the handler that finishes a resolved conflict sets it without looking.
The proof says when it may:

- `OwnInv`: at most one flow has set the flag and not cleared it, and a flow between
  load and manifest has, for the unit that is pending;
- `LoopInv`: while a resolver is registered the loop launches it or waits, and a
  rework is on its way only when nothing is pending;
- `ResolverInv`: while a resolver of `u` is registered or about to be, no other unit is
  pending and only the finisher of `u` may have the flag. Where an event of a resolver
  can be handled although its registration is gone, because a stop or a refused launch
  took it, the conflict of `u` is still what is pending and nobody has the flag
  (`Held`).

`MergeUnitTree`, `LaunchResolverTree` and `SettleResolverTree` are the steps where it
could break. The two bounds are needed: without `EventsAreShort`, TLC violates
`OneUnitInTheTree` with two stops (`ImplementationPipelineStops.cfg`), and a discard in
the middle of a unit clears the flag under it.

`IntegrationsAreKept` adds two invariants. `SawInv`: the copy of the manifest a unit or
a rework will write back is still what the manifest says, for a unit holds its copy
only under the flag, and a rework only when nothing is pending. `FreshInv`: the ticket
of a unit that is past its load is not recorded as integrated, and neither is that of a
conflict that waits or of a resolver that is registered or about to be. The second half
is what a late resolver needs: `SettleResolver` finishes a unit without looking at the
manifest, and `ResolverInv` says that either its registration or the waiting conflict is
still there (`WhoFinishesFresh`).

`IntegratedWasPushed` needs neither bound, but `NoDiscard`: no termination
(`"terminate" \notin Stops`). Its invariant `PushedInv` follows a merge from where it was
begun: a conflict known to a transcript, to the pending integration, to the loop or to a
running resolver is one of a merge that is unfinished in the worktree or committed
(`Tried`), what a resolver says it completed is committed, a unit past its merge is in the
Integration branch, one past its push on the remote (`FlowTrue`), and so is what any copy
of the manifest records (`RecordInv`). Branches only grow (`Grows`), whoever fails and
however often the session ends, except when a termination discards, and there the
theorem is false. `terminateRun` deletes branches, but attempts are numbered by the
branches there are (`latestAttempt`) and transcripts stay, so that the first attempt made
afterwards inherits what the transcript of the discarded one says. A conflict in it is
recovered (`recoverPendingDispositionFromTranscripts`), a resolver is launched on a merge
that was never begun, and its success is verified, pushed and recorded without the
attempt's commits (`ImplementationPipelineDiscard.cfg`; `pipeline_stops`, with one fault,
is too short for it).

`PushesAreVerified` adds `UndisturbedInv`: the unfinished merge is not in the branch, a
unit goes on only while no conflict waits, and a resolver of the unfinished merge is
called or works only while the conflict of that merge waits. So nobody commits between
the verification of a unit and its push: not another unit, by `OwnInv`, and not a
resolver.

`WorkflowHomeLockProofs` proves, for every set of sessions and machines, every timeout
and number of attempts and every bound:

| theorem | says |
|---|---|
| `HomeLockTypeCorrect` | `Spec => []TypeOK` |
| `OneOwnerUndisturbed` | `Spec /\ []Undisturbed => []OneOwner` |
| `NoForgottenUndisturbed` | `Spec /\ []Undisturbed => []NoForgottenLock` |
| `ReclaimsOnlyStaleUndisturbed` | `Spec /\ []Undisturbed /\ [](faults = 0) => ReclaimsOnlyStale` |
| `OneOwnerOfTwo` | two sessions and `MaxFaults <= 1` give `Spec => []OneOwner` |
| `NoForgottenOfTwo` | two sessions and `MaxFaults <= 1` give `Spec => []NoForgottenLock` |

The lock does not keep its promise against three sessions: of two that have both found
a dead owner's directory abandoned, the slower one removes what the faster one has made
since (`WorkflowHomeLockRace.cfg`), and two owners follow. `Undisturbed` names what the
theorems exclude, and nothing else: two sessions at the removal at once, and a session
at the removal while another writes its record over the one that was found. All other
interleavings, failed calls and crashes remain. `LockInv` says why it is enough:

- `CallsInv`: where a session is says what it remembers;
- `HoldInv`: the record at the path is that of whoever holds the lock, with its token,
  and it is younger than the timeout;
- `RenewInv`: a renewal writes back the record that is still there;
- `MakeInv`: the directory a session made is still there, no other session makes one,
  and none holds the lock;
- `ReclaimInv`: a directory about to be removed is no live session's;
- `ForgetInv`: only a call that failed makes a live session forget its record.

Two sessions cannot leave `Undisturbed` (`PairUndisturbed`) with at most one fault, a
crash or a failed call: `UnmadeInv` says that a directory without a record is being
made while nobody has crashed, and `PatientInv` that nobody judges or removes its own
record. With two faults TLC finds two owners of two sessions, so the bound is needed.
`ReclaimsOnlyStale` needs `StaleInv`, that a verdict of abandonment is still true when
it is carried out, and no faults: after a failed read a lock is judged by the age of
its directory.

`WorkerSlotsProofs` proves, for every set of workflows, tickets and configured
concurrencies and every bound:

| theorem | says |
|---|---|
| `SlotsTypeCorrect` | `SlotsSpec => []SlotsTypeOK` |
| `SlotsInductive` | `SlotsSpec => []SlotsInv` |
| `OneSlotPerTicket` | `SlotsSpec => []NoTicketInTwoSlots` |
| `CapacityKept` | `SlotsSpec => []WithinCapacity` |
| `SerialGrants` | `SlotsSpec => GrantsAreSerial` |
| `ProcessKeepsSlot` | `LaunchIsPrompt` gives `SlotsSpec => []ProcessHasSlot` |

A plan is made of copies, `ready` and `seen`, that may be stale when it is used; that
no ticket is planned twice therefore rests on the scheduler lease. `SerialInv` says
how: a home at `grant` has that lease, and as long as a home has it, since it read
the slot leases, every live slot is one it saw. Another home's grant cannot break
this, for that home would have the lease too, and every other step only ends slots
(`SlotStep`, `KeptIsKnown`). Grants are serial then, a ticket that a live slot names
is not claimed again, and a grant takes a slot the policy allows (`PolicyInv`, of
which the policy bounds the number of live slots). The proof needs what
`LapseScheduler` states, that the lease renewed just before the grant outlasts that
call; `WorkerSlotsProofs` says nothing of code that is slower.

`ProcessHasSlot` has an invariant of its own, `WorkerInv`: a process belongs to a
worker that is registered as running, with its slot, and the worker a home prepares is
nobody's until it is registered and is `starting`, without a process, until it is
launched. `LaunchIsPrompt` is needed for the last part: a heartbeat that loses the slot
in that window forgets the worker, and the launch goes on all the same.

`WorkflowLifecycleProofs` proves, for every set of homes and tickets and every bound:

| theorem | says |
|---|---|
| `LifecycleTypeCorrect` | `LifecycleSpec => []LifecycleTypeOK` |
| `LifecycleInductive` | `LifecycleSpec => []LifecycleInv` |
| `OneWorkflow` | `LifecycleSpec => []OneWorkflowPerDraft` |
| `BreakdownsComplete` | `LifecycleSpec => []BreakdownIsComplete` |
| `LeaseMakesCurrent` | `Undisturbed` gives `LifecycleSpec => []AuthorityInv` |
| `CompletedWorkflowsAreClean` | `Undisturbed` gives `LifecycleSpec => []CompletedIsClean` |
| `WritesGoOn` | `Undisturbed` gives `LifecycleSpec => NothingIsUndone` |

The first four hold whether or not `ReadsAreShort` and `LeasesOutlast`, and with a panel that
reads at any time: what they say does not rest on the coordinator lease, but on who
knows a draft. The types alone need what a command is at each place (`PlaceInv`: a
confirmation works on the draft that is pending, a cleanup on a copy that is merged).
Then

- `DraftInv`: no two homes have the same draft pending, and a draft that is planned
  has no ticket and no workflow yet;
- `TicketsInv`: the tickets of a draft are linked one by one while its publication
  lasts, and all of them are when it is confirmed; when it breaks off, the draft is
  forgotten, so that a half breakdown is nobody's;
- `CopiesInv`: every manifest, and every copy of one in a route, a command or a read,
  lists linked tickets only, which is why it does not matter how old the copy is;
- `SoundInv`: what homes know, besides what they are about to found, is founded, so
  that a manifest is written first by the home that made its spec issue;
- `OriginInv`: that home has the draft the issue was made from, and when the workflow
  is founded all that is left to do with that draft is to bind it.

A retry after a lost answer makes a second spec issue from the same draft; the proof
shows that the first one stays without a manifest.

The last three are what the coordinator lease is for, and need it: `Undisturbed` is
`ReadsAreShort`, `LeasesOutlast` and no `PollsBeside`, the bounds of section 3 under
which the runs are made as well. Everything else is free: any number of homes,
failed calls, lost answers, dead sessions, takeovers, cached routes. `AuthorityInv` says

- `HeldInv`: what a home holds, the tracker's lease says is its own, so two homes never
  hold one workflow; `Claimed` places are reached only while it is held;
- `RouteOf`, `ReadsOf`, `WorkOf`: each copy a home has of the workflow it *holds*, in its
  cache, in a read, in the command that works, is the tracker's manifest, or is
  `Near` it: the manifest is one write of this home ahead, the write whose answer was
  lost. Copies of a workflow that is not held may be as old as they like. A copy
  comes under this clause when its lease is acquired, which is where `Timely` is used;
- `Suits`: the copy a command works from is at the stage the command starts from, so
  that a write done again from a `Near` copy writes what is there already;
- `CleanOf`: what a cleanup has removed stays away until its write: nobody else can push
  to a workflow that is held, and the home itself is busy.

A step of one home is shown to keep its own part (one lemma for each action) and to
leave alone what the others' parts speak of (`Spares`): it changes the manifest of the
workflow it holds only, and only forward. `NothingIsUndone` is the last half of that.
Without `Near` the invariant is not inductive: a lost answer leaves the home with the
copy from before its own write.

Every safety property of a passing run is stated by a theorem. Only model-checked: all
liveness (`OrphanedLeaseIsTaken`, `CheckoutIsTaken`, `EveryTicketIsClosed`,
`EveryTicketIsImplemented`, `MergedIsCompleted`): TLAPS does not reason about fairness
here. What holds only under a bound that says what does not happen (`Undisturbed`,
`NoDiscard`, `EventsAreShort` and the others named above) is checked and proved under it
alone.

## 6. Not modelled

- Preferences, the submodule gate and gitlink cleanup: a file under a lock directory,
  and git commands whose outcome no other part reads.
- `openWorkflowPr` is only the initial state of the delivery. The checks of the forge
  are no state of it: what the code does with them, once it looked, is a command of
  the queue module (`observe-pr-checks`), and the delivery never looks.
- Workflows without coordination (one home, no leases, a legacy pointer).
- Adapters of git, the tracker and worker processes appear as the answers they give;
  worker protocol parsing, pagination and retries of HTTP calls are left out.
- Panels, menus, formatting, telemetry and transcripts' texts keep no state a property
  is about. `listLeases` and `inspect` read and change nothing.
- The composition of the pipeline with slots, and of the lifecycle with delivery: each
  module states what it takes from the other as one step; their product is beyond TLC.

## 7. Plan

What a next round would add, in this order: `DiscardWaits`, `EventsAreShort` and
`ReadsAreShort` lifted once the code says what should happen there; workflows without
coordination; the preferences lock.

Runs stay few: a new module brings one passing run, and one that looks for a
disagreement where there is a claim to look at.
