--------------------------- MODULE TargetDelivery ---------------------------
(***************************************************************************)
(* How a Workflow coordinator delivers its Workflow PR                     *)
(* (src/src/coordinator.ts: runTargetRefresh, mergeWorkflowPr and what     *)
(* they call), over the Target-branch queue and against a forge.           *)
(*                                                                         *)
(* A refresh merges the Target branch into the Integration branch, by hand *)
(* of a Conflict resolution worker where git cannot, verifies the result,  *)
(* pushes it, and records the validated Target SHA.  A merge takes the     *)
(* lane, looks at the live PR, and asks the forge.  A home is in one       *)
(* action at a time; a pause or a crash comes at any moment.               *)
(*                                                                         *)
(* A commit is named by a number: the Target branch advances by one, and   *)
(* the head of an Integration branch is the newest Target commit in it.    *)
(*                                                                         *)
(* The bound MaxFaults counts pauses, and pushes by somebody else, too.    *)
(***************************************************************************)
EXTENDS TargetBranchQueue

CONSTANT RequiresChecks  \* the Target branch demands green checks on an up-to-date head

ASSUME DeliveryAssumption ==
  /\ \A g, h \in Home : WorkflowOf[g] = WorkflowOf[h] => g = h
  /\ RequiresChecks \in BOOLEAN
  /\ {"refresh", "merge", "stale-target-sha"} \subseteq Reason
  /\ IsFiniteSet(Workflow)
  /\ Sha = 1..(1 + MaxFaults + Cardinality(Workflow))

VARIABLES target,    \* the tip of the Target branch, and who moved it there
          head,      \* the head of each Workflow PR
          merged,    \* the Workflow PRs the forge merged
          local,     \* the head of each home's Integration branch
          unresolved,\* the homes whose Integration worktree is in an unfinished merge
          flow,      \* the action each home is in
          pending,   \* pendingTargetRefresh of each home
          worker,    \* the homes with an active Conflict resolution worker
          queued,    \* the homes with a targetDeliveryQueue
          pausing    \* the homes in abortSessionWorkers

forge == <<target, head, merged>>
tree == <<local, unresolved>>
session == <<flow, pending, worker, queued, pausing>>
deliveryVars == <<vars, forge, tree, session>>

(***************************************************************************)
(* Session state                                                           *)
(***************************************************************************)

Foreign == 0  \* a PR head somebody else pushed

\* target is what the refresh merged, or what the worker has to merge.
NoPending == [present |-> FALSE, conflict |-> FALSE, target |-> 0]
NoFlow == [at |-> "none", target |-> 0, failure |-> "transient", snapshot |-> NoDraft,
           base |-> 0, head |-> 0]
Flow == [at : {"none", "lane", "workspace", "git", "launch", "finish", "verify", "push",
               "release", "released", "fail", "recorded", "clear",
               "merge lane", "observe", "evaluate", "merge", "refused", "mark", "marked"},
         target : Sha \cup {0}, failure : {"transient", "deterministic"},
         snapshot : Manifest \cup {NoDraft}, base : Sha \cup {0}, head : Sha \cup {0}]

DeliveryTypeOK ==
  /\ TypeOK
  /\ target \in [sha : Sha, by : {"somebody", "home", "holder"}]
  /\ head \in [Workflow -> Sha \cup {Foreign}]
  /\ merged \in SUBSET Workflow
  /\ local \in [Home -> Sha]
  /\ unresolved \in SUBSET Home
  /\ flow \in [Home -> Flow]
  /\ pending \in [Home -> [present : BOOLEAN, conflict : BOOLEAN, target : Sha \cup {0}]]
  /\ worker \in SUBSET Home
  /\ queued \in SUBSET Home
  /\ pausing \in SUBSET Home

\* openWorkflowPr could read the policy of the Target branch.
DeliveryInit ==
  /\ Init
  /\ \A w \in Workflow :
       /\ manifest[w].headSha = 1
       /\ manifest[w].candidate.state
            = IF RequiresChecks THEN "awaiting-pr-checks" ELSE "merge-ready"
  /\ target = [sha |-> 1, by |-> "somebody"]
  /\ head = [w \in Workflow |-> 1]
  /\ merged = {}
  /\ local = [h \in Home |-> 1]
  /\ unresolved = {}
  /\ flow = [h \in Home |-> NoFlow]
  /\ pending = [h \in Home |-> NoPending]
  /\ worker = {}
  /\ queued = {}
  /\ pausing = {}

\* ensureActiveWorkflowCoordinatorLease
HasAuthority(h) == owner[WorkflowOf[h]] \in {h, NoHome}
Authority(h) == HasAuthority(h) /\ owner' = [owner EXCEPT ![WorkflowOf[h]] = h]

\* ensureTargetDeliveryQueue: an orchestrator made anew remembers no lease.
EnsureQueue(h) ==
  /\ queued' = queued \cup {h}
  /\ held' = IF h \in queued THEN held ELSE [held EXCEPT ![h] = 0]

\* transition: a command of the home's queue waits for the last one.
Free(h) == frame[h] = Idle /\ h \notin pausing
Give(h, c) ==
  /\ frame[h] = Idle
  /\ frame' = [frame EXCEPT ![h] = [Idle EXCEPT !.command = c, !.todo = Calls(c.kind)]]
  /\ reply' = [reply EXCEPT ![h] = "ok"]

Acquire(phase) == [kind |-> "acquire-phase", phase |-> phase]
Record(kind, reason) == [kind |-> "record-failure", failureKind |-> kind,
                         reason |-> reason, budget |-> CHOOSE n \in Budget : TRUE]
ReleaseHeld == [kind |-> "release-held-target-lease"]
RenewHeld == [kind |-> "renew-held-target-lease"]
ForPrChecks(freshness, admit) == [kind |-> "release-for-pr-checks",
                                  prFreshness |-> freshness, admitMergeReady |-> admit]
Merged == [kind |-> "mark-merged"]

In(h, at) == flow[h].at = at
Go(h, at) == flow' = [flow EXCEPT ![h].at = at]
Return(h) == flow' = [flow EXCEPT ![h] = NoFlow]
Fail(h, kind) ==
  flow' = [flow EXCEPT ![h] = [NoFlow EXCEPT !.at = "fail", !.failure = kind]]

\* clearTargetRefreshState
Clear(h) == /\ pending' = [pending EXCEPT ![h] = NoPending]
            /\ queued' = queued \ {h}

NoQueueStep == UNCHANGED <<manifest, owner, frame, held, reply, ahead>>

(***************************************************************************)
(* Refresh                                                                 *)
(***************************************************************************)

\* What nextActions offers for an open Workflow PR.
Refreshable(h) ==
  \/ Own(h).validatedTargetSha = 0
  \/ Own(h).candidate.state \in {"merge-ready", "refreshing", "awaiting-pr-checks"}
  \/ pending[h].present

StartRefresh(h) ==
  /\ In(h, "none") /\ Free(h) /\ h \notin worker /\ ~pending[h].conflict
  /\ Own(h).stage = "pr-opened" /\ Refreshable(h)
  /\ Authority(h)
  /\ EnsureQueue(h)
  /\ IF held'[h] # 0
     THEN Go(h, "workspace") /\ UNCHANGED <<frame, reply>>
     ELSE Go(h, "lane") /\ Give(h, Acquire("refresh"))
  /\ UNCHANGED <<lane, clock, disturbed, faults>>
  /\ UNCHANGED <<manifest, ahead, forge, tree, pending, worker, pausing>>

\* A conflict that is still pending goes to another worker: no lane is taken.
RetryConflict(h) ==
  /\ In(h, "none") /\ Free(h) /\ h \notin worker /\ pending[h].conflict
  /\ flow' = [flow EXCEPT ![h].at = "launch", ![h].target = pending[h].target]
  /\ NoQueueStep
  /\ UNCHANGED <<lane, clock, disturbed, faults>>
  /\ UNCHANGED <<forge, tree, pending, worker, queued, pausing>>

AfterLane(h) ==
  /\ In(h, "lane") /\ Free(h)
  /\ IF reply[h] = "ok" THEN Go(h, "workspace") /\ UNCHANGED <<pending, queued>>
     ELSE Return(h) /\ Clear(h)
  /\ NoQueueStep
  /\ UNCHANGED <<forge, tree, worker, pausing>>

\* The answer of the renewal is not looked at.
EnsureWorkspace(h) ==
  /\ In(h, "workspace") /\ Free(h)
  /\ pending' = [pending EXCEPT ![h] = [NoPending EXCEPT !.present = TRUE]]
  /\ \/ Go(h, "git") /\ Give(h, RenewHeld)
     \/ Fail(h, "transient") /\ UNCHANGED <<frame, reply>>
  /\ UNCHANGED <<manifest, owner, held, ahead, forge, tree, worker, queued, pausing>>

Pending(conflict, tip) == [present |-> TRUE, conflict |-> conflict, target |-> tip]

\* mergeTargetIntoIntegration: git refuses a worktree with an unfinished merge;
\* a refresh that a pause forgot meanwhile is pending again.
MergeTarget(h) ==
  /\ In(h, "git") /\ frame[h] = Idle
  /\ LET tip == target.sha IN
     \/ /\ h \notin unresolved
        /\ local' = [local EXCEPT ![h] = tip]
        /\ pending' = [pending EXCEPT ![h] = Pending(FALSE, tip)]
        /\ flow' = [flow EXCEPT ![h].at = "finish", ![h].target = tip]
        /\ UNCHANGED unresolved
     \/ /\ h \notin unresolved /\ local[h] # tip
        /\ unresolved' = unresolved \cup {h}
        /\ pending' = [pending EXCEPT ![h] = Pending(TRUE, tip)]
        /\ flow' = [flow EXCEPT ![h].at = "launch", ![h].target = tip]
        /\ UNCHANGED local
     \/ Fail(h, "transient") /\ UNCHANGED <<tree, pending>>
  /\ NoQueueStep
  /\ UNCHANGED <<forge, worker, queued, pausing>>

LaunchWorker(h) ==
  /\ In(h, "launch")
  /\ \/ Authority(h) /\ Return(h) /\ worker' = worker \cup {h}
     \/ /\ Authority(h) \/ UNCHANGED owner
        /\ UNCHANGED worker
        /\ \E kind \in {"transient", "deterministic"} : Fail(h, kind)
  /\ UNCHANGED <<manifest, frame, held, reply, ahead, forge, tree, pending, queued, pausing>>

\* Takes it that the worker merged the Target branch as it is by now.
WorkerCompletesNow(h) ==
  /\ h \in worker /\ In(h, "none") /\ h \notin pausing
  /\ worker' = worker \ {h}
  /\ local' = [local EXCEPT ![h] = pending[h].target]
  /\ unresolved' = unresolved \ {h}
  /\ pending' = [pending EXCEPT ![h].conflict = FALSE]
  /\ flow' = [flow EXCEPT ![h].at = "finish", ![h].target = target.sha]
  /\ NoQueueStep
  /\ UNCHANGED <<forge, queued, pausing>>

\* Goes on without the Target SHA of the conflict.
WorkerCompletesUntold(h) ==
  /\ h \in worker /\ In(h, "none") /\ h \notin pausing
  /\ worker' = worker \ {h}
  /\ local' = [local EXCEPT ![h] = pending[h].target]
  /\ unresolved' = unresolved \ {h}
  /\ pending' = [pending EXCEPT ![h].conflict = FALSE]
  /\ Go(h, "finish")
  /\ NoQueueStep
  /\ UNCHANGED <<forge, queued, pausing>>

\* The worker merged the Target commit it was given, however far the Target
\* branch is by now.
WorkerCompletes(h) ==
  /\ h \in worker /\ In(h, "none") /\ h \notin pausing
  /\ worker' = worker \ {h}
  /\ local' = [local EXCEPT ![h] = pending[h].target]
  /\ unresolved' = unresolved \ {h}
  /\ pending' = [pending EXCEPT ![h].conflict = FALSE]
  /\ flow' = [flow EXCEPT ![h].at = "finish", ![h].target = pending[h].target]
  /\ NoQueueStep
  /\ UNCHANGED <<forge, queued, pausing>>

\* The worker failed, or exited without a Stage result.
WorkerFails(h) ==
  /\ h \in worker /\ In(h, "none") /\ h \notin pausing
  /\ worker' = worker \ {h}
  /\ Fail(h, "deterministic")
  /\ NoQueueStep
  /\ UNCHANGED <<forge, tree, pending, queued, pausing>>

\* finishTargetRefreshAfterMerge, up to the local verification.
Finish(h) ==
  /\ In(h, "finish") /\ Free(h)
  /\ \/ Authority(h) /\ EnsureQueue(h) /\ Give(h, RenewHeld) /\ Go(h, "verify")
     \/ ~HasAuthority(h) /\ Fail(h, "transient")
        /\ UNCHANGED <<owner, queued, held, frame, reply>>
  /\ UNCHANGED <<manifest, ahead, forge, tree, pending, worker, pausing>>

VerifyLocally(h) ==
  /\ In(h, "verify") /\ frame[h] = Idle
  /\ Go(h, "push") \/ Fail(h, "deterministic")
  /\ NoQueueStep
  /\ UNCHANGED <<forge, tree, pending, worker, queued, pausing>>

\* The push may land and fail; it fails if the PR head is not an ancestor.
PushIntegration(h) ==
  LET w == WorkflowOf[h] IN
  /\ In(h, "push")
  /\ \/ /\ Authority(h) /\ head[w] # Foreign
        /\ head' = [head EXCEPT ![w] = local[h]]
        /\ Go(h, "release") \/ Fail(h, "transient")
     \/ Fail(h, "transient") /\ UNCHANGED <<owner, head>>
  /\ UNCHANGED <<manifest, frame, held, reply, ahead, target, merged, tree,
                 pending, worker, queued, pausing>>

\* releaseTargetRefreshForPrChecks; without required checks the candidate is
\* merge-ready at once, unless the policy cannot be read.
ReleaseForPrChecks(h) ==
  LET freshness == [headSha |-> local[h], validatedTargetSha |-> flow[h].target] IN
  /\ In(h, "release") /\ Free(h)
  /\ \/ /\ Authority(h)
        /\ \E admit \in {FALSE, ~RequiresChecks} : Give(h, ForPrChecks(freshness, admit))
        /\ Go(h, "released")
     \/ Fail(h, "transient") /\ UNCHANGED <<owner, frame, reply>>
  /\ UNCHANGED <<manifest, held, ahead, forge, tree, pending, worker, queued, pausing>>

AfterRelease(h) ==
  /\ In(h, "released") /\ Free(h)
  /\ IF reply[h] = "ok" THEN Return(h) /\ Clear(h) /\ UNCHANGED <<frame, reply>>
     ELSE Fail(h, "transient") /\ Give(h, ReleaseHeld) /\ UNCHANGED <<pending, queued>>
  /\ UNCHANGED <<manifest, owner, held, ahead, forge, tree, worker, pausing>>

\* A failure after which nothing is recorded and nothing released.
FailTargetRefreshSilently(h) ==
  /\ In(h, "fail") /\ Free(h)
  /\ Return(h) /\ Clear(h)
  /\ NoQueueStep
  /\ UNCHANGED <<forge, tree, worker, pausing>>

\* failTargetRefresh: a refresh that a pause forgot records no failure.
FailTargetRefresh(h) ==
  /\ In(h, "fail") /\ Free(h)
  /\ \/ /\ pending[h].present /\ Authority(h) /\ EnsureQueue(h)
        /\ Give(h, Record(flow[h].failure, "refresh"))
        /\ Go(h, "recorded")
        /\ UNCHANGED pending
     \/ /\ ~pending[h].present \/ ~HasAuthority(h)
        /\ IF h \in queued
           THEN Give(h, ReleaseHeld) /\ Go(h, "clear") /\ UNCHANGED <<pending, queued>>
           ELSE Return(h) /\ Clear(h) /\ UNCHANGED <<frame, reply>>
        /\ UNCHANGED <<owner, held>>
  /\ UNCHANGED <<manifest, ahead, forge, tree, worker, pausing>>

\* recordTargetRefreshFailure
AfterRecord(h) ==
  /\ In(h, "recorded") /\ Free(h)
  /\ IF reply[h] = "ok" THEN Return(h) /\ Clear(h) /\ UNCHANGED <<frame, reply>>
     ELSE Go(h, "clear") /\ Give(h, ReleaseHeld) /\ UNCHANGED <<pending, queued>>
  /\ UNCHANGED <<manifest, owner, held, ahead, forge, tree, worker, pausing>>

AfterReleaseHeld(h) ==
  /\ In(h, "clear") /\ Free(h)
  /\ Return(h) /\ Clear(h)
  /\ NoQueueStep
  /\ UNCHANGED <<forge, tree, worker, pausing>>

(***************************************************************************)
(* Merge                                                                   *)
(***************************************************************************)

\* What the coordinator read of its manifest now is what it writes in the end.
StartMerge(h) ==
  /\ In(h, "none") /\ Free(h) /\ h \notin worker /\ ~pending[h].present
  /\ Own(h).stage = "pr-opened" /\ Own(h).validatedTargetSha # 0
  /\ Authority(h)
  /\ EnsureQueue(h)
  /\ \E at \in {"merge lane", "observe"} :
       /\ flow' = [flow EXCEPT ![h].at = at, ![h].snapshot = Own(h)]
       /\ (at = "observe") <=> (held'[h] # 0)
       /\ IF at = "observe" THEN UNCHANGED <<frame, reply>> ELSE Give(h, Acquire("merge"))
  /\ UNCHANGED <<lane, clock, disturbed, faults>>
  /\ UNCHANGED <<manifest, ahead, forge, tree, pending, worker, pausing>>

AfterMergeLane(h) ==
  /\ In(h, "merge lane") /\ Free(h)
  /\ IF reply[h] = "ok" THEN Go(h, "observe") ELSE Return(h)
  /\ NoQueueStep
  /\ UNCHANGED <<forge, tree, pending, worker, queued, pausing>>

\* getPullRequestFreshness
Observe(h) ==
  /\ In(h, "observe") /\ Free(h)
  /\ \/ /\ flow' = [flow EXCEPT ![h].at = "evaluate", ![h].base = target.sha,
                                ![h].head = head[WorkflowOf[h]]]
        /\ UNCHANGED <<frame, reply>>
     \/ Return(h) /\ Give(h, Record("transient", "merge"))
  /\ UNCHANGED <<manifest, owner, held, ahead, forge, tree, pending, worker,
                 queued, pausing>>

\* Takes a Target branch that advanced for the one it validated.
MergeFreshnessAnyTarget(f, status) ==
  IF f.head # f.snapshot.headSha \/ status = "pending" THEN "awaiting-pr-checks"
  ELSE IF status = "failure" THEN "retryable" ELSE "ok"

\* Takes whatever head the PR has.
MergeFreshnessAnyHead(f, status) ==
  IF f.base # f.snapshot.validatedTargetSha THEN "requeue-refresh"
  ELSE IF status = "pending" THEN "awaiting-pr-checks"
  ELSE IF status = "failure" THEN "retryable" ELSE "ok"

\* evaluateMergeFreshness; it is given the lease it holds as the lease to expect.
MergeFreshness(f, status) ==
  IF f.base # f.snapshot.validatedTargetSha THEN "requeue-refresh"
  ELSE IF f.head # f.snapshot.headSha \/ status = "pending" THEN "awaiting-pr-checks"
  ELSE IF status = "failure" THEN "retryable" ELSE "ok"

\* The required checks count also where the policy of the branch cannot be read.
Evaluate(h) ==
  /\ In(h, "evaluate") /\ Free(h)
  /\ \E status \in {"success", "pending", "failure"} :
       LET answer == MergeFreshness(flow[h], status) IN
       \/ answer = "ok" /\ Go(h, "merge") /\ UNCHANGED <<frame, reply>>
       \/ /\ answer = "requeue-refresh"
          /\ Return(h) /\ Give(h, Record("deterministic", "stale-target-sha"))
       \/ /\ answer = "awaiting-pr-checks"
          /\ Return(h) /\ Give(h, ForPrChecks(NoFreshness, FALSE))
       \/ /\ answer = "retryable"
          /\ Return(h) /\ Give(h, Record("deterministic", "merge"))
  /\ UNCHANGED <<manifest, owner, held, ahead, forge, tree, pending, worker,
                 queued, pausing>>

\* The forge merges the expected head only; it looks at the base only where the
\* branch demands an up-to-date head.
Accepts(w, expected) ==
  /\ w \notin merged
  /\ head[w] = expected
  /\ RequiresChecks => head[w] = target.sha

\* Marks the PR merged whatever the forge answers.
MergePullRequestUnanswered(h) ==
  LET w == WorkflowOf[h] IN
  /\ In(h, "merge")
  /\ \/ /\ Accepts(w, flow[h].head)
        /\ merged' = merged \cup {w}
        /\ target' = [sha |-> target.sha + 1,
                      by |-> IF HoldsLane(held[h]) THEN "holder" ELSE "home"]
     \/ UNCHANGED <<merged, target>>
  /\ Go(h, "mark")
  /\ NoQueueStep
  /\ UNCHANGED <<head, tree, pending, worker, queued, pausing>>

\* mergePullRequest: the answer of a merge that happened may be lost.
MergePullRequest(h) ==
  LET w == WorkflowOf[h] IN
  /\ In(h, "merge")
  /\ \/ /\ Accepts(w, flow[h].head)
        /\ merged' = merged \cup {w}
        /\ target' = [sha |-> target.sha + 1,
                      by |-> IF HoldsLane(held[h]) THEN "holder" ELSE "home"]
        /\ Go(h, "mark") \/ Go(h, "refused")
     \/ Go(h, "refused") /\ UNCHANGED <<merged, target>>
  /\ NoQueueStep
  /\ UNCHANGED <<head, tree, pending, worker, queued, pausing>>

AfterRefusal(h) ==
  /\ In(h, "refused") /\ Free(h)
  /\ Return(h) /\ Give(h, Record("transient", "merge"))
  /\ UNCHANGED <<manifest, owner, held, ahead, forge, tree, pending, worker,
                 queued, pausing>>

\* The answer is not looked at.
MarkMerged(h) ==
  /\ In(h, "mark") /\ Free(h)
  /\ Go(h, "marked") /\ Give(h, Merged)
  /\ UNCHANGED <<manifest, owner, held, ahead, forge, tree, pending, worker,
                 queued, pausing>>

WriteMergedStage(h) ==
  /\ In(h, "marked") /\ Free(h)
  /\ Return(h)
  /\ \/ Authority(h) /\ Store(h, [flow[h].snapshot EXCEPT !.stage = "merged"])
     \/ UNCHANGED <<owner, manifest, ahead>>
  /\ UNCHANGED <<frame, held, reply, forge, tree, pending, worker, queued, pausing>>

(***************************************************************************)
(* Pause, crash, and the world                                             *)
(***************************************************************************)

\* A pause waits like any other command for the one that is running, and the
\* flow reads the answer of its own command.
AwaitsAnswer(h) ==
  flow[h].at \in {"lane", "released", "recorded", "merge lane"}

\* abortSessionWorkers: the lane is given up, and the flow goes on.
Pause(h) ==
  /\ Fault
  /\ h \in queued \cup worker /\ Free(h) /\ ~AwaitsAnswer(h)
  /\ worker' = worker \ {h}
  /\ IF h \in queued THEN Give(h, ReleaseHeld) ELSE UNCHANGED <<frame, reply>>
  /\ pausing' = pausing \cup {h}
  /\ UNCHANGED <<manifest, lane, owner, clock, held, disturbed, ahead, forge, tree, flow,
                 pending, queued>>

EndPause(h) ==
  /\ h \in pausing /\ frame[h] = Idle
  /\ pausing' = pausing \ {h}
  /\ queued' = queued \ {h}
  /\ pending' = IF pending[h].conflict THEN pending ELSE [pending EXCEPT ![h] = NoPending]
  /\ NoQueueStep
  /\ UNCHANGED <<forge, tree, flow, worker>>

\* The session's state is gone; the worktree is not.
Restart(h) ==
  /\ Crash(h)
  /\ flow' = [flow EXCEPT ![h] = NoFlow]
  /\ pending' = [pending EXCEPT ![h] = NoPending]
  /\ worker' = worker \ {h}
  /\ queued' = queued \ {h}
  /\ pausing' = pausing \ {h}
  /\ UNCHANGED <<forge, tree>>

\* The lane runs out under a home that remembers it only as a fault.
LaneLapses ==
  /\ lane.live
  /\ lane' = [lane EXCEPT !.live = FALSE]
  /\ IF \E h \in queued : held[h] = lane.generation THEN Fault ELSE UNCHANGED faults
  /\ NoQueueStep
  /\ UNCHANGED <<clock, disturbed, forge, tree, session>>

\* Somebody else pushes to the Target branch, or to a PR's branch.
TargetMoves ==
  /\ Fault
  /\ target' = [sha |-> target.sha + 1, by |-> "somebody"]
  /\ UNCHANGED <<lane, clock, disturbed, head, merged, tree, session>>
  /\ NoQueueStep

HeadMoves(w) ==
  /\ Fault
  /\ head' = [head EXCEPT ![w] = Foreign]
  /\ UNCHANGED <<lane, clock, disturbed, target, merged, tree, session>>
  /\ NoQueueStep

Deliver(h) ==
  /\ \/ AfterLane(h) \/ EnsureWorkspace(h) \/ MergeTarget(h) \/ LaunchWorker(h)
     \/ WorkerCompletes(h) \/ WorkerFails(h) \/ Finish(h) \/ VerifyLocally(h)
     \/ PushIntegration(h) \/ ReleaseForPrChecks(h) \/ AfterRelease(h)
     \/ FailTargetRefresh(h) \/ AfterRecord(h) \/ AfterReleaseHeld(h)
     \/ AfterMergeLane(h) \/ Observe(h) \/ Evaluate(h) \/ MergePullRequest(h)
     \/ AfterRefusal(h) \/ MarkMerged(h) \/ WriteMergedStage(h) \/ EndPause(h)
  /\ UNCHANGED <<lane, clock, disturbed, faults>>

\* The actions offered to the operator.
Choose(h) == StartRefresh(h) \/ RetryConflict(h) \/ StartMerge(h)

\* A home runs its calls and its flow.
Work(h) == (Run(h) /\ UNCHANGED <<forge, tree, session>>) \/ Deliver(h)

DeliveryNext ==
  \/ \E h \in Home : Work(h) \/ Choose(h) \/ Pause(h) \/ Restart(h)
  \/ \E w \in Workflow : \/ HeadMoves(w)
                         \/ OwnerEnds(w) /\ UNCHANGED <<forge, tree, session>>
  \/ LaneLapses \/ TargetMoves

DeliverySpec == DeliveryInit /\ [][DeliveryNext]_deliveryVars

\* Calls return, workers end, and a pause finishes.
LiveDeliverySpec == DeliverySpec /\ \A h \in Home : WF_deliveryVars(Work(h))

\* Besides, whatever is offered again and again is chosen in the end.
EagerDeliverySpec ==
  LiveDeliverySpec /\ \A h \in Home : /\ SF_deliveryVars(StartRefresh(h))
                                       /\ SF_deliveryVars(StartMerge(h))

(***************************************************************************)
(* Properties                                                              *)
(***************************************************************************)

Merges(h) == WorkflowOf[h] \in merged' \ merged

\* A merge under the lane goes onto the very Target commit the PR was refreshed
\* against, if nothing moved the Target branch after the home looked at it but
\* merges under the lane: other workflows that keep to the lane cannot get in
\* between (ADR 0018, "exclusive across sessions").
LaneKeepsBaseFresh ==
  [][ \A h \in Home :
        /\ Merges(h) /\ HoldsLane(held[h])
        /\ target.sha # flow[h].base => target.by = "holder"
        => Own(h).validatedTargetSha = target.sha ]_deliveryVars

\* What the forge merges is the head that a refresh verified and recorded,
\* never one pushed since, by a later refresh or by somebody else.
RecordedHeadIsMerged ==
  [][ \A h \in Home :
        Merges(h) => /\ head[WorkflowOf[h]] = Own(h).headSha
                     /\ Own(h).validatedTargetSha # 0 ]_deliveryVars

\* The recorded head contains the Target commit it is said to be validated
\* against, however often a refresh was paused, retried or resolved by hand
\* while the Target branch advanced.
ValidatedShaIsInHead ==
  \A w \in Workflow : manifest[w].validatedTargetSha <= manifest[w].headSha

\* A manifest that says merged tells the truth.
RecordedMergeHappened ==
  \A w \in Workflow :
    manifest[w].stage = "merged" \/ manifest[w].candidate.state = "merged" => w \in merged

\* However a flow ends, failed, refused or paused on its way, it gives the lane
\* back, unless a call of the queue threw or the home found its lease gone: only
\* a flow that goes on, or a worker, keeps other workflows waiting.
LaneIsGivenBack ==
  \A h \in Home :
    In(h, "none") /\ Free(h) /\ h \notin worker /\ ~disturbed[h] => ~HoldsLane(held[h])

\* No Workflow home is the reason for a merge onto a commit the PR was not
\* refreshed against (ADR 0018: "rejects ... stale-base merges").
NoStaleBaseMerge ==
  [][ \A h \in Home :
        Merges(h) /\ target.by # "somebody"
        => Own(h).validatedTargetSha = target.sha ]_deliveryVars

\* A PR that was found to be validated against another Target commit than the
\* tip is refreshed again (ADR 0018: "refreshes and rechecks when the Target
\* branch advances").
StaleTargetIsRefreshed ==
  \A w \in Workflow :
    manifest[w].candidate.retry.reason = "stale-target-sha"
      ~> manifest[w].candidate.state = "refreshing"

\* A PR that was refreshed, pushed and given to the required checks does not wait
\* for them for ever: their result, green or red, moves it on (ADR 0018: "ordered
\* FIFO when the current PR head passes required checks").
ChecksEndTheWait ==
  \A w \in Workflow :
    manifest[w].candidate.state = "awaiting-pr-checks" /\ manifest[w].validatedTargetSha # 0
      ~> manifest[w].candidate.state # "awaiting-pr-checks"
=============================================================================
