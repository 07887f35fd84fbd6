------------------------- MODULE TargetBranchQueue -------------------------
(***************************************************************************)
(* The Target-branch queue orchestrator of every Workflow home             *)
(* (src/src/target-branch-queue.ts): nine commands that read the manifests *)
(* of the Active workflows, take or verify leases, and write the home's    *)
(* own manifest.  The queue itself is stored nowhere: it is reconstructed  *)
(* from the merge-ready candidates.                                        *)
(*                                                                         *)
(* A command is a sequence of awaited calls, and a home runs one command   *)
(* at a time (transitionMutex).  Each call is a step here; a home's frame  *)
(* holds the calls its command has still to make and what it remembers     *)
(* between them.  Any call may throw, before or after it took effect.      *)
(*                                                                         *)
(* Leases are what CoordinationLease shows them to be: fenced generations  *)
(* that run out.  The Target-branch lease is the lane; the Workflow        *)
(* coordinator lease is an owner per workflow.  A lease runs out at any    *)
(* moment, and a crashed home comes back with nothing remembered.          *)
(***************************************************************************)
EXTENDS Naturals, Sequences, FiniteSets

CONSTANTS Home,          \* Workflow homes
          NoHome,        \* the owner of a workflow nobody coordinates
          Workflow,      \* Workflow IDs of one Target branch
          WorkflowOf,    \* the workflow each home delivers
          Sha,           \* git object ids of PR heads and of the Target branch
          Reason,        \* reasons callers give for failures
          Budget,        \* maxAttempts values of retry policies
          MaxBackoff,    \* cap of the exponential backoff, whose base is 1
          Offered,       \* the commands callers give
          MaxClock,      \* bound: time stops here
          MaxFaults,     \* bound: calls that throw, lost answers, crashes, and
                         \* coordinator leases that end
          MaxAttempt,    \* bound: failures recorded in a row
          MaxGeneration  \* bound: grants of the lane

ASSUME HomesAssumption == NoHome \notin Home /\ WorkflowOf \in [Home -> Workflow]
ASSUME NumbersAssumption == /\ Workflow \subseteq Nat \ {0}
                            /\ Sha \subseteq Nat \ {0} /\ Sha # {}
                            /\ Budget \subseteq Nat \ {0}
                            /\ \E n \in Budget : \A m \in Budget : m <= n
                            /\ MaxBackoff \in Nat \ {0}
                            /\ MaxClock \in Nat
                            /\ MaxFaults \in Nat
                            /\ MaxAttempt \in Nat
                            /\ MaxGeneration \in Nat

VARIABLES manifest,  \* the manifest of each workflow, kept by the tracker
          lane,      \* the Target-branch lease: its last generation, and whether
                     \* that one is neither released nor over
          owner,     \* who has a live Workflow coordinator lease
          clock,     \* time
          frame,     \* the command each home is in
          held,      \* generation of heldTargetLease, 0 when undefined
          reply,     \* outcome of each home's last command
          faults,    \* how many faults happened
          disturbed, \* history: a call of the home threw, found a lease gone, or gave it up
          ahead      \* history: who has been ahead ever since the home took the lane

vars == <<manifest, lane, owner, clock, frame, held, reply, faults, disturbed, ahead>>

(***************************************************************************)
(* Candidates and the queue                                                *)
(***************************************************************************)

\* Forgets that a retry can be exhausted.
NoRetryUnmarked == [reason |-> "none", attempt |-> 0, maxAttempts |-> 0,
                    nextRetryAt |-> 0]
NoRetry == [reason |-> "none", exhausted |-> FALSE, attempt |-> 0,
            maxAttempts |-> 0, nextRetryAt |-> 0]
Plain(state) == [state |-> state, mergeReadyAt |-> 0, retry |-> NoRetry]
MergeReady(at) == [Plain("merge-ready") EXCEPT !.mergeReadyAt = at]

\* The reasons the queue gives itself.
ChecksFailed == "required-pr-checks-failed"
LeaseExpired == "target-branch-lease-expired"

Retry == [reason : Reason \cup {"none", ChecksFailed, LeaseExpired},
          exhausted : BOOLEAN, attempt : Nat, maxAttempts : Nat, nextRetryAt : Nat]
Candidate == [state : {"awaiting-pr-checks", "merge-ready", "refreshing",
                       "retryable", "transient-retry", "merged"},
              mergeReadyAt : Nat, retry : Retry]

\* validatedTargetSha is 0 while the PR was never refreshed.
Manifest == [stage : {"pr-opened", "merged"}, candidate : Candidate,
             headSha : Sha, validatedTargetSha : Sha \cup {0}]
Manifests == [Workflow -> Manifest]

\* Who stands in the reconstructed queue.
InQueue(ms, w) == ms[w].stage = "pr-opened" /\ ms[w].candidate.state = "merge-ready"

\* FIFO by the time a candidate became merge-ready, then by Workflow ID.
Before(ms, v, w) ==
  LET at(x) == ms[x].candidate.mergeReadyAt IN
  at(v) < at(w) \/ (at(v) = at(w) /\ v < w)

\* The queue entries that w has to wait for.
Ahead(ms, w) == {v \in Workflow \ {w} : /\ InQueue(ms, v)
                                        /\ InQueue(ms, w) => Before(ms, v, w)}

\* The first refresh of a PR may start before its checks are green.
RefreshBootstrap(m, phase) ==
  /\ phase = "refresh"
  /\ m.validatedTargetSha = 0
  /\ m.candidate.state \in {"awaiting-pr-checks", "refreshing", "merge-ready"}

Eligible(ms, w, phase) ==
  /\ ms[w].candidate.state = "merge-ready" \/ RefreshBootstrap(ms[w], phase)
  /\ ms[w].candidate.state = "merge-ready" => InQueue(ms, w)
  /\ Ahead(ms, w) = {}

RetryAttempt(c, reason) ==
  IF /\ c.state \in {"retryable", "transient-retry"}
     /\ c.retry.reason = reason /\ ~c.retry.exhausted
  THEN c.retry.attempt + 1 ELSE 1

Backoff(attempt) ==
  LET raw == 2 ^ (attempt - 1) IN IF raw \in 1..MaxBackoff THEN raw ELSE MaxBackoff

Retryable(reason, exhausted, attempt) ==
  [Plain("retryable") EXCEPT
     !.retry = [NoRetry EXCEPT !.reason = reason, !.exhausted = exhausted,
                               !.attempt = attempt]]

\* Checks that are green or red end a pending retry.
AfterPrChecksAlways(m, headSha, status) ==
  IF headSha # m.headSha \/ status = "pending" THEN Plain("awaiting-pr-checks")
  ELSE IF status = "failure"
       THEN Retryable(ChecksFailed, FALSE, RetryAttempt(m.candidate, ChecksFailed))
       ELSE MergeReady(clock)

\* transitionTargetBranchQueueForPrChecks
AfterPrChecks(m, headSha, status) ==
  LET c == m.candidate IN
  CASE c.state \in {"merged", "retryable", "transient-retry"} -> c
    [] c.state \notin {"merged", "retryable", "transient-retry"}
       /\ (headSha # m.headSha \/ status = "pending") -> Plain("awaiting-pr-checks")
    [] OTHER -> IF status = "failure"
                THEN Retryable(ChecksFailed, FALSE, RetryAttempt(c, ChecksFailed))
                ELSE IF c.state = "merge-ready" THEN c ELSE MergeReady(clock)

\* A failure that trusts every caller's budget.
AfterFailureAnyBudget(c, kind, reason, budget) ==
  LET attempt == RetryAttempt(c, reason) IN
  CASE c.state = "merged" -> c
    [] c.state # "merged" /\ kind = "deterministic" -> Retryable(reason, FALSE, attempt)
    [] c.state # "merged" /\ kind = "transient" /\ attempt > budget ->
         Retryable(reason, TRUE, attempt)
    [] OTHER -> [Plain("transient-retry") EXCEPT
                   !.retry = [reason |-> reason, exhausted |-> FALSE,
                              attempt |-> attempt, maxAttempts |-> budget,
                              nextRetryAt |-> clock + Backoff(attempt)]]

\* recordTargetBranchQueueFailure
AfterFailure(c, kind, reason, budget) ==
  LET attempt == RetryAttempt(c, reason)
      running == c.state = "transient-retry" /\ c.retry.reason = reason
      max == IF running /\ c.retry.maxAttempts < budget
             THEN c.retry.maxAttempts ELSE budget
  IN CASE c.state = "merged" -> c
       [] c.state # "merged" /\ kind = "deterministic" -> Retryable(reason, FALSE, attempt)
       [] c.state # "merged" /\ kind = "transient" /\ attempt > max ->
            Retryable(reason, TRUE, attempt)
       [] OTHER -> [Plain("transient-retry") EXCEPT
                      !.retry = [reason |-> reason, exhausted |-> FALSE,
                                 attempt |-> attempt, maxAttempts |-> max,
                                 nextRetryAt |-> clock + Backoff(attempt)]]

\* requeueTargetBranchQueueCandidate, asked for this kind of retry.
Requeues(c, kind) ==
  \/ kind = "transient" /\ c.state = "transient-retry" /\ c.retry.nextRetryAt <= clock
  \/ kind = "deterministic" /\ c.state = "retryable"

(***************************************************************************)
(* Commands and frames                                                     *)
(***************************************************************************)

Freshness == [headSha : Sha, validatedTargetSha : Sha]
NoFreshness == [headSha |-> 0, validatedTargetSha |-> 0]

Command ==
  [kind : {"observe-pr-checks"}, headSha : Sha, status : {"pending", "failure", "success"}]
    \cup [kind : {"acquire-phase"}, phase : {"refresh", "merge"}]
    \cup [kind : {"release-for-pr-checks"}, prFreshness : Freshness \cup {NoFreshness},
          admitMergeReady : BOOLEAN]
    \cup [kind : {"record-failure"}, failureKind : {"transient", "deterministic"},
          reason : Reason \cup {LeaseExpired}, budget : Budget]
    \cup [kind : {"requeue-retry"}, retryKind : {"transient", "deterministic"}]
    \cup [kind : {"mark-merged", "recover-expired-target-lease",
                  "renew-held-target-lease", "release-held-target-lease"}]
NoCommand == [kind |-> "none"]

ASSUME OfferedAssumption == Offered \subseteq Command

\* persistCandidate without and with a Target lease to verify.
Persist == <<"workflow", "write">>
PersistFenced == <<"workflow", "fence", "write">>

\* The calls a command makes when all goes well, up to the first decision that
\* changes them.
Calls(kind) ==
  CASE kind = "observe-pr-checks" -> <<"load">>
    [] kind = "acquire-phase" ->
         <<"workflow", "load", "acquire", "target", "reload">> \o PersistFenced
    [] kind \in {"release-for-pr-checks", "mark-merged"} ->
         <<"target", "workflow", "load">> \o PersistFenced \o <<"release">>
    [] kind = "record-failure" -> <<"workflow", "load">>
    [] kind = "requeue-retry" -> <<"workflow", "load">> \o Persist
    [] kind = "recover-expired-target-lease" -> <<"workflow", "load", "inspect">>
    [] kind = "renew-held-target-lease" -> <<"target", "renew">>
    [] kind = "release-held-target-lease" -> <<"target", "release">>

\* The manifest to write is that of the loaded workflow with another candidate;
\* fence is the generation the command verified, 0 without one.
NoDraft == [stage |-> "pr-opened", candidate |-> Plain("awaiting-pr-checks"),
            headSha |-> 0, validatedTargetSha |-> 0]
Idle == [command |-> NoCommand, todo |-> <<>>, draft |-> NoDraft, fence |-> 0]
Frame == [command : Command \cup {NoCommand},
          todo : Seq({"workflow", "load", "acquire", "target", "reload", "fence",
                      "write", "release", "inspect", "renew"}),
          draft : Manifest \cup {NoDraft},
          fence : Nat]

TypeOK ==
  /\ manifest \in Manifests
  /\ lane \in [generation : Nat, live : BOOLEAN]
  /\ owner \in [Workflow -> Home \cup {NoHome}]
  /\ clock \in Nat
  /\ frame \in [Home -> Frame]
  /\ held \in [Home -> Nat]
  /\ reply \in [Home -> {"none", "ok", "failed"}]
  /\ faults \in Nat
  /\ disturbed \in [Home -> BOOLEAN]
  /\ ahead \in [Home -> SUBSET Workflow]

Init ==
  /\ manifest \in [Workflow -> {[stage |-> "pr-opened", candidate |-> c,
                                 headSha |-> s, validatedTargetSha |-> 0] :
                                c \in {Plain("awaiting-pr-checks"), MergeReady(0)},
                                s \in {CHOOSE s \in Sha : TRUE}}]
  /\ lane = [generation |-> 0, live |-> FALSE]
  /\ owner = [w \in Workflow |-> NoHome]
  /\ clock = 0
  /\ frame = [h \in Home |-> Idle]
  /\ held = [h \in Home |-> 0]
  /\ reply = [h \in Home |-> "none"]
  /\ faults = 0
  /\ disturbed = [h \in Home |-> FALSE]
  /\ ahead = [h \in Home |-> {}]

(***************************************************************************)
(* Running a command                                                       *)
(***************************************************************************)

Own(h) == manifest[WorkflowOf[h]]
At(h, call) == frame[h].todo # <<>> /\ Head(frame[h].todo) = call
AtFor(h, call, kind) == At(h, call) /\ frame[h].command.kind = kind

\* The command goes on with these calls, or returns.
Resume(h, f) == frame' = [frame EXCEPT ![h] = IF f.todo = <<>> THEN Idle ELSE f]
Proceed(h) == Resume(h, [frame[h] EXCEPT !.todo = Tail(@)])

\* A failed command leaves the lane as it is.
CleanupNothing(h) == <<>>

\* A failed command releases the lease it verified; a failure to record is
\* also a failure to read its own workflow, and releases whatever is held.
Cleanup(h) ==
  LET f == frame[h]
      own == \/ f.command.kind = "record-failure"
             \/ AtFor(h, "load", "observe-pr-checks")
  IN IF /\ Head(f.todo) \in {"workflow", "load", "reload", "fence", "write"}
        /\ f.fence # 0 \/ (own /\ held[h] # 0)
     THEN <<"release">> ELSE <<>>

Abort(h) == /\ Resume(h, [frame[h] EXCEPT !.todo = Cleanup(h), !.draft = NoDraft])
            /\ reply' = [reply EXCEPT ![h] = "failed"]
            /\ ahead' = [ahead EXCEPT ![h] = {}]

\* A fault of the world.
Fault == faults < MaxFaults /\ faults' = faults + 1

Disturb(h) == disturbed' = [disturbed EXCEPT ![h] = TRUE]

\* transition: the next command waits until the last one has returned.
Transition(h, c) ==
  /\ frame[h] = Idle
  /\ c.kind = "record-failure" => Own(h).candidate.retry.attempt < MaxAttempt
  /\ frame' = [frame EXCEPT ![h] = [Idle EXCEPT !.command = c, !.todo = Calls(c.kind)]]
  /\ reply' = [reply EXCEPT ![h] = "ok"]
  /\ UNCHANGED <<faults, manifest, lane, owner, clock, held, disturbed, ahead>>

(***************************************************************************)
(* Leases                                                                  *)
(***************************************************************************)

HoldsLane(generation) ==
  generation # 0 /\ lane.generation = generation /\ lane.live

VerifyWorkflowAuthority(h) ==
  /\ At(h, "workflow")
  /\ IF owner[WorkflowOf[h]] = h
     THEN Proceed(h) /\ UNCHANGED <<reply, disturbed, ahead>>
     ELSE Abort(h) /\ Disturb(h)
  /\ UNCHANGED <<faults, manifest, lane, owner, clock, held>>

\* verifyTargetAuthority of the lease the home remembers.
VerifyHeldLease(h) ==
  /\ At(h, "target")
  /\ IF HoldsLane(held[h])
     THEN /\ Resume(h, [frame[h] EXCEPT !.todo = Tail(@), !.fence = held[h]])
          /\ UNCHANGED <<held, reply, disturbed, ahead>>
     ELSE /\ Abort(h)
          /\ held' = [held EXCEPT ![h] = 0]
          /\ disturbed' = [disturbed EXCEPT ![h] = @ \/ held[h] # 0]
  /\ UNCHANGED <<faults, manifest, lane, owner, clock>>

\* verifyTargetAuthority again, immediately before the write.
VerifyFence(h) ==
  /\ At(h, "fence")
  /\ IF HoldsLane(frame[h].fence)
     THEN Proceed(h) /\ UNCHANGED <<held, reply, disturbed, ahead>>
     ELSE Abort(h) /\ Disturb(h) /\ held' = [held EXCEPT ![h] = 0]
  /\ UNCHANGED <<faults, manifest, lane, owner, clock>>

\* The lane is granted when it is free or when its lease ran out.  Once the
\* bound on grants is reached it is refused, as if somebody else had it.
Grant ==
  /\ ~lane.live
  /\ lane.generation < MaxGeneration
  /\ lane' = [generation |-> lane.generation + 1, live |-> TRUE]

AcquireLane(h) ==
  /\ At(h, "acquire")
  /\ \/ /\ Grant
        /\ Proceed(h)
        /\ held' = [held EXCEPT ![h] = lane.generation + 1]
        /\ ahead' = [ahead EXCEPT ![h] = Ahead(manifest, WorkflowOf[h])]
        /\ disturbed' = [disturbed EXCEPT ![h] = @ \/ held[h] # 0]
        /\ UNCHANGED reply
     \/ /\ lane.live \/ lane.generation = MaxGeneration
        /\ Abort(h)
        /\ UNCHANGED <<lane, held, disturbed>>
  /\ UNCHANGED <<faults, manifest, owner, clock>>

\* releaseVerifiedTargetLease: the lease is forgotten whatever the answer is.
ReleaseLane(h) ==
  /\ At(h, "release")
  /\ LET token == IF frame[h].fence # 0 THEN frame[h].fence ELSE held[h] IN
     IF HoldsLane(token)
     THEN /\ lane' = [lane EXCEPT !.live = FALSE]
          /\ Proceed(h)
          /\ disturbed' = [disturbed EXCEPT
               ![h] = @ \/ frame[h].command.kind = "release-held-target-lease"]
          /\ UNCHANGED <<reply, ahead>>
     ELSE Abort(h) /\ Disturb(h) /\ UNCHANGED lane
  /\ held' = [held EXCEPT ![h] = 0]
  /\ UNCHANGED <<faults, manifest, owner, clock>>

RenewLane(h) ==
  /\ At(h, "renew")
  /\ IF HoldsLane(frame[h].fence)
     THEN Proceed(h) /\ UNCHANGED <<held, reply, disturbed, ahead>>
     ELSE Abort(h) /\ Disturb(h) /\ held' = [held EXCEPT ![h] = 0]
  /\ UNCHANGED <<faults, manifest, lane, owner, clock>>

\* recoverExpiredTargetLease forgets a lease that is over, its own included,
\* and goes on as recordFailure.
InspectLane(h) ==
  /\ At(h, "inspect")
  /\ IF lane.live
     THEN Abort(h) /\ UNCHANGED held
     ELSE /\ Resume(h, [frame[h] EXCEPT
               !.command = [kind |-> "record-failure", failureKind |-> "transient",
                            reason |-> LeaseExpired,
                            budget |-> CHOOSE n \in Budget : \A m \in Budget : m <= n],
               !.todo = Calls("record-failure")])
          /\ held' = [held EXCEPT ![h] = 0]
          /\ UNCHANGED <<reply, ahead>>
  /\ UNCHANGED <<faults, manifest, lane, owner, clock, disturbed>>

(***************************************************************************)
(* Decisions                                                               *)
(***************************************************************************)

\* The command decided on a candidate and goes on to persist it.
Decide(h, candidate, calls) ==
  Resume(h, [frame[h] EXCEPT !.draft = [Own(h) EXCEPT !.candidate = candidate],
                             !.todo = calls])

\* loadOwnWorkflow and what each command makes of it; m is its own manifest.
LoadToObserve(h) ==
  /\ AtFor(h, "load", "observe-pr-checks")
  /\ LET c == frame[h].command
         next == AfterPrChecks(Own(h), c.headSha, c.status)
     IN IF next = Own(h).candidate THEN Proceed(h)
        ELSE Decide(h, next, IF Own(h).candidate.state = "refreshing"
                             THEN <<"target">> \o PersistFenced \o <<"release">>
                             ELSE Persist)
  /\ UNCHANGED <<faults, manifest, lane, owner, clock, held, reply, disturbed, ahead>>

LoadToAcquire(h) ==
  /\ AtFor(h, "load", "acquire-phase")
  /\ IF Eligible(manifest, WorkflowOf[h], frame[h].command.phase)
     THEN Proceed(h) /\ UNCHANGED <<reply, ahead>>
     ELSE Abort(h)
  /\ UNCHANGED <<faults, manifest, lane, owner, clock, held, disturbed>>

\* Without the second look the lane is taken on what was read before it.
ReloadUnchecked(h) ==
  /\ At(h, "reload")
  /\ Decide(h, Plain("refreshing"), Tail(frame[h].todo))
  /\ UNCHANGED <<faults, manifest, lane, owner, clock, held, disturbed, reply, ahead>>

\* The manifests may have changed while the lane was acquired.
Reload(h) ==
  /\ At(h, "reload")
  /\ IF Eligible(manifest, WorkflowOf[h], frame[h].command.phase)
     THEN /\ Decide(h, Plain("refreshing"), Tail(frame[h].todo))
          /\ UNCHANGED <<reply, ahead>>
     ELSE Abort(h)
  /\ UNCHANGED <<faults, manifest, lane, owner, clock, held, disturbed>>

LoadToRelease(h) ==
  /\ AtFor(h, "load", "release-for-pr-checks")
  /\ IF Own(h).candidate.state = "refreshing"
     THEN LET c == frame[h].command
              next == IF c.admitMergeReady THEN MergeReady(clock)
                      ELSE Plain("awaiting-pr-checks")
              m == IF c.prFreshness = NoFreshness THEN Own(h)
                   ELSE [Own(h) EXCEPT
                           !.headSha = c.prFreshness.headSha,
                           !.validatedTargetSha = c.prFreshness.validatedTargetSha]
          IN /\ Resume(h, [frame[h] EXCEPT !.draft = [m EXCEPT !.candidate = next],
                                           !.todo = Tail(@)])
             /\ UNCHANGED <<reply, ahead>>
     ELSE Abort(h)
  /\ UNCHANGED <<faults, manifest, lane, owner, clock, held, disturbed>>

\* Records the failure and goes on holding the lane.
LoadToRecordFailureHolding(h) ==
  /\ AtFor(h, "load", "record-failure")
  /\ LET c == frame[h].command IN
     Decide(h, AfterFailure(Own(h).candidate, c.failureKind, c.reason, c.budget),
            IF held[h] # 0 THEN <<"target">> \o PersistFenced ELSE Persist)
  /\ UNCHANGED <<faults, manifest, lane, owner, clock, held, reply, disturbed, ahead>>

LoadToRecordFailure(h) ==
  /\ AtFor(h, "load", "record-failure")
  /\ LET c == frame[h].command IN
     Decide(h, AfterFailure(Own(h).candidate, c.failureKind, c.reason, c.budget),
            IF held[h] # 0 THEN <<"target">> \o PersistFenced \o <<"release">>
            ELSE Persist)
  /\ UNCHANGED <<faults, manifest, lane, owner, clock, held, reply, disturbed, ahead>>

LoadToRequeue(h) ==
  /\ AtFor(h, "load", "requeue-retry")
  /\ IF Requeues(Own(h).candidate, frame[h].command.retryKind)
     THEN /\ Decide(h, Plain("awaiting-pr-checks"), Tail(frame[h].todo))
          /\ UNCHANGED <<reply, ahead>>
     ELSE Abort(h)
  /\ UNCHANGED <<faults, manifest, lane, owner, clock, held, disturbed>>

LoadToMarkMerged(h) ==
  /\ AtFor(h, "load", "mark-merged")
  /\ IF Own(h).candidate.state = "refreshing"
     THEN /\ Decide(h, Plain("merged"), Tail(frame[h].todo))
          /\ UNCHANGED <<reply, ahead>>
     ELSE Abort(h)
  /\ UNCHANGED <<faults, manifest, lane, owner, clock, held, disturbed>>

LoadToRecover(h) ==
  /\ AtFor(h, "load", "recover-expired-target-lease")
  /\ IF Own(h).candidate.state = "refreshing"
     THEN Proceed(h) /\ UNCHANGED <<reply, ahead>>
     ELSE Abort(h)
  /\ UNCHANGED <<faults, manifest, lane, owner, clock, held, disturbed>>

Load(h) ==
  \/ LoadToObserve(h) \/ LoadToAcquire(h) \/ LoadToRelease(h)
  \/ LoadToRecordFailure(h) \/ LoadToRequeue(h) \/ LoadToMarkMerged(h)
  \/ LoadToRecover(h)

(***************************************************************************)
(* Writes, failures, and the world                                         *)
(***************************************************************************)

\* A manifest is replaced as a whole; who is no longer ahead is forgotten.
Store(h, m) ==
  /\ manifest' = [manifest EXCEPT ![WorkflowOf[h]] = m]
  /\ ahead' = [k \in Home |-> IF k = h THEN {}
                              ELSE ahead[k] \cap Ahead(manifest', WorkflowOf[k])]

\* writeWorkflowManifest: nothing fences the write itself.
WriteManifest(h) ==
  /\ At(h, "write")
  /\ Store(h, frame[h].draft)
  /\ Proceed(h)
  /\ UNCHANGED <<faults, lane, owner, clock, held, reply, disturbed>>

\* A call throws and did nothing.
CallThrows(h) ==
  /\ Fault
  /\ frame[h] # Idle
  /\ Abort(h)
  /\ Disturb(h)
  /\ UNCHANGED <<manifest, lane, owner, clock, held>>

\* A call took effect and its answer was lost: it throws, or a lease operation
\* mistakes its own push for a lost race.
AnswerLost(h) ==
  /\ Fault
  /\ \/ /\ At(h, "acquire")
        /\ Grant
        /\ Abort(h)
        /\ UNCHANGED <<manifest, held>>
     \/ /\ At(h, "release")
        /\ HoldsLane(IF frame[h].fence # 0 THEN frame[h].fence ELSE held[h])
        /\ lane' = [lane EXCEPT !.live = FALSE]
        /\ Abort(h)
        /\ held' \in {held, [held EXCEPT ![h] = 0]}
        /\ UNCHANGED manifest
     \/ /\ At(h, "renew")
        /\ HoldsLane(frame[h].fence)
        /\ Abort(h)
        /\ held' \in {held, [held EXCEPT ![h] = 0]}
        /\ UNCHANGED <<manifest, lane>>
     \/ /\ At(h, "write")
        /\ Store(h, frame[h].draft)
        /\ Resume(h, [frame[h] EXCEPT !.todo = Cleanup(h), !.draft = NoDraft])
        /\ reply' = [reply EXCEPT ![h] = "failed"]
        /\ UNCHANGED <<lane, held>>
  /\ Disturb(h)
  /\ UNCHANGED <<owner, clock>>

\* A home takes the coordinator lease of its workflow between commands.
Claim(h) ==
  /\ frame[h] = Idle
  /\ owner[WorkflowOf[h]] = NoHome
  /\ owner' = [owner EXCEPT ![WorkflowOf[h]] = h]
  /\ UNCHANGED <<faults, manifest, lane, clock, frame, held, reply, disturbed, ahead>>

\* A coordinator lease runs out or is released.
OwnerEnds(w) ==
  /\ Fault
  /\ owner[w] # NoHome
  /\ owner' = [owner EXCEPT ![w] = NoHome]
  /\ UNCHANGED <<manifest, lane, clock, frame, held, reply, disturbed, ahead>>

LaneRunsOut ==
  /\ lane.live
  /\ lane' = [lane EXCEPT !.live = FALSE]
  /\ UNCHANGED <<faults, manifest, owner, clock, frame, held, reply, disturbed, ahead>>

\* The process dies and is started again, as a home that holds nothing.
Crash(h) ==
  /\ Fault
  /\ frame' = [frame EXCEPT ![h] = Idle]
  /\ held' = [held EXCEPT ![h] = 0]
  /\ reply' = [reply EXCEPT ![h] = "none"]
  /\ ahead' = [ahead EXCEPT ![h] = {}]
  /\ owner' = [w \in Workflow |-> IF owner[w] = h THEN NoHome ELSE owner[w]]
  /\ Disturb(h)
  /\ UNCHANGED <<manifest, lane, clock>>

Tick == /\ clock < MaxClock
        /\ clock' = clock + 1
        /\ UNCHANGED <<faults, manifest, lane, owner, frame, held, reply, disturbed, ahead>>

Run(h) ==
  \/ VerifyWorkflowAuthority(h) \/ VerifyHeldLease(h) \/ VerifyFence(h)
  \/ AcquireLane(h) \/ ReleaseLane(h) \/ RenewLane(h) \/ InspectLane(h)
  \/ Load(h) \/ Reload(h) \/ WriteManifest(h)
  \/ CallThrows(h) \/ AnswerLost(h)

World == \/ \E h \in Home : Claim(h) \/ Crash(h)
         \/ \E w \in Workflow : OwnerEnds(w)
         \/ LaneRunsOut \/ Tick

Next == \/ \E h \in Home : Run(h) \/ \E c \in Offered : Transition(h, c)
        \/ World

Spec == Init /\ [][Next]_vars

(***************************************************************************)
(* Properties                                                              *)
(***************************************************************************)

\* Between commands a home holds the Target lease exactly while its workflow is
\* refreshing, as long as no call threw, it found no lease gone, and it was not
\* told to give the lease up: no command returns with the lane taken for nothing
\* ("must never intentionally pin the serial lane", target-branch-queue.ts:941),
\* or leaves a refreshing candidate without it.
LaneFollowsCandidate ==
  \A h \in Home :
    (frame[h] = Idle /\ ~disturbed[h])
    => ((held[h] # 0) <=> (Own(h).candidate.state = "refreshing"))

\* A home starts to refresh only if nobody has been ahead of it in the queue
\* ever since it took the lane: FIFO holds across the race for the lease
\* (acquireForPhase looks at the queue twice).
NoOvertaking ==
  [][ \A h \in Home :
        (/\ AtFor(h, "write", "acquire-phase")
         /\ frame'[h] = Idle
         /\ manifest' # manifest)
        => ahead[h] = {} ]_vars

\* What may follow what in a candidate's life, whatever the commands, their
\* failures and the restarts of the home: a retry outcome is left only by
\* going back to the checks, nothing becomes merged but what is refreshing,
\* and merged is the end.
Follows ==
  [s \in {"awaiting-pr-checks", "merge-ready", "refreshing", "retryable",
          "transient-retry", "merged"} |->
     CASE s = "awaiting-pr-checks" -> {"merge-ready", "refreshing", "retryable", "transient-retry"}
       [] s = "merge-ready" -> {"awaiting-pr-checks", "refreshing", "retryable", "transient-retry"}
       [] s = "refreshing" -> {"awaiting-pr-checks", "merge-ready", "retryable",
                               "transient-retry", "merged"}
       [] s = "retryable" -> {"awaiting-pr-checks", "transient-retry"}
       [] s = "transient-retry" -> {"awaiting-pr-checks", "retryable"}
       [] s = "merged" -> {}]

CandidateLifecycle ==
  [][ \A w \in Workflow :
        LET s == manifest[w].candidate.state
            t == manifest'[w].candidate.state
        IN s # t => t \in Follows[s] ]_vars

\* A sequence of transient failures never gets a larger budget on its way, goes
\* up by one, and ends when the budget is used up (target-branch-queue.ts:553).
\* It is left early only when its backoff has elapsed.
RetryBudgetIsKept ==
  [][ \A w \in Workflow :
        LET c == manifest[w].candidate
            d == manifest'[w].candidate
        IN (c.state = "transient-retry" /\ d # c) =>
             CASE d.state = "awaiting-pr-checks" -> c.retry.nextRetryAt <= clock
               [] d.state = "transient-retry" /\ d.retry.reason = c.retry.reason ->
                    /\ d.retry.maxAttempts <= c.retry.maxAttempts
                    /\ d.retry.attempt = c.retry.attempt + 1
                    /\ d.retry.attempt <= d.retry.maxAttempts
               [] OTHER -> TRUE ]_vars

\* Every transition writes only under the home's Workflow coordinator lease.
WrittenUnderCoordinatorLease ==
  [][ \A w \in Workflow : manifest'[w] # manifest[w] => owner[w] # NoHome ]_vars
=============================================================================
