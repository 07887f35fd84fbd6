------------------------ MODULE TargetDeliveryProofs ------------------------
(***************************************************************************)
(* Theorems about TargetDelivery, for every number of homes and of faults: *)
(* the head a manifest records contains the Target commit it names, what   *)
(* the forge merges is that head, who is recorded as merged is merged, a   *)
(* flow gives the lane back however it ends, and under the lane it merges  *)
(* onto the commit it was refreshed against.                               *)
(* A refresh or a merge spreads what it learnt over many calls, commands   *)
(* of the queue and pauses; the invariant says what each of them still     *)
(* knows when it is used.                                                  *)
(***************************************************************************)
EXTENDS TargetDelivery, TargetBranchQueueLaneProofs, FiniteSetTheorems

Fresh(m) == m.validatedTargetSha <= m.headSha
TellsMerged(m) == m.stage = "merged" \/ m.candidate.state = "merged"
SameRefresh(m, n) == /\ m.headSha = n.headSha
                     /\ m.validatedTargetSha = n.validatedTargetSha

\* A command records a merge that happened, and the outcome of a refresh only
\* while the flow waits for it.
Allowed(c, done, at) ==
  /\ c.kind = "mark-merged" => done
  /\ c.kind = "release-for-pr-checks" /\ c.prFreshness # NoFreshness =>
       /\ at = "released"
       /\ c.prFreshness.validatedTargetSha <= c.prFreshness.headSha

\* What a command has decided still follows from the manifest it will replace.
CommandInv(h) ==
  /\ Allowed(frame[h].command, WorkflowOf[h] \in merged, flow[h].at)
  /\ WillLook(frame[h]) \/ Derived(h, frame[h].draft)

Refreshed == {"finish", "verify", "push", "release"}
Merging == {"merge lane", "observe", "evaluate", "merge", "refused", "mark", "marked"}

\* A flow f, with this pending refresh and this Integration head, of a workflow with
\* manifest m that the forge has merged or not.
Knows(f, refresh, integration, working, m, done) ==
  /\ f.at \in Refreshed => f.target = integration
  /\ f.at = "launch" => refresh.conflict
  /\ f.at \in Merging => /\ f.snapshot \in Manifest
                         /\ SameRefresh(f.snapshot, m)
                         /\ f.snapshot.validatedTargetSha # 0
  /\ f.at = "merge" => f.head = f.snapshot.headSha
  /\ f.at \in {"mark", "marked"} => done
  /\ refresh.conflict => refresh.target \in Sha
  /\ working => refresh.conflict /\ f.at = "none"

FlowInv(h) == Knows(flow[h], pending[h], local[h], h \in worker, Own(h),
                    WorkflowOf[h] \in merged)

TruthInv == \A w \in Workflow : /\ Fresh(manifest[w])
                                /\ TellsMerged(manifest[w]) => w \in merged

\* The Target branch has moved at most as often as it was pushed to or merged into.
ForgeInv == /\ target.sha <= 1 + faults + Cardinality(merged)
            /\ faults <= MaxFaults

DeliveryInv == /\ DeliveryTypeOK /\ QueueInv
               /\ \A h \in Home : CommandInv(h) /\ FlowInv(h)
               /\ TruthInv /\ ForgeInv

USE HomesAssumption, NumbersAssumption, OfferedAssumption, DeliveryAssumption

(***************************************************************************)
(* Types                                                                   *)
(***************************************************************************)

PendingType == [present : BOOLEAN, conflict : BOOLEAN, target : Sha \cup {0}]

\* The types of what is the forge's, and of what is the session's.
ForgeType ==
  /\ target \in [sha : Sha, by : {"somebody", "home", "holder"}]
  /\ head \in [Workflow -> Sha \cup {Foreign}]
  /\ merged \in SUBSET Workflow

SessionType ==
  /\ local \in [Home -> Sha]
  /\ unresolved \in SUBSET Home
  /\ flow \in [Home -> Flow]
  /\ pending \in [Home -> PendingType]
  /\ worker \in SUBSET Home
  /\ queued \in SUBSET Home
  /\ pausing \in SUBSET Home

LEMMA DeliveryParts == DeliveryTypeOK <=> TypeOK /\ ForgeType /\ SessionType
BY DEF DeliveryTypeOK, ForgeType, SessionType, PendingType

LEMMA MergedIsFinite ==
  ASSUME ForgeType
  PROVE  /\ IsFiniteSet(merged) /\ Cardinality(merged) \in Nat
         /\ Cardinality(Workflow) \in Nat
         /\ Cardinality(merged) <= Cardinality(Workflow)
BY FS_Subset, FS_CardinalityType DEF ForgeType

LEMMA NoFlowType == NoFlow \in Flow /\ NoFlow.at = "none"
BY DEF NoFlow, Flow

\* What the parts of the invariant say of one home.
LEMMA HomeFacts ==
  ASSUME DeliveryInv, NEW h \in Home
  PROVE  /\ TypeOK /\ QueueInv /\ ForgeType /\ SessionType
         /\ CommandInv(h) /\ FlowInv(h)
         /\ WorkflowOf[h] \in Workflow
         /\ Own(h) \in Manifest /\ Own(h) = manifest[WorkflowOf[h]]
         /\ flow[h] \in Flow /\ pending[h] \in PendingType /\ local[h] \in Sha
         /\ frame[h] \in Frame
<1>1. TypeOK /\ QueueInv /\ ForgeType /\ SessionType
  BY DeliveryParts DEF DeliveryInv
<1> QED BY <1>1, TypedFrame DEF DeliveryInv, SessionType, Own

LEMMA InitDelivery == DeliveryInit => DeliveryInv
<1> SUFFICES ASSUME DeliveryInit PROVE DeliveryInv
  OBVIOUS
<1>1. Init /\ QueueInv /\ TypeOK
  BY InitQueue DEF DeliveryInit, QueueInv
<1>2. 1 \in Sha /\ Cardinality(Workflow) \in Nat
  BY FS_CardinalityType
<1>3. ForgeType
  BY <1>2 DEF DeliveryInit, ForgeType
<1>4. SessionType
  <2>1. NoPending \in PendingType
    BY DEF NoPending, PendingType
  <2> QED BY <1>2, <2>1, NoFlowType DEF DeliveryInit, SessionType
<1>5. ASSUME NEW h \in Home PROVE CommandInv(h) /\ FlowInv(h)
  <2>1. frame[h] = Idle /\ flow[h] = NoFlow /\ pending[h] = NoPending /\ worker = {}
    BY <1>1, <1>5 DEF Init, DeliveryInit
  <2>2. CommandInv(h)
    BY <2>1, IdleFrame DEF CommandInv, Allowed, NoCommand
  <2>3. FlowInv(h)
    BY <2>1 DEF FlowInv, Knows, NoFlow, NoPending, Refreshed, Merging
  <2> QED BY <2>2, <2>3
<1>6. TruthInv
  <2>1. ASSUME NEW w \in Workflow
        PROVE  /\ manifest[w].headSha = 1 /\ manifest[w].validatedTargetSha = 0
               /\ manifest[w].stage = "pr-opened"
               /\ manifest[w].candidate.state \in {"awaiting-pr-checks", "merge-ready"}
    BY <1>1 DEF Init, DeliveryInit
  <2> QED BY <2>1 DEF TruthInv, Fresh, TellsMerged
<1>7. ForgeInv
  BY <1>1, FS_EmptySet DEF Init, DeliveryInit, ForgeInv
<1> QED BY <1>1, <1>3, <1>4, <1>5, <1>6, <1>7, DeliveryParts DEF DeliveryInv

(***************************************************************************)
(* The calls of a command                                                  *)
(***************************************************************************)

\* A command stays the same until it returns, but for a recovery.
LEMMA ResumeCommand ==
  ASSUME TypeOK, NEW h \in Home, NEW g, Resume(h, g)
  PROVE  frame'[h].command \in {g.command, NoCommand}
BY IdleFrame DEF TypeOK, Resume

LEMMA RunCommand ==
  ASSUME TypeOK, NEW h \in Home, Run(h)
  PROVE  frame'[h].command \in {frame[h].command, NoCommand, RecoverFailure}
<1> DEFINE f == frame[h]
           Same == frame'[h].command \in {f.command, NoCommand}
<1>0. f \in Frame
  BY TypedFrame
<1>1. ASSUME NEW g, Resume(h, g), g.command = f.command PROVE Same
  BY <1>1, ResumeCommand
<1>2. ASSUME NEW t, NEW n
      PROVE  /\ [f EXCEPT !.todo = t].command = f.command
             /\ [f EXCEPT !.todo = t, !.fence = n].command = f.command
             /\ [f EXCEPT !.todo = t, !.draft = n].command = f.command
             /\ [f EXCEPT !.draft = n, !.todo = t].command = f.command
  BY <1>0 DEF Frame
<1>3. ASSUME Proceed(h) PROVE Same
  <2> DEFINE g == [f EXCEPT !.todo = Tail(@)]
  <2>1. Resume(h, g) /\ g.command = f.command
    BY <1>2, <1>3 DEF Proceed
  <2> QED BY <1>1, <2>1
<1>4. ASSUME Abort(h) PROVE Same
  <2> DEFINE g == [f EXCEPT !.todo = Cleanup(h), !.draft = NoDraft]
  <2>1. Resume(h, g) /\ g.command = f.command
    BY <1>2, <1>4 DEF Abort
  <2> QED BY <1>1, <2>1
<1>5. ASSUME NEW c, NEW t, Decide(h, c, t) PROVE Same
  <2> DEFINE g == [f EXCEPT !.draft = [Own(h) EXCEPT !.candidate = c], !.todo = t]
  <2>1. Resume(h, g) /\ g.command = f.command
    BY <1>2, <1>5 DEF Decide
  <2> QED BY <1>1, <2>1
<1>6. CASE VerifyHeldLease(h)
  <2> DEFINE g == [f EXCEPT !.todo = Tail(@), !.fence = held[h]]
  <2>1. g.command = f.command
    BY <1>2
  <2>2. Resume(h, g) \/ Abort(h)
    BY <1>6 DEF VerifyHeldLease
  <2> QED BY <1>1, <1>4, <2>1, <2>2
<1>7. CASE LoadToRelease(h)
  <2>1. Abort(h) \/ \E m : Resume(h, [f EXCEPT !.draft = m, !.todo = Tail(@)])
    BY <1>7 DEF LoadToRelease
  <2>2. ASSUME NEW m, Resume(h, [f EXCEPT !.draft = m, !.todo = Tail(@)]) PROVE Same
    <3> DEFINE g == [f EXCEPT !.draft = m, !.todo = Tail(@)]
    <3>1. Resume(h, g) /\ g.command = f.command
      BY <1>2, <2>2
    <3> QED BY <1>1, <3>1
  <2> QED BY <1>4, <2>1, <2>2
<1>8. CASE InspectLane(h)
  <2>1. ASSUME NEW t PROVE [f EXCEPT !.command = RecoverFailure, !.todo = t].command
                             = RecoverFailure
    BY <1>0 DEF Frame
  <2> QED BY <1>4, <1>8, <2>1, ResumeCommand DEF InspectLane, RecoverFailure
<1>9. CASE Load(h) /\ ~LoadToRelease(h)
  BY <1>3, <1>4, <1>5, <1>9
  DEF Load, LoadToObserve, LoadToAcquire, LoadToRecordFailure, LoadToRequeue,
      LoadToMarkMerged, LoadToRecover
<1>10. CASE AnswerLost(h)
  <2> DEFINE g == [f EXCEPT !.todo = Cleanup(h), !.draft = NoDraft]
  <2>1. g.command = f.command
    BY <1>2
  <2>2. Resume(h, g) \/ Abort(h)
    BY <1>10 DEF AnswerLost
  <2> QED BY <1>1, <1>4, <2>1, <2>2
<1>11. CASE \/ VerifyWorkflowAuthority(h) \/ VerifyFence(h) \/ AcquireLane(h)
            \/ ReleaseLane(h) \/ RenewLane(h) \/ Reload(h) \/ WriteManifest(h)
            \/ CallThrows(h)
  BY <1>3, <1>4, <1>5, <1>11
  DEF VerifyWorkflowAuthority, VerifyFence, AcquireLane, ReleaseLane, RenewLane, Reload,
      WriteManifest, CallThrows
<1> QED BY <1>6, <1>7, <1>8, <1>9, <1>10, <1>11 DEF Run

\* Faults are counted up to their bound.
LEMMA RunFaults ==
  ASSUME TypeOK, faults <= MaxFaults, NEW h \in Home, Run(h)
  PROVE  faults <= faults' /\ faults' <= MaxFaults
<1>1. CASE CallThrows(h) \/ AnswerLost(h)
  BY <1>1 DEF CallThrows, AnswerLost, Fault, TypeOK
<1>2. CASE Load(h)
  BY <1>2 DEF Load, LoadToObserve, LoadToAcquire, LoadToRelease, LoadToRecordFailure,
              LoadToRequeue, LoadToMarkMerged, LoadToRecover, TypeOK
<1>3. CASE ~CallThrows(h) /\ ~AnswerLost(h) /\ ~Load(h)
  BY <1>3 DEF Run, VerifyWorkflowAuthority, VerifyHeldLease, VerifyFence, AcquireLane,
              ReleaseLane, RenewLane, InspectLane, Reload, WriteManifest, TypeOK
<1> QED BY <1>1, <1>2, <1>3

(***************************************************************************)
(* The steps of the queue                                                  *)
(***************************************************************************)

\* What a home that takes no part in a step knows stays true.
LEMMA Bystander ==
  ASSUME DeliveryInv, NEW k \in Home, frame'[k] = frame[k], flow'[k] = flow[k],
         pending'[k] = pending[k], local'[k] = local[k], k \in worker' => k \in worker,
         manifest'[WorkflowOf[k]] = manifest[WorkflowOf[k]], merged \subseteq merged'
  PROVE  CommandInv(k)' /\ FlowInv(k)'
<1>1. CommandInv(k) /\ FlowInv(k) /\ Own(k)' = Own(k)
  BY DEF DeliveryInv, Own
<1>2. CommandInv(k)'
  BY <1>1 DEF CommandInv, Allowed, WillLook, Derived, Own
<1>3. FlowInv(k)'
  BY <1>1 DEF FlowInv, Knows
<1> QED BY <1>2, <1>3

LEMMA OtherWorkflow ==
  ASSUME NEW h \in Home, NEW k \in Home \ {h}
  PROVE  WorkflowOf[k] \in Workflow \ {WorkflowOf[h]}
OBVIOUS

\* What a command writes tells no more than its home knows.
LEMMA WrittenIsTrue ==
  ASSUME DeliveryInv, NEW h \in Home, ~WillLook(frame[h])
  PROVE  LET m == frame[h].draft IN
         /\ m \in Manifest /\ Fresh(m)
         /\ TellsMerged(m) => WorkflowOf[h] \in merged
         /\ SameRefresh(m, Own(h)) \/ In(h, "released")
<1> DEFINE m == frame[h].draft
<1>1. m \in Manifest
  BY DEF DeliveryInv, QueueInv, DraftTyped
<1>2. Derived(h, m) /\ Allowed(frame[h].command, WorkflowOf[h] \in merged, flow[h].at)
  BY DEF DeliveryInv, CommandInv
<1>3. Fresh(Own(h)) /\ (TellsMerged(Own(h)) => WorkflowOf[h] \in merged)
  BY DEF DeliveryInv, TruthInv, Own
<1>4. Fresh(m) /\ (SameRefresh(m, Own(h)) \/ In(h, "released"))
  BY <1>2, <1>3 DEF Derived, Allowed, Fresh, SameRefresh, In
<1>5. TellsMerged(m) => WorkflowOf[h] \in merged
  BY <1>2, <1>3 DEF Derived, Allowed, TellsMerged
<1> QED BY <1>1, <1>4, <1>5

LEMMA RunCommandInv ==
  ASSUME DeliveryInv, NEW h \in Home, Run(h), UNCHANGED <<forge, session>>
  PROVE  CommandInv(h)'
<1>1. TypeOK /\ CommandInv(h) /\ flow'[h] = flow[h] /\ merged' = merged
  BY HomeFacts DEF session, forge
<1>2. frame'[h].command \in {frame[h].command, NoCommand, RecoverFailure}
  BY <1>1, RunCommand
<1>3. Allowed(frame'[h].command, WorkflowOf[h] \in merged', flow'[h].at)
  BY <1>1, <1>2 DEF CommandInv, Allowed, NoCommand, RecoverFailure
<1>4. CASE WillLook(frame'[h])
  BY <1>3, <1>4 DEF CommandInv, WillLook
<1>5. CASE Quiet(h) /\ ~WillLook(frame'[h])
  <2>1. manifest' = manifest /\ frame'[h].command = frame[h].command
    BY <1>5 DEF Quiet, Passes, Decides
  <2>2. Derived(h, frame'[h].draft)
    BY <1>1, <1>5 DEF Quiet, Passes, Decides, CommandInv
  <2>3. Derived(h, frame[h].draft)'
    BY <2>1, <2>2 DEF Derived, Own
  <2> QED BY <1>3, <2>3 DEF CommandInv
<1>6. CASE Writes(h) /\ ~WillLook(frame'[h])
  <2>1. frame'[h].draft = frame[h].draft
    BY <1>6 DEF Writes, Passes
  <2>2. Own(h)' = frame[h].draft
    BY <1>1, <1>6 DEF Writes, Own, TypeOK, Manifests
  <2>3. Derived(h, frame[h].draft)'
    BY <2>1, <2>2 DEF Derived
  <2> QED BY <1>3, <2>3 DEF CommandInv
<1> QED BY <1>1, <1>4, <1>5, <1>6, RunCases

LEMMA RunKeeps ==
  ASSUME DeliveryInv, NEW h \in Home, Run(h), UNCHANGED <<forge, tree, session>>
  PROVE  DeliveryInv'
<1>1. TypeOK /\ QueueInv /\ ForgeType /\ SessionType /\ CommandInv(h) /\ FlowInv(h)
  BY HomeFacts
<1>2. QueueInv' /\ TypeOK'
  BY <1>1, QueueStep DEF Next, QueueInv
<1>3. ForgeType' /\ SessionType'
  BY <1>1 DEF ForgeType, SessionType, forge, tree, session
<1>4. ForgeInv'
  <2>1. faults <= faults' /\ faults' <= MaxFaults /\ faults \in Nat /\ faults' \in Nat
    BY <1>1, <1>2, RunFaults DEF DeliveryInv, ForgeInv, TypeOK
  <2>2. target.sha \in Nat /\ Cardinality(merged) \in Nat
    BY <1>1, MergedIsFinite DEF ForgeType
  <2>3. target' = target /\ merged' = merged
    BY DEF forge
  <2> QED BY <2>1, <2>2, <2>3 DEF DeliveryInv, ForgeInv
<1>5. DeliveryTypeOK'
  BY <1>2, <1>3 DEF DeliveryTypeOK, ForgeType, SessionType, PendingType
<1>6. CASE Quiet(h)
  <2>1. manifest' = manifest
    BY <1>6 DEF Quiet
  <2>2. TruthInv'
    BY <2>1 DEF DeliveryInv, TruthInv, Fresh, TellsMerged, forge
  <2>3. FlowInv(h)'
    BY <1>1, <2>1 DEF FlowInv, Knows, Own, tree, session, forge
  <2>4. ASSUME NEW k \in Home \ {h} PROVE CommandInv(k)' /\ FlowInv(k)'
    <3>1. frame'[k] = frame[k]
      BY <1>6 DEF Quiet, Passes, Decides, OthersKept
    <3> QED BY <2>1, <3>1, Bystander DEF tree, session, forge
  <2>5. CommandInv(h)'
    BY RunCommandInv
  <2> QED BY <1>2, <1>4, <1>5, <2>2, <2>3, <2>4, <2>5 DEF DeliveryInv
<1>7. CASE Writes(h)
  <2> DEFINE m == frame[h].draft
             v == WorkflowOf[h]
  <2>1. /\ m \in Manifest /\ Fresh(m) /\ (TellsMerged(m) => v \in merged)
        /\ SameRefresh(m, Own(h)) \/ In(h, "released")
    BY <1>7, WrittenIsTrue DEF Writes
  <2>2. /\ manifest' \in Manifests /\ manifest'[v] = m
        /\ \A w \in Workflow \ {v} : manifest'[w] = manifest[w]
    BY <1>1, <1>2, <1>7, HomeFacts DEF Writes, TypeOK, Manifests
  <2>3. TruthInv'
    BY <2>1, <2>2 DEF DeliveryInv, TruthInv, Fresh, TellsMerged, forge
  <2>4. FlowInv(h)'
    <3>1. Own(h)' = m
      BY <2>2 DEF Own
    <3> HIDE DEF m
    <3>2. ASSUME flow[h].at \in Merging PROVE SameRefresh(flow[h].snapshot, m)
      <4>1. SameRefresh(m, Own(h))
        BY <2>1, <3>2 DEF In, Merging
      <4>2. SameRefresh(flow[h].snapshot, Own(h))
        BY <1>1, <3>2 DEF FlowInv, Knows
      <4> QED BY <4>1, <4>2 DEF SameRefresh
    <3> QED BY <1>1, <3>1, <3>2 DEF FlowInv, Knows, SameRefresh, tree, session, forge
  <2>5. ASSUME NEW k \in Home \ {h} PROVE CommandInv(k)' /\ FlowInv(k)'
    <3>1. frame'[k] = frame[k]
      BY <1>7 DEF Writes, Passes, OthersKept
    <3>2. manifest'[WorkflowOf[k]] = manifest[WorkflowOf[k]]
      BY <2>2, OtherWorkflow
    <3> QED BY <3>1, <3>2, Bystander DEF tree, session, forge
  <2>6. CommandInv(h)'
    BY RunCommandInv
  <2> QED BY <1>2, <1>4, <1>5, <2>3, <2>4, <2>5, <2>6 DEF DeliveryInv
<1> QED BY <1>1, <1>6, <1>7, RunCases

(***************************************************************************)
(* The steps of a flow                                                     *)
(***************************************************************************)

\* A flow gives the queue a command, or leaves it alone.
FrameSide(h) ==
  \/ UNCHANGED <<frame, reply>> /\ (frame[h] = Idle \/ ~In(h, "released"))
  \/ \E c \in Command : Give(h, c) /\ Allowed(c, WorkflowOf[h] \in merged', flow'[h].at)

QueueSide(h) ==
  /\ UNCHANGED <<manifest, ahead, lane, clock, disturbed>>
  /\ owner' = owner \/ Authority(h)
  /\ held' \in {held, [held EXCEPT ![h] = 0]}
  /\ FrameSide(h)

SessionSide(h) ==
  /\ flow' = [flow EXCEPT ![h] = flow'[h]] /\ flow'[h] \in Flow
  /\ pending' = [pending EXCEPT ![h] = pending'[h]] /\ pending'[h] \in PendingType
  /\ local' = [local EXCEPT ![h] = local'[h]] /\ local'[h] \in Sha
  /\ worker' \subseteq worker \cup {h}
  /\ unresolved' \subseteq Home /\ queued' \subseteq Home /\ pausing' \subseteq Home
  /\ Knows(flow'[h], pending'[h], local'[h], h \in worker', Own(h)', WorkflowOf[h] \in merged')

ForgeSide == /\ ForgeType' /\ ForgeInv'
             /\ faults' \in Nat /\ merged \subseteq merged'

LEMMA FrameTurn ==
  ASSUME DeliveryInv, NEW h \in Home, FrameSide(h), merged \subseteq merged',
         manifest' = manifest
  PROVE  /\ OthersKept(h) /\ reply' \in Replies
         /\ frame'[h] = frame[h] \/ WillLook(frame'[h])
         /\ CommandInv(h)'
<1>1. TypeOK /\ CommandInv(h) /\ frame \in [Home -> Frame] /\ reply \in Replies
  BY HomeFacts DEF TypeOK, Replies
<1>2. CASE UNCHANGED <<frame, reply>> /\ frame[h] = Idle
  BY <1>1, <1>2, IdleFrame DEF OthersKept, CommandInv, Allowed, NoCommand, WillLook
<1>3. CASE UNCHANGED <<frame, reply>> /\ ~In(h, "released")
  <2>1. Allowed(frame'[h].command, WorkflowOf[h] \in merged', flow'[h].at)
    BY <1>1, <1>3 DEF CommandInv, Allowed, In
  <2>2. WillLook(frame[h])' \/ Derived(h, frame[h].draft)'
    BY <1>1, <1>3 DEF CommandInv, WillLook, Derived, Own
  <2> QED BY <1>1, <1>3, <2>1, <2>2 DEF OthersKept, CommandInv
<1>4. ASSUME NEW c \in Command, Give(h, c), Allowed(c, WorkflowOf[h] \in merged', flow'[h].at)
      PROVE  /\ OthersKept(h) /\ reply' \in Replies
             /\ WillLook(frame'[h]) /\ CommandInv(h)'
  <2>1. Passes(h) /\ WillLook(frame'[h]) /\ frame'[h].command = c
    BY <1>1, <1>4, GivenPasses DEF Give
  <2>2. CommandInv(h)'
    BY <1>4, <2>1 DEF CommandInv, WillLook
  <2>3. reply' \in Replies
    BY <1>1, <1>4 DEF Give, Replies
  <2> QED BY <2>1, <2>2, <2>3 DEF Passes
<1> QED BY <1>2, <1>3, <1>4 DEF FrameSide

\* A step of a flow keeps the invariant if it keeps its home's part of it.
LEMMA TurnKeeps ==
  ASSUME DeliveryInv, NEW h \in Home, QueueSide(h), SessionSide(h), ForgeSide
  PROVE  DeliveryInv'
<1>1. TypeOK /\ QueueInv /\ SessionType /\ TruthInv /\ manifest' = manifest
  BY HomeFacts DEF QueueSide, DeliveryInv
<1>2. /\ OthersKept(h) /\ reply' \in Replies
      /\ frame'[h] = frame[h] \/ WillLook(frame'[h])
      /\ CommandInv(h)'
  BY <1>1, FrameTurn DEF QueueSide, ForgeSide
<1>3. RestType'
  <2>1. owner' \in [Workflow -> Home \cup {NoHome}]
    BY <1>1 DEF QueueSide, Authority, TypeOK
  <2>2. held' \in [Home -> Nat]
    BY <1>1 DEF QueueSide, TypeOK
  <2> QED BY <1>1, <1>2, <2>1, <2>2, TypeParts DEF QueueSide, ForgeSide, RestType
<1>4. TypeOK'
  BY <1>1, <1>2, <1>3 DEF TypeOK, RestType, Replies, Aheads, OthersKept
<1>5. QueueInv'
  <2>1. \A k \in Home : DraftTyped(frame[k])
    BY <1>1 DEF QueueInv
  <2>2. \A k \in Home : DraftTyped(frame'[k])
    BY <1>2, <2>1 DEF OthersKept, DraftTyped
  <2> QED BY <1>4, <2>2 DEF QueueInv, DraftTyped, WillLook
<1>6. SessionType'
  BY <1>1 DEF SessionType, SessionSide
<1>7. DeliveryTypeOK'
  BY <1>4, <1>6 DEF DeliveryTypeOK, ForgeSide, ForgeType, SessionType, PendingType
<1>8. TruthInv'
  BY <1>1 DEF TruthInv, Fresh, TellsMerged, ForgeSide
<1>9. ASSUME NEW k \in Home PROVE CommandInv(k)' /\ FlowInv(k)'
  <2>1. CASE k = h
    BY <1>2, <2>1 DEF SessionSide, FlowInv
  <2>2. CASE k # h
    <3>1. /\ frame'[k] = frame[k] /\ flow'[k] = flow[k] /\ pending'[k] = pending[k]
          /\ local'[k] = local[k] /\ (k \in worker' => k \in worker)
      BY <1>1, <1>2, <2>2 DEF OthersKept, SessionSide, SessionType
    <3> QED BY <1>1, <3>1, Bystander DEF ForgeSide
  <2> QED BY <2>1, <2>2
<1> QED BY <1>5, <1>7, <1>8, <1>9 DEF ForgeSide, DeliveryInv

\* The commands a flow gives that claim nothing.
Harmless(c) ==
  \/ c \in {Acquire("refresh"), Acquire("merge"), ReleaseHeld, RenewHeld}
  \/ c = ForPrChecks(NoFreshness, FALSE)
  \/ \E kind \in {"transient", "deterministic"},
        reason \in {"refresh", "merge", "stale-target-sha"} : c = Record(kind, reason)

LEMMA HarmlessAllowed ==
  ASSUME NEW c, Harmless(c)
  PROVE  c \in Command /\ \A done, at : Allowed(c, done, at)
<1>1. CASE c \in {Acquire("refresh"), Acquire("merge"), ReleaseHeld, RenewHeld}
  BY <1>1 DEF Acquire, ReleaseHeld, RenewHeld, Command, Allowed
<1>2. CASE c = ForPrChecks(NoFreshness, FALSE)
  <2>1. NoFreshness \in Freshness \cup {NoFreshness}
    OBVIOUS
  <2>2. c = [kind |-> "release-for-pr-checks", prFreshness |-> NoFreshness,
             admitMergeReady |-> FALSE]
    BY <1>2 DEF ForPrChecks
  <2>3. c \in Command
    BY <2>1, <2>2 DEF Command
  <2> QED BY <2>2, <2>3 DEF Allowed
<1>3. ASSUME NEW kind \in {"transient", "deterministic"},
             NEW reason \in {"refresh", "merge", "stale-target-sha"}, c = Record(kind, reason)
      PROVE  c \in Command /\ c.kind = "record-failure"
  <2>1. (CHOOSE n \in Budget : TRUE) \in Budget
    OBVIOUS
  <2>2. reason \in Reason \cup {LeaseExpired}
    OBVIOUS
  <2> QED BY <1>3, <2>1, <2>2 DEF Record, Command
<1>4. c.kind = "record-failure" => \A done, at : Allowed(c, done, at)
  BY DEF Allowed
<1> QED BY <1>1, <1>2, <1>3, <1>4 DEF Harmless

\* The places of a flow where it knows nothing but what is pending.
Calm == {"none", "lane", "workspace", "git", "released", "fail", "recorded", "clear"}

CalmFlow(h) == \/ \E at \in Calm : Go(h, at)
               \/ Return(h)
               \/ \E kind \in {"transient", "deterministic"} : Fail(h, kind)

CalmPending(h) ==
  pending' \in {pending, [pending EXCEPT ![h] = NoPending],
                [pending EXCEPT ![h] = [NoPending EXCEPT !.present = TRUE]]}

Members(h) ==
  /\ queued' \in {queued, queued \cup {h}, queued \ {h}}
  /\ pausing' \in {pausing, pausing \cup {h}, pausing \ {h}}

LEMMA CalmSession ==
  ASSUME DeliveryInv, NEW h \in Home, CalmFlow(h), CalmPending(h), Members(h),
         UNCHANGED tree, worker' \subseteq worker, h \notin worker'
  PROVE  SessionSide(h)
<1>1. SessionType /\ flow[h] \in Flow /\ pending[h] \in PendingType /\ local[h] \in Sha
      /\ (pending[h].conflict => pending[h].target \in Sha)
  BY HomeFacts DEF FlowInv, Knows
<1>2. /\ flow' = [flow EXCEPT ![h] = flow'[h]] /\ flow'[h] \in Flow
      /\ flow'[h].at \in Calm
  <2>1. ASSUME NEW at \in Calm
        PROVE  [flow[h] EXCEPT !.at = at] \in Flow /\ [flow[h] EXCEPT !.at = at].at = at
    BY <1>1 DEF Calm, Flow
  <2>2. ASSUME NEW at \in Calm, Go(h, at)
        PROVE  /\ flow' = [flow EXCEPT ![h] = flow'[h]] /\ flow'[h] \in Flow
               /\ flow'[h].at \in Calm
    <3>1. flow'[h] = [flow[h] EXCEPT !.at = at] /\ flow' = [flow EXCEPT ![h] = flow'[h]]
      BY <1>1, <2>2 DEF Go, SessionType
    <3> QED BY <2>1, <3>1
  <2>3. CASE Return(h)
    BY <1>1, <2>3, NoFlowType DEF Return, SessionType, Calm
  <2>4. ASSUME NEW kind \in {"transient", "deterministic"}, Fail(h, kind)
        PROVE  /\ flow' = [flow EXCEPT ![h] = flow'[h]] /\ flow'[h] \in Flow
               /\ flow'[h].at \in Calm
    BY <1>1, <2>4, ZenonT(60) DEF Fail, SessionType, NoFlow, Flow, Calm
  <2> QED BY <2>2, <2>3, <2>4 DEF CalmFlow
<1>3. /\ pending' = [pending EXCEPT ![h] = pending'[h]] /\ pending'[h] \in PendingType
      /\ pending'[h].conflict => pending'[h].target \in Sha
  <2>1. CASE pending' = pending
    BY <1>1, <2>1 DEF SessionType
  <2>2. ASSUME NEW p \in PendingType, ~p.conflict, pending' = [pending EXCEPT ![h] = p]
        PROVE  /\ pending' = [pending EXCEPT ![h] = pending'[h]]
               /\ pending'[h] \in PendingType /\ ~pending'[h].conflict
    BY <1>1, <2>2 DEF SessionType
  <2>3. /\ NoPending \in PendingType /\ ~NoPending.conflict
        /\ [NoPending EXCEPT !.present = TRUE] \in PendingType
        /\ ~[NoPending EXCEPT !.present = TRUE].conflict
    BY DEF NoPending, PendingType
  <2> QED BY <2>1, <2>2, <2>3 DEF CalmPending
<1>4. Knows(flow'[h], pending'[h], local'[h], h \in worker', Own(h)', WorkflowOf[h] \in merged')
  BY <1>2, <1>3 DEF Knows, Calm, Refreshed, Merging
<1>5. local' = [local EXCEPT ![h] = local'[h]] /\ local'[h] \in Sha
  BY <1>1 DEF SessionType, tree
<1> QED BY <1>1, <1>2, <1>3, <1>4, <1>5 DEF SessionSide, Members, SessionType, tree

LEMMA ForgeSame ==
  ASSUME DeliveryInv, UNCHANGED <<forge, faults>>
  PROVE  ForgeSide
<1>1. ForgeType /\ ForgeInv /\ TypeOK
  BY DeliveryParts DEF DeliveryInv
<1> QED BY <1>1 DEF ForgeSide, ForgeType, ForgeInv, forge, TypeOK

\* Only between actions there is a Conflict resolution worker.
LEMMA BusyWithoutWorker ==
  ASSUME DeliveryInv, NEW h \in Home, flow[h].at # "none"
  PROVE  h \notin worker
BY HomeFacts DEF FlowInv, Knows

\* A step that only moves the flow to where it knows nothing.
LEMMA CalmKeeps ==
  ASSUME DeliveryInv, NEW h \in Home, CalmFlow(h), CalmPending(h), Members(h),
         UNCHANGED <<tree, worker, forge, faults>>, h \notin worker, QueueSide(h)
  PROVE  DeliveryInv'
BY CalmSession, ForgeSame, TurnKeeps

Still == UNCHANGED <<lane, clock, disturbed>>

LEMMA QuietQueue ==
  ASSUME NEW h \in Home, NoQueueStep, Still, frame[h] = Idle \/ ~In(h, "released")
  PROVE  QueueSide(h)
BY DEF NoQueueStep, Still, QueueSide, FrameSide

\* A flow takes the coordinator lease or not, makes its queue anew or not, and
\* gives it a command or not.
LEMMA GivingQueue ==
  ASSUME NEW h \in Home, Still, UNCHANGED <<manifest, ahead>>,
         owner' = owner \/ Authority(h), held' = held \/ EnsureQueue(h),
         \/ UNCHANGED <<frame, reply>> /\ frame[h] = Idle
         \/ \E c : Give(h, c) /\ Harmless(c)
  PROVE  QueueSide(h)
<1>1. FrameSide(h)
  BY HarmlessAllowed DEF FrameSide
<1>2. held' \in {held, [held EXCEPT ![h] = 0]}
  BY DEF EnsureQueue
<1> QED BY <1>1, <1>2 DEF Still, QueueSide

(***************************************************************************)
(* The refresh                                                             *)
(***************************************************************************)

LEMMA StartRefreshKeeps ==
  ASSUME DeliveryInv, NEW h \in Home, StartRefresh(h)
  PROVE  DeliveryInv'
<1>1. QueueSide(h)
  BY GivingQueue DEF StartRefresh, Still, Free, Harmless
<1> QED BY <1>1, CalmKeeps
        DEF StartRefresh, CalmFlow, CalmPending, Members, Calm, EnsureQueue, tree, forge

LEMMA AfterLaneKeeps ==
  ASSUME DeliveryInv, NEW h \in Home, AfterLane(h), Still, faults' = faults
  PROVE  DeliveryInv'
<1>1. QueueSide(h)
  BY QuietQueue DEF AfterLane, Free
<1>2. h \notin worker
  BY BusyWithoutWorker DEF AfterLane, In
<1> QED BY <1>1, <1>2, CalmKeeps DEF AfterLane, CalmFlow, CalmPending, Members, Calm, Clear

LEMMA EnsureWorkspaceKeeps ==
  ASSUME DeliveryInv, NEW h \in Home, EnsureWorkspace(h), Still, faults' = faults
  PROVE  DeliveryInv'
<1>1. QueueSide(h)
  BY GivingQueue DEF EnsureWorkspace, Free, Harmless
<1>2. h \notin worker
  BY BusyWithoutWorker DEF EnsureWorkspace, In
<1> QED BY <1>1, <1>2, CalmKeeps DEF EnsureWorkspace, CalmFlow, CalmPending, Members, Calm

LEMMA WorkerFailsKeeps ==
  ASSUME DeliveryInv, NEW h \in Home, WorkerFails(h), Still, faults' = faults
  PROVE  DeliveryInv'
<1>1. QueueSide(h)
  BY QuietQueue DEF WorkerFails, In
<1>2. SessionSide(h)
  BY CalmSession DEF WorkerFails, CalmFlow, CalmPending, Members
<1> QED BY <1>1, <1>2, ForgeSame, TurnKeeps DEF WorkerFails

LEMMA AfterReleaseKeeps ==
  ASSUME DeliveryInv, NEW h \in Home, AfterRelease(h), Still, faults' = faults
  PROVE  DeliveryInv'
<1>1. QueueSide(h)
  BY GivingQueue DEF AfterRelease, Free, Harmless
<1>2. h \notin worker
  BY BusyWithoutWorker DEF AfterRelease, In
<1> QED BY <1>1, <1>2, CalmKeeps DEF AfterRelease, CalmFlow, CalmPending, Members, Calm, Clear

LEMMA FailTargetRefreshKeeps ==
  ASSUME DeliveryInv, NEW h \in Home, FailTargetRefresh(h), Still, faults' = faults
  PROVE  DeliveryInv'
<1>1. Harmless(Record(flow[h].failure, "refresh")) /\ Harmless(ReleaseHeld)
  BY HomeFacts DEF Harmless, Flow
<1>2. QueueSide(h)
  BY <1>1, GivingQueue DEF FailTargetRefresh, Free
<1>3. h \notin worker
  BY BusyWithoutWorker DEF FailTargetRefresh, In
<1> QED BY <1>2, <1>3, CalmKeeps
        DEF FailTargetRefresh, CalmFlow, CalmPending, Members, Calm, Clear, EnsureQueue

LEMMA AfterRecordKeeps ==
  ASSUME DeliveryInv, NEW h \in Home, AfterRecord(h), Still, faults' = faults
  PROVE  DeliveryInv'
<1>1. QueueSide(h)
  BY GivingQueue DEF AfterRecord, Free, Harmless
<1>2. h \notin worker
  BY BusyWithoutWorker DEF AfterRecord, In
<1> QED BY <1>1, <1>2, CalmKeeps DEF AfterRecord, CalmFlow, CalmPending, Members, Calm, Clear

LEMMA AfterReleaseHeldKeeps ==
  ASSUME DeliveryInv, NEW h \in Home, AfterReleaseHeld(h), Still, faults' = faults
  PROVE  DeliveryInv'
<1>1. QueueSide(h)
  BY QuietQueue DEF AfterReleaseHeld, Free
<1>2. h \notin worker
  BY BusyWithoutWorker DEF AfterReleaseHeld, In
<1> QED BY <1>1, <1>2, CalmKeeps
        DEF AfterReleaseHeld, CalmFlow, CalmPending, Members, Calm, Clear

\* A flow goes on and everything else of its session stays.
LEMMA MovedSession ==
  ASSUME DeliveryInv, NEW h \in Home, NEW f \in Flow, flow' = [flow EXCEPT ![h] = f],
         Members(h), UNCHANGED <<tree, pending, worker, manifest>>,
         Knows(f, pending[h], local[h], h \in worker, Own(h), WorkflowOf[h] \in merged')
  PROVE  SessionSide(h)
<1>1. SessionType /\ flow'[h] = f /\ Own(h)' = Own(h)
  BY HomeFacts DEF SessionType, Own
<1>2. Knows(flow'[h], pending'[h], local'[h], h \in worker', Own(h)', WorkflowOf[h] \in merged')
  BY <1>1 DEF tree
<1>3. /\ pending' = [pending EXCEPT ![h] = pending'[h]] /\ pending'[h] \in PendingType
      /\ local' = [local EXCEPT ![h] = local'[h]] /\ local'[h] \in Sha
  BY <1>1 DEF SessionType, tree
<1> QED BY <1>1, <1>2, <1>3 DEF SessionSide, Members, SessionType, tree

LEMMA RetryConflictKeeps ==
  ASSUME DeliveryInv, NEW h \in Home, RetryConflict(h)
  PROVE  DeliveryInv'
<1> DEFINE f == [flow[h] EXCEPT !.at = "launch", !.target = pending[h].target]
<1>1. QueueSide(h)
  BY QuietQueue DEF RetryConflict, Free, Still
<1>2. f \in Flow /\ flow' = [flow EXCEPT ![h] = f] /\ f.at = "launch"
  <2>1. flow \in [Home -> Flow] /\ flow[h] \in Flow /\ pending[h] \in PendingType
    BY HomeFacts DEF SessionType
  <2>2. f \in Flow /\ f.at = "launch"
    BY <2>1 DEF Flow, PendingType
  <2>3. flow' = [flow EXCEPT ![h] = f]
    BY <2>1 DEF RetryConflict
  <2> QED BY <2>2, <2>3
<1>3. Knows(f, pending[h], local[h], h \in worker, Own(h), WorkflowOf[h] \in merged')
  BY <1>2, HomeFacts DEF RetryConflict, FlowInv, Knows, Refreshed, Merging
<1> HIDE DEF f
<1> QED BY <1>1, <1>2, <1>3, MovedSession, ForgeSame, TurnKeeps
        DEF RetryConflict, Members, NoQueueStep

LEMMA MergeTargetKeeps ==
  ASSUME DeliveryInv, NEW h \in Home, MergeTarget(h), Still, faults' = faults
  PROVE  DeliveryInv'
<1> DEFINE tip == target.sha
<1>1. QueueSide(h) /\ h \notin worker
  BY QuietQueue, BusyWithoutWorker DEF MergeTarget, In
<1>2. SessionType /\ flow[h] \in Flow /\ tip \in Sha
  BY HomeFacts DEF ForgeType
<1>3. ASSUME NEW conflict \in BOOLEAN
      PROVE  Pending(conflict, tip) \in PendingType /\ Pending(conflict, tip).conflict = conflict
             /\ Pending(conflict, tip).target = tip
  BY <1>2 DEF Pending, PendingType
<1>4. CASE /\ local' = [local EXCEPT ![h] = tip]
           /\ pending' = [pending EXCEPT ![h] = Pending(FALSE, tip)]
           /\ flow' = [flow EXCEPT ![h].at = "finish", ![h].target = tip]
           /\ UNCHANGED unresolved
  <2>1. /\ flow'[h] = [flow[h] EXCEPT !.at = "finish", !.target = tip]
        /\ pending'[h] = Pending(FALSE, tip) /\ local'[h] = tip
        /\ flow' = [flow EXCEPT ![h] = flow'[h]]
        /\ pending' = [pending EXCEPT ![h] = pending'[h]]
        /\ local' = [local EXCEPT ![h] = local'[h]]
    BY <1>2, <1>4 DEF SessionType
  <2>2. flow'[h] \in Flow /\ flow'[h].at = "finish" /\ flow'[h].target = tip
    BY <1>2, <2>1 DEF Flow
  <2>3. h \notin worker'
    BY <1>1 DEF MergeTarget
  <2>4. Knows(flow'[h], pending'[h], local'[h], h \in worker', Own(h)',
              WorkflowOf[h] \in merged')
    BY <1>3, <2>1, <2>2, <2>3 DEF Knows, Merging
  <2>5. SessionSide(h)
    BY <1>2, <1>3, <1>4, <2>1, <2>2, <2>4 DEF MergeTarget, SessionSide, SessionType
  <2> QED BY <1>1, <2>5, ForgeSame, TurnKeeps DEF MergeTarget
<1>5. CASE /\ unresolved' = unresolved \cup {h}
           /\ pending' = [pending EXCEPT ![h] = Pending(TRUE, tip)]
           /\ flow' = [flow EXCEPT ![h].at = "launch", ![h].target = tip]
           /\ UNCHANGED local
  <2>1. /\ flow'[h] = [flow[h] EXCEPT !.at = "launch", !.target = tip]
        /\ pending'[h] = Pending(TRUE, tip) /\ local'[h] = local[h]
        /\ flow' = [flow EXCEPT ![h] = flow'[h]]
        /\ pending' = [pending EXCEPT ![h] = pending'[h]]
        /\ local' = [local EXCEPT ![h] = local'[h]]
    BY <1>2, <1>5 DEF SessionType
  <2>2. flow'[h] \in Flow /\ flow'[h].at = "launch" /\ local'[h] \in Sha
    BY <1>2, <2>1, ZenonT(60) DEF Flow, SessionType
  <2>3. h \notin worker'
    BY <1>1 DEF MergeTarget
  <2>4. Knows(flow'[h], pending'[h], local'[h], h \in worker', Own(h)',
              WorkflowOf[h] \in merged')
    BY <1>2, <1>3, <2>1, <2>2, <2>3 DEF Knows, Merging, Refreshed
  <2>5. SessionSide(h)
    BY <1>2, <1>3, <1>5, <2>1, <2>2, <2>4 DEF MergeTarget, SessionSide, SessionType
  <2> QED BY <1>1, <2>5, ForgeSame, TurnKeeps DEF MergeTarget
<1>6. CASE Fail(h, "transient") /\ UNCHANGED <<tree, pending>>
  BY <1>1, <1>6, CalmKeeps DEF MergeTarget, CalmFlow, CalmPending, Members
<1> QED BY <1>4, <1>5, <1>6 DEF MergeTarget

LEMMA LaunchWorkerKeeps ==
  ASSUME DeliveryInv, NEW h \in Home, LaunchWorker(h), Still, faults' = faults
  PROVE  DeliveryInv'
<1>1. QueueSide(h) /\ h \notin worker
  BY BusyWithoutWorker DEF LaunchWorker, In, QueueSide, FrameSide, Still
<1>2. CASE UNCHANGED worker /\ \E kind \in {"transient", "deterministic"} : Fail(h, kind)
  BY <1>1, <1>2, CalmKeeps DEF LaunchWorker, CalmFlow, CalmPending, Members
<1>3. CASE Return(h) /\ worker' = worker \cup {h}
  <2>1. /\ flow'[h] = NoFlow /\ flow' = [flow EXCEPT ![h] = flow'[h]]
        /\ pending'[h] = pending[h] /\ pending' = [pending EXCEPT ![h] = pending'[h]]
        /\ local'[h] = local[h] /\ local' = [local EXCEPT ![h] = local'[h]]
        /\ pending'[h] \in PendingType /\ local'[h] \in Sha
    BY <1>3, HomeFacts DEF LaunchWorker, Return, SessionType, tree
  <2>2. pending[h].conflict /\ pending[h].target \in Sha
    BY HomeFacts DEF LaunchWorker, In, FlowInv, Knows
  <2>3. Knows(flow'[h], pending'[h], local'[h], h \in worker', Own(h)',
              WorkflowOf[h] \in merged')
    BY <2>1, <2>2, NoFlowType DEF Knows, Refreshed, Merging
  <2>4. SessionSide(h)
    BY <1>3, <2>1, <2>3, NoFlowType, HomeFacts DEF LaunchWorker, SessionSide, SessionType, tree
  <2> QED BY <1>1, <2>4, ForgeSame, TurnKeeps DEF LaunchWorker
<1> QED BY <1>2, <1>3 DEF LaunchWorker

LEMMA WorkerCompletesKeeps ==
  ASSUME DeliveryInv, NEW h \in Home, WorkerCompletes(h), Still, faults' = faults
  PROVE  DeliveryInv'
<1>1. QueueSide(h)
  BY QuietQueue DEF WorkerCompletes, In
<1>2. /\ SessionType /\ flow[h] \in Flow /\ pending[h] \in PendingType
      /\ pending[h].target \in Sha
  BY HomeFacts DEF WorkerCompletes, FlowInv, Knows
<1>3. /\ flow'[h] = [flow[h] EXCEPT !.at = "finish", !.target = pending[h].target]
      /\ pending'[h] = [pending[h] EXCEPT !.conflict = FALSE]
      /\ local'[h] = pending[h].target
      /\ flow' = [flow EXCEPT ![h] = flow'[h]]
      /\ pending' = [pending EXCEPT ![h] = pending'[h]]
      /\ local' = [local EXCEPT ![h] = local'[h]]
  BY <1>2 DEF WorkerCompletes, SessionType
<1>4. /\ flow'[h] \in Flow /\ flow'[h].at = "finish" /\ flow'[h].target = pending[h].target
      /\ pending'[h] \in PendingType /\ ~pending'[h].conflict
  BY <1>2, <1>3 DEF Flow, PendingType
<1>5. h \notin worker'
  BY DEF WorkerCompletes
<1>6. Knows(flow'[h], pending'[h], local'[h], h \in worker', Own(h)', WorkflowOf[h] \in merged')
  BY <1>3, <1>4, <1>5 DEF Knows, Merging
<1>7. SessionSide(h)
  BY <1>2, <1>3, <1>4, <1>6 DEF WorkerCompletes, SessionSide, SessionType
<1> QED BY <1>1, <1>7, ForgeSame, TurnKeeps DEF WorkerCompletes

\* The flow goes to another of the places where it holds the merged Target commit.
LEMMA RefreshedSession ==
  ASSUME DeliveryInv, NEW h \in Home, flow[h].at \in Refreshed,
         NEW at \in {"finish", "verify", "push", "release"}, Go(h, at),
         Members(h), UNCHANGED <<tree, pending, worker, manifest>>
  PROVE  SessionSide(h)
<1> DEFINE f == [flow[h] EXCEPT !.at = at]
<1>1. f \in Flow /\ flow' = [flow EXCEPT ![h] = f] /\ f.at = at /\ f.target = flow[h].target
  <2>1. flow \in [Home -> Flow] /\ flow[h] \in Flow
    BY HomeFacts DEF SessionType
  <2>2. f \in Flow /\ f.at = at /\ f.target = flow[h].target
    BY <2>1 DEF Flow
  <2>3. flow' = [flow EXCEPT ![h] = f]
    BY <2>1 DEF Go
  <2> QED BY <2>2, <2>3
<1>2. Knows(f, pending[h], local[h], h \in worker, Own(h), WorkflowOf[h] \in merged')
  BY <1>1, HomeFacts DEF FlowInv, Knows, Refreshed, Merging
<1> HIDE DEF f
<1> QED BY <1>1, <1>2, MovedSession

LEMMA FinishKeeps ==
  ASSUME DeliveryInv, NEW h \in Home, Finish(h), Still, faults' = faults
  PROVE  DeliveryInv'
<1>1. QueueSide(h)
  BY GivingQueue DEF Finish, Free, Harmless
<1>2. h \notin worker
  BY BusyWithoutWorker DEF Finish, In
<1>3. CASE Fail(h, "transient") /\ UNCHANGED queued
  BY <1>1, <1>2, <1>3, CalmKeeps DEF Finish, CalmFlow, CalmPending, Members
<1>4. CASE Go(h, "verify") /\ EnsureQueue(h)
  <2>1. SessionSide(h)
    BY <1>4, RefreshedSession DEF Finish, In, Refreshed, Members, EnsureQueue
  <2> QED BY <1>1, <2>1, ForgeSame, TurnKeeps DEF Finish
<1> QED BY <1>3, <1>4 DEF Finish

LEMMA VerifyLocallyKeeps ==
  ASSUME DeliveryInv, NEW h \in Home, VerifyLocally(h), Still, faults' = faults
  PROVE  DeliveryInv'
<1>1. QueueSide(h)
  BY QuietQueue DEF VerifyLocally
<1>2. h \notin worker
  BY BusyWithoutWorker DEF VerifyLocally, In
<1>3. CASE Fail(h, "deterministic")
  BY <1>1, <1>2, <1>3, CalmKeeps DEF VerifyLocally, CalmFlow, CalmPending, Members
<1>4. CASE Go(h, "push")
  <2>1. SessionSide(h)
    BY <1>4, RefreshedSession DEF VerifyLocally, In, Refreshed, Members, NoQueueStep
  <2> QED BY <1>1, <2>1, ForgeSame, TurnKeeps DEF VerifyLocally
<1> QED BY <1>3, <1>4 DEF VerifyLocally

LEMMA PushKeeps ==
  ASSUME DeliveryInv, NEW h \in Home, PushIntegration(h), Still, faults' = faults
  PROVE  DeliveryInv'
<1>1. QueueSide(h)
  BY DEF PushIntegration, In, QueueSide, FrameSide, Still
<1>2. h \notin worker
  BY BusyWithoutWorker DEF PushIntegration, In
<1>3. ForgeSide
  <2>1. ForgeType /\ ForgeInv /\ local[h] \in Sha /\ TypeOK
    BY HomeFacts DEF DeliveryInv
  <2>2. head' \in [Workflow -> Sha \cup {Foreign}]
    BY <2>1 DEF PushIntegration, ForgeType
  <2> QED BY <2>1, <2>2 DEF PushIntegration, ForgeSide, ForgeType, ForgeInv, TypeOK
<1>4. CASE Fail(h, "transient")
  <2>1. SessionSide(h)
    BY <1>2, <1>4, CalmSession DEF PushIntegration, CalmFlow, CalmPending, Members
  <2> QED BY <1>1, <1>3, <2>1, TurnKeeps
<1>5. CASE Go(h, "release")
  <2>1. SessionSide(h)
    BY <1>5, RefreshedSession DEF PushIntegration, In, Refreshed, Members
  <2> QED BY <1>1, <1>3, <2>1, TurnKeeps
<1> QED BY <1>4, <1>5 DEF PushIntegration

\* The freshness it records is that of the head it pushed.
LEMMA ReleaseForPrChecksKeeps ==
  ASSUME DeliveryInv, NEW h \in Home, ReleaseForPrChecks(h), Still, faults' = faults
  PROVE  DeliveryInv'
<1> DEFINE freshness == [headSha |-> local[h], validatedTargetSha |-> flow[h].target]
<1>1. h \notin worker /\ local[h] \in Sha /\ flow[h].target = local[h]
  BY BusyWithoutWorker, HomeFacts DEF ReleaseForPrChecks, In, FlowInv, Knows, Refreshed
<1>2. CASE Fail(h, "transient") /\ UNCHANGED <<owner, frame, reply>>
  <2>1. QueueSide(h)
    BY <1>2, GivingQueue DEF ReleaseForPrChecks, Free
  <2> QED BY <1>1, <1>2, <2>1, CalmKeeps DEF ReleaseForPrChecks, CalmFlow, CalmPending, Members
<1>3. ASSUME NEW admit \in BOOLEAN, Authority(h), Give(h, ForPrChecks(freshness, admit)),
             Go(h, "released")
      PROVE  DeliveryInv'
  <2> DEFINE c == ForPrChecks(freshness, admit)
  <2>1. freshness \in Freshness /\ freshness.validatedTargetSha <= freshness.headSha
    BY <1>1 DEF Freshness
  <2>2. flow'[h].at = "released"
    <3>1. flow \in [Home -> Flow] /\ flow[h] \in Flow
      BY HomeFacts DEF SessionType
    <3>2. flow'[h] = [flow[h] EXCEPT !.at = "released"]
      BY <1>3, <3>1 DEF Go
    <3> QED BY <3>1, <3>2 DEF Flow
  <2> HIDE DEF freshness
  <2>3. c \in Command /\ Allowed(c, WorkflowOf[h] \in merged', flow'[h].at)
    BY <2>1, <2>2 DEF ForPrChecks, Command, Allowed
  <2> HIDE DEF c
  <2>4. QueueSide(h)
    BY <1>3, <2>3 DEF ReleaseForPrChecks, QueueSide, FrameSide, Still, c
  <2> QED BY <1>1, <1>3, <2>4, CalmKeeps
          DEF ReleaseForPrChecks, CalmFlow, CalmPending, Members, Calm
<1> QED BY <1>2, <1>3 DEF ReleaseForPrChecks

(***************************************************************************)
(* The merge                                                               *)
(***************************************************************************)

\* The flow goes on with what it read of its manifest.
LEMMA MergingSession ==
  ASSUME DeliveryInv, NEW h \in Home, flow[h].at \in Merging,
         NEW f \in Flow, flow' = [flow EXCEPT ![h] = f],
         f.at \in Merging, f.snapshot = flow[h].snapshot,
         f.at = "merge" => f.head = f.snapshot.headSha,
         f.at \in {"mark", "marked"} => WorkflowOf[h] \in merged',
         Members(h), UNCHANGED <<tree, pending, worker, manifest>>
  PROVE  SessionSide(h)
<1>1. Knows(f, pending[h], local[h], h \in worker, Own(h), WorkflowOf[h] \in merged')
  BY HomeFacts DEF FlowInv, Knows, Refreshed, Merging
<1> QED BY <1>1, MovedSession

LEMMA MergingGo ==
  ASSUME DeliveryInv, NEW h \in Home, flow[h].at \in Merging, NEW at \in Merging \ {"merge"},
         Go(h, at), at \in {"mark", "marked"} => WorkflowOf[h] \in merged',
         Members(h), UNCHANGED <<tree, pending, worker, manifest>>
  PROVE  SessionSide(h)
<1> DEFINE f == [flow[h] EXCEPT !.at = at]
<1>1. flow \in [Home -> Flow] /\ flow[h] \in Flow
  BY HomeFacts DEF SessionType
<1>2. f \in Flow /\ f.at = at /\ f.snapshot = flow[h].snapshot
  BY <1>1 DEF Flow, Merging
<1>3. flow' = [flow EXCEPT ![h] = f]
  BY <1>1 DEF Go
<1> HIDE DEF f
<1> QED BY <1>2, <1>3, MergingSession

LEMMA StartMergeKeeps ==
  ASSUME DeliveryInv, NEW h \in Home, StartMerge(h)
  PROVE  DeliveryInv'
<1>1. QueueSide(h)
  BY GivingQueue DEF StartMerge, Still, Free, Harmless
<1>2. PICK at \in {"merge lane", "observe"} :
        flow' = [flow EXCEPT ![h].at = at, ![h].snapshot = Own(h)]
  BY DEF StartMerge
<1> DEFINE f == [flow[h] EXCEPT !.at = at, !.snapshot = Own(h)]
<1>3. flow \in [Home -> Flow] /\ flow[h] \in Flow /\ Own(h) \in Manifest
  BY HomeFacts DEF SessionType
<1>4. f \in Flow /\ f.at = at /\ f.snapshot = Own(h)
  BY <1>3 DEF Flow
<1>5. flow' = [flow EXCEPT ![h] = f]
  BY <1>2, <1>3
<1> HIDE DEF f
<1>6. Knows(f, pending[h], local[h], h \in worker, Own(h), WorkflowOf[h] \in merged')
  BY <1>3, <1>4, HomeFacts DEF StartMerge, FlowInv, Knows, SameRefresh, Refreshed
<1>7. Members(h) /\ UNCHANGED <<tree, pending, worker, manifest, forge, faults>>
  BY DEF StartMerge, Members, EnsureQueue
<1> QED BY <1>1, <1>4, <1>5, <1>6, <1>7, MovedSession, ForgeSame, TurnKeeps

LEMMA AfterMergeLaneKeeps ==
  ASSUME DeliveryInv, NEW h \in Home, AfterMergeLane(h), Still, faults' = faults
  PROVE  DeliveryInv'
<1>1. QueueSide(h) /\ h \notin worker
  BY QuietQueue, BusyWithoutWorker DEF AfterMergeLane, Free, In
<1>2. CASE Return(h)
  BY <1>1, <1>2, CalmKeeps DEF AfterMergeLane, CalmFlow, CalmPending, Members
<1>3. CASE Go(h, "observe")
  <2>1. SessionSide(h)
    BY <1>3, MergingGo DEF AfterMergeLane, In, Merging, Members, NoQueueStep
  <2> QED BY <1>1, <2>1, ForgeSame, TurnKeeps DEF AfterMergeLane
<1> QED BY <1>2, <1>3 DEF AfterMergeLane

LEMMA ObserveKeeps ==
  ASSUME DeliveryInv, NEW h \in Home, Observe(h), Still, faults' = faults
  PROVE  DeliveryInv'
<1>1. QueueSide(h) /\ h \notin worker
  BY GivingQueue, BusyWithoutWorker DEF Observe, Free, In, Harmless
<1>2. CASE Return(h)
  BY <1>1, <1>2, CalmKeeps DEF Observe, CalmFlow, CalmPending, Members
<1>3. CASE flow' = [flow EXCEPT ![h].at = "evaluate", ![h].base = target.sha,
                                ![h].head = head[WorkflowOf[h]]]
  <2> DEFINE f == [flow[h] EXCEPT !.at = "evaluate", !.base = target.sha,
                                  !.head = head[WorkflowOf[h]]]
  <2>1. /\ flow \in [Home -> Flow] /\ flow[h] \in Flow
        /\ target.sha \in Sha /\ head[WorkflowOf[h]] \in Sha \cup {0}
    BY HomeFacts DEF SessionType, ForgeType, Foreign
  <2>2. f \in Flow /\ f.at = "evaluate" /\ f.snapshot = flow[h].snapshot
    BY <2>1 DEF Flow
  <2>3. flow' = [flow EXCEPT ![h] = f]
    BY <1>3, <2>1
  <2> HIDE DEF f
  <2>4. Members(h) /\ UNCHANGED <<tree, pending, worker, manifest, forge, faults>>
    BY DEF Observe, Members
  <2>5. SessionSide(h)
    BY <2>2, <2>3, <2>4, MergingSession DEF Observe, In, Merging
  <2> QED BY <1>1, <2>4, <2>5, ForgeSame, TurnKeeps
<1> QED BY <1>2, <1>3 DEF Observe

LEMMA EvaluateKeeps ==
  ASSUME DeliveryInv, NEW h \in Home, Evaluate(h), Still, faults' = faults
  PROVE  DeliveryInv'
<1>1. h \notin worker /\ frame[h] = Idle
  BY BusyWithoutWorker DEF Evaluate, In, Free
<1>2. CASE \E c : Return(h) /\ Give(h, c) /\ Harmless(c)
  <2>1. QueueSide(h)
    BY <1>2, GivingQueue DEF Evaluate
  <2> QED BY <1>1, <1>2, <2>1, CalmKeeps DEF Evaluate, CalmFlow, CalmPending, Members
<1>3. ASSUME NEW status, MergeFreshness(flow[h], status) = "ok", Go(h, "merge"),
             UNCHANGED <<frame, reply>>
      PROVE  DeliveryInv'
  <2> DEFINE f == [flow[h] EXCEPT !.at = "merge"]
  <2>1. QueueSide(h)
    BY <1>1, <1>3, GivingQueue DEF Evaluate
  <2>2. flow \in [Home -> Flow] /\ flow[h] \in Flow
    BY HomeFacts DEF SessionType
  <2>3. /\ f \in Flow /\ f.at = "merge"
        /\ f.snapshot = flow[h].snapshot /\ f.head = flow[h].head
    BY <2>2 DEF Flow
  <2>4. flow[h].head = flow[h].snapshot.headSha
    BY <1>3 DEF MergeFreshness
  <2>5. flow' = [flow EXCEPT ![h] = f]
    BY <1>3, <2>2 DEF Go
  <2> HIDE DEF f
  <2>6. Members(h) /\ UNCHANGED <<tree, pending, worker, manifest, forge, faults>>
    BY DEF Evaluate, Members
  <2>7. SessionSide(h)
    BY <2>3, <2>4, <2>5, <2>6, MergingSession DEF Evaluate, In, Merging
  <2> QED BY <2>1, <2>6, <2>7, ForgeSame, TurnKeeps
<1> QED BY <1>2, <1>3 DEF Evaluate, Harmless

\* The forge merges what another pull request could not be merged as before.
LEMMA ForgeMerges ==
  ASSUME DeliveryInv, NEW w \in Workflow \ merged, NEW by \in {"home", "holder"},
         merged' = merged \cup {w}, target' = [sha |-> target.sha + 1, by |-> by],
         head' = head, faults' = faults
  PROVE  ForgeSide
<1>1. ForgeType /\ ForgeInv /\ TypeOK
  BY DeliveryParts DEF DeliveryInv
<1>2. merged' \in SUBSET Workflow
  BY <1>1 DEF ForgeType
<1>3. Cardinality(merged') = Cardinality(merged) + 1 /\ Cardinality(merged) \in Nat
  BY <1>1, MergedIsFinite, FS_AddElement
<1>4. Cardinality(merged') <= Cardinality(Workflow) /\ Cardinality(Workflow) \in Nat
  BY <1>2, FS_Subset, FS_CardinalityType
<1>5. target.sha \in Nat /\ target.sha >= 1 /\ faults \in Nat
  BY <1>1 DEF ForgeType, TypeOK
<1>6. target.sha + 1 <= 1 + faults + Cardinality(merged')
  BY <1>1, <1>3, <1>5 DEF ForgeInv
<1>7. target.sha + 1 \in Sha
  BY <1>1, <1>4, <1>5, <1>6, <1>3 DEF ForgeInv
<1>8. ForgeType'
  BY <1>1, <1>2, <1>7 DEF ForgeType
<1> QED BY <1>1, <1>5, <1>6, <1>8 DEF ForgeSide, ForgeInv

LEMMA MergePullRequestKeeps ==
  ASSUME DeliveryInv, NEW h \in Home, MergePullRequest(h), Still, faults' = faults
  PROVE  DeliveryInv'
<1>1. QueueSide(h)
  BY QuietQueue DEF MergePullRequest, In
<1>2. Members(h) /\ UNCHANGED <<tree, pending, worker, manifest>>
  BY DEF MergePullRequest, Members, NoQueueStep
<1>3. CASE UNCHANGED <<merged, target>> /\ Go(h, "refused")
  <2>1. SessionSide(h)
    BY <1>2, <1>3, MergingGo DEF MergePullRequest, In, Merging
  <2> QED BY <1>1, <1>3, <2>1, ForgeSame, TurnKeeps DEF MergePullRequest, forge
<1>4. CASE /\ Accepts(WorkflowOf[h], flow[h].head)
           /\ merged' = merged \cup {WorkflowOf[h]}
           /\ target' = [sha |-> target.sha + 1,
                         by |-> IF HoldsLane(held[h]) THEN "holder" ELSE "home"]
           /\ Go(h, "mark") \/ Go(h, "refused")
  <2>1. ForgeSide
    BY <1>4, ForgeMerges, HomeFacts DEF MergePullRequest, Accepts
  <2>2. SessionSide(h)
    BY <1>2, <1>4, MergingGo DEF MergePullRequest, In, Merging
  <2> QED BY <1>1, <2>1, <2>2, TurnKeeps
<1> QED BY <1>3, <1>4 DEF MergePullRequest

LEMMA AfterRefusalKeeps ==
  ASSUME DeliveryInv, NEW h \in Home, AfterRefusal(h), Still, faults' = faults
  PROVE  DeliveryInv'
<1>1. QueueSide(h)
  BY GivingQueue DEF AfterRefusal, Free, Harmless
<1>2. h \notin worker
  BY BusyWithoutWorker DEF AfterRefusal, In
<1> QED BY <1>1, <1>2, CalmKeeps DEF AfterRefusal, CalmFlow, CalmPending, Members

LEMMA MarkMergedKeeps ==
  ASSUME DeliveryInv, NEW h \in Home, MarkMerged(h), Still, faults' = faults
  PROVE  DeliveryInv'
<1>1. WorkflowOf[h] \in merged'
  BY HomeFacts DEF MarkMerged, In, FlowInv, Knows, forge
<1>2. Merged \in Command /\ Allowed(Merged, WorkflowOf[h] \in merged', flow'[h].at)
  BY <1>1 DEF Merged, Command, Allowed
<1>3. QueueSide(h)
  BY <1>2 DEF MarkMerged, QueueSide, FrameSide, Still
<1>4. SessionSide(h)
  BY <1>1, MergingGo DEF MarkMerged, In, Merging, Members
<1> QED BY <1>3, <1>4, ForgeSame, TurnKeeps DEF MarkMerged

\* The manifest that is written is the one read when the merge began.
LEMMA WriteMergedStageKeeps ==
  ASSUME DeliveryInv, NEW h \in Home, WriteMergedStage(h), Still, faults' = faults
  PROVE  DeliveryInv'
<1> DEFINE v == WorkflowOf[h]
           m == [flow[h].snapshot EXCEPT !.stage = "merged"]
<1>1. /\ TypeOK /\ QueueInv /\ ForgeType /\ SessionType /\ v \in Workflow
      /\ v \in merged /\ frame[h] = Idle /\ h \notin worker
      /\ flow[h].snapshot \in Manifest /\ SameRefresh(flow[h].snapshot, Own(h))
      /\ pending[h].conflict => pending[h].target \in Sha
  BY HomeFacts, BusyWithoutWorker DEF WriteMergedStage, Free, In, FlowInv, Knows, Merging
<1>2. CASE UNCHANGED <<owner, manifest, ahead>>
  <2>1. QueueSide(h)
    BY <1>1, <1>2 DEF WriteMergedStage, QueueSide, FrameSide, Still
  <2> QED BY <1>1, <1>2, <2>1, CalmKeeps DEF WriteMergedStage, CalmFlow, CalmPending, Members
<1>3. CASE Authority(h) /\ Store(h, m)
  <2>1. m \in Manifest /\ SameRefresh(m, Own(h))
    BY <1>1 DEF Manifest, SameRefresh
  <2> HIDE DEF m
  <2>2. /\ manifest' \in Manifests /\ manifest'[v] = m
        /\ \A w \in Workflow \ {v} : manifest'[w] = manifest[w]
    BY <1>1, <1>3, <2>1 DEF Store, TypeOK, Manifests
  <2>3. owner' \in [Workflow -> Home \cup {NoHome}] /\ ahead' \in Aheads
    BY <1>1, <1>3, StoreType DEF Authority, TypeOK
  <2>4. QueueInv' /\ TypeOK'
    <3>1. TypeOK'
      BY <1>1, <2>2, <2>3 DEF WriteMergedStage, Still, TypeOK, Aheads
    <3>2. \A k \in Home : DraftTyped(frame'[k])
      BY <1>1 DEF WriteMergedStage, QueueInv
    <3> QED BY <3>1, <3>2 DEF QueueInv, DraftTyped, WillLook
  <2>5. SessionType'
    BY <1>1, NoFlowType DEF WriteMergedStage, Return, SessionType, tree
  <2>6. DeliveryTypeOK' /\ ForgeInv'
    BY <1>1, <2>4, <2>5 DEF WriteMergedStage, DeliveryInv, DeliveryTypeOK, ForgeInv, ForgeType,
                            SessionType, PendingType, forge
  <2>7. TruthInv'
    BY <1>1, <2>1, <2>2, HomeFacts
    DEF DeliveryInv, TruthInv, Fresh, TellsMerged, SameRefresh, WriteMergedStage, forge
  <2>8. CommandInv(h)'
    BY <1>1, IdleFrame DEF WriteMergedStage, CommandInv, Allowed, NoCommand, WillLook
  <2>9. FlowInv(h)'
    <3>1. flow'[h] = NoFlow
      BY <1>1 DEF WriteMergedStage, Return, SessionType
    <3> QED BY <1>1, <3>1, NoFlowType
            DEF WriteMergedStage, FlowInv, Knows, Refreshed, Merging
  <2>10. ASSUME NEW k \in Home \ {h} PROVE CommandInv(k)' /\ FlowInv(k)'
    <3>1. manifest'[WorkflowOf[k]] = manifest[WorkflowOf[k]] /\ flow'[k] = flow[k]
      BY <1>1, <2>2, OtherWorkflow DEF WriteMergedStage, Return, SessionType
    <3> QED BY <3>1, Bystander DEF WriteMergedStage, tree, forge
  <2> QED BY <2>4, <2>6, <2>7, <2>8, <2>9, <2>10 DEF DeliveryInv
<1> QED BY <1>2, <1>3 DEF WriteMergedStage

(***************************************************************************)
(* Pauses, restarts, and the world                                         *)
(***************************************************************************)

LEMMA FaultCounts ==
  ASSUME DeliveryInv, Fault
  PROVE  faults \in Nat /\ faults' = faults + 1 /\ faults' \in Nat /\ faults' <= MaxFaults
BY HomeFacts, DeliveryParts DEF DeliveryInv, Fault, TypeOK

LEMMA ForgeFault ==
  ASSUME DeliveryInv, Fault, UNCHANGED forge
  PROVE  ForgeSide
<1>1. ForgeType /\ ForgeInv
  BY DeliveryParts DEF DeliveryInv
<1>2. target.sha \in Nat /\ Cardinality(merged) \in Nat
  BY <1>1, MergedIsFinite DEF ForgeType
<1> QED BY <1>1, <1>2, FaultCounts DEF ForgeSide, ForgeType, ForgeInv, forge

LEMMA PauseKeeps ==
  ASSUME DeliveryInv, NEW h \in Home, Pause(h)
  PROVE  DeliveryInv'
<1>1. QueueSide(h)
  BY GivingQueue DEF Pause, Free, Still, Harmless
<1>2. /\ SessionType /\ flow[h] \in Flow /\ pending[h] \in PendingType /\ local[h] \in Sha
      /\ FlowInv(h) /\ Own(h)' = Own(h)
  BY HomeFacts DEF Pause, Own
<1>3. Knows(flow'[h], pending'[h], local'[h], h \in worker', Own(h)', WorkflowOf[h] \in merged')
  BY <1>2 DEF Pause, FlowInv, Knows, tree, forge
<1>4. /\ flow' = [flow EXCEPT ![h] = flow'[h]] /\ pending' = [pending EXCEPT ![h] = pending'[h]]
      /\ local' = [local EXCEPT ![h] = local'[h]]
  BY <1>2 DEF Pause, SessionType, tree
<1>5. SessionSide(h)
  BY <1>2, <1>3, <1>4 DEF Pause, SessionSide, SessionType, tree
<1>6. ForgeSide
  BY ForgeFault DEF Pause
<1> QED BY <1>1, <1>5, <1>6, TurnKeeps

LEMMA EndPauseKeeps ==
  ASSUME DeliveryInv, NEW h \in Home, EndPause(h), Still, faults' = faults
  PROVE  DeliveryInv'
<1>1. QueueSide(h)
  BY QuietQueue DEF EndPause
<1>2. /\ SessionType /\ flow[h] \in Flow /\ pending[h] \in PendingType /\ local[h] \in Sha
      /\ FlowInv(h) /\ Own(h)' = Own(h)
  BY HomeFacts DEF EndPause, NoQueueStep, Own
<1>3. /\ pending' = [pending EXCEPT ![h] = pending'[h]] /\ pending'[h] \in PendingType
      /\ pending'[h] = pending[h] \/ (~pending[h].conflict /\ ~pending'[h].conflict)
  <2>1. NoPending \in PendingType /\ ~NoPending.conflict
    BY DEF NoPending, PendingType
  <2> QED BY <1>2, <2>1 DEF EndPause, SessionType
<1>4. Knows(flow'[h], pending'[h], local'[h], h \in worker', Own(h)', WorkflowOf[h] \in merged')
  BY <1>2, <1>3 DEF EndPause, FlowInv, Knows, tree, forge
<1>5. flow' = [flow EXCEPT ![h] = flow'[h]] /\ local' = [local EXCEPT ![h] = local'[h]]
  BY <1>2 DEF EndPause, SessionType, tree
<1>6. SessionSide(h)
  BY <1>2, <1>3, <1>4, <1>5 DEF EndPause, SessionSide, SessionType, tree
<1> QED BY <1>1, <1>6, ForgeSame, TurnKeeps DEF EndPause

LEMMA RestartKeeps ==
  ASSUME DeliveryInv, NEW h \in Home, Restart(h)
  PROVE  DeliveryInv'
<1>1. TypeOK /\ QueueInv /\ SessionType /\ ForgeSide /\ manifest' = manifest
  BY HomeFacts, ForgeFault DEF Restart, Crash
<1>2. QueueInv' /\ TypeOK'
  BY <1>1, QueueStep DEF Restart, Next, World, QueueInv
<1>3. NoPending \in PendingType /\ ~NoPending.conflict
  BY DEF NoPending, PendingType
<1>4. SessionType'
  BY <1>1, <1>3, NoFlowType DEF Restart, SessionType, tree
<1>5. DeliveryTypeOK' /\ ForgeInv'
  BY <1>1, <1>2, <1>4 DEF DeliveryTypeOK, ForgeSide, ForgeType, SessionType, PendingType
<1>6. TruthInv'
  BY <1>1 DEF Restart, DeliveryInv, TruthInv, Fresh, TellsMerged, forge
<1>7. CommandInv(h)'
  BY <1>1, IdleFrame DEF Restart, Crash, TypeOK, CommandInv, Allowed, NoCommand, WillLook
<1>8. FlowInv(h)'
  BY <1>1, <1>3, NoFlowType DEF Restart, SessionType, FlowInv, Knows, Refreshed, Merging
<1>9. ASSUME NEW k \in Home \ {h} PROVE CommandInv(k)' /\ FlowInv(k)'
  BY <1>1, Bystander DEF Restart, Crash, SessionType, tree, forge
<1> QED BY <1>2, <1>5, <1>6, <1>7, <1>8, <1>9 DEF DeliveryInv

LEMMA WorldKeeps ==
  ASSUME DeliveryInv, TypeOK', UNCHANGED <<manifest, frame, tree, session>>, ForgeSide
  PROVE  DeliveryInv'
<1>1. QueueInv /\ SessionType
  BY DeliveryParts DEF DeliveryInv
<1>2. QueueInv'
  BY <1>1 DEF QueueInv, DraftTyped, WillLook
<1>3. DeliveryTypeOK'
  BY <1>1 DEF DeliveryTypeOK, ForgeSide, ForgeType, SessionType, PendingType, tree, session
<1>4. TruthInv'
  BY DEF DeliveryInv, TruthInv, Fresh, TellsMerged, ForgeSide
<1>5. ASSUME NEW k \in Home PROVE CommandInv(k)' /\ FlowInv(k)'
  BY Bystander DEF ForgeSide, tree, session
<1> QED BY <1>2, <1>3, <1>4, <1>5 DEF DeliveryInv, ForgeSide

LEMMA OwnerEndsKeeps ==
  ASSUME DeliveryInv, NEW w \in Workflow, OwnerEnds(w), UNCHANGED <<forge, tree, session>>
  PROVE  DeliveryInv'
<1>1. TypeOK /\ ForgeSide
  BY DeliveryParts, ForgeFault DEF DeliveryInv, OwnerEnds
<1>2. TypeOK'
  BY <1>1, FaultCounts DEF OwnerEnds, TypeOK
<1> QED BY <1>1, <1>2, WorldKeeps DEF OwnerEnds

LEMMA LaneLapsesKeeps ==
  ASSUME DeliveryInv, LaneLapses
  PROVE  DeliveryInv'
<1>1. TypeOK /\ ForgeSide
  BY DeliveryParts, ForgeFault, ForgeSame DEF DeliveryInv, LaneLapses
<1>2. lane' \in [generation : Nat, live : BOOLEAN]
  BY <1>1 DEF LaneLapses, TypeOK
<1>3. TypeOK'
  BY <1>1, <1>2 DEF LaneLapses, NoQueueStep, ForgeSide, TypeOK
<1> QED BY <1>1, <1>3, WorldKeeps DEF LaneLapses, NoQueueStep

LEMMA TargetMovesKeeps ==
  ASSUME DeliveryInv, TargetMoves
  PROVE  DeliveryInv'
<1>1. TypeOK /\ ForgeType /\ ForgeInv
  BY DeliveryParts DEF DeliveryInv
<1>2. faults \in Nat /\ faults' = faults + 1 /\ faults' \in Nat /\ faults' <= MaxFaults
  BY FaultCounts DEF TargetMoves
<1>3. /\ target.sha \in Nat /\ target.sha >= 1 /\ Cardinality(merged) \in Nat
      /\ Cardinality(merged) <= Cardinality(Workflow) /\ Cardinality(Workflow) \in Nat
  BY <1>1, MergedIsFinite DEF ForgeType
<1>4. target.sha + 1 <= 1 + faults' + Cardinality(merged)
  BY <1>1, <1>2, <1>3 DEF ForgeInv
<1>5. target.sha + 1 \in Sha
  BY <1>2, <1>3, <1>4
<1>6. ForgeSide
  BY <1>1, <1>2, <1>4, <1>5 DEF TargetMoves, ForgeSide, ForgeType, ForgeInv
<1>7. TypeOK'
  BY <1>1, <1>2 DEF TargetMoves, NoQueueStep, TypeOK
<1> QED BY <1>6, <1>7, WorldKeeps DEF TargetMoves, NoQueueStep

LEMMA HeadMovesKeeps ==
  ASSUME DeliveryInv, NEW w \in Workflow, HeadMoves(w)
  PROVE  DeliveryInv'
<1>1. TypeOK /\ ForgeType /\ ForgeInv
  BY DeliveryParts DEF DeliveryInv
<1>2. faults \in Nat /\ faults' = faults + 1 /\ faults' \in Nat /\ faults' <= MaxFaults
  BY FaultCounts DEF HeadMoves
<1>3. target.sha \in Nat /\ Cardinality(merged) \in Nat
  BY <1>1, MergedIsFinite DEF ForgeType
<1>4. ForgeSide
  BY <1>1, <1>2, <1>3 DEF HeadMoves, ForgeSide, ForgeType, ForgeInv
<1>5. TypeOK'
  BY <1>1, <1>2 DEF HeadMoves, NoQueueStep, TypeOK
<1> QED BY <1>4, <1>5, WorldKeeps DEF HeadMoves, NoQueueStep

(***************************************************************************)
(* The theorems                                                            *)
(***************************************************************************)

LEMMA DeliverKeeps ==
  ASSUME DeliveryInv, NEW h \in Home, Deliver(h)
  PROVE  DeliveryInv'
<1>1. Still /\ faults' = faults
  BY DEF Deliver, Still
<1>2. CASE \/ AfterLane(h) \/ EnsureWorkspace(h) \/ MergeTarget(h) \/ LaunchWorker(h)
           \/ WorkerCompletes(h) \/ WorkerFails(h) \/ Finish(h) \/ VerifyLocally(h)
           \/ PushIntegration(h) \/ ReleaseForPrChecks(h) \/ AfterRelease(h)
  BY <1>1, <1>2, AfterLaneKeeps, EnsureWorkspaceKeeps, MergeTargetKeeps, LaunchWorkerKeeps,
     WorkerCompletesKeeps, WorkerFailsKeeps, FinishKeeps, VerifyLocallyKeeps, PushKeeps,
     ReleaseForPrChecksKeeps, AfterReleaseKeeps
<1>3. CASE \/ FailTargetRefresh(h) \/ AfterRecord(h) \/ AfterReleaseHeld(h)
           \/ AfterMergeLane(h) \/ Observe(h) \/ Evaluate(h) \/ MergePullRequest(h)
           \/ AfterRefusal(h) \/ MarkMerged(h) \/ WriteMergedStage(h) \/ EndPause(h)
  BY <1>1, <1>3, FailTargetRefreshKeeps, AfterRecordKeeps, AfterReleaseHeldKeeps,
     AfterMergeLaneKeeps, ObserveKeeps, EvaluateKeeps, MergePullRequestKeeps,
     AfterRefusalKeeps, MarkMergedKeeps, WriteMergedStageKeeps, EndPauseKeeps
<1> QED BY <1>2, <1>3 DEF Deliver

LEMMA DeliveryStep == DeliveryInv /\ [DeliveryNext]_deliveryVars => DeliveryInv'
<1> SUFFICES ASSUME DeliveryInv, [DeliveryNext]_deliveryVars PROVE DeliveryInv'
  OBVIOUS
<1>1. CASE UNCHANGED deliveryVars
  <2>1. TypeOK /\ ForgeSide
    BY <1>1, DeliveryParts, ForgeSame DEF DeliveryInv, deliveryVars, vars
  <2>2. TypeOK'
    BY <1>1, <2>1 DEF deliveryVars, vars, TypeOK
  <2> QED BY <1>1, <2>1, <2>2, WorldKeeps DEF deliveryVars, vars
<1>2. ASSUME NEW h \in Home, Work(h) PROVE DeliveryInv'
  BY <1>2, RunKeeps, DeliverKeeps DEF Work
<1>3. ASSUME NEW h \in Home, Choose(h) PROVE DeliveryInv'
  BY <1>3, StartRefreshKeeps, RetryConflictKeeps, StartMergeKeeps DEF Choose
<1>4. ASSUME NEW h \in Home, Pause(h) \/ Restart(h) PROVE DeliveryInv'
  BY <1>4, PauseKeeps, RestartKeeps
<1>5. ASSUME NEW w \in Workflow,
             HeadMoves(w) \/ (OwnerEnds(w) /\ UNCHANGED <<forge, tree, session>>)
      PROVE  DeliveryInv'
  BY <1>5, HeadMovesKeeps, OwnerEndsKeeps
<1> QED BY <1>1, <1>2, <1>3, <1>4, <1>5, LaneLapsesKeeps, TargetMovesKeeps DEF DeliveryNext

LEMMA DeliveryInductive == DeliverySpec => []DeliveryInv
BY InitDelivery, DeliveryStep, PTL DEF DeliverySpec

\* The variables of the delivery keep their types: in particular the Target branch
\* never leaves the commits the bounds leave room for.
THEOREM DeliveryTypeCorrect == DeliverySpec => []DeliveryTypeOK
<1>1. DeliveryInv => DeliveryTypeOK
  BY DEF DeliveryInv
<1> QED BY <1>1, DeliveryInductive, PTL

\* The recorded head contains the Target commit it is recorded with, whatever
\* pauses, restarts, conflicts and lost answers came between the merge of the
\* Target branch, the push, and the command that records both.
THEOREM HeadsContainTheirTarget == DeliverySpec => []ValidatedShaIsInHead
<1>1. DeliveryInv => ValidatedShaIsInHead
  BY DEF DeliveryInv, TruthInv, Fresh, ValidatedShaIsInHead
<1> QED BY <1>1, DeliveryInductive, PTL

\* No manifest says merged before the forge has merged its PR.
THEOREM RecordedMergesHappened == DeliverySpec => []RecordedMergeHappened
<1>1. DeliveryInv => RecordedMergeHappened
  BY DEF DeliveryInv, TruthInv, TellsMerged, RecordedMergeHappened
<1> QED BY <1>1, DeliveryInductive, PTL

\* Only the home of a workflow has its PR merged, by mergePullRequest.
LEMMA OnlyMergePullRequestMerges ==
  ASSUME DeliveryInv, [DeliveryNext]_deliveryVars, NEW h \in Home, Merges(h)
  PROVE  /\ In(h, "merge") /\ Accepts(WorkflowOf[h], flow[h].head)
         /\ FlowInv(h)
<1>1. merged' # merged
  BY DEF Merges
<1>2. ASSUME NEW g \in Home, Work(g) PROVE MergePullRequest(g)
  <2>1. CASE Deliver(g)
    BY <1>1, <2>1
    DEF Deliver, AfterLane, EnsureWorkspace, MergeTarget, LaunchWorker, WorkerCompletes,
        WorkerFails, Finish, VerifyLocally, PushIntegration, ReleaseForPrChecks, AfterRelease,
        FailTargetRefresh, AfterRecord, AfterReleaseHeld, AfterMergeLane, Observe, Evaluate,
        AfterRefusal, MarkMerged, WriteMergedStage, EndPause, forge
  <2> QED BY <1>1, <1>2, <2>1 DEF Work, forge
<1>3. PICK g \in Home : MergePullRequest(g)
  BY <1>1, <1>2 DEF DeliveryNext, Choose, StartRefresh, RetryConflict, StartMerge, Pause,
                    Restart, HeadMoves, LaneLapses, TargetMoves, deliveryVars, forge
<1>4. /\ In(g, "merge") /\ Accepts(WorkflowOf[g], flow[g].head)
      /\ merged' = merged \cup {WorkflowOf[g]}
  BY <1>1, <1>3 DEF MergePullRequest
<1>5. g = h
  BY <1>4 DEF Merges
<1> QED BY <1>4, <1>5 DEF DeliveryInv

\* What the forge merges is the head that a refresh recorded, for every number of
\* pushes by others between the look at the pull request and the merge.
THEOREM MergedHeadWasRecorded == DeliverySpec => RecordedHeadIsMerged
<1>1. DeliveryInv /\ [DeliveryNext]_deliveryVars =>
        \A h \in Home :
          Merges(h) => /\ head[WorkflowOf[h]] = Own(h).headSha
                       /\ Own(h).validatedTargetSha # 0
  <2> SUFFICES ASSUME DeliveryInv, [DeliveryNext]_deliveryVars, NEW h \in Home, Merges(h)
               PROVE  /\ head[WorkflowOf[h]] = Own(h).headSha
                      /\ Own(h).validatedTargetSha # 0
    OBVIOUS
  <2>1. In(h, "merge") /\ Accepts(WorkflowOf[h], flow[h].head) /\ FlowInv(h)
    BY OnlyMergePullRequestMerges
  <2>2. /\ flow[h].head = flow[h].snapshot.headSha
        /\ SameRefresh(flow[h].snapshot, Own(h)) /\ flow[h].snapshot.validatedTargetSha # 0
    BY <2>1 DEF In, FlowInv, Knows, Merging
  <2> QED BY <2>1, <2>2 DEF Accepts, SameRefresh
<1> QED BY <1>1, DeliveryInductive, PTL DEF DeliverySpec, RecordedHeadIsMerged

(***************************************************************************)
(* The lane of a flow                                                      *)
(***************************************************************************)

\* Where a flow asks for the lane, and where it keeps the lane between commands.
Asking == {"lane", "merge lane"}
Keeping == {"workspace", "git", "launch", "finish", "verify", "push", "release", "fail",
            "observe", "evaluate", "merge", "refused", "mark"}

\* The home is between commands and keeps the lane: its flow is at at and read the
\* answer a of its last command, or a Conflict resolution worker runs (works).
Keeps(at, works, a) ==
  \/ at \in Keeping
  \/ at \in Asking /\ a = "ok"
  \/ at = "none" /\ works

\* What a command of this kind, with these calls to make and this lease verified
\* (fence), makes of the lane: it will ask for it, ...
Asks(kind, todo, fence) ==
  kind = "acquire-phase" /\ todo \in {ToTake, ToLook, ToAcquire} /\ fence = 0
\* ... it has taken it, ...
Takes(kind, todo, fence) ==
  /\ kind = "acquire-phase"
  /\ \/ todo = ToVerify
     \/ todo \in {ToReload, ToConfirm, ToFence, ToWrite} /\ fence # 0
\* ... it keeps it, ...
Renews(kind, todo) ==
  kind = "renew-held-target-lease" /\ todo \in {ToVerifyRenew, ToRenew}
\* ... it gives it back however it ends, ...
GivesBack(kind, todo, fence) ==
  \/ todo \in {ToRelease, ToVerifyLast}
  \/ todo \in {ToConfirmLast, ToFenceLast, ToWriteLast} /\ fence # 0
  \/ kind = "release-held-target-lease" /\ todo = ToGiveUp
  \/ kind = "record-failure" /\ todo \in {ToRecord, ToLoad}
  \/ /\ kind \in {"release-for-pr-checks", "mark-merged"}
     /\ todo = ToFinish \/ (todo \in {ToLeave, ToLookLast} /\ fence # 0)
\* ... or it has nothing to do with it.
Others == {ToWrite, ToFence, ToConfirm, ToReload, ToVerify, ToRelease, ToWriteLast,
           ToFenceLast, ToConfirmLast, ToVerifyLast, ToLookLast, ToLeave, ToFinish,
           ToPersist, ToLookPersist, ToRequeue, ToLoad, ToRecord, ToInspect,
           ToLookInspect, ToRecover, ToRenew, ToVerifyRenew, ToGiveUp}
Lacks(kind, todo) == todo = <<>> \/ (kind # "acquire-phase" /\ todo \in Others)

\* A home with a lease (n is its generation) is on its way to give it back, or keeps
\* it for a flow that goes on; only a home with a queue, and not in a pause, has one.
Back(kind, todo, fence, n, a, at, works, q, p) ==
  \/ n = 0 /\ Lacks(kind, todo)
  \/ n # 0 /\ q /\ GivesBack(kind, todo, fence)
  \/ /\ q /\ ~p
     /\ \/ n = 0 /\ Asks(kind, todo, fence) /\ at \in Asking /\ a = "ok"
        \/ n # 0 /\ Takes(kind, todo, fence) /\ at \in Asking /\ a = "ok"
        \/ n # 0 /\ Renews(kind, todo) /\ at \in {"git", "verify"}
        \/ n # 0 /\ todo = <<>> /\ Keeps(at, works, a)


\* The same of a home with this frame, lease and answer.
Using(h, f, n, a) ==
  Back(f.command.kind, f.todo, f.fence, n, a,
       flow[h].at, h \in worker, h \in queued, h \in pausing)

BackAt(h) == ~disturbed[h] => Using(h, frame[h], held[h], reply[h])

BackInv == \A h \in Home : BackAt(h)

\* A home between commands.
LEMMA BackIdle ==
  ASSUME NEW kind, NEW fence, NEW n, NEW a, NEW at, NEW works, NEW q, NEW p
  PROVE  Back(kind, <<>>, fence, n, a, at, works, q, p)
           <=> n = 0 \/ (q /\ ~p /\ Keeps(at, works, a))
<1>1. \A t \in Todos : t # <<>>
  BY TodoLeft
<1>2. ~GivesBack(kind, <<>>, fence) /\ ~Takes(kind, <<>>, fence) /\ ~Renews(kind, <<>>)
  BY <1>1 DEF GivesBack, Takes, Renews, Todos
<1>3. Lacks(kind, <<>>)
  BY DEF Lacks
<1> QED BY <1>1, <1>2, <1>3 DEF Back, Asks, Todos

\* A call that was made and changed neither the lease nor the candidate.
LEMMA BackTail ==
  ASSUME NEW kind, NEW todo, NEW fence, NEW n, NEW a, NEW at, NEW works, NEW q, NEW p,
         Back(kind, todo, fence, n, a, at, works, q, p), todo # <<>>,
         Head(todo) \in {"workflow", "fence", "write", "renew"}
  PROVE  Back(kind, Tail(todo), fence, n, a, at, works, q, p)
<1>1. CASE n = 0 /\ Lacks(kind, todo)
  <2>0. kind # "acquire-phase" /\ todo \in Others
    BY <1>1 DEF Lacks
  <2>1. Lacks(kind, Tail(todo))
    <3>1. CASE todo \in {ToWrite, ToFence, ToConfirm, ToRenew, ToPersist, ToRequeue, ToRecord, ToRecover}
      BY <2>0, <3>1, TodoTails DEF Lacks, Others
    <3>2. CASE todo \in {ToWriteLast, ToFenceLast, ToConfirmLast, ToLeave}
      BY <2>0, <3>2, TodoTails DEF Lacks, Others
    <3> QED BY <2>0, <3>1, <3>2, TodoHeads DEF Others
  <2> QED BY <1>1, <2>1 DEF Back
<1>2. CASE n # 0 /\ q /\ GivesBack(kind, todo, fence)
  <2>1. GivesBack(kind, Tail(todo), fence)
    BY <1>2, TodoHeads, TodoTails, ZenonT(60) DEF GivesBack
  <2> QED BY <1>2, <2>1 DEF Back
<1>3. CASE n = 0 /\ q /\ ~p /\ Asks(kind, todo, fence) /\ at \in Asking /\ a = "ok"
  <2>1. Asks(kind, Tail(todo), fence)
    BY <1>3, TodoHeads, TodoTails, ZenonT(60) DEF Asks
  <2> QED BY <1>3, <2>1 DEF Back
<1>4. CASE n # 0 /\ q /\ ~p /\ Takes(kind, todo, fence) /\ at \in Asking /\ a = "ok"
  <2>1. Takes(kind, Tail(todo), fence) \/ Tail(todo) = <<>>
    BY <1>4, TodoHeads, TodoTails, ZenonT(60) DEF Takes
  <2> QED BY <1>4, <2>1 DEF Back, Keeps
<1>5. CASE n # 0 /\ q /\ ~p /\ Renews(kind, todo) /\ at \in {"git", "verify"}
  <2>1. Tail(todo) = <<>>
    BY <1>5, TodoHeads, TodoTails, ZenonT(60) DEF Renews
  <2>2. Keeps(at, works, a)
    BY <1>5 DEF Keeps, Keeping
  <2> QED BY <1>5, <2>1, <2>2 DEF Back
<1> QED BY <1>1, <1>2, <1>3, <1>4, <1>5 DEF Back

\* The home finds the lease it remembers alive.
LEMMA BackVerified ==
  ASSUME NEW kind, NEW todo, NEW fence, NEW n, NEW a, NEW at, NEW works, NEW q, NEW p,
         Back(kind, todo, fence, n, a, at, works, q, p), todo # <<>>,
         Head(todo) = "target", n # 0
  PROVE  Back(kind, Tail(todo), n, n, a, at, works, q, p)
<1>2. CASE n # 0 /\ q /\ GivesBack(kind, todo, fence)
  <2>1. GivesBack(kind, Tail(todo), n)
    BY <1>2, TodoHeads, TodoTails, ZenonT(60) DEF GivesBack
  <2> QED BY <1>2, <2>1 DEF Back
<1>4. CASE n # 0 /\ q /\ ~p /\ Takes(kind, todo, fence) /\ at \in Asking /\ a = "ok"
  <2>1. Takes(kind, Tail(todo), n)
    BY <1>4, TodoHeads, TodoTails, ZenonT(60) DEF Takes
  <2> QED BY <1>4, <2>1 DEF Back
<1>5. CASE n # 0 /\ q /\ ~p /\ Renews(kind, todo) /\ at \in {"git", "verify"}
  <2>1. Renews(kind, Tail(todo))
    BY <1>5, TodoHeads, TodoTails, ZenonT(60) DEF Renews
  <2> QED BY <1>5, <2>1 DEF Back
<1> QED BY <1>2, <1>4, <1>5 DEF Back

\* What the calls that do change something find.
LEMMA BackFinds ==
  ASSUME NEW kind, NEW todo, NEW fence, NEW n, NEW a, NEW at, NEW works, NEW q, NEW p,
         Back(kind, todo, fence, n, a, at, works, q, p), todo # <<>>
  PROVE  /\ n = 0 /\ kind = "acquire-phase" => Asks(kind, todo, fence)
         /\ n # 0 => q
         /\ Head(todo) = "release" => Tail(todo) = <<>>
         /\ Head(todo) = "inspect" => n = 0
         /\ Head(todo) = "acquire" =>
              /\ n = 0 /\ todo = ToAcquire /\ kind = "acquire-phase"
              /\ q /\ ~p /\ at \in Asking /\ a = "ok"
<1>1. CASE n = 0 /\ Lacks(kind, todo)
  BY <1>1, TodoHeads, TodoTails, ZenonT(60) DEF Lacks, Others
<1>2. CASE n # 0 /\ q /\ GivesBack(kind, todo, fence)
  BY <1>2, TodoHeads, TodoTails, ZenonT(60) DEF GivesBack
<1>3. CASE n = 0 /\ q /\ ~p /\ Asks(kind, todo, fence) /\ at \in Asking /\ a = "ok"
  BY <1>3, TodoHeads, TodoTails, ZenonT(60) DEF Asks
<1>4. CASE n # 0 /\ q /\ ~p /\ Takes(kind, todo, fence) /\ at \in Asking /\ a = "ok"
  BY <1>4, TodoHeads, TodoTails, ZenonT(60) DEF Takes
<1>5. CASE n # 0 /\ q /\ ~p /\ Renews(kind, todo) /\ at \in {"git", "verify"}
  BY <1>5, TodoHeads, TodoTails, ZenonT(60) DEF Renews
<1> QED BY <1>1, <1>2, <1>3, <1>4, <1>5 DEF Back

LEMMA BackLoads ==
  ASSUME NEW kind, NEW todo, NEW fence, NEW n, NEW a, NEW at, NEW works, NEW q, NEW p,
         Back(kind, todo, fence, n, a, at, works, q, p), todo # <<>>, Head(todo) = "load"
  PROVE  /\ kind = "acquire-phase" =>
              /\ n = 0 /\ todo = ToLook /\ fence = 0
              /\ Back(kind, ToAcquire, fence, n, a, at, works, q, p)
         /\ n # 0 => \/ kind = "record-failure"
                     \/ /\ kind \in {"release-for-pr-checks", "mark-merged"}
                        /\ todo = ToLookLast /\ fence # 0
         /\ n = 0 /\ kind # "acquire-phase" => Lacks(kind, Tail(todo))
<1>1. CASE n = 0 /\ Lacks(kind, todo)
  <2>1. kind # "acquire-phase" /\ todo \in Others
    BY <1>1 DEF Lacks
  <2>2. todo \in {ToLookLast, ToLookPersist, ToLoad, ToLookInspect}
    BY <2>1, TodoHeads DEF Others
  <2>3. Lacks(kind, Tail(todo))
    BY <2>1, <2>2, TodoTails DEF Lacks, Others
  <2> QED BY <1>1, <2>1, <2>3
<1>2. CASE n # 0 /\ q /\ GivesBack(kind, todo, fence)
  BY <1>2, TodoHeads DEF GivesBack
<1>3. CASE n = 0 /\ q /\ ~p /\ Asks(kind, todo, fence) /\ at \in Asking /\ a = "ok"
  BY <1>3, TodoHeads DEF Asks, Back
<1>4. CASE n # 0 /\ q /\ ~p /\ Takes(kind, todo, fence) /\ at \in Asking /\ a = "ok"
  BY <1>4, TodoHeads DEF Takes
<1>5. CASE n # 0 /\ q /\ ~p /\ Renews(kind, todo) /\ at \in {"git", "verify"}
  BY <1>5, TodoHeads DEF Renews
<1> QED BY <1>1, <1>2, <1>3, <1>4, <1>5 DEF Back

LEMMA BackReloads ==
  ASSUME NEW kind, NEW todo, NEW fence, NEW n, NEW a, NEW at, NEW works, NEW q, NEW p,
         Back(kind, todo, fence, n, a, at, works, q, p), todo # <<>>, Head(todo) = "reload"
  PROVE  /\ kind = "acquire-phase" => n # 0 /\ fence # 0
         /\ n # 0 => kind = "acquire-phase"
         /\ Back(kind, Tail(todo), fence, n, a, at, works, q, p)
<1>1. CASE n = 0 /\ Lacks(kind, todo)
  BY <1>1, TodoHeads, TodoTails, ZenonT(60) DEF Lacks, Others, Back
<1>2. CASE n # 0 /\ q /\ GivesBack(kind, todo, fence)
  BY <1>2, TodoHeads DEF GivesBack
<1>3. CASE n = 0 /\ q /\ ~p /\ Asks(kind, todo, fence) /\ at \in Asking /\ a = "ok"
  BY <1>3, TodoHeads DEF Asks, Back
<1>4. CASE n # 0 /\ q /\ ~p /\ Takes(kind, todo, fence) /\ at \in Asking /\ a = "ok"
  BY <1>4, TodoHeads, TodoTails, ZenonT(60) DEF Takes, Back
<1>5. CASE n # 0 /\ q /\ ~p /\ Renews(kind, todo) /\ at \in {"git", "verify"}
  BY <1>5, TodoHeads DEF Renews
<1> QED BY <1>1, <1>2, <1>3, <1>4, <1>5 DEF Back

(***************************************************************************)
(* The calls of a command and the lane of a flow                           *)
(***************************************************************************)

\* A step of a command leaves the session as it is.
LEMMA UsingAfter ==
  ASSUME NEW h \in Home, UNCHANGED session,
         ~disturbed'[h] => Using(h, frame'[h], held'[h], reply'[h])
  PROVE  BackAt(h)'
BY DEF BackAt, Using, session

LEMMA ResumeUsing ==
  ASSUME TypeOK, NEW h \in Home, NEW g, Resume(h, g), NEW n, NEW a, Using(h, g, n, a)
  PROVE  Using(h, frame'[h], n, a)
<1>1. CASE g.todo = <<>>
  <2>1. frame'[h] = Idle /\ Idle.todo = <<>>
    BY <1>1, IdleFrame DEF TypeOK, Resume
  <2> QED BY <1>1, <2>1, BackIdle DEF Using
<1>2. CASE g.todo # <<>>
  <2>1. frame'[h] = g
    BY <1>2 DEF TypeOK, Resume
  <2> QED BY <2>1
<1> QED BY <1>1, <1>2

LEMMA ProceedUsing ==
  ASSUME TypeOK, NEW h \in Home, frame[h].todo # <<>>, Proceed(h), NEW n, NEW a,
         Back(frame[h].command.kind, Tail(frame[h].todo), frame[h].fence, n, a,
              flow[h].at, h \in worker, h \in queued, h \in pausing)
  PROVE  Using(h, frame'[h], n, a)
<1>1. PICK g \in Frame : /\ Resume(h, g)
                         /\ g.command = frame[h].command /\ g.draft = frame[h].draft
                         /\ g.fence = frame[h].fence /\ g.todo = Tail(frame[h].todo)
  BY ProceedFrame
<1>2. Using(h, g, n, a)
  BY <1>1 DEF Using
<1> QED BY <1>1, <1>2, ResumeUsing

LEMMA DecideUsing ==
  ASSUME TypeOK, NEW h \in Home, NEW d, NEW t, NEW n, NEW a,
         Resume(h, [frame[h] EXCEPT !.draft = d, !.todo = t]),
         Back(frame[h].command.kind, t, frame[h].fence, n, a,
              flow[h].at, h \in worker, h \in queued, h \in pausing)
  PROVE  Using(h, frame'[h], n, a)
<1> DEFINE g == [frame[h] EXCEPT !.draft = d, !.todo = t]
<1>0. frame[h] \in Frame
  BY TypedFrame
<1>1. g.command = frame[h].command /\ g.fence = frame[h].fence /\ g.todo = t
  BY <1>0 DEF Frame
<1>2. Resume(h, g)
  OBVIOUS
<1> HIDE DEF g
<1>3. Using(h, g, n, a)
  BY <1>1 DEF Using
<1> QED BY <1>2, <1>3, ResumeUsing

LEMMA AbortUsing ==
  ASSUME TypeOK, NEW h \in Home, Abort(h), NEW n, NEW a,
         \/ n = 0 /\ (frame[h].command.kind # "acquire-phase" \/ Cleanup(h) = <<>>)
         \/ n # 0 /\ h \in queued /\ Cleanup(h) = ToRelease
  PROVE  Using(h, frame'[h], n, a)
<1> DEFINE g == [frame[h] EXCEPT !.todo = Cleanup(h), !.draft = NoDraft]
<1>0. frame[h] \in Frame
  BY TypedFrame
<1>1. g.command = frame[h].command /\ g.fence = frame[h].fence /\ g.todo = Cleanup(h)
  BY <1>0 DEF Frame
<1>2. Resume(h, g)
  BY DEF Abort
<1> HIDE DEF g
<1>3. Cleanup(h) \in {<<>>, ToRelease}
  BY DEF Cleanup, ToRelease
<1>4. Using(h, g, n, a)
  <2>1. CASE n = 0 /\ (frame[h].command.kind # "acquire-phase" \/ Cleanup(h) = <<>>)
    <3>1. Lacks(g.command.kind, g.todo)
      BY <1>1, <1>3, <2>1 DEF Lacks, Others
    <3> QED BY <2>1, <3>1 DEF Using, Back
  <2>2. CASE n # 0 /\ h \in queued /\ Cleanup(h) = ToRelease
    <3>1. GivesBack(g.command.kind, g.todo, g.fence)
      BY <1>1, <2>2 DEF GivesBack
    <3> QED BY <2>2, <3>1 DEF Using, Back
  <2> QED BY <2>1, <2>2
<1> QED BY <1>2, <1>4, ResumeUsing


\* A call that goes on, or disturbs.
LEMMA GoingUsing ==
  ASSUME TypeOK, NEW h \in Home, BackAt(h), UNCHANGED session,
         VerifyWorkflowAuthority(h) \/ VerifyFence(h) \/ RenewLane(h) \/ WriteManifest(h)
  PROVE  BackAt(h)'
<1> SUFFICES ASSUME ~disturbed'[h] PROVE Using(h, frame'[h], held'[h], reply'[h])
  BY UsingAfter
<1>1. Proceed(h) /\ UNCHANGED disturbed /\ UNCHANGED held /\ UNCHANGED reply
  BY DEF VerifyWorkflowAuthority, VerifyFence, RenewLane, WriteManifest, Disturb, TypeOK
<1>2. frame[h].todo # <<>> /\ Head(frame[h].todo) \in {"workflow", "fence", "write", "renew"}
  BY DEF VerifyWorkflowAuthority, VerifyFence, RenewLane, WriteManifest, At
<1>3. Using(h, frame[h], held[h], reply[h])
  BY <1>1 DEF BackAt
<1>4. Back(frame[h].command.kind, Tail(frame[h].todo), frame[h].fence, held[h], reply[h],
           flow[h].at, h \in worker, h \in queued, h \in pausing)
  BY <1>2, <1>3, BackTail DEF Using
<1> QED BY <1>1, <1>2, <1>4, ProceedUsing

LEMMA HeldLeaseUsing ==
  ASSUME TypeOK, NEW h \in Home, BackAt(h), UNCHANGED session, VerifyHeldLease(h)
  PROVE  BackAt(h)'
<1> SUFFICES ASSUME ~disturbed'[h] PROVE Using(h, frame'[h], held'[h], reply'[h])
  BY UsingAfter
<1>2. held[h] \in Nat /\ frame[h].todo # <<>> /\ Head(frame[h].todo) = "target"
  BY DEF VerifyHeldLease, At, TypeOK
<1>3. CASE HoldsLane(held[h])
  <2>1. /\ held[h] # 0 /\ UNCHANGED <<disturbed, held, reply>>
        /\ Resume(h, [frame[h] EXCEPT !.todo = Tail(@), !.fence = held[h]])
    BY <1>3 DEF VerifyHeldLease, HoldsLane
  <2>2. Using(h, frame[h], held[h], reply[h])
    BY <2>1 DEF BackAt
  <2>3. PICK g \in Frame : /\ Resume(h, g)
                           /\ g.command = frame[h].command /\ g.draft = frame[h].draft
                           /\ g.fence = held[h] /\ g.todo = Tail(frame[h].todo)
    BY <1>2, <2>1, FencedFrame
  <2>4. Using(h, g, held[h], reply[h])
    BY <1>2, <2>1, <2>2, <2>3, BackVerified DEF Using
  <2>5. Using(h, frame'[h], held[h], reply[h])
    BY <2>3, <2>4, ResumeUsing
  <2> QED BY <2>1, <2>5
<1>4. CASE ~HoldsLane(held[h])
  <2>1. Abort(h) /\ held'[h] = 0
    BY <1>4 DEF VerifyHeldLease, TypeOK
  <2>2. Cleanup(h) = <<>>
    BY <1>2, CleanupOf
  <2> QED BY <2>1, <2>2, AbortUsing
<1> QED BY <1>3, <1>4

LEMMA AcquireUsing ==
  ASSUME TypeOK, NEW h \in Home, BackAt(h), UNCHANGED session, AcquireLane(h)
  PROVE  BackAt(h)'
<1> SUFFICES ASSUME ~disturbed'[h] PROVE Using(h, frame'[h], held'[h], reply'[h])
  BY UsingAfter
<1>1. /\ held[h] \in Nat
      /\ frame[h].todo # <<>> /\ Head(frame[h].todo) = "acquire"
  BY DEF AcquireLane, At, TypeOK
<1>2. ~disturbed[h]
  BY DEF AcquireLane, TypeOK
<1>3. /\ held[h] = 0 /\ frame[h].todo = ToAcquire /\ frame[h].command.kind = "acquire-phase"
      /\ h \in queued /\ h \notin pausing /\ flow[h].at \in Asking /\ reply[h] = "ok"
  BY <1>1, <1>2, BackFinds DEF BackAt, Using
<1>4. CASE /\ Proceed(h) /\ held' = [held EXCEPT ![h] = lane.generation + 1]
           /\ UNCHANGED reply
  <2>1. held'[h] # 0
    BY <1>4 DEF TypeOK
  <2>2. Tail(frame[h].todo) = ToVerify
    BY <1>3, TodoTails
  <2>3. Back(frame[h].command.kind, Tail(frame[h].todo), frame[h].fence, held'[h], reply'[h],
             flow[h].at, h \in worker, h \in queued, h \in pausing)
    BY <1>3, <1>4, <2>1, <2>2 DEF Back, Takes
  <2> QED BY <1>1, <1>4, <2>3, ProceedUsing
<1>5. CASE Abort(h) /\ UNCHANGED held
  BY <1>1, <1>3, <1>5, CleanupOf, AbortUsing
<1> QED BY <1>4, <1>5 DEF AcquireLane

LEMMA ReleaseUsing ==
  ASSUME TypeOK, NEW h \in Home, BackAt(h), UNCHANGED session, ReleaseLane(h)
  PROVE  BackAt(h)'
<1> SUFFICES ASSUME ~disturbed'[h] PROVE Using(h, frame'[h], held'[h], reply'[h])
  BY UsingAfter
<1>1. held'[h] = 0 /\ frame[h].todo # <<>> /\ Head(frame[h].todo) = "release"
  BY DEF ReleaseLane, At, TypeOK
<1>2. Proceed(h) /\ ~disturbed[h]
  BY DEF ReleaseLane, Disturb, TypeOK
<1>3. Tail(frame[h].todo) = <<>>
  BY <1>1, <1>2, BackFinds DEF BackAt, Using
<1>4. Back(frame[h].command.kind, Tail(frame[h].todo), frame[h].fence, held'[h], reply'[h],
           flow[h].at, h \in worker, h \in queued, h \in pausing)
  BY <1>1, <1>3 DEF Back, Lacks
<1> QED BY <1>1, <1>2, <1>4, ProceedUsing

LEMMA InspectUsing ==
  ASSUME TypeOK, NEW h \in Home, BackAt(h), UNCHANGED session, InspectLane(h)
  PROVE  BackAt(h)'
<1> SUFFICES ASSUME ~disturbed'[h] PROVE Using(h, frame'[h], held'[h], reply'[h])
  BY UsingAfter
<1>1. ~disturbed[h] /\ frame[h].todo # <<>> /\ Head(frame[h].todo) = "inspect"
  BY DEF InspectLane, At
<1>2. held[h] = 0 /\ held'[h] = 0
  BY <1>1, BackFinds DEF BackAt, Using, InspectLane, TypeOK
<1>3. CASE Abort(h)
  BY <1>1, <1>2, <1>3, CleanupOf, AbortUsing
<1>4. CASE \E b : Resume(h, [frame[h] EXCEPT
               !.command = [kind |-> "record-failure", failureKind |-> "transient",
                            reason |-> LeaseExpired, budget |-> b],
               !.todo = Calls("record-failure")])
  <2>1. PICK b : Resume(h, [frame[h] EXCEPT
               !.command = [kind |-> "record-failure", failureKind |-> "transient",
                            reason |-> LeaseExpired, budget |-> b],
               !.todo = Calls("record-failure")])
    BY <1>4
  <2> DEFINE g == [frame[h] EXCEPT
               !.command = [kind |-> "record-failure", failureKind |-> "transient",
                            reason |-> LeaseExpired, budget |-> b],
               !.todo = Calls("record-failure")]
  <2>2. g.command.kind = "record-failure" /\ g.todo = Calls("record-failure")
    BY TypedFrame DEF Frame
  <2>3. Resume(h, g)
    BY <2>1
  <2> HIDE DEF g
  <2>4. Using(h, g, 0, reply'[h])
    BY <2>2, FirstTodo DEF Using, Back, Lacks, Others
  <2> QED BY <1>2, <2>3, <2>4, ResumeUsing
<1> QED BY <1>3, <1>4 DEF InspectLane

\* What a command that loads its workflow is known to use, and what it leaves.
LEMMA LoadKeeps ==
  ASSUME NEW h \in Home, Load(h)
  PROVE  /\ held' = held /\ disturbed' = disturbed
         /\ frame[h].todo # <<>> /\ Head(frame[h].todo) = "load"
BY DEF Load, LoadToObserve, LoadToAcquire, LoadToRelease, LoadToRecordFailure,
       LoadToRequeue, LoadToMarkMerged, LoadToRecover, AtFor, At

\* A candidate that was loaded without a lease.
LEMMA LoadUsingNone ==
  ASSUME TypeOK, NEW h \in Home, BackAt(h), UNCHANGED session, Load(h), ~disturbed[h],
         held[h] = 0
  PROVE  BackAt(h)'
<1> SUFFICES Using(h, frame'[h], 0, reply'[h])
  BY LoadKeeps, UsingAfter
<1>1. /\ frame[h].todo # <<>> /\ Head(frame[h].todo) = "load"
      /\ Using(h, frame[h], 0, reply[h])
  BY LoadKeeps DEF BackAt
<1>2. CASE LoadToAcquire(h)
  <2>1. /\ frame[h].command.kind = "acquire-phase" /\ frame[h].todo = ToLook /\ frame[h].fence = 0
        /\ Back("acquire-phase", ToAcquire, frame[h].fence, 0, reply[h],
                flow[h].at, h \in worker, h \in queued, h \in pausing)
    BY <1>1, <1>2, BackLoads DEF LoadToAcquire, AtFor, Using
  <2>2. CASE Proceed(h) /\ UNCHANGED reply
    BY <1>1, <2>1, <2>2, TodoTails, ProceedUsing
  <2>3. CASE Abort(h)
    BY <1>1, <2>1, <2>3, CleanupOf, AbortUsing DEF Kind
  <2> QED BY <1>2, <2>2, <2>3 DEF LoadToAcquire
<1>3. CASE ~LoadToAcquire(h)
  <2>1. frame[h].command.kind # "acquire-phase"
    BY <1>3 DEF Load, LoadToObserve, LoadToRelease, LoadToRecordFailure,
       LoadToRequeue, LoadToMarkMerged, LoadToRecover, AtFor
  <2>2. Lacks(frame[h].command.kind, Tail(frame[h].todo))
    BY <1>1, <2>1, BackLoads DEF Using
  <2>3. ASSUME Abort(h) PROVE Using(h, frame'[h], 0, reply'[h])
    BY <2>1, <2>3, AbortUsing
  <2>4. ASSUME Proceed(h) PROVE Using(h, frame'[h], 0, reply'[h])
    <3>1. Back(frame[h].command.kind, Tail(frame[h].todo), frame[h].fence, 0, reply'[h],
               flow[h].at, h \in worker, h \in queued, h \in pausing)
      BY <2>2 DEF Back
    <3> QED BY <1>1, <2>4, <3>1, ProceedUsing
  <2>5. ASSUME NEW d, NEW t, Lacks(frame[h].command.kind, t),
               Resume(h, [frame[h] EXCEPT !.draft = d, !.todo = t])
        PROVE  Using(h, frame'[h], 0, reply'[h])
    <3>1. Back(frame[h].command.kind, t, frame[h].fence, 0, reply'[h],
               flow[h].at, h \in worker, h \in queued, h \in pausing)
      BY <2>5 DEF Back
    <3> QED BY <2>5, <3>1, DecideUsing
  <2>6. ASSUME NEW c, NEW t, Lacks(frame[h].command.kind, t), Decide(h, c, t)
        PROVE  Using(h, frame'[h], 0, reply'[h])
    BY <2>5, <2>6 DEF Decide
  <2>7. /\ Lacks(frame[h].command.kind, ToPersist)
        /\ Lacks(frame[h].command.kind, ToVerifyLast)
    BY <2>1 DEF Lacks, Others
  <2>8. CASE LoadToObserve(h)
    <3>1. Proceed(h) \/ \E c : Decide(h, c, ToVerifyLast) \/ Decide(h, c, ToPersist)
      BY <2>8, JoinedCalls, FirstTodo DEF LoadToObserve
    <3> QED BY <2>4, <2>6, <2>7, <3>1
  <2>9. CASE LoadToRecordFailure(h)
    <3>1. \E c : Decide(h, c, ToPersist)
      BY <2>9, FirstTodo DEF LoadToRecordFailure
    <3> QED BY <2>6, <2>7, <3>1
  <2>10. CASE LoadToRelease(h)
    <3>1. Abort(h) \/ \E d : Resume(h, [frame[h] EXCEPT !.draft = d, !.todo = Tail(@)])
      BY <2>10 DEF LoadToRelease
    <3>2. ASSUME NEW d, Resume(h, [frame[h] EXCEPT !.draft = d, !.todo = Tail(@)])
          PROVE  Using(h, frame'[h], 0, reply'[h])
      BY <2>2, <2>5, <3>2
    <3> QED BY <2>3, <3>1, <3>2
  <2>11. CASE LoadToRequeue(h) \/ LoadToMarkMerged(h) \/ LoadToRecover(h)
    <3>1. Abort(h) \/ Proceed(h) \/ \E c : Decide(h, c, Tail(frame[h].todo))
      BY <2>11 DEF LoadToRequeue, LoadToMarkMerged, LoadToRecover
    <3> QED BY <2>2, <2>3, <2>4, <2>6, <3>1
  <2> QED BY <1>3, <2>8, <2>9, <2>10, <2>11 DEF Load
<1> QED BY <1>2, <1>3

\* A candidate that was loaded by a command that has to give the lane back.
LEMMA LoadUsingSome ==
  ASSUME TypeOK, NEW h \in Home, BackAt(h), UNCHANGED session, Load(h), ~disturbed[h],
         held[h] # 0
  PROVE  BackAt(h)'
<1> SUFFICES Using(h, frame'[h], held[h], reply'[h])
  BY LoadKeeps, UsingAfter
<1> DEFINE k == frame[h].command.kind
<1>1. /\ frame[h].todo # <<>> /\ Head(frame[h].todo) = "load"
      /\ Using(h, frame[h], held[h], reply[h])
  BY LoadKeeps DEF BackAt
<1>0. Back(k, frame[h].todo, frame[h].fence, held[h], reply[h],
           flow[h].at, h \in worker, h \in queued, h \in pausing)
  BY <1>1 DEF Using
<1>2. h \in queued /\ k # "acquire-phase"
  <2>1. h \in queued
    BY <1>0 DEF Back
  <2>2. k # "acquire-phase"
    BY <1>0, <1>1, BackLoads
  <2> QED BY <2>1, <2>2
<1>3. ASSUME NEW t, NEW d, Resume(h, [frame[h] EXCEPT !.draft = d, !.todo = t]),
             GivesBack(k, t, frame[h].fence)
      PROVE  Using(h, frame'[h], held[h], reply'[h])
  <2>1. Back(k, t, frame[h].fence, held[h], reply'[h],
             flow[h].at, h \in worker, h \in queued, h \in pausing)
    BY <1>2, <1>3 DEF Back
  <2> QED BY <1>3, <2>1, DecideUsing
<1>4. CASE k = "record-failure"
  <2>1. \E c : Decide(h, c, ToVerifyLast)
    BY <1>4, JoinedCalls
    DEF Load, LoadToObserve, LoadToAcquire, LoadToRelease, LoadToRecordFailure,
        LoadToRequeue, LoadToMarkMerged, LoadToRecover, AtFor
  <2>2. GivesBack(k, ToVerifyLast, frame[h].fence)
    BY DEF GivesBack
  <2> QED BY <1>3, <2>1, <2>2 DEF Decide
<1>5. CASE k # "record-failure"
  <2>1. /\ k \in {"release-for-pr-checks", "mark-merged"}
        /\ frame[h].todo = ToLookLast /\ frame[h].fence # 0
    BY <1>1, <1>5, BackLoads DEF Using
  <2>2. Tail(frame[h].todo) = ToConfirmLast
    BY <2>1, TodoTails
  <2>3. GivesBack(k, ToConfirmLast, frame[h].fence)
    BY <2>1 DEF GivesBack
  <2>4. Cleanup(h) = ToRelease
    BY <1>1, <2>1 DEF Cleanup, ToRelease
  <2>5. CASE Abort(h)
    BY <1>2, <2>4, <2>5, AbortUsing
  <2>6. CASE LoadToRelease(h) /\ ~Abort(h)
    <3>1. \E d : Resume(h, [frame[h] EXCEPT !.draft = d, !.todo = Tail(@)])
      BY <2>6 DEF LoadToRelease
    <3>2. PICK d : Resume(h, [frame[h] EXCEPT !.draft = d, !.todo = ToConfirmLast])
      BY <2>2, <3>1
    <3> QED BY <1>3, <2>3, <3>2
  <2>7. CASE LoadToMarkMerged(h) /\ ~Abort(h)
    <3>1. \E c : Decide(h, c, ToConfirmLast)
      BY <2>2, <2>7 DEF LoadToMarkMerged
    <3> QED BY <1>3, <2>3, <3>1 DEF Decide
  <2> QED BY <2>1, <2>5, <2>6, <2>7
      DEF Load, LoadToObserve, LoadToAcquire, LoadToRelease, LoadToRecordFailure,
          LoadToRequeue, LoadToMarkMerged, LoadToRecover, AtFor
<1> QED BY <1>4, <1>5

LEMMA LoadUsing ==
  ASSUME TypeOK, NEW h \in Home, BackAt(h), UNCHANGED session, Load(h)
  PROVE  BackAt(h)'
<1>1. CASE disturbed[h]
  BY <1>1, LoadKeeps DEF BackAt
<1> QED BY <1>1, LoadUsingNone, LoadUsingSome

LEMMA ReloadUsing ==
  ASSUME TypeOK, NEW h \in Home, BackAt(h), UNCHANGED session, Reload(h)
  PROVE  BackAt(h)'
<1> SUFFICES ASSUME ~disturbed'[h] PROVE Using(h, frame'[h], held'[h], reply'[h])
  BY UsingAfter
<1>1. /\ held' = held /\ ~disturbed[h]
      /\ frame[h].todo # <<>> /\ Head(frame[h].todo) = "reload"
  BY DEF Reload, At
<1>2. /\ Using(h, frame[h], held[h], reply[h])
      /\ frame[h].command.kind = "acquire-phase" => held[h] # 0 /\ frame[h].fence # 0
      /\ held[h] # 0 => frame[h].command.kind = "acquire-phase" /\ h \in queued
      /\ Back(frame[h].command.kind, Tail(frame[h].todo), frame[h].fence, held[h], reply[h],
              flow[h].at, h \in worker, h \in queued, h \in pausing)
  <2>1. Using(h, frame[h], held[h], reply[h])
    BY <1>1 DEF BackAt
  <2>2. Back(frame[h].command.kind, frame[h].todo, frame[h].fence, held[h], reply[h],
             flow[h].at, h \in worker, h \in queued, h \in pausing)
    BY <2>1 DEF Using
  <2>3. held[h] # 0 => h \in queued
    BY <2>2 DEF Back
  <2> QED BY <1>1, <2>1, <2>2, <2>3, BackReloads
<1>3. CASE Abort(h)
  <2>1. held[h] # 0 => Cleanup(h) = ToRelease
    BY <1>1, <1>2, CleanupOf
  <2> QED BY <1>1, <1>2, <1>3, <2>1, AbortUsing
<1>4. CASE Decide(h, Plain("refreshing"), Tail(frame[h].todo)) /\ UNCHANGED reply
  BY <1>1, <1>2, <1>4, DecideUsing DEF Decide
<1> QED BY <1>3, <1>4 DEF Reload

LEMMA RunUsing ==
  ASSUME TypeOK, NEW h \in Home, BackAt(h), UNCHANGED session, Run(h)
  PROVE  BackAt(h)'
<1>1. CASE CallThrows(h) \/ AnswerLost(h)
  BY <1>1 DEF CallThrows, AnswerLost, Disturb, TypeOK, BackAt
<1> QED BY <1>1, GoingUsing, HeldLeaseUsing, AcquireUsing, ReleaseUsing, InspectUsing,
           LoadUsing, ReloadUsing DEF Run

\* A call of one home leaves the answer another home read.
LEMMA OthersReply ==
  ASSUME TypeOK, NEW h \in Home, NEW k \in Home, k # h, Run(h)
  PROVE  reply'[k] = reply[k]
<1>1. UNCHANGED reply \/ Abort(h) \/ reply' = [reply EXCEPT ![h] = "failed"]
  <2>1. CASE VerifyWorkflowAuthority(h) \/ VerifyHeldLease(h) \/ VerifyFence(h) \/ AcquireLane(h)
    BY <2>1 DEF VerifyWorkflowAuthority, VerifyHeldLease, VerifyFence, AcquireLane
  <2>2. CASE ReleaseLane(h) \/ RenewLane(h) \/ InspectLane(h)
    BY <2>2 DEF ReleaseLane, RenewLane, InspectLane
  <2>3. CASE Load(h)
    BY <2>3 DEF Load, LoadToObserve, LoadToAcquire, LoadToRelease, LoadToRecordFailure,
                LoadToRequeue, LoadToMarkMerged, LoadToRecover
  <2>4. CASE Reload(h) \/ WriteManifest(h) \/ CallThrows(h) \/ AnswerLost(h)
    BY <2>4 DEF Reload, WriteManifest, CallThrows, AnswerLost
  <2> QED BY <2>1, <2>2, <2>3, <2>4 DEF Run
<1> QED BY <1>1 DEF Abort, TypeOK

(***************************************************************************)
(* The steps of a flow and its lane                                        *)
(***************************************************************************)

\* The other homes take no part in a step of this one.
Apartly(h) ==
  \A k \in Home \ {h} :
    /\ frame'[k] = frame[k] /\ held'[k] = held[k] /\ reply'[k] = reply[k]
    /\ disturbed'[k] = disturbed[k] /\ flow'[k] = flow[k]
    /\ k \in worker' <=> k \in worker
    /\ k \in queued' <=> k \in queued
    /\ k \in pausing' <=> k \in pausing

LEMMA BackOfAll ==
  ASSUME BackInv, NEW h \in Home, Apartly(h), BackAt(h)'
  PROVE  BackInv'
<1> SUFFICES ASSUME NEW k \in Home \ {h} PROVE BackAt(k)'
  BY DEF BackInv
<1>1. BackAt(k)
  BY DEF BackInv
<1> QED BY <1>1 DEF Apartly, BackAt, Using

\* Between commands.
Rests(h) ==
  held[h] = 0 \/ (h \in queued /\ h \notin pausing /\ Keeps(flow[h].at, h \in worker, reply[h]))

\* A frame without calls leaves its home at rest.
LEMMA UsingIdle ==
  ASSUME NEW h \in Home, NEW f, f.todo = <<>>, NEW n, NEW a
  PROVE  Using(h, f, n, a)
           <=> n = 0 \/ (h \in queued /\ h \notin pausing /\ Keeps(flow[h].at, h \in worker, a))
<1>1. \A t \in Todos : t # <<>>
  BY TodoLeft
<1>2. /\ ~GivesBack(f.command.kind, f.todo, f.fence)
      /\ ~Takes(f.command.kind, f.todo, f.fence) /\ ~Renews(f.command.kind, f.todo)
      /\ ~Asks(f.command.kind, f.todo, f.fence)
  BY <1>1 DEF GivesBack, Takes, Renews, Asks, Todos
<1>3. Lacks(f.command.kind, f.todo)
  BY DEF Lacks
<1> QED BY <1>2, <1>3 DEF Using, Back

LEMMA RestNow ==
  ASSUME NEW h \in Home, BackAt(h), frame[h] = Idle
  PROVE  ~disturbed[h] => Rests(h)
BY IdleFrame, UsingIdle DEF BackAt, Rests

LEMMA RestAfter ==
  ASSUME NEW h \in Home, frame'[h] = Idle, ~disturbed'[h] => Rests(h)'
  PROVE  BackAt(h)'
<1>1. frame'[h].todo = <<>>
  BY IdleFrame
<1>2. /\ ~GivesBack(frame'[h].command.kind, frame'[h].todo, frame'[h].fence)
      /\ ~Takes(frame'[h].command.kind, frame'[h].todo, frame'[h].fence)
      /\ ~Renews(frame'[h].command.kind, frame'[h].todo)
      /\ Lacks(frame'[h].command.kind, frame'[h].todo)
  BY <1>1, TodoLeft DEF GivesBack, Takes, Renews, Lacks, Todos
<1> QED BY <1>1, <1>2 DEF BackAt, Using, Back, Rests

LEMMA Gives ==
  ASSUME TypeOK, NEW h \in Home, NEW c, Give(h, c)
  PROVE  /\ frame[h] = Idle
         /\ frame'[h].command = c /\ frame'[h].todo = Calls(c.kind) /\ frame'[h].fence = 0
         /\ reply'[h] = "ok"
         /\ \A k \in Home \ {h} : frame'[k] = frame[k] /\ reply'[k] = reply[k]
<1> DEFINE y == [Idle EXCEPT !.command = c, !.todo = Calls(c.kind)]
<1>1. y.command = c /\ y.todo = Calls(c.kind) /\ y.fence = 0
  BY DEF Idle
<1>2. frame' = [frame EXCEPT ![h] = y]
  BY DEF Give
<1> HIDE DEF y
<1> QED BY <1>1, <1>2 DEF Give, TypeOK

\* A command that gives the lane back.
LEMMA GivesToReturn ==
  ASSUME TypeOK, NEW h \in Home, NEW c, Give(h, c),
         c.kind \in {"record-failure", "release-held-target-lease",
                     "release-for-pr-checks", "mark-merged"},
         ~disturbed'[h] => held'[h] = 0 \/ h \in queued'
  PROVE  BackAt(h)'
<1> SUFFICES ASSUME ~disturbed'[h]
             PROVE  Back(c.kind, Calls(c.kind), 0, held'[h], reply'[h], flow'[h].at,
                         h \in worker', h \in queued', h \in pausing')
  BY Gives DEF BackAt, Using
<1>1. c.kind # "acquire-phase" /\ Calls(c.kind) \in {ToFinish, ToRecord, ToGiveUp}
  BY FirstTodo
<1>2. Lacks(c.kind, Calls(c.kind))
  BY <1>1 DEF Lacks, Others
<1>3. GivesBack(c.kind, Calls(c.kind), 0)
  BY FirstTodo DEF GivesBack
<1> QED BY <1>2, <1>3 DEF Back

\* The lane is renewed, and kept.
LEMMA GivesToRenew ==
  ASSUME TypeOK, NEW h \in Home, Give(h, RenewHeld),
         ~disturbed'[h] => \/ held'[h] = 0
                           \/ h \in queued' /\ h \notin pausing' /\ flow'[h].at \in {"git", "verify"}
  PROVE  BackAt(h)'
<1> DEFINE k == "renew-held-target-lease"
<1>0. RenewHeld.kind = k
  BY DEF RenewHeld
<1> SUFFICES ASSUME ~disturbed'[h]
             PROVE  Back(k, Calls(k), 0, held'[h], reply'[h], flow'[h].at,
                         h \in worker', h \in queued', h \in pausing')
  BY <1>0, Gives DEF BackAt, Using
<1>1. Lacks(k, Calls(k)) /\ Renews(k, Calls(k))
  BY FirstTodo DEF Lacks, Others, Renews
<1> QED BY <1>1 DEF Back

\* The lane is asked for by a home without one.
LEMMA GivesToAsk ==
  ASSUME TypeOK, NEW h \in Home, NEW phase, Give(h, Acquire(phase)),
         ~disturbed'[h] => /\ held'[h] = 0 /\ h \in queued' /\ h \notin pausing'
                           /\ flow'[h].at \in Asking
  PROVE  BackAt(h)'
<1>0. Acquire(phase).kind = "acquire-phase"
  BY DEF Acquire
<1> SUFFICES ASSUME ~disturbed'[h]
             PROVE  Back("acquire-phase", Calls("acquire-phase"), 0, held'[h], "ok", flow'[h].at,
                         h \in worker', h \in queued', h \in pausing')
  BY <1>0, Gives DEF BackAt, Using
<1>1. Asks("acquire-phase", Calls("acquire-phase"), 0)
  BY FirstTodo DEF Asks
<1> QED BY <1>1 DEF Back

\* What is known of the home that takes a step.
LEMMA BackFacts ==
  ASSUME DeliveryInv, BackInv, NEW h \in Home
  PROVE  /\ TypeOK /\ SessionType /\ BackAt(h)
         /\ frame[h] = Idle /\ ~disturbed[h] => Rests(h)
         /\ held \in [Home -> Nat] /\ disturbed \in [Home -> BOOLEAN]
         /\ flow \in [Home -> Flow] /\ flow[h] \in Flow
         /\ worker \in SUBSET Home /\ queued \in SUBSET Home /\ pausing \in SUBSET Home
<1>1. TypeOK /\ SessionType /\ flow[h] \in Flow
  BY HomeFacts
<1>2. BackAt(h)
  BY DEF BackInv
<1> QED BY <1>1, <1>2, RestNow DEF TypeOK, SessionType

LEMMA EnsureQueueHeld ==
  ASSUME DeliveryInv, NEW h \in Home, EnsureQueue(h)
  PROVE  /\ h \in queued'
         /\ held'[h] = IF h \in queued THEN held[h] ELSE 0
         /\ \A k \in Home \ {h} : held'[k] = held[k] /\ (k \in queued' <=> k \in queued)
<1>1. TypeOK /\ SessionType
  BY HomeFacts
<1> QED BY <1>1 DEF EnsureQueue, TypeOK, SessionType

LEMMA StartRefreshBack ==
  ASSUME DeliveryInv, BackInv, NEW h \in Home, StartRefresh(h)
  PROVE  BackInv'
<1>1. /\ TypeOK /\ SessionType /\ disturbed' = disturbed /\ worker' = worker /\ pausing' = pausing
      /\ flow[h] \in Flow /\ flow \in [Home -> Flow]
      /\ In(h, "none") /\ Free(h) /\ h \notin worker /\ EnsureQueue(h)
  BY BackFacts DEF StartRefresh
<1>2. ~disturbed[h] => held[h] = 0
  BY <1>1, BackFacts DEF Rests, Keeps, Keeping, Asking, In, Free
<1>3. ~disturbed[h] => held'[h] = 0
  BY <1>1, <1>2, EnsureQueueHeld
<1>4. Apartly(h)
  <2>1. Go(h, "workspace") \/ Go(h, "lane")
    BY DEF StartRefresh
  <2>2. UNCHANGED <<frame, reply>> \/ Give(h, Acquire("refresh"))
    BY DEF StartRefresh
  <2>3. \A k \in Home \ {h} : flow'[k] = flow[k]
    BY <1>1, <2>1 DEF Go
  <2>4. \A k \in Home \ {h} : frame'[k] = frame[k] /\ reply'[k] = reply[k]
    BY <1>1, <2>2, Gives
  <2> QED BY <1>1, <2>3, <2>4, EnsureQueueHeld DEF Apartly
<1>5. BackAt(h)'
  <2>1. CASE held'[h] # 0
    BY <1>1, <1>3, <2>1 DEF BackAt
  <2>2. CASE held'[h] = 0
    <3>1. Go(h, "lane") /\ Give(h, Acquire("refresh"))
      BY <2>2 DEF StartRefresh
    <3>2. flow'[h].at \in Asking
      BY <1>1, <3>1 DEF Go, Flow, Asking
    <3>3. h \in queued' /\ h \notin pausing'
      BY <1>1, EnsureQueueHeld DEF Free
    <3> QED BY <1>1, <2>2, <3>1, <3>2, <3>3, GivesToAsk
  <2> QED BY <2>1, <2>2
<1> QED BY <1>4, <1>5, BackOfAll

\* A flow goes on without a command of the queue.
LEMMA MovesBack ==
  ASSUME NEW h \in Home, BackAt(h),
         frame'[h] = frame[h], held'[h] = held[h], reply'[h] = reply[h],
         disturbed'[h] = disturbed[h], queued' = queued, pausing' = pausing,
         frame[h] = Idle \/ flow[h].at \notin Asking \cup {"git", "verify"},
         Keeps(flow[h].at, h \in worker, reply[h])
           => Keeps(flow'[h].at, h \in worker', reply[h])
  PROVE  BackAt(h)'
<1>1. CASE frame[h] = Idle
  <2>1. ~disturbed[h] => Rests(h)
    BY <1>1, RestNow
  <2> QED BY <1>1, <2>1, RestAfter DEF Rests
<1>2. CASE flow[h].at \notin Asking \cup {"git", "verify"}
  BY <1>2 DEF BackAt, Using, Back
<1> QED BY <1>1, <1>2


LEMMA WhereFlows ==
  ASSUME flow \in [Home -> Flow], NEW h \in Home
  PROVE  /\ Return(h) => flow'[h].at = "none"
         /\ \A at : Go(h, at) => flow'[h].at = at
         /\ \A kind : Fail(h, kind) => flow'[h].at = "fail"
         /\ Return(h) \/ (\E at : Go(h, at)) \/ (\E kind : Fail(h, kind))
              => \A k \in Home \ {h} : flow'[k] = flow[k]
<1>0. flow[h] \in Flow
  OBVIOUS
<1>1. Return(h) => flow'[h].at = "none" /\ \A k \in Home \ {h} : flow'[k] = flow[k]
  BY DEF Return, NoFlow
<1>2. ASSUME NEW at, Go(h, at) PROVE flow'[h].at = at /\ \A k \in Home \ {h} : flow'[k] = flow[k]
  BY <1>0, <1>2 DEF Go, Flow
<1>3. ASSUME NEW kind, Fail(h, kind)
      PROVE  flow'[h].at = "fail" /\ \A k \in Home \ {h} : flow'[k] = flow[k]
  <2> DEFINE y == [NoFlow EXCEPT !.at = "fail", !.failure = kind]
  <2>1. y.at = "fail" /\ flow' = [flow EXCEPT ![h] = y]
    BY <1>3 DEF Fail, NoFlow
  <2> HIDE DEF y
  <2> QED BY <2>1
<1> QED BY <1>1, <1>2, <1>3

\* The refresh, where it makes no call of the queue.
LEMMA QuietRefreshBack ==
  ASSUME DeliveryInv, BackInv, NEW h \in Home, Still,
         \/ MergeTarget(h) \/ LaunchWorker(h) \/ WorkerCompletes(h) \/ WorkerFails(h)
         \/ VerifyLocally(h) \/ PushIntegration(h)
  PROVE  BackInv'
<1>1. BackAt(h) /\ SessionType /\ flow \in [Home -> Flow] /\ flow[h] \in Flow /\ TypeOK
      /\ worker \in SUBSET Home
  BY BackFacts
<1>2. /\ frame' = frame /\ held' = held /\ reply' = reply /\ disturbed' = disturbed
      /\ queued' = queued /\ pausing' = pausing
  BY DEF Still, MergeTarget, LaunchWorker, WorkerCompletes, WorkerFails, VerifyLocally,
         PushIntegration, NoQueueStep
<1>3. CASE MergeTarget(h)
  <2>1. frame[h] = Idle /\ flow[h].at = "git" /\ worker' = worker
    BY <1>3 DEF MergeTarget, In
  <2>2. flow'[h].at \in Keeping /\ \A k \in Home \ {h} : flow'[k] = flow[k]
    <3>1. CASE Fail(h, "transient")
      BY <1>1, <3>1, WhereFlows DEF Keeping
    <3>2. CASE ~Fail(h, "transient")
      <4>1. PICK at \in {"finish", "launch"} :
              flow' = [flow EXCEPT ![h].at = at, ![h].target = target.sha]
        BY <1>3, <3>2 DEF MergeTarget
      <4> QED BY <1>1, <4>1 DEF Flow, Keeping
    <3> QED BY <3>1, <3>2
  <2>3. BackAt(h)'
    BY <1>1, <1>2, <2>1, <2>2, MovesBack DEF Keeps
  <2> QED BY <1>2, <2>1, <2>2, <2>3, BackOfAll DEF Apartly
<1>4. CASE LaunchWorker(h)
  <2>1. /\ flow[h].at = "launch"
        /\ \/ Return(h) /\ worker' = worker \cup {h}
           \/ worker' = worker /\ \E kind : Fail(h, kind)
    BY <1>4 DEF LaunchWorker, In
  <2>2. /\ flow'[h].at \in Keeping \/ (flow'[h].at = "none" /\ h \in worker')
        /\ \A k \in Home \ {h} : flow'[k] = flow[k] /\ (k \in worker' <=> k \in worker)
    BY <1>1, <2>1, WhereFlows DEF Keeping
  <2>3. BackAt(h)'
    BY <1>1, <1>2, <2>1, <2>2, MovesBack DEF Keeps, Asking
  <2> QED BY <1>2, <2>2, <2>3, BackOfAll DEF Apartly
<1>5. CASE WorkerCompletes(h) \/ WorkerFails(h)
  <2>1. flow[h].at = "none" /\ worker' = worker \ {h}
    BY <1>5 DEF WorkerCompletes, WorkerFails, In
  <2>2. flow'[h].at \in Keeping /\ \A k \in Home \ {h} : flow'[k] = flow[k]
    <3>1. CASE WorkerFails(h)
      BY <1>1, <3>1, WhereFlows DEF WorkerFails, Keeping
    <3>2. CASE WorkerCompletes(h)
      BY <1>1, <3>2 DEF WorkerCompletes, Flow, Keeping
    <3> QED BY <1>5, <3>1, <3>2
  <2>3. BackAt(h)'
    BY <1>1, <1>2, <2>1, <2>2, MovesBack DEF Keeps, Asking
  <2> QED BY <1>2, <2>1, <2>2, <2>3, BackOfAll DEF Apartly
<1>6. CASE VerifyLocally(h)
  <2>1. frame[h] = Idle /\ worker' = worker
        /\ (Go(h, "push") \/ Fail(h, "deterministic"))
    BY <1>6 DEF VerifyLocally
  <2>2. flow'[h].at \in Keeping /\ \A k \in Home \ {h} : flow'[k] = flow[k]
    BY <1>1, <2>1, WhereFlows DEF Keeping
  <2>3. BackAt(h)'
    BY <1>1, <1>2, <2>1, <2>2, MovesBack DEF Keeps
  <2> QED BY <1>2, <2>1, <2>2, <2>3, BackOfAll DEF Apartly
<1>7. CASE PushIntegration(h)
  <2>1. flow[h].at = "push" /\ worker' = worker
        /\ (Go(h, "release") \/ Fail(h, "transient"))
    BY <1>7 DEF PushIntegration, In
  <2>2. flow'[h].at \in Keeping /\ \A k \in Home \ {h} : flow'[k] = flow[k]
    BY <1>1, <2>1, WhereFlows DEF Keeping
  <2>3. BackAt(h)'
    BY <1>1, <1>2, <2>1, <2>2, MovesBack DEF Keeps, Asking
  <2> QED BY <1>2, <2>1, <2>2, <2>3, BackOfAll DEF Apartly
<1> QED BY <1>3, <1>4, <1>5, <1>6, <1>7

\* The merge, where it makes no call of the queue.
LEMMA QuietMergeBack ==
  ASSUME DeliveryInv, BackInv, NEW h \in Home, Still,
         AfterMergeLane(h) \/ MergePullRequest(h) \/ WriteMergedStage(h)
  PROVE  BackInv'
<1>1. BackAt(h) /\ SessionType /\ flow \in [Home -> Flow] /\ flow[h] \in Flow /\ TypeOK
      /\ (frame[h] = Idle /\ ~disturbed[h] => Rests(h))
  BY BackFacts
<1>2. /\ frame' = frame /\ held' = held /\ reply' = reply /\ disturbed' = disturbed
      /\ queued' = queued /\ pausing' = pausing /\ worker' = worker
  BY DEF Still, AfterMergeLane, MergePullRequest, WriteMergedStage, NoQueueStep
<1>3. CASE AfterMergeLane(h)
  <2>1. /\ frame[h] = Idle /\ flow[h].at = "merge lane"
        /\ IF reply[h] = "ok" THEN Go(h, "observe") ELSE Return(h)
    BY <1>3 DEF AfterMergeLane, In, Free
  <2>2. /\ reply[h] = "ok" => flow'[h].at \in Keeping
        /\ \A k \in Home \ {h} : flow'[k] = flow[k]
    BY <1>1, <2>1, WhereFlows DEF Keeping
  <2>3. Keeps(flow[h].at, h \in worker, reply[h]) => Keeps(flow'[h].at, h \in worker', reply[h])
    BY <2>1, <2>2 DEF Keeps, Keeping, Asking
  <2>4. BackAt(h)'
    BY <1>1, <1>2, <2>1, <2>3, MovesBack
  <2> QED BY <1>2, <2>2, <2>4, BackOfAll DEF Apartly
<1>4. CASE MergePullRequest(h)
  <2>1. flow[h].at = "merge" /\ (Go(h, "mark") \/ Go(h, "refused"))
    BY <1>4 DEF MergePullRequest, In
  <2>2. flow'[h].at \in Keeping /\ \A k \in Home \ {h} : flow'[k] = flow[k]
    BY <1>1, <2>1, WhereFlows DEF Keeping
  <2>3. BackAt(h)'
    BY <1>1, <1>2, <2>1, <2>2, MovesBack DEF Keeps, Asking
  <2> QED BY <1>2, <2>2, <2>3, BackOfAll DEF Apartly
<1>5. CASE WriteMergedStage(h)
  <2>1. frame[h] = Idle /\ flow[h].at = "marked" /\ Return(h)
    BY <1>5 DEF WriteMergedStage, In, Free
  <2>2. ~Keeps(flow[h].at, h \in worker, reply[h])
    BY <2>1 DEF Keeps, Keeping, Asking
  <2>3. BackAt(h)'
    BY <1>1, <1>2, <2>1, <2>2, MovesBack
  <2> QED BY <1>1, <1>2, <2>1, <2>3, WhereFlows, BackOfAll DEF Apartly
<1> QED BY <1>3, <1>4, <1>5

\* A refresh that is over forgets its queue; it has no lane then.
LEMMA ClearedBack ==
  ASSUME DeliveryInv, BackInv, NEW h \in Home, frame' = frame, held' = held, reply' = reply,
         disturbed' = disturbed, frame[h] = Idle, Return(h), Clear(h), worker' = worker,
         pausing' = pausing, ~disturbed[h] => held[h] = 0
  PROVE  BackInv'
<1>1. flow \in [Home -> Flow] /\ queued \in SUBSET Home
  BY BackFacts
<1>2. BackAt(h)'
  BY RestAfter DEF Rests
<1>3. Apartly(h)
  BY <1>1, WhereFlows DEF Apartly, Clear
<1> QED BY <1>2, <1>3, BackOfAll

\* Where a home at rest has no lane.
LEMMA NoLaneAt ==
  ASSUME DeliveryInv, BackInv, NEW h \in Home, frame[h] = Idle,
         ~Keeps(flow[h].at, h \in worker, reply[h])
  PROVE  ~disturbed[h] => held[h] = 0
BY BackFacts DEF Rests

LEMMA ReturnsBack ==
  ASSUME DeliveryInv, BackInv, NEW h \in Home, Still, AfterLane(h) \/ AfterReleaseHeld(h)
  PROVE  BackInv'
<1>1. BackAt(h) /\ flow \in [Home -> Flow] /\ TypeOK
  BY BackFacts
<1>2. /\ frame' = frame /\ held' = held /\ reply' = reply /\ disturbed' = disturbed
      /\ frame[h] = Idle /\ pausing' = pausing /\ worker' = worker
  BY DEF Still, AfterLane, AfterReleaseHeld, NoQueueStep, Free
<1>3. CASE AfterLane(h) /\ reply[h] = "ok"
  <2>1. flow[h].at = "lane" /\ Go(h, "workspace") /\ queued' = queued
    BY <1>3 DEF AfterLane, In
  <2>2. flow'[h].at \in Keeping /\ \A k \in Home \ {h} : flow'[k] = flow[k]
    BY <1>1, <2>1, WhereFlows DEF Keeping
  <2>3. BackAt(h)'
    BY <1>1, <1>2, <2>1, <2>2, MovesBack DEF Keeps
  <2> QED BY <1>2, <2>1, <2>2, <2>3, BackOfAll DEF Apartly
<1>4. CASE AfterLane(h) /\ reply[h] # "ok"
  <2>1. flow[h].at = "lane" /\ Return(h) /\ Clear(h)
    BY <1>4 DEF AfterLane, In
  <2>2. ~Keeps(flow[h].at, h \in worker, reply[h])
    BY <1>4, <2>1 DEF Keeps, Keeping, Asking
  <2> QED BY <1>2, <2>1, <2>2, NoLaneAt, ClearedBack
<1>5. CASE AfterReleaseHeld(h)
  <2>1. flow[h].at = "clear" /\ Return(h) /\ Clear(h)
    BY <1>5 DEF AfterReleaseHeld, In
  <2>2. ~Keeps(flow[h].at, h \in worker, reply[h])
    BY <2>1 DEF Keeps, Keeping, Asking
  <2> QED BY <1>2, <2>1, <2>2, NoLaneAt, ClearedBack
<1> QED BY <1>3, <1>4, <1>5

\* A command that gives the lane back is given.
LEMMA LeavesBack ==
  ASSUME DeliveryInv, BackInv, NEW h \in Home, NEW c, Give(h, c),
         c.kind \in {"record-failure", "release-held-target-lease",
                     "release-for-pr-checks", "mark-merged"},
         disturbed' = disturbed, worker' = worker, queued' = queued, pausing' = pausing,
         held' = held,
         Return(h) \/ (\E at : Go(h, at)) \/ (\E kind : Fail(h, kind))
  PROVE  BackInv'
<1>1. flow \in [Home -> Flow] /\ TypeOK /\ (frame[h] = Idle /\ ~disturbed[h] => Rests(h))
  BY BackFacts
<1>2. ~disturbed[h] => held[h] = 0 \/ h \in queued
  BY <1>1, Gives DEF Rests
<1>3. BackAt(h)'
  BY <1>1, <1>2, GivesToReturn
<1>4. Apartly(h)
  <2>1. \A k \in Home \ {h} : flow'[k] = flow[k]
    BY <1>1, WhereFlows
  <2>2. \A k \in Home \ {h} : frame'[k] = frame[k] /\ reply'[k] = reply[k]
    BY <1>1, Gives
  <2> QED BY <2>1, <2>2 DEF Apartly
<1> QED BY <1>3, <1>4, BackOfAll

LEMMA CommandKinds ==
  /\ \A kind, reason : Record(kind, reason).kind = "record-failure"
  /\ ReleaseHeld.kind = "release-held-target-lease"
  /\ \A freshness, admit : ForPrChecks(freshness, admit).kind = "release-for-pr-checks"
  /\ Merged.kind = "mark-merged"
BY DEF Record, ReleaseHeld, ForPrChecks, Merged

LEMMA GivingMergeBack ==
  ASSUME DeliveryInv, BackInv, NEW h \in Home, Still,
         Observe(h) \/ Evaluate(h) \/ AfterRefusal(h) \/ MarkMerged(h)
  PROVE  BackInv'
<1>1. BackAt(h) /\ flow \in [Home -> Flow] /\ flow[h] \in Flow
  BY BackFacts
<1>2. /\ held' = held /\ disturbed' = disturbed
      /\ queued' = queued /\ pausing' = pausing /\ worker' = worker
  BY DEF Still, Observe, Evaluate, AfterRefusal, MarkMerged
<1>3. CASE Observe(h) /\ UNCHANGED <<frame, reply>>
           /\ flow' = [flow EXCEPT ![h].at = "evaluate", ![h].base = target.sha,
                                   ![h].head = head[WorkflowOf[h]]]
  <2>1. frame[h] = Idle
    BY <1>3 DEF Observe, Free
  <2>2. flow'[h].at \in Keeping /\ \A k \in Home \ {h} : flow'[k] = flow[k]
    BY <1>1, <1>3 DEF Flow, Keeping
  <2>3. BackAt(h)'
    BY <1>1, <1>2, <1>3, <2>1, <2>2, MovesBack DEF Keeps
  <2> QED BY <1>2, <1>3, <2>2, <2>3, BackOfAll DEF Apartly
<1>4. CASE Evaluate(h) /\ UNCHANGED <<frame, reply>> /\ Go(h, "merge")
  <2>1. frame[h] = Idle
    BY <1>4 DEF Evaluate, Free
  <2>2. flow'[h].at \in Keeping /\ \A k \in Home \ {h} : flow'[k] = flow[k]
    BY <1>1, <1>4, WhereFlows DEF Keeping
  <2>3. BackAt(h)'
    BY <1>1, <1>2, <1>4, <2>1, <2>2, MovesBack DEF Keeps
  <2> QED BY <1>2, <1>4, <2>2, <2>3, BackOfAll DEF Apartly
<1>5. CASE Observe(h) /\ Return(h) /\ Give(h, Record("transient", "merge"))
  BY <1>2, <1>5, LeavesBack, CommandKinds
<1>6. CASE Evaluate(h) /\ Return(h) /\
           \/ Give(h, Record("deterministic", "stale-target-sha"))
           \/ Give(h, ForPrChecks(NoFreshness, FALSE))
           \/ Give(h, Record("deterministic", "merge"))
  BY <1>2, <1>6, LeavesBack, CommandKinds
<1>7. CASE AfterRefusal(h)
  BY <1>2, <1>7, LeavesBack, CommandKinds DEF AfterRefusal
<1>8. CASE MarkMerged(h)
  BY <1>2, <1>8, LeavesBack, CommandKinds DEF MarkMerged
<1>9. Observe(h) => \/ UNCHANGED <<frame, reply>>
                       /\ flow' = [flow EXCEPT ![h].at = "evaluate", ![h].base = target.sha,
                                               ![h].head = head[WorkflowOf[h]]]
                    \/ Return(h) /\ Give(h, Record("transient", "merge"))
  BY DEF Observe
<1>10. Evaluate(h) => \/ UNCHANGED <<frame, reply>> /\ Go(h, "merge")
                      \/ /\ Return(h)
                         /\ \/ Give(h, Record("deterministic", "stale-target-sha"))
                            \/ Give(h, ForPrChecks(NoFreshness, FALSE))
                            \/ Give(h, Record("deterministic", "merge"))
  BY DEF Evaluate
<1> QED BY <1>3, <1>4, <1>5, <1>6, <1>7, <1>8, <1>9, <1>10

LEMMA GivingRefreshBack ==
  ASSUME DeliveryInv, BackInv, NEW h \in Home, Still,
         ReleaseForPrChecks(h) \/ AfterRelease(h) \/ AfterRecord(h)
  PROVE  BackInv'
<1>1. BackAt(h) /\ flow \in [Home -> Flow] /\ flow[h] \in Flow
  BY BackFacts
<1>2. /\ held' = held /\ disturbed' = disturbed /\ pausing' = pausing /\ worker' = worker
      /\ frame[h] = Idle
  BY DEF Still, ReleaseForPrChecks, AfterRelease, AfterRecord, Free
<1>3. CASE ReleaseForPrChecks(h)
  <2>1. queued' = queued
    BY <1>3 DEF ReleaseForPrChecks
  <2>2. CASE Go(h, "released") /\ \E f, admit : Give(h, ForPrChecks(f, admit))
    BY <1>2, <2>1, <2>2, LeavesBack, CommandKinds
  <2>3. CASE Fail(h, "transient") /\ UNCHANGED <<frame, reply>>
    <3>1. flow'[h].at \in Keeping /\ \A k \in Home \ {h} : flow'[k] = flow[k]
      BY <1>1, <2>3, WhereFlows DEF Keeping
    <3>2. BackAt(h)'
      BY <1>1, <1>2, <2>1, <2>3, <3>1, MovesBack DEF Keeps
    <3> QED BY <1>2, <2>1, <2>3, <3>1, <3>2, BackOfAll DEF Apartly
  <2> QED BY <1>3, <2>2, <2>3 DEF ReleaseForPrChecks
<1>4. CASE AfterRelease(h)
  <2>1. flow[h].at = "released"
    BY <1>4 DEF AfterRelease, In
  <2>2. ~Keeps(flow[h].at, h \in worker, reply[h])
    BY <2>1 DEF Keeps, Keeping, Asking
  <2>3. CASE Return(h) /\ Clear(h) /\ UNCHANGED <<frame, reply>>
    BY <1>2, <2>2, <2>3, NoLaneAt, ClearedBack
  <2>4. CASE Fail(h, "transient") /\ Give(h, ReleaseHeld) /\ queued' = queued
    BY <1>2, <2>4, LeavesBack, CommandKinds
  <2> QED BY <1>4, <2>3, <2>4 DEF AfterRelease
<1>5. CASE AfterRecord(h)
  <2>1. flow[h].at = "recorded"
    BY <1>5 DEF AfterRecord, In
  <2>2. ~Keeps(flow[h].at, h \in worker, reply[h])
    BY <2>1 DEF Keeps, Keeping, Asking
  <2>3. CASE Return(h) /\ Clear(h) /\ UNCHANGED <<frame, reply>>
    BY <1>2, <2>2, <2>3, NoLaneAt, ClearedBack
  <2>4. CASE Go(h, "clear") /\ Give(h, ReleaseHeld) /\ queued' = queued
    BY <1>2, <2>4, LeavesBack, CommandKinds
  <2> QED BY <1>5, <2>3, <2>4 DEF AfterRecord
<1> QED BY <1>3, <1>4, <1>5

LEMMA RetryConflictBack ==
  ASSUME DeliveryInv, BackInv, NEW h \in Home, RetryConflict(h)
  PROVE  BackInv'
<1>1. BackAt(h) /\ flow \in [Home -> Flow] /\ flow[h] \in Flow
  BY BackFacts
<1>2. /\ frame' = frame /\ held' = held /\ reply' = reply /\ disturbed' = disturbed
      /\ queued' = queued /\ pausing' = pausing /\ worker' = worker /\ frame[h] = Idle
      /\ flow' = [flow EXCEPT ![h].at = "launch", ![h].target = pending[h].target]
  BY DEF RetryConflict, NoQueueStep, Free
<1>3. flow'[h].at \in Keeping /\ \A k \in Home \ {h} : flow'[k] = flow[k]
  BY <1>1, <1>2 DEF Flow, Keeping
<1>4. BackAt(h)'
  BY <1>1, <1>2, <1>3, MovesBack DEF Keeps
<1> QED BY <1>2, <1>3, <1>4, BackOfAll DEF Apartly

LEMMA StartMergeBack ==
  ASSUME DeliveryInv, BackInv, NEW h \in Home, StartMerge(h)
  PROVE  BackInv'
<1>1. /\ TypeOK /\ SessionType /\ disturbed' = disturbed /\ worker' = worker /\ pausing' = pausing
      /\ flow[h] \in Flow /\ flow \in [Home -> Flow]
      /\ In(h, "none") /\ Free(h) /\ h \notin worker /\ EnsureQueue(h)
  BY BackFacts DEF StartMerge
<1>2. ~disturbed[h] => held[h] = 0
  BY <1>1, BackFacts DEF Rests, Keeps, Keeping, Asking, In, Free
<1>3. ~disturbed[h] => held'[h] = 0
  BY <1>1, <1>2, EnsureQueueHeld
<1>4. PICK at \in {"merge lane", "observe"} :
        /\ flow' = [flow EXCEPT ![h].at = at, ![h].snapshot = Own(h)]
        /\ (at = "observe") <=> (held'[h] # 0)
        /\ IF at = "observe" THEN UNCHANGED <<frame, reply>> ELSE Give(h, Acquire("merge"))
  BY DEF StartMerge
<1>5. flow'[h].at = at /\ \A k \in Home \ {h} : flow'[k] = flow[k]
  BY <1>1, <1>4 DEF Flow
<1>6. Apartly(h)
  <2>4. \A k \in Home \ {h} : frame'[k] = frame[k] /\ reply'[k] = reply[k]
    BY <1>1, <1>4, Gives
  <2> QED BY <1>1, <1>5, <2>4, EnsureQueueHeld DEF Apartly
<1>7. BackAt(h)'
  <2>1. CASE held'[h] # 0
    BY <1>1, <1>3, <2>1 DEF BackAt
  <2>2. CASE held'[h] = 0
    <3>1. Give(h, Acquire("merge")) /\ at = "merge lane"
      BY <1>4, <2>2
    <3>2. h \in queued' /\ h \notin pausing'
      BY <1>1, EnsureQueueHeld DEF Free
    <3> QED BY <1>1, <1>5, <2>2, <3>1, <3>2, GivesToAsk DEF Asking
  <2> QED BY <2>1, <2>2
<1> QED BY <1>6, <1>7, BackOfAll

LEMMA RenewingBack ==
  ASSUME DeliveryInv, BackInv, NEW h \in Home, Still, EnsureWorkspace(h) \/ Finish(h)
  PROVE  BackInv'
<1>1. /\ BackAt(h) /\ flow \in [Home -> Flow] /\ flow[h] \in Flow /\ TypeOK
      /\ frame[h] = Idle /\ ~disturbed[h] => Rests(h)
      /\ queued \in SUBSET Home
  BY BackFacts
<1>2. /\ disturbed' = disturbed /\ pausing' = pausing /\ worker' = worker
      /\ frame[h] = Idle /\ h \notin pausing /\ flow[h].at \in Keeping
  BY DEF Still, EnsureWorkspace, Finish, Free, In, Keeping
<1>3. /\ h \in queued' \/ held'[h] = 0 \/ disturbed[h]
      /\ \A k \in Home \ {h} : held'[k] = held[k] /\ (k \in queued' <=> k \in queued)
  <2>1. CASE held' = held /\ queued' = queued
    BY <1>1, <1>2, <2>1 DEF Rests
  <2>2. CASE EnsureQueue(h)
    BY <2>2, EnsureQueueHeld
  <2> QED BY <2>1, <2>2 DEF EnsureWorkspace, Finish
<1>4. CASE Give(h, RenewHeld) /\ \E at \in {"git", "verify"} : Go(h, at)
  <2>1. flow'[h].at \in {"git", "verify"} /\ \A k \in Home \ {h} : flow'[k] = flow[k]
    BY <1>1, <1>4, WhereFlows
  <2>2. BackAt(h)'
    BY <1>1, <1>2, <1>3, <1>4, <2>1, GivesToRenew
  <2>3. \A k \in Home \ {h} : frame'[k] = frame[k] /\ reply'[k] = reply[k]
    BY <1>1, <1>4, Gives
  <2> QED BY <1>2, <1>3, <2>1, <2>2, <2>3, BackOfAll DEF Apartly
<1>5. CASE Fail(h, "transient") /\ UNCHANGED <<frame, reply, held, queued>>
  <2>1. flow'[h].at \in Keeping /\ \A k \in Home \ {h} : flow'[k] = flow[k]
    BY <1>1, <1>5, WhereFlows DEF Keeping
  <2>2. BackAt(h)'
    BY <1>1, <1>2, <1>5, <2>1, MovesBack DEF Keeps
  <2> QED BY <1>2, <1>5, <2>1, <2>2, BackOfAll DEF Apartly
<1> QED BY <1>4, <1>5 DEF EnsureWorkspace, Finish

LEMMA FailTargetRefreshBack ==
  ASSUME DeliveryInv, BackInv, NEW h \in Home, Still, FailTargetRefresh(h)
  PROVE  BackInv'
<1>1. /\ flow \in [Home -> Flow] /\ TypeOK
      /\ frame[h] = Idle /\ ~disturbed[h] => Rests(h)
  BY BackFacts
<1>2. /\ disturbed' = disturbed /\ pausing' = pausing /\ worker' = worker /\ frame[h] = Idle
  BY DEF Still, FailTargetRefresh, Free
<1>3. CASE /\ EnsureQueue(h) /\ Give(h, Record(flow[h].failure, "refresh")) /\ Go(h, "recorded")
  <2>1. BackAt(h)'
    BY <1>1, <1>3, EnsureQueueHeld, GivesToReturn, CommandKinds
  <2>2. \A k \in Home \ {h} : flow'[k] = flow[k]
    BY <1>1, <1>3, WhereFlows
  <2>3. \A k \in Home \ {h} : frame'[k] = frame[k] /\ reply'[k] = reply[k]
    BY <1>1, <1>3, Gives
  <2> QED BY <1>2, <1>3, <2>1, <2>2, <2>3, EnsureQueueHeld, BackOfAll DEF Apartly
<1>4. CASE held' = held /\ queued' = queued /\ Give(h, ReleaseHeld) /\ Go(h, "clear")
  BY <1>2, <1>4, LeavesBack, CommandKinds
<1>5. CASE held' = held /\ h \notin queued /\ Return(h) /\ Clear(h) /\ UNCHANGED <<frame, reply>>
  BY <1>1, <1>2, <1>5, ClearedBack DEF Rests
<1> QED BY <1>3, <1>4, <1>5 DEF FailTargetRefresh

LEMMA EndPauseBack ==
  ASSUME DeliveryInv, BackInv, NEW h \in Home, Still, EndPause(h)
  PROVE  BackInv'
<1>1. /\ frame[h] = Idle /\ ~disturbed[h] => Rests(h)
  BY BackFacts
<1>2. /\ frame' = frame /\ held' = held /\ reply' = reply /\ disturbed' = disturbed
      /\ h \in pausing /\ frame[h] = Idle /\ flow' = flow /\ worker' = worker
      /\ pausing' = pausing \ {h} /\ queued' = queued \ {h}
  BY DEF Still, EndPause, NoQueueStep
<1>3. BackAt(h)'
  BY <1>1, <1>2, RestAfter DEF Rests
<1> QED BY <1>2, <1>3, BackOfAll DEF Apartly

LEMMA PauseBack ==
  ASSUME DeliveryInv, BackInv, NEW h \in Home, Pause(h)
  PROVE  BackInv'
<1>1. /\ TypeOK /\ (frame[h] = Idle /\ ~disturbed[h] => Rests(h))
  BY BackFacts
<1>2. /\ held' = held /\ disturbed' = disturbed
      /\ frame[h] = Idle /\ flow' = flow /\ worker' = worker \ {h}
      /\ pausing' = pausing \cup {h} /\ queued' = queued
  BY DEF Pause, Free
<1>3. CASE h \in queued
  <2>0. Give(h, ReleaseHeld)
    BY <1>3 DEF Pause
  <2>1. BackAt(h)'
    BY <1>1, <1>2, <1>3, <2>0, GivesToReturn, CommandKinds
  <2>2. \A k \in Home \ {h} : frame'[k] = frame[k] /\ reply'[k] = reply[k]
    BY <1>1, <2>0, Gives
  <2> QED BY <1>2, <2>1, <2>2, BackOfAll DEF Apartly
<1>4. CASE h \notin queued
  <2>1. UNCHANGED <<frame, reply>>
    BY <1>4 DEF Pause
  <2>2. BackAt(h)'
    BY <1>1, <1>2, <1>4, <2>1, RestAfter DEF Rests
  <2> QED BY <1>2, <2>1, <2>2, BackOfAll DEF Apartly
<1> QED BY <1>3, <1>4

LEMMA RestartBack ==
  ASSUME DeliveryInv, BackInv, NEW h \in Home, Restart(h)
  PROVE  BackInv'
<1>1. TypeOK /\ SessionType
  BY BackFacts
<1>2. BackAt(h)'
  BY <1>1 DEF Restart, Crash, Disturb, TypeOK, BackAt
<1>3. Apartly(h)
  <2>1. \A k \in Home \ {h} : /\ frame'[k] = frame[k] /\ held'[k] = held[k] /\ reply'[k] = reply[k]
                              /\ disturbed'[k] = disturbed[k]
    BY <1>1 DEF Restart, Crash, Disturb, TypeOK
  <2>2. \A k \in Home \ {h} : /\ flow'[k] = flow[k] /\ (k \in worker' <=> k \in worker)
                              /\ k \in queued' <=> k \in queued
                              /\ k \in pausing' <=> k \in pausing
    BY <1>1 DEF Restart, SessionType
  <2> QED BY <2>1, <2>2 DEF Apartly
<1> QED BY <1>2, <1>3, BackOfAll

LEMMA RunBack ==
  ASSUME DeliveryInv, BackInv, NEW h \in Home, Run(h), UNCHANGED session
  PROVE  BackInv'
<1>1. TypeOK /\ BackAt(h) /\ OneHomePerWorkflow
  BY BackFacts, DeliveryAssumption DEF OneHomePerWorkflow
<1>2. BackAt(h)'
  BY <1>1, RunUsing
<1>3. Apartly(h)
  <2>1. ASSUME NEW k \in Home \ {h}
        PROVE  /\ frame'[k] = frame[k] /\ held'[k] = held[k] /\ disturbed'[k] = disturbed[k]
               /\ reply'[k] = reply[k]
    BY <1>1, OthersLane, OthersReply
  <2> QED BY <2>1 DEF Apartly, session
<1> QED BY <1>2, <1>3, BackOfAll

LEMMA BackStep == DeliveryInv /\ BackInv /\ [DeliveryNext]_deliveryVars => BackInv'
<1> SUFFICES ASSUME DeliveryInv, BackInv, [DeliveryNext]_deliveryVars PROVE BackInv'
  OBVIOUS
<1>1. ASSUME UNCHANGED <<frame, held, reply, disturbed, session>> PROVE BackInv'
  BY <1>1 DEF BackInv, BackAt, Using, session
<1>2. CASE UNCHANGED deliveryVars
  BY <1>1, <1>2 DEF deliveryVars, vars
<1>3. ASSUME NEW h \in Home, Deliver(h) PROVE BackInv'
  <2>1. Still
    BY <1>3 DEF Deliver, Still
  <2>2. CASE \/ AfterLane(h) \/ EnsureWorkspace(h) \/ MergeTarget(h) \/ LaunchWorker(h)
             \/ WorkerCompletes(h) \/ WorkerFails(h) \/ Finish(h) \/ VerifyLocally(h)
             \/ PushIntegration(h) \/ ReleaseForPrChecks(h) \/ AfterRelease(h)
    BY <2>1, <2>2, ReturnsBack, RenewingBack, QuietRefreshBack, GivingRefreshBack
  <2>3. CASE \/ FailTargetRefresh(h) \/ AfterRecord(h) \/ AfterReleaseHeld(h)
             \/ AfterMergeLane(h) \/ Observe(h) \/ Evaluate(h) \/ MergePullRequest(h)
             \/ AfterRefusal(h) \/ MarkMerged(h) \/ WriteMergedStage(h) \/ EndPause(h)
    BY <2>1, <2>3, FailTargetRefreshBack, GivingRefreshBack, ReturnsBack, QuietMergeBack,
       GivingMergeBack, EndPauseBack
  <2> QED BY <1>3, <2>2, <2>3 DEF Deliver
<1>4. ASSUME NEW h \in Home, Work(h) PROVE BackInv'
  BY <1>3, <1>4, RunBack DEF Work
<1>5. ASSUME NEW h \in Home, Choose(h) PROVE BackInv'
  BY <1>5, StartRefreshBack, RetryConflictBack, StartMergeBack DEF Choose
<1>6. ASSUME NEW h \in Home, Pause(h) \/ Restart(h) PROVE BackInv'
  BY <1>6, PauseBack, RestartBack
<1>7. ASSUME NEW w \in Workflow, HeadMoves(w) PROVE BackInv'
  BY <1>1, <1>7 DEF HeadMoves, NoQueueStep
<1>8. ASSUME NEW w \in Workflow, OwnerEnds(w) /\ UNCHANGED <<forge, tree, session>> PROVE BackInv'
  BY <1>1, <1>8 DEF OwnerEnds
<1>9. CASE LaneLapses
  BY <1>1, <1>9 DEF LaneLapses, NoQueueStep
<1>10. CASE TargetMoves
  BY <1>1, <1>10 DEF TargetMoves, NoQueueStep
<1> QED BY <1>2, <1>4, <1>5, <1>6, <1>7, <1>8, <1>9, <1>10 DEF DeliveryNext

LEMMA InitBack == DeliveryInit => BackInv
<1> SUFFICES ASSUME DeliveryInit, NEW h \in Home PROVE BackAt(h)
  BY DEF BackInv
<1>1. frame[h] = Idle /\ held[h] = 0
  BY DEF DeliveryInit, Init
<1> QED BY <1>1, IdleFrame, UsingIdle DEF BackAt

LEMMA GivenBackFromInv == BackInv => LaneIsGivenBack
<1> SUFFICES ASSUME BackInv, NEW h \in Home, In(h, "none"), Free(h), h \notin worker,
                    ~disturbed[h]
             PROVE  ~HoldsLane(held[h])
  BY DEF LaneIsGivenBack
<1>1. Rests(h)
  BY RestNow DEF BackInv, Free
<1>2. held[h] = 0
  BY <1>1 DEF Rests, Keeps, Keeping, Asking, In
<1> QED BY <1>2 DEF HoldsLane

\* However a flow ends, failed, refused or paused on its way, it gives the lane back,
\* unless a call of the queue threw or the home found its lease gone: of everything a
\* home can be in, between and within its commands, only a flow that goes on and a
\* Conflict resolution worker keep the lane.
THEOREM FlowsGiveTheLaneBack == DeliverySpec => []LaneIsGivenBack
<1>1. DeliverySpec => []BackInv
  BY InitBack, BackStep, DeliveryInductive, PTL DEF DeliverySpec
<1> QED BY <1>1, GivenBackFromInv, PTL

(***************************************************************************)
(* The base of a merge                                                     *)
(***************************************************************************)

\* Among the calls still to make the lane is acquired.
WillTake(todo) == \E i \in 1..Len(todo) : todo[i] = "acquire"

\* No two homes remember one lane, and none a lane that is still to be granted.
OneHolder == /\ \A h \in Home : held[h] <= lane.generation
             /\ \A g, h \in Home : held[g] = held[h] /\ held[g] # 0 => g = h

\* A lane is acquired only for a flow that waits for it; and after a home that has the
\* lane looked at its base, nobody has merged under the lane.
BaseAt(h) == /\ WillTake(frame[h].todo) => flow[h].at \in Asking
             /\ flow[h].at \in {"evaluate", "merge"} /\ HoldsLane(held[h])
                  => target.sha = flow[h].base \/ target.by # "holder"
             /\ flow[h].at = "merge" => flow[h].base = flow[h].snapshot.validatedTargetSha

BaseInv == OneHolder /\ \A h \in Home : BaseAt(h)

LEMMA NoTake ==
  \A t \in {<<>>, <<"release">>, <<"load">>, ToRecord, ToRenew, ToVerifyRenew, ToGiveUp,
            ToFinish, ToRecover, ToRequeue, ToPersist, ToConfirm, ToVerifyLast,
            ToConfirmLast} : ~WillTake(t)
BY DEF WillTake, ToRecord, ToRenew, ToVerifyRenew, ToGiveUp, ToFinish, ToRecover,
       ToRequeue, ToPersist, ToConfirm, ToVerifyLast, ToConfirmLast

LEMMA TailTakes ==
  ASSUME NEW s \in Seq(Call), s # <<>>, WillTake(Tail(s))
  PROVE  WillTake(s)
<1>1. /\ Len(s) \in Nat \ {0} /\ Len(Tail(s)) = Len(s) - 1
      /\ \A i \in 1..Len(Tail(s)) : Tail(s)[i] = s[i + 1]
  BY HeadTailProperties, LenProperties
<1>2. PICK i \in 1..Len(Tail(s)) : Tail(s)[i] = "acquire"
  BY DEF WillTake
<1>3. i + 1 \in 1..Len(s) /\ s[i + 1] = "acquire"
  BY <1>1, <1>2
<1> QED BY <1>3 DEF WillTake

LEMMA HeadTakes ==
  ASSUME NEW s \in Seq(Call), s # <<>>, Head(s) = "acquire"
  PROVE  WillTake(s)
<1>1. Len(s) \in Nat \ {0} /\ Head(s) = s[1]
  BY HeadTailProperties, LenProperties
<1>2. 1 \in 1..Len(s)
  BY <1>1
<1> QED BY <1>1, <1>2 DEF WillTake

LEMMA ResumeTakes ==
  ASSUME TypeOK, NEW h \in Home, NEW g, Resume(h, g), WillTake(frame'[h].todo)
  PROVE  WillTake(g.todo)
<1>1. CASE g.todo = <<>>
  <2>1. frame'[h].todo = <<>>
    BY <1>1, IdleFrame DEF TypeOK, Resume
  <2> QED BY <2>1, NoTake
<1>2. CASE g.todo # <<>>
  BY <1>2 DEF TypeOK, Resume
<1> QED BY <1>1, <1>2

\* The calls that are left when a call goes on, when the command fails, when it
\* has decided, and when a failure to record is recorded instead.
LEMMA ProceedTakes ==
  ASSUME TypeOK, NEW h \in Home, frame[h].todo # <<>>, WillTake(frame'[h].todo),
         \/ Proceed(h)
         \/ \E n : Resume(h, [frame[h] EXCEPT !.todo = Tail(@), !.fence = n])
         \/ \E d : Resume(h, [frame[h] EXCEPT !.draft = d, !.todo = Tail(@)])
         \/ \E d : Resume(h, [frame[h] EXCEPT !.draft = d, !.todo = Tail(frame[h].todo)])
  PROVE  WillTake(frame[h].todo)
<1>0. frame[h] \in Frame /\ frame[h].todo \in Seq(Call)
  BY TypedFrame
<1>1. ASSUME NEW g, Resume(h, g), g.todo = Tail(frame[h].todo) PROVE WillTake(frame[h].todo)
  <2>1. WillTake(g.todo)
    BY <1>1, ResumeTakes
  <2>2. WillTake(Tail(frame[h].todo))
    BY <1>1, <2>1
  <2> QED BY <1>0, <2>2, TailTakes
<1>2. CASE Proceed(h)
  <2>1. [frame[h] EXCEPT !.todo = Tail(@)].todo = Tail(frame[h].todo)
    BY <1>0 DEF Frame
  <2> QED BY <1>1, <1>2, <2>1 DEF Proceed
<1>3. ASSUME NEW n, Resume(h, [frame[h] EXCEPT !.todo = Tail(@), !.fence = n])
      PROVE  WillTake(frame[h].todo)
  <2>1. [frame[h] EXCEPT !.todo = Tail(@), !.fence = n].todo = Tail(frame[h].todo)
    BY <1>0 DEF Frame
  <2> QED BY <1>1, <1>3, <2>1
<1>4. ASSUME NEW d, \/ Resume(h, [frame[h] EXCEPT !.draft = d, !.todo = Tail(@)])
                    \/ Resume(h, [frame[h] EXCEPT !.draft = d, !.todo = Tail(frame[h].todo)])
      PROVE  WillTake(frame[h].todo)
  <2>1. /\ [frame[h] EXCEPT !.draft = d, !.todo = Tail(@)].todo = Tail(frame[h].todo)
        /\ [frame[h] EXCEPT !.draft = d, !.todo = Tail(frame[h].todo)].todo = Tail(frame[h].todo)
    BY <1>0 DEF Frame
  <2> QED BY <1>1, <1>4, <2>1
<1> QED BY <1>2, <1>3, <1>4

LEMMA CleanupTakes ==
  ASSUME TypeOK, NEW h \in Home,
         Resume(h, [frame[h] EXCEPT !.todo = Cleanup(h), !.draft = NoDraft])
  PROVE  ~WillTake(frame'[h].todo)
<1> DEFINE g == [frame[h] EXCEPT !.todo = Cleanup(h), !.draft = NoDraft]
<1>1. g.todo = Cleanup(h)
  BY TypedFrame DEF Frame
<1>2. Cleanup(h) \in {<<>>, <<"release">>}
  BY DEF Cleanup
<1>3. Resume(h, g)
  OBVIOUS
<1> HIDE DEF g
<1> QED BY <1>1, <1>2, <1>3, ResumeTakes, NoTake

LEMMA DecideTakes ==
  ASSUME TypeOK, NEW h \in Home, NEW c, NEW t, Decide(h, c, t), WillTake(frame'[h].todo)
  PROVE  WillTake(t)
<1> DEFINE g == [frame[h] EXCEPT !.draft = [Own(h) EXCEPT !.candidate = c], !.todo = t]
<1>1. g.todo = t
  BY TypedFrame DEF Frame
<1>2. Resume(h, g)
  BY DEF Decide
<1> HIDE DEF g
<1> QED BY <1>1, <1>2, ResumeTakes

\* No call adds one that takes the lane.
LEMMA LoadTakes ==
  ASSUME TypeOK, NEW h \in Home, Load(h), WillTake(frame'[h].todo)
  PROVE  WillTake(frame[h].todo)
<1>0. frame[h].todo # <<>> /\ frame[h].todo \in Seq(Call)
  BY TypedFrame DEF Load, LoadToObserve, LoadToAcquire, LoadToRelease, LoadToRecordFailure,
                    LoadToRequeue, LoadToMarkMerged, LoadToRecover, AtFor, At
<1>1. ~Abort(h)
  BY CleanupTakes DEF Abort
<1>2. CASE LoadToObserve(h)
  <2>1. PICK c : \/ Proceed(h)
                 \/ Decide(h, c, <<"target">> \o PersistFenced \o <<"release">>)
                 \/ Decide(h, c, Persist)
    BY <1>2 DEF LoadToObserve
  <2> QED BY <1>0, <2>1, ProceedTakes, DecideTakes, JoinedCalls, FirstTodo, NoTake
<1>3. CASE LoadToRecordFailure(h)
  <2>1. PICK c : \/ Decide(h, c, <<"target">> \o PersistFenced \o <<"release">>)
                 \/ Decide(h, c, Persist)
    BY <1>3 DEF LoadToRecordFailure
  <2> QED BY <2>1, DecideTakes, JoinedCalls, FirstTodo, NoTake
<1>4. CASE LoadToAcquire(h) \/ LoadToRecover(h)
  BY <1>0, <1>1, <1>4, ProceedTakes DEF LoadToAcquire, LoadToRecover
<1>5. CASE LoadToRequeue(h) \/ LoadToMarkMerged(h)
  BY <1>0, <1>1, <1>5, DecideTakes, TailTakes DEF LoadToRequeue, LoadToMarkMerged
<1>6. CASE LoadToRelease(h)
  <2>1. \E d : Resume(h, [frame[h] EXCEPT !.draft = d, !.todo = Tail(@)])
    BY <1>1, <1>6 DEF LoadToRelease
  <2> QED BY <1>0, <2>1, ProceedTakes
<1> QED BY <1>2, <1>3, <1>4, <1>5, <1>6 DEF Load

LEMMA RunTakes ==
  ASSUME TypeOK, NEW h \in Home, Run(h), WillTake(frame'[h].todo)
  PROVE  WillTake(frame[h].todo)
<1>1. ~Abort(h)
  BY CleanupTakes DEF Abort
<1>2. ~Resume(h, [frame[h] EXCEPT !.todo = Cleanup(h), !.draft = NoDraft])
  BY CleanupTakes
<1>3. CASE \/ VerifyWorkflowAuthority(h) \/ VerifyFence(h) \/ AcquireLane(h)
           \/ ReleaseLane(h) \/ RenewLane(h) \/ WriteManifest(h)
  <2>1. frame[h].todo # <<>> /\ Proceed(h)
    BY <1>1, <1>3 DEF VerifyWorkflowAuthority, VerifyFence, AcquireLane, ReleaseLane,
                      RenewLane, WriteManifest, At
  <2> QED BY <2>1, ProceedTakes
<1>4. CASE VerifyHeldLease(h)
  <2>1. frame[h].todo # <<>>
        /\ Resume(h, [frame[h] EXCEPT !.todo = Tail(@), !.fence = held[h]])
    BY <1>1, <1>4 DEF VerifyHeldLease, At
  <2> QED BY <2>1, ProceedTakes
<1>5. CASE InspectLane(h)
  <2>1. PICK c : Resume(h, [frame[h] EXCEPT !.command = c, !.todo = Calls("record-failure")])
    BY <1>1, <1>5 DEF InspectLane
  <2> DEFINE g == [frame[h] EXCEPT !.command = c, !.todo = Calls("record-failure")]
  <2>2. g.todo = ToRecord /\ Resume(h, g)
    BY <2>1, TypedFrame, FirstTodo DEF Frame
  <2> HIDE DEF g
  <2> QED BY <2>2, ResumeTakes, NoTake
<1>6. CASE Reload(h)
  <2>1. frame[h].todo # <<>> /\ frame[h].todo \in Seq(Call)
        /\ Decide(h, Plain("refreshing"), Tail(frame[h].todo))
    BY <1>1, <1>6, TypedFrame DEF Reload, At
  <2> QED BY <2>1, DecideTakes, TailTakes
<1>7. ~CallThrows(h) /\ ~AnswerLost(h)
  BY <1>1, <1>2 DEF CallThrows, AnswerLost
<1> QED BY <1>3, <1>4, <1>5, <1>6, <1>7, LoadTakes DEF Run

\* A lane is granted to the home that acquires it; other steps of a command may end
\* the lane, and let the home forget it.
LaneEnds(h) == /\ lane'.generation = lane.generation /\ (lane'.live => lane.live)
             /\ held' \in {held, [held EXCEPT ![h] = 0]}
GrantsTo(h) == /\ At(h, "acquire")
             /\ lane'.generation = lane.generation + 1
             /\ held' \in {held, [held EXCEPT ![h] = lane.generation + 1]}

LEMMA RunGrants ==
  ASSUME TypeOK, NEW h \in Home, Run(h)
  PROVE  LaneEnds(h) \/ GrantsTo(h)
<1>1. lane.generation \in Nat /\ lane \in [generation : Nat, live : BOOLEAN]
  BY DEF TypeOK
<1>2. CASE AcquireLane(h)
  BY <1>1, <1>2 DEF AcquireLane, Grant, LaneEnds, GrantsTo
<1>3. CASE AnswerLost(h)
  BY <1>1, <1>3 DEF AnswerLost, Grant, LaneEnds, GrantsTo
<1>4. CASE ReleaseLane(h)
  BY <1>1, <1>4 DEF ReleaseLane, LaneEnds
<1>5. CASE \/ VerifyWorkflowAuthority(h) \/ VerifyHeldLease(h) \/ VerifyFence(h)
           \/ RenewLane(h) \/ InspectLane(h) \/ Load(h) \/ Reload(h) \/ WriteManifest(h)
           \/ CallThrows(h)
  BY <1>5 DEF VerifyWorkflowAuthority, VerifyHeldLease, VerifyFence, RenewLane, InspectLane,
              Load, LoadToObserve, LoadToAcquire, LoadToRelease, LoadToRecordFailure,
              LoadToRequeue, LoadToMarkMerged, LoadToRecover, Reload, WriteManifest,
              CallThrows, LaneEnds
<1>6. \/ AcquireLane(h) \/ AnswerLost(h) \/ ReleaseLane(h)
      \/ VerifyWorkflowAuthority(h) \/ VerifyHeldLease(h) \/ VerifyFence(h)
      \/ RenewLane(h) \/ InspectLane(h) \/ Load(h) \/ Reload(h) \/ WriteManifest(h)
      \/ CallThrows(h)
  BY DEF Run
<1> QED BY <1>2, <1>3, <1>4, <1>5, <1>6

LEMMA OneHolderAfter ==
  ASSUME TypeOK, OneHolder, NEW h \in Home, LaneEnds(h) \/ GrantsTo(h)
  PROVE  /\ OneHolder'
         /\ \A k \in Home : HoldsLane(held[k])' =>
              (held'[k] = held[k] /\ HoldsLane(held[k])) \/ (k = h /\ GrantsTo(h))
<1>1. held \in [Home -> Nat] /\ lane.generation \in Nat
  BY DEF TypeOK
<1>2. CASE LaneEnds(h)
  BY <1>1, <1>2 DEF LaneEnds, OneHolder, HoldsLane
<1>3. CASE GrantsTo(h)
  BY <1>1, <1>3 DEF GrantsTo, OneHolder, HoldsLane
<1> QED BY <1>2, <1>3

LEMMA RunBase ==
  ASSUME DeliveryInv, BaseInv, NEW h \in Home, Run(h), UNCHANGED <<forge, session>>
  PROVE  BaseInv'
<1>1. TypeOK /\ OneHomePerWorkflow /\ flow' = flow /\ target' = target
  BY HomeFacts, DeliveryAssumption DEF OneHomePerWorkflow, session, forge
<1>2. LaneEnds(h) \/ GrantsTo(h)
  BY <1>1, RunGrants
<1>3. OneHolder' /\ \A k \in Home : HoldsLane(held[k])' =>
        (held'[k] = held[k] /\ HoldsLane(held[k])) \/ (k = h /\ GrantsTo(h))
  BY <1>1, <1>2, OneHolderAfter DEF BaseInv
<1>4. ASSUME NEW k \in Home PROVE WillTake(frame'[k].todo) => WillTake(frame[k].todo)
  BY <1>1, RunTakes, OthersLane
<1>5. GrantsTo(h) => flow[h].at \in Asking
  BY <1>1, TypedFrame, HeadTakes DEF GrantsTo, At, BaseInv, BaseAt
<1>6. ASSUME NEW k \in Home PROVE BaseAt(k)'
  BY <1>1, <1>3, <1>4, <1>5 DEF BaseInv, BaseAt, Asking
<1> QED BY <1>3, <1>6 DEF BaseInv

\* A step of a flow gives a command or leaves the queue alone; it asks for the lane
\* and waits.
Gentle(h) ==
  \/ frame' = frame /\ (frame[h] = Idle \/ flow[h].at \notin Asking)
  \/ \E c : /\ Give(h, c)
            /\ c.kind \in {"record-failure", "release-held-target-lease",
                           "renew-held-target-lease", "release-for-pr-checks", "mark-merged"}
               \/ (c.kind = "acquire-phase" /\ flow'[h].at \in Asking)

\* It goes to the merge by looking at the Target branch.
Looked(h) ==
  flow'[h].at \in {"evaluate", "merge"} =>
    \/ flow'[h] = flow[h]
    \/ flow'[h].at = "evaluate" /\ flow'[h].base = target'.sha
    \/ /\ flow[h].at = "evaluate" /\ flow'[h].base = flow[h].base
       /\ flow'[h].base = flow'[h].snapshot.validatedTargetSha

\* The Target branch moves by a push, or by the merge of a home that has the lane or not.
MovesTarget(h) ==
  \/ target' = target
  \/ /\ target'.by = "holder" => HoldsLane(held[h]) /\ UNCHANGED <<lane, held>>
     /\ flow'[h].at \notin {"evaluate", "merge"}

LEMMA FlowBase ==
  ASSUME DeliveryInv, BaseInv, NEW h \in Home, LaneEnds(h), Gentle(h), Looked(h),
         MovesTarget(h), \A k \in Home \ {h} : flow'[k] = flow[k]
  PROVE  BaseInv'
<1>1. TypeOK
  BY HomeFacts
<1>3. OneHolder' /\ \A k \in Home : HoldsLane(held[k])' =>
        (held'[k] = held[k] /\ HoldsLane(held[k])) \/ (k = h /\ GrantsTo(h))
  BY <1>1, OneHolderAfter DEF BaseInv
<1>4. \A k \in Home : HoldsLane(held[k])' => held'[k] = held[k] /\ HoldsLane(held[k])
  BY <1>1, <1>3 DEF LaneEnds, GrantsTo, TypeOK
<1>5. ASSUME NEW k \in Home, WillTake(frame'[k].todo) PROVE flow'[k].at \in Asking
  <2>1. CASE k # h
    <3>1. frame'[k] = frame[k]
      BY <1>1, <2>1, Gives DEF Gentle
    <3> QED BY <1>5, <2>1, <3>1 DEF BaseInv, BaseAt
  <2>2. CASE k = h /\ frame' = frame
    <3>1. frame[h] # Idle
      BY <1>5, <2>2, IdleFrame, NoTake
    <3>2. flow[h].at \in Asking
      BY <1>5, <2>2 DEF BaseInv, BaseAt
    <3> QED BY <2>2, <3>1, <3>2 DEF Gentle, Give
  <2>3. ASSUME NEW c, Give(h, c), k = h,
               c.kind \in {"record-failure", "release-held-target-lease",
                           "renew-held-target-lease", "release-for-pr-checks", "mark-merged"}
        PROVE  FALSE
    BY <1>1, <1>5, <2>3, Gives, FirstTodo, NoTake
  <2> QED BY <2>1, <2>2, <2>3 DEF Gentle
<1>6. ASSUME NEW k \in Home, flow'[k].at \in {"evaluate", "merge"}, HoldsLane(held[k])'
      PROVE  target'.sha = flow'[k].base \/ target'.by # "holder"
  <2>1. HoldsLane(held[k]) /\ held'[k] = held[k]
    BY <1>4, <1>6
  <2>2. CASE target' = target
    BY <1>6, <2>1, <2>2 DEF Looked, BaseInv, BaseAt
  <2>3. CASE target'.by = "holder" => HoldsLane(held[h]) /\ k # h
    BY <1>6, <2>1, <2>3 DEF BaseInv, OneHolder, HoldsLane
  <2> QED BY <1>6, <2>2, <2>3 DEF MovesTarget
<1>7. ASSUME NEW k \in Home, flow'[k].at = "merge"
      PROVE  flow'[k].base = flow'[k].snapshot.validatedTargetSha
  BY <1>7 DEF Looked, BaseInv, BaseAt
<1> QED BY <1>3, <1>5, <1>6, <1>7 DEF BaseInv, BaseAt

LEMMA WhereBase ==
  ASSUME flow \in [Home -> Flow], NEW h \in Home, NEW at, Go(h, at)
  PROVE  /\ flow'[h].base = flow[h].base /\ flow'[h].snapshot = flow[h].snapshot
         /\ flow'[h].at = at
<1>1. flow[h] \in Flow
  OBVIOUS
<1>2. flow'[h] = [flow[h] EXCEPT !.at = at]
  BY DEF Go
<1> QED BY <1>1, <1>2 DEF Flow

LEMMA GoesTo ==
  ASSUME flow \in [Home -> Flow], NEW h \in Home, NEW at, NEW tip,
         flow' = [flow EXCEPT ![h].at = at, ![h].target = tip]
  PROVE  flow'[h].at = at
<1>1. flow[h] \in Flow
  OBVIOUS
<1>2. flow'[h] = [flow[h] EXCEPT !.at = at, !.target = tip]
  OBVIOUS
<1> QED BY <1>1, <1>2 DEF Flow

LEMMA StartsAt ==
  ASSUME flow \in [Home -> Flow], NEW h \in Home, NEW at, NEW m,
         flow' = [flow EXCEPT ![h].at = at, ![h].snapshot = m]
  PROVE  flow'[h].at = at
<1>1. flow[h] \in Flow
  OBVIOUS
<1>2. flow'[h] = [flow[h] EXCEPT !.at = at, !.snapshot = m]
  OBVIOUS
<1> QED BY <1>1, <1>2 DEF Flow

\* What a step of a flow, and the operator's choice, leave alone.
LEMMA OthersFlow ==
  ASSUME flow \in [Home -> Flow], NEW h \in Home, Deliver(h) \/ Choose(h) \/ Pause(h)
  PROVE  \A k \in Home \ {h} : flow'[k] = flow[k]
<1>1. CASE Return(h) \/ (\E at : Go(h, at)) \/ (\E kind : Fail(h, kind))
  BY <1>1, WhereFlows
<1>2. ASSUME NEW y, flow' = [flow EXCEPT ![h] = y]
      PROVE  \A k \in Home \ {h} : flow'[k] = flow[k]
  BY <1>2
<1>3. CASE StartRefresh(h) \/ AfterLane(h) \/ EnsureWorkspace(h) \/ LaunchWorker(h)
  BY <1>1, <1>3 DEF StartRefresh, AfterLane, EnsureWorkspace, LaunchWorker
<1>4. CASE WorkerFails(h) \/ Finish(h) \/ VerifyLocally(h) \/ PushIntegration(h)
  BY <1>1, <1>4 DEF WorkerFails, Finish, VerifyLocally, PushIntegration
<1>5. CASE ReleaseForPrChecks(h) \/ AfterRelease(h) \/ FailTargetRefresh(h) \/ AfterRecord(h)
  BY <1>1, <1>5 DEF ReleaseForPrChecks, AfterRelease, FailTargetRefresh, AfterRecord
<1>6. CASE AfterReleaseHeld(h) \/ AfterMergeLane(h) \/ Evaluate(h) \/ MergePullRequest(h)
  BY <1>1, <1>6 DEF AfterReleaseHeld, AfterMergeLane, Evaluate, MergePullRequest
<1>7. CASE AfterRefusal(h) \/ MarkMerged(h) \/ WriteMergedStage(h) \/ EndPause(h) \/ Pause(h)
  BY <1>1, <1>7 DEF AfterRefusal, MarkMerged, WriteMergedStage, EndPause, Pause
<1>8. CASE MergeTarget(h) \/ Observe(h)
  BY <1>1, <1>2, <1>8 DEF MergeTarget, Observe
<1>9. CASE RetryConflict(h) \/ WorkerCompletes(h) \/ StartMerge(h)
  BY <1>2, <1>9 DEF RetryConflict, WorkerCompletes, StartMerge
<1> QED BY <1>3, <1>4, <1>5, <1>6, <1>7, <1>8, <1>9 DEF Deliver, Choose

LEMMA TurnLane ==
  ASSUME TypeOK, NEW h \in Home, Deliver(h) \/ Choose(h) \/ Pause(h)
  PROVE  LaneEnds(h)
<1>1. lane' = lane
  BY DEF Deliver, Choose, StartRefresh, RetryConflict, StartMerge, Pause
<1>2. held' \in {held, [held EXCEPT ![h] = 0]}
  <2>1. EnsureQueue(h) => held' \in {held, [held EXCEPT ![h] = 0]}
    BY DEF EnsureQueue
  <2>2. NoQueueStep => held' = held
    BY DEF NoQueueStep
  <2>3. CASE StartRefresh(h) \/ AfterLane(h) \/ EnsureWorkspace(h) \/ LaunchWorker(h)
    BY <2>1, <2>2, <2>3 DEF StartRefresh, AfterLane, EnsureWorkspace, LaunchWorker
  <2>4. CASE WorkerFails(h) \/ Finish(h) \/ VerifyLocally(h) \/ PushIntegration(h)
    BY <2>1, <2>2, <2>4 DEF WorkerFails, Finish, VerifyLocally, PushIntegration
  <2>5. CASE ReleaseForPrChecks(h) \/ AfterRelease(h) \/ FailTargetRefresh(h) \/ AfterRecord(h)
    BY <2>1, <2>2, <2>5 DEF ReleaseForPrChecks, AfterRelease, FailTargetRefresh, AfterRecord
  <2>6. CASE AfterReleaseHeld(h) \/ AfterMergeLane(h) \/ Evaluate(h) \/ MergePullRequest(h)
    BY <2>1, <2>2, <2>6 DEF AfterReleaseHeld, AfterMergeLane, Evaluate, MergePullRequest
  <2>7. CASE AfterRefusal(h) \/ MarkMerged(h) \/ WriteMergedStage(h) \/ EndPause(h) \/ Pause(h)
    BY <2>1, <2>2, <2>7 DEF AfterRefusal, MarkMerged, WriteMergedStage, EndPause, Pause
  <2>8. CASE \/ MergeTarget(h) \/ Observe(h) \/ RetryConflict(h) \/ WorkerCompletes(h)
             \/ StartMerge(h)
    BY <2>1, <2>2, <2>8 DEF MergeTarget, Observe, RetryConflict, WorkerCompletes, StartMerge
  <2> QED BY <2>3, <2>4, <2>5, <2>6, <2>7, <2>8 DEF Deliver, Choose
<1> QED BY <1>1, <1>2 DEF LaneEnds

\* Only the merge of a pull request moves the Target branch.
LEMMA TurnTarget ==
  ASSUME flow \in [Home -> Flow], NEW h \in Home, Deliver(h) \/ Choose(h) \/ Pause(h),
         target' # target
  PROVE  /\ In(h, "merge") /\ UNCHANGED <<lane, held>>
         /\ target' = [sha |-> target.sha + 1,
                       by |-> IF HoldsLane(held[h]) THEN "holder" ELSE "home"]
         /\ Go(h, "mark") \/ Go(h, "refused")
<1>1. ~Choose(h) /\ ~Pause(h)
  BY DEF Choose, StartRefresh, RetryConflict, StartMerge, Pause, forge
<1>2. MergePullRequest(h)
  BY <1>1
  DEF Deliver, AfterLane, EnsureWorkspace, MergeTarget, LaunchWorker, WorkerCompletes,
      WorkerFails, Finish, VerifyLocally, PushIntegration, ReleaseForPrChecks, AfterRelease,
      FailTargetRefresh, AfterRecord, AfterReleaseHeld, AfterMergeLane, Observe, Evaluate,
      AfterRefusal, MarkMerged, WriteMergedStage, EndPause, forge
<1>3. UNCHANGED <<lane, held>>
  BY <1>1, <1>2 DEF Deliver, MergePullRequest, NoQueueStep
<1> QED BY <1>2, <1>3 DEF MergePullRequest

LEMMA TurnTargetBase ==
  ASSUME DeliveryInv, NEW h \in Home, Deliver(h) \/ Choose(h) \/ Pause(h)
  PROVE  MovesTarget(h)
<1> SUFFICES ASSUME target' # target
             PROVE  /\ target'.by = "holder" => HoldsLane(held[h]) /\ UNCHANGED <<lane, held>>
                    /\ flow'[h].at \notin {"evaluate", "merge"}
  BY DEF MovesTarget
<1>1. flow \in [Home -> Flow]
  BY HomeFacts DEF SessionType
<1>2. /\ UNCHANGED <<lane, held>>
      /\ target' = [sha |-> target.sha + 1,
                    by |-> IF HoldsLane(held[h]) THEN "holder" ELSE "home"]
      /\ Go(h, "mark") \/ Go(h, "refused")
  BY <1>1, TurnTarget
<1>3. flow'[h].at \in {"mark", "refused"}
  BY <1>1, <1>2, WhereFlows
<1> QED BY <1>2, <1>3

LEMMA TurnLooked ==
  ASSUME flow \in [Home -> Flow], NEW h \in Home, Deliver(h) \/ Choose(h) \/ Pause(h)
  PROVE  Looked(h)
<1> DEFINE Away == flow'[h].at \notin {"evaluate", "merge"}
<1>0. Away => Looked(h)
  BY DEF Looked
<1>1. flow' = flow => Looked(h)
  BY DEF Looked
<1>2. Return(h) \/ (\E kind : Fail(h, kind)) => Away
  BY WhereFlows
<1>3. ASSUME NEW at, Go(h, at), at \notin {"evaluate", "merge"} PROVE Away
  BY <1>3, WhereFlows
<1>4. CASE StartRefresh(h) \/ AfterLane(h) \/ EnsureWorkspace(h) \/ LaunchWorker(h)
  BY <1>0, <1>2, <1>3, <1>4 DEF StartRefresh, AfterLane, EnsureWorkspace, LaunchWorker
<1>5. CASE WorkerFails(h) \/ Finish(h) \/ VerifyLocally(h) \/ PushIntegration(h)
  BY <1>0, <1>2, <1>3, <1>5 DEF WorkerFails, Finish, VerifyLocally, PushIntegration
<1>6. CASE ReleaseForPrChecks(h) \/ AfterRelease(h) \/ FailTargetRefresh(h) \/ AfterRecord(h)
  BY <1>0, <1>2, <1>3, <1>6 DEF ReleaseForPrChecks, AfterRelease, FailTargetRefresh, AfterRecord
<1>7. CASE AfterReleaseHeld(h) \/ AfterMergeLane(h) \/ MergePullRequest(h)
  BY <1>0, <1>2, <1>3, <1>7 DEF AfterReleaseHeld, AfterMergeLane, MergePullRequest
<1>8. CASE AfterRefusal(h) \/ MarkMerged(h) \/ WriteMergedStage(h)
  BY <1>0, <1>2, <1>3, <1>8 DEF AfterRefusal, MarkMerged, WriteMergedStage
<1>9. CASE EndPause(h) \/ Pause(h)
  BY <1>1, <1>9 DEF EndPause, Pause
<1>10. CASE MergeTarget(h)
  <2>1. flow'[h].at \in {"finish", "launch", "fail"}
    <3>1. ASSUME NEW at, NEW tip, flow' = [flow EXCEPT ![h].at = at, ![h].target = tip]
          PROVE  flow'[h].at = at
      BY <3>1, GoesTo
    <3> QED BY <1>10, <3>1, WhereFlows DEF MergeTarget
  <2> QED BY <1>0, <2>1
<1>11. CASE RetryConflict(h) \/ WorkerCompletes(h)
  <2>1. flow'[h].at \in {"finish", "launch"}
    BY <1>11, GoesTo DEF RetryConflict, WorkerCompletes
  <2> QED BY <1>0, <2>1
<1>12. CASE StartMerge(h)
  <2>1. flow'[h].at \in {"merge lane", "observe"}
    BY <1>12, StartsAt DEF StartMerge
  <2> QED BY <1>0, <2>1
<1>13. CASE Observe(h)
  <2>1. CASE Return(h)
    BY <1>0, <1>2, <2>1
  <2>2. CASE flow' = [flow EXCEPT ![h].at = "evaluate", ![h].base = target.sha,
                                  ![h].head = head[WorkflowOf[h]]]
    <3>1. target' = target
      BY <1>13 DEF Observe, forge
    <3>2. flow'[h].base = target.sha /\ flow'[h].at = "evaluate"
      <4>1. flow[h] \in Flow
        OBVIOUS
      <4>2. flow'[h] = [flow[h] EXCEPT !.at = "evaluate", !.base = target.sha,
                                       !.head = head[WorkflowOf[h]]]
        BY <2>2
      <4> QED BY <4>1, <4>2 DEF Flow
    <3> QED BY <3>1, <3>2 DEF Looked
  <2> QED BY <1>13, <2>1, <2>2 DEF Observe
<1>14. CASE Evaluate(h)
  <2>1. CASE Return(h)
    BY <1>0, <1>2, <2>1
  <2>2. CASE Go(h, "merge")
    <3>2. flow[h].base = flow[h].snapshot.validatedTargetSha
      <4>1. ~Return(h)
        BY <2>2, WhereFlows
      <4> QED BY <1>14, <4>1 DEF Evaluate, MergeFreshness
    <3> QED BY <1>14, <2>2, <3>2, WhereBase DEF Looked, Evaluate, In
  <2> QED BY <1>14, <2>1, <2>2 DEF Evaluate
<1> QED BY <1>4, <1>5, <1>6, <1>7, <1>8, <1>9, <1>10, <1>11, <1>12, <1>13, <1>14 DEF Deliver, Choose

LEMMA TurnGentle ==
  ASSUME flow \in [Home -> Flow], NEW h \in Home, Deliver(h) \/ Choose(h) \/ Pause(h)
  PROVE  Gentle(h)
<1> DEFINE NotAsking == {"record-failure", "release-held-target-lease",
                      "renew-held-target-lease", "release-for-pr-checks", "mark-merged"}
<1>1. ASSUME NEW c, Give(h, c), c.kind \in NotAsking PROVE Gentle(h)
  BY <1>1 DEF Gentle
<1>2. frame' = frame /\ (frame[h] = Idle \/ flow[h].at \notin Asking) => Gentle(h)
  BY DEF Gentle
<1>3. RenewHeld.kind = "renew-held-target-lease"
  BY DEF RenewHeld
<1>4. /\ \A kind, reason : Give(h, Record(kind, reason)) => Gentle(h)
      /\ Give(h, ReleaseHeld) => Gentle(h)
      /\ \A freshness, admit : Give(h, ForPrChecks(freshness, admit)) => Gentle(h)
      /\ Give(h, Merged) => Gentle(h)
      /\ Give(h, RenewHeld) => Gentle(h)
  BY <1>1, <1>3, CommandKinds
<1>5. ASSUME NEW phase, Give(h, Acquire(phase)), flow'[h].at \in Asking PROVE Gentle(h)
  <2>1. Acquire(phase).kind = "acquire-phase"
    BY DEF Acquire
  <2> QED BY <1>5, <2>1 DEF Gentle
<1> HIDE DEF NotAsking
<1>6. NoQueueStep => frame' = frame
  BY DEF NoQueueStep
<1>7. CASE StartRefresh(h)
  <2>1. CASE UNCHANGED <<frame, reply>>
    BY <1>2, <1>7, <2>1 DEF StartRefresh, Free
  <2>2. CASE Go(h, "lane") /\ Give(h, Acquire("refresh"))
    BY <1>5, <2>2, WhereFlows DEF Asking
  <2> QED BY <1>7, <2>1, <2>2 DEF StartRefresh
<1>8. CASE StartMerge(h)
  <2>1. CASE UNCHANGED <<frame, reply>>
    BY <1>2, <1>8, <2>1 DEF StartMerge, Free
  <2>2. CASE flow' = [flow EXCEPT ![h].at = "merge lane", ![h].snapshot = Own(h)]
             /\ Give(h, Acquire("merge"))
    <3>1. flow'[h].at = "merge lane"
      BY <2>2, StartsAt
    <3> QED BY <1>5, <2>2, <3>1 DEF Asking
  <2> QED BY <1>8, <2>1, <2>2 DEF StartMerge
<1>9. CASE AfterLane(h) \/ MergeTarget(h) \/ VerifyLocally(h) \/ AfterReleaseHeld(h)
           \/ AfterMergeLane(h) \/ WriteMergedStage(h) \/ EndPause(h) \/ RetryConflict(h)
  BY <1>2, <1>6, <1>9 DEF AfterLane, MergeTarget, VerifyLocally, AfterReleaseHeld,
                         AfterMergeLane, WriteMergedStage, EndPause, RetryConflict, Free
<1>10. CASE LaunchWorker(h) \/ PushIntegration(h) \/ MergePullRequest(h)
            \/ WorkerCompletes(h) \/ WorkerFails(h)
  BY <1>2, <1>6, <1>10 DEF LaunchWorker, PushIntegration, MergePullRequest, WorkerCompletes,
                          WorkerFails, In, Asking
<1>11. CASE EnsureWorkspace(h) \/ Finish(h) \/ ReleaseForPrChecks(h) \/ AfterRelease(h)
  BY <1>2, <1>4, <1>11 DEF EnsureWorkspace, Finish, ReleaseForPrChecks, AfterRelease, Free
<1>12. CASE FailTargetRefresh(h) \/ AfterRecord(h) \/ Observe(h) \/ Evaluate(h)
  BY <1>2, <1>4, <1>12 DEF FailTargetRefresh, AfterRecord, Observe, Evaluate, Free
<1>13. CASE AfterRefusal(h) \/ MarkMerged(h) \/ Pause(h)
  BY <1>2, <1>4, <1>13 DEF AfterRefusal, MarkMerged, Pause, Free
<1> QED BY <1>7, <1>8, <1>9, <1>10, <1>11, <1>12, <1>13 DEF Deliver, Choose

LEMMA TurnBase ==
  ASSUME DeliveryInv, BaseInv, NEW h \in Home, Deliver(h) \/ Choose(h) \/ Pause(h)
  PROVE  BaseInv'
<1>1. TypeOK /\ flow \in [Home -> Flow]
  BY HomeFacts DEF SessionType
<1> QED BY <1>1, TurnLane, TurnGentle, TurnLooked, TurnTargetBase, OthersFlow, FlowBase

\* Home, forge and lease service between the steps of the flows.
LEMMA WorldBase ==
  ASSUME DeliveryInv, BaseInv, UNCHANGED <<frame, held, flow>>,
         lane'.generation = lane.generation, lane'.live => lane.live,
         target' = target \/ target'.by = "somebody"
  PROVE  BaseInv'
<1>1. OneHolder'
  BY DEF BaseInv, OneHolder
<1>2. ASSUME NEW k \in Home PROVE BaseAt(k)'
  BY DEF BaseInv, BaseAt, HoldsLane
<1> QED BY <1>1, <1>2 DEF BaseInv

LEMMA RestartBase ==
  ASSUME DeliveryInv, BaseInv, NEW h \in Home, Restart(h)
  PROVE  BaseInv'
<1>1. /\ TypeOK /\ flow \in [Home -> Flow]
      /\ frame' = [frame EXCEPT ![h] = Idle] /\ held' = [held EXCEPT ![h] = 0]
      /\ lane' = lane /\ target' = target /\ flow' = [flow EXCEPT ![h] = NoFlow]
  BY HomeFacts DEF SessionType, Restart, Crash, forge
<1>2. OneHolder' /\ \A k \in Home : HoldsLane(held[k])' =>
        (held'[k] = held[k] /\ HoldsLane(held[k])) \/ (k = h /\ GrantsTo(h))
  BY <1>1, OneHolderAfter DEF BaseInv, LaneEnds
<1>3. ASSUME NEW k \in Home PROVE BaseAt(k)'
  <2>1. CASE k = h
    <3>1. frame'[h].todo = <<>> /\ flow'[h].at = "none"
      BY <1>1, IdleFrame DEF TypeOK, NoFlow
    <3> QED BY <2>1, <3>1, NoTake DEF BaseAt
  <2>2. CASE k # h
    <3>1. frame'[k] = frame[k] /\ flow'[k] = flow[k]
      BY <1>1, <2>2 DEF TypeOK
    <3> QED BY <1>1, <1>2, <2>2, <3>1 DEF BaseInv, BaseAt
  <2> QED BY <2>1, <2>2
<1> QED BY <1>2, <1>3 DEF BaseInv

LEMMA BaseStep == DeliveryInv /\ BaseInv /\ [DeliveryNext]_deliveryVars => BaseInv'
<1> SUFFICES ASSUME DeliveryInv, BaseInv, [DeliveryNext]_deliveryVars PROVE BaseInv'
  OBVIOUS
<1>1. CASE UNCHANGED deliveryVars
  BY <1>1, WorldBase DEF deliveryVars, vars, session, forge
<1>2. ASSUME NEW h \in Home, Work(h) \/ Choose(h) \/ Pause(h) PROVE BaseInv'
  <2>1. CASE Run(h) /\ UNCHANGED <<forge, tree, session>>
    BY <2>1, RunBase
  <2> QED BY <1>2, <2>1, TurnBase DEF Work
<1>3. ASSUME NEW h \in Home, Restart(h) PROVE BaseInv'
  BY <1>3, RestartBase
<1>4. ASSUME NEW w \in Workflow, HeadMoves(w) PROVE BaseInv'
  BY <1>4, WorldBase DEF HeadMoves, NoQueueStep, session
<1>5. ASSUME NEW w \in Workflow, OwnerEnds(w), UNCHANGED <<forge, tree, session>> PROVE BaseInv'
  BY <1>5, WorldBase DEF OwnerEnds, session, forge
<1>6. CASE LaneLapses
  <2>1. lane'.generation = lane.generation /\ ~lane'.live
    BY <1>6, DeliveryParts DEF LaneLapses, DeliveryInv, TypeOK
  <2> QED BY <1>6, <2>1, WorldBase DEF LaneLapses, NoQueueStep, session, forge
<1>7. CASE TargetMoves
  <2>1. target'.by = "somebody"
    BY <1>7 DEF TargetMoves
  <2> QED BY <1>7, <2>1, WorldBase DEF TargetMoves, NoQueueStep, session
<1> QED BY <1>1, <1>2, <1>3, <1>4, <1>5, <1>6, <1>7 DEF DeliveryNext

LEMMA InitBase == DeliveryInit => BaseInv
<1> SUFFICES ASSUME DeliveryInit PROVE BaseInv
  OBVIOUS
<1>1. /\ held = [h \in Home |-> 0] /\ lane.generation = 0
      /\ frame = [h \in Home |-> Idle] /\ flow = [h \in Home |-> NoFlow]
  BY DEF DeliveryInit, Init
<1>2. \A h \in Home : frame[h].todo = <<>> /\ flow[h].at = "none"
  BY <1>1, IdleFrame DEF NoFlow
<1> QED BY <1>1, <1>2, NoTake DEF BaseInv, OneHolder, BaseAt

\* A merge under the lane goes onto the very Target commit the PR was refreshed against,
\* however many other workflows merge under the lane, if nothing else moved the Target
\* branch after the home looked at it.
THEOREM MergesUnderTheLaneAreFresh == DeliverySpec => LaneKeepsBaseFresh
<1> DEFINE Fine(h) == /\ Merges(h) /\ HoldsLane(held[h])
                      /\ target.sha # flow[h].base => target.by = "holder"
                      => Own(h).validatedTargetSha = target.sha
<1>1. DeliveryInv /\ BaseInv /\ [DeliveryNext]_deliveryVars => \A h \in Home : Fine(h)
  <2> SUFFICES ASSUME DeliveryInv, BaseInv, [DeliveryNext]_deliveryVars, NEW h \in Home,
                      Merges(h), HoldsLane(held[h]),
                      target.sha # flow[h].base => target.by = "holder"
               PROVE  Own(h).validatedTargetSha = target.sha
    OBVIOUS
  <2>1. In(h, "merge") /\ FlowInv(h)
    BY OnlyMergePullRequestMerges
  <2>2. target.sha = flow[h].base
    BY <2>1 DEF In, BaseInv, BaseAt
  <2>3. flow[h].base = flow[h].snapshot.validatedTargetSha
        /\ flow[h].snapshot.validatedTargetSha = Own(h).validatedTargetSha
    BY <2>1 DEF In, BaseInv, BaseAt, FlowInv, Knows, Merging, SameRefresh
  <2> QED BY <2>2, <2>3
<1>2. DeliverySpec => []BaseInv
  BY InitBase, BaseStep, DeliveryInductive, PTL DEF DeliverySpec
<1> QED BY <1>1, <1>2, DeliveryInductive, PTL DEF DeliverySpec, LaneKeepsBaseFresh
=============================================================================
