-------------------------- MODULE WorkflowLifecycle --------------------------
(***************************************************************************)
(* A workflow from its spec to its cleanup, and the home that drives it    *)
(* (src/src/coordinator.ts: loadWorkflowHomeRoute, confirmCreateSpec,      *)
(* confirmCreateTickets, cleanupWorkflow, startFollowUpWorkflow,           *)
(* resumeWorkflow; src/src/adapters/workflow-manifest.ts).                 *)
(*                                                                         *)
(* The tracker holds the spec issues, the ticket issues and one manifest   *)
(* for each workflow.  A home keeps a binding on disk, and a route and a   *)
(* coordinator lease in memory.  A command loads the route, or takes the   *)
(* cached one, and then goes through awaited calls that can each fail; the *)
(* manifest it writes at the end is made from the copy it loaded.  Beside  *)
(* it the panel reads the tracker and stores a route too.                  *)
(*                                                                         *)
(* A coordinator lease behaves as CoordinationLease shows.  What happens   *)
(* between the tickets and the merge is ImplementationPipeline and         *)
(* TargetDelivery: here a ticket is integrated and the PR merged by one    *)
(* manifest write each.                                                    *)
(***************************************************************************)
EXTENDS Integers, FiniteSets

CONSTANTS Homes,
          Founders,      \* bound: the homes that start workflows; the others take them over
          Tickets,       \* the tickets of a draft, in the order they are published
          MaxWorkflows,  \* bound on spec issues
          MaxDrafts,     \* bound on drafts
          MaxCrashes,    \* bound on sessions that die
          MaxFaults,     \* bound on failed calls, lost answers and late renewals
          ReadsAreShort, \* bound: is a copy that was read, or cached, before its lease is
                         \* acquired still current when it is: no other home has worked on
                         \* the workflow and given its lease up in between
          Panels,        \* bound: the homes whose panel reads the tracker
          PollsBeside,   \* bound: may the panel read while a command runs
          LeasesOutlast  \* bound: does a lease that is held last as long as its session

ASSUME LifecycleAssumption ==
  /\ Homes \subseteq Nat \ {0} /\ IsFiniteSet(Homes)
  /\ Founders \subseteq Homes /\ Panels \subseteq Homes
  /\ Tickets \subseteq Nat \ {0} /\ IsFiniteSet(Tickets)
  /\ MaxWorkflows \in Nat \ {0} /\ MaxDrafts \in Nat /\ MaxCrashes \in Nat /\ MaxFaults \in Nat
  /\ ReadsAreShort \in BOOLEAN /\ PollsBeside \in BOOLEAN /\ LeasesOutlast \in BOOLEAN

VARIABLES manifest,  \* the managed comment of each spec issue
          origin,    \* the draft each spec issue was made from, 0 before it is made
          open,      \* spec issues that are open
          published, \* ticket issues, by draft and ticket
          linked,    \* those that are sub-issues with all their blockers
          remote,    \* workflows with branches on the remote
          files,     \* workspaces and transcripts, by home and workflow
          lease,     \* the coordinator lease of each workflow
          session,   \* the session each home is in
          binding,   \* the home's binding on disk
          held,      \* heldWorkflowCoordinatorLease
          cache,     \* workflowHomeRouteTtl
          pending,   \* the stage confirmation that is pending
          last,      \* lastCompletedWorkflow
          unit,      \* pendingIntegration: the ticket that has the Integration slot
          flow,      \* where the command of each home is
          poll,      \* what the panel of each home has read
          drafts, crashes, faults

tracker == <<manifest, origin, open, published, linked>>
artifacts == <<remote, files>>
authority == <<lease, held>>
memory == <<cache, pending, last, unit>>
counts == <<session, drafts, crashes>>
vars == <<tracker, artifacts, authority, memory, binding, flow, poll, counts, faults>>

Workflows == 1..MaxWorkflows
Stages == <<"none", "spec-published", "tickets-published", "merged", "completed">>
Rank(stage) == CHOOSE i \in 1..5 : Stages[i] = stage
NoManifest == [id |-> 0, stage |-> "none", tickets |-> {}, integrated |-> {}]
Nobody == <<0, 0>>
NoRoute == [kind |-> "none", active |-> NoManifest]
\* Mutant: a home without a workflow counts as bound.
UnboundBound == [NoRoute EXCEPT !.kind = "bound"]
Unbound == [NoRoute EXCEPT !.kind = "selection-required"]
NoDraft == [kind |-> "none", id |-> 0, of |-> 0]
NoPoll == [at |-> "idle", seen |-> {}]
Idle == [at |-> "idle", cmd |-> "none", ticket |-> 0, draft |-> 0, active |-> NoManifest, seen |-> {}]

Sessions == Homes \X (1..(MaxCrashes + 1))
Issues == (1..MaxDrafts) \X Tickets
Places == {"idle", "route", "create", "claim", "found", "bind", "tickets", "push", "local",
           "remote", "confirm", "write", "close", "unbind"}
Commands == {"none", "create-spec", "create-tickets", "publish-spec", "publish-tickets",
             "integrate", "merge", "cleanup", "follow-up", "resume"}
Manifests == [id : 0..MaxWorkflows, stage : {Stages[i] : i \in 1..5},
              tickets : SUBSET Issues, integrated : SUBSET Tickets]
Copies == {m \in Manifests : m.id # 0}
Routes == [kind : {"none", "selection-required", "bound", "lease-held"}, active : Manifests]
Drafts == [kind : {"none", "spec", "tickets"}, id : 0..MaxDrafts, of : 0..MaxWorkflows]
Flows == [at : Places, cmd : Commands, ticket : Tickets \cup {0}, draft : 0..MaxDrafts,
          active : Manifests, seen : SUBSET Copies]
Polls == [at : {"idle", "route"}, seen : SUBSET Copies]

LifecycleTypeOK ==
  /\ manifest \in [Workflows -> Manifests]
  /\ \A w \in Workflows : manifest[w] = NoManifest \/ manifest[w].id = w
  /\ origin \in [Workflows -> 0..(MaxDrafts + MaxWorkflows)]
  /\ open \subseteq Workflows /\ remote \subseteq Workflows
  /\ published \subseteq Issues /\ linked \subseteq published
  /\ files \subseteq Homes \X Workflows
  /\ lease \in [Workflows -> Sessions \cup {Nobody}]
  /\ session \in [Homes -> 1..(crashes + 1)]
  /\ binding \in [Homes -> 0..MaxWorkflows] /\ held \in [Homes -> 0..MaxWorkflows]
  /\ last \in [Homes -> 0..MaxWorkflows] /\ unit \in [Homes -> Tickets \cup {0}]
  /\ cache \in [Homes -> Routes]
  /\ \A h \in Homes : cache[h].kind \in {"bound", "lease-held"} => cache[h].active.id # 0
  /\ pending \in [Homes -> Drafts] /\ flow \in [Homes -> Flows] /\ poll \in [Homes -> Polls]
  /\ drafts \in 0..MaxDrafts /\ crashes \in 0..MaxCrashes /\ faults \in 0..MaxFaults

LifecycleInit ==
  /\ manifest = [w \in Workflows |-> NoManifest] /\ origin = [w \in Workflows |-> 0]
  /\ open = {} /\ published = {} /\ linked = {} /\ remote = {} /\ files = {}
  /\ lease = [w \in Workflows |-> Nobody]
  /\ session = [h \in Homes |-> 1]
  /\ binding = [h \in Homes |-> 0] /\ held = [h \in Homes |-> 0] /\ last = [h \in Homes |-> 0]
  /\ unit = [h \in Homes |-> 0]
  /\ cache = [h \in Homes |-> NoRoute] /\ pending = [h \in Homes |-> NoDraft]
  /\ flow = [h \in Homes |-> Idle] /\ poll = [h \in Homes |-> NoPoll]
  /\ drafts = 0 /\ crashes = 0 /\ faults = 0

Well == UNCHANGED faults
Fault == faults < MaxFaults /\ faults' = faults + 1

Me(h) == <<h, session[h]>>
Doing(h, cmd) == flow[h].cmd = cmd
Work(h) == flow[h].active.id
Go(h, at) == flow' = [flow EXCEPT ![h].at = at]
Stop(h) == flow' = [flow EXCEPT ![h] = Idle]
NewSpec(w) == origin[w] = 0 /\ \A v \in 1..(w - 1) : origin[v] # 0
RoomForSpec == \E w \in Workflows : NewSpec(w)
NewDraft == drafts < MaxDrafts /\ drafts' = drafts + 1

(***************************************************************************)
(* Authority                                                               *)
(***************************************************************************)

\* ensureWorkflowCoordinatorLease: a lease that is held is verified, one that
\* is not is acquired.
CanHold(h, w) == IF held[h] = w THEN lease[w] = Me(h) ELSE lease[w] = Nobody

Released(h, w) == [v \in Workflows |-> IF v = w /\ lease[v] = Me(h) THEN Nobody ELSE lease[v]]

\* The lease of another workflow is released first; a call that throws leaves
\* things as they are.
Ensured(h, w, ok) ==
  \/ /\ ok = CanHold(h, w)
     /\ lease' = LET kept == IF held[h] = w THEN lease ELSE Released(h, held[h])
                 IN IF ok THEN [kept EXCEPT ![w] = Me(h)] ELSE kept
     /\ held' = [held EXCEPT ![h] = IF ok THEN w ELSE 0]
     /\ Well
  \/ ~ok /\ Fault /\ UNCHANGED authority

\* A copy that was read before its lease was acquired is still what the tracker has.
Timely(h, copy, ok) == ReadsAreShort /\ ok => held[h] = copy.id \/ copy = manifest[copy.id]

\* ensureActiveWorkflowCoordinatorLease: the binding is read again.
Authorised(h, ok) ==
  IF binding[h] = Work(h) THEN Timely(h, flow[h].active, ok) /\ Ensured(h, Work(h), ok)
                          ELSE ~ok /\ UNCHANGED authority /\ Well

Release(h) ==
  /\ lease' = Released(h, held[h])
  /\ held' = [held EXCEPT ![h] = 0]

(***************************************************************************)
(* Routes                                                                  *)
(***************************************************************************)

\* activeWorkflowsFromIssues: open issues with a manifest that is not completed.
ActiveWorkflows ==
  {manifest[w] : w \in {v \in open : manifest[v].stage \notin {"none", "completed"}}}

\* loadWorkflowHomeRoute, after the tracker was read.  A binding whose workflow
\* is not active any more is cleared.
SetRoute(h, seen) ==
  LET mine == {m \in seen : m.id = binding[h]}
  IN \/ /\ mine = {}
        /\ cache' = [cache EXCEPT ![h] = Unbound]
        /\ binding' = [binding EXCEPT ![h] = 0]
        /\ UNCHANGED authority /\ Well
     \/ \E m \in mine, ok \in BOOLEAN :
          /\ Timely(h, m, ok) /\ Ensured(h, m.id, ok)
          /\ cache' = [cache EXCEPT ![h] = [kind |-> IF ok THEN "bound" ELSE "lease-held", active |-> m]]
          /\ UNCHANGED binding

Forced(cmd) == cmd \in {"create-spec", "follow-up"}

\* What a command c does with the route it got: plan, or go on, or fail.
Plans(h, c, r) ==
  /\ pending[h] = NoDraft
  /\ \/ c.cmd = "create-spec" /\ r.kind = "selection-required"
     \/ c.cmd = "create-tickets" /\ r.kind = "bound" /\ r.active.stage = "spec-published"

\* Mutant: a merge does not wait for the tickets, nor a publication for its stage.
EntersAnyStage(h, c, r) ==
  \/ c.cmd = "follow-up" /\ r.kind = "selection-required" /\ last[h] # 0
  \/ /\ r.kind = "bound"
     /\ \/ c.cmd = "publish-tickets" /\ r.active.id = pending[h].of
        \/ c.cmd = "integrate" /\ r.active.stage = "tickets-published"
        \/ c.cmd = "merge" /\ r.active.stage = "tickets-published"
        \/ c.cmd = "cleanup" /\ r.active.stage = "merged"

Enters(h, c, r) ==
  \/ c.cmd = "follow-up" /\ r.kind = "selection-required" /\ last[h] # 0
  \/ /\ r.kind = "bound"
     /\ \/ /\ c.cmd = "publish-tickets"
           /\ r.active.id = pending[h].of /\ r.active.stage = "spec-published"
        \/ /\ c.cmd = "integrate" /\ r.active.stage = "tickets-published"
           /\ c.ticket \notin r.active.integrated
        \/ /\ c.cmd = "merge" /\ r.active.stage = "tickets-published"
           /\ r.active.integrated = Tickets
        \/ c.cmd = "cleanup" /\ r.active.stage = "merged"

FirstStep(cmd) ==
  CASE cmd = "follow-up" -> "create"
    [] cmd = "publish-tickets" -> "tickets"
    [] cmd = "integrate" -> "push"
    [] cmd = "merge" -> "confirm"
    [] cmd = "cleanup" -> "local"

Proceed(h, c, r) ==
  /\ flow' = [flow EXCEPT ![h] = IF ~Enters(h, c, r) THEN Idle
                                 ELSE [c EXCEPT !.at = FirstStep(c.cmd), !.seen = {},
                                                !.active = r.active, !.draft = pending[h].id]]
  /\ unit' = IF c.cmd = "integrate" /\ Enters(h, c, r) THEN [unit EXCEPT ![h] = c.ticket] ELSE unit
  /\ IF Plans(h, c, r)
     THEN /\ NewDraft
          /\ pending' = [pending EXCEPT ![h] =
                [kind |-> IF c.cmd = "create-spec" THEN "spec" ELSE "tickets",
                 id |-> drafts + 1, of |-> r.active.id]]
     ELSE /\ pending' = IF c.cmd = "publish-tickets" /\ ~Enters(h, c, r)
                        THEN [pending EXCEPT ![h] = NoDraft] ELSE pending
          /\ UNCHANGED drafts

(***************************************************************************)
(* Commands                                                                *)
(***************************************************************************)

\* The cached route is taken unless the command forces a read.
LoadRoute(h, c) ==
  IF cache[h] # NoRoute /\ ~Forced(c.cmd)
  THEN Proceed(h, c, cache[h]) /\ Well
  ELSE /\ UNCHANGED <<pending, drafts, unit>>
       /\ \/ flow' = [flow EXCEPT ![h] = [c EXCEPT !.at = "route", !.seen = ActiveWorkflows]] /\ Well
          \/ UNCHANGED flow /\ Fault

\* runNextAction and confirmStage: one command of a home at a time.  What the
\* panel reads is used before the next command begins.
Begin(h, cmd, t) ==
  /\ flow[h].at = "idle" /\ poll[h] = NoPoll
  /\ CASE cmd = "create-spec" -> h \in Founders /\ pending[h] = NoDraft /\ drafts < MaxDrafts
       [] cmd = "create-tickets" -> pending[h] = NoDraft /\ drafts < MaxDrafts
       [] cmd = "publish-tickets" -> pending[h].kind = "tickets"
       [] cmd = "follow-up" -> h \in Founders /\ last[h] # 0 /\ RoomForSpec
       [] cmd = "integrate" -> unit[h] \in {0, t}
       [] OTHER -> TRUE
  /\ LoadRoute(h, [Idle EXCEPT !.cmd = cmd, !.ticket = t])
  /\ UNCHANGED <<tracker, artifacts, authority, cache, last, binding, poll, session, crashes>>

RouteCommand(h) ==
  /\ flow[h].at = "route"
  /\ SetRoute(h, flow[h].seen)
  /\ Proceed(h, flow[h], cache'[h])
  /\ UNCHANGED <<tracker, artifacts, last, poll, session, crashes>>

\* confirmStage("cancel"), and the first half of "revise".
Cancel(h) ==
  /\ flow[h].at = "idle" /\ pending[h] # NoDraft
  /\ pending' = [pending EXCEPT ![h] = NoDraft]
  /\ Well
  /\ UNCHANGED <<tracker, artifacts, authority, cache, last, unit, binding, flow, poll, counts>>

(***************************************************************************)
(* A new workflow: confirmCreateSpec and startFollowUpWorkflow             *)
(***************************************************************************)

BeginPublish(h) ==
  /\ flow[h].at = "idle" /\ pending[h].kind = "spec" /\ poll[h] = NoPoll /\ RoomForSpec
  /\ flow' = [flow EXCEPT ![h] = [Idle EXCEPT !.at = "create", !.cmd = "publish-spec",
                                              !.draft = pending[h].id]]
  /\ Well
  /\ UNCHANGED <<tracker, artifacts, authority, memory, binding, poll, counts>>

\* Mutant: a confirmation whose workflow was not finished stays pending.
SettledKept(h) == UNCHANGED pending

\* The confirmation is over, however it ended.
Settled(h) ==
  pending' = IF flow[h].cmd \in {"publish-spec", "publish-tickets"}
             THEN [pending EXCEPT ![h] = NoDraft] ELSE pending

\* The issue may exist although no answer says so; the draft then stays pending.
CreateSpecIssue(h) ==
  /\ flow[h].at = "create"
  /\ \E w \in Workflows :
       /\ NewSpec(w)
       /\ LET draft == IF Doing(h, "follow-up") THEN MaxDrafts + w ELSE flow[h].draft
          IN \/ /\ origin' = [origin EXCEPT ![w] = draft] /\ open' = open \cup {w}
                /\ \/ flow' = [flow EXCEPT ![h].at = "claim", ![h].draft = 0,
                                           ![h].active = [NoManifest EXCEPT !.id = w]] /\ Well
                   \/ Stop(h) /\ Fault
             \/ UNCHANGED <<origin, open>> /\ Stop(h) /\ Fault
  /\ UNCHANGED <<manifest, published, linked, artifacts, authority, memory, binding, poll, counts>>

ClaimWorkflow(h) ==
  /\ flow[h].at = "claim"
  /\ \E ok \in BOOLEAN :
       /\ Ensured(h, Work(h), ok)
       /\ IF ok THEN Go(h, "found") /\ UNCHANGED pending ELSE Stop(h) /\ Settled(h)
  /\ UNCHANGED <<tracker, artifacts, cache, last, unit, binding, poll, counts>>

\* The first manifest; a write that throws may have been made.
FoundWorkflow(h) ==
  /\ flow[h].at = "found"
  /\ LET founded == [manifest EXCEPT ![Work(h)] =
                       [NoManifest EXCEPT !.id = Work(h), !.stage = "spec-published"]]
     IN \/ manifest' = founded /\ Go(h, "bind") /\ Well /\ UNCHANGED <<authority, pending>>
        \/ /\ manifest' \in {manifest, founded}
           /\ Settled(h) /\ Release(h) /\ Stop(h) /\ Fault
  /\ UNCHANGED <<origin, open, published, linked, artifacts, cache, last, unit, binding, poll, counts>>

\* persistWorkflowHomeBinding
BindHome(h) ==
  /\ flow[h].at = "bind"
  /\ \/ /\ binding' = [binding EXCEPT ![h] = Work(h)]
        /\ cache' = [cache EXCEPT ![h] = NoRoute]
        /\ last' = IF Doing(h, "follow-up") THEN [last EXCEPT ![h] = 0] ELSE last
        /\ Well /\ UNCHANGED authority
     \/ Release(h) /\ Fault /\ UNCHANGED <<binding, cache, last>>
  /\ Settled(h) /\ Stop(h)
  /\ UNCHANGED <<tracker, artifacts, unit, poll, counts>>

\* resumeWorkflow: an active workflow is claimed, then bound.
Resume(h, w) ==
  /\ flow[h].at = "idle" /\ poll[h] = NoPoll /\ cache[h].kind # "bound"
  /\ manifest[w] \in ActiveWorkflows
  /\ \E ok \in BOOLEAN :
       /\ Ensured(h, w, ok)
       /\ flow' = IF ok THEN [flow EXCEPT ![h] = [Idle EXCEPT !.at = "bind", !.cmd = "resume",
                                                              !.active = manifest[w]]]
                  ELSE flow
  /\ UNCHANGED <<tracker, artifacts, memory, binding, poll, counts>>

(***************************************************************************)
(* The steps of a command that works on a workflow                         *)
(***************************************************************************)

\* A command that lost its authority, or a call, ends.
Fail(h) == Stop(h) /\ Settled(h)

NextTicket(h, t) ==
  /\ <<flow[h].draft, t>> \notin published
  /\ \A u \in Tickets : u < t => <<flow[h].draft, u>> \in published

\* refreshPublishAuthority: the lease is verified before the first ticket, and
\* after that when its heartbeat is due.
Refreshed(h, t, ok) ==
  \/ Authorised(h, ok)
  \/ /\ ok /\ held[h] = Work(h) /\ \E u \in Tickets : u < t
     /\ UNCHANGED authority /\ Well

Published(h, t) == /\ published' = published \cup {<<flow[h].draft, t>>}
                   /\ IF \A u \in Tickets : u <= t THEN Go(h, "confirm") ELSE UNCHANGED flow
                   /\ UNCHANGED pending

\* Mutant: a ticket whose links failed counts as published.
PublishTicketUnlinked(h) ==
  /\ flow[h].at = "tickets"
  /\ \E t \in Tickets, ok \in BOOLEAN :
       /\ NextTicket(h, t) /\ Refreshed(h, t, ok)
       /\ IF ok THEN Published(h, t) ELSE Fail(h) /\ UNCHANGED published
       /\ linked' \in {linked, linked \cup published'}
  /\ UNCHANGED <<manifest, origin, open, artifacts, cache, last, unit, binding, poll, counts>>

\* One ticket of the draft, blockers first: the issue, its parent, its blockers.
\* Whatever throws ends the publication.
PublishTicket(h) ==
  /\ flow[h].at = "tickets"
  /\ \E t \in Tickets, ok \in BOOLEAN :
       /\ NextTicket(h, t)
       /\ \/ /\ Refreshed(h, t, ok)
             /\ IF ok THEN Published(h, t) /\ linked' = linked \cup {<<flow[h].draft, t>>}
                      ELSE Fail(h) /\ UNCHANGED <<published, linked>>
          \/ /\ ok /\ held[h] = Work(h)
             /\ published' \in {published, published \cup {<<flow[h].draft, t>>}}
             /\ UNCHANGED linked /\ Fail(h) /\ Fault /\ UNCHANGED authority
  /\ UNCHANGED <<manifest, origin, open, artifacts, cache, last, unit, binding, poll, counts>>

\* An Integration unit pushes its branches from a workspace of this home.
PushBranches(h) ==
  /\ flow[h].at = "push"
  /\ \E ok \in BOOLEAN :
       /\ Authorised(h, ok)
       /\ IF ok THEN Go(h, "confirm") /\ remote' = remote \cup {Work(h)}
                ELSE Stop(h) /\ UNCHANGED remote
  /\ files' = files \cup {<<h, Work(h)>>}
  /\ UNCHANGED <<tracker, memory, binding, poll, counts>>

\* Mutant: a cleanup needs the workspaces it removes.
RemoveFilesPresent(h) ==
  /\ flow[h].at = "local"
  /\ \E ok \in BOOLEAN :
       /\ Authorised(h, ok)
       /\ IF ok /\ <<h, Work(h)>> \in files
          THEN Go(h, "remote") /\ files' = files \ {<<h, Work(h)>>}
          ELSE Stop(h) /\ UNCHANGED files
  /\ UNCHANGED <<tracker, remote, memory, binding, poll, counts>>

RemoveFiles(h) ==
  /\ flow[h].at = "local"
  /\ \E ok \in BOOLEAN :
       /\ Authorised(h, ok)
       /\ IF ok THEN Go(h, "remote") /\ files' = files \ {<<h, Work(h)>>}
                ELSE Stop(h) /\ UNCHANGED files
  /\ UNCHANGED <<tracker, remote, memory, binding, poll, counts>>

\* Mutant: a branch that cannot be deleted does not stop the cleanup.
DeleteBranchesUnheeded(h) ==
  /\ flow[h].at = "remote"
  /\ \E ok \in BOOLEAN : Authorised(h, ok) /\ remote' = IF ok THEN remote \ {Work(h)} ELSE remote
  /\ Go(h, "confirm")
  /\ UNCHANGED <<tracker, files, memory, binding, poll, counts>>

DeleteBranches(h) ==
  /\ flow[h].at = "remote"
  /\ \E ok \in BOOLEAN :
       /\ Authorised(h, ok)
       /\ IF ok THEN Go(h, "confirm") /\ remote' = remote \ {Work(h)}
                ELSE Stop(h) /\ UNCHANGED remote
  /\ UNCHANGED <<tracker, files, memory, binding, poll, counts>>

ConfirmAuthority(h) ==
  /\ flow[h].at = "confirm"
  /\ \E ok \in BOOLEAN :
       /\ Authorised(h, ok)
       /\ IF ok THEN Go(h, "write") /\ UNCHANGED pending ELSE Fail(h)
  /\ UNCHANGED <<tracker, artifacts, cache, last, unit, binding, poll, counts>>

\* manifestFromActive: the copy that was loaded, with what this command adds.
Updated(h) ==
  LET m == flow[h].active
  IN CASE flow[h].cmd = "publish-tickets" ->
            [m EXCEPT !.stage = "tickets-published", !.tickets = {flow[h].draft} \X Tickets]
       [] flow[h].cmd = "integrate" -> [m EXCEPT !.integrated = @ \cup {flow[h].ticket}]
       [] flow[h].cmd = "merge" -> [m EXCEPT !.stage = "merged"]
       [] flow[h].cmd = "cleanup" -> [m EXCEPT !.stage = "completed"]

\* The caches are dropped after a write that was answered.
WriteManifest(h) ==
  /\ flow[h].at = "write"
  /\ LET written == [manifest EXCEPT ![Work(h)] = Updated(h)]
     IN \/ /\ manifest' = written
           /\ cache' = [cache EXCEPT ![h] = NoRoute]
           /\ last' = IF Doing(h, "cleanup") THEN [last EXCEPT ![h] = Work(h)] ELSE last
           /\ unit' = IF Doing(h, "integrate") THEN [unit EXCEPT ![h] = 0] ELSE unit
           /\ IF Doing(h, "cleanup") THEN Go(h, "close") ELSE Stop(h)
           /\ Well
        \/ /\ manifest' \in {manifest, written}
           /\ Stop(h) /\ Fault /\ UNCHANGED <<cache, last, unit>>
  /\ Settled(h)
  /\ UNCHANGED <<origin, open, published, linked, artifacts, authority, binding, poll, counts>>

\* The spec is closed if this home still has the authority and the call works;
\* either way the cleanup goes on.
CloseSpec(h) ==
  /\ flow[h].at = "close"
  /\ \E ok \in BOOLEAN : Authorised(h, ok) /\ open' = IF ok THEN open \ {Work(h)} ELSE open
  /\ Go(h, "unbind")
  /\ UNCHANGED <<manifest, origin, published, linked, artifacts, memory, binding, poll, counts>>

\* clearWorkflowHomeBinding, releaseHeldWorkflowCoordinatorLease
UnbindHome(h) ==
  /\ flow[h].at = "unbind"
  /\ binding' = [binding EXCEPT ![h] = 0]
  /\ Release(h) /\ Stop(h) /\ Well
  /\ cache' = [cache EXCEPT ![h] = NoRoute]
  /\ UNCHANGED <<tracker, artifacts, pending, last, unit, poll, counts>>

(***************************************************************************)
(* The panel, sessions and time                                            *)
(***************************************************************************)

\* getPanelState and nextActions load the route too, and so does every launch.
PollTracker(h) ==
  /\ h \in Panels /\ poll[h] = NoPoll /\ (PollsBeside \/ flow[h].at = "idle")
  /\ poll' = [poll EXCEPT ![h] = [at |-> "route", seen |-> ActiveWorkflows]]
  /\ Well
  /\ UNCHANGED <<tracker, artifacts, authority, memory, binding, flow, counts>>

PollRoute(h) ==
  /\ poll[h].at = "route"
  /\ SetRoute(h, poll[h].seen)
  /\ poll' = [poll EXCEPT ![h] = NoPoll]
  /\ UNCHANGED <<tracker, artifacts, pending, last, unit, flow, counts>>

\* TRACKER_READ_TTL_MS
ExpireCache(h) ==
  /\ cache[h] # NoRoute
  /\ cache' = [cache EXCEPT ![h] = NoRoute]
  /\ Well
  /\ UNCHANGED <<tracker, artifacts, authority, pending, last, unit, binding, flow, poll, counts>>

Crash(h) ==
  /\ crashes < MaxCrashes /\ crashes' = crashes + 1
  /\ session' = [session EXCEPT ![h] = @ + 1]
  /\ held' = [held EXCEPT ![h] = 0]
  /\ cache' = [cache EXCEPT ![h] = NoRoute]
  /\ pending' = [pending EXCEPT ![h] = NoDraft]
  /\ last' = [last EXCEPT ![h] = 0]
  /\ unit' = [unit EXCEPT ![h] = 0]
  /\ poll' = [poll EXCEPT ![h] = NoPoll]
  /\ Stop(h) /\ Well
  /\ UNCHANGED <<tracker, artifacts, lease, binding, drafts>>

\* A lease that is held is renewed by its home's timer.
Kept(w) == \E h \in Homes : lease[w] = Me(h) /\ held[h] = w
LapseLease(w) ==
  /\ lease[w] # Nobody /\ (LeasesOutlast => ~Kept(w))
  /\ lease' = [lease EXCEPT ![w] = Nobody]
  /\ IF Kept(w) THEN Fault ELSE Well
  /\ UNCHANGED <<tracker, artifacts, held, memory, binding, flow, poll, counts>>

(***************************************************************************)
(* Specification                                                           *)
(***************************************************************************)

Advance(h) ==
  \/ RouteCommand(h) \/ CreateSpecIssue(h) \/ ClaimWorkflow(h) \/ FoundWorkflow(h)
  \/ BindHome(h) \/ PublishTicket(h) \/ PushBranches(h) \/ RemoveFiles(h) \/ DeleteBranches(h)
  \/ ConfirmAuthority(h) \/ WriteManifest(h) \/ CloseSpec(h) \/ UnbindHome(h)

LifecycleNext ==
  \/ \E h \in Homes :
       \/ Advance(h) \/ Cancel(h) \/ BeginPublish(h)
       \/ \E cmd \in {"create-spec", "create-tickets", "publish-tickets", "merge", "cleanup", "follow-up"} :
            Begin(h, cmd, 0)
       \/ \E t \in Tickets : Begin(h, "integrate", t)
       \/ \E w \in Workflows : Resume(h, w)
       \/ PollTracker(h) \/ PollRoute(h) \/ ExpireCache(h) \/ Crash(h)
  \/ \E w \in Workflows : LapseLease(w)

LifecycleSpec == LifecycleInit /\ [][LifecycleNext]_vars

\* Calls return, caches and the leases of the dead expire, and the operator of every home
\* resumes what he may and asks for the cleanup, again and again.
LifecycleFairness ==
  /\ \A h \in Homes : /\ WF_vars(Advance(h)) /\ WF_vars(PollRoute(h)) /\ WF_vars(ExpireCache(h))
                      /\ SF_vars(Begin(h, "cleanup", 0))
                      /\ \A w \in Workflows : SF_vars(Resume(h, w) /\ flow'[h].at = "bind")
  /\ \A w \in Workflows : WF_vars(LapseLease(w) /\ ~Kept(w))
LifecycleLiveSpec == LifecycleSpec /\ LifecycleFairness

(***************************************************************************)
(* Properties                                                              *)
(***************************************************************************)

\* A draft becomes at most one workflow, however often its publication fails
\* and is tried again: "drop the session pending draft so a retry cannot create
\* a second spec issue for the same Stage confirmation" (coordinator.ts:4582).
OneWorkflowPerDraft ==
  \A v, w \in Workflows :
    manifest[v] # NoManifest /\ manifest[w] # NoManifest /\ origin[v] = origin[w] => v = w

\* The tickets a manifest lists are one draft's, all of them published, linked
\* to their parent and their blockers; publications that broke off are in none.
BreakdownIsComplete ==
  \A w \in Workflows :
    /\ manifest[w].tickets \subseteq linked
    /\ manifest[w].stage \in {"tickets-published", "merged", "completed"} =>
         \E d \in 1..MaxDrafts : manifest[w].tickets = {d} \X Tickets

\* A workflow that is marked completed has no branch on the remote, also when
\* its cleanup failed half-way and was done again by another home; nor has the
\* home that completed it a workspace of it.
CompletedIsClean ==
  \A w \in Workflows : manifest[w].stage = "completed" =>
    w \notin remote /\ \A h \in Homes : last[h] = w => <<h, w>> \notin files

\* No write undoes another: a workflow never goes back to an earlier stage and
\* loses no Integration, whichever homes write, and whatever cached copy they
\* make their manifest from.
NothingIsUndone ==
  [][\A w \in Workflows : /\ Rank(manifest[w].stage) <= Rank(manifest'[w].stage)
                          /\ manifest[w].integrated \subseteq manifest'[w].integrated]_vars

\* A merged workflow is cleaned up in the end, by its home or by another one
\* after its session died, although calls fail.
MergedIsCompleted ==
  \A w \in Workflows : manifest[w].stage = "merged" ~> manifest[w].stage = "completed"

\* "Cleanup therefore closes that issue" (docs/adr/0014): when no call failed
\* and no session died, the spec of a completed workflow is closed once the
\* cleanup is over.
CompletedSpecIsClosed ==
  \A w \in open : manifest[w].stage = "completed" /\ (\A h \in Homes : flow[h].at = "idle") =>
    faults + crashes > 0
=============================================================================
