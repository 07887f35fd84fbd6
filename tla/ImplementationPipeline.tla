----------------------- MODULE ImplementationPipeline -----------------------
(***************************************************************************)
(* How one Workflow home implements and integrates the tickets of its      *)
(* Active workflow (src/src/coordinator.ts: nextActions,                   *)
(* startImplementation, handleWorkerEvent, confirmDisposition,             *)
(* runIntegrationUnit, applyCiGate, startRework and the stops; src/src/ui/ *)
(* menu.ts drives them).                                                   *)
(*                                                                         *)
(* Implementation workers run in parallel, each in the workspace of one    *)
(* attempt at a ticket.  What they complete waits for a disposition and is *)
(* then integrated, one unit at a time, in the one Integration worktree.   *)
(* Flow 0 is the run loop; flow t is the event handler that finishes a     *)
(* unit of ticket t after its conflict was resolved, beside the loop.  A   *)
(* step of a flow ends where the code awaits.  Pauses, terminations and    *)
(* the end of the session come at any moment.                              *)
(*                                                                         *)
(* Commits are abstracted to the set of attempts a branch contains.  The   *)
(* recovery cooldown only delays an offer, and is left out.                *)
(***************************************************************************)
EXTENDS Integers, Sequences, FiniteSets

CONSTANTS Tickets,     \* the ticket numbers of the workflow
          Blockers,    \* the tickets that must be closed before a ticket is ready
          Slots,       \* effective concurrency of this home
          MaxAttempt,  \* bound on the attempts at a ticket
          Stops,       \* the stops that may come
          MaxStops,    \* bound on stops
          DiscardWaits, \* bound: a termination discards only between flows and events
          EventsAreShort, \* bound: an event is handled before a stop has ended the workers
          MaxFaults    \* bound on refusals, failures, lost events and reworks

ASSUME PipelineAssumption ==
  /\ Tickets \subseteq Nat \ {0}
  /\ IsFiniteSet(Tickets)
  /\ Blockers \in [Tickets -> SUBSET Tickets]
  /\ Slots \in Nat \ {0}
  /\ MaxAttempt \in Nat \ {0}
  /\ Stops \subseteq {"pause", "terminate", "emergency", "quit"}
  /\ MaxStops \in Nat
  /\ DiscardWaits \in BOOLEAN
  /\ EventsAreShort \in BOOLEAN
  /\ MaxFaults \in Nat

VARIABLES closed,      \* tickets closed on the tracker
          integrated,  \* integratedTickets of the Workflow manifest: the attempt, or 0
          branch,      \* the latest attempt of each ticket that has a branch
          ahead,       \* attempts whose branch has commits of its own
          local,       \* attempts merged into the local Integration branch
          remote,      \* attempts in the pushed Integration branch
          verified,    \* attempts that were in the worktree when it last verified
          unfinished,  \* the attempt whose conflicted merge is in the Integration worktree
          history,     \* what the transcript of an attempt says
          worker,      \* activeImplementationWorkers
          disposition, \* pendingDisposition
          integration, \* pendingIntegration
          busy,        \* integrationInProgress
          resolver,    \* activeConflictWorker
          recovery,    \* pendingCiRecovery
          flow,        \* where each flow of control is
          stop,        \* the stop in progress
          mode,        \* running, paused or terminated
          process,     \* the child processes
          mail,        \* events a process sent that were not yet handled
          heard,       \* workers whose first event was appended, and is being handled
          synthesized, \* processGoneSynthesized
          faults, stops

tracker == <<closed, integrated>>
git == <<branch, ahead, local, remote, verified, unfinished>>
pending == <<disposition, integration, busy, resolver, recovery>>
control == <<flow, stop, mode>>
children == <<process, mail, heard, synthesized>>
bounds == <<faults, stops>>
vars == <<tracker, git, history, worker, pending, control, children, bounds>>

(***************************************************************************)
(* State                                                                   *)
(***************************************************************************)

Units == Tickets \X (1..MaxAttempt)
NoUnit == <<0, 0>>
Workers == {"implement", "resolve"} \X Units  \* the worker ids

NoWorker == [attempt |-> 0, status |-> "none"]
NoIntegration == [unit |-> NoUnit, conflict |-> FALSE]
NoHistory == [completed |-> FALSE, disposition |-> "none", done |-> FALSE, conflict |-> FALSE]
NoStop == [kind |-> "none", at |-> "workers", todo |-> {}, resolver |-> NoUnit, discard |-> FALSE]
Nothing == [t \in Tickets |-> 0]
\* own: this flow has set integrationInProgress
Idle == [at |-> "idle", unit |-> NoUnit, saw |-> Nothing, own |-> FALSE]

Places == {"idle", "plan", "workspace", "register", "launch", "close disposition",
           "leave-open disposition", "load", "merge", "resolve", "resolver", "gate",
           "verify", "push", "manifest", "record", "repush", "ci", "close", "reopen",
           "unrecord"}

PipelineTypeOK ==
  /\ closed \subseteq Tickets
  /\ integrated \in [Tickets -> 0..MaxAttempt]
  /\ branch \in [Tickets -> 0..MaxAttempt]
  /\ ahead \subseteq Units /\ local \subseteq Units /\ remote \subseteq Units
  /\ verified \subseteq Units
  /\ unfinished \in Units \cup {NoUnit}
  /\ history \in [Units -> [completed : BOOLEAN, disposition : {"none", "close", "leave-open"},
                            done : BOOLEAN, conflict : BOOLEAN]]
  /\ worker \in [Tickets -> [attempt : 0..MaxAttempt,
                             status : {"none", "running", "needs-disposition"}]]
  /\ disposition \in Units \cup {NoUnit}
  /\ integration \in [unit : Units \cup {NoUnit}, conflict : BOOLEAN]
  /\ busy \in BOOLEAN
  /\ resolver \in Units \cup {NoUnit}
  /\ recovery \in Tickets \cup {0}
  /\ DOMAIN flow = Tickets \cup {0}
  /\ \A f \in DOMAIN flow : flow[f] \in [at : Places, unit : Units \cup {NoUnit},
                                         saw : [Tickets -> 0..MaxAttempt], own : BOOLEAN]
  /\ stop \in [kind : Stops \cup {"none"}, at : {"workers", "rest"}, todo : SUBSET Units,
               resolver : Units \cup {NoUnit}, discard : BOOLEAN]
  /\ mode \in {"running", "paused", "terminated"}
  /\ process \in [Workers -> {"none", "alive", "dying", "closed"}]
  /\ \A w \in Workers : /\ Len(mail[w]) <= 2
                        /\ \A i \in 1..Len(mail[w]) :
                             mail[w][i] \in {"completed", "failed", "clean", "bad"}
  /\ heard \subseteq Workers
  /\ synthesized \subseteq Workers
  /\ faults \in 0..MaxFaults /\ stops \in 0..MaxStops

PipelineInit ==
  /\ closed = {} /\ integrated = Nothing
  /\ branch = Nothing /\ ahead = {} /\ local = {} /\ remote = {} /\ verified = {}
  /\ unfinished = NoUnit
  /\ history = [u \in Units |-> NoHistory]
  /\ worker = [t \in Tickets |-> NoWorker]
  /\ disposition = NoUnit /\ integration = NoIntegration /\ busy = FALSE
  /\ resolver = NoUnit /\ recovery = 0
  /\ flow = [f \in Tickets \cup {0} |-> Idle]
  /\ stop = NoStop /\ mode = "running"
  /\ process = [w \in Workers |-> "none"] /\ mail = [w \in Workers |-> <<>>]
  /\ heard = {} /\ synthesized = {}
  /\ faults = 0 /\ stops = 0

Well == UNCHANGED bounds
Fault == faults < MaxFaults /\ faults' = faults + 1 /\ UNCHANGED stops

\* analyzeImplementationAttemptEvents, one event at a time.
AfterEvent(h, e) ==
  CASE e \in {"completed", "inferred"} ->
         [h EXCEPT !.completed = TRUE, !.disposition = "none", !.done = FALSE]
    [] e = "failed" -> [h EXCEPT !.completed = FALSE, !.disposition = "none"]
    [] e = "reset" -> [h EXCEPT !.completed = FALSE, !.disposition = "none", !.conflict = FALSE]
    [] e = "leave-open" -> [h EXCEPT !.disposition = "leave-open"]
    [] e = "close" -> [h EXCEPT !.disposition = IF h.completed THEN "close" ELSE "none"]
    [] e = "unit-failed" ->
         [h EXCEPT !.disposition = IF h.completed \/ @ = "close" THEN "close" ELSE @]
    [] e \in {"unit-conflict", "resolve-launch", "resolve-failed"} ->
         [completed |-> TRUE, disposition |-> "close", done |-> FALSE,
          conflict |-> h.conflict \/ e = "resolve-launch"]
    [] e = "unit-completed" ->
         [completed |-> FALSE, disposition |-> "none", done |-> TRUE, conflict |-> FALSE]
Append1(u, e) == history' = [history EXCEPT ![u] = AfterEvent(@, e)]

(***************************************************************************)
(* What nextActions offers                                                 *)
(***************************************************************************)

Running == {t \in Tickets : worker[t].status = "running"}
Waiting == {t \in Tickets : worker[t].status = "needs-disposition"}
Ready(t) == t \notin closed /\ integrated[t] = 0 /\ Blockers[t] \subseteq closed
AwaitingCi(t) == t \notin closed /\ integrated[t] # 0
Latest(t) == <<t, branch[t]>>

\* recoverPendingDispositionFromTranscripts: the first such ticket is taken.
Recoverable(t) ==
  /\ integrated[t] = 0 /\ branch[t] > 0
  /\ LET h == history[Latest(t)]
     IN h.completed /\ (h.disposition = "none" \/ (h.disposition = "close" /\ ~h.done))
FirstRecoverable(t) == Recoverable(t) /\ \A s \in Tickets : Recoverable(s) => t <= s
NothingPending == disposition = NoUnit /\ integration = NoIntegration
MustRecover ==
  /\ NothingPending
  /\ \A t \in Tickets : worker[t] = NoWorker
  /\ \E t \in Tickets : Recoverable(t)

\* The loop asks for the next actions; while a resolver lives there are none.
AtSurface == flow[0].at = "idle" /\ mode = "running" /\ resolver = NoUnit
Surface == AtSurface /\ ~MustRecover

RecoverPending(t) ==
  /\ AtSurface /\ MustRecover /\ FirstRecoverable(t)
  /\ LET h == history[Latest(t)]
     IN IF h.disposition = "close"
        THEN integration' = [unit |-> Latest(t), conflict |-> h.conflict]
             /\ UNCHANGED disposition
        ELSE disposition' = Latest(t) /\ UNCHANGED integration
  /\ Well
  /\ UNCHANGED <<tracker, git, history, worker, busy, resolver, recovery, control, children>>

Enter(f, at, u) == flow' = [flow EXCEPT ![f] = [Idle EXCEPT !.at = at, !.unit = u]]
Go(f, at) == flow' = [flow EXCEPT ![f].at = at]

Choose(at, t) ==
  /\ Surface /\ NothingPending
  /\ Enter(0, at, <<t, IF integrated[t] = 0 THEN 1 ELSE integrated[t]>>)
  /\ UNCHANGED <<tracker, git, history, worker, pending, stop, mode, children>>

ChooseImplement(t) ==
  /\ Cardinality(Running) < Slots /\ Ready(t) /\ t \notin Running
  /\ Choose("plan", t) /\ Well
ChooseCheckCi(t) ==
  /\ Running = {} /\ AwaitingCi(t) /\ recovery # t
  /\ Choose("ci", t) /\ Well
ChooseRetryCi(t) ==
  /\ Running = {} /\ recovery = t
  /\ Choose("repush", t) /\ Well
ChooseRework(t) ==
  /\ Cardinality(Running) < Slots /\ t \in closed /\ integrated[t] # 0
  /\ Choose("reopen", t) /\ Fault

\* runCiRecovery leave-open
LeaveOpenCi ==
  /\ Surface /\ NothingPending /\ Running = {} /\ recovery # 0
  /\ recovery' = 0
  /\ Well
  /\ UNCHANGED <<tracker, git, history, worker, disposition, integration, busy, resolver,
                 control, children>>

ChooseDisposition(decision) ==
  /\ Surface /\ disposition # NoUnit
  /\ Enter(0, decision, disposition)
  /\ IF decision = "leave-open disposition" THEN Fault ELSE Well
  /\ UNCHANGED <<tracker, git, history, worker, pending, stop, mode, children>>

\* A flow that set integrationInProgress clears it when it returns.
Return(f) ==
  /\ flow' = [flow EXCEPT ![f] = Idle]
  /\ busy' = (busy /\ ~flow[f].own)

\* Mutant: what waits for a disposition is never promoted.
PromoteNothing(d, i) == disposition' = d /\ UNCHANGED worker

\* promoteNextPendingDisposition, after pendingIntegration became i.
Promote(d, i) ==
  IF d = NoUnit /\ i = NoIntegration /\ Waiting # {}
  THEN \E t \in Waiting : /\ disposition' = <<t, worker[t].attempt>>
                          /\ worker' = [worker EXCEPT ![t] = NoWorker]
  ELSE disposition' = d /\ UNCHANGED worker

\* runIntegrationUnit up to its first await.
RunUnit(u, conflict) ==
  CASE busy \/ resolver # NoUnit -> flow' = [flow EXCEPT ![0] = Idle] /\ UNCHANGED busy
    [] ~busy /\ resolver = NoUnit /\ conflict -> Enter(0, "resolve", u) /\ UNCHANGED busy
    [] OTHER -> /\ flow' = [flow EXCEPT ![0] = [Idle EXCEPT !.at = "load", !.unit = u,
                                                            !.own = TRUE]]
                /\ busy' = TRUE

\* retryIntegration
RetryIntegration ==
  /\ Surface /\ disposition = NoUnit /\ integration # NoIntegration /\ ~busy
  /\ RunUnit(integration.unit, integration.conflict)
  /\ Well
  /\ UNCHANGED <<tracker, git, history, worker, disposition, integration, resolver, recovery,
                 stop, mode, children>>

(***************************************************************************)
(* Implementation                                                          *)
(***************************************************************************)

CommitsAhead(u) == u \in ahead

\* Which attempt startImplementation would run, and how.
Plan(t) ==
  LET h == history[Latest(t)]
      fresh == [kind |-> "fresh", unit |-> <<t, branch[t] + 1>>]
  IN IF branch[t] = 0 \/ h.done THEN fresh
     ELSE CASE h.completed /\ h.disposition = "close" -> [kind |-> "retry", unit |-> Latest(t)]
            [] h.completed /\ h.disposition = "none" -> [kind |-> "dispose", unit |-> Latest(t)]
            [] h.completed /\ h.disposition = "leave-open" -> fresh
            [] ~h.completed /\ CommitsAhead(Latest(t)) -> [kind |-> "reuse", unit |-> Latest(t)]
            [] OTHER -> fresh

\* blockNewImplementationLaunch
LaunchAllowed ==
  /\ Cardinality(Running) < Slots
  /\ disposition = NoUnit /\ Waiting = {}
  /\ integration = NoIntegration /\ resolver = NoUnit

NotImplementable(t) == t \in Running \/ ~Ready(t)
PlanImplementation ==
  /\ flow[0].at = "plan"
  /\ LET t == flow[0].unit[1]
         plan == Plan(t)
     IN CASE NotImplementable(t) ->
               /\ Return(0) /\ UNCHANGED <<disposition, integration>>
          [] ~NotImplementable(t) /\ plan.kind = "dispose" ->
               /\ Return(0) /\ disposition' = plan.unit /\ UNCHANGED integration
          [] ~NotImplementable(t) /\ plan.kind = "retry" ->
               /\ Return(0) /\ UNCHANGED disposition
               /\ integration' = [unit |-> plan.unit, conflict |-> FALSE]
          [] OTHER ->
               /\ plan.unit \in Units
               /\ IF LaunchAllowed THEN Enter(0, "workspace", plan.unit) /\ UNCHANGED busy
                  ELSE Return(0)
               /\ UNCHANGED <<disposition, integration>>
  /\ Well
  /\ UNCHANGED <<tracker, git, history, worker, resolver, recovery, stop, mode, children>>

\* createImplementationWorkspace, ensureImplementationWorkspace
CreateWorkspace ==
  /\ flow[0].at = "workspace"
  /\ LET u == flow[0].unit
     IN \/ /\ branch' = [branch EXCEPT ![u[1]] = u[2]]
           /\ Go(0, "register") /\ UNCHANGED busy /\ Well
        \/ UNCHANGED branch /\ Return(0) /\ Fault
  /\ UNCHANGED <<tracker, ahead, local, remote, verified, unfinished, history, worker,
                 disposition, integration, resolver, recovery, stop, mode, children>>

RegisterWorker ==
  /\ flow[0].at = "register"
  /\ LET u == flow[0].unit
     IN \/ /\ worker' = [worker EXCEPT ![u[1]] = [attempt |-> u[2], status |-> "running"]]
           /\ Go(0, "launch") /\ UNCHANGED busy /\ Well
        \/ UNCHANGED worker /\ Return(0) /\ Fault
  /\ UNCHANGED <<tracker, git, history, disposition, integration, resolver, recovery, stop,
                 mode, children>>

DropWorker(w, u) == [w EXCEPT ![u[1]] = IF @.attempt = u[2] THEN NoWorker ELSE @]

\* The launch does not look whether the worker is still registered; a worker
\* id that is still in the port's map cannot be launched.
LaunchWorker ==
  /\ flow[0].at = "launch"
  /\ LET u == flow[0].unit
         w == <<"implement", u>>
     IN \/ /\ process[w] = "none" /\ branch[u[1]] >= u[2]
           /\ process' = [process EXCEPT ![w] = "alive"]
           /\ UNCHANGED worker /\ Well
        \/ /\ IF process[w] # "none" \/ branch[u[1]] < u[2] THEN Well ELSE Fault
           /\ worker' = DropWorker(worker, u)
           /\ UNCHANGED process
  /\ Return(0)
  /\ UNCHANGED <<tracker, git, history, disposition, integration, resolver, recovery, stop,
                 mode, mail, heard, synthesized>>

(***************************************************************************)
(* Worker processes                                                        *)
(***************************************************************************)

Works(w) == process[w] \in {"alive", "dying"}

Send(w, e) == mail' = [mail EXCEPT ![w] = Append(@, e)]

\* A worker emits its Stage result, and ends; a completed Conflict resolution
\* worker has committed the merge.  The exit event that follows changes nothing
\* but that the port forgets the worker.
Report(w, outcome) ==
  /\ Works(w)
  /\ Send(w, outcome)
  /\ process' = [process EXCEPT ![w] = "closed"]
  /\ IF w[1] = "resolve" /\ outcome = "completed" /\ unfinished = w[2]
     THEN local' = local \cup {w[2]} /\ unfinished' = NoUnit
     ELSE UNCHANGED <<local, unfinished>>
  /\ ahead' = ahead \cup (IF w[1] = "implement" THEN {w[2]} ELSE {})
  /\ IF outcome = "failed" THEN Fault ELSE Well
  /\ UNCHANGED <<tracker, branch, remote, verified, history, worker, pending, control, heard,
                 synthesized>>

\* Its child closes without one, with exit code 0 or killed by a signal
\* (clean), or with another code; an Implementation worker may have committed.
Exit(w, code) ==
  /\ Works(w)
  /\ Send(w, code)
  /\ process' = [process EXCEPT ![w] = "closed"]
  /\ IF process[w] = "alive"
     THEN Fault /\ ahead' \in {ahead, ahead \cup (IF w[1] = "implement" THEN {w[2]} ELSE {})}
     ELSE code = "clean" /\ Well /\ UNCHANGED ahead
  /\ UNCHANGED <<tracker, branch, local, remote, verified, unfinished, history, worker, pending,
                 control, heard, synthesized>>

(***************************************************************************)
(* Events of workers                                                       *)
(***************************************************************************)

\* The port forgets a worker when its exit has been delivered.
Delivered(w) ==
  /\ mail' = [mail EXCEPT ![w] = Tail(@)]
  /\ heard' = heard \ {w}
  /\ process' = [process EXCEPT ![w] = IF @ = "closed" /\ Len(mail[w]) = 1 THEN "none" ELSE @]

IsExit(w) == Head(mail[w]) \in {"clean", "bad"}
Registered(w) ==
  LET u == w[2]
  IN IF w[1] = "resolve" THEN resolver = u
     ELSE /\ worker[u[1]].attempt = u[2]
          /\ IsExit(w) => worker[u[1]].status = "running"

\* handleWorkerEvent, handleConflictWorkerEvent: an event of a worker that is
\* not registered is dropped; another one is appended to the transcript.
ReceiveEvent(w) ==
  /\ mail[w] # <<>> /\ w \notin heard
  /\ IF Registered(w)
     THEN /\ heard' = heard \cup {w}
          /\ IF IsExit(w) THEN UNCHANGED history ELSE Append1(w[2], Head(mail[w]))
          /\ UNCHANGED <<mail, process>>
     ELSE Delivered(w) /\ UNCHANGED history
  /\ Well
  /\ UNCHANGED <<tracker, git, worker, pending, control, synthesized>>

\* Mutant: a completed worker is kept under a status of its own.
SettleUnknown(u) ==
  /\ worker' = [worker EXCEPT ![u[1]] = [attempt |-> u[2], status |-> "completed"]]
  /\ UNCHANGED disposition

\* settleCompletedImplementationWorker
Settle(u) ==
  IF NothingPending
  THEN disposition' = u /\ worker' = DropWorker(worker, u)
  ELSE /\ worker' = [worker EXCEPT ![u[1]] = [attempt |-> u[2], status |-> "needs-disposition"]]
       /\ UNCHANGED disposition

\* A Stage result counts only if the worker is still registered.
SettleResult(u) ==
  LET w == <<"implement", u>>
  IN /\ w \in heard /\ ~IsExit(w)
     /\ CASE worker[u[1]].attempt # u[2] -> UNCHANGED <<disposition, worker>>
          [] worker[u[1]].attempt = u[2] /\ Head(mail[w]) = "completed" -> Settle(u)
          [] OTHER -> worker' = DropWorker(worker, u) /\ UNCHANGED disposition
     /\ Delivered(w) /\ Well
     /\ UNCHANGED <<tracker, git, history, integration, busy, resolver, recovery, control,
                    synthesized>>

\* An exit without a Stage result: completion is inferred from commits.
SettleExit(u) ==
  LET w == <<"implement", u>>
  IN /\ w \in heard /\ IsExit(w)
     /\ IF Head(mail[w]) = "clean" /\ CommitsAhead(u)
        THEN Settle(u) /\ Append1(u, "inferred")
        ELSE worker' = DropWorker(worker, u) /\ UNCHANGED disposition /\ Append1(u, "reset")
     /\ Delivered(w) /\ Well
     /\ UNCHANGED <<tracker, git, integration, busy, resolver, recovery, control, synthesized>>

\* Mutant: the finisher does not mark the Integration worktree as in use.
FinishUnmarked(u) ==
  /\ UNCHANGED busy
  /\ flow' = [flow EXCEPT ![u[1]] = [Idle EXCEPT !.at = "gate", !.unit = u]]

Finish(u) ==
  /\ busy' = TRUE
  /\ flow' = [flow EXCEPT ![u[1]] = [Idle EXCEPT !.at = "gate", !.unit = u, !.own = TRUE]]

\* A resolved conflict is finished by the handler itself, beside the loop.
SettleResolver(u) ==
  LET w == <<"resolve", u>>
  IN /\ w \in heard /\ flow[u[1]] = Idle
     /\ resolver' = NoUnit
     /\ CASE Head(mail[w]) = "completed" /\ integration.unit = u ->
               /\ integration' = [integration EXCEPT !.conflict = FALSE]
               /\ Finish(u) /\ UNCHANGED history
          [] Head(mail[w]) = "completed" /\ integration.unit # u ->
               UNCHANGED <<integration, busy, flow, history>>
          [] Head(mail[w]) = "failed" ->
               Append1(u, "resolve-failed") /\ UNCHANGED <<integration, busy, flow>>
          [] OTHER -> Append1(u, "reset") /\ UNCHANGED <<integration, busy, flow>>
     /\ Delivered(w) /\ Well
     /\ UNCHANGED <<tracker, git, worker, disposition, recovery, stop, mode, synthesized>>

\* A handler that throws loses its event.
LoseEvent(w) ==
  /\ mail[w] # <<>> /\ w \notin heard
  /\ Delivered(w) /\ Fault
  /\ UNCHANGED <<tracker, git, history, worker, pending, control, synthesized>>

\* reconcileDeadWorkers: a running worker whose process is gone is handled as
\* one that exited, once per worker id.
SynthesizeExit(w) ==
  LET u == w[2]
  IN /\ IF w[1] = "resolve" THEN resolver = u
        ELSE worker[u[1]] = [attempt |-> u[2], status |-> "running"]
     /\ process[w] = "none" /\ mail[w] = <<>> /\ w \notin synthesized
     /\ ~(flow[0].at \in {"launch", "resolver"} /\ flow[0].unit = u)
     /\ synthesized' = synthesized \cup {w}
     /\ Send(w, "clean") /\ heard' = heard \cup {w}
     /\ Well
     /\ UNCHANGED <<tracker, git, history, worker, pending, control, process>>

(***************************************************************************)
(* Disposition and the Integration unit                                    *)
(***************************************************************************)

\* confirmDisposition, from its append on.
Dispose ==
  /\ flow[0].at \in {"close disposition", "leave-open disposition"}
  /\ LET u == flow[0].unit
     IN CASE flow[0].at = "leave-open disposition" ->
               /\ Append1(u, "leave-open")
               /\ Promote(NoUnit, integration)
               /\ flow' = [flow EXCEPT ![0] = Idle]
               /\ UNCHANGED <<integration, busy>>
          [] flow[0].at = "close disposition" /\ integration # NoIntegration ->
               /\ Append1(u, "close")
               /\ disposition' = NoUnit
               /\ flow' = [flow EXCEPT ![0] = Idle]
               /\ UNCHANGED <<worker, integration, busy>>
          [] OTHER ->
               /\ Append1(u, "close")
               /\ disposition' = NoUnit
               /\ integration' = [unit |-> u, conflict |-> FALSE]
               /\ RunUnit(u, FALSE)
               /\ UNCHANGED worker
  /\ Well
  /\ UNCHANGED <<tracker, git, resolver, recovery, stop, mode, children>>

FailUnit(f) == Return(f) /\ Append1(flow[f].unit, "unit-failed")

\* loadActiveWorkflow, the authority, and the ticket that is integrated already.
LoadUnit ==
  /\ flow[0].at = "load"
  /\ LET u == flow[0].unit
     IN \/ /\ integrated[u[1]] = 0
           /\ Go(0, "merge")
           /\ Well /\ UNCHANGED <<history, worker, disposition, integration, busy>>
        \/ /\ integrated[u[1]] # 0
           /\ integration' = NoIntegration /\ Promote(disposition, NoIntegration)
           /\ Append1(u, "unit-completed") /\ Return(0) /\ Well
        \/ FailUnit(0) /\ Fault /\ UNCHANGED <<worker, disposition, integration>>
  /\ UNCHANGED <<tracker, git, resolver, recovery, stop, mode, children>>

\* mergeIntoIntegration: nothing merges over an unfinished merge.
Mergeable(u) == unfinished = NoUnit /\ branch[u[1]] >= u[2]
MergeUnit ==
  /\ flow[0].at = "merge"
  /\ LET u == flow[0].unit
         possible == Mergeable(u)
     IN \/ /\ possible
           /\ local' = local \cup {u}
           /\ Go(0, "gate")
           /\ Well /\ UNCHANGED <<unfinished, history, integration, busy>>
        \/ /\ possible /\ u \notin local
           /\ unfinished' = u
           /\ integration' = IF integration.unit = u THEN [unit |-> u, conflict |-> TRUE]
                             ELSE integration
           /\ Append1(u, "unit-conflict")
           /\ Enter(0, "resolve", u) /\ busy' = FALSE
           /\ Fault /\ UNCHANGED local
        \/ /\ IF possible THEN Fault ELSE Well
           /\ FailUnit(0) /\ UNCHANGED <<local, unfinished, integration>>
  /\ UNCHANGED <<tracker, branch, ahead, remote, verified, worker, disposition, resolver,
                 recovery, stop, mode, children>>

\* launchConflictWorker
RegisterResolver ==
  /\ flow[0].at = "resolve"
  /\ LET u == flow[0].unit
     IN \/ /\ resolver' = u
           /\ Append1(u, "resolve-launch")
           /\ Go(0, "resolver") /\ UNCHANGED busy /\ Well
        \/ UNCHANGED <<resolver, history>> /\ Return(0) /\ Fault
  /\ UNCHANGED <<tracker, git, worker, disposition, integration, recovery, stop, mode, children>>

LaunchResolver ==
  /\ flow[0].at = "resolver"
  /\ LET w == <<"resolve", flow[0].unit>>
     IN \/ /\ process[w] = "none"
           /\ process' = [process EXCEPT ![w] = "alive"]
           /\ UNCHANGED resolver /\ Well
        \/ /\ IF process[w] # "none" THEN Well ELSE Fault
           /\ resolver' = NoUnit /\ UNCHANGED process
  /\ Return(0)
  /\ UNCHANGED <<tracker, git, history, worker, disposition, integration, recovery, stop, mode,
                 mail, heard, synthesized>>

\* Mutant: a merge a Conflict resolution worker has committed is not verified.
GateUnitTrusting(f) ==
  /\ flow[f].at = "gate"
  /\ flow' = [flow EXCEPT ![f] = [@ EXCEPT !.at = IF f = 0 THEN "verify" ELSE "push",
                                           !.saw = integrated]]
  /\ Well
  /\ UNCHANGED <<tracker, git, history, worker, pending, stop, mode, children>>

\* finishIntegrationAfterMerge reads the manifest it will rewrite at the end.
GateUnit(f) ==
  /\ flow[f].at = "gate"
  /\ \/ /\ flow' = [flow EXCEPT ![f] = [@ EXCEPT !.at = "verify", !.saw = integrated]]
        /\ UNCHANGED <<busy, history>> /\ Well
     \/ FailUnit(f) /\ Fault
  /\ UNCHANGED <<tracker, git, worker, disposition, integration, resolver, recovery, stop, mode,
                 children>>

VerifyUnit(f) ==
  /\ flow[f].at = "verify"
  /\ \/ /\ local # {} /\ verified' = local
        /\ Go(f, "push") /\ UNCHANGED <<busy, history>> /\ Well
     \/ /\ IF local # {} THEN Fault ELSE Well
        /\ FailUnit(f) /\ UNCHANGED verified
  /\ UNCHANGED <<tracker, branch, ahead, local, remote, unfinished, worker, disposition,
                 integration, resolver, recovery, stop, mode, children>>

\* The Integration branch exists, and the push is a fast-forward.
Pushable == local # {} /\ remote \subseteq local

\* Mutant: a push that failed does not end the unit.
PushUnitUnheeded(f) ==
  /\ flow[f].at = "push"
  /\ \/ Pushable /\ remote' = local /\ Well
     \/ UNCHANGED remote /\ IF Pushable THEN Fault ELSE Well
  /\ Go(f, "manifest")
  /\ UNCHANGED <<tracker, branch, ahead, local, verified, unfinished, history, worker, pending,
                 stop, mode, children>>

\* The Integration branch is pushed before the ticket's branch.
PushUnit(f) ==
  /\ flow[f].at = "push"
  /\ \/ /\ Pushable
        /\ remote' = local
        /\ Go(f, "manifest") /\ UNCHANGED <<busy, history>> /\ Well
     \/ /\ IF Pushable THEN remote' \in {remote, local} /\ Fault
           ELSE UNCHANGED remote /\ Well
        /\ FailUnit(f)
  /\ UNCHANGED <<tracker, branch, ahead, local, verified, unfinished, worker, disposition,
                 integration, resolver, recovery, stop, mode, children>>

\* Mutant: the manifest is rewritten as it is when no ticket is recorded.
RecordedAlone(f) == [Nothing EXCEPT ![flow[f].unit[1]] = flow[f].unit[2]]

Recorded(f) == [flow[f].saw EXCEPT ![flow[f].unit[1]] = flow[f].unit[2]]
WriteManifest(f) ==
  /\ flow[f].at = "manifest"
  /\ \/ /\ integrated' = Recorded(f)
        /\ integration' = NoIntegration /\ Promote(disposition, NoIntegration)
        /\ Go(f, "record") /\ UNCHANGED <<busy, history>> /\ Well
     \/ /\ FailUnit(f) /\ Fault
        /\ UNCHANGED <<integrated, integration, disposition, worker>>
  /\ UNCHANGED <<closed, git, resolver, recovery, stop, mode, children>>

RecordUnit(f) ==
  /\ flow[f].at = "record"
  /\ Append1(flow[f].unit, "unit-completed")
  /\ Go(f, "ci") /\ Well
  /\ UNCHANGED <<tracker, git, worker, pending, stop, mode, children>>

(***************************************************************************)
(* CI gate                                                                 *)
(***************************************************************************)

\* applyCiGate with rePush: the Integration branch is pushed as it is.
RePush ==
  /\ flow[0].at = "repush"
  /\ \/ /\ Pushable
        /\ remote' = local
        /\ Go(0, "ci") /\ UNCHANGED <<busy, recovery>> /\ Well
     \/ /\ IF Pushable THEN Fault ELSE Well
        /\ recovery' = flow[0].unit[1] /\ Return(0) /\ UNCHANGED remote
  /\ UNCHANGED <<tracker, branch, ahead, local, verified, unfinished, history, worker,
                 disposition, integration, resolver, stop, mode, children>>

CheckCi(f) ==
  /\ flow[f].at = "ci"
  /\ \/ Go(f, "close") /\ UNCHANGED <<busy, recovery>> /\ Well
     \/ Return(f) /\ recovery' \in {0, flow[f].unit[1]} /\ Fault
  /\ UNCHANGED <<tracker, git, history, worker, disposition, integration, resolver, stop, mode,
                 children>>

CloseTicket(f) ==
  /\ flow[f].at = "close"
  /\ LET t == flow[f].unit[1]
     IN \/ closed' = closed \cup {t} /\ recovery' = 0 /\ Well
        \/ UNCHANGED closed /\ recovery' = t /\ Fault
  /\ Return(f)
  /\ UNCHANGED <<integrated, git, history, worker, disposition, integration, resolver, stop,
                 mode, children>>

(***************************************************************************)
(* Rework, and workers of tickets that are blocked again                   *)
(***************************************************************************)

ReopenTicket ==
  /\ flow[0].at = "reopen"
  /\ LET t == flow[0].unit[1]
     IN \/ /\ LaunchAllowed
           /\ closed' = closed \ {t}
           /\ flow' = [flow EXCEPT ![0] = [@ EXCEPT !.at = "unrecord", !.saw = integrated]]
           /\ UNCHANGED busy
        \/ Return(0) /\ UNCHANGED closed
  /\ Well
  /\ UNCHANGED <<integrated, git, history, worker, disposition, integration, resolver, recovery,
                 stop, mode, children>>

\* reconcileBlockedRunningWorkers
AbortBlocked(open) ==
  LET blocked == {t \in Running : Blockers[t] \cap open # {}}
  IN /\ process' = [w \in Workers |->
          IF w[1] = "implement" /\ w[2][1] \in blocked /\ worker[w[2][1]].attempt = w[2][2]
             /\ process[w] = "alive"
          THEN "dying" ELSE process[w]]
     /\ worker' = [t \in Tickets |-> IF t \in blocked THEN NoWorker ELSE worker[t]]
     /\ history' = [u \in Units |->
          IF u[1] \in blocked /\ worker[u[1]].attempt = u[2]
          THEN AfterEvent(history[u], "reset") ELSE history[u]]

UnrecordTicket ==
  /\ flow[0].at = "unrecord"
  /\ LET t == flow[0].unit[1]
     IN \/ /\ integrated' = [flow[0].saw EXCEPT ![t] = 0]
           /\ AbortBlocked(Tickets \ closed)
           /\ Go(0, "plan") /\ UNCHANGED busy
        \/ Return(0) /\ UNCHANGED <<integrated, history, worker, process>>
  /\ Well
  /\ UNCHANGED <<closed, git, disposition, integration, resolver, recovery, stop, mode, mail,
                 heard, synthesized>>

\* The wait of the loop starts with it.
ReconcileBlocked ==
  /\ flow[0].at = "idle" /\ mode # "terminated"
  /\ \E t \in Running : ~(Blockers[t] \subseteq closed)
  /\ AbortBlocked(Tickets \ closed)
  /\ Well
  /\ UNCHANGED <<tracker, git, pending, control, mail, heard, synthesized>>

(***************************************************************************)
(* Stops, and the end of the session                                       *)
(***************************************************************************)

\* abortSessionWorkers: the running workers are listed, and all children killed,
\* with what they have committed so far.
BeginStop(kind) ==
  /\ kind \in Stops /\ stop = NoStop /\ mode # "terminated"
  /\ stops < MaxStops /\ stops' = stops + 1 /\ UNCHANGED faults
  /\ stop' = [kind |-> kind, at |-> "workers", todo |-> {<<t, worker[t].attempt>> : t \in Running},
              resolver |-> resolver,
              discard |-> kind = "terminate" /\ integrated = Nothing]
  /\ process' = [w \in Workers |-> IF process[w] = "alive" THEN "dying" ELSE process[w]]
  /\ \E C \in SUBSET {u \in Units : process[<<"implement", u>>] = "alive"} :
       ahead' = ahead \cup C
  /\ UNCHANGED <<tracker, branch, local, remote, verified, unfinished, history, worker, pending,
                 flow, mode, mail, heard, synthesized>>

\* Only abortWorkers, which ends a session, appends an event, that resets.
StopWorkers ==
  /\ stop # NoStop /\ stop.at = "workers"
  /\ EventsAreShort => heard = {}
  /\ worker' = [t \in Tickets |-> IF <<t, worker[t].attempt>> \in stop.todo THEN NoWorker
                                 ELSE worker[t]]
  /\ history' = [u \in Units |->
       IF stop.kind = "quit" /\ (u \in stop.todo \/ u = stop.resolver)
       THEN AfterEvent(history[u], "reset") ELSE history[u]]
  /\ resolver' = NoUnit
  /\ stop' = [stop EXCEPT !.at = "rest"]
  /\ Well
  /\ UNCHANGED <<tracker, git, disposition, integration, busy, recovery, flow, mode, children>>

SessionEnds ==
  /\ worker' = [t \in Tickets |-> NoWorker]
  /\ disposition' = NoUnit /\ integration' = NoIntegration /\ busy' = FALSE
  /\ resolver' = NoUnit /\ recovery' = 0
  /\ flow' = [f \in Tickets \cup {0} |-> Idle]
  /\ stop' = NoStop /\ mode' = "terminated"
  /\ process' = [w \in Workers |-> "none"] /\ mail' = [w \in Workers |-> <<>>]
  /\ heard' = {} /\ synthesized' = {}

Stopping(kind) ==
  /\ stop.kind = kind /\ stop.at = "rest"
  /\ Well

Pause ==
  /\ Stopping("pause")
  /\ stop' = NoStop /\ mode' = "paused"
  /\ UNCHANGED <<tracker, git, history, worker, pending, flow, children>>

EmergencyStop ==
  /\ Stopping("emergency")
  /\ stop' = NoStop /\ mode' = "terminated"
  /\ UNCHANGED <<tracker, git, history, worker, pending, flow, children>>

Quiet == (\A f \in DOMAIN flow : flow[f] = Idle) /\ \A w \in Workers : mail[w] = <<>>

\* listWorkflowBranches, cleanupWorkflowWorkspaces, removeLocalBranches
RemoveWorkspaces == branch' = Nothing /\ ahead' = {} /\ local' = {} /\ unfinished' = NoUnit

\* terminateRun: what is not integrated is discarded if nothing is integrated.
Terminate ==
  /\ Stopping("terminate")
  /\ DiscardWaits /\ stop.discard => Quiet
  /\ stop' = NoStop /\ mode' = "terminated"
  /\ disposition' = NoUnit /\ recovery' = 0
  /\ IF stop.discard
     THEN /\ integration' = NoIntegration /\ busy' = FALSE
          /\ worker' = [t \in Tickets |-> NoWorker]
          /\ RemoveWorkspaces
     ELSE /\ worker' = [t \in Tickets |-> IF t \in Waiting THEN NoWorker ELSE worker[t]]
          /\ UNCHANGED <<integration, busy, branch, ahead, local, unfinished>>
  /\ UNCHANGED <<tracker, remote, verified, history, resolver, flow, children>>

Quit == Stopping("quit") /\ SessionEnds /\ UNCHANGED <<tracker, git, history>>

\* A session that dies, and its children with it, marks nothing.
Crash ==
  /\ stop.kind = "quit" /\ stop.at = "workers"
  /\ SessionEnds /\ Well
  /\ UNCHANGED <<tracker, git, history>>

\* resumePipeline, beginPipelineRun
BeginRun ==
  /\ stop = NoStop
  /\ mode = "paused" \/ (mode = "terminated" /\ flow[0] = Idle)
  /\ mode' = "running" /\ Well
  /\ UNCHANGED <<tracker, git, history, worker, pending, flow, stop, children>>

(***************************************************************************)
(* Specification                                                           *)
(***************************************************************************)

Loop ==
  \/ Dispose \/ LoadUnit \/ MergeUnit \/ RegisterResolver \/ LaunchResolver
  \/ PlanImplementation \/ CreateWorkspace \/ RegisterWorker \/ LaunchWorker
  \/ RePush \/ ReopenTicket \/ UnrecordTicket
Unit(f) ==
  \/ GateUnit(f) \/ VerifyUnit(f) \/ PushUnit(f) \/ WriteManifest(f) \/ RecordUnit(f)
  \/ CheckCi(f) \/ CloseTicket(f)
Event(w) ==
  \/ ReceiveEvent(w)
  \/ IF w[1] = "resolve" THEN SettleResolver(w[2])
     ELSE SettleResult(w[2]) \/ SettleExit(w[2])
Stop == StopWorkers \/ Pause \/ EmergencyStop \/ Terminate \/ Quit
Advance(t) ==
  \/ RecoverPending(t) \/ ChooseImplement(t) \/ ChooseCheckCi(t) \/ ChooseRetryCi(t)

PipelineNext ==
  \/ \E t \in Tickets : Advance(t) \/ ChooseRework(t)
  \/ \E d \in {"close disposition", "leave-open disposition"} : ChooseDisposition(d)
  \/ RetryIntegration \/ LeaveOpenCi
  \/ Loop
  \/ \E f \in DOMAIN flow : Unit(f)
  \/ \E w \in Workers :
       \/ Event(w) \/ LoseEvent(w) \/ SynthesizeExit(w)
       \/ \E outcome \in {"completed", "failed"} : Report(w, outcome)
       \/ \E code \in {"clean", "bad"} : Exit(w, code)
  \/ ReconcileBlocked
  \/ \E kind \in Stops : BeginStop(kind)
  \/ Stop \/ Crash \/ BeginRun

(***************************************************************************)
(* Properties                                                              *)
(***************************************************************************)

\* What an Integration unit pushes to the Integration branch on the remote was in
\* the worktree when it last verified, also when a Conflict resolution worker
\* committed the merge, an attempt was retried or a stop came in between (6541).
UnitsPushVerified ==
  [][remote' # remote /\ flow[0].at # "repush" => remote' \subseteq verified]_vars

\* "The project-discoverable checks run in the Integration workspace after an
\* Integration unit merges and before push or CI" (CONTEXT.md:84): so does what the
\* retry of a red CI pushes (7420-7437).
PushedIsVerified == [][remote' # remote => remote' \subseteq verified]_vars

\* A closed ticket, and one the Workflow manifest records as integrated, has an
\* attempt on the remote, and the recorded one is the one that is there:
\* whatever push failed, lost its answer or was interrupted by a stop.
IntegratedIsPushed ==
  \A t \in Tickets : t \in closed \/ integrated[t] # 0 =>
    \E u \in remote : u[1] = t /\ (integrated[t] # 0 => u[2] = integrated[t])

\* "Integration units process one completed ticket at a time" (5873): at most
\* one flow, the loop or a finisher, works in the Integration worktree.
InTree(f) == flow[f].at \in {"merge", "gate", "verify", "push", "manifest"}
OneUnitInTheTree == \A f, g \in DOMAIN flow : InTree(f) /\ InTree(g) => f = g

\* The manifest is rewritten from a copy read several awaits earlier, by units
\* and by reworks: still a recorded integration is lost by a rework of its own
\* ticket only, and no other attempt takes its place.
IntegratedIsNeverLost ==
  [][\A t \in Tickets : integrated[t] # 0 =>
       \/ integrated'[t] = integrated[t]
       \/ flow[0].at = "unrecord" /\ flow[0].unit[1] = t]_vars

\* "In-progress merge is preserved for retry" (9397): when no stop is under way,
\* the transcript of the attempt whose conflicted merge is in the Integration
\* worktree says that it is to be integrated.
UnfinishedMergeIsPreserved ==
  stop = NoStop /\ unfinished # NoUnit =>
    history[unfinished].completed /\ history[unfinished].disposition = "close"

PipelineSpec == PipelineInit /\ [][PipelineNext]_vars

\* Flows and handlers go on, agents end, and the operator, who may prefer any
\* other action for a while, does not pass over an offered one for ever.
Ends(w) == (\E outcome \in {"completed", "failed"} : Report(w, outcome))
           \/ \E code \in {"clean", "bad"} : Exit(w, code)
PipelineFairness ==
  /\ WF_vars(Loop) /\ WF_vars(Stop) /\ WF_vars(BeginRun)
  /\ \A f \in Tickets \cup {0} : WF_vars(Unit(f))
  /\ \A w \in Workers : WF_vars(Event(w)) /\ WF_vars(Ends(w)) /\ WF_vars(SynthesizeExit(w))
  /\ \A t \in Tickets : SF_vars(Advance(t))
  /\ SF_vars(ChooseDisposition("close disposition")) /\ SF_vars(RetryIntegration)
PipelineLiveSpec == PipelineSpec /\ PipelineFairness

\* Whatever fails, exits or gets lost for a while, and in whatever order workers
\* complete, wait for their dispositions and conflict, every ticket is
\* integrated and closed in the end.
EveryTicketIsClosed == <>[](closed = Tickets)
=============================================================================
