-------------------- MODULE ImplementationPipelineProofs --------------------
(***************************************************************************)
(* Theorems about ImplementationPipeline, for every set of tickets, every  *)
(* number of attempts, slots, faults and stops: its types; that never two  *)
(* units work in the Integration worktree; that no rewriting of the        *)
(* Workflow manifest takes a recorded integration away; that what is       *)
(* recorded or closed was pushed; and that what a unit pushes was verified.*)
(***************************************************************************)
EXTENDS ImplementationPipeline, SequenceTheorems, TLAPS

Flows == Tickets \cup {0}
Resolve(u) == <<"resolve", u>>

(***************************************************************************)
(* Types                                                                   *)
(***************************************************************************)

Attempt == 0..MaxAttempt
MaybeUnit == Units \cup {NoUnit}
History == [completed : BOOLEAN, disposition : {"none", "close", "leave-open"},
            done : BOOLEAN, conflict : BOOLEAN]
Flow == [at : Places, unit : MaybeUnit, saw : [Tickets -> Attempt], own : BOOLEAN]
Results == {"completed", "failed", "clean", "bad"}
Process == {"none", "alive", "dying", "closed"}
OneWorker == [attempt : Attempt, status : {"none", "running", "needs-disposition"}]
Registration == {w \in OneWorker : w.status # "none" => w.attempt # 0}

TrackerType == closed \subseteq Tickets /\ integrated \in [Tickets -> Attempt]
GitType ==
  /\ branch \in [Tickets -> Attempt]
  /\ ahead \subseteq Units /\ local \subseteq Units /\ remote \subseteq Units
  /\ verified \subseteq Units /\ unfinished \in MaybeUnit
HistoryType == history \in [Units -> History]
WorkerType == worker \in [Tickets -> Registration]
PendingType ==
  /\ disposition \in MaybeUnit
  /\ integration \in [unit : Units, conflict : BOOLEAN] \cup {NoIntegration}
  /\ busy \in BOOLEAN /\ resolver \in MaybeUnit /\ recovery \in Flows
FlowType == /\ flow \in [Flows -> Flow]
            /\ \A f \in Flows : flow[f].at # "idle" => flow[f].unit \in Units
StopType == stop \in [kind : Stops \cup {"none"}, at : {"workers", "rest"}, todo : SUBSET Units,
                      resolver : MaybeUnit, discard : BOOLEAN]
ModeType == mode \in {"running", "paused", "terminated"}
BoundType == faults \in 0..MaxFaults /\ stops \in 0..MaxStops
ChildType == /\ process \in [Workers -> Process]
             /\ mail \in [Workers -> Seq(Results)]
             /\ heard \subseteq Workers /\ synthesized \subseteq Workers

\* A worker has sent an exit that was made up, or a result, or one after the other.
MailInv ==
  \A w \in Workers :
    /\ w \in heard => mail[w] # <<>>
    /\ process[w] # "closed" => mail[w] \in {<<>>, <<"clean">>}
    /\ Len(mail[w]) <= 2
    /\ Len(mail[w]) = 2 => mail[w][1] = "clean"

TypeInv == /\ TrackerType /\ GitType /\ HistoryType /\ WorkerType /\ PendingType
           /\ FlowType /\ StopType /\ ModeType /\ BoundType
           /\ ChildType /\ MailInv

USE PipelineAssumption

LEMMA UnitFacts ==
  /\ NoUnit \notin Units
  /\ \A u \in Units : u[1] \in Tickets /\ u[2] \in 1..MaxAttempt /\ u = <<u[1], u[2]>>
  /\ \A t \in Tickets, a \in 1..MaxAttempt : <<t, a>> \in Units
  /\ \A t \in Tickets : t # 0
  /\ \A u \in Units : <<"resolve", u>> \in Workers /\ <<"implement", u>> \in Workers
  /\ \A w \in Workers : w[2] \in Units /\ w = <<w[1], w[2]>> /\ w[1] \in {"implement", "resolve"}
BY DEF Units, NoUnit, Workers

LEMMA MaxAttemptFacts == MaxAttempt \in Nat /\ MaxAttempt >= 1 /\ MaxFaults \in Nat /\ MaxStops \in Nat
OBVIOUS

LEMMA InitTypes == PipelineInit => TypeInv
<1> SUFFICES ASSUME PipelineInit PROVE TypeInv
  OBVIOUS
<1>1. Nothing \in [Tickets -> Attempt]
  BY DEF Nothing, Attempt
<1>2. TrackerType /\ GitType /\ HistoryType /\ StopType /\ ModeType /\ BoundType
  BY <1>1 DEF PipelineInit, TrackerType, GitType, HistoryType, StopType, ModeType, BoundType,
              MaybeUnit, NoHistory, History, NoStop
<1>3. WorkerType
  BY DEF PipelineInit, WorkerType, NoWorker, Registration, OneWorker, Attempt
<1>4. PendingType
  BY DEF PipelineInit, PendingType, MaybeUnit, Flows
<1>5. FlowType
  BY <1>1 DEF PipelineInit, FlowType, Flow, Flows, Idle, Places, MaybeUnit
<1>6. ChildType /\ MailInv
  BY DEF PipelineInit, ChildType, MailInv, Process, Results
<1> QED BY <1>2, <1>3, <1>4, <1>5, <1>6 DEF TypeInv

Events == {"completed", "inferred", "failed", "reset", "leave-open", "close", "unit-failed",
           "unit-conflict", "resolve-launch", "resolve-failed", "unit-completed"}

\* What a transcript says is well-formed after each of its events.
LEMMA EventTypes == ASSUME NEW h \in History, NEW e \in Events PROVE AfterEvent(h, e) \in History
<1> h = [completed |-> h.completed, disposition |-> h.disposition, done |-> h.done,
         conflict |-> h.conflict]
  BY DEF History
<1> QED BY DEF Events, AfterEvent, History

LEMMA AppendTypes ==
  ASSUME HistoryType, NEW u \in Units, NEW e \in Events, Append1(u, e)
  PROVE  HistoryType'
BY EventTypes DEF HistoryType, Append1

LEMMA TypesFollow == TypeInv => PipelineTypeOK
<1> SUFFICES ASSUME TypeInv PROVE PipelineTypeOK
  OBVIOUS
<1>1. /\ worker \in [Tickets -> OneWorker]
      /\ integration \in [unit : Units \cup {NoUnit}, conflict : BOOLEAN]
  <2>1. worker \in [Tickets -> Registration] /\ Registration \subseteq OneWorker
    BY DEF TypeInv, WorkerType, Registration
  <2>2. integration \in [unit : Units, conflict : BOOLEAN] \cup {NoIntegration}
    BY DEF TypeInv, PendingType
  <2>3. integration \in [unit : Units \cup {NoUnit}, conflict : BOOLEAN]
    <3>1. CASE integration = NoIntegration
      BY <3>1 DEF NoIntegration
    <3>2. CASE integration \in [unit : Units, conflict : BOOLEAN]
      BY <3>2
    <3> QED BY <2>2, <3>1, <3>2
  <2> QED BY <2>1, <2>3
<1>2. DOMAIN flow = Flows /\ \A f \in Flows : flow[f] \in Flow
  BY DEF TypeInv, FlowType
<1>3. \A w \in Workers : Len(mail[w]) <= 2 /\ \A i \in 1..Len(mail[w]) : mail[w][i] \in Results
  BY DEF TypeInv, ChildType, MailInv
<1> QED BY <1>1, <1>2, <1>3
        DEF TypeInv, PipelineTypeOK, TrackerType, GitType, HistoryType, PendingType, StopType,
            ModeType, BoundType, ChildType, Attempt, MaybeUnit, History, OneWorker, Flow, Flows,
            Results, Process

\* A flow goes on, at a place where it works on a unit, or returns.
LEMMA FlowMoves ==
  ASSUME FlowType, NEW f \in Flows, NEW x \in Flow, x.at # "idle" => x.unit \in Units,
         flow' = [flow EXCEPT ![f] = x]
  PROVE  FlowType'
BY DEF FlowType

LEMMA NothingType == Nothing \in [Tickets -> Attempt]
BY DEF Nothing, Attempt

LEMMA IdleType == Idle \in Flow /\ Idle.at = "idle" /\ Idle.unit = NoUnit /\ ~Idle.own
BY DEF Idle, Flow, Places, MaybeUnit, Nothing, Attempt

LEMMA EnterTypes ==
  ASSUME FlowType, NEW f \in Flows, NEW at \in Places, NEW u \in Units, Enter(f, at, u)
  PROVE  FlowType'
<1> DEFINE x == [Idle EXCEPT !.at = at, !.unit = u]
<1>1. x \in Flow /\ x.unit \in Units
  BY IdleType DEF Flow, MaybeUnit
<1>2. flow' = [flow EXCEPT ![f] = x]
  BY DEF Enter
<1> QED BY <1>1, <1>2, FlowMoves

LEMMA GoTypes ==
  ASSUME FlowType, NEW f \in Flows, NEW at \in Places, flow[f].at # "idle", Go(f, at)
  PROVE  FlowType'
<1> DEFINE x == [flow[f] EXCEPT !.at = at]
<1>1. x \in Flow /\ x.unit \in Units
  BY DEF FlowType, Flow
<1>2. flow' = [flow EXCEPT ![f] = x]
  BY DEF Go, FlowType
<1> QED BY <1>1, <1>2, FlowMoves

LEMMA ReturnTypes ==
  ASSUME FlowType, PendingType, NEW f \in Flows, Return(f)
  PROVE  FlowType' /\ busy' \in BOOLEAN
<1>1. FlowType'
  BY IdleType, FlowMoves DEF Return
<1>2. busy' \in BOOLEAN
  BY DEF Return, PendingType
<1> QED BY <1>1, <1>2

LEMMA PromoteTypes ==
  ASSUME WorkerType, NEW d \in MaybeUnit, NEW i, Promote(d, i)
  PROVE  WorkerType' /\ disposition' \in MaybeUnit
<1>1. NoWorker \in Registration
  BY DEF NoWorker, Registration, OneWorker, Attempt
<1>2. CASE \E t \in Waiting : /\ disposition' = <<t, worker[t].attempt>>
                              /\ worker' = [worker EXCEPT ![t] = NoWorker]
  <2>1. PICK t \in Waiting : /\ disposition' = <<t, worker[t].attempt>>
                             /\ worker' = [worker EXCEPT ![t] = NoWorker]
    BY <1>2
  <2>2. t \in Tickets /\ worker[t].attempt \in 1..MaxAttempt
    BY <2>1 DEF Waiting, WorkerType, Registration, OneWorker, Attempt
  <2> QED BY <1>1, <2>1, <2>2, UnitFacts DEF WorkerType, MaybeUnit
<1>3. CASE disposition' = d /\ UNCHANGED worker
  BY <1>3 DEF WorkerType
<1> QED BY <1>2, <1>3 DEF Promote

LEMMA BoundTypes == BoundType /\ (Well \/ Fault) => BoundType'
BY DEF BoundType, Well, Fault, bounds

LEMMA RunUnitTypes ==
  ASSUME FlowType, PendingType, NEW u \in Units, NEW c \in BOOLEAN, RunUnit(u, c)
  PROVE  FlowType' /\ busy' \in BOOLEAN
<1> DEFINE x == [Idle EXCEPT !.at = "load", !.unit = u, !.own = TRUE]
<1>0. 0 \in Flows /\ busy \in BOOLEAN
  BY DEF Flows, PendingType
<1>1. CASE flow' = [flow EXCEPT ![0] = Idle] /\ UNCHANGED busy
  BY <1>0, <1>1, IdleType, FlowMoves
<1>2. CASE Enter(0, "resolve", u) /\ UNCHANGED busy
  BY <1>0, <1>2, EnterTypes DEF Places
<1>3. CASE flow' = [flow EXCEPT ![0] = x] /\ busy' = TRUE
  <2>1. x \in Flow /\ x.unit \in Units
    BY IdleType DEF Flow, MaybeUnit, Places
  <2> QED BY <1>0, <1>3, <2>1, FlowMoves
<1> QED BY <1>1, <1>2, <1>3 DEF RunUnit

LEMMA LatestType == ASSUME GitType, NEW t \in Tickets, branch[t] # 0 PROVE Latest(t) \in Units
<1>1. branch[t] \in 1..MaxAttempt
  BY MaxAttemptFacts DEF GitType, Attempt
<1> QED BY <1>1, UnitFacts DEF Latest

LEMMA RecoverPendingTypes ==
  ASSUME TypeInv, NEW t \in Tickets, RecoverPending(t)
  PROVE  TypeInv'
<1>0. branch[t] > 0
  BY DEF RecoverPending, FirstRecoverable, Recoverable
<1>1. Latest(t) \in Units
  BY <1>0, LatestType DEF TypeInv
<1>2. history[Latest(t)].conflict \in BOOLEAN
  BY <1>1 DEF TypeInv, HistoryType, History
<1>3. PendingType'
  BY <1>1, <1>2 DEF RecoverPending, TypeInv, PendingType, MaybeUnit
<1> QED BY <1>3, BoundTypes
        DEF RecoverPending, TypeInv, TrackerType, GitType, HistoryType, WorkerType, FlowType,
            StopType, ModeType, ChildType, MailInv, tracker, git, control, children

LEMMA ChooseTypes ==
  ASSUME TypeInv, NEW t \in Tickets, NEW at \in Places, Choose(at, t), Well \/ Fault
  PROVE  TypeInv'
<1> DEFINE u == <<t, IF integrated[t] = 0 THEN 1 ELSE integrated[t]>>
<1>1. u \in Units
  BY UnitFacts, MaxAttemptFacts DEF TypeInv, TrackerType, Attempt
<1>2. FlowType'
  BY <1>1, EnterTypes DEF Choose, TypeInv, Flows
<1> QED BY <1>2, BoundTypes
        DEF Choose, TypeInv, TrackerType, GitType, HistoryType, WorkerType, PendingType,
            StopType, ModeType, ChildType, MailInv, tracker, git, pending, children

LEMMA ChooseDispositionTypes ==
  ASSUME TypeInv, NEW d \in {"close disposition", "leave-open disposition"},
         ChooseDisposition(d)
  PROVE  TypeInv'
<1>1. 0 \in Flows /\ d \in Places /\ disposition \in Units
  BY DEF ChooseDisposition, TypeInv, PendingType, MaybeUnit, Flows, Places
<1>2. Enter(0, d, disposition) /\ FlowType
  BY DEF ChooseDisposition, TypeInv
<1>3. FlowType'
  BY <1>1, <1>2, EnterTypes
<1> QED BY <1>3, BoundTypes
        DEF ChooseDisposition, TypeInv, TrackerType, GitType, HistoryType, WorkerType,
            PendingType, StopType, ModeType, ChildType, MailInv, tracker, git, pending, children

LEMMA LeaveOpenCiTypes == ASSUME TypeInv, LeaveOpenCi PROVE TypeInv'
<1>1. PendingType'
  BY DEF LeaveOpenCi, TypeInv, PendingType, Flows
<1> QED BY <1>1, BoundTypes
        DEF LeaveOpenCi, TypeInv, TrackerType, GitType, HistoryType, WorkerType, FlowType,
            StopType, ModeType, ChildType, MailInv, tracker, git, control, children

LEMMA RetryIntegrationTypes == ASSUME TypeInv, RetryIntegration PROVE TypeInv'
<1>1. integration.unit \in Units /\ integration.conflict \in BOOLEAN
  BY DEF RetryIntegration, TypeInv, PendingType
<1>2. FlowType' /\ busy' \in BOOLEAN
  BY <1>1, RunUnitTypes DEF RetryIntegration, TypeInv
<1> QED BY <1>2, BoundTypes
        DEF RetryIntegration, TypeInv, TrackerType, GitType, HistoryType, WorkerType,
            PendingType, StopType, ModeType, ChildType, MailInv, tracker, git, children

LEMMA PlanImplementationTypes == ASSUME TypeInv, PlanImplementation PROVE TypeInv'
<1> DEFINE t == flow[0].unit[1]
           plan == Plan(t)
<1>1. 0 \in Flows /\ t \in Tickets
  BY UnitFacts DEF PlanImplementation, TypeInv, FlowType, Flows
<1>2. branch[t] = 0 => plan = [kind |-> "fresh", unit |-> <<t, branch[t] + 1>>]
  BY DEF Plan
<1>3. plan.kind \in {"dispose", "retry"} => plan.unit \in Units
  <2>1. CASE branch[t] = 0
    BY <2>1, <1>2
  <2>2. CASE branch[t] # 0
    BY <1>1, <2>2, LatestType DEF Plan, TypeInv
  <2> QED BY <2>1, <2>2
<1>4. CASE Return(0) /\ UNCHANGED <<disposition, integration>>
  BY <1>1, <1>4, ReturnTypes, BoundTypes
  DEF PlanImplementation, TypeInv, TrackerType, GitType, HistoryType, WorkerType, PendingType,
      StopType, ModeType, ChildType, MailInv, tracker, git, children
<1>5. CASE Return(0) /\ disposition' = plan.unit /\ UNCHANGED integration /\ plan.kind = "dispose"
  BY <1>1, <1>3, <1>5, ReturnTypes, BoundTypes
  DEF PlanImplementation, TypeInv, TrackerType, GitType, HistoryType, WorkerType, PendingType,
      StopType, ModeType, ChildType, MailInv, tracker, git, children, MaybeUnit
<1>6. CASE /\ Return(0) /\ UNCHANGED disposition /\ plan.kind = "retry"
           /\ integration' = [unit |-> plan.unit, conflict |-> FALSE]
  BY <1>1, <1>3, <1>6, ReturnTypes, BoundTypes
  DEF PlanImplementation, TypeInv, TrackerType, GitType, HistoryType, WorkerType, PendingType,
      StopType, ModeType, ChildType, MailInv, tracker, git, children
<1>7. CASE /\ plan.unit \in Units /\ Enter(0, "workspace", plan.unit) /\ UNCHANGED busy
           /\ UNCHANGED <<disposition, integration>>
  <2>1. FlowType'
    BY <1>1, <1>7, EnterTypes DEF TypeInv, Places
  <2> QED BY <1>7, <2>1, BoundTypes
    DEF PlanImplementation, TypeInv, TrackerType, GitType, HistoryType, WorkerType, PendingType,
        StopType, ModeType, ChildType, MailInv, tracker, git, children
<1> QED BY <1>4, <1>5, <1>6, <1>7 DEF PlanImplementation

LEMMA CreateWorkspaceTypes == ASSUME TypeInv, CreateWorkspace PROVE TypeInv'
<1>1. 0 \in Flows /\ flow[0].unit \in Units /\ flow[0].at = "workspace"
  BY DEF CreateWorkspace, TypeInv, FlowType, Flows
<1>2. GitType'
  BY <1>1, UnitFacts DEF CreateWorkspace, TypeInv, GitType, Attempt
<1>3. FlowType' /\ busy' \in BOOLEAN
  BY <1>1, GoTypes, ReturnTypes DEF CreateWorkspace, TypeInv, Places, PendingType
<1> QED BY <1>2, <1>3, BoundTypes
    DEF CreateWorkspace, TypeInv, TrackerType, HistoryType, WorkerType, PendingType, StopType,
        ModeType, ChildType, MailInv, tracker, children

LEMMA RegisterWorkerTypes == ASSUME TypeInv, RegisterWorker PROVE TypeInv'
<1>1. 0 \in Flows /\ flow[0].unit \in Units /\ flow[0].at = "register"
  BY DEF RegisterWorker, TypeInv, FlowType, Flows
<1>2. [attempt |-> flow[0].unit[2], status |-> "running"] \in Registration
  BY <1>1, UnitFacts DEF Registration, OneWorker, Attempt
<1>3. WorkerType'
  BY <1>1, <1>2, UnitFacts DEF RegisterWorker, TypeInv, WorkerType
<1>4. FlowType' /\ busy' \in BOOLEAN
  BY <1>1, GoTypes, ReturnTypes DEF RegisterWorker, TypeInv, Places, PendingType
<1> QED BY <1>3, <1>4, BoundTypes
    DEF RegisterWorker, TypeInv, TrackerType, GitType, HistoryType, PendingType, StopType,
        ModeType, ChildType, MailInv, tracker, git, children

LEMMA DropWorkerTypes ==
  ASSUME WorkerType, NEW u \in Units
  PROVE  DropWorker(worker, u) \in [Tickets -> Registration]
<1>1. NoWorker \in Registration
  BY DEF NoWorker, Registration, OneWorker, Attempt
<1> QED BY <1>1, UnitFacts DEF DropWorker, WorkerType

LEMMA LaunchWorkerTypes == ASSUME TypeInv, LaunchWorker PROVE TypeInv'
<1> DEFINE w == <<"implement", flow[0].unit>>
<1>1. 0 \in Flows /\ flow[0].unit \in Units /\ w \in Workers
  BY UnitFacts DEF LaunchWorker, TypeInv, FlowType, Flows
<1>2. FlowType' /\ busy' \in BOOLEAN
  BY <1>1, ReturnTypes DEF LaunchWorker, TypeInv
<1>3. WorkerType'
  BY <1>1, DropWorkerTypes DEF LaunchWorker, TypeInv, WorkerType
<1>4. ChildType' /\ MailInv'
  BY <1>1 DEF LaunchWorker, TypeInv, ChildType, MailInv, Process
<1> QED BY <1>2, <1>3, <1>4, BoundTypes
    DEF LaunchWorker, TypeInv, TrackerType, GitType, HistoryType, PendingType, StopType,
        ModeType, tracker, git

(***************************************************************************)
(* Types of workers and their events                                       *)
(***************************************************************************)

LEMMA EmptySeqLength ==
  Len(<<>>) = 0 /\ \A s \in Seq(Results) : (s = <<>>) <=> (Len(s) = 0)
BY EmptySeq

\* A worker that has not ended sends its last message.
LEMMA SendTypes ==
  ASSUME ChildType, MailInv, NEW w \in Workers, NEW e \in Results, process[w] # "closed",
         Send(w, e), process' = [process EXCEPT ![w] = "closed"],
         UNCHANGED <<heard, synthesized>>
  PROVE  ChildType' /\ MailInv'
<1>1. mail[w] \in {<<>>, <<"clean">>} /\ mail' = [mail EXCEPT ![w] = Append(@, e)]
  BY DEF MailInv, Send
<1>2. mail'[w] = Append(mail[w], e) /\ mail[w] \in Seq(Results)
  BY <1>1 DEF ChildType
<1>3. ChildType'
  BY <1>1 DEF ChildType, Process
<1>4. \A v \in Workers : v # w => mail'[v] = mail[v] /\ process'[v] = process[v]
  BY <1>1 DEF ChildType
<1>5. process'[w] = "closed"
  BY DEF ChildType
<1>6. Len(mail[w]) \in 0..1 /\ (Len(mail[w]) = 1 => mail[w][1] = "clean")
  BY <1>1
<1>7. Len(mail'[w]) = Len(mail[w]) + 1 /\ (Len(mail[w]) = 1 => mail'[w][1] = "clean")
  BY <1>2, <1>6
<1>8. mail'[w] # <<>>
  BY <1>6, <1>7, EmptySeqLength
<1>9. Len(mail'[w]) <= 2 /\ (Len(mail'[w]) = 2 => mail'[w][1] = "clean")
  <2> \A m, n : m \in 0..1 /\ n = m + 1 => n <= 2 /\ (n = 2 => m = 1)
    OBVIOUS
  <2> QED BY <1>6, <1>7
<1> QED BY <1>3, <1>4, <1>5, <1>8, <1>9 DEF MailInv

\* The oldest message is handled, and with the last one the port forgets the worker.
LEMMA DeliveredTypes ==
  ASSUME ChildType, MailInv, NEW w \in Workers, mail[w] # <<>>, Delivered(w),
         UNCHANGED synthesized
  PROVE  ChildType' /\ MailInv'
<1>1. mail' = [mail EXCEPT ![w] = Tail(@)] /\ mail[w] \in Seq(Results) /\ Len(mail[w]) <= 2
  BY DEF Delivered, ChildType, MailInv
<1>2. mail'[w] = Tail(mail[w]) /\ mail'[w] \in Seq(Results)
  BY <1>1 DEF ChildType
<1>3. ChildType'
  <2>1. mail' \in [Workers -> Seq(Results)]
    BY <1>1, <1>2 DEF ChildType
  <2>2. process' \in [Workers -> Process]
    BY DEF Delivered, ChildType, Process
  <2> QED BY <2>1, <2>2 DEF ChildType, Delivered
<1>4. \A v \in Workers : v # w => mail'[v] = mail[v] /\ process'[v] = process[v]
  BY <1>1 DEF ChildType, Delivered
<1>5. w \notin heard' /\ heard' \subseteq heard
  BY DEF Delivered
<1>6. Len(mail'[w]) = Len(mail[w]) - 1 /\ Len(mail[w]) \in 1..2
  <2>1. Len(mail[w]) \in Nat /\ Len(mail[w]) # 0
    BY <1>1, EmptySeqLength
  <2> \A n \in Nat : n # 0 /\ n <= 2 => n \in 1..2
    OBVIOUS
  <2>2. Len(Tail(mail[w])) = Len(mail[w]) - 1
    BY <1>1
  <2>3. Len(mail[w]) <= 2 /\ mail'[w] = Tail(mail[w])
    BY <1>1, <1>2
  <2> QED BY <2>1, <2>2, <2>3
<1>7. process'[w] # "closed" => mail'[w] = <<>>
  <2>1. CASE process[w] = "closed"
    <3>1. process'[w] # "closed" => Len(mail[w]) = 1
      BY <2>1 DEF Delivered, ChildType
    <3>2. process'[w] # "closed" => Len(mail'[w]) = 0
      BY <3>1, <1>6
    <3> QED BY <3>2, <1>2, EmptySeqLength
  <2>2. CASE process[w] # "closed"
    <3>1. mail[w] = <<"clean">>
      BY <2>2 DEF MailInv
    <3>2. Len(mail'[w]) = 0
      BY <3>1, <1>6
    <3> QED BY <3>2, <1>2, EmptySeqLength
  <2> QED BY <2>1, <2>2
<1> QED BY <1>3, <1>4, <1>5, <1>6, <1>7 DEF MailInv

LEMMA ReportTypes ==
  ASSUME TypeInv, NEW w \in Workers, NEW e \in {"completed", "failed"}, Report(w, e)
  PROVE  TypeInv'
<1>1. process[w] # "closed" /\ e \in Results
  BY DEF Report, Works, Results
<1>2. ChildType' /\ MailInv'
  BY <1>1, SendTypes DEF Report, TypeInv
<1>3. GitType'
  BY UnitFacts DEF Report, TypeInv, GitType, MaybeUnit
<1> QED BY <1>2, <1>3, BoundTypes
    DEF Report, TypeInv, TrackerType, HistoryType, WorkerType, PendingType, FlowType, StopType,
        ModeType, tracker, pending, control

LEMMA ExitTypes ==
  ASSUME TypeInv, NEW w \in Workers, NEW e \in {"clean", "bad"}, Exit(w, e)
  PROVE  TypeInv'
<1>1. process[w] # "closed"
  BY DEF Exit, Works
<1>2. ChildType' /\ MailInv'
  BY <1>1, SendTypes DEF Exit, TypeInv, Results
<1>3. GitType'
  BY UnitFacts DEF Exit, TypeInv, GitType
<1>4. BoundType'
  BY BoundTypes DEF Exit, TypeInv
<1> QED BY <1>2, <1>3, <1>4
    DEF Exit, TypeInv, TrackerType, HistoryType, WorkerType, PendingType, FlowType, StopType,
        ModeType, tracker, pending, control

\* The head of what a worker sent is a result or an exit.
LEMMA HeadType ==
  ASSUME ChildType, NEW w \in Workers, mail[w] # <<>>
  PROVE  Head(mail[w]) \in Results
BY DEF ChildType

LEMMA ReceiveEventTypes ==
  ASSUME TypeInv, NEW w \in Workers, ReceiveEvent(w)
  PROVE  TypeInv'
<1>0. ChildType /\ MailInv /\ HistoryType /\ mail[w] # <<>> /\ w[2] \in Units
  BY UnitFacts DEF ReceiveEvent, TypeInv
<1>1. heard' = heard \cup {w} /\ UNCHANGED <<mail, process, synthesized>>
        => ChildType' /\ MailInv'
  BY <1>0 DEF ChildType, MailInv
<1>2. Delivered(w) /\ UNCHANGED synthesized => ChildType' /\ MailInv'
  BY <1>0, DeliveredTypes
<1>3. ChildType' /\ MailInv'
  BY <1>1, <1>2 DEF ReceiveEvent
<1>4. HistoryType'
  <2>1. CASE ~IsExit(w) /\ Append1(w[2], Head(mail[w]))
    <3>1. Head(mail[w]) \in Events
      BY <1>0, <2>1, HeadType DEF IsExit, Results, Events
    <3> QED BY <1>0, <2>1, <3>1, AppendTypes
  <2>2. CASE UNCHANGED history
    BY <1>0, <2>2 DEF HistoryType
  <2> QED BY <2>1, <2>2 DEF ReceiveEvent
<1> QED BY <1>3, <1>4, BoundTypes
    DEF ReceiveEvent, TypeInv, TrackerType, GitType, WorkerType, PendingType, FlowType,
        StopType, ModeType, tracker, git, pending, control

LEMMA SettleTypes ==
  ASSUME WorkerType, PendingType, NEW u \in Units, Settle(u)
  PROVE  WorkerType' /\ disposition' \in MaybeUnit
<1>1. CASE disposition' = u /\ worker' = DropWorker(worker, u)
  BY <1>1, DropWorkerTypes DEF WorkerType, MaybeUnit
<1>2. CASE /\ worker' = [worker EXCEPT ![u[1]] = [attempt |-> u[2],
                                                 status |-> "needs-disposition"]]
           /\ UNCHANGED disposition
  <2>1. [attempt |-> u[2], status |-> "needs-disposition"] \in Registration
    BY UnitFacts DEF Registration, OneWorker, Attempt
  <2> QED BY <1>2, <2>1 DEF WorkerType, PendingType
<1> QED BY <1>1, <1>2 DEF Settle

LEMMA SettleResultTypes ==
  ASSUME TypeInv, NEW u \in Units, SettleResult(u)
  PROVE  TypeInv'
<1> DEFINE w == <<"implement", u>>
<1>0. w \in Workers /\ mail[w] # <<>>
  BY UnitFacts DEF SettleResult, TypeInv, MailInv
<1>1. ChildType' /\ MailInv'
  BY <1>0, DeliveredTypes DEF SettleResult, TypeInv
<1>2. WorkerType' /\ disposition' \in MaybeUnit
  <2>1. CASE UNCHANGED <<disposition, worker>>
    BY <2>1 DEF TypeInv, WorkerType, PendingType
  <2>2. CASE Settle(u)
    BY <2>2, SettleTypes DEF TypeInv
  <2>3. CASE worker' = DropWorker(worker, u) /\ UNCHANGED disposition
    BY <2>3, DropWorkerTypes DEF TypeInv, WorkerType, PendingType
  <2> QED BY <2>1, <2>2, <2>3 DEF SettleResult
<1>3. PendingType'
  BY <1>2 DEF SettleResult, TypeInv, PendingType
<1> QED BY <1>1, <1>2, <1>3, BoundTypes
    DEF SettleResult, TypeInv, TrackerType, GitType, HistoryType, FlowType, StopType, ModeType,
        tracker, git, control

LEMMA SettleExitTypes ==
  ASSUME TypeInv, NEW u \in Units, SettleExit(u)
  PROVE  TypeInv'
<1> DEFINE w == <<"implement", u>>
<1>0. w \in Workers /\ mail[w] # <<>>
  BY UnitFacts DEF SettleExit, TypeInv, MailInv
<1>1. ChildType' /\ MailInv'
  BY <1>0, DeliveredTypes DEF SettleExit, TypeInv
<1>2. WorkerType' /\ disposition' \in MaybeUnit /\ HistoryType'
  <2>1. CASE Settle(u) /\ Append1(u, "inferred")
    BY <2>1, SettleTypes, AppendTypes DEF TypeInv, Events
  <2>2. CASE /\ worker' = DropWorker(worker, u) /\ UNCHANGED disposition
             /\ Append1(u, "reset")
    BY <2>2, DropWorkerTypes, AppendTypes DEF TypeInv, WorkerType, PendingType, Events
  <2> QED BY <2>1, <2>2 DEF SettleExit
<1>3. PendingType'
  BY <1>2 DEF SettleExit, TypeInv, PendingType
<1> QED BY <1>1, <1>2, <1>3, BoundTypes
    DEF SettleExit, TypeInv, TrackerType, GitType, FlowType, StopType, ModeType, tracker, git,
        control

LEMMA FinishTypes ==
  ASSUME FlowType, NEW u \in Units, Finish(u)
  PROVE  FlowType' /\ busy' \in BOOLEAN
<1> DEFINE x == [Idle EXCEPT !.at = "gate", !.unit = u, !.own = TRUE]
<1>1. x \in Flow /\ x.unit \in Units
  BY IdleType DEF Flow, MaybeUnit, Places
<1>2. u[1] \in Flows /\ flow' = [flow EXCEPT ![u[1]] = x] /\ busy' = TRUE
  BY UnitFacts DEF Finish, Flows
<1> QED BY <1>1, <1>2, FlowMoves

LEMMA SettleResolverTypes ==
  ASSUME TypeInv, NEW u \in Units, SettleResolver(u)
  PROVE  TypeInv'
<1> DEFINE w == <<"resolve", u>>
<1>0. w \in Workers /\ mail[w] # <<>>
  BY UnitFacts DEF SettleResolver, TypeInv, MailInv
<1>1. ChildType' /\ MailInv'
  BY <1>0, DeliveredTypes DEF SettleResolver, TypeInv
<1>2. /\ FlowType' /\ busy' \in BOOLEAN /\ HistoryType'
      /\ integration' \in [unit : Units, conflict : BOOLEAN] \cup {NoIntegration}
  <2>1. CASE /\ integration.unit = u
             /\ integration' = [integration EXCEPT !.conflict = FALSE]
             /\ Finish(u) /\ UNCHANGED history
    <3>1. integration \in [unit : Units, conflict : BOOLEAN]
      BY <2>1, UnitFacts DEF TypeInv, PendingType, NoIntegration
    <3> QED BY <2>1, <3>1, FinishTypes DEF TypeInv, HistoryType
  <2>2. CASE UNCHANGED <<integration, busy, flow, history>>
    BY <2>2 DEF TypeInv, FlowType, PendingType, HistoryType
  <2>3. CASE Append1(u, "resolve-failed") /\ UNCHANGED <<integration, busy, flow>>
    BY <2>3, AppendTypes DEF TypeInv, FlowType, PendingType, Events
  <2>4. CASE Append1(u, "reset") /\ UNCHANGED <<integration, busy, flow>>
    BY <2>4, AppendTypes DEF TypeInv, FlowType, PendingType, Events
  <2> QED BY <2>1, <2>2, <2>3, <2>4 DEF SettleResolver
<1>3. PendingType'
  BY <1>2 DEF SettleResolver, TypeInv, PendingType, MaybeUnit
<1> QED BY <1>1, <1>2, <1>3, BoundTypes
    DEF SettleResolver, TypeInv, TrackerType, GitType, WorkerType, StopType, ModeType, tracker,
        git

LEMMA LoseEventTypes ==
  ASSUME TypeInv, NEW w \in Workers, LoseEvent(w)
  PROVE  TypeInv'
<1>1. ChildType' /\ MailInv'
  BY DeliveredTypes DEF LoseEvent, TypeInv
<1> QED BY <1>1, BoundTypes
    DEF LoseEvent, TypeInv, TrackerType, GitType, HistoryType, WorkerType, PendingType,
        FlowType, StopType, ModeType, tracker, git, pending, control

LEMMA SynthesizeExitTypes ==
  ASSUME TypeInv, NEW w \in Workers, SynthesizeExit(w)
  PROVE  TypeInv'
<1>1. /\ mail' = [mail EXCEPT ![w] = Append(@, "clean")] /\ mail[w] = <<>>
      /\ process[w] = "none"
  BY DEF SynthesizeExit, Send
<1>2. mail'[w] = <<"clean">> /\ \A v \in Workers : v # w => mail'[v] = mail[v]
  BY <1>1 DEF TypeInv, ChildType
<1>3. ChildType'
  BY <1>1 DEF SynthesizeExit, TypeInv, ChildType, Results
<1>4. mail'[w] # <<>> /\ Len(mail'[w]) = 1
  BY <1>2, EmptySeqLength
<1>5. MailInv /\ heard' = heard \cup {w} /\ UNCHANGED process
  BY DEF SynthesizeExit, TypeInv
<1>6. MailInv'
  <2>1. Len(mail'[w]) <= 2 /\ Len(mail'[w]) # 2
    BY <1>4
  <2>2. ASSUME NEW v \in Workers, v # w
        PROVE  /\ v \in heard' => mail'[v] # <<>>
               /\ process'[v] # "closed" => mail'[v] \in {<<>>, <<"clean">>}
               /\ Len(mail'[v]) <= 2
               /\ Len(mail'[v]) = 2 => mail'[v][1] = "clean"
    BY <1>2, <1>5, <2>2 DEF MailInv
  <2> QED BY <1>2, <1>4, <2>1, <2>2 DEF MailInv
<1> QED BY <1>3, <1>6, BoundTypes
    DEF SynthesizeExit, TypeInv, TrackerType, GitType, HistoryType, WorkerType, PendingType,
        FlowType, StopType, ModeType, tracker, git, pending, control

(***************************************************************************)
(* Types of the loop and the Integration unit                              *)
(***************************************************************************)

LEMMA DisposeTypes == ASSUME TypeInv, Dispose PROVE TypeInv'
<1> DEFINE u == flow[0].unit
<1>1. 0 \in Flows /\ u \in Units /\ HistoryType /\ FlowType /\ PendingType /\ WorkerType
  BY DEF Dispose, TypeInv, FlowType, Flows
<1>2. HistoryType'
  <2>1. Append1(u, "leave-open") \/ Append1(u, "close")
    BY DEF Dispose
  <2> QED BY <1>1, <2>1, AppendTypes DEF Events
<1>3. FlowType' /\ busy' \in BOOLEAN
  <2>1. flow' = [flow EXCEPT ![0] = Idle] /\ UNCHANGED busy => FlowType' /\ busy' \in BOOLEAN
    BY <1>1, IdleType, FlowMoves DEF PendingType
  <2>2. RunUnit(u, FALSE) => FlowType' /\ busy' \in BOOLEAN
    BY <1>1, RunUnitTypes
  <2> QED BY <2>1, <2>2 DEF Dispose
<1>4. WorkerType' /\ disposition' \in MaybeUnit
  <2>1. Promote(NoUnit, integration) => WorkerType' /\ disposition' \in MaybeUnit
    BY <1>1, PromoteTypes DEF MaybeUnit
  <2>2. disposition' = NoUnit /\ UNCHANGED worker => WorkerType' /\ disposition' \in MaybeUnit
    BY <1>1 DEF WorkerType, MaybeUnit
  <2> QED BY <2>1, <2>2 DEF Dispose
<1>5. PendingType'
  <2>1. integration' \in {integration, [unit |-> u, conflict |-> FALSE]}
    BY DEF Dispose
  <2>2. UNCHANGED <<resolver, recovery>>
    BY DEF Dispose
  <2>3. [unit |-> u, conflict |-> FALSE] \in [unit : Units, conflict : BOOLEAN]
    BY <1>1
  <2>4. integration' \in [unit : Units, conflict : BOOLEAN] \cup {NoIntegration}
    BY <1>1, <2>1, <2>3 DEF PendingType
  <2> QED BY <1>1, <1>3, <1>4, <2>2, <2>4 DEF PendingType
<1> QED BY <1>2, <1>3, <1>4, <1>5, BoundTypes
    DEF Dispose, TypeInv, TrackerType, GitType, StopType, ModeType, ChildType, MailInv, tracker,
        git, children

LEMMA FailUnitTypes ==
  ASSUME TypeInv, NEW f \in Flows, flow[f].at # "idle", FailUnit(f)
  PROVE  FlowType' /\ busy' \in BOOLEAN /\ HistoryType'
<1>1. FlowType /\ PendingType /\ HistoryType /\ flow[f].unit \in Units
  BY DEF TypeInv, FlowType
<1>2. Return(f) /\ Append1(flow[f].unit, "unit-failed")
  BY DEF FailUnit
<1> QED BY <1>1, <1>2, ReturnTypes, AppendTypes DEF Events

LEMMA LoadUnitTypes == ASSUME TypeInv, LoadUnit PROVE TypeInv'
<1> DEFINE u == flow[0].unit
<1>1. /\ 0 \in Flows /\ u \in Units /\ flow[0].at = "load" /\ "merge" \in Places
      /\ HistoryType /\ FlowType /\ PendingType /\ WorkerType
  BY DEF LoadUnit, TypeInv, FlowType, Flows, Places
<1>2. FlowType' /\ busy' \in BOOLEAN /\ HistoryType' /\ WorkerType' /\ disposition' \in MaybeUnit
  <2>1. CASE Go(0, "merge") /\ UNCHANGED <<history, worker, disposition, integration, busy>>
    <3>1. FlowType'
      BY <1>1, <2>1, GoTypes
    <3> QED BY <1>1, <2>1, <3>1 DEF HistoryType, PendingType, WorkerType
  <2>2. CASE /\ Promote(disposition, NoIntegration)
             /\ Append1(u, "unit-completed") /\ Return(0)
    BY <1>1, <2>2, PromoteTypes, AppendTypes, ReturnTypes DEF Events, PendingType
  <2>3. CASE FailUnit(0) /\ UNCHANGED <<worker, disposition, integration>>
    <3>1. FlowType' /\ busy' \in BOOLEAN /\ HistoryType'
      BY <1>1, <2>3, FailUnitTypes
    <3> QED BY <1>1, <2>3, <3>1 DEF WorkerType, PendingType
  <2> QED BY <2>1, <2>2, <2>3 DEF LoadUnit
<1>3. PendingType'
  <2>1. integration' \in {integration, NoIntegration} /\ UNCHANGED <<resolver, recovery>>
    BY DEF LoadUnit
  <2> QED BY <1>1, <1>2, <2>1 DEF PendingType
<1>4. BoundType'
  BY BoundTypes DEF LoadUnit, TypeInv
<1> QED BY <1>2, <1>3, <1>4
    DEF LoadUnit, TypeInv, TrackerType, GitType, StopType, ModeType, ChildType, MailInv, tracker,
        git, children

LEMMA MergeUnitTypes == ASSUME TypeInv, MergeUnit PROVE TypeInv'
<1> DEFINE u == flow[0].unit
<1>1. /\ 0 \in Flows /\ u \in Units /\ flow[0].at = "merge" /\ {"gate", "resolve"} \subseteq Places
      /\ HistoryType /\ FlowType /\ PendingType
  BY DEF MergeUnit, TypeInv, FlowType, Flows, Places
<1>2. FlowType' /\ busy' \in BOOLEAN /\ HistoryType'
  <2>1. CASE Go(0, "gate") /\ UNCHANGED <<history, busy>>
    <3>1. FlowType'
      BY <1>1, <2>1, GoTypes
    <3> QED BY <1>1, <2>1, <3>1 DEF HistoryType, PendingType
  <2>2. CASE Append1(u, "unit-conflict") /\ Enter(0, "resolve", u) /\ busy' = FALSE
    BY <1>1, <2>2, AppendTypes, EnterTypes DEF Events
  <2>3. CASE FailUnit(0)
    BY <1>1, <2>3, FailUnitTypes
  <2> QED BY <2>1, <2>2, <2>3 DEF MergeUnit
<1>3. PendingType'
  <2>1. integration' \in {integration, [unit |-> u, conflict |-> TRUE]}
    BY DEF MergeUnit
  <2>2. UNCHANGED <<disposition, resolver, recovery>>
    BY DEF MergeUnit
  <2>3. [unit |-> u, conflict |-> TRUE] \in [unit : Units, conflict : BOOLEAN]
    BY <1>1
  <2>4. integration' \in [unit : Units, conflict : BOOLEAN] \cup {NoIntegration}
    BY <1>1, <2>1, <2>3 DEF PendingType
  <2> QED BY <1>1, <1>2, <2>2, <2>4 DEF PendingType
<1>4. GitType'
  BY <1>1 DEF MergeUnit, TypeInv, GitType, MaybeUnit
<1>5. BoundType'
  BY BoundTypes DEF MergeUnit, TypeInv
<1> QED BY <1>2, <1>3, <1>4, <1>5
    DEF MergeUnit, TypeInv, TrackerType, WorkerType, StopType, ModeType, ChildType, MailInv,
        tracker, children

LEMMA RegisterResolverTypes == ASSUME TypeInv, RegisterResolver PROVE TypeInv'
<1> DEFINE u == flow[0].unit
<1>1. /\ 0 \in Flows /\ u \in Units /\ flow[0].at = "resolve" /\ "resolver" \in Places
      /\ HistoryType /\ FlowType /\ PendingType
  BY DEF RegisterResolver, TypeInv, FlowType, Flows, Places
<1>2. FlowType' /\ busy' \in BOOLEAN /\ HistoryType' /\ resolver' \in MaybeUnit
  <2>1. CASE /\ resolver' = u /\ Append1(u, "resolve-launch") /\ Go(0, "resolver")
             /\ UNCHANGED busy
    BY <1>1, <2>1, AppendTypes, GoTypes DEF Events, PendingType, MaybeUnit
  <2>2. CASE UNCHANGED <<resolver, history>> /\ Return(0)
    BY <1>1, <2>2, ReturnTypes DEF HistoryType, PendingType
  <2> QED BY <2>1, <2>2 DEF RegisterResolver
<1>3. PendingType'
  BY <1>1, <1>2 DEF RegisterResolver, PendingType
<1> QED BY <1>2, <1>3, BoundTypes
    DEF RegisterResolver, TypeInv, TrackerType, GitType, WorkerType, StopType, ModeType,
        ChildType, MailInv, tracker, git, children

LEMMA LaunchResolverTypes == ASSUME TypeInv, LaunchResolver PROVE TypeInv'
<1> DEFINE w == Resolve(flow[0].unit)
<1>1. 0 \in Flows /\ w \in Workers /\ FlowType /\ PendingType
  BY UnitFacts DEF LaunchResolver, TypeInv, FlowType, Flows, Resolve
<1>2. FlowType' /\ busy' \in BOOLEAN
  BY <1>1, ReturnTypes DEF LaunchResolver
<1>3. PendingType'
  BY <1>1, <1>2 DEF LaunchResolver, PendingType, MaybeUnit
<1>4. ChildType' /\ MailInv'
  BY <1>1 DEF LaunchResolver, TypeInv, ChildType, MailInv, Process, Resolve
<1>5. BoundType'
  BY BoundTypes DEF LaunchResolver, TypeInv
<1> QED BY <1>2, <1>3, <1>4, <1>5
    DEF LaunchResolver, TypeInv, TrackerType, GitType, HistoryType, WorkerType, StopType,
        ModeType, tracker, git

LEMMA GateUnitTypes == ASSUME TypeInv, NEW f \in Flows, GateUnit(f) PROVE TypeInv'
<1>1. /\ flow[f].at = "gate" /\ flow[f] \in Flow /\ flow[f].unit \in Units
      /\ HistoryType /\ FlowType /\ PendingType /\ integrated \in [Tickets -> Attempt]
  BY DEF GateUnit, TypeInv, FlowType, TrackerType
<1>2. FlowType' /\ busy' \in BOOLEAN /\ HistoryType'
  <2>1. CASE /\ flow' = [flow EXCEPT ![f] = [@ EXCEPT !.at = "verify", !.saw = integrated]]
             /\ UNCHANGED <<busy, history>>
    <3> DEFINE x == [flow[f] EXCEPT !.at = "verify", !.saw = integrated]
    <3>1. x \in Flow /\ x.unit \in Units
      BY <1>1 DEF Flow, Places
    <3>2. flow' = [flow EXCEPT ![f] = x]
      BY <2>1
    <3>3. FlowType'
      BY <1>1, <3>1, <3>2, FlowMoves
    <3> QED BY <1>1, <2>1, <3>3 DEF HistoryType, PendingType
  <2>2. CASE FailUnit(f)
    BY <1>1, <2>2, FailUnitTypes
  <2> QED BY <2>1, <2>2 DEF GateUnit
<1>3. PendingType'
  BY <1>1, <1>2 DEF GateUnit, PendingType
<1>4. BoundType'
  BY BoundTypes DEF GateUnit, TypeInv
<1> QED BY <1>2, <1>3, <1>4
    DEF GateUnit, TypeInv, TrackerType, GitType, WorkerType, StopType, ModeType, ChildType,
        MailInv, tracker, git, children

LEMMA VerifyUnitTypes == ASSUME TypeInv, NEW f \in Flows, VerifyUnit(f) PROVE TypeInv'
<1>1. /\ flow[f].at = "verify" /\ "push" \in Places
      /\ HistoryType /\ FlowType /\ PendingType
  BY DEF VerifyUnit, TypeInv, Places
<1>2. FlowType' /\ busy' \in BOOLEAN /\ HistoryType'
  <2>1. CASE Go(f, "push") /\ UNCHANGED <<busy, history>>
    <3>1. FlowType'
      BY <1>1, <2>1, GoTypes
    <3> QED BY <1>1, <2>1, <3>1 DEF HistoryType, PendingType
  <2>2. CASE FailUnit(f)
    BY <1>1, <2>2, FailUnitTypes
  <2> QED BY <2>1, <2>2 DEF VerifyUnit
<1>3. PendingType'
  BY <1>1, <1>2 DEF VerifyUnit, PendingType
<1>4. GitType'
  BY DEF VerifyUnit, TypeInv, GitType
<1>5. BoundType'
  BY BoundTypes DEF VerifyUnit, TypeInv
<1> QED BY <1>2, <1>3, <1>4, <1>5
    DEF VerifyUnit, TypeInv, TrackerType, WorkerType, StopType, ModeType, ChildType, MailInv,
        tracker, children

LEMMA PushUnitTypes == ASSUME TypeInv, NEW f \in Flows, PushUnit(f) PROVE TypeInv'
<1>1. /\ flow[f].at = "push" /\ "manifest" \in Places
      /\ HistoryType /\ FlowType /\ PendingType
  BY DEF PushUnit, TypeInv, Places
<1>2. FlowType' /\ busy' \in BOOLEAN /\ HistoryType'
  <2>1. CASE Go(f, "manifest") /\ UNCHANGED <<busy, history>>
    <3>1. FlowType'
      BY <1>1, <2>1, GoTypes
    <3> QED BY <1>1, <2>1, <3>1 DEF HistoryType, PendingType
  <2>2. CASE FailUnit(f)
    BY <1>1, <2>2, FailUnitTypes
  <2> QED BY <2>1, <2>2 DEF PushUnit
<1>3. PendingType'
  BY <1>1, <1>2 DEF PushUnit, PendingType
<1>4. GitType'
  BY DEF PushUnit, TypeInv, GitType
<1>5. BoundType'
  BY BoundTypes DEF PushUnit, TypeInv
<1> QED BY <1>2, <1>3, <1>4, <1>5
    DEF PushUnit, TypeInv, TrackerType, WorkerType, StopType, ModeType, ChildType, MailInv,
        tracker, children

LEMMA WriteManifestTypes == ASSUME TypeInv, NEW f \in Flows, WriteManifest(f) PROVE TypeInv'
<1>1. /\ flow[f].at = "manifest" /\ "record" \in Places /\ flow[f].unit \in Units
      /\ flow[f].saw \in [Tickets -> Attempt]
      /\ HistoryType /\ FlowType /\ PendingType /\ WorkerType /\ disposition \in MaybeUnit
  BY DEF WriteManifest, TypeInv, FlowType, Flow, Places, PendingType
<1>2. Recorded(f) \in [Tickets -> Attempt]
  BY <1>1, UnitFacts DEF Recorded, Attempt
<1>3. FlowType' /\ busy' \in BOOLEAN /\ HistoryType' /\ WorkerType' /\ disposition' \in MaybeUnit
  <2>1. CASE /\ Promote(disposition, NoIntegration)
             /\ Go(f, "record") /\ UNCHANGED <<busy, history>>
    <3>1. FlowType'
      BY <1>1, <2>1, GoTypes
    <3> QED BY <1>1, <2>1, <3>1, PromoteTypes DEF HistoryType, PendingType
  <2>2. CASE FailUnit(f) /\ UNCHANGED <<disposition, worker>>
    <3>1. FlowType' /\ busy' \in BOOLEAN /\ HistoryType'
      BY <1>1, <2>2, FailUnitTypes
    <3> QED BY <1>1, <2>2, <3>1 DEF WorkerType
  <2> QED BY <2>1, <2>2 DEF WriteManifest
<1>4. PendingType'
  <2>1. integration' \in {integration, NoIntegration} /\ UNCHANGED <<resolver, recovery>>
    BY DEF WriteManifest
  <2> QED BY <1>1, <1>3, <2>1 DEF PendingType
<1>5. TrackerType' /\ BoundType'
  BY <1>2, BoundTypes DEF WriteManifest, TypeInv, TrackerType
<1> QED BY <1>3, <1>4, <1>5
    DEF WriteManifest, TypeInv, GitType, StopType, ModeType, ChildType, MailInv, git, children

LEMMA RecordUnitTypes == ASSUME TypeInv, NEW f \in Flows, RecordUnit(f) PROVE TypeInv'
<1>1. /\ flow[f].at = "record" /\ flow[f].unit \in Units /\ "ci" \in Places
      /\ HistoryType /\ FlowType
  BY DEF RecordUnit, TypeInv, FlowType, Places
<1>2. FlowType'
  BY <1>1, GoTypes DEF RecordUnit
<1>3. HistoryType'
  BY <1>1, AppendTypes DEF RecordUnit, Events
<1> QED BY <1>2, <1>3, BoundTypes
    DEF RecordUnit, TypeInv, TrackerType, GitType, WorkerType, PendingType, StopType, ModeType,
        ChildType, MailInv, tracker, git, pending, children

LEMMA RePushTypes == ASSUME TypeInv, RePush PROVE TypeInv'
<1>1. /\ 0 \in Flows /\ flow[0].at = "repush" /\ flow[0].unit \in Units /\ "ci" \in Places
      /\ FlowType /\ PendingType
  BY DEF RePush, TypeInv, FlowType, Flows, Places
<1>2. FlowType' /\ busy' \in BOOLEAN
  BY <1>1, GoTypes, ReturnTypes DEF RePush, PendingType
<1>3. PendingType'
  BY <1>1, <1>2, UnitFacts DEF RePush, PendingType, Flows
<1>4. GitType'
  BY DEF RePush, TypeInv, GitType
<1>5. BoundType'
  BY BoundTypes DEF RePush, TypeInv
<1> QED BY <1>2, <1>3, <1>4, <1>5
    DEF RePush, TypeInv, TrackerType, HistoryType, WorkerType, StopType, ModeType, ChildType,
        MailInv, tracker, children

LEMMA CheckCiTypes == ASSUME TypeInv, NEW f \in Flows, CheckCi(f) PROVE TypeInv'
<1>1. /\ flow[f].at = "ci" /\ flow[f].unit \in Units /\ "close" \in Places
      /\ FlowType /\ PendingType
  BY DEF CheckCi, TypeInv, FlowType, Places
<1>2. FlowType' /\ busy' \in BOOLEAN
  BY <1>1, GoTypes, ReturnTypes DEF CheckCi, PendingType
<1>3. PendingType'
  BY <1>1, <1>2, UnitFacts DEF CheckCi, PendingType, Flows
<1>4. BoundType'
  BY BoundTypes DEF CheckCi, TypeInv
<1> QED BY <1>2, <1>3, <1>4
    DEF CheckCi, TypeInv, TrackerType, GitType, HistoryType, WorkerType, StopType, ModeType,
        ChildType, MailInv, tracker, git, children

LEMMA CloseTicketTypes == ASSUME TypeInv, NEW f \in Flows, CloseTicket(f) PROVE TypeInv'
<1>1. /\ flow[f].at = "close" /\ flow[f].unit[1] \in Tickets
      /\ FlowType /\ PendingType
  BY UnitFacts DEF CloseTicket, TypeInv, FlowType
<1>2. FlowType' /\ busy' \in BOOLEAN
  BY <1>1, ReturnTypes DEF CloseTicket
<1>3. PendingType'
  BY <1>1, <1>2, UnitFacts DEF CloseTicket, PendingType, Flows
<1>4. TrackerType' /\ BoundType'
  BY <1>1, BoundTypes DEF CloseTicket, TypeInv, TrackerType
<1> QED BY <1>2, <1>3, <1>4
    DEF CloseTicket, TypeInv, GitType, HistoryType, WorkerType, StopType, ModeType, ChildType,
        MailInv, git, children

LEMMA ReopenTicketTypes == ASSUME TypeInv, ReopenTicket PROVE TypeInv'
<1>1. /\ 0 \in Flows /\ flow[0].at = "reopen" /\ flow[0] \in Flow /\ flow[0].unit \in Units
      /\ FlowType /\ PendingType /\ integrated \in [Tickets -> Attempt]
  BY DEF ReopenTicket, TypeInv, FlowType, Flows, TrackerType
<1>2. FlowType' /\ busy' \in BOOLEAN
  <2>1. CASE /\ flow' = [flow EXCEPT ![0] = [@ EXCEPT !.at = "unrecord", !.saw = integrated]]
             /\ UNCHANGED busy
    <3> DEFINE x == [flow[0] EXCEPT !.at = "unrecord", !.saw = integrated]
    <3>1. x \in Flow /\ x.unit \in Units
      BY <1>1 DEF Flow, Places
    <3>2. flow' = [flow EXCEPT ![0] = x]
      BY <2>1
    <3>3. FlowType'
      BY <1>1, <3>1, <3>2, FlowMoves
    <3> QED BY <1>1, <2>1, <3>3 DEF PendingType
  <2>2. CASE Return(0)
    BY <1>1, <2>2, ReturnTypes
  <2> QED BY <2>1, <2>2 DEF ReopenTicket
<1>3. PendingType'
  BY <1>1, <1>2 DEF ReopenTicket, PendingType
<1>4. TrackerType' /\ BoundType'
  BY BoundTypes DEF ReopenTicket, TypeInv, TrackerType
<1> QED BY <1>2, <1>3, <1>4
    DEF ReopenTicket, TypeInv, GitType, HistoryType, WorkerType, StopType, ModeType, ChildType,
        MailInv, git, children

(***************************************************************************)
(* Types of the stops                                                      *)
(***************************************************************************)

LEMMA AbortBlockedTypes ==
  ASSUME TypeInv, NEW open, AbortBlocked(open), UNCHANGED <<mail, heard, synthesized>>
  PROVE  ChildType' /\ MailInv' /\ WorkerType' /\ HistoryType'
<1> DEFINE blocked == {t \in Running : Blockers[t] \cap open # {}}
<1>1. NoWorker \in Registration
  BY DEF NoWorker, Registration, OneWorker, Attempt
<1>2. WorkerType'
  <2>1. worker' = [t \in Tickets |-> IF t \in blocked THEN NoWorker ELSE worker[t]]
    BY DEF AbortBlocked
  <2> QED BY <1>1, <2>1 DEF TypeInv, WorkerType
<1>3. HistoryType'
  <2>1. history' = [u \in Units |->
                      IF u[1] \in blocked /\ worker[u[1]].attempt = u[2]
                      THEN AfterEvent(history[u], "reset") ELSE history[u]]
    BY DEF AbortBlocked
  <2>2. \A u \in Units : history[u] \in History /\ AfterEvent(history[u], "reset") \in History
    BY EventTypes DEF TypeInv, HistoryType, Events
  <2> QED BY <2>1, <2>2 DEF HistoryType
<1>4. process' \in [Workers -> Process] /\ \A w \in Workers : process'[w] = process[w] \/
                                              (process[w] # "closed" /\ process'[w] # "closed")
  BY DEF AbortBlocked, TypeInv, ChildType, Process
<1>5. ChildType'
  BY <1>4 DEF TypeInv, ChildType
<1>6. MailInv'
  BY <1>4 DEF TypeInv, MailInv
<1> QED BY <1>2, <1>3, <1>5, <1>6

LEMMA UnrecordTicketTypes == ASSUME TypeInv, UnrecordTicket PROVE TypeInv'
<1>1. /\ 0 \in Flows /\ flow[0].at = "unrecord" /\ flow[0].unit[1] \in Tickets
      /\ flow[0].saw \in [Tickets -> Attempt] /\ "plan" \in Places
      /\ FlowType /\ PendingType
  BY UnitFacts DEF UnrecordTicket, TypeInv, FlowType, Flow, Flows, Places
<1>2. FlowType' /\ busy' \in BOOLEAN
  BY <1>1, GoTypes, ReturnTypes DEF UnrecordTicket, PendingType
<1>3. ChildType' /\ MailInv' /\ WorkerType' /\ HistoryType'
  <2>1. AbortBlocked(Tickets \ closed) /\ UNCHANGED <<mail, heard, synthesized>>
        => ChildType' /\ MailInv' /\ WorkerType' /\ HistoryType'
    BY AbortBlockedTypes
  <2>2. UNCHANGED <<history, worker, process, mail, heard, synthesized>>
        => ChildType' /\ MailInv' /\ WorkerType' /\ HistoryType'
    BY DEF TypeInv, ChildType, MailInv, WorkerType, HistoryType
  <2> QED BY <2>1, <2>2 DEF UnrecordTicket
<1>4. PendingType'
  BY <1>1, <1>2 DEF UnrecordTicket, PendingType
<1>5. TrackerType' /\ BoundType'
  BY <1>1, BoundTypes DEF UnrecordTicket, TypeInv, TrackerType, Attempt
<1> QED BY <1>2, <1>3, <1>4, <1>5 DEF UnrecordTicket, TypeInv, GitType, StopType, ModeType, git

LEMMA ReconcileBlockedTypes == ASSUME TypeInv, ReconcileBlocked PROVE TypeInv'
<1>1. ChildType' /\ MailInv' /\ WorkerType' /\ HistoryType'
  BY AbortBlockedTypes DEF ReconcileBlocked
<1> QED BY <1>1, BoundTypes
    DEF ReconcileBlocked, TypeInv, TrackerType, GitType, PendingType, FlowType, StopType,
        ModeType, tracker, git, pending, control

LEMMA BeginStopTypes ==
  ASSUME TypeInv, NEW kind \in Stops, BeginStop(kind)
  PROVE  TypeInv'
<1>1. {<<t, worker[t].attempt>> : t \in Running} \subseteq Units
  <2>1. ASSUME NEW t \in Running PROVE <<t, worker[t].attempt>> \in Units
    <3>1. t \in Tickets /\ worker[t] \in Registration /\ worker[t].status # "none"
      BY DEF Running, TypeInv, WorkerType
    <3>2. worker[t].attempt \in 1..MaxAttempt
      BY <3>1 DEF Registration, OneWorker, Attempt
    <3> QED BY <3>1, <3>2, UnitFacts
  <2> QED BY <2>1
<1>2. StopType'
  BY <1>1 DEF BeginStop, TypeInv, StopType, PendingType
<1>3. process' \in [Workers -> Process] /\ \A w \in Workers : process'[w] = process[w] \/
                                              (process[w] # "closed" /\ process'[w] # "closed")
  BY DEF BeginStop, TypeInv, ChildType, Process
<1>4. ChildType'
  BY <1>3 DEF BeginStop, TypeInv, ChildType
<1>5. MailInv'
  BY <1>3 DEF BeginStop, TypeInv, MailInv
<1>6. GitType'
  BY DEF BeginStop, TypeInv, GitType
<1>7. BoundType'
  BY DEF BeginStop, TypeInv, BoundType
<1> QED BY <1>2, <1>4, <1>5, <1>6, <1>7
    DEF BeginStop, TypeInv, TrackerType, HistoryType, WorkerType, PendingType, FlowType,
        ModeType, tracker, pending

LEMMA StopWorkersTypes == ASSUME TypeInv, StopWorkers PROVE TypeInv'
<1>1. NoWorker \in Registration
  BY DEF NoWorker, Registration, OneWorker, Attempt
<1>2. WorkerType'
  BY <1>1 DEF StopWorkers, TypeInv, WorkerType
<1>3. HistoryType'
  <2>1. \A u \in Units : history[u] \in History /\ AfterEvent(history[u], "reset") \in History
    BY EventTypes DEF TypeInv, HistoryType, Events
  <2> QED BY <2>1 DEF StopWorkers, HistoryType
<1>4. StopType' /\ PendingType'
  BY DEF StopWorkers, TypeInv, StopType, PendingType, MaybeUnit
<1> QED BY <1>2, <1>3, <1>4, BoundTypes
    DEF StopWorkers, TypeInv, TrackerType, GitType, FlowType, ModeType, ChildType, MailInv,
        tracker, git, children

LEMMA SessionEndsTypes ==
  ASSUME TypeInv, SessionEnds, Well, UNCHANGED <<tracker, git, history>>
  PROVE  TypeInv'
<1>1. NoWorker \in Registration /\ Idle \in Flow /\ Idle.at = "idle"
  BY IdleType DEF NoWorker, Registration, OneWorker, Attempt
<1>2. WorkerType' /\ PendingType' /\ StopType' /\ ModeType'
  BY <1>1 DEF SessionEnds, WorkerType, PendingType, StopType, ModeType, MaybeUnit, Flows, NoStop
<1>3. FlowType'
  BY <1>1 DEF SessionEnds, FlowType, Flows
<1>4. ChildType' /\ MailInv'
  <2>1. ChildType'
    BY DEF SessionEnds, ChildType, Process
  <2>2. \A w \in Workers : mail'[w] = <<>>
    BY DEF SessionEnds
  <2>3. Len(<<>>) <= 2 /\ Len(<<>>) # 2
    BY EmptySeqLength
  <2> QED BY <2>1, <2>2, <2>3 DEF SessionEnds, MailInv
<1> QED BY <1>2, <1>3, <1>4, BoundTypes
    DEF TypeInv, TrackerType, GitType, HistoryType, tracker, git

LEMMA StopEndsTypes ==
  ASSUME TypeInv, Pause \/ EmergencyStop \/ Terminate \/ Quit \/ Crash \/ BeginRun
  PROVE  TypeInv'
<1>1. NoStop \in [kind : Stops \cup {"none"}, at : {"workers", "rest"}, todo : SUBSET Units,
                 resolver : MaybeUnit, discard : BOOLEAN]
  BY DEF NoStop, MaybeUnit
<1>2. CASE Pause \/ EmergencyStop
  BY <1>1, <1>2, BoundTypes
  DEF Pause, EmergencyStop, Stopping, TypeInv, TrackerType, GitType, HistoryType, WorkerType,
      PendingType, FlowType, StopType, ModeType, ChildType, MailInv, tracker, git, pending, children
<1>3. CASE Terminate
  <2>1. NoWorker \in Registration
    BY DEF NoWorker, Registration, OneWorker, Attempt
  <2>2. WorkerType'
    BY <1>3, <2>1 DEF Terminate, TypeInv, WorkerType
  <2>3. PendingType'
    BY <1>3 DEF Terminate, TypeInv, PendingType, MaybeUnit, Flows
  <2>4. GitType'
    BY <1>3, NothingType DEF Terminate, RemoveWorkspaces, TypeInv, GitType, MaybeUnit
  <2>5. StopType' /\ ModeType' /\ BoundType'
    BY <1>1, <1>3, BoundTypes DEF Terminate, Stopping, TypeInv, StopType, ModeType
  <2> QED BY <1>3, <2>2, <2>3, <2>4, <2>5
      DEF Terminate, TypeInv, TrackerType, HistoryType, FlowType, ChildType, MailInv, tracker,
          children
<1>4. CASE Quit
  BY <1>4, SessionEndsTypes DEF Quit, Stopping
<1>5. CASE Crash
  BY <1>5, SessionEndsTypes DEF Crash
<1>6. CASE BeginRun
  BY <1>6, BoundTypes
  DEF BeginRun, TypeInv, TrackerType, GitType, HistoryType, WorkerType, PendingType, FlowType,
      StopType, ModeType, ChildType, MailInv, tracker, git, pending, children
<1> QED BY <1>2, <1>3, <1>4, <1>5, <1>6

LEMMA StutterTypes == TypeInv /\ UNCHANGED vars => TypeInv'
BY DEF vars, TypeInv, TrackerType, GitType, HistoryType, WorkerType, PendingType, FlowType,
       StopType, ModeType, BoundType, ChildType, MailInv, tracker, git, pending, control,
       children, bounds

LEMMA UnitTypes == ASSUME TypeInv, NEW f \in Flows, Unit(f) PROVE TypeInv'
BY GateUnitTypes, VerifyUnitTypes, PushUnitTypes, WriteManifestTypes, RecordUnitTypes,
   CheckCiTypes, CloseTicketTypes DEF Unit

LEMMA LoopTypes == ASSUME TypeInv, Loop PROVE TypeInv'
BY DisposeTypes, LoadUnitTypes, MergeUnitTypes, RegisterResolverTypes, LaunchResolverTypes,
   PlanImplementationTypes, CreateWorkspaceTypes, RegisterWorkerTypes, LaunchWorkerTypes,
   RePushTypes, ReopenTicketTypes, UnrecordTicketTypes DEF Loop

LEMMA AdvanceTypes ==
  ASSUME TypeInv, NEW t \in Tickets, Advance(t) \/ ChooseRework(t)
  PROVE  TypeInv'
<1>1. {"plan", "ci", "repush", "reopen"} \subseteq Places
  BY DEF Places
<1> QED BY <1>1, RecoverPendingTypes, ChooseTypes
        DEF Advance, ChooseImplement, ChooseCheckCi, ChooseRetryCi, ChooseRework

LEMMA WorkerTypes ==
  ASSUME TypeInv, NEW w \in Workers,
         \/ Event(w) \/ LoseEvent(w) \/ SynthesizeExit(w)
         \/ \E outcome \in {"completed", "failed"} : Report(w, outcome)
         \/ \E code \in {"clean", "bad"} : Exit(w, code)
  PROVE  TypeInv'
<1>1. w[2] \in Units
  BY UnitFacts
<1>2. CASE Event(w)
  BY <1>1, <1>2, ReceiveEventTypes, SettleResolverTypes, SettleResultTypes, SettleExitTypes
  DEF Event
<1> QED BY <1>2, LoseEventTypes, SynthesizeExitTypes, ReportTypes, ExitTypes

LEMMA TypesHold == TypeInv /\ [PipelineNext]_vars => TypeInv'
<1> SUFFICES ASSUME TypeInv, [PipelineNext]_vars PROVE TypeInv'
  OBVIOUS
<1>1. DOMAIN flow = Flows
  BY DEF TypeInv, FlowType
<1>2. CASE \E t \in Tickets : Advance(t) \/ ChooseRework(t)
  BY <1>2, AdvanceTypes
<1>3. CASE \E d \in {"close disposition", "leave-open disposition"} : ChooseDisposition(d)
  BY <1>3, ChooseDispositionTypes
<1>4. CASE RetryIntegration \/ LeaveOpenCi \/ Loop
  BY <1>4, RetryIntegrationTypes, LeaveOpenCiTypes, LoopTypes
<1>5. CASE \E f \in DOMAIN flow : Unit(f)
  BY <1>1, <1>5, UnitTypes
<1>6. CASE \E w \in Workers :
             \/ Event(w) \/ LoseEvent(w) \/ SynthesizeExit(w)
             \/ \E outcome \in {"completed", "failed"} : Report(w, outcome)
             \/ \E code \in {"clean", "bad"} : Exit(w, code)
  BY <1>6, WorkerTypes
<1>7. CASE ReconcileBlocked \/ (\E kind \in Stops : BeginStop(kind)) \/ StopWorkers
  BY <1>7, ReconcileBlockedTypes, BeginStopTypes, StopWorkersTypes
<1>8. CASE Pause \/ EmergencyStop \/ Terminate \/ Quit \/ Crash \/ BeginRun
  BY <1>8, StopEndsTypes
<1>9. CASE UNCHANGED vars
  BY <1>9, StutterTypes
<1> QED BY <1>2, <1>3, <1>4, <1>5, <1>6, <1>7, <1>8, <1>9 DEF PipelineNext, Stop

\* The variables have their types, whatever the handlers, the loop and the stops
\* do: the port never holds more of a worker than an exit that was made up and the
\* one result it sends, and a flow that is under way has a unit.
THEOREM PipelineTypeCorrect == PipelineSpec => []PipelineTypeOK
<1>1. PipelineInit => TypeInv
  BY InitTypes
<1>2. TypeInv /\ [PipelineNext]_vars => TypeInv'
  BY TypesHold
<1>3. TypeInv => PipelineTypeOK
  BY TypesFollow
<1> QED BY <1>1, <1>2, <1>3, PTL DEF PipelineSpec

(***************************************************************************)
(* One unit in the Integration worktree                                    *)
(***************************************************************************)

InUnit == {"load", "merge", "gate", "verify", "push", "manifest"}

\* integrationInProgress covers every flow that works on a unit, and what it
\* works on is the pending integration.
OwnInv ==
  /\ \A f, g \in Flows : flow[f].own /\ flow[g].own => f = g
  /\ \A f \in Flows : flow[f].own => busy
  /\ \A f \in Flows : flow[f].at \in InUnit =>
                         flow[f].own /\ integration.unit = flow[f].unit

\* While a resolver is registered the loop only launches it, or waits.
LoopInv ==
  /\ resolver # NoUnit => flow[0].at \in {"resolver", "idle"}
  /\ flow[0].at = "resolver" => resolver \in {flow[0].unit, NoUnit}
  /\ flow[0].at \in {"plan", "reopen", "unrecord"} => integration = NoIntegration

\* The conflict of u waits, and no flow works on a unit.
Held(u) == integration = [unit |-> u, conflict |-> TRUE] /\ \A f \in Flows : ~flow[f].own

\* The loop is about to launch a resolver of u.
Calls(u) == flow[0].at \in {"resolve", "resolver"} /\ flow[0].unit = u

\* An earlier resolver of u, the same worker id, is still to be heard.
Stirs(u) == mail[Resolve(u)] # <<>> \/ process[Resolve(u)] # "none"

\* A registered resolver, one about to be, and one whose registration a stop or
\* a refused launch took away while its event was being handled: when such an
\* event finishes the unit, no other flow works on one.
ResolverInv ==
  \A u \in Units :
    /\ resolver = u \/ Calls(u) => /\ integration.unit \in {u, NoUnit}
                                   /\ \A f \in Flows : flow[f].own => f = u[1]
    /\ Calls(u) /\ Stirs(u) => Held(u)
    /\ Resolve(u) \in heard /\ resolver # u => Held(u)

TreeInv == OwnInv /\ LoopInv /\ ResolverInv

LEMMA InitTree == PipelineInit => TreeInv
<1> SUFFICES ASSUME PipelineInit PROVE TreeInv
  OBVIOUS
<1>1. \A f \in Flows : flow[f] = Idle
  BY DEF PipelineInit, Flows
<1>2. \A f \in Flows : flow[f].at = "idle" /\ ~flow[f].own
  BY <1>1, IdleType
<1>3. 0 \in Flows /\ resolver = NoUnit /\ heard = {}
  BY DEF PipelineInit, Flows
<1> QED BY <1>2, <1>3, UnitFacts DEF TreeInv, OwnInv, LoopInv, ResolverInv, Calls, InUnit

\* A step that leaves the flows, the pending integration and the resolver as
\* they are, and stirs no resolver that is about to be launched.
LEMMA CalmTree ==
  ASSUME TreeInv, UNCHANGED <<flow, integration, busy, resolver>>,
         \A u \in Units : /\ Stirs(u)' /\ Calls(u) => Stirs(u)
                          /\ Resolve(u) \in heard' => Resolve(u) \in heard \/ resolver = u
  PROVE  TreeInv'
<1>1. OwnInv' /\ LoopInv'
  BY DEF TreeInv, OwnInv, LoopInv
<1>2. \A u \in Units : Held(u)' = Held(u) /\ Calls(u)' = Calls(u)
  BY DEF Held, Calls
<1>3. ResolverInv'
  BY <1>2 DEF TreeInv, ResolverInv
<1> QED BY <1>1, <1>3 DEF TreeInv

\* A flow takes a step of its unit, leaves it, or does something else; the one
\* that works on the unit may end the pending integration.
LEMMA FlowTree ==
  ASSUME TypeInv, TreeInv, NEW f \in Flows, NEW x \in Flow, flow' = [flow EXCEPT ![f] = x],
         x.own => flow[f].own,
         busy' = busy \/ (~x.own /\ busy' = (busy /\ ~flow[f].own)),
         UNCHANGED resolver,
         integration' = integration \/ (integration' = NoIntegration /\ flow[f].own),
         x.at \notin {"resolve", "resolver"},
         x.at \in InUnit => /\ flow[f].at \in InUnit /\ x.unit = flow[f].unit
                           /\ x.own = flow[f].own /\ integration' = integration,
         f = 0 /\ x.at # "idle" => resolver = NoUnit,
         f = 0 /\ x.at \in {"plan", "reopen", "unrecord"} => integration = NoIntegration,
         \A u \in Units : /\ Stirs(u)' => Stirs(u)
                          /\ Resolve(u) \in heard' => Resolve(u) \in heard
  PROVE  TreeInv'
<1>0. flow \in [Flows -> Flow] /\ 0 \in Flows
  BY DEF TypeInv, FlowType, Flows
<1>1. flow'[f] = x /\ \A g \in Flows : g # f => flow'[g] = flow[g]
  BY <1>0
<1>2. \A g \in Flows : flow'[g].own => flow[g].own
  BY <1>1
<1>3. OwnInv'
  <2>1. \A g, h \in Flows : flow'[g].own /\ flow'[h].own => g = h
    BY <1>2 DEF TreeInv, OwnInv
  <2>2. ASSUME NEW g \in Flows, flow'[g].own PROVE busy'
    <3>1. busy /\ flow[g].own
      BY <1>2, <2>2 DEF TreeInv, OwnInv
    <3>2. flow[f].own => g = f
      BY <3>1 DEF TreeInv, OwnInv
    <3> QED BY <1>1, <2>2, <3>1, <3>2
  <2>3. ASSUME NEW g \in Flows, flow'[g].at \in InUnit
        PROVE  flow'[g].own /\ integration'.unit = flow'[g].unit
    <3>1. CASE g = f
      BY <1>1, <2>3, <3>1 DEF TreeInv, OwnInv
    <3>2. CASE g # f
      <4>1. flow[g].own /\ integration.unit = flow[g].unit /\ ~flow[f].own
        BY <1>1, <2>3, <3>2 DEF TreeInv, OwnInv
      <4> QED BY <1>1, <3>2, <4>1
    <3> QED BY <3>1, <3>2
  <2> QED BY <2>1, <2>2, <2>3 DEF OwnInv
<1>4. LoopInv'
  <2>1. CASE f = 0
    BY <1>0, <1>1, <2>1 DEF TreeInv, LoopInv
  <2>2. CASE f # 0
    BY <1>0, <1>1, <2>2 DEF TreeInv, LoopInv
  <2> QED BY <2>1, <2>2
<1>5. \A u \in Units : Calls(u)' => Calls(u)
  BY <1>0, <1>1 DEF Calls
<1>6. \A u \in Units : Held(u) => Held(u)'
  BY <1>2 DEF Held
<1>7. integration'.unit \in {integration.unit, NoUnit}
  BY DEF NoIntegration
<1>8. ResolverInv'
  BY <1>2, <1>5, <1>6, <1>7 DEF TreeInv, ResolverInv
<1> QED BY <1>3, <1>4, <1>8 DEF TreeInv

\* A flow that returns.
LEMMA ReturnTree ==
  ASSUME TypeInv, TreeInv, NEW f \in Flows, Return(f), UNCHANGED resolver,
         integration' = integration \/ (integration' = NoIntegration /\ flow[f].own),
         \A u \in Units : /\ Stirs(u)' => Stirs(u)
                          /\ Resolve(u) \in heard' => Resolve(u) \in heard
  PROVE  TreeInv'
<1>1. flow' = [flow EXCEPT ![f] = Idle] /\ busy' = (busy /\ ~flow[f].own)
  BY DEF Return
<1>2. Idle.at \notin InUnit /\ Idle.at \notin {"plan", "reopen", "unrecord", "resolve", "resolver"}
  BY IdleType DEF InUnit
<1> QED BY <1>1, <1>2, IdleType, FlowTree

\* A flow that goes on, with what it knows and owns.
LEMMA GoTree ==
  ASSUME TypeInv, TreeInv, NEW f \in Flows, NEW at \in Places, Go(f, at),
         UNCHANGED <<busy, resolver>>,
         integration' = integration \/ (integration' = NoIntegration /\ flow[f].own),
         flow[f].at \notin {"idle", "resolver"},
         at \notin {"resolve", "resolver", "reopen", "unrecord"},
         at \in InUnit => flow[f].at \in InUnit /\ integration' = integration,
         at = "plan" /\ f = 0 => integration = NoIntegration,
         \A u \in Units : /\ Stirs(u)' => Stirs(u)
                          /\ Resolve(u) \in heard' => Resolve(u) \in heard
  PROVE  TreeInv'
<1> DEFINE x == [flow[f] EXCEPT !.at = at]
<1>1. x \in Flow /\ x.own = flow[f].own /\ x.unit = flow[f].unit /\ x.at = at
  BY DEF TypeInv, FlowType, Flow
<1>2. flow' = [flow EXCEPT ![f] = x]
  BY DEF Go, TypeInv, FlowType
<1>3. f = 0 => resolver = NoUnit
  BY DEF TreeInv, LoopInv
<1> HIDE DEF x
<1> QED BY <1>1, <1>2, <1>3, FlowTree

\* An integration becomes pending, with the loop idle and no resolver.
LEMMA OfferTree ==
  ASSUME TypeInv, TreeInv, integration = NoIntegration, integration'.unit \in Units,
         resolver = NoUnit, UNCHANGED <<resolver, mail, process, heard>>,
         \/ flow' = [flow EXCEPT ![0] = Idle] /\ UNCHANGED busy
         \/ Return(0)
         \/ flow[0].at = "idle" /\ UNCHANGED <<flow, busy>>
  PROVE  TreeInv'
<1>0. flow \in [Flows -> Flow] /\ 0 \in Flows
  BY DEF TypeInv, FlowType, Flows
<1>1. /\ \A g \in Flows : g # 0 => flow'[g] = flow[g]
      /\ flow'[0] = Idle \/ (flow'[0] = flow[0] /\ flow[0].at = "idle" /\ busy' = busy)
      /\ busy' = busy \/ (flow'[0] = Idle /\ busy' = (busy /\ ~flow[0].own))
  BY <1>0 DEF Return
<1>2. flow'[0].at = "idle" /\ \A g \in Flows : flow'[g].own => flow[g].own
  BY <1>1, IdleType
<1>3. \A g \in Flows : flow'[g].at \notin InUnit
  <2>1. ASSUME NEW g \in Flows, flow[g].at \in InUnit PROVE FALSE
    <3>1. flow[g].unit = NoUnit
      BY <2>1 DEF TreeInv, OwnInv, NoIntegration
    <3>2. flow[g].unit \in Units
      BY <2>1 DEF TypeInv, FlowType, InUnit
    <3> QED BY <3>1, <3>2, UnitFacts
  <2>2. flow'[0].at \notin InUnit
    BY <1>2 DEF InUnit
  <2> QED BY <1>1, <2>1, <2>2
<1>4. OwnInv'
  <2>1. \A g, h \in Flows : flow'[g].own /\ flow'[h].own => g = h
    BY <1>2 DEF TreeInv, OwnInv
  <2>2. ASSUME NEW g \in Flows, flow'[g].own PROVE busy'
    <3>1. busy /\ flow[g].own
      BY <1>2, <2>2 DEF TreeInv, OwnInv
    <3>2. flow[0].own => g = 0
      BY <1>0, <3>1 DEF TreeInv, OwnInv
    <3> QED BY <1>1, <2>2, <3>1, <3>2, IdleType
  <2> QED BY <1>3, <2>1, <2>2 DEF OwnInv
<1>5. LoopInv'
  BY <1>2 DEF LoopInv
<1>6. \A u \in Units : ~Held(u) /\ resolver' # u /\ ~Calls(u)'
  BY <1>2, UnitFacts DEF Held, Calls, NoIntegration
<1>7. ResolverInv'
  BY <1>6, UnitFacts DEF TreeInv, ResolverInv
<1> QED BY <1>4, <1>5, <1>7 DEF TreeInv

\* What leaves the workers alone stirs none.
Calmly == \A u \in Units : /\ Stirs(u)' => Stirs(u)
                           /\ Resolve(u) \in heard' => Resolve(u) \in heard

LEMMA ChildrenCalm == UNCHANGED <<mail, process, heard>> => Calmly
BY DEF Calmly, Stirs

\* A unit of flow f works under its mark.
LEMMA UnitOwns ==
  ASSUME TreeInv, NEW f \in Flows, flow[f].at \in InUnit
  PROVE  flow[f].own /\ integration.unit = flow[f].unit
BY DEF TreeInv, OwnInv

LEMMA RunUnitTree ==
  ASSUME TypeInv, TreeInv, NEW u \in Units, NEW c \in BOOLEAN, RunUnit(u, c),
         resolver = NoUnit, UNCHANGED <<resolver, mail, process, heard>>,
         integration' = [unit |-> u, conflict |-> c],
         integration # NoIntegration => integration' = integration,
         integration = NoIntegration => ~c
  PROVE  TreeInv'
<1>0. flow \in [Flows -> Flow] /\ 0 \in Flows /\ Calmly
  BY ChildrenCalm DEF TypeInv, FlowType, Flows
<1>1. CASE flow' = [flow EXCEPT ![0] = Idle] /\ UNCHANGED busy
  <2>1. CASE integration = NoIntegration
    BY <1>1, <2>1, OfferTree
  <2>2. CASE integration # NoIntegration
    <3>1. Idle.at \notin InUnit
      BY IdleType DEF InUnit
    <3> QED BY <1>0, <1>1, <2>2, <3>1, IdleType, FlowTree DEF Calmly
  <2> QED BY <2>1, <2>2
<1>2. CASE ~busy /\ c /\ Enter(0, "resolve", u) /\ UNCHANGED busy
  <2> DEFINE x == [Idle EXCEPT !.at = "resolve", !.unit = u]
  <2>1. x.at = "resolve" /\ x.unit = u /\ ~x.own
    BY IdleType DEF Flow
  <2>2. flow'[0] = x /\ \A g \in Flows : g # 0 => flow'[g] = flow[g]
    BY <1>0, <1>2 DEF Enter
  <2> HIDE DEF x
  <2>3. integration' = integration /\ \A g \in Flows : ~flow[g].own
    BY <1>2 DEF TreeInv, OwnInv
  <2>4. \A g \in Flows : ~flow'[g].own
    BY <2>1, <2>2, <2>3
  <2>5. OwnInv'
    BY <2>1, <2>2, <2>3, <2>4 DEF TreeInv, OwnInv, InUnit
  <2>6. LoopInv'
    BY <2>1, <2>2 DEF LoopInv
  <2>7. \A v \in Units : Calls(v)' => v = u
    BY <2>1, <2>2 DEF Calls
  <2>8. Held(u)' /\ \A v \in Units : Held(v) => Held(v)'
    BY <1>2, <2>3, <2>4 DEF Held
  <2>9. ResolverInv'
    BY <2>4, <2>7, <2>8, UnitFacts DEF TreeInv, ResolverInv
  <2> QED BY <2>5, <2>6, <2>9 DEF TreeInv
<1>3. CASE /\ ~busy /\ ~c /\ busy' = TRUE
           /\ flow' = [flow EXCEPT ![0] = [Idle EXCEPT !.at = "load", !.unit = u, !.own = TRUE]]
  <2> DEFINE x == [Idle EXCEPT !.at = "load", !.unit = u, !.own = TRUE]
  <2>1. x.at = "load" /\ x.unit = u /\ x.own
    BY IdleType DEF Flow
  <2>2. flow'[0] = x /\ \A g \in Flows : g # 0 => flow'[g] = flow[g]
    BY <1>0, <1>3
  <2> HIDE DEF x
  <2>3. \A g \in Flows : ~flow[g].own /\ flow[g].at \notin InUnit
    BY <1>3 DEF TreeInv, OwnInv
  <2>4. OwnInv'
    BY <1>3, <2>1, <2>2, <2>3 DEF OwnInv
  <2>5. LoopInv'
    BY <2>1, <2>2 DEF LoopInv
  <2>6. \A v \in Units : ~Calls(v)' /\ resolver' # v
    BY <2>1, <2>2, UnitFacts DEF Calls
  <2>7. \A v \in Units : ~Held(v)
    <3>1. integration = NoIntegration \/ integration = [unit |-> u, conflict |-> FALSE]
      BY <1>3
    <3> QED BY <3>1 DEF Held, NoIntegration
  <2>8. ResolverInv'
    BY <2>6, <2>7 DEF TreeInv, ResolverInv
  <2> QED BY <2>4, <2>5, <2>8 DEF TreeInv
<1> QED BY <1>1, <1>2, <1>3 DEF RunUnit

LEMMA RecoverPendingTree ==
  ASSUME TypeInv, TreeInv, NEW t \in Tickets, RecoverPending(t)
  PROVE  TreeInv'
<1>1. integration = NoIntegration /\ resolver = NoUnit /\ flow[0].at = "idle"
  BY DEF RecoverPending, AtSurface, MustRecover, NothingPending
<1>2. UNCHANGED <<resolver, mail, process, heard, flow, busy>>
  BY DEF RecoverPending, control, children
<1>3. CASE UNCHANGED integration
  BY <1>2, <1>3, ChildrenCalm, CalmTree DEF Calmly
<1>4. CASE integration' = [unit |-> Latest(t), conflict |-> history[Latest(t)].conflict]
  <2>1. Latest(t) \in Units
    <3>1. branch[t] > 0
      BY DEF RecoverPending, FirstRecoverable, Recoverable
    <3> QED BY <3>1, LatestType DEF TypeInv
  <2> QED BY <1>1, <1>2, <1>4, <2>1, OfferTree
<1> QED BY <1>3, <1>4 DEF RecoverPending

LEMMA ChooseTree ==
  ASSUME TypeInv, TreeInv, NEW t \in Tickets, NEW at \in {"plan", "ci", "repush", "reopen"},
         Choose(at, t)
  PROVE  TreeInv'
<1> DEFINE u == <<t, IF integrated[t] = 0 THEN 1 ELSE integrated[t]>>
           x == [Idle EXCEPT !.at = at, !.unit = u]
<1>1. u \in Units
  BY UnitFacts, MaxAttemptFacts DEF TypeInv, TrackerType, Attempt
<1>2. x \in Flow /\ x.at = at /\ ~x.own
  BY <1>1, IdleType DEF Flow, MaybeUnit, Places
<1>3. flow' = [flow EXCEPT ![0] = x] /\ integration = NoIntegration /\ resolver = NoUnit
  BY DEF Choose, Enter, Surface, AtSurface, NothingPending
<1>4. UNCHANGED <<resolver, mail, process, heard, integration, busy>> /\ 0 \in Flows
  BY DEF Choose, pending, children, Flows
<1>5. at \notin InUnit
  BY DEF InUnit
<1> HIDE DEF x, u
<1> QED BY <1>2, <1>3, <1>4, <1>5, ChildrenCalm, FlowTree DEF Calmly

LEMMA ChooseDispositionTree ==
  ASSUME TypeInv, TreeInv, NEW d \in {"close disposition", "leave-open disposition"},
         ChooseDisposition(d)
  PROVE  TreeInv'
<1> DEFINE x == [Idle EXCEPT !.at = d, !.unit = disposition]
<1>1. x \in Flow /\ x.at = d /\ ~x.own
  BY IdleType DEF Flow, TypeInv, PendingType, Places
<1>2. flow' = [flow EXCEPT ![0] = x] /\ resolver = NoUnit
  BY DEF ChooseDisposition, Enter, Surface, AtSurface
<1>3. UNCHANGED <<resolver, mail, process, heard, integration, busy>> /\ 0 \in Flows
  BY DEF ChooseDisposition, pending, children, Flows
<1>4. d \notin InUnit
  BY DEF InUnit
<1> HIDE DEF x
<1> QED BY <1>1, <1>2, <1>3, <1>4, ChildrenCalm, FlowTree DEF Calmly

LEMMA RetryIntegrationTree == ASSUME TypeInv, TreeInv, RetryIntegration PROVE TreeInv'
<1>1. /\ integration.unit \in Units /\ integration.conflict \in BOOLEAN
      /\ integration = [unit |-> integration.unit, conflict |-> integration.conflict]
  BY DEF RetryIntegration, TypeInv, PendingType
<1>2. /\ RunUnit(integration.unit, integration.conflict) /\ integration # NoIntegration
      /\ resolver = NoUnit /\ UNCHANGED <<resolver, mail, process, heard, integration>>
  BY DEF RetryIntegration, Surface, AtSurface, children
<1> QED BY <1>1, <1>2, RunUnitTree

LEMMA PlanImplementationTree == ASSUME TypeInv, TreeInv, PlanImplementation PROVE TreeInv'
<1> DEFINE plan == Plan(flow[0].unit[1])
<1>1. 0 \in Flows /\ flow[0].at = "plan" /\ flow[0].unit[1] \in Tickets
  BY UnitFacts DEF PlanImplementation, TypeInv, FlowType, Flows
<1>2. resolver = NoUnit /\ integration = NoIntegration
  BY <1>1 DEF TreeInv, LoopInv
<1>3. UNCHANGED <<resolver, mail, process, heard>> /\ Calmly
  BY ChildrenCalm DEF PlanImplementation, children
<1>4. CASE Return(0) /\ UNCHANGED integration
  BY <1>1, <1>3, <1>4, ReturnTree DEF Calmly
<1>5. CASE /\ Return(0) /\ plan.kind = "retry"
           /\ integration' = [unit |-> plan.unit, conflict |-> FALSE]
  <2>1. plan.unit \in Units
    <3>1. CASE branch[flow[0].unit[1]] = 0
      BY <1>5, <3>1 DEF Plan
    <3>2. CASE branch[flow[0].unit[1]] # 0
      BY <1>1, <1>5, <3>2, LatestType DEF Plan, TypeInv
    <3> QED BY <3>1, <3>2
  <2> QED BY <1>2, <1>3, <1>5, <2>1, OfferTree
<1>6. CASE /\ plan.unit \in Units /\ Enter(0, "workspace", plan.unit)
           /\ UNCHANGED <<busy, integration>>
  <2> DEFINE x == [Idle EXCEPT !.at = "workspace", !.unit = plan.unit]
  <2>1. x \in Flow /\ x.at = "workspace" /\ ~x.own
    BY <1>6, IdleType DEF Flow, MaybeUnit, Places
  <2>2. flow' = [flow EXCEPT ![0] = x]
    BY <1>6 DEF Enter
  <2>3. "workspace" \notin InUnit
    BY DEF InUnit
  <2> HIDE DEF x
  <2> QED BY <1>1, <1>2, <1>3, <1>6, <2>1, <2>2, <2>3, FlowTree DEF Calmly
<1> QED BY <1>4, <1>5, <1>6 DEF PlanImplementation

LEMMA CreateWorkspaceTree == ASSUME TypeInv, TreeInv, CreateWorkspace PROVE TreeInv'
<1>1. /\ 0 \in Flows /\ flow[0].at = "workspace" /\ "register" \in Places
      /\ UNCHANGED <<resolver, integration, mail, process, heard>> /\ Calmly
  BY ChildrenCalm DEF CreateWorkspace, children, Flows, Places
<1> QED BY <1>1, GoTree, ReturnTree DEF CreateWorkspace, Calmly, InUnit

LEMMA RegisterWorkerTree == ASSUME TypeInv, TreeInv, RegisterWorker PROVE TreeInv'
<1>1. /\ 0 \in Flows /\ flow[0].at = "register" /\ "launch" \in Places
      /\ UNCHANGED <<resolver, integration, mail, process, heard>> /\ Calmly
  BY ChildrenCalm DEF RegisterWorker, children, Flows, Places
<1> QED BY <1>1, GoTree, ReturnTree DEF RegisterWorker, Calmly, InUnit

LEMMA LaunchWorkerTree == ASSUME TypeInv, TreeInv, LaunchWorker PROVE TreeInv'
<1>1. 0 \in Flows /\ UNCHANGED <<resolver, integration, mail, heard>> /\ Return(0)
  BY DEF LaunchWorker, Flows
<1>2. \A u \in Units : Stirs(u)' => Stirs(u)
  <2>1. \A u \in Units : process'[Resolve(u)] = process[Resolve(u)]
    BY UnitFacts DEF LaunchWorker, TypeInv, ChildType, Resolve
  <2> QED BY <1>1, <2>1 DEF Stirs
<1> QED BY <1>1, <1>2, ReturnTree

(***************************************************************************)
(* Events of workers                                                       *)
(***************************************************************************)

\* A delivered message stirs nothing new.
LEMMA DeliveredCalm ==
  ASSUME ChildType, NEW w \in Workers, mail[w] # <<>>, Delivered(w)
  PROVE  Calmly
<1>1. ASSUME NEW u \in Units, Stirs(u)' PROVE Stirs(u)
  <2>1. CASE Resolve(u) = w
    BY <2>1 DEF Stirs
  <2>2. CASE Resolve(u) # w
    <3>1. mail'[Resolve(u)] = mail[Resolve(u)] /\ process'[Resolve(u)] = process[Resolve(u)]
      BY <2>2, UnitFacts DEF Delivered, ChildType, Resolve
    <3> QED BY <1>1, <3>1 DEF Stirs
  <2> QED BY <2>1, <2>2
<1>2. heard' \subseteq heard
  BY DEF Delivered
<1> QED BY <1>1, <1>2 DEF Calmly

LEMMA SendCalm ==
  ASSUME ChildType, NEW w \in Workers, Works(w), NEW e, Send(w, e),
         process' = [process EXCEPT ![w] = "closed"], UNCHANGED heard
  PROVE  Calmly
<1>1. ASSUME NEW u \in Units, Stirs(u)' PROVE Stirs(u)
  <2>1. CASE Resolve(u) = w
    BY <2>1 DEF Stirs, Works
  <2>2. CASE Resolve(u) # w
    <3>1. mail'[Resolve(u)] = mail[Resolve(u)] /\ process'[Resolve(u)] = process[Resolve(u)]
      BY <2>2, UnitFacts DEF Send, ChildType, Resolve
    <3> QED BY <1>1, <3>1 DEF Stirs
  <2> QED BY <2>1, <2>2
<1> QED BY <1>1 DEF Calmly

LEMMA ReportTree ==
  ASSUME TypeInv, TreeInv, NEW w \in Workers, NEW e \in {"completed", "failed"}, Report(w, e)
  PROVE  TreeInv'
<1>1. Calmly
  BY SendCalm DEF Report, TypeInv
<1>2. UNCHANGED <<flow, integration, busy, resolver>>
  BY DEF Report, pending, control
<1> QED BY <1>1, <1>2, CalmTree DEF Calmly

LEMMA ExitTree ==
  ASSUME TypeInv, TreeInv, NEW w \in Workers, NEW e \in {"clean", "bad"}, Exit(w, e)
  PROVE  TreeInv'
<1>1. Calmly
  BY SendCalm DEF Exit, TypeInv
<1>2. UNCHANGED <<flow, integration, busy, resolver>>
  BY DEF Exit, pending, control
<1> QED BY <1>1, <1>2, CalmTree DEF Calmly

LEMMA ReceiveEventTree ==
  ASSUME TypeInv, TreeInv, NEW w \in Workers, ReceiveEvent(w)
  PROVE  TreeInv'
<1>1. UNCHANGED <<flow, integration, busy, resolver>> /\ mail[w] # <<>> /\ ChildType
  BY DEF ReceiveEvent, pending, control, TypeInv
<1>2. CASE Registered(w) /\ heard' = heard \cup {w} /\ UNCHANGED <<mail, process>>
  <2>1. \A u \in Units : Resolve(u) \in heard' => Resolve(u) \in heard \/ resolver = u
    BY <1>2, UnitFacts DEF Registered, Resolve
  <2>2. \A u \in Units : Stirs(u)' => Stirs(u)
    BY <1>2 DEF Stirs
  <2> QED BY <1>1, <2>1, <2>2, CalmTree
<1>3. CASE Delivered(w)
  BY <1>1, <1>3, DeliveredCalm, CalmTree DEF Calmly
<1> QED BY <1>2, <1>3 DEF ReceiveEvent

LEMMA SettleTree ==
  ASSUME TypeInv, TreeInv, NEW u \in Units, SettleResult(u) \/ SettleExit(u)
  PROVE  TreeInv'
<1> DEFINE w == <<"implement", u>>
<1>1. w \in Workers /\ mail[w] # <<>> /\ Delivered(w) /\ ChildType
  BY UnitFacts DEF SettleResult, SettleExit, TypeInv, MailInv
<1>2. UNCHANGED <<flow, integration, busy, resolver>>
  BY DEF SettleResult, SettleExit, control
<1> QED BY <1>1, <1>2, DeliveredCalm, CalmTree DEF Calmly

LEMMA LoseEventTree ==
  ASSUME TypeInv, TreeInv, NEW w \in Workers, LoseEvent(w)
  PROVE  TreeInv'
<1>1. mail[w] # <<>> /\ Delivered(w) /\ ChildType
  BY DEF LoseEvent, TypeInv
<1>2. UNCHANGED <<flow, integration, busy, resolver>>
  BY DEF LoseEvent, pending, control
<1> QED BY <1>1, <1>2, DeliveredCalm, CalmTree DEF Calmly

LEMMA SynthesizeExitTree ==
  ASSUME TypeInv, TreeInv, NEW w \in Workers, SynthesizeExit(w)
  PROVE  TreeInv'
<1>1. /\ UNCHANGED <<flow, integration, busy, resolver, process>> /\ heard' = heard \cup {w}
      /\ mail' = [mail EXCEPT ![w] = Append(@, "clean")]
      /\ ~(flow[0].at \in {"launch", "resolver"} /\ flow[0].unit = w[2])
      /\ w[1] = "resolve" => resolver = w[2]
  BY DEF SynthesizeExit, pending, control, Send
<1>2. ASSUME NEW u \in Units
      PROVE  /\ Stirs(u)' /\ Calls(u) => Stirs(u)
             /\ Resolve(u) \in heard' => Resolve(u) \in heard \/ resolver = u
  <2>1. CASE Resolve(u) = w
    <3>1. resolver = u /\ w[2] = u
      BY <1>1, <2>1 DEF Resolve
    <3>2. flow[0].at \in {"resolver", "idle"}
      BY <3>1, UnitFacts DEF TreeInv, LoopInv
    <3>3. ~Calls(u)
      BY <1>1, <3>1, <3>2 DEF Calls
    <3> QED BY <3>1, <3>3
  <2>2. CASE Resolve(u) # w
    <3>1. mail'[Resolve(u)] = mail[Resolve(u)]
      BY <1>1, <2>2, UnitFacts DEF TypeInv, ChildType, Resolve
    <3> QED BY <1>1, <2>2, <3>1 DEF Stirs
  <2> QED BY <2>1, <2>2
<1> QED BY <1>1, <1>2, CalmTree

\* A resolved conflict: nobody else works on a unit, so its finisher may.
LEMMA SettleResolverTree ==
  ASSUME TypeInv, TreeInv, NEW u \in Units, SettleResolver(u)
  PROVE  TreeInv'
<1> DEFINE w == Resolve(u)
<1>1. /\ w \in Workers /\ w \in heard /\ mail[w] # <<>> /\ Delivered(w) /\ ChildType /\ MailInv
      /\ flow[u[1]] = Idle /\ resolver' = NoUnit
      /\ u[1] \in Flows /\ 0 \in Flows /\ flow \in [Flows -> Flow]
  BY UnitFacts DEF SettleResolver, TypeInv, MailInv, Resolve, FlowType, Flows
<1>2. Calmly /\ heard' = heard \ {w}
  BY <1>1, DeliveredCalm DEF Delivered
<1>3. \A v \in Units : Resolve(v) \in heard' => v # u
  BY <1>2 DEF Resolve
\* Another resolver is not registered while one of u is heard.
<1>4. ASSUME NEW v \in Units, v # u, resolver = v PROVE integration.unit = u => FALSE
  BY <1>4, UnitFacts DEF TreeInv, ResolverInv
<1>5. resolver # u => Held(u) /\ integration.unit = u
  BY <1>1 DEF TreeInv, ResolverInv, Held
<1>6. \A v \in Units : Resolve(v) \in heard' => Held(v)
  BY <1>2, <1>3, <1>4, <1>5 DEF TreeInv, ResolverInv, Calmly
<1>7. CASE UNCHANGED <<integration, busy, flow>>
  <2>1. OwnInv' /\ LoopInv'
    BY <1>1, <1>7 DEF TreeInv, OwnInv, LoopInv
  <2>2. \A v \in Units : Held(v)' = Held(v) /\ Calls(v)' = Calls(v) /\ resolver' # v
    BY <1>1, <1>7, UnitFacts DEF Held, Calls
  <2>3. ResolverInv'
    BY <1>2, <1>6, <1>7, <2>2 DEF TreeInv, ResolverInv, Calmly
  <2> QED BY <2>1, <2>3 DEF TreeInv
<1>8. CASE /\ Head(mail[w]) = "completed" /\ integration.unit = u
           /\ integration' = [integration EXCEPT !.conflict = FALSE] /\ Finish(u)
  <2> DEFINE x == [Idle EXCEPT !.at = "gate", !.unit = u, !.own = TRUE]
  <2>1. x.at = "gate" /\ x.unit = u /\ x.own
    BY IdleType DEF Flow
  <2>2. busy' = TRUE /\ flow'[u[1]] = x /\ \A g \in Flows : g # u[1] => flow'[g] = flow[g]
    BY <1>1, <1>8 DEF Finish
  <2> HIDE DEF x
  <2>3. integration'.unit = u
    <3>1. integration \in [unit : Units, conflict : BOOLEAN]
      BY <1>8, UnitFacts DEF TypeInv, PendingType, NoIntegration
    <3> QED BY <1>8, <3>1
  <2>4. \A g \in Flows : ~flow[g].own
    <3>1. CASE resolver = u
      BY <1>1, <3>1, IdleType DEF TreeInv, ResolverInv
    <3>2. CASE resolver # u
      BY <1>5, <3>2 DEF Held
    <3> QED BY <3>1, <3>2
  <2>5. OwnInv'
    BY <2>1, <2>2, <2>3, <2>4 DEF TreeInv, OwnInv
  <2>6. flow'[0].at = flow[0].at /\ flow'[0].unit = flow[0].unit
    BY <1>1, <2>2, UnitFacts
  <2>7. LoopInv'
    BY <1>1, <1>8, <2>6, UnitFacts DEF TreeInv, LoopInv, NoIntegration
  <2>8. ~Stirs(u)'
    <3>1. process[w] = "closed" /\ Len(mail[w]) = 1
      <4>1. process[w] = "closed"
        BY <1>1, <1>8 DEF MailInv
      <4>2. Len(mail[w]) <= 2 /\ (Len(mail[w]) = 2 => mail[w][1] = "clean")
        BY <1>1 DEF MailInv
      <4>3. Head(mail[w]) = mail[w][1] /\ mail[w] \in Seq(Results)
        BY <1>1 DEF ChildType
      <4>4. Len(mail[w]) \in Nat /\ Len(mail[w]) # 0
        BY <1>1, <4>3, EmptySeqLength
      <4>5. Len(mail[w]) # 2
        BY <1>8, <4>2, <4>3
      <4> \A n \in Nat : n # 0 /\ n <= 2 /\ n # 2 => n = 1
        OBVIOUS
      <4> QED BY <4>1, <4>2, <4>4, <4>5
    <3>2. process'[w] = "none" /\ mail'[w] = Tail(mail[w])
      BY <1>1, <3>1 DEF Delivered, ChildType
    <3>3. mail'[w] = <<>>
      <4>1. mail[w] \in Seq(Results)
        BY <1>1 DEF ChildType
      <4>2. Len(Tail(mail[w])) = 0 /\ Tail(mail[w]) \in Seq(Results)
        BY <1>1, <3>1, <4>1
      <4> QED BY <3>2, <4>2, EmptySeqLength
    <3> QED BY <3>2, <3>3 DEF Stirs
  <2>9. ASSUME NEW v \in Units
        PROVE  /\ resolver' = v \/ Calls(v)' =>
                     /\ integration'.unit \in {v, NoUnit}
                     /\ \A g \in Flows : flow'[g].own => g = v[1]
               /\ Calls(v)' /\ Stirs(v)' => Held(v)'
               /\ Resolve(v) \in heard' /\ resolver' # v => Held(v)'
    <3>1. resolver' # v
      BY <1>1, UnitFacts
    <3>2. Calls(v)' => v = u
      <4>1. Calls(v)' => Calls(v)
        BY <2>6 DEF Calls
      <4>2. Calls(v) => integration.unit \in {v, NoUnit}
        BY DEF TreeInv, ResolverInv
      <4> QED BY <1>8, <4>1, <4>2, UnitFacts
    <3>3. \A g \in Flows : flow'[g].own => g = u[1]
      BY <2>2, <2>4
    <3>4. Resolve(v) \notin heard'
      <4>1. Held(v) => v = u
        BY <1>8 DEF Held
      <4> QED BY <1>3, <1>6, <4>1
    <3> QED BY <2>3, <2>8, <3>1, <3>2, <3>3, <3>4
  <2>10. ResolverInv'
    BY <2>9 DEF ResolverInv
  <2> QED BY <2>5, <2>7, <2>10 DEF TreeInv
<1> QED BY <1>7, <1>8 DEF SettleResolver, Resolve

(***************************************************************************)
(* The loop and the Integration unit                                       *)
(***************************************************************************)

LEMMA DisposeTree == ASSUME TypeInv, TreeInv, Dispose PROVE TreeInv'
<1> DEFINE u == flow[0].unit
<1>1. /\ 0 \in Flows /\ u \in Units
      /\ flow[0].at \in {"close disposition", "leave-open disposition"}
  BY DEF Dispose, TypeInv, FlowType, Flows
<1>2. resolver = NoUnit
  BY <1>1 DEF TreeInv, LoopInv
<1>3. UNCHANGED <<resolver, mail, process, heard>> /\ Calmly
  BY ChildrenCalm DEF Dispose, children
<1>4. CASE flow' = [flow EXCEPT ![0] = Idle] /\ UNCHANGED <<integration, busy>>
  <2>1. Idle.at \notin InUnit
    BY IdleType DEF InUnit
  <2> QED BY <1>1, <1>3, <1>4, <2>1, IdleType, FlowTree DEF Calmly
<1>5. CASE /\ integration = NoIntegration /\ RunUnit(u, FALSE)
           /\ integration' = [unit |-> u, conflict |-> FALSE]
  BY <1>1, <1>2, <1>3, <1>5, RunUnitTree
<1> QED BY <1>1, <1>4, <1>5 DEF Dispose

LEMMA LoadUnitTree == ASSUME TypeInv, TreeInv, LoadUnit PROVE TreeInv'
<1>1. 0 \in Flows /\ flow[0].at = "load" /\ "merge" \in Places /\ {"load", "merge"} \subseteq InUnit
  BY DEF LoadUnit, Flows, Places, InUnit
<1>2. flow[0].own /\ UNCHANGED <<resolver, mail, process, heard>> /\ Calmly
  BY <1>1, UnitOwns, ChildrenCalm DEF LoadUnit, children
<1>3. CASE Go(0, "merge") /\ UNCHANGED <<integration, busy>>
  BY <1>1, <1>2, <1>3, GoTree DEF Calmly
<1>4. CASE Return(0) /\ integration' \in {integration, NoIntegration}
  BY <1>1, <1>2, <1>4, ReturnTree DEF Calmly
<1> QED BY <1>3, <1>4 DEF LoadUnit, FailUnit

\* A conflicted merge gives the worktree up, and stays the pending integration.
LEMMA MergeUnitTree == ASSUME TypeInv, TreeInv, MergeUnit PROVE TreeInv'
<1>0. PICK u \in Units : u = flow[0].unit
  BY DEF MergeUnit, TypeInv, FlowType, Flows
<1>1. /\ 0 \in Flows /\ flow[0].at = "merge" /\ "gate" \in Places /\ {"gate", "merge"} \subseteq InUnit
      /\ u = flow[0].unit /\ flow \in [Flows -> Flow]
  BY <1>0 DEF MergeUnit, Flows, Places, InUnit, TypeInv, FlowType
<1>2. /\ flow[0].own /\ integration.unit = u /\ resolver = NoUnit
      /\ UNCHANGED <<resolver, mail, process, heard>> /\ Calmly
  BY <1>1, UnitOwns, ChildrenCalm DEF MergeUnit, children, TreeInv, LoopInv
<1>3. CASE Go(0, "gate") /\ UNCHANGED <<integration, busy>>
  BY <1>1, <1>2, <1>3, GoTree DEF Calmly
<1>4. CASE Return(0) /\ UNCHANGED integration
  BY <1>1, <1>2, <1>4, ReturnTree DEF Calmly
<1>5. CASE /\ integration' = [unit |-> u, conflict |-> TRUE]
           /\ Enter(0, "resolve", u) /\ busy' = FALSE
  <2> DEFINE x == [Idle EXCEPT !.at = "resolve", !.unit = u]
  <2>1. x.at = "resolve" /\ x.unit = u /\ ~x.own
    BY IdleType DEF Flow
  <2>2. flow'[0] = x /\ \A g \in Flows : g # 0 => flow'[g] = flow[g]
    BY <1>1, <1>5 DEF Enter
  <2> HIDE DEF x
  <2>3. \A g \in Flows : g # 0 => ~flow[g].own
    BY <1>1, <1>2 DEF TreeInv, OwnInv
  <2>4. \A g \in Flows : ~flow'[g].own
    BY <2>1, <2>2, <2>3
  <2>5. OwnInv'
    <3>1. \A g \in Flows : flow'[g].at \notin InUnit
      BY <2>1, <2>2, <2>3 DEF TreeInv, OwnInv, InUnit
    <3> QED BY <2>4, <3>1 DEF OwnInv
  <2>6. LoopInv'
    BY <1>2, <2>1, <2>2 DEF LoopInv
  <2>7. \A v \in Units : ~Held(v) /\ resolver' # v /\ (Calls(v)' => v = u)
    BY <1>1, <1>2, <2>1, <2>2, UnitFacts DEF Held, Calls
  <2>8. Held(u)'
    BY <1>5, <2>4 DEF Held
  <2>9. integration'.unit = u
    BY <1>5
  <2>10. ResolverInv'
    BY <1>2, <2>4, <2>7, <2>8, <2>9, UnitFacts DEF TreeInv, ResolverInv, Calmly
  <2> QED BY <2>5, <2>6, <2>10 DEF TreeInv
<1> QED BY <1>1, <1>2, <1>3, <1>4, <1>5 DEF MergeUnit, FailUnit

LEMMA RegisterResolverTree == ASSUME TypeInv, TreeInv, RegisterResolver PROVE TreeInv'
<1> DEFINE u == flow[0].unit
<1>1. /\ 0 \in Flows /\ flow[0].at = "resolve" /\ u \in Units /\ flow \in [Flows -> Flow]
      /\ UNCHANGED <<integration, mail, process, heard>> /\ Calmly
  BY ChildrenCalm DEF RegisterResolver, children, Flows, TypeInv, FlowType
<1>2. resolver = NoUnit /\ Calls(u)
  BY <1>1 DEF TreeInv, LoopInv, Calls
<1>3. CASE UNCHANGED resolver /\ Return(0)
  BY <1>1, <1>3, ReturnTree DEF Calmly
<1>4. CASE resolver' = u /\ Go(0, "resolver") /\ UNCHANGED busy
  <2> DEFINE x == [flow[0] EXCEPT !.at = "resolver"]
  <2>1. x.at = "resolver" /\ x.unit = u /\ x.own = flow[0].own
    BY <1>1 DEF Flow
  <2>2. flow'[0] = x /\ \A g \in Flows : g # 0 => flow'[g] = flow[g]
    BY <1>1, <1>4 DEF Go
  <2> HIDE DEF x
  <2>3. \A g \in Flows : flow'[g].own = flow[g].own
    BY <2>1, <2>2
  <2>4. OwnInv'
    BY <1>1, <1>4, <2>1, <2>2, <2>3 DEF TreeInv, OwnInv, InUnit
  <2>5. LoopInv'
    BY <1>4, <2>1, <2>2 DEF LoopInv
  <2>6. \A v \in Units : /\ Calls(v)' => v = u
                         /\ Held(v) => Held(v)'
                         /\ resolver # v
    BY <1>1, <1>2, <2>1, <2>2, <2>3, UnitFacts DEF Calls, Held
  <2>7. ResolverInv'
    BY <1>1, <1>2, <1>4, <2>3, <2>6 DEF TreeInv, ResolverInv, Calmly
  <2> QED BY <2>4, <2>5, <2>7 DEF TreeInv
<1> QED BY <1>3, <1>4 DEF RegisterResolver

LEMMA LaunchResolverTree == ASSUME TypeInv, TreeInv, LaunchResolver PROVE TreeInv'
<1> DEFINE u == flow[0].unit
<1>1. /\ 0 \in Flows /\ flow[0].at = "resolver" /\ u \in Units /\ flow \in [Flows -> Flow]
      /\ UNCHANGED <<integration, mail, heard>> /\ Return(0) /\ MailInv
      /\ resolver' \in {resolver, NoUnit} /\ resolver \in {u, NoUnit}
  BY DEF LaunchResolver, Flows, TypeInv, FlowType, TreeInv, LoopInv
<1>2. /\ flow'[0] = Idle /\ \A g \in Flows : g # 0 => flow'[g] = flow[g]
      /\ busy' = (busy /\ ~flow[0].own)
  BY <1>1 DEF Return
<1>3. \A g \in Flows : flow'[g].own => flow[g].own /\ g # 0
  BY <1>2, IdleType
<1>4. OwnInv'
  <2>1. \A g \in Flows : flow'[g].own => busy'
    BY <1>1, <1>2, <1>3 DEF TreeInv, OwnInv
  <2>2. \A g \in Flows : flow'[g].at \in InUnit => flow[g].at \in InUnit /\ flow'[g] = flow[g]
    BY <1>2, IdleType DEF InUnit
  <2> QED BY <1>1, <1>3, <2>1, <2>2 DEF TreeInv, OwnInv
<1>5. LoopInv'
  BY <1>2, IdleType DEF LoopInv
<1>6. \A v \in Units : ~Calls(v)' /\ (Held(v) => Held(v)')
  BY <1>1, <1>2, <1>3, IdleType DEF Calls, Held
<1>7. ASSUME NEW v \in Units, Resolve(v) \in heard, resolver' # v PROVE Held(v)
  <2>1. CASE resolver # v
    BY <1>7, <2>1 DEF TreeInv, ResolverInv
  <2>2. CASE resolver = v
    <3>1. v = u /\ Calls(u)
      BY <1>1, <2>2, UnitFacts DEF Calls
    <3>2. Stirs(u)
      BY <1>1, <1>7, <3>1, UnitFacts DEF MailInv, Stirs, Resolve
    <3> QED BY <3>1, <3>2 DEF TreeInv, ResolverInv
  <2> QED BY <2>1, <2>2
<1>8. \A v \in Units : resolver' = v => resolver = v
  BY <1>1, UnitFacts
<1>9. ResolverInv'
  BY <1>1, <1>3, <1>6, <1>7, <1>8 DEF TreeInv, ResolverInv
<1> QED BY <1>4, <1>5, <1>9 DEF TreeInv

LEMMA GateUnitTree == ASSUME TypeInv, TreeInv, NEW f \in Flows, GateUnit(f) PROVE TreeInv'
<1>1. /\ flow[f].at = "gate" /\ flow[f] \in Flow /\ integrated \in [Tickets -> Attempt]
      /\ {"gate", "verify"} \subseteq InUnit /\ flow[f].unit \in Units
      /\ UNCHANGED <<integration, resolver, mail, process, heard>> /\ Calmly
  BY ChildrenCalm DEF GateUnit, children, TypeInv, FlowType, InUnit, TrackerType
<1>2. CASE Return(f)
  BY <1>1, <1>2, ReturnTree DEF Calmly
<1>3. CASE /\ flow' = [flow EXCEPT ![f] = [@ EXCEPT !.at = "verify", !.saw = integrated]]
           /\ UNCHANGED busy
  <2> DEFINE x == [flow[f] EXCEPT !.at = "verify", !.saw = integrated]
  <2>1. x \in Flow /\ x.at = "verify" /\ x.unit = flow[f].unit /\ x.own = flow[f].own
    BY <1>1 DEF Flow, Places
  <2>2. flow' = [flow EXCEPT ![f] = x]
    BY <1>3
  <2>3. f = 0 => resolver = NoUnit
    BY <1>1 DEF TreeInv, LoopInv
  <2> HIDE DEF x
  <2> QED BY <1>1, <1>3, <2>1, <2>2, <2>3, FlowTree DEF Calmly
<1> QED BY <1>2, <1>3 DEF GateUnit, FailUnit

LEMMA VerifyUnitTree == ASSUME TypeInv, TreeInv, NEW f \in Flows, VerifyUnit(f) PROVE TreeInv'
<1>1. /\ flow[f].at = "verify" /\ "push" \in Places /\ {"verify", "push"} \subseteq InUnit
      /\ UNCHANGED <<integration, resolver, mail, process, heard>> /\ Calmly
  BY ChildrenCalm DEF VerifyUnit, children, Places, InUnit
<1>2. CASE Go(f, "push") /\ UNCHANGED busy
  BY <1>1, <1>2, GoTree DEF Calmly
<1>3. CASE Return(f)
  BY <1>1, <1>3, ReturnTree DEF Calmly
<1> QED BY <1>2, <1>3 DEF VerifyUnit, FailUnit

LEMMA PushUnitTree == ASSUME TypeInv, TreeInv, NEW f \in Flows, PushUnit(f) PROVE TreeInv'
<1>1. /\ flow[f].at = "push" /\ "manifest" \in Places /\ {"push", "manifest"} \subseteq InUnit
      /\ UNCHANGED <<integration, resolver, mail, process, heard>> /\ Calmly
  BY ChildrenCalm DEF PushUnit, children, Places, InUnit
<1>2. CASE Go(f, "manifest") /\ UNCHANGED busy
  BY <1>1, <1>2, GoTree DEF Calmly
<1>3. CASE Return(f)
  BY <1>1, <1>3, ReturnTree DEF Calmly
<1> QED BY <1>2, <1>3 DEF PushUnit, FailUnit

LEMMA WriteManifestTree ==
  ASSUME TypeInv, TreeInv, NEW f \in Flows, WriteManifest(f)
  PROVE  TreeInv'
<1>1. /\ flow[f].at = "manifest" /\ "record" \in Places /\ "manifest" \in InUnit
      /\ "record" \notin InUnit
      /\ UNCHANGED <<resolver, mail, process, heard>> /\ Calmly
  BY ChildrenCalm DEF WriteManifest, children, Places, InUnit
<1>2. flow[f].own
  BY <1>1, UnitOwns
<1>3. CASE Go(f, "record") /\ integration' = NoIntegration /\ UNCHANGED busy
  BY <1>1, <1>2, <1>3, GoTree DEF Calmly
<1>4. CASE Return(f) /\ UNCHANGED integration
  BY <1>1, <1>4, ReturnTree DEF Calmly
<1> QED BY <1>3, <1>4 DEF WriteManifest, FailUnit

LEMMA RecordUnitTree == ASSUME TypeInv, TreeInv, NEW f \in Flows, RecordUnit(f) PROVE TreeInv'
<1>1. /\ flow[f].at = "record" /\ "ci" \in Places /\ "ci" \notin InUnit /\ Go(f, "ci")
      /\ UNCHANGED <<integration, busy, resolver, mail, process, heard>> /\ Calmly
  BY ChildrenCalm DEF RecordUnit, pending, children, Places, InUnit
<1> QED BY <1>1, GoTree DEF Calmly

LEMMA CiTree ==
  ASSUME TypeInv, TreeInv, NEW f \in Flows, CheckCi(f) \/ CloseTicket(f)
  PROVE  TreeInv'
<1>1. /\ flow[f].at \in {"ci", "close"} /\ "close" \in Places /\ "close" \notin InUnit
      /\ UNCHANGED <<integration, resolver, mail, process, heard>> /\ Calmly
  BY ChildrenCalm DEF CheckCi, CloseTicket, children, Places, InUnit
<1>2. CASE Go(f, "close") /\ UNCHANGED busy
  BY <1>1, <1>2, GoTree DEF Calmly
<1>3. CASE Return(f)
  BY <1>1, <1>3, ReturnTree DEF Calmly
<1> QED BY <1>2, <1>3 DEF CheckCi, CloseTicket

LEMMA RePushTree == ASSUME TypeInv, TreeInv, RePush PROVE TreeInv'
<1>1. /\ 0 \in Flows /\ flow[0].at = "repush" /\ "ci" \in Places /\ "ci" \notin InUnit
      /\ UNCHANGED <<integration, resolver, mail, process, heard>> /\ Calmly
  BY ChildrenCalm DEF RePush, children, Flows, Places, InUnit
<1>2. CASE Go(0, "ci") /\ UNCHANGED busy
  BY <1>1, <1>2, GoTree DEF Calmly
<1>3. CASE Return(0)
  BY <1>1, <1>3, ReturnTree DEF Calmly
<1> QED BY <1>2, <1>3 DEF RePush

LEMMA ReopenTicketTree == ASSUME TypeInv, TreeInv, ReopenTicket PROVE TreeInv'
<1>1. /\ 0 \in Flows /\ flow[0].at = "reopen" /\ flow[0] \in Flow
      /\ integrated \in [Tickets -> Attempt]
      /\ UNCHANGED <<integration, resolver, mail, process, heard>> /\ Calmly
  BY ChildrenCalm DEF ReopenTicket, children, Flows, TypeInv, FlowType, TrackerType
<1>2. integration = NoIntegration /\ resolver = NoUnit
  BY <1>1 DEF TreeInv, LoopInv
<1>3. CASE Return(0)
  BY <1>1, <1>3, ReturnTree DEF Calmly
<1>4. CASE /\ flow' = [flow EXCEPT ![0] = [@ EXCEPT !.at = "unrecord", !.saw = integrated]]
           /\ UNCHANGED busy
  <2> DEFINE x == [flow[0] EXCEPT !.at = "unrecord", !.saw = integrated]
  <2>1. x \in Flow /\ x.at = "unrecord" /\ x.own = flow[0].own
    BY <1>1 DEF Flow, Places
  <2>2. flow' = [flow EXCEPT ![0] = x]
    BY <1>4
  <2>3. "unrecord" \notin InUnit
    BY DEF InUnit
  <2> HIDE DEF x
  <2> QED BY <1>1, <1>2, <1>4, <2>1, <2>2, <2>3, FlowTree DEF Calmly
<1> QED BY <1>3, <1>4 DEF ReopenTicket

\* Only Implementation workers are aborted because their ticket is blocked.
LEMMA AbortBlockedCalm ==
  ASSUME NEW open, AbortBlocked(open), UNCHANGED <<mail, heard>>
  PROVE  Calmly
<1>1. \A u \in Units : process'[Resolve(u)] = process[Resolve(u)]
  BY UnitFacts DEF AbortBlocked, Resolve
<1> QED BY <1>1 DEF Calmly, Stirs

LEMMA UnrecordTicketTree == ASSUME TypeInv, TreeInv, UnrecordTicket PROVE TreeInv'
<1>1. /\ 0 \in Flows /\ flow[0].at = "unrecord" /\ "plan" \in Places /\ "plan" \notin InUnit
      /\ UNCHANGED <<integration, resolver, mail, heard>>
  BY DEF UnrecordTicket, Flows, Places, InUnit
<1>2. integration = NoIntegration
  BY <1>1 DEF TreeInv, LoopInv
<1>3. CASE Go(0, "plan") /\ UNCHANGED busy /\ AbortBlocked(Tickets \ closed)
  BY <1>1, <1>2, <1>3, AbortBlockedCalm, GoTree DEF Calmly
<1>4. CASE Return(0) /\ UNCHANGED process
  BY <1>1, <1>4, ChildrenCalm, ReturnTree DEF Calmly
<1> QED BY <1>3, <1>4 DEF UnrecordTicket

LEMMA ReconcileBlockedTree == ASSUME TypeInv, TreeInv, ReconcileBlocked PROVE TreeInv'
<1>1. UNCHANGED <<flow, integration, busy, resolver, mail, heard>>
  BY DEF ReconcileBlocked, pending, control
<1>2. Calmly
  BY <1>1, AbortBlockedCalm DEF ReconcileBlocked
<1> QED BY <1>1, <1>2, CalmTree DEF Calmly

LEMMA BeginStopTree ==
  ASSUME TypeInv, TreeInv, NEW kind \in Stops, BeginStop(kind)
  PROVE  TreeInv'
<1>1. UNCHANGED <<flow, integration, busy, resolver, mail, heard>>
  BY DEF BeginStop, pending
<1>2. \A u \in Units : process'[Resolve(u)] # "none" => process[Resolve(u)] # "none"
  BY UnitFacts DEF BeginStop, Resolve
<1>3. Calmly
  BY <1>1, <1>2 DEF Calmly, Stirs
<1> QED BY <1>1, <1>3, CalmTree DEF Calmly

\* No event of a worker is being handled when a stop takes the registrations away.
LEMMA StopWorkersTree ==
  ASSUME EventsAreShort, TypeInv, TreeInv, StopWorkers
  PROVE  TreeInv'
<1>1. /\ heard = {} /\ resolver' = NoUnit
      /\ UNCHANGED <<flow, integration, busy, mail, process, heard>>
  BY DEF StopWorkers, children
<1>2. OwnInv' /\ LoopInv'
  BY <1>1 DEF TreeInv, OwnInv, LoopInv
<1>3. \A u \in Units : /\ Held(u)' = Held(u) /\ Calls(u)' = Calls(u) /\ Stirs(u)' = Stirs(u)
                       /\ resolver' # u
  BY <1>1, UnitFacts DEF Held, Calls, Stirs
<1>4. ResolverInv'
  BY <1>1, <1>3 DEF TreeInv, ResolverInv
<1> QED BY <1>2, <1>4 DEF TreeInv

\* What is not integrated is discarded between flows and events.
LEMMA TerminateTree ==
  ASSUME DiscardWaits \/ ~stop.discard, TypeInv, TreeInv, Terminate
  PROVE  TreeInv'
<1>1. UNCHANGED <<flow, resolver, mail, process, heard>> /\ 0 \in Flows
  BY DEF Terminate, children, Flows
<1>2. CASE UNCHANGED <<integration, busy>>
  BY <1>1, <1>2, ChildrenCalm, CalmTree DEF Calmly
<1>3. CASE stop.discard /\ integration' = NoIntegration /\ busy' = FALSE
  <2>1. /\ \A f \in Flows : flow[f] = Idle
        /\ \A w \in Workers : mail[w] = <<>>
    BY <1>3 DEF Terminate, Quiet, TypeInv, FlowType
  <2>2. \A f \in Flows : flow'[f].at = "idle" /\ ~flow'[f].own
    BY <1>1, <2>1, IdleType
  <2>3. \A u \in Units : Resolve(u) \notin heard' /\ ~Calls(u)'
    BY <1>1, <2>1, <2>2, UnitFacts DEF TypeInv, MailInv, Resolve, Calls
  <2>4. integration'.unit = NoUnit
    BY <1>3 DEF NoIntegration
  <2>5. OwnInv' /\ LoopInv'
    BY <1>1, <2>2 DEF OwnInv, LoopInv, InUnit
  <2>6. ResolverInv'
    BY <2>2, <2>3, <2>4 DEF ResolverInv
  <2> QED BY <2>5, <2>6 DEF TreeInv
<1> QED BY <1>2, <1>3 DEF Terminate

LEMMA SessionEndsTree == ASSUME SessionEnds PROVE TreeInv'
<1>1. /\ \A f \in Flows : flow'[f] = Idle
      /\ 0 \in Flows /\ resolver' = NoUnit /\ heard' = {}
  BY DEF SessionEnds, Flows
<1>2. \A f \in Flows : flow'[f].at = "idle" /\ ~flow'[f].own
  BY <1>1, IdleType
<1> QED BY <1>1, <1>2, UnitFacts DEF TreeInv, OwnInv, LoopInv, ResolverInv, Calls, InUnit

LEMMA StopEndsTree ==
  ASSUME TypeInv, TreeInv, Pause \/ EmergencyStop \/ BeginRun \/ LeaveOpenCi
  PROVE  TreeInv'
<1>1. UNCHANGED <<flow, integration, busy, resolver, mail, process, heard>>
  BY DEF Pause, EmergencyStop, BeginRun, LeaveOpenCi, pending, children, control
<1> QED BY <1>1, ChildrenCalm, CalmTree DEF Calmly

LEMMA LoopTree == ASSUME TypeInv, TreeInv, Loop PROVE TreeInv'
BY DisposeTree, LoadUnitTree, MergeUnitTree, RegisterResolverTree, LaunchResolverTree,
   PlanImplementationTree, CreateWorkspaceTree, RegisterWorkerTree, LaunchWorkerTree,
   RePushTree, ReopenTicketTree, UnrecordTicketTree DEF Loop

LEMMA UnitTree == ASSUME TypeInv, TreeInv, NEW f \in Flows, Unit(f) PROVE TreeInv'
BY GateUnitTree, VerifyUnitTree, PushUnitTree, WriteManifestTree, RecordUnitTree, CiTree
   DEF Unit

LEMMA AdvanceTree ==
  ASSUME TypeInv, TreeInv, NEW t \in Tickets, Advance(t) \/ ChooseRework(t)
  PROVE  TreeInv'
BY RecoverPendingTree, ChooseTree
   DEF Advance, ChooseImplement, ChooseCheckCi, ChooseRetryCi, ChooseRework

LEMMA WorkerTree ==
  ASSUME TypeInv, TreeInv, NEW w \in Workers,
         \/ Event(w) \/ LoseEvent(w) \/ SynthesizeExit(w)
         \/ \E outcome \in {"completed", "failed"} : Report(w, outcome)
         \/ \E code \in {"clean", "bad"} : Exit(w, code)
  PROVE  TreeInv'
<1>1. w[2] \in Units
  BY UnitFacts
<1>2. CASE Event(w)
  BY <1>1, <1>2, ReceiveEventTree, SettleResolverTree, SettleTree DEF Event
<1> QED BY <1>2, LoseEventTree, SynthesizeExitTree, ReportTree, ExitTree

LEMMA TreeHolds ==
  ASSUME EventsAreShort
  PROVE  (DiscardWaits \/ ~stop.discard) /\ TypeInv /\ TreeInv /\ [PipelineNext]_vars => TreeInv'
<1> SUFFICES ASSUME DiscardWaits \/ ~stop.discard, TypeInv, TreeInv, [PipelineNext]_vars
             PROVE  TreeInv'
  OBVIOUS
<1>1. DOMAIN flow = Flows
  BY DEF TypeInv, FlowType
<1>2. CASE \E t \in Tickets : Advance(t) \/ ChooseRework(t)
  BY <1>2, AdvanceTree
<1>3. CASE \E d \in {"close disposition", "leave-open disposition"} : ChooseDisposition(d)
  BY <1>3, ChooseDispositionTree
<1>4. CASE RetryIntegration \/ Loop
  BY <1>4, RetryIntegrationTree, LoopTree
<1>5. CASE \E f \in DOMAIN flow : Unit(f)
  BY <1>1, <1>5, UnitTree
<1>6. CASE \E w \in Workers :
             \/ Event(w) \/ LoseEvent(w) \/ SynthesizeExit(w)
             \/ \E outcome \in {"completed", "failed"} : Report(w, outcome)
             \/ \E code \in {"clean", "bad"} : Exit(w, code)
  BY <1>6, WorkerTree
<1>7. CASE ReconcileBlocked \/ (\E kind \in Stops : BeginStop(kind)) \/ StopWorkers
  BY <1>7, ReconcileBlockedTree, BeginStopTree, StopWorkersTree
<1>8. CASE Pause \/ EmergencyStop \/ BeginRun \/ LeaveOpenCi \/ Terminate
  BY <1>8, StopEndsTree, TerminateTree
<1>9. CASE Quit \/ Crash
  BY <1>9, SessionEndsTree DEF Quit, Crash
<1>10. CASE UNCHANGED vars
  <2>1. UNCHANGED <<flow, integration, busy, resolver, mail, process, heard>>
    BY <1>10 DEF vars, control, pending, children
  <2> QED BY <2>1, ChildrenCalm, CalmTree DEF Calmly
<1> QED BY <1>2, <1>3, <1>4, <1>5, <1>6, <1>7, <1>8, <1>9, <1>10 DEF PipelineNext, Stop

\* The invariant OneUnitInTheTree: the loop and a finisher that runs beside it are
\* never both between the load and the manifest of a unit, when a termination
\* discards between flows and events and no stop overtakes an event that is being
\* handled.
THEOREM UnitsAreSerial ==
  ASSUME DiscardWaits, EventsAreShort
  PROVE  PipelineSpec => []OneUnitInTheTree
<1>1. PipelineInit => TypeInv /\ TreeInv
  BY InitTypes, InitTree
<1>2. TypeInv /\ TreeInv /\ [PipelineNext]_vars => (TypeInv /\ TreeInv)'
  BY TypesHold, TreeHolds
<1>3. TypeInv /\ TreeInv => OneUnitInTheTree
  <2> SUFFICES ASSUME TypeInv, TreeInv, NEW f \in DOMAIN flow, NEW g \in DOMAIN flow,
                      InTree(f), InTree(g)
               PROVE  f = g
    BY DEF OneUnitInTheTree
  <2>1. f \in Flows /\ g \in Flows
    BY DEF TypeInv, FlowType
  <2>2. flow[f].own /\ flow[g].own
    BY <2>1, UnitOwns DEF InTree, InUnit
  <2> QED BY <2>1, <2>2 DEF TreeInv, OwnInv
<1> QED BY <1>1, <1>2, <1>3, PTL DEF PipelineSpec

(***************************************************************************)
(* The Workflow manifest is rewritten from an old copy                     *)
(***************************************************************************)

AfterRead == {"verify", "push", "manifest"}

\* The copy a unit or a rework will write back is still what the manifest says.
SawInv ==
  /\ \A f \in Flows : flow[f].at \in AfterRead => flow[f].saw = integrated
  /\ flow[0].at = "unrecord" => flow[0].saw = integrated

LEMMA InitSaw == PipelineInit => SawInv
<1> SUFFICES ASSUME PipelineInit PROVE SawInv
  OBVIOUS
<1>1. 0 \in Flows /\ \A f \in Flows : flow[f].at = "idle"
  BY IdleType DEF PipelineInit, Flows
<1> QED BY <1>1 DEF SawInv, AfterRead

\* The manifest is not written, and a flow goes where no copy is held, or on with
\* its copy, or reads.
LEMMA FlowSaw ==
  ASSUME TypeInv, SawInv, UNCHANGED integrated, NEW f \in Flows, NEW x \in Flow,
         flow' = [flow EXCEPT ![f] = x],
         x.at \in AfterRead => \/ flow[f].at \in AfterRead /\ x.saw = flow[f].saw
                              \/ x.saw = integrated,
         x.at = "unrecord" => x.saw = integrated
  PROVE  SawInv'
<1>1. flow \in [Flows -> Flow] /\ 0 \in Flows
  BY DEF TypeInv, FlowType, Flows
<1>2. flow'[f] = x /\ \A g \in Flows : g # f => flow'[g] = flow[g]
  BY <1>1
<1> QED BY <1>1, <1>2 DEF SawInv, AfterRead

LEMMA EnterSaw ==
  ASSUME TypeInv, SawInv, UNCHANGED integrated, NEW u \in Units,
         NEW at \in Places \ {"verify", "push", "manifest", "unrecord"}, Enter(0, at, u)
  PROVE  SawInv'
<1> DEFINE x == [Idle EXCEPT !.at = at, !.unit = u]
<1>1. x \in Flow /\ x.at = at /\ 0 \in Flows /\ flow' = [flow EXCEPT ![0] = x]
  BY IdleType DEF Flow, MaybeUnit, Enter, Flows
<1> HIDE DEF x
<1> QED BY <1>1, FlowSaw DEF AfterRead

LEMMA ReturnSaw ==
  ASSUME TypeInv, SawInv, UNCHANGED integrated, NEW f \in Flows,
         flow' = [flow EXCEPT ![f] = Idle]
  PROVE  SawInv'
BY IdleType, FlowSaw DEF AfterRead

LEMMA GoSaw ==
  ASSUME TypeInv, SawInv, UNCHANGED integrated, NEW f \in Flows,
         NEW at \in Places \ {"verify", "unrecord"}, Go(f, at),
         at \in AfterRead => flow[f].at \in AfterRead
  PROVE  SawInv'
<1> DEFINE x == [flow[f] EXCEPT !.at = at]
<1>1. x \in Flow /\ x.at = at /\ x.saw = flow[f].saw
  BY DEF TypeInv, FlowType, Flow
<1>2. flow' = [flow EXCEPT ![f] = x]
  BY DEF Go, TypeInv, FlowType
<1> HIDE DEF x
<1> QED BY <1>1, <1>2, FlowSaw

LEMMA ReadSaw ==
  ASSUME TypeInv, SawInv, UNCHANGED integrated, NEW f \in Flows, NEW at \in Places,
         flow' = [flow EXCEPT ![f] = [@ EXCEPT !.at = at, !.saw = integrated]]
  PROVE  SawInv'
<1> DEFINE x == [flow[f] EXCEPT !.at = at, !.saw = integrated]
<1>1. x \in Flow /\ x.saw = integrated
  BY DEF TypeInv, FlowType, Flow, TrackerType
<1>2. flow' = [flow EXCEPT ![f] = x]
  OBVIOUS
<1> HIDE DEF x
<1> QED BY <1>1, <1>2, FlowSaw

LEMMA StillSaw ==
  ASSUME SawInv, UNCHANGED <<integrated, flow>>
  PROVE  SawInv'
BY DEF SawInv

LEMMA RunUnitSaw ==
  ASSUME TypeInv, SawInv, UNCHANGED integrated, NEW u \in Units, NEW c \in BOOLEAN, RunUnit(u, c)
  PROVE  SawInv'
<1> DEFINE x == [Idle EXCEPT !.at = "load", !.unit = u, !.own = TRUE]
<1>0. 0 \in Flows
  BY DEF Flows
<1>1. CASE flow' = [flow EXCEPT ![0] = Idle]
  BY <1>0, <1>1, ReturnSaw
<1>2. CASE Enter(0, "resolve", u)
  BY <1>2, EnterSaw DEF Places
<1>3. CASE flow' = [flow EXCEPT ![0] = x]
  <2>1. x \in Flow /\ x.at = "load"
    BY IdleType DEF Flow, MaybeUnit, Places
  <2> HIDE DEF x
  <2> QED BY <1>0, <1>3, <2>1, FlowSaw DEF AfterRead
<1> QED BY <1>1, <1>2, <1>3 DEF RunUnit

LEMMA AdvanceSaw ==
  ASSUME TypeInv, SawInv, NEW t \in Tickets, Advance(t) \/ ChooseRework(t)
  PROVE  SawInv'
<1>1. CASE RecoverPending(t)
  BY <1>1, StillSaw DEF RecoverPending, tracker, control
<1>2. ASSUME NEW at \in {"plan", "ci", "repush", "reopen"}, Choose(at, t)
      PROVE  SawInv'
  <2>1. <<t, IF integrated[t] = 0 THEN 1 ELSE integrated[t]>> \in Units
    BY UnitFacts, MaxAttemptFacts DEF TypeInv, TrackerType, Attempt
  <2>2. UNCHANGED integrated
    BY <1>2 DEF Choose, tracker
  <2> QED BY <1>2, <2>1, <2>2, EnterSaw DEF Choose, Places
<1> QED BY <1>1, <1>2
        DEF Advance, ChooseImplement, ChooseCheckCi, ChooseRetryCi, ChooseRework

LEMMA ChooseDispositionSaw ==
  ASSUME TypeInv, SawInv, NEW d \in {"close disposition", "leave-open disposition"},
         ChooseDisposition(d)
  PROVE  SawInv'
<1>1. disposition \in Units /\ Enter(0, d, disposition) /\ UNCHANGED integrated
  BY DEF ChooseDisposition, TypeInv, PendingType, MaybeUnit, tracker
<1>2. d \in Places \ {"verify", "push", "manifest", "unrecord"}
  BY DEF Places
<1> QED BY <1>1, <1>2, EnterSaw

LEMMA RetryIntegrationSaw == ASSUME TypeInv, SawInv, RetryIntegration PROVE SawInv'
<1>1. integration.unit \in Units /\ integration.conflict \in BOOLEAN
  BY DEF RetryIntegration, TypeInv, PendingType
<1>2. RunUnit(integration.unit, integration.conflict) /\ UNCHANGED integrated
  BY DEF RetryIntegration, tracker
<1> QED BY <1>1, <1>2, RunUnitSaw

\* The implementation part of the loop, and its launches.
LEMMA ImplementSaw ==
  ASSUME TypeInv, SawInv,
         PlanImplementation \/ CreateWorkspace \/ RegisterWorker \/ LaunchWorker
  PROVE  SawInv'
<1>1. /\ 0 \in Flows /\ UNCHANGED integrated
      /\ {"register", "launch", "workspace"} \subseteq Places \ {"verify", "push", "manifest", "unrecord"}
  BY DEF PlanImplementation, CreateWorkspace, RegisterWorker, LaunchWorker, tracker, Flows, Places
<1>2. CASE Return(0)
  BY <1>1, <1>2, ReturnSaw DEF Return
<1>3. CASE Go(0, "register") \/ Go(0, "launch")
  BY <1>1, <1>3, GoSaw DEF AfterRead
<1>4. CASE \E u \in Units : Enter(0, "workspace", u)
  BY <1>1, <1>4, EnterSaw
<1> QED BY <1>2, <1>3, <1>4 DEF PlanImplementation, CreateWorkspace, RegisterWorker, LaunchWorker

LEMMA IntegrateSaw ==
  ASSUME TypeInv, SawInv,
         Dispose \/ LoadUnit \/ MergeUnit \/ RegisterResolver \/ LaunchResolver \/ RePush
         \/ ReopenTicket
  PROVE  SawInv'
<1>0. 0 \in Flows /\ "unrecord" \in Places
  BY DEF Flows, Places
<1>1. UNCHANGED integrated
  BY DEF Dispose, LoadUnit, MergeUnit, RegisterResolver, LaunchResolver, RePush, ReopenTicket,
         tracker
<1>2. CASE flow' = [flow EXCEPT ![0] = Idle]
  BY <1>0, <1>1, <1>2, ReturnSaw
<1>3. CASE Go(0, "merge") \/ Go(0, "gate") \/ Go(0, "resolver") \/ Go(0, "ci")
  BY <1>0, <1>1, <1>3, GoSaw DEF AfterRead, Places
<1>4. CASE RunUnit(flow[0].unit, FALSE) /\ Dispose
  <2>1. flow[0].unit \in Units
    BY <1>0, <1>4 DEF Dispose, TypeInv, FlowType
  <2> QED BY <1>1, <1>4, <2>1, RunUnitSaw
<1>5. CASE Enter(0, "resolve", flow[0].unit) /\ MergeUnit
  <2>1. flow[0].unit \in Units
    BY <1>0, <1>5 DEF MergeUnit, TypeInv, FlowType
  <2> QED BY <1>1, <1>5, <2>1, EnterSaw DEF Places
<1>6. CASE flow' = [flow EXCEPT ![0] = [@ EXCEPT !.at = "unrecord", !.saw = integrated]]
  BY <1>0, <1>1, <1>6, ReadSaw
<1>7. CASE Dispose
  BY <1>2, <1>4, <1>7 DEF Dispose
<1>8. CASE LoadUnit \/ MergeUnit
  BY <1>2, <1>3, <1>5, <1>8 DEF LoadUnit, MergeUnit, FailUnit, Return
<1>9. CASE RegisterResolver \/ LaunchResolver \/ RePush \/ ReopenTicket
  BY <1>2, <1>3, <1>6, <1>9 DEF RegisterResolver, LaunchResolver, RePush, ReopenTicket, Return
<1> QED BY <1>7, <1>8, <1>9

\* While a unit holds a copy no rework does, and no other unit.
LEMMA CopiesAreExclusive ==
  ASSUME TypeInv, TreeInv
  PROVE  /\ \A f, g \in Flows : flow[f].at \in AfterRead /\ flow[g].at \in AfterRead => f = g
         /\ \A f \in Flows : ~(flow[f].at \in AfterRead /\ flow[0].at = "unrecord")
<1>1. AfterRead \subseteq InUnit
  BY DEF AfterRead, InUnit
<1>2. \A f, g \in Flows : flow[f].at \in AfterRead /\ flow[g].at \in AfterRead => f = g
  BY <1>1 DEF TreeInv, OwnInv
<1>3. ASSUME NEW f \in Flows, flow[f].at \in AfterRead, flow[0].at = "unrecord" PROVE FALSE
  <2>1. integration.unit \in Units
    <3>1. integration.unit = flow[f].unit
      BY <1>1, <1>3 DEF TreeInv, OwnInv
    <3> QED BY <1>3, <3>1 DEF TypeInv, FlowType, AfterRead
  <2>2. integration = NoIntegration
    BY <1>3 DEF TreeInv, LoopInv
  <2> QED BY <2>1, <2>2, UnitFacts DEF NoIntegration
<1> QED BY <1>2, <1>3

LEMMA UnrecordTicketSaw == ASSUME TypeInv, TreeInv, SawInv, UnrecordTicket PROVE SawInv'
<1>1. 0 \in Flows /\ flow[0].at = "unrecord" /\ "plan" \in Places /\ flow \in [Flows -> Flow]
  BY DEF UnrecordTicket, Flows, Places, TypeInv, FlowType
<1>2. CASE Go(0, "plan")
  <2>1. flow'[0].at = "plan" /\ \A g \in Flows : g # 0 => flow'[g] = flow[g]
    BY <1>1, <1>2 DEF Go, Flow
  <2>2. \A g \in Flows : flow'[g].at \notin AfterRead
    BY <1>1, <2>1, CopiesAreExclusive DEF AfterRead
  <2> QED BY <2>1, <2>2 DEF SawInv
<1>3. CASE Return(0) /\ UNCHANGED integrated
  BY <1>1, <1>3, ReturnSaw DEF Return
<1> QED BY <1>2, <1>3 DEF UnrecordTicket

LEMMA WriteManifestSaw ==
  ASSUME TypeInv, TreeInv, SawInv, NEW f \in Flows, WriteManifest(f)
  PROVE  SawInv'
<1>1. flow[f].at = "manifest" /\ flow[f].at \in AfterRead /\ flow \in [Flows -> Flow] /\ 0 \in Flows
  BY DEF WriteManifest, AfterRead, TypeInv, FlowType, Flows
<1>2. CASE Go(f, "record")
  <2>1. flow'[f].at = "record" /\ \A g \in Flows : g # f => flow'[g] = flow[g]
    BY <1>1, <1>2 DEF Go, Flow
  <2>2. \A g \in Flows : flow'[g].at \notin AfterRead
    BY <1>1, <2>1, CopiesAreExclusive DEF AfterRead
  <2>3. flow'[0].at # "unrecord"
    BY <1>1, <2>1, CopiesAreExclusive
  <2> QED BY <2>2, <2>3 DEF SawInv
<1>3. CASE FailUnit(f) /\ UNCHANGED integrated
  BY <1>3, ReturnSaw DEF FailUnit, Return
<1> QED BY <1>2, <1>3 DEF WriteManifest

LEMMA UnitSaw == ASSUME TypeInv, TreeInv, SawInv, NEW f \in Flows, Unit(f) PROVE SawInv'
<1>0. {"verify", "push", "manifest", "ci", "close"} \subseteq Places
  BY DEF Places
<1>1. CASE WriteManifest(f)
  BY <1>1, WriteManifestSaw
<1>2. CASE ~WriteManifest(f)
  <2>1. UNCHANGED integrated
    BY <1>2 DEF Unit, GateUnit, VerifyUnit, PushUnit, RecordUnit, CheckCi, CloseTicket, tracker
  <2>2. CASE flow' = [flow EXCEPT ![f] = Idle]
    BY <2>1, <2>2, ReturnSaw
  <2>3. CASE \/ Go(f, "ci") \/ Go(f, "close")
             \/ Go(f, "push") /\ flow[f].at = "verify"
             \/ Go(f, "manifest") /\ flow[f].at = "push"
    BY <1>0, <2>1, <2>3, GoSaw DEF AfterRead
  <2>4. CASE flow' = [flow EXCEPT ![f] = [@ EXCEPT !.at = "verify", !.saw = integrated]]
    BY <1>0, <2>1, <2>4, ReadSaw
  <2> QED BY <1>2, <2>2, <2>3, <2>4
      DEF Unit, GateUnit, VerifyUnit, PushUnit, RecordUnit, CheckCi, CloseTicket, FailUnit, Return
<1> QED BY <1>1, <1>2

LEMMA WorkerSaw ==
  ASSUME TypeInv, SawInv, NEW w \in Workers,
         \/ Event(w) \/ LoseEvent(w) \/ SynthesizeExit(w)
         \/ \E outcome \in {"completed", "failed"} : Report(w, outcome)
         \/ \E code \in {"clean", "bad"} : Exit(w, code)
  PROVE  SawInv'
<1>0. w[2] \in Units
  BY UnitFacts
<1>1. CASE SettleResolver(w[2])
  <2> DEFINE u == w[2]
             x == [Idle EXCEPT !.at = "gate", !.unit = u, !.own = TRUE]
  <2>1. x \in Flow /\ x.at = "gate" /\ u[1] \in Flows /\ UNCHANGED integrated
    BY <1>0, <1>1, IdleType, UnitFacts DEF Flow, MaybeUnit, Places, Flows, SettleResolver, tracker
  <2>2. UNCHANGED flow \/ flow' = [flow EXCEPT ![u[1]] = x]
    BY <1>1 DEF SettleResolver, Finish
  <2> HIDE DEF x, u
  <2> QED BY <2>1, <2>2, FlowSaw, StillSaw DEF AfterRead
<1>2. CASE ~SettleResolver(w[2])
  <2>1. UNCHANGED <<integrated, flow>>
    BY <1>2 DEF Event, ReceiveEvent, SettleResult, SettleExit, LoseEvent, SynthesizeExit, Report,
                Exit, tracker, control
  <2> QED BY <2>1, StillSaw
<1> QED BY <1>1, <1>2

LEMMA StopSaw ==
  ASSUME TypeInv, SawInv,
         \/ ReconcileBlocked \/ (\E kind \in Stops : BeginStop(kind)) \/ Stop \/ Crash \/ BeginRun
         \/ LeaveOpenCi \/ UNCHANGED vars
  PROVE  SawInv'
<1>1. CASE SessionEnds
  <2>1. 0 \in Flows /\ \A f \in Flows : flow'[f].at = "idle"
    BY <1>1, IdleType DEF SessionEnds, Flows
  <2> QED BY <2>1 DEF SawInv, AfterRead
<1>2. CASE ~SessionEnds
  <2>1. UNCHANGED <<integrated, flow>>
    BY <1>2 DEF ReconcileBlocked, BeginStop, Stop, StopWorkers, Pause, EmergencyStop, Terminate,
                Quit, Crash, BeginRun, LeaveOpenCi, vars, tracker, control
  <2> QED BY <2>1, StillSaw
<1> QED BY <1>1, <1>2

LEMMA SawHolds == TypeInv /\ TreeInv /\ SawInv /\ [PipelineNext]_vars => SawInv'
<1> SUFFICES ASSUME TypeInv, TreeInv, SawInv, [PipelineNext]_vars PROVE SawInv'
  OBVIOUS
<1>1. DOMAIN flow = Flows
  BY DEF TypeInv, FlowType
<1>2. CASE \E t \in Tickets : Advance(t) \/ ChooseRework(t)
  BY <1>2, AdvanceSaw
<1>3. CASE \E d \in {"close disposition", "leave-open disposition"} : ChooseDisposition(d)
  BY <1>3, ChooseDispositionSaw
<1>4. CASE RetryIntegration \/ Loop
  BY <1>4, RetryIntegrationSaw, ImplementSaw, IntegrateSaw, UnrecordTicketSaw DEF Loop
<1>5. CASE \E f \in DOMAIN flow : Unit(f)
  BY <1>1, <1>5, UnitSaw
<1>6. CASE \E w \in Workers :
             \/ Event(w) \/ LoseEvent(w) \/ SynthesizeExit(w)
             \/ \E outcome \in {"completed", "failed"} : Report(w, outcome)
             \/ \E code \in {"clean", "bad"} : Exit(w, code)
  BY <1>6, WorkerSaw
<1>7. CASE \/ ReconcileBlocked \/ (\E kind \in Stops : BeginStop(kind)) \/ Stop \/ Crash
           \/ BeginRun \/ LeaveOpenCi \/ UNCHANGED vars
  BY <1>7, StopSaw
<1> QED BY <1>2, <1>3, <1>4, <1>5, <1>6, <1>7 DEF PipelineNext

\* Only two steps write the manifest.
LEMMA WhoWrites ==
  ASSUME [PipelineNext]_vars, integrated' # integrated
  PROVE  UnrecordTicket \/ \E f \in DOMAIN flow : WriteManifest(f)
BY DEF PipelineNext, Advance, ChooseRework, RecoverPending, ChooseImplement, ChooseCheckCi,
       ChooseRetryCi, Choose, ChooseDisposition, RetryIntegration, LeaveOpenCi, Loop, Dispose,
       LoadUnit, MergeUnit, RegisterResolver, LaunchResolver, PlanImplementation, CreateWorkspace,
       RegisterWorker, LaunchWorker, RePush, ReopenTicket, Unit, GateUnit, VerifyUnit, PushUnit,
       RecordUnit, CheckCi, CloseTicket, Event, ReceiveEvent, SettleResolver, SettleResult,
       SettleExit, LoseEvent, SynthesizeExit, Report, Exit, ReconcileBlocked, BeginStop, Stop,
       StopWorkers, Pause, EmergencyStop, Terminate, Quit, Crash, BeginRun, tracker, vars

(***************************************************************************)
(* Who works on a unit, and on which                                       *)
(***************************************************************************)

\* The steps that let a flow be where the Integration worktree or a resolver is
\* concerned.
LEMMA WhoMoves ==
  ASSUME TypeInv, [PipelineNext]_vars, NEW f \in Flows,
         flow'[f].at \in InUnit \cup {"resolve", "resolver"}
  PROVE  \/ flow'[f] = flow[f]
         \/ f = 0 /\ (Dispose \/ RetryIntegration \/ LoadUnit \/ MergeUnit \/ RegisterResolver)
         \/ Unit(f)
         \/ \E u \in Units : f = u[1] /\ SettleResolver(u)
<1>0. /\ flow \in [Flows -> Flow] /\ DOMAIN flow = Flows /\ 0 \in Flows
      /\ Idle \in Flow /\ Idle.at = "idle"
  BY IdleType DEF TypeInv, FlowType, Flows
<1>1. CASE flow' = flow
  BY <1>1
<1>2. ASSUME NEW g \in Flows, NEW x \in Flow, flow' = [flow EXCEPT ![g] = x],
             x.at \notin InUnit \cup {"resolve", "resolver"}
      PROVE  flow'[f] = flow[f]
  BY <1>0, <1>2
<1>3. ASSUME NEW at \in {"plan", "ci", "repush", "reopen", "close disposition",
                         "leave-open disposition", "workspace"}, NEW u \in Units, Enter(0, at, u)
      PROVE  flow'[f] = flow[f]
  <2> DEFINE x == [Idle EXCEPT !.at = at, !.unit = u]
  <2>1. x \in Flow /\ x.at = at
    BY IdleType DEF Flow, MaybeUnit, Idle, Places
  <2>2. flow' = [flow EXCEPT ![0] = x]
    BY <1>3 DEF Enter
  <2> HIDE DEF x
  <2> QED BY <1>0, <1>2, <2>1, <2>2 DEF InUnit
<1>4. ASSUME NEW at \in {"register", "launch", "ci", "plan"}, Go(0, at) PROVE flow'[f] = flow[f]
  <2>1. PICK y \in Flow : y = flow[0]
    BY <1>0
  <2> DEFINE x == [y EXCEPT !.at = at]
  <2>2. x \in Flow /\ x.at = at
    BY DEF Flow, Places
  <2>3. flow' = [flow EXCEPT ![0] = x]
    BY <1>0, <1>4, <2>1 DEF Go
  <2> HIDE DEF x
  <2> QED BY <1>0, <1>2, <2>2, <2>3 DEF InUnit
<1>5. ASSUME NEW g \in Flows, flow' = [flow EXCEPT ![g] = Idle] PROVE flow'[f] = flow[f]
  BY <1>0, <1>2, <1>5 DEF InUnit
<1>6. ASSUME NEW t \in Tickets, Advance(t) \/ ChooseRework(t) PROVE flow'[f] = flow[f]
  <2>1. CASE RecoverPending(t)
    BY <1>1, <2>1 DEF RecoverPending, control
  <2>2. ASSUME NEW at \in {"plan", "ci", "repush", "reopen"}, Choose(at, t) PROVE flow'[f] = flow[f]
    <3> DEFINE u == <<t, IF integrated[t] = 0 THEN 1 ELSE integrated[t]>>
    <3>1. u \in Units
      BY UnitFacts, MaxAttemptFacts DEF TypeInv, TrackerType, Attempt
    <3> QED BY <1>3, <2>2, <3>1 DEF Choose
  <2> QED BY <1>6, <2>1, <2>2
          DEF Advance, ChooseImplement, ChooseCheckCi, ChooseRetryCi, ChooseRework
<1>7. ASSUME NEW d \in {"close disposition", "leave-open disposition"}, ChooseDisposition(d)
      PROVE  flow'[f] = flow[f]
  <2>1. disposition \in Units /\ Enter(0, d, disposition)
    BY <1>7 DEF ChooseDisposition, TypeInv, PendingType, MaybeUnit
  <2> QED BY <1>3, <2>1
<1>8. CASE \/ PlanImplementation \/ CreateWorkspace \/ RegisterWorker \/ LaunchWorker
           \/ LaunchResolver \/ RePush
  BY <1>0, <1>3, <1>4, <1>5, <1>8
  DEF PlanImplementation, CreateWorkspace, RegisterWorker, LaunchWorker, LaunchResolver, RePush,
      Return
<1>9. CASE ReopenTicket
  <2>1. PICK y \in Flow, m \in [Tickets -> Attempt] : y = flow[0] /\ m = integrated
    BY <1>0 DEF TypeInv, TrackerType
  <2> DEFINE x == [y EXCEPT !.at = "unrecord", !.saw = m]
  <2>2. x \in Flow /\ x.at = "unrecord"
    BY DEF Flow, Places
  <2>3. flow' = [flow EXCEPT ![0] = x] \/ flow' = [flow EXCEPT ![0] = Idle]
    BY <1>0, <1>9, <2>1 DEF ReopenTicket, Return
  <2> HIDE DEF x
  <2> QED BY <1>0, <1>2, <1>5, <2>2, <2>3 DEF InUnit
<1>10. CASE UnrecordTicket
  BY <1>0, <1>4, <1>5, <1>10 DEF UnrecordTicket, Return
<1>11. ASSUME f # 0, Dispose \/ RetryIntegration \/ LoadUnit \/ MergeUnit \/ RegisterResolver
       PROVE  flow'[f] = flow[f]
  BY <1>0, <1>11 DEF Dispose, RetryIntegration, LoadUnit, MergeUnit, RegisterResolver, RunUnit,
                     Enter, Go, FailUnit, Return
<1>12. ASSUME NEW g \in Flows, g # f, Unit(g) PROVE flow'[f] = flow[f]
  BY <1>0, <1>12 DEF Unit, GateUnit, VerifyUnit, PushUnit, WriteManifest, RecordUnit, CheckCi,
                     CloseTicket, FailUnit, Go, Return
<1>13. ASSUME NEW u \in Units, f # u[1], SettleResolver(u) PROVE flow'[f] = flow[f]
  BY <1>0, <1>13 DEF SettleResolver, Finish
<1>14. CASE SessionEnds
  BY <1>0, <1>14 DEF SessionEnds, InUnit, Flows
<1>15. CASE Loop
  BY <1>8, <1>9, <1>10, <1>11, <1>15 DEF Loop
<1>16. ASSUME NEW w \in Workers,
              \/ Event(w) \/ LoseEvent(w) \/ SynthesizeExit(w)
              \/ \E outcome \in {"completed", "failed"} : Report(w, outcome)
              \/ \E code \in {"clean", "bad"} : Exit(w, code),
              ~SettleResolver(w[2])
       PROVE  flow'[f] = flow[f]
  BY <1>1, <1>16 DEF Event, ReceiveEvent, SettleResult, SettleExit, LoseEvent, SynthesizeExit,
                     Report, Exit, control
<1>17. CASE \E w \in Workers : SettleResolver(w[2])
  BY <1>13, <1>17, UnitFacts
<1>18. CASE \/ ReconcileBlocked \/ (\E kind \in Stops : BeginStop(kind)) \/ Stop \/ Crash
            \/ BeginRun \/ LeaveOpenCi \/ UNCHANGED vars
  BY <1>1, <1>14, <1>18 DEF ReconcileBlocked, BeginStop, Stop, StopWorkers, Pause, EmergencyStop,
              Terminate, Quit, Crash, BeginRun, LeaveOpenCi, vars, control
<1> QED BY <1>0, <1>6, <1>7, <1>11, <1>12, <1>15, <1>16, <1>17, <1>18 DEF PipelineNext

\* A step that makes another integration pending.
LEMMA WhoIntegrates ==
  ASSUME [PipelineNext]_vars, integration' # integration
  PROVE  \/ (\E t \in Tickets : RecoverPending(t))
         \/ Dispose \/ LoadUnit \/ MergeUnit \/ PlanImplementation
         \/ (\E f \in DOMAIN flow : WriteManifest(f))
         \/ (\E w \in Workers : w[1] = "resolve" /\ SettleResolver(w[2]))
         \/ SessionEnds \/ Terminate
BY DEF PipelineNext, Advance, ChooseRework, ChooseImplement, ChooseCheckCi,
       ChooseRetryCi, Choose, ChooseDisposition, RetryIntegration, LeaveOpenCi, Loop,
       RegisterResolver, LaunchResolver, CreateWorkspace,
       RegisterWorker, LaunchWorker, RePush, ReopenTicket, UnrecordTicket, Unit, GateUnit,
       VerifyUnit, PushUnit,
       RecordUnit, CheckCi, CloseTicket, Event, ReceiveEvent, SettleResult,
       SettleExit, LoseEvent, SynthesizeExit, Report, Exit, ReconcileBlocked, BeginStop, Stop,
       StopWorkers, Pause, EmergencyStop, Quit, Crash, BeginRun, pending, vars

(***************************************************************************)
(* A recorded integration is not integrated again                          *)
(***************************************************************************)

\* The ticket of a unit under way, or in conflict, or with a resolver, is not
\* recorded as integrated.
AfterLoad == InUnit \ {"load"}
FreshInv ==
  /\ \A f \in Flows : flow[f].at \in AfterLoad => integrated[flow[f].unit[1]] = 0
  /\ integration.conflict => integrated[integration.unit[1]] = 0
  /\ \A u \in Units : (resolver = u \/ Calls(u)) /\ integration.unit = u => integrated[u[1]] = 0

LEMMA InitFresh == PipelineInit => FreshInv
<1> SUFFICES ASSUME PipelineInit PROVE FreshInv
  OBVIOUS
<1>1. \A f \in Flows : flow[f].at = "idle"
  BY DEF PipelineInit, Flows, Idle
<1>2. ~integration.conflict /\ integration.unit = NoUnit
  BY DEF PipelineInit, NoIntegration
<1> QED BY <1>1, <1>2, UnitFacts DEF FreshInv, AfterLoad, InUnit

LEMMA WhoRegisters ==
  ASSUME [PipelineNext]_vars, resolver' \notin {NoUnit, resolver}
  PROVE  RegisterResolver
BY DEF PipelineNext, Advance, ChooseRework, RecoverPending, ChooseImplement, ChooseCheckCi,
       ChooseRetryCi, Choose, ChooseDisposition, RetryIntegration, LeaveOpenCi, Loop, Dispose,
       LoadUnit, MergeUnit, LaunchResolver, PlanImplementation, CreateWorkspace,
       RegisterWorker, LaunchWorker, RePush, ReopenTicket, UnrecordTicket, Unit, GateUnit,
       VerifyUnit, PushUnit, WriteManifest,
       RecordUnit, CheckCi, CloseTicket, Event, ReceiveEvent, SettleResolver, SettleResult,
       SettleExit, LoseEvent, SynthesizeExit, Report, Exit, ReconcileBlocked, BeginStop, Stop,
       StopWorkers, Pause, EmergencyStop, Terminate, Quit, Crash, SessionEnds, BeginRun, pending, vars

LEMMA GoesTo ==
  ASSUME TypeInv, NEW f \in Flows, NEW at, Go(f, at)
  PROVE  flow'[f].at = at /\ flow'[f].unit = flow[f].unit
<1>1. flow \in [Flows -> Flow]
  BY DEF TypeInv, FlowType
<1> QED BY <1>1 DEF Go, Flow

LEMMA RunUnitGoes ==
  ASSUME TypeInv, NEW u \in Units, NEW c \in BOOLEAN, RunUnit(u, c)
  PROVE  \/ flow'[0] = Idle
         \/ flow'[0].at = "resolve" /\ flow'[0].unit = u /\ c
         \/ flow'[0].at = "load" /\ flow'[0].unit = u /\ ~c /\ resolver = NoUnit
<1> DEFINE x == [Idle EXCEPT !.at = "load", !.unit = u, !.own = TRUE]
           y == [Idle EXCEPT !.at = "resolve", !.unit = u]
<1>1. flow \in [Flows -> Flow] /\ 0 \in Flows
  BY DEF TypeInv, FlowType, Flows
<1>2. x.at = "load" /\ x.unit = u /\ y.at = "resolve" /\ y.unit = u
  BY DEF Idle
<1>3. \/ flow' = [flow EXCEPT ![0] = Idle]
      \/ flow' = [flow EXCEPT ![0] = y] /\ c
      \/ flow' = [flow EXCEPT ![0] = x] /\ ~c /\ resolver = NoUnit
  BY DEF RunUnit, Enter
<1> HIDE DEF x, y
<1> QED BY <1>1, <1>2, <1>3

LEMMA WhoMergesFresh ==
  ASSUME TypeInv, TreeInv, FreshInv, MergeUnit
  PROVE  integrated[flow[0].unit[1]] = 0 /\ integration.unit = flow[0].unit
BY DEF MergeUnit, FreshInv, TreeInv, OwnInv, AfterLoad, InUnit, Flows

\* A resolver whose event finishes a unit is registered, or its conflict waits.
LEMMA WhoFinishesFresh ==
  ASSUME TypeInv, TreeInv, FreshInv, NEW u \in Units, SettleResolver(u), integration.unit = u
  PROVE  integrated[u[1]] = 0
<1>1. Resolve(u) \in heard
  BY DEF SettleResolver, Resolve
<1>2. resolver = u \/ integration.conflict
  BY <1>1 DEF TreeInv, ResolverInv, Held
<1> QED BY <1>2 DEF FreshInv

\* The pending integration that has a conflict, or a resolver, is fresh as long
\* as no step writes the manifest.
LEMMA FlowsFresh ==
  ASSUME TypeInv, TreeInv, FreshInv, [PipelineNext]_vars, NEW f \in Flows,
         flow'[f].at \in AfterLoad
  PROVE  integrated[flow'[f].unit[1]] = 0
<1>0. /\ flow \in [Flows -> Flow] /\ 0 \in Flows /\ Idle.at = "idle"
      /\ flow'[f].at \in InUnit \cup {"resolve", "resolver"}
  BY IdleType DEF TypeInv, FlowType, Flows, AfterLoad
<1>1. CASE flow'[f] = flow[f]
  BY <1>1 DEF FreshInv
<1>2. CASE f = 0 /\ (Dispose \/ RetryIntegration)
  <2>1. flow'[0] = Idle \/ \E u \in Units, c \in BOOLEAN : RunUnit(u, c)
    <3>1. CASE RetryIntegration
      <4>1. integration.unit \in Units /\ integration.conflict \in BOOLEAN
        BY <3>1 DEF RetryIntegration, TypeInv, PendingType
      <4> QED BY <3>1, <4>1 DEF RetryIntegration
    <3>2. CASE Dispose
      <4>1. flow[0].unit \in Units
        BY <1>0, <3>2 DEF Dispose, TypeInv, FlowType
      <4> QED BY <1>0, <3>2, <4>1 DEF Dispose
    <3> QED BY <1>2, <3>1, <3>2
  <2>2. flow'[0].at \in {"idle", "resolve", "load"}
    BY <1>0, <2>1, RunUnitGoes
  <2> QED BY <1>2, <2>2 DEF AfterLoad, InUnit
<1>3. CASE f = 0 /\ LoadUnit
  <2>1. CASE Go(0, "merge") /\ integrated[flow[0].unit[1]] = 0
    BY <1>0, <1>3, <2>1 DEF Go
  <2>2. CASE flow'[0] = Idle
    BY <1>0, <1>3, <2>2 DEF AfterLoad, InUnit
  <2> QED BY <1>0, <1>3, <2>1, <2>2 DEF LoadUnit, FailUnit, Return
<1>4. CASE f = 0 /\ MergeUnit
  <2>1. integrated[flow[0].unit[1]] = 0
    BY <1>4, WhoMergesFresh
  <2>2. CASE Go(0, "gate")
    BY <1>0, <1>4, <2>1, <2>2 DEF Go
  <2>3. CASE flow'[0].at \in {"idle", "resolve"}
    BY <1>0, <1>4, <2>3 DEF AfterLoad, InUnit
  <2>4. [Idle EXCEPT !.at = "resolve", !.unit = flow[0].unit].at = "resolve"
    BY DEF Idle
  <2> QED BY <1>0, <1>4, <2>2, <2>3, <2>4 DEF MergeUnit, FailUnit, Return, Enter
<1>5. CASE f = 0 /\ RegisterResolver
  <2>1. Go(0, "resolver") \/ flow'[0] = Idle
    BY <1>0, <1>5 DEF RegisterResolver, Return
  <2> QED BY <1>0, <1>5, <2>1, GoesTo DEF AfterLoad, InUnit
<1>6. CASE Unit(f)
  <2>1. PICK y \in Flow : y = flow[f]
    BY <1>0
  <2>2. [y EXCEPT !.at = "verify", !.saw = integrated].unit = y.unit
    BY <2>1 DEF Flow
  <2>3. \/ flow'[f] = Idle
        \/ flow[f].at \in AfterLoad /\ flow'[f].unit = flow[f].unit
        \/ flow[f].at \notin AfterLoad /\ (Go(f, "close") \/ Go(f, "ci"))
    <3>1. CASE GateUnit(f)
      BY <1>0, <2>1, <2>2, <3>1 DEF GateUnit, FailUnit, Return, AfterLoad, InUnit
    <3>2. CASE VerifyUnit(f) \/ PushUnit(f) \/ WriteManifest(f)
      BY <1>0, <3>2, GoesTo DEF VerifyUnit, PushUnit, WriteManifest, FailUnit, Return, AfterLoad,
                                InUnit
    <3>3. CASE RecordUnit(f) \/ CheckCi(f) \/ CloseTicket(f)
      BY <1>0, <3>3 DEF RecordUnit, CheckCi, CloseTicket, Return, AfterLoad, InUnit
    <3> QED BY <1>6, <3>1, <3>2, <3>3 DEF Unit
  <2>4. "close" \notin AfterLoad /\ "ci" \notin AfterLoad /\ "idle" \notin AfterLoad
    BY DEF AfterLoad, InUnit
  <2> QED BY <1>0, <2>3, <2>4, GoesTo DEF FreshInv
<1>7. ASSUME NEW u \in Units, f = u[1], SettleResolver(u), flow'[f] # flow[f]
      PROVE  integrated[flow'[f].unit[1]] = 0
  <2>1. integration.unit = u /\ Finish(u)
    BY <1>7 DEF SettleResolver
  <2>2. [Idle EXCEPT !.at = "gate", !.unit = u, !.own = TRUE].unit = u
    BY DEF Idle
  <2>3. flow'[f].unit = u
    BY <1>0, <1>7, <2>1, <2>2 DEF Finish
  <2> QED BY <1>7, <2>1, <2>3, WhoFinishesFresh
<1> QED BY <1>0, <1>1, <1>2, <1>3, <1>4, <1>5, <1>6, <1>7, WhoMoves

LEMMA ConflictsFresh ==
  ASSUME TypeInv, TreeInv, FreshInv, [PipelineNext]_vars, integration'.conflict
  PROVE  integrated[integration'.unit[1]] = 0
<1>0. NoIntegration.conflict = FALSE
  BY DEF NoIntegration
<1>1. CASE integration' = integration
  BY <1>1 DEF FreshInv
<1>2. ASSUME NEW t \in Tickets, RecoverPending(t) PROVE integrated[integration'.unit[1]] = 0
  <2>1. integrated[t] = 0 /\ Latest(t)[1] = t
    BY <1>2 DEF RecoverPending, FirstRecoverable, Recoverable, Latest
  <2>2. integration' = integration \/ integration'.unit = Latest(t)
    BY <1>2 DEF RecoverPending
  <2> QED BY <1>1, <2>1, <2>2
<1>3. CASE Dispose
  <2>1. flow[0].at \in {"close disposition", "leave-open disposition"}
    BY <1>3 DEF Dispose
  <2>2. integration' = integration \/ integration' = [unit |-> flow[0].unit, conflict |-> FALSE]
    BY <1>3, <2>1 DEF Dispose
  <2> QED BY <1>1, <2>2
<1>4. CASE LoadUnit
  BY <1>0, <1>1, <1>4 DEF LoadUnit
<1>5. CASE MergeUnit
  <2>1. integration' = integration \/ integration'.unit = flow[0].unit
    BY <1>5 DEF MergeUnit
  <2> QED BY <1>1, <1>5, <2>1, WhoMergesFresh
<1>6. CASE PlanImplementation
  <2>1. integration' = integration \/ ~integration'.conflict
    BY <1>6 DEF PlanImplementation
  <2> QED BY <1>1, <2>1
<1>7. ASSUME NEW f \in DOMAIN flow, WriteManifest(f) PROVE integrated[integration'.unit[1]] = 0
  BY <1>0, <1>1, <1>7 DEF WriteManifest
<1>8. ASSUME NEW w \in Workers, SettleResolver(w[2]) PROVE integrated[integration'.unit[1]] = 0
  <2>1. [integration EXCEPT !.conflict = FALSE].conflict = FALSE
    BY DEF TypeInv, PendingType, NoIntegration
  <2> QED BY <1>1, <1>8, <2>1 DEF SettleResolver
<1>9. CASE SessionEnds \/ Terminate
  BY <1>0, <1>1, <1>9 DEF SessionEnds, Terminate
<1> QED BY <1>1, <1>2, <1>3, <1>4, <1>5, <1>6, <1>7, <1>8, <1>9, WhoIntegrates

LEMMA DisposeGoes == ASSUME TypeInv, Dispose PROVE flow'[0].at \in {"idle", "load"}
<1>1. flow[0].unit \in Units /\ flow \in [Flows -> Flow] /\ 0 \in Flows /\ Idle.at = "idle"
  BY IdleType DEF Dispose, TypeInv, FlowType, Flows
<1>2. flow' = [flow EXCEPT ![0] = Idle] \/ RunUnit(flow[0].unit, FALSE)
  BY DEF Dispose
<1> QED BY <1>1, <1>2, RunUnitGoes

\* The loop calls a resolver for a merge that failed just now, or for a conflict
\* that waited.
LEMMA WhoCalls ==
  ASSUME TypeInv, [PipelineNext]_vars, NEW u \in Units, Calls(u)'
  PROVE  \/ Calls(u)
         \/ RetryIntegration /\ integration.conflict /\ integration.unit = u
         \/ MergeUnit /\ flow[0].unit = u
<1>0. /\ flow \in [Flows -> Flow] /\ 0 \in Flows /\ Idle.at = "idle"
      /\ flow'[0].at \in {"resolve", "resolver"} /\ flow'[0].unit = u
  BY IdleType DEF TypeInv, FlowType, Flows, Calls
<1>1. CASE flow'[0] = flow[0]
  BY <1>0, <1>1 DEF Calls
<1>2. CASE Dispose
  BY <1>0, <1>2, DisposeGoes
<1>3. CASE RetryIntegration
  <2>1. integration.unit \in Units /\ integration.conflict \in BOOLEAN
    BY <1>3 DEF RetryIntegration, TypeInv, PendingType
  <2>2. RunUnit(integration.unit, integration.conflict)
    BY <1>3 DEF RetryIntegration
  <2> QED BY <1>0, <1>3, <2>1, <2>2, RunUnitGoes
<1>4. CASE LoadUnit
  <2>1. Go(0, "merge") \/ flow'[0] = Idle
    BY <1>0, <1>4 DEF LoadUnit, FailUnit, Return
  <2> QED BY <1>0, <2>1, GoesTo
<1>5. CASE MergeUnit
  <2> DEFINE y == [Idle EXCEPT !.at = "resolve", !.unit = flow[0].unit]
  <2>1. y.unit = flow[0].unit
    BY DEF Idle
  <2>2. Go(0, "gate") \/ flow'[0] = Idle \/ flow'[0] = y
    BY <1>0, <1>5 DEF MergeUnit, FailUnit, Return, Enter
  <2> HIDE DEF y
  <2> QED BY <1>0, <1>5, <2>1, <2>2, GoesTo
<1>6. CASE RegisterResolver
  <2>1. flow[0].at = "resolve" /\ (Go(0, "resolver") \/ flow'[0] = Idle)
    BY <1>0, <1>6 DEF RegisterResolver, Return
  <2> QED BY <1>0, <2>1, GoesTo DEF Calls
<1>7. CASE Unit(0)
  <2>1. PICK y \in Flow : y = flow[0]
    BY <1>0
  <2>2. [y EXCEPT !.at = "verify", !.saw = integrated].at = "verify"
    BY DEF Flow
  <2>3. \/ flow'[0] = Idle \/ flow'[0].at = "verify"
        \/ \E at \in {"push", "manifest", "record", "ci", "close"} : Go(0, at)
    BY <1>0, <1>7, <2>1, <2>2 DEF Unit, GateUnit, VerifyUnit, PushUnit, WriteManifest, RecordUnit,
                   CheckCi, CloseTicket, FailUnit, Return
  <2> QED BY <1>0, <2>3, GoesTo
<1> QED BY <1>0, <1>1, <1>2, <1>3, <1>4, <1>5, <1>6, <1>7, WhoMoves, UnitFacts

LEMMA ResolversFresh ==
  ASSUME TypeInv, TreeInv, FreshInv, [PipelineNext]_vars,
         NEW u \in Units, (resolver = u \/ Calls(u))', integration'.unit = u
  PROVE  integrated[u[1]] = 0
<1>0. NoIntegration.unit = NoUnit /\ NoUnit \notin Units
  BY UnitFacts DEF NoIntegration
<1>1. CASE integration.unit = u
  <2>1. CASE resolver' = u
    <3>1. resolver = u \/ RegisterResolver
      BY <1>0, <2>1, WhoRegisters
    <3>2. RegisterResolver => resolver = u \/ Calls(u)
      BY <2>1 DEF RegisterResolver, Calls
    <3> QED BY <1>1, <3>1, <3>2 DEF FreshInv
  <2>2. CASE Calls(u)'
    BY <1>1, <2>2, WhoCalls, WhoMergesFresh DEF FreshInv
  <2> QED BY <2>1, <2>2
<1>2. CASE integration.unit # u
  <2>1. integration' # integration
    BY <1>2
  <2>2. ASSUME NEW t \in Tickets, RecoverPending(t) PROVE integrated[u[1]] = 0
    BY <2>1, <2>2 DEF RecoverPending, FirstRecoverable, Recoverable, Latest
  <2>3. CASE Dispose
    <3>1. flow[0].at \notin {"resolver", "idle"} /\ resolver' = resolver
      BY <2>3 DEF Dispose
    <3>2. resolver' = NoUnit
      BY <3>1 DEF TreeInv, LoopInv
    <3>3. ~Calls(u)'
      BY <2>3, DisposeGoes DEF Calls
    <3> QED BY <1>0, <3>2, <3>3
  <2>4. CASE LoadUnit
    BY <1>0, <2>1, <2>4 DEF LoadUnit
  <2>5. CASE MergeUnit
    <3>1. integration' = integration \/ integration'.unit = flow[0].unit
      BY <2>5 DEF MergeUnit
    <3> QED BY <2>1, <2>5, <3>1, WhoMergesFresh
  <2>6. CASE PlanImplementation
    <3> DEFINE t == flow[0].unit[1]
    <3>1. integration' = [unit |-> Plan(t).unit, conflict |-> FALSE] /\ Plan(t).kind = "retry"
          /\ ~NotImplementable(t)
      BY <2>1, <2>6 DEF PlanImplementation
    <3>2. integrated[t] = 0
      BY <3>1 DEF NotImplementable, Ready
    <3>3. Plan(t).unit[1] = t
      BY DEF Plan, Latest
    <3> QED BY <3>1, <3>2, <3>3
  <2>7. ASSUME NEW f \in DOMAIN flow, WriteManifest(f) PROVE integrated[u[1]] = 0
    BY <1>0, <2>1, <2>7 DEF WriteManifest
  <2>8. ASSUME NEW w \in Workers, SettleResolver(w[2]) PROVE integrated[u[1]] = 0
    <3>1. [integration EXCEPT !.conflict = FALSE].unit = integration.unit
      BY DEF TypeInv, PendingType, NoIntegration
    <3> QED BY <1>2, <2>8, <3>1 DEF SettleResolver
  <2>9. CASE SessionEnds \/ Terminate
    BY <1>0, <2>1, <2>9 DEF SessionEnds, Terminate
  <2> QED BY <2>1, <2>2, <2>3, <2>4, <2>5, <2>6, <2>7, <2>8, <2>9, WhoIntegrates
<1> QED BY <1>1, <1>2

LEMMA UnrecordWrites ==
  ASSUME TypeInv, SawInv, UnrecordTicket, integrated' # integrated
  PROVE  /\ flow[0].at = "unrecord"
         /\ integrated' = [integrated EXCEPT ![flow[0].unit[1]] = 0]
BY DEF UnrecordTicket, SawInv

LEMMA UnitWrites ==
  ASSUME TypeInv, SawInv, NEW f \in Flows, WriteManifest(f), integrated' # integrated
  PROVE  /\ flow[f].at = "manifest" /\ integration' = NoIntegration /\ Go(f, "record")
         /\ integrated' = [integrated EXCEPT ![flow[f].unit[1]] = flow[f].unit[2]]
BY DEF WriteManifest, Recorded, SawInv, AfterRead

LEMMA FreshHolds ==
  TypeInv /\ TreeInv /\ SawInv /\ FreshInv /\ [PipelineNext]_vars => FreshInv'
<1> SUFFICES ASSUME TypeInv, TreeInv, SawInv, FreshInv, [PipelineNext]_vars PROVE FreshInv'
  OBVIOUS
<1>0. integrated \in [Tickets -> Attempt] /\ DOMAIN flow = Flows /\ flow \in [Flows -> Flow]
  BY DEF TypeInv, TrackerType, FlowType
<1>1. CASE \A t : integrated[t] = 0 => integrated'[t] = 0
  BY <1>1, FlowsFresh, ConflictsFresh, ResolversFresh DEF FreshInv
<1>2. CASE integrated' = integrated
  BY <1>1, <1>2
<1>3. CASE UnrecordTicket /\ integrated' # integrated
  <2>1. integrated' = [integrated EXCEPT ![flow[0].unit[1]] = 0]
    BY <1>3, UnrecordWrites
  <2>2. \A t \in Tickets : integrated[t] = 0 => integrated'[t] = 0
    BY <1>0, <2>1
  <2>3. \A t : t \notin Tickets => integrated'[t] = integrated[t]
    BY <1>0, <2>1
  <2> QED BY <1>1, <2>2, <2>3
<1>4. ASSUME NEW f \in Flows, WriteManifest(f), integrated' # integrated PROVE FreshInv'
  <2>1. flow[f].at = "manifest" /\ integration' = NoIntegration /\ Go(f, "record")
    BY <1>4, UnitWrites
  <2>2. ASSUME NEW g \in Flows, flow'[g].at \in AfterLoad PROVE FALSE
    <3>1. CASE g = f
      BY <2>1, <2>2, <3>1, GoesTo DEF AfterLoad, InUnit
    <3>2. CASE g # f
      <4>1. flow'[g] = flow[g]
        BY <1>0, <2>1, <3>2 DEF Go
      <4>2. flow[g].own /\ flow[f].own
        BY <2>1, <2>2, <4>1 DEF TreeInv, OwnInv, AfterLoad, InUnit
      <4> QED BY <3>2, <4>2 DEF TreeInv, OwnInv
    <3> QED BY <3>1, <3>2
  <2>3. ~integration'.conflict /\ integration'.unit = NoUnit
    BY <2>1 DEF NoIntegration
  <2> QED BY <2>2, <2>3, UnitFacts DEF FreshInv
<1> QED BY <1>0, <1>2, <1>3, <1>4, WhoWrites

Kept ==
  \A t \in Tickets : integrated[t] # 0 =>
    \/ integrated'[t] = integrated[t]
    \/ flow[0].at = "unrecord" /\ flow[0].unit[1] = t

LEMMA RecordsKept == TypeInv /\ SawInv /\ FreshInv /\ [PipelineNext]_vars => Kept
<1> SUFFICES ASSUME TypeInv, SawInv, FreshInv, [PipelineNext]_vars, NEW t \in Tickets,
                    integrated[t] # 0, integrated'[t] # integrated[t]
             PROVE  flow[0].at = "unrecord" /\ flow[0].unit[1] = t
  BY DEF Kept
<1>0. integrated \in [Tickets -> Attempt] /\ DOMAIN flow = Flows
  BY DEF TypeInv, TrackerType, FlowType
<1>1. CASE UnrecordTicket
  BY <1>0, <1>1, UnrecordWrites
<1>2. ASSUME NEW f \in Flows, WriteManifest(f) PROVE FALSE
  <2>1. flow[f].at = "manifest"
        /\ integrated' = [integrated EXCEPT ![flow[f].unit[1]] = flow[f].unit[2]]
    BY <1>2, UnitWrites
  <2>2. flow[f].unit[1] = t
    BY <1>0, <2>1
  <2> QED BY <2>1, <2>2 DEF FreshInv, AfterLoad, InUnit
<1> QED BY <1>0, <1>1, <1>2, WhoWrites

\* The property IntegratedIsNeverLost, when termination discards between flows and
\* events and no stop overtakes an event that is being handled: no rewriting of the
\* manifest from an old copy, no retry, no recovery from transcripts and no resolver
\* that reports late takes a recorded integration away, or records another attempt
\* in its place, except the rework of the ticket itself.
THEOREM IntegrationsAreKept ==
  ASSUME DiscardWaits, EventsAreShort
  PROVE  PipelineSpec => IntegratedIsNeverLost
<1>1. PipelineInit => TypeInv /\ TreeInv /\ SawInv /\ FreshInv
  BY InitTypes, InitTree, InitSaw, InitFresh
<1>2. TypeInv /\ TreeInv /\ SawInv /\ FreshInv /\ [PipelineNext]_vars
      => (TypeInv /\ TreeInv /\ SawInv /\ FreshInv)'
  BY TypesHold, TreeHolds, SawHolds, FreshHolds
<1>3. TypeInv /\ TreeInv /\ SawInv /\ FreshInv /\ [PipelineNext]_vars => [Kept]_vars
  BY RecordsKept
<1>4. PipelineSpec => [][Kept]_vars
  BY <1>1, <1>2, <1>3, PTL DEF PipelineSpec
<1> QED BY <1>4 DEF IntegratedIsNeverLost, Kept

(***************************************************************************)
(* What is recorded was pushed                                             *)
(***************************************************************************)

\* A termination that discards empties the Integration branch (Terminate), and
\* leaves the transcripts: the first attempt made after it has the number, and so
\* the history, of one that was thrown away.
NoDiscard == "terminate" \notin Stops

\* The merge of u was begun, and is still there or has been committed.
Tried(u) == u = unfinished \/ u \in local
OnRemote(t) == \E u \in remote : u[1] = t

\* A flow's unit is where its place says, and so is what it read.
FlowTrue(x) ==
  /\ x.at \in {"resolve", "resolver"} => Tried(x.unit)
  /\ x.at \in {"gate", "verify", "push"} => x.unit \in local
  /\ x.at = "manifest" => x.unit \in remote
  /\ x.at \in {"record", "ci", "repush", "close"} => OnRemote(x.unit[1])
  /\ \A t \in Tickets : x.saw[t] # 0 => <<t, x.saw[t]>> \in remote
FlowsInv == \A f \in Flows : FlowTrue(flow[f])

\* A Conflict resolution worker has said that it committed the merge.
Resolved(u) == \E i \in 1..Len(mail[Resolve(u)]) : mail[Resolve(u)][i] = "completed"
Resolving(u) == process[Resolve(u)] \in {"alive", "dying"}

\* A conflict anybody knows of is one of a merge that was begun.
ConflictInv ==
  /\ integration.conflict => Tried(integration.unit)
  /\ \A u \in Units : /\ history[u].conflict \/ Resolving(u) => Tried(u)
                      /\ Resolved(u) => u \in local

\* What the tracker says is on the remote.
RecordInv ==
  /\ \A t \in Tickets : integrated[t] # 0 => <<t, integrated[t]>> \in remote
  /\ \A t \in closed : OnRemote(t)
  /\ recovery # 0 => OnRemote(recovery)

PushedInv == ~stop.discard /\ FlowsInv /\ ConflictInv /\ RecordInv

LEMMA InitPushed == PipelineInit => PushedInv
<1> SUFFICES ASSUME PipelineInit PROVE PushedInv
  OBVIOUS
<1>1. \A f \in Flows : flow[f] = Idle
  BY DEF PipelineInit, Flows
<1>2. Idle.at = "idle" /\ Idle.saw = Nothing
  BY DEF Idle
<1>3. FlowsInv
  BY <1>1, <1>2 DEF FlowsInv, FlowTrue, Nothing
<1>4. ConflictInv
  <2>1. ~integration.conflict
    BY DEF PipelineInit, NoIntegration
  <2>2. \A u \in Units : ~history[u].conflict
    BY DEF PipelineInit, NoHistory
  <2>3. \A u \in Units : process[Resolve(u)] = "none" /\ mail[Resolve(u)] = <<>>
    BY UnitFacts DEF PipelineInit, Resolve
  <2>4. \A u \in Units : ~Resolved(u)
    BY <2>3, EmptySeqLength DEF Resolved
  <2> QED BY <2>1, <2>2, <2>3, <2>4 DEF ConflictInv, Resolving
<1>5. RecordInv
  BY DEF PipelineInit, RecordInv, Nothing
<1>6. ~stop.discard
  BY DEF PipelineInit, NoStop
<1> QED BY <1>3, <1>4, <1>5, <1>6 DEF PushedInv

(***************************************************************************)
(* Who changes the git state, transcripts, children and records            *)
(***************************************************************************)

LEMMA WhoMerges ==
  ASSUME [PipelineNext]_vars
  PROVE  \/ UNCHANGED <<local, unfinished>>
         \/ MergeUnit \/ Terminate \/ \E w \in Workers : Report(w, "completed")
<1>1. CASE \E w \in Workers, outcome \in {"completed", "failed"} : Report(w, outcome)
  BY <1>1 DEF Report
<1>2. CASE ~\E w \in Workers, outcome \in {"completed", "failed"} : Report(w, outcome)
  BY <1>2
  DEF PipelineNext, Advance, ChooseRework, RecoverPending, ChooseImplement, ChooseCheckCi,
      ChooseRetryCi, Choose, ChooseDisposition, RetryIntegration, LeaveOpenCi, Loop, Dispose,
      LoadUnit, RegisterResolver, LaunchResolver, PlanImplementation, CreateWorkspace,
      RegisterWorker, LaunchWorker, RePush, ReopenTicket, UnrecordTicket, Unit, GateUnit,
      VerifyUnit, PushUnit, WriteManifest, RecordUnit, CheckCi, CloseTicket, Event, ReceiveEvent,
      SettleResolver, SettleResult, SettleExit, LoseEvent, SynthesizeExit, Exit,
      ReconcileBlocked, BeginStop, Stop, StopWorkers, Pause, EmergencyStop, Quit, Crash,
      BeginRun, git, vars
<1> QED BY <1>1, <1>2

LEMMA WhoPushes ==
  ASSUME [PipelineNext]_vars
  PROVE  UNCHANGED remote \/ RePush \/ \E f \in DOMAIN flow : PushUnit(f)
BY DEF PipelineNext, Advance, ChooseRework, RecoverPending, ChooseImplement, ChooseCheckCi,
      ChooseRetryCi, Choose, ChooseDisposition, RetryIntegration, LeaveOpenCi, Loop, Dispose,
      LoadUnit, MergeUnit, RegisterResolver, LaunchResolver, PlanImplementation, CreateWorkspace,
      RegisterWorker, LaunchWorker, ReopenTicket, UnrecordTicket, Unit, GateUnit,
      VerifyUnit, WriteManifest, RecordUnit, CheckCi, CloseTicket, Event, ReceiveEvent,
      SettleResolver, SettleResult, SettleExit, LoseEvent, SynthesizeExit, Report, Exit,
      ReconcileBlocked, BeginStop, Stop, StopWorkers, Pause, EmergencyStop, Terminate, Quit, Crash,
      BeginRun, git, vars

\* Nothing leaves the Integration branch or the remote, and no merge is forgotten.
Grows == /\ local \subseteq local' /\ remote \subseteq remote'
         /\ \A u \in Units : Tried(u) => Tried(u)'

LEMMA BranchesGrow == TypeInv /\ ~stop.discard /\ [PipelineNext]_vars => Grows
<1> SUFFICES ASSUME TypeInv, ~stop.discard, [PipelineNext]_vars PROVE Grows
  OBVIOUS
<1>1. remote \subseteq remote'
  BY WhoPushes DEF RePush, PushUnit, Pushable
<1>2. CASE UNCHANGED <<local, unfinished>>
  BY <1>1, <1>2 DEF Grows, Tried
<1>3. CASE MergeUnit
  BY <1>1, <1>3, UnitFacts DEF MergeUnit, Mergeable, Grows, Tried
<1>4. CASE Terminate
  BY <1>1, <1>4 DEF Terminate, Grows, Tried
<1>5. CASE \E w \in Workers : Report(w, "completed")
  BY <1>1, <1>5 DEF Report, Grows, Tried
<1> QED BY <1>2, <1>3, <1>4, <1>5, WhoMerges

LEMMA GrownTrue ==
  ASSUME Grows, NEW x \in Flow, x.unit \in Units \/ x.at = "idle", FlowTrue(x)
  PROVE  FlowTrue(x)'
<1>1. \A t : OnRemote(t) => OnRemote(t)'
  BY DEF Grows, OnRemote
<1> QED BY <1>1 DEF Grows, FlowTrue

LEMMA IdleTrue == FlowTrue(Idle)'
<1>1. Idle.at = "idle" /\ Idle.saw = Nothing
  BY DEF Idle
<1> QED BY <1>1 DEF FlowTrue, Nothing

\* A flow goes where what its place says is true, the others stay.
LEMMA FlowsMove ==
  ASSUME TypeInv, FlowsInv, Grows, NEW f \in Flows, NEW x \in Flow, FlowTrue(x)',
         flow' = [flow EXCEPT ![f] = x]
  PROVE  FlowsInv'
<1>1. flow \in [Flows -> Flow] /\ \A g \in Flows : flow[g].at # "idle" => flow[g].unit \in Units
  BY DEF TypeInv, FlowType
<1>2. \A y \in Flow : (y.unit \in Units \/ y.at = "idle") /\ FlowTrue(y) => FlowTrue(y)'
  BY GrownTrue
<1>3. ASSUME NEW g \in Flows PROVE FlowTrue(flow[g])'
  <2>1. CASE g = f
    <3>1. flow'[g] = x
      BY <1>1, <2>1
    <3> QED BY <3>1 DEF FlowTrue
  <2>2. CASE g # f
    <3>1. flow'[g] = flow[g] /\ flow[g] \in Flow /\ FlowTrue(flow[g])
      BY <1>1, <2>2 DEF FlowsInv
    <3>2. PICK y \in Flow : y = flow[g]
      BY <3>1
    <3>3. FlowTrue(y)
      BY <3>1, <3>2
    <3>4. FlowTrue(y)'
      BY <1>1, <1>2, <3>2, <3>3
    <3> QED BY <3>1, <3>2, <3>4 DEF FlowTrue
  <2> QED BY <2>1, <2>2
<1> QED BY <1>3 DEF FlowsInv

LEMMA FlowsStill == ASSUME TypeInv, FlowsInv, Grows, UNCHANGED flow PROVE FlowsInv'
<1>1. 0 \in Flows /\ flow \in [Flows -> Flow] /\ flow[0] \in Flow
  BY DEF TypeInv, FlowType, Flows
<1>2. PICK x \in Flow : x = flow[0]
  BY <1>1
<1>3. x.unit \in Units \/ x.at = "idle"
  BY <1>1, <1>2 DEF TypeInv, FlowType
<1>4. FlowTrue(x)'
  BY <1>1, <1>2, <1>3, GrownTrue DEF FlowsInv
<1>5. flow' = [flow EXCEPT ![0] = x]
  BY <1>1, <1>2
<1> QED BY <1>1, <1>4, <1>5, FlowsMove

LEMMA ReturnTrue ==
  ASSUME TypeInv, FlowsInv, Grows, NEW f \in Flows, flow' = [flow EXCEPT ![f] = Idle]
  PROVE  FlowsInv'
BY IdleTrue, IdleType, FlowsMove

\* A flow begins, with nothing read yet.
LEMMA BeginTrue ==
  ASSUME TypeInv, FlowsInv, Grows, NEW f \in Flows, NEW x \in Flow,
         flow' = [flow EXCEPT ![f] = x],
         x.at \in {"resolve", "resolver"} => Tried(x.unit)',
         x.at \in {"verify", "push", "gate"} => x.unit \in local',
         x.at # "manifest", x.saw = Nothing,
         x.at \in {"record", "ci", "repush", "close"} => OnRemote(x.unit[1])'
  PROVE  FlowsInv'
<1>1. FlowTrue(x)'
  BY DEF FlowTrue, Nothing
<1> QED BY <1>1, FlowsMove

LEMMA EnterTrue ==
  ASSUME TypeInv, FlowsInv, Grows, NEW u \in Units, NEW at \in Places, Enter(0, at, u),
         at \in {"resolve", "resolver"} => Tried(u)',
         at \notin {"gate", "verify", "push", "manifest", "record", "close"},
         at \in {"ci", "repush"} => OnRemote(u[1])'
  PROVE  FlowsInv'
<1> DEFINE x == [Idle EXCEPT !.at = at, !.unit = u]
<1>1. x \in Flow /\ x.at = at /\ x.unit = u /\ x.saw = Nothing
  BY IdleType DEF Flow, MaybeUnit, Idle
<1>2. flow' = [flow EXCEPT ![0] = x] /\ 0 \in Flows
  BY DEF Enter, Flows
<1> HIDE DEF x
<1> QED BY <1>1, <1>2, BeginTrue

LEMMA GoTrue ==
  ASSUME TypeInv, FlowsInv, Grows, NEW f \in Flows, NEW at \in Places, Go(f, at),
         at \in {"resolve", "resolver"} => Tried(flow[f].unit),
         at \in {"gate", "verify", "push"} => flow[f].unit \in local',
         at = "manifest" => flow[f].unit \in remote',
         at \in {"record", "ci", "repush", "close"} => \E u \in remote' : u[1] = flow[f].unit[1],
         flow[f].unit \in Units
  PROVE  FlowsInv'
<1>1. flow[f] \in Flow /\ flow \in [Flows -> Flow] /\ FlowTrue(flow[f])
  BY DEF TypeInv, FlowType, FlowsInv
<1>2. PICK y \in Flow : y = flow[f]
  BY <1>1
<1> DEFINE x == [y EXCEPT !.at = at]
<1>3. x \in Flow /\ x.at = at /\ x.unit = y.unit /\ x.saw = y.saw
  BY DEF Flow
<1>4. flow' = [flow EXCEPT ![f] = x]
  BY <1>1, <1>2 DEF Go
<1> HIDE DEF x
<1>5. \A t \in Tickets : x.saw[t] # 0 => <<t, x.saw[t]>> \in remote'
  BY <1>1, <1>2, <1>3 DEF FlowTrue, Grows
<1>6. x.at \in {"resolve", "resolver"} => Tried(x.unit)'
  BY <1>2, <1>3 DEF Grows
<1>7. x.at \in {"record", "ci", "repush", "close"} => OnRemote(x.unit[1])'
  BY <1>2, <1>3 DEF OnRemote
<1>8. FlowTrue(x)'
  BY <1>2, <1>3, <1>5, <1>6, <1>7 DEF FlowTrue
<1> QED BY <1>3, <1>4, <1>8, FlowsMove

\* The manifest is read.
LEMMA ReadTrue ==
  ASSUME TypeInv, FlowsInv, Grows, RecordInv, NEW f \in Flows, NEW at \in {"verify", "unrecord"},
         flow' = [flow EXCEPT ![f] = [@ EXCEPT !.at = at, !.saw = integrated]],
         at = "verify" => flow[f].unit \in local
  PROVE  FlowsInv'
<1>1. flow[f] \in Flow /\ flow \in [Flows -> Flow] /\ integrated \in [Tickets -> Attempt]
  BY DEF TypeInv, FlowType, TrackerType
<1>2. PICK y \in Flow, m \in [Tickets -> Attempt] : y = flow[f] /\ m = integrated
  BY <1>1
<1> DEFINE x == [y EXCEPT !.at = at, !.saw = m]
<1>3. x \in Flow /\ x.at = at /\ x.unit = y.unit /\ x.saw = m
  BY DEF Flow, Places
<1>4. flow' = [flow EXCEPT ![f] = x]
  BY <1>1, <1>2
<1> HIDE DEF x
<1>5. \A t \in Tickets : x.saw[t] # 0 => <<t, x.saw[t]>> \in remote'
  BY <1>2, <1>3 DEF RecordInv, Grows
<1>6. FlowTrue(x)'
  BY <1>2, <1>3, <1>5 DEF FlowTrue, Grows
<1> QED BY <1>3, <1>4, <1>6, FlowsMove

LEMMA AdvanceTrue ==
  ASSUME TypeInv, PushedInv, Grows, NEW t \in Tickets, Advance(t) \/ ChooseRework(t)
  PROVE  FlowsInv'
<1>1. CASE RecoverPending(t)
  BY <1>1, FlowsStill DEF RecoverPending, control, PushedInv
<1>2. ASSUME NEW at \in {"plan", "ci", "repush", "reopen"}, Choose(at, t),
             at \in {"ci", "repush"} => OnRemote(t)
      PROVE  FlowsInv'
  <2> DEFINE u == <<t, IF integrated[t] = 0 THEN 1 ELSE integrated[t]>>
  <2>1. u \in Units /\ u[1] = t
    BY UnitFacts, MaxAttemptFacts DEF TypeInv, TrackerType, Attempt
  <2>2. PICK v \in Units : v = u
    BY <2>1
  <2>3. Enter(0, at, v) /\ at \in Places /\ FlowsInv
    BY <1>2, <2>2 DEF Choose, Places, PushedInv
  <2>4. at \in {"ci", "repush"} => OnRemote(v[1])'
    BY <1>2, <2>1, <2>2 DEF OnRemote, Grows
  <2> QED BY <1>2, <2>3, <2>4, EnterTrue
<1>3. AwaitingCi(t) \/ recovery = t => OnRemote(t)
  <2>1. t # 0 /\ RecordInv
    BY UnitFacts DEF PushedInv
  <2> QED BY <2>1 DEF AwaitingCi, RecordInv, OnRemote
<1> QED BY <1>1, <1>2, <1>3
        DEF Advance, ChooseImplement, ChooseCheckCi, ChooseRetryCi, ChooseRework

LEMMA ChooseDispositionTrue ==
  ASSUME TypeInv, PushedInv, Grows, NEW d \in {"close disposition", "leave-open disposition"},
         ChooseDisposition(d)
  PROVE  FlowsInv'
<1>1. disposition \in Units /\ Enter(0, d, disposition) /\ FlowsInv /\ d \in Places
  BY DEF ChooseDisposition, TypeInv, PendingType, MaybeUnit, PushedInv, Places
<1> QED BY <1>1, EnterTrue

LEMMA RunUnitTrue ==
  ASSUME TypeInv, FlowsInv, Grows, NEW u \in Units, NEW c \in BOOLEAN, RunUnit(u, c),
         c => Tried(u)
  PROVE  FlowsInv'
<1> DEFINE x == [Idle EXCEPT !.at = "load", !.unit = u, !.own = TRUE]
<1>0. 0 \in Flows
  BY DEF Flows
<1>1. CASE flow' = [flow EXCEPT ![0] = Idle]
  BY <1>0, <1>1, ReturnTrue
<1>2. CASE Enter(0, "resolve", u) /\ c
  <2>1. Tried(u)' /\ "resolve" \in Places
    BY <1>2 DEF Places, Grows
  <2> QED BY <1>2, <2>1, EnterTrue
<1>3. CASE flow' = [flow EXCEPT ![0] = x]
  <2>1. x \in Flow /\ x.at = "load" /\ x.saw = Nothing
    BY IdleType DEF Flow, MaybeUnit, Places, Idle
  <2> HIDE DEF x
  <2> QED BY <1>0, <1>3, <2>1, BeginTrue
<1> QED BY <1>1, <1>2, <1>3 DEF RunUnit

LEMMA RetryIntegrationTrue == ASSUME TypeInv, PushedInv, Grows, RetryIntegration PROVE FlowsInv'
<1>1. integration.unit \in Units /\ integration.conflict \in BOOLEAN
  BY DEF RetryIntegration, TypeInv, PendingType
<1>2. RunUnit(integration.unit, integration.conflict)
  BY DEF RetryIntegration
<1> QED BY <1>1, <1>2, RunUnitTrue DEF PushedInv, ConflictInv

LEMMA ImplementTrue ==
  ASSUME TypeInv, PushedInv, Grows,
         PlanImplementation \/ CreateWorkspace \/ RegisterWorker \/ LaunchWorker
  PROVE  FlowsInv'
<1>1. 0 \in Flows /\ {"register", "launch", "workspace"} \subseteq Places /\ FlowsInv
  BY DEF Flows, Places, PushedInv
<1>2. CASE Return(0)
  BY <1>1, <1>2, ReturnTrue DEF Return
<1>3. CASE (Go(0, "register") \/ Go(0, "launch")) /\ flow[0].at # "idle"
  <2>1. flow[0].unit \in Units
    BY <1>1, <1>3 DEF TypeInv, FlowType
  <2> QED BY <1>1, <1>3, <2>1, GoTrue
<1>4. CASE \E u \in Units : Enter(0, "workspace", u)
  BY <1>1, <1>4, EnterTrue
<1> QED BY <1>2, <1>3, <1>4 DEF PlanImplementation, CreateWorkspace, RegisterWorker, LaunchWorker

LEMMA IntegrateTrue ==
  ASSUME TypeInv, PushedInv, Grows,
         Dispose \/ LoadUnit \/ MergeUnit \/ RegisterResolver \/ LaunchResolver \/ RePush
         \/ ReopenTicket
  PROVE  FlowsInv'
<1>0. 0 \in Flows /\ {"resolve", "resolver", "gate", "merge", "ci"} \subseteq Places /\ FlowsInv
  BY DEF Flows, Places, PushedInv
<1>1. flow[0].unit \in Units
  BY <1>0 DEF Dispose, LoadUnit, MergeUnit, RegisterResolver, LaunchResolver, RePush,
              ReopenTicket, TypeInv, FlowType
<1>2. CASE flow' = [flow EXCEPT ![0] = Idle]
  BY <1>0, <1>2, ReturnTrue
<1>3. CASE Go(0, "merge")
  BY <1>0, <1>1, <1>3, GoTrue
<1>4. CASE Go(0, "gate") /\ flow[0].unit \in local'
  BY <1>0, <1>1, <1>4, GoTrue
<1>5. CASE Go(0, "resolver") /\ flow[0].at = "resolve"
  <2>1. Tried(flow[0].unit)
    BY <1>0, <1>5 DEF FlowsInv, FlowTrue
  <2> QED BY <1>0, <1>1, <1>5, <2>1, GoTrue
<1>6. CASE Go(0, "ci") /\ flow[0].at = "repush"
  <2>1. OnRemote(flow[0].unit[1])
    BY <1>0, <1>6 DEF FlowsInv, FlowTrue
  <2>2. \E u \in remote' : u[1] = flow[0].unit[1]
    BY <2>1 DEF OnRemote, Grows
  <2> QED BY <1>0, <1>1, <1>6, <2>2, GoTrue
<1>7. CASE RunUnit(flow[0].unit, FALSE)
  BY <1>0, <1>1, <1>7, RunUnitTrue
<1>8. CASE Enter(0, "resolve", flow[0].unit) /\ unfinished' = flow[0].unit
  <2>1. PICK u \in Units : u = flow[0].unit
    BY <1>1
  <2>2. Enter(0, "resolve", u) /\ Tried(u)'
    BY <1>8, <2>1 DEF Tried
  <2> QED BY <1>0, <2>2, EnterTrue
<1>9. CASE flow' = [flow EXCEPT ![0] = [@ EXCEPT !.at = "unrecord", !.saw = integrated]]
  BY <1>0, <1>9, ReadTrue DEF PushedInv
<1>10. CASE Dispose
  BY <1>2, <1>7, <1>10 DEF Dispose
<1>11. CASE LoadUnit \/ MergeUnit
  BY <1>2, <1>3, <1>4, <1>8, <1>11 DEF LoadUnit, MergeUnit, FailUnit, Return
<1>12. CASE RegisterResolver \/ LaunchResolver \/ RePush \/ ReopenTicket
  BY <1>2, <1>5, <1>6, <1>9, <1>12
  DEF RegisterResolver, LaunchResolver, RePush, ReopenTicket, Return
<1> QED BY <1>10, <1>11, <1>12

LEMMA UnrecordTicketTrue == ASSUME TypeInv, PushedInv, Grows, UnrecordTicket PROVE FlowsInv'
<1>1. 0 \in Flows /\ flow[0].at = "unrecord" /\ "plan" \in Places /\ FlowsInv
  BY DEF UnrecordTicket, Flows, Places, PushedInv
<1>2. flow[0].unit \in Units
  BY <1>1 DEF TypeInv, FlowType
<1> QED BY <1>1, <1>2, ReturnTrue, GoTrue DEF UnrecordTicket, Return

\* From the merge to the record of it, and to the closing of the ticket.
LEMMA UnitTrue == ASSUME TypeInv, PushedInv, Grows, NEW f \in Flows, Unit(f) PROVE FlowsInv'
<1>0. /\ {"verify", "push", "manifest", "record", "ci", "close"} \subseteq Places
      /\ FlowsInv /\ RecordInv /\ FlowTrue(flow[f])
  BY DEF Places, PushedInv, FlowsInv
<1>1. flow[f].unit \in Units
  BY DEF Unit, GateUnit, VerifyUnit, PushUnit, WriteManifest, RecordUnit, CheckCi, CloseTicket,
         TypeInv, FlowType
<1>2. CASE flow' = [flow EXCEPT ![f] = Idle]
  BY <1>0, <1>2, ReturnTrue
<1>3. CASE /\ flow[f].at = "gate"
           /\ flow' = [flow EXCEPT ![f] = [@ EXCEPT !.at = "verify", !.saw = integrated]]
  <2>1. flow[f].unit \in local
    BY <1>0, <1>3 DEF FlowTrue
  <2> QED BY <1>0, <1>3, <2>1, ReadTrue
<1>4. CASE flow[f].at = "verify" /\ Go(f, "push")
  <2>1. flow[f].unit \in local'
    BY <1>0, <1>4 DEF FlowTrue, Grows
  <2> QED BY <1>0, <1>1, <1>4, <2>1, GoTrue
<1>5. CASE flow[f].at = "push" /\ Go(f, "manifest") /\ remote' = local
  <2>1. flow[f].unit \in remote'
    BY <1>0, <1>5 DEF FlowTrue
  <2> QED BY <1>0, <1>1, <1>5, <2>1, GoTrue
<1>6. CASE flow[f].at = "manifest" /\ Go(f, "record")
  <2>1. flow[f].unit \in remote'
    BY <1>0, <1>6 DEF FlowTrue, Grows
  <2>2. \E u \in remote' : u[1] = flow[f].unit[1]
    BY <2>1
  <2> QED BY <1>0, <1>1, <1>6, <2>2, GoTrue
<1>7. CASE flow[f].at \in {"record", "ci"} /\ (Go(f, "ci") \/ Go(f, "close"))
  <2>1. \E u \in remote' : u[1] = flow[f].unit[1]
    BY <1>0, <1>7 DEF FlowTrue, OnRemote, Grows
  <2> QED BY <1>0, <1>1, <1>7, <2>1, GoTrue
<1> QED BY <1>2, <1>3, <1>4, <1>5, <1>6, <1>7
        DEF Unit, GateUnit, VerifyUnit, PushUnit, WriteManifest, RecordUnit, CheckCi, CloseTicket,
            FailUnit, Return

\* What a resolver says it committed is in the Integration branch.
LEMMA HeardResolved ==
  ASSUME TypeInv, NEW u \in Units, Resolve(u) \in heard, Head(mail[Resolve(u)]) = "completed"
  PROVE  Resolved(u)
<1>1. mail[Resolve(u)] \in Seq(Results) /\ mail[Resolve(u)] # <<>>
  BY UnitFacts DEF TypeInv, ChildType, MailInv, Resolve
<1>2. Len(mail[Resolve(u)]) \in Nat /\ Len(mail[Resolve(u)]) # 0
  BY <1>1, EmptySeqLength
<1>3. mail[Resolve(u)][1] = "completed"
  BY <1>1
<1> QED BY <1>2, <1>3 DEF Resolved

LEMMA WorkerTrue ==
  ASSUME TypeInv, PushedInv, Grows, NEW w \in Workers,
         \/ Event(w) \/ LoseEvent(w) \/ SynthesizeExit(w)
         \/ \E outcome \in {"completed", "failed"} : Report(w, outcome)
         \/ \E code \in {"clean", "bad"} : Exit(w, code)
  PROVE  FlowsInv'
<1>0. w[2] \in Units /\ FlowsInv /\ ConflictInv
  BY UnitFacts DEF PushedInv
<1>1. CASE SettleResolver(w[2])
  <2>1. PICK u \in Units : u = w[2]
    BY <1>0
  <2> DEFINE x == [Idle EXCEPT !.at = "gate", !.unit = u, !.own = TRUE]
  <2>2. x \in Flow /\ x.at = "gate" /\ x.unit = u /\ x.saw = Nothing /\ u[1] \in Flows
    BY <2>1, IdleType, UnitFacts DEF Flow, MaybeUnit, Places, Flows, Idle
  <2>3. UNCHANGED flow \/ /\ flow' = [flow EXCEPT ![u[1]] = x]
                          /\ Resolve(u) \in heard /\ Head(mail[Resolve(u)]) = "completed"
    BY <1>1, <2>1 DEF SettleResolver, Finish, Resolve
  <2> HIDE DEF x
  <2>4. CASE UNCHANGED flow
    BY <1>0, <2>4, FlowsStill
  <2>5. CASE ~UNCHANGED flow
    <3>1. u \in local'
      BY <1>0, <2>3, <2>5, HeardResolved DEF ConflictInv, Grows
    <3> QED BY <1>0, <2>2, <2>3, <2>5, <3>1, BeginTrue
  <2> QED BY <2>4, <2>5
<1>2. CASE ~SettleResolver(w[2])
  <2>1. UNCHANGED flow
    BY <1>2 DEF Event, ReceiveEvent, SettleResult, SettleExit, LoseEvent, SynthesizeExit, Report,
                Exit, control
  <2> QED BY <1>0, <2>1, FlowsStill
<1> QED BY <1>1, <1>2

LEMMA StopTrue ==
  ASSUME TypeInv, PushedInv, Grows,
         \/ ReconcileBlocked \/ (\E kind \in Stops : BeginStop(kind)) \/ Stop \/ Crash \/ BeginRun
         \/ LeaveOpenCi \/ UNCHANGED vars
  PROVE  FlowsInv'
<1>1. CASE SessionEnds
  <2>1. \A f \in Flows : flow'[f] = Idle
    BY <1>1 DEF SessionEnds, Flows
  <2> QED BY <2>1, IdleTrue DEF FlowsInv, FlowTrue
<1>2. CASE ~SessionEnds
  <2>1. UNCHANGED flow /\ FlowsInv
    BY <1>2 DEF ReconcileBlocked, BeginStop, Stop, StopWorkers, Pause, EmergencyStop, Terminate,
                Quit, Crash, BeginRun, LeaveOpenCi, vars, control, PushedInv
  <2> QED BY <2>1, FlowsStill
<1> QED BY <1>1, <1>2

LEMMA FlowsHold == TypeInv /\ PushedInv /\ [PipelineNext]_vars => FlowsInv'
<1> SUFFICES ASSUME TypeInv, PushedInv, [PipelineNext]_vars PROVE FlowsInv'
  OBVIOUS
<1>1. DOMAIN flow = Flows /\ Grows
  BY BranchesGrow DEF TypeInv, FlowType, PushedInv
<1>2. CASE \E t \in Tickets : Advance(t) \/ ChooseRework(t)
  BY <1>1, <1>2, AdvanceTrue
<1>3. CASE \E d \in {"close disposition", "leave-open disposition"} : ChooseDisposition(d)
  BY <1>1, <1>3, ChooseDispositionTrue
<1>4. CASE RetryIntegration \/ Loop
  BY <1>1, <1>4, RetryIntegrationTrue, ImplementTrue, IntegrateTrue, UnrecordTicketTrue DEF Loop
<1>5. CASE \E f \in DOMAIN flow : Unit(f)
  BY <1>1, <1>5, UnitTrue
<1>6. CASE \E w \in Workers :
             \/ Event(w) \/ LoseEvent(w) \/ SynthesizeExit(w)
             \/ \E outcome \in {"completed", "failed"} : Report(w, outcome)
             \/ \E code \in {"clean", "bad"} : Exit(w, code)
  BY <1>1, <1>6, WorkerTrue
<1>7. CASE \/ ReconcileBlocked \/ (\E kind \in Stops : BeginStop(kind)) \/ Stop \/ Crash
           \/ BeginRun \/ LeaveOpenCi \/ UNCHANGED vars
  BY <1>1, <1>7, StopTrue
<1> QED BY <1>2, <1>3, <1>4, <1>5, <1>6, <1>7 DEF PipelineNext

\* A transcript tells of a conflict once its resolver is about to be launched.
LEMMA ConflictEvents ==
  ASSUME NEW h \in History, NEW e \in Events, AfterEvent(h, e).conflict
  PROVE  h.conflict \/ e = "resolve-launch"
<1> h = [completed |-> h.completed, disposition |-> h.disposition, done |-> h.done,
         conflict |-> h.conflict]
  BY DEF History
<1> QED BY DEF Events, AfterEvent, History

LEMMA AppendConflict ==
  ASSUME TypeInv, NEW v \in Units, NEW e \in Events, Append1(v, e), NEW u \in Units,
         history'[u].conflict
  PROVE  history[u].conflict \/ (e = "resolve-launch" /\ u = v)
<1>1. history \in [Units -> History]
  BY DEF TypeInv, HistoryType
<1>2. CASE u = v
  <2>1. history'[u] = AfterEvent(history[u], e) /\ history[u] \in History
    BY <1>1, <1>2 DEF Append1
  <2> QED BY <1>2, <2>1, ConflictEvents
<1>3. CASE u # v
  BY <1>1, <1>3 DEF Append1
<1> QED BY <1>2, <1>3

\* Nothing is appended, or an event that tells of no resolver.
Plainly == \/ UNCHANGED history
           \/ \E v \in Units, e \in Events \ {"resolve-launch"} : Append1(v, e)

LEMMA ResetConflict ==
  ASSUME TypeInv, NEW S \in SUBSET Units,
         history' = [v \in Units |-> IF v \in S THEN AfterEvent(history[v], "reset") ELSE history[v]],
         NEW u \in Units, history'[u].conflict
  PROVE  history[u].conflict
<1>1. history[u] \in History /\ "reset" \in Events
  BY DEF TypeInv, HistoryType, Events
<1> QED BY <1>1, ConflictEvents

LEMMA AbortConflict ==
  ASSUME TypeInv, NEW open, AbortBlocked(open), NEW u \in Units, history'[u].conflict
  PROVE  history[u].conflict
<1> DEFINE blocked == {t \in Running : Blockers[t] \cap open # {}}
           S == {v \in Units : v[1] \in blocked /\ worker[v[1]].attempt = v[2]}
<1>1. history' = [v \in Units |-> IF v \in S THEN AfterEvent(history[v], "reset") ELSE history[v]]
  BY DEF AbortBlocked
<1> HIDE DEF S
<1>2. S \in SUBSET Units
  BY DEF S
<1> QED BY <1>1, <1>2, ResetConflict

LEMMA PlainHistory ==
  ASSUME TypeInv, [PipelineNext]_vars
  PROVE  \/ Plainly \/ RegisterResolver \/ StopWorkers
         \/ \E open \in SUBSET Tickets : AbortBlocked(open)
<1>1. DOMAIN flow = Flows /\ \A f \in Flows : flow[f].at # "idle" => flow[f].unit \in Units
  BY DEF TypeInv, FlowType
<1>2. CASE Loop
  <2>1. CASE UnrecordTicket
    BY <2>1 DEF UnrecordTicket, Plainly
  <2>2. CASE Dispose \/ LoadUnit \/ MergeUnit \/ LaunchResolver
    <3>1. flow[0].unit \in Units
      BY <1>1, <2>2 DEF Dispose, LoadUnit, MergeUnit, LaunchResolver, Flows
    <3> QED BY <2>2, <3>1 DEF Dispose, LoadUnit, MergeUnit, LaunchResolver, FailUnit, Plainly, Events
  <2>3. CASE PlanImplementation \/ CreateWorkspace \/ RegisterWorker \/ LaunchWorker \/ RePush
             \/ ReopenTicket
    BY <2>3 DEF PlanImplementation, CreateWorkspace, RegisterWorker, LaunchWorker, RePush,
                ReopenTicket, Plainly
  <2> QED BY <1>2, <2>1, <2>2, <2>3 DEF Loop
<1>3. ASSUME NEW f \in DOMAIN flow, Unit(f) PROVE Plainly
  <2>1. flow[f].unit \in Units
    BY <1>1, <1>3 DEF Unit, GateUnit, VerifyUnit, PushUnit, WriteManifest, RecordUnit, CheckCi, CloseTicket
  <2> QED BY <1>3, <2>1 DEF Unit, GateUnit, VerifyUnit, PushUnit, WriteManifest, RecordUnit, CheckCi,
                            CloseTicket, FailUnit, Plainly, Events
<1>4. ASSUME NEW w \in Workers,
             \/ Event(w) \/ LoseEvent(w) \/ SynthesizeExit(w)
             \/ \E outcome \in {"completed", "failed"} : Report(w, outcome)
             \/ \E code \in {"clean", "bad"} : Exit(w, code)
      PROVE  Plainly
  <2>1. w[2] \in Units
    BY UnitFacts
  <2>2. CASE ReceiveEvent(w)
    <3>1. mail[w] \in Seq(Results) /\ mail[w] # <<>>
      BY <2>2 DEF ReceiveEvent, TypeInv, ChildType
    <3>2. Head(mail[w]) \in Results
      BY <3>1
    <3>3. UNCHANGED history \/ (Append1(w[2], Head(mail[w])) /\ Head(mail[w]) \notin {"clean", "bad"})
      BY <2>2 DEF ReceiveEvent, IsExit
    <3> QED BY <2>1, <3>2, <3>3 DEF Results, Events, Plainly
  <2>3. CASE Event(w) /\ ~ReceiveEvent(w)
    BY <2>1, <2>3 DEF Event, SettleResolver, SettleResult, SettleExit, Plainly, Events
  <2> QED BY <1>4, <2>2, <2>3 DEF LoseEvent, SynthesizeExit, Report, Exit, Plainly
<1>5. CASE ReconcileBlocked
  BY <1>5 DEF ReconcileBlocked
<1>6. CASE (\E kind \in Stops : BeginStop(kind)) \/ Stop \/ Crash \/ BeginRun \/ LeaveOpenCi
           \/ RetryIntegration \/ UNCHANGED vars
  BY <1>6 DEF BeginStop, Stop, Pause, EmergencyStop, Terminate, Quit, Crash, BeginRun, LeaveOpenCi,
              RetryIntegration, vars, Plainly
<1>7. CASE \/ \E t \in Tickets : Advance(t) \/ ChooseRework(t)
           \/ \E d \in {"close disposition", "leave-open disposition"} : ChooseDisposition(d)
  BY <1>7 DEF Advance, ChooseRework, RecoverPending, ChooseImplement, ChooseCheckCi,
      ChooseRetryCi, Choose, ChooseDisposition, Plainly
<1> QED BY <1>2, <1>3, <1>4, <1>5, <1>6, <1>7 DEF PipelineNext

LEMMA WhoConflicts ==
  ASSUME TypeInv, [PipelineNext]_vars, NEW u \in Units, history'[u].conflict
  PROVE  history[u].conflict \/ (flow[0].at = "resolve" /\ u = flow[0].unit)
<1>1. CASE Plainly
  BY <1>1, AppendConflict DEF Plainly
<1>2. CASE RegisterResolver
  <2>1. flow[0].at = "resolve" /\ flow[0].unit \in Units /\ "resolve-launch" \in Events
    BY <1>2 DEF RegisterResolver, TypeInv, FlowType, Flows, Events
  <2> QED BY <1>2, <2>1, AppendConflict DEF RegisterResolver
<1>3. CASE StopWorkers
  <2> DEFINE S == {v \in Units : stop.kind = "quit" /\ (v \in stop.todo \/ v = stop.resolver)}
  <2>1. history' = [v \in Units |-> IF v \in S THEN AfterEvent(history[v], "reset") ELSE history[v]]
    BY <1>3 DEF StopWorkers
  <2> HIDE DEF S
  <2>2. S \in SUBSET Units
    BY DEF S
  <2> QED BY <2>1, <2>2, ResetConflict
<1>4. CASE \E open \in SUBSET Tickets : AbortBlocked(open)
  BY <1>4, AbortConflict
<1> QED BY <1>1, <1>2, <1>3, <1>4, PlainHistory

\* A resolver works once it is launched, and says so when it reports.
LEMMA WhoResolves ==
  ASSUME TypeInv, [PipelineNext]_vars, NEW u \in Units, Resolving(u)'
  PROVE  Resolving(u) \/ (flow[0].at = "resolver" /\ u = flow[0].unit)
<1>1. process \in [Workers -> Process] /\ Resolve(u) \in Workers
  BY UnitFacts DEF TypeInv, ChildType, Resolve
<1>2. CASE UNCHANGED process
  BY <1>2 DEF Resolving
<1>3. ASSUME NEW w \in Workers, Delivered(w) \/ process' = [process EXCEPT ![w] = "closed"]
      PROVE  Resolving(u)
  BY <1>1, <1>3 DEF Delivered, Resolving
<1>4. CASE LaunchResolver
  BY <1>1, <1>4 DEF LaunchResolver, Resolving, Resolve
<1>5. CASE LaunchWorker
  BY <1>1, <1>5 DEF LaunchWorker, Resolving, Resolve
<1>6. CASE \E open : AbortBlocked(open)
  BY <1>1, <1>6 DEF AbortBlocked, Resolving, Resolve
<1>7. CASE \E kind \in Stops : BeginStop(kind)
  BY <1>1, <1>7 DEF BeginStop, Resolving
<1>8. CASE SessionEnds
  BY <1>1, <1>8 DEF SessionEnds, Resolving
<1>9. CASE Loop \/ ReconcileBlocked
  BY <1>2, <1>4, <1>5, <1>6, <1>9
  DEF Loop, Dispose, LoadUnit, MergeUnit, RegisterResolver, PlanImplementation, CreateWorkspace,
      RegisterWorker, RePush, ReopenTicket, UnrecordTicket, ReconcileBlocked, children
<1>10. CASE \E f \in DOMAIN flow : Unit(f)
  BY <1>2, <1>10 DEF Unit, GateUnit, VerifyUnit, PushUnit, WriteManifest, RecordUnit, CheckCi,
                     CloseTicket, children
<1>11. ASSUME NEW w \in Workers,
              \/ Event(w) \/ LoseEvent(w) \/ SynthesizeExit(w)
              \/ \E outcome \in {"completed", "failed"} : Report(w, outcome)
              \/ \E code \in {"clean", "bad"} : Exit(w, code)
       PROVE  Resolving(u)
  <2>1. CASE UNCHANGED process
    BY <2>1 DEF Resolving
  <2>2. ASSUME NEW x \in Workers, Delivered(x) PROVE Resolving(u)
    BY <1>3, <2>2
  <2>3. CASE process' = [process EXCEPT ![w] = "closed"]
    BY <1>3, <2>3
  <2>4. w[2] \in Units
    BY UnitFacts
  <2> QED BY <1>11, <2>1, <2>2, <2>3, <2>4, UnitFacts
      DEF Event, ReceiveEvent, SettleResolver, SettleResult, SettleExit, LoseEvent,
          SynthesizeExit, Report, Exit
<1>12. CASE Stop \/ Crash \/ BeginRun \/ LeaveOpenCi \/ RetryIntegration \/ UNCHANGED vars
  BY <1>2, <1>8, <1>12 DEF Stop, StopWorkers, Pause, EmergencyStop, Terminate, Quit, Crash, BeginRun,
                     LeaveOpenCi, RetryIntegration, vars, children
<1>13. CASE \/ \E t \in Tickets : Advance(t) \/ ChooseRework(t)
            \/ \E d \in {"close disposition", "leave-open disposition"} : ChooseDisposition(d)
  BY <1>2, <1>13 DEF Advance, ChooseRework, RecoverPending, ChooseImplement, ChooseCheckCi,
      ChooseRetryCi, Choose, ChooseDisposition, children
<1> QED BY <1>7, <1>9, <1>10, <1>11, <1>12, <1>13 DEF PipelineNext

LEMMA TailHas ==
  ASSUME NEW s \in Seq(Results), s # <<>>, NEW i \in 1..Len(Tail(s))
  PROVE  i + 1 \in 1..Len(s) /\ Tail(s)[i] = s[i + 1]
OBVIOUS

LEMMA AppendHas ==
  ASSUME NEW s \in Seq(Results), NEW e \in Results, NEW i \in 1..Len(Append(s, e))
  PROVE  \/ i \in 1..Len(s) /\ Append(s, e)[i] = s[i]
         \/ Append(s, e)[i] = e
OBVIOUS

LEMMA SentResolved ==
  ASSUME TypeInv, NEW w \in Workers, NEW e \in Results, Send(w, e), NEW u \in Units, Resolved(u)'
  PROVE  Resolved(u) \/ (w = Resolve(u) /\ e = "completed")
<1>1. mail \in [Workers -> Seq(Results)] /\ Resolve(u) \in Workers
  BY UnitFacts DEF TypeInv, ChildType, Resolve
<1>2. PICK i \in 1..Len(mail'[Resolve(u)]) : mail'[Resolve(u)][i] = "completed"
  BY DEF Resolved
<1>3. CASE w # Resolve(u)
  BY <1>1, <1>2, <1>3 DEF Send, Resolved
<1>4. CASE w = Resolve(u)
  <2>1. mail'[w] = Append(mail[w], e) /\ mail[w] \in Seq(Results)
    BY <1>1 DEF Send
  <2>2. i \in 1..Len(Append(mail[w], e)) /\ Append(mail[w], e)[i] = "completed"
    BY <1>2, <1>4, <2>1
  <2>3. (i \in 1..Len(mail[w]) /\ mail[w][i] = "completed") \/ e = "completed"
    BY <2>1, <2>2, AppendHas
  <2> QED BY <1>4, <2>3 DEF Resolved
<1> QED BY <1>3, <1>4

LEMMA DeliveredResolved ==
  ASSUME TypeInv, NEW w \in Workers, mail[w] # <<>>, Delivered(w), NEW u \in Units, Resolved(u)'
  PROVE  Resolved(u)
<1>1. mail \in [Workers -> Seq(Results)] /\ Resolve(u) \in Workers
  BY UnitFacts DEF TypeInv, ChildType, Resolve
<1>2. PICK i \in 1..Len(mail'[Resolve(u)]) : mail'[Resolve(u)][i] = "completed"
  BY DEF Resolved
<1>3. CASE w # Resolve(u)
  BY <1>1, <1>2, <1>3 DEF Delivered, Resolved
<1>4. CASE w = Resolve(u)
  <2>1. mail'[w] = Tail(mail[w]) /\ mail[w] \in Seq(Results)
    BY <1>1 DEF Delivered
  <2>2. i \in 1..Len(Tail(mail[w])) /\ Tail(mail[w])[i] = "completed"
    BY <1>2, <1>4, <2>1
  <2>3. i + 1 \in 1..Len(mail[w]) /\ mail[w][i + 1] = "completed"
    BY <2>1, <2>2, TailHas
  <2> QED BY <1>4, <2>3 DEF Resolved
<1> QED BY <1>3, <1>4

LEMMA WhoReports ==
  ASSUME TypeInv, [PipelineNext]_vars, NEW u \in Units, Resolved(u)'
  PROVE  Resolved(u) \/ Report(Resolve(u), "completed")
<1>1. CASE UNCHANGED mail
  BY <1>1 DEF Resolved
<1>2. CASE SessionEnds
  <2>1. mail'[Resolve(u)] = <<>>
    BY <1>2, UnitFacts DEF SessionEnds, Resolve
  <2> QED BY <2>1, EmptySeqLength DEF Resolved
<1>3. ASSUME NEW w \in Workers,
             \/ Event(w) \/ LoseEvent(w) \/ SynthesizeExit(w)
             \/ \E outcome \in {"completed", "failed"} : Report(w, outcome)
             \/ \E code \in {"clean", "bad"} : Exit(w, code)
      PROVE  Resolved(u) \/ Report(Resolve(u), "completed")
  <2>1. CASE UNCHANGED mail
    BY <2>1 DEF Resolved
  <2>2. ASSUME NEW x \in Workers, mail[x] # <<>>, Delivered(x) PROVE Resolved(u)
    BY <2>2, DeliveredResolved
  <2>3. w[2] \in Units /\ "clean" \in Results /\ "bad" \in Results
    BY UnitFacts DEF Results
  <2>4. CASE Event(w)
    <3>1. \A x \in heard : x \in Workers /\ mail[x] # <<>>
      BY DEF TypeInv, ChildType, MailInv
    <3> QED BY <2>1, <2>2, <2>3, <2>4, <3>1, UnitFacts
        DEF Event, ReceiveEvent, SettleResolver, SettleResult, SettleExit
  <2>5. CASE LoseEvent(w)
    BY <2>2, <2>5 DEF LoseEvent
  <2>6. CASE SynthesizeExit(w)
    BY <2>3, <2>6, SentResolved DEF SynthesizeExit
  <2>7. ASSUME NEW code \in {"clean", "bad"}, Exit(w, code) PROVE Resolved(u)
    BY <2>3, <2>7, SentResolved DEF Exit, Results
  <2>8. ASSUME NEW outcome \in {"completed", "failed"}, Report(w, outcome)
        PROVE  Resolved(u) \/ Report(Resolve(u), "completed")
    BY <2>8, SentResolved DEF Report, Results
  <2> QED BY <1>3, <2>4, <2>5, <2>6, <2>7, <2>8
<1>4. CASE Loop \/ \E f \in DOMAIN flow : Unit(f)
  BY <1>1, <1>4
  DEF Loop, Dispose, LoadUnit, MergeUnit, RegisterResolver, PlanImplementation, CreateWorkspace,
      RegisterWorker, RePush, ReopenTicket, UnrecordTicket, LaunchResolver, LaunchWorker, Unit,
      GateUnit, VerifyUnit, PushUnit, WriteManifest, RecordUnit, CheckCi, CloseTicket, children
<1>5. CASE Stop \/ Crash \/ BeginRun \/ LeaveOpenCi \/ RetryIntegration \/ UNCHANGED vars
           \/ ReconcileBlocked \/ \E kind \in Stops : BeginStop(kind)
  BY <1>1, <1>2, <1>5 DEF Stop, StopWorkers, Pause, EmergencyStop, Terminate, Quit, Crash, BeginRun,
                     LeaveOpenCi, RetryIntegration, vars, children, ReconcileBlocked, BeginStop
<1>6. CASE \/ \E t \in Tickets : Advance(t) \/ ChooseRework(t)
           \/ \E d \in {"close disposition", "leave-open disposition"} : ChooseDisposition(d)
  BY <1>1, <1>6 DEF Advance, ChooseRework, RecoverPending, ChooseImplement, ChooseCheckCi,
      ChooseRetryCi, Choose, ChooseDisposition, children
<1> QED BY <1>3, <1>4, <1>5, <1>6 DEF PipelineNext

\* A pending integration has a conflict from its transcript, or from its merge.
LEMMA WhoIsInConflict ==
  ASSUME TypeInv, [PipelineNext]_vars, integration'.conflict
  PROVE  \/ integration' = integration
         \/ integration'.unit \in Units /\ history[integration'.unit].conflict
         \/ integration'.unit \in Units /\ integration'.unit = unfinished'
<1>0. NoIntegration.conflict = FALSE
  BY DEF NoIntegration
<1>1. ASSUME NEW t \in Tickets, RecoverPending(t)
      PROVE  \/ integration' = integration
             \/ integration'.unit \in Units /\ history[integration'.unit].conflict
  <2>1. Latest(t) \in Units
    BY <1>1, LatestType DEF RecoverPending, FirstRecoverable, Recoverable, TypeInv
  <2> QED BY <1>1, <2>1 DEF RecoverPending
<1>2. CASE MergeUnit
  <2>1. flow[0].unit \in Units
    BY <1>2 DEF MergeUnit, TypeInv, FlowType, Flows
  <2>2. UNCHANGED integration \/ (integration'.unit = flow[0].unit /\ unfinished' = flow[0].unit)
    BY <1>2 DEF MergeUnit
  <2> QED BY <2>1, <2>2
<1>3. CASE Dispose \/ LoadUnit \/ PlanImplementation
  <2>1. CASE Dispose
    <3>1. flow[0].at \in {"close disposition", "leave-open disposition"}
      BY <2>1 DEF Dispose
    <3>2. integration' = integration \/ integration' = [unit |-> flow[0].unit, conflict |-> FALSE]
      BY <2>1, <3>1 DEF Dispose
    <3> QED BY <3>2
  <2>2. CASE LoadUnit
    BY <1>0, <2>2 DEF LoadUnit
  <2>3. CASE PlanImplementation
    <3>1. UNCHANGED integration \/ ~integration'.conflict
      BY <2>3 DEF PlanImplementation
    <3> QED BY <2>3 DEF PlanImplementation
  <2> QED BY <1>3, <2>1, <2>2, <2>3
<1>4. CASE \E u \in Units : SettleResolver(u)
  <2>1. [integration EXCEPT !.conflict = FALSE].conflict = FALSE
    BY DEF TypeInv, PendingType, NoIntegration
  <2> QED BY <1>4, <2>1 DEF SettleResolver
<1>5. CASE \E f \in DOMAIN flow : Unit(f)
  BY <1>0, <1>5 DEF Unit, GateUnit, VerifyUnit, PushUnit, WriteManifest, RecordUnit, CheckCi,
                    CloseTicket, pending
<1>6. CASE Stop \/ Crash
  BY <1>0, <1>6 DEF Stop, StopWorkers, Pause, EmergencyStop, Terminate, Quit, Crash, SessionEnds,
                    pending
<1>7. CASE Loop
  BY <1>2, <1>3, <1>7
  DEF Loop, RegisterResolver, CreateWorkspace, RegisterWorker, RePush, ReopenTicket,
      UnrecordTicket, LaunchResolver, LaunchWorker
<1>8. CASE BeginRun \/ LeaveOpenCi \/ RetryIntegration \/ UNCHANGED vars
           \/ ReconcileBlocked \/ \E kind \in Stops : BeginStop(kind)
  BY <1>8 DEF BeginRun, LeaveOpenCi, RetryIntegration, vars, pending, ReconcileBlocked, BeginStop
<1>9. CASE \/ \E t \in Tickets : Advance(t) \/ ChooseRework(t)
           \/ \E d \in {"close disposition", "leave-open disposition"} : ChooseDisposition(d)
  BY <1>1, <1>9 DEF Advance, ChooseRework, ChooseImplement, ChooseCheckCi,
      ChooseRetryCi, Choose, ChooseDisposition, pending
<1>10. ASSUME NEW w \in Workers,
             \/ Event(w) \/ LoseEvent(w) \/ SynthesizeExit(w)
             \/ \E outcome \in {"completed", "failed"} : Report(w, outcome)
             \/ \E code \in {"clean", "bad"} : Exit(w, code)
       PROVE \/ integration' = integration
             \/ integration'.unit \in Units /\ history[integration'.unit].conflict
             \/ integration'.unit \in Units /\ integration'.unit = unfinished'
  <2>1. w[2] \in Units
    BY UnitFacts
  <2>2. CASE Event(w)
    BY <1>4, <2>1, <2>2 DEF Event, ReceiveEvent, SettleResult, SettleExit, pending
  <2> QED BY <1>10, <2>2 DEF LoseEvent, SynthesizeExit, Report, Exit, pending
<1> QED BY <1>5, <1>6, <1>7, <1>8, <1>9, <1>10 DEF PipelineNext

LEMMA ConflictHolds == TypeInv /\ PushedInv /\ [PipelineNext]_vars => ConflictInv'
<1> SUFFICES ASSUME TypeInv, PushedInv, [PipelineNext]_vars PROVE ConflictInv'
  OBVIOUS
<1>1. Grows /\ ConflictInv /\ 0 \in Flows /\ FlowTrue(flow[0])
  BY BranchesGrow DEF PushedInv, FlowsInv, Flows
<1>2. ASSUME integration'.conflict PROVE Tried(integration.unit)'
  <2>1. CASE integration' = integration
    <3>1. integration \in [unit : Units, conflict : BOOLEAN]
      BY <1>2, <2>1 DEF TypeInv, PendingType, NoIntegration
    <3>2. PICK u \in Units : u = integration.unit
      BY <3>1
    <3>3. Tried(u)'
      BY <1>1, <1>2, <2>1, <3>2 DEF ConflictInv, Grows
    <3> QED BY <2>1, <3>2, <3>3 DEF Tried
  <2>2. CASE integration'.unit \in Units /\ history[integration'.unit].conflict
    <3>1. PICK u \in Units : u = integration'.unit
      BY <2>2
    <3>2. Tried(u)'
      BY <1>1, <2>2, <3>1 DEF ConflictInv, Grows
    <3> QED BY <3>1, <3>2 DEF Tried
  <2>3. CASE integration'.unit = unfinished'
    BY <2>3 DEF Tried
  <2> QED BY <1>2, <2>1, <2>2, <2>3, WhoIsInConflict
<1>3. ASSUME NEW u \in Units PROVE (history[u].conflict \/ Resolving(u) => Tried(u))'
  <2>1. CASE history'[u].conflict
    <3>1. Tried(u)
      BY <1>1, <2>1, WhoConflicts DEF ConflictInv, FlowTrue
    <3> QED BY <1>1, <3>1 DEF Grows
  <2>2. CASE Resolving(u)'
    <3>1. Tried(u)
      BY <1>1, <2>2, WhoResolves DEF ConflictInv, FlowTrue
    <3> QED BY <1>1, <3>1 DEF Grows
  <2> QED BY <2>1, <2>2
<1>4. ASSUME NEW u \in Units, Resolved(u)' PROVE u \in local'
  <2>1. CASE Resolved(u)
    BY <1>1, <2>1 DEF ConflictInv, Grows
  <2>2. CASE Report(Resolve(u), "completed")
    <3>1. Resolving(u)
      BY <2>2 DEF Report, Works, Resolving
    <3>2. Tried(u)
      BY <1>1, <3>1 DEF ConflictInv
    <3> QED BY <1>1, <2>2, <3>2 DEF Report, Tried, Resolve, Grows
  <2> QED BY <1>4, <2>1, <2>2, WhoReports
<1> QED BY <1>2, <1>3, <1>4 DEF ConflictInv

LEMMA WhoCloses ==
  ASSUME TypeInv, [PipelineNext]_vars
  PROVE  /\ \A t \in closed' : \/ t \in closed
                               \/ \E f \in Flows : flow[f].at = "close" /\ t = flow[f].unit[1]
         /\ \/ recovery' \in {0, recovery}
            \/ \E f \in Flows : /\ flow[f].at \in {"repush", "ci", "close"}
                                /\ recovery' = flow[f].unit[1]
<1>0. DOMAIN flow = Flows /\ 0 \in Flows
  BY DEF TypeInv, FlowType, Flows
<1>1. CASE Loop
  BY <1>0, <1>1
  DEF Loop, Dispose, LoadUnit, MergeUnit, PlanImplementation, RegisterResolver, CreateWorkspace,
      RegisterWorker, RePush, ReopenTicket, UnrecordTicket, LaunchResolver, LaunchWorker, tracker
<1>2. ASSUME NEW f \in DOMAIN flow, Unit(f)
      PROVE  /\ \A t \in closed' : t \in closed \/ (flow[f].at = "close" /\ t = flow[f].unit[1])
             /\ \/ recovery' \in {0, recovery}
                \/ flow[f].at \in {"repush", "ci", "close"} /\ recovery' = flow[f].unit[1]
  BY <1>2 DEF Unit, GateUnit, VerifyUnit, PushUnit, WriteManifest, RecordUnit, CheckCi,
              CloseTicket, tracker, pending
<1>3. CASE \/ \E t \in Tickets : Advance(t) \/ ChooseRework(t)
           \/ \E d \in {"close disposition", "leave-open disposition"} : ChooseDisposition(d)
  BY <1>3 DEF Advance, ChooseRework, RecoverPending, ChooseImplement, ChooseCheckCi,
      ChooseRetryCi, Choose, ChooseDisposition, pending, tracker
<1>4. CASE \E w \in Workers :
             \/ Event(w) \/ LoseEvent(w) \/ SynthesizeExit(w)
             \/ \E outcome \in {"completed", "failed"} : Report(w, outcome)
             \/ \E code \in {"clean", "bad"} : Exit(w, code)
  BY <1>4 DEF Event, ReceiveEvent, SettleResolver, SettleResult, SettleExit, LoseEvent,
      SynthesizeExit, Report, Exit, pending, tracker
<1>5. CASE Stop \/ Crash \/ BeginRun \/ LeaveOpenCi \/ RetryIntegration \/ UNCHANGED vars
           \/ ReconcileBlocked \/ \E kind \in Stops : BeginStop(kind)
  BY <1>5 DEF Stop, StopWorkers, Pause, EmergencyStop, Terminate, Quit, Crash, SessionEnds, BeginRun,
              LeaveOpenCi, RetryIntegration, vars, pending, tracker, ReconcileBlocked, BeginStop
<1> QED BY <1>0, <1>1, <1>2, <1>3, <1>4, <1>5 DEF PipelineNext

LEMMA RecordHolds == TypeInv /\ PushedInv /\ [PipelineNext]_vars => RecordInv'
<1> SUFFICES ASSUME TypeInv, PushedInv, [PipelineNext]_vars PROVE RecordInv'
  OBVIOUS
<1>1. Grows /\ RecordInv /\ \A f \in Flows : FlowTrue(flow[f])
  BY BranchesGrow DEF PushedInv, FlowsInv
<1>2. \A t : OnRemote(t) => OnRemote(t)'
  BY <1>1 DEF OnRemote, Grows
<1>3. ASSUME NEW t \in closed' PROVE OnRemote(t)'
  BY <1>1, <1>2, WhoCloses DEF RecordInv, FlowTrue
<1>4. ASSUME recovery' # 0 PROVE OnRemote(recovery)'
  <2>1. OnRemote(recovery')
    BY <1>1, <1>4, WhoCloses DEF RecordInv, FlowTrue
  <2> QED BY <1>1, <2>1 DEF OnRemote, Grows
<1>5. ASSUME NEW t \in Tickets, integrated'[t] # 0 PROVE <<t, integrated'[t]>> \in remote'
  <2>1. DOMAIN flow = Flows /\ 0 \in Flows /\ \A f \in Flows : flow[f].saw \in [Tickets -> Attempt]
    BY DEF TypeInv, FlowType, Flows, Flow
  <2>2. CASE UNCHANGED integrated
    BY <1>1, <1>5, <2>2 DEF RecordInv, Grows
  <2>3. CASE UnrecordTicket
    <3>1. UNCHANGED integrated \/ integrated' = [flow[0].saw EXCEPT ![flow[0].unit[1]] = 0]
      BY <2>3 DEF UnrecordTicket
    <3>2. CASE integrated' = [flow[0].saw EXCEPT ![flow[0].unit[1]] = 0]
      <4>1. integrated'[t] = flow[0].saw[t]
        BY <1>5, <2>1, <3>2
      <4> QED BY <1>1, <1>5, <2>1, <4>1 DEF FlowTrue, Grows
    <3> QED BY <2>2, <3>1, <3>2
  <2>4. ASSUME NEW f \in Flows, WriteManifest(f) PROVE <<t, integrated'[t]>> \in remote'
    <3>1. UNCHANGED integrated
          \/ integrated' = [flow[f].saw EXCEPT ![flow[f].unit[1]] = flow[f].unit[2]]
      BY <2>4 DEF WriteManifest, Recorded
    <3>2. CASE integrated' = [flow[f].saw EXCEPT ![flow[f].unit[1]] = flow[f].unit[2]]
      <4>1. CASE t = flow[f].unit[1]
        <5>1. flow[f].unit \in Units /\ flow[f].unit \in remote
          BY <1>1, <2>4 DEF WriteManifest, FlowTrue, TypeInv, FlowType
        <5>2. <<t, integrated'[t]>> = flow[f].unit
          BY <2>1, <3>2, <4>1, <5>1, UnitFacts
        <5> QED BY <1>1, <5>1, <5>2 DEF Grows
      <4>2. CASE t # flow[f].unit[1]
        <5>1. integrated'[t] = flow[f].saw[t]
          BY <2>1, <3>2, <4>2
        <5> QED BY <1>1, <1>5, <5>1 DEF FlowTrue, Grows
      <4> QED BY <4>1, <4>2
    <3> QED BY <2>2, <3>1, <3>2
  <2> QED BY <2>1, <2>2, <2>3, <2>4, WhoWrites
<1> QED BY <1>3, <1>4, <1>5 DEF RecordInv

LEMMA NothingDiscarded ==
  ASSUME NoDiscard
  PROVE  TypeInv /\ ~stop.discard /\ [PipelineNext]_vars => ~stop'.discard
<1> SUFFICES ASSUME TypeInv, ~stop.discard, [PipelineNext]_vars, stop' # stop
             PROVE  ~stop'.discard
  OBVIOUS
<1>1. stop \in [kind : Stops \cup {"none"}, at : {"workers", "rest"}, todo : SUBSET Units,
                resolver : MaybeUnit, discard : BOOLEAN]
  BY DEF TypeInv, StopType
<1>2. NoStop.discard = FALSE
  BY DEF NoStop
<1>3. \/ stop' = NoStop \/ stop' = [stop EXCEPT !.at = "rest"]
      \/ \E kind \in Stops : BeginStop(kind)
  BY DEF PipelineNext, Advance, ChooseRework, RecoverPending, ChooseImplement, ChooseCheckCi,
      ChooseRetryCi, Choose, ChooseDisposition, RetryIntegration, LeaveOpenCi, Loop, Dispose,
      LoadUnit, MergeUnit, RegisterResolver, LaunchResolver, PlanImplementation, CreateWorkspace,
      RegisterWorker, LaunchWorker, RePush, ReopenTicket, UnrecordTicket, Unit, GateUnit,
      VerifyUnit, PushUnit, WriteManifest, RecordUnit, CheckCi, CloseTicket, Event, ReceiveEvent,
      SettleResolver, SettleResult, SettleExit, LoseEvent, SynthesizeExit, Report, Exit,
      ReconcileBlocked, Stop, StopWorkers, Pause, EmergencyStop, Terminate, Quit, Crash,
      SessionEnds, BeginRun, control, vars
<1>4. CASE \E kind \in Stops : BeginStop(kind)
  <2>1. PICK kind \in Stops : BeginStop(kind)
    BY <1>4
  <2>2. kind # "terminate" /\ stop'.discard = (kind = "terminate" /\ integrated = Nothing)
    BY <2>1 DEF BeginStop, NoDiscard
  <2> QED BY <2>2
<1>5. CASE stop' = [stop EXCEPT !.at = "rest"]
  <2>1. stop'.discard = stop.discard
    BY <1>1, <1>5
  <2> QED BY <2>1
<1> QED BY <1>2, <1>3, <1>4, <1>5

LEMMA PushedFollows == TypeInv /\ PushedInv => IntegratedIsPushed
<1> SUFFICES ASSUME TypeInv, PushedInv, NEW t \in Tickets, t \in closed \/ integrated[t] # 0
             PROVE  \E u \in remote : u[1] = t /\ (integrated[t] # 0 => u[2] = integrated[t])
  BY DEF IntegratedIsPushed
<1>1. CASE integrated[t] # 0
  <2>1. <<t, integrated[t]>> \in remote
    BY <1>1 DEF PushedInv, RecordInv
  <2> QED BY <2>1
<1>2. CASE integrated[t] = 0
  BY <1>2 DEF PushedInv, RecordInv, OnRemote
<1> QED BY <1>1, <1>2

\* The invariant IntegratedIsPushed, unless a termination discards: whatever push
\* fails, loses its answer or is interrupted, whichever worker speaks last, and
\* however often the session ends, a ticket is recorded and closed only when its
\* attempt is on the remote.
THEOREM IntegratedWasPushed ==
  ASSUME NoDiscard
  PROVE  PipelineSpec => []IntegratedIsPushed
<1>1. PipelineInit => TypeInv /\ PushedInv
  BY InitTypes, InitPushed
<1>2. TypeInv /\ PushedInv /\ [PipelineNext]_vars => (TypeInv /\ PushedInv)'
  BY TypesHold, FlowsHold, ConflictHolds, RecordHolds, NothingDiscarded DEF PushedInv
<1>3. TypeInv /\ PushedInv => IntegratedIsPushed
  BY PushedFollows
<1> QED BY <1>1, <1>2, <1>3, PTL DEF PipelineSpec

(***************************************************************************)
(* What units push was verified                                            *)
(***************************************************************************)

\* Nobody else is about to commit the merge while a unit goes on: a resolver of
\* the unfinished merge works only while its conflict waits.
UndisturbedInv ==
  /\ unfinished \notin local
  /\ \A f \in Flows : flow[f].at \in InUnit => ~integration.conflict
  /\ \A u \in Units : unfinished = u /\ (Calls(u) \/ Resolving(u)) =>
                        integration = [unit |-> u, conflict |-> TRUE]
  /\ \A f \in Flows : flow[f].at = "push" => local \subseteq verified

LEMMA InitUndisturbed == PipelineInit => UndisturbedInv
<1> SUFFICES ASSUME PipelineInit PROVE UndisturbedInv
  OBVIOUS
<1>1. \A f \in Flows : flow[f].at = "idle"
  BY DEF PipelineInit, Flows, Idle
<1> QED BY <1>1, UnitFacts DEF UndisturbedInv, InUnit, PipelineInit

LEMMA UnfinishedStays ==
  ASSUME TypeInv, UndisturbedInv, [PipelineNext]_vars
  PROVE  unfinished' \notin local'
<1>1. CASE UNCHANGED <<local, unfinished>>
  BY <1>1 DEF UndisturbedInv
<1>2. CASE MergeUnit
  <2>1. flow[0].unit \in Units /\ local \subseteq Units
    BY <1>2 DEF MergeUnit, TypeInv, FlowType, GitType, Flows
  <2> QED BY <1>1, <1>2, <2>1, UnitFacts DEF MergeUnit, Mergeable
<1>3. CASE Terminate
  BY <1>1, <1>3 DEF Terminate, RemoveWorkspaces
<1>4. CASE \E w \in Workers : Report(w, "completed")
  <2>1. local \subseteq Units
    BY DEF TypeInv, GitType
  <2> QED BY <1>1, <1>4, <2>1, UnitFacts DEF Report
<1> QED BY <1>1, <1>2, <1>3, <1>4, WhoMerges

\* A flow begins a unit whose conflict does not wait.
LEMMA WhoBegins ==
  ASSUME TypeInv, UndisturbedInv, [PipelineNext]_vars, NEW f \in Flows, flow'[f].at \in InUnit
  PROVE  \/ flow[f].at \in InUnit
         \/ ~integration'.conflict
<1>0. /\ flow \in [Flows -> Flow] /\ 0 \in Flows /\ Idle.at = "idle"
      /\ flow'[f].at \in InUnit \cup {"resolve", "resolver"}
  BY IdleType DEF TypeInv, FlowType, Flows
<1>1. CASE flow'[f] = flow[f]
  BY <1>1
<1>2. CASE f = 0 /\ Dispose
  <2>1. flow[0].unit \in Units /\ flow[0].at \in {"close disposition", "leave-open disposition"}
    BY <1>0, <1>2 DEF Dispose, TypeInv, FlowType
  <2>2. flow' = [flow EXCEPT ![0] = Idle]
        \/ integration' = [unit |-> flow[0].unit, conflict |-> FALSE]
    BY <1>2, <2>1 DEF Dispose
  <2> QED BY <1>0, <1>2, <2>2 DEF InUnit
<1>3. CASE f = 0 /\ RetryIntegration
  <2>1. integration.unit \in Units /\ integration.conflict \in BOOLEAN
    BY <1>3 DEF RetryIntegration, TypeInv, PendingType
  <2>2. RunUnit(integration.unit, integration.conflict) /\ integration' = integration
    BY <1>3 DEF RetryIntegration
  <2> QED BY <1>0, <1>3, <2>1, <2>2, RunUnitGoes DEF InUnit
<1>4. CASE f = 0 /\ (LoadUnit \/ MergeUnit)
  BY <1>4 DEF LoadUnit, MergeUnit, InUnit
<1>5. CASE f = 0 /\ RegisterResolver
  <2>1. Go(0, "resolver") \/ flow'[0] = Idle
    BY <1>0, <1>5 DEF RegisterResolver, Return
  <2> QED BY <1>0, <1>5, <2>1, GoesTo DEF InUnit
<1>6. CASE Unit(f)
  <2>1. CASE RecordUnit(f) \/ CheckCi(f) \/ CloseTicket(f)
    <3>1. Go(f, "ci") \/ Go(f, "close") \/ flow'[f] = Idle
      BY <1>0, <2>1 DEF RecordUnit, CheckCi, CloseTicket, Return
    <3> QED BY <1>0, <3>1, GoesTo DEF InUnit
  <2> QED BY <1>6, <2>1 DEF Unit, GateUnit, VerifyUnit, PushUnit, WriteManifest, InUnit
<1>7. ASSUME NEW u \in Units, f = u[1], SettleResolver(u), flow'[f] # flow[f]
      PROVE  ~integration'.conflict
  <2>1. integration' = [integration EXCEPT !.conflict = FALSE]
    BY <1>7 DEF SettleResolver
  <2>2. [integration EXCEPT !.conflict = FALSE].conflict = FALSE
    BY DEF TypeInv, PendingType, NoIntegration
  <2> QED BY <2>1, <2>2
<1> QED BY <1>0, <1>1, <1>2, <1>3, <1>4, <1>5, <1>6, <1>7, WhoMoves

\* A conflict begins to wait when it is found, or recovered, and no unit goes on then.
LEMMA WhoWaits ==
  ASSUME TypeInv, TreeInv, UndisturbedInv, [PipelineNext]_vars,
         integration'.conflict, ~integration.conflict
  PROVE  \A f \in Flows : flow'[f].at \notin InUnit
<1>0. /\ flow \in [Flows -> Flow] /\ 0 \in Flows /\ NoIntegration.conflict = FALSE
      /\ integration' # integration /\ NoIntegration.unit = NoUnit
  BY DEF TypeInv, FlowType, Flows, NoIntegration
<1>1. ASSUME NEW t \in Tickets, RecoverPending(t) PROVE \A f \in Flows : flow'[f].at \notin InUnit
  <2>1. integration.unit = NoUnit /\ flow' = flow
    BY <1>0, <1>1 DEF RecoverPending, MustRecover, NothingPending, control
  <2>2. ASSUME NEW f \in Flows, flow[f].at \in InUnit PROVE FALSE
    <3>1. flow[f].unit = NoUnit
      BY <2>1, <2>2 DEF TreeInv, OwnInv
    <3> QED BY <2>2, <3>1, UnitFacts DEF TypeInv, FlowType, InUnit
  <2> QED BY <2>1, <2>2
<1>2. CASE MergeUnit
  <2> DEFINE y == [Idle EXCEPT !.at = "resolve", !.unit = flow[0].unit]
  <2>1. y.at = "resolve"
    BY DEF Idle
  <2>2. flow' = [flow EXCEPT ![0] = y] /\ flow[0].at = "merge"
    BY <1>0, <1>2 DEF MergeUnit, Enter
  <2> HIDE DEF y
  <2>3. \A f \in Flows : f # 0 => flow[f].at \notin InUnit
    BY <1>0, <2>2 DEF TreeInv, OwnInv, InUnit
  <2> QED BY <1>0, <2>1, <2>2, <2>3 DEF InUnit
<1>3. CASE Dispose
  <2>1. flow[0].at \in {"close disposition", "leave-open disposition"}
    BY <1>3 DEF Dispose
  <2>2. integration' = integration \/ integration' = [unit |-> flow[0].unit, conflict |-> FALSE]
    BY <1>3, <2>1 DEF Dispose
  <2> QED BY <1>0, <2>2
<1>4. CASE PlanImplementation
  <2>1. integration' = integration \/ ~integration'.conflict
    BY <1>4 DEF PlanImplementation
  <2> QED BY <1>0, <2>1
<1>5. CASE LoadUnit \/ (\E f \in DOMAIN flow : WriteManifest(f)) \/ SessionEnds \/ Terminate
  BY <1>0, <1>5 DEF LoadUnit, WriteManifest, SessionEnds, Terminate
<1>6. ASSUME NEW w \in Workers, SettleResolver(w[2]) PROVE FALSE
  <2>1. [integration EXCEPT !.conflict = FALSE].conflict = FALSE
    BY DEF TypeInv, PendingType, NoIntegration
  <2> QED BY <1>0, <1>6, <2>1 DEF SettleResolver
<1> QED BY <1>0, <1>1, <1>2, <1>3, <1>4, <1>5, <1>6, WhoIntegrates

\* A step of a unit that is under way starts with no conflict that waits.
LEMMA UnitsUndisturbed ==
  ASSUME TypeInv, TreeInv, UndisturbedInv, [PipelineNext]_vars, NEW f \in Flows,
         flow'[f].at \in InUnit
  PROVE  ~integration'.conflict
BY WhoBegins, WhoWaits DEF UndisturbedInv

\* The conflict of an unfinished merge waits as long as its resolver works.
LEMMA ConflictStays ==
  ASSUME TypeInv, TreeInv, PushedInv, UndisturbedInv, [PipelineNext]_vars, NEW u \in Units,
         unfinished = u, integration = [unit |-> u, conflict |-> TRUE],
         (Calls(u) \/ Resolving(u))'
  PROVE  integration' = integration
<1> SUFFICES ASSUME integration' # integration PROVE FALSE
  OBVIOUS
<1>0. /\ integration.conflict /\ integration # NoIntegration /\ DOMAIN flow = Flows /\ 0 \in Flows
      /\ Idle.at = "idle"
  BY IdleType DEF NoIntegration, TypeInv, FlowType, Flows
<1>1. ASSUME NEW t \in Tickets, RecoverPending(t) PROVE FALSE
  BY <1>0, <1>1 DEF RecoverPending, MustRecover, NothingPending
<1>2. CASE Dispose
  <2>1. flow[0].at \in {"close disposition", "leave-open disposition"}
    BY <1>2 DEF Dispose
  <2> QED BY <1>0, <1>2, <2>1 DEF Dispose
<1>3. CASE LoadUnit \/ MergeUnit \/ \E f \in DOMAIN flow : WriteManifest(f)
  BY <1>0, <1>3 DEF UndisturbedInv, LoadUnit, MergeUnit, WriteManifest, InUnit
<1>4. CASE PlanImplementation
  BY <1>0, <1>4 DEF PlanImplementation, TreeInv, LoopInv
<1>5. ASSUME NEW w \in Workers, SettleResolver(w[2]) PROVE FALSE
  <2>1. w[2] = u /\ Head(mail[Resolve(u)]) = "completed" /\ Resolve(u) \in heard
    BY <1>5 DEF SettleResolver, Resolve
  <2>2. u \in local
    BY <2>1, HeardResolved DEF PushedInv, ConflictInv
  <2> QED BY <2>2 DEF UndisturbedInv
<1>6. CASE SessionEnds
  <2>1. flow'[0] = Idle /\ process'[Resolve(u)] = "none"
    BY <1>0, <1>6, UnitFacts DEF SessionEnds, Flows, Resolve
  <2> QED BY <1>0, <2>1 DEF Calls, Resolving
<1>7. CASE Terminate
  BY <1>7 DEF Terminate, PushedInv
<1> QED BY <1>1, <1>2, <1>3, <1>4, <1>5, <1>6, <1>7, WhoIntegrates

LEMMA ResolversWait ==
  ASSUME TypeInv, TreeInv, PushedInv, UndisturbedInv, [PipelineNext]_vars, NEW u \in Units,
         unfinished' = u, (Calls(u) \/ Resolving(u))'
  PROVE  integration' = [unit |-> u, conflict |-> TRUE]
<1>0. u # NoUnit /\ 0 \in Flows /\ flow \in [Flows -> Flow] /\ Idle.at = "idle"
  BY UnitFacts, IdleType DEF TypeInv, FlowType, Flows
<1>1. CASE unfinished = u
  <2>1. ~(MergeUnit /\ Calls(u)')
    <3> SUFFICES ASSUME MergeUnit, Calls(u)' PROVE FALSE
      OBVIOUS
    <3>1. ~Mergeable(flow[0].unit)
      BY <1>0, <1>1 DEF Mergeable
    <3>2. flow'[0] = Idle
      BY <1>0, <3>1 DEF MergeUnit, FailUnit, Return
    <3> QED BY <1>0, <3>2 DEF Calls
  <2>2. CASE Calls(u) \/ Resolving(u)
    <3>1. integration = [unit |-> u, conflict |-> TRUE]
      BY <1>1, <2>2 DEF UndisturbedInv
    <3> QED BY <1>1, <3>1, ConflictStays
  <2>3. CASE RetryIntegration /\ integration.conflict /\ integration.unit = u
    <3>1. integration = [unit |-> u, conflict |-> TRUE]
      BY <2>3 DEF TypeInv, PendingType, NoIntegration
    <3> QED BY <2>3, <3>1 DEF RetryIntegration
  <2>4. Resolving(u)' => Resolving(u) \/ Calls(u)
    BY WhoResolves DEF Calls
  <2> QED BY <2>1, <2>2, <2>3, <2>4, WhoCalls
<1>2. CASE unfinished # u
  <2>1. CASE MergeUnit
    <3>1. unfinished' = flow[0].unit /\ integration.unit = flow[0].unit
          /\ integration' = [unit |-> flow[0].unit, conflict |-> TRUE]
      BY <1>0, <1>2, <2>1 DEF MergeUnit, TreeInv, OwnInv, InUnit
    <3> QED BY <3>1
  <2>2. CASE Terminate
    BY <1>2, <2>2 DEF Terminate, PushedInv
  <2>3. CASE \E w \in Workers : Report(w, "completed")
    BY <1>0, <1>2, <2>3 DEF Report
  <2> QED BY <1>2, <2>1, <2>2, <2>3, WhoMerges
<1> QED BY <1>1, <1>2

LEMMA WhoVerifies ==
  ASSUME [PipelineNext]_vars, verified' # verified
  PROVE  \E f \in DOMAIN flow : VerifyUnit(f)
BY DEF PipelineNext, Advance, ChooseRework, RecoverPending, ChooseImplement, ChooseCheckCi,
      ChooseRetryCi, Choose, ChooseDisposition, RetryIntegration, LeaveOpenCi, Loop, Dispose,
      LoadUnit, MergeUnit, RegisterResolver, LaunchResolver, PlanImplementation, CreateWorkspace,
      RegisterWorker, LaunchWorker, RePush, ReopenTicket, UnrecordTicket, Unit, GateUnit,
      PushUnit, WriteManifest, RecordUnit, CheckCi, CloseTicket, Event, ReceiveEvent,
      SettleResolver, SettleResult, SettleExit, LoseEvent, SynthesizeExit, Report, Exit,
      ReconcileBlocked, BeginStop, Stop, StopWorkers, Pause, EmergencyStop, Terminate, Quit, Crash,
      BeginRun, git, vars

\* A flow comes to its push from the verification.
LEMMA WhoComesToPush ==
  ASSUME TypeInv, [PipelineNext]_vars, NEW f \in Flows, flow'[f].at = "push"
  PROVE  flow'[f] = flow[f] \/ (VerifyUnit(f) /\ local \subseteq verified')
<1>0. /\ flow \in [Flows -> Flow] /\ 0 \in Flows /\ Idle.at = "idle"
      /\ flow'[f].at \in InUnit \cup {"resolve", "resolver"}
  BY IdleType DEF TypeInv, FlowType, Flows, InUnit
<1>2. ~(f = 0 /\ Dispose)
  BY <1>0, DisposeGoes
<1>3. ~(f = 0 /\ RetryIntegration)
  <2> SUFFICES ASSUME f = 0, RetryIntegration PROVE FALSE
    OBVIOUS
  <2>1. integration.unit \in Units /\ integration.conflict \in BOOLEAN
    BY DEF RetryIntegration, TypeInv, PendingType
  <2>2. RunUnit(integration.unit, integration.conflict)
    BY DEF RetryIntegration
  <2> QED BY <1>0, <2>1, <2>2, RunUnitGoes
<1>4. ~(f = 0 /\ (LoadUnit \/ MergeUnit \/ RegisterResolver))
  <2> SUFFICES ASSUME f = 0, LoadUnit \/ MergeUnit \/ RegisterResolver PROVE FALSE
    OBVIOUS
  <2> DEFINE y == [Idle EXCEPT !.at = "resolve", !.unit = flow[0].unit]
  <2>1. y.at = "resolve"
    BY DEF Idle
  <2>2. \/ flow'[0] = Idle \/ flow'[0] = y
        \/ \E at \in {"merge", "gate", "resolver"} : Go(0, at)
    BY <1>0 DEF LoadUnit, MergeUnit, RegisterResolver, FailUnit, Return, Enter
  <2> HIDE DEF y
  <2> QED BY <1>0, <2>1, <2>2, GoesTo
<1>6. CASE Unit(f)
  <2>1. CASE VerifyUnit(f)
    <3>1. flow'[f] = Idle \/ verified' = local
      BY <1>0, <2>1 DEF VerifyUnit, FailUnit, Return
    <3> QED BY <1>0, <2>1, <3>1
  <2>2. PICK y \in Flow : y = flow[f]
    BY <1>0
  <2>3. [y EXCEPT !.at = "verify", !.saw = integrated].at = "verify"
    BY DEF Flow
  <2>4. CASE ~VerifyUnit(f)
    <3>1. \/ flow'[f] = Idle \/ flow'[f].at = "verify"
          \/ \E at \in {"manifest", "record", "ci", "close"} : Go(f, at)
      BY <1>0, <1>6, <2>2, <2>3, <2>4 DEF Unit, GateUnit, PushUnit, WriteManifest, RecordUnit,
                   CheckCi, CloseTicket, FailUnit, Return
    <3> QED BY <1>0, <3>1, GoesTo
  <2> QED BY <2>1, <2>4
<1>7. ASSUME NEW u \in Units, f = u[1], SettleResolver(u) PROVE flow'[f] = flow[f]
  <2> DEFINE y == [Idle EXCEPT !.at = "gate", !.unit = u, !.own = TRUE]
  <2>1. y.at = "gate"
    BY DEF Idle
  <2>2. flow' = flow \/ flow' = [flow EXCEPT ![u[1]] = y]
    BY <1>7 DEF SettleResolver, Finish
  <2> HIDE DEF y
  <2> QED BY <1>0, <1>7, <2>1, <2>2
<1> QED BY <1>0, <1>2, <1>3, <1>4, <1>6, <1>7, WhoMoves

LEMMA PushesVerified ==
  ASSUME TypeInv, TreeInv, PushedInv, UndisturbedInv, [PipelineNext]_vars,
         NEW f \in Flows, flow'[f].at = "push"
  PROVE  local' \subseteq verified'
<1>0. DOMAIN flow = Flows /\ 0 \in Flows
  BY DEF TypeInv, FlowType, Flows
<1>1. flow[f].at \in {"verify", "push"}
  BY WhoComesToPush DEF VerifyUnit
<1>2. flow[f].own /\ \A g \in Flows : flow[g].own => f = g
  BY <1>1 DEF TreeInv, OwnInv, InUnit
<1>3. UNCHANGED local
  <2>1. CASE MergeUnit
    <3>1. flow[0].own /\ flow[0].at = "merge"
      BY <1>0, <2>1 DEF MergeUnit, TreeInv, OwnInv, InUnit
    <3> QED BY <1>0, <1>1, <1>2, <3>1
  <2>2. CASE Terminate
    BY <2>2 DEF Terminate, PushedInv
  <2>3. ASSUME NEW w \in Workers, Report(w, "completed") PROVE UNCHANGED local
    <3>1. CASE w[1] = "resolve" /\ unfinished = w[2]
      <4>1. w[2] \in Units /\ Resolving(w[2])
        BY <2>3, <3>1, UnitFacts DEF Report, Works, Resolving, Resolve
      <4>2. integration = [unit |-> w[2], conflict |-> TRUE]
        BY <3>1, <4>1 DEF UndisturbedInv
      <4>3. integration.conflict
        BY <4>2
      <4> QED BY <1>1, <4>3 DEF UndisturbedInv, InUnit
    <3>2. CASE ~(w[1] = "resolve" /\ unfinished = w[2])
      BY <2>3, <3>2 DEF Report
    <3> QED BY <3>1, <3>2
  <2> QED BY <2>1, <2>2, <2>3, WhoMerges
<1>4. CASE flow'[f] = flow[f]
  <2>1. local \subseteq verified
    BY <1>4 DEF UndisturbedInv
  <2>2. ASSUME NEW g \in Flows, VerifyUnit(g) PROVE FALSE
    <3>1. flow[g].at = "verify" /\ flow[g].own
      BY <2>2 DEF VerifyUnit, TreeInv, OwnInv, InUnit
    <3> QED BY <1>2, <1>4, <3>1
  <2> QED BY <1>0, <1>3, <2>1, <2>2, WhoVerifies
<1> QED BY <1>3, <1>4, WhoComesToPush

LEMMA UndisturbedHolds ==
  TypeInv /\ TreeInv /\ PushedInv /\ UndisturbedInv /\ [PipelineNext]_vars => UndisturbedInv'
BY UnfinishedStays, UnitsUndisturbed, ResolversWait, PushesVerified DEF UndisturbedInv

PushesWhatIsVerified ==
  remote' # remote /\ flow[0].at # "repush" => remote' \subseteq verified

LEMMA OnlyVerified ==
  TypeInv /\ UndisturbedInv /\ [PipelineNext]_vars => PushesWhatIsVerified
<1> SUFFICES ASSUME TypeInv, UndisturbedInv, [PipelineNext]_vars,
                    remote' # remote, flow[0].at # "repush"
             PROVE  remote' \subseteq verified
  BY DEF PushesWhatIsVerified
<1>1. DOMAIN flow = Flows
  BY DEF TypeInv, FlowType
<1>2. PICK f \in Flows : PushUnit(f)
  BY <1>1, WhoPushes DEF RePush
<1>3. flow[f].at = "push" /\ remote' = local
  BY <1>2 DEF PushUnit
<1> QED BY <1>3 DEF UndisturbedInv

\* The property UnitsPushVerified, unless a termination discards or a stop overtakes
\* an event that is being handled: no retry of a conflict, no resolver that reports
\* late and no other unit changes the Integration branch between the verification
\* of a unit and its push.
THEOREM PushesAreVerified ==
  ASSUME NoDiscard, EventsAreShort
  PROVE  PipelineSpec => UnitsPushVerified
<1> DEFINE Inv == TypeInv /\ PushedInv /\ TreeInv /\ UndisturbedInv
<1>1. PipelineInit => Inv
  BY InitTypes, InitPushed, InitTree, InitUndisturbed
<1>2. Inv /\ [PipelineNext]_vars => Inv'
  BY TypesHold, FlowsHold, ConflictHolds, RecordHolds, NothingDiscarded, TreeHolds,
     UndisturbedHolds DEF PushedInv
<1>3. Inv /\ [PipelineNext]_vars => [PushesWhatIsVerified]_vars
  BY OnlyVerified
<1>4. PipelineSpec => [][PushesWhatIsVerified]_vars
  BY <1>1, <1>2, <1>3, PTL DEF PipelineSpec
<1> QED BY <1>4 DEF UnitsPushVerified, PushesWhatIsVerified
=============================================================================
