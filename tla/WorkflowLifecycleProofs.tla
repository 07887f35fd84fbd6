----------------------- MODULE WorkflowLifecycleProofs -----------------------
(***************************************************************************)
(* Theorems about WorkflowLifecycle, for every set of homes and tickets    *)
(* and for every bound.                                                    *)
(*                                                                         *)
(* A draft becomes at most one workflow, and the tickets of a manifest are *)
(* a whole breakdown, whether or not reads are short, leases last and the  *)
(* panel reads beside a command.  Neither needs the coordinator lease: a   *)
(* draft is one home's and is forgotten when its confirmation ends, so its *)
(* tickets and its workflow are that home's alone; and every manifest and  *)
(* every copy of one lists tickets that were linked before it was made.    *)
(*                                                                         *)
(* No manifest write undoes another, and a completed workflow is clean,    *)
(* when no copy is overtaken before its lease is acquired, leases last and *)
(* the panel reads between commands.  These are what the lease is for:     *)
(* the argument is that a home's copies of the workflow it holds are       *)
(* current, but for its own writes whose answers were lost.                *)
(***************************************************************************)
EXTENDS WorkflowLifecycle, TLAPS

LEMMA RowOf == ASSUME NEW d, NEW T, NEW i \in {d} \X T PROVE \E t \in T : i = <<d, t>>
OBVIOUS

USE LifecycleAssumption

(***************************************************************************)
(* Types                                                                   *)
(***************************************************************************)

StageNames == {"none", "spec-published", "tickets-published", "merged", "completed"}

LEMMA StageSet == {Stages[i] : i \in 1..5} = StageNames
BY DEF Stages, StageNames

LEMMA ManifestType ==
  Manifests = [id : 0..MaxWorkflows, stage : StageNames, tickets : SUBSET Issues,
               integrated : SUBSET Tickets]
BY StageSet DEF Manifests

LEMMA ConstantTypes ==
  /\ NoManifest \in Manifests
  /\ NoRoute \in Routes /\ Unbound \in Routes
  /\ NoDraft \in Drafts
  /\ NoPoll \in Polls
  /\ Idle \in Flows
<1>1. NoManifest \in Manifests
  BY ManifestType DEF NoManifest, StageNames
<1> QED
  BY <1>1 DEF NoRoute, Unbound, Routes, NoDraft, Drafts, NoPoll, Polls, Idle, Flows, Places, Commands

LEMMA InitType == LifecycleInit => LifecycleTypeOK
<1> SUFFICES ASSUME LifecycleInit PROVE LifecycleTypeOK
  OBVIOUS
<1>1. \A h \in Homes : cache[h].kind \notin {"bound", "lease-held"}
  BY DEF LifecycleInit, NoRoute
<1> QED BY <1>1, ConstantTypes DEF LifecycleInit, LifecycleTypeOK, Workflows

LEMMA FaultType ==
  ASSUME LifecycleTypeOK, Well \/ Fault
  PROVE  faults' \in 0..MaxFaults
BY DEF LifecycleTypeOK, Well, Fault

LEMMA HomeType ==
  ASSUME LifecycleTypeOK, NEW h \in Homes
  PROVE  /\ Me(h) \in Sessions
         /\ flow[h] \in Flows /\ Work(h) \in 0..MaxWorkflows
         /\ cache[h] \in Routes /\ pending[h] \in Drafts /\ poll[h] \in Polls
<1>1. session[h] \in 1..(MaxCrashes + 1)
  BY DEF LifecycleTypeOK
<1>2. flow[h] \in Flows
  BY DEF LifecycleTypeOK
<1>3. Work(h) \in 0..MaxWorkflows
  BY <1>2 DEF Work, Flows, Manifests
<1> QED BY <1>1, <1>2, <1>3 DEF LifecycleTypeOK, Me, Sessions

LEMMA ReleasedType ==
  ASSUME LifecycleTypeOK, NEW h \in Homes, NEW w
  PROVE  Released(h, w) \in [Workflows -> Sessions \cup {Nobody}]
BY DEF Released, LifecycleTypeOK

LEMMA EnsuredType ==
  ASSUME LifecycleTypeOK, NEW h \in Homes, NEW w \in 0..MaxWorkflows, NEW ok \in BOOLEAN,
         Ensured(h, w, ok)
  PROVE  /\ lease' \in [Workflows -> Sessions \cup {Nobody}]
         /\ held' \in [Homes -> 0..MaxWorkflows]
         /\ faults' \in 0..MaxFaults
<1>1. faults' \in 0..MaxFaults
  BY FaultType DEF Ensured
<1>2. CASE UNCHANGED authority
  BY <1>1, <1>2 DEF authority, LifecycleTypeOK
<1>3. CASE /\ lease' = LET kept == IF held[h] = w THEN lease ELSE Released(h, held[h])
                       IN IF ok THEN [kept EXCEPT ![w] = Me(h)] ELSE kept
           /\ held' = [held EXCEPT ![h] = IF ok THEN w ELSE 0]
  <2> DEFINE kept == IF held[h] = w THEN lease ELSE Released(h, held[h])
  <2>1. kept \in [Workflows -> Sessions \cup {Nobody}]
    BY ReleasedType DEF LifecycleTypeOK
  <2>2. lease' = IF ok THEN [kept EXCEPT ![w] = Me(h)] ELSE kept
    BY <1>3
  <2> HIDE DEF kept
  <2>3. lease' \in [Workflows -> Sessions \cup {Nobody}]
    BY <2>1, <2>2, HomeType
  <2>4. held' \in [Homes -> 0..MaxWorkflows]
    BY <1>3 DEF LifecycleTypeOK
  <2> QED BY <1>1, <2>3, <2>4
<1> QED BY <1>2, <1>3 DEF Ensured

LEMMA AuthorisedType ==
  ASSUME LifecycleTypeOK, NEW h \in Homes, NEW ok \in BOOLEAN, Authorised(h, ok)
  PROVE  /\ lease' \in [Workflows -> Sessions \cup {Nobody}]
         /\ held' \in [Homes -> 0..MaxWorkflows]
         /\ faults' \in 0..MaxFaults
<1>1. CASE Ensured(h, Work(h), ok)
  BY <1>1, EnsuredType, HomeType
<1>2. CASE UNCHANGED authority /\ Well
  BY <1>2 DEF authority, Well, LifecycleTypeOK
<1> QED BY <1>1, <1>2 DEF Authorised

LEMMA ReleaseType ==
  ASSUME LifecycleTypeOK, NEW h \in Homes, Release(h)
  PROVE  /\ lease' \in [Workflows -> Sessions \cup {Nobody}]
         /\ held' \in [Homes -> 0..MaxWorkflows]
BY ReleasedType DEF Release, LifecycleTypeOK

\* A step that changes nothing but where a home is keeps the types.
LEMMA FlowType ==
  ASSUME LifecycleTypeOK, NEW h \in Homes,
         Stop(h) \/ UNCHANGED flow \/ \E at \in Places : Go(h, at)
  PROVE  flow' \in [Homes -> Flows]
<1>1. CASE Stop(h) \/ UNCHANGED flow
  BY <1>1, ConstantTypes DEF Stop, LifecycleTypeOK
<1>2. ASSUME NEW at \in Places, Go(h, at) PROVE flow' \in [Homes -> Flows]
  <2>1. [flow[h] EXCEPT !.at = at] \in Flows
    BY HomeType DEF Flows
  <2>2. flow' = [flow EXCEPT ![h] = [flow[h] EXCEPT !.at = at]]
    BY <1>2 DEF Go
  <2> QED BY <2>1, <2>2 DEF LifecycleTypeOK
<1> QED BY <1>1, <1>2

LEMMA SettledType ==
  ASSUME LifecycleTypeOK, NEW h \in Homes, Settled(h) \/ UNCHANGED pending
  PROVE  pending' \in [Homes -> Drafts]
BY ConstantTypes DEF Settled, LifecycleTypeOK

\* What is read of the tracker are copies of manifests.
LEMMA ActiveType == ASSUME LifecycleTypeOK PROVE ActiveWorkflows \in SUBSET Copies
<1> SUFFICES ASSUME NEW w \in open, manifest[w].stage \notin {"none", "completed"}
             PROVE  manifest[w] \in Copies
  BY DEF ActiveWorkflows
<1>1. w \in Workflows /\ manifest[w] # NoManifest
  BY DEF LifecycleTypeOK, NoManifest
<1>2. manifest[w].id = w /\ w # 0 /\ manifest[w] \in Manifests
  BY <1>1 DEF LifecycleTypeOK, Workflows
<1> QED BY <1>2 DEF Copies

LEMMA SetRouteType ==
  ASSUME LifecycleTypeOK, NEW h \in Homes, NEW seen \in SUBSET Copies, SetRoute(h, seen)
  PROVE  /\ lease' \in [Workflows -> Sessions \cup {Nobody}]
         /\ held' \in [Homes -> 0..MaxWorkflows] /\ binding' \in [Homes -> 0..MaxWorkflows]
         /\ cache' \in [Homes -> Routes]
         /\ \A g \in Homes : cache'[g].kind \in {"bound", "lease-held"} => cache'[g].active.id # 0
         /\ faults' \in 0..MaxFaults
<1>1. CASE /\ cache' = [cache EXCEPT ![h] = Unbound]
           /\ binding' = [binding EXCEPT ![h] = 0]
           /\ UNCHANGED authority /\ Well
  <2>1. Unbound \in Routes /\ Unbound.kind = "selection-required"
    BY ConstantTypes DEF Unbound, NoRoute
  <2>2. \A g \in Homes : cache'[g] = IF g = h THEN Unbound ELSE cache[g]
    BY <1>1 DEF LifecycleTypeOK
  <2>3. \A g \in Homes : cache'[g].kind \in {"bound", "lease-held"} => cache'[g].active.id # 0
    BY <2>1, <2>2 DEF LifecycleTypeOK
  <2>4. cache' \in [Homes -> Routes] /\ binding' \in [Homes -> 0..MaxWorkflows]
    BY <1>1, <2>1 DEF LifecycleTypeOK
  <2> QED BY <1>1, <2>3, <2>4 DEF LifecycleTypeOK, authority, Well
<1>2. ASSUME NEW m \in seen, NEW ok \in BOOLEAN, Ensured(h, m.id, ok),
             cache' = [cache EXCEPT ![h] = [kind |-> IF ok THEN "bound" ELSE "lease-held", active |-> m]],
             UNCHANGED binding
      PROVE  /\ lease' \in [Workflows -> Sessions \cup {Nobody}]
             /\ held' \in [Homes -> 0..MaxWorkflows] /\ binding' \in [Homes -> 0..MaxWorkflows]
             /\ cache' \in [Homes -> Routes]
             /\ \A g \in Homes : cache'[g].kind \in {"bound", "lease-held"} => cache'[g].active.id # 0
             /\ faults' \in 0..MaxFaults
  <2>1. m \in Manifests /\ m.id # 0 /\ m.id \in 0..MaxWorkflows
    BY DEF Copies, Manifests
  <2> DEFINE route == [kind |-> IF ok THEN "bound" ELSE "lease-held", active |-> m]
  <2>2. route \in Routes /\ route.active.id # 0
    BY <2>1 DEF Routes
  <2> QED BY <1>2, <2>1, <2>2, EnsuredType DEF LifecycleTypeOK
<1> QED BY <1>1, <1>2 DEF SetRoute

\* A command is one that runs a route: it starts somewhere, with no copy yet.
Starts(c) == /\ c \in Flows
             /\ c.cmd \in Commands \ {"none", "publish-spec", "resume"}

LEMMA ProceedType ==
  ASSUME LifecycleTypeOK, NEW h \in Homes, NEW c, Starts(c), NEW r \in Routes, Proceed(h, c, r)
  PROVE  /\ flow' \in [Homes -> Flows]
         /\ unit' \in [Homes -> Tickets \cup {0}]
         /\ pending' \in [Homes -> Drafts]
         /\ drafts' \in 0..MaxDrafts
<1>1. flow' \in [Homes -> Flows]
  <2>1. CASE Enters(h, c, r)
    <3>1. c.cmd \in {"follow-up", "publish-tickets", "integrate", "merge", "cleanup"}
      BY <2>1 DEF Enters
    <3>2. FirstStep(c.cmd) \in Places
      BY <3>1 DEF FirstStep, Places
    <3>3. pending[h].id \in 0..MaxDrafts /\ r.active \in Manifests
      BY HomeType DEF Drafts, Routes
    <3>4. [c EXCEPT !.at = FirstStep(c.cmd), !.seen = {}, !.active = r.active, !.draft = pending[h].id]
            \in Flows
      BY <3>2, <3>3 DEF Starts, Flows
    <3> QED BY <2>1, <3>4 DEF Proceed, LifecycleTypeOK
  <2>2. CASE ~Enters(h, c, r)
    BY <2>2, ConstantTypes DEF Proceed, LifecycleTypeOK
  <2> QED BY <2>1, <2>2
<1>2. unit' \in [Homes -> Tickets \cup {0}]
  BY DEF Proceed, LifecycleTypeOK, Starts, Flows
<1>3. pending' \in [Homes -> Drafts] /\ drafts' \in 0..MaxDrafts
  <2>1. CASE Plans(h, c, r)
    <3>1. drafts + 1 \in 0..MaxDrafts /\ r.active.id \in 0..MaxWorkflows
      BY <2>1 DEF Proceed, NewDraft, LifecycleTypeOK, Routes, Manifests
    <3>2. [kind |-> IF c.cmd = "create-spec" THEN "spec" ELSE "tickets",
           id |-> drafts + 1, of |-> r.active.id] \in Drafts
      BY <3>1 DEF Drafts
    <3> QED BY <2>1, <3>1, <3>2 DEF Proceed, NewDraft, LifecycleTypeOK
  <2>2. CASE ~Plans(h, c, r)
    BY <2>2, ConstantTypes DEF Proceed, LifecycleTypeOK
  <2> QED BY <2>1, <2>2
<1> QED BY <1>1, <1>2, <1>3

(***************************************************************************)
(* What a command is at each place                                         *)
(***************************************************************************)

Purpose(at) ==
  CASE at = "idle" -> {"none"}
    [] at = "route" -> Commands \ {"none", "publish-spec", "resume"}
    [] at \in {"create", "claim", "found"} -> {"publish-spec", "follow-up"}
    [] at = "bind" -> {"publish-spec", "follow-up", "resume"}
    [] at = "tickets" -> {"publish-tickets"}
    [] at = "push" -> {"integrate"}
    [] at \in {"local", "remote", "close", "unbind"} -> {"cleanup"}
    [] OTHER -> {"publish-tickets", "integrate", "merge", "cleanup"}

\* A command goes only through its own places, a confirmation works on the
\* draft that is pending, and a copy has the stage its command is for.
PlaceOf(f, p) ==
  /\ p = NoDraft \/ (p.kind # "none" /\ p.id # 0)
  /\ f.cmd \in Purpose(f.at)
  /\ f.cmd = "publish-tickets" => p.kind = "tickets" /\ (f.at # "route" => f.draft = p.id)
  /\ f.cmd = "publish-spec" => p.kind = "spec" /\ (f.at = "create" => f.draft = p.id)
  /\ f.cmd = "integrate" => f.ticket \in Tickets
  /\ f.at \notin {"idle", "route", "create"} => f.active.id # 0
  /\ f.cmd \in {"integrate", "merge"} /\ f.at # "route" => f.active.stage = "tickets-published"
  /\ f.cmd = "cleanup" /\ f.at # "route" => f.active.stage = "merged"
PlaceAt(h) == PlaceOf(flow[h], pending[h])
PlaceInv == \A h \in Homes : PlaceAt(h)

LEMMA PlaceIdle == PlaceOf(Idle, NoDraft)
<1>1. Idle.at = "idle" /\ Idle.cmd = "none"
  BY DEF Idle
<1>2. Idle.cmd \in Purpose(Idle.at)
  BY <1>1 DEF Purpose
<1> QED BY <1>1, <1>2 DEF PlaceOf

LEMMA PlaceStop ==
  ASSUME LifecycleTypeOK, NEW h \in Homes, PlaceAt(h), Stop(h),
         pending' = pending \/ pending' = [pending EXCEPT ![h] = NoDraft]
  PROVE  PlaceAt(h)'
<1>1. flow'[h] = Idle /\ (pending'[h] = pending[h] \/ pending'[h] = NoDraft)
  BY DEF Stop, LifecycleTypeOK
<1> QED BY <1>1, PlaceIdle DEF PlaceAt, PlaceOf, Idle

LEMMA PlaceFail ==
  ASSUME LifecycleTypeOK, NEW h \in Homes, PlaceAt(h), Fail(h)
  PROVE  PlaceAt(h)'
BY PlaceStop DEF Fail, Settled

\* Going on to another place of the same command.
LEMMA PlaceGo ==
  ASSUME LifecycleTypeOK, NEW h \in Homes, PlaceAt(h), NEW at \in Places \ {"route", "create"},
         Go(h, at), UNCHANGED pending, flow[h].cmd \in Purpose(at),
         flow[h].at \notin {"idle", "route", "create"}
  PROVE  PlaceAt(h)'
<1>1. flow'[h] = [flow[h] EXCEPT !.at = at] /\ flow[h] \in Flows
  BY DEF Go, LifecycleTypeOK
<1>2. /\ flow'[h].at = at /\ flow'[h].cmd = flow[h].cmd /\ flow'[h].draft = flow[h].draft
      /\ flow'[h].ticket = flow[h].ticket /\ flow'[h].active = flow[h].active
  BY <1>1 DEF Flows
<1> QED BY <1>2 DEF PlaceAt, PlaceOf

LEMMA PlaceProceed ==
  ASSUME LifecycleTypeOK, NEW h \in Homes, PlaceAt(h), NEW c, Starts(c), NEW r \in Routes,
         c.cmd = "publish-tickets" => pending[h].kind = "tickets",
         c.cmd = "integrate" => c.ticket \in Tickets,
         r.kind = "bound" => r.active.id # 0,
         Proceed(h, c, r)
  PROVE  PlaceAt(h)'
<1>1. CASE Enters(h, c, r)
  <2>1. c.cmd \in {"follow-up", "publish-tickets", "integrate", "merge", "cleanup"}
    BY <1>1 DEF Enters
  <2>2. pending' = pending
    BY <1>1, <2>1 DEF Proceed, Plans
  <2> DEFINE f == [c EXCEPT !.at = FirstStep(c.cmd), !.seen = {}, !.active = r.active,
                            !.draft = pending[h].id]
  <2>3. flow'[h] = f
    BY <1>1 DEF Proceed, LifecycleTypeOK
  <2>4. /\ f.at = FirstStep(c.cmd) /\ f.cmd = c.cmd /\ f.draft = pending[h].id
        /\ f.ticket = c.ticket /\ f.active = r.active
    BY DEF Starts, Flows
  <2>5. c.cmd \in Purpose(FirstStep(c.cmd))
    BY <2>1 DEF Purpose, FirstStep
  <2>6. /\ c.cmd \in {"integrate", "merge"} => r.active.stage = "tickets-published"
        /\ c.cmd = "cleanup" => r.active.stage = "merged"
        /\ c.cmd # "follow-up" => r.active.id # 0
    BY <1>1 DEF Enters
  <2>7. FirstStep("follow-up") = "create"
    BY DEF FirstStep
  <2> QED BY <2>1, <2>2, <2>3, <2>4, <2>5, <2>6, <2>7 DEF PlaceAt, PlaceOf
<1>2. CASE ~Enters(h, c, r)
  <2>1. Stop(h)
    BY <1>2 DEF Proceed, Stop
  <2>2. CASE Plans(h, c, r)
    <3>1. /\ flow'[h] = Idle
          /\ pending'[h] = [kind |-> IF c.cmd = "create-spec" THEN "spec" ELSE "tickets",
                            id |-> drafts + 1, of |-> r.active.id]
      BY <2>1, <2>2 DEF Proceed, Stop, LifecycleTypeOK
    <3>2. drafts + 1 # 0
      BY DEF LifecycleTypeOK
    <3> QED BY <3>1, <3>2, PlaceIdle DEF PlaceAt, PlaceOf, Idle
  <2>3. CASE ~Plans(h, c, r)
    BY <2>1, <2>3, PlaceStop DEF Proceed
  <2> QED BY <2>2, <2>3
<1> QED BY <1>1, <1>2

LEMMA UpdatedType ==
  ASSUME LifecycleTypeOK, NEW h \in Homes, PlaceAt(h), flow[h].at = "write"
  PROVE  Updated(h) \in Manifests /\ Updated(h).id = Work(h)
<1>1. flow[h].active \in Manifests /\ flow[h].draft \in 0..MaxDrafts
  BY HomeType DEF Flows
<1>2. flow[h].cmd \in {"publish-tickets", "integrate", "merge", "cleanup"}
  BY DEF PlaceAt, PlaceOf, Purpose
<1>3. CASE flow[h].cmd = "publish-tickets"
  <2>1. flow[h].draft \in 1..MaxDrafts
    BY <1>1, <1>3, HomeType DEF PlaceAt, PlaceOf, NoDraft, Drafts
  <2>2. {flow[h].draft} \X Tickets \in SUBSET Issues
    BY <2>1 DEF Issues
  <2> QED BY <1>1, <1>3, <2>2, ManifestType DEF Updated, Work, StageNames
<1>4. CASE flow[h].cmd = "integrate"
  <2>1. flow[h].ticket \in Tickets
    BY <1>4 DEF PlaceAt, PlaceOf
  <2> QED BY <1>1, <1>4, <2>1, ManifestType DEF Updated, Work
<1>5. CASE flow[h].cmd \in {"merge", "cleanup"}
  BY <1>1, <1>5, ManifestType DEF Updated, Work, StageNames
<1> QED BY <1>2, <1>3, <1>4, <1>5

\* The types need what a command is at each place, and nothing else.
TypeInv == LifecycleTypeOK /\ PlaceInv

LEMMA BeginType ==
  ASSUME TypeInv, NEW h \in Homes, NEW cmd \in Commands \ {"none", "publish-spec", "resume"},
         NEW t \in Tickets \cup {0}, cmd = "integrate" => t \in Tickets, Begin(h, cmd, t)
  PROVE  LifecycleTypeOK' /\ PlaceAt(h)'
<1> DEFINE c == [Idle EXCEPT !.cmd = cmd, !.ticket = t]
<1>1. c \in Flows /\ c.cmd = cmd /\ c.ticket = t
  BY ConstantTypes DEF Idle, Flows
<1>2. Starts(c)
  BY <1>1 DEF Starts
<1>3. cmd = "publish-tickets" => pending[h].kind = "tickets"
  BY DEF Begin
<1>4. PlaceAt(h) /\ LifecycleTypeOK
  BY DEF TypeInv, PlaceInv
<1>5. CASE Proceed(h, c, cache[h]) /\ Well
  <2>0. cache[h].kind = "bound" => cache[h].active.id # 0
    BY <1>4 DEF LifecycleTypeOK
  <2>1. PlaceAt(h)'
    BY <1>1, <1>2, <1>3, <1>4, <1>5, <2>0, PlaceProceed, HomeType
  <2>2. /\ flow' \in [Homes -> Flows] /\ unit' \in [Homes -> Tickets \cup {0}]
        /\ pending' \in [Homes -> Drafts] /\ drafts' \in 0..MaxDrafts
    BY <1>2, <1>4, <1>5, ProceedType, HomeType
  <2> QED BY <1>4, <1>5, <2>1, <2>2
        DEF Begin, LifecycleTypeOK, tracker, artifacts, authority, Well
<1>6. CASE UNCHANGED <<pending, drafts, unit, flow>> /\ Fault
  <2>1. PlaceAt(h)'
    BY <1>4, <1>6 DEF PlaceAt
  <2> QED BY <1>4, <1>6, <2>1, FaultType DEF Begin, LifecycleTypeOK, tracker, artifacts, authority
<1>7. CASE /\ UNCHANGED <<pending, drafts, unit>> /\ Well
           /\ flow' = [flow EXCEPT ![h] = [c EXCEPT !.at = "route", !.seen = ActiveWorkflows]]
  <2> DEFINE f == [c EXCEPT !.at = "route", !.seen = ActiveWorkflows]
  <2>1. f \in Flows
    BY <1>1, <1>4, ActiveType DEF Flows, Places
  <2>2. f.at = "route" /\ f.cmd = cmd /\ f.ticket = t
    BY <1>1 DEF Flows
  <2>3. flow' \in [Homes -> Flows] /\ flow'[h] = f /\ pending'[h] = pending[h]
    BY <1>4, <1>7, <2>1 DEF LifecycleTypeOK
  <2>4. cmd \in Purpose("route")
    BY DEF Purpose
  <2>5. PlaceAt(h)'
    BY <1>3, <1>4, <2>2, <2>3, <2>4 DEF PlaceAt, PlaceOf
  <2> QED BY <1>4, <1>7, <2>3, <2>5 DEF Begin, LifecycleTypeOK, tracker, artifacts, authority, Well
<1> QED BY <1>5, <1>6, <1>7 DEF Begin, LoadRoute

LEMMA RouteType ==
  ASSUME TypeInv, NEW h \in Homes, RouteCommand(h)
  PROVE  LifecycleTypeOK' /\ PlaceAt(h)'
<1>1. PlaceAt(h) /\ LifecycleTypeOK
  BY DEF TypeInv, PlaceInv
<1>2. flow[h].seen \in SUBSET Copies /\ flow[h] \in Flows
  BY <1>1, HomeType DEF Flows
<1>3. /\ lease' \in [Workflows -> Sessions \cup {Nobody}]
      /\ held' \in [Homes -> 0..MaxWorkflows] /\ binding' \in [Homes -> 0..MaxWorkflows]
      /\ cache' \in [Homes -> Routes]
      /\ \A g \in Homes : cache'[g].kind \in {"bound", "lease-held"} => cache'[g].active.id # 0
      /\ faults' \in 0..MaxFaults
  BY <1>1, <1>2, SetRouteType DEF RouteCommand
<1>4. Starts(flow[h])
  BY <1>1, <1>2 DEF RouteCommand, PlaceAt, PlaceOf, Purpose, Starts
<1>5. cache'[h] \in Routes /\ Proceed(h, flow[h], cache'[h])
  BY <1>3 DEF RouteCommand
<1>6. /\ flow' \in [Homes -> Flows] /\ unit' \in [Homes -> Tickets \cup {0}]
      /\ pending' \in [Homes -> Drafts] /\ drafts' \in 0..MaxDrafts
  BY <1>1, <1>4, <1>5, ProceedType
<1>7. PlaceAt(h)'
  <2>1. /\ flow[h].cmd = "publish-tickets" => pending[h].kind = "tickets"
        /\ flow[h].cmd = "integrate" => flow[h].ticket \in Tickets
        /\ cache'[h].kind = "bound" => cache'[h].active.id # 0
    BY <1>1, <1>3 DEF PlaceAt, PlaceOf
  <2> QED BY <1>1, <1>4, <1>5, <2>1, PlaceProceed
<1> QED BY <1>1, <1>3, <1>6, <1>7 DEF RouteCommand, LifecycleTypeOK, tracker, artifacts

LEMMA CreateType ==
  ASSUME TypeInv, NEW h \in Homes, CreateSpecIssue(h)
  PROVE  LifecycleTypeOK' /\ PlaceAt(h)'
<1>1. PlaceAt(h) /\ LifecycleTypeOK /\ flow[h] \in Flows
  BY HomeType DEF TypeInv, PlaceInv
<1>2. PICK w \in Workflows :
        LET draft == IF Doing(h, "follow-up") THEN MaxDrafts + w ELSE flow[h].draft
        IN \/ /\ origin' = [origin EXCEPT ![w] = draft] /\ open' = open \cup {w}
              /\ \/ flow' = [flow EXCEPT ![h].at = "claim", ![h].draft = 0,
                                         ![h].active = [NoManifest EXCEPT !.id = w]] /\ Well
                 \/ Stop(h) /\ Fault
           \/ UNCHANGED <<origin, open>> /\ Stop(h) /\ Fault
  BY DEF CreateSpecIssue
<1>3. origin' \in [Workflows -> 0..(MaxDrafts + MaxWorkflows)] /\ open' \subseteq Workflows
  <2> DEFINE draft == IF Doing(h, "follow-up") THEN MaxDrafts + w ELSE flow[h].draft
  <2>1. draft \in 0..(MaxDrafts + MaxWorkflows)
    <3>1. MaxDrafts + w \in 0..(MaxDrafts + MaxWorkflows)
      BY DEF Workflows
    <3>2. flow[h].draft \in 0..(MaxDrafts + MaxWorkflows)
      BY <1>1 DEF Flows
    <3>3. CASE Doing(h, "follow-up")
      BY <3>1, <3>3
    <3>4. CASE ~Doing(h, "follow-up")
      BY <3>2, <3>4
    <3> QED BY <3>3, <3>4
  <2>2. \/ UNCHANGED <<origin, open>>
        \/ origin' = [origin EXCEPT ![w] = draft] /\ open' = open \cup {w}
    BY <1>2
  <2> HIDE DEF draft
  <2> QED BY <1>1, <2>1, <2>2 DEF LifecycleTypeOK
<1>4. faults' \in 0..MaxFaults
  BY <1>1, <1>2, FaultType
<1>5. flow' \in [Homes -> Flows] /\ PlaceAt(h)'
  <2>1. CASE Stop(h)
    BY <1>1, <2>1, FlowType, PlaceStop DEF CreateSpecIssue, memory
  <2>2. CASE flow' = [flow EXCEPT ![h].at = "claim", ![h].draft = 0,
                                  ![h].active = [NoManifest EXCEPT !.id = w]]
    <3>1. [NoManifest EXCEPT !.id = w] \in Manifests
      BY ConstantTypes DEF NoManifest, Manifests, Workflows
    <3> DEFINE m == [NoManifest EXCEPT !.id = w]
               f == [flow[h] EXCEPT !.at = "claim", !.draft = 0, !.active = m]
    <3>0. flow' = [flow EXCEPT ![h].at = "claim", ![h].draft = 0, ![h].active = m] /\ m \in Manifests
      BY <2>2, <3>1
    <3> HIDE DEF m
    <3>2. f \in Flows /\ f.at = "claim" /\ f.cmd = flow[h].cmd /\ f.active.id # 0
      <4>0. m.id = w /\ w # 0
        BY ConstantTypes DEF m, Workflows, NoManifest
      <4>1. "claim" \in Places /\ 0 \in 0..MaxDrafts
        BY DEF Places
      <4>2. f \in Flows
        BY <1>1, <3>0, <4>1 DEF Flows
      <4>3. f.at = "claim" /\ f.cmd = flow[h].cmd /\ f.active = m
        BY <1>1 DEF Flows
      <4> QED BY <4>0, <4>2, <4>3
    <3>3. flow' = [flow EXCEPT ![h] = f]
      BY <1>1, <3>0 DEF LifecycleTypeOK, Flows
    <3>4. flow' \in [Homes -> Flows] /\ flow'[h] = f /\ pending'[h] = pending[h]
      BY <1>1, <3>2, <3>3 DEF LifecycleTypeOK, CreateSpecIssue, memory
    <3>5. f.cmd \in {"publish-spec", "follow-up"} /\ f.cmd \in Purpose("claim")
      BY <1>1, <3>2 DEF PlaceAt, PlaceOf, Purpose, CreateSpecIssue
    <3>6. PlaceAt(h)'
      BY <1>1, <3>2, <3>4, <3>5 DEF PlaceAt, PlaceOf
    <3> QED BY <3>4, <3>6
  <2> QED BY <1>2, <2>1, <2>2
<1> QED
  BY <1>1, <1>3, <1>4, <1>5 DEF CreateSpecIssue, LifecycleTypeOK, artifacts, authority, memory, counts

\* The actions that take a home from one place to the next, or end its command.
LEMMA GoType ==
  ASSUME TypeInv, NEW h \in Homes,
         \/ ClaimWorkflow(h) \/ FoundWorkflow(h) \/ BindHome(h) \/ PublishTicket(h)
         \/ PushBranches(h) \/ RemoveFiles(h) \/ DeleteBranches(h) \/ ConfirmAuthority(h)
         \/ WriteManifest(h) \/ CloseSpec(h) \/ UnbindHome(h)
  PROVE  flow' \in [Homes -> Flows] /\ pending' \in [Homes -> Drafts] /\ PlaceAt(h)'
<1>0. PlaceAt(h) /\ LifecycleTypeOK /\ flow[h].cmd \in Purpose(flow[h].at)
  BY DEF TypeInv, PlaceInv, PlaceAt, PlaceOf
<1>1. SUFFICES \/ Stop(h) /\ (Settled(h) \/ UNCHANGED pending)
               \/ UNCHANGED <<flow, pending>>
               \/ \E at \in Places \ {"route", "create"} :
                    /\ Go(h, at) /\ UNCHANGED pending
                    /\ flow[h].cmd \in Purpose(at) /\ flow[h].at \notin {"idle", "route", "create"}
  <2>1. CASE Stop(h) /\ (Settled(h) \/ UNCHANGED pending)
    BY <1>0, <2>1, FlowType, SettledType, PlaceStop DEF Settled
  <2>2. CASE UNCHANGED <<flow, pending>>
    BY <1>0, <2>2 DEF LifecycleTypeOK, PlaceAt
  <2>3. ASSUME NEW at \in Places \ {"route", "create"},
               Go(h, at), UNCHANGED pending, flow[h].cmd \in Purpose(at),
               flow[h].at \notin {"idle", "route", "create"}
        PROVE  flow' \in [Homes -> Flows] /\ pending' \in [Homes -> Drafts] /\ PlaceAt(h)'
    BY <1>0, <2>3, FlowType, SettledType, PlaceGo
  <2> QED BY <1>1, <2>1, <2>2, <2>3
<1>2. CASE ClaimWorkflow(h)
  <2>1. flow[h].cmd \in Purpose("found")
    BY <1>0, <1>2 DEF ClaimWorkflow, Purpose
  <2> QED BY <1>2, <2>1 DEF ClaimWorkflow, Places
<1>3. CASE FoundWorkflow(h)
  <2>1. flow[h].cmd \in Purpose("bind")
    BY <1>0, <1>3 DEF FoundWorkflow, Purpose
  <2> QED BY <1>3, <2>1 DEF FoundWorkflow, Places
<1>4. CASE BindHome(h) \/ UnbindHome(h)
  BY <1>4 DEF BindHome, UnbindHome
<1>5. CASE PublishTicket(h)
  <2>1. flow[h].cmd \in Purpose("confirm")
    BY <1>0, <1>5 DEF PublishTicket, Purpose
  <2> QED BY <1>5, <2>1 DEF PublishTicket, Published, Fail, Places
<1>6. CASE PushBranches(h) \/ DeleteBranches(h)
  <2>1. flow[h].cmd \in Purpose("confirm")
    BY <1>0, <1>6 DEF PushBranches, DeleteBranches, Purpose
  <2> QED BY <1>6, <2>1 DEF PushBranches, DeleteBranches, memory, Places
<1>7. CASE RemoveFiles(h)
  <2>1. flow[h].cmd \in Purpose("remote")
    BY <1>0, <1>7 DEF RemoveFiles, Purpose
  <2> QED BY <1>7, <2>1 DEF RemoveFiles, memory, Places
<1>8. CASE ConfirmAuthority(h)
  <2>1. flow[h].cmd \in Purpose("write")
    BY <1>0, <1>8 DEF ConfirmAuthority, Purpose
  <2> QED BY <1>8, <2>1 DEF ConfirmAuthority, Fail, Places
<1>9. CASE WriteManifest(h)
  <2>1. CASE Stop(h)
    BY <1>9, <2>1 DEF WriteManifest
  <2>2. CASE Doing(h, "cleanup") /\ Go(h, "close")
    <3>1. flow[h].cmd \in Purpose("close") /\ UNCHANGED pending
      BY <1>9, <2>2 DEF WriteManifest, Settled, Doing, Purpose
    <3> QED BY <1>9, <2>2, <3>1 DEF WriteManifest, Places
  <2> QED BY <1>9, <2>1, <2>2 DEF WriteManifest
<1>10. CASE CloseSpec(h)
  <2>1. flow[h].cmd \in Purpose("unbind")
    BY <1>0, <1>10 DEF CloseSpec, Purpose
  <2> QED BY <1>10, <2>1 DEF CloseSpec, memory, Places
<1> QED BY <1>2, <1>3, <1>4, <1>5, <1>6, <1>7, <1>8, <1>9, <1>10

\* The first manifest of a workflow.
LEMMA FirstManifest ==
  ASSUME NEW w \in 0..MaxWorkflows
  PROVE  LET m == [NoManifest EXCEPT !.id = w, !.stage = "spec-published"]
         IN m \in Manifests /\ m.id = w /\ m.tickets = {} /\ m.stage = "spec-published"
BY ConstantTypes, ManifestType DEF NoManifest, StageNames

LEMMA ManifestWrite ==
  ASSUME LifecycleTypeOK, NEW w \in 0..MaxWorkflows, NEW m \in Manifests, m.id = w,
         manifest' = manifest \/ manifest' = [manifest EXCEPT ![w] = m]
  PROVE  /\ manifest' \in [Workflows -> Manifests]
         /\ \A v \in Workflows : manifest'[v] = NoManifest \/ manifest'[v].id = v
BY DEF LifecycleTypeOK

LEMMA AdvanceType ==
  ASSUME TypeInv, NEW h \in Homes, Advance(h)
  PROVE  LifecycleTypeOK' /\ PlaceAt(h)'
<1>0. /\ PlaceAt(h) /\ LifecycleTypeOK /\ flow[h] \in Flows /\ Work(h) \in 0..MaxWorkflows
      /\ flow[h].cmd \in Purpose(flow[h].at)
  BY HomeType DEF TypeInv, PlaceInv, PlaceAt, PlaceOf
<1> USE <1>0
<1>1. CASE RouteCommand(h) \/ CreateSpecIssue(h)
  BY <1>1, RouteType, CreateType
<1>2. SUFFICES ASSUME flow' \in [Homes -> Flows], pending' \in [Homes -> Drafts],
                      ~RouteCommand(h), ~CreateSpecIssue(h)
               PROVE  LifecycleTypeOK'
  <2>1. CASE ~(RouteCommand(h) \/ CreateSpecIssue(h))
    <3>1. flow' \in [Homes -> Flows] /\ pending' \in [Homes -> Drafts] /\ PlaceAt(h)'
      BY <2>1, GoType DEF Advance
    <3> QED BY <1>2, <2>1, <3>1
  <2> QED BY <1>1, <2>1
<1>3. CASE ClaimWorkflow(h)
  <2>1. PICK ok \in BOOLEAN : Ensured(h, Work(h), ok)
    BY <1>3 DEF ClaimWorkflow
  <2>2. /\ lease' \in [Workflows -> Sessions \cup {Nobody}]
        /\ held' \in [Homes -> 0..MaxWorkflows] /\ faults' \in 0..MaxFaults
    BY <2>1, EnsuredType
  <2> QED BY <1>2, <1>3, <2>2
          DEF ClaimWorkflow, LifecycleTypeOK, tracker, artifacts, counts
<1>4. CASE FoundWorkflow(h)
  <2> DEFINE m == [NoManifest EXCEPT !.id = Work(h), !.stage = "spec-published"]
  <2>1. manifest' = manifest \/ manifest' = [manifest EXCEPT ![Work(h)] = m]
    BY <1>4 DEF FoundWorkflow
  <2>2. m \in Manifests /\ m.id = Work(h)
    BY FirstManifest
  <2> HIDE DEF m
  <2>3. /\ manifest' \in [Workflows -> Manifests]
        /\ \A v \in Workflows : manifest'[v] = NoManifest \/ manifest'[v].id = v
    BY <2>1, <2>2, ManifestWrite
  <2>4. CASE UNCHANGED authority /\ Well
    BY <1>2, <1>4, <2>3, <2>4, FaultType
       DEF FoundWorkflow, LifecycleTypeOK, artifacts, authority, counts
  <2>5. CASE Release(h) /\ Fault
    BY <1>2, <1>4, <2>3, <2>5, FaultType, ReleaseType
       DEF FoundWorkflow, LifecycleTypeOK, artifacts, counts
  <2> QED BY <1>4, <2>4, <2>5 DEF FoundWorkflow
<1>5. CASE BindHome(h)
  <2>1. CASE UNCHANGED authority /\ Well /\ binding' = [binding EXCEPT ![h] = Work(h)]
             /\ cache' = [cache EXCEPT ![h] = NoRoute]
    <3>1. last' \in [Homes -> 0..MaxWorkflows]
      BY <1>5 DEF BindHome, LifecycleTypeOK
    <3>2. NoRoute \in Routes /\ NoRoute.kind = "none"
      BY ConstantTypes DEF NoRoute
    <3>3. \A g \in Homes : cache'[g] = IF g = h THEN NoRoute ELSE cache[g]
      BY <2>1 DEF LifecycleTypeOK
    <3>4. cache' \in [Homes -> Routes]
      BY <2>1, <3>2 DEF LifecycleTypeOK
    <3>5. \A g \in Homes : cache'[g].kind \in {"bound", "lease-held"} => cache'[g].active.id # 0
      BY <3>2, <3>3 DEF LifecycleTypeOK
    <3> QED BY <1>2, <1>5, <2>1, <3>1, <3>4, <3>5, FaultType
            DEF BindHome, LifecycleTypeOK, tracker, artifacts, authority, counts
  <2>2. CASE Release(h) /\ Fault /\ UNCHANGED <<binding, cache, last>>
    BY <1>2, <1>5, <2>2, ReleaseType, FaultType
       DEF BindHome, LifecycleTypeOK, tracker, artifacts, counts
  <2> QED BY <1>5, <2>1, <2>2 DEF BindHome
<1>6. CASE PublishTicket(h)
  <2>1. PICK t \in Tickets, ok \in BOOLEAN :
          /\ NextTicket(h, t)
          /\ \/ /\ Refreshed(h, t, ok)
                /\ IF ok THEN Published(h, t) /\ linked' = linked \cup {<<flow[h].draft, t>>}
                         ELSE Fail(h) /\ UNCHANGED <<published, linked>>
             \/ /\ ok /\ held[h] = Work(h)
                /\ published' \in {published, published \cup {<<flow[h].draft, t>>}}
                /\ UNCHANGED linked /\ Fail(h) /\ Fault /\ UNCHANGED authority
    BY <1>6 DEF PublishTicket
  <2>2. <<flow[h].draft, t>> \in Issues
    BY <1>6 DEF PublishTicket, PlaceAt, PlaceOf, Purpose, NoDraft, Flows, Issues
  <2>3. published' \subseteq Issues /\ linked' \subseteq published'
    BY <2>1, <2>2 DEF Published, LifecycleTypeOK
  <2>4. /\ lease' \in [Workflows -> Sessions \cup {Nobody}]
        /\ held' \in [Homes -> 0..MaxWorkflows] /\ faults' \in 0..MaxFaults
    <3>1. CASE Authorised(h, ok)
      BY <3>1, AuthorisedType
    <3>2. CASE UNCHANGED authority /\ (Well \/ Fault)
      BY <3>2, FaultType DEF authority, LifecycleTypeOK
    <3> QED BY <2>1, <3>1, <3>2 DEF Refreshed
  <2> QED BY <1>2, <1>6, <2>3, <2>4
          DEF PublishTicket, LifecycleTypeOK, artifacts, counts
<1>7. CASE PushBranches(h) \/ RemoveFiles(h) \/ DeleteBranches(h)
  <2>1. Work(h) \in Workflows
    BY <1>7 DEF PushBranches, RemoveFiles, DeleteBranches, PlaceAt, PlaceOf, Work, Workflows
  <2>2. PICK ok \in BOOLEAN : Authorised(h, ok)
    BY <1>7 DEF PushBranches, RemoveFiles, DeleteBranches
  <2>3. remote' \subseteq Workflows /\ files' \subseteq Homes \X Workflows
    BY <1>7, <2>1 DEF PushBranches, RemoveFiles, DeleteBranches, LifecycleTypeOK
  <2>4. /\ lease' \in [Workflows -> Sessions \cup {Nobody}]
        /\ held' \in [Homes -> 0..MaxWorkflows] /\ faults' \in 0..MaxFaults
    BY <2>2, AuthorisedType
  <2> QED BY <1>2, <1>7, <2>3, <2>4
          DEF PushBranches, RemoveFiles, DeleteBranches, LifecycleTypeOK, tracker, memory, counts
<1>8. CASE ConfirmAuthority(h)
  <2>1. PICK ok \in BOOLEAN : Authorised(h, ok)
    BY <1>8 DEF ConfirmAuthority
  <2>2. /\ lease' \in [Workflows -> Sessions \cup {Nobody}]
        /\ held' \in [Homes -> 0..MaxWorkflows] /\ faults' \in 0..MaxFaults
    BY <2>1, AuthorisedType
  <2> QED BY <1>2, <1>8, <2>2
          DEF ConfirmAuthority, LifecycleTypeOK, tracker, artifacts, counts
<1>9. CASE WriteManifest(h)
  <2>1. Updated(h) \in Manifests /\ Updated(h).id = Work(h)
    BY <1>9, UpdatedType DEF WriteManifest
  <2>2. manifest' = manifest \/ manifest' = [manifest EXCEPT ![Work(h)] = Updated(h)]
    BY <1>9 DEF WriteManifest
  <2>3. /\ manifest' \in [Workflows -> Manifests]
        /\ \A v \in Workflows : manifest'[v] = NoManifest \/ manifest'[v].id = v
    BY <2>1, <2>2, ManifestWrite
  <2>4. CASE UNCHANGED <<cache, last, unit>> /\ Fault
    BY <1>2, <1>9, <2>3, <2>4, FaultType
       DEF WriteManifest, LifecycleTypeOK, artifacts, authority, counts
  <2>5. CASE /\ cache' = [cache EXCEPT ![h] = NoRoute] /\ Well
             /\ last' = IF Doing(h, "cleanup") THEN [last EXCEPT ![h] = Work(h)] ELSE last
             /\ unit' = IF Doing(h, "integrate") THEN [unit EXCEPT ![h] = 0] ELSE unit
    <3>1. last' \in [Homes -> 0..MaxWorkflows] /\ unit' \in [Homes -> Tickets \cup {0}]
      BY <2>5 DEF LifecycleTypeOK
    <3>2. NoRoute \in Routes /\ NoRoute.kind = "none"
      BY ConstantTypes DEF NoRoute
    <3>3. \A g \in Homes : cache'[g] = IF g = h THEN NoRoute ELSE cache[g]
      BY <2>5 DEF LifecycleTypeOK
    <3>4. cache' \in [Homes -> Routes]
      BY <2>5, <3>2 DEF LifecycleTypeOK
    <3>5. \A g \in Homes : cache'[g].kind \in {"bound", "lease-held"} => cache'[g].active.id # 0
      BY <3>2, <3>3 DEF LifecycleTypeOK
    <3> QED BY <1>2, <1>9, <2>3, <2>5, <3>1, <3>4, <3>5, FaultType
            DEF WriteManifest, LifecycleTypeOK, artifacts, authority, counts
  <2> QED BY <1>9, <2>4, <2>5 DEF WriteManifest
<1>10. CASE CloseSpec(h)
  <2>1. PICK ok \in BOOLEAN :
          Authorised(h, ok) /\ open' = IF ok THEN open \ {Work(h)} ELSE open
    BY <1>10 DEF CloseSpec
  <2>2. open' \subseteq Workflows
    BY <2>1 DEF LifecycleTypeOK
  <2>3. /\ lease' \in [Workflows -> Sessions \cup {Nobody}]
        /\ held' \in [Homes -> 0..MaxWorkflows] /\ faults' \in 0..MaxFaults
    BY <2>1, AuthorisedType
  <2> QED BY <1>2, <1>10, <2>2, <2>3
          DEF CloseSpec, LifecycleTypeOK, artifacts, memory, counts
<1>11. CASE UnbindHome(h)
  <2>1. NoRoute \in Routes /\ NoRoute.kind = "none"
    BY ConstantTypes DEF NoRoute
  <2>2. \A g \in Homes : cache'[g] = IF g = h THEN NoRoute ELSE cache[g]
    BY <1>11 DEF UnbindHome, LifecycleTypeOK
  <2>3. cache' \in [Homes -> Routes] /\ binding' \in [Homes -> 0..MaxWorkflows]
    BY <1>11, <2>1 DEF UnbindHome, LifecycleTypeOK
  <2>4. \A g \in Homes : cache'[g].kind \in {"bound", "lease-held"} => cache'[g].active.id # 0
    BY <2>1, <2>2 DEF LifecycleTypeOK
  <2>5. /\ lease' \in [Workflows -> Sessions \cup {Nobody}]
        /\ held' \in [Homes -> 0..MaxWorkflows] /\ faults' \in 0..MaxFaults
    BY <1>11, ReleaseType, FaultType DEF UnbindHome
  <2> QED BY <1>2, <1>11, <2>3, <2>4, <2>5 DEF UnbindHome, LifecycleTypeOK, tracker, artifacts, counts
<1> QED BY <1>1, <1>2, <1>3, <1>4, <1>5, <1>6, <1>7, <1>8, <1>9, <1>10, <1>11 DEF Advance

\* The other actions of a home.
LEMMA OperateType ==
  ASSUME TypeInv, NEW h \in Homes, \/ Cancel(h) \/ BeginPublish(h) \/ PollTracker(h) \/ PollRoute(h)
                                   \/ ExpireCache(h) \/ Crash(h) \/ \E w \in Workflows : Resume(h, w)
  PROVE  LifecycleTypeOK' /\ PlaceAt(h)'
<1>0. PlaceAt(h) /\ LifecycleTypeOK /\ flow[h] \in Flows
  BY HomeType DEF TypeInv, PlaceInv
<1> USE <1>0
<1>1. CASE Cancel(h)
  <2>1. flow[h].cmd = "none"
    BY <1>1 DEF Cancel, PlaceAt, PlaceOf, Purpose
  <2>2. PlaceAt(h)'
    BY <1>1, <2>1 DEF Cancel, PlaceAt, PlaceOf, LifecycleTypeOK
  <2> QED BY <1>1, <2>2, ConstantTypes
          DEF Cancel, LifecycleTypeOK, tracker, artifacts, authority, counts, Well
<1>2. CASE BeginPublish(h)
  <2> DEFINE f == [Idle EXCEPT !.at = "create", !.cmd = "publish-spec", !.draft = pending[h].id]
  <2>1. pending[h] \in Drafts /\ pending[h].kind = "spec"
    BY <1>2, HomeType DEF BeginPublish
  <2>2. f \in Flows
    BY <2>1, ConstantTypes DEF Flows, Drafts, Places, Commands
  <2>3. f.at = "create" /\ f.cmd = "publish-spec" /\ f.draft = pending[h].id
    BY DEF Idle
  <2>4. f.cmd \in Purpose(f.at)
    BY <2>3 DEF Purpose
  <2>5. flow' \in [Homes -> Flows] /\ flow'[h] = f /\ UNCHANGED pending
    BY <1>2, <2>2 DEF BeginPublish, LifecycleTypeOK, memory
  <2> HIDE DEF f
  <2>6. PlaceAt(h)'
    BY <2>1, <2>3, <2>4, <2>5 DEF PlaceAt, PlaceOf
  <2> QED BY <1>2, <2>5, <2>6
          DEF BeginPublish, LifecycleTypeOK, tracker, artifacts, authority, memory, counts, Well
<1>3. CASE PollTracker(h)
  <2>1. [at |-> "route", seen |-> ActiveWorkflows] \in Polls
    BY ActiveType DEF Polls
  <2>2. poll' = [poll EXCEPT ![h] = [at |-> "route", seen |-> ActiveWorkflows]]
    BY <1>3 DEF PollTracker
  <2>3. poll' \in [Homes -> Polls]
    BY <2>1, <2>2 DEF LifecycleTypeOK
  <2>4. PlaceAt(h)'
    BY <1>3 DEF PollTracker, PlaceAt, memory
  <2> QED BY <1>3, <2>3, <2>4
          DEF PollTracker, LifecycleTypeOK, tracker, artifacts, authority, memory, counts, Well
<1>4. CASE PollRoute(h)
  <2>1. poll[h].seen \in SUBSET Copies
    BY HomeType DEF Polls
  <2>2. poll' \in [Homes -> Polls]
    BY <1>4, ConstantTypes DEF PollRoute, LifecycleTypeOK
  <2>3. PlaceAt(h)'
    BY <1>4 DEF PollRoute, PlaceAt
  <2>4. SetRoute(h, poll[h].seen)
    BY <1>4 DEF PollRoute
  <2> QED BY <1>4, <2>1, <2>2, <2>3, <2>4, SetRouteType
          DEF PollRoute, LifecycleTypeOK, tracker, artifacts, counts
<1>5. CASE ExpireCache(h)
  <2>1. NoRoute \in Routes /\ NoRoute.kind = "none"
    BY ConstantTypes DEF NoRoute
  <2>2. \A g \in Homes : cache'[g] = IF g = h THEN NoRoute ELSE cache[g]
    BY <1>5 DEF ExpireCache, LifecycleTypeOK
  <2>3. cache' \in [Homes -> Routes]
    BY <1>5, <2>1 DEF ExpireCache, LifecycleTypeOK
  <2>4. \A g \in Homes : cache'[g].kind \in {"bound", "lease-held"} => cache'[g].active.id # 0
    BY <2>1, <2>2 DEF LifecycleTypeOK
  <2>5. PlaceAt(h)'
    BY <1>5 DEF ExpireCache, PlaceAt
  <2> QED BY <1>5, <2>3, <2>4, <2>5
          DEF ExpireCache, LifecycleTypeOK, tracker, artifacts, authority, counts, Well
<1>6. CASE Crash(h)
  <2>1. NoRoute \in Routes /\ NoRoute.kind = "none"
    BY ConstantTypes DEF NoRoute
  <2>2. \A g \in Homes : cache'[g] = IF g = h THEN NoRoute ELSE cache[g]
    BY <1>6 DEF Crash, LifecycleTypeOK
  <2>3. cache' \in [Homes -> Routes]
    BY <1>6, <2>1 DEF Crash, LifecycleTypeOK
  <2>4. \A g \in Homes : cache'[g].kind \in {"bound", "lease-held"} => cache'[g].active.id # 0
    BY <2>1, <2>2 DEF LifecycleTypeOK
  <2>5. crashes' \in 0..MaxCrashes /\ session' \in [Homes -> 1..(crashes' + 1)]
    BY <1>6 DEF Crash, LifecycleTypeOK
  <2>6. /\ pending' \in [Homes -> Drafts] /\ flow' \in [Homes -> Flows] /\ poll' \in [Homes -> Polls]
        /\ held' \in [Homes -> 0..MaxWorkflows] /\ last' \in [Homes -> 0..MaxWorkflows]
        /\ unit' \in [Homes -> Tickets \cup {0}]
    BY <1>6, ConstantTypes DEF Crash, Stop, LifecycleTypeOK
  <2>7. PlaceAt(h)'
    BY <1>6, PlaceStop DEF Crash
  <2> QED BY <1>6, <2>3, <2>4, <2>5, <2>6, <2>7 DEF Crash, LifecycleTypeOK, tracker, artifacts, Well
<1>7. ASSUME NEW w \in Workflows, Resume(h, w) PROVE LifecycleTypeOK' /\ PlaceAt(h)'
  <2>1. PICK ok \in BOOLEAN :
          /\ Ensured(h, w, ok)
          /\ flow' = IF ok THEN [flow EXCEPT ![h] = [Idle EXCEPT !.at = "bind", !.cmd = "resume",
                                                                !.active = manifest[w]]] ELSE flow
    BY <1>7 DEF Resume
  <2>2. manifest[w] \in Copies
    BY <1>7, ActiveType DEF Resume
  <2> DEFINE f == [Idle EXCEPT !.at = "bind", !.cmd = "resume", !.active = manifest[w]]
  <2>3. f \in Flows
    BY <2>2, ConstantTypes DEF Flows, Places, Commands, Copies
  <2>4. f.at = "bind" /\ f.cmd = "resume" /\ f.active.id # 0
    BY <2>2 DEF Idle, Copies
  <2>5. f.cmd \in Purpose(f.at)
    BY <2>4 DEF Purpose
  <2>6. flow' = IF ok THEN [flow EXCEPT ![h] = f] ELSE flow
    BY <2>1
  <2> HIDE DEF f
  <2>7. flow' \in [Homes -> Flows] /\ UNCHANGED pending /\ (flow'[h] = f \/ flow'[h] = flow[h])
    BY <1>7, <2>3, <2>6 DEF LifecycleTypeOK, Resume, memory
  <2>8. PlaceAt(h)'
    BY <2>4, <2>5, <2>7 DEF PlaceAt, PlaceOf
  <2>9. w \in 0..MaxWorkflows
    BY DEF Workflows
  <2>10. /\ lease' \in [Workflows -> Sessions \cup {Nobody}]
         /\ held' \in [Homes -> 0..MaxWorkflows] /\ faults' \in 0..MaxFaults
    BY <2>1, <2>9, EnsuredType
  <2> QED BY <1>7, <2>7, <2>8, <2>10
          DEF Resume, LifecycleTypeOK, tracker, artifacts, memory, counts
<1> QED BY <1>1, <1>2, <1>3, <1>4, <1>5, <1>6, <1>7

\* What a home does.
Acts(h) ==
  \/ Advance(h) \/ Cancel(h) \/ BeginPublish(h)
  \/ \E cmd \in {"create-spec", "create-tickets", "publish-tickets", "merge", "cleanup", "follow-up"} :
       Begin(h, cmd, 0)
  \/ \E t \in Tickets : Begin(h, "integrate", t)
  \/ \E w \in Workflows : Resume(h, w)
  \/ PollTracker(h) \/ PollRoute(h) \/ ExpireCache(h) \/ Crash(h)

LEMMA ActsType ==
  ASSUME TypeInv, NEW h \in Homes, Acts(h)
  PROVE  LifecycleTypeOK' /\ PlaceAt(h)'
<1>1. ASSUME NEW cmd \in {"create-spec", "create-tickets", "publish-tickets", "merge", "cleanup", "follow-up"},
             Begin(h, cmd, 0)
      PROVE  LifecycleTypeOK' /\ PlaceAt(h)'
  <2>1. cmd \in Commands \ {"none", "publish-spec", "resume"} /\ cmd # "integrate"
    BY DEF Commands
  <2> QED BY <1>1, <2>1, BeginType
<1>2. ASSUME NEW t \in Tickets, Begin(h, "integrate", t) PROVE LifecycleTypeOK' /\ PlaceAt(h)'
  <2>1. "integrate" \in Commands \ {"none", "publish-spec", "resume"}
    BY DEF Commands
  <2> QED BY <1>2, <2>1, BeginType
<1> QED BY <1>1, <1>2, AdvanceType, OperateType DEF Acts

\* A step of one home leaves alone what the others remember.
LEMMA OtherHomes ==
  ASSUME LifecycleTypeOK, NEW h \in Homes, NEW g \in Homes, g # h, Acts(h)
  PROVE  UNCHANGED <<flow[g], pending[g], cache[g], poll[g]>>
<1>1. CASE Advance(h)
  <2>1. CASE RouteCommand(h)
    BY <2>1 DEF RouteCommand, SetRoute, Proceed, LifecycleTypeOK
  <2>2. CASE CreateSpecIssue(h) \/ ClaimWorkflow(h) \/ FoundWorkflow(h) \/ BindHome(h)
    BY <2>2 DEF CreateSpecIssue, ClaimWorkflow, FoundWorkflow, BindHome, Settled, Go, Stop, memory,
                LifecycleTypeOK
  <2>3. CASE PublishTicket(h)
    BY <2>3 DEF PublishTicket, Published, Fail, Settled, Go, Stop, LifecycleTypeOK
  <2>4. CASE PushBranches(h) \/ RemoveFiles(h) \/ DeleteBranches(h) \/ CloseSpec(h)
    BY <2>4 DEF PushBranches, RemoveFiles, DeleteBranches, CloseSpec, Go, Stop, memory, LifecycleTypeOK
  <2>5. CASE ConfirmAuthority(h) \/ WriteManifest(h) \/ UnbindHome(h)
    BY <2>5 DEF ConfirmAuthority, WriteManifest, UnbindHome, Fail, Settled, Go, Stop, LifecycleTypeOK
  <2> QED BY <1>1, <2>1, <2>2, <2>3, <2>4, <2>5 DEF Advance
<1>2. ASSUME NEW cmd, NEW t, Begin(h, cmd, t) PROVE UNCHANGED <<flow[g], pending[g], cache[g], poll[g]>>
  BY <1>2 DEF Begin, LoadRoute, Proceed, LifecycleTypeOK
<1>3. CASE \/ Cancel(h) \/ BeginPublish(h) \/ PollTracker(h) \/ PollRoute(h) \/ ExpireCache(h)
           \/ Crash(h) \/ \E w \in Workflows : Resume(h, w)
  BY <1>3 DEF Cancel, BeginPublish, PollTracker, PollRoute, ExpireCache, Crash, Resume, Stop, SetRoute,
              memory, LifecycleTypeOK
<1> QED BY <1>1, <1>2, <1>3 DEF Acts

LEMMA LapseType ==
  ASSUME TypeInv, NEW w \in Workflows, LapseLease(w)
  PROVE  LifecycleTypeOK' /\ UNCHANGED <<flow, pending>>
<1>1. LifecycleTypeOK
  BY DEF TypeInv
<1> QED BY <1>1, FaultType DEF LapseLease, LifecycleTypeOK, tracker, artifacts, memory, counts

LEMMA TypeStep ==
  ASSUME TypeInv, [LifecycleNext]_vars
  PROVE  TypeInv'
<1>1. ASSUME NEW h \in Homes, Acts(h) PROVE TypeInv'
  <2>1. LifecycleTypeOK' /\ PlaceAt(h)'
    BY <1>1, ActsType
  <2>2. ASSUME NEW g \in Homes, g # h PROVE PlaceAt(g)'
    BY <1>1, <2>2, OtherHomes DEF TypeInv, PlaceInv, PlaceAt
  <2> QED BY <2>1, <2>2 DEF TypeInv, PlaceInv
<1>2. ASSUME NEW w \in Workflows, LapseLease(w) PROVE TypeInv'
  BY <1>2, LapseType DEF TypeInv, PlaceInv, PlaceAt
<1>3. CASE UNCHANGED vars
  BY <1>3 DEF TypeInv, PlaceInv, PlaceAt, LifecycleTypeOK, vars, tracker, artifacts, authority, memory, counts
<1> QED BY <1>1, <1>2, <1>3 DEF LifecycleNext, Acts

LEMMA InitPlace == LifecycleInit => PlaceInv
BY PlaceIdle DEF LifecycleInit, PlaceInv, PlaceAt

(***************************************************************************)
(* What the steps of a home do to copies, manifests, drafts and tickets    *)
(***************************************************************************)

\* What a home may have copied a manifest from.
Sources(h) == {NoManifest, cache[h].active} \cup {manifest[w] : w \in Workflows}
              \cup flow[h].seen \cup poll[h].seen

\* The spec issue a home has just made.
Made(h) ==
  \E w \in Workflows :
    /\ NewSpec(w) /\ flow'[h].at = "claim"
    /\ flow'[h].active = [NoManifest EXCEPT !.id = w]

LEMMA ActiveSources == ASSUME LifecycleTypeOK PROVE ActiveWorkflows \subseteq {manifest[w] : w \in Workflows}
BY DEF ActiveWorkflows, LifecycleTypeOK

LEMMA ConstantCopies ==
  NoRoute.active = NoManifest /\ Unbound.active = NoManifest /\ Idle.active = NoManifest
  /\ Idle.seen = {} /\ NoPoll.seen = {}
BY DEF NoRoute, Unbound, Idle, NoPoll

\* Whatever is not set anew keeps its copy.
LEMMA GoCopies ==
  ASSUME LifecycleTypeOK, NEW h \in Homes, Stop(h) \/ UNCHANGED flow \/ \E at : Go(h, at)
  PROVE  /\ flow'[h].active \in Sources(h) \cup {flow[h].active}
         /\ flow'[h].seen \subseteq Sources(h)
<1>1. flow[h] \in Flows /\ flow \in [Homes -> Flows]
  BY DEF LifecycleTypeOK
<1>2. CASE Stop(h)
  <2>1. flow'[h] = Idle
    BY <1>1, <1>2 DEF Stop
  <2> QED BY <2>1, ConstantCopies DEF Sources
<1>3. CASE UNCHANGED flow
  BY <1>3 DEF Sources
<1>4. ASSUME NEW at, Go(h, at)
      PROVE  flow'[h].active = flow[h].active /\ flow'[h].seen = flow[h].seen
  BY <1>1, <1>4 DEF Go, Flows
<1> QED BY <1>2, <1>3, <1>4 DEF Sources

LEMMA ProceedCopies ==
  ASSUME LifecycleTypeOK, NEW h \in Homes, NEW c, Starts(c), NEW r, r.active \in Sources(h), Proceed(h, c, r)
  PROVE  flow'[h].active \in Sources(h) /\ flow'[h].seen = {}
<1>1. CASE Enters(h, c, r)
  <2>1. flow'[h] = [c EXCEPT !.at = FirstStep(c.cmd), !.seen = {}, !.active = r.active,
                             !.draft = pending[h].id]
    BY <1>1 DEF Proceed, LifecycleTypeOK
  <2>2. flow'[h].active = r.active /\ flow'[h].seen = {}
    BY <2>1 DEF Starts, Flows
  <2> QED BY <2>2
<1>2. CASE ~Enters(h, c, r)
  <2>1. flow'[h] = Idle
    BY <1>2 DEF Proceed, LifecycleTypeOK
  <2> QED BY <2>1, ConstantCopies DEF Sources
<1> QED BY <1>1, <1>2

LEMMA SetRouteCopies ==
  ASSUME LifecycleTypeOK, NEW h \in Homes, NEW seen \in SUBSET Sources(h), SetRoute(h, seen)
  PROVE  cache'[h].active \in Sources(h)
<1>1. CASE cache' = [cache EXCEPT ![h] = Unbound]
  <2>1. cache'[h] = Unbound
    BY <1>1 DEF LifecycleTypeOK
  <2> QED BY <2>1, ConstantCopies DEF Sources
<1>2. ASSUME NEW m \in seen, NEW kind, cache' = [cache EXCEPT ![h] = [kind |-> kind, active |-> m]]
      PROVE  cache'[h].active \in Sources(h)
  BY <1>2 DEF LifecycleTypeOK
<1> QED BY <1>1, <1>2 DEF SetRoute

LEMMA CacheCopies ==
  ASSUME LifecycleTypeOK, NEW h \in Homes, UNCHANGED cache \/ cache' = [cache EXCEPT ![h] = NoRoute]
  PROVE  cache'[h].active \in Sources(h)
<1>1. cache'[h] = cache[h] \/ cache'[h] = NoRoute
  BY DEF LifecycleTypeOK
<1> QED BY <1>1, ConstantCopies DEF Sources

CopiesKnown(h) ==
  /\ cache'[h].active \in Sources(h)
  /\ flow'[h].seen \cup poll'[h].seen \subseteq Sources(h)
  /\ flow'[h].active \in Sources(h) \cup {flow[h].active} \/ Made(h)

LEMMA BeginCopies ==
  ASSUME TypeInv, NEW h \in Homes, NEW cmd \in Commands \ {"none", "publish-spec", "resume"},
         NEW t \in Tickets \cup {0}, Begin(h, cmd, t)
  PROVE  CopiesKnown(h)
<1>0. LifecycleTypeOK /\ flow[h] \in Flows
  BY HomeType DEF TypeInv
<1> DEFINE c == [Idle EXCEPT !.cmd = cmd, !.ticket = t]
<1>1. c \in Flows /\ c.cmd = cmd /\ c.active = NoManifest
  BY ConstantTypes DEF Idle, Flows
<1>2. Starts(c)
  BY <1>1 DEF Starts
<1>3. cache'[h].active \in Sources(h) /\ poll'[h].seen \subseteq Sources(h)
  BY DEF Begin, Sources
<1>4. CASE Proceed(h, c, cache[h])
  <2>1. cache[h].active \in Sources(h)
    BY DEF Sources
  <2> QED BY <1>0, <1>2, <1>3, <1>4, <2>1, ProceedCopies DEF CopiesKnown
<1>5. CASE UNCHANGED flow
  BY <1>3, <1>5 DEF CopiesKnown, Sources
<1>6. CASE flow' = [flow EXCEPT ![h] = [c EXCEPT !.at = "route", !.seen = ActiveWorkflows]]
  <2>1. flow'[h] = [c EXCEPT !.at = "route", !.seen = ActiveWorkflows]
    BY <1>0, <1>6 DEF LifecycleTypeOK
  <2>2. flow'[h].active = NoManifest /\ flow'[h].seen = ActiveWorkflows
    BY <1>1, <2>1 DEF Flows
  <2> QED BY <1>0, <1>3, <2>2, ActiveSources DEF CopiesKnown, Sources
<1> QED BY <1>4, <1>5, <1>6 DEF Begin, LoadRoute

LEMMA AdvanceCopies ==
  ASSUME TypeInv, NEW h \in Homes, Advance(h)
  PROVE  CopiesKnown(h)
<1>0. LifecycleTypeOK /\ flow[h] \in Flows /\ PlaceAt(h)
  BY HomeType DEF TypeInv, PlaceInv
<1>1. CASE RouteCommand(h)
  <2>1. flow[h].seen \in SUBSET Sources(h)
    BY DEF Sources
  <2>2. cache'[h].active \in Sources(h)
    BY <1>0, <1>1, <2>1, SetRouteCopies DEF RouteCommand
  <2>3. Starts(flow[h])
    BY <1>0, <1>1 DEF RouteCommand, PlaceAt, PlaceOf, Purpose, Starts
  <2>4. flow'[h].active \in Sources(h) /\ flow'[h].seen = {}
    BY <1>0, <1>1, <2>2, <2>3, ProceedCopies DEF RouteCommand
  <2>5. poll' = poll
    BY <1>1 DEF RouteCommand
  <2> QED BY <2>2, <2>4, <2>5 DEF CopiesKnown, Sources
<1>2. CASE CreateSpecIssue(h)
  <2>1. PICK w \in Workflows :
          /\ NewSpec(w)
          /\ \/ flow' = [flow EXCEPT ![h].at = "claim", ![h].draft = 0,
                                     ![h].active = [NoManifest EXCEPT !.id = w]]
             \/ Stop(h)
    BY <1>2 DEF CreateSpecIssue
  <2>2. UNCHANGED <<cache, poll>>
    BY <1>2 DEF CreateSpecIssue, memory
  <2>3. CASE Stop(h)
    BY <1>0, <2>2, <2>3, GoCopies DEF CopiesKnown, Sources
  <2>4. CASE flow' = [flow EXCEPT ![h].at = "claim", ![h].draft = 0,
                                  ![h].active = [NoManifest EXCEPT !.id = w]]
    <3> DEFINE m == [NoManifest EXCEPT !.id = w]
    <3>1. flow' = [flow EXCEPT ![h].at = "claim", ![h].draft = 0, ![h].active = m]
      BY <2>4
    <3> HIDE DEF m
    <3>2. flow'[h].at = "claim" /\ flow'[h].active = m /\ flow'[h].seen = flow[h].seen
      BY <1>0, <3>1 DEF LifecycleTypeOK, Flows
    <3>3. Made(h)
      BY <2>1, <3>2 DEF Made, m
    <3> QED BY <2>2, <3>2, <3>3 DEF CopiesKnown, Sources
  <2> QED BY <2>1, <2>3, <2>4
<1>3. CASE \/ ClaimWorkflow(h) \/ FoundWorkflow(h) \/ BindHome(h) \/ PublishTicket(h)
           \/ PushBranches(h) \/ RemoveFiles(h) \/ DeleteBranches(h) \/ ConfirmAuthority(h)
           \/ WriteManifest(h) \/ CloseSpec(h) \/ UnbindHome(h)
  <2>1. Stop(h) \/ UNCHANGED flow \/ \E at : Go(h, at)
    BY <1>3 DEF ClaimWorkflow, FoundWorkflow, BindHome, PublishTicket, Published, PushBranches, RemoveFiles,
                DeleteBranches, ConfirmAuthority, WriteManifest, CloseSpec, UnbindHome, Fail
  <2>2. UNCHANGED cache \/ cache' = [cache EXCEPT ![h] = NoRoute]
    BY <1>3 DEF ClaimWorkflow, FoundWorkflow, BindHome, PublishTicket, PushBranches, RemoveFiles,
                DeleteBranches, ConfirmAuthority, WriteManifest, CloseSpec, UnbindHome, memory
  <2>3. poll' = poll
    BY <1>3 DEF ClaimWorkflow, FoundWorkflow, BindHome, PublishTicket, PushBranches, RemoveFiles,
                DeleteBranches, ConfirmAuthority, WriteManifest, CloseSpec, UnbindHome
  <2>4. poll'[h].seen \subseteq Sources(h)
    BY <2>3 DEF Sources
  <2> QED BY <1>0, <2>1, <2>2, <2>4, GoCopies, CacheCopies DEF CopiesKnown
<1> QED BY <1>1, <1>2, <1>3 DEF Advance

LEMMA ActsCopies ==
  ASSUME TypeInv, NEW h \in Homes, Acts(h)
  PROVE  CopiesKnown(h)
<1>0. LifecycleTypeOK /\ flow[h] \in Flows
  BY HomeType DEF TypeInv
<1>1. ASSUME NEW cmd \in {"create-spec", "create-tickets", "publish-tickets", "integrate", "merge", "cleanup", "follow-up"},
             NEW t \in Tickets \cup {0}, Begin(h, cmd, t)
      PROVE  CopiesKnown(h)
  <2>1. cmd \in Commands \ {"none", "publish-spec", "resume"}
    BY DEF Commands
  <2> QED BY <1>1, <2>1, BeginCopies
<1>2. CASE Cancel(h) \/ BeginPublish(h)
  <2>1. UNCHANGED <<cache, poll>>
    BY <1>2 DEF Cancel, BeginPublish, memory
  <2>2. \/ flow'[h] = flow[h]
        \/ flow'[h] = [Idle EXCEPT !.at = "create", !.cmd = "publish-spec", !.draft = pending[h].id]
    BY <1>0, <1>2 DEF Cancel, BeginPublish, LifecycleTypeOK
  <2>3. \/ flow'[h].active = flow[h].active /\ flow'[h].seen = flow[h].seen
        \/ flow'[h].active = NoManifest /\ flow'[h].seen = {}
    BY <2>2 DEF Idle
  <2> QED BY <2>1, <2>3 DEF CopiesKnown, Sources
<1>3. CASE PollTracker(h)
  <2>1. poll'[h].seen = ActiveWorkflows /\ UNCHANGED <<cache, flow>>
    BY <1>0, <1>3 DEF PollTracker, LifecycleTypeOK, memory
  <2> QED BY <1>0, <2>1, ActiveSources DEF CopiesKnown, Sources
<1>4. CASE PollRoute(h)
  <2>1. poll[h].seen \in SUBSET Sources(h)
    BY DEF Sources
  <2>2. poll'[h] = NoPoll /\ UNCHANGED flow
    BY <1>0, <1>4 DEF PollRoute, LifecycleTypeOK
  <2>3. cache'[h].active \in Sources(h)
    BY <1>0, <1>4, <2>1, SetRouteCopies DEF PollRoute
  <2> QED BY <2>2, <2>3, ConstantCopies DEF CopiesKnown, Sources
<1>5. CASE ExpireCache(h)
  BY <1>0, <1>5, CacheCopies DEF ExpireCache, CopiesKnown, Sources
<1>6. CASE Crash(h)
  <2>1. poll'[h] = NoPoll
    BY <1>0, <1>6 DEF Crash, LifecycleTypeOK
  <2> QED BY <1>0, <1>6, <2>1, CacheCopies, GoCopies, ConstantCopies DEF Crash, CopiesKnown
<1>7. ASSUME NEW w \in Workflows, Resume(h, w) PROVE CopiesKnown(h)
  <2>1. UNCHANGED <<cache, poll>>
    BY <1>7 DEF Resume, memory
  <2>2. \/ flow'[h] = flow[h]
        \/ flow'[h] = [Idle EXCEPT !.at = "bind", !.cmd = "resume", !.active = manifest[w]]
    BY <1>0, <1>7 DEF Resume, LifecycleTypeOK
  <2>3. \/ flow'[h].active = flow[h].active /\ flow'[h].seen = flow[h].seen
        \/ flow'[h].active = manifest[w] /\ flow'[h].seen = {}
    BY <2>2 DEF Idle
  <2> QED BY <2>1, <2>3 DEF CopiesKnown, Sources
<1> QED BY <1>1, <1>2, <1>3, <1>4, <1>5, <1>6, <1>7, AdvanceCopies DEF Acts

First(w) == [NoManifest EXCEPT !.id = w, !.stage = "spec-published"]

\* Manifests are written by two actions only.
LEMMA ManifestEffect ==
  ASSUME NEW h \in Homes, Acts(h)
  PROVE  \/ UNCHANGED manifest
         \/ FoundWorkflow(h) /\ manifest' = [manifest EXCEPT ![Work(h)] = First(Work(h))]
         \/ WriteManifest(h) /\ manifest' = [manifest EXCEPT ![Work(h)] = Updated(h)]
<1>1. CASE FoundWorkflow(h)
  BY <1>1 DEF FoundWorkflow, First
<1>2. CASE WriteManifest(h)
  BY <1>2 DEF WriteManifest
<1>3. CASE Advance(h) /\ ~FoundWorkflow(h) /\ ~WriteManifest(h)
  BY <1>3 DEF Advance, RouteCommand, CreateSpecIssue, ClaimWorkflow, BindHome, PublishTicket, PushBranches,
              RemoveFiles, DeleteBranches, ConfirmAuthority, CloseSpec, UnbindHome, tracker
<1>4. CASE ~Advance(h)
  BY <1>4 DEF Acts, Begin, Cancel, BeginPublish, Resume, PollTracker, PollRoute, ExpireCache, Crash, tracker
<1> QED BY <1>1, <1>2, <1>3, <1>4

\* Spec issues are made by one action, ticket issues and links by another.
LEMMA IssueEffect ==
  ASSUME NEW h \in Homes, Acts(h)
  PROVE  /\ UNCHANGED origin \/ CreateSpecIssue(h)
         /\ UNCHANGED <<published, linked>> \/ PublishTicket(h)
<1>1. CASE Advance(h)
  BY <1>1 DEF Advance, RouteCommand, CreateSpecIssue, ClaimWorkflow, FoundWorkflow, BindHome, PublishTicket,
              PushBranches, RemoveFiles, DeleteBranches, ConfirmAuthority, WriteManifest, CloseSpec,
              UnbindHome, tracker
<1>2. CASE ~Advance(h)
  BY <1>2 DEF Acts, Begin, Cancel, BeginPublish, Resume, PollTracker, PollRoute, ExpireCache, Crash, tracker
<1> QED BY <1>1, <1>2

\* A home has its draft, none, or the next one.
Redrafts(h) ==
  \/ UNCHANGED <<drafts, pending[h]>>
  \/ UNCHANGED drafts /\ pending'[h] = NoDraft
  \/ /\ drafts' = drafts + 1 /\ pending'[h].id = drafts + 1
     /\ flow'[h] = Idle

LEMMA ProceedDrafts ==
  ASSUME LifecycleTypeOK, NEW h \in Homes, NEW c, NEW r, Proceed(h, c, r)
  PROVE  Redrafts(h)
<1>1. CASE Plans(h, c, r)
  <2>1. ~Enters(h, c, r)
    BY <1>1 DEF Plans, Enters
  <2> QED BY <1>1, <2>1 DEF Proceed, NewDraft, Redrafts, LifecycleTypeOK
<1>2. CASE ~Plans(h, c, r)
  BY <1>2 DEF Proceed, Redrafts, LifecycleTypeOK
<1> QED BY <1>1, <1>2

LEMMA ActsDrafts ==
  ASSUME LifecycleTypeOK, NEW h \in Homes, Acts(h)
  PROVE  Redrafts(h)
<1>1. CASE RouteCommand(h)
  BY <1>1, ProceedDrafts DEF RouteCommand
<1>2. ASSUME NEW cmd, NEW t, Begin(h, cmd, t) PROVE Redrafts(h)
  <2>1. \/ Proceed(h, [Idle EXCEPT !.cmd = cmd, !.ticket = t], cache[h])
        \/ UNCHANGED <<pending, drafts>>
    BY <1>2 DEF Begin, LoadRoute
  <2> QED BY <2>1, ProceedDrafts DEF Redrafts
<1>3. ASSUME UNCHANGED drafts, Settled(h) \/ UNCHANGED pending PROVE Redrafts(h)
  BY <1>3 DEF Settled, Redrafts, LifecycleTypeOK
<1>4. CASE Advance(h) /\ ~RouteCommand(h)
  <2>1. UNCHANGED drafts
    BY <1>4 DEF Advance, CreateSpecIssue, ClaimWorkflow, FoundWorkflow, BindHome, PublishTicket,
                PushBranches, RemoveFiles, DeleteBranches, ConfirmAuthority, WriteManifest, CloseSpec,
                UnbindHome, counts
  <2>2. Settled(h) \/ UNCHANGED pending
    BY <1>4 DEF Advance, CreateSpecIssue, ClaimWorkflow, FoundWorkflow, BindHome, PublishTicket, Published,
                PushBranches, RemoveFiles, DeleteBranches, ConfirmAuthority, WriteManifest, CloseSpec,
                UnbindHome, Fail, memory
  <2> QED BY <1>3, <2>1, <2>2
<1>5. CASE \/ Cancel(h) \/ BeginPublish(h) \/ PollTracker(h) \/ PollRoute(h) \/ ExpireCache(h)
           \/ Crash(h) \/ \E w \in Workflows : Resume(h, w)
  BY <1>5 DEF Cancel, BeginPublish, PollTracker, PollRoute, ExpireCache, Crash, Resume, memory, counts,
              Redrafts, LifecycleTypeOK
<1> QED BY <1>1, <1>2, <1>4, <1>5 DEF Acts

(***************************************************************************)
(* Drafts                                                                  *)
(***************************************************************************)

\* No two homes have the same draft, and only drafts that were made have tickets
\* or workflows.
DraftInv ==
  /\ \A h \in Homes : pending[h].id <= drafts
  /\ \A g, h \in Homes : g # h /\ pending[g].id = pending[h].id => pending[h].id = 0
  /\ \A i \in published : i[1] <= drafts
  /\ \A w \in Workflows : origin[w] <= drafts \/ origin[w] = MaxDrafts + w

LEMMA DraftStep ==
  ASSUME TypeInv, TypeInv', DraftInv, NEW h \in Homes, Acts(h)
  PROVE  DraftInv'
<1>0. LifecycleTypeOK /\ LifecycleTypeOK' /\ PlaceAt(h) /\ drafts \in Nat /\ pending[h] \in Drafts
  BY HomeType DEF TypeInv, PlaceInv, LifecycleTypeOK
<1>1. Redrafts(h)
  BY <1>0, ActsDrafts
<1>2. drafts' \in Nat /\ drafts <= drafts'
  BY <1>0, <1>1 DEF Redrafts
<1>3. \A g \in Homes : g # h => pending'[g] = pending[g]
  BY <1>0, OtherHomes
<1>4. \A g \in Homes : pending[g].id \in Nat
  BY <1>0, HomeType DEF Drafts
<1>5. NoDraft.id = 0
  BY DEF NoDraft
<1>6. /\ pending'[h].id <= drafts'
      /\ \A g \in Homes : g # h /\ pending[g].id = pending'[h].id => pending[g].id = 0
  <2>1. CASE UNCHANGED <<drafts, pending[h]>>
    BY <2>1 DEF DraftInv
  <2>2. CASE UNCHANGED drafts /\ pending'[h] = NoDraft
    BY <1>0, <1>5, <2>2
  <2>3. CASE drafts' = drafts + 1 /\ pending'[h].id = drafts + 1
    <3>1. \A g \in Homes : pending[g].id <= drafts
      BY DEF DraftInv
    <3>2. \A g \in Homes : pending[g].id # drafts + 1
      BY <1>0, <1>4, <3>1
    <3> QED BY <1>0, <2>3, <3>2
  <2> QED BY <1>1, <2>1, <2>2, <2>3 DEF Redrafts
<1>7. \A g \in Homes : pending'[g].id <= drafts'
  BY <1>0, <1>2, <1>3, <1>4, <1>6 DEF DraftInv
<1>8. \A f, g \in Homes : f # g /\ pending'[f].id = pending'[g].id => pending'[g].id = 0
  BY <1>3, <1>6 DEF DraftInv
<1>9. \A i \in published' : i[1] <= drafts'
  <2>1. \A i \in published : i[1] \in Nat
    BY <1>0 DEF LifecycleTypeOK, Issues
  <2>2. CASE UNCHANGED published
    BY <1>0, <1>2, <2>1, <2>2 DEF DraftInv
  <2>3. CASE PublishTicket(h)
    <3>1. flow[h].draft = pending[h].id
      BY <1>0, <2>3 DEF PublishTicket, PlaceAt, PlaceOf, Purpose
    <3>2. \A i \in published' : i \in published \/ i[1] = flow[h].draft
      BY <2>3 DEF PublishTicket, Published
    <3> QED BY <1>0, <1>2, <1>4, <2>1, <3>1, <3>2 DEF DraftInv
  <2> QED BY <2>2, <2>3, IssueEffect
<1>10. \A w \in Workflows : origin'[w] <= drafts' \/ origin'[w] = MaxDrafts + w
  <2>1. \A w \in Workflows : origin[w] \in Nat
    BY <1>0 DEF LifecycleTypeOK
  <2>2. CASE UNCHANGED origin
    BY <1>0, <1>2, <2>1, <2>2 DEF DraftInv
  <2>3. CASE CreateSpecIssue(h)
    <3>1. PICK w \in Workflows :
            LET draft == IF Doing(h, "follow-up") THEN MaxDrafts + w ELSE flow[h].draft
            IN UNCHANGED origin \/ origin' = [origin EXCEPT ![w] = draft]
      BY <2>3 DEF CreateSpecIssue
    <3>2. ~Doing(h, "follow-up") => flow[h].draft = pending[h].id
      BY <1>0, <2>3 DEF CreateSpecIssue, PlaceAt, PlaceOf, Purpose, Doing
    <3>3. \A v \in Workflows : v # w => origin'[v] = origin[v]
      BY <1>0, <3>1 DEF LifecycleTypeOK
    <3>4. origin'[w] = origin[w] \/ origin'[w] = MaxDrafts + w \/ origin'[w] = pending[h].id
      BY <1>0, <3>1, <3>2 DEF LifecycleTypeOK
    <3> QED BY <1>0, <1>2, <1>4, <2>1, <3>3, <3>4 DEF DraftInv
  <2> QED BY <2>2, <2>3, IssueEffect
<1>11. Workflows' = Workflows
  BY DEF Workflows
<1> QED BY <1>7, <1>8, <1>9, <1>10, <1>11 DEF DraftInv

(***************************************************************************)
(* Breakdowns                                                              *)
(***************************************************************************)

Broken == {"tickets-published", "merged", "completed"}

\* A manifest m lists a breakdown of which L is linked.
Lists(m, L) ==
  /\ m.tickets \subseteq L
  /\ m.stage \in Broken => \E d \in 1..MaxDrafts : m.tickets = {d} \X Tickets

\* So does every copy of one.
CopiesInv ==
  /\ \A w \in Workflows : Lists(manifest[w], linked)
  /\ \A h \in Homes : /\ Lists(cache[h].active, linked) /\ Lists(flow[h].active, linked)
                       /\ \A m \in flow[h].seen \cup poll[h].seen : Lists(m, linked)

Publishing(f) == f.cmd = "publish-tickets" /\ f.at # "route"

\* The tickets of a draft of which there is an issue in P.
IssuesOf(p, P) == {t \in Tickets : <<p.id, t>> \in P}

\* A draft has no ticket until its publication begins, only linked ones while
\* it lasts, and all of them when it is confirmed.
TicketsOf(f, p, P, L) ==
  /\ p.kind = "tickets" /\ ~Publishing(f) => IssuesOf(p, P) = {}
  /\ Publishing(f) => IssuesOf(p, P) \subseteq IssuesOf(p, L)
  /\ Publishing(f) /\ f.at # "tickets" => IssuesOf(p, L) = Tickets
TicketsInv == \A h \in Homes : TicketsOf(flow[h], pending[h], published, linked)

LEMMA ListsMore ==
  ASSUME NEW m, NEW L, NEW M, L \subseteq M, Lists(m, L)
  PROVE  Lists(m, M)
BY DEF Lists

LEMMA ListsNothing ==
  ASSUME NEW L, NEW w \in 0..MaxWorkflows
  PROVE  Lists(NoManifest, L) /\ Lists([NoManifest EXCEPT !.id = w], L) /\ Lists(First(w), L)
BY DEF Lists, NoManifest, First, Broken

LEMMA UpdatedLists ==
  ASSUME TypeInv, CopiesInv, TicketsInv, NEW h \in Homes, flow[h].at = "write"
  PROVE  Lists(Updated(h), linked)
<1>0. /\ LifecycleTypeOK /\ PlaceAt(h) /\ flow[h] \in Flows /\ flow[h].active \in Manifests
      /\ Lists(flow[h].active, linked)
  BY HomeType DEF TypeInv, PlaceInv, CopiesInv, Flows
<1>1. flow[h].cmd \in {"publish-tickets", "integrate", "merge", "cleanup"}
  BY <1>0 DEF PlaceAt, PlaceOf, Purpose
<1>2. CASE flow[h].cmd = "publish-tickets"
  <2>1. flow[h].draft = pending[h].id /\ flow[h].draft \in 1..MaxDrafts
    <3>1. pending[h].id \in 0..MaxDrafts
      BY <1>0, HomeType DEF Drafts
    <3>2. flow[h].draft = pending[h].id /\ pending[h].id # 0
      BY <1>0, <1>2 DEF PlaceAt, PlaceOf, NoDraft
    <3> QED BY <3>1, <3>2
  <2>2. \A t \in Tickets : <<pending[h].id, t>> \in linked
    BY <1>2 DEF TicketsInv, TicketsOf, Publishing, IssuesOf
  <2>3. ASSUME NEW i \in {flow[h].draft} \X Tickets PROVE i \in linked
    <3>1. PICK t \in Tickets : i = <<flow[h].draft, t>>
      BY RowOf
    <3> QED BY <2>1, <2>2, <3>1
  <2>4. Updated(h).tickets = {flow[h].draft} \X Tickets
    BY <1>0, <1>2, ManifestType DEF Updated
  <2> QED BY <2>1, <2>3, <2>4 DEF Lists
<1>3. CASE flow[h].cmd \in {"integrate", "merge", "cleanup"}
  <2>1. Updated(h).tickets = flow[h].active.tickets
    BY <1>0, <1>3, ManifestType DEF Updated
  <2>2. flow[h].active.stage \in Broken
    BY <1>0, <1>3 DEF PlaceAt, PlaceOf, Broken
  <2> QED BY <1>0, <2>1, <2>2 DEF Lists
<1> QED BY <1>1, <1>2, <1>3

LEMMA LinkedGrows ==
  ASSUME NEW h \in Homes, Acts(h)
  PROVE  linked \subseteq linked'
BY IssueEffect DEF PublishTicket

LEMMA CopiesStep ==
  ASSUME TypeInv, CopiesInv, TicketsInv, NEW h \in Homes, Acts(h)
  PROVE  CopiesInv'
<1>0. LifecycleTypeOK /\ Work(h) \in 0..MaxWorkflows
  BY HomeType DEF TypeInv
<1>1. linked \subseteq linked'
  BY LinkedGrows
<1>2. Workflows' = Workflows
  BY DEF Workflows
<1>3. \A w \in Workflows : Lists(manifest'[w], linked)
  <2>1. CASE UNCHANGED manifest
    BY <2>1 DEF CopiesInv
  <2>2. ASSUME NEW m, Lists(m, linked), manifest' = [manifest EXCEPT ![Work(h)] = m]
        PROVE  \A w \in Workflows : Lists(manifest'[w], linked)
    BY <1>0, <2>2 DEF CopiesInv, LifecycleTypeOK
  <2>3. WriteManifest(h) => Lists(Updated(h), linked)
    BY UpdatedLists DEF WriteManifest
  <2> QED BY <1>0, <2>1, <2>2, <2>3, ManifestEffect, ListsNothing
<1>4. \A m \in Sources(h) : Lists(m, linked)
  <2>1. Lists(NoManifest, linked)
    BY <1>0, ListsNothing
  <2> QED BY <2>1 DEF Sources, CopiesInv
<1>5. CopiesKnown(h)
  BY ActsCopies
<1>6. Lists(flow'[h].active, linked)
  <2>1. CASE Made(h)
    BY <2>1, ListsNothing DEF Made, Workflows
  <2> QED BY <1>4, <1>5, <2>1 DEF CopiesKnown, CopiesInv
<1>7. ASSUME NEW g \in Homes
      PROVE  /\ Lists(cache'[g].active, linked) /\ Lists(flow'[g].active, linked)
             /\ \A m \in flow'[g].seen \cup poll'[g].seen : Lists(m, linked)
  <2>1. CASE g = h
    BY <1>4, <1>5, <1>6, <2>1 DEF CopiesKnown
  <2>2. CASE g # h
    BY <1>0, <2>2, OtherHomes DEF CopiesInv
  <2> QED BY <2>1, <2>2
<1> QED BY <1>1, <1>2, <1>3, <1>7, ListsMore DEF CopiesInv

\* How a publication begins, goes on and ends, besides its tickets.
Publishes(h) ==
  \/ /\ ~Publishing(flow'[h])
     /\ \/ pending'[h] = NoDraft
        \/ pending'[h] = pending[h] /\ ~Publishing(flow[h])
        \/ pending'[h].id = drafts + 1
  \/ /\ ~Publishing(flow[h]) /\ flow'[h].at = "tickets"
     /\ pending'[h] = pending[h] /\ pending[h].kind = "tickets"
  \/ /\ Publishing(flow[h]) /\ Publishing(flow'[h]) /\ pending'[h] = pending[h]
     /\ flow'[h].at = flow[h].at \/ flow[h].at # "tickets"

LEMMA IdlePublish == ~Publishing(Idle) /\ NoDraft.kind = "none"
BY DEF Publishing, Idle, NoDraft

LEMMA ProceedPublish ==
  ASSUME LifecycleTypeOK, NEW h \in Homes, NEW c, Starts(c), NEW r, Proceed(h, c, r),
         ~Publishing(flow[h]), c.cmd = "publish-tickets" => pending[h].kind = "tickets"
  PROVE  Publishes(h)
<1>1. CASE Enters(h, c, r)
  <2>1. flow'[h] = [c EXCEPT !.at = FirstStep(c.cmd), !.seen = {}, !.active = r.active,
                             !.draft = pending[h].id]
    BY <1>1 DEF Proceed, LifecycleTypeOK
  <2>2. flow'[h].at = FirstStep(c.cmd) /\ flow'[h].cmd = c.cmd
    BY <2>1 DEF Starts, Flows
  <2>3. pending'[h] = pending[h]
    BY <1>1 DEF Proceed, Plans, Enters
  <2>4. FirstStep("publish-tickets") = "tickets"
    BY DEF FirstStep
  <2> QED BY <2>2, <2>3, <2>4 DEF Publishes, Publishing
<1>2. CASE ~Enters(h, c, r)
  <2>1. flow'[h] = Idle
    BY <1>2 DEF Proceed, LifecycleTypeOK
  <2>2. pending'[h] = NoDraft \/ pending'[h] = pending[h] \/ pending'[h].id = drafts + 1
    BY <1>2 DEF Proceed, LifecycleTypeOK
  <2> QED BY <2>1, <2>2, IdlePublish DEF Publishes
<1> QED BY <1>1, <1>2

LEMMA PublishFlow ==
  ASSUME TypeInv, NEW h \in Homes, Acts(h), ~PublishTicket(h)
  PROVE  Publishes(h)
<1>0. LifecycleTypeOK /\ PlaceAt(h) /\ flow[h] \in Flows /\ flow[h].cmd \in Purpose(flow[h].at)
  BY HomeType DEF TypeInv, PlaceInv, PlaceAt, PlaceOf
<1> USE <1>0
<1>1. ASSUME NEW at, Go(h, at) PROVE flow'[h].at = at /\ flow'[h].cmd = flow[h].cmd
  BY <1>1 DEF Go, LifecycleTypeOK, Flows
<1>2. Stop(h) => flow'[h] = Idle
  BY DEF Stop, LifecycleTypeOK
<1>3. Settled(h) => \/ pending'[h] = NoDraft
                    \/ pending'[h] = pending[h] /\ flow[h].cmd # "publish-tickets"
  BY DEF Settled, LifecycleTypeOK
<1>4. flow[h].at = "idle" => ~Publishing(flow[h])
  BY DEF Purpose, Publishing
<1>5. CASE RouteCommand(h)
  <2>1. Starts(flow[h]) /\ ~Publishing(flow[h])
    BY <1>5 DEF RouteCommand, Purpose, Starts, Publishing
  <2> QED BY <1>5, <2>1, ProceedPublish DEF RouteCommand, PlaceAt, PlaceOf
<1>6. CASE \/ CreateSpecIssue(h) \/ ClaimWorkflow(h) \/ FoundWorkflow(h) \/ BindHome(h)
           \/ PushBranches(h) \/ RemoveFiles(h) \/ DeleteBranches(h) \/ CloseSpec(h) \/ UnbindHome(h)
  <2>1. flow[h].cmd # "publish-tickets"
    BY <1>6 DEF CreateSpecIssue, ClaimWorkflow, FoundWorkflow, BindHome, PushBranches, RemoveFiles,
                DeleteBranches, CloseSpec, UnbindHome, Purpose
  <2>2. pending'[h] = NoDraft \/ pending'[h] = pending[h]
    BY <1>3, <1>6 DEF CreateSpecIssue, ClaimWorkflow, FoundWorkflow, BindHome, PushBranches, RemoveFiles,
                      DeleteBranches, CloseSpec, UnbindHome, memory
  <2>3. flow'[h] = Idle \/ flow'[h].cmd = flow[h].cmd
    <3>1. CASE CreateSpecIssue(h)
      BY <1>2, <3>1 DEF CreateSpecIssue, LifecycleTypeOK, Flows
    <3>2. CASE \/ ClaimWorkflow(h) \/ FoundWorkflow(h) \/ BindHome(h)
               \/ PushBranches(h) \/ RemoveFiles(h) \/ DeleteBranches(h) \/ CloseSpec(h) \/ UnbindHome(h)
      BY <1>1, <1>2, <3>2 DEF ClaimWorkflow, FoundWorkflow, BindHome, PushBranches, RemoveFiles,
                              DeleteBranches, CloseSpec, UnbindHome
    <3> QED BY <1>6, <3>1, <3>2
  <2> QED BY <2>1, <2>2, <2>3, IdlePublish DEF Publishes, Publishing
<1>7. CASE ConfirmAuthority(h)
  <2>1. CASE Fail(h)
    BY <1>2, <1>3, <2>1, IdlePublish DEF Fail, Publishes, Publishing
  <2>2. CASE Go(h, "write") /\ UNCHANGED pending
    BY <1>1, <1>7, <2>2 DEF ConfirmAuthority, Publishes, Publishing
  <2> QED BY <1>7, <2>1, <2>2 DEF ConfirmAuthority
<1>8. CASE WriteManifest(h)
  <2>1. Settled(h) /\ (Stop(h) \/ (Go(h, "close") /\ flow[h].cmd = "cleanup"))
    BY <1>8 DEF WriteManifest, Doing
  <2> QED BY <1>1, <1>2, <1>3, <2>1, IdlePublish DEF Publishes, Publishing
<1>9. ASSUME NEW cmd \in {"create-spec", "create-tickets", "publish-tickets", "integrate", "merge", "cleanup", "follow-up"},
             NEW t \in Tickets \cup {0}, Begin(h, cmd, t)
      PROVE  Publishes(h)
  <2> DEFINE c == [Idle EXCEPT !.cmd = cmd, !.ticket = t]
  <2>1. ~Publishing(flow[h]) /\ (cmd = "publish-tickets" => pending[h].kind = "tickets")
    BY <1>4, <1>9 DEF Begin
  <2>2. c \in Flows /\ c.cmd = cmd
    BY ConstantTypes DEF Idle, Flows, Commands
  <2>3. cmd \in Commands \ {"none", "publish-spec", "resume"}
    BY DEF Commands
  <2>4. Starts(c)
    BY <2>2, <2>3 DEF Starts
  <2>5. CASE Proceed(h, c, cache[h])
    BY <2>1, <2>2, <2>4, <2>5, ProceedPublish
  <2>6. CASE UNCHANGED <<flow, pending>>
    BY <2>1, <2>6 DEF Publishes
  <2>7. CASE /\ flow' = [flow EXCEPT ![h] = [c EXCEPT !.at = "route", !.seen = ActiveWorkflows]]
             /\ UNCHANGED pending
    <3>1. flow'[h] = [c EXCEPT !.at = "route", !.seen = ActiveWorkflows]
      BY <2>7 DEF LifecycleTypeOK
    <3>2. flow'[h].at = "route"
      BY <2>2, <3>1 DEF Flows
    <3> QED BY <2>1, <2>7, <3>2 DEF Publishes, Publishing
  <2> QED BY <1>9, <2>5, <2>6, <2>7 DEF Begin, LoadRoute
<1>10. CASE PollTracker(h) \/ PollRoute(h) \/ ExpireCache(h)
  BY <1>10 DEF PollTracker, PollRoute, ExpireCache, Publishes, memory
<1>11. CASE Crash(h)
  BY <1>2, <1>11, IdlePublish DEF Crash, Publishes, LifecycleTypeOK
<1>12. CASE Cancel(h) \/ BeginPublish(h) \/ \E w \in Workflows : Resume(h, w)
  <2>1. ~Publishing(flow[h])
    BY <1>4, <1>12 DEF Cancel, BeginPublish, Resume
  <2>2. pending'[h] = NoDraft \/ pending'[h] = pending[h]
    BY <1>12 DEF Cancel, BeginPublish, Resume, memory, LifecycleTypeOK
  <2>3. flow'[h] = flow[h] \/ flow'[h].cmd \in {"publish-spec", "resume"}
    <3>1. CASE Cancel(h)
      BY <3>1 DEF Cancel
    <3>2. CASE BeginPublish(h)
      <4>1. flow'[h] = [Idle EXCEPT !.at = "create", !.cmd = "publish-spec", !.draft = pending[h].id]
        BY <3>2 DEF BeginPublish, LifecycleTypeOK
      <4> QED BY <4>1 DEF Idle
    <3>3. ASSUME NEW w \in Workflows, Resume(h, w)
          PROVE  flow'[h] = flow[h] \/ flow'[h].cmd = "resume"
      <4>1. \/ flow' = flow
            \/ flow' = [flow EXCEPT ![h] = [Idle EXCEPT !.at = "bind", !.cmd = "resume", !.active = manifest[w]]]
        BY <3>3 DEF Resume
      <4>2. [Idle EXCEPT !.at = "bind", !.cmd = "resume", !.active = manifest[w]].cmd = "resume"
        BY DEF Idle
      <4> QED BY <4>1, <4>2 DEF LifecycleTypeOK
    <3> QED BY <1>12, <3>1, <3>2, <3>3
  <2> QED BY <2>1, <2>2, <2>3 DEF Publishes, Publishing
<1> QED
  BY <1>5, <1>6, <1>7, <1>8, <1>9, <1>10, <1>11, <1>12 DEF Acts, Advance

\* Tickets of other drafts are of no account.
LEMMA TicketsOfOthers ==
  ASSUME NEW f, NEW p, NEW P, NEW L, NEW Q, NEW M, TicketsOf(f, p, P, L),
         IssuesOf(p, Q) \subseteq IssuesOf(p, P), IssuesOf(p, L) \subseteq IssuesOf(p, M)
  PROVE  TicketsOf(f, p, Q, M)
<1>1. IssuesOf(p, M) \subseteq Tickets
  BY DEF IssuesOf
<1> QED BY <1>1 DEF TicketsOf

LEMMA TicketsStep ==
  ASSUME TypeInv, TypeInv', DraftInv, TicketsInv, NEW h \in Homes, Acts(h)
  PROVE  TicketsInv'
<1>0. /\ LifecycleTypeOK /\ PlaceAt(h) /\ flow[h] \in Flows /\ pending[h] \in Drafts
      /\ flow[h].cmd \in Purpose(flow[h].at) /\ drafts \in Nat
  BY HomeType DEF TypeInv, PlaceInv, PlaceAt, PlaceOf, LifecycleTypeOK
<1>1. CASE PublishTicket(h)
  <2>0. Publishing(flow[h]) /\ flow[h].draft = pending[h].id /\ pending[h].id # 0 /\ flow[h].at = "tickets"
    BY <1>0, <1>1 DEF PublishTicket, Purpose, Publishing, PlaceAt, PlaceOf, NoDraft
  <2>1. PICK t \in Tickets, ok \in BOOLEAN :
          /\ NextTicket(h, t)
          /\ \/ /\ ok /\ Published(h, t) /\ linked' = linked \cup {<<flow[h].draft, t>>}
             \/ /\ published' \in {published, published \cup {<<flow[h].draft, t>>}}
                /\ UNCHANGED linked /\ Fail(h)
    BY <1>1 DEF PublishTicket
  <2>2. ASSUME NEW g \in Homes, g # h
        PROVE  TicketsOf(flow'[g], pending'[g], published', linked')
    <3>1. flow'[g] = flow[g] /\ pending'[g] = pending[g]
      BY <1>0, <2>2, OtherHomes
    <3>2. pending[g].id # pending[h].id
      BY <2>0, <2>2 DEF DraftInv
    <3>3. /\ IssuesOf(pending[g], published') \subseteq IssuesOf(pending[g], published)
          /\ IssuesOf(pending[g], linked) \subseteq IssuesOf(pending[g], linked')
      BY <2>0, <2>1, <3>2 DEF Published, IssuesOf
    <3>4. TicketsOf(flow[g], pending[g], published, linked)
      BY DEF TicketsInv
    <3>5. TicketsOf(flow[g], pending[g], published', linked')
      BY <3>3, <3>4, TicketsOfOthers
    <3> QED BY <3>1, <3>5
  <2>3. TicketsOf(flow'[h], pending'[h], published', linked')
    <3>1. CASE Fail(h)
      <4>1. flow'[h] = Idle /\ pending'[h] = NoDraft
        BY <1>0, <2>0, <3>1 DEF Fail, Stop, Settled, LifecycleTypeOK, Publishing
      <4> QED BY <4>1, IdlePublish DEF TicketsOf
    <3>2. CASE Published(h, t) /\ linked' = linked \cup {<<flow[h].draft, t>>}
      <4>1. pending'[h] = pending[h] /\ published' = published \cup {<<flow[h].draft, t>>}
        BY <3>2 DEF Published
      <4>2. IssuesOf(pending[h], published) \subseteq IssuesOf(pending[h], linked)
        BY <2>0 DEF TicketsInv, TicketsOf
      <4>3. IssuesOf(pending[h], published') \subseteq IssuesOf(pending[h], linked')
        BY <2>0, <3>2, <4>1, <4>2 DEF IssuesOf
      <4>4. CASE UNCHANGED flow
        BY <2>0, <4>1, <4>3, <4>4 DEF TicketsOf
      <4>5. CASE Go(h, "confirm") /\ \A u \in Tickets : u <= t
        <5>1. Publishing(flow'[h])
          BY <1>0, <2>0, <4>5 DEF Go, Publishing, LifecycleTypeOK, Flows
        <5>2. \A u \in Tickets : u < t \/ u = t
          BY <4>5
        <5>3. IssuesOf(pending[h], published') = Tickets
          BY <2>0, <2>1, <4>1, <5>2 DEF NextTicket, IssuesOf
        <5>4. IssuesOf(pending[h], linked') = Tickets
          BY <4>3, <5>3 DEF IssuesOf
        <5> QED BY <4>1, <4>3, <5>1, <5>4 DEF TicketsOf
      <4> QED BY <3>2, <4>4, <4>5 DEF Published
    <3> QED BY <2>1, <3>1, <3>2
  <2> QED BY <2>2, <2>3 DEF TicketsInv
<1>2. CASE ~PublishTicket(h)
  <2>1. UNCHANGED <<published, linked>> /\ Publishes(h)
    BY <1>2, IssueEffect, PublishFlow
  <2>2. ASSUME NEW g \in Homes, g # h
        PROVE  TicketsOf(flow'[g], pending'[g], published', linked')
    BY <1>0, <2>1, <2>2, OtherHomes DEF TicketsInv
  <2>3. TicketsOf(flow'[h], pending'[h], published', linked')
    <3>0. TicketsOf(flow[h], pending[h], published, linked)
      BY DEF TicketsInv
    <3>1. CASE ~Publishing(flow'[h])
      <4>1. CASE pending'[h] = NoDraft
        BY <3>1, <4>1, IdlePublish DEF TicketsOf
      <4>2. CASE pending'[h] = pending[h] /\ ~Publishing(flow[h])
        BY <2>1, <3>0, <3>1, <4>2 DEF TicketsOf
      <4>3. CASE pending'[h].id = drafts + 1
        <5>1. \A i \in published : i[1] \in Nat
          BY <1>0 DEF LifecycleTypeOK, Issues
        <5>2. IssuesOf(pending'[h], published) = {}
          BY <1>0, <4>3, <5>1 DEF DraftInv, IssuesOf
        <5> QED BY <2>1, <3>1, <4>3, <5>2 DEF TicketsOf
      <4> QED BY <2>1, <3>1, <4>1, <4>2, <4>3 DEF Publishes, Publishing
    <3>2. CASE Publishing(flow'[h]) /\ ~Publishing(flow[h])
      <4>1. flow'[h].at = "tickets" /\ pending'[h] = pending[h] /\ pending[h].kind = "tickets"
        BY <2>1, <3>2 DEF Publishes
      <4> QED BY <2>1, <3>0, <3>2, <4>1 DEF TicketsOf
    <3>3. CASE Publishing(flow'[h]) /\ Publishing(flow[h])
      <4>1. pending'[h] = pending[h] /\ (flow'[h].at = flow[h].at \/ flow[h].at # "tickets")
        BY <2>1, <3>3 DEF Publishes
      <4> QED BY <2>1, <3>0, <3>3, <4>1 DEF TicketsOf
    <3> QED BY <3>1, <3>2, <3>3
  <2> QED BY <2>2, <2>3 DEF TicketsInv
<1> QED BY <1>1, <1>2

(***************************************************************************)
(* Workflows                                                               *)
(***************************************************************************)

Founded == {w \in Workflows : manifest[w] # NoManifest}
Founding(f) == f.at \in {"claim", "found"}

\* A copy is of a workflow in F.
Sound(m, F) == m.id # 0 => m.id \in F

\* Everything but what a home is about to found is known to be founded.
SoundInv ==
  \A h \in Homes : /\ Sound(cache[h].active, Founded)
                   /\ \A m \in flow[h].seen \cup poll[h].seen : Sound(m, Founded)
                   /\ ~Founding(flow[h]) => Sound(flow[h].active, Founded)

\* The draft the workflow w of a home in f, with p pending, is made from.
OriginOf(f, p, w) == IF f.cmd = "publish-spec" THEN p.id ELSE MaxDrafts + w

\* Whatever is founded has an origin.  What a home is founding is its own, from
\* its own draft; and once that draft has a workflow the home only binds it.
OriginInv ==
  /\ \A w \in Founded : origin[w] # 0
  /\ \A h \in Homes : Founding(flow[h]) =>
       /\ Work(h) \in Workflows \ Founded
       /\ origin[Work(h)] = OriginOf(flow[h], pending[h], Work(h))
  /\ \A g, h \in Homes : g # h /\ Founding(flow[g]) /\ Founding(flow[h]) => Work(g) # Work(h)
  /\ \A h \in Homes, w \in Founded : pending[h].id # 0 /\ origin[w] = pending[h].id =>
       flow[h].cmd = "publish-spec" /\ flow[h].at = "bind"

\* What becomes of a home that is founding a workflow.
Founds(h) ==
  \/ /\ flow'[h].at \in {flow[h].at, "found"} /\ flow'[h].cmd = flow[h].cmd
     /\ flow'[h].active = flow[h].active
     /\ pending'[h] = pending[h] /\ UNCHANGED manifest
  \/ /\ flow[h].at = "found" /\ flow'[h].at = "bind" /\ flow'[h].cmd = flow[h].cmd
     /\ flow'[h].active = flow[h].active
     /\ pending'[h] = pending[h] /\ manifest' = [manifest EXCEPT ![Work(h)] = First(Work(h))]
  \/ /\ flow'[h] = Idle
     /\ \/ pending'[h] = NoDraft
        \/ pending'[h] = pending[h] /\ flow[h].cmd # "publish-spec"

LEMMA FoundFlow ==
  ASSUME TypeInv, NEW h \in Homes, Acts(h), Founding(flow[h])
  PROVE  Founds(h)
<1>0. LifecycleTypeOK /\ flow[h] \in Flows
  BY HomeType DEF TypeInv
<1> USE <1>0
<1>1. ASSUME NEW at, Go(h, at)
      PROVE  flow'[h].at = at /\ flow'[h].cmd = flow[h].cmd /\ flow'[h].active = flow[h].active
  BY <1>1 DEF Go, LifecycleTypeOK, Flows
<1>2. Stop(h) => flow'[h] = Idle
  BY DEF Stop, LifecycleTypeOK
<1>3. Settled(h) => \/ pending'[h] = NoDraft
                    \/ pending'[h] = pending[h] /\ flow[h].cmd # "publish-spec"
  BY DEF Settled, LifecycleTypeOK
<1>4. CASE ClaimWorkflow(h)
  <2>1. UNCHANGED manifest
    BY <1>4 DEF ClaimWorkflow, tracker
  <2>2. CASE Go(h, "found") /\ UNCHANGED pending
    BY <1>1, <2>1, <2>2 DEF Founds
  <2>3. CASE Stop(h) /\ Settled(h)
    BY <1>2, <1>3, <2>3 DEF Founds
  <2> QED BY <1>4, <2>2, <2>3 DEF ClaimWorkflow
<1>5. CASE FoundWorkflow(h)
  <2>1. CASE Stop(h) /\ Settled(h)
    BY <1>2, <1>3, <2>1 DEF Founds
  <2>2. CASE Go(h, "bind") /\ UNCHANGED pending /\ manifest' = [manifest EXCEPT ![Work(h)] = First(Work(h))]
    BY <1>1, <1>5, <2>2 DEF Founds, FoundWorkflow
  <2> QED BY <1>5, <2>1, <2>2 DEF FoundWorkflow, First
<1>6. CASE PollTracker(h) \/ PollRoute(h) \/ ExpireCache(h)
  BY <1>6 DEF PollTracker, PollRoute, ExpireCache, Founds, memory, tracker
<1>7. CASE Crash(h)
  BY <1>2, <1>7 DEF Crash, Founds, LifecycleTypeOK
<1> QED
  BY <1>4, <1>5, <1>6, <1>7
     DEF Founding, Acts, Advance, RouteCommand, CreateSpecIssue, BindHome, PublishTicket, PushBranches,
         RemoveFiles, DeleteBranches, ConfirmAuthority, WriteManifest, CloseSpec, UnbindHome, Begin, Cancel,
         BeginPublish, Resume

LEMMA ProceedPlace ==
  ASSUME LifecycleTypeOK, NEW h \in Homes, NEW c, Starts(c), NEW r, Proceed(h, c, r)
  PROVE  flow'[h].at \in {"idle", "create", "tickets", "push", "confirm", "local"}
<1>1. CASE Enters(h, c, r)
  <2>1. flow'[h] = [c EXCEPT !.at = FirstStep(c.cmd), !.seen = {}, !.active = r.active,
                             !.draft = pending[h].id]
    BY <1>1 DEF Proceed, LifecycleTypeOK
  <2>2. flow'[h].at = FirstStep(c.cmd)
    BY <2>1 DEF Starts, Flows
  <2>3. c.cmd \in {"follow-up", "publish-tickets", "integrate", "merge", "cleanup"}
    BY <1>1 DEF Enters
  <2> QED BY <2>2, <2>3 DEF FirstStep
<1>2. CASE ~Enters(h, c, r)
  BY <1>2 DEF Proceed, LifecycleTypeOK, Idle
<1> QED BY <1>1, <1>2

\* Only one that makes a spec issue begins to found a workflow.
LEMMA MakeFlow ==
  ASSUME TypeInv, NEW h \in Homes, Acts(h), ~Founding(flow[h]), Founding(flow'[h])
  PROVE  CreateSpecIssue(h)
<1>0. LifecycleTypeOK /\ flow[h] \in Flows /\ PlaceAt(h)
  BY HomeType DEF TypeInv, PlaceInv
<1> USE <1>0
<1>1. ASSUME NEW at, Go(h, at) PROVE flow'[h].at = at
  BY <1>1 DEF Go, LifecycleTypeOK, Flows
<1>2. Stop(h) => ~Founding(flow'[h])
  BY DEF Stop, LifecycleTypeOK, Idle, Founding
<1>3. UNCHANGED flow => ~Founding(flow'[h])
  OBVIOUS
<1>4. CASE RouteCommand(h)
  <2>1. Starts(flow[h])
    BY <1>4 DEF RouteCommand, PlaceAt, PlaceOf, Purpose, Starts
  <2> QED BY <1>4, <2>1, ProceedPlace DEF RouteCommand, Founding
<1>5. CASE \/ BindHome(h) \/ PublishTicket(h) \/ PushBranches(h) \/ RemoveFiles(h) \/ DeleteBranches(h)
           \/ ConfirmAuthority(h) \/ WriteManifest(h) \/ CloseSpec(h) \/ UnbindHome(h)
  <2>1. Stop(h) \/ UNCHANGED flow \/ \E at \in Places \ {"claim", "found"} : Go(h, at)
    BY <1>5 DEF BindHome, PublishTicket, Published, PushBranches, RemoveFiles, DeleteBranches,
                ConfirmAuthority, WriteManifest, CloseSpec, UnbindHome, Fail, Places
  <2> QED BY <1>1, <1>2, <1>3, <2>1 DEF Founding
<1>6. CASE ClaimWorkflow(h) \/ FoundWorkflow(h)
  BY <1>6 DEF ClaimWorkflow, FoundWorkflow, Founding
<1>7. ASSUME NEW cmd \in {"create-spec", "create-tickets", "publish-tickets", "integrate", "merge", "cleanup", "follow-up"},
             NEW t \in Tickets \cup {0}, Begin(h, cmd, t)
      PROVE  FALSE
  <2> DEFINE c == [Idle EXCEPT !.cmd = cmd, !.ticket = t]
  <2>1. c \in Flows /\ c.cmd = cmd
    BY ConstantTypes DEF Idle, Flows, Commands
  <2>2. cmd \in Commands \ {"none", "publish-spec", "resume"}
    BY DEF Commands
  <2>3. Starts(c)
    BY <2>1, <2>2 DEF Starts
  <2>4. CASE Proceed(h, c, cache[h])
    BY <2>3, <2>4, ProceedPlace DEF Founding
  <2>5. CASE flow' = [flow EXCEPT ![h] = [c EXCEPT !.at = "route", !.seen = ActiveWorkflows]]
    <3>1. flow'[h] = [c EXCEPT !.at = "route", !.seen = ActiveWorkflows]
      BY <2>5 DEF LifecycleTypeOK
    <3>2. flow'[h].at = "route"
      BY <2>1, <3>1 DEF Flows
    <3> QED BY <3>2 DEF Founding
  <2> QED BY <1>3, <1>7, <2>4, <2>5 DEF Begin, LoadRoute
<1>8. CASE Cancel(h) \/ PollTracker(h) \/ PollRoute(h) \/ ExpireCache(h) \/ Crash(h)
  BY <1>2, <1>3, <1>8 DEF Cancel, PollTracker, PollRoute, ExpireCache, Crash
<1>9. CASE BeginPublish(h)
  BY <1>9 DEF BeginPublish, LifecycleTypeOK, Idle, Founding
<1>10. ASSUME NEW w \in Workflows, Resume(h, w) PROVE FALSE
  <2>1. \/ flow' = flow
        \/ flow' = [flow EXCEPT ![h] = [Idle EXCEPT !.at = "bind", !.cmd = "resume", !.active = manifest[w]]]
    BY <1>10 DEF Resume
  <2>2. [Idle EXCEPT !.at = "bind", !.cmd = "resume", !.active = manifest[w]].at = "bind"
    BY DEF Idle
  <2> QED BY <1>3, <2>1, <2>2 DEF LifecycleTypeOK, Founding
<1> QED BY <1>4, <1>5, <1>6, <1>7, <1>8, <1>9, <1>10 DEF Acts, Advance

\* A home that binds the workflow of its draft goes on to, or forgets the draft.
LEMMA BindFlow ==
  ASSUME TypeInv, NEW h \in Homes, Acts(h), flow[h].at = "bind", flow[h].cmd = "publish-spec"
  PROVE  flow'[h] = flow[h] \/ pending'[h] = NoDraft
<1>0. LifecycleTypeOK
  BY DEF TypeInv
<1>1. CASE BindHome(h)
  BY <1>0, <1>1 DEF BindHome, Settled, LifecycleTypeOK
<1>2. CASE PollTracker(h) \/ PollRoute(h) \/ ExpireCache(h)
  BY <1>2 DEF PollTracker, PollRoute, ExpireCache
<1>3. CASE Crash(h)
  BY <1>0, <1>3 DEF Crash, LifecycleTypeOK
<1> QED
  BY <1>1, <1>2, <1>3
     DEF Acts, Advance, RouteCommand, CreateSpecIssue, ClaimWorkflow, FoundWorkflow, PublishTicket,
         PushBranches, RemoveFiles, DeleteBranches, ConfirmAuthority, WriteManifest, CloseSpec, UnbindHome,
         Begin, Cancel, BeginPublish, Resume

\* One that makes a spec issue it goes on to found takes an unused one, for its draft.
LEMMA MadeEffect ==
  ASSUME TypeInv, NEW h \in Homes, CreateSpecIssue(h), Founding(flow'[h])
  PROVE  \E w \in Workflows :
           /\ origin[w] = 0 /\ Work(h)' = w
           /\ origin' = [origin EXCEPT ![w] = OriginOf(flow'[h], pending'[h], w)]
           /\ UNCHANGED <<manifest, pending>>
<1>0. /\ LifecycleTypeOK /\ flow[h] \in Flows /\ PlaceAt(h) /\ flow[h].at = "create"
      /\ flow[h].cmd \in Purpose(flow[h].at)
  BY HomeType DEF TypeInv, PlaceInv, PlaceAt, PlaceOf, CreateSpecIssue
<1>1. ~Stop(h)
  BY <1>0 DEF Stop, LifecycleTypeOK, Idle, Founding
<1>2. PICK w \in Workflows :
        /\ NewSpec(w)
        /\ origin' = [origin EXCEPT ![w] = IF Doing(h, "follow-up") THEN MaxDrafts + w ELSE flow[h].draft]
        /\ flow' = [flow EXCEPT ![h].at = "claim", ![h].draft = 0,
                                ![h].active = [NoManifest EXCEPT !.id = w]]
  BY <1>1 DEF CreateSpecIssue
<1>3. UNCHANGED <<manifest, pending>>
  BY DEF CreateSpecIssue, memory
<1>4. flow'[h] = [flow[h] EXCEPT !.at = "claim", !.draft = 0, !.active = [NoManifest EXCEPT !.id = w]]
  BY <1>0, <1>2 DEF LifecycleTypeOK
<1>5. flow'[h].cmd = flow[h].cmd /\ flow'[h].active = [NoManifest EXCEPT !.id = w]
  BY <1>0, <1>4 DEF Flows
<1>6. Work(h)' = w
  BY <1>5 DEF Work, NoManifest
<1>7. flow[h].cmd \in {"publish-spec", "follow-up"}
  BY <1>0 DEF Purpose
<1>8. flow[h].cmd = "publish-spec" => flow[h].draft = pending[h].id
  BY <1>0 DEF PlaceAt, PlaceOf
<1>9. origin[w] = 0
  BY <1>2 DEF NewSpec
<1> QED BY <1>2, <1>3, <1>5, <1>6, <1>7, <1>8, <1>9 DEF Doing, OriginOf

\* A spec issue is never made again from another draft.
LEMMA OriginKept ==
  ASSUME LifecycleTypeOK, NEW h \in Homes, Acts(h), NEW v \in Workflows, origin[v] # 0
  PROVE  origin'[v] = origin[v]
<1>1. CASE CreateSpecIssue(h)
  <2>1. PICK w \in Workflows :
            NewSpec(w) /\ (UNCHANGED origin \/ \E d : origin' = [origin EXCEPT ![w] = d])
    BY <1>1 DEF CreateSpecIssue
  <2>2. w # v
    BY <2>1 DEF NewSpec
  <2> QED BY <2>1, <2>2 DEF LifecycleTypeOK
<1> QED BY <1>1, IssueEffect

\* A workflow is founded by the home it is to be the work of.
LEMMA FoundedEffect ==
  ASSUME TypeInv, SoundInv, NEW h \in Homes, Acts(h)
  PROVE  \/ Founded' = Founded
         \/ FoundWorkflow(h) /\ Work(h) \in Workflows /\ Founded' = Founded \cup {Work(h)}
<1>0. LifecycleTypeOK /\ PlaceAt(h) /\ Work(h) \in 0..MaxWorkflows
  BY HomeType DEF TypeInv, PlaceInv
<1>1. Workflows' = Workflows /\ NoManifest.id = 0
  BY DEF Workflows, NoManifest
<1>2. CASE UNCHANGED manifest
  BY <1>1, <1>2 DEF Founded
<1>3. ASSUME NEW m, m.id = Work(h), Work(h) # 0, manifest' = [manifest EXCEPT ![Work(h)] = m]
      PROVE  Work(h) \in Workflows /\ Founded' = Founded \cup {Work(h)}
  <2>1. Work(h) \in Workflows
    BY <1>0, <1>3 DEF Workflows
  <2>2. m # NoManifest
    BY <1>1, <1>3
  <2>3. manifest'[Work(h)] = m /\ \A w \in Workflows : w # Work(h) => manifest'[w] = manifest[w]
    BY <1>0, <1>3, <2>1 DEF LifecycleTypeOK
  <2> QED BY <1>1, <2>1, <2>2, <2>3 DEF Founded
<1>4. CASE FoundWorkflow(h) /\ manifest' = [manifest EXCEPT ![Work(h)] = First(Work(h))]
  <2>1. First(Work(h)).id = Work(h)
    BY DEF First, NoManifest
  <2>2. Work(h) # 0
    BY <1>0, <1>4 DEF FoundWorkflow, PlaceAt, PlaceOf, Work
  <2> QED BY <1>3, <1>4, <2>1, <2>2
<1>5. CASE WriteManifest(h) /\ manifest' = [manifest EXCEPT ![Work(h)] = Updated(h)]
  <2>1. Updated(h).id = Work(h) /\ Work(h) # 0
    BY <1>0, <1>5, UpdatedType DEF WriteManifest, PlaceAt, PlaceOf, Work
  <2>2. Work(h) \in Founded
    BY <1>5, <2>1 DEF SoundInv, Sound, WriteManifest, Founding, Work
  <2> QED BY <1>3, <1>5, <2>1, <2>2
<1> QED BY <1>2, <1>4, <1>5, ManifestEffect

LEMMA SoundStep ==
  ASSUME TypeInv, SoundInv, NEW h \in Homes, Acts(h)
  PROVE  SoundInv'
<1>0. LifecycleTypeOK
  BY DEF TypeInv
<1>1. Founded \subseteq Founded'
  BY FoundedEffect
<1>2. \A m \in Sources(h) : Sound(m, Founded)
  <2>1. Sound(NoManifest, Founded)
    BY DEF Sound, NoManifest
  <2>2. \A w \in Workflows : Sound(manifest[w], Founded)
    BY <1>0, <2>1 DEF Sound, Founded, LifecycleTypeOK
  <2> QED BY <2>1, <2>2 DEF Sources, SoundInv
<1>3. CopiesKnown(h)
  BY ActsCopies
<1>4. ASSUME ~Founding(flow'[h]) PROVE Sound(flow'[h].active, Founded')
  <2>1. ~Made(h)
    BY <1>4 DEF Made, Founding
  <2>2. CASE flow'[h].active \in Sources(h)
    BY <1>1, <1>2, <2>2 DEF Sound
  <2>3. CASE flow'[h].active = flow[h].active /\ ~Founding(flow[h])
    BY <1>1, <2>3 DEF Sound, SoundInv
  <2>4. CASE flow'[h].active = flow[h].active /\ Founding(flow[h])
    <3>1. Founds(h)
      BY <2>4, FoundFlow
    <3>2. CASE flow'[h] = Idle
      BY <3>2, ConstantCopies DEF Sound, NoManifest
    <3>3. CASE flow[h].at = "found" /\ manifest' = [manifest EXCEPT ![Work(h)] = First(Work(h))]
      <4>1. PlaceAt(h) /\ Work(h) \in 0..MaxWorkflows
        BY HomeType DEF TypeInv, PlaceInv
      <4>2. Work(h) \in Workflows
        BY <3>3, <4>1 DEF PlaceAt, PlaceOf, Work, Workflows
      <4>3. manifest'[Work(h)] = First(Work(h)) /\ First(Work(h)) # NoManifest
        BY <1>0, <3>3, <4>2 DEF LifecycleTypeOK, First, NoManifest
      <4>4. Work(h) \in Founded'
        BY <4>2, <4>3 DEF Founded, Workflows
      <4> QED BY <2>4, <4>4 DEF Sound, Work
    <3> QED BY <1>4, <2>4, <3>1, <3>2, <3>3 DEF Founds, Founding
  <2> QED BY <1>3, <2>1, <2>2, <2>3, <2>4 DEF CopiesKnown
<1>5. ASSUME NEW g \in Homes
      PROVE  /\ Sound(cache'[g].active, Founded')
             /\ \A m \in flow'[g].seen \cup poll'[g].seen : Sound(m, Founded')
             /\ ~Founding(flow'[g]) => Sound(flow'[g].active, Founded')
  <2>1. CASE g = h
    BY <1>1, <1>2, <1>3, <1>4, <2>1 DEF CopiesKnown, Sound
  <2>2. CASE g # h
    <3>1. UNCHANGED <<flow[g], cache[g], poll[g]>>
      BY <1>0, <2>2, OtherHomes
    <3> QED BY <1>1, <3>1 DEF SoundInv, Sound
  <2> QED BY <2>1, <2>2
<1> QED BY <1>5 DEF SoundInv

\* A home has an origin for what it is about to found, and it is no other's.
LEMMA FoundingOrigin ==
  ASSUME TypeInv, DraftInv, OriginInv, NEW h \in Homes, Founding(flow[h])
  PROVE  /\ Work(h) \in Workflows /\ origin[Work(h)] # 0
         /\ \A g \in Homes : g # h => origin[Work(h)] # pending[g].id
         /\ \A v \in Founded : origin[v] # origin[Work(h)]
<1>0. /\ LifecycleTypeOK /\ PlaceAt(h) /\ pending[h] \in Drafts
      /\ \A g \in Homes : pending[g].id \in 0..MaxDrafts
  BY HomeType DEF TypeInv, PlaceInv, Drafts
<1>1. Work(h) \in Workflows \ Founded /\ origin[Work(h)] = OriginOf(flow[h], pending[h], Work(h))
  BY DEF OriginInv
<1>2. Work(h) \in Nat \ {0}
  BY <1>1 DEF Workflows
<1>3. CASE flow[h].cmd = "publish-spec"
  <2>1. pending[h].id # 0 /\ origin[Work(h)] = pending[h].id
    BY <1>0, <1>1, <1>3 DEF PlaceAt, PlaceOf, NoDraft, OriginOf
  <2>2. \A g \in Homes : g # h => pending[g].id # pending[h].id
    BY <2>1 DEF DraftInv
  <2>3. \A v \in Founded : origin[v] # pending[h].id
    BY <2>1 DEF OriginInv, Founding
  <2> QED BY <1>1, <2>1, <2>2, <2>3
<1>4. CASE flow[h].cmd # "publish-spec"
  <2>1. origin[Work(h)] = MaxDrafts + Work(h)
    BY <1>1, <1>4 DEF OriginOf
  <2>2. ASSUME NEW v \in Founded PROVE origin[v] # origin[Work(h)]
    <3>1. v # Work(h) /\ v \in Nat /\ drafts \in 0..MaxDrafts
      BY <1>0, <1>1 DEF Founded, Workflows, LifecycleTypeOK
    <3>2. origin[v] <= drafts \/ origin[v] = MaxDrafts + v
      BY DEF DraftInv, Founded
    <3> QED BY <1>2, <2>1, <3>1, <3>2
  <2> QED BY <1>0, <1>1, <1>2, <2>1, <2>2
<1> QED BY <1>3, <1>4

\* What is founded has an origin, and keeps it.
LEMMA FoundedOrigin ==
  ASSUME TypeInv, DraftInv, SoundInv, OriginInv, NEW h \in Homes, Acts(h), NEW w \in Founded'
  PROVE  /\ w \in Workflows /\ origin[w] # 0 /\ origin'[w] = origin[w]
         /\ w \notin Founded => FoundWorkflow(h) /\ Founding(flow[h]) /\ w = Work(h)
<1>1. w \notin Founded => FoundWorkflow(h) /\ Founding(flow[h]) /\ w = Work(h)
  <2>1. FoundWorkflow(h) => Founding(flow[h])
    BY DEF FoundWorkflow, Founding
  <2>2. Founded' = Founded \/ (FoundWorkflow(h) /\ Founded' = Founded \cup {Work(h)})
    BY FoundedEffect
  <2> QED BY <2>1, <2>2
<1>2. w \in Workflows
  BY DEF Founded, Workflows
<1>3. origin[w] # 0
  BY <1>1, FoundingOrigin DEF OriginInv
<1> QED BY <1>1, <1>2, <1>3, OriginKept DEF TypeInv

LEMMA OneWorkflowStep ==
  ASSUME TypeInv, DraftInv, SoundInv, OriginInv, OneWorkflowPerDraft, NEW h \in Homes, Acts(h)
  PROVE  OneWorkflowPerDraft'
<1>1. ASSUME NEW v \in Founded', NEW w \in Founded', origin'[v] = origin'[w] PROVE v = w
  <2>1. origin[v] = origin[w]
    BY <1>1, FoundedOrigin
  <2>2. CASE v \in Founded /\ w \in Founded
    BY <2>1, <2>2 DEF OneWorkflowPerDraft, Founded
  <2>3. CASE v \notin Founded
    <3>1. Founding(flow[h]) /\ v = Work(h)
      BY <2>3, FoundedOrigin
    <3>2. w \notin Founded
      BY <2>1, <3>1, FoundingOrigin
    <3> QED BY <3>1, <3>2, FoundedOrigin
  <2>4. CASE w \notin Founded
    <3>1. Founding(flow[h]) /\ w = Work(h)
      BY <2>4, FoundedOrigin
    <3>2. v \notin Founded
      BY <2>1, <3>1, FoundingOrigin
    <3> QED BY <3>1, <3>2, FoundedOrigin
  <2> QED BY <2>2, <2>3, <2>4
<1> QED BY <1>1 DEF OneWorkflowPerDraft, Founded, Workflows

LEMMA OriginStep ==
  ASSUME TypeInv, TypeInv', DraftInv, DraftInv', SoundInv, OriginInv, NEW h \in Homes, Acts(h)
  PROVE  OriginInv'
<1>0. LifecycleTypeOK /\ LifecycleTypeOK' /\ drafts \in Nat /\ drafts' \in 0..MaxDrafts
  BY DEF TypeInv, LifecycleTypeOK
<1>1. Founded \subseteq Founded' /\ Workflows' = Workflows
  BY FoundedEffect DEF Workflows
<1>2. ASSUME NEW w \in Founded' PROVE origin'[w] # 0
  BY FoundedOrigin
\* What h is founding after the step.
<1>3. ASSUME Founding(flow'[h])
      PROVE  /\ Work(h)' \in Workflows \ Founded'
             /\ origin'[Work(h)'] = OriginOf(flow'[h], pending'[h], Work(h)')
             /\ \A g \in Homes : g # h /\ Founding(flow[g]) => Work(g) # Work(h)'
  <2>1. CASE Founding(flow[h])
    <3>1. /\ flow'[h].cmd = flow[h].cmd /\ flow'[h].active = flow[h].active
          /\ pending'[h] = pending[h] /\ UNCHANGED manifest
      BY <1>3, <2>1, FoundFlow DEF Founds, Founding, Idle
    <3>2. Work(h)' = Work(h) /\ Founded' = Founded
      BY <1>1, <3>1 DEF Work, Founded
    <3>3. origin'[Work(h)] = origin[Work(h)]
      BY <1>0, <2>1, FoundingOrigin, OriginKept
    <3> QED BY <2>1, <3>1, <3>2, <3>3 DEF OriginInv, OriginOf
  <2>2. CASE ~Founding(flow[h])
    <3>1. CreateSpecIssue(h)
      BY <1>3, <2>2, MakeFlow
    <3>2. PICK w \in Workflows :
            /\ origin[w] = 0 /\ Work(h)' = w
            /\ origin' = [origin EXCEPT ![w] = OriginOf(flow'[h], pending'[h], w)]
            /\ UNCHANGED <<manifest, pending>>
      BY <1>3, <3>1, MadeEffect
    <3>3. Founded' = Founded
      BY <1>1, <3>2 DEF Founded
    <3>4. w \notin Founded
      BY <3>2 DEF OriginInv
    <3>5. origin'[w] = OriginOf(flow'[h], pending'[h], w)
      BY <1>0, <3>2 DEF LifecycleTypeOK
    <3>6. \A g \in Homes : Founding(flow[g]) => Work(g) # w
      BY <3>2, FoundingOrigin
    <3> QED BY <3>2, <3>3, <3>4, <3>5, <3>6
  <2> QED BY <2>1, <2>2
<1>4. ASSUME NEW g \in Homes, g # h
      PROVE  UNCHANGED <<flow[g], pending[g]>> /\ Work(g)' = Work(g)
  BY <1>0, <1>4, OtherHomes DEF Work
\* What the others are founding.
<1>5. ASSUME NEW g \in Homes, g # h, Founding(flow'[g])
      PROVE  /\ Work(g)' \in Workflows \ Founded'
             /\ origin'[Work(g)'] = OriginOf(flow'[g], pending'[g], Work(g)')
  <2>1. Founding(flow[g])
    BY <1>4, <1>5
  <2>2. Work(g) \in Workflows \ Founded /\ origin[Work(g)] = OriginOf(flow[g], pending[g], Work(g))
    BY <2>1 DEF OriginInv
  <2>3. Work(g) \notin Founded'
    BY <1>5, <2>1, <2>2, FoundedOrigin DEF OriginInv
  <2>4. origin'[Work(g)] = origin[Work(g)]
    BY <1>0, <2>1, FoundingOrigin, OriginKept
  <2> QED BY <1>4, <1>5, <2>2, <2>3, <2>4
<1>6. ASSUME NEW f \in Homes, NEW g \in Homes, f # g, Founding(flow'[f]), Founding(flow'[g])
      PROVE  Work(f)' # Work(g)'
  <2>1. CASE f # h /\ g # h
    <3>1. Founding(flow[f]) /\ Founding(flow[g]) /\ Work(f)' = Work(f) /\ Work(g)' = Work(g)
      BY <1>4, <1>6, <2>1
    <3> QED BY <1>6, <3>1 DEF OriginInv
  <2>2. CASE f = h
    BY <1>3, <1>4, <1>6, <2>2
  <2>3. CASE g = h
    BY <1>3, <1>4, <1>6, <2>3
  <2> QED BY <2>1, <2>2, <2>3
\* The workflow of a draft that is pending.
<1>7. ASSUME NEW g \in Homes, NEW w \in Founded', pending'[g].id # 0, origin'[w] = pending'[g].id
      PROVE  flow'[g].cmd = "publish-spec" /\ flow'[g].at = "bind"
  <2>0. w \in Workflows /\ origin[w] = pending'[g].id
    BY <1>7, FoundedOrigin
  <2>1. CASE g # h /\ w \in Founded
    BY <1>4, <1>7, <2>0, <2>1 DEF OriginInv
  <2>2. CASE g # h /\ w \notin Founded
    BY <1>4, <2>0, <2>2, FoundedOrigin, FoundingOrigin
  <2>3. CASE g = h /\ pending'[h] = pending[h] /\ w \in Founded
    <3>1. flow[h].cmd = "publish-spec" /\ flow[h].at = "bind"
      BY <1>7, <2>0, <2>3 DEF OriginInv
    <3>2. flow'[h] = flow[h]
      BY <1>7, <2>3, <3>1, BindFlow DEF NoDraft
    <3> QED BY <2>3, <3>1, <3>2
  <2>4. CASE g = h /\ pending'[h] = pending[h] /\ w \notin Founded
    <3>1. Founding(flow[h]) /\ w = Work(h)
      BY <2>4, FoundedOrigin
    <3>2. flow[h].cmd = "publish-spec"
      <4>1. origin[w] = OriginOf(flow[h], pending[h], w)
        BY <3>1 DEF OriginInv
      <4>2. origin[w] \in 0..MaxDrafts /\ w \in Nat \ {0}
        <5>1. pending[h].id \in 0..MaxDrafts
          BY <1>0, HomeType DEF Drafts
        <5> QED BY <2>0, <2>4, <5>1 DEF Workflows
      <4> QED BY <4>1, <4>2 DEF OriginOf
    <3>3. ~UNCHANGED manifest
      BY <1>1, <2>4 DEF Founded
    <3>4. Founds(h)
      BY <3>1, FoundFlow
    <3> QED BY <1>7, <2>4, <3>2, <3>3, <3>4 DEF Founds, NoDraft
  <2>5. CASE g = h /\ drafts' = drafts + 1 /\ pending'[h].id = drafts + 1
    <3>1. origin[w] <= drafts \/ origin[w] = MaxDrafts + w
      BY <2>0 DEF DraftInv
    <3>2. w \in Nat \ {0} /\ origin[w] = drafts + 1 /\ drafts + 1 <= MaxDrafts
      BY <1>0, <2>0, <2>5 DEF Workflows
    <3> QED BY <1>0, <3>1, <3>2
  <2>6. Redrafts(h)
    BY <1>0, ActsDrafts
  <2> QED BY <1>7, <2>1, <2>2, <2>3, <2>4, <2>5, <2>6 DEF Redrafts, NoDraft
<1>8. ASSUME NEW g \in Homes, Founding(flow'[g])
      PROVE  /\ Work(g)' \in Workflows \ Founded'
             /\ origin'[Work(g)'] = OriginOf(flow'[g], pending'[g], Work(g)')
  BY <1>3, <1>5, <1>8
<1> QED BY <1>1, <1>2, <1>6, <1>7, <1>8 DEF OriginInv

(***************************************************************************)
(* Theorems                                                                *)
(***************************************************************************)

LifecycleInv ==
  TypeInv /\ DraftInv /\ CopiesInv /\ TicketsInv /\ SoundInv /\ OriginInv /\ OneWorkflowPerDraft

LEMMA InitInv == LifecycleInit => LifecycleInv
<1> SUFFICES ASSUME LifecycleInit PROVE LifecycleInv
  OBVIOUS
<1>1. /\ \A w \in Workflows : manifest[w] = NoManifest /\ origin[w] = 0
      /\ \A h \in Homes : /\ flow[h] = Idle /\ pending[h] = NoDraft /\ cache[h] = NoRoute
                          /\ poll[h] = NoPoll
      /\ published = {} /\ linked = {} /\ drafts = 0
  BY DEF LifecycleInit
<1>2. NoDraft.id = 0 /\ NoDraft.kind = "none" /\ NoManifest.id = 0
  BY DEF NoDraft, NoManifest
<1>3. TypeInv
  BY InitType, InitPlace DEF TypeInv
<1>4. DraftInv
  BY <1>1, <1>2 DEF DraftInv
<1>5. CopiesInv
  <2>1. Lists(NoManifest, linked)
    BY DEF Lists, NoManifest, Broken
  <2> QED BY <1>1, <2>1, ConstantCopies DEF CopiesInv
<1>6. TicketsInv
  BY <1>1, IdlePublish DEF TicketsInv, TicketsOf, IssuesOf
<1>7. SoundInv
  BY <1>1, <1>2, ConstantCopies DEF SoundInv, Sound
<1>8. Founded = {} /\ OneWorkflowPerDraft
  BY <1>1 DEF Founded, OneWorkflowPerDraft
<1>9. OriginInv
  <2>1. ~Founding(Idle)
    BY DEF Founding, Idle
  <2> QED BY <1>1, <1>8, <2>1 DEF OriginInv
<1> QED BY <1>3, <1>4, <1>5, <1>6, <1>7, <1>8, <1>9 DEF LifecycleInv

\* A step that leaves the tracker and what the homes remember alone.
LEMMA QuietStep ==
  ASSUME LifecycleInv, TypeInv', UNCHANGED <<tracker, memory, flow, poll, drafts>>
  PROVE  LifecycleInv'
<1>1. UNCHANGED <<manifest, origin, published, linked, cache, pending>>
  BY DEF tracker, memory
<1>2. Founded' = Founded /\ Workflows' = Workflows
  BY <1>1 DEF Founded, Workflows
<1>3. DraftInv' /\ CopiesInv' /\ TicketsInv'
  BY <1>1, <1>2 DEF LifecycleInv, DraftInv, CopiesInv, TicketsInv
<1>4. SoundInv' /\ OriginInv'
  BY <1>1, <1>2 DEF LifecycleInv, SoundInv, OriginInv, Work
<1>5. OneWorkflowPerDraft'
  BY <1>1, <1>2 DEF LifecycleInv, OneWorkflowPerDraft
<1> QED BY <1>3, <1>4, <1>5 DEF LifecycleInv

LEMMA InvStep ==
  ASSUME LifecycleInv, [LifecycleNext]_vars
  PROVE  LifecycleInv'
<1>1. TypeInv'
  BY TypeStep DEF LifecycleInv
<1>2. ASSUME NEW h \in Homes, Acts(h) PROVE LifecycleInv'
  <2>1. DraftInv'
    BY <1>1, <1>2, DraftStep DEF LifecycleInv
  <2>2. CopiesInv' /\ TicketsInv'
    BY <1>1, <1>2, CopiesStep, TicketsStep DEF LifecycleInv
  <2>3. SoundInv' /\ OneWorkflowPerDraft'
    BY <1>2, SoundStep, OneWorkflowStep DEF LifecycleInv
  <2>4. OriginInv'
    BY <1>1, <1>2, <2>1, OriginStep DEF LifecycleInv
  <2> QED BY <1>1, <2>1, <2>2, <2>3, <2>4 DEF LifecycleInv
<1>3. ASSUME NEW w \in Workflows, LapseLease(w) PROVE LifecycleInv'
  BY <1>1, <1>3, QuietStep DEF LapseLease, counts
<1>4. CASE UNCHANGED vars
  BY <1>1, <1>4, QuietStep DEF vars, counts
<1> QED BY <1>2, <1>3, <1>4 DEF LifecycleNext, Acts

\* Every reachable state has the inductive invariant: the types, what a command is
\* at each place, one home for each draft, linked breakdowns and their copies, and
\* one home and one origin for each workflow that is being founded.
THEOREM LifecycleInductive == LifecycleSpec => []LifecycleInv
<1> QED BY InitInv, InvStep, PTL DEF LifecycleSpec

\* The state of the tracker, of the homes and of their commands has its type, the
\* copies of manifests that routes, commands and the panel hold included.
THEOREM LifecycleTypeCorrect == LifecycleSpec => []LifecycleTypeOK
<1>1. LifecycleInv => LifecycleTypeOK
  BY DEF LifecycleInv, TypeInv
<1> QED BY <1>1, LifecycleInductive, PTL

\* A draft becomes at most one workflow, however many homes start workflows, and
\* however often their calls fail, their answers are lost and their sessions die
\* (confirmCreateSpec, startFollowUpWorkflow).
THEOREM OneWorkflow == LifecycleSpec => []OneWorkflowPerDraft
<1>1. LifecycleInv => OneWorkflowPerDraft
  BY DEF LifecycleInv
<1> QED BY <1>1, LifecycleInductive, PTL

\* The tickets a manifest lists are one draft's, all published and linked, whatever
\* publications broke off and whichever copy the manifest was last written from
\* (confirmCreateTickets, manifestFromActive).
THEOREM BreakdownsComplete == LifecycleSpec => []BreakdownIsComplete
<1>1. LifecycleInv => BreakdownIsComplete
  BY DEF LifecycleInv, CopiesInv, Lists, Broken, BreakdownIsComplete
<1> QED BY <1>1, LifecycleInductive, PTL

(***************************************************************************)
(* Authority: what the coordinator lease and timely reads give             *)
(***************************************************************************)

\* No copy is overtaken between its read and the lease that is acquired for it, a
\* lease that is held lasts, and the panel reads between commands.
Undisturbed == ReadsAreShort /\ LeasesOutlast /\ ~PollsBeside

\* A command that works on a workflow, from its route to its manifest write.
Working(f) == f.cmd \in {"publish-tickets", "integrate", "merge", "cleanup"}
              /\ f.at \notin {"route", "close", "unbind"}

\* Places that are reached only with the lease.
Claimed(f) == f.at \in {"found", "bind", "remote", "write", "close"} \/ (f.cmd = "cleanup" /\ f.at = "confirm")

\* n is the manifest that the copy m was made of, but for one write of this home
\* whose answer was lost: to do it again from m undoes nothing.
Near(m, n, u) ==
  \/ n = m
  \/ m.stage = "spec-published" /\ n.stage = "tickets-published" /\ n.integrated = m.integrated
  \/ m.stage = "tickets-published" /\ u \in Tickets /\ n.stage = m.stage /\ n.integrated = m.integrated \cup {u}
  \/ m.stage = "tickets-published" /\ m.integrated = Tickets /\ n.stage = "merged" /\ n.integrated = m.integrated
  \/ m.stage = "merged" /\ n.stage = "completed" /\ n.integrated = m.integrated

\* A copy of the workflow whose lease is held is current, or nearly so.
Fresh(h, m) == held[h] = m.id => manifest[m.id] = m
Close(h, m) == held[h] = m.id => Near(m, manifest[m.id], unit[h])

\* What a home holds, the lease says.
HeldInv == \A h \in Homes : held[h] # 0 => lease[held[h]] = Me(h)

RouteOf(h) == cache[h].kind = "bound" => Close(h, cache[h].active) /\ last[h] # cache[h].active.id

ReadsOf(h) ==
  /\ flow[h].at # "idle" => poll[h] = NoPoll
  /\ flow[h].at # "route" => flow[h].seen = {}
  /\ \A m \in flow[h].seen \cup poll[h].seen : Fresh(h, m) /\ last[h] # m.id

\* The stage of a copy is the one its command starts from.
Suits(f, u) ==
  /\ f.cmd = "publish-tickets" => f.active.stage = "spec-published"
  /\ f.cmd = "integrate" => f.ticket = u /\ f.ticket \notin f.active.integrated
  /\ f.cmd = "merge" => f.active.integrated = Tickets

WorkOf(h) ==
  /\ Working(flow[h]) => /\ Close(h, flow[h].active) /\ last[h] # Work(h) /\ Suits(flow[h], unit[h])
                         /\ cache[h].kind = "bound" /\ cache[h].active.id = Work(h) =>
                              cache[h].active = flow[h].active
  /\ Doing(h, "integrate") => unit[h] \in {0, flow[h].ticket}
  /\ Claimed(flow[h]) => held[h] = Work(h)

\* What a cleanup has removed stays away.
CleanOf(h) ==
  /\ Doing(h, "cleanup") /\ flow[h].at \in {"remote", "confirm", "write"} => <<h, Work(h)>> \notin files
  /\ Doing(h, "cleanup") /\ flow[h].at \in {"confirm", "write"} => Work(h) \notin remote
  /\ last[h] # 0 => manifest[last[h]].stage = "completed" /\ <<h, last[h]>> \notin files

HomeOf(h) == RouteOf(h) /\ ReadsOf(h) /\ WorkOf(h) /\ CleanOf(h)

AuthorityInv ==
  /\ HeldInv
  /\ \A h \in Homes : HomeOf(h)
  /\ \A w \in Workflows : manifest[w].stage = "completed" => w \notin remote

\* Every home is a number, and none is nobody.
LEMMA MeIsMine ==
  ASSUME LifecycleTypeOK, NEW g \in Homes, NEW h \in Homes
  PROVE  Me(h) # Nobody /\ (Me(g) = Me(h) => g = h)
BY DEF Me, Nobody

LEMMA OneHolder ==
  ASSUME LifecycleTypeOK, HeldInv, NEW g \in Homes, NEW h \in Homes, held[g] = held[h], held[h] # 0
  PROVE  g = h
BY MeIsMine DEF HeldInv

\* What becomes of what a home holds, when it asks for the lease of w.
Asked(h, w, ok) ==
  /\ \A g \in Homes : g # h => held'[g] = held[g]
  /\ ok => held'[h] = w
  /\ ~ok => held'[h] \in {0, held[h]}
  /\ held[h] = w => held'[h] = w

LEMMA EnsuredAsked ==
  ASSUME LifecycleTypeOK, HeldInv, UNCHANGED session,
         NEW h \in Homes, NEW w \in Workflows, NEW ok \in BOOLEAN, Ensured(h, w, ok)
  PROVE  HeldInv' /\ Asked(h, w, ok)
<1>0. w # 0 /\ w \in 0..MaxWorkflows
  BY DEF Workflows
<1>1. CASE UNCHANGED authority /\ ~ok
  BY <1>1 DEF authority, HeldInv, Me, Asked
<1>2. CASE /\ ok = CanHold(h, w)
           /\ lease' = LET kept == IF held[h] = w THEN lease ELSE Released(h, held[h])
                       IN IF ok THEN [kept EXCEPT ![w] = Me(h)] ELSE kept
           /\ held' = [held EXCEPT ![h] = IF ok THEN w ELSE 0]
  <2> DEFINE kept == IF held[h] = w THEN lease ELSE Released(h, held[h])
  <2>1. lease' = IF ok THEN [kept EXCEPT ![w] = Me(h)] ELSE kept
    BY <1>2
  <2>2. held'[h] = (IF ok THEN w ELSE 0) /\ \A g \in Homes : g # h => held'[g] = held[g]
    BY <1>2 DEF LifecycleTypeOK
  <2>3. held[h] = w => ok
    BY <1>0, <1>2 DEF CanHold, HeldInv
  <2>4. kept \in [Workflows -> Sessions \cup {Nobody}]
    BY ReleasedType DEF LifecycleTypeOK
  <2>5. ASSUME NEW g \in Homes, held'[g] # 0 PROVE lease'[held'[g]] = Me(g)
    <3>1. CASE g = h
      BY <2>1, <2>2, <2>4, <2>5, <3>1
    <3>2. CASE g # h
      <4>1. held'[g] = held[g] /\ held[g] # 0 /\ lease[held[g]] = Me(g) /\ held[g] \in Workflows
        <5>1. held'[g] = held[g] /\ held[g] # 0
          BY <2>2, <2>5, <3>2
        <5>2. held[g] \in 0..MaxWorkflows
          BY DEF LifecycleTypeOK
        <5>3. held[g] \in Workflows
          BY <5>1, <5>2 DEF Workflows
        <5> QED BY <5>1, <5>3 DEF HeldInv
      <4>2. Me(g) # Me(h) /\ Me(g) # Nobody
        BY <3>2, MeIsMine
      <4>3. kept[held[g]] = Me(g)
        <5>1. lease \in [Workflows -> Sessions \cup {Nobody}]
          BY DEF LifecycleTypeOK
        <5>2. Released(h, held[h])[held[g]] = Me(g)
          BY <4>1, <4>2, <5>1 DEF Released
        <5> QED BY <4>1, <5>2
      <4>4. ok => held[g] # w
        BY <1>2, <2>3, <4>1, <4>2 DEF CanHold, HeldInv
      <4> QED BY <2>1, <2>4, <4>1, <4>3, <4>4
    <3> QED BY <3>1, <3>2
  <2>6. UNCHANGED session => \A g \in Homes : Me(g)' = Me(g)
    BY DEF Me
  <2>7. HeldInv'
    BY <2>5, <2>6 DEF HeldInv
  <2> QED BY <2>2, <2>3, <2>7, <1>0 DEF Asked
<1> QED BY <1>1, <1>2 DEF Ensured

LEMMA ReleaseHeld ==
  ASSUME LifecycleTypeOK, HeldInv, UNCHANGED session, NEW h \in Homes, Release(h)
  PROVE  HeldInv' /\ held'[h] = 0 /\ \A g \in Homes : g # h => held'[g] = held[g]
<1>1. held'[h] = 0 /\ \A g \in Homes : g # h => held'[g] = held[g]
  BY DEF Release, LifecycleTypeOK
<1>2. ASSUME NEW g \in Homes, held'[g] # 0 PROVE lease'[held'[g]] = Me(g)'
  <2>1. held'[g] = held[g] /\ g # h /\ lease[held[g]] = Me(g) /\ held[g] \in Workflows
    BY <1>1, <1>2 DEF HeldInv, LifecycleTypeOK, Workflows
  <2>2. Me(g) # Me(h) /\ Me(g)' = Me(g)
    BY <2>1, MeIsMine DEF Me
  <2> QED BY <2>1, <2>2 DEF Release, Released
<1> QED BY <1>1, <1>2 DEF HeldInv

LEMMA AuthorisedAsked ==
  ASSUME LifecycleTypeOK, HeldInv, UNCHANGED session,
         NEW h \in Homes, Work(h) # 0, NEW ok \in BOOLEAN, Authorised(h, ok)
  PROVE  HeldInv' /\ Asked(h, Work(h), ok)
<1>1. Work(h) \in Workflows
  BY HomeType DEF Workflows
<1>2. CASE UNCHANGED authority /\ ~ok
  BY <1>2 DEF authority, HeldInv, Me, Asked
<1> QED BY <1>1, <1>2, EnsuredAsked DEF Authorised

(***************************************************************************)
(* Copies                                                                  *)
(***************************************************************************)

LEMMA StageRank ==
  /\ Rank("none") = 1 /\ Rank("spec-published") = 2 /\ Rank("tickets-published") = 3
  /\ Rank("merged") = 4 /\ Rank("completed") = 5
<1>1. \A s, i : i \in 1..5 /\ Stages[i] = s /\ (\A j \in 1..5 : Stages[j] = s => j = i) => Rank(s) = i
  BY DEF Rank
<1>2. /\ Stages[1] = "none" /\ Stages[2] = "spec-published" /\ Stages[3] = "tickets-published"
      /\ Stages[4] = "merged" /\ Stages[5] = "completed"
  BY DEF Stages
<1>3. \A i \in 1..5 : i = 1 \/ i = 2 \/ i = 3 \/ i = 4 \/ i = 5
  OBVIOUS
<1> QED BY <1>1, <1>2, <1>3

\* No stage is left for an earlier one and no Integration is lost.
Later(m, n) == Rank(m.stage) <= Rank(n.stage) /\ m.integrated \subseteq n.integrated

LEMMA CompletedIsLast ==
  ASSUME NEW m \in Manifests, NEW n \in Manifests, Later(m, n), m.stage = "completed"
  PROVE  n.stage = "completed"
<1>1. n.stage \in StageNames
  BY ManifestType
<1> QED BY <1>1, StageRank DEF Later, StageNames

\* The Integration slot is free or the ticket's already.
LEMMA NearTicket ==
  ASSUME NEW m, NEW n, NEW u, NEW t \in Tickets, u \in {0, t}, Near(m, n, u)
  PROVE  Near(m, n, t)
<1>1. u \in Tickets => u = t
  OBVIOUS
<1> QED BY <1>1 DEF Near

\* A write from a copy that is nearly current goes forward, and leaves the copy
\* nearly current.
LEMMA WriteGoesOn ==
  ASSUME LifecycleTypeOK, NEW h \in Homes, PlaceAt(h), flow[h].at = "write", Suits(flow[h], unit[h]),
         NEW n \in Manifests, Near(flow[h].active, n, unit[h])
  PROVE  Near(flow[h].active, Updated(h), unit[h]) /\ Later(n, Updated(h))
<1>1. flow[h].active \in Manifests /\ flow[h].cmd \in {"publish-tickets", "integrate", "merge", "cleanup"}
  BY HomeType DEF PlaceAt, PlaceOf, Purpose, Flows
<1> DEFINE m == flow[h].active
<1>2. /\ m.integrated \in SUBSET Tickets /\ n.integrated \in SUBSET Tickets
      /\ m \in [id : 0..MaxWorkflows, stage : StageNames, tickets : SUBSET Issues, integrated : SUBSET Tickets]
  BY <1>1, ManifestType
<1>3. CASE flow[h].cmd = "publish-tickets"
  <2>1. /\ m.stage = "spec-published"
        /\ Updated(h).stage = "tickets-published" /\ Updated(h).integrated = m.integrated
    BY <1>2, <1>3 DEF Updated, Suits
  <2>2. n.integrated = m.integrated /\ n.stage \in {"spec-published", "tickets-published"}
    BY <2>1 DEF Near
  <2> QED BY <2>1, <2>2, StageRank DEF Near, Later
<1>4. CASE flow[h].cmd = "integrate"
  <2>1. /\ m.stage = "tickets-published" /\ flow[h].ticket \in Tickets /\ flow[h].ticket = unit[h]
        /\ flow[h].ticket \notin m.integrated
    BY <1>4 DEF PlaceAt, PlaceOf, Suits
  <2>2. Updated(h).stage = "tickets-published" /\ Updated(h).integrated = m.integrated \cup {unit[h]}
    BY <1>2, <1>4, <2>1 DEF Updated
  <2>3. n.stage = "tickets-published" /\ n.integrated \subseteq m.integrated \cup {unit[h]}
    BY <2>1 DEF Near
  <2> QED BY <2>1, <2>2, <2>3, StageRank DEF Near, Later
<1>5. CASE flow[h].cmd = "merge"
  <2>1. /\ m.stage = "tickets-published" /\ m.integrated = Tickets
        /\ Updated(h).stage = "merged" /\ Updated(h).integrated = Tickets
    BY <1>2, <1>5 DEF PlaceAt, PlaceOf, Suits, Updated
  <2>2. n.stage \in {"tickets-published", "merged"} /\ n.integrated \subseteq Tickets
    BY <1>2, <2>1 DEF Near
  <2> QED BY <2>1, <2>2, StageRank DEF Near, Later
<1>6. CASE flow[h].cmd = "cleanup"
  <2>1. m.stage = "merged" /\ Updated(h).stage = "completed" /\ Updated(h).integrated = m.integrated
    BY <1>2, <1>6 DEF PlaceAt, PlaceOf, Updated
  <2>2. n.stage \in {"merged", "completed"} /\ n.integrated = m.integrated
    BY <2>1 DEF Near
  <2> QED BY <2>1, <2>2, StageRank DEF Near, Later
<1> QED BY <1>1, <1>3, <1>4, <1>5, <1>6

\* What is read of the tracker is fresh, and nothing of it was completed.
LEMMA ReadsAreFresh ==
  ASSUME LifecycleTypeOK, NEW h \in Homes, CleanOf(h), NEW m \in ActiveWorkflows
  PROVE  m.id \in Workflows /\ manifest[m.id] = m /\ last[h] # m.id
<1>1. PICK w \in open : m = manifest[w] /\ manifest[w].stage \notin {"none", "completed"}
  BY DEF ActiveWorkflows
<1>2. w \in Workflows /\ m.id = w
  BY <1>1 DEF LifecycleTypeOK, NoManifest
<1>3. w # 0
  BY <1>2 DEF Workflows
<1> QED BY <1>1, <1>2, <1>3 DEF CleanOf

\* A route that is bound has a fresh copy, and its lease.
LEMMA RouteIsFresh ==
  ASSUME Undisturbed, LifecycleTypeOK, HeldInv, UNCHANGED session, NEW h \in Homes,
         NEW seen \in SUBSET Copies, \A m \in seen : Fresh(h, m) /\ last[h] # m.id, SetRoute(h, seen)
  PROVE  /\ HeldInv' /\ \A g \in Homes : g # h => held'[g] = held[g]
         /\ cache'[h].kind = "bound" =>
              /\ cache'[h].active.id # 0 /\ last[h] # cache'[h].active.id
              /\ manifest[cache'[h].active.id] = cache'[h].active
<1>1. CASE cache' = [cache EXCEPT ![h] = Unbound] /\ UNCHANGED authority
  <2>1. cache'[h].kind # "bound"
    BY <1>1 DEF LifecycleTypeOK, Unbound, NoRoute
  <2> QED BY <1>1, <2>1 DEF authority, HeldInv, Me
<1>2. ASSUME NEW m \in seen, NEW ok \in BOOLEAN, Timely(h, m, ok), Ensured(h, m.id, ok),
             cache' = [cache EXCEPT ![h] = [kind |-> IF ok THEN "bound" ELSE "lease-held", active |-> m]]
      PROVE  /\ HeldInv' /\ \A g \in Homes : g # h => held'[g] = held[g]
             /\ cache'[h].kind = "bound" =>
                  /\ cache'[h].active.id # 0 /\ last[h] # cache'[h].active.id
                  /\ manifest[cache'[h].active.id] = cache'[h].active
  <2>1. m.id \in Workflows /\ m.id # 0
    BY DEF Copies, Manifests, Workflows
  <2>2. HeldInv' /\ \A g \in Homes : g # h => held'[g] = held[g]
    BY <1>2, <2>1, EnsuredAsked DEF Asked
  <2>3. cache'[h] = [kind |-> IF ok THEN "bound" ELSE "lease-held", active |-> m]
    BY <1>2 DEF LifecycleTypeOK
  <2>4. ok => manifest[m.id] = m
    BY <1>2 DEF Timely, Fresh, Undisturbed
  <2> QED BY <2>1, <2>2, <2>3, <2>4
<1> QED BY <1>1, <1>2 DEF SetRoute

\* What a command has copied is nearly current when it has asked for the lease.
LEMMA AskedIsClose ==
  ASSUME Undisturbed, LifecycleTypeOK, HeldInv, UNCHANGED session,
         NEW h \in Homes, Work(h) # 0, RouteOf(h), WorkOf(h), Working(flow[h]),
         NEW ok \in BOOLEAN, Authorised(h, ok)
  PROVE  /\ held'[h] = Work(h) => Near(flow[h].active, manifest[Work(h)], unit[h])
         /\ cache[h].kind = "bound" /\ held'[h] = cache[h].active.id =>
              Near(cache[h].active, manifest[cache[h].active.id], unit[h])
<1>1. Asked(h, Work(h), ok)
  BY AuthorisedAsked
<1>2. held'[h] = Work(h) => Near(flow[h].active, manifest[Work(h)], unit[h])
  <2>1. CASE held[h] = Work(h)
    BY <2>1 DEF WorkOf, Close, Work
  <2>2. CASE held[h] # Work(h) /\ held'[h] = Work(h)
    <3>1. ok /\ Timely(h, flow[h].active, ok)
      BY <1>1, <2>2 DEF Asked, Authorised
    <3>2. flow[h].active = manifest[Work(h)]
      BY <2>2, <3>1 DEF Timely, Undisturbed, Work
    <3> QED BY <3>2 DEF Near
  <2> QED BY <2>1, <2>2
<1>3. cache[h].kind = "bound" => cache[h].active.id # 0
  BY DEF LifecycleTypeOK
<1>4. held'[h] \in {0, held[h], Work(h)}
  BY <1>1 DEF Asked
<1>5. CASE held'[h] = Work(h)
  BY <1>2, <1>5 DEF WorkOf
<1>6. CASE held'[h] = held[h]
  BY <1>2, <1>6 DEF RouteOf, Close
<1>7. CASE held'[h] = 0
  BY <1>2, <1>3, <1>7
<1> QED BY <1>4, <1>5, <1>6, <1>7

(***************************************************************************)
(* A step of a home, for itself and for the others                         *)
(***************************************************************************)

Ready == Undisturbed /\ LifecycleInv /\ AuthorityInv

\* What the other homes rely on is spared: what they hold and remember, the manifests
\* but the one this home holds, and the remote but for what this home may push.
Spares(h) ==
  /\ \A g \in Homes : g # h => held'[g] = held[g] /\ unit'[g] = unit[g] /\ last'[g] = last[g]
  /\ \A g \in Homes, v \in Workflows : g # h /\ <<g, v>> \in files' => <<g, v>> \in files
  /\ \A v \in Workflows : manifest'[v] # manifest[v] => held[h] = v /\ Later(manifest[v], manifest'[v])
  /\ \A v \in remote' : v \in remote \/ held'[h] = v
  /\ \A v \in Workflows : manifest'[v].stage = "completed" => v \notin remote'
Keeps(h) == HeldInv' /\ HomeOf(h)' /\ Spares(h)

LEMMA ReadyFacts ==
  ASSUME Ready, NEW h \in Homes
  PROVE  /\ Undisturbed /\ LifecycleInv /\ TypeInv /\ LifecycleTypeOK /\ HeldInv
         /\ RouteOf(h) /\ ReadsOf(h) /\ WorkOf(h) /\ CleanOf(h) /\ PlaceAt(h)
         /\ flow[h] \in Flows /\ cache[h] \in Routes
         /\ \A v \in Workflows : manifest[v].stage = "completed" => v \notin remote
<1>1. TypeInv
  BY DEF Ready, LifecycleInv
<1> QED BY <1>1, HomeType DEF Ready, AuthorityInv, HomeOf, TypeInv, PlaceInv

\* A step that leaves manifests and the remote alone, or takes from the remote.
LEMMA SparesQuietly ==
  ASSUME Ready, NEW h \in Homes, UNCHANGED manifest, remote' \subseteq remote,
         \A g \in Homes : g # h => held'[g] = held[g] /\ unit'[g] = unit[g] /\ last'[g] = last[g],
         \A g \in Homes, v \in Workflows : g # h /\ <<g, v>> \in files' => <<g, v>> \in files
  PROVE  Spares(h)
BY ReadyFacts DEF Spares

\* A home whose command ends.
LEMMA IdleHome ==
  ASSUME NEW h \in Homes, flow'[h] = Idle, RouteOf(h)',
         \A m \in poll'[h].seen : Fresh(h, m)' /\ last'[h] # m.id,
         last'[h] # 0 => manifest'[last'[h]].stage = "completed" /\ <<h, last'[h]>> \notin files'
  PROVE  HomeOf(h)'
<1>1. Idle.at = "idle" /\ Idle.cmd = "none" /\ Idle.seen = {}
  BY DEF Idle
<1>2. ReadsOf(h)'
  BY <1>1 DEF ReadsOf
<1>3. ~Working(Idle) /\ ~Claimed(Idle)
  BY <1>1 DEF Working, Claimed
<1>4. WorkOf(h)' /\ CleanOf(h)'
  BY <1>1, <1>3 DEF WorkOf, CleanOf, Doing
<1> QED BY <1>2, <1>4 DEF HomeOf

\* A home whose command ends, with what it remembers as it was.
LEMMA StopHome ==
  ASSUME Ready, NEW h \in Homes, flow[h].at # "idle", flow'[h] = Idle,
         poll'[h] \in {poll[h], NoPoll}, unit'[h] = unit[h], last'[h] \in {0, last[h]},
         cache'[h] \in {cache[h], NoRoute},
         cache[h].kind = "bound" => Close(h, cache[h].active)',
         last[h] # 0 => manifest'[last[h]].stage = "completed" /\ <<h, last[h]>> \notin files'
  PROVE  HomeOf(h)'
<1>1. poll'[h] = NoPoll /\ NoPoll.seen = {}
  BY ReadyFacts DEF ReadsOf, NoPoll
<1>2. RouteOf(h)'
  <2>1. NoRoute.kind # "bound"
    BY DEF NoRoute
  <2>2. cache'[h].kind = "bound" => cache'[h] = cache[h]
    BY <2>1
  <2>3. cache[h].kind = "bound" => cache[h].active.id # 0 /\ last[h] # cache[h].active.id
    BY ReadyFacts DEF LifecycleTypeOK, RouteOf
  <2> QED BY <2>2, <2>3 DEF RouteOf, Close
<1> QED BY <1>1, <1>2, IdleHome

\* A command that goes on with the copy it has.
LEMMA GoHome ==
  ASSUME Ready, NEW h \in Homes, NEW at \in Places \ {"idle", "route"},
         flow[h].at \notin {"idle", "route"}, Working(flow[h]), flow'[h] = [flow[h] EXCEPT !.at = at],
         poll'[h] = poll[h], cache'[h] \in {cache[h], NoRoute}, unit'[h] = unit[h], last'[h] = last[h],
         held'[h] = Work(h) => Near(flow[h].active, manifest'[Work(h)], unit[h]),
         cache[h].kind = "bound" => Close(h, cache[h].active)',
         Claimed(flow'[h]) => held'[h] = Work(h), CleanOf(h)'
  PROVE  HomeOf(h)'
<1>1. /\ flow'[h].at = at /\ flow'[h].cmd = flow[h].cmd /\ flow'[h].active = flow[h].active
      /\ flow'[h].ticket = flow[h].ticket /\ flow'[h].seen = flow[h].seen
  BY ReadyFacts DEF Flows
<1>2. poll'[h] = NoPoll /\ NoPoll.seen = {} /\ flow'[h].seen = {}
  BY <1>1, ReadyFacts DEF ReadsOf, NoPoll
<1>3. ReadsOf(h)'
  BY <1>1, <1>2 DEF ReadsOf
<1>4. NoRoute.kind # "bound"
  BY DEF NoRoute
<1>5. RouteOf(h)'
  BY <1>4, ReadyFacts DEF RouteOf, Close
<1>6. Suits(flow'[h], unit'[h]) = Suits(flow[h], unit[h]) /\ Work(h)' = Work(h)
  BY <1>1 DEF Suits, Work
<1>7. Working(flow'[h]) => /\ Close(h, flow[h].active)' /\ last'[h] # Work(h) /\ Suits(flow[h], unit[h])
                           /\ cache'[h].kind = "bound" /\ cache'[h].active.id = Work(h) =>
                                cache'[h].active = flow[h].active
  BY <1>4, ReadyFacts DEF WorkOf, Close, Work
<1>8. WorkOf(h)'
  BY <1>1, <1>6, <1>7, ReadyFacts DEF WorkOf, Close, Doing
<1> QED BY <1>3, <1>5, <1>8 DEF HomeOf

\* A step that changes nothing the invariant says of a home.
LEMMA SameHome ==
  ASSUME NEW h \in Homes, HomeOf(h), HeldInv, UNCHANGED session,
         UNCHANGED <<flow[h], cache[h], poll[h]>>,
         UNCHANGED <<authority, manifest, last, unit, remote, files>>
  PROVE  HeldInv' /\ HomeOf(h)'
<1>1. UNCHANGED <<held, lease>>
  BY DEF authority
<1>2. RouteOf(h)' = RouteOf(h) /\ ReadsOf(h)' = ReadsOf(h)
  BY <1>1 DEF RouteOf, ReadsOf, Close, Fresh
<1>3. WorkOf(h)' = WorkOf(h) /\ CleanOf(h)' = CleanOf(h)
  BY <1>1 DEF WorkOf, CleanOf, Close, Doing, Work
<1>4. HeldInv'
  BY <1>1 DEF HeldInv, Me
<1> QED BY <1>2, <1>3, <1>4 DEF HomeOf

(***************************************************************************)
(* The steps that ask for the lease                                        *)
(***************************************************************************)

LEMMA WorkingPlace ==
  ASSUME Ready, NEW h \in Homes, Working(flow[h])
  PROVE  Work(h) \in Workflows /\ Work(h) # 0 /\ flow[h].at \notin {"idle", "route", "create"}
<1>1. flow[h].at \notin {"idle", "route", "create"}
  BY ReadyFacts DEF Working, PlaceAt, PlaceOf, Purpose
<1> QED BY <1>1, ReadyFacts, HomeType DEF PlaceAt, PlaceOf, Work, Workflows

LEMMA AuthorisedStep ==
  ASSUME Ready, NEW h \in Homes, Working(flow[h]), UNCHANGED <<session, manifest, cache, unit>>,
         NEW ok \in BOOLEAN, Authorised(h, ok)
  PROVE  /\ HeldInv' /\ Asked(h, Work(h), ok)
         /\ held'[h] = Work(h) => Near(flow[h].active, manifest'[Work(h)], unit[h])
         /\ cache[h].kind = "bound" => Close(h, cache[h].active)'
<1>1. Work(h) # 0
  BY WorkingPlace
<1>2. HeldInv' /\ Asked(h, Work(h), ok)
  BY <1>1, AuthorisedAsked, ReadyFacts
<1>3. /\ held'[h] = Work(h) => Near(flow[h].active, manifest[Work(h)], unit[h])
      /\ cache[h].kind = "bound" /\ held'[h] = cache[h].active.id =>
           Near(cache[h].active, manifest[cache[h].active.id], unit[h])
  BY <1>1, AskedIsClose, ReadyFacts
<1> QED BY <1>2, <1>3 DEF Close

\* The same when the lease is not asked for.
LEMMA HeldStep ==
  ASSUME Ready, NEW h \in Homes, Working(flow[h]), UNCHANGED <<session, manifest, cache, unit>>,
         UNCHANGED authority
  PROVE  /\ HeldInv' /\ held' = held
         /\ held'[h] = Work(h) => Near(flow[h].active, manifest'[Work(h)], unit[h])
         /\ cache[h].kind = "bound" => Close(h, cache[h].active)'
<1>1. HeldInv' /\ held' = held
  BY ReadyFacts DEF authority, HeldInv, Me
<1>2. Close(h, flow[h].active) /\ (cache[h].kind = "bound" => Close(h, cache[h].active))
  BY ReadyFacts DEF WorkOf, RouteOf
<1> QED BY <1>1, <1>2 DEF Close, Work

LEMMA PublishKeeps ==
  ASSUME Ready, NEW h \in Homes, PublishTicket(h)
  PROVE  Keeps(h)
<1>1. flow[h].at = "tickets" /\ flow[h].cmd = "publish-tickets" /\ Working(flow[h])
  BY ReadyFacts DEF PublishTicket, PlaceAt, PlaceOf, Purpose, Working
<1>2. UNCHANGED <<session, manifest, cache, unit, last, poll, remote, files>>
  BY DEF PublishTicket, artifacts, counts
<1>3. /\ HeldInv' /\ \A g \in Homes : g # h => held'[g] = held[g]
      /\ held'[h] = Work(h) => Near(flow[h].active, manifest'[Work(h)], unit[h])
      /\ cache[h].kind = "bound" => Close(h, cache[h].active)'
  <2>1. UNCHANGED authority \/ \E ok \in BOOLEAN : Authorised(h, ok)
    BY DEF PublishTicket, Refreshed
  <2>2. CASE UNCHANGED authority
    BY <1>1, <1>2, <2>2, HeldStep
  <2>3. CASE \E ok \in BOOLEAN : Authorised(h, ok)
    BY <1>1, <1>2, <2>3, AuthorisedStep DEF Asked
  <2> QED BY <2>1, <2>2, <2>3
<1>4. UNCHANGED flow \/ Go(h, "confirm") \/ Stop(h)
  BY DEF PublishTicket, Published, Fail
<1>5. last[h] # 0 => manifest'[last[h]].stage = "completed" /\ <<h, last[h]>> \notin files'
  BY <1>2, ReadyFacts DEF CleanOf
<1>6. CASE Stop(h)
  <2>1. flow'[h] = Idle
    BY <1>6, ReadyFacts DEF Stop, LifecycleTypeOK
  <2> QED BY <1>1, <1>2, <1>3, <1>5, <2>1, StopHome, SparesQuietly DEF Keeps
<1>7. ASSUME NEW at \in {"tickets", "confirm"}, flow'[h] = [flow[h] EXCEPT !.at = at]
      PROVE  Keeps(h)
  <2>1. /\ flow'[h].at = at /\ flow'[h].cmd = "publish-tickets" /\ at \in Places \ {"idle", "route"}
    BY <1>1, <1>7, ReadyFacts DEF Flows, Places
  <2>2. ~Claimed(flow'[h])
    BY <2>1 DEF Claimed
  <2>3. CleanOf(h)'
    BY <1>2, <1>5, <2>1 DEF CleanOf, Doing
  <2>4. HomeOf(h)'
    BY <1>1, <1>2, <1>3, <1>7, <2>1, <2>2, <2>3, GoHome
  <2> QED BY <1>2, <1>3, <2>4, SparesQuietly DEF Keeps
<1>8. CASE UNCHANGED flow \/ Go(h, "confirm")
  <2>1. [flow[h] EXCEPT !.at = "tickets"] = flow[h]
    BY <1>1, ReadyFacts DEF Flows
  <2>2. \E at \in {"tickets", "confirm"} : flow'[h] = [flow[h] EXCEPT !.at = at]
    BY <1>8, <2>1, ReadyFacts DEF Go, LifecycleTypeOK
  <2> QED BY <1>7, <2>2
<1> QED BY <1>4, <1>6, <1>8

LEMMA PushKeeps ==
  ASSUME Ready, NEW h \in Homes, PushBranches(h)
  PROVE  Keeps(h)
<1>1. flow[h].at = "push" /\ flow[h].cmd = "integrate" /\ Working(flow[h])
  BY ReadyFacts DEF PushBranches, PlaceAt, PlaceOf, Purpose, Working
<1>2. UNCHANGED <<session, manifest, cache, unit, last, poll>> /\ files' = files \cup {<<h, Work(h)>>}
  BY DEF PushBranches, tracker, memory, counts
<1>3. PICK ok \in BOOLEAN :
        /\ Authorised(h, ok)
        /\ IF ok THEN Go(h, "confirm") /\ remote' = remote \cup {Work(h)}
                 ELSE Stop(h) /\ UNCHANGED remote
  BY DEF PushBranches
<1>4. /\ HeldInv' /\ Asked(h, Work(h), ok)
      /\ held'[h] = Work(h) => Near(flow[h].active, manifest'[Work(h)], unit[h])
      /\ cache[h].kind = "bound" => Close(h, cache[h].active)'
  BY <1>1, <1>2, <1>3, AuthorisedStep
<1>5. last[h] # 0 => manifest'[last[h]].stage = "completed" /\ <<h, last[h]>> \notin files'
  <2>1. last[h] # Work(h)
    BY <1>1, ReadyFacts DEF WorkOf
  <2> QED BY <1>2, <2>1, ReadyFacts DEF CleanOf
<1>6. \A g \in Homes, v \in Workflows : g # h /\ <<g, v>> \in files' => <<g, v>> \in files
  BY <1>2
<1>7. CASE ~ok
  <2>1. flow'[h] = Idle
    BY <1>3, <1>7, ReadyFacts DEF Stop, LifecycleTypeOK
  <2>2. HomeOf(h)'
    BY <1>1, <1>2, <1>4, <1>5, <2>1, StopHome
  <2> QED BY <1>2, <1>3, <1>4, <1>6, <1>7, <2>2, SparesQuietly DEF Keeps, Asked
<1>8. CASE ok
  <2>1. flow'[h] = [flow[h] EXCEPT !.at = "confirm"] /\ "confirm" \in Places \ {"idle", "route"}
    BY <1>3, <1>8, ReadyFacts DEF Go, LifecycleTypeOK, Places
  <2>2. flow'[h].at = "confirm" /\ flow'[h].cmd = "integrate"
    BY <1>1, <2>1, ReadyFacts DEF Flows
  <2>3. ~Claimed(flow'[h]) /\ CleanOf(h)'
    BY <1>2, <1>5, <2>2 DEF Claimed, CleanOf, Doing
  <2>4. HomeOf(h)'
    BY <1>1, <1>2, <1>4, <2>1, <2>3, GoHome
  <2>5. held'[h] = Work(h) /\ manifest[Work(h)].stage # "completed"
    <3>1. held'[h] = Work(h) /\ Near(flow[h].active, manifest[Work(h)], unit[h])
      BY <1>2, <1>4, <1>8 DEF Asked
    <3>2. flow[h].active.stage = "tickets-published"
      BY <1>1, ReadyFacts DEF PlaceAt, PlaceOf
    <3> QED BY <3>1, <3>2 DEF Near
  <2>6. Spares(h)
    BY <1>2, <1>3, <1>4, <1>6, <1>8, <2>5, ReadyFacts DEF Spares, Asked
  <2> QED BY <1>4, <2>4, <2>6 DEF Keeps
<1> QED BY <1>7, <1>8

LEMMA RemoveKeeps ==
  ASSUME Ready, NEW h \in Homes, RemoveFiles(h)
  PROVE  Keeps(h)
<1>1. flow[h].at = "local" /\ flow[h].cmd = "cleanup" /\ Working(flow[h])
  BY ReadyFacts DEF RemoveFiles, PlaceAt, PlaceOf, Purpose, Working
<1>2. UNCHANGED <<session, manifest, cache, unit, last, poll, remote>>
  BY DEF RemoveFiles, tracker, memory, counts
<1>3. PICK ok \in BOOLEAN :
        /\ Authorised(h, ok)
        /\ IF ok THEN Go(h, "remote") /\ files' = files \ {<<h, Work(h)>>}
                 ELSE Stop(h) /\ UNCHANGED files
  BY DEF RemoveFiles
<1>4. /\ HeldInv' /\ Asked(h, Work(h), ok)
      /\ held'[h] = Work(h) => Near(flow[h].active, manifest'[Work(h)], unit[h])
      /\ cache[h].kind = "bound" => Close(h, cache[h].active)'
  BY <1>1, <1>2, <1>3, AuthorisedStep
<1>5. files' \subseteq files
  BY <1>3
<1>6. last[h] # 0 => manifest'[last[h]].stage = "completed" /\ <<h, last[h]>> \notin files'
  BY <1>2, <1>5, ReadyFacts DEF CleanOf
<1>7. Spares(h)
  BY <1>2, <1>4, <1>5, SparesQuietly DEF Asked
<1>8. CASE ~ok
  <2>1. flow'[h] = Idle
    BY <1>3, <1>8, ReadyFacts DEF Stop, LifecycleTypeOK
  <2> QED BY <1>1, <1>2, <1>4, <1>6, <1>7, <2>1, StopHome DEF Keeps
<1>9. CASE ok
  <2>1. flow'[h] = [flow[h] EXCEPT !.at = "remote"] /\ "remote" \in Places \ {"idle", "route"}
    BY <1>3, <1>9, ReadyFacts DEF Go, LifecycleTypeOK, Places
  <2>2. flow'[h].at = "remote" /\ flow'[h].active = flow[h].active
    BY <2>1, ReadyFacts DEF Flows
  <2>3. <<h, Work(h)>> \notin files' /\ Work(h)' = Work(h)
    BY <1>3, <1>9, <2>2 DEF Work
  <2>4. CleanOf(h)'
    BY <1>2, <1>6, <2>2, <2>3 DEF CleanOf
  <2>5. HomeOf(h)'
    BY <1>1, <1>2, <1>4, <1>9, <2>1, <2>4, GoHome DEF Asked
  <2> QED BY <1>4, <1>7, <2>5 DEF Keeps
<1> QED BY <1>8, <1>9

LEMMA DeleteKeeps ==
  ASSUME Ready, NEW h \in Homes, DeleteBranches(h)
  PROVE  Keeps(h)
<1>1. flow[h].at = "remote" /\ flow[h].cmd = "cleanup" /\ Working(flow[h])
  BY ReadyFacts DEF DeleteBranches, PlaceAt, PlaceOf, Purpose, Working
<1>2. UNCHANGED <<session, manifest, cache, unit, last, poll, files>>
  BY DEF DeleteBranches, tracker, memory, counts
<1>3. PICK ok \in BOOLEAN :
        /\ Authorised(h, ok)
        /\ IF ok THEN Go(h, "confirm") /\ remote' = remote \ {Work(h)}
                 ELSE Stop(h) /\ UNCHANGED remote
  BY DEF DeleteBranches
<1>4. /\ HeldInv' /\ Asked(h, Work(h), ok)
      /\ held'[h] = Work(h) => Near(flow[h].active, manifest'[Work(h)], unit[h])
      /\ cache[h].kind = "bound" => Close(h, cache[h].active)'
  BY <1>1, <1>2, <1>3, AuthorisedStep
<1>5. remote' \subseteq remote
  BY <1>3
<1>6. last[h] # 0 => manifest'[last[h]].stage = "completed" /\ <<h, last[h]>> \notin files'
  BY <1>2, ReadyFacts DEF CleanOf
<1>7. Spares(h)
  BY <1>2, <1>4, <1>5, SparesQuietly DEF Asked
<1>8. CASE ~ok
  <2>1. flow'[h] = Idle
    BY <1>3, <1>8, ReadyFacts DEF Stop, LifecycleTypeOK
  <2> QED BY <1>1, <1>2, <1>4, <1>6, <1>7, <2>1, StopHome DEF Keeps
<1>9. CASE ok
  <2>1. flow'[h] = [flow[h] EXCEPT !.at = "confirm"] /\ "confirm" \in Places \ {"idle", "route"}
    BY <1>3, <1>9, ReadyFacts DEF Go, LifecycleTypeOK, Places
  <2>2. flow'[h].at = "confirm" /\ flow'[h].active = flow[h].active
    BY <2>1, ReadyFacts DEF Flows
  <2>3. <<h, Work(h)>> \notin files
    BY <1>1, ReadyFacts DEF CleanOf, Doing
  <2>4. CleanOf(h)'
    BY <1>2, <1>3, <1>6, <1>9, <2>2, <2>3 DEF CleanOf, Work
  <2>5. HomeOf(h)'
    BY <1>1, <1>2, <1>4, <1>9, <2>1, <2>4, GoHome DEF Asked
  <2> QED BY <1>4, <1>7, <2>5 DEF Keeps
<1> QED BY <1>8, <1>9

LEMMA ConfirmKeeps ==
  ASSUME Ready, NEW h \in Homes, ConfirmAuthority(h)
  PROVE  Keeps(h)
<1>1. flow[h].at = "confirm" /\ Working(flow[h])
  BY ReadyFacts DEF ConfirmAuthority, PlaceAt, PlaceOf, Purpose, Working
<1>2. UNCHANGED <<session, manifest, cache, unit, last, poll, files, remote>>
  BY DEF ConfirmAuthority, tracker, artifacts, counts
<1>3. PICK ok \in BOOLEAN : Authorised(h, ok) /\ IF ok THEN Go(h, "write") ELSE Stop(h)
  BY DEF ConfirmAuthority, Fail
<1>4. /\ HeldInv' /\ Asked(h, Work(h), ok)
      /\ held'[h] = Work(h) => Near(flow[h].active, manifest'[Work(h)], unit[h])
      /\ cache[h].kind = "bound" => Close(h, cache[h].active)'
  BY <1>1, <1>2, <1>3, AuthorisedStep
<1>5. last[h] # 0 => manifest'[last[h]].stage = "completed" /\ <<h, last[h]>> \notin files'
  BY <1>2, ReadyFacts DEF CleanOf
<1>6. Spares(h)
  BY <1>2, <1>4, SparesQuietly DEF Asked
<1>7. CASE ~ok
  <2>1. flow'[h] = Idle
    BY <1>3, <1>7, ReadyFacts DEF Stop, LifecycleTypeOK
  <2> QED BY <1>1, <1>2, <1>4, <1>5, <1>6, <2>1, StopHome DEF Keeps
<1>8. CASE ok
  <2>1. flow'[h] = [flow[h] EXCEPT !.at = "write"] /\ "write" \in Places \ {"idle", "route"}
    BY <1>3, <1>8, ReadyFacts DEF Go, LifecycleTypeOK, Places
  <2>2. flow'[h].at = "write" /\ flow'[h].active = flow[h].active /\ flow'[h].cmd = flow[h].cmd
    BY <2>1, ReadyFacts DEF Flows
  <2>3. CleanOf(h)'
    BY <1>1, <1>2, <1>5, <2>2, ReadyFacts DEF CleanOf, Work, Doing
  <2>4. HomeOf(h)'
    BY <1>1, <1>2, <1>4, <1>8, <2>1, <2>3, GoHome DEF Asked
  <2> QED BY <1>4, <1>6, <2>4 DEF Keeps
<1> QED BY <1>7, <1>8

\* The manifest is written with the lease, from a copy that is nearly current.
LEMMA WriteKeeps ==
  ASSUME Ready, LifecycleTypeOK', NEW h \in Homes, WriteManifest(h)
  PROVE  Keeps(h)
<1>1. flow[h].at = "write" /\ Working(flow[h]) /\ Claimed(flow[h])
  BY ReadyFacts DEF WriteManifest, PlaceAt, PlaceOf, Purpose, Working, Claimed
<1>2. UNCHANGED <<session, poll, files, remote, held, lease>>
  BY DEF WriteManifest, artifacts, authority, counts
<1>3. HeldInv' /\ Work(h) \in Workflows /\ Work(h) # 0 /\ held[h] = Work(h)
  BY <1>1, <1>2, ReadyFacts, WorkingPlace DEF HeldInv, Me, WorkOf
<1> DEFINE w == Work(h)
<1>4. /\ Near(flow[h].active, manifest[w], unit[h]) /\ Suits(flow[h], unit[h]) /\ last[h] # w
      /\ manifest[w] \in Manifests /\ manifest \in [Workflows -> Manifests]
  BY <1>1, <1>3, ReadyFacts DEF WorkOf, Close, Work, LifecycleTypeOK
<1>5. Near(flow[h].active, Updated(h), unit[h]) /\ Later(manifest[w], Updated(h))
  BY <1>1, <1>4, ReadyFacts, WriteGoesOn
<1>6. manifest' = [manifest EXCEPT ![w] = Updated(h)] \/ manifest' = manifest
  BY DEF WriteManifest
<1>7. /\ \A v \in Workflows : v # w => manifest'[v] = manifest[v]
      /\ manifest'[w] \in {manifest[w], Updated(h)}
  BY <1>3, <1>4, <1>6
<1>8. manifest'[w].stage = "completed" => w \notin remote
  <2>1. CASE manifest'[w] = manifest[w]
    BY <1>3, <2>1, ReadyFacts
  <2>2. CASE manifest'[w] = Updated(h) /\ flow[h].cmd = "cleanup"
    BY <1>1, <2>2, ReadyFacts DEF CleanOf, Doing
  <2>3. CASE manifest'[w] = Updated(h) /\ flow[h].cmd # "cleanup"
    <3>1. flow[h].active \in [id : 0..MaxWorkflows, stage : StageNames, tickets : SUBSET Issues,
                              integrated : SUBSET Tickets]
      BY ReadyFacts, ManifestType DEF Flows
    <3>2. flow[h].cmd \in {"publish-tickets", "integrate", "merge"}
      BY <1>1, <2>3 DEF Working
    <3>3. flow[h].cmd = "integrate" => flow[h].active.stage = "tickets-published"
      BY <1>1, ReadyFacts DEF PlaceAt, PlaceOf
    <3>4. Updated(h).stage # "completed"
      BY <3>1, <3>2, <3>3 DEF Updated
    <3> QED BY <2>3, <3>4
  <2> QED BY <1>7, <2>1, <2>2, <2>3
<1>9. /\ unit'[h] = unit[h] \/ (unit'[h] = 0 /\ cache'[h] = NoRoute)
      /\ \A g \in Homes : g # h => unit'[g] = unit[g] /\ last'[g] = last[g]
      /\ cache'[h] \in {cache[h], NoRoute}
  BY ReadyFacts DEF WriteManifest, LifecycleTypeOK
<1>10. Spares(h)
  <2>1. \A v \in Workflows : manifest'[v] # manifest[v] => held[h] = v /\ Later(manifest[v], manifest'[v])
    BY <1>3, <1>5, <1>7
  <2>2. \A v \in Workflows : manifest'[v].stage = "completed" => v \notin remote'
    BY <1>2, <1>7, <1>8, ReadyFacts
  <2> QED BY <1>2, <1>9, <2>1, <2>2 DEF Spares
<1>11. last[h] # 0 => manifest'[last[h]].stage = "completed" /\ <<h, last[h]>> \notin files'
  <2>1. last[h] # 0 => last[h] \in Workflows
    <3>1. last[h] \in 0..MaxWorkflows
      BY ReadyFacts DEF LifecycleTypeOK
    <3> QED BY <3>1 DEF Workflows
  <2> QED BY <1>2, <1>4, <1>7, <2>1, ReadyFacts DEF CleanOf
<1>12. cache[h].kind = "bound" /\ cache[h].active.id = w => cache[h].active = flow[h].active
  BY <1>1, ReadyFacts DEF WorkOf
<1>13. cache[h].kind = "bound" /\ held[h] = cache[h].active.id => Near(cache[h].active, manifest'[w], unit[h])
  BY <1>3, <1>4, <1>5, <1>7, <1>12
<1>14. poll'[h] = NoPoll /\ NoPoll.seen = {} /\ flow[h].seen = {}
  BY <1>1, <1>2, ReadyFacts DEF ReadsOf, NoPoll
<1>15. CASE Stop(h) /\ UNCHANGED <<cache, last, unit>>
  <2>1. flow'[h] = Idle
    BY <1>15, ReadyFacts DEF Stop, LifecycleTypeOK
  <2>2. cache[h].kind = "bound" => Close(h, cache[h].active)'
    BY <1>2, <1>3, <1>13, <1>15 DEF Close
  <2> QED BY <1>1, <1>3, <1>10, <1>11, <1>14, <1>15, <2>1, <2>2, StopHome DEF Keeps
<1>16. CASE /\ cache' = [cache EXCEPT ![h] = NoRoute]
            /\ last' = last /\ Stop(h)
  <2>1. flow'[h] = Idle /\ cache'[h] = NoRoute /\ NoRoute.kind # "bound"
    BY <1>16, ReadyFacts DEF Stop, LifecycleTypeOK, NoRoute
  <2>2. RouteOf(h)'
    BY <2>1 DEF RouteOf
  <2> QED BY <1>3, <1>10, <1>11, <1>14, <1>16, <2>1, <2>2, IdleHome DEF Keeps
<1>17. CASE /\ cache' = [cache EXCEPT ![h] = NoRoute]
            /\ Doing(h, "cleanup") /\ last' = [last EXCEPT ![h] = w] /\ Go(h, "close")
            /\ manifest' = [manifest EXCEPT ![w] = Updated(h)]
  <2>1. /\ flow'[h] = [flow[h] EXCEPT !.at = "close"] /\ cache'[h] = NoRoute /\ NoRoute.kind # "bound"
        /\ last'[h] = w
    BY <1>17, ReadyFacts DEF Go, LifecycleTypeOK, NoRoute
  <2>2. /\ flow'[h].at = "close" /\ flow'[h].cmd = "cleanup" /\ flow'[h].seen = {}
        /\ flow'[h].active = flow[h].active
    BY <1>14, <1>17, <2>1, ReadyFacts DEF Flows, Doing
  <2>3. ~Working(flow'[h]) /\ RouteOf(h)' /\ ReadsOf(h)'
    BY <1>14, <2>1, <2>2 DEF Working, RouteOf, ReadsOf
  <2>4. WorkOf(h)'
    BY <1>2, <1>3, <2>2, <2>3 DEF WorkOf, Doing, Work
  <2>5. manifest'[w].stage = "completed" /\ <<h, w>> \notin files'
    <3>1. Updated(h).stage = "completed"
      <4>1. flow[h].active \in [id : 0..MaxWorkflows, stage : StageNames, tickets : SUBSET Issues,
                                integrated : SUBSET Tickets]
        BY ReadyFacts, ManifestType DEF Flows
      <4> QED BY <1>17, <4>1 DEF Updated, Doing
    <3> QED BY <1>1, <1>2, <1>3, <1>4, <1>17, <3>1, ReadyFacts DEF CleanOf
  <2>6. CleanOf(h)'
    BY <2>1, <2>2, <2>5 DEF CleanOf
  <2> QED BY <1>3, <1>10, <2>3, <2>4, <2>6 DEF Keeps, HomeOf
<1> QED BY <1>15, <1>16, <1>17 DEF WriteManifest

(***************************************************************************)
(* The other steps of a command                                            *)
(***************************************************************************)

\* A home that is not working has no copy in its command to lose.
LEMMA LeaseHome ==
  ASSUME Ready, NEW h \in Homes, flow[h].at \notin {"idle", "route"}, ~Working(flow'[h]),
         flow'[h].at \notin {"idle", "route"}, flow'[h].seen = flow[h].seen,
         Doing(h, "integrate")' => unit'[h] \in {0, flow'[h].ticket},
         Claimed(flow'[h]) => held'[h] = Work(h)',
         poll'[h] = poll[h], cache'[h] = cache[h], unit'[h] = unit[h], last'[h] = last[h],
         cache[h].kind = "bound" => Close(h, cache[h].active)', CleanOf(h)'
  PROVE  HomeOf(h)'
<1>1. poll'[h] = NoPoll /\ NoPoll.seen = {} /\ flow'[h].seen = {}
  BY ReadyFacts DEF ReadsOf, NoPoll
<1>2. ReadsOf(h)' /\ WorkOf(h)'
  BY <1>1 DEF ReadsOf, WorkOf
<1>3. RouteOf(h)'
  BY ReadyFacts DEF RouteOf, Close
<1> QED BY <1>2, <1>3 DEF HomeOf

LEMMA CreateKeeps ==
  ASSUME Ready, NEW h \in Homes, CreateSpecIssue(h)
  PROVE  Keeps(h)
<1>1. flow[h].at = "create" /\ flow[h].cmd \in {"publish-spec", "follow-up"}
  BY ReadyFacts DEF CreateSpecIssue, PlaceAt, PlaceOf, Purpose
<1>2. /\ UNCHANGED <<session, manifest, cache, unit, last, poll, files, remote, held, lease>>
  BY DEF CreateSpecIssue, artifacts, authority, memory, counts
<1>3. HeldInv' /\ Spares(h)
  BY <1>2, ReadyFacts, SparesQuietly DEF HeldInv, Me
<1>4. cache[h].kind = "bound" => Close(h, cache[h].active)'
  BY <1>2, ReadyFacts DEF RouteOf, Close
<1>5. last[h] # 0 => manifest'[last[h]].stage = "completed" /\ <<h, last[h]>> \notin files'
  BY <1>2, ReadyFacts DEF CleanOf
<1>6. CASE Stop(h)
  <2>1. flow'[h] = Idle
    BY <1>6, ReadyFacts DEF Stop, LifecycleTypeOK
  <2> QED BY <1>1, <1>2, <1>3, <1>4, <1>5, <2>1, StopHome DEF Keeps
<1>7. ASSUME NEW w \in Workflows,
             flow' = [flow EXCEPT ![h].at = "claim", ![h].draft = 0, ![h].active = [NoManifest EXCEPT !.id = w]]
      PROVE  Keeps(h)
  <2>1. flow'[h].at = "claim" /\ flow'[h].cmd = flow[h].cmd /\ flow'[h].seen = flow[h].seen
    BY <1>7, ReadyFacts DEF LifecycleTypeOK, Flows
  <2>2. ~Working(flow'[h]) /\ ~Claimed(flow'[h]) /\ ~Doing(h, "integrate")' /\ ~Doing(h, "cleanup")'
    BY <1>1, <2>1 DEF Working, Claimed, Doing
  <2>3. CleanOf(h)'
    BY <1>2, <1>5, <2>2 DEF CleanOf
  <2> QED BY <1>1, <1>2, <1>3, <1>4, <2>1, <2>2, <2>3, LeaseHome DEF Keeps
<1> QED BY <1>6, <1>7 DEF CreateSpecIssue

\* A workflow that is being founded is in no copy.
LEMMA FoundingIsNew ==
  ASSUME Ready, NEW h \in Homes, Founding(flow[h])
  PROVE  /\ Work(h) \in Workflows /\ manifest[Work(h)] = NoManifest
         /\ cache[h].kind = "bound" => cache[h].active.id # Work(h)
<1>1. Work(h) \in Workflows \ Founded
  BY ReadyFacts DEF LifecycleInv, OriginInv
<1>2. cache[h].kind = "bound" => cache[h].active.id \in Founded
  BY ReadyFacts DEF LifecycleInv, SoundInv, Sound, LifecycleTypeOK
<1> QED BY <1>1, <1>2 DEF Founded

LEMMA ClaimKeeps ==
  ASSUME Ready, NEW h \in Homes, ClaimWorkflow(h)
  PROVE  Keeps(h)
<1>1. /\ flow[h].at = "claim" /\ flow[h].cmd \in {"publish-spec", "follow-up"} /\ Founding(flow[h])
  BY ReadyFacts DEF ClaimWorkflow, PlaceAt, PlaceOf, Purpose, Founding
<1>2. UNCHANGED <<session, manifest, cache, unit, last, poll, files, remote>>
  BY DEF ClaimWorkflow, tracker, artifacts, counts
<1>3. PICK ok \in BOOLEAN : Ensured(h, Work(h), ok) /\ IF ok THEN Go(h, "found") ELSE Stop(h)
  BY DEF ClaimWorkflow
<1>4. HeldInv' /\ Asked(h, Work(h), ok)
  BY <1>1, <1>2, <1>3, FoundingIsNew, EnsuredAsked, ReadyFacts
<1>5. Spares(h)
  BY <1>2, <1>4, SparesQuietly DEF Asked
<1>6. cache[h].kind = "bound" => Close(h, cache[h].active)'
  <2>1. ASSUME cache[h].kind = "bound" PROVE cache[h].active.id # 0 /\ cache[h].active.id # Work(h)
    BY <1>1, <2>1, FoundingIsNew, ReadyFacts DEF LifecycleTypeOK
  <2>2. held'[h] \in {0, held[h], Work(h)}
    BY <1>4 DEF Asked
  <2> QED BY <1>2, <2>1, <2>2, ReadyFacts DEF RouteOf, Close
<1>7. last[h] # 0 => manifest'[last[h]].stage = "completed" /\ <<h, last[h]>> \notin files'
  BY <1>2, ReadyFacts DEF CleanOf
<1>8. CASE ~ok
  <2>1. flow'[h] = Idle
    BY <1>3, <1>8, ReadyFacts DEF Stop, LifecycleTypeOK
  <2> QED BY <1>1, <1>2, <1>4, <1>5, <1>6, <1>7, <2>1, StopHome DEF Keeps
<1>9. CASE ok
  <2>1. /\ flow'[h].at = "found" /\ flow'[h].cmd = flow[h].cmd /\ flow'[h].seen = flow[h].seen
        /\ flow'[h].active = flow[h].active
    BY <1>3, <1>9, ReadyFacts DEF Go, LifecycleTypeOK, Flows
  <2>2. ~Working(flow'[h]) /\ ~Doing(h, "integrate")' /\ ~Doing(h, "cleanup")'
    BY <1>1, <2>1 DEF Working, Doing
  <2>3. held'[h] = Work(h)'
    BY <1>4, <1>9, <2>1 DEF Asked, Work
  <2>4. CleanOf(h)'
    BY <1>2, <1>7, <2>2 DEF CleanOf
  <2> QED BY <1>1, <1>2, <1>4, <1>5, <1>6, <2>1, <2>2, <2>3, <2>4, LeaseHome DEF Keeps
<1> QED BY <1>8, <1>9

LEMMA FoundKeeps ==
  ASSUME Ready, NEW h \in Homes, FoundWorkflow(h)
  PROVE  Keeps(h)
<1>1. /\ flow[h].at = "found" /\ flow[h].cmd \in {"publish-spec", "follow-up"} /\ Founding(flow[h])
      /\ Claimed(flow[h])
  BY ReadyFacts DEF FoundWorkflow, PlaceAt, PlaceOf, Purpose, Founding, Claimed
<1>2. UNCHANGED <<session, cache, unit, last, poll, files, remote>>
  BY DEF FoundWorkflow, artifacts, counts
<1> DEFINE w == Work(h)
<1>3. /\ w \in Workflows /\ w # 0 /\ held[h] = w /\ manifest[w] = NoManifest
      /\ cache[h].kind = "bound" => cache[h].active.id # w
  BY <1>1, FoundingIsNew, ReadyFacts DEF WorkOf, Workflows
<1>4. manifest' = [manifest EXCEPT ![w] = First(w)] \/ manifest' = manifest
  BY DEF FoundWorkflow, First
<1>5. /\ \A v \in Workflows : v # w => manifest'[v] = manifest[v]
      /\ manifest'[w] \in {manifest[w], First(w)}
  BY <1>3, <1>4, ReadyFacts DEF LifecycleTypeOK
<1>6. Later(manifest[w], First(w)) /\ First(w).stage # "completed" /\ manifest[w].stage # "completed"
  BY <1>3, StageRank DEF Later, First, NoManifest
<1>7. \/ UNCHANGED authority
      \/ Release(h)
  BY DEF FoundWorkflow
<1>8. HeldInv' /\ held'[h] \in {0, held[h]} /\ \A g \in Homes : g # h => held'[g] = held[g]
  <2>1. CASE UNCHANGED authority
    BY <1>2, <2>1, ReadyFacts DEF authority, HeldInv, Me
  <2> QED BY <1>2, <1>7, <2>1, ReleaseHeld, ReadyFacts
<1>9. Spares(h)
  <2>1. \A v \in Workflows : manifest'[v].stage = "completed" => v \notin remote'
    BY <1>2, <1>5, <1>6, ReadyFacts
  <2>2. \A v \in Workflows : manifest'[v] # manifest[v] => held[h] = v /\ Later(manifest[v], manifest'[v])
    BY <1>3, <1>5, <1>6
  <2> QED BY <1>2, <1>8, <2>1, <2>2 DEF Spares
<1>10. cache[h].kind = "bound" => Close(h, cache[h].active)'
  <2>1. cache[h].kind = "bound" => cache[h].active.id # 0
    BY ReadyFacts DEF LifecycleTypeOK
  <2> QED BY <1>2, <1>3, <1>8, <2>1 DEF Close
<1>11. last[h] # 0 => manifest'[last[h]].stage = "completed" /\ <<h, last[h]>> \notin files'
  <2>1. last[h] \in 0..MaxWorkflows
    BY ReadyFacts DEF LifecycleTypeOK
  <2>2. last[h] # 0 => last[h] \in Workflows
    BY <2>1 DEF Workflows
  <2>3. last[h] # 0 => manifest[last[h]].stage = "completed" /\ <<h, last[h]>> \notin files
    BY ReadyFacts DEF CleanOf
  <2> QED BY <1>2, <1>5, <1>6, <2>2, <2>3
<1>12. CASE Stop(h)
  <2>1. flow'[h] = Idle
    BY <1>12, ReadyFacts DEF Stop, LifecycleTypeOK
  <2> QED BY <1>1, <1>2, <1>8, <1>9, <1>10, <1>11, <2>1, StopHome DEF Keeps
<1>13. CASE Go(h, "bind") /\ UNCHANGED authority
  <2>1. /\ flow'[h].at = "bind" /\ flow'[h].cmd = flow[h].cmd /\ flow'[h].seen = flow[h].seen
        /\ flow'[h].active = flow[h].active
    BY <1>13, ReadyFacts DEF Go, LifecycleTypeOK, Flows
  <2>2. ~Working(flow'[h]) /\ ~Doing(h, "integrate")' /\ ~Doing(h, "cleanup")'
    BY <1>1, <2>1 DEF Working, Doing
  <2>3. held'[h] = Work(h)'
    BY <1>3, <1>13, <2>1 DEF authority, Work
  <2>4. CleanOf(h)'
    BY <1>2, <1>11, <2>2 DEF CleanOf
  <2> QED BY <1>1, <1>2, <1>8, <1>9, <1>10, <2>1, <2>2, <2>3, <2>4, LeaseHome DEF Keeps
<1> QED BY <1>12, <1>13 DEF FoundWorkflow

LEMMA BindKeeps ==
  ASSUME Ready, NEW h \in Homes, BindHome(h)
  PROVE  Keeps(h)
<1>1. flow[h].at = "bind" /\ flow'[h] = Idle
  BY ReadyFacts DEF BindHome, Stop, LifecycleTypeOK
<1>2. /\ UNCHANGED <<session, manifest, unit, poll, files, remote>>
      /\ \A g \in Homes : g # h => last'[g] = last[g]
      /\ last'[h] \in {0, last[h]}
  <2>1. UNCHANGED <<session, manifest, unit, poll, files, remote>>
    BY DEF BindHome, tracker, artifacts, counts
  <2>2. last' = last \/ last' = [last EXCEPT ![h] = 0]
    BY DEF BindHome
  <2>3. last \in [Homes -> 0..MaxWorkflows]
    BY ReadyFacts DEF LifecycleTypeOK
  <2> QED BY <2>1, <2>2, <2>3
<1>3. last[h] # 0 => manifest'[last[h]].stage = "completed" /\ <<h, last[h]>> \notin files'
  BY <1>2, ReadyFacts DEF CleanOf
<1>4. CASE UNCHANGED authority /\ cache' = [cache EXCEPT ![h] = NoRoute]
  <2>1. HeldInv' /\ held' = held
    BY <1>2, <1>4, ReadyFacts DEF authority, HeldInv, Me
  <2>2. cache'[h] = NoRoute /\ NoRoute.kind # "bound"
    BY <1>4, ReadyFacts DEF LifecycleTypeOK, NoRoute
  <2>3. poll'[h] = NoPoll /\ NoPoll.seen = {}
    BY <1>1, <1>2, ReadyFacts DEF ReadsOf, NoPoll
  <2>4. HomeOf(h)'
    BY <1>1, <1>2, <1>3, <2>2, <2>3, IdleHome DEF RouteOf
  <2> QED BY <1>2, <2>1, <2>4, SparesQuietly DEF Keeps
<1>5. CASE Release(h) /\ UNCHANGED <<cache, last>>
  <2>1. HeldInv' /\ held'[h] = 0 /\ \A g \in Homes : g # h => held'[g] = held[g]
    BY <1>2, <1>5, ReadyFacts, ReleaseHeld
  <2>2. cache[h].kind = "bound" => Close(h, cache[h].active)'
    BY <1>5, <2>1, ReadyFacts DEF Close, LifecycleTypeOK
  <2>3. HomeOf(h)'
    BY <1>1, <1>2, <1>3, <1>5, <2>2, StopHome
  <2> QED BY <1>2, <2>1, <2>3, SparesQuietly DEF Keeps
<1> QED BY <1>4, <1>5 DEF BindHome

LEMMA CloseKeeps ==
  ASSUME Ready, NEW h \in Homes, CloseSpec(h)
  PROVE  Keeps(h)
<1>1. /\ flow[h].at = "close" /\ flow[h].cmd = "cleanup" /\ Claimed(flow[h])
  BY ReadyFacts DEF CloseSpec, PlaceAt, PlaceOf, Purpose, Claimed
<1>2. UNCHANGED <<session, manifest, cache, unit, last, poll, files, remote>>
  BY DEF CloseSpec, artifacts, memory, counts
<1>3. Work(h) # 0 /\ held[h] = Work(h)
  BY <1>1, ReadyFacts DEF PlaceAt, PlaceOf, Work, WorkOf
<1>4. HeldInv' /\ held'[h] = held[h] /\ \A g \in Homes : g # h => held'[g] = held[g]
  <2>1. PICK ok \in BOOLEAN : Authorised(h, ok)
    BY DEF CloseSpec
  <2> QED BY <1>2, <1>3, <2>1, AuthorisedAsked, ReadyFacts DEF Asked
<1>5. Spares(h)
  BY <1>2, <1>4, SparesQuietly
<1>6. cache[h].kind = "bound" => Close(h, cache[h].active)'
  BY <1>2, <1>4, ReadyFacts DEF RouteOf, Close
<1>7. /\ flow'[h].at = "unbind" /\ flow'[h].cmd = "cleanup" /\ flow'[h].seen = flow[h].seen
  BY <1>1, ReadyFacts DEF CloseSpec, Go, LifecycleTypeOK, Flows
<1>8. ~Working(flow'[h]) /\ ~Claimed(flow'[h]) /\ ~Doing(h, "integrate")'
  BY <1>7 DEF Working, Claimed, Doing
<1>9. CleanOf(h)'
  BY <1>2, <1>7, ReadyFacts DEF CleanOf
<1> QED BY <1>1, <1>2, <1>4, <1>5, <1>6, <1>7, <1>8, <1>9, LeaseHome DEF Keeps

LEMMA UnbindKeeps ==
  ASSUME Ready, NEW h \in Homes, UnbindHome(h)
  PROVE  Keeps(h)
<1>1. flow[h].at = "unbind" /\ flow'[h] = Idle
  BY ReadyFacts DEF UnbindHome, Stop, LifecycleTypeOK
<1>2. UNCHANGED <<session, manifest, last, unit, poll, files, remote>>
  BY DEF UnbindHome, tracker, artifacts, counts
<1>3. HeldInv' /\ held'[h] = 0 /\ \A g \in Homes : g # h => held'[g] = held[g]
  BY <1>2, ReadyFacts, ReleaseHeld DEF UnbindHome
<1>4. last[h] # 0 => manifest'[last[h]].stage = "completed" /\ <<h, last[h]>> \notin files'
  BY <1>2, ReadyFacts DEF CleanOf
<1>5. cache'[h] = NoRoute /\ NoRoute.kind # "bound"
  BY ReadyFacts DEF UnbindHome, LifecycleTypeOK, NoRoute
<1>6. poll'[h] = NoPoll /\ NoPoll.seen = {}
  BY <1>1, <1>2, ReadyFacts DEF ReadsOf, NoPoll
<1>7. HomeOf(h)'
  BY <1>1, <1>2, <1>4, <1>5, <1>6, IdleHome DEF RouteOf
<1> QED BY <1>2, <1>3, <1>7, SparesQuietly DEF Keeps

(***************************************************************************)
(* Routes                                                                  *)
(***************************************************************************)

\* A command that goes on with a route takes its copy over.
LEMMA ProceedHome ==
  ASSUME Ready, NEW h \in Homes, NEW c, Starts(c),
         c.cmd = "integrate" => c.ticket \in Tickets /\ unit[h] \in {0, c.ticket},
         Proceed(h, c, cache'[h]), UNCHANGED <<manifest, last, files>>, poll'[h] = NoPoll,
         cache'[h].kind = "bound" =>
           /\ cache'[h].active.id # 0 /\ last[h] # cache'[h].active.id
           /\ held'[h] = cache'[h].active.id =>
                Near(cache'[h].active, manifest[cache'[h].active.id], unit[h])
  PROVE  HomeOf(h)' /\ \A g \in Homes : g # h => unit'[g] = unit[g]
<1> DEFINE r == cache'[h]
<1>1. NoPoll.seen = {} /\ Idle.at = "idle" /\ Idle.cmd = "none" /\ Idle.seen = {}
  BY DEF NoPoll, Idle
<1>2. last[h] # 0 => manifest'[last[h]].stage = "completed" /\ <<h, last[h]>> \notin files'
  BY ReadyFacts DEF CleanOf
<1>3. unit' = IF c.cmd = "integrate" /\ Enters(h, c, r) THEN [unit EXCEPT ![h] = c.ticket] ELSE unit
  BY DEF Proceed
<1>4. \A g \in Homes : g # h => unit'[g] = unit[g]
  BY <1>3, ReadyFacts DEF LifecycleTypeOK
<1>5. r.kind = "bound" /\ held'[h] = r.active.id => Near(r.active, manifest[r.active.id], unit'[h])
  <2>1. CASE c.cmd = "integrate" /\ Enters(h, c, r)
    <3>1. unit'[h] = c.ticket
      BY <1>3, <2>1, ReadyFacts DEF LifecycleTypeOK
    <3> QED BY <2>1, <3>1, NearTicket
  <2>2. CASE unit' = unit
    BY <2>2
  <2> QED BY <1>3, <2>1, <2>2
<1>6. RouteOf(h)'
  BY <1>5 DEF RouteOf, Close
<1>7. CASE ~Enters(h, c, r)
  <2>1. flow'[h] = Idle
    BY <1>7, ReadyFacts DEF Proceed, LifecycleTypeOK
  <2>2. HomeOf(h)'
    BY <1>1, <1>2, <1>6, <2>1, IdleHome
  <2> QED BY <1>4, <2>2
<1>8. CASE Enters(h, c, r)
  <2> DEFINE f == [c EXCEPT !.at = FirstStep(c.cmd), !.seen = {}, !.active = r.active, !.draft = pending[h].id]
  <2>1. flow'[h] = f
    BY <1>8, ReadyFacts DEF Proceed, LifecycleTypeOK
  <2>2. /\ f.at = FirstStep(c.cmd) /\ f.cmd = c.cmd /\ f.seen = {} /\ f.active = r.active
        /\ f.ticket = c.ticket
    BY DEF Starts, Flows
  <2>3. c.cmd \in {"follow-up", "publish-tickets", "integrate", "merge", "cleanup"}
    BY <1>8 DEF Enters
  <2>4. /\ c.cmd = "follow-up" => f.at = "create"
        /\ c.cmd = "publish-tickets" => f.at = "tickets"
        /\ c.cmd = "integrate" => f.at = "push"
        /\ c.cmd = "merge" => f.at = "confirm"
        /\ c.cmd = "cleanup" => f.at = "local"
    BY <2>2 DEF FirstStep
  <2>5. ~Claimed(f) /\ f.at \notin {"idle", "route"}
    BY <2>2, <2>3, <2>4 DEF Claimed
  <2>6. ReadsOf(h)'
    BY <1>1, <2>1, <2>2 DEF ReadsOf
  <2>7. c.cmd # "follow-up" => r.kind = "bound"
    BY <1>8 DEF Enters
  <2>8. Working(f) => /\ held'[h] = r.active.id => Near(r.active, manifest'[r.active.id], unit'[h])
                      /\ last'[h] # r.active.id
    <3>1. Working(f) => r.kind = "bound"
      BY <2>2, <2>7 DEF Working
    <3> QED BY <1>5, <3>1
  <2>9. Suits(f, unit'[h])
    <3>1. c.cmd = "integrate" => unit'[h] = c.ticket
      BY <1>3, <1>8, ReadyFacts DEF LifecycleTypeOK
    <3> QED BY <1>8, <2>2, <3>1 DEF Suits, Enters
  <2>10. WorkOf(h)'
    <3>1. Work(h)' = r.active.id /\ Suits(flow[h], unit[h])' /\ ~Claimed(flow[h])'
      BY <2>1, <2>2, <2>5, <2>9 DEF Work, Suits, Claimed
    <3>2. Working(flow[h])' => Close(h, flow[h].active)' /\ last'[h] # r.active.id
      BY <2>1, <2>2, <2>8 DEF Working, Close
    <3>3. Doing(h, "integrate")' => unit'[h] \in {0, flow'[h].ticket}
      BY <2>1, <2>2, <2>9 DEF Doing, Suits
    <3> QED BY <2>1, <2>2, <3>1, <3>2, <3>3 DEF WorkOf
  <2>11. CleanOf(h)'
    <3>1. f.cmd = "cleanup" => f.at = "local"
      BY <2>2, <2>4
    <3> QED BY <1>2, <2>1, <3>1 DEF CleanOf, Doing
  <2> QED BY <1>4, <1>6, <2>6, <2>10, <2>11 DEF HomeOf
<1> QED BY <1>7, <1>8

LEMMA RouteKeeps ==
  ASSUME Ready, NEW h \in Homes, RouteCommand(h)
  PROVE  Keeps(h)
<1>1. /\ flow[h].at = "route" /\ flow[h].seen \in SUBSET Copies
      /\ Starts(flow[h])
  BY ReadyFacts DEF RouteCommand, PlaceAt, PlaceOf, Purpose, Flows, Starts
<1>2. UNCHANGED <<session, manifest, last, poll, files, remote>>
  BY DEF RouteCommand, tracker, artifacts
<1>3. poll'[h] = NoPoll /\ \A m \in flow[h].seen : Fresh(h, m) /\ last[h] # m.id
  BY <1>1, <1>2, ReadyFacts DEF ReadsOf
<1>4. /\ HeldInv' /\ \A g \in Homes : g # h => held'[g] = held[g]
      /\ cache'[h].kind = "bound" =>
           /\ cache'[h].active.id # 0 /\ last[h] # cache'[h].active.id
           /\ manifest[cache'[h].active.id] = cache'[h].active
  BY <1>1, <1>2, <1>3, RouteIsFresh, ReadyFacts DEF RouteCommand
<1>5. flow[h].cmd = "integrate" => flow[h].ticket \in Tickets /\ unit[h] \in {0, flow[h].ticket}
  BY ReadyFacts DEF PlaceAt, PlaceOf, WorkOf, Doing
<1>6. Proceed(h, flow[h], cache'[h])
  BY DEF RouteCommand
<1>7. cache'[h].kind = "bound" => Near(cache'[h].active, manifest[cache'[h].active.id], unit[h])
  BY <1>4 DEF Near
<1>8. HomeOf(h)' /\ \A g \in Homes : g # h => unit'[g] = unit[g]
  BY <1>1, <1>2, <1>3, <1>4, <1>5, <1>6, <1>7, ProceedHome
<1> QED BY <1>2, <1>4, <1>8, SparesQuietly DEF Keeps

LEMMA BeginKeeps ==
  ASSUME Ready, NEW h \in Homes, NEW cmd \in Commands \ {"none", "publish-spec", "resume"},
         NEW t \in Tickets \cup {0}, cmd = "integrate" => t \in Tickets, Begin(h, cmd, t)
  PROVE  Keeps(h)
<1> DEFINE c == [Idle EXCEPT !.cmd = cmd, !.ticket = t]
<1>1. c \in Flows /\ c.cmd = cmd /\ c.ticket = t /\ Starts(c)
  BY ConstantTypes DEF Idle, Flows, Starts
<1>2. UNCHANGED <<session, manifest, last, poll, files, remote, cache, held, lease>>
  BY DEF Begin, tracker, artifacts, authority
<1>3. poll'[h] = NoPoll /\ NoPoll.seen = {}
  BY <1>2 DEF Begin, NoPoll
<1>4. cmd = "integrate" => unit[h] \in {0, t}
  BY DEF Begin
<1>5. HeldInv'
  BY <1>2, ReadyFacts DEF HeldInv, Me
<1>6. CASE Proceed(h, c, cache[h])
  <2>1. cache'[h].kind = "bound" =>
          /\ cache'[h].active.id # 0 /\ last[h] # cache'[h].active.id
          /\ held'[h] = cache'[h].active.id =>
               Near(cache'[h].active, manifest[cache'[h].active.id], unit[h])
    BY <1>2, ReadyFacts DEF RouteOf, Close, LifecycleTypeOK
  <2>2. HomeOf(h)' /\ \A g \in Homes : g # h => unit'[g] = unit[g]
    BY <1>1, <1>2, <1>3, <1>4, <1>6, <2>1, ProceedHome
  <2> QED BY <1>2, <1>5, <2>2, SparesQuietly DEF Keeps
<1>7. CASE UNCHANGED <<unit, flow>>
  <2>1. HeldInv' /\ HomeOf(h)'
    BY <1>2, <1>7, SameHome, ReadyFacts DEF HomeOf, authority
  <2> QED BY <1>2, <1>7, <2>1, SparesQuietly DEF Keeps
<1>8. CASE UNCHANGED unit /\ flow' = [flow EXCEPT ![h] = [c EXCEPT !.at = "route", !.seen = ActiveWorkflows]]
  <2> DEFINE f == [c EXCEPT !.at = "route", !.seen = ActiveWorkflows]
  <2>1. flow'[h] = f /\ f.at = "route" /\ f.cmd = cmd /\ f.ticket = t /\ f.seen = ActiveWorkflows
    BY <1>1, <1>8, ReadyFacts DEF LifecycleTypeOK, Flows
  <2>2. ~Working(f) /\ ~Claimed(f)
    BY <2>1 DEF Working, Claimed
  <2>3. ReadsOf(h)'
    <3>1. \A m \in ActiveWorkflows : manifest[m.id] = m /\ last[h] # m.id
      BY ReadyFacts, ReadsAreFresh
    <3> QED BY <1>2, <1>3, <2>1, <3>1 DEF ReadsOf, Fresh
  <2>4. RouteOf(h)' /\ WorkOf(h)'
    BY <1>2, <1>4, <1>8, <2>1, <2>2, ReadyFacts DEF RouteOf, Close, WorkOf, Doing
  <2>5. CleanOf(h)'
    BY <1>2, <2>1, ReadyFacts DEF CleanOf
  <2> QED BY <1>2, <1>5, <1>8, <2>3, <2>4, <2>5, SparesQuietly DEF Keeps, HomeOf
<1> QED BY <1>6, <1>7, <1>8 DEF Begin, LoadRoute

\* A home whose flow is idle is at nothing.
LEMMA IdleFlow ==
  ASSUME Ready, NEW h \in Homes, flow[h].at = "idle"
  PROVE  flow[h].cmd = "none" /\ ~Working(flow[h]) /\ ~Claimed(flow[h]) /\ flow[h].seen = {}
BY ReadyFacts DEF PlaceAt, PlaceOf, Purpose, Working, Claimed, ReadsOf

LEMMA ResumeKeeps ==
  ASSUME Ready, NEW h \in Homes, NEW w \in Workflows, Resume(h, w)
  PROVE  Keeps(h)
<1>1. flow[h].at = "idle" /\ poll[h] = NoPoll /\ cache[h].kind # "bound" /\ NoPoll.seen = {}
  BY DEF Resume, NoPoll
<1>2. UNCHANGED <<session, manifest, last, unit, poll, files, remote, cache>>
  BY DEF Resume, tracker, artifacts, memory, counts
<1>3. PICK ok \in BOOLEAN :
        /\ Ensured(h, w, ok)
        /\ flow' = IF ok THEN [flow EXCEPT ![h] = [Idle EXCEPT !.at = "bind", !.cmd = "resume",
                                                              !.active = manifest[w]]]
                   ELSE flow
  BY DEF Resume
<1>4. HeldInv' /\ Asked(h, w, ok)
  BY <1>2, <1>3, EnsuredAsked, ReadyFacts
<1>5. RouteOf(h)'
  BY <1>1, <1>2 DEF RouteOf
<1>6. CASE ~ok
  <2>1. flow'[h] = flow[h]
    BY <1>3, <1>6
  <2>2. ReadsOf(h)' /\ WorkOf(h)' /\ CleanOf(h)'
    BY <1>1, <1>2, <2>1, IdleFlow, ReadyFacts DEF ReadsOf, WorkOf, CleanOf, Doing
  <2> QED BY <1>2, <1>4, <1>5, <2>2, SparesQuietly DEF Keeps, HomeOf, Asked
<1>7. CASE ok
  <2>1. manifest[w].id = w
    BY ReadyFacts, ReadsAreFresh DEF Resume, ActiveWorkflows, LifecycleTypeOK, NoManifest
  <2>2. /\ flow'[h].at = "bind" /\ flow'[h].cmd = "resume" /\ flow'[h].seen = {}
        /\ flow'[h].active = manifest[w]
    BY <1>3, <1>7, ReadyFacts DEF LifecycleTypeOK, Idle
  <2>3. ~Working(flow'[h]) /\ held'[h] = Work(h)'
    BY <1>4, <1>7, <2>1, <2>2 DEF Working, Work, Asked
  <2>4. ReadsOf(h)' /\ WorkOf(h)' /\ CleanOf(h)'
    BY <1>1, <1>2, <2>2, <2>3, ReadyFacts DEF ReadsOf, WorkOf, CleanOf, Doing
  <2> QED BY <1>2, <1>4, <1>5, <2>4, SparesQuietly DEF Keeps, HomeOf, Asked
<1> QED BY <1>6, <1>7

LEMMA ConfirmationKeeps ==
  ASSUME Ready, NEW h \in Homes, Cancel(h) \/ BeginPublish(h)
  PROVE  Keeps(h)
<1>1. UNCHANGED <<session, manifest, last, unit, poll, files, remote, cache, held, lease>>
  BY DEF Cancel, BeginPublish, tracker, artifacts, authority, memory, counts
<1>2. Spares(h)
  BY <1>1, SparesQuietly
<1>3. CASE Cancel(h)
  <2>1. HeldInv' /\ HomeOf(h)'
    BY <1>1, <1>3, SameHome, ReadyFacts DEF Cancel, HomeOf, authority
  <2> QED BY <1>2, <2>1 DEF Keeps
<1>4. CASE BeginPublish(h)
  <2>1. HeldInv'
    BY <1>1, ReadyFacts DEF HeldInv, Me
  <2>2. /\ flow'[h].at = "create" /\ flow'[h].cmd = "publish-spec" /\ flow'[h].seen = {}
        /\ poll'[h] = NoPoll /\ NoPoll.seen = {}
    BY <1>1, <1>4, ReadyFacts DEF BeginPublish, LifecycleTypeOK, Idle, NoPoll
  <2>3. ~Working(flow'[h]) /\ ~Claimed(flow'[h])
    BY <2>2 DEF Working, Claimed
  <2>4. ReadsOf(h)' /\ WorkOf(h)' /\ CleanOf(h)'
    BY <1>1, <2>2, <2>3, ReadyFacts DEF ReadsOf, WorkOf, CleanOf, Doing
  <2>5. RouteOf(h)'
    BY <1>1, ReadyFacts DEF RouteOf, Close
  <2> QED BY <1>2, <2>1, <2>4, <2>5 DEF Keeps, HomeOf
<1> QED BY <1>3, <1>4

(***************************************************************************)
(* The panel and sessions                                                  *)
(***************************************************************************)

LEMMA PanelKeeps ==
  ASSUME Ready, NEW h \in Homes, PollTracker(h) \/ PollRoute(h) \/ ExpireCache(h)
  PROVE  Keeps(h)
<1>1. UNCHANGED <<session, manifest, last, unit, files, remote, flow>> /\ NoPoll.at = "idle" /\ NoPoll.seen = {}
  BY DEF PollTracker, PollRoute, ExpireCache, tracker, artifacts, memory, counts, NoPoll
<1>2. CleanOf(h)'
  BY <1>1, ReadyFacts DEF CleanOf, Doing, Work
<1>3. CASE PollTracker(h)
  <2>1. UNCHANGED <<cache, held, lease>> /\ poll'[h].seen = ActiveWorkflows /\ flow[h].at = "idle"
    BY <1>3, ReadyFacts DEF PollTracker, memory, authority, Undisturbed, LifecycleTypeOK
  <2>2. HeldInv'
    BY <1>1, <2>1, ReadyFacts DEF HeldInv, Me
  <2>3. RouteOf(h)' /\ WorkOf(h)'
    BY <1>1, <2>1, IdleFlow, ReadyFacts DEF RouteOf, Close, WorkOf, Doing
  <2>4. ReadsOf(h)'
    <3>1. \A m \in ActiveWorkflows : manifest[m.id] = m /\ last[h] # m.id
      BY ReadyFacts, ReadsAreFresh
    <3> QED BY <1>1, <2>1, <3>1, IdleFlow DEF ReadsOf, Fresh
  <2> QED BY <1>1, <1>2, <2>1, <2>2, <2>3, <2>4, SparesQuietly DEF Keeps, HomeOf
<1>4. CASE PollRoute(h)
  <2>1. poll[h].seen \in SUBSET Copies /\ poll'[h] = NoPoll /\ flow[h].at = "idle"
    BY <1>1, <1>4, HomeType, ReadyFacts DEF PollRoute, LifecycleTypeOK, Polls, ReadsOf
  <2>2. \A m \in poll[h].seen : Fresh(h, m) /\ last[h] # m.id
    BY ReadyFacts DEF ReadsOf
  <2>3. /\ HeldInv' /\ \A g \in Homes : g # h => held'[g] = held[g]
        /\ cache'[h].kind = "bound" =>
             /\ cache'[h].active.id # 0 /\ last[h] # cache'[h].active.id
             /\ manifest[cache'[h].active.id] = cache'[h].active
    BY <1>1, <1>4, <2>1, <2>2, RouteIsFresh, ReadyFacts DEF PollRoute
  <2>4. RouteOf(h)'
    BY <1>1, <2>3 DEF RouteOf, Close, Near
  <2>5. ReadsOf(h)' /\ WorkOf(h)'
    BY <1>1, <2>1, IdleFlow DEF ReadsOf, WorkOf, Doing
  <2> QED BY <1>1, <1>2, <2>3, <2>4, <2>5, SparesQuietly DEF Keeps, HomeOf
<1>5. CASE ExpireCache(h)
  <2>1. UNCHANGED <<poll, held, lease>>
    BY <1>5 DEF ExpireCache, authority
  <2>2. HeldInv'
    BY <1>1, <2>1, ReadyFacts DEF HeldInv, Me
  <2>3. cache'[h].kind # "bound"
    BY <1>5, ReadyFacts DEF ExpireCache, LifecycleTypeOK, NoRoute
  <2>4. RouteOf(h)' /\ ReadsOf(h)'
    BY <1>1, <2>1, <2>3, ReadyFacts DEF RouteOf, ReadsOf, Fresh
  <2>5. WorkOf(h)'
    BY <1>1, <2>1, <2>3, ReadyFacts DEF WorkOf, Close, Doing, Work
  <2> QED BY <1>1, <1>2, <2>1, <2>2, <2>4, <2>5, SparesQuietly DEF Keeps, HomeOf
<1> QED BY <1>3, <1>4, <1>5

\* What a session that dies held stays with the session it was.
LEMMA CrashKeeps ==
  ASSUME Ready, NEW h \in Homes, Crash(h)
  PROVE  Keeps(h)
<1>1. UNCHANGED <<manifest, files, remote, lease>>
  BY DEF Crash, tracker, artifacts
<1>2. /\ held'[h] = 0 /\ last'[h] = 0 /\ cache'[h] = NoRoute /\ poll'[h] = NoPoll /\ flow'[h] = Idle
      /\ NoRoute.kind # "bound" /\ NoPoll.seen = {}
  BY ReadyFacts DEF Crash, Stop, LifecycleTypeOK, NoRoute, NoPoll
<1>3. \A g \in Homes : g # h => /\ held'[g] = held[g] /\ unit'[g] = unit[g] /\ last'[g] = last[g]
                                /\ session'[g] = session[g]
  BY ReadyFacts DEF Crash, LifecycleTypeOK
<1>4. HeldInv'
  BY <1>1, <1>2, <1>3, ReadyFacts DEF HeldInv, Me
<1>5. HomeOf(h)'
  BY <1>2, IdleHome DEF RouteOf
<1> QED BY <1>1, <1>3, <1>4, <1>5, SparesQuietly DEF Keeps

LEMMA ActsKeeps ==
  ASSUME Ready, LifecycleTypeOK', NEW h \in Homes, Acts(h)
  PROVE  Keeps(h)
<1>1. CASE Advance(h)
  BY <1>1, RouteKeeps, CreateKeeps, ClaimKeeps, FoundKeeps, BindKeeps, PublishKeeps, PushKeeps, RemoveKeeps,
     DeleteKeeps, ConfirmKeeps, WriteKeeps, CloseKeeps, UnbindKeeps DEF Advance
<1>2. ASSUME NEW cmd \in {"create-spec", "create-tickets", "publish-tickets", "merge", "cleanup", "follow-up"},
             Begin(h, cmd, 0)
      PROVE  Keeps(h)
  <2>1. cmd \in Commands \ {"none", "publish-spec", "resume"} /\ cmd # "integrate"
    BY DEF Commands
  <2> QED BY <1>2, <2>1, BeginKeeps
<1>3. ASSUME NEW t \in Tickets, Begin(h, "integrate", t) PROVE Keeps(h)
  <2>1. "integrate" \in Commands \ {"none", "publish-spec", "resume"}
    BY DEF Commands
  <2> QED BY <1>3, <2>1, BeginKeeps
<1> QED BY <1>1, <1>2, <1>3, ResumeKeeps, ConfirmationKeeps, PanelKeeps, CrashKeeps DEF Acts

(***************************************************************************)
(* The other homes, and the whole system                                   *)
(***************************************************************************)

LEMMA OthersKeep ==
  ASSUME Ready, LifecycleTypeOK', NEW h \in Homes, NEW g \in Homes, g # h, Acts(h), HeldInv', Spares(h)
  PROVE  HomeOf(g)'
<1>1. /\ UNCHANGED <<flow[g], pending[g], cache[g], poll[g]>>
      /\ held'[g] = held[g] /\ unit'[g] = unit[g] /\ last'[g] = last[g]
  BY OtherHomes, ReadyFacts DEF Spares
<1>2. ASSUME NEW v \in Workflows, held[g] = v PROVE manifest'[v] = manifest[v]
  <2>1. v # 0
    BY DEF Workflows
  <2>2. held[h] # v
    BY <1>2, <2>1, OneHolder, ReadyFacts
  <2> QED BY <2>2 DEF Spares
<1>3. /\ held[g] # 0 => held[g] \in Workflows
      /\ last[g] # 0 => last[g] \in Workflows
  <2>1. held[g] \in 0..MaxWorkflows /\ last[g] \in 0..MaxWorkflows
    BY ReadyFacts DEF LifecycleTypeOK
  <2> QED BY <2>1 DEF Workflows
<1>4. RouteOf(g)'
  <2>1. cache[g].kind = "bound" => cache[g].active.id # 0
    BY ReadyFacts DEF LifecycleTypeOK
  <2> QED BY <1>1, <1>2, <1>3, <2>1, ReadyFacts DEF RouteOf, Close
<1>5. ReadsOf(g)'
  <2>1. \A m \in flow[g].seen \cup poll[g].seen : m.id # 0
    BY HomeType, ReadyFacts DEF Flows, Polls, Copies
  <2> QED BY <1>1, <1>2, <1>3, <2>1, ReadyFacts DEF ReadsOf, Fresh
<1>6. Work(g)' = Work(g) /\ \A cmd : Doing(g, cmd)' = Doing(g, cmd)
  BY <1>1 DEF Work, Doing
<1>7. WorkOf(g)'
  <2>1. Working(flow[g]) => Close(g, flow[g].active)'
    <3>1. Working(flow[g]) => Work(g) # 0 /\ Close(g, flow[g].active)
      BY WorkingPlace, ReadyFacts DEF WorkOf
    <3> QED BY <1>1, <1>2, <1>3, <3>1 DEF Close, Work
  <2> QED BY <1>1, <1>6, <2>1, ReadyFacts DEF WorkOf
<1>8. CleanOf(g)'
  <2>1. \A v \in Workflows : <<g, v>> \notin files => <<g, v>> \notin files'
    BY DEF Spares
  <2>2. ASSUME Doing(g, "cleanup"), flow[g].at \in {"confirm", "write"} PROVE Work(g) \notin remote'
    <3>1. Working(flow[g]) /\ Claimed(flow[g])
      BY <2>2 DEF Working, Claimed, Doing
    <3>2. Work(g) # 0 /\ held'[g] = Work(g)
      BY <1>1, <3>1, WorkingPlace, ReadyFacts DEF WorkOf
    <3>3. held'[h] # Work(g)
      <4>1. lease'[Work(g)] = Me(g)' /\ Me(g)' # Me(h)'
        BY <3>2 DEF HeldInv, Me
      <4> QED BY <3>2, <4>1 DEF HeldInv
    <3>4. Work(g) \notin remote
      BY <2>2, ReadyFacts DEF CleanOf
    <3> QED BY <3>3, <3>4 DEF Spares
  <2>3. ASSUME last[g] # 0 PROVE manifest'[last[g]].stage = "completed" /\ <<g, last[g]>> \notin files'
    <3>1. manifest[last[g]].stage = "completed" /\ <<g, last[g]>> \notin files /\ last[g] \in Workflows
      BY <1>3, <2>3, ReadyFacts DEF CleanOf
    <3>2. manifest[last[g]] \in Manifests /\ manifest'[last[g]] \in Manifests
      BY <3>1, ReadyFacts DEF LifecycleTypeOK, Workflows
    <3>3. manifest'[last[g]].stage = "completed"
      BY <3>1, <3>2, CompletedIsLast DEF Spares
    <3> QED BY <2>1, <3>1, <3>3
  <2>4. Doing(g, "cleanup") /\ flow[g].at \in {"remote", "confirm", "write"} => Work(g) \in Workflows
    BY WorkingPlace DEF Working, Doing
  <2>5. Doing(g, "cleanup") /\ flow[g].at \in {"remote", "confirm", "write"} => <<g, Work(g)>> \notin files'
    BY <2>1, <2>4, ReadyFacts DEF CleanOf
  <2> QED BY <1>1, <1>6, <2>2, <2>3, <2>5 DEF CleanOf
<1> QED BY <1>4, <1>5, <1>7, <1>8 DEF HomeOf

LEMMA LapseKeeps ==
  ASSUME Ready, NEW w \in Workflows, LapseLease(w)
  PROVE  AuthorityInv'
<1>1. UNCHANGED <<session, manifest, held, cache, last, unit, flow, poll, files, remote>>
  BY DEF LapseLease, tracker, artifacts, memory, counts
<1>2. \A h \in Homes : held[h] # 0 => held[h] # w
  BY DEF Ready, Undisturbed, LapseLease, Kept, AuthorityInv, HeldInv
<1>3. HeldInv'
  <2>1. ASSUME NEW h \in Homes, held[h] # 0 PROVE lease'[held[h]] = Me(h)
    <3>1. held[h] \in 0..MaxWorkflows
      BY ReadyFacts DEF LifecycleTypeOK
    <3>2. held[h] \in Workflows
      BY <2>1, <3>1 DEF Workflows
    <3>3. lease[held[h]] = Me(h)
      BY <2>1, ReadyFacts DEF HeldInv
    <3> QED BY <1>2, <2>1, <3>2, <3>3, ReadyFacts DEF LapseLease, LifecycleTypeOK
  <2> QED BY <1>1, <2>1 DEF HeldInv, Me
<1>4. ASSUME NEW h \in Homes PROVE HomeOf(h)'
  <2>1. RouteOf(h)' /\ ReadsOf(h)'
    BY <1>1, ReadyFacts DEF RouteOf, ReadsOf, Close, Fresh
  <2>2. WorkOf(h)' /\ CleanOf(h)'
    BY <1>1, ReadyFacts DEF WorkOf, CleanOf, Close, Doing, Work
  <2> QED BY <2>1, <2>2 DEF HomeOf
<1> QED BY <1>1, <1>3, <1>4 DEF Ready, AuthorityInv, Workflows

LEMMA AuthorityStep ==
  ASSUME Ready, LifecycleInv', [LifecycleNext]_vars
  PROVE  AuthorityInv'
<1>0. LifecycleTypeOK'
  BY DEF LifecycleInv, TypeInv
<1>1. ASSUME NEW h \in Homes, Acts(h) PROVE AuthorityInv'
  <2>1. Keeps(h)
    BY <1>0, <1>1, ActsKeeps
  <2>2. \A g \in Homes : HomeOf(g)'
    BY <1>0, <1>1, <2>1, OthersKeep DEF Keeps
  <2> QED BY <2>1, <2>2 DEF Keeps, Spares, AuthorityInv, Workflows
<1>2. ASSUME NEW w \in Workflows, LapseLease(w) PROVE AuthorityInv'
  BY <1>2, LapseKeeps
<1>3. CASE UNCHANGED vars
  <2>1. UNCHANGED <<session, lease, manifest, held, cache, last, unit, flow, poll, files, remote>>
    BY <1>3 DEF vars, tracker, artifacts, authority, memory, counts
  <2>2. ASSUME NEW h \in Homes PROVE HomeOf(h)'
    <3>1. RouteOf(h)' /\ ReadsOf(h)'
      BY <2>1, ReadyFacts DEF RouteOf, ReadsOf, Close, Fresh
    <3>2. WorkOf(h)' /\ CleanOf(h)'
      BY <2>1, ReadyFacts DEF WorkOf, CleanOf, Close, Doing, Work
    <3> QED BY <3>1, <3>2 DEF HomeOf
  <2>3. HeldInv'
    BY <2>1 DEF Ready, AuthorityInv, HeldInv, Me
  <2> QED BY <2>1, <2>2, <2>3 DEF Ready, AuthorityInv, Workflows
<1> QED BY <1>1, <1>2, <1>3 DEF LifecycleNext, Acts

LEMMA InitAuthority == LifecycleInit => AuthorityInv
<1> SUFFICES ASSUME LifecycleInit PROVE AuthorityInv
  OBVIOUS
<1>1. HeldInv /\ \A w \in Workflows : w \notin remote
  BY DEF LifecycleInit, HeldInv
<1>2. ASSUME NEW h \in Homes PROVE HomeOf(h)
  <2>1. flow[h] = Idle /\ cache[h] = NoRoute /\ poll[h] = NoPoll /\ last[h] = 0
    BY DEF LifecycleInit
  <2>2. /\ Idle.at = "idle" /\ Idle.cmd = "none" /\ Idle.seen = {}
        /\ NoRoute.kind # "bound" /\ NoPoll.seen = {}
    BY DEF Idle, NoRoute, NoPoll
  <2>3. ~Working(flow[h]) /\ ~Claimed(flow[h])
    BY <2>1, <2>2 DEF Working, Claimed
  <2> QED BY <2>1, <2>2, <2>3 DEF HomeOf, RouteOf, ReadsOf, WorkOf, CleanOf, Doing
<1> QED BY <1>1, <1>2 DEF AuthorityInv

\* No write goes back.
LEMMA StepsGoOn ==
  ASSUME Ready, LifecycleInv', [LifecycleNext]_vars, NEW w \in Workflows
  PROVE  Later(manifest[w], manifest'[w])
<1>0. LifecycleTypeOK' /\ LifecycleTypeOK
  BY DEF Ready, LifecycleInv, TypeInv
<1>1. Later(manifest[w], manifest[w])
  <2>1. manifest[w] \in Manifests
    BY <1>0 DEF LifecycleTypeOK
  <2>2. manifest[w].stage \in StageNames
    BY <2>1, ManifestType
  <2> QED BY <2>2, StageRank DEF Later, StageNames
<1>2. ASSUME NEW h \in Homes, Acts(h) PROVE Later(manifest[w], manifest'[w])
  <2>1. Spares(h)
    BY <1>0, <1>2, ActsKeeps DEF Keeps
  <2> QED BY <1>1, <2>1 DEF Spares
<1>3. ASSUME NEW v \in Workflows, LapseLease(v) PROVE UNCHANGED manifest
  BY <1>3 DEF LapseLease, tracker
<1>4. CASE UNCHANGED manifest
  BY <1>1, <1>4
<1>5. UNCHANGED vars => UNCHANGED manifest
  BY DEF vars, tracker
<1> QED BY <1>2, <1>3, <1>4, <1>5 DEF LifecycleNext, Acts

LEMMA AuthorityIsClean == AuthorityInv => CompletedIsClean
<1> SUFFICES ASSUME AuthorityInv, NEW w \in Workflows, manifest[w].stage = "completed"
             PROVE  w \notin remote /\ \A h \in Homes : last[h] = w => <<h, w>> \notin files
  BY DEF CompletedIsClean
<1>1. w \notin remote
  BY DEF AuthorityInv
<1>2. ASSUME NEW h \in Homes, last[h] = w PROVE <<h, w>> \notin files
  <2>1. w # 0
    BY DEF Workflows
  <2> QED BY <1>2, <2>1 DEF AuthorityInv, HomeOf, CleanOf
<1> QED BY <1>1, <1>2

\* While leases last and no copy is overtaken before its lease is acquired, what
\* a home holds the tracker agrees with: the copies of the workflow whose lease
\* is held are current but for a write whose answer was lost
\* (ensureActiveWorkflowCoordinatorLease, loadWorkflowHomeRoute).
THEOREM LeaseMakesCurrent ==
  ASSUME Undisturbed
  PROVE  LifecycleSpec => []AuthorityInv
<1>1. LifecycleInit => LifecycleInv /\ AuthorityInv
  BY InitInv, InitAuthority
<1>2. LifecycleInv /\ AuthorityInv /\ [LifecycleNext]_vars => (LifecycleInv /\ AuthorityInv)'
  BY InvStep, AuthorityStep DEF Ready
<1> QED BY <1>1, <1>2, PTL DEF LifecycleSpec

\* A workflow that is marked completed has no branch on the remote, and none in
\* the home that completed it, however often its cleanup broke off and whichever
\* home did the rest (cleanupMergedWorkflow).
THEOREM CompletedWorkflowsAreClean ==
  ASSUME Undisturbed
  PROVE  LifecycleSpec => []CompletedIsClean
<1> QED BY LeaseMakesCurrent, AuthorityIsClean, PTL

\* No manifest write undoes another, for any number of homes: a command writes
\* from a copy that was current when its lease was acquired, and while it holds
\* the lease only its own writes, the lost ones included, come in between
\* (manifestFromActive, the retries of a failed write).
THEOREM WritesGoOn ==
  ASSUME Undisturbed
  PROVE  LifecycleSpec => NothingIsUndone
<1>1. LifecycleInit => LifecycleInv /\ AuthorityInv
  BY InitInv, InitAuthority
<1>2. LifecycleInv /\ AuthorityInv /\ [LifecycleNext]_vars => (LifecycleInv /\ AuthorityInv)'
  BY InvStep, AuthorityStep DEF Ready
<1>3. LifecycleInv /\ AuthorityInv /\ [LifecycleNext]_vars =>
        [\A w \in Workflows : /\ Rank(manifest[w].stage) <= Rank(manifest'[w].stage)
                              /\ manifest[w].integrated \subseteq manifest'[w].integrated]_vars
  <2> SUFFICES ASSUME LifecycleInv, AuthorityInv, LifecycleNext
               PROVE  \A w \in Workflows : /\ Rank(manifest[w].stage) <= Rank(manifest'[w].stage)
                                           /\ manifest[w].integrated \subseteq manifest'[w].integrated
    OBVIOUS
  <2>1. Ready /\ LifecycleInv'
    BY InvStep DEF Ready
  <2> QED BY <2>1, StepsGoOn DEF Later
<1> QED BY <1>1, <1>2, <1>3, PTL DEF LifecycleSpec, NothingIsUndone
=============================================================================
