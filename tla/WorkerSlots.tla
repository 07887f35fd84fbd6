---------------------------- MODULE WorkerSlots ----------------------------
(***************************************************************************)
(* How the Workflow homes of one repository share its Implementation       *)
(* workers (src/src/coordinator.ts: acquireRepositoryWorkerSlot and the    *)
(* slot heartbeats; src/src/worker-capacity.ts: the plan).                 *)
(*                                                                         *)
(* Each running worker is covered by the lease of a numbered slot.  A home *)
(* that wants one takes the repository-scheduler lease, reads what every   *)
(* workflow has ready and which slots are leased, plans, renews the        *)
(* scheduler lease, and takes the first free slot if its own ticket is     *)
(* first in a fair order.  Beside that, heartbeats renew, release and      *)
(* abandon slots.                                                          *)
(*                                                                         *)
(* The leases behave as CoordinationLease shows: one is granted only over  *)
(* one that is not live, with a new fencing token, and one that is not     *)
(* live is neither renewed nor verified.  A home drives one workflow; a    *)
(* new session of it is a new holder.  Whoever runs the workflow of a dead *)
(* session again is its next session.                                      *)
(***************************************************************************)
EXTENDS Integers, FiniteSets

CONSTANTS Homes,       \* the workflows, and their homes
          Tickets,     \* their ticket numbers
          Seed,        \* the concurrency each home is configured for
          MaxSessions, \* bound on the sessions of a home
          LaunchIsPrompt, \* bound: no slot is lost between its grant and its launch
          MaxToken,    \* bound on the fencing tokens of a slot
          MaxFaults    \* bound on failures, lost answers and lost leases

ASSUME SlotsAssumption ==
  /\ Homes \subseteq Nat \ {0} /\ IsFiniteSet(Homes)
  /\ Tickets \in [Homes -> SUBSET (Nat \ {0})]
  /\ Seed \in [Homes -> Nat \ {0}]
  /\ LaunchIsPrompt \in BOOLEAN
  /\ MaxSessions \in Nat \ {0} /\ MaxToken \in Nat \ {0} /\ MaxFaults \in Nat

VARIABLES capacity,  \* the worker-capacity policy of the repository, or 0
          scheduler, \* the repository-scheduler lease
          slot,      \* the worker-slot leases
          session,   \* the session each home is in
          flow,      \* where startImplementation of each home is
          held,      \* heldWorkerSlots
          worker,    \* activeImplementationWorkers
          process,   \* the workers' processes
          done,      \* tickets that are no longer ready
          faults

leases == <<capacity, scheduler, slot>>
workers == <<held, worker, process, done>>
vars == <<leases, session, flow, workers, faults>>

Work == {<<h, t>> : h \in Homes, t \in UNION {Tickets[g] : g \in Homes}}
Owns(w) == w[2] \in Tickets[w[1]]
Sessions == Homes \X (1..MaxSessions)
Slots == UNION {1..Seed[h] : h \in Homes}
Nobody == <<0, 0>>
NoSlot == [slot |-> 0, token |-> 0]
NoLease == [token |-> 0, holder |-> Nobody, work |-> Nobody, live |-> FALSE]
Free == [holder |-> Nobody, live |-> FALSE]
Idle == [at |-> "idle", ticket |-> 0, ready |-> {}, seen |-> {}, slot |-> NoSlot]
Places == {"idle", "verify", "policy", "scheduler", "demands", "leases", "renew", "grant",
           "release", "register", "launch"}
Grants == [slot : Slots \cup {0}, token : 0..MaxToken]
Leased == [slot : Slots, token : 0..MaxToken, work : Work \cup {Nobody}]
Flows == [at : Places, ticket : Nat, ready : SUBSET Work, seen : SUBSET Leased, slot : Grants]

SlotsTypeOK ==
  /\ capacity \in Slots \cup {0}
  /\ scheduler \in [holder : Sessions \cup {Nobody}, live : BOOLEAN]
  /\ slot \in [Slots -> [token : 0..MaxToken, holder : Sessions \cup {Nobody},
                         work : Work \cup {Nobody}, live : BOOLEAN]]
  /\ session \in [Homes -> 1..MaxSessions]
  /\ flow \in [Homes -> Flows]
  /\ \A h \in Homes : flow[h].ticket \in Tickets[h] \cup {0}
  /\ held \in [Work -> Grants]
  /\ worker \in [Work -> {"none", "starting", "running"}]
  /\ process \in [Work -> {"none", "alive", "completed", "failed"}]
  /\ done \subseteq Work
  /\ faults \in 0..MaxFaults

SlotsInit ==
  /\ capacity = 0 /\ scheduler = Free
  /\ slot = [s \in Slots |-> NoLease]
  /\ session = [h \in Homes |-> 1]
  /\ flow = [h \in Homes |-> Idle]
  /\ held = [w \in Work |-> NoSlot]
  /\ worker = [w \in Work |-> "none"]
  /\ process = [w \in Work |-> "none"]
  /\ done = {}
  /\ faults = 0

Well == UNCHANGED faults
Fault == faults < MaxFaults /\ faults' = faults + 1

Me(h) == <<h, session[h]>>
Go(h, at) == flow' = [flow EXCEPT ![h].at = at]
Stop(h) == flow' = [flow EXCEPT ![h] = Idle]
Own(h, w) == w[1] = h

(***************************************************************************)
(* The plan                                                                *)
(***************************************************************************)

\* repositoryWorkerDemands: what each workflow has ready.
Ready == {w \in Work : Owns(w) /\ w \notin done}

\* The worker-slot leases that are live.
Live == {s \in Slots : slot[s].live}
Observed == {[slot |-> s, token |-> slot[s].token, work |-> slot[s].work] : s \in Live}

\* Mutant: a ticket that a live lease names is planned again.
ClaimableTwice(ready, seen) ==
  LET share(h) == Cardinality({o \in seen : o.work[1] = h})
  IN {w \in ready : /\ \A v \in ready : v[1] = w[1] => w[2] <= v[2]
                    /\ \A v \in ready : share(w[1]) <= share(v[1])}

\* planRepositoryWorkerSlots: of the workflows that want a slot, those that
\* have the fewest may claim the next one, each for its first ticket.
Claimable(ready, seen) ==
  LET wanted == {w \in ready : \A o \in seen : o.work # w}
      share(h) == Cardinality({o \in seen : o.work[1] = h})
  IN {w \in wanted : /\ \A v \in wanted : v[1] = w[1] => w[2] <= v[2]
                     /\ \A v \in wanted : share(w[1]) <= share(v[1])}

FreeSlots(seen) == {s \in Slots : s <= capacity /\ \A o \in seen : o.slot # s}

(***************************************************************************)
(* Held slots                                                              *)
(***************************************************************************)

Current(g) == g.slot # 0 /\ slot[g.slot].token = g.token /\ slot[g.slot].live

\* releaseHeldWorkerSlot: the release may not reach the remote.
ReleaseSlots(G) ==
  \/ slot' = [s \in Slots |-> IF \E g \in G : g.slot = s /\ Current(g)
                              THEN [slot[s] EXCEPT !.live = FALSE] ELSE slot[s]]
     /\ Well
  \/ (\E g \in G : Current(g)) /\ UNCHANGED slot /\ Fault

\* Mutant: a worker whose process is not known to run has lost it.
GoneUnlessAlive(w) == process[w] # "alive"

\* A process is gone when it was seen and is not alive; in the launch window
\* there is none yet.
Gone(w) == process[w] \in {"completed", "failed"}

\* abandonLostWorkerSlot: the worker is aborted and forgotten.
Abandon(W) ==
  /\ held' = [w \in Work |-> IF w \in W THEN NoSlot ELSE held[w]]
  /\ worker' = [w \in Work |-> IF w \in W THEN "none" ELSE worker[w]]
  /\ process' = [w \in Work |-> IF w \in W THEN "none" ELSE process[w]]

\* heartbeatHeldWorkerSlots, for one slot: a renewal that succeeds changes
\* nothing here, and one that throws proves nothing.
Heartbeat(w) ==
  /\ held[w] # NoSlot
  /\ \/ /\ worker[w] = "none" \/ Gone(w)
        /\ held' = [held EXCEPT ![w] = NoSlot]
        /\ ReleaseSlots({held[w]})
        /\ UNCHANGED <<worker, process>>
     \/ /\ worker[w] # "none" /\ ~Gone(w)
        /\ LaunchIsPrompt => worker[w] # "starting"
        /\ Abandon({w}) /\ UNCHANGED slot
        /\ IF Current(held[w]) THEN Fault ELSE Well
  /\ UNCHANGED <<capacity, scheduler, session, flow, done>>

\* Lost in a verification: what a home holds and is not current.
Lost(h) == {w \in Work : Own(h, w) /\ held[w] # NoSlot /\ ~Current(held[w])}

(***************************************************************************)
(* startImplementation of one ticket                                       *)
(***************************************************************************)

\* nextActions offers what a preview of the plan lets it claim.
Begin(h, t) ==
  /\ flow[h].at = "idle"
  /\ <<h, t>> \in Claimable(Ready, Observed) /\ worker[<<h, t>>] = "none"
  /\ capacity = 0 \/ FreeSlots(Observed) # {}
  /\ flow' = [flow EXCEPT ![h] = [Idle EXCEPT !.at = "verify", !.ticket = t]]
  /\ Well
  /\ UNCHANGED <<leases, session, workers>>

VerifyHeld(h) ==
  /\ flow[h].at = "verify"
  /\ Abandon(Lost(h))
  /\ Go(h, "policy")
  /\ Well
  /\ UNCHANGED <<leases, session, done>>

\* Mutant: every home adds its own concurrency to the policy.
EnsurePolicyAdded(h) ==
  /\ flow[h].at = "policy"
  /\ capacity' = capacity + Seed[h]
  /\ Go(h, "scheduler")
  /\ Well
  /\ UNCHANGED <<scheduler, slot, session, workers>>

\* Mutant: the home's own concurrency overwrites the policy.
EnsurePolicyAnew(h) ==
  /\ flow[h].at = "policy"
  /\ capacity' = Seed[h]
  /\ Go(h, "scheduler")
  /\ Well
  /\ UNCHANGED <<scheduler, slot, session, workers>>

\* ensureWorkerCapacityPolicy: the first home seeds it.
EnsurePolicy(h) ==
  /\ flow[h].at = "policy"
  /\ capacity' = IF capacity = 0 THEN Seed[h] ELSE capacity
  /\ Go(h, "scheduler")
  /\ Well
  /\ UNCHANGED <<scheduler, slot, session, workers>>

\* acquireRepositorySchedulerLease: after 25 tries it gives up.
AcquireScheduler(h) ==
  /\ flow[h].at = "scheduler"
  /\ \/ /\ ~scheduler.live /\ scheduler' = [holder |-> Me(h), live |-> TRUE]
        /\ (Go(h, "demands") /\ Well) \/ (Stop(h) /\ Fault)
     \/ scheduler.live /\ UNCHANGED scheduler /\ Stop(h) /\ Well
  /\ UNCHANGED <<capacity, slot, session, workers>>

ReadDemands(h) ==
  /\ flow[h].at = "demands"
  /\ flow' = [flow EXCEPT ![h] = [@ EXCEPT !.at = "leases", !.ready = Ready]]
  /\ Well
  /\ UNCHANGED <<leases, session, workers>>

ReadLeases(h) ==
  /\ flow[h].at = "leases"
  /\ flow' = [flow EXCEPT ![h] = [@ EXCEPT !.at = "renew", !.seen = Observed]]
  /\ Well
  /\ UNCHANGED <<leases, session, workers>>

HasScheduler(h) == scheduler = [holder |-> Me(h), live |-> TRUE]

\* Mutant: the plan is used whether or not the scheduler lease was renewed.
RenewSchedulerUnheeded(h) ==
  /\ flow[h].at = "renew"
  /\ Go(h, "grant")
  /\ Well
  /\ UNCHANGED <<leases, session, workers>>

RenewScheduler(h) ==
  /\ flow[h].at = "renew"
  /\ IF HasScheduler(h) THEN Go(h, "grant") ELSE Stop(h)
  /\ Well
  /\ UNCHANGED <<leases, session, workers>>

\* The first free slot, if the home's ticket may claim one.
Claims(h) == <<h, flow[h].ticket>> \in Claimable(flow[h].ready, flow[h].seen)
Grantable(h) ==
  {s \in FreeSlots(flow[h].seen) : Claims(h) /\ \A r \in FreeSlots(flow[h].seen) : s <= r}

\* That slot is acquired unless it was taken since; an answer that is lost
\* counts as a refusal.
GrantSlot(h) ==
  /\ flow[h].at = "grant"
  /\ \/ \E s \in Grantable(h) :
          LET token == slot[s].token + 1
          IN /\ ~slot[s].live /\ token <= MaxToken
             /\ slot' = [slot EXCEPT ![s] = [token |-> token, holder |-> Me(h), live |-> TRUE,
                                             work |-> <<h, flow[h].ticket>>]]
             /\ \/ Well /\ flow' = [flow EXCEPT ![h].at = "release",
                                                ![h].slot = [slot |-> s, token |-> token]]
                \/ Fault /\ Go(h, "release")
     \/ /\ \A s \in Grantable(h) : slot[s].live
        /\ Go(h, "release") /\ Well /\ UNCHANGED slot
  /\ UNCHANGED <<capacity, scheduler, session, workers>>

ReleaseScheduler(h) ==
  /\ flow[h].at = "release"
  /\ \/ HasScheduler(h) /\ scheduler' = Free /\ Well
     \/ UNCHANGED scheduler /\ IF HasScheduler(h) THEN Fault ELSE Well
  /\ IF flow[h].slot = NoSlot THEN Stop(h) ELSE Go(h, "register")
  /\ UNCHANGED <<capacity, slot, session, workers>>

\* activeImplementationWorkers.set, holdWorkerSlot
RegisterWorker(h) ==
  /\ flow[h].at = "register"
  /\ LET w == <<h, flow[h].ticket>>
     IN /\ worker' = [worker EXCEPT ![w] = "starting"]
        /\ held' = [held EXCEPT ![w] = flow[h].slot]
        /\ process' = [process EXCEPT ![w] = IF @ = "alive" THEN @ ELSE "none"]
  /\ Go(h, "launch")
  /\ Well
  /\ UNCHANGED <<leases, session, done>>

\* Mutant: a launch that fails leaves the worker registered.
LaunchWorkerForgotten(h) ==
  /\ flow[h].at = "launch"
  /\ LET w == <<h, flow[h].ticket>>
     IN \/ /\ process[w] # "alive"
           /\ process' = [process EXCEPT ![w] = "alive"]
           /\ worker' = [worker EXCEPT ![w] = IF @ = "none" THEN "none" ELSE "running"]
           /\ Well /\ UNCHANGED <<held, slot>>
        \/ /\ held' = [held EXCEPT ![w] = NoSlot]
           /\ IF process[w] = "alive" THEN Well ELSE Fault
           /\ UNCHANGED <<worker, process, slot>>
  /\ Stop(h)
  /\ UNCHANGED <<capacity, scheduler, session, done>>

\* A worker that was abandoned meanwhile is launched all the same; one whose
\* process still runs is not.
LaunchWorker(h) ==
  /\ flow[h].at = "launch"
  /\ LET w == <<h, flow[h].ticket>>
     IN \/ /\ process[w] # "alive"
           /\ process' = [process EXCEPT ![w] = "alive"]
           /\ worker' = [worker EXCEPT ![w] = IF @ = "none" THEN "none" ELSE "running"]
           /\ Well /\ UNCHANGED <<held, slot>>
        \/ /\ worker' = [worker EXCEPT ![w] = "none"]
           /\ held' = [held EXCEPT ![w] = NoSlot]
           /\ IF process[w] = "alive" THEN Well ELSE Fault
           /\ slot' = [s \in Slots |-> IF held[w].slot = s /\ Current(held[w])
                                       THEN [slot[s] EXCEPT !.live = FALSE] ELSE slot[s]]
           /\ UNCHANGED process
  /\ Stop(h)
  /\ UNCHANGED <<capacity, scheduler, session, done>>

(***************************************************************************)
(* Workers, sessions and time                                              *)
(***************************************************************************)

\* The events of a worker that is not registered are dropped.
EndProcess(w, outcome) ==
  /\ process[w] = "alive"
  /\ process' = [process EXCEPT ![w] = IF worker[w] = "none" THEN "none" ELSE outcome]
  /\ IF outcome = "failed" THEN Fault ELSE Well
  /\ UNCHANGED <<leases, session, flow, held, worker, done>>

\* handleWorkerEvent: what was lost is abandoned first, with its result.
HandleResult(w) ==
  /\ worker[w] = "running" /\ Gone(w)
  /\ IF held[w] # NoSlot /\ ~Current(held[w])
     THEN Abandon({w}) /\ UNCHANGED <<slot, done>> /\ Well
     ELSE /\ done' = done \cup (IF process[w] = "completed" THEN {w} ELSE {})
          /\ Abandon({w})
          /\ ReleaseSlots({held[w]})
  /\ UNCHANGED <<capacity, scheduler, session, flow>>

\* The session ends, and the workers with it.
Crash(h) ==
  /\ session[h] < MaxSessions
  /\ session' = [session EXCEPT ![h] = @ + 1]
  /\ Stop(h)
  /\ Abandon({w \in Work : Own(h, w)})
  /\ Well
  /\ UNCHANGED <<leases, done>>

\* What nobody renews expires; what its home still relies on does so only when
\* the home is late.
Launching(s) == \E h \in Homes : flow[h].slot = [slot |-> s, token |-> slot[s].token]
Relied(s) == Launching(s) \/ \E w \in Work : held[w] = [slot |-> s, token |-> slot[s].token]
LapseSlot(s) ==
  /\ slot[s].live
  /\ LaunchIsPrompt => ~Launching(s)
  /\ slot' = [slot EXCEPT ![s].live = FALSE]
  /\ IF Relied(s) THEN Fault ELSE Well
  /\ UNCHANGED <<capacity, scheduler, session, flow, workers>>

\* The scheduler lease was renewed just before the slot is acquired, and is
\* taken to outlast that call.
LapseScheduler ==
  /\ scheduler.live
  /\ \A h \in Homes : HasScheduler(h) => flow[h].at # "grant"
  /\ scheduler' = [scheduler EXCEPT !.live = FALSE]
  /\ IF \E h \in Homes : HasScheduler(h) /\ flow[h].at \in {"demands", "leases", "renew", "release"}
     THEN Fault ELSE Well
  /\ UNCHANGED <<capacity, slot, session, flow, workers>>

(***************************************************************************)
(* Specification                                                           *)
(***************************************************************************)

Allocate(h) ==
  \/ VerifyHeld(h) \/ EnsurePolicy(h) \/ AcquireScheduler(h) \/ ReadDemands(h) \/ ReadLeases(h)
  \/ RenewScheduler(h) \/ GrantSlot(h) \/ ReleaseScheduler(h) \/ RegisterWorker(h)
  \/ LaunchWorker(h)

SlotsNext ==
  \/ \E h \in Homes : Allocate(h) \/ Crash(h) \/ \E t \in Tickets[h] : Begin(h, t)
  \/ \E w \in Work : \/ Heartbeat(w) \/ HandleResult(w)
                     \/ \E outcome \in {"completed", "failed"} : EndProcess(w, outcome)
  \/ \E s \in Slots : LapseSlot(s)
  \/ LapseScheduler

SlotsSpec == SlotsInit /\ [][SlotsNext]_vars

\* Calls return, timers fire, workers end, and what nobody renews expires; a
\* home asks again and again, and meets the scheduler lease free at times.
SlotsFairness ==
  /\ \A h \in Homes : /\ WF_vars(Allocate(h)) /\ SF_vars(AcquireScheduler(h) /\ flow'[h].at = "demands")
                      /\ \A t \in Tickets[h] : SF_vars(Begin(h, t))
  /\ \A w \in Work : WF_vars(Heartbeat(w)) /\ WF_vars(HandleResult(w)) /\ WF_vars(EndProcess(w, "completed"))
  /\ \A s \in Slots : WF_vars(LapseSlot(s) /\ ~Relied(s))
  /\ WF_vars(LapseScheduler)
SlotsLiveSpec == SlotsSpec /\ SlotsFairness

(***************************************************************************)
(* Properties                                                              *)
(***************************************************************************)

\* No two live leases are for the same ticket, also when the answer to an
\* acquisition was lost or the session that made it is gone: "a stale frontier
\* cannot schedule the same ticket twice" (worker-capacity.ts:82).
NoTicketInTwoSlots ==
  \A r, s \in Slots : slot[r].live /\ slot[s].live /\ slot[r].work = slot[s].work => r = s

\* The repository never has more live slots than its policy allows, whatever
\* concurrency the homes are configured for.
WithinCapacity == Cardinality(Live) <= capacity

\* "A running process must never continue to be treated as scheduled after its
\* remote worker-slot fence changes" (coordinator.ts:5488): a process runs only
\* while its home keeps a slot for it.  Neither a heartbeat in the launch window
\* nor a lost slot, an event or a crash drops the slot before the process.
ProcessHasSlot == \A w \in Work : process[w] = "alive" => held[w] # NoSlot

\* Allocations are serial: when a slot is granted, every live lease was seen by
\* the plan that grants it, so no share was counted too low.
GrantsAreSerial ==
  [][\A h \in Homes : flow[h].at = "grant" /\ slot' # slot /\ flow'[h].at = "release" =>
       Observed \subseteq flow[h].seen]_vars

\* Every ticket is implemented: the slots and the scheduler lease of homes that
\* died, or lost an answer, come back, and fair shares starve nobody.
EveryTicketIsImplemented == <>[](\A w \in Work : Owns(w) => w \in done)
=============================================================================
