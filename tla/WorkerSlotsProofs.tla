-------------------------- MODULE WorkerSlotsProofs --------------------------
(***************************************************************************)
(* Theorems about WorkerSlots, for every set of workflows, tickets and     *)
(* concurrencies, and for every bound.  Allocations are serial because a   *)
(* plan is used only under the scheduler lease it was made under; that no  *)
(* ticket has two slots and that the policy is kept follow.                *)
(***************************************************************************)
EXTENDS WorkerSlots, FiniteSetTheorems, TLAPS

\* A live slot is one the policy allows.
PolicyInv == \A s \in Slots : slot[s].live => s <= capacity

\* While a home has the scheduler lease its plan knows every live slot; it
\* grants only while it has it.
SerialInv ==
  \A h \in Homes :
    /\ flow[h].at = "grant" => HasScheduler(h)
    /\ flow[h].at \in {"renew", "grant"} /\ HasScheduler(h) => Observed \subseteq flow[h].seen

SlotsInv == SlotsTypeOK /\ PolicyInv /\ SerialInv /\ NoTicketInTwoSlots

USE SlotsAssumption

(***************************************************************************)
(* Types                                                                   *)
(***************************************************************************)

LEMMA ConstantTypes ==
  /\ NoSlot \in Grants
  /\ Idle \in Flows
  /\ Free \in [holder : Sessions \cup {Nobody}, live : BOOLEAN]
  /\ NoLease \in [token : 0..MaxToken, holder : Sessions \cup {Nobody},
                  work : Work \cup {Nobody}, live : BOOLEAN]
BY DEF NoSlot, Grants, Idle, Flows, Places, Free, NoLease

LEMMA InitType == SlotsInit => SlotsTypeOK
<1> SUFFICES ASSUME SlotsInit PROVE SlotsTypeOK
  OBVIOUS
<1>1. \A h \in Homes : flow[h].ticket \in Tickets[h] \cup {0}
  BY DEF SlotsInit, Idle
<1> QED
  BY <1>1, ConstantTypes DEF SlotsInit, SlotsTypeOK

\* Who a home is, and the tickets a workflow has.
LEMMA Identity ==
  ASSUME SlotsTypeOK, NEW h \in Homes
  PROVE  /\ Me(h) \in Sessions
         /\ Seed[h] \in Slots
         /\ Tickets[h] \subseteq Nat
         /\ \A t \in Tickets[h] : <<h, t>> \in Work
         /\ \A g \in Homes : Me(g) = Me(h) => g = h
         /\ Nobody \notin Sessions
BY DEF SlotsTypeOK, Me, Sessions, Slots, Work, Nobody

\* A fault is counted up to its bound.
LEMMA FaultType ==
  ASSUME SlotsTypeOK, Well \/ Fault
  PROVE  faults' \in 0..MaxFaults
BY DEF SlotsTypeOK, Well, Fault

\* A step that changes nothing but where a home is keeps the types.
LEMMA GoType ==
  ASSUME SlotsTypeOK, NEW h \in Homes, Well \/ Fault,
         Stop(h) \/ \E at \in Places : Go(h, at)
  PROVE  /\ flow' \in [Homes -> Flows]
         /\ \A g \in Homes : flow'[g].ticket \in Tickets[g] \cup {0}
         /\ faults' \in 0..MaxFaults
<1>1. faults' \in 0..MaxFaults
  BY FaultType
<1>2. CASE Stop(h)
  <2>1. Idle \in Flows /\ Idle.ticket = 0
    BY ConstantTypes DEF Idle
  <2> QED BY <1>1, <1>2, <2>1 DEF Stop, SlotsTypeOK
<1>3. CASE \E at \in Places : Go(h, at)
  <2>1. PICK at \in Places : Go(h, at)
    BY <1>3
  <2>2. flow[h] \in Flows
    BY DEF SlotsTypeOK
  <2>3. [flow[h] EXCEPT !.at = at] \in Flows /\ [flow[h] EXCEPT !.at = at].ticket = flow[h].ticket
    BY <2>2 DEF Flows
  <2>4. flow' = [flow EXCEPT ![h] = [flow[h] EXCEPT !.at = at]]
    BY <2>1 DEF Go
  <2> QED BY <1>1, <2>3, <2>4 DEF SlotsTypeOK
<1> QED BY <1>2, <1>3

LeaseType == [token : 0..MaxToken, holder : Sessions \cup {Nobody},
              work : Work \cup {Nobody}, live : BOOLEAN]

LEMMA AbandonType ==
  ASSUME SlotsTypeOK, NEW W, Abandon(W)
  PROVE  /\ held' \in [Work -> Grants]
         /\ worker' \in [Work -> {"none", "starting", "running"}]
         /\ process' \in [Work -> {"none", "alive", "completed", "failed"}]
BY ConstantTypes DEF SlotsTypeOK, Abandon

LEMMA LapsedType ==
  ASSUME SlotsTypeOK, NEW s \in Slots
  PROVE  [slot[s] EXCEPT !.live = FALSE] \in LeaseType /\ slot[s] \in LeaseType
<1>1. slot[s] \in LeaseType
  BY DEF SlotsTypeOK, LeaseType
<1> QED BY <1>1 DEF LeaseType

LEMMA ReleaseType ==
  ASSUME SlotsTypeOK, NEW G, ReleaseSlots(G)
  PROVE  slot' \in [Slots -> LeaseType] /\ faults' \in 0..MaxFaults
<1>1. faults' \in 0..MaxFaults
  BY FaultType DEF ReleaseSlots
<1>2. slot \in [Slots -> LeaseType]
  BY DEF SlotsTypeOK, LeaseType
<1> QED BY <1>1, <1>2, LapsedType DEF ReleaseSlots

\* What is read of the leases has the type of what a plan remembers.
LEMMA ObservedType == ASSUME SlotsTypeOK PROVE Observed \in SUBSET Leased
<1>1. \A s \in Slots : slot[s].token \in 0..MaxToken /\ slot[s].work \in Work \cup {Nobody}
  BY DEF SlotsTypeOK
<1> QED BY <1>1 DEF Observed, Live, Leased

LEMMA TypeStep == SlotsTypeOK /\ [SlotsNext]_vars => SlotsTypeOK'
<1> SUFFICES ASSUME SlotsTypeOK, [SlotsNext]_vars PROVE SlotsTypeOK'
  OBVIOUS
<1> USE ConstantTypes
<1>1. ASSUME NEW h \in Homes, NEW t \in Tickets[h], Begin(h, t) PROVE SlotsTypeOK'
  <2>1. [Idle EXCEPT !.at = "verify", !.ticket = t] \in Flows
    BY <1>1, Identity DEF Flows, Places, Idle
  <2>2. [Idle EXCEPT !.at = "verify", !.ticket = t].ticket = t
    BY DEF Idle
  <2> QED BY <1>1, <2>1, <2>2 DEF Begin, SlotsTypeOK, leases, workers, Well
<1>2. ASSUME NEW h \in Homes, VerifyHeld(h) PROVE SlotsTypeOK'
  <2>1. PICK at \in Places : Go(h, at)
    BY <1>2 DEF VerifyHeld, Places
  <2> QED BY <1>2, <2>1, GoType, AbandonType DEF VerifyHeld, SlotsTypeOK, leases
<1>3. ASSUME NEW h \in Homes, EnsurePolicy(h) PROVE SlotsTypeOK'
  <2>1. PICK at \in Places : Go(h, at)
    BY <1>3 DEF EnsurePolicy, Places
  <2> QED BY <1>3, <2>1, GoType, Identity DEF EnsurePolicy, SlotsTypeOK, workers
<1>4. ASSUME NEW h \in Homes, AcquireScheduler(h) PROVE SlotsTypeOK'
  <2>1. Stop(h) \/ \E at \in Places : Go(h, at)
    BY <1>4 DEF AcquireScheduler, Places
  <2>2. Well \/ Fault
    BY <1>4 DEF AcquireScheduler
  <2>3. scheduler' \in [holder : Sessions \cup {Nobody}, live : BOOLEAN]
    <3>1. [holder |-> Me(h), live |-> TRUE] \in [holder : Sessions \cup {Nobody}, live : BOOLEAN]
      BY Identity
    <3> QED BY <1>4, <3>1 DEF AcquireScheduler, SlotsTypeOK
  <2> QED BY <1>4, <2>1, <2>2, <2>3, GoType DEF AcquireScheduler, SlotsTypeOK, workers
<1>5. ASSUME NEW h \in Homes, ReadDemands(h) PROVE SlotsTypeOK'
  <2>1. Ready \in SUBSET Work
    BY DEF Ready
  <2>2. flow[h] \in Flows
    BY DEF SlotsTypeOK
  <2>3. [flow[h] EXCEPT !.at = "leases", !.ready = Ready] \in Flows
    BY <2>1, <2>2 DEF Flows, Places
  <2>4. [flow[h] EXCEPT !.at = "leases", !.ready = Ready].ticket = flow[h].ticket
    BY <2>2 DEF Flows
  <2> QED BY <1>5, <2>3, <2>4 DEF ReadDemands, SlotsTypeOK, leases, workers, Well
<1>6. ASSUME NEW h \in Homes, ReadLeases(h) PROVE SlotsTypeOK'
  <2>2. flow[h] \in Flows
    BY DEF SlotsTypeOK
  <2>3. [flow[h] EXCEPT !.at = "renew", !.seen = Observed] \in Flows
    BY ObservedType, <2>2 DEF Flows, Places
  <2>4. [flow[h] EXCEPT !.at = "renew", !.seen = Observed].ticket = flow[h].ticket
    BY <2>2 DEF Flows
  <2> QED BY <1>6, <2>3, <2>4 DEF ReadLeases, SlotsTypeOK, leases, workers, Well
<1>7. ASSUME NEW h \in Homes, RenewScheduler(h) PROVE SlotsTypeOK'
  <2>1. Stop(h) \/ \E at \in Places : Go(h, at)
    BY <1>7 DEF RenewScheduler, Places
  <2> QED BY <1>7, <2>1, GoType DEF RenewScheduler, SlotsTypeOK, leases, workers
<1>8. ASSUME NEW h \in Homes, GrantSlot(h) PROVE SlotsTypeOK'
  <2>1. CASE /\ \A s \in Grantable(h) : slot[s].live
             /\ Go(h, "release") /\ Well /\ UNCHANGED slot
    <3>1. "release" \in Places
      BY DEF Places
    <3> QED BY <1>8, <2>1, <3>1, GoType DEF GrantSlot, SlotsTypeOK, workers
  <2>2. ASSUME NEW s \in Grantable(h), slot[s].token + 1 <= MaxToken,
               slot' = [slot EXCEPT ![s] = [token |-> slot[s].token + 1, holder |-> Me(h),
                                            live |-> TRUE, work |-> <<h, flow[h].ticket>>]],
               \/ Well /\ flow' = [flow EXCEPT ![h].at = "release",
                                               ![h].slot = [slot |-> s, token |-> slot[s].token + 1]]
               \/ Fault /\ Go(h, "release")
        PROVE  SlotsTypeOK'
    <3>1. s \in Slots /\ <<h, flow[h].ticket>> \in Work
      BY <2>2 DEF Grantable, FreeSlots, Claims, Claimable, SlotsTypeOK, Flows
    <3>2. slot[s].token + 1 \in 0..MaxToken
      BY <2>2, <3>1 DEF SlotsTypeOK
    <3>3. [token |-> slot[s].token + 1, holder |-> Me(h), live |-> TRUE,
           work |-> <<h, flow[h].ticket>>] \in LeaseType
      BY <3>1, <3>2, Identity DEF LeaseType
    <3>4. slot' \in [Slots -> LeaseType]
      BY <2>2, <3>3 DEF SlotsTypeOK, LeaseType
    <3>5. faults' \in 0..MaxFaults
      BY <2>2, FaultType
    <3>6. flow' \in [Homes -> Flows] /\ \A g \in Homes : flow'[g].ticket \in Tickets[g] \cup {0}
      <4>1. CASE Fault /\ Go(h, "release")
        <5>1. "release" \in Places
          BY DEF Places
        <5> QED BY <4>1, <5>1, GoType
      <4>2. CASE Well /\ flow' = [flow EXCEPT ![h].at = "release",
                                              ![h].slot = [slot |-> s, token |-> slot[s].token + 1]]
        <5>1. flow[h] \in Flows
          BY DEF SlotsTypeOK
        <5>2. [slot |-> s, token |-> slot[s].token + 1] \in Grants
          BY <3>1, <3>2 DEF Grants
        <5> DEFINE next == [flow[h] EXCEPT !.at = "release",
                                           !.slot = [slot |-> s, token |-> slot[s].token + 1]]
        <5>3. next \in Flows /\ next.ticket = flow[h].ticket
          BY <5>1, <5>2 DEF Flows, Places
        <5>4. flow' = [flow EXCEPT ![h] = next]
          BY <4>2, <5>1 DEF SlotsTypeOK, Flows
        <5> QED BY <5>3, <5>4 DEF SlotsTypeOK
      <4> QED BY <2>2, <4>1, <4>2
    <3> QED BY <1>8, <3>4, <3>5, <3>6 DEF GrantSlot, SlotsTypeOK, workers, LeaseType
  <2> QED BY <1>8, <2>1, <2>2 DEF GrantSlot
<1>9. ASSUME NEW h \in Homes, ReleaseScheduler(h) PROVE SlotsTypeOK'
  <2>1. Stop(h) \/ \E at \in Places : Go(h, at)
    BY <1>9 DEF ReleaseScheduler, Places
  <2>2. Well \/ Fault
    BY <1>9 DEF ReleaseScheduler
  <2> QED BY <1>9, <2>1, <2>2, GoType DEF ReleaseScheduler, SlotsTypeOK, workers
<1>10. ASSUME NEW h \in Homes, RegisterWorker(h) PROVE SlotsTypeOK'
  <2>1. "launch" \in Places /\ flow[h].slot \in Grants
    BY DEF Places, SlotsTypeOK, Flows
  <2> QED BY <1>10, <2>1, GoType DEF RegisterWorker, SlotsTypeOK, leases
<1>11. ASSUME NEW h \in Homes, LaunchWorker(h) PROVE SlotsTypeOK'
  <2>1. slot \in [Slots -> LeaseType]
    BY DEF SlotsTypeOK, LeaseType
  <2>2. slot' \in [Slots -> LeaseType]
    BY <1>11, <2>1, LapsedType DEF LaunchWorker
  <2>3. (Well \/ Fault) /\ Stop(h)
    BY <1>11 DEF LaunchWorker
  <2>4. /\ held' \in [Work -> Grants]
        /\ worker' \in [Work -> {"none", "starting", "running"}]
        /\ process' \in [Work -> {"none", "alive", "completed", "failed"}]
    <3> DEFINE w == <<h, flow[h].ticket>>
    <3>1. PICK status \in {"none", "running"} : worker' = [worker EXCEPT ![w] = status]
      BY <1>11 DEF LaunchWorker
    <3>2. process' = [process EXCEPT ![w] = "alive"] \/ process' = process
      BY <1>11 DEF LaunchWorker
    <3>3. held' = [held EXCEPT ![w] = NoSlot] \/ held' = held
      BY <1>11 DEF LaunchWorker
    <3> HIDE DEF w
    <3>4. worker' \in [Work -> {"none", "starting", "running"}]
      BY <3>1 DEF SlotsTypeOK
    <3>5. process' \in [Work -> {"none", "alive", "completed", "failed"}]
      BY <3>2 DEF SlotsTypeOK
    <3>6. held' \in [Work -> Grants]
      BY <3>3 DEF SlotsTypeOK
    <3> QED BY <3>4, <3>5, <3>6
  <2>5. /\ flow' \in [Homes -> Flows]
        /\ \A g \in Homes : flow'[g].ticket \in Tickets[g] \cup {0}
        /\ faults' \in 0..MaxFaults
    BY <2>3, GoType
  <2>6. UNCHANGED <<capacity, scheduler, session, done>>
    BY <1>11 DEF LaunchWorker
  <2> QED BY <2>2, <2>4, <2>5, <2>6 DEF SlotsTypeOK, LeaseType
<1>12. ASSUME NEW h \in Homes, Crash(h) PROVE SlotsTypeOK'
  BY <1>12, AbandonType, GoType DEF Crash, SlotsTypeOK, leases
<1>13. ASSUME NEW w \in Work, Heartbeat(w) PROVE SlotsTypeOK'
  <2>1. CASE ReleaseSlots({held[w]})
    BY <1>13, <2>1, ReleaseType, AbandonType DEF Heartbeat, SlotsTypeOK, LeaseType
  <2>2. CASE UNCHANGED slot /\ (Well \/ Fault)
    BY <1>13, <2>2, FaultType, AbandonType DEF Heartbeat, SlotsTypeOK
  <2> QED BY <1>13, <2>1, <2>2 DEF Heartbeat
<1>14. ASSUME NEW w \in Work, HandleResult(w) PROVE SlotsTypeOK'
  <2>1. CASE ReleaseSlots({held[w]})
    BY <1>14, <2>1, ReleaseType, AbandonType DEF HandleResult, SlotsTypeOK, LeaseType
  <2>2. CASE UNCHANGED slot /\ Well
    BY <1>14, <2>2, FaultType, AbandonType DEF HandleResult, SlotsTypeOK
  <2> QED BY <1>14, <2>1, <2>2 DEF HandleResult
<1>15. ASSUME NEW w \in Work, NEW outcome \in {"completed", "failed"}, EndProcess(w, outcome)
      PROVE  SlotsTypeOK'
  BY <1>15, FaultType DEF EndProcess, SlotsTypeOK, leases
<1>16. ASSUME NEW s \in Slots, LapseSlot(s) PROVE SlotsTypeOK'
  <2>1. slot \in [Slots -> LeaseType]
    BY DEF SlotsTypeOK, LeaseType
  <2>2. slot' \in [Slots -> LeaseType]
    BY <1>16, <2>1, LapsedType DEF LapseSlot
  <2> QED BY <1>16, <2>2, FaultType DEF LapseSlot, SlotsTypeOK, LeaseType, workers
<1>17. CASE LapseScheduler
  BY <1>17, FaultType DEF LapseScheduler, SlotsTypeOK, workers
<1>18. CASE UNCHANGED vars
  BY <1>18 DEF vars, leases, workers, SlotsTypeOK
<1> QED
  BY <1>1, <1>2, <1>3, <1>4, <1>5, <1>6, <1>7, <1>8, <1>9, <1>10, <1>11, <1>12, <1>13, <1>14,
     <1>15, <1>16, <1>17, <1>18 DEF SlotsNext, Allocate

(***************************************************************************)
(* Slots                                                                   *)
(***************************************************************************)

\* A slot that is not granted is as it was, or not live any more.
Kept(s) == slot'[s] = slot[s] \/ slot'[s] = [slot[s] EXCEPT !.live = FALSE]

LEMMA SlotStep ==
  ASSUME SlotsTypeOK, [SlotsNext]_vars
  PROVE  (\A s \in Slots : Kept(s)) \/ \E h \in Homes : GrantSlot(h)
<1>1. ASSUME UNCHANGED slot PROVE \A s \in Slots : Kept(s)
  BY <1>1 DEF Kept
<1>2. ASSUME NEW G, ReleaseSlots(G) PROVE \A s \in Slots : Kept(s)
  BY <1>2 DEF ReleaseSlots, Kept
<1>3. ASSUME NEW h \in Homes, Allocate(h) PROVE (\A s \in Slots : Kept(s)) \/ GrantSlot(h)
  <2>1. CASE LaunchWorker(h)
    BY <2>1, <1>1 DEF LaunchWorker, Kept
  <2>2. CASE \/ VerifyHeld(h) \/ EnsurePolicy(h) \/ AcquireScheduler(h) \/ ReadDemands(h)
             \/ ReadLeases(h) \/ RenewScheduler(h) \/ ReleaseScheduler(h) \/ RegisterWorker(h)
    BY <2>2, <1>1 DEF VerifyHeld, EnsurePolicy, AcquireScheduler, ReadDemands, ReadLeases,
                      RenewScheduler, ReleaseScheduler, RegisterWorker, leases
  <2> QED BY <1>3, <2>1, <2>2 DEF Allocate
<1>4. ASSUME NEW h \in Homes, Crash(h) \/ \E t \in Tickets[h] : Begin(h, t)
      PROVE  \A s \in Slots : Kept(s)
  BY <1>4, <1>1 DEF Crash, Begin, leases
<1>5. ASSUME NEW w \in Work, Heartbeat(w) \/ HandleResult(w) PROVE \A s \in Slots : Kept(s)
  BY <1>5, <1>1, <1>2 DEF Heartbeat, HandleResult
<1>6. ASSUME NEW w \in Work, NEW outcome, EndProcess(w, outcome) PROVE \A s \in Slots : Kept(s)
  BY <1>6, <1>1 DEF EndProcess, leases
<1>7. ASSUME NEW s \in Slots, LapseSlot(s) PROVE \A r \in Slots : Kept(r)
  BY <1>7 DEF LapseSlot, Kept, SlotsTypeOK
<1>8. CASE LapseScheduler \/ UNCHANGED vars
  BY <1>8, <1>1 DEF LapseScheduler, vars, leases
<1> QED BY <1>3, <1>4, <1>5, <1>6, <1>7, <1>8 DEF SlotsNext

\* What is kept was live before if it is live, for the same ticket.
LEMMA KeptIsKnown ==
  ASSUME SlotsTypeOK, \A s \in Slots : Kept(s)
  PROVE  /\ \A s \in Slots : slot'[s].live => slot[s].live /\ slot'[s].work = slot[s].work
         /\ Observed' \subseteq Observed
<1>1. \A s \in Slots : /\ slot[s] \in LeaseType
                       /\ slot'[s].live => slot[s].live
                       /\ slot'[s].work = slot[s].work /\ slot'[s].token = slot[s].token
  <2> TAKE s \in Slots
  <2>1. slot[s] \in LeaseType
    BY DEF SlotsTypeOK, LeaseType
  <2>2. CASE slot'[s] = slot[s]
    BY <2>1, <2>2
  <2>3. CASE slot'[s] = [slot[s] EXCEPT !.live = FALSE]
    BY <2>1, <2>3 DEF LeaseType
  <2> QED BY <2>2, <2>3 DEF Kept
<1> QED BY <1>1 DEF Observed, Live

\* What a grant does: a free slot the policy allows, for a ticket that no
\* observed slot is for.
LEMMA GrantEffect ==
  ASSUME SlotsTypeOK, NEW h \in Homes, GrantSlot(h)
  PROVE  \/ slot' = slot
         \/ \E s \in Slots :
              /\ s <= capacity
              /\ \A r \in Slots : r # s => slot'[r] = slot[r]
              /\ slot'[s].work = <<h, flow[h].ticket>>
              /\ \A o \in flow[h].seen : o.work # <<h, flow[h].ticket>>
<1>1. SUFFICES ASSUME NEW s \in Grantable(h),
                      slot' = [slot EXCEPT ![s] = [token |-> slot[s].token + 1, holder |-> Me(h),
                                                   live |-> TRUE, work |-> <<h, flow[h].ticket>>]]
               PROVE  \E r \in Slots :
                        /\ r <= capacity
                        /\ \A q \in Slots : q # r => slot'[q] = slot[q]
                        /\ slot'[r].work = <<h, flow[h].ticket>>
                        /\ \A o \in flow[h].seen : o.work # <<h, flow[h].ticket>>
  BY DEF GrantSlot
<1>2. s \in Slots /\ s <= capacity /\ Claims(h)
  BY DEF Grantable, FreeSlots
<1>3. \A o \in flow[h].seen : o.work # <<h, flow[h].ticket>>
  BY <1>2 DEF Claims, Claimable
<1>4. \A q \in Slots : q # s => slot'[q] = slot[q]
  BY <1>1 DEF SlotsTypeOK
<1>5. slot'[s].work = <<h, flow[h].ticket>>
  BY <1>1, <1>2 DEF SlotsTypeOK
<1> QED BY <1>2, <1>3, <1>4, <1>5

LEMMA CapacityStep ==
  ASSUME [SlotsNext]_vars
  PROVE  capacity' = capacity \/ capacity = 0
BY DEF SlotsNext, Allocate, Begin, VerifyHeld, EnsurePolicy, AcquireScheduler, ReadDemands,
       ReadLeases, RenewScheduler, GrantSlot, ReleaseScheduler, RegisterWorker, LaunchWorker,
       Crash, Heartbeat, HandleResult, EndProcess, LapseSlot, LapseScheduler, vars, leases

LEMMA PolicyStep ==
  ASSUME SlotsTypeOK, PolicyInv, [SlotsNext]_vars
  PROVE  PolicyInv'
<1>1. Slots \subseteq Nat \ {0} /\ Slots' = Slots
  BY DEF Slots
<1>2. CASE \A s \in Slots : Kept(s)
  BY <1>1, <1>2, KeptIsKnown, CapacityStep DEF PolicyInv, SlotsTypeOK
<1>3. ASSUME NEW h \in Homes, GrantSlot(h) PROVE PolicyInv'
  <2>1. capacity' = capacity
    BY <1>3 DEF GrantSlot
  <2> QED BY <1>1, <1>3, <2>1, GrantEffect DEF PolicyInv
<1> QED BY <1>2, <1>3, SlotStep

(***************************************************************************)
(* The scheduler lease                                                     *)
(***************************************************************************)

\* A step of one home leaves the others where they are.
LEMMA OtherHomes ==
  ASSUME SlotsTypeOK, NEW h \in Homes, NEW g \in Homes, g # h,
         Allocate(h) \/ Crash(h) \/ \E t \in Tickets[h] : Begin(h, t)
  PROVE  flow'[g] = flow[g] /\ session'[g] = session[g]
BY DEF SlotsTypeOK, Allocate, Begin, VerifyHeld, EnsurePolicy, AcquireScheduler, ReadDemands,
       ReadLeases, RenewScheduler, GrantSlot, ReleaseScheduler, RegisterWorker, LaunchWorker,
       Crash, Go, Stop

SerialAt(g) ==
  /\ flow[g].at = "grant" => HasScheduler(g)
  /\ flow[g].at \in {"renew", "grant"} /\ HasScheduler(g) => Observed \subseteq flow[g].seen

\* What a home knows stays true while slots are only kept.
LEMMA SerialStutter ==
  ASSUME SlotsTypeOK, NEW g \in Homes, SerialAt(g), \A s \in Slots : Kept(s),
         UNCHANGED <<flow[g], session[g], scheduler>>
  PROVE  SerialAt(g)'
BY KeptIsKnown DEF SerialAt, HasScheduler, Me

LEMMA SerialStep ==
  ASSUME SlotsTypeOK, SerialInv, [SlotsNext]_vars
  PROVE  SerialInv'
<1> SUFFICES ASSUME NEW g \in Homes PROVE SerialAt(g)'
  BY DEF SerialInv, SerialAt
<1>0. SerialAt(g)
  BY DEF SerialInv, SerialAt
<1>1. ASSUME NEW h \in Homes, g # h, Allocate(h) \/ Crash(h) \/ \E t \in Tickets[h] : Begin(h, t)
      PROVE  SerialAt(g)'
  <2>1. flow'[g] = flow[g] /\ session'[g] = session[g]
    BY <1>1, OtherHomes
  <2>2. Me(h) # Me(g) /\ Me(g)' = Me(g)
    BY <1>1, <2>1, Identity DEF Me
  <2>3. CASE AcquireScheduler(h)
    <3>1. \A s \in Slots : Kept(s)
      BY <2>3 DEF AcquireScheduler, Kept
    <3>2. CASE scheduler' = scheduler
      BY <1>0, <2>1, <3>1, <3>2, SerialStutter
    <3>3. CASE ~scheduler.live /\ scheduler' = [holder |-> Me(h), live |-> TRUE]
      <4>1. ~HasScheduler(g) /\ ~HasScheduler(g)'
        BY <2>2, <3>3 DEF HasScheduler
      <4> QED BY <1>0, <2>1, <4>1 DEF SerialAt
    <3> QED BY <2>3, <3>2, <3>3 DEF AcquireScheduler
  <2>4. CASE ReleaseScheduler(h)
    <3>1. \A s \in Slots : Kept(s)
      BY <2>4 DEF ReleaseScheduler, Kept
    <3>2. CASE scheduler' = scheduler
      BY <1>0, <2>1, <3>1, <3>2, SerialStutter
    <3>3. CASE HasScheduler(h) /\ scheduler' = Free
      <4>1. ~HasScheduler(g) /\ ~HasScheduler(g)'
        BY <2>2, <3>3 DEF HasScheduler, Free
      <4> QED BY <1>0, <2>1, <4>1 DEF SerialAt
    <3> QED BY <2>4, <3>2, <3>3 DEF ReleaseScheduler
  <2>5. CASE GrantSlot(h)
    <3>1. HasScheduler(h) /\ scheduler' = scheduler
      BY <2>5 DEF GrantSlot, SerialInv
    <3>2. ~HasScheduler(g) /\ ~HasScheduler(g)'
      BY <2>2, <3>1 DEF HasScheduler
    <3> QED BY <1>0, <2>1, <3>2 DEF SerialAt
  <2>6. CASE \/ VerifyHeld(h) \/ EnsurePolicy(h) \/ ReadDemands(h) \/ ReadLeases(h)
             \/ RenewScheduler(h) \/ RegisterWorker(h) \/ LaunchWorker(h)
             \/ Crash(h) \/ \E t \in Tickets[h] : Begin(h, t)
    <3>1. scheduler' = scheduler
      BY <2>6 DEF VerifyHeld, EnsurePolicy, ReadDemands, ReadLeases, RenewScheduler,
                  RegisterWorker, LaunchWorker, Crash, Begin, leases
    <3>2. \A s \in Slots : Kept(s)
      BY <2>6 DEF VerifyHeld, EnsurePolicy, ReadDemands, ReadLeases, RenewScheduler,
                  RegisterWorker, LaunchWorker, Crash, Begin, leases, Kept
    <3> QED BY <1>0, <2>1, <3>1, <3>2, SerialStutter
  <2> QED BY <1>1, <2>3, <2>4, <2>5, <2>6 DEF Allocate
<1>2. CASE ReadLeases(g)
  <2>1. flow'[g] = [flow[g] EXCEPT !.at = "renew", !.seen = Observed]
    BY <1>2 DEF ReadLeases, SlotsTypeOK
  <2>2. flow'[g].at = "renew" /\ flow'[g].seen = Observed
    BY <2>1 DEF SlotsTypeOK, Flows
  <2>3. Observed' = Observed
    BY <1>2 DEF ReadLeases, leases, Observed, Live
  <2> QED BY <2>2, <2>3 DEF SerialAt
<1>3. CASE RenewScheduler(g)
  <2>1. UNCHANGED <<slot, scheduler, session>>
    BY <1>3 DEF RenewScheduler, leases
  <2>2. CASE HasScheduler(g) /\ Go(g, "grant")
    <3>1. flow'[g] = [flow[g] EXCEPT !.at = "grant"]
      BY <2>2 DEF Go, SlotsTypeOK
    <3>2. flow'[g].seen = flow[g].seen
      BY <3>1 DEF SlotsTypeOK, Flows
    <3>3. Observed' = Observed /\ HasScheduler(g)'
      BY <2>1, <2>2 DEF Observed, Live, HasScheduler, Me
    <3>4. Observed \subseteq flow[g].seen
      BY <1>0, <1>3, <2>2 DEF SerialAt, RenewScheduler
    <3> QED BY <3>2, <3>3, <3>4 DEF SerialAt
  <2>3. CASE Stop(g)
    BY <2>3 DEF Stop, SlotsTypeOK, SerialAt, Idle
  <2> QED BY <1>3, <2>2, <2>3 DEF RenewScheduler
<1>4. CASE \/ VerifyHeld(g) \/ EnsurePolicy(g) \/ AcquireScheduler(g) \/ ReadDemands(g)
           \/ GrantSlot(g) \/ ReleaseScheduler(g) \/ RegisterWorker(g) \/ LaunchWorker(g)
           \/ Crash(g) \/ \E t \in Tickets[g] : Begin(g, t)
  <2>1. flow[g] \in Flows /\ flow \in [Homes -> Flows]
    BY DEF SlotsTypeOK
  <2>2. \/ Stop(g)
        \/ \E at \in Places \ {"renew", "grant"} : Go(g, at)
        \/ \E t : flow' = [flow EXCEPT ![g] = [Idle EXCEPT !.at = "verify", !.ticket = t]]
        \/ flow' = [flow EXCEPT ![g] = [flow[g] EXCEPT !.at = "leases", !.ready = Ready]]
        \/ \E s : flow' = [flow EXCEPT ![g].at = "release", ![g].slot = s]
    BY <1>4 DEF VerifyHeld, EnsurePolicy, AcquireScheduler, ReadDemands, GrantSlot,
                ReleaseScheduler, RegisterWorker, LaunchWorker, Crash, Begin, Places
  <2>3. flow'[g].at \notin {"renew", "grant"}
    <3>1. CASE Stop(g)
      BY <2>1, <3>1 DEF Stop, Idle
    <3>2. ASSUME NEW at \in Places \ {"renew", "grant"}, Go(g, at)
          PROVE  flow'[g].at \notin {"renew", "grant"}
      BY <2>1, <3>2 DEF Go, Flows
    <3>3. ASSUME NEW t, flow' = [flow EXCEPT ![g] = [Idle EXCEPT !.at = "verify", !.ticket = t]]
          PROVE  flow'[g].at \notin {"renew", "grant"}
      BY <2>1, <3>3 DEF Idle
    <3>4. CASE flow' = [flow EXCEPT ![g] = [flow[g] EXCEPT !.at = "leases", !.ready = Ready]]
      BY <2>1, <3>4 DEF Flows
    <3>5. ASSUME NEW s, flow' = [flow EXCEPT ![g].at = "release", ![g].slot = s]
          PROVE  flow'[g].at \notin {"renew", "grant"}
      BY <2>1, <3>5 DEF Flows
    <3> QED BY <2>2, <3>1, <3>2, <3>3, <3>4, <3>5
  <2> QED BY <2>3 DEF SerialAt
<1>5. ASSUME NEW w \in Work, \/ Heartbeat(w) \/ HandleResult(w)
                            \/ \E outcome \in {"completed", "failed"} : EndProcess(w, outcome)
      PROVE  SerialAt(g)'
  <2>1. UNCHANGED <<flow, session, scheduler>>
    BY <1>5 DEF Heartbeat, HandleResult, EndProcess, leases
  <2>2. \A s \in Slots : Kept(s)
    BY <1>5 DEF Heartbeat, HandleResult, EndProcess, leases, ReleaseSlots, Kept
  <2> QED BY <1>0, <2>1, <2>2, SerialStutter
<1>6. ASSUME NEW s \in Slots, LapseSlot(s) PROVE SerialAt(g)'
  <2>1. \A r \in Slots : Kept(r)
    BY <1>6 DEF LapseSlot, Kept, SlotsTypeOK
  <2> QED BY <1>0, <1>6, <2>1, SerialStutter DEF LapseSlot
<1>7. CASE LapseScheduler
  <2>2. UNCHANGED <<flow, session>> /\ ~HasScheduler(g)'
    BY <1>7 DEF LapseScheduler, HasScheduler, SlotsTypeOK
  <2>3. HasScheduler(g) => flow[g].at # "grant"
    BY <1>7 DEF LapseScheduler
  <2> QED BY <1>0, <2>2, <2>3 DEF SerialAt
<1>8. CASE UNCHANGED vars
  BY <1>0, <1>8, SerialStutter DEF vars, leases, Kept
<1> QED
  BY <1>1, <1>2, <1>3, <1>4, <1>5, <1>6, <1>7, <1>8 DEF SlotsNext, Allocate

(***************************************************************************)
(* Tickets and processes                                                   *)
(***************************************************************************)

LEMMA TicketStep ==
  ASSUME SlotsTypeOK, SerialInv, NoTicketInTwoSlots, [SlotsNext]_vars
  PROVE  NoTicketInTwoSlots'
<1>1. Slots' = Slots
  BY DEF Slots
<1>2. CASE \A s \in Slots : Kept(s)
  BY <1>1, <1>2, KeptIsKnown DEF NoTicketInTwoSlots
<1>3. ASSUME NEW h \in Homes, GrantSlot(h) PROVE NoTicketInTwoSlots'
  <2>1. Observed \subseteq flow[h].seen
    BY <1>3 DEF SerialInv, GrantSlot
  <2>2. CASE slot' = slot
    BY <1>1, <2>2 DEF NoTicketInTwoSlots
  <2>3. ASSUME NEW s \in Slots,
               \A r \in Slots : r # s => slot'[r] = slot[r],
               slot'[s].work = <<h, flow[h].ticket>>,
               \A o \in flow[h].seen : o.work # <<h, flow[h].ticket>>
        PROVE  NoTicketInTwoSlots'
    <3>1. \A r \in Slots : slot[r].live => slot[r].work # <<h, flow[h].ticket>>
      <4> SUFFICES ASSUME NEW r \in Slots, slot[r].live PROVE slot[r].work # <<h, flow[h].ticket>>
        OBVIOUS
      <4> DEFINE seen == [slot |-> r, token |-> slot[r].token, work |-> slot[r].work]
      <4>1. seen \in Observed
        BY DEF Observed, Live
      <4>2. seen.work # <<h, flow[h].ticket>>
        BY <2>1, <2>3, <4>1
      <4> QED BY <4>2
    <3> QED BY <1>1, <2>3, <3>1 DEF NoTicketInTwoSlots
  <2> QED BY <1>3, <2>2, <2>3, GrantEffect
<1> QED BY <1>2, <1>3, SlotStep

Before == {"verify", "policy", "scheduler", "demands", "leases", "renew", "grant", "release",
           "register"}

\* A process belongs to a worker that runs and has a slot.
RunsWith(w) == process[w] = "alive" => worker[w] = "running" /\ held[w] # NoSlot

\* Until it is registered the worker a home prepares is nobody's; then it is
\* starting, has its slot, and has no process yet.
Prepares(h) ==
  LET w == <<h, flow[h].ticket>>
  IN /\ flow[h].at # "idle" => w \in Work
     /\ flow[h].at \in Before => worker[w] = "none"
     /\ flow[h].at \in {"register", "launch"} => flow[h].slot # NoSlot
     /\ flow[h].at = "launch" =>
          worker[w] = "starting" /\ held[w] # NoSlot /\ process[w] = "none"

WorkerInv == (\A w \in Work : RunsWith(w)) /\ \A h \in Homes : Prepares(h)

\* A step of one home touches no worker of another.
LEMMA OwnWorkers ==
  ASSUME SlotsTypeOK, NEW h \in Homes, NEW g \in Homes, g # h, NEW w \in Work, w[1] = g,
         Allocate(h) \/ Crash(h) \/ \E t \in Tickets[h] : Begin(h, t)
  PROVE  worker'[w] = worker[w] /\ held'[w] = held[w] /\ process'[w] = process[w]
<1>1. CASE Allocate(h)
  <2>1. CASE VerifyHeld(h)
    BY <2>1 DEF VerifyHeld, Abandon, Lost, Own
  <2>2. CASE RegisterWorker(h)
    BY <2>2 DEF RegisterWorker, SlotsTypeOK
  <2>3. CASE LaunchWorker(h)
    BY <2>3 DEF LaunchWorker, SlotsTypeOK
  <2>4. CASE \/ EnsurePolicy(h) \/ AcquireScheduler(h) \/ ReadDemands(h) \/ ReadLeases(h)
             \/ RenewScheduler(h) \/ GrantSlot(h) \/ ReleaseScheduler(h)
    BY <2>4 DEF EnsurePolicy, AcquireScheduler, ReadDemands, ReadLeases, RenewScheduler,
                GrantSlot, ReleaseScheduler, workers
  <2> QED BY <1>1, <2>1, <2>2, <2>3, <2>4 DEF Allocate
<1>2. CASE Crash(h)
  BY <1>2 DEF Crash, Abandon, Own
<1>3. CASE \E t \in Tickets[h] : Begin(h, t)
  BY <1>3 DEF Begin, workers
<1> QED BY <1>1, <1>2, <1>3

\* Whatever is abandoned runs no more.
LEMMA AbandonRuns ==
  ASSUME SlotsTypeOK, NEW W, Abandon(W), \A w \in Work : RunsWith(w)
  PROVE  \A w \in Work : RunsWith(w)'
BY DEF Abandon, RunsWith

LEMMA WorkerStep ==
  ASSUME SlotsTypeOK, SlotsTypeOK', LaunchIsPrompt, WorkerInv, [SlotsNext]_vars
  PROVE  WorkerInv'
<1>1. ASSUME NEW h \in Homes, Allocate(h) \/ Crash(h) \/ \E t \in Tickets[h] : Begin(h, t)
      PROVE  WorkerInv'
  <2> DEFINE v == <<h, flow[h].ticket>>
  <2>0. flow[h] \in Flows /\ flow \in [Homes -> Flows] /\ Prepares(h)
    BY DEF SlotsTypeOK, WorkerInv
  <2>1. ASSUME NEW g \in Homes, g # h PROVE Prepares(g)'
    <3>1. flow'[g] = flow[g]
      BY <1>1, <2>1, OtherHomes
    <3>2. CASE flow[g].at = "idle"
      BY <3>1, <3>2 DEF Prepares, Before
    <3>3. CASE flow[g].at # "idle"
      <4>1. <<g, flow[g].ticket>> \in Work
        BY <3>3 DEF WorkerInv, Prepares
      <4> QED BY <1>1, <2>1, <3>1, <4>1, OwnWorkers DEF WorkerInv, Prepares
    <3> QED BY <3>2, <3>3
  <2>2. (\A w \in Work : RunsWith(w)') /\ Prepares(h)'
    <3>1. CASE VerifyHeld(h)
      <4>1. flow'[h] = [flow[h] EXCEPT !.at = "policy"]
        BY <2>0, <3>1 DEF VerifyHeld, Go
      <4>2. flow'[h].at = "policy" /\ flow'[h].ticket = flow[h].ticket
        BY <2>0, <4>1 DEF Flows
      <4>3. worker'[v] = "none" /\ v \in Work
        BY <2>0, <3>1 DEF VerifyHeld, Abandon, Prepares, Before
      <4> QED BY <3>1, <4>2, <4>3, AbandonRuns DEF VerifyHeld, Prepares, Before, WorkerInv
    <3>2. CASE Crash(h)
      BY <2>0, <3>2, AbandonRuns DEF Crash, Stop, Idle, Prepares, Before, WorkerInv
    <3>3. CASE RegisterWorker(h)
      <4>1. flow'[h] = [flow[h] EXCEPT !.at = "launch"]
        BY <2>0, <3>3 DEF RegisterWorker, Go
      <4>2. flow'[h].at = "launch" /\ flow'[h].ticket = flow[h].ticket /\ flow'[h].slot = flow[h].slot
        BY <2>0, <4>1 DEF Flows
      <4>3. v \in Work /\ worker[v] = "none" /\ flow[h].slot # NoSlot
        BY <2>0, <3>3 DEF RegisterWorker, Prepares, Before
      <4>4. process[v] # "alive"
        BY <4>3 DEF WorkerInv, RunsWith
      <4>5. worker'[v] = "starting" /\ held'[v] = flow[h].slot /\ process'[v] = "none"
        BY <3>3, <4>3, <4>4 DEF RegisterWorker, SlotsTypeOK
      <4>6. \A w \in Work : w # v => /\ worker'[w] = worker[w] /\ held'[w] = held[w]
                                    /\ process'[w] = process[w]
        BY <3>3 DEF RegisterWorker, SlotsTypeOK
      <4>7. \A w \in Work : RunsWith(w)'
        BY <4>5, <4>6 DEF RunsWith, WorkerInv
      <4>8. Prepares(h)'
        BY <4>2, <4>3, <4>5 DEF Prepares, Before
      <4> QED BY <4>7, <4>8
    <3>4. CASE LaunchWorker(h)
      <4>1. flow'[h].at = "idle"
        BY <2>0, <3>4 DEF LaunchWorker, Stop, Idle
      <4>2. v \in Work /\ worker[v] = "starting" /\ held[v] # NoSlot /\ process[v] = "none"
        BY <2>0, <3>4 DEF LaunchWorker, Prepares
      <4>3. process'[v] = "alive" => worker'[v] = "running" /\ held'[v] # NoSlot
        BY <3>4, <4>2 DEF LaunchWorker, SlotsTypeOK
      <4>4. \A w \in Work : w # v => /\ worker'[w] = worker[w] /\ held'[w] = held[w]
                                    /\ process'[w] = process[w]
        BY <3>4 DEF LaunchWorker, SlotsTypeOK
      <4> QED BY <4>1, <4>3, <4>4 DEF RunsWith, WorkerInv, Prepares, Before
    <3>5. ASSUME NEW t \in Tickets[h], Begin(h, t) PROVE (\A w \in Work : RunsWith(w)') /\ Prepares(h)'
      <4>1. flow'[h].at = "verify" /\ flow'[h].ticket = t
        BY <2>0, <3>5 DEF Begin, Idle
      <4>2. <<h, t>> \in Work /\ worker[<<h, t>>] = "none"
        BY <3>5, Identity DEF Begin
      <4> QED BY <3>5, <4>1, <4>2 DEF Begin, workers, RunsWith, WorkerInv, Prepares, Before
    <3>6. CASE \/ EnsurePolicy(h) \/ AcquireScheduler(h) \/ ReadDemands(h) \/ ReadLeases(h)
               \/ RenewScheduler(h) \/ GrantSlot(h) \/ ReleaseScheduler(h)
      <4>1. UNCHANGED <<held, worker, process>>
        BY <3>6 DEF EnsurePolicy, AcquireScheduler, ReadDemands, ReadLeases, RenewScheduler,
                    GrantSlot, ReleaseScheduler, workers
      <4>2. \A w \in Work : RunsWith(w)'
        BY <4>1 DEF WorkerInv, RunsWith
      <4>3. flow[h].at \in Before
        BY <3>6 DEF EnsurePolicy, AcquireScheduler, ReadDemands, ReadLeases, RenewScheduler,
                    GrantSlot, ReleaseScheduler, Before
      <4>4. \/ flow'[h].at = "idle"
            \/ /\ flow'[h].ticket = flow[h].ticket /\ flow'[h].at \in Before
               /\ flow'[h].at = "register" => flow'[h].slot # NoSlot
        <5>1. CASE EnsurePolicy(h)
          BY <2>0, <5>1 DEF EnsurePolicy, Go, Flows, Before
        <5>2. CASE AcquireScheduler(h)
          BY <2>0, <5>2 DEF AcquireScheduler, Go, Stop, Idle, Flows, Before
        <5>3. CASE ReadDemands(h)
          BY <2>0, <5>3 DEF ReadDemands, Flows, Before
        <5>4. CASE ReadLeases(h)
          BY <2>0, <5>4 DEF ReadLeases, Flows, Before
        <5>5. CASE RenewScheduler(h)
          BY <2>0, <5>5 DEF RenewScheduler, Go, Stop, Idle, Flows, Before
        <5>6. CASE GrantSlot(h)
          <6>1. \/ Go(h, "release")
                \/ \E s : flow' = [flow EXCEPT ![h].at = "release", ![h].slot = s]
            BY <5>6 DEF GrantSlot
          <6>2. flow'[h].at = "release" /\ flow'[h].ticket = flow[h].ticket
            BY <2>0, <6>1 DEF Go, Flows
          <6> QED BY <6>2 DEF Before
        <5>7. CASE ReleaseScheduler(h)
          BY <2>0, <5>7 DEF ReleaseScheduler, Go, Stop, Idle, Flows, Before
        <5> QED BY <3>6, <5>1, <5>2, <5>3, <5>4, <5>5, <5>6, <5>7
      <4>5. v \in Work /\ worker[v] = "none"
        BY <2>0, <4>3 DEF Prepares, Before
      <4>6. Prepares(h)'
        BY <4>1, <4>4, <4>5 DEF Prepares, Before
      <4> QED BY <4>2, <4>6
    <3> QED BY <1>1, <3>1, <3>2, <3>3, <3>4, <3>5, <3>6 DEF Allocate
  <2> QED BY <2>1, <2>2 DEF WorkerInv
<1>2. ASSUME NEW w \in Work, \/ Heartbeat(w) \/ HandleResult(w)
                            \/ \E outcome \in {"completed", "failed"} : EndProcess(w, outcome)
      PROVE  WorkerInv'
  <2>1. flow' = flow
    BY <1>2 DEF Heartbeat, HandleResult, EndProcess
  <2>2. \A v \in Work : v # w => /\ worker'[v] = worker[v] /\ held'[v] = held[v]
                                /\ process'[v] = process[v]
    BY <1>2 DEF Heartbeat, HandleResult, EndProcess, Abandon, SlotsTypeOK
  <2>3. process'[w] # "alive" \/ UNCHANGED <<worker[w], held[w], process[w]>>
    BY <1>2 DEF Heartbeat, HandleResult, EndProcess, Abandon, SlotsTypeOK, WorkerInv, RunsWith, Gone
  <2>4. worker[w] = "none" => worker'[w] = "none"
    BY <1>2 DEF Heartbeat, HandleResult, EndProcess, Abandon, SlotsTypeOK
  <2>5. worker[w] = "starting" /\ process[w] = "none" => FALSE
    BY <1>2 DEF Heartbeat, HandleResult, EndProcess, Gone
  <2>6. \A v \in Work : RunsWith(v)'
    BY <2>2, <2>3 DEF RunsWith, WorkerInv
  <2>7. \A h \in Homes : Prepares(h)'
    BY <2>1, <2>2, <2>4, <2>5 DEF Prepares, WorkerInv, Before
  <2> QED BY <2>6, <2>7 DEF WorkerInv
<1>3. CASE LapseScheduler \/ (\E s \in Slots : LapseSlot(s)) \/ UNCHANGED vars
  BY <1>3 DEF LapseScheduler, LapseSlot, vars, workers, leases, WorkerInv, RunsWith, Prepares
<1> QED BY <1>1, <1>2, <1>3 DEF SlotsNext

(***************************************************************************)
(* Theorems                                                                *)
(***************************************************************************)

LEMMA InitInv == SlotsInit => SlotsInv /\ WorkerInv
<1> SUFFICES ASSUME SlotsInit PROVE SlotsInv /\ WorkerInv
  OBVIOUS
<1>1. \A s \in Slots : ~slot[s].live
  BY DEF SlotsInit, NoLease
<1>2. \A h \in Homes : flow[h].at = "idle"
  BY DEF SlotsInit, Idle
<1>3. SlotsTypeOK
  BY InitType
<1>4. PolicyInv /\ NoTicketInTwoSlots
  BY <1>1 DEF PolicyInv, NoTicketInTwoSlots
<1>5. SerialInv
  BY <1>2 DEF SerialInv
<1>6. WorkerInv
  BY <1>2 DEF SlotsInit, WorkerInv, RunsWith, Prepares, Before
<1> QED BY <1>3, <1>4, <1>5, <1>6 DEF SlotsInv

\* Every state keeps the types, the policy and what a plan knows, whatever the
\* interleaving of allocations, heartbeats, crashes and lapses.
THEOREM SlotsInductive == SlotsSpec => []SlotsInv
<1>1. SlotsInit => SlotsInv
  BY InitInv
<1>2. SlotsInv /\ [SlotsNext]_vars => SlotsInv'
  BY TypeStep, PolicyStep, SerialStep, TicketStep DEF SlotsInv
<1> QED BY <1>1, <1>2, PTL DEF SlotsSpec

\* The variables keep their types: a granted slot has a number some home is
\* configured for, and a home prepares a ticket of its own workflow.
THEOREM SlotsTypeCorrect == SlotsSpec => []SlotsTypeOK
<1>1. SlotsInv => SlotsTypeOK
  BY DEF SlotsInv
<1> QED BY <1>1, SlotsInductive, PTL

\* No ticket is covered by two live slots, however often homes crash, lose an
\* answer or plan from a frontier that is stale.
THEOREM OneSlotPerTicket == SlotsSpec => []NoTicketInTwoSlots
<1>1. SlotsInv => NoTicketInTwoSlots
  BY DEF SlotsInv
<1> QED BY <1>1, SlotsInductive, PTL

\* The live slots are at most as many as the policy allows, for every mix of
\* the concurrencies the homes are configured for.
THEOREM CapacityKept == SlotsSpec => []WithinCapacity
<1>1. SlotsInv => WithinCapacity
  <2> SUFFICES ASSUME SlotsInv PROVE WithinCapacity
    OBVIOUS
  <2>1. capacity \in Nat /\ Slots \subseteq Nat \ {0}
    BY DEF SlotsInv, SlotsTypeOK, Slots
  <2>2. Live \subseteq 1..capacity
    <3>1. \A s \in Live : s \in Slots /\ s <= capacity
      BY DEF SlotsInv, PolicyInv, Live
    <3>2. \A s \in Live : s \in Nat \ {0} /\ s <= capacity
      BY <2>1, <3>1
    <3> QED BY <2>1, <3>2
  <2>3. IsFiniteSet(1..capacity) /\ Cardinality(1..capacity) = capacity
    BY <2>1, FS_Interval
  <2>4. Cardinality(Live) <= Cardinality(1..capacity)
    BY <2>2, <2>3, FS_Subset
  <2> QED BY <2>3, <2>4 DEF WithinCapacity
<1> QED BY <1>1, SlotsInductive, PTL

\* Every grant is planned with all live leases in view: two homes never allocate
\* from plans that do not know of each other.
THEOREM SerialGrants == SlotsSpec => GrantsAreSerial
<1>1. SlotsInv =>
        \A h \in Homes : flow[h].at = "grant" /\ slot' # slot /\ flow'[h].at = "release" =>
          Observed \subseteq flow[h].seen
  BY DEF SlotsInv, SerialInv
<1> QED BY <1>1, SlotsInductive, PTL DEF GrantsAreSerial

\* A process runs only while its home keeps a slot for it, if no slot is lost
\* between its grant and the launch it was granted for.
THEOREM ProcessKeepsSlot ==
  ASSUME LaunchIsPrompt
  PROVE  SlotsSpec => []ProcessHasSlot
<1>1. SlotsInit => WorkerInv
  BY InitInv
<1>2. SlotsTypeOK /\ SlotsTypeOK' /\ WorkerInv /\ [SlotsNext]_vars => WorkerInv'
  BY WorkerStep
<1>3. WorkerInv => ProcessHasSlot
  BY DEF WorkerInv, RunsWith, ProcessHasSlot
<1> QED BY <1>1, <1>2, <1>3, SlotsTypeCorrect, PTL DEF SlotsSpec

=============================================================================
