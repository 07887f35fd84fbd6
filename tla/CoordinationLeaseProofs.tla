---------------------- MODULE CoordinationLeaseProofs ----------------------
(***************************************************************************)
(* Theorems about CoordinationLease, for every set of sessions, TTL, skew  *)
(* and bound.  The argument rests on the object ids: a push lands only on  *)
(* the record its sender read, object ids only grow at the ref, so a       *)
(* decision taken on a snapshot is still right when its push lands.        *)
(***************************************************************************)
EXTENDS CoordinationLease, TLAPS

\* l is a lease some session was really granted.
Granted(l) ==
  /\ l.generation \in 1..Len(grants)
  /\ grants[l.generation] = TokenOf(l)

\* What a push may do to the record it expects: go on with a live lease under
\* the same token, or start the next generation when the last one is over.
Continues(old, new) == /\ ~old.released
                       /\ TokenOf(new) = TokenOf(old)
Supersedes(old, new) == /\ new.generation = old.generation + 1
                        /\ new.holder \in Home
                        /\ ~new.released
                        /\ old.released \/ old.expiresAt <= clock + MaxSkew

\* Object ids only grow, and one that is still the ref's names what it named
\* when it was read.
SnapshotInv ==
  /\ store.version <= lastOid
  /\ store.version = 0 => store.lease = NoLease
  /\ \A h \in Home : /\ seen[h].version <= store.version
                     /\ seen[h].version = store.version => seen[h].lease = store.lease

\* A push that can still land does so on the record its sender decided on.
PushInv ==
  \A p \in pushes :
    /\ p.expected <= store.version
    /\ p.expected < p.oid
    /\ p.oid <= lastOid
    /\ p.expected = store.version => \/ Continues(store.lease, p.lease)
                                     \/ Supersedes(store.lease, p.lease)

\* The ref and the history agree, and a session works with granted leases.
GrantInv ==
  /\ store.lease.generation = Len(grants)
  /\ Len(grants) > 0 => TokenOf(store.lease) = grants[Len(grants)]
  /\ Len(grants) = 0 => store.lease.released
  /\ \A h \in Home :
       /\ Holds(h) => Granted(held[h]) /\ held[h].holder = h
       /\ task[h] \in {"renew", "verify", "release"}
            => Granted(arg[h]) /\ arg[h].holder = h
       /\ step[h] = "awaiting" => sent[h].lease.holder = h
       /\ step[h] = "landed" => Granted(sent[h].lease) /\ sent[h].lease.holder = h

\* A session that reads or decides does so for some operation.
PhaseInv ==
  \A h \in Home : step[h] \in {"start", "decide"} => task[h] # "none"

LeaseInv == TypeOK /\ SnapshotInv /\ PushInv /\ GrantInv /\ PhaseInv

USE HomeAssumption, TtlAssumption, BoundsAssumption

(***************************************************************************)
(* Types                                                                   *)
(***************************************************************************)

LEMMA ConstantTypes ==
  /\ NoLease \in Lease
  /\ NoRecord \in Record
  /\ NoPush \in Push
BY DEF NoLease, NoRecord, NoPush, Lease, Record, Push

\* A call changes only where the session is and what it was called with.
LEMMA CallType ==
  ASSUME TypeOK, NEW h \in Home, NEW name \in {"acquire", "renew", "release", "verify"},
         NEW l \in Lease, Call(h, name, l), gaveUp' \in [Home -> SUBSET Nat],
         held' \in [Home -> Lease]
  PROVE  TypeOK'
BY DEF Call, TypeOK, remote, clocks

LEMMA ReturnType ==
  ASSUME TypeOK, NEW h \in Home, NEW l \in Lease, Return(h, l)
  PROVE  TypeOK'
BY ConstantTypes DEF Return, TypeOK, remote, clocks

LEMMA CandidateType ==
  ASSUME TypeOK, NEW h \in Home
  PROVE  Candidate(h) \in Lease
<1>1. Wall(h) \in Nat /\ seen[h].lease \in Lease
  BY DEF TypeOK, Wall, Record
<1>2. CASE task[h] = "acquire"
  BY <1>1, <1>2 DEF Candidate, Lease
<1>3. CASE task[h] = "renew"
  <2>1. Candidate(h) = [seen[h].lease EXCEPT !.heartbeatAt = Wall(h),
                                             !.expiresAt = Wall(h) + Ttl]
    BY <1>3 DEF Candidate
  <2>2. Wall(h) + Ttl \in Nat
    BY <1>1
  <2> QED BY <1>1, <2>1, <2>2 DEF Lease
<1>4. CASE task[h] \notin {"acquire", "renew"}
  BY <1>1, <1>4 DEF Candidate, Lease
<1> QED BY <1>2, <1>3, <1>4

LEMMA InitType == Init => TypeOK
BY ConstantTypes DEF Init, TypeOK

LEMMA SessionType ==
  ASSUME TypeOK, NEW h \in Home, Session(h)
  PROVE  TypeOK'
<1>. held[h] \in Lease /\ store \in Record /\ seen[h] \in Record /\ sent[h] \in Push
  BY DEF TypeOK
<1>1. CASE CallAcquire(h)
  BY <1>1, ConstantTypes, CallType DEF CallAcquire, TypeOK
<1>2. CASE CallRenew(h)
  BY <1>2, CallType DEF CallRenew, TypeOK
<1>3. CASE CallVerify(h)
  BY <1>3, CallType DEF CallVerify, TypeOK
<1>4. CASE CallRelease(h)
  <2>1. held[h].generation \in Nat
    BY DEF Lease
  <2>2. gaveUp' \in [Home -> SUBSET Nat]
    BY <1>4, <2>1 DEF CallRelease, TypeOK
  <2>3. held' \in [Home -> Lease]
    BY <1>4, ConstantTypes DEF CallRelease, TypeOK
  <2> QED BY <1>4, <2>2, <2>3, CallType DEF CallRelease
<1>5. CASE CallReleaseObserved(h)
  <2>1. gaveUp' \in [Home -> SUBSET Nat] /\ held' \in [Home -> Lease]
    BY <1>5 DEF CallReleaseObserved, TypeOK, Lease, Record
  <2>2. store.lease \in Lease
    BY DEF Record
  <2> QED BY <1>5, <2>1, <2>2, CallType DEF CallReleaseObserved
<1>6. CASE Read(h)
  BY <1>6 DEF Read, TypeOK, remote, clocks
<1>7. CASE Submit(h)
  <2>1. [oid |-> lastOid + 1, expected |-> seen[h].version, lease |-> Candidate(h)] \in Push
    BY CandidateType DEF Push, Record, TypeOK
  <2> QED BY <1>7, <2>1 DEF Submit, TypeOK, clocks
<1>8. CASE Confirm(h)
  BY <1>8, ReturnType DEF Confirm, Record
<1>9. CASE Refuse(h)
  BY <1>9, ReturnType, ConstantTypes DEF Refuse
<1>10. CASE Acknowledge(h)
  BY <1>10, ReturnType, ConstantTypes DEF Acknowledge, Push
<1>11. CASE LoseAnswer(h)
  BY <1>11 DEF LoseAnswer, TypeOK, remote, clocks
<1>12. CASE Settle(h)
  BY <1>12, ReturnType, ConstantTypes DEF Settle
<1>13. CASE Fail(h)
  BY <1>13, ReturnType DEF Fail
<1>14. CASE Crash(h)
  BY <1>14, ConstantTypes DEF Crash, TypeOK, remote, clocks
<1>15. CASE StepClock(h)
  BY <1>15 DEF StepClock, TypeOK, remote, operation
<1> QED
  BY <1>1, <1>2, <1>3, <1>4, <1>5, <1>6, <1>7, <1>8, <1>9, <1>10, <1>11, <1>12, <1>13,
     <1>14, <1>15 DEF Session

LEMMA RemoteType ==
  ASSUME TypeOK, NEW p \in pushes, Remote(p)
  PROVE  TypeOK'
<1>. p \in Push /\ store \in Record
  BY DEF TypeOK
<1>1. ASSUME NEW r \in {"landed", "refused"}, Answer(p, r)
      PROVE  step' \in [Home -> {"idle", "start", "decide", "awaiting", "landed",
                                 "refused", "crashed"}]
  BY <1>1 DEF Answer, TypeOK
<1>2. CASE Land(p)
  <2>1. store' \in Record
    BY <1>2 DEF Land, Push, Record
  <2>2. TokenOf(p.lease) \in Token
    BY DEF Push, Lease, TokenOf, Token
  <2>3. grants' \in Seq(Token)
    BY <1>2, <2>2 DEF Land, TypeOK
  <2> QED BY <1>1, <1>2, <2>1, <2>3 DEF Land, TypeOK, clocks
<1>3. CASE Reject(p)
  BY <1>1, <1>3 DEF Reject, TypeOK, clocks
<1>4. CASE LosePush(p)
  BY <1>4 DEF LosePush, TypeOK, clocks, operation
<1> QED BY <1>2, <1>3, <1>4 DEF Remote

LEMMA StutterType ==
  ASSUME TypeOK, UNCHANGED vars
  PROVE  TypeOK'
BY DEF TypeOK, vars, remote, clocks, operation

LEMMA TickType ==
  ASSUME TypeOK, Tick
  PROVE  TypeOK'
BY DEF Tick, TypeOK, remote, operation

\* Every reachable state of the lease protocol has the types TypeOK states.
THEOREM TypeCorrect == Spec => []TypeOK
<1>1. TypeOK /\ [Next]_vars => TypeOK'
  BY SessionType, RemoteType, StutterType, TickType DEF Next
<1> QED BY <1>1, InitType, PTL DEF Spec

(***************************************************************************)
(* What the steps of a session leave alone                                 *)
(***************************************************************************)

LEMMA SessionFrame ==
  ASSUME TypeOK, NEW h \in Home, Session(h)
  PROVE  /\ store' = store /\ grants' = grants /\ clock' = clock
         /\ lastOid' \in Nat /\ lastOid <= lastOid'
         /\ \/ seen' = seen
            \/ seen' = [seen EXCEPT ![h] = NoRecord]
            \/ seen' = [seen EXCEPT ![h] = store]
         /\ pushes' = pushes \/ Submit(h)
<1>1. lastOid \in Nat
  BY DEF TypeOK
<1>2. CASE Submit(h)
  BY <1>1, <1>2 DEF Submit, clocks
<1>3. CASE Read(h)
  BY <1>1, <1>3 DEF Read, remote, clocks
<1>4. CASE StepClock(h)
  BY <1>1, <1>4 DEF StepClock, remote, operation
<1>5. CASE CallAcquire(h) \/ CallRenew(h) \/ CallVerify(h) \/ CallRelease(h)
             \/ CallReleaseObserved(h)
  BY <1>1, <1>5 DEF CallAcquire, CallRenew, CallVerify, CallRelease, CallReleaseObserved,
                    Call, remote, clocks
<1>6. CASE Confirm(h) \/ Refuse(h) \/ Acknowledge(h) \/ Settle(h) \/ Fail(h)
  BY <1>1, <1>6 DEF Confirm, Refuse, Acknowledge, Settle, Fail, Return, remote, clocks
<1>7. CASE LoseAnswer(h) \/ Crash(h)
  BY <1>1, <1>7 DEF LoseAnswer, Crash, remote, clocks
<1> QED BY <1>2, <1>3, <1>4, <1>5, <1>6, <1>7 DEF Session

LEMMA RemoteFrame ==
  ASSUME NEW p \in pushes, Remote(p)
  PROVE  /\ UNCHANGED <<clock, skew, lastOid, task, arg, seen, sent, held, gaveUp>>
         /\ pushes' = pushes \ {p}
         /\ Land(p) \/ UNCHANGED <<store, grants>>
BY DEF Remote, Land, Reject, LosePush, clocks, operation

(***************************************************************************)
(* Snapshots                                                               *)
(***************************************************************************)

LEMMA SnapshotStep ==
  ASSUME TypeOK, SnapshotInv, PushInv, [Next]_vars
  PROVE  SnapshotInv'
<1>. /\ lastOid \in Nat /\ store \in Record /\ seen \in [Home -> Record]
     /\ pushes \subseteq Push
  BY DEF TypeOK
<1>1. ASSUME NEW h \in Home, Session(h) PROVE SnapshotInv'
  <2>1. /\ store' = store /\ lastOid' \in Nat /\ lastOid <= lastOid'
        /\ \/ seen' = seen
           \/ seen' = [seen EXCEPT ![h] = NoRecord]
           \/ seen' = [seen EXCEPT ![h] = store]
    BY <1>1, SessionFrame
  <2>2. store.version \in Nat
    BY DEF Record
  <2>3. NoRecord.version = 0 /\ NoRecord.lease = NoLease
    BY DEF NoRecord
  <2> QED BY <2>1, <2>2, <2>3 DEF SnapshotInv
<1>2. ASSUME NEW p \in pushes, Remote(p) PROVE SnapshotInv'
  <2>1. CASE Land(p)
    <3>1. /\ store' = [version |-> p.oid, lease |-> p.lease]
          /\ seen' = seen /\ lastOid' = lastOid /\ p.expected = store.version
      BY <2>1 DEF Land
    <3>2. /\ p.oid \in Nat /\ p.expected \in Nat /\ p.expected < p.oid /\ p.oid <= lastOid
      BY DEF PushInv, Push
    <3>3. \A g \in Home : seen[g].version \in Nat
      BY DEF Record
    <3> QED BY <3>1, <3>2, <3>3 DEF SnapshotInv
  <2>2. CASE UNCHANGED store
    BY <1>2, <2>2, RemoteFrame DEF SnapshotInv
  <2> QED BY <1>2, <2>1, <2>2, RemoteFrame
<1>3. CASE Tick
  BY <1>3 DEF Tick, SnapshotInv, remote, operation
<1>4. CASE UNCHANGED vars
  BY <1>4 DEF SnapshotInv, vars, remote, operation
<1> QED BY <1>1, <1>2, <1>3, <1>4 DEF Next

(***************************************************************************)
(* Pushes                                                                  *)
(***************************************************************************)

\* What a session submits is right for the snapshot it decided on.
LEMMA CandidateFollows ==
  ASSUME TypeOK, PhaseInv, NEW h \in Home, step[h] = "decide", task[h] # "verify", Admits(h)
  PROVE  \/ Continues(seen[h].lease, Candidate(h))
         \/ Supersedes(seen[h].lease, Candidate(h))
<1>. /\ seen[h].lease \in Lease /\ Wall(h) \in Nat /\ Wall(h) <= clock + MaxSkew
     /\ clock \in Nat
  BY DEF TypeOK, Record, Wall
<1>1. CASE task[h] = "acquire"
  BY <1>1 DEF Admits, Expired, Candidate, Supersedes, Lease
<1>2. CASE task[h] = "renew"
  <2>1. Candidate(h) = [seen[h].lease EXCEPT !.heartbeatAt = Wall(h),
                                             !.expiresAt = Wall(h) + Ttl]
    BY <1>2 DEF Candidate
  <2> QED BY <1>2, <2>1 DEF Admits, Continues, TokenOf, Lease
<1>3. CASE task[h] = "release"
  <2>1. Candidate(h) = [seen[h].lease EXCEPT !.released = TRUE]
    BY <1>3 DEF Candidate
  <2> QED BY <1>3, <2>1 DEF Admits, Continues, TokenOf, Lease
<1> QED BY <1>1, <1>2, <1>3 DEF TypeOK, PhaseInv

LEMMA PushStep ==
  ASSUME TypeOK, SnapshotInv, PushInv, PhaseInv, [Next]_vars
  PROVE  PushInv'
<1>. /\ lastOid \in Nat /\ store \in Record /\ seen \in [Home -> Record]
     /\ pushes \subseteq Push /\ clock \in Nat
  BY DEF TypeOK
<1>1. ASSUME NEW h \in Home, Submit(h) PROVE PushInv'
  <2> DEFINE new == [oid |-> lastOid + 1, expected |-> seen[h].version,
                     lease |-> Candidate(h)]
  <2>1. /\ pushes' = pushes \cup {new} /\ lastOid' = lastOid + 1
        /\ store' = store /\ clock' = clock
    BY <1>1 DEF Submit, clocks, TypeOK
  <2>2. /\ new.expected \in Nat /\ new.expected <= store.version
        /\ store.version \in Nat /\ store.version <= lastOid
    BY DEF SnapshotInv, Record
  <2>3. new.expected = store.version => \/ Continues(store.lease, new.lease)
                                        \/ Supersedes(store.lease, new.lease)
    BY <1>1, CandidateFollows DEF Submit, SnapshotInv
  <2>4. \A p \in pushes : p.oid \in Nat /\ p.expected \in Nat
    BY DEF Push
  <2> QED BY <2>1, <2>2, <2>3, <2>4 DEF PushInv, Continues, Supersedes
<1>2. ASSUME NEW h \in Home, Session(h), ~Submit(h) PROVE PushInv'
  <2>1. /\ store' = store /\ clock' = clock /\ pushes' = pushes
        /\ lastOid' \in Nat /\ lastOid <= lastOid'
    BY <1>2, SessionFrame
  <2>2. \A p \in pushes : p.oid \in Nat
    BY DEF Push
  <2> QED BY <2>1, <2>2 DEF PushInv, Continues, Supersedes
<1>3. ASSUME NEW p \in pushes, Remote(p) PROVE PushInv'
  <2>1. CASE Land(p)
    <3>1. /\ store'.version = p.oid /\ p.expected = store.version
          /\ pushes' \subseteq pushes /\ lastOid' = lastOid
      BY <2>1 DEF Land
    <3>2. p.oid \in Nat /\ p.expected \in Nat /\ p.expected < p.oid
      BY DEF PushInv, Push
    <3>3. \A q \in pushes : q.expected \in Nat /\ q.expected <= store.version
      BY DEF PushInv, Push
    <3>4. \A q \in pushes' : q.expected < store'.version
      BY <3>1, <3>2, <3>3
    <3>5. ASSUME NEW q \in pushes'
          PROVE  /\ q.expected <= store'.version /\ q.expected < q.oid
                 /\ q.oid <= lastOid' /\ q.expected # store'.version
      BY <3>1, <3>2, <3>3, <3>4 DEF PushInv
    <3> QED BY <3>5 DEF PushInv
  <2>2. CASE UNCHANGED store
    BY <1>3, <2>2, RemoteFrame DEF PushInv, Continues, Supersedes
  <2> QED BY <1>3, <2>1, <2>2, RemoteFrame
<1>4. CASE Tick
  <2>1. /\ UNCHANGED <<store, pushes, lastOid>> /\ clock' = clock + 1
    BY <1>4 DEF Tick, remote
  <2>2. \A p \in pushes : Supersedes(store.lease, p.lease) => Supersedes(store.lease, p.lease)'
    BY <2>1 DEF Supersedes, Record, Lease
  <2> QED BY <2>1, <2>2 DEF PushInv, Continues
<1>5. CASE UNCHANGED vars
  BY <1>5 DEF PushInv, Continues, Supersedes, vars, remote, clocks
<1> QED BY <1>1, <1>2, <1>3, <1>4, <1>5 DEF Next

(***************************************************************************)
(* Grants                                                                  *)
(***************************************************************************)

\* The lease that lands is granted by landing, and nobody's grant is undone.
LEMMA LandGrants ==
  ASSUME TypeOK, PushInv, GrantInv, NEW p \in pushes, Land(p)
  PROVE  /\ store'.lease = p.lease
         /\ Len(grants') > 0
         /\ store'.lease.generation = Len(grants')
         /\ TokenOf(store'.lease) = grants'[Len(grants')]
         /\ \A l \in Lease : Granted(l) => Granted(l)'
         /\ Granted(p.lease)'
<1>. /\ p \in Push /\ store \in Record /\ grants \in Seq(Token)
  BY DEF TypeOK
<1>1. /\ store.lease \in Lease /\ p.lease \in Lease /\ Len(grants) \in Nat
      /\ store'.lease = p.lease /\ TokenOf(p.lease) \in Token
      /\ store.lease.generation = Len(grants)
  BY DEF Record, Push, Land, GrantInv, TokenOf, Token, Lease
<1>2. CASE Supersedes(store.lease, p.lease)
  <2>1. p.lease.generation = Len(grants) + 1
    BY <1>1, <1>2 DEF Supersedes
  <2>2. grants' = Append(grants, TokenOf(p.lease))
    BY <1>1, <2>1 DEF Land, Lease
  <2>3. /\ Len(grants') = Len(grants) + 1 /\ grants'[Len(grants) + 1] = TokenOf(p.lease)
        /\ \A g \in 1..Len(grants) : grants'[g] = grants[g]
    BY <1>1, <2>2
  <2> QED BY <1>1, <2>1, <2>3 DEF Granted
<1>3. CASE Continues(store.lease, p.lease)
  <2>1. /\ p.lease.generation = store.lease.generation
        /\ TokenOf(p.lease) = TokenOf(store.lease) /\ ~store.lease.released
    BY <1>3 DEF Continues, TokenOf
  <2>2. grants' = grants
    BY <1>1, <2>1 DEF Land, Lease
  <2>3. Len(grants) # 0
    BY <2>1 DEF GrantInv
  <2>4. TokenOf(p.lease) = grants[Len(grants)] /\ p.lease.generation \in 1..Len(grants)
    BY <1>1, <2>1, <2>3 DEF GrantInv
  <2> QED BY <1>1, <2>1, <2>2, <2>3, <2>4 DEF Granted
<1> QED BY <1>2, <1>3 DEF PushInv, Land

\* Two leases with one token are granted together and name one holder.
LEMMA SameGrant ==
  ASSUME NEW a \in Lease, NEW b \in Lease, FencingMatches(a, b)
  PROVE  /\ Granted(b) => Granted(a)
         /\ a.holder = b.holder /\ a.generation = b.generation
BY DEF FencingMatches, TokenOf, Granted

\* The invariant of one session, which only that session's steps and the
\* landing of its push disturb.
SessionGrants(h) ==
  /\ Holds(h) => Granted(held[h]) /\ held[h].holder = h
  /\ task[h] \in {"renew", "verify", "release"}
       => Granted(arg[h]) /\ arg[h].holder = h
  /\ step[h] = "awaiting" => sent[h].lease.holder = h
  /\ step[h] = "landed" => Granted(sent[h].lease) /\ sent[h].lease.holder = h

LEMMA ReturnGrants ==
  ASSUME TypeOK, NEW h \in Home, NEW l, Return(h, l),
         l.generation > 0 => Granted(l) /\ l.holder = h
  PROVE  SessionGrants(h)'
BY DEF Return, SessionGrants, Holds, Granted, TypeOK, remote

LEMMA SessionGrantStep ==
  ASSUME TypeOK, SnapshotInv, PhaseInv, GrantInv, NEW h \in Home, Session(h)
  PROVE  SessionGrants(h)'
<1>. /\ held[h] \in Lease /\ store \in Record /\ seen[h] \in Record /\ arg[h] \in Lease
     /\ SessionGrants(h) /\ grants' = grants
  BY SessionFrame DEF TypeOK, GrantInv, SessionGrants
<1>1. CASE CallAcquire(h)
  BY <1>1 DEF CallAcquire, Call, SessionGrants, Holds, Granted, TypeOK
<1>2. CASE CallRenew(h) \/ CallVerify(h)
  BY <1>2 DEF CallRenew, CallVerify, Call, SessionGrants, Holds, Granted, TypeOK
<1>3. CASE CallRelease(h)
  <2>1. held'[h] \in {held[h], NoLease} /\ NoLease.generation = 0
    BY <1>3 DEF CallRelease, TypeOK, NoLease
  <2> QED BY <1>3, <2>1 DEF CallRelease, Call, SessionGrants, Holds, Granted, TypeOK
<1>4. CASE CallReleaseObserved(h)
  <2>1. Len(grants) \in Nat /\ Len(grants) > 0
    BY <1>4 DEF CallReleaseObserved, GrantInv, TypeOK
  <2>2. Granted(store.lease) /\ store.lease.holder = h
    BY <1>4, <2>1 DEF CallReleaseObserved, GrantInv, Granted
  <2> QED BY <1>4, <2>2 DEF CallReleaseObserved, Call, SessionGrants, Holds, Granted, TypeOK
<1>5. CASE Read(h)
  BY <1>5 DEF Read, SessionGrants, Holds, Granted, TypeOK
<1>6. CASE Submit(h)
  <2>1. Candidate(h).holder = h
    <3>1. CASE task[h] = "acquire"
      BY <3>1 DEF Candidate
    <3>2. CASE task[h] \in {"renew", "release"}
      <4>1. FencingMatches(seen[h].lease, arg[h])
        BY <1>6, <3>2 DEF Submit, Admits
      <4>2. seen[h].lease.holder = h
        BY <3>2, <4>1, SameGrant DEF SessionGrants, Record
      <4>3. CASE task[h] = "renew"
        <5>1. Candidate(h) = [seen[h].lease EXCEPT !.heartbeatAt = Wall(h),
                                                   !.expiresAt = Wall(h) + Ttl]
          BY <4>3 DEF Candidate
        <5> QED BY <4>2, <5>1 DEF Lease, Record
      <4>4. CASE task[h] = "release"
        <5>1. Candidate(h) = [seen[h].lease EXCEPT !.released = TRUE]
          BY <4>4 DEF Candidate
        <5> QED BY <4>2, <5>1 DEF Lease, Record
      <4> QED BY <3>2, <4>3, <4>4
    <3> QED BY <1>6, <3>1, <3>2 DEF Submit, TypeOK, PhaseInv
  <2>2. /\ step'[h] = "awaiting" /\ sent'[h].lease = Candidate(h)
        /\ UNCHANGED <<held, task, arg>>
    BY <1>6 DEF Submit, TypeOK
  <2> QED BY <2>1, <2>2 DEF SessionGrants, Holds, Granted
<1>7. CASE Confirm(h)
  <2>1. FencingMatches(seen[h].lease, arg[h])
    BY <1>7 DEF Confirm, Admits
  <2>2. Granted(seen[h].lease) /\ seen[h].lease.holder = h
    BY <1>7, <2>1, SameGrant DEF Confirm, SessionGrants, Record
  <2> QED BY <1>7, <2>2, ReturnGrants DEF Confirm
<1>8. CASE Refuse(h) \/ Settle(h)
  <2>1. NoLease.generation = 0
    BY DEF NoLease
  <2> QED BY <1>8, <2>1, ReturnGrants DEF Refuse, Settle
<1>9. CASE Acknowledge(h)
  <2>1. NoLease.generation = 0
    BY DEF NoLease
  <2> QED BY <1>9, <2>1, ReturnGrants DEF Acknowledge, SessionGrants
<1>10. CASE Fail(h)
  BY <1>10, ReturnGrants DEF Fail, SessionGrants, Holds
<1>11. CASE LoseAnswer(h)
  BY <1>11 DEF LoseAnswer, SessionGrants, Holds, Granted, TypeOK, remote
<1>12. CASE Crash(h)
  BY <1>12 DEF Crash, SessionGrants, Holds, Granted, TypeOK, remote, NoLease
<1>13. CASE StepClock(h)
  BY <1>13 DEF StepClock, SessionGrants, Holds, Granted, remote, operation
<1> QED
  BY <1>1, <1>2, <1>3, <1>4, <1>5, <1>6, <1>7, <1>8, <1>9, <1>10, <1>11, <1>12, <1>13
  DEF Session

LEMMA OtherSessions ==
  ASSUME TypeOK, NEW h \in Home, NEW g \in Home, g # h, Session(h)
  PROVE  /\ step'[g] = step[g] /\ task'[g] = task[g] /\ arg'[g] = arg[g]
         /\ sent'[g] = sent[g] /\ held'[g] = held[g] /\ gaveUp'[g] = gaveUp[g]
         /\ seen'[g] = seen[g]
<1>1. CASE CallAcquire(h) \/ CallRenew(h) \/ CallVerify(h) \/ CallRelease(h)
             \/ CallReleaseObserved(h)
  BY <1>1 DEF CallAcquire, CallRenew, CallVerify, CallRelease, CallReleaseObserved, Call,
              TypeOK
<1>2. CASE Confirm(h) \/ Refuse(h) \/ Acknowledge(h) \/ Settle(h) \/ Fail(h)
  BY <1>2 DEF Confirm, Refuse, Acknowledge, Settle, Fail, Return, TypeOK
<1>3. CASE Read(h) \/ Submit(h)
  BY <1>3 DEF Read, Submit, TypeOK
<1>4. CASE LoseAnswer(h) \/ Crash(h) \/ StepClock(h)
  BY <1>4 DEF LoseAnswer, Crash, StepClock, operation, TypeOK
<1> QED BY <1>1, <1>2, <1>3, <1>4 DEF Session

LEMMA GrantStep ==
  ASSUME TypeOK, SnapshotInv, PushInv, PhaseInv, GrantInv, [Next]_vars
  PROVE  GrantInv'
<1>1. ASSUME NEW h \in Home, Session(h) PROVE GrantInv'
  <2>1. store' = store /\ grants' = grants
    BY <1>1, SessionFrame
  <2>2. SessionGrants(h)'
    BY <1>1, SessionGrantStep
  <2>3. ASSUME NEW g \in Home, g # h PROVE SessionGrants(g)'
    BY <1>1, <2>1, <2>3, OtherSessions DEF GrantInv, SessionGrants, Holds, Granted
  <2>4. \A g \in Home : SessionGrants(g)'
    BY <2>2, <2>3
  <2> QED BY <2>1, <2>4 DEF GrantInv, SessionGrants
<1>2. ASSUME NEW p \in pushes, Remote(p) PROVE GrantInv'
  <2>. /\ UNCHANGED <<task, arg, sent, held>> /\ p \in Push
       /\ held \in [Home -> Lease] /\ arg \in [Home -> Lease] /\ sent \in [Home -> Push]
    BY <1>2, RemoteFrame DEF TypeOK
  <2>1. CASE Land(p)
    <3>1. \A l \in Lease : Granted(l) => Granted(l)'
      BY <2>1, LandGrants
    <3>2. ASSUME NEW h \in Home PROVE SessionGrants(h)'
      <4>1. /\ sent[h].lease \in Lease /\ arg[h] \in Lease /\ held[h] \in Lease
        BY DEF Push
      <4>2. \/ step'[h] = step[h]
            \/ step'[h] = "landed" /\ step[h] = "awaiting" /\ sent[h] = p
        BY <2>1 DEF Land, Answer
      <4>3. Granted(p.lease)'
        BY <2>1, LandGrants
      <4>4. /\ Holds(h)' => Granted(held[h])' /\ held[h].holder = h
            /\ task[h] \in {"renew", "verify", "release"}
                 => Granted(arg[h])' /\ arg[h].holder = h
        BY <3>1, <4>1 DEF GrantInv, Holds
      <4>5. step'[h] = "awaiting" => sent[h].lease.holder = h
        BY <4>2 DEF GrantInv
      <4>6. step'[h] = "landed" => Granted(sent[h].lease)' /\ sent[h].lease.holder = h
        BY <3>1, <4>1, <4>2, <4>3 DEF GrantInv
      <4> QED BY <4>4, <4>5, <4>6 DEF SessionGrants, Granted
    <3>3. /\ store'.lease.generation = Len(grants') /\ Len(grants') > 0
          /\ TokenOf(store'.lease) = grants'[Len(grants')]
      BY <2>1, LandGrants
    <3>4. Len(grants') # 0
      BY <3>3
    <3> QED BY <3>2, <3>3, <3>4 DEF GrantInv, SessionGrants
  <2>2. CASE Reject(p) \/ LosePush(p)
    <3>1. /\ UNCHANGED <<store, grants>>
          /\ \A h \in Home : step'[h] \in {step[h], "refused"}
      BY <2>2 DEF Reject, LosePush, Answer, operation
    <3> QED BY <3>1 DEF GrantInv, Holds, Granted
  <2> QED BY <1>2, <2>1, <2>2 DEF Remote
<1>3. CASE Tick
  BY <1>3 DEF Tick, GrantInv, Holds, Granted, remote, operation
<1>4. CASE UNCHANGED vars
  BY <1>4 DEF GrantInv, Holds, Granted, vars, remote, operation
<1> QED BY <1>1, <1>2, <1>3, <1>4 DEF Next

LEMMA PhaseStep ==
  ASSUME TypeOK, PhaseInv, [Next]_vars
  PROVE  PhaseInv'
<1>1. ASSUME NEW h \in Home, Session(h) PROVE PhaseInv'
  <2>1. step'[h] \in {"start", "decide"} => task'[h] # "none"
    <3>1. CASE CallAcquire(h) \/ CallRenew(h) \/ CallVerify(h) \/ CallRelease(h)
                 \/ CallReleaseObserved(h)
      BY <3>1 DEF CallAcquire, CallRenew, CallVerify, CallRelease, CallReleaseObserved, Call,
                  TypeOK
    <3>2. CASE Confirm(h) \/ Refuse(h) \/ Acknowledge(h) \/ Settle(h) \/ Fail(h)
      BY <3>2 DEF Confirm, Refuse, Acknowledge, Settle, Fail, Return, TypeOK
    <3>3. CASE Read(h) \/ Submit(h)
      BY <3>3 DEF Read, Submit, TypeOK, PhaseInv
    <3>4. CASE LoseAnswer(h) \/ Crash(h) \/ StepClock(h)
      BY <3>4 DEF LoseAnswer, Crash, StepClock, operation, TypeOK, PhaseInv
    <3> QED BY <1>1, <3>1, <3>2, <3>3, <3>4 DEF Session
  <2> QED BY <1>1, <2>1, OtherSessions DEF PhaseInv
<1>2. ASSUME NEW p \in pushes, Remote(p) PROVE PhaseInv'
  <2>1. \A h \in Home : step'[h] \in {step[h], "landed", "refused"}
    BY <1>2 DEF Remote, Land, Reject, LosePush, Answer, operation
  <2> QED BY <1>2, <2>1, RemoteFrame DEF PhaseInv
<1>3. CASE Tick \/ UNCHANGED vars
  BY <1>3 DEF Tick, PhaseInv, vars, operation
<1> QED BY <1>1, <1>2, <1>3 DEF Next

(***************************************************************************)
(* The inductive invariant                                                 *)
(***************************************************************************)

LEMMA InitInv == Init => LeaseInv
<1>. SUFFICES ASSUME Init PROVE LeaseInv
  OBVIOUS
<1>1. TypeOK
  BY InitType
<1>2. SnapshotInv /\ PushInv
  BY DEF Init, SnapshotInv, PushInv, NoRecord
<1>3. GrantInv
  BY DEF Init, GrantInv, NoRecord, NoLease, Holds
<1>4. PhaseInv
  BY DEF Init, PhaseInv
<1> QED BY <1>1, <1>2, <1>3, <1>4 DEF LeaseInv

LEMMA TypeStep ==
  ASSUME TypeOK, [Next]_vars
  PROVE  TypeOK'
BY SessionType, RemoteType, StutterType, TickType DEF Next

THEOREM Inductive == Spec => []LeaseInv
<1>1. LeaseInv /\ [Next]_vars => LeaseInv'
  BY TypeStep, SnapshotStep, PushStep, GrantStep, PhaseStep DEF LeaseInv
<1> QED BY <1>1, InitInv, PTL DEF Spec

\* No two acquisitions of the lease ever share a fencing token, and every
\* lease a session keeps carries the token its generation was granted with.
THEOREM FencingSafety == Spec => []FencingTokensAreUnique
<1>1. LeaseInv => FencingTokensAreUnique
  BY DEF LeaseInv, GrantInv, FencingTokensAreUnique, Granted, TypeOK
<1> QED BY <1>1, Inductive, PTL

\* The next-state facts the action properties rest on.
LEMMA StoreStep ==
  ASSUME LeaseInv, [Next]_vars, store' # store
  PROVE  \/ Continues(store.lease, store'.lease)
         \/ Supersedes(store.lease, store'.lease)
<1>1. PICK p \in pushes : Land(p)
  <2>1. ASSUME NEW h \in Home, Session(h) PROVE FALSE
    BY <2>1, SessionFrame DEF LeaseInv
  <2>2. ~Tick /\ ~UNCHANGED vars
    BY DEF Tick, vars, remote
  <2> QED BY <2>1, <2>2, RemoteFrame DEF Next
<1> QED BY <1>1 DEF Land, LeaseInv, PushInv

\* A live lease is never taken over, whatever lands late.
THEOREM Takeover == Spec => NoTakeoverOfLiveLease
<1>1. LeaseInv /\ [Next]_vars =>
        ((store'.lease.generation # store.lease.generation /\ ~store.lease.released)
         => store.lease.expiresAt <= clock + MaxSkew)
  BY StoreStep DEF Continues, Supersedes, TokenOf
<1> QED BY <1>1, Inductive, PTL DEF Spec, NoTakeoverOfLiveLease

\* A released generation never comes back.
THEOREM ReleaseStays == Spec => ReleaseIsFinal
<1>1. LeaseInv /\ [Next]_vars =>
        ((store.lease.released /\ store' # store)
         => /\ store'.lease.generation = store.lease.generation + 1
            /\ ~store'.lease.released)
  BY StoreStep DEF Continues, Supersedes
<1> QED BY <1>1, Inductive, PTL DEF Spec, ReleaseIsFinal

(***************************************************************************)
(* How long a kept lease may be relied on                                  *)
(***************************************************************************)

\* The ref still carries l's token, at least as long as l says.
Current(l) == /\ FencingMatches(store.lease, l)
              /\ ~store.lease.released
              /\ l.expiresAt <= store.lease.expiresAt

\* l is current, or over on every clock, or its session asked to release it.
Covered(l) ==
  l.holder \in Home => \/ l.generation \in gaveUp[l.holder]
                       \/ l.expiresAt <= clock + MaxSkew
                       \/ Current(l)

\* No lease outlives its holder's wall clock by more than the TTL.
WithinTtl(l) == l.holder \in Home => l.expiresAt <= Wall(l.holder) + Ttl

TtlInv == /\ WithinTtl(store.lease)
          /\ \A h \in Home : WithinTtl(seen[h].lease)
          /\ \A p \in pushes : WithinTtl(p.lease)

\* A push that goes on with a lease shortens it only by releasing it, and
\* only a session that asked for it does.
RenewalInv ==
  \A p \in pushes :
    /\ (p.expected = store.version /\ Continues(store.lease, p.lease))
         => store.lease.expiresAt <= p.lease.expiresAt
    /\ p.lease.released => /\ p.lease.holder \in Home
                           /\ p.lease.generation \in gaveUp[p.lease.holder]

CoverInv ==
  \A h \in Home :
    /\ task[h] = "release" => arg[h].generation \in gaveUp[h]
    /\ step[h] = "awaiting" /\ sent[h].lease.released => task[h] = "release"
    /\ Holds(h) => Covered(held[h])
    /\ step[h] = "decide" /\ ~seen[h].lease.released => Covered(seen[h].lease)
    /\ step[h] = "landed" /\ task[h] # "release" => Covered(sent[h].lease)

KeptInv == TtlInv /\ RenewalInv /\ CoverInv

LEMMA WallStep ==
  ASSUME TypeOK, ~ClockSteps, [Next]_vars
  PROVE  /\ \A h \in Home : Wall(h) \in Nat /\ Wall(h)' \in Nat /\ Wall(h) <= Wall(h)'
         /\ clock \in Nat /\ clock' \in Nat /\ clock <= clock'
<1>1. TypeOK'
  BY TypeStep
<1>2. skew' = skew
  <2>1. ASSUME NEW h \in Home, Session(h) PROVE skew' = skew
    BY <2>1 DEF Session, CallAcquire, CallRenew, CallVerify, CallRelease,
       CallReleaseObserved, Call, Read, Submit, Confirm, Refuse, Acknowledge, LoseAnswer,
       Settle, Fail, Return, Crash, StepClock, clocks
  <2> QED BY <2>1, RemoteFrame DEF Next, Tick, vars, clocks
<1>3. clock \in Nat /\ clock <= clock'
  <2>1. clock \in Nat
    BY DEF TypeOK
  <2>2. ASSUME NEW h \in Home, Session(h) PROVE clock' = clock
    BY <2>2, SessionFrame
  <2>3. ASSUME NEW p \in pushes, Remote(p) PROVE clock' = clock
    BY <2>3, RemoteFrame
  <2> QED BY <2>1, <2>2, <2>3 DEF Next, Tick, vars, clocks
<1> QED BY <1>1, <1>2, <1>3 DEF Wall, TypeOK

LEMMA WithinTtlStep ==
  ASSUME TypeOK, ~ClockSteps, [Next]_vars, NEW l \in Lease, WithinTtl(l)
  PROVE  WithinTtl(l)'
<1>. l.expiresAt \in Nat
  BY DEF Lease
<1> QED BY WallStep DEF WithinTtl

LEMMA CandidateTtl ==
  ASSUME TypeOK, NEW h \in Home, task[h] \in {"acquire", "renew", "release"}, Admits(h),
         WithinTtl(seen[h].lease),
         task[h] # "acquire" => arg[h].holder = h
  PROVE  /\ WithinTtl(Candidate(h))
         /\ Continues(seen[h].lease, Candidate(h))
              => seen[h].lease.expiresAt <= Candidate(h).expiresAt
         /\ Candidate(h).released <=> task[h] = "release"
         /\ task[h] = "release" => TokenOf(Candidate(h)) = TokenOf(arg[h])
<1>. /\ seen[h].lease \in Lease /\ arg[h] \in Lease /\ Wall(h) \in Nat
  BY DEF TypeOK, Record, Wall
<1>1. CASE task[h] = "acquire"
  BY <1>1 DEF Candidate, WithinTtl, Continues, TokenOf, Lease
<1>2. CASE task[h] = "renew"
  <2>1. Candidate(h) = [seen[h].lease EXCEPT !.heartbeatAt = Wall(h),
                                             !.expiresAt = Wall(h) + Ttl]
    BY <1>2 DEF Candidate
  <2>2. seen[h].lease.holder = h /\ ~seen[h].lease.released
    BY <1>2, SameGrant DEF Admits
  <2> QED BY <1>2, <2>1, <2>2 DEF WithinTtl, Lease
<1>3. CASE task[h] = "release"
  <2>1. Candidate(h) = [seen[h].lease EXCEPT !.released = TRUE]
    BY <1>3 DEF Candidate
  <2>2. TokenOf(seen[h].lease) = TokenOf(arg[h])
    BY <1>3 DEF Admits, FencingMatches
  <2> QED BY <1>3, <2>1, <2>2 DEF WithinTtl, Lease, TokenOf
<1> QED BY <1>1, <1>2, <1>3

LEMMA TtlStep ==
  ASSUME LeaseInv, KeptInv, ~ClockSteps, [Next]_vars
  PROVE  TtlInv'
<1>. /\ TypeOK /\ store \in Record /\ seen \in [Home -> Record] /\ pushes \subseteq Push
     /\ store.lease \in Lease /\ TtlInv
  BY DEF LeaseInv, TypeOK, Record, KeptInv
<1>1. \A l \in Lease : WithinTtl(l) => WithinTtl(l)'
  BY WithinTtlStep
<1>2. WithinTtl(NoLease)'
  BY HomeAssumption DEF WithinTtl, NoLease
<1>3. ASSUME NEW h \in Home, Session(h) PROVE TtlInv'
  <2>1. WithinTtl(store.lease)' /\ store' = store
    BY <1>1, <1>3, SessionFrame DEF TtlInv
  <2>2. \A g \in Home : WithinTtl(seen[g].lease)'
    <3>1. \A g \in Home : seen'[g] \in {seen[g], NoRecord, store}
      BY <1>3, SessionFrame
    <3>2. NoRecord.lease = NoLease
      BY DEF NoRecord
    <3>3. ASSUME NEW g \in Home PROVE WithinTtl(seen[g].lease)'
      <4>1. CASE seen'[g] = NoRecord
        BY <1>2, <3>2, <4>1 DEF WithinTtl, Wall
      <4>2. CASE seen'[g] = store
        BY <2>1, <4>2 DEF WithinTtl, Wall
      <4>3. CASE seen'[g] = seen[g]
        <5>1. seen[g].lease \in Lease /\ WithinTtl(seen[g].lease)
          BY DEF TtlInv, Record
        <5> QED BY <1>1, <4>3, <5>1 DEF WithinTtl, Wall
      <4> QED BY <3>1, <4>1, <4>2, <4>3
    <3> QED BY <3>3
  <2>3. \A p \in pushes' : WithinTtl(p.lease)'
    <3>1. \A p \in pushes : WithinTtl(p.lease)'
      BY <1>1 DEF TtlInv, Push
    <3>2. CASE Submit(h)
      <4>1. task[h] \in {"acquire", "renew", "release"} /\ Admits(h)
        BY <3>2 DEF Submit, LeaseInv, PhaseInv, TypeOK
      <4>2. task[h] # "acquire" => arg[h].holder = h
        BY <4>1 DEF LeaseInv, GrantInv
      <4>3. WithinTtl(Candidate(h)) /\ Candidate(h) \in Lease
        BY <4>1, <4>2, CandidateTtl, CandidateType DEF TtlInv
      <4>4. \A p \in pushes' : p \in pushes \/ p.lease = Candidate(h)
        BY <3>2 DEF Submit, TypeOK
      <4>5. WithinTtl(Candidate(h)) => (\A p \in pushes' : p.lease = Candidate(h)
                                                            => WithinTtl(p.lease)')
        BY <3>2, <1>3, WallStep DEF Submit, clocks, WithinTtl, Wall
      <4> QED BY <3>1, <4>3, <4>4, <4>5
    <3> QED BY <1>3, <3>1, <3>2, SessionFrame
  <2> QED BY <2>1, <2>2, <2>3 DEF TtlInv
<1>4. ASSUME NEW p \in pushes, Remote(p) PROVE TtlInv'
  <2>1. seen' = seen /\ pushes' \subseteq pushes /\ (store' = store \/ store'.lease = p.lease)
    BY <1>4, RemoteFrame DEF Land
  <2>2. \A q \in pushes : q.lease \in Lease /\ WithinTtl(q.lease)'
    BY <1>1 DEF TtlInv, Push
  <2>3. \A g \in Home : seen[g].lease \in Lease /\ WithinTtl(seen[g].lease)
    BY DEF TtlInv, Record
  <2>4. \A g \in Home : WithinTtl(seen[g].lease)'
    BY <1>1, <2>1, <2>3 DEF WithinTtl, Wall
  <2>5. WithinTtl(store.lease)'
    BY <1>1, <2>1, <2>2 DEF TtlInv, WithinTtl, Wall
  <2> QED BY <2>1, <2>2, <2>4, <2>5 DEF TtlInv
<1>5. CASE Tick \/ UNCHANGED vars
  <2>1. UNCHANGED <<store, pushes, seen>>
    BY <1>5 DEF Tick, vars, remote, operation
  <2>2. \A g \in Home : seen[g].lease \in Lease
    BY DEF Record
  <2>3. \A q \in pushes : q.lease \in Lease
    BY DEF Push
  <2> QED BY <1>1, <2>1, <2>2, <2>3 DEF TtlInv, WithinTtl, Wall
<1> QED BY <1>3, <1>4, <1>5 DEF Next

LEMMA GaveUpGrows ==
  ASSUME TypeOK, [Next]_vars
  PROVE  \A h \in Home : gaveUp[h] \subseteq gaveUp'[h]
<1>1. ASSUME NEW h \in Home, Session(h) PROVE gaveUp[h] \subseteq gaveUp'[h]
  <2>1. CASE CallRelease(h) \/ CallReleaseObserved(h)
    BY <2>1 DEF CallRelease, CallReleaseObserved, TypeOK
  <2>2. CASE ~(CallRelease(h) \/ CallReleaseObserved(h))
    BY <1>1, <2>2 DEF Session, CallAcquire, CallRenew, CallVerify, Read, Submit, Confirm,
       Refuse, Acknowledge, LoseAnswer, Settle, Fail, Return, Crash, StepClock
  <2> QED BY <2>1, <2>2
<1> QED BY <1>1, OtherSessions, RemoteFrame DEF Next, Tick, vars

LEMMA RenewalStep ==
  ASSUME LeaseInv, KeptInv, ~ClockSteps, [Next]_vars
  PROVE  RenewalInv'
<1>. /\ TypeOK /\ store \in Record /\ seen \in [Home -> Record] /\ pushes \subseteq Push
     /\ TtlInv /\ RenewalInv /\ CoverInv /\ SnapshotInv /\ PushInv /\ GrantInv
  BY DEF LeaseInv, TypeOK, KeptInv
<1>1. \A h \in Home : gaveUp[h] \subseteq gaveUp'[h]
  BY GaveUpGrows
<1>2. ASSUME NEW h \in Home, Submit(h) PROVE RenewalInv'
  <2> DEFINE new == [oid |-> lastOid + 1, expected |-> seen[h].version,
                     lease |-> Candidate(h)]
  <2>1. pushes' = pushes \cup {new} /\ store' = store
    BY <1>2 DEF Submit, TypeOK
  <2>2. task[h] \in {"acquire", "renew", "release"} /\ Admits(h)
    BY <1>2 DEF Submit, LeaseInv, PhaseInv, TypeOK
  <2>3. task[h] # "acquire" => arg[h].holder = h
    BY <2>2 DEF GrantInv
  <2>4. /\ Continues(seen[h].lease, Candidate(h))
             => seen[h].lease.expiresAt <= Candidate(h).expiresAt
        /\ Candidate(h).released <=> task[h] = "release"
        /\ task[h] = "release" => TokenOf(Candidate(h)) = TokenOf(arg[h])
    BY <2>2, <2>3, CandidateTtl DEF TtlInv
  <2>5. seen[h].version = store.version => seen[h].lease = store.lease
    BY DEF SnapshotInv
  <2>6. Candidate(h).released => /\ Candidate(h).holder = h
                                 /\ Candidate(h).generation \in gaveUp[h]
    BY <2>3, <2>4 DEF TokenOf, CoverInv
  <2> QED BY <1>1, <2>1, <2>4, <2>5, <2>6 DEF RenewalInv, Continues
<1>3. ASSUME NEW h \in Home, Session(h), ~Submit(h) PROVE RenewalInv'
  <2>1. store' = store /\ pushes' = pushes
    BY <1>3, SessionFrame
  <2> QED BY <1>1, <2>1 DEF RenewalInv, Continues
<1>4. ASSUME NEW p \in pushes, Remote(p) PROVE RenewalInv'
  <2>1. CASE Land(p)
    <3>1. /\ store'.version = p.oid /\ p.expected = store.version /\ pushes' \subseteq pushes
          /\ gaveUp' = gaveUp
      BY <2>1 DEF Land
    <3>2. \A q \in pushes : /\ q.expected \in Nat /\ q.oid \in Nat
                            /\ q.expected <= store.version /\ q.expected < q.oid
      BY DEF PushInv, Push
    <3>3. \A q \in pushes' : q.expected # store'.version
      BY <3>1, <3>2
    <3> QED BY <3>1, <3>3 DEF RenewalInv
  <2>2. CASE UNCHANGED store
    BY <1>4, <2>2, RemoteFrame DEF RenewalInv, Continues
  <2> QED BY <1>4, <2>1, <2>2, RemoteFrame
<1>5. CASE Tick \/ UNCHANGED vars
  BY <1>5 DEF Tick, RenewalInv, Continues, vars, remote
<1> QED BY <1>2, <1>3, <1>4, <1>5 DEF Next

\* A covered lease stays covered, in particular when another session takes
\* the lease over and when the holder's own renewal or release lands.
LEMMA CoveredStep ==
  ASSUME LeaseInv, KeptInv, ~ClockSteps, [Next]_vars, NEW l \in Lease, Covered(l)
  PROVE  Covered(l)'
<1>. /\ TypeOK /\ store \in Record /\ store.lease \in Lease /\ l.expiresAt \in Nat
     /\ pushes \subseteq Push /\ MaxSkew \in Nat
  BY DEF LeaseInv, TypeOK, Record, Lease
<1>1. clock \in Nat /\ clock' \in Nat /\ clock <= clock'
  BY WallStep
<1>2. \A h \in Home : gaveUp[h] \subseteq gaveUp'[h]
  BY GaveUpGrows
<1>3. CASE store' = store
  BY <1>1, <1>2, <1>3 DEF Covered, Current
<1>4. CASE store' # store
  <2>1. PICK p \in pushes : Land(p)
    <3>1. ASSUME NEW h \in Home, Session(h) PROVE FALSE
      BY <1>4, <3>1, SessionFrame
    <3>2. ~Tick /\ ~UNCHANGED vars
      BY <1>4 DEF Tick, vars, remote
    <3> QED BY <1>4, <3>1, <3>2, RemoteFrame DEF Next
  <2>2. /\ store'.lease = p.lease /\ p.expected = store.version /\ clock' = clock
        /\ gaveUp' = gaveUp /\ p.lease \in Lease
    BY <2>1 DEF Land, clocks, Push
  <2>3. CASE Current(l) /\ l.holder \in Home
    <3>0. /\ store.lease.expiresAt \in Nat /\ p.lease.expiresAt \in Nat
          /\ ~store.lease.released /\ l.expiresAt <= store.lease.expiresAt
          /\ TokenOf(store.lease) = TokenOf(l)
      BY <2>2, <2>3 DEF Current, Lease, FencingMatches
    <3>1. CASE Supersedes(store.lease, p.lease)
      <4>1. l.expiresAt <= clock + MaxSkew
        BY <1>1, <3>0, <3>1 DEF Supersedes
      <4> QED BY <2>2, <4>1 DEF Covered
    <3>2. CASE Continues(store.lease, p.lease)
      <4>1. store.lease.expiresAt <= p.lease.expiresAt
        BY <2>2, <3>2 DEF KeptInv, RenewalInv
      <4>2. TokenOf(p.lease) = TokenOf(l)
        BY <3>0, <3>2 DEF Continues
      <4>3. CASE p.lease.released
        BY <2>2, <4>2, <4>3 DEF KeptInv, RenewalInv, Covered, TokenOf
      <4>4. CASE ~p.lease.released
        BY <2>2, <3>0, <4>1, <4>2, <4>4 DEF Covered, Current, FencingMatches
      <4> QED BY <4>3, <4>4
    <3> QED BY <2>2, <3>1, <3>2 DEF LeaseInv, PushInv
  <2> QED BY <2>2, <2>3 DEF Covered
<1> QED BY <1>3, <1>4

\* The part of CoverInv that speaks of one session.
SessionCover(h) ==
  /\ task[h] = "release" => arg[h].generation \in gaveUp[h]
  /\ step[h] = "awaiting" /\ sent[h].lease.released => task[h] = "release"
  /\ Holds(h) => Covered(held[h])
  /\ step[h] = "decide" /\ ~seen[h].lease.released => Covered(seen[h].lease)
  /\ step[h] = "landed" /\ task[h] # "release" => Covered(sent[h].lease)

\* Covered in the next state of a lease taken from this one.
CoveredNext(l) ==
  l.holder \in Home => \/ l.generation \in gaveUp'[l.holder]
                       \/ l.expiresAt <= clock' + MaxSkew
                       \/ /\ FencingMatches(store'.lease, l)
                          /\ ~store'.lease.released
                          /\ l.expiresAt <= store'.lease.expiresAt

LEMMA CoveredAfter ==
  ASSUME LeaseInv, KeptInv, ~ClockSteps, [Next]_vars
  PROVE  \A l \in Lease : Covered(l) => CoveredNext(l)
<1>1. ASSUME NEW l \in Lease, Covered(l) PROVE CoveredNext(l)
  BY <1>1, CoveredStep DEF Covered, CoveredNext, Current
<1> QED BY <1>1

LEMMA ReturnCover ==
  ASSUME TypeOK, NEW h \in Home, NEW l, Return(h, l),
         l.generation > 0 => CoveredNext(l)
  PROVE  SessionCover(h)'
BY DEF Return, SessionCover, Holds, TypeOK, Covered, CoveredNext, Current

LEMMA SessionCoverStep ==
  ASSUME LeaseInv, KeptInv, ~ClockSteps, NEW h \in Home, Session(h)
  PROVE  SessionCover(h)'
<1>. /\ TypeOK /\ held[h] \in Lease /\ store \in Record /\ seen[h] \in Record
     /\ arg[h] \in Lease /\ sent[h] \in Push /\ SessionCover(h)
  BY DEF LeaseInv, TypeOK, KeptInv, CoverInv, SessionCover
<1>0. \A l \in Lease : Covered(l) => CoveredNext(l)
  BY CoveredAfter DEF Next
<1>a. Holds(h) => CoveredNext(held[h])
  BY <1>0 DEF SessionCover
<1>b. NoLease.generation = 0
  BY DEF NoLease
<1>1. CASE CallAcquire(h) \/ CallRenew(h) \/ CallVerify(h)
  <2>1. /\ step'[h] = "start" /\ task'[h] # "release" /\ held' = held
    BY <1>1 DEF CallAcquire, CallRenew, CallVerify, Call, TypeOK
  <2> QED BY <1>a, <2>1 DEF SessionCover, Holds, Covered, CoveredNext, Current
<1>2. CASE CallRelease(h)
  <2>1. /\ step'[h] = "start" /\ arg'[h] = held[h] /\ held'[h] \in {held[h], NoLease}
        /\ held[h].generation \in gaveUp'[h]
    BY <1>2 DEF CallRelease, Call, TypeOK
  <2> QED BY <1>a, <1>b, <2>1 DEF SessionCover, Holds, Covered, CoveredNext, Current
<1>3. CASE CallReleaseObserved(h)
  <2>1. /\ step'[h] = "start" /\ arg'[h] = store.lease /\ held' = held
        /\ store.lease.generation \in gaveUp'[h]
    BY <1>3 DEF CallReleaseObserved, Call, TypeOK
  <2> QED BY <1>a, <2>1 DEF SessionCover, Holds, Covered, CoveredNext, Current
<1>4. CASE Read(h)
  <2>1. /\ step'[h] = "decide" /\ seen'[h] = store /\ UNCHANGED <<task, arg, held, gaveUp>>
        /\ store' = store
    BY <1>4 DEF Read, TypeOK, remote
  <2>2. ~store.lease.released => Covered(store.lease)'
    BY <2>1 DEF Covered, Current, FencingMatches, Record, Lease
  <2> QED BY <1>a, <2>1, <2>2 DEF SessionCover, Holds, Covered, CoveredNext, Current
<1>5. CASE Submit(h)
  <2>1. /\ step'[h] = "awaiting" /\ sent'[h].lease = Candidate(h)
        /\ UNCHANGED <<task, arg, held, gaveUp>>
    BY <1>5 DEF Submit, TypeOK
  <2>2. task[h] \in {"acquire", "renew", "release"} /\ Admits(h)
    BY <1>5 DEF Submit, LeaseInv, PhaseInv, TypeOK
  <2>3. task[h] # "acquire" => arg[h].holder = h
    BY <2>2 DEF LeaseInv, GrantInv
  <2>4. Candidate(h).released => task[h] = "release"
    BY <2>2, <2>3, CandidateTtl DEF KeptInv, TtlInv
  <2> QED BY <1>a, <2>1, <2>4 DEF SessionCover, Holds, Covered, CoveredNext, Current
<1>6. CASE Confirm(h)
  <2>1. ~seen[h].lease.released /\ step[h] = "decide"
    BY <1>6 DEF Confirm, Admits
  <2>2. CoveredNext(seen[h].lease)
    BY <1>0, <2>1 DEF SessionCover, Record
  <2> QED BY <1>6, <2>2, ReturnCover DEF Confirm
<1>7. CASE Refuse(h) \/ Settle(h)
  BY <1>7, <1>b, ReturnCover DEF Refuse, Settle
<1>8. CASE Acknowledge(h)
  <2>1. task[h] # "release" => CoveredNext(sent[h].lease)
    BY <1>0, <1>8 DEF Acknowledge, SessionCover, Push
  <2> QED BY <1>8, <1>b, <2>1, ReturnCover DEF Acknowledge
<1>9. CASE Fail(h)
  BY <1>9, <1>a, ReturnCover DEF Fail, Holds
<1>10. CASE LoseAnswer(h)
  <2>1. step'[h] = "refused" /\ UNCHANGED <<task, arg, seen, sent, held, gaveUp, store, clock>>
    BY <1>10 DEF LoseAnswer, TypeOK, remote, clocks
  <2> QED BY <1>a, <2>1 DEF SessionCover, Holds, Covered, CoveredNext, Current
<1>11. CASE Crash(h)
  <2>1. step'[h] = "crashed" /\ task'[h] = "none" /\ held'[h] = NoLease
    BY <1>11 DEF Crash, TypeOK
  <2> QED BY <1>b, <2>1 DEF SessionCover, Holds
<1>12. CASE StepClock(h)
  BY <1>12 DEF StepClock
<1> QED
  BY <1>1, <1>2, <1>3, <1>4, <1>5, <1>6, <1>7, <1>8, <1>9, <1>10, <1>11, <1>12 DEF Session

LEMMA CoverStep ==
  ASSUME LeaseInv, KeptInv, ~ClockSteps, [Next]_vars
  PROVE  CoverInv'
<1>. /\ TypeOK /\ held \in [Home -> Lease] /\ seen \in [Home -> Record]
     /\ sent \in [Home -> Push] /\ store \in Record /\ CoverInv
  BY DEF LeaseInv, TypeOK, KeptInv
<1>0. \A l \in Lease : Covered(l) => Covered(l)'
  BY CoveredStep
<1>a. \A g \in Home : held[g] \in Lease /\ seen[g].lease \in Lease /\ sent[g].lease \in Lease
  BY DEF Record, Push
<1>1. ASSUME NEW h \in Home, Session(h) PROVE CoverInv'
  <2>1. SessionCover(h)'
    BY <1>1, SessionCoverStep
  <2>2. ASSUME NEW g \in Home, g # h PROVE SessionCover(g)'
    <3>1. /\ step'[g] = step[g] /\ task'[g] = task[g] /\ arg'[g] = arg[g]
          /\ sent'[g] = sent[g] /\ held'[g] = held[g] /\ gaveUp'[g] = gaveUp[g]
          /\ seen'[g] = seen[g]
      BY <1>1, <2>2, OtherSessions
    <3>2. /\ Holds(g) => Covered(held[g])'
          /\ step[g] = "decide" /\ ~seen[g].lease.released => Covered(seen[g].lease)'
          /\ step[g] = "landed" /\ task[g] # "release" => Covered(sent[g].lease)'
      BY <1>0, <1>a, <3>1 DEF CoverInv, Covered, Current
    <3> QED BY <3>1, <3>2 DEF CoverInv, SessionCover, Holds
  <2>3. \A g \in Home : SessionCover(g)'
    BY <2>1, <2>2
  <2> QED BY <2>3 DEF CoverInv, SessionCover
<1>2. ASSUME NEW p \in pushes, Remote(p) PROVE CoverInv'
  <2>1. UNCHANGED <<task, arg, seen, sent, held, gaveUp, clock>>
    BY <1>2, RemoteFrame
  <2>2. ASSUME NEW g \in Home PROVE SessionCover(g)'
    <3>1. \/ step'[g] = step[g]
          \/ step'[g] = "refused"
          \/ step'[g] = "landed" /\ step[g] = "awaiting" /\ sent[g] = p /\ Land(p)
      BY <1>2 DEF Remote, Land, Reject, LosePush, Answer, operation
    <3>2. (step[g] = "awaiting" /\ sent[g] = p /\ Land(p) /\ task[g] # "release")
            => Covered(p.lease)'
      <4>1. ASSUME Land(p), ~p.lease.released PROVE Current(p.lease)'
        <5>1. p.lease \in Lease /\ store'.lease = p.lease
          BY <4>1 DEF Land, TypeOK, Push
        <5>2. p.lease.expiresAt \in Nat
          BY <5>1 DEF Lease
        <5> QED BY <4>1, <5>1, <5>2 DEF Current, FencingMatches
      <4> QED BY <4>1 DEF CoverInv, Covered
    <3>3. /\ Holds(g) => Covered(held[g])'
          /\ step[g] = "decide" /\ ~seen[g].lease.released => Covered(seen[g].lease)'
          /\ step[g] = "landed" /\ task[g] # "release" => Covered(sent[g].lease)'
      BY <1>0, <1>a, <2>1 DEF CoverInv, Covered, Current
    <3> QED BY <2>1, <3>1, <3>2, <3>3 DEF CoverInv, SessionCover, Holds
  <2> QED BY <2>2 DEF CoverInv, SessionCover
<1>3. CASE Tick \/ UNCHANGED vars
  <2>1. UNCHANGED <<store, step, task, arg, seen, sent, held, gaveUp>>
    BY <1>3 DEF Tick, vars, remote, operation
  <2>2. ASSUME NEW g \in Home PROVE SessionCover(g)'
    BY <1>0, <1>a, <2>1 DEF CoverInv, SessionCover, Holds, Covered, Current
  <2> QED BY <2>2 DEF CoverInv, SessionCover
<1> QED BY <1>1, <1>2, <1>3 DEF Next

\* A session may rely on a lease it keeps, and did not ask to release, until
\* the lease's expiry less the skew, if wall clocks are not stepped.
THEOREM KeptLease == ASSUME ~ClockSteps PROVE Spec => []KeptLeaseIsCurrent
<1>1. Init => KeptInv
  BY DEF Init, KeptInv, TtlInv, RenewalInv, CoverInv, WithinTtl, NoRecord, NoLease, Holds
<1>2. LeaseInv /\ KeptInv /\ [Next]_vars => KeptInv'
  BY TtlStep, RenewalStep, CoverStep DEF KeptInv
<1>3. LeaseInv /\ KeptInv => KeptLeaseIsCurrent
  <2>1. ASSUME LeaseInv, KeptInv, NEW h \in Home, Holds(h),
               held[h].generation \notin gaveUp[h], held[h].expiresAt > clock + MaxSkew
        PROVE  Current(held[h])
    <3>1. Covered(held[h]) /\ held[h].holder = h
      BY <2>1 DEF KeptInv, CoverInv, LeaseInv, GrantInv
    <3>2. held[h].expiresAt \in Nat /\ clock + MaxSkew \in Nat
      BY <2>1 DEF LeaseInv, TypeOK, Lease
    <3> QED BY <2>1, <3>1, <3>2 DEF Covered
  <2> QED BY <2>1 DEF KeptLeaseIsCurrent, Current
<1> QED BY <1>1, <1>2, <1>3, Inductive, PTL DEF Spec

(***************************************************************************)
(* The ref protocol implements the fenced lease                            *)
(***************************************************************************)

Holders == [g \in 1..Len(grants) |-> grants[g].holder]
Beliefs == [h \in Home |-> held[h].generation]

\* The lease a session keeps after a step: what it kept, none, or one that
\* was granted to it.
LEMMA HeldStep ==
  ASSUME LeaseInv, NEW h \in Home, Session(h)
  PROVE  \/ held' = held
         \/ \E l \in Lease : /\ held' = [held EXCEPT ![h] = l]
                             /\ l.generation = 0 \/ (Granted(l) /\ l.holder = h)
<1>. /\ TypeOK /\ held \in [Home -> Lease] /\ seen[h] \in Record /\ sent[h] \in Push
     /\ arg[h] \in Lease /\ NoLease \in Lease /\ NoLease.generation = 0
  BY ConstantTypes DEF LeaseInv, TypeOK, NoLease
<1>1. CASE Confirm(h)
  <2>1. FencingMatches(seen[h].lease, arg[h]) /\ task[h] = "verify"
    BY <1>1 DEF Confirm, Admits
  <2>2. Granted(seen[h].lease) /\ seen[h].lease.holder = h
    BY <2>1, SameGrant DEF LeaseInv, GrantInv, Record
  <2> QED BY <1>1, <2>2 DEF Confirm, Return, Record
<1>2. CASE Refuse(h) \/ Settle(h)
  BY <1>2 DEF Refuse, Settle, Return
<1>3. CASE Acknowledge(h)
  <2>1. Granted(sent[h].lease) /\ sent[h].lease.holder = h /\ sent[h].lease \in Lease
    BY <1>3 DEF Acknowledge, LeaseInv, GrantInv, Push
  <2> QED BY <1>3, <2>1 DEF Acknowledge, Return
<1>4. CASE Fail(h)
  <2>1. held' = held
    BY <1>4 DEF Fail, Return
  <2> QED BY <2>1
<1>5. CASE CallRelease(h) \/ Crash(h)
  BY <1>5 DEF CallRelease, Crash
<1>6. CASE CallAcquire(h) \/ CallRenew(h) \/ CallVerify(h) \/ CallReleaseObserved(h)
           \/ Read(h) \/ Submit(h) \/ LoseAnswer(h) \/ StepClock(h)
  BY <1>6 DEF CallAcquire, CallRenew, CallVerify, CallReleaseObserved, Read, Submit,
              LoseAnswer, StepClock
<1> QED BY <1>1, <1>2, <1>3, <1>4, <1>5, <1>6 DEF Session

LEMMA SessionImplements ==
  ASSUME LeaseInv, NEW h \in Home, Session(h)
  PROVE  Promise!Next \/ UNCHANGED Promise!vars
<1>. held \in [Home -> Lease] /\ grants \in Seq(Token) /\ Len(grants) \in Nat
  BY DEF LeaseInv, TypeOK
<1>1. UNCHANGED <<store, grants>>
  BY SessionFrame DEF LeaseInv
<1>2. CASE held' = held
  BY <1>1, <1>2 DEF Promise!vars
<1>3. ASSUME NEW l \in Lease, held' = [held EXCEPT ![h] = l],
             l.generation = 0 \/ (Granted(l) /\ l.holder = h)
      PROVE  Promise!Next
  <2>1. Beliefs' = [Beliefs EXCEPT ![h] = l.generation]
    BY <1>3 DEF Beliefs
  <2>2. CASE l.generation = 0
    <3>1. Promise!Forget(h)
      BY <1>1, <2>1, <2>2 DEF Promise!Forget, Beliefs
    <3> QED BY <3>1 DEF Promise!Next
  <2>3. CASE Granted(l) /\ l.holder = h
    <3>1. l.generation \in 1..Len(grants) /\ Holders[l.generation] = h
      BY <2>3 DEF Granted, TokenOf, Holders
    <3>2. Len(Holders) = Len(grants)
      BY DEF Holders
    <3>3. Promise!Learn(h)
      BY <1>1, <2>1, <3>1, <3>2 DEF Promise!Learn, Beliefs, Holders
    <3> QED BY <3>3 DEF Promise!Next
  <2> QED BY <1>3, <2>2, <2>3
<1> QED BY <1>2, <1>3, HeldStep

LEMMA LandImplements ==
  ASSUME LeaseInv, NEW p \in pushes, Land(p)
  PROVE  Promise!Next \/ UNCHANGED Promise!vars
<1>. /\ TypeOK /\ grants \in Seq(Token) /\ Len(grants) \in Nat
     /\ store.lease \in Lease /\ p.lease \in Lease
     /\ held' = held /\ store'.lease = p.lease
     /\ store.lease.generation = Len(grants)
  BY DEF LeaseInv, TypeOK, Record, Push, Land, GrantInv
<1>1. CASE Supersedes(store.lease, p.lease)
  <2>1. grants' = Append(grants, TokenOf(p.lease)) /\ TokenOf(p.lease) \in Token
    BY <1>1 DEF Land, Supersedes, TokenOf, Token, Lease
  <2>2. /\ Len(grants') = Len(grants) + 1
        /\ \A g \in 1..Len(grants) : grants'[g] = grants[g]
        /\ grants'[Len(grants) + 1] = TokenOf(p.lease)
    BY <2>1
  <2>3. Holders \in Seq(Home \cup {NoHome}) /\ Len(Holders) = Len(grants)
    <3>1. \A g \in 1..Len(grants) : grants[g].holder \in Home \cup {NoHome}
      <4>1. \A g \in 1..Len(grants) : grants[g] \in Token
        OBVIOUS
      <4> QED BY <4>1 DEF Token
    <3>2. Holders \in [1..Len(grants) -> Home \cup {NoHome}]
      BY <3>1 DEF Holders
    <3> QED BY <3>2
  <2>4. Holders' = Append(Holders, p.lease.holder)
    <3>1. Append(Holders, p.lease.holder) =
            [g \in 1..(Len(grants) + 1) |-> IF g = Len(grants) + 1 THEN p.lease.holder
                                            ELSE Holders[g]]
      BY <2>3
    <3>2. \A g \in 1..(Len(grants) + 1) :
            grants'[g].holder = IF g = Len(grants) + 1 THEN p.lease.holder ELSE Holders[g]
      BY <2>2 DEF Holders, TokenOf
    <3> QED BY <2>2, <3>1, <3>2 DEF Holders
  <2>5. Promise!Grant
    <3>1. ~p.lease.released /\ p.lease.holder \in Home
      BY <1>1 DEF Supersedes
    <3>2. \E h \in Home : Holders' = Append(Holders, h)
      BY <2>4, <3>1
    <3>3. ~store'.lease.released /\ Beliefs' = Beliefs
      BY <3>1 DEF Beliefs
    <3> QED BY <3>2, <3>3 DEF Promise!Grant, Holders, Beliefs
  <2> QED BY <2>5 DEF Promise!Next
<1>2. CASE Continues(store.lease, p.lease)
  <2>1. grants' = grants
    BY <1>2 DEF Continues, TokenOf, Land, Lease
  <2>2. CASE p.lease.released
    <3>1. Promise!End
      BY <1>2, <2>1, <2>2 DEF Promise!End, Continues
    <3> QED BY <3>1 DEF Promise!Next
  <2>3. CASE ~p.lease.released
    BY <1>2, <2>1, <2>3 DEF Promise!vars, Continues
  <2> QED BY <2>2, <2>3
<1> QED BY <1>1, <1>2 DEF Land, LeaseInv, PushInv

\* Reading, deciding, pushing, losing and expiring all amount to the grants,
\* ends, lessons and losses of the abstract fenced lease.
THEOREM Implements == Spec => ImplementsFencedLease
<1>1. Init => Promise!Init
  BY DEF Init, Promise!Init, NoRecord, NoLease
<1>2. LeaseInv /\ [Next]_vars => [Promise!Next]_(Promise!vars)
  <2>1. ASSUME LeaseInv, NEW p \in pushes, Remote(p)
        PROVE  Promise!Next \/ UNCHANGED Promise!vars
    <3>1. CASE Land(p)
      BY <2>1, <3>1, LandImplements
    <3>2. CASE UNCHANGED <<store, grants>>
      BY <2>1, <3>2, RemoteFrame DEF Promise!vars
    <3> QED BY <2>1, <3>1, <3>2, RemoteFrame
  <2>2. Tick \/ UNCHANGED vars => UNCHANGED Promise!vars
    BY DEF Tick, vars, remote, Promise!vars
  <2> QED BY <2>1, <2>2, SessionImplements DEF Next
<1> QED BY <1>1, <1>2, Inductive, PTL DEF Spec, ImplementsFencedLease, Promise!Spec

=============================================================================
