------------------------- MODULE CoordinationLease -------------------------
(***************************************************************************)
(* One coordination lease: a record behind one reserved remote git ref,    *)
(* and the home sessions that acquire, renew, release and verify it        *)
(* (src/src/adapters/coordination.ts), called the way coordinator.ts and   *)
(* target-branch-queue.ts call it.                                         *)
(*                                                                         *)
(* Every operation reads the ref, then its own wall clock, decides, and    *)
(* writes with a push that names the object id it read.  Each of these is  *)
(* a step of its own here, so other sessions, the clocks and the network   *)
(* move between them.  A push is a message: it may land late, after the    *)
(* client gave up on it or died, or never; its answer may be lost.         *)
(*                                                                         *)
(* A lease is [holder, generation, acquiredAt, heartbeatAt, expiresAt,     *)
(* released].  The missing record is the tombstone of generation zero:     *)
(* acquireLease treats both alike, and the other operations refuse both.   *)
(***************************************************************************)
EXTENDS Naturals, Sequences

CONSTANTS Home,         \* home sessions; a restarted session is a new one
          NoHome,       \* the holder of a record that was never written
          Ttl,          \* the TTL every session uses for this lease
          MaxSkew,      \* how far ahead of true time a wall clock may run
          ClockSteps,   \* TRUE if wall clocks may be stepped back and forth
          MaxClock,     \* bound: true time stops here
          MaxOid        \* bound: commits created for this ref

ASSUME HomeAssumption == NoHome \notin Home
ASSUME TtlAssumption == Ttl \in Nat \ {0}
ASSUME BoundsAssumption == /\ MaxSkew \in Nat
                           /\ MaxClock \in Nat
                           /\ MaxOid \in Nat
                           /\ ClockSteps \in BOOLEAN

VARIABLES store,   \* the remote ref: [version, lease], version 0 when absent
          pushes,  \* pushes on their way to the remote
          lastOid, \* object id of the newest commit made for the ref
          clock,   \* true time
          skew,    \* how far each session's wall clock is ahead of true time
          step,    \* where each session is in its operation
          task,    \* the operation it is in
          arg,     \* the lease the caller passed to it
          seen,    \* the snapshot of the ref it decides on
          sent,    \* the push it waits for
          held,    \* the lease the session keeps between operations
          grants,  \* history: the fencing token each generation was granted with
          gaveUp   \* history: the generations a session asked to release

clocks == <<clock, skew>>
remote == <<store, pushes, lastOid, grants>>
operation == <<step, task, arg, seen, sent>>
vars == <<remote, clocks, operation, held, gaveUp>>

NoLease == [holder |-> NoHome, generation |-> 0, acquiredAt |-> 0,
            heartbeatAt |-> 0, expiresAt |-> 0, released |-> TRUE]
NoRecord == [version |-> 0, lease |-> NoLease]
NoPush == [oid |-> 0, expected |-> 0, lease |-> NoLease]

Lease == [holder : Home \cup {NoHome}, generation : Nat, acquiredAt : Nat,
          heartbeatAt : Nat, expiresAt : Nat, released : BOOLEAN]
Record == [version : Nat, lease : Lease]
Push == [oid : Nat, expected : Nat, lease : Lease]
Token == [holder : Home \cup {NoHome}, generation : Nat, acquiredAt : Nat]

TypeOK ==
  /\ store \in Record
  /\ pushes \subseteq Push
  /\ lastOid \in Nat
  /\ clock \in Nat
  /\ skew \in [Home -> 0..MaxSkew]
  /\ step \in [Home -> {"idle", "start", "decide", "awaiting", "landed",
                        "refused", "crashed"}]
  /\ task \in [Home -> {"none", "acquire", "renew", "release", "verify"}]
  /\ arg \in [Home -> Lease]
  /\ seen \in [Home -> Record]
  /\ sent \in [Home -> Push]
  /\ held \in [Home -> Lease]
  /\ grants \in Seq(Token)
  /\ gaveUp \in [Home -> SUBSET Nat]

(***************************************************************************)
(* Reading a lease                                                         *)
(***************************************************************************)

Wall(h) == clock + skew[h]

TokenOf(l) == [holder |-> l.holder, generation |-> l.generation,
               acquiredAt |-> l.acquiredAt]

\* fencingMatches: heartbeat and expiry take no part in it.
FencingMatches(current, expected) == TokenOf(current) = TokenOf(expected)

Expired(l, now) == l.expiresAt <= now

\* parseLeaseRecord refuses a record whose times are out of order; the read
\* then throws instead of inferring who owns the lease.
Readable(l) ==
  l.generation = 0 \/ (l.acquiredAt <= l.heartbeatAt /\ l.heartbeatAt < l.expiresAt)

(***************************************************************************)
(* Decisions                                                               *)
(***************************************************************************)

\* Admits without one of its conditions.
AdmitsNoExpiryCheck(h) ==
  LET l == seen[h].lease IN
  IF task[h] = "acquire" THEN TRUE
  ELSE ~l.released /\ FencingMatches(l, arg[h]) /\ ~Expired(l, Wall(h))

AdmitsReleasedOnly(h) ==
  LET l == seen[h].lease IN
  IF task[h] = "acquire" THEN l.released
  ELSE ~l.released /\ FencingMatches(l, arg[h]) /\ ~Expired(l, Wall(h))

AdmitsAnyHolder(h) ==
  LET l == seen[h].lease IN
  IF task[h] = "acquire" THEN l.released \/ Expired(l, Wall(h))
  ELSE ~l.released /\ ~Expired(l, Wall(h))

AdmitsReleased(h) ==
  LET l == seen[h].lease IN
  IF task[h] = "acquire" THEN l.released \/ Expired(l, Wall(h))
  ELSE FencingMatches(l, arg[h]) /\ ~Expired(l, Wall(h))

\* The conditions under which an operation goes on to write, or, for
\* verifyLease, answers valid.
Admits(h) ==
  LET l == seen[h].lease IN
  IF task[h] = "acquire" THEN l.released \/ Expired(l, Wall(h))
  ELSE ~l.released /\ FencingMatches(l, arg[h]) /\ ~Expired(l, Wall(h))

\* A record built without its release marker.
CandidateUnmarked(h) ==
  LET l == seen[h].lease IN
  CASE task[h] = "acquire" -> [holder |-> h, generation |-> l.generation + 1,
                               acquiredAt |-> Wall(h), heartbeatAt |-> Wall(h),
                               expiresAt |-> Wall(h) + Ttl]
    [] task[h] = "renew" -> [l EXCEPT !.heartbeatAt = Wall(h),
                                      !.expiresAt = Wall(h) + Ttl]
    [] OTHER -> [l EXCEPT !.released = TRUE]

\* The record an operation writes: acquireLease builds a new generation,
\* renewLease moves heartbeat and expiry of what it read, releaseLease marks
\* what it read as released.
Candidate(h) ==
  LET l == seen[h].lease IN
  CASE task[h] = "acquire" -> [holder |-> h, generation |-> l.generation + 1,
                               acquiredAt |-> Wall(h), heartbeatAt |-> Wall(h),
                               expiresAt |-> Wall(h) + Ttl, released |-> FALSE]
    [] task[h] = "renew" -> [l EXCEPT !.heartbeatAt = Wall(h),
                                      !.expiresAt = Wall(h) + Ttl]
    [] OTHER -> [l EXCEPT !.released = TRUE]

(***************************************************************************)
(* A session's operations                                                  *)
(***************************************************************************)

Init ==
  /\ store = NoRecord
  /\ pushes = {}
  /\ lastOid = 0
  /\ clock = 0
  /\ skew \in [Home -> 0..MaxSkew]
  /\ step = [h \in Home |-> "idle"]
  /\ task = [h \in Home |-> "none"]
  /\ arg = [h \in Home |-> NoLease]
  /\ seen = [h \in Home |-> NoRecord]
  /\ sent = [h \in Home |-> NoPush]
  /\ held = [h \in Home |-> NoLease]
  /\ grants = <<>>
  /\ gaveUp = [h \in Home |-> {}]

Holds(h) == held[h].generation > 0

\* The session calls an operation of the port with a lease.
Call(h, operationName, lease) ==
  /\ step[h] = "idle"
  /\ step' = [step EXCEPT ![h] = "start"]
  /\ task' = [task EXCEPT ![h] = operationName]
  /\ arg' = [arg EXCEPT ![h] = lease]
  /\ UNCHANGED <<remote, clocks, seen, sent>>

\* The operation returns to the session, which now keeps this lease.
Return(h, lease) ==
  /\ step' = [step EXCEPT ![h] = "idle"]
  /\ task' = [task EXCEPT ![h] = "none"]
  /\ arg' = [arg EXCEPT ![h] = NoLease]
  /\ seen' = [seen EXCEPT ![h] = NoRecord]
  /\ sent' = [sent EXCEPT ![h] = NoPush]
  /\ held' = [held EXCEPT ![h] = lease]
  /\ UNCHANGED <<remote, clocks, gaveUp>>

CallAcquire(h) == /\ ~Holds(h)
                  /\ Call(h, "acquire", NoLease)
                  /\ UNCHANGED <<held, gaveUp>>

CallRenew(h) == /\ Holds(h)
                /\ Call(h, "renew", held[h])
                /\ UNCHANGED <<held, gaveUp>>

CallVerify(h) == /\ Holds(h)
                 /\ Call(h, "verify", held[h])
                 /\ UNCHANGED <<held, gaveUp>>

\* The coordinator forgets the lease before it releases it; the merge queue
\* forgets it when the release has answered, and keeps it when it throws.
CallRelease(h) ==
  /\ Holds(h)
  /\ Call(h, "release", held[h])
  /\ held' \in {held, [held EXCEPT ![h] = NoLease]}
  /\ gaveUp' = [gaveUp EXCEPT ![h] = @ \cup {held[h].generation}]

\* Pause and Terminate release a lease the session no longer remembers when
\* getLease shows the session as its holder.
CallReleaseObserved(h) ==
  /\ ~Holds(h)
  /\ store.lease.holder = h
  /\ ~store.lease.released
  /\ Readable(store.lease)
  /\ Call(h, "release", store.lease)
  /\ gaveUp' = [gaveUp EXCEPT ![h] = @ \cup {store.lease.generation}]
  /\ UNCHANGED held

\* readLeaseSnapshot: the object id and the record behind it.
Read(h) ==
  /\ step[h] = "start"
  /\ Readable(store.lease)
  /\ seen' = [seen EXCEPT ![h] = store]
  /\ step' = [step EXCEPT ![h] = "decide"]
  /\ UNCHANGED <<remote, clocks, task, arg, sent, held, gaveUp>>

\* The clock is read and the operation goes on to write: it makes a commit
\* for the record and pushes it, expecting the object id it read.
Submit(h) ==
  /\ step[h] = "decide"
  /\ task[h] # "verify"
  /\ Admits(h)
  /\ lastOid < MaxOid
  /\ lastOid' = lastOid + 1
  /\ sent' = [sent EXCEPT ![h] = [oid |-> lastOid + 1,
                                  expected |-> seen[h].version,
                                  lease |-> Candidate(h)]]
  /\ pushes' = pushes \cup {sent'[h]}
  /\ step' = [step EXCEPT ![h] = "awaiting"]
  /\ UNCHANGED <<store, grants, clocks, task, arg, seen, held, gaveUp>>

\* The clock is read and verifyLease answers valid, with what it read.
Confirm(h) ==
  /\ step[h] = "decide"
  /\ task[h] = "verify"
  /\ Admits(h)
  /\ Return(h, seen[h].lease)

\* The operation is refused; a renewal or a verification that is refused
\* makes the session forget its lease, and so does a refused release.
Refuse(h) ==
  /\ step[h] = "decide"
  /\ ~Admits(h)
  /\ Return(h, NoLease)

\* The push answered that it landed.
Acknowledge(h) ==
  /\ step[h] = "landed"
  /\ Return(h, IF task[h] = "release" THEN NoLease ELSE sent[h].lease)

\* The push failed or timed out; conditionalPush finds another object id
\* behind the ref than the one it expected and calls that a lost race, also
\* when the id is that of its own push.
LoseAnswer(h) ==
  /\ step[h] \in {"awaiting", "landed"}
  /\ store.version # seen[h].version
  /\ step' = [step EXCEPT ![h] = "refused"]
  /\ UNCHANGED <<remote, clocks, task, arg, seen, sent, held, gaveUp>>

\* A lost race is reported after one more read; the session forgets what it
\* asked about, whatever the reason reported.
Settle(h) ==
  /\ step[h] = "refused"
  /\ Readable(store.lease)
  /\ Return(h, NoLease)

\* A read, the commit or the push throws; the session keeps what it held.
\* A push that is under way stays under way.
Fail(h) ==
  /\ \/ step[h] \in {"start", "awaiting", "landed", "refused"}
     \/ step[h] = "decide" /\ task[h] # "verify" /\ Admits(h)
  /\ Return(h, held[h])

\* The session's process dies, wherever it is.
Crash(h) ==
  /\ step[h] # "crashed"
  /\ step' = [step EXCEPT ![h] = "crashed"]
  /\ task' = [task EXCEPT ![h] = "none"]
  /\ arg' = [arg EXCEPT ![h] = NoLease]
  /\ seen' = [seen EXCEPT ![h] = NoRecord]
  /\ sent' = [sent EXCEPT ![h] = NoPush]
  /\ held' = [held EXCEPT ![h] = NoLease]
  /\ UNCHANGED <<remote, clocks, gaveUp>>

(***************************************************************************)
(* The remote and the clocks                                               *)
(***************************************************************************)

\* Whoever waits for push p learns its answer.
Answer(p, result) ==
  step' = [h \in Home |-> IF step[h] = "awaiting" /\ sent[h] = p
                          THEN result ELSE step[h]]

\* Without --force-with-lease the push would overwrite whatever is there.
LandForced(p) ==
  /\ pushes' = pushes \ {p}
  /\ store' = [version |-> p.oid, lease |-> p.lease]
  /\ grants' = IF p.lease.generation > store.lease.generation
               THEN Append(grants, TokenOf(p.lease)) ELSE grants
  /\ Answer(p, "landed")
  /\ UNCHANGED <<lastOid, clocks, task, arg, seen, sent, held, gaveUp>>

\* The remote takes a push whose expected object id is the ref's.
Land(p) ==
  /\ p.expected = store.version
  /\ pushes' = pushes \ {p}
  /\ store' = [version |-> p.oid, lease |-> p.lease]
  /\ grants' = IF p.lease.generation > store.lease.generation
               THEN Append(grants, TokenOf(p.lease)) ELSE grants
  /\ Answer(p, "landed")
  /\ UNCHANGED <<lastOid, clocks, task, arg, seen, sent, held, gaveUp>>

\* The remote rejects a push whose expected object id is not the ref's.
Reject(p) ==
  /\ p.expected # store.version
  /\ pushes' = pushes \ {p}
  /\ Answer(p, "refused")
  /\ UNCHANGED <<store, lastOid, grants, clocks, task, arg, seen, sent, held,
                 gaveUp>>

\* A push never arrives.
LosePush(p) ==
  /\ pushes' = pushes \ {p}
  /\ UNCHANGED <<store, lastOid, grants, clocks, operation, held, gaveUp>>

Tick == /\ clock < MaxClock
        /\ clock' = clock + 1
        /\ UNCHANGED <<remote, skew, operation, held, gaveUp>>

\* A session's wall clock is corrected, forwards or backwards.
StepClock(h) == /\ ClockSteps
                /\ \E s \in 0..MaxSkew : skew' = [skew EXCEPT ![h] = s]
                /\ UNCHANGED <<remote, clock, operation, held, gaveUp>>

Remote(p) == Land(p) \/ Reject(p) \/ LosePush(p)

Session(h) ==
  \/ CallAcquire(h) \/ CallRenew(h) \/ CallVerify(h)
  \/ CallRelease(h) \/ CallReleaseObserved(h)
  \/ Read(h) \/ Submit(h) \/ Confirm(h) \/ Refuse(h)
  \/ Acknowledge(h) \/ LoseAnswer(h) \/ Settle(h) \/ Fail(h)
  \/ Crash(h) \/ StepClock(h)

Next == \/ \E h \in Home : Session(h)
        \/ \E p \in pushes : Remote(p)
        \/ Tick

Spec == Init /\ [][Next]_vars

\* The network and a session that was not killed come through in the end.
\* Whoever needs the lease asks for it again, as the panel and the merge
\* queue's retries do, and whoever keeps one renews it, as the heartbeat timers
\* do.
Fairness ==
  /\ WF_vars(Tick)
  /\ \A h \in Home : /\ WF_vars(CallAcquire(h) \/ CallRenew(h))
                     /\ SF_vars(Read(h))
                     /\ SF_vars(Submit(h))
                     /\ WF_vars(Refuse(h) \/ Settle(h) \/ Acknowledge(h) \/ Fail(h))
  /\ WF_vars(\E p \in pushes : Remote(p))

LiveSpec == Spec /\ Fairness

(***************************************************************************)
(* Safety                                                                  *)
(***************************************************************************)

\* The record behind the ref and every lease a session keeps carry the token
\* their generation was granted with: no two acquisitions ever share a
\* fencing token, however their pushes interleave, are lost or land late,
\* and a release never lets a generation come back (coordination.ts:1188).
FencingTokensAreUnique ==
  /\ store.lease.generation = Len(grants)
  /\ \A h \in Home :
       Holds(h) => /\ held[h].holder = h
                   /\ held[h].generation <= Len(grants)
                   /\ TokenOf(held[h]) = grants[held[h].generation]
  /\ Len(grants) > 0 => TokenOf(store.lease) = grants[Len(grants)]

\* A lease that was not released is taken over only when it has expired, on
\* the fastest wall clock there may be, even if the taker looked at an older
\* record and a renewal landed in between (acquireLease's check and its
\* conditional push, coordination.ts:1108-1129).
NoTakeoverOfLiveLease ==
  [][ (store'.lease.generation # store.lease.generation /\ ~store.lease.released)
      => store.lease.expiresAt <= clock + MaxSkew ]_vars

\* A released lease is over: no renewal that was on its way revives it, the
\* only thing that follows it is the next generation.
ReleaseIsFinal ==
  [][ (store.lease.released /\ store' # store)
      => /\ store'.lease.generation = store.lease.generation + 1
         /\ ~store'.lease.released ]_vars

\* A session that keeps a lease it never asked to release may rely on it
\* until the lease's own expiry less the clock skew: until then the ref still
\* carries its token, whatever acknowledgements, heartbeats and rival
\* acquisitions were lost or late.
KeptLeaseIsCurrent ==
  \A h \in Home :
    (Holds(h) /\ held[h].generation \notin gaveUp[h]
              /\ held[h].expiresAt > clock + MaxSkew)
    => FencingMatches(store.lease, held[h]) /\ ~store.lease.released

\* A lease whose time is over can be taken: the record behind it can be
\* parsed, so an acquisition does not throw on it.  coordinator.ts:2153 relies
\* on it ("TTL expiry is the fail-closed recovery path when a release cannot
\* reach the remote coordination ref").
ExpiryRecovers == Expired(store.lease, clock) => Readable(store.lease)

(***************************************************************************)
(* Liveness                                                                *)
(***************************************************************************)

\* The lease of a dead session does not block the others for ever: once its
\* time is over it is taken, unless nobody is left to take it or the bound on
\* commits is reached first.
Orphaned(h) == /\ step[h] = "crashed"
               /\ store.lease.holder = h
               /\ store.lease.expiresAt <= MaxClock
               /\ lastOid < MaxOid

Recovered(h) == \/ store.lease.holder # h
               \/ store.lease.expiresAt > MaxClock
               \/ \A other \in Home : step[other] = "crashed"
               \/ lastOid = MaxOid

OrphanedLeaseIsTaken == \A h \in Home : Orphaned(h) ~> Recovered(h)

(***************************************************************************)
(* The promise it implements                                               *)
(***************************************************************************)

Promise == INSTANCE FencedLease
  WITH grants <- [g \in 1..Len(grants) |-> grants[g].holder],
       open <- ~store.lease.released,
       believed <- [h \in Home |-> held[h].generation]

\* The ref protocol implements the abstract fenced lease.
ImplementsFencedLease == Promise!Spec
=============================================================================
