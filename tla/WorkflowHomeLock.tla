-------------------------- MODULE WorkflowHomeLock --------------------------
(***************************************************************************)
(* The Workflow-home lock of one checkout: a directory that holds the      *)
(* record of its owner (src/src/adapters/workflow-home-lock.ts), and the   *)
(* sessions that acquire, renew and release it the way coordinator.ts      *)
(* does.                                                                   *)
(*                                                                         *)
(* Every file-system call names a path, not a directory it has seen        *)
(* before, and is a step of its own: a session that made or read the lock  *)
(* directory may write to, move or remove another one.  A record is        *)
(* written to a temporary file beside it and renamed, so it lands only if  *)
(* the directory that got the temporary file is still there.               *)
(***************************************************************************)
EXTENDS Naturals, FiniteSets

CONSTANTS Session,     \* sessions of the checkout; a restarted one is a new one
          Host,        \* machines that share the checkout
          StaleAfter,  \* staleAfterMs
          Attempts,    \* how often acquire tries
          Faulty,      \* kinds of file-system calls that may fail for other reasons
          MaxFaults,   \* bound: how many of them do
          MaxClock,    \* bound: time stops here
          MaxToken     \* bound: lock directories made

ASSUME StaleAfterAssumption == StaleAfter \in Nat \ {0}
ASSUME AttemptsAssumption == Attempts \in Nat \ {0}
ASSUME FaultyAssumption == Faulty \subseteq {"read", "write"}
ASSUME MaxFaultsAssumption == MaxFaults \in Nat
\* the owner of no record is no session
ASSUME SessionAssumption == "nobody" \notin Session

VARIABLES place,     \* the directory at the lock's path
          aside,     \* the directory a session's release has moved away
          lastToken, \* tokens drawn
          clock,     \* time
          host,      \* the machine each session runs on
          alive,     \* the sessions whose process lives
          run,       \* the operation each session is in
          held,      \* heldWorkflowHomeLock: its token, 0 when undefined
          faults     \* how many calls failed

vars == <<place, aside, lastToken, clock, host, alive, run, held, faults>>

NoRecord == [owner |-> "nobody", token |-> 0, heartbeatAt |-> 0]
NoDirectory == [made |-> FALSE, record |-> NoRecord, temps |-> {}, touched |-> 0]
\* An idle session with what it last read left out.
IdleUnset == [call |-> "none", task |-> "none", attempt |-> 0, at |-> 0, token |-> 0]
Idle == [call |-> "none", task |-> "none", attempt |-> 0, at |-> 0, token |-> 0,
         seen |-> NoRecord]

Record == [owner : Session, token : Nat, heartbeatAt : Nat]
Directory == [made : {TRUE}, record : Record \cup {NoRecord},
              temps : SUBSET Session, touched : Nat]
Run == [call : {"none", "mkdir", "write temp", "rename temp", "undo", "read", "stat",
                "reclaim", "renew read", "renew write", "renew rename",
                "move", "look", "restore"},
        task : {"none", "ensure", "heartbeat", "release"},
        attempt : 0..Attempts, at : Nat, token : Nat, seen : Record \cup {NoRecord}]

TypeOK ==
  /\ place \in Directory \cup {NoDirectory}
  /\ aside \in [Session -> Directory \cup {NoDirectory}]
  /\ lastToken \in Nat
  /\ clock \in Nat
  /\ host \in [Session -> Host]
  /\ alive \subseteq Session
  /\ run \in [Session -> Run]
  /\ held \in [Session -> Nat]
  /\ faults \in Nat

Init ==
  /\ place = NoDirectory
  /\ aside = [s \in Session |-> NoDirectory]
  /\ lastToken = 0
  /\ clock = 0
  /\ host \in [Session -> Host]
  /\ alive = Session
  /\ run = [s \in Session |-> Idle]
  /\ held = [s \in Session |-> 0]
  /\ faults = 0

\* isStale: a process of the same machine is asked whether it lives, the record
\* of another machine counts for a time.
Stale(s, record, at) ==
  IF host[record.owner] = host[s] THEN record.owner \notin alive
  ELSE record.heartbeatAt + StaleAfter <= at

At(s, call) == s \in alive /\ run[s].call = call
Goto(s, call) == run' = [run EXCEPT ![s].call = call]
Return(s) == run' = [run EXCEPT ![s] = Idle]
Hold(s, token) == held' = [held EXCEPT ![s] = token]

Fault(kind) == kind \in Faulty /\ faults < MaxFaults /\ faults' = faults + 1

\* A call that does not work out, or fails for a reason of its own.
Fails(kind, reason) == (reason /\ UNCHANGED faults) \/ Fault(kind)

\* A file for the session is made in the directory.
Touched(directory, temps) == [directory EXCEPT !.temps = temps, !.touched = clock]

(***************************************************************************)
(* What a session asks for                                                 *)
(***************************************************************************)

\* ensureWorkflowHomeLock renews the lock it remembers, or acquires one.
CallEnsure(s) ==
  /\ At(s, "none")
  /\ run' = [run EXCEPT ![s] = [Idle EXCEPT
       !.task = "ensure", !.attempt = 1, !.token = held[s],
       !.call = IF held[s] = 0 THEN "mkdir" ELSE "renew read"]]
  /\ UNCHANGED <<place, aside, lastToken, clock, host, alive, held, faults>>

CallHeartbeat(s) ==
  /\ At(s, "none") /\ held[s] # 0
  /\ run' = [run EXCEPT ![s] = [Idle EXCEPT
       !.task = "heartbeat", !.token = held[s], !.call = "renew read"]]
  /\ UNCHANGED <<place, aside, lastToken, clock, host, alive, held, faults>>

\* releaseWorkflowHome forgets the lock before it releases it.
CallRelease(s) ==
  /\ At(s, "none") /\ held[s] # 0
  /\ run' = [run EXCEPT ![s] = [Idle EXCEPT
       !.task = "release", !.token = held[s], !.call = "move"]]
  /\ Hold(s, 0)
  /\ UNCHANGED <<place, aside, lastToken, clock, host, alive, faults>>

(***************************************************************************)
(* acquire                                                                 *)
(***************************************************************************)

\* mkdir makes the directory or finds one.
Mkdir(s) ==
  /\ At(s, "mkdir")
  /\ IF place = NoDirectory
     THEN /\ lastToken < MaxToken
          /\ lastToken' = lastToken + 1
          /\ place' = [NoDirectory EXCEPT !.made = TRUE, !.touched = clock]
          /\ run' = [run EXCEPT ![s].call = "write temp", ![s].at = clock,
                                ![s].token = lastToken + 1]
     ELSE /\ run' = [run EXCEPT ![s].call = "read", ![s].at = clock]
          /\ UNCHANGED <<place, lastToken>>
  /\ UNCHANGED <<aside, clock, host, alive, held, faults>>

\* writeStored, its first half: the temporary file.
WriteTemp(s) ==
  /\ At(s, "write temp")
  /\ \/ /\ place # NoDirectory
        /\ place' = Touched(place, place.temps \cup {s})
        /\ Goto(s, "rename temp")
        /\ UNCHANGED faults
     \/ /\ Fails("write", place = NoDirectory)
        /\ Goto(s, "undo")
        /\ UNCHANGED place
  /\ UNCHANGED <<aside, lastToken, clock, host, alive, held>>

\* writeStored, its second half: the file is renamed to the record.
RenameTemp(s) ==
  /\ At(s, "rename temp")
  /\ IF s \in place.temps
     THEN /\ place' = [Touched(place, place.temps \ {s}) EXCEPT
                         !.record = [owner |-> s, token |-> run[s].token,
                                     heartbeatAt |-> run[s].at]]
          /\ Hold(s, run[s].token)
          /\ Return(s)
     ELSE Goto(s, "undo") /\ UNCHANGED <<place, held>>
  /\ UNCHANGED <<aside, lastToken, clock, host, alive, faults>>

\* A failed write removes the lock directory, whoever made it.
Undo(s) ==
  /\ At(s, "undo")
  /\ place' = NoDirectory
  /\ Return(s)
  /\ UNCHANGED <<aside, lastToken, clock, host, alive, held, faults>>

\* readStored, and what is decided on it; a file that cannot be read is no record.
ReadRecord(s) ==
  /\ At(s, "read")
  /\ \/ /\ place.record # NoRecord
        /\ IF Stale(s, place.record, run[s].at) THEN Goto(s, "reclaim") ELSE Return(s)
        /\ UNCHANGED faults
     \/ /\ Fails("read", place.record = NoRecord)
        /\ run' = [run EXCEPT ![s].call = "stat", ![s].at = clock]
  /\ UNCHANGED <<place, aside, lastToken, clock, host, alive, held>>

\* A directory without a record is taken for abandoned at once.
StatAgeless(s) ==
  /\ At(s, "stat")
  /\ IF place # NoDirectory THEN Goto(s, "reclaim") ELSE Return(s)
  /\ UNCHANGED <<place, aside, lastToken, clock, host, alive, held, faults>>

\* Without a record the directory's own age decides, at the time of the read.
Stat(s) ==
  /\ At(s, "stat")
  /\ IF place # NoDirectory /\ place.touched + StaleAfter <= run[s].at
     THEN Goto(s, "reclaim") ELSE Return(s)
  /\ UNCHANGED <<place, aside, lastToken, clock, host, alive, held, faults>>

\* A session that reclaims nothing.
ReclaimNever(s) ==
  /\ At(s, "reclaim")
  /\ Return(s)
  /\ UNCHANGED <<place, aside, lastToken, clock, host, alive, held, faults>>

\* The directory at the path is moved away and removed, and mkdir tried again.
Reclaim(s) ==
  /\ At(s, "reclaim")
  /\ place' = NoDirectory
  /\ IF place = NoDirectory \/ run[s].attempt = Attempts THEN Return(s)
     ELSE run' = [run EXCEPT ![s].call = "mkdir", ![s].attempt = @ + 1]
  /\ UNCHANGED <<aside, lastToken, clock, host, alive, held, faults>>

(***************************************************************************)
(* renew                                                                   *)
(***************************************************************************)

\* A lock that could not be renewed is forgotten, and a caller that needs one
\* acquires it.
NotRenewed(s) ==
  /\ Hold(s, 0)
  /\ IF run[s].task = "ensure" THEN Goto(s, "mkdir") ELSE Return(s)

RenewRead(s) ==
  /\ At(s, "renew read")
  /\ \/ /\ place.record.owner = s /\ place.record.token = run[s].token
        /\ run' = [run EXCEPT ![s].call = "renew write", ![s].at = clock,
                              ![s].seen = place.record]
        /\ UNCHANGED <<held, faults>>
     \/ /\ Fails("read", place.record.owner # s \/ place.record.token # run[s].token)
        /\ NotRenewed(s)
  /\ UNCHANGED <<place, aside, lastToken, clock, host, alive>>

RenewWrite(s) ==
  /\ At(s, "renew write")
  /\ \/ /\ place # NoDirectory
        /\ place' = Touched(place, place.temps \cup {s})
        /\ Goto(s, "renew rename")
        /\ UNCHANGED <<held, faults>>
     \/ /\ Fails("write", place = NoDirectory)
        /\ NotRenewed(s)
        /\ UNCHANGED place
  /\ UNCHANGED <<aside, lastToken, clock, host, alive>>

RenewRename(s) ==
  /\ At(s, "renew rename")
  /\ IF s \in place.temps
     THEN /\ place' = [Touched(place, place.temps \ {s}) EXCEPT
                         !.record = [run[s].seen EXCEPT !.heartbeatAt = run[s].at]]
          /\ Return(s)
          /\ UNCHANGED held
     ELSE NotRenewed(s) /\ UNCHANGED place
  /\ UNCHANGED <<aside, lastToken, clock, host, alive, faults>>

(***************************************************************************)
(* release                                                                 *)
(***************************************************************************)

Move(s) ==
  /\ At(s, "move")
  /\ aside' = [aside EXCEPT ![s] = place]
  /\ place' = NoDirectory
  /\ IF place = NoDirectory THEN Return(s) ELSE Goto(s, "look")
  /\ UNCHANGED <<lastToken, clock, host, alive, held, faults>>

\* Takes no lock for its own.
LookAway(s) ==
  /\ At(s, "look")
  /\ Goto(s, "restore")
  /\ UNCHANGED <<place, aside, lastToken, clock, host, alive, held, faults>>

\* Only the session's own lock is removed.
Look(s) ==
  /\ At(s, "look")
  /\ LET record == aside[s].record IN
     \/ /\ record.owner = s /\ record.token = run[s].token
        /\ aside' = [aside EXCEPT ![s] = NoDirectory]
        /\ Return(s)
        /\ UNCHANGED faults
     \/ /\ Fails("read", record.owner # s \/ record.token # run[s].token)
        /\ Goto(s, "restore")
        /\ UNCHANGED aside
  /\ UNCHANGED <<place, lastToken, clock, host, alive, held>>

\* A directory can be renamed over an empty one, and over no other.
Restore(s) ==
  /\ At(s, "restore")
  /\ place' = IF place.record = NoRecord /\ place.temps = {} THEN aside[s] ELSE place
  /\ aside' = [aside EXCEPT ![s] = NoDirectory]
  /\ Return(s)
  /\ UNCHANGED <<lastToken, clock, host, alive, held, faults>>

(***************************************************************************)
(* Specification                                                           *)
(***************************************************************************)

\* The process ends, wherever it is; what it wrote stays.
Crash(s) ==
  /\ s \in alive
  /\ alive' = alive \ {s}
  /\ Return(s)
  /\ Hold(s, 0)
  /\ aside' = [aside EXCEPT ![s] = NoDirectory]
  /\ UNCHANGED <<place, lastToken, clock, host, faults>>

\* The timeout is far longer than the sessions take: a live session writes the
\* record of a directory it made before the directory looks abandoned, and renews
\* or releases its lock before the heartbeat is too old.
InTime ==
  \A s \in alive :
    /\ run[s].call \in {"write temp", "rename temp", "undo"}
       => clock + 1 < run[s].at + StaleAfter
    /\ place.record.owner = s /\ (held[s] # 0 \/ run[s] # Idle)
       => clock + 1 < place.record.heartbeatAt + StaleAfter

Tick == /\ clock < MaxClock
        /\ InTime
        /\ clock' = clock + 1
        /\ UNCHANGED <<place, aside, lastToken, host, alive, run, held, faults>>

Call(s) == CallEnsure(s) \/ CallHeartbeat(s) \/ CallRelease(s)

Proceed(s) ==
  \/ Mkdir(s) \/ WriteTemp(s) \/ RenameTemp(s) \/ Undo(s)
  \/ ReadRecord(s) \/ Stat(s) \/ Reclaim(s)
  \/ RenewRead(s) \/ RenewWrite(s) \/ RenewRename(s)
  \/ Move(s) \/ Look(s) \/ Restore(s)

Next == \/ \E s \in Session : Call(s) \/ Proceed(s) \/ Crash(s)
        \/ Tick

Spec == Init /\ [][Next]_vars

\* A session that lives goes on with what it does, and asks again for the lock it
\* wants, as the panel's refresh does.
LiveSpec ==
  /\ Spec
  /\ WF_vars(Tick)
  /\ \A s \in Session : WF_vars(Proceed(s)) /\ WF_vars(CallEnsure(s))

(***************************************************************************)
(* Properties                                                              *)
(***************************************************************************)

\* At most one live session believes that the checkout is its own, while the
\* others crash between any two calls, their calls fail, and they release and
\* acquire at the same time (workflow-home-lock.ts:123).
OneOwner ==
  \A s, t \in alive : held[s] # 0 /\ held[t] # 0 => s = t

\* A lock is moved away only when its owner is gone: "stale locks are reclaimed
\* only after a dead local pid or a conservative heartbeat timeout"
\* (workflow-home-lock.ts:124).
ReclaimsOnlyStale ==
  [][ \A s \in Session :
        (/\ run[s].call = "reclaim" /\ run'[s].call # "reclaim" /\ s \in alive'
         /\ place.record # NoRecord)
        => Stale(s, place.record, clock) ]_vars

\* Unless a call failed, the lock at the path is not that of a live session which
\* knows nothing of it: nobody could ever reclaim it, not even that session.
NoForgottenLock ==
  faults = 0 =>
    \A s \in alive : (run[s] = Idle /\ place.record.owner = s)
                     => held[s] = place.record.token

\* A session is told that "this checkout is already owned by another Workflow
\* home" (coordinator.ts:2085) only of a lock that is not its own, so that a lost
\* renewal lets it "fall through to a fresh acquire" (coordinator.ts:2073).
RefusedByAnotherOnly ==
  [][ \A s \in Session :
        (run[s].call = "read" /\ run'[s] = Idle /\ s \in alive')
        => place.record.owner # s ]_vars

\* A lock whose owner died, with its record written or not, does not keep the
\* checkout from the sessions that still live.
Abandoned == place # NoDirectory /\ place.record.owner \notin alive

CheckoutIsTaken ==
  Abandoned ~> \/ ~Abandoned
               \/ alive = {}
               \/ place.touched + StaleAfter > MaxClock
=============================================================================
