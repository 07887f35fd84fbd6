----------------------- MODULE WorkflowHomeLockProofs -----------------------
(***************************************************************************)
(* Theorems about WorkflowHomeLock, for every set of sessions, machines,   *)
(* timeout and bound.  The argument rests on the record at the path: it is *)
(* that of the session which holds the lock, a session that writes one     *)
(* writes it into the directory it made, and a directory about to be       *)
(* removed is no live session's.  What a third session can break is named  *)
(* by Undisturbed; two sessions cannot break it.                           *)
(***************************************************************************)
EXTENDS WorkflowHomeLock, TLAPS

USE StaleAfterAssumption, AttemptsAssumption, MaxFaultsAssumption, SessionAssumption

(***************************************************************************)
(* Types                                                                   *)
(***************************************************************************)

Directories == Directory \cup {NoDirectory}
Records == Record \cup {NoRecord}
Calls == {"none", "mkdir", "write temp", "rename temp", "undo", "read", "stat",
          "reclaim", "renew read", "renew write", "renew rename",
          "move", "look", "restore"}

LEMMA IdleType == Idle \in Run /\ Idle.call = "none" /\ Idle.at = 0
BY DEF Idle, Run, Record

\* What a directory of either kind holds.
LEMMA DirectoryParts ==
  ASSUME NEW d \in Directories
  PROVE  /\ d.record \in Records
         /\ d.temps \subseteq Session
         /\ d.touched \in Nat
         /\ d.made \in BOOLEAN
         /\ d # NoDirectory => d \in Directory /\ d.made
<1>1. CASE d = NoDirectory
  BY <1>1 DEF Records, NoDirectory
<1>2. CASE d \in Directory
  BY <1>2 DEF Records, Directory
<1> QED BY <1>1, <1>2 DEF Directories

LEMMA RecordParts ==
  ASSUME NEW r \in Records
  PROVE  /\ r.owner \in Session \cup {"nobody"}
         /\ r.token \in Nat
         /\ r.heartbeatAt \in Nat
         /\ r.owner \in Session <=> r # NoRecord
         /\ r # NoRecord => r \in Record
BY DEF Records, Record, NoRecord

\* A file made in a directory leaves it a directory with the same record.
LEMMA TouchedParts ==
  ASSUME NEW d \in Directories, d # NoDirectory, NEW temps \in SUBSET Session, clock \in Nat
  PROVE  /\ Touched(d, temps) \in Directory
         /\ Touched(d, temps) # NoDirectory
         /\ Touched(d, temps).record = d.record
         /\ Touched(d, temps).temps = temps
         /\ Touched(d, temps).touched = clock
BY DirectoryParts DEF Touched, Directory, NoDirectory, Directories

\* A record renamed into place.
LEMMA WrittenParts ==
  ASSUME NEW d \in Directories, d # NoDirectory, NEW temps \in SUBSET Session, clock \in Nat,
         NEW r \in Record
  PROVE  LET w == [Touched(d, temps) EXCEPT !.record = r] IN
         /\ w \in Directory
         /\ w # NoDirectory
         /\ w.record = r
         /\ w.temps = temps
         /\ w.touched = clock
BY DirectoryParts DEF Touched, Directory, NoDirectory, Directories

\* The session s is at the given call of an operation, and everyone else is
\* where it was.
To(s, call) == /\ run'[s].call = call
               /\ \A t \in Session \ {s} : run'[t] = run[t]

LEMMA RunPlaced ==
  ASSUME TypeOK, NEW s \in Session, NEW q \in Run,
         run'[s] = q, run' = [run EXCEPT ![s] = run'[s]]
  PROVE  run' \in [Session -> Run] /\ To(s, q.call)
BY DEF TypeOK, To

LEMMA RunCall ==
  ASSUME NEW q \in Run, NEW call \in Calls
  PROVE  /\ [q EXCEPT !.call = call] \in Run
         /\ [q EXCEPT !.call = call].call = call
         /\ [q EXCEPT !.call = call].token = q.token
         /\ [q EXCEPT !.call = call].at = q.at
         /\ [q EXCEPT !.call = call].seen = q.seen
         /\ [q EXCEPT !.call = call].task = q.task
BY DEF Run, Calls

LEMMA RunSet ==
  ASSUME NEW q \in Run, NEW call \in Calls, NEW at \in Nat, NEW token \in Nat,
         NEW seen \in Records, NEW attempt \in 0..Attempts
  PROVE  /\ [q EXCEPT !.call = call, !.at = at] \in Run
         /\ [q EXCEPT !.call = call, !.at = at, !.token = token] \in Run
         /\ [q EXCEPT !.call = call, !.at = at, !.seen = seen] \in Run
         /\ [q EXCEPT !.call = call, !.attempt = attempt] \in Run
         /\ [Idle EXCEPT !.task = "ensure", !.attempt = 1, !.token = token, !.call = call] \in Run
         /\ [Idle EXCEPT !.task = "heartbeat", !.token = token, !.call = call] \in Run
         /\ [Idle EXCEPT !.task = "release", !.token = token, !.call = call] \in Run
<1>0. 1 \in 0..Attempts /\ 0 \in 0..Attempts
  BY AttemptsAssumption
<1> USE DEF Run, Calls, Records
<1>1. [q EXCEPT !.call = call, !.at = at] \in Run
  OBVIOUS
<1>2. [q EXCEPT !.call = call, !.at = at, !.token = token] \in Run
  OBVIOUS
<1>3. [q EXCEPT !.call = call, !.at = at, !.seen = seen] \in Run
  OBVIOUS
<1>4. [q EXCEPT !.call = call, !.attempt = attempt] \in Run
  OBVIOUS
<1>6. [Idle EXCEPT !.task = "ensure", !.attempt = 1, !.token = token, !.call = call] \in Run
  BY <1>0 DEF Idle
<1>7. [Idle EXCEPT !.task = "heartbeat", !.token = token, !.call = call] \in Run
  BY <1>0 DEF Idle
<1>8. [Idle EXCEPT !.task = "release", !.token = token, !.call = call] \in Run
  BY <1>0 DEF Idle
<1> QED BY <1>1, <1>2, <1>3, <1>4, <1>6, <1>7, <1>8

LEMMA ReturnParts ==
  ASSUME TypeOK, NEW s \in Session, Return(s)
  PROVE  /\ run' \in [Session -> Run]
         /\ run'[s] = Idle
         /\ To(s, "none")
BY IdleType DEF TypeOK, Return, To

LEMMA GotoParts ==
  ASSUME TypeOK, NEW s \in Session, NEW call \in Calls, Goto(s, call)
  PROVE  /\ run' \in [Session -> Run]
         /\ To(s, call)
         /\ run'[s].token = run[s].token
         /\ run'[s].at = run[s].at
         /\ run'[s].seen = run[s].seen
         /\ run'[s].task = run[s].task
<1>1. run[s] \in Run /\ run \in [Session -> Run]
  BY DEF TypeOK
<1>2. run'[s] = [run[s] EXCEPT !.call = call]
  BY <1>1 DEF Goto
<1>3. \A t \in Session \ {s} : run'[t] = run[t]
  BY <1>1 DEF Goto
<1>4. run' = [run EXCEPT ![s] = run'[s]]
  BY <1>1 DEF Goto
<1> QED BY <1>1, <1>2, <1>3, <1>4, RunCall, RunPlaced DEF To

LEMMA HoldParts ==
  ASSUME TypeOK, NEW s \in Session, NEW token \in Nat, Hold(s, token)
  PROVE  /\ held' \in [Session -> Nat]
         /\ held'[s] = token
         /\ \A t \in Session \ {s} : held'[t] = held[t]
BY DEF TypeOK, Hold

\* What a step does to the fault counter.
FaultStep == \/ UNCHANGED faults
             \/ faults < MaxFaults /\ faults' = faults + 1

LEMMA FaultType == ASSUME TypeOK, FaultStep PROVE faults' \in Nat /\ faults <= faults'
BY DEF TypeOK, FaultStep

LEMMA NotRenewedParts ==
  ASSUME TypeOK, NEW s \in Session, NotRenewed(s)
  PROVE  /\ run' \in [Session -> Run]
         /\ held' \in [Session -> Nat]
         /\ held'[s] = 0
         /\ \A t \in Session \ {s} : held'[t] = held[t] /\ run'[t] = run[t]
         /\ \/ run'[s] = Idle
            \/ To(s, "mkdir") /\ run'[s].token = run[s].token /\ run'[s].at = run[s].at
<1>1. held' \in [Session -> Nat] /\ held'[s] = 0 /\ \A t \in Session \ {s} : held'[t] = held[t]
  BY HoldParts DEF NotRenewed
<1>2. CASE Return(s)
  BY <1>1, <1>2, ReturnParts DEF To
<1>3. CASE Goto(s, "mkdir")
  <2>1. "mkdir" \in Calls
    BY DEF Calls
  <2> QED BY <1>1, <1>3, <2>1, GotoParts DEF To
<1> QED BY <1>2, <1>3 DEF NotRenewed

LEMMA InitType == Init => TypeOK
BY IdleType DEF Init, TypeOK

LEMMA CallType == ASSUME TypeOK, NEW s \in Session, Call(s) PROVE TypeOK'
<1>1. run'[s] \in Run /\ run' = [run EXCEPT ![s] = run'[s]]
  <2>1. held[s] \in Nat /\ run \in [Session -> Run] /\ NoRecord \in Records /\ 1 \in 0..Attempts
    BY DEF TypeOK, Records
  <2>2. \A call \in Calls :
          /\ [Idle EXCEPT !.task = "ensure", !.attempt = 1, !.token = held[s], !.call = call] \in Run
          /\ [Idle EXCEPT !.task = "heartbeat", !.token = held[s], !.call = call] \in Run
          /\ [Idle EXCEPT !.task = "release", !.token = held[s], !.call = call] \in Run
    BY <2>1, RunSet, IdleType
  <2>3. CASE CallEnsure(s)
    BY <2>1, <2>2, <2>3 DEF CallEnsure, Calls
  <2>4. CASE CallHeartbeat(s)
    BY <2>1, <2>2, <2>4 DEF CallHeartbeat, Calls
  <2>5. CASE CallRelease(s)
    BY <2>1, <2>2, <2>5 DEF CallRelease, Calls
  <2> QED BY <2>3, <2>4, <2>5 DEF Call
<1>2. run' \in [Session -> Run]
  BY <1>1, RunPlaced
<1> QED BY <1>2 DEF Call, CallEnsure, CallHeartbeat, CallRelease, Hold, TypeOK

LEMMA AcquireType ==
  ASSUME TypeOK, NEW s \in Session,
         \/ Mkdir(s) \/ WriteTemp(s) \/ RenameTemp(s) \/ Undo(s)
         \/ ReadRecord(s) \/ Stat(s) \/ Reclaim(s)
  PROVE  TypeOK'
<1>0. place \in Directories /\ clock \in Nat /\ run[s] \in Run /\ lastToken \in Nat
      /\ run \in [Session -> Run] /\ lastToken + 1 \in Nat /\ NoRecord \in Records
      /\ 1 \in 0..Attempts
  BY DEF TypeOK, Directories, Records
<1>1. CASE Mkdir(s)
  <2>1. [NoDirectory EXCEPT !.made = TRUE, !.touched = clock] \in Directory
    BY <1>0 DEF NoDirectory, Directory
  <2>2. run' \in [Session -> Run]
    <3>1. [run[s] EXCEPT !.call = "write temp", !.at = clock, !.token = lastToken + 1] \in Run
      BY <1>0, RunSet DEF Calls
    <3>2. [run[s] EXCEPT !.call = "read", !.at = clock] \in Run
      BY <1>0, RunSet DEF Calls
    <3>3. /\ \/ run'[s] = [run[s] EXCEPT !.call = "write temp", !.at = clock, !.token = lastToken + 1]
             \/ run'[s] = [run[s] EXCEPT !.call = "read", !.at = clock]
          /\ run' = [run EXCEPT ![s] = run'[s]]
      BY <1>0, <1>1 DEF Mkdir
    <3> QED BY <3>1, <3>2, <3>3, RunPlaced
  <2>3. lastToken' \in Nat
    BY <1>0, <1>1 DEF Mkdir
  <2>4. place' \in Directories
    BY <1>0, <1>1, <2>1 DEF Mkdir, Directories
  <2> QED BY <1>1, <2>2, <2>3, <2>4 DEF Mkdir, TypeOK, Directories
<1>2. CASE WriteTemp(s)
  <2>1. place # NoDirectory => Touched(place, place.temps \cup {s}) \in Directory
    BY <1>0, DirectoryParts, TouchedParts
  <2>2. run' \in [Session -> Run]
    BY <1>2, GotoParts DEF WriteTemp, Calls
  <2>3. FaultStep
    BY <1>2 DEF WriteTemp, Fails, Fault, FaultStep
  <2> QED BY <1>2, <2>1, <2>2, <2>3, FaultType DEF WriteTemp, TypeOK
<1>3. CASE RenameTemp(s)
  <2> DEFINE r == [owner |-> s, token |-> run[s].token, heartbeatAt |-> run[s].at]
  <2>1. r \in Record /\ run[s].token \in Nat
    BY DEF TypeOK, Run, Record
  <2>2. s \in place.temps =>
          [Touched(place, place.temps \ {s}) EXCEPT !.record = r] \in Directory
    <3> SUFFICES ASSUME s \in place.temps
                 PROVE  [Touched(place, place.temps \ {s}) EXCEPT !.record = r] \in Directory
      OBVIOUS
    <3>1. place # NoDirectory /\ place.temps \ {s} \in SUBSET Session
      BY <1>0, DirectoryParts DEF NoDirectory
    <3> HIDE DEF r
    <3> QED BY <1>0, <2>1, <3>1, WrittenParts
  <2>3. run' \in [Session -> Run]
    BY <1>3, GotoParts, ReturnParts DEF RenameTemp, Calls
  <2>5. held' \in [Session -> Nat]
    BY <1>3, <2>1, HoldParts DEF RenameTemp, TypeOK
  <2>6. place' \in Directories
    BY <1>0, <1>3, <2>2 DEF RenameTemp, Directories
  <2> QED BY <1>3, <2>3, <2>5, <2>6 DEF RenameTemp, TypeOK, Directories
<1>4. CASE Undo(s)
  BY <1>4, ReturnParts DEF Undo, TypeOK
<1>5. CASE ReadRecord(s)
  <2>1. run' \in [Session -> Run]
    <3>1. [run[s] EXCEPT !.call = "stat", !.at = clock] \in Run
      BY <1>0, RunSet DEF Calls
    <3>2. ASSUME run' = [run EXCEPT ![s].call = "stat", ![s].at = clock]
          PROVE  run' \in [Session -> Run]
      <4>1. run'[s] = [run[s] EXCEPT !.call = "stat", !.at = clock] /\ run' = [run EXCEPT ![s] = run'[s]]
        BY <1>0, <3>2
      <4> QED BY <3>1, <4>1, RunPlaced
    <3> QED BY <1>5, <3>2, GotoParts, ReturnParts DEF ReadRecord, Calls
  <2>2. FaultStep
    BY <1>5 DEF ReadRecord, Fails, Fault, FaultStep
  <2> QED BY <1>5, <2>1, <2>2, FaultType DEF ReadRecord, TypeOK
<1>6. CASE Stat(s)
  <2>1. run' \in [Session -> Run]
    BY <1>6, GotoParts, ReturnParts DEF Stat, Calls
  <2> QED BY <1>6, <2>1 DEF Stat, TypeOK
<1>7. CASE Reclaim(s)
  <2>1. run' \in [Session -> Run]
    <3>1. CASE place = NoDirectory \/ run[s].attempt = Attempts
      BY <1>7, <3>1, ReturnParts DEF Reclaim
    <3>2. CASE ~(place = NoDirectory \/ run[s].attempt = Attempts)
      <4>1. run[s].attempt \in 0..Attempts
        BY <1>0 DEF Run
      <4>2. run[s].attempt + 1 \in 0..Attempts
        BY <3>2, <4>1
      <4>3. [run[s] EXCEPT !.call = "mkdir", !.attempt = run[s].attempt + 1] \in Run
        BY <1>0, <4>2, RunSet DEF Calls
      <4>4. /\ run'[s] = [run[s] EXCEPT !.call = "mkdir", !.attempt = run[s].attempt + 1]
            /\ run' = [run EXCEPT ![s] = run'[s]]
        BY <1>0, <1>7, <3>2 DEF Reclaim
      <4> QED BY <4>3, <4>4, RunPlaced
    <3> QED BY <3>1, <3>2
  <2> QED BY <1>7, <2>1 DEF Reclaim, TypeOK
<1> QED BY <1>1, <1>2, <1>3, <1>4, <1>5, <1>6, <1>7

\* A renewal has seen a record.
SeenInv ==
  \A s \in Session : run[s].call \in {"renew write", "renew rename"} => run[s].seen \in Record

LEMMA RenewType ==
  ASSUME TypeOK, SeenInv, NEW s \in Session, RenewRead(s) \/ RenewWrite(s) \/ RenewRename(s)
  PROVE  TypeOK'
<1>0. place \in Directories /\ clock \in Nat /\ run[s] \in Run /\ run \in [Session -> Run]
      /\ 1 \in 0..Attempts /\ 0 \in Nat
  BY DEF TypeOK, Directories
<1>1. CASE RenewRead(s)
  <2>1. run' \in [Session -> Run] /\ held' \in [Session -> Nat]
    <3>1. ASSUME run' = [run EXCEPT ![s].call = "renew write", ![s].at = clock,
                                    ![s].seen = place.record], UNCHANGED held
          PROVE  run' \in [Session -> Run] /\ held' \in [Session -> Nat]
      <4>1. place.record \in Record \cup {NoRecord}
        BY <1>0, DirectoryParts DEF Records
      <4>2. [run[s] EXCEPT !.call = "renew write", !.at = clock, !.seen = place.record] \in Run
        BY <1>0, <4>1, RunSet DEF Calls, Records
      <4>3. /\ run'[s] = [run[s] EXCEPT !.call = "renew write", !.at = clock, !.seen = place.record]
            /\ run' = [run EXCEPT ![s] = run'[s]]
        BY <1>0, <3>1
      <4>4. run' \in [Session -> Run]
        BY <4>2, <4>3, RunPlaced
      <4> QED BY <3>1, <4>4 DEF TypeOK
    <3> QED BY <1>1, <3>1, NotRenewedParts DEF RenewRead
  <2>2. FaultStep
    BY <1>1 DEF RenewRead, Fails, Fault, FaultStep
  <2> QED BY <1>1, <2>1, <2>2, FaultType DEF RenewRead, TypeOK
<1>2. CASE RenewWrite(s)
  <2>1. place # NoDirectory => Touched(place, place.temps \cup {s}) \in Directory
    BY <1>0, DirectoryParts, TouchedParts
  <2>2. run' \in [Session -> Run] /\ held' \in [Session -> Nat]
    BY <1>2, GotoParts, NotRenewedParts DEF RenewWrite, TypeOK, Calls
  <2>3. FaultStep
    BY <1>2 DEF RenewWrite, Fails, Fault, FaultStep
  <2> QED BY <1>2, <2>1, <2>2, <2>3, FaultType DEF RenewWrite, TypeOK
<1>3. CASE RenewRename(s)
  <2>1. CASE s \in place.temps
    <3> DEFINE r == [run[s].seen EXCEPT !.heartbeatAt = run[s].at]
    <3>1. place' = [Touched(place, place.temps \ {s}) EXCEPT !.record = r]
      BY <1>3, <2>1 DEF RenewRename
    <3>2. r \in Record
      <4>1. run[s].seen \in Record /\ run[s].at \in Nat
        BY <1>0, <1>3 DEF SeenInv, RenewRename, At, Run
      <4> QED BY <4>1 DEF Record
    <3>3. place # NoDirectory /\ place.temps \ {s} \in SUBSET Session
      BY <1>0, <2>1, DirectoryParts DEF NoDirectory
    <3> HIDE DEF r
    <3>4. place' \in Directory
      BY <1>0, <3>1, <3>2, <3>3, WrittenParts
    <3>5. run' \in [Session -> Run] /\ UNCHANGED held
      BY <1>3, <2>1, ReturnParts DEF RenewRename
    <3> QED BY <1>3, <3>4, <3>5 DEF RenewRename, TypeOK
  <2>2. CASE s \notin place.temps
    <3>1. run' \in [Session -> Run] /\ held' \in [Session -> Nat] /\ UNCHANGED place
      BY <1>3, <2>2, NotRenewedParts DEF RenewRename
    <3> QED BY <1>3, <3>1 DEF RenewRename, TypeOK
  <2> QED BY <2>1, <2>2
<1> QED BY <1>1, <1>2, <1>3

LEMMA ReleaseType ==
  ASSUME TypeOK, NEW s \in Session, Move(s) \/ Look(s) \/ Restore(s) \/ Crash(s)
  PROVE  TypeOK'
<1>0. NoDirectory \in Directories /\ aside \in [Session -> Directories] /\ place \in Directories
  BY DEF TypeOK, Directories
<1>1. CASE Move(s)
  <2>1. run' \in [Session -> Run]
    BY <1>1, ReturnParts, GotoParts DEF Move, Calls
  <2> QED BY <1>0, <1>1, <2>1 DEF Move, TypeOK, Directories
<1>2. CASE Look(s)
  <2>1. run' \in [Session -> Run]
    BY <1>2, ReturnParts, GotoParts DEF Look, Calls
  <2>2. FaultStep
    BY <1>2 DEF Look, Fails, Fault, FaultStep
  <2>3. aside' \in [Session -> Directories]
    BY <1>0, <1>2 DEF Look
  <2> QED BY <1>2, <2>1, <2>2, <2>3, FaultType DEF Look, TypeOK, Directories
<1>3. CASE Restore(s)
  <2>1. run' \in [Session -> Run]
    BY <1>3, ReturnParts DEF Restore
  <2>2. place' \in Directories /\ aside' \in [Session -> Directories]
    BY <1>0, <1>3 DEF Restore
  <2> QED BY <1>3, <2>1, <2>2 DEF Restore, TypeOK, Directories
<1>4. CASE Crash(s)
  <2>1. run' \in [Session -> Run] /\ held' \in [Session -> Nat]
    BY <1>4, ReturnParts, HoldParts DEF Crash
  <2>2. aside' \in [Session -> Directories]
    BY <1>0, <1>4 DEF Crash
  <2> QED BY <1>4, <2>1, <2>2 DEF Crash, TypeOK, Directories
<1> QED BY <1>1, <1>2, <1>3, <1>4

LEMMA TickType == ASSUME TypeOK, Tick PROVE TypeOK'
BY DEF Tick, TypeOK


(***************************************************************************)
(* The lock is one session's                                               *)
(***************************************************************************)

\* A session writes the record of a directory it made, renews its record, or
\* has a record at the path.
Making(s) == run[s].call \in {"write temp", "rename temp", "undo"}
Renewing(s) == run[s].call \in {"renew read", "renew write", "renew rename"}
Holds(s) == held[s] # 0 \/ run[s].call = "move"

\* What keeps the lock one session's: of the sessions that have found an abandoned
\* directory only one is about to remove it, and no session is about to put its
\* record over the one that was found.
Undisturbed ==
  \A s, t \in Session : run[s].call = "reclaim" /\ s # t =>
     /\ run[t].call # "reclaim"
     /\ Making(t) => place.record = NoRecord

\* Where a session is says what it remembers.
CallOK(s) ==
  /\ s \notin alive => run[s] = Idle /\ held[s] = 0
  /\ run[s].call = "none" => run[s] = Idle
  /\ Renewing(s) => held[s] # 0 /\ run[s].token = held[s]
  /\ held[s] # 0 => Renewing(s) \/ run[s].call = "none"
  /\ Making(s) \/ run[s].call = "move" => run[s].token # 0
  /\ run[s].at <= clock
  /\ run[s].call \in {"look", "restore"}
     => aside[s].record.owner = s /\ aside[s].record.token = run[s].token

CallsInv == \A s \in Session : CallOK(s)

\* The record at the path is that of the session which holds the lock, and it is
\* not old.
HoldInv ==
  \A s \in Session : Holds(s) =>
    /\ place.record.owner = s
    /\ place.record.token = IF run[s].call = "move" THEN run[s].token ELSE held[s]
    /\ place.record.heartbeatAt <= clock
    /\ place.record.heartbeatAt <= place.touched
    /\ clock < place.record.heartbeatAt + StaleAfter

RenewInv ==
  \A s \in Session :
    /\ run[s].call \in {"renew write", "renew rename"}
       => run[s].seen = place.record /\ place.record.heartbeatAt <= run[s].at
    /\ run[s].call = "renew rename" => s \in place.temps

\* The directory a session made is still there, and nobody else's.
MakeInv ==
  \A s \in Session : Making(s) =>
    /\ place # NoDirectory
    /\ place.record.owner # s
    /\ clock < run[s].at + StaleAfter
    /\ place.record = NoRecord => run[s].at <= place.touched
    /\ run[s].call = "rename temp" => s \in place.temps
    /\ \A t \in Session : ~Holds(t) /\ (Making(t) => s = t)

\* A directory about to be removed is no live session's.
ReclaimInv ==
  \A s \in Session : run[s].call = "reclaim" =>
    /\ place # NoDirectory
    /\ \A t \in Session : ~Holds(t)
    /\ place.record = NoRecord => \A t \in Session : ~Making(t)

\* Only a call that failed makes a live session forget its record.
ForgetInv ==
  faults = 0 => \A s \in Session :
    /\ run[s].call # "restore"
    /\ s \in alive /\ place.record.owner = s => Holds(s)

LockInv == TypeOK /\ CallsInv /\ HoldInv /\ RenewInv /\ MakeInv /\ ReclaimInv /\ ForgetInv

LEMMA Zero == \A m, n \in Nat : m <= m /\ (m <= n /\ n = 0 => m = 0)
OBVIOUS

LEMMA Later == \A k, m, n, d \in Nat : k < m + d /\ m <= n => k < n + d
OBVIOUS

LEMMA SeenHolds == ASSUME LockInv PROVE SeenInv
<1> SUFFICES ASSUME NEW s \in Session, run[s].call \in {"renew write", "renew rename"}
             PROVE  run[s].seen \in Record
  BY DEF SeenInv
<1>1. run[s].seen = place.record /\ Holds(s)
  BY DEF LockInv, RenewInv, CallsInv, CallOK, Renewing, Holds
<1>2. place.record.owner = s /\ place \in Directories
  BY <1>1 DEF LockInv, HoldInv, TypeOK, Directories
<1>3. place.record \in Records
  BY <1>2, DirectoryParts
<1> QED BY <1>1, <1>2, <1>3, RecordParts

LEMMA TypeKept == ASSUME TypeOK, SeenInv, [Next]_vars PROVE TypeOK'
<1>1. CASE UNCHANGED vars
  BY <1>1 DEF vars, TypeOK
<1> QED BY <1>1, CallType, AcquireType, RenewType, ReleaseType, TickType DEF Next, Proceed

LEMMA TypeStep == ASSUME LockInv, [Next]_vars PROVE TypeOK'
BY SeenHolds, TypeKept DEF LockInv

\* What the arithmetic of the steps needs.
LEMMA Numbers ==
  ASSUME TypeOK
  PROVE  /\ clock \in Nat /\ StaleAfter \in Nat \ {0} /\ faults \in Nat /\ lastToken \in Nat
         /\ place \in Directories
         /\ place.record \in Records /\ place.touched \in Nat /\ place.temps \subseteq Session
         /\ place.record.heartbeatAt \in Nat /\ place.record.token \in Nat
         /\ \A s \in Session : place.record.owner = s => place.record # NoRecord
         /\ NoDirectory.record = NoRecord /\ NoDirectory.temps = {}
         /\ NoRecord.owner \notin Session
         /\ run \in [Session -> Run] /\ held \in [Session -> Nat]
         /\ \A s \in Session : run[s].at \in Nat /\ run[s].token \in Nat
<1>1. place \in Directories
  BY DEF TypeOK, Directories
<1>2. place.record \in Records /\ place.touched \in Nat /\ place.temps \subseteq Session
  BY <1>1, DirectoryParts
<1>3. \A s \in Session : run[s].at \in Nat /\ run[s].token \in Nat
  BY DEF TypeOK, Run
<1>4. NoDirectory.record = NoRecord /\ NoDirectory.temps = {} /\ NoRecord.owner \notin Session
  BY DEF NoDirectory, NoRecord
<1> QED BY <1>1, <1>2, <1>3, <1>4, RecordParts DEF TypeOK

LEMMA InitLock == Init => LockInv
<1> SUFFICES ASSUME Init PROVE LockInv
  OBVIOUS
<1>1. TypeOK
  BY InitType
<1>2. \A s \in Session : run[s] = Idle /\ held[s] = 0 /\ s \in alive /\ run[s].call = "none"
  BY IdleType DEF Init
<1>3. \A s \in Session : place.record.owner # s
  BY <1>1, Numbers DEF Init
<1>4. \A s \in Session : ~Holds(s) /\ ~Making(s) /\ ~Renewing(s)
  BY <1>2 DEF Holds, Making, Renewing
<1>5. CallsInv
  BY <1>2, <1>4, IdleType DEF Init, CallsInv, CallOK
<1>6. HoldInv /\ RenewInv /\ MakeInv /\ ReclaimInv /\ ForgetInv
  BY <1>2, <1>3, <1>4 DEF HoldInv, RenewInv, MakeInv, ReclaimInv, ForgetInv
<1> QED BY <1>1, <1>5, <1>6 DEF LockInv

\* A step of one session.
Others(s) == \A t \in Session \ {s} :
  run'[t] = run[t] /\ held'[t] = held[t] /\ aside'[t] = aside[t]

LEMMA CallsFrame ==
  ASSUME LockInv, NEW s \in Session, Others(s), clock' = clock,
         alive' \in {alive, alive \ {s}}, CallOK(s)'
  PROVE  CallsInv'
<1>1. CallsInv
  BY DEF LockInv
<1>2. \A t \in Session \ {s} : CallOK(t)'
  <2> SUFFICES ASSUME NEW t \in Session, t # s PROVE CallOK(t)'
    OBVIOUS
  <2>1. run'[t] = run[t] /\ held'[t] = held[t] /\ aside'[t] = aside[t] /\ (t \in alive' <=> t \in alive)
    BY DEF Others
  <2>2. CallOK(t)
    BY <1>1 DEF CallsInv
  <2> QED BY <2>1, <2>2 DEF CallOK, Renewing, Making
<1> QED BY <1>2 DEF CallsInv

\* The path, the time and who lives stay, and the session ends up where it neither
\* has the lock nor does anything to it.
Neutral(s) == /\ UNCHANGED <<place, clock>>
              /\ Others(s)
              /\ held'[s] = 0
              /\ run'[s].at <= clock
              /\ \/ run'[s] = Idle
                 \/ run'[s].call \in {"mkdir", "read", "stat"} /\ s \in alive'
                 \/ /\ run'[s].call = "restore" /\ s \in alive' /\ faults' # 0
                    /\ aside'[s].record.owner = s /\ aside'[s].record.token = run'[s].token
              /\ alive' \in {alive, alive \ {s}}
              /\ faults <= faults'

LEMMA NeutralStep ==
  ASSUME LockInv, NEW s \in Session, Neutral(s), TypeOK',
         faults' = 0 /\ s \in alive' => place.record.owner # s
  PROVE  LockInv'
<1>0. TypeOK /\ faults \in Nat /\ (faults' = 0 => faults = 0)
  BY DEF LockInv, TypeOK, Neutral
<1>1. /\ run'[s].call \in {"none", "mkdir", "read", "stat", "restore"}
      /\ run'[s].call = "restore" => faults' # 0
  BY IdleType DEF Neutral
<1>2. \A t \in Session : t # s => run'[t] = run[t] /\ held'[t] = held[t] /\ aside'[t] = aside[t]
  BY DEF Neutral, Others
<1>3. ~Holds(s)' /\ ~Making(s)' /\ ~Renewing(s)'
  BY <1>1 DEF Neutral, Holds, Making, Renewing
<1>4. \A t \in Session : t # s => (Holds(t)' <=> Holds(t)) /\ (Making(t)' <=> Making(t))
                                  /\ (Renewing(t)' <=> Renewing(t))
  BY <1>2 DEF Holds, Making, Renewing
<1>5. CallsInv'
  <2>1. CallOK(s)'
    BY <1>1, <1>3, IdleType DEF Neutral, CallOK
  <2> QED BY <2>1, CallsFrame DEF Neutral
<1>6. HoldInv'
  BY <1>2, <1>3, <1>4 DEF LockInv, HoldInv, Neutral
<1>7. RenewInv'
  BY <1>1, <1>2 DEF LockInv, RenewInv, Neutral
<1>8. MakeInv'
  BY <1>2, <1>3, <1>4 DEF LockInv, MakeInv, Neutral
<1>9. ReclaimInv'
  BY <1>1, <1>2, <1>3, <1>4 DEF LockInv, ReclaimInv, Neutral
<1>10. ForgetInv'
  BY <1>0, <1>1, <1>2, <1>4 DEF LockInv, ForgetInv, Neutral
<1> QED BY <1>5, <1>6, <1>7, <1>8, <1>9, <1>10 DEF LockInv

\* The lock directory is gone, and nobody had it.
LEMMA GoneStep ==
  ASSUME LockInv, NEW s \in Session, TypeOK', Others(s), UNCHANGED <<clock, alive, faults, held>>,
         place' = NoDirectory, s \in alive, held[s] = 0,
         run'[s].at <= clock,
         \/ run'[s] = Idle \/ run'[s].call = "mkdir"
         \/ /\ run'[s].call = "look"
            /\ aside'[s].record.owner = s /\ aside'[s].record.token = run'[s].token,
         \A t \in Session \ {s} : ~Holds(t) /\ ~Making(t) /\ run[t].call # "reclaim"
  PROVE  LockInv'
<1>0. TypeOK /\ place'.record.owner \notin Session
  BY Numbers DEF LockInv
<1>1. run'[s].call \in {"none", "mkdir", "look"} /\ held'[s] = 0
  BY IdleType
<1>2. \A t \in Session : t # s => run'[t] = run[t] /\ held'[t] = held[t] /\ aside'[t] = aside[t]
  BY DEF Others
<1>3. \A t \in Session : ~Holds(t)' /\ ~Making(t)' /\ ~Renewing(t)' /\ run'[t].call # "reclaim"
  <2>1. ~Holds(s)' /\ ~Making(s)' /\ ~Renewing(s)' /\ run'[s].call # "reclaim"
    BY <1>1 DEF Holds, Making, Renewing
  <2>2. \A t \in Session : t # s => ~Renewing(t)
    BY DEF LockInv, CallsInv, CallOK, Holds
  <2>3. \A t \in Session : t # s => ~Holds(t)' /\ ~Making(t)' /\ ~Renewing(t)' /\ run'[t].call # "reclaim"
    BY <1>2, <2>2 DEF Holds, Making, Renewing
  <2> QED BY <2>1, <2>3
<1>4. CallOK(s)'
  BY <1>1, <1>3, IdleType DEF CallOK
<1>a. CallsInv'
  BY <1>4, CallsFrame
<1>5. HoldInv' /\ MakeInv' /\ ReclaimInv'
  BY <1>3 DEF HoldInv, MakeInv, ReclaimInv
<1>6. RenewInv'
  BY <1>3 DEF RenewInv, Renewing
<1>7. ForgetInv'
  BY <1>0, <1>1, <1>2 DEF LockInv, ForgetInv
<1> QED BY <1>a, <1>5, <1>6, <1>7 DEF LockInv


\* How an operation begins.
LEMMA CallParts ==
  ASSUME TypeOK, NEW s \in Session, Call(s)
  PROVE  /\ run[s].call = "none" /\ s \in alive /\ Others(s)
         /\ UNCHANGED <<place, aside, clock, alive, faults>>
         /\ run'[s].at = 0
         /\ \/ held[s] = 0 /\ held'[s] = 0 /\ run'[s].call = "mkdir"
            \/ /\ held[s] # 0 /\ run'[s].token = held[s]
               /\ \/ run'[s].call = "renew read" /\ held'[s] = held[s]
                  \/ run'[s].call = "move" /\ held'[s] = 0
<1>0. /\ run \in [Session -> Run] /\ held \in [Session -> Nat]
      /\ run[s].call = "none" /\ s \in alive
      /\ UNCHANGED <<place, aside, clock, alive, faults>>
  BY DEF Call, CallEnsure, CallHeartbeat, CallRelease, At, TypeOK
<1>1. Others(s)
  BY <1>0 DEF Call, CallEnsure, CallHeartbeat, CallRelease, Hold, Others
<1>2. CASE CallEnsure(s) /\ held[s] = 0
  <2>1. run'[s] = [Idle EXCEPT !.task = "ensure", !.attempt = 1, !.token = held[s], !.call = "mkdir"]
    BY <1>0, <1>2 DEF CallEnsure
  <2>2. run'[s].call = "mkdir" /\ run'[s].at = 0
    BY <2>1 DEF Idle
  <2> QED BY <1>0, <1>1, <1>2, <2>2 DEF CallEnsure
<1>3. CASE CallEnsure(s) /\ held[s] # 0
  <2>1. run'[s] = [Idle EXCEPT !.task = "ensure", !.attempt = 1, !.token = held[s],
                               !.call = "renew read"]
    BY <1>0, <1>3 DEF CallEnsure
  <2>2. run'[s].call = "renew read" /\ run'[s].at = 0 /\ run'[s].token = held[s]
    BY <2>1 DEF Idle
  <2> QED BY <1>0, <1>1, <1>3, <2>2 DEF CallEnsure
<1>4. CASE CallHeartbeat(s)
  <2>1. run'[s] = [Idle EXCEPT !.task = "heartbeat", !.token = held[s], !.call = "renew read"]
    BY <1>0, <1>4 DEF CallHeartbeat
  <2>2. run'[s].call = "renew read" /\ run'[s].at = 0 /\ run'[s].token = held[s]
    BY <2>1 DEF Idle
  <2> QED BY <1>0, <1>1, <1>4, <2>2 DEF CallHeartbeat
<1>5. CASE CallRelease(s)
  <2>1. run'[s] = [Idle EXCEPT !.task = "release", !.token = held[s], !.call = "move"]
    BY <1>0, <1>5 DEF CallRelease
  <2>2. held'[s] = 0 /\ held[s] # 0
    BY <1>0, <1>5 DEF CallRelease, Hold
  <2>3. run'[s].call = "move" /\ run'[s].at = 0 /\ run'[s].token = held[s]
    BY <2>1 DEF Idle
  <2> QED BY <1>0, <1>1, <2>2, <2>3
<1> QED BY <1>2, <1>3, <1>4, <1>5 DEF Call

LEMMA CallLock == ASSUME LockInv, NEW s \in Session, Call(s), TypeOK' PROVE LockInv'
<1>0. /\ run[s].call = "none" /\ s \in alive /\ Others(s) /\ run'[s].at = 0
      /\ UNCHANGED <<place, aside, clock, alive, faults>>
      /\ clock \in Nat /\ run[s] = Idle /\ faults \in Nat
  BY CallParts DEF LockInv, CallsInv, CallOK, TypeOK
<1>1. CASE held[s] = 0
  <2>1. held'[s] = 0 /\ run'[s].call = "mkdir"
    BY <1>1, CallParts DEF LockInv
  <2>2. Neutral(s)
    BY <1>0, <1>1, <2>1, Zero DEF Neutral
  <2>3. faults' = 0 /\ s \in alive' => place.record.owner # s
    BY <1>0, <1>1 DEF LockInv, ForgetInv, Holds
  <2> QED BY <2>2, <2>3, NeutralStep
<1>2. CASE held[s] # 0
  <2>1. /\ run'[s].token = held[s]
        /\ \/ run'[s].call = "renew read" /\ held'[s] = held[s]
           \/ run'[s].call = "move" /\ held'[s] = 0
    BY <1>2, CallParts DEF LockInv
  <2>2. /\ \A t \in Session : (Holds(t)' <=> Holds(t)) /\ (Making(t)' <=> Making(t))
        /\ Holds(s)
        /\ \A t \in Session : t # s => run'[t] = run[t] /\ held'[t] = held[t] /\ aside'[t] = aside[t]
    BY <1>0, <1>2, <2>1 DEF Holds, Making, Others
  <2>3. CallsInv'
    <3>1. 0 <= clock
      BY <1>0
    <3>2. CallOK(s)'
      BY <1>0, <1>2, <2>1, <3>1 DEF CallOK, Renewing, Making
    <3> QED BY <1>0, <3>2, CallsFrame
  <2>4. HoldInv'
    <3>1. HoldInv /\ run[s].call # "move"
      BY <1>0 DEF LockInv
    <3>2. \A t \in Session :
            Holds(t)' => /\ Holds(t)
                         /\ (IF run'[t].call = "move" THEN run'[t].token ELSE held'[t])
                            = (IF run[t].call = "move" THEN run[t].token ELSE held[t])
      <4> SUFFICES ASSUME NEW t \in Session
                   PROVE  (IF run'[t].call = "move" THEN run'[t].token ELSE held'[t])
                          = (IF run[t].call = "move" THEN run[t].token ELSE held[t])
        BY <2>2
      <4>1. CASE t = s
        BY <2>1, <3>1, <4>1
      <4>2. CASE t # s
        BY <2>2, <4>2
      <4> QED BY <4>1, <4>2
    <3> QED BY <1>0, <3>1, <3>2 DEF HoldInv
  <2>5. RenewInv' /\ MakeInv' /\ ReclaimInv' /\ ForgetInv'
    BY <1>0, <2>1, <2>2 DEF LockInv, RenewInv, MakeInv, ReclaimInv, ForgetInv
  <2> QED BY <2>3, <2>4, <2>5 DEF LockInv
<1> QED BY <1>1, <1>2

LEMMA MkdirLock == ASSUME LockInv, NEW s \in Session, Mkdir(s), TypeOK' PROVE LockInv'
<1>0. /\ s \in alive /\ run[s].call = "mkdir" /\ Others(s) /\ TypeOK
      /\ UNCHANGED <<aside, clock, alive, faults, held>>
      /\ clock \in Nat /\ StaleAfter \in Nat \ {0} /\ faults \in Nat /\ lastToken \in Nat
      /\ run \in [Session -> Run] /\ held[s] = 0 /\ ~Holds(s)
  BY DEF Mkdir, At, Others, LockInv, CallsInv, CallOK, TypeOK, Holds, Renewing
<1>1. CASE place = NoDirectory
  <2>1. run'[s].call = "write temp" /\ run'[s].at = clock /\ run'[s].token = lastToken + 1
    <3>1. run' = [run EXCEPT ![s].call = "write temp", ![s].at = clock, ![s].token = lastToken + 1]
      BY <1>1 DEF Mkdir
    <3> QED BY <1>0, <3>1 DEF Run
  <2>2. place' # NoDirectory /\ place'.record = NoRecord /\ place'.touched = clock
    <3>1. place' = [NoDirectory EXCEPT !.made = TRUE, !.touched = clock]
      BY <1>1 DEF Mkdir
    <3>2. place'.made = TRUE /\ NoDirectory.made = FALSE
      BY <3>1 DEF NoDirectory
    <3> QED BY <3>1, <3>2 DEF NoDirectory
  <2>3. place.record = NoRecord /\ NoRecord.owner \notin Session
    BY <1>1 DEF NoDirectory, NoRecord
  <2>4. \A t \in Session : ~Holds(t) /\ ~Making(t) /\ run[t].call # "reclaim"
    BY <1>1, <2>3 DEF LockInv, HoldInv, MakeInv, ReclaimInv
  <2>5. \A t \in Session : t # s => run'[t] = run[t] /\ held'[t] = held[t] /\ aside'[t] = aside[t]
    BY <1>0 DEF Others
  <2>6. /\ \A t \in Session : ~Holds(t)' /\ (Making(t)' => t = s) /\ run'[t].call # "reclaim"
        /\ Making(s)'
        /\ \A t \in Session : ~Renewing(t)'
    BY <1>0, <2>1, <2>4, <2>5 DEF Holds, Making, Renewing, LockInv, CallsInv, CallOK
  <2>7. CallsInv'
    <3>1. lastToken + 1 # 0 /\ clock <= clock
      BY <1>0
    <3>2. CallOK(s)'
      BY <1>0, <2>1, <2>6, <3>1 DEF CallOK
    <3> QED BY <1>0, <3>2, CallsFrame
  <2>8. HoldInv' /\ ReclaimInv' /\ RenewInv'
    BY <2>6 DEF HoldInv, ReclaimInv, RenewInv, Renewing
  <2>9. MakeInv'
    <3>1. clock < clock + StaleAfter
      BY <1>0
    <3>2. /\ place' # NoDirectory /\ place'.record.owner # s
          /\ clock' < run'[s].at + StaleAfter /\ run'[s].at <= place'.touched
      <4>1. clock <= clock /\ clock' = clock
        BY <1>0
      <4> QED BY <2>1, <2>2, <2>3, <3>1, <4>1
    <3> QED BY <2>1, <2>6, <3>2 DEF MakeInv
  <2>10. ForgetInv'
    BY <1>0, <2>1, <2>2, <2>3, <2>5 DEF LockInv, ForgetInv
  <2> QED BY <2>7, <2>8, <2>9, <2>10 DEF LockInv
<1>2. CASE place # NoDirectory
  <2>1. run'[s].call = "read" /\ run'[s].at = clock
    <3>1. run' = [run EXCEPT ![s].call = "read", ![s].at = clock]
      BY <1>2 DEF Mkdir
    <3> QED BY <1>0, <3>1 DEF Run
  <2>2. Neutral(s)
    BY <1>0, <1>2, <2>1 DEF Neutral, Mkdir
  <2>3. faults' = 0 /\ s \in alive' => place.record.owner # s
    BY <1>0 DEF LockInv, ForgetInv
  <2> QED BY <2>2, <2>3, NeutralStep
<1> QED BY <1>1, <1>2

\* While a session has the lock or makes it, no other one is about to remove it.
LEMMA NoReclaimer ==
  ASSUME LockInv, Undisturbed, NEW s \in Session, Holds(s) \/ Making(s), NEW t \in Session
  PROVE  run[t].call # "reclaim"
<1> SUFFICES ASSUME run[t].call = "reclaim" PROVE FALSE
  OBVIOUS
<1>1. ~Holds(s) /\ (place.record = NoRecord => ~Making(s))
  BY DEF LockInv, ReclaimInv
<1>2. Making(s) /\ t # s
  BY <1>1 DEF Making
<1> QED BY <1>1, <1>2 DEF Undisturbed

\* What is known of a session that is in an operation.
LEMMA InOperation ==
  ASSUME LockInv, NEW s \in Session, NEW call, At(s, call), call # "none"
  PROVE  /\ TypeOK /\ run[s].call = call /\ s \in alive /\ CallOK(s)
         /\ Renewing(s) <=> held[s] # 0
         /\ run[s] \in Run
<1>1. TypeOK /\ run[s].call = call /\ s \in alive /\ CallOK(s) /\ run[s] \in Run
  BY DEF LockInv, CallsInv, At, TypeOK
<1> QED BY <1>1 DEF CallOK

LEMMA TouchStep ==
  ASSUME LockInv, NEW s \in Session, TypeOK', Others(s), UNCHANGED <<clock, alive, held>>,
         s \in alive, faults <= faults', place' # NoDirectory, place'.record = place.record,
         place'.touched = clock, place'.temps = place.temps \cup {s},
         run'[s].at = run[s].at, run'[s].token = run[s].token, run'[s].seen = run[s].seen,
         \/ run[s].call = "write temp" /\ run'[s].call = "rename temp"
         \/ run[s].call = "renew write" /\ run'[s].call = "renew rename"
  PROVE  LockInv'
<1>0. TypeOK /\ faults \in Nat /\ faults' \in Nat /\ (faults' = 0 => faults = 0)
  <2>1. TypeOK /\ faults \in Nat
    BY DEF LockInv, TypeOK
  <2>2. faults' \in Nat
    BY DEF TypeOK
  <2> QED BY <2>1, <2>2, Zero
<1>1. \A t \in Session : t # s => run'[t] = run[t] /\ held'[t] = held[t]
  BY DEF Others
<1>2. \A t \in Session : /\ Holds(t)' <=> Holds(t)
                         /\ Making(t)' <=> Making(t)
                         /\ Renewing(t)' <=> Renewing(t)
                         /\ run'[t].call = "move" <=> run[t].call = "move"
                         /\ run'[t].call = "reclaim" <=> run[t].call = "reclaim"
                         /\ run'[t].call = "restore" <=> run[t].call = "restore"
                         /\ run'[t].token = run[t].token /\ run'[t].at = run[t].at
                         /\ run'[t].seen = run[t].seen
  BY <1>1 DEF Holds, Making, Renewing
<1>3. CallsInv'
  <2>1. CallOK(s) /\ run[s].call # "none" /\ run'[s].call # "none"
    BY DEF LockInv, CallsInv
  <2>2. CallOK(s)'
    BY <1>2, <2>1 DEF CallOK
  <2> QED BY <2>2, CallsFrame
<1>4. HoldInv'
  <2> SUFFICES ASSUME NEW t \in Session, Holds(t)'
               PROVE  /\ place'.record.owner = t
                      /\ place'.record.token = IF run'[t].call = "move" THEN run'[t].token ELSE held'[t]
                      /\ place'.record.heartbeatAt <= clock'
                      /\ place'.record.heartbeatAt <= place'.touched
                      /\ clock' < place'.record.heartbeatAt + StaleAfter
    BY DEF HoldInv
  <2>1. Holds(t) /\ HoldInv
    BY <1>2 DEF LockInv
  <2>2. (IF run'[t].call = "move" THEN run'[t].token ELSE held'[t])
        = (IF run[t].call = "move" THEN run[t].token ELSE held[t])
    BY <1>2
  <2> QED BY <2>1, <2>2 DEF HoldInv
<1>5. RenewInv'
  <2>1. run'[s].call = "renew rename" => run[s].call = "renew write"
    OBVIOUS
  <2> QED BY <1>1, <1>2, <2>1 DEF LockInv, RenewInv
<1>6. MakeInv'
  <2> SUFFICES ASSUME NEW t \in Session, Making(t)'
               PROVE  /\ place' # NoDirectory
                      /\ place'.record.owner # t
                      /\ clock' < run'[t].at + StaleAfter
                      /\ place'.record = NoRecord => run'[t].at <= place'.touched
                      /\ run'[t].call = "rename temp" => t \in place'.temps
                      /\ \A u \in Session : ~Holds(u)' /\ (Making(u)' => t = u)
    BY DEF MakeInv
  <2>1. run[t].at <= clock /\ MakeInv /\ Making(t)
    BY <1>2 DEF LockInv, CallsInv, CallOK
  <2>2. run'[t].call = "rename temp" => t \in place'.temps
    BY <1>1, <2>1 DEF MakeInv
  <2>3. \A u \in Session : ~Holds(u)' /\ (Making(u)' => t = u)
    BY <1>2, <2>1 DEF MakeInv
  <2>4. /\ place # NoDirectory /\ place.record.owner # t
        /\ clock < run[t].at + StaleAfter
    BY <2>1 DEF MakeInv
  <2>5. run'[t].at = run[t].at
    BY <1>2
  <2> QED BY <2>1, <2>2, <2>3, <2>4, <2>5
<1>7. ReclaimInv' /\ ForgetInv'
  BY <1>0, <1>2 DEF LockInv, ReclaimInv, ForgetInv
<1> QED BY <1>3, <1>4, <1>5, <1>6, <1>7 DEF LockInv

LEMMA WriteTempLock == ASSUME LockInv, NEW s \in Session, WriteTemp(s), TypeOK' PROVE LockInv'
<1>0. /\ TypeOK /\ run[s].call = "write temp" /\ s \in alive /\ CallOK(s) /\ held[s] = 0
      /\ Making(s) /\ place # NoDirectory
  BY InOperation DEF WriteTemp, Renewing, Making, LockInv, MakeInv
<1>n. /\ place \in Directories /\ place.temps \cup {s} \in SUBSET Session
      /\ clock \in Nat /\ faults \in Nat
  BY <1>0, Numbers
<1>1. CASE Goto(s, "rename temp") /\ UNCHANGED faults /\ place' = Touched(place, place.temps \cup {s})
  <2>1. /\ To(s, "rename temp")
        /\ run'[s].token = run[s].token /\ run'[s].at = run[s].at /\ run'[s].seen = run[s].seen
    BY <1>0, <1>1, GotoParts DEF Calls
  <2>2. /\ place' # NoDirectory /\ place'.record = place.record
        /\ place'.touched = clock /\ place'.temps = place.temps \cup {s}
    BY <1>0, <1>n, <1>1, TouchedParts
  <2>3. Others(s) /\ UNCHANGED <<clock, alive, held>> /\ faults <= faults'
    <3>1. UNCHANGED <<clock, alive, held, aside>>
      BY DEF WriteTemp
    <3>2. faults <= faults'
      BY <1>n, <1>1, Zero
    <3> QED BY <2>1, <3>1, <3>2 DEF To, Others
  <2> QED BY <1>0, <2>1, <2>2, <2>3, TouchStep DEF To
<1>2. CASE Goto(s, "undo") /\ UNCHANGED place /\ faults' = faults + 1
  <2>1. /\ To(s, "undo")
        /\ run'[s].token = run[s].token /\ run'[s].at = run[s].at /\ run'[s].seen = run[s].seen
    BY <1>0, <1>2, GotoParts DEF Calls
  <2>2. Others(s) /\ UNCHANGED <<place, clock, alive, held, aside>> /\ faults' # 0
    <3>1. UNCHANGED <<place, clock, alive, held, aside>>
      BY <1>2 DEF WriteTemp
    <3>2. faults' # 0
      BY <1>n, <1>2
    <3> QED BY <2>1, <3>1, <3>2 DEF To, Others
  <2>3. \A t \in Session : t # s => run'[t] = run[t]
    BY <2>1 DEF To
  <2>4. \A t \in Session : /\ Holds(t)' <=> Holds(t)
                           /\ Making(t)' <=> Making(t)
                           /\ Renewing(t)' <=> Renewing(t)
                           /\ run'[t].call = "reclaim" <=> run[t].call = "reclaim"
                           /\ run'[t].token = run[t].token /\ run'[t].at = run[t].at
                           /\ run'[t].seen = run[t].seen
                           /\ run'[t].call # "undo" => run'[t].call = run[t].call
                           /\ Holds(t) => run'[t].call = run[t].call
    BY <1>0, <2>1, <2>2, <2>3 DEF Holds, Making, Renewing, To
  <2>5. CallsInv'
    <3>1. CallOK(s)'
      BY <1>0, <2>1, <2>2, <2>4 DEF CallOK, To
    <3> QED BY <2>2, <3>1, CallsFrame
  <2>6. HoldInv' /\ ReclaimInv'
    BY <2>2, <2>4 DEF LockInv, HoldInv, ReclaimInv
  <2>7. RenewInv' /\ MakeInv'
    BY <2>2, <2>4 DEF LockInv, RenewInv, MakeInv
  <2>8. ForgetInv'
    BY <2>2 DEF ForgetInv
  <2> QED BY <2>5, <2>6, <2>7, <2>8 DEF LockInv
<1> QED BY <1>0, <1>1, <1>2 DEF WriteTemp, Fails, Fault

LEMMA RenameTempLock ==
  ASSUME LockInv, Undisturbed, NEW s \in Session, RenameTemp(s), TypeOK'
  PROVE  LockInv'
<1>0. /\ TypeOK /\ run[s].call = "rename temp" /\ s \in alive /\ CallOK(s)
      /\ Making(s) /\ place # NoDirectory /\ s \in place.temps
      /\ clock < run[s].at + StaleAfter
      /\ \A t \in Session : ~Holds(t) /\ (Making(t) => s = t)
  BY InOperation DEF RenameTemp, Making, LockInv, MakeInv
<1>n. /\ place \in Directories /\ place.temps \ {s} \in SUBSET Session
      /\ clock \in Nat /\ faults \in Nat /\ run[s].token \in Nat /\ run[s].at \in Nat
  BY <1>0, Numbers
<1> DEFINE r == [owner |-> s, token |-> run[s].token, heartbeatAt |-> run[s].at]
<1>1. /\ place' = [Touched(place, place.temps \ {s}) EXCEPT !.record = r]
      /\ Hold(s, run[s].token) /\ Return(s) /\ UNCHANGED <<aside, clock, alive, faults>>
  BY <1>0 DEF RenameTemp
<1>2. r \in Record /\ r.owner = s /\ r.token = run[s].token /\ r.heartbeatAt = run[s].at
  BY <1>n DEF Record
<1> HIDE DEF r
<1>3. place' # NoDirectory /\ place'.record = r /\ place'.touched = clock
  <2>1. place \in Directory
    BY <1>0, <1>n, DirectoryParts
  <2>2. place'.record = r /\ place'.touched = clock /\ place'.made = TRUE
    BY <1>1, <2>1 DEF Touched, Directory
  <2> QED BY <2>2 DEF NoDirectory
<1>4. /\ run'[s] = Idle /\ run'[s].call = "none" /\ To(s, "none")
      /\ held'[s] = run[s].token /\ held'[s] # 0
      /\ \A t \in Session \ {s} : held'[t] = held[t]
  <2>1. run[s].token # 0
    BY <1>0 DEF CallOK
  <2> QED BY <1>0, <1>n, <1>1, <2>1, ReturnParts, HoldParts DEF To
<1>5. Others(s)
  BY <1>1, <1>4 DEF To, Others
<1>6. \A t \in Session : /\ ~Making(t)' /\ ~Renewing(t)' /\ run'[t].call # "reclaim"
                         /\ Holds(t)' => t = s
  <2>1. \A t \in Session : run[t].call # "reclaim"
    BY <1>0, NoReclaimer
  <2>2. \A t \in Session : t # s => ~Making(t) /\ ~Holds(t) /\ ~Renewing(t)
    BY <1>0 DEF LockInv, CallsInv, CallOK, Holds
  <2>3. \A t \in Session : t # s => run'[t] = run[t] /\ held'[t] = held[t]
    BY <1>5 DEF Others
  <2> QED BY <1>4, <2>1, <2>2, <2>3 DEF Making, Renewing, Holds
<1>7. CallsInv'
  <2>1. 0 <= clock
    BY <1>n
  <2>2. CallOK(s)'
    BY <1>0, <1>1, <1>4, <1>6, <2>1, IdleType DEF CallOK
  <2> QED BY <1>1, <1>5, <2>2, CallsFrame
<1>8. HoldInv'
  <2>1. run[s].at <= clock
    BY <1>0 DEF CallOK
  <2> QED BY <1>0, <1>1, <1>2, <1>3, <1>4, <1>6, <2>1 DEF HoldInv
<1>9. RenewInv' /\ MakeInv' /\ ReclaimInv'
  BY <1>6 DEF RenewInv, MakeInv, ReclaimInv, Renewing
<1>10. ForgetInv'
  <2>1. \A t \in Session : t # s => run'[t] = run[t]
    BY <1>5 DEF Others
  <2>2. Holds(s)'
    BY <1>4 DEF Holds
  <2> QED BY <1>1, <1>2, <1>3, <1>4, <2>1, <2>2 DEF LockInv, ForgetInv
<1> QED BY <1>7, <1>8, <1>9, <1>10 DEF LockInv

LEMMA UndoLock ==
  ASSUME LockInv, Undisturbed, NEW s \in Session, Undo(s), TypeOK'
  PROVE  LockInv'
<1>0. /\ TypeOK /\ run[s].call = "undo" /\ s \in alive /\ CallOK(s) /\ held[s] = 0
      /\ Making(s)
      /\ \A t \in Session : ~Holds(t) /\ (Making(t) => s = t)
  BY InOperation DEF Undo, Making, Renewing, LockInv, MakeInv
<1>1. run'[s] = Idle /\ To(s, "none") /\ UNCHANGED <<aside, clock, alive, held, faults>> /\ place' = NoDirectory
  BY <1>0, ReturnParts DEF Undo
<1>2. Others(s)
  BY <1>1 DEF To, Others
<1>3. \A t \in Session \ {s} : ~Holds(t) /\ ~Making(t) /\ run[t].call # "reclaim"
  BY <1>0, NoReclaimer
<1>4. run'[s].at <= clock
  <2>1. clock \in Nat
    BY <1>0, Numbers
  <2> QED BY <1>1, <2>1, IdleType
<1> QED BY <1>0, <1>1, <1>2, <1>3, <1>4, GoneStep

\* A session decides to remove the directory it found.
LEMMA DecideStep ==
  ASSUME LockInv, NEW s \in Session, TypeOK', Goto(s, "reclaim"), s \in alive, held[s] = 0,
         UNCHANGED <<place, aside, clock, alive, held, faults>>,
         run[s].call \in {"read", "stat"},
         place # NoDirectory, \A t \in Session : ~Holds(t),
         place.record = NoRecord => \A t \in Session : ~Making(t)
  PROVE  LockInv'
<1>1. /\ TypeOK /\ To(s, "reclaim") /\ run'[s].at = run[s].at /\ CallOK(s)
  BY GotoParts DEF LockInv, CallsInv, Calls
<1>2. \A t \in Session : t # s => run'[t] = run[t]
  BY <1>1 DEF To
<1>3. \A t \in Session : /\ Holds(t)' <=> Holds(t)
                         /\ Making(t)' <=> Making(t)
                         /\ Renewing(t)' <=> Renewing(t)
  BY <1>1, <1>2 DEF Holds, Making, Renewing, To
<1>4. CallsInv'
  <2>1. CallOK(s)'
    BY <1>1, <1>3 DEF CallOK, To, Renewing, Making
  <2>2. Others(s)
    BY <1>2 DEF Others
  <2> QED BY <2>1, <2>2, CallsFrame
<1>5. HoldInv' /\ ReclaimInv'
  BY <1>3 DEF HoldInv, ReclaimInv
<1>6. RenewInv'
  BY <1>1, <1>2 DEF LockInv, RenewInv, To
<1>7. MakeInv'
  BY <1>1, <1>2, <1>3 DEF LockInv, MakeInv, To
<1>8. ForgetInv'
  BY <1>1, <1>2, <1>3 DEF LockInv, ForgetInv, To
<1> QED BY <1>4, <1>5, <1>6, <1>7, <1>8 DEF LockInv

LEMMA ReadRecordLock == ASSUME LockInv, NEW s \in Session, ReadRecord(s), TypeOK' PROVE LockInv'
<1>0. /\ TypeOK /\ run[s].call = "read" /\ s \in alive /\ CallOK(s) /\ held[s] = 0 /\ ~Holds(s)
      /\ UNCHANGED <<place, aside, clock, alive, held>>
  <2>1. At(s, "read")
    BY DEF ReadRecord
  <2>2. /\ TypeOK /\ run[s].call = "read" /\ s \in alive /\ CallOK(s)
        /\ (Renewing(s) <=> held[s] # 0)
    BY <2>1, InOperation
  <2>3. held[s] = 0 /\ ~Holds(s)
    BY <2>2 DEF Renewing, Holds
  <2> QED BY <2>2, <2>3 DEF ReadRecord
<1>n. clock \in Nat /\ faults \in Nat /\ StaleAfter \in Nat \ {0} /\ place.record.heartbeatAt \in Nat
      /\ run[s].at \in Nat /\ run \in [Session -> Run] /\ run[s].at <= clock
  BY <1>0, Numbers DEF CallOK
<1>f. faults' = 0 /\ s \in alive' => place.record.owner # s \/ faults' # faults
  BY <1>0 DEF LockInv, ForgetInv
<1>1. CASE Stale(s, place.record, run[s].at) /\ place.record # NoRecord
           /\ Goto(s, "reclaim") /\ UNCHANGED faults
  <2>1. \A t \in Session : ~Holds(t)
    <3> SUFFICES ASSUME NEW t \in Session, Holds(t) PROVE FALSE
      OBVIOUS
    <3>1. place.record.owner = t /\ t \in alive /\ clock < place.record.heartbeatAt + StaleAfter
      BY IdleType DEF LockInv, HoldInv, CallsInv, CallOK, Holds
    <3> QED BY <1>1, <1>n, <3>1 DEF Stale
  <2>2. place # NoDirectory
    BY <1>1 DEF NoDirectory
  <2> QED BY <1>0, <1>1, <2>1, <2>2, DecideStep
<1>2. CASE Return(s) /\ UNCHANGED faults
  <2>1. run'[s] = Idle /\ To(s, "none")
    BY <1>0, <1>2, ReturnParts
  <2>2. Neutral(s)
    BY <1>0, <1>n, <1>2, <2>1, IdleType DEF Neutral, To, Others
  <2> QED BY <1>2, <1>f, <2>2, NeutralStep
<1>3. CASE /\ run' = [run EXCEPT ![s].call = "stat", ![s].at = clock]
           /\ UNCHANGED faults \/ faults' = faults + 1
  <2>1. run'[s].call = "stat" /\ run'[s].at = clock /\ \A t \in Session \ {s} : run'[t] = run[t]
    BY <1>n, <1>3 DEF Run
  <2>2. Neutral(s)
    BY <1>0, <1>n, <1>3, <2>1 DEF Neutral, Others
  <2>3. faults' = 0 => faults' = faults
    BY <1>n, <1>3
  <2> QED BY <1>f, <2>2, <2>3, NeutralStep
<1> QED BY <1>1, <1>2, <1>3 DEF ReadRecord, Fails, Fault

LEMMA StatLock == ASSUME LockInv, NEW s \in Session, Stat(s), TypeOK' PROVE LockInv'
<1>0. /\ TypeOK /\ run[s].call = "stat" /\ s \in alive /\ CallOK(s) /\ held[s] = 0 /\ ~Holds(s)
      /\ UNCHANGED <<place, aside, clock, alive, held, faults>>
  <2>1. At(s, "stat")
    BY DEF Stat
  <2>2. /\ TypeOK /\ run[s].call = "stat" /\ s \in alive /\ CallOK(s)
        /\ (Renewing(s) <=> held[s] # 0)
    BY <2>1, InOperation
  <2>3. held[s] = 0 /\ ~Holds(s)
    BY <2>2 DEF Renewing, Holds
  <2> QED BY <2>2, <2>3 DEF Stat
<1>n. clock \in Nat /\ faults \in Nat /\ StaleAfter \in Nat \ {0} /\ place.record.heartbeatAt \in Nat
      /\ run[s].at \in Nat /\ run[s].at <= clock /\ place.touched \in Nat
      /\ \A t \in Session : run[t].at \in Nat
  BY <1>0, Numbers DEF CallOK
<1>1. CASE Goto(s, "reclaim") /\ place # NoDirectory /\ place.touched + StaleAfter <= run[s].at
  <2>1. \A t \in Session : ~Holds(t)
    <3> SUFFICES ASSUME NEW t \in Session, Holds(t) PROVE FALSE
      OBVIOUS
    <3>1. /\ place.record.heartbeatAt <= place.touched
          /\ clock < place.record.heartbeatAt + StaleAfter
      BY DEF LockInv, HoldInv
    <3> QED BY <1>1, <1>n, <3>1
  <2>2. place.record = NoRecord => \A t \in Session : ~Making(t)
    <3> SUFFICES ASSUME place.record = NoRecord, NEW t \in Session, Making(t) PROVE FALSE
      OBVIOUS
    <3>1. run[t].at <= place.touched /\ clock < run[t].at + StaleAfter
      BY DEF LockInv, MakeInv
    <3> QED BY <1>1, <1>n, <3>1
  <2> QED BY <1>0, <1>1, <2>1, <2>2, DecideStep
<1>2. CASE Return(s)
  <2>1. run'[s] = Idle /\ To(s, "none")
    BY <1>0, <1>2, ReturnParts
  <2>2. Neutral(s)
    BY <1>0, <1>n, <2>1, IdleType DEF Neutral, To, Others
  <2>3. faults' = 0 /\ s \in alive' => place.record.owner # s
    BY <1>0 DEF LockInv, ForgetInv
  <2> QED BY <2>2, <2>3, NeutralStep
<1> QED BY <1>1, <1>2 DEF Stat

LEMMA ReclaimLock ==
  ASSUME LockInv, Undisturbed, NEW s \in Session, Reclaim(s), TypeOK'
  PROVE  LockInv'
<1>0. /\ TypeOK /\ run[s].call = "reclaim" /\ s \in alive /\ CallOK(s) /\ held[s] = 0
      /\ UNCHANGED <<aside, clock, alive, held, faults>> /\ place' = NoDirectory
  <2>1. At(s, "reclaim")
    BY DEF Reclaim
  <2>2. /\ TypeOK /\ run[s].call = "reclaim" /\ s \in alive /\ CallOK(s)
        /\ (Renewing(s) <=> held[s] # 0)
    BY <2>1, InOperation
  <2>3. held[s] = 0 /\ ~Holds(s)
    BY <2>2 DEF Renewing, Holds
  <2> QED BY <2>2, <2>3 DEF Reclaim
<1>n. clock \in Nat /\ run \in [Session -> Run] /\ run[s].at <= clock
  BY <1>0, Numbers DEF CallOK
<1>1. \A t \in Session \ {s} : ~Holds(t) /\ ~Making(t) /\ run[t].call # "reclaim"
  BY <1>0 DEF LockInv, ReclaimInv, Undisturbed
<1>2. CASE Return(s)
  <2>1. run'[s] = Idle /\ Others(s) /\ run'[s].at <= clock
    BY <1>0, <1>n, <1>2, ReturnParts, IdleType DEF To, Others
  <2> QED BY <1>0, <1>1, <2>1, GoneStep
<1>3. CASE run' = [run EXCEPT ![s].call = "mkdir", ![s].attempt = @ + 1]
  <2>1. run'[s].call = "mkdir" /\ run'[s].at = run[s].at /\ \A t \in Session \ {s} : run'[t] = run[t]
    BY <1>n, <1>3 DEF Run
  <2>2. Others(s)
    BY <1>0, <2>1 DEF Others
  <2> QED BY <1>0, <1>n, <1>1, <2>1, <2>2, GoneStep
<1> QED BY <1>2, <1>3 DEF Reclaim

\* A renewal fails: the record is forgotten, and not by a session that holds it.
LEMMA ForgetStep ==
  ASSUME LockInv, NEW s \in Session, NotRenewed(s), TypeOK', s \in alive, run[s].at <= clock,
         UNCHANGED <<place, aside, clock, alive>>, faults' = faults + 1
  PROVE  LockInv'
<1>1. TypeOK /\ faults \in Nat /\ clock \in Nat
  BY DEF LockInv, TypeOK
<1>2. /\ held'[s] = 0 /\ Others(s)
      /\ \/ run'[s] = Idle /\ run'[s].at <= clock
         \/ run'[s].call = "mkdir" /\ run'[s].at <= clock
  BY <1>1, NotRenewedParts, IdleType DEF To, Others
<1>3. faults <= faults' /\ faults' # 0
  BY <1>1
<1>4. Neutral(s)
  BY <1>2, <1>3 DEF Neutral
<1> QED BY <1>3, <1>4, NeutralStep

LEMMA RenewReadLock == ASSUME LockInv, NEW s \in Session, RenewRead(s), TypeOK' PROVE LockInv'
<1>0. /\ TypeOK /\ run[s].call = "renew read" /\ s \in alive /\ CallOK(s) /\ Holds(s)
      /\ place.record.owner = s /\ place.record.token = run[s].token
      /\ place.record.heartbeatAt <= clock /\ held[s] # 0
  <2>1. At(s, "renew read")
    BY DEF RenewRead
  <2>2. /\ TypeOK /\ run[s].call = "renew read" /\ s \in alive /\ CallOK(s)
        /\ (Renewing(s) <=> held[s] # 0)
    BY <2>1, InOperation
  <2>3. held[s] # 0 /\ run[s].token = held[s]
    BY <2>2 DEF Renewing, CallOK
  <2> QED BY <2>2, <2>3 DEF LockInv, HoldInv, Holds
<1>n. clock \in Nat /\ faults \in Nat /\ run \in [Session -> Run] /\ run[s].at <= clock
      /\ UNCHANGED <<place, aside, clock, alive>>
  <2>1. UNCHANGED <<place, aside, clock, alive>>
    BY DEF RenewRead
  <2> QED BY <1>0, <2>1, Numbers DEF CallOK
<1>1. CASE /\ run' = [run EXCEPT ![s].call = "renew write", ![s].at = clock, ![s].seen = place.record]
           /\ UNCHANGED <<held, faults>>
  <2>1. /\ run'[s].call = "renew write" /\ run'[s].at = clock /\ run'[s].seen = place.record
        /\ run'[s].token = run[s].token
        /\ \A t \in Session \ {s} : run'[t] = run[t]
    BY <1>n, <1>1 DEF Run
  <2>2. \A t \in Session : /\ Holds(t)' <=> Holds(t)
                           /\ Making(t)' <=> Making(t)
                           /\ Renewing(t)' <=> Renewing(t)
                           /\ t # s => run'[t] = run[t]
    BY <1>0, <1>1, <2>1 DEF Holds, Making, Renewing
  <2>3. CallsInv'
    <3>1. clock <= clock
      BY <1>n
    <3>2. CallOK(s)'
      BY <1>0, <1>n, <1>1, <2>1, <2>2, <3>1 DEF CallOK, Renewing, Making
    <3>3. Others(s)
      BY <1>n, <1>1, <2>1 DEF Others
    <3> QED BY <1>n, <3>2, <3>3, CallsFrame
  <2>4. HoldInv'
    <3>1. \A t \in Session : run'[t].call = "move" => run[t].call = "move" /\ run'[t].token = run[t].token
      BY <2>1, <2>2
    <3>2. \A t \in Session : run[t].call = "move" => run'[t].call = "move"
      BY <1>0, <2>2
    <3> SUFFICES ASSUME NEW t \in Session, Holds(t)'
                 PROVE  /\ place'.record.owner = t
                        /\ place'.record.token = IF run'[t].call = "move" THEN run'[t].token ELSE held'[t]
                        /\ place'.record.heartbeatAt <= clock'
                        /\ place'.record.heartbeatAt <= place'.touched
                        /\ clock' < place'.record.heartbeatAt + StaleAfter
      BY DEF HoldInv
    <3>3. Holds(t) /\ HoldInv
      BY <2>2 DEF LockInv
    <3>4. (IF run'[t].call = "move" THEN run'[t].token ELSE held'[t])
          = (IF run[t].call = "move" THEN run[t].token ELSE held[t])
      BY <1>1, <3>1, <3>2
    <3> QED BY <1>n, <3>3, <3>4 DEF HoldInv
  <2>5. RenewInv'
    BY <1>0, <1>n, <2>1, <2>2 DEF LockInv, RenewInv
  <2>6. MakeInv'
    <3>1. \A t \in Session : Making(t) => run'[t] = run[t]
      BY <1>0, <2>2 DEF Making
    <3> QED BY <1>n, <2>2, <3>1 DEF LockInv, MakeInv
  <2>7. ReclaimInv' /\ ForgetInv'
    BY <1>n, <1>1, <2>1, <2>2 DEF LockInv, ReclaimInv, ForgetInv
  <2> QED BY <2>3, <2>4, <2>5, <2>6, <2>7 DEF LockInv
<1>2. CASE NotRenewed(s) /\ faults' = faults + 1
  BY <1>0, <1>n, <1>2, ForgetStep
<1> QED BY <1>0, <1>1, <1>2 DEF RenewRead, Fails, Fault

LEMMA RenewWriteLock == ASSUME LockInv, NEW s \in Session, RenewWrite(s), TypeOK' PROVE LockInv'
<1>0. /\ TypeOK /\ run[s].call = "renew write" /\ s \in alive /\ CallOK(s)
      /\ place # NoDirectory
  <2>1. At(s, "renew write")
    BY DEF RenewWrite
  <2>2. /\ TypeOK /\ run[s].call = "renew write" /\ s \in alive /\ CallOK(s)
        /\ (Renewing(s) <=> held[s] # 0)
    BY <2>1, InOperation
  <2>3. Holds(s)
    BY <2>2 DEF Renewing, Holds
  <2>4. place.record.owner = s
    BY <2>3 DEF LockInv, HoldInv
  <2> QED BY <2>2, <2>4, Numbers
<1>n. /\ place \in Directories /\ place.temps \cup {s} \in SUBSET Session
      /\ clock \in Nat /\ faults \in Nat /\ run[s].at <= clock
      /\ UNCHANGED <<aside, clock, alive>>
  <2>1. UNCHANGED <<aside, clock, alive>>
    BY DEF RenewWrite
  <2> QED BY <1>0, <2>1, Numbers DEF CallOK
<1>1. CASE /\ Goto(s, "renew rename") /\ place' = Touched(place, place.temps \cup {s})
           /\ UNCHANGED <<held, faults>>
  <2>1. /\ To(s, "renew rename")
        /\ run'[s].token = run[s].token /\ run'[s].at = run[s].at /\ run'[s].seen = run[s].seen
    BY <1>0, <1>1, GotoParts DEF Calls
  <2>2. /\ place' # NoDirectory /\ place'.record = place.record
        /\ place'.touched = clock /\ place'.temps = place.temps \cup {s}
    BY <1>0, <1>n, <1>1, TouchedParts
  <2>3. Others(s) /\ UNCHANGED <<clock, alive, held>>
    BY <1>n, <1>1, <2>1 DEF To, Others
  <2>4. faults <= faults'
    BY <1>n, <1>1, Zero
  <2> QED BY <1>0, <2>1, <2>2, <2>3, <2>4, TouchStep DEF To
<1>2. CASE NotRenewed(s) /\ UNCHANGED place /\ faults' = faults + 1
  BY <1>0, <1>n, <1>2, ForgetStep
<1> QED BY <1>0, <1>1, <1>2 DEF RenewWrite, Fails, Fault

LEMMA RenewRenameLock == ASSUME LockInv, NEW s \in Session, RenewRename(s), TypeOK' PROVE LockInv'
<1>0. /\ TypeOK /\ run[s].call = "renew rename" /\ s \in alive /\ CallOK(s) /\ Holds(s)
      /\ held[s] # 0 /\ s \in place.temps
      /\ run[s].seen = place.record /\ place.record.heartbeatAt <= run[s].at
      /\ run[s].at <= clock
  <2>1. At(s, "renew rename")
    BY DEF RenewRename
  <2>2. /\ TypeOK /\ run[s].call = "renew rename" /\ s \in alive /\ CallOK(s)
        /\ (Renewing(s) <=> held[s] # 0)
    BY <2>1, InOperation
  <2>3. held[s] # 0 /\ run[s].at <= clock
    BY <2>2 DEF Renewing, CallOK
  <2> QED BY <2>2, <2>3 DEF LockInv, RenewInv, Holds
<1>h. /\ place.record.owner = s /\ place.record.token = held[s]
      /\ clock < place.record.heartbeatAt + StaleAfter
  BY <1>0 DEF LockInv, HoldInv
<1>n. /\ place \in Directories /\ place # NoDirectory /\ place.record \in Record
      /\ clock \in Nat /\ run[s].at \in Nat /\ StaleAfter \in Nat /\ place.record.heartbeatAt \in Nat
  BY <1>0, <1>h, Numbers, RecordParts
<1> DEFINE r == [run[s].seen EXCEPT !.heartbeatAt = run[s].at]
<1>1. /\ place' = [Touched(place, place.temps \ {s}) EXCEPT !.record = r]
      /\ Return(s) /\ UNCHANGED <<aside, clock, alive, faults, held>>
  BY <1>0 DEF RenewRename
<1>2. r.owner = s /\ r.token = held[s] /\ r.heartbeatAt = run[s].at
  BY <1>0, <1>h, <1>n DEF Record
<1> HIDE DEF r
<1>3. place' # NoDirectory /\ place'.record = r /\ place'.touched = clock
  <2>1. place \in Directory
    BY <1>n, DirectoryParts
  <2>2. place'.record = r /\ place'.touched = clock /\ place'.made = TRUE
    BY <1>1, <2>1 DEF Touched, Directory
  <2> QED BY <2>2 DEF NoDirectory
<1>4. run'[s] = Idle /\ run'[s].call = "none" /\ To(s, "none")
  BY <1>0, <1>1, ReturnParts DEF To
<1>5. Others(s)
  BY <1>1, <1>4 DEF To, Others
<1>6. \A t \in Session : /\ ~Making(t)' /\ ~Renewing(t)' /\ run'[t].call # "reclaim"
                         /\ Holds(t)' => t = s
  <2>1. \A t \in Session : run[t].call # "reclaim" /\ ~Making(t)
    BY <1>0 DEF LockInv, ReclaimInv, MakeInv
  <2>2. \A t \in Session : t # s => ~Holds(t) /\ ~Renewing(t)
    BY <1>h DEF LockInv, HoldInv, CallsInv, CallOK, Holds
  <2>3. \A t \in Session : t # s => run'[t] = run[t] /\ held'[t] = held[t]
    BY <1>5 DEF Others
  <2> QED BY <1>4, <2>1, <2>2, <2>3 DEF Making, Renewing, Holds
<1>7. CallsInv'
  <2>1. 0 <= clock
    BY <1>n
  <2>2. CallOK(s)'
    BY <1>0, <1>1, <1>4, <1>6, <2>1, IdleType DEF CallOK
  <2> QED BY <1>1, <1>5, <2>2, CallsFrame
<1>8. HoldInv'
  <2>1. clock < run[s].at + StaleAfter
    BY <1>0, <1>h, <1>n, Later
  <2> QED BY <1>0, <1>1, <1>2, <1>3, <1>4, <1>6, <2>1 DEF HoldInv
<1>9. RenewInv' /\ MakeInv' /\ ReclaimInv'
  BY <1>6 DEF RenewInv, MakeInv, ReclaimInv, Renewing
<1>10. ForgetInv'
  <2>1. \A t \in Session : t # s => run'[t] = run[t]
    BY <1>5 DEF Others
  <2>2. Holds(s)'
    BY <1>0, <1>1 DEF Holds
  <2> QED BY <1>1, <1>2, <1>3, <1>4, <2>1, <2>2 DEF LockInv, ForgetInv
<1> QED BY <1>7, <1>8, <1>9, <1>10 DEF LockInv

LEMMA MoveLock == ASSUME LockInv, NEW s \in Session, Move(s), TypeOK' PROVE LockInv'
<1>0. /\ TypeOK /\ run[s].call = "move" /\ s \in alive /\ CallOK(s) /\ held[s] = 0 /\ Holds(s)
      /\ place.record.owner = s /\ place.record.token = run[s].token /\ place # NoDirectory
  <2>1. At(s, "move")
    BY DEF Move
  <2>2. /\ TypeOK /\ run[s].call = "move" /\ s \in alive /\ CallOK(s)
        /\ (Renewing(s) <=> held[s] # 0)
    BY <2>1, InOperation
  <2>3. held[s] = 0 /\ Holds(s)
    BY <2>2 DEF Renewing, Holds
  <2>4. place.record.owner = s /\ place.record.token = run[s].token
    BY <2>2, <2>3 DEF LockInv, HoldInv
  <2> QED BY <2>2, <2>3, <2>4, Numbers
<1>1. /\ aside' = [aside EXCEPT ![s] = place] /\ place' = NoDirectory /\ Goto(s, "look")
      /\ UNCHANGED <<clock, alive, held, faults>>
  BY <1>0 DEF Move
<1>2. /\ To(s, "look") /\ run'[s].token = run[s].token /\ run'[s].at = run[s].at
  BY <1>0, <1>1, GotoParts DEF Calls
<1>3. aside'[s] = place /\ Others(s)
  BY <1>0, <1>1, <1>2 DEF To, Others, TypeOK
<1>4. \A t \in Session \ {s} : ~Holds(t) /\ ~Making(t) /\ run[t].call # "reclaim"
  BY <1>0 DEF LockInv, HoldInv, MakeInv, ReclaimInv
<1>5. run'[s].at <= clock
  BY <1>0, <1>2 DEF CallOK
<1> QED BY <1>0, <1>1, <1>2, <1>3, <1>4, <1>5, GoneStep DEF To

LEMMA LookLock == ASSUME LockInv, NEW s \in Session, Look(s), TypeOK' PROVE LockInv'
<1>0. /\ TypeOK /\ run[s].call = "look" /\ s \in alive /\ CallOK(s) /\ held[s] = 0 /\ ~Holds(s)
      /\ aside[s].record.owner = s /\ aside[s].record.token = run[s].token
      /\ UNCHANGED <<place, clock, alive, held>>
  <2>1. At(s, "look")
    BY DEF Look
  <2>2. /\ TypeOK /\ run[s].call = "look" /\ s \in alive /\ CallOK(s)
        /\ (Renewing(s) <=> held[s] # 0)
    BY <2>1, InOperation
  <2>3. held[s] = 0 /\ ~Holds(s)
    BY <2>2 DEF Renewing, Holds
  <2> QED BY <2>2, <2>3 DEF Look, CallOK
<1>n. clock \in Nat /\ faults \in Nat /\ run[s].at <= clock
  BY <1>0, Numbers DEF CallOK
<1>1. CASE aside' = [aside EXCEPT ![s] = NoDirectory] /\ Return(s) /\ UNCHANGED faults
  <2>1. run'[s] = Idle /\ To(s, "none") /\ run'[s].at <= clock
    BY <1>0, <1>1, <1>n, ReturnParts, IdleType
  <2>2. Others(s)
    BY <1>0, <1>1, <2>1 DEF To, Others, TypeOK
  <2>3. Neutral(s)
    BY <1>0, <1>n, <1>1, <2>1, <2>2, Zero DEF Neutral
  <2>4. faults' = 0 /\ s \in alive' => place.record.owner # s
    BY <1>0, <1>1 DEF LockInv, ForgetInv
  <2> QED BY <2>3, <2>4, NeutralStep
<1>2. CASE Goto(s, "restore") /\ UNCHANGED aside /\ faults' = faults + 1
  <2>1. To(s, "restore") /\ run'[s].token = run[s].token /\ run'[s].at = run[s].at
    BY <1>0, <1>2, GotoParts DEF Calls
  <2>2. faults <= faults' /\ faults' # 0
    BY <1>n, <1>2
  <2>3. Others(s)
    BY <1>0, <1>2, <2>1 DEF To, Others
  <2>4. Neutral(s)
    BY <1>0, <1>n, <1>2, <2>1, <2>2, <2>3 DEF Neutral, To
  <2> QED BY <2>2, <2>4, NeutralStep
<1> QED BY <1>0, <1>1, <1>2 DEF Look, Fails, Fault

LEMMA RestoreLock == ASSUME LockInv, NEW s \in Session, Restore(s), TypeOK' PROVE LockInv'
<1>0. /\ TypeOK /\ run[s].call = "restore" /\ s \in alive /\ CallOK(s) /\ held[s] = 0 /\ ~Holds(s)
      /\ aside[s].record.owner = s /\ ~Making(s)
      /\ UNCHANGED <<clock, alive, held, faults>>
  <2>1. At(s, "restore")
    BY DEF Restore
  <2>2. /\ TypeOK /\ run[s].call = "restore" /\ s \in alive /\ CallOK(s)
        /\ (Renewing(s) <=> held[s] # 0)
    BY <2>1, InOperation
  <2>3. held[s] = 0 /\ ~Holds(s) /\ ~Making(s)
    BY <2>2 DEF Renewing, Holds, Making
  <2> QED BY <2>2, <2>3 DEF Restore, CallOK
<1>n. clock \in Nat /\ faults \in Nat /\ faults # 0
  BY <1>0, Numbers DEF LockInv, ForgetInv
<1>1. /\ run'[s] = Idle /\ run'[s].call = "none" /\ To(s, "none") /\ run'[s].at <= clock
      /\ aside' = [aside EXCEPT ![s] = NoDirectory]
  BY <1>0, <1>n, ReturnParts, IdleType DEF Restore, To
<1>2. Others(s)
  BY <1>0, <1>1 DEF To, Others, TypeOK
<1>3. CASE place' = place
  <2>1. Neutral(s)
    BY <1>0, <1>n, <1>1, <1>2, <1>3, Zero DEF Neutral
  <2> QED BY <1>0, <1>n, <2>1, NeutralStep
<1>4. CASE place.record = NoRecord /\ place.temps = {} /\ place' = aside[s]
  <2>1. /\ place'.record.owner = s /\ place'.record # NoRecord /\ place' # NoDirectory
    BY <1>0, <1>4, SessionAssumption DEF NoRecord, NoDirectory
  <2>2. \A t \in Session : ~Holds(t)
    BY <1>4, <1>0, Numbers DEF LockInv, HoldInv
  <2>3. \A t \in Session : t # s => run'[t] = run[t] /\ held'[t] = held[t]
    BY <1>2 DEF Others
  <2>4. \A t \in Session : /\ ~Holds(t)' /\ ~Renewing(t)'
                           /\ Making(t)' => Making(t) /\ t # s /\ run'[t] = run[t]
    BY <1>0, <1>1, <2>2, <2>3 DEF Holds, Making, Renewing, LockInv, CallsInv, CallOK
  <2>5. CallsInv'
    <3>1. CallOK(s)'
      BY <1>0, <1>1, <2>4 DEF CallOK, Making
    <3> QED BY <1>0, <1>2, <3>1, CallsFrame
  <2>6. HoldInv' /\ RenewInv'
    BY <2>4 DEF HoldInv, RenewInv, Renewing
  <2>7. MakeInv'
    BY <1>0, <1>4, <2>1, <2>4 DEF LockInv, MakeInv
  <2>8. ReclaimInv' /\ ForgetInv'
    BY <1>0, <1>n, <2>1, <2>4 DEF ReclaimInv, ForgetInv
  <2> QED BY <2>5, <2>6, <2>7, <2>8 DEF LockInv
<1> QED BY <1>3, <1>4 DEF Restore

LEMMA CrashLock == ASSUME LockInv, NEW s \in Session, Crash(s), TypeOK' PROVE LockInv'
<1>0. TypeOK /\ clock \in Nat /\ faults \in Nat
  BY Numbers DEF LockInv
<1>1. /\ run'[s] = Idle /\ To(s, "none") /\ run'[s].at <= clock
      /\ held'[s] = 0 /\ \A t \in Session \ {s} : held'[t] = held[t]
  BY <1>0, ReturnParts, HoldParts, IdleType DEF Crash
<1>2. Others(s)
  BY <1>0, <1>1 DEF Crash, To, Others, TypeOK
<1>3. Neutral(s)
  BY <1>0, <1>1, <1>2, Zero DEF Crash, Neutral
<1> QED BY <1>3, NeutralStep DEF Crash

LEMMA TickLock == ASSUME LockInv, Tick, TypeOK' PROVE LockInv'
<1>0. /\ TypeOK /\ InTime /\ clock \in Nat /\ clock' = clock + 1
      /\ UNCHANGED <<place, aside, alive, run, held, faults>>
      /\ StaleAfter \in Nat /\ place.record.heartbeatAt \in Nat
      /\ \A s \in Session : run[s].at \in Nat
  BY Numbers DEF LockInv, Tick
<1>1. \A n \in Nat : n <= clock => n <= clock + 1
  BY <1>0
<1>2. \A s \in Session : Holds(s) \/ Making(s) => s \in alive /\ (run[s] # Idle \/ held[s] # 0)
  BY IdleType DEF LockInv, CallsInv, CallOK, Holds, Making
<1>3. CallsInv'
  BY <1>0, <1>1 DEF LockInv, CallsInv, CallOK, Making, Renewing
<1>4. HoldInv'
  BY <1>0, <1>1, <1>2 DEF LockInv, HoldInv, Holds, InTime
<1>5. RenewInv' /\ ReclaimInv' /\ ForgetInv'
  BY <1>0 DEF LockInv, RenewInv, ReclaimInv, ForgetInv, Holds, Making
<1>6. MakeInv'
  BY <1>0, <1>2 DEF LockInv, MakeInv, Holds, Making, InTime
<1> QED BY <1>3, <1>4, <1>5, <1>6 DEF LockInv

LEMMA LockStep == ASSUME LockInv, Undisturbed, [Next]_vars PROVE LockInv'
<1>0. TypeOK'
  BY TypeStep
<1>1. CASE UNCHANGED vars
  BY <1>0, <1>1 DEF vars, LockInv, CallsInv, CallOK, HoldInv, RenewInv, MakeInv, ReclaimInv, ForgetInv,
                    Holds, Making, Renewing
<1>2. CASE Tick
  BY <1>0, <1>2, TickLock
<1>3. ASSUME NEW s \in Session, Call(s) \/ Proceed(s) \/ Crash(s)
      PROVE  LockInv'
  BY <1>0, <1>3, CallLock, MkdirLock, WriteTempLock, RenameTempLock, UndoLock, ReadRecordLock,
     StatLock, ReclaimLock, RenewReadLock, RenewWriteLock, RenewRenameLock, MoveLock, LookLock,
     RestoreLock, CrashLock DEF Proceed
<1> QED BY <1>1, <1>2, <1>3 DEF Next

LEMMA OwnerFromLock == LockInv => OneOwner /\ NoForgottenLock
<1> SUFFICES ASSUME LockInv PROVE OneOwner /\ NoForgottenLock
  OBVIOUS
<1>0. alive \subseteq Session
  BY DEF LockInv, TypeOK
<1>1. OneOwner
  BY <1>0 DEF LockInv, HoldInv, Holds, OneOwner
<1>2. NoForgottenLock
  BY <1>0, IdleType DEF LockInv, HoldInv, ForgetInv, Holds, NoForgottenLock
<1> QED BY <1>1, <1>2
(***************************************************************************)
(* Which call follows which                                                *)
(***************************************************************************)

LEMMA NextCalls ==
  ASSUME TypeOK, NEW s \in Session
  PROVE  /\ Call(s) \/ Proceed(s) \/ Crash(s) => \A t \in Session \ {s} : run'[t] = run[t]
         /\ Call(s) => run'[s].call \in {"mkdir", "renew read", "move"}
         /\ Mkdir(s) => run'[s].call \in {"write temp", "read"}
         /\ WriteTemp(s) => run'[s].call \in {"rename temp", "undo"}
         /\ RenameTemp(s) => run'[s].call \in {"none", "undo"}
         /\ Undo(s) => run'[s].call \in {"none"}
         /\ ReadRecord(s) => run'[s].call \in {"reclaim", "none", "stat"}
         /\ Stat(s) => run'[s].call \in {"reclaim", "none"}
         /\ Reclaim(s) => run'[s].call \in {"none", "mkdir"}
         /\ RenewRead(s) => run'[s].call \in {"renew write", "none", "mkdir"}
         /\ RenewWrite(s) => run'[s].call \in {"renew rename", "none", "mkdir"}
         /\ RenewRename(s) => run'[s].call \in {"none", "mkdir"}
         /\ Move(s) => run'[s].call \in {"none", "look"}
         /\ Look(s) => run'[s].call \in {"none", "restore"}
         /\ Restore(s) => run'[s].call \in {"none"}
         /\ Crash(s) => run'[s].call \in {"none"}
<1> DEFINE Only == \A t \in Session \ {s} : run'[t] = run[t]
<1>0. run \in [Session -> Run]
  BY DEF TypeOK
<1>1. Call(s) => Only /\ run'[s].call \in {"mkdir", "renew read", "move"}
  BY CallParts DEF Others
<1>2. Mkdir(s) => Only /\ run'[s].call \in {"write temp", "read"}
  <2> SUFFICES ASSUME Mkdir(s) PROVE Only /\ run'[s].call \in {"write temp", "read"}
    OBVIOUS
  <2>1. CASE run' = [run EXCEPT ![s].call = "write temp", ![s].at = clock,
                                ![s].token = lastToken + 1]
    BY <1>0, <2>1 DEF Run
  <2>2. CASE run' = [run EXCEPT ![s].call = "read", ![s].at = clock]
    BY <1>0, <2>2 DEF Run
  <2> QED BY <2>1, <2>2 DEF Mkdir
<1>3. WriteTemp(s) => Only /\ run'[s].call \in {"rename temp", "undo"}
  BY GotoParts, ReturnParts DEF WriteTemp, To, Calls
<1>4. RenameTemp(s) => Only /\ run'[s].call \in {"none", "undo"}
  BY GotoParts, ReturnParts DEF RenameTemp, To, Calls
<1>5. Undo(s) => Only /\ run'[s].call \in {"none"}
  BY GotoParts, ReturnParts DEF Undo, To, Calls
<1>6. ReadRecord(s) => Only /\ run'[s].call \in {"reclaim", "none", "stat"}
  <2> SUFFICES ASSUME ReadRecord(s) PROVE Only /\ run'[s].call \in {"reclaim", "none", "stat"}
    OBVIOUS
  <2>1. CASE run' = [run EXCEPT ![s].call = "stat", ![s].at = clock]
    BY <1>0, <2>1 DEF Run
  <2>2. CASE Goto(s, "reclaim") \/ Return(s)
    BY <2>2, GotoParts, ReturnParts DEF To, Calls
  <2> QED BY <2>1, <2>2 DEF ReadRecord
<1>7. Stat(s) => Only /\ run'[s].call \in {"reclaim", "none"}
  BY GotoParts, ReturnParts DEF Stat, To, Calls
<1>8. Reclaim(s) => Only /\ run'[s].call \in {"none", "mkdir"}
  <2> SUFFICES ASSUME Reclaim(s) PROVE Only /\ run'[s].call \in {"none", "mkdir"}
    OBVIOUS
  <2>1. CASE run' = [run EXCEPT ![s].call = "mkdir", ![s].attempt = @ + 1]
    BY <1>0, <2>1 DEF Run
  <2>2. CASE Return(s)
    BY <2>2, ReturnParts DEF To
  <2> QED BY <2>1, <2>2 DEF Reclaim
<1>9. RenewRead(s) => Only /\ run'[s].call \in {"renew write", "none", "mkdir"}
  <2> SUFFICES ASSUME RenewRead(s) PROVE Only /\ run'[s].call \in {"renew write", "none", "mkdir"}
    OBVIOUS
  <2>1. CASE run' = [run EXCEPT ![s].call = "renew write", ![s].at = clock, ![s].seen = place.record]
    BY <1>0, <2>1 DEF Run
  <2>2. CASE NotRenewed(s)
    BY <2>2, NotRenewedParts, IdleType DEF To
  <2> QED BY <2>1, <2>2 DEF RenewRead
<1>10. RenewWrite(s) => Only /\ run'[s].call \in {"renew rename", "none", "mkdir"}
  <2> SUFFICES ASSUME RenewWrite(s) PROVE Only /\ run'[s].call \in {"renew rename", "none", "mkdir"}
    OBVIOUS
  <2>1. Goto(s, "renew rename") \/ NotRenewed(s)
    BY DEF RenewWrite
  <2> QED BY <2>1, NotRenewedParts, GotoParts, ReturnParts, IdleType DEF To, Calls
<1>11. RenewRename(s) => Only /\ run'[s].call \in {"none", "mkdir"}
  <2> SUFFICES ASSUME RenewRename(s) PROVE Only /\ run'[s].call \in {"none", "mkdir"}
    OBVIOUS
  <2>1. Return(s) \/ NotRenewed(s)
    BY DEF RenewRename
  <2> QED BY <2>1, NotRenewedParts, GotoParts, ReturnParts, IdleType DEF To, Calls
<1>12. Move(s) => Only /\ run'[s].call \in {"none", "look"}
  BY GotoParts, ReturnParts DEF Move, To, Calls
<1>13. Look(s) => Only /\ run'[s].call \in {"none", "restore"}
  BY GotoParts, ReturnParts DEF Look, To, Calls
<1>14. Restore(s) => Only /\ run'[s].call \in {"none"}
  BY GotoParts, ReturnParts DEF Restore, To, Calls
<1>15. Crash(s) => Only /\ run'[s].call \in {"none"}
  BY GotoParts, ReturnParts DEF Crash, To, Calls
<1> QED
  BY <1>1, <1>2, <1>3, <1>4, <1>5, <1>6, <1>7, <1>8, <1>9, <1>10, <1>11, <1>12, <1>13, <1>14, <1>15 DEF Proceed

(***************************************************************************)
(* Two sessions and one failed call                                        *)
(***************************************************************************)

\* While nobody has crashed, a directory without a record is being made.
UnmadeInv ==
  alive = Session /\ place # NoDirectory /\ place.record = NoRecord
  => \E s \in Session : Making(s)

\* One failed call is not enough for a session to think its own record abandoned.
PatientInv ==
  \A s \in Session : run[s].call \in {"stat", "reclaim"} => place.record.owner # s

FewFaults == faults <= 1

PairInv == LockInv /\ UnmadeInv /\ PatientInv /\ FewFaults

\* Of two sessions, one removes an abandoned lock and the other does not.
LEMMA PairUndisturbed ==
  ASSUME PairInv, NEW a, NEW b, Session = {a, b}
  PROVE  Undisturbed
<1> SUFFICES ASSUME NEW s \in Session, NEW t \in Session, run[s].call = "reclaim", s # t
             PROVE  run[t].call # "reclaim" /\ (Making(t) => place.record = NoRecord)
  BY DEF Undisturbed
<1> SUFFICES ASSUME run[t].call = "reclaim" \/ (Making(t) /\ place.record # NoRecord)
             PROVE  FALSE
  OBVIOUS
<1>1. s \in alive /\ t \in alive /\ alive \subseteq Session
  BY IdleType DEF PairInv, LockInv, CallsInv, CallOK, Making, TypeOK
<1>2. Session = {s, t} /\ alive = Session
  BY <1>1
<1>3. place # NoDirectory /\ (place.record = NoRecord => \A u \in Session : ~Making(u))
  BY DEF PairInv, LockInv, ReclaimInv
<1>4. place.record # NoRecord
  BY <1>2, <1>3 DEF PairInv, UnmadeInv
<1>5. place.record.owner \in {s, t}
  <2>1. place.record \in Records
    BY Numbers DEF PairInv, LockInv
  <2> QED BY <1>2, <1>4, <2>1, RecordParts
<1>6. place.record.owner # s /\ place.record.owner # t
  BY DEF PairInv, PatientInv, LockInv, MakeInv
<1> QED BY <1>5, <1>6

LEMMA FewFaultsStep ==
  ASSUME PairInv, MaxFaults <= 1, [Next]_vars PROVE FewFaults'
<1>0. faults \in Nat /\ faults <= 1 /\ MaxFaults \in Nat
  BY MaxFaultsAssumption DEF PairInv, LockInv, TypeOK, FewFaults
<1>1. FaultStep
  BY DEF Next, Call, Proceed, vars, Tick, Crash, CallEnsure, CallHeartbeat, CallRelease, Mkdir, WriteTemp,
         RenameTemp, Undo, ReadRecord, Stat, Reclaim, RenewRead, RenewWrite, RenewRename,
         Move, Look, Restore, Fails, Fault, FaultStep
<1> QED BY <1>0, <1>1 DEF FewFaults, FaultStep

\* A step that leaves the directory and who lives, and where nobody stops making one.
LEMMA UnmadeFrame ==
  ASSUME PairInv, UNCHANGED place, alive' \subseteq alive, alive \subseteq Session,
         \A t \in Session : Making(t) /\ t \in alive' => Making(t)'
  PROVE  UnmadeInv'
<1> SUFFICES ASSUME alive' = Session, place # NoDirectory, place.record = NoRecord
             PROVE  \E t \in Session : Making(t)'
  BY DEF UnmadeInv
<1>1. PICK t \in Session : Making(t)
  BY DEF PairInv, UnmadeInv
<1> QED BY <1>1

\* No other session's record comes to the path, and the session that steps does not
\* decide about its own.
LEMMA PatientFrame ==
  ASSUME PairInv, NEW s \in Session, \A t \in Session \ {s} : run'[t] = run[t],
         run'[s].call \in {"stat", "reclaim"} => place'.record.owner # s,
         \A t \in Session \ {s} : place'.record.owner = t => place.record.owner = t
  PROVE  PatientInv'
<1> SUFFICES ASSUME NEW t \in Session, run'[t].call \in {"stat", "reclaim"}
             PROVE  place'.record.owner # t
  BY DEF PatientInv
<1>1. CASE t = s
  BY <1>1
<1>2. CASE t # s
  BY <1>2 DEF PairInv, PatientInv
<1> QED BY <1>1, <1>2

LEMMA PairStep ==
  ASSUME PairInv, NEW a, NEW b, Session = {a, b}, MaxFaults <= 1, [Next]_vars
  PROVE  PairInv'
<1>0. LockInv /\ Undisturbed /\ LockInv' /\ FewFaults' /\ TypeOK /\ alive \subseteq Session
  BY PairUndisturbed, LockStep, FewFaultsStep DEF PairInv, LockInv, TypeOK
<1>1. UnmadeInv' /\ PatientInv'
  <2>1. CASE UNCHANGED vars
    BY <1>0, <2>1, UnmadeFrame DEF vars, PairInv, PatientInv, Making
  <2>2. CASE Tick
    BY <1>0, <2>2, UnmadeFrame DEF Tick, PairInv, PatientInv, Making
  <2>3. ASSUME NEW s \in Session, Call(s) PROVE UnmadeInv' /\ PatientInv'
    <3>1. /\ run[s].call = "none" /\ UNCHANGED <<place, alive>>
          /\ \A t \in Session \ {s} : run'[t] = run[t]
      BY <1>0, <2>3, CallParts DEF Others
    <3>2. run'[s].call \in {"mkdir", "renew read", "move"}
      BY <1>0, <2>3, CallParts
    <3>3. \A t \in Session : Making(t) => Making(t)'
      BY <3>1 DEF Making
    <3> QED BY <1>0, <3>1, <3>2, <3>3, UnmadeFrame, PatientFrame
  <2>4. ASSUME NEW s \in Session, Mkdir(s) PROVE UnmadeInv' /\ PatientInv'
    <3>0. run \in [Session -> Run] /\ run[s].call = "mkdir" /\ UNCHANGED alive
      BY <1>0, <2>4 DEF TypeOK, Mkdir, At
    <3>1. CASE place = NoDirectory
      <4>1. run' = [run EXCEPT ![s].call = "write temp", ![s].at = clock, ![s].token = lastToken + 1]
        BY <2>4, <3>1 DEF Mkdir
      <4>2. run'[s].call = "write temp" /\ \A t \in Session \ {s} : run'[t] = run[t]
        BY <3>0, <4>1 DEF Run
      <4>3. place'.record = NoRecord
        BY <2>4, <3>1 DEF Mkdir, NoDirectory
      <4>4. NoRecord.owner \notin Session
        BY SessionAssumption DEF NoRecord
      <4>5. Making(s)'
        BY <4>2 DEF Making
      <4>6. PatientInv'
        BY <1>0, <4>2, <4>3, <4>4, PatientFrame
      <4> QED BY <4>5, <4>6 DEF UnmadeInv
    <3>2. CASE place # NoDirectory
      <4>1. run' = [run EXCEPT ![s].call = "read", ![s].at = clock] /\ UNCHANGED place
        BY <2>4, <3>2 DEF Mkdir
      <4>2. run'[s].call = "read" /\ \A t \in Session \ {s} : run'[t] = run[t]
        BY <3>0, <4>1 DEF Run
      <4>3. \A t \in Session : Making(t) => Making(t)'
        BY <3>0, <4>2 DEF Making
      <4> QED BY <1>0, <3>0, <4>1, <4>2, <4>3, UnmadeFrame, PatientFrame
    <3> QED BY <3>1, <3>2
  <2>5. ASSUME NEW s \in Session, WriteTemp(s) PROVE UnmadeInv' /\ PatientInv'
    <3>1. \E call \in {"rename temp", "undo"} : Goto(s, call)
      BY <2>5 DEF WriteTemp
    <3>2. run'[s].call \in {"rename temp", "undo"} /\ \A t \in Session \ {s} : run'[t] = run[t]
      BY <1>0, <3>1, GotoParts DEF To, Calls
    <3>3. place'.record = place.record
      <4>1. place \in Directories /\ place.temps \cup {s} \in SUBSET Session /\ clock \in Nat
        BY <1>0, Numbers
      <4>2. UNCHANGED place \/ (place # NoDirectory /\ place' = Touched(place, place.temps \cup {s}))
        BY <2>5 DEF WriteTemp
      <4> QED BY <4>1, <4>2, TouchedParts
    <3>4. Making(s)'
      BY <3>2 DEF Making
    <3>5. PatientInv'
      BY <1>0, <3>2, <3>3, PatientFrame
    <3> QED BY <3>4, <3>5 DEF UnmadeInv
  <2>6. ASSUME NEW s \in Session, RenameTemp(s) PROVE UnmadeInv' /\ PatientInv'
    <3>1. s \in place.temps /\ Making(s) /\ place # NoDirectory
      BY <1>0, <2>6 DEF RenameTemp, At, Making, LockInv, MakeInv
    <3>2. place'.record.owner = s
      <4>1. place \in Directory
        BY <1>0, <3>1, Numbers, DirectoryParts
      <4>2. place' = [Touched(place, place.temps \ {s}) EXCEPT
                        !.record = [owner |-> s, token |-> run[s].token, heartbeatAt |-> run[s].at]]
        BY <2>6, <3>1 DEF RenameTemp
      <4>3. place'.record = [owner |-> s, token |-> run[s].token, heartbeatAt |-> run[s].at]
        BY <4>1, <4>2 DEF Touched, Directory
      <4> QED BY <4>3
    <3>3. run'[s].call = "none" /\ \A t \in Session \ {s} : run'[t] = run[t]
      BY <1>0, <2>6, <3>1, ReturnParts DEF RenameTemp, To
    <3>4. place'.record # NoRecord
      BY <3>2, SessionAssumption DEF NoRecord
    <3>5. PatientInv'
      BY <1>0, <3>2, <3>3, PatientFrame
    <3> QED BY <3>4, <3>5 DEF UnmadeInv
  <2>7. ASSUME NEW s \in Session, Undo(s) \/ Reclaim(s) \/ Move(s) PROVE UnmadeInv' /\ PatientInv'
    <3>1. place' = NoDirectory
      BY <2>7 DEF Undo, Reclaim, Move
    <3>2. NoDirectory.record.owner \notin Session
      BY SessionAssumption DEF NoRecord, NoDirectory
    <3> QED BY <3>1, <3>2 DEF UnmadeInv, PatientInv
  <2>8. ASSUME NEW s \in Session, ReadRecord(s) PROVE UnmadeInv' /\ PatientInv'
    <3>0. run \in [Session -> Run] /\ run[s].call = "read" /\ UNCHANGED <<place, alive>> /\ s \in alive
      BY <1>0, <2>8 DEF TypeOK, ReadRecord, At
    <3>1. \A t \in Session \ {s} : run'[t] = run[t]
      <4>1. \/ Goto(s, "reclaim") \/ Return(s)
            \/ run' = [run EXCEPT ![s].call = "stat", ![s].at = clock]
        BY <2>8 DEF ReadRecord
      <4> QED BY <3>0, <4>1 DEF Goto, Return
    <3>2. run'[s].call \in {"stat", "reclaim"} => place'.record.owner # s
      <4> SUFFICES ASSUME place.record.owner = s PROVE run'[s].call = "none"
        BY <3>0
      <4>1. ~Stale(s, place.record, run[s].at) /\ place.record # NoRecord
        BY <1>0, <3>0, Numbers DEF Stale
      <4>2. ~Holds(s)
        BY <1>0, <3>0 DEF LockInv, CallsInv, CallOK, Renewing, Holds
      <4>3. faults # 0
        BY <1>0, <3>0, <4>2 DEF LockInv, ForgetInv
      <4>4. ~(faults' = faults + 1)
        <5>1. faults \in Nat /\ faults' <= 1
          BY <1>0 DEF TypeOK, FewFaults
        <5> QED BY <4>3, <5>1
      <4>5. Return(s)
        BY <2>8, <4>1, <4>4 DEF ReadRecord, Fails, Fault
      <4> QED BY <1>0, <4>5, ReturnParts DEF To
    <3>3. \A t \in Session : Making(t) => Making(t)'
      BY <3>0, <3>1 DEF Making
    <3> QED BY <1>0, <3>0, <3>1, <3>2, <3>3, UnmadeFrame, PatientFrame
  <2>9. ASSUME NEW s \in Session, Stat(s) PROVE UnmadeInv' /\ PatientInv'
    <3>0. run[s].call = "stat" /\ UNCHANGED <<place, alive>>
      BY <2>9 DEF Stat, At
    <3>1. \A t \in Session \ {s} : run'[t] = run[t]
      BY <1>0, <2>9, GotoParts, ReturnParts DEF Stat, To, Calls
    <3>2. place.record.owner # s
      BY <3>0 DEF PairInv, PatientInv
    <3>3. \A t \in Session : Making(t) => Making(t)'
      BY <3>0, <3>1 DEF Making
    <3> QED BY <1>0, <3>0, <3>1, <3>2, <3>3, UnmadeFrame, PatientFrame
  <2>10. ASSUME NEW s \in Session, RenewRead(s) \/ Look(s) \/ Crash(s)
         PROVE  UnmadeInv' /\ PatientInv'
    <3>1. /\ UNCHANGED place /\ alive' \subseteq alive
          /\ run[s].call \in {"renew read", "look"} \/ s \notin alive'
      BY <2>10 DEF RenewRead, Look, Crash, At
    <3>2. /\ \A t \in Session \ {s} : run'[t] = run[t]
          /\ run'[s].call \in {"none", "mkdir", "renew write", "restore"}
      <4>1. CASE RenewRead(s)
        <5>1. run \in [Session -> Run]
          BY <1>0 DEF TypeOK
        <5>2. NotRenewed(s) \/ run' = [run EXCEPT ![s].call = "renew write", ![s].at = clock,
                                                  ![s].seen = place.record]
          BY <4>1 DEF RenewRead
        <5>3. CASE NotRenewed(s)
          BY <1>0, <5>3, NotRenewedParts, IdleType DEF To
        <5>4. CASE run' = [run EXCEPT ![s].call = "renew write", ![s].at = clock,
                                      ![s].seen = place.record]
          BY <5>1, <5>4 DEF Run
        <5> QED BY <5>2, <5>3, <5>4
      <4>2. CASE Look(s)
        BY <1>0, <4>2, ReturnParts, GotoParts DEF Look, To, Calls
      <4>3. CASE Crash(s)
        BY <1>0, <4>3, ReturnParts DEF Crash, To
      <4> QED BY <2>10, <4>1, <4>2, <4>3
    <3>3. \A t \in Session : Making(t) /\ t \in alive' => Making(t)'
      BY <3>1, <3>2 DEF Making
    <3> QED BY <1>0, <3>1, <3>2, <3>3, UnmadeFrame, PatientFrame
  <2>11. ASSUME NEW s \in Session, RenewWrite(s) PROVE UnmadeInv' /\ PatientInv'
    <3>0. run[s].call = "renew write" /\ place.record.owner = s /\ UNCHANGED alive
      BY <1>0, <2>11 DEF RenewWrite, At, LockInv, CallsInv, CallOK, HoldInv, Renewing, Holds
    <3>1. place'.record = place.record
      <4>1. place \in Directories /\ place.temps \cup {s} \in SUBSET Session /\ clock \in Nat
        BY <1>0, Numbers
      <4>2. UNCHANGED place \/ (place # NoDirectory /\ place' = Touched(place, place.temps \cup {s}))
        BY <2>11 DEF RenewWrite
      <4> QED BY <4>1, <4>2, TouchedParts
    <3>2. /\ \A t \in Session \ {s} : run'[t] = run[t]
          /\ run'[s].call \in {"none", "mkdir", "renew rename"}
      <4>1. NotRenewed(s) \/ Goto(s, "renew rename")
        BY <2>11 DEF RenewWrite
      <4> QED BY <1>0, <4>1, NotRenewedParts, GotoParts, IdleType DEF To, Calls
    <3>3. place'.record # NoRecord
      BY <1>0, <3>0, <3>1, Numbers
    <3>4. PatientInv'
      BY <1>0, <3>1, <3>2, PatientFrame
    <3> QED BY <3>3, <3>4 DEF UnmadeInv
  <2>12. ASSUME NEW s \in Session, RenewRename(s) PROVE UnmadeInv' /\ PatientInv'
    <3>0. /\ run[s].call = "renew rename" /\ s \in place.temps /\ place.record.owner = s
          /\ run[s].seen = place.record
      BY <1>0, <2>12 DEF RenewRename, At, LockInv, CallsInv, CallOK, HoldInv, RenewInv, Renewing, Holds
    <3>1. place'.record.owner = s
      <4>1. place.record \in Record /\ place \in Directory
        BY <1>0, <3>0, Numbers, RecordParts, DirectoryParts
      <4>2. place' = [Touched(place, place.temps \ {s}) EXCEPT
                        !.record = [place.record EXCEPT !.heartbeatAt = run[s].at]]
        BY <2>12, <3>0 DEF RenewRename
      <4>3. place'.record = [place.record EXCEPT !.heartbeatAt = run[s].at]
        BY <4>1, <4>2 DEF Touched, Directory
      <4> QED BY <3>0, <4>1, <4>3 DEF Record
    <3>2. run'[s].call = "none" /\ \A t \in Session \ {s} : run'[t] = run[t]
      BY <1>0, <2>12, <3>0, ReturnParts DEF RenewRename, To
    <3>3. place'.record # NoRecord
      BY <3>1, SessionAssumption DEF NoRecord
    <3>4. PatientInv'
      BY <1>0, <3>1, <3>2, PatientFrame
    <3> QED BY <3>3, <3>4 DEF UnmadeInv
  <2>13. ASSUME NEW s \in Session, Restore(s) PROVE UnmadeInv' /\ PatientInv'
    <3>0. run[s].call = "restore" /\ aside[s].record.owner = s /\ UNCHANGED alive
      BY <1>0, <2>13 DEF Restore, At, LockInv, CallsInv, CallOK
    <3>1. run'[s].call = "none" /\ \A t \in Session \ {s} : run'[t] = run[t]
      BY <1>0, <2>13, ReturnParts DEF Restore, To
    <3>2. CASE place' = place
      <4>1. \A t \in Session : Making(t) => Making(t)'
        BY <3>0, <3>1 DEF Making
      <4> QED BY <1>0, <3>0, <3>1, <3>2, <4>1, UnmadeFrame, PatientFrame
    <3>3. CASE place' = aside[s]
      <4>1. place'.record # NoRecord /\ place'.record.owner = s
        BY <3>0, <3>3, SessionAssumption DEF NoRecord
      <4>2. PatientInv'
        BY <1>0, <3>1, <4>1, PatientFrame
      <4> QED BY <4>1, <4>2 DEF UnmadeInv
    <3> QED BY <2>13, <3>2, <3>3 DEF Restore
  <2> QED BY <2>1, <2>2, <2>3, <2>4, <2>5, <2>6, <2>7, <2>8, <2>9, <2>10, <2>11, <2>12, <2>13
          DEF Next, Proceed
<1> QED BY <1>0, <1>1 DEF PairInv

(***************************************************************************)
(* What is reclaimed                                                       *)
(***************************************************************************)

\* Unless a call failed, a record that is about to be removed is stale.
StaleInv ==
  faults = 0 =>
    /\ place.touched <= clock
    /\ place.record # NoRecord => place.record.heartbeatAt <= place.touched
    /\ \A s \in Session :
         run[s].call = "reclaim" /\ place.record # NoRecord => Stale(s, place.record, clock)

LEMMA FaultsGrow ==
  ASSUME TypeOK, TypeOK', [Next]_vars
  PROVE  faults \in Nat /\ faults' \in Nat /\ (faults' = 0 => UNCHANGED faults)
<1>1. faults \in Nat /\ faults' \in Nat
  BY DEF TypeOK
<1>2. FaultStep
  BY DEF Next, Call, Proceed, vars, Tick, Crash, CallEnsure, CallHeartbeat, CallRelease, Mkdir, WriteTemp,
         RenameTemp, Undo, ReadRecord, Stat, Reclaim, RenewRead, RenewWrite, RenewRename,
         Move, Look, Restore, Fails, Fault, FaultStep
<1> QED BY <1>1, <1>2 DEF FaultStep

\* A record that was stale at some time is stale later.
LEMMA StaleLater ==
  ASSUME NEW s \in Session, NEW record \in Record, NEW at \in Nat, clock \in Nat, at <= clock,
         Stale(s, record, at)
  PROVE  Stale(s, record, clock)
<1>1. record.heartbeatAt \in Nat /\ StaleAfter \in Nat
  BY StaleAfterAssumption DEF Record
<1>2. record.heartbeatAt + StaleAfter <= at => record.heartbeatAt + StaleAfter <= clock
  BY <1>1
<1> QED BY <1>2 DEF Stale

\* The directory stays, and whoever decides to remove it has found it stale.
LEMMA StaleFrame ==
  ASSUME LockInv, StaleInv, TypeOK', [Next]_vars, UNCHANGED <<place, host>>, alive' \subseteq alive,
         clock <= clock',
         faults' = 0 => \A s \in Session :
            run'[s].call = "reclaim" /\ place.record # NoRecord
            => run[s].call = "reclaim" \/ Stale(s, place.record, clock)
  PROVE  StaleInv'
<1>1. /\ clock \in Nat /\ clock' \in Nat /\ StaleAfter \in Nat
      /\ place.touched \in Nat /\ place.record \in Records
  <2>1. clock' \in Nat
    BY DEF TypeOK
  <2> QED BY <2>1, Numbers DEF LockInv
<1> SUFFICES ASSUME faults' = 0 PROVE StaleInv'
  BY DEF StaleInv
<1>2. faults = 0
  BY FaultsGrow DEF LockInv
<1>3. place.touched <= clock'
  BY <1>1, <1>2 DEF StaleInv
<1>4. ASSUME NEW s \in Session, run'[s].call = "reclaim", place.record # NoRecord
      PROVE  Stale(s, place.record, clock)'
  <2>1. Stale(s, place.record, clock)
    BY <1>2, <1>4 DEF StaleInv
  <2>2. place.record \in Record
    BY <1>1, <1>4, RecordParts
  <2>3. place.record.heartbeatAt \in Nat
    BY <2>2 DEF Record
  <2>4. place.record.heartbeatAt + StaleAfter <= clock => place.record.heartbeatAt + StaleAfter <= clock'
    BY <1>1, <2>3
  <2> QED BY <2>1, <2>4 DEF Stale
<1> QED BY <1>2, <1>3, <1>4 DEF StaleInv

\* The directory is touched or removed, and nobody is about to remove another one.
LEMMA StaleTouched ==
  ASSUME TypeOK', \A t \in Session : place'.record # NoRecord => run'[t].call # "reclaim",
         place'.touched <= clock',
         place'.record # NoRecord => place'.record.heartbeatAt <= place'.touched
  PROVE  StaleInv'
BY DEF StaleInv

LEMMA StaleMark ==
  ASSUME LockInv, TypeOK', NEW s \in Session, UNCHANGED clock, place # NoDirectory,
         place' = Touched(place, place.temps \cup {s}),
         \A t \in Session : run'[t].call # "reclaim", StaleInv, [Next]_vars
  PROVE  StaleInv'
<1>1. /\ place \in Directories /\ clock \in Nat /\ place.temps \cup {s} \in SUBSET Session
      /\ place.record.heartbeatAt \in Nat /\ place.touched \in Nat
  BY Numbers DEF LockInv
<1>2. place'.record = place.record /\ place'.touched = clock
  BY <1>1, TouchedParts
<1> SUFFICES ASSUME faults' = 0 PROVE StaleInv'
  BY DEF StaleInv
<1>3. faults = 0
  BY FaultsGrow DEF LockInv
<1>4. place.record # NoRecord => place.record.heartbeatAt <= clock
  BY <1>1, <1>3 DEF StaleInv
<1> QED BY <1>1, <1>2, <1>4, StaleTouched, Zero

LEMMA StaleStep == ASSUME LockInv, Undisturbed, StaleInv, [Next]_vars PROVE StaleInv'
<1>0. LockInv' /\ TypeOK /\ TypeOK' /\ run \in [Session -> Run] /\ clock \in Nat /\ clock <= clock
  BY LockStep, Zero DEF LockInv, TypeOK
<1>g. NoDirectory.record = NoRecord /\ NoDirectory.touched = 0 /\ 0 <= clock
  BY <1>0 DEF NoDirectory
<1>1. CASE UNCHANGED vars
  BY <1>0, <1>1, StaleFrame DEF vars
<1>2. CASE Tick
  <2>1. clock <= clock' /\ UNCHANGED <<place, host, alive, run>>
    BY <1>0, <1>2 DEF Tick
  <2> QED BY <1>0, <2>1, StaleFrame
<1>3. ASSUME NEW s \in Session, Call(s) \/ RenewRead(s) \/ Look(s) \/ Crash(s)
      PROVE  StaleInv'
  <2>1. UNCHANGED <<place, host, clock>> /\ alive' \subseteq alive
    BY <1>3 DEF Call, CallEnsure, CallHeartbeat, CallRelease, RenewRead, Look, Crash
  <2>2. \A t \in Session : run'[t].call = "reclaim" => run[t].call = "reclaim"
    BY <1>0, <1>3, NextCalls DEF Proceed
  <2> QED BY <1>0, <2>1, <2>2, StaleFrame
<1>4. ASSUME NEW s \in Session, Mkdir(s) PROVE StaleInv'
  <2>1. \A t \in Session : run'[t].call = "reclaim" => run[t].call = "reclaim"
    BY <1>0, <1>4, NextCalls DEF Proceed
  <2>2. UNCHANGED <<host, alive, clock>>
    BY <1>4 DEF Mkdir
  <2>3. CASE place = NoDirectory
    <3>1. place' = [NoDirectory EXCEPT !.made = TRUE, !.touched = clock]
      BY <1>4, <2>3 DEF Mkdir
    <3>2. place'.record = NoRecord /\ place'.touched = clock
      BY <3>1 DEF NoDirectory
    <3> QED BY <1>0, <2>2, <3>2, StaleTouched
  <2>4. CASE place # NoDirectory
    <3>1. UNCHANGED place
      BY <1>4, <2>4 DEF Mkdir
    <3> QED BY <1>0, <2>1, <2>2, <3>1, StaleFrame
  <2> QED BY <2>3, <2>4
<1>5. ASSUME NEW s \in Session, WriteTemp(s) PROVE StaleInv'
  <2>1. /\ UNCHANGED <<host, alive, clock>>
        /\ UNCHANGED place \/ (place # NoDirectory /\ place' = Touched(place, place.temps \cup {s}))
        /\ run[s].call = "write temp"
    BY <1>5 DEF WriteTemp, At
  <2>2. \A t \in Session : run'[t].call # "reclaim"
    <3>1. \A t \in Session : run[t].call # "reclaim"
      BY <2>1, NoReclaimer DEF Making
    <3> QED BY <1>0, <1>5, <3>1, NextCalls DEF Proceed
  <2> QED BY <1>0, <2>1, <2>2, StaleFrame, StaleMark
<1>6. ASSUME NEW s \in Session, RenameTemp(s) PROVE StaleInv'
  <2>1. UNCHANGED <<host, alive, clock>> /\ run[s].call = "rename temp"
    BY <1>6 DEF RenameTemp, At
  <2>2. /\ s \in place.temps /\ place # NoDirectory /\ run[s].at <= clock
        /\ \A t \in Session : run[t].call # "reclaim"
    BY <2>1, NoReclaimer DEF Making, LockInv, MakeInv, CallsInv, CallOK
  <2>3. \A t \in Session : run'[t].call # "reclaim"
    BY <1>0, <1>6, <2>2, NextCalls DEF Proceed
  <2>4. place'.touched = clock /\ place'.record.heartbeatAt = run[s].at
    <3>1. place \in Directory
      BY <1>0, <2>2, Numbers, DirectoryParts
    <3>2. place' = [Touched(place, place.temps \ {s}) EXCEPT
                      !.record = [owner |-> s, token |-> run[s].token, heartbeatAt |-> run[s].at]]
      BY <1>6, <2>2 DEF RenameTemp
    <3>3. /\ place'.record = [owner |-> s, token |-> run[s].token, heartbeatAt |-> run[s].at]
          /\ place'.touched = clock
      BY <3>1, <3>2 DEF Touched, Directory
    <3> QED BY <3>3
  <2> QED BY <1>0, <2>1, <2>2, <2>3, <2>4, StaleTouched
<1>7. ASSUME NEW s \in Session, Undo(s) \/ Reclaim(s) \/ Move(s) PROVE StaleInv'
  <2>1. place' = NoDirectory /\ UNCHANGED clock
    BY <1>7 DEF Undo, Reclaim, Move
  <2> QED BY <1>0, <1>g, <2>1, StaleTouched
<1>8. ASSUME NEW s \in Session, ReadRecord(s) PROVE StaleInv'
  <2>1. UNCHANGED <<place, host, alive, clock>> /\ run[s].at <= clock /\ run[s].at \in Nat
    BY <1>0, <1>8, Numbers DEF ReadRecord, LockInv, CallsInv, CallOK
  <2>2. run'[s].call = "reclaim" => place.record # NoRecord /\ Stale(s, place.record, run[s].at)
    <3> SUFFICES ASSUME run'[s].call = "reclaim",
                        ~(place.record # NoRecord /\ Stale(s, place.record, run[s].at))
                 PROVE  FALSE
      OBVIOUS
    <3>1. Return(s) \/ run' = [run EXCEPT ![s].call = "stat", ![s].at = clock]
      BY <1>8 DEF ReadRecord
    <3>2. CASE Return(s)
      BY <1>0, <3>2, ReturnParts DEF To
    <3>3. CASE run' = [run EXCEPT ![s].call = "stat", ![s].at = clock]
      <4>1. run'[s].call = "stat"
        BY <1>0, <3>3 DEF Run
      <4> QED BY <4>1
    <3> QED BY <3>1, <3>2, <3>3
  <2>3. run'[s].call = "reclaim" => Stale(s, place.record, clock)
    <3>1. place.record \in Records
      BY <1>0, Numbers
    <3> QED BY <1>0, <2>1, <2>2, <3>1, StaleLater, RecordParts
  <2>4. \A t \in Session : run'[t].call = "reclaim" => run[t].call = "reclaim" \/ Stale(t, place.record, clock)
    BY <1>0, <1>8, <2>3, NextCalls DEF Proceed
  <2> QED BY <1>0, <2>1, <2>4, StaleFrame
<1>9. ASSUME NEW s \in Session, Stat(s) PROVE StaleInv'
  <2>1. UNCHANGED <<place, host, alive, clock, faults>> /\ run[s].at <= clock /\ run[s].at \in Nat
    BY <1>0, <1>9, Numbers DEF Stat, LockInv, CallsInv, CallOK
  <2>2. ASSUME run'[s].call = "reclaim", place.record # NoRecord, faults' = 0
        PROVE  Stale(s, place.record, clock)
    <3>1. place.touched + StaleAfter <= run[s].at
      <4>1. Return(s) => run'[s].call # "reclaim"
        BY <1>0, ReturnParts DEF To
      <4> QED BY <1>9, <2>2, <4>1 DEF Stat
    <3>2. place.record.heartbeatAt <= place.touched /\ faults = 0
      BY <2>1, <2>2 DEF StaleInv
    <3>3. place.record.heartbeatAt \in Nat /\ place.touched \in Nat /\ StaleAfter \in Nat
      BY <1>0, Numbers
    <3>4. place.record.heartbeatAt + StaleAfter <= clock
      BY <1>0, <2>1, <3>1, <3>2, <3>3
    <3>5. place.record.owner \notin alive
      <4>1. \A t \in Session : t \in alive /\ place.record.owner = t => Holds(t)
        BY <3>2 DEF LockInv, ForgetInv
      <4>2. \A t \in Session : ~Holds(t)
        <5> SUFFICES ASSUME NEW t \in Session, Holds(t) PROVE FALSE
          OBVIOUS
        <5>1. clock < place.record.heartbeatAt + StaleAfter
          BY DEF LockInv, HoldInv
        <5> QED BY <1>0, <3>3, <3>4, <5>1
      <4> QED BY <1>0, <4>1, <4>2 DEF TypeOK
    <3> QED BY <3>4, <3>5 DEF Stale
  <2>3. faults' = 0 => \A t \in Session :
          run'[t].call = "reclaim" /\ place.record # NoRecord
          => run[t].call = "reclaim" \/ Stale(t, place.record, clock)
    BY <1>0, <1>9, <2>2, NextCalls DEF Proceed
  <2> QED BY <1>0, <2>1, <2>3, StaleFrame
<1>10. ASSUME NEW s \in Session, RenewWrite(s) PROVE StaleInv'
  <2>1. /\ UNCHANGED <<host, alive, clock>>
        /\ UNCHANGED place \/ (place # NoDirectory /\ place' = Touched(place, place.temps \cup {s}))
        /\ run[s].call = "renew write"
    BY <1>10 DEF RenewWrite, At
  <2>2. \A t \in Session : run'[t].call # "reclaim"
    <3>1. Holds(s)
      BY <2>1 DEF LockInv, CallsInv, CallOK, Renewing, Holds
    <3>2. \A t \in Session : run[t].call # "reclaim"
      BY <3>1, NoReclaimer
    <3> QED BY <1>0, <1>10, <3>2, NextCalls DEF Proceed
  <2> QED BY <1>0, <2>1, <2>2, StaleFrame, StaleMark
<1>11. ASSUME NEW s \in Session, RenewRename(s) PROVE StaleInv'
  <2>1. UNCHANGED <<host, alive, clock>> /\ run[s].call = "renew rename"
    BY <1>11 DEF RenewRename, At
  <2>2. Holds(s)
    BY <2>1 DEF LockInv, CallsInv, CallOK, Renewing, Holds
  <2>3. /\ s \in place.temps /\ place.record.owner = s /\ run[s].at <= clock
        /\ \A t \in Session : run[t].call # "reclaim"
        /\ run[s].seen = place.record
    BY <2>1, <2>2, NoReclaimer DEF LockInv, HoldInv, RenewInv, CallsInv, CallOK
  <2>4. \A t \in Session : run'[t].call # "reclaim"
    <3>1. run'[s].call \in {"none", "mkdir"}
      BY <1>0, <1>11, NextCalls
    <3>2. \A t \in Session \ {s} : run'[t] = run[t]
      BY <1>0, <1>11, NextCalls DEF Proceed
    <3> QED BY <2>3, <3>1, <3>2
  <2>5. place'.touched = clock /\ place'.record.heartbeatAt = run[s].at
    <3>1. place \in Directory /\ place.record \in Record
      BY <1>0, <2>3, Numbers, DirectoryParts, RecordParts
    <3>2. place' = [Touched(place, place.temps \ {s}) EXCEPT
                      !.record = [place.record EXCEPT !.heartbeatAt = run[s].at]]
      BY <1>11, <2>3 DEF RenewRename
    <3>3. /\ place'.record = [place.record EXCEPT !.heartbeatAt = run[s].at]
          /\ place'.touched = clock
      BY <3>1, <3>2 DEF Touched, Directory
    <3> QED BY <3>1, <3>3 DEF Record
  <2> QED BY <1>0, <2>1, <2>3, <2>4, <2>5, StaleTouched
<1>12. ASSUME NEW s \in Session, Restore(s) PROVE StaleInv'
  <2>1. faults # 0 /\ UNCHANGED faults
    BY <1>12 DEF Restore, At, LockInv, ForgetInv
  <2> QED BY <2>1 DEF StaleInv
<1> QED BY <1>1, <1>2, <1>3, <1>4, <1>5, <1>6, <1>7, <1>8, <1>9, <1>10, <1>11, <1>12 DEF Next, Proceed

(***************************************************************************)
(* The types do not rest on anything else                                  *)
(***************************************************************************)

\* The session that steps renews its record only if it has seen one.
LEMMA SeenStep == ASSUME TypeOK, SeenInv, [Next]_vars PROVE SeenInv'
<1>0. run \in [Session -> Run]
  BY DEF TypeOK
<1>1. CASE UNCHANGED vars \/ Tick
  BY <1>1 DEF vars, Tick, SeenInv
<1>2. ASSUME NEW s \in Session, Call(s) \/ Proceed(s) \/ Crash(s)
      PROVE  SeenInv'
  <2>1. \A t \in Session \ {s} : run'[t] = run[t]
    BY <1>2, NextCalls
  <2>2. run'[s].call \in {"renew write", "renew rename"} => run'[s].seen \in Record
    <3>1. CASE RenewRead(s)
      <4>1. CASE /\ place.record.owner = s
                 /\ run' = [run EXCEPT ![s].call = "renew write", ![s].at = clock,
                                       ![s].seen = place.record]
        <5>1. place.record \in Record
          BY <4>1, Numbers, RecordParts
        <5>2. run'[s].seen = place.record
          BY <1>0, <4>1 DEF Run
        <5> QED BY <5>1, <5>2
      <4>2. CASE NotRenewed(s)
        BY <4>2, NotRenewedParts, IdleType DEF To
      <4> QED BY <3>1, <4>1, <4>2 DEF RenewRead
    <3>2. CASE RenewWrite(s)
      <4>1. CASE Goto(s, "renew rename")
        <5>1. run[s].call = "renew write"
          BY <3>2 DEF RenewWrite, At
        <5>2. run'[s].seen = run[s].seen
          BY <4>1, GotoParts DEF Calls
        <5> QED BY <5>1, <5>2 DEF SeenInv
      <4>2. CASE NotRenewed(s)
        BY <4>2, NotRenewedParts, IdleType DEF To
      <4> QED BY <3>2, <4>1, <4>2 DEF RenewWrite
    <3>3. CASE ~RenewRead(s) /\ ~RenewWrite(s)
      <4>1. \/ Call(s) \/ Crash(s) \/ Mkdir(s) \/ WriteTemp(s) \/ RenameTemp(s) \/ Undo(s)
            \/ ReadRecord(s) \/ Stat(s) \/ Reclaim(s) \/ RenewRename(s)
            \/ Move(s) \/ Look(s) \/ Restore(s)
        BY <1>2, <3>3 DEF Proceed
      <4>2. run'[s].call \notin {"renew write", "renew rename"}
        BY <4>1, NextCalls
      <4> QED BY <4>2
    <3> QED BY <3>1, <3>2, <3>3
  <2> QED BY <2>1, <2>2 DEF SeenInv
<1> QED BY <1>1, <1>2 DEF Next

(***************************************************************************)
(* The theorems                                                            *)
(***************************************************************************)

\* Whatever the sessions do, whatever fails and whoever crashes, the lock directory,
\* the record in it and what each session remembers are of the kinds that
\* workflow-home-lock.ts:5-27 declares.
THEOREM HomeLockTypeCorrect == Spec => []TypeOK
<1>1. Init => TypeOK /\ SeenInv
  <2> SUFFICES ASSUME Init PROVE TypeOK /\ SeenInv
    OBVIOUS
  <2>1. \A s \in Session : run[s].call = "none"
    BY IdleType DEF Init
  <2> QED BY <2>1, InitType DEF SeenInv
<1>2. TypeOK /\ SeenInv /\ [Next]_vars => (TypeOK /\ SeenInv)'
  <2> SUFFICES ASSUME TypeOK, SeenInv, [Next]_vars PROVE TypeOK' /\ SeenInv'
    OBVIOUS
  <2>1. TypeOK'
    BY TypeKept
  <2>2. SeenInv'
    BY SeenStep
  <2> QED BY <2>1, <2>2
<1> QED BY <1>1, <1>2, PTL DEF Spec

\* The lock of workflow-home-lock.ts:123 has one owner among the live sessions as
\* long as no two sessions are between their verdict that a lock is abandoned and
\* its removal, and none writes a record over the one that was found: the code
\* has nothing that keeps a third session out of that window.
THEOREM OneOwnerUndisturbed == Spec /\ []Undisturbed => []OneOwner
<1>1. Init => LockInv
  BY InitLock
<1>2. LockInv /\ Undisturbed /\ [Next]_vars => LockInv'
  BY LockStep
<1>3. LockInv => OneOwner
  BY OwnerFromLock
<1> QED BY <1>1, <1>2, <1>3, PTL DEF Spec

\* Under the same condition no live session forgets a lock it still has at the path,
\* in renew or release, unless one of its calls failed.
THEOREM NoForgottenUndisturbed == Spec /\ []Undisturbed => []NoForgottenLock
<1>1. Init => LockInv
  BY InitLock
<1>2. LockInv /\ Undisturbed /\ [Next]_vars => LockInv'
  BY LockStep
<1>3. LockInv => NoForgottenLock
  BY OwnerFromLock
<1> QED BY <1>1, <1>2, <1>3, PTL DEF Spec

\* And "stale locks are reclaimed only after a dead local pid or a conservative
\* heartbeat timeout" (workflow-home-lock.ts:124), as long as no call fails: the
\* directory that is moved away is the one whose record or age was judged.
THEOREM ReclaimsOnlyStaleUndisturbed ==
  Spec /\ []Undisturbed /\ [](faults = 0) => ReclaimsOnlyStale
<1>1. Init => LockInv /\ StaleInv
  <2> SUFFICES ASSUME Init PROVE LockInv /\ StaleInv
    OBVIOUS
  <2>1. /\ NoDirectory.record = NoRecord /\ NoDirectory.touched = 0
        /\ \A s \in Session : run[s].call = "none"
    BY IdleType DEF Init, NoDirectory
  <2> QED BY <2>1, InitLock DEF Init, StaleInv
<1>2. LockInv /\ StaleInv /\ Undisturbed /\ [Next]_vars => (LockInv /\ StaleInv)'
  <2> SUFFICES ASSUME LockInv, StaleInv, Undisturbed, [Next]_vars PROVE LockInv' /\ StaleInv'
    OBVIOUS
  <2> QED BY LockStep, StaleStep
<1>3. LockInv /\ StaleInv /\ faults = 0 /\ [Next]_vars
      => [\A s \in Session :
            (/\ run[s].call = "reclaim" /\ run'[s].call # "reclaim" /\ s \in alive'
             /\ place.record # NoRecord)
            => Stale(s, place.record, clock)]_vars
  BY DEF StaleInv
<1> QED BY <1>1, <1>2, <1>3, PTL DEF Spec, ReclaimsOnlyStale

LEMMA InitPair == Init => PairInv
<1> SUFFICES ASSUME Init PROVE PairInv
  OBVIOUS
<1>1. LockInv
  BY InitLock
<1>2. \A s \in Session : run[s].call = "none"
  BY IdleType DEF Init
<1> QED BY <1>1, <1>2 DEF Init, PairInv, UnmadeInv, PatientInv, FewFaults

\* Two sessions of a checkout, on machines of any kind and whatever the timeout,
\* never own it both while at most one file-system call fails for a reason of its
\* own: between two sessions the window of the reclaim cannot be used.
THEOREM OneOwnerOfTwo ==
  ASSUME NEW a, NEW b, Session = {a, b}, MaxFaults <= 1
  PROVE  Spec => []OneOwner
<1>1. Init => PairInv
  BY InitPair
<1>2. PairInv /\ [Next]_vars => PairInv'
  BY PairStep
<1>3. PairInv => OneOwner
  BY OwnerFromLock DEF PairInv
<1> QED BY <1>1, <1>2, <1>3, PTL DEF Spec

\* And neither of the two forgets its lock at the path unless the call failed.
THEOREM NoForgottenOfTwo ==
  ASSUME NEW a, NEW b, Session = {a, b}, MaxFaults <= 1
  PROVE  Spec => []NoForgottenLock
<1>1. Init => PairInv
  BY InitPair
<1>2. PairInv /\ [Next]_vars => PairInv'
  BY PairStep
<1>3. PairInv => NoForgottenLock
  BY OwnerFromLock DEF PairInv
<1> QED BY <1>1, <1>2, <1>3, PTL DEF Spec
=============================================================================
