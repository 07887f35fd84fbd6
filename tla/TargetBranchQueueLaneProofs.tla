--------------------- MODULE TargetBranchQueueLaneProofs ---------------------
(***************************************************************************)
(* Theorems about the lane in TargetBranchQueue: a home holds the lease of *)
(* the Target branch exactly while its candidate is refreshing, and nobody *)
(* who takes it overtakes the queue.  Both are false in the middle of a    *)
(* command, so the argument says of every command, by the calls it has     *)
(* still to make, what it has done to the two.                             *)
(***************************************************************************)
EXTENDS TargetBranchQueueProofs

(***************************************************************************)
(* The lane and the candidate                                              *)
(***************************************************************************)

\* What a command has still to call, named by what comes first.  A command that
\* takes the lane:
ToWrite == <<"write">>
ToFence == <<"fence", "write">>
ToConfirm == <<"workflow", "fence", "write">>
ToReload == <<"reload", "workflow", "fence", "write">>
ToVerify == <<"target", "reload", "workflow", "fence", "write">>
ToAcquire == <<"acquire", "target", "reload", "workflow", "fence", "write">>
ToLook == <<"load", "acquire", "target", "reload", "workflow", "fence", "write">>
ToTake == <<"workflow", "load", "acquire", "target", "reload", "workflow", "fence", "write">>
\* one that writes and then gives the lane back:
ToRelease == <<"release">>
ToWriteLast == <<"write", "release">>
ToFenceLast == <<"fence", "write", "release">>
ToConfirmLast == <<"workflow", "fence", "write", "release">>
ToVerifyLast == <<"target", "workflow", "fence", "write", "release">>
ToLookLast == <<"load", "workflow", "fence", "write", "release">>
ToLeave == <<"workflow", "load", "workflow", "fence", "write", "release">>
ToFinish == <<"target", "workflow", "load", "workflow", "fence", "write", "release">>
\* and the others.
ToPersist == <<"workflow", "write">>
ToLookPersist == <<"load", "workflow", "write">>
ToRequeue == <<"workflow", "load", "workflow", "write">>
ToLoad == <<"load">>
ToRecord == <<"workflow", "load">>
ToInspect == <<"inspect">>
ToLookInspect == <<"load", "inspect">>
ToRecover == <<"workflow", "load", "inspect">>
ToRenew == <<"renew">>
ToVerifyRenew == <<"target", "renew">>
ToGiveUp == <<"target", "release">>

Refreshing(h) == Own(h).candidate.state = "refreshing"
Kind(f) == f.command.kind
\* The command will write a candidate that is refreshing.
Starts(f) == f.draft.candidate.state = "refreshing"

\* Before a command has taken the lane or decided, its home holds a lease (n is its
\* generation) exactly while the candidate is refreshing (r).
Untouched(f, n, r) ==
  /\ n # 0 <=> r
  /\ \/ f.todo = <<>>
     \/ Kind(f) = "observe-pr-checks" /\ f.todo = ToLoad
     \/ Kind(f) = "acquire-phase" /\ f.todo \in {ToTake, ToLook, ToAcquire} /\ f.fence = 0
     \/ Kind(f) \in {"release-for-pr-checks", "mark-merged"} /\ f.todo = ToFinish
     \/ Kind(f) = "requeue-retry" /\ f.todo \in {ToRequeue, ToLookPersist} /\ f.fence = 0
     \/ /\ Kind(f) = "recover-expired-target-lease"
        /\ f.todo \in {ToRecover, ToLookInspect, ToInspect} /\ f.fence = 0
     \/ Kind(f) = "renew-held-target-lease" /\ f.todo \in {ToVerifyRenew, ToRenew}
     \/ Kind(f) = "release-held-target-lease" /\ f.todo \in {ToGiveUp, ToRelease}

\* A failure may be recorded of a candidate whose lane is known to be over.
Failing(f, n, r) ==
  Kind(f) = "record-failure" /\ f.todo \in {ToRecord, ToLoad} /\ (n # 0 => r)

\* The lane is taken and the candidate is not yet written.
Taking(f, n, r) ==
  /\ Kind(f) = "acquire-phase" /\ n # 0 /\ ~r
  /\ \/ f.todo = ToVerify
     \/ f.todo = ToReload /\ f.fence # 0
     \/ f.todo \in {ToConfirm, ToFence, ToWrite} /\ Starts(f)

\* The candidate is about to be written, and then the lane to be released.
Leaving(f, n, r) ==
  /\ n # 0 /\ r
  /\ \/ Kind(f) \in {"release-for-pr-checks", "mark-merged"} /\ f.todo \in {ToLeave, ToLookLast}
     \/ f.todo \in {ToVerifyLast, ToConfirmLast, ToFenceLast, ToWriteLast} /\ ~Starts(f)

\* The lane is about to be released.
Giving(f, n, r) == f.todo = ToRelease /\ ~r

\* What is about to be written has nothing to do with a lane.
Apart(f, n, r) ==
  Kind(f) # "acquire-phase" /\ f.todo \in {ToPersist, ToWrite} /\ n = 0 /\ ~Starts(f)

LaneKept(f, n, r) ==
  \/ Untouched(f, n, r) \/ Failing(f, n, r) \/ Taking(f, n, r)
  \/ Leaving(f, n, r) \/ Giving(f, n, r) \/ Apart(f, n, r)

LaneInv == \A h \in Home : ~disturbed[h] => LaneKept(frame[h], held[h], Refreshing(h))

\* The first call of each, and what is left after it.
LEMMA TodoHeads ==
  /\ Head(ToWrite) = "write" /\ Head(ToFence) = "fence" /\ Head(ToConfirm) = "workflow"
  /\ Head(ToReload) = "reload" /\ Head(ToVerify) = "target" /\ Head(ToAcquire) = "acquire"
  /\ Head(ToLook) = "load" /\ Head(ToTake) = "workflow"
  /\ Head(ToRelease) = "release" /\ Head(ToWriteLast) = "write" /\ Head(ToFenceLast) = "fence"
  /\ Head(ToConfirmLast) = "workflow" /\ Head(ToVerifyLast) = "target"
  /\ Head(ToLookLast) = "load" /\ Head(ToLeave) = "workflow" /\ Head(ToFinish) = "target"
  /\ Head(ToPersist) = "workflow" /\ Head(ToLookPersist) = "load" /\ Head(ToRequeue) = "workflow"
  /\ Head(ToLoad) = "load" /\ Head(ToRecord) = "workflow" /\ Head(ToInspect) = "inspect"
  /\ Head(ToLookInspect) = "load" /\ Head(ToRecover) = "workflow"
  /\ Head(ToRenew) = "renew" /\ Head(ToVerifyRenew) = "target" /\ Head(ToGiveUp) = "target"
BY DEF ToWrite, ToFence, ToConfirm, ToReload, ToVerify, ToAcquire, ToLook, ToTake, ToRelease,
       ToWriteLast, ToFenceLast, ToConfirmLast, ToVerifyLast, ToLookLast, ToLeave, ToFinish,
       ToPersist, ToLookPersist, ToRequeue, ToLoad, ToRecord, ToInspect, ToLookInspect,
       ToRecover, ToRenew, ToVerifyRenew, ToGiveUp

LEMMA TodoTails ==
  /\ Tail(ToWrite) = <<>> /\ Tail(ToFence) = ToWrite /\ Tail(ToConfirm) = ToFence
  /\ Tail(ToReload) = ToConfirm /\ Tail(ToVerify) = ToReload /\ Tail(ToAcquire) = ToVerify
  /\ Tail(ToLook) = ToAcquire /\ Tail(ToTake) = ToLook
  /\ Tail(ToRelease) = <<>> /\ Tail(ToWriteLast) = ToRelease /\ Tail(ToFenceLast) = ToWriteLast
  /\ Tail(ToConfirmLast) = ToFenceLast /\ Tail(ToVerifyLast) = ToConfirmLast
  /\ Tail(ToLookLast) = ToConfirmLast /\ Tail(ToLeave) = ToLookLast /\ Tail(ToFinish) = ToLeave
  /\ Tail(ToPersist) = ToWrite /\ Tail(ToLookPersist) = ToPersist /\ Tail(ToRequeue) = ToLookPersist
  /\ Tail(ToLoad) = <<>> /\ Tail(ToRecord) = ToLoad /\ Tail(ToInspect) = <<>>
  /\ Tail(ToLookInspect) = ToInspect /\ Tail(ToRecover) = ToLookInspect
  /\ Tail(ToRenew) = <<>> /\ Tail(ToVerifyRenew) = ToRenew /\ Tail(ToGiveUp) = ToRelease
BY DEF ToWrite, ToFence, ToConfirm, ToReload, ToVerify, ToAcquire, ToLook, ToTake, ToRelease,
       ToWriteLast, ToFenceLast, ToConfirmLast, ToVerifyLast, ToLookLast, ToLeave, ToFinish,
       ToPersist, ToLookPersist, ToRequeue, ToLoad, ToRecord, ToInspect, ToLookInspect,
       ToRecover, ToRenew, ToVerifyRenew, ToGiveUp

Todos == {ToWrite, ToFence, ToConfirm, ToReload, ToVerify, ToAcquire, ToLook, ToTake, ToRelease,
          ToWriteLast, ToFenceLast, ToConfirmLast, ToVerifyLast, ToLookLast, ToLeave, ToFinish,
          ToPersist, ToLookPersist, ToRequeue, ToLoad, ToRecord, ToInspect, ToLookInspect,
          ToRecover, ToRenew, ToVerifyRenew, ToGiveUp}

LEMMA TodoLeft == \A t \in Todos : t # <<>>
BY DEF Todos, ToWrite, ToFence, ToConfirm, ToReload, ToVerify, ToAcquire, ToLook, ToTake, ToRelease,
       ToWriteLast, ToFenceLast, ToConfirmLast, ToVerifyLast, ToLookLast, ToLeave, ToFinish,
       ToPersist, ToLookPersist, ToRequeue, ToLoad, ToRecord, ToInspect, ToLookInspect,
       ToRecover, ToRenew, ToVerifyRenew, ToGiveUp

\* A list of calls is two lists joined when it is so call by call.
LEMMA Joined ==
  ASSUME NEW s \in Seq(Call), NEW t \in Seq(Call), NEW u \in Seq(Call),
         Len(u) = Len(s) + Len(t),
         \A i \in 1..Len(s) : u[i] = s[i], \A i \in 1..Len(t) : u[Len(s) + i] = t[i]
  PROVE  s \o t = u
<1>0. Len(s) \in Nat /\ Len(t) \in Nat
  BY LenProperties
<1>1. s \o t \in Seq(Call) /\ Len(s \o t) = Len(u)
  BY ConcatProperties
<1>2. ASSUME NEW i \in 1..Len(u) PROVE (s \o t)[i] = u[i]
  <2>0. (s \o t)[i] = IF i <= Len(s) THEN s[i] ELSE t[i - Len(s)]
    BY ConcatProperties
  <2>1. CASE i <= Len(s)
    BY <1>0, <2>0, <2>1
  <2>2. CASE ~(i <= Len(s))
    <3>1. i - Len(s) \in 1..Len(t) /\ Len(s) + (i - Len(s)) = i
      BY <1>0, <2>2
    <3> QED BY <2>0, <2>2, <3>1
  <2> QED BY <2>1, <2>2
<1> QED BY <1>1, <1>2, SeqEqual

LEMMA JoinTake == <<"workflow", "load", "acquire", "target", "reload">> \o PersistFenced = ToTake
<1> DEFINE s == <<"workflow", "load", "acquire", "target", "reload">>
           t == <<"workflow", "fence", "write">>
           u == <<"workflow", "load", "acquire", "target", "reload", "workflow", "fence", "write">>
<1>1. s \in Seq(Call) /\ t \in Seq(Call) /\ u \in Seq(Call)
  BY DEF Call
<1>2. Len(s) = 5 /\ Len(t) = 3 /\ Len(u) = 8
  OBVIOUS
<1>3. /\ \A i \in 1..5 : u[i] = s[i]
      /\ \A i \in 1..3 : u[5 + i] = t[i]
  OBVIOUS
<1> HIDE DEF s, t, u
<1>4. Len(u) = Len(s) + Len(t)
  BY <1>2
<1>5. \A i \in 1..Len(s) : u[i] = s[i]
  BY <1>2, <1>3
<1>6. \A i \in 1..Len(t) : u[Len(s) + i] = t[i]
  BY <1>2, <1>3
<1>7. s \o t = u
  BY <1>1, <1>4, <1>5, <1>6, Joined
<1> QED BY <1>7 DEF s, t, u, PersistFenced, ToTake

LEMMA JoinFinish == <<"target", "workflow", "load">> \o ToConfirmLast = ToFinish
<1> DEFINE s == <<"target", "workflow", "load">>
           t == <<"workflow", "fence", "write", "release">>
           u == <<"target", "workflow", "load", "workflow", "fence", "write", "release">>
<1>1. s \in Seq(Call) /\ t \in Seq(Call) /\ u \in Seq(Call)
  BY DEF Call
<1>2. Len(s) = 3 /\ Len(t) = 4 /\ Len(u) = 7
  OBVIOUS
<1>3. /\ \A i \in 1..3 : u[i] = s[i]
      /\ \A i \in 1..4 : u[3 + i] = t[i]
  OBVIOUS
<1> HIDE DEF s, t, u
<1>4. Len(u) = Len(s) + Len(t)
  BY <1>2
<1>5. \A i \in 1..Len(s) : u[i] = s[i]
  BY <1>2, <1>3
<1>6. \A i \in 1..Len(t) : u[Len(s) + i] = t[i]
  BY <1>2, <1>3
<1>7. s \o t = u
  BY <1>1, <1>4, <1>5, <1>6, Joined
<1> QED BY <1>7 DEF s, t, u, ToConfirmLast, ToFinish

LEMMA JoinLast == PersistFenced \o <<"release">> = ToConfirmLast
<1> DEFINE s == <<"workflow", "fence", "write">>
           t == <<"release">>
           u == <<"workflow", "fence", "write", "release">>
<1>1. s \in Seq(Call) /\ t \in Seq(Call) /\ u \in Seq(Call)
  BY DEF Call
<1>2. Len(s) = 3 /\ Len(t) = 1 /\ Len(u) = 4
  OBVIOUS
<1>3. /\ \A i \in 1..3 : u[i] = s[i]
      /\ \A i \in 1..1 : u[3 + i] = t[i]
  OBVIOUS
<1> HIDE DEF s, t, u
<1>4. Len(u) = Len(s) + Len(t)
  BY <1>2
<1>5. \A i \in 1..Len(s) : u[i] = s[i]
  BY <1>2, <1>3
<1>6. \A i \in 1..Len(t) : u[Len(s) + i] = t[i]
  BY <1>2, <1>3
<1>7. s \o t = u
  BY <1>1, <1>4, <1>5, <1>6, Joined
<1> QED BY <1>7 DEF s, t, u, PersistFenced, ToConfirmLast

LEMMA JoinVerify == <<"target">> \o ToConfirmLast = ToVerifyLast
<1> DEFINE s == <<"target">>
           t == <<"workflow", "fence", "write", "release">>
           u == <<"target", "workflow", "fence", "write", "release">>
<1>1. s \in Seq(Call) /\ t \in Seq(Call) /\ u \in Seq(Call)
  BY DEF Call
<1>2. Len(s) = 1 /\ Len(t) = 4 /\ Len(u) = 5
  OBVIOUS
<1>3. /\ \A i \in 1..1 : u[i] = s[i]
      /\ \A i \in 1..4 : u[1 + i] = t[i]
  OBVIOUS
<1> HIDE DEF s, t, u
<1>4. Len(u) = Len(s) + Len(t)
  BY <1>2
<1>5. \A i \in 1..Len(s) : u[i] = s[i]
  BY <1>2, <1>3
<1>6. \A i \in 1..Len(t) : u[Len(s) + i] = t[i]
  BY <1>2, <1>3
<1>7. s \o t = u
  BY <1>1, <1>4, <1>5, <1>6, Joined
<1> QED BY <1>7 DEF s, t, u, ToConfirmLast, ToVerifyLast

LEMMA JoinRequeue == <<"workflow", "load">> \o Persist = ToRequeue
<1> DEFINE s == <<"workflow", "load">>
           t == <<"workflow", "write">>
           u == <<"workflow", "load", "workflow", "write">>
<1>1. s \in Seq(Call) /\ t \in Seq(Call) /\ u \in Seq(Call)
  BY DEF Call
<1>2. Len(s) = 2 /\ Len(t) = 2 /\ Len(u) = 4
  OBVIOUS
<1>3. /\ \A i \in 1..2 : u[i] = s[i]
      /\ \A i \in 1..2 : u[2 + i] = t[i]
  OBVIOUS
<1> HIDE DEF s, t, u
<1>4. Len(u) = Len(s) + Len(t)
  BY <1>2
<1>5. \A i \in 1..Len(s) : u[i] = s[i]
  BY <1>2, <1>3
<1>6. \A i \in 1..Len(t) : u[Len(s) + i] = t[i]
  BY <1>2, <1>3
<1>7. s \o t = u
  BY <1>1, <1>4, <1>5, <1>6, Joined
<1> QED BY <1>7 DEF s, t, u, Persist, ToRequeue

\* \o is associative, as the parser reads it: the calls with a fenced write.
LEMMA JoinedCalls ==
  /\ <<"target", "workflow", "load">> \o PersistFenced \o <<"release">> = ToFinish
  /\ <<"target">> \o PersistFenced \o <<"release">> = ToVerifyLast
<1>1. PersistFenced \in Seq(Call) /\ <<"release">> \in Seq(Call) /\ <<"target">> \in Seq(Call)
      /\ <<"target", "workflow", "load">> \in Seq(Call)
  BY ShortCalls
<1>2. <<"target", "workflow", "load">> \o PersistFenced \o <<"release">>
        = <<"target", "workflow", "load">> \o (PersistFenced \o <<"release">>)
  BY <1>1, ConcatAssociative
<1>3. <<"target">> \o PersistFenced \o <<"release">>
        = <<"target">> \o (PersistFenced \o <<"release">>)
  BY <1>1, ConcatAssociative
<1> QED BY <1>2, <1>3, JoinFinish, JoinLast, JoinVerify

\* What a command is given to call.
LEMMA FirstTodo ==
  /\ Calls("observe-pr-checks") = ToLoad
  /\ Calls("acquire-phase") = ToTake
  /\ \A kind \in {"release-for-pr-checks", "mark-merged"} : Calls(kind) = ToFinish
  /\ Calls("record-failure") = ToRecord
  /\ Calls("requeue-retry") = ToRequeue
  /\ Calls("recover-expired-target-lease") = ToRecover
  /\ Calls("renew-held-target-lease") = ToVerifyRenew
  /\ Calls("release-held-target-lease") = ToGiveUp
  /\ Persist = ToPersist
BY CallsOf, JoinTake, JoinRequeue, JoinedCalls
   DEF ToLoad, ToRecord, ToRecover, ToVerifyRenew, ToGiveUp, Persist, ToPersist

LEMMA TodoTypes ==
  /\ ToVerifyLast \in Seq(Call) /\ ToConfirmLast \in Seq(Call)
  /\ ToConfirm \in Seq(Call) /\ ToPersist \in Seq(Call)
BY DEF ToVerifyLast, ToConfirmLast, ToConfirm, ToPersist, Call

(***************************************************************************)
(* One call and the lane                                                   *)
(***************************************************************************)

LEMMA TodoCalls ==
  ASSUME NEW f, NEW n, NEW r, LaneKept(f, n, r)
  PROVE  f.todo = <<>> \/ f.todo \in Todos
<1> USE DEF Todos
<1>1. CASE Untouched(f, n, r)
  BY <1>1 DEF Untouched
<1>2. CASE Failing(f, n, r) \/ Giving(f, n, r) \/ Apart(f, n, r)
  BY <1>2 DEF Failing, Giving, Apart
<1>3. CASE Taking(f, n, r)
  BY <1>3 DEF Taking
<1>4. CASE Leaving(f, n, r)
  BY <1>4 DEF Leaving
<1> QED BY <1>1, <1>2, <1>3, <1>4 DEF LaneKept

\* A command that has nothing to do.
LEMMA NothingLeft ==
  ASSUME NEW f, NEW n, NEW r
  PROVE  f.todo = <<>> => (LaneKept(f, n, r) <=> (n # 0 <=> r))
<1> SUFFICES ASSUME f.todo = <<>> PROVE LaneKept(f, n, r) <=> (n # 0 <=> r)
  OBVIOUS
<1>1. \A t \in Todos : f.todo # t
  BY TodoLeft
<1> QED BY <1>1 DEF LaneKept, Untouched, Failing, Taking, Leaving, Giving, Apart, Todos

\* After a call that learns nothing of the lane.
LEMMA WorkflowLane ==
  ASSUME NEW f, NEW n, NEW r, LaneKept(f, n, r), f.todo # <<>>, Head(f.todo) = "workflow",
         NEW g, g.command = f.command, g.draft = f.draft, g.fence = f.fence, g.todo = Tail(f.todo)
  PROVE  LaneKept(g, n, r)
<1>0. Kind(g) = Kind(f) /\ Starts(g) = Starts(f)
  BY DEF Kind, Starts
<1>1. CASE Untouched(f, n, r)
  <2>1. /\ (n # 0 <=> r) /\ f.fence = 0
        /\ \/ Kind(f) = "acquire-phase" /\ f.todo = ToTake
           \/ Kind(f) = "requeue-retry" /\ f.todo = ToRequeue
           \/ Kind(f) = "recover-expired-target-lease" /\ f.todo = ToRecover
    BY <1>1, TodoHeads DEF Untouched
  <2>2. /\ (n # 0 <=> r) /\ g.fence = 0
        /\ \/ Kind(g) = "acquire-phase" /\ g.todo = ToLook
           \/ Kind(g) = "requeue-retry" /\ g.todo = ToLookPersist
           \/ Kind(g) = "recover-expired-target-lease" /\ g.todo = ToLookInspect
    BY <1>0, <2>1, TodoTails
  <2>3. Untouched(g, n, r)
    BY <2>2 DEF Untouched
  <2> QED BY <2>3 DEF LaneKept
<1>2. CASE Failing(f, n, r)
  BY <1>0, <1>2, TodoHeads, TodoTails, ZenonT(60) DEF Failing, LaneKept
<1>3. CASE Taking(f, n, r)
  <2>0. f.todo = ToConfirm /\ Starts(f)
    BY <1>3, TodoHeads DEF Taking
  <2>1. Taking(g, n, r)
    BY <1>0, <1>3, <2>0, TodoTails DEF Taking
  <2> QED BY <2>1 DEF LaneKept
<1>4. CASE Leaving(f, n, r)
  <2>1. /\ n # 0 /\ r
        /\ \/ Kind(f) \in {"release-for-pr-checks", "mark-merged"} /\ f.todo = ToLeave
           \/ f.todo = ToConfirmLast /\ ~Starts(f)
    BY <1>4, TodoHeads DEF Leaving
  <2>2. /\ n # 0 /\ r
        /\ \/ Kind(g) \in {"release-for-pr-checks", "mark-merged"} /\ g.todo = ToLookLast
           \/ g.todo = ToFenceLast /\ ~Starts(g)
    BY <1>0, <2>1, TodoTails
  <2>3. Leaving(g, n, r)
    BY <2>2 DEF Leaving
  <2> QED BY <2>3 DEF LaneKept
<1>5. CASE Giving(f, n, r)
  BY <1>5, TodoHeads DEF Giving
<1>6. CASE Apart(f, n, r)
  BY <1>0, <1>6, TodoHeads, TodoTails, ZenonT(60) DEF Apart, LaneKept
<1> QED BY <1>1, <1>2, <1>3, <1>4, <1>5, <1>6 DEF LaneKept

\* The lease was verified.
LEMMA TargetLane ==
  ASSUME NEW f, NEW n, NEW r, LaneKept(f, n, r), f.todo # <<>>, Head(f.todo) = "target", n # 0,
         NEW g, g.command = f.command, g.draft = f.draft, g.fence = n, g.todo = Tail(f.todo)
  PROVE  LaneKept(g, n, r)
<1>0. Kind(g) = Kind(f) /\ Starts(g) = Starts(f)
  BY DEF Kind, Starts
<1>1. CASE Untouched(f, n, r)
  <2>1. r /\ f.todo \in {ToFinish, ToVerifyRenew, ToGiveUp}
    BY <1>1, TodoHeads DEF Untouched
  <2>2. CASE f.todo = ToFinish
    <3>1. Kind(f) \in {"release-for-pr-checks", "mark-merged"}
      <4>1. ToFinish # ToVerifyRenew /\ ToFinish # ToGiveUp
        BY DEF ToFinish, ToVerifyRenew, ToGiveUp
      <4> QED BY <1>1, <2>2, <4>1, TodoHeads DEF Untouched
    <3> QED BY <1>0, <2>1, <2>2, <3>1, TodoTails DEF Leaving, LaneKept
  <2>3. CASE f.todo \in {ToVerifyRenew, ToGiveUp}
    <3>1. ToVerifyRenew # ToFinish /\ ToGiveUp # ToFinish /\ ToVerifyRenew # ToGiveUp
      BY DEF ToFinish, ToVerifyRenew, ToGiveUp
    <3>3. \/ Kind(f) = "renew-held-target-lease" /\ f.todo = ToVerifyRenew
          \/ Kind(f) = "release-held-target-lease" /\ f.todo = ToGiveUp
      BY <1>1, <2>3, <3>1, TodoHeads DEF Untouched
    <3>4. \/ Kind(g) = "renew-held-target-lease" /\ g.todo = ToRenew
          \/ Kind(g) = "release-held-target-lease" /\ g.todo = ToRelease
      BY <1>0, <3>3, TodoTails
    <3>2. Untouched(g, n, r)
      BY <1>1, <3>4 DEF Untouched
    <3> QED BY <3>2 DEF LaneKept
  <2> QED BY <2>1, <2>2, <2>3
<1>2. CASE Failing(f, n, r) \/ Giving(f, n, r) \/ Apart(f, n, r)
  BY <1>2, TodoHeads DEF Failing, Giving, Apart
<1>3. CASE Taking(f, n, r)
  <2>0. f.todo = ToVerify
    BY <1>3, TodoHeads DEF Taking
  <2>1. Taking(g, n, r)
    BY <1>0, <1>3, <2>0, TodoTails DEF Taking
  <2> QED BY <2>1 DEF LaneKept
<1>4. CASE Leaving(f, n, r)
  <2>0. f.todo = ToVerifyLast /\ ~Starts(f)
    BY <1>4, TodoHeads DEF Leaving
  <2>1. Leaving(g, n, r)
    BY <1>0, <1>4, <2>0, TodoTails DEF Leaving
  <2> QED BY <2>1 DEF LaneKept
<1> QED BY <1>1, <1>2, <1>3, <1>4 DEF LaneKept

\* The lane was still held when the lease was verified once more.
LEMMA FenceLane ==
  ASSUME NEW f, NEW n, NEW r, LaneKept(f, n, r), f.todo # <<>>, Head(f.todo) = "fence",
         NEW g, g.command = f.command, g.draft = f.draft, g.fence = f.fence, g.todo = Tail(f.todo)
  PROVE  LaneKept(g, n, r)
<1>0. Kind(g) = Kind(f) /\ Starts(g) = Starts(f)
  BY DEF Kind, Starts
<1>1. CASE Untouched(f, n, r) \/ Failing(f, n, r) \/ Giving(f, n, r) \/ Apart(f, n, r)
  BY <1>1, TodoHeads DEF Untouched, Failing, Giving, Apart
<1>3. CASE Taking(f, n, r)
  <2>0. f.todo = ToFence
    BY <1>3, TodoHeads DEF Taking
  <2>1. g.todo = ToWrite /\ Starts(g)
    BY <1>0, <1>3, <2>0, TodoHeads, TodoTails DEF Taking
  <2>2. Taking(g, n, r)
    BY <1>0, <1>3, <2>1 DEF Taking
  <2> QED BY <2>2 DEF LaneKept
<1>4. CASE Leaving(f, n, r)
  <2>0. f.todo = ToFenceLast /\ ~Starts(f)
    BY <1>4, TodoHeads DEF Leaving
  <2>1. Leaving(g, n, r)
    BY <1>0, <1>4, <2>0, TodoTails DEF Leaving
  <2> QED BY <2>1 DEF LaneKept
<1> QED BY <1>1, <1>3, <1>4 DEF LaneKept

\* The home had no lease to verify.
LEMMA NoLeaseLane ==
  ASSUME NEW f, NEW n, NEW r, LaneKept(f, n, r), f.todo # <<>>, Head(f.todo) = "target", n = 0
  PROVE  ~r
BY TodoHeads DEF LaneKept, Untouched, Failing, Taking, Leaving, Giving, Apart

\* The lane is asked for by a command that has not touched it.
LEMMA AcquireLaneIdle ==
  ASSUME NEW f, NEW n, NEW r, LaneKept(f, n, r), f.todo # <<>>, Head(f.todo) = "acquire"
  PROVE  /\ n # 0 <=> r
         /\ f.todo = ToAcquire /\ Kind(f) = "acquire-phase"
<1>1. Untouched(f, n, r)
  BY TodoHeads DEF LaneKept, Failing, Taking, Leaving, Giving, Apart
<1>2. f.todo = ToAcquire
  BY <1>1, TodoHeads DEF Untouched
<1>3. \A t \in Todos : Head(t) = "acquire" => t = ToAcquire
  BY TodoHeads DEF Todos
<1> QED BY <1>1, <1>2, TodoHeads DEF Untouched

LEMMA ReleaseLaneLast ==
  ASSUME NEW f, NEW n, NEW r, LaneKept(f, n, r), f.todo # <<>>, Head(f.todo) = "release",
         Kind(f) # "release-held-target-lease"
  PROVE  ~r /\ Tail(f.todo) = <<>>
<1>1. Giving(f, n, r)
  BY TodoHeads DEF LaneKept, Untouched, Failing, Taking, Leaving, Apart
<1> QED BY <1>1, TodoTails DEF Giving

LEMMA RenewLaneLast ==
  ASSUME NEW f, NEW n, NEW r, LaneKept(f, n, r), f.todo # <<>>, Head(f.todo) = "renew"
  PROVE  (n # 0 <=> r) /\ Tail(f.todo) = <<>>
<1>1. Untouched(f, n, r)
  BY TodoHeads DEF LaneKept, Failing, Taking, Leaving, Giving, Apart
<1> QED BY <1>1, TodoHeads, TodoTails, ZenonT(60) DEF Untouched

LEMMA InspectLaneEven ==
  ASSUME NEW f, NEW n, NEW r, LaneKept(f, n, r), f.todo # <<>>, Head(f.todo) = "inspect"
  PROVE  n # 0 <=> r
<1>1. Untouched(f, n, r)
  BY TodoHeads DEF LaneKept, Failing, Taking, Leaving, Giving, Apart
<1> QED BY <1>1 DEF Untouched

\* What a command that has loaded its manifest knows, kind by kind.
LEMMA LoadLane ==
  ASSUME NEW f, NEW n, NEW r, LaneKept(f, n, r), f.todo # <<>>, Head(f.todo) = "load"
  PROVE  /\ Kind(f) = "observe-pr-checks" => (n # 0 <=> r) /\ f.todo = ToLoad
         /\ Kind(f) = "acquire-phase" => (n # 0 <=> r) /\ f.todo = ToLook /\ f.fence = 0
         /\ Kind(f) \in {"release-for-pr-checks", "mark-merged"}
              => n # 0 /\ r /\ f.todo = ToLookLast
         /\ Kind(f) = "record-failure" => (n # 0 => r) /\ f.todo = ToLoad
         /\ Kind(f) = "requeue-retry" => (n # 0 <=> r) /\ f.todo = ToLookPersist /\ f.fence = 0
         /\ Kind(f) = "recover-expired-target-lease"
              => (n # 0 <=> r) /\ f.todo = ToLookInspect /\ f.fence = 0
<1>1. CASE Untouched(f, n, r)
  BY <1>1, TodoHeads DEF Untouched
<1>2. CASE Failing(f, n, r)
  BY <1>2, TodoHeads DEF Failing
<1>3. CASE Taking(f, n, r) \/ Giving(f, n, r) \/ Apart(f, n, r)
  BY <1>3, TodoHeads DEF Taking, Giving, Apart
<1>4. CASE Leaving(f, n, r)
  BY <1>4, TodoHeads DEF Leaving
<1> QED BY <1>1, <1>2, <1>3, <1>4 DEF LaneKept

LEMMA ReloadLane ==
  ASSUME NEW f, NEW n, NEW r, LaneKept(f, n, r), f.todo # <<>>, Head(f.todo) = "reload"
  PROVE  Kind(f) = "acquire-phase" /\ n # 0 /\ ~r /\ f.todo = ToReload /\ f.fence # 0
<1>1. Taking(f, n, r)
  BY TodoHeads DEF LaneKept, Untouched, Failing, Leaving, Giving, Apart
<1> QED BY <1>1, TodoHeads DEF Taking

LEMMA WriteLane ==
  ASSUME NEW f, NEW n, NEW r, LaneKept(f, n, r), f.todo # <<>>, Head(f.todo) = "write"
  PROVE  \/ Tail(f.todo) = <<>> /\ (n # 0 <=> Starts(f))
         \/ Tail(f.todo) = ToRelease /\ ~Starts(f)
<1>1. CASE Taking(f, n, r) \/ Apart(f, n, r)
  <2>1. f.todo = ToWrite
    BY <1>1, TodoHeads DEF Taking, Apart
  <2>2. Tail(f.todo) = <<>>
    BY <2>1, TodoTails
  <2>3. n # 0 <=> Starts(f)
    BY <1>1, <2>1, TodoHeads DEF Taking, Apart
  <2> QED BY <2>2, <2>3
<1>2. CASE Leaving(f, n, r)
  <2>1. f.todo = ToWriteLast /\ ~Starts(f)
    BY <1>2, TodoHeads DEF Leaving
  <2> QED BY <2>1, TodoTails
<1>3. CASE Untouched(f, n, r) \/ Failing(f, n, r) \/ Giving(f, n, r)
  BY <1>3, TodoHeads DEF Untouched, Failing, Giving
<1> QED BY <1>1, <1>2, <1>3 DEF LaneKept

(***************************************************************************)
(* The steps of a home and its lane                                        *)
(***************************************************************************)

LaneAt(h) == ~disturbed[h] => LaneKept(frame[h], held[h], Refreshing(h))

\* It is the frame, the lease and the candidate that have to agree afterwards.
LEMMA LaneAfter ==
  ASSUME NEW h \in Home, ~disturbed'[h] => LaneKept(frame'[h], held'[h], Refreshing(h)')
  PROVE  LaneAt(h)'
BY DEF LaneAt

LEMMA ResumeLane ==
  ASSUME TypeOK, NEW h \in Home, NEW g \in Frame, Resume(h, g), NEW n, NEW r, LaneKept(g, n, r)
  PROVE  LaneKept(frame'[h], n, r)
<1>1. CASE g.todo = <<>>
  <2>1. frame'[h] = Idle /\ Idle.todo = <<>>
    BY <1>1, IdleFrame DEF TypeOK, Resume
  <2> QED BY <1>1, <2>1, NothingLeft
<1>2. CASE g.todo # <<>>
  <2>1. frame'[h] = g
    BY <1>2 DEF TypeOK, Resume
  <2> QED BY <2>1
<1> QED BY <1>1, <1>2

\* The frame a command goes on with.
LEMMA ProceedFrame ==
  ASSUME TypeOK, NEW h \in Home, frame[h].todo # <<>>, Proceed(h)
  PROVE  \E g \in Frame : /\ Resume(h, g)
                          /\ g.command = frame[h].command /\ g.draft = frame[h].draft
                          /\ g.fence = frame[h].fence /\ g.todo = Tail(frame[h].todo)
<1> DEFINE f == frame[h]
           g == [f EXCEPT !.todo = Tail(f.todo)]
<1>1. f \in Frame /\ Tail(f.todo) \in Seq(Call)
  BY TypedFrame, TailCalls
<1>2. /\ g.command = f.command /\ g.draft = f.draft /\ g.fence = f.fence
      /\ g.todo = Tail(f.todo) /\ g \in Frame
  BY <1>1 DEF Frame, Call
<1>3. Resume(h, g)
  BY DEF Proceed
<1> HIDE DEF g
<1> QED BY <1>2, <1>3

LEMMA FencedFrame ==
  ASSUME TypeOK, NEW h \in Home, frame[h].todo # <<>>, NEW n \in Nat,
         Resume(h, [frame[h] EXCEPT !.todo = Tail(@), !.fence = n])
  PROVE  \E g \in Frame : /\ Resume(h, g)
                          /\ g.command = frame[h].command /\ g.draft = frame[h].draft
                          /\ g.fence = n /\ g.todo = Tail(frame[h].todo)
<1> DEFINE f == frame[h]
           g == [f EXCEPT !.todo = Tail(f.todo), !.fence = n]
<1>1. f \in Frame /\ Tail(f.todo) \in Seq(Call)
  BY TypedFrame, TailCalls
<1>2. /\ g.command = f.command /\ g.draft = f.draft /\ g.fence = n
      /\ g.todo = Tail(f.todo) /\ g \in Frame
  BY <1>1 DEF Frame, Call
<1>3. Resume(h, g)
  OBVIOUS
<1> HIDE DEF g
<1> QED BY <1>2, <1>3

\* A failed command has nothing to give back, or the lane that it took.
LEMMA AbortLane ==
  ASSUME TypeOK, NEW h \in Home, Abort(h), NEW n, NEW r,
         \/ Cleanup(h) = <<>> /\ (n # 0 <=> r)
         \/ Cleanup(h) = ToRelease /\ ~r
  PROVE  LaneKept(frame'[h], n, r)
<1> DEFINE g == [frame[h] EXCEPT !.todo = Cleanup(h), !.draft = NoDraft]
<1>1. g \in Frame
  BY CleanupFrame
<1>2. Resume(h, g)
  BY DEF Abort
<1>3. g.todo = Cleanup(h)
  <2>1. frame[h] \in Frame
    BY TypedFrame
  <2> QED BY <2>1 DEF Frame
<1> HIDE DEF g
<1>4. LaneKept(g, n, r)
  <2>1. CASE Cleanup(h) = <<>> /\ (n # 0 <=> r)
    BY <1>3, <2>1, NothingLeft
  <2>2. CASE Cleanup(h) = ToRelease /\ ~r
    BY <1>3, <2>2 DEF LaneKept, Giving
  <2> QED BY <2>1, <2>2
<1> QED BY <1>1, <1>2, <1>4, ResumeLane

\* What is cleaned up after a call of each kind.
LEMMA CleanupOf ==
  ASSUME NEW h \in Home, frame[h].todo # <<>>
  PROVE  /\ Head(frame[h].todo) \in {"target", "acquire", "release", "inspect", "renew"}
              => Cleanup(h) = <<>>
         /\ Head(frame[h].todo) = "load" /\ frame[h].fence = 0
            /\ Kind(frame[h]) \notin {"record-failure", "observe-pr-checks"} => Cleanup(h) = <<>>
         /\ Head(frame[h].todo) = "reload" /\ frame[h].fence # 0 => Cleanup(h) = ToRelease
BY DEF Cleanup, At, AtFor, Kind, ToRelease

LEMMA WorkflowAuthorityLane ==
  ASSUME TypeOK, NEW h \in Home, LaneAt(h), VerifyWorkflowAuthority(h)
  PROVE  LaneAt(h)'
<1> SUFFICES ASSUME ~disturbed'[h] PROVE LaneKept(frame'[h], held'[h], Refreshing(h)')
  BY LaneAfter
<1>1. Proceed(h) /\ UNCHANGED disturbed
  BY DEF VerifyWorkflowAuthority, Disturb, TypeOK
<1>2. /\ held' = held /\ manifest' = manifest
      /\ frame[h].todo # <<>> /\ Head(frame[h].todo) = "workflow"
  BY DEF VerifyWorkflowAuthority, At
<1>3. LaneKept(frame[h], held[h], Refreshing(h))
  BY <1>1 DEF LaneAt
<1>4. PICK g \in Frame : /\ Resume(h, g)
                         /\ g.command = frame[h].command /\ g.draft = frame[h].draft
                         /\ g.fence = frame[h].fence /\ g.todo = Tail(frame[h].todo)
  BY <1>1, <1>2, ProceedFrame
<1>5. LaneKept(g, held[h], Refreshing(h))
  BY <1>2, <1>3, <1>4, WorkflowLane
<1>6. LaneKept(frame'[h], held[h], Refreshing(h))
  BY <1>4, <1>5, ResumeLane
<1> QED BY <1>2, <1>6 DEF Refreshing, Own

LEMMA FenceStepLane ==
  ASSUME TypeOK, NEW h \in Home, LaneAt(h), VerifyFence(h)
  PROVE  LaneAt(h)'
<1> SUFFICES ASSUME ~disturbed'[h] PROVE LaneKept(frame'[h], held'[h], Refreshing(h)')
  BY LaneAfter
<1>1. Proceed(h) /\ UNCHANGED disturbed /\ held' = held
  BY DEF VerifyFence, Disturb, TypeOK
<1>2. /\ manifest' = manifest
      /\ frame[h].todo # <<>> /\ Head(frame[h].todo) = "fence"
  BY DEF VerifyFence, At
<1>3. LaneKept(frame[h], held[h], Refreshing(h))
  BY <1>1 DEF LaneAt
<1>4. PICK g \in Frame : /\ Resume(h, g)
                         /\ g.command = frame[h].command /\ g.draft = frame[h].draft
                         /\ g.fence = frame[h].fence /\ g.todo = Tail(frame[h].todo)
  BY <1>1, <1>2, ProceedFrame
<1>5. LaneKept(g, held[h], Refreshing(h))
  BY <1>2, <1>3, <1>4, FenceLane
<1>6. LaneKept(frame'[h], held[h], Refreshing(h))
  BY <1>4, <1>5, ResumeLane
<1> QED BY <1>1, <1>2, <1>6 DEF Refreshing, Own

\* A lease that was found gone is one the home did not remember.
LEMMA HeldLeaseLane ==
  ASSUME TypeOK, NEW h \in Home, LaneAt(h), VerifyHeldLease(h)
  PROVE  LaneAt(h)'
<1> SUFFICES ASSUME ~disturbed'[h] PROVE LaneKept(frame'[h], held'[h], Refreshing(h)')
  BY LaneAfter
<1>2. /\ manifest' = manifest /\ held[h] \in Nat
      /\ frame[h].todo # <<>> /\ Head(frame[h].todo) = "target"
  BY DEF VerifyHeldLease, At, TypeOK
<1>3. CASE HoldsLane(held[h])
  <2>1. /\ held[h] # 0 /\ UNCHANGED <<disturbed, held>>
        /\ Resume(h, [frame[h] EXCEPT !.todo = Tail(@), !.fence = held[h]])
    BY <1>3 DEF VerifyHeldLease, HoldsLane
  <2>2. LaneKept(frame[h], held[h], Refreshing(h))
    BY <2>1 DEF LaneAt
  <2>3. PICK g \in Frame : /\ Resume(h, g)
                           /\ g.command = frame[h].command /\ g.draft = frame[h].draft
                           /\ g.fence = held[h] /\ g.todo = Tail(frame[h].todo)
    BY <1>2, <2>1, FencedFrame
  <2>4. LaneKept(g, held[h], Refreshing(h))
    BY <1>2, <2>1, <2>2, <2>3, TargetLane
  <2>5. LaneKept(frame'[h], held[h], Refreshing(h))
    BY <2>3, <2>4, ResumeLane
  <2> QED BY <1>2, <2>1, <2>5 DEF Refreshing, Own
<1>4. CASE ~HoldsLane(held[h])
  <2>1. /\ Abort(h) /\ held'[h] = 0
        /\ disturbed' = [disturbed EXCEPT ![h] = @ \/ held[h] # 0]
    BY <1>4 DEF VerifyHeldLease, TypeOK
  <2>2. held[h] = 0 /\ ~disturbed[h]
    BY <2>1 DEF TypeOK
  <2>3. ~Refreshing(h)
    BY <1>2, <2>2, NoLeaseLane DEF LaneAt
  <2>4. Cleanup(h) = <<>>
    BY <1>2, CleanupOf
  <2>5. LaneKept(frame'[h], 0, Refreshing(h))
    BY <2>1, <2>3, <2>4, AbortLane
  <2> QED BY <1>2, <2>1, <2>5 DEF Refreshing, Own
<1> QED BY <1>3, <1>4

LEMMA AcquireStepLane ==
  ASSUME TypeOK, NEW h \in Home, LaneAt(h), AcquireLane(h)
  PROVE  LaneAt(h)'
<1> SUFFICES ASSUME ~disturbed'[h] PROVE LaneKept(frame'[h], held'[h], Refreshing(h)')
  BY LaneAfter
<1>1. /\ manifest' = manifest /\ held[h] \in Nat
      /\ frame[h].todo # <<>> /\ Head(frame[h].todo) = "acquire"
  BY DEF AcquireLane, At, TypeOK
<1>2. CASE /\ Proceed(h) /\ held' = [held EXCEPT ![h] = lane.generation + 1]
           /\ disturbed' = [disturbed EXCEPT ![h] = @ \/ held[h] # 0]
  <2>0. lane.generation \in Nat
    BY DEF TypeOK
  <2>1. held[h] = 0 /\ ~disturbed[h] /\ held'[h] = lane.generation + 1 /\ held'[h] # 0
    <3>1. held'[h] = lane.generation + 1
      BY <1>2 DEF TypeOK
    <3>2. disturbed'[h] = (disturbed[h] \/ held[h] # 0)
      BY <1>2 DEF TypeOK
    <3>3. lane.generation + 1 # 0
      BY <2>0
    <3>4. held[h] = 0 /\ ~disturbed[h]
      BY <3>2
    <3> QED BY <3>1, <3>3, <3>4
  <2>2. /\ ~Refreshing(h) /\ frame[h].todo = ToAcquire /\ Kind(frame[h]) = "acquire-phase"
    BY <1>1, <2>1, AcquireLaneIdle DEF LaneAt
  <2>3. PICK g \in Frame : /\ Resume(h, g)
                           /\ g.command = frame[h].command /\ g.draft = frame[h].draft
                           /\ g.fence = frame[h].fence /\ g.todo = Tail(frame[h].todo)
    BY <1>1, <1>2, ProceedFrame
  <2>4. g.todo = ToVerify /\ Kind(g) = "acquire-phase"
    BY <2>2, <2>3, TodoTails DEF Kind
  <2>5. LaneKept(g, held'[h], Refreshing(h))
    BY <2>1, <2>2, <2>4 DEF LaneKept, Taking
  <2>6. LaneKept(frame'[h], held'[h], Refreshing(h))
    BY <2>3, <2>5, ResumeLane
  <2> QED BY <1>1, <2>6 DEF Refreshing, Own
<1>3. CASE Abort(h) /\ UNCHANGED <<lane, held, disturbed>>
  <2>1. held[h] # 0 <=> Refreshing(h)
    BY <1>1, <1>3, AcquireLaneIdle DEF LaneAt
  <2>2. LaneKept(frame'[h], held[h], Refreshing(h))
    BY <1>1, <1>3, <2>1, CleanupOf, AbortLane
  <2> QED BY <1>1, <1>3, <2>2 DEF Refreshing, Own
<1> QED BY <1>2, <1>3 DEF AcquireLane

LEMMA ReleaseStepLane ==
  ASSUME TypeOK, NEW h \in Home, LaneAt(h), ReleaseLane(h)
  PROVE  LaneAt(h)'
<1> SUFFICES ASSUME ~disturbed'[h] PROVE LaneKept(frame'[h], held'[h], Refreshing(h)')
  BY LaneAfter
<1>1. /\ manifest' = manifest /\ held'[h] = 0
      /\ frame[h].todo # <<>> /\ Head(frame[h].todo) = "release"
  BY DEF ReleaseLane, At, TypeOK
<1>2. /\ Proceed(h)
      /\ disturbed' = [disturbed EXCEPT
           ![h] = @ \/ frame[h].command.kind = "release-held-target-lease"]
  BY DEF ReleaseLane, Disturb, TypeOK
<1>3. ~disturbed[h] /\ Kind(frame[h]) # "release-held-target-lease"
  BY <1>2 DEF TypeOK, Kind
<1>4. ~Refreshing(h) /\ Tail(frame[h].todo) = <<>>
  BY <1>1, <1>3, ReleaseLaneLast DEF LaneAt
<1>5. PICK g \in Frame : Resume(h, g) /\ g.todo = Tail(frame[h].todo)
  BY <1>1, <1>2, ProceedFrame
<1>6. LaneKept(g, 0, Refreshing(h))
  BY <1>4, <1>5, NothingLeft
<1>7. LaneKept(frame'[h], 0, Refreshing(h))
  BY <1>5, <1>6, ResumeLane
<1> QED BY <1>1, <1>7 DEF Refreshing, Own

LEMMA RenewStepLane ==
  ASSUME TypeOK, NEW h \in Home, LaneAt(h), RenewLane(h)
  PROVE  LaneAt(h)'
<1> SUFFICES ASSUME ~disturbed'[h] PROVE LaneKept(frame'[h], held'[h], Refreshing(h)')
  BY LaneAfter
<1>1. Proceed(h) /\ UNCHANGED disturbed /\ held' = held
  BY DEF RenewLane, Disturb, TypeOK
<1>2. /\ manifest' = manifest
      /\ frame[h].todo # <<>> /\ Head(frame[h].todo) = "renew"
  BY DEF RenewLane, At
<1>3. (held[h] # 0 <=> Refreshing(h)) /\ Tail(frame[h].todo) = <<>>
  BY <1>1, <1>2, RenewLaneLast DEF LaneAt
<1>4. PICK g \in Frame : Resume(h, g) /\ g.todo = Tail(frame[h].todo)
  BY <1>1, <1>2, ProceedFrame
<1>5. LaneKept(g, held[h], Refreshing(h))
  BY <1>3, <1>4, NothingLeft
<1>6. LaneKept(frame'[h], held[h], Refreshing(h))
  BY <1>4, <1>5, ResumeLane
<1> QED BY <1>1, <1>2, <1>6 DEF Refreshing, Own

LEMMA InspectStepLane ==
  ASSUME TypeOK, NEW h \in Home, LaneAt(h), InspectLane(h)
  PROVE  LaneAt(h)'
<1> SUFFICES ASSUME ~disturbed'[h] PROVE LaneKept(frame'[h], held'[h], Refreshing(h)')
  BY LaneAfter
<1>1. /\ manifest' = manifest /\ disturbed' = disturbed
      /\ frame[h].todo # <<>> /\ Head(frame[h].todo) = "inspect"
  BY DEF InspectLane, At
<1>2. held[h] # 0 <=> Refreshing(h)
  BY <1>1, InspectLaneEven DEF LaneAt
<1>3. CASE Abort(h) /\ UNCHANGED held
  <2>1. LaneKept(frame'[h], held[h], Refreshing(h))
    BY <1>1, <1>2, <1>3, CleanupOf, AbortLane
  <2> QED BY <1>1, <1>3, <2>1 DEF Refreshing, Own
<1>4. CASE ~lane.live
  <2> DEFINE c == RecoverFailure
             g == [frame[h] EXCEPT !.command = c, !.todo = Calls("record-failure")]
  <2>1. Resume(h, g) /\ held'[h] = 0
    BY <1>4 DEF InspectLane, TypeOK, RecoverFailure
  <2>2. g \in Frame /\ g.command = c /\ g.todo = ToRecord
    <3>1. RecoverFailure \in Command
      BY NumbersAssumption DEF Command, RecoverFailure
    <3>2. frame[h] \in Frame /\ Calls("record-failure") \in Seq(Call)
      BY TypedFrame, CallsType DEF Kinds
    <3> HIDE DEF c
    <3>3. c \in Command
      BY <3>1 DEF c
    <3> QED BY <3>2, <3>3, FirstTodo DEF Frame, Call
  <2>3. c.kind = "record-failure"
    BY DEF RecoverFailure
  <2> HIDE DEF g, c
  <2>4. LaneKept(g, 0, Refreshing(h))
    BY <2>2, <2>3 DEF LaneKept, Failing, Kind
  <2>5. LaneKept(frame'[h], 0, Refreshing(h))
    BY <2>1, <2>2, <2>4, ResumeLane
  <2> QED BY <1>1, <2>1, <2>5 DEF Refreshing, Own
<1> QED BY <1>3, <1>4 DEF InspectLane

\* A decision of a command, with the calls it goes on with.
LEMMA DecideLane ==
  ASSUME TypeOK, NEW h \in Home, NEW c \in Candidate, NEW t \in Seq(Call), Decide(h, c, t)
  PROVE  \E g \in Frame : /\ Resume(h, g) /\ g.command = frame[h].command
                          /\ g.draft.candidate = c /\ g.todo = t
<1> DEFINE m == [Own(h) EXCEPT !.candidate = c]
           g == [frame[h] EXCEPT !.draft = m, !.todo = t]
<1>1. m \in Manifest /\ m.candidate = c
  BY TypedFrame DEF Manifest
<1>2. Resume(h, g)
  BY DEF Decide
<1> HIDE DEF m
<1>3. /\ g \in Frame /\ g.command = frame[h].command /\ g.draft = m /\ g.todo = t
  <2>1. frame[h] \in Frame
    BY TypedFrame
  <2> QED BY <1>1, <2>1 DEF Frame, Call
<1> HIDE DEF g
<1> QED BY <1>1, <1>2, <1>3

\* What a home writes before it leaves the lane is not refreshing.
LEMMA LeavingLane ==
  ASSUME NEW g, NEW n, n # 0, ~Starts(g),
         g.todo \in {ToVerifyLast, ToConfirmLast}
  PROVE  LaneKept(g, n, TRUE)
BY DEF Leaving, LaneKept

LEMMA ApartLane ==
  ASSUME NEW g, NEW r, ~Starts(g), g.todo = ToPersist, Kind(g) # "acquire-phase"
  PROVE  LaneKept(g, 0, r)
BY DEF Apart, LaneKept

\* Neither checks nor failures make a candidate refreshing.
LEMMA ChecksEnd ==
  ASSUME TypeOK, NEW m, NEW headSha, NEW status,
         AfterPrChecks(m, headSha, status) # m.candidate
  PROVE  AfterPrChecks(m, headSha, status).state # "refreshing"
BY DEF AfterPrChecks, Plain, Retryable, MergeReady, NoRetry

LEMMA FailureEnd ==
  ASSUME NEW c \in Candidate, NEW kind, NEW reason, NEW budget
  PROVE  AfterFailure(c, kind, reason, budget).state # "refreshing"
BY DEF AfterFailure, Plain, Retryable, NoRetry

LEMMA LoadKind ==
  ASSUME TypeOK, NEW h \in Home, LaneAt(h), ~disturbed[h],
         frame[h].todo # <<>>, Head(frame[h].todo) = "load"
  PROVE  LET f == frame[h]
             n == held[h]
             r == Refreshing(h)
         IN  /\ Kind(f) = "observe-pr-checks" => (n # 0 <=> r) /\ f.todo = ToLoad
             /\ Kind(f) = "acquire-phase" => (n # 0 <=> r) /\ f.todo = ToLook /\ f.fence = 0
             /\ Kind(f) \in {"release-for-pr-checks", "mark-merged"}
                  => n # 0 /\ r /\ f.todo = ToLookLast
             /\ Kind(f) = "record-failure" => (n # 0 => r) /\ f.todo = ToLoad
             /\ Kind(f) = "requeue-retry" => (n # 0 <=> r) /\ f.todo = ToLookPersist /\ f.fence = 0
             /\ Kind(f) = "recover-expired-target-lease"
                  => (n # 0 <=> r) /\ f.todo = ToLookInspect /\ f.fence = 0
BY LoadLane DEF LaneAt

\* What every command does at its load: it goes on, decides or gives up.
LEMMA LoadFacts ==
  ASSUME TypeOK, NEW h \in Home, LaneAt(h), NEW kind, AtFor(h, "load", kind),
         UNCHANGED <<manifest, held, disturbed>>, ~disturbed'[h]
  PROVE  /\ ~disturbed[h] /\ held'[h] = held[h] /\ Refreshing(h)' = Refreshing(h)
         /\ frame[h].todo # <<>> /\ Head(frame[h].todo) = "load" /\ Kind(frame[h]) = kind
         /\ held[h] \in Nat
BY DEF AtFor, At, Kind, Refreshing, Own, TypeOK

LEMMA ObserveLane ==
  ASSUME TypeOK, NEW h \in Home, LaneAt(h), LoadToObserve(h)
  PROVE  LaneAt(h)'
<1> SUFFICES ASSUME ~disturbed'[h] PROVE LaneKept(frame'[h], held'[h], Refreshing(h)')
  BY LaneAfter
<1> DEFINE c == frame[h].command
           next == AfterPrChecks(Own(h), c.headSha, c.status)
<1>1. /\ ~disturbed[h] /\ held'[h] = held[h] /\ Refreshing(h)' = Refreshing(h)
      /\ frame[h].todo # <<>> /\ Head(frame[h].todo) = "load"
      /\ Kind(frame[h]) = "observe-pr-checks"
  BY LoadFacts DEF LoadToObserve
<1>2. (held[h] # 0 <=> Refreshing(h)) /\ frame[h].todo = ToLoad
  BY <1>1, LoadKind
<1>3. next \in Candidate
  BY AfterPrChecksType, TypedFrame
<1>4. CASE next = Own(h).candidate
  <2>1. Proceed(h)
    BY <1>4 DEF LoadToObserve
  <2>2. PICK g \in Frame : Resume(h, g) /\ g.todo = Tail(frame[h].todo)
    BY <1>1, <2>1, ProceedFrame
  <2>3. LaneKept(g, held[h], Refreshing(h))
    BY <1>2, <2>2, TodoTails, NothingLeft
  <2> QED BY <1>1, <2>2, <2>3, ResumeLane
<1>5. CASE next # Own(h).candidate
  <2>0. next.state # "refreshing"
    BY <1>5, ChecksEnd
  <2>1. Decide(h, next, IF Own(h).candidate.state = "refreshing"
                        THEN <<"target">> \o PersistFenced \o <<"release">> ELSE Persist)
    BY <1>5 DEF LoadToObserve
  <2> HIDE DEF next
  <2>2. CASE Refreshing(h)
    <3>1. Decide(h, next, ToVerifyLast) /\ ToVerifyLast \in Seq(Call)
      BY <2>1, <2>2, JoinedCalls, TodoTypes DEF Refreshing
    <3>2. PICK g \in Frame : Resume(h, g) /\ g.draft.candidate = next /\ g.todo = ToVerifyLast
      BY <1>3, <3>1, DecideLane
    <3>3. LaneKept(g, held[h], TRUE)
      BY <1>2, <2>0, <2>2, <3>2, LeavingLane DEF Starts
    <3>4. LaneKept(frame'[h], held[h], TRUE)
      BY <3>2, <3>3, ResumeLane
    <3>5. Refreshing(h) = TRUE
      BY <2>2 DEF Refreshing
    <3> QED BY <1>1, <3>4, <3>5
  <2>3. CASE ~Refreshing(h)
    <3>1. Decide(h, next, ToPersist) /\ ToPersist \in Seq(Call)
      BY <2>1, <2>3, FirstTodo, TodoTypes DEF Refreshing
    <3>2. PICK g \in Frame : /\ Resume(h, g) /\ g.draft.candidate = next /\ g.todo = ToPersist
                             /\ g.command = frame[h].command
      BY <1>3, <3>1, DecideLane
    <3>3. Kind(g) # "acquire-phase"
      BY <1>1, <3>2 DEF Kind
    <3>4. LaneKept(g, 0, Refreshing(h))
      BY <2>0, <3>2, <3>3, ApartLane DEF Starts
    <3>5. LaneKept(frame'[h], 0, Refreshing(h))
      BY <3>2, <3>4, ResumeLane
    <3> QED BY <1>1, <1>2, <2>3, <3>5
  <2> QED BY <2>2, <2>3
<1> QED BY <1>4, <1>5

LEMMA LookLane ==
  ASSUME TypeOK, NEW h \in Home, LaneAt(h), LoadToAcquire(h)
  PROVE  LaneAt(h)'
<1> SUFFICES ASSUME ~disturbed'[h] PROVE LaneKept(frame'[h], held'[h], Refreshing(h)')
  BY LaneAfter
<1>1. /\ ~disturbed[h] /\ held'[h] = held[h] /\ Refreshing(h)' = Refreshing(h)
      /\ frame[h].todo # <<>> /\ Head(frame[h].todo) = "load"
      /\ Kind(frame[h]) = "acquire-phase"
  BY LoadFacts DEF LoadToAcquire
<1>2. (held[h] # 0 <=> Refreshing(h)) /\ frame[h].todo = ToLook /\ frame[h].fence = 0
  BY <1>1, LoadKind
<1>3. CASE Proceed(h)
  <2>1. PICK g \in Frame : /\ Resume(h, g) /\ g.todo = Tail(frame[h].todo)
                           /\ g.command = frame[h].command /\ g.fence = frame[h].fence
    BY <1>1, <1>3, ProceedFrame
  <2>2. LaneKept(g, held[h], Refreshing(h))
    BY <1>1, <1>2, <2>1, TodoTails DEF LaneKept, Untouched, Kind
  <2> QED BY <1>1, <2>1, <2>2, ResumeLane
<1>4. CASE Abort(h)
  BY <1>1, <1>2, <1>4, CleanupOf, AbortLane
<1> QED BY <1>3, <1>4 DEF LoadToAcquire

LEMMA LookReleaseLane ==
  ASSUME TypeOK, NEW h \in Home, LaneAt(h), LoadToRelease(h)
  PROVE  LaneAt(h)'
<1> SUFFICES ASSUME ~disturbed'[h] PROVE LaneKept(frame'[h], held'[h], Refreshing(h)')
  BY LaneAfter
<1>1. /\ ~disturbed[h] /\ held'[h] = held[h] /\ Refreshing(h)' = Refreshing(h)
      /\ frame[h].todo # <<>> /\ Head(frame[h].todo) = "load"
      /\ Kind(frame[h]) = "release-for-pr-checks"
  BY LoadFacts DEF LoadToRelease
<1>2. held[h] # 0 /\ Refreshing(h) = TRUE /\ frame[h].todo = ToLookLast
  <2>1. held[h] # 0 /\ Refreshing(h) /\ frame[h].todo = ToLookLast
    BY <1>1, LoadKind
  <2> QED BY <2>1 DEF Refreshing
<1>3. frame[h].command # NoCommand
  BY <1>1 DEF Kind, NoCommand
<1> DEFINE c == frame[h].command
           next == IF c.admitMergeReady THEN MergeReady(clock) ELSE Plain("awaiting-pr-checks")
           m == IF c.prFreshness = NoFreshness THEN Own(h)
                ELSE [Own(h) EXCEPT !.headSha = c.prFreshness.headSha,
                                    !.validatedTargetSha = c.prFreshness.validatedTargetSha]
           d == [m EXCEPT !.candidate = next]
<1>4. Resume(h, [frame[h] EXCEPT !.draft = d, !.todo = Tail(frame[h].todo)])
  BY <1>2 DEF LoadToRelease, Refreshing
<1>5. d \in Manifest /\ d.candidate = next
  <2>1. m \in Manifest
    <3>1. c.prFreshness \in Freshness \cup {NoFreshness}
      BY <1>1, <1>3, TypedFrame, CommandFields DEF Kind
    <3> QED BY <3>1, TypedFrame DEF Manifest, Freshness
  <2>2. next \in Candidate
    BY TypedFrame, MergeReadyType, PlainType
  <2> HIDE DEF m, next
  <2> QED BY <2>1, <2>2 DEF Manifest
<1>6. next.state # "refreshing"
  BY DEF MergeReady, Plain
<1> HIDE DEF d, next, m
<1>7. ToConfirmLast \in Seq(Call) /\ Tail(frame[h].todo) = ToConfirmLast
  BY <1>2, TodoTails, TodoTypes
<1> DEFINE g == [frame[h] EXCEPT !.draft = d, !.todo = ToConfirmLast]
<1>8. Resume(h, g)
  BY <1>4, <1>7
<1>11. g \in Frame /\ g.draft = d /\ g.todo = ToConfirmLast
  <2>1. frame[h] \in Frame
    BY TypedFrame
  <2> QED BY <1>5, <1>7, <2>1 DEF Frame, Call
<1> HIDE DEF g
<1>9. LaneKept(g, held[h], TRUE)
  BY <1>2, <1>5, <1>6, <1>11, LeavingLane DEF Starts
<1>10. LaneKept(frame'[h], held[h], TRUE)
  BY <1>8, <1>9, <1>11, ResumeLane
<1> QED BY <1>1, <1>2, <1>10

LEMMA RecordFailureLane ==
  ASSUME TypeOK, NEW h \in Home, LaneAt(h), LoadToRecordFailure(h)
  PROVE  LaneAt(h)'
<1> SUFFICES ASSUME ~disturbed'[h] PROVE LaneKept(frame'[h], held'[h], Refreshing(h)')
  BY LaneAfter
<1> DEFINE c == frame[h].command
           next == AfterFailure(Own(h).candidate, c.failureKind, c.reason, c.budget)
<1>1. /\ ~disturbed[h] /\ held'[h] = held[h] /\ Refreshing(h)' = Refreshing(h)
      /\ frame[h].todo # <<>> /\ Head(frame[h].todo) = "load"
      /\ Kind(frame[h]) = "record-failure"
  BY LoadFacts DEF LoadToRecordFailure
<1>2. held[h] # 0 => Refreshing(h)
  BY <1>1, LoadKind
<1>3. next \in Candidate
  <2>1. c # NoCommand
    BY <1>1 DEF Kind, NoCommand
  <2>2. /\ c.failureKind \in {"transient", "deterministic"}
        /\ c.reason \in Reason \cup {LeaseExpired} /\ c.budget \in Budget
    BY <1>1, <2>1, TypedFrame, CommandFields DEF Kind
  <2> QED BY <2>2, AfterFailureType, TypedFrame
<1>4. next.state # "refreshing"
  BY FailureEnd, TypedFrame
<1>5. Decide(h, next, IF held[h] # 0 THEN <<"target">> \o PersistFenced \o <<"release">>
                      ELSE Persist)
  BY DEF LoadToRecordFailure
<1> HIDE DEF next
<1>6. CASE held[h] # 0
  <2>1. Decide(h, next, ToVerifyLast) /\ ToVerifyLast \in Seq(Call)
    BY <1>5, <1>6, JoinedCalls, TodoTypes
  <2>2. PICK g \in Frame : Resume(h, g) /\ g.draft.candidate = next /\ g.todo = ToVerifyLast
    BY <1>3, <2>1, DecideLane
  <2>3. LaneKept(g, held[h], TRUE)
    BY <1>4, <1>6, <2>2, LeavingLane DEF Starts
  <2>4. LaneKept(frame'[h], held[h], TRUE)
    BY <2>2, <2>3, ResumeLane
  <2>5. Refreshing(h) = TRUE
    BY <1>2, <1>6 DEF Refreshing
  <2> QED BY <1>1, <2>4, <2>5
<1>7. CASE held[h] = 0
  <2>1. Decide(h, next, ToPersist) /\ ToPersist \in Seq(Call)
    BY <1>5, <1>7, FirstTodo, TodoTypes
  <2>2. PICK g \in Frame : /\ Resume(h, g) /\ g.draft.candidate = next /\ g.todo = ToPersist
                           /\ g.command = frame[h].command
    BY <1>3, <2>1, DecideLane
  <2>3. Kind(g) # "acquire-phase"
    BY <1>1, <2>2 DEF Kind
  <2>4. LaneKept(g, 0, Refreshing(h))
    BY <1>4, <2>2, <2>3, ApartLane DEF Starts
  <2>5. LaneKept(frame'[h], 0, Refreshing(h))
    BY <2>2, <2>4, ResumeLane
  <2> QED BY <1>1, <1>7, <2>5
<1> QED BY <1>6, <1>7

LEMMA RequeueLane ==
  ASSUME TypeOK, NEW h \in Home, LaneAt(h), LoadToRequeue(h)
  PROVE  LaneAt(h)'
<1> SUFFICES ASSUME ~disturbed'[h] PROVE LaneKept(frame'[h], held'[h], Refreshing(h)')
  BY LaneAfter
<1>1. /\ ~disturbed[h] /\ held'[h] = held[h] /\ Refreshing(h)' = Refreshing(h)
      /\ frame[h].todo # <<>> /\ Head(frame[h].todo) = "load"
      /\ Kind(frame[h]) = "requeue-retry" /\ held[h] \in Nat
  BY LoadFacts DEF LoadToRequeue
<1>2. (held[h] # 0 <=> Refreshing(h)) /\ frame[h].todo = ToLookPersist /\ frame[h].fence = 0
  BY <1>1, LoadKind
<1>3. CASE /\ Requeues(Own(h).candidate, frame[h].command.retryKind)
           /\ Decide(h, Plain("awaiting-pr-checks"), Tail(frame[h].todo))
  <2>1. held[h] = 0
    BY <1>1, <1>2, <1>3 DEF Requeues, Refreshing
  <2>2. /\ Plain("awaiting-pr-checks") \in Candidate
        /\ Plain("awaiting-pr-checks").state = "awaiting-pr-checks"
    BY PlainType DEF Plain
  <2>3. Decide(h, Plain("awaiting-pr-checks"), ToPersist) /\ ToPersist \in Seq(Call)
    BY <1>2, <1>3, TodoTails, TodoTypes
  <2>4. PICK g \in Frame : /\ Resume(h, g) /\ g.draft.candidate = Plain("awaiting-pr-checks")
                           /\ g.todo = ToPersist /\ g.command = frame[h].command
    BY <2>2, <2>3, DecideLane
  <2>5. Kind(g) # "acquire-phase" /\ ~Starts(g)
    BY <1>1, <2>2, <2>4 DEF Kind, Starts
  <2>6. LaneKept(g, 0, Refreshing(h))
    BY <2>4, <2>5, ApartLane
  <2> QED BY <1>1, <2>1, <2>4, <2>6, ResumeLane
<1>4. CASE Abort(h)
  BY <1>1, <1>2, <1>4, CleanupOf, AbortLane
<1> QED BY <1>3, <1>4 DEF LoadToRequeue

LEMMA MarkMergedLane ==
  ASSUME TypeOK, NEW h \in Home, LaneAt(h), LoadToMarkMerged(h)
  PROVE  LaneAt(h)'
<1> SUFFICES ASSUME ~disturbed'[h] PROVE LaneKept(frame'[h], held'[h], Refreshing(h)')
  BY LaneAfter
<1>1. /\ ~disturbed[h] /\ held'[h] = held[h] /\ Refreshing(h)' = Refreshing(h)
      /\ frame[h].todo # <<>> /\ Head(frame[h].todo) = "load"
      /\ Kind(frame[h]) = "mark-merged"
  BY LoadFacts DEF LoadToMarkMerged
<1>2. held[h] # 0 /\ Refreshing(h) = TRUE /\ frame[h].todo = ToLookLast
  <2>1. held[h] # 0 /\ Refreshing(h) /\ frame[h].todo = ToLookLast
    BY <1>1, LoadKind
  <2> QED BY <2>1 DEF Refreshing
<1>3. Decide(h, Plain("merged"), ToConfirmLast) /\ ToConfirmLast \in Seq(Call)
  <2>1. Decide(h, Plain("merged"), Tail(frame[h].todo))
    BY <1>2 DEF LoadToMarkMerged, Refreshing
  <2>2. Tail(frame[h].todo) = ToConfirmLast
    BY <1>2, TodoTails
  <2> QED BY <2>1, <2>2, TodoTypes
<1>4. Plain("merged") \in Candidate /\ Plain("merged").state = "merged"
  BY PlainType DEF Plain
<1>5. PICK g \in Frame : Resume(h, g) /\ g.draft.candidate = Plain("merged")
                         /\ g.todo = ToConfirmLast
  BY <1>3, <1>4, DecideLane
<1>6. LaneKept(g, held[h], TRUE)
  BY <1>2, <1>4, <1>5, LeavingLane DEF Starts
<1>7. LaneKept(frame'[h], held[h], TRUE)
  BY <1>5, <1>6, ResumeLane
<1> QED BY <1>1, <1>2, <1>7

LEMMA RecoverLane ==
  ASSUME TypeOK, NEW h \in Home, LaneAt(h), LoadToRecover(h)
  PROVE  LaneAt(h)'
<1> SUFFICES ASSUME ~disturbed'[h] PROVE LaneKept(frame'[h], held'[h], Refreshing(h)')
  BY LaneAfter
<1>1. /\ ~disturbed[h] /\ held'[h] = held[h] /\ Refreshing(h)' = Refreshing(h)
      /\ frame[h].todo # <<>> /\ Head(frame[h].todo) = "load"
      /\ Kind(frame[h]) = "recover-expired-target-lease"
  BY LoadFacts DEF LoadToRecover
<1>2. (held[h] # 0 <=> Refreshing(h)) /\ frame[h].todo = ToLookInspect /\ frame[h].fence = 0
  BY <1>1, LoadKind
<1>3. CASE Proceed(h)
  <2>1. PICK g \in Frame : /\ Resume(h, g) /\ g.todo = Tail(frame[h].todo)
                           /\ g.command = frame[h].command /\ g.fence = frame[h].fence
    BY <1>1, <1>3, ProceedFrame
  <2>2. LaneKept(g, held[h], Refreshing(h))
    BY <1>1, <1>2, <2>1, TodoTails DEF LaneKept, Untouched, Kind
  <2> QED BY <1>1, <2>1, <2>2, ResumeLane
<1>4. CASE Abort(h)
  BY <1>1, <1>2, <1>4, CleanupOf, AbortLane
<1> QED BY <1>3, <1>4 DEF LoadToRecover

\* The second look at the queue: a lane taken for nothing is given back.
LEMMA ReloadStepLane ==
  ASSUME TypeOK, NEW h \in Home, LaneAt(h), Reload(h)
  PROVE  LaneAt(h)'
<1> SUFFICES ASSUME ~disturbed'[h] PROVE LaneKept(frame'[h], held'[h], Refreshing(h)')
  BY LaneAfter
<1>1. /\ ~disturbed[h] /\ held'[h] = held[h] /\ Refreshing(h)' = Refreshing(h)
      /\ frame[h].todo # <<>> /\ Head(frame[h].todo) = "reload"
  BY DEF Reload, At, Refreshing, Own
<1>2. /\ Kind(frame[h]) = "acquire-phase" /\ held[h] # 0 /\ ~Refreshing(h)
      /\ frame[h].todo = ToReload /\ frame[h].fence # 0
  BY <1>1, ReloadLane DEF LaneAt
<1>3. CASE Decide(h, Plain("refreshing"), Tail(frame[h].todo))
  <2>1. Plain("refreshing") \in Candidate /\ Plain("refreshing").state = "refreshing"
    BY PlainType DEF Plain
  <2>2. Decide(h, Plain("refreshing"), ToConfirm) /\ ToConfirm \in Seq(Call)
    BY <1>2, <1>3, TodoTails, TodoTypes
  <2>3. PICK g \in Frame : /\ Resume(h, g) /\ g.draft.candidate = Plain("refreshing")
                           /\ g.todo = ToConfirm /\ g.command = frame[h].command
    BY <1>3, <2>1, <2>2, DecideLane
  <2>4. Kind(g) = "acquire-phase" /\ Starts(g)
    BY <1>2, <2>1, <2>3 DEF Kind, Starts
  <2>5. LaneKept(g, held[h], Refreshing(h))
    BY <1>2, <2>3, <2>4 DEF LaneKept, Taking
  <2> QED BY <1>1, <2>3, <2>5, ResumeLane
<1>4. CASE Abort(h)
  BY <1>1, <1>2, <1>4, CleanupOf, AbortLane
<1> QED BY <1>3, <1>4 DEF Reload

LEMMA WriteStepLane ==
  ASSUME TypeOK, NEW h \in Home, LaneAt(h), WriteManifest(h)
  PROVE  LaneAt(h)'
<1> SUFFICES ASSUME ~disturbed'[h] PROVE LaneKept(frame'[h], held'[h], Refreshing(h)')
  BY LaneAfter
<1>1. /\ ~disturbed[h] /\ held'[h] = held[h] /\ Proceed(h)
      /\ frame[h].todo # <<>> /\ Head(frame[h].todo) = "write"
  BY DEF WriteManifest, At
<1>2. Refreshing(h)' = Starts(frame[h])
  <2>1. manifest'[WorkflowOf[h]] = frame[h].draft
    BY TypedFrame DEF WriteManifest, Store, TypeOK, Manifests
  <2> QED BY <2>1 DEF Refreshing, Own, Starts
<1>3. \/ Tail(frame[h].todo) = <<>> /\ (held[h] # 0 <=> Starts(frame[h]))
      \/ Tail(frame[h].todo) = ToRelease /\ ~Starts(frame[h])
  BY <1>1, WriteLane DEF LaneAt
<1>4. PICK g \in Frame : Resume(h, g) /\ g.todo = Tail(frame[h].todo)
  BY <1>1, ProceedFrame
<1>5. LaneKept(g, held[h], Starts(frame[h]))
  <2>1. CASE Tail(frame[h].todo) = <<>> /\ (held[h] # 0 <=> Starts(frame[h]))
    BY <1>4, <2>1, NothingLeft
  <2>2. CASE Tail(frame[h].todo) = ToRelease /\ ~Starts(frame[h])
    BY <1>4, <2>2 DEF LaneKept, Giving
  <2> QED BY <1>3, <2>1, <2>2
<1>6. LaneKept(frame'[h], held[h], Starts(frame[h]))
  BY <1>4, <1>5, ResumeLane
<1> QED BY <1>1, <1>2, <1>6

LEMMA NewCommandLane ==
  ASSUME TypeOK, NEW h \in Home, LaneAt(h), NEW c \in Offered, Transition(h, c)
  PROVE  LaneAt(h)'
<1> SUFFICES ASSUME ~disturbed'[h] PROVE LaneKept(frame'[h], held'[h], Refreshing(h)')
  BY LaneAfter
<1>1. /\ ~disturbed[h] /\ held'[h] = held[h] /\ Refreshing(h)' = Refreshing(h)
      /\ frame[h].todo = <<>>
  BY IdleFrame DEF Transition, Refreshing, Own
<1>2. held[h] # 0 <=> Refreshing(h)
  BY <1>1, NothingLeft DEF LaneAt
<1> DEFINE g == [Idle EXCEPT !.command = c, !.todo = Calls(c.kind)]
<1>3. frame'[h] = g
  BY DEF Transition, TypeOK
<1>4. g.command = c /\ g.todo = Calls(c.kind) /\ g.fence = 0
  BY DEF Idle
<1>6. c.kind \in Kinds
  <2>1. c \in Command
    BY OfferedAssumption
  <2> QED BY <2>1 DEF Command, Kinds
<1> HIDE DEF g
<1>5. LaneKept(g, held[h], Refreshing(h))
  <2>1. CASE c.kind = "record-failure"
    BY <1>2, <1>4, <2>1, FirstTodo DEF LaneKept, Failing, Kind
  <2>2. CASE c.kind # "record-failure"
    <3>1. Untouched(g, held[h], Refreshing(h))
      BY <1>2, <1>4, <1>6, <2>2, FirstTodo DEF Untouched, Kind, Kinds
    <3> QED BY <3>1 DEF LaneKept
  <2> QED BY <2>1, <2>2
<1> QED BY <1>1, <1>3, <1>5

(***************************************************************************)
(* Every step                                                              *)
(***************************************************************************)

\* A fault happens to a home that is disturbed by it.
LEMMA FaultLane ==
  ASSUME TypeOK, NEW h \in Home, CallThrows(h) \/ AnswerLost(h) \/ Crash(h)
  PROVE  LaneAt(h)'
BY DEF CallThrows, AnswerLost, Crash, Disturb, TypeOK, LaneAt

LEMMA RunLane ==
  ASSUME TypeOK, NEW h \in Home, LaneAt(h), Run(h)
  PROVE  LaneAt(h)'
<1>1. CASE Load(h)
  BY <1>1, ObserveLane, LookLane, LookReleaseLane, RecordFailureLane, RequeueLane,
     MarkMergedLane, RecoverLane DEF Load
<1>2. CASE ~Load(h)
  BY <1>2, WorkflowAuthorityLane, HeldLeaseLane, FenceStepLane, AcquireStepLane,
     ReleaseStepLane, RenewStepLane, InspectStepLane, ReloadStepLane, WriteStepLane,
     FaultLane DEF Run
<1> QED BY <1>1, <1>2

\* A home's step leaves the others' commands, leases and candidates.
LEMMA OthersLane ==
  ASSUME TypeOK, OneHomePerWorkflow, NEW h \in Home, NEW k \in Home, k # h,
         Run(h) \/ Crash(h) \/ \E c \in Offered : Transition(h, c)
  PROVE  /\ frame'[k] = frame[k] /\ held'[k] = held[k] /\ disturbed'[k] = disturbed[k]
         /\ Refreshing(k)' = Refreshing(k)
<1>1. frame'[k] = frame[k]
  <2>1. CASE Run(h)
    <3>1. Passes(h) \/ Decides(h)
      BY <2>1, RunCases DEF Quiet, Writes
    <3> QED BY <3>1 DEF Passes, Decides, OthersKept
  <2>2. CASE Crash(h) \/ \E c \in Offered : Transition(h, c)
    BY <2>2 DEF Crash, Transition, TypeOK
  <2> QED BY <2>1, <2>2
<1>2. Refreshing(k)' = Refreshing(k)
  <2>1. CASE Run(h)
    <3>1. manifest' = manifest \/ manifest' = [manifest EXCEPT ![WorkflowOf[h]] = frame[h].draft]
      BY <2>1, RunCases DEF Quiet, Writes
    <3>2. WorkflowOf[k] # WorkflowOf[h] /\ WorkflowOf[k] \in Workflow
      BY TypedFrame DEF OneHomePerWorkflow
    <3>3. Own(k)' = Own(k)
      BY <3>1, <3>2 DEF Own, TypeOK, Manifests
    <3> QED BY <3>3 DEF Refreshing
  <2>2. CASE Crash(h) \/ \E c \in Offered : Transition(h, c)
    BY <2>2 DEF Crash, Transition, Refreshing, Own
  <2> QED BY <2>1, <2>2
<1>3. held'[k] = held[k] /\ disturbed'[k] = disturbed[k]
  <2>1. CASE Run(h)
    <3>1. CASE VerifyWorkflowAuthority(h) \/ VerifyHeldLease(h) \/ VerifyFence(h) \/ AcquireLane(h)
      BY <3>1 DEF VerifyWorkflowAuthority, VerifyHeldLease, VerifyFence, AcquireLane, Disturb, TypeOK
    <3>2. CASE ReleaseLane(h) \/ RenewLane(h) \/ InspectLane(h)
      BY <3>2 DEF ReleaseLane, RenewLane, InspectLane, Disturb, TypeOK
    <3>3. CASE Load(h)
      BY <3>3 DEF Load, LoadToObserve, LoadToAcquire, LoadToRelease, LoadToRecordFailure,
                  LoadToRequeue, LoadToMarkMerged, LoadToRecover
    <3>4. CASE Reload(h) \/ WriteManifest(h) \/ CallThrows(h)
      BY <3>4 DEF Reload, WriteManifest, CallThrows, Disturb, TypeOK
    <3>5. CASE AnswerLost(h)
      BY <3>5 DEF AnswerLost, Disturb, TypeOK
    <3> QED BY <2>1, <3>1, <3>2, <3>3, <3>4, <3>5 DEF Run
  <2>2. CASE Crash(h) \/ \E c \in Offered : Transition(h, c)
    BY <2>2 DEF Crash, Transition, Disturb, TypeOK
  <2> QED BY <2>1, <2>2
<1> QED BY <1>1, <1>2, <1>3

LEMMA LaneStep ==
  ASSUME OneHomePerWorkflow
  PROVE  TypeOK /\ LaneInv /\ [Next]_vars => LaneInv'
<1> SUFFICES ASSUME TypeOK, LaneInv, [Next]_vars PROVE LaneInv'
  OBVIOUS
<1>0. \A k \in Home : LaneAt(k)
  BY DEF LaneInv, LaneAt
<1> SUFFICES ASSUME NEW k \in Home PROVE LaneAt(k)'
  BY DEF LaneInv, LaneAt
<1>1. ASSUME NEW h \in Home, Run(h) \/ Crash(h) \/ \E c \in Offered : Transition(h, c)
      PROVE  LaneAt(k)'
  <2>1. CASE k = h
    BY <1>0, <1>1, <2>1, RunLane, NewCommandLane, FaultLane
  <2>2. CASE k # h
    <3>1. /\ frame'[k] = frame[k] /\ held'[k] = held[k] /\ disturbed'[k] = disturbed[k]
          /\ Refreshing(k)' = Refreshing(k)
      BY <1>1, <2>2, OthersLane
    <3> QED BY <1>0, <3>1 DEF LaneAt
  <2> QED BY <2>1, <2>2
<1>2. ASSUME UNCHANGED <<manifest, frame, held, disturbed>>
      PROVE  LaneAt(k)'
  BY <1>0, <1>2 DEF LaneAt, Refreshing, Own
<1>3. ASSUME NEW h \in Home, Claim(h) PROVE LaneAt(k)'
  BY <1>2, <1>3 DEF Claim
<1>4. ASSUME NEW w \in Workflow, OwnerEnds(w) PROVE LaneAt(k)'
  BY <1>2, <1>4 DEF OwnerEnds
<1>5. CASE LaneRunsOut \/ Tick \/ UNCHANGED vars
  BY <1>2, <1>5 DEF LaneRunsOut, Tick, vars
<1> QED BY <1>1, <1>3, <1>4, <1>5 DEF Next, World

LEMMA InitLane == Init => LaneInv
<1> SUFFICES ASSUME Init, NEW h \in Home PROVE LaneKept(frame[h], held[h], Refreshing(h))
  BY DEF LaneInv
<1>1. frame[h] = Idle /\ held[h] = 0
  BY DEF Init
<1>2. ~Refreshing(h)
  <2>1. WorkflowOf[h] \in Workflow
    BY HomesAssumption
  <2>2. Own(h).candidate \in {Plain("awaiting-pr-checks"), MergeReady(0)}
    BY <2>1 DEF Init, Own
  <2> QED BY <2>2 DEF Refreshing, Plain, MergeReady
<1> QED BY <1>1, <1>2, IdleFrame, NothingLeft

LEMMA LaneFromInv == LaneInv => LaneFollowsCandidate
<1> SUFFICES ASSUME LaneInv, NEW h \in Home, frame[h] = Idle, ~disturbed[h]
             PROVE  held[h] # 0 <=> Refreshing(h)
  BY DEF LaneFollowsCandidate, Refreshing
<1>1. LaneKept(frame[h], held[h], Refreshing(h)) /\ frame[h].todo = <<>>
  BY IdleFrame DEF LaneInv
<1> QED BY <1>1, NothingLeft

\* What each of the nine commands has called, and what it has still to call, says
\* whether its home has the lane and whether its candidate is refreshing.
THEOREM LaneInductive == ASSUME OneHomePerWorkflow PROVE Spec => []LaneInv
<1>1. Init => LaneInv
  BY InitLane
<1>2. TypeOK /\ LaneInv /\ [Next]_vars => LaneInv'
  BY LaneStep
<1> QED BY <1>1, <1>2, QueueTypeCorrect, PTL DEF Spec

\* No command returns with the lane taken for nothing ("must never intentionally pin
\* the serial lane", target-branch-queue.ts:941) or leaves a refreshing candidate
\* without it, unless a call threw, the lease was found gone, or the home was told
\* to give it up.
THEOREM LaneFollows == ASSUME OneHomePerWorkflow PROVE Spec => []LaneFollowsCandidate
BY LaneInductive, LaneFromInv, PTL

(***************************************************************************)
(* The lane and the queue                                                  *)
(***************************************************************************)

\* A command that takes the lane looks at the queue a second time while it has the
\* lane, and writes only if nobody is ahead then (a is who has been since it took it).
Lined(f, a) ==
  Kind(f) = "acquire-phase" =>
    \/ f.todo \in {<<>>, ToTake, ToLook, ToAcquire, ToVerify, ToReload, ToRelease}
    \/ f.todo \in {ToConfirm, ToFence, ToWrite} /\ a = {}

LineAt(h) == Lined(frame[h], ahead[h]) /\ ahead[h] \subseteq Ahead(manifest, WorkflowOf[h])

LineInv == \A h \in Home : LineAt(h)

LEMMA LineTail ==
  ASSUME NEW f, NEW a, Lined(f, a), f.todo # <<>>, Head(f.todo) # "reload",
         NEW g, g.command = f.command, g.todo = Tail(f.todo)
  PROVE  Lined(g, a)
<1> SUFFICES ASSUME Kind(f) = "acquire-phase"
             PROVE  Lined(g, a)
  BY DEF Lined, Kind
<1>1. CASE f.todo \in {ToTake, ToLook, ToAcquire, ToVerify, ToReload, ToRelease}
  <2>1. f.todo # ToReload
    BY TodoHeads
  <2> QED BY <1>1, <2>1, TodoTails, ZenonT(60) DEF Lined
<1>2. CASE f.todo \in {ToConfirm, ToFence, ToWrite} /\ a = {}
  BY <1>2, TodoTails DEF Lined
<1> QED BY <1>1, <1>2 DEF Lined

LEMMA LineFewer == ASSUME NEW f, NEW a, NEW b \in SUBSET a, Lined(f, a) PROVE Lined(f, b)
BY DEF Lined

LEMMA LineOver ==
  ASSUME NEW f, NEW a, f.todo = <<>> \/ f.todo = ToRelease \/ Kind(f) # "acquire-phase"
  PROVE  Lined(f, a)
BY DEF Lined

LEMMA ResumeLine ==
  ASSUME TypeOK, NEW h \in Home, NEW g \in Frame, Resume(h, g), NEW a, Lined(g, a)
  PROVE  Lined(frame'[h], a)
<1>1. CASE frame'[h] = g
  BY <1>1
<1>2. CASE frame'[h] = Idle
  BY <1>2, IdleFrame, LineOver
<1> QED BY <1>1, <1>2, ResumeFrame

LEMMA AbortLine ==
  ASSUME TypeOK, NEW h \in Home, NEW a,
         Resume(h, [frame[h] EXCEPT !.todo = Cleanup(h), !.draft = NoDraft])
  PROVE  Lined(frame'[h], a)
<1> DEFINE g == [frame[h] EXCEPT !.todo = Cleanup(h), !.draft = NoDraft]
<1>1. g \in Frame
  BY CleanupFrame
<1>2. g.todo = Cleanup(h)
  <2>1. frame[h] \in Frame
    BY TypedFrame
  <2> QED BY <2>1 DEF Frame
<1>3. Resume(h, g)
  OBVIOUS
<1> HIDE DEF g
<1>4. Lined(g, a)
  BY <1>2, LineOver DEF Cleanup, ToRelease
<1> QED BY <1>1, <1>3, <1>4, ResumeLine

LEMMA ProceedLine ==
  ASSUME TypeOK, NEW h \in Home, LineAt(h), frame[h].todo # <<>>, Head(frame[h].todo) # "reload",
         Proceed(h) \/ \E n \in Nat : Resume(h, [frame[h] EXCEPT !.todo = Tail(@), !.fence = n])
  PROVE  Lined(frame'[h], ahead[h])
<1>1. PICK g \in Frame : /\ Resume(h, g) /\ g.command = frame[h].command
                         /\ g.todo = Tail(frame[h].todo)
  <2>1. CASE Proceed(h)
    BY <2>1, ProceedFrame
  <2>2. CASE \E n \in Nat : Resume(h, [frame[h] EXCEPT !.todo = Tail(@), !.fence = n])
    BY <2>2, FencedFrame
  <2> QED BY <2>1, <2>2
<1>2. Lined(g, ahead[h])
  BY <1>1, LineTail DEF LineAt
<1> QED BY <1>1, <1>2, ResumeLine

LEMMA SameCommand ==
  ASSUME TypeOK, NEW h \in Home, NEW m, NEW t,
         Resume(h, [frame[h] EXCEPT !.draft = m, !.todo = t])
  PROVE  frame'[h] = Idle \/ frame'[h].command = frame[h].command
<1>1. frame[h] \in Frame
  BY TypedFrame
<1>2. [frame[h] EXCEPT !.draft = m, !.todo = t].command = frame[h].command
  BY <1>1 DEF Frame
<1> QED BY <1>2 DEF Resume, TypeOK

\* The home's own part of a step that writes nothing.
Aligned(h) == Lined(frame'[h], ahead'[h]) /\ manifest' = manifest
              /\ \/ ahead'[h] \subseteq ahead[h]
                 \/ ahead'[h] = Ahead(manifest, WorkflowOf[h])

LEMMA AlignedLine ==
  ASSUME NEW h \in Home, LineAt(h), Aligned(h)
  PROVE  LineAt(h)'
BY DEF LineAt, Aligned, Ahead, InQueue, Before

LEMMA AbortAligned ==
  ASSUME TypeOK, NEW h \in Home, Abort(h), manifest' = manifest
  PROVE  Aligned(h)
<1>1. ahead'[h] = {}
  BY DEF Abort, TypeOK
<1> QED BY <1>1, AbortLine DEF Abort, Aligned

LEMMA ProceedAligned ==
  ASSUME TypeOK, NEW h \in Home, LineAt(h), frame[h].todo # <<>>, Head(frame[h].todo) # "reload",
         Proceed(h) \/ \E n \in Nat : Resume(h, [frame[h] EXCEPT !.todo = Tail(@), !.fence = n]),
         manifest' = manifest, ahead' = ahead
  PROVE  Aligned(h)
BY ProceedLine DEF Aligned

LEMMA LeaseStepsLine ==
  ASSUME TypeOK, NEW h \in Home, LineAt(h),
         \/ VerifyWorkflowAuthority(h) \/ VerifyHeldLease(h) \/ VerifyFence(h)
         \/ ReleaseLane(h) \/ RenewLane(h)
  PROVE  Aligned(h)
<1>0. held[h] \in Nat
  BY DEF TypeOK
<1>1. CASE VerifyWorkflowAuthority(h)
  BY <1>1, AbortAligned, ProceedAligned DEF VerifyWorkflowAuthority, At
<1>2. CASE VerifyHeldLease(h)
  BY <1>0, <1>2, AbortAligned, ProceedAligned DEF VerifyHeldLease, At
<1>3. CASE VerifyFence(h)
  BY <1>3, AbortAligned, ProceedAligned DEF VerifyFence, At
<1>4. CASE ReleaseLane(h)
  BY <1>4, AbortAligned, ProceedAligned DEF ReleaseLane, At
<1>5. CASE RenewLane(h)
  BY <1>5, AbortAligned, ProceedAligned DEF RenewLane, At
<1> QED BY <1>1, <1>2, <1>3, <1>4, <1>5

LEMMA AcquireLine ==
  ASSUME TypeOK, NEW h \in Home, LineAt(h), AcquireLane(h)
  PROVE  Aligned(h)
<1>1. CASE Abort(h)
  BY <1>1, AbortAligned DEF AcquireLane
<1>2. CASE Proceed(h) /\ ahead' = [ahead EXCEPT ![h] = Ahead(manifest, WorkflowOf[h])]
  <2>1. ahead'[h] = Ahead(manifest, WorkflowOf[h])
    BY <1>2 DEF TypeOK
  <2>2. frame[h].todo # <<>> /\ Head(frame[h].todo) = "acquire"
    BY DEF AcquireLane, At
  <2>3. PICK g \in Frame : /\ Resume(h, g) /\ g.command = frame[h].command
                           /\ g.todo = Tail(frame[h].todo)
    BY <1>2, <2>2, ProceedFrame
  <2>4. Lined(g, ahead'[h])
    <3>1. CASE Kind(frame[h]) = "acquire-phase"
      <4>1. frame[h].todo = ToAcquire
        BY <2>2, <3>1, TodoHeads DEF LineAt, Lined
      <4> QED BY <2>3, <4>1, TodoTails DEF Lined
    <3>2. CASE Kind(frame[h]) # "acquire-phase"
      BY <2>3, <3>2, LineOver DEF Kind
    <3> QED BY <3>1, <3>2
  <2>5. Lined(frame'[h], ahead'[h])
    BY <2>3, <2>4, ResumeLine
  <2> QED BY <2>1, <2>5 DEF AcquireLane, Aligned
<1> QED BY <1>1, <1>2 DEF AcquireLane

LEMMA InspectLine ==
  ASSUME TypeOK, NEW h \in Home, LineAt(h), InspectLane(h)
  PROVE  Aligned(h)
<1>1. CASE Abort(h)
  BY <1>1, AbortAligned DEF InspectLane
<1>2. CASE /\ Resume(h, [frame[h] EXCEPT !.command = RecoverFailure,
                                         !.todo = Calls("record-failure")])
           /\ ahead' = ahead
  <2> DEFINE g == [frame[h] EXCEPT !.command = RecoverFailure,
                                   !.todo = Calls("record-failure")]
  <2>1. g \in Frame /\ Kind(g) # "acquire-phase"
    <3>1. RecoverFailure \in Command /\ RecoverFailure.kind = "record-failure"
      BY NumbersAssumption DEF Command, RecoverFailure
    <3>2. frame[h] \in Frame /\ Calls("record-failure") \in Seq(Call)
      BY TypedFrame, CallsType DEF Kinds
    <3>3. g.command = RecoverFailure
      BY <3>2 DEF Frame
    <3>4. g \in Frame
      BY <3>1, <3>2 DEF Frame, Call
    <3> HIDE DEF g
    <3> QED BY <3>1, <3>3, <3>4 DEF Kind
  <2>2. Resume(h, g)
    BY <1>2
  <2> HIDE DEF g
  <2>3. Lined(g, ahead[h])
    BY <2>1, LineOver
  <2>4. Lined(frame'[h], ahead[h])
    BY <2>1, <2>2, <2>3, ResumeLine
  <2> QED BY <1>2, <2>4 DEF InspectLane, Aligned
<1> QED BY <1>1, <1>2 DEF InspectLane, RecoverFailure

LEMMA LoadLine ==
  ASSUME TypeOK, NEW h \in Home, LineAt(h), Load(h)
  PROVE  Aligned(h)
<1>0. /\ manifest' = manifest
      /\ frame[h].todo # <<>> /\ Head(frame[h].todo) = "load"
  BY DEF Load, LoadToObserve, LoadToAcquire, LoadToRelease, LoadToRecordFailure,
         LoadToRequeue, LoadToMarkMerged, LoadToRecover, AtFor, At
<1>1. CASE Abort(h)
  BY <1>0, <1>1, AbortAligned
<1>2. CASE Proceed(h) /\ ahead' = ahead
  BY <1>0, <1>2, ProceedAligned
<1>3. CASE LoadToAcquire(h) \/ LoadToRecover(h)
  BY <1>1, <1>2, <1>3 DEF LoadToAcquire, LoadToRecover
<1>4. ASSUME NEW m, NEW t, Resume(h, [frame[h] EXCEPT !.draft = m, !.todo = t]),
             Kind(frame[h]) # "acquire-phase", ahead' = ahead
      PROVE  Aligned(h)
  <2>1. frame'[h] = Idle \/ Kind(frame'[h]) = Kind(frame[h])
    BY <1>4, SameCommand DEF Kind
  <2>2. Lined(frame'[h], ahead[h])
    BY <1>4, <2>1, IdleFrame, LineOver
  <2> QED BY <1>0, <1>4, <2>2 DEF Aligned
<1>5. CASE LoadToObserve(h)
  BY <1>2, <1>4, <1>5 DEF LoadToObserve, Decide, AtFor, Kind
<1>6. CASE LoadToRelease(h)
  <2>1. \/ Abort(h)
        \/ /\ ahead' = ahead
           /\ \E m : Resume(h, [frame[h] EXCEPT !.draft = m, !.todo = Tail(frame[h].todo)])
    BY <1>6 DEF LoadToRelease
  <2> QED BY <1>1, <1>4, <1>6, <2>1 DEF LoadToRelease, AtFor, Kind
<1>7. CASE LoadToRecordFailure(h)
  BY <1>4, <1>7 DEF LoadToRecordFailure, Decide, AtFor, Kind
<1>8. CASE LoadToRequeue(h) \/ LoadToMarkMerged(h)
  BY <1>1, <1>4, <1>8 DEF LoadToRequeue, LoadToMarkMerged, Decide, AtFor, Kind
<1> QED BY <1>3, <1>5, <1>6, <1>7, <1>8 DEF Load

\* Nobody is ahead at the second look, so nobody was since the lane was taken.
LEMMA ReloadLine ==
  ASSUME TypeOK, NEW h \in Home, LineAt(h), Reload(h)
  PROVE  Aligned(h)
<1>1. CASE Abort(h)
  BY <1>1, AbortAligned DEF Reload
<1>2. CASE /\ Eligible(manifest, WorkflowOf[h], frame[h].command.phase)
           /\ Decide(h, Plain("refreshing"), Tail(frame[h].todo)) /\ ahead' = ahead
  <2>1. ahead[h] = {}
    BY <1>2 DEF LineAt, Eligible
  <2>2. frame[h].todo # <<>> /\ Head(frame[h].todo) = "reload"
    BY DEF Reload, At
  <2> DEFINE t == Tail(frame[h].todo)
             c == Plain("refreshing")
  <2>3. c \in Candidate /\ t \in Seq(Call) /\ Decide(h, c, t)
    BY <1>2, <2>2, PlainType, TailCalls
  <2> HIDE DEF t, c
  <2>7. \E g \in Frame : Resume(h, g) /\ g.command = frame[h].command /\ g.todo = t
    BY <2>3, DecideLane
  <2>4. PICK g \in Frame : /\ Resume(h, g) /\ g.command = frame[h].command
                           /\ g.todo = Tail(frame[h].todo)
    BY <2>7 DEF t
  <2>5. Lined(g, {})
    <3>1. CASE Kind(frame[h]) = "acquire-phase"
      <4>1. frame[h].todo = ToReload
        BY <2>2, <3>1, TodoHeads DEF LineAt, Lined
      <4> QED BY <2>4, <4>1, TodoTails DEF Lined
    <3>2. CASE Kind(frame[h]) # "acquire-phase"
      BY <2>4, <3>2, LineOver DEF Kind
    <3> QED BY <3>1, <3>2
  <2>6. Lined(frame'[h], {})
    BY <2>4, <2>5, ResumeLine
  <2> QED BY <1>2, <2>1, <2>6 DEF Reload, Aligned
<1> QED BY <1>1, <1>2 DEF Reload

LEMMA NewCommandLine ==
  ASSUME TypeOK, NEW h \in Home, LineAt(h), NEW c \in Offered, Transition(h, c)
  PROVE  Aligned(h)
<1> DEFINE g == [Idle EXCEPT !.command = c, !.todo = Calls(c.kind)]
<1>1. frame'[h] = g
  BY DEF Transition, TypeOK
<1>2. g.command = c /\ g.todo = Calls(c.kind)
  BY DEF Idle
<1> HIDE DEF g
<1>3. Lined(g, ahead[h])
  BY <1>2, FirstTodo DEF Lined, Kind
<1> QED BY <1>1, <1>3 DEF Transition, Aligned

LEMMA FaultLine ==
  ASSUME TypeOK, NEW h \in Home, LineAt(h), CallThrows(h) \/ Crash(h)
  PROVE  Aligned(h)
<1>1. CASE CallThrows(h)
  BY <1>1, AbortAligned DEF CallThrows
<1>2. CASE Crash(h)
  BY <1>2, IdleFrame, LineOver DEF Crash, Aligned, TypeOK
<1> QED BY <1>1, <1>2

\* A write of the home, whose answer may be lost.
Rewrites(h) == Store(h, frame[h].draft) /\ At(h, "write") /\ Lined(frame'[h], {})

LEMMA WriteLine ==
  ASSUME TypeOK, NEW h \in Home, LineAt(h), WriteManifest(h) \/ AnswerLost(h)
  PROVE  Aligned(h) \/ Rewrites(h)
<1>1. CASE WriteManifest(h)
  <2>1. frame[h].todo # <<>> /\ Head(frame[h].todo) = "write" /\ Proceed(h)
    BY <1>1 DEF WriteManifest, At
  <2>2. Lined(frame'[h], ahead[h])
    BY <2>1, ProceedLine
  <2> QED BY <1>1, <2>2, LineFewer DEF WriteManifest, Rewrites
<1>2. CASE AnswerLost(h) /\ Abort(h)
  <2>1. manifest' = manifest \/ Store(h, frame[h].draft)
    BY <1>2 DEF AnswerLost
  <2>2. CASE manifest' = manifest
    BY <1>2, <2>2, AbortAligned
  <2>3. CASE ~(manifest' = manifest)
    <3>1. Store(h, frame[h].draft) /\ At(h, "write")
          /\ Resume(h, [frame[h] EXCEPT !.todo = Cleanup(h), !.draft = NoDraft])
      BY <1>2, <2>3 DEF AnswerLost
    <3> QED BY <3>1, AbortLine DEF Rewrites
  <2> QED BY <2>2, <2>3
<1>3. CASE AnswerLost(h) /\ ~Abort(h)
  <2>1. Store(h, frame[h].draft) /\ At(h, "write")
        /\ Resume(h, [frame[h] EXCEPT !.todo = Cleanup(h), !.draft = NoDraft])
    BY <1>3 DEF AnswerLost
  <2> QED BY <2>1, AbortLine DEF Rewrites
<1> QED BY <1>1, <1>2, <1>3

LEMMA HomeLine ==
  ASSUME TypeOK, NEW h \in Home, LineAt(h),
         Run(h) \/ Crash(h) \/ \E c \in Offered : Transition(h, c)
  PROVE  Aligned(h) \/ Rewrites(h)
<1>1. CASE Run(h)
  BY <1>1, LeaseStepsLine, AcquireLine, InspectLine, LoadLine, ReloadLine, FaultLine, WriteLine
     DEF Run
<1>2. CASE Crash(h)
  BY <1>2, FaultLine
<1>3. CASE \E c \in Offered : Transition(h, c)
  BY <1>3, NewCommandLine
<1> QED BY <1>1, <1>2, <1>3

LEMMA OthersFrame ==
  ASSUME TypeOK, NEW h \in Home, NEW k \in Home, k # h,
         Run(h) \/ Crash(h) \/ \E c \in Offered : Transition(h, c)
  PROVE  frame'[k] = frame[k]
<1>1. CASE Run(h)
  <2>1. Passes(h) \/ Decides(h)
    BY <1>1, RunCases DEF Quiet, Writes
  <2> QED BY <2>1 DEF Passes, Decides, OthersKept
<1>2. CASE Crash(h) \/ \E c \in Offered : Transition(h, c)
  BY <1>2 DEF Crash, Transition, TypeOK
<1> QED BY <1>1, <1>2

\* Another home's write takes homes out of the queue ahead of this one, and none in.
LEMMA OthersLine ==
  ASSUME TypeOK, NEW h \in Home, NEW k \in Home, k # h, LineAt(k),
         Run(h) \/ Crash(h) \/ \E c \in Offered : Transition(h, c)
  PROVE  LineAt(k)'
<1>1. frame'[k] = frame[k]
  BY OthersFrame
<1>2. \/ ahead'[k] = ahead[k] /\ manifest' = manifest
      \/ ahead'[k] = ahead[k] \cap Ahead(manifest', WorkflowOf[k])
  <2>1. CASE Abort(h) /\ manifest' = manifest
    BY <2>1 DEF Abort, TypeOK
  <2>2. CASE ahead' = ahead /\ manifest' = manifest
    BY <2>2
  <2>3. CASE \E m : Store(h, m)
    BY <2>3 DEF Store
  <2>4. CASE Run(h) /\ ~AcquireLane(h)
    <3>1. CASE VerifyWorkflowAuthority(h) \/ VerifyHeldLease(h) \/ VerifyFence(h)
               \/ ReleaseLane(h) \/ RenewLane(h) \/ InspectLane(h)
      BY <2>1, <2>2, <3>1 DEF VerifyWorkflowAuthority, VerifyHeldLease, VerifyFence,
         ReleaseLane, RenewLane, InspectLane
    <3>2. CASE Load(h)
      BY <2>1, <2>2, <3>2 DEF Load, LoadToObserve, LoadToAcquire, LoadToRelease,
         LoadToRecordFailure, LoadToRequeue, LoadToMarkMerged, LoadToRecover
    <3>3. CASE Reload(h) \/ WriteManifest(h) \/ CallThrows(h) \/ AnswerLost(h)
      BY <2>1, <2>2, <2>3, <3>3 DEF Reload, WriteManifest, CallThrows, AnswerLost
    <3> QED BY <2>4, <3>1, <3>2, <3>3 DEF Run
  <2>5. CASE AcquireLane(h)
    BY <2>1, <2>5 DEF AcquireLane, TypeOK
  <2>6. CASE Crash(h) \/ \E c \in Offered : Transition(h, c)
    BY <2>2, <2>6 DEF Crash, Transition, TypeOK
  <2> QED BY <2>4, <2>5, <2>6
<1>3. ahead'[k] \subseteq ahead[k] /\ ahead'[k] \subseteq Ahead(manifest', WorkflowOf[k])
  BY <1>2 DEF LineAt
<1>4. Lined(frame'[k], ahead'[k])
  BY <1>1, <1>3, LineFewer DEF LineAt
<1> QED BY <1>3, <1>4 DEF LineAt, Ahead, InQueue, Before

LEMMA LineStep == TypeOK /\ LineInv /\ [Next]_vars => LineInv'
<1> SUFFICES ASSUME TypeOK, LineInv, [Next]_vars, NEW k \in Home PROVE LineAt(k)'
  BY DEF LineInv
<1>0. LineAt(k)
  BY DEF LineInv
<1>1. ASSUME NEW h \in Home, Run(h) \/ Crash(h) \/ \E c \in Offered : Transition(h, c)
      PROVE  LineAt(k)'
  <2>1. CASE k = h
    <3>1. CASE Aligned(h)
      BY <1>0, <2>1, <3>1, AlignedLine
    <3>2. CASE Rewrites(h)
      <4>1. ahead'[k] = {} /\ Lined(frame'[k], {})
        BY <2>1, <3>2 DEF Rewrites, Store
      <4> QED BY <4>1 DEF LineAt
    <3> QED BY <1>0, <1>1, <2>1, <3>1, <3>2, HomeLine
  <2>2. CASE k # h
    BY <1>0, <1>1, <2>2, OthersLine
  <2> QED BY <2>1, <2>2
<1>2. ASSUME UNCHANGED <<manifest, frame, ahead>>
      PROVE  LineAt(k)'
  BY <1>0, <1>2 DEF LineAt, Ahead, InQueue, Before
<1>3. ASSUME NEW h \in Home, Claim(h) PROVE LineAt(k)'
  BY <1>2, <1>3 DEF Claim
<1>4. ASSUME NEW w \in Workflow, OwnerEnds(w) PROVE LineAt(k)'
  BY <1>2, <1>4 DEF OwnerEnds
<1>5. CASE LaneRunsOut \/ Tick \/ UNCHANGED vars
  BY <1>2, <1>5 DEF LaneRunsOut, Tick, vars
<1> QED BY <1>1, <1>3, <1>4, <1>5 DEF Next, World

LEMMA InitLine == Init => LineInv
<1> SUFFICES ASSUME Init, NEW h \in Home PROVE LineAt(h)
  BY DEF LineInv
<1>1. frame[h] = Idle /\ ahead[h] = {}
  BY DEF Init
<1> QED BY <1>1, IdleFrame, LineOver DEF LineAt

\* A home whose command writes its candidate as refreshing has not been behind anybody
\* ever since it took the lane, whatever the other homes write meanwhile, and whether
\* or not workflows have one home each.
THEOREM QueueIsFifo == Spec => NoOvertaking
<1>1. Init => LineInv
  BY InitLine
<1>2. TypeOK /\ LineInv /\ [Next]_vars => LineInv'
  BY LineStep
<1>3. LineInv => \A h \in Home : AtFor(h, "write", "acquire-phase") => ahead[h] = {}
  BY TodoHeads DEF LineInv, LineAt, Lined, AtFor, At, Kind
<1>4. TypeOK /\ LineInv /\ [Next]_vars
      => [\A h \in Home :
            (/\ AtFor(h, "write", "acquire-phase")
             /\ frame'[h] = Idle
             /\ manifest' # manifest)
            => ahead[h] = {}]_vars
  BY <1>3
<1> QED BY <1>1, <1>2, <1>4, QueueTypeCorrect, PTL DEF Spec, NoOvertaking
=============================================================================
