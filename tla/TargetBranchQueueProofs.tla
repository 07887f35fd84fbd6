----------------------- MODULE TargetBranchQueueProofs -----------------------
(***************************************************************************)
(* Theorems about TargetBranchQueue, for every set of workflows, homes,    *)
(* commits and commands, and for every bound.  A command decides what it   *)
(* will write before it writes, several awaited calls earlier; what it     *)
(* decided is still a legal move of the candidate when it is written,      *)
(* because the only home of a workflow runs one command at a time.         *)
(***************************************************************************)
EXTENDS TargetBranchQueue, SequenceTheorems, TLAPS

Call == {"workflow", "load", "acquire", "target", "reload", "fence",
         "write", "release", "inspect", "renew"}

\* The call after which a command of this kind has decided, if the decision does
\* not change the calls it goes on with.
Looks(kind) ==
  CASE kind = "acquire-phase" -> "reload"
    [] kind \in {"release-for-pr-checks", "mark-merged", "requeue-retry"} -> "load"
    [] OTHER -> "nothing"

\* The command will look at its manifest again before it writes, or not write.
WillLook(f) ==
  \A i \in 1..Len(f.todo) :
    f.todo[i] = "write" => \E j \in 1..(i - 1) : f.todo[j] = Looks(f.command.kind)

\* What is going to be written is a manifest.
DraftTyped(f) == WillLook(f) \/ f.draft \in Manifest

QueueInv == TypeOK /\ \A h \in Home : DraftTyped(frame[h])

USE HomesAssumption, NumbersAssumption, OfferedAssumption

(***************************************************************************)
(* Candidates                                                              *)
(***************************************************************************)

LEMMA PlainType ==
  /\ NoRetry \in Retry
  /\ \A s \in {"awaiting-pr-checks", "merge-ready", "refreshing",
               "retryable", "transient-retry", "merged"} :
       Plain(s) \in Candidate /\ Plain(s).state = s
BY DEF NoRetry, Retry, Plain, Candidate

LEMMA MergeReadyType ==
  ASSUME NEW t \in Nat
  PROVE  MergeReady(t) \in Candidate /\ MergeReady(t).state = "merge-ready"
BY PlainType DEF MergeReady, Plain, Candidate

LEMMA RetryAttemptType ==
  ASSUME NEW c \in Candidate, NEW r
  PROVE  RetryAttempt(c, r) \in Nat
BY DEF RetryAttempt, Candidate, Retry

LEMMA BackoffType == ASSUME NEW a \in Nat PROVE Backoff(a) \in Nat
BY DEF Backoff

LEMMA RetryableType ==
  ASSUME NEW r \in Reason \cup {ChecksFailed, LeaseExpired}, NEW e \in BOOLEAN, NEW a \in Nat
  PROVE  /\ Retryable(r, e, a) \in Candidate
         /\ Retryable(r, e, a).state = "retryable"
<1>1. [NoRetry EXCEPT !.reason = r, !.exhausted = e, !.attempt = a] \in Retry
  BY DEF NoRetry, Retry
<1> QED BY <1>1, PlainType DEF Retryable, Plain, Candidate

\* A transient failure leaves a retry with its attempt, budget and deadline.
LEMMA TransientType ==
  ASSUME NEW r \in Reason \cup {LeaseExpired}, NEW a \in Nat, NEW m \in Nat, NEW t \in Nat
  PROVE  LET retry == [reason |-> r, exhausted |-> FALSE, attempt |-> a,
                       maxAttempts |-> m, nextRetryAt |-> t]
             c == [Plain("transient-retry") EXCEPT !.retry = retry]
         IN c \in Candidate /\ c.state = "transient-retry" /\ c.retry = retry
<1>1. [reason |-> r, exhausted |-> FALSE, attempt |-> a,
       maxAttempts |-> m, nextRetryAt |-> t] \in Retry
  BY DEF Retry
<1> QED BY <1>1 DEF Plain, Candidate

LEMMA AfterPrChecksType ==
  ASSUME NEW m \in Manifest, NEW sha, NEW status, clock \in Nat
  PROVE  AfterPrChecks(m, sha, status) \in Candidate
<1>1. m.candidate \in Candidate
  BY DEF Manifest
<1>2. Plain("awaiting-pr-checks") \in Candidate /\ MergeReady(clock) \in Candidate
  BY PlainType, MergeReadyType
<1>3. Retryable(ChecksFailed, FALSE, RetryAttempt(m.candidate, ChecksFailed)) \in Candidate
  BY <1>1, RetryAttemptType, RetryableType
<1> QED BY <1>1, <1>2, <1>3 DEF AfterPrChecks

\* The parts of AfterFailure: the candidate that was merged already, one that a
\* person has to look at, and one that is tried again.
LEMMA AfterFailureCases ==
  ASSUME NEW c \in Candidate, NEW kind \in {"transient", "deterministic"},
         NEW r \in Reason \cup {LeaseExpired}, NEW b \in Budget, clock \in Nat
  PROVE  LET d == AfterFailure(c, kind, r, b)
             attempt == RetryAttempt(c, r)
         IN \/ c.state = "merged" /\ d = c
            \/ c.state # "merged" /\ \E e \in BOOLEAN : d = Retryable(r, e, attempt)
            \/ \E max \in Nat :
                 /\ c.state # "merged" /\ attempt <= max
                 /\ c.state = "transient-retry" /\ c.retry.reason = r
                      => max <= c.retry.maxAttempts
                 /\ d = [Plain("transient-retry") EXCEPT
                           !.retry = [reason |-> r, exhausted |-> FALSE, attempt |-> attempt,
                                      maxAttempts |-> max,
                                      nextRetryAt |-> clock + Backoff(attempt)]]
<1> DEFINE attempt == RetryAttempt(c, r)
           running == c.state = "transient-retry" /\ c.retry.reason = r
           max == IF running /\ c.retry.maxAttempts < b THEN c.retry.maxAttempts ELSE b
           d == AfterFailure(c, kind, r, b)
<1>1. attempt \in Nat
  BY RetryAttemptType
<1>2. max \in Nat /\ (running => max <= c.retry.maxAttempts)
  <2>1. c.retry.maxAttempts \in Nat /\ b \in Nat
    BY DEF Candidate, Retry
  <2> QED BY <2>1
<1>3. CASE c.state = "merged"
  BY <1>3 DEF AfterFailure
<1>4. CASE c.state # "merged" /\ kind = "deterministic"
  BY <1>4 DEF AfterFailure
<1>5. CASE c.state # "merged" /\ kind = "transient" /\ attempt > max
  BY <1>5 DEF AfterFailure
<1>6. CASE c.state # "merged" /\ kind = "transient" /\ ~(attempt > max)
  <2>1. d = [Plain("transient-retry") EXCEPT
               !.retry = [reason |-> r, exhausted |-> FALSE, attempt |-> attempt,
                          maxAttempts |-> max, nextRetryAt |-> clock + Backoff(attempt)]]
    BY <1>6 DEF AfterFailure
  <2>2. attempt <= max
    BY <1>1, <1>2, <1>6
  <2> QED BY <1>2, <1>6, <2>1, <2>2
<1> QED BY <1>3, <1>4, <1>5, <1>6

LEMMA AfterFailureType ==
  ASSUME NEW c \in Candidate, NEW kind \in {"transient", "deterministic"},
         NEW r \in Reason \cup {LeaseExpired}, NEW b \in Budget, clock \in Nat
  PROVE  AfterFailure(c, kind, r, b) \in Candidate
<1>1. RetryAttempt(c, r) \in Nat
  BY RetryAttemptType
<1>2. clock + Backoff(RetryAttempt(c, r)) \in Nat
  BY <1>1, BackoffType
<1> QED BY <1>1, <1>2, AfterFailureCases, RetryableType, TransientType

(***************************************************************************)
(* Moves                                                                   *)
(***************************************************************************)

\* What CandidateLifecycle and RetryBudgetIsKept allow a candidate to become.
Follow(c, d) == c.state # d.state => d.state \in Follows[c.state]

KeepBudget(c, d, now) ==
  (c.state = "transient-retry" /\ d # c) =>
    CASE d.state = "awaiting-pr-checks" -> c.retry.nextRetryAt <= now
      [] d.state = "transient-retry" /\ d.retry.reason = c.retry.reason ->
           /\ d.retry.maxAttempts <= c.retry.maxAttempts
           /\ d.retry.attempt = c.retry.attempt + 1
           /\ d.retry.attempt <= d.retry.maxAttempts
      [] OTHER -> TRUE

Move(c, d, now) == Follow(c, d) /\ KeepBudget(c, d, now)

\* A candidate that will be tried again has tries left.
Proper(c) == c.state = "transient-retry" => ~c.retry.exhausted

\* From a candidate that is not being retried only its state matters.
LEMMA FreeMove ==
  ASSUME NEW c, NEW d, NEW now,
         c.state # "transient-retry", Follow(c, d), d.state # "transient-retry"
  PROVE  Proper(d) /\ Move(c, d, now)
BY DEF Proper, Move, KeepBudget

LEMMA SameMove == ASSUME NEW c, NEW now PROVE Move(c, c, now)
BY DEF Move, Follow, KeepBudget

\* What was due stays due.
LEMMA MoveLater ==
  ASSUME NEW c \in Candidate, NEW d, NEW now \in Nat, NEW later \in Nat, now <= later,
         Move(c, d, now)
  PROVE  Move(c, d, later)
<1>1. c.retry.nextRetryAt \in Nat
  BY DEF Candidate, Retry
<1>2. c.retry.nextRetryAt <= now => c.retry.nextRetryAt <= later
  BY <1>1
<1> QED BY <1>2 DEF Move, KeepBudget

LEMMA ChecksMove ==
  ASSUME NEW m \in Manifest, NEW sha, NEW status, clock \in Nat, Proper(m.candidate)
  PROVE  LET d == AfterPrChecks(m, sha, status) IN Proper(d) /\ Move(m.candidate, d, clock)
<1> DEFINE c == m.candidate
           d == AfterPrChecks(m, sha, status)
<1>1. c \in Candidate
  BY DEF Manifest
<1>2. CASE d = c
  BY <1>2, SameMove
<1>3. CASE d # c
  <2>1. c.state \in {"awaiting-pr-checks", "merge-ready", "refreshing"}
    BY <1>1, <1>3 DEF AfterPrChecks, Candidate
  <2>2. d.state \in {"awaiting-pr-checks", "retryable", "merge-ready"}
    <3>1. Plain("awaiting-pr-checks").state = "awaiting-pr-checks"
      BY PlainType
    <3>2. MergeReady(clock).state = "merge-ready"
      BY MergeReadyType
    <3>3. Retryable(ChecksFailed, FALSE, RetryAttempt(c, ChecksFailed)).state = "retryable"
      BY <1>1, RetryAttemptType, RetryableType
    <3> QED BY <1>3, <2>1, <3>1, <3>2, <3>3 DEF AfterPrChecks
  <2>3. Follow(c, d)
    BY <2>1, <2>2 DEF Follow, Follows
  <2> QED BY <2>1, <2>2, <2>3, FreeMove
<1> QED BY <1>2, <1>3

LEMMA FailureMove ==
  ASSUME NEW c \in Candidate, NEW kind \in {"transient", "deterministic"},
         NEW r \in Reason \cup {LeaseExpired}, NEW b \in Budget, clock \in Nat, Proper(c)
  PROVE  LET d == AfterFailure(c, kind, r, b) IN Proper(d) /\ Move(c, d, clock)
<1> DEFINE attempt == RetryAttempt(c, r)
           d == AfterFailure(c, kind, r, b)
<1>1. attempt \in Nat /\ clock + Backoff(attempt) \in Nat
  BY RetryAttemptType, BackoffType
<1>2. CASE c.state = "merged" /\ d = c
  BY <1>2, SameMove
<1>3. CASE c.state # "merged" /\ \E e \in BOOLEAN : d = Retryable(r, e, attempt)
  <2>1. d.state = "retryable"
    BY <1>1, <1>3, RetryableType
  <2>2. Follow(c, d)
    BY <1>3, <2>1 DEF Follow, Follows, Candidate
  <2> QED BY <2>1, <2>2 DEF Proper, Move, KeepBudget
<1>4. ASSUME NEW max \in Nat, c.state # "merged", attempt <= max,
             c.state = "transient-retry" /\ c.retry.reason = r => max <= c.retry.maxAttempts,
             d = [Plain("transient-retry") EXCEPT
                    !.retry = [reason |-> r, exhausted |-> FALSE, attempt |-> attempt,
                               maxAttempts |-> max,
                               nextRetryAt |-> clock + Backoff(attempt)]]
      PROVE  Proper(d) /\ Move(c, d, clock)
  <2>1. /\ d.state = "transient-retry" /\ d.retry.exhausted = FALSE
        /\ d.retry.reason = r /\ d.retry.attempt = attempt /\ d.retry.maxAttempts = max
    <3> DEFINE t == clock + Backoff(attempt)
    <3>1. t \in Nat /\ attempt \in Nat
      BY <1>1
    <3>2. d = [Plain("transient-retry") EXCEPT
                 !.retry = [reason |-> r, exhausted |-> FALSE, attempt |-> attempt,
                            maxAttempts |-> max, nextRetryAt |-> t]]
      BY <1>4
    <3> HIDE DEF t, attempt, d
    <3> QED BY <3>1, <3>2, TransientType
  <2>2. Follow(c, d)
    BY <1>4, <2>1 DEF Follow, Follows, Candidate
  <2>3. KeepBudget(c, d, clock)
    <3>1. CASE c.state = "transient-retry" /\ c.retry.reason = r
      <4>1. attempt = c.retry.attempt + 1
        BY <3>1 DEF Proper, RetryAttempt
      <4> QED BY <1>4, <2>1, <3>1, <4>1 DEF KeepBudget
    <3>2. CASE ~(c.state = "transient-retry" /\ c.retry.reason = r)
      BY <2>1, <3>2 DEF KeepBudget
    <3> QED BY <3>1, <3>2
  <2> QED BY <2>1, <2>2, <2>3 DEF Proper, Move
<1> QED BY <1>2, <1>3, <1>4, AfterFailureCases

\* Neither checks nor failures make a candidate merged.
LEMMA ChecksOutcome ==
  ASSUME NEW m \in Manifest, NEW sha, NEW status, clock \in Nat
  PROVE  LET d == AfterPrChecks(m, sha, status) IN d.state = "merged" => d = m.candidate
<1>1. /\ Plain("awaiting-pr-checks").state = "awaiting-pr-checks"
      /\ MergeReady(clock).state = "merge-ready"
  BY PlainType, MergeReadyType
<1>2. Retryable(ChecksFailed, FALSE, RetryAttempt(m.candidate, ChecksFailed)).state = "retryable"
  BY RetryAttemptType, RetryableType DEF Manifest
<1> QED BY <1>1, <1>2 DEF AfterPrChecks

LEMMA FailureOutcome ==
  ASSUME NEW c \in Candidate, NEW kind \in {"transient", "deterministic"},
         NEW r \in Reason \cup {LeaseExpired}, NEW b \in Budget, clock \in Nat
  PROVE  AfterFailure(c, kind, r, b).state = "merged" => AfterFailure(c, kind, r, b) = c
<1> DEFINE attempt == RetryAttempt(c, r)
           t == clock + Backoff(attempt)
           d == AfterFailure(c, kind, r, b)
           retry(max) == [reason |-> r, exhausted |-> FALSE, attempt |-> attempt,
                          maxAttempts |-> max, nextRetryAt |-> t]
<1>1. attempt \in Nat /\ t \in Nat
  BY RetryAttemptType, BackoffType
<1>2. \/ d = c
      \/ \E e \in BOOLEAN : d = Retryable(r, e, attempt)
      \/ \E max \in Nat : d = [Plain("transient-retry") EXCEPT !.retry = retry(max)]
  BY AfterFailureCases
<1> HIDE DEF attempt, t, d
<1>3. ASSUME NEW e \in BOOLEAN, d = Retryable(r, e, attempt) PROVE d.state # "merged"
  BY <1>1, <1>3, RetryableType
<1>4. ASSUME NEW max \in Nat, d = [Plain("transient-retry") EXCEPT !.retry = retry(max)]
      PROVE  d.state # "merged"
  BY <1>1, <1>4, TransientType
<1>5. d.state = "merged" => d = c
  BY <1>2, <1>3, <1>4
<1> QED BY <1>5 DEF d

LEMMA RequeueMove ==
  ASSUME NEW c \in Candidate, NEW kind, Requeues(c, kind)
  PROVE  LET d == Plain("awaiting-pr-checks") IN Proper(d) /\ Move(c, d, clock)
<1>1. Plain("awaiting-pr-checks").state = "awaiting-pr-checks"
  BY PlainType
<1>2. Follow(c, Plain("awaiting-pr-checks"))
  BY <1>1 DEF Follow, Follows, Requeues
<1>3. KeepBudget(c, Plain("awaiting-pr-checks"), clock)
  BY <1>1 DEF KeepBudget, Requeues
<1> QED BY <1>1, <1>2, <1>3 DEF Proper, Move

LEMMA AcquireMove ==
  ASSUME NEW w \in Workflow, NEW phase, manifest \in Manifests, Eligible(manifest, w, phase)
  PROVE  LET d == Plain("refreshing") IN Proper(d) /\ Move(manifest[w].candidate, d, clock)
<1>1. Plain("refreshing").state = "refreshing"
  BY PlainType
<1>2. manifest[w].candidate.state \in {"awaiting-pr-checks", "merge-ready", "refreshing"}
  BY DEF Eligible, RefreshBootstrap
<1>3. Follow(manifest[w].candidate, Plain("refreshing"))
  BY <1>1, <1>2 DEF Follow, Follows
<1> QED BY <1>1, <1>2, <1>3, FreeMove

LEMMA RefreshedMove ==
  ASSUME NEW c \in Candidate, c.state = "refreshing", NEW d \in Candidate,
         d.state \in {"awaiting-pr-checks", "merge-ready", "merged"}
  PROVE  Proper(d) /\ Move(c, d, clock)
<1>1. Follow(c, d)
  BY DEF Follow, Follows
<1> QED BY <1>1, FreeMove

(***************************************************************************)
(* Commands, calls and frames                                              *)
(***************************************************************************)

Kinds == {"observe-pr-checks", "acquire-phase", "release-for-pr-checks", "record-failure",
          "requeue-retry", "mark-merged", "recover-expired-target-lease",
          "renew-held-target-lease", "release-held-target-lease"}

LEMMA CommandFields ==
  ASSUME NEW c \in Command \cup {NoCommand}
  PROVE  /\ c # NoCommand => c.kind \in Kinds
         /\ c.kind = "release-for-pr-checks" =>
              /\ c.prFreshness \in Freshness \cup {NoFreshness}
              /\ c.admitMergeReady \in BOOLEAN
         /\ c.kind = "record-failure" =>
              /\ c.failureKind \in {"transient", "deterministic"}
              /\ c.reason \in Reason \cup {LeaseExpired}
              /\ c.budget \in Budget
BY DEF Command, NoCommand, Kinds

LEMMA ShortCalls ==
  /\ <<>> \in Seq(Call) /\ <<"release">> \in Seq(Call)
  /\ <<"load">> \in Seq(Call) /\ <<"workflow", "load">> \in Seq(Call)
  /\ <<"workflow", "load", "inspect">> \in Seq(Call)
  /\ <<"target", "renew">> \in Seq(Call) /\ <<"target", "release">> \in Seq(Call)
  /\ <<"target", "workflow", "load">> \in Seq(Call)
  /\ <<"workflow", "load", "acquire", "target", "reload">> \in Seq(Call)
  /\ <<"target">> \in Seq(Call)
  /\ Persist \in Seq(Call) /\ PersistFenced \in Seq(Call)
BY DEF Call, Persist, PersistFenced

\* The calls of each kind of command.
LEMMA CallsOf ==
  /\ Calls("observe-pr-checks") = <<"load">>
  /\ Calls("acquire-phase")
       = <<"workflow", "load", "acquire", "target", "reload">> \o PersistFenced
  /\ \A kind \in {"release-for-pr-checks", "mark-merged"} :
       Calls(kind) = <<"target", "workflow", "load">> \o PersistFenced \o <<"release">>
  /\ Calls("record-failure") = <<"workflow", "load">>
  /\ Calls("requeue-retry") = <<"workflow", "load">> \o Persist
  /\ Calls("recover-expired-target-lease") = <<"workflow", "load", "inspect">>
  /\ Calls("renew-held-target-lease") = <<"target", "renew">>
  /\ Calls("release-held-target-lease") = <<"target", "release">>
BY DEF Calls

LEMMA CallsType == \A kind \in Kinds : Calls(kind) \in Seq(Call)
<1>1. PersistFenced \o <<"release">> \in Seq(Call)
  BY ShortCalls, ConcatProperties
<1>2. <<"target", "workflow", "load">> \o PersistFenced \o <<"release">> \in Seq(Call)
  <2>1. <<"target", "workflow", "load">> \o PersistFenced \in Seq(Call)
    BY ShortCalls, ConcatProperties
  <2> QED BY <2>1, ShortCalls, ConcatProperties
<1>3. <<"workflow", "load", "acquire", "target", "reload">> \o PersistFenced \in Seq(Call)
  BY ShortCalls, ConcatProperties
<1>4. <<"workflow", "load">> \o Persist \in Seq(Call)
  BY ShortCalls, ConcatProperties
<1> QED BY <1>2, <1>3, <1>4, ShortCalls, CallsOf DEF Kinds

\* A look that comes before some calls comes before every write among them.
LEMMA LookFirst ==
  ASSUME NEW s \in Seq(Call), NEW t \in Seq(Call), NEW j \in 1..Len(s),
         \A i \in 1..Len(s) : s[i] # "write",
         NEW f, f.todo = s \o t, s[j] = Looks(f.command.kind)
  PROVE  WillLook(f)
<1>1. /\ Len(s \o t) = Len(s) + Len(t)
      /\ \A i \in 1..Len(s) + Len(t) : (s \o t)[i] = IF i <= Len(s) THEN s[i] ELSE t[i - Len(s)]
  BY ConcatProperties
<1>2. Len(s) \in Nat /\ Len(t) \in Nat
  BY LenProperties
<1> SUFFICES ASSUME NEW i \in 1..Len(s) + Len(t), (s \o t)[i] = "write"
             PROVE  \E k \in 1..(i - 1) : (s \o t)[k] = Looks(f.command.kind)
  BY <1>1 DEF WillLook
<1>3. i > Len(s)
  BY <1>1, <1>2
<1>4. j \in 1..(i - 1) /\ (s \o t)[j] = s[j]
  BY <1>1, <1>2, <1>3
<1> QED BY <1>4

\* No command has decided before it has run.
LEMMA NewCommandLooks ==
  ASSUME NEW f, f.command.kind \in Kinds, f.todo = Calls(f.command.kind)
  PROVE  WillLook(f)
<1> DEFINE kind == f.command.kind
<1>1. CASE kind \in {"observe-pr-checks", "record-failure", "recover-expired-target-lease",
                     "renew-held-target-lease", "release-held-target-lease"}
  <2>1. f.todo \in {<<"load">>, <<"workflow", "load">>, <<"workflow", "load", "inspect">>,
                    <<"target", "renew">>, <<"target", "release">>}
    BY <1>1, CallsOf
  <2>2. \A i \in 1..Len(f.todo) : f.todo[i] # "write"
    <3>1. \A s \in {<<"load">>, <<"workflow", "load">>, <<"workflow", "load", "inspect">>,
                    <<"target", "renew">>, <<"target", "release">>} :
            \A i \in 1..Len(s) : s[i] # "write"
      OBVIOUS
    <3> QED BY <2>1, <3>1
  <2> QED BY <2>2 DEF WillLook
<1>2. CASE kind = "acquire-phase"
  <2> DEFINE s == <<"workflow", "load", "acquire", "target", "reload">>
  <2>1. s \in Seq(Call)
    BY ShortCalls
  <2>2. 5 \in 1..Len(s) /\ s[5] = "reload" /\ \A i \in 1..Len(s) : s[i] # "write"
    OBVIOUS
  <2>3. f.todo = s \o PersistFenced /\ Looks(kind) = "reload"
    BY <1>2, CallsOf DEF Looks
  <2>4. PersistFenced \in Seq(Call)
    BY ShortCalls
  <2> HIDE DEF s
  <2> QED BY <2>1, <2>2, <2>3, <2>4, LookFirst
<1>3. CASE kind \in {"release-for-pr-checks", "mark-merged"}
  <2> DEFINE s == <<"target", "workflow", "load">>
             u == <<"release">>
             t == PersistFenced \o u
  <2>1. s \in Seq(Call) /\ u \in Seq(Call) /\ PersistFenced \in Seq(Call)
    BY ShortCalls
  <2>2. 3 \in 1..Len(s) /\ s[3] = "load" /\ \A i \in 1..Len(s) : s[i] # "write"
    OBVIOUS
  <2>3. Looks(kind) = "load"
    BY <1>3 DEF Looks
  <2>4. f.todo = (s \o PersistFenced) \o u
    BY <1>3, CallsOf
  <2> HIDE DEF s, u
  <2>5. f.todo = s \o t /\ t \in Seq(Call)
    BY <2>1, <2>4, ConcatAssociative, ConcatProperties
  <2> HIDE DEF t
  <2> QED BY <2>1, <2>2, <2>3, <2>5, LookFirst
<1>4. CASE kind = "requeue-retry"
  <2> DEFINE s == <<"workflow", "load">>
  <2>1. s \in Seq(Call) /\ Persist \in Seq(Call)
    BY ShortCalls
  <2>2. 2 \in 1..Len(s) /\ s[2] = "load" /\ \A i \in 1..Len(s) : s[i] # "write"
    OBVIOUS
  <2>3. f.todo = s \o Persist /\ Looks(kind) = "load"
    BY <1>4, CallsOf DEF Looks
  <2> HIDE DEF s
  <2> QED BY <2>1, <2>2, <2>3, LookFirst
<1> QED BY <1>1, <1>2, <1>3, <1>4 DEF Kinds

LEMMA IdleFrame ==
  Idle \in Frame /\ WillLook(Idle) /\ Idle.todo = <<>> /\ Idle.command = NoCommand
<1>1. Idle \in Frame
  BY ShortCalls DEF Idle, Frame, Call
<1> QED BY <1>1 DEF Idle, WillLook

(***************************************************************************)
(* What a step does to the command its home is in                          *)
(***************************************************************************)

OthersKept(h) == /\ frame' \in [Home -> Frame]
                 /\ \A k \in Home \ {h} : frame'[k] = frame[k]

\* The command goes on with what it decided, if it has decided, or returns.
Passes(h) ==
  /\ OthersKept(h)
  /\ \/ WillLook(frame'[h])
     \/ /\ ~WillLook(frame[h])
        /\ frame'[h].draft = frame[h].draft
        /\ frame'[h].command = frame[h].command

\* What a command decides is its own manifest with another candidate, and with the
\* freshness it was given if it was given one; it says merged only if told to.
Derived(h, m) ==
  LET c == frame[h].command IN
  /\ m.stage = Own(h).stage
  /\ m.candidate.state = "merged" =>
       Own(h).candidate.state = "merged" \/ c.kind = "mark-merged"
  /\ \/ /\ m.headSha = Own(h).headSha
        /\ m.validatedTargetSha = Own(h).validatedTargetSha
     \/ /\ c.kind = "release-for-pr-checks" /\ c.prFreshness # NoFreshness
        /\ m.headSha = c.prFreshness.headSha
        /\ m.validatedTargetSha = c.prFreshness.validatedTargetSha

\* The command decides on a move of its own candidate.
Decides(h) ==
  /\ OthersKept(h)
  /\ \/ WillLook(frame'[h])
     \/ /\ frame'[h].draft \in Manifest
        /\ frame'[h].command = frame[h].command
        /\ Derived(h, frame'[h].draft)
        /\ Proper(Own(h).candidate) =>
             /\ Proper(frame'[h].draft.candidate)
             /\ Move(Own(h).candidate, frame'[h].draft.candidate, clock)

LEMMA TypedFrame ==
  ASSUME TypeOK, NEW h \in Home
  PROVE  /\ frame[h] \in Frame
         /\ frame[h].todo \in Seq(Call)
         /\ frame[h].command \in Command \cup {NoCommand}
         /\ frame[h].fence \in Nat
         /\ WorkflowOf[h] \in Workflow
         /\ Own(h) \in Manifest
         /\ Own(h).candidate \in Candidate
         /\ clock \in Nat
BY DEF TypeOK, Frame, Call, Own, Manifests, Manifest

LEMMA FrameWith ==
  ASSUME NEW f \in Frame, NEW t \in Seq(Call), NEW n \in Nat,
         NEW m \in Manifest \cup {NoDraft}, NEW c \in Command \cup {NoCommand}
  PROVE  /\ [f EXCEPT !.todo = t] \in Frame
         /\ [f EXCEPT !.todo = t, !.fence = n] \in Frame
         /\ [f EXCEPT !.todo = t, !.draft = m] \in Frame
         /\ [f EXCEPT !.draft = m, !.todo = t] \in Frame
         /\ [f EXCEPT !.command = c, !.todo = t] \in Frame
BY DEF Frame, Call

LEMMA ResumeFrame ==
  ASSUME TypeOK, NEW h \in Home, NEW g \in Frame, Resume(h, g)
  PROVE  /\ OthersKept(h)
         /\ frame'[h] = Idle \/ frame'[h] = g
BY IdleFrame DEF TypeOK, Resume, OthersKept

\* A look still ahead stays ahead when another call is made.
LEMMA TailLooks ==
  ASSUME NEW f, f.todo \in Seq(Call), f.todo # <<>>, Head(f.todo) # Looks(f.command.kind),
         WillLook(f), NEW g, g.todo = Tail(f.todo), g.command = f.command
  PROVE  WillLook(g)
<1> DEFINE s == f.todo
           t == Tail(s)
<1>1. /\ Len(s) \in Nat \ {0} /\ Len(t) = Len(s) - 1
      /\ \A i \in 1..Len(t) : t[i] = s[i + 1]
      /\ Head(s) = s[1]
  BY HeadTailProperties, LenProperties
<1> SUFFICES ASSUME NEW i \in 1..Len(t), t[i] = "write"
             PROVE  \E j \in 1..(i - 1) : t[j] = Looks(f.command.kind)
  BY DEF WillLook
<1>2. i + 1 \in 1..Len(s) /\ s[i + 1] = "write"
  BY <1>1
<1>3. PICK j \in 1..i : s[j] = Looks(f.command.kind)
  <2>1. \E j \in 1..((i + 1) - 1) : s[j] = Looks(f.command.kind)
    BY <1>2 DEF WillLook
  <2>2. (i + 1) - 1 = i
    BY <1>1
  <2> QED BY <2>1, <2>2
<1>4. j # 1
  BY <1>1, <1>3
<1>5. j - 1 \in 1..(i - 1) /\ j - 1 \in 1..Len(t) /\ t[j - 1] = s[j]
  <2>1. j - 1 \in 1..(i - 1) /\ j - 1 \in 1..Len(t) /\ (j - 1) + 1 = j
    BY <1>1, <1>3, <1>4
  <2> QED BY <1>1, <2>1
<1> QED BY <1>3, <1>5

LEMMA TailCalls ==
  ASSUME TypeOK, NEW h \in Home, frame[h].todo # <<>>
  PROVE  Tail(frame[h].todo) \in Seq(Call)
BY TypedFrame, HeadTailProperties

LEMMA ProceedPasses ==
  ASSUME TypeOK, NEW h \in Home, NEW x, At(h, x), x # Looks(frame[h].command.kind),
         \/ Proceed(h)
         \/ \E n \in Nat : Resume(h, [frame[h] EXCEPT !.todo = Tail(@), !.fence = n])
  PROVE  Passes(h)
<1> DEFINE f == frame[h]
           t == Tail(f.todo)
<1>1. f \in Frame /\ f.todo \in Seq(Call) /\ f.todo # <<>> /\ t \in Seq(Call)
  BY TypedFrame, TailCalls DEF At
<1>2. ASSUME NEW g \in Frame, Resume(h, g), g.todo = t, g.command = f.command, g.draft = f.draft
      PROVE  Passes(h)
  <2>1. OthersKept(h) /\ (frame'[h] = Idle \/ frame'[h] = g)
    BY <1>2, ResumeFrame
  <2>2. WillLook(f) => WillLook(g)
    BY <1>1, <1>2, TailLooks DEF At
  <2> QED BY <1>2, <2>1, <2>2, IdleFrame DEF Passes
<1>3. CASE Proceed(h)
  <2> DEFINE g == [f EXCEPT !.todo = t]
  <2>1. g \in Frame /\ g.todo = t /\ g.command = f.command /\ g.draft = f.draft
    BY <1>1, FrameWith DEF Frame
  <2>2. Resume(h, g)
    BY <1>3 DEF Proceed
  <2> HIDE DEF g
  <2> QED BY <1>2, <2>1, <2>2
<1>4. ASSUME NEW n \in Nat, Resume(h, [f EXCEPT !.todo = Tail(@), !.fence = n])
      PROVE  Passes(h)
  <2> DEFINE g == [f EXCEPT !.todo = t, !.fence = n]
  <2>1. g \in Frame /\ g.todo = t /\ g.command = f.command /\ g.draft = f.draft
    BY <1>1, FrameWith DEF Frame
  <2>2. Resume(h, g)
    BY <1>4
  <2> HIDE DEF g
  <2> QED BY <1>2, <2>1, <2>2
<1> QED BY <1>3, <1>4

Replies == [Home -> {"none", "ok", "failed"}]
Aheads == [Home -> SUBSET Workflow]

\* After a failure nothing is left to do but to give back the lane.
LEMMA CleanupFrame ==
  ASSUME TypeOK, NEW h \in Home
  PROVE  LET g == [frame[h] EXCEPT !.todo = Cleanup(h), !.draft = NoDraft]
         IN g \in Frame /\ WillLook(g)
<1> DEFINE t == Cleanup(h)
           g == [frame[h] EXCEPT !.todo = t, !.draft = NoDraft]
<1>1. t \in {<<>>, <<"release">>}
  BY DEF Cleanup
<1>2. t \in Seq(Call) /\ \A i \in 1..Len(t) : t[i] # "write"
  <2>1. \A s \in {<<>>, <<"release">>} : \A i \in 1..Len(s) : s[i] # "write"
    OBVIOUS
  <2> QED BY <1>1, <2>1, ShortCalls
<1>3. frame[h] \in Frame /\ frame[h].fence \in Nat
  BY TypedFrame
<1> HIDE DEF t
<1>4. g \in Frame /\ g.todo = t
  BY <1>2, <1>3, FrameWith DEF Frame
<1> QED BY <1>2, <1>4 DEF WillLook, t

LEMMA AbortPasses ==
  ASSUME TypeOK, NEW h \in Home, Abort(h)
  PROVE  Passes(h) /\ reply' \in Replies /\ ahead' \in Aheads
<1> DEFINE g == [frame[h] EXCEPT !.todo = Cleanup(h), !.draft = NoDraft]
<1>1. g \in Frame /\ WillLook(g)
  BY CleanupFrame
<1>2. Resume(h, g)
  BY DEF Abort
<1> HIDE DEF g
<1>3. Passes(h)
  BY <1>1, <1>2, ResumeFrame, IdleFrame DEF Passes
<1>4. reply' \in Replies /\ ahead' \in Aheads
  BY DEF Abort, TypeOK, Replies, Aheads
<1> QED BY <1>3, <1>4

\* A command that is given has not looked at anything.
LEMMA GivenPasses ==
  ASSUME TypeOK, NEW h \in Home, NEW c \in Command,
         frame' = [frame EXCEPT ![h] = [Idle EXCEPT !.command = c, !.todo = Calls(c.kind)]]
  PROVE  /\ Passes(h)
         /\ WillLook(frame'[h])
         /\ frame'[h].command = c
<1> DEFINE g == [Idle EXCEPT !.command = c, !.todo = Calls(c.kind)]
<1>1. c.kind \in Kinds
  BY DEF Command, Kinds
<1>2. Calls(c.kind) \in Seq(Call)
  BY <1>1, CallsType
<1>3. g \in Frame /\ g.command = c /\ g.todo = Calls(c.kind)
  BY <1>2, IdleFrame, FrameWith DEF Frame
<1>4. WillLook(g)
  BY <1>1, <1>3, NewCommandLooks
<1>5. frame' = [frame EXCEPT ![h] = g]
  OBVIOUS
<1> HIDE DEF g
<1> QED BY <1>3, <1>4, <1>5 DEF TypeOK, Passes, OthersKept

LEMMA TransitionPasses ==
  ASSUME TypeOK, NEW h \in Home, NEW c \in Command, Transition(h, c)
  PROVE  Passes(h)
BY GivenPasses DEF Transition

\* The decision of a command, with the calls it goes on with.
LEMMA DecideFrame ==
  ASSUME TypeOK, NEW h \in Home, NEW m \in Manifest, NEW t \in Seq(Call),
         Resume(h, [frame[h] EXCEPT !.draft = m, !.todo = t]), Derived(h, m),
         Proper(Own(h).candidate) =>
           Proper(m.candidate) /\ Move(Own(h).candidate, m.candidate, clock)
  PROVE  Decides(h)
<1> DEFINE g == [frame[h] EXCEPT !.draft = m, !.todo = t]
<1>1. g \in Frame /\ g.draft = m /\ g.command = frame[h].command
  <2>1. frame[h] \in Frame /\ frame[h].fence \in Nat
    BY TypedFrame
  <2>2. NoCommand \in Command \cup {NoCommand}
    OBVIOUS
  <2> QED BY <2>1, <2>2, FrameWith DEF Frame
<1>2. Resume(h, g)
  OBVIOUS
<1> HIDE DEF g
<1>3. OthersKept(h) /\ (frame'[h] = Idle \/ frame'[h] = g)
  BY <1>1, <1>2, ResumeFrame
<1> QED BY <1>1, <1>3, IdleFrame DEF Decides

LEMMA DecideDecides ==
  ASSUME TypeOK, NEW h \in Home, NEW c \in Candidate, NEW t \in Seq(Call), Decide(h, c, t),
         Proper(Own(h).candidate) => Proper(c) /\ Move(Own(h).candidate, c, clock),
         c.state = "merged" => c = Own(h).candidate \/ frame[h].command.kind = "mark-merged"
  PROVE  Decides(h)
<1> DEFINE m == [Own(h) EXCEPT !.candidate = c]
<1>1. m \in Manifest /\ m.candidate = c /\ Derived(h, m)
  BY TypedFrame DEF Manifest, Derived
<1>2. Resume(h, [frame[h] EXCEPT !.draft = m, !.todo = t])
  BY DEF Decide
<1> HIDE DEF m
<1> QED BY <1>1, <1>2, DecideFrame

(***************************************************************************)
(* The steps of a home                                                     *)
(***************************************************************************)

\* The types of what is neither a manifest nor a frame.
RestType ==
  /\ lane \in [generation : Nat, live : BOOLEAN]
  /\ owner \in [Workflow -> Home \cup {NoHome}]
  /\ clock \in Nat
  /\ held \in [Home -> Nat]
  /\ reply \in Replies
  /\ faults \in Nat
  /\ disturbed \in [Home -> BOOLEAN]
  /\ ahead \in Aheads

LEMMA TypeParts ==
  TypeOK <=> manifest \in Manifests /\ frame \in [Home -> Frame] /\ RestType
BY DEF TypeOK, RestType, Replies, Aheads

\* A step that changes no manifest and lets no time pass.
Quiet(h) == /\ manifest' = manifest
            /\ clock' = clock
            /\ RestType'
            /\ Passes(h) \/ Decides(h)

\* The calls that look at nothing a command decides on.
LEMMA NotALook ==
  \A kind : Looks(kind) \in {"reload", "load", "nothing"}
BY DEF Looks

LEMMA WorkflowAuthorityQuiet ==
  ASSUME TypeOK, NEW h \in Home, VerifyWorkflowAuthority(h)
  PROVE  Quiet(h)
<1>1. CASE Proceed(h) /\ UNCHANGED <<reply, disturbed, ahead>>
  <2>1. Passes(h)
    BY <1>1, ProceedPasses, NotALook DEF VerifyWorkflowAuthority
  <2> QED BY <1>1, <2>1, TypeParts DEF VerifyWorkflowAuthority, Quiet, RestType
<1>2. CASE Abort(h) /\ Disturb(h)
  <2>1. disturbed' \in [Home -> BOOLEAN]
    BY <1>2 DEF Disturb, TypeOK
  <2> QED BY <1>2, <2>1, AbortPasses, TypeParts DEF VerifyWorkflowAuthority, Quiet, RestType
<1> QED BY <1>1, <1>2 DEF VerifyWorkflowAuthority

LEMMA HeldLeaseQuiet ==
  ASSUME TypeOK, NEW h \in Home, VerifyHeldLease(h)
  PROVE  Quiet(h)
<1>1. CASE /\ Resume(h, [frame[h] EXCEPT !.todo = Tail(@), !.fence = held[h]])
           /\ UNCHANGED <<held, reply, disturbed, ahead>>
  <2>1. held[h] \in Nat
    BY DEF TypeOK
  <2>2. Passes(h)
    BY <1>1, <2>1, ProceedPasses, NotALook DEF VerifyHeldLease
  <2> QED BY <1>1, <2>2, TypeParts DEF VerifyHeldLease, Quiet, RestType
<1>2. CASE /\ Abort(h) /\ held' = [held EXCEPT ![h] = 0]
           /\ disturbed' = [disturbed EXCEPT ![h] = @ \/ held[h] # 0]
  <2>1. disturbed' \in [Home -> BOOLEAN] /\ held' \in [Home -> Nat]
    BY <1>2 DEF TypeOK
  <2> QED BY <1>2, <2>1, AbortPasses, TypeParts DEF VerifyHeldLease, Quiet, RestType
<1> QED BY <1>1, <1>2 DEF VerifyHeldLease

\* VerifyFence and RenewLane
LEMMA FenceQuiet ==
  ASSUME TypeOK, NEW h \in Home, VerifyFence(h) \/ RenewLane(h)
  PROVE  Quiet(h)
<1>1. CASE Proceed(h) /\ UNCHANGED <<held, reply, disturbed, ahead>>
  <2>1. Passes(h)
    BY <1>1, ProceedPasses, NotALook DEF VerifyFence, RenewLane
  <2> QED BY <1>1, <2>1, TypeParts DEF VerifyFence, RenewLane, Quiet, RestType
<1>2. CASE Abort(h) /\ Disturb(h) /\ held' = [held EXCEPT ![h] = 0]
  <2>1. disturbed' \in [Home -> BOOLEAN] /\ held' \in [Home -> Nat]
    BY <1>2 DEF Disturb, TypeOK
  <2> QED BY <1>2, <2>1, AbortPasses, TypeParts DEF VerifyFence, RenewLane, Quiet, RestType
<1> QED BY <1>1, <1>2 DEF VerifyFence, RenewLane

LEMMA GrantType ==
  ASSUME TypeOK, Grant
  PROVE  lane' \in [generation : Nat, live : BOOLEAN] /\ lane.generation + 1 \in Nat
BY DEF TypeOK, Grant

LEMMA AcquireQuiet ==
  ASSUME TypeOK, NEW h \in Home, AcquireLane(h)
  PROVE  Quiet(h)
<1>1. CASE /\ Grant /\ Proceed(h)
           /\ held' = [held EXCEPT ![h] = lane.generation + 1]
           /\ ahead' = [ahead EXCEPT ![h] = Ahead(manifest, WorkflowOf[h])]
           /\ disturbed' = [disturbed EXCEPT ![h] = @ \/ held[h] # 0]
           /\ UNCHANGED reply
  <2>1. Passes(h)
    BY <1>1, ProceedPasses, NotALook DEF AcquireLane
  <2>2. held' \in [Home -> Nat] /\ disturbed' \in [Home -> BOOLEAN] /\ ahead' \in Aheads
    <3>1. Ahead(manifest, WorkflowOf[h]) \in SUBSET Workflow
      BY DEF Ahead
    <3> QED BY <1>1, <3>1, GrantType DEF TypeOK, Aheads
  <2> QED BY <1>1, <2>1, <2>2, GrantType, TypeParts DEF AcquireLane, Quiet, RestType
<1>2. CASE Abort(h) /\ UNCHANGED <<lane, held, disturbed>>
  BY <1>2, AbortPasses, TypeParts DEF AcquireLane, Quiet, RestType
<1> QED BY <1>1, <1>2 DEF AcquireLane

LEMMA ReleaseQuiet ==
  ASSUME TypeOK, NEW h \in Home, ReleaseLane(h)
  PROVE  Quiet(h)
<1>1. held' \in [Home -> Nat]
  BY DEF ReleaseLane, TypeOK
<1>2. CASE /\ lane' = [lane EXCEPT !.live = FALSE] /\ Proceed(h)
           /\ disturbed' = [disturbed EXCEPT
                ![h] = @ \/ frame[h].command.kind = "release-held-target-lease"]
           /\ UNCHANGED <<reply, ahead>>
  <2>1. Passes(h)
    BY <1>2, ProceedPasses, NotALook DEF ReleaseLane
  <2>2. /\ disturbed' \in [Home -> BOOLEAN]
        /\ lane' \in [generation : Nat, live : BOOLEAN]
    BY <1>2 DEF TypeOK
  <2> QED BY <1>1, <1>2, <2>1, <2>2, TypeParts DEF ReleaseLane, Quiet, RestType
<1>3. CASE Abort(h) /\ Disturb(h) /\ UNCHANGED lane
  <2>1. disturbed' \in [Home -> BOOLEAN]
    BY <1>3 DEF Disturb, TypeOK
  <2> QED BY <1>1, <1>3, <2>1, AbortPasses, TypeParts DEF ReleaseLane, Quiet, RestType
<1> QED BY <1>2, <1>3 DEF ReleaseLane

\* What recordFailure is called with on the way of recoverExpiredTargetLease.
RecoverFailure ==
  [kind |-> "record-failure", failureKind |-> "transient", reason |-> LeaseExpired,
   budget |-> CHOOSE n \in Budget : \A m \in Budget : m <= n]

LEMMA InspectQuiet ==
  ASSUME TypeOK, NEW h \in Home, InspectLane(h)
  PROVE  Quiet(h)
<1>1. CASE Abort(h) /\ UNCHANGED held
  BY <1>1, AbortPasses, TypeParts DEF InspectLane, Quiet, RestType
<1>2. CASE /\ Resume(h, [frame[h] EXCEPT !.command = RecoverFailure,
                                         !.todo = Calls("record-failure")])
           /\ held' = [held EXCEPT ![h] = 0] /\ UNCHANGED <<reply, ahead>>
  <2> DEFINE g == [frame[h] EXCEPT !.command = RecoverFailure,
                                   !.todo = Calls("record-failure")]
  <2>1. RecoverFailure \in Command /\ RecoverFailure.kind = "record-failure"
    BY DEF RecoverFailure, Command
  <2>2. Calls("record-failure") \in Seq(Call)
    BY CallsType DEF Kinds
  <2>3. g \in Frame /\ g.command = RecoverFailure /\ g.todo = Calls("record-failure")
    <3>1. frame[h] \in Frame /\ frame[h].fence \in Nat /\ NoDraft \in Manifest \cup {NoDraft}
      BY TypedFrame
    <3> QED BY <2>1, <2>2, <3>1, FrameWith DEF Frame
  <2>4. WillLook(g)
    <3>1. g.command.kind \in Kinds /\ g.todo = Calls(g.command.kind)
      BY <2>1, <2>3 DEF Kinds
    <3> HIDE DEF g
    <3> QED BY <3>1, NewCommandLooks
  <2> HIDE DEF g
  <2>5. Passes(h)
    BY <1>2, <2>3, <2>4, ResumeFrame, IdleFrame DEF Passes, g
  <2>6. held' \in [Home -> Nat]
    BY <1>2 DEF TypeOK
  <2> QED BY <1>2, <2>5, <2>6, TypeParts DEF InspectLane, Quiet, RestType
<1> QED BY <1>1, <1>2 DEF InspectLane, RecoverFailure

LEMMA PersistCalls ==
  /\ <<"target">> \o PersistFenced \o <<"release">> \in Seq(Call)
  /\ Persist \in Seq(Call)
<1>1. <<"target">> \o PersistFenced \in Seq(Call)
  BY ShortCalls, ConcatProperties
<1> QED BY <1>1, ShortCalls, ConcatProperties

LEMMA ObserveQuiet ==
  ASSUME TypeOK, NEW h \in Home, LoadToObserve(h)
  PROVE  Quiet(h)
<1> DEFINE c == frame[h].command
           d == AfterPrChecks(Own(h), c.headSha, c.status)
<1>1. CASE Proceed(h)
  <2>1. Passes(h)
    BY <1>1, ProceedPasses DEF LoadToObserve, AtFor, Looks
  <2> QED BY <1>1, <2>1, TypeParts DEF LoadToObserve, Quiet, RestType
<1>2. CASE Decide(h, d, IF Own(h).candidate.state = "refreshing"
                        THEN <<"target">> \o PersistFenced \o <<"release">> ELSE Persist)
  <2>1. d \in Candidate
    BY TypedFrame, AfterPrChecksType
  <2>2. Proper(Own(h).candidate) => Proper(d) /\ Move(Own(h).candidate, d, clock)
    BY TypedFrame, ChecksMove
  <2>4. d.state = "merged" => d = Own(h).candidate
    BY TypedFrame, ChecksOutcome
  <2> HIDE DEF d
  <2>3. Decides(h)
    BY <1>2, <2>1, <2>2, <2>4, PersistCalls, DecideDecides
  <2> QED BY <1>2, <2>3, TypeParts DEF LoadToObserve, Quiet, RestType
<1> QED BY <1>1, <1>2 DEF LoadToObserve

LEMMA LoadToAcquireQuiet ==
  ASSUME TypeOK, NEW h \in Home, LoadToAcquire(h)
  PROVE  Quiet(h)
<1>1. CASE Proceed(h) /\ UNCHANGED <<reply, ahead>>
  <2>1. Passes(h)
    BY <1>1, ProceedPasses DEF LoadToAcquire, AtFor, Looks
  <2> QED BY <1>1, <2>1, TypeParts DEF LoadToAcquire, Quiet, RestType
<1>2. CASE Abort(h)
  BY <1>2, AbortPasses, TypeParts DEF LoadToAcquire, Quiet, RestType
<1> QED BY <1>1, <1>2 DEF LoadToAcquire

LEMMA LoadToRecoverQuiet ==
  ASSUME TypeOK, NEW h \in Home, LoadToRecover(h)
  PROVE  Quiet(h)
<1>1. CASE Proceed(h) /\ UNCHANGED <<reply, ahead>>
  <2>1. Passes(h)
    BY <1>1, ProceedPasses DEF LoadToRecover, AtFor, Looks
  <2> QED BY <1>1, <2>1, TypeParts DEF LoadToRecover, Quiet, RestType
<1>2. CASE Abort(h)
  BY <1>2, AbortPasses, TypeParts DEF LoadToRecover, Quiet, RestType
<1> QED BY <1>1, <1>2 DEF LoadToRecover

LEMMA ReloadQuiet ==
  ASSUME TypeOK, NEW h \in Home, Reload(h)
  PROVE  Quiet(h)
<1>1. CASE /\ Eligible(manifest, WorkflowOf[h], frame[h].command.phase)
           /\ Decide(h, Plain("refreshing"), Tail(frame[h].todo)) /\ UNCHANGED <<reply, ahead>>
  <2>1. Plain("refreshing") \in Candidate /\ Plain("refreshing").state = "refreshing"
    BY PlainType
  <2>2. /\ Proper(Plain("refreshing"))
        /\ Move(Own(h).candidate, Plain("refreshing"), clock)
    BY <1>1, TypedFrame, AcquireMove DEF Own, TypeOK
  <2>3. Tail(frame[h].todo) \in Seq(Call)
    BY TailCalls DEF Reload, At
  <2>4. Decides(h)
    BY <1>1, <2>1, <2>2, <2>3, DecideDecides
  <2> QED BY <1>1, <2>4, TypeParts DEF Reload, Quiet, RestType
<1>2. CASE Abort(h)
  BY <1>2, AbortPasses, TypeParts DEF Reload, Quiet, RestType
<1> QED BY <1>1, <1>2 DEF Reload

LEMMA RecordFailureQuiet ==
  ASSUME TypeOK, NEW h \in Home, LoadToRecordFailure(h)
  PROVE  Quiet(h)
<1> DEFINE c == frame[h].command
           d == AfterFailure(Own(h).candidate, c.failureKind, c.reason, c.budget)
<1>1. /\ c.failureKind \in {"transient", "deterministic"}
      /\ c.reason \in Reason \cup {LeaseExpired} /\ c.budget \in Budget
  BY TypedFrame, CommandFields DEF LoadToRecordFailure, AtFor
<1>2. d \in Candidate
  BY <1>1, TypedFrame, AfterFailureType
<1>3. Proper(Own(h).candidate) => Proper(d) /\ Move(Own(h).candidate, d, clock)
  BY <1>1, TypedFrame, FailureMove
<1>4. d.state = "merged" => d = Own(h).candidate
  <2> DEFINE own == Own(h).candidate
             kind == c.failureKind
             reason == c.reason
             budget == c.budget
  <2>1. /\ own \in Candidate /\ clock \in Nat
        /\ kind \in {"transient", "deterministic"}
        /\ reason \in Reason \cup {LeaseExpired} /\ budget \in Budget
    BY <1>1, TypedFrame
  <2>2. d = AfterFailure(own, kind, reason, budget)
    OBVIOUS
  <2> HIDE DEF own, kind, reason, budget, d
  <2>3. AfterFailure(own, kind, reason, budget).state = "merged"
          => AfterFailure(own, kind, reason, budget) = own
    BY <2>1, FailureOutcome
  <2> QED BY <2>2, <2>3 DEF own
<1>5. Decide(h, d, IF held[h] # 0 THEN <<"target">> \o PersistFenced \o <<"release">>
                   ELSE Persist)
  BY DEF LoadToRecordFailure
<1> HIDE DEF d
<1>6. Decides(h)
  BY <1>2, <1>3, <1>4, <1>5, PersistCalls, DecideDecides
<1> QED BY <1>6, TypeParts DEF LoadToRecordFailure, Quiet, RestType

LEMMA RequeueQuiet ==
  ASSUME TypeOK, NEW h \in Home, LoadToRequeue(h)
  PROVE  Quiet(h)
<1> DEFINE d == Plain("awaiting-pr-checks")
<1>1. CASE /\ Requeues(Own(h).candidate, frame[h].command.retryKind)
           /\ Decide(h, d, Tail(frame[h].todo)) /\ UNCHANGED <<reply, ahead>>
  <2>1. d \in Candidate /\ d.state = "awaiting-pr-checks"
    BY PlainType
  <2>2. Proper(d) /\ Move(Own(h).candidate, d, clock)
    BY <1>1, TypedFrame, RequeueMove
  <2>3. Tail(frame[h].todo) \in Seq(Call)
    BY TailCalls DEF LoadToRequeue, AtFor, At
  <2>4. Decides(h)
    BY <1>1, <2>1, <2>2, <2>3, DecideDecides
  <2> QED BY <1>1, <2>4, TypeParts DEF LoadToRequeue, Quiet, RestType
<1>2. CASE Abort(h)
  BY <1>2, AbortPasses, TypeParts DEF LoadToRequeue, Quiet, RestType
<1> QED BY <1>1, <1>2 DEF LoadToRequeue

LEMMA MarkMergedQuiet ==
  ASSUME TypeOK, NEW h \in Home, LoadToMarkMerged(h)
  PROVE  Quiet(h)
<1> DEFINE d == Plain("merged")
<1>1. CASE /\ Own(h).candidate.state = "refreshing"
           /\ Decide(h, d, Tail(frame[h].todo)) /\ UNCHANGED <<reply, ahead>>
  <2>1. d \in Candidate /\ d.state = "merged"
    BY PlainType
  <2>2. Proper(d) /\ Move(Own(h).candidate, d, clock)
    BY <1>1, <2>1, TypedFrame, RefreshedMove
  <2>3. Tail(frame[h].todo) \in Seq(Call)
    BY TailCalls DEF LoadToMarkMerged, AtFor, At
  <2>4. Decides(h)
    BY <1>1, <2>1, <2>2, <2>3, DecideDecides DEF LoadToMarkMerged, AtFor
  <2> QED BY <1>1, <2>4, TypeParts DEF LoadToMarkMerged, Quiet, RestType
<1>2. CASE Abort(h)
  BY <1>2, AbortPasses, TypeParts DEF LoadToMarkMerged, Quiet, RestType
<1> QED BY <1>1, <1>2 DEF LoadToMarkMerged

LEMMA LoadToReleaseQuiet ==
  ASSUME TypeOK, NEW h \in Home, LoadToRelease(h)
  PROVE  Quiet(h)
<1> DEFINE c == frame[h].command
           next == IF c.admitMergeReady THEN MergeReady(clock) ELSE Plain("awaiting-pr-checks")
           m == IF c.prFreshness = NoFreshness THEN Own(h)
                ELSE [Own(h) EXCEPT !.headSha = c.prFreshness.headSha,
                                    !.validatedTargetSha = c.prFreshness.validatedTargetSha]
           draft == [m EXCEPT !.candidate = next]
           t == Tail(frame[h].todo)
<1>1. CASE Abort(h)
  BY <1>1, AbortPasses, TypeParts DEF LoadToRelease, Quiet, RestType
<1>2. CASE /\ Own(h).candidate.state = "refreshing"
           /\ Resume(h, [frame[h] EXCEPT !.draft = draft, !.todo = Tail(@)])
           /\ UNCHANGED <<reply, ahead>>
  <2>1. next \in Candidate /\ next.state \in {"awaiting-pr-checks", "merge-ready"}
    BY TypedFrame, PlainType, MergeReadyType
  <2>2. Proper(next) /\ Move(Own(h).candidate, next, clock)
    BY <1>2, <2>1, TypedFrame, RefreshedMove
  <2>3. c.prFreshness \in Freshness \cup {NoFreshness}
    BY TypedFrame, CommandFields DEF LoadToRelease, AtFor
  <2> HIDE DEF next
  <2>4. /\ m \in Manifest /\ m.stage = Own(h).stage
        /\ \/ /\ m.headSha = Own(h).headSha
              /\ m.validatedTargetSha = Own(h).validatedTargetSha
           \/ /\ c.prFreshness # NoFreshness
              /\ m.headSha = c.prFreshness.headSha
              /\ m.validatedTargetSha = c.prFreshness.validatedTargetSha
    BY <2>3, TypedFrame DEF Freshness, Manifest
  <2> HIDE DEF m
  <2>5. draft \in Manifest /\ draft.candidate = next /\ Derived(h, draft)
    BY <2>1, <2>4 DEF Manifest, Derived, LoadToRelease, AtFor
  <2> HIDE DEF draft
  <2>6. t \in Seq(Call)
    BY TailCalls DEF LoadToRelease, AtFor, At
  <2>7. Resume(h, [frame[h] EXCEPT !.draft = draft, !.todo = t])
    <3>1. [frame[h] EXCEPT !.draft = draft, !.todo = Tail(@)]
            = [frame[h] EXCEPT !.draft = draft, !.todo = t]
      BY TypedFrame DEF Frame
    <3> QED BY <1>2, <3>1
  <2>8. Decides(h)
    BY <2>2, <2>5, <2>6, <2>7, DecideFrame
  <2> QED BY <1>2, <2>8, TypeParts DEF LoadToRelease, Quiet, RestType
<1> QED BY <1>1, <1>2 DEF LoadToRelease

LEMMA LoadQuiet ==
  ASSUME TypeOK, NEW h \in Home, Load(h)
  PROVE  Quiet(h)
BY ObserveQuiet, LoadToAcquireQuiet, LoadToReleaseQuiet, RecordFailureQuiet, RequeueQuiet,
   MarkMergedQuiet, LoadToRecoverQuiet DEF Load

LEMMA ThrowQuiet ==
  ASSUME TypeOK, NEW h \in Home, CallThrows(h)
  PROVE  Quiet(h)
<1>1. disturbed' \in [Home -> BOOLEAN] /\ faults' \in Nat
  BY DEF CallThrows, Disturb, Fault, TypeOK
<1>2. Abort(h) /\ UNCHANGED <<manifest, lane, owner, clock, held>>
  BY DEF CallThrows
<1> QED BY <1>1, <1>2, AbortPasses, TypeParts DEF Quiet, RestType

(***************************************************************************)
(* Writes and the world                                                    *)
(***************************************************************************)

\* A home writes what its command decided.
Writes(h) == /\ ~WillLook(frame[h])
             /\ manifest' = [manifest EXCEPT ![WorkflowOf[h]] = frame[h].draft]
             /\ clock' = clock
             /\ RestType'
             /\ Passes(h)

LEMMA AtWrite ==
  ASSUME TypeOK, NEW h \in Home, At(h, "write")
  PROVE  ~WillLook(frame[h])
<1> DEFINE s == frame[h].todo
<1>1. s \in Seq(Call) /\ s # <<>> /\ Head(s) = "write"
  BY TypedFrame DEF At
<1>2. Len(s) \in Nat \ {0} /\ s[1] = "write"
  BY <1>1, LenProperties
<1>3. 1 \in 1..Len(s) /\ 1..(1 - 1) = {}
  BY <1>2
<1> QED BY <1>2, <1>3 DEF WillLook

LEMMA StoreType ==
  ASSUME TypeOK, NEW h \in Home, NEW m, Store(h, m)
  PROVE  ahead' \in Aheads
BY DEF TypeOK, Store, Aheads

LEMMA WriteWrites ==
  ASSUME TypeOK, NEW h \in Home, WriteManifest(h)
  PROVE  Writes(h)
<1>1. ~WillLook(frame[h])
  BY AtWrite DEF WriteManifest
<1>2. Passes(h)
  BY ProceedPasses, NotALook DEF WriteManifest
<1>3. ahead' \in Aheads
  BY StoreType DEF WriteManifest
<1> QED BY <1>1, <1>2, <1>3, TypeParts DEF WriteManifest, Store, Writes, RestType

\* The answer to a call that took effect is lost.
LEMMA AnswerLostCases ==
  ASSUME TypeOK, NEW h \in Home, AnswerLost(h)
  PROVE  Quiet(h) \/ Writes(h)
<1>1. /\ disturbed' \in [Home -> BOOLEAN] /\ faults' \in Nat
      /\ owner' = owner /\ clock' = clock
  BY DEF AnswerLost, Disturb, Fault, TypeOK
<1>2. CASE Grant /\ Abort(h) /\ UNCHANGED <<manifest, held>>
  BY <1>1, <1>2, GrantType, AbortPasses, TypeParts DEF Quiet, RestType
<1>3. CASE /\ lane' = [lane EXCEPT !.live = FALSE] /\ Abort(h)
           /\ held' \in {held, [held EXCEPT ![h] = 0]} /\ UNCHANGED manifest
  <2>1. lane' \in [generation : Nat, live : BOOLEAN] /\ held' \in [Home -> Nat]
    <3>1. [lane EXCEPT !.live = FALSE] \in [generation : Nat, live : BOOLEAN]
      BY DEF TypeOK
    <3>2. [held EXCEPT ![h] = 0] \in [Home -> Nat] /\ held \in [Home -> Nat]
      BY DEF TypeOK
    <3> QED BY <1>3, <3>1, <3>2
  <2> QED BY <1>1, <1>3, <2>1, AbortPasses, TypeParts DEF Quiet, RestType
<1>4. CASE /\ Abort(h) /\ held' \in {held, [held EXCEPT ![h] = 0]}
           /\ UNCHANGED <<manifest, lane>>
  <2>1. held' \in [Home -> Nat]
    BY <1>4 DEF TypeOK
  <2> QED BY <1>1, <1>4, <2>1, AbortPasses, TypeParts DEF Quiet, RestType
<1>5. CASE /\ At(h, "write") /\ Store(h, frame[h].draft)
           /\ Resume(h, [frame[h] EXCEPT !.todo = Cleanup(h), !.draft = NoDraft])
           /\ reply' = [reply EXCEPT ![h] = "failed"] /\ UNCHANGED <<lane, held>>
  <2>1. Passes(h)
    <3> DEFINE g == [frame[h] EXCEPT !.todo = Cleanup(h), !.draft = NoDraft]
    <3>1. g \in Frame /\ WillLook(g) /\ Resume(h, g)
      BY <1>5, CleanupFrame
    <3> HIDE DEF g
    <3> QED BY <3>1, ResumeFrame, IdleFrame DEF Passes
  <2>2. reply' \in Replies /\ ahead' \in Aheads
    BY <1>5, StoreType DEF TypeOK, Replies
  <2> QED BY <1>1, <1>5, <2>1, <2>2, AtWrite, TypeParts DEF Store, Writes, RestType
<1> QED BY <1>2, <1>3, <1>4, <1>5 DEF AnswerLost

\* Time passes, a lease ends or is claimed, a home is started again.
Elsewhere ==
  /\ manifest' = manifest
  /\ clock' >= clock
  /\ RestType'
  /\ frame' = frame \/ \E h \in Home : Passes(h)

LEMMA CrashElsewhere ==
  ASSUME TypeOK, NEW h \in Home, Crash(h)
  PROVE  Elsewhere
<1>1. Passes(h)
  BY IdleFrame DEF Crash, TypeOK, Passes, OthersKept
<1>2. RestType'
  BY DEF Crash, Fault, Disturb, TypeOK, RestType, Replies, Aheads
<1>3. clock' >= clock
  BY DEF Crash, TypeOK
<1> QED BY <1>1, <1>2, <1>3 DEF Crash, Elsewhere

LEMMA WorldElsewhere ==
  ASSUME TypeOK, World
  PROVE  Elsewhere
<1>1. ASSUME NEW h \in Home, Claim(h) PROVE Elsewhere
  BY <1>1 DEF Claim, TypeOK, RestType, Replies, Aheads, Elsewhere
<1>2. ASSUME NEW w \in Workflow, OwnerEnds(w) PROVE Elsewhere
  BY <1>2 DEF OwnerEnds, Fault, TypeOK, RestType, Replies, Aheads, Elsewhere
<1>3. CASE LaneRunsOut
  <2>1. lane' \in [generation : Nat, live : BOOLEAN]
    BY <1>3 DEF LaneRunsOut, TypeOK
  <2>2. clock' = clock /\ clock' >= clock
    BY <1>3 DEF LaneRunsOut, TypeOK
  <2> QED BY <1>3, <2>1, <2>2, TypeParts DEF LaneRunsOut, RestType, Elsewhere
<1>4. CASE Tick
  BY <1>4 DEF Tick, TypeOK, RestType, Replies, Aheads, Elsewhere
<1> QED BY <1>1, <1>2, <1>3, <1>4, CrashElsewhere DEF World

LEMMA RunCases ==
  ASSUME TypeOK, NEW h \in Home, Run(h)
  PROVE  Quiet(h) \/ Writes(h)
BY WorkflowAuthorityQuiet, HeldLeaseQuiet, FenceQuiet, AcquireQuiet, ReleaseQuiet,
   InspectQuiet, LoadQuiet, ReloadQuiet, WriteWrites, ThrowQuiet, AnswerLostCases DEF Run

\* What a step can be.
LEMMA StepCases ==
  ASSUME TypeOK, [Next]_vars
  PROVE  (\E h \in Home : Quiet(h) \/ Writes(h)) \/ Elsewhere
<1>2. ASSUME NEW h \in Home, NEW c \in Offered, Transition(h, c) PROVE Quiet(h)
  <2>1. Passes(h)
    BY <1>2, TransitionPasses
  <2> QED BY <1>2, <2>1 DEF Transition, TypeOK, RestType, Replies, Aheads, Quiet
<1>3. CASE UNCHANGED vars
  BY <1>3 DEF vars, TypeOK, RestType, Replies, Aheads, Elsewhere
<1> QED BY <1>2, <1>3, RunCases, WorldElsewhere DEF Next

(***************************************************************************)
(* Types                                                                   *)
(***************************************************************************)

LEMMA InitQueue == Init => QueueInv
<1> SUFFICES ASSUME Init PROVE QueueInv
  OBVIOUS
<1>1. manifest \in Manifests
  <2>1. MergeReady(0) \in Candidate /\ Plain("awaiting-pr-checks") \in Candidate
    BY MergeReadyType, PlainType
  <2>2. (CHOOSE s \in Sha : TRUE) \in Sha
    OBVIOUS
  <2> QED BY <2>1, <2>2 DEF Init, Manifests, Manifest
<1>2. frame \in [Home -> Frame] /\ \A h \in Home : frame[h] = Idle
  BY IdleFrame DEF Init
<1>3. RestType
  BY DEF Init, RestType, Replies, Aheads
<1> QED BY <1>1, <1>2, <1>3, IdleFrame, TypeParts DEF QueueInv, DraftTyped

LEMMA QueueStep == QueueInv /\ [Next]_vars => QueueInv'
<1> SUFFICES ASSUME QueueInv, [Next]_vars PROVE QueueInv'
  OBVIOUS
<1>0. TypeOK /\ \A k \in Home : DraftTyped(frame[k])
  BY DEF QueueInv
<1>1. ASSUME NEW h \in Home, Passes(h)
      PROVE  frame' \in [Home -> Frame] /\ \A k \in Home : DraftTyped(frame'[k])
  BY <1>0, <1>1 DEF Passes, OthersKept, DraftTyped
<1>2. ASSUME NEW h \in Home, Decides(h)
      PROVE  frame' \in [Home -> Frame] /\ \A k \in Home : DraftTyped(frame'[k])
  BY <1>0, <1>2 DEF Decides, OthersKept, DraftTyped
<1>3. ASSUME NEW h \in Home, Quiet(h) PROVE QueueInv'
  <2>1. frame' \in [Home -> Frame] /\ \A k \in Home : DraftTyped(frame'[k])
    BY <1>1, <1>2, <1>3 DEF Quiet
  <2>2. manifest' \in Manifests /\ RestType'
    BY <1>0, <1>3 DEF Quiet, TypeOK
  <2>3. TypeOK'
    BY <2>1, <2>2 DEF TypeOK, RestType, Replies, Aheads
  <2> QED BY <2>1, <2>3 DEF QueueInv, DraftTyped, WillLook
<1>4. ASSUME NEW h \in Home, Writes(h) PROVE QueueInv'
  <2>1. frame' \in [Home -> Frame] /\ \A k \in Home : DraftTyped(frame'[k])
    BY <1>1, <1>4 DEF Writes
  <2>2. frame[h].draft \in Manifest /\ WorkflowOf[h] \in Workflow
    BY <1>0, <1>4, TypedFrame DEF Writes, DraftTyped
  <2>3. manifest' \in Manifests /\ RestType'
    BY <1>0, <1>4, <2>2 DEF Writes, TypeOK, Manifests
  <2>4. TypeOK'
    BY <2>1, <2>3 DEF TypeOK, RestType, Replies, Aheads
  <2> QED BY <2>1, <2>4 DEF QueueInv, DraftTyped, WillLook
<1>5. CASE Elsewhere
  <2>1. frame' \in [Home -> Frame] /\ \A k \in Home : DraftTyped(frame'[k])
    BY <1>0, <1>1, <1>5 DEF Elsewhere, TypeOK
  <2>2. manifest' \in Manifests /\ RestType'
    BY <1>0, <1>5 DEF Elsewhere, TypeOK
  <2>3. TypeOK'
    BY <2>1, <2>2 DEF TypeOK, RestType, Replies, Aheads
  <2> QED BY <2>1, <2>3 DEF QueueInv, DraftTyped, WillLook
<1> QED BY <1>0, <1>3, <1>4, <1>5, StepCases

LEMMA QueueInductive == Spec => []QueueInv
BY InitQueue, QueueStep, PTL DEF Spec

\* The variables keep their types: whatever a command has on its way to the
\* tracker, after any loss, crash or recovery, is a manifest.
THEOREM QueueTypeCorrect == Spec => []TypeOK
<1>1. QueueInv => TypeOK
  BY DEF QueueInv
<1> QED BY <1>1, QueueInductive, PTL

(***************************************************************************)
(* Candidates over their life                                              *)
(***************************************************************************)

\* Every workflow is delivered by one home, as the delivery module has it.
OneHomePerWorkflow == \A g, h \in Home : WorkflowOf[g] = WorkflowOf[h] => g = h

\* A command that has decided has decided on a move that is still open.
Settled(h) ==
  \/ WillLook(frame[h])
  \/ /\ Proper(frame[h].draft.candidate)
     /\ Move(Own(h).candidate, frame[h].draft.candidate, clock)

LifeInv == /\ QueueInv
           /\ \A w \in Workflow : Proper(manifest[w].candidate)
           /\ \A h \in Home : Settled(h)

LEMMA InitLife == Init => LifeInv
<1> SUFFICES ASSUME Init PROVE LifeInv
  OBVIOUS
<1>1. \A w \in Workflow : Proper(manifest[w].candidate)
  <2>1. /\ MergeReady(0).state = "merge-ready"
        /\ Plain("awaiting-pr-checks").state = "awaiting-pr-checks"
    BY MergeReadyType, PlainType
  <2> QED BY <2>1 DEF Init, Proper
<1>2. \A h \in Home : frame[h] = Idle
  BY DEF Init
<1> QED BY <1>1, <1>2, InitQueue, IdleFrame DEF LifeInv, Settled

\* What a home that has nothing to do with a step had decided stays open.
LEMMA SettledKept ==
  ASSUME QueueInv, NEW k \in Home, Settled(k), frame'[k] = frame[k],
         manifest'[WorkflowOf[k]] = manifest[WorkflowOf[k]],
         clock' \in Nat, clock' >= clock
  PROVE  Settled(k)'
<1>1. Own(k).candidate \in Candidate /\ clock \in Nat
  BY TypedFrame DEF QueueInv
<1>2. clock <= clock'
  BY <1>1
<1>3. CASE WillLook(frame[k])
  BY <1>3 DEF Settled, WillLook
<1>4. CASE /\ Proper(frame[k].draft.candidate)
           /\ Move(Own(k).candidate, frame[k].draft.candidate, clock)
  <2>1. Move(Own(k).candidate, frame[k].draft.candidate, clock')
    BY <1>1, <1>2, <1>4, MoveLater
  <2>2. Move(manifest'[WorkflowOf[k]].candidate, frame'[k].draft.candidate, clock')
    BY <2>1 DEF Own
  <2>3. Proper(frame'[k].draft.candidate)
    BY <1>4
  <2> QED BY <2>2, <2>3 DEF Settled, Own, Move, Follow, KeepBudget, Proper
<1> QED BY <1>3, <1>4 DEF Settled

\* A home whose own manifest stays as it is keeps its decision, or makes one.
LEMMA SettledOwn ==
  ASSUME QueueInv, NEW h \in Home, Settled(h), Proper(Own(h).candidate),
         Passes(h) \/ Decides(h),
         manifest'[WorkflowOf[h]] = manifest[WorkflowOf[h]],
         clock' \in Nat, clock' >= clock
  PROVE  Settled(h)'
<1> DEFINE d == frame'[h].draft.candidate
<1>1. Own(h).candidate \in Candidate /\ clock \in Nat
  BY TypedFrame DEF QueueInv
<1>2. WillLook(frame'[h]) \/ (Proper(d) /\ Move(Own(h).candidate, d, clock))
  BY DEF Passes, Decides, Settled
<1>3. CASE WillLook(frame'[h])
  BY <1>3 DEF Settled, WillLook
<1>4. CASE Proper(d) /\ Move(Own(h).candidate, d, clock)
  <2>1. clock <= clock'
    BY <1>1
  <2>2. Move(Own(h).candidate, d, clock')
    BY <1>1, <1>4, <2>1, MoveLater
  <2>3. Move(manifest'[WorkflowOf[h]].candidate, d, clock')
    BY <2>2 DEF Own
  <2> QED BY <1>4, <2>3 DEF Settled, Own, Move, Follow, KeepBudget, Proper
<1> QED BY <1>2, <1>3, <1>4

\* What a home writes is a move of its candidate.
LEMMA WriteMoves ==
  ASSUME LifeInv, NEW h \in Home, Writes(h)
  PROVE  LET c == manifest[WorkflowOf[h]].candidate
             d == manifest'[WorkflowOf[h]].candidate
         IN d = frame[h].draft.candidate /\ Proper(d) /\ Move(c, d, clock)
<1>1. manifest'[WorkflowOf[h]] = frame[h].draft
  BY DEF Writes, LifeInv, QueueInv, TypeOK, Manifests
<1> QED BY <1>1 DEF Writes, LifeInv, Settled, Own

LEMMA LifeStep ==
  ASSUME OneHomePerWorkflow
  PROVE  LifeInv /\ [Next]_vars => LifeInv'
<1> SUFFICES ASSUME LifeInv, [Next]_vars PROVE LifeInv'
  OBVIOUS
<1>1. /\ QueueInv /\ TypeOK
      /\ \A w \in Workflow : Proper(manifest[w].candidate)
      /\ \A k \in Home : Settled(k) /\ Proper(Own(k).candidate) /\ WorkflowOf[k] \in Workflow
  BY DEF LifeInv, QueueInv, Own
<1>2. QueueInv'
  BY <1>1, QueueStep
<1>3. clock \in Nat /\ clock' \in Nat
  BY <1>1, <1>2 DEF QueueInv, TypeOK
<1>4. ASSUME manifest' = manifest PROVE \A w \in Workflow : Proper(manifest'[w].candidate)
  BY <1>1, <1>4
<1>5. ASSUME NEW h \in Home, Quiet(h) PROVE LifeInv'
  <2>1. manifest' = manifest /\ clock' >= clock
    BY <1>3, <1>5 DEF Quiet
  <2>2. Settled(h)'
    BY <1>1, <1>3, <1>5, <2>1, SettledOwn DEF Quiet
  <2>3. ASSUME NEW k \in Home \ {h} PROVE Settled(k)'
    <3>1. frame'[k] = frame[k]
      BY <1>5 DEF Quiet, Passes, Decides, OthersKept
    <3> QED BY <1>1, <1>3, <2>1, <3>1, SettledKept
  <2>4. \A k \in Home : Settled(k)'
    BY <2>2, <2>3
  <2> QED BY <1>2, <1>4, <2>1, <2>4 DEF LifeInv, Proper
<1>6. ASSUME NEW h \in Home, Writes(h) PROVE LifeInv'
  <2> DEFINE v == WorkflowOf[h]
             d == frame[h].draft.candidate
  <2>1. manifest'[v].candidate = d /\ Proper(d)
    BY <1>6, WriteMoves
  <2>2. \A w \in Workflow \ {v} : manifest'[w] = manifest[w]
    BY <1>1, <1>6 DEF Writes, TypeOK, Manifests
  <2>3. \A w \in Workflow : Proper(manifest'[w].candidate)
    BY <1>1, <2>1, <2>2
  <2>4. Settled(h)'
    <3>1. CASE WillLook(frame'[h])
      BY <3>1 DEF Settled, WillLook
    <3>2. CASE frame'[h].draft = frame[h].draft
      <4>1. Move(manifest'[v].candidate, frame'[h].draft.candidate, clock')
        BY <2>1, <3>2, SameMove
      <4> QED BY <2>1, <3>2, <4>1 DEF Settled, Own, Move, Follow, KeepBudget, Proper
    <3> QED BY <1>6, <3>1, <3>2 DEF Writes, Passes
  <2>5. ASSUME NEW k \in Home \ {h} PROVE Settled(k)'
    <3>1. frame'[k] = frame[k]
      BY <1>6 DEF Writes, Passes, OthersKept
    <3>2. WorkflowOf[k] \in Workflow \ {v}
      BY <1>1 DEF OneHomePerWorkflow
    <3>3. clock' >= clock
      BY <1>3, <1>6 DEF Writes
    <3> QED BY <1>1, <1>3, <2>2, <3>1, <3>2, <3>3, SettledKept
  <2>6. \A k \in Home : Settled(k)'
    BY <2>4, <2>5
  <2> QED BY <1>2, <2>3, <2>6 DEF LifeInv, Proper
<1>7. CASE Elsewhere
  <2>1. manifest' = manifest /\ clock' >= clock
    BY <1>7 DEF Elsewhere
  <2>2. ASSUME NEW k \in Home PROVE Settled(k)'
    <3>1. CASE frame'[k] = frame[k]
      BY <1>1, <1>3, <2>1, <3>1, SettledKept
    <3>2. CASE Passes(k)
      BY <1>1, <1>3, <2>1, <3>2, SettledOwn
    <3> QED BY <1>7, <3>1, <3>2 DEF Elsewhere, Passes, OthersKept
  <2> QED BY <1>2, <1>4, <2>1, <2>2 DEF LifeInv, Proper
<1> QED BY <1>1, <1>5, <1>6, <1>7, StepCases

\* Every step moves every candidate as it may move.
LEMMA StepMoves ==
  ASSUME LifeInv, [Next]_vars, NEW w \in Workflow
  PROVE  Move(manifest[w].candidate, manifest'[w].candidate, clock)
<1>1. TypeOK
  BY DEF LifeInv, QueueInv
<1>2. CASE manifest'[w] = manifest[w]
  BY <1>2, SameMove
<1>3. ASSUME NEW h \in Home, Writes(h), manifest'[w] # manifest[w]
      PROVE  Move(manifest[w].candidate, manifest'[w].candidate, clock)
  <2>1. w = WorkflowOf[h]
    BY <1>1, <1>3 DEF Writes, TypeOK, Manifests
  <2> QED BY <1>3, <2>1, WriteMoves
<1> QED BY <1>1, <1>2, <1>3, StepCases DEF Quiet, Elsewhere

THEOREM QueueLifeInductive ==
  ASSUME OneHomePerWorkflow
  PROVE  Spec => []LifeInv
BY InitLife, LifeStep, PTL DEF Spec

\* A candidate goes only where its life may go, though what is written was
\* decided several calls, losses and takeovers of the lane before.
THEOREM LifecycleKept ==
  ASSUME OneHomePerWorkflow
  PROVE  Spec => CandidateLifecycle
<1>1. LifeInv /\ [Next]_vars =>
        \A w \in Workflow :
          LET s == manifest[w].candidate.state
              t == manifest'[w].candidate.state
          IN s # t => t \in Follows[s]
  BY StepMoves DEF Move, Follow
<1> QED BY <1>1, QueueLifeInductive, PTL DEF Spec, CandidateLifecycle

\* A transient retry never gains budget, skips an attempt, or goes back to the
\* checks before its backoff has elapsed, for every budget callers may ask for.
THEOREM BudgetKept ==
  ASSUME OneHomePerWorkflow
  PROVE  Spec => RetryBudgetIsKept
<1>1. LifeInv /\ [Next]_vars =>
        \A w \in Workflow :
          LET c == manifest[w].candidate
              d == manifest'[w].candidate
          IN (c.state = "transient-retry" /\ d # c) =>
               CASE d.state = "awaiting-pr-checks" -> c.retry.nextRetryAt <= clock
                 [] d.state = "transient-retry" /\ d.retry.reason = c.retry.reason ->
                      /\ d.retry.maxAttempts <= c.retry.maxAttempts
                      /\ d.retry.attempt = c.retry.attempt + 1
                      /\ d.retry.attempt <= d.retry.maxAttempts
                 [] OTHER -> TRUE
  BY StepMoves DEF Move, KeepBudget
<1> QED BY <1>1, QueueLifeInductive, PTL DEF Spec, RetryBudgetIsKept

=============================================================================
