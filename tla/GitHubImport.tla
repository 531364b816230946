---------------------------- MODULE GitHubImport -----------------------------
(***************************************************************************)
(* Imports from GitHub, of all users, under GitHub's limit on calls.  What *)
(* GitHub last said it has left is remembered in the cache for all imports *)
(* and decides whether the next one asks at all, and how deep it looks.    *)
(* Every call may also fail for another reason.  The job row, its rate     *)
(* limit and its cooldown are ImportJobs.                                  *)
(***************************************************************************)
EXTENDS Integers

CONSTANTS
  GitHubTask,   \* imports that run together
  Quota,        \* calls GitHub admits until it resets them
  MaxCalls,     \* calls of one import
  MaxPages,     \* pages of repositories
  MaxLooks,     \* bound: calls the in-depth look of an import may want
  MinQuota,     \* an import stops looking when fewer are left
  QuotaLow,     \* PROFILE_IMPORT_GITHUB_QUOTA_LOW_ANONYMOUS
  QuotaShallow, \* PROFILE_IMPORT_GITHUB_QUOTA_LOW_WITH_TOKEN
  BlockTime,    \* how long a refusal is remembered, in ticks
  KeepTime,     \* how long the number a successful import heard is
  NotKnown      \* nothing remembered, nothing heard yet

ASSUME GitHubAssumption ==
  /\ {Quota, MaxCalls, MaxPages, MaxLooks, MinQuota, QuotaLow, QuotaShallow} \subseteq Nat
  /\ {BlockTime, KeepTime} \subseteq Nat \ {0} /\ BlockTime <= KeepTime /\ NotKnown \notin Nat
  /\ MaxPages >= 1 /\ MaxCalls >= 1 + MaxPages

VARIABLES
  quotaLeft,    \* calls GitHub admits now
  quotaMemory,  \* the cached number, GITHUB_QUOTA_KEY
  memoryTime,   \* ticks until it expires
  gitHubTask    \* the running imports

gitHubVars == <<quotaLeft, quotaMemory, memoryTime, gitHubTask>>

IdleImport == [step |-> "idle"]

\* looks: calls the in-depth look still wants; heard: X-RateLimit-Remaining.
FetchSteps == [step : {"user", "pages", "pinned", "look"}, deep : BOOLEAN,
               calls : 0..MaxCalls, looks : 0..MaxLooks, heard : 0..Quota \cup {NotKnown}]
ReadySteps == [step : {"ready"}, mode : {"full", "partial", "light"}, calls : 0..MaxCalls,
               heard : 0..Quota \cup {NotKnown}]
FailedSteps == [step : {"failed"}, code : {"rate_limited", "other"}, local : BOOLEAN]

GitHubTypeOK ==
  /\ quotaLeft \in 0..Quota
  /\ quotaMemory \in 0..Quota \cup {NotKnown} /\ memoryTime \in 0..KeepTime
  /\ gitHubTask \in [GitHubTask -> {IdleImport} \cup FetchSteps \cup ReadySteps \cup FailedSteps]

GitHubInit ==
  /\ quotaLeft = Quota /\ quotaMemory = NotKnown /\ memoryTime = 0
  /\ gitHubTask = [t \in GitHubTask |-> IdleImport]

SetTask(t, task) == gitHubTask' = [gitHubTask EXCEPT ![t] = task]
Remember(n, time) == quotaMemory' = n /\ memoryTime' = time

-----------------------------------------------------------------------------
(* One call: _request                                                      *)

Failed(code, local) == [step |-> "failed", code |-> code, local |-> local]

\* GitHub counts every call it hears of, and says in most answers what is left.
Heard == IF quotaLeft = 0 THEN 0 ELSE quotaLeft - 1

\* notFound: 404; refused: 403 or 429, of which some leave a quota; error: any
\* other status, and a body that is too long or does not parse.
Status == {"ok", "notFound", "refused", "error"}

\* The last call GitHub admits is already taken for a refusal.
RateLimited(status, told) ==
  status = "refused" \/ (status # "notFound" /\ told /\ Heard = 0)

Called(task, told) ==
  IF task.step \in {"idle", "failed"} THEN task
  ELSE IF told THEN [task EXCEPT !.calls = @ + 1, !.heard = Heard]
  ELSE [task EXCEPT !.calls = @ + 1]

Outcome(status, told, next, limited, lost) ==
  IF RateLimited(status, told) THEN limited ELSE IF status = "ok" THEN next ELSE lost

\* A call of task t: next if it succeeds, limited if GitHub refuses it, lost
\* if it fails otherwise, perhaps without an answer, or without a call.
Call(t, next, limited, lost) ==
  \/ \E status \in Status, told \in BOOLEAN :
       /\ quotaLeft = 0 => status = "refused"
       /\ quotaLeft' = Heard
       /\ SetTask(t, Called(Outcome(status, told, next, limited, lost), told))
  \/ /\ quotaLeft' \in {quotaLeft, Heard}
     /\ SetTask(t, Called(lost, FALSE))

-----------------------------------------------------------------------------
(* An import                                                               *)

\* run_github_job and _github_full_mode: nearly nothing left, and GitHub is
\* not even asked; little left, and the import stays shallow.
StartGitHub(t, token, looks) ==
  /\ gitHubTask[t] = IdleImport
  /\ SetTask(t, IF quotaMemory # NotKnown /\ quotaMemory < QuotaLow
                THEN Failed("rate_limited", TRUE)
                ELSE [step |-> "user", calls |-> 0, looks |-> looks, heard |-> NotKnown,
                      deep |-> token /\ (quotaMemory = NotKnown \/ quotaMemory >= QuotaShallow)])
  /\ UNCHANGED <<quotaLeft, quotaMemory, memoryTime>>

FetchUser(t) ==
  /\ gitHubTask[t].step = "user"
  /\ Call(t, [gitHubTask[t] EXCEPT !.step = "pages"], Failed("rate_limited", FALSE), Failed("other", FALSE))
  /\ UNCHANGED <<quotaMemory, memoryTime>>

Ready(task, mode) ==
  [step |-> "ready", mode |-> mode, calls |-> task.calls, heard |-> task.heard]

\* Each page of repositories, until one is short; any that fails fails the
\* import.
FetchPage(t, short) ==
  LET task == gitHubTask[t]
      last == short \/ task.calls = MaxPages IN
  /\ task.step = "pages"
  /\ Call(t, IF ~last THEN task
             ELSE IF task.deep THEN [task EXCEPT !.step = "pinned"] ELSE Ready(task, "light"),
          Failed("rate_limited", FALSE), Failed("other", FALSE))
  /\ UNCHANGED <<quotaMemory, memoryTime>>

OutOfBudget(task) == task.calls >= MaxCalls \/ (task.heard # NotKnown /\ task.heard < MinQuota)

\* The budget is looked at before every call that is left.
StopLooking(t) ==
  /\ gitHubTask[t].step = "pinned" \/ (gitHubTask[t].step = "look" /\ gitHubTask[t].looks > 0)
  /\ SetTask(t, Ready(gitHubTask[t], "partial"))
  /\ UNCHANGED <<quotaLeft, quotaMemory, memoryTime>>

BudgetIsSpent(t) ==
  /\ gitHubTask[t].step \in {"pinned", "look"} /\ OutOfBudget(gitHubTask[t])
  /\ StopLooking(t)

\* MAX_SECONDS
GitHubTimeIsUp(t) == StopLooking(t)

FetchPinned(t) ==
  LET task == gitHubTask[t] IN
  /\ task.step = "pinned" /\ ~OutOfBudget(task)
  /\ Call(t, [task EXCEPT !.step = "look"], Ready(task, "partial"), [task EXCEPT !.step = "look"])
  /\ UNCHANGED <<quotaMemory, memoryTime>>

\* Languages, files and manifests of the best repositories.  A limit ends the
\* look and marks the import, any other failure is no data.
LookDeeper(t) ==
  LET task == gitHubTask[t]
      nothing == [task EXCEPT !.looks = @ - 1] IN
  /\ task.step = "look" /\ task.looks > 0 /\ ~OutOfBudget(task)
  /\ Call(t, nothing, Ready(task, "partial"), nothing)
  /\ UNCHANGED <<quotaMemory, memoryTime>>

LookedAtAll(t) ==
  /\ gitHubTask[t].step = "look" /\ gitHubTask[t].looks = 0
  /\ SetTask(t, Ready(gitHubTask[t], "full"))
  /\ UNCHANGED <<quotaLeft, quotaMemory, memoryTime>>

\* What was last said to be left is remembered.
FinishGitHub(t) ==
  /\ gitHubTask[t].step = "ready"
  /\ IF gitHubTask[t].heard = NotKnown THEN UNCHANGED <<quotaMemory, memoryTime>>
     ELSE Remember(gitHubTask[t].heard, KeepTime)
  /\ SetTask(t, IdleImport)
  /\ UNCHANGED quotaLeft

\* Fault: every refusal starts the block again.
BlocksAlways(task) == task.code = "rate_limited"

\* Only GitHub's own refusal keeps the next imports away.
Blocks(task) == task.code = "rate_limited" /\ ~task.local

FailGitHub(t) ==
  /\ gitHubTask[t].step = "failed"
  /\ IF Blocks(gitHubTask[t]) THEN Remember(0, BlockTime) ELSE UNCHANGED <<quotaMemory, memoryTime>>
  /\ SetTask(t, IdleImport)
  /\ UNCHANGED quotaLeft

-----------------------------------------------------------------------------
ResetQuota ==
  /\ quotaLeft' = Quota
  /\ UNCHANGED <<quotaMemory, memoryTime, gitHubTask>>

TickMemory ==
  /\ quotaMemory # NotKnown
  /\ memoryTime' = memoryTime - 1
  /\ quotaMemory' = IF memoryTime = 1 THEN NotKnown ELSE quotaMemory
  /\ UNCHANGED <<quotaLeft, gitHubTask>>

FetchStep(t) ==
  \/ FetchUser(t) \/ (\E short \in BOOLEAN : FetchPage(t, short)) \/ FetchPinned(t)
  \/ LookDeeper(t) \/ LookedAtAll(t) \/ BudgetIsSpent(t) \/ FinishGitHub(t) \/ FailGitHub(t)

GitHubNext ==
  \/ \E t \in GitHubTask :
       \/ \E token \in BOOLEAN, looks \in 0..MaxLooks : StartGitHub(t, token, looks)
       \/ FetchStep(t) \/ GitHubTimeIsUp(t)
  \/ ResetQuota \/ TickMemory

\* Time passes.
GitHubFairness == WF_gitHubVars(TickMemory)

GitHubSpec == GitHubInit /\ [][GitHubNext]_gitHubVars /\ GitHubFairness

-----------------------------------------------------------------------------
(* Properties                                                              *)

(* However often users try, no refusal lasts: imports are let through to   *)
(* GitHub again and again.                                                 *)
RefusalsEnd == []<>(quotaMemory = NotKnown \/ quotaMemory >= QuotaLow)
=============================================================================
