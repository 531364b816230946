----------------------------- MODULE AutoApply ------------------------------
(***************************************************************************)
(* The auto-apply flow of one user: a Celery task drafts an application,   *)
(* the user edits, confirms and sends it from the review queue, a second   *)
(* task drives the employer's form, and a periodic sweep settles what got  *)
(* stuck.  Every query of these handlers is scoped to one user, and so is  *)
(* the verification lease, so users do not interact.                       *)
(*                                                                         *)
(* A handler that reads a row and saves it later is two actions, with what *)
(* it read kept in request[q] or worker[w]; a guarded UPDATE is one.       *)
(* Celery acknowledges early: a message is delivered at most once, and a   *)
(* killed worker loses its run.                                            *)
(*                                                                         *)
(* "Fault:" marks a faulty variant of the definition that follows it.  No  *)
(* specification uses these; they show which mistakes the properties catch.*)
(***************************************************************************)
EXTENDS Integers, FiniteSets, DraftAnswers

CONSTANTS
  Job,             \* Greenhouse jobs
  Draft,           \* primary keys of AutoApplyDraft rows, never reused
  Worker,          \* slots of the Celery worker pool
  Request,         \* web requests that may be between a read and a write
  ResumeKey,       \* storage keys of uploaded resumes, never reused
  None,            \* no job, key, draft, worker or answers
  InitialResume,   \* the resume of the profile at the start, or None
  UserMarks,       \* what the user may mark a job as by hand
  InboxChoices,    \* whether inbox credentials can be present, absent or both
  JobChanges,      \* what ingestion may do to a posting: "open", "closed"
  MaxQueued,       \* bound: draft messages waiting for one job
  SendingTimeout,  \* AUTO_APPLY_SENDING_TIMEOUT_SECONDS
  SafetyMargin,    \* _SWEEP_SAFETY_MARGIN_SECONDS
  MinBudget,       \* the floor of _submit_budget_seconds
  LeaseGrace,      \* how long the lease outlives the budget
  HardKill         \* _SUBMIT_HARD_KILL_SECONDS

ASSUME ConstantsAssumption ==
  /\ None \notin Job \cup Draft \cup Worker \cup ResumeKey
  /\ None \notin Answers /\ None \notin Snapshots
  /\ InitialResume \in ResumeKey \cup {None}
  /\ UserMarks \subseteq {"saved", "applied", "dismissed"}
  /\ InboxChoices \subseteq BOOLEAN /\ InboxChoices # {}
  /\ JobChanges \subseteq {"open", "closed"}
  /\ MaxQueued \in Nat \ {0}

(* The system check auto_apply.E001 only orders the first two.             *)
ASSUME TimesAssumption ==
  /\ SendingTimeout \in Nat /\ HardKill \in Nat /\ SendingTimeout < HardKill
  /\ SafetyMargin \in Nat \ {0}
  /\ MinBudget \in Nat \ {0}
  /\ LeaseGrace \in Nat \ {0}

\* Fault: the safety margin is forgotten.
BudgetWithoutMargin == IF SendingTimeout >= MinBudget THEN SendingTimeout ELSE MinBudget

Budget == IF SendingTimeout - SafetyMargin >= MinBudget
          THEN SendingTimeout - SafetyMargin ELSE MinBudget

\* Fault: the lease does not cover the budget.
LeaseOfGraceOnly == LeaseGrace

LeaseTime == Budget + LeaseGrace

VARIABLES
  (* AutoApplyDraft rows *)
  status, reason, target, answers, file, snapshot, linked,
  age,         \* time since updated_at, counted while the draft is SENDING
  older,       \* <<d, e>>: d was last updated before e
  (* the rest of the database, storage and cache *)
  application, jobStatus, inbox, resume, blob, lease,
  (* Celery queues, worker slots and web requests *)
  draftQueue, submitQueue, worker, request,
  (* what the employer has received for a draft *)
  filed

draftVars   == <<status, reason, target, answers, file, snapshot, linked, age, older>>
worldVars   == <<application, jobStatus, inbox>>
resumeVars  == <<resume, blob>>
queueVars   == <<draftQueue, submitQueue>>
vars == <<draftVars, worldVars, resumeVars, lease, queueVars, worker, request, filed>>

-----------------------------------------------------------------------------
(* Types                                                                   *)

ActiveStatuses == {"drafted", "sending"}

Statuses == ActiveStatuses \cup
  {"absent", "deleted", "stale", "applied", "failed", "excluded"}

ExclusionReasons == {"schema_mismatch", "form_load_failed", "unanswerable_required"}

\* What can go wrong before the submit button is clicked.
PreClickReasons ==
  {"captcha_challenged", "schema_mismatch", "submission_failed", "unexpected_error"}

\* What can go wrong while the emailed code is looked up.
LookupReasons ==
  {"verification_code_timeout", "inbox_auth_failed", "inbox_unavailable",
   "verification_code_rejected", "unexpected_error"}

Reasons == ExclusionReasons \cup PreClickReasons \cup LookupReasons \cup
  {"submission_unconfirmed", "sending_timeout", "no_inbox_credentials",
   "resume_replaced", "unconfirmed_answers"}

\* The steps of a submit run in which the employer has no application yet.
UnfiledSteps == {"opened", "filling", "stuck", "challenged", "polling"}

SubmitSteps == UnfiledSteps \cup {"clicked", "entered", "confirmed"}

IdleWorker == [step |-> "idle", draft |-> None, job |-> None, answers |-> None,
               file |-> None, polls |-> FALSE, elapsed |-> 0, picked |-> 0]

WorkerStates ==
  [step : SubmitSteps \cup {"idle", "drafting"}, draft : Draft \cup {None},
   job : Job \cup {None}, answers : Answers \cup {None},
   file : ResumeKey \cup {None}, polls : BOOLEAN, elapsed : Nat, picked : Nat]

IdleRequest == [step |-> "idle", draft |-> None, answers |-> None,
                key |-> None, ids |-> {}]

RequestStates ==
  [step : {"idle", "editing", "confirming", "saving", "replaced", "retiring"},
   draft : Draft \cup {None}, answers : Answers \cup {None},
   key : ResumeKey \cup {None}, ids : SUBSET Draft]

FreeLease == [holder |-> None, ttl |-> 0]

TypeOK ==
  /\ status \in [Draft -> Statuses]
  /\ reason \in [Draft -> Reasons \cup {None}]
  /\ target \in [Draft -> Job \cup {None}]
  /\ answers \in [Draft -> Answers \cup {None}]
  /\ file \in [Draft -> ResumeKey \cup {None}]
  /\ snapshot \in [Draft -> Snapshots \cup {None}]
  /\ linked \in [Draft -> BOOLEAN]
  /\ age \in [Draft -> Nat]
  /\ older \subseteq Draft \X Draft
  /\ application \in [Job -> {"none", "saved", "applied", "dismissed"}]
  /\ jobStatus \in [Job -> {"open", "closed"}]
  /\ inbox \in BOOLEAN
  /\ resume \in ResumeKey \cup {None}
  /\ blob \in [ResumeKey -> {"unused", "stored", "deleted"}]
  /\ lease \in [holder : Worker \cup {None}, ttl : Nat]
  /\ draftQueue \in [Job -> Nat]
  /\ submitQueue \in [Draft -> {"none", "ready", "delayed"}]
  /\ worker \in [Worker -> WorkerStates]
  /\ request \in [Request -> RequestStates]
  /\ filed \in [Draft -> Answers \cup {None}]

Init ==
  /\ status = [d \in Draft |-> "absent"]
  /\ reason = [d \in Draft |-> None]
  /\ target = [d \in Draft |-> None]
  /\ answers = [d \in Draft |-> None]
  /\ file = [d \in Draft |-> None]
  /\ snapshot = [d \in Draft |-> None]
  /\ linked = [d \in Draft |-> FALSE]
  /\ age = [d \in Draft |-> 0]
  /\ older = {}
  /\ application = [j \in Job |-> "none"]
  /\ jobStatus = [j \in Job |-> "open"]
  /\ inbox \in InboxChoices
  /\ resume = InitialResume
  /\ blob = [k \in ResumeKey |-> IF k = InitialResume THEN "stored" ELSE "unused"]
  /\ lease = FreeLease
  /\ draftQueue = [j \in Job |-> 0]
  /\ submitQueue = [d \in Draft |-> "none"]
  /\ worker = [w \in Worker |-> IdleWorker]
  /\ request = [q \in Request |-> IdleRequest]
  /\ filed = [d \in Draft |-> None]

-----------------------------------------------------------------------------
(* Queries and row updates                                                 *)

Rows(j) == {d \in Draft : target[d] = j /\ status[d] \notin {"absent", "deleted"}}

Active(j) == {d \in Rows(j) : status[d] \in ActiveStatuses}

\* SUBMISSION_UNCONFIRMED: the employer may already have the application.
MayBeSubmitted(j) == \E d \in Rows(j) : reason[d] = "submission_unconfirmed"

\* The drafts in S get updated_at = now.
Touch(S) ==
  /\ older' = {p \in older : p[1] \notin S /\ p[2] \notin S}
                \cup {p \in Draft \X Draft : p[1] \notin S /\ p[2] \in S}
  /\ age' = [d \in Draft |-> IF d \in S THEN 0 ELSE age[d]]

\* The earlier drafts of j with answers that nothing has been updated after.
Previous(j) ==
  LET answered == {d \in Rows(j) : answers[d] # None}
  IN  {d \in answered : \A e \in answered : <<d, e>> \notin older}

\* Give up the lease only if it is still this run's own.  When the cache does
\* not answer the failure is logged and the lease is left to expire.
Release(w) == lease' \in IF lease.holder = w
                         THEN {FreeLease, [lease EXCEPT !.holder = None]}
                         ELSE {lease}

-----------------------------------------------------------------------------
(* Drafting                                                                *)

TriggerAutoApply(j) ==
  /\ application[j] # "applied"
  /\ \A d \in Rows(j) : status[d] # "applied"
  /\ ~MayBeSubmitted(j)
  /\ draftQueue[j] < MaxQueued
  /\ draftQueue' = [draftQueue EXCEPT ![j] = @ + 1]
  /\ UNCHANGED <<draftVars, worldVars, resumeVars, lease, submitQueue, worker, request, filed>>

\* The profile (and with it the resume key) is loaded before the form is
\* inspected, which takes minutes.
StartDrafting(w, j) ==
  /\ worker[w].step = "idle"
  /\ draftQueue[j] > 0
  /\ draftQueue' = [draftQueue EXCEPT ![j] = @ - 1]
  /\ worker' = IF MayBeSubmitted(j) THEN worker
               ELSE [worker EXCEPT ![w] =
                       [IdleWorker EXCEPT !.step = "drafting", !.job = j, !.file = resume]]
  /\ UNCHANGED <<draftVars, worldVars, resumeVars, lease, submitQueue, request, filed>>

\* Fault: no constraint.
NotConstrained(j) == TRUE

\* The conditional unique constraint admits one active row per user and job.
UniqueActive(j) == Active(j) = {}

PersistDraft(w, d) ==
  LET j == worker[w].job IN
  /\ worker[w].step = "drafting"
  /\ status[d] = "absent"
  /\ UniqueActive(j)
  /\ \E inferred \in [Label -> Inferred] :
       IF Previous(j) = {}
       THEN answers' = [answers EXCEPT ![d] = inferred]
       ELSE \E p \in Previous(j), valid \in SUBSET Label :
              /\ FreeText \subseteq valid
              /\ answers' = [answers EXCEPT ![d] = CarryForward(inferred, answers[p], valid)]
  /\ status' = [status EXCEPT ![d] = "drafted"]
  /\ target' = [target EXCEPT ![d] = j]
  /\ file' = [file EXCEPT ![d] = worker[w].file]
  /\ Touch({d})
  /\ worker' = [worker EXCEPT ![w] = IdleWorker]
  /\ UNCHANGED <<reason, snapshot, linked, worldVars, resumeVars, lease, queueVars, request, filed>>

\* An EXCLUDED row is outside the constraint and is always created.
PersistExcluded(w, d) ==
  /\ worker[w].step = "drafting"
  /\ status[d] = "absent"
  /\ status' = [status EXCEPT ![d] = "excluded"]
  /\ \E r \in ExclusionReasons : reason' = [reason EXCEPT ![d] = r]
  /\ target' = [target EXCEPT ![d] = worker[w].job]
  /\ Touch({d})
  /\ worker' = [worker EXCEPT ![w] = IdleWorker]
  /\ UNCHANGED <<answers, file, snapshot, linked, worldVars, resumeVars, lease,
                 queueVars, request, filed>>

\* The constraint was violated, an exception was swallowed, or the task was
\* killed: no row.
AbandonDrafting(w) ==
  /\ worker[w].step = "drafting"
  /\ worker' = [worker EXCEPT ![w] = IdleWorker]
  /\ UNCHANGED <<draftVars, worldVars, resumeVars, lease, queueVars, request, filed>>

-----------------------------------------------------------------------------
(* The review queue                                                        *)

BeginEdit(q, d) ==
  /\ request[q].step = "idle"
  /\ status[d] = "drafted"
  /\ request' = [request EXCEPT ![q] =
       [IdleRequest EXCEPT !.step = "editing", !.draft = d, !.answers = answers[d]]]
  /\ UNCHANGED <<draftVars, worldVars, resumeVars, lease, queueVars, worker, filed>>

\* Fault: the status is written back too.
SaveAnswersAndStatus(d, a) ==
  /\ answers' = [answers EXCEPT ![d] = a]
  /\ status' = [status EXCEPT ![d] = "drafted"]
  /\ Touch({d})

\* Save the answers, and only them, over whatever the row holds by now.
\* Saving a row that was deleted meanwhile fails and changes nothing.
SaveAnswers(d, a) ==
  /\ IF status[d] = "deleted"
     THEN UNCHANGED <<answers, older, age>>
     ELSE answers' = [answers EXCEPT ![d] = a] /\ Touch({d})
  /\ UNCHANGED status

FinishEdit(q) ==
  /\ request[q].step = "editing"
  /\ \E a \in Answers :
       /\ \A l \in Label : a[l] \in EditResults(request[q].answers[l])
       /\ SaveAnswers(request[q].draft, a)
  /\ request' = [request EXCEPT ![q] = IdleRequest]
  /\ UNCHANGED <<reason, target, file, snapshot, linked, worldVars, resumeVars, lease,
                 queueVars, worker, filed>>

BeginConfirm(q, d) ==
  /\ request[q].step = "idle"
  /\ status[d] = "drafted"
  /\ BankHeldLabels(answers[d]) # {}
  /\ request' = [request EXCEPT ![q] =
       [IdleRequest EXCEPT !.step = "confirming", !.draft = d, !.answers = answers[d]]]
  /\ UNCHANGED <<draftVars, worldVars, resumeVars, lease, queueVars, worker, filed>>

FinishConfirm(q) ==
  /\ request[q].step = "confirming"
  /\ SaveAnswers(request[q].draft, ConfirmBankHeld(request[q].answers))
  /\ request' = [request EXCEPT ![q] = IdleRequest]
  /\ UNCHANGED <<reason, target, file, snapshot, linked, worldVars, resumeVars, lease,
                 queueVars, worker, filed>>

Discard(d) ==
  /\ status[d] = "drafted"
  /\ status' = [status EXCEPT ![d] = "deleted"]
  /\ UNCHANGED <<reason, target, answers, file, snapshot, linked, age, older, worldVars,
                 resumeVars, lease, queueVars, worker, request, filed>>

\* The UPDATE compares the answers that were checked with those of the row,
\* so the checks hold at the update.  The message is published after the
\* commit and may be lost.
Send(d) ==
  /\ status[d] = "drafted"
  /\ Sendable(answers[d])
  /\ status' = [status EXCEPT ![d] = "sending"]
  /\ snapshot' = [snapshot EXCEPT ![d] = SubmitSnapshot(answers[d])]
  /\ Touch({d})
  /\ \E message \in {"ready", "none"} : submitQueue' = [submitQueue EXCEPT ![d] = message]
  /\ UNCHANGED <<reason, target, answers, file, linked, worldVars, resumeVars, lease,
                 draftQueue, worker, request, filed>>

-----------------------------------------------------------------------------
(* The submit task: what it checks before it opens a browser               *)

\* Fault: the message is acknowledged after the run, and delivered again.
TakeWithLateAck(d) == UNCHANGED submitQueue

\* Celery acknowledges a message when a worker takes it.
Take(d) == submitQueue' = [submitQueue EXCEPT ![d] = "none"]

SkipSettled(d) ==
  /\ submitQueue[d] = "ready"
  /\ status[d] # "sending"
  /\ \E w \in Worker : worker[w].step = "idle"
  /\ Take(d)
  /\ UNCHANGED <<draftVars, worldVars, resumeVars, lease, draftQueue, worker, request, filed>>

RefuseUnconfirmed(d) ==
  /\ submitQueue[d] = "ready"
  /\ status[d] = "sending"
  /\ UnconfirmedFields(answers[d]) # {}
  /\ \E w \in Worker : worker[w].step = "idle"
  /\ status' = [status EXCEPT ![d] = "failed"]
  /\ reason' = [reason EXCEPT ![d] = "unconfirmed_answers"]
  /\ Touch({d})
  /\ Take(d)
  /\ UNCHANGED <<target, answers, file, snapshot, linked, worldVars, resumeVars, lease,
                 draftQueue, worker, request, filed>>

RefuseClosedJob(d) ==
  /\ submitQueue[d] = "ready"
  /\ status[d] = "sending"
  /\ UnconfirmedFields(answers[d]) = {}
  /\ jobStatus[target[d]] = "closed"
  /\ \E w \in Worker : worker[w].step = "idle"
  /\ status' = [status EXCEPT ![d] = "stale"]
  /\ Touch({d})
  /\ Take(d)
  /\ UNCHANGED <<reason, target, answers, file, snapshot, linked, worldVars, resumeVars,
                 lease, draftQueue, worker, request, filed>>

\* Fault: the answers are not checked again.
ClearedUnchecked(d) ==
  /\ submitQueue[d] = "ready"
  /\ status[d] = "sending"
  /\ jobStatus[target[d]] = "open"

Cleared(d) ==
  /\ submitQueue[d] = "ready"
  /\ status[d] = "sending"
  /\ UnconfirmedFields(answers[d]) = {}
  /\ jobStatus[target[d]] = "open"

\* Another run of this user holds the lease: retry later, leaving the row as
\* it is (updated_at included, so the sweep keeps counting).
RetryForLease(d) ==
  /\ Cleared(d)
  /\ inbox /\ lease.ttl > 0
  /\ \E w \in Worker : worker[w].step = "idle"
  /\ submitQueue' = [submitQueue EXCEPT ![d] = "delayed"]
  /\ UNCHANGED <<draftVars, worldVars, resumeVars, lease, draftQueue, worker, request, filed>>

RetryDue(d) ==
  /\ submitQueue[d] = "delayed"
  /\ submitQueue' = [submitQueue EXCEPT ![d] = "ready"]
  /\ UNCHANGED <<draftVars, worldVars, resumeVars, lease, draftQueue, worker, request, filed>>

\* From here on the run works on the answers it has read.  Its deadline is
\* Budget from now; with inbox credentials it also takes the lease.
StartSubmit(w, d) ==
  /\ worker[w].step = "idle"
  /\ Cleared(d)
  /\ inbox => lease.ttl = 0
  /\ lease' = IF inbox THEN [holder |-> w, ttl |-> LeaseTime] ELSE lease
  /\ worker' = [worker EXCEPT ![w] =
       [step |-> "opened", draft |-> d, job |-> target[d], answers |-> answers[d],
        file |-> file[d], polls |-> inbox, elapsed |-> 0, picked |-> age[d]]]
  /\ Take(d)
  /\ UNCHANGED <<draftVars, worldVars, resumeVars, draftQueue, request, filed>>

-----------------------------------------------------------------------------
(* The submit task: driving the employer's form                            *)

Step(w, from, to) ==
  /\ worker[w].step = from
  /\ worker' = [worker EXCEPT ![w].step = to]

\* Copy the resume out of storage.  A key that is gone is kept as it is, and
\* the form cannot be filled with it.
MaterializeFile(w) ==
  /\ Step(w, "opened", IF worker[w].file \in ResumeKey /\ blob[worker[w].file] # "stored"
                       THEN "stuck" ELSE "filling")
  /\ UNCHANGED <<draftVars, worldVars, resumeVars, lease, queueVars, request, filed>>

\* The employer takes the application, refuses it, or asks for a code that
\* it sends by email.
ClickSubmit(w) ==
  /\ \/ /\ Step(w, "filling", "clicked")
        /\ filed' \in {filed, [filed EXCEPT ![worker[w].draft] = worker[w].answers]}
     \/ /\ Step(w, "filling", "challenged")
        /\ UNCHANGED filed
  /\ UNCHANGED <<draftVars, worldVars, resumeVars, lease, queueVars, request>>

\* get_code bounds every IMAP operation by the deadline of the run.
StartPolling(w) ==
  /\ worker[w].polls /\ worker[w].elapsed < Budget
  /\ Step(w, "challenged", "polling")
  /\ UNCHANGED <<draftVars, worldVars, resumeVars, lease, queueVars, request, filed>>

\* The code is typed and submitted: right or wrong, only the employer knows.
EnterCode(w) ==
  /\ worker[w].elapsed < Budget
  /\ Step(w, "polling", "entered")
  /\ filed' \in {filed, [filed EXCEPT ![worker[w].draft] = worker[w].answers]}
  /\ UNCHANGED <<draftVars, worldVars, resumeVars, lease, queueVars, request>>

\* Fault: a page without an error counts as success.
SuccessAssumed(d) == TRUE

\* _confirm_success returns only for a confirmation page, which the employer
\* shows for an application it has received.
SuccessShown(d) == filed[d] # None

\* The page shows success; submit() returns and the lease is given back.
SeeSuccess(w) ==
  /\ worker[w].step \in {"clicked", "entered"}
  /\ SuccessShown(worker[w].draft)
  /\ worker' = [worker EXCEPT ![w].step = "confirmed"]
  /\ Release(w)
  /\ UNCHANGED <<draftVars, worldVars, resumeVars, queueVars, request, filed>>

\* The outcome is saved over whatever the status is by now, and the lease is
\* given back.
SaveFailure(w, r) ==
  LET d == worker[w].draft IN
  /\ status' = [status EXCEPT ![d] = "failed"]
  /\ reason' = [reason EXCEPT ![d] = r]
  /\ Touch({d})
  /\ Release(w)
  /\ worker' = [worker EXCEPT ![w] = IdleWorker]
  /\ UNCHANGED <<target, answers, file, snapshot, linked, application, jobStatus,
                 resumeVars, queueVars, request, filed>>

Fail(w, r) == SaveFailure(w, r) /\ UNCHANGED inbox

FailBeforeClick(w) ==
  /\ worker[w].step \in {"opened", "filling", "stuck"}
  /\ \E r \in PreClickReasons : Fail(w, r)

\* No sign of success in time; or closing the browser failed after one.
FailAfterClick(w) ==
  /\ worker[w].step = "clicked"
  /\ \E r \in {"submission_unconfirmed", "unexpected_error"} : Fail(w, r)

\* The request for a code was not recognised, closing the browser failed,
\* there is no inbox to look into, or too little time is left to poll it.
FailChallenged(w) ==
  /\ worker[w].step = "challenged"
  /\ \/ \E r \in {"submission_unconfirmed", "unexpected_error"} : Fail(w, r)
     \/ ~worker[w].polls /\ Fail(w, "no_inbox_credentials")
     \/ worker[w].polls /\ Fail(w, "verification_code_timeout")

\* No usable code by the deadline, or none that could be typed in.  A
\* rejected login deactivates the stored credentials.
FailLookup(w) ==
  /\ worker[w].step = "polling"
  /\ \E r \in LookupReasons :
       /\ SaveFailure(w, r)
       /\ inbox' \in {inbox} \cup (IF r = "inbox_auth_failed" THEN {FALSE} ELSE {})

\* Once the code has been submitted: no sign of success, an error of the
\* click itself, of closing the browser, or any error after the deadline.
FailEntered(w) ==
  /\ worker[w].step = "entered"
  /\ \/ \E r \in {"submission_unconfirmed", "verification_code_rejected",
                  "unexpected_error"} : Fail(w, r)
     \/ worker[w].elapsed >= Budget /\ Fail(w, "verification_code_timeout")

\* One transaction: the application becomes APPLIED whatever the draft is,
\* the draft only if it is still SENDING.
RecordApplied(w) ==
  LET d == worker[w].draft IN
  /\ worker[w].step = "confirmed"
  /\ application' = [application EXCEPT ![worker[w].job] = "applied"]
  /\ IF status[d] = "sending"
     THEN /\ status' = [status EXCEPT ![d] = "applied"]
          /\ linked' = [linked EXCEPT ![d] = TRUE]
          /\ Touch({d})
     ELSE UNCHANGED <<status, linked, age, older>>
  /\ worker' = [worker EXCEPT ![w] = IdleWorker]
  /\ UNCHANGED <<reason, target, answers, file, snapshot, jobStatus, inbox, resumeVars,
                 lease, queueVars, request, filed>>

-----------------------------------------------------------------------------
(* Crashes, lost messages, time and the sweep                              *)

\* The worker process dies (the hard time limit is one way): no `finally`,
\* so a lease it holds stays until it expires.
Crash(w) ==
  /\ worker[w].step \in SubmitSteps
  /\ worker' = [worker EXCEPT ![w] = IdleWorker]
  /\ lease' = IF lease.holder = w THEN [lease EXCEPT !.holder = None] ELSE lease
  /\ UNCHANGED <<draftVars, worldVars, resumeVars, queueVars, request, filed>>

LoseSubmit(d) ==
  /\ submitQueue[d] # "none"
  /\ submitQueue' = [submitQueue EXCEPT ![d] = "none"]
  /\ UNCHANGED <<draftVars, worldVars, resumeVars, lease, draftQueue, worker, request, filed>>

LoseDrafting(j) ==
  /\ draftQueue[j] > 0
  /\ draftQueue' = [draftQueue EXCEPT ![j] = @ - 1]
  /\ UNCHANGED <<draftVars, worldVars, resumeVars, lease, submitQueue, worker, request, filed>>

Running(w) == worker[w].step \in SubmitSteps

Aging == {d \in Draft : status[d] = "sending" /\ age[d] <= SendingTimeout}

\* Celery does not let a run pass the hard limit, and polling stops at the
\* deadline of its run.
Tick ==
  /\ lease.ttl > 0 \/ Aging # {} \/ \E w \in Worker : Running(w)
  /\ \A w \in Worker : Running(w) => worker[w].elapsed < HardKill
  /\ \A w \in Worker : worker[w].step = "polling" => worker[w].elapsed < Budget
  /\ age' = [d \in Draft |-> IF d \in Aging THEN age[d] + 1 ELSE age[d]]
  /\ worker' = [w \in Worker |-> IF Running(w)
                                 THEN [worker[w] EXCEPT !.elapsed = @ + 1]
                                 ELSE worker[w]]
  /\ lease' = IF lease.ttl <= 1 THEN FreeLease ELSE [lease EXCEPT !.ttl = @ - 1]
  /\ UNCHANGED <<status, reason, target, answers, file, snapshot, linked, older, worldVars,
                 resumeVars, queueVars, request, filed>>

Obsolete == {d \in Draft : status[d] = "drafted" /\ jobStatus[target[d]] = "closed"}

Stuck == {d \in Draft : status[d] = "sending" /\ age[d] > SendingTimeout}

\* Fault: drafts stuck in SENDING are forgotten.
SweepWithoutRecovery ==
  /\ Obsolete # {}
  /\ status' = [d \in Draft |-> IF d \in Obsolete THEN "stale" ELSE status[d]]
  /\ Touch(Obsolete)
  /\ UNCHANGED <<reason, target, answers, file, snapshot, linked, worldVars, resumeVars,
                 lease, queueVars, worker, request, filed>>

Sweep ==
  /\ Obsolete \cup Stuck # {}
  /\ status' = [d \in Draft |-> IF d \in Obsolete THEN "stale"
                                ELSE IF d \in Stuck THEN "failed" ELSE status[d]]
  /\ reason' = [d \in Draft |-> IF d \in Stuck THEN "sending_timeout" ELSE reason[d]]
  /\ Touch(Obsolete \cup Stuck)
  /\ UNCHANGED <<target, answers, file, snapshot, linked, worldVars, resumeVars, lease,
                 queueVars, worker, request, filed>>

-----------------------------------------------------------------------------
(* The resume: the profile form, Profile.set_resume and the retired file   *)

\* The form works on the profile as it was when the request loaded it.  (An
\* instance without resumes leaves it alone.)
LoadProfile(q) ==
  /\ ResumeKey # {}
  /\ request[q].step = "idle"
  /\ request' = [request EXCEPT ![q] =
       [IdleRequest EXCEPT !.step = "saving", !.key = resume]]
  /\ UNCHANGED <<draftVars, worldVars, resumeVars, lease, queueVars, worker, filed>>

\* Without a new resume every column is written back as it was loaded.
SaveProfile(q) ==
  /\ request[q].step = "saving"
  /\ resume' = request[q].key
  /\ request' = [request EXCEPT ![q] = IdleRequest]
  /\ UNCHANGED <<draftVars, worldVars, blob, lease, queueVars, worker, filed>>

\* set_resume: k = None clears the resume, any other key is a new upload.  The
\* resume that was loaded, if any, remains to be retired.
SetResume(q, k) ==
  LET previous == request[q].key IN
  /\ request[q].step = "saving"
  /\ IF k = None THEN previous # None ELSE blob[k] = "unused"
  /\ resume' = k
  /\ blob' = [x \in ResumeKey |-> IF x = k THEN "stored" ELSE blob[x]]
  /\ request' = [request EXCEPT ![q] =
       IF previous = None THEN IdleRequest
       ELSE [IdleRequest EXCEPT !.step = "replaced", !.key = previous]]
  /\ UNCHANGED <<draftVars, worldVars, lease, queueVars, worker, filed>>

Referencing(k) ==
  {d \in Draft : status[d] \in ActiveStatuses /\ file[d] = k}

\* A draft being sent keeps the old file; otherwise the drafts to retire are
\* remembered.
ReadReferencing(q) ==
  LET refs == Referencing(request[q].key) IN
  /\ request[q].step = "replaced"
  /\ request' = [request EXCEPT ![q] =
       IF \E d \in refs : status[d] = "sending" THEN IdleRequest
       ELSE [@ EXCEPT !.step = "retiring", !.ids = refs]]
  /\ UNCHANGED <<draftVars, worldVars, resumeVars, lease, queueVars, worker, filed>>

\* The update is by primary key only, whatever the status is by now.
RetireResume(q) ==
  LET ids == {d \in request[q].ids : status[d] # "deleted"} IN
  /\ request[q].step = "retiring"
  /\ status' = [d \in Draft |-> IF d \in ids THEN "stale" ELSE status[d]]
  /\ reason' = [d \in Draft |-> IF d \in ids THEN "resume_replaced" ELSE reason[d]]
  /\ blob' = [blob EXCEPT ![request[q].key] = "deleted"]
  /\ request' = [request EXCEPT ![q] = IdleRequest]
  /\ UNCHANGED <<target, answers, file, snapshot, linked, age, older, worldVars, resume,
                 lease, queueVars, worker, filed>>

-----------------------------------------------------------------------------
(* The rest of the product                                                 *)

MarkApplication(j, mark) ==
  /\ application' = [application EXCEPT ![j] = mark]
  /\ UNCHANGED <<draftVars, jobStatus, inbox, resumeVars, lease, queueVars, worker,
                 request, filed>>

SetInbox(present) ==
  /\ inbox' = present
  /\ UNCHANGED <<draftVars, application, jobStatus, resumeVars, lease, queueVars, worker,
                 request, filed>>

\* Ingestion closes a posting that disappeared and reopens one that is back.
SetJobStatus(j, s) ==
  /\ jobStatus' = [jobStatus EXCEPT ![j] = s]
  /\ UNCHANGED <<draftVars, application, inbox, resumeVars, lease, queueVars, worker,
                 request, filed>>

-----------------------------------------------------------------------------

Drafting(w) ==
  \/ \E j \in Job : StartDrafting(w, j)
  \/ \E d \in Draft : PersistDraft(w, d) \/ PersistExcluded(w, d)
  \/ AbandonDrafting(w)

Review ==
  \/ \E j \in Job : TriggerAutoApply(j)
  \/ \E q \in Request, d \in Draft : BeginEdit(q, d) \/ BeginConfirm(q, d)
  \/ \E q \in Request : FinishEdit(q) \/ FinishConfirm(q)
  \/ \E d \in Draft : Discard(d) \/ Send(d)

Pickup(d) ==
  \/ SkipSettled(d) \/ RefuseUnconfirmed(d) \/ RefuseClosedJob(d)
  \/ RetryForLease(d) \/ RetryDue(d)
  \/ \E w \in Worker : StartSubmit(w, d)

Failing(w) ==
  \/ FailBeforeClick(w) \/ FailAfterClick(w) \/ FailChallenged(w)
  \/ FailLookup(w) \/ FailEntered(w)

Submitting(w) ==
  \/ MaterializeFile(w) \/ ClickSubmit(w) \/ StartPolling(w) \/ EnterCode(w)
  \/ SeeSuccess(w) \/ RecordApplied(w)
  \/ Failing(w)

Resumes(q) ==
  \/ LoadProfile(q) \/ SaveProfile(q)
  \/ \E k \in ResumeKey \cup {None} : SetResume(q, k)
  \/ ReadReferencing(q) \/ RetireResume(q)

Failures ==
  \/ \E w \in Worker : Crash(w)
  \/ \E d \in Draft : LoseSubmit(d)
  \/ \E j \in Job : LoseDrafting(j)

Environment ==
  \/ \E j \in Job, mark \in UserMarks : MarkApplication(j, mark)
  \/ \E present \in InboxChoices : SetInbox(present)
  \/ \E j \in Job, s \in JobChanges : SetJobStatus(j, s)

Next ==
  \/ \E w \in Worker : Drafting(w) \/ Submitting(w)
  \/ \E d \in Draft : Pickup(d)
  \/ \E q \in Request : Resumes(q)
  \/ Review \/ Failures \/ Environment \/ Sweep \/ Tick

Spec == Init /\ [][Next]_vars

(* Celery beat runs the sweep every five minutes, the hard time limit ends *)
(* every run, get_code returns by its deadline, and clocks advance.        *)
Fairness ==
  /\ WF_vars(Tick)
  /\ WF_vars(Sweep)
  /\ \A w \in Worker : WF_vars(worker[w].elapsed >= HardKill /\ Crash(w))
  /\ \A w \in Worker : WF_vars(worker[w].elapsed >= Budget /\ FailLookup(w))

FairSpec == Spec /\ Fairness

-----------------------------------------------------------------------------
(* Properties that hold                                                    *)

(* A job never has two drafts that could both be sent, although any number *)
(* of triggers may be drafting it at once.                                 *)
OneActiveDraft == \A j \in Job : \A d, e \in Active(j) : d = e

(* No answer still waiting for the user's confirmation reaches an          *)
(* employer, not even when a review saved from an old page lands on a      *)
(* draft that has just been sent.                                          *)
NothingHeldIsFiled ==
  \A d \in Draft : filed[d] # None => UnconfirmedFields(filed[d]) = {}

(* A draft, and unless the user says so a job application, is APPLIED only *)
(* after the employer has received it.                                     *)
AppliedWasFiled ==
  /\ \A d \in Draft : status[d] = "applied" => filed[d] # None /\ linked[d]
  /\ \A j \in Job : application[j] = "applied" /\ "applied" \notin UserMarks =>
       \E d \in Draft : target[d] = j /\ filed[d] # None

(* Two runs of one user never poll the inbox at the same time, although    *)
(* leases expire, runs outlive them and killed runs leave them behind.     *)
PollingIsExclusive ==
  \A v, w \in Worker :
    worker[v].step = "polling" /\ worker[w].step = "polling" => v = w

(* The sweep gives up on a draft with a live run only after that run has   *)
(* spent its whole budget, if it was picked up within the safety margin.   *)
SweepSparesPromptRuns ==
  [][\A w \in Worker :
       LET d == worker[w].draft IN
       /\ Running(w)
       /\ worker[w].picked <= SafetyMargin
       /\ status[d] = "sending" /\ status'[d] = "failed"
       /\ reason'[d] = "sending_timeout"
       => worker[w].elapsed > Budget]_vars

(* Every draft that is being sent leaves SENDING, whatever is lost or      *)
(* killed on the way.                                                      *)
SendingIsSettled ==
  \A d \in Draft : status[d] = "sending" ~> status[d] # "sending"

(* The flow implements DraftLifecycle.                                     *)
Phase(s) == CASE s = "absent"  -> "none"
              [] s = "drafted" -> "review"
              [] s = "sending" -> "sending"
              [] OTHER         -> "over"

Lifecycle == INSTANCE DraftLifecycle WITH
  phase     <- [d \in Draft |-> Phase(status[d])],
  consented <- {d \in Draft : snapshot[d] # None},
  received  <- {d \in Draft : filed[d] # None}

LifecycleSpec == Lifecycle!Spec

-----------------------------------------------------------------------------
(* Statements of the repository that the code does not keep                *)

(* submitted_answers_snapshot is "the exact answers ... at the moment the  *)
(* draft moved to SENDING": what the employer received is what it records. *)
FiledIsSnapshot ==
  \A d \in Draft : filed[d] # None =>
    \A l \in Label : filed[d][l].value = snapshot[d][l].value

(* A job whose application has gone out is not sent again.                 *)
AppliedJobIsNotSentAgain ==
  [][\A d \in Draft : status[d] = "drafted" /\ status'[d] = "sending" =>
       application[target[d]] # "applied"]_vars

(* Replacing a resume never deletes the file of a draft being sent.        *)
InFlightResumeKept ==
  \A d \in Draft : status[d] = "sending" /\ file[d] # None =>
    blob[file[d]] = "stored"
=============================================================================
