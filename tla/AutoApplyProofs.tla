--------------------------- MODULE AutoApplyProofs --------------------------
(***************************************************************************)
(* The inductive invariant of AutoApply and what follows from it, for      *)
(* every value of the constants.                                           *)
(***************************************************************************)
EXTENDS AutoApplyInvariant, TLAPS

USE DEF vars, draftVars, worldVars, resumeVars, queueVars,
        Take, SaveAnswers, UniqueActive, SuccessShown

(***************************************************************************)
(* Type correctness, step by step.                                         *)
(***************************************************************************)
(* The fields of an entry.                                                 *)
LEMMA EntryFields ==
  ASSUME NEW e \in Entry
  PROVE  /\ e.value \in Value \cup {Blank} /\ e.review \in BOOLEAN /\ e.hold \in BOOLEAN
         /\ e.bank \in BOOLEAN /\ e.confirmed \in BOOLEAN
BY DEF Entry

(* drafting.py: carrying an answer forward yields an entry.                *)
LEMMA CarriedEntryType ==
  ASSUME NEW e \in Entry, NEW prior \in Entry
  PROVE  CarriedEntry(e, prior) \in Entry
BY DEF CarriedEntry, Entry

(* _carry_forward returns an answer set.                                   *)
LEMMA CarryForwardType ==
  ASSUME NEW a \in [Label -> Inferred], NEW prior \in Answers, NEW valid \in SUBSET Label
  PROVE  CarryForward(a, prior, valid) \in Answers
BY CarriedEntryType, AnswersAssumption DEF CarryForward, Answers, Draftable

(* confirm_learned_answers leaves an answer set.                           *)
LEMMA ConfirmBankHeldType ==
  ASSUME NEW a \in Answers
  PROVE  ConfirmBankHeld(a) \in Answers
<1>1. ASSUME NEW e \in Entry PROVE ConfirmEntry(e) \in Entry
  BY DEF ConfirmEntry, Entry
<1> QED
  BY <1>1 DEF ConfirmBankHeld, Answers

(* build_submit_snapshot returns a snapshot.                               *)
LEMMA SubmitSnapshotType ==
  ASSUME NEW a \in Answers
  PROVE  SubmitSnapshot(a) \in Snapshots /\ SubmitSnapshot(a) # None
BY ConstantsAssumption, EntryFields DEF SubmitSnapshot, Snapshots, Answers

(* Updating updated_at keeps the types of age and order.                   *)
LEMMA TouchType ==
  ASSUME NEW S, age \in [Draft -> Nat], older \subseteq Draft \X Draft, Touch(S)
  PROVE  age' \in [Draft -> Nat] /\ older' \subseteq Draft \X Draft
BY DEF Touch

(* _submit_budget_seconds is a duration, and the lease outlives it.        *)
LEMMA BudgetType == Budget \in Nat /\ LeaseTime \in Nat /\ Budget < LeaseTime
BY TimesAssumption DEF Budget, LeaseTime

(* The idle records are well typed.                                        *)
LEMMA IdleTypes ==
  /\ IdleWorker \in WorkerStates
  /\ IdleRequest \in RequestStates
  /\ FreeLease \in [holder : Worker \cup {None}, ttl : Nat]
BY DEF IdleWorker, WorkerStates, IdleRequest, RequestStates, FreeLease

(* _release_verification_lock leaves a lease.                              *)
LEMMA ReleaseType ==
  ASSUME lease \in [holder : Worker \cup {None}, ttl : Nat], NEW w, Release(w)
  PROVE  lease' \in [holder : Worker \cup {None}, ttl : Nat]
BY IdleTypes DEF Release

(* The initial states are well typed.                                      *)
THEOREM InitType == Init => TypeOK
BY ConstantsAssumption, IdleTypes DEF Init, TypeOK, Statuses

(* Saving a failed outcome keeps the types.                                *)
LEMMA SaveFailureType ==
  ASSUME TypeOK, NEW w \in Worker, NEW r \in Reasons, SaveFailure(w, r), inbox' \in BOOLEAN
  PROVE  TypeOK'
BY IdleTypes, TouchType, ReleaseType DEF SaveFailure, TypeOK, Statuses

(* The same when the credentials are left alone.                           *)
LEMMA FailType ==
  ASSUME TypeOK, NEW w \in Worker, NEW r \in Reasons, Fail(w, r)
  PROVE  TypeOK'
BY SaveFailureType DEF Fail, TypeOK

(* A move of a run to another step keeps its type.                         *)
LEMMA StepType ==
  ASSUME TypeOK, NEW w \in Worker, NEW to \in SubmitSteps, NEW from, Step(w, from, to)
  PROVE  worker' \in [Worker -> WorkerStates]
<1>1. [worker[w] EXCEPT !.step = to] \in WorkerStates
  BY DEF TypeOK, WorkerStates
<1> QED
  BY <1>1 DEF Step, TypeOK

(* What a click may file is well typed.                                    *)
LEMMA FiledType ==
  ASSUME TypeOK, NEW w \in Worker,
         filed' \in {filed, [filed EXCEPT ![worker[w].draft] = worker[w].answers]}
  PROVE  filed' \in [Draft -> Answers \cup {None}]
<1>1. CASE filed' = filed
  BY <1>1 DEF TypeOK
<1>2. CASE filed' = [filed EXCEPT ![worker[w].draft] = worker[w].answers]
  BY <1>2 DEF TypeOK, WorkerStates
<1> QED
  BY <1>1, <1>2

(* Drafting gives its row an answer set and no other row anything.         *)
LEMMA DraftedAnswers ==
  ASSUME TypeOK, NEW w \in Worker, NEW d \in Draft, PersistDraft(w, d)
  PROVE  /\ answers' \in [Draft -> Answers \cup {None}]
         /\ answers'[d] \in Answers
         /\ \A e \in Draft \ {d} : answers'[e] = answers[e]
<1>1. PICK inferred \in [Label -> Inferred] :
        IF Previous(worker[w].job) = {}
        THEN answers' = [answers EXCEPT ![d] = inferred]
        ELSE \E p \in Previous(worker[w].job), valid \in SUBSET Label :
               /\ FreeText \subseteq valid
               /\ answers' = [answers EXCEPT ![d] = CarryForward(inferred, answers[p], valid)]
  BY DEF PersistDraft
<1>2. inferred \in Answers
  BY AnswersAssumption DEF Answers, Draftable
<1>3. \A p \in Previous(worker[w].job) : answers[p] \in Answers
  BY DEF Previous, Rows, TypeOK
<1>4. \E a \in Answers : answers' = [answers EXCEPT ![d] = a]
  BY <1>1, <1>2, <1>3, CarryForwardType
<1> QED
  BY <1>4 DEF TypeOK

(* Every step keeps the types.                                             *)
LEMMA TypeStep ==
  ASSUME TypeOK, RowsWellFormed, RequestsWellFormed, [Next]_vars
  PROVE  TypeOK'
<1>1. ASSUME NEW w \in Worker, NEW j \in Job, StartDrafting(w, j) PROVE TypeOK'
  <2>1. [IdleWorker EXCEPT !.step = "drafting", !.job = j, !.file = resume] \in WorkerStates
    BY DEF IdleWorker, WorkerStates, TypeOK
  <2>2. worker' \in [Worker -> WorkerStates]
    BY <1>1, <2>1 DEF StartDrafting, TypeOK
  <2> QED
    BY <1>1, <2>2 DEF StartDrafting, TypeOK
<1>2. ASSUME NEW w \in Worker, NEW d \in Draft, PersistDraft(w, d) PROVE TypeOK'
  BY <1>2, DraftedAnswers, IdleTypes, TouchType DEF PersistDraft, TypeOK, WorkerStates,
     Statuses, ActiveStatuses
<1>3. ASSUME NEW w \in Worker, NEW d \in Draft, PersistExcluded(w, d) PROVE TypeOK'
  BY <1>3, IdleTypes, TouchType DEF PersistExcluded, TypeOK, WorkerStates, Reasons,
     Statuses, ActiveStatuses
<1>4. ASSUME NEW w \in Worker, AbandonDrafting(w) PROVE TypeOK'
  BY <1>4, IdleTypes DEF AbandonDrafting, TypeOK
<1>5. ASSUME NEW d \in Draft, SkipSettled(d) PROVE TypeOK'
  BY <1>5 DEF SkipSettled, TypeOK
<1>6. ASSUME NEW d \in Draft, RefuseUnconfirmed(d) PROVE TypeOK'
  BY <1>6, TouchType DEF RefuseUnconfirmed, TypeOK, Reasons, Statuses, ActiveStatuses
<1>7. ASSUME NEW d \in Draft, RefuseClosedJob(d) PROVE TypeOK'
  BY <1>7, TouchType DEF RefuseClosedJob, TypeOK, Statuses, ActiveStatuses
<1>8. ASSUME NEW d \in Draft, RetryForLease(d) PROVE TypeOK'
  BY <1>8 DEF RetryForLease, TypeOK, Cleared
<1>9. ASSUME NEW d \in Draft, RetryDue(d) PROVE TypeOK'
  BY <1>9 DEF RetryDue, TypeOK
<1>10. ASSUME NEW w \in Worker, NEW d \in Draft, StartSubmit(w, d) PROVE TypeOK'
  BY <1>10, BudgetType DEF StartSubmit, TypeOK, Cleared, WorkerStates, SubmitSteps,
     UnfiledSteps
<1>11. ASSUME NEW w \in Worker, MaterializeFile(w) PROVE TypeOK'
  BY <1>11, StepType DEF MaterializeFile, TypeOK, SubmitSteps, UnfiledSteps
<1>12. ASSUME NEW w \in Worker, ClickSubmit(w) PROVE TypeOK'
  <2>1. worker' \in [Worker -> WorkerStates]
    BY <1>12, StepType DEF ClickSubmit, SubmitSteps, UnfiledSteps
  <2>2. filed' \in [Draft -> Answers \cup {None}]
    BY <1>12, FiledType DEF ClickSubmit, TypeOK
  <2> QED
    BY <1>12, <2>1, <2>2 DEF ClickSubmit, TypeOK
<1>13. ASSUME NEW w \in Worker, StartPolling(w) PROVE TypeOK'
  BY <1>13, StepType DEF StartPolling, TypeOK, SubmitSteps, UnfiledSteps
<1>14. ASSUME NEW w \in Worker, EnterCode(w) PROVE TypeOK'
  <2>1. worker' \in [Worker -> WorkerStates]
    BY <1>14, StepType DEF EnterCode, SubmitSteps, UnfiledSteps
  <2>2. filed' \in [Draft -> Answers \cup {None}]
    BY <1>14, FiledType DEF EnterCode, TypeOK
  <2> QED
    BY <1>14, <2>1, <2>2 DEF EnterCode, TypeOK
<1>15. ASSUME NEW w \in Worker, SeeSuccess(w) PROVE TypeOK'
  <2>1. worker' \in [Worker -> WorkerStates]
    BY <1>15 DEF SeeSuccess, TypeOK, WorkerStates, SubmitSteps
  <2> QED
    BY <1>15, <2>1, ReleaseType DEF SeeSuccess, TypeOK
<1>16. ASSUME NEW w \in Worker, RecordApplied(w) PROVE TypeOK'
  BY <1>16, IdleTypes, TouchType DEF RecordApplied, TypeOK, Statuses, ActiveStatuses
<1>17. ASSUME NEW w \in Worker, FailBeforeClick(w) PROVE TypeOK'
  BY <1>17, FailType DEF FailBeforeClick, Reasons, PreClickReasons, LookupReasons
<1>18. ASSUME NEW w \in Worker, FailAfterClick(w) PROVE TypeOK'
  BY <1>18, FailType DEF FailAfterClick, Reasons, PreClickReasons, LookupReasons
<1>19. ASSUME NEW w \in Worker, FailChallenged(w) PROVE TypeOK'
  BY <1>19, FailType DEF FailChallenged, Reasons, PreClickReasons, LookupReasons
<1>20. ASSUME NEW w \in Worker, FailLookup(w) PROVE TypeOK'
  <2>1. PICK r \in LookupReasons :
          /\ SaveFailure(w, r)
          /\ inbox' \in {inbox} \cup (IF r = "inbox_auth_failed" THEN {FALSE} ELSE {})
    BY <1>20 DEF FailLookup
  <2> QED
    BY <2>1, SaveFailureType DEF TypeOK, Reasons
<1>21. ASSUME NEW w \in Worker, FailEntered(w) PROVE TypeOK'
  BY <1>21, FailType DEF FailEntered, Reasons, PreClickReasons, LookupReasons
<1>22. ASSUME NEW j \in Job, TriggerAutoApply(j) PROVE TypeOK'
  BY <1>22 DEF TriggerAutoApply, TypeOK
<1>23. ASSUME NEW q \in Request, NEW d \in Draft, BeginEdit(q, d) PROVE TypeOK'
  BY <1>23 DEF BeginEdit, TypeOK, IdleRequest, RequestStates
<1>24. ASSUME NEW q \in Request, NEW d \in Draft, BeginConfirm(q, d) PROVE TypeOK'
  BY <1>24 DEF BeginConfirm, TypeOK, IdleRequest, RequestStates
<1>25. ASSUME NEW q \in Request, FinishEdit(q) PROVE TypeOK'
  BY <1>25, IdleTypes, TouchType DEF FinishEdit, TypeOK, SaveAnswers
<1>26. ASSUME NEW q \in Request, FinishConfirm(q) PROVE TypeOK'
  BY <1>26, IdleTypes, TouchType, ConfirmBankHeldType DEF FinishConfirm, TypeOK,
     SaveAnswers, RequestsWellFormed
<1>27. ASSUME NEW d \in Draft, Discard(d) PROVE TypeOK'
  BY <1>27 DEF Discard, TypeOK, Statuses, ActiveStatuses
<1>28. ASSUME NEW d \in Draft, Send(d) PROVE TypeOK'
  BY <1>28, TouchType, SubmitSnapshotType DEF Send, TypeOK, RowsWellFormed, Statuses,
     ActiveStatuses
<1>29. ASSUME NEW q \in Request, LoadProfile(q) PROVE TypeOK'
  BY <1>29 DEF LoadProfile, TypeOK, IdleRequest, RequestStates
<1>30. ASSUME NEW q \in Request, SaveProfile(q) PROVE TypeOK'
  BY <1>30, IdleTypes DEF SaveProfile, TypeOK, RequestStates
<1>31. ASSUME NEW q \in Request, NEW k \in ResumeKey \cup {None}, SetResume(q, k)
       PROVE  TypeOK'
  BY <1>31, IdleTypes DEF SetResume, TypeOK, IdleRequest, RequestStates
<1>32. ASSUME NEW q \in Request, ReadReferencing(q) PROVE TypeOK'
  <2>1. Referencing(request[q].key) \in SUBSET Draft
    BY DEF Referencing
  <2>2. \A S \in SUBSET Draft :
          [request[q] EXCEPT !.step = "retiring", !.ids = S] \in RequestStates
    BY DEF RequestStates, TypeOK
  <2>3. request' \in [Request -> RequestStates]
    BY <1>32, <2>1, <2>2, IdleTypes DEF ReadReferencing, TypeOK
  <2> QED
    BY <1>32, <2>3 DEF ReadReferencing, TypeOK
<1>33. ASSUME NEW q \in Request, RetireResume(q) PROVE TypeOK'
  BY <1>33, IdleTypes DEF RetireResume, TypeOK, Reasons, Statuses, ActiveStatuses
<1>34. ASSUME NEW w \in Worker, Crash(w) PROVE TypeOK'
  BY <1>34, IdleTypes DEF Crash, TypeOK
<1>35. ASSUME NEW d \in Draft, LoseSubmit(d) PROVE TypeOK'
  BY <1>35 DEF LoseSubmit, TypeOK
<1>36. ASSUME NEW j \in Job, LoseDrafting(j) PROVE TypeOK'
  BY <1>36 DEF LoseDrafting, TypeOK
<1>37. ASSUME NEW j \in Job, NEW mark \in UserMarks, MarkApplication(j, mark) PROVE TypeOK'
  BY <1>37, ConstantsAssumption DEF MarkApplication, TypeOK
<1>38. ASSUME NEW p \in InboxChoices, SetInbox(p) PROVE TypeOK'
  BY <1>38, ConstantsAssumption DEF SetInbox, TypeOK
<1>39. ASSUME NEW j \in Job, NEW s \in JobChanges, SetJobStatus(j, s) PROVE TypeOK'
  BY <1>39, ConstantsAssumption DEF SetJobStatus, TypeOK
<1>40. ASSUME Sweep PROVE TypeOK'
  BY <1>40, TouchType DEF Sweep, TypeOK, Reasons, Statuses, ActiveStatuses
<1>41. ASSUME Tick PROVE TypeOK'
  <2>1. \A w \in Worker : [worker[w] EXCEPT !.elapsed = @ + 1] \in WorkerStates
    BY DEF TypeOK, WorkerStates
  <2>2. worker' \in [Worker -> WorkerStates]
    BY <1>41, <2>1 DEF Tick, TypeOK
  <2>3. lease' \in [holder : Worker \cup {None}, ttl : Nat]
    BY <1>41, IdleTypes DEF Tick, TypeOK
  <2>4. age' \in [Draft -> Nat]
    BY <1>41 DEF Tick, TypeOK
  <2> QED
    BY <1>41, <2>2, <2>3, <2>4 DEF Tick, TypeOK
<1>42. CASE UNCHANGED vars
  BY <1>42 DEF TypeOK
<1> QED
  BY <1>1, <1>2, <1>3, <1>4, <1>5, <1>6, <1>7, <1>8, <1>9, <1>10, <1>11, <1>12, <1>13,
     <1>14, <1>15, <1>16, <1>17, <1>18, <1>19, <1>20, <1>21, <1>22, <1>23, <1>24, <1>25,
     <1>26, <1>27, <1>28, <1>29, <1>30, <1>31, <1>32, <1>33, <1>34, <1>35, <1>36, <1>37,
     <1>38, <1>39, <1>40, <1>41, <1>42
  DEF Next, Drafting, Pickup, Submitting, Failing, Review, Resumes,
      Failures, Environment

(***************************************************************************)
(* The other parts of the invariant.                                       *)
(***************************************************************************)
(* Every failure of a run is saved by SaveFailure, before it has           *)
(* succeeded.                                                              *)
LEMMA FailIsSaved ==
  ASSUME NEW w \in Worker, Failing(w)
  PROVE  /\ worker[w].step \in SubmitSteps \ {"confirmed"}
         /\ \E r \in Reasons : SaveFailure(w, r)
BY DEF Failing, FailBeforeClick, FailAfterClick, FailChallenged, FailLookup, FailEntered,
   Fail,
       Reasons, PreClickReasons, LookupReasons, SubmitSteps, UnfiledSteps

(* A move changes the step of one run and nothing else about any run.      *)
LEMMA MoveFrame ==
  ASSUME TypeOK, NEW w \in Worker, NEW to, worker' = [worker EXCEPT ![w].step = to]
  PROVE  /\ \A v \in Worker \ {w} : worker'[v] = worker[v]
         /\ worker'[w].step = to
         /\ worker'[w].draft = worker[w].draft /\ worker'[w].job = worker[w].job
         /\ worker'[w].answers = worker[w].answers /\ worker'[w].polls = worker[w].polls
         /\ worker'[w].elapsed = worker[w].elapsed /\ worker'[w].picked = worker[w].picked
BY DEF TypeOK, WorkerStates

(* An update of rows never makes a draft older.                            *)
LEMMA TouchFrame ==
  ASSUME TypeOK, NEW S, Touch(S)
  PROVE  \A d \in Draft : age'[d] \in Nat /\ age'[d] <= age[d]
BY DEF TypeOK, Touch

(* Time lengthens the runs and changes nothing else about them.            *)
LEMMA TickFrame ==
  ASSUME TypeOK, Tick, NEW w \in Worker
  PROVE  /\ worker'[w].step = worker[w].step
         /\ worker'[w].draft = worker[w].draft /\ worker'[w].job = worker[w].job
         /\ worker'[w].answers = worker[w].answers /\ worker'[w].polls = worker[w].polls
         /\ worker'[w].picked = worker[w].picked
         /\ Running(w) => worker'[w].elapsed = worker[w].elapsed + 1
         /\ worker[w].elapsed \in Nat
<1>1. worker'[w] = IF Running(w) THEN [worker[w] EXCEPT !.elapsed = @ + 1] ELSE worker[w]
  BY DEF Tick
<1> QED
  BY <1>1 DEF TypeOK, WorkerStates

(* A click moves its run on and files for its own draft, or for none.      *)
LEMMA FilingStep ==
  ASSUME TypeOK, RunsWellFormed, NEW w \in Worker, ClickSubmit(w) \/ EnterCode(w)
  PROVE  /\ worker[w].step \in UnfiledSteps
         /\ \E to \in {"clicked", "challenged", "entered"} :
              worker' = [worker EXCEPT ![w].step = to]
         /\ UNCHANGED <<status, answers, target, snapshot, age, linked, application, lease>>
         /\ UNCHANGED submitQueue
         /\ worker'[w].step = "challenged" => filed' = filed
         /\ \A d \in Draft :
              \/ filed'[d] = filed[d]
              \/ /\ d = worker[w].draft /\ filed'[d] = worker[w].answers
                 /\ filed'[d] # None /\ snapshot[d] # None
                 /\ UnconfirmedFields(filed'[d]) = {}
<1>1. \/ filed' = filed
      \/ filed' = [filed EXCEPT ![worker[w].draft] = worker[w].answers]
  BY DEF ClickSubmit, EnterCode
<1>2. /\ worker[w].step \in UnfiledSteps
      /\ \E to \in {"clicked", "challenged", "entered"} :
           worker' = [worker EXCEPT ![w].step = to]
      /\ UNCHANGED <<status, answers, target, snapshot, age, linked, application, lease>>
      /\ UNCHANGED submitQueue
  BY DEF ClickSubmit, EnterCode, Step, UnfiledSteps
<1>3. worker'[w].step = "challenged" => filed' = filed
  BY DEF ClickSubmit, EnterCode, Step, TypeOK, WorkerStates
<1>4. /\ worker[w].draft \in Draft /\ worker[w].answers \in Answers
      /\ UnconfirmedFields(worker[w].answers) = {} /\ snapshot[worker[w].draft] # None
  BY <1>2 DEF RunsWellFormed, RunWellFormed, SubmitSteps
<1>5. worker[w].answers # None
  BY <1>4, ConstantsAssumption
<1>6. ASSUME NEW d \in Draft, filed'[d] # filed[d]
      PROVE  d = worker[w].draft /\ filed'[d] = worker[w].answers
  BY <1>1, <1>6 DEF TypeOK
<1> QED
  BY <1>2, <1>3, <1>4, <1>5, <1>6

(* Every step keeps the rows well formed.                                  *)
LEMMA RowsStep ==
  ASSUME TypeOK, RowsWellFormed, RunsWellFormed, RequestsWellFormed, [Next]_vars
  PROVE  RowsWellFormed'
<1>1. ASSUME NEW w \in Worker, NEW d \in Draft, PersistDraft(w, d) PROVE RowsWellFormed'
  <2>1. /\ answers' \in [Draft -> Answers \cup {None}]
        /\ answers'[d] \in Answers
        /\ \A e \in Draft \ {d} : answers'[e] = answers[e]
    BY <1>1, DraftedAnswers
  <2>2. /\ status' = [status EXCEPT ![d] = "drafted"]
        /\ target' = [target EXCEPT ![d] = worker[w].job]
    BY <1>1 DEF PersistDraft
  <2>3. worker[w].job \in Job
    BY <1>1 DEF PersistDraft, RunsWellFormed, RunWellFormed
  <2> QED
    BY <1>1, <2>1, <2>2, <2>3 DEF PersistDraft, RowsWellFormed, TypeOK, ActiveStatuses
<1>2. ASSUME NEW w \in Worker, NEW d \in Draft, PersistExcluded(w, d) PROVE RowsWellFormed'
  BY <1>2 DEF PersistExcluded, RowsWellFormed, TypeOK, ActiveStatuses
<1>3. ASSUME NEW d \in Draft, RefuseUnconfirmed(d) PROVE RowsWellFormed'
  BY <1>3 DEF RefuseUnconfirmed, RowsWellFormed, TypeOK, ActiveStatuses
<1>4. ASSUME NEW d \in Draft, RefuseClosedJob(d) PROVE RowsWellFormed'
  BY <1>4 DEF RefuseClosedJob, RowsWellFormed, TypeOK, ActiveStatuses
<1>5. ASSUME NEW w \in Worker, ClickSubmit(w) PROVE RowsWellFormed'
  BY <1>5, FilingStep DEF ClickSubmit, RowsWellFormed, TypeOK, ActiveStatuses
<1>6. ASSUME NEW w \in Worker, EnterCode(w) PROVE RowsWellFormed'
  BY <1>6, FilingStep DEF EnterCode, RowsWellFormed, TypeOK, ActiveStatuses
<1>7. ASSUME NEW w \in Worker, NEW r \in Reasons, SaveFailure(w, r) PROVE RowsWellFormed'
  BY <1>7 DEF SaveFailure, RowsWellFormed, TypeOK, ActiveStatuses
<1>8. ASSUME NEW w \in Worker, RecordApplied(w) PROVE RowsWellFormed'
  BY <1>8 DEF RecordApplied, RowsWellFormed, TypeOK, ActiveStatuses
<1>9. ASSUME NEW q \in Request, FinishEdit(q) PROVE RowsWellFormed'
  BY <1>9 DEF FinishEdit, RowsWellFormed, TypeOK, ActiveStatuses, SaveAnswers
<1>10. ASSUME NEW q \in Request, FinishConfirm(q) PROVE RowsWellFormed'
  BY <1>10, ConfirmBankHeldType
  DEF FinishConfirm, RowsWellFormed, TypeOK, ActiveStatuses, SaveAnswers, RequestsWellFormed
<1>11. ASSUME NEW d \in Draft, Discard(d) PROVE RowsWellFormed'
  BY <1>11 DEF Discard, RowsWellFormed, TypeOK, ActiveStatuses
<1>12. ASSUME NEW d \in Draft, Send(d) PROVE RowsWellFormed'
  BY <1>12, SubmitSnapshotType DEF Send, RowsWellFormed, TypeOK, ActiveStatuses
<1>13. ASSUME NEW q \in Request, RetireResume(q) PROVE RowsWellFormed'
  BY <1>13 DEF RetireResume, RowsWellFormed, TypeOK, ActiveStatuses
<1>14. ASSUME Sweep PROVE RowsWellFormed'
  BY <1>14 DEF Sweep, RowsWellFormed, TypeOK, ActiveStatuses, Stuck, Obsolete
<1>15. CASE UNCHANGED <<status, answers, target, snapshot, filed>>
  BY <1>15 DEF RowsWellFormed, TypeOK, ActiveStatuses
<1>16. ASSUME NEW w \in Worker, Failing(w) PROVE  RowsWellFormed'
  BY <1>16, <1>7, FailIsSaved
<1> QED
  BY <1>1, <1>2, <1>3, <1>4, <1>5, <1>6, <1>7, <1>8, <1>9, <1>10, <1>11, <1>12, <1>13,
     <1>14, <1>15, <1>16
  DEF Next, Drafting, Pickup, Submitting, Review, Resumes, Failures, Environment,
      StartDrafting, AbandonDrafting, SkipSettled, RetryForLease, RetryDue, StartSubmit,
        MaterializeFile, StartPolling, SeeSuccess, TriggerAutoApply, BeginEdit,
        BeginConfirm, LoadProfile, SaveProfile, SetResume, ReadReferencing, Crash,
        LoseSubmit, LoseDrafting, MarkApplication, SetInbox, SetJobStatus, Tick, Step

(* A move keeps runs well formed if it agrees with what has been filed.    *)
LEMMA MovedRuns ==
  ASSUME TypeOK, RunsWellFormed, NEW w \in Worker, NEW to \in SubmitSteps,
         worker[w].step \in SubmitSteps, worker' = [worker EXCEPT ![w].step = to],
         UNCHANGED <<target, snapshot>>,
         \A v \in Worker \ {w} : worker[v].step \in SubmitSteps =>
           filed'[worker[v].draft] = filed[worker[v].draft],
         to \in UnfiledSteps => filed'[worker[w].draft] = None,
         to = "confirmed" => filed'[worker[w].draft] # None
  PROVE  RunsWellFormed'
<1>1. /\ \A v \in Worker \ {w} : worker'[v] = worker[v]
      /\ worker'[w].step = to
      /\ worker'[w].draft = worker[w].draft /\ worker'[w].job = worker[w].job
      /\ worker'[w].answers = worker[w].answers
  BY MoveFrame
<1>2. ASSUME NEW v \in Worker \ {w} PROVE RunWellFormed(v)'
  BY <1>1, <1>2 DEF RunsWellFormed, RunWellFormed, SubmitSteps
<1>3. RunWellFormed(w)'
  BY <1>1 DEF RunsWellFormed, RunWellFormed, SubmitSteps, UnfiledSteps
<1> QED
  BY <1>2, <1>3 DEF RunsWellFormed

(* So does a click: the other runs drive other drafts.                     *)
LEMMA FilingRuns ==
  ASSUME TypeOK, RunsWellFormed, OneRunPerDraft, NEW w \in Worker, ClickSubmit(w) \/ EnterCode(w)
  PROVE  RunsWellFormed'
<1>1. PICK to \in {"clicked", "challenged", "entered"} :
        worker' = [worker EXCEPT ![w].step = to]
  BY FilingStep
<1>2. /\ worker[w].step \in UnfiledSteps
      /\ UNCHANGED <<target, snapshot>>
      /\ worker'[w].step = "challenged" => filed' = filed
      /\ \A d \in Draft \ {worker[w].draft} : filed'[d] = filed[d]
  BY FilingStep
<1>3. worker'[w].step = to
  BY <1>1, MoveFrame
<1>4. ASSUME NEW v \in Worker \ {w}, worker[v].step \in SubmitSteps
      PROVE  filed'[worker[v].draft] = filed[worker[v].draft]
  BY <1>2, <1>4 DEF OneRunPerDraft, Running, RunsWellFormed, RunWellFormed, SubmitSteps
<1>5. filed[worker[w].draft] = None
  BY <1>2 DEF RunsWellFormed, RunWellFormed
<1>6. to \in UnfiledSteps => filed'[worker[w].draft] = None
  BY <1>1, <1>2, <1>3, <1>5 DEF UnfiledSteps
<1> QED
  BY <1>1, <1>2, <1>4, <1>6, MovedRuns DEF SubmitSteps, UnfiledSteps

(* Time passing keeps runs well formed.                                    *)
LEMMA TickRuns ==
  ASSUME TypeOK, RunsWellFormed, Tick
  PROVE  RunsWellFormed'
<1>1. UNCHANGED <<target, snapshot, filed>>
  BY DEF Tick
<1>2. ASSUME NEW w \in Worker PROVE RunWellFormed(w)'
  BY <1>1, TickFrame DEF RunsWellFormed, RunWellFormed
<1> QED
  BY <1>2 DEF RunsWellFormed

(* Every step keeps the runs well formed.                                  *)
LEMMA RunsStep ==
  ASSUME TypeOK, RowsWellFormed, RunsWellFormed, OneRunPerDraft, [Next]_vars
  PROVE  RunsWellFormed'
<1>1. ASSUME NEW w \in Worker, NEW j \in Job, StartDrafting(w, j) PROVE RunsWellFormed'
  BY <1>1
  DEF StartDrafting, RunsWellFormed, TypeOK, RunWellFormed, SubmitSteps, UnfiledSteps,
      IdleWorker
<1>2. ASSUME NEW w \in Worker, NEW d \in Draft, PersistDraft(w, d) PROVE RunsWellFormed'
  BY <1>2
  DEF PersistDraft, RunsWellFormed, TypeOK, RunWellFormed, SubmitSteps, UnfiledSteps,
      IdleWorker, RowsWellFormed
<1>3. ASSUME NEW w \in Worker, NEW d \in Draft, PersistExcluded(w, d) PROVE RunsWellFormed'
  BY <1>3
  DEF PersistExcluded, RunsWellFormed, TypeOK, RunWellFormed, SubmitSteps, UnfiledSteps,
      IdleWorker, RowsWellFormed
<1>4. ASSUME NEW w \in Worker, AbandonDrafting(w) PROVE RunsWellFormed'
  BY <1>4
  DEF AbandonDrafting, RunsWellFormed, TypeOK, RunWellFormed, SubmitSteps, UnfiledSteps,
      IdleWorker
<1>5. ASSUME NEW w \in Worker, NEW d \in Draft, StartSubmit(w, d) PROVE RunsWellFormed'
  BY <1>5
  DEF StartSubmit, RunsWellFormed, TypeOK, RunWellFormed, SubmitSteps, UnfiledSteps,
      Cleared, RowsWellFormed, ActiveStatuses, OneRunPerDraft
<1>6. ASSUME NEW w \in Worker, MaterializeFile(w) PROVE RunsWellFormed'
  BY <1>6, MovedRuns
  DEF MaterializeFile, RunsWellFormed, TypeOK, RunWellFormed, SubmitSteps, UnfiledSteps,
      Step
<1>7. ASSUME NEW w \in Worker, ClickSubmit(w) PROVE RunsWellFormed'
  BY <1>7, FilingRuns
  DEF ClickSubmit, RunsWellFormed, TypeOK, RunWellFormed, SubmitSteps, UnfiledSteps
<1>8. ASSUME NEW w \in Worker, StartPolling(w) PROVE RunsWellFormed'
  BY <1>8, MovedRuns
  DEF StartPolling, RunsWellFormed, TypeOK, RunWellFormed, SubmitSteps, UnfiledSteps, Step
<1>9. ASSUME NEW w \in Worker, EnterCode(w) PROVE RunsWellFormed'
  BY <1>9, FilingRuns
  DEF EnterCode, RunsWellFormed, TypeOK, RunWellFormed, SubmitSteps, UnfiledSteps
<1>10. ASSUME NEW w \in Worker, SeeSuccess(w) PROVE RunsWellFormed'
  BY <1>10, MovedRuns
  DEF SeeSuccess, RunsWellFormed, TypeOK, RunWellFormed, SubmitSteps, UnfiledSteps
<1>11. ASSUME NEW w \in Worker, NEW r \in Reasons, SaveFailure(w, r) PROVE RunsWellFormed'
  BY <1>11
  DEF SaveFailure, RunsWellFormed, TypeOK, RunWellFormed, SubmitSteps, UnfiledSteps,
      IdleWorker
<1>12. ASSUME NEW w \in Worker, RecordApplied(w) PROVE RunsWellFormed'
  BY <1>12
  DEF RecordApplied, RunsWellFormed, TypeOK, RunWellFormed, SubmitSteps, UnfiledSteps,
      IdleWorker
<1>13. ASSUME NEW d \in Draft, Send(d) PROVE RunsWellFormed'
  BY <1>13, SubmitSnapshotType
  DEF Send, RunsWellFormed, TypeOK, RunWellFormed, SubmitSteps, UnfiledSteps, RowsWellFormed
<1>14. ASSUME NEW w \in Worker, Crash(w) PROVE RunsWellFormed'
  BY <1>14
  DEF Crash, RunsWellFormed, TypeOK, RunWellFormed, SubmitSteps, UnfiledSteps, IdleWorker
<1>15. ASSUME Tick PROVE RunsWellFormed'
  BY <1>15, TickRuns
  DEF Tick, RunsWellFormed, TypeOK, RunWellFormed, SubmitSteps, UnfiledSteps
<1>16. CASE UNCHANGED <<worker, target, snapshot, filed>>
  BY <1>16 DEF RunsWellFormed, TypeOK, RunWellFormed, SubmitSteps, UnfiledSteps
<1>17. ASSUME NEW w \in Worker, Failing(w) PROVE  RunsWellFormed'
  BY <1>17, <1>11, FailIsSaved
<1> QED
  BY <1>1, <1>2, <1>3, <1>4, <1>5, <1>6, <1>7, <1>8, <1>9, <1>10, <1>11, <1>12, <1>13,
     <1>14, <1>15, <1>16, <1>17
  DEF Next, Drafting, Pickup, Submitting, Review, Resumes, Failures, Environment,
      SkipSettled, RefuseUnconfirmed, RefuseClosedJob, RetryForLease, RetryDue,
        TriggerAutoApply, BeginEdit, BeginConfirm, FinishEdit, FinishConfirm, Discard,
        LoadProfile, SaveProfile, SetResume, ReadReferencing, RetireResume, LoseSubmit,
        LoseDrafting, MarkApplication, SetInbox, SetJobStatus, Sweep, Step

(* Every step keeps the requests well formed.                              *)
LEMMA RequestsStep ==
  ASSUME TypeOK, RowsWellFormed, RunsWellFormed, RequestsWellFormed, [Next]_vars
  PROVE  RequestsWellFormed'
<1>1. ASSUME NEW w \in Worker, NEW d \in Draft, PersistDraft(w, d) PROVE RequestsWellFormed'
  BY <1>1 DEF PersistDraft, RequestsWellFormed, TypeOK, RequestStates
<1>2. ASSUME NEW w \in Worker, NEW d \in Draft, PersistExcluded(w, d)
      PROVE  RequestsWellFormed'
  BY <1>2 DEF PersistExcluded, RequestsWellFormed, TypeOK, RequestStates
<1>3. ASSUME NEW d \in Draft, RefuseUnconfirmed(d) PROVE RequestsWellFormed'
  BY <1>3 DEF RefuseUnconfirmed, RequestsWellFormed, TypeOK, RequestStates
<1>4. ASSUME NEW d \in Draft, RefuseClosedJob(d) PROVE RequestsWellFormed'
  BY <1>4 DEF RefuseClosedJob, RequestsWellFormed, TypeOK, RequestStates
<1>5. ASSUME NEW w \in Worker, NEW r \in Reasons, SaveFailure(w, r)
      PROVE  RequestsWellFormed'
  BY <1>5 DEF SaveFailure, RequestsWellFormed, TypeOK, RequestStates
<1>6. ASSUME NEW w \in Worker, RecordApplied(w) PROVE RequestsWellFormed'
  BY <1>6 DEF RecordApplied, RequestsWellFormed, TypeOK, RequestStates
<1>7. ASSUME NEW q \in Request, NEW d \in Draft, BeginEdit(q, d) PROVE RequestsWellFormed'
  BY <1>7
  DEF BeginEdit, RequestsWellFormed, TypeOK, RequestStates, IdleRequest, RowsWellFormed,
      ActiveStatuses
<1>8. ASSUME NEW q \in Request, NEW d \in Draft, BeginConfirm(q, d)
      PROVE  RequestsWellFormed'
  BY <1>8
  DEF BeginConfirm, RequestsWellFormed, TypeOK, RequestStates, IdleRequest, RowsWellFormed,
      ActiveStatuses
<1>9. ASSUME NEW q \in Request, FinishEdit(q) PROVE RequestsWellFormed'
  BY <1>9 DEF FinishEdit, RequestsWellFormed, TypeOK, RequestStates, IdleRequest
<1>10. ASSUME NEW q \in Request, FinishConfirm(q) PROVE RequestsWellFormed'
  BY <1>10 DEF FinishConfirm, RequestsWellFormed, TypeOK, RequestStates, IdleRequest
<1>11. ASSUME NEW d \in Draft, Discard(d) PROVE RequestsWellFormed'
  BY <1>11 DEF Discard, RequestsWellFormed, TypeOK, RequestStates
<1>12. ASSUME NEW d \in Draft, Send(d) PROVE RequestsWellFormed'
  BY <1>12 DEF Send, RequestsWellFormed, TypeOK, RequestStates
<1>13. ASSUME NEW q \in Request, LoadProfile(q) PROVE RequestsWellFormed'
  BY <1>13 DEF LoadProfile, RequestsWellFormed, TypeOK, RequestStates, IdleRequest
<1>14. ASSUME NEW q \in Request, SaveProfile(q) PROVE RequestsWellFormed'
  BY <1>14 DEF SaveProfile, RequestsWellFormed, TypeOK, RequestStates, IdleRequest
<1>15. ASSUME NEW q \in Request, NEW k \in ResumeKey \cup {None}, SetResume(q, k)
       PROVE  RequestsWellFormed'
  BY <1>15 DEF SetResume, RequestsWellFormed, TypeOK, RequestStates, IdleRequest
<1>16. ASSUME NEW q \in Request, ReadReferencing(q) PROVE RequestsWellFormed'
  BY <1>16
  DEF ReadReferencing, RequestsWellFormed, TypeOK, RequestStates, Referencing, IdleRequest,
      ActiveStatuses
<1>17. ASSUME NEW q \in Request, RetireResume(q) PROVE RequestsWellFormed'
  BY <1>17 DEF RetireResume, RequestsWellFormed, TypeOK, RequestStates, IdleRequest
<1>18. ASSUME Sweep PROVE RequestsWellFormed'
  BY <1>18 DEF Sweep, RequestsWellFormed, TypeOK, RequestStates
<1>19. CASE UNCHANGED <<request, status>>
  BY <1>19 DEF RequestsWellFormed, TypeOK, RequestStates
<1>20. ASSUME NEW w \in Worker, Failing(w) PROVE  RequestsWellFormed'
  BY <1>20, <1>5, FailIsSaved
<1> QED
  BY <1>1, <1>2, <1>3, <1>4, <1>5, <1>6, <1>7, <1>8, <1>9, <1>10, <1>11, <1>12, <1>13,
     <1>14, <1>15, <1>16, <1>17, <1>18, <1>19, <1>20
  DEF Next, Drafting, Pickup, Submitting, Review, Resumes, Failures, Environment,
      StartDrafting, AbandonDrafting, SkipSettled, RetryForLease, RetryDue, StartSubmit,
        MaterializeFile, ClickSubmit, StartPolling, EnterCode, SeeSuccess, TriggerAutoApply,
        Crash, LoseSubmit, LoseDrafting, MarkApplication, SetInbox, SetJobStatus, Tick, Step

(* A click files for a draft with no message in the queue.                 *)
LEMMA FilingOneRun ==
  ASSUME TypeOK, RunsWellFormed, OneRunPerDraft, NEW w \in Worker, ClickSubmit(w) \/ EnterCode(w)
  PROVE  OneRunPerDraft'
<1>1. PICK to \in {"clicked", "challenged", "entered"} :
        worker' = [worker EXCEPT ![w].step = to]
  BY FilingStep
<1>2. /\ Running(w) /\ worker[w].draft \in Draft
      /\ UNCHANGED <<snapshot, submitQueue>>
      /\ \A d \in Draft \ {worker[w].draft} : filed'[d] = filed[d]
  BY FilingStep DEF Running, SubmitSteps, RunsWellFormed, RunWellFormed
<1>3. \A v \in Worker : Running(v)' => Running(v) /\ worker'[v].draft = worker[v].draft
  BY <1>1, <1>2, MoveFrame DEF Running
<1>4. ASSUME NEW d \in Draft, submitQueue[d] # "none" PROVE d # worker[w].draft
  BY <1>2, <1>4 DEF OneRunPerDraft
<1> QED
  BY <1>2, <1>3, <1>4 DEF OneRunPerDraft

(* Send queues the first message of a draft that no run drives.            *)
LEMMA SendOneRun ==
  ASSUME TypeOK, RowsWellFormed, RunsWellFormed, OneRunPerDraft, NEW d \in Draft, Send(d)
  PROVE  OneRunPerDraft'
<1>1. /\ snapshot[d] = None /\ filed[d] = None /\ answers[d] \in Answers
  BY DEF Send, RowsWellFormed, ActiveStatuses
<1>2. /\ UNCHANGED <<worker, filed>>
      /\ snapshot'[d] # None
      /\ \A e \in Draft \ {d} : submitQueue'[e] = submitQueue[e] /\ snapshot'[e] = snapshot[e]
  BY <1>1, SubmitSnapshotType DEF Send, TypeOK
<1>3. \A w \in Worker : Running(w) => worker[w].draft # d
  BY <1>1 DEF Running, RunsWellFormed, RunWellFormed
<1> QED
  BY <1>1, <1>2, <1>3 DEF OneRunPerDraft, Running

(* A run that takes the lease finds it free, so nobody relied on it.       *)
LEMMA LeaseAtStart ==
  ASSUME TypeOK, LeaseCoversBudget, NEW w \in Worker, NEW d \in Draft, StartSubmit(w, d)
  PROVE  LeaseCoversBudget'
<1>1. /\ \A v \in Worker \ {w} : worker'[v] = worker[v]
      /\ worker'[w].step = "opened" /\ worker'[w].elapsed = 0 /\ worker'[w].polls = inbox
      /\ inbox => lease.ttl = 0 /\ lease' = [holder |-> w, ttl |-> LeaseTime]
      /\ ~inbox => lease' = lease
  BY DEF StartSubmit, TypeOK
<1>2. ASSUME NEW v \in Worker \ {w} PROVE LeaseCovers(v)'
  <2>1. worker[v].elapsed \in Nat
    BY DEF TypeOK, WorkerStates
  <2>2. CASE inbox
    BY <1>1, <2>1, <2>2, BudgetType DEF LeaseCoversBudget, LeaseCovers, Running
  <2>3. CASE ~inbox
    BY <1>1, <2>3 DEF LeaseCoversBudget, LeaseCovers, Running
  <2> QED
    BY <2>2, <2>3
<1>3. LeaseCovers(w)'
  BY <1>1, BudgetType DEF LeaseCovers
<1> QED
  BY <1>2, <1>3 DEF LeaseCoversBudget

(* A move of a run keeps every lease.                                      *)
LEMMA LeaseOfMove ==
  ASSUME TypeOK, LeaseCoversBudget, NEW w \in Worker, NEW to, UNCHANGED lease,
         Running(w), worker[w].step # "confirmed", worker' = [worker EXCEPT ![w].step = to],
         to = "polling" => worker[w].polls /\ worker[w].elapsed <= Budget
  PROVE  LeaseCoversBudget'
<1>1. ASSUME NEW v \in Worker \ {w} PROVE LeaseCovers(v)'
  BY MoveFrame DEF LeaseCoversBudget, LeaseCovers, Running
<1>2. LeaseCovers(w)'
  BY MoveFrame DEF LeaseCoversBudget, LeaseCovers, Running
<1> QED
  BY <1>1, <1>2 DEF LeaseCoversBudget

(* So does a click.                                                        *)
LEMMA LeaseAtFiling ==
  ASSUME TypeOK, LeaseCoversBudget, RunsWellFormed, NEW w \in Worker, ClickSubmit(w) \/ EnterCode(w)
  PROVE  LeaseCoversBudget'
<1>1. PICK to \in {"clicked", "challenged", "entered"} :
        worker' = [worker EXCEPT ![w].step = to]
  BY FilingStep
<1>2. Running(w) /\ worker[w].step # "confirmed" /\ lease' = lease
  BY FilingStep DEF Running, SubmitSteps, UnfiledSteps
<1> QED
  BY <1>1, <1>2, LeaseOfMove

(* Polling starts within the budget, and so under the lease.               *)
LEMMA LeaseAtPolling ==
  ASSUME TypeOK, LeaseCoversBudget, NEW w \in Worker, StartPolling(w)
  PROVE  LeaseCoversBudget'
<1>1. /\ Running(w) /\ worker[w].step # "confirmed" /\ lease' = lease
      /\ worker[w].polls /\ worker[w].elapsed < Budget
      /\ worker' = [worker EXCEPT ![w].step = "polling"]
  BY DEF StartPolling, Step, Running, SubmitSteps, UnfiledSteps
<1>2. worker[w].elapsed <= Budget
  BY <1>1, BudgetType DEF TypeOK, WorkerStates
<1> QED
  BY <1>1, <1>2, LeaseOfMove

(* Until the budget is spent the lease does not run out.                   *)
LEMMA LeaseInTime ==
  ASSUME TypeOK, LeaseCoversBudget, Tick
  PROVE  LeaseCoversBudget'
<1> SUFFICES ASSUME NEW w \in Worker PROVE LeaseCovers(w)'
  BY DEF LeaseCoversBudget
<1>1. /\ worker'[w].step = worker[w].step /\ worker'[w].polls = worker[w].polls
      /\ worker[w].elapsed \in Nat
      /\ Running(w) => worker'[w].elapsed = worker[w].elapsed + 1
      /\ worker[w].step = "polling" => worker[w].elapsed < Budget
  BY TickFrame DEF Tick
<1>2. lease.ttl \in Nat /\ lease.holder \in Worker \cup {None}
  BY DEF TypeOK
<1>3. lease.ttl > 1 => lease'.holder = lease.holder /\ lease'.ttl = lease.ttl - 1
  BY <1>2 DEF Tick, TypeOK
<1>4. worker[w].step = "polling" => Running(w)
  BY DEF Running, SubmitSteps, UnfiledSteps
<1> QED
  BY <1>1, <1>2, <1>3, <1>4, BudgetType DEF LeaseCoversBudget, LeaseCovers, Running

(* A step that makes no draft older and no run younger keeps AgeOfRuns.    *)
LEMMA AgeKept ==
  ASSUME TypeOK, RunsWellFormed, AgeOfRuns,
         \A d \in Draft : age'[d] \in Nat /\ age'[d] <= age[d],
         \A w \in Worker : worker'[w].step \in SubmitSteps =>
           /\ worker[w].step \in SubmitSteps
           /\ worker'[w].draft = worker[w].draft
           /\ worker'[w].picked = worker[w].picked /\ worker'[w].elapsed = worker[w].elapsed
  PROVE  AgeOfRuns'
<1> SUFFICES ASSUME NEW w \in Worker, Running(w)'
             PROVE  age'[worker'[w].draft] <= worker'[w].picked + worker'[w].elapsed
  BY DEF AgeOfRuns
<1>1. worker[w].draft \in Draft /\ worker[w].picked \in Nat /\ worker[w].elapsed \in Nat
  BY DEF TypeOK, WorkerStates, RunsWellFormed, RunWellFormed, Running
<1>2. age[worker[w].draft] <= worker[w].picked + worker[w].elapsed
  BY DEF AgeOfRuns, Running
<1> QED
  BY <1>1, <1>2 DEF Running, TypeOK

(* A click is such a step.                                                 *)
LEMMA AgeAtFiling ==
  ASSUME TypeOK, RunsWellFormed, AgeOfRuns, NEW w \in Worker, ClickSubmit(w) \/ EnterCode(w)
  PROVE  AgeOfRuns'
<1>1. PICK to \in {"clicked", "challenged", "entered"} :
        worker' = [worker EXCEPT ![w].step = to]
  BY FilingStep
<1>2. worker[w].step \in SubmitSteps /\ age' = age
  BY FilingStep DEF SubmitSteps
<1>3. \A d \in Draft : age'[d] \in Nat /\ age'[d] <= age[d]
  BY <1>2 DEF TypeOK
<1>4. ASSUME NEW v \in Worker, worker'[v].step \in SubmitSteps
      PROVE  /\ worker[v].step \in SubmitSteps
             /\ worker'[v].draft = worker[v].draft
             /\ worker'[v].picked = worker[v].picked /\ worker'[v].elapsed = worker[v].elapsed
  BY <1>1, <1>2, <1>4, MoveFrame
<1> QED
  BY <1>3, <1>4, AgeKept

(* Drafts and their runs age together.                                     *)
LEMMA AgeInTime ==
  ASSUME TypeOK, RunsWellFormed, AgeOfRuns, Tick
  PROVE  AgeOfRuns'
<1> SUFFICES ASSUME NEW w \in Worker, Running(w)'
             PROVE  age'[worker'[w].draft] <= worker'[w].picked + worker'[w].elapsed
  BY DEF AgeOfRuns
<1>1. /\ worker'[w].draft = worker[w].draft /\ worker'[w].picked = worker[w].picked
      /\ Running(w) /\ worker'[w].elapsed = worker[w].elapsed + 1
  BY TickFrame DEF Running
<1>2. worker[w].draft \in Draft /\ worker[w].picked \in Nat /\ worker[w].elapsed \in Nat
  BY <1>1 DEF TypeOK, WorkerStates, RunsWellFormed, RunWellFormed, Running
<1>3. \A d \in Draft : age[d] \in Nat /\ age'[d] <= age[d] + 1
  BY DEF Tick, TypeOK
<1>4. age'[worker[w].draft] \in Nat
  BY <1>2 DEF Tick, TypeOK
<1> QED
  BY <1>1, <1>2, <1>3, <1>4 DEF AgeOfRuns

(* No step gives a draft a second run or message.                          *)
LEMMA OneRunStep ==
  ASSUME TypeOK, RowsWellFormed, RunsWellFormed, OneRunPerDraft, [Next]_vars
  PROVE  OneRunPerDraft'
<1>1. ASSUME NEW w \in Worker, NEW j \in Job, StartDrafting(w, j) PROVE OneRunPerDraft'
  BY <1>1
  DEF StartDrafting, OneRunPerDraft, TypeOK, Running, SubmitSteps, UnfiledSteps, IdleWorker
<1>2. ASSUME NEW w \in Worker, NEW d \in Draft, PersistDraft(w, d) PROVE OneRunPerDraft'
  BY <1>2
  DEF PersistDraft, OneRunPerDraft, TypeOK, Running, SubmitSteps, UnfiledSteps, IdleWorker
<1>3. ASSUME NEW w \in Worker, NEW d \in Draft, PersistExcluded(w, d) PROVE OneRunPerDraft'
  BY <1>3
  DEF PersistExcluded, OneRunPerDraft, TypeOK, Running, SubmitSteps, UnfiledSteps,
      IdleWorker
<1>4. ASSUME NEW w \in Worker, AbandonDrafting(w) PROVE OneRunPerDraft'
  BY <1>4
  DEF AbandonDrafting, OneRunPerDraft, TypeOK, Running, SubmitSteps, UnfiledSteps,
      IdleWorker
<1>5. ASSUME NEW d \in Draft, SkipSettled(d) PROVE OneRunPerDraft'
  BY <1>5 DEF SkipSettled, OneRunPerDraft, TypeOK, Running, SubmitSteps, UnfiledSteps
<1>6. ASSUME NEW d \in Draft, RefuseUnconfirmed(d) PROVE OneRunPerDraft'
  BY <1>6
  DEF RefuseUnconfirmed, OneRunPerDraft, TypeOK, Running, SubmitSteps, UnfiledSteps
<1>7. ASSUME NEW d \in Draft, RefuseClosedJob(d) PROVE OneRunPerDraft'
  BY <1>7
  DEF RefuseClosedJob, OneRunPerDraft, TypeOK, Running, SubmitSteps, UnfiledSteps
<1>8. ASSUME NEW d \in Draft, RetryForLease(d) PROVE OneRunPerDraft'
  BY <1>8
  DEF RetryForLease, OneRunPerDraft, TypeOK, Running, SubmitSteps, UnfiledSteps, Cleared
<1>9. ASSUME NEW d \in Draft, RetryDue(d) PROVE OneRunPerDraft'
  BY <1>9 DEF RetryDue, OneRunPerDraft, TypeOK, Running, SubmitSteps, UnfiledSteps
<1>10. ASSUME NEW w \in Worker, NEW d \in Draft, StartSubmit(w, d) PROVE OneRunPerDraft'
  BY <1>10
  DEF StartSubmit, OneRunPerDraft, TypeOK, Running, SubmitSteps, UnfiledSteps, Cleared
<1>11. ASSUME NEW w \in Worker, MaterializeFile(w) PROVE OneRunPerDraft'
  BY <1>11
  DEF MaterializeFile, OneRunPerDraft, TypeOK, Running, SubmitSteps, UnfiledSteps, Step
<1>12. ASSUME NEW w \in Worker, ClickSubmit(w) PROVE OneRunPerDraft'
  BY <1>12, FilingOneRun
  DEF ClickSubmit, OneRunPerDraft, TypeOK, Running, SubmitSteps, UnfiledSteps
<1>13. ASSUME NEW w \in Worker, StartPolling(w) PROVE OneRunPerDraft'
  BY <1>13
  DEF StartPolling, OneRunPerDraft, TypeOK, Running, SubmitSteps, UnfiledSteps, Step
<1>14. ASSUME NEW w \in Worker, EnterCode(w) PROVE OneRunPerDraft'
  BY <1>14, FilingOneRun
  DEF EnterCode, OneRunPerDraft, TypeOK, Running, SubmitSteps, UnfiledSteps
<1>15. ASSUME NEW w \in Worker, SeeSuccess(w) PROVE OneRunPerDraft'
  BY <1>15 DEF SeeSuccess, OneRunPerDraft, TypeOK, Running, SubmitSteps, UnfiledSteps
<1>16. ASSUME NEW w \in Worker, NEW r \in Reasons, SaveFailure(w, r) PROVE OneRunPerDraft'
  BY <1>16
  DEF SaveFailure, OneRunPerDraft, TypeOK, Running, SubmitSteps, UnfiledSteps, IdleWorker
<1>17. ASSUME NEW w \in Worker, RecordApplied(w) PROVE OneRunPerDraft'
  BY <1>17
  DEF RecordApplied, OneRunPerDraft, TypeOK, Running, SubmitSteps, UnfiledSteps, IdleWorker
<1>18. ASSUME NEW d \in Draft, Send(d) PROVE OneRunPerDraft'
  BY <1>18, SendOneRun
  DEF Send, OneRunPerDraft, TypeOK, Running, SubmitSteps, UnfiledSteps
<1>19. ASSUME NEW w \in Worker, Crash(w) PROVE OneRunPerDraft'
  BY <1>19
  DEF Crash, OneRunPerDraft, TypeOK, Running, SubmitSteps, UnfiledSteps, IdleWorker
<1>20. ASSUME NEW d \in Draft, LoseSubmit(d) PROVE OneRunPerDraft'
  BY <1>20 DEF LoseSubmit, OneRunPerDraft, TypeOK, Running, SubmitSteps, UnfiledSteps
<1>21. ASSUME Tick PROVE OneRunPerDraft'
  BY <1>21, TickFrame
  DEF Tick, OneRunPerDraft, TypeOK, Running, SubmitSteps, UnfiledSteps
<1>22. CASE UNCHANGED <<worker, submitQueue, snapshot, filed>>
  BY <1>22 DEF OneRunPerDraft, TypeOK, Running, SubmitSteps, UnfiledSteps
<1>23. ASSUME NEW w \in Worker, Failing(w) PROVE  OneRunPerDraft'
  BY <1>23, <1>16, FailIsSaved
<1> QED
  BY <1>1, <1>2, <1>3, <1>4, <1>5, <1>6, <1>7, <1>8, <1>9, <1>10, <1>11, <1>12, <1>13,
     <1>14, <1>15, <1>16, <1>17, <1>18, <1>19, <1>20, <1>21, <1>22, <1>23
  DEF Next, Drafting, Pickup, Submitting, Review, Resumes, Failures, Environment,
      TriggerAutoApply, BeginEdit, BeginConfirm, FinishEdit, FinishConfirm, Discard,
        LoadProfile, SaveProfile, SetResume, ReadReferencing, RetireResume, LoseDrafting,
        MarkApplication, SetInbox, SetJobStatus, Sweep, Step

(* No step takes the lease from a run within its budget.                   *)
LEMMA LeaseStep ==
  ASSUME TypeOK, RunsWellFormed, LeaseCoversBudget, [Next]_vars
  PROVE  LeaseCoversBudget'
<1>1. ASSUME NEW w \in Worker, NEW j \in Job, StartDrafting(w, j) PROVE LeaseCoversBudget'
  BY <1>1
  DEF StartDrafting, LeaseCoversBudget, LeaseCovers, TypeOK, Running, SubmitSteps,
      UnfiledSteps, IdleWorker
<1>2. ASSUME NEW w \in Worker, NEW d \in Draft, PersistDraft(w, d) PROVE LeaseCoversBudget'
  BY <1>2
  DEF PersistDraft, LeaseCoversBudget, LeaseCovers, TypeOK, Running, SubmitSteps,
      UnfiledSteps, IdleWorker
<1>3. ASSUME NEW w \in Worker, NEW d \in Draft, PersistExcluded(w, d)
      PROVE  LeaseCoversBudget'
  BY <1>3
  DEF PersistExcluded, LeaseCoversBudget, LeaseCovers, TypeOK, Running, SubmitSteps,
      UnfiledSteps, IdleWorker
<1>4. ASSUME NEW w \in Worker, AbandonDrafting(w) PROVE LeaseCoversBudget'
  BY <1>4
  DEF AbandonDrafting, LeaseCoversBudget, LeaseCovers, TypeOK, Running, SubmitSteps,
      UnfiledSteps, IdleWorker
<1>5. ASSUME NEW w \in Worker, NEW d \in Draft, StartSubmit(w, d) PROVE LeaseCoversBudget'
  BY <1>5, LeaseAtStart
  DEF StartSubmit, LeaseCoversBudget, LeaseCovers, TypeOK, Running, SubmitSteps,
      UnfiledSteps
<1>6. ASSUME NEW w \in Worker, MaterializeFile(w) PROVE LeaseCoversBudget'
  BY <1>6, LeaseOfMove
  DEF MaterializeFile, LeaseCoversBudget, LeaseCovers, TypeOK, Running, SubmitSteps,
      UnfiledSteps, Step
<1>7. ASSUME NEW w \in Worker, ClickSubmit(w) PROVE LeaseCoversBudget'
  BY <1>7, LeaseAtFiling
  DEF ClickSubmit, LeaseCoversBudget, LeaseCovers, TypeOK, Running, SubmitSteps,
      UnfiledSteps
<1>8. ASSUME NEW w \in Worker, StartPolling(w) PROVE LeaseCoversBudget'
  BY <1>8, LeaseAtPolling
  DEF StartPolling, LeaseCoversBudget, LeaseCovers, TypeOK, Running, SubmitSteps,
      UnfiledSteps
<1>9. ASSUME NEW w \in Worker, EnterCode(w) PROVE LeaseCoversBudget'
  BY <1>9, LeaseAtFiling
  DEF EnterCode, LeaseCoversBudget, LeaseCovers, TypeOK, Running, SubmitSteps, UnfiledSteps
<1>10. ASSUME NEW w \in Worker, SeeSuccess(w) PROVE LeaseCoversBudget'
  BY <1>10, MoveFrame
  DEF SeeSuccess, LeaseCoversBudget, LeaseCovers, TypeOK, Running, SubmitSteps,
      UnfiledSteps, Release, FreeLease
<1>11. ASSUME NEW w \in Worker, NEW r \in Reasons, SaveFailure(w, r)
       PROVE  LeaseCoversBudget'
  BY <1>11
  DEF SaveFailure, LeaseCoversBudget, LeaseCovers, TypeOK, Running, SubmitSteps,
      UnfiledSteps, IdleWorker, Release, FreeLease
<1>12. ASSUME NEW w \in Worker, RecordApplied(w) PROVE LeaseCoversBudget'
  BY <1>12
  DEF RecordApplied, LeaseCoversBudget, LeaseCovers, TypeOK, Running, SubmitSteps,
      UnfiledSteps, IdleWorker
<1>13. ASSUME NEW w \in Worker, Crash(w) PROVE LeaseCoversBudget'
  BY <1>13
  DEF Crash, LeaseCoversBudget, LeaseCovers, TypeOK, Running, SubmitSteps, UnfiledSteps,
      IdleWorker
<1>14. ASSUME Tick PROVE LeaseCoversBudget'
  BY <1>14, LeaseInTime
  DEF Tick, LeaseCoversBudget, LeaseCovers, TypeOK, Running, SubmitSteps, UnfiledSteps
<1>15. CASE UNCHANGED <<worker, lease>>
  BY <1>15 DEF LeaseCoversBudget, LeaseCovers, TypeOK, Running, SubmitSteps, UnfiledSteps
<1>16. ASSUME NEW w \in Worker, Failing(w) PROVE  LeaseCoversBudget'
  BY <1>16, <1>11, FailIsSaved
<1> QED
  BY <1>1, <1>2, <1>3, <1>4, <1>5, <1>6, <1>7, <1>8, <1>9, <1>10, <1>11, <1>12, <1>13,
     <1>14, <1>15, <1>16
  DEF Next, Drafting, Pickup, Submitting, Review, Resumes, Failures, Environment,
      SkipSettled, RefuseUnconfirmed, RefuseClosedJob, RetryForLease, RetryDue,
        TriggerAutoApply, BeginEdit, BeginConfirm, FinishEdit, FinishConfirm, Discard, Send,
        LoadProfile, SaveProfile, SetResume, ReadReferencing, RetireResume, LoseSubmit,
        LoseDrafting, MarkApplication, SetInbox, SetJobStatus, Sweep, Step

(* Every step keeps the bound on the age of driven drafts.                 *)
LEMMA AgeStep ==
  ASSUME TypeOK, RunsWellFormed, AgeOfRuns, [Next]_vars
  PROVE  AgeOfRuns'
<1>1. ASSUME NEW w \in Worker, NEW j \in Job, StartDrafting(w, j) PROVE AgeOfRuns'
  BY <1>1
  DEF StartDrafting, AgeOfRuns, TypeOK, Running, SubmitSteps, UnfiledSteps, IdleWorker
<1>2. ASSUME NEW w \in Worker, NEW d \in Draft, PersistDraft(w, d) PROVE AgeOfRuns'
  BY <1>2, TouchFrame, AgeKept
  DEF PersistDraft, AgeOfRuns, TypeOK, Running, SubmitSteps, UnfiledSteps, IdleWorker
<1>3. ASSUME NEW w \in Worker, NEW d \in Draft, PersistExcluded(w, d) PROVE AgeOfRuns'
  BY <1>3, TouchFrame, AgeKept
  DEF PersistExcluded, AgeOfRuns, TypeOK, Running, SubmitSteps, UnfiledSteps, IdleWorker
<1>4. ASSUME NEW w \in Worker, AbandonDrafting(w) PROVE AgeOfRuns'
  BY <1>4
  DEF AbandonDrafting, AgeOfRuns, TypeOK, Running, SubmitSteps, UnfiledSteps, IdleWorker
<1>5. ASSUME NEW d \in Draft, RefuseUnconfirmed(d) PROVE AgeOfRuns'
  BY <1>5, TouchFrame, AgeKept
  DEF RefuseUnconfirmed, AgeOfRuns, TypeOK, Running, SubmitSteps, UnfiledSteps
<1>6. ASSUME NEW d \in Draft, RefuseClosedJob(d) PROVE AgeOfRuns'
  BY <1>6, TouchFrame, AgeKept
  DEF RefuseClosedJob, AgeOfRuns, TypeOK, Running, SubmitSteps, UnfiledSteps
<1>7. ASSUME NEW w \in Worker, NEW d \in Draft, StartSubmit(w, d) PROVE AgeOfRuns'
  BY <1>7, BudgetType
  DEF StartSubmit, AgeOfRuns, TypeOK, Running, SubmitSteps, UnfiledSteps, Cleared
<1>8. ASSUME NEW w \in Worker, MaterializeFile(w) PROVE AgeOfRuns'
  BY <1>8, MoveFrame
  DEF MaterializeFile, AgeOfRuns, TypeOK, Running, SubmitSteps, UnfiledSteps, Step
<1>9. ASSUME NEW w \in Worker, ClickSubmit(w) PROVE AgeOfRuns'
  BY <1>9, AgeAtFiling
  DEF ClickSubmit, AgeOfRuns, TypeOK, Running, SubmitSteps, UnfiledSteps
<1>10. ASSUME NEW w \in Worker, StartPolling(w) PROVE AgeOfRuns'
  BY <1>10, MoveFrame
  DEF StartPolling, AgeOfRuns, TypeOK, Running, SubmitSteps, UnfiledSteps, Step
<1>11. ASSUME NEW w \in Worker, EnterCode(w) PROVE AgeOfRuns'
  BY <1>11, AgeAtFiling
  DEF EnterCode, AgeOfRuns, TypeOK, Running, SubmitSteps, UnfiledSteps
<1>12. ASSUME NEW w \in Worker, SeeSuccess(w) PROVE AgeOfRuns'
  BY <1>12, MoveFrame
  DEF SeeSuccess, AgeOfRuns, TypeOK, Running, SubmitSteps, UnfiledSteps
<1>13. ASSUME NEW w \in Worker, NEW r \in Reasons, SaveFailure(w, r) PROVE AgeOfRuns'
  BY <1>13, TouchFrame, AgeKept
  DEF SaveFailure, AgeOfRuns, TypeOK, Running, SubmitSteps, UnfiledSteps, IdleWorker
<1>14. ASSUME NEW w \in Worker, RecordApplied(w) PROVE AgeOfRuns'
  BY <1>14, TouchFrame, AgeKept
  DEF RecordApplied, AgeOfRuns, TypeOK, Running, SubmitSteps, UnfiledSteps, IdleWorker
<1>15. ASSUME NEW q \in Request, FinishEdit(q) PROVE AgeOfRuns'
  BY <1>15, TouchFrame, AgeKept
  DEF FinishEdit, AgeOfRuns, TypeOK, Running, SubmitSteps, UnfiledSteps, SaveAnswers
<1>16. ASSUME NEW q \in Request, FinishConfirm(q) PROVE AgeOfRuns'
  BY <1>16, TouchFrame, AgeKept
  DEF FinishConfirm, AgeOfRuns, TypeOK, Running, SubmitSteps, UnfiledSteps, SaveAnswers
<1>17. ASSUME NEW d \in Draft, Send(d) PROVE AgeOfRuns'
  BY <1>17, TouchFrame, AgeKept
  DEF Send, AgeOfRuns, TypeOK, Running, SubmitSteps, UnfiledSteps
<1>18. ASSUME NEW w \in Worker, Crash(w) PROVE AgeOfRuns'
  BY <1>18 DEF Crash, AgeOfRuns, TypeOK, Running, SubmitSteps, UnfiledSteps, IdleWorker
<1>19. ASSUME Sweep PROVE AgeOfRuns'
  BY <1>19, TouchFrame, AgeKept
  DEF Sweep, AgeOfRuns, TypeOK, Running, SubmitSteps, UnfiledSteps
<1>20. ASSUME Tick PROVE AgeOfRuns'
  BY <1>20, AgeInTime DEF Tick, AgeOfRuns, TypeOK, Running, SubmitSteps, UnfiledSteps
<1>21. CASE UNCHANGED <<worker, age>>
  BY <1>21 DEF AgeOfRuns, TypeOK, Running, SubmitSteps, UnfiledSteps
<1>22. ASSUME NEW w \in Worker, Failing(w) PROVE  AgeOfRuns'
  BY <1>22, <1>13, FailIsSaved
<1> QED
  BY <1>1, <1>2, <1>3, <1>4, <1>5, <1>6, <1>7, <1>8, <1>9, <1>10, <1>11, <1>12, <1>13,
     <1>14, <1>15, <1>16, <1>17, <1>18, <1>19, <1>20, <1>21, <1>22
  DEF Next, Drafting, Pickup, Submitting, Review, Resumes, Failures, Environment,
      SkipSettled, RetryForLease, RetryDue, TriggerAutoApply, BeginEdit, BeginConfirm,
        Discard, LoadProfile, SaveProfile, SetResume, ReadReferencing, RetireResume,
        LoseSubmit, LoseDrafting, MarkApplication, SetInbox, SetJobStatus, Step

(* No step opens a second active draft for a job.                          *)
LEMMA ActiveStep ==
  ASSUME TypeOK, OneActiveDraft, [Next]_vars
  PROVE  OneActiveDraft'
<1>1. ASSUME NEW w \in Worker, NEW d \in Draft, PersistDraft(w, d) PROVE OneActiveDraft'
  BY <1>1 DEF PersistDraft, OneActiveDraft, TypeOK, Active, Rows, ActiveStatuses, Rows
<1>2. ASSUME NEW w \in Worker, NEW d \in Draft, PersistExcluded(w, d) PROVE OneActiveDraft'
  BY <1>2 DEF PersistExcluded, OneActiveDraft, TypeOK, Active, Rows, ActiveStatuses
<1>3. ASSUME NEW d \in Draft, RefuseUnconfirmed(d) PROVE OneActiveDraft'
  BY <1>3 DEF RefuseUnconfirmed, OneActiveDraft, TypeOK, Active, Rows, ActiveStatuses
<1>4. ASSUME NEW d \in Draft, RefuseClosedJob(d) PROVE OneActiveDraft'
  BY <1>4 DEF RefuseClosedJob, OneActiveDraft, TypeOK, Active, Rows, ActiveStatuses
<1>5. ASSUME NEW w \in Worker, NEW r \in Reasons, SaveFailure(w, r) PROVE OneActiveDraft'
  BY <1>5 DEF SaveFailure, OneActiveDraft, TypeOK, Active, Rows, ActiveStatuses
<1>6. ASSUME NEW w \in Worker, RecordApplied(w) PROVE OneActiveDraft'
  BY <1>6 DEF RecordApplied, OneActiveDraft, TypeOK, Active, Rows, ActiveStatuses
<1>7. ASSUME NEW d \in Draft, Discard(d) PROVE OneActiveDraft'
  BY <1>7 DEF Discard, OneActiveDraft, TypeOK, Active, Rows, ActiveStatuses
<1>8. ASSUME NEW d \in Draft, Send(d) PROVE OneActiveDraft'
  BY <1>8 DEF Send, OneActiveDraft, TypeOK, Active, Rows, ActiveStatuses
<1>9. ASSUME NEW q \in Request, RetireResume(q) PROVE OneActiveDraft'
  BY <1>9 DEF RetireResume, OneActiveDraft, TypeOK, Active, Rows, ActiveStatuses
<1>10. ASSUME Sweep PROVE OneActiveDraft'
  BY <1>10 DEF Sweep, OneActiveDraft, TypeOK, Active, Rows, ActiveStatuses
<1>11. CASE UNCHANGED <<status, target>>
  BY <1>11 DEF OneActiveDraft, TypeOK, Active, Rows, ActiveStatuses
<1>12. ASSUME NEW w \in Worker, Failing(w) PROVE  OneActiveDraft'
  BY <1>12, <1>5, FailIsSaved
<1> QED
  BY <1>1, <1>2, <1>3, <1>4, <1>5, <1>6, <1>7, <1>8, <1>9, <1>10, <1>11, <1>12
  DEF Next, Drafting, Pickup, Submitting, Review, Resumes, Failures, Environment,
      StartDrafting, AbandonDrafting, SkipSettled, RetryForLease, RetryDue, StartSubmit,
        MaterializeFile, ClickSubmit, StartPolling, EnterCode, SeeSuccess, TriggerAutoApply,
        BeginEdit, BeginConfirm, FinishEdit, FinishConfirm, LoadProfile, SaveProfile,
        SetResume, ReadReferencing, Crash, LoseSubmit, LoseDrafting, MarkApplication,
        SetInbox, SetJobStatus, Tick, Step

(* No step files an answer that waits for confirmation.                    *)
LEMMA HeldStep ==
  ASSUME TypeOK, RunsWellFormed, NothingHeldIsFiled, [Next]_vars
  PROVE  NothingHeldIsFiled'
<1>1. ASSUME NEW w \in Worker, ClickSubmit(w) PROVE NothingHeldIsFiled'
  BY <1>1, FilingStep DEF ClickSubmit, NothingHeldIsFiled, TypeOK
<1>2. ASSUME NEW w \in Worker, EnterCode(w) PROVE NothingHeldIsFiled'
  BY <1>2, FilingStep DEF EnterCode, NothingHeldIsFiled, TypeOK
<1>3. ASSUME NEW w \in Worker, NEW r \in Reasons, SaveFailure(w, r)
      PROVE  NothingHeldIsFiled'
  BY <1>3 DEF SaveFailure, NothingHeldIsFiled, TypeOK
<1>4. CASE UNCHANGED <<filed>>
  BY <1>4 DEF NothingHeldIsFiled, TypeOK
<1>5. ASSUME NEW w \in Worker, Failing(w) PROVE  NothingHeldIsFiled'
  BY <1>5, <1>3, FailIsSaved
<1> QED
  BY <1>1, <1>2, <1>3, <1>4, <1>5
  DEF Next, Drafting, Pickup, Submitting, Review, Resumes, Failures, Environment,
      StartDrafting, PersistDraft, PersistExcluded, AbandonDrafting, SkipSettled,
        RefuseUnconfirmed, RefuseClosedJob, RetryForLease, RetryDue, StartSubmit,
        MaterializeFile, StartPolling, SeeSuccess, RecordApplied, TriggerAutoApply,
        BeginEdit, BeginConfirm, FinishEdit, FinishConfirm, Discard, Send, LoadProfile,
        SaveProfile, SetResume, ReadReferencing, RetireResume, Crash, LoseSubmit,
        LoseDrafting, MarkApplication, SetInbox, SetJobStatus, Sweep, Tick, Step

(* No step records an application that was not filed.                      *)
LEMMA AppliedStep ==
  ASSUME TypeOK, RowsWellFormed, RunsWellFormed, AppliedWasFiled, [Next]_vars
  PROVE  AppliedWasFiled'
<1>1. ASSUME NEW w \in Worker, NEW d \in Draft, PersistDraft(w, d) PROVE AppliedWasFiled'
  BY <1>1 DEF PersistDraft, AppliedWasFiled, TypeOK, RowsWellFormed
<1>2. ASSUME NEW w \in Worker, NEW d \in Draft, PersistExcluded(w, d) PROVE AppliedWasFiled'
  BY <1>2 DEF PersistExcluded, AppliedWasFiled, TypeOK, RowsWellFormed
<1>3. ASSUME NEW d \in Draft, RefuseUnconfirmed(d) PROVE AppliedWasFiled'
  BY <1>3 DEF RefuseUnconfirmed, AppliedWasFiled, TypeOK
<1>4. ASSUME NEW d \in Draft, RefuseClosedJob(d) PROVE AppliedWasFiled'
  BY <1>4 DEF RefuseClosedJob, AppliedWasFiled, TypeOK
<1>5. ASSUME NEW w \in Worker, ClickSubmit(w) PROVE AppliedWasFiled'
  BY <1>5, FilingStep DEF ClickSubmit, AppliedWasFiled, TypeOK
<1>6. ASSUME NEW w \in Worker, EnterCode(w) PROVE AppliedWasFiled'
  BY <1>6, FilingStep DEF EnterCode, AppliedWasFiled, TypeOK
<1>7. ASSUME NEW w \in Worker, NEW r \in Reasons, SaveFailure(w, r) PROVE AppliedWasFiled'
  BY <1>7 DEF SaveFailure, AppliedWasFiled, TypeOK
<1>8. ASSUME NEW w \in Worker, RecordApplied(w) PROVE AppliedWasFiled'
  BY <1>8
  DEF RecordApplied, AppliedWasFiled, TypeOK, RunsWellFormed, RunWellFormed, SubmitSteps
<1>9. ASSUME NEW d \in Draft, Discard(d) PROVE AppliedWasFiled'
  BY <1>9 DEF Discard, AppliedWasFiled, TypeOK
<1>10. ASSUME NEW d \in Draft, Send(d) PROVE AppliedWasFiled'
  BY <1>10 DEF Send, AppliedWasFiled, TypeOK
<1>11. ASSUME NEW q \in Request, RetireResume(q) PROVE AppliedWasFiled'
  BY <1>11 DEF RetireResume, AppliedWasFiled, TypeOK
<1>12. ASSUME Sweep PROVE AppliedWasFiled'
  BY <1>12 DEF Sweep, AppliedWasFiled, TypeOK
<1>13. ASSUME NEW j \in Job, NEW mark \in UserMarks, MarkApplication(j, mark)
       PROVE  AppliedWasFiled'
  BY <1>13 DEF MarkApplication, AppliedWasFiled, TypeOK
<1>14. CASE UNCHANGED <<status, linked, filed, application, target>>
  BY <1>14 DEF AppliedWasFiled, TypeOK
<1>15. ASSUME NEW w \in Worker, Failing(w) PROVE  AppliedWasFiled'
  BY <1>15, <1>7, FailIsSaved
<1> QED
  BY <1>1, <1>2, <1>3, <1>4, <1>5, <1>6, <1>7, <1>8, <1>9, <1>10, <1>11, <1>12, <1>13,
     <1>14, <1>15
  DEF Next, Drafting, Pickup, Submitting, Review, Resumes, Failures, Environment,
      StartDrafting, AbandonDrafting, SkipSettled, RetryForLease, RetryDue, StartSubmit,
        MaterializeFile, StartPolling, SeeSuccess, TriggerAutoApply, BeginEdit,
        BeginConfirm, FinishEdit, FinishConfirm, LoadProfile, SaveProfile, SetResume,
        ReadReferencing, Crash, LoseSubmit, LoseDrafting, SetInbox, SetJobStatus, Tick, Step

(* The invariant holds initially.                                          *)
LEMMA InitInv == Init => IInv
<1> SUFFICES ASSUME Init PROVE IInv
  OBVIOUS
<1>1. TypeOK
  BY InitType
<1>2. \A w \in Worker : worker[w] = IdleWorker
  BY DEF Init
<1>3. \A w \in Worker : ~Running(w) /\ worker[w].step = "idle"
  BY <1>2 DEF IdleWorker, Running, SubmitSteps, UnfiledSteps
<1>4. RunsWellFormed /\ LeaseCoversBudget /\ AgeOfRuns
  BY <1>3 DEF RunsWellFormed, RunWellFormed, LeaseCoversBudget, LeaseCovers, AgeOfRuns,
     Running,
              SubmitSteps, UnfiledSteps
<1>5. RequestsWellFormed
  BY DEF Init, RequestsWellFormed, IdleRequest
<1>6. OneRunPerDraft
  BY <1>3 DEF Init, OneRunPerDraft
<1>7. RowsWellFormed /\ OneActiveDraft /\ NothingHeldIsFiled /\ AppliedWasFiled
  BY DEF Init, RowsWellFormed, ActiveStatuses, OneActiveDraft, Active, Rows,
         NothingHeldIsFiled, AppliedWasFiled
<1> QED
  BY <1>1, <1>4, <1>5, <1>6, <1>7 DEF IInv

(* The inductive invariant holds in every reachable state.                 *)
THEOREM Invariance == Spec => []IInv
<1>1. IInv /\ [Next]_vars => IInv'
  BY TypeStep, RowsStep, RunsStep, RequestsStep, OneRunStep, LeaseStep, AgeStep, ActiveStep,
     HeldStep, AppliedStep DEF IInv
<1> QED
  BY <1>1, InitInv, PTL DEF Spec

(* Every handler keeps every row, queue and run well typed.                *)
THEOREM TypeCorrect == Spec => []TypeOK
<1>1. IInv => TypeOK
  BY DEF IInv
<1> QED
  BY <1>1, Invariance, PTL

(* A job never has two drafts that could both be sent, however many        *)
(* triggers draft at once.                                                 *)
THEOREM OneActive == Spec => []OneActiveDraft
<1>1. IInv => OneActiveDraft
  BY DEF IInv
<1> QED
  BY <1>1, Invariance, PTL

(* A draft is never driven by two runs, nor queued while it is driven or   *)
(* filed.                                                                  *)
THEOREM OneRun == Spec => []OneRunPerDraft
<1>1. IInv => OneRunPerDraft
  BY DEF IInv
<1> QED
  BY <1>1, Invariance, PTL

(* No answer that waits for the user's confirmation reaches an employer.   *)
THEOREM NothingHeld == Spec => []NothingHeldIsFiled
<1>1. IInv => NothingHeldIsFiled
  BY DEF IInv
<1> QED
  BY <1>1, Invariance, PTL

(* APPLIED is recorded only for what an employer has received.             *)
THEOREM AppliedFiled == Spec => []AppliedWasFiled
<1>1. IInv => AppliedWasFiled
  BY DEF IInv
<1> QED
  BY <1>1, Invariance, PTL

(* Two polling runs would both hold the lease.                             *)
LEMMA LeaseExcludes == IInv => PollingIsExclusive
<1> SUFFICES ASSUME IInv, NEW v \in Worker, NEW w \in Worker,
                    worker[v].step = "polling", worker[w].step = "polling"
             PROVE  v = w
  BY DEF PollingIsExclusive
<1>1. Running(v) /\ Running(w)
  BY DEF Running, SubmitSteps, UnfiledSteps
<1>2. LeaseCovers(v) /\ LeaseCovers(w)
  BY DEF IInv, LeaseCoversBudget
<1> QED
  BY <1>1, <1>2 DEF LeaseCovers

(* At most one run of a user reads the inbox, whatever expires, dies or    *)
(* outlives its budget: the verification lease of submit_auto_apply_draft  *)
(* is sound for every timeout that the settings allow.                     *)
THEOREM PollingExclusive == Spec => []PollingIsExclusive
BY Invariance, LeaseExcludes, PTL

(* No run saves sending_timeout as the reason of its failure.              *)
LEMMA FailureReason ==
  ASSUME NEW w \in Worker, Failing(w)
  PROVE  \E r \in Reasons \ {"sending_timeout"} : SaveFailure(w, r)
BY DEF Failing, FailBeforeClick, FailAfterClick, FailChallenged, FailLookup, FailEntered,
   Fail,
       Reasons, PreClickReasons, LookupReasons

(* Only the sweep gives up on a draft with reason sending_timeout.         *)
LEMMA OnlySweepTimesOut ==
  ASSUME TypeOK, [Next]_vars, NEW d \in Draft,
         status[d] = "sending", status'[d] = "failed", reason'[d] = "sending_timeout"
  PROVE  Sweep
<1>1. ASSUME NEW w \in Worker, NEW r \in Reasons \ {"sending_timeout"}, SaveFailure(w, r)
      PROVE  FALSE
  BY <1>1 DEF SaveFailure, TypeOK
<1>2. ASSUME NEW w \in Worker, Failing(w)
      PROVE  FALSE
  BY <1>1, <1>2, FailureReason
<1>3. ASSUME NEW e \in Draft, RefuseUnconfirmed(e) \/ RefuseClosedJob(e) \/ Discard(e) \/
             Send(e)
      PROVE  FALSE
  BY <1>3 DEF RefuseUnconfirmed, RefuseClosedJob, Discard, Send, TypeOK
<1>4. ASSUME NEW w \in Worker, NEW e \in Draft, PersistDraft(w, e) \/ PersistExcluded(w, e)
      PROVE  FALSE
  BY <1>4 DEF PersistDraft, PersistExcluded, TypeOK
<1>5. ASSUME NEW w \in Worker, RecordApplied(w) PROVE FALSE
  BY <1>5 DEF RecordApplied, TypeOK
<1>6. ASSUME NEW q \in Request, RetireResume(q) PROVE FALSE
  BY <1>6 DEF RetireResume, TypeOK
<1>7. CASE UNCHANGED status
  BY <1>7
<1> QED
  BY <1>2, <1>3, <1>4, <1>5, <1>6, <1>7
  DEF Next, Drafting, Pickup, Submitting, Review, Resumes, Failures, Environment,
      StartDrafting, AbandonDrafting, SkipSettled, RetryForLease, RetryDue, StartSubmit,
        MaterializeFile, ClickSubmit, StartPolling, EnterCode, SeeSuccess, TriggerAutoApply,
        BeginEdit, BeginConfirm, FinishEdit, FinishConfirm, LoadProfile, SaveProfile,
        SetResume, ReadReferencing, Crash, LoseSubmit, LoseDrafting, MarkApplication,
        SetInbox, SetJobStatus, Tick, Step

(* If AUTO_APPLY_SENDING_TIMEOUT_SECONDS leaves room for the safety margin *)
(* and the smallest budget, the sweep never fails a promptly started run   *)
(* within its budget.  (check_auto_apply_sending_timeout_ordering does not *)
(* require that.)                                                          *)
THEOREM SweepSpares ==
  ASSUME SendingTimeout >= SafetyMargin + MinBudget
  PROVE  Spec => SweepSparesPromptRuns
<1>1. Budget = SendingTimeout - SafetyMargin
  BY TimesAssumption DEF Budget
<1>2. ASSUME IInv, [Next]_vars, NEW w \in Worker,
             Running(w), worker[w].picked <= SafetyMargin,
             status[worker[w].draft] = "sending", status'[worker[w].draft] = "failed",
             reason'[worker[w].draft] = "sending_timeout"
      PROVE  worker[w].elapsed > Budget
  <2> DEFINE d == worker[w].draft
  <2>1. d \in Draft
    BY <1>2 DEF IInv, RunsWellFormed, RunWellFormed, Running
  <2>2. Sweep
    BY <1>2, <2>1, OnlySweepTimesOut DEF IInv
  <2>3. age[d] > SendingTimeout
    BY <1>2, <2>1, <2>2 DEF Sweep, Stuck, Obsolete, IInv, TypeOK
  <2>4. age[d] <= worker[w].picked + worker[w].elapsed
    BY <1>2 DEF IInv, AgeOfRuns
  <2>5. worker[w].picked \in Nat /\ worker[w].elapsed \in Nat /\ age[d] \in Nat
    BY <1>2, <2>1 DEF IInv, TypeOK, WorkerStates
  <2> QED
    BY <1>1, <1>2, <2>3, <2>4, <2>5, TimesAssumption
<1>3. IInv /\ [Next]_vars =>
        [\A w \in Worker :
           LET d == worker[w].draft IN
           /\ Running(w)
           /\ worker[w].picked <= SafetyMargin
           /\ status[d] = "sending" /\ status'[d] = "failed"
           /\ reason'[d] = "sending_timeout"
           => worker[w].elapsed > Budget]_vars
  BY <1>2
<1> QED
  BY <1>3, Invariance, PTL DEF Spec, SweepSparesPromptRuns
=============================================================================
