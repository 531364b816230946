------------------------- MODULE AutoApplyRefinement ------------------------
(***************************************************************************)
(* AutoApply implements DraftLifecycle: every step of a handler is a step  *)
(* of the lifecycle or a stutter.                                          *)
(***************************************************************************)
EXTENDS AutoApplyProofs

USE DEF vars, draftVars, worldVars, resumeVars, queueVars,
        Take, SaveAnswers, UniqueActive, SuccessShown

(* The phases of the statuses.                                             *)
LEMMA PhaseOf ==
  ASSUME NEW s \in Statuses
  PROVE  /\ Phase(s) \in {"none", "review", "sending", "over"}
         /\ Phase(s) = "none" <=> s = "absent"
         /\ Phase(s) = "review" <=> s = "drafted"
         /\ Phase(s) = "sending" <=> s = "sending"
BY DEF Phase, Statuses, ActiveStatuses

(* A step that changes neither rows nor filings is a stutter.              *)
LEMMA StutterMaps ==
  ASSUME UNCHANGED <<status, target, snapshot, filed>>
  PROVE  UNCHANGED Lifecycle!vars
BY DEF Lifecycle!vars

(* Ending some drafts is a Settle of those that were still open.           *)
LEMMA SettleMaps ==
  ASSUME TypeOK, status' \in [Draft -> Statuses], NEW S \in SUBSET Draft,
         UNCHANGED <<target, snapshot, filed>>,
         \A d \in S : status[d] # "absent" /\ Phase(status'[d]) = "over",
         \A d \in Draft \ S : status'[d] = status[d]
  PROVE  [Lifecycle!Next]_(Lifecycle!vars)
<1> DEFINE live == {d \in S : Phase(status[d]) \in {"review", "sending"}}
<1>1. \A d \in S \ live : Phase(status[d]) = "over"
  BY PhaseOf DEF TypeOK
<1>2. [d \in Draft |-> Phase(status[d])]'
        = [d \in Draft |-> IF d \in live THEN "over" ELSE Phase(status[d])]
  BY <1>1
<1>3. UNCHANGED <<target, {d \in Draft : snapshot[d] # None}, {d \in Draft : filed[d] # None}>>
  OBVIOUS
<1>4. CASE live = {}
  BY <1>2, <1>3, <1>4 DEF Lifecycle!vars
<1>5. CASE live # {}
  <2>1. Lifecycle!Settle(live)
    BY <1>2, <1>3, <1>5 DEF Lifecycle!Settle
  <2> QED
    BY <2>1 DEF Lifecycle!Next
<1> QED
  BY <1>4, <1>5

(* The same for a single draft.                                            *)
LEMMA SettleOneMaps ==
  ASSUME TypeOK, NEW d \in Draft, status[d] # "absent",
         NEW s \in {"applied", "failed", "stale", "deleted"}, status' = [status EXCEPT ![d] = s],
         UNCHANGED <<target, snapshot, filed>>
  PROVE  [Lifecycle!Next]_(Lifecycle!vars)
<1> DEFINE S == {d}
<1>1. status' \in [Draft -> Statuses] /\ Phase(status'[d]) = "over"
  BY DEF TypeOK, Statuses, Phase
<1>2. S \in SUBSET Draft /\ \A e \in S : status[e] # "absent" /\ Phase(status'[e]) = "over"
  BY <1>1
<1>3. \A e \in Draft \ S : status'[e] = status[e]
  BY DEF TypeOK
<1> HIDE DEF S
<1> QED
  BY <1>1, <1>2, <1>3, SettleMaps

(* PersistDraft is an Open: the unique constraint is its guard.            *)
LEMMA DraftingMaps ==
  ASSUME IInv, NEW w \in Worker, NEW d \in Draft, PersistDraft(w, d)
  PROVE  Lifecycle!Open(d, worker[w].job) /\ worker[w].job \in Job
<1> DEFINE j == worker[w].job
<1>1. j \in Job
  BY DEF IInv, RunsWellFormed, RunWellFormed, PersistDraft
<1>2. /\ status[d] = "absent" /\ Active(j) = {}
      /\ status' = [status EXCEPT ![d] = "drafted"]
      /\ target' = [target EXCEPT ![d] = j]
      /\ UNCHANGED <<snapshot, filed>>
  BY DEF PersistDraft
<1>3. Lifecycle!Active(j) = {}
  BY <1>2, PhaseOf DEF Lifecycle!Active, Active, Rows, ActiveStatuses, IInv, TypeOK
<1>4. [e \in Draft |-> Phase(status[e])]'
        = [[e \in Draft |-> Phase(status[e])] EXCEPT ![d] = "review"]
  BY <1>2 DEF IInv, TypeOK, Phase
<1>5. [e \in Draft |-> Phase(status[e])][d] = "none"
  BY <1>2 DEF Phase
<1> QED
  BY <1>1, <1>2, <1>3, <1>4, <1>5 DEF Lifecycle!Open

(* PersistExcluded is an Exclude.                                          *)
LEMMA ExclusionMaps ==
  ASSUME IInv, NEW w \in Worker, NEW d \in Draft, PersistExcluded(w, d)
  PROVE  Lifecycle!Exclude(d, worker[w].job) /\ worker[w].job \in Job
<1> DEFINE j == worker[w].job
<1>1. j \in Job
  BY DEF IInv, RunsWellFormed, RunWellFormed, PersistExcluded
<1>2. /\ status[d] = "absent"
      /\ status' = [status EXCEPT ![d] = "excluded"]
      /\ target' = [target EXCEPT ![d] = j]
      /\ UNCHANGED <<snapshot, filed>>
  BY DEF PersistExcluded
<1>3. [e \in Draft |-> Phase(status[e])]'
        = [[e \in Draft |-> Phase(status[e])] EXCEPT ![d] = "over"]
  BY <1>2 DEF IInv, TypeOK, Phase
<1>4. [e \in Draft |-> Phase(status[e])][d] = "none"
  BY <1>2 DEF Phase
<1> QED
  BY <1>1, <1>2, <1>3, <1>4 DEF Lifecycle!Exclude

(* Send is a Send: the snapshot is the consent.                            *)
LEMMA SendMaps ==
  ASSUME IInv, NEW d \in Draft, Send(d)
  PROVE  Lifecycle!Send(d)
<1>1. /\ status[d] = "drafted"
      /\ status' = [status EXCEPT ![d] = "sending"]
      /\ snapshot' = [snapshot EXCEPT ![d] = SubmitSnapshot(answers[d])]
      /\ UNCHANGED <<target, filed>>
  BY DEF Send
<1>2. SubmitSnapshot(answers[d]) # None
  BY <1>1, SubmitSnapshotType DEF IInv, RowsWellFormed, ActiveStatuses
<1>3. [e \in Draft |-> Phase(status[e])]'
        = [[e \in Draft |-> Phase(status[e])] EXCEPT ![d] = "sending"]
  BY <1>1 DEF IInv, TypeOK, Phase
<1>4. [e \in Draft |-> Phase(status[e])][d] = "review"
  BY <1>1 DEF Phase
<1>5. {e \in Draft : snapshot[e] # None}' = {e \in Draft : snapshot[e] # None} \cup {d}
  BY <1>1, <1>2 DEF IInv, TypeOK
<1>6. UNCHANGED <<target, {e \in Draft : filed[e] # None}>>
  BY <1>1
<1> QED
  BY <1>3, <1>4, <1>5, <1>6 DEF Lifecycle!Send

(* A click files for a draft with consent that was not filed before.       *)
LEMMA FilingMaps ==
  ASSUME IInv, NEW w \in Worker, ClickSubmit(w) \/ EnterCode(w)
  PROVE  [Lifecycle!Next]_(Lifecycle!vars)
<1>1. PICK d \in Draft : d = worker[w].draft
  BY FilingStep DEF IInv, RunsWellFormed, RunWellFormed, SubmitSteps
<1>2. /\ worker[w].step \in UnfiledSteps
      /\ UNCHANGED <<status, target, snapshot>>
      /\ \A e \in Draft : \/ filed'[e] = filed[e]
                          \/ e = d /\ filed'[e] # None /\ snapshot[e] # None
  BY <1>1, FilingStep DEF IInv
<1>3. filed[d] = None
  BY <1>1, <1>2 DEF IInv, RunsWellFormed, RunWellFormed
<1>4. UNCHANGED <<[e \in Draft |-> Phase(status[e])], target, {e \in Draft : snapshot[e] # None}>>
  BY <1>2
<1>5. CASE filed'[d] = None
  <2>1. UNCHANGED {e \in Draft : filed[e] # None}
    BY <1>3, <1>2, <1>5
  <2> QED
    BY <1>4, <2>1 DEF Lifecycle!vars
<1>6. CASE filed'[d] # None
  <2>1. {e \in Draft : filed[e] # None}' = {e \in Draft : filed[e] # None} \cup {d}
    BY <1>3, <1>2, <1>6
  <2>2. d \in {e \in Draft : snapshot[e] # None} \ {e \in Draft : filed[e] # None}
    BY <1>3, <1>2, <1>6
  <2>3. Lifecycle!Receive(d)
    BY <1>4, <2>1, <2>2 DEF Lifecycle!Receive
  <2> QED
    BY <2>3 DEF Lifecycle!Next
<1> QED
  BY <1>5, <1>6

(* A failure settles its draft.                                            *)
LEMMA FailureMaps ==
  ASSUME IInv, NEW w \in Worker, NEW r \in Reasons, SaveFailure(w, r), Running(w)
  PROVE  [Lifecycle!Next]_(Lifecycle!vars)
<1> DEFINE d == worker[w].draft
<1>1. d \in Draft /\ status[d] # "absent"
  BY DEF IInv, RunsWellFormed, RunWellFormed, RowsWellFormed, Running
<1>2. status' = [status EXCEPT ![d] = "failed"] /\ UNCHANGED <<target, snapshot, filed>>
  BY DEF SaveFailure
<1> QED
  BY <1>1, <1>2, SettleOneMaps DEF IInv

(* So do the refusals of the submit task and a discard.                    *)
LEMMA RefusalMaps ==
  ASSUME IInv, NEW d \in Draft, RefuseUnconfirmed(d) \/ RefuseClosedJob(d) \/ Discard(d)
  PROVE  [Lifecycle!Next]_(Lifecycle!vars)
<1>1. /\ status[d] # "absent"
      /\ \E s \in {"failed", "stale", "deleted"} : status' = [status EXCEPT ![d] = s]
      /\ UNCHANGED <<target, snapshot, filed>>
  BY DEF RefuseUnconfirmed, RefuseClosedJob, Discard
<1> QED
  BY <1>1, SettleOneMaps DEF IInv

(* Recording success settles the draft unless something else has.          *)
LEMMA AppliedMaps ==
  ASSUME IInv, NEW w \in Worker, RecordApplied(w)
  PROVE  [Lifecycle!Next]_(Lifecycle!vars)
<1> DEFINE d == worker[w].draft
<1>1. d \in Draft
  BY DEF RecordApplied, IInv, RunsWellFormed, RunWellFormed, SubmitSteps
<1>2. UNCHANGED <<target, snapshot, filed>>
  BY DEF RecordApplied
<1>3. CASE status[d] # "sending"
  BY <1>2, <1>3, StutterMaps DEF RecordApplied
<1>4. CASE status[d] = "sending"
  <2>1. status' = [status EXCEPT ![d] = "applied"]
    BY <1>4 DEF RecordApplied
  <2> QED
    BY <1>1, <1>2, <1>4, <2>1, SettleOneMaps DEF IInv
<1> QED
  BY <1>3, <1>4

(* Retiring a resume settles the drafts that were open by then.            *)
LEMMA RetireMaps ==
  ASSUME IInv, NEW q \in Request, RetireResume(q)
  PROVE  [Lifecycle!Next]_(Lifecycle!vars)
<1> DEFINE ids == {d \in request[q].ids : status[d] # "deleted"}
<1>1. ids \in SUBSET Draft /\ \A d \in ids : status[d] # "absent"
  BY DEF IInv, TypeOK, RequestStates, RequestsWellFormed
<1>2. /\ status' = [d \in Draft |-> IF d \in ids THEN "stale" ELSE status[d]]
      /\ UNCHANGED <<target, snapshot, filed>>
  BY DEF RetireResume
<1>3. status' \in [Draft -> Statuses] /\ \A d \in ids : Phase(status'[d]) = "over"
  BY <1>1, <1>2 DEF IInv, TypeOK, Statuses, Phase
<1>4. \A d \in Draft \ ids : status'[d] = status[d]
  BY <1>2
<1> HIDE DEF ids
<1> QED
  BY <1>1, <1>2, <1>3, <1>4, SettleMaps DEF IInv

(* The sweep settles what is obsolete or stuck.                            *)
LEMMA SweepMaps ==
  ASSUME IInv, Sweep
  PROVE  [Lifecycle!Next]_(Lifecycle!vars)
<1> DEFINE S == Obsolete \cup Stuck
<1>1. S \in SUBSET Draft /\ \A d \in S : status[d] # "absent"
  BY DEF Obsolete, Stuck
<1>2. /\ status' = [d \in Draft |-> IF d \in Obsolete THEN "stale"
                                   ELSE IF d \in Stuck THEN "failed" ELSE status[d]]
      /\ UNCHANGED <<target, snapshot, filed>>
  BY DEF Sweep
<1>3. status' \in [Draft -> Statuses] /\ \A d \in S : Phase(status'[d]) = "over"
  BY <1>1, <1>2 DEF IInv, TypeOK, Statuses, Phase
<1>4. \A d \in Draft \ S : status'[d] = status[d]
  BY <1>2
<1> HIDE DEF S
<1> QED
  BY <1>1, <1>2, <1>3, <1>4, SettleMaps DEF IInv

(* The views, tasks and sweep of auto-apply implement DraftLifecycle:      *)
(* consent before filing, filing at most once, one open draft per job, no  *)
(* outcome undone.                                                         *)
THEOREM Implements == Spec => LifecycleSpec
<1>1. Init => Lifecycle!Init
  <2> SUFFICES ASSUME Init PROVE Lifecycle!Init
    OBVIOUS
  <2> QED
    BY DEF Init, Lifecycle!Init, Phase
<1>2. IInv /\ [Next]_vars => [Lifecycle!Next]_(Lifecycle!vars)
  <2> SUFFICES ASSUME IInv, [Next]_vars PROVE [Lifecycle!Next]_(Lifecycle!vars)
    OBVIOUS
  <2>1. ASSUME NEW w \in Worker, NEW d \in Draft, PersistDraft(w, d) \/ PersistExcluded(w, d)
        PROVE  Lifecycle!Next
    BY <2>1, DraftingMaps, ExclusionMaps DEF Lifecycle!Next
  <2>2. ASSUME NEW d \in Draft, Send(d) PROVE Lifecycle!Next
    BY <2>2, SendMaps DEF Lifecycle!Next
  <2>3. ASSUME NEW w \in Worker, Failing(w)
        PROVE  [Lifecycle!Next]_(Lifecycle!vars)
    BY <2>3, FailIsSaved, FailureMaps DEF Running
  <2>4. CASE UNCHANGED <<status, target, snapshot, filed>>
    BY <2>4, StutterMaps
  <2> QED
    BY <2>1, <2>2, <2>3, <2>4, FilingMaps, RefusalMaps, AppliedMaps, RetireMaps, SweepMaps
    DEF Next, Drafting, Pickup, Submitting, Review, Resumes, Failures, Environment,
        StartDrafting, AbandonDrafting, SkipSettled, RetryForLease, RetryDue, StartSubmit,
          MaterializeFile, StartPolling, SeeSuccess, TriggerAutoApply, BeginEdit,
          BeginConfirm, FinishEdit, FinishConfirm, LoadProfile, SaveProfile, SetResume,
          ReadReferencing, Crash, LoseSubmit, LoseDrafting, MarkApplication, SetInbox,
          SetJobStatus, Tick, Step
<1> QED
  BY <1>1, <1>2, Invariance, PTL DEF Spec, LifecycleSpec, Lifecycle!Spec

(* What the lifecycle promises, the flow keeps: a job never has two open   *)
(* drafts, the employer receives nothing that the user has not sent, and   *)
(* nothing of a draft that is still under review has been sent.            *)
THEOREM PromisesAreKept == Spec => [](Lifecycle!OneActivePerJob /\ Lifecycle!ReceivedWithConsent)
<1>1. IInv => Lifecycle!OneActivePerJob
  <2> SUFFICES ASSUME IInv, NEW j \in Job, NEW d \in Lifecycle!Active(j), NEW e \in Lifecycle!Active(j)
               PROVE  d = e
    BY DEF Lifecycle!OneActivePerJob
  <2>1. \A s \in Statuses : Phase(s) \in {"review", "sending"} => s \in ActiveStatuses
    BY PhaseOf DEF ActiveStatuses
  <2>2. ASSUME NEW f \in Lifecycle!Active(j)
        PROVE  f \in Active(j)
    <3>1. f \in Draft /\ target[f] = j /\ Phase(status[f]) \in {"review", "sending"}
      BY DEF Lifecycle!Active
    <3>2. status[f] \in Statuses
      BY <3>1 DEF IInv, TypeOK
    <3> QED BY <2>1, <3>1, <3>2 DEF Active, Rows, ActiveStatuses
  <2>3. d \in Active(j) /\ e \in Active(j)
    BY <2>2
  <2> QED BY <2>3 DEF IInv, OneActiveDraft
<1>2. IInv => Lifecycle!ReceivedWithConsent
  <2> SUFFICES ASSUME IInv PROVE Lifecycle!ReceivedWithConsent
    OBVIOUS
  <2>1. \A d \in Draft : filed[d] # None => snapshot[d] # None
    BY DEF IInv, RowsWellFormed
  <2>2. ASSUME NEW d \in Draft, snapshot[d] # None
        PROVE  Phase(status[d]) \in {"sending", "over"}
    <3>1. status[d] \in Statuses /\ status[d] \notin {"absent", "drafted"}
      BY <2>2 DEF IInv, RowsWellFormed, TypeOK
    <3> QED BY <3>1, PhaseOf
  <2> QED BY <2>1, <2>2 DEF Lifecycle!ReceivedWithConsent
<1> QED BY <1>1, <1>2, Invariance, PTL

(* No run files an application that the employer already has, although     *)
(* runs are killed after the click, codes come late and a sweep gives up   *)
(* drafts that may have been filed.                                        *)
FiledOnce ==
  [][\A w \in Worker : ClickSubmit(w) \/ EnterCode(w) => filed[worker[w].draft] = None]_vars

(* So an employer is sent an application of each draft at most once.       *)
THEOREM NothingIsFiledTwice == Spec => FiledOnce
<1>1. IInv => \A w \in Worker : ClickSubmit(w) \/ EnterCode(w) => filed[worker[w].draft] = None
  BY DEF IInv, RunsWellFormed, RunWellFormed, ClickSubmit, EnterCode, UnfiledSteps, Step
<1> QED BY <1>1, Invariance, PTL DEF FiledOnce
=============================================================================
