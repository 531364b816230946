------------------------- MODULE AutoApplyInvariant -------------------------
(***************************************************************************)
(* The inductive invariant of AutoApply, in named parts.  TypeOK and the   *)
(* properties of AutoApply are not inductive alone: what a handler may     *)
(* write depends on what its row, its queue or its lease looked like when  *)
(* it started, and these parts say what is left of that.                   *)
(***************************************************************************)
EXTENDS AutoApply

(* A draft that can still be reviewed or sent has answers and a job; Send  *)
(* is what gives a draft its snapshot; only a draft with a snapshot can    *)
(* have been filed.                                                        *)
RowsWellFormed ==
  \A d \in Draft :
    /\ status[d] \in ActiveStatuses => answers[d] \in Answers /\ target[d] \in Job
    /\ status[d] \in {"absent", "drafted"} => snapshot[d] = None
    /\ status[d] = "sending" => snapshot[d] # None
    /\ filed[d] # None => snapshot[d] # None

(* A submit run drives a draft the user has sent, with answers that are    *)
(* all confirmed, and knows whether the employer has them.                 *)
RunWellFormed(w) ==
  LET r == worker[w] IN
  /\ r.step = "drafting" => r.job \in Job
  /\ r.step \in SubmitSteps =>
       /\ r.draft \in Draft /\ r.job = target[r.draft] /\ r.job \in Job
       /\ r.answers \in Answers /\ UnconfirmedFields(r.answers) = {}
       /\ snapshot[r.draft] # None
  /\ r.step \in UnfiledSteps => filed[r.draft] = None
  /\ r.step = "confirmed" => filed[r.draft] # None

RunsWellFormed == \A w \in Worker : RunWellFormed(w)

RequestsWellFormed ==
  \A q \in Request :
    /\ request[q].step \in {"editing", "confirming"} => request[q].answers \in Answers
    /\ \A d \in request[q].ids : status[d] # "absent"

(* A draft is driven by one run at most, and a message that is still       *)
(* queued is the draft's first and only one: nothing is filed twice.       *)
OneRunPerDraft ==
  /\ \A v, w \in Worker :
       Running(v) /\ Running(w) /\ worker[v].draft = worker[w].draft => v = w
  /\ \A d \in Draft : submitQueue[d] # "none" =>
       /\ snapshot[d] # None /\ filed[d] = None
       /\ \A w \in Worker : Running(w) => worker[w].draft # d

(* Until its budget is spent, a run that may poll holds the lease.         *)
LeaseCovers(w) ==
  /\ worker[w].step = "polling" => worker[w].polls /\ worker[w].elapsed <= Budget
  /\ /\ Running(w) /\ worker[w].step # "confirmed"
     /\ worker[w].polls /\ worker[w].elapsed <= Budget
     => lease.holder = w /\ lease.ttl = LeaseTime - worker[w].elapsed

LeaseCoversBudget == \A w \in Worker : LeaseCovers(w)

(* A draft has not been waiting longer than when it was picked up and what *)
(* its run has taken since.                                                *)
AgeOfRuns ==
  \A w \in Worker :
    Running(w) => age[worker[w].draft] <= worker[w].picked + worker[w].elapsed

IInv ==
  /\ TypeOK
  /\ RowsWellFormed
  /\ RunsWellFormed
  /\ RequestsWellFormed
  /\ OneRunPerDraft
  /\ LeaseCoversBudget
  /\ AgeOfRuns
  /\ OneActiveDraft
  /\ NothingHeldIsFiled
  /\ AppliedWasFiled
=============================================================================
