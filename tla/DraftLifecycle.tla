--------------------------- MODULE DraftLifecycle ---------------------------
(***************************************************************************)
(* What auto-apply promises about the drafts of one user, whatever the     *)
(* views, workers and sweeps do underneath:                                *)
(*   - a job has at most one draft under review or being sent;             *)
(*   - a draft is sent by the user, once, and never comes back from its    *)
(*     outcome;                                                            *)
(*   - the employer receives an application only for a draft the user has  *)
(*     sent, and at most one per draft.                                    *)
(* AutoApply implements this specification.                                *)
(***************************************************************************)
CONSTANTS Draft, Job, None

VARIABLES
  phase,      \* phase[d]: "none", "review", "sending" or "over"
  target,     \* target[d]: the job the draft is for
  consented,  \* the drafts the user has sent
  received    \* the drafts whose application reached the employer

vars == <<phase, target, consented, received>>

TypeOK ==
  /\ phase \in [Draft -> {"none", "review", "sending", "over"}]
  /\ target \in [Draft -> Job \cup {None}]
  /\ consented \subseteq Draft
  /\ received \subseteq Draft

Init ==
  /\ phase = [d \in Draft |-> "none"]
  /\ target = [d \in Draft |-> None]
  /\ consented = {}
  /\ received = {}

Active(j) == {d \in Draft : target[d] = j /\ phase[d] \in {"review", "sending"}}

Open(d, j) ==
  /\ phase[d] = "none"
  /\ Active(j) = {}
  /\ phase' = [phase EXCEPT ![d] = "review"]
  /\ target' = [target EXCEPT ![d] = j]
  /\ UNCHANGED <<consented, received>>

\* Drafting found out that the job cannot be applied to automatically.
Exclude(d, j) ==
  /\ phase[d] = "none"
  /\ phase' = [phase EXCEPT ![d] = "over"]
  /\ target' = [target EXCEPT ![d] = j]
  /\ UNCHANGED <<consented, received>>

Send(d) ==
  /\ phase[d] = "review"
  /\ phase' = [phase EXCEPT ![d] = "sending"]
  /\ consented' = consented \cup {d}
  /\ UNCHANGED <<target, received>>

\* Drafts reach an outcome: one handler may settle several at a time.
Settle(S) ==
  /\ S # {}
  /\ \A d \in S : phase[d] \in {"review", "sending"}
  /\ phase' = [d \in Draft |-> IF d \in S THEN "over" ELSE phase[d]]
  /\ UNCHANGED <<target, consented, received>>

\* The employer receives the application of a draft the user has sent.
Receive(d) ==
  /\ d \in consented \ received
  /\ received' = received \cup {d}
  /\ UNCHANGED <<phase, target, consented>>

Next ==
  \/ \E d \in Draft, j \in Job : Open(d, j) \/ Exclude(d, j)
  \/ \E d \in Draft : Send(d) \/ Receive(d)
  \/ \E S \in SUBSET Draft : Settle(S)

Spec == Init /\ [][Next]_vars

-----------------------------------------------------------------------------
(* A job never has two drafts that could both be sent.                     *)
OneActivePerJob == \A j \in Job : \A d, e \in Active(j) : d = e

(* Nothing reaches an employer without the user's Send, and a draft that   *)
(* is still under review has reached nobody.                               *)
ReceivedWithConsent ==
  /\ received \subseteq consented
  /\ \A d \in consented : phase[d] \in {"sending", "over"}
=============================================================================
