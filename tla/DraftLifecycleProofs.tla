------------------------ MODULE DraftLifecycleProofs ------------------------
(***************************************************************************)
(* What DraftLifecycle promises, proved for any sets of drafts and jobs.   *)
(***************************************************************************)
EXTENDS DraftLifecycle, TLAPS

(* The phases also say what has happened to a draft so far.                *)
LInv == TypeOK /\ OneActivePerJob /\ ReceivedWithConsent

(* The promise holds initially.                                            *)
LEMMA LInit == Init => LInv
BY DEF Init, LInv, TypeOK, OneActivePerJob, Active, ReceivedWithConsent

(* Every step keeps it.                                                    *)
LEMMA LStep == LInv /\ [Next]_vars => LInv'
<1> SUFFICES ASSUME LInv, [Next]_vars PROVE LInv'
  OBVIOUS
<1> USE DEF LInv, TypeOK, OneActivePerJob, ReceivedWithConsent, Active
<1>1. ASSUME NEW d \in Draft, NEW j \in Job, Open(d, j) PROVE LInv'
  BY <1>1 DEF Open
<1>2. ASSUME NEW d \in Draft, NEW j \in Job, Exclude(d, j) PROVE LInv'
  BY <1>2 DEF Exclude
<1>3. ASSUME NEW d \in Draft, Send(d) PROVE LInv'
  BY <1>3 DEF Send
<1>4. ASSUME NEW d \in Draft, Receive(d) PROVE LInv'
  BY <1>4 DEF Receive
<1>5. ASSUME NEW S \in SUBSET Draft, Settle(S) PROVE LInv'
  BY <1>5 DEF Settle
<1>6. CASE UNCHANGED vars
  BY <1>6 DEF vars
<1> QED
  BY <1>1, <1>2, <1>3, <1>4, <1>5, <1>6 DEF Next

(* A job never has two drafts that could both be sent.                     *)
THEOREM OneActivePerJobHolds == Spec => []OneActivePerJob
<1>1. LInv => OneActivePerJob
  BY DEF LInv
<1> QED
  BY <1>1, LInit, LStep, PTL DEF Spec

(* Nothing reaches an employer that the user has not sent.                 *)
THEOREM ReceivedWithConsentHolds == Spec => []ReceivedWithConsent
<1>1. LInv => ReceivedWithConsent
  BY DEF LInv
<1> QED
  BY <1>1, LInit, LStep, PTL DEF Spec
=============================================================================
