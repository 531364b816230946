---------------------------- MODULE DraftAnswers ----------------------------
(***************************************************************************)
(* The answer set of one auto-apply draft: what drafting may write into    *)
(* it, what the review page may change, what Send and the submit task      *)
(* refuse.  Pure operators, no state.                                      *)
(*                                                                         *)
(* An entry keeps the five facts the control flow looks at:                *)
(*   value      the answer, or Blank                                       *)
(*   review     needs_review: a human should look at it                    *)
(*   hold       needs_confirmation: may not be sent before it is confirmed *)
(*   bank       provenance.origin = "answer_bank"                          *)
(*   confirmed  user_confirmed                                             *)
(* The FILE entry (the resume) is kept beside the answers, as a storage    *)
(* key: no review handler can change it.                                   *)
(***************************************************************************)
CONSTANTS
  Label,      \* the custom questions of the form
  Value,      \* the answers a question can have
  Blank,      \* no answer
  Required,   \* the labels the employer requires
  FreeText,   \* the labels that are not option-bearing
  Inferred    \* the entries drafting produces in an instance of the model

Entry == [value : Value \cup {Blank}, review : BOOLEAN, hold : BOOLEAN,
          bank : BOOLEAN, confirmed : BOOLEAN]

Answers == [Label -> Entry]

IsBlank(e) == e.value = Blank

(* What drafting can write for a question.  A blank is always flagged for  *)
(* review; a held answer is too; a saved answer is flagged only when held. *)
(* Nothing drafting writes is marked as confirmed by the user.             *)
Draftable == {e \in Entry : /\ ~e.confirmed
                            /\ IsBlank(e) => e.review
                            /\ e.hold => e.review
                            /\ e.bank /\ e.review /\ ~IsBlank(e) => e.hold}

ASSUME AnswersAssumption ==
  /\ Blank \notin Value
  /\ Required \subseteq Label
  /\ FreeText \subseteq Label
  /\ Inferred \subseteq Draftable

(* A blank question takes over the answer the user confirmed on the        *)
(* previous draft; the new entry is not marked confirmed itself.           *)
CarriedEntry(e, prior) ==
  IF e.review /\ IsBlank(e) /\ prior.confirmed /\ ~IsBlank(prior)
  THEN [e EXCEPT !.value = prior.value, !.review = FALSE]
  ELSE e

(* valid: the labels whose earlier answer is still an option of the form.  *)
CarryForward(a, prior, valid) ==
  [l \in Label |-> IF l \in valid THEN CarriedEntry(a[l], prior[l]) ELSE a[l]]

ConfirmEntry(e) == [e EXCEPT !.bank = FALSE, !.hold = FALSE,
                             !.review = FALSE, !.confirmed = TRUE]

BankHeldLabels(a) == {l \in Label : a[l].hold /\ ~IsBlank(a[l]) /\ a[l].bank}

ConfirmBankHeld(a) ==
  [l \in Label |-> IF l \in BankHeldLabels(a) THEN ConfirmEntry(a[l]) ELSE a[l]]

(* One posted field of the review form: its value, whether its confirm box *)
(* is ticked, and whether a legal or commercial candidate was accepted     *)
(* into a blank field (which puts the field on hold).                      *)
EditedEntry(e, value, tick, candidate) ==
  LET held  == e.hold \/ candidate
      typed == [e EXCEPT !.value = value, !.hold = held,
                         !.bank = e.bank /\ ~candidate]
  IN  IF held
      THEN IF tick /\ value # Blank
           THEN ConfirmEntry(typed)
           ELSE [typed EXCEPT !.review = TRUE, !.confirmed = FALSE]
      ELSE [typed EXCEPT !.review = (value = Blank), !.confirmed = (value # Blank)]

(* A field that is not in the POST, or does not validate, is left alone.   *)
EditResults(e) ==
  {e} \cup {EditedEntry(e, v, tick, FALSE) : v \in Value \cup {Blank}, tick \in BOOLEAN}
      \cup (IF IsBlank(e)
            THEN {EditedEntry(e, v, tick, TRUE) : v \in Value, tick \in BOOLEAN}
            ELSE {})

UnconfirmedFields(a) == {l \in Label : a[l].hold /\ ~IsBlank(a[l])}

BlockingRequired(a) == {l \in Required : IsBlank(a[l])}

FlaggedForReview(a) ==
  {l \in Label : a[l].review /\ (~IsBlank(a[l]) \/ l \in Required)}

Sendable(a) == /\ BlockingRequired(a) = {}
               /\ UnconfirmedFields(a) = {}
               /\ FlaggedForReview(a) = {}

(* Fault: the entries are recorded as they are.                            *)
RawSnapshot(a) == a

(* What Send records for audit: the values and who confirmed them.         *)
SubmitSnapshot(a) ==
  [l \in Label |-> [value |-> a[l].value, confirmed |-> a[l].confirmed]]

Snapshots == [Label -> [value : Value \cup {Blank}, confirmed : BOOLEAN]]
=============================================================================
