---------------------------- MODULE ImportReview -----------------------------
(***************************************************************************)
(* The columns of a Profile that both the user and the importer write.     *)
(* field_provenance records who wrote each of them, so that an import can  *)
(* fill what is empty and refresh what it wrote, and never replaces what   *)
(* the user typed.  A review page may be old: what it shows is decided     *)
(* again, under a lock, when it is submitted.                              *)
(*                                                                         *)
(* A submitted form is one action, with any posted values, so pages may be *)
(* as old as one likes, but two requests do not overlap.                   *)
(***************************************************************************)
EXTENDS Integers, FiniteSets

CONSTANTS
  ReviewField,   \* importable columns
  SearchField,   \* those on the search page; the others are on the answers page
  ReviewText,    \* their values, as clean_field leaves them
  Spelling,      \* sets of values that differ in case and spacing only
  BlankText      \* an empty column

ASSUME ReviewAssumption == SearchField \subseteq ReviewField /\ BlankText \notin ReviewText
ASSUME SpellingAssumption ==
  /\ Spelling \subseteq SUBSET ReviewText
  /\ \A a, b \in Spelling : a # b => a \cap b = {}

VARIABLES
  column,   \* the value of each column
  origin,   \* its entry in field_provenance
  typed     \* what of the value the user has typed: what origin should tell

reviewVars == <<column, origin, typed>>

ReviewTypeOK ==
  /\ column \in [ReviewField -> ReviewText \cup {BlankText}]
  /\ origin \in [ReviewField -> {"none", "imported", "user"}]
  /\ typed \in [ReviewField -> {"nothing", "spelling", "value"}]

\* A column may be older than its provenance.
ReviewInit ==
  /\ column \in [ReviewField -> ReviewText \cup {BlankText}]
  /\ typed = [f \in ReviewField |-> IF column[f] = BlankText THEN "nothing" ELSE "value"]
  /\ origin = [f \in ReviewField |-> "none"]

\* import_state: a value without an entry is older than provenance and the
\* user's.
ImportState(f) ==
  IF origin[f] # "none" THEN origin[f]
  ELSE IF column[f] = BlankText THEN "empty" ELSE "user"

Replaceable(f) == ImportState(f) \in {"empty", "imported"}

-----------------------------------------------------------------------------
(* The two profile pages                                                   *)

\* Fault: only a column without provenance becomes the user's.
EditsKeepingOrigin(f, value) ==
  IF value = BlankText THEN "none" ELSE IF origin[f] = "none" THEN "user" ELSE origin[f]

\* record_user_edits: a changed column is the user's, one that was cleared
\* nobody's.  (Nothing in the code sets the lock it would preserve.)
EditedOrigin(f, value) ==
  IF value = column[f] THEN origin[f] ELSE IF value = BlankText THEN "none" ELSE "user"

\* A page posts all of its columns, changed or not.
SavePage(owned, posted) ==
  /\ column' = [f \in ReviewField |-> IF f \in owned THEN posted[f] ELSE column[f]]
  /\ origin' = [f \in ReviewField |->
                 IF f \in owned THEN EditedOrigin(f, posted[f]) ELSE origin[f]]
  /\ typed' = [f \in ReviewField |->
                IF ~(f \in owned /\ posted[f] # column[f]) THEN typed[f]
                ELSE IF posted[f] = BlankText THEN "nothing" ELSE "value"]

SaveSearchPage(posted) == SavePage(SearchField, posted)
SaveAnswersPage(posted) == SavePage(ReviewField \ SearchField, posted)

-----------------------------------------------------------------------------
(* The review of an import                                                 *)

\* A proposal the user accepted, as they left it on the page.
Decisions == [ReviewField -> [proposed : ReviewText, posted : ReviewText] \cup {BlankText}]

\* _norm
SameWords(a, b) == a = b \/ \E s \in Spelling : {a, b} \subseteq s

\* The row of a field is skipped when it says so now, not when the page was
\* rendered: kept, not accepted, or imported already, as proposed up to the
\* spelling or as posted to the letter.
Written(f, d) ==
  /\ d # BlankText
  /\ Replaceable(f)
  /\ ImportState(f) = "imported" => ~SameWords(column[f], d.proposed) /\ column[f] # d.posted

\* apply_review: a value whose words were edited on the page is the user's.
ImportedOrigin(d) == IF SameWords(d.posted, d.proposed) THEN "imported" ELSE "user"

Edited(d) ==
  IF d.posted = d.proposed THEN "nothing"
  ELSE IF SameWords(d.posted, d.proposed) THEN "spelling" ELSE "value"

\* One save for all fields; a value that fails validation refuses the whole
\* review, which is no step here.
ApplyReview(decision) ==
  /\ column' = [f \in ReviewField |->
                 IF Written(f, decision[f]) THEN decision[f].posted ELSE column[f]]
  /\ origin' = [f \in ReviewField |->
                 IF Written(f, decision[f])
                 THEN ImportedOrigin(decision[f]) ELSE origin[f]]
  /\ typed' = [f \in ReviewField |->
                IF Written(f, decision[f]) THEN Edited(decision[f]) ELSE typed[f]]

ReviewNext ==
  \/ \E posted \in [ReviewField -> ReviewText \cup {BlankText}] :
       SaveSearchPage(posted) \/ SaveAnswersPage(posted)
  \/ \E decision \in Decisions : ApplyReview(decision)

ReviewSpec == ReviewInit /\ [][ReviewNext]_reviewVars

-----------------------------------------------------------------------------
(* Properties                                                              *)

(* Provenance is honest up to the spelling: a value the user typed, on a   *)
(* page or over what a review proposed, is never taken for an imported     *)
(* one, whichever way it got there and however old the review page is; so  *)
(* no import replaces it.                                                  *)
ProvenanceIsHonest ==
  \A f \in ReviewField : typed[f] = "value" => column[f] # BlankText /\ ~Replaceable(f)
=============================================================================
