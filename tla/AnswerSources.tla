---------------------------- MODULE AnswerSources -----------------------------
(***************************************************************************)
(* Where the answer to one question of an application form comes from: the *)
(* settings of the profile, a saved answer, an answer backfilled from the  *)
(* old page, or the language model; and which answers may be saved.  Pure  *)
(* operators: a question is what the classifiers read in its text, a form  *)
(* is the set of answers it takes (an answer that two of its options mean  *)
(* is none of them; a text field takes anything).                          *)
(***************************************************************************)
EXTENDS Integers, FiniteSets

CONSTANTS
  Country,        \* countries
  Region,         \* of salary bands and saved answers: one or several countries
  RegionFor,      \* the region of a country, or NoPlace
  UnitedStates,   \* the country the backfilled yes/no answers speak of
  VisaStatus,     \* statuses a user may enter for a country
  NoPlace, NoAnswer

ASSUME SourcesAssumption ==
  /\ RegionFor \in [Country -> Region \cup {NoPlace}] /\ UnitedStates \in Country
  /\ NoPlace \notin Country \cup Region
  /\ NoAnswer \notin Country \cup Region \cup {NoPlace, "yes", "no"}
  /\ VisaStatus \subseteq {"resident", "visa", "sponsored", "barred", "barredSponsored", "other"}

PlainKind == {"authorization", "sponsorship"}

\* status: a permit, a visa, a combined or negated question, of which nothing
\* can be read.  pay: what is earned now, a figure to agree to.  The classifiers
\* are separate: excluded is what classify reads in the text, held what
\* classify_tier does, and neither knows every wording of a sponsorship
\* ("need to be sponsored") or a status.
Question ==
  {q \in [kind : PlainKind \cup {"status", "citizen", "nationality", "member", "salary", "pay",
                                 "contact", "relocation", "skill", "attestation"},
          named : SUBSET Country, unresolved : BOOLEAN, restricted : BOOLEAN,
          excluded : BOOLEAN, held : BOOLEAN] :
     /\ q.named # {} \/ q.unresolved => q.kind \in PlainKind \cup {"status", "citizen", "member"}
     /\ q.restricted => q.kind = "authorization"
     /\ q.excluded => q.held
     /\ q.kind \in {"authorization", "salary", "pay", "attestation"} => q.excluded
     /\ q.excluded => q.kind \in PlainKind \cup {"status", "salary", "pay", "attestation"}}

\* imported: the settings were taken from a resume.
Applicant == [status : [Country -> VisaStatus \cup {"none", "citizen"}],
              home : Country \cup {NoPlace}, banded : SUBSET Region, imported : BOOLEAN]

Meaning == {"yes", "no"} \cup Country \cup Region
SavedRow == [source : {"user", "learned", "imported"}, value : Meaning,
             everywhere : BOOLEAN, expired : BOOLEAN]
ASSUME RowAssumption == NoAnswer \notin SavedRow

\* Rows of the question: one for each region, and one without.
Scope == Region \cup {NoPlace}
Bank == [Scope -> SavedRow \cup {NoAnswer}]
EmptyBank == [s \in Scope |-> NoAnswer]

\* A row of the old page: a yes or no, the text that was typed instead, or the
\* salary band of one region.
LegacyRow == [sort : {"yesno", "text"}, value : Meaning] \cup [sort : {"band"}, value : Region]
ASSUME LegacyAssumption == NoAnswer \notin LegacyRow

LocationSensitive(q) == q.kind = "relocation"
BlocksLlm(q) == q.kind \in {"citizen", "nationality", "member"}

\* The question names one country, which is then part of its key.
NamesOne(q) == Cardinality(q.named) = 1 /\ ~q.unresolved

RegionOf(job) == IF job \in Country THEN RegionFor[job] ELSE NoPlace
Mapped(value, form) == IF value \in form THEN value ELSE NoAnswer

-----------------------------------------------------------------------------
(* Typed facts: what the settings say                                      *)

Unknown == [covered |-> FALSE, value |-> NoAnswer]
Undecided == [covered |-> TRUE, value |-> NoAnswer]
Fact(value, form) == [covered |-> TRUE, value |-> Mapped(value, form)]
YesNo(truth, form) == Fact(IF truth THEN "yes" ELSE "no", form)
NotTyped == [covered |-> FALSE, value |-> NoPlace]

\* The country a question is about: the one it names, or the job's.
Subject(q, job) ==
  IF Cardinality(q.named) > 1 \/ q.unresolved THEN NoPlace
  ELSE IF q.named = {} THEN job ELSE CHOOSE c \in Country : q.named = {c}

\* authorization_for_country: what a status settles.
Authorized(status) ==
  CASE status \in {"citizen", "resident", "visa"} -> "yes"
    [] status \in {"barred", "barredSponsored"} -> "no"
    [] OTHER -> "unknown"
NeedsSponsor(status) ==
  CASE status \in {"citizen", "resident"} -> "no"
    [] status \in {"sponsored", "barredSponsored"} -> "yes"
    [] OTHER -> "unknown"

\* Fault: the qualifier of the question is not read.
UnqualifiedAuthorization(q, status, form) ==
  LET truth == IF q.kind = "authorization" THEN Authorized(status) ELSE NeedsSponsor(status) IN
  IF truth = "unknown" THEN Undecided ELSE Fact(truth, form)

\* A visa holder is not authorized "without restriction".
Authorization(q, status, form) ==
  LET truth == IF q.kind = "authorization" THEN Authorized(status) ELSE NeedsSponsor(status) IN
  IF \/ truth = "unknown"
     \/ /\ q.kind = "authorization" /\ q.restricted /\ truth = "yes"
        /\ NeedsSponsor(status) = "unknown"
  THEN Undecided ELSE Fact(truth, form)

Citizenship(q, held, form) ==
  IF held = {} THEN Unknown
  ELSE IF q.kind = "citizen" /\ (q.unresolved \/ Cardinality(q.named) # 1) THEN Unknown
  ELSE IF q.kind = "citizen" THEN YesNo(q.named \subseteq held, form)
  ELSE IF Cardinality(held) > 1 THEN Undecided
  ELSE Fact(CHOOSE c \in held : TRUE, form)

Contact(q, home, form) ==
  IF home = NoPlace THEN Unknown
  ELSE IF q.kind = "contact" THEN Fact(home, form)
  ELSE IF q.unresolved \/ q.named = {} THEN Undecided
  ELSE YesNo(home \in q.named, form)

\* typed_facts.resolve
TypedFact(q, p, job, form) ==
  CASE q.kind \in {"contact", "member"} -> Contact(q, p.home, form)
    [] q.kind \in {"citizen", "nationality"} ->
         Citizenship(q, {c \in Country : p.status[c] = "citizen"}, form)
    [] q.kind \in PlainKind ->
         LET place == Subject(q, job) IN
         IF place = NoPlace THEN Unknown
         ELSE IF p.status[place] = "none" THEN Unknown
         ELSE Authorization(q, p.status[place], form)
    [] q.kind = "salary" ->
         IF RegionOf(job) \in p.banded THEN Fact(RegionOf(job), form) ELSE Unknown
    [] OTHER -> NotTyped

-----------------------------------------------------------------------------
(* Saved answers                                                           *)

\* _bank_row: an answer to a location-sensitive question is the region's, or
\* one the user said holds everywhere.
BankRow(q, job, bank) ==
  LET region == RegionOf(job)
      anywhere == bank[NoPlace] IN
  IF ~LocationSensitive(q) THEN anywhere
  ELSE IF region # NoPlace /\ bank[region] # NoAnswer THEN bank[region]
  ELSE IF anywhere # NoAnswer /\ anywhere.everywhere THEN anywhere
  ELSE NoAnswer

Usable(row, learningOn) ==
  row # NoAnswer /\ ~row.expired /\ (row.source = "learned" => learningOn)

\* _legacy_row: the backfilled yes or no says nothing of another country, and
\* nothing "without restriction"; a band nothing of another region.
LegacyApplies(q, job, legacy) ==
  \/ /\ q.kind \in PlainKind /\ q.excluded /\ legacy.sort = "yesno"
     /\ Subject(q, job) = UnitedStates /\ ~q.restricted
  \/ q.kind \in PlainKind /\ q.excluded /\ legacy.sort = "text"
  \/ q.kind = "salary" /\ legacy.sort = "band" /\ legacy.value = RegionOf(job)

Nothing == [origin |-> "none", value |-> NoAnswer, hold |-> FALSE]
Found(origin, value, hold) == [origin |-> origin, value |-> value, hold |-> hold]

\* Fault: an answer the form does not take counts as none.
LooseBankAnswer(q, row, form) ==
  IF Mapped(row.value, form) = NoAnswer THEN Nothing
  ELSE Found("bank", row.value, row.source = "learned" \/ (q.held /\ row.source # "user"))

BankAnswer(q, row, form) ==
  Found("bank", Mapped(row.value, form), row.source = "learned" \/ (q.held /\ row.source # "user"))

\* resolve_answer; legacy is the backfilled row for the question, or NoAnswer.
ResolveAnswer(q, p, job, form, bank, legacy, learningOn) ==
  LET fact == TypedFact(q, p, job, form)
      row == BankRow(q, job, bank) IN
  IF fact # NotTyped /\ fact.value # NoAnswer
  THEN Found("profile", fact.value, q.held /\ p.imported)
  ELSE IF Usable(row, learningOn) THEN BankAnswer(q, row, form)
  ELSE IF ~fact.covered /\ legacy # NoAnswer /\ LegacyApplies(q, job, legacy)
  THEN Found("legacy", Mapped(legacy.value, form), FALSE)
  ELSE Nothing

\* What the language model makes of a question; the evidence it cites and how
\* sure it is are checked before the answer counts.
Inference == [outcome : {"failed", "insufficient", "ungrounded", "unsure", "grounded"}, value : Meaning]
Inferred(reply, form) ==
  IF reply.outcome = "failed" THEN Found("blank", NoAnswer, FALSE)
  ELSE Found("llm", Mapped(reply.value, form), reply.outcome # "grounded")

\* resolve_field_answers, for one question.
FieldAnswer(q, p, job, form, bank, legacy, learningOn, reply) ==
  LET found == ResolveAnswer(q, p, job, form, bank, legacy, learningOn) IN
  IF found # Nothing THEN found
  ELSE IF BlocksLlm(q) \/ q.excluded THEN Found("blank", NoAnswer, FALSE)
  ELSE Inferred(reply, form)

-----------------------------------------------------------------------------
(* What the review page and the questions panel may save                   *)

\* Fault: the country an answer was given for is forgotten.
OwnedWhenBlocked(q, p, job, form) == BlocksLlm(q)

\* settings_owned: without a country in its key it would answer every country.
SettingsOwned(q, p, job, form) ==
  \/ BlocksLlm(q)
  \/ TypedFact(q, p, job, form) # NotTyped /\ ~NamesOne(q)

\* The panel refuses whatever a setting answers, and offers nothing where it is
\* about a status or pay in words no setting answers.
PanelRefuses(q, p, job, form) ==
  \/ BlocksLlm(q) \/ TypedFact(q, p, job, form) # NotTyped
  \/ q.kind \in {"status", "pay"} /\ q.excluded

\* find_candidates: rows offered for a reworded question, by the same rule of
\* place, and never for one whose subject is a setting or cannot be read.
Candidates(q, job, bank, learningOn) ==
  {scope \in DOMAIN bank :
     /\ ~BlocksLlm(q) /\ q.kind # "status"
     /\ Usable(bank[scope], learningOn)
     /\ \/ ~LocationSensitive(q)
        \/ bank[scope].everywhere
        \/ RegionOf(job) # NoPlace /\ scope = RegionOf(job)}

\* The bank after an answer given for a job was saved.
Remembered(q, p, job, form, value, everywhere, refused) ==
  LET sensitive == LocationSensitive(q)
      scope == IF sensitive /\ ~everywhere THEN RegionOf(job) ELSE NoPlace IN
  IF refused \/ (sensitive /\ ~everywhere /\ scope = NoPlace) THEN EmptyBank
  ELSE [EmptyBank EXCEPT ![scope] =
          [source |-> "user", value |-> value, everywhere |-> sensitive /\ everywhere, expired |-> FALSE]]

-----------------------------------------------------------------------------
(* Properties: of a question, an applicant and a job; of a form, saved     *)
(* rows, a backfilled row and what the language model would say.           *)

Place == Country \cup {NoPlace}

\* What a status must be for an answer to be true of it.
Entailed(q, value, status) ==
  IF q.kind = "authorization"
  THEN value = "yes" => /\ status \in {"citizen", "resident", "visa"}
                        /\ q.restricted => status # "visa"
  ELSE value = "no" => status \in {"citizen", "resident"}

Contradicts(q, p, job, value) ==
  LET place == Subject(q, job) IN
  /\ q.kind \in PlainKind /\ place # NoPlace /\ value \in {"yes", "no"}
  /\ p.status[place] # "none" /\ ~Entailed(q, value, p.status[place])

(* What contradicts a setting is not the setting misread, nor an answer of *)
(* the old page.  It is an answer saved under that very question, where    *)
(* the setting put nothing on the form; or it is inferred, where classify  *)
(* does not know the wording.                                              *)
SettingsAreNeverContradicted(q, p, job, form, bank, legacy, learningOn, reply) ==
  LET answer == FieldAnswer(q, p, job, form, bank, legacy, learningOn, reply) IN
  Contradicts(q, p, job, answer.value) =>
    /\ TypedFact(q, p, job, form).value = NoAnswer
    /\ \/ answer.origin = "bank" /\ bank[NoPlace] # NoAnswer /\ bank[NoPlace].value = answer.value
       \/ answer.origin = "llm" /\ ~q.excluded

\* The bank after the review page or the panel was asked to save an answer.
AskedToSave(q, p, job, form, value, everywhere, panel) ==
  LET refused == IF panel THEN PanelRefuses(q, p, job, form) ELSE SettingsOwned(q, p, job, form) IN
  Remembered(q, p, job, form, value, everywhere, refused)

FillsItselfIn(q, p, job, form, bank) ==
  \/ ResolveAnswer(q, p, job, form, bank, NoAnswer, TRUE).origin = "bank"
  \/ Candidates(q, job, bank, TRUE) # {}

\* Two jobs the answer to such a question has nothing in common for.
Apart(q, job, other) ==
  job # other /\ (q.kind = "relocation" => RegionOf(job) = NoPlace \/ RegionOf(job) # RegionOf(other))

\* Their answers depend on the country, and nothing in the code reads it.
Unscoped == {"status", "pay"}

(* What the user answered for a job in one country does not fill itself in,*)
(* and is not offered, for a job in another, though a saved answer does    *)
(* not say where it was given: unless the question names its country, the  *)
(* user said anywhere, or its kind is not read.                            *)
AnswersStayInTheirCountry(q, p, job, other, form, value, everywhere, panel) ==
  /\ q.kind \notin {"skill", "attestation"} \cup Unscoped /\ ~NamesOne(q)
  /\ Apart(q, job, other) /\ ~(q.kind = "relocation" /\ everywhere)
  => ~FillsItselfIn(q, p, other, form, AskedToSave(q, p, job, form, value, everywhere, panel))

\* Whether a row of the scope answers the question at the job.
AnswersAt(q, job, scope, row) ==
  IF scope = NoPlace THEN LocationSensitive(q) => row.everywhere
  ELSE LocationSensitive(q) /\ scope = RegionOf(job)

\* A row of the job's own region comes before one for everywhere, of use or not.
Hidden(q, job, scope, bank) ==
  LocationSensitive(q) /\ scope = NoPlace /\ RegionOf(job) # NoPlace /\ bank[RegionOf(job)] # NoAnswer

(* A question the user has answered is not given to the language model, be *)
(* the answer one this form does not take: in the settings, by a saved     *)
(* answer that holds at the job and is not hidden, or on the old page.     *)
AnsweredIsNotGuessed(q, p, job, form, bank, legacy, learningOn, reply) ==
  FieldAnswer(q, p, job, form, bank, legacy, learningOn, reply).origin = "llm" =>
    /\ \A scope \in DOMAIN bank :
         Usable(bank[scope], learningOn) /\ AnswersAt(q, job, scope, bank[scope]) => Hidden(q, job, scope, bank)
    /\ legacy # NoAnswer /\ LegacyApplies(q, job, legacy) => TypedFact(q, p, job, form).covered
    /\ TypedFact(q, p, job, form) # NotTyped => TypedFact(q, p, job, form).value = NoAnswer
=============================================================================
