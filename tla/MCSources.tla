------------------------------ MODULE MCSources -------------------------------
(***************************************************************************)
(* The answer to a question, for TLC: each question and applicant is an    *)
(* initial state, and the properties are evaluated for every job, some     *)
(* forms and the rows that differ in whether they may be used.             *)
(***************************************************************************)
EXTENDS AnswerSources

CONSTANTS c1, c2, c3, r1, r2

ASSUME SourcesInstance == {r1, r2} \subseteq Region

\* Two countries of one region, and one of another.
RegionForValue == [c \in {c1, c2, c3} |-> IF c = c2 THEN r2 ELSE r1]

\* Questions name the first two, and statuses are entered for these.
AskedQuestions == {q \in Question : c3 \notin q.named}
AskedApplicants ==
  {p \in Applicant : p.status[c3] = "none" /\ p.home \in {c1, NoPlace} /\ r2 \notin p.banded /\ ~p.imported}

FormsOfRun == {Meaning, {"yes"}, {"no"}}

RowOf(source, value, everywhere, expired) ==
  [source |-> source, value |-> value, everywhere |-> everywhere, expired |-> expired]

GeneralRows ==
  {NoAnswer, RowOf("user", "no", FALSE, FALSE), RowOf("user", "yes", TRUE, FALSE),
   RowOf("learned", "yes", FALSE, FALSE)}
RegionalRows ==
  {NoAnswer, RowOf("user", "yes", FALSE, FALSE), RowOf("learned", "no", FALSE, FALSE),
   RowOf("user", "no", FALSE, TRUE)}

BanksOfRun ==
  {[s \in Scope |-> CASE s = NoPlace -> general [] s = r1 -> regional [] OTHER -> NoAnswer] :
     general \in GeneralRows, regional \in RegionalRows}

LegacyOfRun ==
  {NoAnswer, [sort |-> "yesno", value |-> "no"], [sort |-> "text", value |-> "yes"], [sort |-> "band", value |-> r1]}

Grounded == [outcome |-> "grounded", value |-> "no"]
=============================================================================
