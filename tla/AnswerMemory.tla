---------------------------- MODULE AnswerMemory -----------------------------
(***************************************************************************)
(* What auto-apply remembers of one question: the AnswerBank row of a      *)
(* profile, the answers the user sent to employers, and the learner that   *)
(* makes a row of an answer two employers have been given.  The learner    *)
(* goes through all questions of a profile between reading the bank and    *)
(* acting on a row, while the user works on the same rows.                 *)
(*                                                                         *)
(* No typed setting covers the question.  The audit history, which nothing *)
(* reads, is left out, and so are the resolver and the review page, which  *)
(* read the row (ResolveAnswer, DraftAnswers).                             *)
(***************************************************************************)
EXTENDS Integers, Sequences, FiniteSets

CONSTANTS
  Learner,         \* runs of the learner, by message, page or nightly sweep
  AskingEmployer,  \* employers that ask the question
  AnswerValue,     \* answers
  RowId,           \* primary keys
  NoBankRow        \* no row

VARIABLES
  bank,        \* the row
  votes,       \* the two newest answers that count, of different employers, newest first
  authored,    \* <<employer, answer>> pairs the user typed: what votes stand for
  suggestion,  \* status of the suggestion of each answer
  held,        \* whether the question is legal or commercial (T0, T1)
  learningOn,  \* Profile.learning_enabled
  learner,     \* what each run has decided and not done yet
  due,         \* an answer of the last day no sweep has looked at
  unread       \* an answer no run has looked at

memoryVars ==
  <<bank, votes, authored, suggestion, held, learningOn, learner, due, unread>>

BankRows == [id : RowId, source : {"user", "learned"}, value : AnswerValue,
             locked : BOOLEAN, expired : BOOLEAN]
Votes == [employer : AskingEmployer, value : AnswerValue]
IdleLearner == [step |-> "idle"]

\* A key can be had that no row and no run knows.
ASSUME MemoryAssumption ==
  /\ NoBankRow \notin BankRows
  /\ IsFiniteSet(Learner) /\ (IsFiniteSet(RowId) => Cardinality(Learner) < Cardinality(RowId))

LearnerSteps == {IdleLearner}
  \cup [step : {"withdraw"}, id : RowId, sweep : BOOLEAN]
  \cup [step : {"write", "suggest"}, value : AnswerValue, sweep : BOOLEAN]

\* A suggestion that expired is one that can be made again: "none".
MemoryTypeOK ==
  /\ bank \in BankRows \cup {NoBankRow}
  /\ votes \in Seq(Votes)
  /\ authored \subseteq AskingEmployer \X AnswerValue
  /\ suggestion \in [AnswerValue -> {"none", "pending", "accepted", "rejected"}]
  /\ held \in BOOLEAN /\ learningOn \in BOOLEAN /\ due \in BOOLEAN /\ unread \in BOOLEAN
  /\ learner \in [Learner -> LearnerSteps]

MemoryInit ==
  /\ bank = NoBankRow /\ votes = <<>> /\ authored = {}
  /\ suggestion = [v \in AnswerValue |-> "none"]
  /\ held \in BOOLEAN
  /\ learningOn \in BOOLEAN
  /\ learner = [l \in Learner |-> IdleLearner]
  /\ due = FALSE /\ unread = FALSE

Learned == bank # NoBankRow /\ bank.source = "learned"

-----------------------------------------------------------------------------
(* write_answer and delete_answer                                          *)

\* A key in nobody's hands.
FreshId == CHOOSE id \in RowId :
  /\ bank # NoBankRow => bank.id # id
  /\ \A l \in Learner : learner[l].step = "withdraw" => learner[l].id # id

\* A row that is replaced keeps its key.
Stored(source, value, locked) ==
  [id |-> IF bank = NoBankRow THEN FreshId ELSE bank.id, source |-> source,
   value |-> value, locked |-> locked, expired |-> FALSE]

\* Fault: asked once, when the learner reads the bank.
NeverRefuse(source) == FALSE

\* would_refuse, under the lock of the row: the user always wins, the learner
\* loses to the user.
WouldRefuse(source) ==
  source = "learned" /\ bank # NoBankRow /\ ~bank.expired /\ (bank.source = "user" \/ bank.locked)

UserWrites(value, locked) == bank' = Stored("user", value, locked)

-----------------------------------------------------------------------------
(* The user                                                                *)

\* The newest answer to each employer counts, and the learner looks at the two
\* newest of those: a new one leaves the newest of another employer.
WithVote(e, v) ==
  LET vote == [employer |-> e, value |-> v]
      others == {i \in DOMAIN votes : votes[i].employer # e} IN
  IF others = {} THEN <<vote>>
  ELSE <<vote, votes[CHOOSE i \in others : \A j \in others : i <= j]>>

\* Sending an application records what it says.  Only what the user typed
\* counts, not a prefilled answer left as it was.
\* Fault: whatever is sent counts.
EverythingCounts(edited) == TRUE

Counts(edited) == edited

RecordObservation(e, v, edited) ==
  /\ votes' = IF Counts(edited) THEN WithVote(e, v) ELSE votes
  /\ authored' = IF edited THEN authored \cup {<<e, v>>} ELSE authored
  /\ due' = (due \/ edited)
  /\ unread' = (unread \/ edited)
  /\ UNCHANGED <<bank, suggestion, held, learningOn, learner>>

\* The answers page.
SaveAnswer(v, locked) ==
  /\ UserWrites(v, locked)
  /\ UNCHANGED <<votes, authored, suggestion, held, learningOn, learner, due, unread>>

\* The questions panel: such an answer is locked.
QuickFill(v) == SaveAnswer(v, TRUE)

\* A ticked answer of the review page, unless it is the user's already.
RememberReviewed(v) ==
  /\ ~(bank # NoBankRow /\ bank.source = "user" /\ bank.value = v)
  /\ SaveAnswer(v, held)

DeleteAnswer ==
  /\ bank # NoBankRow
  /\ bank' = NoBankRow
  /\ UNCHANGED <<votes, authored, suggestion, held, learningOn, learner, due, unread>>

\* learned_promote: a legal or commercial answer is locked.
Promote ==
  /\ Learned
  /\ UserWrites(bank.value, held)
  /\ suggestion' = [suggestion EXCEPT ![bank.value] = IF @ = "pending" THEN "accepted" ELSE @]
  /\ UNCHANGED <<votes, authored, held, learningOn, learner, due, unread>>

\* learned_forget
Forget ==
  /\ Learned
  /\ suggestion' = [suggestion EXCEPT ![bank.value] = "rejected"]
  /\ bank' = NoBankRow
  /\ UNCHANGED <<votes, authored, held, learningOn, learner, due, unread>>

AcceptSuggestion(v) ==
  /\ suggestion[v] = "pending"
  /\ UserWrites(v, held)
  /\ suggestion' = [suggestion EXCEPT ![v] = "accepted"]
  /\ UNCHANGED <<votes, authored, held, learningOn, learner, due, unread>>

DismissSuggestion(v) ==
  /\ suggestion[v] = "pending"
  /\ suggestion' = [suggestion EXCEPT ![v] = "rejected"]
  /\ UNCHANGED <<bank, votes, authored, held, learningOn, learner, due, unread>>

ToggleLearning ==
  /\ learningOn' = ~learningOn
  /\ UNCHANGED <<bank, votes, authored, suggestion, held, learner, due, unread>>

\* A learned factual answer expires after 180 days; nothing else does.
ExpireAnswer ==
  /\ Learned /\ ~held /\ ~bank.expired
  /\ bank' = [bank EXCEPT !.expired = TRUE]
  /\ UNCHANGED <<votes, authored, suggestion, held, learningOn, learner, due, unread>>

-----------------------------------------------------------------------------
(* The learner                                                             *)

\* _consensus: the two newest employers were told the same.
Consensus(recent) == Len(recent) >= 2 /\ recent[1].value = recent[2].value

Skip == [step |-> "skip"]

\* Fault: a rejected answer is only taken back, not kept from being learned.
SuppressedRow(row, status, v) == row # NoBankRow /\ status[v] = "rejected"

\* _suppressed
Suppressed(row, status, v) == status[v] = "rejected"

\* learn_for_profile, for this question.
Decision(row, recent, status) ==
  LET learnedRow == row # NoBankRow /\ row.source = "learned"
      withdraw == [step |-> "withdraw"] IN
  IF recent = <<>> THEN Skip
  ELSE LET newest == recent[1].value IN
    IF ~Consensus(recent)
    THEN IF learnedRow /\ row.value # newest THEN withdraw ELSE Skip
    ELSE IF learnedRow /\ row.value = newest THEN Skip
    ELSE IF Suppressed(row, status, newest) THEN IF learnedRow THEN withdraw ELSE Skip
    ELSE IF row # NoBankRow /\ ~learnedRow THEN Skip
    ELSE [step |-> "write", value |-> newest]

\* A run starts when the message of a sent application arrives, on the user's
\* demand or with the sweep.  It first expires suggestions (old) of 90 days.
BeginLearning(l, sweep) ==
  /\ learner[l] = IdleLearner
  /\ \E old \in SUBSET {v \in AnswerValue : suggestion[v] = "pending"} :
       LET decided == Decision(bank, votes, suggestion) IN
       IF ~learningOn THEN UNCHANGED <<suggestion, learner, unread>>
       ELSE /\ suggestion' = [v \in AnswerValue |-> IF v \in old THEN "none" ELSE suggestion[v]]
            /\ unread' = FALSE
            /\ learner' = [learner EXCEPT ![l] =
                 CASE decided.step = "skip" -> IdleLearner
                   [] decided.step = "withdraw" ->
                        [step |-> "withdraw", id |-> bank.id, sweep |-> sweep]
                   [] decided.step = "write" ->
                        [step |-> "write", value |-> decided.value, sweep |-> sweep]]
  /\ UNCHANGED <<bank, votes, authored, held, learningOn>>

StartLearning(l) == BeginLearning(l, FALSE) /\ UNCHANGED due

\* Fault: the sweep hands the profile to a message, which may be lost.
SweepByMessage(l) ==
  /\ due /\ due' = FALSE
  /\ UNCHANGED <<bank, votes, authored, suggestion, held, learningOn, learner, unread>>

\* sweep_learning looks back 25 hours, so that every answer is met by one.
SweepLearning(l) == due /\ BeginLearning(l, TRUE) /\ due' = FALSE

\* The row is deleted by its key, whatever it holds by now.
WithdrawAnswer(l) ==
  /\ learner[l].step = "withdraw"
  /\ bank' = IF bank # NoBankRow /\ bank.id = learner[l].id THEN NoBankRow ELSE bank
  /\ learner' = [learner EXCEPT ![l] = IdleLearner]
  /\ UNCHANGED <<votes, authored, suggestion, held, learningOn, due, unread>>

WriteLearned(l) ==
  /\ learner[l].step = "write"
  /\ IF WouldRefuse("learned") THEN UNCHANGED bank
     ELSE bank' = Stored("learned", learner[l].value, FALSE)
  /\ learner' = [learner EXCEPT ![l] =
                  IF held /\ ~WouldRefuse("learned") THEN [@ EXCEPT !.step = "suggest"]
                  ELSE IdleLearner]
  /\ UNCHANGED <<votes, authored, suggestion, held, learningOn, due, unread>>

\* _ensure_suggestion: made once, and again when it has expired.
EnsuredStatus(status) == IF status = "none" THEN "pending" ELSE status

SuggestLearned(l) ==
  /\ learner[l].step = "suggest"
  /\ suggestion' = [suggestion EXCEPT ![learner[l].value] = EnsuredStatus(@)]
  /\ learner' = [learner EXCEPT ![l] = IdleLearner]
  /\ UNCHANGED <<bank, votes, authored, held, learningOn, due, unread>>

\* The worker of a message is stopped.
LearnerDies(l) ==
  /\ learner[l] # IdleLearner /\ ~learner[l].sweep
  /\ learner' = [learner EXCEPT ![l] = IdleLearner]
  /\ UNCHANGED <<bank, votes, authored, suggestion, held, learningOn, due, unread>>

-----------------------------------------------------------------------------
UserStep ==
  \/ \E e \in AskingEmployer, v \in AnswerValue, edited \in BOOLEAN : RecordObservation(e, v, edited)
  \/ \E v \in AnswerValue, locked \in BOOLEAN : SaveAnswer(v, locked)
  \/ \E v \in AnswerValue :
       QuickFill(v) \/ RememberReviewed(v) \/ AcceptSuggestion(v) \/ DismissSuggestion(v)
  \/ DeleteAnswer \/ Promote \/ Forget \/ ToggleLearning

LearnerStep(l) == WithdrawAnswer(l) \/ WriteLearned(l) \/ SuggestLearned(l)

MemoryNext ==
  \/ UserStep
  \/ ExpireAnswer
  \/ \E l \in Learner : StartLearning(l) \/ SweepLearning(l) \/ LearnerStep(l) \/ LearnerDies(l)

\* Beat runs the sweep every night and a worker finishes what it started.
MemoryFairness == \A l \in Learner : WF_memoryVars(SweepLearning(l)) /\ WF_memoryVars(LearnerStep(l))

MemorySpec == MemoryInit /\ [][MemoryNext]_memoryVars /\ MemoryFairness

-----------------------------------------------------------------------------
(* Properties                                                              *)

(* The learner never writes over an answer of the user's, though it looked *)
(* before the user wrote it.  (It can delete it: WithdrawAnswer.)          *)
LearnerSparesTheUser ==
  [][bank # NoBankRow /\ bank' # NoBankRow /\ bank.source = "user" =>
       bank'.source = "user"]_memoryVars

(* Nothing learned feeds on itself: the user has typed a learned answer    *)
(* for two employers, however often it was prefilled and sent.             *)
LearnedWasTyped ==
  Learned => \E e, f \in AskingEmployer :
               e # f /\ <<e, bank.value>> \in authored /\ <<f, bank.value>> \in authored

(* Learning is idempotent: a run after an undisturbed run does nothing.    *)
LearningIsIdempotent ==
  LET first == Decision(bank, votes, suggestion)
      after == CASE first.step = "skip" -> bank
                 [] first.step = "withdraw" -> NoBankRow
                 [] first.step = "write" -> Stored("learned", first.value, FALSE)
      status == IF first.step = "write" /\ held
                THEN [suggestion EXCEPT ![first.value] = EnsuredStatus(@)] ELSE suggestion
  IN Decision(after, votes, status) = Skip

(* The sweep makes up for lost messages and stopped workers: an answer is  *)
(* looked at unless learning is switched off.                              *)
EvidenceIsRead == (due /\ learningOn) ~> (~unread \/ ~learningOn)
=============================================================================
