---------------------------- MODULE MCComponents -----------------------------
(***************************************************************************)
(* The components that share no state with the flow of an application, for *)
(* TLC: one run explores each of them by itself.  part says which one; the *)
(* variables of the others keep one initial value.  A component that is    *)
(* pure operators has its input chosen at the start, and takes no step.    *)
(***************************************************************************)
EXTENDS Prefilter, ImportJobs, ImportReview, ResumeFacts, SkillYears, AnswerMemory,
        PanelCache, GitHubImport, GitHubEvidence, BoardDiscovery, LocationBackfill,
        MCSources, MCBoardFetch, MCPlaces

CONSTANTS j1, l1, e1, e2, q1, q2, t1, t2, t3

VARIABLES
  part,   \* which component is explored
  input   \* of a component that is pure operators

vars == <<part, input, importVars, reviewVars, factVars, memoryVars, panelVars, gitHubVars,
          boardVars, fetchVars, backfillVars>>

-----------------------------------------------------------------------------
(* The instances                                                           *)

\* Two companies whose names make one slug.
BoardListValue == <<t1, t2, t3>>
CompanyOfValue == [t \in {t1, t2, t3} |-> IF t = t3 THEN "a" ELSE "b"]

\* What the pure components are checked over: each profile and job, up to
\* three roles, all that two repositories can be, each question of each
\* applicant, each dataset.
Inputs ==
  CASE part = "prefilter" -> Profiles \X Jobs
    [] part = "years" -> {{a, b, c} : a, b, c \in Roles}
    [] part = "evidence" -> {scan \in [Repo -> RepoFacts] : \A r \in Repo : Possible(scan[r])}
    [] part = "sources" -> AskedQuestions \X AskedApplicants
    [] part = "places" -> Datasets
    [] OTHER -> {"none"}

Pure == {"prefilter", "years", "evidence", "sources", "places"}

-----------------------------------------------------------------------------
Init ==
  /\ part \in Pure \cup {"jobs", "review", "entries", "skills", "memory", "panel", "github", "discovery",
                         "fetch", "backfill"}
  /\ ReviewInit /\ (part = "review" \/ (\A f \in ReviewField : column[f] = BlankText))
  /\ MemoryInit /\ (part = "memory" \/ (held /\ learningOn))
  /\ FetchInit /\ (part = "fetch" \/ (platform = "simple" /\ listing = <<p1, p2, p3, p4>>))
  /\ BackfillInit /\ (part = "backfill" \/ \A r \in RowKey : located[r].text = x)
  /\ ImportInit /\ FactsInit /\ PanelInit /\ GitHubInit /\ DiscoveryInit
  /\ input \in Inputs

\* The other parts stand still.
Others ==
  /\ UNCHANGED <<part, input>>
  /\ part # "jobs" => UNCHANGED importVars
  /\ part # "review" => UNCHANGED reviewVars
  /\ part \notin {"entries", "skills"} => UNCHANGED factVars
  /\ part # "memory" => UNCHANGED memoryVars
  /\ part # "panel" => UNCHANGED panelVars
  /\ part # "github" => UNCHANGED gitHubVars
  /\ part # "discovery" => UNCHANGED boardVars
  /\ part # "fetch" => UNCHANGED fetchVars
  /\ part # "backfill" => UNCHANGED backfillVars

Next ==
  /\ \/ part = "jobs" /\ ImportNext
     \/ part = "review" /\ ReviewNext
     \/ part = "entries" /\ EntryStep
     \/ part = "skills" /\ SkillStep
     \/ part = "memory" /\ MemoryNext
     \/ part = "panel" /\ PanelNext
     \/ part = "github" /\ GitHubNext
     \/ part = "discovery" /\ DiscoveryNext
     \/ part = "fetch" /\ FetchNext
     \/ part = "backfill" /\ BackfillNext
     \/ part \in Pure
  /\ Others

\* The fairness of the parts; what is enabled at the start of a part counts in
\* that part only.
Fairness ==
  /\ WF_importVars(part = "jobs" /\ SweepStep)
  /\ \A j \in ImportSlot : WF_importVars(GrowLate(j))
  /\ \A w \in ImportWorker : WF_importVars(Extract(w) \/ FinishImport(w) \/ KillImportWorker(w))
  /\ WF_importVars(PublishImport \/ KillImportRequest)
  /\ MemoryFairness
  /\ PanelFairness
  /\ GitHubFairness
  /\ WF_boardVars(part = "discovery" /\ StartSearch)
  /\ WF_boardVars(QueueBoard \/ PassOverBoard)
  /\ \A s \in LocationSweeper : WF_backfillVars(part = "backfill" /\ BackfillStep(s))

Spec == Init /\ [][Next]_vars /\ Fairness

-----------------------------------------------------------------------------
(* Properties                                                              *)

(* Every variable of every component keeps its type.                       *)
ComponentsTypeOK ==
  /\ ImportTypeOK /\ ReviewTypeOK /\ FactsTypeOK /\ MemoryTypeOK /\ PanelTypeOK
  /\ GitHubTypeOK /\ DiscoveryTypeOK /\ FetchTypeOK /\ BackfillTypeOK

(* The query of candidate_profiles_for_job selects exactly the active      *)
(* profiles that passes_prefilter admits.                                  *)
QueryMirrorsPredicate == part = "prefilter" => Mirrored(input[1], input[2])

(* years_by_skill counts each month of experience once, and format_years   *)
(* rounds it to the nearest half year.                                     *)
YearsAreCounted ==
  part = "years" => MonthsAreCountedOnce(input) /\ YearsAreRounded(MonthsOf(input))

(* build_skills counts a skill over the repositories it was looked for in. *)
ScansAreSound == part = "evidence" => EvidenceIsSound(input)

(* What contradicts a setting was saved under that very question, which    *)
(* the setting leaves open, or is inferred where the question is not read. *)
NoContradiction ==
  part = "sources" =>
    \A job \in Place, form \in FormsOfRun, saved \in BanksOfRun, legacy \in LegacyOfRun, on \in BOOLEAN :
      SettingsAreNeverContradicted(input[1], input[2], job, form, saved, legacy, on, Grounded)

(* No saved answer of one country fills itself in for another, where the   *)
(* code knows that the answer depends on the country.                      *)
NoAnswerTravels ==
  part = "sources" =>
    \A job, other \in Place, form \in FormsOfRun, value \in {"yes", "no"}, everywhere, panel \in BOOLEAN :
      AnswersStayInTheirCountry(input[1], input[2], job, other, form, value, everywhere, panel)

(* The language model gets no question the user has answered, but for one  *)
(* whose answer a row of the region hides.                                 *)
NoAnswerIsGuessed ==
  part = "sources" =>
    \A job \in Place, form \in FormsOfRun, saved \in BanksOfRun, legacy \in LegacyOfRun, on \in BOOLEAN :
      AnsweredIsNotGuessed(input[1], input[2], job, form, saved, legacy, on, Grounded)

(* normalize_location resolves no name that two kinds of place claim, nor  *)
(* two countries or two regions; of two cities it takes the larger.        *)
NoPlaceIsGuessed == part = "places" => NoReadingIsGuessed(input)

(* normalize_location keeps what one or two tokens say of the country and  *)
(* the region.                                                             *)
PlaceHintsHold == part = "places" => HintsAreHonoured(input)

(* The daily search comes to every board that can be fetched.              *)
EveryBoardIsFound == (part = "discovery") => EveryBoardIsQueued
=============================================================================
