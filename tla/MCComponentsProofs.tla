------------------------- MODULE MCComponentsProofs --------------------------
(***************************************************************************)
(* What the run of the components checks, for all constants: each part is  *)
(* a behaviour of its component, and what is proved of the component holds *)
(* of the part.                                                            *)
(***************************************************************************)
EXTENDS MCComponents, ComponentProofs, LocationProofs

\* A part takes the steps of its component, and stands still in the others.
LEMMA PartSteps ==
  [Next]_vars => /\ UNCHANGED <<part, input>>
                 /\ [ImportNext]_importVars /\ [ReviewNext]_reviewVars /\ [FactsNext]_factVars
                 /\ [MemoryNext]_memoryVars /\ [PanelNext]_panelVars /\ [GitHubNext]_gitHubVars
                 /\ [DiscoveryNext]_boardVars /\ [FetchNext]_fetchVars
                 /\ [BackfillNext]_backfillVars
<1> SUFFICES ASSUME [Next]_vars
             PROVE  /\ UNCHANGED <<part, input>>
                    /\ [ImportNext]_importVars /\ [ReviewNext]_reviewVars /\ [FactsNext]_factVars
                    /\ [MemoryNext]_memoryVars /\ [PanelNext]_panelVars /\ [GitHubNext]_gitHubVars
                    /\ [DiscoveryNext]_boardVars /\ [FetchNext]_fetchVars
                    /\ [BackfillNext]_backfillVars
  OBVIOUS
<1>1. CASE UNCHANGED vars
  BY <1>1 DEF vars
<1>2. CASE Next
  BY <1>2 DEF Next, Others, Pure, FactsNext
<1> QED BY <1>1, <1>2

LEMMA PartStarts ==
  Init => /\ input \in Inputs
          /\ ImportInit /\ ReviewInit /\ FactsInit /\ MemoryInit /\ PanelInit /\ GitHubInit
          /\ DiscoveryInit /\ FetchInit /\ BackfillInit
  BY DEF Init

(* Exploring the parts one at a time adds nothing to what the components   *)
(* do: a behaviour of the run is one of every component.                   *)
THEOREM PartsAreComponents ==
  Spec => /\ ReviewSpec /\ FactsSpec /\ FetchSpec
          /\ ImportInit /\ [][ImportNext]_importVars
          /\ MemoryInit /\ [][MemoryNext]_memoryVars
          /\ PanelInit /\ [][PanelNext]_panelVars
          /\ GitHubInit /\ [][GitHubNext]_gitHubVars
          /\ DiscoveryInit /\ [][DiscoveryNext]_boardVars
          /\ BackfillInit /\ [][BackfillNext]_backfillVars
  BY PartStarts, PartSteps, PTL DEF Spec, ReviewSpec, FactsSpec, FetchSpec

(* Every variable of every component keeps its type.                       *)
THEOREM ComponentsTyped == Spec => []ComponentsTypeOK
<1>1. Spec => []ImportTypeOK
  BY PartsAreComponents, ImportInitTyped, ImportStepTyped, PTL
<1>2. Spec => []ReviewInv /\ []FactsInv /\ []FetchInv
  BY PartsAreComponents, ReviewInvariant, FactsInvariant, FetchInvariant, PTL
<1>3. Spec => []MemoryTypeOK
  BY PartsAreComponents, MemoryInitTyped, MemoryStepTyped, PTL
<1>4. Spec => []PanelInv
  BY PartsAreComponents, PanelInitInv, PanelNextInv, PTL
<1>5. Spec => []GitHubInv
  BY PartsAreComponents, GitHubInitInv, GitHubNextInv, PTL
<1>6. Spec => []DiscoveryInv
  BY PartsAreComponents, DiscoveryInitInv, DiscoveryNextInv, PTL
<1>7. Spec => []BackfillInv
  BY PartsAreComponents, BackfillInitInv, BackfillNextInv, PTL
<1>8. ImportTypeOK /\ ReviewInv /\ FactsInv /\ FetchInv /\ MemoryTypeOK /\ PanelInv /\ GitHubInv
        /\ DiscoveryInv /\ BackfillInv => ComponentsTypeOK
  BY DEF ComponentsTypeOK, ReviewInv, FactsInv, FetchInv, PanelInv, GitHubInv, DiscoveryInv, BackfillInv
<1> QED BY <1>1, <1>2, <1>3, <1>4, <1>5, <1>6, <1>7, <1>8, PTL

(***************************************************************************)
(* The parts that are pure operators: the input is one of those the        *)
(* theorems are about.                                                     *)
(***************************************************************************)
LEMMA InputStays == Spec => [](input \in Inputs)
<1>1. input \in Inputs /\ [Next]_vars => (input \in Inputs)'
  <2> SUFFICES ASSUME input \in Inputs, [Next]_vars
               PROVE  (input \in Inputs)'
    OBVIOUS
  <2>1. part' = part /\ input' = input
    BY PartSteps
  <2>2. Inputs' = Inputs
    BY <2>1 DEF Inputs
  <2> QED BY <2>1, <2>2
<1> QED BY <1>1, PartStarts, PTL DEF Spec

LEMMA InputsOfParts ==
  ASSUME input \in Inputs
  PROVE  /\ part = "prefilter" => input \in Profiles \X Jobs
         /\ part = "years" => input \in SUBSET Roles
         /\ part = "evidence" => input \in [Repo -> RepoFacts]
         /\ part = "sources" => input \in Question \X Applicant
         /\ part = "places" => input \in Datasets
<1>1. part = "prefilter" => input \in Profiles \X Jobs
  BY DEF Inputs
<1>2. part = "years" => input \in SUBSET Roles
  BY DEF Inputs
<1>3. part = "evidence" => input \in [Repo -> RepoFacts]
  BY DEF Inputs
<1>4. part = "sources" => input \in Question \X Applicant
  BY DEF Inputs, AskedQuestions, AskedApplicants
<1>5. part = "places" => input \in Datasets
  BY DEF Inputs
<1> QED BY <1>1, <1>2, <1>3, <1>4, <1>5

\* The datasets of the run are datasets.
LEMMA DatasetsOfRun == Datasets \subseteq Dataset
<1> SUFFICES ASSUME NEW rows \in Datasets
             PROVE  rows \in Dataset
  OBVIOUS
<1>1. PICK name \in PlaceName, ra \in RegionRow, rb \in RegionRow, ca \in CityRow, cb \in CityRow :
        rows = [names |-> [n \in Land |-> IF n = n1 THEN {x} ELSE {name}],
                regions |-> {ra, rb}, cities |-> {ca, cb}]
  BY DEF Datasets
<1>2. [n \in Land |-> IF n = n1 THEN {x} ELSE {name}] \in [Land -> SUBSET PlaceName]
  BY InstanceAssumption
<1>3. \A e, f : IsFiniteSet({e, f})
  <2> SUFFICES ASSUME NEW e, NEW f
               PROVE  IsFiniteSet({e, f})
    OBVIOUS
  <2>1. IsFiniteSet({e}) /\ {e, f} = {e} \cup {f}
    BY FS_Singleton
  <2> QED BY <2>1, FS_AddElement
<1>4. IsFiniteSet({ra, rb}) /\ IsFiniteSet({ca, cb})
  BY <1>3
<1> QED BY <1>1, <1>2, <1>4 DEF Dataset

(* The prefilter's query and predicate agree.                              *)
THEOREM QueriesMirror == Spec => []QueryMirrorsPredicate
<1>1. input \in Inputs => QueryMirrorsPredicate
  <2> SUFFICES ASSUME input \in Inputs, part = "prefilter"
               PROVE  Mirrored(input[1], input[2])
    BY DEF QueryMirrorsPredicate
  <2>1. input[1] \in Profiles /\ input[2] \in Jobs
    BY InputsOfParts
  <2> QED BY <2>1, QueryMirrorsPrefilter
<1> QED BY <1>1, InputStays, PTL

(* The months of a skill count once each, and show to the half year.       *)
THEOREM YearsCounted == Spec => []YearsAreCounted
<1>1. input \in Inputs => YearsAreCounted
  <2> SUFFICES ASSUME input \in Inputs, part = "years"
               PROVE  MonthsAreCountedOnce(input) /\ YearsAreRounded(MonthsOf(input))
    BY DEF YearsAreCounted
  <2>1. input \in SUBSET Roles
    BY InputsOfParts
  <2>2. MonthsOf(input) \in Nat
    BY <2>1, MonthsAreNumbers
  <2> QED BY <2>1, <2>2, MonthsCountOnce, YearsRound
<1> QED BY <1>1, InputStays, PTL

(* A skill is counted over the repositories it was looked for in.          *)
THEOREM ScansSound == Spec => []ScansAreSound
<1>1. input \in Inputs => ScansAreSound
  BY InputsOfParts, EvidenceAddsUp DEF ScansAreSound
<1> QED BY <1>1, InputStays, PTL

\* The forms and rows of the run are forms and rows.
LEMMA SourcesOfRun ==
  /\ FormsOfRun \subseteq SUBSET Meaning /\ {"yes", "no"} \subseteq Meaning
  /\ BanksOfRun \subseteq Bank /\ LegacyOfRun \subseteq LegacyRow \cup {NoAnswer}
  /\ Grounded \in Inference
<1>1. {"yes", "no"} \subseteq Meaning
  BY DEF Meaning
<1>2. FormsOfRun \subseteq SUBSET Meaning
  BY <1>1 DEF FormsOfRun
<1>3. BanksOfRun \subseteq Bank
  <2>1. \A by \in {"user", "learned"}, value \in {"yes", "no"}, everywhere, expired \in BOOLEAN :
          RowOf(by, value, everywhere, expired) \in SavedRow
    BY <1>1 DEF RowOf, SavedRow
  <2> DEFINE Values == SavedRow \cup {NoAnswer}
  <2>2. ASSUME NEW rows \in BanksOfRun
        PROVE  rows \in [Scope -> Values]
    <3>1. GeneralRows \subseteq Values /\ RegionalRows \subseteq Values /\ NoAnswer \in Values
      BY <2>1 DEF GeneralRows, RegionalRows
    <3>2. PICK general \in GeneralRows, regional \in RegionalRows :
            rows = [s \in Scope |-> CASE s = NoPlace -> general [] s = r1 -> regional [] OTHER -> NoAnswer]
      BY DEF BanksOfRun
    <3> HIDE DEF Values
    <3>3. general \in Values /\ regional \in Values
      BY <3>1
    <3> QED BY <3>1, <3>2, <3>3
  <2> QED BY <2>2 DEF Bank
<1>4. LegacyOfRun \subseteq LegacyRow \cup {NoAnswer}
  BY <1>1, SourcesInstance DEF LegacyOfRun, LegacyRow
<1>5. Grounded \in Inference
  BY <1>1 DEF Grounded, Inference
<1> QED BY <1>1, <1>2, <1>3, <1>4, <1>5

(* What contradicts a setting is an answer saved under that very question, *)
(* which the setting leaves open, or is inferred where classify does not   *)
(* know the wording.                                                       *)
THEOREM SettingsWin == Spec => []NoContradiction
<1>1. input \in Inputs => NoContradiction
  <2> SUFFICES ASSUME input \in Inputs, part = "sources"
               PROVE  \A job \in Place, form \in FormsOfRun, saved \in BanksOfRun,
                         legacy \in LegacyOfRun, on \in BOOLEAN :
                        SettingsAreNeverContradicted(input[1], input[2], job, form, saved, legacy, on, Grounded)
    BY DEF NoContradiction
  <2>1. input[1] \in Question /\ input[2] \in Applicant
    BY InputsOfParts
  <2> QED BY <2>1, SettingsAreKept, SourcesOfRun
<1> QED BY <1>1, InputStays, PTL

(* No saved answer of one country fills itself in for another, but for the *)
(* questions about a status or pay whose kind is not read.                 *)
THEOREM AnswersStayHome == Spec => []NoAnswerTravels
<1>1. input \in Inputs => NoAnswerTravels
  <2> SUFFICES ASSUME input \in Inputs, part = "sources"
               PROVE  \A job, other \in Place, form \in FormsOfRun, value \in {"yes", "no"},
                         everywhere, panel \in BOOLEAN :
                        AnswersStayInTheirCountry(input[1], input[2], job, other, form, value, everywhere, panel)
    BY DEF NoAnswerTravels
  <2>1. input[1] \in Question /\ input[2] \in Applicant
    BY InputsOfParts
  <2> QED BY <2>1, AnswersStay, SourcesOfRun
<1> QED BY <1>1, InputStays, PTL

(* The language model gets no question the user has answered, but for one  *)
(* whose answer a row of the region hides.                                 *)
THEOREM NothingAnsweredIsGuessed == Spec => []NoAnswerIsGuessed
<1>1. input \in Inputs => NoAnswerIsGuessed
  <2> SUFFICES ASSUME input \in Inputs, part = "sources"
               PROVE  \A job \in Place, form \in FormsOfRun, saved \in BanksOfRun,
                         legacy \in LegacyOfRun, on \in BOOLEAN :
                        AnsweredIsNotGuessed(input[1], input[2], job, form, saved, legacy, on, Grounded)
    BY DEF NoAnswerIsGuessed
  <2>1. input[1] \in Question /\ input[2] \in Applicant
    BY InputsOfParts
  <2> QED BY <2>1, AnsweredStays, SourcesOfRun
<1> QED BY <1>1, InputStays, PTL

(* No name that two kinds of place claim, or two countries or regions, is  *)
(* resolved; of two cities of a name the larger is taken.                  *)
THEOREM PlacesNotGuessed == Spec => []NoPlaceIsGuessed
<1>1. input \in Inputs => NoPlaceIsGuessed
  BY InputsOfParts, DatasetsOfRun, NamesAreNotGuessed DEF NoPlaceIsGuessed
<1> QED BY <1>1, InputStays, PTL

(* What one or two tokens of a text say of the country and the region is   *)
(* kept; not by a code beside a word like "office".                        *)
THEOREM PlacesKeepHints == Spec => []PlaceHintsHold
<1>1. input \in Inputs => PlaceHintsHold
  BY InputsOfParts, DatasetsOfRun, HintsAreKept DEF PlaceHintsHold
<1> QED BY <1>1, InputStays, PTL
=============================================================================
