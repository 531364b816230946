--------------------------- MODULE ComponentProofs ---------------------------
(***************************************************************************)
(* What holds of the smaller components for all constants: the prefilter,  *)
(* the provenance of profile columns, the employers of approved boards,    *)
(* the fetch of a board, the learner, the settings and the answers given   *)
(* from them.                                                              *)
(***************************************************************************)
EXTENDS ImportProofs, Prefilter, ImportReview, BoardDiscovery, BoardFetch, AnswerMemory,
        AnswerSources, PanelCache

(***************************************************************************)
(* The prefilter.                                                          *)
(***************************************************************************)
(* With a floor and a ceiling that are known, the query compares them as   *)
(* the predicate does; without a floor it keeps the profile.               *)
LEMMA FloorComparison ==
  ASSUME NEW p \in Profiles, NEW c \in Salary
  PROVE  NotBelowFloor(p, c) = TRUE <=> (p.min_salary # NULL => c >= p.min_salary)
<1>1. CASE p.min_salary = NULL
  <2>1. (p.min_salary # NULL) = FALSE
    BY <1>1
  <2>2. SqlAnd(SqlGreater(p.min_salary, c), p.min_salary # NULL) = FALSE
    BY <2>1 DEF SqlAnd
  <2>3. NotBelowFloor(p, c) = TRUE
    BY <2>2, SalaryAssumption DEF NotBelowFloor, SqlNot
  <2> QED BY <1>1, <2>3
<1>2. CASE p.min_salary # NULL
  <2>1. p.min_salary \in Nat /\ c \in Nat /\ c # NULL
    <3>1. p.min_salary \in Salary
      BY <1>2 DEF Profiles
    <3>2. p.min_salary \in Nat /\ c \in Nat
      BY <3>1, SalaryAssumption
    <3>3. c \in Int /\ NULL \notin Int
      <4>1. c \in Int BY <3>2
      <4>2. NULL \notin Int BY SalaryAssumption
      <4> QED BY <4>1, <4>2
    <3>4. c # NULL
      BY <3>3
    <3> QED BY <3>2, <3>4
  <2>2. (p.min_salary # NULL) = TRUE
    BY <1>2
  <2>3. CASE p.min_salary > c
    <3>1. SqlGreater(p.min_salary, c) = TRUE
      BY <1>2, <2>1, <2>3 DEF SqlGreater
    <3>2. SqlAnd(TRUE, TRUE) = TRUE
      BY SalaryAssumption DEF SqlAnd
    <3>3. SqlNot(TRUE) = FALSE
      BY SalaryAssumption DEF SqlNot
    <3>4. NotBelowFloor(p, c) = FALSE
      BY <2>2, <3>1, <3>2, <3>3 DEF NotBelowFloor
    <3> QED BY <1>2, <2>1, <2>3, <3>4
  <2>4. CASE ~(p.min_salary > c)
    <3>1. SqlGreater(p.min_salary, c) = FALSE
      BY <1>2, <2>1, <2>4 DEF SqlGreater
    <3>2. SqlAnd(FALSE, TRUE) = FALSE
      BY DEF SqlAnd
    <3>3. SqlNot(FALSE) = TRUE
      BY SalaryAssumption DEF SqlNot
    <3>4. NotBelowFloor(p, c) = TRUE
      BY <2>2, <3>1, <3>2, <3>3 DEF NotBelowFloor
    <3> QED BY <1>2, <2>1, <2>4, <3>4
  <2> QED BY <2>3, <2>4
<1> QED BY <1>1, <1>2

(* candidate_profiles_for_job selects exactly the active profiles that     *)
(* passes_prefilter admits, whatever is unknown on either side.            *)
THEOREM QueryMirrorsPrefilter ==
  \A p \in Profiles, j \in Jobs : Mirrored(p, j)
<1> SUFFICES ASSUME NEW p \in Profiles, NEW j \in Jobs
             PROVE  Mirrored(p, j)
  OBVIOUS
<1> DEFINE c == KnownSalaryCeiling(j)
<1>1. c \in Salary \cup {NULL}
  BY DEF KnownSalaryCeiling, Jobs
<1>2. CASE c = NULL
  BY <1>2 DEF Mirrored, IsCandidate, PassesPrefilter, KnownSalaryCeiling, Profiles, Jobs
<1>3. CASE c # NULL
  <2>1. NotBelowFloor(p, c) = TRUE <=> (p.min_salary # NULL => c >= p.min_salary)
    BY <1>1, <1>3, FloorComparison
  <2> QED BY <1>3, <2>1 DEF Mirrored, IsCandidate, PassesPrefilter, KnownSalaryCeiling, Profiles, Jobs
<1> QED BY <1>2, <1>3

(***************************************************************************)
(* Provenance.  typed and origin are changed by the same condition in each *)
(* of the three writers, which is all the induction needs.                 *)
(***************************************************************************)
ReviewInv == ReviewTypeOK /\ ProvenanceIsHonest

\* A column a page saves: unchanged, cleared, or the user's from now on.
LEMMA PageKeepsHonesty ==
  ASSUME ReviewInv, NEW owned, NEW posted \in [ReviewField -> ReviewText \cup {BlankText}],
         SavePage(owned, posted)
  PROVE  ReviewInv'
<1>1. ReviewTypeOK'
  BY DEF ReviewInv, ReviewTypeOK, SavePage, EditedOrigin
<1>2. ProvenanceIsHonest'
  <2> SUFFICES ASSUME NEW f \in ReviewField, typed'[f] = "value"
               PROVE  column'[f] # BlankText /\ origin'[f] \in {"user", "none"}
    BY DEF ProvenanceIsHonest, Replaceable, ImportState
  <2>1. typed[f] = "value" => column[f] # BlankText /\ origin[f] \in {"user", "none"}
    BY DEF ReviewInv, ReviewTypeOK, ProvenanceIsHonest, Replaceable, ImportState
  <2>2. CASE f \in owned /\ posted[f] # column[f]
    BY <2>2 DEF SavePage, EditedOrigin, ReviewInv, ReviewTypeOK
  <2>3. CASE ~(f \in owned /\ posted[f] # column[f])
    BY <2>1, <2>3 DEF SavePage, EditedOrigin, ReviewInv, ReviewTypeOK
  <2> QED BY <2>2, <2>3
<1> QED BY <1>1, <1>2 DEF ReviewInv

\* A column a review writes was not typed; one whose words were edited there
\* is the user's.
LEMMA ReviewKeepsHonesty ==
  ASSUME ReviewInv, NEW decision \in Decisions, ApplyReview(decision)
  PROVE  ReviewInv'
<1>0. \A f \in ReviewField : decision[f] # BlankText =>
         decision[f].posted \in ReviewText /\ decision[f].proposed \in ReviewText
  BY DEF Decisions
<1>1. ReviewTypeOK'
  BY <1>0 DEF ReviewInv, ReviewTypeOK, ApplyReview, Written, ImportedOrigin, Edited
<1>2. ProvenanceIsHonest'
  <2> SUFFICES ASSUME NEW f \in ReviewField, typed'[f] = "value"
               PROVE  column'[f] # BlankText /\ origin'[f] \in {"user", "none"}
    BY DEF ProvenanceIsHonest, Replaceable, ImportState
  <2>1. typed[f] = "value" => column[f] # BlankText /\ origin[f] \in {"user", "none"}
    BY DEF ReviewInv, ReviewTypeOK, ProvenanceIsHonest, Replaceable, ImportState
  <2>2. CASE Written(f, decision[f])
    BY <1>0, <2>2, ReviewAssumption
       DEF ApplyReview, Written, ImportedOrigin, Edited, ReviewInv, ReviewTypeOK
  <2>3. CASE ~Written(f, decision[f])
    BY <2>1, <2>3 DEF ApplyReview, ReviewInv, ReviewTypeOK
  <2> QED BY <2>2, <2>3
<1> QED BY <1>1, <1>2 DEF ReviewInv

LEMMA ReviewInvariant == ReviewSpec => []ReviewInv
<1>1. ReviewInit => ReviewInv
  BY DEF ReviewInit, ReviewInv, ReviewTypeOK, ProvenanceIsHonest, Replaceable, ImportState
<1>2. ReviewInv /\ [ReviewNext]_reviewVars => ReviewInv'
  <2> SUFFICES ASSUME ReviewInv, [ReviewNext]_reviewVars
               PROVE  ReviewInv'
    OBVIOUS
  <2>1. CASE UNCHANGED reviewVars
    BY <2>1 DEF reviewVars, ReviewInv, ReviewTypeOK, ProvenanceIsHonest, Replaceable, ImportState
  <2>2. CASE \E posted \in [ReviewField -> ReviewText \cup {BlankText}] :
               SaveSearchPage(posted) \/ SaveAnswersPage(posted)
    BY <2>2, PageKeepsHonesty DEF SaveSearchPage, SaveAnswersPage
  <2>3. CASE \E decision \in Decisions : ApplyReview(decision)
    BY <2>3, ReviewKeepsHonesty
  <2> QED BY <2>1, <2>2, <2>3 DEF ReviewNext
<1> QED BY <1>1, <1>2, PTL DEF ReviewSpec

(* No value the user typed, on a page or as other words over a proposal,   *)
(* is ever taken for an imported one, whichever pages and reviews, however *)
(* old, are submitted in whichever order.                                  *)
THEOREM ProvenanceHolds == ReviewSpec => []ProvenanceIsHonest
  BY ReviewInvariant, PTL DEF ReviewInv

(***************************************************************************)
(* Boards.  A registration carries the company of its board from the look- *)
(* up of the employer to the source, unless it uses a row it lost a race   *)
(* to, which an approval never does.                                       *)
(***************************************************************************)
BoardTyped == board \in [BoardToken -> {"unknown", "pending", "approved", "rejected"}]

RegistrationTyped ==
  /\ source = [t \in BoardToken |-> source[t]]
  /\ route \in [BoardToken -> {"none", "approval", "command"}]
  /\ registering = [r \in Registrar |-> registering[r]]

CompanyCarried ==
  \A r \in Registrar : registering[r].step = "create" =>
    registering[r].employer.name = CompanyOf[registering[r].token]

BoardInv == BoardTyped /\ RegistrationTyped /\ CompanyCarried /\ CompaniesStayApart

LEMMA BoardInitInv == DiscoveryInit => BoardInv
  BY DEF DiscoveryInit, BoardInv, BoardTyped, RegistrationTyped, CompanyCarried,
         CompaniesStayApart, IdleRegistrar

\* The next step of a registrar that is not about to create a source.
LEMMA OtherStep ==
  ASSUME BoardInv, NEW r \in Registrar, NEW next, next.step # "create",
         registering' = [registering EXCEPT ![r] = next]
  PROVE  /\ registering' = [q \in Registrar |-> registering'[q]]
         /\ CompanyCarried'
  BY DEF BoardInv, RegistrationTyped, CompanyCarried

LEMMA RestIsOther == \A todo : Rest(todo).step # "create"
  BY DEF Rest, IdleRegistrar

LEMMA AfterIsOther == \A r, todo, t : AfterSource(r, todo, t).step # "create"
  BY RestIsOther DEF AfterSource

\* The source that is created, under the company's row or for a command.
LEMMA CreateKeepsCompanies ==
  ASSUME BoardInv, NEW r \in Registrar, CreateSource(r)
  PROVE  BoardInv'
<1> DEFINE job == registering[r]
           taken == RowWithSlug(job.employer.slug)
           lost == job.fresh /\ taken # {}
           row == IF lost THEN CHOOSE e \in taken : TRUE ELSE job.employer
<1>0. job.step = "create" /\ job.employer.name = CompanyOf[job.token] /\ UNCHANGED board
  BY DEF CreateSource, BoardInv, CompanyCarried
<1>1. BoardTyped'
  BY <1>0 DEF BoardInv, BoardTyped
<1>2. CASE lost /\ r \in Reviewer
  <2>1. UNCHANGED <<source, route>> /\ registering' = [registering EXCEPT ![r] = IdleRegistrar]
    BY <1>2 DEF CreateSource
  <2>2. IdleRegistrar.step # "create"
    BY DEF IdleRegistrar
  <2> QED BY <1>1, <2>1, <2>2, OtherStep DEF BoardInv, RegistrationTyped, CompaniesStayApart
<1>3. CASE ~(lost /\ r \in Reviewer) /\ source[job.token] # NoSource
  <2>1. UNCHANGED <<source, route>> /\ registering' = [registering EXCEPT ![r] = Rest(job.todo)]
    BY <1>3 DEF CreateSource
  <2> QED BY <1>1, <2>1, RestIsOther, OtherStep DEF BoardInv, RegistrationTyped, CompaniesStayApart
<1>4. CASE ~(lost /\ r \in Reviewer) /\ ~(source[job.token] # NoSource)
  <2>1. /\ source' = [source EXCEPT ![job.token] = row]
        /\ route' = [route EXCEPT ![job.token] = IF r \in Reviewer THEN "approval" ELSE "command"]
        /\ registering' = [registering EXCEPT ![r] = AfterSource(r, job.todo, job.token)]
    BY <1>4 DEF CreateSource
  <2>2. r \in Reviewer => row.name = CompanyOf[job.token]
    BY <1>0, <1>4
  <2>3. CompaniesStayApart'
    BY <2>1, <2>2 DEF BoardInv, RegistrationTyped, CompaniesStayApart
  <2>4. RegistrationTyped' /\ CompanyCarried'
    <3>1. registering' = [q \in Registrar |-> registering'[q]] /\ CompanyCarried'
      BY <2>1, AfterIsOther, OtherStep
    <3>2. source' = [t \in BoardToken |-> source'[t]]
      BY <2>1 DEF BoardInv, RegistrationTyped
    <3>3. route' \in [BoardToken -> {"none", "approval", "command"}]
      BY <2>1 DEF BoardInv, RegistrationTyped
    <3> QED BY <3>1, <3>2, <3>3 DEF RegistrationTyped
  <2> QED BY <1>1, <2>3, <2>4 DEF BoardInv
<1> QED BY <1>2, <1>3, <1>4

LEMMA EmployerIsTheCompany == \A name : EmployerFor(name).name = name
  BY DEF EmployerFor

\* The fetch ends the registration or goes on with the company's employer.
LEMMA FetchKeepsCompanies ==
  ASSUME BoardInv, NEW r \in Registrar, NEW t \in BoardToken, FetchForRegistration(r, t)
  PROVE  BoardInv'
<1> DEFINE todo == registering[r].todo \ {t}
           created == [step |-> "create", todo |-> todo, token |-> t,
                       employer |-> EmployerFor(CompanyOf[t]),
                       fresh |-> EmployerFor(CompanyOf[t]) \notin employers]
<1>0. UNCHANGED <<board, source, route, employers>>
  BY DEF FetchForRegistration
<1>1. PICK next \in {Rest(todo), AfterSource(r, todo, t), created} :
        registering' = [registering EXCEPT ![r] = next]
  BY DEF FetchForRegistration
<1>2. CASE next.step # "create"
  BY <1>0, <1>1, <1>2, OtherStep DEF BoardInv, BoardTyped, RegistrationTyped, CompaniesStayApart
<1>3. CASE next = created
  <2>1. created.employer.name = CompanyOf[created.token]
    BY EmployerIsTheCompany
  <2>2. registering' = [q \in Registrar |-> registering'[q]]
    BY <1>1 DEF BoardInv, RegistrationTyped
  <2>3. CompanyCarried'
    BY <1>1, <1>3, <2>1 DEF BoardInv, RegistrationTyped, CompanyCarried
  <2> QED BY <1>0, <2>2, <2>3 DEF BoardInv, BoardTyped, RegistrationTyped, CompaniesStayApart
<1> QED BY <1>1, <1>2, <1>3, RestIsOther, AfterIsOther

LEMMA BoardNextInv ==
  ASSUME BoardInv, [DiscoveryNext]_boardVars
  PROVE  BoardInv'
<1>1. ASSUME UNCHANGED <<source, route, registering>>, BoardTyped'
      PROVE  BoardInv'
  BY <1>1 DEF BoardInv, RegistrationTyped, CompanyCarried, CompaniesStayApart
<1>2. CASE UNCHANGED boardVars
  BY <1>1, <1>2 DEF boardVars, BoardInv, BoardTyped
<1>3. CASE SearchStep
  BY <1>1, <1>3 DEF SearchStep, StartSearch, QueueBoard, PassOverBoard, StopSearch, BoardInv, BoardTyped
<1>4. CASE \E r \in Reviewer, selected \in SUBSET BoardToken : Approve(r, selected)
  <2> PICK r \in Reviewer, selected \in SUBSET BoardToken : Approve(r, selected)
    BY <1>4
  <2> DEFINE next == [step |-> "next", todo |-> {t \in selected : board[t] = "pending"}]
  <2>1. registering' = [registering EXCEPT ![r] = next] /\ UNCHANGED <<board, source, route>>
    BY DEF Approve
  <2>2. r \in Registrar /\ next.step # "create"
    BY DEF Registrar
  <2> HIDE DEF next
  <2> QED BY <2>1, <2>2, OtherStep DEF BoardInv, BoardTyped, RegistrationTyped, CompaniesStayApart
<1>5. CASE \E t \in BoardToken : Reject(t)
  BY <1>1, <1>5 DEF Reject, BoardInv, BoardTyped
<1>6. CASE \E c \in Command, t \in BoardToken : AddJobSource(c, t)
  <2> PICK c \in Command, t \in BoardToken : AddJobSource(c, t)
    BY <1>6
  <2> DEFINE next == [step |-> "next", todo |-> {t}]
  <2>1. registering' = [registering EXCEPT ![c] = next] /\ UNCHANGED <<board, source, route>>
    BY DEF AddJobSource
  <2>2. c \in Registrar /\ next.step # "create"
    BY DEF Registrar
  <2> HIDE DEF next
  <2> QED BY <2>1, <2>2, OtherStep DEF BoardInv, BoardTyped, RegistrationTyped, CompaniesStayApart
<1>7. CASE \E r \in Registrar : RegistrarStep(r)
  <2> PICK r \in Registrar : RegistrarStep(r)
    BY <1>7
  <2>1. CASE \E t \in BoardToken : FetchForRegistration(r, t)
    BY <2>1, FetchKeepsCompanies
  <2>2. CASE CreateSource(r)
    BY <2>2, CreateKeepsCompanies
  <2>3. CASE MarkApproved(r)
    <3>1. BoardTyped' /\ UNCHANGED <<source, route>>
      BY <2>3 DEF MarkApproved, Marked, BoardInv, BoardTyped
    <3>2. registering' = [registering EXCEPT ![r] = Rest(registering[r].todo)]
      BY <2>3 DEF MarkApproved
    <3> QED BY <3>1, <3>2, RestIsOther, OtherStep DEF BoardInv, RegistrationTyped, CompaniesStayApart
  <2> QED BY <2>1, <2>2, <2>3 DEF RegistrarStep
<1> QED BY <1>2, <1>3, <1>4, <1>5, <1>6, <1>7 DEF DiscoveryNext

(* Whatever slugs collide and whoever registers at the same time, the jobs *)
(* of an approved board are listed under its own company.                  *)
THEOREM CompaniesApart == DiscoverySpec => []CompaniesStayApart
<1>1. BoardInv /\ [DiscoveryNext]_boardVars => BoardInv'
  BY BoardNextInv
<1> QED BY <1>1, BoardInitInv, PTL DEF DiscoverySpec, BoardInv

(* No step of a search, an approval, a rejection or a command undoes what  *)
(* a reviewer has decided.                                                 *)
THEOREM ReviewersDecide == DiscoverySpec => DecisionsStand
<1> DEFINE Stands == \A t \in BoardToken : board[t] \in {"approved", "rejected"} => board'[t] = board[t]
<1>1. BoardInv /\ [DiscoveryNext]_boardVars => BoardInv'
  BY BoardNextInv
<1>2. BoardInv /\ [DiscoveryNext]_boardVars => [Stands]_boardVars
  <2> SUFFICES ASSUME BoardTyped, DiscoveryNext
               PROVE  Stands
    BY DEF BoardInv
  <2>1. CASE UNCHANGED board
    BY <2>1
  <2>2. CASE QueueBoard \/ \E t \in BoardToken : Reject(t)
    BY <2>2 DEF QueueBoard, Reject, BoardTyped
  <2>3. CASE \E r \in Registrar : MarkApproved(r)
    BY <2>3 DEF MarkApproved, Marked, BoardTyped
  <2> QED BY <2>1, <2>2, <2>3
       DEF DiscoveryNext, SearchStep, StartSearch, PassOverBoard, StopSearch, Approve, AddJobSource,
           RegistrarStep, FetchForRegistration, CreateSource
<1>3. DiscoverySpec => [][Stands]_boardVars
  BY <1>1, <1>2, BoardInitInv, PTL DEF DiscoverySpec
<1> QED BY <1>3 DEF DecisionsStand

(***************************************************************************)
(* The types of a discovery.  The one that is not obvious is the slug's: a *)
(* company whose slug is taken gets the first number that is free, so that *)
(* the slugs in use are 1 .. n.  n is never more than the number of boards *)
(* with a source: a command that loses a race creates an employer without  *)
(* a source, but then the board it came too late for has used an employer  *)
(* that was there before, and such a board is paid for by no employer.     *)
(***************************************************************************)
Creating(rs) == {r \in Registrar : rs[r].step = "create"}

Sourced(src) == {t \in BoardToken : src[t] # NoSource}

\* Boards whose source came first, while someone is about to create an
\* employer with the slug that is next.
Unpaid(emps, src, rs) ==
  {t \in Sourced(src) : \E r \in Creating(rs) :
     rs[r].token = t /\ rs[r].fresh /\ rs[r].employer.slug = Cardinality(emps) + 1}

SlugsInUse(emps) ==
  /\ IsFiniteSet(emps) /\ {e.slug : e \in emps} = 1 .. Cardinality(emps)
  /\ \A e, f \in emps : e.slug = f.slug => e = f

SlugsSuffice(emps, src, rs) ==
  /\ SlugsInUse(emps)
  /\ \A r \in Creating(rs) : rs[r].fresh => rs[r].employer.slug \in 1 .. Cardinality(emps) + 1
  /\ \A r \in Creating(rs) : ~rs[r].fresh => rs[r].employer \in emps
  /\ Cardinality(emps) + Cardinality(Unpaid(emps, src, rs)) <= Cardinality(Sourced(src))

DiscoveryInv == DiscoveryTypeOK /\ SlugsSuffice(employers, source, registering)

\* The list of boards is finite, and so is all that is counted.
LEMMA BoardsAreFinite ==
  /\ IsFiniteSet(BoardToken) /\ Cardinality(BoardToken) \in Nat
  /\ \A some \in SUBSET BoardToken :
       IsFiniteSet(some) /\ Cardinality(some) \in Nat /\ Cardinality(some) <= Cardinality(BoardToken)
<1>1. DOMAIN BoardList = 1 .. Len(BoardList) /\ Len(BoardList) \in Nat
  BY DiscoveryAssumption
<1>2. IsFiniteSet(1 .. Len(BoardList))
  BY <1>1, FS_Interval
<1>3. IsFiniteSet({BoardList[i] : i \in 1 .. Len(BoardList)})
  BY <1>2, ImageIsFinite
<1>4. IsFiniteSet(BoardToken)
  BY <1>1, <1>3 DEF BoardToken
<1> QED BY <1>4, FS_Subset, FS_CardinalityType

LEMMA SourcedCounted ==
  ASSUME NEW emps, NEW src, NEW rs
  PROVE  /\ IsFiniteSet(Sourced(src)) /\ Cardinality(Sourced(src)) \in Nat
         /\ Cardinality(Sourced(src)) <= Cardinality(BoardToken)
         /\ IsFiniteSet(Unpaid(emps, src, rs)) /\ Cardinality(Unpaid(emps, src, rs)) \in Nat
<1>1. Sourced(src) \in SUBSET BoardToken /\ Unpaid(emps, src, rs) \in SUBSET BoardToken
  BY DEF Sourced, Unpaid
<1> QED BY <1>1, BoardsAreFinite

\* The next slug is one of the slugs.
LEMMA NextSlug ==
  ASSUME NEW emps, NEW src, NEW rs, SlugsSuffice(emps, src, rs)
  PROVE  /\ Cardinality(emps) \in Nat /\ Cardinality(emps) + 1 \in Slug
         /\ Cardinality(emps) <= Cardinality(Sourced(src))
<1>1. Cardinality(emps) \in Nat
  BY FS_CardinalityType DEF SlugsSuffice, SlugsInUse
<1>2. Cardinality(emps) <= Cardinality(Sourced(src))
  BY <1>1, SourcedCounted DEF SlugsSuffice
<1> QED BY <1>1, <1>2, SourcedCounted, BoardsAreFinite DEF Slug

\* A registrar goes on to something else, perhaps with the source of one more
\* board, under an employer that is there.
LEMMA MoveSuffices ==
  ASSUME NEW emps, NEW src, NEW rs, SlugsSuffice(emps, src, rs),
         NEW src2, NEW rs2, Creating(rs2) \subseteq Creating(rs),
         \A r \in Creating(rs2) : rs2[r] = rs[r],
         \/ src2 = src
         \/ \E t \in BoardToken : src[t] = NoSource /\ Sourced(src2) = Sourced(src) \cup {t}
  PROVE  SlugsSuffice(emps, src2, rs2)
<1>1. SlugsSuffice(emps, src, rs)
  OBVIOUS
<1>2. Cardinality(emps) \in Nat
  BY NextSlug
<1>3. CASE src2 = src
  <2>1. Unpaid(emps, src2, rs2) \subseteq Unpaid(emps, src, rs)
    BY <1>3 DEF Unpaid
  <2>2. Cardinality(Unpaid(emps, src2, rs2)) <= Cardinality(Unpaid(emps, src, rs))
    BY <2>1, SourcedCounted, FS_Subset
  <2>3. Cardinality(emps) + Cardinality(Unpaid(emps, src2, rs2)) <= Cardinality(Sourced(src2))
    <3> HIDE DEF Sourced
    <3>1. Cardinality(emps) + Cardinality(Unpaid(emps, src, rs)) <= Cardinality(Sourced(src))
      BY <1>1 DEF SlugsSuffice
    <3>2. /\ Cardinality(Unpaid(emps, src, rs)) \in Nat /\ Cardinality(Sourced(src)) \in Nat
          /\ Cardinality(Unpaid(emps, src2, rs2)) \in Nat
      BY SourcedCounted
    <3> QED BY <1>2, <1>3, <2>2, <3>1, <3>2
  <2> QED BY <1>1, <2>3 DEF SlugsSuffice
<1>4. ASSUME NEW t \in BoardToken, src[t] = NoSource, Sourced(src2) = Sourced(src) \cup {t}
      PROVE  SlugsSuffice(emps, src2, rs2)
  <2>1. Unpaid(emps, src2, rs2) \subseteq Unpaid(emps, src, rs) \cup {t}
    BY <1>4 DEF Unpaid
  <2>2. t \notin Sourced(src)
    BY <1>4 DEF Sourced
  <2>3. Cardinality(Sourced(src2)) = Cardinality(Sourced(src)) + 1
    BY <1>4, <2>2, SourcedCounted, FS_AddElement
  <2>4. t \notin Unpaid(emps, src, rs)
    BY <2>2 DEF Unpaid
  <2>5. /\ IsFiniteSet(Unpaid(emps, src, rs) \cup {t})
        /\ Cardinality(Unpaid(emps, src, rs) \cup {t}) = Cardinality(Unpaid(emps, src, rs)) + 1
    BY <2>4, SourcedCounted, FS_AddElement
  <2>6. Cardinality(Unpaid(emps, src2, rs2)) <= Cardinality(Unpaid(emps, src, rs)) + 1
    BY <2>1, <2>5, FS_Subset
  <2>7. Cardinality(emps) + Cardinality(Unpaid(emps, src2, rs2)) <= Cardinality(Sourced(src2))
    <3>1. Cardinality(emps) + Cardinality(Unpaid(emps, src, rs)) <= Cardinality(Sourced(src))
      BY <1>1 DEF SlugsSuffice
    <3>2. /\ Cardinality(Unpaid(emps, src, rs)) \in Nat /\ Cardinality(Sourced(src)) \in Nat
          /\ Cardinality(Unpaid(emps, src2, rs2)) \in Nat
      BY SourcedCounted
    <3> QED BY <1>2, <2>3, <2>6, <3>1, <3>2
  <2> QED BY <1>1, <2>7 DEF SlugsSuffice
<1> QED BY <1>3, <1>4

\* An employer with the next slug is created, for a board that has no source
\* yet or that is unpaid.
LEMMA NewSlugSuffices ==
  ASSUME NEW emps, NEW src, NEW rs, SlugsSuffice(emps, src, rs),
         NEW row, row.slug = Cardinality(emps) + 1,
         NEW src2, NEW rs2, Creating(rs2) \subseteq Creating(rs),
         \A r \in Creating(rs2) : rs2[r] = rs[r],
         NEW t \in BoardToken,
         \/ src[t] = NoSource /\ Sourced(src2) = Sourced(src) \cup {t}
         \/ t \in Unpaid(emps, src, rs) /\ src2 = src
  PROVE  SlugsSuffice(emps \cup {row}, src2, rs2)
<1> DEFINE n == Cardinality(emps)
<1>1. SlugsSuffice(emps, src, rs)
  OBVIOUS
<1>2. n \in Nat /\ n <= Cardinality(Sourced(src)) /\ IsFiniteSet(emps)
  BY NextSlug DEF SlugsSuffice, SlugsInUse
<1>3. \A e \in emps : e.slug \in 1 .. n
  BY <1>1 DEF SlugsSuffice, SlugsInUse
<1>4. row \notin emps
  BY <1>2, <1>3
<1>5. IsFiniteSet(emps \cup {row}) /\ Cardinality(emps \cup {row}) = n + 1
  BY <1>2, <1>4, FS_AddElement
<1>6. SlugsInUse(emps \cup {row})
  <2>1. {e.slug : e \in emps} = 1 .. n
    BY <1>1 DEF SlugsSuffice, SlugsInUse
  <2>2. {e.slug : e \in emps \cup {row}} = (1 .. n) \cup {n + 1}
    BY <2>1
  <2>3. (1 .. n) \cup {n + 1} = 1 .. n + 1
    BY <1>2
  <2>4. \A e, f \in emps \cup {row} : e.slug = f.slug => e = f
    <3>1. \A e \in emps : e.slug # row.slug
      BY <1>2, <1>3
    <3>2. \A e, f \in emps : e.slug = f.slug => e = f
      BY <1>1 DEF SlugsSuffice, SlugsInUse
    <3> QED BY <3>1, <3>2
  <2> QED BY <1>5, <2>2, <2>3, <2>4 DEF SlugsInUse
<1>7. \A r \in Creating(rs2) : rs2[r].fresh => rs2[r].employer.slug \in 1 .. n + 1
  BY <1>1 DEF SlugsSuffice
<1>8. Unpaid(emps \cup {row}, src2, rs2) = {}
  <2>1. \A r \in Creating(rs2) : rs2[r].fresh => rs2[r].employer.slug # n + 1 + 1
    <3> SUFFICES ASSUME NEW r \in Creating(rs2), rs2[r].fresh, rs2[r].employer.slug = n + 1 + 1
                 PROVE  FALSE
      OBVIOUS
    <3>1. rs2[r].employer.slug \in 1 .. n + 1
      BY <1>7
    <3> QED BY <1>2, <3>1
  <2> HIDE DEF n
  <2> QED BY <1>5, <2>1 DEF Unpaid
<1>9. Cardinality(Unpaid(emps \cup {row}, src2, rs2)) = 0
  BY <1>8, FS_EmptySet
<1>10. n + 1 <= Cardinality(Sourced(src2))
  <2>1. CASE src[t] = NoSource /\ Sourced(src2) = Sourced(src) \cup {t}
    <3>1. t \notin Sourced(src)
      BY <2>1 DEF Sourced
    <3>2. Cardinality(Sourced(src2)) = Cardinality(Sourced(src)) + 1
      BY <2>1, <3>1, SourcedCounted, FS_AddElement
    <3>3. Cardinality(Sourced(src)) \in Nat
      BY SourcedCounted
    <3> HIDE DEF n
    <3> QED BY <1>2, <3>2, <3>3
  <2>2. CASE t \in Unpaid(emps, src, rs) /\ src2 = src
    <3>1. Cardinality(Unpaid(emps, src, rs)) # 0
      BY <2>2, SourcedCounted, FS_EmptySet
    <3>2. n + Cardinality(Unpaid(emps, src, rs)) <= Cardinality(Sourced(src))
      BY <1>1 DEF SlugsSuffice
    <3>3. Cardinality(Sourced(src)) \in Nat /\ Cardinality(Unpaid(emps, src, rs)) \in Nat
      BY SourcedCounted
    <3> HIDE DEF n
    <3> QED BY <1>2, <2>2, <3>1, <3>2, <3>3
  <2> QED BY <2>1, <2>2
<1>11. \A r \in Creating(rs2) : /\ rs2[r].fresh => rs2[r].employer.slug \in 1 .. n + 1 + 1
                                /\ ~rs2[r].fresh => rs2[r].employer \in emps \cup {row}
  <2>1. \A r \in Creating(rs2) : ~rs2[r].fresh => rs2[r].employer \in emps
    BY <1>1 DEF SlugsSuffice
  <2>2. 1 .. n + 1 \subseteq 1 .. n + 1 + 1
    BY <1>2
  <2> QED BY <1>7, <2>1, <2>2
<1> HIDE DEF n
<1>12. n + 1 + 0 <= Cardinality(Sourced(src2))
  BY <1>2, <1>10
<1> QED BY <1>5, <1>6, <1>9, <1>11, <1>12 DEF SlugsSuffice

\* The boards a search goes through are boards of the list.
LEMMA NewBoardsTyped == NewBoards \in Seq(BoardToken)
<1> DEFINE n == Len(BoardList)
           Lists == Seq(BoardToken)
           Next1(before, i) == IF NewBoard(BoardList[i]) THEN Append(before, BoardList[i]) ELSE before
           step == [i \in 1 .. n |-> [before \in Lists |-> Next1(before, i)]]
           Upto(f) == [i \in 0 .. n |-> IF i = 0 THEN <<>> ELSE Next1(f[i - 1], i)]
<1>0. n \in Nat /\ \A i \in 1 .. n : BoardList[i] \in BoardToken
  BY DiscoveryAssumption
<1>1. \A before \in Lists, i \in 1 .. n : Next1(before, i) \in Lists
  BY <1>0
<1>2. step \in Steps(Lists, n)
  <2> HIDE DEF Next1
  <2> QED BY <1>1 DEF Steps
<1>3. <<>> \in Lists
  OBVIOUS
<1> HIDE DEF Lists
<1>4. PICK f \in [0 .. n -> Lists] :
        f[0] = <<>> /\ \A i \in 1 .. n : f[i] = step[i][f[i - 1]]
  <2> HIDE DEF step, n
  <2>1. Runs(Lists, n, <<>>, step) # {}
    BY <1>0, <1>2, <1>3, StepsReach
  <2> QED BY <2>1 DEF Runs
<1>5. \A i \in 1 .. n : f[i] = Next1(f[i - 1], i)
  <2> SUFFICES ASSUME NEW i \in 1 .. n PROVE step[i][f[i - 1]] = Next1(f[i - 1], i)
    BY <1>4
  <2>1. f[i - 1] \in Lists
    BY <1>0
  <2> QED BY <2>1
<1>6. f = Upto(f)
  <2> SUFFICES \A i \in 0 .. n : f[i] = Upto(f)[i]
    OBVIOUS
  <2>1. f[0] = Upto(f)[0]
    <3>1. 0 \in 0 .. n
      BY <1>0
    <3>2. Upto(f)[0] = <<>>
      BY <3>1, Zenon
    <3> QED BY <3>2, <1>4, Zenon
  <2>2. \A i \in 1 .. n : f[i] = Upto(f)[i]
    BY <1>0, <1>5
  <2>3. \A i \in 0 .. n : i = 0 \/ i \in 1 .. n
    BY <1>0
  <2> HIDE DEF Upto, n
  <2> QED BY <2>1, <2>2, <2>3
<1>7. ASSUME NEW g, g = Upto(g)
      PROVE  g[n] \in Lists
  <2>0. ASSUME NEW i \in 1 .. n PROVE g[i] = Next1(g[i - 1], i)
    <3> HIDE DEF Next1
    <3>1. i \in 0 .. n /\ i # 0
      BY <1>0
    <3>2. Upto(g)[i] = Next1(g[i - 1], i)
      BY <3>1, Zenon
    <3> HIDE DEF Upto
    <3> QED BY <1>7, <3>2
  <2> DEFINE good == {k \in Nat : k <= n => g[k] \in Lists}
  <2>1. 0 \in good
    BY <1>3, <1>7
  <2>2. ASSUME NEW k \in Nat, k \in good PROVE k + 1 \in good
    <3> SUFFICES ASSUME k + 1 <= n PROVE g[k + 1] \in Lists
      OBVIOUS
    <3>1. g[k] \in Lists /\ k + 1 \in 1 .. n
      BY <1>0, <2>2
    <3>2. g[k + 1] = Next1(g[k], k + 1)
      <4> HIDE DEF Next1
      <4>1. k + 1 - 1 = k
        OBVIOUS
      <4> QED BY <2>0, <3>1, <4>1
    <3> HIDE DEF Next1
    <3> QED BY <3>1, <3>2, <1>1
  <2>3. n \in good
    <3> HIDE DEF good
    <3> QED BY <1>0, <2>1, <2>2, AllNaturals
  <2> QED BY <2>3, <1>0
<1>8. NewBoards = (CHOOSE g : g = Upto(g))[n]
  BY DEF NewBoards
<1>9. (CHOOSE g : g = Upto(g)) = Upto(CHOOSE g : g = Upto(g))
  <2> HIDE DEF Upto
  <2> QED BY <1>6
<1> HIDE DEF Upto, n
<1>10. NewBoards \in Lists
  BY <1>7, <1>8, <1>9
<1> QED BY <1>10 DEF Lists

\* The row of a company is one that fits.
LEMMA EmployerFits ==
  ASSUME DiscoveryInv, NEW t \in BoardToken
  PROVE  LET row == EmployerFor(CompanyOf[t]) IN
         /\ row \in EmployerRow
         /\ row \notin employers => row.slug \in 1 .. Cardinality(employers) + 1
<1> DEFINE name == CompanyOf[t]
           n == Cardinality(employers)
           row == EmployerFor(name)
           Free(k) == /\ RowWithSlug(k) = {}
                      /\ \A m \in 2 .. k - 1 : RowWithSlug(m) # {}
<1>1. /\ n \in Nat /\ n + 1 \in Slug /\ 1 \in Slug
      /\ {e.slug : e \in employers} = 1 .. n
  BY NextSlug, BoardsAreFinite DEF DiscoveryInv, SlugsSuffice, SlugsInUse, Slug
<1>2. \A k \in 1 .. n : RowWithSlug(k) # {}
  BY <1>1 DEF RowWithSlug
<1>3. RowWithSlug(n + 1) = {}
  <2>1. n + 1 \notin 1 .. n
    BY <1>1
  <2> QED BY <1>1, <2>1 DEF RowWithSlug
<1>4. name \in {CompanyOf[u] : u \in BoardToken}
  OBVIOUS
<1>5. CASE RowWithSlug(1) = {} \/ [slug |-> 1, name |-> name] \in employers
  <2>1. row = [slug |-> 1, name |-> name]
    BY <1>5 DEF EmployerFor
  <2> HIDE DEF row, name, n
  <2>2. row \in EmployerRow
    BY <1>1, <1>4, <2>1 DEF EmployerRow
  <2>3. row.slug = 1
    BY <2>1
  <2> QED BY <1>1, <2>2, <2>3 DEF row, name, n
<1>6. CASE RowWithSlug(1) # {} /\ [slug |-> 1, name |-> name] \notin employers
  <2>1. row = [slug |-> CHOOSE k \in Slug \ {1} : Free(k), name |-> name]
    BY <1>6 DEF EmployerFor
  <2>2. n + 1 # 1
    <3>1. n # 0
      <4> SUFFICES ASSUME n = 0 PROVE FALSE
        OBVIOUS
      <4>1. RowWithSlug(1) = {}
        BY <1>1, <1>3
      <4> QED BY <1>6, <4>1
    <3> HIDE DEF n
    <3> QED BY <1>1, <3>1
  <2>3. \E k \in Slug \ {1} : Free(k)
    <3>1. PICK k \in Slug \ {1} : k = n + 1
      BY <1>1, <2>2
    <3>2. RowWithSlug(k) = {}
      BY <1>3, <3>1
    <3>3. \A m \in 2 .. k - 1 : m \in 1 .. n
      BY <1>1, <3>1
    <3>4. \A m \in 2 .. k - 1 : RowWithSlug(m) # {}
      BY <1>2, <3>3
    <3> HIDE DEF n
    <3> QED BY <3>2, <3>4
  <2>4. (CHOOSE k \in Slug \ {1} : Free(k)) \in Slug \ {1} /\ Free(CHOOSE k \in Slug \ {1} : Free(k))
    <3> HIDE DEF Free, n
    <3> QED BY <2>3
  <2>5. ASSUME NEW k \in Slug \ {1}, Free(k)
        PROVE  k = n + 1
    <3>1. k \in Nat /\ k >= 2
      BY BoardsAreFinite DEF Slug
    <3>2. k \notin 1 .. n
      BY <1>2, <2>5
    <3>3. k > n + 1 => n + 1 \in 2 .. k - 1
      BY <1>1, <2>2, <3>1
    <3>4. ~(k > n + 1)
      BY <1>3, <2>5, <3>3
    <3> HIDE DEF n
    <3> QED BY <1>1, <3>1, <3>2, <3>4
  <2>6. (CHOOSE k \in Slug \ {1} : Free(k)) = n + 1
    <3> HIDE DEF Free, n
    <3> QED BY <2>4, <2>5
  <2>7. row = [slug |-> n + 1, name |-> name]
    BY <2>1, <2>6
  <2> HIDE DEF row, name, n
  <2>8. row \in EmployerRow
    BY <1>1, <1>4, <2>7 DEF EmployerRow
  <2>9. row.slug = n + 1
    BY <2>7
  <2> QED BY <1>1, <2>8, <2>9 DEF row, name, n
<1> QED BY <1>5, <1>6

\* What a registrar is doing.
LEMMA RegistrationsByStep ==
  ASSUME DiscoveryTypeOK, NEW r \in Registrar
  PROVE  /\ registering[r].step = "next" => registering[r].todo \in SUBSET BoardToken
         /\ registering[r].step = "create" =>
              registering[r] \in [step : {"create"}, todo : SUBSET BoardToken, token : BoardToken,
                                  employer : EmployerRow, fresh : BOOLEAN]
         /\ registering[r].step = "mark" =>
              registering[r].todo \in SUBSET BoardToken /\ registering[r].token \in BoardToken
<1>1. registering[r] \in Registrations
  BY DEF DiscoveryTypeOK
<1> QED BY <1>1 DEF Registrations, IdleRegistrar

LEMMA OtherRegistrations ==
  ASSUME NEW r \in Registrar, NEW todo \in SUBSET BoardToken, NEW t \in BoardToken
  PROVE  /\ IdleRegistrar \in Registrations /\ IdleRegistrar.step # "create"
         /\ [step |-> "next", todo |-> todo] \in Registrations
         /\ Rest(todo) \in Registrations /\ Rest(todo).step # "create"
         /\ AfterSource(r, todo, t) \in Registrations /\ AfterSource(r, todo, t).step # "create"
<1>1. IdleRegistrar \in Registrations /\ IdleRegistrar.step # "create"
  BY DEF IdleRegistrar, Registrations
<1>2. [step |-> "next", todo |-> todo] \in Registrations
  BY DEF Registrations
<1>3. Rest(todo) \in Registrations /\ Rest(todo).step # "create"
  BY <1>1, <1>2 DEF Rest
<1>4. AfterSource(r, todo, t) \in Registrations /\ AfterSource(r, todo, t).step # "create"
  BY <1>3 DEF AfterSource, Registrations
<1> QED BY <1>1, <1>2, <1>3, <1>4

\* A registrar that is set to a step other than creating.
LEMMA StepElsewhere ==
  ASSUME DiscoveryTypeOK, NEW r \in Registrar, NEW next \in Registrations, next.step # "create",
         registering' = [registering EXCEPT ![r] = next]
  PROVE  /\ registering' \in [Registrar -> Registrations]
         /\ Creating(registering') \subseteq Creating(registering)
         /\ \A q \in Creating(registering') : registering'[q] = registering[q]
BY DEF DiscoveryTypeOK, Creating

LEMMA CreateSourceTyped ==
  ASSUME DiscoveryInv, NEW r \in Registrar, CreateSource(r)
  PROVE  DiscoveryInv'
<1> DEFINE job == registering[r]
           taken == RowWithSlug(job.employer.slug)
           lost == job.fresh /\ taken # {}
           row == IF lost THEN CHOOSE e \in taken : TRUE ELSE job.employer
           n == Cardinality(employers)
<1>0. DiscoveryTypeOK /\ SlugsSuffice(employers, source, registering)
  BY DEF DiscoveryInv
<1>1. /\ job.step = "create" /\ job.todo \in SUBSET BoardToken /\ job.token \in BoardToken
      /\ job.employer \in EmployerRow /\ job.fresh \in BOOLEAN /\ r \in Creating(registering)
      /\ UNCHANGED <<board, searching, boardFaults>>
  <2>1. job.step = "create"
    BY DEF CreateSource
  <2>2. registering[r] \in [step : {"create"}, todo : SUBSET BoardToken, token : BoardToken,
                            employer : EmployerRow, fresh : BOOLEAN]
    BY <1>0, <2>1, RegistrationsByStep
  <2> QED BY <2>1, <2>2 DEF Creating, CreateSource
<1>2. /\ IdleRegistrar \in Registrations /\ IdleRegistrar.step # "create"
      /\ Rest(job.todo) \in Registrations /\ Rest(job.todo).step # "create"
      /\ AfterSource(r, job.todo, job.token) \in Registrations
      /\ AfterSource(r, job.todo, job.token).step # "create"
  BY <1>1, OtherRegistrations
<1>3. n \in Nat /\ {e.slug : e \in employers} = 1 .. n
  BY <1>0, NextSlug DEF SlugsSuffice, SlugsInUse
<1>4. row \in EmployerRow /\ (row \in employers \/ (row.slug = n + 1 /\ job.fresh /\ row = job.employer))
  <2>1. CASE lost
    <3>1. taken \subseteq employers
      BY DEF RowWithSlug
    <3>2. row \in taken
      BY <2>1
    <3> HIDE DEF row, taken
    <3> QED BY <1>0, <3>1, <3>2 DEF DiscoveryTypeOK
  <2>2. CASE ~job.fresh
    <3>1. row = job.employer
      BY <2>2
    <3>2. job.employer \in employers
      BY <1>0, <1>1, <2>2 DEF SlugsSuffice
    <3> HIDE DEF row
    <3> QED BY <1>1, <3>1, <3>2
  <2>3. CASE job.fresh /\ taken = {}
    <3>1. row = job.employer
      BY <2>3
    <3>2. job.employer.slug \in 1 .. n + 1
      BY <1>0, <1>1, <2>3 DEF SlugsSuffice
    <3>3. job.employer.slug \notin {e.slug : e \in employers}
      BY <2>3 DEF RowWithSlug
    <3> HIDE DEF row, n
    <3> QED BY <1>1, <1>3, <2>3, <3>1, <3>2, <3>3
  <2> QED BY <2>1, <2>2, <2>3
<1>5. PICK next \in {IdleRegistrar, Rest(job.todo), AfterSource(r, job.todo, job.token)} :
        /\ registering' = [registering EXCEPT ![r] = next]
        /\ \/ UNCHANGED <<source, route, employers>>
           \/ /\ source[job.token] # NoSource /\ UNCHANGED <<source, route>>
              /\ employers' \in {employers, employers \cup {row}}
           \/ /\ source[job.token] = NoSource
              /\ employers' = employers \cup {row}
              /\ source' = [source EXCEPT ![job.token] = row]
              /\ route' = [route EXCEPT ![job.token] = IF r \in Reviewer THEN "approval" ELSE "command"]
  <2>1. CASE lost /\ r \in Reviewer
    <3>1. registering' = [registering EXCEPT ![r] = IdleRegistrar] /\ UNCHANGED <<source, route, employers>>
      BY <2>1 DEF CreateSource
    <3> HIDE DEF row, taken, lost
    <3> QED BY <3>1
  <2>2. CASE ~(lost /\ r \in Reviewer) /\ source[job.token] # NoSource
    <3>1. /\ registering' = [registering EXCEPT ![r] = Rest(job.todo)]
          /\ employers' = IF r \in Command THEN employers \cup {row} ELSE employers
          /\ UNCHANGED <<source, route>>
      BY <2>2 DEF CreateSource
    <3> HIDE DEF row, taken, lost
    <3> QED BY <2>2, <3>1
  <2>3. CASE ~(lost /\ r \in Reviewer) /\ ~(source[job.token] # NoSource)
    <3>1. /\ employers' = employers \cup {row}
          /\ source' = [source EXCEPT ![job.token] = row]
          /\ route' = [route EXCEPT ![job.token] = IF r \in Reviewer THEN "approval" ELSE "command"]
          /\ registering' = [registering EXCEPT ![r] = AfterSource(r, job.todo, job.token)]
      BY <2>3 DEF CreateSource
    <3> HIDE DEF row, taken, lost
    <3> QED BY <2>3, <3>1
  <2> QED BY <2>1, <2>2, <2>3
<1>6. /\ registering' \in [Registrar -> Registrations]
      /\ Creating(registering') \subseteq Creating(registering)
      /\ \A q \in Creating(registering') : registering'[q] = registering[q]
  <2>1. next \in Registrations /\ next.step # "create"
    BY <1>2, <1>5
  <2>2. registering' = [registering EXCEPT ![r] = next]
    BY <1>5
  <2> QED BY <1>0, <2>1, <2>2, StepElsewhere
<1> HIDE DEF row, taken, lost
<1>7. DiscoveryTypeOK'
  <2>1. /\ source' \in [BoardToken -> EmployerRow \cup {NoSource}]
        /\ route' \in [BoardToken -> {"none", "approval", "command"}]
        /\ employers' \subseteq EmployerRow
    BY <1>0, <1>1, <1>4, <1>5 DEF DiscoveryTypeOK
  <2> QED BY <1>0, <1>1, <1>6, <2>1 DEF DiscoveryTypeOK
<1>8. CASE employers' = employers /\ source' = source
  BY <1>0, <1>6, <1>7, <1>8, MoveSuffices DEF DiscoveryInv
<1>9. ASSUME source[job.token] = NoSource, source' = [source EXCEPT ![job.token] = row]
      PROVE  Sourced(source') = Sourced(source) \cup {job.token}
  <2>1. source \in [BoardToken -> EmployerRow \cup {NoSource}] /\ row # NoSource
    BY <1>0, <1>4, DiscoveryAssumption DEF DiscoveryTypeOK
  <2> QED BY <1>1, <1>9, <2>1 DEF Sourced
<1>10. CASE /\ employers' = employers \cup {row} /\ source[job.token] = NoSource
            /\ source' = [source EXCEPT ![job.token] = row]
  <2>1. Sourced(source') = Sourced(source) \cup {job.token}
    BY <1>9, <1>10
  <2>2. CASE row \in employers
    <3>1. employers' = employers
      BY <1>10, <2>2
    <3>2. SlugsSuffice(employers, source', registering')
      BY <1>0, <1>1, <1>6, <1>10, <2>1, MoveSuffices
    <3> QED BY <1>7, <3>1, <3>2 DEF DiscoveryInv
  <2>3. CASE row.slug = n + 1
    <3>1. SlugsSuffice(employers \cup {row}, source', registering')
      <4>1. row.slug = Cardinality(employers) + 1
        BY <2>3
      <4>2. source[job.token] = NoSource /\ job.token \in BoardToken
        BY <1>1, <1>10
      <4> HIDE DEF job, n
      <4> QED BY <1>0, <1>6, <2>1, <4>1, <4>2, NewSlugSuffices
    <3> QED BY <1>7, <1>10, <3>1 DEF DiscoveryInv
  <2> QED BY <1>4, <2>2, <2>3
<1>11. CASE employers' = employers \cup {row} /\ source[job.token] # NoSource /\ source' = source
  <2>1. CASE row \in employers
    <3>1. employers' = employers
      BY <1>11, <2>1
    <3> QED BY <1>8, <1>11, <3>1
  <2>2. CASE row.slug = n + 1 /\ job.fresh /\ row = job.employer
    <3>1. job.token \in Unpaid(employers, source, registering)
      BY <1>1, <1>11, <2>2 DEF Unpaid, Sourced
    <3>2. SlugsSuffice(employers \cup {row}, source', registering')
      <4>1. row.slug = Cardinality(employers) + 1 /\ source' = source
        BY <1>11, <2>2
      <4>2. job.token \in BoardToken
        BY <1>1
      <4> HIDE DEF job, n
      <4> QED BY <1>0, <1>6, <3>1, <4>1, <4>2, NewSlugSuffices
    <3> QED BY <1>7, <1>11, <3>2 DEF DiscoveryInv
  <2> QED BY <1>4, <2>1, <2>2
<1> QED BY <1>5, <1>8, <1>10, <1>11

LEMMA FetchForRegistrationTyped ==
  ASSUME DiscoveryInv, NEW r \in Registrar, NEW t \in BoardToken, FetchForRegistration(r, t)
  PROVE  DiscoveryInv'
<1> DEFINE todo == registering[r].todo \ {t}
           row == EmployerFor(CompanyOf[t])
<1>0. DiscoveryTypeOK /\ SlugsSuffice(employers, source, registering)
  BY DEF DiscoveryInv
<1>1. /\ todo \in SUBSET BoardToken /\ registering[r].step = "next"
      /\ UNCHANGED <<board, source, route, employers, searching>>
  BY <1>0, RegistrationsByStep DEF FetchForRegistration
<1>2. boardFaults' \in 0 .. MaxBoardFaults
  BY <1>0, DiscoveryAssumption DEF FetchForRegistration, Fault, DiscoveryTypeOK
<1>3. ASSUME NEW next \in Registrations, next.step # "create",
             registering' = [registering EXCEPT ![r] = next]
      PROVE  DiscoveryInv'
  <2>1. /\ registering' \in [Registrar -> Registrations]
        /\ Creating(registering') \subseteq Creating(registering)
        /\ \A q \in Creating(registering') : registering'[q] = registering[q]
    BY <1>0, <1>3, StepElsewhere
  <2>2. SlugsSuffice(employers, source, registering')
    BY <1>0, <2>1, MoveSuffices
  <2> QED BY <1>0, <1>1, <1>2, <2>1, <2>2 DEF DiscoveryInv, DiscoveryTypeOK
<1>4. /\ Rest(todo) \in Registrations /\ Rest(todo).step # "create"
      /\ AfterSource(r, todo, t) \in Registrations /\ AfterSource(r, todo, t).step # "create"
  BY <1>1, OtherRegistrations
<1>5. CASE registering' = [registering EXCEPT ![r] = Rest(todo)]
           \/ registering' = [registering EXCEPT ![r] = AfterSource(r, todo, t)]
  <2> HIDE DEF todo
  <2> QED BY <1>3, <1>4, <1>5
<1>6. CASE source[t] = NoSource /\ registering' = [registering EXCEPT ![r] =
             [step |-> "create", todo |-> todo, token |-> t, employer |-> row,
              fresh |-> row \notin employers]]
  <2>1. PICK new \in BOOLEAN : new = (row \notin employers)
    OBVIOUS
  <2> DEFINE next == [step |-> "create", todo |-> todo, token |-> t, employer |-> row, fresh |-> new]
  <2>2. registering' = [registering EXCEPT ![r] = next]
    BY <1>6, <2>1, Zenon
  <2>3. /\ row \in EmployerRow
        /\ row \notin employers => row.slug \in 1 .. Cardinality(employers) + 1
    BY EmployerFits
  <2>4. next \in Registrations
    <3> HIDE DEF row, todo
    <3> QED BY <1>1, <2>3 DEF Registrations
  <2>5. /\ next.token = t /\ next.employer = row /\ next.fresh = new /\ next.step = "create"
    OBVIOUS
  <2> HIDE DEF next, row
  <2>6. registering' \in [Registrar -> Registrations]
    BY <1>0, <2>2, <2>4 DEF DiscoveryTypeOK
  <2>7. \A q \in Registrar : registering'[q] = IF q = r THEN next ELSE registering[q]
    BY <1>0, <2>2 DEF DiscoveryTypeOK
  <2>8. Unpaid(employers, source, registering') \subseteq Unpaid(employers, source, registering)
    <3> SUFFICES ASSUME NEW u \in Unpaid(employers, source, registering')
                 PROVE  u \in Unpaid(employers, source, registering)
      OBVIOUS
    <3>1. PICK q \in Creating(registering') :
            /\ registering'[q].token = u /\ registering'[q].fresh
            /\ registering'[q].employer.slug = Cardinality(employers) + 1
      BY DEF Unpaid
    <3>2. u \in Sourced(source)
      BY DEF Unpaid
    <3>3. q # r
      BY <1>6, <2>5, <2>7, <3>1, <3>2 DEF Sourced, Creating
    <3>4. q \in Creating(registering) /\ registering'[q] = registering[q]
      BY <2>7, <3>1, <3>3 DEF Creating
    <3> QED BY <3>1, <3>2, <3>4 DEF Unpaid
  <2>9. Cardinality(employers) + Cardinality(Unpaid(employers, source, registering'))
          <= Cardinality(Sourced(source))
    <3>1. Cardinality(Unpaid(employers, source, registering'))
            <= Cardinality(Unpaid(employers, source, registering))
      BY <2>8, SourcedCounted, FS_Subset
    <3>2. Cardinality(employers) + Cardinality(Unpaid(employers, source, registering))
            <= Cardinality(Sourced(source))
      BY <1>0 DEF SlugsSuffice
    <3>3. /\ Cardinality(Unpaid(employers, source, registering)) \in Nat
          /\ Cardinality(Unpaid(employers, source, registering')) \in Nat
          /\ Cardinality(Sourced(source)) \in Nat /\ Cardinality(employers) \in Nat
      BY <1>0, SourcedCounted, NextSlug
    <3> QED BY <3>1, <3>2, <3>3
  <2>10. \A q \in Creating(registering') :
           /\ registering'[q].fresh => registering'[q].employer.slug \in 1 .. Cardinality(employers) + 1
           /\ ~registering'[q].fresh => registering'[q].employer \in employers
    <3>1. /\ next.fresh => next.employer.slug \in 1 .. Cardinality(employers) + 1
          /\ ~next.fresh => next.employer \in employers
      BY <2>1, <2>3, <2>5
    <3>2. \A q \in Creating(registering) :
           /\ registering[q].fresh => registering[q].employer.slug \in 1 .. Cardinality(employers) + 1
           /\ ~registering[q].fresh => registering[q].employer \in employers
      BY <1>0 DEF SlugsSuffice
    <3> QED BY <2>7, <3>1, <3>2 DEF Creating
  <2>11. SlugsSuffice(employers, source, registering')
    BY <1>0, <2>9, <2>10 DEF SlugsSuffice
  <2> QED BY <1>0, <1>1, <1>2, <2>6, <2>11 DEF DiscoveryInv, DiscoveryTypeOK
<1> QED BY <1>5, <1>6, Zenon DEF FetchForRegistration

LEMMA SearchTyped ==
  ASSUME DiscoveryInv, SearchStep
  PROVE  DiscoveryInv'
<1>0. DiscoveryTypeOK
  BY DEF DiscoveryInv
<1>1. /\ UNCHANGED <<source, route, employers, registering>>
      /\ board' \in [BoardToken -> {"unknown", "pending", "approved", "rejected"}]
      /\ boardFaults' \in 0 .. MaxBoardFaults
  BY <1>0, DiscoveryAssumption
  DEF SearchStep, StartSearch, QueueBoard, PassOverBoard, StopSearch, Fault, DiscoveryTypeOK
<1>2. searching' \in Seq(BoardToken)
  <2>1. CASE StartSearch
    <3> DEFINE new == NewBoards
    <3>1. new \in Seq(BoardToken)
      BY NewBoardsTyped
    <3>2. searching' = SubSeq(new, 1, IF Len(new) < MaxNewBoards THEN Len(new) ELSE MaxNewBoards)
      BY <2>1 DEF StartSearch
    <3> HIDE DEF new
    <3>3. PICK m \in 0 .. Len(new) : searching' = SubSeq(new, 1, m)
      BY <3>1, <3>2, DiscoveryAssumption
    <3>4. SubSeq(new, 1, m) \in Seq(BoardToken)
      BY <3>1, SubSeqProperties
    <3> QED BY <3>3, <3>4
  <2>2. CASE QueueBoard \/ PassOverBoard \/ StopSearch
    <3>1. searching # <<>> /\ searching' \in {Tail(searching), <<>>}
      BY <2>2 DEF QueueBoard, PassOverBoard, StopSearch
    <3>2. searching \in Seq(BoardToken)
      BY <1>0 DEF DiscoveryTypeOK
    <3>3. Tail(searching) \in Seq(BoardToken)
      BY <3>1, <3>2
    <3>4. <<>> \in Seq(BoardToken)
      OBVIOUS
    <3>5. CASE searching' = <<>>
      BY <3>4, <3>5, Zenon
    <3> QED BY <3>1, <3>3, <3>5
  <2> QED BY <2>1, <2>2 DEF SearchStep
<1> QED BY <1>0, <1>1, <1>2 DEF DiscoveryInv, DiscoveryTypeOK

LEMMA DiscoveryInitInv == DiscoveryInit => DiscoveryInv
<1> SUFFICES ASSUME DiscoveryInit
             PROVE  DiscoveryInv
  OBVIOUS
<1>1. DiscoveryTypeOK
  BY DiscoveryAssumption DEF DiscoveryInit, DiscoveryTypeOK, Registrations
<1>2. Creating(registering) = {} /\ Sourced(source) = {}
  BY DEF DiscoveryInit, Creating, Sourced, IdleRegistrar
<1>3. Unpaid(employers, source, registering) = {}
  BY <1>2 DEF Unpaid
<1>4. Cardinality({}) = 0 /\ IsFiniteSet({})
  BY FS_EmptySet
<1>5. SlugsInUse(employers)
  <2>1. employers = {}
    BY DEF DiscoveryInit
  <2>2. 1 .. 0 = {}
    OBVIOUS
  <2> QED BY <1>4, <2>1, <2>2 DEF SlugsInUse
<1>6. Cardinality(employers) = 0
  BY <1>4 DEF DiscoveryInit
<1> QED BY <1>1, <1>2, <1>3, <1>4, <1>5, <1>6 DEF DiscoveryInv, SlugsSuffice

LEMMA DiscoveryNextInv == DiscoveryInv /\ [DiscoveryNext]_boardVars => DiscoveryInv'
<1> SUFFICES ASSUME DiscoveryInv, [DiscoveryNext]_boardVars
             PROVE  DiscoveryInv'
  OBVIOUS
<1>0. DiscoveryTypeOK /\ SlugsSuffice(employers, source, registering)
  BY DEF DiscoveryInv
\* A step that moves one registrar and perhaps decides on a board.
<1>1. ASSUME NEW r \in Registrar, NEW next \in Registrations, next.step # "create",
             registering' = [registering EXCEPT ![r] = next],
             board' \in [BoardToken -> {"unknown", "pending", "approved", "rejected"}],
             UNCHANGED <<source, route, employers, searching, boardFaults>>
      PROVE  DiscoveryInv'
  <2>1. /\ registering' \in [Registrar -> Registrations]
        /\ Creating(registering') \subseteq Creating(registering)
        /\ \A q \in Creating(registering') : registering'[q] = registering[q]
    BY <1>0, <1>1, StepElsewhere
  <2>2. SlugsSuffice(employers, source, registering')
    BY <1>0, <2>1, MoveSuffices
  <2> QED BY <1>0, <1>1, <2>1, <2>2 DEF DiscoveryInv, DiscoveryTypeOK
<1>2. ASSUME NEW r \in Reviewer, NEW selected \in SUBSET BoardToken, Approve(r, selected)
      PROVE  DiscoveryInv'
  <2> DEFINE next == [step |-> "next", todo |-> {t \in selected : board[t] = "pending"}]
  <2>1. next \in Registrations /\ next.step # "create"
    BY DEF Registrations
  <2>2. /\ registering' = [registering EXCEPT ![r] = next]
        /\ UNCHANGED <<board, source, route, employers, searching, boardFaults>>
    BY <1>2 DEF Approve
  <2> HIDE DEF next
  <2> QED BY <1>0, <1>1, <2>1, <2>2 DEF DiscoveryTypeOK, Registrar
<1>3. ASSUME NEW c \in Command, NEW t \in BoardToken, AddJobSource(c, t)
      PROVE  DiscoveryInv'
  <2> DEFINE next == [step |-> "next", todo |-> {t}]
  <2>1. next \in Registrations /\ next.step # "create"
    BY DEF Registrations
  <2>2. /\ registering' = [registering EXCEPT ![c] = next]
        /\ UNCHANGED <<board, source, route, employers, searching, boardFaults>>
    BY <1>3 DEF AddJobSource
  <2> HIDE DEF next
  <2> QED BY <1>0, <1>1, <2>1, <2>2 DEF DiscoveryTypeOK, Registrar
<1>4. ASSUME NEW r \in Registrar, MarkApproved(r)
      PROVE  DiscoveryInv'
  <2>1. registering[r].todo \in SUBSET BoardToken /\ registering[r].token \in BoardToken
    BY <1>0, <1>4, RegistrationsByStep DEF MarkApproved
  <2>2. Rest(registering[r].todo) \in Registrations /\ Rest(registering[r].todo).step # "create"
    BY <2>1, OtherRegistrations
  <2>3. board' \in [BoardToken -> {"unknown", "pending", "approved", "rejected"}]
    BY <1>0, <1>4, <2>1 DEF MarkApproved, Marked, DiscoveryTypeOK
  <2> QED BY <1>1, <1>4, <2>2, <2>3 DEF MarkApproved
<1>5. ASSUME NEW t \in BoardToken, Reject(t)
      PROVE  DiscoveryInv'
  BY <1>0, <1>5 DEF Reject, DiscoveryInv, DiscoveryTypeOK
<1>6. CASE UNCHANGED boardVars
  BY <1>0, <1>6 DEF boardVars, DiscoveryInv, DiscoveryTypeOK
<1> QED
  BY <1>2, <1>3, <1>4, <1>5, <1>6, SearchTyped, CreateSourceTyped, FetchForRegistrationTyped
  DEF DiscoveryNext, RegistrarStep

LEMMA DiscoveryInvariant == DiscoverySpec => []DiscoveryInv
  BY DiscoveryInitInv, DiscoveryNextInv, PTL DEF DiscoverySpec

(* However many boards are registered at the same time, and whatever slugs *)
(* their companies share, a number is free for each employer that          *)
(* _get_or_create_employer makes up, and what is registered keeps its      *)
(* form.                                                                   *)
THEOREM SlugsNeverRunOut == DiscoverySpec => []DiscoveryTypeOK
<1>1. DiscoveryInv => DiscoveryTypeOK
  BY DEF DiscoveryInv
<1> QED BY <1>1, DiscoveryInvariant, PTL

(***************************************************************************)
(* Fetching a board.                                                       *)
(***************************************************************************)
\* Positions and their ranks among those that match.
LEMMA RanksOfMatches ==
  ASSUME NEW n \in Nat, NEW found \in SUBSET (1 .. n)
  PROVE  /\ IsFiniteSet(found) /\ Cardinality(found) \in Nat /\ Cardinality(found) <= n
         /\ \A i \in found : Rank(found, i) \in 1 .. Cardinality(found)
<1>1. IsFiniteSet(1 .. n) /\ Cardinality(1 .. n) = n
  BY FS_Interval
<1>2. IsFiniteSet(found) /\ Cardinality(found) \in Nat /\ Cardinality(found) <= n
  BY <1>1, FS_Subset, FS_CardinalityType
<1>3. ASSUME NEW i \in found
      PROVE  Rank(found, i) \in 1 .. Cardinality(found)
  <2> DEFINE upto == {j \in found : j <= i}
  <2>1. IsFiniteSet(upto) /\ Cardinality(upto) <= Cardinality(found)
    BY <1>2, FS_Subset
  <2>2. Cardinality(upto) \in Nat
    BY <2>1, FS_CardinalityType
  <2>3. i \in upto
    OBVIOUS
  <2>4. Cardinality(upto) # 0
    BY <2>1, <2>3, FS_EmptySet
  <2> HIDE DEF upto
  <2>5. Cardinality(upto) \in 1 .. Cardinality(found)
    BY <1>2, <2>1, <2>2, <2>4
  <2> QED BY <2>5 DEF Rank, upto
<1> QED BY <1>2, <1>3

\* Every rank beyond the first page is on a page that starts at a multiple of
\* the page's size.
LEMMA PagesCover ==
  ASSUME NEW rank \in Nat, rank > PageLimit
  PROVE  \E n \in Nat \ {0} : /\ n * PageLimit \in Nat /\ n <= n * PageLimit
                             /\ n * PageLimit < rank /\ rank <= n * PageLimit + PageLimit
<1> DEFINE later == {n \in Nat : rank <= n * PageLimit + PageLimit}
<1>0. PageLimit \in Nat \ {0}
  BY FetchAssumption
<1>1. rank \in later
  <2>1. rank * PageLimit >= rank
    BY <1>0
  <2>2. rank * PageLimit \in Nat
    BY <1>0
  <2> QED BY <1>0, <2>1, <2>2
<1>2. PICK n \in later : \A m \in later : n <= m
  BY <1>1, SmallestOf
<1>3. n # 0
  BY <1>0, <1>2
<1>4. n - 1 \in Nat /\ n - 1 \notin later
  BY <1>2, <1>3
<1>5. rank > (n - 1) * PageLimit + PageLimit
  BY <1>0, <1>4
<1>6. (n - 1) * PageLimit + PageLimit = n * PageLimit
  BY <1>0, <1>2
<1>7. n * PageLimit \in Nat /\ n <= n * PageLimit
  BY <1>0, <1>2
<1> QED BY <1>2, <1>3, <1>5, <1>6, <1>7

\* A request reaches a position it matches, if that is on a page it asks for:
\* the first page asks for the others.
Reaches(r, i) ==
  LET found == Matching(r.applied) IN
  /\ i \in found
  /\ \/ r.offset = 0
     \/ r.offset < Rank(found, i) /\ Rank(found, i) <= r.offset + PageLimit

\* What the fetch is done with: read, given up or not seen.
Handled == fetched \cup givenUp \cup missed

\* Every posting is settled or still asked for.
AccountedFor ==
  fetching \in {"running", "returned"} /\ ~boardMoved =>
    \A i \in DOMAIN listing : listing[i] \in Handled \/ \E r \in requests : Reaches(r, i)

ReadFromBoard ==
  ~boardMoved => /\ fetched \subseteq ToSet(listing)
                 /\ givenUp # {} => platform # "simple" /\ Len(listing) >= QueryTotalCap

OnlyRunningAsks == requests # {} => fetching = "running"

\* Only Workday is asked for later pages, and only its bodies are read short.
OnlyWorkdayPages ==
  /\ \A r \in requests : r.offset > 0 => platform # "simple"
  /\ missed # {} => platform # "simple" /\ oddBodies > 0

FetchInv == FetchTypeOK /\ AccountedFor /\ ReadFromBoard /\ OnlyRunningAsks /\ OnlyWorkdayPages

LEMMA MatchesOfBoard ==
  ASSUME FetchTypeOK, NEW applied
  PROVE  /\ DOMAIN listing = 1 .. Len(listing) /\ Len(listing) \in Nat
         /\ \A i \in DOMAIN listing : listing[i] \in Posting
         /\ Matching(applied) \in SUBSET (1 .. Len(listing))
         /\ IsFiniteSet(Matching(applied)) /\ Cardinality(Matching(applied)) \in Nat
         /\ Cardinality(Matching(applied)) <= Len(listing)
         /\ \A i \in Matching(applied) : Rank(Matching(applied), i) \in 1 .. Cardinality(Matching(applied))
<1>1. /\ DOMAIN listing = 1 .. Len(listing) /\ Len(listing) \in Nat
      /\ \A i \in DOMAIN listing : listing[i] \in Posting
  BY DEF FetchTypeOK
<1>2. Matching(applied) \in SUBSET (1 .. Len(listing))
  BY <1>1 DEF Matching
<1> QED BY <1>1, <1>2, RanksOfMatches

LEMMA FetchInitInv == FetchInit => FetchInv
<1> SUFFICES ASSUME FetchInit PROVE FetchInv
  OBVIOUS
<1>1. listing \in Seq(Posting)
  <2>1. Cardinality(Posting) \in Nat
    BY FetchAssumption, FS_CardinalityType
  <2>2. listing \in [1 .. Cardinality(Posting) -> Posting]
    BY DEF FetchInit, SetToSeqs
  <2> QED BY <2>1, <2>2
<1>2. FetchTypeOK
  <2>1. 0 \in 0 .. MaxBoardMoves /\ 0 \in 0 .. MaxOddBodies
    BY FetchAssumption
  <2> QED BY <1>1, <2>1 DEF FetchInit, FetchTypeOK
<1> QED BY <1>2 DEF FetchInit, FetchInv, AccountedFor, Handled, ReadFromBoard, OnlyRunningAsks, OnlyWorkdayPages

\* The board changes: what is being read is of no use to the property.
LEMMA MoveBoardInv == FetchInv /\ MoveBoard => FetchInv'
<1> SUFFICES ASSUME FetchInv, MoveBoard PROVE FetchInv'
  OBVIOUS
<1>1. listing' \in Seq(Posting)
  <2>1. listing \in Seq(Posting)
    BY DEF FetchInv, FetchTypeOK
  <2>2. CASE \E i \in DOMAIN listing : listing' = RemoveAt(listing, i)
    <3> PICK i \in DOMAIN listing : listing' = SubSeq(listing, 1, i - 1) \o SubSeq(listing, i + 1, Len(listing))
      BY <2>2 DEF RemoveAt
    <3>1. i \in 1 .. Len(listing) /\ Len(listing) \in Nat
      BY <2>1
    <3>2. SubSeq(listing, 1, i - 1) \in Seq(Posting) /\ SubSeq(listing, i + 1, Len(listing)) \in Seq(Posting)
      BY <2>1, <3>1
    <3> QED BY <3>2
  <2>3. CASE \E p \in Posting \ ToSet(listing) : listing' = <<p>> \o listing
    BY <2>1, <2>3
  <2> QED BY <2>2, <2>3 DEF MoveBoard
<1>2. boardMoves' \in 0 .. MaxBoardMoves
  BY FetchAssumption DEF MoveBoard, FetchInv, FetchTypeOK
<1> QED BY <1>1, <1>2 DEF MoveBoard, FetchInv, FetchTypeOK, AccountedFor, Handled, ReadFromBoard, OnlyRunningAsks, OnlyWorkdayPages

LEMMA StartFetchInv == FetchInv /\ StartFetch => FetchInv'
<1> SUFFICES ASSUME FetchInv, StartFetch PROVE FetchInv'
  OBVIOUS
<1>1. Query({}, 0) \in Request
  BY FetchAssumption DEF Query, Request
<1>2. FetchTypeOK'
  BY <1>1 DEF StartFetch, FetchInv, FetchTypeOK
<1>3. AccountedFor'
  <2> SUFFICES ASSUME NEW i \in DOMAIN listing
               PROVE  Reaches(Query({}, 0), i)'
    BY DEF StartFetch, AccountedFor
  <2> QED BY DEF StartFetch, Reaches, Matching, Query
<1> QED BY <1>2, <1>3 DEF StartFetch, FetchInv, ReadFromBoard, OnlyRunningAsks, OnlyWorkdayPages, Query

\* What was read goes with the fetch that failed.
LEMMA DiscardInv == FetchInv /\ Discard => FetchInv'
  BY DEF Discard, FetchInv, FetchTypeOK, AccountedFor, Handled, ReadFromBoard, OnlyRunningAsks, OnlyWorkdayPages

LEMMA ReturnInv == FetchInv /\ ReturnPostings => FetchInv'
  BY DEF ReturnPostings, FetchInv, FetchTypeOK, AccountedFor, Handled, ReadFromBoard, OnlyRunningAsks, OnlyWorkdayPages,
         Reaches, Matching

LEMMA ReportedTotals ==
  ASSUME FetchTypeOK, NEW applied
  PROVE  LET found == Matching(applied)
             total == ReportedTotal(found)
         IN /\ total \in Nat /\ total <= Cardinality(found)
            /\ total < Cardinality(found) \/ total = QueryTotalCap => Len(listing) >= QueryTotalCap
  BY MatchesOfBoard, FetchAssumption DEF ReportedTotal

LEMMA PickedSplits ==
  ASSUME NEW found, NEW applied, NEW facet \in Picked(found, Splitting(found, applied))
  PROVE  facet \in Facet
BY DEF Picked, Splitting, Facet

\* What is read of a body, and what it says the total is.
LEMMA ReadsOfBody ==
  ASSUME FetchTypeOK, NEW applied, NEW offset \in Nat, NEW body \in Body, Reads(body)
  PROVE  LET found == Matching(applied)
             page == PageAt(found, offset)
         IN /\ Postings(body, page) \subseteq page
            /\ oddBodies' \in 0 .. MaxOddBodies /\ oddBodies' >= oddBodies
            /\ body # "whole" => oddBodies' > 0
            /\ body = "whole" => Postings(body, page) = page
            /\ Total(body, found) \in Nat /\ Total(body, found) <= Cardinality(found)
            /\ Total(body, found) = ReportedTotal(found) \/ Total(body, found) = 0
            /\ body = "whole" /\ Total(body, found) = 0 => found = {}
<1> DEFINE found == Matching(applied)
           page == PageAt(found, offset)
<1>1. /\ ReportedTotal(found) \in Nat /\ ReportedTotal(found) <= Cardinality(found)
      /\ IsFiniteSet(found) /\ Cardinality(found) \in Nat
  BY ReportedTotals, MatchesOfBoard
<1>2. ReportedTotal(found) = 0 => found = {}
  <2>1. ReportedTotal(found) = 0 => Cardinality(found) = 0
    BY <1>1, FetchAssumption DEF ReportedTotal
  <2> QED BY <1>1, <2>1, FS_EmptySet
<1>3. oddBodies \in 0 .. MaxOddBodies /\ MaxOddBodies \in Nat
  BY FetchAssumption DEF FetchTypeOK
<1>4. /\ oddBodies' \in 0 .. MaxOddBodies /\ oddBodies' >= oddBodies
      /\ body # "whole" => oddBodies' > 0
  BY <1>3 DEF Reads
<1> HIDE DEF found, page
<1>5. Postings(body, page) \subseteq page /\ (body = "whole" => Postings(body, page) = page)
  BY DEF Postings
<1>6. /\ Total(body, found) \in Nat /\ Total(body, found) <= Cardinality(found)
      /\ Total(body, found) = ReportedTotal(found) \/ Total(body, found) = 0
      /\ body = "whole" /\ Total(body, found) = 0 => found = {}
  BY <1>1, <1>2 DEF Total
<1> QED BY <1>4, <1>5, <1>6 DEF found, page

\* The first page of a query: what lies in it is read or missed, given up at
\* the cap, or asked for by another query.
LEMMA AnswerFirstInv ==
  ASSUME FetchInv, NEW r \in requests, NEW body \in Body, Reads(body), AnswerFirst(r, body),
         UNCHANGED <<platform, listing, fetching, boardMoved, boardMoves>>
  PROVE  FetchInv'
<1> DEFINE found == Matching(r.applied)
           page == PageAt(found, 0)
           total == Total(body, found)
           splits == IF total = QueryTotalCap /\ Cardinality(r.applied) < MaxSplits /\ body # "noFacets"
                     THEN Splitting(found, r.applied) ELSE {}
           all == {listing[i] : i \in found}
           lost == (IF total = 0 THEN all ELSE page) \ Postings(body, page)
           pages == {Query(r.applied, o) : o \in {k \in 1 .. total - 1 : \E n \in 1 .. k : k = n * PageLimit}}
           beyond == IF total = 0 THEN {} ELSE Ranked(found, total, Cardinality(found))
           parts(f) == {Query(r.applied \cup {<<f, v>>}, 0) : v \in ValuesIn(found, f)}
           nowhere(f) == {p \in all : ValuesOf[f][p] = {}}
<1>1. /\ platform # "simple" /\ r.offset = 0
      /\ fetched' = fetched \cup Postings(body, page)
      /\ missed' = missed \cup lost
      /\ \/ splits = {} /\ requests' = (requests \ {r}) \cup pages /\ givenUp' = givenUp \cup beyond
         \/ \E f \in Picked(found, splits) :
              requests' = (requests \ {r}) \cup parts(f) /\ givenUp' = givenUp \cup nowhere(f)
  BY DEF AnswerFirst
<1>2. FetchTypeOK /\ r \in Request
  BY DEF FetchInv, FetchTypeOK
<1>3. /\ DOMAIN listing = 1 .. Len(listing) /\ Len(listing) \in Nat
      /\ \A i \in DOMAIN listing : listing[i] \in Posting
      /\ found \in SUBSET (1 .. Len(listing))
      /\ Cardinality(found) \in Nat /\ Cardinality(found) <= Len(listing)
      /\ \A i \in found : Rank(found, i) \in 1 .. Cardinality(found)
  BY <1>2, MatchesOfBoard
<1>4. /\ Postings(body, page) \subseteq page
      /\ oddBodies' \in 0 .. MaxOddBodies /\ oddBodies' >= oddBodies
      /\ body # "whole" => oddBodies' > 0
      /\ body = "whole" => Postings(body, page) = page
      /\ total \in Nat /\ total <= Cardinality(found)
      /\ total = ReportedTotal(found) \/ total = 0
      /\ body = "whole" /\ total = 0 => found = {}
  BY <1>2, ReadsOfBody
<1>5. ReportedTotal(found) < Cardinality(found) \/ ReportedTotal(found) = QueryTotalCap
        => Len(listing) >= QueryTotalCap
  BY <1>2, ReportedTotals
<1>6. page \subseteq all /\ all \subseteq ToSet(listing) /\ ToSet(listing) \subseteq Posting
      /\ beyond \subseteq all /\ lost \subseteq all
  BY <1>3 DEF PageAt, Ranked, ToSet
<1>7. lost # {} => oddBodies' > 0
  <2>1. CASE body = "whole"
    <3>1. total = 0 => all = {}
      BY <2>1, <1>4
    <3> HIDE DEF total, all, page
    <3> QED BY <2>1, <3>1, <1>4
  <2>2. CASE body # "whole"
    BY <2>2, <1>4
  <2> QED BY <2>1, <2>2
<1>8. pages \subseteq Request
  <2> SUFFICES ASSUME NEW o \in 1 .. total - 1
               PROVE  Query(r.applied, o) \in Request
    OBVIOUS
  <2>1. o \in Nat /\ 0 \in 0 .. MaxTries - 1
    BY <1>4, FetchAssumption
  <2> QED BY <1>2, <2>1 DEF Query, Request
<1>9. oddBodies \in 0 .. MaxOddBodies /\ MaxOddBodies \in Nat
  BY <1>2, FetchAssumption DEF FetchTypeOK
\* A query of pages.
<1>10. ASSUME splits = {}, requests' = (requests \ {r}) \cup pages, givenUp' = givenUp \cup beyond
       PROVE  FetchInv'
  <2>1. beyond # {} => Len(listing) >= QueryTotalCap
    <3> SUFFICES ASSUME total # 0, NEW i \in found, total < Rank(found, i), Rank(found, i) <= Cardinality(found)
                 PROVE  Len(listing) >= QueryTotalCap
      BY DEF Ranked
    <3> HIDE DEF found, total
    <3> QED BY <1>3, <1>4, <1>5
  <2>2. ASSUME NEW i \in found
        PROVE  listing[i] \in Postings(body, page) \cup beyond \cup lost \/ \E q \in pages : Reaches(q, i)
    <3>0. Rank(found, i) \in Nat /\ PageLimit \in Nat /\ total \in Nat /\ Rank(found, i) <= Cardinality(found)
      BY <1>3, <1>4, FetchAssumption
    <3>1. CASE total = 0
      <4>1. listing[i] \in all
        OBVIOUS
      <4> HIDE DEF all, page, beyond, pages
      <4> QED BY <3>1, <4>1
    <3>2. CASE total # 0 /\ Rank(found, i) > total
      <4> HIDE DEF found, total
      <4> QED BY <3>0, <3>2 DEF Ranked
    <3>3. CASE total # 0 /\ Rank(found, i) <= PageLimit
      <4>1. listing[i] \in page
        BY <3>0, <3>3, <1>3 DEF PageAt, Ranked
      <4> HIDE DEF page, all, beyond, pages
      <4> QED BY <3>3, <4>1
    <3>4. CASE Rank(found, i) > PageLimit /\ Rank(found, i) <= total
      <4> DEFINE rank == Rank(found, i)
      <4>1. PICK n \in Nat \ {0} : /\ n * PageLimit \in Nat /\ n <= n * PageLimit
                                  /\ n * PageLimit < rank /\ rank <= n * PageLimit + PageLimit
        BY <3>0, <3>4, PagesCover
      <4> DEFINE o == n * PageLimit
      <4> HIDE DEF o, rank
      <4>2. o \in Nat /\ n <= o /\ o >= 1
        BY <4>1 DEF o
      <4>3. o \in 1 .. total - 1
        BY <3>0, <3>4, <4>1, <4>2 DEF o, rank
      <4>4. n \in 1 .. o
        BY <4>2
      <4>5. Query(r.applied, o) \in pages
        BY <4>3, <4>4 DEF o
      <4>6. Reaches(Query(r.applied, o), i)
        BY <4>1 DEF Reaches, Query, o, rank
      <4> HIDE DEF pages
      <4> QED BY <4>5, <4>6
    <3>5. \/ total = 0
          \/ total # 0 /\ Rank(found, i) > total
          \/ total # 0 /\ Rank(found, i) <= PageLimit
          \/ Rank(found, i) > PageLimit /\ Rank(found, i) <= total
      <4> HIDE DEF found, total
      <4> QED BY <3>0
    <3> HIDE DEF found, total, page, beyond, lost, pages
    <3> QED BY <3>1, <3>2, <3>3, <3>4, <3>5, Zenon
  <2>3. FetchTypeOK'
    <3> HIDE DEF pages, beyond, lost, page, all
    <3> QED BY <1>1, <1>2, <1>4, <1>6, <1>8, <1>10 DEF FetchTypeOK
  <2>4. ReadFromBoard' /\ OnlyRunningAsks' /\ OnlyWorkdayPages'
    <3> HIDE DEF pages, beyond, lost, page, all
    <3> QED BY <1>1, <1>4, <1>6, <1>7, <1>9, <1>10, <2>1
            DEF FetchInv, ReadFromBoard, OnlyRunningAsks, OnlyWorkdayPages
  <2>5. AccountedFor'
    <3> SUFFICES ASSUME fetching \in {"running", "returned"}, ~boardMoved, NEW i \in DOMAIN listing
                 PROVE  listing[i] \in Handled' \/ \E q \in requests' : Reaches(q, i)
      BY DEF AccountedFor, Reaches, Matching
    <3>1. listing[i] \in Handled \/ \E q \in requests : Reaches(q, i)
      BY DEF FetchInv, AccountedFor
    <3>2. Reaches(r, i) => i \in found
      BY DEF Reaches
    <3> HIDE DEF pages, beyond, lost, page, found
    <3> QED BY <1>1, <1>10, <2>2, <3>1, <3>2 DEF Handled
  <2> QED BY <2>3, <2>4, <2>5 DEF FetchInv
\* A query that is split.
<1>11. ASSUME NEW f \in Picked(found, splits),
              requests' = (requests \ {r}) \cup parts(f), givenUp' = givenUp \cup nowhere(f)
       PROVE  FetchInv'
  <2>1. splits = Splitting(found, r.applied) /\ total = QueryTotalCap
    <3>1. splits # {}
      <4>1. Picked(found, {}) = {}
        BY DEF Picked
      <4> QED BY <1>11, <4>1
    <3> QED BY <3>1
  <2>2. f \in Facet
    BY <1>11, <2>1, PickedSplits
  <2>3. Len(listing) >= QueryTotalCap
    <3>1. total # 0
      BY <2>1, FetchAssumption
    <3> QED BY <2>1, <3>1, <1>4, <1>5
  <2>4. \A i \in found : listing[i] \in Posting /\ ValuesOf[f][listing[i]] \subseteq FacetValue
    BY <1>3, <2>2, FetchAssumption
  <2>5. parts(f) \subseteq Request
    <3> SUFFICES ASSUME NEW v \in ValuesIn(found, f)
                 PROVE  Query(r.applied \cup {<<f, v>>}, 0) \in Request
      OBVIOUS
    <3>1. v \in FacetValue
      <4> HIDE DEF found
      <4> QED BY <2>4 DEF ValuesIn
    <3>2. 0 \in Nat /\ 0 \in 0 .. MaxTries - 1
      BY FetchAssumption
    <3> QED BY <1>2, <2>2, <3>1, <3>2 DEF Query, Request
  <2>6. ASSUME NEW i \in found
        PROVE  listing[i] \in nowhere(f) \/ \E q \in parts(f) : Reaches(q, i)
    <3>1. CASE ValuesOf[f][listing[i]] = {}
      BY <3>1
    <3>2. ASSUME NEW v \in ValuesOf[f][listing[i]]
          PROVE  \E q \in parts(f) : Reaches(q, i)
      <4> DEFINE q == Query(r.applied \cup {<<f, v>>}, 0)
      <4>1. v \in ValuesIn(found, f)
        BY <3>2 DEF ValuesIn
      <4>2. q \in parts(f)
        BY <4>1
      <4>3. q.applied = r.applied \cup {<<f, v>>} /\ q.offset = 0
        BY DEF Query
      <4>4. i \in DOMAIN listing /\ \A a \in r.applied : a[2] \in ValuesOf[a[1]][listing[i]]
        BY DEF Matching
      <4> HIDE DEF q, found
      <4>5. \A a \in q.applied : a[2] \in ValuesOf[a[1]][listing[i]]
        <5> SUFFICES ASSUME NEW a \in q.applied PROVE a[2] \in ValuesOf[a[1]][listing[i]]
          OBVIOUS
        <5>1. a \in r.applied \/ a = <<f, v>>
          BY <4>3
        <5>2. CASE a \in r.applied
          BY <5>2, <4>4
        <5>3. CASE a = <<f, v>>
          <6>1. a[1] = f /\ a[2] = v
            BY <5>3
          <6> QED BY <6>1, <3>2
        <5> QED BY <5>1, <5>2, <5>3
      <4>6. i \in Matching(q.applied)
        BY <4>4, <4>5 DEF Matching
      <4>7. Reaches(q, i)
        BY <4>3, <4>6 DEF Reaches
      <4> QED BY <4>2, <4>7
    <3> HIDE DEF parts, nowhere
    <3> QED BY <3>1, <3>2
  <2>7. nowhere(f) \subseteq all
    OBVIOUS
  <2>8. FetchTypeOK'
    <3> HIDE DEF parts, nowhere, lost, page, all
    <3> QED BY <1>1, <1>2, <1>4, <1>6, <1>11, <2>5, <2>7 DEF FetchTypeOK
  <2>9. ReadFromBoard' /\ OnlyRunningAsks' /\ OnlyWorkdayPages'
    <3>1. \A q \in parts(f) : q.offset = 0
      BY DEF Query
    <3> HIDE DEF parts, nowhere, lost, page, all
    <3> QED BY <1>1, <1>4, <1>6, <1>7, <1>9, <1>11, <2>3, <3>1
            DEF FetchInv, ReadFromBoard, OnlyRunningAsks, OnlyWorkdayPages
  <2>10. AccountedFor'
    <3> SUFFICES ASSUME fetching \in {"running", "returned"}, ~boardMoved, NEW i \in DOMAIN listing
                 PROVE  listing[i] \in Handled' \/ \E q \in requests' : Reaches(q, i)
      BY DEF AccountedFor, Reaches, Matching
    <3>1. listing[i] \in Handled \/ \E q \in requests : Reaches(q, i)
      BY DEF FetchInv, AccountedFor
    <3>2. Reaches(r, i) => i \in found
      BY DEF Reaches
    <3> HIDE DEF parts, nowhere, lost, page, found
    <3> QED BY <1>1, <1>11, <2>6, <3>1, <3>2 DEF Handled
  <2> QED BY <2>8, <2>9, <2>10 DEF FetchInv
<1> HIDE DEF found, page, total, splits, all, lost, pages, beyond, parts, nowhere
<1> QED BY <1>1, <1>10, <1>11, Zenon

\* A later page is read where the board has it, or missed.
LEMMA AnswerPageInv ==
  ASSUME FetchInv, NEW r \in requests, NEW body \in Body, Reads(body), AnswerPage(r, body),
         UNCHANGED <<platform, listing, fetching, boardMoved, boardMoves>>
  PROVE  FetchInv'
<1> DEFINE page == PageAt(Matching(r.applied), r.offset)
           lost == page \ Postings(body, page)
<1>1. FetchTypeOK /\ r \in Request /\ r.offset \in Nat
  BY DEF FetchInv, FetchTypeOK, Request
<1>2. page \subseteq ToSet(listing) /\ ToSet(listing) \subseteq Posting
  BY <1>1, MatchesOfBoard DEF PageAt, Ranked, ToSet
<1>3. ASSUME NEW i, Reaches(r, i)
      PROVE  listing[i] \in page
  BY <1>1, <1>3 DEF Reaches, PageAt, Ranked, Request, AnswerPage
<1>4. /\ Postings(body, page) \subseteq page
      /\ oddBodies' \in 0 .. MaxOddBodies /\ oddBodies' >= oddBodies
      /\ body # "whole" => oddBodies' > 0
      /\ body = "whole" => Postings(body, page) = page
  BY <1>1, ReadsOfBody
<1>5. lost # {} => oddBodies' > 0
  <2> HIDE DEF page
  <2> QED BY <1>4
<1>6. /\ r.offset > 0 /\ requests' = requests \ {r} /\ UNCHANGED givenUp
      /\ fetched' = fetched \cup Postings(body, page) /\ missed' = missed \cup lost
  BY DEF AnswerPage
<1>7. platform # "simple"
  BY <1>6 DEF FetchInv, OnlyWorkdayPages
<1>8. oddBodies \in 0 .. MaxOddBodies /\ MaxOddBodies \in Nat
  BY <1>1, FetchAssumption DEF FetchTypeOK
<1> HIDE DEF page
<1>9. FetchTypeOK'
  BY <1>1, <1>2, <1>4, <1>6 DEF FetchTypeOK
<1>10. ReadFromBoard' /\ OnlyRunningAsks' /\ OnlyWorkdayPages'
  <2> HIDE DEF lost
  <2>1. lost \subseteq page
    BY DEF lost
  <2> QED BY <1>2, <1>4, <1>5, <1>6, <1>7, <1>8 DEF FetchInv, ReadFromBoard, OnlyRunningAsks, OnlyWorkdayPages
<1>11. AccountedFor'
  <2> SUFFICES ASSUME fetching \in {"running", "returned"}, ~boardMoved, NEW i \in DOMAIN listing
               PROVE  listing[i] \in Handled' \/ \E q \in requests' : Reaches(q, i)
    BY DEF AccountedFor, Reaches, Matching
  <2>1. listing[i] \in Handled \/ \E q \in requests : Reaches(q, i)
    BY DEF FetchInv, AccountedFor
  <2> QED BY <2>1, <1>3, <1>6 DEF Handled
<1> QED BY <1>9, <1>10, <1>11 DEF FetchInv

\* The boards that answer with everything.
LEMMA AnswerWholeInv ==
  ASSUME FetchInv, NEW r \in requests, AnswerWhole(r),
         UNCHANGED <<platform, listing, fetching, oddBodies, boardMoved, boardMoves>>
  PROVE  FetchInv'
<1>1. ToSet(listing) \subseteq Posting /\ \A i \in DOMAIN listing : listing[i] \in ToSet(listing)
  BY MatchesOfBoard DEF FetchInv, ToSet
<1> QED BY <1>1 DEF AnswerWhole, FetchInv, FetchTypeOK, AccountedFor, Handled, ReadFromBoard, OnlyRunningAsks, OnlyWorkdayPages

\* The same page is asked for again.
LEMMA RetryInv ==
  ASSUME FetchInv, NEW r \in requests, Retry(r)
  PROVE  FetchInv'
<1> DEFINE again == [r EXCEPT !.tries = @ + 1]
<1>1. r \in Request
  BY DEF FetchInv, FetchTypeOK
<1>2. again \in Request /\ again.applied = r.applied /\ again.offset = r.offset
  <2>1. r.tries + 1 \in 0 .. MaxTries - 1
    BY <1>1, FetchAssumption DEF Retry, MayRetry, Request
  <2> QED BY <1>1, <2>1 DEF Request
<1>3. requests' = (requests \ {r}) \cup {again}
  BY DEF Retry
<1>4. \A i : Reaches(r, i) => Reaches(again, i)
  BY <1>2 DEF Reaches
<1>5. FetchTypeOK' /\ ReadFromBoard' /\ OnlyRunningAsks' /\ OnlyWorkdayPages'
  <2> HIDE DEF again
  <2> QED BY <1>2, <1>3 DEF Retry, FetchInv, FetchTypeOK, ReadFromBoard, OnlyRunningAsks, OnlyWorkdayPages
<1>6. AccountedFor'
  <2>0. UNCHANGED <<listing, fetching, fetched, givenUp, missed, boardMoved>>
    BY DEF Retry
  <2> SUFFICES ASSUME fetching \in {"running", "returned"}, ~boardMoved, NEW i \in DOMAIN listing
               PROVE  listing[i] \in Handled \/ \E q \in requests' : Reaches(q, i)
    BY <2>0 DEF AccountedFor, Handled, Reaches, Matching
  <2>1. listing[i] \in Handled \/ \E q \in requests : Reaches(q, i)
    BY DEF FetchInv, AccountedFor
  <2> HIDE DEF again
  <2> QED BY <2>1, <1>3, <1>4
<1> QED BY <1>5, <1>6 DEF FetchInv

LEMMA FetchNextInv == FetchInv /\ [FetchNext]_fetchVars => FetchInv'
<1> SUFFICES ASSUME FetchInv, [FetchNext]_fetchVars PROVE FetchInv'
  OBVIOUS
<1>1. CASE MoveBoard
  BY <1>1, MoveBoardInv
<1>2. CASE StartFetch
  BY <1>2, StartFetchInv
<1>3. CASE FetchFails
  BY <1>3, DiscardInv DEF FetchFails
<1>4. CASE ReturnPostings
  BY <1>4, ReturnInv
<1>5. ASSUME NEW r \in requests, Answer(r)
      PROVE  FetchInv'
  BY <1>5, AnswerFirstInv, AnswerPageInv, AnswerWholeInv DEF Answer
<1>6. ASSUME NEW r \in requests, Retry(r)
      PROVE  FetchInv'
  BY <1>6, RetryInv
<1>7. ASSUME NEW r \in requests, GiveUpPage(r)
      PROVE  FetchInv'
  BY <1>7, DiscardInv DEF GiveUpPage, IsFatal
<1>8. CASE UNCHANGED fetchVars
  BY <1>8 DEF fetchVars, FetchInv, FetchTypeOK, AccountedFor, Handled, ReadFromBoard, OnlyRunningAsks, OnlyWorkdayPages, Reaches, Matching
<1> QED BY <1>1, <1>2, <1>3, <1>4, <1>5, <1>6, <1>7, <1>8 DEF FetchNext

LEMMA FetchInvariant == FetchSpec => []FetchInv
<1>1. FetchInit => FetchInv
  BY FetchInitInv
<1>2. FetchInv /\ [FetchNext]_fetchVars => FetchInv'
  BY FetchNextInv
<1> QED BY <1>1, <1>2, PTL DEF FetchSpec

LEMMA WholeFromInv == FetchInv => FetchIsWhole
<1> SUFFICES ASSUME FetchInv, fetching = "returned", ~boardMoved
             PROVE  /\ fetched \subseteq ToSet(listing) /\ ToSet(listing) \subseteq Handled
                    /\ givenUp # {} => platform # "simple" /\ Len(listing) >= QueryTotalCap
                    /\ missed # {} => platform # "simple" /\ oddBodies > 0
  BY DEF FetchIsWhole, Handled
<1>1. requests = {}
  BY DEF FetchInv, OnlyRunningAsks
<1>2. \A i \in DOMAIN listing : listing[i] \in Handled
  BY <1>1 DEF FetchInv, AccountedFor
<1> QED BY <1>2 DEF FetchInv, ReadFromBoard, OnlyWorkdayPages, ToSet

(* A fetch that returns has every posting of a board that stood still,     *)
(* save those the code decides to do without and those that lay in a body  *)
(* of Workday's that lacked something: for all page sizes, caps, facets    *)
(* and boards, whichever requests fail and are tried again.                *)
THEOREM FetchesAreWhole == FetchSpec => []FetchIsWhole
  BY FetchInvariant, WholeFromInv, PTL

(***************************************************************************)
(* The learner.  The two newest votes are of two employers, each typed by  *)
(* the user; a run carries that from its decision to its write.            *)
(***************************************************************************)
TypedTwice(v) ==
  \E e, f \in AskingEmployer : e # f /\ <<e, v>> \in authored /\ <<f, v>> \in authored

VotesWereTyped ==
  /\ votes \in Seq(Votes) /\ Len(votes) <= 2
  /\ \A i \in 1 .. Len(votes) : <<votes[i].employer, votes[i].value>> \in authored
  /\ Len(votes) = 2 => votes[1].employer # votes[2].employer

RunsWereTyped ==
  /\ learner = [l \in Learner |-> learner[l]]
  /\ \A l \in Learner : learner[l].step = "write" =>
       /\ learner[l] = [step |-> "write", value |-> learner[l].value, sweep |-> learner[l].sweep]
       /\ TypedTwice(learner[l].value)

BankIsRow ==
  bank # NoBankRow =>
    /\ bank = [id |-> bank.id, source |-> bank.source, value |-> bank.value,
               locked |-> bank.locked, expired |-> bank.expired]
    /\ bank.expired \in BOOLEAN
    /\ bank.expired => bank.source = "learned"

MemoryInv == VotesWereTyped /\ RunsWereTyped /\ BankIsRow /\ LearnedWasTyped

LEMMA MemoryInitInv == MemoryInit => MemoryInv
  BY DEF MemoryInit, MemoryInv, VotesWereTyped, RunsWereTyped, BankIsRow, LearnedWasTyped, Learned,
         IdleLearner

\* A new vote and the newest one of another employer.
LEMMA NewVote ==
  ASSUME VotesWereTyped, NEW e \in AskingEmployer, NEW v \in AnswerValue
  PROVE  LET new == WithVote(e, v) IN
         /\ new \in Seq(Votes) /\ Len(new) \in {1, 2}
         /\ new[1] = [employer |-> e, value |-> v]
         /\ Len(new) = 2 => new[2].employer # e /\ \E i \in 1 .. Len(votes) : new[2] = votes[i]
<1> DEFINE others == {i \in DOMAIN votes : votes[i].employer # e}
           first == CHOOSE i \in others : \A j \in others : i <= j
           vote == [employer |-> e, value |-> v]
<1>1. DOMAIN votes = 1 .. Len(votes) /\ Len(votes) \in 0 .. 2
  <2>1. votes \in Seq(Votes) /\ Len(votes) <= 2
    BY DEF VotesWereTyped
  <2>2. Len(votes) \in Nat /\ DOMAIN votes = 1 .. Len(votes)
    BY <2>1
  <2> QED BY <2>1, <2>2
<1>2. vote \in Votes
  BY DEF Votes
<1>3. CASE others = {}
  <2>1. WithVote(e, v) = <<vote>>
    BY <1>2, <1>3 DEF WithVote
  <2> QED BY <1>2, <2>1
<1>4. CASE others # {}
  <2>1. \E i \in others : \A j \in others : i <= j
    <3>1. others \subseteq {1, 2}
      BY <1>1
    <3> QED BY <1>4, <3>1
  <2>2. first \in others
    BY <2>1
  <2>3. first \in 1 .. Len(votes) /\ votes[first] \in Votes /\ votes[first].employer # e
    BY <1>1, <2>2 DEF VotesWereTyped
  <2> HIDE DEF first
  <2>4. WithVote(e, v) = <<vote, votes[first]>>
    BY <1>4 DEF WithVote, first
  <2> QED BY <1>2, <2>3, <2>4
<1> QED BY <1>3, <1>4

\* What the learner would write of two votes that agree.
LEMMA DecidedOnConsensus ==
  ASSUME NEW row, NEW recent, NEW status
  PROVE  LET decided == Decision(row, recent, status) IN
         /\ decided.step \in {"skip", "withdraw", "write"}
         /\ decided.step = "write" => Consensus(recent) /\ decided.value = recent[1].value
  BY DEF Decision, Skip

LEMMA ConsensusWasTyped ==
  ASSUME VotesWereTyped, Consensus(votes)
  PROVE  TypedTwice(votes[1].value)
<1>1. Len(votes) = 2 /\ votes[1] \in Votes /\ votes[2] \in Votes
  <2>1. votes \in Seq(Votes) /\ Len(votes) = 2
    <3>1. votes \in Seq(Votes)
      BY DEF VotesWereTyped
    <3>2. Len(votes) <= 2 /\ Len(votes) >= 2
      BY DEF VotesWereTyped, Consensus
    <3>3. Len(votes) \in Nat
      BY <3>1
    <3>4. \A n \in Nat : n <= 2 /\ n >= 2 => n = 2
      OBVIOUS
    <3>5. Len(votes) = 2
      BY <3>2, <3>3, <3>4
    <3> QED BY <3>1, <3>5
  <2> QED BY <2>1
<1>2. /\ votes[1].employer \in AskingEmployer /\ votes[2].employer \in AskingEmployer
      /\ votes[1].employer # votes[2].employer
  BY <1>1 DEF VotesWereTyped, Votes
<1>3. /\ <<votes[1].employer, votes[1].value>> \in authored
      /\ <<votes[2].employer, votes[1].value>> \in authored
  BY <1>1 DEF VotesWereTyped, Consensus
<1> QED BY <1>2, <1>3 DEF TypedTwice

LEMMA RecordKeepsMemory ==
  ASSUME MemoryInv, NEW e \in AskingEmployer, NEW v \in AnswerValue, NEW edited \in BOOLEAN,
         RecordObservation(e, v, edited)
  PROVE  MemoryInv'
<1>1. authored \subseteq authored' /\ UNCHANGED <<bank, learner>>
  BY DEF RecordObservation
<1>2. \A w : TypedTwice(w) => TypedTwice(w)'
  BY <1>1 DEF TypedTwice
<1>3. VotesWereTyped'
  <2>1. CASE edited
    <3>1. votes' = WithVote(e, v) /\ <<e, v>> \in authored'
      BY <2>1 DEF RecordObservation, Counts
    <3> DEFINE new == WithVote(e, v)
    <3>2. /\ new \in Seq(Votes) /\ Len(new) \in {1, 2}
          /\ new[1] = [employer |-> e, value |-> v]
          /\ Len(new) = 2 => new[2].employer # e /\ \E i \in 1 .. Len(votes) : new[2] = votes[i]
      BY NewVote DEF MemoryInv
    <3> HIDE DEF new
    <3>3. Len(new) = 2 => <<new[2].employer, new[2].value>> \in authored
      BY <3>2 DEF MemoryInv, VotesWereTyped
    <3>4. <<new[1].employer, new[1].value>> \in authored'
      BY <3>1, <3>2
    <3>5. \A i \in 1 .. Len(new) : <<new[i].employer, new[i].value>> \in authored'
      <4> TAKE i \in 1 .. Len(new)
      <4>0. Len(new) = 1 \/ Len(new) = 2
        BY <3>2
      <4>1. i = 1 \/ (i = 2 /\ Len(new) = 2)
        BY <4>0
      <4> QED BY <1>1, <3>3, <3>4, <4>1
    <3>6. Len(new) = 2 => new[1].employer # new[2].employer
      BY <3>2
    <3>7. votes' = new
      BY <3>1 DEF new
    <3>8. Len(new) <= 2
      <4>1. \A n \in {1, 2} : n <= 2
        OBVIOUS
      <4> QED BY <3>2, <4>1
    <3> QED BY <3>2, <3>5, <3>6, <3>7, <3>8 DEF VotesWereTyped
  <2>2. CASE ~edited
    BY <1>1, <2>2 DEF RecordObservation, Counts, MemoryInv, VotesWereTyped
  <2> QED BY <2>1, <2>2
<1>4. RunsWereTyped' /\ BankIsRow' /\ LearnedWasTyped'
  BY <1>1, <1>2 DEF MemoryInv, RunsWereTyped, BankIsRow, LearnedWasTyped, Learned, TypedTwice
<1> QED BY <1>3, <1>4 DEF MemoryInv

\* A step that leaves votes and runs alone and makes the bank empty, a user's
\* row or what it was.
LEMMA UserKeepsMemory ==
  ASSUME MemoryInv, UNCHANGED <<votes, authored, learner>>,
         \/ bank' \in {bank, NoBankRow}
         \/ \E value, locked : UserWrites(value, locked)
         \/ ExpireAnswer
  PROVE  MemoryInv'
<1>1. VotesWereTyped' /\ RunsWereTyped'
  BY DEF MemoryInv, VotesWereTyped, RunsWereTyped, TypedTwice
<1>2. CASE bank' \in {bank, NoBankRow}
  BY <1>1, <1>2 DEF MemoryInv, BankIsRow, LearnedWasTyped, Learned
<1>3. CASE \E value, locked : UserWrites(value, locked)
  BY <1>1, <1>3 DEF MemoryInv, BankIsRow, LearnedWasTyped, Learned, UserWrites, Stored
<1>4. CASE ExpireAnswer
  <2>1. bank' = [bank EXCEPT !.expired = TRUE] /\ Learned
    BY <1>4 DEF ExpireAnswer
  <2>2. bank' = [id |-> bank.id, source |-> bank.source, value |-> bank.value,
                 locked |-> bank.locked, expired |-> TRUE]
    BY <2>1 DEF MemoryInv, BankIsRow, Learned
  <2>3. BankIsRow' /\ LearnedWasTyped'
    BY <2>1, <2>2 DEF MemoryInv, BankIsRow, LearnedWasTyped, Learned
  <2> QED BY <1>1, <2>3 DEF MemoryInv
<1> QED BY <1>2, <1>3, <1>4

\* A run decides on what it reads, and acts on what it decided.
LEMMA RunKeepsMemory ==
  ASSUME MemoryInv, NEW l \in Learner,
         \/ StartLearning(l) \/ SweepLearning(l) \/ LearnerStep(l) \/ LearnerDies(l)
  PROVE  MemoryInv'
<1>1. ASSUME UNCHANGED <<votes, authored>>, NEW next, next.step # "write",
             learner' = [learner EXCEPT ![l] = next]
      PROVE  VotesWereTyped' /\ RunsWereTyped'
  BY <1>1 DEF MemoryInv, VotesWereTyped, RunsWereTyped, TypedTwice
<1>2. ASSUME UNCHANGED bank, UNCHANGED authored
      PROVE  BankIsRow' /\ LearnedWasTyped'
  BY <1>2 DEF MemoryInv, BankIsRow, LearnedWasTyped, Learned
<1>3. IdleLearner.step # "write"
  BY DEF IdleLearner
<1>4. CASE StartLearning(l) \/ SweepLearning(l)
  <2> DEFINE decided == Decision(bank, votes, suggestion)
  <2>1. UNCHANGED <<bank, votes, authored>>
    BY <1>4 DEF StartLearning, SweepLearning, BeginLearning
  <2>2. PICK sweep : BeginLearning(l, sweep)
    BY <1>4 DEF StartLearning, SweepLearning
  <2>3. CASE UNCHANGED learner
    BY <1>2, <2>1, <2>3 DEF MemoryInv, VotesWereTyped, RunsWereTyped, TypedTwice
  <2>4. CASE ~UNCHANGED learner /\ decided.step # "write"
    <3>1. PICK next \in {IdleLearner, [step |-> "withdraw", id |-> bank.id, sweep |-> sweep]} :
            learner' = [learner EXCEPT ![l] = next]
      BY <2>2, <2>4, DecidedOnConsensus DEF BeginLearning
    <3>2. next.step # "write"
      BY <1>3, <3>1
    <3> QED BY <1>1, <1>2, <2>1, <3>1, <3>2 DEF MemoryInv
  <2>5. CASE ~UNCHANGED learner /\ decided.step = "write"
    <3> DEFINE next == [step |-> "write", value |-> decided.value, sweep |-> sweep]
    <3>1. learner' = [learner EXCEPT ![l] = next]
      BY <2>2, <2>5 DEF BeginLearning
    <3>2. TypedTwice(decided.value)
      BY <2>5, DecidedOnConsensus, ConsensusWasTyped DEF MemoryInv
    <3>3. VotesWereTyped' /\ RunsWereTyped'
      BY <2>1, <3>1, <3>2 DEF MemoryInv, VotesWereTyped, RunsWereTyped, TypedTwice
    <3> QED BY <1>2, <2>1, <3>3 DEF MemoryInv
  <2> QED BY <2>3, <2>4, <2>5
<1>5. CASE WithdrawAnswer(l)
  <2>1. bank' \in {bank, NoBankRow} /\ UNCHANGED <<votes, authored>>
    BY <1>5 DEF WithdrawAnswer
  <2>2. BankIsRow' /\ LearnedWasTyped'
    BY <2>1 DEF MemoryInv, BankIsRow, LearnedWasTyped, Learned
  <2> QED BY <1>1, <1>3, <1>5, <2>1, <2>2 DEF WithdrawAnswer, MemoryInv
<1>6. CASE WriteLearned(l)
  <2>1. UNCHANGED <<votes, authored>> /\ TypedTwice(learner[l].value)
    BY <1>6 DEF WriteLearned, MemoryInv, RunsWereTyped
  <2>2. PICK next \in {IdleLearner, [learner[l] EXCEPT !.step = "suggest"]} :
          learner' = [learner EXCEPT ![l] = next]
    BY <1>6 DEF WriteLearned, MemoryInv, RunsWereTyped
  <2>3. next.step # "write"
    <3>1. learner[l] = [step |-> "write", value |-> learner[l].value, sweep |-> learner[l].sweep]
      BY <1>6 DEF WriteLearned, MemoryInv, RunsWereTyped
    <3>2. [learner[l] EXCEPT !.step = "suggest"].step = "suggest"
      BY <3>1
    <3> QED BY <1>3, <2>2, <3>2
  <2>4. VotesWereTyped' /\ RunsWereTyped'
    BY <1>1, <2>1, <2>2, <2>3
  <2>5. BankIsRow' /\ LearnedWasTyped'
    <3>1. CASE UNCHANGED bank
      BY <1>2, <2>1, <3>1
    <3>2. CASE bank' = Stored("learned", learner[l].value, FALSE)
      BY <2>1, <3>2 DEF Stored, BankIsRow, LearnedWasTyped, Learned, TypedTwice
    <3> QED BY <1>6, <3>1, <3>2 DEF WriteLearned
  <2> QED BY <2>4, <2>5 DEF MemoryInv
<1>7. CASE SuggestLearned(l) \/ LearnerDies(l)
  BY <1>1, <1>2, <1>3, <1>7 DEF SuggestLearned, LearnerDies, MemoryInv
<1> QED BY <1>4, <1>5, <1>6, <1>7 DEF LearnerStep

LEMMA MemoryNextInv ==
  ASSUME MemoryInv, [MemoryNext]_memoryVars
  PROVE  MemoryInv'
<1>1. CASE UNCHANGED memoryVars
  BY <1>1, UserKeepsMemory DEF memoryVars
<1>2. CASE UserStep
  <2>1. CASE \E e \in AskingEmployer, v \in AnswerValue, edited \in BOOLEAN : RecordObservation(e, v, edited)
    BY <2>1, RecordKeepsMemory
  <2>2. CASE \E v \in AnswerValue, locked \in BOOLEAN : SaveAnswer(v, locked)
    BY <2>2, UserKeepsMemory DEF SaveAnswer
  <2>3. CASE \E v \in AnswerValue :
               QuickFill(v) \/ RememberReviewed(v) \/ AcceptSuggestion(v) \/ DismissSuggestion(v)
    BY <2>3, UserKeepsMemory
       DEF QuickFill, RememberReviewed, SaveAnswer, AcceptSuggestion, DismissSuggestion
  <2>4. CASE DeleteAnswer \/ Promote \/ Forget \/ ToggleLearning
    BY <2>4, UserKeepsMemory DEF DeleteAnswer, Promote, Forget, ToggleLearning
  <2> QED BY <1>2, <2>1, <2>2, <2>3, <2>4 DEF UserStep
<1>3. CASE ExpireAnswer
  BY <1>3, UserKeepsMemory DEF ExpireAnswer
<1>4. CASE \E l \in Learner :
             StartLearning(l) \/ SweepLearning(l) \/ LearnerStep(l) \/ LearnerDies(l)
  BY <1>4, RunKeepsMemory
<1> QED BY <1>1, <1>2, <1>3, <1>4 DEF MemoryNext

(* Nothing is learned that the user has not typed for two employers: what  *)
(* was prefilled and sent again is never evidence for itself.              *)
THEOREM LearningIsFounded == MemorySpec => []LearnedWasTyped
<1>1. MemoryInv /\ [MemoryNext]_memoryVars => MemoryInv'
  BY MemoryNextInv
<1> QED BY <1>1, MemoryInitInv, PTL DEF MemorySpec, MemoryInv

(* The learner never replaces the user's own answer, though it decided     *)
(* before the user wrote it.                                               *)
THEOREM LearnerYields == MemorySpec => LearnerSparesTheUser
<1> DEFINE Spared == bank # NoBankRow /\ bank' # NoBankRow /\ bank.source = "user" =>
                       bank'.source = "user"
<1>1. MemoryInv /\ [MemoryNext]_memoryVars => MemoryInv'
  BY MemoryNextInv
<1>2. MemoryInv /\ [MemoryNext]_memoryVars => [Spared]_memoryVars
  <2> SUFFICES ASSUME BankIsRow, MemoryNext
               PROVE  Spared
    BY DEF MemoryInv
  <2>1. CASE bank' \in {bank, NoBankRow}
    BY <2>1
  <2>2. CASE \E value, locked : UserWrites(value, locked)
    BY <2>2 DEF UserWrites, Stored
  <2>3. CASE ExpireAnswer
    BY <2>3 DEF ExpireAnswer, Learned
  <2>4. CASE \E l \in Learner : WriteLearned(l)
    BY <2>4 DEF WriteLearned, WouldRefuse, BankIsRow
  <2>5. CASE UserStep
    BY <2>1, <2>2, <2>5
       DEF UserStep, RecordObservation, SaveAnswer, QuickFill, RememberReviewed, AcceptSuggestion,
           DismissSuggestion, DeleteAnswer, Promote, Forget, ToggleLearning
  <2>6. CASE \E l \in Learner : StartLearning(l) \/ SweepLearning(l) \/ LearnerDies(l)
    BY <2>1, <2>6 DEF StartLearning, SweepLearning, BeginLearning, LearnerDies
  <2>7. CASE \E l \in Learner : WithdrawAnswer(l) \/ SuggestLearned(l)
    BY <2>1, <2>7 DEF WithdrawAnswer, SuggestLearned
  <2> QED BY <2>3, <2>4, <2>5, <2>6, <2>7 DEF MemoryNext, LearnerStep
<1>3. MemorySpec => [][Spared]_memoryVars
  BY <1>1, <1>2, MemoryInitInv, PTL DEF MemorySpec
<1> QED BY <1>3 DEF LearnerSparesTheUser

(***************************************************************************)
(* The learner is idempotent, for what a run would do depends on nothing   *)
(* but what the memory's types promise.                                    *)
(***************************************************************************)

\* There is a key that nobody knows: the withdrawing runs have one each.
LEMMA FreshKey ==
  ASSUME bank = NoBankRow
  PROVE  FreshId \in RowId
<1> DEFINE known == {learner[l].id : l \in Learner}
<1>1. IsFiniteSet(known) /\ Cardinality(known) <= Cardinality(Learner)
  <2> DEFINE key == [l \in Learner |-> learner[l].id]
  <2>1. known = {key[l] : l \in Learner}
    OBVIOUS
  <2> HIDE DEF key, known
  <2> QED BY <2>1, MemoryAssumption, ImageIsFinite
<1>2. ~ (RowId \subseteq known)
  <2> SUFFICES ASSUME RowId \subseteq known PROVE FALSE
    OBVIOUS
  <2>1. IsFiniteSet(RowId) /\ Cardinality(RowId) <= Cardinality(known)
    BY <1>1, FS_Subset
  <2>2. /\ Cardinality(RowId) \in Nat /\ Cardinality(known) \in Nat /\ Cardinality(Learner) \in Nat
        /\ Cardinality(Learner) < Cardinality(RowId)
    BY <1>1, <2>1, MemoryAssumption, FS_CardinalityType
  <2> HIDE DEF known
  <2> QED BY <1>1, <2>1, <2>2
<1>3. \E id \in RowId : \A l \in Learner : learner[l].id # id
  BY <1>2
<1>4. \E id \in RowId : /\ bank # NoBankRow => bank.id # id
                        /\ \A l \in Learner : learner[l].step = "withdraw" => learner[l].id # id
  BY <1>3
<1> QED BY <1>4 DEF FreshId

LEMMA StoredIsRow ==
  ASSUME bank \in BankRows \cup {NoBankRow}, NEW kind \in {"user", "learned"},
         NEW v \in AnswerValue, NEW locked \in BOOLEAN
  PROVE  /\ Stored(kind, v, locked) \in BankRows /\ Stored(kind, v, locked) # NoBankRow
         /\ Stored(kind, v, locked).source = kind /\ Stored(kind, v, locked).value = v
<1> DEFINE id == IF bank = NoBankRow THEN FreshId ELSE bank.id
<1>1. id \in RowId
  BY FreshKey DEF BankRows
<1>2. Stored(kind, v, locked) = [id |-> id, source |-> kind, value |-> v, locked |-> locked, expired |-> FALSE]
  BY DEF Stored
<1> HIDE DEF id
<1>3. Stored(kind, v, locked) \in BankRows
  BY <1>1, <1>2 DEF BankRows
<1>4. Stored(kind, v, locked) # NoBankRow
  BY <1>3, MemoryAssumption
<1>5. Stored(kind, v, locked).source = kind /\ Stored(kind, v, locked).value = v
  BY <1>2
<1> QED BY <1>3, <1>4, <1>5

LEMMA DecisionsTyped ==
  ASSUME MemoryTypeOK
  PROVE  LET decided == Decision(bank, votes, suggestion) IN
         /\ decided.step \in {"skip", "withdraw", "write"}
         /\ decided.step = "withdraw" => bank \in BankRows
         /\ decided.step = "write" => decided.value \in AnswerValue
<1>1. votes \in Seq(Votes) /\ bank \in BankRows \cup {NoBankRow}
  BY DEF MemoryTypeOK
<1>2. votes # <<>> => votes[1] \in Votes
  BY <1>1
<1>3. votes # <<>> => votes[1].value \in AnswerValue
  BY <1>2 DEF Votes
<1> QED BY <1>1, <1>3 DEF Decision, Skip

LEMMA WithVoteTyped ==
  ASSUME MemoryTypeOK, NEW e \in AskingEmployer, NEW v \in AnswerValue
  PROVE  WithVote(e, v) \in Seq(Votes)
<1> DEFINE others == {i \in DOMAIN votes : votes[i].employer # e}
           first == CHOOSE i \in others : \A j \in others : i <= j
           vote == [employer |-> e, value |-> v]
<1>1. votes \in Seq(Votes) /\ vote \in Votes
  BY DEF MemoryTypeOK, Votes
<1>2. CASE others = {}
  BY <1>1, <1>2 DEF WithVote
<1>3. CASE others # {}
  <2>1. \E i \in others : \A j \in others : i <= j
    <3>1. others \subseteq Nat
      BY <1>1
    <3> QED BY <1>3, <3>1, SmallestOf
  <2>2. first \in others
    BY <2>1
  <2>3. votes[first] \in Votes
    BY <1>1, <2>2
  <2> HIDE DEF first
  <2>4. WithVote(e, v) = <<vote, votes[first]>>
    BY <1>3 DEF WithVote, first
  <2> QED BY <1>1, <2>3, <2>4
<1> QED BY <1>2, <1>3

LEMMA MemoryInitTyped == MemoryInit => MemoryTypeOK
<1>1. <<>> \in Seq(Votes)
  OBVIOUS
<1> QED BY <1>1 DEF MemoryInit, MemoryTypeOK, LearnerSteps

LEMMA MemoryStepTyped == MemoryTypeOK /\ [MemoryNext]_memoryVars => MemoryTypeOK'
<1> SUFFICES ASSUME MemoryTypeOK, [MemoryNext]_memoryVars PROVE MemoryTypeOK'
  OBVIOUS
<1>1. ASSUME NEW v \in AnswerValue, NEW locked \in BOOLEAN, UserWrites(v, locked)
      PROVE  bank' \in BankRows \cup {NoBankRow}
  BY <1>1, StoredIsRow DEF UserWrites, MemoryTypeOK
<1>2. ASSUME NEW e \in AskingEmployer, NEW v \in AnswerValue, NEW edited \in BOOLEAN,
             RecordObservation(e, v, edited)
      PROVE  MemoryTypeOK'
  BY <1>2, WithVoteTyped DEF RecordObservation, MemoryTypeOK
<1>3. ASSUME NEW v \in AnswerValue, NEW locked \in BOOLEAN, SaveAnswer(v, locked)
      PROVE  MemoryTypeOK'
  BY <1>1, <1>3 DEF SaveAnswer, MemoryTypeOK
<1>4. ASSUME NEW v \in AnswerValue, QuickFill(v) \/ RememberReviewed(v)
      PROVE  MemoryTypeOK'
  <2>1. held \in BOOLEAN
    BY DEF MemoryTypeOK
  <2> QED BY <1>3, <1>4, <2>1 DEF QuickFill, RememberReviewed
<1>5. ASSUME NEW v \in AnswerValue, AcceptSuggestion(v) \/ DismissSuggestion(v)
      PROVE  MemoryTypeOK'
  <2>1. held \in BOOLEAN
    BY DEF MemoryTypeOK
  <2> QED BY <1>1, <1>5, <2>1 DEF AcceptSuggestion, DismissSuggestion, MemoryTypeOK
<1>6. CASE DeleteAnswer \/ Forget \/ ToggleLearning
  BY <1>6 DEF DeleteAnswer, Forget, ToggleLearning, MemoryTypeOK
<1>7. CASE Promote
  <2>1. held \in BOOLEAN /\ bank.value \in AnswerValue
    BY <1>7 DEF MemoryTypeOK, Promote, Learned, BankRows
  <2>2. bank' \in BankRows \cup {NoBankRow}
    BY <1>1, <1>7, <2>1 DEF Promote
  <2> QED BY <1>7, <2>2 DEF Promote, MemoryTypeOK
<1>8. CASE ExpireAnswer
  BY <1>8 DEF ExpireAnswer, Learned, MemoryTypeOK, BankRows
<1>9. ASSUME NEW l \in Learner, NEW sweep \in BOOLEAN, BeginLearning(l, sweep), due' \in BOOLEAN
      PROVE  MemoryTypeOK'
  <2> DEFINE decided == Decision(bank, votes, suggestion)
  <2>1. UNCHANGED <<bank, votes, authored, held, learningOn>>
    BY <1>9 DEF BeginLearning
  <2>2. CASE ~learningOn
    BY <1>9, <2>1, <2>2 DEF BeginLearning, MemoryTypeOK
  <2>3. CASE learningOn
    <3>1. PICK old \in SUBSET {v \in AnswerValue : suggestion[v] = "pending"} :
            /\ suggestion' = [v \in AnswerValue |-> IF v \in old THEN "none" ELSE suggestion[v]]
            /\ unread' = FALSE
            /\ learner' = [learner EXCEPT ![l] =
                 CASE decided.step = "skip" -> IdleLearner
                   [] decided.step = "withdraw" ->
                        [step |-> "withdraw", id |-> bank.id, sweep |-> sweep]
                   [] decided.step = "write" ->
                        [step |-> "write", value |-> decided.value, sweep |-> sweep]]
      BY <1>9, <2>3 DEF BeginLearning
    <3>2. suggestion' \in [AnswerValue -> {"none", "pending", "accepted", "rejected"}]
      BY <3>1 DEF MemoryTypeOK
    <3>3. /\ decided.step \in {"skip", "withdraw", "write"}
          /\ decided.step = "withdraw" => bank \in BankRows
          /\ decided.step = "write" => decided.value \in AnswerValue
      BY DecisionsTyped
    <3> HIDE DEF decided
    <3>4. learner' \in [Learner -> LearnerSteps]
      <4>1. PICK next \in LearnerSteps : learner' = [learner EXCEPT ![l] = next]
        <5>1. CASE decided.step = "skip"
          BY <3>1, <5>1 DEF LearnerSteps
        <5>2. CASE decided.step = "withdraw"
          <6>1. [step |-> "withdraw", id |-> bank.id, sweep |-> sweep] \in LearnerSteps
            BY <3>3, <5>2 DEF LearnerSteps, BankRows
          <6> QED BY <3>1, <5>2, <6>1
        <5>3. CASE decided.step = "write"
          <6>1. [step |-> "write", value |-> decided.value, sweep |-> sweep] \in LearnerSteps
            BY <3>3, <5>3 DEF LearnerSteps
          <6> QED BY <3>1, <5>3, <6>1
        <5> QED BY <3>3, <5>1, <5>2, <5>3
      <4> QED BY <4>1 DEF MemoryTypeOK
    <3> QED BY <1>9, <2>1, <3>1, <3>2, <3>4 DEF MemoryTypeOK
  <2> QED BY <2>2, <2>3
<1>10. ASSUME NEW l \in Learner, StartLearning(l) \/ SweepLearning(l)
       PROVE  MemoryTypeOK'
  <2>1. due' \in BOOLEAN
    BY <1>10 DEF StartLearning, SweepLearning, MemoryTypeOK
  <2> QED BY <1>9, <1>10, <2>1 DEF StartLearning, SweepLearning
<1>11. ASSUME NEW l \in Learner, WithdrawAnswer(l) \/ LearnerDies(l)
       PROVE  MemoryTypeOK'
  BY <1>11 DEF WithdrawAnswer, LearnerDies, MemoryTypeOK, LearnerSteps
<1>12. ASSUME NEW l \in Learner, learner[l].step \in {"write", "suggest"}
       PROVE  /\ learner[l].value \in AnswerValue
              /\ [learner[l] EXCEPT !.step = "suggest"] \in LearnerSteps
  <2>1. learner[l] \in [step : {"write", "suggest"}, value : AnswerValue, sweep : BOOLEAN]
    BY <1>12 DEF MemoryTypeOK, LearnerSteps, IdleLearner
  <2> QED BY <2>1 DEF LearnerSteps
<1>13. ASSUME NEW l \in Learner, WriteLearned(l)
       PROVE  MemoryTypeOK'
  <2>1. /\ learner[l].value \in AnswerValue
        /\ [learner[l] EXCEPT !.step = "suggest"] \in LearnerSteps
    BY <1>12, <1>13 DEF WriteLearned
  <2>2. bank' \in BankRows \cup {NoBankRow}
    <3>1. bank \in BankRows \cup {NoBankRow}
      BY DEF MemoryTypeOK
    <3>2. Stored("learned", learner[l].value, FALSE) \in BankRows
      BY <2>1, <3>1, StoredIsRow
    <3>3. bank' \in {bank, Stored("learned", learner[l].value, FALSE)}
      BY <1>13 DEF WriteLearned
    <3> QED BY <3>1, <3>2, <3>3
  <2>3. PICK next \in LearnerSteps : learner' = [learner EXCEPT ![l] = next]
    BY <1>13, <2>1 DEF WriteLearned, LearnerSteps
  <2>4. learner' \in [Learner -> LearnerSteps]
    BY <2>3 DEF MemoryTypeOK
  <2> QED BY <1>13, <2>2, <2>4 DEF WriteLearned, MemoryTypeOK
<1>14. ASSUME NEW l \in Learner, SuggestLearned(l)
       PROVE  MemoryTypeOK'
  <2>1. learner[l].value \in AnswerValue
    BY <1>12, <1>14 DEF SuggestLearned
  <2> QED BY <1>14, <2>1 DEF SuggestLearned, EnsuredStatus, MemoryTypeOK, LearnerSteps
<1>15. CASE UNCHANGED memoryVars
  BY <1>15 DEF memoryVars, MemoryTypeOK
<1> QED
  BY <1>2, <1>3, <1>4, <1>5, <1>6, <1>7, <1>8, <1>10, <1>11, <1>13, <1>14, <1>15
     DEF MemoryNext, UserStep, LearnerStep

LEMMA MemoryTyping == MemorySpec => []MemoryTypeOK
  BY MemoryInitTyped, MemoryStepTyped, PTL DEF MemorySpec

\* Withdrawing leaves nothing to withdraw, and writing what will be left.
LEMMA TypedIsIdempotent == MemoryTypeOK => LearningIsIdempotent
<1> SUFFICES ASSUME MemoryTypeOK PROVE LearningIsIdempotent
  OBVIOUS
<1> DEFINE first == Decision(bank, votes, suggestion)
           after == CASE first.step = "skip" -> bank
                      [] first.step = "withdraw" -> NoBankRow
                      [] first.step = "write" -> Stored("learned", first.value, FALSE)
           status == IF first.step = "write" /\ held
                     THEN [suggestion EXCEPT ![first.value] = EnsuredStatus(@)] ELSE suggestion
<1>1. /\ first.step \in {"skip", "withdraw", "write"}
      /\ first.step = "write" => first.value \in AnswerValue
  BY DecisionsTyped
<1>2. CASE first.step = "skip"
  <2>1. first = Skip
    BY <1>2 DEF Decision, Skip
  <2>2. after = bank /\ status = suggestion
    BY <1>2
  <2> HIDE DEF after, status
  <2> QED BY <2>1, <2>2 DEF LearningIsIdempotent, after, status
<1>3. CASE first.step = "withdraw"
  <2>1. /\ votes # <<>> /\ bank # NoBankRow
        /\ Consensus(votes) => suggestion[votes[1].value] = "rejected"
    BY <1>3 DEF Decision, Skip, Suppressed
  <2>2. after = NoBankRow /\ status = suggestion
    BY <1>3
  <2>3. Decision(NoBankRow, votes, suggestion) = Skip
    BY <2>1 DEF Decision, Suppressed
  <2> HIDE DEF first
  <2>4. Decision(after, votes, status) = Skip
    BY <2>2, <2>3, Zenon
  <2> QED BY <2>4 DEF LearningIsIdempotent, first
<1>4. CASE first.step = "write"
  <2>1. /\ votes # <<>> /\ Consensus(votes) /\ first.value = votes[1].value
    BY <1>4 DEF Decision, Skip
  <2>2. after = Stored("learned", votes[1].value, FALSE)
    BY <1>4, <2>1
  <2>3. after # NoBankRow /\ after.source = "learned" /\ after.value = votes[1].value
    BY <1>1, <1>4, <2>1, <2>2, StoredIsRow DEF MemoryTypeOK
  <2> HIDE DEF after, status, first
  <2>4. Decision(after, votes, status) = Skip
    BY <2>1, <2>3 DEF Decision
  <2> QED BY <2>4 DEF LearningIsIdempotent, after, status, first
<1> QED BY <1>1, <1>2, <1>3, <1>4

(* A learner that runs again on the same votes changes nothing more.       *)
THEOREM LearningSettles == MemorySpec => []LearningIsIdempotent
  BY MemoryTyping, TypedIsIdempotent, PTL

(***************************************************************************)
(* The source of an answer.  The sources are asked in order, and the first *)
(* that has something to say answers.                                      *)
(***************************************************************************)
LEMMA FoundFields ==
  /\ \A from, value, hold : Found(from, value, hold).origin = from /\ Found(from, value, hold).value = value
  /\ Nothing.origin = "none"
BY DEF Found, Nothing

BackfillAnswers(q, p, job, form, legacy) ==
  ~TypedFact(q, p, job, form).covered /\ legacy # NoAnswer /\ LegacyApplies(q, job, legacy)

LEMMA SourceOfAnswer ==
  ASSUME NEW q, NEW p, NEW job, NEW form, NEW rows, NEW legacy, NEW on, NEW reply
  PROVE  LET fact == TypedFact(q, p, job, form)
             row == BankRow(q, job, rows)
             answer == FieldAnswer(q, p, job, form, rows, legacy, on, reply)
             says == fact # NotTyped /\ fact.value # NoAnswer
         IN \/ says /\ answer.origin = "profile" /\ answer.value = fact.value
            \/ /\ ~says /\ Usable(row, on)
               /\ answer.origin = "bank" /\ answer.value = Mapped(row.value, form)
            \/ /\ ~says /\ ~Usable(row, on) /\ BackfillAnswers(q, p, job, form, legacy)
               /\ answer.origin = "legacy" /\ answer.value = Mapped(legacy.value, form)
            \/ /\ ~says /\ ~Usable(row, on) /\ ~BackfillAnswers(q, p, job, form, legacy)
               /\ \/ answer.origin = "blank" /\ answer.value = NoAnswer
                  \/ answer.origin = "llm" /\ ~q.excluded
<1> DEFINE fact == TypedFact(q, p, job, form)
           row == BankRow(q, job, rows)
           answer == FieldAnswer(q, p, job, form, rows, legacy, on, reply)
           found == ResolveAnswer(q, p, job, form, rows, legacy, on)
           says == fact # NotTyped /\ fact.value # NoAnswer
           hold == q.held /\ p.imported
           doubt == row.source = "learned" \/ (q.held /\ row.source # "user")
<1>1. found = IF says THEN Found("profile", fact.value, hold)
              ELSE IF Usable(row, on) THEN Found("bank", Mapped(row.value, form), doubt)
              ELSE IF BackfillAnswers(q, p, job, form, legacy)
              THEN Found("legacy", Mapped(legacy.value, form), FALSE)
              ELSE Nothing
  BY Zenon DEF ResolveAnswer, BankAnswer, BackfillAnswers
<1>2. found # Nothing => answer = found
  BY Zenon DEF FieldAnswer
<1>3. found = Nothing => IF BlocksLlm(q) \/ q.excluded THEN answer = Found("blank", NoAnswer, FALSE)
                         ELSE answer = Inferred(reply, form)
  BY Zenon DEF FieldAnswer
<1> DEFINE doubtful == reply.outcome # "grounded"
<1>4. \/ Inferred(reply, form) = Found("blank", NoAnswer, FALSE)
      \/ Inferred(reply, form) = Found("llm", Mapped(reply.value, form), doubtful)
  BY Zenon DEF Inferred
<1> DEFINE none == Found("blank", NoAnswer, FALSE)
           guess == Found("llm", Mapped(reply.value, form), doubtful)
           set == Found("profile", fact.value, hold)
           kept == Found("bank", Mapped(row.value, form), doubt)
           old == Found("legacy", Mapped(legacy.value, form), FALSE)
<1> HIDE DEF hold, doubt, doubtful
<1>5. /\ none.origin = "blank" /\ none.value = NoAnswer /\ guess.origin = "llm"
      /\ set.origin = "profile" /\ set.value = fact.value
      /\ kept.origin = "bank" /\ kept.value = Mapped(row.value, form)
      /\ old.origin = "legacy" /\ old.value = Mapped(legacy.value, form)
  <2>1. none.origin = "blank" /\ none.value = NoAnswer
    BY FoundFields, Zenon
  <2>2. guess.origin = "llm"
    BY FoundFields, Zenon
  <2>3. set.origin = "profile" /\ set.value = fact.value
    <3> HIDE DEF fact
    <3> QED BY FoundFields
  <2>4. kept.origin = "bank" /\ kept.value = Mapped(row.value, form)
    BY FoundFields, Zenon
  <2>5. old.origin = "legacy" /\ old.value = Mapped(legacy.value, form)
    BY FoundFields, Zenon
  <2> HIDE DEF none, guess, set, kept, old, fact, row
  <2> QED BY <2>1, <2>2, <2>3, <2>4, <2>5
<1> HIDE DEF none, guess, set, kept, old
<1>6. set # Nothing /\ kept # Nothing /\ old # Nothing
  BY <1>5, FoundFields
<1>7. found = IF says THEN set ELSE IF Usable(row, on) THEN kept
              ELSE IF BackfillAnswers(q, p, job, form, legacy) THEN old ELSE Nothing
  BY <1>1, Zenon DEF set, kept, old
<1>8. found = Nothing => answer = none \/ (~q.excluded /\ answer = guess)
  BY <1>3, <1>4, Zenon DEF none, guess
<1> HIDE DEF found, answer, says, fact, row
<1>9. CASE says
  BY <1>2, <1>5, <1>6, <1>7, <1>9, Zenon DEF answer, says, fact
<1>10. CASE ~says /\ Usable(row, on)
  BY <1>2, <1>5, <1>6, <1>7, <1>10, Zenon DEF answer, says, fact, row
<1>11. CASE ~says /\ ~Usable(row, on) /\ BackfillAnswers(q, p, job, form, legacy)
  BY <1>2, <1>5, <1>6, <1>7, <1>11, Zenon DEF answer, says, fact, row
<1>12. CASE ~says /\ ~Usable(row, on) /\ ~BackfillAnswers(q, p, job, form, legacy)
  BY <1>5, <1>7, <1>8, <1>12, Zenon DEF answer, says, fact, row
<1> QED BY <1>9, <1>10, <1>11, <1>12, Zenon

(***************************************************************************)
(* Settings.  What a status entered for the country of a question puts on  *)
(* the form is entailed by it; where it puts nothing there, a saved answer *)
(* may, and so may the language model where the wording is not known.      *)
(***************************************************************************)

\* What a status settles, and what it leaves open.
LEMMA StatusSettles ==
  ASSUME NEW q, NEW status, NEW form,
         Authorization(q, status, form).value \in {"yes", "no"}
  PROVE  Entailed(q, Authorization(q, status, form).value, status)
<1> DEFINE truth == IF q.kind = "authorization" THEN Authorized(status) ELSE NeedsSponsor(status)
           open == \/ truth = "unknown"
                   \/ /\ q.kind = "authorization" /\ q.restricted /\ truth = "yes"
                      /\ NeedsSponsor(status) = "unknown"
           value == Authorization(q, status, form).value
<1>1. ~open
  <2>1. NoAnswer \notin {"yes", "no"}
    BY SourcesAssumption
  <2>2. CASE open
    <3>1. value = NoAnswer
      BY <2>2 DEF Authorization, Undecided
    <3> QED BY <2>1, <3>1
  <2> QED BY <2>2
<1>2. value = truth
  <2>1. value = Mapped(truth, form)
    BY <1>1 DEF Authorization, Fact
  <2>2. Mapped(truth, form) \in {truth, NoAnswer} /\ NoAnswer \notin {"yes", "no"}
    BY SourcesAssumption DEF Mapped
  <2> QED BY <2>1, <2>2
<1>3. Authorized(status) = "yes" => status \in {"citizen", "resident", "visa"}
  BY DEF Authorized
<1>4. NeedsSponsor(status) = "no" => status \in {"citizen", "resident"}
  BY DEF NeedsSponsor
<1>5. NeedsSponsor("visa") = "unknown"
  BY DEF NeedsSponsor
<1> HIDE DEF value, truth, open
<1>6. CASE q.kind = "authorization"
  <2>1. truth = Authorized(status)
    BY <1>6 DEF truth
  <2>2. value = "yes" => ~(q.restricted /\ NeedsSponsor(status) = "unknown")
    BY <1>1, <1>2, <1>6 DEF open
  <2>3. value = "yes" => status \in {"citizen", "resident", "visa"}
    BY <1>2, <1>3, <2>1
  <2>4. value = "yes" => (q.restricted => status # "visa")
    BY <1>5, <2>2
  <2> QED BY <1>6, <2>3, <2>4 DEF Entailed, value
<1>7. CASE q.kind # "authorization"
  BY <1>2, <1>4, <1>7 DEF Entailed, value, truth
<1> QED BY <1>6, <1>7

(* What contradicts a setting is an answer saved under the very question,  *)
(* or an inference about words classify does not know, and then only where *)
(* the setting put nothing on the form: for all countries, statuses, forms *)
(* and saved answers.                                                      *)
THEOREM SettingsAreKept ==
  \A q \in Question, p \in Applicant, job \in Place, form \in SUBSET Meaning, rows \in Bank,
     legacy \in LegacyRow \cup {NoAnswer}, on \in BOOLEAN, reply \in Inference :
    SettingsAreNeverContradicted(q, p, job, form, rows, legacy, on, reply)
<1> TAKE q \in Question, p \in Applicant, job \in Place, form \in SUBSET Meaning, rows \in Bank,
         legacy \in LegacyRow \cup {NoAnswer}, on \in BOOLEAN, reply \in Inference
<1> DEFINE status == p.status[Subject(q, job)]
           fact == TypedFact(q, p, job, form)
           answer == FieldAnswer(q, p, job, form, rows, legacy, on, reply)
           row == rows[NoPlace]
<1> SUFFICES ASSUME Contradicts(q, p, job, answer.value)
             PROVE  /\ fact.value = NoAnswer
                    /\ \/ answer.origin = "bank" /\ row # NoAnswer /\ row.value = answer.value
                       \/ answer.origin = "llm" /\ ~q.excluded
  BY DEF SettingsAreNeverContradicted
<1>1. /\ q.kind \in {"authorization", "sponsorship"} /\ Subject(q, job) # NoPlace /\ status # "none"
      /\ answer.value \in {"yes", "no"} /\ ~Entailed(q, answer.value, status)
  BY DEF Contradicts, PlainKind
<1>2. fact = Authorization(q, status, form)
  BY <1>1 DEF TypedFact, PlainKind
<1>3. fact.covered = TRUE
  BY <1>2 DEF Authorization, Undecided, Fact
<1>4. fact # NotTyped
  BY <1>3 DEF NotTyped
<1>5. BankRow(q, job, rows) = row
  BY <1>1 DEF BankRow, LocationSensitive
<1>6. fact.value \in {"yes", "no"} => Entailed(q, fact.value, status)
  <2> HIDE DEF status, fact
  <2> QED BY <1>2, StatusSettles
<1>7. ~BackfillAnswers(q, p, job, form, legacy)
  BY <1>3 DEF BackfillAnswers
<1>8. NoAnswer \notin {"yes", "no"}
  BY SourcesAssumption
<1>9. Mapped(row.value, form) \in {row.value, NoAnswer}
  BY DEF Mapped
<1>10. Usable(row, on) => row # NoAnswer
  BY DEF Usable
<1>11. \/ fact.value # NoAnswer /\ answer.value = fact.value
       \/ /\ fact.value = NoAnswer /\ Usable(row, on)
          /\ answer.origin = "bank" /\ answer.value = Mapped(row.value, form)
       \/ /\ fact.value = NoAnswer
          /\ \/ answer.origin = "blank" /\ answer.value = NoAnswer
             \/ answer.origin = "llm" /\ ~q.excluded
  <2> DEFINE kept == BankRow(q, job, rows)
  <2>1. \/ fact.value # NoAnswer /\ answer.value = fact.value
        \/ /\ fact.value = NoAnswer /\ Usable(kept, on)
           /\ answer.origin = "bank" /\ answer.value = Mapped(kept.value, form)
        \/ /\ fact.value = NoAnswer
           /\ \/ answer.origin = "blank" /\ answer.value = NoAnswer
              \/ answer.origin = "llm" /\ ~q.excluded
    <3> DEFINE says == fact # NotTyped /\ fact.value # NoAnswer
    <3>1. \/ says /\ answer.origin = "profile" /\ answer.value = fact.value
          \/ /\ ~says /\ Usable(kept, on)
             /\ answer.origin = "bank" /\ answer.value = Mapped(kept.value, form)
          \/ /\ ~says /\ ~Usable(kept, on) /\ BackfillAnswers(q, p, job, form, legacy)
             /\ answer.origin = "legacy" /\ answer.value = Mapped(legacy.value, form)
          \/ /\ ~says /\ ~Usable(kept, on) /\ ~BackfillAnswers(q, p, job, form, legacy)
             /\ \/ answer.origin = "blank" /\ answer.value = NoAnswer
                \/ answer.origin = "llm" /\ ~q.excluded
      BY SourceOfAnswer
    <3>2. fact # NotTyped
      BY <1>4
    <3> HIDE DEF kept, fact, answer
    <3> QED BY <3>1, <3>2, <1>7, Zenon
  <2> HIDE DEF kept, fact, answer
  <2>2. kept = row
    BY <1>5 DEF kept
  <2> QED BY <2>1, <2>2
<1> HIDE DEF status, fact, answer, row
<1> QED BY <1>1, <1>6, <1>8, <1>9, <1>10, <1>11

(***************************************************************************)
(* Answers.  What a setting answers is refused where no country is named;  *)
(* an answer about relocation is saved under the region of its job.        *)
(***************************************************************************)

LEMMA FactsAreTyped ==
  ASSUME NEW q, NEW p, NEW job, NEW form, q.kind \in PlainKind \cup {"contact", "salary"}
  PROVE  TypedFact(q, p, job, form) # NotTyped
<1> DEFINE fact == TypedFact(q, p, job, form)
<1>1. NoPlace # NoAnswer
  BY SourcesAssumption
<1>2. Unknown # NotTyped
  BY <1>1 DEF Unknown, NotTyped
<1>3. NotTyped.covered = FALSE
  BY DEF NotTyped
<1>4. \A value : Fact(value, form).covered = TRUE
  BY DEF Fact
<1>5. CASE q.kind \in {"authorization", "sponsorship"}
  <2>1. fact = Unknown \/ fact = Authorization(q, p.status[Subject(q, job)], form)
    BY <1>5 DEF TypedFact, PlainKind
  <2>2. Authorization(q, p.status[Subject(q, job)], form).covered = TRUE
    BY DEF Authorization, Undecided, Fact
  <2> HIDE DEF fact
  <2> QED BY <1>2, <1>3, <2>1, <2>2 DEF fact
<1>6. CASE q.kind = "contact"
  <2>1. fact = Contact(q, p.home, form)
    BY <1>6 DEF TypedFact, PlainKind
  <2>2. Contact(q, p.home, form) = Unknown \/ Contact(q, p.home, form) = Fact(p.home, form)
    BY <1>6, Zenon DEF Contact
  <2> HIDE DEF fact
  <2> QED BY <1>2, <1>3, <1>4, <2>1, <2>2 DEF fact
<1>7. CASE q.kind = "salary"
  <2>1. fact = Unknown \/ fact = Fact(RegionOf(job), form)
    BY <1>7 DEF TypedFact, PlainKind
  <2> HIDE DEF fact
  <2> QED BY <1>2, <1>3, <1>4, <2>1 DEF fact
<1> QED BY <1>5, <1>6, <1>7 DEF PlainKind

\* Without a row nothing comes from the bank.
LEMMA NoRowNoBankAnswer ==
  ASSUME NEW q, NEW p, NEW job, NEW form, NEW kept, BankRow(q, job, kept) = NoAnswer
  PROVE  ResolveAnswer(q, p, job, form, kept, NoAnswer, TRUE).origin # "bank"
<1> DEFINE fact == TypedFact(q, p, job, form)
           hold == q.held /\ p.imported
<1>1. ~Usable(NoAnswer, TRUE)
  BY DEF Usable
<1>2. ResolveAnswer(q, p, job, form, kept, NoAnswer, TRUE)
        = IF fact # NotTyped /\ fact.value # NoAnswer
          THEN Found("profile", fact.value, hold) ELSE Nothing
  BY <1>1, Zenon DEF ResolveAnswer
<1> HIDE DEF fact, hold
<1>3. Found("profile", fact.value, hold).origin = "profile" /\ Nothing.origin = "none"
  BY FoundFields
<1> QED BY <1>2, <1>3

\* Only an answer about relocation is kept, under the region of its job.
KeptForRegion(q, job, kept) ==
  \/ kept = EmptyBank
  \/ /\ q.kind = "relocation" /\ RegionOf(job) # NoPlace
     /\ \E row : row.everywhere = FALSE /\ kept = [EmptyBank EXCEPT ![RegionOf(job)] = row]

LEMMA KeptAnswers ==
  ASSUME NEW q \in Question, NEW p, NEW job \in Place, NEW form, NEW value, NEW everywhere \in BOOLEAN,
         NEW panel \in BOOLEAN, q.kind \notin {"skill", "attestation"} \cup Unscoped, ~NamesOne(q),
         ~(q.kind = "relocation" /\ everywhere)
  PROVE  KeptForRegion(q, job, AskedToSave(q, p, job, form, value, everywhere, panel))
<1> DEFINE refused == IF panel THEN PanelRefuses(q, p, job, form) ELSE SettingsOwned(q, p, job, form)
           kept == AskedToSave(q, p, job, form, value, everywhere, panel)
<1>1. kept = Remembered(q, p, job, form, value, everywhere, refused)
  BY Zenon DEF AskedToSave
<1>2. q.kind \in PlainKind \cup {"citizen", "nationality", "member", "salary", "contact", "relocation"}
  BY DEF Question, Unscoped, PlainKind
<1>3. CASE q.kind \in {"citizen", "nationality", "member"}
  <2>1. refused
    BY <1>3 DEF PanelRefuses, SettingsOwned, BlocksLlm
  <2> HIDE DEF refused, kept
  <2> QED BY <1>1, <2>1 DEF Remembered, kept, KeptForRegion
<1>4. CASE q.kind \in PlainKind \cup {"contact", "salary"}
  <2>1. TypedFact(q, p, job, form) # NotTyped
    BY <1>4, FactsAreTyped
  <2>2. refused
    BY <2>1 DEF PanelRefuses, SettingsOwned
  <2> HIDE DEF refused, kept
  <2> QED BY <1>1, <2>2 DEF Remembered, kept, KeptForRegion
<1>5. CASE q.kind = "relocation"
  <2>1. LocationSensitive(q) /\ everywhere = FALSE
    BY <1>5 DEF LocationSensitive
  <2> DEFINE global == LocationSensitive(q) /\ everywhere
             row == [source |-> "user", value |-> value, everywhere |-> global, expired |-> FALSE]
  <2>2. PICK no \in BOOLEAN : no = global
    OBVIOUS
  <2>3. no = FALSE
    BY <2>1, <2>2
  <2>4. row = [source |-> "user", value |-> value, everywhere |-> no, expired |-> FALSE]
    BY <2>2, Zenon
  <2>5. row.everywhere = no
    BY <2>4, Zenon
  <2> HIDE DEF refused, kept, row
  <2>6. \/ kept = EmptyBank
        \/ RegionOf(job) # NoPlace /\ kept = [EmptyBank EXCEPT ![RegionOf(job)] = row]
    <3>1. kept = LET scope == RegionOf(job) IN
                 IF refused \/ scope = NoPlace THEN EmptyBank
                 ELSE [EmptyBank EXCEPT ![scope] = row]
      BY <1>1, <2>1, Zenon DEF Remembered, row
    <3> QED BY <3>1, Zenon
  <2> QED BY <1>5, <2>3, <2>5, <2>6, Zenon DEF kept, KeptForRegion
<1> HIDE DEF kept
<1>6. \/ q.kind \in {"citizen", "nationality", "member"} \/ q.kind \in PlainKind \cup {"contact", "salary"}
      \/ q.kind = "relocation"
  BY <1>2
<1> QED BY <1>3, <1>4, <1>5, <1>6, Zenon

(* No answer given for a job in one country fills itself in, or is offered,*)
(* for a job in another (about relocation, in another region): whatever    *)
(* the countries, settings and forms, for every kind of question that is   *)
(* read and names no country.                                              *)
THEOREM AnswersStay ==
  \A q \in Question, p \in Applicant, job \in Place, other \in Place, form \in SUBSET Meaning,
     value \in Meaning, everywhere \in BOOLEAN, panel \in BOOLEAN :
    AnswersStayInTheirCountry(q, p, job, other, form, value, everywhere, panel)
<1> TAKE q \in Question, p \in Applicant, job \in Place, other \in Place, form \in SUBSET Meaning,
         value \in Meaning, everywhere \in BOOLEAN, panel \in BOOLEAN
<1> DEFINE kept == AskedToSave(q, p, job, form, value, everywhere, panel)
<1> SUFFICES ASSUME q.kind \notin {"skill", "attestation"} \cup Unscoped, ~NamesOne(q),
                    Apart(q, job, other), ~(q.kind = "relocation" /\ everywhere)
             PROVE  ~FillsItselfIn(q, p, other, form, kept)
  BY DEF AnswersStayInTheirCountry
<1>1. \/ kept = EmptyBank
      \/ /\ q.kind = "relocation" /\ RegionOf(job) # NoPlace
         /\ \E row : row.everywhere = FALSE /\ kept = [EmptyBank EXCEPT ![RegionOf(job)] = row]
  <2>1. KeptForRegion(q, job, kept)
    BY KeptAnswers, Zenon
  <2> HIDE DEF kept
  <2> QED BY <2>1 DEF KeptForRegion
<1>2. RegionOf(other) \in Scope /\ RegionOf(job) \in Scope /\ NoPlace \in Scope
  BY SourcesAssumption DEF RegionOf, Scope
<1>3. ~Usable(NoAnswer, TRUE)
  BY DEF Usable
<1> HIDE DEF kept
<1>4. BankRow(q, other, kept) = NoAnswer /\ Candidates(q, other, kept, TRUE) = {}
  <2>1. CASE kept = EmptyBank
    <3>1. DOMAIN kept = Scope /\ \A s \in Scope : kept[s] = NoAnswer
      BY <2>1 DEF EmptyBank
    <3>2. BankRow(q, other, kept) = NoAnswer
      BY <1>2, <3>1 DEF BankRow
    <3> QED BY <1>3, <3>1, <3>2 DEF Candidates
  <2>2. ASSUME q.kind = "relocation", RegionOf(job) # NoPlace, NEW row, row.everywhere = FALSE,
               kept = [EmptyBank EXCEPT ![RegionOf(job)] = row]
        PROVE  BankRow(q, other, kept) = NoAnswer /\ Candidates(q, other, kept, TRUE) = {}
    <3>1. /\ DOMAIN kept = Scope /\ kept[RegionOf(job)] = row
          /\ \A s \in Scope : s # RegionOf(job) => kept[s] = NoAnswer
      BY <1>2, <2>2 DEF EmptyBank
    <3>2. RegionOf(other) # RegionOf(job)
      BY <2>2 DEF Apart
    <3>3. kept[RegionOf(other)] = NoAnswer /\ kept[NoPlace] = NoAnswer
      BY <1>2, <2>2, <3>1, <3>2
    <3>4. BankRow(q, other, kept) = NoAnswer
      BY <2>2, <3>3 DEF BankRow, LocationSensitive
    <3>5. Candidates(q, other, kept, TRUE) = {}
      BY <1>3, <2>2, <3>1, <3>2 DEF Candidates, LocationSensitive
    <3> QED BY <3>4, <3>5
  <2> QED BY <1>1, <2>1, <2>2
<1> QED BY <1>4, NoRowNoBankAnswer DEF FillsItselfIn

(* A question the user has answered is not given to the language model, be *)
(* the answer one the form does not take: for every form, applicant and    *)
(* saved answer, unless the answer is hidden by one for the region.        *)
THEOREM AnsweredStays ==
  \A q \in Question, p \in Applicant, job \in Place, form \in SUBSET Meaning, rows \in Bank,
     legacy \in LegacyRow \cup {NoAnswer}, on \in BOOLEAN, reply \in Inference :
    AnsweredIsNotGuessed(q, p, job, form, rows, legacy, on, reply)
<1> TAKE q \in Question, p \in Applicant, job \in Place, form \in SUBSET Meaning, rows \in Bank,
         legacy \in LegacyRow \cup {NoAnswer}, on \in BOOLEAN, reply \in Inference
<1> DEFINE fact == TypedFact(q, p, job, form)
           answer == FieldAnswer(q, p, job, form, rows, legacy, on, reply)
           row == BankRow(q, job, rows)
<1> SUFFICES ASSUME answer.origin = "llm"
             PROVE  /\ \A scope \in DOMAIN rows :
                         Usable(rows[scope], on) /\ AnswersAt(q, job, scope, rows[scope])
                           => Hidden(q, job, scope, rows)
                    /\ legacy # NoAnswer /\ LegacyApplies(q, job, legacy) => fact.covered
                    /\ fact # NotTyped => fact.value = NoAnswer
  BY DEF AnsweredIsNotGuessed
<1>1. /\ ~(fact # NotTyped /\ fact.value # NoAnswer) /\ ~Usable(row, on)
      /\ ~BackfillAnswers(q, p, job, form, legacy)
  <2>1. "llm" # "profile" /\ "llm" # "bank" /\ "llm" # "legacy"
    OBVIOUS
  <2> QED BY <2>1, SourceOfAnswer, Zenon
<1>2. ASSUME NEW scope \in DOMAIN rows, Usable(rows[scope], on),
             AnswersAt(q, job, scope, rows[scope])
      PROVE  Hidden(q, job, scope, rows)
  <2>1. rows[scope] # NoAnswer
    BY <1>2 DEF Usable
  <2>2. CASE ~LocationSensitive(q)
    BY <1>1, <1>2, <2>2 DEF AnswersAt, BankRow
  <2>3. CASE LocationSensitive(q) /\ scope # NoPlace
    BY <1>1, <1>2, <2>1, <2>3 DEF AnswersAt, BankRow
  <2>4. CASE LocationSensitive(q) /\ scope = NoPlace
    <3>1. rows[NoPlace].everywhere
      BY <1>2, <2>4 DEF AnswersAt
    <3>2. CASE RegionOf(job) # NoPlace /\ rows[RegionOf(job)] # NoAnswer
      BY <2>4, <3>2 DEF Hidden
    <3>3. CASE ~(RegionOf(job) # NoPlace /\ rows[RegionOf(job)] # NoAnswer)
      <4>1. row = rows[NoPlace]
        BY <2>1, <2>4, <3>1, <3>3 DEF BankRow
      <4> QED BY <1>1, <1>2, <2>4, <4>1
    <3> QED BY <3>2, <3>3
  <2> QED BY <2>2, <2>3, <2>4
<1>3. legacy # NoAnswer /\ LegacyApplies(q, job, legacy) => fact.covered
  BY <1>1 DEF BackfillAnswers
<1> QED BY <1>1, <1>2, <1>3

(***************************************************************************)
(* The cached panel.  A change is dropped once at most.                    *)
(***************************************************************************)
PanelInv == PanelTypeOK /\ panelDrops <= panelFacts

LEMMA PanelInitInv == PanelInit => PanelInv
  BY PanelAssumption DEF PanelInit, PanelInv, PanelTypeOK

LEMMA PanelNextInv == PanelInv /\ [PanelNext]_panelVars => PanelInv'
<1> SUFFICES ASSUME PanelInv, [PanelNext]_panelVars
             PROVE  PanelInv'
  OBVIOUS
<1> USE PanelAssumption DEF PanelInv, PanelTypeOK
<1>1. CASE ChangeFacts \/ ChangeSilently
  BY <1>1 DEF ChangeFacts, ChangeSilently
<1>2. CASE DropPanel \/ LoseDrop \/ ExpirePanel
  BY <1>2 DEF DropPanel, LoseDrop, ExpirePanel
<1>3. ASSUME NEW q \in PanelRequest, BuildPanel(q) \/ StorePanel(q)
      PROVE  PanelInv'
  BY <1>3 DEF BuildPanel, StorePanel
<1>4. CASE UNCHANGED panelVars
  BY <1>4 DEF panelVars
<1> QED BY <1>1, <1>2, <1>3, <1>4 DEF PanelNext
=============================================================================
