\* Each component that shares no state with the flow of an application, alone.
SPECIFICATION Spec
CONSTANTS
  x = x  y = y  q1 = q1  q2 = q2
  j1 = j1  l1 = l1  e1 = e1  e2 = e2
  c1 = c1  c2 = c2  c3 = c3  r1 = r1  r2 = r2  t1 = t1  t2 = t2  t3 = t3
  p1 = p1  p2 = p2  p3 = p3  p4 = p4  f1 = f1  f2 = f2
  n1 = n1  n2 = n2  k1 = k1  k2 = k2
  \* Prefilter: two salaries around a floor, one employer to exclude.
  Employer = {e1}
  Salary = {1, 2, 3}
  NULL = NULL
  \* ImportJobs: two rows, so that one can follow the other.
  ImportSlot = {1, 2}
  ImportWorker = {j1}
  \* ImportReview: one column on each page.
  ReviewField = {f1, f2}
  SearchField = {f1}
  ReviewText = {x, y, q1}
  Spelling = {{x, q1}}
  BlankText = BlankText
  \* ResumeFacts
  EntryKey = {k1, k2}
  EntryLink = {x, y}
  NoLink = NoLink
  EntryText = {1}
  MaxAccepted = 2
  Months = {1, 2}
  ScopeSize = {1, 2}
  \* SkillYears
  RoleMonth = {1, 2, 3, 4}
  NoEnd = NoEnd
  \* AnswerMemory
  Learner = {l1}
  AskingEmployer = {e1, e2}
  AnswerValue = {x, y}
  RowId = {1, 2}
  NoBankRow = NoBankRow
  \* AnswerSources
  Country = {c1, c2, c3}
  Region = {r1, r2}
  RegionFor <- RegionForValue
  UnitedStates = c1
  VisaStatus = {"visa", "sponsored"}
  NoPlace = NoPlace
  NoAnswer = NoAnswer
  \* PanelCache
  PanelRequest = {q1, q2}
  MaxChanges = 3
  NoPanel = NoPanel
  \* GitHubImport
  GitHubTask = {q1, q2}
  Quota = 4
  MaxCalls = 3
  MaxPages = 1
  MaxLooks = 1
  MinQuota = 2
  QuotaLow = 2
  QuotaShallow = 3
  BlockTime = 2
  KeepTime = 3
  NotKnown = NotKnown
  \* GitHubEvidence
  Repo = {p1, p2}
  RepoMonth = {1, 2}
  \* BoardDiscovery: one board is dead, one run finds two.
  BoardList <- BoardListValue
  DeadBoard = {t1}
  CompanyOf <- CompanyOfValue
  Reviewer = {q1}
  Command = {q2}
  MaxNewBoards = 2
  MaxApprovals = 2
  MaxBoardFaults = 1
  NoSource = NoSource
  \* BoardFetch: four postings, a cap of three, pages of one.
  Posting = {p1, p2, p3, p4}
  MalformedPosting = {p4}
  FacetOrder <- FacetOrderValue
  OtherFacet = {f2}
  ZeroFacet = {f1}
  FacetValue = {"a", "b", "c", "d"}
  ValuesOf <- FacetsValue
  PageLimit = 1
  QueryTotalCap = 3
  MaxSplits = 2
  MaxTries = 2
  MaxBoardMoves = 1
  MaxOddBodies = 1
  \* PlaceResolution
  Land = {n1, n2}
  PlaceName = {x, y}
  PlaceCode = {k1, k2}
  Iso <- IsoValue
  StatePostal = {k2}
  AreaNumber = {1}
  PostalOf <- PostalValue
  People <- PeopleValue
  CitySize = {1, 2}
  NoCode = NoCode
  GenericName = {}
  NoLand = NoLand
  NoCity = NoCity
  Unlisted = Unlisted
  \* LocationBackfill: a job, two profiles, batches of two.
  JobRow = {1}
  ProfileRow = {2, 3}
  LocationText = {x, y}
  NoPlaceYet = NoPlaceYet
  LocationSweeper = {q1}
  BackfillBatch = 2
  MaxAliasVersion = 2
  MaxTextChanges = 2
  MaxSweepDeaths = 1
INVARIANTS
  ComponentsTypeOK
  QueryMirrorsPredicate
  ProvenanceIsHonest
  EntriesAreDistinct
  PartialRunsKeepProof
  YearsAreCounted
  LearnedWasTyped
  LearningIsIdempotent
  NoContradiction
  NoAnswerTravels
  
  ScansAreSound
  CompaniesStayApart
  FetchIsWhole
  NoPlaceIsGuessed
  PlaceHintsHold
  PlacesMatchTheirText
PROPERTIES
  PersonalDataGoes
  ImportsEnd
  LearnerSparesTheUser
  EvidenceIsRead
  StalePanelGoes
  RefusalsEnd
  DecisionsStand
  EveryBoardIsFound
  RowsBecomeCurrent
