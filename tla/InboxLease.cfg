\* Two jobs of one user sent at once, with a verification code by email.
SPECIFICATION Spec
CONSTANTS
  v1 = v1
  Blank = Blank
  None = None
  Label = {}
  Value = {v1}
  Required = {}
  FreeText = {}
  Inferred <- OnlyGuesses
  Job = {j1, j2}
  Draft = {d1, d2}
  Worker = {w1, w2}
  Request = {}
  ResumeKey = {}
  InitialResume = None
  UserMarks = {}
  InboxChoices = {TRUE}
  JobChanges = {}
  MaxQueued = 1
  SendingTimeout = 3
  SafetyMargin = 1
  MinBudget = 1
  LeaseGrace = 1
  HardKill = 4
SYMMETRY Symmetry
INVARIANTS PollingIsExclusive OneRunPerDraft
PROPERTY SweepSparesPromptRuns
