\* Every draft that is being sent is settled; postings close and inbox credentials come and go meanwhile.
SPECIFICATION FairSpec
CONSTANTS
  v1 = v1
  Blank = Blank
  None = None
  Label = {}
  Value = {v1}
  Required = {}
  FreeText = {}
  Inferred <- OnlyGuesses
  Job = {j1}
  Draft = {d1, d2}
  Worker = {w1}
  Request = {}
  ResumeKey = {}
  InitialResume = None
  UserMarks = {}
  InboxChoices = {TRUE, FALSE}
  JobChanges = {"open", "closed"}
  MaxQueued = 1
  SendingTimeout = 2
  SafetyMargin = 1
  MinBudget = 1
  LeaseGrace = 1
  HardKill = 3
PROPERTY SendingIsSettled
