\* The review queue: one optional field, stale pages, retries whose form has other options by then.
SPECIFICATION Spec
CONSTANTS
  v1 = v1
  Blank = Blank
  None = None
  Label = {q}
  Value = {v1}
  Required = {}
  FreeText = {}
  Inferred <- Unconfirmed
  Job = {j1}
  Draft = {d1, d2}
  Worker = {w1}
  Request = {q1}
  ResumeKey = {}
  InitialResume = None
  UserMarks = {}
  InboxChoices = {FALSE}
  JobChanges = {}
  MaxQueued = 1
  SendingTimeout = 2
  SafetyMargin = 1
  MinBudget = 1
  LeaseGrace = 1
  HardKill = 3
SYMMETRY Symmetry
INVARIANTS TypeOK NothingHeldIsFiled
PROPERTY LifecycleSpec
