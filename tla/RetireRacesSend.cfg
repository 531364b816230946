\* A resume is replaced while a draft that uses it is on its way.
SPECIFICATION Spec
CONSTANTS
  v1 = v1
  Blank = Blank
  None = None
  Label = {}
  Value = {v1}
  Required = {}
  FreeText = {}
  Inferred <- OnlyGuesses
  Job = {j1}
  Draft = {d1}
  Worker = {w1}
  Request = {q1}
  ResumeKey = {r1, r2}
  InitialResume = r1
  UserMarks = {}
  InboxChoices = {FALSE}
  JobChanges = {}
  MaxQueued = 1
  SendingTimeout = 2
  SafetyMargin = 1
  MinBudget = 1
  LeaseGrace = 1
  HardKill = 3
SYMMETRY Symmetry
INVARIANT InFlightResumeKept
