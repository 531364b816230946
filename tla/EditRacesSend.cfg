\* An edit that read the draft before Send is saved after it.
SPECIFICATION Spec
CONSTANTS
  v1 = v1
  Blank = Blank
  None = None
  Label = {q}
  Value = {v1}
  Required = {q}
  FreeText = {q}
  Inferred <- OnlyGuesses
  Job = {j1}
  Draft = {d1}
  Worker = {w1}
  Request = {q1}
  ResumeKey = {}
  InitialResume = None
  UserMarks = {}
  InboxChoices = {FALSE}
  JobChanges = {}
  MaxQueued = 1
  SendingTimeout = 2
  SafetyMargin = 1
  MinBudget = 1
  LeaseGrace = 1
  HardKill = 3
SYMMETRY Symmetry
INVARIANT FiledIsSnapshot
