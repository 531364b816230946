\* The resume is replaced while drafts are made, reviewed and sent, and the user marks the job by hand.
SPECIFICATION Spec
CONSTANTS
  v1 = v1
  Blank = Blank
  None = None
  Label = {}
  Value = {v1}
  Required = {}
  FreeText = {}
  Inferred <- OnlyGuesses
  Job = {j1}
  Draft = {d1, d2}
  Worker = {w1}
  Request = {q1}
  ResumeKey = {r1, r2}
  InitialResume = r1
  UserMarks = {"dismissed"}
  InboxChoices = {FALSE}
  JobChanges = {}
  MaxQueued = 1
  SendingTimeout = 2
  SafetyMargin = 1
  MinBudget = 1
  LeaseGrace = 1
  HardKill = 3
SYMMETRY Symmetry
INVARIANTS OneActiveDraft AppliedWasFiled
