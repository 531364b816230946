\* A rematch that started before an edit ends after the one that followed it.
SPECIFICATION Spec
CONSTANTS
  s1 = s1
  e1 = e1
  c1 = c1
  c2 = c2
  t1 = t1
  t2 = t2
  narrow = narrow
  wide = wide
  NoTags = NoTags
  None = None
  Source = {s1}
  Job = {1}
  Home <- OneBoard
  EmployerOf <- OneEmployer
  Content = {c1, c2}
  TagsOf <- TwoTags
  User = {u1}
  Criteria = {narrow, wide}
  Fits <- NarrowAndWide
  SignupCriteria = wide
  Worker = {w1, w2}
  BatchSize = 1
  OldJobs = {}
  MaxChanges = 2
  MaxSaves = 3
  MaxFaults = 0
SYMMETRY SlotSymmetry
INVARIANT MatchesFollowProfile
