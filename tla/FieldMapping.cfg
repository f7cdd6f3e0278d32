SPECIFICATION Spec
CONSTANTS
  id = id
  title = title
  tags = tags
  t1 = t1
  Calls = {c1, c2}
  Tables = {t1}
  Config <- MCConfig
  Required = {id}
  Templates = {{id, title, tags}, {id}}
  AsTemplate = {id, title}
  SetInputs <- MCSetInputs
  SavedInputs <- MCSavedInputs
  InitFields <- MCInitFields
  MaxCalls = 2
  MaxApiFaults = 1
  MaxRedisFaults = 1
SYMMETRY CallSymmetry
\* Requests may simply stop arriving.
CHECK_DEADLOCK FALSE
INVARIANTS  CachedWasSaved
