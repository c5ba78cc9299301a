SPECIFICATION Spec
CONSTANTS
  Names = {"disk", "a_b"}
  Ambiguous = {"a_b"}
  Blank = ""
  Docs <- MCDocs
  DefaultDoc <- default
  Valid <- MCValid
  MigrateIds <- MCMigrateIds
  FixBackends <- MCFixBackends
  NoFile = NoFile
  Torn = Torn
  None = None
INVARIANTS
  ServedIsCanonical
  AnsweredIsDurable
PROPERTIES
  ImplementsRegister
  StartKeepsReferences
