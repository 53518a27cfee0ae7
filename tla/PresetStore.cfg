SPECIFICATION Spec
CONSTANTS
  PresetIDs = {a, b}
  Hosts = {h1, h2}
  Passwords = {s1}
  KeyTexts = {k1, k2}
  KeyPaths = {p1, p2}
  OperatorKeys = {}
  InitialPresets <- SomeEntries
  MaxPuts = 2
  None = None
  Partial = Partial
SYMMETRY SameNames
INVARIANTS
  CrashLeavesOneList
  RestartLoadsWhatIsServed
PROPERTIES
  FingerprintSaveIsNarrow
  SavedSecretsAreThoseMeant
