SPECIFICATION Spec
CONSTANTS
  a = a
  b = b
  DataIds = {a, b}
  Keys = {"port", "secret", "ring"}
  Values = {"0", "1", "2", "bad", "one", "enc", "nest", "var", "key", "lost"}
  Docs <- MCDocs
  LocalDocs <- MCLocal
  Env <- MCEnv
  Encrypted = {"enc", "nest"}
  Nested = {"nest"}
  Shown <- MCShown
  PlainOf <- MCPlain
  KeyPath = "ring"
  Ring <- MCRing
  Invalid = {"bad"}
  Required = {"port"}
  Hot = {"port", "secret"}
  Listeners = {l1}
  Covers <- MCCovers
  c1 = c1
  c2 = c2
  Callbacks = {c1, c2}
  MaxEdits = 2
  Absent = Absent
  Broken = Broken
SYMMETRY MCSymmetry
INVARIANTS LastGood Synced ListenersKnow
PROPERTIES CloseFreezes
CHECK_DEADLOCK FALSE
