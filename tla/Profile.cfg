\* Two bundles in two directories, one change; six files that refer to each other.
\* A profile is assembled once.
SPECIFICATION MCSpec
CONSTANTS
  a = a
  b = b
  t1 = t1
  t2 = t2
  None = None
  Broken = Broken
  Keys = {a, b}
  Dirs = {1, 2}
  Stamps = {t1, t2}
  MaxChanges = 1
  MaxDeps = 4
  Names <- MCNames
  Subject <- MCSubject
  Worlds <- MCWorlds
INVARIANTS
  TypeOK
  KnownIsNotScanned
  ResolvesAlike
PROPERTIES
  RewriteKeepsRest
CHECK_DEADLOCK FALSE
