SPECIFICATION FairSpec
CONSTANTS
  Callers = {c1, c2}
  Addresses = {a1, a2}
  Programs = {p1}
  Jobs = {j1, j2, j3, j4, j5}
  NoJob = NoJob
  NoAddress = NoAddress
INVARIANTS
  ListedAreCached
  RegisteredIsOpen
  OneRequestPerKey
PROPERTIES
  CallersReturn
