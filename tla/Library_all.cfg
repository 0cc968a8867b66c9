\* The program ends at a command that dereferences NULL, or hangs.
CHECK_DEADLOCK FALSE
SPECIFICATION LibrarySpec
CONSTANTS
  al = al
  alex = alex
  bob = bob
  b1 = b1
  b12 = b12
  b2 = b2
  m1 = m1
  m2 = m2
  Names = {al, alex, bob}
  Titles = {b1, b12, b2}
  StartsWith <- MCStartsWith
  Mails = {m1, m2}
  NoMail = NoMail
  Nobody = Nobody
  MayFail = {"record", "wow", "buy"}
  MaxCalls = 6
INVARIANTS
  FoundByName
  ShelvesAreOwn
  ListsAreWhole
  MarksAgree
