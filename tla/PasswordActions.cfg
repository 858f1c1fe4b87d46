SPECIFICATION Spec
CONSTANTS
  work = work
  home = home
  site = site
  alice = alice
  bob = bob
  t1 = t1
  spelled = spelled
  note = note
  Token <- Tokens
  TokenOf <- Sanitized
  Name = {work, site}
  Folder = {work, home}
  Below <- Within
  Password = {p1}
  NoPassword = noPassword
  User = {alice, bob}
  Note = {t1}
  NoUser = noUser
  NoNote = noNote
  Absent = absent
  Combo <- Built
  Logging = TRUE
  Legacies <- PlainNotes
  MaxUses = 3
  Unclaimed = unclaimed
CHECK_DEADLOCK FALSE
INVARIANTS TypeOK NotesReadBack
PROPERTIES NothingLost SuccessMeansDone
