SPECIFICATION Spec
CONSTANTS
  work = work
  plain = plain
  hidden = hidden
  inner = inner
  credential = credential
  system = system
  outside = outside
  Places <- MCPlaces
  Below <- MCBelow
  Credential = {credential}
  DeniedDir = {system}
  Hidden = {hidden}
  NoPlace = NoPlace
  WorkDirs = {work, hidden}
  MaxChanges = 1
INVARIANTS
  AcceptedWhereItIs
  RefusalHidesExistence
  NothingHiddenAccepted
