CONSTANTS
  EmailCells <- MCEmailCells
  ListCells <- MCListCells
  NameCells <- MCNameCells
  MaxRows = 2
  Digest <- MCDigest
  Sep = Sep
  NoFile = NoFile
SPECIFICATION ContactsSpec
INVARIANT EmailsClean
CHECK_DEADLOCK FALSE
