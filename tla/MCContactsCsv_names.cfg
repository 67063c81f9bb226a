CONSTANTS
  EmailCells <- MCEmailCells
  ListCells <- MCListCells
  NameCells <- MCNameCells
  MaxRows = 2
  Digest <- MCDigestCollision
  Sep = Sep
  NoFile = NoFile
SPECIFICATION ContactsSpec
INVARIANT ApplyKeepsEveryone
CHECK_DEADLOCK FALSE
