CONSTANTS
  EmailCells <- MCEmailCells
  ListCells <- MCListCells
  NameCells <- MCNameCells
  MaxRows = 2
  Digest <- MCDigest
  Sep = Sep
  NoFile = NoFile
SPECIFICATION ContactsSpec
INVARIANT ContactsTypeOK
INVARIANT StreamsLoadAsDocs
INVARIANT MembershipsFollowNewsletterRows
CHECK_DEADLOCK FALSE
