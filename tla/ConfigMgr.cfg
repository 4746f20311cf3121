SPECIFICATION FairConfigSpec
CONSTANTS
  GlobalDocs <- McGlobalDocs
  ComDocs <- McComDocs
CHECK_DEADLOCK FALSE
INVARIANTS
  EachItemFollowed
PROPERTIES
  UpdateReturns
