CONSTANTS
  Users       <- MCUsers
  Groups      <- MCGroups
  Starts      <- MCStarts
  UidParams   <- MCUidParams
  GroupParams <- MCGroupParams
  DirectUids  <- GraphBuilds
SPECIFICATION Spec
INVARIANTS
  PTypeOK
  PermanentIsForever
  RoundTrip
  FailedDropKeepsOld
  SanityReports
  CleanPassesReportNothing
  LinuxIrregularities
