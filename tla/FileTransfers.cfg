SPECIFICATION FairSpec
CONSTANTS
  Path = {p1, p2, p3}
  Url = {u1}
  Attachment = {a1, a2}
  MaxRequests = 3
  MaxCancels = 1
INVARIANTS TypeOK UploadsAreCounted OneUploadPerPath WaitsOnlyForSlots
PROPERTIES UploadsAreAPool WaitingUploadStarts
CHECK_DEADLOCK FALSE
