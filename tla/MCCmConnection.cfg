CONSTANTS
  Clients = {c1, c2}
  None = none
  MayFail = TRUE
  MayDie = TRUE
SPECIFICATION FairSpec
INVARIANTS EventsNameLiveIds DisconnectsWhenAnswered
PROPERTIES ServiceSpec EndsOrIsAbandoned StopsOrIsCaught
CHECK_DEADLOCK FALSE
