SPECIFICATION FairSpec
CONSTANT MaxRequests = 4
INVARIANTS InSync
PROPERTIES FreshAnswers DropReleases
CHECK_DEADLOCK FALSE
