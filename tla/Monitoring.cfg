SPECIFICATION FairSpec
CONSTANTS
    Clients = {c1}
    Decl <- MCDecl
    Settings <- MCSettings
    Capacity = 1
    MaxCmds = 1
    MaxTasks = 1
    Beginnings <- MCBeginnings
    LongHalf = 8
    ShortHalf = 4
INVARIANTS UpdateShowsProgram WritesReadBack
PROPERTIES NodesFollowProgram UpdatesKeepComing
