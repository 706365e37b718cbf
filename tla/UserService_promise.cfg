SPECIFICATION LiveSpec
CONSTANTS
    a = a  b = b  bad = bad  n1 = n1  n2 = n2  none = none
    r1 = r1  r2 = r2   g1 = g1  s1 = s1  s2 = s2
    UserIDs <- MCUserIDs
    WellFormed <- MCWellFormed
    Nicknames <- MCNicknames
    NoNickname = none
    RegisterCalls = {r1, r2}
    GetCalls = {g1}
    Batches <- MCBatches
    Queries <- MCQueries
    Servers = {s1}
    NoServer = NoServer
    Unregistered = Unregistered
PROPERTIES
    ImplementsDirectory
    EveryCallAnswered
CHECK_DEADLOCK FALSE
