SPECIFICATION FairSpec
CONSTANTS
    listener = listener
    main = main
    first = first
    second = second
    NoThread = NoThread
    NoClient = NoClient
    Thread <- Threads
    Client <- Clients
    Uses <- SharedUses
    MaxFd = 2
    ChunkSize = 2
    MaxInbox = 1
CHECK_DEADLOCK FALSE
INVARIANT TypeOK
INVARIANT NoLeakAlone
PROPERTY ServesOneUser
PROPERTY NeverReplaced
PROPERTY QuitFreesAcceptors
PROPERTY QuitFreesReceiver
