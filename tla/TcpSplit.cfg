SPECIFICATION Spec
CONSTANTS
    listener = listener
    main = main
    first = first
    second = second
    NoThread = NoThread
    NoClient = NoClient
    Thread <- Threads
    Client <- Clients
    Uses <- ProgramUses
    MaxFd = 2
    ChunkSize = 2
    MaxInbox = 1
CHECK_DEADLOCK FALSE
INVARIANT WholeChunk
