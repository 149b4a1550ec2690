SPECIFICATION AvcSpec
CONSTANTS
    Threads <- MCThreads
    Commands <- MCCommands
    Scripts <- MCScripts
    IEEE1394SERVICE_FCP_MAX_TRIES = 2
    EFC_FLASH_SIZE_QUADS = 64
    POLLED_MAX_NB_METERS = 100
    MaxFaults = 1
    MayVanish = TRUE
    Nobody = Nobody
    Descriptors <- MCDescriptors
    MaxPiece = 20
    MaxDescFaults = 2
    Topologies <- MCTopologies
    PlugRates = {44, 48}
    MaxPlugOps = 3
INVARIANTS OneTransaction AnswersMyRequest ObjectIsAnswer LoadedIsDescriptor UnitIsDevice
