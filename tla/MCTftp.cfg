\* Five blocks, numbered modulo three: the numbers wrap.
SPECIFICATION TftpSpec
CONSTANTS
    Blocks = 5
    BlockMod = 3
    Lifetime = 2
    Retries = 3
    MaxStarts = 2
INVARIANTS
    PrefixOnly
    ReceiverHasAll
PROPERTIES
    TransferEnds
\* Both processes exit, and nothing is sent any more.
CHECK_DEADLOCK FALSE
