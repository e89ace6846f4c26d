\* Base 5: as in the code, three digits of a length go beyond the two bytes of a word.
SPECIFICATION SessionSpec
CONSTANTS
    Base = 5
    MaxChunk = 40
    MaxStream = 300
    CONNECT = 1
    CONNECTACK = 2
    PUBLISH = 3
    SUBSCRIBE = 8
    SUBACK = 9
    UNSUBSCRIBE = 4
    PINGREQ = 6
    PINGRESP = 7
    PUBLISHACKED = 5
    EventQueueSize = 2
    ChunkSizes = {1, 2, 3, 7, 16, 40}
    Scripts <- MCScripts
INVARIANTS
    TypeOK
    SessionTypeOK
    BufferRespected
    ChunksDoNotMatter
    AnswersExact
    AnswersFramed
    KeepAliveAgreed
\* The client has said what it had to say.
CHECK_DEADLOCK FALSE
