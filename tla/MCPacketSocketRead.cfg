SPECIFICATION PFairSpec
CONSTANTS
    Streams <- MCStreams
    HeaderLen = 2
    BufferSize = 6
    MaxContent = 2
    Replies = {1, 2}
    Answers <- MCAnswers
PROPERTIES
    ArrivedIsDelivered
CHECK_DEADLOCK FALSE
