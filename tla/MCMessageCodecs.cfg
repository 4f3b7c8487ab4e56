CONSTANTS
    Messages <- MCMessages
    Bytes = {0, 1, 2, 128, 255}
    MaxTampers = 2
SPECIFICATION CodecSpec
INVARIANTS RoundTrip OneEncoding
CHECK_DEADLOCK FALSE
