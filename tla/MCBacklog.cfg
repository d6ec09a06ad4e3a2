CONSTANTS
    Byte <- MCByte
    Zero = 0
    Payload <- MCPayload
    Size = 3
    MaxOffset = 8
SPECIFICATION Spec
INVARIANTS ReadReturnsStream
PROPERTY Implements
CHECK_DEADLOCK FALSE
