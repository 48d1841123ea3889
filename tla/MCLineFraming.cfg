CONSTANTS
    Size = 4
    MaxLine = 2
    MaxStream = 7
SPECIFICATION Spec
INVARIANTS TypeOK LinesOfStream NoLineHeldBack OverflowIsTooLong
