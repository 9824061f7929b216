CONSTANTS
    NumRec = 3
    NameLen <- NameLens
    ValueLen = {0, 2}
    Line <- Lines
    MaxLines = 3
    LineLength = 5
    Tab <- crc32_tab
    Char <- Chars
    MaxLen = 6
SPECIFICATION Spec
INVARIANTS TypeOK RoundTrip ReadingsAgree ValueExists ConfigIsTheShells TellsApart
CHECK_DEADLOCK FALSE
