CONSTANTS
    Lower = {"a"}
    Upper = {"A"}
    DigitChars = {"0"}
    Length = 5

SPECIFICATION Spec

INVARIANTS
    TypeOK
