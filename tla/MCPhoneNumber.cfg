SPECIFICATION Spec
CONSTANTS
    FirstDigit <- CodesAndOther
    MaxDigits = 12
    MaxMarks = 2
INVARIANTS
    AcceptsWellDialled
    OneReading
    OneFormPerNumber
    PreparedIsStable
CHECK_DEADLOCK FALSE
