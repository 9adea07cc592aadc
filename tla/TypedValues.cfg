SPECIFICATION Spec
CONSTANTS
    Fields <- MCFields
    Inputs <- MCInputs
    Entries <- MCEntries
    Keys = {"n", "k"}
    Results <- MCResults
    ClassFields <- MCClassFields
    Bases <- MCBases
    Literals <- MCLiterals
    IntOf <- MCIntOf
    FloatOf <- MCFloatOf
    BoolOf <- MCBoolOf
    EnumOf <- MCEnumOf
INVARIANTS ItemsTyped Reassignable
PROPERTY AssignmentsKeep
