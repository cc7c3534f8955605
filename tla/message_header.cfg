SPECIFICATION MHSpec
CONSTANT Alphabet <- KindsOfCharacters
INVARIANTS
    LengthsSurvive
    RefusedOrFits
CHECK_DEADLOCK FALSE
