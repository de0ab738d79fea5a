SPECIFICATION Spec
CONSTANT Modulus = 64
INVARIANT RatioExact
CHECK_DEADLOCK FALSE
