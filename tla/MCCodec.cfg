SPECIFICATION Spec
CONSTANT InsnsDat <- Lines
CONSTANT Texts <- AllTexts
CONSTANT Garbage <- Vendors
CONSTANT MAX_INSLEN = 17
INVARIANT BufferExact
INVARIANT Reversible
INVARIANT SameOperands
INVARIANT RefusesOnlyImpossible
