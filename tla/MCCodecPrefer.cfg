SPECIFICATION Spec
CONSTANT InsnsDat <- Lines
CONSTANT Texts <- SharedCodes
CONSTANT Garbage <- Vendors
CONSTANT MAX_INSLEN = 17
INVARIANT SameOperands
