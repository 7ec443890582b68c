CONSTANTS
  Width = 8
  Registers <- MCRegisters
  Gprs = {"eax", "ecx"}
  Alphabets <- MCAlphabets
  Numerals <- MCNumerals
SPECIFICATION Spec
INVARIANT ReadsTheNumeral
INVARIANT EvaluatesMeaning
INVARIANT AddressesMeaning
CHECK_DEADLOCK FALSE
