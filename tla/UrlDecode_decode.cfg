\* "%", "/", "2" and "a".
SPECIFICATION DecodeSpec
CONSTANTS
  Char = {37, 47, 50, 97}
  MaxLen = 4
INVARIANT DecodesString
CHECK_DEADLOCK FALSE
