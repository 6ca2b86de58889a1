SPECIFICATION Spec
CONSTANTS
  Rotators = {}
  Requesters = {req1}
  Pollers = {poll1}
  Blocks = {b1, b2, b3, b4}
  Tokens = {k1}
  Codes = {19, 900}
  NoCallbackCode = 19
  NULL = NULL
  Free = Free
SYMMETRY Symmetry
INVARIANT NoticeMessageAlive
