SPECIFICATION SocSpec
CONSTANTS
  HalfMod = 3
  Deadlines <- SomeDeadlines
  MaxBytes = 1
  HeapStart = 4
  HeapEnd = 16
  Requests = {0, 3, 5}
  Handle = {h1, h2, h3}
  WordMod = 32
  Char <- SomeChars
  Text <- SomeText
  Formats <- SomeFormats
  CharMod = 256
  CStrings <- SomeStrings
  Buffer <- SomeBuffer
CHECK_DEADLOCK FALSE
INVARIANT SocTypeOK
INVARIANT NoEarlyTimer
INVARIANT TimeIsRead
INVARIANT BlocksDisjoint
INVARIANT HeapComesBack
INVARIANT NumbersPrintRight
INVARIANT PrintsFormat
INVARIANT StringsAgree
INVARIANT NothingLeaks
INVARIANT TerminalRestored
INVARIANT SafeToRepeat
PROPERTY TimerInside
PROPERTY TimerFires
