\* One window, as wWinMain constructs it.  A 64-bit build: no unsigned int exceeds max_size().
SPECIFICATION MainSpec
CONSTANTS
  MaxArguments = 2
  MaxUnits = 2
  UIntModulus = 256
  MaxSize = 1024
INVARIANTS
  ArgumentsArriveInPlace
  HandlersFindTheirTargets
  HandleIsTheWindow
  ExitsClean
PROPERTY CloseEndsProgram
