SPECIFICATION SmuxSpec
CONSTANTS
  InitialWindow = 1
  StreamBuffer = 4
  MaxFrame = 1
  MaxOut = 2
  MaxIn = 6
PROPERTIES ImplementsPipe InboundFlows CloseEnds
CHECK_DEADLOCK FALSE
