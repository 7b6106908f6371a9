SPECIFICATION Spec
CONSTANTS
  Shapes <- MCShapes
  DynamicSizes = {0, 1, 5}
INVARIANTS TypeOK NeverRefused TransfersFit SupportedAccepted InlineStaysSmall
CHECK_DEADLOCK FALSE
