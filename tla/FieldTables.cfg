\* The device's own field.
CONSTANTS
  Width = 8
  Polynomial = 283
SPECIFICATION Spec
INVARIANTS
  TypeOK
  TablesMultiply
  DivisionUndoes
PROPERTIES
  EachPowerOnce
CHECK_DEADLOCK FALSE
