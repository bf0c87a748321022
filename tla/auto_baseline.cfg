SPECIFICATION Spec
CONSTANTS
  Scan = {1, 2}
  Writer = {w1, w2}
  Admin = {a1}
  Operator = {}
PROPERTIES
  AutoOnlyFirst
