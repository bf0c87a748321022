\* A writer, an administrator and an operator who clears the baselines by hand.
SPECIFICATION FairSpec
CONSTANTS
  Scan = {1, 2}
  Writer = {w1}
  Admin = {a1}
  Operator = {o1}
INVARIANTS
  TypeOK
  ApprovalStands
PROPERTIES
  AloneLeavesOne
  Approved
