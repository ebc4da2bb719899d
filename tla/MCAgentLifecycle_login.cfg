SPECIFICATION Spec
CONSTANTS
    MaxGen = 3
    MaxRestarts = 1
INVARIANTS
    LoginIsChecked
CHECK_DEADLOCK FALSE
