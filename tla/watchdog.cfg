CONSTANT Bound = 6
SPECIFICATION FairSpec
INVARIANTS TypeOK Patience PatienceEnds LeaveIsPrompt
PROPERTY GoneIsNoticed
CHECK_DEADLOCK FALSE
