CONSTANTS
    s1 = s1
    s2 = s2
    u1 = u1
    u2 = u2
    None = None
    Slots = {s1, s2}
    Members = {u1, u2}
    Inputs = {10, 20}
    Outputs = {0, 2}
    MaxInput = 10
    ReservedOutput = 2
    RequestedOutput = 2
    MemberWindow = 2
    GlobalWindow = 1
    TokenWindow = 1
    MemberLimits <- MCMemberLimits
    GlobalLimits <- MCGlobalLimits
    Ceiling = 4
    MonthLength = 1
    MaxQuestions = 3
    MaxTime = 1
    MaxFaults = 1
SPECIFICATION Spec
SYMMETRY Symmetry
INVARIANT TypeOK
INVARIANT SpendIsBounded
INVARIANT NothingIsHeld
INVARIANT LimitsHold
CHECK_DEADLOCK FALSE
