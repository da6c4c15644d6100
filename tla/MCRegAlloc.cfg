SPECIFICATION Spec
CONSTANTS
    a1 = a1
    a2 = a2
    s1 = s1
    x9 = x9
    N = 4
    Caller = {a1, a2}
    Callee = {s1}
    Calls <- MCCalls
    Writes <- MCWrites
    Inputs <- MCInputs
    Loc <- MCLoc
    Frame <- MCFrame
    Temps = {x9}
    Values <- MCValues
    Marker <- MCMarker
    CopyEnd <- MCCopyEnd
    ResultReg = a1
INVARIANTS
    NoSharing
    CallsPreserve
    StorageExact
    ArgumentsArrive
    ValuesSurviveCall
