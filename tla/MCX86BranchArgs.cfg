CONSTANTS
    Narrow = {v1, v2, v3}
    Wide = {w1, w2}
    MaxArgs = 3
SPECIFICATION Spec
INVARIANT AllReadsFirst
