CONSTANTS
    w0 = w0
    w1 = w1
    w2 = w2
    l1 = l1
    l2 = l2
    None = None
    Weights = {w0, w1, w2}
    Bounded = {w0, w1}
    Config = w0
    Loops = {l1, l2}
    MinSamples = 2
    MaxExtensions = 2
    Remeasure = 2
    MaxCalls = 2
SPECIFICATION TunerSpec
SYMMETRY Symmetric
INVARIANT SwitchedRight
