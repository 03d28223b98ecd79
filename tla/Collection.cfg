SPECIFICATION Spec
CONSTANTS
    a = a  b = b
    Collectors = {a, b}
    Sources = {"loki", "prometheus", "github"}
    Window = 8
    Signals = {2, 5, 6}
    Contents <- SomeWindows
    Limits = {4, 6}
    Categories = {"forbidden"}
    Tries = 2
    MetricNames = 3
    MaxArrivals = 1
    MaxRuns = 2
SYMMETRY ThreadSymmetry
CHECK_DEADLOCK FALSE
INVARIANTS SampleCovers GapsShown OutageNotHammered
