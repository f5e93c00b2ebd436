\* Two processes record latencies, reachable ratios or paths of one key under a
\* clock that may step back.
SPECIFICATION Spec
CONSTANTS
    Processes = {p1, p2}
    Subjects = {"latency", "reachable_ratio", "path"}
    Samples = {0, 10, 15, 30}
    Window = 6
    Earlier = 5
    Places = {9, 11}
CONSTRAINT TwoPaths
SYMMETRY Symmetry
CHECK_DEADLOCK FALSE
INVARIANTS
    TypeOK
    DeviationIsMinority
    ShiftReported
    ChangeSeen
