\* The gateway by itself: two callers, whose imports neither die nor fail.
CONSTANTS
    Absent = Absent
    Callers = {c1, c2}
    ImportRequests <- MCImportRequests
    LooseSnapshots <- MCLooseSnapshots
    Resolutions <- MCResolutions
SPECIFICATION GatewaySpec
INVARIANT ImportsAreAllOrNothing
SYMMETRY CallerSymmetry
