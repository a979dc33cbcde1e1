SPECIFICATION Spec
CONSTANTS
    Plans <- AllPlans
    Finds = {"nothing", "unusable", "usable"}
    MaxRuns = 4
    MaxFailures = 2
    Missing = Missing
INVARIANTS ControllerInv DerivedFromCurrent
CHECK_DEADLOCK FALSE
