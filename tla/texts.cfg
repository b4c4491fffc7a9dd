\* The pure parts, each over all inputs of its bounds; an evaluation ends.
SPECIFICATION Spec
CONSTANTS
    MaxTemplate = 3
    MaxMappings = 2
    MaxHeader = 5
    MaxPath = 2
    MaxOptions = 2
INVARIANTS
    SequentialIsSimultaneous
    FailsExactlyWhenItMust
    RuleCoversTemplate
    ReadingsAgree
    KeyTellsApart
    OneURLPerBase
    ClientIsBounded
    DerivedLoggersKeepID
CHECK_DEADLOCK FALSE
