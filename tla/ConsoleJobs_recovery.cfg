\* Two writers or services, one failure of anything or death of anyone.
SPECIFICATION FairSpec
CONSTANTS
    MaxJobs = 2
    Kinds = {"writer", "service"}
    MaxTrouble = 1
PROPERTIES
    Safety
    NoRowIsStranded
