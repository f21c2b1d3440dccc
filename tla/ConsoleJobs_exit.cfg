\* One writer whose runner meets one failure.
SPECIFICATION FairSpec
CONSTANTS
    MaxJobs = 1
    Kinds = {"writer"}
    MaxTrouble = 1
PROPERTY RunnerExits
