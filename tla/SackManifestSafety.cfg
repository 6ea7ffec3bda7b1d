\* Two states' files, up to three slices, up to two ends of the process.
CONSTANTS
    FillingFiles = {raw_hashes}
    SprinklingFiles = {sprinkles_stage1, sprinkles_stage2}
    MaxSlices = 3
    MaxWrites = 1
    MaxCrashes = 2
SPECIFICATION Spec
INVARIANTS
    CommittedIsOnDisk
    FilesHoldLastCommit
PROPERTIES
    FinishedFolderIsFinal
CHECK_DEADLOCK FALSE
