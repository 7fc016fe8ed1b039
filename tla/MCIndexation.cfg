CHECK_DEADLOCK FALSE
SPECIFICATION FairSpec
CONSTANTS
    Paths = {1, 2}
    Hashes = {"h"}
    Absent = "x"
    MaxNewFilesToScan = 1
    MaxRuns = 2
    MaxSearches = 1
    MaxChanges = 1
    MaxFailures = 1
    MaxEvents = 3
INVARIANTS
    KnowsTheFiles
PROPERTIES
    EndsUnlessOvertaken
