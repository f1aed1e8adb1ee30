SPECIFICATION FairSpec
CONSTANTS
    Monitors = {cli, status}
    Cli = cli
    Prompt = TRUE
    MaxTasks = 2
    MaxFix = 1
    MaxChanges = 1
    MaxCrashes = 1
INVARIANTS LogLeadsToPhase FixLoopsAreLimited
PROPERTIES CompletedMeansDone TeamsEnd OpenTeamsReopen
CHECK_DEADLOCK FALSE
