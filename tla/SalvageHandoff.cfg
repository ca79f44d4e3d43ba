SPECIFICATION Spec
CONSTANTS
    Files = {f}
    MaxWrites = 3
    MaxEdits = 1
    MaxCommits = 1
    MaxEntries = 1
    MaxRescues = 1
VIEW Live
INVARIANTS TypeOK SafeSource SafeWorkTree HandoffIsOneCut JournalHeeded
