SPECIFICATION Spec
CONSTANTS
    Entries <- MCEntries
    Baselines <- MCBaselines
    MaxEnvp = 3
INVARIANTS
    TypeOK
    DiffMatchesReference
    RemovedExactlyUnnamed
