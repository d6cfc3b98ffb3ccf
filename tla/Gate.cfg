\* Every pattern of at most three tokens; up to three checks, two workers.
SPECIFICATION Spec
CONSTANTS
    Task <- Tasks
    DependencyFile <- Dependencies
INVARIANTS
    ResultsAreTheirs
    NothingRunsOn
    ExitIsDeserved
