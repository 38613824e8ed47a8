\* The kernel check is one step of main's start-up: after it the rest of
\* main runs, which this module leaves out, so the end state is not a deadlock.
SPECIFICATION Spec
CONSTANTS
    Releases <- MCReleases
    NoRelease = NoRelease
CHECK_DEADLOCK FALSE
INVARIANTS
    CheckMatchesReference
