\* Two scans of either kind, any failing command, X and Finish at any moment.
CONSTANTS
    Jobs = {j1, j2}
    NoJob = NoJob
    Stored = Stored
SPECIFICATION Spec
INVARIANT CenterInv
PROPERTY ShownIsAsked EveryScanAnswers
CHECK_DEADLOCK FALSE
