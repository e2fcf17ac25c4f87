\* Two runs over one guest, every command failing or not, and a relaunch at
\* any moment.  A second task may overtake the done signal of the first.
CONSTANTS
    Jobs = {j1, j2}
    NoRun = NoRun
SPECIFICATION Spec
INVARIANT LabInv
PROPERTY ErrorFreeMeansPutAway EveryTaskEnds
