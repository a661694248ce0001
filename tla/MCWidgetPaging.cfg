SPECIFICATION FairSpec
CONSTANTS
    Writers = {w1, w2}
    Times <- MCTimes
    LimitParams <- MCLimitParams
    DefaultListLimit = 2
    maximumListLimit = 2
    MaxID = 3
INVARIANTS PagesDescend NoRowSkipped IssuedCursorAccepted
PROPERTY WalkEnds
