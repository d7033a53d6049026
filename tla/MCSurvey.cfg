SPECIFICATION SurveySpec
CONSTANTS
    ProbeTimeout = 2
    MaxNotices = 2
    MaxDepth = 2
    MaxEntries = 4
    Ahead = 1
    MaxTree = 4
INVARIANTS TypeOK VisitIsBounded FiguresAreTheirOwn NeverFresherThanTheFiles
PROPERTY DegradesOnItsOwn
