SPECIFICATION Spec
CONSTANTS
    Engines = {e1, e2}
    WordSize = 16
    MaxLag = 1
    MaxNow = 3
    MaxSwitches = 2
    MaxEvents = 1
SYMMETRY MCSymmetry
INVARIANTS TypeOK NeverMoreThanTheWork OneWindow JournalIsCurrent ReadsWhatWasAsked
