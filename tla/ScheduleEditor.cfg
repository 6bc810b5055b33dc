SPECIFICATION Spec
CONSTANTS
    anna = anna
    bert = bert
    NULL = NULL
    Editors = {anna, bert}
    Instants <- MCInstants
    Days = {6}
    Clocks = {0}
    Intervals = {1440}
    MaxWindows = 2
    FormWindows = 2
    MaxEdits = 2
    MaxVersions = 2
    MaxLate = 1
SYMMETRY Symmetry
INVARIANTS
    TypeOK
    DraftFits
    StoredIsValid
    AnswersTellNext
    NoOrphan
    PageAgrees
    SaidSaved
PROPERTIES
    SaveKeepsDraft
