SPECIFICATION Spec
CONSTANTS
    PageHeight = 4
    Margin = 1
    Kinds <- MCKinds
    NoteLines <- MCNoteLines
    NoLine = NoLine
    NoNote = NoNote
    MaxLines = 5
INVARIANTS NothingLost PagesInOrder PagesSound BreaksKept AvoidKept NotesWhole
CHECK_DEADLOCK FALSE
