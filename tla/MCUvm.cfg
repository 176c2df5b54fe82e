SPECIFICATION Spec
CONSTANTS
    Procs = {p1, p2, p3}
    initproc = p1
    Frames = {1, 2, 3, 4, 5, 6, 7, 8, 9, 10, 11, 12, 13, 14, 15, 16}
    LEVELS = 2
    MaxSize = 3
    Images <- MCImages
    NULL = NULL
INVARIANTS PagesConserved AllOrNothing
VIEW View
