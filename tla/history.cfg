SPECIFICATION Spec
CONSTANTS
    List = {a, b}
    InitialLists = {a}
    Opts <- ShortIntervals
    MaxTime = 14
INVARIANTS SameFront ArchivesAreSpaced ArchivesAreBounded
PROPERTIES OldDatumIsKept
