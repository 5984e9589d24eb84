\* Headers of up to five segments, frames cut off at sample lengths.
CONSTANTS
    PAGE_SIZE = 4096
    CodeLengths = 3
    Segments <- MCSegments
    MaxSegments = 5
    Lengths = {1, 13, 24, 25, 26}
SPECIFICATION Spec
INVARIANTS TypeOK OwnTables CodesReadable PlanesInside
PROPERTY ParsedWhole
CHECK_DEADLOCK FALSE
