\* A region of five pages of two bytes; sizes that do and do not fill a page.
CONSTANTS
    PAGE_SIZE = 2
    PhysBase = 4
    RegionSize = 10
    Sizes = {1, 2, 3, 6}
    VirtAddrs = {20, 22, 24, 28, 34}
SPECIFICATION Spec
INVARIANTS TypeOK ChunksTile NothingStranded TranslationExact
PROPERTY ImplementsRegion
