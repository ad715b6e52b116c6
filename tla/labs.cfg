SPECIFICATION Spec
CONSTANTS
    p1 = p1
    p2 = p2
    p3 = p3
    Proc = {p1, p2, p3}
    ramdisk_size = 1
    MaxBuf = 1
    Position = {2}
    IntWord = 8
    MaxIrq = 3
    Word = 8
    Target = 2
INVARIANTS
    AreaSafe
    EventsCounted
    OutlivesExit
    StablePrint
    ThreadsStopped
    MmapSound
PROPERTIES
    ReaderWakes
    ExitsReturn
CHECK_DEADLOCK FALSE
