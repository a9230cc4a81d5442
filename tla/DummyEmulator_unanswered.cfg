\* As DummyEmulator_shared.
CONSTANTS
    Clients = {c1, c2}
    wram = wram
    sram = sram
    other = other
    CARTROM = rom
    Mems = {wram, sram, rom}
    MemSize = 8
    Reads <- ReadSet
    NULL = NULL
    Writes <- WriteSet
    Prefix = 2
    Spelled = {2, 4}
    MaxSize = 4
SPECIFICATION Spec
SYMMETRY Symmetry
CHECK_DEADLOCK FALSE
INVARIANT WritesAnswered
