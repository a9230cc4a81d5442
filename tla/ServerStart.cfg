\* Three emulators and three tries: as many ports as emulators.
CONSTANTS
    Emulators = {e1, e2, e3}
    unset = unset
    Unset = unset
    Width = 8
    Default = 3
    Tries = 3
    Settings <- SomeSettings
    Ephemeral = {1, 2}
    Reserved = {7}
    MaxStuck = 2
SPECIFICATION Spec
INVARIANTS
    TypeOK
    ReportedIsBound
    FirstFreePort
    EveryoneFits
SYMMETRY Symmetry
