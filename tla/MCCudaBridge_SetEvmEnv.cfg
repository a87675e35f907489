CONSTANTS
    NBytes = 4
    ByteBase = 2
    NoValue = none
    none = none
    Inputs <- MCInputs
    Threads = {0, 1}
    StateIds = {0, 1}
    SeedSize = 4
    Header = 2


SPECIFICATION SpecWithSetEvmEnv

INVARIANT EnvDecodesToLoadedInput
