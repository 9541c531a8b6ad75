SPECIFICATION Spec
CONSTANTS
    Static <- MCStatic
    SkipNames <- MCSkip
    Hash <- MCHash
    FirstRaw = 4
    WordSize = 8
    Headers <- MCHeaders
    Scopes <- All
INVARIANTS TableInStep BothInStep
