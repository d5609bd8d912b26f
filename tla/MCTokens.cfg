\* Two requests at a time, two keys, two failing fetches.
SPECIFICATION TokenSpec
CONSTANTS
    c1 = c1
    c2 = c2
    k1 = k1
    k2 = k2
    Caller <- MCCaller
    Key <- MCKey
    NoCache = NoCache
    MaxFaults = 2
SYMMETRY Symmetric
INVARIANTS GenuineServed WithdrawnRefused
