\* Every process may have used up its calls, or sleep for good.
SPECIFICATION Spec
CONSTANTS
    Debugger = debugger
    Helpers = {h1}
    Addresses = {a}
    NoAddress = zero
    MaxCalls = 4
    NoProc = noproc
    Abandoned = abandoned
INVARIANTS MutualExclusion NoLostWakeup CheckedAddressIsSet
PROPERTIES Implements CallsReturn
CHECK_DEADLOCK FALSE
