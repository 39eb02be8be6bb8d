SPECIFICATION BothSpec
CONSTANTS
    KEY_SLICE_LENGTH = 2
    Bytes = {0, 1}
    Zero = 0
    Keys <- SomeKeys
    Values = {v1, v2}
    NULL = NULL
    Longest = 5
INVARIANTS TypeOK GetReturnsLastPut CountsKeys LayersFormTrie IndexHoldsLastPuts
PROPERTIES CallsEnd
