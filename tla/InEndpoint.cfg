\* Packets of five bytes, three of them payload; transfers with no room for payload, with
\* room for less than a packet, for a packet, a packet and a header, and more.
SPECIFICATION FairSpec
CONSTANTS
    PktSize = 5
    UrbLens = {2, 3, 5, 7, 9, 10}
    BufLens = {0, 1, 3, 4, 8}
    MaxWrites = 3
    MaxUrbs = 2
INVARIANTS Inv FillsUrb InOrderOnce
PROPERTY Delivered
CHECK_DEADLOCK FALSE
