CONSTANTS
    Addresses <- MCAddresses
    Lengths <- MCLengths
SPECIFICATION FairSpec
INVARIANTS NoOverrun CopiesAll
PROPERTIES AlignedAccess CopyEnds
\* The program ends when the copy is done.
CHECK_DEADLOCK FALSE
