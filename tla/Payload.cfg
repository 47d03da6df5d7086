SPECIFICATION MCSpec
CONSTANTS
 GroupIds = {a, b, c}
 MaxGroups = 3
 MaxEntries = 2
 Null = Null
 Refused = Refused
 MaxTags = 1
 MaxUrls = 2
 MaxFields = 1
 MaxRefs = 1
 MaxHistoryItems = 2
 MaxItems = 2
 MaxUnknown = 2
 Max16 = 10
 Max32 = 20
 DigestLen = 2
 UuidLen = 2
 Embedded <- MCEmbedded
 Documents <- MCDocuments
 Uses <- MCUses
 Capacity = 27
 MaxDepth = 2
 MaxSizeDepth = 4
SYMMETRY GroupSymmetry
CHECK_DEADLOCK FALSE
INVARIANTS
 
 
 CodersAgree
