SPECIFICATION MCSpec
CONSTANTS
    Alphanumeric = {"a", "b", "y", "k", "orgadmin"}
    MaxIdentifierLen = 15
    MaxAccountLabelLen = 7
    NamespaceMax = 4
    SuffixLen = 1
    Namespaces <- MCNamespaces
    Suffix <- MCSuffix
    Bits = 2
    Wide = 3
    MappedPrefix <- MCMappedPrefix
    Names <- MCNames
    BaseFiles <- MCBaseFiles
    BackplaneFiles <- MCBackplaneFiles
    Regions = {"here", "elsewhere"}
    Labels = {"", "true", "malformed"}
    MaxResources = 2
INVARIANTS
    NamesAreUnique
    IdentifiersFit
    RangesFit
    RecoveryFits
    LookUpIsExact
