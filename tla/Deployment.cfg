CONSTANTS
    Configurations <- MCConfigurations
    FileAt <- MCFileAt
    Replacements <- MCReplacements
SPECIFICATION Spec
INVARIANTS
    TypeOK
    TiersAreSeparate
    NoTierIsSkipped
    WriteGateIsInTheScopes
    WritersAreScoped
