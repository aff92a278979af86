CONSTANTS
    Configurations <- MCConfigurations
    FileAt <- MCFileAt
    Replacements <- MCReplacements
SPECIFICATION Spec
INVARIANT EnabledToolsAreScoped
