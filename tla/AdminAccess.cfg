SPECIFICATION AccessSpec
CONSTANTS
    Tokens = {k1, k2}
    Tabs = {t1, t2}
    FileChoices <- PanelFiles
    EnvChoices <- PanelEnvs
    MaxBoots = 3
SYMMETRY Symmetry
INVARIANTS
    PanelIsGuarded
