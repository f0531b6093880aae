SPECIFICATION MemorySpec
CONSTANTS
    Importers = {i1, i2}
    Embedders = {e1}
    Workspaces = {w1, w2}
    Sources = {"codex", "claude", "antigravity", "vscode", "manus"}
    Shapes <- MCShapes
    BatchSize = 1
    Limit = 3
    MaxImports = 2
    MaxPurges = 1
INVARIANTS
    SnapshotIsWhole
    PurgeForgets
SYMMETRY Symmetry
CHECK_DEADLOCK FALSE
