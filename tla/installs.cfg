CONSTANTS
    Runs = {r1, r2}
    Releases = {v1, v2}
    MaxCommands = 3
SPECIFICATION InstallerSpec
SYMMETRY Symmetry
INVARIANTS InstallerTypeOK 
PROPERTIES EnvNeverRegenerated CompletedIsWhole
