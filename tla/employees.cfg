\* Two staff codes; forms, moves, loans, imports, synchronisations and seeds in any order.
CONSTANTS
  Codes = {"E1", "E2"}
  Machines = {"PC1", "ASWPC1", "PC2"}
  Directories <- MCDirectories
  Sources <- MCSources
  Workbooks <- MCWorkbooks
  Forms <- MCForms
  AssetOf <- MCAssetOf
  Stem <- MCStem
  Accounts = {"admin1", "admin2"}
  Jobs = {j1, j2}
  None = "none"
  MaxPreviews = 1
  MaxMade = 2
  MaxEdits = 2
  MaxSnapshots = 1
SYMMETRY JobSymmetry
SPECIFICATION DirectorySpec
PROPERTIES SyncOverwritesNothingUnseen SyncSettles ImportsFindThePerson
