\* Batches, direct imports, edits, registrations, categories and staff in any order.
CONSTANTS
  Books <- MCBooks
  Files <- MCFiles
  Requested = {0, 1, 2}
  Chosen <- MCChosen
  Codes = {"C1", "C2"}
  Serials = {"S1", "S2"}
  Types = {"laptop", "cable"}
  Keys = {"K1", "K2", "D1"}
  Names = {"n1"}
  People = {"p1", "p2"}
  Nobody = "nobody"
  IdOf <- MCIdOf
  DigitsOf <- MCDigitsOf
  AliasDigits <- MCAliasDigits
  Canonical <- MCCanonical
  MetaFiles <- MCMetaFiles
  NameCode <- MCNameCode
  LegacyCode <- MCLegacyCode
  MaxBatches = 1
  MaxCategories = 2
  MaxEdits = 1
SPECIFICATION AssetsSpec
INVARIANTS StockedOnce RoutedFilesParse
PROPERTIES ImportsIdentify OwnersAreCurrent
