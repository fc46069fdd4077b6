\* Logins, commands on accounts, recoveries, lockouts and restarts overlap in any order.
CONSTANTS
  Accounts = {adman, a1}
  Adman = adman
  Names <- TypedNames
  UserName <- StoredNames
  AccountOf <- Owners
  Threads = {t1, t2}
  MaxFailed <- Thresholds
  MaxBegun = 5
SPECIFICATION AuthSpec
SYMMETRY Symmetry
INVARIANTS SuperAdminRemains SessionsAreCurrent GuessesAreBounded
