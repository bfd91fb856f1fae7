SPECIFICATION CSpec
CONSTANTS
  Catalogues <- MCCatalogues
  Owners = {"u1", "u2", "u3"}
  Categories = {"office", "home"}
  Prices = {1, 2}
  Names = {"Blue pen", "Desk lamp"}
  Strings <- MCStrings
  Empty = ""
  Found <- MCFound
  Limits <- MCLimits
  Nothing = nil
  Clients <- MCClients
  Tokens = {"t1", "t2"}
  TokenOwner <- MCTokenOwner
  Spaced <- MCSpaced
  LookupLimit = 2
  Parts = 2
CHECK_DEADLOCK FALSE
INVARIANTS
  TypeOK
  SearchIsSelection
  LookupIsPrefix
  MeetsContract
  LookupsLimited
  OwnProductsOnly
