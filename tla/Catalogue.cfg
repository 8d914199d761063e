SPECIFICATION Spec
CONSTANTS
  LiveVault <- DeclaredVault
  LiveDomain <- DeclaredDomain
  LiveLedger <- DeclaredLedger
  LiveGold <- DeclaredGold
  LiveBronze <- DeclaredBronze
  SourceTable <- LoadedFrom
  Candidates <- Fields
  LedgerEdits <- Ledgers
  DomainEdits <- Domains
  MaxEdits = 2
  Months <- TwoMonths
  ContractColumns <- Contract
  MaskedColumns <- MaskedContracts
  FileGroups <- Groups
  Folded <- Spelling
INVARIANTS
  NoColumnIsWrittenTwice
  KeysAgree
  NamesKeepApart
CHECK_DEADLOCK FALSE
