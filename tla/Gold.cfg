SPECIFICATION MCSpec
CONSTANTS
  Company <- MCCompany
  Day <- MCDay
  PerDay = 2
  Ceiling = 12
  Ghost = Ghost
  HubLoads <- MCHubLoads
  SatelliteLoads <- MCSatelliteLoads
  PaymentLoads <- MCPaymentLoads
  QuoteLoads <- MCQuoteLoads
  Establishment <- MCEstablishment
  Satellite <- MCPitSatellite
  Applied <- MCApplied
  KeyLoads <- MCKeyLoads
  Snapshots <- MCSnapshots
INVARIANTS
  DimensionPartitionsTime
  FactRowsStand
PROPERTIES
  AcceptedDimensionIsTheSource
  FactTellsThePayment
  PitTellsTheSatellites
CHECK_DEADLOCK FALSE
