SPECIFICATION FrameSpec
CONSTANTS
  ServerEvents = 3
  TracerEvents = 2
  Producers <- MCProducers
  Remote = {"server"}
  Packets <- MCPackets
  Loads <- MCLoads
  RingCapacity = 2
  LedgerCap = 2
  Layers <- MCLayers
  Devices <- MCDevices
  Embedding = "embed_tokens"
  Scale = 60
  None = None
  Strings <- MCStrings
  Wrong = Wrong
  Null = Null
  TopN = 2
  CounterSize = 4
  WordSize = 16
INVARIANTS TypeOK RingKeepsEachStream NothingMiscounted TotalsAgree LedgerKeepsNewest LedgerBound AlertsAreReported FrameIsCoherent CpuIsBusyShare
