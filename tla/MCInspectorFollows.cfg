CONSTANTS
  Sources <- MCSources
  Sessions <- MCSessions
  AttentionLayers <- MCAttentionLayers
  None = None
  Limit = 3
  MinViewport = 2
  MaxViewport = 5
  InitialViewport = 3
  MaxTokens = 6
  MaxPan = 5
  MaxJourney = 2
SPECIFICATION Spec
PROPERTY InspectorFollows
