SPECIFICATION MCSpec
CONSTANTS
  Setups <- Chips
  FIRST_DMA_LINE = 1
  LAST_DMA_LINE = 2
  Rows = 2
  Scrolls = {0, 1}
INVARIANTS BusTaken RasterSeen LightpenOnce SpriteHeight FetchingEnds
