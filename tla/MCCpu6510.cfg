SPECIFICATION Spec
CONSTANTS
  Codes <- MCCodes
  Starts = {4348, 57360}
  Accumulators <- MCAccumulators
  Indexes <- MCIndexes
  Statuses <- MCStatuses
  Operands <- MCOperands
  Seeds <- MCSeeds
INVARIANT OnlyReadsStolen
PROPERTIES Executes Timely
