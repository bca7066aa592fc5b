CONSTANTS
  BinaryBase = 10
  MaxSize = 2
  DefaultSize = 1
  Readers = {r1}
  Elems = {1, 2, 3}
  Bkeys = {1, 2, 3, 11}
  Values = {0, 1}
  MaxCounts = {5}
  Ovflacts = {"smallest_trim", "largest_trim"}
  BkeyRanges <- MCBkeyRanges
  Filters <- MCFilters
  Attrs <- MCAttrs
  Forced = "none"
  Keys = {1, 2, 3, 4}
  Written = {1, 2}
  SetElems = {1, 2, 3, 4, 5, 6}
  SetHash <- MCSetHash
  SetAttrs <- HashAttrs
  SetSize = 2
  SetChain = 4
  SetDefault = 4
  GetCounts = {1}
  DeleteCounts = {2}
  SetMaxCounts = {6}
  MaxSetSize = 6
  MaxRand = 6
  Fields = {1, 2, 3, 4, 5}
  MapAddrs <- MCMapAddrs
  MapHash <- MCMapHash
  MapAttrs <- HashAttrs
  FieldLists <- MCFieldLists
  MapSize = 2
  MapChain = 4
  MapDefault = 4
  MapMaxCounts = {6}
  MaxMapSize = 5
SPECIFICATION MCSpec
INVARIANTS HeldUntouched GetTells SmgetExact HashTreesExact
CHECK_DEADLOCK FALSE
