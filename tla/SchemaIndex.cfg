CONSTANTS
  Attended = attended
  Agents = {attended, stray}
  Clicks = {c1, c2}
  Kinds = {"reindex", "retry", "clear", "cancel"}
  MaxClicks = 3
  MaxCrashes = 1
  MaxFaults = 1
SPECIFICATION FairSpec
INVARIANTS ReadyIsRebuilt CleanupIsAlone
PROPERTIES IndexingSettles
CHECK_DEADLOCK FALSE
