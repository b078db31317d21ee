\* One file; clients that keep to the rules of the cache.
SPECIFICATION Spec
CONSTANTS
  Files = {f}
  NoFile = NoFile
  MaxPage = 2
  MaxCount = 3
  PoolSizes = {1, 3}
  MarkMod = 3
  MaxLock = 1
  Values = {a}
  Zero = Junk
  Junk = Junk
  Liberties = {}
INVARIANTS TypeOK NoSlotLost RangesWhole CachedOnce DirtyIsMarked
PROPERTIES LockedStays ImplementsPageStore
