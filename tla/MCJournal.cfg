\* A crash before any disk write and errors at any access, over several laps of
\* the log, and with clients that never put a descriptor before an old commit block.
SPECIFICATION FairSpec
CONSTANTS
  Home = {h1, h2}
  Data = {d1}
  DataTypes = {"data"}
  MaxTxn = 2
  LogLen = 6
  MaxFaults = 2
PROPERTIES WriteAhead RetiredEntryIsApplied AtomicUpdates AlwaysIdleAgain
