SPECIFICATION Spec
CONSTANTS
  Home = {h1, h2}
  Data = {d1}
  DataTypes = {"data"}
  MaxTxn = 2
  LogLen = 6
  MaxFaults = 0
INVARIANT IncompleteEntryIgnored
