SPECIFICATION Spec
CONSTANTS
  short = short
  long = long
  other = other
  Values <- MCValues
  Default = short
  Size <- MCSize
  Inodes = {i1, i2, i3, i4}
  NoInode = NoInode
  Blank = Blank
  Torn = Torn
  Savers = {"dbus"}
SYMMETRY Symmetry
INVARIANTS
  Loadable
  KeepsLastSave
  SettledIsSaved
