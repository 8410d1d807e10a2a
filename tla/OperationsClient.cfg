SPECIFICATION Spec
CONSTANTS
  Used <- FewModes
  Subs <- EntryOnly
  Requests <- Commands
  Drops = TRUE
  MaxStream = 1
PROPERTIES
  FollowsMode
  EntryNotified
  RequestsProxied
