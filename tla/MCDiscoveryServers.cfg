SPECIFICATION InTurnSpec
CONSTANTS
  p1 = p1
  p2 = p2
  Me = p1
  sub = sub
  part = part
  Channels <- channelNames
  Nodes <- nodeNames
  Roles <- channelRoles
  NodeRoles <- twoNodesA
  ServiceRoles <- twoServers
INVARIANTS HasServiceIfServed
CHECK_DEADLOCK FALSE
