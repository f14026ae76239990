SPECIFICATION TopicSpec
CONSTANTS
  p1 = p1
  p2 = p2
  Me = p1
  sub = sub
  part = part
  Channels <- channelNames
  Nodes <- nodeNames
  Roles <- channelRoles
  NodeRoles <- twoNodesA
  ServiceRoles <- serverAndClients
INVARIANTS TablesExactAtRest TopologyExactAtRest NoPeerMissed GraphExact
CHECK_DEADLOCK FALSE
