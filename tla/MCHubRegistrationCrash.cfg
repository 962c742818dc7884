SPECIFICATION Spec
CONSTANTS
  a1 = a1
  k1 = k1
  k2 = k2
  ping = ping
  yes = yes
  NodeNames = {a1}
  Keys = {k1, k2}
  Unnamed = Unnamed
  NoKey = NoKey
  AttrKeys = {ping}
  AttrValues = {yes}
  AnnouncedBy <- AnnounceAll
  MaxInbox = 2
  MaxFaults = 1
CHECK_DEADLOCK FALSE
INVARIANTS
  HubSurvivesClosing
