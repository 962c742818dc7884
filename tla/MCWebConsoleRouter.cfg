SPECIFICATION ConsoleSpec
CONSTANTS
  Parts = {"classify"}
  MaxStreams = 3
  MaxEvents = 2
  Pairs = {p1}
  MaxHTTPLines = 2
  Text = {"x"}
  MaxText = 5
  RawEvents <- MCRawEvents
  MaxTraceEvents = 3
  PingLines <- MCPingLines
  PingSources <- MCPingSources
  PingTargets <- MCPingTargets
  PingConns <- MCPingConns
  MaxExtraMarkers = 1
  MaxSamples = 4
  TaskTypes = {"ping", "traceroute", "tcpping", "dns", "http", "route", "ip-query"}
  Agents = {"a1"}
  Abilities <- MCAbilities
  Providers = {"v1"}
  ListInputs <- MCListInputs
  RouteInputs <- MCRouteInputs
  TaskIds = {"i1"}
  MaxEdits = 4
  MaxTasks = 1
  QueryProviders <- MCQueryProviders
  TotalEntries = 3
  PageSize = 2
  QueriedIPs = {"x", "y"}
  MaxQueries = 5
  ByteBits = 8
  RouteChoices <- ShippedRoutes
  ZoneChoices <- MCZoneChoices
  TypedAddresses <- PlainAddresses
  TypedDomains <- MCTypedDomains
  MaxDescriptors = 4
CHECK_DEADLOCK FALSE
INVARIANT
  LookupOnlyMatching
