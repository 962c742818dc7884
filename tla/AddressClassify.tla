--------------------------- MODULE AddressClassify ---------------------------
(***************************************************************************)
(* How the console names the network or zone of a typed target: the table  *)
(* of routes (utls/router.ts) over addresses read bit by bit (utls/ipaddr. *)
(* ts), the lookup of zones (apis/nwdesc.ts), and the hook that loads both *)
(* lists and looks the input up (apis/useAddressClassify.ts).              *)
(***************************************************************************)
EXTENDS Integers, Sequences, FiniteSets, SequencesExt, FiniteSetsExt, Filters

CONSTANTS ByteBits,         \* bits of a byte (8 in the code)
          RouteChoices,     \* network descriptors: [family, addr, len]
          ZoneChoices,      \* domain descriptors: [labels, dot]
          TypedAddresses,   \* addresses that may be typed: [family, addr]
          TypedDomains,     \* domains that may be typed: a sequence of labels
          MaxDescriptors    \* bound: entries of a list

VARIABLES networkList,   \* the routes of networkdescriptor.json, in order
          domainList     \* the zones of domaindescriptor.json, in order

classifyVars == <<networkList, domainList>>

----------------------------------------------------------------------------
(* Addresses: a sequence of bytes, the most significant first.             *)

Lesser(a, b) == IF a < b THEN a ELSE b

\* 1 << n
Shifted(n) ==
  LET power[i \in 0..n] == IF i = 0 THEN 1 ELSE 2 * power[i - 1]
  IN power[n]

Bytes == 0..(Shifted(ByteBits) - 1)

\* Addresses of a family have the same number of bytes, and a prefix is not longer
\* than its address.
ASSUME AddressesHaveBytes ==
  /\ ByteBits \in Nat \ {0}
  /\ \A a \in TypedAddresses : a.addr \in Seq(Bytes)
  /\ \A r \in RouteChoices : r.addr \in Seq(Bytes) /\ r.len \in 0..(ByteBits * Len(r.addr))
  /\ \A r \in RouteChoices : \A a \in TypedAddresses :
       r.family = a.family => Len(r.addr) = Len(a.addr)

ASSUME ZonesHaveLabels ==
  \A z \in ZoneChoices : Len(z.labels) \in Nat

\* One byte of getMaskedValue: the bits behind skip, as many as are left to read.
ReadByte(acc, byte, skip) ==
  LET take == Lesser(ByteBits - skip, acc.left)
  IN [value |-> acc.value * Shifted(take)
                  + (byte % Shifted(ByteBits - skip)) \div Shifted(ByteBits - skip - take),
      left |-> acc.left - take]

\* getMaskedValue: nbits bits from bitOffset on, as a number.
MaskedValue(addr, bitOffset, nbits) ==
  LET byteOffset == bitOffset \div ByteBits
      read[i \in 0..Len(addr)] ==
        IF i = 0 THEN [value |-> 0, left |-> nbits]
        ELSE IF i <= byteOffset \/ read[i - 1].left = 0 THEN read[i - 1]
        ELSE ReadByte(read[i - 1], addr[i],
                      IF i = byteOffset + 1 THEN bitOffset % ByteBits ELSE 0)
  IN read[Len(addr)].value

----------------------------------------------------------------------------
(* The table.  All nodes of a level read the same number of bits, so a node *)
(* is the sequence of the segments that lead to it.                        *)

\* getTrieTreeSegmentLengths.  The lengths are replaced while the array is
\* walked: from the third on, what is subtracted is a difference already.
SegmentLengths(routes) ==
  LET lens == [i \in DOMAIN routes |-> routes[i].len]
      sorted == SortedBy(lens, lens)
      diff[i \in 1..Len(sorted)] == IF i = 1 THEN sorted[1] ELSE sorted[i] - diff[i - 1]
  IN Only(diff, {d \in ToSet(diff) : d > 0})

\* Bits read by the first k levels.
Eaten(segments, k) ==
  LET upTo[i \in 0..k] == IF i = 0 THEN 0 ELSE upTo[i - 1] + segments[i]
  IN upTo[k]

PathOf(addr, segments, k) ==
  [i \in 1..k |-> MaskedValue(addr, Eaten(segments, i - 1), segments[i])]

\* Mutant: a route goes one level too deep.
LevelOf_TooDeep(route, segments) ==
  Max({k \in 0..Len(segments) : k = 0 \/ Eaten(segments, k - 1) <= route.len})

\* doInsertRoute goes down while the next segment lies within the prefix.
LevelOf(route, segments) == Max({k \in 0..Len(segments) : Eaten(segments, k) <= route.len})

FamilyRoutes(routes, family) == Only(routes, {r \in ToSet(routes) : r.family = family})

\* buildTable: the routes of each node, for one family.
BuildTable(routes) ==
  LET segments == SegmentLengths(routes)
      node(r) == PathOf(r.addr, segments, LevelOf(r, segments))
      nodes == {node(routes[i]) : i \in DOMAIN routes}
  IN [segments |-> segments,
      routes |-> [n \in nodes |-> Only(routes, {r \in ToSet(routes) : node(r) = n})]]

\* doLookup: the routes of the deepest node on the way of the address that has
\* any.
LookupRoutes(routes, address) ==
  LET table == BuildTable(FamilyRoutes(routes, address.family))
      depths == {k \in 0..Len(table.segments) :
                   PathOf(address.addr, table.segments, k) \in DOMAIN table.routes}
  IN IF depths = {} THEN <<>>
     ELSE table.routes[PathOf(address.addr, table.segments, Max(depths))]

----------------------------------------------------------------------------
(* Zones.                                                                  *)

\* zone.length, every label counting as one character.
ZoneLength(z) == 2 * Len(z.labels) - (IF z.dot THEN 0 ELSE 1)

\* A zone without labels is normalised to ".", which no other name ends in: a
\* name would have to end in "..".
InZone(z, domain) ==
  z.labels = domain \/ (z.labels # <<>> /\ IsSuffix(z.labels, domain))

\* domainDescriptorLookup: the zones the domain is in, the longest first.
LookupZones(zones, domain) ==
  LET matches == Only(zones, {z \in ToSet(zones) : InZone(z, domain)})
  IN SortedBy(matches, [i \in DOMAIN matches |-> -ZoneLength(matches[i])])

\* The label of the target field: the first descriptor of the file, not of the
\* result, that was found.
LabelOf(list, found) == Only(list, ToSet(found))

----------------------------------------------------------------------------

ClassifyInit == networkList = <<>> /\ domainList = <<>>

\* A list is fetched (again) and has another entry; entries are distinct.
NetworkListFetched(r) ==
  /\ Len(networkList) < MaxDescriptors /\ r \notin ToSet(networkList)
  /\ networkList' = Append(networkList, r)
  /\ UNCHANGED domainList

DomainListFetched(z) ==
  /\ Len(domainList) < MaxDescriptors /\ z \notin ToSet(domainList)
  /\ domainList' = Append(domainList, z)
  /\ UNCHANGED networkList

ClassifyNext ==
  \/ \E r \in RouteChoices : NetworkListFetched(r)
  \/ \E z \in ZoneChoices : DomainListFetched(z)

ClassifySpec == ClassifyInit /\ [][ClassifyNext]_classifyVars

----------------------------------------------------------------------------
(* Properties                                                              *)

BitOf(addr, b) == (addr[(b \div ByteBits) + 1] \div Shifted(ByteBits - 1 - (b % ByteBits))) % 2

Covers(r, address) ==
  /\ r.family = address.family
  /\ \A b \in 0..(r.len - 1) : BitOf(r.addr, b) = BitOf(address.addr, b)

\* The most specific of the descriptors that cover an address.
LongestMatch(routes, address) ==
  LET covering == Only(routes, {r \in ToSet(routes) : Covers(r, address)})
  IN Only(covering, {r \in ToSet(covering) : \A q \in ToSet(covering) : q.len <= r.len})

\* No address inside a described network is without a name; and while a family
\* has at most two descriptors, what is found is exactly the most specific ones,
\* in the order of the file.  With more of them see LookupOnlyMatching.
LookupFindsCovering ==
  \A address \in TypedAddresses :
    LET found == LookupRoutes(networkList, address)
        best == LongestMatch(networkList, address)
    IN /\ best # <<>> => found # <<>>
       /\ Len(FamilyRoutes(networkList, address.family)) <= 2 => found = best

\* A network is named for the addresses inside it only: the descriptor of
\* 192.168.0.0/16 says "RFC1918 192.168/16".
LookupOnlyMatching ==
  \A address \in TypedAddresses :
    \A r \in ToSet(LookupRoutes(networkList, address)) : Covers(r, address)

\* A zone is found for exactly the names in it, the most specific first, and
\* the field is labelled if and only if something was found.
ZonesFoundBySuffix ==
  \A domain \in TypedDomains :
    LET found == LookupZones(domainList, domain)
    IN /\ ToSet(found) = {z \in ToSet(domainList) : InZone(z, domain)}
       /\ \A i, j \in DOMAIN found : i < j => Len(found[j].labels) <= Len(found[i].labels)
       /\ LabelOf(domainList, found) = <<>> <=> found = <<>>

\* What the target field says of an address or name is right, as far as it is.
FieldIsLabelled == LookupFindsCovering /\ ZonesFoundBySuffix
=============================================================================
