----------------------------- MODULE NetboxMaps -----------------------------
(***************************************************************************)
(* The tasks of the Netbox worker that draw maps: get_connections,         *)
(* get_topology and the links of get_containerlab_inventory, with          *)
(* netbox_graphql, which reads the ports page by page, several pages at    *)
(* once, while others may delete ports.                                    *)
(*                                                                         *)
(* An end of a link is a device and the name of a port, or, where the code *)
(* puts it there, the list of the ports of a LAG.  A port knows its        *)
(* parent, its LAG and its unit, the number behind the dot.                *)
(***************************************************************************)
EXTENDS Naturals, Sequences, FiniteSets, SequencesExt, FiniteSetsExt, Functions

CONSTANTS
  MapCases,      \* the task, what NetBox has and what the caller asks for
  Limit,         \* rows of a page
  PageThreads,   \* pages that are fetched at once
  None,
  MaxFaults,     \* bound: requests that fail
  MaxEdits       \* bound: ports that others delete

VARIABLES
  case,          \* what the job is asked for, it never changes
  ports,         \* the ports in NetBox, in the order of their numbers
  step,          \* where the job is, and "done", "failed" or "raised"
  offset, pages, \* of the present round: the first row, and the pages that have come
  rows,          \* the rows of the rounds before
  result,        \* nodes, links and connections so far
  errors,        \* the result lists an error
  faults, edits

vars == <<case, ports, step, offset, pages, rows, result, errors, faults, edits>>

Nothing == [nodes |-> <<>>, links |-> <<>>, connections |-> <<>>]
Init ==
  /\ case \in MapCases
  /\ ports = case.ports
  /\ step = "devices"
  /\ offset = 0 /\ pages = <<>> /\ rows = <<>>
  /\ result = Nothing /\ errors = FALSE /\ faults = 0 /\ edits = 0

Fault == faults < MaxFaults /\ faults' = faults + 1
Over == {"done", "failed", "raised"}
Keeps == UNCHANGED <<case, ports, edits>>

(***************************************************************************)
(* Which devices the map is for.  get_connections asks for no devices, a   *)
(* lab takes those that have a kind or a platform, and a dry run of the    *)
(* other two returns its query.                                            *)
(***************************************************************************)
Asked == SelectSeq(case.devices, LAMBDA d : d \in case.asked)
Nodes == IF case.task = "lab" THEN SelectSeq(Asked, LAMBDA d : d \in case.kinds) ELSE Asked

Devices ==
  /\ step = "devices"
  /\ \/ /\ step' = CASE case.dry_run /\ case.task # "lab" -> "done"
                     [] Nodes = <<>> /\ case.task = "lab" -> "failed"
                     [] Nodes = <<>> /\ case.task = "topology" -> "done"
                     [] OTHER -> "pages"
        /\ result' = IF case.dry_run /\ case.task # "lab" THEN result ELSE [result EXCEPT !.nodes = Nodes]
        /\ UNCHANGED <<errors, faults>>
     \/ /\ case.task # "connections" /\ Fault /\ UNCHANGED result
        /\ step' = IF case.task = "lab" THEN "failed" ELSE "raised"
        /\ errors' = TRUE
  /\ UNCHANGED <<offset, pages, rows>> /\ Keeps

-----------------------------------------------------------------------------
(***************************************************************************)
(* netbox_graphql.  A row brings along what the query asks of the objects  *)
(* around its port: where it leads to, and what is there.                  *)
(***************************************************************************)
Is(p, device, name) == p.device = device /\ p.name = name
PortAt(end) == CHOOSE p \in ToSet(ports) : Is(p, end.device, end.name)
Members(p) == SelectSeq(ports, LAMBDA m : m.device = p.device /\ m.lag = p.name)
EndsOf(ps) == FlattenSeq([i \in DOMAIN ps |-> ps[i].ends])
FirstEnd(p) ==
  LET via == IF p.type = "lag" THEN (IF Members(p) = <<>> THEN <<>> ELSE Members(p)[1].ends) ELSE p.ends
  IN  IF via = <<>> THEN None ELSE via[1]
ChildOf(device, name, unit) ==
  LET children == SelectSeq(ports, LAMBDA c : c.device = device /\ c.parent = name /\ c.unit = unit)
  IN  IF children = <<>> THEN None ELSE children[1].name

FarLag(end) == IF end = None \/ end.kind # "interface" THEN None ELSE PortAt(end).lag
Row(p) ==
  LET parent == IF p.parent = None THEN p ELSE PortAt([device |-> p.device, name |-> p.parent])
      via == FirstEnd(parent)
      far == IF parent.type = "lag" THEN FarLag(via) ELSE IF via = None THEN None ELSE via.name
  IN  [port |-> p, through |-> parent.type, via |-> via, far |-> far,
       child |-> IF far = None THEN None ELSE ChildOf(via.device, far, p.unit),
       members |-> EndsOf(Members(p))]

(* The lists of the query are paged side by side.                          *)
Lists == IF case.task = "topology" THEN <<"interface">> ELSE <<"interface", "consoleport">>
Wanted(list) == SelectSeq(ports, LAMBDA p : p.list = list /\ Contains(Nodes, p.device))
Slice(s, from) == SubSeq(s, from + 1, Min({from + Limit, Len(s)}))
PageAt(from) == [l \in ToSet(Lists) |-> LET s == Slice(Wanted(l), from) IN [i \in DOMAIN s |-> Row(s[i])]]
Offsets == {offset + i * Limit : i \in 0 .. PageThreads - 1}

FetchPage ==
  /\ step = "pages"
  /\ \E from \in Offsets \ DOMAIN pages :
       \/ /\ pages' = [f \in DOMAIN pages \cup {from} |-> IF f = from THEN PageAt(from) ELSE pages[f]]
          /\ UNCHANGED <<errors, faults>>
       \/ /\ Fault /\ errors' = TRUE
          /\ pages' = [f \in DOMAIN pages \cup {from} |-> IF f = from THEN <<>> ELSE pages[f]]
  /\ UNCHANGED <<step, offset, rows, result>> /\ Keeps

(* The last page of a round is in: the pages are put behind one another,   *)
(* and if none was full there are no more.                                 *)
InOrder == SetToSortSeq(Offsets, <)
Gathered(list) == FlattenSeq([i \in DOMAIN InOrder |-> pages[InOrder[i]][list]])
FullPage(size) == size = Limit
MorePages == \E f \in Offsets, l \in ToSet(Lists) : FullPage(Len(pages[f][l]))
Failed == \E f \in DOMAIN pages : pages[f] = <<>>
AfterRound ==
  /\ step = "pages" /\ DOMAIN pages = Offsets
  /\ pages' = <<>>
  /\ IF Failed
     THEN /\ step' = IF case.task = "lab" THEN "circuits" ELSE "failed"
          /\ UNCHANGED <<offset, rows>>
     ELSE /\ rows' = [l \in ToSet(Lists) |-> (IF l \in DOMAIN rows THEN rows[l] ELSE <<>>) \o Gathered(l)]
          /\ offset' = offset + PageThreads * Limit
          /\ step' = IF MorePages THEN "pages" ELSE "assemble"
  /\ UNCHANGED <<result, errors, faults>> /\ Keeps

-----------------------------------------------------------------------------
(***************************************************************************)
(* get_connections: three passes over the rows, for the ports with a       *)
(* cable, for virtual ones by their parent, for LAGs by their members.     *)
(***************************************************************************)
Connection(termination, device, names) ==
  [termination |-> termination, device |-> device, names |-> names, form |-> "one"]
Toward(end, termination, names) ==
  IF end.kind = "providernetwork" THEN Connection(termination, None, <<>>)
  ELSE Connection(termination, end.device, names)

NamesOf(ends) == [i \in DOMAIN ends |-> ends[i].name]
Direct(r) ==
  [Toward(r.port.ends[1], r.port.list, NamesOf(r.port.ends)) EXCEPT
     !.form = IF Len(r.port.ends) > 1 THEN "breakout" ELSE "one"]
Virtual(r) ==
  IF r.port.unit = None /\ r.via.kind # "providernetwork" THEN Connection("virtual", None, <<>>)
  ELSE Toward(r.via, "virtual", <<IF r.child # None THEN r.child ELSE IF r.far # None THEN r.far ELSE r.via.name>>)
Lag(r) ==
  IF r.via.kind = "providernetwork" THEN Toward(r.via, "lag", <<>>)
  ELSE IF r.far # None THEN Toward(r.via, "lag", <<r.far>>)
  ELSE [Toward(r.via, "interface", NamesOf(r.members)) EXCEPT !.form = "list"]

AllRows == FlattenSeq([i \in DOMAIN Lists |-> rows[Lists[i]]])
IsDirect(r) == r.port.ends # <<>>
IsVirtual(r) == r.port.type = "virtual" /\ r.port.parent # None /\ r.via # None
IsLag(r) == r.port.type = "lag" /\ r.via # None
Entry(r, connection) == [at |-> <<r.port.device, r.port.name>>, connection |-> connection]
Pass(Test(_), Connect(_)) ==
  LET hits == SelectSeq(AllRows, Test) IN [i \in DOMAIN hits |-> Entry(hits[i], Connect(hits[i]))]

(* One entry per name: a later one of the same name takes its place.       *)
Enter(entries, e) ==
  IF \E i \in DOMAIN entries : entries[i].at = e.at
  THEN [i \in DOMAIN entries |-> IF entries[i].at = e.at THEN e ELSE entries[i]]
  ELSE Append(entries, e)
Connections ==
  FoldLeft(Enter, <<>>, Pass(IsDirect, Direct) \o Pass(IsVirtual, Virtual) \o Pass(IsLag, Lag))

(***************************************************************************)
(* get_topology: a link for each pair of ports, from whichever is first.   *)
(***************************************************************************)
EndOf(device, name) == [device |-> device, names |-> <<name>>, list |-> FALSE]
Pair(link) == {link[1], link[2]}
AddLink(links, link) == IF \E i \in DOMAIN links : Pair(links[i]) = Pair(link) THEN links ELSE Append(links, link)
LinksOfRow(r) ==
  LET ends == SelectSeq(r.port.ends, LAMBDA e : e.kind = "interface")
  IN  [i \in DOMAIN ends |-> <<EndOf(r.port.device, r.port.name), EndOf(ends[i].device, ends[i].name)>>]
TopologyLinks == FoldLeft(AddLink, <<>>, FlattenSeq([i \in DOMAIN AllRows |-> LinksOfRow(AllRows[i])]))

(***************************************************************************)
(* get_containerlab_inventory: the last device first, its interfaces in    *)
(* the order of get_connections; no end may be in two links.               *)
(***************************************************************************)
Linked(links) == UNION {Pair(links[i]) : i \in DOMAIN links}
Lays(links, link) == IF Pair(link) \cap Linked(links) # {} THEN links ELSE Append(links, link)

LabLink(e) ==
  LET c == e.connection
      far == EndOf(c.device, c.names[1])
  IN  <<EndOf(e.at[1], e.at[2]), IF c.form = "list" THEN [far EXCEPT !.names = c.names, !.list = TRUE] ELSE far>>
BetweenNodes(e) ==
  /\ e.connection.termination = "interface" /\ e.connection.names # <<>>
  /\ Contains(result.nodes, e.connection.device)
LabLinks(entries) ==
  LET OfDevice(d) == SelectSeq(entries, LAMBDA e : e.at[1] = d /\ BetweenNodes(e))
      laid == FlattenSeq([i \in DOMAIN result.nodes |-> OfDevice(Reverse(result.nodes)[i])])
  IN  FoldLeft(Lays, <<>>, [i \in DOMAIN laid |-> LabLink(laid[i])])

Assemble ==
  /\ step = "assemble"
  /\ result' = CASE case.task = "connections" -> [result EXCEPT !.connections = Connections]
                 [] case.task = "topology" -> [result EXCEPT !.links = TopologyLinks]
                 [] case.task = "lab" -> [result EXCEPT !.links = LabLinks(Connections)]
  /\ step' = CASE case.task = "connections" -> "done" [] case.task = "topology" -> "extra" [] case.task = "lab" -> "circuits"
  /\ UNCHANGED <<offset, pages, rows, errors, faults>> /\ Keeps

(* get_topology: devices at the far ends become nodes, too.                *)
Extra ==
  LET far == {e.device : e \in Linked(result.links)} \ ToSet(result.nodes)
  IN  /\ step = "extra"
      /\ \/ /\ result' = [result EXCEPT !.nodes = @ \o SelectSeq(case.devices, LAMBDA d : d \in far)]
            /\ step' = "done" /\ UNCHANGED <<errors, faults>>
         \/ far # {} /\ Fault /\ step' = "raised" /\ errors' = TRUE /\ UNCHANGED result
      /\ UNCHANGED <<offset, pages, rows>> /\ Keeps

(* The circuits of the nodes, each told from both of its ends.             *)
Circuits ==
  LET Mine(d) == SelectSeq(case.circuits, LAMBDA c : c[1].device = d /\ Contains(result.nodes, c[2].device))
      told == FlattenSeq([i \in DOMAIN result.nodes |-> Mine(Reverse(result.nodes)[i])])
  IN  /\ step = "circuits"
      /\ \/ result' = [result EXCEPT !.links = FoldLeft(Lays, @, told)] /\ UNCHANGED <<errors, faults>>
         \/ Fault /\ errors' = TRUE /\ UNCHANGED result
      /\ step' = "rename"
      /\ UNCHANGED <<offset, pages, rows>> /\ Keeps

(* interfaces_rename of the nodes' configuration; a list has no text to    *)
(* replace.                                                                *)
Renamed(end) ==
  IF end.device \in DOMAIN case.rename /\ end.names[1] \in DOMAIN case.rename[end.device]
  THEN [end EXCEPT !.names = <<case.rename[end.device][end.names[1]]>>] ELSE end
Rename ==
  /\ step = "rename"
  /\ IF \E e \in Linked(result.links) : e.list /\ e.device \in DOMAIN case.rename
     THEN step' = "raised" /\ UNCHANGED result
     ELSE /\ step' = "done"
          /\ result' = [result EXCEPT !.links = [i \in DOMAIN @ |-> <<Renamed(@[i][1]), Renamed(@[i][2])>>]]
  /\ UNCHANGED <<offset, pages, rows, errors, faults>> /\ Keeps

(* Somebody deletes a port, and its cable with it.                         *)
Delete ==
  /\ step = "pages" /\ edits < MaxEdits /\ edits' = edits + 1
  /\ \E p \in ToSet(ports) :
       LET rest == SelectSeq(ports, LAMBDA q : q # p)
           Cut(q) == [q EXCEPT !.ends = SelectSeq(@, LAMBDA e : ~Is(p, e.device, e.name)),
                               !.lag = IF q.device = p.device /\ @ = p.name THEN None ELSE @]
       IN  /\ \A q \in ToSet(rest) : ~(q.device = p.device /\ q.parent = p.name)
           /\ ports' = [i \in DOMAIN rest |-> Cut(rest[i])]
  /\ UNCHANGED <<case, step, offset, pages, rows, result, errors, faults>>

Next ==
  \/ Devices \/ FetchPage \/ AfterRound \/ Assemble \/ Extra \/ Circuits \/ Rename \/ Delete
  \/ step \in Over /\ UNCHANGED vars

Spec == Init /\ [][Next]_vars

-----------------------------------------------------------------------------
(***************************************************************************)
(* What the maps promise, against what NetBox had at first.                *)
(***************************************************************************)
AtFirst == ToSet(case.ports)
EndAt(p) == EndOf(p.device, p.name)
Cables(p) == {{EndAt(p), EndOf(e.device, e.name)} : e \in {x \in ToSet(p.ends) : x.kind = "interface"}}
Cabled == UNION {Cables(p) : p \in {q \in AtFirst : q.list = "interface"}}
CabledNodes == {c \in Cabled : \E e \in c : Contains(Nodes, e.device)}
AllIsRead == ~errors /\ edits = 0 /\ ~(case.dry_run /\ case.task # "lab")

(* The ports whose cables carry the traffic of a port: the members of a    *)
(* LAG, the parent of a unit, or itself.                                   *)
BaseOf(p) ==
  IF p.parent = None THEN p ELSE CHOOSE q \in AtFirst : Is(q, p.device, p.parent) /\ q.list = "interface"
Carriers(p) ==
  LET b == BaseOf(p) IN IF b.type = "lag" THEN {m \in AtFirst : m.device = b.device /\ m.lag = b.name} ELSE {b}
FarEnds(p) == UNION {ToSet(m.ends) : m \in Carriers(p)}
Facing(p, device, name) ==
  \E x \in FarEnds(p) : x.device = device /\
    \/ x.name = name
    \/ /\ p.type # "phy"
       /\ \E q \in AtFirst : /\ Is(q, device, name) /\ q.unit \in {None, p.unit}
                              /\ \E m \in Carriers(q) : m.name = x.name

(* get_connections: an entry leads to where the cables of its port, of its *)
(* members or of its parent go, and if all was read every port with a      *)
(* cable has its entry, one without LAG or unit with all of its ends.      *)
Leads(p, c) ==
  IF c.device = None THEN \E x \in FarEnds(p) : x.kind = "providernetwork"
  ELSE c.names # <<>> /\ \A n \in ToSet(c.names) : Facing(p, c.device, n)
LeadsToAll(p, c) ==
  p.type = "phy" => ToSet(c.names) = {x.name : x \in {y \in FarEnds(p) : y.kind # "providernetwork"}}
ConnectionsAreCables ==
  LET entries == ToSet(result.connections)
      Here(e) == {p \in AtFirst : Is(p, e.at[1], e.at[2])}
  IN  /\ \A e \in entries : \E p \in Here(e) : Leads(p, e.connection)
      /\ AllIsRead /\ case.task = "connections" =>
           /\ \A p \in AtFirst : Contains(Nodes, p.device) /\ FarEnds(p) # {} =>
                \E e \in entries : p \in Here(e)
           /\ \A e \in entries : \E p \in Here(e) : LeadsToAll(p, e.connection)

(* get_topology: a link is a cable, none is there twice, and if all was    *)
(* read none of the devices is missing.                                    *)
TopologyIsCables ==
  case.task = "topology" =>
    LET links == [i \in DOMAIN result.links |-> Pair(result.links[i])]
    IN  /\ Range(links) \subseteq Cabled /\ IsInjective(links)
        /\ AllIsRead => CabledNodes = Range(links)

(* get_containerlab_inventory: a link is a cable or a circuit, under the   *)
(* names that the caller gave its ports, or joins a LAG to the plain ports *)
(* its members lead to; no port is in two links.  If all was read, a cable *)
(* between the nodes is missing only if one of its ports has more cables   *)
(* than this, and another is there, or if both share their names with      *)
(* other ports.                                                            *)
Under(names) == {Renamed(e) : e \in names}
NamedTwice(e) == \E p, q \in AtFirst : p # q /\ EndAt(p) = e /\ EndAt(q) = e
HasMoreCables(e) == \E c, d \in Cabled : c # d /\ e \in c \cap d
IsOfLag(link) ==
  \E p \in {q \in AtFirst : q.type = "lag"} :
    /\ link[1] = EndAt(p) /\ link[2].list
    /\ \A n \in ToSet(link[2].names) : Facing(p, link[2].device, n)
LabIsCables ==
  case.task = "lab" =>
    LET links == result.links
        circuits == {Under(Pair(c)) : c \in ToSet(case.circuits)}
    IN  /\ \A i \in DOMAIN links : IsOfLag(links[i]) \/ Pair(links[i]) \in circuits \cup {Under(c) : c \in Cabled}
        /\ \A i, j \in DOMAIN links : i # j => Pair(links[i]) \cap Pair(links[j]) = {}
        /\ AllIsRead => \A c \in CabledNodes :
             \/ \E e \in c : ~Contains(Nodes, e.device)
             \/ \A e \in c : NamedTwice(e)
             \/ Under(c) \in {Pair(links[i]) : i \in DOMAIN links}
             \/ \E e \in c : HasMoreCables(e) /\ Renamed(e) \in Linked(links)

=============================================================================
