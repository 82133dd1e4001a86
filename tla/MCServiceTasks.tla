--------------------------- MODULE MCServiceTasks ---------------------------
(***************************************************************************)
(* Small instances: two devices that NetBox knows, one it does not, and a  *)
(* case for each kind of object, with the arguments that matter for it.    *)
(***************************************************************************)
EXTENDS ServiceTasks

Intf(type, parent, lag, data, vlans) ==
  [type |-> type, parent |-> parent, lag |-> lag, data |-> data, tagged_vlans |-> vlans]
Plain == Intf("other", None, None, "a", {})
Port(d) == <<d, "eth0">>
Ip(address, vrf, role, at) == [address |-> address, vrf |-> vrf, role |-> role, interface |-> at]
LiveIp(at, address) == [at |-> at, address |-> address, vrf |-> "red"]
Module(type, serial) == [type |-> type, serial |-> serial]
Session(name, data) == [name |-> name, data |-> data]

EmptyNetbox ==
  [devices |-> {"d1", "d2"}, interfaces |-> [k \in {Port("d1"), Port("d2")} |-> Plain],
   macs |-> <<>>, ips |-> <<>>, prefixes |-> {}, bays |-> {}, modules |-> <<>>, types |-> {"card"},
   serials |-> [d \in {"d1", "d2"} |-> "s0"], sessions |-> <<>>,
   vlans |-> <<>>, groups |-> {"g"}, sites |-> [d \in {"d1", "d2"} |-> "site"], objects |-> <<>>, records |-> <<>>,
   parents |-> {}, subnets |-> <<>>, asns |-> {"as1"}]
EmptyLive ==
  [interfaces |-> EmptyNetbox.interfaces, macs |-> <<>>, ips |-> {},
   prefix_of |-> [a \in {"a1", "a2"} |-> "p"], modules |-> <<>>, unclear |-> {},
   chassis |-> [d \in {"d1", "d2"} |-> {"s0"}], sessions |-> <<>>, unaddressed |-> {}, unnamed |-> {},
   vlans |-> {}]
Defaults ==
  [tasks |-> <<"interfaces">>, check |-> FALSE, devices |-> {"d1", "d2"}, hosts |-> {}, dry_run |-> FALSE, with_approval |-> FALSE,
   process_deletions |-> TRUE, update_type |-> FALSE,
   filter_by_name |-> {"eth0", "eth1", "eth1.1", "lag1", "lo"}, filter_by_description |-> {"a", "b"},
   loopbacks |-> {"lo"}, anycast |-> {}, ignore_vrf |-> TRUE, create_prefixes |-> TRUE,
   create_bays |-> TRUE, create_types |-> TRUE, filter_by_module |-> {"card", "fan"},
   filter_by_remote_as |-> {"x", "y"}, filter_by_vlan_ids |-> {10, 20}, vlan_map |-> <<>>, vlan_group |-> None,
   requests |-> {}, create_reverse |-> TRUE, links |-> <<>>, template |-> <<>>, rir |-> FALSE,
   asn_source |-> FALSE, asn_of |-> <<>>, names |-> {"eth0", "eth1"}, payload |-> [Plain EXCEPT !.data = "b"],
   design |-> {}, create_order |-> <<>>, data |-> {}, ids |-> {}, new |-> None, calls |-> <<>>,
   prefix |-> [length |-> 30, description |-> None, vrf |-> None, site |-> None, tags |-> {}]]
Only(t) == [Defaults EXCEPT !.tasks = <<t>>]
(* A job as it is, as a dry run, with a review, and both.                  *)
Modes(o) == {[o EXCEPT !.dry_run = d, !.with_approval = a] : d, a \in BOOLEAN}
Case(nb, lv, os) == {[netbox |-> nb, live |-> lv, options |-> o] : o \in os}

(* LAG, member and subinterface to create, one to update, one to delete.   *)
IntfNetbox ==
  [EmptyNetbox EXCEPT !.interfaces =
     (<<"d1", "lo">> :> Plain) @@ (Port("d2") :> Intf("other", None, None, "b", {"v1", "v3"})) @@ @,
     !.macs = 1 :> [mac |-> "m1", interface |-> <<"d1", "lo">>]]
IntfLive ==
  [EmptyLive EXCEPT !.interfaces =
     (<<"d1", "lag1">> :> Intf("lag", None, None, "a", {})) @@ (<<"d1", "eth1">> :> Intf("phy", None, "lag1", "a", {}))
     @@ (<<"d1", "eth1.1">> :> Intf("other", "eth1", None, "a", {}))
     @@ (Port("d2") :> Intf("phy", None, None, "b", {"v1", "v2"})) @@ (Port("d1") :> [Plain EXCEPT !.data = "b"])]
IntfCases ==
  Case(IntfNetbox, IntfLive,
       Modes(Only("interfaces"))
       \cup {[Only("interfaces") EXCEPT !.update_type = TRUE],
             [Only("interfaces") EXCEPT !.devices = {"d1", "d3"}], [Only("interfaces") EXCEPT !.vlan_group = "h"],
             [Only("interfaces") EXCEPT !.filter_by_description = {"a"}],
             [Only("interfaces") EXCEPT !.filter_by_name = {"eth0", "lo"}, !.process_deletions = FALSE]})
  \cup Case([EmptyNetbox EXCEPT !.interfaces = <<>>], EmptyLive, {Only("interfaces"), Only("mac")})

MacNetbox ==
  [EmptyNetbox EXCEPT !.macs = (1 :> [mac |-> "m1", interface |-> None]) @@ (2 :> [mac |-> "m2", interface |-> Port("d1")])]
MacCases ==
  UNION {Case(MacNetbox, [EmptyLive EXCEPT !.macs = ("m1" :> Port("d1")) @@ ("m3" :> Port("d2")) @@ m],
              Modes(Only("mac"))) : m \in {<<>>, "m2" :> Port("d2"), "m2" :> <<"d1", "lo">>}}

OneIp == {LiveIp(Port("d1"), "a1"), LiveIp(<<"d1", "lo">>, "a2")}
Shares == OneIp \cup {LiveIp(Port("d2"), "a1")}
FreeIp == (1 :> Ip("a1", None, None, None)) @@ (2 :> Ip("a2", "red", None, <<"d1", "lo">>))
TakenIp == 1 :> Ip("a1", "red", None, Port("d2"))
WithLo(table) == (<<"d1", "lo">> :> Plain) @@ table
IpCase(ips, lv, os) ==
  Case([EmptyNetbox EXCEPT !.ips = ips, !.interfaces = WithLo(@)],
       [EmptyLive EXCEPT !.ips = lv, !.interfaces = WithLo(@)], os)
IpOptions ==
  {[Only("ip") EXCEPT !.anycast = any, !.ignore_vrf = ignore] : any \in {{}, {"a1"}}, ignore \in BOOLEAN}
IpCases ==
  UNION {IpCase(ips, lv, IpOptions) : ips \in {<<>>, TakenIp}, lv \in {OneIp, Shares}}
  \cup IpCase(FreeIp, OneIp, IpOptions \cup Modes(Only("ip")))

InventoryNetbox ==
  [EmptyNetbox EXCEPT !.bays = {<<"d1", "b1">>, <<"d2", "b1">>, <<"d2", "b2">>},
     !.modules = (<<"d1", "b1">> :> Module("card", "s1")) @@ (<<"d2", "b1">> :> Module("card", "s2"))
                 @@ (<<"d2", "b2">> :> Module("card", "s3"))]
InventoryLive ==
  [EmptyLive EXCEPT !.chassis["d1"] = {"s9"}, !.unclear = {<<"d2", "b1">>},
     !.modules = (<<"d1", "b1">> :> Module("fan", "s1")) @@ (<<"d1", "b3">> :> Module("card", "s4"))]
InventoryCases ==
  Case(InventoryNetbox, InventoryLive,
       Modes(Only("inventory"))
       \cup {[Only("inventory") EXCEPT !.create_bays = b, !.create_types = t, !.filter_by_module = m] :
               b, t \in BOOLEAN, m \in {{"card"}, {"card", "fan"}}})
  \cup Case(InventoryNetbox, [InventoryLive EXCEPT !.chassis["d2"] = {"s1", "s2"}, !.unclear = {}], {Only("inventory")})
  \cup Case(InventoryNetbox, [InventoryLive EXCEPT !.unclear = {}], {Only("inventory")})

BgpNetbox ==
  [EmptyNetbox EXCEPT !.sessions =
     (<<"d1", "x">> :> Session("n1", "a")) @@ (<<"d2", "x">> :> Session("n2", "a"))]
BgpLive ==
  [EmptyLive EXCEPT !.sessions =
     (<<"d1", "x">> :> Session("n1", "b")) @@ (<<"d1", "y">> :> Session("n3", "a"))]
BgpCases ==
  Case(BgpNetbox, BgpLive,
       Modes(Only("bgp"))
       \cup {[Only("bgp") EXCEPT !.devices = ds, !.filter_by_remote_as = ps] :
               ds \in {{"d1"}, {"d1", "d3"}, {"d1", "d2"}}, ps \in {{"x"}, {"x", "y"}}})
  \cup UNION {Case(BgpNetbox,
                   [BgpLive EXCEPT !.sessions[<<"d1", "x">>].name = n,
                      !.unaddressed = u, !.unnamed = {<<"d1", "x">>} \ u], {Only("bgp")})
              : n \in {"n1", "n4"}, u \in {{}, {<<"d1", "x">>}}}
  \cup Case(BgpNetbox, BgpLive, {[Only("bgp") EXCEPT !.filter_by_description = {"a"}]})
  \cup UNION {Case([BgpNetbox EXCEPT !.sessions[<<"d2", "x">>].name = n], lv, {Only("bgp")})
              : n \in {"n1", "n3"}, lv \in {BgpLive, [BgpLive EXCEPT !.sessions = (<<"d2", "x">> :> Session("n1", "b")) @@ @]}}

(* An interface at each end of a link, one without a link, an address of   *)
(* no interface; sessions that are there under their own name or another.  *)
Peering(d, interfaces, local, remote, name, as1, as2) ==
  [device |-> d, interfaces |-> interfaces, local |-> local, remote |-> remote, name |-> name,
   local_as |-> as1, remote_as |-> as2]
PeeringNetbox ==
  [EmptyNetbox EXCEPT !.interfaces = (<<"d1", "eth1">> :> Plain) @@ @,
     !.ips = <<Ip("a1", None, None, Port("d1")), Ip("a2", None, None, Port("d2")),
               Ip("a3", None, None, <<"d1", "eth1">>), Ip("a4", None, None, None)>>]
PeeringOptions(rs) ==
  [Only("create bgp") EXCEPT !.requests = rs,
     !.links = [a \in {"a1", "a2", "a3"} |-> CASE a = "a1" -> "a2" [] a = "a2" -> "a1" [] a = "a3" -> None],
     !.template = (<<"d1", "a2">> :> "n12") @@ (<<"d2", "a1">> :> "n21") @@ (<<"d1", "a4">> :> "n14")
                  @@ (<<"d2", "a3">> :> "n23") @@ (<<"d3", "a1">> :> "n31"),
     !.asn_of = ("d1" :> "as1") @@ ("d2" :> "as2")]
ByInterface == Peering("d1", {"eth0"}, None, None, None, "as1", "as1")
PeeringCases ==
  UNION {Case([PeeringNetbox EXCEPT !.sessions = there], EmptyLive,
      {[PeeringOptions({ByInterface}) EXCEPT !.create_reverse = reverse, !.dry_run = dry] : reverse, dry \in BOOLEAN}
      \cup {[PeeringOptions(rs) EXCEPT !.rir = TRUE] :
              rs \in {{Peering("d1", {"eth0", "eth1", "eth9"}, None, None, "n1", "as1", "as2")},
                      {Peering("d1", {}, "a1", "a2", None, "as1", "as2"), Peering("d2", {}, "a2", "a1", None, "as2", "as1")},
                      {Peering("d1", {"eth1"}, None, "a2", None, "as1", "as2")},
                      {Peering("d1", {}, "a1", "a4", "n9", "as1", "as2"), Peering("d3", {}, "a2", "a1", "n31", "as3", "as1")},
                      {Peering("d1", {}, "a1", None, None, "as1", "as2")}}}
      \cup {[PeeringOptions({[ByInterface EXCEPT !.local_as = None, !.remote_as = as]}) EXCEPT !.asn_source = TRUE, !.rir = rir] :
              as \in {None, "as1"}, rir \in BOOLEAN})
    : there \in {<<>>, <<"d2", "a1">> :> Session("n21", "a"), <<"d2", "a1">> :> Session("n12", "a")}}
UpdateCases ==
  UNION {Case([EmptyNetbox EXCEPT !.sessions = there @@ (<<"d1", "x">> :> Session("n1", "a"))], EmptyLive,
      {[Only("update bgp") EXCEPT !.requests = {[name |-> n] : n \in ns}, !.payload.data = "b", !.dry_run = dry] :
         ns \in {{"n1"}, {"n1", "n2"}, {"n1", "n9"}}, dry \in BOOLEAN})
    : there \in {<<"d2", "x">> :> Session("n2", "b"), <<"d2", "x">> :> Session("n1", "b")}}

(* In NetBox a VLAN with another name, one with another description, and   *)
(* one in the group; the devices do not agree on the name of a VLAN that a *)
(* rule puts into the group.                                               *)
Vlan(scope, vid, name) == [scope |-> scope, vid |-> vid, name |-> name, data |-> "a"]
LiveVlan(d, vid, name, data) == [device |-> d, vid |-> vid, name |-> name, data |-> data]
VlanNetbox ==
  [EmptyNetbox EXCEPT !.vlans = (1 :> Vlan("site", 10, "B")) @@ (2 :> Vlan("site", 10, "C")) @@ (3 :> Vlan("g", 20, "D"))]
VlanLive ==
  [EmptyLive EXCEPT !.vlans = {LiveVlan("d1", 10, "A", "a"), LiveVlan("d2", 10, "B", "b"), LiveVlan("d2", 20, "E", "b")}]
Rule(group, devices) == [group |-> group, vids |-> {20}, devices |-> devices]
VlanCases ==
  Case(VlanNetbox, VlanLive,
       Modes(Only("vlans"))
       \cup {[Only("vlans") EXCEPT !.vlan_map = r] :
               r \in {<<>>, <<Rule("g", {"d2"})>>, <<Rule("h", {"d1"})>>, <<Rule("g", {"d1"}), Rule("g", {"d2"})>>}}
       \cup {[Only("vlans") EXCEPT !.devices = {"d1", "d3"}], [Only("vlans") EXCEPT !.filter_by_vlan_ids = {20}],
             [Only("vlans") EXCEPT !.vlan_group = "g"]})
EditCases ==
  Case([EmptyNetbox EXCEPT !.interfaces = (<<"d1", "eth1">> :> Plain) @@ @], EmptyLive,
       UNION {{[o EXCEPT !.devices = {"d1", "d2", "d3"}], [o EXCEPT !.dry_run = TRUE]} :
              o \in {Only("create"), Only("descriptions")}})

(* A port of d2 under the name of one of d1, an address without a name, a  *)
(* cable that is not in the order, a device that comes after its port.     *)
Object(type, name, of) == [type |-> type, name |-> name, of |-> of, data |-> "a"]
Site == Object("site", "s", None)
Router(n) == Object("device", n, None)
PortOf(d) == Object("port", "eth0", d)
NoName == Object("ip", None, None)
InDesign == {Site, Router("r1"), Router("r2"), PortOf("r1"), PortOf("r2"), NoName, Object("cable", None, None)}
Order == <<"site", "device", "port", "ip">>
DesignCases ==
  UNION {Case([EmptyNetbox EXCEPT !.objects = there],
              EmptyLive,
              {[Only("design") EXCEPT !.design = InDesign, !.create_order = order, !.dry_run = dry] :
                 order \in {Order, <<"port", "device">>}, dry \in BOOLEAN})
         : there \in {<<>>, (1 :> Router("r1")) @@ (2 :> PortOf("r1")) @@ (3 :> NoName)}}
CrudCases ==
  Case([EmptyNetbox EXCEPT !.objects = (1 :> Router("r1")) @@ (2 :> PortOf("r1")) @@ (3 :> [Site EXCEPT !.data = "b"])],
       EmptyLive,
       UNION {{[Only(t) EXCEPT !.data = data, !.ids = {1, 2, 3, 9}, !.new = "b", !.dry_run = dry] : dry \in BOOLEAN} :
              t \in {"crud create", "crud update", "crud delete"}, data \in {{Router("r2"), NoName}, {PortOf("r2")}}})

(* A first call fills the cache for one device or both, a second uses it.  *)
Record(id, name, on) == [id |-> id, name |-> name, on |-> on, version |-> 1]
CallOf(cache, devices) == [cache |-> cache, devices |-> devices]
ReadCase(t, records) ==
  Case([EmptyNetbox EXCEPT !.records = records], EmptyLive,
       {[Only(t) EXCEPT !.calls = <<CallOf("refresh", ds), CallOf(mode, {"d1", "d2"})>>, !.dry_run = dry] :
          ds \in {{"d1"}, {"d1", "d2", "d3"}}, mode \in {"true", "false", "force"}, dry \in BOOLEAN})
ReadCases ==
  ReadCase("get devices", <<Record(1, "d1", {"d1"}), Record(2, "d2", {"d2"})>>)
  \cup ReadCase("get circuits", <<Record(1, "c1", {"d1", "d2"}), Record(2, "c2", {"d2"})>>)
  \cup ReadCase("get bgp", <<Record(1, "s1", {"d1"}), Record(2, "s2", {"d2"}), Record(3, "s3", {"d2"})>>)

(* Two subnets of a VRF, room for one more; what is asked for is one of    *)
(* them, both, none, or too much.                                          *)
Subnet(length, description, vrf, site, tags) ==
  [length |-> length, description |-> description, vrf |-> vrf, site |-> site, tags |-> tags]
PrefixNetbox(room) ==
  [EmptyNetbox EXCEPT !.parents = {[vrf |-> "red", room |-> room]},
     !.subnets = <<Subnet(30, "x", "red", None, {}), Subnet(31, "y", "red", "site", {"t"})>>]
PrefixCases ==
  UNION {Case(nb, EmptyLive,
              {[Only("prefix") EXCEPT !.prefix = p, !.dry_run = dry] :
                 dry \in BOOLEAN,
                 p \in {Subnet(30, None, None, None, {}), Subnet(30, "x", "red", None, {"t", "u"}),
                        Subnet(31, "y", "red", "site", {"t", "u"}), Subnet(30, "z", "red", "site", {"t"}),
                        Subnet(30, "z", "red", "nowhere", {}), Subnet(30, None, "red", None, {}),
                        Subnet(30, "z", "blue", None, {}), Subnet(31, "x", None, None, {})}})
         : nb \in {EmptyNetbox, PrefixNetbox(2), PrefixNetbox(3)}}

(* All tasks in a row, each with something to write.                       *)
AllCases ==
  Case([BgpNetbox EXCEPT !.bays = {<<"d1", "b1">>}],
       [BgpLive EXCEPT !.modules = <<"d1", "b1">> :> Module("card", "s1"), !.macs = "m1" :> <<"d1", "eth1">>,
          !.interfaces = (<<"d1", "eth1">> :> Plain) @@ @, !.ips = {LiveIp(<<"d1", "eth1">>, "a1")}],
       Modes([Defaults EXCEPT !.tasks = <<"inventory", "interfaces", "mac", "ip", "bgp">>])
       \cup {[Only(t) EXCEPT !.devices = {}, !.hosts = {"d1"}] : t \in SyncTasks})
CheckOptions == [Defaults EXCEPT !.check = TRUE, !.dry_run = TRUE]
CheckCases ==
  Case(BgpNetbox, [BgpLive EXCEPT !.chassis["d2"] = {"s1"}, !.ips = {LiveIp(Port("d1"), "a1")},
                     !.sessions = <<"d1", "x">> :> Session("n1", "a")],
       {[CheckOptions EXCEPT !.tasks = ts, !.devices = ds, !.hosts = {"d1"}] :
          ts \in {<<"inventory", "interfaces", "mac", "ip", "bgp">>, <<"inventory", "bgp">>, <<"interfaces">>},
          ds \in {{}, {"d1", "d2"}, {"d1", "d3"}}})

MCCases == IntfCases \cup MacCases \cup IpCases \cup InventoryCases \cup BgpCases \cup PeeringCases \cup UpdateCases
           \cup VlanCases \cup EditCases \cup DesignCases \cup CrudCases \cup ReadCases
           \cup PrefixCases \cup AllCases \cup CheckCases
MCAlike == {<<"v3", "v2">>}

-----------------------------------------------------------------------------
(* Two parent prefixes with four subnets of two addresses: both parents    *)
(* larger than a subnet, where the first runs out, or the first is one; a  *)
(* link a-b, an interface c without a cable, and one, x, that NetBox does  *)
(* not have.                                                               *)
MCParents == {<<{1, 2, 3, 4}, {5, 6, 7, 8}>>, <<{1, 2}, {3, 4, 5, 6}>>}
MCSubnets == {{1, 2}, {3, 4}, {5, 6}, {7, 8}}
MCPeer == [a |-> "b", b |-> "a", c |-> None, x |-> None]
AskedFor(interfaces, masks, peers, vrfs) ==
  [interfaces : interfaces, mask : masks, peer : peers, vrf : vrfs, dry_run : {FALSE}]
MCRequests ==
  AskedFor({<<"a">>}, {TRUE}, BOOLEAN, BOOLEAN) \cup AskedFor({<<"b">>}, BOOLEAN, {TRUE}, {FALSE})
  \cup AskedFor({<<"a", "c">>}, {TRUE}, BOOLEAN, {FALSE}) \cup AskedFor({<<"x">>}, {TRUE}, {FALSE}, {FALSE})
  \cup {[interfaces |-> <<"a">>, mask |-> FALSE, peer |-> TRUE, vrf |-> FALSE, dry_run |-> TRUE]}

-----------------------------------------------------------------------------
(* Three steps for two workers; every condition on the steps before and,   *)
(* as an error, on one that never comes.                                   *)
CONSTANTS w1, w2
KindSet == {"run_if_fail_any", "run_if_pass_any", "run_if_fail_all", "run_if_pass_all"}
Always == [k \in KindSet |-> <<>>] @@ [stop_on_failure |-> FALSE]
Conditional(named) == {[Always EXCEPT ![k] = n] : k \in KindSet, n \in named}
Twice(named) == {[s EXCEPT ![k] = n] : s \in Conditional(named), k \in KindSet, n \in named}
Stopping(steps) == {[s EXCEPT !.stop_on_failure = TRUE] : s \in steps}

Firsts == {Always} \cup Stopping({Always})
Seconds == {Always} \cup Conditional({<<1>>, <<3>>}) \cup Stopping(Conditional({<<1>>}))
Thirds == Conditional({<<1>>, <<2, 1>>}) \cup Twice({<<1>>, <<2>>})

ThreeSteps == {<<a, b, c>> : a \in Firsts, b \in Seconds, c \in Thirds}

Good == [failed |-> FALSE, status |-> "completed"]
Bad == [failed |-> TRUE, status |-> "failed"]
Empty == [failed |-> FALSE, status |-> "no_match"]
BadMatch == [failed |-> TRUE, status |-> "no_match"]
Two(a, b) == [w \in {w1, w2} |-> IF w = w1 THEN a ELSE b]
SomeAnswers ==
  {Two(Good, Good), Two(Good, Bad), Two(Bad, Bad), Two(Empty, Good), Two(Bad, Empty),
   Two(Empty, Empty), Two(BadMatch, Good)}

-----------------------------------------------------------------------------
(* Two devices with plain cables, LAGs, a breakout, a provider network and *)
(* cables to a third device; pages of two rows, two at a time.             *)
CableEnd(d, n) == [kind |-> "interface", device |-> d, name |-> n]
Cloud == [kind |-> "providernetwork", device |-> None, name |-> "cloud"]
MapPort(d, n, ends) ==
  [device |-> d, name |-> n, list |-> "interface", type |-> "phy", lag |-> None, parent |-> None, unit |-> None, ends |-> ends]
CablePorts(d, n, e, m) == <<MapPort(d, n, <<CableEnd(e, m)>>), MapPort(e, m, <<CableEnd(d, n)>>)>>
LagPort(d, n) == [MapPort(d, n, <<>>) EXCEPT !.type = "lag"]
Unit(d, n, parent, unit) == [MapPort(d, n, <<>>) EXCEPT !.type = "virtual", !.parent = parent, !.unit = unit]
MembersOf(lagname, ps) == [i \in DOMAIN ps |-> [ps[i] EXCEPT !.lag = lagname]]
Console(d, n) ==
  [MapPort(d, n, <<[kind |-> "consoleserverport", device |-> "d3", name |-> "c1"]>>) EXCEPT !.list = "consoleport"]

LagsPorts ==
  MembersOf("lag1", CablePorts("d1", "e1", "d2", "e1") \o CablePorts("d1", "e2", "d2", "e2"))
  \o <<LagPort("d1", "lag1"), LagPort("d2", "lag1"), Unit("d1", "lag1.10", "lag1", 10),
       Unit("d2", "lag1.10", "lag1", 10), Unit("d1", "lag1.20", "lag1", 20)>>
OneLagPorts ==
  <<[MapPort("d1", "e1", <<CableEnd("d2", "e1")>>) EXCEPT !.lag = "lag1"], MapPort("d2", "e1", <<CableEnd("d1", "e1")>>),
    LagPort("d1", "lag1"), Unit("d2", "e1.7", "e1", 7), Unit("d1", "e3.7", "e1", 7)>>
BreakoutPorts ==
  <<MapPort("d1", "b", <<CableEnd("d2", "b1"), CableEnd("d2", "b2")>>), MapPort("d2", "b1", <<CableEnd("d1", "b")>>),
    MapPort("d2", "b2", <<CableEnd("d1", "b")>>), Console("d1", "con"), Console("d2", "b2")>>
AwayPorts ==
  CablePorts("d1", "e1", "d3", "e1") \o CablePorts("d1", "e2", "d2", "e2")
  \o <<MapPort("d2", "p", <<Cloud>>), Unit("d2", "p.1", "p", 1), Console("d2", "e2")>>
Map(t, ps) ==
  [task |-> t, devices |-> <<"d1", "d2", "d3">>, asked |-> {"d1", "d2"}, kinds |-> {"d1", "d2"}, ports |-> ps,
   circuits |-> <<>>, rename |-> <<>>, dry_run |-> FALSE]
LinkEnd(d, n) == [device |-> d, names |-> <<n>>, list |-> FALSE]
Circuit(a, b) == <<<<a, b>>, <<b, a>>>>
MCMapCases ==
  {Map(t, ps) : t \in {"connections", "topology", "lab"}, ps \in {LagsPorts, OneLagPorts, BreakoutPorts, AwayPorts}}
  \cup {[Map(t, AwayPorts) EXCEPT !.dry_run = TRUE] : t \in {"topology", "connections"}}
  \cup {[Map("lab", ps) EXCEPT !.rename = "d2" :> ("e1" :> "eth1")] : ps \in {LagsPorts, OneLagPorts}}
  \cup {[Map("lab", AwayPorts) EXCEPT !.circuits = Circuit(LinkEnd("d1", "e4"), LinkEnd("d2", "e4"))
                                                 \o Circuit(LinkEnd("d1", "e2"), LinkEnd("d2", "e9"))]}
  \cup {[Map(t, AwayPorts) EXCEPT !.asked = {"d3", "d4"}] : t \in {"topology", "lab"}}

-----------------------------------------------------------------------------
(* Up to three labs, of which the nodes of one may be down, three subnets  *)
(* and a range of two ports; what is asked for meets labs and nodes that   *)
(* run, and the end of the pool.                                           *)
Topology(subnet, given) == [subnet |-> subnet, ports |-> given, tells |-> TRUE]
NodesDown(l) == [x \in DOMAIN l |-> [l[x] EXCEPT !.tells = FALSE]]
LabRequest(t, l) ==
  [task |-> t, lab |-> l, devices |-> {"n1", "n2"}, subnet |-> "s1", reconfigure |-> TRUE, node_filter |-> {},
   dry_run |-> FALSE, is_url |-> TRUE, topology |-> Topology("s3", "n1" :> 1)]
DeployNetbox == LabRequest("deploy netbox", "l1")
MCLabRequests ==
  {DeployNetbox, [DeployNetbox EXCEPT !.reconfigure = FALSE, !.devices = {"n1"}],
   [DeployNetbox EXCEPT !.devices = {"n1", "n2", "n3", "n9"}, !.subnet = "s2"],
   [DeployNetbox EXCEPT !.dry_run = TRUE], [DeployNetbox EXCEPT !.lab = "l4"],
   [DeployNetbox EXCEPT !.lab = "l2", !.devices = {"n3"}, !.node_filter = {"n3"}],
   LabRequest("deploy", "l2"), [LabRequest("deploy", "l3") EXCEPT !.is_url = FALSE], LabRequest("destroy", "l1"),
   LabRequest("save", "l2"), LabRequest("restart", "l1"), LabRequest("nornir inventory", None),
   LabRequest("nornir inventory", "l2"), LabRequest("running labs", None)}
LabOne == "l1" :> Topology("s2", ("n1" :> 1) @@ ("n2" :> 2))
LabTwo == "l2" :> Topology("s1", ("n3" :> 3))
LabThree == "l3" :> Topology("s3", ("n1" :> 4))
MCHostLabs == {<<>>, LabOne, LabTwo, LabOne @@ LabTwo, LabTwo @@ LabThree, LabOne @@ LabTwo @@ LabThree,
               LabOne @@ NodesDown(LabTwo), NodesDown(LabOne) @@ LabTwo @@ LabThree}
MCPool == <<"s1", "s2", "s3">>

(* Two networks, one of which every kind of job is for, some for all.      *)
ForNetwork(t, n) == [task |-> t, network |-> n]
MCNetworkRequests ==
  {ForNetwork(t, "n1") : t \in {"start", "stop", "restart", "inspect", "inventory"}}
  \cup {ForNetwork("stop", None), ForNetwork("inspect", None), ForNetwork("list", None), ForNetwork("start", "n2")}

(* Services with tasks that one gateway hides, that the policy rejects,    *)
(* and with a flaw of each kind; the guards cut, replace and block.        *)
Offering(name, api, mcp, flaws, told) ==
  [name |-> name, published |-> [api |-> api, mcp |-> mcp], flaws |-> flaws, prompts |-> told]
MCTasksOf ==
  [a |-> <<Offering("t1", FALSE, TRUE, {}, <<"p1">>), Offering("t2", TRUE, TRUE, {}, <<"p2">>)>>,
   b |-> <<Offering("t1", TRUE, TRUE, {"tool"}, <<"p3">>), Offering("t2", TRUE, FALSE, {}, <<>>)>>,
   c |-> <<Offering("t1", TRUE, TRUE, {"schema"}, <<>>), Offering("t2", FALSE, TRUE, {"guardrail"}, <<>>)>>,
   d |-> <<Offering("t1", TRUE, TRUE, {"prompt"}, <<"p1", "p2">>)>>]
Guard(type, matches, by) == [type |-> type, matches |-> matches, by |-> by]
MCTaskGuards ==
  [k \in (DOMAIN MCTasksOf) \X {"t1", "t2"} |->
     [before |-> <<[matches |-> {"x"}]>>,
      after |-> <<Guard("limit", {"long"}, None), Guard("replace", {"short"}, "text")>>]]
PolicyRule(of, tasks, action) == [services |-> of, tasks |-> tasks, action |-> action]
MCMcpInventory ==
  [policy |-> <<PolicyRule({"a", "b"}, {"t1"}, "allow"), PolicyRule({"a"}, {"t1", "t2"}, "reject")>>,
   disabled |-> FALSE,
   before |-> <<[service |-> "b", task |-> "t1", matches |-> {"y"}]>>,
   after |-> <<[services |-> {"a", "b"}, tasks |-> {"t1"}, type |-> "regex", matches |-> {"text"}, by |-> None]>>]
MCServiceOf == [wa |-> "a", wb1 |-> "b", wb2 |-> "b", wc |-> "c", wd |-> "d"]
Scene(cycles, of, there, kept, requests, bounds) ==
  [rounds |-> [thread |-> [cycles |-> cycles, services |-> of], job |-> [cycles |-> 1, services |-> {"a"}]],
   workers |-> there, tokens |-> [t \in kept |-> [user |-> "u1", tag |-> "u1", timed |-> TRUE]], requests |-> requests,
   may |-> bounds]
Calm == [faults |-> 0, comings |-> 0, edits |-> 0, exits |-> 0]
MCScenes ==
  {Scene(2, {"a", "b"}, {"wa", "wb1", "wb2"}, {"k1"}, {1}, [Calm EXCEPT !.faults = 1]),
   Scene(2, {"a", "b"}, {"wa", "wb1"}, {"k1"}, {1}, [Calm EXCEPT !.comings = 1]),
   Scene(2, {"a", "b", "c"}, {"wa", "wb1", "wc"}, {"k1"}, {}, [Calm EXCEPT !.comings = 1]),
   Scene(2, {"a", "d"}, {"wa", "wd"}, {"k1"}, {}, [Calm EXCEPT !.exits = 1])}
  \cup {Scene(1, {"b"}, {"wb1"}, kept, {1}, [Calm EXCEPT !.edits = 3]) : kept \in {{}, {"k1"}}}

(* NetBox with objects that fit one filter or both, a branch that is there *)
(* and one that was merged; queries of each kind, the reads with several   *)
(* filters, more ids than fit a URI, and only some fields.                 *)
Thing(type, fits) == [type |-> type, fits |-> fits]
Things == <<Thing("t1", {"f1"}), Thing("t1", {"f1", "f2"}), Thing("t1", {"f2"}), Thing("t2", {"f1"})>>
NetBox(version, plugin) ==
  [objects |-> Things, version |-> version, types |-> {"t1", "t2"}, plugin |-> plugin, last |-> 2,
   branches |-> [there |-> [id |-> 1, status |-> "ready"], merged |-> [id |-> 2, status |-> "merged"]]]
MCNetBoxes == {NetBox("new", TRUE), NetBox("new", FALSE), NetBox("old", TRUE)}
Asking(of, branch) ==
  [kind |-> of, branch |-> branch, ids |-> <<>>, filters |-> <<"f1">>, types |-> <<"t1">>, type |-> "t1",
   limit |-> 5, slim |-> FALSE, raise_missing |-> FALSE]
BranchQueries ==
  {Asking("write", b) : b \in {None, "there", "merged", "made"}}
  \cup {Asking("delete branch", "there"), Asking("delete branch", "made")}
ReadQueries ==
  {[Asking(k, None) EXCEPT !.filters = <<"f1", "f2">>, !.slim = slim] : k \in {"read", "changes"}, slim \in BOOLEAN}
  \cup {[Asking("read", None) EXCEPT !.ids = <<1, 2, 3, 4>>, !.limit = l] : l \in {1, 5}}
  \cup {[Asking("search", None) EXCEPT !.types = <<"t1", "t2", "t3">>]}
WorkerQueries ==
  {Asking(k, None) : k \in {"status", "compatibility", "gated", "rest", "list", "cache get", "cache clear"}}
  \cup {[Asking("cache get", None) EXCEPT !.raise_missing = TRUE]}
MCQueries == <<BranchQueries \cup ReadQueries \cup {Asking("gated", None), Asking("cache get", None)},
               {Asking("write", "there"), Asking("write", "made"), Asking("delete branch", "made")} \cup WorkerQueries>>

(* Two workers of one pattern and one with a pattern of its own, and items *)
(* that are files or stand in the inventory; one that depends on another,  *)
(* a file that is missing, and services of each kind of plugin.            *)
Val(x) == [is |-> "value", of |-> x]
ListOf(l) == [is |-> "list", of |-> l]
DictOf(f) == [is |-> "dict", of |-> f]
Pattern(for, items) == [workers |-> for, items |-> items]
MCItems ==
  [common |-> ("service" :> Val("s1")) @@ ("hosts" :> DictOf("h1" :> 1)) @@ ("tags" :> ListOf(<<1>>)),
   one |-> ("hosts" :> DictOf(("h1" :> 2) @@ ("h2" :> 2))) @@ ("tags" :> ListOf(<<2, 1>>)),
   two |-> ("hosts" :> Val("none")) @@ ("more" :> DictOf("h3" :> 3)),
   again |-> ("more" :> DictOf("h3" :> 4)) @@ ("service" :> Val("s2"))]
MCPatterns(second) ==
  <<Pattern({w1, w2}, <<"common">>), Pattern({w1}, <<"one">>), Pattern({w2}, second)>>
SetupOf(here, second, needs, offered, packaged) ==
  [patterns |-> MCPatterns(second), inline |-> Restrict(MCItems, here), files |-> Restrict(MCItems, DOMAIN MCItems \ here),
   depends_on |-> needs, plugins |-> offered, packaged |-> packaged]
Beside == [w \in {w1, w2, "w3"} |-> IF w = w1 THEN {w2} ELSE {}]
MCSetups ==
  {SetupOf(here, second, [w \in {w1, w2} |-> {}], [s2 |-> "works"], {"s1"}) :
     here \in SUBSET {"common", "one", "two"}, second \in {<<"two">>, <<"common", "two", "again">>, <<"two", "one">>}}
  \cup {SetupOf({"common"}, second, Beside, offered, {}) :
          second \in {<<"two">>, <<"gone", "two">>}, offered \in {<<>>, [s1 |-> "works"], [s1 |-> "broken"], [s1 |-> "shell only"]}}
=============================================================================
