--------------------------- MODULE MCNornirWorker ---------------------------
(***************************************************************************)
(* Three hosts, each of which is of one source of the inventory.           *)
(***************************************************************************)
EXTENDS NornirWorker

CONSTANTS a, b, c

Call(call, hs) == [task |-> call, hosts |-> hs, calls |-> <<call>>, dry |-> FALSE, replace |-> FALSE]
Several(task, hs, cs) == [Call(task, hs) EXCEPT !.calls = cs]
Inventory(task, hs) == [Call(task, hs) EXCEPT !.calls = <<>>]
Both == {a, b}

(* Jobs that want the same hosts or not, next to jobs that close or        *)
(* replace what they use, and two changes of the inventory.                *)
Pairs ==
  {<<Call("cfg", {a}), Call("cfg", {a})>>, <<Call("cfg", Both), Call("cli", {b})>>,
   <<Call("cli", {a}), Call("snmp", {b})>>, <<Several("test", Both, <<"cli", "cfg">>), Call("task", {a})>>,
   <<Several("parse_ttp", {a}, <<"cli", "cli">>), Call("file_copy", {b})>>,
   <<Several("parse_textfsm", {a}, <<"cli">>), [Call("cfg", {b}) EXCEPT !.dry = TRUE]>>,
   <<Call("cli", Both), Inventory("refresh", {})>>, <<Call("file_copy", {a}), Inventory("load lab", {})>>,
   <<Call("snmp", {a}), Inventory("delete", {a})>>, <<Call("cli", {a}), Inventory("create", {a})>>,
   <<Call("cfg", {a}), [Inventory("from netbox", {a}) EXCEPT !.replace = TRUE]>>,
   <<Inventory("from netbox", {b}), Inventory("refresh", {})>>,
   <<[Inventory("from netbox", {a}) EXCEPT !.dry = TRUE], Inventory("load lab", {})>>,
   <<Inventory("refresh", {}), Inventory("refresh", {})>>}
TwoJobs == {[j1 |-> p[1], j2 |-> p[2]] : p \in Pairs}
=============================================================================
