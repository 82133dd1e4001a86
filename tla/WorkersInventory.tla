-------------------------- MODULE WorkersInventory --------------------------
(***************************************************************************)
(* The inventory of NorFab's workers (core/inventory.py): the items of all *)
(* patterns that match a worker's name, merged one into the other, for the *)
(* main process before it starts the worker (core/nfapi.py) and for the    *)
(* broker, which the worker asks (core/worker.py).  Each process has a     *)
(* copy of its own: the broker's as it is when the broker starts, a        *)
(* worker's as it is when the main process starts the worker.  What is     *)
(* merged first is not copied: items that stand in the inventory itself    *)
(* share their lists and dictionaries with the answers, and later items    *)
(* are merged into them.  Data is two levels deep: keys with a value, a    *)
(* list or a dictionary of values.                                         *)
(***************************************************************************)
EXTENDS Naturals, FiniteSets, SequencesExt, Functions, TLC

CONSTANTS
  Setups,      \* patterns, items, files, plugins and what depends on what
  None,
  MaxLoads,    \* bound: times a worker asks the broker
  MaxFaults    \* bound: replies of the broker that are lost

VARIABLES
  setup,
  inline,      \* for each process the items that stand in its inventory
  phase,       \* of each worker
  loaded,      \* what a worker got from the broker last
  loads,       \* how often it asked
  faults

vars == <<setup, inline, phase, loaded, loads, faults>>
Workers == DOMAIN setup.depends_on
Copies == {"nfapi", "broker"} \cup Workers

Init ==
  /\ setup \in Setups
  /\ inline = [c \in Copies |-> setup.inline]
  /\ phase = [w \in Workers |-> "new"]
  /\ loaded = [w \in Workers |-> None]
  /\ loads = [w \in Workers |-> 0]
  /\ faults = 0

-----------------------------------------------------------------------------
Merged(a, b) ==
  CASE a.is = "list" /\ b.is = "list" ->
         [a EXCEPT !.of = FoldLeft(LAMBDA l, x : IF x \in ToSet(l) THEN l ELSE Append(l, x), @, b.of)]
    [] a.is = "dict" /\ b.is = "dict" -> [a EXCEPT !.of = b.of @@ @]
    [] OTHER -> b
InPlace(a, b) == a.is = b.is /\ a.is # "value"

(* m.data is merged so far, m.of tells the item that each key's container  *)
(* belongs to, and m.items are the items of the inventory.                 *)
Content(items, i) == IF i \in DOMAIN items THEN items[i] ELSE setup.files[i]
merge_recursively(m, i) ==
  LET content == Content(m.items, i)
      grows == {k \in DOMAIN content \cap DOMAIN m.data : InPlace(m.data[k], content[k])}
      new == [k \in DOMAIN content |->
                IF k \in DOMAIN m.data THEN Merged(m.data[k], content[k]) ELSE content[k]]
  IN  [data |-> new @@ m.data,
       of |-> [k \in DOMAIN content \ grows |-> i] @@ m.of,
       items |-> [j \in DOMAIN m.items |-> [k \in {g \in grows : m.of[g] = j} |-> new[k]] @@ m.items[j]]]

(* The items of a name, each content once; a file that is missing ends it. *)
Same(a, b) == DOMAIN a = DOMAIN b /\ \A k \in DOMAIN a : a[k].is = b[k].is /\ a[k].of = b[k].of
Known(i) == i \in DOMAIN setup.inline \cup DOMAIN setup.files
Equal(items, i, j) == i = j \/ ({i, j} \subseteq DOMAIN items /\ Same(items[i], items[j]))
Paths(items, name) ==
  LET matching == SelectSeq(setup.patterns, LAMBDA p : name \in p.workers)
      all == FlattenSeq([n \in DOMAIN matching |-> matching[n].items])
  IN  FoldLeft(LAMBDA ps, i : IF \E p \in ToSet(ps) : Equal(items, p, i) THEN ps ELSE Append(ps, i), <<>>, all)
Loadable(paths) ==
  LET gone == {n \in DOMAIN paths : ~Known(paths[n])}
  IN  IF gone = {} THEN paths ELSE SubSeq(paths, 1, (CHOOSE n \in gone : \A m \in gone : n <= m) - 1)
Answer(items, name) ==
  LET paths == Paths(items, name)
      m == FoldLeft(merge_recursively, [data |-> <<>>, of |-> <<>>, items |-> items], Loadable(paths))
  IN  [data |-> IF Loadable(paths) # paths \/ m.data = <<>> THEN None ELSE m.data,
       missing |-> Loadable(paths) # paths, items |-> m.items]

-----------------------------------------------------------------------------
(* The plugin of a service: an entry point of a package, or the name of a  *)
(* class in the inventory if no package offers one.                        *)
Registered(service) ==
  IF service \in setup.packaged THEN "entry point"
  ELSE IF service \in DOMAIN setup.plugins /\ setup.plugins[service] # "shell only" THEN "name" ELSE None
(* A class that cannot be imported stays the name it was.                  *)
make_plugin(service) == IF setup.plugins[service] = "works" THEN "class" ELSE "name"

(* The main process reads the inventory in each round, also of a worker    *)
(* that has to wait for those it depends on.                               *)
Ready(w) == \A d \in setup.depends_on[w] : d \in Workers /\ phase[d] = "ready"
Dead(w) == \E d \in setup.depends_on[w] : d \in Workers /\ phase[d] = "died"
Service(data) == IF "service" \in DOMAIN data THEN data["service"].of ELSE None
StartWorker(w) ==
  /\ phase[w] = "new"
  /\ LET answer == Answer(inline["nfapi"], w)
         refused == answer.data = None \/ Dead(w) \/ (Ready(w) /\ Registered(Service(answer.data)) = None)
         starts == ~refused /\ Ready(w)
     IN  /\ inline' = [c \in Copies |-> IF c = "nfapi" \/ (c = w /\ starts) THEN answer.items ELSE inline[c]]
         /\ phase' = [phase EXCEPT ![w] = IF refused THEN "refused" ELSE IF starts THEN "starting" ELSE @]
  /\ UNCHANGED <<setup, loaded, loads, faults>>
(* The process of a worker loads the plugin and calls it, which fails for  *)
(* what is still a name; the service is read again when it has to import.  *)
StartProcess(w) ==
  /\ phase[w] = "starting"
  /\ LET answer == Answer(inline[w], w)
         service == Service(answer.data)
         imports == Registered(service) = "name"
     IN  /\ phase' = [phase EXCEPT ![w] = IF imports /\ make_plugin(service) = "name" THEN "died" ELSE "loading"]
         /\ inline' = [inline EXCEPT ![w] = IF imports THEN answer.items ELSE @]
  /\ UNCHANGED <<setup, loaded, loads, faults>>

inventory_service(name) == Answer(inline["broker"], name)
(* load_inventory, at the start and when a worker is refreshed.  No answer *)
(* in time is an empty inventory, and so is none: a file that is missing   *)
(* is an exception in the broker, which then does not reply.               *)
LoadInventory(w) ==
  /\ phase[w] \in {"loading", "ready"} /\ loads[w] < MaxLoads
  /\ loads' = [loads EXCEPT ![w] = @ + 1]
  /\ phase' = [phase EXCEPT ![w] = "ready"]
  /\ LET answer == inventory_service(w)
     IN  /\ inline' = [inline EXCEPT !["broker"] = answer.items]
         /\ \/ /\ loaded' = [loaded EXCEPT ![w] = IF answer.data = None THEN <<>> ELSE answer.data]
               /\ UNCHANGED faults
            \/ /\ faults < MaxFaults /\ faults' = faults + 1
               /\ loaded' = [loaded EXCEPT ![w] = <<>>]
  /\ UNCHANGED setup

Done == (\A w \in Workers : phase[w] \in {"refused", "died"} \/ loads[w] = MaxLoads) /\ UNCHANGED vars
Next == (\E w \in Workers : StartWorker(w) \/ StartProcess(w) \/ LoadInventory(w)) \/ Done
Spec == Init /\ [][Next]_vars

-----------------------------------------------------------------------------
(* What the items of a worker come to when none of them is changed.        *)
Combined(w) ==
  FoldLeft(LAMBDA data, i : LET c == Content(setup.inline, i) IN
             [k \in DOMAIN c |-> IF k \in DOMAIN data THEN Merged(data[k], c[k]) ELSE c[k]] @@ data,
           <<>>, Loadable(Paths(setup.inline, w)))
Before(paths, i, j) == \E m, n \in DOMAIN paths : m < n /\ paths[m] = i /\ paths[n] = j
Follows(w, i, k) ==
  {j \in ToSet(Paths(setup.inline, w)) :
     /\ Known(j) /\ Before(Paths(setup.inline, w), i, j)
     /\ k \in DOMAIN Content(setup.inline, j) /\ InPlace(setup.inline[i][k], Content(setup.inline, j)[k])}
Unshared(w) ==
  \A i \in ToSet(Paths(setup.inline, w)) \cap DOMAIN setup.inline : \A k \in DOMAIN setup.inline[i] :
    \A v \in Workers : Follows(v, i, k) \subseteq Follows(w, i, k)
Below(a, b) ==
  CASE a.is = "list" /\ b.is = "list" -> ToSet(a.of) \subseteq ToSet(b.of)
    [] a.is = "dict" /\ b.is = "dict" -> DOMAIN a.of \subseteq DOMAIN b.of
    [] OTHER -> a.is = b.is /\ a.of = b.of
(* A worker gets what its items come to, in the order of the patterns, and *)
(* nothing of it is lost when others ask first; it gets nothing else as    *)
(* long as no other worker's items are merged into an item of its own that *)
(* stands in the inventory.  A worker that starts has data, and is not     *)
(* refused it when no reply is lost.                                       *)
WorkersGetTheirData ==
  /\ faults = 0 => \A w \in Workers : loaded[w] # <<>>
  /\ \A w \in {v \in Workers : loaded[v] \notin {None, <<>>}} :
       /\ DOMAIN loaded[w] = DOMAIN Combined(w)
       /\ \A k \in DOMAIN loaded[w] : Below(Combined(w)[k], loaded[w][k])
       /\ Unshared(w) => Same(loaded[w], Combined(w))
=============================================================================
