--------------------------- MODULE NetboxObjects ---------------------------
(***************************************************************************)
(* The tasks that write objects of any type as they are given:             *)
(* create_design (workers/netbox_worker/design_tasks.py), crud_create,     *)
(* crud_update and crud_delete (netbox_crud.py).  An object has a type, a  *)
(* name or slug - not all have - and may belong to another; the table is   *)
(* a function of ids.  None of the requests is guarded.                    *)
(***************************************************************************)
EXTENDS NetboxSync

Objects == Range(netbox.objects)
WithObjects(table, objects) ==
  LET new == SetToSeq(objects)
      last == IF DOMAIN table = {} THEN 0 ELSE Max(DOMAIN table)
  IN  table @@ [id \in last + 1..last + Len(new) |-> new[id - last]]

(* NetBox takes what belongs to an object that is there, and once.         *)
SameObject(a, b) == a.type = b.type /\ a.name = b.name /\ a.of = b.of
Creatable(objects) ==
  \A o \in objects :
    /\ o.of # None => \E p \in Objects : p.name = o.of
    /\ o.name # None => \A p \in Objects : ~SameObject(o, p)
Removable(id) == \A o \in Objects : o.of = None \/ o.of # netbox.objects[id].name

(* A step that asks nothing of NetBox.                                     *)
Quietly == UNCHANGED <<netbox, report, written, outcome, faults>>

-----------------------------------------------------------------------------
(* create_design goes through the types in order and creates what it does  *)
(* not find, by name alone: an object with the name of one that belongs to *)
(* another device, and one without a name where there is any of its type,  *)
(* are taken to exist.  A dry run makes no difference, and types that are  *)
(* not in the order are left out.                                          *)
Finds(object) ==
  \E o \in Objects : o.type = object.type /\ (object.name = None \/ o.name = object.name)
OfType(type) == {o \in options.design : o.type = type}
Missing(type) == {o \in OfType(type) : ~Finds(o)}
Waiting == SelectSeq(options.create_order, LAMBDA type : type \in todo)
StartDesign ==
  /\ At("design", "start")
  /\ todo' = {t \in Range(options.create_order) : OfType(t) # {}}
  /\ step' = "check"
  /\ UNCHANGED <<netbox, arguments, task, seen, plan, report, errors, outcome, written, planned, faults, edits>>
CheckObjects ==
  /\ At("design", "check") /\ Waiting # <<>>
  /\ Plan([NoPlan EXCEPT !.create = Missing(Head(Waiting))], "push")
  /\ UNCHANGED <<seen, errors, faults>>
PushObjects ==
  /\ At("design", "push")
  /\ IF plan.create = {} THEN Quietly
     ELSE BareRequest(Entry("create", plan.create), Creatable(plan.create),
                      [netbox EXCEPT !.objects = WithObjects(@, plan.create)])
  /\ todo' = todo \ {Head(Waiting)} /\ step' = "check"
  /\ UNCHANGED <<arguments, task, seen, plan, errors, planned, edits>>
EndDesign == At("design", "check") /\ NextStep({}, "returned")
CreateDesign ==
  \/ StartDesign \/ CheckObjects \/ PushObjects \/ EndDesign
  \/ task = "design" /\ ReadFails({"start", "check"})

-----------------------------------------------------------------------------
(* crud_create is one request; crud_update and crud_delete go through the  *)
(* ids one by one, and pass over what is not there.                        *)
CrudCreate ==
  /\ At("crud create", "start")
  /\ IF options.dry_run THEN Quietly
     ELSE BareRequest(Entry("create", options.data), Creatable(options.data),
                      [netbox EXCEPT !.objects = WithObjects(@, options.data)])
  /\ planned' = planned \cup Entry("create", options.data)
  /\ step' = "returned"
  /\ UNCHANGED <<arguments, task, seen, plan, todo, errors, edits>>

(* What is as asked is reported as updated and no request is sent.         *)
IsAsked(id) == netbox.objects[id].data = options.new
CrudAt(s) == At("crud update", s) \/ At("crud delete", s)
StartCrud ==
  /\ CrudAt("start")
  /\ todo' = IF options.dry_run THEN {} ELSE options.ids
  /\ step' = "one by one"
  /\ UNCHANGED <<netbox, arguments, task, seen, plan, report, errors, outcome, written, planned, faults, edits>>
CrudUpdate ==
  /\ At("crud update", "one by one")
  /\ \E id \in todo :
       /\ CASE id \notin DOMAIN netbox.objects -> Quietly
            [] id \in DOMAIN netbox.objects /\ IsAsked(id) ->
                 report' = report \cup Entry("update", {id}) /\ UNCHANGED <<netbox, written, outcome, faults>>
            [] OTHER -> BareRequest(Entry("update", {id}), TRUE, [netbox EXCEPT !.objects[id].data = options.new])
       /\ todo' = todo \ {id}
       /\ planned' = planned \cup Entry("update", {id})
  /\ UNCHANGED <<arguments, task, step, seen, plan, errors, edits>>
CrudDelete ==
  /\ At("crud delete", "one by one")
  /\ \E id \in todo :
       /\ IF id \notin DOMAIN netbox.objects THEN Quietly
          ELSE BareRequest(Entry("delete", {id}), Removable(id), [netbox EXCEPT !.objects = Without(@, {id})])
       /\ todo' = todo \ {id}
       /\ planned' = planned \cup Entry("delete", {id})
  /\ UNCHANGED <<arguments, task, step, seen, plan, errors, edits>>
EndCrud == CrudAt("one by one") /\ NextStep({}, "returned")
Crud ==
  \/ CrudCreate \/ StartCrud \/ CrudUpdate \/ CrudDelete \/ EndCrud
  \/ (CrudAt("start") \/ CrudAt("one by one")) /\ ReadFails({"start", "one by one"})
=============================================================================
