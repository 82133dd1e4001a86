--------------------------- MODULE NetboxQueries ---------------------------
(***************************************************************************)
(* How the tasks of the Netbox worker get to NetBox and read from it       *)
(* (netbox_worker.py, netbox_crud.py, branch_tasks.py): the worker learns  *)
(* the version at its start, a task that names a branch makes it if it is  *)
(* not there and waits for it, and the crud reads send one request per     *)
(* chunk, filter or type and merge what they get.  Jobs run at once, and   *)
(* others change NetBox at any time.                                       *)
(***************************************************************************)
EXTENDS Naturals, Sequences, FiniteSets, SequencesExt, FiniteSetsExt, Functions

CONSTANTS
  QueryJobs,
  Queries,      \* what each job may be asked, see Ask
  NetBoxes,     \* the states NetBox may be in at first
  ChunkSize,    \* ids that fit into one URI
  None,
  MaxWaits,     \* of branch_create_timeout, in looks
  MaxFaults,    \* bound: requests that fail
  MaxEdits      \* bound: changes by other users of NetBox

VARIABLES
  nbx,          \* objects, by id; branches, by name; version; the types its API has; plugin
  worker,       \* whether it is up, the version and the types that it knows
  job,          \* of each job: its query, where it is, and its answer
  edits, faults

vars == <<nbx, worker, job, edits, faults>>

Fault == faults < MaxFaults /\ faults' = faults + 1
Set(j, change) == job' = [job EXCEPT ![j] = change]
At(j, step) == job[j].step = step
Is(j, kind) == job[j].query # None /\ job[j].query.kind = kind
Go(j, step) == [job[j] EXCEPT !.step = step]
Quiet == UNCHANGED <<nbx, worker, edits>>

Idle == [query |-> None, step |-> "idle", left |-> <<>>, answer |-> <<>>, branch |-> 0, waits |-> 0,
         before |-> None, wrote |-> 0]
Init ==
  /\ nbx \in NetBoxes
  /\ worker = [state |-> "starts", version |-> "unknown", types |-> None]
  /\ job = [j \in QueryJobs |-> Idle]
  /\ edits = 0 /\ faults = 0

-----------------------------------------------------------------------------
(* The worker does not start when a NetBox tells it is too old; one that   *)
(* cannot be reached will do, and its version stays unknown.               *)
Learned(version) == [worker EXCEPT !.version = version]
VerifyCompatibility ==
  /\ worker.state = "starts"
  /\ \/ /\ worker' = [Learned(nbx.version) EXCEPT !.state = IF nbx.version = "old" THEN "failed" ELSE "up"]
        /\ UNCHANGED faults
     \/ Fault /\ worker' = [worker EXCEPT !.state = "up"]
  /\ UNCHANGED <<nbx, job, edits>>

(* A job starts; a crud read of ids comes in chunks, each as long as fits, *)
(* of filters one by one.                                                  *)
FitsUri(ids) == Len(ids) <= ChunkSize
Chunks(ids) ==
  FoldLeft(LAMBDA chunks, i :
             IF chunks # <<>> /\ FitsUri(Append(Last(chunks), i)) THEN Append(Front(chunks), Append(Last(chunks), i))
             ELSE Append(chunks, <<i>>),
           <<>>, ids)
CallsOf(q) ==
  IF q.kind = "read" /\ q.ids # <<>> THEN Chunks(q.ids) ELSE IF q.kind = "search" THEN q.types ELSE q.filters
Ask(j, q) ==
  /\ worker.state = "up" /\ At(j, "idle")
  /\ Set(j, [Idle EXCEPT !.query = q, !.left = CallsOf(q), !.before = nbx.objects,
                         !.step = IF q.kind = "write" /\ q.branch # None THEN "plugin" ELSE "run"])
  /\ Quiet /\ UNCHANGED faults

(* A request that fails raises, in all tasks but those that ask for the    *)
(* status, search, or read the changes.                                    *)
Raises(j) ==
  /\ \/ job[j].step \in {"plugin", "look", "create", "wait", "delete"}
     \/ At(j, "run") /\ job[j].query.kind \in {"read", "write", "list", "rest", "delete branch"}
  /\ Is(j, "list") => worker.types = None
  /\ Fault /\ Set(j, Go(j, "failed")) /\ Quiet

-----------------------------------------------------------------------------
(***************************************************************************)
(* _get_pynetbox with a branch: is the plugin there, is the branch, has it *)
(* been merged, is it ready; a branch that is new is looked at until it is.*)
(***************************************************************************)
HasPlugin(j) ==
  /\ At(j, "plugin")
  /\ Set(j, Go(j, IF nbx.plugin THEN "look" ELSE "failed")) /\ Quiet /\ UNCHANGED faults
Branch(j) == job[j].query.branch
Exists(j) == Branch(j) \in DOMAIN nbx.branches
Status(j) == nbx.branches[Branch(j)].status
Taken(j, step) == [Go(j, step) EXCEPT !.branch = nbx.branches[Branch(j)].id]
LookForBranch(j) ==
  /\ At(j, "look")
  /\ Set(j, IF ~Exists(j) THEN Go(j, "create")
            ELSE Taken(j, CASE Status(j) = "merged" -> "failed" [] Status(j) = "ready" -> "run" [] OTHER -> "wait"))
  /\ Quiet /\ UNCHANGED faults

(* NetBox has no two branches of a name.  A request whose answer is lost   *)
(* is sent again, and the second finds the branch there, or deleted.       *)
NewId == nbx.last + 1
CreateBranch(j) ==
  /\ At(j, "create")
  /\ \/ Exists(j) /\ Set(j, Go(j, "failed")) /\ UNCHANGED <<nbx, faults>>
     \/ /\ ~Exists(j)
        /\ nbx' = [nbx EXCEPT !.branches = (Branch(j) :> [id |-> NewId, status |-> "new"]) @@ @, !.last = NewId]
        /\ \/ Set(j, [Go(j, "wait") EXCEPT !.branch = NewId]) /\ UNCHANGED faults
           \/ Fault /\ Set(j, Go(j, "failed"))
  /\ UNCHANGED <<worker, edits>>
WaitsOn(j) ==
  [Taken(j, IF job[j].waits + 1 = MaxWaits THEN "failed" ELSE "wait") EXCEPT !.waits = @ + 1]
WaitForBranch(j) ==
  /\ At(j, "wait")
  /\ Set(j, IF ~Exists(j) THEN Go(j, "failed") ELSE IF Status(j) = "ready" THEN Taken(j, "run") ELSE WaitsOn(j))
  /\ Quiet /\ UNCHANGED faults

(* What the task then does, in its branch or, without one, in the main     *)
(* data; NetBox refuses a branch that is gone or merged.                   *)
IsOpen(id) == \E b \in Range(nbx.branches) : b.id = id /\ b.status = "ready"
Write(j) ==
  /\ Is(j, "write") /\ At(j, "run")
  /\ Set(j, IF Branch(j) = None \/ IsOpen(job[j].branch) THEN [Go(j, "done") EXCEPT !.wrote = job[j].branch]
            ELSE Go(j, "failed"))
  /\ Quiet /\ UNCHANGED faults

(* delete_branch looks for it and deletes it.                              *)
LookToDelete(j) ==
  /\ Is(j, "delete branch") /\ At(j, "run")
  /\ Set(j, IF Exists(j) THEN Taken(j, "delete") ELSE Go(j, "done"))
  /\ Quiet /\ UNCHANGED faults
IsThere(j) == Exists(j) /\ nbx.branches[Branch(j)].id = job[j].branch
Delete(j) ==
  /\ At(j, "delete")
  /\ \/ ~IsThere(j) /\ Set(j, Go(j, "failed")) /\ UNCHANGED <<nbx, faults>>
     \/ /\ IsThere(j)
        /\ nbx' = [nbx EXCEPT !.branches = [b \in DOMAIN @ \ {Branch(j)} |-> @[b]]]
        /\ \/ Set(j, [Go(j, "done") EXCEPT !.answer = <<TRUE>>]) /\ UNCHANGED faults
           \/ Fault /\ Set(j, Go(j, "failed"))
  /\ UNCHANGED <<worker, edits>>

-----------------------------------------------------------------------------
(* get_netbox_status, and get_compatibility, which learns the version; a   *)
(* NetBox that cannot be reached is told as such.                          *)
GetStatus(j) ==
  /\ Is(j, "status") /\ At(j, "run")
  /\ \/ Set(j, [Go(j, "done") EXCEPT !.answer = <<TRUE>>]) /\ UNCHANGED faults
     \/ Fault /\ Set(j, [Go(j, "done") EXCEPT !.answer = <<FALSE>>])
  /\ Quiet
GetCompatibility(j) ==
  /\ Is(j, "compatibility") /\ At(j, "run")
  /\ \/ /\ worker' = Learned(nbx.version) /\ UNCHANGED faults
        /\ Set(j, [Go(j, "done") EXCEPT !.answer = <<nbx.version = "new">>])
     \/ Fault /\ Set(j, [Go(j, "done") EXCEPT !.answer = <<None>>]) /\ UNCHANGED worker
  /\ UNCHANGED <<nbx, edits>>

(* get_connections, get_topology, get_circuits and netbox_graphql look at  *)
(* the version that the worker knows, and raise when it knows none.        *)
Gated(j) ==
  /\ Is(j, "gated") /\ At(j, "run")
  /\ Set(j, Go(j, IF worker.version = "new" THEN "done" ELSE "failed")) /\ Quiet /\ UNCHANGED faults

(* rest tells the status code when NetBox refuses.                         *)
Rest(j) ==
  /\ Is(j, "rest") /\ At(j, "run")
  /\ \E accepted \in BOOLEAN : Set(j, [Go(j, "done") EXCEPT !.answer = <<accepted>>])
  /\ Quiet /\ UNCHANGED faults

-----------------------------------------------------------------------------
(* crud_list_objects asks once for the types and keeps them a day;         *)
(* cache_get tells what is kept, cache_clear forgets it.                   *)
Only(types, apps) == IF apps = <<>> THEN types ELSE types \cap ToSet(apps)
ListObjects(j) ==
  /\ Is(j, "list") /\ At(j, "run")
  /\ LET types == IF worker.types # None THEN worker.types ELSE nbx.types
     IN  /\ worker' = [worker EXCEPT !.types = types]
         /\ Set(j, [Go(j, "done") EXCEPT !.answer = SetToSeq(Only(types, job[j].query.types))])
  /\ UNCHANGED <<nbx, edits, faults>>
CacheGet(j) ==
  /\ Is(j, "cache get") /\ At(j, "run")
  /\ Set(j, IF worker.types # None THEN [Go(j, "done") EXCEPT !.answer = SetToSeq(worker.types)]
            ELSE Go(j, IF job[j].query.raise_missing THEN "failed" ELSE "done"))
  /\ Quiet /\ UNCHANGED faults
Forgets == worker' = [worker EXCEPT !.types = None] /\ UNCHANGED <<nbx, edits, faults>>
CacheClear(j) ==
  /\ Is(j, "cache clear") /\ At(j, "run")
  /\ Set(j, [Go(j, "done") EXCEPT !.answer = <<worker.types # None>>]) /\ Forgets
CacheExpires == worker.types # None /\ Forgets /\ UNCHANGED job

-----------------------------------------------------------------------------
(* A page of NetBox: the first objects of a type that fit, in their order. *)
Fitting(type, f) == {i \in DOMAIN nbx.objects : nbx.objects[i].type = type /\ f \in nbx.objects[i].fits}
Page(ids, limit) == LET all == SetToSortSeq(ids, <) IN SubSeq(all, 1, IF Len(all) < limit THEN Len(all) ELSE limit)

(* What is merged is told by its id.  crud_read adds the id to the fields  *)
(* asked for, crud_get_changelogs does not, and then all have the same:    *)
(* none.                                                                   *)
Merges(answer, page, named) ==
  IF named THEN answer \o SelectSeq(page, LAMBDA i : i \notin ToSet(answer))
  ELSE IF answer = <<>> THEN SelectSeq(page, LAMBDA i : i = Head(page)) ELSE answer
Answered(j, page) ==
  LET q == job[j].query
      one == Len(CallsOf(q)) = 1 \/ q.ids # <<>>
      named == q.kind # "changes" \/ ~q.slim
  IN  [job[j] EXCEPT !.left = Tail(@), !.answer = IF one THEN @ \o page ELSE Merges(@, page, named),
                     !.step = IF Len(job[j].left) = 1 THEN "done" ELSE "run"]

ReadById(j) ==
  /\ Is(j, "read") /\ At(j, "run") /\ job[j].query.ids # <<>>
  /\ LET q == job[j].query
     IN  Set(j, Answered(j, Page({i \in ToSet(Head(job[j].left)) \cap DOMAIN nbx.objects : nbx.objects[i].type = q.type}, q.limit)))
  /\ Quiet /\ UNCHANGED faults
ReadByFilter(j) ==
  /\ Is(j, "read") /\ At(j, "run") /\ job[j].query.ids = <<>>
  /\ Set(j, Answered(j, Page(Fitting(job[j].query.type, Head(job[j].left)), job[j].query.limit)))
  /\ Quiet /\ UNCHANGED faults

(* The changes are under core since version 4; what fails there is asked   *)
(* for under extras.                                                       *)
GetChangelogs(j) ==
  /\ Is(j, "changes") /\ At(j, "run")
  /\ \/ Set(j, Answered(j, Page(Fitting(job[j].query.type, Head(job[j].left)), job[j].query.limit))) /\ UNCHANGED faults
     \/ Fault /\ Set(j, Go(j, "failed"))
  /\ Quiet
(* A type that cannot be searched has no matches.                          *)
Search(j) ==
  /\ Is(j, "search") /\ At(j, "run")
  /\ LET type == Head(job[j].left)
         found == IF type \in nbx.types THEN Page(Fitting(type, job[j].query.filters[1]), job[j].query.limit) ELSE <<>>
     IN  \/ Set(j, Answered(j, found)) /\ UNCHANGED faults
         \/ Fault /\ Set(j, Answered(j, <<>>))
  /\ Quiet

-----------------------------------------------------------------------------
(* NetBox makes a branch ready, or fails to; others merge and delete       *)
(* branches, write and delete objects and upgrade NetBox.                  *)
With(b, status) == [nbx EXCEPT !.branches[b].status = status]
BranchReady(b) ==
  /\ nbx.branches[b].status = "new"
  /\ \/ nbx' = With(b, "ready") /\ UNCHANGED faults
     \/ Fault /\ nbx' = With(b, "failed")
  /\ UNCHANGED <<worker, job, edits>>
Edit(change) ==
  /\ edits < MaxEdits /\ edits' = edits + 1
  /\ nbx' = change /\ UNCHANGED <<worker, job, faults>>
Others ==
  \/ \E b \in DOMAIN nbx.branches :
       \/ nbx.branches[b].status = "ready" /\ Edit(With(b, "merged"))
       \/ Edit([nbx EXCEPT !.branches = [x \in DOMAIN @ \ {b} |-> @[x]]])
  \/ \E i \in DOMAIN nbx.objects : Edit([nbx EXCEPT !.objects = [x \in DOMAIN @ \ {i} |-> @[x]]])
  \/ Edit([nbx EXCEPT !.objects = (Max(DOMAIN @ \cup {0}) + 1 :> [type |-> "t1", fits |-> {"f1"}]) @@ @])
  \/ nbx.version = "old" /\ Edit([nbx EXCEPT !.version = "new"])

Query(j) ==
  \/ Raises(j) \/ HasPlugin(j) \/ LookForBranch(j) \/ CreateBranch(j) \/ WaitForBranch(j) \/ Write(j)
  \/ LookToDelete(j) \/ Delete(j) \/ GetStatus(j) \/ GetCompatibility(j) \/ Gated(j) \/ Rest(j)
  \/ ListObjects(j) \/ CacheGet(j) \/ CacheClear(j)
  \/ ReadById(j) \/ ReadByFilter(j) \/ GetChangelogs(j) \/ Search(j)
Ended(j) == job[j].step \in {"done", "failed"}
Done ==
  /\ worker.state = "failed" \/ \A j \in QueryJobs : Ended(j)
  /\ UNCHANGED vars
Next ==
  \/ VerifyCompatibility \/ CacheExpires \/ Others \/ Done
  \/ \E b \in DOMAIN nbx.branches : BranchReady(b)
  \/ \E j \in QueryJobs : Query(j) \/ \E q \in Queries[j] : Ask(j, q)

Spec == Init /\ [][Next]_vars

-----------------------------------------------------------------------------
(* What fits a filter of a query before and after a change by others.      *)
FitsAll(j, i) ==
  LET q == job[j].query
      Fits(objects) ==
        /\ i \in DOMAIN objects /\ objects[i].type = q.type
        /\ IF q.ids # <<>> THEN i \in ToSet(q.ids) ELSE objects[i].fits \cap ToSet(q.filters) # {}
  IN  Fits(job[j].before) /\ Fits(nbx.objects)
Known(j) == DOMAIN job[j].before \cup DOMAIN nbx.objects

(* crud_read and crud_get_changelogs return each object once, however many *)
(* filters it fits, and all those that fit while the job runs, as long as  *)
(* a page holds what one request finds; the changes of several filters     *)
(* with only some fields apart.  Nothing is invented, in a search as well. *)
ReadsAreWhole ==
  \A j \in QueryJobs : At(j, "done") /\ job[j].query.kind \in {"read", "changes", "search"} =>
    LET q == job[j].query
        found == job[j].answer
    IN  /\ ToSet(found) \subseteq Known(j)
        /\ q.kind # "search" => Cardinality(ToSet(found)) = Len(found)
        /\ q.kind # "search" /\ (q.slim => q.kind = "read") /\ q.limit >= Cardinality(Known(j)) =>
             \A i \in Known(j) : FitsAll(j, i) => i \in ToSet(found)

(* A task that names a branch writes nothing outside of it: where it wrote *)
(* there was a branch of that name at some time; all tasks that name it    *)
(* wrote to the same one unless it was deleted in between.                 *)
DeletesBranches == \E j \in QueryJobs : Is(j, "delete branch")
BranchesAreKept ==
  \A j, k \in QueryJobs :
    At(j, "done") /\ At(k, "done") /\ Is(j, "write") /\ Is(k, "write") =>
      /\ Branch(j) # None => job[j].wrote # 0
      /\ Branch(j) = Branch(k) /\ edits = 0 /\ ~DeletesBranches => job[j].wrote = job[k].wrote
      /\ Branch(j) # Branch(k) => job[j].wrote # job[k].wrote
(* A task whose branch can be made or is open, and that nobody disturbs,   *)
(* fails at most because the branch takes too long.                        *)
BranchesAreMade ==
  faults = 0 /\ edits = 0 =>
    \A j \in QueryJobs :
      /\ At(j, "failed") /\ Is(j, "write") /\ nbx.plugin /\ job[j].waits < MaxWaits
      /\ \A k \in QueryJobs \ {j} : ~Is(k, "write") /\ ~Is(k, "delete branch")
      => Exists(j) /\ Status(j) = "merged"
=============================================================================
