------------------------- MODULE NornirWorker_proofs -------------------------
(***************************************************************************)
(* JobsAreExact and NoCloseInUse of a Nornir worker, for any hosts, jobs   *)
(* and failures.  ExactInv says of a job that no other was in the way of   *)
(* which hosts it has matched, what its objects hold and what it has sent  *)
(* at each step; LockIsHeld says who holds connections_lock.               *)
(***************************************************************************)
EXTENDS NornirWorker, TLAPS

-----------------------------------------------------------------------------
(* connections_lock: who runs on hosts or closes connections holds it.     *)
LockIsHeld ==
  /\ \A j \in Jobs : (step[j] = "run" /\ ~IsDry(j)) \/ step[j] = "close" => lock = j
  /\ patrol = "close" => lock = Watchdog

(* Where a job can be, and what it has there.                              *)
InventorySteps == {"load", "netbox", "lab", "init", "change", "pull", "replace", "create"}
Afterwards == {"tidy", "note", "clean", "close", "called"}
HasObjects == {"render", "lock", "run"} \cup Afterwards

StateOK ==
  /\ plan \in Plans /\ nr = Len(failed) /\ failed \in Seq(SUBSET Hosts) /\ nr \in Nat \ {0}
  /\ DOMAIN step = Jobs /\ DOMAIN calls = Jobs /\ DOMAIN mine = Jobs /\ DOMAIN instance = Jobs
  /\ DOMAIN todo = Jobs /\ DOMAIN wrong = Jobs /\ DOMAIN outcome = Jobs
  /\ DOMAIN matched = Jobs /\ DOMAIN sent = Jobs

IsPlaced(j) ==
  /\ step[j] \in {"idle", "check", "filter", "done"} \cup HasObjects \cup InventorySteps
  /\ step[j] \in InventorySteps => IsInventoryJob(j)
  /\ step[j] \in {"check", "filter"} \cup HasObjects =>
       /\ ~IsInventoryJob(j)
       /\ calls[j] \in Seq(Calls) /\ calls[j] # <<>>
       /\ plan[j].task \in Calls => Len(calls[j]) = 1 /\ step[j] # "check"
  /\ step[j] \in HasObjects =>
       /\ instance[j] \in 1..nr
       /\ \A o \in mine[j] : HostOf(o) \in Wanted(j)
  /\ step[j] \in {"render", "run"} => todo[j] \subseteq mine[j]
  /\ step[j] = "render" => Renders(Head(calls[j]))
  /\ wrong[j] \subseteq Wanted(j)
  /\ outcome[j] = "good" => step[j] = "done"

(* Jobs that run at the same time and want the same are in met.            *)
MetIsKnown == \A j \in Running, k \in Running : j # k /\ j \notin met => ~Meets(j, k)

(* A job that nobody was in the way of: its objects are those of the hosts *)
(* it matched, they have not failed and hold what it rendered, and what it *)
(* has not sent yet is still to come.                                      *)
IsOnTheWay(j) ==
  /\ step[j] \in {"idle", "check"} \/ (step[j] = "filter" /\ plan[j].task \in Calls) => sent[j] = {}
  /\ plan[j].task \notin Calls /\ step[j] \in {"filter"} \cup HasObjects =>
       matched[j] = Matching(plan[j].hosts)
  /\ \A x \in sent[j] : x \in {<<h, j>> : h \in matched[j]}
  /\ step[j] \in HasObjects => matched[j] = {HostOf(o) : o \in mine[j]}
  /\ step[j] \in {"render", "lock"} => \A o \in mine[j] : HostOf(o) \notin failed[instance[j]]
  /\ step[j] \in {"render", "lock", "run"} /\ Renders(Head(calls[j])) =>
       \A o \in mine[j] : \/ step[j] = "render" /\ o \in todo[j]
                          \/ o \in DOMAIN slot /\ slot[o].key = Head(calls[j]) /\ slot[o].text = j
  /\ step[j] = "run" /\ wrong[j] = {} => \A o \in mine[j] \ todo[j] : <<HostOf(o), j>> \in sent[j]
  /\ step[j] \in Afterwards /\ wrong[j] = {} => \A h \in matched[j] : <<h, j>> \in sent[j]
  /\ outcome[j] = "good" => Exact(j)

NobodyInTheWay == \A j \in Jobs \ met : Sends(j) => IsOnTheWay(j)
ExactInv == StateOK /\ (\A j \in Jobs : IsPlaced(j)) /\ MetIsKnown /\ NobodyInTheWay

-----------------------------------------------------------------------------
(* What a step of job j leaves alone: the other jobs, and but for its own  *)
(* objects and hosts what they use.                                        *)

OthersStay(j) ==
  \A k \in Jobs \ {j} :
    /\ step'[k] = step[k] /\ calls'[k] = calls[k] /\ mine'[k] = mine[k] /\ instance'[k] = instance[k]
    /\ todo'[k] = todo[k] /\ wrong'[k] = wrong[k] /\ outcome'[k] = outcome[k]
    /\ matched'[k] = matched[k] /\ sent'[k] = sent[k]
MayFail(j) == IF IsInventoryJob(j) THEN {} ELSE Wanted(j)
LeavesAlone(j) ==
  /\ plan' = plan /\ met \subseteq met' /\ nr <= nr'
  /\ \A i \in 1..nr : failed'[i] \subseteq failed[i] \cup MayFail(j)
  /\ \A o : o \in DOMAIN slot /\ (step[j] \notin HasObjects \/ o \notin mine[j]) =>
              o \in DOMAIN slot' /\ slot'[o] = slot[o]
  /\ inventory' = inventory \/ step[j] \in InventorySteps

LEMMA FailedSets ==
  ASSUME StateOK, NEW i \in 1..nr, NEW S \in SUBSET Hosts
  PROVE  LET f == [failed EXCEPT ![i] = S]
         IN  /\ f \in Seq(SUBSET Hosts) /\ Len(f) = nr /\ f[i] = S
             /\ \A k \in 1..nr : k # i => f[k] = failed[k]
BY DEF StateOK

LEMMA ResetKeeps ==
  ASSUME StateOK, ResetFailed, nr' = nr
  PROVE  /\ failed' \in Seq(SUBSET Hosts) /\ Len(failed') = nr' /\ failed'[nr] = {}
         /\ \A i \in 1..nr : failed'[i] \subseteq failed[i]
<1>1. nr \in 1..nr
  BY DEF StateOK
<1> QED
  BY <1>1, FailedSets DEF ResetFailed

LEMMA PlansAreFunctions ==
  ASSUME StateOK, NEW j \in Jobs
  PROVE  /\ plan[j].hosts \subseteq Hosts /\ plan[j].calls \in Seq(Calls)
         /\ plan[j].task \in Calls => plan[j].calls = <<plan[j].task>>
         /\ plan[j].task \notin InventoryTasks => plan[j].calls # <<>>
BY PlansAssumption DEF StateOK, Plan

LEMMA JobLeavesAlone ==
  ASSUME StateOK, NEW j \in Jobs, IsPlaced(j), JobStep(j) \/ Start(j) \/ RenderFails(j)
  PROVE  StateOK' /\ OthersStay(j) /\ LeavesAlone(j)
<1> USE DEF StateOK, OthersStay, LeavesAlone, Step, Ends, hosts, progress, history, fixed
<1>f. failed' = failed /\ nr' = nr =>
        \A i \in 1..nr : failed'[i] \subseteq failed[i] \cup MayFail(j)
  OBVIOUS
<1>1. CASE Start(j)
  BY <1>1, <1>f DEF Start
<1>2. CASE Check(j)
  <2>1. ResetFailed /\ nr' = nr
    BY <1>2 DEF Check
  <2>2. /\ failed' \in Seq(SUBSET Hosts) /\ Len(failed') = nr'
        /\ \A i \in 1..nr : failed'[i] \subseteq failed[i]
    BY <2>1, ResetKeeps
  <2>3. \A i \in 1..nr : failed'[i] \subseteq failed[i] \cup MayFail(j)
    BY <2>2
  <2>4. /\ UNCHANGED <<plan, met, nr, slot, inventory>>
        /\ OthersStay(j)
        /\ DOMAIN step' = Jobs /\ DOMAIN calls' = Jobs /\ DOMAIN mine' = Jobs
        /\ DOMAIN instance' = Jobs /\ DOMAIN todo' = Jobs /\ DOMAIN wrong' = Jobs
        /\ DOMAIN outcome' = Jobs /\ DOMAIN matched' = Jobs /\ DOMAIN sent' = Jobs
    BY <1>2 DEF Check
  <2> HIDE DEF OthersStay
  <2>5. StateOK'
    BY <2>2, <2>4
  <2> QED
    BY <2>3, <2>4, <2>5
<1>3. CASE Filter(j)
  <2>1. ResetFailed /\ nr' = nr
    BY <1>3 DEF Filter
  <2>2. /\ failed' \in Seq(SUBSET Hosts) /\ Len(failed') = nr'
        /\ \A i \in 1..nr : failed'[i] \subseteq failed[i]
    BY <2>1, ResetKeeps
  <2>3. \A i \in 1..nr : failed'[i] \subseteq failed[i] \cup MayFail(j)
    BY <2>2
  <2>4. /\ UNCHANGED <<plan, met, nr, slot, inventory>>
        /\ OthersStay(j)
        /\ DOMAIN step' = Jobs /\ DOMAIN calls' = Jobs /\ DOMAIN mine' = Jobs
        /\ DOMAIN instance' = Jobs /\ DOMAIN todo' = Jobs /\ DOMAIN wrong' = Jobs
        /\ DOMAIN outcome' = Jobs /\ DOMAIN matched' = Jobs /\ DOMAIN sent' = Jobs
    BY <1>3 DEF Filter
  <2> HIDE DEF OthersStay
  <2>5. StateOK'
    BY <2>2, <2>4
  <2> QED
    BY <2>3, <2>4, <2>5
<1>4. CASE RenderHost(j)
  <2>1. PICK o \in todo[j] : slot' = With(slot, o, [key |-> Head(calls[j]), text |-> j])
    BY <1>4 DEF RenderHost
  <2>2. step[j] = "render" /\ o \in mine[j]
    BY <1>4, <2>1 DEF RenderHost, IsPlaced
  <2>3. \A x : x \in DOMAIN slot /\ x # o => x \in DOMAIN slot' /\ slot'[x] = slot[x]
    BY <2>1 DEF With
  <2>4. \A x : x \in DOMAIN slot /\ (step[j] \notin HasObjects \/ x \notin mine[j]) =>
              x \in DOMAIN slot' /\ slot'[x] = slot[x]
    BY <2>2, <2>3 DEF HasObjects
  <2> HIDE DEF LeavesAlone
  <2>5. StateOK' /\ OthersStay(j)
    BY <1>4 DEF RenderHost
  <2>6. LeavesAlone(j)
    BY <1>4, <1>f, <2>4 DEF RenderHost, LeavesAlone
  <2> QED
    BY <2>5, <2>6
<1>5. CASE RunStarts(j)
  BY <1>5, <1>f DEF RunStarts
<1>6. CASE RunHost(j)
  BY <1>6, <1>f DEF RunHost
<1>7. CASE RunEnds(j)
  <2>1. /\ instance[j] \in 1..nr /\ wrong[j] \subseteq Wanted(j) /\ ~IsInventoryJob(j)
        /\ Wanted(j) \subseteq Hosts
    BY <1>7, PlansAreFunctions DEF RunEnds, IsPlaced, HasObjects, Wanted
  <2>2. failed[instance[j]] \in SUBSET Hosts
    BY <2>1
  <2>3. /\ failed' \in Seq(SUBSET Hosts) /\ Len(failed') = nr
        /\ \A i \in 1..nr : failed'[i] \subseteq failed[i] \cup MayFail(j)
    BY <1>7, <2>1, <2>2, FailedSets DEF RunEnds, MayFail
  <2> QED
    BY <1>7, <2>3 DEF RunEnds
<1>8. CASE Tidy(j)
  <2>1. \A x : x \in DOMAIN slot /\ (step[j] \notin HasObjects \/ x \notin mine[j]) =>
              x \in DOMAIN slot' /\ slot'[x] = slot[x]
    BY <1>8 DEF Tidy, Without, HasObjects, Afterwards
  <2> HIDE DEF LeavesAlone
  <2>2. StateOK' /\ OthersStay(j)
    BY <1>8 DEF Tidy
  <2>3. LeavesAlone(j)
    BY <1>8, <1>f, <2>1 DEF Tidy, LeavesAlone
  <2> QED
    BY <2>2, <2>3
<1>9. CASE Note(j)
  BY <1>9, <1>f DEF Note
<1>10. CASE Clean(j) \/ Close(j)
  BY <1>10, <1>f DEF Clean, Close, CloseAged, Acquire
<1>11. CASE Called(j)
  BY <1>11, <1>f DEF Called
<1>12. CASE LoadInventory(j) \/ LoadNetbox(j) \/ LoadLab(j)
  BY <1>12, <1>f DEF LoadInventory, LoadNetbox, LoadLab
<1>13. CASE InitNornir(j)
  <2>1. /\ failed' \in Seq(SUBSET Hosts) /\ Len(failed') = nr + 1 /\ nr' = nr + 1
        /\ \A i \in 1..nr : failed'[i] = failed[i]
    BY <1>13 DEF InitNornir
  <2> QED
    BY <1>13, <2>1 DEF InitNornir, InventorySteps
<1>14. CASE RuntimeInventory(j)
  BY <1>14, <1>f DEF RuntimeInventory, CreateHosts, DeleteHosts, InventorySteps
<1>15. CASE PullHosts(j)
  BY <1>15, <1>f DEF PullHosts
<1>16. CASE ReplaceHosts(j)
  BY <1>16, <1>f DEF ReplaceHosts, CreateHosts, DeleteHosts, InventorySteps
<1>17. CASE CreateHost(j)
  BY <1>17, <1>f DEF CreateHost, CreateHosts, DeleteHosts, InventorySteps
<1>18. CASE RenderFails(j)
  BY <1>18, <1>f DEF RenderFails
<1> QED
  BY <1>1, <1>2, <1>3, <1>4, <1>5, <1>6, <1>7, <1>8, <1>9, <1>10, <1>11, <1>12, <1>13, <1>14,
     <1>15, <1>16, <1>17, <1>18 DEF JobStep

-----------------------------------------------------------------------------
(* Where jobs begin. *)
LEMMA FirstSteps ==
  ASSUME NEW task
  PROVE  /\ FirstStep(task) \in {"check", "filter"} \cup InventorySteps
         /\ FirstStep(task) \in InventorySteps <=> task \in InventoryTasks
         /\ task \in Calls <=> FirstStep(task) = "filter"
BY DEF FirstStep, InventorySteps, InventoryTasks, Calls

(* A job that is not in met shares no host with another, and the inventory *)
(* does not change under it if it filters it more than once.               *)
LEMMA NotMet ==
  ASSUME ExactInv, NEW j \in Running, NEW k \in Running, j # k, j \notin met, ~IsInventoryJob(j)
  PROVE  /\ IsInventoryJob(k) => plan[j].task \in Calls
         /\ ~IsInventoryJob(k) => Wanted(j) \cap Wanted(k) = {}
<1>1. ~Meets(j, k)
  BY DEF ExactInv, MetIsKnown
<1>2. \A task \in InventoryTasks : task \notin Calls
  BY DEF InventoryTasks, Calls
<1> QED
  BY <1>1, <1>2 DEF Meets, IsInventoryJob

(* A step of job j keeps what holds of the others. *)
LEMMA OthersKeep ==
  ASSUME ExactInv, NEW j \in Jobs, JobStep(j) \/ Start(j) \/ RenderFails(j), NEW k \in Jobs, k # j
  PROVE  IsPlaced(k)' /\ (k \notin met' /\ Sends(k)' => IsOnTheWay(k)')
<1>1. /\ plan' = plan /\ met \subseteq met' /\ nr <= nr' /\ nr \in Nat /\ nr' \in Nat
      /\ \A i \in 1..nr : failed'[i] \subseteq failed[i] \cup MayFail(j)
      /\ \A o : o \in DOMAIN slot /\ (step[j] \notin HasObjects \/ o \notin mine[j]) =>
                  o \in DOMAIN slot' /\ slot'[o] = slot[o]
      /\ inventory' = inventory \/ step[j] \in InventorySteps
  BY JobLeavesAlone DEF ExactInv, LeavesAlone, StateOK
<1>2. /\ step'[k] = step[k] /\ calls'[k] = calls[k] /\ mine'[k] = mine[k] /\ instance'[k] = instance[k]
      /\ todo'[k] = todo[k] /\ wrong'[k] = wrong[k] /\ outcome'[k] = outcome[k]
      /\ matched'[k] = matched[k] /\ sent'[k] = sent[k]
  BY JobLeavesAlone DEF ExactInv, OthersStay
<1>3. IsPlaced(k) /\ IsPlaced(j)
  BY DEF ExactInv
<1>4. IsPlaced(k)'
  <2>1. Wanted(k)' = Wanted(k) /\ IsInventoryJob(k)' = IsInventoryJob(k)
    BY <1>1 DEF Wanted, IsInventoryJob
  <2>2. instance[k] \in 1..nr => instance[k] \in 1..nr'
    BY <1>1
  <2> QED
    BY <1>1, <1>2, <1>3, <2>1, <2>2 DEF IsPlaced
<1>5. ASSUME k \notin met', Sends(k)' PROVE IsOnTheWay(k)'
  <2>1. IsOnTheWay(k) /\ Sends(k) /\ k \notin met /\ ~IsInventoryJob(k)
    BY <1>1, <1>5 DEF ExactInv, NobodyInTheWay, Sends, IsInventoryJob
  <2>2. CASE step[k] \in {"filter"} \cup HasObjects
    (* The step is of a job that is running next to k, or begins. *)
    <3>1. k \in Running
      BY <2>2 DEF Running, HasObjects, Afterwards
    <3>2. CASE j \in Running
      <4>1. /\ IsInventoryJob(j) => plan[k].task \in Calls
            /\ ~IsInventoryJob(j) => Wanted(k) \cap Wanted(j) = {}
        BY <2>1, <3>1, <3>2, NotMet
      <4>2. plan[k].task \notin Calls => inventory' = inventory
        BY <1>1, <1>3, <4>1 DEF IsPlaced
      <4>3. Wanted(k) \cap MayFail(j) = {}
        BY <4>1 DEF MayFail
      <4>4. ASSUME step[k] \in HasObjects, NEW o \in mine[k], o \in DOMAIN slot
            PROVE  o \in DOMAIN slot' /\ slot'[o] = slot[o]
        <5>1. step[j] \in HasObjects => o \notin mine[j]
          BY <1>3, <4>1, <4>4 DEF IsPlaced
        <5> QED
          BY <1>1, <4>4, <5>1
      <4>5. ASSUME step[k] \in HasObjects, NEW o \in mine[k], HostOf(o) \notin failed[instance[k]]
            PROVE  HostOf(o) \notin failed'[instance[k]]
        BY <1>1, <1>3, <4>3, <4>5 DEF IsPlaced
      <4> QED
        BY <1>1, <1>2, <2>1, <2>2, <4>2, <4>4, <4>5
        DEF IsOnTheWay, Exact, Matching, HasObjects, Afterwards
    <3>3. CASE j \notin Running
      <4>1. Start(j)
        BY <3>3 DEF Running, JobStep, RenderFails, Check, Filter, RenderHost, RunStarts, RunHost, RunEnds, Tidy,
              Note, Clean, Close, Called, LoadInventory, LoadNetbox, LoadLab, InitNornir,
              RuntimeInventory, PullHosts, ReplaceHosts, CreateHost
      <4>2. UNCHANGED <<slot, failed, inventory>>
        BY <4>1 DEF Start, hosts
      <4> QED
        BY <1>1, <1>2, <2>1, <4>2 DEF IsOnTheWay, Exact, Matching
    <3> QED
      BY <3>2, <3>3
  <2>3. CASE step[k] \notin {"filter"} \cup HasObjects
    BY <1>1, <1>2, <2>1, <2>3 DEF IsOnTheWay, Exact, HasObjects
  <2> QED
    BY <2>2, <2>3
<1> QED
  BY <1>4, <1>5

LEMMA NextCalls ==
  ASSUME NEW S, NEW s \in Seq(S), s # <<>>, Len(s) # 1
  PROVE  Tail(s) \in Seq(S) /\ Tail(s) # <<>>
<1>1. Len(s) \in Nat /\ Len(s) # 0 /\ Tail(s) \in Seq(S) /\ Len(Tail(s)) = Len(s) - 1
  OBVIOUS
<1>2. Len(Tail(s)) # 0
  BY <1>1
<1>3. Len(<<>>) = 0
  OBVIOUS
<1> QED
  BY <1>1, <1>2, <1>3

(* A step of job j keeps what holds of itself. *)
LEMMA ItselfKeeps ==
  ASSUME ExactInv, NEW j \in Jobs, JobStep(j) \/ Start(j) \/ RenderFails(j)
  PROVE  IsPlaced(j)' /\ (j \notin met' /\ Sends(j)' => IsOnTheWay(j)')
<1>s. StateOK /\ StateOK' /\ IsPlaced(j)
  BY JobLeavesAlone DEF ExactInv
<1>d. /\ DOMAIN step = Jobs /\ DOMAIN calls = Jobs /\ DOMAIN mine = Jobs /\ DOMAIN instance = Jobs
      /\ DOMAIN todo = Jobs /\ DOMAIN wrong = Jobs /\ DOMAIN outcome = Jobs
      /\ DOMAIN matched = Jobs /\ DOMAIN sent = Jobs /\ nr \in Nat /\ nr' \in Nat
      /\ nr <= nr'
  BY <1>s, JobLeavesAlone DEF ExactInv, StateOK, LeavesAlone
<1>p. /\ plan' = plan /\ Wanted(j)' = Wanted(j) /\ IsInventoryJob(j)' = IsInventoryJob(j)
      /\ Sends(j)' = Sends(j) /\ (j \notin met' => j \notin met)
      /\ plan[j].hosts \subseteq Hosts /\ Wanted(j) \subseteq Hosts
      /\ plan[j].task \in Calls => ~IsInventoryJob(j)
      /\ Sends(j) => ~IsInventoryJob(j) /\ Wanted(j) = plan[j].hosts
  <2>1. plan' = plan /\ met \subseteq met'
    BY JobLeavesAlone DEF ExactInv, LeavesAlone
  <2>2. \A task \in InventoryTasks : task \notin Calls
    BY DEF InventoryTasks, Calls
  <2> QED
    BY <1>s, <2>1, <2>2, PlansAreFunctions DEF Wanted, IsInventoryJob, Sends
<1>g. j \notin met /\ Sends(j) => IsOnTheWay(j)
  BY DEF ExactInv, NobodyInTheWay
<1> USE DEF Step, Ends, hosts, progress, history, fixed
<1>1. CASE Start(j)
  <2>1. /\ step[j] = "idle" /\ step'[j] = FirstStep(plan[j].task) /\ calls'[j] = plan[j].calls
        /\ UNCHANGED <<slot, failed, inventory, nr, mine, instance, todo, wrong, outcome, matched, sent>>
    BY <1>1, <1>d DEF Start
  <2>2. /\ step'[j] \in {"check", "filter"} \cup InventorySteps
        /\ step'[j] \in InventorySteps <=> IsInventoryJob(j)
        /\ plan[j].task \in Calls <=> step'[j] = "filter"
    BY <2>1, FirstSteps DEF IsInventoryJob
  <2>3. /\ calls'[j] \in Seq(Calls) /\ (~IsInventoryJob(j) => calls'[j] # <<>>)
        /\ plan[j].task \in Calls => Len(calls'[j]) = 1
    <3>1. /\ plan[j].calls \in Seq(Calls)
          /\ plan[j].task \in Calls => plan[j].calls = <<plan[j].task>>
          /\ ~IsInventoryJob(j) => plan[j].calls # <<>>
      BY <1>s, PlansAreFunctions DEF IsInventoryJob
    <3>2. \A x : Len(<<x>>) = 1
      OBVIOUS
    <3> QED
      BY <2>1, <3>1, <3>2
  <2>4. IsPlaced(j)'
    BY <1>s, <1>p, <2>1, <2>2, <2>3 DEF IsPlaced, HasObjects, Afterwards, InventorySteps
  <2>5. j \notin met /\ Sends(j) => IsOnTheWay(j)'
    BY <1>s, <1>g, <1>p, <2>1, <2>2 DEF IsOnTheWay, IsPlaced, HasObjects, Afterwards, InventorySteps
  <2> QED
    BY <1>p, <2>4, <2>5
<1>2. CASE Check(j)
  <2>1. /\ step[j] = "check" /\ matched'[j] = Matching(plan[j].hosts) /\ inventory' = inventory
        /\ UNCHANGED <<calls, wrong, sent, mine, instance, todo, nr>>
        /\ \/ step'[j] = "done" /\ outcome'[j] = "no match"
           \/ step'[j] = "filter" /\ outcome' = outcome
    BY <1>2, <1>d DEF Check
  <2>2. plan[j].task \notin Calls
    BY <1>s, <2>1 DEF IsPlaced
  <2>3. IsPlaced(j)'
    BY <1>s, <1>p, <2>1, <2>2 DEF IsPlaced, HasObjects, Afterwards, InventorySteps
  <2>4. j \notin met /\ Sends(j) => IsOnTheWay(j)'
    BY <1>s, <1>g, <1>p, <2>1, <2>2
    DEF IsOnTheWay, IsPlaced, HasObjects, Afterwards, InventorySteps, Matching
  <2> QED
    BY <1>p, <2>3, <2>4
<1>3. CASE Filter(j)
  <2> DEFINE found == Matching(Wanted(j))
             objects == {Object(h) : h \in found}
  <2>1. /\ step[j] = "filter" /\ mine'[j] = objects /\ todo'[j] = objects /\ instance'[j] = nr
        /\ UNCHANGED <<calls, wrong, sent, inventory, nr, plan>>
        /\ matched'[j] = IF plan[j].task \in Calls THEN found ELSE matched[j]
    BY <1>3, <1>d DEF Filter
  <2>2. \/ step'[j] = "done" /\ outcome'[j] = "no match"
        \/ found = {} /\ step'[j] = "called" /\ outcome' = outcome
        \/ step'[j] = AfterFilter(Head(calls[j])) /\ outcome' = outcome
    BY <1>3, <1>d DEF Filter
  <2>3. failed'[nr] = {} /\ nr \in 1..nr
    <3>1. ResetFailed /\ nr' = nr
      BY <1>3 DEF Filter
    <3>2. failed'[nr] = {}
      BY <1>s, <3>1, ResetKeeps
    <3> QED
      BY <1>s, <3>2 DEF StateOK
  <2>4. {HostOf(o) : o \in objects} = found /\ \A o \in objects : HostOf(o) \in Wanted(j)
    <3>1. \A h \in found : HostOf(Object(h)) = h
      BY DEF HostOf, Object
    <3> QED
      BY <3>1 DEF Matching
  <2> HIDE DEF objects
  <2>5. AfterFilter(Head(calls[j])) = IF Renders(Head(calls[j])) THEN "render" ELSE "lock"
    BY DEF AfterFilter
  <2>6. /\ step'[j] \in {"done", "called", "render", "lock"}
        /\ step'[j] = "render" => Renders(Head(calls[j]))
        /\ step'[j] = "lock" => ~Renders(Head(calls[j]))
        /\ step'[j] = "called" => found = {}
        /\ outcome'[j] = "good" => outcome[j] = "good"
    BY <2>2, <2>5
  <2>7. IsPlaced(j)'
    BY <1>s, <1>p, <2>1, <2>3, <2>4, <2>6 DEF IsPlaced, HasObjects, Afterwards, InventorySteps
  <2>8. ASSUME j \notin met, Sends(j) PROVE IsOnTheWay(j)'
    <3>1. matched'[j] = found /\ found = Matching(plan[j].hosts) /\ Matching(plan[j].hosts)' = found
      BY <1>p, <1>g, <2>1, <2>8 DEF IsOnTheWay, Matching
    <3>2. matched'[j] = {HostOf(o) : o \in mine'[j]}
      BY <2>1, <2>4, <3>1
    <3>3. \A x \in sent'[j] : x \in {<<h, j>> : h \in matched'[j]}
      BY <1>g, <2>1, <2>8 DEF IsOnTheWay
    <3>4. \A o \in mine'[j] : HostOf(o) \notin failed'[instance'[j]]
      BY <2>1, <2>3
    <3>5. outcome'[j] # "good"
      BY <1>s, <2>1, <2>6 DEF IsPlaced
    <3> HIDE DEF found
    <3> QED
      BY <1>p, <2>1, <2>6, <3>1, <3>2, <3>3, <3>4, <3>5 DEF IsOnTheWay, HasObjects, Afterwards
  <2> QED
    BY <1>p, <2>7, <2>8
<1>4. CASE RenderHost(j)
  <2> DEFINE text == [key |-> Head(calls[j]), text |-> j]
  <2>1. PICK o \in todo[j] :
          /\ step[j] = "render" /\ slot' = With(slot, o, text) /\ todo'[j] = todo[j] \ {o}
          /\ step'[j] = IF todo[j] = {o} THEN "lock" ELSE "render"
          /\ UNCHANGED <<inventory, nr, failed, calls, mine, instance, wrong, outcome, matched, sent>>
    BY <1>4, <1>d DEF RenderHost
  <2>2. text.key = Head(calls[j]) /\ text.text = j
    OBVIOUS
  <2> HIDE DEF text
  <2>3. /\ o \in DOMAIN slot' /\ slot'[o] = text
        /\ \A x \in DOMAIN slot : x # o => x \in DOMAIN slot' /\ slot'[x] = slot[x]
    BY <2>1 DEF With
  <2>4. IsPlaced(j)'
    BY <1>s, <1>p, <2>1 DEF IsPlaced, HasObjects, Afterwards, InventorySteps
  <2>5. ASSUME j \notin met, Sends(j) PROVE IsOnTheWay(j)'
    <3>1. Matching(plan[j].hosts)' = Matching(plan[j].hosts)
      BY <1>p, <2>1 DEF Matching
    <3>2. \A x \in mine[j] : \/ x \in todo'[j]
                             \/ x \in DOMAIN slot' /\ slot'[x].key = Head(calls[j]) /\ slot'[x].text = j
      BY <1>s, <1>g, <2>1, <2>2, <2>3, <2>5 DEF IsOnTheWay, IsPlaced
    <3> QED
      BY <1>s, <1>g, <1>p, <2>1, <2>5, <3>1, <3>2 DEF IsOnTheWay, IsPlaced, HasObjects, Afterwards
  <2> QED
    BY <1>p, <2>4, <2>5
<1>5. CASE RunStarts(j)
  <2>1. /\ step[j] = "lock" /\ step'[j] = "run"
        /\ todo'[j] = {o \in mine[j] : HostOf(o) \notin failed[instance[j]]}
        /\ UNCHANGED <<inventory, nr, failed, slot, calls, mine, instance, wrong, outcome, matched, sent>>
    BY <1>5, <1>d DEF RunStarts
  <2>2. IsPlaced(j)'
    BY <1>s, <1>p, <2>1 DEF IsPlaced, HasObjects, Afterwards, InventorySteps
  <2>3. ASSUME j \notin met, Sends(j) PROVE IsOnTheWay(j)'
    <3>1. todo'[j] = mine[j]
      BY <1>g, <2>1, <2>3 DEF IsOnTheWay
    <3>2. Matching(plan[j].hosts)' = Matching(plan[j].hosts)
      BY <1>p, <2>1 DEF Matching
    <3> QED
      BY <1>s, <1>g, <1>p, <2>1, <2>3, <3>1, <3>2 DEF IsOnTheWay, IsPlaced, HasObjects, Afterwards
  <2> QED
    BY <1>p, <2>2, <2>3
<1>6. CASE RunHost(j)
  <2>1. PICK o \in todo[j] :
          /\ step[j] = "run" /\ todo'[j] = todo[j] \ {o}
          /\ UNCHANGED <<inventory, nr, failed, slot, calls, mine, instance, outcome, matched, step>>
          /\ \/ sent'[j] = sent[j] \cup {<<HostOf(o), TextFor(j, o)>>} /\ wrong' = wrong
             \/ wrong'[j] = wrong[j] \cup {HostOf(o)} /\ sent' = sent
    BY <1>6, <1>d DEF RunHost
  <2>2. o \in mine[j] /\ HostOf(o) \in Wanted(j)
    BY <1>s, <2>1 DEF IsPlaced, HasObjects
  <2>3. IsPlaced(j)'
    BY <1>s, <1>p, <2>1, <2>2 DEF IsPlaced, HasObjects, Afterwards, InventorySteps
  <2>4. ASSUME j \notin met, Sends(j) PROVE IsOnTheWay(j)'
    <3>1. TextFor(j, o) = j
      BY <1>g, <2>1, <2>2, <2>4 DEF IsOnTheWay, TextFor
    <3>2. HostOf(o) \in matched[j] /\ matched[j] = {HostOf(x) : x \in mine[j]}
      BY <1>g, <2>1, <2>2, <2>4 DEF IsOnTheWay, HasObjects
    <3>3. Matching(plan[j].hosts)' = Matching(plan[j].hosts)
      BY <1>p, <2>1 DEF Matching
    <3>4. \A x \in sent'[j] : x \in {<<h, j>> : h \in matched[j]}
      BY <1>g, <2>1, <2>4, <3>1, <3>2 DEF IsOnTheWay
    <3>5. wrong'[j] = {} => \A x \in mine[j] \ todo'[j] : <<HostOf(x), j>> \in sent'[j]
      BY <1>g, <2>1, <2>4, <3>1 DEF IsOnTheWay
    <3> QED
      BY <1>s, <1>g, <1>p, <2>1, <2>4, <3>2, <3>3, <3>4, <3>5
      DEF IsOnTheWay, IsPlaced, HasObjects, Afterwards
  <2> QED
    BY <1>p, <2>3, <2>4
<1>7. CASE RunEnds(j)
  <2>1. /\ step[j] = "run" /\ todo[j] = {} /\ step'[j] = "tidy"
        /\ UNCHANGED <<inventory, nr, slot, calls, mine, instance, todo, wrong, outcome, matched, sent>>
    BY <1>7, <1>d DEF RunEnds
  <2>2. IsPlaced(j)'
    BY <1>s, <1>p, <2>1 DEF IsPlaced, HasObjects, Afterwards, InventorySteps
  <2>3. ASSUME j \notin met, Sends(j) PROVE IsOnTheWay(j)'
    <3>1. Matching(plan[j].hosts)' = Matching(plan[j].hosts)
      BY <1>p, <2>1 DEF Matching
    <3>2. matched[j] = {HostOf(x) : x \in mine[j]}
      BY <1>g, <2>1, <2>3 DEF IsOnTheWay, HasObjects
    <3>3. wrong[j] = {} => \A h \in matched[j] : <<h, j>> \in sent[j]
      BY <1>g, <2>1, <2>3, <3>2 DEF IsOnTheWay
    <3> QED
      BY <1>s, <1>g, <1>p, <2>1, <2>3, <3>1, <3>2, <3>3 DEF IsOnTheWay, IsPlaced, HasObjects, Afterwards
  <2> QED
    BY <1>p, <2>2, <2>3
(* What comes after the run changes neither what was sent nor the hosts. *)
<1>a. ASSUME step[j] \in Afterwards, step'[j] \in Afterwards,
             UNCHANGED <<inventory, nr, failed, calls, mine, instance, todo, wrong, outcome, matched, sent>>
      PROVE  IsPlaced(j)' /\ (j \notin met' /\ Sends(j)' => IsOnTheWay(j)')
  <2>1. IsPlaced(j)'
    BY <1>s, <1>p, <1>a DEF IsPlaced, HasObjects, Afterwards, InventorySteps
  <2>2. Matching(plan[j].hosts)' = Matching(plan[j].hosts)
    BY <1>p, <1>a DEF Matching
  <2>3. j \notin met /\ Sends(j) => IsOnTheWay(j)'
    BY <1>s, <1>g, <1>p, <1>a, <2>2 DEF IsOnTheWay, IsPlaced, HasObjects, Afterwards, Exact
  <2> QED
    BY <1>p, <2>1, <2>3
<1>8. CASE Tidy(j) \/ Note(j)
  BY <1>8, <1>d, <1>a DEF Tidy, Note, Afterwards
<1>10. CASE Clean(j) \/ Close(j)
  BY <1>10, <1>d, <1>a DEF Clean, Close, CloseAged, Acquire, Afterwards
<1>11. CASE Called(j)
  <2>1. /\ step[j] = "called" /\ calls'[j] = Tail(calls[j])
        /\ UNCHANGED <<inventory, nr, slot, mine, instance, todo, wrong, matched, sent>>
        /\ \/ /\ Len(calls[j]) = 1 /\ step'[j] = "done"
              /\ outcome'[j] = IF wrong[j] = {} THEN "good" ELSE "bad"
           \/ Len(calls[j]) # 1 /\ step'[j] = "filter" /\ outcome' = outcome
    BY <1>11, <1>d DEF Called
  <2>2. Len(calls[j]) # 1 => calls'[j] \in Seq(Calls) /\ calls'[j] # <<>> /\ plan[j].task \notin Calls
    <3>1. calls[j] \in Seq(Calls) /\ calls[j] # <<>> /\ (plan[j].task \in Calls => Len(calls[j]) = 1)
      BY <1>s, <2>1 DEF IsPlaced, HasObjects, Afterwards
    <3>2. Len(calls[j]) # 1 => Tail(calls[j]) \in Seq(Calls) /\ Tail(calls[j]) # <<>>
      BY <3>1, NextCalls
    <3> QED
      BY <2>1, <3>1, <3>2
  <2>3. IsPlaced(j)'
    BY <1>s, <1>p, <2>1, <2>2 DEF IsPlaced, HasObjects, Afterwards, InventorySteps
  <2>4. ASSUME j \notin met, Sends(j) PROVE IsOnTheWay(j)'
    <3>1. Matching(plan[j].hosts)' = Matching(plan[j].hosts)
      BY <1>p, <2>1 DEF Matching
    <3>2. wrong[j] = {} => sent[j] = {<<h, j>> : h \in matched[j]}
      BY <1>g, <2>1, <2>4 DEF IsOnTheWay, Afterwards
    <3>3. outcome[j] # "good"
      BY <1>s, <2>1 DEF IsPlaced
    <3> QED
      BY <1>s, <1>g, <1>p, <2>1, <2>2, <2>4, <3>1, <3>2, <3>3
      DEF IsOnTheWay, HasObjects, Afterwards, Exact
  <2> QED
    BY <1>p, <2>3, <2>4
(* Jobs that change the inventory send nothing. *)
<1>i. ASSUME step[j] \in InventorySteps, step'[j] \in InventorySteps \cup {"done"},
             wrong' = wrong, outcome'[j] # outcome[j] => step'[j] = "done"
      PROVE  IsPlaced(j)' /\ (j \notin met' /\ Sends(j)' => IsOnTheWay(j)')
  <2>1. IsInventoryJob(j) /\ ~Sends(j)
    BY <1>s, <1>i DEF IsPlaced, Sends
  <2>2. IsPlaced(j)'
    BY <1>s, <1>p, <1>i, <2>1 DEF IsPlaced, HasObjects, Afterwards, InventorySteps
  <2> QED
    BY <1>p, <2>1, <2>2
<1>12. CASE LoadInventory(j) \/ LoadNetbox(j) \/ LoadLab(j)
  BY <1>12, <1>d, <1>i DEF LoadInventory, LoadNetbox, LoadLab, InventorySteps
<1>13. CASE InitNornir(j) \/ RuntimeInventory(j)
  BY <1>13, <1>d, <1>i DEF InitNornir, RuntimeInventory, InventorySteps
<1>15. CASE PullHosts(j)
  BY <1>15, <1>d, <1>i DEF PullHosts, InventorySteps
<1>16. CASE ReplaceHosts(j) \/ CreateHost(j)
  BY <1>16, <1>d, <1>i DEF ReplaceHosts, CreateHost, InventorySteps
<1>18. CASE RenderFails(j)
  <2>1. /\ step[j] \in {"check", "render"} /\ step'[j] = "done" /\ outcome'[j] = "raised"
        /\ UNCHANGED <<wrong, sent, matched>>
    BY <1>18, <1>d DEF RenderFails
  <2>2. IsPlaced(j)'
    BY <1>s, <1>p, <2>1 DEF IsPlaced, HasObjects, Afterwards, InventorySteps
  <2>3. j \notin met /\ Sends(j) => IsOnTheWay(j)'
    BY <1>s, <1>g, <1>p, <2>1 DEF IsOnTheWay, HasObjects, Afterwards
  <2> QED
    BY <1>p, <2>2, <2>3
<1> QED
  BY <1>1, <1>2, <1>3, <1>4, <1>5, <1>6, <1>7, <1>8, <1>10, <1>11, <1>12, <1>13,
     <1>15, <1>16, <1>18 DEF JobStep

-----------------------------------------------------------------------------
LEMMA MetStep ==
  ASSUME ExactInv, NEW j \in Jobs, JobStep(j) \/ Start(j) \/ RenderFails(j)
  PROVE  MetIsKnown'
<1>1. /\ plan' = plan /\ met \subseteq met'
      /\ \A k \in Jobs : k # j => step'[k] = step[k]
  BY JobLeavesAlone DEF ExactInv, LeavesAlone, OthersStay
<1>2. \A i, k \in Jobs : Meets(i, k)' = Meets(i, k) /\ Meets(i, k) = Meets(k, i)
  BY <1>1 DEF Meets, IsInventoryJob, Wanted
<1>3. CASE Start(j)
  <2>1. met' = met \cup UNION {{j, k} : k \in {k \in Running : Meets(j, k)}}
    BY <1>3 DEF Start
  <2>2. \A k \in Running : Meets(j, k) => j \in met' /\ k \in met'
    <3> TAKE k \in Running
    <3> HAVE Meets(j, k)
    <3>1. {j, k} \in {{j, i} : i \in {i \in Running : Meets(j, i)}}
      OBVIOUS
    <3> QED
      BY <2>1, <3>1
  <2>3. \A k \in Running' : k = j \/ k \in Running
    BY <1>1 DEF Running
  <2>4. \A k \in Running : k \in Jobs
    BY DEF Running
  <2>5. ASSUME NEW i \in Running', NEW k \in Running', i # k, i \notin met' PROVE ~Meets(i, k)'
    <3>1. CASE i = j
      BY <1>2, <2>2, <2>3, <2>4, <2>5, <3>1
    <3>2. CASE k = j
      BY <1>2, <2>2, <2>3, <2>4, <2>5, <3>2
    <3>3. CASE i # j /\ k # j
      BY <1>1, <1>2, <2>3, <2>4, <2>5, <3>3 DEF ExactInv, MetIsKnown
    <3> QED
      BY <3>1, <3>2, <3>3
  <2> QED
    BY <2>5 DEF MetIsKnown
<1>4. CASE JobStep(j) \/ RenderFails(j)
  <2>1. j \in Running
    BY <1>4 DEF Running, JobStep, RenderFails, Check, Filter, RenderHost, RunStarts, RunHost, RunEnds,
          Tidy, Note, Clean, Close, Called, LoadInventory, LoadNetbox, LoadLab, InitNornir,
          RuntimeInventory, PullHosts, ReplaceHosts, CreateHost
  <2>2. \A k \in Running' : k \in Running /\ k \in Jobs
    BY <1>1, <2>1 DEF Running
  <2> QED
    BY <1>1, <1>2, <2>2 DEF ExactInv, MetIsKnown
<1> QED
  BY <1>3, <1>4

(* The watchdog and time touch connections only. *)
LEMMA ConnectionsOnly ==
  ASSUME ExactInv,
         UNCHANGED <<plan, nr, failed, step, calls, mine, instance, todo, wrong, outcome, matched, sent,
                     met, slot, inventory>>
  PROVE  ExactInv'
<1>1. StateOK' /\ Running' = Running
  BY DEF ExactInv, StateOK, Running
<1>2. \A j, k \in Jobs : /\ Wanted(j)' = Wanted(j) /\ IsInventoryJob(j)' = IsInventoryJob(j)
                         /\ Meets(j, k)' = Meets(j, k) /\ Sends(j)' = Sends(j)
  BY DEF Wanted, IsInventoryJob, Meets, Sends
<1>3. \A j \in Jobs : IsPlaced(j)'
  BY <1>2 DEF ExactInv, IsPlaced
<1>4. MetIsKnown'
  BY <1>1, <1>2 DEF ExactInv, MetIsKnown, Running
<1>5. \A j \in Jobs : IsOnTheWay(j) => IsOnTheWay(j)'
  BY DEF IsOnTheWay, Exact, Matching
<1>6. NobodyInTheWay'
  BY <1>2, <1>5 DEF ExactInv, NobodyInTheWay
<1> QED
  BY <1>1, <1>3, <1>4, <1>6 DEF ExactInv

LEMMA ExactStep ==
  ASSUME ExactInv, [Next]_vars
  PROVE  ExactInv'
<1>1. ASSUME NEW j \in Jobs, JobStep(j) \/ Start(j) \/ RenderFails(j) PROVE ExactInv'
  <2>1. \A k \in Jobs : IsPlaced(k)' /\ (k \notin met' /\ Sends(k)' => IsOnTheWay(k)')
    BY <1>1, OthersKeep, ItselfKeeps
  <2>2. StateOK' /\ MetIsKnown'
    BY <1>1, JobLeavesAlone, MetStep DEF ExactInv
  <2> QED
    BY <2>1, <2>2 DEF ExactInv, NobodyInTheWay
<1>2. CASE WatchdogStep \/ TimePasses \/ UNCHANGED vars
  <2>1. UNCHANGED <<plan, nr, failed, step, calls, mine, instance, todo, wrong, outcome, matched, sent,
                    met, slot, inventory>>
    BY <1>2 DEF WatchdogStep, WatchdogClean, WatchdogClose, Keepalive, TimePasses, CloseAged, vars,
                hosts, progress, history, fixed
  <2> QED
    BY <2>1, ConnectionsOnly
<1> QED
  BY <1>1, <1>2 DEF Next

LEMMA ExactInit ==
  ASSUME Init
  PROVE  ExactInv
<1>1. /\ step = [j \in Jobs |-> "idle"] /\ wrong = [j \in Jobs |-> {}] /\ sent = [j \in Jobs |-> {}]
      /\ outcome = [j \in Jobs |-> ""] /\ matched = [j \in Jobs |-> {}] /\ met = {}
      /\ calls = [j \in Jobs |-> <<>>] /\ mine = [j \in Jobs |-> {}] /\ instance = [j \in Jobs |-> 0]
      /\ todo = [j \in Jobs |-> {}] /\ nr = 1 /\ failed = <<{}>> /\ plan \in Plans
  BY DEF Init
<1>2. StateOK
  <2>1. <<{}>> \in Seq(SUBSET Hosts) /\ Len(<<{}>>) = 1
    OBVIOUS
  <2>2. failed \in Seq(SUBSET Hosts) /\ nr = Len(failed) /\ nr \in Nat \ {0} /\ plan \in Plans
    <3>1. failed = <<{}>>
      BY <1>1
    <3>2. failed \in Seq(SUBSET Hosts) /\ Len(failed) = 1
      BY <2>1, <3>1, Zenon
    <3>3. nr = 1 /\ plan \in Plans
      BY <1>1
    <3> QED
      BY <3>2, <3>3
  <2>3. /\ DOMAIN step = Jobs /\ DOMAIN calls = Jobs /\ DOMAIN mine = Jobs /\ DOMAIN instance = Jobs
        /\ DOMAIN todo = Jobs /\ DOMAIN wrong = Jobs /\ DOMAIN outcome = Jobs
        /\ DOMAIN matched = Jobs /\ DOMAIN sent = Jobs
    BY <1>1
  <2> QED
    BY <2>2, <2>3 DEF StateOK
<1>3. \A j \in Jobs : IsPlaced(j)
  BY <1>1 DEF IsPlaced, HasObjects, Afterwards, InventorySteps
<1>4. MetIsKnown
  BY <1>1 DEF MetIsKnown, Running
<1>5. \A j \in Jobs : IsOnTheWay(j)
  BY <1>1 DEF IsOnTheWay, HasObjects, Afterwards
<1> QED
  BY <1>2, <1>3, <1>4, <1>5 DEF ExactInv, NobodyInTheWay

(* A job that reports success has sent to every host its filter found, and *)
(* to no other, what it rendered for it, unless another job was at the     *)
(* same hosts or changed the inventory under it: for any hosts, plans,     *)
(* failures and refreshes.                                                 *)
THEOREM ExactJobs == Spec => []JobsAreExact
<1>1. Init => ExactInv
  BY ExactInit
<1>2. ExactInv /\ [Next]_vars => ExactInv'
  BY ExactStep
<1>3. ExactInv => JobsAreExact
  BY DEF ExactInv, NobodyInTheWay, IsOnTheWay, JobsAreExact
<1> QED
  BY <1>1, <1>2, <1>3, PTL DEF Spec

-----------------------------------------------------------------------------
LEMMA LockStep ==
  ASSUME StateOK, LockIsHeld, [Next]_vars
  PROVE  LockIsHeld'
<1> USE DEF Step, Ends
<1>d. DOMAIN step = Jobs /\ DOMAIN calls = Jobs
  BY DEF StateOK
<1>n. Nobody \notin Jobs /\ Watchdog \notin Jobs /\ Watchdog # Nobody
  BY SourcesAssumption
(* A step that leaves the lock and the plans, and goes nowhere that needs  *)
(* the lock.                                                               *)
<1>q. ASSUME NEW j \in Jobs, UNCHANGED <<lock, plan, patrol>>,
             \A k \in Jobs \ {j} : step'[k] = step[k] /\ calls'[k] = calls[k],
             step'[j] # "close", step'[j] # "run" \/ (step[j] = "run" /\ calls'[j] = calls[j])
      PROVE  LockIsHeld'
  BY <1>q DEF LockIsHeld, IsDry
<1>h. ASSUME UNCHANGED <<step, calls, plan>>, patrol' # "close",
             lock' = lock \/ (lock = Watchdog /\ lock' = Nobody)
      PROVE  LockIsHeld'
  BY <1>h, <1>n DEF LockIsHeld, IsDry
(* A step that gives the lock back. *)
<1>r. ASSUME NEW j \in Jobs, lock = j, lock' = Nobody, UNCHANGED <<plan, patrol>>,
             \A k \in Jobs \ {j} : step'[k] = step[k] /\ calls'[k] = calls[k],
             step'[j] \notin {"close", "run"}
      PROVE  LockIsHeld'
  BY <1>n, <1>r DEF LockIsHeld, IsDry
(* A step that takes it. *)
<1>k. ASSUME NEW j \in Jobs, lock = Nobody, lock' = j, UNCHANGED <<plan, patrol>>,
             \A k \in Jobs \ {j} : step'[k] = step[k] /\ calls'[k] = calls[k]
      PROVE  LockIsHeld'
  BY <1>n, <1>k DEF LockIsHeld, IsDry
<1>1. ASSUME NEW j \in Jobs, Start(j) PROVE LockIsHeld'
  <2>1. FirstStep(plan[j].task) \notin {"close", "run"}
    BY FirstSteps DEF InventorySteps
  <2> QED
    BY <1>1, <1>d, <1>q, <2>1 DEF Start, fixed
<1>2. ASSUME NEW j \in Jobs, Check(j) \/ RenderFails(j) \/ RenderHost(j) \/ Tidy(j) \/ Note(j) \/ Called(j)
      PROVE  LockIsHeld'
  BY <1>2, <1>d, <1>q DEF Check, RenderFails, RenderHost, Tidy, Note, Called, fixed, progress
<1>3. ASSUME NEW j \in Jobs, Filter(j) PROVE LockIsHeld'
  BY <1>3, <1>d, <1>q DEF Filter, AfterFilter, fixed
<1>4. ASSUME NEW j \in Jobs, RunStarts(j) PROVE LockIsHeld'
  <2>1. CASE IsDry(j)
    <3>1. IsDry(j)' /\ step'[j] = "run" /\ UNCHANGED <<lock, plan, patrol, calls>>
      BY <1>4, <1>d, <2>1 DEF RunStarts, fixed, IsDry
    <3> QED
      BY <1>4, <1>d, <3>1 DEF RunStarts, LockIsHeld, IsDry
  <2>2. CASE ~IsDry(j)
    BY <1>4, <1>d, <1>k, <2>2 DEF RunStarts, fixed
  <2> QED
    BY <2>1, <2>2
<1>5. ASSUME NEW j \in Jobs, RunHost(j) PROVE LockIsHeld'
  BY <1>5, <1>d, <1>q DEF RunHost, fixed
<1>6. ASSUME NEW j \in Jobs, RunEnds(j) PROVE LockIsHeld'
  <2>1. CASE IsDry(j)
    BY <1>6, <1>d, <1>q, <2>1 DEF RunEnds, fixed, progress
  <2>2. CASE ~IsDry(j)
    <3>1. lock = j
      BY <1>6, <2>2 DEF RunEnds, LockIsHeld
    <3> QED
      BY <1>6, <1>d, <1>r, <2>2, <3>1 DEF RunEnds, fixed, progress
  <2> QED
    BY <2>1, <2>2
<1>7. ASSUME NEW j \in Jobs, Clean(j) PROVE LockIsHeld'
  <2>1. CASE lock = Nobody /\ Acquire(j)
    BY <1>7, <1>d, <1>k, <2>1 DEF Clean, Acquire, fixed, progress
  <2>2. CASE ~(lock = Nobody /\ Acquire(j))
    BY <1>7, <1>d, <1>q, <2>2 DEF Clean, fixed, progress
  <2> QED
    BY <2>1, <2>2
<1>8. ASSUME NEW j \in Jobs, Close(j) PROVE LockIsHeld'
  <2>1. lock = j
    BY <1>8 DEF Close, LockIsHeld
  <2> QED
    BY <1>8, <1>d, <1>r, <2>1 DEF Close, CloseAged, fixed, progress
<1>9. ASSUME NEW j \in Jobs, LoadInventory(j) \/ LoadNetbox(j) \/ LoadLab(j) \/ InitNornir(j)
                             \/ RuntimeInventory(j)
      PROVE  LockIsHeld'
  BY <1>9, <1>d, <1>q DEF LoadInventory, LoadNetbox, LoadLab, InitNornir, RuntimeInventory, fixed, progress
<1>10. ASSUME NEW j \in Jobs, PullHosts(j) \/ ReplaceHosts(j) \/ CreateHost(j) PROVE LockIsHeld'
  BY <1>10, <1>d, <1>q DEF PullHosts, ReplaceHosts, CreateHost, fixed, progress
<1>11. CASE WatchdogClean
  <2>1. CASE lock = Nobody /\ lock' = Watchdog
    BY <1>11, <1>n, <2>1 DEF WatchdogClean, Acquire, LockIsHeld, IsDry, progress, fixed
  <2>2. CASE ~(lock = Nobody /\ lock' = Watchdog)
    BY <1>11, <1>h, <2>2 DEF WatchdogClean, Acquire, progress, fixed
  <2> QED
    BY <2>1, <2>2
<1>12. CASE WatchdogClose
  BY <1>12, <1>h DEF WatchdogClose, CloseAged, LockIsHeld, progress, fixed
<1>13. CASE Keepalive
  BY <1>13, <1>h DEF Keepalive, progress, fixed
<1>14. CASE TimePasses \/ UNCHANGED vars
  <2>1. UNCHANGED <<lock, plan, patrol, step, calls>>
    BY <1>14 DEF TimePasses, vars, fixed, progress
  <2> QED
    BY <2>1 DEF LockIsHeld, IsDry
<1> QED
  BY <1>1, <1>2, <1>3, <1>4, <1>5, <1>6, <1>7, <1>8, <1>9, <1>10, <1>11, <1>12, <1>13, <1>14
  DEF Next, JobStep, WatchdogStep

(* While a run uses a host nobody closes its connections. *)
LEMMA RunsAreLeftAlone ==
  ASSUME StateOK, LockIsHeld, Next, NEW k \in Jobs, step[k] = "run", ~IsDry(k), todo'[k] = todo[k]
  PROVE  \A c \in open \ open' : c[1] \notin mine[k]
<1>1. lock = k /\ k # Nobody /\ k # Watchdog
  BY SourcesAssumption DEF LockIsHeld
<1>2. CASE WatchdogStep \/ TimePasses
  <2>1. patrol # "close"
    BY <1>1 DEF LockIsHeld
  <2> QED
    BY <1>2, <2>1 DEF WatchdogStep, WatchdogClean, WatchdogClose, Keepalive, TimePasses
<1>3. ASSUME NEW j \in Jobs, RunHost(j) PROVE open \subseteq open'
  <2>1. PICK o \in todo[j] : todo' = [todo EXCEPT ![j] = @ \ {o}]
    BY <1>3 DEF RunHost
  <2>2. j # k
    BY <2>1 DEF StateOK
  <2>3. IsDry(j)
    BY <1>1, <1>3, <2>2 DEF RunHost, LockIsHeld
  <2> QED
    BY <1>3, <2>3 DEF RunHost
<1>4. ASSUME NEW j \in Jobs, JobStep(j) \/ Start(j) \/ RenderFails(j), ~RunHost(j) PROVE open' = open
  <2>1. ~Close(j)
    <3>1. step[j] = "close" => lock = j /\ j # k
      BY DEF LockIsHeld
    <3> QED
      BY <1>1, <3>1 DEF Close
  <2>2. ~InitNornir(j)
    BY <1>1 DEF InitNornir
  <2> QED
    BY <1>4, <2>1, <2>2
    DEF JobStep, Start, RenderFails, Check, Filter, RenderHost, RunStarts, RunEnds, Tidy, Note,
        Clean, Called, LoadInventory, LoadNetbox, LoadLab, RuntimeInventory, PullHosts,
        ReplaceHosts, CreateHost
<1> QED
  BY <1>2, <1>3, <1>4 DEF Next

(* Neither the watchdog nor another job nor a refresh closes a connection  *)
(* of a host that a run is using: for any number of jobs and hosts.        *)
THEOREM RunsKeepTheirConnections == Spec => NoCloseInUse
<1> DEFINE I == StateOK /\ LockIsHeld
           Kept == \A j \in Jobs : step[j] = "run" /\ ~IsDry(j) /\ todo[j] = todo'[j] =>
                     \A c \in open \ open' : c[1] \notin mine[j]
<1>1. Init => I
  <2> SUFFICES ASSUME Init PROVE I
    OBVIOUS
  <2>1. StateOK
    BY ExactInit DEF ExactInv
  <2>2. LockIsHeld
    BY DEF Init, LockIsHeld
  <2> QED
    BY <2>1, <2>2
<1>2. ExactInv /\ I /\ [Next]_vars => I'
  BY LockStep, ExactStep DEF ExactInv
<1>3. I /\ [Next]_vars => [Kept]_vars
  BY RunsAreLeftAlone
<1>4. Init => ExactInv
  BY ExactInit
<1>5. ExactInv /\ [Next]_vars => ExactInv'
  BY ExactStep
<1> HIDE DEF I, Kept
<1>6. Spec => [][Kept]_vars
  BY <1>1, <1>2, <1>3, <1>4, <1>5, PTL DEF Spec
<1> QED
  BY <1>6 DEF Kept, NoCloseInUse
=============================================================================
