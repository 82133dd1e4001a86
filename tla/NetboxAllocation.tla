-------------------------- MODULE NetboxAllocation --------------------------
(***************************************************************************)
(* create_ip and create_ip_bulk of the Netbox worker (ip_tasks.py), with   *)
(* create_prefix (prefix_tasks.py) as they use it: find the address an     *)
(* interface has, or allocate one, in a subnet of its own if the caller    *)
(* asks for it, and one for the other end of the link.  Each action is a   *)
(* request to NetBox; jobs run on different threads and workers at once,   *)
(* and a caller repeats a job that failed.                                 *)
(*                                                                         *)
(* A prefix is the set of its addresses; NetBox gives the lowest that is   *)
(* free.  An interface without a peer also stands for a description.       *)
(***************************************************************************)
EXTENDS Naturals, Sequences, FiniteSets, FiniteSetsExt, Functions, TLC

CONSTANTS
  Jobs,
  Requests,      \* what a job may be asked for
  Parents,       \* the parent prefixes the callers' filter may find, in order
  Subnets,       \* the prefixes of the length of mask_len
  Peer,          \* of each interface: the other end of its cable, or None
  Interfaces,    \* those that NetBox has
  None,
  MaxAtOnce,     \* bound: jobs that run at the same time
  MaxFaults,     \* bound: requests that fail
  MaxRetries     \* bound: jobs that are called again

(* What is to hold of them: prefixes are disjoint or one within the other, *)
(* NetBox lists the larger one first, a job that finds no parent raises at *)
(* once and is none here, and a cable has two ends.                        *)
PrefixesAreWhole ==
  /\ \A s \in Subnets : s # {} /\ s \subseteq Nat
  /\ \A s, t \in Subnets : s # t => s \cap t = {}
  /\ \A list \in Parents :
       /\ list \in Seq(SUBSET Nat) \ {<<>>}
       /\ \A i \in DOMAIN list : list[i] \subseteq UNION Subnets
       /\ \A i, k \in DOMAIN list : i < k => list[k] \subseteq list[i] \/ list[k] \cap list[i] = {}
CablesHaveTwoEnds ==
  /\ None \notin DOMAIN Peer
  /\ \A i \in DOMAIN Peer : Peer[i] # None => Peer[i] \in DOMAIN Peer \ {i} /\ Peer[Peer[i]] = i
RequestsAreOfInterfaces ==
  Requests \subseteq
    [interfaces : Seq(DOMAIN Peer), mask : BOOLEAN, peer : BOOLEAN, vrf : BOOLEAN, dry_run : BOOLEAN]

VARIABLES
  (* NetBox *)
  children,      \* the subnets there are
  ips,           \* of each address: the prefix its mask gives, and its interface
  (* the jobs *)
  parents,       \* the parent prefixes that are found, they never change
  request,       \* of each job, it never changes
  step,          \* of each job: where it is, and "idle", "done" or "raised"
  left,          \* of each job: interfaces that are still to come
  timed_out,     \* jobs whose deadline has passed
  call,          \* of each job: the local variables of the call of create_ip
  (* history and bounds *)
  overlapped,    \* jobs have run at the same time
  faults, retries

netbox == <<children, ips>>
counts == <<overlapped, faults, retries>>
asked == <<parents, request>>
jobs == <<asked, step, left, call, timed_out>>
vars == <<netbox, jobs, counts>>

Running == {j \in Jobs : step[j] \notin {"idle", "done", "raised"}}
Free(prefix) == prefix \ DOMAIN ips
Held(interface, prefix) == {a \in DOMAIN ips \cap prefix : ips[a].interface = interface}
Within(prefix) == {s \in children : s \subseteq prefix}
FreeSubnets(prefix) ==
  {s \in Subnets : s \subseteq prefix /\ s # prefix /\ \A c \in children : s \cap c = {}}
Lowest(subnets) == CHOOSE s \in subnets : \A t \in subnets : Min(s) <= Min(t)

(* The arguments of a call: the prefixes, whether to make a subnet         *)
(* (mask_len) and whether to serve the peer (create_peer_ip).              *)
Call(interface, prefixes, mask, peer) ==
  [interface |-> interface, prefixes |-> prefixes, at |-> 1, mask |-> mask, peer |-> peer,
   prefix |-> {}, child |-> {}, ip |-> 0, peer_data |-> None]
NoCall == Call(None, <<>>, FALSE, FALSE)

Init ==
  /\ children = {} /\ ips = <<>>
  /\ parents \in Parents
  /\ request \in [Jobs -> Requests]
  /\ step = [j \in Jobs |-> "idle"]
  /\ left = [j \in Jobs |-> <<>>]
  /\ call = [j \in Jobs |-> NoCall]
  /\ timed_out = {}
  /\ overlapped = FALSE /\ faults = 0 /\ retries = 0

-----------------------------------------------------------------------------
Step(j, next) == step' = [step EXCEPT ![j] = next]
Local(j, c) == call' = [call EXCEPT ![j] = c]
Ends(j) ==
  /\ step' = [step EXCEPT ![j] = "raised"]
  /\ left' = [left EXCEPT ![j] = <<>>] /\ Local(j, NoCall)
  /\ timed_out' = timed_out \ {j} /\ UNCHANGED asked
Raise(j) == Ends(j) /\ UNCHANGED <<netbox, counts>>

(* create_ip_bulk calls create_ip for one interface after the other.       *)
Start(j) ==
  /\ step[j] = "idle" /\ Cardinality(Running) < MaxAtOnce
  /\ Step(j, "next")
  /\ left' = [left EXCEPT ![j] = request[j].interfaces]
  /\ overlapped' = (overlapped \/ Running # {})
  /\ UNCHANGED <<netbox, asked, call, timed_out, faults, retries>>
NextInterface(j) ==
  /\ step[j] = "next"
  /\ IF left[j] = <<>>
     THEN Step(j, "done") /\ timed_out' = timed_out \ {j} /\ UNCHANGED <<left, call>>
     ELSE /\ Step(j, "find")
          /\ left' = [left EXCEPT ![j] = Tail(@)]
          /\ Local(j, Call(Head(left[j]), parents, request[j].mask, request[j].peer))
          /\ UNCHANGED timed_out
  /\ UNCHANGED <<netbox, asked, counts>>

(* Does the interface have an address in one of the prefixes?  The first   *)
(* that is found ends the search; several in one prefix raise.             *)
Find(j) ==
  LET c == call[j]
      hits == Held(c.interface, c.prefixes[c.at])
  IN  /\ step[j] = "find"
      /\ \/ /\ Cardinality(hits) > 1
            /\ Raise(j)
         \/ /\ Cardinality(hits) = 1
            /\ Step(j, "save") /\ Local(j, [c EXCEPT !.ip = Min(hits)])
            /\ UNCHANGED <<netbox, asked, left, timed_out, counts>>
         \/ /\ hits = {}
            /\ IF c.at < Len(c.prefixes)
               THEN UNCHANGED step /\ Local(j, [c EXCEPT !.at = @ + 1])
               ELSE Step(j, "choose") /\ Local(j, [c EXCEPT !.at = 1])
            /\ UNCHANGED <<netbox, asked, left, timed_out, counts>>

(* The prefix to allocate from: a dry run of create_prefix tells whether   *)
(* it has room for a subnet, and when it has not, the handler that was to  *)
(* go on to the next prefix raises itself, as it names no exception.       *)
MakesSubnet(c) == c.mask /\ c.prefixes[c.at] \notin Subnets
Choose(j) ==
  LET c == call[j]
      prefix == c.prefixes[c.at]
      room == IF MakesSubnet(c) THEN FreeSubnets(prefix) # {} ELSE Free(prefix) # {}
  IN  /\ step[j] = "choose"
      /\ \/ /\ room
            /\ Step(j, "peer") /\ Local(j, [c EXCEPT !.prefix = prefix])
            /\ UNCHANGED <<netbox, asked, left, timed_out, counts>>
         \/ /\ ~room /\ ~MakesSubnet(c) /\ c.at < Len(c.prefixes)
            /\ Local(j, [c EXCEPT !.at = @ + 1])
            /\ UNCHANGED <<netbox, asked, left, step, timed_out, counts>>
         \/ /\ ~room /\ (MakesSubnet(c) \/ c.at = Len(c.prefixes))
            /\ Raise(j)

(* The other end of the link: if it has an address in the chosen prefix,   *)
(* and the prefix its mask gives is in NetBox, that is the one to use;     *)
(* else it is to have an address afterwards.                               *)
OwnPrefix(c) ==                                                 \* mutant
  IF Held(Peer[c.interface], c.prefix) # {} THEN c
  ELSE [c EXCEPT !.peer_data = IF c.peer THEN Peer[c.interface] ELSE None]
PeerPrefix(c) ==
  LET hits == Held(Peer[c.interface], c.prefix)
      net == ips[Min(hits)].net
  IN  IF hits = {} THEN [c EXCEPT !.peer_data = IF c.peer THEN Peer[c.interface] ELSE None]
      ELSE IF net \in children \cup Range(parents) THEN [c EXCEPT !.prefix = net, !.mask = FALSE]
      ELSE c
LookAtPeer(j) ==
  LET c == IF Peer[call[j].interface] = None THEN call[j] ELSE PeerPrefix(call[j])
  IN  /\ step[j] = "peer"
      /\ IF Peer[c.interface] # None /\ Cardinality(Held(Peer[c.interface], call[j].prefix)) > 1
         THEN Raise(j)
         ELSE /\ Step(j, IF MakesSubnet(c) /\ ~request[j].dry_run THEN "subnet" ELSE "address")
              /\ Local(j, c)
              /\ UNCHANGED <<netbox, asked, left, timed_out, counts>>

-----------------------------------------------------------------------------
(* A request that writes: answered, or carried out with its answer lost,   *)
(* which raises.                                                           *)
Writes(j, next, c) ==
  /\ \/ /\ Step(j, next) /\ Local(j, c)
        /\ UNCHANGED <<asked, left, timed_out, faults>>
     \/ /\ faults < MaxFaults /\ faults' = faults + 1
        /\ Ends(j)
  /\ UNCHANGED <<overlapped, retries>>

(* create_prefix, in a loop that ends at the deadline of the job: with a   *)
(* VRF (and no description) it finds the subnet of the VRF in the prefix,  *)
(* whoever it is of, and raises if there are several.                      *)
IsFound(j) == request[j].vrf /\ Within(call[j].prefix) # {}
FindPrefix(j) ==
  /\ step[j] = "subnet" /\ j \notin timed_out /\ IsFound(j)
  /\ IF Cardinality(Within(call[j].prefix)) > 1
     THEN Raise(j)
     ELSE /\ Step(j, "look") /\ Local(j, [call[j] EXCEPT !.child = Lowest(Within(call[j].prefix))])
          /\ UNCHANGED <<netbox, asked, left, timed_out, counts>>
CreatePrefix(j) ==
  LET free == FreeSubnets(call[j].prefix)
  IN  /\ step[j] = "subnet" /\ j \notin timed_out /\ ~IsFound(j)
      /\ \/ free = {} /\ Raise(j)
         \/ /\ free # {}
            /\ children' = children \cup {Lowest(free)}
            /\ Writes(j, "look", [call[j] EXCEPT !.child = Lowest(free)])
            /\ UNCHANGED ips
(* The deadline matters in the loop only.                                  *)
DeadlinePasses(j) ==
  /\ step[j] \in {"subnet", "look"} /\ j \notin timed_out
  /\ timed_out' = timed_out \cup {j}
  /\ UNCHANGED <<netbox, asked, step, left, call, counts>>
TimesOut(j) == step[j] = "subnet" /\ j \in timed_out /\ Raise(j)

(* Addresses given out of the parent may lie in the subnet: then it is     *)
(* left there and another one created.                                     *)
Enough(c) == Cardinality(Free(c.child)) >= IF c.peer THEN 2 ELSE 1
LookAtChild(j) ==
  LET c == call[j]
  IN  /\ step[j] = "look"
      /\ IF Enough(c)
         THEN Step(j, "address") /\ Local(j, [c EXCEPT !.prefix = c.child])
         ELSE Step(j, "subnet") /\ UNCHANGED call
      /\ UNCHANGED <<netbox, asked, left, timed_out, counts>>

(* available_ips.create: the address is nobody's until it is saved.  A dry *)
(* run only looks, at the parent.                                          *)
Allocate(j) ==
  LET c == call[j]
      a == Min(Free(c.prefix))
  IN  /\ step[j] = "address"
      /\ \/ Free(c.prefix) = {} /\ Raise(j)
         \/ /\ Free(c.prefix) # {} /\ request[j].dry_run
            /\ Step(j, "next") /\ Local(j, NoCall)
            /\ UNCHANGED <<netbox, asked, left, timed_out, counts>>
         \/ /\ Free(c.prefix) # {} /\ ~request[j].dry_run
            /\ ips' = [b \in DOMAIN ips \cup {a} |->
                        IF b = a THEN [net |-> c.prefix, interface |-> None] ELSE ips[b]]
            /\ Writes(j, "save", [c EXCEPT !.ip = a])
            /\ UNCHANGED children

(* The interface is looked up and the address saved with it; mask_len is   *)
(* written over the mask the address has.  Then the peer has its turn, in  *)
(* the prefix that was used.                                               *)
SubnetOf(a) == CHOOSE s \in Subnets : a \in s
Saved(c) ==
  [net |-> IF c.mask /\ ips[c.ip].net \notin Subnets THEN SubnetOf(c.ip) ELSE ips[c.ip].net,
   interface |-> c.interface]
Save(j) ==
  LET c == call[j]
      same == Saved(c) = ips[c.ip] \/ request[j].dry_run
      next == IF c.peer_data = None THEN "next" ELSE "find"
      then == IF c.peer_data = None THEN NoCall ELSE Call(c.peer_data, <<c.prefix>>, request[j].mask, FALSE)
  IN  /\ step[j] = "save"
      /\ \/ c.interface \notin Interfaces /\ Raise(j)
         \/ /\ c.interface \in Interfaces /\ same
            /\ Step(j, next) /\ Local(j, then)
            /\ UNCHANGED <<netbox, asked, left, timed_out, counts>>
         \/ /\ c.interface \in Interfaces /\ ~same
            /\ ips' = [ips EXCEPT ![c.ip] = Saved(c)]
            /\ Writes(j, next, then) /\ UNCHANGED children

-----------------------------------------------------------------------------
(* NetBox refuses or does not answer, and the job raises.                  *)
RequestFails(j) ==
  /\ j \in Running /\ step[j] # "next" /\ faults < MaxFaults
  /\ faults' = faults + 1 /\ Ends(j)
  /\ UNCHANGED <<netbox, overlapped, retries>>

(* The caller calls again.                                                 *)
Retry(j) ==
  /\ step[j] \in {"done", "raised"} /\ retries < MaxRetries
  /\ retries' = retries + 1 /\ Step(j, "idle")
  /\ UNCHANGED <<netbox, asked, left, call, timed_out, overlapped, faults>>

JobStep(j) ==
  \/ NextInterface(j) \/ Find(j) \/ Choose(j) \/ LookAtPeer(j) \/ FindPrefix(j) \/ CreatePrefix(j)
  \/ TimesOut(j) \/ LookAtChild(j) \/ Allocate(j) \/ Save(j)
Done == Running = {} /\ UNCHANGED vars
Next ==
  \/ \E j \in Jobs : JobStep(j) \/ Start(j) \/ DeadlinePasses(j) \/ RequestFails(j) \/ Retry(j)
  \/ Done
Spec == Init /\ [][Next]_vars

-----------------------------------------------------------------------------
(***************************************************************************)
(* What the allocation of addresses promises.                              *)
(***************************************************************************)
InterfaceOf(a) == ips[a].interface

(* Two addresses of one interface in a prefix make create_ip raise.        *)
OneAddress ==
  ~overlapped => \A p \in Range(parents) : \A a, b \in DOMAIN ips \cap p :
    a # b /\ InterfaceOf(a) # None => InterfaceOf(a) # InterfaceOf(b)

EndsShareSubnet ==
  ~overlapped => \A a, b \in DOMAIN ips :
    InterfaceOf(a) # None /\ Peer[InterfaceOf(a)] # None /\ InterfaceOf(b) = Peer[InterfaceOf(a)]
      => ips[a].net = ips[b].net
OneLinkPerSubnet ==
  (\A j \in Jobs : ~request[j].vrf) => \A a, b \in DOMAIN ips :
    ips[a].net = ips[b].net /\ InterfaceOf(a) # None /\ InterfaceOf(b) # None
      => InterfaceOf(b) \in {InterfaceOf(a), Peer[InterfaceOf(a)]}
SubnetsAreOfLinks ==
  (\A j \in Jobs : request[j].mask) /\ Range(parents) \cap Subnets = {} => EndsShareSubnet /\ OneLinkPerSubnet

(* As long as jobs run one at a time, no parent prefix ever has two        *)
(* addresses of an interface, though calls fail anywhere, lose answers,    *)
(* are repeated, and come for both ends of a link.  When subnets are asked *)
(* for and parents are larger than these, the ends of a link then have     *)
(* addresses of one subnet, whichever was asked for first; and without a   *)
(* VRF a subnet is of one interface or one link, also when jobs run at the *)
(* same time.                                                              *)
AddressesFitLinks == OneAddress /\ SubnetsAreOfLinks
=============================================================================
