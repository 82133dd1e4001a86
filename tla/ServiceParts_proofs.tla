------------------------- MODULE ServiceParts_proofs -------------------------
(* Proofs of the safety properties of four parts of ServiceTasks, for all  *)
(* requests, workflows, networks, services and faults: the invariants that *)
(* each part keeps, and what follows from them.                            *)
EXTENDS ServiceParts, Naturals, Sequences, FiniteSetTheorems, WellFoundedInduction, TLAPS

-----------------------------------------------------------------------------
(***************************************************************************)
(* FakeNOS: a network that is not careless has no process but that in the  *)
(* table, or that which the one job on it is about to enter there.         *)
(***************************************************************************)
Parts == {"fetch", "spawn", "enter", "names", "look", "take", "kill", "pop", "lookup"}
Follows ==
  {<<"fetch", "spawn">>, <<"spawn", "enter">>, <<"enter", "names">>, <<"names", "look">>, <<"look", "names">>,
   <<"lookup", "names">>, <<"names", "take">>, <<"take", "spawn">>, <<"kill", "pop">>, <<"pop", "take">>}
StartParts == {"fetch", "spawn", "enter", "lookup"}
PlanOK(p) ==
  /\ p \in Seq(Parts)
  /\ \A i \in 1..Len(p) - 1 : <<p[i], p[i + 1]>> \in Follows
  /\ p # <<>> => p[Len(p)] \in {"names", "look", "take"}

Runs(j) == network_outcome[j] = "running"
Doing(j, x) == Runs(j) /\ network_plan[j] # <<>> /\ network_plan[j][1] = x
NetworksOK ==
  /\ networks \in [DOMAIN networks -> Nat] /\ DOMAIN networks \subseteq Networks
  /\ spawned \in Seq(Networks) /\ living \subseteq DOMAIN spawned
  /\ network_request \in [Jobs -> NetworkRequests]
  /\ network_plan \in [Jobs -> Seq(Parts)]
  /\ names \in [Jobs -> SUBSET Networks]
  /\ DOMAIN entry = Jobs
  /\ network_outcome \in [Jobs -> {"idle", "running", "done", "raised"}]
  /\ careless \subseteq Networks
PlanFits(j) ==
  /\ PlanOK(network_plan[j]) /\ network_plan[j] # <<>>
  /\ \A i \in DOMAIN network_plan[j] : network_plan[j][i] \in StartParts => network_request[j].task \in {"start", "restart"}

(* Jobs that work on one network at once make it careless.                 *)
Apart ==
  \A j, k \in Jobs : j # k /\ Runs(j) /\ Runs(k) => FakeNetworks!Of(j) \cap FakeNetworks!Of(k) \subseteq careless
Tidy(n) == \A p \in living : spawned[p] = n => n \in DOMAIN networks /\ networks[n] = p
Entering(n) == \E j \in Jobs : Doing(j, "enter") /\ network_request[j].network = n
TableIsTrue(n) == Entering(n) \/ Tidy(n)

(* What a job has in its hands, for a network that is not careless.        *)
Holds(j, n) ==
  /\ Doing(j, "take") /\ network_request[j].network = n /\ n \in DOMAIN networks => n \in names[j]
  /\ (Doing(j, "fetch") \/ Doing(j, "spawn") \/ Doing(j, "enter")) /\ network_request[j].network = n =>
       n \notin DOMAIN networks
  /\ Doing(j, "enter") /\ network_request[j].network = n =>
       \A p \in living : spawned[p] = n => p = entry[j][2]
  /\ Doing(j, "kill") /\ entry[j][1] = n => n \in DOMAIN networks /\ entry[j][2] = networks[n]
  /\ Doing(j, "pop") /\ entry[j][1] = n => \A p \in living : spawned[p] # n
HandFits(j) ==
  /\ Doing(j, "look") \/ Doing(j, "take") \/ Doing(j, "kill") \/ Doing(j, "pop") => names[j] \subseteq FakeNetworks!Of(j)
  /\ Doing(j, "kill") \/ Doing(j, "pop") => entry[j][1] \in FakeNetworks!Of(j)
  /\ Doing(j, "enter") => entry[j][2] \in Nat
  /\ \A n \in FakeNetworks!Of(j) \ careless : Holds(j, n)
JobFits(j) == Runs(j) => PlanFits(j) /\ HandFits(j)
NetworksInv ==
  part = "networks" =>
    NetworksOK /\ Apart /\ (\A j \in Jobs : JobFits(j)) /\ \A n \in Networks \ careless : TableIsTrue(n)

(* A job is for networks, and for one that it starts.                      *)
LEMMA OfNetworks ==
  ASSUME NetworksAssumption, NetworksOK, NEW j \in Jobs
  PROVE  /\ FakeNetworks!Of(j) \subseteq Networks
         /\ network_request[j].network \in Networks => FakeNetworks!Of(j) = {network_request[j].network}
         /\ network_request[j].task \in {"start", "restart"} => network_request[j].network \in Networks
  BY DEF NetworksAssumption, FakeNetworks!RequestsAreNamed, NetworksOK, FakeNetworks!Of

(* What a step of a job leaves alone.                                      *)
Unaffected(j) ==
  /\ \A k \in Jobs \ {j} :
       /\ network_plan'[k] = network_plan[k] /\ names'[k] = names[k]
       /\ entry'[k] = entry[k] /\ network_outcome'[k] = network_outcome[k]
  /\ network_request' = network_request /\ careless \subseteq careless'
  /\ \A n \in Networks \ FakeNetworks!Of(j) :
       /\ n \in DOMAIN networks' <=> n \in DOMAIN networks
       /\ n \in DOMAIN networks => networks'[n] = networks[n]
       /\ \A p \in living' : spawned'[p] = n => p \in living /\ spawned[p] = n
Alone(j) == \A k \in Jobs \ {j} : Runs(k) => FakeNetworks!Of(k) \cap FakeNetworks!Of(j) \subseteq careless'

LEMMA OthersFit ==
  ASSUME NetworksAssumption, NetworksOK, NEW j \in Jobs, Unaffected(j), Alone(j),
         \A k \in Jobs : JobFits(k), \A n \in Networks \ careless : TableIsTrue(n)
  PROVE  /\ \A k \in Jobs \ {j} : JobFits(k)'
         /\ \A n \in Networks \ (careless' \cup FakeNetworks!Of(j)) : TableIsTrue(n)'
<1>1. \A k \in Jobs : FakeNetworks!Of(k)' = FakeNetworks!Of(k)
  BY DEF Unaffected, FakeNetworks!Of
<1>2. ASSUME NEW k \in Jobs \ {j} PROVE JobFits(k)'
  <2>1. /\ Runs(k)' <=> Runs(k)
        /\ \A x : Doing(k, x)' <=> Doing(k, x)
    BY DEF Unaffected, Runs, Doing
  <2> SUFFICES ASSUME Runs(k)' PROVE PlanFits(k)' /\ HandFits(k)'
    BY DEF JobFits
  <2>2. PlanFits(k) /\ HandFits(k)
    BY <2>1 DEF JobFits
  <2>3. PlanFits(k)'
    BY <2>2, <1>1 DEF PlanFits, Unaffected
  <2>4. ASSUME NEW n \in FakeNetworks!Of(k), n \notin careless' PROVE Holds(k, n)'
    <3>1. n \in Networks \ FakeNetworks!Of(j) /\ n \notin careless
      BY <2>1, <2>4, OfNetworks DEF Alone, Unaffected
    <3>2. Holds(k, n)
      BY <2>2, <2>4, <3>1 DEF HandFits
    <3>3. /\ n \in DOMAIN networks' <=> n \in DOMAIN networks
          /\ n \in DOMAIN networks => networks'[n] = networks[n]
          /\ \A p \in living' : spawned'[p] = n => p \in living /\ spawned[p] = n
          /\ names'[k] = names[k] /\ entry'[k] = entry[k] /\ network_request' = network_request
      BY <3>1 DEF Unaffected
    <3> QED
      BY <2>1, <3>2, <3>3 DEF Holds
  <2>5. HandFits(k)'
    <3>1. entry'[k] = entry[k] /\ names'[k] = names[k]
      BY DEF Unaffected
    <3> QED
      BY <1>1, <2>1, <2>2, <2>4, <3>1 DEF HandFits
  <2> QED
    BY <2>3, <2>5
<1>3. ASSUME NEW n \in Networks, n \notin careless', n \notin FakeNetworks!Of(j) PROVE TableIsTrue(n)'
  <2>1. TableIsTrue(n)
    BY <1>3 DEF Unaffected
  <2>2. CASE Tidy(n)
    <3>1. Tidy(n)'
      BY <1>3, <2>2 DEF Tidy, Unaffected
    <3> QED
      BY <3>1 DEF TableIsTrue
  <2>3. CASE Entering(n)
    <3>1. PICK k \in Jobs : Doing(k, "enter") /\ network_request[k].network = n
      BY <2>3 DEF Entering
    <3>2. k # j
      BY <1>3, <3>1, OfNetworks
    <3>3. Doing(k, "enter")' /\ network_request'[k].network = n
      BY <3>1, <3>2 DEF Doing, Runs, Unaffected
    <3> QED
      BY <3>3 DEF TableIsTrue, Entering
  <2> QED
    BY <2>1, <2>2, <2>3 DEF TableIsTrue
<1> QED
  BY <1>2, <1>3

(* The plan of a job after a part of it.                                   *)
LEMMA PlanRest ==
  ASSUME NEW p, PlanOK(p), p # <<>>
  PROVE  /\ PlanOK(Tail(p)) /\ Tail(p) \in Seq(Parts) /\ <<>> \o Tail(p) = Tail(p)
         /\ Tail(p) = <<>> <=> Len(p) = 1
         /\ Tail(p) # <<>> => <<p[1], Tail(p)[1]>> \in Follows
         /\ \A i \in DOMAIN Tail(p) : \E k \in DOMAIN p : Tail(p)[i] = p[k]
<1>1. p \in Seq(Parts) /\ Tail(p) \in Seq(Parts) /\ Len(Tail(p)) = Len(p) - 1 /\ Len(p) \in Nat \ {0}
  BY DEF PlanOK
<1>2. \A i \in 1..Len(p) - 1 : Tail(p)[i] = p[i + 1]
  BY <1>1
<1>3. PlanOK(Tail(p))
  <2>1. \A i \in 1..Len(Tail(p)) - 1 : <<Tail(p)[i], Tail(p)[i + 1]>> \in Follows
    BY <1>1, <1>2 DEF PlanOK
  <2>2. Tail(p) # <<>> => Tail(p)[Len(Tail(p))] = p[Len(p)]
    BY <1>1, <1>2
  <2> QED
    BY <1>1, <2>1, <2>2 DEF PlanOK
<1>4. Tail(p) # <<>> => <<p[1], Tail(p)[1]>> \in Follows
  <2> SUFFICES ASSUME Tail(p) # <<>> PROVE <<p[1], Tail(p)[1]>> \in Follows
    OBVIOUS
  <2>1. 1 \in 1..Len(p) - 1 /\ Tail(p)[1] = p[2] /\ 1 + 1 = 2
    BY <1>1, <1>2
  <2> QED
    BY <2>1 DEF PlanOK
<1>5. \A i \in DOMAIN Tail(p) : i + 1 \in DOMAIN p /\ Tail(p)[i] = p[i + 1]
  BY <1>1, <1>2
<1>6. <<>> \o Tail(p) = Tail(p) /\ (Tail(p) = <<>> <=> Len(p) = 1)
  BY <1>1
<1> QED
  BY <1>1, <1>3, <1>4, <1>5, <1>6

LEMMA PlanAgain ==
  ASSUME NEW p, PlanOK(p), p # <<>>, NEW x \in {"take", "look"}, p[1] = x
  PROVE  /\ <<x>> \o Tail(p) = p
         /\ x = "take" => PlanOK(<<"kill", "pop", "take">> \o Tail(p)) /\ <<"kill", "pop", "take">> \o Tail(p) \in Seq(Parts)
         /\ \A i \in 1..Len(p) + 2 : i > 3 => (<<"kill", "pop", "take">> \o Tail(p))[i] = p[i - 2]
         /\ Len(<<"kill", "pop", "take">> \o Tail(p)) = Len(p) + 2
<1> DEFINE q == <<"kill", "pop", "take">> \o Tail(p)
<1>1. p \in Seq(Parts) /\ Tail(p) \in Seq(Parts) /\ Len(Tail(p)) = Len(p) - 1 /\ Len(p) \in Nat \ {0}
  BY DEF PlanOK
<1>2. \A i \in 1..Len(p) - 1 : Tail(p)[i] = p[i + 1]
  BY <1>1
<1>3. <<x>> \o Tail(p) = p
  <2>1. <<x>> \in Seq(Parts)
    BY DEF Parts
  <2>2. <<x>> \o Tail(p) \in Seq(Parts) /\ Len(<<x>> \o Tail(p)) = Len(p)
    BY <1>1, <2>1
  <2>3. \A i \in 1..Len(p) : (<<x>> \o Tail(p))[i] = p[i]
    BY <1>1, <1>2, <2>1
  <2> QED
    BY <1>1, <2>2, <2>3
<1>4. q \in Seq(Parts) /\ Len(q) = Len(p) + 2
  <2>1. <<"kill", "pop", "take">> \in Seq(Parts)
    BY DEF Parts
  <2> QED
    BY <1>1, <2>1
<1>5. /\ q[1] = "kill" /\ q[2] = "pop" /\ q[3] = "take"
      /\ \A i \in 1..Len(p) + 2 : i > 3 => q[i] = p[i - 2]
  BY <1>1, <1>2
<1>6. ASSUME x = "take", NEW i \in 1..Len(q) - 1 PROVE <<q[i], q[i + 1]>> \in Follows
  <2>1. CASE i <= 2
    <3>1. i = 1 \/ i = 2
      BY <1>4, <1>6, <2>1
    <3> QED
      BY <3>1, <1>5 DEF Follows
  <2>2. CASE i > 2
    <3>1. q[i] = p[i - 2] /\ q[i + 1] = p[i - 1] /\ i - 2 \in 1..Len(p) - 1 /\ (i - 2) + 1 = i - 1
      BY <1>1, <1>4, <1>5, <1>6, <2>2
    <3> QED
      BY <3>1 DEF PlanOK
  <2> QED
    BY <2>1, <2>2
<1>7. q[Len(q)] \in {"names", "look", "take"}
  <2>1. CASE Len(p) = 1
    BY <1>4, <1>5, <2>1
  <2>2. CASE Len(p) > 1
    <3>1. Len(q) \in 1..Len(p) + 2 /\ Len(q) > 3 /\ Len(q) - 2 = Len(p)
      BY <1>1, <1>4, <2>2
    <3> QED
      BY <3>1, <1>5 DEF PlanOK
  <2> QED
    BY <1>1, <2>1, <2>2
<1> QED
  BY <1>3, <1>4, <1>5, <1>6, <1>7 DEF PlanOK

LEMMA PlanBegins ==
  ASSUME NEW t \in {"start", "stop", "restart", "inspect", "inventory", "list"}
  PROVE  /\ PlanOK(FakeNetworks!Plan(t)) /\ FakeNetworks!Plan(t) # <<>>
         /\ \A i \in DOMAIN FakeNetworks!Plan(t) :
              FakeNetworks!Plan(t)[i] \in StartParts => t \in {"start", "restart"}
         /\ FakeNetworks!Plan(t)[1] \in {"fetch", "names", "lookup"}
         /\ FakeNetworks!Plan(t)[1] = "fetch" => t = "start"
<1> DEFINE p == FakeNetworks!Plan(t)
<1>1. CASE t = "start"
  <2>1. p = <<"fetch", "spawn", "enter", "names", "look">>
    BY <1>1 DEF FakeNetworks!Plan
  <2>2. p \in Seq(Parts)
    BY <2>1 DEF Parts
  <2>3. Len(p) = 5 /\ DOMAIN p = 1..5
    BY <2>1
  <2>4. p[1] = "fetch" /\ p[2] = "spawn" /\ p[3] = "enter" /\ p[4] = "names" /\ p[5] = "look"
    BY <2>1
  <2>5. \A i \in 1..Len(p) - 1 : i = 1 \/ i = 2 \/ i = 3 \/ i = 4
    BY <2>3
  <2>6. \A i \in DOMAIN p : i = 1 \/ i = 2 \/ i = 3 \/ i = 4 \/ i = 5
    BY <2>3
  <2>7. \A i \in 1..Len(p) - 1 : <<p[i], p[i + 1]>> \in Follows
    BY <2>4, <2>5 DEF Follows
  <2> QED
    BY <1>1, <2>2, <2>3, <2>4, <2>6, <2>7 DEF PlanOK, StartParts
<1>2. CASE t = "stop"
  <2>1. p = <<"names", "take">>
    BY <1>2 DEF FakeNetworks!Plan
  <2>2. p \in Seq(Parts)
    BY <2>1 DEF Parts
  <2>3. Len(p) = 2 /\ DOMAIN p = 1..2
    BY <2>1
  <2>4. p[1] = "names" /\ p[2] = "take"
    BY <2>1
  <2>5. \A i \in 1..Len(p) - 1 : i = 1
    BY <2>3
  <2>6. \A i \in DOMAIN p : i = 1 \/ i = 2
    BY <2>3
  <2>7. \A i \in 1..Len(p) - 1 : <<p[i], p[i + 1]>> \in Follows
    BY <2>4, <2>5 DEF Follows
  <2> QED
    BY <1>2, <2>2, <2>3, <2>4, <2>6, <2>7 DEF PlanOK, StartParts
<1>3. CASE t = "restart"
  <2>1. p = <<"lookup", "names", "take", "spawn", "enter", "names", "look", "names", "look">>
    BY <1>3 DEF FakeNetworks!Plan
  <2>2. p \in Seq(Parts)
    BY <2>1 DEF Parts
  <2>3. Len(p) = 9 /\ DOMAIN p = 1..9
    BY <2>1
  <2>4. p[1] = "lookup" /\ p[2] = "names" /\ p[3] = "take" /\ p[4] = "spawn" /\ p[5] = "enter" /\ p[6] = "names" /\ p[7] = "look" /\ p[8] = "names" /\ p[9] = "look"
    BY <2>1
  <2>5. \A i \in 1..Len(p) - 1 : i = 1 \/ i = 2 \/ i = 3 \/ i = 4 \/ i = 5 \/ i = 6 \/ i = 7 \/ i = 8
    BY <2>3
  <2>6. \A i \in DOMAIN p : i = 1 \/ i = 2 \/ i = 3 \/ i = 4 \/ i = 5 \/ i = 6 \/ i = 7 \/ i = 8 \/ i = 9
    BY <2>3
  <2>7. \A i \in 1..Len(p) - 1 : <<p[i], p[i + 1]>> \in Follows
    BY <2>4, <2>5 DEF Follows
  <2> QED
    BY <1>3, <2>2, <2>3, <2>4, <2>6, <2>7 DEF PlanOK, StartParts
<1>4. CASE t = "inspect"
  <2>1. p = <<"names", "look">>
    BY <1>4 DEF FakeNetworks!Plan
  <2>2. p \in Seq(Parts)
    BY <2>1 DEF Parts
  <2>3. Len(p) = 2 /\ DOMAIN p = 1..2
    BY <2>1
  <2>4. p[1] = "names" /\ p[2] = "look"
    BY <2>1
  <2>5. \A i \in 1..Len(p) - 1 : i = 1
    BY <2>3
  <2>6. \A i \in DOMAIN p : i = 1 \/ i = 2
    BY <2>3
  <2>7. \A i \in 1..Len(p) - 1 : <<p[i], p[i + 1]>> \in Follows
    BY <2>4, <2>5 DEF Follows
  <2> QED
    BY <1>4, <2>2, <2>3, <2>4, <2>6, <2>7 DEF PlanOK, StartParts
<1>5. CASE t = "inventory"
  <2>1. p = <<"names", "look">>
    BY <1>5 DEF FakeNetworks!Plan
  <2>2. p \in Seq(Parts)
    BY <2>1 DEF Parts
  <2>3. Len(p) = 2 /\ DOMAIN p = 1..2
    BY <2>1
  <2>4. p[1] = "names" /\ p[2] = "look"
    BY <2>1
  <2>5. \A i \in 1..Len(p) - 1 : i = 1
    BY <2>3
  <2>6. \A i \in DOMAIN p : i = 1 \/ i = 2
    BY <2>3
  <2>7. \A i \in 1..Len(p) - 1 : <<p[i], p[i + 1]>> \in Follows
    BY <2>4, <2>5 DEF Follows
  <2> QED
    BY <1>5, <2>2, <2>3, <2>4, <2>6, <2>7 DEF PlanOK, StartParts
<1>6. CASE t = "list"
  <2>1. p = <<"names">>
    BY <1>6 DEF FakeNetworks!Plan
  <2>2. p \in Seq(Parts)
    BY <2>1 DEF Parts
  <2>3. Len(p) = 1 /\ DOMAIN p = 1..1
    BY <2>1
  <2>4. p[1] = "names"
    BY <2>1
  <2> QED
    BY <1>6, <2>2, <2>3, <2>4 DEF PlanOK, StartParts
<1> QED
  BY <1>1, <1>2, <1>3, <1>4, <1>5, <1>6

(* What is left of a job's plan when a part of it is over.                 *)
Advanced(j, x) ==
  /\ network_plan' \in [Jobs -> Seq(Parts)]
  /\ network_outcome' \in [Jobs -> {"idle", "running", "done", "raised"}]
  /\ \A k \in Jobs \ {j} : network_plan'[k] = network_plan[k] /\ network_outcome'[k] = network_outcome[k]
  /\ network_plan'[j] # <<>> => <<x, network_plan'[j][1]>> \in Follows
  /\ x = "spawn" => Runs(j)'
  /\ Runs(j)' =>
       /\ PlanOK(network_plan'[j]) /\ network_plan'[j] # <<>>
       /\ \A i \in DOMAIN network_plan'[j] :
            network_plan'[j][i] \in StartParts => network_request[j].task \in {"start", "restart"}

LEMMA Advances ==
  ASSUME NetworksOK, NEW j \in Jobs, JobFits(j), NEW x, FakeNetworks!At(j, x), FakeNetworks!Go(j, <<>>)
  PROVE  Doing(j, x) /\ Runs(j) /\ Advanced(j, x)
<1>1. /\ Doing(j, x) /\ Runs(j) /\ network_plan[j] # <<>> /\ network_plan[j] \in Seq(Parts)
  BY DEF FakeNetworks!At, Doing, Runs, NetworksOK
<1>2. /\ PlanOK(network_plan[j])
      /\ \A i \in DOMAIN network_plan[j] :
           network_plan[j][i] \in StartParts => network_request[j].task \in {"start", "restart"}
  BY <1>1 DEF JobFits, PlanFits
<1>3. network_plan[j][1] = x
  BY <1>1 DEF Doing
<1>4. network_plan' = [network_plan EXCEPT ![j] = Tail(network_plan[j])]
  BY <1>1, <1>2, PlanRest DEF FakeNetworks!Go, NetworksOK
<1>5. /\ network_plan'[j] = Tail(network_plan[j]) /\ network_plan' \in [Jobs -> Seq(Parts)]
      /\ \A k \in Jobs \ {j} : network_plan'[k] = network_plan[k]
  BY <1>1, <1>2, <1>4, PlanRest DEF NetworksOK
<1>6. network_outcome' = [network_outcome EXCEPT ![j] = IF Len(network_plan[j]) = 1 THEN "done" ELSE @]
  BY DEF FakeNetworks!Go
<1>7. /\ network_outcome' \in [Jobs -> {"idle", "running", "done", "raised"}]
      /\ \A k \in Jobs \ {j} : network_outcome'[k] = network_outcome[k]
      /\ Runs(j)' <=> Len(network_plan[j]) # 1
  BY <1>1, <1>6 DEF NetworksOK, Runs
<1>8. network_plan'[j] # <<>> => <<x, network_plan'[j][1]>> \in Follows
  BY <1>1, <1>2, <1>3, <1>5, PlanRest
<1>9. ASSUME Runs(j)'
      PROVE  /\ PlanOK(network_plan'[j]) /\ network_plan'[j] # <<>>
             /\ \A i \in DOMAIN network_plan'[j] :
                  network_plan'[j][i] \in StartParts => network_request[j].task \in {"start", "restart"}
  <2> DEFINE p == network_plan[j]
  <2>1. p \in Seq(Parts) /\ p # <<>> /\ PlanOK(p) /\ Len(p) # 1
    BY <1>1, <1>2, <1>7, <1>9
  <2>2. Tail(p) # <<>> /\ PlanOK(Tail(p))
    BY <2>1, PlanRest
  <2>3. ASSUME NEW i \in DOMAIN Tail(p), Tail(p)[i] \in StartParts
        PROVE  network_request[j].task \in {"start", "restart"}
    <3>1. PICK k \in DOMAIN p : Tail(p)[i] = p[k]
      BY <2>1, <2>3, PlanRest
    <3> QED
      BY <1>2, <2>3, <3>1
  <2> HIDE DEF p
  <2> QED
    BY <1>5, <2>2, <2>3 DEF p
<1>10. x = "spawn" => Len(network_plan[j]) # 1
  BY <1>1, <1>2, <1>3 DEF PlanOK
<1> QED
  BY <1>1, <1>5, <1>7, <1>8, <1>9, <1>10 DEF Advanced

(* A job that looks again, or takes a network it has found.                *)
LEMMA Repeats ==
  ASSUME NetworksOK, NEW j \in Jobs, JobFits(j), NEW x \in {"take", "look"}, FakeNetworks!At(j, x)
  PROVE  /\ FakeNetworks!Go(j, <<x>>) => network_plan' = network_plan /\ network_outcome' = network_outcome
         /\ x = "take" /\ FakeNetworks!Go(j, <<"kill", "pop", "take">>) =>
              /\ network_outcome' = network_outcome
              /\ network_plan' \in [Jobs -> Seq(Parts)]
              /\ \A k \in Jobs \ {j} : network_plan'[k] = network_plan[k]
              /\ PlanOK(network_plan'[j]) /\ network_plan'[j] # <<>> /\ network_plan'[j][1] = "kill"
              /\ \A i \in DOMAIN network_plan'[j] :
                   network_plan'[j][i] \in StartParts => network_request[j].task \in {"start", "restart"}
<1> DEFINE p == network_plan[j]
           q == <<"kill", "pop", "take">> \o Tail(p)
<1>1. /\ Runs(j) /\ p # <<>> /\ p \in Seq(Parts) /\ p[1] = x /\ PlanOK(p)
      /\ \A i \in DOMAIN p : p[i] \in StartParts => network_request[j].task \in {"start", "restart"}
  BY DEF FakeNetworks!At, Runs, NetworksOK, JobFits, PlanFits
<1>2. /\ <<x>> \o Tail(p) = p
      /\ x = "take" => PlanOK(q) /\ q \in Seq(Parts)
      /\ \A i \in 1..Len(p) + 2 : i > 3 => q[i] = p[i - 2]
      /\ Len(q) = Len(p) + 2
  BY <1>1, PlanAgain
<1>3. ASSUME FakeNetworks!Go(j, <<x>>) PROVE network_plan' = network_plan /\ network_outcome' = network_outcome
  <2>1. <<x>> # <<>>
    OBVIOUS
  <2> QED
    BY <1>2, <1>3, <2>1 DEF FakeNetworks!Go, NetworksOK
<1>4. ASSUME x = "take", FakeNetworks!Go(j, <<"kill", "pop", "take">>)
      PROVE  /\ network_outcome' = network_outcome
             /\ network_plan' \in [Jobs -> Seq(Parts)]
             /\ \A k \in Jobs \ {j} : network_plan'[k] = network_plan[k]
             /\ network_plan'[j] = q
  <2>1. <<"kill", "pop", "take">> # <<>>
    OBVIOUS
  <2>2. network_plan' = [network_plan EXCEPT ![j] = q] /\ network_outcome' = network_outcome
    BY <1>4, <2>1 DEF FakeNetworks!Go, NetworksOK
  <2> QED
    BY <1>2, <1>4, <2>2 DEF NetworksOK
<1>5. q[1] = "kill" /\ q[2] = "pop" /\ q[3] = "take" /\ q # <<>> /\ DOMAIN q = 1..Len(p) + 2
  BY <1>1, <1>2
<1>6. \A i \in DOMAIN q : q[i] \in StartParts => network_request[j].task \in {"start", "restart"}
  <2> SUFFICES ASSUME NEW i \in DOMAIN q, q[i] \in StartParts PROVE network_request[j].task \in {"start", "restart"}
    OBVIOUS
  <2>1. i \notin 1..3
    <3>1. i \in 1..3 => i = 1 \/ i = 2 \/ i = 3
      BY <1>5
    <3> QED
      BY <1>5, <3>1 DEF StartParts
  <2>2. i - 2 \in DOMAIN p /\ q[i] = p[i - 2]
    BY <1>1, <1>2, <1>5, <2>1
  <2> QED
    BY <1>1, <2>2
<1> QED
  BY <1>2, <1>3, <1>4, <1>5, <1>6

(* A step of a job that works alone on its networks keeps the invariant,   *)
(* if it does so for that job and those networks.                          *)
Mine(j) ==
  /\ NetworksOK'
  /\ JobFits(j)'
  /\ \A n \in FakeNetworks!Of(j) \ careless' : TableIsTrue(n)'

LEMMA JobKeeps ==
  ASSUME NetworksAssumption, NetworksInv, part = "networks", part' = part, NEW j \in Jobs,
         Runs(j), Unaffected(j), careless' = careless, Mine(j)
  PROVE  NetworksInv'
<1>1. NetworksOK /\ Apart /\ (\A k \in Jobs : JobFits(k)) /\ \A n \in Networks \ careless : TableIsTrue(n)
  BY DEF NetworksInv
<1>2. Alone(j)
  BY <1>1 DEF Alone, Apart
<1>3. /\ \A k \in Jobs \ {j} : JobFits(k)'
      /\ \A n \in Networks \ (careless' \cup FakeNetworks!Of(j)) : TableIsTrue(n)'
  BY <1>1, <1>2, OthersFit
<1>4. \A k \in Jobs : FakeNetworks!Of(k)' = FakeNetworks!Of(k)
  BY DEF Unaffected, FakeNetworks!Of
<1>5. \A k \in Jobs : Runs(k)' => Runs(k)
  BY DEF Unaffected, Runs
<1>6. Apart'
  BY <1>1, <1>4, <1>5 DEF Apart
<1>7. (\A k \in Jobs : JobFits(k)') /\ \A n \in Networks \ careless' : TableIsTrue(n)'
  BY <1>3 DEF Mine
<1>8. Networks' = Networks
  OBVIOUS
<1> QED
  BY <1>6, <1>7 DEF NetworksInv, Mine

(* Whoever is not about to enter a network has it tidy.                    *)
LEMMA IsTidy ==
  ASSUME NetworksAssumption, NetworksInv, part = "networks", NEW j \in Jobs, Runs(j), ~Doing(j, "enter"),
         NEW n \in FakeNetworks!Of(j) \ careless
  PROVE  Tidy(n)
<1>1. NetworksOK /\ Apart /\ n \in Networks /\ TableIsTrue(n)
  BY OfNetworks DEF NetworksInv
<1>2. ASSUME NEW k \in Jobs, Doing(k, "enter"), network_request[k].network = n PROVE FALSE
  <2>1. k # j /\ Runs(k)
    BY <1>2 DEF Doing
  <2>2. n \in FakeNetworks!Of(k)
    BY <1>1, <1>2, OfNetworks
  <2> QED
    BY <1>1, <2>1, <2>2 DEF Apart
<1> QED
  BY <1>1, <1>2 DEF TableIsTrue, Entering

LEMMA StaysTidy ==
  ASSUME NetworksAssumption, NetworksInv, part = "networks", NEW j \in Jobs, Runs(j), ~Doing(j, "enter"),
         UNCHANGED <<networks, spawned, living, network_request, careless>>
  PROVE  \A n \in FakeNetworks!Of(j) \ careless' : TableIsTrue(n)'
<1> SUFFICES ASSUME NEW n \in FakeNetworks!Of(j) \ careless PROVE TableIsTrue(n)'
  OBVIOUS
<1>1. Tidy(n)
  BY IsTidy
<1>2. Tidy(n)'
  BY <1>1 DEF Tidy
<1> QED
  BY <1>2 DEF TableIsTrue

(* A job that raises has nothing in its hands.                             *)
LEMMA RaisingKeeps ==
  ASSUME NetworksAssumption, NetworksInv, part = "networks", part' = part, NEW j \in Jobs, Runs(j),
         ~Doing(j, "enter"), FakeNetworks!Raise(j),
         UNCHANGED <<networks, spawned, living, network_request, careless>>
  PROVE  NetworksInv'
<1>1. NetworksOK /\ JobFits(j)
  BY DEF NetworksInv
<1>2. NetworksOK'
  <2>1. <<>> \in Seq(Parts)
    OBVIOUS
  <2> QED
    BY <1>1, <2>1 DEF NetworksOK, FakeNetworks!Raise
<1>3. ~Runs(j)'
  BY <1>1 DEF NetworksOK, FakeNetworks!Raise, Runs
<1>4. Unaffected(j)
  BY <1>1 DEF Unaffected, NetworksOK, FakeNetworks!Raise
<1>5. Mine(j)
  BY <1>2, <1>3, StaysTidy DEF Mine, JobFits
<1> QED
  BY <1>4, <1>5, JobKeeps

LEMMA FetchKeeps ==
  ASSUME NetworksAssumption, NetworksInv, part = "networks", part' = part, NEW j \in Jobs, FakeNetworks!Fetch(j)
  PROVE  NetworksInv'
<1>1. /\ NetworksOK /\ JobFits(j) /\ Runs(j) /\ Doing(j, "fetch") /\ ~Doing(j, "enter")
      /\ UNCHANGED <<networks, spawned, living, network_request, careless>> /\ FakeNetworks!At(j, "fetch")
  BY DEF NetworksInv, FakeNetworks!Fetch, FakeNetworks!At, FakeNetworks!Keeps, FakeNetworks!table,
    Runs, Doing, NetworksOK
<1>2. CASE FakeNetworks!Raise(j)
  BY <1>1, <1>2, RaisingKeeps
<1>3. CASE FakeNetworks!Go(j, <<>>) /\ UNCHANGED <<names, entry>>
  <2>1. Advanced(j, "fetch")
    BY <1>1, <1>3, Advances
  <2>2. NetworksOK'
    BY <1>1, <1>3, <2>1 DEF NetworksOK, Advanced
  <2>3. Unaffected(j)
    BY <1>1, <1>3, <2>1 DEF Unaffected, Advanced
  <2>4. FakeNetworks!Of(j)' = FakeNetworks!Of(j)
    BY <1>1 DEF FakeNetworks!Of
  <2>5. PlanFits(j) /\ HandFits(j)
    BY <1>1 DEF JobFits
  <2>6. \A y : Doing(j, y)' => y = "spawn"
    BY <2>1 DEF Doing, Follows, Advanced
  <2>7. ASSUME NEW n \in FakeNetworks!Of(j) \ careless PROVE Holds(j, n)'
    <3>1. network_request[j].network = n => n \notin DOMAIN networks
      BY <1>1, <2>5 DEF HandFits, Holds
    <3> QED
      BY <1>1, <2>6, <3>1 DEF Holds
  <2>8. JobFits(j)'
    BY <1>1, <1>3, <2>1, <2>4, <2>5, <2>6, <2>7 DEF JobFits, PlanFits, HandFits, Advanced
  <2>9. Mine(j)
    BY <1>1, <2>2, <2>8, StaysTidy DEF Mine
  <2> QED
    BY <1>1, <2>3, <2>9, JobKeeps
<1> QED
  BY <1>2, <1>3 DEF FakeNetworks!Fetch

LEMMA LookupKeeps ==
  ASSUME NetworksAssumption, NetworksInv, part = "networks", part' = part, NEW j \in Jobs, FakeNetworks!Lookup(j)
  PROVE  NetworksInv'
<1>1. /\ NetworksOK /\ JobFits(j) /\ Runs(j) /\ Doing(j, "lookup") /\ ~Doing(j, "enter")
      /\ UNCHANGED <<networks, spawned, living, network_request, careless>> /\ FakeNetworks!At(j, "lookup")
  BY DEF NetworksInv, FakeNetworks!Lookup, FakeNetworks!At, FakeNetworks!Keeps, FakeNetworks!table,
    Runs, Doing, NetworksOK
<1>2. CASE FakeNetworks!Raise(j)
  BY <1>1, <1>2, RaisingKeeps
<1>3. CASE FakeNetworks!Go(j, <<>>) /\ UNCHANGED <<names, entry>>
  <2>1. Advanced(j, "lookup")
    BY <1>1, <1>3, Advances
  <2>2. NetworksOK'
    BY <1>1, <1>3, <2>1 DEF NetworksOK, Advanced
  <2>3. Unaffected(j)
    BY <1>1, <1>3, <2>1 DEF Unaffected, Advanced
  <2>4. FakeNetworks!Of(j)' = FakeNetworks!Of(j)
    BY <1>1 DEF FakeNetworks!Of
  <2>5. PlanFits(j)
    BY <1>1 DEF JobFits
  <2>6. \A y : Doing(j, y)' => y = "names"
    BY <2>1 DEF Doing, Follows, Advanced
  <2>7. JobFits(j)'
    BY <1>1, <1>3, <2>1, <2>4, <2>5, <2>6 DEF JobFits, PlanFits, HandFits, Holds, Advanced
  <2>8. Mine(j)
    BY <1>1, <2>2, <2>7, StaysTidy DEF Mine
  <2> QED
    BY <1>1, <2>3, <2>8, JobKeeps
<1> QED
  BY <1>2, <1>3 DEF FakeNetworks!Lookup

LEMMA NamesKeeps ==
  ASSUME NetworksAssumption, NetworksInv, part = "networks", part' = part, NEW j \in Jobs, FakeNetworks!Names(j)
  PROVE  NetworksInv'
<1>1. /\ NetworksOK /\ JobFits(j) /\ Runs(j) /\ Doing(j, "names") /\ ~Doing(j, "enter")
      /\ UNCHANGED <<networks, spawned, living, network_request, careless, entry>> /\ FakeNetworks!At(j, "names")
      /\ FakeNetworks!Go(j, <<>>)
  BY DEF NetworksInv, FakeNetworks!Names, FakeNetworks!At, FakeNetworks!Keeps, FakeNetworks!table,
    Runs, Doing, NetworksOK
<1>2. Advanced(j, "names")
  BY <1>1, Advances
<1>3. names'[j] \subseteq FakeNetworks!Of(j) /\ names'[j] \subseteq Networks
      /\ (network_request[j].network # NoValue => network_request[j].network \in names'[j])
      /\ \A k \in Jobs \ {j} : names'[k] = names[k]
  BY <1>1, OfNetworks DEF FakeNetworks!Names, FakeNetworks!Of, NetworksOK
<1>4. names' \in [Jobs -> SUBSET Networks]
  BY <1>1, <1>3 DEF FakeNetworks!Names, NetworksOK
<1>5. NetworksOK'
  BY <1>1, <1>2, <1>4 DEF NetworksOK, Advanced
<1>6. Unaffected(j)
  BY <1>1, <1>2, <1>3 DEF Unaffected, Advanced
<1>7. FakeNetworks!Of(j)' = FakeNetworks!Of(j)
  BY <1>1 DEF FakeNetworks!Of
<1>8. \A y : Doing(j, y)' => y \in {"look", "take"}
  BY <1>2 DEF Doing, Follows, Advanced
<1>9. ASSUME NEW n \in FakeNetworks!Of(j) \ careless PROVE Holds(j, n)'
  <2>1. network_request[j].network = n => n \in names'[j]
    BY <1>1, <1>3, OfNetworks DEF NetworksAssumption, FakeNetworks!RequestsAreNamed
  <2> QED
    BY <1>1, <1>8, <2>1 DEF Holds
<1>10. JobFits(j)'
  <2>1. ~Doing(j, "kill")' /\ ~Doing(j, "pop")' /\ ~Doing(j, "enter")'
    BY <1>8
  <2>2. HandFits(j)'
    BY <1>1, <1>3, <1>7, <1>9, <2>1 DEF HandFits
  <2>3. Runs(j)' => PlanFits(j)'
    BY <1>1, <1>2, <1>3, <1>7 DEF PlanFits, Advanced
  <2> QED
    BY <2>2, <2>3 DEF JobFits
<1>11. Mine(j)
  BY <1>1, <1>5, <1>10, StaysTidy DEF Mine
<1> QED
  BY <1>1, <1>6, <1>11, JobKeeps

LEMMA SpawnKeeps ==
  ASSUME NetworksAssumption, NetworksInv, part = "networks", part' = part, NEW j \in Jobs, FakeNetworks!Spawn(j)
  PROVE  NetworksInv'
<1> DEFINE n == network_request[j].network
           p == Len(spawned')
<1>1. /\ NetworksOK /\ JobFits(j) /\ Runs(j) /\ Doing(j, "spawn") /\ ~Doing(j, "enter")
      /\ UNCHANGED <<networks, names, network_request, careless>> /\ FakeNetworks!At(j, "spawn")
      /\ FakeNetworks!Go(j, <<>>)
      /\ spawned' = Append(spawned, n) /\ living' = living \cup {p} /\ entry' = [entry EXCEPT ![j] = <<n, p>>]
  BY DEF NetworksInv, FakeNetworks!Spawn, FakeNetworks!At, FakeNetworks!Keeps, FakeNetworks!table,
    Runs, Doing, NetworksOK
<1>2. Advanced(j, "spawn") /\ Runs(j)'
  BY <1>1, Advances DEF Advanced
<1>3. PlanFits(j) /\ HandFits(j)
  BY <1>1 DEF JobFits
<1>4. n \in Networks /\ FakeNetworks!Of(j) = {n}
  <2>1. 1 \in DOMAIN network_plan[j] /\ network_plan[j][1] = "spawn"
    BY <1>1 DEF Doing, NetworksOK
  <2>2. network_request[j].task \in {"start", "restart"}
    BY <1>3, <2>1 DEF PlanFits, StartParts
  <2> QED
    BY <1>1, <2>2, OfNetworks
<1>5. /\ spawned' \in Seq(Networks) /\ p \in Nat /\ p = Len(spawned) + 1 /\ p \notin DOMAIN spawned /\ p \in DOMAIN spawned'
      /\ spawned'[p] = n /\ \A i \in DOMAIN spawned : i \in DOMAIN spawned' /\ spawned'[i] = spawned[i]
  BY <1>1, <1>4 DEF NetworksOK
<1>6. NetworksOK'
  BY <1>1, <1>2, <1>5 DEF NetworksOK, Advanced
<1>7. /\ entry'[j] = <<n, p>> /\ entry'[j][1] = n /\ entry'[j][2] = p
      /\ \A k \in Jobs \ {j} : entry'[k] = entry[k]
  BY <1>1 DEF NetworksOK
<1>8. Unaffected(j)
  <2>1. \A m \in Networks \ {n} : \A q \in living' : spawned'[q] = m => q \in living /\ spawned[q] = m
    BY <1>1, <1>5 DEF NetworksOK
  <2> QED
    BY <1>1, <1>2, <1>4, <1>7, <2>1 DEF Unaffected, Advanced
<1>9. FakeNetworks!Of(j)' = FakeNetworks!Of(j)
  BY <1>1 DEF FakeNetworks!Of
<1>10. Doing(j, "enter")' /\ \A y : Doing(j, y)' => y = "enter"
  BY <1>2 DEF Doing, Follows, Advanced
<1>11. ASSUME n \notin careless PROVE Holds(j, n)'
  <2>1. n \notin DOMAIN networks
    BY <1>1, <1>3, <1>4, <1>11 DEF HandFits, Holds
  <2>2. Tidy(n)
    BY <1>1, <1>4, <1>11, IsTidy
  <2>3. \A q \in living' : spawned'[q] = n => q = p
    BY <1>1, <1>5, <2>1, <2>2 DEF Tidy, NetworksOK
  <2> QED
    BY <1>1, <1>7, <1>10, <2>1, <2>3 DEF Holds
<1>12. JobFits(j)'
  BY <1>1, <1>2, <1>3, <1>4, <1>5, <1>7, <1>9, <1>10, <1>11 DEF JobFits, PlanFits, HandFits,
    Advanced
<1>13. TableIsTrue(n)'
  BY <1>1, <1>10 DEF TableIsTrue, Entering
<1>14. Mine(j)
  BY <1>1, <1>4, <1>6, <1>12, <1>13 DEF Mine
<1> QED
  BY <1>1, <1>8, <1>14, JobKeeps

LEMMA EnterKeeps ==
  ASSUME NetworksAssumption, NetworksInv, part = "networks", part' = part, NEW j \in Jobs, FakeNetworks!Enter(j)
  PROVE  NetworksInv'
<1> DEFINE n == network_request[j].network
<1>1. /\ NetworksOK /\ JobFits(j) /\ Runs(j) /\ Doing(j, "enter")
      /\ UNCHANGED <<spawned, living, names, network_request, careless>> /\ FakeNetworks!At(j, "enter")
      /\ FakeNetworks!Go(j, <<>>)
      /\ networks' = [m \in DOMAIN networks \cup {n} |-> IF m = n THEN entry[j][2] ELSE networks[m]]
      /\ entry' = [entry EXCEPT ![j] = NoValue]
  BY DEF NetworksInv, FakeNetworks!Enter, FakeNetworks!At, FakeNetworks!Keeps, FakeNetworks!table,
    Runs, Doing, NetworksOK
<1>2. Advanced(j, "enter")
  BY <1>1, Advances DEF Advanced
<1>3. PlanFits(j) /\ HandFits(j)
  BY <1>1 DEF JobFits
<1>4. n \in Networks /\ FakeNetworks!Of(j) = {n}
  <2>1. 1 \in DOMAIN network_plan[j] /\ network_plan[j][1] = "enter"
    BY <1>1 DEF Doing, NetworksOK
  <2>2. network_request[j].task \in {"start", "restart"}
    BY <1>3, <2>1 DEF PlanFits, StartParts
  <2> QED
    BY <1>1, <2>2, OfNetworks
<1>5. entry[j][2] \in Nat
  BY <1>1, <1>3 DEF HandFits
<1>6. /\ networks' \in [DOMAIN networks' -> Nat] /\ DOMAIN networks' \subseteq Networks
      /\ n \in DOMAIN networks' /\ networks'[n] = entry[j][2]
      /\ \A m \in Networks \ {n} : /\ m \in DOMAIN networks' <=> m \in DOMAIN networks
                                   /\ m \in DOMAIN networks => networks'[m] = networks[m]
  BY <1>1, <1>4, <1>5 DEF NetworksOK
<1>7. NetworksOK'
  BY <1>1, <1>2, <1>6 DEF NetworksOK, Advanced
<1>8. Unaffected(j)
  BY <1>1, <1>2, <1>4, <1>6 DEF Unaffected, Advanced, NetworksOK
<1>9. FakeNetworks!Of(j)' = FakeNetworks!Of(j)
  BY <1>1 DEF FakeNetworks!Of
<1>10. \A y : Doing(j, y)' => y = "names"
  BY <1>2 DEF Doing, Follows, Advanced
<1>11. JobFits(j)'
  BY <1>1, <1>2, <1>3, <1>9, <1>10 DEF JobFits, PlanFits, HandFits, Holds, Advanced
<1>12. ASSUME n \notin careless PROVE TableIsTrue(n)'
  <2>1. \A p \in living : spawned[p] = n => p = entry[j][2]
    BY <1>1, <1>3, <1>4, <1>12 DEF HandFits, Holds
  <2>2. Tidy(n)'
    BY <1>1, <1>6, <2>1 DEF Tidy
  <2> QED
    BY <1>1, <2>2 DEF TableIsTrue
<1>13. Mine(j)
  BY <1>1, <1>4, <1>7, <1>11, <1>12 DEF Mine
<1> QED
  BY <1>1, <1>8, <1>13, JobKeeps

LEMMA TakeKeeps ==
  ASSUME NetworksAssumption, NetworksInv, part = "networks", part' = part, NEW j \in Jobs, FakeNetworks!Take(j)
  PROVE  NetworksInv'
<1>1. /\ NetworksOK /\ JobFits(j) /\ Runs(j) /\ Doing(j, "take") /\ ~Doing(j, "enter")
      /\ UNCHANGED <<networks, spawned, living, network_request, careless>> /\ FakeNetworks!At(j, "take")
  BY DEF NetworksInv, FakeNetworks!Take, FakeNetworks!At, FakeNetworks!Keeps, FakeNetworks!table,
    Runs, Doing, NetworksOK
<1>2. PlanFits(j) /\ HandFits(j)
  BY <1>1 DEF JobFits
<1>3. FakeNetworks!Of(j)' = FakeNetworks!Of(j)
  BY <1>1 DEF FakeNetworks!Of
<1>4. \A n \in FakeNetworks!Of(j) \ careless :
        network_request[j].network = n /\ n \in DOMAIN networks => n \in names[j]
  BY <1>1, <1>2 DEF HandFits, Holds
<1>5. CASE names[j] = {} /\ FakeNetworks!Go(j, <<>>) /\ UNCHANGED <<names, entry>>
  <2>1. Advanced(j, "take")
    BY <1>1, <1>5, Advances
  <2>2. NetworksOK'
    BY <1>1, <1>5, <2>1 DEF NetworksOK, Advanced
  <2>3. Unaffected(j)
    BY <1>1, <1>5, <2>1 DEF Unaffected, Advanced
  <2>4. \A y : Doing(j, y)' => y = "spawn"
    BY <2>1 DEF Doing, Follows, Advanced
  <2>5. ASSUME NEW n \in FakeNetworks!Of(j) \ careless PROVE Holds(j, n)'
    <3>1. network_request[j].network = n => n \notin DOMAIN networks
      BY <1>4, <1>5
    <3> QED
      BY <1>1, <2>4, <3>1 DEF Holds
  <2>6. JobFits(j)'
    BY <1>1, <1>2, <1>3, <1>5, <2>1, <2>4, <2>5 DEF JobFits, PlanFits, HandFits, Advanced
  <2>7. Mine(j)
    BY <1>1, <2>2, <2>6, StaysTidy DEF Mine
  <2> QED
    BY <1>1, <2>3, <2>7, JobKeeps
<1>6. ASSUME NEW m \in names[j], m \notin DOMAIN networks, names' = [names EXCEPT ![j] = @ \ {m}],
             FakeNetworks!Go(j, <<"take">>), entry' = entry
      PROVE  NetworksInv'
  <2>1. network_plan' = network_plan /\ network_outcome' = network_outcome
    BY <1>1, <1>6, Repeats
  <2>2. NetworksOK' /\ names'[j] = names[j] \ {m} /\ \A k \in Jobs \ {j} : names'[k] = names[k]
    BY <1>1, <1>6, <2>1 DEF NetworksOK
  <2>3. Unaffected(j)
    BY <1>1, <1>6, <2>1, <2>2 DEF Unaffected
  <2>4. \A y : Doing(j, y)' => y = "take"
    BY <1>1, <2>1 DEF Doing
  <2>5. ASSUME NEW n \in FakeNetworks!Of(j) \ careless PROVE Holds(j, n)'
    <3>1. network_request[j].network = n /\ n \in DOMAIN networks => n \in names'[j]
      BY <1>4, <1>6, <2>2
    <3> QED
      BY <1>1, <2>4, <3>1 DEF Holds
  <2>6. JobFits(j)'
    BY <1>1, <1>2, <1>3, <2>1, <2>2, <2>4, <2>5 DEF JobFits, PlanFits, HandFits
  <2>7. Mine(j)
    BY <1>1, <2>2, <2>6, StaysTidy DEF Mine
  <2> QED
    BY <1>1, <2>3, <2>7, JobKeeps
<1>7. ASSUME NEW m \in names[j], m \in DOMAIN networks, names' = [names EXCEPT ![j] = @ \ {m}],
             FakeNetworks!Go(j, <<"kill", "pop", "take">>), entry' = [entry EXCEPT ![j] = <<m, networks[m]>>]
      PROVE  NetworksInv'
  <2>1. /\ network_outcome' = network_outcome /\ network_plan' \in [Jobs -> Seq(Parts)]
        /\ \A k \in Jobs \ {j} : network_plan'[k] = network_plan[k]
        /\ PlanOK(network_plan'[j]) /\ network_plan'[j] # <<>> /\ network_plan'[j][1] = "kill"
        /\ \A i \in DOMAIN network_plan'[j] :
             network_plan'[j][i] \in StartParts => network_request[j].task \in {"start", "restart"}
    BY <1>1, <1>7, Repeats
  <2>2. /\ NetworksOK' /\ names'[j] = names[j] \ {m} /\ \A k \in Jobs \ {j} : names'[k] = names[k]
        /\ entry'[j] = <<m, networks[m]>> /\ \A k \in Jobs \ {j} : entry'[k] = entry[k]
    BY <1>1, <1>7, <2>1 DEF NetworksOK
  <2>3. entry'[j][1] = m /\ entry'[j][2] = networks[m] /\ m \in FakeNetworks!Of(j)
    BY <1>1, <1>2, <1>7, <2>2 DEF HandFits
  <2>4. Unaffected(j)
    BY <1>1, <2>1, <2>2 DEF Unaffected
  <2>5. \A y : Doing(j, y)' => y = "kill"
    BY <2>1 DEF Doing
  <2>6. ASSUME NEW n \in FakeNetworks!Of(j) \ careless PROVE Holds(j, n)'
    BY <1>1, <1>7, <2>3, <2>5 DEF Holds
  <2>7. JobFits(j)'
    BY <1>1, <1>2, <1>3, <2>1, <2>2, <2>3, <2>5, <2>6 DEF JobFits, PlanFits, HandFits
  <2>8. Mine(j)
    BY <1>1, <2>2, <2>7, StaysTidy DEF Mine
  <2> QED
    BY <1>1, <2>4, <2>8, JobKeeps
<1> QED
  BY <1>5, <1>6, <1>7 DEF FakeNetworks!Take

LEMMA KillKeeps ==
  ASSUME NetworksAssumption, NetworksInv, part = "networks", part' = part, NEW j \in Jobs, FakeNetworks!Kill(j)
  PROVE  NetworksInv'
<1>1. /\ NetworksOK /\ JobFits(j) /\ Runs(j) /\ Doing(j, "kill") /\ ~Doing(j, "enter")
      /\ UNCHANGED <<networks, spawned, names, entry, network_request, careless>> /\ FakeNetworks!At(j, "kill")
      /\ FakeNetworks!Go(j, <<>>)
  BY DEF NetworksInv, FakeNetworks!Kill, FakeNetworks!At, FakeNetworks!Keeps, Runs, Doing,
    NetworksOK
<1>2. living' = living \ {entry[j][2]}
  BY DEF FakeNetworks!Kill, FakeNetworks!Killed
<1>3. PlanFits(j) /\ HandFits(j)
  BY <1>1 DEF JobFits
<1>4. Advanced(j, "kill")
  BY <1>1, Advances
<1>5. NetworksOK'
  BY <1>1, <1>2, <1>4 DEF NetworksOK, Advanced
<1>6. Unaffected(j)
  BY <1>1, <1>2, <1>4 DEF Unaffected, Advanced
<1>7. FakeNetworks!Of(j)' = FakeNetworks!Of(j)
  BY <1>1 DEF FakeNetworks!Of
<1>8. \A y : Doing(j, y)' => y = "pop"
  BY <1>4 DEF Doing, Follows, Advanced
<1>9. ASSUME NEW n \in FakeNetworks!Of(j) \ careless PROVE Holds(j, n)' /\ TableIsTrue(n)'
  <2>1. Tidy(n)
    BY <1>1, IsTidy
  <2>2. Tidy(n)'
    BY <1>1, <1>2, <2>1 DEF Tidy
  <2>3. entry[j][1] = n => n \in DOMAIN networks /\ entry[j][2] = networks[n]
    BY <1>1, <1>3 DEF HandFits, Holds
  <2>4. entry[j][1] = n => \A p \in living' : spawned[p] # n
    BY <1>2, <2>1, <2>3 DEF Tidy
  <2>5. Holds(j, n)'
    BY <1>1, <1>8, <2>4 DEF Holds
  <2> QED
    BY <2>2, <2>5 DEF TableIsTrue
<1>10. entry[j][1] \in FakeNetworks!Of(j)
  BY <1>1, <1>3 DEF HandFits
<1>11. JobFits(j)'
  BY <1>1, <1>3, <1>4, <1>7, <1>8, <1>9, <1>10 DEF JobFits, PlanFits, HandFits, Advanced
<1>12. Mine(j)
  BY <1>1, <1>5, <1>9, <1>11 DEF Mine
<1> QED
  BY <1>1, <1>6, <1>12, JobKeeps

LEMMA PopKeeps ==
  ASSUME NetworksAssumption, NetworksInv, part = "networks", part' = part, NEW j \in Jobs, FakeNetworks!Pop(j)
  PROVE  NetworksInv'
<1> DEFINE m == entry[j][1]
<1>1. /\ NetworksOK /\ JobFits(j) /\ Runs(j) /\ Doing(j, "pop") /\ ~Doing(j, "enter")
      /\ UNCHANGED <<living, spawned, names, network_request, careless>> /\ FakeNetworks!At(j, "pop")
      /\ FakeNetworks!Go(j, <<>>) /\ entry' = [entry EXCEPT ![j] = NoValue]
  BY DEF NetworksInv, FakeNetworks!Pop, FakeNetworks!At, FakeNetworks!Keeps, Runs, Doing, NetworksOK
<1>2. /\ DOMAIN networks' = DOMAIN networks \ {m}
      /\ \A n \in DOMAIN networks \ {m} : networks'[n] = networks[n]
      /\ networks' \in [DOMAIN networks' -> Nat]
  BY <1>1 DEF FakeNetworks!Pop, FakeNetworks!Restrict, NetworksOK
<1>3. PlanFits(j) /\ HandFits(j)
  BY <1>1 DEF JobFits
<1>4. Advanced(j, "pop")
  BY <1>1, Advances
<1>5. m \in FakeNetworks!Of(j)
  BY <1>1, <1>3 DEF HandFits
<1>6. NetworksOK'
  BY <1>1, <1>2, <1>4 DEF NetworksOK, Advanced
<1>7. Unaffected(j)
  BY <1>1, <1>2, <1>4, <1>5 DEF Unaffected, Advanced, NetworksOK
<1>8. FakeNetworks!Of(j)' = FakeNetworks!Of(j)
  BY <1>1 DEF FakeNetworks!Of
<1>9. \A y : Doing(j, y)' => y = "take"
  BY <1>4 DEF Doing, Follows, Advanced
<1>10. ASSUME NEW n \in FakeNetworks!Of(j) \ careless PROVE Holds(j, n)' /\ TableIsTrue(n)'
  <2>1. Tidy(n)
    BY <1>1, IsTidy
  <2>2. n = m => \A p \in living : spawned[p] # n
    BY <1>1, <1>3, <1>10 DEF HandFits, Holds
  <2>3. Tidy(n)'
    BY <1>1, <1>2, <2>1, <2>2 DEF Tidy
  <2>4. network_request[j].network = n => n = m
    BY <1>1, <1>5, <1>10, OfNetworks
  <2>5. network_request[j].network = n => n \notin DOMAIN networks'
    BY <1>2, <2>4
  <2>6. Holds(j, n)'
    BY <1>1, <1>9, <2>5 DEF Holds
  <2> QED
    BY <2>3, <2>6 DEF TableIsTrue
<1>11. JobFits(j)'
  BY <1>1, <1>3, <1>4, <1>8, <1>9, <1>10 DEF JobFits, PlanFits, HandFits, Advanced
<1>12. Mine(j)
  BY <1>1, <1>6, <1>10, <1>11 DEF Mine
<1> QED
  BY <1>1, <1>7, <1>12, JobKeeps

LEMMA LookKeeps ==
  ASSUME NetworksAssumption, NetworksInv, part = "networks", part' = part, NEW j \in Jobs, FakeNetworks!Look(j)
  PROVE  NetworksInv'
<1>1. /\ NetworksOK /\ JobFits(j) /\ Runs(j) /\ Doing(j, "look") /\ ~Doing(j, "enter")
      /\ UNCHANGED <<networks, spawned, living, network_request, careless>> /\ FakeNetworks!At(j, "look")
  BY DEF NetworksInv, FakeNetworks!Look, FakeNetworks!At, FakeNetworks!Keeps, FakeNetworks!table,
    Runs, Doing, NetworksOK
<1>2. PlanFits(j) /\ HandFits(j)
  BY <1>1 DEF JobFits
<1>3. FakeNetworks!Of(j)' = FakeNetworks!Of(j)
  BY <1>1 DEF FakeNetworks!Of
<1>4. CASE FakeNetworks!Raise(j)
  BY <1>1, <1>4, RaisingKeeps
<1>5. CASE FakeNetworks!Go(j, <<>>) /\ UNCHANGED <<names, entry>>
  <2>1. Advanced(j, "look")
    BY <1>1, <1>5, Advances
  <2>2. NetworksOK'
    BY <1>1, <1>5, <2>1 DEF NetworksOK, Advanced
  <2>3. Unaffected(j)
    BY <1>1, <1>5, <2>1 DEF Unaffected, Advanced
  <2>4. \A y : Doing(j, y)' => y = "names"
    BY <2>1 DEF Doing, Follows, Advanced
  <2>5. JobFits(j)'
    BY <1>1, <1>2, <1>3, <1>5, <2>1, <2>4 DEF JobFits, PlanFits, HandFits, Holds, Advanced
  <2>6. Mine(j)
    BY <1>1, <2>2, <2>5, StaysTidy DEF Mine
  <2> QED
    BY <1>1, <2>3, <2>6, JobKeeps
<1>6. ASSUME NEW n \in names[j], names' = [names EXCEPT ![j] = @ \ {n}], FakeNetworks!Go(j, <<"look">>), entry' = entry
      PROVE  NetworksInv'
  <2>1. network_plan' = network_plan /\ network_outcome' = network_outcome
    BY <1>1, <1>6, Repeats
  <2>2. NetworksOK' /\ names'[j] = names[j] \ {n} /\ \A k \in Jobs \ {j} : names'[k] = names[k]
    BY <1>1, <1>6, <2>1 DEF NetworksOK
  <2>3. Unaffected(j)
    BY <1>1, <1>6, <2>1, <2>2 DEF Unaffected
  <2>4. \A y : Doing(j, y)' => y = "look"
    BY <1>1, <2>1 DEF Doing
  <2>5. JobFits(j)'
    BY <1>1, <1>2, <1>3, <2>1, <2>2, <2>4 DEF JobFits, PlanFits, HandFits, Holds
  <2>6. Mine(j)
    BY <1>1, <2>2, <2>5, StaysTidy DEF Mine
  <2> QED
    BY <1>1, <2>3, <2>6, JobKeeps
<1> QED
  BY <1>4, <1>5, <1>6 DEF FakeNetworks!Look

(* A job that starts makes careless what another is working on.            *)
LEMMA StartKeeps ==
  ASSUME NetworksAssumption, NetworksInv, part = "networks", part' = part, NEW j \in Jobs, FakeNetworks!Start(j)
  PROVE  NetworksInv'
<1> DEFINE others == {k \in FakeNetworks!Running : FakeNetworks!Of(k) \cap FakeNetworks!Of(j) # {}}
           twice == IF network_request[j].task = "start" THEN FakeNetworks!Of(j) \cap DOMAIN networks ELSE {}
           p == FakeNetworks!Plan(network_request[j].task)
<1>1. /\ NetworksOK /\ Apart /\ (\A k \in Jobs : JobFits(k)) /\ \A n \in Networks \ careless : TableIsTrue(n)
  BY DEF NetworksInv
<1>2. /\ network_outcome[j] = "idle" /\ network_outcome' = [network_outcome EXCEPT ![j] = "running"]
      /\ network_plan' = [network_plan EXCEPT ![j] = p]
      /\ careless' = careless \cup twice \cup UNION {FakeNetworks!Of(k) \cap FakeNetworks!Of(j) : k \in others}
      /\ UNCHANGED <<networks, spawned, living, network_request, entry>> /\ names' = names
  BY DEF FakeNetworks!Start, FakeNetworks!table
<1>3. network_request[j].task \in {"start", "stop", "restart", "inspect", "inventory", "list"}
  BY <1>1 DEF NetworksOK, NetworksAssumption, FakeNetworks!RequestsAreNamed
<1>4. /\ PlanOK(p) /\ p # <<>> /\ p[1] \in {"fetch", "names", "lookup"} /\ (p[1] = "fetch" => network_request[j].task = "start")
      /\ \A i \in DOMAIN p : p[i] \in StartParts => network_request[j].task \in {"start", "restart"}
  BY <1>3, PlanBegins
<1>5. /\ network_plan'[j] = p /\ network_outcome'[j] = "running"
      /\ \A k \in Jobs \ {j} : network_plan'[k] = network_plan[k] /\ network_outcome'[k] = network_outcome[k]
  BY <1>1, <1>2 DEF NetworksOK
<1>6. \A k \in Jobs : FakeNetworks!Of(k) \subseteq Networks /\ FakeNetworks!Of(k)' = FakeNetworks!Of(k)
  BY <1>1, <1>2, OfNetworks DEF FakeNetworks!Of
<1>7. careless \subseteq careless' /\ twice \subseteq careless' /\ careless' \subseteq Networks
  BY <1>1, <1>2, <1>6 DEF NetworksOK
<1>8. ASSUME NEW k \in Jobs \ {j}, Runs(k) PROVE FakeNetworks!Of(k) \cap FakeNetworks!Of(j) \subseteq careless'
  <2>1. k \in FakeNetworks!Running
    BY <1>8 DEF FakeNetworks!Running, Runs
  <2>2. CASE FakeNetworks!Of(k) \cap FakeNetworks!Of(j) # {}
    BY <1>2, <2>1, <2>2
  <2> QED
    BY <2>2
<1>9. NetworksOK'
  <2>1. network_plan' \in [Jobs -> Seq(Parts)]
    BY <1>1, <1>2, <1>4 DEF NetworksOK, PlanOK
  <2>2. network_outcome' \in [Jobs -> {"idle", "running", "done", "raised"}]
    BY <1>1, <1>2 DEF NetworksOK
  <2> QED
    BY <1>1, <1>2, <1>7, <2>1, <2>2 DEF NetworksOK
<1>10. Unaffected(j) /\ Alone(j)
  BY <1>2, <1>5, <1>7, <1>8 DEF Unaffected, Alone
<1>11. /\ \A k \in Jobs \ {j} : JobFits(k)'
       /\ \A n \in Networks \ (careless' \cup FakeNetworks!Of(j)) : TableIsTrue(n)'
  BY <1>1, <1>10, OthersFit
<1>12. Apart'
  <2> SUFFICES ASSUME NEW k \in Jobs, NEW l \in Jobs, k # l, Runs(k)', Runs(l)'
               PROVE  FakeNetworks!Of(k) \cap FakeNetworks!Of(l) \subseteq careless'
    BY <1>6 DEF Apart
  <2>1. (k # j => Runs(k)) /\ (l # j => Runs(l))
    BY <1>5 DEF Runs
  <2> QED
    BY <1>1, <1>7, <1>8, <2>1 DEF Apart
<1>13. ~Doing(j, "enter")' /\ ~Doing(j, "spawn")' /\ ~Doing(j, "kill")' /\ ~Doing(j, "pop")' /\ ~Doing(j, "take")'
       /\ (Doing(j, "fetch")' => network_request[j].task = "start")
  BY <1>4, <1>5 DEF Doing
<1>14. ASSUME NEW n \in FakeNetworks!Of(j) \ careless' PROVE Holds(j, n)' /\ TableIsTrue(n)'
  <2>1. TableIsTrue(n) /\ n \in Networks
    BY <1>1, <1>6, <1>7
  <2>2. ~Entering(n)
    <3> SUFFICES ASSUME NEW k \in Jobs, Doing(k, "enter"), network_request[k].network = n PROVE FALSE
      BY DEF Entering
    <3>1. k # j /\ Runs(k)
      BY <1>2 DEF Doing, Runs
    <3>2. n \in FakeNetworks!Of(k)
      BY <1>1, <2>1, OfNetworks
    <3> QED
      BY <1>8, <3>1, <3>2
  <2>3. Tidy(n)'
    BY <1>2, <2>1, <2>2 DEF TableIsTrue, Tidy
  <2>4. Doing(j, "fetch")' => n \notin DOMAIN networks
    BY <1>7, <1>13
  <2>5. Holds(j, n)'
    BY <1>2, <1>13, <2>4 DEF Holds
  <2> QED
    BY <2>3, <2>5 DEF TableIsTrue
<1>15. JobFits(j)'
  <2>1. PlanFits(j)'
    BY <1>2, <1>4, <1>5 DEF PlanFits
  <2>2. ~Doing(j, "look")'
    BY <1>4, <1>5 DEF Doing
  <2>3. HandFits(j)'
    BY <1>6, <1>13, <1>14, <2>2 DEF HandFits
  <2> QED
    BY <2>1, <2>3 DEF JobFits
<1>16. (\A k \in Jobs : JobFits(k)') /\ \A n \in Networks \ careless' : TableIsTrue(n)'
  BY <1>11, <1>14, <1>15
<1>17. Networks' = Networks
  OBVIOUS
<1> QED
  BY <1>9, <1>12, <1>16, <1>17 DEF NetworksInv

(* A process that ends by itself was in the table, or will be missed there. *)
LEMMA DiesKeeps ==
  ASSUME NetworksAssumption, NetworksInv, part = "networks", part' = part, FakeNetworks!Dies
  PROVE  NetworksInv'
<1>1. NetworksOK /\ Apart /\ (\A j \in Jobs : JobFits(j)) /\ \A n \in Networks \ careless : TableIsTrue(n)
  BY DEF NetworksInv
<1>2. /\ UNCHANGED <<networks, spawned, network_request, network_plan, names, entry, network_outcome, careless>>
      /\ living' \subseteq living
  BY DEF FakeNetworks!Dies
<1>3. NetworksOK' /\ Apart'
  BY <1>1, <1>2 DEF NetworksOK, Apart, Runs, FakeNetworks!Of
<1>4. ASSUME NEW j \in Jobs PROVE JobFits(j)'
  <2>1. /\ Runs(j)' <=> Runs(j)
        /\ \A x : Doing(j, x)' <=> Doing(j, x)
        /\ FakeNetworks!Of(j)' = FakeNetworks!Of(j)
    BY <1>2 DEF FakeNetworks!Of, Runs, Doing
  <2> SUFFICES ASSUME Runs(j)' PROVE PlanFits(j)' /\ HandFits(j)'
    BY DEF JobFits
  <2>2. PlanFits(j) /\ HandFits(j)
    BY <1>1, <2>1 DEF JobFits
  <2>3. PlanFits(j)'
    BY <1>2, <2>2 DEF PlanFits
  <2>4. ASSUME NEW n, Holds(j, n) PROVE Holds(j, n)'
    BY <1>2, <2>1, <2>4 DEF Holds
  <2>5. HandFits(j)'
    BY <1>2, <2>1, <2>2, <2>4 DEF HandFits
  <2> QED
    BY <2>3, <2>5
<1>5. ASSUME NEW n, TableIsTrue(n) PROVE TableIsTrue(n)'
  <2>1. Entering(n) => Entering(n)'
    BY <1>2 DEF Entering, Doing, Runs
  <2>2. Tidy(n) => Tidy(n)'
    BY <1>2 DEF Tidy
  <2> QED
    BY <1>5, <2>1, <2>2 DEF TableIsTrue
<1>6. (\A j \in Jobs : JobFits(j)') /\ \A n \in Networks \ careless' : TableIsTrue(n)'
  BY <1>1, <1>2, <1>4, <1>5
<1>7. Networks' = Networks /\ Jobs' = Jobs
  OBVIOUS
<1> QED
  BY <1>3, <1>6, <1>7 DEF NetworksInv

(* The end of the worker finds no job that runs, so that every process is  *)
(* in the table.                                                           *)
LEMMA WorkerExitKeeps ==
  ASSUME NetworksAssumption, NetworksInv, part = "networks", part' = part, FakeNetworks!WorkerExit
  PROVE  NetworksInv'
<1>1. NetworksOK /\ Apart /\ (\A j \in Jobs : JobFits(j)) /\ \A n \in Networks \ careless : TableIsTrue(n)
  BY DEF NetworksInv
<1>2. /\ UNCHANGED <<spawned, network_request, network_plan, names, entry, network_outcome, careless>>
      /\ networks' = <<>> /\ living' = living \ FakeNetworks!Range(networks)
      /\ FakeNetworks!Running = {}
  BY DEF FakeNetworks!WorkerExit
<1>3. \A j \in Jobs : ~Runs(j) /\ ~Runs(j)' /\ ~Doing(j, "enter")
  BY <1>2 DEF FakeNetworks!Running, Runs, Doing
<1>4. DOMAIN networks' = {} /\ networks' \in [DOMAIN networks' -> Nat]
  BY <1>2
<1>5. NetworksOK' /\ Apart' /\ \A j \in Jobs : JobFits(j)'
  BY <1>1, <1>2, <1>3, <1>4 DEF NetworksOK, Apart, JobFits
<1>6. ASSUME NEW n \in Networks \ careless PROVE TableIsTrue(n)'
  <2>1. Tidy(n)
    BY <1>1, <1>3 DEF TableIsTrue, Entering
  <2>2. \A p \in living : spawned[p] = n => p \in FakeNetworks!Range(networks)
    BY <2>1 DEF Tidy, FakeNetworks!Range
  <2>3. Tidy(n)'
    BY <1>2, <2>2 DEF Tidy
  <2> QED
    BY <2>3 DEF TableIsTrue
<1>7. \A n \in Networks \ careless' : TableIsTrue(n)'
  BY <1>2, <1>6
<1>8. Networks' = Networks /\ Jobs' = Jobs
  OBVIOUS
<1> QED
  BY <1>5, <1>7, <1>8 DEF NetworksInv

(* The networks that have auto_start set have one process each.            *)
LEMMA NetworksBegin == ASSUME NetworksAssumption, part = "networks" => FakeNetworks!Init PROVE NetworksInv
<1> SUFFICES ASSUME part = "networks"
             PROVE  NetworksOK /\ Apart /\ (\A j \in Jobs : JobFits(j)) /\ \A n \in Networks \ careless : TableIsTrue(n)
  BY DEF NetworksInv
<1>1. FakeNetworks!Init
  OBVIOUS
<1>2. PICK auto \in SUBSET Networks :
        /\ spawned = FakeNetworks!SetToSeq(auto) /\ living = DOMAIN spawned
        /\ networks = [n \in auto |-> CHOOSE p \in DOMAIN spawned : spawned[p] = n]
  BY <1>1 DEF FakeNetworks!Init
<1>3. IsFiniteSet(auto) /\ FakeNetworks!Cardinality(auto) = Cardinality(auto)
  <2>1. IsFiniteSet(Networks)
    BY DEF NetworksAssumption, FakeNetworks!RequestsAreNamed, IsFiniteSet, FakeNetworks!IsFiniteSet
  <2>2. FakeNetworks!Cardinality(auto) = Cardinality(auto)
    BY DEF Cardinality, FakeNetworks!Cardinality
  <2> QED
    BY <1>2, <2>1, <2>2, FS_Subset
<1>4. \E f \in [1..Cardinality(auto) -> auto] : FakeNetworks!IsInjective(f)
  <2>1. PICK f \in Injection(1..Cardinality(auto), auto) : TRUE
    BY <1>3, FS_CardinalityType DEF ExistsBijection, Bijection
  <2>2. f \in [1..Cardinality(auto) -> auto] /\ \A a, b \in DOMAIN f : f[a] = f[b] => a = b
    BY <2>1 DEF Injection, IsInjective
  <2> QED
    BY <2>2 DEF FakeNetworks!IsInjective
<1>5. spawned \in [1..Cardinality(auto) -> auto] /\ FakeNetworks!IsInjective(spawned)
  BY <1>2, <1>3, <1>4 DEF FakeNetworks!SetToSeq
<1>6. spawned \in Seq(Networks) /\ \A p, q \in DOMAIN spawned : spawned[p] = spawned[q] => p = q
  <2>1. Cardinality(auto) \in Nat
    BY <1>3, FS_CardinalityType
  <2> QED
    BY <1>2, <1>5, <2>1 DEF FakeNetworks!IsInjective
<1>7. \A p \in DOMAIN spawned : spawned[p] \in auto /\ networks[spawned[p]] = p
  BY <1>2, <1>5, <1>6
<1>8. networks \in [DOMAIN networks -> Nat] /\ DOMAIN networks \subseteq Networks
  <2>1. \A n \in auto : \E p \in DOMAIN spawned : spawned[p] = n
    <3> DEFINE k == Cardinality(auto)
    <3>1. spawned \in Injection(1..k, auto)
      BY <1>5 DEF Injection, IsInjective, FakeNetworks!IsInjective
    <3>2. k \in Nat /\ Cardinality(1..k) = k
      BY <1>3, FS_CardinalityType, FS_Interval
    <3>3. spawned \in Surjection(1..k, auto)
      BY <1>3, <3>1, <3>2, FS_Injection
    <3> QED
      BY <3>3 DEF Surjection
  <2>2. \A n \in auto : networks[n] \in DOMAIN spawned
    BY <1>2, <2>1
  <2> QED
    BY <1>2, <1>6, <2>2
<1>9. NetworksOK
  <2>1. <<>> \in Seq(Parts)
    OBVIOUS
  <2> QED
    BY <1>1, <1>2, <1>6, <1>8, <2>1 DEF NetworksOK, FakeNetworks!Init
<1>10. \A j \in Jobs : ~Runs(j)
  BY <1>1 DEF FakeNetworks!Init, Runs
<1>11. \A n : Tidy(n)
  BY <1>2, <1>7 DEF Tidy
<1> QED
  BY <1>9, <1>10, <1>11 DEF Apart, JobFits, TableIsTrue

LEMMA NetworksStep ==
  ASSUME NetworksAssumption, NetworksInv, part' = part,
         part = "networks" => FakeNetworks!Next \/ UNCHANGED fakenos
  PROVE  NetworksInv'
<1>1. part' = part
  OBVIOUS
<1> SUFFICES ASSUME part = "networks" PROVE NetworksInv'
  BY <1>1 DEF NetworksInv
<1>2. CASE UNCHANGED fakenos
  <2>1. UNCHANGED <<networks, spawned, living, network_request, network_plan, names, entry, network_outcome, careless>>
    BY <1>2 DEF fakenos
  <2>2. NetworksOK' /\ Apart'
    BY <2>1 DEF NetworksInv, NetworksOK, Apart, Runs, FakeNetworks!Of
  <2>3. ASSUME NEW j \in Jobs PROVE JobFits(j)'
    <3>1. JobFits(j)
      BY DEF NetworksInv
    <3>2. /\ Runs(j)' <=> Runs(j)
          /\ \A x : Doing(j, x)' <=> Doing(j, x)
          /\ FakeNetworks!Of(j)' = FakeNetworks!Of(j)
      BY <2>1 DEF FakeNetworks!Of, Runs, Doing
    <3>3. ASSUME NEW n, Holds(j, n) PROVE Holds(j, n)'
      BY <2>1, <3>2, <3>3 DEF Holds
    <3> QED
      BY <2>1, <3>1, <3>2, <3>3 DEF JobFits, PlanFits, HandFits
  <2>4. \A n \in Networks \ careless' : TableIsTrue(n)'
    BY <2>1 DEF NetworksInv, TableIsTrue, Entering, Tidy, Runs, Doing
  <2>5. Networks' = Networks /\ Jobs' = Jobs
    OBVIOUS
  <2> QED
    BY <2>2, <2>3, <2>4, <2>5 DEF NetworksInv
<1>3. CASE FakeNetworks!Next
  <2>1. ASSUME NEW j \in Jobs, FakeNetworks!JobStep(j) PROVE NetworksInv'
    BY <1>1, <2>1, StartKeeps, FetchKeeps, SpawnKeeps, EnterKeeps, LookupKeeps, NamesKeeps,
      TakeKeeps, KillKeeps,
       PopKeeps, LookKeeps DEF FakeNetworks!JobStep
  <2>2. CASE FakeNetworks!Dies
    BY <1>1, <2>2, DiesKeeps
  <2>3. CASE FakeNetworks!WorkerExit
    BY <1>1, <2>3, WorkerExitKeeps
  <2>4. CASE FakeNetworks!Done
    BY <1>2, <2>4 DEF FakeNetworks!Done, FakeNetworks!vars, FakeNetworks!table, fakenos
  <2> QED
    BY <1>3, <2>1, <2>2, <2>3, <2>4 DEF FakeNetworks!Next
<1> QED
  BY <1>2, <1>3

LEMMA OneInTheTable == ASSUME NetworksAssumption, NetworksInv, part = "networks" PROVE FakeNetworks!OneProcess
<1> SUFFICES ASSUME NEW p \in living, spawned[p] \notin careless,
                    ~(spawned[p] \in DOMAIN networks /\ networks[spawned[p]] = p)
             PROVE  \E j \in FakeNetworks!Running :
                      spawned[p] \in FakeNetworks!Of(j) /\ network_request[j].task \in {"start", "restart"}
  BY DEF FakeNetworks!OneProcess
<1>1. NetworksOK /\ spawned[p] \in Networks /\ TableIsTrue(spawned[p]) /\ \A j \in Jobs : JobFits(j)
  BY DEF NetworksInv, NetworksOK
<1>2. PICK j \in Jobs : Doing(j, "enter") /\ network_request[j].network = spawned[p]
  BY <1>1 DEF TableIsTrue, Entering, Tidy
<1>3. j \in FakeNetworks!Running /\ spawned[p] \in FakeNetworks!Of(j)
  BY <1>1, <1>2, OfNetworks DEF Doing, Runs, FakeNetworks!Running
<1>4. PlanFits(j) /\ 1 \in DOMAIN network_plan[j]
  BY <1>1, <1>2 DEF JobFits, Doing, NetworksOK
<1> QED
  BY <1>2, <1>3, <1>4 DEF PlanFits, StartParts, Doing

-----------------------------------------------------------------------------
(***************************************************************************)
(* Workflows: whether a step is run is decided by what the steps before it *)
(* returned, which does not change any more.                               *)
(***************************************************************************)
StepResults == Answers \cup {Flow!NoAnswer, Flow!Skipped, Flow!Error}
NamedBy(s, i) == {workflow[s][Flow!Kinds[i]][k] : k \in DOMAIN workflow[s][Flow!Kinds[i]]}
Met(s) ==
  \A i \in DOMAIN Flow!Kinds :
    Flow!Given(workflow[s]) = {i} =>
      /\ NamedBy(s, i) \subseteq DOMAIN results
      /\ Flow!NoAnswer \notin {results[t] : t \in NamedBy(s, i)} =>
           (s \in Flow!Ran <=> Flow!Counted(Flow!Kinds[i], NamedBy(s, i)))
FlowInv ==
  part = "workflow" /\ status = "running" =>
    results \in Seq(StepResults) /\ position = Len(results) + 1 /\ \A s \in DOMAIN results : Met(s)

LEMMA StepResultsDiffer ==
  ASSUME AnswersAssumption
  PROVE  /\ \A r \in Answers \cup {Flow!NoAnswer} : r \notin {Flow!Skipped, Flow!Error}
         /\ \A r \in StepResults : \A w \in DOMAIN r : r[w].failed \in BOOLEAN
<1>1. /\ DOMAIN Flow!Skipped = {Flow!AllWorkers} /\ DOMAIN Flow!Error = {Flow!AllWorkers}
      /\ Flow!Skipped[Flow!AllWorkers].failed = FALSE /\ Flow!Error[Flow!AllWorkers].failed = TRUE
  BY DEF Flow!Skipped, Flow!Error, Flow!Alone
<1>2. DOMAIN Flow!NoAnswer = {"nobody"} /\ Flow!NoAnswer["nobody"].failed = FALSE
  BY DEF Flow!NoAnswer
<1>3. Flow!AllWorkers # "nobody"
  BY DEF Flow!AllWorkers
<1>4. \A r \in Answers \cup {Flow!NoAnswer} : Flow!AllWorkers \notin DOMAIN r
  BY <1>2, <1>3 DEF AnswersAssumption, Flow!WorkersAnswer
<1>5. \A r \in Answers : \A w \in DOMAIN r : r[w].failed \in BOOLEAN
  BY DEF AnswersAssumption, Flow!WorkersAnswer
<1>6. \A r \in Answers \cup {Flow!NoAnswer} : r \notin {Flow!Skipped, Flow!Error}
  BY <1>1, <1>4
<1>7. ASSUME NEW r \in StepResults, NEW w \in DOMAIN r PROVE r[w].failed \in BOOLEAN
  <2>1. CASE r \in Answers
    BY <1>5, <2>1
  <2>2. CASE r = Flow!NoAnswer
    BY <1>2, <2>2
  <2>3. CASE r = Flow!Skipped
    BY <1>1, <2>3
  <2>4. CASE r = Flow!Error
    BY <1>1, <2>4
  <2> QED
    BY <2>1, <2>2, <2>3, <2>4 DEF StepResults
<1> QED
  BY <1>6, <1>7

(* The checks look for what is counted.                                    *)
LEMMA ChecksAsCounted ==
  ASSUME AnswersAssumption, results \in Seq(StepResults), NEW i \in DOMAIN Flow!Kinds, NEW given,
         NEW steps, steps = {given[k] : k \in DOMAIN given}, steps \subseteq DOMAIN results,
         Flow!NoAnswer \notin {results[t] : t \in steps}
  PROVE  /\ Flow!Check(Flow!Kinds[i], given) \in {"run", "skip"}
         /\ Flow!Check(Flow!Kinds[i], given) = "run" <=> Flow!Counted(Flow!Kinds[i], steps)
<1> DEFINE condition == Flow!Kinds[i]
           failed == Flow!LooksForFailed(condition)
<1>1. \A t \in steps : /\ Flow!SomeWorker(results[t], TRUE) <=> Flow!Failed(t)
                       /\ Flow!SomeWorker(results[t], FALSE) <=> Flow!Passed(t)
  <2> SUFFICES ASSUME NEW t \in steps
               PROVE  /\ Flow!SomeWorker(results[t], TRUE) <=> Flow!Failed(t)
                      /\ Flow!SomeWorker(results[t], FALSE) <=> Flow!Passed(t)
    OBVIOUS
  <2>1. results[t] \in StepResults
    OBVIOUS
  <2>2. \A w \in DOMAIN results[t] : results[t][w].failed \in BOOLEAN
    BY <2>1, StepResultsDiffer
  <2> QED
    BY <2>2 DEF Flow!SomeWorker, Flow!Failed, Flow!Passed, Flow!Outcomes, Flow!Matched, Flow!NoMatch
<1>2. Flow!Check(condition, given) =
        IF \E t \in steps : Flow!SomeWorker(results[t], failed) THEN Flow!IfFound(condition) ELSE Flow!IfNotFound(condition)
  <2>1. \A k \in DOMAIN given : results[given[k]] # Flow!NoAnswer
    OBVIOUS
  <2>2. (\E k \in DOMAIN given : Flow!SomeWorker(results[given[k]], failed)) <=> \E t \in steps : Flow!SomeWorker(results[t], failed)
    OBVIOUS
  <2> QED
    BY <2>1, <2>2 DEF Flow!Check
<1>3. i = 1 \/ i = 2 \/ i = 3 \/ i = 4
  BY DEF Flow!Kinds
<1>4. CASE i = 1
  <2>1. condition = "run_if_fail_any"
    BY <1>4 DEF Flow!Kinds
  <2>2. failed = TRUE /\ Flow!IfFound(condition) = "run" /\ Flow!IfNotFound(condition) = "skip"
    BY <2>1 DEF Flow!LooksForFailed, Flow!IfFound, Flow!IfNotFound
  <2>3. Flow!Counted(condition, steps) <=> \E t \in steps : Flow!Failed(t)
    BY <2>1 DEF Flow!Counted
  <2> QED
    BY <1>1, <1>2, <2>2, <2>3
<1>5. CASE i = 2
  <2>1. condition = "run_if_pass_any"
    BY <1>5 DEF Flow!Kinds
  <2>2. failed = FALSE /\ Flow!IfFound(condition) = "run" /\ Flow!IfNotFound(condition) = "skip"
    BY <2>1 DEF Flow!LooksForFailed, Flow!IfFound, Flow!IfNotFound
  <2>3. Flow!Counted(condition, steps) <=> \E t \in steps : Flow!Passed(t)
    BY <2>1 DEF Flow!Counted
  <2> QED
    BY <1>1, <1>2, <2>2, <2>3
<1>6. CASE i = 3
  <2>1. condition = "run_if_fail_all"
    BY <1>6 DEF Flow!Kinds
  <2>2. failed = FALSE /\ Flow!IfFound(condition) = "skip" /\ Flow!IfNotFound(condition) = "run"
    BY <2>1 DEF Flow!LooksForFailed, Flow!IfFound, Flow!IfNotFound
  <2>3. Flow!Counted(condition, steps) <=> \A t \in steps : ~Flow!Passed(t)
    BY <2>1 DEF Flow!Counted
  <2> QED
    BY <1>1, <1>2, <2>2, <2>3
<1>7. CASE i = 4
  <2>1. condition = "run_if_pass_all"
    BY <1>7 DEF Flow!Kinds
  <2>2. failed = TRUE /\ Flow!IfFound(condition) = "skip" /\ Flow!IfNotFound(condition) = "run"
    BY <2>1 DEF Flow!LooksForFailed, Flow!IfFound, Flow!IfNotFound
  <2>3. Flow!Counted(condition, steps) <=> \A t \in steps : ~Flow!Failed(t)
    BY <2>1 DEF Flow!Counted
  <2> QED
    BY <1>1, <1>2, <2>2, <2>3
<1> QED
  BY <1>3, <1>4, <1>5, <1>6, <1>7

(* A step with a condition is decided by it.                               *)
LEMMA DecidedAsCounted ==
  ASSUME AnswersAssumption, results \in Seq(StepResults), NEW s, NEW i \in DOMAIN Flow!Kinds,
         Flow!Given(workflow[s]) = {i}, Flow!Decision(workflow[s]) \in {"run", "skip"}
  PROVE  /\ NamedBy(s, i) \subseteq DOMAIN results
         /\ Flow!NoAnswer \notin {results[t] : t \in NamedBy(s, i)} =>
              (Flow!Decision(workflow[s]) = "run" <=> Flow!Counted(Flow!Kinds[i], NamedBy(s, i)))
<1> DEFINE given == workflow[s][Flow!Kinds[i]]
<1>1. Flow!FirstGiven(workflow[s]) = Flow!Kinds[i]
  <2>1. i <= i
    BY DEF Flow!Kinds
  <2> QED
    BY <2>1 DEF Flow!FirstGiven
<1>2. /\ ~\E k \in DOMAIN given : given[k] \notin DOMAIN results
      /\ Flow!Decision(workflow[s]) = Flow!Check(Flow!Kinds[i], given)
  BY <1>1 DEF Flow!Decision
<1>3. NamedBy(s, i) = {given[k] : k \in DOMAIN given} /\ NamedBy(s, i) \subseteq DOMAIN results
  BY <1>2 DEF NamedBy
<1> QED
  BY <1>2, <1>3, ChecksAsCounted

(* A step that is run or skipped leaves the decisions before it alone.     *)
LEMMA StepIsMet ==
  ASSUME AnswersAssumption, FlowInv, part = "workflow", status = "running",
         Flow!Decision(workflow[position]) \in {"run", "skip"}, workflow' = workflow, NEW r \in StepResults,
         results' = Append(results, r), position' = position + 1,
         r \in {Flow!Skipped, Flow!Error} <=> Flow!Decision(workflow[position]) = "skip"
  PROVE  FlowInv'
<1> DEFINE n == Len(results) + 1
<1>1. /\ results \in Seq(StepResults) /\ position = n /\ \A s \in DOMAIN results : Met(s)
      /\ n \in Nat /\ DOMAIN results = 1..n - 1
  BY DEF FlowInv
<1>2. /\ results' \in Seq(StepResults) /\ Len(results') = n /\ DOMAIN results' = DOMAIN results \cup {n}
      /\ results'[n] = r /\ n \notin DOMAIN results /\ \A t \in DOMAIN results : results'[t] = results[t]
  BY <1>1
<1>3. \A s \in DOMAIN results : s \in Flow!Ran' <=> s \in Flow!Ran
  BY <1>2 DEF Flow!Ran
<1>4. n \in Flow!Ran' <=> Flow!Decision(workflow[n]) = "run"
  BY <1>1, <1>2 DEF Flow!Ran
<1>5. \A s, i : NamedBy(s, i)' = NamedBy(s, i)
  BY DEF NamedBy
<1>6. \A t \in DOMAIN results : (Flow!Failed(t)' <=> Flow!Failed(t)) /\ (Flow!Passed(t)' <=> Flow!Passed(t))
  BY <1>2 DEF Flow!Failed, Flow!Passed, Flow!Outcomes
<1>7. ASSUME NEW s, NEW i \in DOMAIN Flow!Kinds, NamedBy(s, i) \subseteq DOMAIN results
      PROVE  /\ Flow!Counted(Flow!Kinds[i], NamedBy(s, i))' <=> Flow!Counted(Flow!Kinds[i], NamedBy(s, i))
             /\ {results'[t] : t \in NamedBy(s, i)} = {results[t] : t \in NamedBy(s, i)}
  <2>1. \A t \in NamedBy(s, i) :
          (Flow!Failed(t)' <=> Flow!Failed(t)) /\ (Flow!Passed(t)' <=> Flow!Passed(t)) /\ results'[t] = results[t]
    BY <1>2, <1>6, <1>7
  <2> QED
    BY <1>5, <2>1 DEF Flow!Counted
<1>8. ASSUME NEW s \in DOMAIN results, NEW i \in DOMAIN Flow!Kinds, Flow!Given(workflow[s]) = {i}
      PROVE  /\ NamedBy(s, i) \subseteq DOMAIN results
             /\ Flow!NoAnswer \notin {results[t] : t \in NamedBy(s, i)} =>
                  (s \in Flow!Ran <=> Flow!Counted(Flow!Kinds[i], NamedBy(s, i)))
  BY <1>1, <1>8 DEF Met
<1>9. ASSUME NEW s \in DOMAIN results' PROVE Met(s)'
  <2> SUFFICES ASSUME NEW i \in DOMAIN Flow!Kinds, Flow!Given(workflow[s]) = {i}
               PROVE  /\ NamedBy(s, i) \subseteq DOMAIN results'
                      /\ Flow!NoAnswer \notin {results'[t] : t \in NamedBy(s, i)} =>
                           (s \in Flow!Ran' <=> Flow!Counted(Flow!Kinds[i], NamedBy(s, i))')
    BY <1>5 DEF Met, Flow!Given
  <2>1. NamedBy(s, i) \subseteq DOMAIN results /\
        (Flow!NoAnswer \notin {results[t] : t \in NamedBy(s, i)} =>
           (s \in Flow!Ran' <=> Flow!Counted(Flow!Kinds[i], NamedBy(s, i))))
    <3>1. CASE s \in DOMAIN results
      BY <1>3, <1>8, <3>1
    <3>2. CASE s = n
      BY <1>1, <1>4, <3>2, DecidedAsCounted
    <3> QED
      BY <1>2, <3>1, <3>2
  <2> QED
    BY <1>2, <1>7, <2>1
<1> QED
  BY <1>1, <1>2, <1>9 DEF FlowInv
(* What a step of a workflow is, and how it ends.                          *)
LEMMA FlowStep ==
  ASSUME AnswersAssumption, FlowInv, part = "workflow", part' = part, Flow!Next
  PROVE  FlowInv'
<1>1. CASE Flow!SkipStep
  BY <1>1, StepIsMet DEF Flow!SkipStep, Flow!Current, StepResults
<1>2. CASE Flow!StepError \/ Flow!EndWorkflow
  BY <1>2 DEF Flow!StepError, Flow!EndWorkflow, Flow!Finish, FlowInv
<1>3. CASE Flow!CheckRaises \/ Flow!StopCheckRaises
  BY <1>3 DEF Flow!CheckRaises, Flow!StopCheckRaises, FlowInv
<1>4. CASE Flow!RunStep
  <2>1. /\ status = "running" /\ Flow!Decision(workflow[position]) = "run" /\ workflow' = workflow
    BY <1>4 DEF Flow!RunStep, Flow!Current
  <2>2. PICK answer \in Answers \cup {Flow!NoAnswer} :
          \/ Flow!Finish(Append(results, answer))
          \/ results' = Append(results, answer) /\ position' = position + 1
    BY <1>4 DEF Flow!RunStep
  <2>3. answer \in StepResults /\ answer \notin {Flow!Skipped, Flow!Error}
    BY StepResultsDiffer DEF StepResults
  <2>4. CASE Flow!Finish(Append(results, answer))
    BY <2>4 DEF Flow!Finish, FlowInv
  <2>5. CASE results' = Append(results, answer) /\ position' = position + 1
    BY <2>1, <2>3, <2>5, StepIsMet
  <2> QED
    BY <2>2, <2>4, <2>5
<1>5. CASE status # "running" /\ UNCHANGED Flow!vars
  BY <1>5 DEF FlowInv, Flow!vars
<1> QED
  BY <1>1, <1>2, <1>3, <1>4, <1>5 DEF Flow!Next

LEMMA FlowInvStep ==
  ASSUME AnswersAssumption, FlowInv, part' = part, part = "workflow" => Flow!Next \/ UNCHANGED flow
  PROVE  FlowInv'
<1>1. part' = part
  OBVIOUS
<1>2. CASE UNCHANGED flow
  <2>1. UNCHANGED <<workflow, position, results, status>>
    BY <1>2 DEF flow
  <2>2. \A s : Met(s)' <=> Met(s)
    BY <2>1 DEF Met, NamedBy, Flow!Given, Flow!Ran, Flow!Counted, Flow!Failed, Flow!Passed,
      Flow!Outcomes
  <2> QED
    BY <1>1, <2>1, <2>2 DEF FlowInv
<1>3. CASE part = "workflow" /\ Flow!Next
  BY <1>1, <1>3, FlowStep
<1>4. CASE part # "workflow"
  BY <1>1, <1>4 DEF FlowInv
<1> QED
  BY <1>1, <1>2, <1>3, <1>4

(* A workflow that ends reports what it has, and the last step of it.      *)
LEMMA FinishReports ==
  ASSUME results \in Seq(StepResults), NEW all, Flow!Finish(all),
         all = results \/ \E r \in StepResults : all = Append(results, r)
  PROVE  Flow!Reported
<1>1. all \in Seq(StepResults) /\ DOMAIN results \subseteq DOMAIN all /\ \A s \in DOMAIN results : all[s] = results[s]
  OBVIOUS
<1>2. CASE ~remove_no_match
  BY <1>1, <1>2 DEF Flow!Finish, Flow!Reported
<1>3. CASE remove_no_match /\ \E s \in DOMAIN all : all[s] = Flow!NoAnswer
  BY <1>1, <1>3 DEF Flow!Finish, Flow!Reported
<1>4. CASE remove_no_match /\ ~\E s \in DOMAIN all : all[s] = Flow!NoAnswer
  <2>1. status' = "done" /\ results' = [s \in DOMAIN all |-> Flow!Filtered(all[s])]
    BY <1>4 DEF Flow!Finish
  <2>2. ASSUME NEW s \in DOMAIN results, NEW w \in DOMAIN results[s]
        PROVE  \/ w \in DOMAIN results'[s] /\ results'[s][w] = results[s][w]
               \/ ~results[s][w].failed /\ results[s][w].status = Flow!NoMatch
    BY <1>1, <2>1 DEF Flow!Filtered, Flow!Kept, Flow!Matched
  <2> QED
    BY <1>1, <1>4, <2>1, <2>2 DEF Flow!Reported
<1> QED
  BY <1>2, <1>3, <1>4

LEMMA FlowReports ==
  ASSUME FlowInv, part = "workflow", Flow!Next, ~UNCHANGED Flow!vars
  PROVE  Flow!Reported
<1>1. part = "workflow" /\ Flow!Next
  OBVIOUS
<1>2. status = "running" => results \in Seq(StepResults)
  BY <1>1 DEF FlowInv
<1>3. CASE Flow!SkipStep
  BY <1>3 DEF Flow!SkipStep, Flow!Reported
<1>4. CASE Flow!StepError
  BY <1>2, <1>4, FinishReports DEF Flow!StepError, StepResults
<1>5. CASE Flow!EndWorkflow
  BY <1>2, <1>5, FinishReports DEF Flow!EndWorkflow
<1>6. CASE Flow!CheckRaises
  <2>1. status = "running" /\ Flow!Decision(workflow[position]) = "raise" /\ results' = results /\ status' = "raised"
    BY <1>6 DEF Flow!CheckRaises, Flow!Current
  <2> DEFINE given == workflow[position][Flow!FirstGiven(workflow[position])]
  <2>2. /\ Flow!Check(Flow!FirstGiven(workflow[position]), given) = "raise"
        /\ \A k \in DOMAIN given : given[k] \in DOMAIN results
    BY <2>1 DEF Flow!Decision
  <2>3. \E k \in DOMAIN given : results[given[k]] = Flow!NoAnswer
    BY <2>2 DEF Flow!Check, Flow!IfFound, Flow!IfNotFound
  <2> QED
    BY <2>1, <2>2, <2>3 DEF Flow!Reported
<1>7. CASE Flow!StopCheckRaises
  <2>1. status = "running" /\ results' = Append(results, Flow!NoAnswer) /\ status' = "raised"
    BY <1>7 DEF Flow!StopCheckRaises
  <2>2. Len(results) + 1 \in DOMAIN results' /\ results'[Len(results) + 1] = Flow!NoAnswer
    BY <1>2, <2>1
  <2> QED
    BY <2>1, <2>2 DEF Flow!Reported
<1>8. CASE Flow!RunStep
  <2>1. status = "running"
    BY <1>8 DEF Flow!RunStep
  <2>2. PICK answer \in Answers \cup {Flow!NoAnswer} :
          Flow!Finish(Append(results, answer)) \/ status' = status
    BY <1>8 DEF Flow!RunStep
  <2>3. answer \in StepResults
    BY DEF StepResults
  <2>4. CASE Flow!Finish(Append(results, answer))
    BY <1>2, <2>1, <2>3, <2>4, FinishReports
  <2>5. CASE status' = status
    BY <2>1, <2>5 DEF Flow!Reported
  <2> QED
    BY <2>2, <2>4, <2>5
<1> QED
  BY <1>1, <1>3, <1>4, <1>5, <1>6, <1>7, <1>8 DEF Flow!Next

LEMMA FlowBegins == ASSUME part = "workflow" => Flow!Init PROVE FlowInv
<1> SUFFICES ASSUME part = "workflow" PROVE results \in Seq(StepResults) /\ position = Len(results) + 1 /\ \A s \in DOMAIN results : Met(s)
  BY DEF FlowInv
<1>1. results = <<>> /\ position = 1
  BY DEF Flow!Init
<1> QED
  BY <1>1

(* What is counted is what is documented, but for steps that were skipped  *)
(* and workers without a match.                                            *)
LEMMA CountedAsDocumented ==
  ASSUME AnswersAssumption, results \in Seq(StepResults), NEW steps, steps \subseteq DOMAIN results,
         NEW i \in DOMAIN Flow!Kinds, ~Flow!CountsOtherwise(Flow!Kinds[i], steps)
  PROVE  Flow!Counted(Flow!Kinds[i], steps) <=> Flow!Documented(Flow!Kinds[i], steps)
<1> DEFINE condition == Flow!Kinds[i]
<1>1. i = 1 \/ i = 2 \/ i = 3 \/ i = 4
  BY DEF Flow!Kinds
<1>2. \A t \in steps : \A r \in Flow!Outcomes(t) : r.failed \in BOOLEAN
  BY StepResultsDiffer DEF Flow!Outcomes
<1>3. CASE i = 1
  <2>1. condition = "run_if_fail_any"
    BY <1>3 DEF Flow!Kinds
  <2>2. \A t \in steps : \A r \in Flow!Outcomes(t) : r.status # Flow!NoMatch
    BY <2>1 DEF Flow!CountsOtherwise, Flow!HasNoMatch
  <2> QED
    BY <2>1, <2>2 DEF Flow!Counted, Flow!Documented, Flow!Failed
<1>4. CASE i = 2
  <2>1. condition = "run_if_pass_any"
    BY <1>4 DEF Flow!Kinds
  <2>2. \A t \in steps : results[t] # Flow!Skipped
    BY <2>1 DEF Flow!CountsOtherwise
  <2> QED
    BY <2>1, <2>2 DEF Flow!Counted, Flow!Documented
<1>5. CASE i = 3
  <2>1. condition = "run_if_fail_all"
    BY <1>5 DEF Flow!Kinds
  <2>2. \A t \in steps : \A r \in Flow!Outcomes(t) : r.status # Flow!NoMatch
    BY <2>1 DEF Flow!CountsOtherwise, Flow!HasNoMatch
  <2> QED
    BY <1>2, <2>1, <2>2 DEF Flow!Counted, Flow!Documented, Flow!Passed
<1>6. CASE i = 4
  <2>1. condition = "run_if_pass_all"
    BY <1>6 DEF Flow!Kinds
  <2>2. \A t \in steps : results[t] # Flow!Skipped /\ \A r \in Flow!Outcomes(t) : r.status # Flow!NoMatch
    BY <2>1 DEF Flow!CountsOtherwise, Flow!HasNoMatch
  <2> QED
    BY <1>2, <2>1, <2>2 DEF Flow!Counted, Flow!Documented, Flow!Failed
<1> QED
  BY <1>1, <1>3, <1>4, <1>5, <1>6

LEMMA ConditionsHold == ASSUME AnswersAssumption, FlowInv, part = "workflow" PROVE Flow!ConditionsAreMet
<1> SUFFICES ASSUME status = "running", NEW s \in DOMAIN results, NEW i \in DOMAIN Flow!Kinds,
                    Flow!Given(workflow[s]) = {i}, Flow!NoAnswer \notin {results[t] : t \in NamedBy(s, i)}
             PROVE  /\ s \in Flow!Ran <=> Flow!Counted(Flow!Kinds[i], NamedBy(s, i))
                    /\ \/ Flow!CountsOtherwise(Flow!Kinds[i], NamedBy(s, i))
                       \/ s \in Flow!Ran <=> Flow!Documented(Flow!Kinds[i], NamedBy(s, i))
  BY DEF NamedBy, Flow!ConditionsAreMet
<1>1. results \in Seq(StepResults) /\ Met(s)
  BY DEF FlowInv
<1>2. /\ NamedBy(s, i) \subseteq DOMAIN results
      /\ s \in Flow!Ran <=> Flow!Counted(Flow!Kinds[i], NamedBy(s, i))
  BY <1>1 DEF Met
<1> QED
  BY <1>1, <1>2, CountedAsDocumented

-----------------------------------------------------------------------------
(***************************************************************************)
(* Gateways.  The tasks a finder still has to make come service by         *)
(* service, so that a service it is not in the midst of is made in full.   *)
(***************************************************************************)
Rows == UNION {{[service |-> s, task |-> t] : t \in Gateways!ToSet(TasksOf[s])} : s \in DOMAIN TasksOf}
Steps == {"round", "ask", "make", "save prompts", "over"}
OfTask(table, s) == Gateways!Names(table, s)
ShownPrompts(s) == UNION {Gateways!Prompts(t) : t \in Gateways!Shown(s)}

FinderOK(m) ==
  /\ DOMAIN m = {"step", "cycles", "for", "todo", "tasks", "result", "prompts"} /\ m.step \in Steps
  /\ m.todo \in Seq(DOMAIN TasksOf) /\ m.tasks \in Seq(Rows)
  /\ \A i \in DOMAIN m.todo : m.todo[i] \in m.for
  /\ \A i \in DOMAIN m.tasks : m.tasks[i].service \in m.for
  /\ DOMAIN m.result \subseteq m.for /\ (kind = "mcp" => DOMAIN m.prompts = DOMAIN m.result)
  /\ \A s : OfTask(m.result, s) \subseteq Gateways!Offered(s) /\ OfTask(m.prompts, s) \subseteq ShownPrompts(s)
  /\ m.step \notin {"ask", "make"} => m.tasks = <<>>
  /\ m.step = "ask" => \A i \in DOMAIN m.tasks : m.tasks[i].service \notin DOMAIN m.result

(* A task is made, or comes among the tasks of its service around i.       *)
Made(m, s, t) ==
  IF kind = "api" THEN t.name \in OfTask(published, s)
  ELSE Gateways!Tools(t) \subseteq OfTask(m.result, s) /\ Gateways!Prompts(t) \subseteq OfTask(m.prompts, s)
Comes(q, i, t) == \E k \in DOMAIN q : q[k].task = t /\ \A l \in (i..k) \cup (k..i) : q[l].service = q[i].service
InRuns(m) ==
  \A i \in DOMAIN m.tasks : \A t \in Gateways!Shown(m.tasks[i].service) :
    Made(m, m.tasks[i].service, t) \/ Comes(m.tasks, i, t)
MadeInFull(m, s) == \A t \in Gateways!Shown(s) : Made(m, s, t)
OthersMade(m) ==
  \A s \in DOMAIN m.result :
    Gateways!Flawed(s) \/ (m.tasks # <<>> /\ m.tasks[1].service = s) \/ MadeInFull(m, s)

(* What a finder that no task disturbs has found is in the tables.         *)
Sound(m) == kind = "mcp" /\ \A s \in m.for : ~Gateways!Flawed(s)
ToolsThere(s) == Gateways!Offered(s) \subseteq OfTask(published, s)
PromptsThere(s) == ShownPrompts(s) \subseteq OfTask(prompts, s)
Saved(m) ==
  Sound(m) => \A s \in DOMAIN m.result :
    /\ m.step # "make" => ToolsThere(s)
    /\ m.step \notin {"make", "save prompts"} => PromptsThere(s)
FinderInv(m) == FinderOK(m) /\ InRuns(m) /\ OthersMade(m) /\ Saved(m)

GatewayInv ==
  part = "gateway" =>
    /\ kind \in {"api", "mcp"} /\ workers \subseteq DOMAIN ServiceOf
    /\ \A m \in {finder[f] : f \in DOMAIN finder} : FinderInv(m)
    /\ \A r \in DOMAIN http : DOMAIN http[r] = {"state", "to", "service", "task", "delivered"}
    /\ \A s : /\ OfTask(published, s) \subseteq Gateways!Offered(s) /\ OfTask(prompts, s) \subseteq ShownPrompts(s)
              /\ \A r \in DOMAIN http : http[r].to = "call" /\ http[r].service = s => http[r].task \in Gateways!Offered(s)
    /\ granted = {<<t, tokens[t].tag>> : t \in DOMAIN tokens}

-----------------------------------------------------------------------------
(* The kind of the gateway does not change, nor what it shows.             *)
LEMMA SameKind ==
  ASSUME kind' = kind
  PROVE  /\ \A s : /\ Gateways!Shown(s)' = Gateways!Shown(s) /\ Gateways!Offered(s)' = Gateways!Offered(s)
                   /\ ShownPrompts(s)' = ShownPrompts(s) /\ (Gateways!Flawed(s)' <=> Gateways!Flawed(s))
         /\ \A t : Gateways!Tools(t)' = Gateways!Tools(t)
         /\ \A m : (FinderOK(m)' <=> FinderOK(m)) /\ (Sound(m)' <=> Sound(m))
<1>1. /\ \A s, t : Gateways!Hidden(s, t)' <=> Gateways!Hidden(s, t)
      /\ \A t : Gateways!Tools(t)' = Gateways!Tools(t)
      /\ Gateways!Raises' = Gateways!Raises
  BY DEF Gateways!Hidden, Gateways!Tools, Gateways!Raises
<1>2. \A s : Gateways!Shown(s)' = Gateways!Shown(s)
  BY <1>1 DEF Gateways!Shown
<1>3. \A s : /\ Gateways!Offered(s)' = Gateways!Offered(s)
             /\ ShownPrompts(s)' = ShownPrompts(s) /\ (Gateways!Flawed(s)' <=> Gateways!Flawed(s))
  BY <1>1, <1>2 DEF Gateways!Offered, ShownPrompts, Gateways!Flawed
<1>4. ASSUME NEW m PROVE FinderOK(m)' <=> FinderOK(m)
  <2>1. \A s : OfTask(m.result, s)' = OfTask(m.result, s) /\ OfTask(m.prompts, s)' = OfTask(m.prompts, s)
    BY DEF OfTask, Gateways!Names
  <2> QED
    BY <1>3, <2>1 DEF FinderOK
<1>5. \A m : Sound(m)' <=> Sound(m)
  BY <1>3 DEF Sound
<1> QED
  BY <1>1, <1>2, <1>3, <1>4, <1>5

(* What is in the tables of a service without a flaw stays there.          *)
TablesStay ==
  /\ kind' = kind
  /\ kind = "api" => \A s : OfTask(published, s) \subseteq OfTask(published, s)'
  /\ kind = "mcp" => \A s : ~Gateways!Flawed(s) => (ToolsThere(s) => ToolsThere(s)') /\ (PromptsThere(s) => PromptsThere(s)')

LEMMA OthersStay ==
  ASSUME TablesStay, kind \in {"api", "mcp"}, NEW m, FinderInv(m)
  PROVE  FinderInv(m)'
<1>1. FinderOK(m)'
  BY SameKind DEF TablesStay, FinderInv
<1>2. ASSUME NEW s, NEW t, Made(m, s, t) PROVE Made(m, s, t)'
  <2>1. CASE kind = "api"
    BY <1>2, <2>1 DEF Made, TablesStay
  <2>2. CASE kind = "mcp"
    <3>1. Gateways!Tools(t)' = Gateways!Tools(t)
      BY SameKind DEF TablesStay
    <3>2. Gateways!Prompts(t)' = Gateways!Prompts(t)
      BY DEF Gateways!Prompts
    <3> QED
      BY <1>2, <2>2, <3>1, <3>2 DEF Made, TablesStay, OfTask, Gateways!Names
  <2> QED
    BY <2>1, <2>2
<1>3. InRuns(m)'
  BY <1>2, SameKind DEF InRuns, FinderInv, TablesStay
<1>4. OthersMade(m)'
  BY <1>2, SameKind DEF OthersMade, MadeInFull, FinderInv, TablesStay
<1>5. Saved(m)'
  <2> SUFFICES ASSUME Sound(m)', NEW s \in DOMAIN m.result
               PROVE  /\ m.step # "make" => ToolsThere(s)'
                      /\ m.step \notin {"make", "save prompts"} => PromptsThere(s)'
    BY DEF Saved
  <2>1. kind = "mcp" /\ Sound(m) /\ ~Gateways!Flawed(s)
    BY SameKind DEF Sound, FinderInv, FinderOK, TablesStay
  <2> QED
    BY <2>1 DEF Saved, FinderInv, TablesStay
<1> QED
  BY <1>1, <1>3, <1>4, <1>5 DEF FinderInv
-----------------------------------------------------------------------------
LEMMA RowIsOf == ASSUME NEW r \in Rows PROVE r.service \in DOMAIN TasksOf /\ r.task \in Gateways!ToSet(TasksOf[r.service])
  BY DEF Rows

LEMMA EmptyQueue == <<>> \in Seq(Rows) /\ <<>> \in Seq(DOMAIN TasksOf)
  OBVIOUS
LEMMA IsQueue == ASSUME NEW S, NEW n \in Nat, NEW q \in [1..n -> S] PROVE q \in Seq(S)
  OBVIOUS
LEMMA EmptyHasNone == DOMAIN <<>> = {}
  OBVIOUS

LEMMA TailOf ==
  ASSUME NEW S, NEW q \in Seq(S), q # <<>>
  PROVE  /\ Tail(q) \in Seq(S) /\ Head(q) = q[1] /\ 1 \in DOMAIN q /\ q[1] \in S
         /\ \A i \in DOMAIN Tail(q) : i + 1 \in DOMAIN q /\ Tail(q)[i] = q[i + 1]
  OBVIOUS

LEMMA ComesAfter ==
  ASSUME NEW q \in Seq(Rows), q # <<>>, NEW t
  PROVE  /\ \A i \in DOMAIN Tail(q) : Comes(q, i + 1, t) =>
              Comes(Tail(q), i, t) \/ (q[1].task = t /\ q[1].service = Tail(q)[i].service)
         /\ Comes(q, 1, t) => q[1].task = t \/ (Tail(q) # <<>> /\ Tail(q)[1].service = q[1].service)
<1>1. /\ DOMAIN q = 1..Len(q) /\ Len(q) \in Nat \ {0} /\ DOMAIN Tail(q) = 1..Len(q) - 1
      /\ \A i \in 1..Len(q) - 1 : Tail(q)[i] = q[i + 1]
  OBVIOUS
<1>2. ASSUME NEW i \in DOMAIN Tail(q), NEW k \in DOMAIN q, q[k].task = t,
             \A l \in ((i + 1)..k) \cup (k..(i + 1)) : q[l].service = q[i + 1].service
      PROVE  Comes(Tail(q), i, t) \/ (q[1].task = t /\ q[1].service = Tail(q)[i].service)
  <2>1. CASE k = 1
    BY <1>1, <1>2, <2>1
  <2>2. CASE k # 1
    <3>1. k - 1 \in DOMAIN Tail(q) /\ Tail(q)[k - 1].task = t
      BY <1>1, <1>2, <2>2
    <3>2. \A l \in (i..k - 1) \cup (k - 1..i) :
            l + 1 \in ((i + 1)..k) \cup (k..(i + 1)) /\ Tail(q)[l] = q[l + 1] /\ Tail(q)[i] = q[i + 1]
      BY <1>1, <1>2, <2>2
    <3> QED
      BY <1>2, <3>1, <3>2 DEF Comes
  <2> QED
    BY <2>1, <2>2
<1>3. ASSUME NEW k \in DOMAIN q, q[k].task = t, \A l \in (1..k) \cup (k..1) : q[l].service = q[1].service
      PROVE  q[1].task = t \/ (Tail(q) # <<>> /\ Tail(q)[1].service = q[1].service)
  <2>1. CASE k = 1
    BY <1>3, <2>1
  <2>2. CASE k # 1
    <3>1. 2 \in 1..k /\ 1 \in DOMAIN Tail(q) /\ Tail(q)[1] = q[2]
      BY <1>1, <2>2
    <3>2. q[2].service = q[1].service
      BY <1>3, <3>1
    <3>3. Tail(q) # <<>>
      BY <3>1, EmptyHasNone
    <3> QED
      BY <3>1, <3>2, <3>3
  <2> QED
    BY <2>1, <2>2
<1> QED
  BY <1>2, <1>3 DEF Comes

LEMMA ComesIsConstant == ASSUME NEW q, NEW i, NEW t PROVE Comes(q, i, t)' <=> Comes(q, i, t)
  BY DEF Comes

(* The tasks of one more service, one after the other.                     *)
LEMMA ComesMore ==
  ASSUME NEW q \in Seq(Rows), NEW more \in Seq(Rows), NEW s, \A i \in DOMAIN more : more[i].service = s
  PROVE  /\ \A i \in DOMAIN q : \A t : Comes(q, i, t) => Comes(q \o more, i, t)
         /\ \A i \in DOMAIN (q \o more) : i \notin DOMAIN q =>
              /\ (q \o more)[i].service = s
              /\ \A j \in DOMAIN more : Comes(q \o more, i, more[j].task)
<1> DEFINE n == Len(q)
<1>1. /\ n \in Nat /\ Len(more) \in Nat /\ DOMAIN q = 1..n /\ DOMAIN more = 1..Len(more)
      /\ DOMAIN (q \o more) = 1..n + Len(more)
      /\ \A i \in 1..n : (q \o more)[i] = q[i]
      /\ \A i \in DOMAIN more : (q \o more)[n + i] = more[i]
  OBVIOUS
<1>2. \A i \in 1..n + Len(more) : i > n => (q \o more)[i].service = s
  <2> SUFFICES ASSUME NEW i \in 1..n + Len(more), i > n PROVE (q \o more)[i].service = s
    OBVIOUS
  <2>1. i - n \in DOMAIN more /\ n + (i - n) = i
    BY <1>1
  <2> QED
    BY <1>1, <2>1
<1>3. ASSUME NEW i \in DOMAIN q, NEW t, Comes(q, i, t) PROVE Comes(q \o more, i, t)
  <2>1. PICK k \in DOMAIN q : q[k].task = t /\ \A l \in (i..k) \cup (k..i) : q[l].service = q[i].service
    BY <1>3 DEF Comes
  <2>2. \A l \in (i..k) \cup (k..i) : l \in 1..n
    BY <1>1, <1>3, <2>1
  <2> QED
    BY <1>1, <2>1, <2>2 DEF Comes
<1>4. ASSUME NEW i \in DOMAIN (q \o more), i \notin DOMAIN q, NEW j \in DOMAIN more
      PROVE  Comes(q \o more, i, more[j].task)
  <2>1. n + j \in DOMAIN (q \o more) /\ (q \o more)[n + j] = more[j] /\ i > n /\ i \in 1..n + Len(more)
    BY <1>1, <1>4
  <2>2. \A l \in (i..n + j) \cup (n + j..i) : l \in 1..n + Len(more) /\ l > n
    BY <1>1, <1>4, <2>1
  <2> QED
    BY <1>2, <2>1, <2>2 DEF Comes
<1>5. \A i \in DOMAIN (q \o more) : i \notin DOMAIN q => (q \o more)[i].service = s
  BY <1>1, <1>2
<1> QED
  BY <1>3, <1>4, <1>5

-----------------------------------------------------------------------------
(* The parts of a finder's invariant as its steps change it.               *)
Grown(m, x) ==
  \A s : OfTask(m.result, s) \subseteq OfTask(x.result, s) /\ OfTask(m.prompts, s) \subseteq OfTask(x.prompts, s)
LEMMA StaysMade == ASSUME NEW m, NEW x, Grown(m, x) PROVE \A s, t : Made(m, s, t)' => Made(x, s, t)'
  BY DEF Grown, Made, OfTask, Gateways!Names

(* A round that ends in the midst of no service, or of one with a flaw.    *)
LEMMA RoundEnded ==
  ASSUME NEW m, FinderInv(m)', NEW x, x = Gateways!RoundEnds(m),
         \A s \in DOMAIN m.result : ~Gateways!Flawed(s)' => m.tasks = <<>> \/ m.tasks[1].service # s,
         m.step = "make" => ~Sound(m)',
         m.step = "save prompts" => \A s \in DOMAIN m.result : kind' = "mcp" /\ ~Gateways!Flawed(s)' => PromptsThere(s)'
  PROVE  FinderInv(x)'
<1>1. FinderOK(m)' /\ OthersMade(m)' /\ Saved(m)'
  BY DEF FinderInv
<1>2. /\ DOMAIN x = DOMAIN m /\ x.step = "round" /\ x.todo = <<>> /\ x.tasks = <<>> /\ x.result = m.result
      /\ x.prompts = m.prompts /\ x.for = m.for
  BY <1>1 DEF Gateways!RoundEnds, FinderOK
<1>3. <<>> \in Seq(Rows) /\ <<>> \in Seq(DOMAIN TasksOf) /\ DOMAIN <<>> = {}
  BY EmptyQueue, EmptyHasNone
<1>4. FinderOK(x)'
  BY <1>1, <1>2, <1>3 DEF FinderOK, Steps
<1>5. InRuns(x)'
  BY <1>2, <1>3 DEF InRuns
<1>6. Grown(m, x)
  BY <1>2 DEF Grown
<1>7. OthersMade(x)'
  BY <1>1, <1>2, <1>6, StaysMade DEF OthersMade, MadeInFull
<1>8. Saved(x)'
  <2>1. Sound(x)' => Sound(m)'
    BY <1>2 DEF Sound
  <2> QED
    BY <1>1, <1>2, <2>1 DEF Saved, Sound, FinderOK
<1> QED
  BY <1>4, <1>5, <1>7, <1>8 DEF FinderInv

(* A task that is made, or left out.                                       *)
LEMMA TaskMade ==
  ASSUME NEW m, FinderInv(m)', m.step = "make", m.tasks # <<>>, NEW x, FinderOK(x)', x.step = "make",
         x.tasks = Tail(m.tasks), x.for = m.for, Grown(m, x),
         DOMAIN x.result \subseteq DOMAIN m.result \cup {m.tasks[1].service},
         m.tasks[1].task \in Gateways!Shown(m.tasks[1].service)' => Made(x, m.tasks[1].service, m.tasks[1].task)'
  PROVE  FinderInv(x)'
<1> DEFINE q == m.tasks
<1>1. FinderOK(m)' /\ InRuns(m)' /\ OthersMade(m)' /\ q \in Seq(Rows) /\ Tail(q) \in Seq(Rows) /\ 1 \in DOMAIN q
  BY DEF FinderInv, FinderOK
<1>2. \A s, t : Made(m, s, t)' => Made(x, s, t)'
  BY StaysMade
<1>3. \A i \in DOMAIN q : \A t \in Gateways!Shown(q[i].service)' : Made(m, q[i].service, t)' \/ Comes(q, i, t)
  BY <1>1, ComesIsConstant DEF InRuns
<1>4. InRuns(x)'
  <2> SUFFICES ASSUME NEW i \in DOMAIN Tail(q), NEW t \in Gateways!Shown(Tail(q)[i].service)'
               PROVE  Made(x, Tail(q)[i].service, t)' \/ Comes(Tail(q), i, t)
    BY ComesIsConstant DEF InRuns
  <2>1. i + 1 \in DOMAIN q /\ Tail(q)[i] = q[i + 1]
    BY <1>1, TailOf
  <2>2. CASE Made(m, q[i + 1].service, t)'
    BY <1>2, <2>1, <2>2
  <2>3. CASE Comes(q, i + 1, t)
    <3>1. Comes(Tail(q), i, t) \/ (q[1].task = t /\ q[1].service = Tail(q)[i].service)
      BY <1>1, <2>3, ComesAfter
    <3> QED
      BY <3>1
  <2> QED
    BY <1>3, <2>1, <2>2, <2>3
<1>5. OthersMade(x)'
  <2> SUFFICES ASSUME NEW s \in DOMAIN x.result, ~Gateways!Flawed(s)', ~(Tail(q) # <<>> /\ Tail(q)[1].service = s),
                      NEW t \in Gateways!Shown(s)'
               PROVE  Made(x, s, t)'
    BY DEF OthersMade, MadeInFull
  <2>1. CASE s = q[1].service
    <3>1. Made(m, s, t)' \/ Comes(q, 1, t)
      BY <1>1, <1>3, <2>1
    <3>2. Comes(q, 1, t) => q[1].task = t
      BY <1>1, <2>1, ComesAfter
    <3> QED
      BY <1>2, <2>1, <3>1, <3>2
  <2>2. CASE s # q[1].service
    <3>1. MadeInFull(m, s)'
      BY <1>1, <2>2 DEF OthersMade
    <3>2. Made(m, s, t)'
      BY <3>1 DEF MadeInFull
    <3> QED
      BY <1>2, <3>2
  <2> QED
    BY <2>1, <2>2
<1>6. Saved(x)'
  BY DEF Saved
<1> QED
  BY <1>4, <1>5, <1>6 DEF FinderInv

(* Another step of a finder that has found no more.                        *)
LEMMA FinderGoesOn ==
  ASSUME NEW m, FinderInv(m)', NEW x, FinderOK(x)', x.tasks = m.tasks, x.result = m.result, x.prompts = m.prompts,
         x.for = m.for, x.step # "make" /\ Sound(x)' => \A s \in DOMAIN x.result : ToolsThere(s)',
         x.step \notin {"make", "save prompts"} /\ Sound(x)' => \A s \in DOMAIN x.result : PromptsThere(s)'
  PROVE  FinderInv(x)'
<1>1. InRuns(m)' /\ OthersMade(m)'
  BY DEF FinderInv
<1>2. Grown(m, x)
  BY DEF Grown
<1>3. \A s, t : Made(m, s, t)' => Made(x, s, t)'
  BY <1>2, StaysMade
<1>4. InRuns(x)'
  BY <1>1, <1>3, ComesIsConstant DEF InRuns
<1>5. OthersMade(x)'
  BY <1>1, <1>3 DEF OthersMade, MadeInFull
<1>6. Saved(x)'
  BY DEF Saved
<1> QED
  BY <1>4, <1>5, <1>6 DEF FinderInv

(* A task that is made while it is still the first.                        *)
LEMMA TaskEntered ==
  ASSUME NEW m, FinderInv(m)', m.tasks # <<>>, NEW x, FinderOK(x)', x.step = "make", x.tasks = m.tasks, x.for = m.for,
         Grown(m, x), DOMAIN x.result \subseteq DOMAIN m.result \cup {m.tasks[1].service}
  PROVE  FinderInv(x)'
<1>1. InRuns(m)' /\ OthersMade(m)'
  BY DEF FinderInv
<1>2. \A s, t : Made(m, s, t)' => Made(x, s, t)'
  BY StaysMade
<1>3. InRuns(x)'
  BY <1>1, <1>2, ComesIsConstant DEF InRuns
<1>4. OthersMade(x)'
  BY <1>1, <1>2 DEF OthersMade, MadeInFull
<1>5. Saved(x)'
  BY DEF Saved
<1> QED
  BY <1>3, <1>4, <1>5 DEF FinderInv

LEMMA TablesAsBefore == ASSUME kind' = kind, published' = published, prompts' = prompts PROVE TablesStay
<1>1. \A s : /\ OfTask(published, s)' = OfTask(published, s) /\ OfTask(prompts, s)' = OfTask(prompts, s)
             /\ Gateways!Offered(s)' = Gateways!Offered(s) /\ ShownPrompts(s)' = ShownPrompts(s)
  BY SameKind DEF OfTask, Gateways!Names
<1> QED
  BY <1>1 DEF TablesStay, ToolsThere, PromptsThere

LEMMA FinderKeeps ==
  ASSUME part = "gateway", GatewayInv, TablesStay, NEW f \in DOMAIN finder, NEW x, FinderInv(x)',
         finder' = [finder EXCEPT ![f] = x], UNCHANGED <<workers, http, tokens, granted>>,
         \A s : OfTask(published, s)' \subseteq Gateways!Offered(s) /\ OfTask(prompts, s)' \subseteq ShownPrompts(s)
  PROVE  GatewayInv'
<1>1. /\ kind \in {"api", "mcp"} /\ kind' = kind /\ workers \subseteq DOMAIN ServiceOf
      /\ \A g \in DOMAIN finder : \A m : m = finder[g] => FinderInv(m)
      /\ \A r \in DOMAIN http : DOMAIN http[r] = {"state", "to", "service", "task", "delivered"}
      /\ \A s, r : r \in DOMAIN http /\ http[r].to = "call" /\ http[r].service = s => http[r].task \in Gateways!Offered(s)
      /\ granted = {<<t, tokens[t].tag>> : t \in DOMAIN tokens}
  BY DEF GatewayInv, TablesStay
<1>2. \A s : Gateways!Offered(s)' = Gateways!Offered(s) /\ ShownPrompts(s)' = ShownPrompts(s)
  BY <1>1, SameKind
<1>3. ASSUME NEW g \in DOMAIN finder, NEW m, m = finder'[g] PROVE FinderInv(m)'
  <2>1. CASE g = f
    <3>1. m = x
      BY <1>3, <2>1
    <3> QED
      BY <3>1
  <2>2. CASE g # f
    <3>1. FinderInv(m)
      BY <1>1, <1>3, <2>2
    <3> QED
      BY <1>1, <3>1, OthersStay
  <2> QED
    BY <2>1, <2>2
<1>4. \A m \in {finder'[g] : g \in DOMAIN finder'} : FinderInv(m)'
  BY <1>3
<1>5. \A s : /\ OfTask(published, s)' \subseteq Gateways!Offered(s)' /\ OfTask(prompts, s)' \subseteq ShownPrompts(s)'
             /\ \A r \in DOMAIN http : http[r].to = "call" /\ http[r].service = s => http[r].task \in Gateways!Offered(s)'
  BY <1>1, <1>2
<1> QED
  BY <1>1, <1>4, <1>5 DEF GatewayInv


-----------------------------------------------------------------------------
(* What the steps of a finder start from.                                  *)
LEMMA FinderNow ==
  ASSUME part = "gateway", GatewayInv, NEW f \in DOMAIN finder, NEW m, m = finder[f]
  PROVE  /\ FinderInv(m) /\ FinderOK(m) /\ kind \in {"api", "mcp"}
         /\ \A s : OfTask(published, s) \subseteq Gateways!Offered(s) /\ OfTask(prompts, s) \subseteq ShownPrompts(s)
  BY DEF GatewayInv, FinderInv

(* Steps that leave the tables alone.                                      *)
LEMMA TablesLeft ==
  ASSUME part = "gateway", GatewayInv, UNCHANGED <<kind, workers, published, prompts, http, tokens, granted>>,
         NEW f \in DOMAIN finder, NEW x, FinderInv(x)', finder' = [finder EXCEPT ![f] = x]
  PROVE  GatewayInv'
<1>1. TablesStay
  BY TablesAsBefore
<1>2. \A s : OfTask(published, s)' = OfTask(published, s) /\ OfTask(prompts, s)' = OfTask(prompts, s)
  BY DEF OfTask, Gateways!Names
<1>3. \A s : OfTask(published, s)' \subseteq Gateways!Offered(s) /\ OfTask(prompts, s)' \subseteq ShownPrompts(s)
  BY <1>2 DEF GatewayInv
<1> QED
  BY <1>1, <1>3, FinderKeeps

LEMMA FinderEndsKeeps ==
  ASSUME part = "gateway", GatewayInv, NEW f \in DOMAIN finder, Gateways!FinderEnds(f)
  PROVE  GatewayInv'
<1> DEFINE m == finder[f]
           x == [m EXCEPT !.step = "over"]
<1>1. FinderInv(m) /\ FinderOK(m) /\ m.step = "round" /\ finder' = [finder EXCEPT ![f] = x]
      /\ UNCHANGED <<kind, workers, published, prompts, http, tokens, granted>>
  BY FinderNow DEF Gateways!FinderEnds, Gateways!Find, Gateways!tables, Gateways!access
<1> SUFFICES ASSUME NEW n, n = m, NEW y, y = x PROVE FinderInv(y)'
  BY <1>1, TablesLeft
<1>2. FinderInv(n)' /\ FinderOK(n)
  BY <1>1, FinderNow, OthersStay, TablesAsBefore
<1>3. /\ DOMAIN y = DOMAIN n /\ y.step = "over" /\ n.step = "round" /\ y.tasks = n.tasks /\ y.result = n.result
      /\ y.prompts = n.prompts /\ y.for = n.for /\ y.todo = n.todo
  BY <1>1, <1>2 DEF FinderOK
<1>4. FinderOK(y)'
  BY <1>1, <1>2, <1>3, SameKind DEF FinderOK, Steps
<1>5. Sound(y)' => Sound(n)'
  BY <1>3 DEF Sound
<1> QED
  BY <1>2, <1>3, <1>4, <1>5, FinderGoesOn DEF FinderInv, Saved


(* A round ends before anything is made.                                   *)
LEMMA AskingEnds ==
  ASSUME UNCHANGED <<kind, published, prompts>>, kind \in {"api", "mcp"}, NEW m, FinderInv(m), m.step \in {"round", "ask"},
         NEW x, x = Gateways!RoundEnds(m)
  PROVE  FinderInv(x)'
<1>1. FinderInv(m)' /\ FinderOK(m)
  BY OthersStay, TablesAsBefore DEF FinderInv
<1>2. \A s \in DOMAIN m.result : m.tasks = <<>> \/ m.tasks[1].service # s
  <2>1. m.tasks # <<>> => 1 \in DOMAIN m.tasks
    BY <1>1, TailOf DEF FinderOK
  <2> QED
    BY <1>1, <2>1 DEF FinderOK
<1> QED
  BY <1>1, <1>2, RoundEnded

LEMMA ShowWorkersKeeps ==
  ASSUME part = "gateway", GatewayInv, NEW f \in DOMAIN finder, Gateways!ShowWorkers(f)
  PROVE  GatewayInv'
<1> DEFINE m == finder[f]
           asking == {w \in workers : ServiceOf[w] \in m.for}
           Shows(x) == \E order \in Gateways!SetToSeqs(asking) :
                         x = [m EXCEPT !.step = "ask", !.todo = [i \in DOMAIN order |-> ServiceOf[order[i]]]]
<1>1. /\ FinderInv(m) /\ FinderOK(m) /\ kind \in {"api", "mcp"} /\ m.step = "round" /\ workers \subseteq DOMAIN ServiceOf
      /\ UNCHANGED <<kind, workers, published, prompts, http, tokens, granted>>
  BY FinderNow DEF Gateways!ShowWorkers, Gateways!Find, Gateways!tables, Gateways!access, GatewayInv
<1>2. \E x : finder' = [finder EXCEPT ![f] = x] /\ (Shows(x) \/ x = Gateways!RoundEnds(m))
  BY DEF Gateways!ShowWorkers, Gateways!Find
<1>3. ASSUME NEW x, Shows(x) PROVE FinderInv(x)'
  <2>1. PICK order \in Gateways!SetToSeqs(asking) :
          x = [m EXCEPT !.step = "ask", !.todo = [i \in DOMAIN order |-> ServiceOf[order[i]]]]
    BY <1>3
  <2>2. IsFiniteSet(asking)
    <3>1. IsFiniteSet(DOMAIN ServiceOf)
      BY GatewayAssumption DEF Gateways!GatewayIsGiven, Gateways!IsFiniteSet, IsFiniteSet
    <3> QED
      BY <1>1, <3>1, FS_Subset
  <2>3. order \in [1..Cardinality(asking) -> asking] /\ Cardinality(asking) \in Nat
    BY <2>2, FS_CardinalityType DEF Gateways!SetToSeqs, Gateways!Cardinality, Cardinality
  <2> DEFINE asked == [i \in DOMAIN order |-> ServiceOf[order[i]]]
  <2>4. asked \in Seq(DOMAIN TasksOf) /\ \A i \in DOMAIN asked : asked[i] \in m.for
    <3>1. \A w \in asking : ServiceOf[w] \in DOMAIN TasksOf /\ ServiceOf[w] \in m.for
      BY <1>1, GatewayAssumption DEF Gateways!GatewayIsGiven
    <3>2. asked \in [1..Cardinality(asking) -> DOMAIN TasksOf]
      BY <2>3, <3>1
    <3>3. asked \in Seq(DOMAIN TasksOf)
      BY <2>3, <3>2, IsQueue
    <3>4. \A i \in DOMAIN asked : order[i] \in asking /\ asked[i] = ServiceOf[order[i]]
      BY <2>3
    <3> QED
      BY <3>1, <3>3, <3>4
  <2> SUFFICES ASSUME NEW n, n = m PROVE FinderInv(x)'
    OBVIOUS
  <2>5. FinderInv(n)' /\ FinderOK(n) /\ n.step = "round"
    BY <1>1, OthersStay, TablesAsBefore
  <2>6. /\ DOMAIN x = DOMAIN n /\ x.step = "ask" /\ x.tasks = n.tasks /\ x.result = n.result
        /\ x.prompts = n.prompts /\ x.for = n.for /\ x.todo = asked
    BY <2>1, <2>5 DEF FinderOK
  <2>7. n.tasks = <<>>
    BY <2>5 DEF FinderOK
  <2>8. FinderOK(x)'
    <3>1. x.todo \in Seq(DOMAIN TasksOf) /\ \A i \in DOMAIN x.todo : x.todo[i] \in x.for
      BY <2>4, <2>6
    <3> HIDE DEF asked
    <3>2. FinderOK(x)
      BY <2>5, <2>6, <2>7, <3>1, EmptyHasNone DEF FinderOK, Steps
    <3> QED
      BY <1>1, <3>2, SameKind
  <2>9. Sound(x)' => Sound(n)'
    BY <2>6 DEF Sound
  <2> QED
    BY <2>5, <2>6, <2>8, <2>9, FinderGoesOn DEF FinderInv, Saved
<1>4. ASSUME NEW x, x = Gateways!RoundEnds(m) PROVE FinderInv(x)'
  BY <1>1, <1>4, AskingEnds
<1> QED
  BY <1>1, <1>2, <1>3, <1>4, TablesLeft


(* The next service, whose tasks may be told.                              *)
LEMMA ServiceAsked ==
  ASSUME UNCHANGED <<kind, published, prompts>>, kind \in {"api", "mcp"}, NEW m, FinderInv(m), m.step = "ask", m.todo # <<>>,
         NEW x, x = [m EXCEPT !.todo = Tail(@)]
  PROVE  FinderInv(x)'
<1>1. FinderInv(m)' /\ FinderOK(m)
  BY OthersStay, TablesAsBefore DEF FinderInv
<1>2. /\ DOMAIN x = DOMAIN m /\ x.step = "ask" /\ x.tasks = m.tasks /\ x.result = m.result
      /\ x.prompts = m.prompts /\ x.for = m.for /\ x.todo = Tail(m.todo)
  BY <1>1 DEF FinderOK
<1>3. /\ Tail(m.todo) \in Seq(DOMAIN TasksOf)
      /\ \A i \in DOMAIN Tail(m.todo) : i + 1 \in DOMAIN m.todo /\ Tail(m.todo)[i] = m.todo[i + 1]
  <2>1. m.todo \in Seq(DOMAIN TasksOf)
    BY <1>1 DEF FinderOK
  <2> QED
    BY <2>1, TailOf
<1>4. FinderOK(x)'
  BY <1>1, <1>2, <1>3, SameKind DEF FinderOK
<1>5. Sound(x)' => Sound(m)'
  BY <1>2 DEF Sound
<1> QED
  BY <1>1, <1>2, <1>4, <1>5, FinderGoesOn DEF FinderInv, Saved

(* What a worker tells of its service.                                     *)
LEMMA RowsTold ==
  ASSUME NEW s \in DOMAIN TasksOf, NEW found,
         found = [i \in DOMAIN TasksOf[s] |-> [service |-> s, task |-> TasksOf[s][i]]]
  PROVE  /\ found \in Seq(Rows) /\ \A i \in DOMAIN found : found[i].service = s
         /\ \A t \in Gateways!Shown(s) : \E i \in DOMAIN found : found[i].task = t
<1>1. TasksOf[s] \in Seq(Gateways!ToSet(TasksOf[s]))
  BY GatewayAssumption DEF Gateways!GatewayIsGiven
<1>2. DOMAIN found = DOMAIN TasksOf[s] /\ \A i \in DOMAIN found : found[i].service = s /\ found[i].task = TasksOf[s][i]
  OBVIOUS
<1>3. \A i \in DOMAIN found : TasksOf[s][i] \in Gateways!ToSet(TasksOf[s]) /\ found[i] \in Rows
  <2>1. \A i \in DOMAIN found : TasksOf[s][i] \in Gateways!ToSet(TasksOf[s])
    BY <1>1, <1>2
  <2> QED
    BY <2>1 DEF Rows
<1>4. found \in Seq(Rows)
  <2>1. Len(TasksOf[s]) \in Nat /\ DOMAIN TasksOf[s] = 1..Len(TasksOf[s])
    BY <1>1
  <2>2. found \in [1..Len(TasksOf[s]) -> Rows]
    BY <1>3, <2>1
  <2> QED
    BY <2>1, <2>2, IsQueue
<1>5. \A t \in Gateways!Shown(s) : \E i \in DOMAIN found : found[i].task = t
  BY <1>2 DEF Gateways!Shown, Gateways!ToSet
<1> QED
  BY <1>2, <1>4, <1>5

LEMMA TasksTold ==
  ASSUME UNCHANGED <<kind, published, prompts>>, kind \in {"api", "mcp"}, NEW m, FinderInv(m)', m.step = "ask",
         NEW s, s \notin DOMAIN m.result, s \in m.for,
         NEW found \in Seq(Rows), \A i \in DOMAIN found : found[i].service = s,
         \A t \in Gateways!Shown(s) : \E i \in DOMAIN found : found[i].task = t,
         NEW x, x = [m EXCEPT !.tasks = @ \o found]
  PROVE  FinderInv(x)'
<1> DEFINE q == m.tasks
<1>1. FinderInv(m)' /\ FinderOK(m) /\ q \in Seq(Rows) /\ InRuns(m)' /\ OthersMade(m)' /\ Saved(m)'
  BY SameKind DEF FinderInv, FinderOK
<1>2. /\ DOMAIN x = DOMAIN m /\ x.step = "ask" /\ x.tasks = q \o found /\ x.result = m.result
      /\ x.prompts = m.prompts /\ x.for = m.for /\ x.todo = m.todo
  BY <1>1 DEF FinderOK
<1>3. \A t \in Gateways!Shown(s)' : \E i \in DOMAIN found : found[i].task = t
  BY SameKind
<1> HIDE DEF q
<1>4. /\ \A i \in DOMAIN q : \A t : Comes(q, i, t) => Comes(q \o found, i, t)
      /\ \A i \in DOMAIN (q \o found) : i \notin DOMAIN q =>
           /\ (q \o found)[i].service = s
           /\ \A j \in DOMAIN found : Comes(q \o found, i, found[j].task)
  BY <1>1, ComesMore
<1>5. /\ q \o found \in Seq(Rows)
      /\ \A i \in DOMAIN (q \o found) :
           IF i \in DOMAIN q THEN (q \o found)[i] = q[i] ELSE (q \o found)[i].service = s
  <2>1. q \o found \in Seq(Rows) /\ \A i \in DOMAIN q : (q \o found)[i] = q[i]
    BY <1>1
  <2> QED
    BY <1>4, <2>1
<1>6. FinderOK(x)'
  <2>1. \A i \in DOMAIN x.tasks : x.tasks[i].service \in x.for /\ x.tasks[i].service \notin DOMAIN x.result
    BY <1>1, <1>2, <1>5 DEF FinderOK, q
  <2>2. FinderOK(x)
    BY <1>1, <1>2, <1>5, <2>1 DEF FinderOK
  <2> QED
    BY <2>2, SameKind
<1>7. \A r, t : Made(m, r, t)' => Made(x, r, t)'
  BY <1>2, StaysMade DEF Grown
<1>8. InRuns(x)'
  <2> SUFFICES ASSUME NEW i \in DOMAIN x.tasks, NEW t \in Gateways!Shown(x.tasks[i].service)'
               PROVE  Made(x, x.tasks[i].service, t)' \/ Comes(x.tasks, i, t)
    BY ComesIsConstant DEF InRuns
  <2>1. CASE i \in DOMAIN q
    <3>1. x.tasks[i] = q[i]
      BY <1>2, <1>5, <2>1
    <3>2. Made(m, q[i].service, t)' \/ Comes(q, i, t)
      BY <1>1, <2>1, <3>1, ComesIsConstant DEF InRuns, q
    <3> QED
      BY <1>2, <1>4, <1>7, <2>1, <3>1, <3>2
  <2>2. CASE i \notin DOMAIN q
    <3>1. x.tasks[i].service = s
      BY <1>2, <1>4, <2>2
    <3>2. PICK j \in DOMAIN found : found[j].task = t
      BY <1>3, <3>1
    <3>3. Comes(q \o found, i, found[j].task)
      BY <1>2, <1>4, <2>2
    <3> QED
      BY <1>2, <3>2, <3>3
  <2> QED
    BY <2>1, <2>2
<1>9. OthersMade(x)'
  <2>1. \A r \in DOMAIN m.result : q = <<>> \/ q[1].service # r
    <3>1. q # <<>> => 1 \in DOMAIN q
      BY <1>1
    <3> QED
      BY <1>1, <3>1 DEF FinderOK, q
  <2> QED
    BY <1>1, <1>2, <1>7, <2>1 DEF OthersMade, MadeInFull, q
<1>10. Saved(x)'
  BY <1>1, <1>2 DEF Saved, Sound
<1> QED
  BY <1>6, <1>8, <1>9, <1>10 DEF FinderInv


LEMMA ListTasksKeeps ==
  ASSUME part = "gateway", GatewayInv, NEW f \in DOMAIN finder, Gateways!ListTasks(f)
  PROVE  GatewayInv'
<1> DEFINE m == finder[f]
           s == Head(m.todo)
           found == [i \in DOMAIN TasksOf[s] |-> [service |-> s, task |-> TasksOf[s][i]]]
           later == [m EXCEPT !.todo = Tail(@)]
           more == [later EXCEPT !.tasks = @ \o found]
<1>1. /\ FinderInv(m) /\ FinderOK(m) /\ kind \in {"api", "mcp"} /\ m.step = "ask" /\ m.todo # <<>>
      /\ UNCHANGED <<kind, workers, published, prompts, http, tokens, granted>>
  BY FinderNow DEF Gateways!ListTasks, Gateways!Find, Gateways!tables, Gateways!access
<1>2. \E x : /\ finder' = [finder EXCEPT ![f] = x]
             /\ x = later \/ x = Gateways!RoundEnds(m) \/ (s \notin DOMAIN m.result /\ x = more)
  <2>1. CASE finder' = [finder EXCEPT ![f] = later]
    BY <2>1
  <2>2. CASE finder' = [finder EXCEPT ![f] = Gateways!RoundEnds(m)]
    BY <2>2
  <2>3. CASE s \notin DOMAIN m.result /\ finder' = [finder EXCEPT ![f] = more]
    BY <2>3
  <2> QED
    BY <2>1, <2>2, <2>3 DEF Gateways!ListTasks, Gateways!Find
<1>3. ASSUME NEW x, x = later PROVE FinderInv(x)'
  BY <1>1, <1>3, ServiceAsked
<1>4. ASSUME NEW x, x = Gateways!RoundEnds(m) PROVE FinderInv(x)'
  BY <1>1, <1>4, AskingEnds
<1>5. ASSUME NEW x, s \notin DOMAIN m.result, x = more PROVE FinderInv(x)'
  <2> SUFFICES ASSUME NEW l, l = later, FinderInv(l)' PROVE FinderInv(x)'
    BY <1>3
  <2>1. /\ DOMAIN l = DOMAIN m /\ l.step = "ask" /\ l.result = m.result /\ l.for = m.for /\ x = [l EXCEPT !.tasks = @ \o found]
    BY <1>1, <1>5 DEF FinderOK
  <2>2. s \in DOMAIN TasksOf /\ s \in m.for
    <3>1. s = m.todo[1] /\ 1 \in DOMAIN m.todo /\ m.todo[1] \in DOMAIN TasksOf
      <4>1. m.todo \in Seq(DOMAIN TasksOf)
        BY <1>1 DEF FinderOK
      <4> QED
        BY <1>1, <4>1, TailOf
    <3> QED
      BY <1>1, <3>1 DEF FinderOK
  <2>3. /\ found \in Seq(Rows) /\ \A i \in DOMAIN found : found[i].service = s
        /\ \A t \in Gateways!Shown(s) : \E i \in DOMAIN found : found[i].task = t
    BY <2>2, RowsTold
  <2> HIDE DEF found, later, more
  <2> QED
    <3>1. s \notin DOMAIN l.result /\ s \in l.for /\ l.step = "ask"
      BY <1>5, <2>1, <2>2
    <3> QED
      BY <1>1, <2>1, <2>3, <3>1, TasksTold
<1> QED
  BY <1>1, <1>2, <1>3, <1>4, <1>5, TablesLeft


LEMMA AllAskedKeeps ==
  ASSUME part = "gateway", GatewayInv, NEW f \in DOMAIN finder, Gateways!AllAsked(f)
  PROVE  GatewayInv'
<1> DEFINE m == finder[f]
           x == [m EXCEPT !.step = "make"]
<1>1. FinderInv(m) /\ finder' = [finder EXCEPT ![f] = x]
      /\ kind \in {"api", "mcp"} /\ UNCHANGED <<kind, workers, published, prompts, http, tokens, granted>>
  BY FinderNow DEF Gateways!AllAsked, Gateways!Find, Gateways!tables, Gateways!access
<1> SUFFICES ASSUME NEW n, n = m, NEW y, y = x PROVE FinderInv(y)'
  BY <1>1, TablesLeft
<1>2. FinderInv(n)' /\ FinderOK(n)
  BY <1>1, OthersStay, TablesAsBefore DEF FinderInv
<1>3. /\ DOMAIN y = DOMAIN n /\ y.step = "make" /\ y.tasks = n.tasks /\ y.result = n.result
      /\ y.prompts = n.prompts /\ y.for = n.for /\ y.todo = n.todo
  BY <1>2 DEF FinderOK
<1>4. FinderOK(y)'
  BY <1>1, <1>2, <1>3, SameKind DEF FinderOK, Steps
<1> QED
  BY <1>2, <1>3, <1>4, FinderGoesOn

-----------------------------------------------------------------------------
(* The task that a finder makes next.                                      *)
LEMMA TaskNext ==
  ASSUME NEW m, FinderOK(m), m.tasks # <<>>, NEW s, s = Head(m.tasks).service, NEW t, t = Head(m.tasks).task
  PROVE  /\ s = m.tasks[1].service /\ t = m.tasks[1].task /\ s \in m.for /\ s \in DOMAIN TasksOf
         /\ t \in Gateways!ToSet(TasksOf[s]) /\ Tail(m.tasks) \in Seq(Rows)
         /\ \A i \in DOMAIN Tail(m.tasks) : Tail(m.tasks)[i].service \in m.for
         /\ t \in Gateways!Shown(s) <=> ~Gateways!Hidden(s, t)
<1>1. m.tasks \in Seq(Rows)
  BY DEF FinderOK
<1>2. /\ Tail(m.tasks) \in Seq(Rows) /\ Head(m.tasks) = m.tasks[1] /\ 1 \in DOMAIN m.tasks /\ m.tasks[1] \in Rows
      /\ \A i \in DOMAIN Tail(m.tasks) : i + 1 \in DOMAIN m.tasks /\ Tail(m.tasks)[i] = m.tasks[i + 1]
  BY <1>1, TailOf
<1>3. s \in DOMAIN TasksOf /\ t \in Gateways!ToSet(TasksOf[s])
  BY <1>2, RowIsOf
<1> QED
  <2>1. \A i \in DOMAIN Tail(m.tasks) : Tail(m.tasks)[i].service \in m.for
    BY <1>2 DEF FinderOK
  <2>2. s = m.tasks[1].service /\ t = m.tasks[1].task /\ s \in m.for
    BY <1>2 DEF FinderOK
  <2>3. t \in Gateways!Shown(s) <=> ~Gateways!Hidden(s, t)
    BY <1>3 DEF Gateways!Shown
  <2> QED
    BY <1>2, <1>3, <2>1, <2>2, <2>3

(* Room for a service, and more for it.                                    *)
RoomFor(m, s, x) ==
  /\ DOMAIN x = DOMAIN m /\ x.step = m.step /\ x.for = m.for /\ x.todo = m.todo /\ Grown(m, x)
  /\ DOMAIN x.result = DOMAIN m.result \cup {s} /\ (kind = "mcp" => DOMAIN x.prompts = DOMAIN x.result)
  /\ \A r : OfTask(x.result, r) \subseteq Gateways!Offered(r) /\ OfTask(x.prompts, r) \subseteq ShownPrompts(r)

HasMore(x, y, s, more) ==
  /\ DOMAIN x = DOMAIN y \cup {s}
  /\ \A r, e : e \in OfTask(x, r) <=> e \in OfTask(y, r) \/ (r = s /\ e \in more)
LEMMA MoreAdded ==
  ASSUME NEW x, NEW y, NEW s, NEW more, x = Gateways!Adding(y, s, more)
  PROVE  HasMore(x, y, s, more)
<1>1. DOMAIN x = DOMAIN y \cup {s} /\ \A e : e \in x[s] <=> e \in Gateways!Names(y, s) \/ e \in more
  BY DEF Gateways!Adding
<1>2. \A r \in DOMAIN y : r # s => x[r] = y[r]
  BY DEF Gateways!Adding
<1>3. \A e : e \in OfTask(x, s) <=> e \in OfTask(y, s) \/ e \in more
  BY <1>1 DEF OfTask, Gateways!Names
<1>4. \A r : r # s => OfTask(x, r) = OfTask(y, r)
  BY <1>1, <1>2 DEF OfTask, Gateways!Names
<1> QED
  BY <1>1, <1>3, <1>4 DEF HasMore

LEMMA AddedTwice ==
  ASSUME NEW table, NEW s, NEW more
  PROVE  Gateways!Adding(Gateways!Adding(table, s, {}), s, more) = Gateways!Adding(table, s, more)
  BY DEF Gateways!Adding, Gateways!Names

LEMMA RoomMade ==
  ASSUME kind' = kind, NEW m, FinderOK(m), m.step = "make", NEW s \in m.for, NEW x, RoomFor(m, s, x),
         x.tasks \in Seq(Rows), \A i \in DOMAIN x.tasks : x.tasks[i].service \in x.for
  PROVE  FinderOK(x)'
<1>1. FinderOK(x)
  BY DEF FinderOK, RoomFor
<1> QED
  BY <1>1, SameKind

(* A task is left out, made, or raises.                                    *)
LEMMA TaskLeft ==
  ASSUME kind' = kind, NEW m, FinderInv(m)', m.step = "make", m.tasks # <<>>,
         Head(m.tasks).task \notin Gateways!Shown(Head(m.tasks).service), NEW x, x = Gateways!Leave(m)
  PROVE  FinderInv(x)'
<1>1. FinderOK(m)
  BY SameKind DEF FinderInv
<1>2. /\ Head(m.tasks).service = m.tasks[1].service /\ Head(m.tasks).task = m.tasks[1].task
      /\ Tail(m.tasks) \in Seq(Rows) /\ \A i \in DOMAIN Tail(m.tasks) : Tail(m.tasks)[i].service \in m.for
  BY <1>1, TaskNext
<1>3. /\ DOMAIN x = DOMAIN m /\ x.step = "make" /\ x.tasks = Tail(m.tasks) /\ x.result = m.result
      /\ x.prompts = m.prompts /\ x.for = m.for /\ x.todo = m.todo
  BY <1>1 DEF FinderOK, Gateways!Leave
<1>4. FinderOK(x)'
  <2>1. FinderOK(x)
    BY <1>1, <1>2, <1>3 DEF FinderOK
  <2> QED
    BY <2>1, SameKind
<1>5. Grown(m, x) /\ DOMAIN x.result \subseteq DOMAIN m.result \cup {m.tasks[1].service}
  BY <1>3 DEF Grown
<1>6. m.tasks[1].task \notin Gateways!Shown(m.tasks[1].service)'
  BY <1>2, SameKind
<1> QED
  BY <1>3, <1>4, <1>5, <1>6, TaskMade

LEMMA TaskDone ==
  ASSUME kind' = kind, NEW m, FinderInv(m)', m.step = "make", m.tasks # <<>>,
         NEW s, s = Head(m.tasks).service, NEW x, RoomFor(m, s, x), x.tasks = Tail(m.tasks),
         Made(x, s, Head(m.tasks).task)'
  PROVE  FinderInv(x)'
<1>1. FinderOK(m)
  BY SameKind DEF FinderInv
<1>2. /\ s = m.tasks[1].service /\ Head(m.tasks).task = m.tasks[1].task /\ s \in m.for
      /\ Tail(m.tasks) \in Seq(Rows) /\ \A i \in DOMAIN Tail(m.tasks) : Tail(m.tasks)[i].service \in m.for
  BY <1>1, TaskNext
<1>3. x.for = m.for /\ x.step = "make" /\ Grown(m, x) /\ DOMAIN x.result = DOMAIN m.result \cup {s}
  BY DEF RoomFor
<1>4. FinderOK(x)'
  BY <1>1, <1>2, <1>3, RoomMade
<1> QED
  BY <1>2, <1>3, <1>4, TaskMade

LEMMA TaskRaises ==
  ASSUME kind' = kind, NEW m, FinderInv(m)', m.step = "make", m.tasks # <<>>,
         NEW s, s = Head(m.tasks).service, Gateways!Flawed(s), NEW x, x = Gateways!RoundEnds(m)
  PROVE  FinderInv(x)'
<1>1. FinderOK(m) /\ s = m.tasks[1].service /\ s \in m.for
  BY SameKind, TaskNext DEF FinderInv
<1>2. \A r \in DOMAIN m.result : ~Gateways!Flawed(r)' => m.tasks = <<>> \/ m.tasks[1].service # r
  BY <1>1, SameKind
<1>3. ~Sound(m)'
  BY <1>1, SameKind DEF Sound
<1> QED
  BY <1>2, <1>3, RoundEnded

LEMMA TaskRaisesAfter ==
  ASSUME kind' = kind, NEW m, FinderInv(m)', m.step = "make", m.tasks # <<>>,
         NEW s, s = Head(m.tasks).service, Gateways!Flawed(s), NEW y, RoomFor(m, s, y), y.tasks = m.tasks,
         NEW x, x = Gateways!RoundEnds(y)
  PROVE  FinderInv(x)'
<1>1. FinderOK(m) /\ s = m.tasks[1].service /\ s \in m.for
  BY SameKind, TaskNext DEF FinderInv
<1>2. y.for = m.for /\ y.step = "make" /\ Grown(m, y) /\ DOMAIN y.result = DOMAIN m.result \cup {s}
  BY DEF RoomFor
<1>3. y.tasks \in Seq(Rows) /\ \A i \in DOMAIN y.tasks : y.tasks[i].service \in y.for
  BY <1>1, <1>2 DEF FinderOK
<1>4. FinderOK(y)'
  BY <1>1, <1>3, RoomMade
<1>5. FinderInv(y)'
  BY <1>1, <1>2, <1>4, TaskEntered
<1> QED
  BY <1>2, <1>5, TaskRaises


(* What is added to a finder's tables, of what a service offers.           *)
Enters(m, x, s, more, told) ==
  /\ DOMAIN x = DOMAIN m /\ x.step = m.step /\ x.for = m.for /\ x.todo = m.todo
  /\ x.result = Gateways!Adding(m.result, s, more)
  /\ x.prompts = IF kind = "api" THEN m.prompts ELSE Gateways!Adding(m.prompts, s, told)
LEMMA RoomAdded ==
  ASSUME kind \in {"api", "mcp"}, NEW m, FinderOK(m), NEW s, NEW more, more \subseteq Gateways!Offered(s),
         NEW told, told \subseteq ShownPrompts(s), NEW x, Enters(m, x, s, more, told)
  PROVE  /\ RoomFor(m, s, x) /\ more \subseteq OfTask(x.result, s)
         /\ kind = "mcp" => told \subseteq OfTask(x.prompts, s)
<1>1. /\ DOMAIN x.result = DOMAIN m.result \cup {s}
      /\ \A r, e : e \in OfTask(x.result, r) <=> e \in OfTask(m.result, r) \/ (r = s /\ e \in more)
  <2>1. HasMore(x.result, m.result, s, more)
    BY MoreAdded DEF Enters
  <2> QED
    BY <2>1 DEF HasMore
<1>2. \A r : OfTask(m.result, r) \subseteq Gateways!Offered(r) /\ OfTask(m.prompts, r) \subseteq ShownPrompts(r)
  BY DEF FinderOK
<1>3. ASSUME NEW r PROVE OfTask(x.result, r) \subseteq Gateways!Offered(r) /\ OfTask(m.result, r) \subseteq OfTask(x.result, r)
  <2>1. CASE r = s
    BY <1>1, <1>2, <2>1
  <2>2. CASE r # s
    BY <1>1, <1>2, <2>2
  <2> QED
    BY <2>1, <2>2
<1>4. CASE kind = "api"
  <2>1. x.prompts = m.prompts
    BY <1>4 DEF Enters
  <2> QED
    BY <1>1, <1>2, <1>3, <1>4, <2>1 DEF RoomFor, Grown, Enters
<1>5. CASE kind = "mcp"
  <2>1. x.prompts = Gateways!Adding(m.prompts, s, told)
    BY <1>5 DEF Enters
  <2>2. /\ DOMAIN x.prompts = DOMAIN m.prompts \cup {s}
        /\ \A r, e : e \in OfTask(x.prompts, r) <=> e \in OfTask(m.prompts, r) \/ (r = s /\ e \in told)
    <3>1. HasMore(x.prompts, m.prompts, s, told)
      BY <2>1, MoreAdded
    <3> QED
      BY <3>1 DEF HasMore
  <2>3. ASSUME NEW r PROVE OfTask(x.prompts, r) \subseteq ShownPrompts(r) /\ OfTask(m.prompts, r) \subseteq OfTask(x.prompts, r)
    <3>1. CASE r = s
      BY <1>2, <2>2, <3>1
    <3>2. CASE r # s
      BY <1>2, <2>2, <3>2
    <3> QED
      BY <3>1, <3>2
  <2>4. DOMAIN x.prompts = DOMAIN x.result
    BY <1>1, <1>5, <2>2 DEF FinderOK
  <2> QED
    BY <1>1, <1>3, <2>2, <2>3, <2>4 DEF RoomFor, Grown, Enters
<1> QED
  BY <1>1, <1>4, <1>5


LEMMA MakeRouteKeeps ==
  ASSUME part = "gateway", GatewayInv, NEW f \in DOMAIN finder, NEW m, m = finder[f], Gateways!MakeRoute(f)
  PROVE  GatewayInv'
<1> DEFINE s == Head(m.tasks).service
           t == Head(m.tasks).task
           room == [m EXCEPT !.result = Gateways!Adding(@, s, {})]
           route == [Gateways!Leave(room) EXCEPT !.result = Gateways!Adding(@, s, {t.name})]
<1>1. /\ FinderInv(m) /\ FinderOK(m) /\ kind = "api" /\ m.step = "make" /\ m.tasks # <<>>
      /\ UNCHANGED <<kind, workers, prompts, http, tokens, granted>>
      /\ \A r : OfTask(published, r) \subseteq Gateways!Offered(r) /\ OfTask(prompts, r) \subseteq ShownPrompts(r)
  BY FinderNow DEF Gateways!MakeRoute, Gateways!Makes, Gateways!access
<1>2. /\ s = m.tasks[1].service /\ t = m.tasks[1].task /\ s \in m.for
      /\ t \in Gateways!Shown(s) <=> t.published.api
  BY <1>1, TaskNext DEF Gateways!Hidden
<1>3. \/ ~t.published.api /\ published' = published /\ finder' = [finder EXCEPT ![f] = Gateways!Leave(m)]
      \/ /\ t.published.api /\ t.name \in OfTask(published, s) /\ published' = published
         /\ finder' = [finder EXCEPT ![f] = Gateways!Leave(room)]
      \/ /\ t.published.api /\ "schema" \in t.flaws /\ published' = published
         /\ finder' = [finder EXCEPT ![f] = Gateways!RoundEnds(room)]
      \/ /\ t.published.api /\ published' = Gateways!Adding(published, s, {t.name})
         /\ finder' = [finder EXCEPT ![f] = route]
  BY DEF Gateways!MakeRoute, Gateways!ServiceAt, Gateways!TaskAt, Gateways!Find, Gateways!Names,
    OfTask
<1>4. t \in Gateways!Shown(s) => {t.name} \subseteq Gateways!Offered(s)
  BY <1>1 DEF Gateways!Offered, Gateways!Tools
<1>5. published' = Gateways!Adding(published, s, {t.name}) => HasMore(published', published, s, {t.name})
  BY MoreAdded
<1>6. /\ TablesStay
      /\ \A r : OfTask(published, r)' \subseteq Gateways!Offered(r) /\ OfTask(prompts, r)' \subseteq ShownPrompts(r)
  <2>1. \A r : OfTask(published, r)' = OfTask(published', r) /\ OfTask(prompts, r)' = OfTask(prompts, r)
    BY <1>1 DEF OfTask
  <2>2. CASE published' = published
    BY <1>1, <2>1, <2>2 DEF TablesStay
  <2>3. CASE HasMore(published', published, s, {t.name}) /\ t \in Gateways!Shown(s)
    BY <1>1, <1>4, <2>1, <2>3 DEF TablesStay, HasMore
  <2>4. published' = published \/ (t \in Gateways!Shown(s) /\ published' = Gateways!Adding(published, s, {t.name}))
    BY <1>2, <1>3
  <2> QED
    BY <1>5, <2>2, <2>3, <2>4
<1>7. FinderInv(m)'
  BY <1>1, <1>6, OthersStay
<1>8. ASSUME NEW x, ~t.published.api, x = Gateways!Leave(m) PROVE FinderInv(x)'
  BY <1>1, <1>2, <1>7, <1>8, TaskLeft
<1>9. ASSUME NEW x, NEW more, more \subseteq Gateways!Offered(s), Enters(m, x, s, more, {}) PROVE RoomFor(m, s, x)
  BY <1>1, <1>9, RoomAdded
<1>10. ASSUME NEW x, t.published.api, t.name \in OfTask(published, s)', x = Gateways!Leave(room) \/ x = route
       PROVE  FinderInv(x)'
  <2> SUFFICES RoomFor(m, s, x) /\ x.tasks = Tail(m.tasks)
    <3>1. Made(x, s, t)'
      BY <1>1, <1>10 DEF Made
    <3> QED
      BY <1>1, <1>7, <3>1, TaskDone
  <2>1. CASE x = Gateways!Leave(room)
    <3>1. Enters(m, x, s, {}, {}) /\ x.tasks = Tail(m.tasks)
      BY <1>1, <2>1 DEF FinderOK, Gateways!Leave, Enters
    <3> QED
      BY <1>9, <3>1
  <2>2. CASE x = route
    <3>1. /\ DOMAIN x = DOMAIN m /\ x.step = m.step /\ x.for = m.for /\ x.todo = m.todo /\ x.prompts = m.prompts
          /\ x.tasks = Tail(m.tasks) /\ x.result = Gateways!Adding(Gateways!Adding(m.result, s, {}), s, {t.name})
      BY <1>1, <2>2 DEF FinderOK, Gateways!Leave
    <3>2. Enters(m, x, s, {t.name}, {})
      BY <1>1, <3>1, AddedTwice DEF Enters
    <3> QED
      BY <1>2, <1>4, <1>9, <1>10, <3>1, <3>2
  <2> QED
    BY <1>10, <2>1, <2>2
<1>11. ASSUME NEW x, t.published.api, "schema" \in t.flaws, x = Gateways!RoundEnds(room) PROVE FinderInv(x)'
  <2> SUFFICES ASSUME NEW y, y = room PROVE FinderInv(x)'
    OBVIOUS
  <2>1. Enters(m, y, s, {}, {}) /\ y.tasks = m.tasks
    BY <1>1 DEF FinderOK, Enters
  <2>2. RoomFor(m, s, y)
    BY <1>9, <2>1
  <2>3. Gateways!Flawed(s)
    BY <1>1, <1>2, <1>11 DEF Gateways!Flawed, Gateways!Raises
  <2> QED
    BY <1>1, <1>7, <1>11, <2>1, <2>2, <2>3, TaskRaisesAfter
<1>12. \E x : FinderInv(x)' /\ finder' = [finder EXCEPT ![f] = x]
  <2>1. published' = published => OfTask(published, s)' = OfTask(published, s)
    BY DEF OfTask
  <2>2. published' = Gateways!Adding(published, s, {t.name}) => t.name \in OfTask(published, s)'
    <3>1. OfTask(published, s)' = OfTask(published', s)
      BY DEF OfTask
    <3> QED
      BY <1>5, <3>1 DEF HasMore
  <2> QED
    BY <1>3, <1>8, <1>10, <1>11, <2>1, <2>2
<1> QED
  BY <1>1, <1>6, <1>12, FinderKeeps


LEMMA MakeToolKeeps ==
  ASSUME part = "gateway", GatewayInv, NEW f \in DOMAIN finder, NEW m, m = finder[f], Gateways!MakeTool(f)
  PROVE  GatewayInv'
<1> DEFINE s == Head(m.tasks).service
           t == Head(m.tasks).task
           made == [m EXCEPT !.result = Gateways!Adding(@, s, Gateways!Tools(t)),
                             !.prompts = Gateways!Adding(@, s, Gateways!Prompts(t))]
<1>1. /\ FinderInv(m) /\ FinderOK(m) /\ kind = "mcp" /\ m.step = "make" /\ m.tasks # <<>>
      /\ UNCHANGED <<kind, workers, published, prompts, http, tokens, granted>>
  BY FinderNow DEF Gateways!MakeTool, Gateways!Makes, Gateways!access, Gateways!tables
<1>2. t \in Gateways!Shown(s) <=> ~Gateways!Hidden(s, t)
  BY <1>1, TaskNext
<1>3. \E x : /\ finder' = [finder EXCEPT ![f] = x]
             /\ \/ t \notin Gateways!Shown(s) /\ x = Gateways!Leave(m)
                \/ t \in Gateways!Shown(s) /\ "guardrail" \in t.flaws /\ x = Gateways!RoundEnds(m)
                \/ t \in Gateways!Shown(s) /\ "prompt" \in t.flaws /\ x = Gateways!RoundEnds(made)
                \/ t \in Gateways!Shown(s) /\ x = Gateways!Leave(made)
  BY <1>2 DEF Gateways!MakeTool, Gateways!ServiceAt, Gateways!TaskAt, Gateways!Find
<1>4. t \in Gateways!Shown(s) => Gateways!Tools(t) \subseteq Gateways!Offered(s) /\ Gateways!Prompts(t) \subseteq ShownPrompts(s)
  BY DEF Gateways!Offered, ShownPrompts
<1>5. FinderInv(m)'
  BY <1>1, OthersStay, TablesAsBefore
<1>6. t \in Gateways!Shown(s) /\ t.flaws \cap {"guardrail", "prompt"} # {} => Gateways!Flawed(s)
  BY <1>1 DEF Gateways!Flawed, Gateways!Raises
<1>7. ASSUME NEW x, t \notin Gateways!Shown(s), x = Gateways!Leave(m) PROVE FinderInv(x)'
  BY <1>1, <1>5, <1>7, TaskLeft
<1>8. ASSUME NEW x, t \in Gateways!Shown(s), "guardrail" \in t.flaws, x = Gateways!RoundEnds(m) PROVE FinderInv(x)'
  BY <1>1, <1>5, <1>6, <1>8, TaskRaises
<1>9. ASSUME NEW x, t \in Gateways!Shown(s), Enters(m, x, s, Gateways!Tools(t), Gateways!Prompts(t))
      PROVE  RoomFor(m, s, x) /\ Gateways!Tools(t) \subseteq OfTask(x.result, s) /\ Gateways!Prompts(t) \subseteq OfTask(x.prompts, s)
  BY <1>1, <1>4, <1>9, RoomAdded
<1>10. ASSUME NEW x, t \in Gateways!Shown(s), "prompt" \in t.flaws, x = Gateways!RoundEnds(made) PROVE FinderInv(x)'
  <2> SUFFICES ASSUME NEW y, y = made PROVE FinderInv(x)'
    OBVIOUS
  <2>1. Enters(m, y, s, Gateways!Tools(t), Gateways!Prompts(t)) /\ y.tasks = m.tasks
    BY <1>1 DEF FinderOK, Enters
  <2>2. RoomFor(m, s, y) /\ Gateways!Flawed(s)
    BY <1>6, <1>9, <1>10, <2>1
  <2> QED
    BY <1>1, <1>5, <1>10, <2>1, <2>2, TaskRaisesAfter
<1>11. ASSUME NEW x, t \in Gateways!Shown(s), x = Gateways!Leave(made) PROVE FinderInv(x)'
  <2>1. Enters(m, x, s, Gateways!Tools(t), Gateways!Prompts(t)) /\ x.tasks = Tail(m.tasks)
    BY <1>1, <1>11 DEF FinderOK, Gateways!Leave, Enters
  <2>2. RoomFor(m, s, x) /\ Gateways!Tools(t) \subseteq OfTask(x.result, s) /\ Gateways!Prompts(t) \subseteq OfTask(x.prompts, s)
    BY <1>9, <1>11, <2>1
  <2>3. Made(x, s, t)'
    <3>1. /\ Gateways!Tools(t)' = Gateways!Tools(t) /\ Gateways!Prompts(t)' = Gateways!Prompts(t)
          /\ OfTask(x.result, s)' = OfTask(x.result, s) /\ OfTask(x.prompts, s)' = OfTask(x.prompts, s)
      BY <1>1, SameKind DEF OfTask, Gateways!Prompts
    <3> QED
      BY <1>1, <2>2, <3>1 DEF Made
  <2> QED
    BY <1>1, <1>5, <2>1, <2>2, <2>3, TaskDone
<1> QED
  BY <1>1, <1>3, <1>7, <1>8, <1>10, <1>11, TablesLeft

-----------------------------------------------------------------------------
(* All that is made is published.                                          *)
LEMMA WhatIsMade ==
  ASSUME kind = "mcp", NEW m, FinderInv(m), m.tasks = <<>>, NEW s \in DOMAIN m.result, ~Gateways!Flawed(s)
  PROVE  /\ Gateways!Offered(s) \subseteq m.result[s] /\ ShownPrompts(s) \subseteq m.prompts[s]
         /\ s \in DOMAIN m.prompts
<1>1. s \in DOMAIN m.prompts
  BY DEF FinderInv, FinderOK
<1>2. \A t \in Gateways!Shown(s) : Made(m, s, t)
  BY DEF FinderInv, OthersMade, MadeInFull
<1>3. \A t \in Gateways!Shown(s) : Gateways!Tools(t) \subseteq m.result[s] /\ Gateways!Prompts(t) \subseteq m.prompts[s]
  <2>1. OfTask(m.result, s) = m.result[s] /\ OfTask(m.prompts, s) = m.prompts[s]
    BY <1>1 DEF OfTask, Gateways!Names
  <2> QED
    BY <1>2, <2>1 DEF Made
<1> QED
  BY <1>1, <1>3 DEF Gateways!Offered, ShownPrompts

LEMMA AllMadeKeeps ==
  ASSUME part = "gateway", GatewayInv, NEW f \in DOMAIN finder, NEW m, m = finder[f], Gateways!AllMade(f)
  PROVE  GatewayInv'
<1>1. /\ FinderInv(m) /\ FinderOK(m) /\ kind \in {"api", "mcp"} /\ m.step = "make" /\ m.tasks = <<>>
      /\ UNCHANGED <<kind, workers, prompts, http, tokens, granted>>
      /\ \A r : OfTask(published, r) \subseteq Gateways!Offered(r) /\ OfTask(prompts, r) \subseteq ShownPrompts(r)
  BY FinderNow DEF Gateways!AllMade, Gateways!access
<1>2. CASE kind = "api"
  <2>1. published' = published /\ finder' = [finder EXCEPT ![f] = Gateways!RoundEnds(m)]
    BY <1>2 DEF Gateways!AllMade, Gateways!Find
  <2>2. ASSUME NEW x, x = Gateways!RoundEnds(m) PROVE FinderInv(x)'
    <3>1. FinderInv(m)' /\ ~Sound(m)'
      BY <1>1, <1>2, <2>1, OthersStay, TablesAsBefore DEF Sound
    <3> QED
      BY <1>1, <2>2, <3>1, RoundEnded
  <2> QED
    BY <1>1, <2>1, <2>2, TablesLeft
<1>3. CASE kind = "mcp"
  <2>1. published' = Gateways!Updated(published, m.result) /\ finder' = [finder EXCEPT ![f] = [m EXCEPT !.step = "save prompts"]]
    BY <1>3 DEF Gateways!AllMade, Gateways!Find
  <2>2. \A r : OfTask(published, r)' = IF r \in DOMAIN m.result THEN m.result[r] ELSE OfTask(published, r)
    <3>1. /\ DOMAIN published' = DOMAIN published \cup DOMAIN m.result
          /\ \A r \in DOMAIN m.result : published'[r] = m.result[r]
          /\ \A r \in DOMAIN published : r \notin DOMAIN m.result => published'[r] = published[r]
      BY <2>1 DEF Gateways!Updated
    <3> QED
      BY <3>1 DEF OfTask, Gateways!Names
  <2>3. /\ TablesStay /\ \A r \in DOMAIN m.result : ~Gateways!Flawed(r) => ToolsThere(r)'
        /\ \A r : OfTask(published, r)' \subseteq Gateways!Offered(r) /\ OfTask(prompts, r)' \subseteq ShownPrompts(r)
    <3>1. \A r : /\ Gateways!Offered(r)' = Gateways!Offered(r) /\ ShownPrompts(r)' = ShownPrompts(r)
                 /\ OfTask(prompts, r)' = OfTask(prompts, r)
      BY <1>1, SameKind DEF OfTask, Gateways!Names
    <3>2. ASSUME NEW r \in DOMAIN m.result, ~Gateways!Flawed(r) PROVE ToolsThere(r)'
      <4>1. Gateways!Offered(r) \subseteq m.result[r]
        BY <1>1, <1>3, <3>2, WhatIsMade
      <4> QED
        BY <2>2, <3>1, <4>1 DEF ToolsThere
    <3>3. \A r : r \notin DOMAIN m.result => (ToolsThere(r) => ToolsThere(r)')
      BY <2>2, <3>1 DEF ToolsThere
    <3>4. \A r : PromptsThere(r) => PromptsThere(r)'
      BY <3>1 DEF PromptsThere
    <3>5. TablesStay
      BY <1>1, <1>3, <3>2, <3>3, <3>4 DEF TablesStay
    <3>6. ASSUME NEW r PROVE OfTask(published, r)' \subseteq Gateways!Offered(r)
      <4>1. r \in DOMAIN m.result => m.result[r] \subseteq Gateways!Offered(r)
        <5>1. OfTask(m.result, r) \subseteq Gateways!Offered(r)
          BY <1>1 DEF FinderOK
        <5> QED
          BY <5>1 DEF OfTask, Gateways!Names
      <4> QED
        BY <1>1, <2>2, <4>1
    <3> QED
      BY <1>1, <3>1, <3>2, <3>5, <3>6
  <2>4. ASSUME NEW x, x = [m EXCEPT !.step = "save prompts"] PROVE FinderInv(x)'
    <3>1. FinderInv(m)'
      BY <1>1, <2>3, OthersStay
    <3>2. /\ DOMAIN x = DOMAIN m /\ x.step = "save prompts" /\ x.tasks = m.tasks /\ x.result = m.result
          /\ x.prompts = m.prompts /\ x.for = m.for /\ x.todo = m.todo
      BY <1>1, <2>4 DEF FinderOK
    <3>3. FinderOK(x)'
      BY <1>1, <3>2, SameKind DEF FinderOK, Steps
    <3>4. Sound(x)' => \A r \in DOMAIN x.result : ToolsThere(r)'
      <4>1. \A r \in DOMAIN x.result : r \in x.for
        BY <1>1, <3>2 DEF FinderOK
      <4> QED
        BY <1>1, <2>3, <3>2, <4>1, SameKind DEF Sound
    <3> QED
      BY <3>1, <3>2, <3>3, <3>4, FinderGoesOn
  <2> QED
    BY <1>1, <2>1, <2>3, <2>4, FinderKeeps
<1> QED
  BY <1>1, <1>2, <1>3

LEMMA SavePromptsKeeps ==
  ASSUME part = "gateway", GatewayInv, NEW f \in DOMAIN finder, NEW m, m = finder[f], Gateways!SavePrompts(f)
  PROVE  GatewayInv'
<1>1. /\ FinderInv(m) /\ FinderOK(m) /\ kind \in {"api", "mcp"} /\ m.step = "save prompts" /\ m.tasks = <<>>
      /\ UNCHANGED <<kind, workers, published, http, tokens, granted>>
      /\ finder' = [finder EXCEPT ![f] = Gateways!RoundEnds(m)] /\ prompts' = Gateways!Updated(prompts, m.prompts)
      /\ \A r : OfTask(published, r) \subseteq Gateways!Offered(r) /\ OfTask(prompts, r) \subseteq ShownPrompts(r)
  <2>1. FinderInv(m) /\ FinderOK(m) /\ kind \in {"api", "mcp"}
        /\ \A r : OfTask(published, r) \subseteq Gateways!Offered(r) /\ OfTask(prompts, r) \subseteq ShownPrompts(r)
    BY FinderNow
  <2>2. /\ m.step = "save prompts" /\ UNCHANGED <<kind, workers, published, http, tokens, granted>>
        /\ finder' = [finder EXCEPT ![f] = Gateways!RoundEnds(m)] /\ prompts' = Gateways!Updated(prompts, m.prompts)
    BY DEF Gateways!SavePrompts, Gateways!access, Gateways!Find
  <2>3. m.tasks = <<>>
    BY <2>1, <2>2 DEF FinderOK
  <2> QED
    BY <2>1, <2>2, <2>3
<1>2. \A r : OfTask(prompts, r)' = IF r \in DOMAIN m.prompts THEN m.prompts[r] ELSE OfTask(prompts, r)
  <2>1. /\ DOMAIN prompts' = DOMAIN prompts \cup DOMAIN m.prompts
        /\ \A r \in DOMAIN m.prompts : prompts'[r] = m.prompts[r]
        /\ \A r \in DOMAIN prompts : r \notin DOMAIN m.prompts => prompts'[r] = prompts[r]
    BY <1>1 DEF Gateways!Updated
  <2> QED
    BY <2>1 DEF OfTask, Gateways!Names
<1>3. \A r : /\ Gateways!Offered(r)' = Gateways!Offered(r) /\ ShownPrompts(r)' = ShownPrompts(r)
             /\ OfTask(published, r)' = OfTask(published, r)
  BY <1>1, SameKind DEF OfTask, Gateways!Names
<1>4. ASSUME kind = "mcp", NEW r \in DOMAIN m.result, ~Gateways!Flawed(r) PROVE PromptsThere(r)'
  <2>1. r \in DOMAIN m.prompts /\ ShownPrompts(r) \subseteq m.prompts[r]
    BY <1>1, <1>4, WhatIsMade
  <2> QED
    BY <1>2, <1>3, <2>1 DEF PromptsThere
<1>5. ASSUME kind = "mcp", NEW r, r \notin DOMAIN m.result, PromptsThere(r) PROVE PromptsThere(r)'
  <2>1. r \notin DOMAIN m.prompts
    BY <1>1, <1>5 DEF FinderOK
  <2> QED
    BY <1>2, <1>3, <1>5, <2>1 DEF PromptsThere
<1>6. TablesStay
  <2>1. \A r : ToolsThere(r) => ToolsThere(r)'
    BY <1>3 DEF ToolsThere
  <2> QED
    BY <1>1, <1>3, <1>4, <1>5, <2>1 DEF TablesStay
<1>7. ASSUME NEW r PROVE OfTask(published, r)' \subseteq Gateways!Offered(r) /\ OfTask(prompts, r)' \subseteq ShownPrompts(r)
  <2>1. r \in DOMAIN m.prompts => m.prompts[r] \subseteq ShownPrompts(r)
    <3>1. OfTask(m.prompts, r) \subseteq ShownPrompts(r)
      BY <1>1 DEF FinderOK
    <3> QED
      BY <3>1 DEF OfTask, Gateways!Names
  <2> QED
    BY <1>1, <1>2, <1>3, <2>1
<1>8. ASSUME NEW x, x = Gateways!RoundEnds(m) PROVE FinderInv(x)'
  <2>1. FinderInv(m)'
    BY <1>1, <1>6, OthersStay
  <2>2. \A r \in DOMAIN m.result : kind' = "mcp" /\ ~Gateways!Flawed(r)' => PromptsThere(r)'
    BY <1>1, <1>4, SameKind
  <2> QED
    BY <1>1, <1>8, <2>1, <2>2, RoundEnded
<1> QED
  BY <1>1, <1>6, <1>7, <1>8, FinderKeeps

LEMMA FinderStepKeeps ==
  ASSUME part = "gateway", GatewayInv, NEW f \in DOMAIN finder, Gateways!FinderStep(f)
  PROVE  GatewayInv'
<1>1. ASSUME Gateways!MakeRoute(f) PROVE GatewayInv'
  BY <1>1, MakeRouteKeeps
<1>2. ASSUME Gateways!MakeTool(f) PROVE GatewayInv'
  BY <1>2, MakeToolKeeps
<1>3. ASSUME Gateways!AllMade(f) PROVE GatewayInv'
  BY <1>3, AllMadeKeeps
<1>4. ASSUME Gateways!SavePrompts(f) PROVE GatewayInv'
  BY <1>4, SavePromptsKeeps
<1> QED
  BY <1>1, <1>2, <1>3, <1>4, FinderEndsKeeps, ShowWorkersKeeps, ListTasksKeeps, AllAskedKeeps
    DEF Gateways!FinderStep

-----------------------------------------------------------------------------
(* Steps that leave the finders and the tables alone.                      *)
LEMMA FindersLeft ==
  ASSUME part = "gateway", GatewayInv, UNCHANGED <<kind, finder, published, prompts>>,
         workers' \subseteq DOMAIN ServiceOf,
         \A r \in DOMAIN http' : DOMAIN http'[r] = {"state", "to", "service", "task", "delivered"},
         \A s : \A r \in DOMAIN http' :
           http'[r].to = "call" /\ http'[r].service = s => http'[r].task \in Gateways!Offered(s),
         granted' = {<<t, tokens'[t].tag>> : t \in DOMAIN tokens'}
  PROVE  GatewayInv'
<1>1. /\ kind \in {"api", "mcp"}
      /\ \A g \in DOMAIN finder : \A m : m = finder[g] => FinderInv(m)
      /\ \A s : OfTask(published, s) \subseteq Gateways!Offered(s) /\ OfTask(prompts, s) \subseteq ShownPrompts(s)
  BY DEF GatewayInv
<1>2. \A s : /\ Gateways!Offered(s)' = Gateways!Offered(s) /\ ShownPrompts(s)' = ShownPrompts(s)
             /\ OfTask(published, s)' = OfTask(published, s) /\ OfTask(prompts, s)' = OfTask(prompts, s)
  BY SameKind DEF OfTask, Gateways!Names
<1>3. ASSUME NEW g \in DOMAIN finder, NEW m, m = finder[g] PROVE FinderInv(m)'
  BY <1>1, <1>3, TablesAsBefore, OthersStay
<1>4. \A m \in {finder'[g] : g \in DOMAIN finder'} : FinderInv(m)'
  BY <1>3
<1>5. \A s : /\ OfTask(published, s)' \subseteq Gateways!Offered(s)' /\ OfTask(prompts, s)' \subseteq ShownPrompts(s)'
             /\ \A r \in DOMAIN http' : http'[r].to = "call" /\ http'[r].service = s => http'[r].task \in Gateways!Offered(s)'
  BY <1>1, <1>2
<1> QED
  BY <1>1, <1>4, <1>5 DEF GatewayInv

(* What requests and tokens start from.                                    *)
LEMMA GatewayNow ==
  ASSUME part = "gateway", GatewayInv
  PROVE  /\ kind \in {"api", "mcp"} /\ workers \subseteq DOMAIN ServiceOf
         /\ \A r \in DOMAIN http : DOMAIN http[r] = {"state", "to", "service", "task", "delivered"}
         /\ \A s : \A r \in DOMAIN http : http[r].to = "call" /\ http[r].service = s => http[r].task \in Gateways!Offered(s)
         /\ \A s : OfTask(published, s) \subseteq Gateways!Offered(s)
         /\ granted = {<<t, tokens[t].tag>> : t \in DOMAIN tokens}
  BY DEF GatewayInv

(* A request is answered: only a published task is called.                 *)
LEMMA AnswerKeeps ==
  ASSUME part = "gateway", GatewayInv, NEW r \in DOMAIN http, NEW to, NEW s, NEW name, NEW state,
         Gateways!Answer(r, to, s, name, state),
         to = "call" /\ state # "refused" => name \in OfTask(published, s)
  PROVE  GatewayInv'
<1>1. /\ UNCHANGED <<kind, workers, finder, published, prompts, tokens, granted>>
      /\ \/ http' = [http EXCEPT ![r].state = state]
         \/ /\ state # "refused"
            /\ http' = [http EXCEPT ![r] = [state |-> state, to |-> to, service |-> s, task |-> name, delivered |-> NoValue]]
  BY DEF Gateways!Answer, Gateways!tables, Gateways!access
<1>2. ASSUME NEW q \in DOMAIN http', NEW row, row = http'[q]
      PROVE  /\ DOMAIN row = {"state", "to", "service", "task", "delivered"}
             /\ row.to = "call" => row.task \in Gateways!Offered(row.service)
  <2>1. CASE http' = [http EXCEPT ![r].state = state]
    <3>1. q \in DOMAIN http /\ DOMAIN http[q] = {"state", "to", "service", "task", "delivered"}
      BY <1>2, <2>1, GatewayNow
    <3>2. row = http[q] \/ row = [http[q] EXCEPT !.state = state]
      BY <1>2, <2>1, <3>1
    <3>3. DOMAIN row = DOMAIN http[q] /\ row.to = http[q].to /\ row.task = http[q].task /\ row.service = http[q].service
      BY <3>1, <3>2
    <3> QED
      BY <3>1, <3>3, GatewayNow
  <2>2. CASE /\ state # "refused"
             /\ http' = [http EXCEPT ![r] = [state |-> state, to |-> to, service |-> s, task |-> name, delivered |-> NoValue]]
    <3>1. CASE q = r
      <4>1. row = [state |-> state, to |-> to, service |-> s, task |-> name, delivered |-> NoValue]
        BY <1>2, <2>2, <3>1
      <4> QED
        BY <2>2, <4>1, GatewayNow
    <3>2. CASE q # r
      <4>1. q \in DOMAIN http /\ row = http[q]
        BY <1>2, <2>2, <3>2
      <4> QED
        BY <4>1, GatewayNow
    <3> QED
      BY <3>1, <3>2
  <2> QED
    BY <1>1, <2>1, <2>2
<1> QED
  BY <1>1, <1>2, GatewayNow, FindersLeft

LEMMA JobEndsKeeps ==
  ASSUME part = "gateway", GatewayInv, NEW r \in DOMAIN http, NEW value, Gateways!JobEnds(r, value)
  PROVE  GatewayInv'
<1>1. /\ UNCHANGED <<kind, workers, finder, published, prompts, tokens, granted>>
      /\ \E d : http' = [http EXCEPT ![r].state = "done", ![r].delivered = d]
  BY DEF Gateways!JobEnds, Gateways!tables, Gateways!access
<1>2. PICK d : http' = [http EXCEPT ![r].state = "done", ![r].delivered = d]
  BY <1>1
<1>3. ASSUME NEW q \in DOMAIN http', NEW row, row = http'[q]
      PROVE  /\ DOMAIN row = {"state", "to", "service", "task", "delivered"}
             /\ row.to = "call" => row.task \in Gateways!Offered(row.service)
  <2>1. q \in DOMAIN http /\ DOMAIN http[q] = {"state", "to", "service", "task", "delivered"}
    BY <1>2, <1>3, GatewayNow
  <2>2. row = http[q] \/ row = [http[q] EXCEPT !.state = "done", !.delivered = d]
    BY <1>2, <1>3, <2>1
  <2>3. DOMAIN row = DOMAIN http[q] /\ row.to = http[q].to /\ row.task = http[q].task /\ row.service = http[q].service
    BY <2>1, <2>2
  <2> QED
    BY <2>1, <2>3, GatewayNow
<1> QED
  BY <1>1, <1>3, GatewayNow, FindersLeft

(* A token is given to a user, or taken back.                              *)
LEMMA TokensKeep ==
  ASSUME part = "gateway", GatewayInv, UNCHANGED <<kind, workers, finder, published, prompts, http>>,
         granted' = {<<t, tokens'[t].tag>> : t \in DOMAIN tokens'}
  PROVE  GatewayInv'
  BY GatewayNow, FindersLeft

LEMMA StoreKeeps ==
  ASSUME part = "gateway", GatewayInv, NEW t, NEW u, NEW timed, Gateways!BearerTokenStore(t, u, timed)
  PROVE  GatewayInv'
<1>1. /\ UNCHANGED <<kind, workers, finder, published, prompts, http>>
      /\ tokens' = [k \in DOMAIN tokens \cup {t} |-> IF k = t THEN Gateways!Entry(t, u, timed) ELSE tokens[k]]
      /\ granted' = {g \in granted : g[1] # t} \cup {<<t, u>>}
  BY DEF Gateways!BearerTokenStore, Gateways!EditTokens, Gateways!tables
<1>2. /\ DOMAIN tokens' = DOMAIN tokens \cup {t} /\ tokens'[t].tag = u
      /\ \A k \in DOMAIN tokens : k # t => tokens'[k] = tokens[k]
  BY <1>1 DEF Gateways!Entry
<1>3. granted' = {<<k, tokens'[k].tag>> : k \in DOMAIN tokens'}
  <2>1. granted = {<<k, tokens[k].tag>> : k \in DOMAIN tokens}
    BY GatewayNow
  <2>2. ASSUME NEW g \in granted' PROVE \E k \in DOMAIN tokens' : g = <<k, tokens'[k].tag>>
    <3>1. CASE g = <<t, u>>
      BY <1>2, <3>1
    <3>2. CASE g \in granted /\ g[1] # t
      BY <1>2, <2>1, <3>2
    <3> QED
      BY <1>1, <3>1, <3>2
  <2>3. ASSUME NEW k \in DOMAIN tokens' PROVE <<k, tokens'[k].tag>> \in granted'
    <3>1. CASE k = t
      BY <1>1, <1>2, <3>1
    <3>2. CASE k # t
      BY <1>1, <1>2, <2>1, <3>2
    <3> QED
      BY <3>1, <3>2
  <2> QED
    BY <2>2, <2>3
<1> QED
  BY <1>1, <1>3, TokensKeep

LEMMA WithoutKeeps ==
  ASSUME part = "gateway", GatewayInv, NEW gone, UNCHANGED <<kind, workers, finder, published, prompts, http>>,
         tokens' = Gateways!Without(gone), granted' = {<<t, tokens[t].tag>> : t \in DOMAIN tokens \ gone}
  PROVE  GatewayInv'
<1>1. DOMAIN tokens' = DOMAIN tokens \ gone /\ \A k \in DOMAIN tokens' : tokens'[k] = tokens[k]
  BY DEF Gateways!Without
<1> QED
  BY <1>1, TokensKeep

LEMMA TokenGone ==
  ASSUME part = "gateway", GatewayInv, NEW t, UNCHANGED <<kind, workers, finder, published, prompts, http>>,
         tokens' = Gateways!Without({t}), granted' = {g \in granted : g[1] # t}
  PROVE  GatewayInv'
<1>1. granted = {<<k, tokens[k].tag>> : k \in DOMAIN tokens}
  BY GatewayNow
<1>2. granted' = {<<k, tokens[k].tag>> : k \in DOMAIN tokens \ {t}}
  BY <1>1
<1> QED
  BY <1>2, WithoutKeeps

LEMMA TagGone ==
  ASSUME part = "gateway", GatewayInv, NEW u, Gateways!BearerTokensDelete(u)
  PROVE  GatewayInv'
<1> DEFINE gone == {k \in DOMAIN tokens : tokens[k].tag = u}
<1>1. /\ UNCHANGED <<kind, workers, finder, published, prompts, http>>
      /\ tokens' = Gateways!Without(gone) /\ granted' = {g \in granted : g[2] # u}
  BY DEF Gateways!BearerTokensDelete, Gateways!EditTokens, Gateways!tables
<1>2. granted = {<<k, tokens[k].tag>> : k \in DOMAIN tokens}
  BY GatewayNow
<1>3. granted' = {<<k, tokens[k].tag>> : k \in DOMAIN tokens \ gone}
  BY <1>1, <1>2
<1> HIDE DEF gone
<1> QED
  BY <1>1, <1>3, WithoutKeeps

LEMMA GatewayNextKeeps ==
  ASSUME part = "gateway", GatewayInv, Gateways!Next
  PROVE  GatewayInv'
<1>1. ASSUME NEW f \in DOMAIN finder, Gateways!FinderStep(f) PROVE GatewayInv'
  BY <1>1, FinderStepKeeps
<1>2. ASSUME NEW r \in DOMAIN http, NEW t, NEW s, NEW x, Gateways!MakeRequest(r, t, s, x) PROVE GatewayInv'
  <2>1. ASSUME NEW a, Gateways!Call(r, t, s, x.name, a) PROVE GatewayInv'
    <3> DEFINE runs == Gateways!Verified(t) /\ Gateways!Callable(s, x.name) /\ ~Gateways!Rejected(s, x.name, a)
               state == IF runs THEN "runs" ELSE "refused"
    <3>1. Gateways!Answer(r, "call", s, x.name, state)
      BY <2>1 DEF Gateways!Call
    <3>2. state # "refused" => x.name \in OfTask(published, s)
      BY DEF Gateways!Callable, OfTask
    <3> HIDE DEF state
    <3> QED
      BY <3>1, <3>2, AnswerKeeps
  <2>2. ASSUME Gateways!RunJob(r, t, s, x.name) PROVE GatewayInv'
    <3>1. \E state : Gateways!Answer(r, "run", s, x.name, state)
      BY <2>2 DEF Gateways!RunJob
    <3> QED
      BY <3>1, AnswerKeeps
  <2>3. ASSUME NEW p, NEW valid, Gateways!GetPrompt(r, t, s, p, valid) PROVE GatewayInv'
    <3>1. \E state : Gateways!Answer(r, "prompt", s, p, state)
      BY <2>3 DEF Gateways!GetPrompt
    <3> QED
      BY <3>1, AnswerKeeps
  <2> QED
    BY <1>2, <2>1, <2>2, <2>3 DEF Gateways!MakeRequest
<1>3. ASSUME NEW r \in DOMAIN http, NEW value, Gateways!JobEnds(r, value) PROVE GatewayInv'
  BY <1>3, JobEndsKeeps
<1>4. ASSUME NEW t, NEW u, NEW timed, Gateways!BearerTokenStore(t, u, timed) PROVE GatewayInv'
  BY <1>4, StoreKeeps
<1>5. ASSUME NEW t, Gateways!BearerTokenDelete(t) \/ Gateways!TokenExpires(t) PROVE GatewayInv'
  BY <1>5, TokenGone DEF Gateways!BearerTokenDelete, Gateways!TokenExpires, Gateways!EditTokens,
    Gateways!tables
<1>6. ASSUME NEW u, Gateways!BearerTokensDelete(u) PROVE GatewayInv'
  BY <1>6, TagGone
<1>7. ASSUME NEW w \in DOMAIN ServiceOf, Gateways!WorkerComes(w) PROVE GatewayInv'
  <2>1. /\ UNCHANGED <<kind, finder, published, prompts, http, tokens, granted>>
        /\ workers' \subseteq workers \cup {w}
    BY <1>7 DEF Gateways!WorkerComes, Gateways!tables, Gateways!access
  <2> QED
    BY <2>1, GatewayNow, FindersLeft
<1>8. ASSUME Gateways!Exit \/ Gateways!Done PROVE GatewayInv'
  <2>1. UNCHANGED <<kind, workers, finder, published, prompts, http, tokens, granted>>
    BY <1>8 DEF Gateways!Exit, Gateways!Done, Gateways!vars, Gateways!tables, Gateways!access
  <2> QED
    BY <2>1, GatewayNow, FindersLeft
<1> QED
  BY <1>1, <1>2, <1>3, <1>4, <1>5, <1>6, <1>7, <1>8 DEF Gateways!Next, Gateways!Finders,
    Gateways!HttpRequests

LEMMA GatewayBegins == ASSUME GatewayAssumption, part = "gateway" => Gateways!Init PROVE GatewayInv
<1> SUFFICES ASSUME part = "gateway"
             PROVE  /\ kind \in {"api", "mcp"} /\ workers \subseteq DOMAIN ServiceOf
                    /\ \A m \in {finder[f] : f \in DOMAIN finder} : FinderInv(m)
                    /\ \A r \in DOMAIN http : DOMAIN http[r] = {"state", "to", "service", "task", "delivered"}
                    /\ \A s : /\ OfTask(published, s) \subseteq Gateways!Offered(s) /\ OfTask(prompts, s) \subseteq ShownPrompts(s)
                              /\ \A r \in DOMAIN http : http[r].to = "call" /\ http[r].service = s => http[r].task \in Gateways!Offered(s)
                    /\ granted = {<<t, tokens[t].tag>> : t \in DOMAIN tokens}
  BY DEF GatewayInv
<1>1. Gateways!Init
  OBVIOUS
<1>2. PICK scene \in Scenes :
        /\ finder = [f \in DOMAIN scene.rounds |->
             [step |-> "round", cycles |-> scene.rounds[f].cycles, for |-> scene.rounds[f].services,
              todo |-> <<>>, tasks |-> <<>>, result |-> Gateways!Nothing, prompts |-> Gateways!Nothing]]
        /\ workers = scene.workers
        /\ http = [r \in scene.requests |-> [state |-> "idle", to |-> NoValue, service |-> NoValue, task |-> NoValue, delivered |-> NoValue]]
  BY <1>1 DEF Gateways!Init
<1>3. kind \in {"api", "mcp"} /\ published = Gateways!Nothing /\ prompts = Gateways!Nothing
      /\ granted = {<<t, tokens[t].tag>> : t \in DOMAIN tokens}
  BY <1>1 DEF Gateways!Init
<1>4. workers \subseteq DOMAIN ServiceOf /\ NoValue # "call"
  BY <1>2, GatewayAssumption DEF Gateways!GatewayIsGiven
<1>5. \A r \in DOMAIN http : /\ DOMAIN http[r] = {"state", "to", "service", "task", "delivered"}
                             /\ http[r].to # "call"
  BY <1>2, <1>4
<1>6. DOMAIN Gateways!Nothing = {}
  BY DEF Gateways!Nothing
<1>7. \A s : OfTask(Gateways!Nothing, s) = {}
  BY <1>6 DEF OfTask, Gateways!Names
<1>8. ASSUME NEW f \in DOMAIN finder, NEW m, m = finder[f] PROVE FinderInv(m)
  <2>1. m = [step |-> "round", cycles |-> scene.rounds[f].cycles, for |-> scene.rounds[f].services,
             todo |-> <<>>, tasks |-> <<>>, result |-> Gateways!Nothing, prompts |-> Gateways!Nothing]
    BY <1>2, <1>8
  <2>2. /\ DOMAIN m = {"step", "cycles", "for", "todo", "tasks", "result", "prompts"} /\ m.step = "round"
        /\ m.todo = <<>> /\ m.tasks = <<>> /\ m.result = Gateways!Nothing /\ m.prompts = Gateways!Nothing
    BY <2>1
  <2>3. <<>> \in Seq(Rows) /\ <<>> \in Seq(DOMAIN TasksOf) /\ DOMAIN <<>> = {}
    BY EmptyQueue, EmptyHasNone
  <2>4. FinderOK(m)
    BY <1>6, <1>7, <2>2, <2>3 DEF FinderOK, Steps
  <2>5. InRuns(m) /\ OthersMade(m) /\ Saved(m)
    BY <1>6, <2>2, <2>3 DEF InRuns, OthersMade, Saved
  <2> QED
    BY <2>4, <2>5 DEF FinderInv
<1> QED
  BY <1>3, <1>4, <1>5, <1>7, <1>8

LEMMA GatewayStep ==
  ASSUME GatewayInv, part' = part, part = "gateway" => Gateways!Next \/ UNCHANGED gateway
  PROVE  GatewayInv'
<1>1. part' = part
  OBVIOUS
<1>2. CASE part # "gateway"
  BY <1>1, <1>2 DEF GatewayInv
<1>3. CASE part = "gateway" /\ Gateways!Next
  BY <1>3, GatewayNextKeeps
<1>4. CASE part = "gateway" /\ UNCHANGED gateway
  <2>1. UNCHANGED <<kind, workers, finder, published, prompts, http, tokens, granted>>
    BY <1>4 DEF gateway
  <2> QED
    BY <1>4, <2>1, GatewayNow, FindersLeft
<1> QED
  BY <1>2, <1>3, <1>4

LEMMA OfferedIsCallable ==
  ASSUME kind \in {"api", "mcp"}, NEW s, NEW name \in Gateways!Offered(s)
  PROVE  kind = "mcp" => Gateways!Allowed(s, name)
<1>1. PICK t \in Gateways!Shown(s) : name \in Gateways!Tools(t)
  BY DEF Gateways!Offered
<1>2. name = t.name /\ ~Gateways!Hidden(s, t)
  BY <1>1 DEF Gateways!Tools, Gateways!Shown
<1> QED
  BY <1>2 DEF Gateways!Hidden

LEMMA OnlyTheOffered == ASSUME part = "gateway", GatewayInv PROVE Gateways!OnlyOffered
<1>1. /\ kind \in {"api", "mcp"}
      /\ \A s : OfTask(published, s) \subseteq Gateways!Offered(s) /\ OfTask(prompts, s) \subseteq ShownPrompts(s)
      /\ \A s : \A r \in DOMAIN http : http[r].to = "call" /\ http[r].service = s => http[r].task \in Gateways!Offered(s)
  BY DEF GatewayInv
<1>2. \A s \in DOMAIN published : published[s] \subseteq Gateways!Offered(s)
  BY <1>1 DEF OfTask, Gateways!Names
<1>3. \A s \in DOMAIN prompts : prompts[s] \subseteq ShownPrompts(s)
  BY <1>1 DEF OfTask, Gateways!Names
<1>4. ASSUME NEW s \in DOMAIN published, NEW name \in published[s] PROVE Gateways!Callable(s, name)
  <2>1. name \in Gateways!Offered(s)
    BY <1>2, <1>4
  <2> QED
    BY <1>1, <1>4, <2>1, OfferedIsCallable DEF Gateways!Callable, Gateways!Names
<1> QED
  BY <1>1, <1>2, <1>3, <1>4 DEF Gateways!OnlyOffered, Gateways!HttpRequests, ShownPrompts

LEMMA AllFoundIsPublished == ASSUME part = "gateway", GatewayInv PROVE Gateways!FoundIsPublished
<1> SUFFICES ASSUME NEW f \in DOMAIN finder, NEW m, m = finder[f], NEW s \in DOMAIN m.result, m.step \in {"round", "over"},
                    \A x \in IF kind = "api" THEN {s} ELSE m.for : ~Gateways!Flawed(x)
             PROVE  ToolsThere(s) /\ (kind = "mcp" => PromptsThere(s))
  BY DEF Gateways!FoundIsPublished, Gateways!Finders, ToolsThere, PromptsThere, ShownPrompts, OfTask
<1>1. FinderInv(m) /\ FinderOK(m) /\ kind \in {"api", "mcp"}
  BY FinderNow
<1>2. CASE kind = "mcp"
  BY <1>1, <1>2 DEF FinderInv, Saved, Sound
<1>3. CASE kind = "api"
  <2>1. ~Gateways!Flawed(s) /\ m.tasks = <<>>
    BY <1>1, <1>3 DEF FinderOK
  <2>2. \A t \in Gateways!Shown(s) : t.name \in OfTask(published, s)
    BY <1>1, <1>3, <2>1 DEF FinderInv, OthersMade, MadeInFull, Made
  <2>3. \A t : Gateways!Tools(t) = {t.name}
    BY <1>3 DEF Gateways!Tools
  <2>4. ToolsThere(s)
    BY <2>2, <2>3 DEF ToolsThere, Gateways!Offered
  <2> QED
    BY <1>3, <2>4
<1> QED
  BY <1>1, <1>2, <1>3

LEMMA TokensAreAsGranted == ASSUME part = "gateway", GatewayInv PROVE Gateways!TokensAsGranted
<1>1. granted = {<<t, tokens[t].tag>> : t \in DOMAIN tokens} /\ NoValue \notin Users
  BY GatewayNow, GatewayAssumption DEF Gateways!GatewayIsGiven
<1>2. ASSUME NEW t \in Tokens PROVE Gateways!BearerTokenCheck(t) <=> \E g \in granted : g[1] = t
  <2>1. ASSUME t \in DOMAIN tokens PROVE \E g \in granted : g[1] = t
    <3>1. <<t, tokens[t].tag>> \in granted /\ <<t, tokens[t].tag>>[1] = t
      BY <1>1, <2>1
    <3> QED
      BY <3>1
  <2>2. \A g \in granted : g[1] \in DOMAIN tokens
    BY <1>1
  <2> QED
    BY <2>1, <2>2 DEF Gateways!BearerTokenCheck
<1>3. ASSUME NEW u \in Users PROVE Gateways!BearerTokenList(u) = {g[1] : g \in {x \in granted : x[2] = u}}
  <2>1. Gateways!BearerTokenList(u) = {t \in DOMAIN tokens : tokens[t].tag = u}
    BY <1>1, <1>3 DEF Gateways!BearerTokenList
  <2>2. ASSUME NEW t \in DOMAIN tokens, tokens[t].tag = u PROVE t \in {g[1] : g \in {x \in granted : x[2] = u}}
    <3>1. <<t, tokens[t].tag>> \in {x \in granted : x[2] = u} /\ <<t, tokens[t].tag>>[1] = t
      BY <1>1, <2>2
    <3> QED
      BY <3>1
  <2>3. ASSUME NEW g \in granted, g[2] = u PROVE g[1] \in DOMAIN tokens /\ tokens[g[1]].tag = u
    BY <1>1, <2>3
  <2> QED
    BY <2>1, <2>2, <2>3
<1> QED
  BY <1>2, <1>3 DEF Gateways!TokensAsGranted

-----------------------------------------------------------------------------
(***************************************************************************)
(* Allocation.  What is at hand at each stage of create_ip: what a call    *)
(* knows of itself, what of NetBox while jobs run one at a time, and whose *)
(* the subnets are.                                                        *)
(***************************************************************************)
Working == {"find", "choose", "peer", "subnet", "look", "address", "save"}
Stages == Working \cup {"idle", "next", "done", "raised"}
Links == DOMAIN Peer \cup {NoValue}
CallRecord ==
  [interface : Links, prefixes : Seq(SUBSET Nat), at : Nat \ {0}, mask : BOOLEAN, peer : BOOLEAN,
   prefix : SUBSET Nat, child : SUBSET Nat, ip : Nat, peer_data : Links]
Busy(j) == stage[j] \in Working \cup {"next"}
AddressesOK ==
  /\ parents \in Parents /\ request \in [Jobs -> Requests] /\ children \subseteq Subnets
  /\ IsFiniteSet(DOMAIN allocated) /\ DOMAIN allocated \subseteq Nat
  /\ \A a \in DOMAIN allocated : allocated[a].interface \in Links
  /\ stage \in [Jobs -> Stages] /\ left \in [Jobs -> Seq(DOMAIN Peer)] /\ call \in [Jobs -> CallRecord]
  /\ overlapped \in BOOLEAN
  /\ ~overlapped => \A j, k \in Jobs : Busy(j) /\ Busy(k) => j = k

(* An address that is being saved was found, with the interface, or made,  *)
(* and then nobody else has it at hand.                                    *)
Unsaved(a) == allocated[a].interface = NoValue
SavesApart ==
  \A a \in DOMAIN allocated, j, k \in Jobs :
    Unsaved(a) /\ stage[j] = "save" /\ stage[k] = "save" /\ call[j].ip = a /\ call[k].ip = a => j = k
Fits(j, x, c) ==
  /\ c.interface \in DOMAIN Peer /\ c.at \in DOMAIN c.prefixes
  /\ c.prefixes = parents \/ (Len(c.prefixes) = 1 /\ ~c.peer)
  /\ x \in {"find", "choose", "peer"} => c.mask = request[j].mask /\ c.peer_data = NoValue
  /\ x = "peer" => c.prefix = c.prefixes[c.at]
  /\ x \in {"subnet", "look"} =>
       c.prefix = c.prefixes[c.at] /\ c.mask /\ c.prefix \notin Subnets /\ ~request[j].dry_run
  /\ x = "look" => c.child \in children /\ c.child \subseteq c.prefix
  /\ x = "address" => request[j].dry_run \/ (c.mask => c.prefix \in Subnets)
  /\ x = "save" =>
       /\ c.ip \in DOMAIN allocated
       /\ \/ allocated[c.ip].interface = c.interface /\ c.peer_data = NoValue
          \/ /\ Unsaved(c.ip) /\ allocated[c.ip].net = c.prefix /\ c.ip \in c.prefix
             /\ ~request[j].dry_run /\ (c.mask => c.prefix \in Subnets)
  /\ c.peer_data # NoValue =>
       c.prefixes = parents /\ c.peer_data = Peer[c.interface] /\ c.prefix \subseteq parents[c.at]

(* An address of the interface there gives no parent a second one of it.   *)
Harmless(i, a) == \A k \in DOMAIN parents : a \in parents[k] => Allocation!Held(i, parents[k]) \subseteq {a}
Open(i, prefix) == \A a \in Allocation!Free(prefix) : Harmless(i, a)
Nowhere(i) == \A k \in DOMAIN parents : Allocation!Held(i, parents[k]) = {}
PeersTurn(c) ==
  /\ Len(c.prefixes) = 1 /\ ~c.peer /\ Open(c.interface, c.prefixes[1])
  /\ Peer[c.interface] # NoValue =>
       \A a \in Allocation!Held(Peer[c.interface], c.prefixes[1]) : allocated[a].net = c.prefixes[1]
Undisturbed(j, x, c) ==
  /\ x = "find" =>
       \/ c.prefixes = parents /\ \A k \in 1..c.at - 1 : Allocation!Held(c.interface, parents[k]) = {}
       \/ PeersTurn(c)
  /\ x \in {"choose", "peer"} =>
       \/ /\ c.prefixes = parents /\ Nowhere(c.interface)
          /\ \A k \in 1..c.at - 1 : Allocation!Free(parents[k]) = {}
       \/ PeersTurn(c)
  /\ x \in {"subnet", "look"} => Open(c.interface, c.prefix)
  /\ x = "address" => request[j].dry_run \/ Open(c.interface, c.prefix)
  /\ x = "save" => Harmless(c.interface, c.ip)
  /\ c.peer_data # NoValue => Nowhere(c.interface) /\ Open(c.peer_data, c.prefix)

(* With subnets of their own: where addresses are, and calls that give any.*)
Divided == (\A j \in Jobs : request[j].mask) /\ Allocation!Range(parents) \cap Subnets = {}
SubnetsOK ==
  /\ \A s \in children : s \subseteq parents[1]
  /\ \A a \in DOMAIN allocated : allocated[a].net \in children /\ a \in allocated[a].net
Divides(j, x, c) ==
  /\ c.prefixes # parents => c.prefixes[1] \in children
  /\ x \in {"choose", "peer", "subnet", "look"} => c.at = 1
  /\ x = "address" => request[j].dry_run \/ c.prefix \in children

(* Where the other end of the link is.                                     *)
Others(i) == {a \in DOMAIN allocated : Peer[i] # NoValue /\ allocated[a].interface = Peer[i]}
Joins(j, x, c) ==
  /\ x \in {"find", "choose", "peer"} /\ c.prefixes # parents =>
       \A a \in Others(c.interface) : allocated[a].net = c.prefixes[1]
  /\ x \in {"subnet", "look"} => Others(c.interface) = {}
  /\ (x = "address" /\ ~request[j].dry_run) \/ (x = "save" /\ Unsaved(c.ip)) =>
       \A a \in Others(c.interface) : allocated[a].net = c.prefix
Good(j, x, c) ==
  x \in Working =>
    /\ Fits(j, x, c)
    /\ ~overlapped => Undisturbed(j, x, c)
    /\ Divided => Divides(j, x, c)
    /\ Divided /\ ~overlapped => Joins(j, x, c)
JobsOK == \A j \in Jobs, x \in Stages, c \in CallRecord : stage[j] = x /\ call[j] = c => Good(j, x, c)
NetBoxOK ==
  /\ Allocation!OneAddress
  /\ Divided => SubnetsOK /\ Allocation!EndsShareSubnet

(* Which interfaces have a subnet, or a call that is to get it.            *)
Claims(j, x, c, s) ==
  \/ x \in {"find", "choose", "peer"} /\ c.prefixes # parents /\ s = c.prefixes[1]
  \/ x = "look" /\ s = c.child
  \/ x = "address" /\ ~request[j].dry_run /\ s = c.prefix
  \/ x = "save" /\ s = allocated[c.ip].net
HasSubnet(i, s) ==
  \/ \E a \in DOMAIN allocated : allocated[a].net = s /\ allocated[a].interface = i
  \/ \E j \in Jobs, x \in Stages, c \in CallRecord :
       stage[j] = x /\ call[j] = c /\ Claims(j, x, c, s) /\ c.interface = i
SameLink(i, k) == k = i \/ (Peer[i] # NoValue /\ k = Peer[i])
WithoutVrf == \A j \in Jobs : ~request[j].vrf
SubnetsOfLinks ==
  Divided /\ WithoutVrf => \A i, k \in DOMAIN Peer, s \in children : HasSubnet(i, s) /\ HasSubnet(k, s) => SameLink(i, k)

AddressesInv ==
  part = "allocation" => AddressesOK /\ SavesApart /\ JobsOK /\ NetBoxOK /\ SubnetsOfLinks


-----------------------------------------------------------------------------
(* The least of a set of numbers, and the first of some subnets.           *)
LEMMA LeastIsThere ==
  ASSUME NEW S, S \subseteq Nat, S # {}
  PROVE  \E m \in S : \A n \in S : m <= n
<1> DEFINE R == OpToRel(<, Nat)
<1>1. \A x, y \in Nat : x < y => <<x, y>> \in R
  BY Zenon DEF OpToRel
<1>2. \E x \in S : \A y \in S : ~(<<y, x>> \in R)
  BY NatLessThanWellFounded, WFMin
<1> HIDE DEF R
<1>3. PICK m \in S : \A y \in S : ~(<<y, m>> \in R)
  BY <1>2
<1>4. ASSUME NEW n \in S PROVE m <= n
  <2>1. n \in Nat /\ m \in Nat /\ ~(<<n, m>> \in R)
    BY <1>3
  <2>2. ~(n < m)
    BY <1>1, <2>1, Zenon
  <2> QED
    BY <2>1, <2>2
<1> QED
  BY <1>4

LEMMA MinIsThere ==
  ASSUME NEW S, S \subseteq Nat, S # {}
  PROVE  Allocation!Min(S) \in S
<1>1. PICK m \in S : \A n \in S : m <= n
  BY LeastIsThere
<1> QED
  BY <1>1 DEF Allocation!Min

LEMMA LowestIsThere ==
  ASSUME PrefixAssumption, NEW T, T \subseteq Subnets, T # {}
  PROVE  Allocation!Lowest(T) \in T
<1>1. \A s \in T : Allocation!Min(s) \in s /\ s \subseteq Nat
  BY MinIsThere DEF PrefixAssumption, Allocation!PrefixesAreWhole
<1>2. PICK m \in {Allocation!Min(s) : s \in T} : \A n \in {Allocation!Min(s) : s \in T} : m <= n
  <2>1. {Allocation!Min(s) : s \in T} \subseteq Nat /\ {Allocation!Min(s) : s \in T} # {}
    BY <1>1
  <2> HIDE DEF Allocation!Min
  <2> QED
    BY <2>1, LeastIsThere
<1>3. PICK s \in T : m = Allocation!Min(s)
  BY <1>2
<1>4. \A t \in T : Allocation!Min(s) <= Allocation!Min(t)
  BY <1>2, <1>3
<1> QED
  BY <1>4 DEF Allocation!Lowest

LEMMA SameSize ==
  ASSUME NEW S
  PROVE  Allocation!Cardinality(S) = Cardinality(S)
  BY DEF Allocation!Cardinality, Cardinality

(* The addresses that a search finds: none, or the one.                    *)
LEMMA HitsAre ==
  ASSUME AddressesOK, NEW i, NEW p
  PROVE  LET hits == Allocation!Held(i, p)
         IN  /\ hits \subseteq DOMAIN allocated /\ hits \subseteq Nat
             /\ Allocation!Cardinality(hits) \in Nat /\ (Allocation!Cardinality(hits) = 0 <=> hits = {})
             /\ Allocation!Cardinality(hits) = 1 => hits = {Allocation!Min(hits)}
<1> DEFINE hits == Allocation!Held(i, p)
<1>1. hits \subseteq DOMAIN allocated /\ hits \subseteq Nat
  BY DEF Allocation!Held, AddressesOK
<1>2. IsFiniteSet(hits)
  BY <1>1, FS_Subset DEF AddressesOK
<1>3. Cardinality(hits) \in Nat /\ (Cardinality(hits) = 0 <=> hits = {})
  BY <1>2, FS_CardinalityType, FS_EmptySet
<1>4. ASSUME Cardinality(hits) = 1 PROVE hits = {Allocation!Min(hits)}
  <2>1. PICK a : hits = {a}
    BY <1>2, <1>4, FS_Singleton
  <2>2. Allocation!Min(hits) \in hits
    BY <1>1, <2>1, MinIsThere
  <2> HIDE DEF hits
  <2> QED
    BY <2>1, <2>2
<1> QED
  BY <1>1, <1>3, <1>4, SameSize

(* To be on one link is an equivalence.                                    *)
LEMMA LinksAreClasses ==
  ASSUME PrefixAssumption
  PROVE  /\ \A i : SameLink(i, i)
         /\ \A i, k \in DOMAIN Peer : SameLink(i, k) => SameLink(k, i)
         /\ \A i, k, l \in DOMAIN Peer : SameLink(i, k) /\ SameLink(k, l) => SameLink(i, l)
  BY DEF SameLink, PrefixAssumption, Allocation!CablesHaveTwoEnds
-----------------------------------------------------------------------------
(* A call as create_ip_bulk and the peer's turn start it.                  *)
LEMMA CallsAreRecords ==
  ASSUME NEW i \in Links, NEW p \in Seq(SUBSET Nat), NEW mask \in BOOLEAN, NEW peer \in BOOLEAN
  PROVE  /\ Allocation!Call(i, p, mask, peer) \in CallRecord
         /\ Allocation!Call(i, p, mask, peer).interface = i /\ Allocation!Call(i, p, mask, peer).prefixes = p
         /\ Allocation!Call(i, p, mask, peer).at = 1 /\ Allocation!Call(i, p, mask, peer).mask = mask
         /\ Allocation!Call(i, p, mask, peer).peer = peer /\ Allocation!Call(i, p, mask, peer).peer_data = NoValue
  BY DEF Allocation!Call, CallRecord, Links

LEMMA NoCallIsRecord == Allocation!NoCall \in CallRecord
<1>1. NoValue \in Links /\ <<>> \in Seq(SUBSET Nat)
  BY DEF Links
<1> QED
  BY <1>1, CallsAreRecords DEF Allocation!NoCall

(* What is known of a job, wherever it is.                                 *)
LEMMA JobNow ==
  ASSUME AddressesInv, part = "allocation", NEW j \in Jobs
  PROVE  /\ stage[j] \in Stages /\ call[j] \in CallRecord /\ Good(j, stage[j], call[j])
         /\ left[j] \in Seq(DOMAIN Peer) /\ request[j] \in Requests
<1>1. stage[j] \in Stages /\ call[j] \in CallRecord /\ left[j] \in Seq(DOMAIN Peer) /\ request[j] \in Requests
  BY DEF AddressesInv, AddressesOK
<1>2. JobsOK
  BY DEF AddressesInv
<1>3. \A x \in Stages, c \in CallRecord : stage[j] = x /\ call[j] = c => Good(j, x, c)
  BY <1>2 DEF JobsOK
<1> QED
  BY <1>1, <1>3, Zenon

(* What is asked for, and of which prefixes.                               *)
LEMMA AskedFor ==
  ASSUME PrefixAssumption, AddressesOK, NEW j \in Jobs
  PROVE  /\ request[j].interfaces \in Seq(DOMAIN Peer) /\ request[j].mask \in BOOLEAN /\ request[j].peer \in BOOLEAN
         /\ request[j].vrf \in BOOLEAN /\ request[j].dry_run \in BOOLEAN
         /\ parents \in Seq(SUBSET Nat) /\ parents # <<>> /\ 1 \in DOMAIN parents /\ Len(parents) \in Nat \ {0}
         /\ \A k, l \in DOMAIN parents : k < l => parents[l] \subseteq parents[k] \/ parents[l] \cap parents[k] = {}
<1>1. request[j] \in [interfaces : Seq(DOMAIN Peer), mask : BOOLEAN, peer : BOOLEAN, vrf : BOOLEAN, dry_run : BOOLEAN]
  BY DEF PrefixAssumption, AddressesOK, Allocation!RequestsAreOfInterfaces
<1>2. parents \in Seq(SUBSET Nat) /\ parents # <<>>
  BY DEF PrefixAssumption, AddressesOK, Allocation!PrefixesAreWhole
<1>3. 1 \in DOMAIN parents /\ Len(parents) \in Nat \ {0}
  BY <1>2
<1>4. \A k, l \in DOMAIN parents : k < l => parents[l] \subseteq parents[k] \/ parents[l] \cap parents[k] = {}
  BY DEF PrefixAssumption, AddressesOK, Allocation!PrefixesAreWhole
<1> QED
  BY <1>1, <1>2, <1>3, <1>4

(* As long as NetBox stays as it is, so does what is known of a call.      *)
LEMMA CallsStay ==
  ASSUME UNCHANGED <<children, allocated, parents, request>>, overlapped => overlapped',
         NEW j, NEW x, NEW c, Good(j, x, c)
  PROVE  Good(j, x, c)'
<1>1. \A i, p : Allocation!Held(i, p)' = Allocation!Held(i, p) /\ Allocation!Free(p)' = Allocation!Free(p)
  BY DEF Allocation!Held, Allocation!Free
<1>2. \A i, p : (Open(i, p)' <=> Open(i, p)) /\ (Nowhere(i)' <=> Nowhere(i))
  BY <1>1 DEF Open, Nowhere, Harmless
<1>3. \A i, a : Harmless(i, a)' <=> Harmless(i, a)
  BY <1>1 DEF Harmless
<1>4. Fits(j, x, c)' <=> Fits(j, x, c)
  BY DEF Fits, Unsaved
<1>5. PeersTurn(c)' <=> PeersTurn(c)
  BY <1>1, <1>2 DEF PeersTurn
<1>6. Undisturbed(j, x, c)' <=> Undisturbed(j, x, c)
  BY <1>1, <1>2, <1>3, <1>5 DEF Undisturbed
<1>7. (Divided' <=> Divided) /\ (Divides(j, x, c)' <=> Divides(j, x, c))
  BY DEF Divided, Divides, Allocation!Range
<1>8. Joins(j, x, c)' <=> Joins(j, x, c)
  BY DEF Joins, Others, Unsaved
<1> QED
  BY <1>4, <1>6, <1>7, <1>8 DEF Good

(* The subnets of links are kept if whoever gets one has it already, or is *)
(* on the link of one that has, or if it is new.                           *)
LEMMA LinksKept ==
  ASSUME PrefixAssumption, SubnetsOfLinks, UNCHANGED <<parents, request>>,
         Divided /\ WithoutVrf =>
           \A s \in children' :
             \/ /\ s \in children
                /\ \A i \in DOMAIN Peer : HasSubnet(i, s)' => \E k \in DOMAIN Peer : HasSubnet(k, s) /\ SameLink(k, i)
             \/ \E l : \A i \in DOMAIN Peer : HasSubnet(i, s)' => i = l
  PROVE  SubnetsOfLinks'
<1>1. (Divided' <=> Divided) /\ (WithoutVrf' <=> WithoutVrf)
  BY DEF Divided, WithoutVrf, Allocation!Range
<1> SUFFICES ASSUME Divided, WithoutVrf, NEW i \in DOMAIN Peer, NEW k \in DOMAIN Peer, NEW s \in children',
                    HasSubnet(i, s)', HasSubnet(k, s)'
             PROVE  SameLink(i, k)
  BY <1>1 DEF SubnetsOfLinks, SameLink
<1>2. CASE \E l : \A m \in DOMAIN Peer : HasSubnet(m, s)' => m = l
  BY <1>2, LinksAreClasses
<1>3. ASSUME s \in children,
             \A m \in DOMAIN Peer : HasSubnet(m, s)' => \E n \in DOMAIN Peer : HasSubnet(n, s) /\ SameLink(n, m)
      PROVE  SameLink(i, k)
  <2>1. PICK m \in DOMAIN Peer : HasSubnet(m, s) /\ SameLink(m, i)
    BY <1>3
  <2>2. PICK n \in DOMAIN Peer : HasSubnet(n, s) /\ SameLink(n, k)
    BY <1>3
  <2>3. SameLink(m, n)
    BY <1>3, <2>1, <2>2 DEF SubnetsOfLinks
  <2> QED
    BY <2>1, <2>2, <2>3, LinksAreClasses
<1> QED
  BY <1>2, <1>3

-----------------------------------------------------------------------------
(* A job goes on, and the others stay where they are.                      *)
LEMMA JobMoves ==
  ASSUME AddressesOK, NEW j \in Jobs, NEW x \in Stages, NEW d \in CallRecord,
         Allocation!Step(j, x), Allocation!Local(j, d)
  PROVE  /\ stage' \in [Jobs -> Stages] /\ call' \in [Jobs -> CallRecord]
         /\ stage'[j] = x /\ call'[j] = d
         /\ \A k \in Jobs \ {j} : stage'[k] = stage[k] /\ call'[k] = call[k]
  BY DEF AddressesOK, Allocation!Step, Allocation!Local

LEMMA JobsKept ==
  ASSUME AddressesOK, JobsOK, NEW j \in Jobs, NEW x \in Stages, NEW d \in CallRecord,
         Allocation!Step(j, x), Allocation!Local(j, d), Good(j, x, d)',
         \A k \in Jobs \ {j}, y \in Stages, c \in CallRecord :
           stage[k] = y /\ call[k] = c /\ Good(k, y, c) => Good(k, y, c)'
  PROVE  JobsOK'
<1> SUFFICES ASSUME NEW k \in Jobs, NEW y \in Stages, NEW c \in CallRecord, stage'[k] = y, call'[k] = c
             PROVE  Good(k, y, c)'
  BY DEF JobsOK
<1>1. CASE k = j
  <2>1. y = x /\ c = d
    BY <1>1, JobMoves
  <2> QED
    BY <1>1, <2>1
<1>2. CASE k # j
  <2>1. stage[k] = y /\ call[k] = c
    BY <1>2, JobMoves
  <2>2. Good(k, y, c)
    BY <2>1 DEF JobsOK
  <2> QED
    BY <1>2, <2>1, <2>2
<1> QED
  BY <1>1, <1>2

(* Whoever has a subnet after a step: through an address, through the job, *)
(* or through another one.                                                 *)
LEMMA SubnetsAfter ==
  ASSUME AddressesOK, NEW j \in Jobs, NEW x \in Stages, NEW d \in CallRecord,
         Allocation!Step(j, x), Allocation!Local(j, d), NEW i, NEW s, HasSubnet(i, s)'
  PROVE  \/ \E a \in DOMAIN allocated' : allocated'[a].net = s /\ allocated'[a].interface = i
         \/ Claims(j, x, d, s)' /\ i = d.interface
         \/ \E k \in Jobs \ {j}, y \in Stages, c \in CallRecord :
              stage[k] = y /\ call[k] = c /\ Claims(k, y, c, s)' /\ c.interface = i
<1> SUFFICES ASSUME NEW k \in Jobs, NEW y \in Stages, NEW c \in CallRecord,
                    stage'[k] = y, call'[k] = c, Claims(k, y, c, s)', c.interface = i
             PROVE  \/ Claims(j, x, d, s)' /\ i = d.interface
                    \/ \E l \in Jobs \ {j}, z \in Stages, b \in CallRecord :
                         stage[l] = z /\ call[l] = b /\ Claims(l, z, b, s)' /\ b.interface = i
  BY DEF HasSubnet
<1>1. CASE k = j
  <2>1. y = x /\ c = d
    BY <1>1, JobMoves
  <2> QED
    BY <1>1, <2>1
<1>2. CASE k # j
  <2>1. stage[k] = y /\ call[k] = c
    BY <1>2, JobMoves
  <2> QED
    BY <1>2, <2>1
<1> QED
  BY <1>1, <1>2

(* A step that leaves NetBox as it is.                                     *)
LEMMA QuietStep ==
  ASSUME PrefixAssumption, part = "allocation", AddressesInv,
         NEW j \in Jobs, NEW x \in Stages, NEW d \in CallRecord,
         UNCHANGED <<children, allocated, parents, request>>, overlapped' \in BOOLEAN, overlapped => overlapped',
         Allocation!Step(j, x), Allocation!Local(j, d), left' \in [Jobs -> Seq(DOMAIN Peer)],
         x \in Working \cup {"next"} => Busy(j) \/ (~overlapped' => \A k \in Jobs : ~Busy(k)),
         Good(j, x, d), x = "save" => ~Unsaved(d.ip) \/ (stage[j] = "save" /\ call[j].ip = d.ip),
         Divided /\ WithoutVrf => \A s \in children :
           Claims(j, x, d, s) => \E k \in DOMAIN Peer : HasSubnet(k, s) /\ SameLink(k, d.interface)
  PROVE  AddressesInv'
<1>1. AddressesOK /\ SavesApart /\ JobsOK /\ NetBoxOK /\ SubnetsOfLinks
  BY DEF AddressesInv
<1>2. AddressesOK'
  <2>1. \A k \in Jobs : Busy(k)' => k = j \/ Busy(k)
    BY <1>1, JobMoves DEF Busy
  <2>2. Busy(j)' => Busy(j) \/ (~overlapped' => \A k \in Jobs : ~Busy(k))
    BY <1>1, JobMoves DEF Busy
  <2>3. ~overlapped' => \A k, l \in Jobs : Busy(k)' /\ Busy(l)' => k = l
    BY <1>1, <2>1, <2>2 DEF AddressesOK
  <2> QED
    BY <1>1, <2>3, JobMoves DEF AddressesOK
<1>3. SavesApart'
  <2>1. ASSUME NEW a, NEW k \in Jobs, stage'[k] = "save", call'[k].ip = a, Unsaved(a)
        PROVE  stage[k] = "save" /\ call[k].ip = a
    <3>1. CASE k = j
      BY <1>1, <2>1, <3>1, JobMoves
    <3>2. CASE k # j
      BY <1>1, <2>1, <3>2, JobMoves
    <3> QED
      BY <3>1, <3>2
  <2>2. \A a : Unsaved(a)' <=> Unsaved(a)
    BY DEF Unsaved
  <2> SUFFICES ASSUME NEW a \in DOMAIN allocated, NEW k \in Jobs, NEW l \in Jobs, Unsaved(a),
                      stage'[k] = "save", stage'[l] = "save", call'[k].ip = a, call'[l].ip = a
               PROVE  k = l
    BY <2>2 DEF SavesApart
  <2> QED
    BY <1>1, <2>1 DEF SavesApart
<1>4. JobsOK'
  BY <1>1, JobsKept, CallsStay
<1>5. NetBoxOK'
  BY <1>1 DEF NetBoxOK, Allocation!OneAddress, Allocation!EndsShareSubnet, Allocation!InterfaceOf, Allocation!Range,
    Divided, SubnetsOK
<1>6. SubnetsOfLinks'
  <2>1. ASSUME Divided, WithoutVrf, NEW s \in children, NEW i \in DOMAIN Peer, HasSubnet(i, s)'
        PROVE  \E k \in DOMAIN Peer : HasSubnet(k, s) /\ SameLink(k, i)
    <3>1. \A k, y, c : Claims(k, y, c, s)' <=> Claims(k, y, c, s)
      BY DEF Claims
    <3>2. CASE Claims(j, x, d, s)' /\ i = d.interface
      BY <2>1, <3>1, <3>2
    <3>3. CASE ~(Claims(j, x, d, s)' /\ i = d.interface)
      <4>1. (\E a \in DOMAIN allocated : allocated[a].net = s /\ allocated[a].interface = i) => HasSubnet(i, s)
        BY DEF HasSubnet
      <4>2. (\E k \in Jobs \ {j}, y \in Stages, c \in CallRecord :
               stage[k] = y /\ call[k] = c /\ Claims(k, y, c, s) /\ c.interface = i) => HasSubnet(i, s)
        BY DEF HasSubnet
      <4>3. \/ \E a \in DOMAIN allocated' : allocated'[a].net = s /\ allocated'[a].interface = i
            \/ Claims(j, x, d, s)' /\ i = d.interface
            \/ \E k \in Jobs \ {j}, y \in Stages, c \in CallRecord :
                 stage[k] = y /\ call[k] = c /\ Claims(k, y, c, s)' /\ c.interface = i
        BY <1>1, <2>1, SubnetsAfter
      <4>4. HasSubnet(i, s)
        BY <3>1, <3>3, <4>1, <4>2, <4>3
      <4> QED
        BY <4>4, LinksAreClasses
    <3> QED
      BY <3>2, <3>3
  <2> QED
    BY <1>1, <2>1, LinksKept
<1> QED
  BY <1>2, <1>3, <1>4, <1>5, <1>6 DEF AddressesInv

(* A call that ends, and one that goes on within its stage.                *)
LEMMA CallEnds ==
  ASSUME PrefixAssumption, part = "allocation", AddressesInv, NEW j \in Jobs,
         NEW x \in Stages \ Working, NEW d \in CallRecord,
         UNCHANGED <<children, allocated, parents, request>>, overlapped' \in BOOLEAN, overlapped => overlapped',
         Allocation!Step(j, x), Allocation!Local(j, d), left' \in [Jobs -> Seq(DOMAIN Peer)],
         x = "next" => Busy(j) \/ (~overlapped' => \A k \in Jobs : ~Busy(k))
  PROVE  AddressesInv'
<1>1. Good(j, x, d) /\ \A s : ~Claims(j, x, d, s)
  BY DEF Good, Working, Claims
<1>2. x # "save"
  BY DEF Working
<1> QED
  BY <1>1, <1>2, QuietStep

(* Nothing that matters moves.                                             *)
LEMMA NothingMoves ==
  ASSUME PrefixAssumption, part = "allocation", AddressesInv,
         UNCHANGED <<children, allocated, parents, request, stage, left, call, overlapped>>
  PROVE  AddressesInv'
<1>1. AddressesOK /\ SavesApart /\ JobsOK /\ NetBoxOK /\ SubnetsOfLinks
  BY DEF AddressesInv
<1>2. AddressesOK'
  <2>1. \A j : Busy(j)' <=> Busy(j)
    BY DEF Busy
  <2> QED
    BY <1>1, <2>1 DEF AddressesOK
<1>3. SavesApart'
  BY <1>1 DEF SavesApart, Unsaved
<1>4. JobsOK'
  <2> SUFFICES ASSUME NEW j \in Jobs, NEW x \in Stages, NEW c \in CallRecord, stage[j] = x, call[j] = c
               PROVE  Good(j, x, c)'
    BY DEF JobsOK
  <2>1. Good(j, x, c)
    BY <1>1 DEF JobsOK
  <2> QED
    BY <2>1, CallsStay
<1>5. NetBoxOK'
  BY <1>1 DEF NetBoxOK, Allocation!OneAddress, Allocation!EndsShareSubnet, Allocation!InterfaceOf, Allocation!Range,
    Divided, SubnetsOK
<1>6. SubnetsOfLinks'
  <2>1. \A j, x, c, s : Claims(j, x, c, s)' <=> Claims(j, x, c, s)
    BY DEF Claims
  <2>2. \A i, s : HasSubnet(i, s)' => HasSubnet(i, s)
    BY <2>1 DEF HasSubnet
  <2>3. (Divided' => Divided) /\ (WithoutVrf' => WithoutVrf)
    BY DEF Divided, WithoutVrf, Allocation!Range
  <2> QED
    BY <1>1, <2>2, <2>3 DEF SubnetsOfLinks, SameLink
<1> QED
  BY <1>2, <1>3, <1>4, <1>5, <1>6 DEF AddressesInv

(* A job that stays where it is, and one whose call stays.                 *)
LEMMA Stays ==
  ASSUME AddressesOK, NEW j \in Jobs
  PROVE  /\ UNCHANGED stage => Allocation!Step(j, stage[j])
         /\ UNCHANGED call => Allocation!Local(j, call[j])
         /\ UNCHANGED left => left' \in [Jobs -> Seq(DOMAIN Peer)]
         /\ overlapped \in BOOLEAN
  BY DEF AddressesOK, Allocation!Step, Allocation!Local

LEMMA EndsKeep ==
  ASSUME PrefixAssumption, part = "allocation", AddressesInv, NEW j \in Jobs,
         Allocation!Ends(j), UNCHANGED <<children, allocated, overlapped>>
  PROVE  AddressesInv'
<1>1. AddressesOK
  BY DEF AddressesInv
<1>2. Allocation!Step(j, "raised") /\ Allocation!Local(j, Allocation!NoCall) /\ UNCHANGED <<parents, request>>
  BY DEF Allocation!Ends, Allocation!Step, Allocation!asked
<1>3. left' \in [Jobs -> Seq(DOMAIN Peer)]
  BY <1>1 DEF AddressesOK, Allocation!Ends
<1>4. "raised" \in Stages \ Working /\ "raised" # "next"
  BY DEF Stages, Working
<1> QED
  BY <1>1, <1>2, <1>3, <1>4, NoCallIsRecord, Stays, CallEnds

LEMMA BulkStarts ==
  ASSUME PrefixAssumption, part = "allocation", AddressesInv, NEW j \in Jobs, Allocation!Start(j)
  PROVE  AddressesInv'
<1>1. AddressesOK /\ call[j] \in CallRecord
  BY JobNow DEF AddressesInv
<1>2. /\ Allocation!Step(j, "next") /\ UNCHANGED <<children, allocated, parents, request, call>>
      /\ left' = [left EXCEPT ![j] = request[j].interfaces] /\ overlapped' = (overlapped \/ Allocation!Running # {})
  BY DEF Allocation!Start, Allocation!netbox, Allocation!asked
<1>3. left' \in [Jobs -> Seq(DOMAIN Peer)]
  BY <1>1, <1>2, AskedFor DEF AddressesOK
<1>4. ~overlapped' => \A k \in Jobs : ~Busy(k)
  BY <1>2 DEF Allocation!Running, Busy, Working
<1>5. "next" \in Stages \ Working
  BY DEF Stages, Working
<1>6. overlapped' \in BOOLEAN /\ (overlapped => overlapped')
  BY <1>1, <1>2 DEF AddressesOK
<1> QED
  BY <1>1, <1>2, <1>3, <1>4, <1>5, <1>6, Stays, CallEnds

LEMMA RetryKeeps ==
  ASSUME PrefixAssumption, part = "allocation", AddressesInv, NEW j \in Jobs, Allocation!Retry(j)
  PROVE  AddressesInv'
<1>1. AddressesOK /\ call[j] \in CallRecord
  BY JobNow DEF AddressesInv
<1>2. Allocation!Step(j, "idle") /\ UNCHANGED <<children, allocated, parents, request, left, call, overlapped>>
  BY DEF Allocation!Retry, Allocation!netbox, Allocation!asked
<1>3. "idle" \in Stages \ Working /\ "idle" # "next"
  BY DEF Stages, Working
<1> QED
  BY <1>1, <1>2, <1>3, Stays, CallEnds

(* The first search of a call starts with the first parent.                *)
LEMMA NextInterfaceKeeps ==
  ASSUME PrefixAssumption, part = "allocation", AddressesInv, NEW j \in Jobs, Allocation!NextInterface(j)
  PROVE  AddressesInv'
<1>1. AddressesOK /\ call[j] \in CallRecord /\ left[j] \in Seq(DOMAIN Peer)
  BY JobNow DEF AddressesInv
<1>2. UNCHANGED <<children, allocated, parents, request, overlapped>> /\ stage[j] = "next"
  BY DEF Allocation!NextInterface, Allocation!netbox, Allocation!asked, Allocation!counts
<1>3. CASE left[j] = <<>>
  <2>1. Allocation!Step(j, "done") /\ UNCHANGED <<left, call>>
    BY <1>3 DEF Allocation!NextInterface
  <2>2. "done" \in Stages \ Working /\ "done" # "next"
    BY DEF Stages, Working
  <2> QED
    BY <1>1, <1>2, <2>1, <2>2, Stays, CallEnds
<1>4. CASE left[j] # <<>>
  <2> DEFINE c == Allocation!Call(Head(left[j]), parents, request[j].mask, request[j].peer)
  <2>1. Allocation!Step(j, "find") /\ Allocation!Local(j, c) /\ left' = [left EXCEPT ![j] = Tail(@)]
    BY <1>4 DEF Allocation!NextInterface
  <2>2. Head(left[j]) \in DOMAIN Peer /\ Tail(left[j]) \in Seq(DOMAIN Peer)
    <3>1. \A S, q : q \in Seq(S) /\ q # <<>> => Head(q) \in S /\ Tail(q) \in Seq(S)
      OBVIOUS
    <3> QED
      BY <1>1, <1>4, <3>1
  <2>3. left' \in [Jobs -> Seq(DOMAIN Peer)]
    BY <1>1, <2>1, <2>2 DEF AddressesOK
  <2>4. /\ c \in CallRecord /\ c.interface = Head(left[j]) /\ c.prefixes = parents /\ c.at = 1
        /\ c.mask = request[j].mask /\ c.peer_data = NoValue
    BY <1>1, <2>2, AskedFor, CallsAreRecords DEF Links
  <2> HIDE DEF c
  <2>5. Fits(j, "find", c)
    BY <1>1, <2>2, <2>4, AskedFor DEF Fits
  <2>6. Undisturbed(j, "find", c) /\ Divides(j, "find", c) /\ Joins(j, "find", c)
    BY <2>4 DEF Undisturbed, Divides, Joins
  <2>7. Good(j, "find", c) /\ \A s : ~Claims(j, "find", c, s)
    BY <2>4, <2>5, <2>6 DEF Good, Claims
  <2>8. "find" \in Stages /\ Busy(j)
    BY <1>2 DEF Stages, Working, Busy
  <2> QED
    BY <1>1, <1>2, <2>1, <2>3, <2>4, <2>7, <2>8, Stays, QuietStep
<1> QED
  BY <1>3, <1>4

(* A step of a call that leaves NetBox as it is.                           *)
LEMMA GoesOn ==
  ASSUME PrefixAssumption, part = "allocation", AddressesInv, NEW j \in Jobs, stage[j] \in Working,
         NEW x \in Working, NEW d \in CallRecord, Allocation!Step(j, x), Allocation!Local(j, d),
         UNCHANGED <<children, allocated, parents, request, left, overlapped>>,
         d.interface = call[j].interface, Good(j, x, d), x = "save" => ~Unsaved(d.ip),
         Divided /\ WithoutVrf => \A s \in children :
           Claims(j, x, d, s) =>
             \/ Claims(j, stage[j], call[j], s)
             \/ \E k \in DOMAIN Peer : HasSubnet(k, s) /\ SameLink(k, d.interface)
  PROVE  AddressesInv'
<1>1. AddressesOK /\ stage[j] \in Stages /\ call[j] \in CallRecord /\ Good(j, stage[j], call[j])
  BY JobNow DEF AddressesInv
<1>2. call[j].interface \in DOMAIN Peer
  BY <1>1 DEF Good, Fits
<1>3. \A s : Claims(j, stage[j], call[j], s) => HasSubnet(call[j].interface, s) /\ SameLink(call[j].interface, d.interface)
  BY <1>1 DEF HasSubnet, SameLink
<1>4. Divided /\ WithoutVrf => \A s \in children :
        Claims(j, x, d, s) => \E k \in DOMAIN Peer : HasSubnet(k, s) /\ SameLink(k, d.interface)
  BY <1>2, <1>3
<1>5. x \in Stages /\ Busy(j)
  BY DEF Stages, Busy
<1> QED
  BY <1>1, <1>4, <1>5, Stays, QuietStep

(* What an action leaves alone when it raises.                             *)
LEMMA RaiseKeeps ==
  ASSUME PrefixAssumption, part = "allocation", AddressesInv, NEW j \in Jobs, Allocation!Raise(j)
  PROVE  AddressesInv'
<1>1. Allocation!Ends(j) /\ UNCHANGED <<children, allocated, overlapped>>
  BY DEF Allocation!Raise, Allocation!netbox, Allocation!counts
<1> QED
  BY <1>1, EndsKeep

LEMMA FindKeeps ==
  ASSUME PrefixAssumption, part = "allocation", AddressesInv, NEW j \in Jobs, Allocation!Find(j), ~Allocation!Raise(j)
  PROVE  AddressesInv'
<1> DEFINE c == call[j]
           hits == Allocation!Held(c.interface, c.prefixes[c.at])
<1>1. /\ AddressesOK /\ c \in CallRecord /\ Good(j, "find", c) /\ stage[j] = "find" /\ "find" \in Working
      /\ Allocation!OneAddress
  BY JobNow DEF AddressesInv, NetBoxOK, Allocation!Find, Working
<1>2. UNCHANGED <<children, allocated, parents, request, left, overlapped>>
  BY DEF Allocation!Find, Allocation!netbox, Allocation!asked, Allocation!counts
<1>3. /\ c.interface \in DOMAIN Peer /\ c.at \in DOMAIN c.prefixes /\ c.mask = request[j].mask /\ c.peer_data = NoValue
      /\ c.prefixes = parents \/ (Len(c.prefixes) = 1 /\ ~c.peer)
      /\ NoValue \notin DOMAIN Peer
  BY <1>1 DEF Good, Fits, PrefixAssumption, Allocation!CablesHaveTwoEnds
<1>a. Allocation!Cardinality(hits) \in Nat /\ (Allocation!Cardinality(hits) = 0 <=> hits = {})
  BY <1>1, HitsAre
<1>4. CASE Allocation!Cardinality(hits) = 1
  <2> DEFINE m == Allocation!Min(hits)
             d == [c EXCEPT !.ip = m]
  <2>1. hits = {m} /\ m \in DOMAIN allocated /\ m \in Nat
    BY <1>1, <1>4, HitsAre
  <2>2. Allocation!Step(j, "save") /\ Allocation!Local(j, d)
    BY <1>4, <2>1 DEF Allocation!Find
  <2>3. allocated[m].interface = c.interface /\ m \in c.prefixes[c.at]
    BY <2>1 DEF Allocation!Held
  <2> HIDE DEF m
  <2>4. /\ d \in CallRecord /\ d.interface = c.interface /\ d.prefixes = c.prefixes /\ d.at = c.at
        /\ d.peer = c.peer /\ d.ip = m /\ d.peer_data = NoValue
    BY <1>1, <1>3, <2>1 DEF CallRecord
  <2> HIDE DEF c, d, hits
  <2>5. Fits(j, "save", d)
    BY <1>3, <2>1, <2>3, <2>4 DEF Fits
  <2>6. ~overlapped => Harmless(c.interface, m)
    BY <1>1, <1>3, <2>1, <2>3 DEF Harmless, Allocation!OneAddress, Allocation!InterfaceOf, Allocation!Held,
      Allocation!Range
  <2>7. ~overlapped => Undisturbed(j, "save", d)
    BY <2>4, <2>6 DEF Undisturbed
  <2>8. ~Unsaved(d.ip)
    BY <1>3, <2>3, <2>4 DEF Unsaved
  <2>9. Divided => Divides(j, "save", d) /\ Joins(j, "save", d)
    BY <1>1, <2>4, <2>8 DEF Good, Divides, Joins
  <2>10. \A s : Claims(j, "save", d, s) => HasSubnet(d.interface, s) /\ SameLink(d.interface, d.interface)
    BY <2>1, <2>3, <2>4 DEF Claims, HasSubnet, SameLink
  <2>11. Good(j, "save", d) /\ "save" \in Working
    BY <2>5, <2>7, <2>9 DEF Good, Working
  <2> QED
    BY <1>1, <1>2, <1>3, <2>2, <2>4, <2>8, <2>10, <2>11, GoesOn DEF c
<1>5. CASE hits = {} /\ c.at < Len(c.prefixes)
  <2> DEFINE d == [c EXCEPT !.at = @ + 1]
  <2>1. Allocation!Step(j, "find") /\ Allocation!Local(j, d)
    <3>1. UNCHANGED stage /\ Allocation!Local(j, d)
      BY <1>5, <1>a DEF Allocation!Find
    <3> QED
      BY <1>1, <3>1, Stays
  <2>2. /\ d \in CallRecord /\ d.interface = c.interface /\ d.prefixes = c.prefixes /\ d.at = c.at + 1
        /\ d.peer = c.peer /\ d.mask = c.mask /\ d.peer_data = NoValue
    BY <1>1, <1>3 DEF CallRecord
  <2>3. /\ c.prefixes = parents /\ c.at + 1 \in DOMAIN c.prefixes /\ c.at \in Nat /\ c.at >= 1
        /\ Len(c.prefixes) # 1
    <3>1. c.prefixes \in Seq(SUBSET Nat) /\ c.at \in Nat \ {0}
      BY <1>1 DEF CallRecord
    <3> HIDE DEF c
    <3>2. Len(c.prefixes) # 1
      <4>1. Len(c.prefixes) \in Nat /\ c.at \in Nat /\ c.at # 0 /\ c.at < Len(c.prefixes)
        BY <1>5, <3>1
      <4>2. \A n, l \in Nat : n # 0 /\ n < l => l # 1
        OBVIOUS
      <4> QED
        BY <4>1, <4>2, Zenon
    <3> QED
      BY <1>3, <1>5, <3>1, <3>2
  <2>4. ~overlapped => \A k \in 1..c.at : Allocation!Held(c.interface, parents[k]) = {}
    <3>1. ~overlapped => \A k \in 1..c.at - 1 : Allocation!Held(c.interface, parents[k]) = {}
      BY <1>1, <1>5, <2>3 DEF Good, Undisturbed, PeersTurn
    <3> HIDE DEF c
    <3>2. Allocation!Held(c.interface, parents[c.at]) = {}
      BY <1>5, <2>3
    <3>3. \A k \in 1..c.at : k \in 1..c.at - 1 \/ k = c.at
      BY <2>3
    <3> QED
      BY <3>1, <3>2, <3>3
  <2> HIDE DEF c, d, hits
  <2>5. Fits(j, "find", d)
    BY <1>3, <2>2, <2>3 DEF Fits
  <2>6. ~overlapped => Undisturbed(j, "find", d)
    BY <2>2, <2>3, <2>4 DEF Undisturbed
  <2>7. Divided => Divides(j, "find", d) /\ Joins(j, "find", d)
    BY <2>2, <2>3 DEF Divides, Joins
  <2>8. Good(j, "find", d) /\ \A s : ~Claims(j, "find", d, s)
    BY <2>2, <2>3, <2>5, <2>6, <2>7 DEF Good, Claims
  <2> QED
    BY <1>1, <1>2, <2>1, <2>2, <2>8, GoesOn DEF c
<1>6. CASE hits = {} /\ ~(c.at < Len(c.prefixes))
  <2> DEFINE d == [c EXCEPT !.at = 1]
  <2>1. Allocation!Step(j, "choose") /\ Allocation!Local(j, d)
    BY <1>6, <1>a DEF Allocation!Find
  <2>2. /\ d \in CallRecord /\ d.interface = c.interface /\ d.prefixes = c.prefixes /\ d.at = 1
        /\ d.peer = c.peer /\ d.mask = c.mask /\ d.peer_data = NoValue
    BY <1>1, <1>3 DEF CallRecord
  <2>3. c.at = Len(c.prefixes) /\ 1 \in DOMAIN c.prefixes /\ c.at \in Nat /\ DOMAIN c.prefixes = 1..c.at
    <3>1. c.prefixes \in Seq(SUBSET Nat) /\ c.at \in Nat \ {0}
      BY <1>1 DEF CallRecord
    <3> HIDE DEF c
    <3> QED
      BY <1>3, <1>6, <3>1
  <2>4. ~overlapped => (c.prefixes = parents /\ Nowhere(c.interface)) \/ PeersTurn(c)
    <3>1. ~overlapped =>
            (c.prefixes = parents /\ \A k \in 1..c.at - 1 : Allocation!Held(c.interface, parents[k]) = {}) \/ PeersTurn(c)
      BY <1>1 DEF Good, Undisturbed
    <3> HIDE DEF c
    <3>2. c.prefixes = parents => \A k \in DOMAIN parents : k \in 1..c.at - 1 \/ k = c.at
      BY <2>3
    <3> QED
      BY <1>6, <3>1, <3>2 DEF Nowhere
  <2>5. ~overlapped => Joins(j, "choose", d) \/ ~Divided
    BY <1>1, <2>2 DEF Good, Joins
  <2> HIDE DEF d, hits
  <2>6. Divided => Divides(j, "choose", d)
    BY <1>1, <2>2 DEF Good, Divides
  <2>7. \A s : Claims(j, "choose", d, s) => Claims(j, "find", c, s)
    BY <2>2 DEF Claims
  <2> HIDE DEF c
  <2>8. Fits(j, "choose", d)
    BY <1>3, <2>2, <2>3 DEF Fits
  <2>9. ~overlapped => Undisturbed(j, "choose", d)
    BY <2>2, <2>4 DEF Undisturbed, PeersTurn
  <2>10. Good(j, "choose", d) /\ "choose" \in Working
    BY <2>5, <2>6, <2>8, <2>9 DEF Good, Working
  <2> QED
    BY <1>1, <1>2, <2>1, <2>2, <2>7, <2>10, GoesOn DEF c
<1>7. Allocation!Cardinality(hits) = 1 \/ hits = {}
  BY <1>a DEF Allocation!Find
<1> QED
  BY <1>4, <1>5, <1>6, <1>7

(* Where a call is in its list of prefixes.                                *)
LEMMA Places ==
  ASSUME NEW S, NEW q \in Seq(S), NEW n \in DOMAIN q
  PROVE  /\ n \in Nat /\ n >= 1 /\ 1 \in DOMAIN q /\ q[n] \in S /\ (Len(q) = 1 => n = 1)
         /\ n < Len(q) => Len(q) # 1 /\ n + 1 \in DOMAIN q
         /\ \A k \in 1..n : k \in 1..n - 1 \/ k = n
         /\ \A k \in 1..n - 1 : k \in DOMAIN q /\ k < n
         /\ \A k \in DOMAIN q : k \in 1..n - 1 \/ k = n \/ n < k
<1>1. DOMAIN q = 1..Len(q) /\ Len(q) \in Nat /\ n \in 1..Len(q)
  OBVIOUS
<1>2. n \in Nat /\ n >= 1 /\ n <= Len(q)
  BY <1>1
<1>3. q[n] \in S
  OBVIOUS
<1> QED
  BY <1>1, <1>2, <1>3

(* What a call that works knows.                                           *)
LEMMA CallNow ==
  ASSUME PrefixAssumption, part = "allocation", AddressesInv, NEW j \in Jobs, stage[j] \in Working
  PROVE  LET c == call[j]
         IN  /\ AddressesOK /\ NetBoxOK /\ c \in CallRecord /\ Good(j, stage[j], c)
             /\ c.interface \in DOMAIN Peer /\ NoValue \notin DOMAIN Peer
             /\ c.prefixes \in Seq(SUBSET Nat) /\ c.at \in DOMAIN c.prefixes
             /\ c.prefixes = parents \/ (Len(c.prefixes) = 1 /\ ~c.peer)
             /\ Divided => request[j].mask /\ \A k \in DOMAIN parents : parents[k] \notin Subnets
<1>1. AddressesOK /\ NetBoxOK /\ call[j] \in CallRecord /\ Good(j, stage[j], call[j])
  BY JobNow DEF AddressesInv
<1>2. /\ call[j].interface \in DOMAIN Peer /\ call[j].at \in DOMAIN call[j].prefixes
      /\ call[j].prefixes = parents \/ (Len(call[j].prefixes) = 1 /\ ~call[j].peer)
  BY <1>1 DEF Good, Fits
<1>3. call[j].prefixes \in Seq(SUBSET Nat)
  BY <1>1 DEF CallRecord
<1>4. Divided => request[j].mask /\ \A k \in DOMAIN parents : parents[k] \notin Subnets
  BY DEF Divided, Allocation!Range
<1> QED
  BY <1>1, <1>2, <1>3, <1>4 DEF PrefixAssumption, Allocation!CablesHaveTwoEnds

LEMMA ChooseKeeps ==
  ASSUME PrefixAssumption, part = "allocation", AddressesInv, NEW j \in Jobs, Allocation!Choose(j), ~Allocation!Raise(j)
  PROVE  AddressesInv'
<1> DEFINE c == call[j]
<1>1. stage[j] = "choose" /\ "choose" \in Working /\ UNCHANGED <<children, allocated, parents, request, left, overlapped>>
  BY DEF Allocation!Choose, Allocation!netbox, Allocation!asked, Allocation!counts, Working
<1>2. /\ AddressesOK /\ c \in CallRecord /\ Good(j, "choose", c)
      /\ c.interface \in DOMAIN Peer /\ c.prefixes \in Seq(SUBSET Nat) /\ c.at \in DOMAIN c.prefixes
      /\ c.prefixes = parents \/ (Len(c.prefixes) = 1 /\ ~c.peer)
      /\ Divided => request[j].mask /\ \A k \in DOMAIN parents : parents[k] \notin Subnets
  BY <1>1, CallNow
<1>3. c.mask = request[j].mask /\ c.peer_data = NoValue
  BY <1>1, <1>2 DEF Good, Fits
<1>4. c.at \in Nat /\ c.at >= 1 /\ (c.at < Len(c.prefixes) => Len(c.prefixes) # 1 /\ c.at + 1 \in DOMAIN c.prefixes)
  BY <1>2, Places
<1>5. CASE Allocation!Step(j, "peer") /\ Allocation!Local(j, [c EXCEPT !.prefix = c.prefixes[c.at]])
  <2> DEFINE d == [c EXCEPT !.prefix = c.prefixes[c.at]]
  <2>1. /\ d \in CallRecord /\ d.interface = c.interface /\ d.prefixes = c.prefixes /\ d.at = c.at
        /\ d.peer = c.peer /\ d.mask = c.mask /\ d.peer_data = NoValue /\ d.prefix = c.prefixes[c.at]
    <3>1. c.prefixes[c.at] \in SUBSET Nat
      BY <1>2, Places
    <3> QED
      BY <1>2, <1>3, <3>1 DEF CallRecord
  <2>2. Allocation!Step(j, "peer") /\ Allocation!Local(j, d)
    BY <1>5
  <2> HIDE DEF d
  <2>3. Fits(j, "peer", d)
    BY <1>2, <1>3, <2>1 DEF Fits
  <2>4. ~overlapped => Undisturbed(j, "peer", d)
    BY <1>1, <1>2, <2>1 DEF Good, Undisturbed, PeersTurn
  <2>5. Divided => Divides(j, "peer", d) /\ (~overlapped => Joins(j, "peer", d))
    BY <1>1, <1>2, <2>1 DEF Good, Divides, Joins
  <2>6. \A s : Claims(j, "peer", d, s) => Claims(j, "choose", c, s)
    BY <2>1 DEF Claims
  <2>7. Good(j, "peer", d) /\ "peer" \in Working
    BY <2>3, <2>4, <2>5 DEF Good, Working
  <2> QED
    BY <1>1, <2>1, <2>2, <2>6, <2>7, GoesOn
<1>6. CASE /\ UNCHANGED stage /\ Allocation!Local(j, [c EXCEPT !.at = @ + 1]) /\ c.at < Len(c.prefixes)
           /\ ~Allocation!MakesSubnet(c) /\ (~Allocation!MakesSubnet(c) => Allocation!Free(c.prefixes[c.at]) = {})
  <2> DEFINE d == [c EXCEPT !.at = @ + 1]
  <2>1. /\ d \in CallRecord /\ d.interface = c.interface /\ d.prefixes = c.prefixes /\ d.at = c.at + 1
        /\ d.peer = c.peer /\ d.mask = c.mask /\ d.peer_data = NoValue
    BY <1>2, <1>3, <1>4 DEF CallRecord
  <2>2. Allocation!Step(j, "choose") /\ Allocation!Local(j, d)
    BY <1>1, <1>2, <1>6, Stays
  <2>3. c.prefixes = parents /\ Len(c.prefixes) # 1 /\ c.at + 1 \in DOMAIN c.prefixes
    BY <1>2, <1>4, <1>6
  <2>4. ~overlapped => Nowhere(c.interface) /\ \A k \in 1..c.at - 1 : Allocation!Free(parents[k]) = {}
    BY <1>1, <1>2, <2>3 DEF Good, Undisturbed, PeersTurn
  <2>5. Allocation!Free(parents[c.at]) = {} /\ \A k \in 1..c.at : k \in 1..c.at - 1 \/ k = c.at
    BY <1>2, <1>6, <2>3, Places
  <2>6. ~Divided
    BY <1>2, <1>3, <1>6, <2>3 DEF Allocation!MakesSubnet
  <2> HIDE DEF c, d
  <2>7. Fits(j, "choose", d)
    BY <1>2, <1>3, <2>1, <2>3 DEF Fits
  <2>8. (d.at - 1) = c.at
    BY <1>4, <2>1
  <2>9. ~overlapped => Undisturbed(j, "choose", d)
    BY <2>1, <2>3, <2>4, <2>5, <2>8 DEF Undisturbed
  <2>10. Good(j, "choose", d)
    BY <2>6, <2>7, <2>9 DEF Good
  <2> QED
    BY <1>1, <2>1, <2>2, <2>6, <2>10, GoesOn DEF c
<1> QED
  BY <1>5, <1>6 DEF Allocation!Choose

(* Where nobody has an address of the interface yet, any will do; and the  *)
(* other end may have any of the prefix, as those before it have no room.  *)
LEMMA NoneIsHarmless ==
  ASSUME NEW i, Nowhere(i), NEW p
  PROVE  Open(i, p)
  BY DEF Nowhere, Open, Harmless

LEMMA FirstWithRoom ==
  ASSUME PrefixAssumption, AddressesOK, NEW n \in DOMAIN parents, NEW i,
         \A k \in 1..n - 1 : Allocation!Free(parents[k]) = {}, Allocation!Held(i, parents[n]) = {}
  PROVE  Open(i, parents[n])
<1> SUFFICES ASSUME NEW a \in Allocation!Free(parents[n]), NEW k \in DOMAIN parents, a \in parents[k]
             PROVE  Allocation!Held(i, parents[k]) = {}
  BY DEF Open, Harmless
<1>1. a \in parents[n] /\ a \notin DOMAIN allocated
  BY DEF Allocation!Free
<1>2. \A l, m \in DOMAIN parents : l < m => parents[m] \subseteq parents[l] \/ parents[m] \cap parents[l] = {}
  BY AskedFor, Jobs # {} \/ Jobs = {} DEF PrefixAssumption, AddressesOK, Allocation!PrefixesAreWhole
<1>3. k \in 1..n - 1 \/ k = n \/ n < k
  BY Places DEF PrefixAssumption, AddressesOK, Allocation!PrefixesAreWhole
<1>4. CASE k \in 1..n - 1
  BY <1>1, <1>4 DEF Allocation!Free
<1>5. CASE n < k
  <2>1. parents[k] \subseteq parents[n]
    BY <1>1, <1>2, <1>5
  <2> QED
    BY <2>1 DEF Allocation!Held
<1> QED
  BY <1>3, <1>4, <1>5

(* What the look at the other end makes of a call.                         *)
SameMask(c, d) == d.mask = c.mask /\ d.prefix = c.prefix
NoPeer(c, d) == SameMask(c, d) /\ d.peer_data = NoValue /\ (Peer[c.interface] = NoValue \/ ~Divided)
NewPeer(c, d) ==
  /\ SameMask(c, d) /\ d.peer_data = IF c.peer THEN Peer[c.interface] ELSE NoValue
  /\ Peer[c.interface] # NoValue /\ Allocation!Held(Peer[c.interface], c.prefix) = {}
OldPeer(c, d) ==
  /\ ~d.mask /\ d.peer_data = NoValue /\ Peer[c.interface] # NoValue
  /\ \E m \in Allocation!Held(Peer[c.interface], c.prefix) :
       allocated[m].net = d.prefix /\ Allocation!Held(Peer[c.interface], c.prefix) = {m}

LEMMA PeerIsLookedAt ==
  ASSUME PrefixAssumption, part = "allocation", AddressesInv, NEW j \in Jobs, stage[j] = "peer",
         NEW d \in CallRecord, d.interface = call[j].interface, d.prefixes = call[j].prefixes, d.at = call[j].at,
         d.peer = call[j].peer,
         NoPeer(call[j], d) \/ NewPeer(call[j], d) \/ OldPeer(call[j], d),
         NEW y, y = IF Allocation!MakesSubnet(d) /\ ~request[j].dry_run THEN "subnet" ELSE "address"
  PROVE  /\ Good(j, y, d)
         /\ Divided => \A s \in children : Claims(j, y, d, s) =>
              \/ Claims(j, "peer", call[j], s)
              \/ \E k \in DOMAIN Peer : HasSubnet(k, s) /\ SameLink(k, d.interface)
<1> DEFINE c == call[j]
           i == c.interface
<1>1. "peer" \in Working
  BY DEF Working
<1>2. /\ AddressesOK /\ NetBoxOK /\ c \in CallRecord /\ Good(j, "peer", c)
      /\ i \in DOMAIN Peer /\ NoValue \notin DOMAIN Peer /\ c.prefixes \in Seq(SUBSET Nat) /\ c.at \in DOMAIN c.prefixes
      /\ c.prefixes = parents \/ (Len(c.prefixes) = 1 /\ ~c.peer)
      /\ Divided => request[j].mask /\ \A k \in DOMAIN parents : parents[k] \notin Subnets
  BY <1>1, CallNow
<1>3. c.mask = request[j].mask /\ c.peer_data = NoValue /\ c.prefix = c.prefixes[c.at]
  BY <1>1, <1>2 DEF Good, Fits
<1>4. ~overlapped =>
        \/ c.prefixes = parents /\ Nowhere(i) /\ \A k \in 1..c.at - 1 : Allocation!Free(parents[k]) = {}
        \/ PeersTurn(c)
  BY <1>1, <1>2 DEF Good, Undisturbed
<1>5. Divided => c.at = 1 /\ (c.prefixes # parents => c.prefixes[1] \in children)
  BY <1>1, <1>2 DEF Good, Divides
<1>6. Divided /\ ~overlapped /\ c.prefixes # parents => \A a \in Others(i) : allocated[a].net = c.prefixes[1]
  BY <1>1, <1>2 DEF Good, Joins
<1>7. /\ children \subseteq Subnets
      /\ Divided => \A a \in DOMAIN allocated : allocated[a].net \in children /\ a \in parents[1]
  BY <1>2 DEF AddressesOK, NetBoxOK, SubnetsOK
<1>8. y \in {"subnet", "address"} /\ (y = "subnet" <=> Allocation!MakesSubnet(d) /\ ~request[j].dry_run)
  OBVIOUS
<1>9. y = "subnet" => d.mask /\ c.prefixes[c.at] \notin Subnets /\ d.prefix = c.prefixes[c.at] /\ ~OldPeer(c, d)
  BY <1>3, <1>8 DEF Allocation!MakesSubnet, NoPeer, NewPeer, OldPeer, SameMask
<1>10. y = "address" /\ ~request[j].dry_run => OldPeer(c, d) \/ ~d.mask \/ (c.prefixes[c.at] \in Subnets /\ d.prefix = c.prefixes[c.at])
  BY <1>3, <1>8 DEF Allocation!MakesSubnet, NoPeer, NewPeer, SameMask
<1>11. d.peer_data # NoValue => NewPeer(c, d) /\ c.peer /\ d.peer_data = Peer[i] /\ c.prefixes = parents /\ d.prefix = parents[c.at]
  BY <1>2, <1>3 DEF NoPeer, NewPeer, OldPeer, SameMask
<1>12. d.interface = i /\ d.prefixes = c.prefixes /\ d.at = c.at /\ d.peer = c.peer
  OBVIOUS
<1> HIDE DEF c, i
<1>13. Fits(j, y, d)
  <2>1. y = "subnet" => d.prefix = d.prefixes[d.at] /\ d.mask /\ d.prefix \notin Subnets /\ ~request[j].dry_run
    BY <1>8, <1>9, <1>12
  <2>2. y = "address" => request[j].dry_run \/ (d.mask => d.prefix \in Subnets)
    BY <1>10 DEF OldPeer
  <2>3. d.peer_data # NoValue =>
          d.prefixes = parents /\ d.peer_data = Peer[d.interface] /\ d.prefix \subseteq parents[d.at]
    BY <1>11, <1>12
  <2>4. d.interface \in DOMAIN Peer /\ d.at \in DOMAIN d.prefixes /\ (d.prefixes = parents \/ (Len(d.prefixes) = 1 /\ ~d.peer))
    BY <1>2, <1>12
  <2> QED
    BY <1>8, <2>1, <2>2, <2>3, <2>4 DEF Fits
<1>14. ~overlapped => Open(i, d.prefix)
  <2>1. CASE PeersTurn(c)
    <3>1. c.at = 1 /\ Open(i, c.prefixes[1])
      BY <1>2, <2>1, Places DEF PeersTurn, i
    <3>2. OldPeer(c, d) => d.prefix = c.prefixes[1]
      BY <1>3, <2>1, <3>1 DEF OldPeer, PeersTurn
    <3>3. ~OldPeer(c, d) => d.prefix = c.prefixes[1]
      BY <1>3, <3>1, NoPeer(c, d) \/ NewPeer(c, d) \/ OldPeer(c, d) DEF NoPeer, NewPeer, SameMask, c
    <3> QED
      BY <3>1, <3>2, <3>3
  <2> QED
    BY <1>4, <2>1, NoneIsHarmless
<1>15. ~overlapped => Undisturbed(j, y, d)
  <2>1. ~overlapped /\ d.peer_data # NoValue => Nowhere(i) /\ Open(d.peer_data, d.prefix)
    <3> SUFFICES ASSUME ~overlapped, d.peer_data # NoValue PROVE Nowhere(i) /\ Open(d.peer_data, d.prefix)
      OBVIOUS
    <3>1. Nowhere(i) /\ \A k \in 1..c.at - 1 : Allocation!Free(parents[k]) = {}
      BY <1>4, <1>11 DEF PeersTurn
    <3>2. Allocation!Held(d.peer_data, parents[c.at]) = {}
      BY <1>3, <1>11 DEF NewPeer, i
    <3> QED
      BY <1>2, <1>11, <3>1, <3>2, FirstWithRoom
  <2> QED
    BY <1>8, <1>12, <1>14, <2>1 DEF Undisturbed
(* With subnets of their own, the address is of the subnet that the link   *)
(* has, if it has one, or a new one is made.                               *)
<1>16. Divided => ~NoPeer(c, d) \/ Peer[i] = NoValue
  BY DEF NoPeer, i
<1>17. Divided /\ y = "subnet" => c.prefixes = parents /\ d.prefix = parents[1]
  BY <1>5, <1>7, <1>9
<1>18. Divided /\ y = "address" /\ ~request[j].dry_run =>
         OldPeer(c, d) \/ (c.prefixes # parents /\ d.prefix = c.prefixes[1] /\ c.prefixes[1] \in children)
  BY <1>2, <1>3, <1>5, <1>10, NoPeer(c, d) \/ NewPeer(c, d) \/ OldPeer(c, d) DEF NoPeer, NewPeer, SameMask, c
<1>19. Divided /\ OldPeer(c, d) => d.prefix \in children
  BY <1>7 DEF OldPeer, Allocation!Held
<1>20. Divided => Divides(j, y, d)
  BY <1>5, <1>8, <1>12, <1>18, <1>19 DEF Divides
<1>21. Divided /\ ~overlapped => Joins(j, y, d)
  <2> SUFFICES ASSUME Divided, ~overlapped PROVE Joins(j, y, d)
    OBVIOUS
  <2>1. c.prefixes = parents => Others(i) \subseteq Allocation!Held(Peer[i], c.prefix)
    BY <1>3, <1>5, <1>7 DEF Others, Allocation!Held
  <2>2. y = "subnet" => Others(i) = {}
    BY <1>9, <1>16, <1>17, <2>1, NoPeer(c, d) \/ NewPeer(c, d) \/ OldPeer(c, d) DEF Others, NewPeer, c, i
  <2>3. ASSUME OldPeer(c, d), NEW a \in Others(i) PROVE allocated[a].net = d.prefix
    <3>1. PICK m \in Allocation!Held(Peer[i], c.prefix) : allocated[m].net = d.prefix /\ Allocation!Held(Peer[i], c.prefix) = {m}
      BY <2>3 DEF OldPeer, i
    <3>2. CASE c.prefixes = parents
      BY <2>1, <2>3, <3>1, <3>2
    <3>3. CASE c.prefixes # parents
      <4>1. m \in Others(i)
        BY <2>3, <3>1 DEF Others, Allocation!Held, OldPeer, i
      <4> QED
        BY <1>6, <2>3, <3>1, <3>3, <4>1
    <3> QED
      BY <3>2, <3>3
  <2>4. y = "address" /\ ~request[j].dry_run => \A a \in Others(i) : allocated[a].net = d.prefix
    BY <1>6, <1>18, <2>3
  <2> QED
    BY <1>8, <1>12, <2>2, <2>4 DEF Joins
<1>22. Good(j, y, d)
  BY <1>13, <1>15, <1>20, <1>21 DEF Good
<1>23. ASSUME Divided, NEW s \in children, Claims(j, y, d, s)
       PROVE  Claims(j, "peer", c, s) \/ \E k \in DOMAIN Peer : HasSubnet(k, s) /\ SameLink(k, d.interface)
  <2>1. y = "address" /\ ~request[j].dry_run /\ s = d.prefix
    BY <1>8, <1>23 DEF Claims
  <2>2. CASE OldPeer(c, d)
    <3>1. PICK m \in Allocation!Held(Peer[i], c.prefix) : allocated[m].net = d.prefix
      BY <2>2 DEF OldPeer, i
    <3>2. HasSubnet(Peer[i], s)
      BY <2>1, <3>1 DEF HasSubnet, Allocation!Held
    <3>3. Peer[i] \in DOMAIN Peer /\ Peer[Peer[i]] = i
      BY <1>2, <2>2 DEF PrefixAssumption, Allocation!CablesHaveTwoEnds, OldPeer, i
    <3>4. SameLink(Peer[i], d.interface)
      BY <1>2, <1>12, <3>3 DEF SameLink
    <3> QED
      BY <3>2, <3>3, <3>4
  <2>3. CASE ~OldPeer(c, d)
    BY <1>18, <1>23, <2>1, <2>3 DEF Claims
  <2> QED
    BY <2>2, <2>3
<1> QED
  BY <1>22, <1>23 DEF c

LEMMA LookAtPeerKeeps ==
  ASSUME PrefixAssumption, part = "allocation", AddressesInv, NEW j \in Jobs, Allocation!LookAtPeer(j), ~Allocation!Raise(j)
  PROVE  AddressesInv'
<1> DEFINE c == call[j]
           d == IF Peer[c.interface] = NoValue THEN c ELSE Allocation!PeerPrefix(c)
           hits == Allocation!Held(Peer[c.interface], c.prefix)
           m == Allocation!Min(hits)
           y == IF Allocation!MakesSubnet(d) /\ ~request[j].dry_run THEN "subnet" ELSE "address"
<1>1. /\ stage[j] = "peer" /\ "peer" \in Working /\ UNCHANGED <<children, allocated, parents, request, left, overlapped>>
      /\ Allocation!Step(j, y) /\ Allocation!Local(j, d)
      /\ ~(Peer[d.interface] # NoValue /\ Allocation!Cardinality(Allocation!Held(Peer[d.interface], c.prefix)) > 1)
  BY DEF Allocation!LookAtPeer, Allocation!netbox, Allocation!asked, Allocation!counts, Working
<1>2. /\ AddressesOK /\ NetBoxOK /\ c \in CallRecord /\ Good(j, "peer", c) /\ c.interface \in DOMAIN Peer
  BY <1>1, CallNow
<1>3. c.peer_data = NoValue
  BY <1>1, <1>2 DEF Good, Fits
<1>4. /\ hits = {} \/ (m \in hits /\ hits = {m}) \/ Allocation!Cardinality(hits) > 1
      /\ hits \subseteq DOMAIN allocated
  BY <1>2, HitsAre
<1>5. Divided => \A a \in DOMAIN allocated : allocated[a].net \in children
  BY <1>2 DEF NetBoxOK, SubnetsOK
<1>6. /\ d \in CallRecord /\ d.interface = c.interface /\ d.prefixes = c.prefixes /\ d.at = c.at /\ d.peer = c.peer
      /\ NoPeer(c, d) \/ NewPeer(c, d) \/ OldPeer(c, d)
  <2>1. CASE Peer[c.interface] = NoValue
    BY <1>2, <1>3, <2>1 DEF NoPeer, SameMask
  <2>2. CASE Peer[c.interface] # NoValue /\ hits = {}
    <3>1. d = [c EXCEPT !.peer_data = IF c.peer THEN Peer[c.interface] ELSE NoValue]
      BY <2>2 DEF Allocation!PeerPrefix
    <3>2. (IF c.peer THEN Peer[c.interface] ELSE NoValue) \in Links
      BY <1>2, <2>2 DEF Links, PrefixAssumption, Allocation!CablesHaveTwoEnds
    <3> HIDE DEF d
    <3> QED
      BY <1>2, <2>2, <3>1, <3>2 DEF NewPeer, SameMask, CallRecord
  <2>3. CASE Peer[c.interface] # NoValue /\ hits # {}
    <3>1. d.interface = c.interface
      BY <1>2, <2>3 DEF Allocation!PeerPrefix, CallRecord
    <3>2. m \in hits /\ hits = {m}
      BY <1>1, <1>4, <2>3, <3>1
    <3>3. CASE allocated[m].net \in children \cup Allocation!Range(parents)
      <4>1. d = [c EXCEPT !.prefix = allocated[m].net, !.mask = FALSE]
        BY <2>3, <3>3 DEF Allocation!PeerPrefix
      <4>2. allocated[m].net \in SUBSET Nat
        BY <1>2, <3>3 DEF PrefixAssumption, Allocation!PrefixesAreWhole, AddressesOK, Allocation!Range
      <4> HIDE DEF d, m
      <4>3. /\ d \in CallRecord /\ d.interface = c.interface /\ d.prefixes = c.prefixes /\ d.at = c.at /\ d.peer = c.peer
            /\ d.mask = FALSE /\ d.peer_data = NoValue /\ d.prefix = allocated[m].net
        BY <1>2, <1>3, <4>1, <4>2 DEF CallRecord
      <4> QED
        BY <2>3, <3>2, <4>3 DEF OldPeer
    <3>4. CASE allocated[m].net \notin children \cup Allocation!Range(parents)
      <4>1. d = c
        BY <2>3, <3>4 DEF Allocation!PeerPrefix
      <4>2. ~Divided
        BY <1>4, <1>5, <3>2, <3>4
      <4> QED
        BY <1>2, <1>3, <4>1, <4>2 DEF NoPeer, SameMask
    <3> QED
      BY <3>3, <3>4
  <2> QED
    BY <2>1, <2>2, <2>3
<1>7. y \in Working /\ y # "save"
  BY DEF Working
<1>8. /\ Good(j, y, d)
      /\ Divided => \A s \in children : Claims(j, y, d, s) =>
           \/ Claims(j, "peer", c, s)
           \/ \E k \in DOMAIN Peer : HasSubnet(k, s) /\ SameLink(k, d.interface)
  <2> HIDE DEF d
  <2> QED
    BY <1>1, <1>6, PeerIsLookedAt
<1> HIDE DEF d, y
<1> QED
  BY <1>1, <1>6, <1>7, <1>8, GoesOn

LEMMA FindPrefixKeeps ==
  ASSUME PrefixAssumption, part = "allocation", AddressesInv, NEW j \in Jobs, Allocation!FindPrefix(j), ~Allocation!Raise(j)
  PROVE  AddressesInv'
<1> DEFINE c == call[j]
           within == Allocation!Within(c.prefix)
           d == [c EXCEPT !.child = Allocation!Lowest(within)]
<1>1. /\ stage[j] = "subnet" /\ "subnet" \in Working /\ UNCHANGED <<children, allocated, parents, request, left, overlapped>>
      /\ Allocation!Step(j, "look") /\ Allocation!Local(j, d) /\ request[j].vrf /\ within # {}
  BY DEF Allocation!FindPrefix, Allocation!IsFound, Allocation!netbox, Allocation!asked, Allocation!counts, Working
<1>2. AddressesOK /\ c \in CallRecord /\ Good(j, "subnet", c) /\ c.interface \in DOMAIN Peer
  BY <1>1, CallNow
<1>3. Allocation!Lowest(within) \in children /\ Allocation!Lowest(within) \subseteq c.prefix
  <2>1. within \subseteq children /\ \A s \in within : s \subseteq c.prefix
    BY DEF Allocation!Within
  <2>2. within \subseteq Subnets
    BY <1>2, <2>1 DEF AddressesOK
  <2>3. Allocation!Lowest(within) \in within
    BY <1>1, <2>2, LowestIsThere
  <2> QED
    BY <2>1, <2>3
<1>4. /\ d \in CallRecord /\ d.interface = c.interface /\ d.prefixes = c.prefixes /\ d.at = c.at /\ d.peer = c.peer
      /\ d.mask = c.mask /\ d.prefix = c.prefix /\ d.peer_data = c.peer_data
      /\ d.child \in children /\ d.child \subseteq d.prefix
  <2>1. Allocation!Lowest(within) \in SUBSET Nat
    BY <1>2, <1>3 DEF CallRecord
  <2> HIDE DEF within
  <2> QED
    BY <1>2, <1>3, <2>1 DEF CallRecord
<1> HIDE DEF c, d
<1>5. Fits(j, "look", d)
  BY <1>1, <1>2, <1>4 DEF Good, Fits
<1>6. ~overlapped => Undisturbed(j, "look", d)
  BY <1>1, <1>2, <1>4 DEF Good, Undisturbed
<1>7. Divided => Divides(j, "look", d) /\ (~overlapped => Joins(j, "look", d))
  BY <1>1, <1>2, <1>4 DEF Good, Divides, Joins
<1>8. Good(j, "look", d) /\ "look" \in Working /\ ~WithoutVrf
  BY <1>1, <1>5, <1>6, <1>7 DEF Good, Working, WithoutVrf
<1> QED
  BY <1>1, <1>4, <1>8, GoesOn DEF c

LEMMA LookAtChildKeeps ==
  ASSUME PrefixAssumption, part = "allocation", AddressesInv, NEW j \in Jobs, Allocation!LookAtChild(j)
  PROVE  AddressesInv'
<1> DEFINE c == call[j]
<1>1. stage[j] = "look" /\ "look" \in Working /\ UNCHANGED <<children, allocated, parents, request, left, overlapped>>
  BY DEF Allocation!LookAtChild, Allocation!netbox, Allocation!asked, Allocation!counts, Working
<1>2. AddressesOK /\ c \in CallRecord /\ Good(j, "look", c) /\ c.interface \in DOMAIN Peer
  BY <1>1, CallNow
<1>3. c.child \in children /\ c.child \in Subnets /\ c.child \subseteq c.prefix
  BY <1>1, <1>2 DEF Good, Fits, AddressesOK
<1>4. CASE Allocation!Step(j, "address") /\ Allocation!Local(j, [c EXCEPT !.prefix = c.child])
  <2> DEFINE d == [c EXCEPT !.prefix = c.child]
  <2>1. /\ d \in CallRecord /\ d.interface = c.interface /\ d.prefixes = c.prefixes /\ d.at = c.at /\ d.peer = c.peer
        /\ d.mask = c.mask /\ d.prefix = c.child /\ d.peer_data = c.peer_data
    BY <1>2 DEF CallRecord
  <2>2. Allocation!Step(j, "address") /\ Allocation!Local(j, d)
    BY <1>4
  <2> HIDE DEF c, d
  <2>3. Fits(j, "address", d)
    BY <1>1, <1>2, <1>3, <2>1 DEF Good, Fits
  <2>4. Allocation!Free(c.child) \subseteq Allocation!Free(c.prefix)
    BY <1>3 DEF Allocation!Free
  <2>5. \A i : Open(i, c.prefix) => Open(i, c.child)
    BY <2>4 DEF Open
  <2>6. ~overlapped => Undisturbed(j, "address", d)
    BY <1>1, <1>2, <2>1, <2>5 DEF Good, Undisturbed
  <2>7. Divided => Divides(j, "address", d)
    BY <1>1, <1>2, <1>3, <2>1 DEF Good, Divides
  <2>8. Divided /\ ~overlapped => Joins(j, "address", d)
    BY <1>1, <1>2, <2>1 DEF Good, Joins
  <2>9. Good(j, "address", d) /\ "address" \in Working /\ \A s : Claims(j, "address", d, s) => Claims(j, "look", c, s)
    BY <2>1, <2>3, <2>6, <2>7, <2>8 DEF Good, Working, Claims
  <2> QED
    BY <1>1, <2>1, <2>2, <2>9, GoesOn DEF c
<1>5. CASE Allocation!Step(j, "subnet") /\ UNCHANGED call
  <2>1. Allocation!Local(j, c)
    BY <1>2, <1>5, Stays
  <2> HIDE DEF c
  <2>2. Fits(j, "subnet", c)
    BY <1>1, <1>2 DEF Good, Fits
  <2>3. ~overlapped => Undisturbed(j, "subnet", c)
    BY <1>1, <1>2 DEF Good, Undisturbed
  <2>4. Divided => Divides(j, "subnet", c) /\ (~overlapped => Joins(j, "subnet", c))
    BY <1>1, <1>2 DEF Good, Divides, Joins
  <2>5. Good(j, "subnet", c) /\ "subnet" \in Working /\ \A s : ~Claims(j, "subnet", c, s)
    BY <2>2, <2>3, <2>4 DEF Good, Working, Claims
  <2> QED
    BY <1>1, <1>2, <1>5, <2>1, <2>5, GoesOn DEF c
<1> QED
  BY <1>4, <1>5 DEF Allocation!LookAtChild

(* A request that NetBox refuses, and a job that is out of time.           *)
LEMMA FailuresKeep ==
  ASSUME PrefixAssumption, part = "allocation", AddressesInv, NEW j \in Jobs,
         Allocation!RequestFails(j) \/ Allocation!TimesOut(j)
  PROVE  AddressesInv'
<1>1. CASE Allocation!RequestFails(j)
  <2>1. Allocation!Ends(j) /\ UNCHANGED <<children, allocated, overlapped>>
    BY <1>1 DEF Allocation!RequestFails, Allocation!netbox
  <2> QED
    BY <2>1, EndsKeep
<1>2. CASE Allocation!TimesOut(j)
  BY <1>2, RaiseKeeps DEF Allocation!TimesOut
<1> QED
  BY <1>1, <1>2

-----------------------------------------------------------------------------
(* A request that writes.  What the others know of their calls stays, as   *)
(* long as it leaves the addresses that they are saving.                   *)
Left(a) ==
  /\ allocated'[a].interface = allocated[a].interface
  /\ Unsaved(a) \/ Divided => allocated'[a].net = allocated[a].net
LEMMA OthersKept ==
  ASSUME UNCHANGED <<parents, request, overlapped>>, children \subseteq children', DOMAIN allocated \subseteq DOMAIN allocated',
         NEW k, NEW y, NEW c, Good(k, y, c), ~overlapped => y \notin Working, y = "save" => Left(c.ip)
  PROVE  Good(k, y, c)'
<1> SUFFICES ASSUME y \in Working PROVE Good(k, y, c)'
  BY DEF Good
<1>1. overlapped /\ overlapped' /\ Fits(k, y, c) /\ (Divided => Divides(k, y, c))
  BY DEF Good
<1>2. y = "save" => (Unsaved(c.ip)' <=> Unsaved(c.ip))
  BY DEF Left, Unsaved
<1>3. Fits(k, y, c)'
  BY <1>1, <1>2 DEF Fits, Left, Unsaved
<1>4. Divided' => Divided /\ Divides(k, y, c)'
  BY <1>1 DEF Divided, Divides, Allocation!Range
<1> QED
  BY <1>1, <1>3, <1>4 DEF Good

LEMMA ClaimsAreSubnets ==
  ASSUME AddressesOK, NetBoxOK, Divided, NEW k, NEW y, NEW c, NEW s, Good(k, y, c), Claims(k, y, c, s)
  PROVE  s \in children
<1>1. y \in Working
  BY DEF Claims, Working
<1>2. Fits(k, y, c) /\ Divides(k, y, c) /\ SubnetsOK
  BY <1>1 DEF Good, NetBoxOK
<1> QED
  BY <1>2 DEF Claims, Fits, Divides, SubnetsOK

LEMMA WriteKeeps ==
  ASSUME PrefixAssumption, part = "allocation", AddressesInv, NEW j \in Jobs, stage[j] \in Working,
         NEW x \in Stages, NEW d \in CallRecord, Allocation!Step(j, x), Allocation!Local(j, d),
         left' \in [Jobs -> Seq(DOMAIN Peer)], UNCHANGED <<parents, request, overlapped>>,
         children \subseteq children', children' \subseteq Subnets, DOMAIN allocated \subseteq DOMAIN allocated',
         IsFiniteSet(DOMAIN allocated'), DOMAIN allocated' \subseteq Nat,
         \A a \in DOMAIN allocated' : allocated'[a].interface \in Links,
         Good(j, x, d)', NetBoxOK',
         \A k \in Jobs \ {j}, c \in CallRecord : stage[k] = "save" /\ call[k] = c /\ Good(k, "save", c) => Left(c.ip),
         \A a \in DOMAIN allocated : Unsaved(a)' => Unsaved(a), x = "save" => d.ip \notin DOMAIN allocated,
         Divided => \A a \in DOMAIN allocated' : allocated'[a].net \in children,
         Divided /\ WithoutVrf => \A s \in children, i \in DOMAIN Peer :
           (\E a \in DOMAIN allocated' : allocated'[a].net = s /\ allocated'[a].interface = i)
             \/ (Claims(j, x, d, s)' /\ i = d.interface)
           => \E k \in DOMAIN Peer : HasSubnet(k, s) /\ SameLink(k, i)
  PROVE  AddressesInv'
<1>1. AddressesOK /\ SavesApart /\ JobsOK /\ NetBoxOK /\ SubnetsOfLinks
  BY DEF AddressesInv
<1>2. Busy(j) /\ (~overlapped => \A k \in Jobs \ {j} : stage[k] \notin Working)
  BY <1>1 DEF Busy, AddressesOK
<1>3. AddressesOK'
  <2>1. \A k \in Jobs : Busy(k)' => Busy(k)
    BY <1>1, <1>2, JobMoves DEF Busy
  <2>2. ~overlapped' => \A k, l \in Jobs : Busy(k)' /\ Busy(l)' => k = l
    BY <1>1, <2>1 DEF AddressesOK
  <2> QED
    BY <1>1, <2>2, JobMoves DEF AddressesOK
<1>4. \A k \in Jobs \ {j}, y \in Stages, c \in CallRecord :
        stage[k] = y /\ call[k] = c => Good(k, y, c) /\ (y = "save" => Left(c.ip) /\ c.ip \in DOMAIN allocated)
  <2> SUFFICES ASSUME NEW k \in Jobs \ {j}, NEW y \in Stages, NEW c \in CallRecord, stage[k] = y, call[k] = c
               PROVE  Good(k, y, c) /\ (y = "save" => Left(c.ip) /\ c.ip \in DOMAIN allocated)
    OBVIOUS
  <2>1. Good(k, y, c)
    BY <1>1 DEF JobsOK
  <2>2. y = "save" => Left(c.ip)
    BY <2>1
  <2>3. y = "save" => Fits(k, "save", c)
    BY <2>1 DEF Good, Working
  <2> QED
    BY <2>1, <2>2, <2>3 DEF Fits
<1>5. JobsOK'
  <2>1. ASSUME NEW k \in Jobs \ {j}, NEW y \in Stages, NEW c \in CallRecord, stage[k] = y, call[k] = c, Good(k, y, c)
        PROVE  Good(k, y, c)'
    BY <1>2, <1>4, <2>1, OthersKept
  <2> QED
    BY <1>1, <2>1, JobsKept
<1>6. SavesApart'
  <2> SUFFICES ASSUME NEW a \in DOMAIN allocated', NEW k \in Jobs, NEW l \in Jobs, Unsaved(a)', k # l,
                      stage'[k] = "save", stage'[l] = "save", call'[k].ip = a, call'[l].ip = a
               PROVE  FALSE
    BY DEF SavesApart
  <2>1. ASSUME NEW n \in Jobs \ {j}, stage'[n] = "save", call'[n].ip = a
        PROVE  stage[n] = "save" /\ call[n].ip = a /\ a \in DOMAIN allocated
    <3>1. stage[n] = "save" /\ call[n].ip = a /\ call[n] \in CallRecord /\ stage[n] \in Stages
      BY <1>1, <2>1, JobMoves DEF AddressesOK
    <3> QED
      BY <1>4, <3>1
  <2>2. ASSUME NEW n \in Jobs \ {j}, stage'[n] = "save", call'[n].ip = a, stage'[j] = "save", call'[j].ip = a PROVE FALSE
    BY <1>1, <2>1, <2>2, JobMoves
  <2>3. k # j /\ l # j
    BY <2>2
  <2> QED
    BY <1>1, <2>1, <2>3 DEF SavesApart
<1>7. SubnetsOfLinks'
  <2>1. ASSUME Divided, NEW s, NEW k \in Jobs \ {j}, NEW y \in Stages, NEW c \in CallRecord,
               stage[k] = y, call[k] = c, Claims(k, y, c, s)'
        PROVE  Claims(k, y, c, s) /\ s \in children
    <3>1. Claims(k, y, c, s)
      BY <1>4, <2>1 DEF Claims, Left
    <3> QED
      BY <1>1, <1>4, <2>1, <3>1, ClaimsAreSubnets
  <2>2. ASSUME Divided, WithoutVrf, NEW s, NEW i \in DOMAIN Peer, HasSubnet(i, s)'
        PROVE  IF s \in children THEN \E k \in DOMAIN Peer : HasSubnet(k, s) /\ SameLink(k, i) ELSE i = d.interface
    <3>1. \/ \E a \in DOMAIN allocated' : allocated'[a].net = s /\ allocated'[a].interface = i
          \/ Claims(j, x, d, s)' /\ i = d.interface
          \/ \E k \in Jobs \ {j}, y \in Stages, c \in CallRecord :
               stage[k] = y /\ call[k] = c /\ Claims(k, y, c, s)' /\ c.interface = i
      BY <1>1, <2>2, SubnetsAfter
    <3>2. CASE \E a \in DOMAIN allocated' : allocated'[a].net = s /\ allocated'[a].interface = i
      BY <2>2, <3>2
    <3>3. CASE Claims(j, x, d, s)' /\ i = d.interface
      BY <2>2, <3>3
    <3>4. CASE \E k \in Jobs \ {j}, y \in Stages, c \in CallRecord :
                 stage[k] = y /\ call[k] = c /\ Claims(k, y, c, s)' /\ c.interface = i
      <4>1. PICK k \in Jobs \ {j}, y \in Stages, c \in CallRecord :
              stage[k] = y /\ call[k] = c /\ Claims(k, y, c, s)' /\ c.interface = i
        BY <3>4
      <4>2. Claims(k, y, c, s) /\ s \in children
        BY <2>1, <2>2, <4>1
      <4>3. HasSubnet(i, s)
        BY <4>1, <4>2 DEF HasSubnet
      <4> QED
        BY <4>2, <4>3, LinksAreClasses
    <3> QED
      BY <3>1, <3>2, <3>3, <3>4
  <2>3. Divided /\ WithoutVrf =>
          \A s \in children' :
            \/ /\ s \in children
               /\ \A i \in DOMAIN Peer : HasSubnet(i, s)' => \E k \in DOMAIN Peer : HasSubnet(k, s) /\ SameLink(k, i)
            \/ \E l : \A i \in DOMAIN Peer : HasSubnet(i, s)' => i = l
    <3> SUFFICES ASSUME Divided, WithoutVrf, NEW s \in children', s \notin children
                 PROVE  \E l : \A i \in DOMAIN Peer : HasSubnet(i, s)' => i = l
      BY <2>2
    <3>1. \A i \in DOMAIN Peer : HasSubnet(i, s)' => i = d.interface
      BY <2>2
    <3> QED
      BY <3>1
  <2> QED
    BY <1>1, <2>3, LinksKept
<1> QED
  BY <1>3, <1>5, <1>6, <1>7, JobMoves DEF AddressesInv

LEMMA WritesAre ==
  ASSUME AddressesOK, NEW j \in Jobs, NEW next, NEW c, Allocation!Writes(j, next, c)
  PROVE  /\ UNCHANGED <<parents, request, overlapped>> /\ left' \in [Jobs -> Seq(DOMAIN Peer)]
         /\ \/ Allocation!Step(j, next) /\ Allocation!Local(j, c)
            \/ Allocation!Step(j, "raised") /\ Allocation!Local(j, Allocation!NoCall)
<1>1. UNCHANGED <<parents, request, overlapped>>
  BY DEF Allocation!Writes, Allocation!Ends, Allocation!asked
<1>2. left' = left \/ left' = [left EXCEPT ![j] = <<>>]
  BY DEF Allocation!Writes, Allocation!Ends
<1>3. left' \in [Jobs -> Seq(DOMAIN Peer)]
  <2>1. left \in [Jobs -> Seq(DOMAIN Peer)] /\ [left EXCEPT ![j] = <<>>] \in [Jobs -> Seq(DOMAIN Peer)]
    BY DEF AddressesOK
  <2> QED
    BY <1>2, <2>1, Zenon
<1>4. Allocation!Ends(j) => Allocation!Step(j, "raised") /\ Allocation!Local(j, Allocation!NoCall)
  BY DEF Allocation!Ends, Allocation!Step
<1> QED
  BY <1>1, <1>3, <1>4 DEF Allocation!Writes

(* A subnet is made, and nobody else has it at hand.                       *)
LEMMA CreatePrefixKeeps ==
  ASSUME PrefixAssumption, part = "allocation", AddressesInv, NEW j \in Jobs, Allocation!CreatePrefix(j), ~Allocation!Raise(j)
  PROVE  AddressesInv'
<1> DEFINE c == call[j]
           free == Allocation!FreeSubnets(c.prefix)
           s == Allocation!Lowest(free)
           made == [c EXCEPT !.child = s]
<1>1. /\ stage[j] = "subnet" /\ "subnet" \in Working /\ UNCHANGED allocated /\ free # {}
      /\ children' = children \cup {s} /\ Allocation!Writes(j, "look", made)
  BY DEF Allocation!CreatePrefix, Working
<1>2. AddressesOK /\ NetBoxOK /\ c \in CallRecord /\ Good(j, "subnet", c) /\ c.interface \in DOMAIN Peer
  BY <1>1, CallNow
<1>3. Fits(j, "subnet", c) /\ (Divided => c.at = 1 /\ c.prefix = parents[1])
  <2>1. Fits(j, "subnet", c) /\ (Divided => Divides(j, "subnet", c)) /\ children \subseteq Subnets
    BY <1>1, <1>2 DEF Good, AddressesOK
  <2> HIDE DEF c
  <2> QED
    BY <2>1 DEF Fits, Divides
<1>4. s \in Subnets /\ s \subseteq c.prefix /\ s \notin children /\ s \in SUBSET Nat
  <2>1. free \subseteq Subnets /\ \A t \in free : t \subseteq c.prefix /\ t \notin children
    BY DEF Allocation!FreeSubnets, PrefixAssumption, Allocation!PrefixesAreWhole
  <2>2. s \in free
    BY <1>1, <2>1, LowestIsThere
  <2> QED
    BY <2>1, <2>2 DEF PrefixAssumption, Allocation!PrefixesAreWhole
<1>5. PICK d \in CallRecord :
        /\ d = made /\ d.interface = c.interface /\ d.prefixes = c.prefixes /\ d.at = c.at /\ d.peer = c.peer
        /\ d.mask = c.mask /\ d.prefix = c.prefix /\ d.peer_data = c.peer_data /\ d.child = s
  <2>1. /\ made \in CallRecord /\ made.interface = c.interface /\ made.prefixes = c.prefixes /\ made.at = c.at
        /\ made.peer = c.peer /\ made.mask = c.mask /\ made.prefix = c.prefix /\ made.peer_data = c.peer_data
        /\ made.child = s
    <3> HIDE DEF s
    <3> QED
      BY <1>2, <1>4 DEF CallRecord
  <2> QED
    BY <2>1, Zenon
<1>6. /\ UNCHANGED <<parents, request, overlapped>> /\ left' \in [Jobs -> Seq(DOMAIN Peer)]
      /\ \/ Allocation!Step(j, "look") /\ Allocation!Local(j, d)
         \/ Allocation!Step(j, "raised") /\ Allocation!Local(j, Allocation!NoCall)
  BY <1>1, <1>2, <1>5, WritesAre
<1> HIDE DEF c, s, made
<1>7. \A i, p : (Open(i, p)' <=> Open(i, p)) /\ (Nowhere(i)' <=> Nowhere(i))
  <2>1. \A i, p : Allocation!Held(i, p)' = Allocation!Held(i, p) /\ Allocation!Free(p)' = Allocation!Free(p)
    BY <1>1 DEF Allocation!Held, Allocation!Free
  <2> QED
    BY <1>6, <2>1 DEF Open, Nowhere, Harmless
<1>8. Good(j, "look", d)'
  <2>1. Fits(j, "look", d)'
    BY <1>1, <1>3, <1>4, <1>5, <1>6 DEF Fits
  <2>2. ~overlapped => Undisturbed(j, "subnet", c)
    BY <1>1, <1>2 DEF Good
  <2>3. ~overlapped' => Undisturbed(j, "look", d)'
    BY <1>5, <1>6, <1>7, <2>2 DEF Undisturbed
  <2>4. Divided' => Divided /\ Divides(j, "subnet", c)
    BY <1>1, <1>2, <1>6 DEF Divided, Allocation!Range, Good
  <2>5. Divided' => Divides(j, "look", d)'
    BY <1>1, <1>5, <1>6, <2>4 DEF Divides
  <2>6. Divided /\ ~overlapped => Joins(j, "subnet", c)
    BY <1>1, <1>2 DEF Good
  <2>7. Divided' /\ ~overlapped' => Joins(j, "look", d)'
    BY <1>1, <1>5, <1>6, <2>4, <2>6 DEF Joins, Others
  <2> QED
    BY <2>1, <2>3, <2>5, <2>7 DEF Good
<1>9. NetBoxOK'
  <2>1. Allocation!OneAddress' /\ (Divided' => Divided)
    BY <1>1, <1>2, <1>6 DEF NetBoxOK, Allocation!OneAddress, Allocation!InterfaceOf, Allocation!Range, Divided
  <2>2. Divided => SubnetsOK' /\ Allocation!EndsShareSubnet'
    BY <1>1, <1>2, <1>3, <1>4, <1>6 DEF NetBoxOK, SubnetsOK, Allocation!EndsShareSubnet, Allocation!InterfaceOf
  <2> QED
    BY <2>1, <2>2 DEF NetBoxOK
<1>10. /\ children \subseteq children' /\ children' \subseteq Subnets
       /\ IsFiniteSet(DOMAIN allocated') /\ DOMAIN allocated' \subseteq Nat /\ DOMAIN allocated \subseteq DOMAIN allocated'
       /\ \A a \in DOMAIN allocated' : allocated'[a].interface \in Links
  BY <1>1, <1>2, <1>4 DEF AddressesOK
<1>11. \A a : Left(a) /\ (Unsaved(a)' => Unsaved(a))
  BY <1>1 DEF Left, Unsaved
<1>12. Divided => \A a \in DOMAIN allocated' : allocated'[a].net \in children
  BY <1>1, <1>2 DEF NetBoxOK, SubnetsOK
<1>13. \A t \in children : ~Claims(j, "look", d, t)' /\ ~Claims(j, "raised", Allocation!NoCall, t)'
  BY <1>4, <1>5 DEF Claims
<1>14. \A t, i : (\E a \in DOMAIN allocated' : allocated'[a].net = t /\ allocated'[a].interface = i)
         => HasSubnet(i, t) /\ SameLink(i, i)
  BY <1>1 DEF HasSubnet, SameLink
<1>15. /\ Good(j, "raised", Allocation!NoCall)' /\ "raised" \in Stages /\ "look" \in Stages
       /\ "raised" # "save" /\ "look" # "save"
  BY DEF Good, Working, Stages
<1>16. CASE Allocation!Step(j, "look") /\ Allocation!Local(j, d)
  BY <1>1, <1>5, <1>6, <1>8, <1>9, <1>10, <1>11, <1>12, <1>13, <1>14, <1>15, <1>16, WriteKeeps
<1>17. CASE Allocation!Step(j, "raised") /\ Allocation!Local(j, Allocation!NoCall)
  BY <1>1, <1>6, <1>9, <1>10, <1>11, <1>12, <1>13, <1>14, <1>15, <1>17, NoCallIsRecord, WriteKeeps
<1> QED
  BY <1>6, <1>16, <1>17

(* An address is made, nobody's until it is saved.                         *)
LEMMA AllocateKeeps ==
  ASSUME PrefixAssumption, part = "allocation", AddressesInv, NEW j \in Jobs, Allocation!Allocate(j), ~Allocation!Raise(j)
  PROVE  AddressesInv'
<1> DEFINE c == call[j]
           least == Allocation!Min(Allocation!Free(c.prefix))
           made == [c EXCEPT !.ip = least]
           more == [b \in DOMAIN allocated \cup {least} |->
                     IF b = least THEN [net |-> c.prefix, interface |-> NoValue] ELSE allocated[b]]
<1>1. /\ stage[j] = "address" /\ "address" \in Working /\ Allocation!Free(c.prefix) # {}
      /\ \/ /\ request[j].dry_run /\ Allocation!Step(j, "next") /\ Allocation!Local(j, Allocation!NoCall)
            /\ UNCHANGED <<children, allocated, parents, request, left, overlapped>>
         \/ ~request[j].dry_run /\ allocated' = more /\ Allocation!Writes(j, "save", made) /\ UNCHANGED children
  BY DEF Allocation!Allocate, Allocation!netbox, Allocation!asked, Allocation!counts, Working
<1>2. /\ AddressesOK /\ NetBoxOK /\ c \in CallRecord /\ Good(j, "address", c)
      /\ c.interface \in DOMAIN Peer /\ NoValue \notin DOMAIN Peer
  BY <1>1, CallNow
<1>3. CASE /\ request[j].dry_run /\ Allocation!Step(j, "next") /\ Allocation!Local(j, Allocation!NoCall)
           /\ UNCHANGED <<children, allocated, parents, request, left, overlapped>>
  <2>1. "next" \in Stages \ Working /\ Busy(j)
    BY <1>1 DEF Stages, Working, Busy
  <2> QED
    BY <1>2, <1>3, <2>1, NoCallIsRecord, Stays, CallEnds
<1>4. CASE ~request[j].dry_run /\ allocated' = more /\ Allocation!Writes(j, "save", made) /\ UNCHANGED children
  <2>1. PICK a \in Nat : a = least /\ a \in c.prefix /\ a \notin DOMAIN allocated /\ a \in Allocation!Free(c.prefix)
    <3>1. Allocation!Free(c.prefix) \subseteq Nat
      BY <1>2 DEF Allocation!Free, CallRecord
    <3>2. least \in Allocation!Free(c.prefix)
      BY <1>1, <3>1, MinIsThere
    <3> QED
      BY <3>1, <3>2 DEF Allocation!Free
  <2>2. PICK d \in CallRecord :
          /\ d = made /\ d.interface = c.interface /\ d.prefixes = c.prefixes /\ d.at = c.at /\ d.peer = c.peer
          /\ d.mask = c.mask /\ d.prefix = c.prefix /\ d.peer_data = c.peer_data /\ d.ip = a
    <3>1. /\ made \in CallRecord /\ made.interface = c.interface /\ made.prefixes = c.prefixes /\ made.at = c.at
          /\ made.peer = c.peer /\ made.mask = c.mask /\ made.prefix = c.prefix /\ made.peer_data = c.peer_data
          /\ made.ip = a
      <4> HIDE DEF least
      <4> QED
        BY <1>2, <2>1 DEF CallRecord
    <3> QED
      BY <3>1, Zenon
  <2>3. /\ UNCHANGED <<children, parents, request, overlapped>> /\ left' \in [Jobs -> Seq(DOMAIN Peer)]
        /\ \/ Allocation!Step(j, "save") /\ Allocation!Local(j, d)
           \/ Allocation!Step(j, "raised") /\ Allocation!Local(j, Allocation!NoCall)
    BY <1>2, <1>4, <2>2, WritesAre
  <2> HIDE DEF least, made
  <2>4. /\ DOMAIN allocated' = DOMAIN allocated \cup {a}
        /\ \A b \in DOMAIN allocated : allocated'[b] = allocated[b]
        /\ allocated'[a].net = d.prefix /\ allocated'[a].interface = NoValue
    BY <1>4, <2>1, <2>2
  <2> HIDE DEF more
  <2>5. \A p : \A i \in DOMAIN Peer : Allocation!Held(i, p)' = Allocation!Held(i, p)
    BY <1>2, <2>1, <2>4 DEF Allocation!Held
  <2>6. \A p : Allocation!Free(p)' \subseteq Allocation!Free(p)
    BY <2>4 DEF Allocation!Free
  <2>7. \A p : \A i \in DOMAIN Peer : (Open(i, p) => Open(i, p)') /\ (Nowhere(i) => Nowhere(i)')
    BY <2>3, <2>5, <2>6 DEF Open, Nowhere, Harmless
  <2>8. Fits(j, "address", c) /\ (~overlapped => Undisturbed(j, "address", c)) /\ (Divided => Divides(j, "address", c))
        /\ (Divided /\ ~overlapped => Joins(j, "address", c))
    BY <1>1, <1>2 DEF Good
  <2>9. (d.peer_data # NoValue => d.peer_data \in DOMAIN Peer) /\ d.interface \in DOMAIN Peer
    BY <1>2, <2>2 DEF CallRecord, Links
  <2> HIDE DEF c
  <2>10. Fits(j, "save", d)'
    <3>1. Unsaved(a)'
      BY <2>4 DEF Unsaved
    <3> QED
      BY <1>4, <2>1, <2>2, <2>3, <2>4, <2>8, <3>1 DEF Fits
  <2>11. ~overlapped' => Undisturbed(j, "save", d)'
    <3>1. Open(c.interface, c.prefix) => Harmless(d.interface, a)'
      BY <2>1, <2>2, <2>3, <2>5, <2>9 DEF Open, Harmless
    <3> QED
      BY <1>4, <2>2, <2>3, <2>7, <2>8, <2>9, <3>1 DEF Undisturbed
  <2>12. (Divided' => Divided) /\ (Divided => d.prefix \in children /\ (d.prefixes # parents => d.prefixes[1] \in children))
    BY <1>4, <2>2, <2>3, <2>8 DEF Divided, Divides, Allocation!Range
  <2>13. Divided' => Divides(j, "save", d)'
    BY <2>3, <2>12 DEF Divides
  <2>14. Others(d.interface)' = Others(d.interface) /\ a \notin Others(d.interface)
    BY <1>2, <2>1, <2>4, <2>9 DEF Others, PrefixAssumption, Allocation!CablesHaveTwoEnds
  <2>15. Divided' /\ ~overlapped' => Joins(j, "save", d)'
    <3>1. Divided /\ ~overlapped => \A b \in Others(d.interface) : allocated[b].net = d.prefix
      BY <1>4, <2>2, <2>8 DEF Joins
    <3>2. Divided' /\ ~overlapped' => \A b \in Others(d.interface)' : allocated'[b].net = d.prefix
      BY <2>3, <2>4, <2>12, <2>14, <3>1 DEF Others
    <3> QED
      BY <3>2 DEF Joins
  <2>16. Good(j, "save", d)'
    BY <2>10, <2>11, <2>13, <2>15 DEF Good
  <2>17. NetBoxOK'
    <3>1. Allocation!OneAddress'
      BY <1>2, <2>3, <2>4 DEF NetBoxOK, Allocation!OneAddress, Allocation!InterfaceOf, Allocation!Range
    <3>2. Divided => SubnetsOK'
      BY <1>2, <2>1, <2>2, <2>3, <2>4, <2>12 DEF NetBoxOK, SubnetsOK
    <3>3. Divided => Allocation!EndsShareSubnet'
      <4> SUFFICES ASSUME Divided, ~overlapped, NEW b \in DOMAIN allocated', NEW e \in DOMAIN allocated',
                          allocated'[b].interface # NoValue, Peer[allocated'[b].interface] # NoValue,
                          allocated'[e].interface = Peer[allocated'[b].interface]
                   PROVE  allocated'[b].net = allocated'[e].net
        BY <2>3 DEF Allocation!EndsShareSubnet, Allocation!InterfaceOf
      <4>1. b \in DOMAIN allocated /\ e \in DOMAIN allocated
        BY <2>4
      <4> QED
        BY <1>2, <2>4, <4>1 DEF NetBoxOK, Allocation!EndsShareSubnet, Allocation!InterfaceOf
    <3> QED
      BY <2>12, <3>1, <3>2, <3>3 DEF NetBoxOK
  <2>18. /\ children \subseteq children' /\ children' \subseteq Subnets
         /\ IsFiniteSet(DOMAIN allocated') /\ DOMAIN allocated' \subseteq Nat /\ DOMAIN allocated \subseteq DOMAIN allocated'
         /\ \A b \in DOMAIN allocated' : allocated'[b].interface \in Links
    BY <1>2, <2>1, <2>3, <2>4, FS_AddElement DEF AddressesOK, Links
  <2>19. \A b \in DOMAIN allocated : Left(b) /\ (Unsaved(b)' => Unsaved(b))
    BY <2>4 DEF Left, Unsaved
  <2>20. \A k, e : Good(k, "save", e) => e.ip \in DOMAIN allocated
    BY DEF Good, Fits, Working
  <2>21. Divided => \A b \in DOMAIN allocated' : allocated'[b].net \in children
    BY <1>2, <2>4, <2>12 DEF NetBoxOK, SubnetsOK
  <2>22. ASSUME NEW s, NEW i \in DOMAIN Peer, NEW b \in DOMAIN allocated', allocated'[b].net = s, allocated'[b].interface = i
         PROVE  HasSubnet(i, s) /\ SameLink(i, i)
    <3>1. b \in DOMAIN allocated
      BY <1>2, <2>4, <2>22
    <3> QED
      BY <2>4, <2>22, <3>1 DEF HasSubnet, SameLink
  <2>23. ASSUME NEW s, Claims(j, "save", d, s)'
         PROVE  HasSubnet(d.interface, s) /\ SameLink(d.interface, d.interface)
    <3>1. s = c.prefix
      BY <2>2, <2>4, <2>23 DEF Claims
    <3>2. Claims(j, "address", c, s)
      BY <1>4, <3>1 DEF Claims
    <3>3. stage[j] \in Stages /\ c \in CallRecord /\ call[j] = c
      BY <1>2 DEF AddressesOK, c
    <3> QED
      BY <1>1, <2>2, <3>2, <3>3 DEF HasSubnet, SameLink
  <2>24. /\ Good(j, "raised", Allocation!NoCall)' /\ "raised" \in Stages /\ "save" \in Stages /\ "raised" # "save"
         /\ \A s : ~Claims(j, "raised", Allocation!NoCall, s)'
    BY DEF Good, Working, Stages, Claims
  <2>25. CASE Allocation!Step(j, "save") /\ Allocation!Local(j, d)
    BY <1>1, <2>1, <2>2, <2>3, <2>9, <2>16, <2>17, <2>18, <2>19, <2>20, <2>21, <2>22, <2>23, <2>24, <2>25, WriteKeeps
  <2>26. CASE Allocation!Step(j, "raised") /\ Allocation!Local(j, Allocation!NoCall)
    BY <1>1, <2>3, <2>17, <2>18, <2>19, <2>20, <2>21, <2>22, <2>24, <2>26, NoCallIsRecord, WriteKeeps
  <2> QED
    BY <2>3, <2>25, <2>26
<1> QED
  BY <1>1, <1>3, <1>4

(* An address is saved: the one that was found keeps its interface, and    *)
(* one that was made gets it.                                              *)
LEMMA SaveKeeps ==
  ASSUME PrefixAssumption, part = "allocation", AddressesInv, NEW j \in Jobs, Allocation!Save(j), ~Allocation!Raise(j)
  PROVE  AddressesInv'
<1> DEFINE c == call[j]
           next == IF c.peer_data = NoValue THEN "next" ELSE "find"
           then == IF c.peer_data = NoValue THEN Allocation!NoCall
                   ELSE Allocation!Call(c.peer_data, <<c.prefix>>, request[j].mask, FALSE)
<1>1. /\ stage[j] = "save" /\ "save" \in Working
      /\ \/ /\ Allocation!Saved(c) = allocated[c.ip] \/ request[j].dry_run
            /\ Allocation!Step(j, next) /\ Allocation!Local(j, then)
            /\ UNCHANGED <<children, allocated, parents, request, left, overlapped>>
         \/ /\ allocated' = [allocated EXCEPT ![c.ip] = Allocation!Saved(c)]
            /\ Allocation!Writes(j, next, then) /\ UNCHANGED children
  BY DEF Allocation!Save, Allocation!netbox, Allocation!asked, Allocation!counts, Working
<1>2. /\ AddressesOK /\ NetBoxOK /\ c \in CallRecord /\ Good(j, "save", c) /\ Fits(j, "save", c)
      /\ c.interface \in DOMAIN Peer /\ NoValue \notin DOMAIN Peer
  BY <1>1, CallNow DEF Good
<1>3. /\ c.ip \in DOMAIN allocated
      /\ \/ allocated[c.ip].interface = c.interface /\ c.peer_data = NoValue
         \/ /\ Unsaved(c.ip) /\ allocated[c.ip].net = c.prefix /\ c.ip \in c.prefix
            /\ ~request[j].dry_run /\ (c.mask => c.prefix \in Subnets)
      /\ c.peer_data # NoValue =>
           c.prefixes = parents /\ c.peer_data = Peer[c.interface] /\ c.prefix \subseteq parents[c.at]
  BY <1>2 DEF Fits
<1>4. /\ Allocation!Saved(c).interface = c.interface
      /\ Unsaved(c.ip) \/ Divided => Allocation!Saved(c).net = allocated[c.ip].net
  <2>1. Divided => allocated[c.ip].net \in Subnets
    BY <1>2, <1>3 DEF NetBoxOK, SubnetsOK, AddressesOK
  <2>2. Unsaved(c.ip) => (c.mask => allocated[c.ip].net \in Subnets)
    BY <1>2, <1>3 DEF Unsaved
  <2> HIDE DEF c
  <2> QED
    BY <2>1, <2>2 DEF Allocation!Saved
<1>5. CASE /\ Allocation!Saved(c) = allocated[c.ip] \/ request[j].dry_run
           /\ Allocation!Step(j, next) /\ Allocation!Local(j, then)
           /\ UNCHANGED <<children, allocated, parents, request, left, overlapped>>
  <2>1. c.peer_data = NoValue
    BY <1>2, <1>3, <1>4, <1>5 DEF Unsaved
  <2>2. "next" \in Stages \ Working /\ Busy(j)
    BY <1>1 DEF Stages, Working, Busy
  <2> QED
    BY <1>2, <1>5, <2>1, <2>2, NoCallIsRecord, Stays, CallEnds
<1>6. CASE /\ allocated' = [allocated EXCEPT ![c.ip] = Allocation!Saved(c)]
           /\ Allocation!Writes(j, next, then) /\ UNCHANGED children
  <2>1. PICK a \in Nat, i \in DOMAIN Peer, p \in SUBSET Nat, q \in Links, w \in BOOLEAN :
          a = c.ip /\ i = c.interface /\ p = c.prefix /\ q = c.peer_data /\ w = request[j].mask
    <3>1. c.ip \in Nat /\ c.prefix \in SUBSET Nat /\ c.peer_data \in Links /\ request[j].mask \in BOOLEAN
      BY <1>2, AskedFor DEF CallRecord
    <3> QED
      BY <1>2, <3>1, Zenon
  <2>2. /\ UNCHANGED <<children, parents, request, overlapped>> /\ left' \in [Jobs -> Seq(DOMAIN Peer)]
        /\ \/ Allocation!Step(j, next) /\ Allocation!Local(j, then)
           \/ Allocation!Step(j, "raised") /\ Allocation!Local(j, Allocation!NoCall)
    BY <1>2, <1>6, WritesAre
  <2>3. /\ DOMAIN allocated' = DOMAIN allocated /\ a \in DOMAIN allocated
        /\ \A b \in DOMAIN allocated \ {a} : allocated'[b] = allocated[b]
        /\ allocated'[a].interface = i
        /\ Unsaved(a) \/ Divided => allocated'[a].net = allocated[a].net
        /\ allocated[a].interface = i \/ Unsaved(a)
    BY <1>3, <1>4, <1>6, <2>1
  <2>4. \A b \in DOMAIN allocated : /\ Unsaved(b)' => Unsaved(b) /\ b # a
                                    /\ b # a => Left(b)
                                    /\ ~Unsaved(a) => Left(b)
                                    /\ Divided => allocated'[b].net = allocated[b].net
    BY <1>2, <2>3 DEF Unsaved, Left
  <2>5. /\ \A r : Allocation!Free(r)' = Allocation!Free(r)
        /\ \A k, r : Allocation!Held(k, r) \subseteq Allocation!Held(k, r)' \/ k = NoValue
        /\ \A r : \A k \in DOMAIN Peer \ {i} : Allocation!Held(k, r)' = Allocation!Held(k, r)
        /\ \A r : Allocation!Held(i, r)' \subseteq Allocation!Held(i, r) \cup {a}
    BY <1>2, <2>3 DEF Allocation!Free, Allocation!Held, Unsaved
  <2>6. ~Unsaved(a) => \A r : \A k \in DOMAIN Peer : Allocation!Held(k, r)' = Allocation!Held(k, r)
    BY <1>2, <2>3 DEF Allocation!Held, Unsaved
  <2>7. /\ ~overlapped => Harmless(i, a) /\ (q # NoValue => Nowhere(i) /\ Open(q, p))
        /\ Divided /\ ~overlapped /\ Unsaved(a) => \A b \in Others(i) : allocated[b].net = p
    BY <1>1, <1>2, <2>1 DEF Good, Undisturbed, Joins
  <2>8. Divided => \A b \in DOMAIN allocated : allocated[b].net \in children /\ b \in parents[1]
    BY <1>2 DEF NetBoxOK, SubnetsOK
  <2>9. (Divided' <=> Divided) /\ 1 \in DOMAIN parents
    BY <1>2, <2>2, AskedFor DEF Divided, Allocation!Range
  <2>10. Unsaved(a) => allocated[a].net = p /\ allocated'[a].net = p
    BY <1>2, <1>3, <2>1, <2>3 DEF Unsaved
  <2> DEFINE d == Allocation!Call(q, <<p>>, w, FALSE)
  (* The turn of the other end, in the prefix that was used.               *)
  <2>11. ASSUME q # NoValue
         PROVE  Good(j, "find", d)' /\ d \in CallRecord /\ q \in DOMAIN Peer /\ q = Peer[i] /\ Unsaved(a)
                /\ d.interface = q /\ d.prefixes = <<p>>
    <3>1. /\ q \in DOMAIN Peer /\ q = Peer[i] /\ q # i /\ Peer[q] = i /\ Unsaved(a)
          /\ c.at \in DOMAIN parents /\ p \subseteq parents[c.at]
      <4>1. q \in DOMAIN Peer /\ q = Peer[i] /\ c.prefixes = parents /\ p \subseteq parents[c.at] /\ Unsaved(a)
        BY <1>3, <2>1, <2>11 DEF Links
      <4>2. q # i /\ Peer[q] = i
        BY <2>11, <4>1 DEF PrefixAssumption, Allocation!CablesHaveTwoEnds
      <4>3. c.at \in DOMAIN c.prefixes
        BY <1>2 DEF Fits
      <4> QED
        BY <4>1, <4>2, <4>3
    <3>2. /\ d \in CallRecord /\ d.interface = q /\ d.prefixes = <<p>> /\ d.at = 1 /\ d.mask = w /\ d.peer = FALSE
          /\ d.peer_data = NoValue /\ Len(d.prefixes) = 1 /\ d.prefixes[1] = p /\ 1 \in DOMAIN d.prefixes
      <4>1. <<p>> \in Seq(SUBSET Nat)
        OBVIOUS
      <4> QED
        BY <4>1 DEF Allocation!Call, CallRecord, Links
    <3> HIDE DEF d, c
    <3>3. Fits(j, "find", d)'
      BY <2>1, <2>2, <3>1, <3>2 DEF Fits
    <3>4. ~overlapped => Open(q, p)'
      BY <2>2, <2>5, <2>7, <2>11, <3>1 DEF Open, Harmless
    <3>5. ~overlapped => \A b \in Allocation!Held(i, p)' : allocated'[b].net = p
      <4>1. ~overlapped => Allocation!Held(i, p) = {}
        BY <2>7, <2>11, <3>1 DEF Nowhere, Allocation!Held
      <4> QED
        BY <2>5, <2>10, <3>1, <4>1
    <3>6. ~overlapped' => Undisturbed(j, "find", d)'
      BY <2>2, <3>1, <3>2, <3>4, <3>5 DEF Undisturbed, PeersTurn
    <3>7. Divided' => Divides(j, "find", d)'
      BY <2>2, <2>3, <2>8, <2>9, <2>10, <3>1, <3>2 DEF Divides
    <3>8. Divided /\ ~overlapped => \A b \in DOMAIN allocated : allocated[b].interface # i
      BY <2>7, <2>8, <2>9, <2>11 DEF Nowhere, Allocation!Held
    <3>9. Divided' /\ ~overlapped' => Joins(j, "find", d)'
      <4>1. Divided /\ ~overlapped => \A b \in DOMAIN allocated' : allocated'[b].interface = i => allocated'[b].net = p
        BY <2>3, <2>10, <3>1, <3>8
      <4> QED
        BY <2>2, <2>9, <3>1, <3>2, <4>1 DEF Joins, Others
    <3>10. Good(j, "find", d)'
      BY <3>3, <3>6, <3>7, <3>9 DEF Good
    <3> QED
      BY <3>1, <3>2, <3>10
  <2>12. Allocation!OneAddress'
    <3> SUFFICES ASSUME ~overlapped, NEW k \in DOMAIN parents, NEW b \in DOMAIN allocated \cap parents[k],
                        NEW e \in DOMAIN allocated \cap parents[k], b # e, allocated'[b].interface # NoValue,
                        allocated'[b].interface = allocated'[e].interface
                 PROVE  FALSE
      BY <2>2, <2>3 DEF Allocation!OneAddress, Allocation!InterfaceOf, Allocation!Range
    <3>1. \A f, g \in DOMAIN allocated \cap parents[k] :
            f # g /\ allocated[f].interface # NoValue => allocated[f].interface # allocated[g].interface
      BY <1>2 DEF NetBoxOK, Allocation!OneAddress, Allocation!InterfaceOf, Allocation!Range
    <3>2. \A f \in DOMAIN allocated \cap parents[k] : a \in parents[k] /\ allocated[f].interface = i => f = a
      BY <2>7 DEF Harmless, Allocation!Held
    <3> QED
      BY <2>3, <3>1, <3>2
  <2>13. Divided => SubnetsOK'
    <3>1. Divided => \A b \in DOMAIN allocated : allocated[b].net \in children /\ b \in allocated[b].net
      BY <1>2 DEF NetBoxOK, SubnetsOK
    <3>2. Divided => \A s \in children : s \subseteq parents[1]
      BY <1>2 DEF NetBoxOK, SubnetsOK
    <3> QED
      BY <2>2, <2>3, <2>4, <3>1, <3>2 DEF SubnetsOK
  <2>14. Divided => Allocation!EndsShareSubnet'
    <3> SUFFICES ASSUME Divided, ~overlapped, NEW b \in DOMAIN allocated, NEW e \in DOMAIN allocated,
                        allocated'[b].interface # NoValue, Peer[allocated'[b].interface] # NoValue,
                        allocated'[e].interface = Peer[allocated'[b].interface]
                 PROVE  allocated[b].net = allocated[e].net
      BY <2>2, <2>3, <2>4 DEF Allocation!EndsShareSubnet, Allocation!InterfaceOf
    <3>1. \A f, g \in DOMAIN allocated :
            allocated[f].interface # NoValue /\ Peer[allocated[f].interface] # NoValue
              /\ allocated[g].interface = Peer[allocated[f].interface] => allocated[f].net = allocated[g].net
      BY <1>2 DEF NetBoxOK, Allocation!EndsShareSubnet, Allocation!InterfaceOf
    <3>2. \A f \in DOMAIN allocated : allocated[f].interface = NoValue \/ allocated[f].interface \in DOMAIN Peer
      BY <1>2 DEF AddressesOK, Links
    <3>3. \A k \in DOMAIN Peer : Peer[k] # NoValue => Peer[k] # k /\ Peer[Peer[k]] = k
      BY DEF PrefixAssumption, Allocation!CablesHaveTwoEnds
    <3>4. CASE Unsaved(a) /\ b = a
      <4>1. e # a /\ allocated[e].interface = Peer[i] /\ Peer[i] # NoValue
        BY <2>3, <3>3, <3>4
      <4> QED
        BY <2>7, <2>10, <3>4, <4>1 DEF Others
    <3>5. CASE Unsaved(a) /\ b # a /\ e = a
      <4>1. allocated[b].interface \in DOMAIN Peer /\ i = Peer[allocated[b].interface]
        BY <2>3, <3>2, <3>5
      <4>2. Peer[i] = allocated[b].interface /\ Peer[i] # NoValue
        BY <2>3, <3>3, <3>5, <4>1
      <4> QED
        BY <2>7, <2>10, <3>5, <4>2 DEF Others
    <3>6. CASE ~Unsaved(a) \/ (b # a /\ e # a)
      BY <2>3, <3>1, <3>6
    <3> QED
      BY <3>4, <3>5, <3>6
  <2>15. NetBoxOK'
    BY <2>9, <2>12, <2>13, <2>14 DEF NetBoxOK
  <2>16. /\ children \subseteq children' /\ children' \subseteq Subnets
         /\ IsFiniteSet(DOMAIN allocated') /\ DOMAIN allocated' \subseteq Nat /\ DOMAIN allocated \subseteq DOMAIN allocated'
         /\ \A b \in DOMAIN allocated' : allocated'[b].interface \in Links
    BY <1>2, <2>2, <2>3 DEF AddressesOK, Links
  <2>17. ASSUME NEW k \in Jobs \ {j}, NEW e \in CallRecord, stage[k] = "save", call[k] = e, Good(k, "save", e)
         PROVE  Left(e.ip)
    <3>1. e.ip \in DOMAIN allocated
      BY <2>17 DEF Good, Fits, Working
    <3>2. SavesApart
      BY DEF AddressesInv
    <3>3. Unsaved(a) => e.ip # a
      BY <1>1, <2>1, <2>3, <2>17, <3>2 DEF SavesApart
    <3> QED
      BY <2>4, <3>1, <3>3
  <2>18. \A b \in DOMAIN allocated : Unsaved(b)' => Unsaved(b)
    BY <2>4
  <2>19. Divided => \A b \in DOMAIN allocated' : allocated'[b].net \in children
    BY <2>3, <2>4, <2>8
  <2>20. HasSubnet(i, allocated[a].net)
    <3>1. Claims(j, "save", c, allocated[c.ip].net)
      BY DEF Claims
    <3>2. stage[j] \in Stages
      BY <1>2 DEF AddressesOK
    <3> QED
      BY <1>1, <1>2, <2>1, <3>1, <3>2 DEF HasSubnet
  <2>21. ASSUME Divided, NEW s, NEW k \in DOMAIN Peer,
                NEW b \in DOMAIN allocated', allocated'[b].net = s, allocated'[b].interface = k
         PROVE  HasSubnet(k, s) /\ SameLink(k, k)
    <3>1. CASE b = a
      BY <2>3, <2>4, <2>20, <2>21, <3>1 DEF SameLink
    <3>2. CASE b # a
      BY <2>3, <2>21, <3>2 DEF HasSubnet, SameLink
    <3> QED
      BY <3>1, <3>2
  <2>22. /\ Good(j, "raised", Allocation!NoCall)' /\ Good(j, "next", Allocation!NoCall)'
         /\ "raised" \in Stages /\ "next" \in Stages /\ "find" \in Stages
         /\ "raised" # "save" /\ "next" # "save" /\ "find" # "save"
         /\ \A s : ~Claims(j, "raised", Allocation!NoCall, s)' /\ ~Claims(j, "next", Allocation!NoCall, s)'
    BY DEF Good, Working, Stages, Claims
  <2>23. CASE Allocation!Step(j, "raised") /\ Allocation!Local(j, Allocation!NoCall)
    BY <1>1, <2>2, <2>3, <2>15, <2>16, <2>17, <2>18, <2>19, <2>21, <2>22, <2>23, NoCallIsRecord, WriteKeeps
  <2>24. CASE Allocation!Step(j, "next") /\ Allocation!Local(j, Allocation!NoCall)
    BY <1>1, <2>2, <2>3, <2>15, <2>16, <2>17, <2>18, <2>19, <2>21, <2>22, <2>24, NoCallIsRecord, WriteKeeps
  <2>25. CASE q # NoValue /\ Allocation!Step(j, "find") /\ Allocation!Local(j, d)
    <3> HIDE DEF d
    <3>1. \A s : Claims(j, "find", d, s)' => s = p
      BY <2>11, <2>25 DEF Claims
    <3>2. HasSubnet(i, p) /\ SameLink(i, d.interface)
      BY <2>10, <2>11, <2>20, <2>25 DEF SameLink
    <3>3. Divided /\ WithoutVrf => \A s \in children, k \in DOMAIN Peer :
            (\E b \in DOMAIN allocated' : allocated'[b].net = s /\ allocated'[b].interface = k)
              \/ (Claims(j, "find", d, s)' /\ k = d.interface)
            => \E l \in DOMAIN Peer : HasSubnet(l, s) /\ SameLink(l, k)
      BY <2>21, <3>1, <3>2
    <3> QED
      BY <1>1, <2>2, <2>3, <2>11, <2>15, <2>16, <2>17, <2>18, <2>19, <2>22, <2>25, <3>3, WriteKeeps
  <2> QED
    BY <2>1, <2>2, <2>23, <2>24, <2>25
<1> QED
  BY <1>1, <1>5, <1>6

-----------------------------------------------------------------------------
LEMMA JobStepKeeps ==
  ASSUME PrefixAssumption, part = "allocation", AddressesInv, NEW j \in Jobs, Allocation!JobStep(j)
  PROVE  AddressesInv'
<1>1. CASE Allocation!Raise(j)
  BY <1>1, RaiseKeeps
<1>2. CASE ~Allocation!Raise(j)
  BY <1>2, NextInterfaceKeeps, FindKeeps, ChooseKeeps, LookAtPeerKeeps, FindPrefixKeeps, CreatePrefixKeeps, FailuresKeep,
    LookAtChildKeeps, AllocateKeeps, SaveKeeps DEF Allocation!JobStep
<1> QED
  BY <1>1, <1>2

LEMMA AllocationBegins == ASSUME PrefixAssumption, part = "allocation" => Allocation!Init PROVE AddressesInv
<1> SUFFICES ASSUME part = "allocation", Allocation!Init PROVE AddressesOK /\ SavesApart /\ JobsOK /\ NetBoxOK /\ SubnetsOfLinks
  BY DEF AddressesInv
<1>1. /\ children = {} /\ DOMAIN allocated = {} /\ parents \in Parents /\ request \in [Jobs -> Requests]
      /\ stage = [j \in Jobs |-> "idle"] /\ left = [j \in Jobs |-> <<>>] /\ call = [j \in Jobs |-> Allocation!NoCall]
      /\ overlapped = FALSE
  BY DEF Allocation!Init
<1>2. IsFiniteSet(DOMAIN allocated)
  BY <1>1, FS_EmptySet
<1>3. left \in [Jobs -> Seq(DOMAIN Peer)] /\ call \in [Jobs -> CallRecord] /\ stage \in [Jobs -> Stages]
  BY <1>1, NoCallIsRecord DEF Stages
<1>4. \A j \in Jobs : ~Busy(j) /\ stage[j] \notin Working
  BY <1>1 DEF Busy, Working
<1>5. AddressesOK
  BY <1>1, <1>2, <1>3, <1>4 DEF AddressesOK
<1>6. SavesApart /\ JobsOK
  BY <1>1, <1>4 DEF SavesApart, JobsOK, Good
<1>7. NetBoxOK /\ SubnetsOfLinks
  BY <1>1 DEF NetBoxOK, SubnetsOK, SubnetsOfLinks, Allocation!OneAddress, Allocation!EndsShareSubnet
<1> QED
  BY <1>5, <1>6, <1>7

LEMMA AllocationStep ==
  ASSUME PrefixAssumption, AddressesInv, part' = part, part = "allocation" => Allocation!Next \/ UNCHANGED allocation
  PROVE  AddressesInv'
<1>1. CASE part # "allocation"
  BY <1>1 DEF AddressesInv
<1>2. CASE part = "allocation" /\ UNCHANGED allocation
  BY <1>2, NothingMoves DEF allocation
<1>3. CASE part = "allocation" /\ Allocation!Done
  <2>1. UNCHANGED <<children, allocated, parents, request, stage, left, call, overlapped>>
    BY <1>3 DEF Allocation!Done, Allocation!vars, Allocation!netbox, Allocation!jobs, Allocation!asked, Allocation!counts
  <2> QED
    BY <1>3, <2>1, NothingMoves
<1>4. ASSUME part = "allocation", NEW j \in Jobs, Allocation!DeadlinePasses(j) PROVE AddressesInv'
  <2>1. UNCHANGED <<children, allocated, parents, request, stage, left, call, overlapped>>
    BY <1>4 DEF Allocation!DeadlinePasses, Allocation!netbox, Allocation!asked, Allocation!counts
  <2> QED
    BY <1>4, <2>1, NothingMoves
<1>5. ASSUME part = "allocation", NEW j \in Jobs,
             Allocation!JobStep(j) \/ Allocation!Start(j) \/ Allocation!RequestFails(j) \/ Allocation!Retry(j)
      PROVE  AddressesInv'
  BY <1>5, JobStepKeeps, BulkStarts, FailuresKeep, RetryKeeps
<1> QED
  BY <1>1, <1>2, <1>3, <1>4, <1>5 DEF Allocation!Next

LEMMA AddressesFit == ASSUME part = "allocation", AddressesInv PROVE Allocation!AddressesFitLinks
<1>1. AddressesOK /\ NetBoxOK /\ SubnetsOfLinks
  BY DEF AddressesInv
<1>2. ASSUME Divided, \A j \in Jobs : ~request[j].vrf, NEW a \in DOMAIN allocated, NEW b \in DOMAIN allocated,
             allocated[a].net = allocated[b].net, allocated[a].interface # NoValue, allocated[b].interface # NoValue
      PROVE  allocated[b].interface \in {allocated[a].interface, Peer[allocated[a].interface]}
  <2>1. allocated[a].interface \in DOMAIN Peer /\ allocated[b].interface \in DOMAIN Peer
    BY <1>1, <1>2 DEF AddressesOK, Links
  <2>2. allocated[a].net \in children
    BY <1>1, <1>2 DEF NetBoxOK, SubnetsOK
  <2>3. HasSubnet(allocated[a].interface, allocated[a].net) /\ HasSubnet(allocated[b].interface, allocated[a].net)
    BY <1>2 DEF HasSubnet
  <2>4. SameLink(allocated[a].interface, allocated[b].interface)
    BY <1>1, <1>2, <2>1, <2>2, <2>3 DEF SubnetsOfLinks, WithoutVrf
  <2> QED
    BY <2>4 DEF SameLink
<1> QED
  BY <1>1, <1>2 DEF Divided, NetBoxOK, Allocation!AddressesFitLinks, Allocation!SubnetsAreOfLinks,
    Allocation!OneLinkPerSubnet, Allocation!InterfaceOf
=============================================================================
