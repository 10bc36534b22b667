----------------------------- MODULE Containers -----------------------------
(***************************************************************************)
(* The containers of a network and what the builder does with them through  *)
(* Docker (internal/compose): compose up and down, the route of the         *)
(* builder's own container to the nodes, and the removal of the chaincode   *)
(* containers; and the files that generatecc writes for compose and install *)
(* (internal/chaincode, cli.go).  Session runs the commands.                *)
(***************************************************************************)
EXTENDS Topology, Sequences

CONSTANTS
  Network,    \* the shape of the network
  Names,      \* the chaincodes that generatecc packages, numbered
  Builds,     \* the versions of their source
  NoNet,      \* the network of a container that does not exist
  None,       \* no address yet, no file, no service
  ByName,     \* dialled by host name, for want of an address
  Torn        \* a file that was cut short

ASSUME NetworkAssumption == Network \in Shape /\ Accepted(Network)
ASSUME NamesAssumption ==
  /\ Cardinality(Names) \in Nat \ {0} /\ Names = 1..Cardinality(Names)
  /\ None \notin Builds /\ Torn \notin Builds /\ None # Torn
  /\ None \notin [Names -> Builds] /\ Torn \notin [Names -> Builds]
  /\ None \notin Nat /\ ByName \notin Nat /\ None # ByName

\* The containers of the nodes, in the order of the services' names: the orderer, and
\* the first peer of each org.  The other orderers and peers, and the CouchDBs, which come
\* before the orderers, behave as these do and are left out.
Orderer == 0
Nodes == 0..Network.orgs
OrgIndices == Orgs(Network)

\* The other containers with a name, which sort before them: each org's CA, then cli.
Cli == Network.orgs + 1
Helpers == 1..Cli

\* The names that the network key "byfn" can get: with the CCaaS file, and without.
Nets == {"byfn", "fnb_byfn"}

ASSUME NetsAssumption == NoNet \notin Nets

VARIABLES
  box,      \* each node's network, its address there, and whether it runs
  helper,   \* the network of each other container
  services, \* the package that each CCaaS service was made for
  devs,     \* what the peers made to run Go chaincode: <<org, "container" or "image">>
  ledgers,  \* whether ledgers-backup exists
  inside,   \* whether the builder runs in a container
  self,     \* the networks that its container is on
  pkg, id,  \* the package files and their .id files
  ccaas,    \* docker-compose-ccaas.yaml: the package of each service

  want,     \* the network of the loaded project
  route,    \* the route: its network, and whether it joined it
  target    \* per node: the address the builder dials while the route is open

docker == <<box, helper, services, devs, inside>>
files  == <<pkg, id, ccaas, ledgers>>
way    == <<self, route, target>>

NoRoute == [net |-> NoNet, joined |-> FALSE]
NoTargets == [n \in Nodes |-> None]
Absent == [net |-> NoNet, at |-> 0, runs |-> FALSE]

Boxes == [net : Nets \cup {NoNet}, at : Nat, runs : BOOLEAN]

ContainersTypeOK ==
  /\ box \in [Nodes -> Boxes] /\ helper \in [Helpers -> Nets \cup {NoNet}]
  /\ services \in [Names -> Builds \cup {None}]
  /\ devs \subseteq OrgIndices \X {"container", "image"}
  /\ ledgers \in BOOLEAN /\ inside \in BOOLEAN
  /\ self \subseteq Nets
  /\ pkg \in [Names -> Builds \cup {None, Torn}]
  /\ id \in [Names -> Builds \cup {None, Torn}]
  /\ ccaas \in [Names -> Builds] \cup {None, Torn}
  /\ want \in Nets
  /\ route \in [net : Nets \cup {NoNet}, joined : BOOLEAN]
  /\ target \in [Nodes -> Nat \cup {None, ByName}]

ContainersInit ==
  /\ box = [n \in Nodes |-> Absent] /\ helper = [h \in Helpers |-> NoNet]
  /\ services = [s \in Names |-> None] /\ devs = {} /\ ledgers = TRUE
  /\ inside \in BOOLEAN /\ self \in IF inside THEN {{}, {"byfn"}, {"fnb_byfn"}} ELSE {{}}
  /\ pkg = [s \in Names |-> None] /\ id = [s \in Names |-> None] /\ ccaas = None
  /\ want = "fnb_byfn" /\ route = NoRoute /\ target = NoTargets

-----------------------------------------------------------------------------
(* The compose project.                                                     *)

\* The CCaaS file, if there is one, names the network.
NetworkName == IF ccaas = None THEN "fnb_byfn" ELSE "byfn"

\* Loading fails on a compose file that was cut short.
CanLoad == ccaas # Torn

ServicesOf == IF ccaas = None THEN [s \in Names |-> None] ELSE ccaas

\* A container that is missing, or differs from the project, is made anew,
Made(n) ==
  IF box[n].net = want THEN box[n] ELSE [net |-> want, at |-> box[n].at, runs |-> FALSE]

\* and gets an address when it starts.
Started(b) == IF b.runs THEN b ELSE [net |-> b.net, at |-> b.at + 1, runs |-> TRUE]

MakesAndStarts(made, run, others) ==
  /\ box' = [n \in Nodes |-> IF n \in run THEN Started(Made(n))
                             ELSE IF n \in made THEN Made(n) ELSE box[n]]
  /\ helper' = [h \in Helpers |-> IF h \in others THEN want ELSE helper[h]]

\* compose up makes the containers that it must, then starts them.
ComposeUp(made, run, others, names) ==
  /\ MakesAndStarts(made, run, others)
  /\ services' = [s \in Names |-> IF s \in names /\ ServicesOf[s] # None
                                  THEN ServicesOf[s] ELSE services[s]]
  /\ UNCHANGED <<devs, inside>>

\* How far an up can have come: cli comes after the nodes it depends on, and nothing is
\* started before all is made.
PartOfUp(made, run, others, names) ==
  /\ Cli \in others => made = Nodes
  /\ run # {} => made = Nodes /\ others = Helpers /\ names = Names

\* compose down --volumes removes the project's containers, cli before the nodes.
ComposeDown(nodes, others, names) ==
  /\ box' = [n \in Nodes |-> IF n \in nodes
                             THEN [net |-> NoNet, at |-> box[n].at, runs |-> FALSE] ELSE box[n]]
  /\ helper' = [h \in Helpers |-> IF h \in others THEN NoNet ELSE helper[h]]
  /\ services' = [s \in Names |-> IF s \in names THEN None ELSE services[s]]
  /\ UNCHANGED <<devs, inside>>

PartOfDown(nodes, others) == nodes # {} => Cli \in others

\* A container restarts, by itself or by the user, with another address.
Restart(n) ==
  /\ box[n].runs
  /\ box' = [box EXCEPT ![n].at = @ + 1]
  /\ UNCHANGED <<helper, services, devs, inside>>

\* A running peer makes an image and a container for a Go chaincode.
Launch(i) ==
  /\ box[i].runs
  /\ devs' = devs \cup {<<i, "image">>, <<i, "container">>}
  /\ UNCHANGED <<box, helper, services, inside>>

\* Its containers or its images, but those that Docker will not remove.
RemoveDevs(kind, kept) ==
  /\ devs' = {d \in devs : d[2] = kind => d \in kept}
  /\ UNCHANGED <<box, helper, services, inside>>

-----------------------------------------------------------------------------
(* The route.                                                               *)

First(S) == CHOOSE n \in S : \A m \in S : n <= m

WantedNetwork == want   \* faulty: whatever the containers are on

\* The network of the first container there is, running or not, and the project's if
\* there is none.  The services have no container names and are not asked.
RunningNetwork ==
  LET others == {h \in Helpers : helper[h] # NoNet}
      nodes  == {n \in Nodes : box[n].net # NoNet}
  IN IF others # {} THEN helper[First(others)]
     ELSE IF nodes # {} THEN box[First(nodes)].net ELSE want

\* In a container, the builder joins the network unless it is on it.
OpenRoute ==
  /\ route' = [net |-> RunningNetwork, joined |-> inside /\ RunningNetwork \notin self]
  /\ self' = IF inside THEN self \cup {RunningNetwork} ELSE self
  /\ target' = NoTargets

LeaveAlways ==   \* faulty: leaves a network that it was on before
  /\ self' = self \ {route.net}
  /\ route' = NoRoute /\ target' = NoTargets

\* It leaves the network that it joined, and forgets the addresses.
Leave ==
  /\ self' = IF route.joined THEN self \ {route.net} ELSE self
  /\ route' = NoRoute /\ target' = NoTargets

StayOpen ==   \* faulty: the route stays open after the command
  /\ target' = NoTargets
  /\ UNCHANGED <<self, route>>

\* The builder goes away, or Docker refuses, without an error: it stays on the network.
StayOn ==
  /\ route' = NoRoute /\ target' = NoTargets
  /\ UNCHANGED self

\* The address that Resolve finds: the node's on the route's network if it runs, or its
\* host name.
Found(n) == IF box[n].runs /\ box[n].net = route.net THEN box[n].at ELSE ByName

\* Resolve keeps an address that it found, and dialPeer the connection it made with
\* whatever Resolve answered; only an orderer is looked up again.
Keeps(n, t) == n # Orderer \/ t # ByName
Dialled(n, lookup) ==
  IF target[n] # None THEN target[n] ELSE IF lookup THEN Found(n) ELSE ByName

\* Whether node n answers at t: host names mean something on the node's network only.
Answers(n, t) ==
  /\ box[n].runs
  /\ inside => box[n].net \in self
  /\ IF t = ByName THEN inside ELSE box[n].net = route.net /\ t = box[n].at

-----------------------------------------------------------------------------
(* The files of generatecc.                                                 *)

\* Build and Write: the package, then its ID, which is the package's hash.
WritePackage(s, b) ==
  /\ pkg' = [pkg EXCEPT ![s] = b]
  /\ UNCHANGED <<id, ccaas, ledgers>>
WriteID(s, b) ==
  /\ id' = [id EXCEPT ![s] = b]
  /\ UNCHANGED <<pkg, ccaas, ledgers>>

WriteComposeOnce(b) ==   \* faulty: a compose file that is there is kept
  /\ ccaas' = IF ccaas = None THEN [s \in Names |-> b] ELSE ccaas
  /\ UNCHANGED <<pkg, id, ledgers>>

\* After all the packages, a service for each, with its package's ID.
WriteCompose(b) ==
  /\ ccaas' = [s \in Names |-> b]
  /\ UNCHANGED <<pkg, id, ledgers>>

RemoveLedgers ==
  /\ ledgers' = FALSE
  /\ UNCHANGED <<pkg, id, ccaas>>
=============================================================================
