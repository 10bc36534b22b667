------------------------------- MODULE Session -------------------------------
(***************************************************************************)
(* A series of commands on one network: up, install, invoke, generatecc and *)
(* down (internal/cli/cli.go), each with the route to the nodes open while   *)
(* it talks to them, and what `invoke` submits (internal/admin/invoke.go).   *)
(* A command may be killed or meet failures of Docker and of the nodes at    *)
(* any step, and containers restart under it.                                *)
(***************************************************************************)
EXTENDS Containers

CONSTANTS
  Retries,     \* attempts of a call of up or install
  MaxCommands, \* bound: commands
  MaxFaults,   \* bound: failures, kills and restarts
  MaxLaunches  \* bound: peers that start Go chaincode

ASSUME SessionAssumption ==
  Retries \in Nat \ {0} /\ MaxCommands \in Nat /\ MaxFaults \in Nat /\ MaxLaunches \in Nat

VARIABLES
  cmd,       \* the command
  pc,        \* the step it is at; "idle" between commands
  left,      \* the nodes to call, or the packages to make, that the step has left
  attempt,   \* attempts of the current call
  name,      \* the chaincode that install is at
  errs,      \* whether something failed that does not end the command at once
  result,    \* "none", "running", "ok", "failed" or "killed"
  number,    \* commands so far
  build,     \* the build that generatecc packages
  asked,     \* the peers that invoke asks to endorse, in turn
  endorsed,  \* the orgs whose peers did
  inflight,  \* transactions sent to the orderer and not ordered
  ledger,    \* those that it ordered, with their validity
  faults, launches,
  home,      \* the builder's networks when the command started
  astray,    \* whether a kill or Docker kept the builder on the network it joined
  calm,      \* nothing failed, restarted or was killed during the command
  matched    \* whether the last generatecc succeeded

command == <<cmd, number, build, asked, home>>
steps   == <<pc, left, attempt, name, errs, result>>
chain   == <<endorsed, inflight, ledger>>
history == <<faults, launches, astray, calm, matched>>
vars == <<docker, files, way, want, command, steps, chain, history>>

\* A transaction: the command that sent it and the orgs that endorsed it.
Txs == [by : 1..MaxCommands, orgs : SUBSET OrgIndices]

TypeOK ==
  /\ ContainersTypeOK
  /\ cmd \in {"none", "up", "install", "invoke", "generatecc", "down"}
  /\ pc \in {"idle", "compose", "route", "calls", "close", "package", "id", "file",
             "remove", "ledgers", "container", "image"}
  /\ left \in Seq(Nat) /\ attempt \in 1..Retries /\ name \in Names /\ errs \in BOOLEAN
  /\ result \in {"none", "running", "ok", "failed", "killed"}
  /\ (result = "running") <=> (pc # "idle")
  /\ (route # NoRoute) <=> (pc \in {"calls", "close"})
  /\ build \in Builds \cup {None}
  /\ asked \in Seq(OrgIndices) /\ endorsed \subseteq OrgIndices
  /\ inflight \subseteq Txs /\ ledger \subseteq [tx : Txs, valid : BOOLEAN]
  /\ home \subseteq Nets
  /\ number \in 0..MaxCommands /\ faults \in 0..MaxFaults /\ launches \in 0..MaxLaunches
  /\ astray \in BOOLEAN /\ calm \in BOOLEAN /\ matched \in BOOLEAN

Init ==
  /\ ContainersInit
  /\ cmd = "none" /\ pc = "idle" /\ left = <<>> /\ attempt = 1 /\ name = 1 /\ errs = FALSE
  /\ result = "none" /\ number = 0 /\ build = None
  /\ asked = <<>> /\ endorsed = {} /\ inflight = {} /\ ledger = {}
  /\ faults = 0 /\ launches = 0
  /\ home = self /\ astray = FALSE /\ calm = TRUE /\ matched = FALSE

-----------------------------------------------------------------------------
(* The start and the end of a command.                                      *)

\* up, install, invoke and down load the compose project first: the last argument of
\* Begin.  A compose file that was cut short refuses them.
Begin(c, step, list, loads) ==
  /\ pc = "idle" /\ number < MaxCommands
  /\ IF loads THEN CanLoad /\ want' = NetworkName ELSE UNCHANGED want
  /\ number' = number + 1 /\ cmd' = c
  /\ pc' = step /\ left' = list /\ attempt' = 1 /\ name' = 1 /\ errs' = FALSE
  /\ result' = "running"
  /\ home' = self /\ calm' = TRUE /\ astray' = FALSE /\ endorsed' = {}
  /\ UNCHANGED <<docker, files, way, inflight, ledger, faults, launches>>

AllNodes == [i \in 1..Network.orgs + 1 |-> i - 1]

\* The first peer of each org: by default they endorse.  install calls no orderer
\* either, the peers reach it.
FirstPeers == [i \in OrgIndices |-> i]

\* The calls of invoke: each peer's endorsement, the orderer's answer to the broadcast,
\* and the commit status from the first peer.
InvokeCalls(peers) == peers \o <<Orderer, peers[1]>>

PlainCommand == build' = None /\ asked' = <<>> /\ UNCHANGED matched

StartUp == Begin("up", "compose", AllNodes, TRUE) /\ PlainCommand

StartInstall == Begin("install", "route", FirstPeers, TRUE) /\ PlainCommand

StartDown == Begin("down", "remove", <<>>, TRUE) /\ PlainCommand

StartInvoke(peers) ==
  /\ Begin("invoke", "route", InvokeCalls(peers), TRUE)
  /\ asked' = peers /\ build' = None
  /\ UNCHANGED matched

StartGeneratecc(b) ==
  /\ Begin("generatecc", "package", [s \in Names |-> s], FALSE)
  /\ build' = b /\ asked' = <<>>
  /\ matched' = FALSE

Ends(r) ==
  /\ pc' = "idle" /\ result' = r /\ left' = <<>>
  /\ UNCHANGED <<attempt, name, errs>>

Goes(step) ==
  /\ pc' = step
  /\ UNCHANGED <<left, attempt, name, errs, result>>

Fault ==
  /\ faults < MaxFaults /\ faults' = faults + 1
  /\ calm' = FALSE
  /\ UNCHANGED <<launches, matched>>

\* How far the current step came when it was interrupted.
Interrupted ==
  /\ CASE pc = "compose" ->
              \E ns, ms \in SUBSET Nodes, hs \in SUBSET Helpers, ss \in SUBSET Names :
                PartOfUp(ns, ms, hs, ss) /\ ComposeUp(ns, ms, hs, ss)
       [] pc = "remove" ->
              \E ns \in SUBSET Nodes, hs \in SUBSET Helpers, ss \in SUBSET Names :
                PartOfDown(ns, hs) /\ ComposeDown(ns, hs, ss)
       [] pc \in {"container", "image"} -> \E kept \in SUBSET devs : RemoveDevs(pc, kept)
       [] OTHER -> UNCHANGED docker
  /\ \/ UNCHANGED <<pkg, id, ccaas>>
     \/ pc = "package" /\ pkg' = [pkg EXCEPT ![Head(left)] = Torn] /\ UNCHANGED <<id, ccaas>>
     \/ pc = "id" /\ id' = [id EXCEPT ![Head(left)] = Torn] /\ UNCHANGED <<pkg, ccaas>>
     \/ pc = "file" /\ ccaas' = Torn /\ UNCHANGED <<pkg, id>>
  /\ UNCHANGED ledgers

\* A failure that ends the command while no route is open.
Fails ==
  /\ pc \notin {"idle", "calls", "close"}
  /\ Fault /\ UNCHANGED astray
  /\ Ends("failed") /\ Interrupted
  /\ UNCHANGED <<way, want, command, chain>>

\* The builder is killed: the route is not closed.
Kill ==
  /\ pc # "idle"
  /\ Fault /\ astray' = (astray \/ route.joined)
  /\ Ends("killed") /\ Interrupted
  /\ StayOn
  /\ UNCHANGED <<want, command, chain>>

-----------------------------------------------------------------------------
(* up: compose.                                                             *)

Compose ==
  /\ pc = "compose"
  /\ ComposeUp(Nodes, Nodes, Helpers, Names)
  /\ Goes("route")
  /\ UNCHANGED <<files, way, want, command, chain, history>>

-----------------------------------------------------------------------------
(* withAdmin: the route, the calls, and the end of the route.               *)

Open ==
  /\ pc = "route"
  /\ OpenRoute
  /\ Goes("calls")
  /\ UNCHANGED <<docker, files, want, command, chain, history>>

\* Docker cannot join a network that is not there.
NoNetwork ==
  /\ pc = "route" /\ inside /\ RunningNetwork \notin self
  /\ \A n \in Nodes : box[n].net # RunningNetwork
  /\ \A h \in Helpers : helper[h] # RunningNetwork
  /\ Ends("failed")
  /\ UNCHANGED <<docker, files, way, want, command, chain, history>>

ThisTx == [by |-> number, orgs |-> endorsed]

EffectUnchecked(n) ==   \* faulty: success without the commit status
  CASE cmd # "invoke" \/ Len(left) = 1 -> UNCHANGED chain
    [] cmd = "invoke" /\ Len(left) > 2 ->
         endorsed' = endorsed \cup {n} /\ UNCHANGED <<inflight, ledger>>
    [] cmd = "invoke" /\ Len(left) = 2 ->
         inflight' = inflight \cup {ThisTx} /\ UNCHANGED <<endorsed, ledger>>

\* What a call that succeeds does: `invoke` collects endorsements, broadcasts, waits.
Effect(n) ==
  CASE cmd # "invoke" -> UNCHANGED chain
    [] cmd = "invoke" /\ Len(left) > 2 ->
         endorsed' = endorsed \cup {n} /\ UNCHANGED <<inflight, ledger>>
    [] cmd = "invoke" /\ Len(left) = 2 ->
         inflight' = inflight \cup {ThisTx} /\ UNCHANGED <<endorsed, ledger>>
    [] cmd = "invoke" /\ Len(left) = 1 ->
         [tx |-> ThisTx, valid |-> TRUE] \in ledger /\ UNCHANGED chain

\* Whether a call to node n at t gets there.
Reaches(n, t) ==
  /\ Answers(n, t)
  /\ cmd = "install" => box[Orderer].net = box[n].net

Dial(n, lookup) ==
  LET t == Dialled(n, lookup)
  IN target' = IF Keeps(n, t) THEN [target EXCEPT ![n] = t] ELSE target

\* The rest of a step of the calls: the route stays, and so does all that is not invoke's.
CallFrame == UNCHANGED <<docker, files, self, route, want, command, result>>

\* The command is about to call node n; install has read the package.
Calls(n) ==
  /\ pc = "calls" /\ n = Head(left)
  /\ cmd = "install" => pkg[name] # None

\* install is done with a chaincode and takes the next.
NextName == cmd = "install" /\ name < Cardinality(Names)

\* A call that succeeds.  The peers take a package that is whole; what else they and the
\* orderer need, Lifecycle and Up say: NotDone may refuse any call.
Call(n) ==
  /\ Calls(n)
  /\ Reaches(n, Dialled(n, TRUE)) /\ Dial(n, TRUE)
  /\ cmd = "install" => pkg[name] # Torn
  /\ Effect(n)
  /\ attempt' = 1
  /\ IF Tail(left) = <<>>
       THEN IF NextName THEN left' = FirstPeers /\ name' = name + 1 /\ UNCHANGED pc
                        ELSE left' = <<>> /\ pc' = "close" /\ UNCHANGED name
       ELSE left' = Tail(left) /\ UNCHANGED <<pc, name>>
  /\ UNCHANGED <<errs, history>> /\ CallFrame

\* install finds no package, and does not try again.
NoPackage ==
  /\ pc = "calls" /\ cmd = "install" /\ pkg[name] = None
  /\ pc' = "close" /\ errs' = TRUE
  /\ UNCHANGED <<left, attempt, name, target, chain, history>> /\ CallFrame

Attempts == IF cmd = "invoke" THEN 1 ELSE Retries

TryAgainForever ==   \* faulty: the last attempt starts over
  /\ UNCHANGED <<left, name, pc, errs>>
  /\ attempt' = IF attempt < Attempts THEN attempt + 1 ELSE 1

\* retry of up and install; invoke calls once.
TryAgain ==
  /\ UNCHANGED <<left, name>>
  /\ IF attempt < Attempts
       THEN attempt' = attempt + 1 /\ UNCHANGED <<pc, errs>>
       ELSE pc' = "close" /\ errs' = TRUE /\ UNCHANGED attempt

\* The node is not reached, or it refuses: the orderer is onboarding, there is no channel,
\* the package is torn, the chaincode is not committed.
NotDone(n) ==
  /\ Calls(n)
  /\ Dial(n, TRUE)
  /\ TryAgain
  /\ UNCHANGED <<chain, history>> /\ CallFrame

\* The call fails, or the address is not found; a broadcast may have arrived.
CallFails(n) ==
  /\ Calls(n)
  /\ Fault /\ UNCHANGED astray
  /\ Dial(n, TRUE) \/ Dial(n, FALSE)
  /\ TryAgain
  /\ \/ UNCHANGED chain
     \/ /\ cmd = "invoke" /\ Len(left) = 2 /\ Answers(n, target'[n])
        /\ inflight' = inflight \cup {ThisTx} /\ UNCHANGED <<endorsed, ledger>>
  /\ CallFrame

\* The commit status of a transaction that is not valid.
NotValid ==
  /\ pc = "calls" /\ cmd = "invoke" /\ Len(left) = 1
  /\ [tx |-> ThisTx, valid |-> FALSE] \in ledger
  /\ Answers(Head(left), Dialled(Head(left), TRUE))
  /\ TryAgain
  /\ UNCHANGED <<target, chain, history>> /\ CallFrame

\* The orderer orders a transaction; it is valid if its endorsements satisfy the policy,
\* unless another transaction is in its way.
Order(tx) ==
  /\ inflight' = inflight \ {tx}
  /\ LET endorsable == SatisfiedBy(EndorsementPolicy(Network), tx.orgs)
     IN \/ /\ ledger' = ledger \cup {[tx |-> tx, valid |-> endorsable]}
           /\ UNCHANGED history
        \/ /\ endorsable /\ Fault /\ UNCHANGED astray
           /\ ledger' = ledger \cup {[tx |-> tx, valid |-> FALSE]}
  /\ UNCHANGED <<docker, files, way, want, command, steps, endorsed>>

Close ==
  /\ pc = "close"
  /\ Leave
  /\ Ends(IF errs THEN "failed" ELSE "ok")
  /\ UNCHANGED <<docker, files, want, command, chain, history>>

\* Docker refuses to disconnect the builder: the command does not hear of it.
CloseRefused ==
  /\ pc = "close" /\ route.joined
  /\ Fault /\ astray' = TRUE
  /\ StayOn
  /\ Ends(IF errs THEN "failed" ELSE "ok")
  /\ UNCHANGED <<docker, files, want, command, chain>>

-----------------------------------------------------------------------------
(* generatecc: every package and its ID, then the compose file.             *)

Package ==
  /\ pc = "package"
  /\ WritePackage(Head(left), build)
  /\ Goes("id")
  /\ UNCHANGED <<docker, way, want, command, chain, history>>

PackageID ==
  /\ pc = "id"
  /\ WriteID(Head(left), build)
  /\ left' = Tail(left) /\ pc' = IF left' = <<>> THEN "file" ELSE "package"
  /\ UNCHANGED <<docker, way, want, command, attempt, name, errs, result, chain, history>>

ComposeFile ==
  /\ pc = "file"
  /\ WriteCompose(build) /\ matched' = TRUE
  /\ Ends("ok")
  /\ UNCHANGED <<docker, way, want, command, chain, faults, launches, astray, calm>>

-----------------------------------------------------------------------------
(* down: compose, ledgers-backup, chaincode containers, chaincode images.   *)

Remove ==
  /\ pc = "remove"
  /\ ComposeDown(Nodes, Helpers, Names)
  /\ Goes("ledgers")
  /\ UNCHANGED <<files, way, want, command, chain, history>>

Ledgers ==
  /\ pc = "ledgers"
  /\ RemoveLedgers
  /\ Goes("container")
  /\ UNCHANGED <<docker, way, want, command, chain, history>>

NextKindForgets(failed) ==   \* faulty: only the images' failures count
  IF pc = "container"
    THEN pc' = "image" /\ UNCHANGED <<left, attempt, name, errs, result>>
    ELSE Ends(IF failed THEN "failed" ELSE "ok")

\* After the containers the images; a failure is returned at the end.
NextKind(failed) ==
  IF pc = "container"
    THEN pc' = "image" /\ errs' = failed /\ UNCHANGED <<left, attempt, name, result>>
    ELSE Ends(IF failed THEN "failed" ELSE "ok")

Clean ==
  /\ pc \in {"container", "image"}
  /\ RemoveDevs(pc, {})
  /\ NextKind(errs)
  /\ UNCHANGED <<files, way, want, command, chain, history>>

CannotClean ==
  /\ pc \in {"container", "image"}
  /\ \E kept \in SUBSET devs : kept # {} /\ RemoveDevs(pc, kept)
  /\ Fault /\ UNCHANGED astray
  /\ NextKind(TRUE)
  /\ UNCHANGED <<files, way, want, command, chain>>

-----------------------------------------------------------------------------
(* What happens around the commands.                                        *)

ContainerRestarts(n) ==
  /\ Fault /\ UNCHANGED astray
  /\ Restart(n)
  /\ UNCHANGED <<files, way, want, command, steps, chain>>

PeerLaunches(i) ==
  /\ launches < MaxLaunches /\ launches' = launches + 1
  /\ Launch(i)
  /\ UNCHANGED <<files, way, want, command, steps, chain, faults, astray, calm, matched>>

Step ==
  \/ Compose
  \/ Open \/ NoNetwork \/ NoPackage \/ (\E n \in Nodes : Call(n) \/ NotDone(n))
  \/ NotValid \/ Close
  \/ Package \/ PackageID \/ ComposeFile
  \/ Remove \/ Ledgers \/ Clean

Faults ==
  \/ Fails \/ Kill \/ CloseRefused \/ CannotClean
  \/ \E n \in Nodes : CallFails(n) \/ ContainerRestarts(n)

Next ==
  \/ StartUp \/ StartInstall \/ StartDown
  \/ \E peers \in {FirstPeers} \cup {<<i>> : i \in OrgIndices} : StartInvoke(peers)
  \/ \E b \in Builds : StartGeneratecc(b)
  \/ Step
  \/ Faults
  \/ \E tx \in inflight : Order(tx)
  \/ \E i \in OrgIndices : PeerLaunches(i)

\* A command goes on by itself, and the orderer orders what it has.
Fairness == WF_vars(Step) /\ WF_vars(\E tx \in inflight : Order(tx))

Spec == Init /\ [][Next]_vars /\ Fairness

-----------------------------------------------------------------------------
(* Properties.                                                              *)

\* A command leaves the builder on the networks on which it found it, or `down` could
\* not remove them: unless it was killed or Docker refused, it leaves the network that
\* it joined and no other (Route, withAdmin).
RouteIsLeft == (pc = "idle" /\ ~astray) => self = home

\* While nothing fails, every call arrives at its node: those of up always, those of
\* install and invoke if all containers are on one network and every node runs.  No
\* address, network name or route of an earlier command is in the way (Route,
\* runningNetwork, Resolve, withAdmin).
OneNetwork ==
  \E net \in Nets : /\ \A n \in Nodes : box[n].net = net /\ box[n].runs
                    /\ \A h \in Helpers : helper[h] \in {net, NoNet}
CallsArrive ==
  (calm /\ pc = "calls" /\ (cmd = "up" \/ OneNetwork)) =>
    Reaches(Head(left), Dialled(Head(left), TRUE))

\* "runningNetwork is the name of the network the running nodes are on" (compose.go).
NodesOn(net) == \A n \in Nodes : box[n].net = net /\ box[n].runs
RouteIsToNodes ==
  (calm /\ pc = "calls") => \A net \in Nets : NodesOn(net) => route.net = net

\* After a down that reports success nothing of the network is left, chaincode
\* containers and images included: the peers that make them are removed first (down).
DownIsComplete ==
  (pc = "idle" /\ cmd = "down" /\ result = "ok") =>
    /\ \A n \in Nodes : box[n].net = NoNet
    /\ \A h \in Helpers : helper[h] = NoNet
    /\ \A s \in Names : services[s] = None
    /\ devs = {} /\ ~ledgers

\* An invoke that reports success has a valid transaction on the ledger that all the
\* peers it asked endorsed; one command commits at most one transaction, and none
\* before the last peer endorsed it (Invoke).
InvokeIsCommitted ==
  /\ (pc = "idle" /\ cmd = "invoke" /\ result = "ok") =>
       \E e \in ledger : /\ e.valid /\ e.tx.by = number
                         /\ e.tx.orgs = {asked[i] : i \in DOMAIN asked}
  /\ \A e, f \in ledger : e.tx.by = f.tx.by => e = f
  /\ \A tx \in inflight \cup {e.tx : e \in ledger} :
       tx.by = number => tx.orgs = {asked[i] : i \in DOMAIN asked}

\* After a generatecc and an up that succeeded, each CCaaS service runs the package that
\* install would send to the peers, and its .id file says so (generatecc, Write, Up).
ServicesRunPackages ==
  (pc = "idle" /\ cmd = "up" /\ result = "ok" /\ matched) =>
    \A s \in Names : services[s] = pkg[s] /\ id[s] = pkg[s]

\* No two containers publish the same port of the host (New, computeOrgs, generatecc).
PortsDistinct == Distinct(Network, Cardinality(Names))

\* Every command ends.
CommandsEnd == (pc # "idle") ~> (pc = "idle")
=============================================================================
