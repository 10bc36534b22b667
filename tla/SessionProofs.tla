---------------------------- MODULE SessionProofs ----------------------------
(***************************************************************************)
(* Theorems about Session, for every shape of the network, every number of  *)
(* chaincodes, commands, attempts and failures.                             *)
(***************************************************************************)
EXTENDS Session, TopologyProofs, SequenceTheorems, WellFoundedInduction

\* The ports of the network and its chaincode services (generate, generatecc) are
\* distinct on every host.
THEOREM HostPorts ==
  ASSUME IsFiniteSet(Names), Cardinality(Names) <= 970
  PROVE  Spec => []PortsDistinct
<1>1. Cardinality(Names) \in Nat
  BY FS_CardinalityType
<1>2. Network \in Shape
  BY NetworkAssumption
<1>3. PortsDistinct
  BY <1>1, <1>2, PortsNeverClash DEF PortsDistinct
<1> QED
  BY <1>3, PTL

-----------------------------------------------------------------------------
(* The route.                                                               *)

\* While a command runs, the builder is on the networks on which the command found it,
\* and on the one that its route joined.
RouteInv ==
  /\ pc \notin {"calls", "close"} => ~route.joined
  /\ ~astray /\ route.joined => route.net \notin home
  /\ ~astray => self = IF route.joined THEN home \cup {route.net} ELSE home

\* What RouteInv speaks of.
routing == <<pc, self, route, home, astray>>

LEMMA RouteInvFrame ==
  ASSUME RouteInv, UNCHANGED routing
  PROVE  RouteInv'
BY DEF RouteInv, routing

\* A step that moves a command, with or without the route, and leaves the route alone,
LEMMA RouteInvMove ==
  ASSUME RouteInv, UNCHANGED <<self, route, home, astray>>,
         pc \in {"calls", "close"} => pc' \in {"calls", "close"}
  PROVE  RouteInv'
BY DEF RouteInv

\* and the start of a command.
LEMMA RouteInvBegin ==
  ASSUME RouteInv, pc = "idle", UNCHANGED <<self, route>>, home' = self, astray' = FALSE
  PROVE  RouteInv'
BY DEF RouteInv

LEMMA RouteInvInit == Init => RouteInv
BY DEF Init, ContainersInit, RouteInv, NoRoute

LEMMA RouteInvStep ==
  ASSUME RouteInv, [Next]_vars
  PROVE  RouteInv'
<1>1. CASE StartUp \/ StartInstall \/ StartDown
  <2>1. pc = "idle" /\ UNCHANGED <<self, route>> /\ home' = self /\ astray' = FALSE
    BY <1>1 DEF StartUp, StartInstall, StartDown, Begin, way
  <2> QED
    BY <2>1, RouteInvBegin
<1>2. ASSUME NEW peers, StartInvoke(peers)
      PROVE  RouteInv'
  <2>1. pc = "idle" /\ UNCHANGED <<self, route>> /\ home' = self /\ astray' = FALSE
    BY <1>2 DEF StartInvoke, Begin, way
  <2> QED
    BY <2>1, RouteInvBegin
<1>3. ASSUME NEW b, StartGeneratecc(b)
      PROVE  RouteInv'
  <2>1. pc = "idle" /\ UNCHANGED <<self, route>> /\ home' = self /\ astray' = FALSE
    BY <1>3 DEF StartGeneratecc, Begin, way
  <2> QED
    BY <2>1, RouteInvBegin
<1>4. CASE Compose \/ Package \/ PackageID \/ ComposeFile \/ Remove \/ Ledgers \/ Clean
  <2>1. pc \notin {"calls", "close"}
    BY <1>4 DEF Compose, Package, PackageID, ComposeFile, Remove, Ledgers, Clean
  <2>2. UNCHANGED <<self, route, home, astray>>
    BY <1>4 DEF Compose, Package, PackageID, ComposeFile, Remove, Ledgers, Clean,
                way, command, history
  <2> QED
    BY <2>1, <2>2, RouteInvMove
<1>5. CASE Open
  <2>1. /\ pc = "route" /\ pc' = "calls" /\ UNCHANGED <<home, astray>>
        /\ route' = [net |-> RunningNetwork, joined |-> inside /\ RunningNetwork \notin self]
        /\ self' = IF inside THEN self \cup {RunningNetwork} ELSE self
    BY <1>5 DEF Open, OpenRoute, Goes, command, history
  <2>2. ~route.joined
    BY <2>1 DEF RouteInv
  <2>3. ~astray => self = home
    BY <2>2 DEF RouteInv
  <2>4. route'.net = RunningNetwork /\ (route'.joined <=> inside /\ RunningNetwork \notin self)
    BY <2>1
  <2>5. ASSUME ~astray
        PROVE  self' = IF route'.joined THEN home' \cup {route'.net} ELSE home'
    BY <2>1, <2>3, <2>4, <2>5
  <2>6. ~astray /\ route'.joined => route'.net \notin home'
    BY <2>1, <2>3, <2>4
  <2>7. pc' \in {"calls", "close"} /\ astray' = astray
    BY <2>1
  <2> QED
    BY <2>5, <2>6, <2>7 DEF RouteInv
<1>6. CASE NoNetwork
  <2>1. pc = "route" /\ UNCHANGED <<self, route, home, astray>>
    BY <1>6 DEF NoNetwork, way, command, history
  <2> QED
    BY <2>1, RouteInvMove
<1>7. ASSUME NEW n \in Nodes, Call(n) \/ NotDone(n) \/ CallFails(n)
      PROVE  RouteInv'
  <2>1. UNCHANGED <<self, route, home>> /\ pc' \in {"calls", "close"}
    BY <1>7 DEF Call, NotDone, CallFails, Calls, TryAgain, CallFrame, command
  <2>2. UNCHANGED astray
    BY <1>7 DEF Call, NotDone, CallFails, history
  <2> QED
    BY <2>1, <2>2, RouteInvMove
<1>8. CASE NotValid \/ NoPackage
  <2>1. UNCHANGED <<self, route, home, astray>> /\ pc' \in {"calls", "close"}
    BY <1>8 DEF NotValid, NoPackage, TryAgain, CallFrame, command, history
  <2> QED
    BY <2>1, RouteInvMove
<1>9. CASE Close
  <2>1. /\ pc' = "idle" /\ UNCHANGED <<home, astray>> /\ ~route'.joined
        /\ self' = IF route.joined THEN self \ {route.net} ELSE self
    BY <1>9 DEF Close, Leave, NoRoute, Ends, command, history
  <2>2. ~astray => self' = home
    BY <2>1 DEF RouteInv
  <2> QED
    BY <2>1, <2>2 DEF RouteInv
<1>10. CASE CloseRefused
  BY <1>10 DEF CloseRefused, StayOn, NoRoute, Ends, RouteInv
<1>11. CASE Kill
  <2>1. /\ UNCHANGED <<home, self>> /\ ~route'.joined /\ astray' = (astray \/ route.joined)
    BY <1>11 DEF Kill, StayOn, NoRoute, command
  <2>2. ~astray' => self' = home'
    BY <2>1 DEF RouteInv
  <2> QED
    BY <2>1, <2>2 DEF RouteInv
<1>12. CASE Fails
  <2>1. pc \notin {"calls", "close"} /\ UNCHANGED <<self, route, home, astray>>
    BY <1>12 DEF Fails, way, command
  <2> QED
    BY <2>1, RouteInvMove
<1>13. CASE CannotClean
  <2>1. pc \notin {"calls", "close"} /\ UNCHANGED <<self, route, home, astray>>
    BY <1>13 DEF CannotClean, way, command
  <2> QED
    BY <2>1, RouteInvMove
<1>14. ASSUME NEW n \in Nodes, ContainerRestarts(n)
       PROVE  RouteInv'
  BY <1>14, RouteInvFrame DEF ContainerRestarts, routing, way, command, steps
<1>15. ASSUME NEW i \in OrgIndices, PeerLaunches(i)
       PROVE  RouteInv'
  BY <1>15, RouteInvFrame DEF PeerLaunches, routing, way, command, steps
<1>16. ASSUME NEW tx \in inflight, Order(tx)
       PROVE  RouteInv'
  BY <1>16, RouteInvFrame DEF Order, routing, way, command, steps, history
<1>17. CASE UNCHANGED vars
  BY <1>17, RouteInvFrame DEF vars, routing, way, command, steps, history
<1> QED
  BY <1>1, <1>2, <1>3, <1>4, <1>5, <1>6, <1>7, <1>8, <1>9, <1>10, <1>11, <1>12, <1>13,
     <1>14, <1>15, <1>16, <1>17 DEF Next, Step, Faults

\* A command leaves the builder on the networks on which it found it, unless it was
\* killed or Docker refused to disconnect it (Route, withAdmin).
THEOREM CommandsLeaveTheNetwork == Spec => []RouteIsLeft
<1>1. RouteInv => RouteIsLeft
  BY DEF RouteInv, RouteIsLeft
<1>2. RouteInv /\ [Next]_vars => RouteInv'
  BY RouteInvStep
<1> QED
  BY RouteInvInit, <1>1, <1>2, PTL DEF Spec

-----------------------------------------------------------------------------
(* down.                                                                    *)

Stopped ==
  /\ \A n \in Nodes : box[n].net = NoNet /\ ~box[n].runs
  /\ \A h \in Helpers : helper[h] = NoNet
  /\ \A s \in Names : services[s] = None

DownSteps == {"remove", "ledgers", "container", "image"}

\* What is gone at each step of down; nothing can come back, for no peer runs.
DownInv ==
  /\ devs \subseteq OrgIndices \X {"container", "image"}
  /\ cmd = "down" => pc \in DownSteps \cup {"idle"}
  /\ pc \in {"ledgers", "container", "image"} => Stopped
  /\ pc \in {"container", "image"} => ~ledgers
  /\ (pc = "image" /\ ~errs) => \A d \in devs : d[2] # "container"
  /\ (pc = "idle" /\ cmd = "down" /\ result = "ok") => Stopped /\ devs = {} /\ ~ledgers

\* What DownInv speaks of.
downing == <<box, helper, services, devs, ledgers, cmd, pc, errs, result>>

LEMMA DownInvFrame ==
  ASSUME DownInv, UNCHANGED downing
  PROVE  DownInv'
BY DEF DownInv, downing, Stopped

\* The steps of the other commands, whatever they do to the containers.
LEMMA DownInvOther ==
  ASSUME DownInv, devs' = devs, cmd' # "down", pc' \notin DownSteps
  PROVE  DownInv'
BY DEF DownInv, DownSteps

\* A command that did not succeed promises nothing.
LEMMA DownInvStops ==
  ASSUME DownInv, devs' \subseteq devs, pc' = "idle", result' # "ok"
  PROVE  DownInv'
BY DEF DownInv, DownSteps

LEMMA DownInvInit == Init => DownInv
BY DEF Init, ContainersInit, DownInv, DownSteps

LEMMA DownInvStep ==
  ASSUME DownInv, [Next]_vars
  PROVE  DownInv'
<1>1. CASE StartUp \/ StartInstall
  BY <1>1, DownInvOther DEF StartUp, StartInstall, Begin, docker, DownSteps
<1>2. ASSUME NEW peers, StartInvoke(peers)
      PROVE  DownInv'
  BY <1>2, DownInvOther DEF StartInvoke, Begin, docker, DownSteps
<1>3. ASSUME NEW b, StartGeneratecc(b)
      PROVE  DownInv'
  BY <1>3, DownInvOther DEF StartGeneratecc, Begin, docker, DownSteps
<1>4. CASE StartDown
  <2>1. pc' = "remove" /\ devs' = devs
    BY <1>4 DEF StartDown, Begin, docker
  <2> QED
    BY <2>1 DEF DownInv, DownSteps
<1>5. CASE Compose \/ Open \/ Package \/ PackageID \/ NotValid \/ NoPackage
  <2>1. pc \notin DownSteps \cup {"idle"} /\ pc' \notin DownSteps /\ UNCHANGED <<cmd, devs>>
    BY <1>5 DEF Compose, ComposeUp, Open, Package, PackageID, Goes, NotValid, NoPackage, TryAgain,
                CallFrame, docker, command, DownSteps
  <2> QED
    BY <2>1, DownInvOther DEF DownInv
<1>6. CASE ComposeFile \/ Close \/ CloseRefused \/ NoNetwork
  <2>1. pc \notin DownSteps \cup {"idle"} /\ pc' = "idle" /\ UNCHANGED <<cmd, devs>>
    BY <1>6 DEF ComposeFile, Close, CloseRefused, NoNetwork, Ends, docker, command, DownSteps
  <2> QED
    BY <2>1, DownInvOther DEF DownInv, DownSteps
<1>7. ASSUME NEW n \in Nodes, Call(n) \/ NotDone(n) \/ CallFails(n)
      PROVE  DownInv'
  <2>1. pc = "calls" /\ pc' \notin DownSteps /\ UNCHANGED <<cmd, devs>>
    BY <1>7 DEF Call, NotDone, CallFails, Calls, TryAgain, CallFrame, docker, command, DownSteps
  <2> QED
    BY <2>1, DownInvOther DEF DownInv, DownSteps
<1>8. CASE Remove
  <2>1. pc = "remove" /\ pc' = "ledgers" /\ UNCHANGED <<cmd, devs, errs, result>>
    BY <1>8 DEF Remove, ComposeDown, Goes, command
  <2>2. Stopped'
    BY <1>8 DEF Remove, ComposeDown, Stopped
  <2> QED
    BY <2>1, <2>2 DEF DownInv, DownSteps
<1>9. CASE Ledgers
  <2>1. /\ pc = "ledgers" /\ pc' = "container" /\ UNCHANGED <<cmd, devs, box, helper, services>>
        /\ ledgers' = FALSE
    BY <1>9 DEF Ledgers, RemoveLedgers, Goes, command, docker
  <2>2. Stopped'
    BY <2>1 DEF DownInv, Stopped
  <2> QED
    BY <2>1, <2>2 DEF DownInv, DownSteps
<1>10. ASSUME NEW kept, RemoveDevs(pc, kept), NEW failed, NextKind(failed),
              kept = {} \/ failed, ~failed => ~errs,
              pc \in {"container", "image"}, UNCHANGED <<cmd, ledgers>>
       PROVE  DownInv'
  <2>1. /\ UNCHANGED <<box, helper, services>> /\ devs' \subseteq devs
        /\ \A d \in devs' : d[2] = pc => d \in kept
    BY <1>10 DEF RemoveDevs
  <2>2. Stopped' /\ ~ledgers'
    BY <1>10, <2>1 DEF DownInv, Stopped
  <2>3. CASE pc = "container"
    <3>1. pc' = "image" /\ errs' = failed
      BY <1>10, <2>3 DEF NextKind
    <3>2. ~errs' => \A d \in devs' : d[2] # "container"
      BY <1>10, <2>1, <2>3, <3>1
    <3> QED
      BY <2>1, <2>2, <3>1, <3>2 DEF DownInv, DownSteps
  <2>4. CASE pc = "image"
    <3>1. pc' = "idle" /\ result' = (IF failed THEN "failed" ELSE "ok")
      BY <1>10, <2>4 DEF NextKind, Ends
    <3>2. CASE failed
      <4>1. result' # "ok"
        BY <3>1, <3>2
      <4> QED
        BY <2>1, <3>1, <4>1, DownInvStops
    <3>3. CASE ~failed
      <4>1. \A d \in devs' : d[2] # "container" /\ d[2] # "image"
        BY <1>10, <2>1, <2>4, <3>3 DEF DownInv
      <4>2. devs' = {}
        BY <2>1, <4>1 DEF DownInv
      <4> QED
        BY <2>2, <3>1, <4>2 DEF DownInv, DownSteps
    <3> QED
      BY <3>2, <3>3
  <2> QED
    BY <1>10, <2>3, <2>4
<1>11. CASE Clean
  BY <1>10, <1>11 DEF Clean, files, command
<1>12. CASE CannotClean
  BY <1>10, <1>12 DEF CannotClean, files, command
<1>13. CASE Fails \/ Kill
  <2>1. devs' \subseteq devs
    BY <1>13 DEF Fails, Kill, Interrupted, ComposeUp, ComposeDown, RemoveDevs, docker
  <2>2. pc' = "idle" /\ result' # "ok"
    BY <1>13 DEF Fails, Kill, Ends
  <2> QED
    BY <2>1, <2>2, DownInvStops
<1>14. ASSUME NEW n \in Nodes, ContainerRestarts(n)
       PROVE  DownInv'
  <2>1. ~Stopped /\ UNCHANGED <<services, devs, ledgers, cmd, pc, errs, result>>
    BY <1>14 DEF ContainerRestarts, Restart, Stopped, files, command, steps
  <2> QED
    BY <2>1 DEF DownInv
<1>15. ASSUME NEW i \in OrgIndices, PeerLaunches(i)
       PROVE  DownInv'
  <2>1. i \in Nodes
    BY NetworkAssumption DEF OrgIndices, Orgs, Nodes, Shape
  <2>2. /\ ~Stopped /\ UNCHANGED <<ledgers, cmd, pc, errs, result>>
        /\ devs' = devs \cup {<<i, "image">>, <<i, "container">>}
    BY <1>15, <2>1 DEF PeerLaunches, Launch, Stopped, files, command, steps
  <2>3. devs' \subseteq OrgIndices \X {"container", "image"}
    BY <2>2 DEF DownInv
  <2> QED
    BY <2>2, <2>3 DEF DownInv
<1>16. ASSUME NEW tx \in inflight, Order(tx)
       PROVE  DownInv'
  BY <1>16, DownInvFrame DEF Order, downing, docker, files, command, steps
<1>17. CASE UNCHANGED vars
  BY <1>17, DownInvFrame DEF vars, downing, docker, files, command, steps
<1> QED
  BY <1>1, <1>2, <1>3, <1>4, <1>5, <1>6, <1>7, <1>8, <1>9, <1>11, <1>12, <1>13, <1>14,
     <1>15, <1>16, <1>17 DEF Next, Step, Faults

\* A down that reports success left nothing of the network: no container, no
\* ledgers-backup, and no container or image that a peer made, whatever the peers did
\* until it removed them (down, RemoveChaincodeContainers).
THEOREM DownRemovesAll == Spec => []DownIsComplete
<1>1. DownInv => DownIsComplete
  BY DEF DownInv, DownIsComplete, Stopped
<1>2. DownInv /\ [Next]_vars => DownInv'
  BY DownInvStep
<1> QED
  BY DownInvInit, <1>1, <1>2, PTL DEF Spec

-----------------------------------------------------------------------------
(* invoke.                                                                  *)

\* How many calls are left, and how many peers invoke asks.
Left == Len(left)
Asked == Len(asked)

\* The orgs of those peers, and how many of them were asked so far.
Askers == {asked[i] : i \in DOMAIN asked}
Done == IF Left = 1 THEN Asked ELSE Asked + 2 - Left

\* invoke asks the peers in their order, each once, and has the endorsements of those
\* it is done with.
Collecting ==
  /\ left \in Seq(Nat) /\ Left >= 1 /\ Left <= Asked + 2
  /\ \A i \in 1..(Left - 2) : left[i] = asked[i + (Asked + 2 - Left)]
  /\ endorsed = {asked[i] : i \in 1..Done}

InvokeControl ==
  cmd = "invoke" =>
    /\ pc \in {"route", "calls", "close", "idle"} /\ attempt = 1
    /\ asked \in Seq(OrgIndices) /\ asked # <<>>
    /\ pc = "route" => left = InvokeCalls(asked) /\ endorsed = {}
    /\ pc = "calls" => Collecting

\* The transactions that were ever sent.
Sent == inflight \cup {e.tx : e \in ledger}

\* At most one transaction per command, after all its endorsements.
ChainInv ==
  /\ number \in Nat
  /\ \A tx \in Sent : tx.by \in Nat /\ tx.by <= number
  /\ \A tx \in Sent : tx.by = number =>
       /\ cmd = "invoke" /\ pc # "route"
       /\ pc = "calls" => Left = 1
       /\ tx = ThisTx /\ endorsed = Askers
  /\ \A tx, ty \in inflight : tx.by = ty.by => tx = ty
  /\ \A tx \in inflight, e \in ledger : tx.by # e.tx.by
  /\ \A e, f \in ledger : e.tx.by = f.tx.by => e = f

Committed == [tx |-> ThisTx, valid |-> TRUE] \in ledger /\ endorsed = Askers

SuccessInv ==
  /\ (cmd = "invoke" /\ pc = "close" /\ ~errs) => Committed
  /\ (cmd = "invoke" /\ pc = "idle" /\ result = "ok") => Committed

InvokeInv == InvokeControl /\ ChainInv /\ SuccessInv

\* A step of another command,
LEMMA InvokeInvOther ==
  ASSUME InvokeInv, cmd # "invoke", UNCHANGED <<cmd, number, inflight, ledger>>
  PROVE  InvokeInv'
<1>1. InvokeControl' /\ SuccessInv'
  BY DEF InvokeControl, SuccessInv
<1>2. Sent' = Sent
  BY DEF Sent
<1>3. \A tx \in Sent : tx.by # number
  BY DEF InvokeInv, ChainInv
<1>4. ChainInv'
  BY <1>2, <1>3 DEF InvokeInv, ChainInv
<1> QED
  BY <1>1, <1>4 DEF InvokeInv

\* the end of one that does not succeed,
LEMMA InvokeInvStops ==
  ASSUME InvokeInv, UNCHANGED <<cmd, number, asked, attempt, chain>>,
         pc' = "idle", result' # "ok"
  PROVE  InvokeInv'
<1>1. InvokeControl'
  BY DEF InvokeInv, InvokeControl
<1>2. SuccessInv'
  BY DEF SuccessInv
<1>3. Sent' = Sent /\ ThisTx' = ThisTx /\ Askers' = Askers
  BY DEF Sent, ThisTx, Askers, chain
<1>4. ChainInv'
  BY <1>3 DEF InvokeInv, ChainInv, chain
<1> QED
  BY <1>1, <1>2, <1>4 DEF InvokeInv

\* and the start of one.
LEMMA ChainInvBegin ==
  ASSUME InvokeInv, number' = number + 1, UNCHANGED <<inflight, ledger>>
  PROVE  ChainInv'
<1>1. Sent' = Sent /\ number' \in Nat
  BY DEF Sent, InvokeInv, ChainInv
<1>2. \A tx \in Sent : tx.by \in Nat /\ tx.by <= number /\ number \in Nat
  BY DEF InvokeInv, ChainInv
<1>3. \A tx \in Sent : tx.by \in Nat /\ tx.by <= number' /\ tx.by # number'
  BY <1>2
<1> QED
  BY <1>1, <1>3 DEF InvokeInv, ChainInv

LEMMA InvokeInvBegin ==
  ASSUME InvokeInv, number' = number + 1, UNCHANGED <<inflight, ledger>>, cmd' # "invoke"
  PROVE  InvokeInv'
<1>1. InvokeControl' /\ SuccessInv'
  BY DEF InvokeControl, SuccessInv
<1> QED
  BY <1>1, ChainInvBegin DEF InvokeInv

LEMMA InvokeInvFrame ==
  ASSUME InvokeInv, UNCHANGED <<cmd, number, asked, pc, left, attempt, errs, result, chain>>
  PROVE  InvokeInv'
<1>1. /\ Sent' = Sent /\ ThisTx' = ThisTx /\ Askers' = Askers
      /\ Left' = Left /\ Asked' = Asked /\ Done' = Done
  BY DEF Sent, ThisTx, Askers, Done, Left, Asked, chain
<1>2. InvokeControl'
  BY <1>1 DEF InvokeInv, InvokeControl, InvokeCalls, Collecting, chain
<1>3. ChainInv'
  BY <1>1 DEF InvokeInv, ChainInv, chain
<1>4. SuccessInv'
  BY <1>1 DEF InvokeInv, SuccessInv, Committed, chain
<1> QED
  BY <1>2, <1>3, <1>4 DEF InvokeInv

LEMMA InvokeInvInit == Init => InvokeInv
BY DEF Init, InvokeInv, InvokeControl, ChainInv, SuccessInv, Sent

\* Once the route is open, the peers are to be asked.
LEMMA CollectingStarts ==
  ASSUME InvokeInv, cmd = "invoke", pc = "route", UNCHANGED <<left, asked, endorsed>>
  PROVE  Collecting'
<1>1. /\ asked \in Seq(OrgIndices) /\ left = asked \o <<Orderer, asked[1]>>
      /\ endorsed = {}
  BY DEF InvokeInv, InvokeControl, InvokeCalls
<1>2. OrgIndices \subseteq Nat
  BY NetworkAssumption DEF OrgIndices, Orgs, Shape
<1>3. asked # <<>>
  BY DEF InvokeInv, InvokeControl
<1>4. asked \in Seq(Nat) /\ Asked \in Nat /\ Asked >= 1 /\ asked[1] \in Nat
  <2>1. asked \in Seq(Nat)
    BY <1>1, <1>2, SeqMonotonic
  <2>2. Asked \in Nat \ {0}
    BY <2>1, <1>3, EmptySeq DEF Asked
  <2>3. 1 \in 1..Asked
    BY <2>2
  <2>4. asked[1] \in Nat
    BY <2>1, <2>3, ElementOfSeq DEF Asked
  <2> QED
    BY <2>1, <2>2, <2>4
<1>5. <<Orderer, asked[1]>> \in Seq(Nat) /\ Len(<<Orderer, asked[1]>>) = 2
  BY <1>4 DEF Orderer
<1>6. /\ Left = Asked + 2 /\ left \in Seq(Nat)
      /\ \A i \in 1..Asked : left[i] = asked[i]
  <2>1. /\ left \in Seq(Nat) /\ Left = Asked + 2
        /\ \A i \in 1..(Asked + 2) :
             left[i] = IF i <= Asked THEN asked[i] ELSE <<Orderer, asked[1]>>[i - Asked]
    BY <1>1, <1>4, <1>5, ConcatProperties DEF Left, Asked
  <2> QED
    BY <1>4, <2>1
<1>7. Done = 0
  BY <1>4, <1>6 DEF Done
<1>8. Collecting
  <2>1. endorsed = {asked[i] : i \in 1..Done}
    BY <1>1, <1>7
  <2>2. Left >= 1 /\ Left <= Asked + 2
    BY <1>4, <1>6
  <2>3. \A i \in 1..(Left - 2) : left[i] = asked[i + (Asked + 2 - Left)]
    <3>1. ASSUME NEW i \in 1..(Left - 2)
          PROVE  i \in 1..Asked /\ i + (Asked + 2 - Left) = i
      BY <1>4, <1>6
    <3> QED
      BY <1>6, <3>1
  <2> QED
    BY <1>6, <2>1, <2>2, <2>3 DEF Collecting
<1> QED
  BY <1>8 DEF Collecting, Done, Left, Asked

\* When the last peer is done with, all of them have endorsed.
LEMMA AllEndorsed ==
  ASSUME Collecting, asked \in Seq(OrgIndices), Left <= 2
  PROVE  endorsed = Askers
<1>1. Asked \in Nat /\ DOMAIN asked = 1..Asked
  BY LenProperties DEF Asked
<1>a. Left = 1 \/ Left = 2
  <2>1. Left >= 1 /\ Left \in Nat
    BY LenProperties DEF Collecting, Left
  <2> QED
    BY <2>1
<1>2. Done = Asked
  BY <1>1, <1>a DEF Done
<1> QED
  BY <1>1, <1>2 DEF Collecting, Askers

\* A transaction that is sent is the first of its command.
LEMMA ChainInvSend ==
  ASSUME InvokeInv, cmd = "invoke", pc = "calls", Left = 2,
         inflight' = inflight \cup {ThisTx},
         UNCHANGED <<cmd, number, asked, endorsed, ledger>>,
         pc' # "route", pc' = "calls" => Left' = 1
  PROVE  ChainInv'
<1>1. endorsed = Askers
  BY AllEndorsed DEF InvokeInv, InvokeControl
<1>2. \A tx \in Sent : tx.by # number
  BY DEF InvokeInv, ChainInv
<1>3. ThisTx.by = number /\ ThisTx' = ThisTx /\ Askers' = Askers
  BY DEF ThisTx, Askers
<1>4. Sent' = Sent \cup {ThisTx}
  BY DEF Sent
<1>5. number \in Nat /\ number <= number
  BY DEF InvokeInv, ChainInv
<1>6. \A tx \in Sent' : tx.by \in Nat /\ tx.by <= number'
  BY <1>3, <1>4, <1>5 DEF InvokeInv, ChainInv
<1>7. \A tx \in Sent' : tx.by = number' =>
        /\ cmd' = "invoke" /\ pc' # "route"
        /\ pc' = "calls" => Left' = 1
        /\ tx = ThisTx' /\ endorsed' = Askers'
  BY <1>1, <1>2, <1>3, <1>4
<1>8. \A tx, ty \in inflight' : tx.by = ty.by => tx = ty
  <2>1. \A tx \in inflight : tx.by # ThisTx.by
    BY <1>2, <1>3 DEF Sent
  <2> QED
    BY <2>1 DEF InvokeInv, ChainInv
<1>9. \A tx \in inflight', e \in ledger' : tx.by # e.tx.by
  <2>1. \A e \in ledger : e.tx.by # ThisTx.by
    BY <1>2, <1>3 DEF Sent
  <2> QED
    BY <2>1 DEF InvokeInv, ChainInv
<1>10. \A e, f \in ledger' : e.tx.by = f.tx.by => e = f
  BY DEF InvokeInv, ChainInv
<1> QED
  BY <1>5, <1>6, <1>7, <1>8, <1>9, <1>10 DEF ChainInv

\* The chain is as it was.
LEMMA ChainInvKeeps ==
  ASSUME InvokeInv, UNCHANGED <<cmd, number, asked, inflight, ledger>>,
         pc' # "route", pc' = "calls" => Left' = 1,
         UNCHANGED endorsed
  PROVE  ChainInv'
<1>1. Sent' = Sent /\ ThisTx' = ThisTx /\ Askers' = Askers
  BY DEF Sent, ThisTx, Askers
<1> QED
  BY <1>1 DEF InvokeInv, ChainInv

\* Before a command sends its transaction, nothing of it is on the chain.
LEMMA ChainInvBefore ==
  ASSUME InvokeInv, UNCHANGED <<cmd, number, inflight, ledger>>,
         pc = "route" \/ (pc = "calls" /\ Left # 1)
  PROVE  ChainInv'
<1>1. Sent' = Sent
  BY DEF Sent
<1>2. \A tx \in Sent : tx.by # number
  BY DEF InvokeInv, ChainInv
<1> QED
  BY <1>1, <1>2 DEF InvokeInv, ChainInv

\* A call of invoke that succeeds,
LEMMA InvokeInvCall ==
  ASSUME InvokeInv, cmd = "invoke", NEW n \in Nodes, Call(n)
  PROVE  InvokeInv'
<1>1. /\ pc = "calls" /\ n = left[1] /\ Effect(n) /\ left' = Tail(left) /\ attempt' = 1
      /\ pc' = (IF left' = <<>> THEN "close" ELSE "calls")
      /\ UNCHANGED <<cmd, number, asked, errs>> /\ Asked' = Asked
  <2>1. /\ pc = "calls" /\ n = left[1] /\ Effect(n) /\ attempt' = 1
        /\ UNCHANGED <<cmd, number, asked, errs>>
    BY DEF Call, Calls, CallFrame, command
  <2>2. IF Tail(left) = <<>> THEN left' = <<>> /\ pc' = "close"
                             ELSE left' = Tail(left) /\ pc' = pc
    BY DEF Call, NextName
  <2> QED
    BY <2>1, <2>2 DEF Asked
<1>2. Collecting /\ asked \in Seq(OrgIndices) /\ asked # <<>> /\ Asked \in Nat
  BY <1>1, LenProperties DEF InvokeInv, InvokeControl, Asked
<1>3. /\ left \in Seq(Nat) /\ Left \in Nat
      /\ Left >= 1 /\ Left <= Asked + 2
      /\ left' \in Seq(Nat) /\ Left' \in Nat /\ Left' = Left - 1
      /\ \A i \in 1..Left' : left'[i] = left[i + 1]
  <2>1. left \in Seq(Nat) /\ Left >= 1 /\ Left <= Asked + 2 /\ Left \in Nat
    BY <1>2, LenProperties DEF Collecting, Left
  <2>2. left # <<>>
    BY <2>1, EmptySeq DEF Left
  <2>3. /\ left' \in Seq(Nat) /\ Left' = Left - 1
        /\ \A i \in 1..Left' : left'[i] = left[i + 1]
    BY <1>1, <2>1, <2>2, HeadTailProperties DEF Left
  <2> QED
    BY <2>1, <2>3
<1>a. left' = <<>> <=> Left' = 0
  BY <1>3, EmptySeq DEF Left
<1>4. CASE Left > 2
  <2>1. endorsed' = endorsed \cup {n} /\ UNCHANGED <<inflight, ledger>>
    <3>1. Left > 2 /\ Left # 2 /\ Left # 1
      BY <1>3, <1>4
    <3> QED
      BY <1>1, <3>1 DEF Effect, Left
  <2>2. left' # <<>> /\ pc' = "calls"
    <3>1. Left' # 0
      BY <1>3, <1>4
    <3> QED
      BY <1>a, <1>1, <3>1
  <2> DEFINE k == Asked + 3 - Left
  <2>3. k \in 1..Asked /\ n = asked[k]
    BY <1>1, <1>2, <1>3, <1>4 DEF Collecting
  <2>4. endorsed = {asked[i] : i \in 1..(k - 1)}
    <3>1. Done = k - 1
      BY <1>2, <1>3, <1>4 DEF Done
    <3> QED
      BY <1>2, <3>1 DEF Collecting
  <2>5. Done' = k
    BY <1>1, <1>2, <1>3, <1>4 DEF Done
  <2>6. endorsed' = {asked[i] : i \in 1..k}
    <3>1. 1..k = 1..(k - 1) \cup {k}
      BY <2>3
    <3> HIDE DEF k
    <3> QED
      BY <2>1, <2>3, <2>4, <3>1
  <2>7. \A i \in 1..(Left' - 2) : left'[i] = asked[i + (Asked + 2 - Left')]
    <3> SUFFICES ASSUME NEW i \in 1..(Left' - 2)
                 PROVE  left'[i] = asked[i + (Asked + 2 - Left')]
      OBVIOUS
    <3>1. i + 1 \in 1..(Left - 2) /\ i \in 1..Left'
      BY <1>3
    <3>4. left'[i] = left[i + 1]
      BY <1>3, <3>1
    <3>2. left[i + 1] = asked[i + 1 + (Asked + 2 - Left)]
      BY <1>2, <3>1 DEF Collecting
    <3>3. i + 1 + (Asked + 2 - Left) = i + (Asked + 2 - Left')
      BY <1>2, <1>3
    <3> QED
      BY <3>2, <3>3, <3>4
  <2>8. Collecting'
    <3>1. endorsed' = {asked'[i] : i \in 1..Done'}
      BY <1>1, <2>5, <2>6
    <3>2. Left' >= 1 /\ Left' <= Asked' + 2
      BY <1>1, <1>2, <1>3, <1>4
    <3> QED
      BY <1>1, <1>3, <2>7, <3>1, <3>2 DEF Collecting
  <2>9. ChainInv'
    BY <1>1, <1>4, <2>1, ChainInvBefore
  <2>10. InvokeControl' /\ SuccessInv'
    BY <1>1, <1>2, <2>2, <2>8 DEF InvokeControl, SuccessInv
  <2> QED
    BY <2>9, <2>10 DEF InvokeInv
<1>5. CASE Left = 2
  <2>1. inflight' = inflight \cup {ThisTx} /\ UNCHANGED <<endorsed, ledger>>
    <3>1. Left = 2 /\ ~(Left > 2)
      BY <1>3, <1>5
    <3> QED
      BY <1>1, <3>1 DEF Effect, Left
  <2>2. left' # <<>> /\ pc' = "calls" /\ Left' = 1
    BY <1>a, <1>1, <1>3, <1>5
  <2>3. Done = Asked /\ Done' = Asked
    BY <1>1, <1>2, <1>5, <2>2 DEF Done
  <2>4. Collecting'
    <3>1. endorsed' = {asked'[i] : i \in 1..Done'}
      BY <1>1, <1>2, <2>1, <2>3 DEF Collecting
    <3>2. Left' >= 1 /\ Left' <= Asked' + 2 /\ 1..(Left' - 2) = {}
      BY <1>1, <1>2, <2>2
    <3> QED
      BY <1>3, <3>1, <3>2 DEF Collecting
  <2>5. ChainInv'
    BY <1>1, <1>5, <2>1, <2>2, ChainInvSend
  <2>6. InvokeControl' /\ SuccessInv'
    BY <1>1, <1>2, <2>2, <2>4 DEF InvokeControl, SuccessInv
  <2> QED
    BY <2>5, <2>6 DEF InvokeInv
<1>6. CASE Left = 1
  <2>1. UNCHANGED chain /\ [tx |-> ThisTx, valid |-> TRUE] \in ledger
    <3>1. Left = 1 /\ Left # 2 /\ ~(Left > 2)
      BY <1>3, <1>6
    <3> QED
      BY <1>1, <3>1 DEF Effect, Left
  <2>2. left' = <<>> /\ pc' = "close"
    BY <1>a, <1>1, <1>3, <1>6
  <2>3. endorsed = Askers
    BY <1>2, <1>6, AllEndorsed
  <2>4. Committed'
    BY <1>1, <2>1, <2>3 DEF Committed, ThisTx, Askers, chain
  <2>5. ChainInv'
    BY <1>1, <2>1, <2>2, ChainInvKeeps DEF chain
  <2>6. InvokeControl' /\ SuccessInv'
    BY <1>1, <1>2, <2>2, <2>4 DEF InvokeControl, SuccessInv
  <2> QED
    BY <2>5, <2>6 DEF InvokeInv
<1> QED
  BY <1>3, <1>4, <1>5, <1>6

\* and one that does not: invoke does not try again.
LEMMA InvokeInvNoCall ==
  ASSUME InvokeInv, cmd = "invoke", pc = "calls", TryAgain,
         UNCHANGED <<cmd, number, asked>>,
         UNCHANGED chain \/ (/\ Left = 2 /\ inflight' = inflight \cup {ThisTx}
                             /\ UNCHANGED <<endorsed, ledger>>)
  PROVE  InvokeInv'
<1>1. attempt = 1 /\ asked \in Seq(OrgIndices) /\ asked # <<>>
  BY DEF InvokeInv, InvokeControl
<1>2. pc' = "close" /\ errs' = TRUE /\ attempt' = 1
  BY <1>1 DEF TryAgain, Attempts
<1>3. InvokeControl' /\ SuccessInv'
  BY <1>1, <1>2 DEF InvokeControl, SuccessInv
<1>4. CASE UNCHANGED chain
  BY <1>2, <1>3, <1>4, ChainInvKeeps DEF InvokeInv, chain
<1>5. CASE /\ Left = 2 /\ inflight' = inflight \cup {ThisTx}
           /\ UNCHANGED <<endorsed, ledger>>
  BY <1>2, <1>3, <1>5, ChainInvSend DEF InvokeInv
<1> QED
  BY <1>4, <1>5

\* Ordering moves a transaction to the ledger.
LEMMA InvokeInvOrder ==
  ASSUME InvokeInv, NEW tx \in inflight, Order(tx)
  PROVE  InvokeInv'
<1>1. /\ UNCHANGED <<cmd, number, asked, pc, left, attempt, errs, result, endorsed>>
      /\ inflight' = inflight \ {tx}
  BY DEF Order, command, steps
<1>2. PICK v \in BOOLEAN : ledger' = ledger \cup {[tx |-> tx, valid |-> v]}
  <2>1. SatisfiedBy(EndorsementPolicy(Network), tx.orgs) \in BOOLEAN
    BY DEF SatisfiedBy
  <2> QED
    BY <2>1 DEF Order
<1>a. Sent' = Sent
  <2> DEFINE entry == [tx |-> tx, valid |-> v]
  <2>a. entry.tx = tx /\ ledger' = ledger \cup {entry}
    BY <1>2
  <2>1. {e.tx : e \in ledger'} = {e.tx : e \in ledger} \cup {tx}
    <3> HIDE DEF entry
    <3> QED
      BY <2>a
  <2> QED
    BY <1>1, <2>1 DEF Sent
<1>3. /\ Sent' = Sent /\ ThisTx' = ThisTx /\ Askers' = Askers
      /\ Left' = Left /\ Asked' = Asked /\ Done' = Done
  BY <1>a, <1>1 DEF ThisTx, Askers, Done, Left, Asked
<1>4. InvokeControl'
  BY <1>1, <1>3 DEF InvokeInv, InvokeControl, InvokeCalls, Collecting
<1>5. SuccessInv'
  BY <1>1, <1>2, <1>3 DEF InvokeInv, SuccessInv, Committed
<1>6. \A ty \in inflight' : ty.by # tx.by
  BY <1>1 DEF InvokeInv, ChainInv
<1>7. \A e \in ledger : e.tx.by # tx.by
  BY DEF InvokeInv, ChainInv
<1>8. \A ty \in inflight', e \in ledger' : ty.by # e.tx.by
  BY <1>1, <1>2, <1>6 DEF InvokeInv, ChainInv
<1>9. \A e, f \in ledger' : e.tx.by = f.tx.by => e = f
  BY <1>2, <1>7 DEF InvokeInv, ChainInv
<1>10. \A ty, tz \in inflight' : ty.by = tz.by => ty = tz
  BY <1>1 DEF InvokeInv, ChainInv
<1>11. ChainInv'
  BY <1>1, <1>3, <1>8, <1>9, <1>10 DEF InvokeInv, ChainInv
<1> QED
  BY <1>4, <1>5, <1>11 DEF InvokeInv

\* The peers that invoke asks, by default or as its options say.
LEMMA PeersAsked ==
  ASSUME NEW peers \in {FirstPeers} \cup {<<i>> : i \in OrgIndices}
  PROVE  peers \in Seq(OrgIndices) /\ peers # <<>>
<1>1. Network.orgs \in Nat /\ Network.orgs >= 1 /\ OrgIndices = 1..Network.orgs
  BY NetworkAssumption DEF OrgIndices, Orgs, Shape, Accepted
<1>2. CASE peers = FirstPeers
  <2>1. peers = [i \in 1..Network.orgs |-> i]
    BY <1>1, <1>2 DEF FirstPeers
  <2>2. peers \in Seq(OrgIndices)
    BY <1>1, <2>1, SeqDef
  <2>3. 1 \in DOMAIN peers
    BY <1>1, <2>1
  <2>4. DOMAIN <<>> = {}
    OBVIOUS
  <2> QED
    BY <2>2, <2>3, <2>4
<1>3. CASE \E i \in OrgIndices : peers = <<i>>
  BY <1>3
<1> QED
  BY <1>2, <1>3

LEMMA InvokeInvStep ==
  ASSUME InvokeInv, [Next]_vars
  PROVE  InvokeInv'
<1>1. CASE StartUp \/ StartInstall \/ StartDown
  BY <1>1, InvokeInvBegin DEF StartUp, StartInstall, StartDown, Begin
<1>2. ASSUME NEW b, StartGeneratecc(b)
      PROVE  InvokeInv'
  BY <1>2, InvokeInvBegin DEF StartGeneratecc, Begin
<1>3. ASSUME NEW peers \in {FirstPeers} \cup {<<i>> : i \in OrgIndices},
             StartInvoke(peers)
      PROVE  InvokeInv'
  <2>1. /\ cmd' = "invoke" /\ pc' = "route" /\ left' = InvokeCalls(peers) /\ attempt' = 1
        /\ asked' = peers /\ endorsed' = {} /\ number' = number + 1
        /\ UNCHANGED <<inflight, ledger>>
    BY <1>3 DEF StartInvoke, Begin
  <2>2. ChainInv'
    BY <2>1, ChainInvBegin
  <2>3. InvokeControl'
    BY <2>1, PeersAsked DEF InvokeControl, InvokeCalls
  <2>4. SuccessInv'
    BY <2>1 DEF SuccessInv
  <2> QED
    BY <2>2, <2>3, <2>4 DEF InvokeInv
<1>4. CASE Compose \/ Package \/ PackageID \/ ComposeFile \/ Remove \/ Ledgers \/ Clean
             \/ CannotClean \/ NoPackage
  <2>1. cmd # "invoke"
    BY <1>4 DEF Compose, Package, PackageID, ComposeFile, Remove, Ledgers, Clean,
                CannotClean, NoPackage, InvokeInv, InvokeControl
  <2>2. UNCHANGED <<cmd, number, inflight, ledger>>
    BY <1>4 DEF Compose, Package, PackageID, ComposeFile, Remove, Ledgers, Clean,
                CannotClean, NoPackage, CallFrame, command, chain
  <2> QED
    BY <2>1, <2>2, InvokeInvOther
<1>5. CASE Open
  <2>1. /\ pc = "route" /\ pc' = "calls"
        /\ UNCHANGED <<cmd, number, asked, left, attempt, endorsed, inflight, ledger>>
    BY <1>5 DEF Open, Goes, command, chain
  <2>2. CASE cmd # "invoke"
    BY <2>1, <2>2, InvokeInvOther
  <2>3. CASE cmd = "invoke"
    <3>1. ChainInv'
      BY <2>1, ChainInvBefore
    <3>2. Collecting'
      BY <2>1, <2>3, CollectingStarts
    <3>3. InvokeControl' /\ SuccessInv'
      BY <2>1, <2>3, <3>2 DEF InvokeInv, InvokeControl, SuccessInv
    <3> QED
      BY <3>1, <3>3 DEF InvokeInv
  <2> QED
    BY <2>2, <2>3
<1>6. CASE NoNetwork \/ Fails \/ Kill
  BY <1>6, InvokeInvStops DEF NoNetwork, Fails, Kill, Ends, command
<1>7. ASSUME NEW n \in Nodes, Call(n)
      PROVE  InvokeInv'
  <2>1. CASE cmd # "invoke"
    <3>1. UNCHANGED chain
      BY <1>7, <2>1 DEF Call, Effect
    <3>2. UNCHANGED <<cmd, number>>
      BY <1>7 DEF Call, CallFrame, command
    <3> QED
      BY <2>1, <3>1, <3>2, InvokeInvOther DEF chain
  <2> QED
    BY <1>7, <2>1, InvokeInvCall
<1>8. ASSUME NEW n \in Nodes, NotDone(n) \/ CallFails(n) \/ NotValid
      PROVE  InvokeInv'
  <2>1. pc = "calls" /\ TryAgain /\ UNCHANGED <<cmd, number, asked>>
    BY <1>8 DEF NotDone, CallFails, Calls, NotValid, CallFrame, command
  <2>2. UNCHANGED chain \/ (/\ cmd = "invoke" /\ Len(left) = 2
                           /\ inflight' = inflight \cup {ThisTx}
                           /\ UNCHANGED <<endorsed, ledger>>)
    BY <1>8 DEF NotDone, CallFails, NotValid
  <2>3. CASE cmd # "invoke"
    BY <2>1, <2>2, <2>3, InvokeInvOther DEF chain
  <2>4. CASE cmd = "invoke"
    BY <2>1, <2>2, <2>4, InvokeInvNoCall DEF Left
  <2> QED
    BY <2>3, <2>4
<1>9. CASE Close \/ CloseRefused
  <2>1. /\ pc = "close" /\ pc' = "idle" /\ (result' = "ok" => ~errs)
        /\ UNCHANGED <<attempt, errs, cmd, number, asked, endorsed, inflight, ledger>>
    BY <1>9 DEF Close, CloseRefused, Ends, command, chain
  <2>2. ChainInv'
    BY <2>1, ChainInvKeeps
  <2>3. ThisTx' = ThisTx /\ Askers' = Askers
    BY <2>1 DEF ThisTx, Askers
  <2>4. InvokeControl'
    BY <2>1 DEF InvokeInv, InvokeControl
  <2>5. SuccessInv'
    BY <2>1, <2>3 DEF InvokeInv, SuccessInv, Committed
  <2> QED
    BY <2>2, <2>4, <2>5 DEF InvokeInv
<1>10. ASSUME NEW n \in Nodes, ContainerRestarts(n)
       PROVE  InvokeInv'
  BY <1>10, InvokeInvFrame DEF ContainerRestarts, command, steps
<1>11. ASSUME NEW i \in OrgIndices, PeerLaunches(i)
       PROVE  InvokeInv'
  BY <1>11, InvokeInvFrame DEF PeerLaunches, command, steps
<1>12. CASE UNCHANGED vars
  BY <1>12, InvokeInvFrame DEF vars, command, steps
<1>13. Orderer \in Nodes
  BY NetworkAssumption DEF Orderer, Nodes, Shape
<1> QED
  BY <1>1, <1>2, <1>3, <1>4, <1>5, <1>6, <1>7, <1>8, <1>9, <1>10, <1>11, <1>12, <1>13,
     InvokeInvOrder DEF Next, Step, Faults

\* An invoke that reports success has a valid transaction on the ledger that every peer
\* it asked endorsed; no command sends a second transaction, and none before the last
\* peer endorsed it, whichever call fails, is late, or arrives though it failed (Invoke).
THEOREM SuccessIsOnTheLedger == Spec => []InvokeIsCommitted
<1>1. ASSUME InvokeInv
      PROVE  InvokeIsCommitted
  <2>1. (pc = "idle" /\ cmd = "invoke" /\ result = "ok") =>
          \E e \in ledger : e.valid /\ e.tx.by = number /\ e.tx.orgs = Askers
    BY <1>1 DEF InvokeInv, SuccessInv, Committed, ThisTx
  <2>2. \A e, f \in ledger : e.tx.by = f.tx.by => e = f
    BY <1>1 DEF InvokeInv, ChainInv
  <2>3. \A tx \in Sent : tx.by = number => tx.orgs = Askers
    BY <1>1 DEF InvokeInv, ChainInv, ThisTx
  <2> QED
    BY <2>1, <2>2, <2>3 DEF InvokeIsCommitted, Askers, Sent
<1>2. InvokeInv /\ [Next]_vars => InvokeInv'
  BY InvokeInvStep
<1>3. InvokeInv => InvokeIsCommitted
  BY <1>1
<1> QED
  BY InvokeInvInit, <1>2, <1>3, PTL DEF Spec

-----------------------------------------------------------------------------
(* What generatecc writes and what a later up runs.                         *)

Writing == {"package", "id", "file"}
Packed(s) == pkg[s] \in Builds /\ id[s] = pkg[s]

\* The packages that generatecc has made so far are of its build, with their IDs.
WritingInv ==
  /\ cmd = "generatecc" /\ ~matched /\ build \in Builds
  /\ left \in Seq(Names) /\ (pc = "file") = (left = <<>>)
  /\ pc = "id" => pkg[Head(left)] = build
  /\ \A s \in Names : (\A i \in 1..Len(left) : left[i] # s) => pkg[s] = build /\ id[s] = build

\* After generatecc, the packages, their IDs and the services of the file agree.
MatchInv ==
  /\ ccaas \in [Names -> Builds]
  /\ \A s \in Names : Packed(s) /\ ccaas[s] = pkg[s]

\* up has started the services.
Serving == cmd = "up" /\ (pc \in {"route", "calls", "close"} \/ (pc = "idle" /\ result = "ok"))

PackageInv ==
  /\ pkg \in [Names -> Builds \cup {None, Torn}] /\ id \in [Names -> Builds \cup {None, Torn}]
  /\ pc \in Writing => WritingInv
  /\ matched => MatchInv
  /\ matched /\ Serving => \A s \in Names : services[s] = pkg[s]
  /\ pc \in DownSteps => cmd = "down"

\* What PackageInv speaks of.
packaging == <<pkg, id, ccaas, services, cmd, pc, result, build, left, matched>>

LEMMA PackageInvFrame ==
  ASSUME PackageInv, UNCHANGED packaging
  PROVE  PackageInv'
<1>1. /\ pkg' = pkg /\ id' = id /\ ccaas' = ccaas /\ services' = services /\ cmd' = cmd
      /\ pc' = pc /\ result' = result /\ build' = build /\ left' = left /\ matched' = matched
  BY DEF packaging
<1> QED BY <1>1 DEF PackageInv, WritingInv, MatchInv, Packed, Serving

\* A step outside generatecc and up's compose keeps the files, the services of a
\* command that has not started them do not matter,
LEMMA PackageInvMoves ==
  ASSUME PackageInv, UNCHANGED <<pkg, id, ccaas, matched>>, pc' \notin Writing,
         Serving' => Serving /\ services' = services,
         pc' \in DownSteps => cmd' = "down"
  PROVE  PackageInv'
<1>1. MatchInv => MatchInv'
  BY DEF MatchInv, Packed
<1>2. /\ pkg' = pkg /\ id' = id /\ matched' = matched
  OBVIOUS
<1> QED BY <1>1, <1>2 DEF PackageInv

\* and a generatecc that was interrupted leaves no promise.
LEMMA PackageInvStops ==
  ASSUME PackageInv, ~matched', pc' \notin Writing \cup DownSteps,
         pkg' \in [Names -> Builds \cup {None, Torn}], id' \in [Names -> Builds \cup {None, Torn}]
  PROVE  PackageInv'
BY DEF PackageInv

LEMMA PackageInvInit == Init => PackageInv
BY DEF Init, ContainersInit, PackageInv, Writing, DownSteps

\* generatecc starts with all its packages left.
LEMMA AllLeft == [s \in Names |-> s] \in Seq(Names) /\ [s \in Names |-> s] # <<>>
<1>1. PICK k \in Nat : k # 0 /\ Names = 1..k
  BY NamesAssumption
<1>2. [s \in Names |-> s] \in [1..k -> Names]
  BY <1>1
<1>3. [s \in Names |-> s] \in Seq(Names)
  BY <1>1, <1>2
<1>4. 1 \in DOMAIN [s \in Names |-> s]
  BY <1>1
<1> QED BY <1>3, <1>4

LEMMA WritingStarts ==
  ASSUME NEW b \in Builds, StartGeneratecc(b)
  PROVE  WritingInv'
<1>1. /\ cmd' = "generatecc" /\ ~matched' /\ build' = b /\ pc' = "package"
      /\ left' = [s \in Names |-> s]
  BY DEF StartGeneratecc, Begin
<1>2. PICK k \in Nat : k # 0 /\ Names = 1..k
  BY NamesAssumption
<1>3. left' \in Seq(Names) /\ left' # <<>>
  BY <1>1, AllLeft
<1>4. DOMAIN left' = 1..Len(left')
  BY <1>3, LenProperties
<1>5. \A s \in Names : s \in 1..Len(left') /\ left'[s] = s
  BY <1>1, <1>4
<1> QED
  BY <1>1, <1>3, <1>5 DEF WritingInv

\* The package that generatecc makes is the first of those that are left.
LEMMA FirstLeft ==
  ASSUME WritingInv, pc # "file"
  PROVE  /\ left \in Seq(Names) /\ left # <<>>
         /\ Head(left) \in Names /\ Head(left) = left[1]
         /\ Tail(left) \in Seq(Names) /\ Len(left) \in Nat /\ Len(left) >= 1
         /\ Len(Tail(left)) = Len(left) - 1
         /\ \A i \in 1..Len(Tail(left)) : Tail(left)[i] = left[i + 1]
<1>1. left \in Seq(Names) /\ left # <<>>
  BY DEF WritingInv
<1> QED
  BY <1>1, HeadTailProperties, LenProperties, EmptySeq

LEMMA WritingPackage ==
  ASSUME WritingInv, Package, pkg \in [Names -> Builds \cup {None, Torn}]
  PROVE  WritingInv' /\ pkg' \in [Names -> Builds \cup {None, Torn}]
<1>1. /\ pc = "package" /\ pc' = "id" /\ pkg' = [pkg EXCEPT ![Head(left)] = build]
      /\ UNCHANGED <<id, cmd, left, build, matched>>
  BY DEF Package, WritePackage, Goes, command, history
<1>2. Head(left) \in Names /\ left # <<>> /\ left \in Seq(Names) /\ build \in Builds
  BY <1>1, FirstLeft DEF WritingInv
<1>3. pkg'[Head(left')] = build'
  BY <1>1, <1>2
<1>4. \A s \in Names : pkg[s] = build => pkg'[s] = build
  BY <1>1
<1> QED
  BY <1>1, <1>2, <1>3, <1>4 DEF WritingInv

LEMMA WritingID ==
  ASSUME WritingInv, PackageID, id \in [Names -> Builds \cup {None, Torn}]
  PROVE  WritingInv' /\ id' \in [Names -> Builds \cup {None, Torn}]
<1>1. /\ pc = "id" /\ id' = [id EXCEPT ![Head(left)] = build] /\ left' = Tail(left)
      /\ pc' = (IF left' = <<>> THEN "file" ELSE "package")
      /\ UNCHANGED <<pkg, cmd, build, matched>>
  BY DEF PackageID, WriteID, command, history
<1>2. /\ left \in Seq(Names) /\ Head(left) \in Names /\ Head(left) = left[1]
      /\ left' \in Seq(Names) /\ Len(left) \in Nat /\ Len(left) >= 1
      /\ Len(left') = Len(left) - 1
      /\ \A i \in 1..Len(left') : left'[i] = left[i + 1]
  BY <1>1, FirstLeft
<1>3. build \in Builds /\ pkg[Head(left)] = build
  BY <1>1 DEF WritingInv
<1>4. ASSUME NEW s \in Names, \A i \in 1..Len(left') : left'[i] # s
      PROVE  pkg[s] = build /\ id'[s] = build
  <2>1. CASE s = Head(left)
    BY <1>1, <1>2, <1>3, <2>1
  <2>2. CASE s # Head(left)
    <3>1. ASSUME NEW i \in 1..Len(left)
          PROVE  left[i] # s
      <4>1. CASE i = 1
        BY <1>2, <2>2, <4>1
      <4>2. CASE i # 1
        <5>1. i - 1 \in 1..Len(left') /\ (i - 1) + 1 = i
          BY <1>2, <4>2
        <5>2. left'[i - 1] = left[(i - 1) + 1]
          BY <1>2, <5>1
        <5> QED
          BY <1>4, <5>1, <5>2
      <4> QED
        BY <4>1, <4>2
    <3>2. pkg[s] = build /\ id[s] = build
      BY <3>1 DEF WritingInv
    <3> QED
      BY <1>1, <2>2, <3>2
  <2> QED
    BY <2>1, <2>2
<1>5. id' \in [Names -> Builds \cup {None, Torn}]
  BY <1>1, <1>3
<1>6. (pc' = "file") = (left' = <<>>) /\ pc' # "id"
  BY <1>1
<1> QED
  BY <1>1, <1>2, <1>3, <1>4, <1>5, <1>6 DEF WritingInv

LEMMA PackageInvStep ==
  ASSUME PackageInv, [Next]_vars
  PROVE  PackageInv'
<1>1. CASE StartUp \/ StartInstall \/ StartDown
  <2>1. /\ UNCHANGED <<pkg, id, ccaas, matched>> /\ pc' \in {"compose", "route", "remove"}
        /\ pc' = "route" => cmd' = "install"
        /\ pc' = "remove" => cmd' = "down"
    BY <1>1 DEF StartUp, StartInstall, StartDown, Begin, PlainCommand, files
  <2> QED
    BY <2>1, PackageInvMoves DEF Serving, Writing, DownSteps
<1>2. ASSUME NEW peers, StartInvoke(peers)
      PROVE  PackageInv'
  <2>1. UNCHANGED <<pkg, id, ccaas, matched>> /\ pc' = "route" /\ cmd' = "invoke"
    BY <1>2 DEF StartInvoke, Begin, files
  <2> QED
    BY <2>1, PackageInvMoves DEF Serving, Writing, DownSteps
<1>3. ASSUME NEW b \in Builds, StartGeneratecc(b)
      PROVE  PackageInv'
  <2>1. ~matched' /\ pc' = "package" /\ UNCHANGED <<pkg, id>>
    BY <1>3 DEF StartGeneratecc, Begin, files
  <2> QED
    BY <1>3, <2>1, WritingStarts DEF PackageInv, DownSteps
<1>4. CASE Compose
  <2>1. /\ UNCHANGED <<pkg, id, ccaas, cmd, matched>> /\ pc' = "route"
        /\ services' = [s \in Names |-> IF s \in Names /\ ServicesOf[s] # None
                                        THEN ServicesOf[s] ELSE services[s]]
    BY <1>4 DEF Compose, ComposeUp, Goes, files, command, history
  <2>2. ASSUME matched
        PROVE  MatchInv' /\ \A s \in Names : services'[s] = pkg'[s]
    <3>1. MatchInv
      BY <2>2 DEF PackageInv
    <3>2. ServicesOf = ccaas
      BY <3>1, NamesAssumption DEF MatchInv, ServicesOf
    <3>3. \A s \in Names : ServicesOf[s] # None /\ ServicesOf[s] = pkg[s]
      BY <3>1, <3>2, NamesAssumption DEF MatchInv
    <3>4. MatchInv'
      BY <2>1, <3>1 DEF MatchInv, Packed
    <3> QED
      BY <2>1, <3>3, <3>4
  <2> QED
    BY <2>1, <2>2 DEF PackageInv, Writing, DownSteps
<1>5. CASE Open \/ Close \/ CloseRefused
  <2>1. /\ UNCHANGED <<pkg, id, ccaas, services, cmd, matched>>
        /\ pc \in {"route", "close"} /\ pc' \in {"calls", "idle"}
    BY <1>5 DEF Open, Close, CloseRefused, Fault, Goes, Ends, files, docker, command, history
  <2> QED
    BY <2>1, PackageInvMoves DEF Serving, Writing, DownSteps
<1>6. CASE NoNetwork
  <2>1. UNCHANGED <<pkg, id, ccaas, matched>> /\ pc' = "idle" /\ result' = "failed"
    BY <1>6 DEF NoNetwork, Ends, files, history
  <2> QED
    BY <2>1, PackageInvMoves DEF Serving, Writing, DownSteps
<1>7. ASSUME NEW n \in Nodes,
             Call(n) \/ NotDone(n) \/ CallFails(n) \/ NotValid \/ NoPackage
      PROVE  PackageInv'
  <2>1. UNCHANGED <<pkg, id, ccaas, services, cmd>> /\ pc = "calls" /\ pc' \in {"calls", "close"}
    BY <1>7 DEF Call, NotDone, CallFails, Calls, NotValid, NoPackage, TryAgain, CallFrame, files,
                docker, command
  <2>2. UNCHANGED matched
    BY <1>7 DEF Call, NotDone, CallFails, NotValid, NoPackage, Fault, history
  <2> QED
    BY <2>1, <2>2, PackageInvMoves DEF Serving, Writing, DownSteps
<1>8. CASE Package
  <2>1. WritingInv /\ pkg \in [Names -> Builds \cup {None, Torn}]
    BY <1>8 DEF Package, PackageInv, Writing
  <2>2. WritingInv' /\ pkg' \in [Names -> Builds \cup {None, Torn}]
    BY <1>8, <2>1, WritingPackage
  <2>3. pc' = "id" /\ id' = id
    BY <1>8 DEF Package, WritePackage, Goes
  <2> QED
    BY <2>2, <2>3 DEF PackageInv, WritingInv, DownSteps
<1>9. CASE PackageID
  <2>1. WritingInv /\ id \in [Names -> Builds \cup {None, Torn}]
    BY <1>9 DEF PackageID, PackageInv, Writing
  <2>2. WritingInv' /\ id' \in [Names -> Builds \cup {None, Torn}]
    BY <1>9, <2>1, WritingID
  <2>3. pc' \in {"file", "package"} /\ pkg' = pkg
    BY <1>9 DEF PackageID, WriteID
  <2> QED
    BY <2>2, <2>3 DEF PackageInv, WritingInv, DownSteps
<1>10. CASE ComposeFile
  <2>1. /\ pc = "file" /\ pc' = "idle" /\ ccaas' = [s \in Names |-> build]
        /\ UNCHANGED <<pkg, id, cmd>>
    BY <1>10 DEF ComposeFile, WriteCompose, Ends, command
  <2>2. WritingInv
    BY <2>1 DEF PackageInv, Writing
  <2>3. cmd' = "generatecc" /\ build \in Builds /\ left = <<>>
    BY <2>1, <2>2 DEF WritingInv
  <2>4. \A s \in Names : pkg[s] = build /\ id[s] = build
    <3>1. 1..Len(left) = {}
      BY <2>3
    <3> QED
      BY <2>2, <3>1 DEF WritingInv
  <2>5. MatchInv'
    BY <2>1, <2>3, <2>4 DEF MatchInv, Packed
  <2> QED
    BY <2>1, <2>3, <2>5 DEF PackageInv, Serving, Writing, DownSteps
<1>11. CASE Remove \/ Ledgers \/ Clean \/ CannotClean
  <2>1. pc \in DownSteps /\ UNCHANGED <<pkg, id, ccaas, cmd>> /\ pc' \in DownSteps \cup {"idle"}
    BY <1>11 DEF Remove, Ledgers, RemoveLedgers, Clean, CannotClean, NextKind, Ends, Goes,
                 DownSteps, files, command
  <2>2. UNCHANGED matched
    BY <1>11 DEF Remove, Ledgers, Clean, CannotClean, Fault, history
  <2>3. cmd' = "down"
    BY <2>1 DEF PackageInv
  <2> QED
    BY <2>1, <2>2, <2>3, PackageInvMoves DEF Serving, Writing, DownSteps
<1>12. CASE Fails \/ Kill
  <2>1. pc' = "idle" /\ result' \in {"failed", "killed"} /\ UNCHANGED matched /\ Interrupted
    BY <1>12 DEF Fails, Kill, Ends, Fault
  <2>2. CASE pc \in Writing
    <3>1. /\ pkg' = pkg \/ pkg' = [pkg EXCEPT ![Head(left)] = Torn]
          /\ id' = id \/ id' = [id EXCEPT ![Head(left)] = Torn]
      BY <2>1, <2>2 DEF Interrupted, Writing, files
    <3>2. ~matched'
      BY <2>1, <2>2 DEF PackageInv, WritingInv
    <3> QED
      BY <2>1, <3>1, <3>2, PackageInvStops DEF PackageInv, Writing, DownSteps
  <2>3. CASE pc \notin Writing
    <3>1. UNCHANGED <<pkg, id, ccaas>>
      BY <2>1, <2>3 DEF Interrupted, Writing, files, RemoveLedgers
    <3> QED
      BY <2>1, <3>1, PackageInvMoves DEF Serving, Writing, DownSteps
  <2> QED
    BY <2>2, <2>3
<1>13. ASSUME NEW n \in Nodes, ContainerRestarts(n)
       PROVE  PackageInv'
  BY <1>13, PackageInvFrame DEF ContainerRestarts, Restart, Fault, packaging, files, command, steps
<1>14. ASSUME NEW i \in OrgIndices, PeerLaunches(i)
       PROVE  PackageInv'
  BY <1>14, PackageInvFrame DEF PeerLaunches, Launch, packaging, files, command, steps
<1>15. ASSUME NEW tx \in inflight, Order(tx)
       PROVE  PackageInv'
  BY <1>15, PackageInvFrame DEF Order, Fault, packaging, docker, files, command, steps, history
<1>16. CASE UNCHANGED vars
  BY <1>16, PackageInvFrame DEF vars, packaging, docker, files, command, steps, history
<1>17. Orderer \in Nodes
  BY NetworkAssumption DEF Orderer, Nodes, Shape
<1> QED
  BY <1>1, <1>2, <1>3, <1>4, <1>5, <1>6, <1>7, <1>8, <1>9, <1>10, <1>11, <1>12, <1>13,
     <1>14, <1>15, <1>16, <1>17 DEF Next, Step, Faults

\* After a generatecc that succeeded and an up that did, each CCaaS service runs the
\* package that install sends to the peers, and the .id file holds that package's ID,
\* whatever failed or was killed before, between and after the two (generatecc, Write,
\* Up).
THEOREM ServicesMatchPackages == Spec => []ServicesRunPackages
<1>1. PackageInv => ServicesRunPackages
  BY DEF PackageInv, MatchInv, Packed, Serving, ServicesRunPackages
<1>2. PackageInv /\ [Next]_vars => PackageInv'
  BY PackageInvStep
<1> QED
  BY PackageInvInit, <1>1, <1>2, PTL DEF Spec

-----------------------------------------------------------------------------
(* Types.  They need to know which command is at which step, and that a     *)
(* step of the calls has a call left.                                       *)

Routed == {"route", "calls", "close"}

CommandTypes ==
  /\ cmd \in {"none", "up", "install", "invoke", "generatecc", "down"}
  /\ pc \in {"idle", "compose", "route", "calls", "close", "package", "id", "file",
             "remove", "ledgers", "container", "image"}
  /\ left \in Seq(Nat) /\ attempt \in 1..Retries /\ name \in Names /\ errs \in BOOLEAN
  /\ result \in {"none", "running", "ok", "failed", "killed"}
  /\ (result = "running") <=> (pc # "idle")

StepInv ==
  /\ pc \in Routed => cmd \in {"up", "install", "invoke"}
  /\ pc = "compose" => cmd = "up" /\ CanLoad
  /\ pc \in {"compose", "route", "calls"} => left \in Seq(Nodes) /\ left # <<>>

ControlInv == CommandTypes /\ StepInv

\* What ControlInv speaks of.
control == <<cmd, pc, left, attempt, name, errs, result, ccaas>>

LEMMA ControlFrame ==
  ASSUME ControlInv, UNCHANGED control
  PROVE  ControlInv'
<1>1. /\ cmd' = cmd /\ pc' = pc /\ left' = left /\ attempt' = attempt /\ name' = name
      /\ errs' = errs
      /\ result' = result /\ ccaas' = ccaas
  BY DEF control
<1> QED
  BY <1>1 DEF ControlInv, CommandTypes, StepInv, CanLoad

\* The start of a command,
LEMMA ControlBegins ==
  ASSUME NEW c \in {"up", "install", "invoke", "generatecc", "down"},
         NEW step \in {"compose", "route", "package", "remove"},
         NEW list \in Seq(Nat), NEW loads \in BOOLEAN, Begin(c, step, list, loads),
         step \in {"compose", "route"} => list \in Seq(Nodes) /\ list # <<>> /\ loads,
         step = "compose" => c = "up",
         step = "route" => c \in {"install", "invoke"}
  PROVE  ControlInv'
<1>1. /\ cmd' = c /\ pc' = step /\ left' = list /\ attempt' = 1 /\ name' = 1 /\ errs' = FALSE
      /\ result' = "running" /\ ccaas' = ccaas
      /\ loads => CanLoad
  BY DEF Begin, files
<1>2. 1 \in 1..Retries /\ 1 \in Names
  BY SessionAssumption, NamesAssumption
<1>3. CommandTypes'
  BY <1>1, <1>2 DEF CommandTypes
<1>4. StepInv'
  BY <1>1 DEF StepInv, Routed, CanLoad
<1> QED
  BY <1>3, <1>4 DEF ControlInv

\* its end,
LEMMA ControlEnds ==
  ASSUME ControlInv, NEW r \in {"ok", "failed", "killed"}, Ends(r), cmd' = cmd
  PROVE  ControlInv'
<1>1. /\ pc' = "idle" /\ result' = r /\ left' = <<>> /\ attempt' = attempt
      /\ name' = name /\ errs' = errs
  BY DEF Ends
<1>2. CommandTypes'
  BY <1>1 DEF ControlInv, CommandTypes
<1>3. StepInv'
  BY <1>1 DEF StepInv, Routed
<1> QED
  BY <1>2, <1>3 DEF ControlInv

\* and its next step.
LEMMA ControlGoes ==
  ASSUME ControlInv, pc # "idle",
         NEW step \in {"route", "calls", "ledgers", "container"}, Goes(step), cmd' = cmd,
         step \in Routed => pc \in {"compose", "route"}
  PROVE  ControlInv'
<1>1. pc' = step /\ UNCHANGED <<cmd, left, attempt, name, errs, result>>
  BY DEF Goes
<1>2. CommandTypes'
  BY <1>1 DEF ControlInv, CommandTypes
<1>3. StepInv'
  BY <1>1 DEF ControlInv, StepInv, Routed
<1> QED
  BY <1>2, <1>3 DEF ControlInv

LEMMA ListsGrow ==
  ASSUME NEW S, NEW T, S \subseteq T, NEW s \in Seq(S)
  PROVE  s \in Seq(T)
<1>1. s \in [1..Len(s) -> S] /\ Len(s) \in Nat
  BY LenProperties
<1>2. s \in [1..Len(s) -> T]
  BY <1>1
<1> QED
  BY <1>1, <1>2, SeqDef

\* The nodes that a command calls, and the packages that generatecc makes.
LEMMA NodesAreNat == Nodes \subseteq Nat /\ OrgIndices \subseteq Nodes /\ Orderer \in Nodes
BY NetworkAssumption DEF Nodes, OrgIndices, Orgs, Orderer, Shape

LEMMA ListTypes ==
  /\ AllNodes \in Seq(Nodes) /\ AllNodes \in Seq(Nat) /\ AllNodes # <<>>
  /\ FirstPeers \in Seq(Nodes) /\ FirstPeers \in Seq(Nat) /\ FirstPeers # <<>>
  /\ [s \in Names |-> s] \in Seq(Nat)
<1>1. Network.orgs \in Nat /\ Network.orgs >= 1
  BY NetworkAssumption DEF Shape, Accepted
<1>2. AllNodes \in Seq(Nodes)
  <2>1. \A i \in 1..Network.orgs + 1 : i - 1 \in Nodes
    BY <1>1 DEF Nodes
  <2>2. AllNodes \in [1..Network.orgs + 1 -> Nodes]
    BY <2>1 DEF AllNodes
  <2> QED
    BY <1>1, <2>2, SeqDef
<1>3. 1 \in DOMAIN AllNodes
  BY <1>1 DEF AllNodes
<1>4. DOMAIN <<>> = {}
  OBVIOUS
<1>5. FirstPeers \in Seq(OrgIndices) /\ FirstPeers # <<>>
  BY PeersAsked
<1>6. FirstPeers \in Seq(Nodes)
  BY <1>5, NodesAreNat, ListsGrow
<1>7. [s \in Names |-> s] \in Seq(Nat)
  <2>1. Names \subseteq Nat
    BY NamesAssumption
  <2> QED
    BY <2>1, AllLeft, ListsGrow
<1>8. AllNodes \in Seq(Nat) /\ FirstPeers \in Seq(Nat)
  BY <1>2, <1>6, NodesAreNat, ListsGrow
<1> QED
  BY <1>2, <1>3, <1>4, <1>5, <1>6, <1>7, <1>8

LEMMA InvokeCallsType ==
  ASSUME NEW peers \in {FirstPeers} \cup {<<i>> : i \in OrgIndices}
  PROVE  /\ InvokeCalls(peers) \in Seq(Nodes) /\ InvokeCalls(peers) \in Seq(Nat)
         /\ InvokeCalls(peers) # <<>>
<1>1. peers \in Seq(OrgIndices) /\ peers # <<>>
  BY PeersAsked
<1>2. peers \in Seq(Nodes) /\ Len(peers) \in Nat
  BY <1>1, NodesAreNat, ListsGrow, LenProperties
<1>3. peers[1] \in Nodes
  BY <1>1, <1>2, EmptySeq, ElementOfSeq
<1>4. <<Orderer, peers[1]>> \in Seq(Nodes) /\ Len(<<Orderer, peers[1]>>) = 2
  BY <1>3, NodesAreNat
<1>5. /\ peers \o <<Orderer, peers[1]>> \in Seq(Nodes)
      /\ Len(peers \o <<Orderer, peers[1]>>) = Len(peers) + 2
  BY <1>2, <1>4, ConcatProperties
<1>6. Len(<<>>) = 0
  OBVIOUS
<1>7. InvokeCalls(peers) \in Seq(Nat)
  BY <1>5, NodesAreNat, ListsGrow DEF InvokeCalls
<1> QED
  BY <1>2, <1>5, <1>6, <1>7 DEF InvokeCalls

\* A call that succeeds, and one that does not.
LEMMA ControlCall ==
  ASSUME ControlInv, NEW n \in Nodes, Call(n)
  PROVE  ControlInv'
<1>1. /\ pc = "calls" /\ attempt' = 1 /\ UNCHANGED <<cmd, errs, result>>
      /\ left' \in {FirstPeers, <<>>, Tail(left)} /\ pc' \in {"calls", "close"}
      /\ pc' = "calls" => left' # <<>>
  BY ListTypes DEF Call, Calls, CallFrame, command
<1>2. left \in Seq(Nat) /\ left \in Seq(Nodes) /\ left # <<>>
  BY <1>1 DEF ControlInv, CommandTypes, StepInv
<1>3. left' \in Seq(Nat) /\ left' \in Seq(Nodes)
  <2>1. Tail(left) \in Seq(Nat) /\ Tail(left) \in Seq(Nodes)
    BY <1>2, HeadTailProperties
  <2>2. <<>> \in Seq(Nat) /\ <<>> \in Seq(Nodes)
    OBVIOUS
  <2> QED
    BY <1>1, <2>1, <2>2, ListTypes
<1>4. 1 \in 1..Retries
  BY SessionAssumption
<1>5. name' \in Names
  <2>1. name' = name \/ (name < Cardinality(Names) /\ name' = name + 1)
    BY DEF Call, NextName
  <2>2. name \in Names /\ Names = 1..Cardinality(Names) /\ Cardinality(Names) \in Nat
    BY NamesAssumption DEF ControlInv, CommandTypes
  <2> DEFINE N == Cardinality(Names)
  <2>3. name \in 1..N /\ N \in Nat /\ (name' = name \/ (name < N /\ name' = name + 1))
    BY <2>1, <2>2
  <2>4. name' \in 1..N
    <3> HIDE DEF N
    <3> QED
      BY <2>3
  <2> QED
    BY <2>2, <2>4
<1>6. CommandTypes'
  BY <1>1, <1>3, <1>4, <1>5 DEF ControlInv, CommandTypes
<1>7. StepInv'
  BY <1>1, <1>3 DEF ControlInv, StepInv, Routed
<1> QED
  BY <1>6, <1>7 DEF ControlInv

LEMMA ControlTryAgain ==
  ASSUME ControlInv, pc = "calls", TryAgain, UNCHANGED <<cmd, result>>
  PROVE  ControlInv'
<1>1. left' = left /\ name' = name /\ pc' \in {"calls", "close"} /\ errs' \in BOOLEAN
  BY DEF TryAgain, ControlInv, CommandTypes
<1>2. attempt' \in 1..Retries
  BY SessionAssumption DEF TryAgain, Attempts, ControlInv, CommandTypes
<1>3. CommandTypes'
  BY <1>1, <1>2 DEF ControlInv, CommandTypes
<1>4. StepInv'
  BY <1>1 DEF ControlInv, StepInv, Routed
<1> QED
  BY <1>3, <1>4 DEF ControlInv

LEMMA ControlStep ==
  ASSUME ControlInv, PackageInv, [Next]_vars
  PROVE  ControlInv'
<1>1. CASE StartUp \/ StartInstall \/ StartDown
  <2>1. CASE StartUp
    BY <2>1, ListTypes, ControlBegins DEF StartUp
  <2>2. CASE StartInstall
    BY <2>2, ListTypes, ControlBegins DEF StartInstall
  <2>3. CASE StartDown
    <3>1. <<>> \in Seq(Nat)
      OBVIOUS
    <3> QED
      BY <2>3, <3>1, ControlBegins DEF StartDown
  <2> QED
    BY <1>1, <2>1, <2>2, <2>3
<1>2. ASSUME NEW peers \in {FirstPeers} \cup {<<i>> : i \in OrgIndices}, StartInvoke(peers)
      PROVE  ControlInv'
  BY <1>2, InvokeCallsType, ControlBegins DEF StartInvoke
<1>3. ASSUME NEW b, StartGeneratecc(b)
      PROVE  ControlInv'
  BY <1>3, ListTypes, ControlBegins DEF StartGeneratecc
<1>4. CASE Compose \/ Open \/ Remove \/ Ledgers
  BY <1>4, ControlGoes DEF Compose, Open, Remove, Ledgers, Routed, command
<1>5. CASE NoNetwork \/ ComposeFile \/ Fails \/ Kill
  BY <1>5, ControlEnds DEF NoNetwork, ComposeFile, Fails, Kill, command
<1>6. CASE Close \/ CloseRefused
  <2>1. PICK r \in {"ok", "failed"} : Ends(r)
    BY <1>6 DEF Close, CloseRefused
  <2> QED
    BY <1>6, <2>1, ControlEnds DEF Close, CloseRefused, command
<1>7. ASSUME NEW n \in Nodes, NotDone(n) \/ CallFails(n) \/ NotValid
      PROVE  ControlInv'
  BY <1>7, ControlTryAgain DEF NotDone, CallFails, Calls, NotValid, CallFrame, command
<1>17. CASE NoPackage
  <2>1. /\ pc = "calls" /\ pc' = "close" /\ errs' = TRUE
        /\ UNCHANGED <<cmd, left, attempt, name, result>>
    BY <1>17 DEF NoPackage, CallFrame, command
  <2> QED
    BY <2>1 DEF ControlInv, CommandTypes, StepInv, Routed
<1>8. CASE Package
  <2>1. pc = "package" /\ pc' = "id" /\ UNCHANGED <<cmd, left, attempt, name, errs, result>>
    BY <1>8 DEF Package, Goes, command
  <2> QED
    BY <2>1 DEF ControlInv, CommandTypes, StepInv, Routed
<1>9. CASE PackageID
  <2>1. /\ pc = "id" /\ left' = Tail(left) /\ UNCHANGED <<cmd, attempt, name, errs, result>>
        /\ pc' \in {"file", "package"}
    BY <1>9 DEF PackageID, command
  <2>2. left' \in Seq(Names)
    BY <2>1, FirstLeft DEF PackageInv, Writing
  <2>3. left' \in Seq(Nat)
    <3>1. Names \subseteq Nat
      BY NamesAssumption
    <3> QED
      BY <2>2, <3>1, ListsGrow
  <2> QED
    BY <2>1, <2>3 DEF ControlInv, CommandTypes, StepInv, Routed
<1>10. ASSUME NEW failed \in BOOLEAN, NextKind(failed), pc \in {"container", "image"},
              cmd' = cmd
       PROVE  ControlInv'
  <2>1. CASE pc = "container"
    <3>1. /\ pc' = "image" /\ errs' = failed /\ UNCHANGED <<left, attempt, name, result>>
      BY <1>10, <2>1 DEF NextKind
    <3> QED
      BY <1>10, <2>1, <3>1 DEF ControlInv, CommandTypes, StepInv, Routed
  <2>2. CASE pc = "image"
    <3>1. PICK r \in {"ok", "failed"} : Ends(r)
      BY <1>10, <2>2 DEF NextKind
    <3> QED
      BY <1>10, <3>1, ControlEnds
  <2> QED
    BY <1>10, <2>1, <2>2
<1>11. CASE Clean \/ CannotClean
  <2>1. errs \in BOOLEAN
    BY DEF ControlInv, CommandTypes
  <2> QED
    BY <1>10, <1>11, <2>1 DEF Clean, CannotClean, command
<1>12. ASSUME NEW n \in Nodes, ContainerRestarts(n)
       PROVE  ControlInv'
  BY <1>12, ControlFrame DEF ContainerRestarts, control, files, command, steps
<1>13. ASSUME NEW i \in OrgIndices, PeerLaunches(i)
       PROVE  ControlInv'
  BY <1>13, ControlFrame DEF PeerLaunches, control, files, command, steps
<1>14. ASSUME NEW tx \in inflight, Order(tx)
       PROVE  ControlInv'
  BY <1>14, ControlFrame DEF Order, control, files, command, steps
<1>15. CASE UNCHANGED vars
  BY <1>15, ControlFrame DEF vars, control, files, command, steps
<1>16. Orderer \in Nodes
  BY NetworkAssumption DEF Orderer, Nodes, Shape
<1> QED
  BY <1>1, <1>2, <1>3, <1>4, <1>5, <1>6, <1>7, <1>8, <1>9, <1>11, <1>12, <1>13, <1>14,
     <1>15, <1>16, <1>17, ControlCall DEF Next, Step, Faults

\* The containers, the files and the network that commands want.
PlaceTypes ==
  /\ box \in [Nodes -> Boxes] /\ helper \in [Helpers -> Nets \cup {NoNet}]
  /\ services \in [Names -> Builds \cup {None}]
  /\ devs \subseteq OrgIndices \X {"container", "image"}
  /\ ledgers \in BOOLEAN /\ inside \in BOOLEAN
  /\ pkg \in [Names -> Builds \cup {None, Torn}]
  /\ id \in [Names -> Builds \cup {None, Torn}]
  /\ ccaas \in [Names -> Builds] \cup {None, Torn}
  /\ want \in Nets

\* What up makes of a container is one.
LEMMA MadeTypes ==
  ASSUME PlaceTypes, NEW n \in Nodes
  PROVE  Made(n) \in Boxes /\ Started(Made(n)) \in Boxes
<1>1. box[n] \in Boxes /\ box[n].at \in Nat
  BY DEF PlaceTypes, Boxes
<1>2. Made(n) \in Boxes
  BY <1>1 DEF PlaceTypes, Made, Boxes
<1>3. ASSUME NEW b \in Boxes
      PROVE  Started(b) \in Boxes
  BY <1>3 DEF Started, Boxes
<1> QED
  BY <1>2, <1>3

LEMMA ComposeUpTypes ==
  ASSUME PlaceTypes, CanLoad, NEW made, NEW run, NEW others, NEW names,
         ComposeUp(made, run, others, names), UNCHANGED <<files, want>>
  PROVE  PlaceTypes'
<1>1. ServicesOf \in [Names -> Builds \cup {None}]
  BY DEF PlaceTypes, CanLoad, ServicesOf
<1>2. services' \in [Names -> Builds \cup {None}]
  BY <1>1 DEF PlaceTypes, ComposeUp
<1>3. box' \in [Nodes -> Boxes]
  BY MadeTypes DEF PlaceTypes, ComposeUp, MakesAndStarts
<1>4. helper' \in [Helpers -> Nets \cup {NoNet}]
  BY DEF PlaceTypes, ComposeUp, MakesAndStarts
<1> QED
  BY <1>2, <1>3, <1>4 DEF PlaceTypes, ComposeUp, files

LEMMA ComposeDownTypes ==
  ASSUME PlaceTypes, NEW nodes, NEW others, NEW names, ComposeDown(nodes, others, names),
         UNCHANGED <<files, want>>
  PROVE  PlaceTypes'
<1>1. services' \in [Names -> Builds \cup {None}]
  BY DEF PlaceTypes, ComposeDown
<1>2. box' \in [Nodes -> Boxes]
  BY DEF PlaceTypes, ComposeDown, Boxes
<1>3. helper' \in [Helpers -> Nets \cup {NoNet}]
  BY DEF PlaceTypes, ComposeDown
<1> QED
  BY <1>1, <1>2, <1>3 DEF PlaceTypes, ComposeDown, files

LEMMA RemoveDevsTypes ==
  ASSUME PlaceTypes, NEW kind, NEW kept, RemoveDevs(kind, kept), UNCHANGED <<files, want>>
  PROVE  PlaceTypes'
BY DEF PlaceTypes, RemoveDevs, files

LEMMA PlaceFrame ==
  ASSUME PlaceTypes, UNCHANGED <<docker, files, want>>
  PROVE  PlaceTypes'
BY DEF PlaceTypes, docker, files

LEMMA PlaceInterrupted ==
  ASSUME PlaceTypes, ControlInv, Interrupted, want' = want
  PROVE  PlaceTypes'
<1>1. UNCHANGED ledgers
  BY DEF Interrupted
<1>2. CASE pc = "compose"
  <2>1. \E ns, ms \in SUBSET Nodes, hs \in SUBSET Helpers, ss \in SUBSET Names :
          ComposeUp(ns, ms, hs, ss)
    BY <1>2 DEF Interrupted
  <2>2. CanLoad
    BY <1>2 DEF ControlInv, StepInv
  <2>3. UNCHANGED files
    BY <1>1, <1>2 DEF Interrupted, files
  <2> QED
    BY <2>1, <2>2, <2>3, ComposeUpTypes
<1>3. CASE pc = "remove"
  <2>1. \E ns \in SUBSET Nodes, hs \in SUBSET Helpers, ss \in SUBSET Names :
          ComposeDown(ns, hs, ss)
    BY <1>3 DEF Interrupted
  <2>2. UNCHANGED files
    BY <1>1, <1>3 DEF Interrupted, files
  <2> QED
    BY <2>1, <2>2, ComposeDownTypes
<1>4. CASE pc \in {"container", "image"}
  <2>1. \E kept \in SUBSET devs : RemoveDevs(pc, kept)
    BY <1>4 DEF Interrupted
  <2>2. UNCHANGED files
    BY <1>1, <1>4 DEF Interrupted, files
  <2> QED
    BY <2>1, <2>2, RemoveDevsTypes
<1>5. CASE pc \notin {"compose", "remove", "container", "image"}
  <2>1. UNCHANGED docker
    BY <1>5 DEF Interrupted
  <2>2. /\ pkg' = pkg \/ pkg' = [pkg EXCEPT ![Head(left)] = Torn]
        /\ id' = id \/ id' = [id EXCEPT ![Head(left)] = Torn]
        /\ ccaas' \in {ccaas, Torn}
    BY DEF Interrupted
  <2> QED
    BY <1>1, <2>1, <2>2 DEF PlaceTypes, docker
<1> QED
  BY <1>2, <1>3, <1>4, <1>5

LEMMA PlaceStep ==
  ASSUME PlaceTypes, ControlInv, PackageInv, [Next]_vars
  PROVE  PlaceTypes'
<1>1. ASSUME NEW c, NEW step, NEW list, NEW loads, Begin(c, step, list, loads)
      PROVE  PlaceTypes'
  <2>1. UNCHANGED <<docker, files>>
    BY <1>1 DEF Begin
  <2>2. want' \in Nets
    BY <1>1 DEF Begin, PlaceTypes, NetworkName, Nets
  <2> QED
    BY <2>1, <2>2 DEF PlaceTypes, docker, files
<1>2. CASE StartUp \/ StartInstall \/ StartDown
  BY <1>1, <1>2 DEF StartUp, StartInstall, StartDown
<1>3. ASSUME NEW peers, StartInvoke(peers)
      PROVE  PlaceTypes'
  BY <1>1, <1>3 DEF StartInvoke
<1>4. ASSUME NEW b, StartGeneratecc(b)
      PROVE  PlaceTypes'
  BY <1>1, <1>4 DEF StartGeneratecc
<1>5. CASE Compose
  BY <1>5, ComposeUpTypes DEF Compose, ControlInv, StepInv
<1>6. CASE Open \/ NoNetwork \/ Close \/ CloseRefused
  BY <1>6, PlaceFrame DEF Open, NoNetwork, Close, CloseRefused
<1>7. ASSUME NEW n \in Nodes,
             Call(n) \/ NotDone(n) \/ CallFails(n) \/ NotValid \/ NoPackage
      PROVE  PlaceTypes'
  BY <1>7, PlaceFrame DEF Call, NotDone, CallFails, NotValid, NoPackage, CallFrame
<1>8. CASE Package
  <2>1. build \in Builds
    BY <1>8 DEF Package, PackageInv, Writing, WritingInv
  <2>2. pkg' \in [Names -> Builds \cup {None, Torn}]
    BY <1>8, <2>1 DEF Package, WritePackage, PlaceTypes
  <2> QED
    BY <1>8, <2>2 DEF Package, WritePackage, PlaceTypes, docker
<1>9. CASE PackageID
  <2>1. build \in Builds
    BY <1>9 DEF PackageID, PackageInv, Writing, WritingInv
  <2>2. id' \in [Names -> Builds \cup {None, Torn}]
    BY <1>9, <2>1 DEF PackageID, WriteID, PlaceTypes
  <2> QED
    BY <1>9, <2>2 DEF PackageID, WriteID, PlaceTypes, docker
<1>10. CASE ComposeFile
  <2>1. build \in Builds
    BY <1>10 DEF ComposeFile, PackageInv, Writing, WritingInv
  <2>2. ccaas' \in [Names -> Builds]
    BY <1>10, <2>1 DEF ComposeFile, WriteCompose
  <2> QED
    BY <1>10, <2>2 DEF ComposeFile, WriteCompose, PlaceTypes, docker
<1>11. CASE Remove
  BY <1>11, ComposeDownTypes DEF Remove
<1>12. CASE Ledgers
  BY <1>12 DEF Ledgers, RemoveLedgers, PlaceTypes, docker
<1>13. CASE Clean \/ CannotClean
  BY <1>13, RemoveDevsTypes DEF Clean, CannotClean
<1>14. CASE Fails \/ Kill
  BY <1>14, PlaceInterrupted DEF Fails, Kill
<1>15. ASSUME NEW n \in Nodes, ContainerRestarts(n)
       PROVE  PlaceTypes'
  <2>1. box' = [box EXCEPT ![n].at = @ + 1]
    BY <1>15 DEF ContainerRestarts, Restart
  <2>2. box' \in [Nodes -> Boxes]
    BY <2>1 DEF PlaceTypes, Boxes
  <2> QED
    BY <1>15, <2>2 DEF ContainerRestarts, Restart, PlaceTypes, files
<1>16. ASSUME NEW i \in OrgIndices, PeerLaunches(i)
       PROVE  PlaceTypes'
  BY <1>16 DEF PeerLaunches, Launch, PlaceTypes, files
<1>17. ASSUME NEW tx \in inflight, Order(tx)
       PROVE  PlaceTypes'
  BY <1>17, PlaceFrame DEF Order
<1>18. CASE UNCHANGED vars
  BY <1>18, PlaceFrame DEF vars
<1>19. Orderer \in Nodes
  BY NetworkAssumption DEF Orderer, Nodes, Shape
<1> QED
  BY <1>2, <1>3, <1>4, <1>5, <1>6, <1>7, <1>8, <1>9, <1>10, <1>11, <1>12, <1>13, <1>14,
     <1>15, <1>16, <1>17, <1>18, <1>19 DEF Next, Step, Faults

\* The route, which is open exactly while a command calls the nodes or ends the route.
WayTypes ==
  /\ self \subseteq Nets
  /\ route \in [net : Nets \cup {NoNet}, joined : BOOLEAN]
  /\ target \in [Nodes -> Nat \cup {None, ByName}]
  /\ (route # NoRoute) <=> (pc \in {"calls", "close"})

LEMMA WayFrame ==
  ASSUME WayTypes, UNCHANGED way, pc' \in {"calls", "close"} <=> pc \in {"calls", "close"}
  PROVE  WayTypes'
<1>1. self' = self /\ route' = route /\ target' = target
  BY DEF way
<1> QED
  BY <1>1 DEF WayTypes

LEMMA FirstIsIn ==
  ASSUME NEW S, S \subseteq Nat, S # {}
  PROVE  First(S) \in S
<1>1. PICK n \in S : \A m \in S : ~(<<m, n>> \in OpToRel(<, Nat))
  BY NatLessThanWellFounded, WFMin, Zenon
<1>2. \A i, j \in Nat : i < j => <<i, j>> \in OpToRel(<, Nat)
  BY DEF OpToRel
<1>3. \A i, j \in Nat : ~(i < j) => j <= i
  OBVIOUS
<1>4. \A m \in S : ~(m < n)
  BY <1>1, <1>2, Zenon
<1>5. \A m \in S : n <= m
  BY <1>3, <1>4, Zenon
<1> QED
  BY <1>5, Zenon DEF First

\* The network that the route is for: one of the containers', if there is any.
LEMMA RunningNetworkIsNet ==
  ASSUME PlaceTypes
  PROVE  /\ RunningNetwork \in Nets
         /\ (\E n \in Nodes : box[n].net # NoNet) =>
              \/ \E n \in Nodes : box[n].net = RunningNetwork
              \/ \E h \in Helpers : helper[h] = RunningNetwork
<1> DEFINE others == {h \in Helpers : helper[h] # NoNet}
           nodes  == {n \in Nodes : box[n].net # NoNet}
<1>1. Nodes \subseteq Nat /\ Helpers \subseteq Nat
  BY NetworkAssumption DEF Nodes, Helpers, Cli, Shape
<1>2. CASE others # {}
  <2>1. First(others) \in others
    <3>1. others \subseteq Nat
      BY <1>1
    <3> HIDE DEF others
    <3> QED
      BY <1>2, <3>1, FirstIsIn
  <2>2. RunningNetwork = helper[First(others)]
    BY <1>2 DEF RunningNetwork
  <2>3. \E h \in Helpers : helper[h] = RunningNetwork /\ helper[h] # NoNet
    BY <2>1, <2>2
  <2> QED
    BY <2>3 DEF PlaceTypes
<1>3. CASE others = {} /\ nodes # {}
  <2>1. First(nodes) \in nodes
    <3>1. nodes \subseteq Nat
      BY <1>1
    <3> HIDE DEF nodes
    <3> QED
      BY <1>3, <3>1, FirstIsIn
  <2>2. RunningNetwork = box[First(nodes)].net
    BY <1>3 DEF RunningNetwork
  <2>3. \E n \in Nodes : box[n].net = RunningNetwork /\ box[n].net # NoNet
    BY <2>1, <2>2
  <2> QED
    BY <2>3 DEF PlaceTypes, Boxes
<1>4. CASE others = {} /\ nodes = {}
  BY <1>4 DEF PlaceTypes, RunningNetwork
<1> QED
  BY <1>2, <1>3, <1>4

LEMMA WayOpens ==
  ASSUME WayTypes, PlaceTypes, OpenRoute, pc' = "calls"
  PROVE  WayTypes'
<1>1. RunningNetwork \in Nets /\ RunningNetwork # NoNet
  BY RunningNetworkIsNet, NetsAssumption
<1>2. /\ route' = [net |-> RunningNetwork, joined |-> inside /\ RunningNetwork \notin self]
      /\ self' = (IF inside THEN self \cup {RunningNetwork} ELSE self)
      /\ target' = NoTargets
  BY DEF OpenRoute
<1>3. route' \in [net : Nets \cup {NoNet}, joined : BOOLEAN]
  <2>1. (inside /\ RunningNetwork \notin self) \in BOOLEAN
    OBVIOUS
  <2> QED
    BY <1>1, <1>2, <2>1, Zenon
<1>4. route' # NoRoute
  BY <1>1, <1>2 DEF NoRoute
<1>5. self' \subseteq Nets
  BY <1>1, <1>2 DEF WayTypes
<1>6. target' \in [Nodes -> Nat \cup {None, ByName}]
  BY <1>2 DEF NoTargets
<1> QED
  BY <1>3, <1>4, <1>5, <1>6 DEF WayTypes

\* The route is closed or forgotten.
LEMMA WayCloses ==
  ASSUME WayTypes, pc' = "idle", self' \subseteq self, route' = NoRoute, target' = NoTargets
  PROVE  WayTypes'
<1>1. NoRoute \in [net : Nets \cup {NoNet}, joined : BOOLEAN]
  BY DEF NoRoute
<1>2. NoTargets \in [Nodes -> Nat \cup {None, ByName}]
  BY DEF NoTargets
<1> QED
  BY <1>1, <1>2 DEF WayTypes

LEMMA WayDials ==
  ASSUME WayTypes, PlaceTypes, NEW n \in Nodes, NEW lookup, Dial(n, lookup),
         UNCHANGED <<self, route>>, pc \in {"calls", "close"}, pc' \in {"calls", "close"}
  PROVE  WayTypes'
<1>1. box[n].at \in Nat
  BY DEF PlaceTypes, Boxes
<1>2. Dialled(n, lookup) \in Nat \cup {None, ByName}
  BY <1>1 DEF Dialled, Found, WayTypes
<1>3. target' \in [Nodes -> Nat \cup {None, ByName}]
  BY <1>2 DEF Dial, WayTypes
<1> QED
  BY <1>3 DEF WayTypes

LEMMA WayStep ==
  ASSUME WayTypes, PlaceTypes, [Next]_vars
  PROVE  WayTypes'
<1>1. CASE StartUp \/ StartInstall \/ StartDown
  BY <1>1, WayFrame DEF StartUp, StartInstall, StartDown, Begin
<1>2. ASSUME NEW peers, StartInvoke(peers)
      PROVE  WayTypes'
  BY <1>2, WayFrame DEF StartInvoke, Begin
<1>3. ASSUME NEW b, StartGeneratecc(b)
      PROVE  WayTypes'
  BY <1>3, WayFrame DEF StartGeneratecc, Begin
<1>4. CASE Compose \/ Package \/ PackageID \/ ComposeFile \/ Remove \/ Ledgers \/ Clean
             \/ CannotClean \/ NoNetwork \/ Fails
  <2>1. pc \notin {"calls", "close"} /\ pc' \notin {"calls", "close"} /\ UNCHANGED way
    BY <1>4 DEF Compose, Package, PackageID, ComposeFile, Remove, Ledgers, Clean,
                CannotClean, NoNetwork, Fails, Goes, Ends, NextKind
  <2> QED
    BY <2>1, WayFrame
<1>5. CASE Open
  BY <1>5, WayOpens DEF Open, Goes
<1>6. CASE Close \/ CloseRefused \/ Kill
  BY <1>6, WayCloses DEF Close, CloseRefused, Kill, Leave, StayOn, Ends
<1>7. ASSUME NEW n \in Nodes, Call(n) \/ NotDone(n) \/ CallFails(n)
      PROVE  WayTypes'
  <2>1. UNCHANGED <<self, route>> /\ pc = "calls" /\ pc' \in {"calls", "close"}
    BY <1>7 DEF Call, NotDone, CallFails, Calls, TryAgain, CallFrame
  <2>2. Dial(n, TRUE) \/ Dial(n, FALSE)
    BY <1>7 DEF Call, NotDone, CallFails
  <2> QED
    BY <2>1, <2>2, WayDials
<1>8. CASE NotValid \/ NoPackage
  <2>1. UNCHANGED way /\ pc = "calls" /\ pc' \in {"calls", "close"}
    BY <1>8 DEF NotValid, NoPackage, TryAgain, CallFrame, way
  <2> QED
    BY <2>1, WayFrame
<1>9. ASSUME NEW n \in Nodes, ContainerRestarts(n)
      PROVE  WayTypes'
  BY <1>9, WayFrame DEF ContainerRestarts, steps
<1>10. ASSUME NEW i \in OrgIndices, PeerLaunches(i)
       PROVE  WayTypes'
  BY <1>10, WayFrame DEF PeerLaunches, steps
<1>11. ASSUME NEW tx \in inflight, Order(tx)
       PROVE  WayTypes'
  BY <1>11, WayFrame DEF Order, steps
<1>12. CASE UNCHANGED vars
  BY <1>12, WayFrame DEF vars, steps
<1>13. Orderer \in Nodes
  BY NetworkAssumption DEF Orderer, Nodes, Shape
<1> QED
  BY <1>1, <1>2, <1>3, <1>4, <1>5, <1>6, <1>7, <1>8, <1>9, <1>10, <1>11, <1>12, <1>13
     DEF Next, Step, Faults

\* What is counted, and the choices that a command or a fault makes.
CountTypes ==
  /\ number \in 0..MaxCommands /\ faults \in 0..MaxFaults /\ launches \in 0..MaxLaunches
  /\ astray \in BOOLEAN /\ calm \in BOOLEAN /\ matched \in BOOLEAN
  /\ home \subseteq Nets /\ build \in Builds \cup {None} /\ asked \in Seq(OrgIndices)
  /\ pc # "idle" => number >= 1

LEMMA CountFrame ==
  ASSUME CountTypes, UNCHANGED <<number, home, build, asked, history>>,
         pc' # "idle" => pc # "idle"
  PROVE  CountTypes'
BY DEF CountTypes, history

\* A step with a failure.
LEMMA CountFault ==
  ASSUME CountTypes, WayTypes, Fault, UNCHANGED <<number, home, build, asked>>,
         astray' \in {astray, TRUE, astray \/ route.joined}, pc' # "idle" => pc # "idle"
  PROVE  CountTypes'
<1>1. faults' \in 0..MaxFaults
  BY SessionAssumption DEF CountTypes, Fault
<1>2. astray' \in BOOLEAN
  BY DEF CountTypes
<1> QED
  BY <1>1, <1>2 DEF CountTypes, Fault

LEMMA CountBegin ==
  ASSUME CountTypes, WayTypes, NEW c, NEW step, NEW list, NEW loads,
         Begin(c, step, list, loads), build' \in Builds \cup {None},
         asked' \in Seq(OrgIndices), matched' \in BOOLEAN
  PROVE  CountTypes'
<1>1. number' \in 0..MaxCommands /\ number' >= 1
  BY SessionAssumption DEF CountTypes, Begin
<1>2. /\ home' = self /\ calm' = TRUE /\ astray' = FALSE
      /\ faults' = faults /\ launches' = launches
  BY DEF Begin
<1> QED
  BY <1>1, <1>2 DEF CountTypes, WayTypes

LEMMA CountStep ==
  ASSUME CountTypes, WayTypes, [Next]_vars
  PROVE  CountTypes'
<1>1. CASE StartUp \/ StartInstall \/ StartDown
  <2>1. build' = None /\ asked' = <<>> /\ matched' = matched
    BY <1>1 DEF StartUp, StartInstall, StartDown, PlainCommand
  <2>2. asked' \in Seq(OrgIndices) /\ matched' \in BOOLEAN
    BY <2>1 DEF CountTypes
  <2> QED
    BY <1>1, <2>1, <2>2, CountBegin DEF StartUp, StartInstall, StartDown
<1>2. ASSUME NEW peers \in {FirstPeers} \cup {<<i>> : i \in OrgIndices}, StartInvoke(peers)
      PROVE  CountTypes'
  <2>1. build' = None /\ asked' = peers /\ matched' = matched
    BY <1>2 DEF StartInvoke
  <2>2. asked' \in Seq(OrgIndices) /\ matched' \in BOOLEAN
    BY <2>1, PeersAsked DEF CountTypes
  <2> QED
    BY <1>2, <2>1, <2>2, CountBegin DEF StartInvoke
<1>3. ASSUME NEW b \in Builds, StartGeneratecc(b)
      PROVE  CountTypes'
  <2>1. build' = b /\ asked' = <<>> /\ matched' = FALSE
    BY <1>3 DEF StartGeneratecc
  <2>2. asked' \in Seq(OrgIndices)
    BY <2>1
  <2> QED
    BY <1>3, <2>1, <2>2, CountBegin DEF StartGeneratecc
<1>4. CASE Compose \/ Open \/ NoNetwork \/ Close \/ Package \/ PackageID \/ Remove \/ Ledgers
             \/ Clean
  <2>1. pc # "idle" /\ UNCHANGED <<number, home, build, asked, history>>
    BY <1>4 DEF Compose, Open, NoNetwork, Close, Package, PackageID, Remove, Ledgers, Clean,
                command
  <2> QED
    BY <2>1, CountFrame
<1>5. CASE ComposeFile
  BY <1>5 DEF ComposeFile, CountTypes, Ends, command
<1>6. ASSUME NEW n \in Nodes, Call(n) \/ NotDone(n) \/ NotValid \/ NoPackage
      PROVE  CountTypes'
  <2>1. pc # "idle" /\ UNCHANGED <<number, home, build, asked, history>>
    BY <1>6 DEF Call, NotDone, Calls, NotValid, NoPackage, CallFrame, command
  <2> QED
    BY <2>1, CountFrame
<1>7. ASSUME NEW n \in Nodes, CallFails(n)
      PROVE  CountTypes'
  BY <1>7, CountFault DEF CallFails, Calls, CallFrame, command
<1>8. CASE Fails \/ CannotClean \/ CloseRefused
  BY <1>8, CountFault DEF Fails, CannotClean, CloseRefused, command
<1>9. CASE Kill
  BY <1>9, CountFault DEF Kill, command
<1>10. ASSUME NEW n \in Nodes, ContainerRestarts(n)
       PROVE  CountTypes'
  BY <1>10, CountFault DEF ContainerRestarts, command, steps
<1>11. ASSUME NEW i \in OrgIndices, PeerLaunches(i)
       PROVE  CountTypes'
  BY <1>11, SessionAssumption DEF PeerLaunches, CountTypes, command, steps
<1>12. ASSUME NEW tx \in inflight, Order(tx)
       PROVE  CountTypes'
  <2>1. UNCHANGED <<pc, number, home, build, asked>>
    BY <1>12 DEF Order, command, steps
  <2>2. CASE UNCHANGED history
    BY <2>1, <2>2, CountFrame
  <2>3. CASE Fault /\ UNCHANGED astray
    BY <2>1, <2>3, CountFault
  <2> QED
    BY <1>12, <2>2, <2>3 DEF Order
<1>13. CASE UNCHANGED vars
  BY <1>13, CountFrame DEF vars, command, steps
<1>14. Orderer \in Nodes
  BY NetworkAssumption DEF Orderer, Nodes, Shape
<1> QED
  BY <1>1, <1>2, <1>3, <1>4, <1>5, <1>6, <1>7, <1>8, <1>9, <1>10, <1>11, <1>12, <1>13,
     <1>14 DEF Next, Step, Faults

\* The transactions: InvokeInv knows whom invoke asked.
TxTypes ==
  /\ endorsed \subseteq OrgIndices
  /\ inflight \subseteq Txs /\ ledger \subseteq [tx : Txs, valid : BOOLEAN]

LEMMA TxFrame ==
  ASSUME TxTypes, UNCHANGED <<inflight, ledger>>, endorsed' \in {endorsed, {}}
  PROVE  TxTypes'
BY DEF TxTypes, Txs

LEMMA ThisTxType ==
  ASSUME TxTypes, CountTypes, pc # "idle"
  PROVE  ThisTx \in Txs
<1>1. number \in 1..MaxCommands
  BY SessionAssumption DEF CountTypes
<1> QED
  BY <1>1 DEF TxTypes, Txs, ThisTx

LEMMA TxCall ==
  ASSUME TxTypes, CountTypes, InvokeInv, NEW n \in Nodes, Call(n)
  PROVE  TxTypes'
<1>1. pc = "calls" /\ n = left[1] /\ Effect(n)
  BY DEF Call, Calls
<1>2. CASE cmd # "invoke"
  BY <1>1, <1>2, TxFrame DEF Effect, chain
<1>3. CASE cmd = "invoke"
  <2>1. Collecting /\ asked \in Seq(OrgIndices) /\ Asked \in Nat /\ Left \in Nat
    BY <1>1, <1>3, LenProperties DEF InvokeInv, InvokeControl, Collecting, Asked, Left
  <2>2. Left >= 1 /\ Left <= Asked + 2
    BY <2>1 DEF Collecting
  <2>3. CASE Left > 2
    <3>1. Left # 1 /\ Left # 2
      BY <2>1, <2>3
    <3>2. endorsed' = endorsed \cup {n} /\ UNCHANGED <<inflight, ledger>>
      BY <1>1, <1>3, <2>3, <3>1 DEF Effect, Left
    <3>3. 1 \in 1..(Left - 2) /\ 1 + (Asked + 2 - Left) \in 1..Asked
      BY <2>1, <2>2, <2>3
    <3>4. n = asked[1 + (Asked + 2 - Left)]
      BY <1>1, <2>1, <3>3 DEF Collecting
    <3>5. n \in OrgIndices
      BY <2>1, <3>3, <3>4, ElementOfSeq DEF Asked
    <3> QED
      BY <3>2, <3>5 DEF TxTypes, Txs
  <2>4. CASE Left = 2
    <3>1. Left # 1 /\ ~(Left > 2)
      BY <2>4
    <3>2. inflight' = inflight \cup {ThisTx} /\ UNCHANGED <<endorsed, ledger>>
      BY <1>1, <1>3, <2>4, <3>1 DEF Effect, Left
    <3> QED
      BY <1>1, <3>2, ThisTxType DEF TxTypes, Txs
  <2>5. CASE Left = 1
    <3>1. Left # 2 /\ ~(Left > 2)
      BY <2>5
    <3> QED
      BY <1>1, <1>3, <2>5, <3>1, TxFrame DEF Effect, Left, chain
  <2> QED
    BY <2>1, <2>2, <2>3, <2>4, <2>5
<1> QED
  BY <1>2, <1>3

LEMMA TxStep ==
  ASSUME TxTypes, CountTypes, InvokeInv, [Next]_vars
  PROVE  TxTypes'
<1>1. CASE StartUp \/ StartInstall \/ StartDown
  BY <1>1, TxFrame DEF StartUp, StartInstall, StartDown, Begin
<1>2. ASSUME NEW peers, StartInvoke(peers)
      PROVE  TxTypes'
  BY <1>2, TxFrame DEF StartInvoke, Begin
<1>3. ASSUME NEW b, StartGeneratecc(b)
      PROVE  TxTypes'
  BY <1>3, TxFrame DEF StartGeneratecc, Begin
<1>4. CASE Compose \/ Open \/ NoNetwork \/ Close \/ CloseRefused \/ Package \/ PackageID
             \/ ComposeFile \/ Remove \/ Ledgers \/ Clean \/ CannotClean \/ Fails \/ Kill
             \/ NotValid \/ NoPackage
  <2>1. UNCHANGED chain
    BY <1>4 DEF Compose, Open, NoNetwork, Close, CloseRefused, Package, PackageID, ComposeFile,
                Remove, Ledgers, Clean, CannotClean, Fails, Kill, NotValid, NoPackage
  <2> QED
    BY <2>1, TxFrame DEF chain
<1>5. ASSUME NEW n \in Nodes, NotDone(n) \/ ContainerRestarts(n)
      PROVE  TxTypes'
  BY <1>5, TxFrame DEF NotDone, ContainerRestarts, chain
<1>6. ASSUME NEW n \in Nodes, CallFails(n)
      PROVE  TxTypes'
  <2>1. CASE UNCHANGED chain
    BY <2>1, TxFrame DEF chain
  <2>2. CASE inflight' = inflight \cup {ThisTx} /\ UNCHANGED <<endorsed, ledger>>
    <3>1. pc = "calls"
      BY <1>6 DEF CallFails, Calls
    <3> QED
      BY <2>2, <3>1, ThisTxType DEF TxTypes, Txs
  <2> QED
    BY <1>6, <2>1, <2>2 DEF CallFails
<1>7. ASSUME NEW i \in OrgIndices, PeerLaunches(i)
      PROVE  TxTypes'
  BY <1>7, TxFrame DEF PeerLaunches, chain
<1>8. ASSUME NEW tx \in inflight, Order(tx)
      PROVE  TxTypes'
  <2>1. SatisfiedBy(EndorsementPolicy(Network), tx.orgs) \in BOOLEAN
    BY DEF SatisfiedBy
  <2>2. PICK v \in BOOLEAN : ledger' = ledger \cup {[tx |-> tx, valid |-> v]}
    BY <1>8, <2>1 DEF Order
  <2>3. inflight' = inflight \ {tx} /\ endorsed' = endorsed
    BY <1>8 DEF Order
  <2>4. [tx |-> tx, valid |-> v] \in [tx : Txs, valid : BOOLEAN]
    BY DEF TxTypes
  <2> QED
    BY <2>2, <2>3, <2>4 DEF TxTypes, Txs
<1>9. CASE UNCHANGED vars
  BY <1>9, TxFrame DEF vars, chain
<1>10. Orderer \in Nodes
  BY NetworkAssumption DEF Orderer, Nodes, Shape
<1> QED
  BY <1>1, <1>2, <1>3, <1>4, <1>5, <1>6, <1>7, <1>8, <1>9, <1>10, TxCall
     DEF Next, Step, Faults

\* All of it.
TypesInv == ControlInv /\ PlaceTypes /\ WayTypes /\ CountTypes /\ TxTypes

LEMMA TypesInvInit == Init => TypesInv
<1> SUFFICES ASSUME Init
             PROVE  TypesInv
  OBVIOUS
<1>1. ControlInv
  <2>1. 1 \in 1..Retries /\ 1 \in Names
    BY SessionAssumption, NamesAssumption
  <2>2. CommandTypes
    <3>1. <<>> \in Seq(Nat)
      OBVIOUS
    <3>2. left \in Seq(Nat) /\ attempt \in 1..Retries /\ name \in Names /\ errs \in BOOLEAN
      BY <2>1, <3>1 DEF Init
    <3>3. cmd = "none" /\ pc = "idle" /\ result = "none"
      BY DEF Init
    <3> QED
      BY <3>2, <3>3 DEF CommandTypes
  <2>3. StepInv
    BY DEF Init, StepInv, Routed
  <2> QED
    BY <2>2, <2>3 DEF ControlInv
<1>2. PlaceTypes
  BY DEF Init, ContainersInit, PlaceTypes, Absent, Boxes, Nets
<1>3. WayTypes
  <2>1. self \subseteq Nets
    BY DEF Init, ContainersInit, Nets
  <2>2. NoRoute \in [net : Nets \cup {NoNet}, joined : BOOLEAN]
    BY DEF NoRoute
  <2>3. NoTargets \in [Nodes -> Nat \cup {None, ByName}]
    BY DEF NoTargets
  <2> QED
    BY <2>1, <2>2, <2>3 DEF Init, ContainersInit, WayTypes
<1>4. CountTypes
  <2>1. 0 \in 0..MaxCommands /\ 0 \in 0..MaxFaults /\ 0 \in 0..MaxLaunches
    BY SessionAssumption
  <2>2. <<>> \in Seq(OrgIndices)
    OBVIOUS
  <2> QED
    BY <1>3, <2>1, <2>2 DEF Init, CountTypes, WayTypes
<1>5. TxTypes
  BY DEF Init, TxTypes
<1> QED
  BY <1>1, <1>2, <1>3, <1>4, <1>5 DEF TypesInv

LEMMA TypesInvStep ==
  ASSUME TypesInv, InvokeInv, PackageInv, [Next]_vars
  PROVE  TypesInv'
BY ControlStep, PlaceStep, WayStep, CountStep, TxStep DEF TypesInv

\* Every variable of a series of commands keeps its type: a command is running exactly
\* while it is at one of its steps, the route is open exactly while it calls the nodes,
\* and no step takes a node, a package or a build that is not there, wherever a command
\* was killed before.
THEOREM SessionTypes == Spec => []TypeOK
<1>1. TypesInv => TypeOK
  BY DEF TypesInv, ControlInv, CommandTypes, PlaceTypes, WayTypes, CountTypes, TxTypes,
         TypeOK, ContainersTypeOK
<1> DEFINE Inv == TypesInv /\ InvokeInv /\ PackageInv
<1>2. Init => Inv
  BY TypesInvInit, InvokeInvInit, PackageInvInit
<1>3. Inv /\ [Next]_vars => Inv'
  BY TypesInvStep, InvokeInvStep, PackageInvStep
<1>4. Inv => TypeOK
  BY <1>1
<1> QED
  <2> HIDE DEF Inv
  <2> QED
    BY <1>2, <1>3, <1>4, PTL DEF Spec

-----------------------------------------------------------------------------
(* A command during which nothing fails.                                    *)

\* With all containers on one network, an open route is for that one, and the builder
\* dials every node where it is: no earlier command left it an address.
OpenInv ==
  (pc \in {"calls", "close"} /\ OneNetwork) =>
    /\ \A n \in Nodes : box[n].net = route.net /\ target[n] \in {None, box[n].at}
    /\ inside => route.net \in self

CalmInv ==
  calm => OpenInv /\ (cmd = "up" /\ pc \in Routed => OneNetwork)

LEMMA CalmFrame ==
  ASSUME CalmInv, UNCHANGED <<box, helper, inside, self, route, target, cmd, pc, calm>>
  PROVE  CalmInv'
BY DEF CalmInv, OpenInv, OneNetwork

\* A failure ends the promise,
LEMMA CalmFault ==
  ASSUME Fault
  PROVE  CalmInv'
BY DEF Fault, CalmInv

\* the next command makes it anew,
LEMMA CalmBegin ==
  ASSUME NEW c, NEW step, NEW list, NEW loads, Begin(c, step, list, loads),
         step \notin {"idle", "calls", "close"}, c = "up" => step \notin Routed
  PROVE  CalmInv'
BY DEF Begin, CalmInv, OpenInv

\* and a step without a route keeps it.
LEMMA CalmElsewhere ==
  ASSUME CalmInv, pc' \notin Routed
  PROVE  CalmInv'
BY DEF CalmInv, OpenInv, Routed

\* A call is made where the node is, and it arrives.
LEMMA CalmDial ==
  ASSUME OpenInv, TypesInv, pc = "calls", OneNetwork, NEW n \in Nodes
  PROVE  Dialled(n, TRUE) = box[n].at /\ Reaches(n, Dialled(n, TRUE))
<1>1. /\ \A m \in Nodes : box[m].net = route.net
      /\ target[n] \in {None, box[n].at}
      /\ inside => route.net \in self
  BY DEF OpenInv
<1>2. Orderer \in Nodes
  BY NetworkAssumption DEF Orderer, Nodes, Shape
<1>3. box[n].at \in Nat
  BY DEF TypesInv, PlaceTypes, Boxes
<1>4. box[n].runs
  BY DEF OneNetwork
<1>5. Dialled(n, TRUE) = box[n].at
  BY <1>1, <1>4 DEF Dialled, Found
<1>6. box[n].at # ByName
  BY <1>3, NamesAssumption
<1>7. Answers(n, Dialled(n, TRUE))
  BY <1>1, <1>4, <1>5, <1>6 DEF Answers
<1> QED
  BY <1>1, <1>2, <1>5, <1>7 DEF Reaches

\* A call, whether it is done or not, leaves the addresses right.
LEMMA CalmCall ==
  ASSUME CalmInv, TypesInv, NEW n \in Nodes, Call(n) \/ NotDone(n)
  PROVE  CalmInv'
<1>1. /\ pc = "calls" /\ pc' \in {"calls", "close"} /\ Dial(n, TRUE)
      /\ UNCHANGED <<box, helper, inside, self, route, cmd, calm>>
  BY DEF Call, NotDone, Calls, TryAgain, CallFrame, docker, command, history
<1>2. OneNetwork' <=> OneNetwork
  BY <1>1 DEF OneNetwork
<1>3. ASSUME calm, OneNetwork
      PROVE  OpenInv'
  <2>1. OpenInv
    BY <1>3 DEF CalmInv
  <2>2. Dialled(n, TRUE) = box[n].at
    BY <1>1, <1>3, <2>1, CalmDial
  <2>3. target' \in {target, [target EXCEPT ![n] = box[n].at]}
    BY <1>1, <2>2 DEF Dial
  <2>4. /\ \A m \in Nodes : box[m].net = route.net /\ target[m] \in {None, box[m].at}
        /\ inside => route.net \in self
    BY <1>1, <1>3, <2>1 DEF OpenInv
  <2>5. \A m \in Nodes : target'[m] \in {None, box[m].at}
    BY <2>3, <2>4 DEF TypesInv, WayTypes
  <2> QED
    BY <1>1, <2>4, <2>5 DEF OpenInv
<1>4. calm => OpenInv'
  BY <1>2, <1>3 DEF OpenInv
<1> QED
  BY <1>1, <1>2, <1>4 DEF CalmInv, Routed

LEMMA CalmNoCall ==
  ASSUME CalmInv, NotValid \/ NoPackage
  PROVE  CalmInv'
<1>1. /\ pc = "calls" /\ pc' \in {"calls", "close"}
      /\ UNCHANGED <<box, helper, inside, self, route, target, cmd, calm>>
  BY DEF NotValid, NoPackage, TryAgain, CallFrame, docker, command, history
<1> QED
  BY <1>1 DEF CalmInv, OpenInv, OneNetwork, Routed

\* The route is opened to the network on which all containers are.
LEMMA CalmOpen ==
  ASSUME CalmInv, TypesInv, Open
  PROVE  CalmInv'
<1>1. /\ pc = "route" /\ pc' = "calls" /\ target' = NoTargets
      /\ UNCHANGED <<box, helper, inside, cmd, calm>>
      /\ self' = (IF inside THEN self \cup {RunningNetwork} ELSE self)
      /\ route'.net = RunningNetwork
  BY DEF Open, OpenRoute, Goes, docker, command, history
<1>2. OneNetwork' <=> OneNetwork
  BY <1>1 DEF OneNetwork
<1>3. ASSUME OneNetwork
      PROVE  OpenInv'
  <2>1. PICK net \in Nets : /\ \A n \in Nodes : box[n].net = net
                            /\ \A h \in Helpers : helper[h] \in {net, NoNet}
    BY <1>3 DEF OneNetwork
  <2>2. Orderer \in Nodes /\ net # NoNet
    BY NetworkAssumption, NetsAssumption DEF Orderer, Nodes, Shape
  <2>3. RunningNetwork \in Nets /\ RunningNetwork # NoNet
    BY RunningNetworkIsNet, NetsAssumption DEF TypesInv
  <2>4. RunningNetwork = net
    <3>1. \E n \in Nodes : box[n].net # NoNet
      BY <2>1, <2>2
    <3>2. \/ \E n \in Nodes : box[n].net = RunningNetwork
          \/ \E h \in Helpers : helper[h] = RunningNetwork
      BY <3>1, RunningNetworkIsNet DEF TypesInv
    <3> QED
      BY <2>1, <2>3, <3>2
  <2>5. \A n \in Nodes : box'[n].net = route'.net /\ target'[n] = None
    BY <1>1, <2>1, <2>4 DEF NoTargets
  <2>6. inside' => route'.net \in self'
    BY <1>1
  <2> QED
    BY <2>5, <2>6 DEF OpenInv
<1>4. OpenInv'
  BY <1>2, <1>3 DEF OpenInv
<1> QED
  BY <1>1, <1>2, <1>4 DEF CalmInv, Routed

\* up makes and starts every container on the wanted network.
LEMMA CalmCompose ==
  ASSUME TypesInv, Compose
  PROVE  CalmInv'
<1>1. /\ pc' = "route"
      /\ box' = [n \in Nodes |-> Started(Made(n))]
      /\ helper' = [h \in Helpers |-> want]
  BY DEF Compose, ComposeUp, MakesAndStarts, Goes
<1>2. want \in Nets
  BY DEF TypesInv, PlaceTypes
<1>3. ASSUME NEW n \in Nodes
      PROVE  box'[n].net = want /\ box'[n].runs
  <2>1. Made(n) \in Boxes /\ Made(n).net = want
    BY MadeTypes DEF TypesInv, Made
  <2>2. ASSUME NEW b \in Boxes
        PROVE  Started(b).net = b.net /\ Started(b).runs
    BY DEF Started, Boxes
  <2> QED
    BY <1>1, <2>1, <2>2
<1>4. OneNetwork'
  BY <1>1, <1>2, <1>3 DEF OneNetwork
<1>5. OpenInv'
  BY <1>1 DEF OpenInv
<1> QED
  BY <1>4, <1>5 DEF CalmInv

LEMMA CalmOrder ==
  ASSUME CalmInv, NEW tx \in inflight, Order(tx)
  PROVE  CalmInv'
<1>1. UNCHANGED <<box, helper, inside, self, route, target, cmd, pc>>
  BY DEF Order, docker, way, command, steps
<1>2. CASE UNCHANGED history
  BY <1>1, <1>2, CalmFrame DEF history
<1>3. CASE Fault
  BY <1>3, CalmFault
<1> QED
  BY <1>2, <1>3 DEF Order

LEMMA CalmInvStep ==
  ASSUME CalmInv, TypesInv, PackageInv, [Next]_vars
  PROVE  CalmInv'
<1>1. CASE StartUp \/ StartInstall \/ StartDown
  BY <1>1, CalmBegin DEF StartUp, StartInstall, StartDown, Routed
<1>2. ASSUME NEW peers, StartInvoke(peers)
      PROVE  CalmInv'
  BY <1>2, CalmBegin DEF StartInvoke, Routed
<1>3. ASSUME NEW b, StartGeneratecc(b)
      PROVE  CalmInv'
  BY <1>3, CalmBegin DEF StartGeneratecc, Routed
<1>4. CASE Package \/ PackageID \/ ComposeFile \/ Remove \/ Ledgers \/ Clean \/ NoNetwork
             \/ Close
  <2>1. pc' \notin Routed
    BY <1>4 DEF Package, PackageID, ComposeFile, Remove, Ledgers, Clean, NextKind, NoNetwork,
                Close, Goes, Ends, Routed
  <2> QED
    BY <2>1, CalmElsewhere
<1>5. CASE Fails \/ Kill \/ CloseRefused \/ CannotClean
  BY <1>5, CalmFault DEF Fails, Kill, CloseRefused, CannotClean
<1>6. ASSUME NEW n \in Nodes, CallFails(n) \/ ContainerRestarts(n)
      PROVE  CalmInv'
  BY <1>6, CalmFault DEF CallFails, ContainerRestarts
<1>7. ASSUME NEW i \in OrgIndices, PeerLaunches(i)
      PROVE  CalmInv'
  BY <1>7, CalmFrame DEF PeerLaunches, Launch, way, command, steps
<1>8. CASE UNCHANGED vars
  BY <1>8, CalmFrame DEF vars, docker, way, command, steps, history
<1> QED
  BY <1>1, <1>2, <1>3, <1>4, <1>5, <1>6, <1>7, <1>8, CalmCompose, CalmOpen, CalmCall,
     CalmNoCall, CalmOrder DEF Next, Step, Faults

\* While a command meets no failure, each of its calls arrives at the node it is for:
\* those of up always, those of install and invoke if all containers are on one network
\* and every node runs.  No address, network name, route or kept network that an earlier
\* command left behind is in the way, whether that command succeeded, failed or was
\* killed (Route, runningNetwork, Resolve, withAdmin).
THEOREM CallsReachTheirNodes == Spec => []CallsArrive
<1> DEFINE Inv == CalmInv /\ TypesInv /\ InvokeInv /\ PackageInv
<1>1. Init => Inv
  <2>1. Init => CalmInv
    BY DEF Init, CalmInv, OpenInv, Routed
  <2> QED
    BY <2>1, TypesInvInit, InvokeInvInit, PackageInvInit
<1>2. Inv /\ [Next]_vars => Inv'
  BY CalmInvStep, TypesInvStep, InvokeInvStep, PackageInvStep
<1>3. ASSUME Inv, calm, pc = "calls", cmd = "up" \/ OneNetwork
      PROVE  Reaches(Head(left), Dialled(Head(left), TRUE))
  <2>1. left \in Seq(Nodes) /\ left # <<>>
    BY <1>3 DEF TypesInv, ControlInv, StepInv
  <2>2. Head(left) \in Nodes
    BY <2>1, HeadTailProperties
  <2>3. OpenInv /\ OneNetwork
    BY <1>3 DEF CalmInv, Routed
  <2> QED
    BY <1>3, <2>2, <2>3, CalmDial
<1>4. Inv => CallsArrive
  BY <1>3 DEF CallsArrive
<1> QED
  <2> HIDE DEF Inv
  <2> QED
    BY <1>1, <1>2, <1>4, PTL DEF Spec
=============================================================================
