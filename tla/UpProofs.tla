------------------------------ MODULE UpProofs ------------------------------
(***************************************************************************)
(* Proofs about Up for every number of orderers, peers, orgs, retries and   *)
(* faults, and both kinds of network: its type invariant, that success      *)
(* means every node is a member, and that peers join after the orderers.    *)
(***************************************************************************)
EXTENDS Up, TLAPS

USE UpSizes, UpKind DEF UpSizes, UpKind

\* The type invariant in the parts the provers take: Booleans apart.
FlagsType == created \in BOOLEAN /\ channel \in BOOLEAN

ControlType ==
  /\ pc \in Steps \cup {"idle", "ok", "failed"}
  /\ idx \in Nat \ {0}
  /\ attempt \in 1..Retries
  /\ faults \in 0..MaxFaults

NodesType ==
  /\ orderer \in [Orderers -> {"none", "onboarding", "active"}]
  /\ members \subseteq Peers
  /\ anchors \subseteq Orgs
  /\ inflight \subseteq Calls

\* The loops stay in range, and a step belongs to one kind of network.
LoopInv ==
  /\ pc = "orderers" => ~SystemChannel /\ idx <= NumOrderers
  /\ pc = "peers" => idx <= NumPeers
  /\ pc = "anchors" => SystemChannel /\ idx <= NumOrgs
  /\ pc \in {"create", "fetch"} => SystemChannel

StateInv == ControlType /\ NodesType /\ LoopInv

\* What the loops left behind is joined, and peers are asked once the channel is made.
JoinInv ==
  /\ pc = "orderers" => \A o \in Orderers : o < idx => orderer[o] # "none"
  /\ pc \in {"peers", "anchors", "ok"} => ChannelMade
  /\ pc = "peers" => \A p \in Peers : p < idx => p \in members
  /\ pc \in {"anchors", "ok"} => members = Peers
  /\ PeersJoinLast

-----------------------------------------------------------------------------
(* Type correctness.                                                        *)

\* Every state the run and the network start from is well typed.
LEMMA UpTypeInit == Init => FlagsType /\ StateInv
<1> SUFFICES ASSUME Init PROVE FlagsType /\ StateInv
  OBVIOUS
<1>1. FlagsType
  BY DEF Init, FlagsType
<1>2. StateInv
  BY DEF Init, StateInv, ControlType, NodesType, LoopInv
<1> QED BY <1>1, <1>2

\* The calls `up` makes are of the network's nodes.
LEMMA CallTypes ==
  /\ \A o \in Orderers : Call("join orderer", o) \in Calls
  /\ \A p \in Peers : Call("join peer", p) \in Calls
  /\ \A i \in Orgs : Call("anchors", i) \in Calls
  /\ Call("create", 1) \in Calls
BY DEF Call, Calls

\* An accepted call leaves the nodes well typed.
LEMMA AppliesType ==
  ASSUME NodesType, NEW c \in Calls, Applies(c)
  PROVE  /\ orderer' \in [Orderers -> {"none", "onboarding", "active"}]
         /\ members' \subseteq Peers /\ anchors' \subseteq Orgs
<1>1. /\ c.kind = "join orderer" => c.of \in Orderers
      /\ c.kind = "join peer" => c.of \in Peers
      /\ c.kind = "anchors" => c.of \in Orgs
  BY DEF Calls
<1> QED BY <1>1 DEF Applies, NodesType

\* An attempt that fails ends the run or is followed by another one of the same step.
LEMMA AttemptMoves ==
  ASSUME StateInv, AttemptFails
  PROVE  /\ pc' \in {pc, "failed"} /\ idx' = idx
         /\ attempt' \in 1..Retries
BY DEF StateInv, ControlType, AttemptFails

\* A failed or refused attempt of a call keeps the state well typed.
LEMMA AttemptType ==
  ASSUME StateInv, NEW c \in Calls, Refused \/ Fault({}) \/ Fault({c})
  PROVE  StateInv'
<1>1. /\ pc' \in {pc, "failed"} /\ idx' = idx
      /\ attempt' \in 1..Retries
  BY AttemptMoves DEF Refused, Fault
<1>2. ControlType'
  BY <1>1 DEF StateInv, ControlType, Refused, Fault
<1>3. NodesType'
  BY DEF StateInv, NodesType, Refused, Fault, network
<1>4. LoopInv'
  BY <1>1 DEF StateInv, LoopInv
<1> QED BY <1>2, <1>3, <1>4 DEF StateInv

\* created and channel stay Booleans.
LEMMA FlagsStep == FlagsType /\ [Next]_vars => FlagsType'
BY DEF FlagsType, Next, UpStep, Start, Stop, Down, Land, CatchUp, Goto, Applies,
       JoinOrderer, JoinPeer, JoinUnlessDone, CreateBySystemChannel, FetchGenesisBlock,
       UpdateAnchorPeers, Broadcast, Refused, Fault, AttemptFails, vars, run, network

\* The rest of the state stays well typed and the loops in range, action by action.
LEMMA UpTypeStep == StateInv /\ [Next]_vars => StateInv'
<1> SUFFICES ASSUME StateInv, [Next]_vars PROVE StateInv'
  OBVIOUS
<1>1. CASE Start
  BY <1>1 DEF Start, Goto, FirstStep, network,
       StateInv, ControlType, NodesType, LoopInv, Steps
<1>2. CASE JoinOrderer
  <2>0. pc = "orderers"
    BY <1>2 DEF JoinOrderer
  <2> DEFINE c == Call("join orderer", idx)
  <2>a. idx \in Orderers
    BY <2>0 DEF Orderers, StateInv, ControlType, LoopInv
  <2>1. c \in Calls
    BY <2>a, CallTypes
  <2>2. CASE Loop("orderers", NumOrderers, "peers") /\ UNCHANGED <<network, faults>>
    BY <2>0, <2>2 DEF StateInv, ControlType, NodesType, LoopInv, Steps, Loop, Goto, network
  <2>3. CASE Applies(c) /\ Loop("orderers", NumOrderers, "peers") /\ UNCHANGED <<inflight, faults>>
    <3>1. /\ orderer' \in [Orderers -> {"none", "onboarding", "active"}]
          /\ members' \subseteq Peers /\ anchors' \subseteq Orgs
      BY <2>1, <2>3, AppliesType DEF StateInv
    <3>2. NodesType'
      BY <2>3, <3>1 DEF StateInv, NodesType
    <3>3. Loop("orderers", NumOrderers, "peers") /\ UNCHANGED faults
      BY <2>3
    <3>4. ControlType' /\ LoopInv'
      BY <2>0, <3>3 DEF StateInv, ControlType, LoopInv, Steps, Loop, Goto
    <3> QED BY <3>2, <3>4 DEF StateInv
  <2>4. CASE Refused \/ Fault({}) \/ Fault({c})
    BY <2>1, <2>4, AttemptType
  <2> QED BY <1>2, <2>2, <2>3, <2>4 DEF JoinOrderer, JoinUnlessDone
<1>3. CASE JoinPeer
  <2>0. pc = "peers"
    BY <1>3 DEF JoinPeer
  <2> DEFINE c == Call("join peer", idx)
  <2>a. idx \in Peers
    BY <2>0 DEF Peers, StateInv, ControlType, LoopInv
  <2>1. c \in Calls
    BY <2>a, CallTypes
  <2>2. CASE Loop("peers", NumPeers, AfterPeers) /\ UNCHANGED <<network, faults>>
    BY <2>0, <2>2 DEF StateInv, ControlType, NodesType, LoopInv, Steps, Loop, Goto, AfterPeers, network
  <2>3. CASE Applies(c) /\ Loop("peers", NumPeers, AfterPeers) /\ UNCHANGED <<inflight, faults>>
    <3>1. /\ orderer' \in [Orderers -> {"none", "onboarding", "active"}]
          /\ members' \subseteq Peers /\ anchors' \subseteq Orgs
      BY <2>1, <2>3, AppliesType DEF StateInv
    <3>2. NodesType'
      BY <2>3, <3>1 DEF StateInv, NodesType
    <3>3. Loop("peers", NumPeers, AfterPeers) /\ UNCHANGED faults
      BY <2>3
    <3>4. ControlType' /\ LoopInv'
      BY <2>0, <3>3 DEF StateInv, ControlType, LoopInv, Steps, Loop, Goto, AfterPeers
    <3> QED BY <3>2, <3>4 DEF StateInv
  <2>4. CASE Refused \/ Fault({}) \/ Fault({c})
    BY <2>1, <2>4, AttemptType
  <2> QED BY <1>3, <2>2, <2>3, <2>4 DEF JoinPeer, JoinUnlessDone
<1>4. CASE CreateBySystemChannel
  <2> DEFINE c == Call("create", 1)
  <2>1. c \in Calls
    BY CallTypes
  <2>2. CASE Goto("fetch", 1) /\ UNCHANGED <<network, faults>>
    BY <1>4, <2>2 DEF CreateBySystemChannel, Goto, network,
       StateInv, ControlType, NodesType, LoopInv, Steps
  <2>3. CASE /\ Goto("fetch", 1) /\ inflight' = inflight \cup {c}
             /\ UNCHANGED <<orderer, channel, members, anchors, faults>>
    BY <1>4, <2>1, <2>3 DEF CreateBySystemChannel, Goto,
       StateInv, ControlType, NodesType, LoopInv, Steps
  <2>4. CASE Refused \/ Fault({}) \/ Fault({c})
    BY <2>1, <2>4, AttemptType
  <2> QED BY <1>4, <2>2, <2>3, <2>4 DEF CreateBySystemChannel, Broadcast
<1>5. CASE FetchGenesisBlock
  <2>1. CASE Goto("peers", 1) /\ UNCHANGED <<network, faults>>
    BY <2>1 DEF Goto, network,
       StateInv, ControlType, NodesType, LoopInv, Steps
  <2>2. CASE Refused \/ Fault({})
    BY <2>2, CallTypes, AttemptType
  <2> QED BY <1>5, <2>1, <2>2 DEF FetchGenesisBlock
<1>6. CASE UpdateAnchorPeers
  <2>0. pc = "anchors"
    BY <1>6 DEF UpdateAnchorPeers
  <2> DEFINE c == Call("anchors", idx)
  <2>a. idx \in Orgs
    BY <2>0 DEF Orgs, StateInv, ControlType, LoopInv
  <2>1. c \in Calls
    BY <2>a, CallTypes
  <2>2. CASE /\ Loop("anchors", NumOrgs, "ok") /\ inflight' = inflight \cup {c}
             /\ UNCHANGED <<orderer, channel, members, anchors, faults>>
    BY <2>0, <2>1, <2>2 DEF StateInv, ControlType, NodesType, LoopInv, Steps, Loop, Goto
  <2>3. CASE Refused \/ Fault({c})
    BY <2>1, <2>3, AttemptType
  <2> QED BY <1>6, <2>2, <2>3 DEF UpdateAnchorPeers, Broadcast
<1>7. CASE Stop
  BY <1>7 DEF Stop, Goto, network,
       StateInv, ControlType, NodesType, LoopInv, Steps
<1>8. CASE Down
  BY <1>8 DEF Down, Goto,
       StateInv, ControlType, NodesType, LoopInv, Steps
<1>9. ASSUME NEW c \in inflight, Land(c) PROVE StateInv'
  <2>1. c \in Calls /\ NodesType
    BY DEF StateInv, NodesType
  <2>2. /\ orderer' \in [Orderers -> {"none", "onboarding", "active"}]
        /\ members' \subseteq Peers /\ anchors' \subseteq Orgs
    BY <1>9, <2>1, AppliesType DEF Land, NodesType
  <2> QED BY <1>9, <2>2 DEF Land, run,
       StateInv, ControlType, NodesType, LoopInv, Steps
<1>10. ASSUME NEW o \in Orderers, CatchUp(o) PROVE StateInv'
  BY <1>10 DEF CatchUp, run,
       StateInv, ControlType, NodesType, LoopInv, Steps
<1>11. CASE UNCHANGED vars
  BY <1>11 DEF vars, run, network,
       StateInv, ControlType, NodesType, LoopInv, Steps
<1> QED
  BY <1>1, <1>2, <1>3, <1>4, <1>5, <1>6, <1>7, <1>8, <1>9, <1>10, <1>11 DEF Next, UpStep

\* `up` keeps its state well typed: attempts within Retries, calls and nodes of the
\* network, whatever fails, arrives late or is taken down.
THEOREM UpTypeCorrect == Spec => []TypeOK
<1>1. FlagsType /\ StateInv => TypeOK
  BY DEF FlagsType, StateInv, ControlType, NodesType, TypeOK
<1> QED BY <1>1, UpTypeInit, FlagsStep, UpTypeStep, PTL DEF Spec

-----------------------------------------------------------------------------
(* Success means every node is a member, and peers join last.               *)

\* An accepted call only adds members, and makes its own node one.
LEMMA AppliesJoins ==
  ASSUME NodesType, NEW c \in Calls, Applies(c)
  PROVE  /\ \A o \in Orderers : orderer[o] # "none" => orderer'[o] # "none"
         /\ members \subseteq members'
         /\ c.kind # "join peer" => members' = members
         /\ c.kind = "join peer" => c.of \in members'
         /\ c.kind = "join orderer" => orderer'[c.of] # "none"
         /\ ChannelMade => ChannelMade'
<1>1. c.kind = "join orderer" => c.of \in Orderers
  BY DEF Calls
<1>2. /\ \A o \in Orderers : orderer[o] # "none" => orderer'[o] # "none"
      /\ c.kind = "join orderer" => orderer'[c.of] # "none"
  BY <1>1 DEF Applies, NodesType
<1>3. /\ members \subseteq members'
      /\ c.kind # "join peer" => members' = members
      /\ c.kind = "join peer" => c.of \in members'
  BY DEF Applies
<1>4. channel => channel'
  BY DEF Applies
<1>5. ChannelMade => ChannelMade'
  BY <1>2, <1>4 DEF ChannelMade
<1> QED BY <1>2, <1>3, <1>5

\* A failed attempt keeps what is joined, and leaves a peer's join behind only if the
\* channel is made.
LEMMA AttemptKeepsJoins ==
  ASSUME StateInv, JoinInv, NEW c \in Calls, Refused \/ Fault({}) \/ Fault({c}),
         pc \in Steps, c.kind = "join peer" => ChannelMade
  PROVE  JoinInv'
<1>1. pc' \in {pc, "failed"} /\ idx' = idx
  BY AttemptMoves DEF Refused, Fault
<1>2. /\ UNCHANGED <<orderer, channel, members>>
      /\ inflight' = inflight \/ inflight' \subseteq inflight \cup {c}
  BY DEF Refused, Fault, network
<1>3. ChannelMade' = ChannelMade
  BY <1>2 DEF ChannelMade
<1>4. PeersJoinLast'
  BY <1>2, <1>3 DEF JoinInv, PeersJoinLast
<1> QED BY <1>1, <1>2, <1>3, <1>4 DEF JoinInv, Steps

\* Nothing is joined at the start.
LEMMA JoinInit == Init => JoinInv
BY DEF Init, JoinInv, PeersJoinLast

\* Each action keeps the join invariant.
LEMMA JoinStep == StateInv /\ JoinInv /\ [Next]_vars => JoinInv'
<1> SUFFICES ASSUME StateInv, JoinInv, [Next]_vars PROVE JoinInv'
  OBVIOUS
<1>0. NodesType
  BY DEF StateInv
<1>1. CASE Start
  <2>1. /\ pc' \in {"create", "orderers"} /\ idx' = 1
        /\ UNCHANGED <<orderer, channel, members, inflight>>
    BY <1>1 DEF Start, Goto, FirstStep, network
  <2>2. PeersJoinLast'
    BY <2>1 DEF JoinInv, PeersJoinLast, ChannelMade
  <2> QED BY <2>1, <2>2 DEF JoinInv, Orderers
<1>2. CASE JoinOrderer
  <2>1. pc = "orderers" /\ ~SystemChannel
    BY <1>2 DEF JoinOrderer, StateInv, LoopInv
  <2>2. idx \in Orderers
    BY <2>1 DEF StateInv, ControlType, LoopInv, Orderers
  <2> DEFINE c == Call("join orderer", idx)
  <2>3. c \in Calls /\ c.kind = "join orderer" /\ c.of = idx
    BY <2>2, CallTypes DEF Call
  <2>4. ASSUME Loop("orderers", NumOrderers, "peers"), orderer'[idx] # "none",
               \A o \in Orderers : orderer[o] # "none" => orderer'[o] # "none",
               UNCHANGED <<members, inflight>>, ChannelMade => ChannelMade'
        PROVE  JoinInv'
    <3>1. PeersJoinLast'
      BY <2>4 DEF JoinInv, PeersJoinLast
    <3>2. \A o \in Orderers : o <= idx => orderer'[o] # "none"
      BY <2>1, <2>2, <2>4 DEF JoinInv, Orderers
    <3>3. CASE idx < NumOrderers
      BY <2>2, <2>4, <3>1, <3>2, <3>3 DEF Loop, Goto, JoinInv, Orderers
    <3>4. CASE ~(idx < NumOrderers)
      <4>1. pc' = "peers" /\ idx' = 1
        BY <2>4, <3>4 DEF Loop, Goto
      <4>2. \A o \in Orderers : orderer'[o] # "none"
        BY <2>2, <3>2, <3>4 DEF Orderers
      <4> QED BY <2>1, <3>1, <4>1, <4>2 DEF JoinInv, ChannelMade, Peers
    <3> QED BY <3>3, <3>4
  <2>5. CASE /\ orderer[idx] = "active" /\ Loop("orderers", NumOrderers, "peers")
             /\ UNCHANGED <<network, created, faults>>
    <3>1. UNCHANGED <<orderer, channel, members, inflight>>
      BY <2>5 DEF network
    <3> QED BY <2>4, <2>5, <3>1 DEF ChannelMade
  <2>6. CASE /\ Applies(c) /\ Loop("orderers", NumOrderers, "peers")
             /\ UNCHANGED <<inflight, created, faults>>
    BY <1>0, <2>3, <2>4, <2>6, AppliesJoins
  <2>7. CASE Refused \/ Fault({}) \/ Fault({c})
    BY <2>1, <2>3, <2>7, AttemptKeepsJoins DEF Steps
  <2> QED BY <1>2, <2>5, <2>6, <2>7 DEF JoinOrderer, JoinUnlessDone
<1>3. CASE JoinPeer
  <2>1. pc = "peers" /\ ChannelMade
    BY <1>3 DEF JoinPeer, JoinInv
  <2>2. idx \in Peers
    BY <2>1 DEF StateInv, ControlType, LoopInv, Peers
  <2> DEFINE c == Call("join peer", idx)
  <2>3. c \in Calls /\ c.kind = "join peer" /\ c.of = idx
    BY <2>2, CallTypes DEF Call
  <2>4. ASSUME Loop("peers", NumPeers, AfterPeers), idx \in members',
               members \subseteq members', members' \subseteq Peers, ChannelMade'
        PROVE  JoinInv'
    <3>1. \A q \in Peers : q <= idx => q \in members'
      BY <2>1, <2>2, <2>4 DEF JoinInv, Peers
    <3>2. CASE idx < NumPeers
      <4>1. pc' = "peers" /\ idx' = idx + 1
        BY <2>4, <3>2 DEF Loop, Goto
      <4>2. \A q \in Peers : q < idx' => q \in members'
        BY <2>2, <3>1, <4>1 DEF Peers
      <4> QED BY <2>4, <4>1, <4>2 DEF JoinInv, PeersJoinLast
    <3>3. CASE ~(idx < NumPeers)
      <4>1. pc' \in {"anchors", "ok"}
        BY <2>4, <3>3 DEF Loop, Goto, AfterPeers
      <4>2. members' = Peers
        <5>1. \A q \in Peers : q \in members'
          BY <2>2, <3>1, <3>3 DEF Peers
        <5> QED BY <2>4, <5>1
      <4> QED BY <2>4, <4>1, <4>2 DEF JoinInv, PeersJoinLast
    <3> QED BY <3>2, <3>3
  <2>5. CASE /\ idx \in members /\ Loop("peers", NumPeers, AfterPeers)
             /\ UNCHANGED <<network, created, faults>>
    <3>1. UNCHANGED <<orderer, channel, members>> /\ members \subseteq Peers
      BY <1>0, <2>5 DEF network, NodesType
    <3>2. ChannelMade'
      BY <2>1, <3>1 DEF ChannelMade
    <3> QED BY <2>4, <2>5, <3>1, <3>2
  <2>6. CASE /\ Applies(c) /\ Loop("peers", NumPeers, AfterPeers)
             /\ UNCHANGED <<inflight, created, faults>>
    <3>1. members' \subseteq Peers
      BY <1>0, <2>3, <2>6, AppliesType
    <3> QED BY <1>0, <2>1, <2>3, <2>4, <2>6, <3>1, AppliesJoins
  <2>7. CASE Refused \/ Fault({}) \/ Fault({c})
    BY <2>1, <2>3, <2>7, AttemptKeepsJoins DEF Steps
  <2> QED BY <1>3, <2>5, <2>6, <2>7 DEF JoinPeer, JoinUnlessDone
<1>4. CASE CreateBySystemChannel
  <2> DEFINE c == Call("create", 1)
  <2>1. c \in Calls /\ c.kind = "create"
    BY CallTypes DEF Call
  <2>2. pc = "create"
    BY <1>4 DEF CreateBySystemChannel
  <2>3. ASSUME Goto("fetch", 1), UNCHANGED <<orderer, channel, members>>,
               inflight' \subseteq inflight \cup {c}
        PROVE  JoinInv'
    BY <2>1, <2>3 DEF Goto, JoinInv, PeersJoinLast, ChannelMade
  <2>4. CASE Goto("fetch", 1) /\ UNCHANGED <<created, network, faults>>
    BY <2>3, <2>4 DEF network
  <2>5. CASE /\ Goto("fetch", 1) /\ inflight' = inflight \cup {c}
             /\ UNCHANGED <<orderer, channel, members, anchors, faults>>
    BY <2>3, <2>5
  <2>6. CASE Refused \/ Fault({}) \/ Fault({c})
    BY <2>1, <2>2, <2>6, AttemptKeepsJoins DEF Steps
  <2> QED BY <1>4, <2>4, <2>5, <2>6 DEF CreateBySystemChannel, Broadcast
<1>5. CASE FetchGenesisBlock
  <2>1. pc = "fetch" /\ SystemChannel
    BY <1>5 DEF FetchGenesisBlock, StateInv, LoopInv
  <2>2. CASE channel /\ Goto("peers", 1) /\ UNCHANGED <<created, network, faults>>
    <3>1. UNCHANGED <<orderer, channel, members, inflight>> /\ ChannelMade
      BY <2>1, <2>2 DEF network, ChannelMade
    <3>2. ChannelMade'
      BY <3>1 DEF ChannelMade
    <3>3. pc' = "peers" /\ idx' = 1
      BY <2>2 DEF Goto
    <3>4. \A q \in Peers : q < idx' => q \in members'
      BY <3>3 DEF Peers
    <3> QED BY <3>2, <3>3, <3>4 DEF JoinInv, PeersJoinLast
  <2>3. CASE Refused \/ Fault({})
    <3>1. Call("create", 1) \in Calls /\ Call("create", 1).kind = "create"
      BY CallTypes DEF Call
    <3> QED BY <2>1, <2>3, <3>1, AttemptKeepsJoins DEF Steps
  <2> QED BY <1>5, <2>2, <2>3 DEF FetchGenesisBlock
<1>6. CASE UpdateAnchorPeers
  <2>1. pc = "anchors" /\ ChannelMade /\ members = Peers
    BY <1>6 DEF UpdateAnchorPeers, JoinInv
  <2>2. idx \in Orgs
    BY <2>1 DEF StateInv, ControlType, LoopInv, Orgs
  <2> DEFINE c == Call("anchors", idx)
  <2>3. c \in Calls /\ c.kind = "anchors"
    BY <2>2, CallTypes DEF Call
  <2>4. CASE /\ Loop("anchors", NumOrgs, "ok")
             /\ UNCHANGED <<orderer, channel, members, anchors, faults>>
    <3>1. ChannelMade' /\ members' = Peers
      BY <2>1, <2>4 DEF ChannelMade
    <3> QED BY <2>4, <3>1 DEF Loop, Goto, JoinInv, PeersJoinLast
  <2>5. CASE Refused \/ Fault({c})
    BY <2>1, <2>3, <2>5, AttemptKeepsJoins DEF Steps
  <2> QED BY <1>6, <2>4, <2>5 DEF UpdateAnchorPeers, Broadcast
<1>7. CASE Stop
  <2>1. pc' = "failed" /\ UNCHANGED <<orderer, channel, members, inflight>>
    BY <1>7 DEF Stop, Goto, network
  <2> QED BY <2>1 DEF JoinInv, PeersJoinLast, ChannelMade
<1>8. CASE Down
  BY <1>8 DEF Down, Goto, JoinInv, PeersJoinLast
<1>9. ASSUME NEW c \in inflight, Land(c) PROVE JoinInv'
  <2>1. c \in Calls /\ UNCHANGED <<pc, idx>> /\ inflight' \subseteq inflight
    BY <1>0, <1>9 DEF NodesType, Land, run
  <2>2. /\ \A o \in Orderers : orderer[o] # "none" => orderer'[o] # "none"
        /\ members \subseteq members'
        /\ c.kind # "join peer" => members' = members
        /\ ChannelMade => ChannelMade'
    <3>1. CASE Applies(c)
      BY <1>0, <2>1, <3>1, AppliesJoins
    <3>2. CASE UNCHANGED <<orderer, channel, members, anchors>>
      BY <3>2 DEF ChannelMade
    <3> QED BY <1>9, <3>1, <3>2 DEF Land
  <2>3. members' \subseteq Peers
    BY <1>0, <1>9, <2>1, AppliesType DEF Land, NodesType
  <2>4. PeersJoinLast'
    BY <1>9, <2>1, <2>2 DEF JoinInv, PeersJoinLast
  <2> QED BY <2>1, <2>2, <2>3, <2>4 DEF JoinInv
<1>10. ASSUME NEW o \in Orderers, CatchUp(o) PROVE JoinInv'
  <2>1. /\ UNCHANGED <<pc, idx, channel, members, inflight>>
        /\ \A q \in Orderers : orderer[q] # "none" => orderer'[q] # "none"
    BY <1>0, <1>10 DEF CatchUp, run, NodesType
  <2>2. ChannelMade => ChannelMade'
    BY <2>1 DEF ChannelMade
  <2> QED BY <2>1, <2>2 DEF JoinInv, PeersJoinLast
<1>11. CASE UNCHANGED vars
  <2>1. UNCHANGED <<pc, idx, orderer, channel, members, inflight>>
    BY <1>11 DEF vars, run, network
  <2> QED BY <2>1 DEF JoinInv, PeersJoinLast, ChannelMade
<1> QED
  BY <1>1, <1>2, <1>3, <1>4, <1>5, <1>6, <1>7, <1>8, <1>9, <1>10, <1>11 DEF Next, UpStep

\* When `up` reports success, every peer is a member and every orderer has the channel,
\* for any number of nodes, retries and failures.
THEOREM UpCompletes == Spec => []UpIsComplete
<1>1. JoinInv => UpIsComplete
  BY DEF JoinInv, UpIsComplete
<1> QED BY <1>1, UpTypeInit, UpTypeStep, JoinInit, JoinStep, PTL DEF Spec

\* No peer joins, now or by a join that is still under way, a channel that an orderer
\* may lack.
THEOREM PeersJoinAfterOrderers == Spec => []PeersJoinLast
<1>1. JoinInv => PeersJoinLast
  BY DEF JoinInv
<1> QED BY <1>1, UpTypeInit, UpTypeStep, JoinInit, JoinStep, PTL DEF Spec

-----------------------------------------------------------------------------
(* The run that created the channel sends every anchor update.              *)

\* The org's anchor update is in the channel's config or will be ordered.
Sent(i) == i \in anchors \/ Call("anchors", i) \in inflight

\* The orgs before idx have theirs; only a run that created a system channel sends any.
AnchorInv ==
  /\ created => SystemChannel
  /\ pc = "anchors" => created
  /\ pc = "anchors" => \A i \in Orgs : i < idx => Sent(i)
  /\ pc = "ok" /\ created => \A i \in Orgs : Sent(i)

\* An update that lands in a channel that exists is in its config then.
LEMMA SentLands ==
  ASSUME NEW i \in Orgs, Sent(i), channel, NEW c \in inflight, Land(c)
  PROVE  Sent(i)'
<1>1. CASE c = Call("anchors", i) /\ i \notin anchors
  <2>1. c.kind = "anchors" /\ c.of = i
    BY <1>1 DEF Call
  <2>2. Accepts(c)
    BY <1>1, <2>1 DEF Accepts
  <2>3. i \in anchors'
    BY <2>1, <2>2 DEF Land, Applies
  <2> QED BY <2>3 DEF Sent
<1>2. CASE c # Call("anchors", i) \/ i \in anchors
  BY <1>2 DEF Sent, Land, Applies, Call
<1> QED BY <1>1, <1>2

\* Nothing but a landing takes an update out of flight while a run is in the anchor
\* updates or has succeeded, and down ends that.
LEMMA SentStays ==
  ASSUME NEW i \in Orgs, Sent(i), anchors \subseteq anchors', inflight \subseteq inflight'
  PROVE  Sent(i)'
BY DEF Sent

\* A failed attempt keeps what is sent.
LEMMA AttemptKeepsSent ==
  ASSUME StateInv, AnchorInv, NEW c, Refused \/ Fault({}) \/ Fault({c}), pc \in Steps
  PROVE  AnchorInv'
<1>1. /\ pc' \in {pc, "failed"} /\ idx' = idx /\ created' = created
      /\ anchors' = anchors /\ inflight \subseteq inflight'
  BY AttemptMoves DEF Refused, Fault, network, AttemptFails
<1>2. \A i \in Orgs : Sent(i) => Sent(i)'
  BY <1>1, SentStays
<1> QED BY <1>1, <1>2 DEF AnchorInv, Steps

\* Each action keeps the anchor invariant.
LEMMA AnchorStep == StateInv /\ JoinInv /\ AnchorInv /\ [Next]_vars => AnchorInv'
<1> SUFFICES ASSUME StateInv, JoinInv, AnchorInv, [Next]_vars PROVE AnchorInv'
  OBVIOUS
<1>0. pc = "anchors" \/ (pc = "ok" /\ created) => channel
  BY DEF JoinInv, ChannelMade, AnchorInv, StateInv, LoopInv
<1>1. CASE Start
  BY <1>1 DEF Start, Goto, FirstStep, AnchorInv
<1>2. CASE JoinOrderer
  <2>1. pc = "orderers"
    BY <1>2 DEF JoinOrderer
  <2>2. CASE Loop("orderers", NumOrderers, "peers") /\ UNCHANGED created
    BY <2>1, <2>2 DEF Loop, Goto, AnchorInv
  <2>3. CASE Refused \/ Fault({}) \/ Fault({Call("join orderer", idx)})
    BY <2>1, <2>3, AttemptKeepsSent DEF Steps
  <2> QED BY <1>2, <2>2, <2>3 DEF JoinOrderer, JoinUnlessDone
<1>3. CASE JoinPeer
  <2>1. pc = "peers"
    BY <1>3 DEF JoinPeer
  <2>2. CASE Loop("peers", NumPeers, AfterPeers) /\ UNCHANGED created
    <3>1. CASE idx < NumPeers
      BY <2>2, <3>1 DEF Loop, Goto, AnchorInv
    <3>2. CASE ~(idx < NumPeers)
      <4>1. pc' = AfterPeers /\ idx' = 1 /\ created' = created
        BY <2>2, <3>2 DEF Loop, Goto
      <4>2. \A i \in Orgs : ~(i < 1)
        BY DEF Orgs
      <4> QED BY <4>1, <4>2 DEF AfterPeers, AnchorInv
    <3> QED BY <3>1, <3>2
  <2>3. CASE Refused \/ Fault({}) \/ Fault({Call("join peer", idx)})
    BY <2>1, <2>3, AttemptKeepsSent DEF Steps
  <2> QED BY <1>3, <2>2, <2>3 DEF JoinPeer, JoinUnlessDone
<1>4. CASE CreateBySystemChannel
  <2>1. pc = "create" /\ SystemChannel
    BY <1>4 DEF CreateBySystemChannel, StateInv, LoopInv
  <2>2. CASE Goto("fetch", 1)
    BY <2>1, <2>2 DEF Goto, AnchorInv
  <2>3. CASE Refused \/ Fault({}) \/ Fault({Call("create", 1)})
    BY <2>1, <2>3, AttemptKeepsSent DEF Steps
  <2> QED BY <1>4, <2>2, <2>3 DEF CreateBySystemChannel, Broadcast
<1>5. CASE FetchGenesisBlock
  <2>1. pc = "fetch"
    BY <1>5 DEF FetchGenesisBlock
  <2>2. CASE Goto("peers", 1) /\ UNCHANGED created
    BY <2>2 DEF Goto, AnchorInv
  <2>3. CASE Refused \/ Fault({})
    BY <2>1, <2>3, AttemptKeepsSent DEF Steps
  <2> QED BY <1>5, <2>2, <2>3 DEF FetchGenesisBlock
<1>6. CASE UpdateAnchorPeers
  <2>1. pc = "anchors" /\ idx \in Orgs
    BY <1>6 DEF UpdateAnchorPeers, StateInv, ControlType, LoopInv, Orgs
  <2> DEFINE c == Call("anchors", idx)
  <2>2. CASE /\ Loop("anchors", NumOrgs, "ok") /\ inflight' = inflight \cup {c}
             /\ UNCHANGED <<created, anchors>>
    <3>1. \A i \in Orgs : Sent(i) => Sent(i)'
      BY <2>2, SentStays
    <3>3. \A i \in Orgs : i < idx + 1 => Sent(i)'
      <4> SUFFICES ASSUME NEW i \in Orgs, i < idx + 1 PROVE Sent(i)'
        OBVIOUS
      <4>1. i < idx \/ i = idx
        BY <2>1 DEF Orgs
      <4>2. CASE i < idx
        BY <2>1, <3>1, <4>2 DEF AnchorInv
      <4>3. CASE i = idx
        BY <2>2, <4>3 DEF Sent
      <4> QED BY <4>1, <4>2, <4>3
    <3>4. CASE idx < NumOrgs
      BY <2>1, <2>2, <3>3, <3>4 DEF Loop, Goto, AnchorInv
    <3>5. CASE ~(idx < NumOrgs)
      <4>1. \A i \in Orgs : i < idx + 1
        BY <2>1, <3>5 DEF Orgs
      <4>2. pc' = "ok" /\ created' = created
        BY <2>2, <3>5 DEF Loop, Goto
      <4> QED BY <3>3, <4>1, <4>2 DEF AnchorInv
    <3> QED BY <3>4, <3>5
  <2>3. CASE Refused \/ Fault({c})
    BY <2>1, <2>3, AttemptKeepsSent DEF Steps
  <2> QED BY <1>6, <2>2, <2>3 DEF UpdateAnchorPeers, Broadcast
<1>7. CASE Stop
  BY <1>7 DEF Stop, Goto, AnchorInv
<1>8. CASE Down
  BY <1>8 DEF Down, Goto, AnchorInv
<1>9. ASSUME NEW c \in inflight, Land(c) PROVE AnchorInv'
  <2>1. UNCHANGED <<pc, idx, created>>
    BY <1>9 DEF Land, run
  <2>2. channel => \A i \in Orgs : Sent(i) => Sent(i)'
    BY <1>9, SentLands
  <2> QED BY <1>0, <2>1, <2>2 DEF AnchorInv
<1>10. CASE (\E o \in Orderers : CatchUp(o)) \/ UNCHANGED vars
  <2>1. UNCHANGED <<pc, idx, created, anchors, inflight>>
    BY <1>10 DEF CatchUp, run, vars, network
  <2> QED BY <2>1 DEF AnchorInv, Sent
<1> QED
  BY <1>1, <1>2, <1>3, <1>4, <1>5, <1>6, <1>7, <1>8, <1>9, <1>10 DEF Next, UpStep

\* Nothing is sent at the start.
LEMMA AnchorInit == Init => AnchorInv
BY DEF Init, AnchorInv

\* A run of `up` that created a system channel and succeeded leaves every org's anchor
\* update in the channel's config or on its way there, whatever failed or was repeated
\* (CreateSystemChannel).
THEOREM CreatorSends == Spec => []CreatorSendsAnchors
<1>1. AnchorInv => CreatorSendsAnchors
  BY DEF AnchorInv, CreatorSendsAnchors, Sent
<1> QED BY <1>1, AnchorInit, AnchorStep, UpTypeInit, UpTypeStep, JoinInit, JoinStep, PTL DEF Spec

-----------------------------------------------------------------------------
(* A network that is complete can be started again.                         *)

\* Nothing refuses what a run asks of a complete network: all of it is done.
LEMMA NothingRefuses ==
  ASSUME StateInv, AnchorInv, Complete, ~created, [Next]_vars, pc \in Steps, faults' = faults
  PROVE  pc' # "failed"
<1>0. pc # "failed" /\ faults \in Nat
  BY DEF Steps, StateInv, ControlType
<1>a. ASSUME NEW S, Fault(S) PROVE FALSE
  <2>1. faults' = faults + 1
    BY <1>a DEF Fault
  <2> QED BY <1>0, <2>1
<1>1. CASE JoinOrderer
  <2>1. pc = "orderers" /\ ~SystemChannel
    BY <1>1 DEF JoinOrderer, StateInv, LoopInv
  <2>a. idx \in Orderers
    BY <2>1 DEF StateInv, ControlType, LoopInv, Orderers
  <2>2. orderer[idx] = "active"
    BY <2>1, <2>a DEF Complete
  <2>3. Loop("orderers", NumOrderers, "peers")
    BY <1>a, <1>1, <2>2 DEF JoinOrderer, JoinUnlessDone
  <2> QED BY <2>3 DEF Loop, Goto
<1>2. CASE JoinPeer
  <2>1. pc = "peers"
    BY <1>2 DEF JoinPeer
  <2>a. idx \in Peers
    BY <2>1 DEF StateInv, ControlType, LoopInv, Peers
  <2>2. idx \in members
    BY <2>a DEF Complete
  <2>3. Loop("peers", NumPeers, AfterPeers)
    BY <1>a, <1>2, <2>2 DEF JoinPeer, JoinUnlessDone
  <2> QED BY <2>3 DEF Loop, Goto, AfterPeers
<1>3. CASE CreateBySystemChannel \/ FetchGenesisBlock
  <2>1. SystemChannel /\ channel
    BY <1>3 DEF CreateBySystemChannel, FetchGenesisBlock, StateInv, LoopInv, Complete
  <2> QED BY <1>a, <1>3, <2>1 DEF CreateBySystemChannel, FetchGenesisBlock, Goto
<1>4. CASE UpdateAnchorPeers
  BY <1>4 DEF UpdateAnchorPeers, AnchorInv
<1>5. CASE Start \/ Stop \/ Down
  BY <1>0, <1>5 DEF Start, Stop, Down, Goto, FirstStep
<1>6. CASE (\E c \in inflight : Land(c)) \/ (\E o \in Orderers : CatchUp(o)) \/ UNCHANGED vars
  BY <1>0, <1>6 DEF Land, CatchUp, run, vars
<1> QED BY <1>1, <1>2, <1>3, <1>4, <1>5, <1>6 DEF Next, UpStep

\* A run of `up` on a network that is complete fails only if a call fails: it skips what
\* it finds done, for any number of nodes (ordererActive, JoinPeers, CreateSystemChannel).
THEOREM RestartsSucceed == Spec => RestartSucceeds
<1>1. StateInv /\ AnchorInv /\ [Next]_vars =>
        [Complete /\ ~created /\ pc \in Steps /\ faults' = faults => pc' # "failed"]_vars
  BY NothingRefuses
<1> QED
  BY <1>1, AnchorInit, AnchorStep, UpTypeInit, UpTypeStep, JoinInit, JoinStep, PTL
     DEF Spec, RestartSucceeds
=============================================================================
