--------------------------------- MODULE Up ---------------------------------
(***************************************************************************)
(* `fabric up` (cli.go, up) and what it makes of the channel:              *)
(*   - a network of this version: CreateChannel joins each orderer with     *)
(*     the channel's genesis block, JoinPeers then joins each peer;         *)
(*   - a network of v0.0.10 or earlier (SystemChannel): CreateSystemChannel *)
(*     broadcasts channel.tx, fetches the genesis block, joins each peer    *)
(*     and, if it created the channel, broadcasts each org's anchor update. *)
(* Every call is retried, skips what it finds done, and may fail before or  *)
(* after it took effect, or take effect after the caller gave up on it.     *)
(* The user runs `up` again after a failure or to restart the network, and  *)
(* `down` removes the containers with their ledgers.                        *)
(***************************************************************************)
EXTENDS Naturals

CONSTANTS
  NumOrderers,   \* in the order of ORDERER_INDICES; the first one is dialled
  NumPeers,      \* in the order forEachPeer visits them
  NumOrgs,       \* in the order of ORG_INDICES
  Retries,       \* attempts of a retried step (New sets 5)
  SystemChannel, \* what systemChannelNetwork finds in channel-artifacts
  MaxFaults      \* bound: calls that fail though nothing refuses them, runs that
                 \* are stopped, networks that are taken down

Orderers == 1..NumOrderers
Peers    == 1..NumPeers
Orgs     == 1..NumOrgs

ASSUME UpSizes ==
  /\ NumOrderers \in Nat \ {0}
  /\ NumPeers \in Nat \ {0}
  /\ NumOrgs \in Nat \ {0}
  /\ Retries \in Nat \ {0}
  /\ MaxFaults \in Nat
ASSUME UpKind == SystemChannel \in BOOLEAN

VARIABLES
  pc,        \* the step of `up`, "idle" when the network is down
  idx,       \* the orderer, peer or org of the step's loop
  attempt,   \* the attempt of Network.retry, from 1
  created,   \* CreateSystemChannel: whether this run's broadcast succeeded
  orderer,   \* per orderer: its status in the channel
  channel,   \* system channel network: the orderer has the channel
  members,   \* the peers that joined the channel
  anchors,   \* the orgs whose anchor update is in the channel's config
  inflight,  \* calls that have not taken effect yet, and may
  faults     \* calls that failed, runs stopped and networks taken down so far

run     == <<pc, idx, attempt, created>>
network == <<orderer, channel, members, anchors, inflight>>
vars    == <<run, network, faults>>

Steps == {"orderers", "create", "fetch", "peers", "anchors"}

\* The calls that change a node: a join, channel.tx, an org's anchor update.
Call(kind, of) == [kind |-> kind, of |-> of]
Calls == [kind : {"join orderer"}, of : Orderers] \cup [kind : {"join peer"}, of : Peers]
         \cup [kind : {"create"}, of : {1}] \cup [kind : {"anchors"}, of : Orgs]

TypeOK ==
  /\ pc \in Steps \cup {"idle", "ok", "failed"}
  /\ idx \in Nat \ {0}
  /\ attempt \in 1..Retries
  /\ created \in BOOLEAN
  /\ orderer \in [Orderers -> {"none", "onboarding", "active"}]
  /\ channel \in BOOLEAN
  /\ members \subseteq Peers
  /\ anchors \subseteq Orgs
  /\ inflight \subseteq Calls
  /\ faults \in 0..MaxFaults

Init ==
  /\ pc = "idle" /\ idx = 1 /\ attempt = 1 /\ created = FALSE
  /\ orderer = [o \in Orderers |-> "none"]
  /\ channel = FALSE /\ members = {} /\ anchors = {} /\ inflight = {}
  /\ faults = 0

-----------------------------------------------------------------------------
(* The nodes: a second join of a member and an update of a config that has  *)
(* changed since are refused (channel.go:51-53, systemchannel.go:198-201).  *)

Accepts(c) ==
  CASE c.kind = "join orderer" -> orderer[c.of] = "none"
    [] c.kind = "join peer"    -> c.of \notin members
    [] c.kind = "create"       -> ~channel
    [] c.kind = "anchors"      -> channel /\ c.of \notin anchors

\* An orderer that joins is active at once, or after it caught up.
Applies(c) ==
  /\ \/ /\ c.kind = "join orderer"
        /\ \E s \in {"onboarding", "active"} : orderer' = [orderer EXCEPT ![c.of] = s]
     \/ c.kind # "join orderer" /\ UNCHANGED orderer
  /\ channel' = (channel \/ c.kind = "create")
  /\ members' = members \cup (IF c.kind = "join peer" THEN {c.of} ELSE {})
  /\ anchors' = anchors \cup (IF c.kind = "anchors" THEN {c.of} ELSE {})

\* A call takes effect after its caller went on: an update the orderer accepted is
\* ordered, or a call that failed for the caller arrives after all.
Land(c) ==
  /\ c \in inflight
  /\ inflight' = inflight \ {c}
  /\ IF Accepts(c) THEN Applies(c) ELSE UNCHANGED <<orderer, channel, members, anchors>>
  /\ UNCHANGED <<run, faults>>

CatchUp(o) ==
  /\ orderer[o] = "onboarding"
  /\ orderer' = [orderer EXCEPT ![o] = "active"]
  /\ UNCHANGED <<run, channel, members, anchors, inflight, faults>>

-----------------------------------------------------------------------------
(* Network.retry and the loops over orderers, peers and orgs.               *)

Goto(step, i) == pc' = step /\ idx' = i /\ attempt' = 1

LoopShort(step, last, after) ==   \* faulty: the last member is left out
  IF idx + 1 < last THEN Goto(step, idx + 1) ELSE Goto(after, 1)

Loop(step, last, after) ==
  IF idx < last THEN Goto(step, idx + 1) ELSE Goto(after, 1)

AttemptFailsPast ==   \* faulty: one attempt too many
  /\ IF attempt <= Retries
     THEN attempt' = attempt + 1 /\ UNCHANGED pc
     ELSE pc' = "failed" /\ UNCHANGED attempt
  /\ UNCHANGED <<idx, created>>

AttemptFailsIgnored ==   \* faulty: the last error of a join is dropped
  /\ IF attempt < Retries
     THEN attempt' = attempt + 1 /\ UNCHANGED pc
     ELSE pc' = (IF pc = "peers" THEN "ok" ELSE "failed") /\ UNCHANGED attempt
  /\ UNCHANGED <<idx, created>>

AttemptFails ==
  /\ IF attempt < Retries
     THEN attempt' = attempt + 1 /\ UNCHANGED pc
     ELSE pc' = "failed" /\ UNCHANGED attempt
  /\ UNCHANGED <<idx, created>>

\* The node refuses the call, or does not have yet what is asked.
Refused == AttemptFails /\ UNCHANGED <<network, faults>>

\* A call fails: nothing was asked, or the answer is lost and c may still arrive.
Fault(Sent) ==
  /\ faults < MaxFaults
  /\ faults' = faults + 1
  /\ AttemptFails
  /\ \E s \in SUBSET Sent : inflight' = inflight \cup s
  /\ UNCHANGED <<orderer, channel, members, anchors>>

-----------------------------------------------------------------------------
(* `up`.                                                                    *)

FirstStepPeers ==   \* faulty: peers before orderers
  IF SystemChannel THEN "create" ELSE "peers"

FirstStep == IF SystemChannel THEN "create" ELSE "orderers"

Start ==
  /\ pc \in {"idle", "ok", "failed"}
  /\ Goto(FirstStep, 1)
  /\ created' = FALSE
  /\ UNCHANGED <<network, faults>>

JoinAgain(done, c, Proceed) ==   \* faulty: a member is not skipped
  \/ /\ Accepts(c)
     /\ Applies(c)
     /\ Proceed
     /\ UNCHANGED <<inflight, created, faults>>
  \/ ~Accepts(c) /\ Refused
  \/ Fault({c})

\* Ask whether it is done; if not, ask the node to join.
JoinUnlessDone(done, c, Proceed) ==
  \/ /\ done
     /\ Proceed
     /\ UNCHANGED <<network, created, faults>>
  \/ /\ ~done /\ Accepts(c)
     /\ Applies(c)
     /\ Proceed
     /\ UNCHANGED <<inflight, created, faults>>
  \/ ~done /\ ~Accepts(c) /\ Refused
  \/ Fault(IF done THEN {} ELSE {c})

\* CreateChannel: an orderer that is onboarding is not active yet and refuses.
JoinOrderer ==
  /\ pc = "orderers"
  /\ JoinUnlessDone(orderer[idx] = "active", Call("join orderer", idx),
                    Loop("orderers", NumOrderers, "peers"))

\* joinPeers; CreateSystemChannel goes on with the anchor updates if it created the
\* channel.
AfterPeers == IF SystemChannel /\ created THEN "anchors" ELSE "ok"

JoinPeer ==
  /\ pc = "peers"
  /\ JoinUnlessDone(idx \in members, Call("join peer", idx),
                    Loop("peers", NumPeers, AfterPeers))

\* The orderer accepts an update; it is ordered later.
Broadcast(c, Proceed) ==
  \/ Accepts(c) /\ Proceed /\ inflight' = inflight \cup {c}
     /\ UNCHANGED <<orderer, channel, members, anchors, faults>>
  \/ ~Accepts(c) /\ Refused
  \/ Fault({c})

CreateBySystemChannel ==
  /\ pc = "create"
  /\ \/ channel /\ Goto("fetch", 1) /\ UNCHANGED <<created, network, faults>>
     \/ channel /\ Fault({})
     \/ ~channel /\ Broadcast(Call("create", 1), Goto("fetch", 1) /\ created' = TRUE)

FetchGenesisBlock ==
  /\ pc = "fetch"
  /\ \/ channel /\ Goto("peers", 1) /\ UNCHANGED <<created, network, faults>>
     \/ ~channel /\ Refused
     \/ Fault({})

UpdateAnchorPeers ==
  /\ pc = "anchors"
  /\ Broadcast(Call("anchors", idx), Loop("anchors", NumOrgs, "ok") /\ UNCHANGED created)

\* Interrupted, or a step outside retry fails.
Stop ==
  /\ pc \in Steps /\ faults < MaxFaults
  /\ faults' = faults + 1
  /\ Goto("failed", 1)
  /\ UNCHANGED <<created, network>>

\* `down`: docker compose down --volumes.
Down ==
  /\ pc \in {"ok", "failed"} /\ faults < MaxFaults
  /\ faults' = faults + 1
  /\ Goto("idle", 1) /\ created' = FALSE
  /\ orderer' = [o \in Orderers |-> "none"]
  /\ channel' = FALSE /\ members' = {} /\ anchors' = {} /\ inflight' = {}

UpStep ==
  \/ JoinOrderer \/ JoinPeer \/ CreateBySystemChannel \/ FetchGenesisBlock
  \/ UpdateAnchorPeers

Next ==
  \/ Start \/ UpStep \/ Stop \/ Down
  \/ \E c \in inflight : Land(c)
  \/ \E o \in Orderers : CatchUp(o)

Spec == Init /\ [][Next]_vars

\* The user repeats `up` until it succeeds; every call has a deadline; what the nodes
\* accepted takes effect and they catch up.
Repeat == pc # "ok" /\ Start
FairSpec ==
  /\ Spec
  /\ WF_vars(Repeat) /\ WF_vars(UpStep)
  /\ WF_vars(\E c \in inflight : Land(c))
  /\ WF_vars(\E o \in Orderers : CatchUp(o))

-----------------------------------------------------------------------------
(* Correctness.                                                             *)

\* The orderers have the channel.
ChannelMade ==
  IF SystemChannel THEN channel ELSE \A o \in Orderers : orderer[o] # "none"

\* When `up` reports success, every peer is a member of the channel and so is every
\* orderer, whatever failed, arrived late or was left by earlier runs: nobody later
\* asks a node again.
UpIsComplete ==
  pc = "ok" => members = Peers /\ ChannelMade

\* No peer is a member of a channel that some orderer may still lack, not through a
\* join that arrives late or in a later run either: such a peer has nowhere to read
\* blocks from (JoinPeers comes after CreateChannel).
PeersJoinLast ==
  members # {} \/ (\E c \in inflight : c.kind = "join peer") => ChannelMade

\* A run of `up` on a network that is complete does not fail, unless a call fails:
\* "a second join fails with 405", "skipped, where the shell version failed after its
\* retries" (ordererActive, JoinPeers).
Complete ==
  /\ members = Peers
  /\ IF SystemChannel THEN channel ELSE \A o \in Orderers : orderer[o] = "active"
RestartSucceeds ==
  [][Complete /\ ~created /\ pc \in Steps /\ faults' = faults => pc' # "failed"]_vars

\* The run that created the channel and succeeded has every org's anchor update in
\* the channel's config, or accepted by the orderer.
CreatorSendsAnchors ==
  pc = "ok" /\ created =>
    \A i \in Orgs : i \in anchors \/ Call("anchors", i) \in inflight

\* "`up` is safe to run again" (README): repeated, it ends in success again and again,
\* whatever earlier runs left behind.
UpRecovers == []<>(pc = "ok")

\* A network that `up` reports ready has every org's anchor peers once nothing is in
\* flight: "its anchor peers are not updated again: a restarted network keeps them".
AnchorsKept ==
  SystemChannel /\ pc = "ok" /\ inflight = {} => anchors = Orgs
=============================================================================
