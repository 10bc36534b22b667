# Verification of fabric-network-builder

`fabric-network-builder` generates the files of a Hyperledger Fabric network, starts
it with Docker Compose, creates its channel, installs chaincodes on it, invokes
them and renews certificates.  It talks to processes that fail, answer late or
not at all, and it is run again and again on what an earlier run left behind.
These modules model those parts of it, TLC checks them on small instances, and
TLAPS proves the central safety properties for instances of any size.

`Lifecycle.tla` is the place to start: it is the longest procedure of the program.

## 1. The system

| Component | State it keeps | Operations | Interacts with | What is hard | What makes it correct |
|---|---|---|---|---|---|
| Chaincode lifecycle, `internal/admin/install.go` | per run: package, sequence, step; on the network: packages on peers, approvals, definitions | `Install`: read, installOn, nextSequence, approve, waitReady, commit, waitCommitted | peers and the orderer through the gateway; packages of `generatecc` | a call that fails may still take effect, each peer answers from its own copy of the ledger, runs repeat and overlap, packages are rebuilt | approvals name packages the peers have; a definition is committed once per run and only with all orgs; success means it is done |
| Channel creation, `internal/admin/channel.go` | channel membership of orderers and peers | `CreateChannel`, `JoinPeers` | orderer admin endpoints, peers | a second join is refused; an orderer that onboards is neither absent nor active | `up` can be repeated; peers join last; success is complete |
| System channel networks, `internal/admin/systemchannel.go` | channel, genesis block, anchor peers | `CreateSystemChannel`: create, fetch, join, anchors | orderer broadcast and deliver, peers | a broadcast is accepted first and ordered later; only the creating run sends anchors | as above, and the anchors are set |
| Retry and node loops, `internal/admin/admin.go` | attempt, member of the loop | `retry`, `forEachPeer`, `forEachOrg` | all of `internal/admin` | a whole closure is repeated after any of its calls failed | attempts are bounded; no error is dropped |
| Crypto material, `third_party/fabric/cryptogen` | the tree `crypto-config` | `Generate`, `Extend` | files | "exists" is asked of a directory, not of what it should hold | identities are signed by the CA beside them |
| Project files, `internal/cli/cli.go`, `ansible.go`, `internal/fabtools` | configuration files, `crypto-config`, `channel-artifacts` | `generate`, `extend`, `ansible-vars` | cryptogen, configtxgen | several directories replaced one after the other; a command cut short | artifacts name the tree's CAs; nothing is replaced without `--force` |
| Certificate renewal, `internal/certs` | the leaf certificates, backups | `Expiries`, `Reissue` | the same tree | one leaf of several fails; backup then overwrite | only selected leaves change; validity within the CA's; failure is reported |
| Containers, `internal/compose` | containers and the networks they are on, the route of the builder's own container, the addresses found | `Up`, `Down`, `Route`, `RemoveChaincodeContainers` | Docker | joining and leaving the network around every command; a network with two names and containers on both; chaincode containers that compose does not know | a command leaves the network it joined, `down` leaves nothing |
| Transactions, `internal/admin/invoke.go` | none | `Invoke`: endorse in turn, submit, commit status | peers, orderer | a lost answer after submission | success means committed as valid |
| Packages and images, `internal/chaincode`, `internal/cli/images.go` | `<label>.tar.gz`, `<label>.id` | `Build`, `Write`, `chaincodeIDs` | install, compose | two files that belong together | the ID is the package's |
| Topology and policies, `internal/topology` | none | `New`, policies, ports | templates, `generatecc` | few orgs, many nodes | no port twice; a policy that parses and that the default peers satisfy |
| Network variables, `internal/network` | none | `ReadVars` | scripts/network_vars.sh | – | the order of the loops |
| Config updates and policy language, `third_party/fabric/configtxlator`, `configtxgen`, `policydsl` | none | `Compute`, encoder, `FromString` | fabtools, install | read and write sets of an update | an update changes what differs and nothing else |
| Command line, `internal/cli/args.go`, `spec.go` | none | `parse` | – | options at two levels | – |
| Templates and scripts, `internal/render` | none | `Network`, `Write` | generate | layout | – |
| Connection identity, `third_party/fabric/pkg/identity` | none | signing | gateway | – | – |

The commands interact through the project directory (`generate` → `extend` → `up` →
`install`, `ansible-vars`) and through the network (`up` → `install` → `invoke`).
`PROJECT.json` lists the hazards of this code at the lines where they bite, with the
properties that cover each, and says why where none does.

## 2. The modules

| Module | Models |
|---|---|
| `Lifecycle` | `fabric install`: every call of `Install`, for every chaincode, peer and org, by several runs |
| `Definitions` | what `Install` promises about the definitions of a channel: the abstract specification of `Lifecycle` |
| `MCLifecycle` | instances of `Lifecycle` for TLC |
| `LifecycleProofs` | theorems about `Lifecycle`: types, approvals, commits |
| `LifecycleSuccessProofs` | what committed definitions have, what success means, and that `Lifecycle` implements `Definitions` |
| `Up` | `fabric up`: channel creation on both kinds of network, with `down` |
| `UpProofs` | theorems about `Up` |
| `Material` | the project directory: `generate`, `extend`, `ansible-vars`, cut short at any point |
| `MCMaterial` | the instance of `Material` for TLC |
| `MaterialProofs` | `Material`'s types, and the order of a command's tasks |
| `MaterialTreeProofs` | theorems about `Material`: the tree and the artifacts made from it |
| `Topology` | what `generate` computes: host ports, endorsement policy, collections (operators only) |
| `TopologyProofs` | theorems about `Topology` |
| `Containers` | Docker and the files of `generatecc`: compose, the builder's route to the nodes, chaincode containers |
| `Session` | a series of `up`, `install`, `invoke`, `generatecc` and `down` on one network; composes `Containers` and `Topology` |
| `MCSession` | the instances of `Session` for TLC |
| `SessionProofs` | theorems about `Session`: types, ports, route, `down`, `invoke`, packages, calls that arrive |
| `Reissue` | `reissue` and `cert_expiries`: series of renewals with the clock, backups and writes cut short |
| `MCReissue` | the instance of `Reissue` for TLC |
| `ReissueProofs` | theorems about `Reissue` |

### Lifecycle

Code and model, one action per call:

| `install.go` | `Lifecycle` |
|---|---|
| `Install`, the loop over `o.Names` | `Start`, `ReadPackage`, `NextChaincode` (`name` is the chaincode) |
| `installOn` in `forEachPeer` | `InstallOn` (`idx` is the peer) |
| `nextSequence` | `NextSequence` |
| `approve` in `forEachOrg` | `ApproveQuery` (CheckCommitReadiness), `ApproveCall` (Approve) |
| `waitReady` | `WaitReady` |
| `commit` | `CommitQuery` (QueryCommitted), `CommitCall` (Commit) |
| `waitCommitted` | `WaitCommitted` |
| `Network.retry` | `attempt`, `AttemptFails`, `Restart` (a closure starts again at its first call) |
| `generatecc` | `Generate`: a new build under the same label |
| a killed or cancelled run | `Stop` |

Between two calls of `approve` or `commit` anything else may happen; that is why each
is two actions.  A call has three outcomes: it takes effect and the caller knows;
it was submitted and the caller only sees a failure (the transaction stays in
`inflight` and `Deliver` may order it at any later time, even after the run
ended); or nothing happened.  `defs` is the ledger's history of definitions, of
which the length is the committed sequence; `height` and `known` are what each
org's peer has seen of it, which `Sync` brings up to date.

Fabric is outside the repository.  Of it the model has what `install.go` relies on,
mapped as external: an approval or commit is endorsed on up-to-date peers, it
is valid if no transaction that touches the same keys was ordered since
(`Conflict`), a commit needs a quorum of approvals, CheckCommitReadiness
compares the definition's parameters and not its package.  `by` in a definition
is the run that sent it: a history variable.

Abstracted: a definition's version, init flag, policy and collections are one member of
`Params` (with `VersionOf` for the one the code compares by itself), a package is
its name, version and build, gRPC connections are not modelled.

### Up

`idx` and `attempt` are as above; one action per `retry` closure.  The closures of
`up` ask a node whether the step is done, then do it; both calls are one action
(`JoinUnlessDone`), since no other actor than a late call of the same kind comes in
between, and a call that fails there is `Fault`.  `Fault` leaves its call in
`inflight`: `Land` lets it take effect at any later time.  An orderer that joined may
be `"onboarding"`: it has the channel, is not reported active and refuses a second
join (`channel.go:51-53`).  The orderer of a system channel network accepts an update
and orders it later, so its updates go through `inflight` always (`Broadcast`).
`created` is the local variable of `CreateSystemChannel` that decides whether the run
goes on with the anchor updates (`AfterPeers`).  `Start` is a run of `up` on a network
that is down, up or half made; `Down` is `fabric down`, which removes the ledgers.
Starting the containers is not a step of its own: a failure there is `Stop`.

### Material

A command is the list `todo` of its tasks, built by `Generate`, `Extend`,
`AnsibleVars` and `Template` (that is `generate --template`) as `doGenerate`,
`doExtend` and `generateFrom` order them; `"generate"`, `"extend"`, `"new org"` and
`"extend org"` are replaced by the tasks they stand for when they are reached, since
cryptogen reads the file and asks for the org's directory then.  One action does the
head of the list.  `tree[o][x]` says of each directory of an org whether it is
absent, whole or short (there, with less than it should hold), and which CA signed it;
a CA is named by the number of the command that made it.  `admincert` is the copy
of the admin's certificate in an MSP (networks without NodeOUs, the default).  An
artifact is the CA it names for each org.

A command can be cut short before any task and in the middle of each: the `Cut...`
actions leave what that task may leave, for `os.RemoveAll` any part of the tree.
Interrupts do not stop these commands (the context is not asked), so this is a kill, a
full disk, a file that cannot be written or removed, or an answer "n" to the prompt.
A command that fails on what it finds is `Refused`.  A `crypto-config.yaml` that was cut short
is refused, or read as an empty file, or, if it was cut at a line, as less of the network
(`CutAtLine`: the first orgs, the last of them perhaps without its user or its nodes), since
`yaml.Unmarshal` asks for no key.

Users are the admin and one other; `configtx.yaml` stands for all files rendered after
`crypto-config.yaml`.  Not modelled: `--archive`, `--chown`, two commands at once in one
directory.

### Topology

Each operator is a formula of `topology.go` over a record of the options.  All
structures give one shape of policy, so that a policy is a record: the orgs that
endorse alone, and how many of which others do.  `Published` is every port that the
compose templates publish on the host; `SatisfiedBy` and `Parses` are what the policy
language makes of the text.  `Session` takes the endorsers and the policy from it.

### Containers and Session

`Session` looks at a command from outside: where `Lifecycle` and `Up` model each call of
`install` and `up`, here a command is the list `left` of nodes it calls or packages it
writes, and what matters is whether it reaches them and what it leaves behind.  Whether a
node that is reached does what it is asked, `Lifecycle` and `Up` say: here it may refuse any
call (`NotDone`), as an orderer that is onboarding, a peer without the channel, an
endorsement of a chaincode that is not committed, or a torn package.

| Code | Model |
|---|---|
| `loadProject`, `composeFiles`, `NetworkName` | `Begin`, `want`, `CanLoad`, `ServicesOf` |
| `Up`, `Down` | `ComposeUp`, `ComposeDown` (steps `Compose`, `Remove`), `PartOfUp`, `PartOfDown` when interrupted |
| `withAdmin`, `Route` | `Open`, `NoNetwork`, `Close`, `CloseRefused`; `route` |
| `runningNetwork` | `RunningNetwork` |
| `Resolve`, `dialPeer`, `dialOrderer` | `Found`, `Dialled`, `Keeps`; `target` |
| `retry` | `Call`, `NotDone`, `TryAgain`, for `up` and `install`; `invoke` calls once |
| `Install`, the loop over `o.Names` | `name`, `NextName`, `NoPackage` |
| `Invoke` | `InvokeCalls`, `Effect`, `NotValid` |
| `Build`, `Write`, `generatecc` | `Package`, `PackageID`, `ComposeFile` |
| `down`, `RemoveChaincodeContainers` | `Remove`, `Ledgers`, `Clean`, `CannotClean`, `NextKind` |

The network of the nodes has two names, since the file that `generatecc` writes renames
it: a network that was started before is still on the other one.  `box` is where each
node's container is, whether it runs, and an address there, which changes with each start;
`helper` is where the containers of the CAs and of `cli` are; `self` are the networks that
the builder's container is on, if it runs in one.  `runningNetwork` asks all of them for the
network, in the order of their names, running or not, so the helpers come first.  An up makes
the containers that it must and then starts them; one that is interrupted may have made some
and started none, or started some.  A call gets through if the address it uses is the
node's.  `target` is what a command has dialled: Resolve
keeps an address that it found, and `dialPeer` keeps the connection, so that the host
name that Resolve answers when it finds no address is kept too; the orderer's is looked
up at each call.  `install` does not call the orderer: the peers it calls (`FirstPeers`) reach
it themselves, which needs both on one network (`Reaches`).

Failures (`Fails`), kills and restarts are `Fault`s.  What an interrupted step may
leave is `Interrupted`: some of the containers, a file cut short, some of the chaincode
containers.  `Order` is the orderer and the validation of a transaction, at any time
after the broadcast; a broadcast that fails for its caller may have arrived.

Nodes are the orderer and the first peer of each org; the other orderers and peers, and the
CouchDBs, come between them in the order of the names and behave alike.  `calm`, `home`,
`astray` and `matched` are history variables that properties read.  Not modelled: volumes and the
Docker network as an object (a `down` that cannot remove it), the contents of a
transaction, several commands at once.

### Reissue

A run begins by selecting its targets (`Refuse`, `Begin`) and then handles the least
file of `todo`: it is skipped (`Skip`, the errors that wrap `ErrReissue`), ends the run
(`StopAtCA`), or is backed up (`Backup`) and written (`Write`), each of which may be cut
short.  The state of a CA's directory is the sequence of its `.pem` files in name order
and its keys; `ResolveCA` takes the first that has the issuer's subject and reads those
before it.  A file that was cut short holds `Unreadable`, and the user may put a backup
in its place (`Restore`).  Node names are sequences of labels, since `nodeMatches`
matches whole labels.  `Files` is numbered in the order in which a run goes through
them.  The files that `Discover` does not see (users' TLS certificates, copies of
signcerts) are among them.  Time is in days; five minutes of clock skew are one tick.
Two runs at once are not modelled: an operator runs it alone.

## 3. What is checked

| Run | Instance | States | Shows |
|---|---|---|---|
| `install_overlap` | 2 runs side by side, 3 orgs, 3 peers, 2 versions, 2 attempts | 328,570 | `AllOrgsReady`, `ApprovedIsInstalled`, `CommittedOnce`, `SuccessIsCommitted`, types |
| `install_names` | 2 runs in sequence, 2 chaincodes, 2 orgs | 32,414 | `Lifecycle` implements `Definitions` (`KeepsContract`); `Termination` |
| `install_rebuilt` | 2 runs in sequence, 2 orgs, 2 peers, 1 version, 2 builds, 2 attempts | – | violation, see 5 |
| `up_channel` | 3 orderers, 2 peers, 2 attempts, 4 faults | 11,920 | `UpIsComplete`, `PeersJoinLast`, `RestartSucceeds`, `UpRecovers` |
| `up_system_channel` | 1 orderer, 2 peers, 2 orgs, 2 attempts, 4 faults | 1,909 | `UpIsComplete`, `CreatorSendsAnchors`, `UpRecovers` |
| `up_anchors` | as `up_system_channel`, 2 faults | – | violation, see 5 |
| `material` | 1 peer org and orderer extended to 2 and 2, 4 commands, 1 cut short | 508,430 | `SuccessIsWhole`, `SignedByOwnCA`, `ArtifactsNameCAs`, `KeptWithoutForce`, `GenerateRepairs` |
| `material_extend` | the same | – | violation, see 5 |
| `session` | 2 orgs, policy of two, 2 chaincodes, 2 builds, 2 attempts; 3 commands, 1 fault, 1 launch of Go chaincode; on a host and in a container | 320,191 | `RouteIsLeft`, `CallsArrive`, `DownIsComplete`, `InvokeIsCommitted`, `ServicesRunPackages`, `PortsDistinct`, `CommandsEnd`, types |
| `session_route` | 1 org, otherwise as `session`; 4 commands | – | violation, see 5 |
| `reissue` | a peer and an admin (5 files), 6 conditions of the CA directories, 9 sets of options; 3 runs, 1 cut, 4 days | 388,832 | `NothingLost`, `OnlySelected`, `ValidWithinCA`, `ReportIsTrue` |
| `reissue_expired` | `--all-expired` only | – | violation, see 5 |

Why the bounds are enough to meet the interesting cases:

- *Three orgs* is the least number with which a majority is not everybody, so that a
  commit can go through without an org; with two, Fabric's own rule asks for both.
- *Two runs* give one that failed and one that goes on, two that overlap, and a
  transaction of the first that is ordered during the second.
- *Two attempts* give a retry and a last attempt; the code's five repeat the first.
- *Two builds* of a package (`install_rebuilt`) let it change between and during runs.
- *Three orderers* let one be active, one onboarding and one absent; *four faults*
  are more than the attempts of one step, so that a whole run of `up` fails by
  faults alone and the next meets another fault, a `down` or a late call.
- *Four commands* in `material` are a generate, a template of the larger network, an extend that is
  cut short and the command after it; or two forced generates and an extend after one
  that was cut short.
- *Three commands, one fault* in `session`: `up`, `generatecc` and the `install` or `up` on
  the network that is now named otherwise; two `generatecc` and an `up`; or a command that is
  killed or fails, and two after it.  A second fault mostly meets a command that already
  failed.  *Four commands* in `session_route`: `up`, `generatecc`, an `up` that is cut
  short, and `install`; one org has every kind of container: a CA, `cli`, the orderer and a peer.
- *Three runs* of `reissue` are one that is cut short and two that back the file up
  again, the least with which a backup can be replaced by a short file.

`AllOrgsReady` says what `waitReady` adds to the approvals themselves: that each org's peer,
which answers from its own copy of the ledger, has seen them before the definition is
committed.  It holds of a definition that another run's late commit makes, too.  It does not
say that an org's approval on the ledger is still of that definition: one with other
parameters that is ordered after the run's `waitReady` and before its commit replaces it, and
a quorum of the others commits; it comes from a run side by side, or late from an earlier run
that failed.  `SuccessIsCommitted` says version and sequence, as
`waitCommitted` does: two overlapping runs of one version with other parameters are
not told apart by the code.

`KeepsContract` is the refinement: with `history <- defs` and `status` read off `pc`,
every step of `Lifecycle` is a step of `Definitions` or leaves it alone.

### Fairness

- `Termination` assumes weak fairness of each run's own steps.  Every remote call is
  made with a deadline (a context with a timeout of 30 seconds to 15 minutes, or the
  orderer admin HTTP client's 30 seconds), so a run that started takes its next step
  whatever the network does.
  Nothing is assumed of `Deliver` or `Sync`: the attempts are bounded.
- `UpRecovers` assumes weak fairness of `up`'s steps for the same reason, of `Repeat`
  (the user runs `up` again as long as it did not succeed), and of the network
  doing what it accepted (`Land`, `CatchUp`).  Faults are bounded by `MaxFaults`; after
  the last one, repeating must succeed.
- `CommandsEnd` assumes weak fairness of `Step`, the next step of a command, and of
  the orderer ordering what it has: `invoke` waits for the commit status.  In the code
  that wait ends after two minutes in any case.  No fault is assumed to happen or not.
- The safety properties of `Material` and `Reissue` need none.  `GenerateRepairs` is an action
  property: a forced generate never fails on what it finds.

## 4. What is proved

All theorems hold for every value of the constants that the modules' assumptions
allow: sizes are positive naturals (`SizesAssumption`, `UpSizes`), `VersionOf` maps
`Params` to versions (`ParamsAssumption`), quorums are non-empty sets of orgs
(`QuorumAssumption`), `SystemChannel` is a Boolean (`UpKind`).  Nothing is assumed of
`Quorums` beyond that, of `Overlap`, or of the number of runs.  The network of `Session`
has a shape that `generate` accepts (`NetworkAssumption`), `generatecc` has at least one
chaincode (`NamesAssumption`, as an empty list is skipped), no network is called as the
mark of a container that does not exist (`NetsAssumption`), and its bounds are naturals,
with one attempt of a call at least (`SessionAssumption`).  Of `Reissue` it is assumed that files are numbered and hold
certificates (`FilesAssumption`), and that CA directories, options and bounds are what
their names say (`CADirsAssumption`, `OptionsAssumption`, `BoundsAssumption`).  TLC
evaluates every one of them on the instances.

`LifecycleProofs`:

- `TypeCorrect`.  `TypeOK` is not inductive: `installed[idx[r]]` is defined only if the
  loop's member is a peer.  `StepInv` adds, per step of a run, the range of `idx`, that
  the package was read, and that the sequence was set.
- `ApprovedInstalled` (`ApprovedIsInstalled`).  An approval is sent by a run in step
  `"approving"`; that this run's package is on every peer follows from
  `InstalledSoFar`: in step `"install"` the peers before `idx` have it, in the later
  steps all do.  It is kept because packages are never removed, by this or other runs.
- `CommitsOnce` (`CommittedOnce`).  The argument is the sequence number: `OnceInv` says
  that each definition of a run, and each commit of it in flight, is at
  the sequence the run took for that chaincode, and that a run that has not taken
  one has none.  Two definitions of one run would be at the same place of the history.

`LifecycleSuccessProofs`:

- `EveryOrgReady` (`AllOrgsReady`).  `ApprovalInv` follows the approvals from the peers'
  answers to the commit: what a peer knows was on the ledger, the orgs that a run in
  `waitReady` has passed have seen an approval of every org at its sequence, all have once
  it commits, and so it is with a commit in flight (`SeenByPassed`, `OfItsRun`).  An org's
  approval at a sequence can be replaced but never goes away (`ApprovalStays`), nor out of
  the sight of a peer (`SightStays`), and the sequence a run took is its own for good
  (`NumberStays`), which ties each approval to a run that asked for its parameters.
- `SuccessCommits` (`SuccessIsCommitted`).  `SuccessInv`: no peer is ahead of the ledger,
  and the orgs before `idx`, for the chaincodes before `name`, have seen the run's
  version at its sequence.  It is kept because the history is only appended to and no
  peer falls back.
- `ImplementsDefinitions` (`KeepsContract`): the initial states map to initial states, and
  each step to one of `Definitions` or to a stutter.  The one hard case is a commit that is
  ordered: by `OnceInv` its run has none for that chaincode, by `SuccessInv` the run's
  earlier chaincodes are defined, and its run has not reported success, since it would
  have a definition at that sequence already.

`UpProofs`:

- `UpTypeCorrect`, with `LoopInv`: the loops stay in range, and a step belongs to one
  kind of network.
- `UpCompletes` (`UpIsComplete`) and `PeersJoinAfterOrderers` (`PeersJoinLast`), from
  `JoinInv`: the members before `idx` have joined, the steps after the orderers know
  that the channel is made, and a join of a peer is under way only then.  The last
  part is needed because a join that was sent by a run that failed lands later.
- `CreatorSends` (`CreatorSendsAnchors`).  `AnchorInv`: in the step `"anchors"` the orgs
  before `idx` have their update in the config or on its way, and only the run that
  created the channel comes to that step.
- `RestartsSucceed` (`RestartSucceeds`): on a network that is complete every closure
  finds its work done, so that no step but a fault ends a run with a failure.

`TopologyProofs`, about every accepted shape of a network:

- `PortsNeverClash`: the five port formulas never meet.  Orderers and CAs are apart
  modulo 1000 (50 and 54), as are the peers (51 and 53); the chaincode services start at
  9080 and reach the fourth orderer's 10050 with the 971st, hence the bound.
- `DefaultPeersSuffice`, `MembersSuffice`: the default endorsers of `invoke`, and the
  members of each collection, satisfy the endorsement policy.
- `PoliciesParse`: `install` can parse every policy but that of nchoose2common with one org.
- `DefaultCountIsReachable`: the default required peer count can be met with one shared
  collection or at most three orgs.

`SessionProofs`, for any network, any number of commands, faults and retries:

- `HostPorts` (`PortsDistinct`), from `PortsNeverClash`.
- `CommandsLeaveTheNetwork` (`RouteIsLeft`).  `RouteInv` says what `self` is at each step:
  the networks of the start, and while a route is open the one it joined, which was not
  among them.
- `DownRemovesAll` (`DownIsComplete`).  `DownInv` is what each step of `down` has removed
  so far; no peer runs that could make a chaincode container after the first step,
  and a failure at the containers is remembered in `errs`.
- `SuccessIsOnTheLedger` (`InvokeIsCommitted`).  `InvokeControl` ties the calls that are
  left to the endorsements so far; `ChainInv` says that the transactions of a command
  carry all of them, which holds because none is sent before; `SuccessInv` that the
  last call saw the transaction valid.
- `ServicesMatchPackages` (`ServicesRunPackages`).  `WritingInv`: while `generatecc` runs,
  the packages that are not left are of its build, with their IDs; so they all are when
  it writes the compose file (`MatchInv`).  Only a `generatecc` disturbs that, and it
  resets `matched` first.  `up` starts the services from that file before its other steps.
- `SessionTypes` (`TypeOK`).  Not inductive: `ServicesOf` is a function only if the compose
  file is whole, a call needs a node that is left, and an endorsement an org that was asked.
  `StepInv` says the first two of the steps that need them, and `InvokeInv` and `WritingInv`
  the rest.  `ControlInv`, `PlaceTypes`, `WayTypes`, `CountTypes` and `TxTypes` are its parts,
  each with the lemma that a step keeps it.
- `CallsReachTheirNodes` (`CallsArrive`).  `CalmInv` is a promise that each command makes
  anew and any failure ends: if all containers are on one network, or from the end of
  compose on in an `up`, the open route is for that network, and every address that the
  builder has dialled is the node's present one (`OpenInv`), so that every call arrives
  (`CalmDial`).  That the network of the first container is the nodes' network needs a
  least container: `RunningNetworkIsNet`.  A container outside that one network may
  mislead the route (`session_route`).

`ReissueProofs`, for any tree, CA directories, options, and any number of runs and cuts:

- `ReissueTypes` (`TypeOK`) and `InvHolds`, the invariant of the other theorems.  `TodoInv`:
  the targets that are left are readable leaves of what was asked for.  `WriteInv`: a target
  that is about to be written has its certificate in a backup and a CA that can be used.
- `NeverLost` (`NothingLost`): a file's contents are in a backup before they are replaced,
  and backups are only added to.
- `ChangesOnlySelected` (`OnlySelected`), from `TodoInv`; the issuer keeps its name, since the
  CA was found by it (`IssuerFacts`).
- `StaysWithinCA` (`ValidWithinCA`) assumes that the certificates of the first tree lie within
  their CA's validity (`FirstWithin`).  `WithinInv` says it of the files and of the backups,
  since a user may put a backup in place.
- `ReportsAreTrue` (`ReportIsTrue`).  `ReportInv`: a leaf that was asked for and is not renewed
  yet is among the targets that are left or those that were skipped.

`ResolveCA` takes the *first* certificate that matches.  That a non-empty set of naturals has
a least member (`LeastNatural`) is proved from the well-foundedness of strict subsets, as
an induction over the naturals cannot be instantiated here.

`MaterialProofs` and `MaterialTreeProofs`, for any networks, number of orgs, nodes, commands
and cuts, with and without `NodeOUs`.  A command is a sequence of tasks, which the proofs
take by its elements (`Elements`) and its order (`Ordered`, `MayPrecede`): the facts they
need of a list are which tasks are in it, and which may come before which.  What `ForEachOrg`,
`NewOrg` and `ExtendOrg` yield is stated so once (`ForEachOrgTasks`, `NewOrgTasksOf`,
`ExtendOrgTasksOf`), and no induction over lists is needed.  The invariant comes in layers,
each of which relies on those before it:

- `MaterialTypeCorrect` (`TypeOK`).  `Types` adds that the orgs of the tasks are those of a
  spec that can be read, as a task that starts an org computes its nodes from it.
- `Listed`: which tasks each command has, and for what; that they are in order (the CA of an
  org before all else of it, its admin before the copies of the admin's certificate,
  all orgs before the keys and artifacts); and that a generate which has not come to a step
  still has it to do.
- `TreeInv`: an org is started where there is nothing of it, an MSP is made after its CA, and
  what a generate without force removes is not there.  From it:
  `MaterialSignedByOwnCA` (`SignedByOwnCA`), and `MaterialKeptWithoutForce`
  (`KeptWithoutForce`) since a task other than the removal of the tree only makes what
  is missing (`OnlyMissingMade`).
- `Clean`: from the removal of the old tree on, and after a generate that succeeded, nothing
  is cut short, an org that exists has a whole CA, and its MSP, users and copies are there or
  among the tasks that are left.  `Complete`: every org of the spec is there or is to be
  started, and of an org that was started every member.  Together, when no task is left:
  `MaterialSuccessIsWhole` (`SuccessIsWhole`).  A command that fails or is cut short leaves
  neither; what brings them back is that generate removes the tree first.
- `ArtifactsInv`: an artifact that a generate has no task for any more names the CAs, and so
  do both once it succeeded: `MaterialArtifactsNameCAs` (`ArtifactsNameCAs`).  An artifact
  takes the names from the MSPs, which by `TreeInv` are their CAs'.
- `MaterialGenerateRepairs` (`GenerateRepairs`): by all of the above, what a task of
  a generate asks for is there when it is done (`OrgWhole`, `NetworkWhole`).

`TypeOK` to `ArtifactsInv` were checked with TLC as invariants of `material`, and `StepInv`
and the parts of `CalmInv` as invariants of `session`, before they were proved.

Only model-checked: the liveness properties (`Termination`, `UpRecovers`, `CommandsEnd`),
which are beyond the prover.  Every other property of the runs that pass is a theorem.

## 5. Where the code departs from what it says

- `install_rebuilt`: the comment at `install.go:82-88` requires the definition to name
  the package whose ID generatecc wrote.  A run fails after an org approved;
  the package is rebuilt; the next run installs the new package but skips the
  org, since CheckCommitReadiness does not compare packages, and reports success.
- `up_anchors`: "a restarted network keeps them" (`systemchannel.go:198-201`) is said of
  the anchor peers of a channel that exists.  If the run that created it failed
  before the updates, or the answer of its broadcast was lost, there are none to keep,
  no later `up` sends them, and each reports success.
- `material_extend`: `ExtendCrypto` "adds ... the key material ... that it does not have
  yet" (`fabtools.go:58`).  An extend that was cut short in a directory leaves it
  incomplete, and every later extend skips it and reports success.
- `session_route`: "runningNetwork is the name of the network the running nodes are on", and
  install, which loads the file of `generatecc`, "must still reach it" (`compose.go:153-157`).
  The loop asks every container with a name, and those of the CAs and of `cli` sort before
  the nodes'.  After `generatecc` renamed the network, an `up` that fails when it has made
  the CA's container anew leaves the nodes running on the old network, and the route of
  `install` goes to the new one.
- `reissue_expired`: `reissue --all-expired` is to "renew each expired cert"
  (`README.md:164`).  It finds `msp/signcerts` and `tls/server.crt`: users' TLS client
  certificates and the copies of signcerts in `admincerts` stay expired, as
  `cert_expiries` shows.

Met while modelling, without a run:

- `compose.go:263` says that a retry looks an address up again.  Resolve does;
  `dialPeer` keeps the connection that it made with the fallback, so a retry of a call
  to a peer does not (`Keeps` in `Containers`).
- With one org, `nchoose2common` writes `OutOf(2, )`, which does not parse
  (`PoliciesParse`), and `nchoose2` a policy that nobody satisfies.  With four orgs
  or more of two peers, the default required peer count of a pair's collection is at
  least the number of its peers.
- The port formulas are not bounded: from the 60th peer, orderer or
  org on, a port exceeds 65535.
- `waitReady` sees every org's approval, but an approval with other parameters that is
  ordered after it replaces one, and the commit goes through with the others' (see 3).
  Three runs one after the other are enough, if a call of the second is ordered late.

## 6. Not modelled

- Templates and scripts (text), the connection identity (cryptographic data), the command
  line (sequential text processing with unit tests).
- `configtxgen` and `configtxlator`: they compute protobuf messages from others, with no
  state and no step that anything could come between.
- `chaincodeIDs` (`images.go`): variables for compose files of v0.0.x; its rule that a name
  ends at its first dash lets the `.id` files of two versions collide.
- `--min-endorsers`, `--archive`, `--chown`, the contents of packages and zips.
- Two commands at once in one project directory, and two runs of `reissue` at once.
  (Runs of `install` that overlap are modelled: they share the network, not files.)
- Docker networks and volumes as objects of their own.
