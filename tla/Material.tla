------------------------------ MODULE Material ------------------------------
(***************************************************************************)
(* The files of a network in the project directory and the commands that   *)
(* write them: `generate` (cli.go, doGenerate), `extend` (doExtend) and     *)
(* `ansible-vars --generate-from` (generateFrom).  cryptogen writes the     *)
(* tree crypto-config: per org a CA, an MSP, a directory for each node and  *)
(* user, and copies of the admin's certificate.  The channel's and the      *)
(* system channel's artifacts are computed from that tree.                  *)
(*                                                                         *)
(* A command is a list of tasks done in order.  It may be cut short at any  *)
(* task (killed, the disk full), which leaves the task half done; the user  *)
(* then runs any command on what is left.                                   *)
(***************************************************************************)
EXTENDS Naturals, Sequences

CONSTANTS
  Networks,    \* what a network is sized by: [orgs, peers, orderers], and last, below
  MaxOrgs,     \* peer orgs of the largest network
  MaxNodes,    \* nodes of an org in it
  NodeOUs,     \* EnableNodeOUs: roles in certificates, no admincerts
  NoFile,      \* a configuration file that does not exist
  Unreadable,  \* one that was cut short, and is no YAML or an empty one
  MaxCommands, \* bound: commands the user runs
  MaxCuts      \* bound: commands cut short

ASSUME NetworksAssumption ==
  /\ MaxOrgs \in Nat \ {0} /\ MaxNodes \in Nat \ {0}
  /\ MaxCommands \in Nat /\ MaxCuts \in Nat
  /\ Networks \subseteq [orgs : 1..MaxOrgs, peers : 1..MaxNodes, orderers : 1..MaxNodes,
                         last : {"whole"}]
ASSUME OUsAssumption == NodeOUs \in BOOLEAN

\* What cryptogen reads in a crypto-config.yaml: a network, or as much of one as a file
\* cut at a line describes, which has the orderer org first.  Of the last org it may lack
\* the user, or the user and the nodes.  (An org without its domain is left out.)
Readings == [orgs : 0..MaxOrgs, peers : 1..MaxNodes, orderers : 0..MaxNodes,
             last : {"whole", "no user", "no nodes"}]
ASSUME FilesAssumption == NoFile \notin Readings /\ Unreadable \notin Readings

CutAtLine(n) ==
  {r \in Readings :
     /\ r.orgs <= n.orgs /\ r.peers = n.peers
     /\ r.orderers = n.orderers \/ (r.orgs = 0 /\ r.orderers = 0)
     /\ r.orgs = 0 => r.last = "whole"}

Orderer == 0                \* the orderer org; the peer orgs are 1..MaxOrgs
Orgs == 0..MaxOrgs

\* What an org's directory holds: ca and tlsca, msp, peers/<i> or orderers/<i>, and
\* users, of which the first is the admin.
Thing(dir, i) == [dir |-> dir, i |-> i]
CA == Thing("ca", 0)
MSP == Thing("msp", 0)
Node(i) == Thing("nodes", i)
User == Thing("users", 1)
Admin == Thing("users", 0)
Nodes == {Node(i) : i \in 1..MaxNodes}
Things == {CA, MSP, User, Admin} \cup Nodes
Places == {MSP} \cup Nodes  \* where the admin's certificate is copied to

VARIABLES
  cmd,       \* the command: "template", "generate", "extend" or "ship"
  forced,    \* whether the user let it replace certificates, with --force
  todo,      \* the tasks it has left
  status,    \* "idle", "running", "ok" or "failed"
  number,    \* commands so far
  cuts,      \* commands cut short so far
  spec,      \* crypto-config.yaml
  tx,        \* configtx.yaml and docker-compose-e2e-template.yaml
  crypto,    \* whether the directory crypto-config exists
  tree,      \* per org and thing: none, short or whole, and the CA it is of
  admincert, \* per org and place: the admin's certificate in its admincerts
  artifacts, \* whether channel-artifacts exists; block and system: what they name
  made       \* "made" once a generate succeeded, "cut" if a command failed since,
             \* "none" while one is under way or failed

run   == <<cmd, forced, status, number>>
files == <<spec, tx>>
certs == <<crypto, tree, admincert>>
vars  == <<run, todo, cuts, files, certs, artifacts, made>>

\* A CA is named by the command that made it.
None == [state |-> "none", ca |-> 0]
Short == [state |-> "short", ca |-> 0]
Whole(ca) == [state |-> "whole", ca |-> ca]
Copies == {None, Short} \cup {Whole(k) : k \in 1..MaxCommands}

\* What an artifact names: the CA of each org, 0 for an org that it lacks.
NoArtifact == [state |-> "none", cas |-> [o \in Orgs |-> 0]]
ShortArtifact == [NoArtifact EXCEPT !.state = "short"]
Artifact == [state : {"none", "short", "whole"}, cas : [Orgs -> 0..MaxCommands]]
Empty == [dir |-> FALSE, block |-> NoArtifact, system |-> NoArtifact]

Task(do, org, thing) == [do |-> do, org |-> org, thing |-> thing]
Do(do) == Task(do, Orderer, CA)
Tasks == [do : {"render spec", "render tx", "clear crypto", "generate", "extend",
                "new org", "extend org", "new ca", "load ca", "new msp", "new member",
                "copy cert", "keys", "clear artifacts", "block", "system", "zip"},
          org : Orgs, thing : Things]

TypeOK ==
  /\ cmd \in {"template", "generate", "extend", "ship"}
  /\ forced \in BOOLEAN
  /\ todo \in Seq(Tasks)
  /\ status \in {"idle", "running", "ok", "failed"}
  /\ status = "running" <=> todo # <<>>
  /\ number \in 0..MaxCommands /\ cuts \in 0..MaxCuts
  /\ spec \in Readings \cup {NoFile, Unreadable}
  /\ tx \in Readings \cup {NoFile, Unreadable}
  /\ crypto \in BOOLEAN
  /\ tree \in [Orgs -> [Things -> Copies]]
  /\ admincert \in [Orgs -> [Places -> {"none", "short", "whole"}]]
  /\ artifacts \in [dir : BOOLEAN, block : Artifact, system : Artifact]
  /\ made \in {"none", "made", "cut"}

Init ==
  /\ cmd = "generate" /\ forced = FALSE /\ todo = <<>> /\ status = "idle"
  /\ number = 0 /\ cuts = 0
  /\ spec = NoFile /\ tx = NoFile
  /\ crypto = FALSE
  /\ tree = [o \in Orgs |-> [x \in Things |-> None]]
  /\ admincert = [o \in Orgs |-> [p \in Places |-> "none"]]
  /\ artifacts = Empty
  /\ made = "none"

-----------------------------------------------------------------------------
(* The tasks of a command.                                                  *)

NodesOf(o, n) == IF o = Orderer THEN n.orderers
                 ELSE IF o = n.orgs /\ n.last = "no nodes" THEN 0 ELSE n.peers
HasUser(o, n) == o # Orderer /\ (o = n.orgs => n.last = "whole")
Count(n) == n.orgs + 1
Org(i, n) == IF i <= n.orgs THEN i ELSE Orderer  \* peer orgs first
OrgsOf(n) == {Org(i, n) : i \in 1..Count(n)}
ForEachOrg(do, n) == [i \in 1..Count(n) |-> Task(do, Org(i, n), CA)]

NewNodes(o, n) == [i \in 1..NodesOf(o, n) |-> Task("new member", o, Node(i))]
NodeCerts(o, n) ==
  IF NodeOUs THEN <<>> ELSE [i \in 1..NodesOf(o, n) |-> Task("copy cert", o, Node(i))]
NewUser(o, n) == IF HasUser(o, n) THEN <<Task("new member", o, User)>> ELSE <<>>
MSPCert(o) == IF NodeOUs THEN <<>> ELSE <<Task("copy cert", o, MSP)>>

NewOrgCertsFirst(o, n) ==   \* faulty: the admin's certificate before the admin
  <<Task("new ca", o, CA), Task("new msp", o, MSP)>>
    \o NewNodes(o, n) \o MSPCert(o) \o NodeCerts(o, n)
    \o NewUser(o, n) \o <<Task("new member", o, Admin)>>

\* generatePeerOrg and generateOrdererOrg; the orderer org has no users but the admin.
NewOrg(o, n) ==
  <<Task("new ca", o, CA), Task("new msp", o, MSP)>>
    \o NewNodes(o, n) \o NewUser(o, n) \o <<Task("new member", o, Admin)>>
    \o MSPCert(o) \o NodeCerts(o, n)

\* extendPeerOrg and extendOrdererOrg of an org whose directory exists.
ExtendOrg(o, n) ==
  <<Task("load ca", o, CA)>> \o NewNodes(o, n) \o NodeCerts(o, n) \o NewUser(o, n)

RenderTasks == <<Do("render spec"), Do("render tx")>>
\* doGenerate without the template, once it is not refused.
CryptoTasks ==
  <<Do("clear crypto"), Do("generate"), Do("keys"), Do("clear artifacts"),
    Do("block"), Do("system")>>

OrgExists(o) == \E x \in Things : tree[o][x] # None

-----------------------------------------------------------------------------
(* The commands.  The network to render is in Networks.                     *)

Begin(c, force, tasks) ==
  /\ status # "running" /\ number < MaxCommands
  /\ number' = number + 1
  /\ cmd' = c /\ forced' = force
  /\ todo' = tasks /\ status' = "running"
  /\ made' = IF c = "generate" THEN "none" ELSE made
  /\ UNCHANGED <<cuts, files, certs, artifacts>>

\* Without --force, doGenerate replaces nothing.
NothingGenerated == spec = NoFile /\ tx = NoFile /\ ~crypto /\ ~artifacts.dir

Template(force) ==
  /\ force \/ NothingGenerated
  /\ Begin("template", FALSE, RenderTasks)

Generate(force, template) ==
  /\ force \/ NothingGenerated
  /\ Begin("generate", force, IF template THEN RenderTasks \o CryptoTasks ELSE CryptoTasks)

\* extend asks whether to go on, and --force is the answer.
Extend ==
  /\ crypto
  /\ Begin("extend", FALSE, <<Do("extend"), Do("keys")>>)

AlwaysGenerates(force) ==   \* faulty: it sets force before it asks
  Begin("generate", force, RenderTasks \o CryptoTasks \o <<Do("zip")>>)

\* generateFrom keeps a tree that exists, and otherwise generates with force.
AnsibleVars(force) ==
  IF crypto /\ ~force
  THEN Begin("ship", force, <<Do("zip")>>)
  ELSE Begin("generate", force, RenderTasks \o CryptoTasks \o <<Do("zip")>>)

-----------------------------------------------------------------------------
(* The tasks.                                                               *)

Continue(rest) ==
  /\ todo' = rest
  /\ status' = IF rest = <<>> THEN "ok" ELSE "running"
  /\ made' = IF rest = <<>> /\ cmd = "generate" THEN "made" ELSE made
  /\ UNCHANGED <<cmd, forced, number, cuts>>

\* The command fails on what it found.
Refused ==
  /\ todo' = <<>> /\ status' = "failed"
  /\ made' = IF made = "made" THEN "cut" ELSE made
  /\ UNCHANGED <<cmd, forced, number, cuts>>

Is(do) == todo # <<>> /\ Head(todo).do = do
org == Head(todo).org
thing == Head(todo).thing
Proceed == Continue(Tail(todo))

Put(o, x, copy) == tree' = [tree EXCEPT ![o][x] = copy]

\* render.Write: crypto-config.yaml, then configtx.yaml and the rest.
RenderSpec ==
  /\ Is("render spec") /\ Proceed
  /\ spec' \in Networks
  /\ UNCHANGED <<tx, certs, artifacts>>
RenderTx ==
  /\ Is("render tx") /\ Proceed
  /\ tx' = spec
  /\ UNCHANGED <<spec, certs, artifacts>>

ClearWhatItCan ==   \* faulty: it goes on when it could not remove everything
  /\ Is("clear crypto") /\ Proceed
  /\ crypto' = crypto
  /\ \E kept \in SUBSET Nodes :
       tree' = [o \in Orgs |-> [x \in Things |-> IF x \in kept THEN tree[o][x] ELSE None]]
  /\ admincert' = [o \in Orgs |-> [p \in Places |-> "none"]]
  /\ UNCHANGED <<files, artifacts>>

ClearCrypto ==
  /\ Is("clear crypto") /\ Proceed
  /\ crypto' = FALSE
  /\ tree' = [o \in Orgs |-> [x \in Things |-> None]]
  /\ admincert' = [o \in Orgs |-> [p \in Places |-> "none"]]
  /\ UNCHANGED <<files, artifacts>>

\* cryptogen reads crypto-config.yaml and goes through the orgs; an empty file has none.
ReadSpec(do, orgTask) ==
  /\ Is(do)
  /\ \/ spec \in Readings /\ Continue(ForEachOrg(orgTask, spec) \o Tail(todo))
     \/ spec = Unreadable /\ Proceed
     \/ spec \notin Readings /\ Refused
  /\ UNCHANGED <<files, certs, artifacts>>

GenerateAll == ReadSpec("generate", "new org")
ExtendAll == ReadSpec("extend", "extend org")

StartOrg ==
  /\ Is("new org") /\ Continue(NewOrg(org, spec) \o Tail(todo))
  /\ UNCHANGED <<files, certs, artifacts>>

ExtendAnew ==   \* faulty: an org that exists gets a new CA
  /\ Is("extend org")
  /\ Continue(NewOrg(org, spec) \o Tail(todo))
  /\ UNCHANGED <<files, certs, artifacts>>

ExtendStartedOrg ==
  /\ Is("extend org")
  /\ Continue((IF OrgExists(org) THEN ExtendOrg(org, spec) ELSE NewOrg(org, spec))
              \o Tail(todo))
  /\ UNCHANGED <<files, certs, artifacts>>

\* ca.NewCA, for the signing and the TLS CA.
NewCA ==
  /\ Is("new ca") /\ Proceed
  /\ Put(org, CA, Whole(number)) /\ crypto' = TRUE
  /\ UNCHANGED <<files, admincert, artifacts>>

\* getCA ignores what it cannot read: without a key it panics, without a certificate
\* the first certificate it is to sign does.
LoadCA ==
  /\ Is("load ca")
  /\ \/ tree[org][CA] # None /\ Proceed
     \/ tree[org][CA].state # "whole" /\ Refused
  /\ UNCHANGED <<files, certs, artifacts>>

\* GenerateVerifyingMSP.
NewMSP ==
  /\ Is("new msp") /\ Proceed
  /\ Put(org, MSP, tree[org][CA])
  /\ UNCHANGED <<files, crypto, admincert, artifacts>>

NewMemberUnsigned ==   \* faulty: signs with a CA that could not be read
  /\ Is("new member") /\ Proceed
  /\ \/ tree[org][thing] # None /\ UNCHANGED tree
     \/ tree[org][thing] = None /\ Put(org, thing, Whole(tree[org][CA].ca))
  /\ UNCHANGED <<files, crypto, admincert, artifacts>>

\* generateNodes: a directory that exists is skipped.
NewMember ==
  /\ Is("new member")
  /\ \/ tree[org][thing] # None
        /\ Proceed /\ UNCHANGED tree
     \/ tree[org][thing] = None /\ tree[org][CA].state = "whole"
        /\ Put(org, thing, tree[org][CA]) /\ Proceed
     \/ tree[org][thing] = None /\ tree[org][CA].state # "whole"
        /\ Put(org, thing, Short) /\ Refused
  /\ UNCHANGED <<files, crypto, admincert, artifacts>>

\* copyAdminCert: a file that exists is skipped; an admin cut short may have its
\* certificate or not.
CopyCert ==
  /\ Is("copy cert")
  /\ \/ admincert[org][thing] # "none" /\ Proceed /\ UNCHANGED admincert
     \/ /\ admincert[org][thing] = "none" /\ tree[org][Admin] # None
        /\ \E copy \in {"whole", tree[org][Admin].state} :
             admincert' = [admincert EXCEPT ![org][thing] = copy]
        /\ Proceed
     \/ /\ admincert[org][thing] = "none" /\ tree[org][Admin].state # "whole"
        /\ UNCHANGED admincert
        /\ Refused
  /\ UNCHANGED <<files, crypto, tree, artifacts>>

\* replacePrivateKey wants the CA key of each peer org of the template.
Keys ==
  /\ Is("keys")
  /\ \/ /\ tx \in Networks
        /\ \A o \in OrgsOf(tx) \ {Orderer} : tree[o][CA] # None
        /\ Proceed
     \/ /\ tx \in Networks => \E o \in OrgsOf(tx) \ {Orderer} : tree[o][CA].state # "whole"
        /\ Refused
  /\ UNCHANGED <<files, certs, artifacts>>

ClearArtifacts ==
  /\ Is("clear artifacts") /\ Proceed
  /\ artifacts' = Empty
  /\ UNCHANGED <<files, certs>>

\* The MSP of each org and the TLS certificate of each orderer go into an artifact.
Sources(o, n) == {MSP} \cup (IF o = Orderer THEN {Node(i) : i \in 1..n.orderers} ELSE {})
Readable(n) == \A o \in OrgsOf(n) : \A x \in Sources(o, n) : tree[o][x].state = "whole"
Names(n) ==
  [state |-> "whole", cas |-> [o \in Orgs |-> IF o \in OrgsOf(n) THEN tree[o][MSP].ca ELSE 0]]

WriteArtifact(do, result) ==
  /\ Is(do)
  /\ \/ tx \in Networks /\ Readable(tx) /\ artifacts' = result /\ Proceed
     \/ (tx \in Networks => ~Readable(tx)) /\ Refused /\ UNCHANGED artifacts
  /\ UNCHANGED <<files, certs>>

Block  == WriteArtifact("block", [artifacts EXCEPT !.dir = TRUE, !.block = Names(tx)])
System == WriteArtifact("system", [artifacts EXCEPT !.dir = TRUE, !.system = Names(tx)])

Zip ==
  /\ Is("zip")
  /\ \/ artifacts.dir /\ crypto /\ Proceed
     \/ ~(artifacts.dir /\ crypto) /\ Refused
  /\ UNCHANGED <<files, certs, artifacts>>

-----------------------------------------------------------------------------
(* A command is cut short.                                                  *)

Stop ==
  /\ cuts < MaxCuts
  /\ cuts' = cuts + 1
  /\ todo' = <<>> /\ status' = "failed"
  /\ made' = IF made = "made" THEN "cut" ELSE made
  /\ UNCHANGED <<cmd, forced, number>>

\* Before a task.
CutBetween ==
  /\ todo # <<>> /\ Stop
  /\ UNCHANGED <<files, certs, artifacts>>

CutRender ==
  /\ Stop
  /\ \/ /\ Is("render spec") /\ UNCHANGED tx
        /\ spec' = Unreadable \/ \E n \in Networks : spec' \in CutAtLine(n)
     \/ Is("render tx") /\ tx' = Unreadable /\ UNCHANGED spec
  /\ UNCHANGED <<certs, artifacts>>

\* Some orgs are untouched, others gone, and one is partly removed; a directory that
\* was left empty is a CA without files.
CutClearCrypto ==
  /\ Is("clear crypto") /\ crypto /\ Stop
  /\ \E untouched \in SUBSET Orgs, o \in Orgs :
       /\ o \notin untouched
       /\ \E kept \in SUBSET {x \in Things : tree[o][x] # None},
             half \in {{}} \cup {{x} : x \in {y \in Things : tree[o][y] # None}} :
            LET left(q) == IF q = o THEN kept ELSE IF q \in untouched THEN Things ELSE {} IN
            /\ tree' = [q \in Orgs |-> [x \in Things |->
                          IF q = o /\ x \in half THEN Short
                          ELSE IF x \in left(q) THEN tree[q][x] ELSE None]]
            /\ admincert' = [q \in Orgs |-> [p \in Places |->
                          IF p \in left(q) THEN admincert[q][p] ELSE "none"]]
  /\ UNCHANGED <<files, crypto, artifacts>>

CutCA ==
  /\ Is("new ca") /\ Stop
  /\ Put(org, CA, Short) /\ crypto' = TRUE
  /\ UNCHANGED <<files, admincert, artifacts>>

CutMember ==
  /\ Is("new msp") \/ Is("new member")
  /\ tree[org][thing] = None
  /\ Stop
  /\ Put(org, thing, Short)
  /\ UNCHANGED <<files, crypto, admincert, artifacts>>

CutCopy ==
  /\ Is("copy cert") /\ admincert[org][thing] = "none" /\ tree[org][Admin] # None
  /\ Stop
  /\ admincert' = [admincert EXCEPT ![org][thing] = "short"]
  /\ UNCHANGED <<files, crypto, tree, artifacts>>

CutArtifacts ==
  /\ Stop
  /\ \/ /\ Is("clear artifacts")
        /\ artifacts' \in {[artifacts EXCEPT !.block = NoArtifact],
                           [artifacts EXCEPT !.system = ShortArtifact],
                           [Empty EXCEPT !.dir = artifacts.dir]}
     \/ Is("block") /\ artifacts' = [artifacts EXCEPT !.dir = TRUE, !.block = ShortArtifact]
     \/ Is("system") /\ artifacts' = [artifacts EXCEPT !.dir = TRUE, !.system = ShortArtifact]
  /\ UNCHANGED <<files, certs>>

Command ==
  \/ Extend
  \/ \E force \in BOOLEAN :
       \/ Template(force) \/ AnsibleVars(force)
       \/ \E template \in BOOLEAN : Generate(force, template)

DoTask ==
  \/ RenderSpec \/ RenderTx \/ ClearCrypto \/ GenerateAll \/ ExtendAll \/ StartOrg
  \/ ExtendStartedOrg \/ NewCA \/ LoadCA \/ NewMSP \/ NewMember \/ CopyCert \/ Keys
  \/ ClearArtifacts \/ Block \/ System \/ Zip

CutShort ==
  \/ CutBetween \/ CutRender \/ CutClearCrypto \/ CutCA \/ CutMember \/ CutCopy
  \/ CutArtifacts

Next == Command \/ DoTask \/ CutShort

Spec == Init /\ [][Next]_vars

-----------------------------------------------------------------------------
(* Correctness.                                                             *)

Members(o, n) ==
  {CA, MSP, Admin} \cup {Node(i) : i \in 1..NodesOf(o, n)}
    \cup {x \in {User} : HasUser(o, n)}
WholeOrg(o, n) ==
  /\ \A x \in Members(o, n) : tree[o][x].state = "whole"
  /\ ~NodeOUs => \A p \in Places \cap Members(o, n) : admincert[o][p] = "whole"

\* An artifact names the CA that each of its orgs has.
NamesCAs(artifact) ==
  /\ artifact.state = "whole"
  /\ \A o \in Orgs : artifact.cas[o] # 0 => tree[o][CA] = Whole(artifact.cas[o])

\* When generate reports success everything that crypto-config.yaml describes is there
\* and whole, whatever cut-short commands had left; and so it is after an extend, if
\* no command failed since that generate.
SuccessIsWhole ==
  status = "ok" /\ made = "made" /\ cmd \in {"generate", "extend"} /\ spec # Unreadable =>
    \A o \in OrgsOf(spec) : WholeOrg(o, spec)

\* No identity outlives its CA: a whole directory of an org that has a CA was signed by
\* that CA, also where a forced generate, an extend or a removal was cut short between.
SignedByOwnCA ==
  \A o \in Orgs : \A x \in Things :
    tree[o][x].state = "whole" /\ tree[o][CA].state = "whole" => tree[o][x] = tree[o][CA]

\* Once a generate succeeded, the artifacts that up and ansible-vars use name the CAs of
\* the tree, until the next generate starts: through extends and ansible-vars, cut
\* short or not ("Adds the crypto material ... and keeps the rest", README).
ArtifactsNameCAs ==
  made # "none" => NamesCAs(artifacts.block) /\ NamesCAs(artifacts.system)

\* What is whole is only replaced or removed by a command that was given --force
\* ("an existing crypto-config is kept unless --force", spec.go), though ansible-vars
\* runs generate with force.
KeptWithoutForce ==
  [][\A o \in Orgs : \A x \in Things :
       tree[o][x].state = "whole" /\ tree'[o][x] # tree[o][x] => forced]_vars

\* A forced generate that renders its files goes through, unless it is cut short,
\* whatever it finds: it is the way out of every broken directory.
GenerateRepairs ==
  [][cmd = "generate" /\ spec \in Networks /\ tx = spec /\ cuts' = cuts =>
       ~(status = "running" /\ status' = "failed")]_vars

\* When extend reports success on a network that generate made, the material of every
\* org, node and user of crypto-config.yaml is there: it adds what the directory "does
\* not have yet" (ExtendCrypto).
ExtendIsWhole ==
  status = "ok" /\ cmd = "extend" /\ made # "none" /\ spec # Unreadable =>
    \A o \in OrgsOf(spec) : WholeOrg(o, spec)
=============================================================================
