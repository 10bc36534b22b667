------------------------------ MODULE Lifecycle ------------------------------
(***************************************************************************)
(* The chaincode lifecycle of `fabric install` (internal/admin/install.go): *)
(* a run of Network.Install puts each chaincode's package on every peer,    *)
(* takes the next sequence number, has each org approve the definition,     *)
(* waits until every org sees all approvals, commits it as the first org    *)
(* and waits until every org sees the commit.  Every remote call is inside  *)
(* Network.retry.  Runs may fail at any call, be stopped, be repeated with  *)
(* other options or a rebuilt package, and (Overlap) run side by side.      *)
(*                                                                         *)
(* Peers, gateway and orderer are Hyperledger Fabric, which the repository  *)
(* only calls.  Three facts of it are modelled: a peer answers from its own *)
(* copy of the ledger, which may lag; a transaction whose call failed may   *)
(* still be ordered later; and of two transactions that were endorsed on    *)
(* the same state and touch the same keys, only the one ordered first is    *)
(* valid (MVCC).                                                           *)
(***************************************************************************)
EXTENDS Naturals, Sequences

CONSTANTS
  Runs,       \* executions of `fabric install`
  NumNames,   \* chaincodes of a run, installed in the order 1..NumNames
  NumOrgs,    \* peer orgs, in the order of ORG_INDICES; the first one commits
  NumPeers,   \* peers of all orgs, in the order forEachPeer visits them
  Retries,    \* attempts of a retried step (New sets 5)
  Params,     \* what Fabric compares of a definition: version, init, policy
  VersionOf,  \* the version in each member of Params
  Quorums,    \* sets of orgs whose endorsement the channel's policy accepts
  Overlap,    \* whether a run may start while another one is active
  MaxBuilds   \* bound: builds of one package by generatecc

Names    == 1..NumNames
Orgs     == 1..NumOrgs
Peers    == 1..NumPeers
Versions == {VersionOf[p] : p \in Params}

ASSUME SizesAssumption ==
  /\ NumNames \in Nat \ {0}
  /\ NumOrgs  \in Nat \ {0}
  /\ NumPeers \in Nat \ {0}
  /\ Retries  \in Nat \ {0}
ASSUME ParamsAssumption == VersionOf \in [Params -> Versions]
ASSUME QuorumAssumption == \A Q \in Quorums : Q \subseteq Orgs /\ Q # {}

VARIABLES
  pc,         \* per run: the step it is in
  opts,       \* per run: the definition parameters it was started with
  name,       \* per run: the chaincode being installed
  idx,        \* per run: the peer (install) or org (other steps) of the loop
  attempt,    \* per run: the attempt of Network.retry, from 1
  pkg,        \* per run and name: the package it read (pkgFile.id)
  seq,        \* per run and name: def.Sequence, 0 before nextSequence
  builds,     \* per name and version: the build in PackageDir, 0 if none
  installed,  \* per peer: the packages it has
  defs,       \* per name: the committed definitions, the i-th has sequence i
  approvals,  \* the orgs' approvals on the ledger
  height,     \* per org and name: the definitions its first peer has seen
  known,      \* per org: the approvals its first peer has seen
  inflight    \* transactions submitted by a call that failed, not yet ordered

runVars    == <<pc, opts, name, idx, attempt, pkg, seq>>
ledgerVars == <<defs, approvals, height, known, inflight>>
vars       == <<runVars, builds, installed, ledgerVars>>

Package  == [name : Names, version : Versions, build : Nat \ {0}]
NoPackage == [build |-> 0]
Approval == [name : Names, org : Orgs, seq : Nat \ {0}, params : Params, pkg : Package]
Entry    == [params : Params, by : Runs]
\* `by` is the run that sent the transaction; Fabric does not record it.
ApproveTx == [kind : {"approve"}, by : Runs, approval : Approval]
CommitTx  == [kind : {"commit"}, by : Runs, name : Names, seq : Nat \ {0}, params : Params]

Steps == {"read", "install", "sequence", "approve", "approving", "ready",
          "commit", "committing", "committed"}
Labels == Steps \cup {"idle", "ok", "failed"}
Active(r) == pc[r] \in Steps
Version(r) == VersionOf[opts[r]]

TypeOK ==
  /\ pc \in [Runs -> Labels]
  /\ opts \in [Runs -> Params]
  /\ name \in [Runs -> Names]
  /\ idx \in [Runs -> Nat \ {0}]
  /\ attempt \in [Runs -> 1..Retries]
  /\ pkg \in [Runs -> [Names -> Package \cup {NoPackage}]]
  /\ seq \in [Runs -> [Names -> Nat]]
  /\ builds \in [Names -> [Versions -> Nat]]
  /\ installed \in [Peers -> SUBSET Package]
  /\ defs \in [Names -> Seq(Entry)]
  /\ approvals \subseteq Approval
  /\ height \in [Orgs -> [Names -> Nat]]
  /\ known \in [Orgs -> SUBSET Approval]
  /\ inflight \subseteq ApproveTx \cup CommitTx

Init ==
  /\ pc = [r \in Runs |-> "idle"]
  /\ opts \in [Runs -> Params]
  /\ name = [r \in Runs |-> 1]
  /\ idx = [r \in Runs |-> 1]
  /\ attempt = [r \in Runs |-> 1]
  /\ pkg = [r \in Runs |-> [n \in Names |-> NoPackage]]
  /\ seq = [r \in Runs |-> [n \in Names |-> 0]]
  /\ builds = [n \in Names |-> [v \in Versions |-> 0]]
  /\ installed = [p \in Peers |-> {}]
  /\ defs = [n \in Names |-> <<>>]
  /\ approvals = {}
  /\ height = [o \in Orgs |-> [n \in Names |-> 0]]
  /\ known = [o \in Orgs |-> {}]
  /\ inflight = {}

-----------------------------------------------------------------------------
(* Fabric: what peers answer, and how transactions reach the ledger.        *)

\* A peer reports org o's approval of the run's definition (CheckCommitReadiness:
\* it compares the parameters, not the package, and only the next sequence).
Approved(at, o, n, s, p) ==
  /\ s = height[at][n] + 1
  /\ \E a \in known[at] : a.name = n /\ a.org = o /\ a.seq = s /\ a.params = p

\* Two transactions endorsed on the same state touch the same keys.
Conflict(t, u) ==
  LET nameOf(x) == IF x.kind = "commit" THEN x.name ELSE x.approval.name IN
  /\ nameOf(t) = nameOf(u)
  /\ \/ t.kind = "commit" \/ u.kind = "commit"
     \/ t.approval.org = u.approval.org

\* Org o's peer is up to date on the keys it reads and accepts the transaction.  A
\* definition already committed may be approved again (for its package).
CanApprove(o, a) ==
  /\ height[o][a.name] = Len(defs[a.name])
  /\ \A b \in known[o] \cup approvals :
        b.name = a.name /\ b.org = o => b \in known[o] \cap approvals
  /\ \/ a.seq = Len(defs[a.name]) + 1
     \/ a.seq = Len(defs[a.name]) /\ defs[a.name][a.seq].params = a.params

CanCommit(o, t) ==
  /\ height[o][t.name] = Len(defs[t.name])
  /\ \A b \in known[o] \cup approvals : b.name = t.name => b \in known[o] \cap approvals
  /\ t.seq = Len(defs[t.name]) + 1
  /\ \E Q \in Quorums : \A q \in Q : \E a \in approvals :
        a.name = t.name /\ a.org = q /\ a.seq = t.seq /\ a.params = t.params

\* An org holds one approval per sequence: a later one replaces it.
Replaces(a, b) == a.name = b.name /\ a.org = b.org /\ a.seq = b.seq

\* t is ordered and valid; what conflicts with it no longer is.
Order(t) ==
  /\ inflight' = {u \in inflight : u # t /\ ~Conflict(t, u)}
  /\ IF t.kind = "commit"
     THEN /\ defs' = [defs EXCEPT ![t.name] = Append(@, [params |-> t.params, by |-> t.by])]
          /\ UNCHANGED approvals
     ELSE /\ approvals' = {b \in approvals : ~Replaces(t.approval, b)} \cup {t.approval}
          /\ UNCHANGED defs

\* The peer of org o has every block, the one just written too.
CaughtUp(o) ==
  /\ height' = [height EXCEPT ![o] = [n \in Names |-> Len(defs'[n])]]
  /\ known' = [known EXCEPT ![o] = approvals']

\* A transaction whose call had failed is ordered after all.
Deliver(t) ==
  /\ t \in inflight
  /\ Order(t)
  /\ UNCHANGED <<runVars, builds, installed, height, known>>

Sync(o) ==
  /\ UNCHANGED <<runVars, builds, installed, defs, approvals, inflight>>
  /\ CaughtUp(o)

-----------------------------------------------------------------------------
(* Network.retry, forEachPeer and forEachOrg.                               *)

Goto(r, step, i) ==
  /\ pc' = [pc EXCEPT ![r] = step]
  /\ idx' = [idx EXCEPT ![r] = i]
  /\ attempt' = [attempt EXCEPT ![r] = 1]

RestartSequence(step) == CASE step = "approving"  -> "approve"   \* faulty: counts again
                           [] step = "committing" -> "sequence"
                           [] OTHER               -> step

AttemptFailsNoCount(r) ==   \* faulty: the attempt is not counted
  /\ pc' = [pc EXCEPT ![r] = IF @ = "approving" THEN "approve" ELSE
                              IF @ = "committing" THEN "commit" ELSE @]
  /\ UNCHANGED <<attempt, idx>>

AttemptFailsPast(r) ==   \* faulty: one attempt too many
  /\ IF attempt[r] <= Retries
     THEN /\ pc' = [pc EXCEPT ![r] = RestartSequence(@)]
          /\ attempt' = [attempt EXCEPT ![r] = @ + 1]
     ELSE /\ pc' = [pc EXCEPT ![r] = "failed"]
          /\ UNCHANGED attempt
  /\ UNCHANGED idx

AttemptFailsIgnored(r) ==   \* faulty: the last error of an install is dropped
  /\ pc' = [pc EXCEPT ![r] = IF @ = "install" THEN "sequence" ELSE "failed"]
  /\ UNCHANGED <<attempt, idx>>

\* The attempt failed: the closure runs again from its first call, until the
\* last attempt fails the run.
Restart(step) == CASE step = "approving"  -> "approve"
                   [] step = "committing" -> "commit"
                   [] OTHER               -> step
AttemptFails(r) ==
  /\ IF attempt[r] < Retries
     THEN /\ pc' = [pc EXCEPT ![r] = Restart(@)]
          /\ attempt' = [attempt EXCEPT ![r] = @ + 1]
     ELSE /\ pc' = [pc EXCEPT ![r] = "failed"]
          /\ UNCHANGED attempt
  /\ UNCHANGED idx

\* The loop goes on with its next member, or the run with its next step.
LoopOrGo(r, step, last, after) ==
  IF idx[r] < last THEN Goto(r, step, idx[r] + 1) ELSE Goto(r, after, 1)

-----------------------------------------------------------------------------
(* The run.                                                                 *)

\* generatecc writes a package with new contents under the same label.
Generate(n, v) ==
  /\ builds[n][v] < MaxBuilds
  /\ builds' = [builds EXCEPT ![n][v] = @ + 1]
  /\ UNCHANGED <<runVars, installed, ledgerVars>>

Start(r) ==
  /\ pc[r] = "idle"
  /\ Overlap \/ \A q \in Runs : ~Active(q)
  /\ Goto(r, "read", 1)
  /\ UNCHANGED <<opts, name, pkg, seq, builds, installed, ledgerVars>>

\* A missing package file fails the run.
ReadPackage(r) ==
  LET n == name[r]
      b == builds[n][Version(r)]
  IN /\ pc[r] = "read"
     /\ IF b = 0
        THEN /\ Goto(r, "failed", 1)
             /\ UNCHANGED pkg
        ELSE /\ Goto(r, "install", 1)
             /\ pkg' = [pkg EXCEPT ![r][n] =
                          [name |-> n, version |-> Version(r), build |-> b]]
     /\ UNCHANGED <<opts, name, seq, builds, installed, ledgerVars>>

\* installOn: query and, if the package is missing, install.  The peer's set only
\* grows, so a run that installs in between shows as a failed call with effect.
InstallOn(r) ==
  LET f == pkg[r][name[r]]
      p == idx[r]
  IN /\ pc[r] = "install"
     /\ \/ /\ f \in installed[p]
           /\ LoopOrGo(r, "install", NumPeers, "sequence")
           /\ UNCHANGED installed
        \/ /\ f \notin installed[p]
           /\ installed' = [installed EXCEPT ![p] = @ \cup {f}]
           /\ LoopOrGo(r, "install", NumPeers, "sequence") \/ AttemptFails(r)
        \/ /\ AttemptFails(r)
           /\ UNCHANGED installed
     /\ UNCHANGED <<opts, name, pkg, seq, builds, ledgerVars>>

NextSequence(r) ==
  /\ pc[r] = "sequence"
  /\ \/ /\ seq' = [seq EXCEPT ![r][name[r]] = height[1][name[r]] + 1]
        /\ Goto(r, "approve", 1)
     \/ /\ AttemptFails(r)
        /\ UNCHANGED seq
  /\ UNCHANGED <<opts, name, pkg, builds, installed, ledgerVars>>

Ready(r, at, o) == Approved(at, o, name[r], seq[r][name[r]], opts[r])

\* approve, first call: an approved definition is skipped; anything else, a failed
\* query too, goes on to Approve.
ApproveQuery(r) ==
  /\ pc[r] = "approve"
  /\ \/ /\ Ready(r, idx[r], idx[r])
        /\ LoopOrGo(r, "approve", NumOrgs, "ready")
     \/ /\ pc' = [pc EXCEPT ![r] = "approving"]
        /\ UNCHANGED <<idx, attempt>>
  /\ UNCHANGED <<opts, name, pkg, seq, builds, installed, ledgerVars>>

\* approve, second call: it takes effect; it is submitted and fails (the
\* transaction may still be ordered); or it fails before that.
ApproveCall(r) ==
  LET o == idx[r]
      n == name[r]
      a == [name |-> n, org |-> o, seq |-> seq[r][n], params |-> opts[r], pkg |-> pkg[r][n]]
      t == [kind |-> "approve", by |-> r, approval |-> a]
  IN /\ pc[r] = "approving"
     /\ \/ /\ CanApprove(o, a)
           /\ Order(t)
           /\ CaughtUp(o)
           /\ LoopOrGo(r, "approve", NumOrgs, "ready")
        \/ /\ CanApprove(o, a)
           /\ inflight' = inflight \cup {t}
           /\ AttemptFails(r)
           /\ UNCHANGED <<defs, approvals, height, known>>
        \/ /\ AttemptFails(r)
           /\ UNCHANGED ledgerVars
     /\ UNCHANGED <<opts, name, pkg, seq, builds, installed>>

WaitReadyOnce(r) ==   \* faulty: asks the first org's peer alone
  /\ pc[r] = "ready"
  /\ \/ /\ \A o \in Orgs : Ready(r, idx[r], o)
        /\ Goto(r, "commit", 1)
     \/ AttemptFails(r)
  /\ UNCHANGED <<opts, name, pkg, seq, builds, installed, ledgerVars>>

WaitReady(r) ==
  /\ pc[r] = "ready"
  /\ \/ /\ \A o \in Orgs : Ready(r, idx[r], o)
        /\ LoopOrGo(r, "ready", NumOrgs, "commit")
     \/ AttemptFails(r)
  /\ UNCHANGED <<opts, name, pkg, seq, builds, installed, ledgerVars>>

\* commit, first call: it compares the sequence alone.
CommitQuery(r) ==
  /\ pc[r] = "commit"
  /\ \/ /\ height[1][name[r]] = seq[r][name[r]]
        /\ Goto(r, "committed", 1)
     \/ /\ pc' = [pc EXCEPT ![r] = "committing"]
        /\ UNCHANGED <<idx, attempt>>
  /\ UNCHANGED <<opts, name, pkg, seq, builds, installed, ledgerVars>>

CommitCall(r) ==
  LET n == name[r]
      t == [kind |-> "commit", by |-> r, name |-> n, seq |-> seq[r][n], params |-> opts[r]]
  IN /\ pc[r] = "committing"
     /\ \/ /\ CanCommit(1, t)
           /\ Order(t)
           /\ CaughtUp(1)
           /\ Goto(r, "committed", 1)
        \/ /\ CanCommit(1, t)
           /\ inflight' = inflight \cup {t}
           /\ AttemptFails(r)
           /\ UNCHANGED <<defs, approvals, height, known>>
        \/ /\ AttemptFails(r)
           /\ UNCHANGED ledgerVars
     /\ UNCHANGED <<opts, name, pkg, seq, builds, installed>>

SeesSequence(r, o) ==   \* faulty: any version at the sequence
  height[o][name[r]] > 0 /\ height[o][name[r]] = seq[r][name[r]]

\* QueryCommitted on org o answers the run's version and sequence.
SeesCommit(r, o) ==
  LET n == name[r]
      h == height[o][n]
  IN h > 0 /\ h = seq[r][n] /\ VersionOf[defs[n][h].params] = Version(r)

ReturnEarly(r) == Goto(r, "ok", 1) /\ UNCHANGED name   \* faulty: after the first name

\* The loop over o.Names.
NextChaincode(r) ==
  IF name[r] < NumNames
  THEN Goto(r, "read", 1) /\ name' = [name EXCEPT ![r] = @ + 1]
  ELSE Goto(r, "ok", 1) /\ UNCHANGED name

WaitCommitted(r) ==
  /\ pc[r] = "committed"
  /\ \/ /\ SeesCommit(r, idx[r])
        /\ IF idx[r] < NumOrgs
           THEN Goto(r, "committed", idx[r] + 1) /\ UNCHANGED name
           ELSE NextChaincode(r)
     \/ /\ AttemptFails(r)
        /\ UNCHANGED name
  /\ UNCHANGED <<opts, pkg, seq, builds, installed, ledgerVars>>

\* The context is cancelled, the process dies, or a step outside retry fails.
Stop(r) ==
  /\ Active(r)
  /\ Goto(r, "failed", 1)
  /\ UNCHANGED <<opts, name, pkg, seq, builds, installed, ledgerVars>>

RunStep(r) ==
  \/ ReadPackage(r) \/ InstallOn(r) \/ NextSequence(r)
  \/ ApproveQuery(r) \/ ApproveCall(r) \/ WaitReady(r)
  \/ CommitQuery(r) \/ CommitCall(r) \/ WaitCommitted(r)

Next ==
  \/ \E r \in Runs : Start(r) \/ RunStep(r) \/ Stop(r)
  \/ \E t \in inflight : Deliver(t)
  \/ \E o \in Orgs : Sync(o)
  \/ \E n \in Names, v \in Versions : Generate(n, v)

Spec == Init /\ [][Next]_vars

\* Every remote call has a deadline, so a started run keeps taking steps.
FairSpec == Spec /\ \A r \in Runs : WF_vars(RunStep(r))

-----------------------------------------------------------------------------
(* Correctness.                                                             *)

\* Whatever fails or overlaps, an org's approval, on the ledger or still to be
\* ordered, names a package that every peer of every org has: installOn finishes
\* on all peers before approve starts, so a peer whose org approved can run it.
PackageOnPeers(k) == \A p \in Peers : k \in installed[p]
ApprovedIsInstalled ==
  /\ \A a \in approvals : PackageOnPeers(a.pkg)
  /\ \A t \in inflight : t.kind = "approve" => PackageOnPeers(t.approval.pkg)

\* A run commits a chaincode at most once, with its retries and with a commit
\* whose call failed and that is ordered later, even after the run ended
\* ("an attempt whose transaction committed although the call failed is not
\* committed twice", commit).
CommittedOnce ==
  \A n \in Names : \A i, j \in DOMAIN defs[n] :
    defs[n][i].by = defs[n][j].by => i = j

\* A run that reports success left its version committed, at its sequence, for
\* every chaincode it was asked for, and reached every org's peer with it.
SuccessIsCommitted ==
  \A r \in Runs : pc[r] = "ok" =>
    \A n \in Names :
      /\ seq[r][n] \in DOMAIN defs[n]
      /\ VersionOf[defs[n][seq[r][n]].params] = Version(r)
      /\ \A o \in Orgs : height[o][n] >= seq[r][n]

\* No definition is committed before the peer of every org has seen every org's approval
\* at its sequence, with runs that overlap and transactions that are ordered late: Fabric
\* asks for a quorum, and for what the committing org's peer knows, waitReady for all of
\* it on each org.  The approvals are of that definition, unless another run that asked
\* for other parameters took the same sequence.
AllOrgsReady ==
  \A n \in Names : \A i \in DOMAIN defs[n] : \A o, q \in Orgs :
    \E a \in known[o] :
      /\ a.name = n /\ a.org = q /\ a.seq = i
      /\ (\A r \in Runs : seq[r][n] = i => opts[r] = defs[n][i].params)
           => a.params = defs[n][i].params

\* A run that reports success left every org's approval naming the package the run
\* read and installed ("the definition must name the package whose ID generatecc
\* wrote to <label>.id", isInstalled).
DefinitionNamesPackage ==
  \A r \in Runs : pc[r] = "ok" =>
    \A n \in Names : \A a \in approvals :
      a.name = n /\ a.seq = seq[r][n] => a.pkg = pkg[r][n]

\* The definitions a run makes are those `fabric install` promises: appended one at a
\* time, at most one per run and chaincode, in the order of the names, and success
\* only with every version defined (Definitions).
Status(r) == IF Active(r) THEN "running" ELSE pc[r]
Contract == INSTANCE Definitions WITH history <- defs, status <- [r \in Runs |-> Status(r)]
KeepsContract == Contract!ContractSpec

\* The retries are bounded: every run that starts ends.
Termination == \A r \in Runs : pc[r] = "read" ~> pc[r] \in {"ok", "failed"}
=============================================================================
