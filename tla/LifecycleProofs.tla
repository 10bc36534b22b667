--------------------------- MODULE LifecycleProofs ---------------------------
(***************************************************************************)
(* Theorems about Lifecycle, for every number of runs, orgs, peers,        *)
(* chaincodes and retries.                                                 *)
(***************************************************************************)
EXTENDS Lifecycle, TLAPS

ControlType ==
  /\ pc \in [Runs -> Labels]
  /\ idx \in [Runs -> Nat \ {0}]
  /\ attempt \in [Runs -> 1..Retries]

LedgerType ==
  /\ defs \in [Names -> Seq(Entry)]
  /\ approvals \subseteq Approval
  /\ inflight \subseteq ApproveTx \cup CommitTx

ViewType ==
  /\ height \in [Orgs -> [Names -> Nat]]
  /\ known \in [Orgs -> SUBSET Approval]

\* The steps of a run that come after its package was read, installed, numbered.
AfterInstall  == {"sequence", "approve", "approving", "ready", "commit",
                  "committing", "committed"}
AfterSequence == AfterInstall \ {"sequence"}

\* What each step knows of its loop's member, its package and its sequence.
StepInv ==
  \A r \in Runs :
    /\ pc[r] = "install" => idx[r] \in Peers
    /\ pc[r] \in {"approve", "approving", "ready", "committed"} => idx[r] \in Orgs
    /\ pc[r] \in AfterInstall \cup {"install"} => pkg[r][name[r]] \in Package
    /\ pc[r] \in AfterSequence => seq[r][name[r]] # 0

TypeInv == TypeOK /\ StepInv

-----------------------------------------------------------------------------
(* How the helpers move a run and the ledger.                               *)

\* A run that moves to a step keeps the control state well typed.
LEMMA GotoType ==
  ASSUME ControlType, NEW r \in Runs, NEW step \in Labels, NEW i \in Nat \ {0},
         Goto(r, step, i)
  PROVE  ControlType'
BY SizesAssumption DEF ControlType, Goto

\* So does an attempt that fails,
LEMMA AttemptFailsType ==
  ASSUME ControlType, NEW r \in Runs, AttemptFails(r)
  PROVE  ControlType'
<1>1. Restart(pc[r]) \in Labels
  BY DEF ControlType, Restart, Labels, Steps
<1>2. attempt[r] \in Nat /\ attempt[r] >= 1
  BY SizesAssumption DEF ControlType
<1>3. "failed" \in Labels
  BY DEF Labels
<1> QED
  BY <1>1, <1>2, <1>3, SizesAssumption DEF ControlType, AttemptFails

\* and a loop that goes on or ends.
LEMMA LoopOrGoType ==
  ASSUME ControlType, NEW r \in Runs, NEW step \in Labels, NEW after \in Labels,
         NEW last \in Nat, LoopOrGo(r, step, last, after)
  PROVE  ControlType'
<1>1. idx[r] + 1 \in Nat \ {0} /\ 1 \in Nat \ {0}
  BY DEF ControlType
<1>2. CASE idx[r] < last
  BY <1>1, <1>2, GotoType DEF LoopOrGo
<1>3. CASE ~(idx[r] < last)
  BY <1>1, <1>3, GotoType DEF LoopOrGo
<1> QED  BY <1>2, <1>3

\* An ordered transaction leaves the ledger well typed,
LEMMA OrderType ==
  ASSUME LedgerType, NEW t \in ApproveTx \cup CommitTx, Order(t)
  PROVE  LedgerType'
<1>1. inflight' \subseteq ApproveTx \cup CommitTx
  BY DEF LedgerType, Order
<1>2. CASE t.kind = "commit"
  <2>1. t \in CommitTx
    BY <1>2 DEF ApproveTx
  <2>2. [params |-> t.params, by |-> t.by] \in Entry /\ t.name \in Names
    BY <2>1 DEF CommitTx, Entry
  <2>3. defs[t.name] \in Seq(Entry)
    BY <2>2 DEF LedgerType
  <2>4. Append(defs[t.name], [params |-> t.params, by |-> t.by]) \in Seq(Entry)
    BY <2>2, <2>3
  <2>5. defs' \in [Names -> Seq(Entry)]
    BY <1>2, <2>2, <2>4 DEF LedgerType, Order
  <2> QED  BY <1>1, <1>2, <2>5 DEF LedgerType, Order
<1>3. CASE t.kind # "commit"
  <2>1. t \in ApproveTx
    BY <1>3 DEF CommitTx
  <2>2. t.approval \in Approval
    BY <2>1 DEF ApproveTx
  <2> QED  BY <1>1, <1>3, <2>2 DEF LedgerType, Order
<1> QED  BY <1>2, <1>3

\* and a peer that catches up its view of it.
LEMMA CaughtUpType ==
  ASSUME ViewType, LedgerType', NEW o \in Orgs, CaughtUp(o)
  PROVE  ViewType'
<1>1. \A n \in Names : Len(defs'[n]) \in Nat
  BY DEF LedgerType
<1>2. [n \in Names |-> Len(defs'[n])] \in [Names -> Nat]
  BY <1>1
<1>3. approvals' \in SUBSET Approval
  BY DEF LedgerType
<1> QED  BY <1>2, <1>3 DEF ViewType, CaughtUp

-----------------------------------------------------------------------------
(* Type correctness: TypeOK is not inductive alone, StepInv completes it.   *)

RestType ==
  /\ opts \in [Runs -> Params]
  /\ name \in [Runs -> Names]
  /\ pkg \in [Runs -> [Names -> Package \cup {NoPackage}]]
  /\ seq \in [Runs -> [Names -> Nat]]
  /\ builds \in [Names -> [Versions -> Nat]]
  /\ installed \in [Peers -> SUBSET Package]

\* The type invariant is the conjunction of its parts,
LEMMA TypeParts == TypeOK <=> ControlType /\ LedgerType /\ ViewType /\ RestType
BY DEF TypeOK, ControlType, LedgerType, ViewType, RestType

\* and so it is after a step.
LEMMA TypePartsNext ==
  ControlType' /\ LedgerType' /\ ViewType' /\ RestType' => TypeOK'
BY DEF TypeOK, ControlType, LedgerType, ViewType, RestType

\* The program starts well typed.
LEMMA TypeInit == Init => TypeInv
<1> SUFFICES ASSUME Init PROVE TypeInv
  OBVIOUS
<1>1. 1 \in Names /\ 1 \in 1..Retries /\ 1 \in Nat \ {0}
  BY SizesAssumption DEF Names
<1>2. <<>> \in Seq(Entry)
  OBVIOUS
<1>3. TypeOK
  BY <1>1, <1>2 DEF Init, TypeOK, Labels
<1>4. StepInv
  BY DEF Init, StepInv, AfterInstall, AfterSequence
<1> QED  BY <1>3, <1>4 DEF TypeInv

\* Every step of a run keeps the types, one case per call of Install.
LEMMA TypeRun ==
  ASSUME TypeInv, NEW r \in Runs, RunStep(r)
  PROVE  TypeOK'
<1> USE TypeParts, TypePartsNext DEF TypeInv
<1>0. /\ name[r] \in Names /\ opts[r] \in Params /\ Version(r) \in Versions
      /\ 1 \in Orgs
  BY SizesAssumption, ParamsAssumption DEF RestType, Version, Versions, Orgs
<1>1. {"failed", "install", "sequence", "approve", "approving", "ready", "commit",
       "committing", "committed", "read", "ok"} \subseteq Labels /\ 1 \in Nat \ {0}
  BY DEF Labels, Steps
<1>2. NumPeers \in Nat /\ NumOrgs \in Nat
  BY SizesAssumption
<1>3. CASE ReadPackage(r)
  <2>1. ControlType'
    BY <1>1, <1>3, GotoType DEF ReadPackage
  <2>2. CASE builds[name[r]][Version(r)] = 0
    BY <1>3, <2>1, <2>2 DEF ReadPackage, ledgerVars, LedgerType, ViewType, RestType
  <2>3. CASE builds[name[r]][Version(r)] # 0
    <3>1. [name |-> name[r], version |-> Version(r), build |-> builds[name[r]][Version(r)]]
            \in Package
      BY <1>0, <2>3 DEF RestType, Package
    <3>2. pkg' = [pkg EXCEPT ![r][name[r]] =
                   [name |-> name[r], version |-> Version(r),
                    build |-> builds[name[r]][Version(r)]]]
      BY <1>3, <2>3 DEF ReadPackage
    <3>3. pkg' \in [Runs -> [Names -> Package \cup {NoPackage}]]
      BY <3>1, <3>2 DEF RestType
    <3> QED
      BY <1>3, <2>1, <3>3 DEF ReadPackage, ledgerVars, LedgerType, ViewType, RestType
  <2> QED  BY <2>2, <2>3
<1>4. CASE InstallOn(r)
  <2>1. ControlType'
    BY <1>1, <1>2, <1>4, LoopOrGoType, AttemptFailsType DEF InstallOn
  <2>2. pkg[r][name[r]] \in Package
    BY <1>4 DEF StepInv, InstallOn
  <2>3. installed' \in [Peers -> SUBSET Package]
    BY <1>4, <2>2 DEF InstallOn, RestType
  <2> QED
    BY <1>4, <2>1, <2>3 DEF InstallOn, ledgerVars, LedgerType, ViewType, RestType
<1>5. CASE NextSequence(r)
  <2>1. ControlType'
    BY <1>1, <1>5, GotoType, AttemptFailsType DEF NextSequence
  <2>2. height[1][name[r]] + 1 \in Nat
    BY <1>0 DEF ViewType
  <2>3. seq' \in [Runs -> [Names -> Nat]]
    <3>1. CASE seq' = [seq EXCEPT ![r][name[r]] = height[1][name[r]] + 1]
      BY <1>0, <2>2, <3>1 DEF RestType
    <3>2. CASE UNCHANGED seq
      BY <3>2 DEF RestType
    <3> QED  BY <1>5, <3>1, <3>2 DEF NextSequence
  <2> QED
    <3>1. UNCHANGED <<opts, name, pkg, builds, installed, ledgerVars>>
      BY <1>5 DEF NextSequence
    <3> QED  BY <2>1, <2>3, <3>1 DEF ledgerVars, LedgerType, ViewType, RestType
<1>6. CASE ApproveQuery(r)
  <2>1. ControlType'
    <3>1. CASE LoopOrGo(r, "approve", NumOrgs, "ready")
      BY <1>1, <1>2, <3>1, LoopOrGoType
    <3>2. CASE pc' = [pc EXCEPT ![r] = "approving"] /\ UNCHANGED <<idx, attempt>>
      BY <1>1, <3>2 DEF ControlType
    <3> QED  BY <1>6, <3>1, <3>2 DEF ApproveQuery
  <2> QED
    BY <1>6, <2>1 DEF ApproveQuery, ledgerVars, LedgerType, ViewType, RestType
<1>7. CASE ApproveCall(r)
  <2> DEFINE n == name[r]
             a == [name |-> n, org |-> idx[r], seq |-> seq[r][n], params |-> opts[r],
                   pkg |-> pkg[r][n]]
             t == [kind |-> "approve", by |-> r, approval |-> a]
  <2>1. ControlType'
    BY <1>1, <1>2, <1>7, LoopOrGoType, AttemptFailsType DEF ApproveCall
  <2>2. idx[r] \in Orgs /\ pkg[r][n] \in Package /\ seq[r][n] \in Nat \ {0}
    BY <1>0, <1>7 DEF ApproveCall, StepInv, AfterInstall, AfterSequence, RestType
  <2>3. t \in ApproveTx \cup CommitTx
    BY <1>0, <2>2 DEF Approval, ApproveTx
  <2>4. LedgerType' /\ ViewType'
    <3>1. CASE Order(t) /\ CaughtUp(idx[r])
      BY <2>2, <2>3, <3>1, OrderType, CaughtUpType
    <3>2. CASE inflight' = inflight \cup {t} /\ UNCHANGED <<defs, approvals, height, known>>
      BY <2>3, <3>2 DEF LedgerType, ViewType
    <3>3. CASE UNCHANGED ledgerVars
      BY <3>3 DEF LedgerType, ViewType, ledgerVars
    <3> QED  BY <1>7, <3>1, <3>2, <3>3 DEF ApproveCall
  <2> QED  BY <1>7, <2>1, <2>4 DEF ApproveCall, RestType
<1>8. CASE WaitReady(r)
  <2>1. ControlType'
    BY <1>1, <1>2, <1>8, LoopOrGoType, AttemptFailsType DEF WaitReady
  <2> QED
    BY <1>8, <2>1 DEF WaitReady, ledgerVars, LedgerType, ViewType, RestType
<1>9. CASE CommitQuery(r)
  <2>1. ControlType'
    <3>1. CASE Goto(r, "committed", 1)
      BY <1>1, <3>1, GotoType
    <3>2. CASE pc' = [pc EXCEPT ![r] = "committing"] /\ UNCHANGED <<idx, attempt>>
      BY <1>1, <3>2 DEF ControlType
    <3> QED  BY <1>9, <3>1, <3>2 DEF CommitQuery
  <2> QED
    BY <1>9, <2>1 DEF CommitQuery, ledgerVars, LedgerType, ViewType, RestType
<1>10. CASE CommitCall(r)
  <2> DEFINE n == name[r]
             t == [kind |-> "commit", by |-> r, name |-> n, seq |-> seq[r][n],
                   params |-> opts[r]]
  <2>1. ControlType'
    BY <1>1, <1>10, GotoType, AttemptFailsType DEF CommitCall
  <2>2. seq[r][n] \in Nat \ {0}
    BY <1>0, <1>10 DEF CommitCall, StepInv, AfterInstall, AfterSequence, RestType
  <2>3. t \in ApproveTx \cup CommitTx
    BY <1>0, <2>2 DEF CommitTx
  <2>4. LedgerType' /\ ViewType'
    <3>1. CASE Order(t) /\ CaughtUp(1)
      BY <1>0, <2>3, <3>1, OrderType, CaughtUpType
    <3>2. CASE inflight' = inflight \cup {t} /\ UNCHANGED <<defs, approvals, height, known>>
      BY <2>3, <3>2 DEF LedgerType, ViewType
    <3>3. CASE UNCHANGED ledgerVars
      BY <3>3 DEF LedgerType, ViewType, ledgerVars
    <3> QED  BY <1>10, <3>1, <3>2, <3>3 DEF CommitCall
  <2> QED  BY <1>10, <2>1, <2>4 DEF CommitCall, RestType
<1>11. CASE WaitCommitted(r)
  <2>1. ControlType' /\ name' \in [Runs -> Names]
    <3>1. CASE AttemptFails(r) /\ UNCHANGED name
      BY <3>1, AttemptFailsType DEF RestType
    <3>2. CASE Goto(r, "committed", idx[r] + 1) /\ UNCHANGED name
      <4>1. idx[r] + 1 \in Nat \ {0}
        BY DEF ControlType
      <4> QED  BY <1>1, <3>2, <4>1, GotoType DEF RestType
    <3>3. CASE name[r] < NumNames /\ Goto(r, "read", 1) /\ name' = [name EXCEPT ![r] = @ + 1]
      <4>1. name[r] + 1 \in Names
        BY <1>0, <3>3, SizesAssumption DEF Names
      <4> QED  BY <1>1, <3>3, <4>1, GotoType DEF RestType
    <3>4. CASE Goto(r, "ok", 1) /\ UNCHANGED name
      BY <1>1, <3>4, GotoType DEF RestType
    <3> QED  BY <1>11, <3>1, <3>2, <3>3, <3>4 DEF WaitCommitted, NextChaincode
  <2> QED
    BY <1>11, <2>1 DEF WaitCommitted, ledgerVars, LedgerType, ViewType, RestType
<1> QED
  BY <1>3, <1>4, <1>5, <1>6, <1>7, <1>8, <1>9, <1>10, <1>11 DEF RunStep

\* So do the steps of the user, the ledger and the peers.
LEMMA TypeOther ==
  ASSUME TypeInv, Next, ~(\E r \in Runs : RunStep(r))
  PROVE  TypeOK'
<1> USE TypeParts, TypePartsNext DEF TypeInv
<1>1. CASE \E r \in Runs : Start(r) \/ Stop(r)
  <2>1. {"read", "failed"} \subseteq Labels /\ 1 \in Nat \ {0}
    BY DEF Labels, Steps
  <2>2. ControlType'
    BY <1>1, <2>1, GotoType DEF Start, Stop
  <2>3. UNCHANGED <<opts, name, pkg, seq, builds, installed, ledgerVars>>
    BY <1>1 DEF Start, Stop
  <2> QED  BY <2>2, <2>3 DEF ledgerVars, LedgerType, ViewType, RestType
<1>2. CASE \E t \in inflight : Deliver(t)
  <2>1. PICK t \in inflight : Deliver(t)
    BY <1>2
  <2>2. t \in ApproveTx \cup CommitTx /\ Order(t)
    BY <2>1 DEF Deliver, LedgerType
  <2>3. LedgerType'
    BY <2>2, OrderType
  <2> QED  BY <2>1, <2>3 DEF Deliver, runVars, ControlType, ViewType, RestType
<1>3. CASE \E o \in Orgs : Sync(o)
  <2>1. PICK o \in Orgs : Sync(o)
    BY <1>3
  <2>2. LedgerType'
    BY <2>1 DEF Sync, LedgerType
  <2>3. ViewType'
    BY <2>1, <2>2, CaughtUpType DEF Sync
  <2> QED  BY <2>1, <2>2, <2>3 DEF Sync, runVars, ControlType, RestType
<1>4. CASE \E n \in Names, v \in Versions : Generate(n, v)
  <2>1. PICK n \in Names, v \in Versions : Generate(n, v)
    BY <1>4
  <2>2. builds' \in [Names -> [Versions -> Nat]]
    BY <2>1 DEF Generate, RestType
  <2> QED
    BY <2>1, <2>2
       DEF Generate, runVars, ledgerVars, ControlType, LedgerType, ViewType, RestType
<1> QED  BY <1>1, <1>2, <1>3, <1>4 DEF Next

\* The part of the state a step of run r leaves to the other runs.
LEMMA OtherRuns ==
  ASSUME TypeInv, NEW r \in Runs, NEW q \in Runs, q # r,
         Start(r) \/ RunStep(r) \/ Stop(r)
  PROVE  /\ pc'[q] = pc[q] /\ idx'[q] = idx[q] /\ name'[q] = name[q]
         /\ pkg'[q] = pkg[q] /\ seq'[q] = seq[q] /\ opts' = opts
<1> USE DEF TypeInv, TypeOK, Goto, LoopOrGo, AttemptFails
<1>1. CASE Start(r) \/ Stop(r)
  BY <1>1 DEF Start, Stop
<1>2. CASE ReadPackage(r)
  BY <1>2 DEF ReadPackage
<1>3. CASE InstallOn(r)
  BY <1>3 DEF InstallOn
<1>4. CASE NextSequence(r)
  BY <1>4 DEF NextSequence
<1>5. CASE ApproveQuery(r)
  BY <1>5 DEF ApproveQuery
<1>6. CASE ApproveCall(r)
  BY <1>6 DEF ApproveCall
<1>7. CASE WaitReady(r)
  BY <1>7 DEF WaitReady
<1>8. CASE CommitQuery(r)
  BY <1>8 DEF CommitQuery
<1>9. CASE CommitCall(r)
  BY <1>9 DEF CommitCall
<1>10. CASE WaitCommitted(r)
  BY <1>10 DEF WaitCommitted, NextChaincode
<1> QED
  BY <1>1, <1>2, <1>3, <1>4, <1>5, <1>6, <1>7, <1>8, <1>9, <1>10 DEF RunStep

\* And the steps of no run.
LEMMA NoRun ==
  ASSUME Next, ~(\E r \in Runs : Start(r) \/ RunStep(r) \/ Stop(r))
  PROVE  UNCHANGED <<runVars, installed>>
BY DEF Next, Deliver, Sync, Generate

\* What the invariants say of one run.
StepInvOf(r) ==
  /\ pc[r] = "install" => idx[r] \in Peers
  /\ pc[r] \in {"approve", "approving", "ready", "committed"} => idx[r] \in Orgs
  /\ pc[r] \in AfterInstall \cup {"install"} => pkg[r][name[r]] \in Package
  /\ pc[r] \in AfterSequence => seq[r][name[r]] # 0

\* A run's step leaves it in range, with a package and a sequence once it needs them.
LEMMA StepInvRun ==
  ASSUME TypeInv, NEW r \in Runs, Start(r) \/ RunStep(r) \/ Stop(r)
  PROVE  StepInvOf(r)'
<1> USE DEF TypeInv, StepInvOf, AfterInstall, AfterSequence
<1>0. /\ name[r] \in Names /\ pc \in [Runs -> Labels] /\ idx \in [Runs -> Nat \ {0}]
      /\ StepInvOf(r) /\ 1 \in Peers /\ 1 \in Orgs
      /\ (idx[r] < NumPeers => idx[r] + 1 \in Peers)
      /\ (idx[r] < NumOrgs => idx[r] + 1 \in Orgs)
  BY SizesAssumption DEF TypeOK, StepInv, Peers, Orgs
<1>1. CASE Start(r) \/ Stop(r)
  BY <1>0, <1>1 DEF Start, Stop, Goto
<1>2. CASE ReadPackage(r)
  <2>1. CASE builds[name[r]][Version(r)] = 0
    BY <1>0, <1>2, <2>1 DEF ReadPackage, Goto
  <2>2. CASE builds[name[r]][Version(r)] # 0
    <3>1. [name |-> name[r], version |-> Version(r), build |-> builds[name[r]][Version(r)]]
            \in Package
      <4>1. Version(r) \in Versions
        BY ParamsAssumption DEF TypeOK, Version
      <4>2. builds[name[r]][Version(r)] \in Nat \ {0}
        BY <1>0, <2>2, <4>1 DEF TypeOK
      <4> QED  BY <1>0, <4>1, <4>2 DEF Package
    <3>2. pkg'[r][name[r]] = [name |-> name[r], version |-> Version(r),
                              build |-> builds[name[r]][Version(r)]]
      <4>1. pkg' = [pkg EXCEPT ![r][name[r]] =
                     [name |-> name[r], version |-> Version(r),
                      build |-> builds[name[r]][Version(r)]]]
        BY <1>2, <2>2 DEF ReadPackage
      <4>2. pkg \in [Runs -> [Names -> Package \cup {NoPackage}]]
        BY DEF TypeOK
      <4> QED  BY <1>0, <4>1, <4>2
    <3>3. pc'[r] = "install" /\ idx'[r] = 1 /\ name' = name
      BY <1>0, <1>2, <2>2 DEF ReadPackage, Goto
    <3> QED  BY <1>0, <3>1, <3>2, <3>3
  <2> QED  BY <2>1, <2>2
<1>3. CASE InstallOn(r)
  BY <1>0, <1>3 DEF InstallOn, Goto, LoopOrGo, AttemptFails, Restart
<1>4. CASE NextSequence(r)
  <2>1. CASE AttemptFails(r) /\ UNCHANGED seq
    BY <1>0, <1>4, <2>1 DEF NextSequence, AttemptFails, Restart
  <2>2. CASE seq' = [seq EXCEPT ![r][name[r]] = height[1][name[r]] + 1] /\ Goto(r, "approve", 1)
    <3>1. seq'[r][name[r]] # 0
      BY <1>0, <2>2 DEF TypeOK
    <3> QED  BY <1>0, <1>4, <2>2, <3>1 DEF NextSequence, Goto
  <2> QED  BY <1>4, <2>1, <2>2 DEF NextSequence
<1>5. CASE ApproveQuery(r)
  BY <1>0, <1>5 DEF ApproveQuery, Goto, LoopOrGo
<1>6. CASE ApproveCall(r)
  BY <1>0, <1>6 DEF ApproveCall, Goto, LoopOrGo, AttemptFails, Restart
<1>7. CASE WaitReady(r)
  BY <1>0, <1>7 DEF WaitReady, Goto, LoopOrGo, AttemptFails, Restart
<1>8. CASE CommitQuery(r)
  BY <1>0, <1>8 DEF CommitQuery, Goto
<1>9. CASE CommitCall(r)
  BY <1>0, <1>9 DEF CommitCall, Goto, AttemptFails, Restart
<1>10. CASE WaitCommitted(r)
  BY <1>0, <1>10 DEF WaitCommitted, NextChaincode, Goto, AttemptFails, Restart
<1> QED
  BY <1>1, <1>2, <1>3, <1>4, <1>5, <1>6, <1>7, <1>8, <1>9, <1>10 DEF RunStep

\* Types and ranges are kept by every step.
LEMMA TypeNext == TypeInv /\ [Next]_vars => TypeInv'
<1> SUFFICES ASSUME TypeInv, [Next]_vars PROVE TypeInv'
  OBVIOUS
<1>1. CASE UNCHANGED vars
  BY <1>1 DEF vars, runVars, ledgerVars, TypeInv, TypeOK, StepInv, AfterInstall, AfterSequence
<1>2. CASE Next
  <2>1. TypeOK'
    BY <1>2, TypeRun, TypeOther
  <2>2. ASSUME NEW q \in Runs PROVE StepInvOf(q)'
    <3>1. CASE \E r \in Runs : Start(r) \/ RunStep(r) \/ Stop(r)
      <4>1. PICK r \in Runs : Start(r) \/ RunStep(r) \/ Stop(r)
        BY <3>1
      <4>2. CASE q = r
        BY <4>1, <4>2, StepInvRun
      <4>3. CASE q # r
        BY <4>1, <4>3, OtherRuns DEF TypeInv, StepInv, StepInvOf
      <4> QED  BY <4>2, <4>3
    <3>2. CASE ~(\E r \in Runs : Start(r) \/ RunStep(r) \/ Stop(r))
      BY <1>2, <3>2, NoRun DEF runVars, TypeInv, StepInv, StepInvOf
    <3> QED  BY <3>1, <3>2
  <2> QED  BY <2>1, <2>2 DEF TypeInv, StepInv, StepInvOf
<1> QED  BY <1>1, <1>2

\* Every reachable state is well typed, and each run holds what its step needs: a
\* peer or org of its loop, a package once it read one, a sequence once it asked.
THEOREM TypeCorrect == Spec => []TypeOK
<1>1. TypeInv => TypeOK
  BY DEF TypeInv
<1> QED  BY <1>1, TypeInit, TypeNext, PTL DEF Spec

-----------------------------------------------------------------------------
(* ApprovedIsInstalled: a run that is past its install loop has put its     *)
(* package on every peer, and peers never lose a package.                   *)

InstalledSoFar(r) ==
  /\ pc[r] = "install" => \A p \in Peers : p < idx[r] => pkg[r][name[r]] \in installed[p]
  /\ pc[r] \in AfterInstall => PackageOnPeers(pkg[r][name[r]])

InstallInv == ApprovedIsInstalled /\ \A r \in Runs : InstalledSoFar(r)

\* A peer never loses a package.
LEMMA InstalledGrows ==
  ASSUME TypeInv, [Next]_vars
  PROVE  \A p \in Peers : installed[p] \subseteq installed'[p]
<1>1. CASE \E r \in Runs : InstallOn(r)
  BY <1>1 DEF InstallOn, TypeInv, TypeOK
<1>2. CASE UNCHANGED installed
  BY <1>2
<1>3. installed' = installed \/ \E r \in Runs : InstallOn(r)
  BY DEF vars, Next, Start, Stop, RunStep, ReadPackage, NextSequence, ApproveQuery,
         ApproveCall, WaitReady, CommitQuery, CommitCall, WaitCommitted, Deliver, Sync,
         Generate
<1> QED  BY <1>1, <1>2, <1>3

\* Ordering adds no approval but one that was submitted.
LEMMA OrderApproved ==
  ASSUME TypeInv, TypeInv', ApprovedIsInstalled, NEW t \in ApproveTx \cup CommitTx,
         Order(t), t.kind = "approve" => PackageOnPeers(t.approval.pkg),
         \A p \in Peers : installed[p] \subseteq installed'[p]
  PROVE  ApprovedIsInstalled'
<1>1. t.kind \in {"approve", "commit"}
  BY DEF ApproveTx, CommitTx
<1>2. approvals' \subseteq approvals \cup (IF t.kind = "approve" THEN {t.approval} ELSE {})
  BY <1>1 DEF Order
<1>3. inflight' \subseteq inflight
  BY DEF Order
<1> QED  BY <1>2, <1>3 DEF ApprovedIsInstalled, PackageOnPeers

\* The ledger and the peers' views keep the install invariant.
LEMMA InstallLedger ==
  ASSUME TypeInv, TypeInv', InstallInv, Next
  PROVE  ApprovedIsInstalled'
<1>0. \A p \in Peers : installed[p] \subseteq installed'[p]
  BY InstalledGrows
<1> USE <1>0 DEF InstallInv
<1>1. CASE \E r \in Runs : ApproveCall(r)
  <2>1. PICK r \in Runs : ApproveCall(r)
    BY <1>1
  <2> DEFINE n == name[r]
             a == [name |-> n, org |-> idx[r], seq |-> seq[r][n], params |-> opts[r],
                   pkg |-> pkg[r][n]]
             t == [kind |-> "approve", by |-> r, approval |-> a]
  <2>2. pc[r] = "approving" /\ PackageOnPeers(a.pkg)
    BY <2>1 DEF ApproveCall, InstalledSoFar, AfterInstall
  <2>3. CASE Order(t)
    <3>1. /\ idx[r] \in Orgs /\ pkg[r][n] \in Package /\ seq[r][n] \in Nat \ {0}
          /\ n \in Names /\ opts[r] \in Params
      BY <2>2 DEF TypeInv, TypeOK, StepInv, AfterInstall, AfterSequence
    <3>2. t \in ApproveTx \cup CommitTx
      BY <3>1 DEF Approval, ApproveTx
    <3> QED  BY <2>2, <2>3, <3>2, OrderApproved
  <2>4. CASE inflight' = inflight \cup {t} /\ UNCHANGED approvals
    BY <2>2, <2>4 DEF ApprovedIsInstalled, PackageOnPeers
  <2>5. CASE UNCHANGED ledgerVars
    BY <2>5 DEF ApprovedIsInstalled, PackageOnPeers, ledgerVars
  <2> QED  BY <2>1, <2>3, <2>4, <2>5 DEF ApproveCall
<1>2. CASE \E r \in Runs : CommitCall(r)
  <2>1. PICK r \in Runs : CommitCall(r)
    BY <1>2
  <2> DEFINE n == name[r]
             t == [kind |-> "commit", by |-> r, name |-> n, seq |-> seq[r][n],
                   params |-> opts[r]]
  <2>3. CASE Order(t)
    <3>1. approvals' = approvals /\ inflight' \subseteq inflight
      BY <2>3 DEF Order
    <3> QED  BY <3>1 DEF ApprovedIsInstalled, PackageOnPeers
  <2>4. CASE inflight' = inflight \cup {t} /\ UNCHANGED approvals
    BY <2>4 DEF ApprovedIsInstalled, PackageOnPeers
  <2>5. CASE UNCHANGED ledgerVars
    BY <2>5 DEF ApprovedIsInstalled, PackageOnPeers, ledgerVars
  <2> QED  BY <2>1, <2>3, <2>4, <2>5 DEF CommitCall
<1>3. CASE \E t \in inflight : Deliver(t)
  <2>1. PICK t \in inflight : Deliver(t)
    BY <1>3
  <2>2. t \in ApproveTx \cup CommitTx /\ Order(t)
    BY <2>1 DEF Deliver, TypeInv, TypeOK
  <2>3. t.kind = "approve" => PackageOnPeers(t.approval.pkg)
    BY <2>1 DEF ApprovedIsInstalled
  <2> QED  BY <2>2, <2>3, OrderApproved
<1>4. CASE UNCHANGED <<approvals, inflight>>
  BY <1>4 DEF ApprovedIsInstalled, PackageOnPeers
<1>5. \/ UNCHANGED <<approvals, inflight>>
      \/ \E r \in Runs : ApproveCall(r) \/ CommitCall(r)
      \/ \E t \in inflight : Deliver(t)
  BY DEF Next, Start, Stop, RunStep, ReadPackage, InstallOn, NextSequence, ApproveQuery,
         WaitReady, CommitQuery, WaitCommitted, NextChaincode, Sync, Generate, ledgerVars
<1> QED  BY <1>1, <1>2, <1>3, <1>4, <1>5

\* Each step of a run keeps it: only ApproveCall submits, after installOn's loop.
LEMMA InstallRun ==
  ASSUME TypeInv, InstallInv, NEW r \in Runs, Start(r) \/ RunStep(r) \/ Stop(r),
         \A p \in Peers : installed[p] \subseteq installed'[p]
  PROVE  InstalledSoFar(r)'
<1> USE DEF InstalledSoFar, AfterInstall, PackageOnPeers
<1>0. /\ pc \in [Runs -> Labels] /\ idx \in [Runs -> Nat \ {0}]
      /\ InstalledSoFar(r)
  BY DEF TypeInv, TypeOK, InstallInv
<1>1. CASE Start(r) \/ Stop(r)
  BY <1>0, <1>1 DEF Start, Stop, Goto
<1>2. CASE ReadPackage(r)
  BY <1>0, <1>2 DEF ReadPackage, Goto, Peers
<1>3. CASE InstallOn(r)
  <2>1. CASE /\ pkg[r][name[r]] \in installed'[idx[r]]
             /\ LoopOrGo(r, "install", NumPeers, "sequence")
    <3>1. \A p \in Peers : p <= idx[r] => pkg[r][name[r]] \in installed'[p]
      <4>1. \A p \in Peers : p <= idx[r] => p < idx[r] \/ p = idx[r]
        BY <1>0 DEF Peers
      <4> QED  BY <1>0, <1>3, <2>1, <4>1 DEF InstallOn
    <3>2. CASE idx[r] < NumPeers
      BY <1>0, <1>3, <2>1, <3>1, <3>2 DEF InstallOn, LoopOrGo, Goto, Peers
    <3>3. CASE ~(idx[r] < NumPeers)
      <4>1. \A p \in Peers : p <= idx[r]
        BY <1>0, <3>3, SizesAssumption DEF Peers
      <4>2. pc'[r] = "sequence" /\ UNCHANGED <<pkg, name>>
        BY <1>0, <1>3, <2>1, <3>3 DEF InstallOn, LoopOrGo, Goto
      <4> QED  BY <3>1, <4>1, <4>2
    <3> QED  BY <3>2, <3>3
  <2>2. CASE AttemptFails(r)
    BY <1>0, <1>3, <2>2 DEF InstallOn, AttemptFails, Restart
  <2>3. idx[r] \in Peers /\ installed \in [Peers -> SUBSET Package]
    BY <1>3 DEF TypeInv, TypeOK, StepInv, InstallOn
  <2> QED  BY <1>3, <2>1, <2>2, <2>3 DEF InstallOn
<1>4. CASE NextSequence(r)
  BY <1>0, <1>4 DEF NextSequence, Goto, AttemptFails, Restart
<1>5. CASE ApproveQuery(r)
  BY <1>0, <1>5 DEF ApproveQuery, LoopOrGo, Goto
<1>6. CASE ApproveCall(r)
  BY <1>0, <1>6 DEF ApproveCall, LoopOrGo, Goto, AttemptFails, Restart
<1>7. CASE WaitReady(r)
  BY <1>0, <1>7 DEF WaitReady, LoopOrGo, Goto, AttemptFails, Restart
<1>8. CASE CommitQuery(r)
  BY <1>0, <1>8 DEF CommitQuery, Goto
<1>9. CASE CommitCall(r)
  BY <1>0, <1>9 DEF CommitCall, Goto, AttemptFails, Restart
<1>10. CASE WaitCommitted(r)
  BY <1>0, <1>10 DEF WaitCommitted, NextChaincode, Goto, AttemptFails, Restart
<1> QED
  BY <1>1, <1>2, <1>3, <1>4, <1>5, <1>6, <1>7, <1>8, <1>9, <1>10 DEF RunStep

\* The install invariant is kept by every step.
LEMMA InstallNext == TypeInv /\ TypeInv' /\ InstallInv /\ [Next]_vars => InstallInv'
<1> SUFFICES ASSUME TypeInv, TypeInv', InstallInv, [Next]_vars PROVE InstallInv'
  OBVIOUS
<1>0. \A p \in Peers : installed[p] \subseteq installed'[p]
  BY InstalledGrows
<1>1. CASE UNCHANGED vars
  BY <1>1 DEF vars, runVars, ledgerVars, InstallInv, ApprovedIsInstalled, InstalledSoFar,
              AfterInstall, PackageOnPeers
<1>2. CASE Next
  <2>1. ApprovedIsInstalled'
    BY <1>2, InstallLedger
  <2>2. ASSUME NEW q \in Runs PROVE InstalledSoFar(q)'
    <3>1. CASE \E r \in Runs : Start(r) \/ RunStep(r) \/ Stop(r)
      <4>1. PICK r \in Runs : Start(r) \/ RunStep(r) \/ Stop(r)
        BY <3>1
      <4>2. CASE q = r
        BY <1>0, <4>1, <4>2, InstallRun
      <4>3. CASE q # r
        <5>1. pc'[q] = pc[q] /\ idx'[q] = idx[q] /\ name'[q] = name[q] /\ pkg'[q] = pkg[q]
          BY <4>1, <4>3, OtherRuns
        <5> QED  BY <1>0, <5>1 DEF InstallInv, InstalledSoFar, AfterInstall, PackageOnPeers
      <4> QED  BY <4>2, <4>3
    <3>2. CASE ~(\E r \in Runs : Start(r) \/ RunStep(r) \/ Stop(r))
      BY <1>2, <3>2, NoRun
         DEF runVars, InstallInv, InstalledSoFar, AfterInstall, PackageOnPeers
    <3> QED  BY <3>1, <3>2
  <2> QED  BY <2>1, <2>2 DEF InstallInv
<1> QED  BY <1>1, <1>2

\* No org's approval, ordered or still in flight, names a package some peer lacks,
\* however many runs overlap, fail, are stopped or are repeated.
THEOREM ApprovedInstalled == Spec => []ApprovedIsInstalled
<1>1. Init => InstallInv
  BY DEF Init, InstallInv, ApprovedIsInstalled, InstalledSoFar, AfterInstall
<1>2. InstallInv => ApprovedIsInstalled
  BY DEF InstallInv
<1> QED  BY <1>1, <1>2, TypeInit, TypeNext, InstallNext, PTL DEF Spec

-----------------------------------------------------------------------------
(* CommittedOnce: a run asks for a sequence once per chaincode and every    *)
(* commit it sends carries that sequence, which the ledger accepts once.    *)

BeforeSequence == {"idle", "read", "install", "sequence"}

Unnumbered(r) ==
  \A n \in Names :
    n > name[r] \/ (n = name[r] /\ pc[r] \in BeforeSequence) => seq[r][n] = 0

SeqOfEntry ==
  \A n \in Names : \A i \in DOMAIN defs[n] : seq[defs[n][i].by][n] = i

SeqOfInflight ==
  \A t \in inflight : t.kind = "commit" =>
    t.seq = seq[t.by][t.name] /\ t.seq = Len(defs[t.name]) + 1

OnceInv == SeqOfEntry /\ SeqOfInflight /\ \A r \in Runs : Unnumbered(r)

\* Ordering a commit adds the run's only definition, and drops what conflicts.
LEMMA OrderOnce ==
  ASSUME TypeInv, SeqOfEntry, SeqOfInflight, NEW t \in ApproveTx \cup CommitTx, Order(t),
         t.kind = "commit" => t.seq = seq[t.by][t.name] /\ t.seq = Len(defs[t.name]) + 1,
         UNCHANGED seq
  PROVE  SeqOfEntry' /\ SeqOfInflight'
<1>1. CASE t.kind # "commit"
  <2>1. UNCHANGED defs /\ inflight' \subseteq inflight
    BY <1>1 DEF Order
  <2> QED  BY <2>1 DEF SeqOfEntry, SeqOfInflight
<1>2. CASE t.kind = "commit"
  <2> DEFINE e == [params |-> t.params, by |-> t.by]
             d == defs[t.name]
  <2>1. t.name \in Names /\ t.by \in Runs /\ t.seq \in Nat \ {0} /\ e \in Entry
    BY <1>2 DEF ApproveTx, CommitTx, Entry
  <2>2. d \in Seq(Entry) /\ defs' = [defs EXCEPT ![t.name] = Append(d, e)]
    BY <1>2, <2>1 DEF TypeInv, TypeOK, Order
  <2>3. ASSUME NEW n \in Names, NEW i \in DOMAIN defs'[n]
        PROVE  seq[defs'[n][i].by][n] = i
    <3>1. CASE n # t.name
      <4>1. defs'[n] = defs[n]
        BY <2>2, <3>1 DEF TypeInv, TypeOK
      <4> QED  BY <2>3, <4>1 DEF SeqOfEntry
    <3>2. CASE n = t.name
      <4>1. defs'[n] = Append(d, e)
        BY <2>1, <2>2, <3>2 DEF TypeInv, TypeOK
      <4>2. i \in 1..(Len(d) + 1)
        BY <2>1, <2>2, <2>3, <4>1
      <4>3. CASE i = Len(d) + 1
        <5>1. defs'[n][i] = e
          BY <2>1, <2>2, <4>1, <4>3
        <5> QED  BY <1>2, <3>2, <4>3, <5>1
      <4>4. CASE i # Len(d) + 1
        <5>1. i \in DOMAIN defs[n] /\ defs'[n][i] = defs[n][i]
          BY <2>1, <2>2, <3>2, <4>1, <4>2, <4>4
        <5> QED  BY <5>1 DEF SeqOfEntry
      <4> QED  BY <4>3, <4>4
    <3> QED  BY <3>1, <3>2
  <2>4. ASSUME NEW u \in inflight', u.kind = "commit"
        PROVE  u.seq = seq[u.by][u.name] /\ u.seq = Len(defs'[u.name]) + 1
    <3>1. u \in inflight /\ ~Conflict(t, u)
      BY DEF Order
    <3>2. u.name # t.name
      BY <1>2, <2>4, <3>1 DEF Conflict
    <3>3. u.name \in Names
      BY <2>4, <3>1 DEF TypeInv, TypeOK, ApproveTx, CommitTx
    <3>4. defs'[u.name] = defs[u.name]
      BY <2>2, <3>2, <3>3 DEF TypeInv, TypeOK
    <3> QED  BY <2>4, <3>1, <3>4 DEF SeqOfInflight
  <2> QED  BY <2>3, <2>4 DEF SeqOfEntry, SeqOfInflight
<1> QED  BY <1>1, <1>2

\* A step that leaves the runs alone keeps the once invariant.
LEMMA OnceLedger ==
  ASSUME TypeInv, OnceInv, Next
  PROVE  SeqOfEntry' /\ SeqOfInflight'
<1> USE DEF OnceInv
<1>1. CASE \E r \in Runs : NextSequence(r)
  <2>1. PICK r \in Runs : NextSequence(r)
    BY <1>1
  <2>2. UNCHANGED <<defs, inflight>>
    BY <2>1 DEF NextSequence, ledgerVars
  <2>3. CASE UNCHANGED seq
    BY <2>2, <2>3 DEF SeqOfEntry, SeqOfInflight
  <2>4. CASE seq' = [seq EXCEPT ![r][name[r]] = height[1][name[r]] + 1]
    <3>1. name[r] \in Names /\ seq[r][name[r]] = 0
      BY <2>1 DEF NextSequence, Unnumbered, BeforeSequence, TypeInv, TypeOK
    <3>2. \A q \in Runs, n \in Names : seq[q][n] # 0 => seq'[q][n] = seq[q][n]
      BY <2>4, <3>1 DEF TypeInv, TypeOK
    <3>3. ASSUME NEW n \in Names, NEW i \in DOMAIN defs[n]
          PROVE  seq'[defs[n][i].by][n] = i
      <4>1. defs[n] \in Seq(Entry)
        BY DEF TypeInv, TypeOK
      <4>2. defs[n][i].by \in Runs /\ i # 0
        <5>1. i \in 1..Len(defs[n]) /\ Len(defs[n]) \in Nat
          BY <3>3, <4>1
        <5>2. defs[n][i] \in Entry
          BY <4>1, <5>1
        <5> QED  BY <5>1, <5>2 DEF Entry
      <4> QED  BY <3>2, <3>3, <4>2 DEF SeqOfEntry
    <3>4. ASSUME NEW t \in inflight, t.kind = "commit"
          PROVE  t.seq = seq'[t.by][t.name] /\ t.seq = Len(defs[t.name]) + 1
      <4>1. t.by \in Runs /\ t.name \in Names /\ t.seq # 0
        BY <3>4 DEF TypeInv, TypeOK, ApproveTx, CommitTx
      <4> QED  BY <3>2, <3>4, <4>1 DEF SeqOfInflight
    <3> QED  BY <2>2, <3>3, <3>4 DEF SeqOfEntry, SeqOfInflight
  <2> QED  BY <2>1, <2>3, <2>4 DEF NextSequence
<1>2. CASE \E r \in Runs : ApproveCall(r)
  <2>1. PICK r \in Runs : ApproveCall(r)
    BY <1>2
  <2> DEFINE n == name[r]
             a == [name |-> n, org |-> idx[r], seq |-> seq[r][n], params |-> opts[r],
                   pkg |-> pkg[r][n]]
             t == [kind |-> "approve", by |-> r, approval |-> a]
  <2>2. UNCHANGED seq
    BY <2>1 DEF ApproveCall
  <2>3. CASE Order(t)
    <3>1. UNCHANGED defs /\ inflight' \subseteq inflight
      BY <2>3 DEF Order
    <3> QED  BY <2>2, <3>1 DEF SeqOfEntry, SeqOfInflight
  <2>4. CASE inflight' = inflight \cup {t} /\ UNCHANGED defs
    BY <2>2, <2>4 DEF SeqOfEntry, SeqOfInflight
  <2>5. CASE UNCHANGED ledgerVars
    BY <2>2, <2>5 DEF SeqOfEntry, SeqOfInflight, ledgerVars
  <2> QED  BY <2>1, <2>3, <2>4, <2>5 DEF ApproveCall
<1>3. CASE \E r \in Runs : CommitCall(r)
  <2>1. PICK r \in Runs : CommitCall(r)
    BY <1>3
  <2> DEFINE n == name[r]
             t == [kind |-> "commit", by |-> r, name |-> n, seq |-> seq[r][n],
                   params |-> opts[r]]
  <2>2. UNCHANGED seq
    BY <2>1 DEF CommitCall
  <2>3. t \in ApproveTx \cup CommitTx
    BY <2>1 DEF CommitCall, CommitTx, TypeInv, TypeOK, StepInv, AfterInstall, AfterSequence
  <2>4. CASE CanCommit(1, t) /\ Order(t)
    BY <2>2, <2>3, <2>4, OrderOnce DEF CanCommit
  <2>5. CASE CanCommit(1, t) /\ inflight' = inflight \cup {t} /\ UNCHANGED defs
    BY <2>2, <2>5 DEF SeqOfEntry, SeqOfInflight, CanCommit
  <2>6. CASE UNCHANGED ledgerVars
    BY <2>2, <2>6 DEF SeqOfEntry, SeqOfInflight, ledgerVars
  <2> QED  BY <2>1, <2>4, <2>5, <2>6 DEF CommitCall
<1>4. CASE \E t \in inflight : Deliver(t)
  <2>1. PICK t \in inflight : Deliver(t)
    BY <1>4
  <2>2. t \in ApproveTx \cup CommitTx /\ Order(t) /\ UNCHANGED seq
    BY <2>1 DEF Deliver, runVars, TypeInv, TypeOK
  <2>3. t.kind = "commit" => t.seq = seq[t.by][t.name] /\ t.seq = Len(defs[t.name]) + 1
    BY <2>1 DEF SeqOfInflight
  <2> QED  BY <2>2, <2>3, OrderOnce
<1>5. CASE UNCHANGED <<seq, defs, inflight>>
  BY <1>5 DEF SeqOfEntry, SeqOfInflight
<1>6. \/ UNCHANGED <<seq, defs, inflight>>
      \/ \E r \in Runs : NextSequence(r) \/ ApproveCall(r) \/ CommitCall(r)
      \/ \E t \in inflight : Deliver(t)
  BY DEF Next, Start, Stop, RunStep, ReadPackage, InstallOn, ApproveQuery, WaitReady,
         CommitQuery, WaitCommitted, NextChaincode, Sync, Generate, ledgerVars, runVars
<1> QED  BY <1>1, <1>2, <1>3, <1>4, <1>5, <1>6

\* A run has no sequence yet for the chaincodes it has not asked for.
LEMMA OnceRun ==
  ASSUME TypeInv, OnceInv, NEW r \in Runs, Start(r) \/ RunStep(r) \/ Stop(r)
  PROVE  Unnumbered(r)'
<1> USE DEF Unnumbered, BeforeSequence
<1>0. /\ pc \in [Runs -> Labels] /\ name \in [Runs -> Names] /\ Names \subseteq Nat
      /\ seq \in [Runs -> [Names -> Nat]]
      /\ Unnumbered(r)
  BY DEF TypeInv, TypeOK, OnceInv, Names
<1>1. CASE Start(r) \/ Stop(r)
  BY <1>0, <1>1 DEF Start, Stop, Goto
<1>2. CASE ReadPackage(r)
  BY <1>0, <1>2 DEF ReadPackage, Goto
<1>3. CASE InstallOn(r)
  BY <1>0, <1>3 DEF InstallOn, LoopOrGo, Goto, AttemptFails, Restart
<1>4. CASE NextSequence(r)
  BY <1>0, <1>4 DEF NextSequence, Goto, AttemptFails, Restart
<1>5. CASE ApproveQuery(r)
  BY <1>0, <1>5 DEF ApproveQuery, LoopOrGo, Goto
<1>6. CASE ApproveCall(r)
  BY <1>0, <1>6 DEF ApproveCall, LoopOrGo, Goto, AttemptFails, Restart
<1>7. CASE WaitReady(r)
  BY <1>0, <1>7 DEF WaitReady, LoopOrGo, Goto, AttemptFails, Restart
<1>8. CASE CommitQuery(r)
  BY <1>0, <1>8 DEF CommitQuery, Goto
<1>9. CASE CommitCall(r)
  BY <1>0, <1>9 DEF CommitCall, Goto, AttemptFails, Restart
<1>10. CASE WaitCommitted(r)
  <2>1. CASE AttemptFails(r) /\ UNCHANGED name
    BY <1>0, <1>10, <2>1 DEF WaitCommitted, AttemptFails, Restart
  <2>2. CASE (Goto(r, "committed", idx[r] + 1) \/ Goto(r, "ok", 1)) /\ UNCHANGED name
    BY <1>0, <1>10, <2>2 DEF WaitCommitted, NextChaincode, Goto
  <2>3. CASE Goto(r, "read", 1) /\ name' = [name EXCEPT ![r] = @ + 1]
    <3>1. name'[r] = name[r] + 1 /\ name[r] \in Nat /\ UNCHANGED seq
      BY <1>0, <1>10, <2>3 DEF WaitCommitted
    <3>2. ASSUME NEW n \in Names, n > name'[r] \/ n = name'[r] PROVE seq'[r][n] = 0
      <4>1. n > name[r]
        BY <1>0, <3>1, <3>2
      <4> QED  BY <1>0, <3>1, <4>1
    <3> QED  BY <3>2
  <2> QED  BY <1>10, <2>1, <2>2, <2>3 DEF WaitCommitted, NextChaincode
<1> QED
  BY <1>1, <1>2, <1>3, <1>4, <1>5, <1>6, <1>7, <1>8, <1>9, <1>10 DEF RunStep

\* The once invariant is kept by every step.
LEMMA OnceNext == TypeInv /\ OnceInv /\ [Next]_vars => OnceInv'
<1> SUFFICES ASSUME TypeInv, OnceInv, [Next]_vars PROVE OnceInv'
  OBVIOUS
<1>1. CASE UNCHANGED vars
  BY <1>1 DEF vars, runVars, ledgerVars, OnceInv, SeqOfEntry, SeqOfInflight, Unnumbered,
              BeforeSequence
<1>2. CASE Next
  <2>1. SeqOfEntry' /\ SeqOfInflight'
    BY <1>2, OnceLedger
  <2>2. ASSUME NEW q \in Runs PROVE Unnumbered(q)'
    <3>1. CASE \E r \in Runs : Start(r) \/ RunStep(r) \/ Stop(r)
      <4>1. PICK r \in Runs : Start(r) \/ RunStep(r) \/ Stop(r)
        BY <3>1
      <4>2. CASE q = r
        BY <4>1, <4>2, OnceRun
      <4>3. CASE q # r
        <5>1. pc'[q] = pc[q] /\ name'[q] = name[q] /\ seq'[q] = seq[q]
          BY <4>1, <4>3, OtherRuns
        <5> QED  BY <5>1 DEF OnceInv, Unnumbered, BeforeSequence
      <4> QED  BY <4>2, <4>3
    <3>2. CASE ~(\E r \in Runs : Start(r) \/ RunStep(r) \/ Stop(r))
      BY <1>2, <3>2, NoRun DEF runVars, OnceInv, Unnumbered, BeforeSequence
    <3> QED  BY <3>1, <3>2
  <2> QED  BY <2>1, <2>2 DEF OnceInv
<1> QED  BY <1>1, <1>2

\* Nothing is defined or numbered at the start.
LEMMA OnceInit == Init => OnceInv
<1> SUFFICES ASSUME Init PROVE OnceInv
  OBVIOUS
<1>2. ASSUME NEW n \in Names PROVE DOMAIN defs[n] = {}
  <2>1. defs[n] = <<>>
    BY DEF Init
  <2> QED  BY <2>1
<1>3. SeqOfEntry
  BY <1>2 DEF SeqOfEntry
<1>4. SeqOfInflight
  BY DEF Init, SeqOfInflight
<1>5. ASSUME NEW r \in Runs PROVE Unnumbered(r)
  BY DEF Init, Unnumbered
<1> QED  BY <1>3, <1>4, <1>5 DEF OnceInv

\* A run commits each chaincode at most once: by its own call, by a retry, or by a
\* transaction whose call failed, and only one of them.
THEOREM CommitsOnce == Spec => []CommittedOnce
<1>1. OnceInv => CommittedOnce
  BY DEF OnceInv, SeqOfEntry, CommittedOnce
<1> QED  BY <1>1, OnceInit, TypeInit, TypeNext, OnceNext, PTL DEF Spec
=============================================================================
