----------------------- MODULE LifecycleSuccessProofs -----------------------
(***************************************************************************)
(* What the definitions that `fabric install` commits have, what its        *)
(* success means, and that Lifecycle implements Definitions, for every      *)
(* number of runs, orgs, peers, chaincodes and retries, and any quorums.    *)
(***************************************************************************)
EXTENDS LifecycleProofs

\* The transactions that run r's calls submit.
ApproveTxOf(r) ==
  [kind |-> "approve", by |-> r,
   approval |-> [name |-> name[r], org |-> idx[r], seq |-> seq[r][name[r]],
                 params |-> opts[r], pkg |-> pkg[r][name[r]]]]
CommitTxOf(r) ==
  [kind |-> "commit", by |-> r, name |-> name[r], seq |-> seq[r][name[r]],
   params |-> opts[r]]

SentNow(t) ==
  \E r \in Runs : \/ pc[r] = "approving" /\ t = ApproveTxOf(r)
                  \/ pc[r] = "committing" /\ t = CommitTxOf(r) /\ CanCommit(1, t)

Moves(t) ==
  \/ Order(t)
  \/ inflight' = inflight \cup {t} /\ UNCHANGED <<defs, approvals>>

-----------------------------------------------------------------------------
(* How a step moves the ledger, the peers' views and the runs.              *)

\* A transaction is ordered or submitted by a call of a run, or ordered late.
LEMMA LedgerMoves ==
  ASSUME TypeInv, [Next]_vars
  PROVE  \/ UNCHANGED <<defs, approvals, inflight>>
         \/ \E t \in ApproveTx \cup CommitTx : (SentNow(t) \/ t \in inflight) /\ Moves(t)
<1>1. CASE \E r \in Runs : ApproveCall(r)
  <2>1. PICK r \in Runs : ApproveCall(r)
    BY <1>1
  <2>2. /\ pc[r] = "approving" /\ idx[r] \in Orgs /\ pkg[r][name[r]] \in Package
        /\ seq[r][name[r]] \in Nat \ {0} /\ name[r] \in Names /\ opts[r] \in Params
    BY <2>1 DEF ApproveCall, TypeInv, TypeOK, StepInv, AfterInstall, AfterSequence
  <2>3. ApproveTxOf(r) \in ApproveTx \cup CommitTx /\ SentNow(ApproveTxOf(r))
    BY <2>2 DEF ApproveTxOf, Approval, ApproveTx, SentNow
  <2>4. \/ Moves(ApproveTxOf(r))
        \/ UNCHANGED ledgerVars
    BY <2>1 DEF ApproveCall, ApproveTxOf, Moves
  <2> QED BY <2>3, <2>4 DEF ledgerVars
<1>2. CASE \E r \in Runs : CommitCall(r)
  <2>1. PICK r \in Runs : CommitCall(r)
    BY <1>2
  <2>2. /\ pc[r] = "committing" /\ seq[r][name[r]] \in Nat \ {0}
        /\ name[r] \in Names /\ opts[r] \in Params
    BY <2>1 DEF CommitCall, TypeInv, TypeOK, StepInv, AfterInstall, AfterSequence
  <2>3. CommitTxOf(r) \in ApproveTx \cup CommitTx
    BY <2>2 DEF CommitTxOf, CommitTx
  <2>4. \/ CanCommit(1, CommitTxOf(r)) /\ Moves(CommitTxOf(r))
        \/ UNCHANGED ledgerVars
    BY <2>1 DEF CommitCall, CommitTxOf, Moves
  <2>5. CanCommit(1, CommitTxOf(r)) => SentNow(CommitTxOf(r))
    BY <2>2 DEF SentNow
  <2> QED BY <2>3, <2>4, <2>5 DEF ledgerVars
<1>3. CASE \E t \in inflight : Deliver(t)
  BY <1>3 DEF Deliver, Moves, TypeInv, TypeOK
<1>4. \/ UNCHANGED <<defs, approvals, inflight>>
      \/ \E r \in Runs : ApproveCall(r) \/ CommitCall(r)
      \/ \E t \in inflight : Deliver(t)
  BY DEF Next, Start, Stop, RunStep, ReadPackage, InstallOn, NextSequence, ApproveQuery,
         WaitReady, CommitQuery, WaitCommitted, Sync, Generate, ledgerVars, vars
<1> QED BY <1>1, <1>2, <1>3, <1>4

\* A peer's view stays, or it catches up with the ledger.
LEMMA ViewMoves ==
  ASSUME TypeInv, [Next]_vars
  PROVE  UNCHANGED <<height, known>> \/ \E o \in Orgs : CaughtUp(o)
<1>1. CASE \E r \in Runs : ApproveCall(r)
  <2>1. PICK r \in Runs : ApproveCall(r)
    BY <1>1
  <2>2. idx[r] \in Orgs
    BY <2>1 DEF ApproveCall, TypeInv, StepInv
  <2> QED BY <2>1, <2>2 DEF ApproveCall, ledgerVars
<1>2. CASE \E r \in Runs : CommitCall(r)
  <2>1. 1 \in Orgs
    BY SizesAssumption DEF Orgs
  <2> QED BY <1>2, <2>1 DEF CommitCall, ledgerVars
<1>3. CASE \E o \in Orgs : Sync(o)
  BY <1>3 DEF Sync
<1>4. \/ UNCHANGED <<height, known>>
      \/ \E r \in Runs : ApproveCall(r) \/ CommitCall(r)
      \/ \E o \in Orgs : Sync(o)
  BY DEF Next, Start, Stop, RunStep, ReadPackage, InstallOn, NextSequence, ApproveQuery,
         WaitReady, CommitQuery, WaitCommitted, Deliver, Generate, ledgerVars, vars
<1> QED BY <1>1, <1>2, <1>3, <1>4

\* A run that has started stays so, and keeps its parameters.
LEMMA StaysStarted ==
  ASSUME TypeInv, [Next]_vars
  PROVE  opts' = opts /\ \A q \in Runs : pc[q] # "idle" => pc'[q] # "idle"
<1> USE DEF TypeInv, TypeOK
<1>1. ASSUME NEW r \in Runs, Start(r) \/ RunStep(r) \/ Stop(r)
      PROVE  opts' = opts /\ pc'[r] # "idle"
  <2> USE DEF Goto, LoopOrGo
  <2>0. pc \in [Runs -> Labels]
    OBVIOUS
  <2>1. ASSUME AttemptFails(r), pc[r] # "idle" PROVE pc'[r] # "idle"
    BY <2>0, <2>1 DEF AttemptFails, Restart
  <2>2. CASE Start(r) \/ Stop(r)
    BY <2>0, <2>2 DEF Start, Stop
  <2>3. CASE ReadPackage(r)
    BY <2>0, <2>3 DEF ReadPackage
  <2>4. CASE InstallOn(r)
    BY <2>0, <2>1, <2>4 DEF InstallOn
  <2>5. CASE NextSequence(r)
    BY <2>0, <2>1, <2>5 DEF NextSequence
  <2>6. CASE ApproveQuery(r)
    BY <2>0, <2>6 DEF ApproveQuery
  <2>7. CASE ApproveCall(r)
    BY <2>0, <2>1, <2>7 DEF ApproveCall
  <2>8. CASE WaitReady(r)
    BY <2>0, <2>1, <2>8 DEF WaitReady
  <2>9. CASE CommitQuery(r)
    BY <2>0, <2>9 DEF CommitQuery
  <2>10. CASE CommitCall(r)
    BY <2>0, <2>1, <2>10 DEF CommitCall
  <2>11. CASE WaitCommitted(r)
    BY <2>0, <2>1, <2>11 DEF WaitCommitted, NextChaincode
  <2> QED
    BY <1>1, <2>2, <2>3, <2>4, <2>5, <2>6, <2>7, <2>8, <2>9, <2>10, <2>11 DEF RunStep
<1>2. CASE \E r \in Runs : Start(r) \/ RunStep(r) \/ Stop(r)
  <2>1. PICK r \in Runs : Start(r) \/ RunStep(r) \/ Stop(r)
    BY <1>2
  <2> QED BY <1>1, <2>1, OtherRuns
<1>3. CASE ~(\E r \in Runs : Start(r) \/ RunStep(r) \/ Stop(r))
  <2>1. UNCHANGED runVars
    BY <1>3, NoRun DEF vars
  <2> QED BY <2>1 DEF runVars
<1> QED BY <1>2, <1>3

\* Ordering appends to the history of definitions, at most one.
LEMMA OrderGrows ==
  ASSUME TypeInv, NEW t \in ApproveTx \cup CommitTx, Order(t), NEW n \in Names
  PROVE  /\ Len(defs[n]) <= Len(defs'[n])
         /\ \A i \in 1..Len(defs[n]) : defs'[n][i] = defs[n][i]
<1>0. defs \in [Names -> Seq(Entry)] /\ defs[n] \in Seq(Entry)
  BY DEF TypeInv, TypeOK
<1>1. CASE t.kind = "commit"
  <2> DEFINE e == [params |-> t.params, by |-> t.by]
  <2>1. t.name \in Names /\ e \in Entry
    BY <1>1 DEF ApproveTx, CommitTx, Entry
  <2>2. defs' = [defs EXCEPT ![t.name] = Append(@, e)]
    BY <1>1 DEF Order
  <2>3. defs'[n] = defs[n] \/ defs'[n] = Append(defs[n], e)
    BY <1>0, <2>2
  <2> QED BY <1>0, <2>1, <2>3
<1>2. CASE t.kind # "commit"
  BY <1>0, <1>2 DEF Order
<1> QED BY <1>1, <1>2

\* No step shortens or rewrites the history.
LEMMA DefsGrow ==
  ASSUME TypeInv, [Next]_vars, NEW n \in Names
  PROVE  /\ Len(defs[n]) <= Len(defs'[n])
         /\ \A i \in 1..Len(defs[n]) : defs'[n][i] = defs[n][i]
<1>0. defs[n] \in Seq(Entry) /\ Len(defs[n]) \in Nat
  BY DEF TypeInv, TypeOK
<1>1. CASE UNCHANGED defs
  BY <1>0, <1>1
<1>2. CASE \E t \in ApproveTx \cup CommitTx : Order(t)
  BY <1>2, OrderGrows
<1> QED BY <1>1, <1>2, LedgerMoves DEF Moves

-----------------------------------------------------------------------------
(* AllOrgsReady.                                                            *)

HasApproval(n, s, o) == \E a \in approvals : a.name = n /\ a.org = o /\ a.seq = s
HasSeen(o, n, s, q) == \E a \in known[o] : a.name = n /\ a.org = q /\ a.seq = s
AllSee(n, s) == \A o, q \in Orgs : HasSeen(o, n, s, q)
\* A run took the approval's sequence and asked for its parameters.
AskedFor(a) == \E r \in Runs : seq[r][a.name] = a.seq /\ opts[r] = a.params

\* A transaction carries what its run asked for; a commit comes after waitReady.
OfItsRun(t) ==
  /\ pc[t.by] # "idle"
  /\ t.kind = "approve" =>
       seq[t.by][t.approval.name] = t.approval.seq /\ opts[t.by] = t.approval.params
  /\ t.kind = "commit" => t.params = opts[t.by] /\ AllSee(t.name, t.seq)

\* The orgs that waitReady has passed have seen every org's approval.
SeenByPassed(r) ==
  /\ pc[r] = "ready" => \A o, q \in Orgs : o < idx[r] => HasSeen(o, name[r], seq[r][name[r]], q)
  /\ pc[r] \in {"commit", "committing"} => AllSee(name[r], seq[r][name[r]])

ApprovalInv ==
  /\ \A a \in approvals : AskedFor(a)
  /\ \A o \in Orgs : \A a \in known[o] : AskedFor(a) /\ HasApproval(a.name, a.seq, a.org)
  /\ \A t \in inflight : OfItsRun(t)
  /\ \A n \in Names : \A i \in DOMAIN defs[n] : AllSee(n, i)
  /\ \A r \in Runs : SeenByPassed(r)

\* A sequence that a run has taken is its sequence for good.
LEMMA NumberStays ==
  ASSUME TypeInv, OnceInv, [Next]_vars, NEW r \in Runs, NEW n \in Names, seq[r][n] # 0
  PROVE  seq'[r][n] = seq[r][n]
<1>1. CASE \E q \in Runs : NextSequence(q)
  <2>1. PICK q \in Runs : NextSequence(q)
    BY <1>1
  <2>2. name[q] \in Names /\ seq[q][name[q]] = 0
    BY <2>1 DEF NextSequence, OnceInv, Unnumbered, BeforeSequence, TypeInv, TypeOK
  <2>3. UNCHANGED seq \/ seq' = [seq EXCEPT ![q][name[q]] = height[1][name[q]] + 1]
    BY <2>1 DEF NextSequence
  <2>4. seq \in [Runs -> [Names -> Nat]] /\ (q # r \/ name[q] # n)
    BY <2>2 DEF TypeInv, TypeOK
  <2> QED BY <2>2, <2>3, <2>4
<1>2. UNCHANGED seq \/ \E q \in Runs : NextSequence(q)
  BY DEF Next, Start, Stop, RunStep, ReadPackage, InstallOn, ApproveQuery, ApproveCall,
         WaitReady, CommitQuery, CommitCall, WaitCommitted, Deliver, Sync, Generate,
         runVars, vars
<1> QED BY <1>1, <1>2

\* An org's approval is only ever replaced by another one of its own at that sequence.
LEMMA ApprovalStays ==
  ASSUME TypeInv, [Next]_vars, NEW n, NEW s, NEW o, HasApproval(n, s, o)
  PROVE  HasApproval(n, s, o)'
<1>1. PICK a \in approvals : a.name = n /\ a.org = o /\ a.seq = s
  BY DEF HasApproval
<1>2. CASE UNCHANGED approvals
  BY <1>1, <1>2 DEF HasApproval
<1>3. ASSUME NEW t \in ApproveTx \cup CommitTx, Order(t), t.kind # "commit"
      PROVE  HasApproval(n, s, o)'
  BY <1>1, <1>3 DEF Order, Replaces, HasApproval
<1> QED BY <1>2, <1>3, LedgerMoves DEF Moves, Order

\* So a peer that has seen one keeps one in sight.
LEMMA SightStays ==
  ASSUME TypeInv, ApprovalInv, [Next]_vars, NEW o \in Orgs, NEW n, NEW s, NEW q,
         HasSeen(o, n, s, q)
  PROVE  HasSeen(o, n, s, q)'
<1>1. HasApproval(n, s, q)
  BY DEF HasSeen, ApprovalInv
<1>2. HasApproval(n, s, q)'
  BY <1>1, ApprovalStays
<1>3. known'[o] = known[o] \/ known'[o] = approvals'
  BY ViewMoves DEF CaughtUp, TypeInv, TypeOK
<1> QED BY <1>2, <1>3 DEF HasSeen, HasApproval

\* What is ordered or submitted is its run's own.
LEMMA MovesOwn ==
  ASSUME TypeInv, OnceInv, ApprovalInv, NEW t \in ApproveTx \cup CommitTx,
         SentNow(t) \/ t \in inflight
  PROVE  /\ OfItsRun(t)
         /\ t.kind = "commit" => t.seq = Len(defs[t.name]) + 1
<1>1. CASE t \in inflight
  BY <1>1 DEF ApprovalInv, OnceInv, SeqOfInflight
<1>2. ASSUME NEW r \in Runs, pc[r] = "approving", t = ApproveTxOf(r)
      PROVE  OfItsRun(t) /\ t.kind # "commit"
  BY <1>2 DEF ApproveTxOf, OfItsRun
<1>3. ASSUME NEW r \in Runs, pc[r] = "committing", t = CommitTxOf(r), CanCommit(1, t)
      PROVE  OfItsRun(t) /\ t.seq = Len(defs[t.name]) + 1
  BY <1>3 DEF CommitTxOf, OfItsRun, CanCommit, ApprovalInv, SeenByPassed
<1> QED BY <1>1, <1>2, <1>3 DEF SentNow

\* A step of waitReady's loop adds its org to those that have seen every approval.
LEMMA WaitReadySees ==
  ASSUME TypeInv, ApprovalInv, NEW r \in Runs, WaitReady(r)
  PROVE  /\ UNCHANGED <<name, seq, known>>
         /\ SeenByPassed(r)'
<1> USE DEF Goto, LoopOrGo
<1>0. /\ pc \in [Runs -> Labels] /\ idx \in [Runs -> Nat \ {0}] /\ idx[r] \in Orgs
      /\ pc[r] = "ready" /\ UNCHANGED <<name, seq, known>> /\ NumOrgs \in Nat
  BY SizesAssumption DEF WaitReady, TypeInv, TypeOK, StepInv, ledgerVars
<1>1. CASE AttemptFails(r)
  BY <1>0, <1>1 DEF AttemptFails, Restart, ApprovalInv, SeenByPassed, HasSeen, AllSee
<1>2. CASE ~AttemptFails(r)
  <2>1. /\ \A q \in Orgs : Ready(r, idx[r], q)
        /\ LoopOrGo(r, "ready", NumOrgs, "commit")
    BY <1>2 DEF WaitReady
  <2>2. \A o, q \in Orgs : o <= idx[r] => HasSeen(o, name[r], seq[r][name[r]], q)
    <3>1. \A q \in Orgs : HasSeen(idx[r], name[r], seq[r][name[r]], q)
      BY <2>1 DEF Ready, Approved, HasSeen
    <3>2. \A o, q \in Orgs : o < idx[r] => HasSeen(o, name[r], seq[r][name[r]], q)
      BY <1>0 DEF ApprovalInv, SeenByPassed
    <3>3. \A o \in Orgs : o <= idx[r] => o < idx[r] \/ o = idx[r]
      BY <1>0 DEF Orgs
    <3> QED BY <3>1, <3>2, <3>3
  <2>3. CASE idx[r] < NumOrgs
    <3>1. pc'[r] = "ready" /\ idx'[r] = idx[r] + 1
      BY <1>0, <2>1, <2>3
    <3>2. \A o \in Orgs : o < idx'[r] => o <= idx[r]
      BY <1>0, <3>1 DEF Orgs
    <3> QED BY <1>0, <2>2, <3>1, <3>2 DEF SeenByPassed, HasSeen
  <2>4. CASE ~(idx[r] < NumOrgs)
    <3>1. pc'[r] = "commit"
      BY <1>0, <2>1, <2>4
    <3>2. \A o \in Orgs : o <= idx[r]
      BY <1>0, <2>4 DEF Orgs
    <3> QED BY <1>0, <2>2, <3>1, <3>2 DEF SeenByPassed, AllSee, HasSeen
  <2> QED BY <2>3, <2>4
<1> QED BY <1>0, <1>1, <1>2

\* No other step lets a run go past an org that has not seen them.
LEMMA PassedStay ==
  ASSUME TypeInv, ApprovalInv, [Next]_vars, NEW r \in Runs
  PROVE  SeenByPassed(r)'
<1>0. /\ pc \in [Runs -> Labels] /\ name \in [Runs -> Names] /\ idx \in [Runs -> Nat \ {0}]
      /\ seq \in [Runs -> [Names -> Nat]]
  BY DEF TypeInv, TypeOK
<1>1. ASSUME name'[r] = name[r], seq'[r] = seq[r],
             pc'[r] = "ready" => (pc[r] = "ready" /\ idx'[r] = idx[r]) \/ idx'[r] = 1,
             pc'[r] \in {"commit", "committing"} => pc[r] \in {"commit", "committing"}
      PROVE  SeenByPassed(r)'
  <2>1. SeenByPassed(r)
    BY DEF ApprovalInv
  <2>2. ASSUME NEW o \in Orgs, NEW q \in Orgs, pc'[r] = "ready", o < idx'[r]
        PROVE  HasSeen(o, name[r], seq[r][name[r]], q)'
    <3>1. idx'[r] # 1
      BY <2>2 DEF Orgs
    <3>2. HasSeen(o, name[r], seq[r][name[r]], q)
      BY <1>1, <2>1, <2>2, <3>1 DEF SeenByPassed
    <3>3. PICK n, s : n = name[r] /\ s = seq[r][name[r]]
      OBVIOUS
    <3>4. HasSeen(o, n, s, q)'
      BY <3>2, <3>3, SightStays
    <3> QED BY <1>1, <3>3, <3>4 DEF HasSeen
  <2>3. ASSUME NEW o \in Orgs, NEW q \in Orgs, pc'[r] \in {"commit", "committing"}
        PROVE  HasSeen(o, name[r], seq[r][name[r]], q)'
    <3>1. HasSeen(o, name[r], seq[r][name[r]], q)
      BY <1>1, <2>1, <2>3 DEF SeenByPassed, AllSee
    <3>2. PICK n, s : n = name[r] /\ s = seq[r][name[r]]
      OBVIOUS
    <3>3. HasSeen(o, n, s, q)'
      BY <3>1, <3>2, SightStays
    <3> QED BY <1>1, <3>2, <3>3 DEF HasSeen
  <2> QED BY <2>2, <2>3 DEF SeenByPassed, AllSee
<1>2. CASE Start(r) \/ RunStep(r) \/ Stop(r)
  <2> USE DEF Goto, LoopOrGo
  <2>0. ASSUME pc'[r] \notin {"ready", "commit", "committing"} PROVE SeenByPassed(r)'
    BY <2>0 DEF SeenByPassed
  <2>1. ASSUME AttemptFails(r), pc[r] \notin {"ready", "commit", "committing"}
        PROVE  pc'[r] \notin {"ready", "commit", "committing"}
    BY <1>0, <2>1 DEF AttemptFails, Restart
  <2>2. CASE WaitReady(r)
    BY <2>2, WaitReadySees
  <2>3. CASE CommitQuery(r) \/ CommitCall(r)
    <3>1. /\ name'[r] = name[r] /\ seq'[r] = seq[r] /\ pc[r] \in {"commit", "committing"}
          /\ pc'[r] # "ready"
      BY <1>0, <2>3 DEF CommitQuery, CommitCall, AttemptFails, Restart
    <3> QED BY <1>1, <3>1
  <2>4. CASE Start(r) \/ Stop(r)
    BY <1>0, <2>0, <2>4 DEF Start, Stop
  <2>5. CASE ReadPackage(r)
    BY <1>0, <2>0, <2>5 DEF ReadPackage
  <2>6. CASE InstallOn(r)
    BY <1>0, <2>0, <2>1, <2>6 DEF InstallOn
  <2>7. CASE NextSequence(r)
    BY <1>0, <2>0, <2>1, <2>7 DEF NextSequence
  <2>8. CASE ApproveQuery(r) \/ ApproveCall(r)
    <3>1. /\ name'[r] = name[r] /\ seq'[r] = seq[r]
          /\ pc'[r] \notin {"commit", "committing"}
          /\ pc'[r] = "ready" => idx'[r] = 1
      BY <1>0, <2>1, <2>8 DEF ApproveQuery, ApproveCall
    <3> QED BY <1>1, <3>1
  <2>9. CASE WaitCommitted(r)
    BY <1>0, <2>0, <2>1, <2>9 DEF WaitCommitted, NextChaincode
  <2> QED
    BY <1>2, <2>2, <2>3, <2>4, <2>5, <2>6, <2>7, <2>8, <2>9 DEF RunStep
<1>3. CASE ~(Start(r) \/ RunStep(r) \/ Stop(r))
  <2>1. pc'[r] = pc[r] /\ idx'[r] = idx[r] /\ name'[r] = name[r] /\ seq'[r] = seq[r]
    <3>1. CASE \E q \in Runs : Start(q) \/ RunStep(q) \/ Stop(q)
      BY <1>3, <3>1, OtherRuns
    <3>2. CASE ~(\E q \in Runs : Start(q) \/ RunStep(q) \/ Stop(q))
      BY <3>2, NoRun DEF runVars, vars
    <3> QED BY <3>1, <3>2
  <2> QED BY <1>1, <2>1
<1> QED BY <1>2, <1>3

\* The approval invariant is kept by every step.
LEMMA ApprovalNext ==
  ASSUME TypeInv, TypeInv', OnceInv, ApprovalInv, [Next]_vars
  PROVE  ApprovalInv'
<1>0. \A n, s : AllSee(n, s) => AllSee(n, s)'
  BY SightStays DEF AllSee
<1>1. \A a \in Approval : AskedFor(a) => AskedFor(a)'
  <2> SUFFICES ASSUME NEW a \in Approval, AskedFor(a) PROVE AskedFor(a)'
    OBVIOUS
  <2>1. PICK r \in Runs : seq[r][a.name] = a.seq /\ opts[r] = a.params
    BY DEF AskedFor
  <2>2. a.name \in Names /\ a.seq # 0
    BY DEF Approval
  <2>3. seq'[r][a.name] = a.seq /\ opts' = opts
    BY <2>1, <2>2, NumberStays, StaysStarted
  <2> QED BY <2>1, <2>3 DEF AskedFor
<1>2. \A t \in ApproveTx \cup CommitTx : OfItsRun(t) => OfItsRun(t)'
  <2> SUFFICES ASSUME NEW t \in ApproveTx \cup CommitTx, OfItsRun(t) PROVE OfItsRun(t)'
    OBVIOUS
  <2>1. t.by \in Runs /\ opts' = opts /\ pc'[t.by] # "idle"
    BY StaysStarted DEF ApproveTx, CommitTx, OfItsRun
  <2>2. CASE t.kind = "approve"
    <3>1. t.approval \in Approval
      BY <2>2 DEF ApproveTx, CommitTx
    <3>2. t.approval.name \in Names /\ t.approval.seq # 0
      BY <3>1 DEF Approval
    <3>3. seq'[t.by][t.approval.name] = t.approval.seq
      BY <2>1, <2>2, <3>2, NumberStays DEF OfItsRun
    <3> QED BY <2>1, <2>2, <3>3 DEF OfItsRun
  <2>3. CASE t.kind # "approve"
    BY <1>0, <2>1, <2>3 DEF OfItsRun
  <2> QED BY <2>2, <2>3
<1>3. \A a \in approvals' : AskedFor(a)'
  <2> SUFFICES ASSUME NEW a \in approvals' PROVE AskedFor(a)'
    OBVIOUS
  <2>0. a \in Approval
    BY DEF TypeInv, TypeOK
  <2>1. CASE a \in approvals
    BY <1>1, <2>0, <2>1 DEF ApprovalInv
  <2>2. CASE a \notin approvals
    <3>1. PICK t \in ApproveTx \cup CommitTx : (SentNow(t) \/ t \in inflight) /\ Order(t)
      BY <2>2, LedgerMoves DEF Moves
    <3>2. t.kind = "approve" /\ a = t.approval
      BY <2>2, <3>1 DEF Order, ApproveTx, CommitTx
    <3>3. OfItsRun(t)
      BY <3>1, MovesOwn
    <3>4. AskedFor(a)
      BY <3>2, <3>3 DEF OfItsRun, AskedFor, ApproveTx, CommitTx
    <3> QED BY <1>1, <2>0, <3>4
  <2> QED BY <2>1, <2>2
<1>4. \A o \in Orgs : \A a \in known'[o] : AskedFor(a)' /\ HasApproval(a.name, a.seq, a.org)'
  <2> SUFFICES ASSUME NEW o \in Orgs, NEW a \in known'[o]
               PROVE  AskedFor(a)' /\ HasApproval(a.name, a.seq, a.org)'
    OBVIOUS
  <2>0. a \in Approval
    BY DEF TypeInv, TypeOK
  <2>1. CASE a \in known[o]
    BY <1>1, <2>0, <2>1, ApprovalStays DEF ApprovalInv
  <2>2. CASE a \in approvals'
    BY <1>3, <2>2 DEF HasApproval
  <2>3. a \in known[o] \/ a \in approvals'
    BY ViewMoves DEF CaughtUp, TypeInv, TypeOK
  <2> QED BY <2>1, <2>2, <2>3
<1>5. \A t \in inflight' : OfItsRun(t)'
  <2> SUFFICES ASSUME NEW t \in inflight' PROVE OfItsRun(t)'
    OBVIOUS
  <2>1. t \in ApproveTx \cup CommitTx
    BY DEF TypeInv, TypeOK
  <2>2. t \in inflight \/ SentNow(t)
    BY LedgerMoves DEF Moves, Order
  <2> QED BY <1>2, <2>1, <2>2, MovesOwn
<1>6. ASSUME NEW n \in Names, NEW i \in DOMAIN defs'[n]
      PROVE  AllSee(n, i)'
  <2>0. defs[n] \in Seq(Entry) /\ defs \in [Names -> Seq(Entry)]
    BY DEF TypeInv, TypeOK
  <2>1. CASE i \in DOMAIN defs[n]
    BY <1>0, <2>1 DEF ApprovalInv
  <2>2. CASE i \notin DOMAIN defs[n]
    <3>1. PICK t \in ApproveTx \cup CommitTx : (SentNow(t) \/ t \in inflight) /\ Order(t)
      BY <2>2, LedgerMoves DEF Moves
    <3>2. t.kind = "commit"
      BY <2>2, <3>1 DEF Order
    <3> DEFINE e == [params |-> t.params, by |-> t.by]
    <3>3. e \in Entry /\ t.name \in Names
      BY <3>2 DEF ApproveTx, CommitTx, Entry
    <3>4. defs' = [defs EXCEPT ![t.name] = Append(@, e)]
      BY <3>1, <3>2 DEF Order
    <3>5. n = t.name /\ defs'[n] = Append(defs[n], e)
      BY <2>0, <2>2, <3>4
    <3>6. i = Len(defs[n]) + 1
      BY <2>0, <2>2, <3>3, <3>5
    <3>7. OfItsRun(t) /\ t.seq = Len(defs[t.name]) + 1
      BY <3>1, <3>2, MovesOwn
    <3> QED BY <1>0, <3>2, <3>5, <3>6, <3>7 DEF OfItsRun
  <2> QED BY <2>1, <2>2
<1>7. \A r \in Runs : SeenByPassed(r)'
  BY PassedStay
<1> QED BY <1>3, <1>4, <1>5, <1>6, <1>7 DEF ApprovalInv

\* Nothing is approved at the start.
LEMMA ApprovalInit == Init => ApprovalInv
<1> SUFFICES ASSUME Init PROVE ApprovalInv
  OBVIOUS
<1>1. ASSUME NEW n \in Names PROVE DOMAIN defs[n] = {}
  <2>1. defs[n] = <<>>
    BY DEF Init
  <2> QED BY <2>1
<1> QED BY <1>1 DEF Init, ApprovalInv, SeenByPassed

\* No definition is committed before every org's peer has seen every org's approval of
\* it: for any quorums, with runs that overlap, fail, and have their calls ordered late,
\* and whatever the peers have missed of the ledger (waitReady).
THEOREM EveryOrgReady == Spec => []AllOrgsReady
<1>1. TypeInv /\ ApprovalInv => AllOrgsReady
  <2> SUFFICES ASSUME TypeInv, ApprovalInv, NEW n \in Names, NEW i \in DOMAIN defs[n],
                      NEW o \in Orgs, NEW q \in Orgs
               PROVE  \E a \in known[o] :
                        /\ a.name = n /\ a.org = q /\ a.seq = i
                        /\ (\A r \in Runs : seq[r][n] = i => opts[r] = defs[n][i].params)
                             => a.params = defs[n][i].params
    BY DEF AllOrgsReady
  <2>1. PICK a \in known[o] : a.name = n /\ a.org = q /\ a.seq = i
    BY DEF ApprovalInv, AllSee, HasSeen
  <2>2. AskedFor(a)
    BY DEF ApprovalInv
  <2> QED BY <2>1, <2>2 DEF AskedFor
<1>2. TypeInv /\ TypeInv' /\ OnceInv /\ ApprovalInv /\ [Next]_vars => ApprovalInv'
  BY ApprovalNext
<1> QED BY <1>1, <1>2, ApprovalInit, OnceInit, TypeInit, TypeNext, OnceNext, PTL DEF Spec

-----------------------------------------------------------------------------
(* SuccessIsCommitted.                                                      *)

\* Org o's peer has seen run r's version of chaincode n at the run's sequence.
Seen(r, n, o) ==
  /\ seq[r][n] \in DOMAIN defs[n]
  /\ VersionOf[defs[n][seq[r][n]].params] = Version(r)
  /\ height[o][n] >= seq[r][n]

\* All orgs have seen the chaincodes before the run's, and the orgs before idx this one.
SeenSoFar(r) ==
  /\ \A n \in Names : n < name[r] \/ pc[r] = "ok" => \A o \in Orgs : Seen(r, n, o)
  /\ pc[r] = "committed" => \A o \in Orgs : o < idx[r] => Seen(r, name[r], o)

SuccessInv ==
  /\ \A o \in Orgs, n \in Names : height[o][n] <= Len(defs[n])
  /\ \A r \in Runs : SeenSoFar(r)

\* A peer is never ahead of the ledger and never falls back.
LEMMA HeightGrows ==
  ASSUME TypeInv, TypeInv', SuccessInv, [Next]_vars, NEW o \in Orgs, NEW n \in Names
  PROVE  height[o][n] <= height'[o][n] /\ height'[o][n] <= Len(defs'[n])
<1>0. /\ height \in [Orgs -> [Names -> Nat]] /\ height[o][n] \in Nat
      /\ defs[n] \in Seq(Entry) /\ defs'[n] \in Seq(Entry)
      /\ Len(defs[n]) \in Nat /\ Len(defs'[n]) \in Nat
  BY DEF TypeInv, TypeOK
<1>1. height[o][n] <= Len(defs[n]) /\ Len(defs[n]) <= Len(defs'[n])
  BY DefsGrow DEF SuccessInv
<1>2. height'[o][n] = height[o][n] \/ height'[o][n] = Len(defs'[n])
  BY <1>0, ViewMoves, SMTT(30) DEF CaughtUp
<1> QED BY <1>0, <1>1, <1>2

\* What a peer has seen it does not lose, as long as the run keeps its sequence.
LEMMA SeenStays ==
  ASSUME TypeInv, TypeInv', SuccessInv, [Next]_vars,
         NEW r \in Runs, NEW n \in Names, NEW o \in Orgs, Seen(r, n, o),
         seq'[r][n] = seq[r][n]
  PROVE  Seen(r, n, o)'
<1>0. /\ defs[n] \in Seq(Entry) /\ defs'[n] \in Seq(Entry) /\ seq[r][n] \in Nat
      /\ height[o][n] \in Nat /\ height'[o][n] \in Nat /\ opts' = opts
  <2>1. defs[n] \in Seq(Entry) /\ seq[r][n] \in Nat /\ height[o][n] \in Nat
    BY DEF TypeInv, TypeOK
  <2>2. defs'[n] \in Seq(Entry) /\ height'[o][n] \in Nat
    BY DEF TypeInv, TypeOK
  <2>3. opts' = opts
    BY StaysStarted
  <2> QED BY <2>1, <2>2, <2>3
<1>1. seq[r][n] \in 1..Len(defs[n]) /\ Len(defs[n]) \in Nat /\ Len(defs'[n]) \in Nat
  BY <1>0 DEF Seen
<1>2. seq[r][n] \in DOMAIN defs'[n] /\ defs'[n][seq[r][n]] = defs[n][seq[r][n]]
  BY <1>0, <1>1, DefsGrow
<1>3. height'[o][n] >= seq[r][n]
  BY <1>0, <1>1, HeightGrows DEF Seen
<1>4. Version(r)' = Version(r)
  BY <1>0 DEF Version
<1> QED BY <1>2, <1>3, <1>4 DEF Seen

\* A run's step extends what the peers have seen; only waitCommitted ends in success.
LEMMA SuccessRun ==
  ASSUME TypeInv, TypeInv', SuccessInv, [Next]_vars,
         NEW r \in Runs, Start(r) \/ RunStep(r) \/ Stop(r)
  PROVE  SeenSoFar(r)'
<1>0. /\ pc \in [Runs -> Labels] /\ name \in [Runs -> Names] /\ Names \subseteq Nat
      /\ idx \in [Runs -> Nat \ {0}] /\ seq \in [Runs -> [Names -> Nat]] /\ Orgs \subseteq Nat
      /\ name[r] \in Names /\ SeenSoFar(r)
  <2>1. /\ pc \in [Runs -> Labels] /\ name \in [Runs -> Names]
        /\ idx \in [Runs -> Nat \ {0}] /\ seq \in [Runs -> [Names -> Nat]]
    BY DEF TypeInv, TypeOK
  <2>2. Names \subseteq Nat /\ Orgs \subseteq Nat
    BY DEF Names, Orgs
  <2>3. SeenSoFar(r)
    BY DEF SuccessInv
  <2> QED BY <2>1, <2>2, <2>3
<1>1. \A n \in Names, o \in Orgs : Seen(r, n, o) /\ seq'[r][n] = seq[r][n] => Seen(r, n, o)'
  BY SeenStays
<1>2. ASSUME pc'[r] # "ok", pc'[r] = "committed" => idx'[r] = 1, name'[r] = name[r],
             \A n \in Names : n < name[r] => seq'[r][n] = seq[r][n]
      PROVE  SeenSoFar(r)'
  <2>1. \A o \in Orgs : ~(o < 1)
    BY DEF Orgs
  <2>2. \A n \in Names : n < name'[r] => \A o \in Orgs : Seen(r, n, o)'
    BY <1>0, <1>1, <1>2 DEF SeenSoFar
  <2>3. pc'[r] = "committed" => \A o \in Orgs : ~(o < idx'[r])
    BY <1>2, <2>1
  <2> QED BY <1>2, <2>2, <2>3 DEF SeenSoFar
<1> USE DEF Goto, LoopOrGo
<1>3. ASSUME AttemptFails(r)
      PROVE  pc'[r] \in {"failed", Restart(pc[r])} /\ idx' = idx
  BY <1>0, <1>3 DEF AttemptFails
<1>4. CASE Start(r) \/ Stop(r)
  BY <1>0, <1>2, <1>4 DEF Start, Stop
<1>5. CASE ReadPackage(r)
  BY <1>0, <1>2, <1>5 DEF ReadPackage
<1>6. CASE InstallOn(r)
  BY <1>0, <1>2, <1>3, <1>6 DEF InstallOn, Restart
<1>7. CASE NextSequence(r)
  <2>1. \A n \in Names : n < name[r] => seq'[r][n] = seq[r][n]
    <3>1. CASE seq' = [seq EXCEPT ![r][name[r]] = height[1][name[r]] + 1]
      <4>1. PICK m \in Names : m = name[r]
        BY <1>0
      <4>2. \A n \in Names : n < m => n # m
        BY <1>0
      <4>3. \A n \in Names : n # m => seq'[r][n] = seq[r][n]
        BY <1>0, <3>1, <4>1
      <4> QED BY <4>1, <4>2, <4>3
    <3> QED BY <1>7, <3>1 DEF NextSequence
  <2> QED BY <1>0, <1>2, <1>3, <1>7, <2>1 DEF NextSequence, Restart
<1>8. CASE ApproveQuery(r)
  BY <1>0, <1>2, <1>8 DEF ApproveQuery
<1>9. CASE ApproveCall(r)
  BY <1>0, <1>2, <1>3, <1>9 DEF ApproveCall, Restart
<1>10. CASE WaitReady(r)
  BY <1>0, <1>2, <1>3, <1>10 DEF WaitReady, Restart
<1>11. CASE CommitQuery(r)
  BY <1>0, <1>2, <1>11 DEF CommitQuery
<1>12. CASE CommitCall(r)
  BY <1>0, <1>2, <1>3, <1>12 DEF CommitCall, Restart
<1>13. CASE WaitCommitted(r)
  <2>0. /\ pc[r] = "committed" /\ idx[r] \in Orgs /\ seq' = seq
    BY <1>13 DEF WaitCommitted, TypeInv, StepInv
  <2>1. PICK m \in Names : m = name[r]
    BY <1>0
  <2>2. \A n \in Names : n < m => \A o \in Orgs : Seen(r, n, o)'
    BY <1>0, <1>1, <2>0, <2>1 DEF SeenSoFar
  <2>3. \A o \in Orgs : o < idx[r] => Seen(r, m, o)'
    BY <1>0, <1>1, <2>0, <2>1 DEF SeenSoFar
  <2>4. CASE AttemptFails(r) /\ UNCHANGED name
    <3>1. /\ pc'[r] \in {"failed", "committed"} /\ idx'[r] = idx[r] /\ name'[r] = m
      BY <1>3, <2>0, <2>1, <2>4 DEF Restart
    <3> QED BY <2>2, <2>3, <3>1 DEF SeenSoFar
  <2>5. CASE /\ SeesCommit(r, idx[r])
             /\ IF idx[r] < NumOrgs
                THEN Goto(r, "committed", idx[r] + 1) /\ UNCHANGED name
                ELSE NextChaincode(r)
    <3>1. Seen(r, m, idx[r])
      <4>1. /\ height[idx[r]][m] \in Nat /\ height[idx[r]][m] > 0
            /\ height[idx[r]][m] = seq[r][m] /\ defs[m] \in Seq(Entry)
            /\ VersionOf[defs[m][seq[r][m]].params] = Version(r)
        BY <2>0, <2>1, <2>5 DEF SeesCommit, TypeInv, TypeOK
      <4>2. height[idx[r]][m] <= Len(defs[m])
        BY <2>0 DEF SuccessInv
      <4> QED BY <4>1, <4>2 DEF Seen
    <3>2. \A o \in Orgs : o <= idx[r] => Seen(r, m, o)'
      <4> SUFFICES ASSUME NEW o \in Orgs, o <= idx[r] PROVE Seen(r, m, o)'
        OBVIOUS
      <4>1. o < idx[r] \/ o = idx[r]
        BY <1>0, <2>0
      <4> QED BY <1>1, <2>0, <2>3, <3>1, <4>1
    <3>3. CASE /\ idx[r] < NumOrgs /\ Goto(r, "committed", idx[r] + 1) /\ UNCHANGED name
      <4>1. pc'[r] = "committed" /\ idx'[r] = idx[r] + 1 /\ name'[r] = m
        BY <1>0, <2>1, <3>3
      <4>2. \A o \in Orgs : o < idx[r] + 1 => o <= idx[r]
        BY <1>0
      <4> QED BY <2>2, <3>2, <4>1, <4>2 DEF SeenSoFar
    <3>4. CASE ~(idx[r] < NumOrgs) /\ NextChaincode(r)
      <4>1. \A o \in Orgs : o <= idx[r]
        BY <1>0, <3>4, SizesAssumption DEF Orgs
      <4>2. \A n \in Names : n <= m => \A o \in Orgs : Seen(r, n, o)'
        <5>1. \A n \in Names : n <= m => n < m \/ n = m
          BY <1>0
        <5> QED BY <2>2, <3>2, <4>1, <5>1
      <4>3. CASE name[r] < NumNames
        <5>1. pc'[r] = "read" /\ name'[r] = m + 1
          BY <1>0, <2>1, <3>4, <4>3 DEF NextChaincode
        <5>2. \A n \in Names : n < m + 1 => n <= m
          BY <1>0
        <5> QED BY <4>2, <5>1, <5>2 DEF SeenSoFar
      <4>4. CASE ~(name[r] < NumNames)
        <5>1. pc'[r] = "ok"
          BY <1>0, <3>4, <4>4 DEF NextChaincode
        <5>2. \A n \in Names : n <= m
          BY <2>1, <4>4, SizesAssumption DEF Names
        <5> QED BY <4>2, <5>1, <5>2 DEF SeenSoFar
      <4> QED BY <4>3, <4>4
    <3> QED BY <2>5, <3>3, <3>4
  <2> QED BY <1>13, <2>4, <2>5 DEF WaitCommitted
<1> QED
  BY <1>4, <1>5, <1>6, <1>7, <1>8, <1>9, <1>10, <1>11, <1>12, <1>13 DEF RunStep

\* The success invariant is kept by every step.
LEMMA SuccessNext ==
  ASSUME TypeInv, TypeInv', SuccessInv, [Next]_vars
  PROVE  SuccessInv'
<1>1. \A o \in Orgs, n \in Names : height'[o][n] <= Len(defs'[n])
  BY HeightGrows
<1>2. ASSUME NEW q \in Runs PROVE SeenSoFar(q)'
  <2>1. CASE Start(q) \/ RunStep(q) \/ Stop(q)
    BY <2>1, SuccessRun
  <2>2. CASE ~(Start(q) \/ RunStep(q) \/ Stop(q))
    <3>1. pc'[q] = pc[q] /\ idx'[q] = idx[q] /\ name'[q] = name[q] /\ seq'[q] = seq[q]
      <4>1. CASE \E r \in Runs : Start(r) \/ RunStep(r) \/ Stop(r)
        BY <2>2, <4>1, OtherRuns
      <4>2. CASE ~(\E r \in Runs : Start(r) \/ RunStep(r) \/ Stop(r))
        BY <4>2, NoRun DEF runVars, vars
      <4> QED BY <4>1, <4>2
    <3>2. PICK m \in Names : m = name[q]
      BY DEF TypeInv, TypeOK
    <3>3. \A n \in Names, o \in Orgs : Seen(q, n, o) => Seen(q, n, o)'
      BY <3>1, SeenStays
    <3>4. \A n \in Names : n < m \/ pc[q] = "ok" => \A o \in Orgs : Seen(q, n, o)'
      BY <3>2, <3>3 DEF SuccessInv, SeenSoFar
    <3>5. pc[q] = "committed" => \A o \in Orgs : o < idx[q] => Seen(q, m, o)'
      BY <3>2, <3>3 DEF SuccessInv, SeenSoFar
    <3> QED BY <3>1, <3>2, <3>4, <3>5 DEF SeenSoFar
  <2> QED BY <2>1, <2>2
<1> QED BY <1>1, <1>2 DEF SuccessInv

\* Nothing is seen at the start.
LEMMA SuccessInit == Init => SuccessInv
<1> SUFFICES ASSUME Init PROVE SuccessInv
  OBVIOUS
<1>1. ASSUME NEW o \in Orgs, NEW n \in Names PROVE height[o][n] <= Len(defs[n])
  <2>1. height[o][n] = 0 /\ defs[n] = <<>>
    BY DEF Init
  <2> QED BY <2>1
<1>2. ASSUME NEW r \in Runs PROVE SeenSoFar(r)
  <2>1. \A n \in Names : ~(n < 1)
    BY DEF Names
  <2> QED BY <2>1 DEF Init, SeenSoFar
<1> QED BY <1>1, <1>2 DEF SuccessInv

\* An install that reports success left its version of every chaincode committed at the
\* sequence it took, and every org's peer has it: whatever failed, was retried, overlapped
\* or was ordered late (waitCommitted, the loop over o.Names).
THEOREM SuccessCommits == Spec => []SuccessIsCommitted
<1>1. SuccessInv => SuccessIsCommitted
  <2>1. 1 \in Orgs
    BY SizesAssumption DEF Orgs
  <2> QED BY <2>1 DEF SuccessInv, SeenSoFar, Seen, SuccessIsCommitted
<1>2. TypeInv /\ TypeInv' /\ SuccessInv /\ [Next]_vars => SuccessInv'
  BY SuccessNext
<1> QED BY <1>1, <1>2, SuccessInit, TypeInit, TypeNext, PTL DEF Spec

-----------------------------------------------------------------------------
(* Lifecycle implements Definitions: each step of `fabric install`, and     *)
(* each late transaction, is a step of the abstract specification or leaves  *)
(* it alone.                                                                *)

AllInv == TypeInv /\ OnceInv /\ ApprovalInv /\ SuccessInv

\* A run that takes a step starts, goes on, fails, or succeeds after waitCommitted; it
\* adds a definition only when it goes on.
LEMMA StatusMoves ==
  ASSUME TypeInv, NEW r \in Runs, Start(r) \/ RunStep(r) \/ Stop(r)
  PROVE  \/ pc[r] = "idle" /\ pc'[r] = "read" /\ UNCHANGED defs
         \/ pc[r] \in Steps /\ pc'[r] \in Steps
         \/ pc[r] \in Steps /\ pc'[r] = "failed" /\ UNCHANGED defs
         \/ pc[r] \in Steps /\ pc'[r] = "ok" /\ UNCHANGED defs
<1>0. pc \in [Runs -> Labels]
  BY DEF TypeInv, TypeOK
<1> USE DEF Goto, LoopOrGo, ledgerVars, Steps
<1>1. ASSUME AttemptFails(r), pc[r] \in Steps
      PROVE  pc'[r] \in Steps \cup {"failed"}
  BY <1>0, <1>1 DEF AttemptFails, Restart
<1>2. CASE Start(r) \/ Stop(r)
  BY <1>0, <1>2 DEF Start, Stop, Active
<1>3. CASE ReadPackage(r)
  BY <1>0, <1>3 DEF ReadPackage
<1>4. CASE InstallOn(r)
  BY <1>0, <1>1, <1>4 DEF InstallOn
<1>5. CASE NextSequence(r)
  BY <1>0, <1>1, <1>5 DEF NextSequence
<1>6. CASE ApproveQuery(r)
  BY <1>0, <1>6 DEF ApproveQuery
<1>7. CASE ApproveCall(r)
  BY <1>0, <1>1, <1>7 DEF ApproveCall
<1>8. CASE WaitReady(r)
  BY <1>0, <1>1, <1>8 DEF WaitReady
<1>9. CASE CommitQuery(r)
  BY <1>0, <1>9 DEF CommitQuery
<1>10. CASE CommitCall(r)
  BY <1>0, <1>1, <1>10 DEF CommitCall
<1>11. CASE WaitCommitted(r)
  BY <1>0, <1>1, <1>11 DEF WaitCommitted, NextChaincode
<1> QED
  BY <1>2, <1>3, <1>4, <1>5, <1>6, <1>7, <1>8, <1>9, <1>10, <1>11 DEF RunStep

\* What the peers have seen is defined.
LEMMA SeenDefined ==
  ASSUME NEW r \in Runs, NEW n \in Names, \A o \in Orgs : Seen(r, n, o)
  PROVE  Contract!Defined(n, VersionOf[opts[r]])
<1>1. 1 \in Orgs
  BY SizesAssumption DEF Orgs
<1> QED BY <1>1 DEF Seen, Contract!Defined, Version

\* A commit that is ordered belongs to a run that is under way or failed, that had none
\* of this chaincode, and whose version of every earlier chaincode is defined.
LEMMA OrderDefines ==
  ASSUME AllInv, NEW t \in CommitTx, SentNow(t) \/ t \in inflight, Order(t)
  PROVE  /\ t.by \in Runs /\ t.name \in Names /\ pc[t.by] \in Steps \cup {"failed"}
         /\ \A i \in DOMAIN defs[t.name] : defs[t.name][i].by # t.by
         /\ \A m \in Names : m < t.name => Contract!Defined(m, VersionOf[opts[t.by]])
         /\ defs' = [defs EXCEPT ![t.name] = Append(@, [params |-> opts[t.by], by |-> t.by])]
<1> DEFINE r == t.by
           n == t.name
<1>1. r \in Runs /\ n \in Names /\ t.seq \in Nat \ {0} /\ t.kind = "commit"
  BY DEF CommitTx
<1>2. OfItsRun(t) /\ t.seq = Len(defs[n]) + 1
  BY <1>1, MovesOwn DEF AllInv
<1>3. t.seq = seq[r][n]
  BY <1>1 DEF AllInv, OnceInv, SeqOfInflight, SentNow, ApproveTxOf, CommitTxOf
<1>4. defs[n] \in Seq(Entry) /\ Len(defs[n]) \in Nat /\ pc \in [Runs -> Labels]
      /\ name[r] \in Names /\ Names \subseteq Nat
  BY <1>1 DEF AllInv, TypeInv, TypeOK, Names
<1>5. ASSUME NEW i \in DOMAIN defs[n] PROVE defs[n][i].by # r
  <2>1. i \in 1..Len(defs[n])
    BY <1>4
  <2>2. seq[defs[n][i].by][n] = i
    BY <1>1 DEF AllInv, OnceInv, SeqOfEntry
  <2> QED BY <1>2, <1>3, <1>4, <2>1, <2>2
<1>6. \A o \in Orgs : ~Seen(r, n, o)
  BY <1>2, <1>3, <1>4 DEF Seen
<1>7. pc[r] \in Steps \cup {"failed"}
  <2>1. pc[r] # "ok"
    <3>1. 1 \in Orgs
      BY SizesAssumption DEF Orgs
    <3> QED BY <1>1, <1>6, <3>1 DEF AllInv, SuccessInv, SeenSoFar
  <2>2. pc[r] # "idle"
    BY <1>2 DEF OfItsRun
  <2> QED BY <1>1, <1>4, <2>1, <2>2 DEF Labels
<1>8. n <= name[r]
  <2>1. n > name[r] => seq[r][n] = 0
    BY <1>1 DEF AllInv, OnceInv, Unnumbered
  <2>2. n \in Nat /\ name[r] \in Nat
    BY <1>1, <1>4
  <2> QED BY <1>1, <1>3, <2>1, <2>2
<1>9. ASSUME NEW m \in Names, m < n PROVE Contract!Defined(m, VersionOf[opts[r]])
  <2>1. m < name[r]
    BY <1>1, <1>4, <1>8, <1>9
  <2>2. \A o \in Orgs : Seen(r, m, o)
    BY <1>1, <2>1 DEF AllInv, SuccessInv, SeenSoFar
  <2> QED BY <1>1, <2>2, SeenDefined
<1>10. defs' = [defs EXCEPT ![n] = Append(@, [params |-> opts[r], by |-> r])]
  BY <1>1, <1>2 DEF Order, OfItsRun
<1> QED BY <1>1, <1>5, <1>7, <1>9, <1>10

\* A step that adds a definition is Define.
LEMMA DefineStep ==
  ASSUME AllInv, AllInv', [Next]_vars, defs' # defs
  PROVE  Contract!ContractNext
<1>1. PICK t \in ApproveTx \cup CommitTx : (SentNow(t) \/ t \in inflight) /\ Order(t)
  BY LedgerMoves DEF AllInv, Moves
<1>2. t \in CommitTx
  BY <1>1 DEF Order, ApproveTx
<1>3. /\ t.by \in Runs /\ t.name \in Names /\ pc[t.by] \in Steps \cup {"failed"}
      /\ \A i \in DOMAIN defs[t.name] : defs[t.name][i].by # t.by
      /\ \A m \in Names : m < t.name => Contract!Defined(m, VersionOf[opts[t.by]])
      /\ defs' = [defs EXCEPT ![t.name] = Append(@, [params |-> opts[t.by], by |-> t.by])]
  BY <1>1, <1>2, OrderDefines
<1>4. opts' = opts
  BY StaysStarted DEF AllInv
<1>5. \A q \in Runs : Status(q)' = Status(q)
  <2>1. CASE \E r \in Runs : Start(r) \/ RunStep(r) \/ Stop(r)
    <3>1. PICK r \in Runs : Start(r) \/ RunStep(r) \/ Stop(r)
      BY <2>1
    <3>2. pc[r] \in Steps /\ pc'[r] \in Steps
      BY <3>1, StatusMoves DEF AllInv
    <3>3. \A q \in Runs : q # r => pc'[q] = pc[q]
      BY <3>1, OtherRuns DEF AllInv
    <3> QED BY <3>2, <3>3 DEF Status, Active
  <2>2. CASE ~(\E r \in Runs : Start(r) \/ RunStep(r) \/ Stop(r))
    BY <2>2, NoRun DEF runVars, vars, Status, Active
  <2> QED BY <2>1, <2>2
<1>6. [r \in Runs |-> Status(r)]' = [r \in Runs |-> Status(r)]
  BY <1>5
<1>7. [r \in Runs |-> Status(r)][t.by] \in {"running", "failed"}
  BY <1>3 DEF Status, Active, Steps
<1>8. Contract!Define(t.by, t.name)
  BY <1>3, <1>4, <1>6, <1>7 DEF Contract!Define, Names
<1> QED BY <1>3, <1>8 DEF Contract!ContractNext, Names

\* A step that adds none moves one run, or nothing that the contract speaks of.
LEMMA StatusStep ==
  ASSUME AllInv, AllInv', [Next]_vars, defs' = defs
  PROVE  [Contract!ContractNext]_(Contract!contract)
<1> DEFINE st == [r \in Runs |-> Status(r)]
<1>1. opts' = opts
  BY StaysStarted DEF AllInv
<1>2. CASE \E r \in Runs : Start(r) \/ RunStep(r) \/ Stop(r)
  <2>1. PICK r \in Runs : Start(r) \/ RunStep(r) \/ Stop(r)
    BY <1>2
  <2>2. \A q \in Runs : q # r => Status(q)' = Status(q)
    BY <2>1, OtherRuns DEF AllInv, Status, Active
  <2>3. st' = [st EXCEPT ![r] = Status(r)']
    BY <2>2
  <2>4. CASE Status(r)' = Status(r)
    <3>1. st' = st
      BY <2>2, <2>4
    <3> QED BY <1>1, <3>1 DEF Contract!contract
  <2>5. CASE pc[r] = "idle" /\ pc'[r] = "read"
    <3>1. st[r] = "idle" /\ Status(r)' = "running"
      BY <2>5 DEF Status, Active, Steps
    <3>2. Contract!Begin(r)
      BY <1>1, <2>3, <3>1 DEF Contract!Begin, Contract!Moves
    <3> QED BY <3>2 DEF Contract!ContractNext
  <2>6. CASE pc[r] \in Steps /\ pc'[r] = "failed"
    <3>1. st[r] = "running" /\ Status(r)' = "failed"
      BY <2>6 DEF Status, Active, Steps
    <3>2. Contract!Fail(r)
      BY <1>1, <2>3, <3>1 DEF Contract!Fail, Contract!Moves
    <3> QED BY <3>2 DEF Contract!ContractNext
  <2>7. CASE pc[r] \in Steps /\ pc'[r] = "ok"
    <3>1. st[r] = "running" /\ Status(r)' = "ok"
      BY <2>7 DEF Status, Active, Steps
    <3>2. ASSUME NEW n \in Names PROVE Contract!Defined(n, VersionOf[opts[r]])
      <4>1. \A o \in Orgs : Seen(r, n, o)'
        BY <2>7 DEF AllInv, SuccessInv, SeenSoFar
      <4>2. 1 \in Orgs
        BY SizesAssumption DEF Orgs
      <4>3. PICK i \in DOMAIN defs'[n] : VersionOf[defs'[n][i].params] = VersionOf[opts'[r]]
        BY <4>1, <4>2 DEF Seen, Version
      <4> QED BY <1>1, <4>3 DEF Contract!Defined
    <3>3. Contract!Succeed(r)
      BY <1>1, <2>3, <3>1, <3>2 DEF Contract!Succeed, Contract!Moves, Names
    <3> QED BY <3>3 DEF Contract!ContractNext
  <2>8. CASE pc[r] \in Steps /\ pc'[r] \in Steps
    BY <2>4, <2>8 DEF Status, Active
  <2> QED BY <2>1, <2>5, <2>6, <2>7, <2>8, StatusMoves DEF AllInv
<1>3. CASE ~(\E r \in Runs : Start(r) \/ RunStep(r) \/ Stop(r))
  <2>1. \A q \in Runs : Status(q)' = Status(q)
    BY <1>3, NoRun DEF runVars, vars, Status, Active
  <2>2. st' = st
    BY <2>1
  <2> QED BY <1>1, <2>2 DEF Contract!contract
<1> QED BY <1>2, <1>3

\* The initial states map to the initial states of the contract.
LEMMA ContractStart == Init => Contract!ContractInit
<1> SUFFICES ASSUME Init PROVE Contract!ContractInit
  OBVIOUS
<1>1. [r \in Runs |-> Status(r)] = [r \in Runs |-> "idle"]
  BY DEF Init, Status, Active, Steps
<1> QED BY <1>1 DEF Init, Contract!ContractInit, Names

\* `fabric install` makes the definitions that Definitions promises, whatever fails, is
\* retried, runs side by side or is ordered late: the history is only appended to, by each
\* run at most once per chaincode and in the order of its names, and a run succeeds only
\* when its versions are defined (Install).
THEOREM ImplementsDefinitions == Spec => KeepsContract
<1>1. Init => AllInv
  BY TypeInit, OnceInit, ApprovalInit, SuccessInit DEF AllInv
<1>2. AllInv /\ [Next]_vars => AllInv'
  BY TypeNext, OnceNext, ApprovalNext, SuccessNext DEF AllInv
<1>3. AllInv /\ AllInv' /\ [Next]_vars => [Contract!ContractNext]_(Contract!contract)
  BY DefineStep, StatusStep
<1> QED BY <1>1, <1>2, <1>3, ContractStart, PTL DEF Spec, KeepsContract, Contract!ContractSpec
=============================================================================
