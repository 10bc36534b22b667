----------------------------- MODULE Definitions -----------------------------
(***************************************************************************)
(* What `fabric install` promises about the definitions of a channel,      *)
(* without peers, approvals, retries or lost replies: a history of         *)
(* definitions per chaincode that is only appended to.  A run adds at most *)
(* one definition of each chaincode, a later chaincode only after its      *)
(* version of every earlier one is defined, and succeeds only when its     *)
(* version of every chaincode is defined.  A run that failed may still see *)
(* the definition it had submitted appear.                                 *)
(***************************************************************************)
EXTENDS Naturals, Sequences

CONSTANTS Runs, NumNames, Params, VersionOf

VARIABLES
  history,  \* per chaincode: its definitions, [params, by], in sequence order
  status,   \* per run: "idle", "running", "ok" or "failed"
  opts      \* per run: the parameters it was started with

contract == <<history, status, opts>>

Defined(n, v) ==
  \E i \in DOMAIN history[n] : VersionOf[history[n][i].params] = v

ContractInit ==
  /\ history = [n \in 1..NumNames |-> <<>>]
  /\ status = [r \in Runs |-> "idle"]
  /\ opts \in [Runs -> Params]

Moves(r, from, to) ==
  /\ status[r] = from
  /\ status' = [status EXCEPT ![r] = to]
  /\ UNCHANGED <<history, opts>>

Begin(r) == Moves(r, "idle", "running")

Define(r, n) ==
  /\ status[r] \in {"running", "failed"}
  /\ \A i \in DOMAIN history[n] : history[n][i].by # r
  /\ \A m \in 1..NumNames : m < n => Defined(m, VersionOf[opts[r]])
  /\ history' = [history EXCEPT ![n] = Append(@, [params |-> opts[r], by |-> r])]
  /\ UNCHANGED <<status, opts>>

Succeed(r) ==
  /\ \A n \in 1..NumNames : Defined(n, VersionOf[opts[r]])
  /\ Moves(r, "running", "ok")

Fail(r) == Moves(r, "running", "failed")

ContractNext ==
  \E r \in Runs :
    \/ Begin(r) \/ Succeed(r) \/ Fail(r)
    \/ \E n \in 1..NumNames : Define(r, n)

ContractSpec == ContractInit /\ [][ContractNext]_contract
=============================================================================
