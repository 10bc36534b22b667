------------------------------ MODULE Topology ------------------------------
(***************************************************************************)
(* What `generate` computes from its options (internal/topology): the ports *)
(* on the host, the endorsement policy, and the private data collections.   *)
(***************************************************************************)
EXTENDS Integers, FiniteSets

\* The options that shape a network: `vanity` is the number of names that follow
\* nchoose2common, and -1 stands for a computed value.
Structures == {"shared", "nchoose2", "nchoose2common"}
Shape == [orgs : Nat, peers : Nat, orderers : Nat, structure : Structures, vanity : Nat,
          req : Nat \cup {-1}, max : Nat \cup {-1}]

\* The shapes for which New returns no error.
Accepted(t) ==
  /\ t.orgs >= 1 /\ t.peers >= 1 /\ t.orderers >= 1
  /\ t.structure = "nchoose2common" => t.vanity = t.orgs

Orgs(t) == 1..t.orgs
Peers(t) == Orgs(t) \X (0..(t.peers - 1))
Total(t) == t.orgs * t.peers

-----------------------------------------------------------------------------
(* Ports on the host, all of one machine.                                   *)

\* 7050, 8050, ... for the orderers, and 7054, 8054, ... for the orgs' CAs.
HostPort(i) == 7050 + 1000 * i
CAPort(i) == 1000 * i + 6054

PrefixPerOrg(t, i, j) == 70 + 10 * ((i - 1) + j)   \* faulty: orgs share prefixes

\* Each peer takes the next prefix, in org then peer order; it publishes <prefix>51
\* and <prefix>53.
Prefix(t, i, j) == 70 + 10 * ((i - 1) * t.peers + j)

PeerPort(t, p, last) == 100 * Prefix(t, p[1], p[2]) + last

\* The services of generatecc: 9080, 9081, ...
ServicePort(i) == 9080 + i

\* Who publishes a port, and which.
Published(t, services) ==
  {<<"orderer", i, HostPort(i)>> : i \in 0..(t.orderers - 1)}
    \cup {<<"ca", i, CAPort(i)>> : i \in Orgs(t)}
    \cup {<<"events", p, PeerPort(t, p, 53)>> : p \in Peers(t)}
    \cup {<<"peer", p, PeerPort(t, p, 51)>> : p \in Peers(t)}
    \cup {<<"service", i, ServicePort(i)>> : i \in 0..(services - 1)}

Distinct(t, services) ==
  \A p, q \in Published(t, services) : p[3] = q[3] => p = q

-----------------------------------------------------------------------------
(* Policies.  All the structures give one shape of policy: some orgs endorse *)
(* alone, or k of others do.                                                *)

Policy(alone, k, of) == [alone |-> alone, k |-> k, of |-> of]

EndorsementPolicy(t) ==
  CASE t.structure = "shared"         -> Policy(Orgs(t), 1, {})
    [] t.structure = "nchoose2"       -> Policy({}, 2, Orgs(t))
    [] t.structure = "nchoose2common" -> Policy({1}, 2, 2..t.orgs)

\* A policy by which nobody endorses alone has an OutOf gate; outof() refuses one
\* without members, and secondPass a k that exceeds their number by more than one.
Parses(p) == p.of = {} => p.k = 1
InstallAccepts(t) == Parses(EndorsementPolicy(t))

SatisfiedBy(p, orgs) ==
  \/ orgs \cap p.alone # {}
  \/ p.of # {} /\ Cardinality(orgs \cap p.of) >= p.k

\* The member orgs of each collection.
Collections(t) ==
  CASE t.structure = "shared"   -> {Orgs(t)}
    [] t.structure = "nchoose2" -> {{i, j} : i \in Orgs(t), j \in Orgs(t)} \ {{i} : i \in Orgs(t)}
    [] t.structure = "nchoose2common" ->
         {{1, i, j} : i \in 2..t.orgs, j \in 2..t.orgs} \ {{1, i} : i \in 2..t.orgs}

\* To how many peers an endorser must, and at most does, send private data.
RequiredPeerCount(t) == IF t.req = -1 THEN Total(t) \div 2 ELSE t.req
MaxPeerCount(t) == IF t.max = -1 THEN Total(t) - 1 ELSE t.max
=============================================================================
