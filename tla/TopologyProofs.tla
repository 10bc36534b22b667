--------------------------- MODULE TopologyProofs ---------------------------
(***************************************************************************)
(* Theorems about what `generate` computes, for every number of orgs, peers *)
(* and orderers.                                                            *)
(***************************************************************************)
EXTENDS Topology, FiniteSetTheorems, TLAPS

-----------------------------------------------------------------------------
(* Ports.                                                                   *)

\* The place of peer p in org then peer order.
Place(t, p) == (p[1] - 1) * t.peers + p[2]

LEMMA PlaceType ==
  ASSUME NEW t \in Shape, NEW p \in Peers(t)
  PROVE  Place(t, p) \in Nat
<1>1. /\ p[1] \in Nat /\ p[1] - 1 \in Nat /\ p[2] \in Nat /\ t.peers \in Nat
  BY DEF Peers, Orgs, Shape
<1>2. (p[1] - 1) * t.peers \in Nat
  BY <1>1
<1> QED
  BY <1>1, <1>2 DEF Place

\* A product by a natural number grows by that number at least.
LEMMA ProductGrows ==
  ASSUME NEW a \in Nat, NEW b \in Nat, NEW n \in Nat, a < b
  PROVE  a * n + n <= b * n
<1>1. b - a \in Nat /\ b - a >= 1
  OBVIOUS
<1>2. PICK d \in Nat : b = a + 1 + d
  BY <1>1
<1>3. b * n = a * n + n + d * n
  BY <1>2
<1>4. a * n \in Nat /\ d * n \in Nat
  OBVIOUS
<1> QED
  BY <1>3, <1>4

\* Peers of different orgs have different places, those of the earlier org first,
LEMMA PlaceOrder ==
  ASSUME NEW t \in Shape, NEW p \in Peers(t), NEW q \in Peers(t), p[1] < q[1]
  PROVE  Place(t, p) < Place(t, q)
<1> DEFINE P == t.peers
<1> DEFINE a == p[1] - 1
<1> DEFINE b == q[1] - 1
<1>1. /\ P \in Nat /\ a \in Nat /\ b \in Nat /\ a < b
      /\ p[2] \in Nat /\ q[2] \in Nat /\ p[2] < P
  BY DEF Peers, Orgs, Shape
<1>2. a * P + P <= b * P
  BY <1>1, ProductGrows
<1>3. a * P \in Nat /\ b * P \in Nat
  BY <1>1
<1>4. Place(t, p) = a * P + p[2] /\ Place(t, q) = b * P + q[2]
  BY DEF Place
<1> HIDE DEF P, a, b
<1> QED
  BY <1>1, <1>2, <1>3, <1>4

\* and so no two peers share one.
LEMMA PlaceInjective ==
  ASSUME NEW t \in Shape, NEW p \in Peers(t), NEW q \in Peers(t),
         Place(t, p) = Place(t, q)
  PROVE  p = q
<1>1. /\ p = <<p[1], p[2]>> /\ q = <<q[1], q[2]>>
      /\ p[1] \in Nat /\ q[1] \in Nat /\ p[2] \in Nat /\ q[2] \in Nat /\ t.peers \in Nat
  BY DEF Peers, Orgs, Shape
<1>2. Place(t, p) \in Nat /\ Place(t, q) \in Nat
  BY PlaceType
<1>3. ~(p[1] < q[1]) /\ ~(q[1] < p[1])
  BY <1>2, PlaceOrder
<1>4. p[1] = q[1]
  BY <1>1, <1>3
<1>5. (p[1] - 1) * t.peers \in Int
  BY <1>1
<1>6. p[2] = q[2]
  BY <1>1, <1>4, <1>5 DEF Place
<1> QED
  BY <1>1, <1>4, <1>6

LEMMA PeerPortValue ==
  ASSUME NEW t \in Shape, NEW p \in Peers(t), NEW last \in Nat
  PROVE  PeerPort(t, p, last) = 7000 + 1000 * Place(t, p) + last
<1>1. Place(t, p) \in Nat
  BY PlaceType
<1>2. Prefix(t, p[1], p[2]) = 70 + 10 * Place(t, p)
  BY DEF Prefix, Place
<1> QED
  BY <1>1, <1>2 DEF PeerPort

\* The last two digits of a port say what publishes it, and the thousands which one.
Last == [orderer |-> 50, ca |-> 54, events |-> 53, peer |-> 51]
Thousands(t, x) ==
  CASE x[1] = "orderer" -> 7 + x[2]
    [] x[1] = "ca" -> 6 + x[2]
    [] OTHER -> 7 + Place(t, x[2])

LEMMA Publishers ==
  ASSUME NEW t \in Shape, NEW services \in Nat, services <= 970,
         NEW x \in Published(t, services)
  PROVE  /\ x = <<x[1], x[2], x[3]>>
         /\ \/ x[1] = "orderer" /\ x[2] \in Nat /\ x[3] = 1000 * (7 + x[2]) + 50
            \/ x[1] = "ca" /\ x[2] \in Nat /\ x[3] = 1000 * (6 + x[2]) + 54
            \/ x[1] = "events" /\ x[2] \in Peers(t)
                 /\ x[3] = 1000 * (7 + Place(t, x[2])) + 53
            \/ x[1] = "peer" /\ x[2] \in Peers(t)
                 /\ x[3] = 1000 * (7 + Place(t, x[2])) + 51
            \/ x[1] = "service" /\ x[2] \in Nat /\ x[2] < 970 /\ x[3] = 9080 + x[2]
<1>1. CASE x \in {<<"orderer", i, HostPort(i)>> : i \in 0..(t.orderers - 1)}
  BY <1>1 DEF HostPort, Shape
<1>2. CASE x \in {<<"ca", i, CAPort(i)>> : i \in Orgs(t)}
  BY <1>2 DEF CAPort, Orgs, Shape
<1>3. CASE x \in {<<"events", p, PeerPort(t, p, 53)>> : p \in Peers(t)}
  <2>1. PICK p \in Peers(t) : x = <<"events", p, PeerPort(t, p, 53)>>
    BY <1>3
  <2>2. Place(t, p) \in Nat /\ PeerPort(t, p, 53) = 7000 + 1000 * Place(t, p) + 53
    BY PlaceType, PeerPortValue
  <2> QED
    BY <2>1, <2>2
<1>4. CASE x \in {<<"peer", p, PeerPort(t, p, 51)>> : p \in Peers(t)}
  <2>1. PICK p \in Peers(t) : x = <<"peer", p, PeerPort(t, p, 51)>>
    BY <1>4
  <2>2. Place(t, p) \in Nat /\ PeerPort(t, p, 51) = 7000 + 1000 * Place(t, p) + 51
    BY PlaceType, PeerPortValue
  <2> QED
    BY <2>1, <2>2
<1>5. CASE x \in {<<"service", i, ServicePort(i)>> : i \in 0..(services - 1)}
  BY <1>5 DEF ServicePort
<1> QED
  BY <1>1, <1>2, <1>3, <1>4, <1>5 DEF Published

Digits(t, x) == 1000 * Thousands(t, x) + Last[x[1]]
Item(x) == x[2]
ServiceDigits(x) == 9080 + Item(x)

LEMMA PortDigits ==
  ASSUME NEW t \in Shape, NEW services \in Nat, services <= 970,
         NEW x \in Published(t, services)
  PROVE  \/ /\ x[1] \in DOMAIN Last /\ Thousands(t, x) \in Nat
            /\ x[3] = Digits(t, x)
         \/ x[1] = "service" /\ Item(x) \in Nat /\ Item(x) < 970 /\ x[3] = ServiceDigits(x)
<1>0. \A p \in Peers(t) : Place(t, p) \in Nat
  BY PlaceType
<1>1. CASE x[1] = "orderer"
  BY <1>1, Publishers DEF Thousands, Last, Digits
<1>2. CASE x[1] = "ca"
  BY <1>2, Publishers DEF Thousands, Last, Digits
<1>3. CASE x[1] = "events"
  BY <1>0, <1>3, Publishers DEF Thousands, Last, Digits
<1>4. CASE x[1] = "peer"
  BY <1>0, <1>4, Publishers DEF Thousands, Last, Digits
<1>5. CASE x[1] = "service"
  BY <1>5, Publishers DEF ServiceDigits, Item
<1> QED
  BY <1>1, <1>2, <1>3, <1>4, <1>5, Publishers

\* No two containers of a network publish the same port of the host, whatever the number
\* of orgs, peers and orderers, and for at most 970 chaincode services: the 971st would
\* take the port of the fourth orderer (New, generatecc).
THEOREM PortsNeverClash ==
  ASSUME NEW t \in Shape, NEW services \in Nat, services <= 970
  PROVE  Distinct(t, services)
<1>a. SUFFICES ASSUME NEW x \in Published(t, services), NEW y \in Published(t, services),
                       x[3] = y[3]
                PROVE  x = y
  BY DEF Distinct
<1>0. ASSUME NEW a \in Nat, NEW b \in Nat, NEW r \in 50..54, NEW q \in 50..54,
             1000 * a + r = 1000 * b + q
      PROVE  a = b /\ r = q
  BY <1>0
<1>1. \A k \in DOMAIN Last : Last[k] \in 50..54
  BY DEF Last
<1>2. CASE x[1] \in DOMAIN Last /\ y[1] \in DOMAIN Last
  <2>1. "service" \notin DOMAIN Last
    BY DEF Last
  <2>2. /\ Thousands(t, x) \in Nat /\ Thousands(t, y) \in Nat
        /\ x[3] = Digits(t, x) /\ y[3] = Digits(t, y)
    BY <1>2, <2>1, PortDigits
  <2>3. Thousands(t, x) = Thousands(t, y) /\ Last[x[1]] = Last[y[1]]
    <3>1. Digits(t, x) = Digits(t, y)
      BY <1>a, <2>2
    <3>2. Last[x[1]] \in 50..54 /\ Last[y[1]] \in 50..54
      BY <1>1, <1>2
    <3>3. Thousands(t, x) \in Nat /\ Thousands(t, y) \in Nat
      BY <2>2
    <3> QED
      BY <1>0, <3>1, <3>2, <3>3 DEF Digits
  <2>4. x[1] = y[1]
    BY <1>2, <2>3 DEF Last
  <2>5. x[2] = y[2]
    <3>1. CASE x[1] = "orderer"
      <4>1. x[2] \in Nat
        BY <3>1, Publishers
      <4>2. y[1] = "orderer"
        BY <2>4, <3>1
      <4>3. y[2] \in Nat
        BY <4>2, Publishers
      <4> QED
        BY <2>3, <3>1, <4>1, <4>2, <4>3 DEF Thousands
    <3>2. CASE x[1] = "ca"
      <4>1. x[2] \in Nat
        BY <3>2, Publishers
      <4>2. y[1] = "ca"
        BY <2>4, <3>2
      <4>3. y[2] \in Nat
        BY <4>2, Publishers
      <4> QED
        BY <2>3, <3>2, <4>1, <4>2, <4>3 DEF Thousands
    <3>3. CASE x[1] \in {"events", "peer"}
      <4>1. x[2] \in Peers(t) /\ y[2] \in Peers(t)
        BY <2>4, <3>3, Publishers
      <4>2. Place(t, x[2]) \in Nat /\ Place(t, y[2]) \in Nat
        BY <4>1, PlaceType
      <4>3. 7 + Place(t, x[2]) = 7 + Place(t, y[2])
        BY <2>3, <2>4, <3>3 DEF Thousands
      <4> QED
        BY <4>1, <4>2, <4>3, PlaceInjective
    <3> QED
      BY <1>2, <3>1, <3>2, <3>3 DEF Last
  <2> QED
    BY <2>4, <2>5, Publishers
<1>3. CASE x[1] = "service" /\ y[1] = "service"
  <2>1. "service" \notin DOMAIN Last
    BY DEF Last
  <2>2. /\ Item(x) \in Nat /\ Item(x) < 970 /\ Item(y) \in Nat /\ Item(y) < 970
        /\ x[3] = ServiceDigits(x) /\ y[3] = ServiceDigits(y)
    BY <1>3, <2>1, PortDigits
  <2>a. x[3] = ServiceDigits(x) /\ y[3] = ServiceDigits(y)
    BY <2>2
  <2>3. ServiceDigits(x) = ServiceDigits(y)
    BY <1>a, <2>a, Zenon
  <2>4. Item(x) = Item(y)
    <3>1. ASSUME NEW i \in Nat, NEW j \in Nat, 9080 + i = 9080 + j
          PROVE  i = j
      BY <3>1
    <3>2. Item(x) \in Nat /\ Item(x) < 970 /\ Item(y) \in Nat /\ Item(y) < 970
      BY <2>2
    <3> QED
      BY <2>3, <3>1, <3>2 DEF ServiceDigits
  <2> QED
    BY <1>3, <2>4, Publishers DEF Item
<1>4. ASSUME NEW u \in Published(t, services), NEW v \in Published(t, services),
             u[3] = v[3], u[1] \in DOMAIN Last, v[1] = "service"
      PROVE  FALSE
  <2>1. "service" \notin DOMAIN Last
    BY DEF Last
  <2>2. /\ Thousands(t, u) \in Nat /\ u[3] = Digits(t, u)
        /\ Item(v) \in Nat /\ Item(v) < 970 /\ v[3] = ServiceDigits(v)
    BY <1>4, <2>1, PortDigits
  <2>3. Last[u[1]] \in 50..54
    BY <1>1, <1>4
  <2>4. ASSUME NEW a \in Nat, NEW r \in 50..54, NEW i \in Nat, i < 970
        PROVE  1000 * a + r # 9080 + i
    BY <2>4
  <2>a. u[3] = Digits(t, u) /\ v[3] = ServiceDigits(v)
    BY <2>2
  <2>5. Digits(t, u) = ServiceDigits(v)
    BY <1>4, <2>a, Zenon
  <2>6. Thousands(t, u) \in Nat /\ Item(v) \in Nat /\ Item(v) < 970
    BY <2>2
  <2> QED
    BY <2>3, <2>4, <2>5, <2>6 DEF Digits, ServiceDigits
<1> QED
  BY <1>a, <1>2, <1>3, <1>4, PortDigits

-----------------------------------------------------------------------------
(* Policies.                                                                *)

\* Two members are enough for the policies that want two.
LEMMA TwoMembers ==
  ASSUME NEW S, IsFiniteSet(S), NEW a \in S, NEW b \in S, a # b
  PROVE  Cardinality(S) >= 2
<1>1. IsFiniteSet(S \ {a}) /\ Cardinality(S \ {a}) = Cardinality(S) - 1
  BY FS_RemoveElement
<1>2. Cardinality(S \ {a}) # 0
  BY <1>1, FS_EmptySet
<1>3. Cardinality(S) \in Nat /\ Cardinality(S \ {a}) \in Nat
  BY <1>1, FS_CardinalityType
<1> QED
  BY <1>1, <1>2, <1>3

LEMMA OrgsFinite ==
  ASSUME NEW t \in Shape
  PROVE  IsFiniteSet(Orgs(t)) /\ Cardinality(Orgs(t)) = t.orgs
<1>1. t.orgs \in Nat
  BY DEF Shape
<1>2. IsFiniteSet(1..t.orgs) /\ Cardinality(1..t.orgs) = t.orgs
  BY <1>1, FS_Interval, SMTT(30)
<1> QED
  BY <1>2 DEF Orgs

\* The peers that invoke asks by default, one of each org, can endorse what the network's
\* policy wants, but for nchoose2 with one org (computePolicies, Invoke).
THEOREM DefaultPeersSuffice ==
  ASSUME NEW t \in Shape, Accepted(t), t.structure = "nchoose2" => t.orgs >= 2
  PROVE  SatisfiedBy(EndorsementPolicy(t), Orgs(t))
<1>1. t.orgs \in Nat /\ t.orgs >= 1 /\ t.structure \in Structures
  BY DEF Shape, Accepted
<1>2. CASE t.structure = "shared"
  <2>1. EndorsementPolicy(t).alone = Orgs(t)
    BY <1>2 DEF EndorsementPolicy, Policy
  <2>2. 1 \in Orgs(t)
    BY <1>1 DEF Orgs
  <2> QED
    BY <2>1, <2>2 DEF SatisfiedBy
<1>3. CASE t.structure = "nchoose2common"
  <2>1. EndorsementPolicy(t).alone = {1}
    BY <1>3 DEF EndorsementPolicy, Policy
  <2>2. 1 \in Orgs(t)
    BY <1>1 DEF Orgs
  <2> QED
    BY <2>1, <2>2 DEF SatisfiedBy
<1>4. CASE t.structure = "nchoose2"
  <2>1. EndorsementPolicy(t).of = Orgs(t) /\ EndorsementPolicy(t).k = 2
    BY <1>4 DEF EndorsementPolicy, Policy
  <2>2. Orgs(t) # {}
    BY <1>1 DEF Orgs
  <2>3. Cardinality(Orgs(t) \cap Orgs(t)) >= 2
    <3>1. Orgs(t) \cap Orgs(t) = Orgs(t)
      OBVIOUS
    <3> QED
      BY <1>4, <3>1, OrgsFinite
  <2> QED
    BY <2>1, <2>2, <2>3 DEF SatisfiedBy
<1> QED
  BY <1>1, <1>2, <1>3, <1>4 DEF Structures

\* A collection of nchoose2 is a pair of orgs, one of nchoose2common Org1 and a pair.
LEMMA CollectionMembers ==
  ASSUME NEW t \in Shape, NEW c \in Collections(t)
  PROVE  /\ c \subseteq Orgs(t)
         /\ t.structure = "shared" => c = Orgs(t)
         /\ t.structure = "nchoose2" => \E i, j \in Orgs(t) : i # j /\ c = {i, j}
         /\ t.structure = "nchoose2common" =>
              /\ 1 \in Orgs(t) /\ 1 \in c
              /\ \E i \in c : i # 1
<1>1. t.orgs \in Nat /\ t.structure \in Structures
  BY DEF Shape
<1>2. CASE t.structure = "shared"
  BY <1>2 DEF Collections
<1>3. CASE t.structure = "nchoose2"
  BY <1>3 DEF Collections
<1>4. CASE t.structure = "nchoose2common"
  BY <1>1, <1>4 DEF Collections, Orgs
<1> QED
  BY <1>1, <1>2, <1>3, <1>4 DEF Structures

\* The members of a private data collection can write to it by themselves: together they
\* satisfy the endorsement policy (computePolicies).
THEOREM MembersSuffice ==
  ASSUME NEW t \in Shape, Accepted(t), NEW c \in Collections(t)
  PROVE  SatisfiedBy(EndorsementPolicy(t), c)
<1>1. t.orgs \in Nat /\ t.orgs >= 1 /\ t.structure \in Structures
  BY DEF Shape, Accepted
<1>2. CASE t.structure = "shared"
  <2>1. EndorsementPolicy(t).alone = Orgs(t) /\ c = Orgs(t)
    BY <1>2, CollectionMembers DEF EndorsementPolicy, Policy
  <2>2. 1 \in Orgs(t)
    BY <1>1 DEF Orgs
  <2> QED
    BY <2>1, <2>2 DEF SatisfiedBy
<1>3. CASE t.structure = "nchoose2common"
  <2>1. EndorsementPolicy(t).alone = {1} /\ 1 \in c
    BY <1>3, CollectionMembers DEF EndorsementPolicy, Policy
  <2> QED
    BY <2>1 DEF SatisfiedBy
<1>4. CASE t.structure = "nchoose2"
  <2>1. EndorsementPolicy(t).of = Orgs(t) /\ EndorsementPolicy(t).k = 2
    BY <1>4 DEF EndorsementPolicy, Policy
  <2>2. PICK i \in Orgs(t), j \in Orgs(t) : i # j /\ c = {i, j}
    BY <1>4, CollectionMembers
  <2>3. c \cap Orgs(t) = c /\ i \in c /\ j \in c
    BY <2>2
  <2>4. IsFiniteSet(c)
    <3>1. IsFiniteSet(Orgs(t)) /\ c \subseteq Orgs(t)
      BY <2>2, OrgsFinite
    <3> QED
      BY <3>1, FS_Subset
  <2>5. Cardinality(c \cap Orgs(t)) >= 2
    BY <2>2, <2>3, <2>4, TwoMembers
  <2> QED
    BY <2>1, <2>2, <2>5 DEF SatisfiedBy
<1> QED
  BY <1>1, <1>2, <1>3, <1>4 DEF Structures

\* install can parse the policy that generate wrote, but for nchoose2common with one org,
\* which has an OutOf gate without members (computePolicies, outof).
THEOREM PoliciesParse ==
  ASSUME NEW t \in Shape, Accepted(t)
  PROVE  InstallAccepts(t) <=> ~(t.structure = "nchoose2common" /\ t.orgs = 1)
<1>1. t.orgs \in Nat /\ t.orgs >= 1 /\ t.structure \in Structures
  BY DEF Shape, Accepted
<1>2. CASE t.structure = "shared"
  BY <1>2 DEF InstallAccepts, Parses, EndorsementPolicy, Policy
<1>3. CASE t.structure = "nchoose2"
  <2>1. 1 \in Orgs(t)
    BY <1>1 DEF Orgs
  <2> QED
    BY <1>3, <2>1 DEF InstallAccepts, Parses, EndorsementPolicy, Policy
<1>4. CASE t.structure = "nchoose2common"
  <2>1. EndorsementPolicy(t).of = 2..t.orgs /\ EndorsementPolicy(t).k = 2
    BY <1>4 DEF EndorsementPolicy, Policy
  <2>2. 2..t.orgs = {} <=> t.orgs = 1
    BY <1>1
  <2> QED
    BY <1>4, <2>1, <2>2 DEF InstallAccepts, Parses
<1> QED
  BY <1>1, <1>2, <1>3, <1>4 DEF Structures

\* The default required peer count, half of all the peers, can be met by the members of
\* every collection, the endorser not counted, in a network with one collection or with
\* at most three orgs.  (With four, half of the peers are all those of a pair.)
THEOREM DefaultCountIsReachable ==
  ASSUME NEW t \in Shape, Accepted(t), t.req = -1, NEW c \in Collections(t),
         t.structure = "shared" \/ t.orgs <= 3
  PROVE  RequiredPeerCount(t) <= Cardinality(c) * t.peers - 1
<1> DEFINE P == t.peers
<1>1. /\ t.orgs \in Nat /\ t.orgs >= 1 /\ P \in Nat /\ P >= 1
      /\ t.structure \in Structures
  BY DEF Shape, Accepted
<1>2. IsFiniteSet(c) /\ Cardinality(c) \in Nat
  <2>1. IsFiniteSet(Orgs(t)) /\ c \subseteq Orgs(t)
    BY OrgsFinite, CollectionMembers
  <2> QED
    BY <2>1, FS_Subset, FS_CardinalityType
<1>3. RequiredPeerCount(t) = (t.orgs * P) \div 2
  BY DEF RequiredPeerCount, Total
<1>4. CASE t.structure = "shared"
  <2>1. Cardinality(c) = t.orgs
    BY <1>4, OrgsFinite, CollectionMembers
  <2>2. t.orgs * P \in Nat /\ t.orgs * P >= 1
    <3>1. 0 * P + P <= t.orgs * P
      BY <1>1, ProductGrows
    <3> QED
      BY <1>1, <3>1
  <2>3. ASSUME NEW n \in Nat, n >= 1
        PROVE  n \div 2 <= n - 1
    BY <2>3
  <2>4. (t.orgs * P) \div 2 <= t.orgs * P - 1
    BY <2>2, <2>3
  <2> QED
    BY <1>3, <2>1, <2>4
<1>5. CASE t.structure # "shared"
  <2>1. Cardinality(c) >= 2
    <3>1. CASE t.structure = "nchoose2"
      <4>1. PICK i \in Orgs(t), j \in Orgs(t) : i # j /\ c = {i, j}
        BY <3>1, CollectionMembers
      <4> QED
        BY <1>2, <4>1, TwoMembers
    <3>2. CASE t.structure = "nchoose2common"
      <4>1. 1 \in c /\ \E i \in c : i # 1
        BY <3>2, CollectionMembers
      <4> QED
        BY <1>2, <4>1, TwoMembers
    <3> QED
      BY <1>1, <1>5, <3>1, <3>2 DEF Structures
  <2>2. Cardinality(c) * P >= 2 * P
    <3>1. CASE Cardinality(c) = 2
      BY <1>1, <3>1
    <3>2. CASE Cardinality(c) > 2
      <4>1. 2 * P + P <= Cardinality(c) * P
        BY <1>1, <1>2, <3>2, ProductGrows
      <4> QED
        BY <1>1, <1>2, <4>1
    <3> QED
      BY <1>2, <2>1, <3>1, <3>2
  <2>3. t.orgs \in 1..3
    BY <1>1, <1>5
  <2>4. (t.orgs * P) \div 2 <= 2 * P - 1
    <3>1. CASE t.orgs = 1
      BY <1>1, <3>1
    <3>2. CASE t.orgs = 2
      BY <1>1, <3>2
    <3>3. CASE t.orgs = 3
      BY <1>1, <3>3
    <3> QED
      BY <2>3, <3>1, <3>2, <3>3
  <2>5. Cardinality(c) * P \in Nat
    BY <1>1, <1>2
  <2> QED
    BY <1>1, <1>3, <2>2, <2>4, <2>5
<1> QED
  BY <1>4, <1>5
=============================================================================
