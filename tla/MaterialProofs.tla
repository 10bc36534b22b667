--------------------------- MODULE MaterialProofs ---------------------------
(***************************************************************************)
(* Proofs about Material: its types, and the list of tasks of a command.    *)
(* The list is a sequence; the proofs speak of its elements, what is still  *)
(* to be done, and of its order, which tasks may come before which.         *)
(***************************************************************************)
EXTENDS Material, SequenceTheorems, TLAPS

-----------------------------------------------------------------------------
(* Sequences by their elements and their order.                             *)

Elements(s) == {s[i] : i \in DOMAIN s}

LEMMA ElementsType ==
  ASSUME NEW S, NEW s \in Seq(S)
  PROVE  Elements(s) \subseteq S
BY ElementOfSeq DEF Elements

LEMMA ElementsEmpty == Elements(<<>>) = {}
BY DEF Elements

LEMMA ElementsOne == ASSUME NEW a PROVE Elements(<<a>>) = {a}
BY DEF Elements

LEMMA ElementsTwo == ASSUME NEW a, NEW b PROVE Elements(<<a, b>>) = {a, b}
<1>1. DOMAIN <<a, b>> = {1, 2} /\ <<a, b>>[1] = a /\ <<a, b>>[2] = b
  OBVIOUS
<1>2. QED
  BY <1>1 DEF Elements

LEMMA ElementsConcat ==
  ASSUME NEW S, NEW s \in Seq(S), NEW t \in Seq(S)
  PROVE  /\ s \o t \in Seq(S)
         /\ Elements(s \o t) = Elements(s) \cup Elements(t)
<1>1. /\ s \o t \in Seq(S)
      /\ Len(s \o t) = Len(s) + Len(t) /\ Len(s) \in Nat /\ Len(t) \in Nat
      /\ \A i \in 1..(Len(s) + Len(t)) :
           (s \o t)[i] = IF i <= Len(s) THEN s[i] ELSE t[i - Len(s)]
  BY ConcatProperties, LenProperties
<1>2. /\ DOMAIN s = 1..Len(s) /\ DOMAIN t = 1..Len(t)
      /\ DOMAIN (s \o t) = 1..(Len(s) + Len(t))
  BY <1>1, LenProperties
<1>3. ASSUME NEW i \in DOMAIN (s \o t)
      PROVE  (s \o t)[i] \in Elements(s) \cup Elements(t)
  BY <1>1, <1>2 DEF Elements
<1>4. ASSUME NEW i \in DOMAIN s
      PROVE  s[i] \in Elements(s \o t)
  BY <1>1, <1>2 DEF Elements
<1>5. ASSUME NEW i \in DOMAIN t
      PROVE  t[i] \in Elements(s \o t)
  <2>1. i + Len(s) \in DOMAIN (s \o t) /\ (s \o t)[i + Len(s)] = t[i]
    BY <1>1, <1>2
  <2>2. QED
    BY <2>1 DEF Elements
<1>6. QED
  BY <1>1, <1>3, <1>4, <1>5 DEF Elements

LEMMA ElementsTail ==
  ASSUME NEW S, NEW s \in Seq(S), s # <<>>
  PROVE  /\ Head(s) \in S /\ Tail(s) \in Seq(S)
         /\ Elements(s) = {Head(s)} \cup Elements(Tail(s))
<1>1. /\ Head(s) \in S /\ Tail(s) \in Seq(S) /\ Head(s) = s[1]
      /\ Len(Tail(s)) = Len(s) - 1 /\ Len(s) \in Nat /\ Len(s) >= 1
      /\ \A i \in 1..Len(Tail(s)) : Tail(s)[i] = s[i + 1]
  BY HeadTailProperties, LenProperties, EmptySeq
<1>2. DOMAIN s = 1..Len(s) /\ DOMAIN Tail(s) = 1..(Len(s) - 1)
  BY <1>1, LenProperties
<1>3. ASSUME NEW i \in DOMAIN s
      PROVE  s[i] \in {Head(s)} \cup Elements(Tail(s))
  <2>1. CASE i = 1
    BY <1>1, <2>1
  <2>2. CASE i # 1
    <3>1. i - 1 \in DOMAIN Tail(s) /\ Tail(s)[i - 1] = s[i]
      BY <1>1, <1>2, <2>2
    <3>2. QED
      BY <3>1 DEF Elements
  <2>3. QED
    BY <2>1, <2>2
<1>4. Head(s) \in Elements(s)
  BY <1>1, <1>2 DEF Elements
<1>5. ASSUME NEW i \in DOMAIN Tail(s)
      PROVE  Tail(s)[i] \in Elements(s)
  <2>1. i + 1 \in DOMAIN s /\ Tail(s)[i] = s[i + 1]
    BY <1>1, <1>2
  <2>2. QED
    BY <2>1 DEF Elements
<1>6. QED
  BY <1>1, <1>3, <1>4, <1>5 DEF Elements

-----------------------------------------------------------------------------
(* The tasks of a command and their order.                                  *)

WholeOrgTasks == {"new org", "extend org"}
Parts == {"new ca", "load ca", "new msp", "new member", "copy cert"}
NodeTasks == {"new member", "copy cert"}
OrgTasks == WholeOrgTasks \cup Parts

\* How far the command has come when it does a task.
Stage(do) ==
  IF do = "render spec" THEN 1
  ELSE IF do = "render tx" THEN 2
  ELSE IF do = "clear crypto" THEN 3
  ELSE IF do \in {"generate", "extend"} \cup OrgTasks THEN 4
  ELSE IF do = "keys" THEN 5
  ELSE IF do = "clear artifacts" THEN 6
  ELSE IF do = "block" THEN 7
  ELSE IF do = "system" THEN 8
  ELSE 9

\* Whether a task may come before another: a CA before what it signs, the admin before
\* the copies of its certificate, an org's parts before the next org.
MayPrecede(a, b) ==
  \/ Stage(a.do) < Stage(b.do)
  \/ /\ a.do \in OrgTasks /\ b.do \in OrgTasks
     /\ a.do \in WholeOrgTasks => b.do = a.do
     /\ b.do \in WholeOrgTasks => a.org # b.org
     /\ b.do # "new ca"
     /\ b.do = "new msp" => a.do = "new ca" /\ a.org = b.org
     /\ a.do = "copy cert" => b # Task("new member", a.org, Admin)

Ordered(s) == \A i, j \in DOMAIN s : i < j => MayPrecede(s[i], s[j])

LEMMA OrderedConcat ==
  ASSUME NEW S, NEW s \in Seq(S), NEW t \in Seq(S), Ordered(s), Ordered(t),
         \A a \in Elements(s), b \in Elements(t) : MayPrecede(a, b)
  PROVE  Ordered(s \o t)
<1>1. /\ Len(s) \in Nat /\ Len(t) \in Nat
      /\ DOMAIN s = 1..Len(s) /\ DOMAIN t = 1..Len(t)
      /\ DOMAIN (s \o t) = 1..(Len(s) + Len(t))
      /\ \A i \in 1..(Len(s) + Len(t)) :
           (s \o t)[i] = IF i <= Len(s) THEN s[i] ELSE t[i - Len(s)]
  BY ConcatProperties, LenProperties
<1>2. ASSUME NEW i \in DOMAIN (s \o t), NEW j \in DOMAIN (s \o t), i < j
      PROVE  MayPrecede((s \o t)[i], (s \o t)[j])
  <2>1. CASE j <= Len(s)
    <3>1. i \in DOMAIN s /\ j \in DOMAIN s /\ (s \o t)[i] = s[i] /\ (s \o t)[j] = s[j]
      BY <1>1, <1>2, <2>1
    <3>2. QED
      BY <1>2, <3>1 DEF Ordered
  <2>2. CASE i > Len(s)
    <3>1. /\ i - Len(s) \in DOMAIN t /\ j - Len(s) \in DOMAIN t /\ i - Len(s) < j - Len(s)
          /\ (s \o t)[i] = t[i - Len(s)] /\ (s \o t)[j] = t[j - Len(s)]
      BY <1>1, <1>2, <2>2
    <3>2. QED
      BY <3>1 DEF Ordered
  <2>3. CASE i <= Len(s) /\ j > Len(s)
    <3>1. /\ i \in DOMAIN s /\ (s \o t)[i] = s[i]
          /\ j - Len(s) \in DOMAIN t /\ (s \o t)[j] = t[j - Len(s)]
      BY <1>1, <1>2, <2>3
    <3>2. (s \o t)[i] \in Elements(s) /\ (s \o t)[j] \in Elements(t)
      BY <3>1 DEF Elements
    <3>3. QED
      BY <3>2
  <2>4. QED
    BY <1>1, <2>1, <2>2, <2>3
<1>3. QED
  BY <1>2 DEF Ordered

LEMMA OrderedTail ==
  ASSUME NEW S, NEW s \in Seq(S), s # <<>>, Ordered(s)
  PROVE  /\ Ordered(Tail(s))
         /\ \A b \in Elements(Tail(s)) : MayPrecede(Head(s), b)
<1>1. /\ Head(s) = s[1] /\ Len(s) \in Nat /\ Len(s) >= 1
      /\ Tail(s) \in Seq(S) /\ Len(Tail(s)) = Len(s) - 1
      /\ \A i \in 1..Len(Tail(s)) : Tail(s)[i] = s[i + 1]
  BY HeadTailProperties, LenProperties, EmptySeq
<1>2. DOMAIN s = 1..Len(s) /\ DOMAIN Tail(s) = 1..(Len(s) - 1)
  BY <1>1, LenProperties
<1>3. ASSUME NEW i \in DOMAIN Tail(s)
      PROVE  i + 1 \in DOMAIN s /\ Tail(s)[i] = s[i + 1] /\ 1 \in DOMAIN s /\ 1 < i + 1
  BY <1>1, <1>2
<1>4. ASSUME NEW i \in DOMAIN Tail(s), NEW j \in DOMAIN Tail(s), i < j
      PROVE  MayPrecede(Tail(s)[i], Tail(s)[j])
  <2>1. i + 1 < j + 1
    BY <1>2, <1>4
  <2>2. QED
    BY <1>3, <2>1 DEF Ordered
<1>5. ASSUME NEW i \in DOMAIN Tail(s)
      PROVE  MayPrecede(Head(s), Tail(s)[i])
  BY <1>1, <1>3 DEF Ordered
<1>6. QED
  BY <1>4, <1>5 DEF Ordered, Elements

LEMMA OrderedShort ==
  ASSUME NEW a, NEW b
  PROVE  Ordered(<<>>) /\ Ordered(<<a>>) /\ (MayPrecede(a, b) => Ordered(<<a, b>>))
<1>1. Ordered(<<>>) /\ Ordered(<<a>>)
  BY DEF Ordered
<1>2. DOMAIN <<a, b>> = {1, 2} /\ <<a, b>>[1] = a /\ <<a, b>>[2] = b
  OBVIOUS
<1>3. ASSUME NEW i \in {1, 2}, NEW j \in {1, 2}, i < j
      PROVE  i = 1 /\ j = 2
  BY <1>3
<1>4. MayPrecede(a, b) => Ordered(<<a, b>>)
  BY <1>2, <1>3 DEF Ordered
<1>5. QED
  BY <1>1, <1>4

\* A network is read as it is, and what is left of its file as less of it.
LEMMA NetworksAreReadings == Networks \subseteq Readings
<1>1. MaxOrgs \in Nat /\ MaxNodes \in Nat
  BY NetworksAssumption
<1>2. 1..MaxOrgs \subseteq 0..MaxOrgs /\ 1..MaxNodes \subseteq 0..MaxNodes
  BY <1>1
<1>3. [orgs : 1..MaxOrgs, peers : 1..MaxNodes, orderers : 1..MaxNodes, last : {"whole"}]
        \subseteq Readings
  BY <1>2 DEF Readings
<1>4. QED
  BY <1>3, NetworksAssumption

\* An org of a network, and how many nodes it has.
LEMMA NetworkOrgs ==
  ASSUME NEW n \in Readings
  PROVE  /\ Count(n) \in Nat /\ n.orgs \in 0..MaxOrgs /\ n.orgs \in Nat
         /\ OrgsOf(n) \subseteq Orgs /\ Orderer \in OrgsOf(n)
         /\ \A o \in Orgs : NodesOf(o, n) \in 0..MaxNodes /\ NodesOf(o, n) \in Nat
<1>1. /\ MaxOrgs \in Nat /\ MaxNodes \in Nat
      /\ n.orgs \in 0..MaxOrgs /\ n.peers \in 1..MaxNodes /\ n.orderers \in 0..MaxNodes
  BY NetworksAssumption DEF Readings
<1>2. Count(n) \in Nat /\ Count(n) \in 1..Count(n) /\ Org(Count(n), n) = Orderer
  BY <1>1 DEF Count, Org
<1>3. ASSUME NEW i \in 1..Count(n)
      PROVE  Org(i, n) \in Orgs
  BY <1>1, <1>3 DEF Count, Org, Orgs, Orderer
<1>4. ASSUME NEW o \in Orgs
      PROVE  NodesOf(o, n) \in 0..MaxNodes /\ NodesOf(o, n) \in Nat
  <2>1. NodesOf(o, n) \in {n.orderers, 0, n.peers}
    BY Zenon DEF NodesOf
  <2>2. QED
    BY <1>1, <2>1
<1>5. QED
  BY <1>1, <1>2, <1>3, <1>4 DEF OrgsOf

LEMMA TaskTypes ==
  ASSUME NEW o \in Orgs
  PROVE  /\ \A do \in WholeOrgTasks : Task(do, o, CA) \in Tasks
         /\ \A do \in Parts, x \in Things : Task(do, o, x) \in Tasks
<1>1. CA \in Things
  BY DEF Things
<1>2. QED
  BY <1>1 DEF Tasks, Task, WholeOrgTasks, Parts

LEMMA OrgAfterOrg ==
  ASSUME NEW do \in WholeOrgTasks, NEW o, NEW q, o # q
  PROVE  MayPrecede(Task(do, o, CA), Task(do, q, CA))
BY DEF MayPrecede, Task, OrgTasks, WholeOrgTasks, Parts

LEMMA ForEachOrgTasks ==
  ASSUME NEW n \in Readings, NEW do \in WholeOrgTasks
  PROVE  /\ ForEachOrg(do, n) \in Seq(Tasks)
         /\ ForEachOrg(do, n) # <<>>
         /\ Elements(ForEachOrg(do, n)) = {Task(do, o, CA) : o \in OrgsOf(n)}
         /\ Ordered(ForEachOrg(do, n))
<1> DEFINE s == ForEachOrg(do, n)
<1>1. /\ Count(n) \in Nat /\ n.orgs \in Nat /\ Count(n) = n.orgs + 1
      /\ s = [i \in 1..Count(n) |-> Task(do, Org(i, n), CA)]
      /\ \A i \in 1..Count(n) : Org(i, n) \in OrgsOf(n) /\ Org(i, n) \in Orgs
  BY NetworkOrgs DEF ForEachOrg, OrgsOf, Count
<1>2. ASSUME NEW i \in 1..Count(n)
      PROVE  s[i] = Task(do, Org(i, n), CA) /\ s[i] \in Tasks
  BY <1>1, TaskTypes
<1>3. s \in Seq(Tasks) /\ DOMAIN s = 1..Count(n) /\ s # <<>>
  <2>1. s \in Seq(Tasks)
    BY <1>1, <1>2
  <2>2. DOMAIN s = 1..Count(n) /\ 1 \in DOMAIN s
    BY <1>1
  <2>3. DOMAIN <<>> = {}
    OBVIOUS
  <2>4. QED
    BY <2>1, <2>2, <2>3
<1>4. Elements(s) = {Task(do, o, CA) : o \in OrgsOf(n)}
  BY <1>1, <1>3 DEF Elements, OrgsOf
<1>5. ASSUME NEW i \in 1..Count(n), NEW j \in 1..Count(n), i < j
      PROVE  MayPrecede(s[i], s[j])
  <2>1. Org(i, n) # Org(j, n)
    BY <1>1, <1>5 DEF Org, Orderer
  <2>2. s[i] = Task(do, Org(i, n), CA) /\ s[j] = Task(do, Org(j, n), CA)
    BY <1>2
  <2>3. QED
    BY <2>1, <2>2, OrgAfterOrg
<1>6. QED
  BY <1>3, <1>4, <1>5 DEF Ordered

LEMMA NaturalBounds ==
  /\ MaxOrgs \in Nat /\ MaxNodes \in Nat /\ MaxCommands \in Nat /\ MaxCuts \in Nat
BY NetworksAssumption

\* Tasks of one kind, one for each node of an org.
LEMMA ForEachNode ==
  ASSUME NEW do \in NodeTasks, NEW o \in Orgs, NEW m \in 0..MaxNodes
  PROVE  LET s == [i \in 1..m |-> Task(do, o, Node(i))] IN
         /\ s \in Seq(Tasks)
         /\ Elements(s) = {Task(do, o, Node(i)) : i \in 1..m}
         /\ Ordered(s)
<1> DEFINE s == [i \in 1..m |-> Task(do, o, Node(i))]
<1>1. MaxNodes \in Nat /\ m \in Nat
  BY NaturalBounds
<1>2. ASSUME NEW i \in 1..m
      PROVE  s[i] = Task(do, o, Node(i)) /\ s[i] \in Tasks
  <2>1. i \in 1..MaxNodes
    BY <1>1
  <2>2. Node(i) \in Things
    BY <2>1 DEF Things, Nodes
  <2>3. QED
    BY <2>2, TaskTypes DEF NodeTasks, Parts
<1>3. s \in Seq(Tasks) /\ DOMAIN s = 1..m
  BY <1>1, <1>2
<1>4. Elements(s) = {Task(do, o, Node(i)) : i \in 1..m}
  BY <1>2, <1>3 DEF Elements
<1>5. ASSUME NEW i \in 1..m, NEW j \in 1..m
      PROVE  MayPrecede(s[i], s[j])
  <2>1. Node(j) # Admin
    BY DEF Node, Admin, Thing
  <2>2. QED
    BY <1>2, <2>1 DEF MayPrecede, Task, OrgTasks, WholeOrgTasks, Parts, NodeTasks
<1>6. QED
  BY <1>3, <1>4, <1>5 DEF Ordered

LEMMA PartsOrder ==
  ASSUME NEW a, NEW b, a.do \in Parts, b.do \in NodeTasks,
         a.do = "copy cert" => b # Task("new member", a.org, Admin)
  PROVE  MayPrecede(a, b)
BY DEF MayPrecede, OrgTasks, WholeOrgTasks, Parts, NodeTasks

LEMMA TasksConcat ==
  ASSUME NEW s \in Seq(Tasks), NEW t \in Seq(Tasks)
  PROVE  /\ s \o t \in Seq(Tasks)
         /\ Elements(s \o t) = Elements(s) \cup Elements(t)
BY ElementsConcat

\* Joining lists of an org's tasks, of which the second makes no admin after a copy.
LEMMA JoinParts ==
  ASSUME NEW s \in Seq(Tasks), Ordered(s), NEW t \in Seq(Tasks), Ordered(t),
         \A a \in Elements(s) : a.do \in Parts,
         \A b \in Elements(t) : b.do \in NodeTasks,
         \/ \A a \in Elements(s) : a.do # "copy cert"
         \/ \A b \in Elements(t) : b.thing # Admin
  PROVE  /\ s \o t \in Seq(Tasks) /\ Ordered(s \o t)
         /\ Elements(s \o t) = Elements(s) \cup Elements(t)
<1>1. ASSUME NEW a \in Elements(s), NEW b \in Elements(t)
      PROVE  MayPrecede(a, b)
  <2>1. Task("new member", a.org, Admin).thing = Admin
    BY DEF Task
  <2>2. a.do = "copy cert" => b # Task("new member", a.org, Admin)
    BY <1>1, <2>1
  <2>3. QED
    BY <1>1, <2>2, PartsOrder
<1>2. Ordered(s \o t)
  BY <1>1, OrderedConcat
<1>3. s \o t \in Seq(Tasks) /\ Elements(s \o t) = Elements(s) \cup Elements(t)
  BY TasksConcat
<1>4. QED
  BY <1>2, <1>3

NodesTasks(do, o, n) == {Task(do, o, Node(i)) : i \in 1..NodesOf(o, n)}
UserTasks(o, n) == IF HasUser(o, n) THEN {Task("new member", o, User)} ELSE {}
NodesCertTasks(o, n) == IF NodeOUs THEN {} ELSE NodesTasks("copy cert", o, n)
MSPCertTasks(o) == IF NodeOUs THEN {} ELSE {Task("copy cert", o, MSP)}

LEMMA ThingsDiffer ==
  /\ CA \in Things /\ MSP \in Things /\ User \in Things /\ Admin \in Things
  /\ CA # MSP /\ CA # User /\ CA # Admin /\ MSP # User /\ MSP # Admin /\ User # Admin
  /\ \A i : Node(i) # CA /\ Node(i) # MSP /\ Node(i) # User /\ Node(i) # Admin
BY DEF Things, CA, MSP, User, Admin, Node, Thing

LEMMA OneTask ==
  ASSUME NEW t \in Tasks
  PROVE  <<t>> \in Seq(Tasks) /\ Ordered(<<t>>) /\ Elements(<<t>>) = {t}
<1>1. <<t>> \in Seq(Tasks)
  OBVIOUS
<1>2. Ordered(<<t>>)
  BY OrderedShort
<1>3. QED
  BY <1>1, <1>2, ElementsOne

LEMMA TwoTasks ==
  ASSUME NEW t \in Tasks, NEW u \in Tasks, MayPrecede(t, u)
  PROVE  <<t, u>> \in Seq(Tasks) /\ Ordered(<<t, u>>) /\ Elements(<<t, u>>) = {t, u}
<1>1. <<t, u>> \in Seq(Tasks)
  OBVIOUS
<1>2. Ordered(<<t, u>>)
  BY OrderedShort
<1>3. QED
  BY <1>1, <1>2, ElementsTwo

\* The lists that an org's list is put together from.
LEMMA OrgPieces ==
  ASSUME NEW n \in Readings, NEW o \in Orgs
  PROVE  /\ NewNodes(o, n) \in Seq(Tasks) /\ Ordered(NewNodes(o, n))
         /\ Elements(NewNodes(o, n)) = NodesTasks("new member", o, n)
         /\ NodeCerts(o, n) \in Seq(Tasks) /\ Ordered(NodeCerts(o, n))
         /\ Elements(NodeCerts(o, n)) = NodesCertTasks(o, n)
         /\ NewUser(o, n) \in Seq(Tasks) /\ Ordered(NewUser(o, n))
         /\ Elements(NewUser(o, n)) = UserTasks(o, n)
         /\ MSPCert(o) \in Seq(Tasks) /\ Ordered(MSPCert(o))
         /\ Elements(MSPCert(o)) = MSPCertTasks(o)
<1>1. NodesOf(o, n) \in 0..MaxNodes
  BY NetworkOrgs
<1>2. /\ NewNodes(o, n) \in Seq(Tasks) /\ Ordered(NewNodes(o, n))
      /\ Elements(NewNodes(o, n)) = NodesTasks("new member", o, n)
  <2>1. "new member" \in NodeTasks
    BY DEF NodeTasks
  <2>2. QED
    BY <1>1, <2>1, ForEachNode DEF NewNodes, NodesTasks
<1>3. <<>> \in Seq(Tasks) /\ Ordered(<<>>) /\ Elements(<<>>) = {}
  BY EmptySeq, OrderedShort, ElementsEmpty
<1>4. /\ NodeCerts(o, n) \in Seq(Tasks) /\ Ordered(NodeCerts(o, n))
      /\ Elements(NodeCerts(o, n)) = NodesCertTasks(o, n)
  <2>1. "copy cert" \in NodeTasks
    BY DEF NodeTasks
  <2>2. CASE NodeOUs
    BY <1>3, <2>2 DEF NodeCerts, NodesCertTasks
  <2>3. CASE ~NodeOUs
    BY <1>1, <2>1, <2>3, ForEachNode DEF NodeCerts, NodesTasks, NodesCertTasks
  <2>4. QED
    BY <2>2, <2>3
<1>5. ASSUME NEW t \in Tasks
      PROVE  <<t>> \in Seq(Tasks) /\ Ordered(<<t>>) /\ Elements(<<t>>) = {t}
  BY <1>5, OneTask
<1>6. /\ NewUser(o, n) \in Seq(Tasks) /\ Ordered(NewUser(o, n))
      /\ Elements(NewUser(o, n)) = UserTasks(o, n)
  <2>1. Task("new member", o, User) \in Tasks
    BY TaskTypes, ThingsDiffer DEF Parts
  <2>2. QED
    BY <1>3, <1>5, <2>1 DEF NewUser, UserTasks
<1>7. /\ MSPCert(o) \in Seq(Tasks) /\ Ordered(MSPCert(o))
      /\ Elements(MSPCert(o)) = MSPCertTasks(o)
  <2>1. Task("copy cert", o, MSP) \in Tasks
    BY TaskTypes, ThingsDiffer DEF Parts
  <2>2. QED
    BY <1>3, <1>5, <2>1 DEF MSPCert, MSPCertTasks
<1>8. QED
  BY <1>2, <1>4, <1>6, <1>7

ExtendOrgTasks(o, n) ==
  {Task("load ca", o, CA)} \cup NodesTasks("new member", o, n)
    \cup NodesCertTasks(o, n) \cup UserTasks(o, n)

NewOrgTasks(o, n) ==
  {Task("new ca", o, CA), Task("new msp", o, MSP)}
    \cup NodesTasks("new member", o, n) \cup UserTasks(o, n)
    \cup {Task("new member", o, Admin)}
    \cup MSPCertTasks(o) \cup NodesCertTasks(o, n)

\* The pieces are tasks for the nodes and users of the org, none of them the admin.
LEMMA PieceTasks ==
  ASSUME NEW n \in Readings, NEW o \in Orgs
  PROVE  /\ \A t \in Elements(NewNodes(o, n)) \cup Elements(NewUser(o, n)) :
              t.do # "copy cert" /\ t.do \in NodeTasks /\ t.do \in Parts /\ t.thing # Admin
         /\ \A t \in Elements(NodeCerts(o, n)) \cup Elements(MSPCert(o)) :
              t.do \in NodeTasks /\ t.do \in Parts /\ t.thing # Admin
<1>1. ASSUME NEW x, x # Admin, NEW do \in NodeTasks
      PROVE  LET t == Task(do, o, x) IN
             t.do = do /\ t.do \in NodeTasks /\ t.do \in Parts /\ t.thing # Admin
  BY <1>1 DEF Task, NodeTasks, Parts
<1>2. /\ "new member" \in NodeTasks /\ "copy cert" \in NodeTasks
      /\ "new member" # "copy cert"
  BY DEF NodeTasks
<1>3. ASSUME NEW do \in NodeTasks, NEW t \in NodesTasks(do, o, n)
      PROVE  t.do = do /\ t.do \in NodeTasks /\ t.do \in Parts /\ t.thing # Admin
  BY <1>1, <1>3, ThingsDiffer DEF NodesTasks
<1>4. ASSUME NEW t \in UserTasks(o, n)
      PROVE  t.do = "new member" /\ t.do \in NodeTasks /\ t.do \in Parts /\ t.thing # Admin
  <2>1. t = Task("new member", o, User)
    BY <1>4 DEF UserTasks
  <2>2. QED
    BY <1>1, <1>2, <2>1, ThingsDiffer
<1>5. ASSUME NEW t \in MSPCertTasks(o)
      PROVE  t.do \in NodeTasks /\ t.do \in Parts /\ t.thing # Admin
  <2>1. t = Task("copy cert", o, MSP)
    BY <1>5 DEF MSPCertTasks
  <2>2. QED
    BY <1>1, <1>2, <2>1, ThingsDiffer
<1>6. ASSUME NEW t \in NodesCertTasks(o, n)
      PROVE  t.do \in NodeTasks /\ t.do \in Parts /\ t.thing # Admin
  <2>1. t \in NodesTasks("copy cert", o, n)
    BY <1>6 DEF NodesCertTasks
  <2>2. QED
    BY <1>2, <1>3, <2>1
<1>7. QED
  BY <1>2, <1>3, <1>4, <1>5, <1>6, OrgPieces

LEMMA ExtendOrgTasksOf ==
  ASSUME NEW n \in Readings, NEW o \in Orgs
  PROVE  /\ ExtendOrg(o, n) \in Seq(Tasks) /\ Ordered(ExtendOrg(o, n))
         /\ Elements(ExtendOrg(o, n)) = ExtendOrgTasks(o, n)
<1> DEFINE t == Task("load ca", o, CA)
           a == <<t>>
           b == a \o NewNodes(o, n)
           c == b \o NodeCerts(o, n)
<1>1. a \in Seq(Tasks) /\ Ordered(a) /\ Elements(a) = {t} /\ t.do = "load ca" /\ t.do \in Parts
  <2>1. t \in Tasks
    BY TaskTypes, ThingsDiffer DEF Parts
  <2>2. t.do = "load ca" /\ t.do \in Parts
    BY DEF Task, Parts
  <2>3. QED
    BY <2>1, <2>2, OneTask
<1> HIDE DEF a
<1>2. /\ b \in Seq(Tasks) /\ Ordered(b)
      /\ Elements(b) = {t} \cup Elements(NewNodes(o, n))
  <2>1. /\ \A x \in Elements(a) : x.do \in Parts /\ x.do # "copy cert"
        /\ \A x \in Elements(NewNodes(o, n)) : x.do \in NodeTasks
    BY <1>1, PieceTasks
  <2>2. QED
    BY <1>1, <2>1, OrgPieces, JoinParts
<1> HIDE DEF b
<1>3. /\ c \in Seq(Tasks) /\ Ordered(c)
      /\ Elements(c) = Elements(b) \cup Elements(NodeCerts(o, n))
  <2>1. \A x \in Elements(b) : x.do \in Parts /\ x.do # "copy cert"
    BY <1>1, <1>2, PieceTasks
  <2>2. \A x \in Elements(NodeCerts(o, n)) : x.do \in NodeTasks /\ x.do \in Parts
    BY PieceTasks
  <2>3. QED
    BY <1>2, <2>1, <2>2, OrgPieces, JoinParts
<1> HIDE DEF c
<1>4. /\ c \o NewUser(o, n) \in Seq(Tasks) /\ Ordered(c \o NewUser(o, n))
      /\ Elements(c \o NewUser(o, n)) = Elements(c) \cup UserTasks(o, n)
  <2>1. \A x \in Elements(c) : x.do \in Parts
    <3>1. \A x \in Elements(NodeCerts(o, n)) : x.do \in Parts
      BY PieceTasks
    <3>2. \A x \in Elements(b) : x.do \in Parts
      BY <1>1, <1>2, PieceTasks
    <3>3. QED
      BY <1>3, <3>1, <3>2
  <2>2. \A x \in Elements(NewUser(o, n)) : x.do \in NodeTasks /\ x.thing # Admin
    BY PieceTasks
  <2>3. /\ NewUser(o, n) \in Seq(Tasks) /\ Ordered(NewUser(o, n))
        /\ Elements(NewUser(o, n)) = UserTasks(o, n)
    BY OrgPieces
  <2>4. QED
    BY <1>3, <2>1, <2>2, <2>3, JoinParts
<1>5. ExtendOrg(o, n) = c \o NewUser(o, n)
  BY DEF ExtendOrg, a, b, c
<1>6. QED
  BY <1>2, <1>3, <1>4, <1>5, OrgPieces DEF ExtendOrgTasks

LEMMA NewOrgTasksOf ==
  ASSUME NEW n \in Readings, NEW o \in Orgs
  PROVE  /\ NewOrg(o, n) \in Seq(Tasks) /\ Ordered(NewOrg(o, n))
         /\ Elements(NewOrg(o, n)) = NewOrgTasks(o, n)
<1> DEFINE t == Task("new ca", o, CA)
           u == Task("new msp", o, MSP)
           v == Task("new member", o, Admin)
           a == <<t, u>>
           b == a \o NewNodes(o, n)
           c == b \o NewUser(o, n)
           d == c \o <<v>>
           e == d \o MSPCert(o)
<1>1. t \in Tasks /\ u \in Tasks /\ v \in Tasks
  BY TaskTypes, ThingsDiffer DEF Parts
<1>2. /\ t.do = "new ca" /\ u.do = "new msp" /\ v.do = "new member"
      /\ t.do \in Parts /\ u.do \in Parts /\ v.do \in Parts /\ v.do \in NodeTasks
      /\ t.do # "copy cert" /\ u.do # "copy cert" /\ v.do # "copy cert"
  BY DEF Task, Parts, NodeTasks
<1>3. a \in Seq(Tasks) /\ Ordered(a) /\ Elements(a) = {t, u}
  <2>1. MayPrecede(t, u)
    BY DEF MayPrecede, Task, OrgTasks, WholeOrgTasks, Parts
  <2>2. QED
    BY <1>1, <2>1, TwoTasks
<1>4. <<v>> \in Seq(Tasks) /\ Ordered(<<v>>) /\ Elements(<<v>>) = {v}
  BY <1>1, OneTask
<1> HIDE DEF a, t, u, v
<1>4a. /\ NewNodes(o, n) \in Seq(Tasks) /\ Ordered(NewNodes(o, n))
       /\ NewUser(o, n) \in Seq(Tasks) /\ Ordered(NewUser(o, n))
       /\ MSPCert(o) \in Seq(Tasks) /\ Ordered(MSPCert(o))
       /\ Elements(MSPCert(o)) = MSPCertTasks(o)
       /\ NodeCerts(o, n) \in Seq(Tasks) /\ Ordered(NodeCerts(o, n))
       /\ Elements(NodeCerts(o, n)) = NodesCertTasks(o, n)
  BY OrgPieces
<1>5. /\ b \in Seq(Tasks) /\ Ordered(b)
      /\ Elements(b) = {t, u} \cup Elements(NewNodes(o, n))
  <2>1. /\ \A x \in Elements(a) : x.do \in Parts /\ x.do # "copy cert"
        /\ \A x \in Elements(NewNodes(o, n)) : x.do \in NodeTasks
    BY <1>2, <1>3, PieceTasks
  <2>2. QED
    BY <1>3, <2>1, <1>4a, JoinParts
<1> HIDE DEF b
<1>6. /\ c \in Seq(Tasks) /\ Ordered(c)
      /\ Elements(c) = Elements(b) \cup Elements(NewUser(o, n))
      /\ \A x \in Elements(c) : x.do \in Parts /\ x.do # "copy cert"
  <2>1. \A x \in Elements(b) : x.do \in Parts /\ x.do # "copy cert"
    BY <1>2, <1>5, PieceTasks
  <2>2. \A x \in Elements(NewUser(o, n)) :
           x.do \in NodeTasks /\ x.do \in Parts /\ x.do # "copy cert"
    BY PieceTasks
  <2>3. /\ c \in Seq(Tasks) /\ Ordered(c)
        /\ Elements(c) = Elements(b) \cup Elements(NewUser(o, n))
    BY <1>4a, <1>5, <2>1, <2>2, JoinParts
  <2>4. QED
    BY <2>1, <2>2, <2>3
<1> HIDE DEF c
<1>7. /\ d \in Seq(Tasks) /\ Ordered(d)
      /\ Elements(d) = Elements(c) \cup {v}
      /\ \A x \in Elements(d) : x.do \in Parts /\ x.do # "copy cert"
  BY <1>2, <1>4, <1>6, JoinParts
<1> HIDE DEF d
<1>8. /\ e \in Seq(Tasks) /\ Ordered(e)
      /\ Elements(e) = Elements(d) \cup MSPCertTasks(o)
      /\ \A x \in Elements(e) : x.do \in Parts
  <2>1. \A x \in Elements(MSPCert(o)) : x.do \in NodeTasks /\ x.do \in Parts
    BY PieceTasks
  <2>2. QED
    <3>1. /\ e \in Seq(Tasks) /\ Ordered(e)
          /\ Elements(e) = Elements(d) \cup Elements(MSPCert(o))
      BY <1>4a, <1>7, <2>1, JoinParts
    <3>2. QED
      BY <1>4a, <1>7, <2>1, <3>1
<1> HIDE DEF e
<1>9. /\ e \o NodeCerts(o, n) \in Seq(Tasks) /\ Ordered(e \o NodeCerts(o, n))
      /\ Elements(e \o NodeCerts(o, n)) = Elements(e) \cup NodesCertTasks(o, n)
  <2>1. \A x \in Elements(NodeCerts(o, n)) : x.do \in NodeTasks /\ x.thing # Admin
    BY PieceTasks
  <2>2. QED
    <3>1. /\ e \o NodeCerts(o, n) \in Seq(Tasks) /\ Ordered(e \o NodeCerts(o, n))
          /\ Elements(e \o NodeCerts(o, n)) = Elements(e) \cup Elements(NodeCerts(o, n))
      BY <1>4a, <1>8, <2>1, JoinParts
    <3>2. QED
      BY <1>4a, <3>1
<1>10. NewOrg(o, n) = e \o NodeCerts(o, n)
  BY DEF NewOrg, a, b, c, d, e, t, u, v
<1>11. QED
  <2>1. Elements(NewOrg(o, n)) = NewOrgTasks(o, n)
    BY <1>5, <1>6, <1>7, <1>8, <1>9, <1>10, OrgPieces DEF NewOrgTasks, t, u, v
  <2>2. QED
    BY <1>9, <1>10, <2>1

\* The lists that a command begins with.
CryptoDos == {"clear crypto", "generate", "keys", "clear artifacts", "block", "system"}
RenderDos == {"render spec", "render tx"}
LaterDos == {"generate", "keys", "clear artifacts", "block", "system"}

LEMMA DoTasks ==
  ASSUME NEW do \in CryptoDos \cup RenderDos \cup {"extend", "zip"}
  PROVE  Do(do) \in Tasks /\ Do(do).do = do
<1>1. Orderer \in Orgs
  BY NaturalBounds DEF Orgs, Orderer
<1>2. QED
  BY <1>1, ThingsDiffer DEF Do, Task, Tasks, CryptoDos, RenderDos

LEMMA SixTasks ==
  ASSUME NEW a \in Tasks, NEW b \in Tasks, NEW c \in Tasks,
         NEW d \in Tasks, NEW e \in Tasks, NEW f \in Tasks
  PROVE  <<a, b, c, d, e, f>> \in Seq(Tasks) /\ <<a, b, c, d, e, f>> # <<>>
OBVIOUS

LEMMA CryptoList ==
  /\ CryptoTasks \in Seq(Tasks) /\ CryptoTasks # <<>> /\ Ordered(CryptoTasks)
  /\ Elements(CryptoTasks) = {Do(do) : do \in CryptoDos}
<1> DEFINE s == CryptoTasks
<1>1. /\ DOMAIN s = 1..6
      /\ s[1] = Do("clear crypto") /\ s[2] = Do("generate") /\ s[3] = Do("keys")
      /\ s[4] = Do("clear artifacts") /\ s[5] = Do("block") /\ s[6] = Do("system")
  BY DEF CryptoTasks
<1>2. \A do \in CryptoDos : Do(do) \in Tasks /\ Do(do).do = do
  BY DoTasks
<1>3. s \in Seq(Tasks) /\ s # <<>>
  <2>1. /\ Do("clear crypto") \in Tasks /\ Do("generate") \in Tasks /\ Do("keys") \in Tasks
        /\ Do("clear artifacts") \in Tasks /\ Do("block") \in Tasks /\ Do("system") \in Tasks
    BY <1>2 DEF CryptoDos
  <2>2. QED
    BY <2>1, SixTasks DEF CryptoTasks
<1> HIDE DEF s
<1>4. Elements(s) = {Do(do) : do \in CryptoDos}
  <2>1. ASSUME NEW i \in 1..6
        PROVE  s[i] \in {Do(do) : do \in CryptoDos}
    <3>1. i = 1 \/ i = 2 \/ i = 3 \/ i = 4 \/ i = 5 \/ i = 6
      BY <2>1
    <3>2. \A j : j = 1 \/ j = 2 \/ j = 3 \/ j = 4 \/ j = 5 \/ j = 6
                  => \E do \in CryptoDos : s[j] = Do(do)
      BY <1>1, Zenon DEF CryptoDos
    <3>3. QED
      BY <3>1, <3>2
  <2>2. ASSUME NEW do \in CryptoDos
        PROVE  \E i \in 1..6 : s[i] = Do(do)
    <3>1. \/ s[1] = Do(do) \/ s[2] = Do(do) \/ s[3] = Do(do)
          \/ s[4] = Do(do) \/ s[5] = Do(do) \/ s[6] = Do(do)
      BY <1>1, Zenon DEF CryptoDos
    <3>2. QED
      BY <3>1
  <2>3. QED
    BY <1>1, <2>1, <2>2 DEF Elements
<1>5. ASSUME NEW i \in 1..6
      PROVE  Stage(s[i].do) = i + 2
  <2>1. /\ s[1].do = "clear crypto" /\ s[2].do = "generate" /\ s[3].do = "keys"
        /\ s[4].do = "clear artifacts" /\ s[5].do = "block" /\ s[6].do = "system"
    BY <1>1, <1>2 DEF CryptoDos
  <2>2. /\ Stage("clear crypto") = 3 /\ Stage("generate") = 4 /\ Stage("keys") = 5
        /\ Stage("clear artifacts") = 6 /\ Stage("block") = 7 /\ Stage("system") = 8
    BY DEF Stage, OrgTasks, WholeOrgTasks, Parts
  <2>3. /\ Stage(s[1].do) = 3 /\ Stage(s[2].do) = 4 /\ Stage(s[3].do) = 5
        /\ Stage(s[4].do) = 6 /\ Stage(s[5].do) = 7 /\ Stage(s[6].do) = 8
    BY <2>1, <2>2, Zenon
  <2>4. QED
    BY <2>3
<1>6. Ordered(s)
  <2>1. ASSUME NEW i \in 1..6, NEW j \in 1..6, i < j
        PROVE  MayPrecede(s[i], s[j])
    <3>1. Stage(s[i].do) < Stage(s[j].do)
      BY <1>5, <2>1
    <3>2. QED
      BY <3>1 DEF MayPrecede
  <2>2. QED
    BY <1>1, <2>1 DEF Ordered
<1>7. QED
  BY <1>3, <1>4, <1>6 DEF s

LEMMA RenderList ==
  /\ RenderTasks \in Seq(Tasks) /\ RenderTasks # <<>> /\ Ordered(RenderTasks)
  /\ Elements(RenderTasks) = {Do(do) : do \in RenderDos}
<1> DEFINE a == Do("render spec")
           b == Do("render tx")
<1>1. a \in Tasks /\ b \in Tasks /\ a.do = "render spec" /\ b.do = "render tx"
  BY DoTasks DEF RenderDos
<1> HIDE DEF a, b
<1>2. MayPrecede(a, b)
  <2>1. Stage("render spec") = 1 /\ Stage("render tx") = 2
    BY DEF Stage
  <2>2. Stage(a.do) = 1 /\ Stage(b.do) = 2
    BY <1>1, <2>1, Zenon
  <2>3. Stage(a.do) < Stage(b.do)
    BY <2>2
  <2>4. QED
    BY <2>3 DEF MayPrecede
<1>3. RenderTasks = <<a, b>> /\ RenderTasks # <<>>
  BY DEF RenderTasks, a, b
<1>4. {Do(do) : do \in RenderDos} = {a, b}
  BY DEF RenderDos, a, b
<1>5. QED
  BY <1>1, <1>2, <1>3, <1>4, TwoTasks

\* Joining two lists of tasks of which the first are all of an earlier stage.
LEMMA JoinStages ==
  ASSUME NEW s \in Seq(Tasks), Ordered(s), NEW t \in Seq(Tasks), Ordered(t), t # <<>>,
         \A a \in Elements(s), b \in Elements(t) : Stage(a.do) < Stage(b.do)
  PROVE  /\ s \o t \in Seq(Tasks) /\ s \o t # <<>> /\ Ordered(s \o t)
         /\ Elements(s \o t) = Elements(s) \cup Elements(t)
<1>1. \A a \in Elements(s), b \in Elements(t) : MayPrecede(a, b)
  BY DEF MayPrecede
<1>2. s \o t # <<>>
  BY ConcatProperties, LenProperties, EmptySeq
<1>3. QED
  BY <1>1, <1>2, OrderedConcat, ElementsConcat

LEMMA RenderCryptoList ==
  LET s == RenderTasks \o CryptoTasks IN
  /\ s \in Seq(Tasks) /\ s # <<>> /\ Ordered(s)
  /\ Elements(s) = {Do(do) : do \in RenderDos \cup CryptoDos}
<1>1. /\ \A a \in Elements(RenderTasks) : Stage(a.do) < 3
      /\ \A b \in Elements(CryptoTasks) : Stage(b.do) >= 3
  <2>1. /\ \A do \in RenderDos : Stage(do) < 3 /\ Stage(do) \in Nat
        /\ \A do \in CryptoDos : Stage(do) >= 3 /\ Stage(do) \in Nat
    BY DEF RenderDos, CryptoDos, Stage, OrgTasks, WholeOrgTasks, Parts
  <2>2. QED
    BY <2>1, RenderList, CryptoList, DoTasks
<1>2. \A a \in Elements(RenderTasks), b \in Elements(CryptoTasks) : Stage(a.do) < Stage(b.do)
  <2>1. \A do : Stage(do) \in Nat
    BY DEF Stage
  <2>2. QED
    BY <1>1, <2>1
<1>3. QED
  BY <1>2, RenderList, CryptoList, JoinStages

LEMMA ZipLists ==
  LET s == <<Do("zip")>>
      t == RenderTasks \o CryptoTasks \o <<Do("zip")>>
  IN  /\ s \in Seq(Tasks) /\ s # <<>> /\ Ordered(s) /\ Elements(s) = {Do("zip")}
      /\ t \in Seq(Tasks) /\ t # <<>> /\ Ordered(t)
      /\ Elements(t) = {Do(do) : do \in RenderDos \cup CryptoDos \cup {"zip"}}
<1> DEFINE z == Do("zip")
           r == RenderTasks \o CryptoTasks
<1>1. z \in Tasks /\ z.do = "zip"
  BY DoTasks
<1>2. <<z>> \in Seq(Tasks) /\ <<z>> # <<>> /\ Ordered(<<z>>) /\ Elements(<<z>>) = {z}
  BY <1>1, OneTask
<1>3. \A a \in Elements(r), b \in Elements(<<z>>) : Stage(a.do) < Stage(b.do)
  <2>1. /\ \A do \in RenderDos \cup CryptoDos : Stage(do) < 9
        /\ Stage("zip") = 9
    BY DEF RenderDos, CryptoDos, Stage, OrgTasks, WholeOrgTasks, Parts
  <2>2. ASSUME NEW a \in Elements(r)
        PROVE  Stage(a.do) < 9
    <3>1. PICK do \in RenderDos \cup CryptoDos : a = Do(do)
      BY RenderCryptoList
    <3>2. QED
      BY <2>1, <3>1, DoTasks
  <2>3. QED
    BY <1>1, <1>2, <2>1, <2>2
<1>4. /\ r \o <<z>> \in Seq(Tasks) /\ r \o <<z>> # <<>> /\ Ordered(r \o <<z>>)
      /\ Elements(r \o <<z>>) = Elements(r) \cup {z}
  BY <1>2, <1>3, RenderCryptoList, JoinStages
<1>5. QED
  BY <1>2, <1>4, RenderCryptoList

LEMMA ExtendList ==
  LET s == <<Do("extend"), Do("keys")>> IN
  /\ s \in Seq(Tasks) /\ s # <<>> /\ Ordered(s)
  /\ Elements(s) = {Do("extend"), Do("keys")}
<1>1. /\ Do("extend") \in Tasks /\ Do("keys") \in Tasks
      /\ Do("extend").do = "extend" /\ Do("keys").do = "keys"
  BY DoTasks DEF CryptoDos
<1>2. MayPrecede(Do("extend"), Do("keys"))
  <2>1. Stage("extend") = 4 /\ Stage("keys") = 5
    BY DEF Stage, OrgTasks, WholeOrgTasks, Parts
  <2>2. Stage(Do("extend").do) < Stage(Do("keys").do)
    BY <1>1, <2>1
  <2>3. QED
    BY <2>2 DEF MayPrecede
<1>3. QED
  BY <1>1, <1>2, TwoTasks

-----------------------------------------------------------------------------
(* The types.                                                               *)

Types ==
  /\ TypeOK
  /\ todo # <<>> => number >= 1
  /\ \A t \in Elements(todo) : t.do \in OrgTasks => spec \in Readings

\* How a step changes the list of tasks.
Rest == todo # <<>> /\ todo' = Tail(todo)
Ends == todo # <<>> /\ todo' = <<>>
Expands ==
  /\ todo # <<>>
  /\ \/ /\ Is("generate") /\ spec \in Readings
        /\ todo' = ForEachOrg("new org", spec) \o Tail(todo)
     \/ /\ Is("extend") /\ spec \in Readings
        /\ todo' = ForEachOrg("extend org", spec) \o Tail(todo)
     \/ /\ Is("new org") /\ todo' = NewOrg(org, spec) \o Tail(todo)
     \/ /\ Is("extend org") /\ OrgExists(org)
        /\ todo' = ExtendOrg(org, spec) \o Tail(todo)
     \/ /\ Is("extend org") /\ ~OrgExists(org)
        /\ todo' = NewOrg(org, spec) \o Tail(todo)

\* What a step does to the variables about the command itself.
Proceeds ==
  /\ status' = (IF todo' = <<>> THEN "ok" ELSE "running")
  /\ made' = (IF todo' = <<>> /\ cmd = "generate" THEN "made" ELSE made)
  /\ UNCHANGED <<cmd, forced, number, cuts>>
Fails ==
  /\ status' = "failed" /\ todo' = <<>>
  /\ made' = (IF made = "made" THEN "cut" ELSE made)
  /\ UNCHANGED <<cmd, forced, number>>

\* A task takes its place off the list, puts other tasks in its place, or is the last
\* that the command does.
LEMMA TaskSteps ==
  /\ DoTask => ((Rest \/ Expands) /\ Proceeds) \/ (Ends /\ Fails /\ UNCHANGED cuts)
  /\ CutShort => Ends /\ Fails /\ cuts < MaxCuts /\ cuts' = cuts + 1
<1> USE DEF Proceeds, Fails, Rest, Expands, Ends, Is
<1>1. ASSUME DoTask
      PROVE  ((Rest \/ Expands) /\ Proceeds) \/ (Ends /\ Fails /\ UNCHANGED cuts)
  <2>1. CASE RenderSpec
    BY <2>1 DEF RenderSpec, Proceed, Continue
  <2>2. CASE RenderTx
    BY <2>2 DEF RenderTx, Proceed, Continue
  <2>3. CASE ClearCrypto
    BY <2>3 DEF ClearCrypto, Proceed, Continue
  <2>4. CASE GenerateAll
    BY <2>4 DEF GenerateAll, ReadSpec, Proceed, Continue, Refused
  <2>5. CASE ExtendAll
    BY <2>5 DEF ExtendAll, ReadSpec, Proceed, Continue, Refused
  <2>6. CASE StartOrg
    BY <2>6 DEF StartOrg, Continue
  <2>7. CASE ExtendStartedOrg
    BY <2>7 DEF ExtendStartedOrg, Continue
  <2>8. CASE NewCA
    BY <2>8 DEF NewCA, Proceed, Continue
  <2>9. CASE LoadCA
    BY <2>9 DEF LoadCA, Proceed, Continue, Refused
  <2>10. CASE NewMSP
    BY <2>10 DEF NewMSP, Proceed, Continue
  <2>11. CASE NewMember
    BY <2>11 DEF NewMember, Proceed, Continue, Refused
  <2>12. CASE CopyCert
    BY <2>12 DEF CopyCert, Proceed, Continue, Refused
  <2>13. CASE Keys
    BY <2>13 DEF Keys, Proceed, Continue, Refused
  <2>14. CASE ClearArtifacts
    BY <2>14 DEF ClearArtifacts, Proceed, Continue
  <2>15. CASE Block
    BY <2>15 DEF Block, WriteArtifact, Proceed, Continue, Refused
  <2>16. CASE System
    BY <2>16 DEF System, WriteArtifact, Proceed, Continue, Refused
  <2>17. CASE Zip
    BY <2>17 DEF Zip, Proceed, Continue, Refused
  <2>18. QED
    BY <1>1, <2>1, <2>2, <2>3, <2>4, <2>5, <2>6, <2>7, <2>8, <2>9, <2>10, <2>11, <2>12,
       <2>13, <2>14, <2>15, <2>16, <2>17 DEF DoTask
<1>2. ASSUME CutShort
      PROVE  Ends /\ Fails /\ cuts < MaxCuts /\ cuts' = cuts + 1
  BY <1>2 DEF CutShort, CutBetween, CutRender, CutClearCrypto, CutCA, CutMember, CutCopy,
              CutArtifacts, Stop
<1>3. QED
  BY <1>1, <1>2

\* How a command begins.
Lists ==
  {RenderTasks, CryptoTasks, RenderTasks \o CryptoTasks,
   RenderTasks \o CryptoTasks \o <<Do("zip")>>, <<Do("zip")>>, <<Do("extend"), Do("keys")>>}

LEMMA CommandSteps ==
  ASSUME Command
  PROVE  \E c \in {"template", "generate", "extend", "ship"}, force \in BOOLEAN, l \in Lists :
           /\ Begin(c, force, l)
           /\ \/ c = "template" /\ l = RenderTasks
              \/ /\ c = "generate" /\ (force \/ ~crypto)
                 /\ \/ l = CryptoTasks \/ l = RenderTasks \o CryptoTasks
                    \/ l = RenderTasks \o CryptoTasks \o <<Do("zip")>>
              \/ c = "extend" /\ l = <<Do("extend"), Do("keys")>> /\ crypto
              \/ c = "ship" /\ l = <<Do("zip")>>
<1>1. CASE Extend
  BY <1>1 DEF Extend, Lists
<1>2. ASSUME NEW force \in BOOLEAN, Template(force)
      PROVE  Begin("template", FALSE, RenderTasks)
  BY <1>2 DEF Template
<1>3. ASSUME NEW force \in BOOLEAN, AnsibleVars(force)
      PROVE  \/ Begin("ship", force, <<Do("zip")>>)
             \/ /\ Begin("generate", force, RenderTasks \o CryptoTasks \o <<Do("zip")>>)
                /\ force \/ ~crypto
  BY <1>3 DEF AnsibleVars
<1>4. ASSUME NEW force \in BOOLEAN, NEW template \in BOOLEAN, Generate(force, template)
      PROVE  /\ force \/ ~crypto
             /\ \/ Begin("generate", force, CryptoTasks)
                \/ Begin("generate", force, RenderTasks \o CryptoTasks)
  BY <1>4 DEF Generate, NothingGenerated
<1>5. QED
  BY <1>1, <1>2, <1>3, <1>4 DEF Command, Lists

\* Every list is ordered and of proper tasks.
LEMMA ListsType ==
  ASSUME NEW l \in Lists
  PROVE  /\ l \in Seq(Tasks) /\ l # <<>> /\ Ordered(l)
         /\ \A t \in Elements(l) : t.do \notin OrgTasks
<1>1. l \in Seq(Tasks) /\ l # <<>> /\ Ordered(l)
  BY RenderList, CryptoList, RenderCryptoList, ZipLists, ExtendList DEF Lists
<1>2. Elements(l) \subseteq
        {Do(do) : do \in RenderDos \cup CryptoDos \cup {"extend", "zip"}}
  <2>1. "keys" \in CryptoDos
    BY DEF CryptoDos
  <2>2. CASE l = RenderTasks
    BY <2>2, RenderList
  <2>3. CASE l = CryptoTasks
    BY <2>3, CryptoList
  <2>4. CASE l = RenderTasks \o CryptoTasks
    BY <2>4, RenderCryptoList
  <2>5. CASE l = RenderTasks \o CryptoTasks \o <<Do("zip")>>
    BY <2>5, ZipLists
  <2>6. CASE l = <<Do("zip")>>
    BY <2>6, ZipLists
  <2>7. CASE l = <<Do("extend"), Do("keys")>>
    BY <2>1, <2>7, ExtendList
  <2>8. QED
    BY <2>2, <2>3, <2>4, <2>5, <2>6, <2>7 DEF Lists
<1>3. \A do \in RenderDos \cup CryptoDos \cup {"extend", "zip"} :
        Do(do).do = do /\ do \notin OrgTasks
  BY DoTasks DEF RenderDos, CryptoDos, OrgTasks, WholeOrgTasks, Parts
<1>4. QED
  BY <1>1, <1>2, <1>3

\* What is put in the place of a task.
LEMMA ExpandsTo ==
  ASSUME Types, Expands
  PROVE  /\ spec \in Readings /\ Head(todo) \in Tasks
         /\ \E l \in Seq(Tasks) :
              /\ Ordered(l)
              /\ todo' = l \o Tail(todo)
              /\ \/ /\ Head(todo).do = "generate"
                    /\ Elements(l) = {Task("new org", o, CA) : o \in OrgsOf(spec)}
                 \/ /\ Head(todo).do = "extend"
                    /\ Elements(l) = {Task("extend org", o, CA) : o \in OrgsOf(spec)}
                 \/ /\ Head(todo).do = "new org"
                    /\ Elements(l) = NewOrgTasks(org, spec)
                 \/ /\ Head(todo).do = "extend org" /\ OrgExists(org)
                    /\ Elements(l) = ExtendOrgTasks(org, spec)
                 \/ /\ Head(todo).do = "extend org" /\ ~OrgExists(org)
                    /\ Elements(l) = NewOrgTasks(org, spec)
<1>1. todo \in Seq(Tasks) /\ todo # <<>>
  BY DEF Types, TypeOK, Expands
<1>2. Head(todo) \in Elements(todo) /\ Head(todo) \in Tasks /\ org \in Orgs
  <2>1. Head(todo) \in Elements(todo) /\ Head(todo) \in Tasks
    BY <1>1, ElementsTail
  <2>2. QED
    BY <2>1 DEF Tasks, org
<1>3. Head(todo).do \in WholeOrgTasks => spec \in Readings
  BY <1>2 DEF Types, OrgTasks
<1>4. ASSUME Is("generate"), spec \in Readings,
             todo' = ForEachOrg("new org", spec) \o Tail(todo)
      PROVE  \E l \in Seq(Tasks) :
               /\ Ordered(l) /\ todo' = l \o Tail(todo)
               /\ Elements(l) = {Task("new org", o, CA) : o \in OrgsOf(spec)}
  <2>1. "new org" \in WholeOrgTasks
    BY DEF WholeOrgTasks
  <2>2. QED
    BY <1>4, <2>1, ForEachOrgTasks
<1>5. ASSUME Is("extend"), spec \in Readings,
             todo' = ForEachOrg("extend org", spec) \o Tail(todo)
      PROVE  \E l \in Seq(Tasks) :
               /\ Ordered(l) /\ todo' = l \o Tail(todo)
               /\ Elements(l) = {Task("extend org", o, CA) : o \in OrgsOf(spec)}
  <2>1. "extend org" \in WholeOrgTasks
    BY DEF WholeOrgTasks
  <2>2. QED
    BY <1>5, <2>1, ForEachOrgTasks
<1>6. ASSUME spec \in Readings, todo' = NewOrg(org, spec) \o Tail(todo)
      PROVE  \E l \in Seq(Tasks) :
               /\ Ordered(l) /\ todo' = l \o Tail(todo)
               /\ Elements(l) = NewOrgTasks(org, spec)
  BY <1>2, <1>6, NewOrgTasksOf
<1>7. ASSUME spec \in Readings, todo' = ExtendOrg(org, spec) \o Tail(todo)
      PROVE  \E l \in Seq(Tasks) :
               /\ Ordered(l) /\ todo' = l \o Tail(todo)
               /\ Elements(l) = ExtendOrgTasks(org, spec)
  BY <1>2, <1>7, ExtendOrgTasksOf
<1>8. /\ Is("new org") => spec \in Readings
      /\ Is("extend org") => spec \in Readings
  BY <1>3 DEF Is, WholeOrgTasks
<1>9. spec \in Readings
  BY <1>8 DEF Expands
<1>10. CASE Is("generate") /\ todo' = ForEachOrg("new org", spec) \o Tail(todo)
  BY <1>2, <1>4, <1>9, <1>10 DEF Is
<1>11. CASE Is("extend") /\ todo' = ForEachOrg("extend org", spec) \o Tail(todo)
  BY <1>2, <1>5, <1>9, <1>11 DEF Is
<1>12. CASE Is("new org") /\ todo' = NewOrg(org, spec) \o Tail(todo)
  BY <1>2, <1>6, <1>9, <1>12 DEF Is
<1>13. CASE Is("extend org") /\ OrgExists(org) /\ todo' = ExtendOrg(org, spec) \o Tail(todo)
  BY <1>2, <1>7, <1>9, <1>13 DEF Is
<1>14. CASE Is("extend org") /\ ~OrgExists(org) /\ todo' = NewOrg(org, spec) \o Tail(todo)
  BY <1>2, <1>6, <1>9, <1>14 DEF Is
<1>15. QED
  BY <1>10, <1>11, <1>12, <1>13, <1>14 DEF Expands

\* The tasks left after a step are those left before, without the one that it did.
LEMMA ElementsAfter ==
  ASSUME todo \in Seq(Tasks), todo # <<>>
  PROVE  /\ Head(todo) \in Tasks /\ Head(todo) \in Elements(todo)
         /\ Tail(todo) \in Seq(Tasks)
         /\ Elements(todo) = {Head(todo)} \cup Elements(Tail(todo))
         /\ Rest => todo' \in Seq(Tasks) /\ Elements(todo') = Elements(Tail(todo))
         /\ Ends => todo' \in Seq(Tasks) /\ Elements(todo') = {}
         /\ \A l \in Seq(Tasks) : todo' = l \o Tail(todo) =>
              todo' \in Seq(Tasks) /\ Elements(todo') = Elements(l) \cup Elements(Tail(todo))
<1>1. /\ Head(todo) \in Tasks /\ Tail(todo) \in Seq(Tasks)
      /\ Elements(todo) = {Head(todo)} \cup Elements(Tail(todo))
  BY ElementsTail
<1>2. ASSUME NEW l \in Seq(Tasks), todo' = l \o Tail(todo)
      PROVE  todo' \in Seq(Tasks) /\ Elements(todo') = Elements(l) \cup Elements(Tail(todo))
  <2>1. /\ l \o Tail(todo) \in Seq(Tasks)
        /\ Elements(l \o Tail(todo)) = Elements(l) \cup Elements(Tail(todo))
    BY <1>1, TasksConcat
  <2>2. QED
    BY <1>2, <2>1
<1>3. Ends => todo' \in Seq(Tasks) /\ Elements(todo') = {}
  BY ElementsEmpty, EmptySeq DEF Ends
<1>4. QED
  BY <1>1, <1>2, <1>3 DEF Rest

\* The types of what a step does to the command's own variables.
LEMMA CommandTypes ==
  ASSUME Types, [Next]_vars
  PROVE  (/\ cmd \in {"template", "generate", "extend", "ship"} /\ forced \in BOOLEAN
          /\ todo \in Seq(Tasks)
          /\ status \in {"idle", "running", "ok", "failed"}
          /\ status = "running" <=> todo # <<>>
          /\ number \in 0..MaxCommands /\ cuts \in 0..MaxCuts
          /\ made \in {"none", "made", "cut"}
          /\ todo # <<>> => number >= 1)'
<1>1. CASE UNCHANGED vars
  BY <1>1 DEF Types, TypeOK, vars, run
<1>2. CASE Command
  <2>1. PICK c \in {"template", "generate", "extend", "ship"}, force \in BOOLEAN, l \in Lists :
          Begin(c, force, l)
    BY <1>2, CommandSteps
  <2>2. l \in Seq(Tasks) /\ l # <<>>
    BY ListsType
  <2>3. /\ cmd' \in {"template", "generate", "extend", "ship"} /\ forced' \in BOOLEAN
        /\ todo' \in Seq(Tasks) /\ todo' # <<>>
        /\ status' = "running" /\ status' \in {"idle", "running", "ok", "failed"}
        /\ made' \in {"none", "made", "cut"}
    BY <2>1, <2>2 DEF Begin, Types, TypeOK
  <2>4. number' \in 0..MaxCommands /\ number' >= 1 /\ cuts' \in 0..MaxCuts
    BY <2>1, NaturalBounds DEF Begin, Types, TypeOK
  <2>5. QED
    BY <2>3, <2>4
<1>3. CASE DoTask \/ CutShort
  <2>1. /\ todo # <<>>
        /\ \/ (Rest \/ Expands) /\ Proceeds
           \/ Ends /\ Fails
        /\ cuts' = cuts \/ (cuts < MaxCuts /\ cuts' = cuts + 1)
    <3>1. CASE DoTask
      BY <3>1, TaskSteps DEF Rest, Expands, Ends, Proceeds
    <3>2. CASE CutShort
      BY <3>2, TaskSteps DEF Ends
    <3>3. QED
      BY <1>3, <3>1, <3>2
  <2>2. todo' \in Seq(Tasks)
    <3>1. todo \in Seq(Tasks)
      BY DEF Types, TypeOK
    <3>2. CASE Rest \/ Ends
      BY <2>1, <3>1, <3>2, ElementsAfter
    <3>3. CASE Expands
      BY <2>1, <3>1, <3>3, ExpandsTo, ElementsAfter
    <3>4. QED
      BY <2>1, <3>2, <3>3
  <2>3. /\ cmd' \in {"template", "generate", "extend", "ship"} /\ forced' \in BOOLEAN
        /\ status' \in {"idle", "running", "ok", "failed"}
        /\ status' = "running" <=> todo' # <<>>
        /\ made' \in {"none", "made", "cut"}
    BY <2>1 DEF Proceeds, Fails, Types, TypeOK
  <2>4. number' \in 0..MaxCommands /\ number' = number /\ number >= 1
    BY <2>1 DEF Proceeds, Fails, Types, TypeOK
  <2>5. cuts' \in 0..MaxCuts
    <3>1. cuts' = cuts \/ (cuts < MaxCuts /\ cuts' = cuts + 1)
      BY <2>1
    <3>2. cuts \in 0..MaxCuts /\ MaxCuts \in Nat
      BY NaturalBounds DEF Types, TypeOK
    <3>3. QED
      BY <3>1, <3>2
  <2>6. QED
    BY <2>2, <2>3, <2>4, <2>5
<1>4. QED
  BY <1>1, <1>2, <1>3 DEF Next

LEMMA PutType ==
  ASSUME tree \in [Orgs -> [Things -> Copies]], NEW o \in Orgs, NEW x \in Things,
         NEW copy \in Copies, Put(o, x, copy)
  PROVE  /\ tree' \in [Orgs -> [Things -> Copies]]
         /\ \A q \in Orgs, y \in Things :
              tree'[q][y] = IF q = o /\ y = x THEN copy ELSE tree[q][y]
BY DEF Put

LEMMA CopiesStates ==
  /\ None \in Copies /\ Short \in Copies
  /\ \A k \in 1..MaxCommands : Whole(k) \in Copies /\ Whole(k).state = "whole"
  /\ \A c \in Copies : c.state \in {"none", "short", "whole"} /\ c.ca \in 0..MaxCommands
  /\ \A c \in Copies : (c.state = "none" <=> c = None) /\ (c.state = "short" <=> c = Short)
  /\ \A k : Whole(k) # None /\ Whole(k) # Short /\ Whole(k).ca = k
<1>1. ASSUME NEW k
      PROVE  /\ Whole(k) # None /\ Whole(k) # Short /\ Whole(k).ca = k
             /\ Whole(k).state = "whole"
  BY DEF Whole, None, Short
<1>2. ASSUME NEW c \in Copies
      PROVE  /\ c.state \in {"none", "short", "whole"}
             /\ c.state = "none" <=> c = None
             /\ c.state = "short" <=> c = Short
  BY <1>1 DEF Copies, None, Short
<1>3. ASSUME NEW c \in Copies
      PROVE  c.ca \in 0..MaxCommands
  <2>1. CASE c \in {None, Short}
    BY <2>1, NaturalBounds DEF None, Short
  <2>2. CASE \E k \in 1..MaxCommands : c = Whole(k)
    BY <1>1, <2>2, NaturalBounds
  <2>3. QED
    BY <2>1, <2>2 DEF Copies
<1>4. None \in Copies /\ Short \in Copies /\ \A k \in 1..MaxCommands : Whole(k) \in Copies
  BY DEF Copies
<1>5. QED
  BY <1>1, <1>2, <1>3, <1>4

LEMMA CertsTypes ==
  ASSUME Types, [Next]_vars
  PROVE  (/\ spec \in Readings \cup {NoFile, Unreadable}
          /\ tx \in Readings \cup {NoFile, Unreadable}
          /\ crypto \in BOOLEAN
          /\ tree \in [Orgs -> [Things -> Copies]]
          /\ admincert \in [Orgs -> [Places -> {"none", "short", "whole"}]])'
<1> USE DEF Types, TypeOK, files, certs
<1> DEFINE Goal == (/\ spec \in Readings \cup {NoFile, Unreadable}
                    /\ tx \in Readings \cup {NoFile, Unreadable}
                    /\ crypto \in BOOLEAN
                    /\ tree \in [Orgs -> [Things -> Copies]]
                    /\ admincert \in [Orgs -> [Places -> {"none", "short", "whole"}]])'
<1>1. CASE UNCHANGED <<files, certs>>
  BY <1>1
<1>2. ASSUME todo # <<>>
      PROVE  org \in Orgs /\ thing \in Things /\ number \in 1..MaxCommands
  <2>1. Head(todo) \in Tasks
    BY <1>2, ElementsTail
  <2>2. org \in Orgs /\ thing \in Things
    BY <2>1 DEF Tasks, org, thing
  <2>3. number \in 1..MaxCommands
    BY <1>2, NaturalBounds
  <2>4. QED
    BY <2>2, <2>3
<1>3. CASE RenderSpec
  BY <1>3, NetworksAreReadings DEF RenderSpec
<1>4. CASE RenderTx
  BY <1>4 DEF RenderTx
<1>5. CASE ClearCrypto
  <2>1. None \in Copies
    BY DEF Copies
  <2>2. QED
    BY <1>5, <2>1 DEF ClearCrypto
<1>6. CASE NewCA
  <2>1. Put(org, CA, Whole(number)) /\ todo # <<>>
    BY <1>6 DEF NewCA, Is
  <2>2. tree' \in [Orgs -> [Things -> Copies]]
    BY <1>2, <2>1, PutType, CopiesStates, ThingsDiffer
  <2>3. QED
    BY <1>6, <2>2 DEF NewCA
<1>7. CASE NewMSP
  <2>1. Put(org, MSP, tree[org][CA]) /\ todo # <<>>
    BY <1>7 DEF NewMSP, Is
  <2>2. org \in Orgs /\ tree[org][CA] \in Copies /\ MSP \in Things
    BY <1>2, <2>1, ThingsDiffer
  <2>3. tree' \in [Orgs -> [Things -> Copies]]
    BY <2>1, <2>2, PutType
  <2>4. QED
    BY <1>7, <2>3 DEF NewMSP
<1>8. CASE NewMember
  <2>1. \/ UNCHANGED tree
        \/ Put(org, thing, tree[org][CA]) \/ Put(org, thing, Short)
    BY <1>8 DEF NewMember
  <2>2. org \in Orgs /\ tree[org][CA] \in Copies /\ thing \in Things /\ Short \in Copies
    <3>1. todo # <<>>
      BY <1>8 DEF NewMember, Is
    <3>2. Short \in Copies
      BY DEF Copies
    <3>3. QED
      BY <1>2, <3>1, <3>2, ThingsDiffer
  <2>3. tree' \in [Orgs -> [Things -> Copies]]
    <3>1. CASE UNCHANGED tree
      BY <3>1
    <3>2. CASE Put(org, thing, tree[org][CA])
      BY <2>2, <3>2, PutType
    <3>3. CASE Put(org, thing, Short)
      BY <2>2, <3>3, PutType
    <3>4. QED
      BY <2>1, <3>1, <3>2, <3>3
  <2>4. QED
    BY <1>8, <2>3 DEF NewMember
<1>9. CASE CopyCert
  <2>1. tree[org][Admin] \in Copies
    BY <1>2, <1>9, ThingsDiffer DEF CopyCert, Is
  <2>2. tree[org][Admin].state \in {"none", "short", "whole"}
    BY <2>1, CopiesStates
  <2>3. \/ UNCHANGED admincert
        \/ \E copy \in {"none", "short", "whole"} :
             admincert' = [admincert EXCEPT ![org][thing] = copy]
    BY <1>9, <2>2 DEF CopyCert
  <2>4. admincert' \in [Orgs -> [Places -> {"none", "short", "whole"}]]
    BY <2>3
  <2>5. QED
    BY <1>9, <2>4 DEF CopyCert
<1>10. CASE CutRender
  BY <1>10 DEF CutRender, CutAtLine
<1>11. CASE CutClearCrypto
  <2>1. None \in Copies /\ Short \in Copies
    BY DEF Copies
  <2>2. PICK untouched \in SUBSET Orgs, o \in Orgs :
          \E kept \in SUBSET {x \in Things : tree[o][x] # None},
             half \in {{}} \cup {{x} : x \in {y \in Things : tree[o][y] # None}} :
            LET left(q) == IF q = o THEN kept ELSE IF q \in untouched THEN Things ELSE {} IN
            /\ tree' = [q \in Orgs |-> [x \in Things |->
                          IF q = o /\ x \in half THEN Short
                          ELSE IF x \in left(q) THEN tree[q][x] ELSE None]]
            /\ admincert' = [q \in Orgs |-> [p \in Places |->
                          IF p \in left(q) THEN admincert[q][p] ELSE "none"]]
    BY <1>11 DEF CutClearCrypto
  <2>3. PICK kept \in SUBSET {x \in Things : tree[o][x] # None},
             half \in {{}} \cup {{x} : x \in {y \in Things : tree[o][y] # None}} :
            LET left(q) == IF q = o THEN kept ELSE IF q \in untouched THEN Things ELSE {} IN
            /\ tree' = [q \in Orgs |-> [x \in Things |->
                          IF q = o /\ x \in half THEN Short
                          ELSE IF x \in left(q) THEN tree[q][x] ELSE None]]
            /\ admincert' = [q \in Orgs |-> [p \in Places |->
                          IF p \in left(q) THEN admincert[q][p] ELSE "none"]]
    BY <2>2
  <2>4. tree' \in [Orgs -> [Things -> Copies]]
    BY <2>1, <2>3
  <2>5. admincert' \in [Orgs -> [Places -> {"none", "short", "whole"}]]
    BY <2>3
  <2>6. QED
    BY <1>11, <2>4, <2>5 DEF CutClearCrypto
<1>12. CASE CutCA
  <2>1. Put(org, CA, Short) /\ todo # <<>>
    BY <1>12 DEF CutCA, Is
  <2>2. tree' \in [Orgs -> [Things -> Copies]]
    BY <1>2, <2>1, PutType, CopiesStates, ThingsDiffer
  <2>3. QED
    BY <1>12, <2>2 DEF CutCA
<1>13. CASE CutMember
  <2>1. Put(org, thing, Short) /\ todo # <<>>
    BY <1>13 DEF CutMember, Is
  <2>2. tree' \in [Orgs -> [Things -> Copies]]
    BY <1>2, <2>1, PutType, CopiesStates
  <2>3. QED
    BY <1>13, <2>2 DEF CutMember
<1>14. CASE CutCopy
  BY <1>14 DEF CutCopy
<1>15. CASE ClearArtifacts \/ Block \/ System \/ CutArtifacts
  BY <1>1, <1>15 DEF ClearArtifacts, Block, System, WriteArtifact, CutArtifacts
<1>16. CASE Command
  BY <1>1, <1>16, CommandSteps DEF Begin
<1>17. CASE GenerateAll \/ ExtendAll \/ StartOrg \/ ExtendStartedOrg \/ LoadCA \/ Keys
            \/ Zip \/ CutBetween
  BY <1>1, <1>17 DEF GenerateAll, ExtendAll, ReadSpec, StartOrg, ExtendStartedOrg, LoadCA,
                     Keys, Zip, CutBetween
<1>18. CASE UNCHANGED vars
  BY <1>1, <1>18 DEF vars
<1>19. QED
  BY <1>3, <1>4, <1>5, <1>6, <1>7, <1>8, <1>9, <1>10, <1>11, <1>12, <1>13, <1>14, <1>15,
     <1>16, <1>17, <1>18 DEF Next, DoTask, CutShort

LEMMA ArtifactTypes ==
  ASSUME Types, [Next]_vars
  PROVE  (artifacts \in [dir : BOOLEAN, block : Artifact, system : Artifact])'
<1> DEFINE A == [dir : BOOLEAN, block : Artifact, system : Artifact]
<1>1. artifacts \in A
  BY DEF Types, TypeOK
<1>2. /\ NoArtifact \in Artifact /\ ShortArtifact \in Artifact
      /\ Empty \in A /\ [Empty EXCEPT !.dir = artifacts.dir] \in A
  <2>1. 0 \in 0..MaxCommands
    BY NaturalBounds
  <2>2. NoArtifact \in Artifact
    BY <2>1 DEF NoArtifact, Artifact
  <2>3. ShortArtifact \in Artifact
    BY <2>2 DEF ShortArtifact, Artifact
  <2>4. artifacts.dir \in BOOLEAN
    BY <1>1
  <2>5. QED
    BY <2>2, <2>3, <2>4 DEF Empty
<1>3. ASSUME NEW b \in Artifact
      PROVE  /\ [artifacts EXCEPT !.dir = TRUE, !.block = b] \in A
             /\ [artifacts EXCEPT !.dir = TRUE, !.system = b] \in A
             /\ [artifacts EXCEPT !.block = b] \in A
             /\ [artifacts EXCEPT !.system = b] \in A
  BY <1>1
<1>4. Names(tx) \in Artifact
  <2>1. ASSUME NEW o \in Orgs
        PROVE  tree[o][MSP].ca \in 0..MaxCommands
    <3>1. tree[o][MSP] \in Copies
      BY ThingsDiffer DEF Types, TypeOK
    <3>2. QED
      BY <3>1, CopiesStates
  <2>2. 0 \in 0..MaxCommands
    BY NaturalBounds
  <2>3. [o \in Orgs |-> IF o \in OrgsOf(tx) THEN tree[o][MSP].ca ELSE 0]
          \in [Orgs -> 0..MaxCommands]
    BY <2>1, <2>2
  <2>4. QED
    BY <2>3 DEF Names, Artifact
<1> HIDE DEF A
<1>5. CASE UNCHANGED artifacts
  BY <1>1, <1>5 DEF A
<1>6. CASE ClearArtifacts
  BY <1>2, <1>6 DEF ClearArtifacts, A
<1>7. CASE Block
  BY <1>3, <1>4, <1>5, <1>7 DEF Block, WriteArtifact, A
<1>8. CASE System
  BY <1>3, <1>4, <1>5, <1>8 DEF System, WriteArtifact, A
<1>9. CASE CutArtifacts
  BY <1>2, <1>3, <1>9 DEF CutArtifacts, A
<1>10. CASE Command
  BY <1>5, <1>10, CommandSteps DEF Begin
<1>11. CASE RenderSpec \/ RenderTx \/ ClearCrypto \/ GenerateAll \/ ExtendAll \/ StartOrg
            \/ ExtendStartedOrg \/ NewCA \/ LoadCA
  BY <1>5, <1>11 DEF RenderSpec, RenderTx, ClearCrypto, GenerateAll, ExtendAll, ReadSpec,
                     StartOrg, ExtendStartedOrg, NewCA, LoadCA
<1>12. CASE NewMSP \/ NewMember \/ CopyCert \/ Keys \/ Zip
  BY <1>5, <1>12 DEF NewMSP, NewMember, CopyCert, Keys, Zip
<1>13. CASE CutBetween \/ CutRender \/ CutClearCrypto \/ CutCA \/ CutMember \/ CutCopy
  BY <1>5, <1>13 DEF CutBetween, CutRender, CutClearCrypto, CutCA, CutMember, CutCopy
<1>14. CASE UNCHANGED vars
  BY <1>5, <1>14 DEF vars
<1>15. QED
  BY <1>6, <1>7, <1>8, <1>9, <1>10, <1>11, <1>12, <1>13, <1>14 DEF Next, DoTask, CutShort

\* Which tasks change the description of the network.
LEMMA SpecSteps ==
  /\ DoTask => UNCHANGED spec \/ RenderSpec
  /\ CutShort => UNCHANGED spec \/ CutRender
  /\ Command => UNCHANGED <<files, certs, artifacts>>
<1> USE DEF files
<1>1. ASSUME DoTask
      PROVE  UNCHANGED spec \/ RenderSpec
  <2>1. CASE RenderTx \/ ClearCrypto \/ GenerateAll \/ ExtendAll \/ StartOrg
             \/ ExtendStartedOrg \/ NewCA \/ LoadCA
    BY <2>1 DEF RenderTx, ClearCrypto, GenerateAll, ExtendAll, ReadSpec, StartOrg,
                ExtendStartedOrg, NewCA, LoadCA
  <2>2. CASE NewMSP \/ NewMember \/ CopyCert \/ Keys \/ ClearArtifacts \/ Block \/ System \/ Zip
    BY <2>2 DEF NewMSP, NewMember, CopyCert, Keys, ClearArtifacts, Block, System,
                WriteArtifact, Zip
  <2>3. QED
    BY <1>1, <2>1, <2>2 DEF DoTask
<1>2. ASSUME CutShort
      PROVE  UNCHANGED spec \/ CutRender
  BY <1>2 DEF CutShort, CutBetween, CutClearCrypto, CutCA, CutMember, CutCopy, CutArtifacts
<1>3. ASSUME Command
      PROVE  UNCHANGED <<files, certs, artifacts>>
  BY <1>3, CommandSteps DEF Begin
<1>4. QED
  BY <1>1, <1>2, <1>3

LEMMA NetworkStays ==
  ASSUME Types, [Next]_vars
  PROVE  (\A t \in Elements(todo) : t.do \in OrgTasks => spec \in Readings)'
<1>1. CASE UNCHANGED vars
  BY <1>1 DEF Types, vars, files, Elements
<1>2. CASE Command
  <2>1. todo' \in Lists
    BY <1>2, CommandSteps DEF Begin
  <2>2. \A t \in Elements(todo') : t.do \notin OrgTasks
    BY <2>1, ListsType
  <2>3. Elements(todo)' = Elements(todo')
    BY DEF Elements
  <2>4. QED
    BY <2>2, <2>3
<1>3. CASE DoTask \/ CutShort
  <2>1. Rest \/ Expands \/ Ends
    BY <1>3, TaskSteps
  <2>2. todo \in Seq(Tasks) /\ todo # <<>>
    BY <2>1 DEF Rest, Ends, Expands, Types, TypeOK
  <2>3. Elements(todo)' = Elements(todo')
    BY DEF Elements
  <2>4. CASE UNCHANGED spec
    <3>1. CASE Rest \/ Ends
      BY <2>2, <2>3, <2>4, <3>1, ElementsAfter DEF Types
    <3>2. CASE Expands
      BY <2>4, <3>2, ExpandsTo
    <3>3. QED
      BY <2>1, <3>1, <3>2
  <2>5. CASE RenderSpec
    BY <2>5, NetworksAreReadings DEF RenderSpec
  <2>6. CASE CutRender
    <3>1. todo' = <<>>
      BY <2>6 DEF CutRender, Stop
    <3>2. QED
      BY <2>3, <3>1, ElementsEmpty
  <2>7. QED
    BY <1>3, <2>4, <2>5, <2>6, SpecSteps
<1>4. QED
  BY <1>1, <1>2, <1>3 DEF Next

LEMMA TypesStart == Init => Types
<1> SUFFICES ASSUME Init
             PROVE  Types
  OBVIOUS
<1>1. /\ todo = <<>> /\ todo \in Seq(Tasks) /\ Elements(todo) = {}
  BY ElementsEmpty DEF Init
<1>2. tree \in [Orgs -> [Things -> Copies]]
  BY CopiesStates DEF Init
<1>3. artifacts \in [dir : BOOLEAN, block : Artifact, system : Artifact]
  <2>1. 0 \in 0..MaxCommands
    BY NaturalBounds
  <2>2. NoArtifact \in Artifact
    BY <2>1 DEF NoArtifact, Artifact
  <2>3. QED
    BY <2>2 DEF Init, Empty
<1>4. number \in 0..MaxCommands /\ cuts \in 0..MaxCuts
  BY NaturalBounds DEF Init
<1>5. TypeOK
  BY <1>1, <1>2, <1>3, <1>4 DEF Init, TypeOK
<1>6. QED
  BY <1>1, <1>5 DEF Types

LEMMA TypesStay == Types /\ [Next]_vars => Types'
<1> SUFFICES ASSUME Types, [Next]_vars
             PROVE  Types'
  OBVIOUS
<1>1. TypeOK'
  BY CommandTypes, CertsTypes, ArtifactTypes DEF TypeOK
<1>2. QED
  BY <1>1, CommandTypes, NetworkStays DEF Types

LEMMA AlwaysTypes == Spec => []Types
BY TypesStart, TypesStay, PTL DEF Spec

\* What the directory holds is of the types that Material gives it, whatever commands
\* were cut short: the tasks of each command are tasks for orgs and things there are.
THEOREM MaterialTypeCorrect == Spec => []TypeOK
<1>1. Types => TypeOK
  BY DEF Types
<1>2. QED
  BY <1>1, AlwaysTypes, PTL

-----------------------------------------------------------------------------
(* The list of tasks: what a command may still have to do, and in which      *)
(* order.                                                                    *)

KindsOf(c) ==
  IF c = "template" THEN RenderDos
  ELSE IF c = "generate"
  THEN RenderDos \cup CryptoDos \cup {"zip"} \cup (OrgTasks \ {"extend org", "load ca"})
  ELSE IF c = "extend" THEN {"extend", "keys"} \cup (OrgTasks \ {"new org"})
  ELSE {"zip"}

PartFits(t) ==
  /\ t.do = "new ca" => t.thing = CA
  /\ t.do = "new msp" => t.thing = MSP
  /\ t.do = "new member" => t.thing \in {User, Admin} \cup Nodes
  /\ t.do = "copy cert" => t.thing \in Places

Fits(t) ==
  /\ t.do \in KindsOf(cmd)
  /\ t.do \in OrgTasks => spec \in Readings /\ t.org \in OrgsOf(spec)
  /\ PartFits(t)

AllFit == \A t \in Elements(todo) : Fits(t)

\* A generate that has not come past a step still has it to do.
Follows ==
  cmd = "generate" =>
    \A t \in Elements(todo), do \in LaterDos :
      Stage(t.do) < Stage(do) => \E u \in Elements(todo) : u.do = do

NotMade == cmd = "generate" /\ todo # <<>> => made = "none"

Listed == AllFit /\ Ordered(todo) /\ Follows /\ NotMade

LEMMA PrimedElements ==
  Elements(todo)' = Elements(todo') /\ Ordered(todo)' = Ordered(todo')
BY DEF Elements, Ordered, MayPrecede, Stage, Task

LEMMA Pairs ==
  ASSUME NEW S, NEW s \in Seq(S), Ordered(s),
         NEW a \in Elements(s), NEW b \in Elements(s), a # b
  PROVE  MayPrecede(a, b) \/ MayPrecede(b, a)
<1>1. PICK i \in DOMAIN s, j \in DOMAIN s : a = s[i] /\ b = s[j]
  BY DEF Elements
<1>2. i \in Nat /\ j \in Nat /\ i # j
  BY <1>1, LenProperties
<1>3. i < j \/ j < i
  BY <1>2
<1>4. QED
  BY <1>1, <1>3 DEF Ordered

LEMMA Stages ==
  /\ \A do : Stage(do) \in Nat
  /\ \A do \in OrgTasks : Stage(do) = 4
  /\ Stage("render spec") = 1 /\ Stage("render tx") = 2 /\ Stage("clear crypto") = 3
  /\ Stage("generate") = 4 /\ Stage("extend") = 4 /\ Stage("keys") = 5
  /\ Stage("clear artifacts") = 6 /\ Stage("block") = 7 /\ Stage("system") = 8
  /\ Stage("zip") = 9
<1>1. \A do : Stage(do) \in Nat
  BY DEF Stage
<1>2. \A do \in OrgTasks : Stage(do) = 4
  BY DEF Stage, OrgTasks, WholeOrgTasks, Parts
<1>3. /\ Stage("render spec") = 1 /\ Stage("render tx") = 2 /\ Stage("clear crypto") = 3
      /\ Stage("generate") = 4 /\ Stage("extend") = 4 /\ Stage("keys") = 5
      /\ Stage("clear artifacts") = 6 /\ Stage("block") = 7 /\ Stage("system") = 8
      /\ Stage("zip") = 9
  BY DEF Stage, OrgTasks, WholeOrgTasks, Parts
<1>4. QED
  BY <1>1, <1>2, <1>3

LEMMA StagesBefore ==
  /\ Stage("render spec") < Stage("generate") /\ Stage("render tx") < Stage("generate")
  /\ Stage("clear crypto") < Stage("generate") /\ Stage("clear crypto") < Stage("keys")
  /\ Stage("clear crypto") < Stage("block") /\ Stage("clear crypto") < Stage("system")
  /\ Stage("clear crypto") < Stage("zip")
  /\ \A do \in OrgTasks \cup {"generate", "extend"} :
       /\ Stage(do) < Stage("keys") /\ Stage(do) < Stage("clear artifacts")
       /\ Stage(do) < Stage("block") /\ Stage(do) < Stage("system")
       /\ Stage(do) < Stage("zip")
  /\ Stage("keys") < Stage("clear artifacts") /\ Stage("keys") < Stage("block")
  /\ Stage("keys") < Stage("system")
  /\ Stage("clear artifacts") < Stage("block") /\ Stage("clear artifacts") < Stage("system")
  /\ Stage("block") < Stage("system") /\ Stage("system") < Stage("zip")
BY DEF Stage, OrgTasks, WholeOrgTasks, Parts

\* The order of two tasks, by their stages.
LEMMA StagesOrder ==
  ASSUME NEW a, NEW b, MayPrecede(a, b)
  PROVE  /\ Stage(a.do) <= Stage(b.do)
         /\ a.do \notin OrgTasks \/ b.do \notin OrgTasks => Stage(a.do) < Stage(b.do)
<1>1. Stage(a.do) \in Nat /\ Stage(b.do) \in Nat
  BY Stages
<1>2. Stage(a.do) < Stage(b.do) \/ (a.do \in OrgTasks /\ b.do \in OrgTasks)
  BY DEF MayPrecede
<1>3. a.do \in OrgTasks /\ b.do \in OrgTasks => Stage(a.do) = 4 /\ Stage(b.do) = 4
  BY Stages
<1>4. QED
  BY <1>1, <1>2, <1>3

LEMMA NoStageBoth ==
  ASSUME NEW do, NEW due
  PROVE  ~(Stage(do) < Stage(due) /\ Stage(due) < Stage(do)) /\ ~(Stage(do) < Stage(do))
<1>1. Stage(do) \in Nat /\ Stage(due) \in Nat
  BY Stages
<1>2. QED
  BY <1>1

LEMMA NoStageReturn ==
  ASSUME NEW do, NEW due, Stage(do) < Stage(due), Stage(due) <= Stage(do)
  PROVE  FALSE
<1>1. Stage(do) \in Nat /\ Stage(due) \in Nat
  BY Stages
<1>2. QED
  BY <1>1

LEMMA NoStageCycle ==
  ASSUME NEW do, NEW due, NEW dot, Stage(do) <= Stage(due), Stage(due) < Stage(dot),
         Stage(dot) < Stage(do)
  PROVE  FALSE
<1>1. Stage(do) \in Nat /\ Stage(due) \in Nat /\ Stage(dot) \in Nat
  BY Stages
<1>2. QED
  BY <1>1

\* Of two tasks of one stage that is not the orgs' there can only be one.
LEMMA SameStage ==
  ASSUME NEW a, NEW b, Stage(a.do) = Stage(b.do),
         a.do \notin OrgTasks \/ b.do \notin OrgTasks,
         MayPrecede(a, b) \/ MayPrecede(b, a)
  PROVE  FALSE
<1>1. Stage(a.do) \in Nat /\ Stage(b.do) \in Nat
  BY Stages
<1>2. Stage(a.do) < Stage(b.do) \/ Stage(b.do) < Stage(a.do)
  BY StagesOrder
<1>3. QED
  BY <1>1, <1>2

\* The tasks of an org.
LEMMA OrgTaskFits ==
  ASSUME NEW n \in Readings, NEW o \in Orgs,
         NEW t \in NewOrgTasks(o, n) \cup ExtendOrgTasks(o, n)
  PROVE  /\ t.org = o /\ t.do \in Parts /\ PartFits(t)
         /\ t \in NewOrgTasks(o, n) => t.do # "load ca"
         /\ t \in ExtendOrgTasks(o, n) => t.do \notin {"new ca", "new msp"}
<1>1. ASSUME NEW i \in 1..NodesOf(o, n)
      PROVE  Node(i) \in Nodes
  BY <1>1, NetworkOrgs, NaturalBounds DEF Nodes
<1>2. ASSUME NEW do \in NodeTasks, t \in NodesTasks(do, o, n)
      PROVE  t.org = o /\ t.do = do /\ t.thing \in Nodes
  BY <1>1, <1>2 DEF NodesTasks, Task
<1>3. ASSUME t \in UserTasks(o, n) \cup {Task("new member", o, Admin)}
      PROVE  t.org = o /\ t.do = "new member" /\ t.thing \in {User, Admin}
  <2>1. t = Task("new member", o, User) \/ t = Task("new member", o, Admin)
    BY <1>3 DEF UserTasks
  <2>2. CASE t = Task("new member", o, User)
    BY <2>2 DEF Task
  <2>3. CASE t = Task("new member", o, Admin)
    BY <2>3 DEF Task
  <2>4. QED
    BY <2>1, <2>2, <2>3
<1>4. ASSUME t \in NodesCertTasks(o, n) \cup MSPCertTasks(o)
      PROVE  t.org = o /\ t.do = "copy cert" /\ t.thing \in Places
  <2>1. CASE t \in NodesCertTasks(o, n)
    <3>1. t \in NodesTasks("copy cert", o, n)
      BY <2>1 DEF NodesCertTasks
    <3>2. QED
      BY <1>2, <3>1 DEF NodeTasks, Places
  <2>2. CASE t \in MSPCertTasks(o)
    <3>1. t = Task("copy cert", o, MSP)
      BY <2>2 DEF MSPCertTasks
    <3>2. QED
      BY <3>1 DEF Task, Places
  <2>3. QED
    BY <1>4, <2>1, <2>2
<1>5. ASSUME t \in {Task("new ca", o, CA), Task("new msp", o, MSP), Task("load ca", o, CA)}
      PROVE  /\ t.org = o /\ t.do \in Parts
             /\ t.do = "new ca" => t.thing = CA
             /\ t.do = "new msp" => t.thing = MSP
             /\ t.do \notin NodeTasks
             /\ t.do = "load ca" => t = Task("load ca", o, CA)
             /\ t.do \in {"new ca", "new msp"} => t # Task("load ca", o, CA)
  <2>1. CASE t = Task("new ca", o, CA)
    BY <2>1 DEF Task, Parts, NodeTasks
  <2>2. CASE t = Task("new msp", o, MSP)
    BY <2>2 DEF Task, Parts, NodeTasks
  <2>3. CASE t = Task("load ca", o, CA)
    BY <2>3 DEF Task, Parts, NodeTasks
  <2>4. QED
    BY <1>5, <2>1, <2>2, <2>3
<1>6. ASSUME t.org = o, t.do = "new member", t.thing \in {User, Admin} \cup Nodes
      PROVE  t.do \in Parts /\ PartFits(t) /\ t.do # "load ca" /\ t.do \notin {"new ca", "new msp"}
  BY <1>6 DEF Parts, PartFits
<1>7. ASSUME t.org = o, t.do = "copy cert", t.thing \in Places
      PROVE  t.do \in Parts /\ PartFits(t) /\ t.do # "load ca" /\ t.do \notin {"new ca", "new msp"}
  BY <1>7 DEF Parts, PartFits
<1>8. CASE t \in NodesTasks("new member", o, n)
  BY <1>2, <1>6, <1>8 DEF NodeTasks
<1>9. CASE t \in UserTasks(o, n) \cup {Task("new member", o, Admin)}
  BY <1>3, <1>6, <1>9
<1>10. CASE t \in NodesCertTasks(o, n) \cup MSPCertTasks(o)
  BY <1>4, <1>7, <1>10
<1>11. CASE t = Task("new ca", o, CA) \/ t = Task("new msp", o, MSP)
  <2>1. t.do \in {"new ca", "new msp"}
    <3>1. CASE t = Task("new ca", o, CA)
      BY <3>1 DEF Task
    <3>2. CASE t = Task("new msp", o, MSP)
      BY <3>2 DEF Task
    <3>3. QED
      BY <1>11, <3>1, <3>2
  <2>2. PartFits(t)
    BY <1>5, <1>11, <2>1 DEF PartFits
  <2>3. t \notin ExtendOrgTasks(o, n)
    <3>1. t \notin NodesTasks("new member", o, n)
      BY <1>2, <2>1 DEF NodeTasks
    <3>2. t \notin UserTasks(o, n) /\ t \notin NodesCertTasks(o, n)
      BY <1>3, <1>4, <2>1
    <3>3. QED
      BY <1>5, <1>11, <2>1, <3>1, <3>2 DEF ExtendOrgTasks
  <2>4. QED
    BY <1>5, <1>11, <2>1, <2>2, <2>3
<1>12. CASE t = Task("load ca", o, CA)
  <2>1. t.do = "load ca"
    BY <1>12 DEF Task
  <2>2. PartFits(t)
    BY <2>1 DEF PartFits
  <2>3. t \notin NewOrgTasks(o, n)
    <3>1. t \notin NodesTasks("new member", o, n)
      BY <1>2, <2>1 DEF NodeTasks
    <3>2. /\ t \notin UserTasks(o, n) \cup {Task("new member", o, Admin)}
          /\ t \notin NodesCertTasks(o, n) \cup MSPCertTasks(o)
      BY <1>3, <1>4, <2>1
    <3>3. t # Task("new ca", o, CA)
      <4>1. Task("new ca", o, CA).do = "new ca"
        BY DEF Task
      <4>2. QED
        BY <2>1, <4>1
    <3>4. t # Task("new msp", o, MSP)
      <4>1. Task("new msp", o, MSP).do = "new msp"
        BY DEF Task
      <4>2. QED
        BY <2>1, <4>1
    <3>5. QED
      BY <3>1, <3>2, <3>3, <3>4 DEF NewOrgTasks
  <2>4. QED
    BY <1>5, <1>12, <2>1, <2>2, <2>3
<1>13. QED
  BY <1>8, <1>9, <1>10, <1>11, <1>12 DEF NewOrgTasks, ExtendOrgTasks

LEMMA OrgTasksFit ==
  ASSUME NEW n \in Readings, NEW o \in Orgs
  PROVE  /\ \A t \in NewOrgTasks(o, n) \cup ExtendOrgTasks(o, n) :
              t.org = o /\ t.do \in Parts /\ PartFits(t)
         /\ \A t \in NewOrgTasks(o, n) : t.do # "load ca"
         /\ \A t \in ExtendOrgTasks(o, n) : t.do \notin {"new ca", "new msp"}
BY OrgTaskFits

\* The task at the head of the list and those after it.
LEMMA HeadFacts ==
  ASSUME TypeOK, Listed, todo # <<>>
  PROVE  /\ Head(todo) \in Tasks /\ org \in Orgs /\ thing \in Things
         /\ Fits(Head(todo)) /\ Head(todo) \in Elements(todo)
         /\ Elements(todo) = {Head(todo)} \cup Elements(Tail(todo))
         /\ Elements(todo) \subseteq Tasks
         /\ Tail(todo) \in Seq(Tasks) /\ Ordered(Tail(todo))
         /\ \A b \in Elements(Tail(todo)) : MayPrecede(Head(todo), b)
<1>1. todo \in Seq(Tasks) /\ Ordered(todo)
  BY DEF TypeOK, Listed
<1>2. /\ Head(todo) \in Tasks /\ Head(todo) \in Elements(todo)
      /\ Elements(todo) = {Head(todo)} \cup Elements(Tail(todo))
      /\ Tail(todo) \in Seq(Tasks)
  BY <1>1, ElementsTail
<1>3. org \in Orgs /\ thing \in Things
  BY <1>2 DEF Tasks, org, thing
<1>4. Elements(todo) \subseteq Tasks
  BY <1>1, ElementsType
<1>5. QED
  BY <1>1, <1>2, <1>3, <1>4, OrderedTail DEF Listed, AllFit

\* While files are rendered or the old tree is removed no org has been started.
LEMMA NoOrgsYet ==
  ASSUME Types, Listed, Is("render spec") \/ Is("clear crypto")
  PROVE  \A t \in Elements(todo) : t.do \notin OrgTasks
<1>1. /\ TypeOK /\ todo # <<>> /\ Head(todo).do \in {"render spec", "clear crypto"}
      /\ todo \in Seq(Tasks) /\ Ordered(todo)
  BY DEF Is, Types, TypeOK, Listed
<1>2. Head(todo) \in Elements(todo) /\ Fits(Head(todo))
  BY <1>1, HeadFacts
<1>3. Head(todo).do \in KindsOf(cmd)
  BY <1>2 DEF Fits
<1>4. cmd = "template" \/ cmd = "generate"
  BY <1>1, <1>3 DEF KindsOf, OrgTasks, WholeOrgTasks, Parts, TypeOK
<1>5. CASE cmd = "template"
  <2>1. RenderDos \cap OrgTasks = {}
    BY DEF RenderDos, OrgTasks, WholeOrgTasks, Parts
  <2>2. QED
    BY <1>5, <2>1 DEF Listed, AllFit, Fits, KindsOf
<1>6. CASE cmd = "generate"
  <2>1. PICK u \in Elements(todo) : u.do = "generate"
    <3>1. Stage(Head(todo).do) < Stage("generate")
      BY <1>1, StagesBefore
    <3>2. "generate" \in LaterDos
      BY DEF LaterDos
    <3>3. QED
      BY <1>2, <1>6, <3>1, <3>2 DEF Listed, Follows
  <2>2. ASSUME NEW t \in Elements(todo), t.do \in OrgTasks
        PROVE  FALSE
    <3>1. "generate" \notin OrgTasks
      BY DEF OrgTasks, WholeOrgTasks, Parts
    <3>2. MayPrecede(t, u) \/ MayPrecede(u, t)
      BY <1>1, <2>1, <2>2, <3>1, Pairs
    <3>3. Stage(t.do) = 4 /\ Stage(u.do) = 4
      BY <2>1, <2>2, Stages
    <3>4. u.do \notin OrgTasks
      BY <2>1, <3>1
    <3>5. QED
      BY <3>2, <3>3, <3>4, SameStage
  <2>3. QED
    BY <2>2
<1>7. QED
  BY <1>4, <1>5, <1>6

\* The tasks that stay on the list still fit, and those that are put on it do.
LEMMA AllFitStays ==
  ASSUME Types, Listed, DoTask \/ CutShort
  PROVE  AllFit'
<1>1. /\ todo # <<>> /\ TypeOK /\ todo \in Seq(Tasks)
      /\ Rest \/ Ends \/ Expands
      /\ cmd' = cmd
  BY TaskSteps DEF Rest, Ends, Expands, Proceeds, Fails, Types, TypeOK
<1>2. Elements(todo)' = Elements(todo')
  BY PrimedElements
<1>3. CASE Ends
  BY <1>1, <1>2, <1>3, ElementsAfter DEF AllFit
<1>4. ASSUME NEW t, Fits(t), spec' = spec
      PROVE  Fits(t)'
  BY <1>1, <1>4 DEF Fits, PartFits, KindsOf, RenderDos, CryptoDos, OrgTasks,
                    WholeOrgTasks, Parts, OrgsOf, Org, Count, Places, Nodes, Node, Thing,
                    CA, MSP, User, Admin, Orderer
<1>5. CASE Rest /\ spec' = spec
  <2>1. ASSUME NEW t \in Elements(todo')
        PROVE  Fits(t)'
    BY <1>1, <1>4, <1>5, ElementsAfter DEF Listed, AllFit
  <2>2. QED
    BY <1>2, <2>1 DEF AllFit
<1>6. CASE Rest /\ RenderSpec
  <2>1. Is("render spec")
    BY <1>6 DEF RenderSpec
  <2>2. ASSUME NEW t \in Elements(todo')
        PROVE  Fits(t)'
    <3>1. Fits(t) /\ t.do \notin OrgTasks
      BY <1>1, <1>6, <2>1, NoOrgsYet, ElementsAfter DEF Listed, AllFit
    <3>2. t.do \in KindsOf(cmd) /\ KindsOf(cmd)' = KindsOf(cmd)
      BY <1>1, <3>1 DEF Fits, KindsOf
    <3>3. PartFits(t)
      BY <3>1 DEF Fits
    <3>4. QED
      BY <1>1, <3>1, <3>2, <3>3 DEF Fits
  <2>3. QED
    BY <1>2, <2>2 DEF AllFit
<1>7. CASE Expands /\ spec' = spec
  <2>1. PICK l \in Seq(Tasks) :
          /\ todo' = l \o Tail(todo)
          /\ \/ /\ Head(todo).do = "generate"
                /\ Elements(l) = {Task("new org", o, CA) : o \in OrgsOf(spec)}
             \/ /\ Head(todo).do = "extend"
                /\ Elements(l) = {Task("extend org", o, CA) : o \in OrgsOf(spec)}
             \/ /\ Head(todo).do = "new org"
                /\ Elements(l) = NewOrgTasks(org, spec)
             \/ /\ Head(todo).do = "extend org" /\ OrgExists(org)
                /\ Elements(l) = ExtendOrgTasks(org, spec)
             \/ /\ Head(todo).do = "extend org" /\ ~OrgExists(org)
                /\ Elements(l) = NewOrgTasks(org, spec)
    BY <1>7, ExpandsTo
  <2>2. spec \in Readings /\ org \in Orgs /\ Fits(Head(todo))
    BY <1>1, <1>7, ExpandsTo, HeadFacts
  <2>3. ASSUME NEW t \in Elements(l)
        PROVE  Fits(t)
    <3>1. CASE Head(todo).do = "generate"
      <4>1. PICK o \in OrgsOf(spec) : t = Task("new org", o, CA)
        BY <2>1, <2>3, <3>1
      <4>2. t.do = "new org" /\ t.org = o
        BY <4>1 DEF Task
      <4>3. cmd = "generate"
        BY <1>1, <2>2, <3>1 DEF Fits, KindsOf, RenderDos, OrgTasks, WholeOrgTasks, Parts,
                                TypeOK
      <4>4. QED
        BY <2>2, <4>2, <4>3 DEF Fits, KindsOf, OrgTasks, WholeOrgTasks, PartFits
    <3>2. CASE Head(todo).do = "extend"
      <4>1. PICK o \in OrgsOf(spec) : t = Task("extend org", o, CA)
        BY <2>1, <2>3, <3>2
      <4>2. t.do = "extend org" /\ t.org = o
        BY <4>1 DEF Task
      <4>3. cmd = "extend"
        BY <1>1, <2>2, <3>2 DEF Fits, KindsOf, RenderDos, CryptoDos, OrgTasks,
                                WholeOrgTasks, Parts, TypeOK
      <4>4. QED
        BY <2>2, <4>2, <4>3 DEF Fits, KindsOf, OrgTasks, WholeOrgTasks, PartFits
    <3>3. ASSUME Head(todo).do \in WholeOrgTasks
          PROVE  org \in OrgsOf(spec)
      BY <2>2, <3>3 DEF Fits, org, OrgTasks
    <3>4. CASE Head(todo).do = "new org"
      <4>1. cmd = "generate" /\ Head(todo).do \in WholeOrgTasks
        BY <1>1, <2>2, <3>4 DEF Fits, KindsOf, RenderDos, OrgTasks, WholeOrgTasks, Parts,
                                TypeOK
      <4>2. t.org = org /\ t.do \in Parts /\ PartFits(t) /\ t.do # "load ca"
        <5>1. t \in NewOrgTasks(org, spec)
          BY <2>1, <2>3, <3>4
        <5>2. QED
          BY <2>2, <5>1, OrgTasksFit
      <4>3. t.do \in KindsOf(cmd)
        BY <4>1, <4>2 DEF KindsOf, OrgTasks, Parts
      <4>4. QED
        BY <2>2, <3>3, <4>1, <4>2, <4>3 DEF Fits
    <3>5. CASE Head(todo).do = "extend org"
      <4>1. cmd = "extend" /\ Head(todo).do \in WholeOrgTasks
        BY <1>1, <2>2, <3>5 DEF Fits, KindsOf, RenderDos, CryptoDos, OrgTasks,
                                WholeOrgTasks, Parts, TypeOK
      <4>2. t.org = org /\ t.do \in Parts /\ PartFits(t)
        <5>1. t \in NewOrgTasks(org, spec) \cup ExtendOrgTasks(org, spec)
          BY <2>1, <2>3, <3>5
        <5>2. QED
          BY <2>2, <5>1, OrgTasksFit
      <4>3. t.do \in KindsOf(cmd)
        BY <4>1, <4>2 DEF KindsOf, OrgTasks, Parts
      <4>4. QED
        BY <2>2, <3>3, <4>1, <4>2, <4>3 DEF Fits
    <3>6. QED
      BY <2>1, <3>1, <3>2, <3>4, <3>5
  <2>4. ASSUME NEW t \in Elements(todo')
        PROVE  Fits(t)'
    <3>1. Fits(t)
      BY <1>1, <2>1, <2>3, ElementsAfter DEF Listed, AllFit
    <3>2. QED
      BY <1>4, <1>7, <3>1
  <2>5. QED
    BY <1>2, <2>4 DEF AllFit
<1>8. CASE DoTask
  <2>1. spec' = spec \/ RenderSpec
    BY <1>8, SpecSteps
  <2>2. RenderSpec => Rest
    BY DEF RenderSpec, Proceed, Continue, Is, Rest
  <2>3. QED
    BY <1>1, <1>3, <1>5, <1>6, <1>7, <2>1, <2>2
<1>9. CASE CutShort
  BY <1>3, <1>9, TaskSteps
<1>10. QED
  BY <1>8, <1>9

\* What takes the place of a task may precede what comes after that task.
LEMMA InItsPlace ==
  ASSUME NEW h, NEW a, NEW b, MayPrecede(h, b),
         \/ h.do \in {"generate", "extend"} /\ a.do \in OrgTasks
         \/ h.do \in WholeOrgTasks /\ a.do \in Parts /\ a.org = h.org
  PROVE  MayPrecede(a, b)
<1>1. CASE h.do \in {"generate", "extend"} /\ a.do \in OrgTasks
  <2>1. h.do \notin OrgTasks
    BY <1>1 DEF OrgTasks, WholeOrgTasks, Parts
  <2>2. Stage(h.do) < Stage(b.do)
    BY <2>1, StagesOrder
  <2>3. Stage(a.do) = Stage(h.do)
    BY <1>1 DEF Stage, OrgTasks, WholeOrgTasks, Parts
  <2>4. QED
    BY <2>2, <2>3 DEF MayPrecede
<1>2. CASE h.do \in WholeOrgTasks /\ a.do \in Parts /\ a.org = h.org
  <2>1. CASE Stage(h.do) < Stage(b.do)
    <3>1. Stage(a.do) = Stage(h.do)
      BY <1>2, Stages DEF OrgTasks
    <3>2. QED
      BY <2>1, <3>1 DEF MayPrecede
  <2>2. CASE b.do \in OrgTasks /\ b.do = h.do /\ h.org # b.org
    <3>1. /\ b.do # "new ca" /\ b.do # "new msp" /\ b.do # "new member"
          /\ a.do \in OrgTasks /\ a.do \notin WholeOrgTasks
      BY <1>2, <2>2 DEF OrgTasks, WholeOrgTasks, Parts
    <3>2. Task("new member", a.org, Admin).do = "new member"
      BY DEF Task
    <3>3. QED
      BY <1>2, <2>2, <3>1, <3>2 DEF MayPrecede
  <2>3. QED
    BY <1>2, <2>1, <2>2 DEF MayPrecede
<1>3. QED
  BY <1>1, <1>2

LEMMA ExpandsInPlace ==
  ASSUME Types, Listed, Expands
  PROVE  \E l \in Seq(Tasks) :
           /\ todo' = l \o Tail(todo) /\ Ordered(l)
           /\ \A a \in Elements(l) : a.do \in OrgTasks
           /\ Stage(Head(todo).do) = 4
           /\ \A a \in Elements(l), b \in Elements(Tail(todo)) : MayPrecede(a, b)
<1>1. todo # <<>> /\ TypeOK
  BY DEF Types, Expands
<1>2. PICK l \in Seq(Tasks) :
        /\ Ordered(l)
        /\ todo' = l \o Tail(todo)
        /\ \/ /\ Head(todo).do = "generate"
              /\ Elements(l) = {Task("new org", o, CA) : o \in OrgsOf(spec)}
           \/ /\ Head(todo).do = "extend"
              /\ Elements(l) = {Task("extend org", o, CA) : o \in OrgsOf(spec)}
           \/ /\ Head(todo).do = "new org"
              /\ Elements(l) = NewOrgTasks(org, spec)
           \/ /\ Head(todo).do = "extend org" /\ OrgExists(org)
              /\ Elements(l) = ExtendOrgTasks(org, spec)
           \/ /\ Head(todo).do = "extend org" /\ ~OrgExists(org)
              /\ Elements(l) = NewOrgTasks(org, spec)
  BY ExpandsTo
<1>3. spec \in Readings /\ org \in Orgs
  BY <1>1, ExpandsTo, HeadFacts
<1>4. CASE Head(todo).do \in {"generate", "extend"}
  <2>1. ASSUME NEW a \in Elements(l)
        PROVE  a.do \in OrgTasks
    <3>1. PICK o \in OrgsOf(spec), do \in {"new org", "extend org"} : a = Task(do, o, CA)
      BY <1>2, <1>4, <2>1
    <3>2. a.do = do
      BY <3>1 DEF Task
    <3>3. QED
      BY <3>2 DEF OrgTasks, WholeOrgTasks
  <2>2. Stage(Head(todo).do) = 4
    BY <1>4 DEF Stage
  <2>3. QED
    BY <1>1, <1>2, <1>4, <2>1, <2>2, HeadFacts, InItsPlace
<1>5. CASE Head(todo).do \in WholeOrgTasks
  <2>1. ASSUME NEW a \in Elements(l)
        PROVE  a.do \in Parts /\ a.org = Head(todo).org
    <3>1. a \in NewOrgTasks(org, spec) \cup ExtendOrgTasks(org, spec)
      BY <1>2, <1>5, <2>1 DEF WholeOrgTasks
    <3>2. QED
      BY <1>3, <3>1, OrgTasksFit DEF org
  <2>2. Stage(Head(todo).do) = 4
    BY <1>5, Stages DEF OrgTasks
  <2>3. \A a \in Elements(l), b \in Elements(Tail(todo)) : MayPrecede(a, b)
    BY <1>1, <1>5, <2>1, HeadFacts, InItsPlace
  <2>4. QED
    BY <1>2, <2>1, <2>2, <2>3 DEF OrgTasks
<1>6. QED
  BY <1>2, <1>4, <1>5 DEF WholeOrgTasks

LEMMA OrderStays ==
  ASSUME Types, Listed, DoTask \/ CutShort
  PROVE  Ordered(todo)'
<1>1. /\ todo # <<>> /\ TypeOK
      /\ Rest \/ Ends \/ Expands
  BY TaskSteps DEF Rest, Ends, Expands, Types
<1>2. CASE Rest
  BY <1>1, <1>2, PrimedElements, HeadFacts DEF Rest
<1>3. CASE Ends
  BY <1>3, PrimedElements, OrderedShort DEF Ends
<1>4. CASE Expands
  <2>1. PICK l \in Seq(Tasks) :
           /\ todo' = l \o Tail(todo) /\ Ordered(l)
           /\ \A a \in Elements(l), b \in Elements(Tail(todo)) : MayPrecede(a, b)
    BY <1>4, ExpandsInPlace
  <2>2. Tail(todo) \in Seq(Tasks) /\ Ordered(Tail(todo))
    BY <1>1, HeadFacts
  <2>3. QED
    BY <2>1, <2>2, OrderedConcat, PrimedElements
<1>5. QED
  BY <1>1, <1>2, <1>3, <1>4

LEMMA FollowsStays ==
  ASSUME Types, Listed, DoTask \/ CutShort
  PROVE  Follows'
<1>1. /\ todo # <<>> /\ TypeOK /\ todo \in Seq(Tasks)
      /\ Rest \/ Ends \/ Expands
      /\ cmd' = cmd
  BY TaskSteps DEF Rest, Ends, Expands, Proceeds, Fails, Types, TypeOK
<1> DEFINE h == Head(todo)
           T == Elements(Tail(todo))
<1>2. /\ Elements(todo) = {h} \cup T /\ \A b \in T : MayPrecede(h, b)
      /\ Elements(todo)' = Elements(todo')
  BY <1>1, HeadFacts, PrimedElements
<1>3. \A do \in LaterDos : do \notin OrgTasks
  BY DEF LaterDos, OrgTasks, WholeOrgTasks, Parts
<1> HIDE DEF h, T
\* A later task is not the one at the head.
<1>4. ASSUME cmd = "generate", NEW do \in LaterDos, NEW t \in T, Stage(t.do) < Stage(do)
      PROVE  \E u \in T : u.do = do
  <2>1. PICK u \in Elements(todo) : u.do = do
    BY <1>2, <1>4 DEF Listed, Follows
  <2>2. u # h
    <3>1. SUFFICES ASSUME u = h
                   PROVE  FALSE
      OBVIOUS
    <3>2. Stage(u.do) < Stage(t.do)
      BY <1>2, <1>3, <1>4, <2>1, <3>1, StagesOrder
    <3>3. QED
      BY <1>4, <2>1, <3>2, NoStageBoth
  <2>3. QED
    BY <1>2, <2>1, <2>2
<1>5. ASSUME cmd = "generate", NEW do \in LaterDos, Stage(h.do) < Stage(do)
      PROVE  \E u \in T : u.do = do
  <2>1. PICK u \in Elements(todo) : u.do = do
    BY <1>2, <1>5 DEF Listed, Follows
  <2>2. u # h
    BY <1>5, <2>1, NoStageBoth
  <2>3. QED
    BY <1>2, <2>1, <2>2
<1>6. CASE Rest
  <2>1. Elements(todo') = T
    BY <1>1, <1>6, ElementsAfter DEF T
  <2>2. QED
    BY <1>1, <1>2, <1>4, <2>1 DEF Follows, Stage
<1>7. CASE Ends
  <2>1. Elements(todo') = {}
    BY <1>1, <1>7, ElementsAfter
  <2>2. QED
    BY <1>2, <2>1 DEF Follows
<1>8. CASE Expands
  <2>1. PICK l \in Seq(Tasks) :
           /\ todo' = l \o Tail(todo)
           /\ \A a \in Elements(l) : a.do \in OrgTasks
           /\ Stage(h.do) = 4
    BY <1>8, ExpandsInPlace DEF h
  <2>2. Elements(todo') = Elements(l) \cup T
    BY <1>1, <2>1, ElementsAfter DEF T
  <2>3. \A a \in Elements(l) : Stage(a.do) = Stage(h.do)
    BY <2>1, Stages
  <2>4. ASSUME cmd = "generate", NEW do \in LaterDos, NEW t \in Elements(todo'),
               Stage(t.do) < Stage(do)
        PROVE  \E u \in T : u.do = do
    BY <1>4, <1>5, <2>2, <2>3, <2>4
  <2>5. QED
    BY <1>1, <1>2, <2>2, <2>4 DEF Follows, Stage
<1>9. QED
  BY <1>1, <1>6, <1>7, <1>8

\* What a new command has on its list.
LEMMA CommandDos ==
  ASSUME Command
  PROVE  \E dos \in {RenderDos, CryptoDos, RenderDos \cup CryptoDos,
                     RenderDos \cup CryptoDos \cup {"zip"}, {"zip"}, {"extend", "keys"}} :
           /\ Elements(todo') = {Do(do) : do \in dos}
           /\ \A do \in dos : Do(do).do = do /\ do \notin OrgTasks
           /\ Ordered(todo') /\ todo' # <<>>
           /\ UNCHANGED <<files, certs, artifacts>>
           /\ \/ cmd' = "template" /\ dos = RenderDos /\ made' = made
              \/ /\ cmd' = "generate" /\ CryptoDos \subseteq dos /\ made' = "none"
                 /\ dos \subseteq RenderDos \cup CryptoDos \cup {"zip"}
                 /\ forced' \/ ~crypto
              \/ cmd' = "extend" /\ dos = {"extend", "keys"} /\ crypto /\ made' = made
              \/ cmd' = "ship" /\ dos = {"zip"} /\ made' = made
<1>1. PICK c \in {"template", "generate", "extend", "ship"}, force \in BOOLEAN, l \in Lists :
        /\ Begin(c, force, l)
        /\ \/ c = "template" /\ l = RenderTasks
           \/ /\ c = "generate" /\ (force \/ ~crypto)
              /\ \/ l = CryptoTasks \/ l = RenderTasks \o CryptoTasks
                 \/ l = RenderTasks \o CryptoTasks \o <<Do("zip")>>
           \/ c = "extend" /\ l = <<Do("extend"), Do("keys")>> /\ crypto
           \/ c = "ship" /\ l = <<Do("zip")>>
  BY CommandSteps
<1>2. /\ Ordered(todo') /\ todo' # <<>> /\ todo' = l
      /\ UNCHANGED <<files, certs, artifacts>>
      /\ cmd' = c /\ forced' = force
      /\ made' = (IF c = "generate" THEN "none" ELSE made)
  BY <1>1, ListsType DEF Begin
<1>3. /\ \A do \in RenderDos \cup CryptoDos \cup {"zip"} \cup {"extend", "keys"} :
           Do(do).do = do /\ do \notin OrgTasks
  <2>1. "keys" \in CryptoDos
    BY DEF CryptoDos
  <2>2. \A do \in RenderDos \cup CryptoDos \cup {"zip"} \cup {"extend", "keys"} :
          do \notin OrgTasks
    BY DEF RenderDos, CryptoDos, OrgTasks, WholeOrgTasks, Parts
  <2>3. QED
    BY <2>1, <2>2, DoTasks
<1>4. CASE c = "template"
  <2>1. Elements(todo') = {Do(do) : do \in RenderDos}
    BY <1>1, <1>2, <1>4, RenderList
  <2>2. cmd' = "template" /\ made' = made
    BY <1>2, <1>4
  <2>3. QED
    BY <1>2, <1>3, <2>1, <2>2
<1>5. CASE c = "generate"
  <2>1. cmd' = "generate" /\ made' = "none" /\ (forced' \/ ~crypto)
    BY <1>1, <1>2, <1>5
  <2>2. CASE l = CryptoTasks
    <3>1. Elements(todo') = {Do(do) : do \in CryptoDos}
      BY <1>2, <2>2, CryptoList
    <3>2. QED
      BY <1>2, <1>3, <2>1, <3>1
  <2>3. CASE l = RenderTasks \o CryptoTasks
    <3>1. Elements(todo') = {Do(do) : do \in RenderDos \cup CryptoDos}
      BY <1>2, <2>3, RenderCryptoList
    <3>2. QED
      BY <1>2, <1>3, <2>1, <3>1
  <2>4. CASE l = RenderTasks \o CryptoTasks \o <<Do("zip")>>
    <3>1. Elements(todo') = {Do(do) : do \in RenderDos \cup CryptoDos \cup {"zip"}}
      BY <1>2, <2>4, ZipLists
    <3>2. QED
      BY <1>2, <1>3, <2>1, <3>1
  <2>5. QED
    BY <1>1, <1>5, <2>2, <2>3, <2>4
<1>6. CASE c = "extend"
  <2>1. Elements(todo') = {Do(do) : do \in {"extend", "keys"}}
    BY <1>1, <1>2, <1>6, ExtendList
  <2>2. cmd' = "extend" /\ made' = made /\ crypto
    BY <1>1, <1>2, <1>6
  <2>3. QED
    BY <1>2, <1>3, <2>1, <2>2
<1>7. CASE c = "ship"
  <2>1. Elements(todo') = {Do(do) : do \in {"zip"}}
    BY <1>1, <1>2, <1>7, ZipLists
  <2>2. cmd' = "ship" /\ made' = made
    BY <1>2, <1>7
  <2>3. QED
    BY <1>2, <1>3, <2>1, <2>2
<1>8. QED
  BY <1>1, <1>4, <1>5, <1>6, <1>7

LEMMA ListedBegins ==
  ASSUME Command
  PROVE  Listed'
<1>1. PICK dos :
        /\ Elements(todo') = {Do(do) : do \in dos}
        /\ \A do \in dos : Do(do).do = do /\ do \notin OrgTasks
        /\ Ordered(todo')
        /\ \/ cmd' = "template" /\ dos = RenderDos
           \/ /\ cmd' = "generate" /\ CryptoDos \subseteq dos /\ made' = "none"
              /\ dos \subseteq RenderDos \cup CryptoDos \cup {"zip"}
           \/ cmd' = "extend" /\ dos = {"extend", "keys"}
           \/ cmd' = "ship" /\ dos = {"zip"}
  BY CommandDos
<1>2. ASSUME NEW t \in Elements(todo')
      PROVE  Fits(t)'
  <2>1. PICK do \in dos : t = Do(do)
    BY <1>1, <1>2
  <2>2. t.do = do /\ do \notin OrgTasks
    BY <1>1, <2>1
  <2>3. do \in KindsOf(cmd')
    <3>1. CASE cmd' = "template"
      BY <1>1, <2>1, <3>1 DEF KindsOf
    <3>2. CASE cmd' = "generate"
      BY <1>1, <2>1, <3>2 DEF KindsOf
    <3>3. CASE cmd' = "extend"
      BY <1>1, <2>1, <3>3 DEF KindsOf
    <3>4. CASE cmd' = "ship"
      BY <1>1, <2>1, <3>4 DEF KindsOf
    <3>5. QED
      BY <1>1, <3>1, <3>2, <3>3, <3>4
  <2>4. PartFits(t)
    BY <2>2 DEF PartFits, OrgTasks, Parts
  <2>5. PartFits(t)' /\ KindsOf(cmd)' = KindsOf(cmd')
    BY <2>4 DEF PartFits, KindsOf
  <2>6. QED
    BY <2>2, <2>3, <2>5 DEF Fits
<1>3. AllFit'
  BY <1>2, PrimedElements DEF AllFit
<1>4. Follows'
  <2>1. ASSUME cmd' = "generate", NEW do \in LaterDos
        PROVE  \E u \in Elements(todo') : u.do = do
    <3>1. do \in dos
      BY <1>1, <2>1 DEF LaterDos, CryptoDos
    <3>2. QED
      BY <1>1, <3>1
  <2>2. QED
    BY <2>1, PrimedElements DEF Follows
<1>5. NotMade'
  BY <1>1 DEF NotMade
<1>6. QED
  BY <1>1, <1>3, <1>4, <1>5, PrimedElements DEF Listed

LEMMA ListedStart == Init => Listed
<1> SUFFICES ASSUME Init
             PROVE  Listed
  OBVIOUS
<1>1. todo = <<>> /\ Elements(todo) = {} /\ Ordered(todo)
  BY ElementsEmpty, OrderedShort DEF Init
<1>2. QED
  BY <1>1 DEF Listed, AllFit, Follows, NotMade

LEMMA ListedStays == Types /\ Listed /\ [Next]_vars => Listed'
<1> SUFFICES ASSUME Types, Listed, [Next]_vars
             PROVE  Listed'
  OBVIOUS
<1>1. CASE Command
  BY <1>1, ListedBegins
<1>2. CASE DoTask \/ CutShort
  <2>1. NotMade'
    BY <1>2, TaskSteps DEF Proceeds, Fails, Rest, Expands, Ends, Listed, NotMade
  <2>2. QED
    BY <1>2, <2>1, AllFitStays, OrderStays, FollowsStays DEF Listed
<1>3. CASE UNCHANGED vars
  <2>1. /\ todo' = todo /\ cmd' = cmd /\ spec' = spec /\ made' = made
    BY <1>3 DEF vars, run, files
  <2>2. Elements(todo)' = Elements(todo) /\ Ordered(todo)' = Ordered(todo)
    BY <2>1, PrimedElements
  <2>3. \A t : Fits(t)' = Fits(t)
    BY <2>1 DEF Fits, KindsOf, PartFits
  <2>4. AllFit'
    BY <2>2, <2>3 DEF Listed, AllFit
  <2>5. Follows'
    BY <2>1, <2>2 DEF Listed, Follows
  <2>6. QED
    BY <2>1, <2>2, <2>4, <2>5 DEF Listed, NotMade
<1>4. QED
  BY <1>1, <1>2, <1>3 DEF Next

LEMMA AlwaysListed == Spec => [](Types /\ Listed)
<1>1. Spec => []Listed
  BY ListedStart, ListedStays, AlwaysTypes, PTL DEF Spec
<1>2. QED
  BY <1>1, AlwaysTypes, PTL
=============================================================================
