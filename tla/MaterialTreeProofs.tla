------------------------- MODULE MaterialTreeProofs -------------------------
(***************************************************************************)
(* Theorems about what Material keeps in the project directory: the tree of *)
(* certificates and the artifacts made from it, for every number of orgs,   *)
(* nodes, commands and cuts, with and without NodeOUs.                      *)
(***************************************************************************)
EXTENDS MaterialProofs

-----------------------------------------------------------------------------
(* The tree: what is there while a command is under way.                    *)

Doing(do) == \E t \in Elements(todo) : t.do = do
Starting(do, o) == \E t \in Elements(todo) : t.do = do /\ t.org = o
Absent(o) == \A x \in Things : tree[o][x] = None

NoCrypto == ~crypto => \A o \in Orgs : Absent(o)
\* A new org is started where there is nothing.
StartsAbsent ==
  \A o \in Orgs : Starting("new org", o) \/ Starting("new ca", o) => Absent(o)
NoMSPYet ==
  \A o \in Orgs : Starting("new msp", o) =>
    /\ tree[o][MSP] = None
    /\ Starting("new ca", o) \/ tree[o][CA].state = "whole"
ClearedFirst ==
  Doing("generate") => Doing("clear crypto") \/ \A o \in Orgs : Absent(o)
ForcedOrNone == Doing("clear crypto") /\ ~forced => ~crypto
CryptoThere ==
  /\ \A t \in Elements(todo) : t.do \in Parts => crypto \/ Doing("new ca")
  /\ cmd = "extend" /\ todo # <<>> => crypto

TreeInv ==
  /\ NoCrypto /\ StartsAbsent /\ NoMSPYet /\ ClearedFirst /\ ForcedOrNone /\ CryptoThere
  /\ SignedByOwnCA

\* What a task does to the tree.
Keeps ==
  /\ UNCHANGED <<crypto, tree>>
  /\ Ends \/ ((Rest \/ Expands) /\ Head(todo).do \notin {"new ca", "clear crypto"})
MakesCA ==
  /\ Rest /\ Head(todo).do = "new ca"
  /\ crypto' = TRUE /\ Put(org, CA, Whole(number))
MakesMSP ==
  /\ Rest /\ Head(todo).do = "new msp"
  /\ UNCHANGED crypto /\ Put(org, MSP, tree[org][CA])
MakesMember ==
  /\ Rest /\ Head(todo).do = "new member"
  /\ tree[org][thing] = None
  /\ UNCHANGED crypto /\ Put(org, thing, tree[org][CA])
MakesShort ==
  /\ Ends
  /\ \/ Head(todo).do = "new ca" /\ crypto' = TRUE /\ Put(org, CA, Short)
     \/ /\ Head(todo).do \in {"new msp", "new member"} /\ tree[org][thing] = None
        /\ UNCHANGED crypto /\ Put(org, thing, Short)
Clears ==
  /\ Head(todo).do = "clear crypto"
  /\ \/ Rest /\ crypto' = FALSE /\ \A o \in Orgs, x \in Things : tree'[o][x] = None
     \/ /\ Ends /\ crypto /\ UNCHANGED crypto
        /\ \A o \in Orgs, x \in Things : tree'[o][x] \in {tree[o][x], None, Short}

LEMMA TreeSteps ==
  ASSUME DoTask \/ CutShort
  PROVE  Keeps \/ MakesCA \/ MakesMSP \/ MakesMember \/ MakesShort \/ Clears
<1> USE DEF Is, files, certs
<1>1. CASE NewCA
  BY <1>1 DEF NewCA, Proceed, Continue, MakesCA, Rest
<1>2. CASE NewMSP
  BY <1>2 DEF NewMSP, Proceed, Continue, MakesMSP, Rest
<1>3. CASE NewMember
  BY <1>3 DEF NewMember, Proceed, Continue, Refused, MakesMember, MakesShort, Keeps, Rest,
              Ends
<1>4. CASE ClearCrypto
  BY <1>4 DEF ClearCrypto, Proceed, Continue, Clears, Rest
<1>5. CASE CutClearCrypto
  <2>1. \A o \in Orgs, x \in Things : tree'[o][x] \in {tree[o][x], None, Short}
    <3>1. PICK untouched \in SUBSET Orgs, u \in Orgs :
            \E kept \in SUBSET {x \in Things : tree[u][x] # None},
               half \in {{}} \cup {{x} : x \in {y \in Things : tree[u][y] # None}} :
              LET left(q) == IF q = u THEN kept ELSE IF q \in untouched THEN Things ELSE {} IN
              /\ tree' = [q \in Orgs |-> [x \in Things |->
                            IF q = u /\ x \in half THEN Short
                            ELSE IF x \in left(q) THEN tree[q][x] ELSE None]]
              /\ admincert' = [q \in Orgs |-> [p \in Places |->
                            IF p \in left(q) THEN admincert[q][p] ELSE "none"]]
      BY <1>5 DEF CutClearCrypto
    <3>2. PICK kept \in SUBSET {x \in Things : tree[u][x] # None},
               half \in {{}} \cup {{x} : x \in {y \in Things : tree[u][y] # None}} :
              LET left(q) == IF q = u THEN kept ELSE IF q \in untouched THEN Things ELSE {} IN
              tree' = [q \in Orgs |-> [x \in Things |->
                            IF q = u /\ x \in half THEN Short
                            ELSE IF x \in left(q) THEN tree[q][x] ELSE None]]
      BY <3>1
    <3>3. QED
      BY <3>2
  <2>2. QED
    BY <1>5, <2>1 DEF CutClearCrypto, Stop, Clears, Ends
<1>6. CASE CutCA
  BY <1>6 DEF CutCA, Stop, MakesShort, Ends
<1>7. CASE CutMember
  BY <1>7 DEF CutMember, Stop, MakesShort, Ends
<1>8. CASE CutBetween \/ CutRender \/ CutCopy \/ CutArtifacts
  BY <1>8 DEF CutBetween, CutRender, CutCopy, CutArtifacts, Stop, Keeps, Ends
<1>9. CASE RenderSpec \/ RenderTx \/ ClearArtifacts \/ Block \/ System \/ Zip \/ Keys
  BY <1>9 DEF RenderSpec, RenderTx, ClearArtifacts, Block, System, Zip, Keys, WriteArtifact,
              Proceed, Continue, Refused, Keeps, Rest, Ends
<1>10. CASE LoadCA \/ CopyCert
  BY <1>10 DEF LoadCA, CopyCert, Proceed, Continue, Refused, Keeps, Rest, Ends
<1>11. CASE GenerateAll \/ ExtendAll
  BY <1>11 DEF GenerateAll, ExtendAll, ReadSpec, Proceed, Continue, Refused, Keeps, Rest,
               Expands, Ends
<1>12. CASE StartOrg \/ ExtendStartedOrg
  BY <1>12 DEF StartOrg, ExtendStartedOrg, Continue, Keeps, Expands
<1>13. QED
  BY <1>1, <1>2, <1>3, <1>4, <1>5, <1>6, <1>7, <1>8, <1>9, <1>10, <1>11, <1>12
     DEF DoTask, CutShort

\* The tasks that cannot come after a task of an org.
LEMMA AfterPart ==
  ASSUME TypeOK, Listed, todo # <<>>, Head(todo).do \in OrgTasks, NEW b \in Elements(Tail(todo))
  PROVE  /\ b.do \notin {"new ca", "generate", "extend", "clear crypto"}
         /\ b.do = "new msp" => Head(todo).do = "new ca" /\ b.org = org
         /\ b.do \in WholeOrgTasks => b.org # org
         /\ Head(todo).do \in WholeOrgTasks => b.do \notin Parts
         /\ Head(todo).do = "copy cert" => b # Task("new member", org, Admin)
<1>1. MayPrecede(Head(todo), b)
  BY HeadFacts
<1>2. b.do \notin {"generate", "extend", "clear crypto"}
  <2>1. "generate" \notin OrgTasks /\ "extend" \notin OrgTasks /\ "clear crypto" \notin OrgTasks
    BY DEF OrgTasks, WholeOrgTasks, Parts
  <2>2. ASSUME b.do \in {"generate", "extend"}
        PROVE  FALSE
    <3>1. Stage(b.do) = Stage(Head(todo).do)
      BY <2>2, Stages
    <3>2. QED
      BY <1>1, <2>1, <2>2, <3>1, SameStage
  <2>3. ASSUME b.do = "clear crypto"
        PROVE  FALSE
    <3>1. Stage(Head(todo).do) < Stage(b.do)
      BY <1>1, <2>1, <2>3, StagesOrder
    <3>2. Stage(Head(todo).do) = Stage("generate")
      BY Stages
    <3>3. QED
      BY <2>3, <3>1, <3>2, StagesBefore, NoStageBoth
  <2>4. QED
    BY <2>2, <2>3
<1>3. ASSUME b.do \in OrgTasks
      PROVE  /\ Head(todo).do \in WholeOrgTasks => b.do = Head(todo).do
             /\ b.do \in WholeOrgTasks => Head(todo).org # b.org
             /\ b.do # "new ca"
             /\ b.do = "new msp" => Head(todo).do = "new ca" /\ Head(todo).org = b.org
             /\ Head(todo).do = "copy cert" => b # Task("new member", Head(todo).org, Admin)
  <2>1. Stage(Head(todo).do) = Stage(b.do)
    BY <1>3, Stages
  <2>2. QED
    BY <1>1, <2>1, NoStageBoth DEF MayPrecede
<1>4. /\ WholeOrgTasks \subseteq OrgTasks /\ Parts \subseteq OrgTasks
      /\ WholeOrgTasks \cap Parts = {} /\ "new ca" \in OrgTasks /\ "new msp" \in OrgTasks
      /\ "new member" \in OrgTasks /\ Task("new member", org, Admin).do = "new member"
  BY DEF OrgTasks, WholeOrgTasks, Parts, Task
<1>5. QED
  BY <1>2, <1>3, <1>4 DEF org

\* When a list is done or dropped, only what is there matters.
LEMMA TreeAtEnd ==
  ASSUME todo' = <<>>, NoCrypto', SignedByOwnCA'
  PROVE  TreeInv'
<1>1. Elements(todo)' = {}
  BY PrimedElements, ElementsEmpty
<1>2. StartsAbsent' /\ NoMSPYet' /\ ClearedFirst' /\ ForcedOrNone' /\ CryptoThere'
  BY <1>1 DEF StartsAbsent, NoMSPYet, ClearedFirst, ForcedOrNone, CryptoThere, Doing, Starting
<1>3. QED
  BY <1>2 DEF TreeInv

\* A new command has no org started.
LEMMA TreeBegins ==
  ASSUME Command, TreeInv
  PROVE  TreeInv'
<1>1. PICK dos :
        /\ Elements(todo') = {Do(do) : do \in dos}
        /\ \A do \in dos : Do(do).do = do /\ do \notin OrgTasks
        /\ UNCHANGED <<files, certs, artifacts>>
        /\ \/ cmd' = "template" /\ dos = RenderDos
           \/ cmd' = "generate" /\ CryptoDos \subseteq dos /\ (forced' \/ ~crypto)
           \/ cmd' = "extend" /\ dos = {"extend", "keys"} /\ crypto
           \/ cmd' = "ship" /\ dos = {"zip"}
  BY CommandDos
<1>2. crypto' = crypto /\ tree' = tree
  BY <1>1 DEF certs
<1>3. ASSUME NEW t \in Elements(todo')
      PROVE  t.do \notin OrgTasks /\ t.do \in dos
  BY <1>1
<1>4. NoCrypto' /\ SignedByOwnCA'
  BY <1>2 DEF TreeInv, NoCrypto, SignedByOwnCA, Absent
<1>5. StartsAbsent' /\ NoMSPYet'
  BY <1>3, PrimedElements
     DEF StartsAbsent, NoMSPYet, Starting, OrgTasks, WholeOrgTasks, Parts
<1>6. ASSUME "generate" \in dos \/ "clear crypto" \in dos
      PROVE  "clear crypto" \in dos /\ (forced' \/ ~crypto)
  BY <1>1, <1>6 DEF CryptoDos, RenderDos
<1>7. ClearedFirst' /\ ForcedOrNone'
  BY <1>1, <1>2, <1>3, <1>6, PrimedElements DEF ClearedFirst, ForcedOrNone, Doing
<1>8. CryptoThere'
  BY <1>1, <1>2, <1>3, PrimedElements DEF CryptoThere, OrgTasks
<1>9. QED
  BY <1>4, <1>5, <1>7, <1>8 DEF TreeInv

\* A step that keeps the tree.
LEMMA TreeKept ==
  ASSUME Types, Listed, TreeInv, Keeps, cmd' = cmd, forced' = forced
  PROVE  TreeInv'
<1>1. crypto' = crypto /\ tree' = tree /\ todo # <<>> /\ TypeOK /\ todo \in Seq(Tasks)
  BY DEF Keeps, Rest, Ends, Expands, Types, TypeOK
<1>2. NoCrypto' /\ SignedByOwnCA'
  BY <1>1 DEF TreeInv, NoCrypto, SignedByOwnCA, Absent
<1> DEFINE h == Head(todo)
           T == Elements(Tail(todo))
<1>3. Elements(todo) = {h} \cup T /\ Elements(todo)' = Elements(todo') /\ h \in Elements(todo)
  BY <1>1, ElementsAfter, PrimedElements
<1>4. CASE Ends
  BY <1>2, <1>4, TreeAtEnd DEF Ends
<1>5. ASSUME h.do \notin {"new ca", "clear crypto"}
      PROVE  /\ \A o \in Orgs : (\E t \in T : t.do \in {"new org", "new ca"} /\ t.org = o)
                  => Absent(o)
             /\ \A o \in Orgs : (\E t \in T : t.do = "new msp" /\ t.org = o) =>
                  /\ tree[o][MSP] = None
                  /\ (\E t \in T : t.do = "new ca" /\ t.org = o) \/ tree[o][CA].state = "whole"
             /\ (\E t \in T : t.do = "generate") =>
                  (\E t \in T : t.do = "clear crypto") \/ \A o \in Orgs : Absent(o)
             /\ (\E t \in T : t.do = "clear crypto") /\ ~forced => ~crypto
             /\ (\E t \in T : t.do \in Parts) => crypto \/ \E t \in T : t.do = "new ca"
  <2>1. \A o \in Orgs : (\E t \in T : t.do \in {"new org", "new ca"} /\ t.org = o) => Absent(o)
    BY <1>3 DEF TreeInv, StartsAbsent, Starting
  <2>2. \A o \in Orgs : (\E t \in T : t.do = "new msp" /\ t.org = o) =>
          /\ tree[o][MSP] = None
          /\ (\E t \in T : t.do = "new ca" /\ t.org = o) \/ tree[o][CA].state = "whole"
    BY <1>3, <1>5 DEF TreeInv, NoMSPYet, Starting
  <2>3. /\ (\E t \in T : t.do = "generate") =>
             (\E t \in T : t.do = "clear crypto") \/ \A o \in Orgs : Absent(o)
        /\ (\E t \in T : t.do = "clear crypto") /\ ~forced => ~crypto
    BY <1>3, <1>5 DEF TreeInv, ClearedFirst, ForcedOrNone, Doing
  <2>4. (\E t \in T : t.do \in Parts) => crypto \/ \E t \in T : t.do = "new ca"
    BY <1>3, <1>5 DEF TreeInv, CryptoThere, Doing
  <2>5. QED
    BY <2>1, <2>2, <2>3, <2>4
<1>6. cmd = "extend" => crypto
  BY <1>1 DEF TreeInv, CryptoThere
<1> HIDE DEF h, T
<1>7. CASE Rest /\ h.do \notin {"new ca", "clear crypto"}
  <2>1. Elements(todo') = T
    BY <1>1, <1>7, ElementsAfter DEF T
  <2>2. StartsAbsent' /\ NoMSPYet'
    BY <1>1, <1>3, <1>5, <1>7, <2>1 DEF StartsAbsent, NoMSPYet, Starting, Absent
  <2>3. ClearedFirst' /\ ForcedOrNone' /\ CryptoThere'
    BY <1>1, <1>3, <1>5, <1>6, <1>7, <2>1 DEF ClearedFirst, ForcedOrNone, CryptoThere, Doing, Absent
  <2>4. QED
    BY <1>2, <2>2, <2>3 DEF TreeInv
<1>8. CASE Expands /\ h.do \notin {"new ca", "clear crypto"}
  <2>1. PICK l \in Seq(Tasks) :
          /\ todo' = l \o Tail(todo)
          /\ \/ /\ h.do = "generate"
                /\ Elements(l) = {Task("new org", o, CA) : o \in OrgsOf(spec)}
             \/ /\ h.do = "extend"
                /\ Elements(l) = {Task("extend org", o, CA) : o \in OrgsOf(spec)}
             \/ /\ h.do = "new org"
                /\ Elements(l) = NewOrgTasks(org, spec)
             \/ /\ h.do = "extend org" /\ OrgExists(org)
                /\ Elements(l) = ExtendOrgTasks(org, spec)
             \/ /\ h.do = "extend org" /\ ~OrgExists(org)
                /\ Elements(l) = NewOrgTasks(org, spec)
    BY <1>8, ExpandsTo DEF h
  <2>2. spec \in Readings /\ org \in Orgs /\ Fits(h) /\ h.org = org
    BY <1>1, <1>8, ExpandsTo, HeadFacts DEF h, org
  <2>3. Elements(todo') = Elements(l) \cup T
    BY <1>1, <2>1, ElementsAfter DEF T
  \* What the new tasks are.
  <2>4. CASE h.do = "generate"
    <3>1. ASSUME NEW t \in Elements(l)
          PROVE  t.do = "new org"
      <4>1. PICK o \in OrgsOf(spec) : t = Task("new org", o, CA)
        BY <2>1, <2>4, <3>1
      <4>2. QED
        BY <4>1 DEF Task
    <3>2. \A o \in Orgs : Absent(o)
      <4>1. ~ \E t \in T : t.do = "clear crypto"
        <5>1. SUFFICES ASSUME NEW t \in T, t.do = "clear crypto"
                       PROVE  FALSE
          OBVIOUS
        <5>2. MayPrecede(h, t)
          BY <1>1, <5>1, HeadFacts DEF h, T
        <5>3. "generate" \notin OrgTasks
          BY DEF OrgTasks, WholeOrgTasks, Parts
        <5>4. Stage(h.do) < Stage(t.do)
          BY <2>4, <5>2, <5>3, StagesOrder
        <5>5. QED
          BY <2>4, <5>1, <5>4, StagesBefore, NoStageBoth
      <4>2. QED
        BY <1>3, <2>4, <4>1 DEF TreeInv, ClearedFirst, Doing
    <3>3. StartsAbsent' /\ NoMSPYet'
      <4>1. StartsAbsent'
        BY <1>1, <3>2 DEF StartsAbsent, Absent
      <4>2. NoMSPYet'
        BY <1>1, <1>3, <1>5, <1>8, <2>3, <3>1 DEF NoMSPYet, Starting
      <4>3. QED
        BY <4>1, <4>2
    <3>4. ClearedFirst' /\ ForcedOrNone' /\ CryptoThere'
      BY <1>1, <1>3, <1>5, <1>6, <1>8, <2>3, <3>1, <3>2
         DEF ClearedFirst, ForcedOrNone, CryptoThere, Doing, Absent, Parts
    <3>5. QED
      BY <1>2, <3>3, <3>4 DEF TreeInv
  <2>5. CASE h.do = "extend"
    <3>1. ASSUME NEW t \in Elements(l)
          PROVE  t.do = "extend org"
      <4>1. PICK o \in OrgsOf(spec) : t = Task("extend org", o, CA)
        BY <2>1, <2>5, <3>1
      <4>2. QED
        BY <4>1 DEF Task
    <3>2. StartsAbsent' /\ NoMSPYet'
      BY <1>1, <1>3, <1>5, <1>8, <2>3, <3>1 DEF StartsAbsent, NoMSPYet, Starting, Absent
    <3>3. ClearedFirst' /\ ForcedOrNone' /\ CryptoThere'
      BY <1>1, <1>3, <1>5, <1>6, <1>8, <2>3, <3>1
         DEF ClearedFirst, ForcedOrNone, CryptoThere, Doing, Absent, Parts
    <3>4. QED
      BY <1>2, <3>2, <3>3 DEF TreeInv
  <2>6. CASE Elements(l) = NewOrgTasks(org, spec) /\ h.do \in WholeOrgTasks
    <3>1. Absent(org)
      <4>1. CASE h.do = "new org"
        BY <1>3, <2>2, <4>1 DEF TreeInv, StartsAbsent, Starting
      <4>2. CASE h.do = "extend org" /\ ~OrgExists(org)
        BY <4>2 DEF OrgExists, Absent
      <4>3. CASE h.do = "extend org" /\ OrgExists(org)
        <5>1. NewOrgTasks(org, spec) = ExtendOrgTasks(org, spec)
          BY <2>1, <2>6, <4>3 DEF WholeOrgTasks
        <5>2. Task("new ca", org, CA) \in NewOrgTasks(org, spec)
          BY DEF NewOrgTasks
        <5>3. Task("new ca", org, CA).do = "new ca"
          BY DEF Task
        <5>4. \A t \in NewOrgTasks(org, spec) \cup ExtendOrgTasks(org, spec) :
                t \in ExtendOrgTasks(org, spec) => t.do # "new ca"
          BY <2>2, OrgTasksFit
        <5>5. QED
          BY <5>1, <5>2, <5>3, <5>4
      <4>4. QED
        BY <2>6, <4>1, <4>2, <4>3 DEF WholeOrgTasks
    <3>2. ASSUME NEW t \in Elements(l)
          PROVE  t.org = org /\ t.do \in Parts
      <4>1. t \in NewOrgTasks(org, spec) \cup ExtendOrgTasks(org, spec)
        BY <2>6, <3>2
      <4>2. QED
        BY <2>2, <4>1, OrgTasksFit
    <3>3. \E t \in Elements(l) : t.do = "new ca" /\ t.org = org
      <4>1. Task("new ca", org, CA) \in Elements(l)
        BY <2>6 DEF NewOrgTasks
      <4>2. Task("new ca", org, CA).do = "new ca" /\ Task("new ca", org, CA).org = org
        BY DEF Task
      <4>3. QED
        BY <4>1, <4>2
    <3>4. StartsAbsent'
      BY <1>1, <1>3, <1>5, <1>8, <2>3, <3>1, <3>2 DEF StartsAbsent, Starting, Absent
    <3>5. NoMSPYet'
      <4>1. tree[org][MSP] = None
        BY <3>1, ThingsDiffer DEF Absent
      <4>2. QED
        BY <1>1, <1>3, <1>5, <1>8, <2>3, <3>2, <3>3, <4>1 DEF NoMSPYet, Starting
    <3>6. ClearedFirst' /\ ForcedOrNone'
      BY <1>1, <1>3, <1>5, <1>8, <2>3, <3>2
         DEF ClearedFirst, ForcedOrNone, Doing, Absent, Parts
    <3>7. CryptoThere'
      BY <1>1, <1>3, <1>6, <2>3, <3>3 DEF CryptoThere, Doing
    <3>8. QED
      BY <1>2, <3>4, <3>5, <3>6, <3>7 DEF TreeInv
  <2>7. CASE Elements(l) = ExtendOrgTasks(org, spec) /\ h.do = "extend org"
    <3>1. ASSUME NEW t \in Elements(l)
          PROVE  t.do \in Parts /\ t.do \notin {"new ca", "new msp"}
      <4>1. t \in NewOrgTasks(org, spec) \cup ExtendOrgTasks(org, spec)
        BY <2>7, <3>1
      <4>2. t \in ExtendOrgTasks(org, spec)
        BY <2>7, <3>1
      <4>3. QED
        BY <2>2, <4>1, <4>2, OrgTasksFit
    <3>2. cmd = "extend"
      BY <1>1, <2>2, <2>7 DEF Fits, KindsOf, RenderDos, CryptoDos, OrgTasks, WholeOrgTasks,
                              Parts, TypeOK
    <3>3. StartsAbsent' /\ NoMSPYet'
      BY <1>1, <1>3, <1>5, <1>8, <2>3, <3>1 DEF StartsAbsent, NoMSPYet, Starting, Absent, Parts
    <3>4. ClearedFirst' /\ ForcedOrNone' /\ CryptoThere'
      BY <1>1, <1>3, <1>5, <1>6, <1>8, <2>3, <3>1, <3>2
         DEF ClearedFirst, ForcedOrNone, CryptoThere, Doing, Absent, Parts
    <3>5. QED
      BY <1>2, <3>3, <3>4 DEF TreeInv
  <2>8. QED
    BY <2>1, <2>4, <2>5, <2>6, <2>7 DEF WholeOrgTasks
<1>9. QED
  BY <1>4, <1>7, <1>8 DEF Keeps, h

\* The parts of an org that stands come after its CA.
LEMMA CryptoMade ==
  ASSUME Types, Listed, TreeInv, todo # <<>>, Head(todo).do \in Parts, Head(todo).do # "new ca"
  PROVE  crypto
<1>1. TypeOK /\ Head(todo).do \in OrgTasks
  BY DEF Types, OrgTasks
<1>2. crypto \/ Doing("new ca")
  BY <1>1, HeadFacts DEF TreeInv, CryptoThere
<1>3. ~Doing("new ca")
  BY <1>1, HeadFacts, AfterPart DEF Doing
<1>4. QED
  BY <1>2, <1>3

\* A step that does one part of an org, whose new thing is signed by the org's CA.
LEMMA TreePart ==
  ASSUME Types, Listed, TreeInv, Rest, cmd' = cmd, forced' = forced,
         Head(todo).do \in Parts,
         crypto',
         \A o \in Orgs \ {org} : \A x \in Things : tree'[o][x] = tree[o][x],
         Head(todo).do = "new ca" =>
           tree'[org][MSP] = tree[org][MSP] /\ tree'[org][CA].state = "whole",
         SignedByOwnCA'
  PROVE  TreeInv'
<1> DEFINE h == Head(todo)
           T == Elements(Tail(todo))
<1>1. TypeOK /\ todo # <<>> /\ todo \in Seq(Tasks) /\ h.do \in OrgTasks
  BY DEF Types, TypeOK, Rest, OrgTasks
<1>2. /\ Elements(todo)' = T /\ Elements(todo) = {h} \cup T /\ h \in Elements(todo)
      /\ org \in Orgs
  BY <1>1, ElementsAfter, PrimedElements, HeadFacts
<1>3. ASSUME NEW b \in T
      PROVE  /\ b.do \notin {"new ca", "generate", "extend", "clear crypto"}
             /\ b.do = "new msp" => h.do = "new ca" /\ b.org = org
             /\ b.do \in WholeOrgTasks => b.org # org
  BY <1>1, <1>3, AfterPart
<1> HIDE DEF h, T
<1>4. NoCrypto'
  BY DEF NoCrypto
<1>5. StartsAbsent'
  <2>1. ASSUME NEW o \in Orgs, NEW b \in T, b.do \in {"new org", "new ca"}, b.org = o
        PROVE  Absent(o)'
    <3>1. b.do = "new org" /\ o # org
      BY <1>3, <2>1 DEF WholeOrgTasks
    <3>2. Absent(o)
      BY <1>2, <2>1, <3>1 DEF TreeInv, StartsAbsent, Starting
    <3>3. QED
      BY <3>1, <3>2 DEF Absent
  <2>2. QED
    BY <1>2, <2>1 DEF StartsAbsent, Starting
<1>6. NoMSPYet'
  <2>1. ASSUME NEW o \in Orgs, NEW b \in T, b.do = "new msp", b.org = o
        PROVE  tree'[o][MSP] = None /\ tree'[o][CA].state = "whole"
    <3>1. h.do = "new ca" /\ o = org
      BY <1>3, <2>1
    <3>2. tree[o][MSP] = None
      BY <1>2, <2>1 DEF TreeInv, NoMSPYet, Starting
    <3>3. QED
      BY <3>1, <3>2 DEF h
  <2>2. QED
    BY <1>2, <2>1 DEF NoMSPYet, Starting
<1>7. ClearedFirst' /\ ForcedOrNone'
  BY <1>2, <1>3 DEF ClearedFirst, ForcedOrNone, Doing
<1>8. CryptoThere'
  BY DEF CryptoThere
<1>9. QED
  BY <1>4, <1>5, <1>6, <1>7, <1>8 DEF TreeInv

LEMMA TreeMakes ==
  ASSUME Types, Listed, TreeInv, MakesCA \/ MakesMSP \/ MakesMember,
         cmd' = cmd, forced' = forced
  PROVE  TreeInv'
<1>1. /\ TypeOK /\ todo # <<>> /\ Rest
      /\ org \in Orgs /\ thing \in Things /\ Fits(Head(todo)) /\ Head(todo) \in Elements(todo)
      /\ tree \in [Orgs -> [Things -> Copies]]
      /\ number \in 1..MaxCommands
  <2>1. TypeOK /\ todo # <<>> /\ Rest /\ number \in 0..MaxCommands /\ number >= 1
    BY DEF Types, TypeOK, Rest, MakesCA, MakesMSP, MakesMember
  <2>2. number \in 1..MaxCommands
    BY <2>1, NaturalBounds
  <2>3. tree \in [Orgs -> [Things -> Copies]]
    BY <2>1 DEF TypeOK
  <2>4. QED
    BY <2>1, <2>2, <2>3, HeadFacts
<1>2. SignedByOwnCA
  BY DEF TreeInv
<1>3. CASE MakesCA
  <2>1. /\ Whole(number) \in Copies /\ Whole(number).state = "whole"
        /\ CA \in Things /\ MSP \in Things /\ MSP # CA
    BY <1>1, CopiesStates, ThingsDiffer
  <2>2. \A q \in Orgs, y \in Things :
          tree'[q][y] = IF q = org /\ y = CA THEN Whole(number) ELSE tree[q][y]
    <3>1. Put(org, CA, Whole(number))
      BY <1>3 DEF MakesCA
    <3>2. QED
      BY <1>1, <2>1, <3>1, PutType
  <2>3. \A x \in Things : tree[org][x].state = "none"
    <3>1. Absent(org)
      BY <1>1, <1>3 DEF MakesCA, TreeInv, StartsAbsent, Starting, org
    <3>2. QED
      BY <3>1 DEF Absent, None
  <2>4. SignedByOwnCA'
    BY <1>1, <1>2, <2>1, <2>2, <2>3 DEF SignedByOwnCA
  <2>5. Head(todo).do \in Parts
    BY <1>3 DEF MakesCA, Parts
  <2>6. QED
    BY <1>1, <1>3, <2>1, <2>2, <2>4, <2>5, TreePart DEF MakesCA
<1>4. ASSUME Put(org, thing, tree[org][CA]), thing # CA
      PROVE  /\ SignedByOwnCA'
             /\ \A o \in Orgs \ {org} : \A x \in Things : tree'[o][x] = tree[o][x]
  <2>1. tree[org][CA] \in Copies /\ CA \in Things
    BY <1>1, ThingsDiffer
  <2>2. \A q \in Orgs, y \in Things :
          tree'[q][y] = IF q = org /\ y = thing THEN tree[org][CA] ELSE tree[q][y]
    BY <1>1, <1>4, <2>1, PutType
  <2>3. SignedByOwnCA'
    BY <1>1, <1>2, <1>4, <2>1, <2>2 DEF SignedByOwnCA
  <2>4. QED
    BY <2>2, <2>3
<1>5. CASE MakesMSP
  <2>1. thing = MSP /\ thing # CA
    BY <1>1, <1>5, ThingsDiffer DEF MakesMSP, Fits, PartFits, thing
  <2>2. Head(todo).do \in Parts /\ Head(todo).do # "new ca"
    BY <1>5 DEF MakesMSP, Parts
  <2>3. crypto'
    BY <1>1, <1>5, <2>2, CryptoMade DEF MakesMSP
  <2>4. QED
    BY <1>1, <1>4, <1>5, <2>1, <2>2, <2>3, TreePart DEF MakesMSP
<1>6. CASE MakesMember
  <2>1. thing # CA
    <3>1. thing \in {User, Admin} \cup Nodes
      BY <1>1, <1>6 DEF MakesMember, Fits, PartFits, thing
    <3>2. QED
      BY <3>1, ThingsDiffer DEF Nodes
  <2>2. Head(todo).do \in Parts /\ Head(todo).do # "new ca"
    BY <1>6 DEF MakesMember, Parts
  <2>3. crypto'
    BY <1>1, <1>6, <2>2, CryptoMade DEF MakesMember
  <2>4. QED
    BY <1>1, <1>4, <1>6, <2>1, <2>2, <2>3, TreePart DEF MakesMember
<1>7. QED
  BY <1>3, <1>5, <1>6

\* A command that ends on a thing cut short.
LEMMA TreeShort ==
  ASSUME Types, Listed, TreeInv, MakesShort
  PROVE  TreeInv'
<1>1. /\ TypeOK /\ todo # <<>> /\ todo' = <<>>
      /\ org \in Orgs /\ thing \in Things /\ Fits(Head(todo)) /\ Head(todo) \in Elements(todo)
      /\ tree \in [Orgs -> [Things -> Copies]]
  BY HeadFacts DEF Types, TypeOK, MakesShort, Ends
<1>2. PICK x \in Things :
        /\ Put(org, x, Short)
        /\ crypto'
  <2>1. CASE Head(todo).do = "new ca" /\ crypto' = TRUE /\ Put(org, CA, Short)
    BY <2>1, ThingsDiffer
  <2>2. CASE /\ Head(todo).do \in {"new msp", "new member"}
             /\ UNCHANGED crypto /\ Put(org, thing, Short)
    <3>1. Head(todo).do \in Parts /\ Head(todo).do # "new ca"
      BY <2>2 DEF Parts
    <3>2. crypto
      BY <1>1, <3>1, CryptoMade
    <3>3. QED
      BY <1>1, <2>2, <3>2
  <2>3. QED
    BY <2>1, <2>2 DEF MakesShort
<1>3. Short \in Copies /\ Short.state # "whole"
  BY DEF Copies, Short
<1>4. \A q \in Orgs, y \in Things :
        tree'[q][y] = IF q = org /\ y = x THEN Short ELSE tree[q][y]
  BY <1>1, <1>2, <1>3, PutType
<1>5. SignedByOwnCA'
  BY <1>3, <1>4, ThingsDiffer DEF TreeInv, SignedByOwnCA
<1>6. NoCrypto'
  BY <1>2 DEF NoCrypto
<1>7. QED
  BY <1>1, <1>5, <1>6, TreeAtEnd

\* Removing the tree, or a part of it.
LEMMA TreeCleared ==
  ASSUME Types, Listed, TreeInv, Clears,
         cmd' = cmd, forced' = forced
  PROVE  TreeInv'
<1>1. None.state # "whole" /\ Short.state # "whole"
  BY DEF None, Short
<1>2. \A o \in Orgs, x \in Things : tree'[o][x] \in {tree[o][x], None, Short}
  BY DEF Clears
<1>3. SignedByOwnCA'
  BY <1>1, <1>2, ThingsDiffer DEF TreeInv, SignedByOwnCA
<1>4. CASE Ends /\ crypto /\ UNCHANGED crypto
  <2>1. crypto'
    BY <1>4
  <2>2. NoCrypto'
    BY <2>1 DEF NoCrypto
  <2>3. QED
    BY <1>3, <1>4, <2>2, TreeAtEnd DEF Ends
<1>5. CASE Rest /\ crypto' = FALSE /\ \A o \in Orgs : \A x \in Things : tree'[o][x] = None
  <2>1. \A o \in Orgs : Absent(o)'
    BY <1>5 DEF Clears, Absent
  <2>2. /\ TypeOK /\ todo # <<>> /\ todo \in Seq(Tasks)
        /\ Is("clear crypto")
    BY <1>5 DEF Types, TypeOK, Clears, Rest, Is
  <2>3. \A t \in Elements(todo) : t.do \notin OrgTasks
    BY <2>2, NoOrgsYet
  <2>4. Elements(todo)' \subseteq Elements(todo) /\ Elements(todo)' = Elements(todo')
    BY <1>5, <2>2, ElementsAfter, PrimedElements
  <2>5. cmd # "extend"
    <3>1. Head(todo).do \in KindsOf(cmd) /\ Head(todo).do = "clear crypto"
      BY <2>2, HeadFacts DEF Fits, Is
    <3>2. QED
      BY <3>1 DEF KindsOf, OrgTasks, WholeOrgTasks, Parts
  <2>6. NoCrypto' /\ StartsAbsent' /\ ClearedFirst'
    BY <2>1 DEF NoCrypto, StartsAbsent, ClearedFirst
  <2>7. NoMSPYet'
    BY <2>3, <2>4 DEF NoMSPYet, Starting, OrgTasks, Parts
  <2>8. ForcedOrNone' /\ CryptoThere'
    BY <1>5, <2>3, <2>4, <2>5 DEF ForcedOrNone, CryptoThere, OrgTasks
  <2>9. QED
    BY <1>3, <2>6, <2>7, <2>8 DEF TreeInv
<1>6. QED
  BY <1>4, <1>5 DEF Clears

LEMMA TreeStart == Init => TreeInv
<1> SUFFICES ASSUME Init
             PROVE  TreeInv
  OBVIOUS
<1>1. todo = <<>> /\ Elements(todo) = {}
  BY ElementsEmpty DEF Init
<1>2. \A o \in Orgs, x \in Things : tree[o][x] = None
  BY DEF Init
<1>3. None.state # "whole"
  BY DEF None
<1>4. SignedByOwnCA
  BY <1>2, <1>3 DEF SignedByOwnCA
<1>5. NoCrypto
  BY <1>2 DEF NoCrypto, Absent
<1>6. StartsAbsent /\ NoMSPYet /\ ClearedFirst /\ ForcedOrNone /\ CryptoThere
  BY <1>1 DEF StartsAbsent, NoMSPYet, ClearedFirst, ForcedOrNone, CryptoThere, Doing, Starting
<1>7. QED
  BY <1>4, <1>5, <1>6 DEF TreeInv

LEMMA TreeStays == Types /\ Listed /\ TreeInv /\ [Next]_vars => TreeInv'
<1> SUFFICES ASSUME Types, Listed, TreeInv, [Next]_vars
             PROVE  TreeInv'
  OBVIOUS
<1>1. CASE DoTask \/ CutShort
  <2>1. cmd' = cmd /\ forced' = forced
    BY <1>1, TaskSteps DEF Proceeds, Fails
  <2>2. Keeps \/ MakesCA \/ MakesMSP \/ MakesMember \/ MakesShort \/ Clears
    BY <1>1, TreeSteps
  <2>3. QED
    BY <2>1, <2>2, TreeKept, TreeMakes, TreeShort, TreeCleared
<1>2. CASE Command
  BY <1>2, TreeBegins
<1>3. CASE UNCHANGED vars
  <2>1. /\ todo' = todo /\ cmd' = cmd /\ forced' = forced
        /\ crypto' = crypto /\ tree' = tree
    BY <1>3 DEF vars, run, certs
  <2>2. Elements(todo)' = Elements(todo)
    BY <2>1 DEF Elements
  <2>3. \A do : Doing(do)' <=> Doing(do)
    BY <2>2 DEF Doing
  <2>4. \A do, o : Starting(do, o)' <=> Starting(do, o)
    BY <2>2 DEF Starting
  <2>5. \A o : Absent(o)' <=> Absent(o)
    BY <2>1 DEF Absent
  <2>6. SignedByOwnCA' /\ NoCrypto' /\ StartsAbsent' /\ NoMSPYet'
    BY <2>1, <2>4, <2>5 DEF TreeInv, SignedByOwnCA, NoCrypto, StartsAbsent, NoMSPYet
  <2>7. ClearedFirst' /\ ForcedOrNone' /\ CryptoThere'
    BY <2>1, <2>2, <2>3, <2>5 DEF TreeInv, ClearedFirst, ForcedOrNone, CryptoThere
  <2>8. QED
    BY <2>6, <2>7 DEF TreeInv
<1>4. QED
  BY <1>1, <1>2, <1>3 DEF Next

LEMMA AlwaysTree == Spec => [](Types /\ Listed /\ TreeInv)
<1>1. Init => Types /\ Listed /\ TreeInv
  BY TypesStart, ListedStart, TreeStart
<1>2. Types /\ Listed /\ TreeInv /\ [Next]_vars => Types' /\ Listed' /\ TreeInv'
  BY TypesStay, ListedStays, TreeStays
<1>3. QED
  BY <1>1, <1>2, PTL DEF Spec

\* No identity outlives its CA: whatever the commands and wherever they were cut short, a
\* whole directory of an org whose CA is whole was signed by that CA
\* (generatePeerOrg, extendPeerOrg).
THEOREM MaterialSignedByOwnCA == Spec => []SignedByOwnCA
<1>1. Types /\ Listed /\ TreeInv => SignedByOwnCA
  BY DEF TreeInv
<1>2. QED
  BY <1>1, AlwaysTree, PTL

\* A task changes what is missing, unless it removes the tree.
LEMMA OnlyMissingMade ==
  ASSUME Types, Listed, TreeInv, DoTask \/ CutShort,
         NEW o \in Orgs, NEW x \in Things, tree'[o][x] # tree[o][x]
  PROVE  tree[o][x] = None \/ Is("clear crypto")
<1>1. Keeps \/ MakesCA \/ MakesMSP \/ MakesMember \/ MakesShort \/ Clears
  BY TreeSteps
<1>2. /\ TypeOK /\ todo # <<>>
      /\ tree \in [Orgs -> [Things -> Copies]]
  BY <1>1 DEF Types, TypeOK, Keeps, MakesCA, MakesMSP, MakesMember, MakesShort, Clears, Rest,
              Ends, Expands
<1>3. org \in Orgs /\ thing \in Things /\ Head(todo) \in Elements(todo) /\ Fits(Head(todo))
  BY <1>2, HeadFacts
<1>4. ASSUME NEW y \in Things, NEW copy, Put(org, y, copy)
      PROVE  o = org /\ x = y
  BY <1>2, <1>3, <1>4 DEF Put
<1>5. Head(todo).do = "new ca" => \A y \in Things : tree[org][y] = None
  BY <1>2, <1>3 DEF TreeInv, StartsAbsent, Starting, Absent, org
<1>6. Head(todo).do = "new msp" => thing = MSP /\ tree[org][MSP] = None
  BY <1>2, <1>3 DEF TreeInv, NoMSPYet, Starting, Fits, PartFits, org, thing
<1>7. CASE Keeps
  BY <1>7 DEF Keeps
<1>8. CASE MakesCA
  BY <1>3, <1>4, <1>5, <1>8, ThingsDiffer DEF MakesCA
<1>9. CASE MakesMSP
  BY <1>3, <1>4, <1>6, <1>9, ThingsDiffer DEF MakesMSP
<1>10. CASE MakesMember
  BY <1>3, <1>4, <1>10 DEF MakesMember
<1>11. CASE MakesShort
  <2>1. CASE Head(todo).do = "new ca" /\ Put(org, CA, Short)
    BY <1>3, <1>4, <1>5, <2>1, ThingsDiffer
  <2>2. CASE tree[org][thing] = None /\ Put(org, thing, Short)
    BY <1>3, <1>4, <2>2
  <2>3. QED
    BY <1>11, <2>1, <2>2 DEF MakesShort
<1>12. CASE Clears
  BY <1>2, <1>12 DEF Clears, Is
<1>13. QED
  BY <1>1, <1>7, <1>8, <1>9, <1>10, <1>11, <1>12

\* What is whole is replaced or removed only by a command that was given --force, or by
\* an ansible-vars that found no crypto-config to keep (doGenerate, generateFrom).
THEOREM MaterialKeptWithoutForce == Spec => KeptWithoutForce
<1> DEFINE Kept ==
      \A o \in Orgs : \A x \in Things :
        tree[o][x].state = "whole" /\ tree'[o][x] # tree[o][x] => forced
<1>1. ASSUME Types, Listed, TreeInv, Next
      PROVE  Kept
  <2>1. SUFFICES ASSUME NEW o \in Orgs, NEW x \in Things,
                        tree[o][x].state = "whole", tree'[o][x] # tree[o][x]
                 PROVE  forced
    OBVIOUS
  <2>2. DoTask \/ CutShort
    BY <1>1, <2>1, SpecSteps DEF Next, certs
  <2>3. tree[o][x] # None
    BY <2>1 DEF None
  <2>4. Is("clear crypto")
    BY <1>1, <2>1, <2>2, <2>3, OnlyMissingMade
  <2>5. Doing("clear crypto")
    BY <1>1, <2>4, HeadFacts DEF Is, Doing, Types
  <2>6. crypto
    BY <1>1, <2>3 DEF TreeInv, NoCrypto, Absent
  <2>7. QED
    BY <1>1, <2>5, <2>6 DEF TreeInv, ForcedOrNone
<1>2. ASSUME Types, Listed, TreeInv, [Next]_vars
      PROVE  [Kept]_vars
  BY <1>1, <1>2
<1>3. QED
  BY <1>2, AlwaysTree, PTL DEF Spec, KeptWithoutForce

-----------------------------------------------------------------------------
(* Whole: what a generate has made, and what it has still to make.          *)

Making == cmd = "generate" /\ todo # <<>>
\* Nothing that an earlier command left is in the tree.
CleanTime == made = "made" \/ (Making /\ ~Doing("clear crypto"))
\* The tree is, or will be, of the network.
CompleteTime == (made = "made" /\ cmd \in {"generate", "extend"}) \/ Making

Maker(x) == IF x = CA THEN "new ca" ELSE IF x = MSP THEN "new msp" ELSE "new member"
Pending(do, o, x) == Task(do, o, x) \in Elements(todo)
There(o, x) == tree[o][x] # None \/ Pending(Maker(x), o, x)

\* What every org has that was made whole, whatever the network's size.
Basics(o) == {MSP, Admin}

NoShort ==
  /\ \A o \in Orgs : \A x \in Things : tree[o][x] # Short
  /\ \A o \in Orgs : \A p \in Places : admincert[o][p] # "short"
CAStands == \A o \in Orgs : OrgExists(o) => tree[o][CA].state = "whole"
BasicsThere ==
  \A o \in Orgs : OrgExists(o) \/ Starting("new ca", o) => \A x \in Basics(o) : There(o, x)
CertsThere ==
  ~NodeOUs => \A o \in Orgs : \A p \in Places :
    There(o, p) => admincert[o][p] = "whole" \/ Pending("copy cert", o, p)
Sound == NoShort /\ CAStands /\ BasicsThere /\ CertsThere
Clean == CleanTime => Sound

OrgThere(o) ==
  \/ Starting("new org", o) \/ Starting("extend org", o)
  \/ \A x \in Members(o, spec) : There(o, x)
Full ==
  \/ Doing("generate") \/ Doing("extend")
  \/ spec = Unreadable
  \/ spec \in Readings /\ \A o \in OrgsOf(spec) : OrgThere(o)
Complete == CompleteTime => Full

\* A task done that is not the removal of the tree.
Builds == DoTask /\ Proceeds /\ ~Is("clear crypto")

LEMMA BuildsFacts ==
  ASSUME Types, Listed, Builds
  PROVE  /\ TypeOK /\ todo # <<>> /\ (Rest \/ Expands)
         /\ todo \in Seq(Tasks) /\ todo' \in Seq(Tasks)
         /\ Elements(todo)' = Elements(todo')
         /\ Elements(Tail(todo)) \subseteq Elements(todo')
         /\ Rest => Elements(todo') = Elements(Tail(todo))
         /\ cmd' = cmd /\ forced' = forced
<1>1. Rest \/ Expands
  <2>1. CASE Ends /\ Fails
    BY <2>1 DEF Builds, Proceeds, Fails
  <2>2. QED
    BY <2>1, TaskSteps DEF Builds
<1>2. TypeOK /\ todo # <<>> /\ todo \in Seq(Tasks)
  BY <1>1 DEF Types, TypeOK, Rest, Expands
<1>3. CASE Rest
  BY <1>2, <1>3, ElementsAfter, PrimedElements DEF Builds, Proceeds
<1>4. CASE Expands
  <2>1. PICK l \in Seq(Tasks) : todo' = l \o Tail(todo)
    BY <1>4, ExpandsTo
  <2>2. QED
    BY <1>2, <1>4, <2>1, ElementsAfter, PrimedElements DEF Builds, Proceeds
<1>5. QED
  BY <1>1, <1>3, <1>4

\* A part that is done is of the task at the head.
LEMMA HeadTask ==
  ASSUME NEW do, NEW o, NEW x, Task(do, o, x) = Head(todo)
  PROVE  Head(todo).do = do /\ org = o /\ thing = x
<1>1. Task(do, o, x).do = do /\ Task(do, o, x).org = o /\ Task(do, o, x).thing = x
  BY DEF Task
<1>2. QED
  BY <1>1 DEF org, thing

\* What the tasks do to the certificates.
LEMMA BuildSteps ==
  ASSUME Builds
  PROVE  \/ NewCA \/ NewMSP \/ NewMember \/ CopyCert
         \/ /\ UNCHANGED certs
            /\ Head(todo).do \notin {"new ca", "new msp", "new member", "copy cert"}
<1> USE DEF Is
<1>1. CASE RenderSpec \/ RenderTx
  BY <1>1 DEF RenderSpec, RenderTx
<1>2. CASE GenerateAll \/ ExtendAll
  BY <1>2 DEF GenerateAll, ExtendAll, ReadSpec
<1>3. CASE StartOrg \/ ExtendStartedOrg
  BY <1>3 DEF StartOrg, ExtendStartedOrg
<1>4. CASE LoadCA \/ Keys \/ Zip
  BY <1>4 DEF LoadCA, Keys, Zip
<1>5. CASE ClearArtifacts \/ Block \/ System
  BY <1>5 DEF ClearArtifacts, Block, System, WriteArtifact
<1>6. CASE ClearCrypto
  BY <1>6 DEF ClearCrypto, Builds
<1>7. QED
  BY <1>1, <1>2, <1>3, <1>4, <1>5, <1>6 DEF Builds, DoTask

\* An MSP is made from a CA that is whole.
LEMMA WholeForMSP ==
  ASSUME Types, Listed, TreeInv, Is("new msp")
  PROVE  tree[org][CA].state = "whole"
<1>1. TypeOK /\ todo # <<>> /\ Head(todo).do = "new msp" /\ Head(todo).do \in OrgTasks
  BY DEF Types, Is, OrgTasks, Parts
<1>2. /\ Elements(todo) = {Head(todo)} \cup Elements(Tail(todo)) /\ org \in Orgs
      /\ Head(todo) \in Elements(todo)
  BY <1>1, HeadFacts
<1>3. \A b \in Elements(Tail(todo)) : b.do # "new ca"
  BY <1>1, AfterPart
<1>4. ~Starting("new ca", org)
  BY <1>1, <1>2, <1>3 DEF Starting
<1>5. Starting("new msp", org)
  BY <1>1, <1>2 DEF Starting, org
<1>6. QED
  BY <1>2, <1>4, <1>5 DEF TreeInv, NoMSPYet

\* What is there, or is about to be made, is there or about to be made after the next
\* task.
LEMMA StaysThere ==
  ASSUME Types, Listed, TreeInv, Builds, NEW o \in Orgs, NEW x \in Things, There(o, x)
  PROVE  There(o, x)'
<1>1. TypeOK /\ tree \in [Orgs -> [Things -> Copies]] /\ todo # <<>>
  <2>1. TypeOK /\ todo # <<>>
    BY BuildsFacts
  <2>2. QED
    BY <2>1 DEF TypeOK
<1>2. Elements(todo) = {Head(todo)} \cup Elements(Tail(todo))
      /\ Fits(Head(todo)) /\ Head(todo) \in Elements(todo)
      /\ org \in Orgs /\ thing \in Things
  BY <1>1, HeadFacts
<1>3. CASE tree[o][x] # None
  <2>1. tree'[o][x] = tree[o][x]
    BY <1>3, OnlyMissingMade DEF Builds
  <2>2. QED
    BY <1>3, <2>1 DEF There
<1>4. CASE Task(Maker(x), o, x) \in Elements(Tail(todo))
  BY <1>4, BuildsFacts DEF There, Pending
<1>5. CASE Task(Maker(x), o, x) = Head(todo)
  <2>1. Head(todo).do = Maker(x) /\ org = o /\ thing = x
    BY <1>5, HeadTask
  <2>2. \A c \in Copies : Put(o, x, c) /\ c # None => tree'[o][x] # None
    BY <1>1, PutType
  <2>3. CASE NewCA
    <3>1. Maker(x) = "new ca"
      BY <2>1, <2>3 DEF NewCA, Is
    <3>2. x = CA
      BY <3>1 DEF Maker
    <3>3. Whole(number) \in Copies /\ Whole(number) # None
      BY <1>1, BuildsFacts, NaturalBounds, CopiesStates DEF Types, TypeOK
    <3>4. QED
      BY <2>1, <2>2, <2>3, <3>2, <3>3 DEF NewCA, There
  <2>4. CASE NewMSP
    <3>1. Maker(x) = "new msp"
      BY <2>1, <2>4 DEF NewMSP, Is
    <3>2. x = MSP
      BY <3>1 DEF Maker
    <3>3. tree[o][CA].state = "whole" /\ tree[o][CA] \in Copies
      BY <1>1, <2>1, <2>4, WholeForMSP, ThingsDiffer DEF NewMSP
    <3>4. tree[o][CA] # None
      BY <3>3 DEF None
    <3>5. Put(o, x, tree[o][CA])
      BY <2>1, <2>4, <3>2 DEF NewMSP
    <3>6. QED
      BY <2>2, <3>3, <3>4, <3>5 DEF There
  <2>5. CASE NewMember
    <3>1. CASE tree[org][thing] # None
      BY <1>3, <2>1, <3>1
    <3>2. CASE tree[org][thing] = None /\ tree[org][CA].state = "whole"
               /\ Put(org, thing, tree[org][CA])
      <4>1. tree[o][CA] \in Copies
        BY <1>1, ThingsDiffer
      <4>2. QED
        BY <2>1, <2>2, <3>2, <4>1 DEF There, None
    <3>3. CASE Refused
      BY <3>3 DEF Refused, Builds, Proceeds
    <3>4. QED
      BY <2>5, <3>1, <3>2, <3>3 DEF NewMember
  <2>6. CASE Head(todo).do \notin {"new ca", "new msp", "new member"}
    BY <2>1, <2>6 DEF Maker
  <2>7. QED
    BY <2>3, <2>4, <2>5, <2>6, BuildSteps DEF CopyCert, Is
<1>6. QED
  BY <1>2, <1>3, <1>4, <1>5 DEF There, Pending

\* What a task changes in the tree is the thing it was to make, which is then whole.
LEMMA BuildsTree ==
  ASSUME Types, Listed, TreeInv, Builds, NEW o \in Orgs, NEW x \in Things,
         tree'[o][x] # tree[o][x]
  PROVE  /\ Pending(Maker(x), o, x)
         /\ tree[o][x] = None /\ tree'[o][x].state = "whole"
         /\ x # CA => tree[o][CA].state = "whole" /\ tree'[o][x] = tree[o][CA]
<1>1. TypeOK /\ tree \in [Orgs -> [Things -> Copies]] /\ todo # <<>>
  <2>1. TypeOK /\ todo # <<>>
    BY BuildsFacts
  <2>2. QED
    BY <2>1 DEF TypeOK
<1>2. /\ Head(todo) \in Elements(todo) /\ Fits(Head(todo)) /\ Head(todo) \in Tasks
      /\ org \in Orgs /\ thing \in Things
  BY <1>1, HeadFacts
<1>3. tree[o][x] = None
  BY OnlyMissingMade DEF Builds
<1>4. ASSUME NEW y \in Things, NEW copy, Put(org, y, copy)
      PROVE  o = org /\ x = y /\ tree'[o][x] = copy
  BY <1>1, <1>2, <1>4 DEF Put
<1>5. ASSUME Head(todo).do = Maker(x), org = o, thing = x
      PROVE  Pending(Maker(x), o, x)
  <2>1. Head(todo) = Task(Head(todo).do, Head(todo).org, Head(todo).thing)
    BY <1>2 DEF Tasks, Task
  <2>2. QED
    BY <1>2, <1>5, <2>1 DEF Pending, org, thing
<1>6. CASE NewCA
  <2>1. Put(org, CA, Whole(number)) /\ Head(todo).do = "new ca"
    BY <1>6 DEF NewCA, Is
  <2>2. o = org /\ x = CA /\ tree'[o][x] = Whole(number)
    BY <1>4, <2>1, ThingsDiffer
  <2>3. thing = CA
    BY <1>2, <2>1 DEF Fits, PartFits, thing
  <2>4. Whole(number).state = "whole"
    BY DEF Whole
  <2>5. Maker(x) = "new ca"
    BY <2>2 DEF Maker
  <2>6. QED
    BY <1>3, <1>5, <2>1, <2>2, <2>3, <2>4, <2>5
<1>7. CASE NewMSP
  <2>1. Put(org, MSP, tree[org][CA]) /\ Head(todo).do = "new msp"
    BY <1>7 DEF NewMSP, Is
  <2>2. o = org /\ x = MSP /\ tree'[o][x] = tree[o][CA]
    BY <1>4, <2>1, ThingsDiffer
  <2>3. thing = MSP
    BY <1>2, <2>1 DEF Fits, PartFits, thing
  <2>4. Maker(x) = "new msp"
    BY <2>2, ThingsDiffer DEF Maker
  <2>5. tree[org][CA].state = "whole"
    BY <1>7, WholeForMSP DEF NewMSP
  <2>6. QED
    BY <1>3, <1>5, <2>1, <2>2, <2>3, <2>4, <2>5
<1>8. CASE NewMember
  <2>1. Head(todo).do = "new member" /\ thing \in {User, Admin} \cup Nodes
    BY <1>2, <1>8 DEF NewMember, Is, Fits, PartFits, thing
  <2>2. Put(org, thing, tree[org][CA]) /\ tree[org][CA].state = "whole"
    BY <1>8 DEF NewMember, Refused, Builds, Proceeds
  <2>3. o = org /\ x = thing /\ tree'[o][x] = tree[o][CA]
    BY <1>2, <1>4, <2>2
  <2>4. thing # CA /\ thing # MSP
    BY <2>1, ThingsDiffer DEF Nodes
  <2>5. Maker(x) = "new member"
    BY <2>3, <2>4 DEF Maker
  <2>6. QED
    BY <1>3, <1>5, <2>1, <2>2, <2>3, <2>5
<1>9. CASE UNCHANGED tree
  BY <1>9
<1>10. QED
  BY <1>6, <1>7, <1>8, <1>9, BuildSteps DEF CopyCert, certs

\* What a task changes in the admincerts becomes whole, if all is whole.
LEMMA BuildsCerts ==
  ASSUME Types, Listed, TreeInv, Builds, NoShort, NEW o \in Orgs, NEW p \in Places
  PROVE  /\ admincert'[o][p] \in {admincert[o][p], "whole"}
         /\ Head(todo) = Task("copy cert", o, p) => admincert'[o][p] = "whole"
<1>1. TypeOK /\ todo # <<>>
  BY BuildsFacts
<1>2. /\ admincert \in [Orgs -> [Places -> {"none", "short", "whole"}]]
      /\ tree \in [Orgs -> [Things -> Copies]]
  BY <1>1 DEF TypeOK
<1>3. org \in Orgs /\ Fits(Head(todo))
  BY <1>1, HeadFacts
<1>4. CASE CopyCert
  <2>1. thing \in Places /\ Admin \in Things
    BY <1>3, <1>4, ThingsDiffer DEF CopyCert, Is, Fits, PartFits, thing
  <2>2. CASE admincert[org][thing] # "none" /\ UNCHANGED admincert
    <3>1. admincert[org][thing] = "whole"
      BY <1>2, <1>3, <2>1, <2>2 DEF NoShort
    <3>2. QED
      BY <2>2, <3>1, HeadTask
  <2>3. CASE /\ tree[org][Admin] # None
             /\ \E copy \in {"whole", tree[org][Admin].state} :
                  admincert' = [admincert EXCEPT ![org][thing] = copy]
    <3>1. tree[org][Admin] \in Copies /\ tree[org][Admin] # Short
      BY <1>2, <1>3, <2>1 DEF NoShort
    <3>2. tree[org][Admin].state = "whole"
      BY <2>3, <3>1, CopiesStates
    <3>3. admincert' = [admincert EXCEPT ![org][thing] = "whole"]
      BY <2>3, <3>2
    <3>4. admincert'[o][p] = IF o = org /\ p = thing THEN "whole" ELSE admincert[o][p]
      BY <1>2, <1>3, <2>1, <3>3
    <3>5. QED
      BY <3>4, HeadTask
  <2>4. CASE Refused
    BY <2>4 DEF Refused, Builds, Proceeds
  <2>5. QED
    BY <1>4, <2>2, <2>3, <2>4 DEF CopyCert
<1>5. CASE UNCHANGED admincert /\ Head(todo).do # "copy cert"
  BY <1>5, HeadTask
<1>6. QED
  BY <1>4, <1>5, BuildSteps DEF NewCA, NewMSP, NewMember, Is, certs

\* The tasks that the start of an org adds.
OrgStarted(S) ==
  /\ spec \in Readings /\ org \in Orgs /\ S \subseteq Elements(todo')
  /\ \/ S = NewOrgTasks(org, spec)
     \/ S = ExtendOrgTasks(org, spec) /\ OrgExists(org) /\ Head(todo).do = "extend org"

LEMMA NewTasks ==
  ASSUME Types, Listed, Builds, NEW t \in Elements(todo'), t \notin Elements(Tail(todo))
  PROVE  \/ t.do \in WholeOrgTasks
         \/ \E S : OrgStarted(S) /\ t \in S
<1>1. TypeOK /\ todo # <<>> /\ todo \in Seq(Tasks) /\ Expands
  BY BuildsFacts
<1>2. PICK l \in Seq(Tasks) :
        /\ todo' = l \o Tail(todo)
        /\ \/ /\ Head(todo).do = "generate"
              /\ Elements(l) = {Task("new org", o, CA) : o \in OrgsOf(spec)}
           \/ /\ Head(todo).do = "extend"
              /\ Elements(l) = {Task("extend org", o, CA) : o \in OrgsOf(spec)}
           \/ /\ Head(todo).do = "new org"
              /\ Elements(l) = NewOrgTasks(org, spec)
           \/ /\ Head(todo).do = "extend org" /\ OrgExists(org)
              /\ Elements(l) = ExtendOrgTasks(org, spec)
           \/ /\ Head(todo).do = "extend org" /\ ~OrgExists(org)
              /\ Elements(l) = NewOrgTasks(org, spec)
  BY <1>1, ExpandsTo
<1>3. Elements(todo') = Elements(l) \cup Elements(Tail(todo))
  BY <1>1, <1>2, ElementsAfter
<1>4. t \in Elements(l) /\ Elements(l) \subseteq Elements(todo')
  BY <1>3
<1>5. spec \in Readings /\ org \in Orgs
  BY <1>1, ExpandsTo, HeadFacts
<1>6. CASE \E do \in WholeOrgTasks : Elements(l) = {Task(do, o, CA) : o \in OrgsOf(spec)}
  <2>1. PICK do \in WholeOrgTasks, o \in OrgsOf(spec) : t = Task(do, o, CA)
    BY <1>4, <1>6
  <2>2. QED
    BY <2>1 DEF Task
<1>7. CASE OrgStarted(Elements(l))
  BY <1>4, <1>7
<1>8. QED
  BY <1>2, <1>4, <1>5, <1>6, <1>7 DEF OrgStarted, WholeOrgTasks

\* A new node, and a new MSP, is followed by the copy of the admin's certificate.
LEMMA CertsFollow ==
  ASSUME NEW n \in Readings, NEW q \in Orgs, NEW o \in Orgs, NEW p \in Places, ~NodeOUs,
         NEW S \in {NewOrgTasks(q, n), ExtendOrgTasks(q, n)},
         Task(Maker(p), o, p) \in S
  PROVE  Task("copy cert", o, p) \in S
<1> DEFINE t == Task(Maker(p), o, p)
<1>1. t.do = Maker(p) /\ t.org = o /\ t.thing = p
  BY DEF Task
<1>2. t \in NewOrgTasks(q, n) \cup ExtendOrgTasks(q, n)
  OBVIOUS
<1>3. o = q
  BY <1>1, <1>2, OrgTasksFit
<1>4. CASE p = MSP
  <2>1. t.do = "new msp"
    BY <1>1, <1>4, ThingsDiffer DEF Maker
  <2>2. S = NewOrgTasks(q, n)
    <3>1. \A u \in ExtendOrgTasks(q, n) : u.do # "new msp"
      BY OrgTasksFit
    <3>2. t \notin ExtendOrgTasks(q, n)
      BY <2>1, <3>1
    <3>3. QED
      BY <3>2
  <2>3. QED
    BY <1>3, <1>4, <2>2 DEF NewOrgTasks, MSPCertTasks
<1>5. CASE p \in Nodes
  <2>1. PICK i \in 1..MaxNodes : p = Node(i)
    BY <1>5 DEF Nodes
  <2>2. Maker(p) = "new member" /\ p \notin {CA, MSP, User, Admin}
    BY <2>1, ThingsDiffer DEF Maker
  <2>3. t \in NodesTasks("new member", q, n)
    <3>1. t.do = "new member" /\ t.thing \notin {CA, MSP, User, Admin}
      BY <1>1, <2>2
    <3>2. ASSUME NEW u \in UserTasks(q, n)
          PROVE  u.thing = User
      <4>1. u = Task("new member", q, User)
        BY DEF UserTasks
      <4>2. QED
        BY <4>1 DEF Task
    <3>3. ASSUME NEW u \in MSPCertTasks(q) \cup NodesCertTasks(q, n)
          PROVE  u.do = "copy cert"
      <4>1. PICK y : u = Task("copy cert", q, y)
        BY DEF MSPCertTasks, NodesCertTasks, NodesTasks
      <4>2. QED
        BY <4>1 DEF Task
    <3>4. /\ Task("new ca", q, CA).thing = CA /\ Task("load ca", q, CA).thing = CA
          /\ Task("new msp", q, MSP).thing = MSP /\ Task("new member", q, Admin).thing = Admin
      BY DEF Task
    <3>5. t \notin UserTasks(q, n)
      BY <3>1, <3>2
    <3>6. t \notin MSPCertTasks(q) /\ t \notin NodesCertTasks(q, n)
      BY <3>1, <3>3
    <3>7. t \notin {Task("new ca", q, CA), Task("load ca", q, CA), Task("new msp", q, MSP),
                    Task("new member", q, Admin)}
      BY <3>1, <3>4
    <3> HIDE DEF t
    <3>8. QED
      BY <1>2, <3>5, <3>6, <3>7 DEF NewOrgTasks, ExtendOrgTasks
  <2>4. PICK j \in 1..NodesOf(q, n) : t = Task("new member", q, Node(j))
    BY <2>3 DEF NodesTasks
  <2>5. p = Node(j)
    BY <2>4 DEF Task
  <2>6. Task("copy cert", o, p) \in NodesCertTasks(q, n)
    BY <1>3, <2>5 DEF NodesCertTasks, NodesTasks
  <2>7. QED
    BY <2>6 DEF NewOrgTasks, ExtendOrgTasks
<1>6. QED
  BY <1>4, <1>5 DEF Places

\* A task keeps the tree sound.
LEMMA SoundStays ==
  ASSUME Types, Listed, TreeInv, Builds, Sound
  PROVE  Sound'
<1>1. TypeOK /\ todo # <<>> /\ Elements(todo)' = Elements(todo')
      /\ Elements(Tail(todo)) \subseteq Elements(todo')
      /\ Elements(todo) = {Head(todo)} \cup Elements(Tail(todo))
  BY BuildsFacts, HeadFacts
<1>3. NoShort'
  <2>1. \A o \in Orgs : \A x \in Things : tree'[o][x] # Short
    BY BuildsTree DEF Sound, NoShort, Short
  <2>2. \A o \in Orgs : \A p \in Places : admincert'[o][p] # "short"
    BY BuildsCerts DEF Sound, NoShort
  <2>3. QED
    BY <2>1, <2>2 DEF NoShort
<1>4. ASSUME NEW o \in Orgs, OrgExists(o)', ~OrgExists(o)
      PROVE  tree'[o][CA].state = "whole" /\ Starting("new ca", o)
  <2>1. PICK x \in Things : tree'[o][x] # None
    BY <1>4 DEF OrgExists
  <2>2. tree[o][x] = None /\ tree[o][CA] = None
    BY <1>4, ThingsDiffer DEF OrgExists
  <2>3. x = CA
    <3>1. None.state # "whole"
      BY DEF None
    <3>2. QED
      BY <2>1, <2>2, <3>1, BuildsTree
  <2>4. Pending("new ca", o, CA) /\ tree'[o][CA].state = "whole"
    BY <2>1, <2>2, <2>3, BuildsTree DEF Maker
  <2>5. Task("new ca", o, CA).do = "new ca" /\ Task("new ca", o, CA).org = o
    BY DEF Task
  <2>6. QED
    BY <2>4, <2>5 DEF Pending, Starting
<1>5. CAStands'
  <2>1. SUFFICES ASSUME NEW o \in Orgs, OrgExists(o)'
                 PROVE  tree'[o][CA].state = "whole"
    BY DEF CAStands
  <2>2. CASE OrgExists(o)
    BY <2>2, BuildsTree, ThingsDiffer DEF Sound, CAStands
  <2>3. QED
    BY <1>4, <2>1, <2>2
<1>6. BasicsThere'
  <2>1. SUFFICES ASSUME NEW o \in Orgs, (OrgExists(o) \/ Starting("new ca", o))',
                        NEW x \in Basics(o)
                 PROVE  There(o, x)'
    BY DEF BasicsThere, Basics
  <2>2. x \in Things
    BY ThingsDiffer DEF Basics
  <2>3. CASE OrgExists(o) \/ Starting("new ca", o)
    BY <2>2, <2>3, StaysThere DEF Sound, BasicsThere
  <2>4. CASE OrgExists(o)' /\ ~OrgExists(o)
    BY <1>4, <2>3, <2>4
  <2>5. CASE Starting("new ca", o)' /\ ~Starting("new ca", o)
    <3>1. PICK t \in Elements(todo') : t.do = "new ca" /\ t.org = o
      BY <1>1, <2>5 DEF Starting
    <3>2. t \notin Elements(Tail(todo))
      BY <1>1, <2>5, <3>1 DEF Starting
    <3>3. PICK S : OrgStarted(S) /\ t \in S
      BY <3>1, <3>2, NewTasks DEF WholeOrgTasks
    <3>4. t \in NewOrgTasks(org, spec) \cup ExtendOrgTasks(org, spec)
      BY <3>3 DEF OrgStarted
    <3>5. t.org = org /\ t \notin ExtendOrgTasks(org, spec)
      BY <3>1, <3>3, <3>4, OrgTasksFit DEF OrgStarted
    <3>6. NewOrgTasks(o, spec) \subseteq Elements(todo')
      BY <3>1, <3>3, <3>5 DEF OrgStarted
    <3>7. Task(Maker(x), o, x) \in NewOrgTasks(o, spec)
      <4>1. Maker(MSP) = "new msp" /\ Maker(Admin) = "new member" /\ Maker(User) = "new member"
        BY ThingsDiffer DEF Maker
      <4>2. QED
        BY <4>1 DEF Basics, NewOrgTasks
    <3>8. QED
      BY <1>1, <3>6, <3>7 DEF There, Pending
  <2>6. QED
    BY <2>1, <2>3, <2>4, <2>5
<1>7. CertsThere'
  <2>1. SUFFICES ASSUME ~NodeOUs, NEW o \in Orgs, NEW p \in Places, There(o, p)'
                 PROVE  admincert'[o][p] = "whole" \/ Pending("copy cert", o, p)'
    BY DEF CertsThere
  <2>2. p \in Things
    BY DEF Places, Things
  <2>3. CASE There(o, p)
    <3>1. CASE admincert[o][p] = "whole"
      BY <3>1, BuildsCerts DEF Sound
    <3>2. CASE Task("copy cert", o, p) \in Elements(Tail(todo))
      BY <1>1, <3>2 DEF Pending
    <3>3. CASE Task("copy cert", o, p) = Head(todo)
      BY <3>3, BuildsCerts DEF Sound
    <3>4. QED
      BY <1>1, <2>1, <2>3, <3>1, <3>2, <3>3 DEF Sound, CertsThere, Pending
  <2>4. CASE ~There(o, p)
    <3>1. tree'[o][p] = None
      BY <2>2, <2>4, BuildsTree DEF There
    <3>2. Task(Maker(p), o, p) \in Elements(todo')
      BY <1>1, <2>1, <3>1 DEF There, Pending
    <3>3. Task(Maker(p), o, p) \notin Elements(Tail(todo))
      BY <1>1, <2>4 DEF There, Pending
    <3>4. Task(Maker(p), o, p).do \notin WholeOrgTasks
      <4>1. Task(Maker(p), o, p).do = Maker(p)
        BY DEF Task
      <4>2. QED
        BY <4>1 DEF Maker, WholeOrgTasks
    <3>5. PICK S : OrgStarted(S) /\ Task(Maker(p), o, p) \in S
      BY <3>2, <3>3, <3>4, NewTasks
    <3>6. Task("copy cert", o, p) \in S
      BY <2>1, <3>5, CertsFollow DEF OrgStarted
    <3>7. QED
      BY <1>1, <3>5, <3>6 DEF OrgStarted, Pending
  <2>5. QED
    BY <2>3, <2>4
<1>8. QED
  BY <1>3, <1>5, <1>6, <1>7 DEF Sound

-----------------------------------------------------------------------------
(* When the tree is whole.                                                   *)

LEMMA FailureEnds ==
  ASSUME Ends, Fails
  PROVE  ~CleanTime' /\ ~CompleteTime'
<1>1. todo' = <<>> /\ made' # "made"
  BY DEF Ends, Fails
<1>2. QED
  BY <1>1 DEF CleanTime, CompleteTime, Making

LEMMA TimeBefore ==
  ASSUME Types, Listed, Builds
  PROVE  (CleanTime' => CleanTime) /\ (CompleteTime' => CompleteTime)
<1>1. /\ TypeOK /\ todo # <<>> /\ Elements(todo)' = Elements(todo')
      /\ Elements(Tail(todo)) \subseteq Elements(todo')
      /\ Elements(todo) = {Head(todo)} \cup Elements(Tail(todo))
      /\ cmd' = cmd /\ Head(todo).do # "clear crypto"
  BY BuildsFacts, HeadFacts DEF Builds, Is
<1>2. made' = made \/ (made' = "made" /\ todo' = <<>> /\ cmd = "generate")
  BY DEF Builds, Proceeds
<1>3. Doing("clear crypto") => Doing("clear crypto")'
  BY <1>1 DEF Doing
<1>4. todo' = <<>> => ~Doing("clear crypto")'
  BY <1>1, ElementsEmpty DEF Doing
<1>5. Making' => Making
  BY <1>1 DEF Making
<1>6. QED
  BY <1>1, <1>2, <1>3, <1>4, <1>5 DEF CleanTime, CompleteTime, Making

\* Once the old tree is removed.
LEMMA ClearedSound ==
  ASSUME Types, Listed, ClearCrypto
  PROVE  Sound' /\ Full'
<1>1. /\ TypeOK /\ todo # <<>> /\ todo \in Seq(Tasks) /\ Is("clear crypto") /\ Rest
      /\ Head(todo).do = "clear crypto"
      /\ \A o \in Orgs, x \in Things : tree'[o][x] = None
      /\ \A o \in Orgs, p \in Places : admincert'[o][p] = "none"
  BY DEF Types, TypeOK, ClearCrypto, Proceed, Continue, Is, Rest
<1>2. /\ Elements(todo)' = Elements(Tail(todo))
      /\ Elements(todo) = {Head(todo)} \cup Elements(Tail(todo))
      /\ Head(todo) \in Elements(todo) /\ Fits(Head(todo))
  BY <1>1, ElementsAfter, PrimedElements, HeadFacts
<1>3. \A t \in Elements(todo)' : t.do \notin OrgTasks
  BY <1>1, <1>2, NoOrgsYet
<1>4. \A o, x : ~Pending(Maker(x), o, x)'
  <2>1. SUFFICES ASSUME NEW o, NEW x, Task(Maker(x), o, x) \in Elements(todo)'
                 PROVE  FALSE
    BY DEF Pending, Maker
  <2>2. Task(Maker(x), o, x).do = Maker(x)
    BY DEF Task
  <2>3. QED
    BY <1>3, <2>1, <2>2 DEF Maker, OrgTasks, Parts
<1>5. \A o : ~Starting("new ca", o)'
  BY <1>3 DEF Starting, OrgTasks, Parts
<1>6. Places \subseteq Things /\ None # Short
  BY DEF Places, Things, None, Short
<1>7. NoShort'
  BY <1>1, <1>6 DEF NoShort
<1>8. \A o \in Orgs : ~OrgExists(o)'
  BY <1>1 DEF OrgExists
<1>9. CAStands' /\ BasicsThere'
  BY <1>5, <1>8 DEF CAStands, BasicsThere
<1>10. CertsThere'
  BY <1>1, <1>4, <1>6 DEF CertsThere, There
<1>11. Doing("generate")'
  <2>1. cmd = "generate"
    BY <1>1, <1>2 DEF Fits, KindsOf, RenderDos, OrgTasks, WholeOrgTasks, Parts
  <2>2. PICK u \in Elements(todo) : u.do = "generate"
    BY <1>1, <1>2, <2>1, StagesBefore DEF Listed, Follows, LaterDos
  <2>3. u # Head(todo)
    BY <1>1, <2>2
  <2>4. QED
    BY <1>2, <2>2, <2>3 DEF Doing
<1>12. QED
  BY <1>7, <1>9, <1>10, <1>11 DEF Sound, Full

\* All that a network has of an org is made when the org is new.
LEMMA MembersMade ==
  ASSUME NEW n \in Readings, NEW o \in Orgs, NEW x \in Members(o, n)
  PROVE  /\ Task(Maker(x), o, x) \in NewOrgTasks(o, n)
         /\ x \in {CA} \cup Basics(o) \/ Task(Maker(x), o, x) \in ExtendOrgTasks(o, n)
         /\ x \in Things
<1>1. /\ Maker(CA) = "new ca" /\ Maker(MSP) = "new msp" /\ Maker(Admin) = "new member"
      /\ Maker(User) = "new member" /\ \A i : Maker(Node(i)) = "new member"
  BY ThingsDiffer DEF Maker
<1>2. CASE x \in {CA} \cup Basics(o)
  BY <1>1, <1>2, ThingsDiffer DEF Basics, NewOrgTasks
<1>2a. CASE x = User /\ HasUser(o, n)
  BY <1>1, <1>2a, ThingsDiffer DEF UserTasks, NewOrgTasks, ExtendOrgTasks
<1>3. CASE \E i \in 1..NodesOf(o, n) : x = Node(i)
  <2>1. PICK i \in 1..NodesOf(o, n) : x = Node(i)
    BY <1>3
  <2>2. Task(Maker(x), o, x) \in NodesTasks("new member", o, n)
    BY <1>1, <2>1 DEF NodesTasks
  <2>3. i \in 1..MaxNodes
    BY <2>1, NetworkOrgs, NaturalBounds
  <2>4. QED
    BY <2>1, <2>2, <2>3 DEF NewOrgTasks, ExtendOrgTasks, Things, Nodes
<1>4. QED
  BY <1>2, <1>2a, <1>3 DEF Members, Basics

\* What the start of the orgs, and of one org, is.
LEMMA BuildsExpand ==
  ASSUME Builds, Head(todo).do \in WholeOrgTasks \cup {"generate", "extend"}
  PROVE  Expands \/ (spec = Unreadable /\ Head(todo).do \in {"generate", "extend"})
<1> USE DEF Is, WholeOrgTasks
<1>1. CASE GenerateAll \/ ExtendAll
  BY <1>1 DEF GenerateAll, ExtendAll, ReadSpec, Continue, Refused, Builds, Proceeds, Expands
<1>2. CASE StartOrg \/ ExtendStartedOrg
  BY <1>2 DEF StartOrg, ExtendStartedOrg, Continue, Expands
<1>3. CASE RenderSpec \/ RenderTx \/ ClearCrypto
  BY <1>3 DEF RenderSpec, RenderTx, ClearCrypto
<1>4. CASE LoadCA \/ Keys \/ Zip \/ ClearArtifacts \/ Block \/ System
  BY <1>4 DEF LoadCA, Keys, Zip, ClearArtifacts, Block, System, WriteArtifact
<1>5. CASE NewCA \/ NewMSP \/ NewMember \/ CopyCert
  BY <1>5 DEF NewCA, NewMSP, NewMember, CopyCert
<1>6. QED
  BY <1>1, <1>2, <1>3, <1>4, <1>5 DEF Builds, DoTask

\* What is about to be made of a network, or of its orgs, still is.
LEMMA FullStays ==
  ASSUME Types, Listed, TreeInv, Builds, Clean, CompleteTime, Full
  PROVE  Full'
<1>1. /\ TypeOK /\ todo # <<>> /\ todo \in Seq(Tasks) /\ Elements(todo)' = Elements(todo')
      /\ Elements(Tail(todo)) \subseteq Elements(todo')
      /\ Elements(todo) = {Head(todo)} \cup Elements(Tail(todo))
      /\ Head(todo) \in Elements(todo) /\ Fits(Head(todo))
      /\ Head(todo).do # "clear crypto"
  BY BuildsFacts, HeadFacts DEF Builds, Is
<1> DEFINE T == Elements(Tail(todo))
<1>2. ASSUME NEW do, \E t \in T : t.do = do
      PROVE  Doing(do)'
  BY <1>1, <1>2 DEF Doing
<1>3. ASSUME NEW do \in WholeOrgTasks, spec \in Readings, spec' = spec,
             \A o \in OrgsOf(spec) : Task(do, o, CA) \in Elements(todo')
      PROVE  Full'
  <2>1. \A o : Task(do, o, CA).do = do /\ Task(do, o, CA).org = o
    BY DEF Task
  <2>2. \A o \in OrgsOf(spec) : Starting(do, o)'
    BY <1>1, <1>3, <2>1 DEF Starting
  <2>3. QED
    BY <1>3, <2>2 DEF Full, OrgThere, WholeOrgTasks, OrgsOf
<1>4. Head(todo).do # "render spec" => spec' = spec
  BY SpecSteps DEF Builds, RenderSpec, Is
<1>4a. CASE Head(todo).do \in {"generate", "extend"} /\ spec = Unreadable
  BY <1>4, <1>4a DEF Full
<1>5. CASE Head(todo).do \in {"generate", "extend"} /\ spec # Unreadable
  <2>1. Expands
    BY <1>5, BuildsExpand
  <2>2. PICK l \in Seq(Tasks) :
          /\ todo' = l \o Tail(todo)
          /\ \E do \in WholeOrgTasks : Elements(l) = {Task(do, o, CA) : o \in OrgsOf(spec)}
    BY <1>5, <2>1, ExpandsTo DEF WholeOrgTasks
  <2>3. Elements(l) \subseteq Elements(todo')
    BY <1>1, <2>2, ElementsAfter
  <2>4. spec \in Readings
    BY <2>1, ExpandsTo
  <2>5. QED
    BY <1>3, <1>4, <1>5, <2>2, <2>3, <2>4
<1>6. CASE \E t \in T : t.do \in {"generate", "extend"}
  BY <1>2, <1>6 DEF Full
<1>7. CASE ~Doing("generate") /\ ~Doing("extend")
  <2>2. Head(todo).do # "render spec"
    <3>1. SUFFICES ASSUME Head(todo).do = "render spec"
                   PROVE  FALSE
      OBVIOUS
    <3>2. cmd # "extend" /\ cmd # "ship"
      BY <1>1, <3>1
         DEF Fits, KindsOf, RenderDos, OrgTasks, WholeOrgTasks, Parts
    <3>3. CASE cmd = "generate"
      <4>1. PICK u \in Elements(todo) : u.do = "generate"
        BY <1>1, <3>1, <3>3, StagesBefore DEF Listed, Follows, LaterDos
      <4>2. QED
        BY <1>7, <4>1 DEF Doing
    <3>4. QED
      BY <3>2, <3>3 DEF CompleteTime, Making
  <2>3. spec' = spec
    BY <1>4, <2>2
  <2> SUFFICES ASSUME spec # Unreadable
               PROVE  Full'
    BY <2>3 DEF Full
  <2>1. spec \in Readings /\ \A o \in OrgsOf(spec) : OrgThere(o)
    BY <1>7 DEF Full
  <2>4. ASSUME NEW o \in OrgsOf(spec)
        PROVE  \/ Starting("new org", o)' \/ Starting("extend org", o)'
               \/ \A x \in Members(o, spec) : There(o, x)'
    <3>1. o \in Orgs
      BY <2>1, <2>4, NetworkOrgs
    <3>2. CASE \A x \in Members(o, spec) : There(o, x)
      BY <2>1, <3>1, <3>2, MembersMade, StaysThere
    <3>3. CASE \E t \in T : t.do \in WholeOrgTasks /\ t.org = o
      BY <1>1, <3>3 DEF Starting, WholeOrgTasks
    <3>4. CASE Head(todo).do \in WholeOrgTasks /\ org = o
      <4>1. Expands
        BY <3>4, BuildsExpand
      <4>2. PICK l \in Seq(Tasks) :
              /\ todo' = l \o Tail(todo)
              /\ \/ Elements(l) = NewOrgTasks(org, spec)
                 \/ /\ Head(todo).do = "extend org" /\ OrgExists(org)
                    /\ Elements(l) = ExtendOrgTasks(org, spec)
        BY <3>4, <4>1, ExpandsTo DEF WholeOrgTasks
      <4>3. Elements(l) \subseteq Elements(todo')
        BY <1>1, <4>2, ElementsAfter
      <4>4. CASE Elements(l) = NewOrgTasks(org, spec)
        BY <1>1, <2>1, <3>1, <3>4, <4>3, <4>4, MembersMade DEF There, Pending
      <4>5. CASE /\ Head(todo).do = "extend org" /\ OrgExists(org)
                 /\ Elements(l) = ExtendOrgTasks(org, spec)
        <5>1. cmd # "generate"
          BY <1>1, <4>5
             DEF Fits, KindsOf, RenderDos, CryptoDos, OrgTasks, WholeOrgTasks, Parts
        <5>2. made = "made"
          BY <5>1 DEF CompleteTime, Making
        <5>3. Sound
          BY <5>2 DEF Clean, CleanTime
        <5>4. \A x \in {CA} \cup Basics(o) : There(o, x)
          <6>1. tree[o][CA].state = "whole" /\ \A x \in Basics(o) : There(o, x)
            BY <3>1, <3>4, <4>5, <5>3 DEF Sound, CAStands, BasicsThere
          <6>2. tree[o][CA] # None
            BY <6>1 DEF None
          <6>3. QED
            BY <6>1, <6>2 DEF There
        <5>5. QED
          BY <1>1, <2>1, <3>1, <3>4, <4>3, <4>5, <5>4, MembersMade, StaysThere
             DEF There, Pending
      <4>6. QED
        BY <4>2, <4>4, <4>5
    <3>5. QED
      BY <1>1, <2>1, <3>2, <3>3, <3>4 DEF OrgThere, Starting, WholeOrgTasks, org
  <2>5. QED
    BY <2>1, <2>3, <2>4 DEF Full, OrgThere, Members, HasUser, OrgsOf, NodesOf
<1>8. QED
  BY <1>1, <1>4a, <1>5, <1>6, <1>7 DEF Doing

LEMMA WholeStart == Init => Clean /\ Complete
BY DEF Init, Clean, CleanTime, Complete, CompleteTime, Making

\* A command begins where nothing is to be made, but what is there is sound.
LEMMA WholeBegins ==
  ASSUME TypeOK, Command, Clean
  PROVE  Clean' /\ Complete'
<1>1. PICK dos :
        /\ Elements(todo') = {Do(do) : do \in dos}
        /\ \A do \in dos : Do(do).do = do /\ do \notin OrgTasks
        /\ UNCHANGED <<files, certs, artifacts>>
        /\ \/ cmd' = "template" /\ dos = RenderDos /\ made' = made
           \/ cmd' = "generate" /\ CryptoDos \subseteq dos /\ made' = "none"
           \/ cmd' = "extend" /\ dos = {"extend", "keys"} /\ made' = made
           \/ cmd' = "ship" /\ dos = {"zip"} /\ made' = made
  BY CommandDos
<1>2. Elements(todo)' = Elements(todo') /\ \A do \in dos : Doing(do)'
  BY <1>1, PrimedElements DEF Doing
<1>3. CASE cmd' = "generate"
  BY <1>1, <1>2, <1>3
     DEF Clean, CleanTime, Complete, Full, CryptoDos
<1>4. CASE cmd' # "generate"
  <2>1. Complete'
    BY <1>1, <1>2, <1>4 DEF Complete, CompleteTime, Making, Full
  <2>2. Elements(todo) = {}
    <3>1. todo = <<>>
      BY DEF TypeOK, Command, Extend, Template, Generate, AnsibleVars, Begin
    <3>2. QED
      BY <3>1, ElementsEmpty
  <2>3. tree' = tree /\ admincert' = admincert
    BY <1>1 DEF certs
  <2>4. ASSUME CleanTime'
        PROVE  Sound'
    <3>1. Sound
      BY <1>1, <1>4, <2>4 DEF Clean, CleanTime, Making
    <3>2. \A t \in Elements(todo)' : t.do \notin OrgTasks
      BY <1>1, <1>2
    <3>3. \A o : ~Starting("new ca", o)'
      BY <3>2 DEF Starting, OrgTasks, Parts
    <3>4. \A o, x : There(o, x) => There(o, x)'
      BY <2>2, <2>3 DEF There, Pending
    <3>5. \A o, x : There(o, x)' => There(o, x)
      <4>1. SUFFICES ASSUME NEW o, NEW x, Task(Maker(x), o, x) \in Elements(todo)'
                     PROVE  FALSE
        BY <2>3 DEF There, Pending, Maker
      <4>2. Task(Maker(x), o, x).do = Maker(x)
        BY DEF Task
      <4>3. QED
        BY <3>2, <4>1, <4>2 DEF Maker, OrgTasks, Parts
    <3>6. NoShort' /\ CAStands'
      BY <2>3, <3>1 DEF Sound, NoShort, CAStands, OrgExists
    <3>7. BasicsThere'
      BY <2>3, <3>1, <3>3, <3>4 DEF Sound, BasicsThere, OrgExists, Basics
    <3>8. CertsThere'
      BY <2>2, <2>3, <3>1, <3>5 DEF Sound, CertsThere, Pending
    <3>9. QED
      BY <3>6, <3>7, <3>8 DEF Sound
  <2>5. QED
    BY <2>1, <2>4 DEF Clean
<1>5. QED
  BY <1>3, <1>4

\* A task builds, removes the tree, or ends the command.
LEMMA TaskCases ==
  ASSUME DoTask \/ CutShort
  PROVE  Builds \/ ClearCrypto \/ (Ends /\ Fails)
<1>1. CASE CutShort \/ (Ends /\ Fails)
  BY <1>1, TaskSteps
<1>2. CASE DoTask /\ ~(Ends /\ Fails)
  <2>1. Proceeds
    BY <1>2, TaskSteps
  <2>2. Is("clear crypto") => ClearCrypto
    BY <1>2 DEF DoTask, Is, RenderSpec, RenderTx, GenerateAll, ExtendAll, ReadSpec, StartOrg,
                ExtendStartedOrg, NewCA, LoadCA, NewMSP, NewMember, CopyCert, Keys,
                ClearArtifacts, Block, System, WriteArtifact, Zip
  <2>3. QED
    BY <1>2, <2>1, <2>2 DEF Builds
<1>3. QED
  BY <1>1, <1>2

LEMMA WholeStays ==
  Types /\ Listed /\ TreeInv /\ Clean /\ Complete /\ [Next]_vars => Clean' /\ Complete'
<1> SUFFICES ASSUME Types, Listed, TreeInv, Clean, Complete, [Next]_vars
             PROVE  Clean' /\ Complete'
  OBVIOUS
<1>1. CASE Ends /\ Fails
  BY <1>1, FailureEnds DEF Clean, Complete
<1>2. CASE Builds
  <2>1. ASSUME CleanTime'
        PROVE  Sound'
    BY <1>2, <2>1, TimeBefore, SoundStays DEF Clean
  <2>2. ASSUME CompleteTime'
        PROVE  Full'
    BY <1>2, <2>2, TimeBefore, FullStays DEF Complete
  <2>3. QED
    BY <2>1, <2>2 DEF Clean, Complete
<1>3. CASE ClearCrypto
  BY <1>3, ClearedSound DEF Clean, Complete
<1>4. CASE Command
  BY <1>4, WholeBegins DEF Types
<1>5. CASE UNCHANGED vars
  <2>1. /\ todo' = todo /\ cmd' = cmd /\ made' = made /\ spec' = spec
        /\ tree' = tree /\ admincert' = admincert
    BY <1>5 DEF vars, run, certs, files
  <2>2. Elements(todo)' = Elements(todo)
    BY <2>1 DEF Elements
  <2>3. \A do : Doing(do)' <=> Doing(do)
    BY <2>2 DEF Doing
  <2>4. \A do, o : Starting(do, o)' <=> Starting(do, o)
    BY <2>2 DEF Starting
  <2>5. \A do, o, x : Pending(do, o, x)' <=> Pending(do, o, x)
    BY <2>2 DEF Pending
  <2>6. \A o, x : There(o, x)' <=> There(o, x)
    BY <2>1, <2>2 DEF There, Pending, Maker
  <2>7. (CleanTime' <=> CleanTime) /\ (CompleteTime' <=> CompleteTime)
    BY <2>1, <2>3 DEF CleanTime, CompleteTime, Making
  <2>8. Sound' <=> Sound
    BY <2>1, <2>4, <2>5, <2>6
       DEF Sound, NoShort, CAStands, BasicsThere, CertsThere, OrgExists, Basics
  <2>9. Full' <=> Full
    BY <2>1, <2>3, <2>4, <2>6 DEF Full, OrgThere, OrgsOf, Members, HasUser, NodesOf
  <2>10. QED
    BY <2>7, <2>8, <2>9 DEF Clean, Complete
<1>6. QED
  BY <1>1, <1>2, <1>3, <1>4, <1>5, TaskCases DEF Next

LEMMA AlwaysWhole == Spec => [](Types /\ Listed /\ TreeInv /\ Clean /\ Complete)
<1>1. Init => Types /\ Listed /\ TreeInv /\ Clean /\ Complete
  BY TypesStart, ListedStart, TreeStart, WholeStart
<1>2. Types /\ Listed /\ TreeInv /\ Clean /\ Complete /\ [Next]_vars =>
        Types' /\ Listed' /\ TreeInv' /\ Clean' /\ Complete'
  BY TypesStay, ListedStays, TreeStays, WholeStays
<1>3. QED
  BY <1>1, <1>2, PTL DEF Spec

\* When generate reports success everything that crypto-config.yaml describes is there
\* and whole; and so it is after an extend, if no command failed since that generate
\* (doGenerate, doExtend).
THEOREM MaterialSuccessIsWhole == Spec => []SuccessIsWhole
<1>1. ASSUME Types, Clean, Complete
      PROVE  SuccessIsWhole
  <2>1. SUFFICES ASSUME status = "ok", made = "made", cmd \in {"generate", "extend"},
                        spec # Unreadable, NEW o \in OrgsOf(spec)
                 PROVE  WholeOrg(o, spec)
    BY DEF SuccessIsWhole
  <2>2. TypeOK /\ todo = <<>>
    BY <1>1, <2>1 DEF Types, TypeOK
  <2>3. Elements(todo) = {}
    BY <2>2, ElementsEmpty
  <2>4. Sound /\ Full
    BY <1>1, <2>1 DEF Clean, CleanTime, Complete, CompleteTime
  <2>5. spec \in Readings /\ OrgThere(o)
    BY <2>1, <2>3, <2>4 DEF Full, Doing
  <2>6. o \in Orgs
    BY <2>1, <2>5, NetworkOrgs
  <2>7. ASSUME NEW x \in Members(o, spec)
        PROVE  x \in Things /\ tree[o][x] # None
    <3>1. There(o, x)
      BY <2>3, <2>5 DEF OrgThere, Starting
    <3>2. QED
      BY <2>3, <2>5, <2>6, <3>1, MembersMade DEF There, Pending
  <2>8. tree \in [Orgs -> [Things -> Copies]]
    BY <2>2 DEF TypeOK
  <2>9. \A x \in Members(o, spec) : tree[o][x].state = "whole"
    <3>1. SUFFICES ASSUME NEW x \in Members(o, spec)
                   PROVE  tree[o][x].state = "whole"
      OBVIOUS
    <3>2. tree[o][x] \in Copies /\ tree[o][x] # None /\ tree[o][x] # Short
      BY <2>4, <2>6, <2>7, <2>8 DEF Sound, NoShort
    <3>3. QED
      BY <3>2, CopiesStates
  <2>10. ~NodeOUs => \A p \in Places \cap Members(o, spec) : admincert[o][p] = "whole"
    BY <2>3, <2>4, <2>6, <2>7 DEF Sound, CertsThere, There, Pending
  <2>11. QED
    BY <2>9, <2>10 DEF WholeOrg
<1>2. QED
  BY <1>1, AlwaysWhole, PTL

-----------------------------------------------------------------------------
(* The artifacts name the CAs of the tree.                                  *)

ArtifactsMaking ==
  Making =>
    /\ Doing("block") \/ NamesCAs(artifacts.block)
    /\ Doing("system") \/ (NamesCAs(artifacts.system) /\ artifacts.dir)
ArtifactsInv == ArtifactsMaking /\ ArtifactsNameCAs

\* An artifact that names the CAs does so while no CA is replaced or removed.
LEMMA NamesKept ==
  ASSUME \A o \in Orgs : tree[o][CA] # None => tree'[o][CA] = tree[o][CA]
  PROVE  /\ NamesCAs(artifacts.block) /\ artifacts'.block = artifacts.block =>
              NamesCAs(artifacts.block)'
         /\ NamesCAs(artifacts.system) /\ artifacts'.system = artifacts.system =>
              NamesCAs(artifacts.system)'
<1>1. \A k : Whole(k) # None
  BY DEF Whole, None
<1>2. QED
  BY <1>1 DEF NamesCAs

\* What changes the artifacts.
LEMMA ArtifactSteps ==
  ASSUME DoTask \/ CutShort
  PROVE  \/ UNCHANGED artifacts
         \/ Is("clear artifacts") \/ Is("block") \/ Is("system")
BY DEF DoTask, RenderSpec, RenderTx, ClearCrypto, GenerateAll, ExtendAll, ReadSpec, StartOrg,
       ExtendStartedOrg, NewCA, LoadCA, NewMSP, NewMember, CopyCert, Keys, ClearArtifacts,
       Block, System, WriteArtifact, Zip, CutShort, CutBetween, CutRender, CutClearCrypto,
       CutCA, CutMember, CutCopy, CutArtifacts

\* Once a generate succeeded, the CAs and the artifacts stay until the next.
LEMMA MadeStays ==
  ASSUME Types, Listed, TreeInv, DoTask \/ CutShort, made # "none"
  PROVE  /\ UNCHANGED artifacts
         /\ \A o \in Orgs : tree[o][CA] # None => tree'[o][CA] = tree[o][CA]
<1>1. todo # <<>> /\ TypeOK
  BY TaskSteps DEF Rest, Ends, Expands, Types
<1>2. cmd # "generate" /\ Fits(Head(todo))
  BY <1>1, HeadFacts DEF Listed, NotMade
<1>3. ~Is("clear crypto") /\ ~Is("clear artifacts") /\ ~Is("block") /\ ~Is("system")
  BY <1>2 DEF Is, Fits, KindsOf, RenderDos, OrgTasks, WholeOrgTasks, Parts
<1>4. QED
  BY <1>3, ArtifactSteps, OnlyMissingMade, ThingsDiffer

LEMMA ArtifactsStart == Init => ArtifactsInv
BY DEF Init, ArtifactsInv, ArtifactsMaking, ArtifactsNameCAs, Making

LEMMA ArtifactsBegin ==
  ASSUME Command, ArtifactsInv
  PROVE  ArtifactsInv'
<1>1. PICK dos :
        /\ Elements(todo') = {Do(do) : do \in dos}
        /\ \A do \in dos : Do(do).do = do
        /\ UNCHANGED <<files, certs, artifacts>>
        /\ \/ cmd' # "generate" /\ made' = made
           \/ CryptoDos \subseteq dos /\ made' = "none"
  BY CommandDos
<1>2. \A do \in dos : Doing(do)'
  BY <1>1, PrimedElements DEF Doing
<1>3. tree' = tree /\ artifacts' = artifacts
  BY <1>1 DEF certs
<1>4. QED
  BY <1>1, <1>2, <1>3
     DEF ArtifactsInv, ArtifactsMaking, ArtifactsNameCAs, Making, CryptoDos, NamesCAs

\* An artifact that is written names the CAs.
LEMMA NamesWritten ==
  ASSUME Types, Sound, TreeInv, tx \in Networks, Readable(tx),
         UNCHANGED tree
  PROVE  /\ artifacts'.block = Names(tx) => NamesCAs(artifacts.block)'
         /\ artifacts'.system = Names(tx) => NamesCAs(artifacts.system)'
<1>1. tree \in [Orgs -> [Things -> Copies]]
  BY DEF Types, TypeOK
<1>2. Names(tx).state = "whole"
  BY DEF Names
<1>3. ASSUME NEW o \in Orgs, Names(tx).cas[o] # 0
      PROVE  tree[o][CA] = Whole(Names(tx).cas[o])
  <2>1. o \in OrgsOf(tx) /\ Names(tx).cas[o] = tree[o][MSP].ca
    BY <1>3 DEF Names
  <2>2. tree[o][MSP].state = "whole"
    BY <2>1 DEF Readable, Sources
  <2>3. tree[o][MSP] # None
    BY <2>2 DEF None
  <2>4. tree[o][CA].state = "whole"
    BY <2>3, ThingsDiffer DEF Sound, CAStands, OrgExists
  <2>5. tree[o][MSP] = tree[o][CA]
    BY <2>2, <2>4, ThingsDiffer DEF TreeInv, SignedByOwnCA
  <2>6. tree[o][CA] \in Copies
    BY <1>1, ThingsDiffer
  <2>7. PICK k \in 1..MaxCommands : tree[o][CA] = Whole(k)
    BY <2>4, <2>6 DEF Copies, None, Short
  <2>8. QED
    BY <2>1, <2>5, <2>7, CopiesStates
<1>4. QED
  BY <1>2, <1>3 DEF NamesCAs

LEMMA ArtifactsMade ==
  ASSUME Types, Listed, TreeInv, Clean, ArtifactsInv, Builds, Making
  PROVE  /\ Doing("block")' \/ NamesCAs(artifacts.block)'
         /\ Doing("system")' \/ (NamesCAs(artifacts.system)' /\ artifacts'.dir)
<1>1. /\ TypeOK /\ todo # <<>> /\ cmd = "generate" /\ Elements(todo)' = Elements(todo')
      /\ Elements(Tail(todo)) \subseteq Elements(todo')
      /\ Elements(todo) = {Head(todo)} \cup Elements(Tail(todo))
      /\ Head(todo) \in Elements(todo) /\ Head(todo).do # "clear crypto"
  BY BuildsFacts, HeadFacts DEF Builds, Is, Making
<1>2. \A do : Doing(do) /\ Head(todo).do # do => Doing(do)'
  BY <1>1 DEF Doing
<1>3. \A do \in LaterDos : Stage(Head(todo).do) < Stage(do) => Doing(do)'
  <2>1. SUFFICES ASSUME NEW do \in LaterDos, Stage(Head(todo).do) < Stage(do)
                 PROVE  Doing(do)'
    OBVIOUS
  <2>2. Doing(do)
    BY <1>1, <2>1 DEF Listed, Follows, Doing
  <2>3. Head(todo).do # do
    BY <2>1, NoStageBoth
  <2>4. QED
    BY <1>2, <2>2, <2>3
<1>4. \A o \in Orgs : tree[o][CA] # None => tree'[o][CA] = tree[o][CA]
  BY OnlyMissingMade, ThingsDiffer DEF Builds
<1>5. CASE Head(todo).do = "clear artifacts"
  BY <1>3, <1>5, StagesBefore DEF LaterDos
<1>6. ASSUME Head(todo).do \in {"block", "system"}
      PROVE  Sound /\ UNCHANGED tree
  <2>1. ASSUME NEW b \in Elements(Tail(todo)), b.do = "clear crypto"
        PROVE  FALSE
    <3>1. MayPrecede(Head(todo), b)
      BY <1>1, <2>1, HeadFacts
    <3>2. Stage(Head(todo).do) <= Stage(b.do)
      BY <3>1, StagesOrder
    <3>3. Stage(b.do) < Stage("generate") /\ Stage("generate") < Stage(Head(todo).do)
      BY <1>6, <2>1, StagesBefore
    <3>4. QED
      BY <3>2, <3>3, NoStageCycle
  <2>2. CleanTime
    BY <1>1, <2>1 DEF CleanTime, Making, Doing
  <2>3. UNCHANGED tree
    BY <1>6, BuildSteps DEF CopyCert, NewCA, NewMSP, NewMember, Is, certs
  <2>4. QED
    BY <2>2, <2>3 DEF Clean
<1>7. CASE Head(todo).do = "block"
  <2>1. Block
    BY <1>7 DEF Builds, DoTask, Is, RenderSpec, RenderTx, ClearCrypto, GenerateAll, ExtendAll,
                ReadSpec, StartOrg, ExtendStartedOrg, NewCA, LoadCA, NewMSP, NewMember,
                CopyCert, Keys, ClearArtifacts, System, WriteArtifact, Zip
  <2>2. tx \in Networks /\ Readable(tx) /\ artifacts'.block = Names(tx)
    <3>1. artifacts \in [dir : BOOLEAN, block : Artifact, system : Artifact]
      BY <1>1 DEF TypeOK
    <3>2. /\ tx \in Networks /\ Readable(tx)
          /\ artifacts' = [artifacts EXCEPT !.dir = TRUE, !.block = Names(tx)]
      BY <2>1 DEF Block, WriteArtifact, Refused, Builds, Proceeds
    <3>3. QED
      BY <3>1, <3>2
  <2>3. NamesCAs(artifacts.block)'
    BY <1>6, <1>7, <2>2, NamesWritten
  <2>4. Doing("system")'
    BY <1>3, <1>7, StagesBefore DEF LaterDos
  <2>5. QED
    BY <2>3, <2>4
<1>8. CASE Head(todo).do = "system"
  <2>1. System
    BY <1>8 DEF Builds, DoTask, Is, RenderSpec, RenderTx, ClearCrypto, GenerateAll, ExtendAll,
                ReadSpec, StartOrg, ExtendStartedOrg, NewCA, LoadCA, NewMSP, NewMember,
                CopyCert, Keys, ClearArtifacts, Block, WriteArtifact, Zip
  <2>2. /\ tx \in Networks /\ Readable(tx) /\ artifacts'.system = Names(tx)
        /\ artifacts'.block = artifacts.block /\ artifacts'.dir
    <3>1. artifacts \in [dir : BOOLEAN, block : Artifact, system : Artifact]
      BY <1>1 DEF TypeOK
    <3>2. /\ tx \in Networks /\ Readable(tx)
          /\ artifacts' = [artifacts EXCEPT !.dir = TRUE, !.system = Names(tx)]
      BY <2>1 DEF System, WriteArtifact, Refused, Builds, Proceeds
    <3>3. QED
      BY <3>1, <3>2
  <2>3. NamesCAs(artifacts.system)'
    BY <1>6, <1>8, <2>2, NamesWritten
  <2>4. Doing("block")' \/ NamesCAs(artifacts.block)'
    BY <1>2, <1>4, <1>8, <2>2, NamesKept DEF ArtifactsInv, ArtifactsMaking
  <2>5. QED
    BY <2>2, <2>3, <2>4
<1>9. CASE Head(todo).do \notin {"clear artifacts", "block", "system"}
  <2>1. artifacts' = artifacts
    BY <1>9, ArtifactSteps DEF Builds, Is
  <2>2. Doing("block")' \/ NamesCAs(artifacts.block)'
    BY <1>2, <1>4, <1>9, <2>1, NamesKept DEF ArtifactsInv, ArtifactsMaking
  <2>3. Doing("system")' \/ (NamesCAs(artifacts.system)' /\ artifacts'.dir)
    BY <1>2, <1>4, <1>9, <2>1, NamesKept DEF ArtifactsInv, ArtifactsMaking
  <2>4. QED
    BY <2>2, <2>3
<1>10. QED
  BY <1>5, <1>7, <1>8, <1>9

LEMMA ArtifactsStay ==
  Types /\ Listed /\ TreeInv /\ Clean /\ ArtifactsInv /\ [Next]_vars => ArtifactsInv'
<1> SUFFICES ASSUME Types, Listed, TreeInv, Clean, ArtifactsInv, [Next]_vars
             PROVE  ArtifactsInv'
  OBVIOUS
<1>1. ASSUME DoTask \/ CutShort, made # "none"
      PROVE  ArtifactsNameCAs'
  BY <1>1, MadeStays, NamesKept DEF ArtifactsInv, ArtifactsNameCAs
<1>2. CASE (DoTask \/ CutShort) /\ Ends /\ Fails
  <2>1. todo' = <<>> /\ (made' # "none" => made # "none")
    BY <1>2 DEF Ends, Fails
  <2>2. ArtifactsMaking'
    BY <2>1 DEF ArtifactsMaking, Making
  <2>3. ArtifactsNameCAs'
    BY <1>1, <1>2, <2>1 DEF ArtifactsNameCAs
  <2>4. QED
    BY <2>2, <2>3 DEF ArtifactsInv
<1>3. CASE Builds
  <2>1. /\ cmd' = cmd /\ todo # <<>> /\ Elements(todo)' = Elements(todo')
        /\ made' = made \/ (made' = "made" /\ todo' = <<>> /\ cmd = "generate")
    BY <1>3, BuildsFacts DEF Builds, Proceeds
  <2>2. Making => ArtifactsMaking' /\ (todo' = <<>> => NamesCAs(artifacts.block)'
                                                       /\ NamesCAs(artifacts.system)')
    BY <1>3, <2>1, ArtifactsMade, ElementsEmpty DEF ArtifactsMaking, Doing
  <2>3. ArtifactsMaking'
    BY <2>1, <2>2 DEF ArtifactsMaking, Making
  <2>4. ArtifactsNameCAs'
    BY <1>1, <1>3, <2>1, <2>2 DEF Builds, ArtifactsNameCAs, Making
  <2>5. QED
    BY <2>3, <2>4 DEF ArtifactsInv
<1>4. CASE ClearCrypto
  <2>1. /\ TypeOK /\ todo # <<>> /\ todo \in Seq(Tasks) /\ Is("clear crypto") /\ Rest
        /\ Head(todo).do = "clear crypto" /\ cmd' = cmd
        /\ made' = made \/ (made' = "made" /\ todo' = <<>> /\ cmd = "generate")
    BY <1>4 DEF Types, TypeOK, ClearCrypto, Proceed, Continue, Is, Rest
  <2>2. /\ Elements(todo)' = Elements(Tail(todo)) /\ Elements(todo)' = Elements(todo')
        /\ Elements(todo) = {Head(todo)} \cup Elements(Tail(todo))
        /\ Head(todo) \in Elements(todo) /\ Fits(Head(todo))
    BY <2>1, ElementsAfter, PrimedElements, HeadFacts
  <2>3. cmd = "generate"
    BY <2>1, <2>2 DEF Fits, KindsOf, RenderDos, OrgTasks, WholeOrgTasks, Parts
  <2>4. ASSUME NEW do \in {"block", "system"}
        PROVE  Doing(do)'
    <3>1. Stage("clear crypto") < Stage(do)
      <4>1. Stage("clear crypto") < Stage("block") /\ Stage("clear crypto") < Stage("system")
        BY StagesBefore
      <4>2. QED
        BY <4>1
    <3>2. PICK u \in Elements(todo) : u.do = do
      BY <2>1, <2>2, <2>3, <3>1 DEF Listed, Follows, LaterDos
    <3>3. u # Head(todo)
      BY <2>1, <3>2
    <3>4. QED
      BY <2>2, <3>2, <3>3 DEF Doing
  <2>5. made' = made /\ made = "none"
    <3>1. todo' # <<>>
      BY <2>2, <2>4, ElementsEmpty DEF Doing
    <3>2. QED
      BY <2>1, <2>3, <3>1 DEF Listed, NotMade
  <2>6. QED
    BY <2>4, <2>5 DEF ArtifactsInv, ArtifactsMaking, ArtifactsNameCAs
<1>5. CASE Command
  BY <1>5, ArtifactsBegin
<1>6. CASE UNCHANGED vars
  <2>1. /\ todo' = todo /\ cmd' = cmd /\ made' = made /\ tree' = tree
        /\ artifacts' = artifacts
    BY <1>6 DEF vars, run, certs
  <2>2. \A do : Doing(do)' <=> Doing(do)
    BY <2>1 DEF Doing, Elements
  <2>3. QED
    BY <2>1, <2>2 DEF ArtifactsInv, ArtifactsMaking, ArtifactsNameCAs, Making, NamesCAs
<1>7. QED
  BY <1>2, <1>3, <1>4, <1>5, <1>6, TaskCases DEF Next

LEMMA AlwaysNamed ==
  Spec => [](Types /\ Listed /\ TreeInv /\ Clean /\ Complete /\ ArtifactsInv)
<1>1. Init => ArtifactsInv
  BY ArtifactsStart
<1>2. Spec => []ArtifactsInv
  BY <1>1, ArtifactsStay, AlwaysWhole, PTL DEF Spec
<1>3. QED
  BY <1>2, AlwaysWhole, PTL

\* Once a generate succeeded, the genesis block and the channel transaction that up and
\* ansible-vars use name the CAs of the tree until the next generate starts, through
\* extends and commands that are cut short (generateFrom, doExtend).
THEOREM MaterialArtifactsNameCAs == Spec => []ArtifactsNameCAs
<1>1. ArtifactsInv => ArtifactsNameCAs
  BY DEF ArtifactsInv
<1>2. QED
  BY <1>1, AlwaysNamed, PTL

-----------------------------------------------------------------------------
(* A generate that finds its spec goes through.                             *)

\* After its orgs, a generate has all of the network, whole.
LEMMA NetworkWhole ==
  ASSUME Types, Listed, Clean, Complete, cmd = "generate", todo # <<>>, spec \in Networks,
         Head(todo).do \in {"keys", "block", "system", "zip"}
  PROVE  \A o \in OrgsOf(spec) : \A x \in Members(o, spec) : tree[o][x].state = "whole"
<1>1. /\ TypeOK /\ Head(todo) \in Elements(todo) /\ Elements(todo) \subseteq Tasks
      /\ Elements(todo) = {Head(todo)} \cup Elements(Tail(todo))
      /\ tree \in [Orgs -> [Things -> Copies]]
  <2>1. TypeOK
    BY DEF Types
  <2>2. tree \in [Orgs -> [Things -> Copies]]
    BY <2>1 DEF TypeOK
  <2>3. QED
    BY <2>1, <2>2, HeadFacts
<1>2. ASSUME NEW t \in Elements(todo)
      PROVE  t.do \notin OrgTasks \cup {"generate", "extend", "clear crypto"}
  <2>1. CASE t = Head(todo)
    BY <2>1 DEF OrgTasks, WholeOrgTasks, Parts
  <2>2. CASE t \in Elements(Tail(todo))
    <3>1. SUFFICES ASSUME t.do \in OrgTasks \cup {"generate", "extend", "clear crypto"}
                   PROVE  FALSE
      OBVIOUS
    <3>2. Stage(Head(todo).do) <= Stage(t.do)
      BY <1>1, <2>2, HeadFacts, StagesOrder
    <3>3. Stage(t.do) < Stage(Head(todo).do)
      BY <3>1, StagesBefore
    <3>4. QED
      BY <3>2, <3>3, NoStageReturn
  <2>3. QED
    BY <1>1, <2>1, <2>2
<1>3. ~Doing("clear crypto") /\ ~Doing("generate") /\ ~Doing("extend")
  BY <1>2 DEF Doing
<1>4. Sound /\ Full
  BY <1>3 DEF Clean, CleanTime, Complete, CompleteTime, Making
<1>5. ASSUME NEW o \in Orgs, NEW x
      PROVE  ~Pending(Maker(x), o, x) /\ ~Starting("new org", o) /\ ~Starting("extend org", o)
  <2>1. Task(Maker(x), o, x).do = Maker(x)
    BY DEF Task
  <2>2. Maker(x) \in OrgTasks
    BY DEF Maker, OrgTasks, Parts
  <2>3. QED
    BY <1>2, <2>1, <2>2 DEF Pending, Starting, OrgTasks, WholeOrgTasks
<1>6. spec \in Readings /\ spec # Unreadable
  BY NetworksAreReadings, FilesAssumption
<1>7. ASSUME NEW o \in OrgsOf(spec), NEW x \in Members(o, spec)
      PROVE  tree[o][x].state = "whole"
  <2>1. o \in Orgs /\ x \in Things
    BY <1>6, <1>7, NetworkOrgs, MembersMade
  <2>2. tree[o][x] # None
    BY <1>3, <1>4, <1>5, <1>6, <1>7, <2>1 DEF Full, OrgThere, There
  <2>3. tree[o][x] \in Copies /\ tree[o][x] # Short
    BY <1>1, <1>4, <2>1 DEF Sound, NoShort
  <2>4. QED
    BY <2>2, <2>3, CopiesStates
<1>8. QED
  BY <1>7

\* While a generate makes an org's parts, the org has its CA and then its admin.
LEMMA OrgWhole ==
  ASSUME Types, Listed, Clean, Complete, cmd = "generate", todo # <<>>,
         Head(todo).do \in {"new member", "copy cert"}
  PROVE  /\ tree[org][CA].state = "whole"
         /\ Head(todo).do = "copy cert" => tree[org][Admin].state = "whole"
<1>1. /\ TypeOK /\ Head(todo) \in Elements(todo) /\ Fits(Head(todo)) /\ org \in Orgs
      /\ Elements(todo) = {Head(todo)} \cup Elements(Tail(todo))
      /\ tree \in [Orgs -> [Things -> Copies]]
  <2>1. TypeOK
    BY DEF Types
  <2>2. tree \in [Orgs -> [Things -> Copies]]
    BY <2>1 DEF TypeOK
  <2>3. QED
    BY <2>1, <2>2, HeadFacts
<1>2. Head(todo).do \in OrgTasks /\ Head(todo).do \notin {"clear crypto", "generate", "extend",
                                     "new ca", "new org", "extend org"}
  BY DEF OrgTasks, Parts
<1>3. ASSUME NEW b \in Elements(Tail(todo))
      PROVE  /\ b.do \notin {"new ca", "generate", "extend", "clear crypto"}
             /\ b.do \in WholeOrgTasks => b.org # org
             /\ Head(todo).do = "copy cert" => b # Task("new member", org, Admin)
  BY <1>1, <1>2, AfterPart
<1>4. ~Doing("clear crypto") /\ ~Doing("generate") /\ ~Doing("extend") /\ ~Doing("new ca")
  BY <1>1, <1>2, <1>3 DEF Doing
<1>5. ~Starting("new org", org) /\ ~Starting("extend org", org)
  BY <1>1, <1>2, <1>3 DEF Starting, WholeOrgTasks
<1>6. Sound /\ Full
  BY <1>4 DEF Clean, CleanTime, Complete, CompleteTime, Making
<1>7. \A x \in Members(org, spec) : There(org, x)
  <2>1. org \in OrgsOf(spec) /\ spec # Unreadable
    BY <1>1, <1>2, FilesAssumption DEF Fits, org
  <2>2. QED
    BY <1>4, <1>5, <1>6, <2>1 DEF Full, OrgThere
<1>8. ASSUME NEW x \in Things, tree[org][x] # None
      PROVE  tree[org][x].state = "whole"
  <2>1. tree[org][x] \in Copies /\ tree[org][x] # Short
    BY <1>1, <1>6 DEF Sound, NoShort
  <2>2. QED
    BY <1>8, <2>1, CopiesStates
<1>9. tree[org][CA].state = "whole"
  <2>1. Task("new ca", org, CA).do = "new ca" /\ Maker(CA) = "new ca"
    BY DEF Task, Maker
  <2>2. ~Pending("new ca", org, CA)
    BY <1>4, <2>1 DEF Pending, Doing
  <2>3. There(org, CA)
    BY <1>7 DEF Members
  <2>4. QED
    BY <1>8, <2>1, <2>2, <2>3, ThingsDiffer DEF There
<1>10. ASSUME Head(todo).do = "copy cert"
       PROVE  tree[org][Admin].state = "whole"
  <2>1. Maker(Admin) = "new member"
    BY ThingsDiffer DEF Maker
  <2>2. Task("new member", org, Admin).do = "new member"
    BY DEF Task
  <2>3. ~Pending("new member", org, Admin)
    BY <1>1, <1>3, <1>10, <2>2 DEF Pending
  <2>4. There(org, Admin)
    BY <1>7 DEF Members
  <2>5. QED
    BY <1>8, <2>1, <2>3, <2>4, ThingsDiffer DEF There
<1>11. QED
  BY <1>9, <1>10

\* A forced generate that renders its files goes through, unless it is cut short: no task
\* of it is refused, whatever the directory held when it started.
THEOREM MaterialGenerateRepairs == Spec => GenerateRepairs
<1>1. ASSUME Types, Listed, TreeInv, Clean, Complete, ArtifactsInv, Next,
             cmd = "generate", spec \in Networks, tx = spec, cuts' = cuts,
             status = "running", status' = "failed"
      PROVE  FALSE
  <2>1. TypeOK /\ todo # <<>> /\ cuts \in Nat
    BY <1>1, NaturalBounds DEF Types, TypeOK
  <2>2. DoTask
    <3>1. ~Command
      BY <1>1 DEF Command, Extend, Template, Generate, AnsibleVars, Begin
    <3>2. ~CutShort
      BY <1>1, <2>1, TaskSteps
    <3>3. QED
      BY <1>1, <3>1, <3>2 DEF Next
  <2>3. Head(todo) \in Elements(todo) /\ Fits(Head(todo)) /\ todo \in Seq(Tasks)
    BY <1>1, <2>1, HeadFacts DEF TypeOK
  <2>4. Fails
    BY <1>1, <2>2, TaskSteps DEF Proceeds
  <2>5. ~(\E rest : Continue(rest))
    BY <1>1 DEF Continue
  <2>6. CASE GenerateAll \/ ExtendAll
    BY <1>1, <2>5, <2>6, NetworksAreReadings DEF GenerateAll, ExtendAll, ReadSpec, Proceed
  <2>7. CASE LoadCA
    BY <1>1, <2>3, <2>7
       DEF LoadCA, Is, Fits, KindsOf, RenderDos, CryptoDos, OrgTasks, WholeOrgTasks, Parts
  <2>8. CASE NewMember
    <3>1. tree[org][CA].state = "whole"
      BY <1>1, <2>1, <2>8, OrgWhole DEF NewMember, Is
    <3>2. QED
      BY <2>5, <2>8, <3>1 DEF NewMember, Proceed
  <2>9. CASE CopyCert
    <3>1. tree[org][Admin].state = "whole"
      BY <1>1, <2>1, <2>9, OrgWhole DEF CopyCert, Is
    <3>2. QED
      BY <2>5, <2>9, <3>1 DEF CopyCert, Proceed
  <2>10. ASSUME Keys \/ Block \/ System \/ Zip
         PROVE  \A o \in OrgsOf(spec) : \A x \in Members(o, spec) : tree[o][x].state = "whole"
    BY <1>1, <2>1, <2>10, NetworkWhole DEF Keys, Block, System, Zip, WriteArtifact, Is
  <2>11. CASE Keys
    BY <1>1, <2>5, <2>10, <2>11 DEF Keys, Proceed, Members
  <2>12. CASE Block \/ System
    <3>1. Readable(tx)
      <4>1. \A o \in OrgsOf(spec) : Sources(o, spec) \subseteq Members(o, spec)
        BY DEF Sources, Members, NodesOf
      <4>2. QED
        BY <1>1, <2>10, <2>12, <4>1 DEF Readable
    <3>2. QED
      BY <1>1, <2>5, <2>12, <3>1 DEF Block, System, WriteArtifact, Proceed
  <2>13. CASE Zip
    <3>1. crypto
      <4>1. Orderer \in OrgsOf(spec) /\ Orderer \in Orgs
        BY <1>1, NetworksAreReadings, NetworkOrgs
      <4>2. tree[Orderer][CA].state = "whole"
        BY <2>10, <2>13, <4>1 DEF Members
      <4>3. tree[Orderer][CA] # None
        BY <4>2 DEF None
      <4>4. QED
        BY <1>1, <4>1, <4>3, ThingsDiffer DEF TreeInv, NoCrypto, Absent
    <3>2. artifacts.dir
      <4>1. ASSUME NEW t \in Elements(todo), t.do = "system"
            PROVE  FALSE
        <5>1. Head(todo).do = "zip"
          BY <2>13 DEF Zip, Is
        <5>2. t \in Elements(Tail(todo))
          BY <1>1, <2>1, <4>1, <5>1, HeadFacts
        <5>3. Stage(Head(todo).do) <= Stage(t.do)
          BY <1>1, <2>1, <5>2, HeadFacts, StagesOrder
        <5>4. Stage("system") < Stage("zip") /\ Stage("zip") <= Stage("system")
          BY <4>1, <5>1, <5>3, StagesBefore
        <5>5. QED
          BY <5>4, NoStageReturn
      <4>2. QED
        BY <1>1, <2>1, <4>1 DEF ArtifactsInv, ArtifactsMaking, Making, Doing
    <3>3. QED
      BY <2>5, <2>13, <3>1, <3>2 DEF Zip, Proceed
  <2>14. CASE RenderSpec \/ RenderTx \/ ClearCrypto \/ StartOrg \/ ExtendStartedOrg \/ NewCA
              \/ NewMSP \/ ClearArtifacts
    BY <2>5, <2>14 DEF RenderSpec, RenderTx, ClearCrypto, StartOrg, ExtendStartedOrg, NewCA,
                       NewMSP, ClearArtifacts, Proceed
  <2>15. QED
    BY <2>2, <2>6, <2>7, <2>8, <2>9, <2>11, <2>12, <2>13, <2>14 DEF DoTask
<1>2. Types /\ Listed /\ TreeInv /\ Clean /\ Complete /\ ArtifactsInv /\ [Next]_vars =>
        [cmd = "generate" /\ spec \in Networks /\ tx = spec /\ cuts' = cuts =>
           ~(status = "running" /\ status' = "failed")]_vars
  BY <1>1
<1>3. QED
  BY <1>2, AlwaysNamed, PTL DEF Spec, GenerateRepairs
=============================================================================
