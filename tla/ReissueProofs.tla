---------------------------- MODULE ReissueProofs ----------------------------
(***************************************************************************)
(* Proofs about Reissue, for every tree, every contents of the CA           *)
(* directories, every set of options and any number of runs and cuts.       *)
(***************************************************************************)
EXTENDS Reissue, FiniteSetTheorems, SequenceTheorems, TLAPS

-----------------------------------------------------------------------------
(* The issuer of a leaf.                                                    *)

\* A set of naturals has a least member: of the finite sets 0..x for its members x, one
\* has no other as a subset.
LEMMA LeastNatural ==
  ASSUME NEW S, S \subseteq Nat, S # {}
  PROVE  \E x \in S : \A y \in S : x <= y
<1> DEFINE D == {0..x : x \in S}
<1>1. D \subseteq FiniteSubsetsOf(Nat)
  <2> SUFFICES ASSUME NEW x \in S
               PROVE  0..x \subseteq Nat /\ IsFiniteSet(0..x)
    BY DEF FiniteSubsetsOf
  <2> QED
    BY FS_Interval
<1>2. PICK d \in D : \A e \in D : <<e, d>> \notin StrictSubsetOrdering(Nat)
  <2> HIDE DEF D
  <2>1. D # {}
    BY DEF D
  <2>2. IsWellFoundedOn(StrictSubsetOrdering(Nat), FiniteSubsetsOf(Nat))
    BY FS_StrictSubsetOrderingWellFounded
  <2> QED
    BY <1>1, <2>1, <2>2, WFMin
<1>3. PICK x \in S : d = 0..x
  OBVIOUS
<1>4. ASSUME NEW y \in S, ~(x <= y)
      PROVE  FALSE
  <2>1. 0..y \subseteq 0..x /\ x \in 0..x /\ x \notin 0..y
    BY <1>4
  <2>2. 0..y \in D /\ 0..y \subseteq Nat /\ 0..x \subseteq Nat
    OBVIOUS
  <2>3. <<0..y, 0..x>> \in StrictSubsetOrdering(Nat)
    BY <2>1, <2>2 DEF StrictSubsetOrdering
  <2> QED
    BY <1>2, <1>3, <2>2, <2>3
<1> QED
  BY <1>4

\* A leaf whose CA can be used has an issuer: the first certificate with its issuer's
\* name (ResolveCA).
LEMMA IssuerFacts ==
  ASSUME TypeOK, NEW f \in Files, CAUsable(f)
  PROVE  /\ IssuerAt(f) \in 1..Len(cadir[Dir[f]].pems)
         /\ Issuer(f) = cadir[Dir[f]].pems[IssuerAt(f)]
         /\ Issuer(f) \in CACerts /\ Issuer(f) # Unreadable
         /\ Issuer(f).subject = cert[f].issuer
         /\ Issuer(f).key \in cadir[Dir[f]].keys
         /\ Issuer(f).until > now
<1>1. cadir[Dir[f]] \in CADir
  BY CADirsAssumption DEF TypeOK, Dirs
<1>2. Matching(f) # {} /\ Issuer(f).key \in cadir[Dir[f]].keys /\ ~(Issuer(f).until <= now)
  BY DEF CAUsable, CANotUsable
<1>3. Matching(f) \subseteq Nat
  BY <1>1, LenProperties DEF Matching, CADir
<1>4. IssuerAt(f) \in Matching(f)
  <2>1. \E i \in Matching(f) : \A j \in Matching(f) : i <= j
    BY <1>2, <1>3, LeastNatural
  <2> QED
    BY <2>1 DEF IssuerAt
<1>5. /\ IssuerAt(f) \in 1..Len(cadir[Dir[f]].pems)
      /\ Issuer(f) # Unreadable /\ Issuer(f).subject = cert[f].issuer
  BY <1>4 DEF Matching, Issuer
<1>6. Issuer(f) \in CACerts
  BY <1>1, <1>5, ElementOfSeq DEF Issuer, CADir
<1>7. Issuer(f).until \in Int /\ now \in Int
  BY <1>6 DEF CACerts, Times, TypeOK
<1> QED
  BY <1>2, <1>5, <1>6, <1>7 DEF Issuer

\* A renewed certificate lies within the validity of its issuer, and ends after the time
\* the run started (reissueOne, Rebuild).
LEMMA RebuildFacts ==
  ASSUME TypeOK, NEW f \in Files, CAUsable(f), cert[f] \in Certs, o.days # 0
  PROVE  /\ Rebuild(f) \in Certs
         /\ Rebuild(f).of = cert[f].of /\ Rebuild(f).issuer = cert[f].issuer
         /\ Rebuild(f).key = Issuer(f).key /\ Rebuild(f).key \in cadir[Dir[f]].keys
         /\ Rebuild(f).made = runs
         /\ Rebuild(f).until > now
         /\ Issuer(f).from <= Rebuild(f).from /\ Rebuild(f).until <= Issuer(f).until
<1>1. /\ Issuer(f) \in CACerts /\ Issuer(f).subject = cert[f].issuer
      /\ Issuer(f).key \in cadir[Dir[f]].keys /\ Issuer(f).until > now
  BY IssuerFacts
<1>2. /\ Issuer(f).from \in Int /\ Issuer(f).until \in Int
      /\ Issuer(f).subject \in STRING /\ Issuer(f).key \in STRING
      /\ now \in Int /\ clock \in Int /\ runs \in Nat
  BY <1>1, BoundsAssumption DEF CACerts, Times, TypeOK
<1>3. o.days \in Nat \cup {NotSet}
  BY OptionsAssumption DEF TypeOK, Option
<1>4. NotAfter(f) \in Int /\ NotAfter(f) > now /\ NotAfter(f) <= Issuer(f).until
  BY <1>1, <1>2, <1>3, OptionsAssumption DEF NotAfter
<1>5. NotBefore(f) \in Int /\ Issuer(f).from <= NotBefore(f)
  BY <1>2 DEF NotBefore, Skew
<1>6. cert[f].of \in Files
  BY DEF Certs
<1> QED
  BY <1>1, <1>2, <1>4, <1>5, <1>6 DEF Rebuild, Certs, Times

-----------------------------------------------------------------------------
(* Types, and what a run knows of its targets.                              *)

\* Between two runs there are no targets.  Those of a run are readable leaves that it was
\* asked for.
Asked(f) ==
  /\ cert[f] \in Certs
  /\ Kind[f] \in o.kinds
  /\ o.nodes = {} \/ nodeMatches(Node[f], o.nodes)
  /\ o.expired => Expired(cert[f], now)

TodoInv ==
  /\ pc = "idle" => todo = {}
  /\ pc # "idle" => Selecting(o) /\ o.days # 0
  /\ \A f \in todo : Asked(f)

\* A target that is about to be written, after its backup, is still the one that the
\* CA was resolved for.
WriteInv ==
  pc = "write" =>
    /\ ~o.dry /\ ~o.noBackup
    /\ \A f \in Files : Target(f) =>
         CAUsable(f) /\ \E i \in 1..Len(backup[f]) : backup[f][i] = cert[f]

Inv == TypeOK /\ TodoInv /\ WriteInv

LEMMA InitInv == Init => Inv
<1> SUFFICES ASSUME Init PROVE Inv
  OBVIOUS
<1>1. TypeOK
  BY FilesAssumption, BoundsAssumption, EmptySeq DEF Init, TypeOK, Contents
<1>2. TodoInv /\ WriteInv
  BY DEF Init, TodoInv, WriteInv
<1> QED
  BY <1>1, <1>2 DEF Inv

\* The leaves that a run finds are readable certificates, or it refuses.
LEMMA SelectedAsked ==
  ASSUME TypeOK, NEW x \in Options, ~Refuses(x), NEW f \in Selected(x, clock)
  PROVE  /\ f \in Files /\ cert[f] \in Certs /\ Kind[f] \in x.kinds
         /\ x.nodes = {} \/ nodeMatches(Node[f], x.nodes)
         /\ x.expired => Expired(cert[f], clock)
         /\ x.days # 0
<1>1. f \in Discover(x.kinds) /\ f \in Files /\ Kind[f] \in x.kinds
  BY DEF Selected, Discover
<1>2. cert[f] # Unreadable /\ x.days # 0
  BY <1>1 DEF Refuses
<1> QED
  BY <1>1, <1>2 DEF Selected, TypeOK, Contents

\* The target that is being written has a readable certificate and a usable CA.
LEMMA ReadyFacts ==
  ASSUME Inv, NEW f \in Files, ReadyToWrite(f)
  PROVE  /\ f \in todo /\ CAUsable(f) /\ Asked(f) /\ ~o.dry
         /\ pc # "idle" /\ Selecting(o) /\ o.days # 0
         /\ Rebuild(f) \in Certs
<1>1. /\ f \in todo /\ CAUsable(f) /\ ~o.dry /\ pc # "idle"
  BY DEF Inv, WriteInv, ReadyToWrite, Target
<1>2. Asked(f) /\ Selecting(o) /\ o.days # 0
  BY <1>1 DEF Inv, TodoInv
<1> QED
  BY <1>1, <1>2, RebuildFacts DEF Inv, Asked

LEMMA TypeStep == Inv /\ [Next]_vars => TypeOK'
<1> SUFFICES ASSUME Inv, [Next]_vars PROVE TypeOK'
  OBVIOUS
<1> USE BoundsAssumption
<1>0. TypeOK
  BY DEF Inv
<1>1. ASSUME NEW x \in Options, Refuse(x)
      PROVE  TypeOK'
  BY <1>0, <1>1 DEF TypeOK, Refuse, Start, tree, env
<1>2. ASSUME NEW x \in Options, Begin(x)
      PROVE  TypeOK'
  <2>1. todo' \subseteq Files
    BY <1>2 DEF Begin, Selected, Discover
  <2> QED
    BY <1>0, <1>2, <2>1 DEF TypeOK, Begin, Start, tree, env
<1>3. ASSUME NEW f \in Files, Skip(f)
      PROVE  TypeOK'
  BY <1>0, <1>3 DEF TypeOK, Skip, Continue, tree, env, run
<1>4. ASSUME NEW f \in Files, StopAtCA(f)
      PROVE  TypeOK'
  BY <1>0, <1>4 DEF TypeOK, StopAtCA, EndRun, tree, env, run
<1>5. ASSUME NEW f \in Files, DryRun(f)
      PROVE  TypeOK'
  BY <1>0, <1>5 DEF TypeOK, DryRun, Continue, tree, env, run
<1>6. ASSUME NEW f \in Files, Backup(f)
      PROVE  TypeOK'
  <2>1. Append(backup[f], cert[f]) \in Seq(Contents)
    BY <1>0, AppendProperties DEF TypeOK
  <2>2. backup' \in [Files -> Seq(Contents)]
    BY <1>0, <1>6, <2>1 DEF TypeOK, Backup
  <2>3. result' = "running" /\ pc' = "write"
    BY <1>0, <1>6 DEF TypeOK, Backup
  <2> QED
    BY <1>0, <1>6, <2>2, <2>3 DEF TypeOK, Backup, env, run
<1>7. ASSUME NEW f \in Files, CutBackup(f)
      PROVE  TypeOK'
  <2>1. Append(backup[f], Unreadable) \in Seq(Contents)
    BY <1>0, AppendProperties DEF TypeOK, Contents
  <2>2. backup' \in [Files -> Seq(Contents)]
    BY <1>0, <1>7, <2>1 DEF TypeOK, CutBackup
  <2> QED
    BY <1>0, <1>7, <2>2 DEF TypeOK, CutBackup, EndRun, env, run
<1>8. ASSUME NEW f \in Files, Write(f)
      PROVE  TypeOK'
  <2>1. Rebuild(f) \in Certs
    BY <1>8, ReadyFacts DEF Write
  <2>2. cert' \in [Files -> Contents]
    BY <1>0, <1>8, <2>1 DEF TypeOK, Write, Contents
  <2> QED
    BY <1>0, <1>8, <2>2 DEF TypeOK, Write, Continue, env, run
<1>9. ASSUME NEW f \in Files, CutWrite(f)
      PROVE  TypeOK'
  <2>1. cert' \in [Files -> Contents]
    BY <1>0, <1>9 DEF TypeOK, CutWrite, Contents
  <2> QED
    BY <1>0, <1>9, <2>1 DEF TypeOK, CutWrite, EndRun, env, run
<1>10. ASSUME NEW f \in Files, Restore(f)
       PROVE  TypeOK'
  <2>1. PICK i \in 1..Len(backup[f]) : cert' = [cert EXCEPT ![f] = backup[f][i]]
    BY <1>10 DEF Restore
  <2>2. backup[f][i] \in Contents
    BY <1>0, ElementOfSeq DEF TypeOK
  <2>3. cert' \in [Files -> Contents]
    BY <1>0, <2>1, <2>2 DEF TypeOK
  <2> QED
    BY <1>0, <1>10, <2>3 DEF TypeOK, Restore, env, run
<1>11. CASE Tick
  BY <1>0, <1>11 DEF TypeOK, Tick, tree, run
<1>12. CASE UNCHANGED vars
  BY <1>0, <1>12 DEF TypeOK, vars, tree, env, run
<1> QED
  BY <1>1, <1>2, <1>3, <1>4, <1>5, <1>6, <1>7, <1>8, <1>9, <1>10, <1>11, <1>12 DEF Next

LEMMA StillAsked ==
  ASSUME TodoInv, o' = o, now' = now, todo' \subseteq todo,
         \A f \in todo' : cert'[f] = cert[f]
  PROVE  \A f \in todo' : Asked(f)'
BY DEF TodoInv, Asked, Expired, nodeMatches

LEMMA TodoStep == Inv /\ [Next]_vars => TodoInv'
<1> SUFFICES ASSUME Inv, [Next]_vars PROVE TodoInv'
  OBVIOUS
<1>0. TypeOK /\ TodoInv
  BY DEF Inv
<1>1. ASSUME NEW x \in Options, Refuse(x)
      PROVE  TodoInv'
  BY <1>0, <1>1 DEF TodoInv, Refuse, Start
<1>2. ASSUME NEW x \in Options, Begin(x)
      PROVE  TodoInv'
  <2>1. o' = x /\ now' = clock /\ cert' = cert /\ ~Refuses(x)
    BY <1>2 DEF Begin, Start, tree
  <2>2. \A f \in todo' : f \in Selected(x, clock)
    BY <1>2 DEF Begin
  <2>3. \A f \in todo' : Asked(f)'
    BY <1>0, <2>1, <2>2, SelectedAsked DEF Asked, Expired, nodeMatches
  <2>4. CASE todo' = {}
    BY <1>2, <2>3, <2>4 DEF Begin, TodoInv
  <2>5. CASE todo' # {}
    <3>1. Selecting(x)
      BY <1>2, <2>5 DEF Begin
    <3>2. x.days # 0
      BY <2>1 DEF Refuses
    <3>3. Selecting(o)' /\ (o.days # 0)'
      BY <2>1, <3>1, <3>2 DEF Selecting
    <3>4. pc' # "idle"
      BY <1>2, <2>5 DEF Begin
    <3> QED
      BY <2>3, <3>3, <3>4 DEF TodoInv
  <2> QED
    BY <2>4, <2>5
<1>3. ASSUME NEW left, NEW missed, Continue(left, missed), left \subseteq todo, todo # {},
             UNCHANGED <<o, now>>, pc # "idle",
             \A f \in left : cert'[f] = cert[f]
      PROVE  TodoInv'
  <2>1. \A f \in todo' : Asked(f)'
    BY <1>0, <1>3, StillAsked DEF Continue
  <2>2. Selecting(o)' /\ (o.days # 0)'
    BY <1>0, <1>3 DEF TodoInv, Selecting
  <2>3. pc' = "idle" => todo' = {}
    BY <1>3 DEF Continue
  <2> QED
    BY <2>1, <2>2, <2>3 DEF TodoInv
<1>4. ASSUME EndRun
      PROVE  TodoInv'
  BY <1>4 DEF EndRun, TodoInv
<1>5. ASSUME NEW f \in Files, Skip(f) \/ DryRun(f)
      PROVE  TodoInv'
  <2>1. PICK missed : Continue(todo \ {f}, missed)
    BY <1>5 DEF Skip, DryRun
  <2>2. todo # {} /\ pc # "idle" /\ UNCHANGED <<o, now, cert>>
    BY <1>5 DEF Skip, DryRun, Target, tree, run
  <2> QED
    BY <1>3, <2>1, <2>2
<1>6. ASSUME NEW f \in Files, StopAtCA(f) \/ CutBackup(f) \/ CutWrite(f)
      PROVE  TodoInv'
  BY <1>4, <1>6 DEF StopAtCA, CutBackup, CutWrite
<1>7. ASSUME NEW f \in Files, Write(f)
      PROVE  TodoInv'
  <2>1. Continue(todo \ {f}, skipped) /\ UNCHANGED <<o, now>>
    BY <1>7 DEF Write, run
  <2>2. todo # {} /\ pc # "idle"
    BY <1>7, ReadyFacts DEF Write
  <2>3. \A g \in todo \ {f} : cert'[g] = cert[g]
    BY <1>0, <1>7 DEF Write, TypeOK
  <2> QED
    BY <1>3, <2>1, <2>2, <2>3
<1>8. ASSUME UNCHANGED <<o, now, pc, todo, cert>>
      PROVE  TodoInv'
  BY <1>0, <1>8 DEF TodoInv, Asked, Expired, nodeMatches, Selecting
<1>9. ASSUME NEW f \in Files, Backup(f)
      PROVE  TodoInv'
  <2>1. \A g \in todo' : Asked(g)'
    BY <1>0, <1>9, StillAsked DEF Backup, run
  <2>2. Selecting(o)' /\ (o.days # 0)'
    BY <1>0, <1>9 DEF Backup, TodoInv, Selecting, run
  <2> QED
    BY <1>9, <2>1, <2>2 DEF TodoInv, Backup
<1>10. ASSUME NEW f \in Files, Restore(f)
       PROVE  TodoInv'
  BY <1>0, <1>10 DEF Restore, TodoInv
<1>11. CASE Tick \/ UNCHANGED vars
  BY <1>8, <1>11 DEF Tick, vars, tree, env, run
<1> QED
  BY <1>1, <1>2, <1>5, <1>6, <1>7, <1>9, <1>10, <1>11 DEF Next

LEMMA SameCA ==
  ASSUME cadir' = cadir, cert' = cert, now' = now, NEW f
  PROVE  CAUsable(f)' <=> CAUsable(f)
<1>1. Matching(f)' = Matching(f)
  BY DEF Matching
<1>2. IssuerAt(f)' = IssuerAt(f)
  BY <1>1 DEF IssuerAt
<1>3. Issuer(f)' = Issuer(f)
  BY <1>2 DEF Issuer
<1>4. CAUnreadable(f)' = CAUnreadable(f)
  BY <1>1 DEF CAUnreadable
<1>5. CANotUsable(f)' = CANotUsable(f)
  BY <1>1, <1>3, <1>4 DEF CANotUsable
<1> QED
  BY <1>4, <1>5 DEF CAUsable

\* The last of a sequence of backups.
LEMMA LastBackup ==
  ASSUME TypeOK, NEW f \in Files, NEW c \in Contents,
         backup' = [backup EXCEPT ![f] = Append(@, c)]
  PROVE  /\ backup'[f] = Append(backup[f], c)
         /\ Len(backup'[f]) = Len(backup[f]) + 1
         /\ backup'[f][Len(backup[f]) + 1] = c
         /\ \A i \in 1..Len(backup[f]) : backup'[f][i] = backup[f][i]
         /\ \A g \in Files \ {f} : backup'[g] = backup[g]
         /\ Len(backup[f]) \in Nat
<1>1. backup[f] \in Seq(Contents) /\ backup'[f] = Append(backup[f], c)
  BY DEF TypeOK
<1>2. \A g \in Files \ {f} : backup'[g] = backup[g]
  BY DEF TypeOK
<1> QED
  BY <1>1, <1>2, AppendProperties, LenProperties

LEMMA WriteStep == Inv /\ [Next]_vars => WriteInv'
<1> SUFFICES ASSUME Inv, [Next]_vars PROVE WriteInv'
  OBVIOUS
<1>0. TypeOK /\ TodoInv /\ WriteInv
  BY DEF Inv
<1>1. ASSUME NEW f \in Files, Backup(f)
      PROVE  WriteInv'
  <2>1. cadir' = cadir /\ cert' = cert /\ now' = now /\ o' = o /\ todo' = todo
    BY <1>1 DEF Backup, env, run
  <2>2. cert[f] \in Contents
    BY <1>0 DEF TypeOK
  <2>3. /\ Len(backup'[f]) = Len(backup[f]) + 1 /\ Len(backup[f]) \in Nat
        /\ backup'[f][Len(backup[f]) + 1] = cert[f]
    BY <1>0, <1>1, <2>2, LastBackup DEF Backup
  <2>4. Len(backup[f]) + 1 \in 1..Len(backup'[f])
    BY <2>3
  <2>5. \E i \in 1..Len(backup'[f]) : backup'[f][i] = cert'[f]
    BY <2>1, <2>3, <2>4
  <2>6. CAUsable(f)'
    BY <1>1, <2>1, SameCA DEF Backup
  <2>7. ASSUME NEW g \in Files, Target(g)'
        PROVE  g = f
    <3>1. f \in Nat /\ g \in Nat
      BY FilesAssumption
    <3>2. f \in todo /\ g \in todo /\ f <= g /\ g <= f
      BY <1>1, <2>1, <2>7 DEF Backup, Target
    <3> QED
      BY <3>1, <3>2
  <2>8. ~o'.dry /\ ~o'.noBackup
    BY <1>1, <2>1 DEF Backup
  <2> QED
    BY <2>5, <2>6, <2>7, <2>8 DEF WriteInv
<1>2. CASE Tick \/ UNCHANGED vars
  <2>1. /\ cadir' = cadir /\ cert' = cert /\ now' = now /\ o' = o /\ todo' = todo
        /\ backup' = backup /\ pc' = pc
    BY <1>2 DEF Tick, vars, tree, env, run
  <2>2. \A f \in Files : CAUsable(f)' <=> CAUsable(f)
    BY <2>1, SameCA
  <2> QED
    BY <1>0, <2>1, <2>2 DEF WriteInv, Target
<1>3. ASSUME pc' # "write"
      PROVE  WriteInv'
  BY <1>3 DEF WriteInv
<1>4. ASSUME NEW x \in Options, Refuse(x) \/ Begin(x)
      PROVE  WriteInv'
  BY <1>3, <1>4 DEF Refuse, Begin, Start
<1>5. ASSUME NEW f \in Files, Skip(f) \/ StopAtCA(f) \/ DryRun(f) \/ CutBackup(f)
                                \/ Write(f) \/ CutWrite(f) \/ Restore(f)
      PROVE  WriteInv'
  BY <1>3, <1>5
     DEF Skip, StopAtCA, DryRun, CutBackup, Write, CutWrite, Restore, Continue, EndRun
<1> QED
  BY <1>1, <1>2, <1>4, <1>5 DEF Next

\* The invariant that the other theorems rest on: types, and what a run knows of its
\* targets and of the one it writes (Reissue, reissueOne).
THEOREM InvHolds == Spec => []Inv
<1>1. Inv /\ [Next]_vars => Inv'
  BY TypeStep, TodoStep, WriteStep DEF Inv
<1> QED
  BY <1>1, InitInv, PTL DEF Spec

\* Each file and each backup holds a certificate or an unreadable file, and a run is
\* under way exactly while it has targets (TypeOK).
THEOREM ReissueTypes == Spec => []TypeOK
<1>1. Inv => TypeOK
  BY DEF Inv
<1> QED
  BY <1>1, InvHolds, PTL

-----------------------------------------------------------------------------
(* Nothing is lost.                                                         *)

LEMMA KeepStep ==
  ASSUME Inv, [Next]_vars, ~o'.noBackup, NEW f \in Files
  PROVE  Held(f) \subseteq Held(f)'
<1>0. TypeOK /\ WriteInv
  BY DEF Inv
<1> DEFINE Backups == {backup[f][i] : i \in 1..Len(backup[f])}
<1>1. ASSUME backup' = backup,
             cert'[f] # cert[f] => cert[f] \in Backups \cup {Unreadable}
      PROVE  Held(f) \subseteq Held(f)'
  BY <1>1 DEF Held
<1>2. ASSUME cert' = cert, NEW g \in Files, NEW c \in Contents,
             backup' = [backup EXCEPT ![g] = Append(@, c)]
      PROVE  Held(f) \subseteq Held(f)'
  <2>1. CASE f # g
    <3>1. backup'[f] = backup[f]
      BY <1>0, <1>2, <2>1, LastBackup
    <3> QED
      BY <1>2, <3>1 DEF Held
  <2>2. CASE f = g
    <3>1. /\ Len(backup'[f]) = Len(backup[f]) + 1 /\ Len(backup[f]) \in Nat
          /\ \A i \in 1..Len(backup[f]) : backup'[f][i] = backup[f][i]
      BY <1>0, <1>2, <2>2, LastBackup
    <3>2. \A i \in 1..Len(backup[f]) : i \in 1..Len(backup'[f])
      BY <3>1
    <3>3. Backups \subseteq {backup'[f][i] : i \in 1..Len(backup'[f])}
      BY <3>1, <3>2
    <3> QED
      BY <1>2, <3>3 DEF Held
  <2> QED
    BY <2>1, <2>2
<1>3. ASSUME NEW g \in Files, Write(g) \/ CutWrite(g)
      PROVE  Held(f) \subseteq Held(f)'
  <2>1. backup' = backup /\ o' = o /\ ReadyToWrite(g)
    BY <1>3 DEF Write, CutWrite, run
  <2>2. cert'[f] # cert[f] => f = g
    BY <1>0, <1>3 DEF Write, CutWrite, TypeOK
  <2>3. cert[g] \in {backup[g][i] : i \in 1..Len(backup[g])}
    BY <1>0, <2>1 DEF ReadyToWrite, WriteInv
  <2> QED
    BY <1>1, <2>1, <2>2, <2>3
<1>4. ASSUME NEW g \in Files, Restore(g)
      PROVE  Held(f) \subseteq Held(f)'
  <2>1. backup' = backup
    BY <1>4 DEF Restore
  <2>2. cert'[f] # cert[f] => cert[f] = Unreadable
    BY <1>0, <1>4 DEF Restore, TypeOK
  <2> QED
    BY <1>1, <2>1, <2>2
<1>5. ASSUME NEW g \in Files, Backup(g)
      PROVE  Held(f) \subseteq Held(f)'
  <2>1. cert[g] \in Contents
    BY <1>0 DEF TypeOK
  <2> QED
    BY <1>2, <1>5, <2>1 DEF Backup
<1>6. ASSUME cert' = cert, backup' = backup
      PROVE  Held(f) \subseteq Held(f)'
  BY <1>1, <1>6
<1>7. ASSUME NEW g \in Files, CutBackup(g)
      PROVE  Held(f) \subseteq Held(f)'
  <2>1. Unreadable \in Contents /\ cert' = cert
    BY <1>7 DEF Contents, CutBackup
  <2>2. CASE backup' = backup
    BY <1>6, <2>1, <2>2
  <2>3. CASE backup' = [backup EXCEPT ![g] = Append(@, Unreadable)]
    BY <1>2, <2>1, <2>3
  <2> QED
    BY <1>7, <2>2, <2>3 DEF CutBackup
<1>8. ASSUME NEW x \in Options, Refuse(x) \/ Begin(x)
      PROVE  Held(f) \subseteq Held(f)'
  BY <1>6, <1>8 DEF Refuse, Begin, Start, tree
<1>9. ASSUME NEW g \in Files, Skip(g) \/ StopAtCA(g) \/ DryRun(g)
      PROVE  Held(f) \subseteq Held(f)'
  BY <1>6, <1>9 DEF Skip, StopAtCA, DryRun, tree
<1>10. CASE Tick \/ UNCHANGED vars
  BY <1>6, <1>10 DEF Tick, vars, tree
<1> QED
  BY <1>3, <1>4, <1>5, <1>7, <1>8, <1>9, <1>10 DEF Next

\* Whatever the writes that are cut short and the runs that back a file up again, no
\* certificate that a file or its backups hold is ever lost without --no-backup (reissueOne,
\* BackupPath).
THEOREM NeverLost == Spec => NothingLost
<1>1. Inv /\ [Next]_vars => [~o'.noBackup => \A f \in Files : Held(f) \subseteq Held(f)']_vars
  BY KeepStep
<1> QED
  BY <1>1, InvHolds, PTL DEF Spec, NothingLost

-----------------------------------------------------------------------------
(* Only what was selected changes.                                          *)

LEMMA ChangedByWrite ==
  ASSUME Inv, [Next]_vars, NEW f \in Files, cert'[f] # cert[f], cert[f] # Unreadable
  PROVE  /\ ReadyToWrite(f)
         /\ cert'[f] # Unreadable => cert'[f] = Rebuild(f)
<1>0. TypeOK
  BY DEF Inv
<1>1. cert' # cert
  OBVIOUS
<1>2. ASSUME NEW g \in Files, Write(g) \/ CutWrite(g)
      PROVE  /\ ReadyToWrite(f)
             /\ cert'[f] # Unreadable => cert'[f] = Rebuild(f)
  BY <1>0, <1>2 DEF Write, CutWrite, TypeOK
<1>3. ASSUME NEW g \in Files, Restore(g)
      PROVE  FALSE
  BY <1>0, <1>3 DEF Restore, TypeOK
<1>4. ASSUME NEW g \in Files, Skip(g) \/ StopAtCA(g) \/ DryRun(g) \/ Backup(g) \/ CutBackup(g)
      PROVE  FALSE
  BY <1>1, <1>4 DEF Skip, StopAtCA, DryRun, Backup, CutBackup, tree
<1>5. ASSUME NEW x \in Options, Refuse(x) \/ Begin(x)
      PROVE  FALSE
  BY <1>1, <1>5 DEF Refuse, Begin, Start, tree
<1>6. ~(Tick \/ UNCHANGED vars)
  BY <1>1 DEF Tick, vars, tree
<1> QED
  BY <1>2, <1>3, <1>4, <1>5, <1>6 DEF Next

\* A run changes only readable leaves of the types and nodes it was asked for, expired ones
\* if only those are wanted, to certificates of the same identity and issuer, made with a
\* key on disk (Reissue, reissueOne).
THEOREM ChangesOnlySelected == Spec => OnlySelected
<1> DEFINE Fair(f) ==
             /\ Selecting(o) /\ ~o.dry
             /\ Kind[f] \in o.kinds
             /\ o.nodes = {} \/ nodeMatches(Node[f], o.nodes)
             /\ o.expired => Expired(cert[f], now)
             /\ cert'[f] # Unreadable =>
                  /\ cert'[f].of = cert[f].of /\ cert'[f].issuer = cert[f].issuer
                  /\ cert'[f].until > now
                  /\ cert'[f].key \in cadir[Dir[f]].keys
<1>1. ASSUME Inv, [Next]_vars, NEW f \in Files, cert'[f] # cert[f], cert[f] # Unreadable
      PROVE  Fair(f)
  <2>1. ReadyToWrite(f) /\ (cert'[f] # Unreadable => cert'[f] = Rebuild(f))
    BY <1>1, ChangedByWrite
  <2>2. CAUsable(f) /\ Asked(f) /\ ~o.dry /\ Selecting(o) /\ o.days # 0
    BY <1>1, <2>1, ReadyFacts
  <2>3. cert'[f] # Unreadable =>
          /\ cert'[f].of = cert[f].of /\ cert'[f].issuer = cert[f].issuer
          /\ cert'[f].until > now
          /\ cert'[f].key \in cadir[Dir[f]].keys
    BY <1>1, <2>1, <2>2, RebuildFacts DEF Inv, Asked
  <2> QED
    BY <2>2, <2>3 DEF Asked
<1>2. Inv /\ [Next]_vars =>
        [\A f \in Files : (cert'[f] # cert[f] /\ cert[f] # Unreadable) => Fair(f)]_vars
  BY <1>1
<1> QED
  BY <1>2, InvHolds, PTL DEF Spec, OnlySelected

-----------------------------------------------------------------------------
(* Certificates stay within their CA.                                       *)

\* Certificate c is valid only while a CA of directory d with its issuer's name and key is.
Within(c, d) ==
  \E i \in 1..Len(d.pems) :
    /\ d.pems[i] # Unreadable
    /\ d.pems[i].subject = c.issuer /\ d.pems[i].key = c.key
    /\ d.pems[i].from <= c.from /\ c.until <= d.pems[i].until

FirstWithin ==
  \A d \in CADirs : \A f \in Files : Within(First[f], d[Dir[f]])

WithinInv ==
  \A f \in Files :
    /\ cert[f] # Unreadable => Within(cert[f], cadir[Dir[f]])
    /\ \A i \in 1..Len(backup[f]) :
         backup[f][i] # Unreadable => Within(backup[f][i], cadir[Dir[f]])

LEMMA CADirStays == Inv /\ [Next]_vars => cadir' = cadir
BY DEF Next, Refuse, Begin, Start, Skip, StopAtCA, DryRun, Backup, CutBackup, Write, CutWrite,
       Restore, Tick, vars, env

LEMMA WithinStep == Inv /\ WithinInv /\ [Next]_vars => WithinInv'
<1> SUFFICES ASSUME Inv, WithinInv, [Next]_vars PROVE WithinInv'
  OBVIOUS
<1>0. TypeOK /\ cadir' = cadir
  BY CADirStays DEF Inv
<1>1. ASSUME UNCHANGED <<cert, backup>>
      PROVE  WithinInv'
  BY <1>0, <1>1 DEF WithinInv
<1>2. ASSUME backup' = backup, NEW f \in Files, NEW c,
             cert' = [cert EXCEPT ![f] = c],
             c # Unreadable => Within(c, cadir[Dir[f]])
      PROVE  WithinInv'
  <2>1. \A g \in Files : cert'[g] = IF g = f THEN c ELSE cert[g]
    BY <1>0, <1>2 DEF TypeOK
  <2> QED
    BY <1>0, <1>2, <2>1 DEF WithinInv
<1>3. ASSUME cert' = cert, NEW f \in Files, NEW c \in Contents,
             backup' = [backup EXCEPT ![f] = Append(@, c)],
             c # Unreadable => Within(c, cadir[Dir[f]])
      PROVE  WithinInv'
  <2>1. /\ Len(backup'[f]) = Len(backup[f]) + 1 /\ Len(backup[f]) \in Nat
        /\ backup'[f][Len(backup[f]) + 1] = c
        /\ \A i \in 1..Len(backup[f]) : backup'[f][i] = backup[f][i]
        /\ \A g \in Files \ {f} : backup'[g] = backup[g]
    BY <1>0, <1>3, LastBackup
  <2>2. ASSUME NEW i \in 1..Len(backup'[f]), backup'[f][i] # Unreadable
        PROVE  Within(backup'[f][i], cadir[Dir[f]])
    <3>1. i \in 1..Len(backup[f]) \/ i = Len(backup[f]) + 1
      BY <2>1
    <3> QED
      BY <1>3, <2>1, <2>2, <3>1 DEF WithinInv
  <2>3. ASSUME NEW g \in Files, g # f, NEW i \in 1..Len(backup'[g]), backup'[g][i] # Unreadable
        PROVE  Within(backup'[g][i], cadir[Dir[g]])
    BY <2>1, <2>3 DEF WithinInv
  <2> QED
    BY <1>0, <1>3, <2>2, <2>3 DEF WithinInv
<1>4. ASSUME NEW f \in Files, Write(f)
      PROVE  WithinInv'
  <2>1. CAUsable(f) /\ cert[f] \in Certs /\ o.days # 0
    BY <1>4, ReadyFacts DEF Write, Asked
  <2>2. /\ IssuerAt(f) \in 1..Len(cadir[Dir[f]].pems)
        /\ Issuer(f) = cadir[Dir[f]].pems[IssuerAt(f)] /\ Issuer(f) # Unreadable
        /\ Issuer(f).subject = cert[f].issuer
    BY <1>0, <2>1, IssuerFacts
  <2>3. /\ Rebuild(f).issuer = cert[f].issuer /\ Rebuild(f).key = Issuer(f).key
        /\ Issuer(f).from <= Rebuild(f).from /\ Rebuild(f).until <= Issuer(f).until
    BY <1>0, <2>1, RebuildFacts
  <2>4. Within(Rebuild(f), cadir[Dir[f]])
    BY <2>2, <2>3 DEF Within
  <2> QED
    BY <1>2, <1>4, <2>4 DEF Write
<1>5. ASSUME NEW f \in Files, CutWrite(f)
      PROVE  WithinInv'
  BY <1>1, <1>2, <1>5 DEF CutWrite
<1>6. ASSUME NEW f \in Files, Restore(f)
      PROVE  WithinInv'
  <2>1. PICK i \in 1..Len(backup[f]) : cert' = [cert EXCEPT ![f] = backup[f][i]]
    BY <1>6 DEF Restore
  <2>2. backup[f][i] # Unreadable => Within(backup[f][i], cadir[Dir[f]])
    BY DEF WithinInv
  <2> QED
    BY <1>2, <1>6, <2>1, <2>2 DEF Restore
<1>7. ASSUME NEW f \in Files, Backup(f)
      PROVE  WithinInv'
  <2>1. cert[f] \in Contents /\ (cert[f] # Unreadable => Within(cert[f], cadir[Dir[f]]))
    BY <1>0 DEF TypeOK, WithinInv
  <2> QED
    BY <1>3, <1>7, <2>1 DEF Backup
<1>8. ASSUME NEW f \in Files, CutBackup(f)
      PROVE  WithinInv'
  <2>1. Unreadable \in Contents /\ cert' = cert
    BY <1>8 DEF Contents, CutBackup
  <2>2. CASE backup' = backup
    BY <1>1, <2>1, <2>2
  <2>3. CASE backup' = [backup EXCEPT ![f] = Append(@, Unreadable)]
    BY <1>3, <2>1, <2>3
  <2> QED
    BY <1>8, <2>2, <2>3 DEF CutBackup
<1>9. ASSUME NEW f \in Files, Skip(f) \/ StopAtCA(f) \/ DryRun(f)
      PROVE  WithinInv'
  BY <1>1, <1>9 DEF Skip, StopAtCA, DryRun, tree
<1>10. ASSUME NEW x \in Options, Refuse(x) \/ Begin(x)
       PROVE  WithinInv'
  BY <1>1, <1>10 DEF Refuse, Begin, Start, tree
<1>11. CASE Tick \/ UNCHANGED vars
  BY <1>1, <1>11 DEF Tick, vars, tree
<1> QED
  BY <1>4, <1>5, <1>6, <1>7, <1>8, <1>9, <1>10, <1>11 DEF Next

\* If the certificates that cryptogen wrote lie within their CA's validity, so does every
\* certificate that reissue ever leaves in a file, with any --days and at any time (Rebuild,
\* reissueOne).
THEOREM StaysWithinCA == ASSUME FirstWithin PROVE Spec => []ValidWithinCA
<1>1. Init => WithinInv
  <2> SUFFICES ASSUME Init, NEW f \in Files
               PROVE  /\ Within(cert[f], cadir[Dir[f]])
                      /\ ~\E i \in 1..Len(backup[f]) : TRUE
    BY DEF WithinInv
  <2>1. Within(cert[f], cadir[Dir[f]])
    BY FirstWithin DEF Init, FirstWithin
  <2>2. backup[f] = <<>>
    BY DEF Init
  <2>3. Len(backup[f]) = 0
    BY <2>2
  <2> QED
    BY <2>1, <2>3
<1>2. WithinInv => ValidWithinCA
  BY DEF WithinInv, ValidWithinCA, Within
<1> QED
  BY <1>1, <1>2, WithinStep, InvHolds, PTL DEF Spec

-----------------------------------------------------------------------------
(* The report is true.                                                      *)

\* While a run is under way, a leaf that it was asked to renew and has not is one of the
\* targets it has left, or was skipped.
ReportInv ==
  /\ (pc # "idle" /\ ~o.dry) =>
       \A f \in Files : (Wanted(f) /\ NotRenewed(f)) => f \in todo \cup skipped
  /\ ReportIsTrue

\* After a target was handled, with the leaves that are left and those that were skipped.
LEMMA ContinueReports ==
  ASSUME NEW left, NEW missed, Continue(left, missed), skipped' = missed,
         o'.dry \/ \A f \in Files : (Wanted(f)' /\ NotRenewed(f)') => f \in left \cup missed
  PROVE  ReportInv'
<1>1. CASE left # {}
  BY <1>1 DEF Continue, ReportInv, ReportIsTrue
<1>2. CASE left = {}
  BY <1>2 DEF Continue, ReportInv, ReportIsTrue
<1> QED
  BY <1>1, <1>2

LEMMA SameWish ==
  ASSUME UNCHANGED <<o, now, runs>>, NEW f, cert'[f] = cert[f]
  PROVE  Wanted(f)' = Wanted(f) /\ NotRenewed(f)' = NotRenewed(f)
BY DEF Wanted, NotRenewed, Expired, nodeMatches

LEMMA ReportStep == Inv /\ ReportInv /\ [Next]_vars => ReportInv'
<1> SUFFICES ASSUME Inv, ReportInv, [Next]_vars PROVE ReportInv'
  OBVIOUS
<1>0. TypeOK /\ TodoInv
  BY DEF Inv
<1>1. ASSUME NEW x \in Options, Refuse(x)
      PROVE  ReportInv'
  <2>1. pc' = "idle" /\ result' = "refused"
    BY <1>1 DEF Refuse, Start
  <2> QED
    BY <2>1 DEF ReportInv, ReportIsTrue
<1>2. ASSUME NEW x \in Options, Begin(x)
      PROVE  ReportInv'
  <2>1. o' = x /\ now' = clock /\ cert' = cert /\ skipped' = {} /\ ~Refuses(x)
    BY <1>2 DEF Begin, Start, tree
  <2>2. ASSUME NEW f \in Files, Selecting(x), Wanted(f)', NotRenewed(f)'
        PROVE  f \in todo'
    <3>1. Kind[f] \in x.kinds /\ (x.nodes = {} \/ nodeMatches(Node[f], x.nodes))
      BY <2>1, <2>2 DEF Wanted, nodeMatches
    <3>2. f \in Discover(x.kinds) /\ cert[f] # Unreadable
      BY <2>1, <3>1 DEF Discover, Refuses
    <3>3. x.expired => Expired(cert[f], clock)
      BY <2>1, <2>2, <3>2 DEF NotRenewed, Expired
    <3>4. f \in Selected(x, clock)
      BY <3>1, <3>2, <3>3 DEF Selected
    <3> QED
      BY <1>2, <2>2, <3>4 DEF Begin
  <2>3. CASE todo' = {}
    <3>1. pc' = "idle" /\ result' = "ok"
      BY <1>2, <2>3 DEF Begin
    <3>2. Selecting(o)' => Selecting(x)
      BY <2>1 DEF Selecting
    <3> QED
      BY <2>2, <2>3, <3>1, <3>2 DEF ReportInv, ReportIsTrue
  <2>4. CASE todo' # {}
    <3>1. pc' = "renew" /\ Selecting(x)
      BY <1>2, <2>4 DEF Begin
    <3> QED
      BY <2>2, <3>1 DEF ReportInv, ReportIsTrue
  <2> QED
    BY <2>3, <2>4
<1>3. ASSUME NEW f \in Files, Skip(f)
      PROVE  ReportInv'
  <2>1. /\ Continue(todo \ {f}, skipped') /\ skipped' = skipped \cup {f}
        /\ UNCHANGED <<o, now, runs, cert>> /\ pc # "idle"
    BY <1>3 DEF Skip, tree, run
  <2>2. \A g \in Files : Wanted(g)' = Wanted(g) /\ NotRenewed(g)' = NotRenewed(g)
    BY <2>1, SameWish
  <2>3. o'.dry \/ \A g \in Files : (Wanted(g)' /\ NotRenewed(g)')
                                     => g \in (todo \ {f}) \cup skipped'
    BY <2>1, <2>2 DEF ReportInv
  <2> QED
    BY <2>1, <2>3, ContinueReports
<1>4. ASSUME NEW f \in Files, DryRun(f)
      PROVE  ReportInv'
  <2>1. Continue(todo \ {f}, skipped) /\ skipped' = skipped /\ o'.dry
    BY <1>4 DEF DryRun, run
  <2> QED
    BY <2>1, ContinueReports
<1>5. ASSUME NEW f \in Files, Write(f)
      PROVE  ReportInv'
  <2>1. /\ Continue(todo \ {f}, skipped) /\ skipped' = skipped
        /\ UNCHANGED <<o, now, runs>> /\ cert' = [cert EXCEPT ![f] = Rebuild(f)]
    BY <1>5 DEF Write, run
  <2>2. CAUsable(f) /\ cert[f] \in Certs /\ o.days # 0 /\ pc # "idle"
    BY <1>5, ReadyFacts DEF Write, Asked
  <2>3. /\ cert'[f] \in Certs /\ cert'[f].made = runs /\ cert'[f].until > now
    BY <1>0, <2>1, <2>2, RebuildFacts DEF TypeOK
  <2>4. ~NotRenewed(f)'
    <3>1. cert'[f] # Unreadable
      BY <2>3, FilesAssumption
    <3>2. cert'[f].until \in Int /\ now \in Int /\ runs \in Nat
      BY <1>0, <2>3, BoundsAssumption DEF Certs, Times, TypeOK
    <3>3. ~(cert'[f].until <= now') /\ ~(cert'[f].made < runs')
      BY <2>1, <2>3, <3>2
    <3> QED
      BY <3>1, <3>3 DEF NotRenewed, Expired
  <2>5. \A g \in Files \ {f} : cert'[g] = cert[g]
    BY <1>0, <2>1 DEF TypeOK
  <2>6. \A g \in Files \ {f} : Wanted(g)' = Wanted(g) /\ NotRenewed(g)' = NotRenewed(g)
    BY <2>1, <2>5, SameWish
  <2>7. o'.dry \/ \A g \in Files : (Wanted(g)' /\ NotRenewed(g)')
                                     => g \in (todo \ {f}) \cup skipped
    BY <2>1, <2>2, <2>4, <2>6 DEF ReportInv
  <2> QED
    BY <2>1, <2>7, ContinueReports
<1>6. ASSUME NEW f \in Files, StopAtCA(f) \/ CutBackup(f) \/ CutWrite(f)
      PROVE  ReportInv'
  BY <1>6 DEF StopAtCA, CutBackup, CutWrite, EndRun, ReportInv, ReportIsTrue
<1>7. ASSUME UNCHANGED <<cert, o, now, runs, todo, skipped, result>>,
             pc # "idle" <=> pc' # "idle"
      PROVE  ReportInv'
  <2>1. \A g \in Files : Wanted(g)' = Wanted(g) /\ NotRenewed(g)' = NotRenewed(g)
    BY <1>7, SameWish
  <2>2. Selecting(o)' = Selecting(o)
    BY <1>7 DEF Selecting
  <2> QED
    BY <1>7, <2>1, <2>2 DEF ReportInv, ReportIsTrue
<1>8. ASSUME NEW f \in Files, Backup(f)
      PROVE  ReportInv'
  BY <1>7, <1>8 DEF Backup, run
<1>9. ASSUME NEW f \in Files, Restore(f)
      PROVE  ReportInv'
  <2>1. UNCHANGED <<o, now, runs, todo, skipped, result, pc>> /\ pc = "idle"
    BY <1>9 DEF Restore, run
  <2>2. \A g \in Files \ {f} : cert'[g] = cert[g]
    BY <1>0, <1>9 DEF Restore, TypeOK
  <2>3. \A g \in Files \ {f} : Wanted(g)' = Wanted(g) /\ NotRenewed(g)' = NotRenewed(g)
    BY <2>1, <2>2, SameWish
  <2>4. Wanted(f)' = Wanted(f) /\ Selecting(o)' = Selecting(o)
    BY <2>1 DEF Wanted, Selecting, nodeMatches
  <2>5. NotRenewed(f)
    BY <1>9 DEF Restore, NotRenewed
  <2>6. \A g \in Files : (Wanted(g)' /\ NotRenewed(g)') => Wanted(g) /\ NotRenewed(g)
    BY <2>3, <2>4, <2>5
  <2>7. ReportIsTrue'
    <3> SUFFICES ASSUME Selecting(o), ~o.dry PROVE ReportIsTrue'
      BY <2>1, <2>4 DEF ReportIsTrue
    <3>1. result = "ok" => \A g \in Files : Wanted(g) => ~NotRenewed(g)
      BY <2>1 DEF ReportInv, ReportIsTrue
    <3>2. result = "failed" => /\ skipped # {}
                               /\ \A g \in Files : (Wanted(g) /\ NotRenewed(g)) => g \in skipped
      BY <2>1 DEF ReportInv, ReportIsTrue
    <3> QED
      BY <2>1, <2>6, <3>1, <3>2 DEF ReportIsTrue
  <2> QED
    BY <2>1, <2>7 DEF ReportInv
<1>10. CASE Tick \/ UNCHANGED vars
  BY <1>7, <1>10 DEF Tick, vars, tree, env, run
<1> QED
  BY <1>1, <1>2, <1>3, <1>4, <1>5, <1>6, <1>8, <1>9, <1>10 DEF Next

\* A run that reports success renewed every leaf it was asked to, and one that reports
\* failures every leaf but those it names (Reissue).
THEOREM ReportsAreTrue == Spec => []ReportIsTrue
<1>1. Init => ReportInv
  BY DEF Init, ReportInv, ReportIsTrue
<1>2. ReportInv => ReportIsTrue
  BY DEF ReportInv
<1> QED
  BY <1>1, <1>2, ReportStep, InvHolds, PTL DEF Spec
=============================================================================
