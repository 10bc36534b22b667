------------------------------- MODULE Reissue -------------------------------
(***************************************************************************)
(* `reissue` and `cert_expiries` (internal/certs): the certificate files of *)
(* a crypto-config tree, their backups, and the runs of `reissue` that       *)
(* re-sign the selected leaves with the CA on disk.  A run handles its       *)
(* targets one after the other; a leaf whose CA cannot be used is skipped    *)
(* and reported, any other error ends the run.  Each write may be cut short  *)
(* (killed, the disk full), and the user runs `reissue` again.               *)
(***************************************************************************)
EXTENDS Integers, Sequences

CONSTANTS
  Files,     \* the certificate files, numbered in the order a run handles them
  Kind,      \* of each file: see Kinds
  Node,      \* of each file: the node's name, as the sequence of its labels
  Dir,       \* of each file: the directory of the CA that issues it
  Depth,     \* of each file: the components of its path
  CADirs,    \* the possible contents of the directories: [Dirs -> CADir]
  First,     \* what cryptogen wrote in each file
  Options,   \* the options the user runs reissue with
  NotSet,    \* no --days
  Unreadable,\* a file that is no certificate, or no longer
  Now0,      \* the time of the first run
  MaxTime,   \* bound: the clock
  MaxRuns,   \* bound: runs of reissue
  MaxCuts    \* bound: writes cut short

\* "signcert" and "tls" are the leaves that leafSpecs names.  The other certificate
\* files of a tree: a user's tls/client.crt, and the copies in admincerts.
Kinds == {"signcert", "tls"}
OtherKinds == {"client", "copy"}

Times == Int
Dirs == {Dir[f] : f \in Files}
\* A certificate: whose it is (subject, key and extensions), the subject and the key
\* of its issuer, its validity, and the run that made it.
Certs == [of : Files, issuer : STRING, key : STRING, from : Times, until : Times, made : Nat]
CACerts == [subject : STRING, key : STRING, from : Times, until : Times]
CADir == [there : BOOLEAN, pems : Seq(CACerts \cup {Unreadable}), keys : SUBSET STRING]
Option == [kinds : SUBSET Kinds, nodes : SUBSET Seq(STRING), expired : BOOLEAN,
           all : BOOLEAN, days : Nat \cup {NotSet}, dry : BOOLEAN, noBackup : BOOLEAN]

ASSUME FilesAssumption ==
  /\ Files \subseteq Nat
  /\ Kind \in [Files -> Kinds \cup OtherKinds] /\ Node \in [Files -> Seq(STRING)]
  /\ Depth \in [Files -> Nat]
  /\ First \in [Files -> Certs]
  /\ Unreadable \notin Certs /\ Unreadable \notin CACerts
ASSUME CADirsAssumption ==
  \A d \in CADirs : DOMAIN d = Dirs /\ \A x \in Dirs : d[x] \in CADir
ASSUME OptionsAssumption == Options \subseteq Option /\ NotSet \notin Nat
ASSUME BoundsAssumption ==
  Now0 \in Int /\ MaxTime \in Int /\ MaxRuns \in Nat /\ MaxCuts \in Nat

VARIABLES
  cert,     \* what each file holds
  backup,   \* the backups of each file, in the order they were made
  cadir,    \* the CA directories
  clock,
  o,        \* the options of the last run
  now,      \* the time it started at
  pc,       \* "idle", "renew" (at the next target) or "write" (it has its backup)
  todo,     \* the targets it has left
  skipped,  \* the targets that it could not renew
  result,   \* "none", "running", "ok", "failed" or "refused" for other errors
  runs, cuts

tree == <<cert, backup>>
env  == <<cadir, clock>>
run  == <<o, now, runs>>
vars == <<tree, env, run, pc, todo, skipped, result, cuts>>

Contents == Certs \cup {Unreadable}

TypeOK ==
  /\ cert \in [Files -> Contents]
  /\ backup \in [Files -> Seq(Contents)]
  /\ cadir \in CADirs
  /\ clock \in Int /\ now \in Int
  /\ o \in Options
  /\ pc \in {"idle", "renew", "write"}
  /\ todo \subseteq Files /\ skipped \subseteq Files
  /\ result \in {"none", "running", "ok", "failed", "refused"}
  /\ (result = "running") <=> (pc # "idle")
  /\ runs \in 0..MaxRuns /\ cuts \in 0..MaxCuts

Init ==
  /\ cert = First
  /\ backup = [f \in Files |-> <<>>]
  /\ cadir \in CADirs
  /\ clock = Now0 /\ now = Now0
  /\ o \in Options
  /\ pc = "idle" /\ todo = {} /\ skipped = {} /\ result = "none"
  /\ runs = 0 /\ cuts = 0

-----------------------------------------------------------------------------
(* Which leaves a run renews.                                               *)

\* The leaves that Discover finds: none for a user's TLS certificate.
Discover(kinds) == {f \in Files : Kind[f] \in kinds}

\* A name matches at a dotted boundary: peer1 does not match peer10.
nodeMatches(node, patterns) ==
  \E p \in patterns : Len(p) <= Len(node) /\ SubSeq(node, 1, Len(p)) = p

Expired(c, t) == c.until <= t

\* What ends a run before it selects anything.
Refuses(x) ==
  \/ x.days = 0
  \/ \E f \in Discover(x.kinds) : cert[f] = Unreadable
  \/ Discover(x.kinds) = {}
  \/ \E p \in x.nodes : ~\E f \in Discover(x.kinds) : nodeMatches(Node[f], {p})

Selecting(x) == x.all \/ x.expired \/ x.nodes # {}

SelectedAnyNode(x, t) ==   \* faulty: the nodes count only without --all-expired
  {f \in Discover(x.kinds) :
     IF x.expired THEN Expired(cert[f], t) ELSE x.nodes = {} \/ nodeMatches(Node[f], x.nodes)}

\* An expired leaf is one that is not valid after t: --all-expired wants it.
Selected(x, t) ==
  {f \in Discover(x.kinds) :
     /\ x.nodes # {} => nodeMatches(Node[f], x.nodes)
     /\ x.expired => Expired(cert[f], t)}

Start(x) ==
  /\ pc = "idle" /\ runs < MaxRuns
  /\ o' = x /\ now' = clock /\ runs' = runs + 1
  /\ skipped' = {}
  /\ UNCHANGED <<tree, env, cuts>>

Refuse(x) ==
  /\ Start(x) /\ Refuses(x)
  /\ result' = "refused" /\ UNCHANGED <<pc, todo>>

\* Without a target the run only lists the leaves, which is a success.
Begin(x) ==
  /\ Start(x) /\ ~Refuses(x)
  /\ todo' = IF Selecting(x) THEN Selected(x, clock) ELSE {}
  /\ pc' = IF todo' = {} THEN "idle" ELSE "renew"
  /\ result' = IF todo' = {} THEN "ok" ELSE "running"

-----------------------------------------------------------------------------
(* The CA that issued a leaf.                                               *)

\* The certificates in the directory with the subject that the leaf names, of which
\* ResolveCA takes the first; it reads those before it.
Matching(f) ==
  LET d == cadir[Dir[f]]
  IN {i \in 1..Len(d.pems) : d.pems[i] # Unreadable /\ d.pems[i].subject = cert[f].issuer}
IssuerAt(f) == CHOOSE i \in Matching(f) : \A j \in Matching(f) : i <= j
Issuer(f) == cadir[Dir[f]].pems[IssuerAt(f)]

\* An unreadable file before the CA's is no reason to skip the leaf: it ends the run.
CAUnreadable(f) ==
  LET d == cadir[Dir[f]]
  IN /\ d.there
     /\ \E i \in 1..Len(d.pems) :
          d.pems[i] = Unreadable /\ \A j \in Matching(f) : i < j

\* ErrReissue: no directory, no such CA, no key that pairs with it, or an expired CA.
CANotUsable(f) ==
  /\ ~CAUnreadable(f)
  /\ \/ ~cadir[Dir[f]].there
     \/ Matching(f) = {}
     \/ Issuer(f).key \notin cadir[Dir[f]].keys
     \/ Issuer(f).until <= now

CAUsable(f) == ~CAUnreadable(f) /\ ~CANotUsable(f)

NotAfterUncapped(f) ==   \* faulty: as many days as asked
  IF o.days # NotSet THEN now + o.days ELSE Issuer(f).until

\* The days asked from the start of the run, capped at the CA's expiry.
NotAfter(f) ==
  IF o.days # NotSet /\ now + o.days <= Issuer(f).until
    THEN now + o.days ELSE Issuer(f).until

Skew == 1  \* five minutes

NotBefore(f) ==
  IF clock - Skew < Issuer(f).from THEN Issuer(f).from ELSE clock - Skew

\* Subject, key and extensions stay; issuer, validity and serial number are new.
Rebuild(f) ==
  [of |-> cert[f].of, issuer |-> Issuer(f).subject, key |-> Issuer(f).key,
   from |-> NotBefore(f), until |-> NotAfter(f), made |-> runs]

-----------------------------------------------------------------------------
(* The loop over the targets.                                               *)

Target(f) == f \in todo /\ \A g \in todo : f <= g

\* After the last target: a leaf that was skipped is an error.
Continue(left, missed) ==
  /\ todo' = left
  /\ pc' = IF left = {} THEN "idle" ELSE "renew"
  /\ result' = IF left # {} THEN "running" ELSE IF missed = {} THEN "ok" ELSE "failed"

EndRunMidway ==   \* faulty: the loop ends and the run stays where it is
  /\ todo' = {} /\ result' = "refused"
  /\ UNCHANGED <<pc, skipped>>

EndRun ==
  /\ todo' = {} /\ pc' = "idle" /\ result' = "refused"
  /\ UNCHANGED skipped

SkipStops(f) ==   \* faulty: the first leaf that cannot be renewed ends the run
  /\ pc = "renew" /\ Target(f) /\ CANotUsable(f)
  /\ skipped' = skipped \cup {f}
  /\ todo' = {} /\ pc' = "idle" /\ result' = "failed"
  /\ UNCHANGED <<tree, env, run, cuts>>

Skip(f) ==
  /\ pc = "renew" /\ Target(f) /\ CANotUsable(f)
  /\ skipped' = skipped \cup {f}
  /\ Continue(todo \ {f}, skipped')
  /\ UNCHANGED <<tree, env, run, cuts>>

StopAtCA(f) ==
  /\ pc = "renew" /\ Target(f) /\ CAUnreadable(f)
  /\ EndRun
  /\ UNCHANGED <<tree, env, run, cuts>>

DryRun(f) ==
  /\ pc = "renew" /\ Target(f) /\ CAUsable(f) /\ o.dry
  /\ Continue(todo \ {f}, skipped)
  /\ UNCHANGED <<tree, env, run, skipped, cuts>>

BackupOnePath(f) ==   \* faulty: always <cert>.bak
  /\ pc = "renew" /\ Target(f) /\ CAUsable(f) /\ ~o.dry /\ ~o.noBackup
  /\ backup' = [backup EXCEPT ![f] = <<cert[f]>>]
  /\ pc' = "write"
  /\ UNCHANGED <<cert, env, run, todo, skipped, result, cuts>>

\* What the file holds goes to a path that no earlier backup has.
Backup(f) ==
  /\ pc = "renew" /\ Target(f) /\ CAUsable(f) /\ ~o.dry /\ ~o.noBackup
  /\ backup' = [backup EXCEPT ![f] = Append(@, cert[f])]
  /\ pc' = "write"
  /\ UNCHANGED <<cert, env, run, todo, skipped, result, cuts>>

CutBackup(f) ==
  /\ pc = "renew" /\ Target(f) /\ CAUsable(f) /\ ~o.dry /\ ~o.noBackup
  /\ cuts < MaxCuts /\ cuts' = cuts + 1
  /\ backup' \in {backup, [backup EXCEPT ![f] = Append(@, Unreadable)]}
  /\ EndRun
  /\ UNCHANGED <<cert, env, run>>

ReadyToWrite(f) ==
  /\ Target(f)
  /\ \/ pc = "write"
     \/ pc = "renew" /\ o.noBackup /\ CAUsable(f) /\ ~o.dry

\* In place: the file is truncated first, so a cut leaves it as it was or short.
Write(f) ==
  /\ ReadyToWrite(f)
  /\ cert' = [cert EXCEPT ![f] = Rebuild(f)]
  /\ Continue(todo \ {f}, skipped)
  /\ UNCHANGED <<backup, env, run, skipped, cuts>>

CutWrite(f) ==
  /\ ReadyToWrite(f)
  /\ cuts < MaxCuts /\ cuts' = cuts + 1
  /\ cert' \in {cert, [cert EXCEPT ![f] = Unreadable]}
  /\ EndRun
  /\ UNCHANGED <<backup, env, run>>

\* The user puts a backup back in the place of a file that was cut short.
Restore(f) ==
  /\ pc = "idle" /\ cert[f] = Unreadable
  /\ \E i \in 1..Len(backup[f]) :
       /\ backup[f][i] # Unreadable
       /\ cert' = [cert EXCEPT ![f] = backup[f][i]]
  /\ UNCHANGED <<backup, env, run, pc, todo, skipped, result, cuts>>

Tick ==
  /\ clock < MaxTime /\ clock' = clock + 1
  /\ UNCHANGED <<tree, cadir, run, pc, todo, skipped, result, cuts>>

Next ==
  \/ \E x \in Options : Refuse(x) \/ Begin(x)
  \/ \E f \in Files :
       \/ Skip(f) \/ StopAtCA(f) \/ DryRun(f)
       \/ Backup(f) \/ CutBackup(f)
       \/ Write(f) \/ CutWrite(f)
       \/ Restore(f)
  \/ Tick

Spec == Init /\ [][Next]_vars

-----------------------------------------------------------------------------
(* cert_expiries.                                                           *)

\* Of identical files it lists those with the shortest paths.  It fails on a file that
\* holds no certificate.
Expiries ==
  {f \in Files : \A g \in Files : cert[g] = cert[f] => Depth[f] <= Depth[g]}
CanListExpiries == \A f \in Files : cert[f] # Unreadable

-----------------------------------------------------------------------------
(* Properties.                                                              *)

\* Every certificate that a file and its backups hold.
Held(f) == ({cert[f]} \cup {backup[f][i] : i \in 1..Len(backup[f])}) \ {Unreadable}

\* Unless --no-backup is given, no certificate is ever lost: not by a write that is
\* cut short, nor by later runs that back the file up again (reissueOne, BackupPath).
NothingLost == [][~o'.noBackup => \A f \in Files : Held(f) \subseteq Held(f)']_vars

\* Each readable certificate is valid only while a CA in its directory is that has its
\* issuer's name and key: a new validity starts no earlier than the CA's, which the
\* MSP would refuse, and never ends after it (Rebuild, reissueOne).
ValidWithinCA ==
  \A f \in Files : cert[f] # Unreadable =>
    \E i \in 1..Len(cadir[Dir[f]].pems) :
      LET ca == cadir[Dir[f]].pems[i]
      IN /\ ca # Unreadable
         /\ ca.subject = cert[f].issuer /\ ca.key = cert[f].key
         /\ ca.from <= cert[f].from /\ cert[f].until <= ca.until

\* What a run changes was asked for: the type, the node if nodes are named, expired if
\* only those are wanted; its CA's key is on disk and the CA had not expired when the
\* run started.  A dry run, or one without a selection, changes nothing.
OnlySelected ==
  [][\A f \in Files :
       (cert'[f] # cert[f] /\ cert[f] # Unreadable) =>
         /\ Selecting(o) /\ ~o.dry
         /\ Kind[f] \in o.kinds
         /\ o.nodes = {} \/ nodeMatches(Node[f], o.nodes)
         /\ o.expired => Expired(cert[f], now)
         /\ cert'[f] # Unreadable =>
              /\ cert'[f].of = cert[f].of /\ cert'[f].issuer = cert[f].issuer
              /\ cert'[f].until > now
              /\ cert'[f].key \in cadir[Dir[f]].keys]_vars

\* The leaves that the last run was asked to renew and that are not renewed.
Wanted(f) == Kind[f] \in o.kinds /\ (o.nodes = {} \/ nodeMatches(Node[f], o.nodes))
NotRenewed(f) ==
  \/ cert[f] = Unreadable
  \/ IF o.expired THEN Expired(cert[f], now) ELSE cert[f].made < runs

\* A run that reports success renewed every leaf it was asked to; one that reports
\* failures renewed all the others: a leaf without a usable CA stops no other leaf,
\* whichever comes first (Reissue, the loop over targets).
ReportIsTrue ==
  (pc = "idle" /\ Selecting(o) /\ ~o.dry) =>
    /\ result = "ok" => \A f \in Files : Wanted(f) => ~NotRenewed(f)
    /\ result = "failed" =>
         /\ skipped # {}
         /\ \A f \in Files : (Wanted(f) /\ NotRenewed(f)) => f \in skipped

\* The README on `reissue --all-expired`: it renews "each expired cert".  After a run
\* that reports success, cert_expiries lists no certificate that had expired.
NoneExpired ==
  (/\ result = "ok" /\ pc = "idle" /\ o.expired /\ ~o.dry
   /\ o.kinds = Kinds /\ o.nodes = {} /\ CanListExpiries)
    => \A f \in Expiries : ~Expired(cert[f], now)
=============================================================================
