------------------------------ MODULE MCReissue ------------------------------
(***************************************************************************)
(* An instance of Reissue: of one org, a peer and the admin, who is a user. *)
(* The peer has a signcert and a TLS certificate; the admin a signcert, a   *)
(* TLS client certificate and a copy of the signcert in admincerts.         *)
(***************************************************************************)
EXTENDS Reissue

CONSTANT Cases  \* the contents of CA directories that the instance takes

Peer == <<"peer0", "org1">>
Admin == <<"Admin", "org1">>

MCFiles == 1..5
MCKind == <<"signcert", "copy", "client", "signcert", "tls">>
MCNode == <<Admin, Admin, Admin, Peer, Peer>>
MCDir == <<"ca", "ca", "tlsca", "ca", "tlsca">>
MCDepth == <<7, 5, 6, 7, 6>>

Subject(d) == d \o ".org1"
Leaf(f, of, until) ==
  [of |-> of, issuer |-> Subject(MCDir[f]), key |-> MCDir[f], from |-> 1, until |-> until,
   made |-> 0]
MCFirst == <<Leaf(1, 1, 2), Leaf(2, 1, 2), Leaf(3, 3, 2), Leaf(4, 4, 3), Leaf(5, 5, 2)>>

CACert(d, until) == [subject |-> Subject(d), key |-> d, from |-> 1, until |-> until]
Foreign == [subject |-> "ca.org2", key |-> "other", from |-> 1, until |-> 9]
Dir_(pems, keys) == [there |-> TRUE, pems |-> pems, keys |-> keys]

Good(d) == Dir_(<<CACert(d, 6)>>, {d})
Shorter(d) == Dir_(<<Foreign, CACert(d, 4), CACert(d, 6)>>, {d, "other"})
NoKey(d) == Dir_(<<CACert(d, 6)>>, {"other"})
Gone(d) == [Good(d) EXCEPT !.there = FALSE]
Torn(d) == Dir_(<<Unreadable, CACert(d, 6)>>, {d})
LateTear(d) == Dir_(<<CACert(d, 6), Unreadable>>, {d})

Content(case, d) ==
  CASE case = "good" -> Good(d) [] case = "shorter" -> Shorter(d)
    [] case = "no key" -> NoKey(d) [] case = "gone" -> Gone(d)
    [] case = "torn" -> Torn(d) [] case = "late tear" -> LateTear(d)
MCCADirs ==
  {[d \in {"ca", "tlsca"} |-> Content(IF d = "ca" THEN c[1] ELSE c[2], d)] : c \in Cases}

MCCases ==
  {<<"good", "good">>, <<"shorter", "shorter">>, <<"no key", "good">>, <<"good", "gone">>,
   <<"torn", "good">>, <<"late tear", "no key">>}
GoodCases == {<<"good", "good">>}

Ask(kinds, nodes, expired, all, days) ==
  [kinds |-> kinds, nodes |-> nodes, expired |-> expired, all |-> all, days |-> days,
   dry |-> FALSE, noBackup |-> FALSE]
All == Ask(Kinds, {}, FALSE, TRUE, NotSet)
AllExpired == Ask(Kinds, {}, TRUE, FALSE, NotSet)
MCOptions ==
  {All, AllExpired,
   Ask(Kinds, {}, FALSE, FALSE, NotSet),              \* only lists
   Ask(Kinds, {}, FALSE, TRUE, 0),                    \* refused
   Ask(Kinds, {<<"peer0">>}, TRUE, FALSE, 2),
   Ask({"tls"}, {Peer}, FALSE, FALSE, 5),
   Ask({"signcert"}, {<<"peer">>}, FALSE, FALSE, 1),  \* matches no node
   [AllExpired EXCEPT !.noBackup = TRUE],
   [All EXCEPT !.dry = TRUE]}
ExpiredOptions == {AllExpired}
=============================================================================
