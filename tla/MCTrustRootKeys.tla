-------------------------- MODULE MCTrustRootKeys --------------------------
(***************************************************************************)
(* TrustRoots whose lists hold a good element, a bad one, or both in either*)
(* order, and repositories with a trusted root, legacy targets or neither. *)
(***************************************************************************)
EXTENDS TrustRootKeys

MCLeaves == {"l1", "l2"}
MCInters == {"i1", "i2"}
MCRoots == {"r1", "r2"}

Chain(blocks, tail) == [blocks |-> blocks, tail |-> tail]
Authority(ch) == [subject |-> TRUE, uri |-> "u", chain |-> ch]

GoodCA == Authority(Chain(<<"i1", "r1">>, ""))
Other == Authority(Chain(<<"r2">>, ""))
NotCert == Authority(Chain(<<"r1", "der">>, ""))
Spaced == Authority(Chain(<<"r1">>, "space"))
Unnamed == [GoodCA EXCEPT !.subject = FALSE]

Stamped == Authority(Chain(<<"l1", "i1", "r1">>, ""))
Stamped2 == Authority(Chain(<<"l2", "i2", "r2">>, ""))
TwoLeaves == Authority(Chain(<<"l1", "l2", "r1">>, ""))

Log(key) == [url |-> "u", hash |-> "sha256", key |-> key]

CALists == {<<>>, <<GoodCA>>, <<GoodCA, Other>>, <<NotCert>>, <<Spaced>>, <<Unnamed, GoodCA>>, <<GoodCA, Unnamed>>}
TSALists == {<<>>, <<Stamped>>, <<Stamped, Stamped2>>, <<Stamped, Other>>, <<TwoLeaves>>, <<TwoLeaves, Stamped>>,
             <<NotCert>>}
LogLists == {<<>>, <<Log("p256")>>, <<[Log("p521") EXCEPT !.hash = "sha-384"], [Log("p256") EXCEPT !.url = "v", !.hash = "sha1"]>>,
             <<Log("rsa2048")>>, <<Log("der")>>, <<Log(""), Log("p256")>>}

Repo(root, mirror, target) == [root |-> root, mirror |-> mirror, target |-> target]

Repos == {Repo("signed", "tar", ""), Repo("signed", "tar", "mine"), Repo("unsigned", "tar", ""),
          Repo("signed", "", ""), Repo("signed", "broken", "")}

MCSpecs ==
  {[repository |-> Null, remote |-> Null, keys |-> [cas |-> c, tsas |-> t, ctlogs |-> ct, tlogs |-> r]] :
     c \in CALists, t \in TSALists, ct \in LogLists, r \in LogLists}
  \cup {[repository |-> r, remote |-> Null, keys |-> Null] : r \in Repos}
  \cup {[repository |-> Null, remote |-> r, keys |-> Null] : r \in Repos}
  \cup {[repository |-> Null, remote |-> Null, keys |-> Null]}

Trusted(chain, key) ==
  [cas |-> <<[uri |-> "t", chain |-> chain]>>, tsas |-> <<[uri |-> "t", chain |-> <<"l2", "r2">>]>>,
   ctlogs |-> <<>>,
   tlogs |-> <<[url |-> "t", hash |-> "SHA2_256", key |-> key, details |-> KeyDetails(key), id |-> "?"]>>]

TufTarget(usage, data) == [usage |-> usage, uri |-> "l", data |-> data, found |-> TRUE]

Legacy ==
  {TufTarget("Fulcio", Chain(<<"i1", "r1">>, "")), TufTarget("Fulcio", Chain(<<"r2">>, "")),
   TufTarget("Rekor", "p256"), TufTarget("Rekor", "p384"), TufTarget("CTFE", "rsa24576"),
   TufTarget("none", "text"), TufTarget("malformed", "text")}

LegacyRepo == [client |-> "ok", name |-> "none", reached |-> TRUE, trusted |-> Null, targets |-> Legacy]

MCContents ==
  LET base == LegacyRepo
      Root(tr) == [base EXCEPT !.name = "trusted_root.json", !.trusted = tr]
  IN {base, Root(Null), Root(Trusted(<<"i1", "r1">>, "p256")), Root(Trusted(<<"r1">>, "rsa2048")),
      Root(Trusted(<<"der">>, "p256")),
      [Root(Trusted(<<"r2">>, "p224")) EXCEPT !.name = "mine"],
      [base EXCEPT !.client = "closed"], [base EXCEPT !.client = "unlisted"], [base EXCEPT !.reached = FALSE],
      [Root(Trusted(<<"r2">>, "p224")) EXCEPT !.reached = FALSE],
      [base EXCEPT !.targets = {t \in Legacy : t.usage # "Fulcio"}],
      [base EXCEPT !.targets = {[t EXCEPT !.found = FALSE] : t \in Legacy}],
      [base EXCEPT !.targets = Legacy \cup {TufTarget("Rekor", "der")}]}
=============================================================================
