-------------------------- MODULE MCPolicyCallers --------------------------
(***************************************************************************)
(* Policies of every kind, two references of one image and one of another, *)
(* and documents of one object or two.                                     *)
(***************************************************************************)
EXTENDS PolicyCallers

Base == [mode |-> "enforce", static |-> "", keys |-> <<>>, wanted |-> <<>>, cip |-> None, root |-> FALSE]
Want(name, type, data) == [name |-> name, type |-> type, data |-> data]

Signed == [Base EXCEPT !.keys = <<"k", "l">>, !.mode = "warn"]
Attested == [Base EXCEPT !.keys = <<"k", "l">>, !.wanted = <<Want("a", "sbom", TRUE), Want("b", "vuln", FALSE)>>]
Fetching == [Base EXCEPT !.static = "pass", !.cip = [configs |-> TRUE], !.root = TRUE]
Denied == [Base EXCEPT !.static = "fail", !.mode = "warn"]
Judged == [Base EXCEPT !.cip = [configs |-> FALSE], !.root = TRUE]

MCPolicies == {Signed, Attested, Fetching, Denied, Judged}

Att(type, passes) == [digest |-> TRUE, id |-> TRUE, type |-> type, passes |-> passes]
NoID == [Att("sbom", TRUE) EXCEPT !.id = FALSE]
NoDigest == [Att("vuln", TRUE) EXCEPT !.digest = FALSE]

Referrer(type, intoto, by) ==
  [digest |-> TRUE, id |-> TRUE, type |-> type, passes |-> TRUE, intoto |-> intoto, by |-> by]

Lists == {{}, {Att("sbom", TRUE), Att("vuln", FALSE)}, {Att("sbom", FALSE), Att("bad", TRUE)}, {NoID, NoDigest}}

Manifest(id, platform, ok) == [id |-> id, platform |-> platform, ok |-> ok]
Indexes == {{Manifest(1, "amd64", TRUE), Manifest(2, "amd64", TRUE), Manifest(3, "arm64", TRUE)},
            {Manifest(1, "amd64", TRUE), Manifest(2, "arm64", FALSE)}}

Answers(a, b, r) ==
  [opts |-> TRUE, found |-> [k |-> a, l |-> b, keyless |-> a], referrers |-> r, index |-> {Manifest(1, "amd64", TRUE)}]
MCEvidence ==
  {Answers(a, b, {}) : a \in Lists, b \in {{}, {Att("sbom", FALSE), Att("vuln", FALSE)}}}
  \cup {Answers({}, {NoID}, {Referrer("vuln", TRUE, {"k"}), Referrer("sbom", FALSE, {"k"})}),
        Answers({}, {}, {Referrer("vuln", TRUE, {"k", "l"}), Referrer("sbom", TRUE, {"other"})})}
  \cup {[Answers({NoID}, {}, {}) EXCEPT !.opts = o, !.index = x] : o \in BOOLEAN, x \in Indexes}

MCRefs == {[text |-> "app", name |-> "index.docker.io/library/app"],
           [text |-> "index.docker.io/library/app", name |-> "index.docker.io/library/app"],
           [text |-> "reg.io/app", name |-> "reg.io/app"]}

MCRegexps == [g \in {"index.docker.io/library/*", "index.docker.io/*/*", "**", "app"} |->
  CASE g = "index.docker.io/library/*" -> {"index.docker.io/library/app"}
    [] g = "index.docker.io/*/*" -> {"index.docker.io/library/app"}
    [] g = "**" -> {"index.docker.io/library/app", "reg.io/app", "app"}
    [] OTHER -> {"app"}]

Pods == [resource |-> "pods", group |-> "", version |-> "*", labels |-> {"web"}]
MCResources == {[resource |-> "pods", group |-> "", version |-> "v1", labels |-> {"web"}]}

Object(name, pol) ==
  [form |-> "ok", kind |-> "v1beta1", name |-> name, valid |-> "ok", compiles |-> TRUE,
   match |-> <<>>, globs |-> {"**"}, policy |-> pol]
A == Object("a", Signed)
B == [Object("b", Denied) EXCEPT !.kind = "v1alpha1", !.globs = {"*"}, !.valid = "warn"]
Objects == {A, B, [A EXCEPT !.match = <<Pods>>, !.policy = Judged], [A EXCEPT !.compiles = FALSE],
            [A EXCEPT !.match = <<[Pods EXCEPT !.labels = {"db"}], [Pods EXCEPT !.labels = None]>>],
            [A EXCEPT !.globs = {"app"}], [B EXCEPT !.globs = {"[", "*/*"}], [B EXCEPT !.valid = "error"],
            [B EXCEPT !.form = "noName"], [A EXCEPT !.kind = "Secret"], [A EXCEPT !.kind = "TrustRoot"]}
MCDocuments == {<<>>, <<A, A>>, <<A, B>>, <<B, A>>} \cup {<<o>> : o \in Objects}
  \cup {<<[A EXCEPT !.compiles = FALSE], Object("a", Fetching)>>}
=============================================================================
