------------------------ MODULE MCAuthorityPipeline ------------------------
(***************************************************************************)
(* AuthorityPipeline on small sets of authorities: any verifiers without   *)
(* anything else, and one good verifier of each kind with anything else.   *)
(***************************************************************************)
EXTENDS AuthorityPipeline

Blank == [key |-> None, keyless |-> None, static |-> None, gm |-> None, sources |-> <<>>,
          ctlog |-> None, tsa |-> None, attestation |-> None, format |-> ""]
Pem == [data |-> "pem", kms |-> "", secret |-> "", hash |-> ""]
Secret == [Pem EXCEPT !.data = "", !.secret = "ours"]
Fulcio == [url |-> TRUE, cacert |-> None, identities |-> "full", root |-> "", ignoreSCT |-> FALSE]
CACerts == {None, Pem, Secret, [Pem EXCEPT !.data = "", !.kms = "kms"], [Pem EXCEPT !.hash = "md5"]}

Keys == {[Blank EXCEPT !.key = k] : k \in KeyRefs}
Keyless == {[Blank EXCEPT !.keyless = k] :
              k \in [url : BOOLEAN, cacert : CACerts, identities : {"", "full", "partial"},
                     root : {"", "r"}, ignoreSCT : BOOLEAN]}
Others == {[Blank EXCEPT !.static = s] : s \in {"pass", "fail", "", "other", None}}
            \cup {[Blank EXCEPT !.gm = g] : g \in {"full", "partial"}}
Pairs == {[Blank EXCEPT !.key = Pem, !.keyless = Fulcio], [Blank EXCEPT !.keyless = Fulcio, !.static = "pass"],
          [Blank EXCEPT !.static = "pass", !.gm = "full"], [Blank EXCEPT !.key = Pem, !.gm = "full"]}

Good == {[Blank EXCEPT !.key = Pem], [Blank EXCEPT !.key = Secret], [Blank EXCEPT !.keyless = Fulcio],
         [Blank EXCEPT !.keyless = [Fulcio EXCEPT !.root = "r"]], [Blank EXCEPT !.static = "pass"],
         [Blank EXCEPT !.gm = "full"]}
Sources == {<<>>, <<"repository", "repository">>} \cup {<<oci>> : oci \in OCIs}
Extras == [sources : Sources, ctlog : TLogs \cup {None}, tsa : {"", "r", None},
           attestation : Attestations \cup {None}, format : {"", "bundle"}]

MCInputs ==
  Keys \cup Keyless \cup Others \cup Pairs
    \cup {[a EXCEPT !.sources = x.sources, !.ctlog = x.ctlog, !.tsa = x.tsa,
                    !.attestation = x.attestation, !.format = x.format] : a \in Good, x \in Extras}
=============================================================================
