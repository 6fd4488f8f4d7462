----------------------------- MODULE MCGMVerify -----------------------------
(***************************************************************************)
(* GMVerify with two signers: one image with a signature of each, made on  *)
(* different nodes, an image whose first signature claims another one, and *)
(* a tag verified by a tenant that has no key of the signer.               *)
(***************************************************************************)
EXTENDS GMVerify

CIP(node) == [url |-> "u", tenant |-> "t", app |-> "a", node |-> node, user |-> ""]
Good(node, bytes) == [readable |-> TRUE, alg |-> TRUE, app |-> "a", node |-> node, user |-> "x",
                      ann |-> bytes, b64 |-> "", payload |-> "d"]

Arg(c, digest, sigs) == [cip |-> c, image |-> [digest |-> digest, sigs |-> sigs]]
Both == <<Good("n", "s"), Good("m", "t")>>

OtherTenant == [CIP("n") EXCEPT !.tenant = "v"]
Encoded == [Good("n", "s") EXCEPT !.ann = "", !.b64 = "s"]
OtherImage == [Good("n", "old") EXCEPT !.payload = "e"]

MCCalls ==
  {Arg(CIP("n"), "d", Both), Arg(CIP("m"), "d", Both), Arg([CIP("n") EXCEPT !.url = ""], "d", Both),
   Arg(CIP("n"), "d", <<OtherImage, Encoded>>), Arg(OtherTenant, "", <<Good("n", "s")>>)}
MCGenuine == {ClaimOf(CIP("n"), Good("n", "s")), ClaimOf(CIP("m"), Good("m", "t"))}
=============================================================================
