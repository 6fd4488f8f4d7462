------------------------------ MODULE GMVerify ------------------------------
(***************************************************************************)
(* The GM verifier (pkg/webhook/gm): concurrent admission requests verify  *)
(* the signatures of an image one by one with a remote HSM, and share one  *)
(* LRU cache of positive answers whose entries expire.                     *)
(*                                                                         *)
(* A signature artifact is a record of what the code reads of it:          *)
(*   readable  its annotations can be read;                                *)
(*   alg       zjrcu.gm/alg is SM2-with-SM3;                               *)
(*   app, node, user   the signer it declares;                             *)
(*   ann, b64  the signature bytes of the annotation and of cosign's       *)
(*             accessor: "" when missing, "malformed" when not base64;     *)
(*   payload   the digest its payload claims, "" when it claims none, or   *)
(*             "unreadable".                                               *)
(* The HSM is external.  A claim is what it is asked about: that the bytes *)
(* sign the payload under the signer's key, put to a platform (a verify    *)
(* URL and a tenant).  It is the set of the claims that hold under the     *)
(* keys of each platform, and a key can be rotated at any time.            *)
(***************************************************************************)
EXTENDS Integers, Sequences, Functions

CONSTANTS Requests,   \* the concurrent calls of Verify
          Calls,      \* their arguments: a GMSignatureRef [url, tenant, app, node,
                      \* user] and a reference [digest, sigs], digest "" for a tag
          Genuine,    \* the claims that hold under the first keys
          Timeout,    \* RequestTimeoutMs, in ticks
          Capacity,   \* GM_CACHE_CAPACITY
          TTLs,       \* the values of GM_CACHE_TTL_SECONDS, in ticks
          MaxTime     \* bound on the clock

VARIABLES now,       \* the clock
          hsm,       \* the claims that hold now
          ttl,       \* the cache's TTL
          expires,   \* the cache: when the entry of a key expires, or Absent
          lru,       \* its keys, the least recently used first
          req,       \* the requests
          accepted   \* history: when the HSM last accepted a claim, or Absent

cacheVars == <<expires, lru>>
vars == <<now, hsm, ttl, cacheVars, req, accepted>>

Sigs == UNION {Range(a.image.sigs) : a \in Calls}
Signer(c) == [app |-> c.app, node |-> c.node, user |-> c.user]
Signers == {Signer(a.cip) : a \in Calls}
Payloads == {s.payload : s \in Sigs}

\* The annotation is preferred, cosign's accessor is the fallback.
SigBytes(s) == IF s.ann # "" THEN s.ann ELSE s.b64
Bytes == {SigBytes(s) : s \in Sigs}
Platform(c) == [url |-> c.url, tenant |-> c.tenant]
Platforms == {Platform(a.cip) : a \in Calls}
ClaimOf(c, s) ==
  [payload |-> s.payload, bytes |-> SigBytes(s), signer |-> Signer(c), platform |-> Platform(c)]
Claims == [payload : Payloads, bytes : Bytes, signer : Signers, platform : Platforms]
Keys == Bytes \X Signers
Absent == -1

\* The signatures of an image are a list.
ASSUME CallsAssumption ==
  \A a \in Calls : LET sigs == a.image.sigs IN Len(sigs) \in Nat /\ DOMAIN sigs = 1..Len(sigs)

\* The HSM is asked for nothing else.
ASSUME GenuineAssumption == Genuine \subseteq Claims
ASSUME BoundsAssumption == Timeout \in Nat /\ Capacity \in Nat /\ TTLs \subseteq Nat /\ MaxTime \in Nat

\* A call of Verify: its arguments and locals, and what the HSM answered.
New(a) == [pc |-> "start", cip |-> a.cip, image |-> a.image, i |-> 1, verified |-> {}, refused |-> {},
           since |-> 0, answer |-> "none"]

Init ==
  /\ now = 0 /\ hsm = Genuine /\ ttl \in TTLs
  /\ expires = [k \in Keys |-> Absent] /\ lru = <<>>
  /\ req \in [Requests -> {New(a) : a \in Calls}]
  /\ accepted = [t \in Claims |-> Absent]

-----------------------------------------------------------------------------
(* The cache (cache.go).                                                    *)

\* The key has the bytes and the signer, and neither payload nor platform.
cacheKey(c, s) == <<SigBytes(s), Signer(c)>>

\* NewCache: without capacity or TTL there is no cache.
Enabled == Capacity > 0 /\ ttl > 0

\* Mutant of Lookup: the TTL is not looked at.
LookupForever(k) == Enabled /\ expires[k] # Absent

Lookup(k) == Enabled /\ expires[k] # Absent /\ now <= expires[k]

\* The keys with k as the most recently used, whether it is there already or not.
Used(k) ==
  LET i == CHOOSE n \in DOMAIN lru : lru[n] = k
      others == SubSeq(lru, 1, i - 1) \o SubSeq(lru, i + 1, Len(lru))
  IN Append(IF k \in Range(lru) THEN others ELSE lru, k)

\* A hit makes the entry the most recently used.
Touch(k) == lru' = Used(k) /\ UNCHANGED expires

\* Mutant of Store: nothing is evicted.
StoreUnbounded(k) ==
  IF ~Enabled THEN UNCHANGED cacheVars
  ELSE lru' = Used(k) /\ expires' = [expires EXCEPT ![k] = now + ttl]

\* Store adds or renews an entry and evicts the oldest one beyond the capacity.
Store(k) ==
  IF ~Enabled THEN UNCHANGED cacheVars
  ELSE LET kept == Used(k)
           full == Len(kept) > Capacity
           new == [expires EXCEPT ![k] = now + ttl]
       IN /\ lru' = IF full THEN Tail(kept) ELSE kept
          /\ expires' = IF full THEN [new EXCEPT ![Head(kept)] = Absent] ELSE new

-----------------------------------------------------------------------------
(* The checks before the HSM (cip.go, verify.go).                           *)

\* Validate: the required fields of the GMSignatureRef.
Valid(c) == c.url # "" /\ c.tenant # "" /\ c.app # "" /\ c.node # ""

MatchSigner(c, s) ==
  s.alg /\ s.app = c.app /\ s.node = c.node /\ (c.user = "" \/ s.user = c.user)

\* verifyClaim: only a reference with a digest is compared, and a payload that
\* claims no digest fails.
verifyClaim(im, s) == im.digest # "" => s.payload # "" /\ s.payload = im.digest

\* The signature reaches the cache and the HSM.
Passes(c, im, s) ==
  /\ s.readable /\ MatchSigner(c, s) /\ SigBytes(s) \notin {"", "malformed"}
  /\ s.payload # "unreadable" /\ verifyClaim(im, s)

-----------------------------------------------------------------------------
(* Verify.                                                                  *)

At(r, pc) == req[r].pc = pc
Sig(r) == req[r].image.sigs[req[r].i]
Key(r) == cacheKey(req[r].cip, Sig(r))
Claim(r) == ClaimOf(req[r].cip, Sig(r))

\* The signatures are fetched, or there is nothing to verify: the CIP is
\* misconfigured, the registry fails, or the image has no signatures.
Start(r) ==
  /\ At(r, "start")
  /\ \/ req' = [req EXCEPT ![r].pc = "failed"]
     \/ Valid(req[r].cip) /\ req[r].image.sigs # <<>> /\ req' = [req EXCEPT ![r].pc = "next"]
  /\ UNCHANGED <<now, hsm, ttl, cacheVars, accepted>>

\* The signature is counted, or an error is remembered; the loop goes on.
Count(r) == req' = [req EXCEPT ![r].pc = "next", ![r].i = @ + 1, ![r].verified = @ \cup {req[r].i},
                               ![r].since = 0, ![r].answer = "none"]

Refuse(r) == req' = [req EXCEPT ![r].pc = "next", ![r].i = @ + 1, ![r].refused = @ \cup {req[r].i},
                                ![r].since = 0, ![r].answer = "none"]

InLoop(r) == At(r, "next") /\ req[r].i <= Len(req[r].image.sigs)
Gated(r) == ~Passes(req[r].cip, req[r].image, Sig(r))

\* Mutant of Skip: what another request was refused is refused again.
SkipRefused(r) ==
  /\ InLoop(r) /\ Refuse(r)
  /\ \/ Gated(r)
     \/ \E q \in Requests : \E i \in req[q].refused :
          cacheKey(req[q].cip, req[q].image.sigs[i]) = Key(r)
  /\ UNCHANGED <<now, hsm, ttl, cacheVars, accepted>>

\* One signature up to the HSM: refused, found in the cache, or sent.
Skip(r) ==
  /\ InLoop(r) /\ Gated(r) /\ Refuse(r)
  /\ UNCHANGED <<now, hsm, ttl, cacheVars, accepted>>

Hit(r) ==
  /\ InLoop(r) /\ ~Gated(r) /\ Lookup(Key(r))
  /\ Count(r) /\ Touch(Key(r))
  /\ UNCHANGED <<now, hsm, ttl, accepted>>

Call(r) ==
  /\ InLoop(r) /\ ~Gated(r) /\ ~Lookup(Key(r))
  /\ req' = [req EXCEPT ![r].pc = "calling", ![r].since = now]
  /\ UNCHANGED <<now, hsm, ttl, cacheVars, accepted>>

-----------------------------------------------------------------------------
(* SM2Verify (client.go).                                                   *)

\* A response: HTTP 200 with a JSON body or not, its code, and the two forms of
\* the result, "none" where the field is missing.
Responses == [wellFormed : BOOLEAN, code : {0, 1},
              verified : {"none", "true", "false"}, success : {"none", "0", "1"}]

\* What the client makes of a response: verified decides if it is there, then
\* success, and code 0 alone is enough.
Positive(p) == p.verified = "true" \/ (p.verified = "none" /\ p.success \in {"none", "0"})
Parse(p) ==
  IF ~p.wellFormed \/ p.code # 0 THEN "error"
  ELSE IF Positive(p) THEN "ok" ELSE "not verified"

\* External: the answers of the platform.  Without an error it gives one result,
\* as verified or as success with 0 for good, depending on its version, and a
\* version that gives none means that it has nothing to object.
Result(v, n) == [wellFormed |-> TRUE, code |-> 0, verified |-> v, success |-> n]
Accepting == {Result("true", "none"), Result("none", "0"), Result("none", "none")}
Rejecting == {Result("false", "none"), Result("none", "1")}
Failing == {[Result("none", "none") EXCEPT !.wellFormed = FALSE], [Result("none", "none") EXCEPT !.code = 1],
            [Result("true", "none") EXCEPT !.code = 1]}

\* The HSM checks the signature with the keys it has now, and answers.
Answer(r) ==
  /\ At(r, "calling")
  /\ \E p \in Failing \cup (IF Claim(r) \in hsm THEN Accepting ELSE Rejecting) :
       req' = [req EXCEPT ![r].pc = "answered", ![r].answer = Parse(p)]
  /\ accepted' = IF Claim(r) \in hsm THEN [accepted EXCEPT ![Claim(r)] = now] ELSE accepted
  /\ UNCHANGED <<now, hsm, ttl, cacheVars>>

\* The answer arrives before the deadline; only a positive one is stored.
Receive(r) ==
  /\ At(r, "answered") /\ now <= req[r].since + Timeout
  /\ IF req[r].answer = "ok" THEN Count(r) /\ Store(Key(r)) ELSE Refuse(r) /\ UNCHANGED cacheVars
  /\ UNCHANGED <<now, hsm, ttl, accepted>>

\* Mutant of CallFails: the call has no deadline of its own.
CallWaits(r) ==
  /\ At(r, "answered") /\ Refuse(r)
  /\ UNCHANGED <<now, hsm, ttl, cacheVars, accepted>>

\* The call fails, or its deadline passes before the answer has arrived.
CallFails(r) ==
  /\ req[r].pc \in {"calling", "answered"} /\ Refuse(r)
  /\ UNCHANGED <<now, hsm, ttl, cacheVars, accepted>>

\* One verified signature is enough.
Finish(r) ==
  /\ At(r, "next") /\ ~InLoop(r)
  /\ req' = [req EXCEPT ![r].pc = IF req[r].verified # {} THEN "passed" ELSE "failed"]
  /\ UNCHANGED <<now, hsm, ttl, cacheVars, accepted>>

-----------------------------------------------------------------------------
(* External: time passes, and a platform rotates the key of a signer.       *)

Tick == now < MaxTime /\ now' = now + 1 /\ UNCHANGED <<hsm, ttl, cacheVars, req, accepted>>

Rotate(g, p) ==
  /\ \E t \in hsm : t.signer = g /\ t.platform = p
  /\ hsm' = {t \in hsm : t.signer # g \/ t.platform # p}
  /\ UNCHANGED <<now, ttl, cacheVars, req, accepted>>

Step(r) == Start(r) \/ Skip(r) \/ Hit(r) \/ Call(r) \/ Receive(r) \/ CallFails(r) \/ Finish(r)

Next ==
  \/ \E r \in Requests : Step(r) \/ Answer(r)
  \/ Tick
  \/ \E g \in Signers, p \in Platforms : Rotate(g, p)

Spec == Init /\ [][Next]_vars

\* A goroutine goes on, and the deadline of a call ends a silent HSM.
FairSpec == Spec /\ \A r \in Requests : WF_vars(Step(r))

-----------------------------------------------------------------------------
(* What the verifier promises.                                              *)

\* The locals of the calls and the cache: the LRU list holds exactly the keys
\* with an expiry, each once and no more than the capacity (cache.go).
TypeOK ==
  /\ now \in 0..MaxTime /\ hsm \subseteq Claims /\ ttl \in TTLs
  /\ expires \in [Keys -> Int] /\ accepted \in [Claims -> Int]
  /\ IsInjective(lru) /\ Len(lru) <= Capacity
  /\ Range(lru) = {k \in Keys : expires[k] # Absent}
  /\ \A r \in Requests :
       /\ req[r].pc \in {"start", "next", "calling", "answered", "passed", "failed"}
       /\ req[r].i \in 1..Len(req[r].image.sigs) + 1
       /\ req[r].verified \cap req[r].refused = {}
       /\ req[r].verified \cup req[r].refused \subseteq 1..req[r].i - 1

\* The HSM accepted the claim t, at most d ago.
AcceptedWithin(t, d) == accepted[t] # Absent /\ now - accepted[t] <= d

\* A signature is counted only if the HSM has accepted this claim during the
\* call, or, with a cache, the same bytes for the same signer at most one TTL
\* and one call ago, whatever other requests stored and after a rotation no
\* longer than that.  That is all the key carries over: the claim accepted then
\* may have had another payload or another platform (verify.go, cache.go).
CountedWasAccepted ==
  [][\A r \in Requests : req'[r].verified # req[r].verified =>
       \/ AcceptedWithin(Claim(r), Timeout)
       \/ /\ Enabled
          /\ \E t \in Claims :
               /\ t.bytes = SigBytes(Sig(r)) /\ t.signer = Signer(req[r].cip)
               /\ AcceptedWithin(t, ttl + Timeout)]_vars

\* A failure is never remembered: a signature is refused only for a check of this
\* request or in its own HSM call, whatever other requests were refused before;
\* and a request whose signatures were fetched fails only when each of them was
\* refused (verify.go: "DO NOT cache", "Any one survivor verifies the image").
FailureIsOwn ==
  [][\A r \in Requests :
       /\ req'[r].refused # req[r].refused =>
            \/ ~Passes(req[r].cip, req[r].image, Sig(r))
            \/ req[r].pc \in {"calling", "answered"}
       /\ At(r, "next") /\ req'[r].pc = "failed" =>
            req[r].refused = 1..Len(req[r].image.sigs)]_vars

\* Every call of Verify returns, whatever the HSM does.
Answered == <>(\A r \in Requests : req[r].pc \in {"passed", "failed"})
=============================================================================
