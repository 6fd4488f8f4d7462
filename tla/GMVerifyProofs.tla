--------------------------- MODULE GMVerifyProofs ---------------------------
(***************************************************************************)
(* The promises of the GM verifier for any CIPs, images, keys of the HSM,  *)
(* timeouts, capacity and time to live, and any number of requests that    *)
(* share the cache.                                                        *)
(*                                                                         *)
(* What counts rests on the cache entry being tied to the moment the HSM   *)
(* accepted a claim with its key (EntriesAccepted): Store adds the time to *)
(* live to the time the answer is read, which is at most one Timeout after *)
(* the call began (AnswersAccepted).  The key has the bytes and the signer *)
(* of that claim, so that its payload and platform may differ from those   *)
(* of the request that finds the entry.                                    *)
(***************************************************************************)
EXTENDS GMVerify, SequenceTheorems, TLAPS

Pcs == {"start", "next", "calling", "answered", "passed", "failed"}
Cips == {a.cip : a \in Calls}
Images == {a.image : a \in Calls}
Answers == {"none", "ok", "error", "not verified"}
Locals ==
  [pc : Pcs, cip : Cips, image : Images, i : Nat \ {0},
   verified : SUBSET Nat, refused : SUBSET Nat, since : Nat,
   answer : Answers]

Types ==
  /\ now \in Nat /\ ttl \in Nat
  /\ expires \in [Keys -> Int] /\ accepted \in [Claims -> Int]
  /\ req \in [Requests -> Locals]

\* Where a request l is at time t, and what it has made of the signatures before.
Good(l, t) ==
  /\ l.i <= Len(l.image.sigs) + 1
  /\ l.verified \cup l.refused = 1..l.i - 1
  /\ l.pc \in {"calling", "answered"} => l.i <= Len(l.image.sigs) /\ l.since <= t
  /\ l.pc = "start" => l.i = 1

Progress == \A r \in Requests : Good(req[r], now)

\* The HSM accepted what it has answered for since the call began.
Accepted(l, acc) ==
  l.pc = "answered" /\ l.answer = "ok" => acc[ClaimOf(l.cip, l.image.sigs[l.i])] >= l.since

AnswersAccepted ==
  /\ \A t \in Claims : accepted[t] <= now
  /\ \A r \in Requests : Accepted(req[r], accepted)

\* An entry expires a time to live and a call after a claim with its key was
\* accepted, or before.
Backed(k, until, acc) ==
  \E t \in Claims : /\ <<t.bytes, t.signer>> = k /\ acc[t] # Absent
                     /\ until <= acc[t] + ttl + Timeout

EntriesAccepted ==
  \A k \in Keys : expires[k] # Absent => Backed(k, expires[k], accepted)

\* The inductive invariant.
IInv == Types /\ Progress /\ AnswersAccepted /\ EntriesAccepted

-----------------------------------------------------------------------------
\* A request in its loop is at a signature of its image.
LEMMA AtSignature ==
  ASSUME Types, NEW r \in Requests, req[r].i <= Len(req[r].image.sigs)
  PROVE  /\ Sig(r) \in Sigs /\ Signer(req[r].cip) \in Signers
         /\ Key(r) \in Keys /\ Claim(r) \in Claims
         /\ Key(r) = <<SigBytes(Sig(r)), Signer(req[r].cip)>>
         /\ Claim(r).bytes = SigBytes(Sig(r)) /\ Claim(r).signer = Signer(req[r].cip)
<1>0. req[r].image \in Images /\ req[r].cip \in Cips /\ req[r].i \in Nat \ {0}
  BY DEF Types, Locals
<1>1. PICK a \in Calls : req[r].image = a.image
  BY <1>0 DEF Images
<1>2. PICK b \in Calls : req[r].cip = b.cip
  BY <1>0 DEF Cips
<1>3. req[r].i \in DOMAIN a.image.sigs
  BY <1>0, <1>1, CallsAssumption
<1>4. Sig(r) \in Range(a.image.sigs)
  BY <1>1, <1>3 DEF Sig, Range
<1>5. Sig(r) \in Sigs
  BY <1>4 DEF Sigs
<1>6. Signer(req[r].cip) \in Signers
  BY <1>2 DEF Signers
<1>7. SigBytes(Sig(r)) \in Bytes /\ Sig(r).payload \in Payloads
  BY <1>5 DEF Bytes, Payloads
<1>8. Platform(req[r].cip) \in Platforms
  BY <1>2 DEF Platforms
<1> QED
  BY <1>5, <1>6, <1>7, <1>8 DEF Key, Claim, cacheKey, ClaimOf, Keys, Claims

\* What counting and refusing a signature do to the requests.
LEMMA CountStep ==
  ASSUME Types, NEW r \in Requests, Count(r)
  PROVE  /\ req' \in [Requests -> Locals]
         /\ \A q \in Requests \ {r} : req'[q] = req[q]
         /\ req'[r].pc = "next" /\ req'[r].i = req[r].i + 1
         /\ req'[r].cip = req[r].cip /\ req'[r].image = req[r].image
         /\ req'[r].verified = req[r].verified \cup {req[r].i} /\ req'[r].refused = req[r].refused
<1> DEFINE l == [req[r] EXCEPT !.pc = "next", !.i = @ + 1, !.verified = @ \cup {req[r].i},
                               !.since = 0, !.answer = "none"]
<1>1. req[r] \in Locals
  BY DEF Types
<1>2. /\ req[r].i \in Nat \ {0} /\ req[r].i + 1 \in Nat \ {0}
      /\ req[r].verified \cup {req[r].i} \in SUBSET Nat
  BY <1>1 DEF Locals
<1>3. /\ l.pc = "next" /\ l.i = req[r].i + 1
      /\ l.cip = req[r].cip /\ l.image = req[r].image
      /\ l.verified = req[r].verified \cup {req[r].i} /\ l.refused = req[r].refused
  BY <1>1 DEF Locals
<1>4. l \in Locals
  BY <1>1, <1>2 DEF Locals, Pcs, Answers
<1>5. req' = [req EXCEPT ![r] = l]
  BY <1>1 DEF Count, Types
<1> HIDE DEF l
<1> QED
  BY <1>3, <1>4, <1>5 DEF Types

LEMMA RefuseStep ==
  ASSUME Types, NEW r \in Requests, Refuse(r)
  PROVE  /\ req' \in [Requests -> Locals]
         /\ \A q \in Requests \ {r} : req'[q] = req[q]
         /\ req'[r].pc = "next" /\ req'[r].i = req[r].i + 1
         /\ req'[r].cip = req[r].cip /\ req'[r].image = req[r].image
         /\ req'[r].verified = req[r].verified /\ req'[r].refused = req[r].refused \cup {req[r].i}
<1> DEFINE l == [req[r] EXCEPT !.pc = "next", !.i = @ + 1, !.refused = @ \cup {req[r].i},
                               !.since = 0, !.answer = "none"]
<1>1. req[r] \in Locals
  BY DEF Types
<1>2. /\ req[r].i \in Nat \ {0} /\ req[r].i + 1 \in Nat \ {0}
      /\ req[r].refused \cup {req[r].i} \in SUBSET Nat
  BY <1>1 DEF Locals
<1>3. /\ l.pc = "next" /\ l.i = req[r].i + 1
      /\ l.cip = req[r].cip /\ l.image = req[r].image
      /\ l.verified = req[r].verified /\ l.refused = req[r].refused \cup {req[r].i}
  BY <1>1 DEF Locals
<1>4. l \in Locals
  BY <1>1, <1>2 DEF Locals, Pcs, Answers
<1>5. req' = [req EXCEPT ![r] = l]
  BY <1>1 DEF Refuse, Types
<1> HIDE DEF l
<1> QED
  BY <1>3, <1>4, <1>5 DEF Types

\* After either, the request is at the next signature.
LEMMA Numbers ==
  ASSUME NEW n \in Nat \ {0} PROVE 1..(n + 1) - 1 = (1..n - 1) \cup {n}
OBVIOUS

LEMMA LengthIsNat ==
  ASSUME NEW l \in Locals PROVE Len(l.image.sigs) \in Nat /\ l.i \in Nat \ {0}
<1>1. l.image \in Images /\ l.i \in Nat \ {0}
  BY DEF Locals
<1>2. PICK a \in Calls : l.image = a.image
  BY <1>1 DEF Images
<1> QED
  BY <1>1, <1>2, CallsAssumption

LEMMA CountGood ==
  ASSUME Types, NEW r \in Requests, Count(r), Good(req[r], now), req[r].i <= Len(req[r].image.sigs)
  PROVE  Good(req'[r], now)
<1> DEFINE l == req[r]
           m == req'[r]
<1>1. l \in Locals /\ Len(l.image.sigs) \in Nat /\ l.i \in Nat \ {0}
  BY LengthIsNat DEF Types
<1>2. /\ m.pc = "next" /\ m.i = l.i + 1 /\ m.cip = l.cip /\ m.image = l.image
      /\ m.verified = l.verified \cup {l.i} /\ m.refused = l.refused
  BY CountStep
<1>3. m.verified \cup m.refused = 1..m.i - 1
  BY <1>1, <1>2, Numbers DEF Good
<1>4. m.i <= Len(m.image.sigs) + 1
  BY <1>1, <1>2
<1> HIDE DEF m
<1>5. Good(m, now)
  BY <1>2, <1>3, <1>4 DEF Good
<1> QED
  BY <1>5 DEF m

LEMMA RefuseGood ==
  ASSUME Types, NEW r \in Requests, Refuse(r), Good(req[r], now), req[r].i <= Len(req[r].image.sigs)
  PROVE  Good(req'[r], now)
<1> DEFINE l == req[r]
           m == req'[r]
<1>1. l \in Locals /\ Len(l.image.sigs) \in Nat /\ l.i \in Nat \ {0}
  BY LengthIsNat DEF Types
<1>2. /\ m.pc = "next" /\ m.i = l.i + 1 /\ m.cip = l.cip /\ m.image = l.image
      /\ m.verified = l.verified /\ m.refused = l.refused \cup {l.i}
  BY RefuseStep
<1>3. m.verified \cup m.refused = 1..m.i - 1
  BY <1>1, <1>2, Numbers DEF Good
<1>4. m.i <= Len(m.image.sigs) + 1
  BY <1>1, <1>2
<1> HIDE DEF m
<1>5. Good(m, now)
  BY <1>2, <1>3, <1>4 DEF Good
<1> QED
  BY <1>5 DEF m

-----------------------------------------------------------------------------
\* A step of one request that touches neither the entries nor what was accepted.
LEMMA Framed ==
  ASSUME IInv, NEW r \in Requests,
         req' \in [Requests -> Locals], \A q \in Requests \ {r} : req'[q] = req[q],
         UNCHANGED <<now, ttl, expires, accepted>>,
         Good(req'[r], now), req'[r].pc # "answered"
  PROVE  IInv'
<1>1. Types'
  BY DEF IInv, Types
<1>2. Progress'
  BY DEF IInv, Progress
<1>3. Accepted(req'[r], accepted)
  BY DEF Accepted
<1>4. AnswersAccepted'
  BY <1>3 DEF IInv, AnswersAccepted
<1>5. EntriesAccepted'
  BY DEF IInv, EntriesAccepted, Backed
<1> QED
  BY <1>1, <1>2, <1>4, <1>5 DEF IInv

\* A request that only moves to another place.
LEMMA MoveStep ==
  ASSUME Types, NEW r \in Requests, NEW p \in Pcs, req' = [req EXCEPT ![r].pc = p]
  PROVE  /\ req' \in [Requests -> Locals]
         /\ \A q \in Requests \ {r} : req'[q] = req[q]
         /\ req'[r].pc = p /\ req'[r].i = req[r].i
         /\ req'[r].cip = req[r].cip /\ req'[r].image = req[r].image
         /\ req'[r].verified = req[r].verified /\ req'[r].refused = req[r].refused
<1> DEFINE l == [req[r] EXCEPT !.pc = p]
<1>1. req[r] \in Locals
  BY DEF Types
<1>2. /\ l.pc = p /\ l.i = req[r].i
      /\ l.cip = req[r].cip /\ l.image = req[r].image
      /\ l.verified = req[r].verified /\ l.refused = req[r].refused
  BY <1>1 DEF Locals
<1>3. l \in Locals
  BY <1>1 DEF Locals
<1>4. req' = [req EXCEPT ![r] = l]
  BY <1>1 DEF Types
<1> HIDE DEF l
<1> QED
  BY <1>2, <1>3, <1>4 DEF Types

LEMMA StartKeeps ==
  ASSUME IInv, NEW r \in Requests, Start(r) PROVE IInv'
<1>1. PICK p \in {"failed", "next"} : req' = [req EXCEPT ![r].pc = p]
  BY DEF Start
<1>2. /\ req' \in [Requests -> Locals]
      /\ \A q \in Requests \ {r} : req'[q] = req[q]
      /\ req'[r].pc = p /\ req'[r].i = req[r].i
      /\ req'[r].cip = req[r].cip /\ req'[r].image = req[r].image
      /\ req'[r].verified = req[r].verified /\ req'[r].refused = req[r].refused
  BY <1>1, MoveStep DEF IInv, Pcs
<1>3. Good(req'[r], now)
  BY <1>2 DEF IInv, Progress, Good, Start, At
<1> QED
  BY <1>2, <1>3, Framed DEF Start, cacheVars

LEMMA FinishKeeps ==
  ASSUME IInv, NEW r \in Requests, Finish(r) PROVE IInv'
<1>1. PICK p \in {"passed", "failed"} :
        req' = [req EXCEPT ![r].pc = p] /\ (p = "passed" <=> req[r].verified # {})
  BY DEF Finish
<1>2. /\ req' \in [Requests -> Locals]
      /\ \A q \in Requests \ {r} : req'[q] = req[q]
      /\ req'[r].pc = p /\ req'[r].i = req[r].i
      /\ req'[r].cip = req[r].cip /\ req'[r].image = req[r].image
      /\ req'[r].verified = req[r].verified /\ req'[r].refused = req[r].refused
  BY <1>1, MoveStep DEF IInv, Pcs
<1>3. Len(req[r].image.sigs) \in Nat /\ req[r].i \in Nat \ {0}
  BY LengthIsNat DEF IInv, Types
<1>4. req[r].i = Len(req[r].image.sigs) + 1
  BY <1>3 DEF IInv, Progress, Good, Finish, InLoop, At
<1>5. Good(req'[r], now)
  BY <1>1, <1>2, <1>4 DEF IInv, Progress, Good
<1> QED
  BY <1>2, <1>5, Framed DEF Finish, cacheVars

LEMMA CallKeeps ==
  ASSUME IInv, NEW r \in Requests, Call(r) PROVE IInv'
<1> DEFINE l == [req[r] EXCEPT !.pc = "calling", !.since = now]
<1>1. req[r] \in Locals /\ now \in Nat
  BY DEF IInv, Types
<1>2. /\ l.pc = "calling" /\ l.i = req[r].i /\ l.since = now
      /\ l.cip = req[r].cip /\ l.image = req[r].image
      /\ l.verified = req[r].verified /\ l.refused = req[r].refused
  BY <1>1 DEF Locals
<1>3. l \in Locals
  BY <1>1 DEF Locals, Pcs
<1>4. req' = [req EXCEPT ![r] = l]
  BY <1>1 DEF Call
<1>5. Good(l, now)
  BY <1>1, <1>2 DEF IInv, Progress, Good, Call, InLoop
<1> HIDE DEF l
<1>6. req'[r] = l /\ req' \in [Requests -> Locals] /\ \A q \in Requests \ {r} : req'[q] = req[q]
  BY <1>3, <1>4 DEF IInv, Types
<1> QED
  BY <1>2, <1>5, <1>6, Framed DEF Call, cacheVars

LEMMA SkipKeeps ==
  ASSUME IInv, NEW r \in Requests, Skip(r) \/ CallFails(r) PROVE IInv'
<1>1. Refuse(r) /\ req[r].i <= Len(req[r].image.sigs)
  BY DEF Skip, CallFails, InLoop, IInv, Progress, Good
<1>2. Good(req'[r], now)
  BY <1>1, RefuseGood DEF IInv, Progress
<1>3. UNCHANGED <<now, ttl, expires, accepted>>
  BY DEF Skip, CallFails, cacheVars
<1> QED
  BY <1>1, <1>2, <1>3, RefuseStep, Framed DEF IInv

LEMMA HitKeeps ==
  ASSUME IInv, NEW r \in Requests, Hit(r) PROVE IInv'
<1>1. Count(r) /\ req[r].i <= Len(req[r].image.sigs)
  BY DEF Hit, InLoop
<1>2. Good(req'[r], now)
  BY <1>1, CountGood DEF IInv, Progress
<1>3. UNCHANGED <<now, ttl, expires, accepted>>
  BY DEF Hit, Touch
<1> QED
  BY <1>1, <1>2, <1>3, CountStep, Framed DEF IInv

\* A positive answer is stored for a time to live from now, at most one Timeout
\* after the call it answers began; a negative one is not stored.
LEMMA ReceiveKeeps ==
  ASSUME IInv, NEW r \in Requests, Receive(r) PROVE IInv'
<1> DEFINE k == Key(r)
           new == [expires EXCEPT ![k] = now + ttl]
<1>1. req[r].i <= Len(req[r].image.sigs)
  BY DEF Receive, At, IInv, Progress, Good
<1>2. CASE req[r].answer # "ok"
  <2>1. Refuse(r) /\ UNCHANGED <<now, ttl, expires, accepted>>
    BY <1>2 DEF Receive, cacheVars
  <2>2. Good(req'[r], now)
    BY <1>1, <2>1, RefuseGood DEF IInv, Progress
  <2> QED
    BY <2>1, <2>2, RefuseStep, Framed DEF IInv
<1>3. CASE req[r].answer = "ok"
  <2>1. Count(r) /\ Store(k) /\ UNCHANGED <<now, ttl, accepted>>
    BY <1>3 DEF Receive
  <2>2. Good(req'[r], now)
    BY <1>1, <2>1, CountGood DEF IInv, Progress
  <2>3. /\ req' \in [Requests -> Locals] /\ req'[r].pc = "next"
        /\ \A q \in Requests \ {r} : req'[q] = req[q]
    BY <2>1, CountStep DEF IInv
  <2>4. /\ expires' \in [Keys -> Int]
        /\ \A x \in Keys : expires'[x] \in {Absent, expires[x]} \/ (x = k /\ expires'[x] = now + ttl)
    <3>1. expires \in [Keys -> Int] /\ now + ttl \in Int /\ Absent \in Int
      BY DEF IInv, Types, Absent
    <3>2. CASE ~Enabled
      BY <2>1, <3>1, <3>2 DEF Store, cacheVars
    <3>3. CASE Enabled
      <4>1. PICK h : expires' = new \/ expires' = [new EXCEPT ![h] = Absent]
        BY <2>1, <3>3 DEF Store
      <4> QED
        BY <3>1, <4>1
    <3> QED
      BY <3>2, <3>3
  <2>5. Claim(r) \in Claims /\ <<Claim(r).bytes, Claim(r).signer>> = k
    BY <1>1, AtSignature DEF IInv
  <2>6. accepted[Claim(r)] >= req[r].since
    BY <1>3 DEF Receive, At, IInv, AnswersAccepted, Accepted, Claim, Sig
  <2>7. /\ now \in Nat /\ ttl \in Nat /\ req[r].since \in Nat /\ accepted[Claim(r)] \in Int
        /\ now <= req[r].since + Timeout /\ Timeout \in Nat
    BY <2>5, BoundsAssumption DEF Receive, IInv, Types, Locals
  <2>8. accepted[Claim(r)] # Absent /\ now + ttl <= accepted[Claim(r)] + ttl + Timeout
    BY <2>6, <2>7 DEF Absent
  <2>9. EntriesAccepted'
    <3> SUFFICES ASSUME NEW x \in Keys, expires'[x] # Absent
                 PROVE  Backed(x, expires'[x], accepted)
      BY <2>1 DEF EntriesAccepted, Backed
    <3>1. CASE expires'[x] = expires[x]
      BY <3>1 DEF IInv, EntriesAccepted
    <3>2. CASE x = k /\ expires'[x] = now + ttl
      BY <2>5, <2>8, <3>2 DEF Backed
    <3> QED
      BY <2>4, <3>1, <3>2
  <2>10. Types'
    BY <2>1, <2>3, <2>4 DEF IInv, Types
  <2>11. Progress'
    BY <2>1, <2>2, <2>3 DEF IInv, Progress
  <2>12. Accepted(req'[r], accepted)
    BY <2>3 DEF Accepted
  <2>13. AnswersAccepted'
    BY <2>1, <2>3, <2>12 DEF IInv, AnswersAccepted
  <2> QED
    BY <2>9, <2>10, <2>11, <2>13 DEF IInv
<1> QED
  BY <1>2, <1>3

\* The client takes an answer for positive only when the HSM has accepted.
LEMMA PositiveIsSaid ==
  ASSUME NEW p \in Failing \cup Rejecting PROVE Parse(p) # "ok"
<1>1. CASE p \in Failing
  <2>1. p.wellFormed = FALSE \/ p.code = 1
    BY <1>1 DEF Failing, Result
  <2>2. ~p.wellFormed \/ p.code # 0
    BY <2>1
  <2> QED
    BY <2>2, Zenon DEF Parse
<1>2. CASE p \in Rejecting
  <2>1. p.verified = "false" \/ (p.verified = "none" /\ p.success = "1")
    BY <1>2 DEF Rejecting, Result
  <2>2. ~Positive(p)
    BY <2>1 DEF Positive
  <2> QED
    BY <2>2, Zenon DEF Parse
<1> QED
  BY <1>1, <1>2

LEMMA AnswerKeeps ==
  ASSUME IInv, NEW r \in Requests, Answer(r) PROVE IInv'
<1>1. PICK p \in Failing \cup (IF Claim(r) \in hsm THEN Accepting ELSE Rejecting) :
        req' = [req EXCEPT ![r].pc = "answered", ![r].answer = Parse(p)]
  BY DEF Answer
<1> DEFINE a == Parse(p)
           l == [req[r] EXCEPT !.pc = "answered", !.answer = a]
<1>2. a \in Answers
  BY Zenon DEF Parse, Answers
<1>3. a = "ok" => Claim(r) \in hsm
  BY <1>1, PositiveIsSaid
<1>4. req' = [req EXCEPT ![r].pc = "answered", ![r].answer = a]
  BY <1>1
<1> HIDE DEF a
<1>5. req[r] \in Locals
  BY DEF IInv, Types
<1>6. /\ l.pc = "answered" /\ l.i = req[r].i /\ l.since = req[r].since /\ l.answer = a
      /\ l.cip = req[r].cip /\ l.image = req[r].image
      /\ l.verified = req[r].verified /\ l.refused = req[r].refused
  BY <1>5 DEF Locals
<1>7. l \in Locals
  BY <1>2, <1>5 DEF Locals, Pcs
<1>8. req' = [req EXCEPT ![r] = l]
  BY <1>4, <1>5
<1> HIDE DEF l
<1>9. req'[r] = l /\ req' \in [Requests -> Locals] /\ \A q \in Requests \ {r} : req'[q] = req[q]
  BY <1>7, <1>8 DEF IInv, Types
<1>10. Good(l, now)
  BY <1>6 DEF IInv, Progress, Good, Answer, At
<1>11. /\ Claim(r) \in Claims /\ req[r].since <= now
       /\ Claim(r) = ClaimOf(l.cip, l.image.sigs[l.i])
  <2>1. req[r].i <= Len(req[r].image.sigs) /\ req[r].since <= now
    BY DEF IInv, Progress, Good, Answer, At
  <2> QED
    BY <1>6, <2>1, AtSignature DEF IInv, Claim, Sig
<1>12. UNCHANGED <<now, ttl, expires>>
  BY DEF Answer, cacheVars
<1>13. /\ accepted' \in [Claims -> Int]
       /\ \A t \in Claims : accepted'[t] = accepted[t] \/ (t = Claim(r) /\ accepted'[t] = now)
       /\ Claim(r) \in hsm => accepted'[Claim(r)] = now
  BY <1>11 DEF Answer, IInv, Types
<1>14. \A t \in Claims : accepted[t] \in Int /\ accepted[t] <= accepted'[t] /\ accepted'[t] <= now
  BY <1>13 DEF IInv, Types, AnswersAccepted
<1>15. Types'
  BY <1>9, <1>12, <1>13 DEF IInv, Types
<1>16. Progress'
  BY <1>9, <1>10, <1>12 DEF IInv, Progress
<1>17. AnswersAccepted'
  <2> SUFFICES ASSUME NEW q \in Requests PROVE Accepted(req'[q], accepted')
    BY <1>12, <1>14 DEF AnswersAccepted
  <2>1. CASE q = r
    BY <1>3, <1>6, <1>9, <1>11, <1>13, <2>1 DEF Accepted
  <2>2. CASE q # r
    <3>1. req'[q] = req[q] /\ Accepted(req[q], accepted)
      BY <1>9, <2>2 DEF IInv, AnswersAccepted
    <3>2. SUFFICES ASSUME req[q].pc = "answered", req[q].answer = "ok"
                   PROVE  accepted'[ClaimOf(req[q].cip, req[q].image.sigs[req[q].i])] >= req[q].since
      BY <3>1 DEF Accepted
    <3>3. req[q].i <= Len(req[q].image.sigs) /\ req[q].since \in Nat
      BY <3>2 DEF IInv, Types, Locals, Progress, Good
    <3>4. ClaimOf(req[q].cip, req[q].image.sigs[req[q].i]) \in Claims
      BY <3>3, AtSignature DEF IInv, Claim, Sig
    <3>5. accepted[ClaimOf(req[q].cip, req[q].image.sigs[req[q].i])] >= req[q].since
      BY <3>1, <3>2 DEF Accepted
    <3>6. accepted'[ClaimOf(req[q].cip, req[q].image.sigs[req[q].i])] \in Int
      BY <1>13, <3>4
    <3> QED
      BY <1>14, <3>3, <3>4, <3>5, <3>6
  <2> QED
    BY <2>1, <2>2
<1>18. EntriesAccepted'
  <2> SUFFICES ASSUME NEW k \in Keys, expires[k] # Absent
               PROVE  Backed(k, expires[k], accepted')
    BY <1>12 DEF EntriesAccepted, Backed
  <2>1. PICK t \in Claims : /\ <<t.bytes, t.signer>> = k /\ accepted[t] # Absent
                            /\ expires[k] <= accepted[t] + ttl + Timeout
    BY DEF IInv, EntriesAccepted, Backed
  <2>2. /\ now \in Nat /\ ttl \in Nat /\ Timeout \in Nat /\ accepted'[t] \in Int /\ accepted[t] \in Int
        /\ accepted[t] <= accepted'[t] /\ accepted'[t] \in {accepted[t], now} /\ expires[k] \in Int
    BY <1>13, <1>14, BoundsAssumption DEF IInv, Types
  <2>3. accepted'[t] # Absent /\ expires[k] <= accepted'[t] + ttl + Timeout
    BY <2>1, <2>2 DEF Absent
  <2> QED
    BY <2>1, <2>3 DEF Backed
<1> QED
  BY <1>15, <1>16, <1>17, <1>18 DEF IInv

\* Time passes, a key is rotated, or nothing happens.
LEMMA OutsideKeeps ==
  ASSUME IInv, Tick \/ (\E g \in Signers, p \in Platforms : Rotate(g, p)) \/ UNCHANGED vars PROVE IInv'
<1>1. /\ UNCHANGED <<ttl, expires, req, accepted>>
      /\ now' \in {now, now + 1} /\ now \in Nat
  BY DEF Tick, Rotate, vars, cacheVars, IInv, Types
<1>2. Types'
  BY <1>1 DEF IInv, Types
<1>3. Progress'
  <2> SUFFICES ASSUME NEW r \in Requests PROVE Good(req[r], now')
    BY <1>1 DEF Progress
  <2>1. Good(req[r], now) /\ req[r].since \in Nat
    BY DEF IInv, Progress, Types, Locals
  <2>2. req[r].since <= now => req[r].since <= now'
    BY <1>1, <2>1
  <2> QED
    BY <2>1, <2>2 DEF Good
<1>4. AnswersAccepted'
  <2>1. \A t \in Claims : accepted[t] <= now'
    BY <1>1 DEF IInv, Types, AnswersAccepted
  <2> QED
    BY <1>1, <2>1 DEF IInv, AnswersAccepted
<1>5. EntriesAccepted'
  BY <1>1 DEF IInv, EntriesAccepted, Backed
<1> QED
  BY <1>2, <1>3, <1>4, <1>5 DEF IInv

LEMMA Initially == Init => IInv
<1> SUFFICES ASSUME Init PROVE IInv
  OBVIOUS
<1>1. \A r \in Requests : \E a \in Calls : req[r] = New(a)
  BY DEF Init
<1>2. \A a \in Calls : New(a) \in Locals
  <2> SUFFICES ASSUME NEW a \in Calls PROVE New(a) \in Locals
    OBVIOUS
  <2>1. a.cip \in Cips /\ a.image \in Images
    BY DEF Cips, Images
  <2> QED
    BY <2>1 DEF New, Locals, Pcs, Answers
<1>3. req \in [Requests -> Locals]
  BY <1>2 DEF Init
<1>4. \A a \in Calls : Good(New(a), now) /\ Accepted(New(a), accepted)
  <2> SUFFICES ASSUME NEW a \in Calls PROVE Good(New(a), now) /\ Accepted(New(a), accepted)
    OBVIOUS
  <2>1. Len(a.image.sigs) \in Nat
    BY CallsAssumption
  <2> DEFINE l == New(a)
  <2>2. /\ l.pc = "start" /\ l.i = 1 /\ l.image = a.image /\ l.verified = {} /\ l.refused = {}
    BY DEF New
  <2> HIDE DEF l
  <2>3. l.verified \cup l.refused = 1..l.i - 1
    BY <2>2
  <2>4. l.i <= Len(l.image.sigs) + 1
    BY <2>1, <2>2
  <2>5. Good(l, now) /\ Accepted(l, accepted)
    BY <2>2, <2>3, <2>4 DEF Good, Accepted
  <2> QED
    BY <2>5 DEF l
<1>5. Types
  BY <1>3, BoundsAssumption DEF Init, Types, Absent
<1>6. Progress
  BY <1>1, <1>4 DEF Progress
<1>7. AnswersAccepted
  BY <1>1, <1>4 DEF AnswersAccepted, Init, Absent
<1>8. EntriesAccepted
  BY DEF EntriesAccepted, Init
<1> QED
  BY <1>5, <1>6, <1>7, <1>8 DEF IInv

LEMMA Inductive == IInv /\ [Next]_vars => IInv'
<1> SUFFICES ASSUME IInv, [Next]_vars PROVE IInv'
  OBVIOUS
<1>1. ASSUME NEW r \in Requests, Step(r) PROVE IInv'
  BY <1>1, StartKeeps, SkipKeeps, HitKeeps, CallKeeps, ReceiveKeeps, FinishKeeps DEF Step
<1>2. ASSUME NEW r \in Requests, Answer(r) PROVE IInv'
  BY <1>2, AnswerKeeps
<1> QED
  BY <1>1, <1>2, OutsideKeeps DEF Next

LEMMA Invariant == Spec => []IInv
BY Initially, Inductive, PTL DEF Spec

-----------------------------------------------------------------------------
\* What a step other than counting or refusing leaves alone.
LEMMA OtherSteps ==
  ASSUME IInv, NEW q \in Requests, Start(q) \/ Call(q) \/ Finish(q) \/ Answer(q)
  PROVE  /\ \A r \in Requests \ {q} : req'[r] = req[r]
         /\ req'[q].verified = req[q].verified /\ req'[q].refused = req[q].refused
<1>1. req \in [Requests -> Locals] /\ req[q] \in Locals
  BY DEF IInv, Types
<1> QED
  BY <1>1 DEF Start, Call, Finish, Answer, Locals

\* Only a request's own steps change it: counting, refusing and the others.
LEMMA OwnStep ==
  ASSUME IInv, Next, NEW r \in Requests, req'[r] # req[r]
  PROVE  \/ Hit(r) \/ (Receive(r) /\ req[r].answer = "ok")
         \/ Refuse(r) /\ (Skip(r) \/ Receive(r) \/ CallFails(r))
         \/ Start(r) \/ Call(r) \/ Finish(r) \/ Answer(r)
<1>1. ASSUME NEW q \in Requests, Step(q) \/ Answer(q), q # r PROVE FALSE
  <2>1. CASE Count(q) \/ Refuse(q)
    BY <1>1, <2>1, CountStep, RefuseStep DEF IInv
  <2>2. CASE Start(q) \/ Call(q) \/ Finish(q) \/ Answer(q)
    BY <1>1, <2>2, OtherSteps
  <2> QED
    BY <1>1, <2>1, <2>2 DEF Step, Skip, Hit, Receive, CallFails
<1>2. Step(r) \/ Answer(r)
  BY <1>1 DEF Next, Tick, Rotate
<1> QED
  BY <1>2 DEF Step, Skip, Receive, CallFails

\* A failure is never remembered: a signature is refused for a check or a call of
\* the request's own, and a request whose signatures were fetched fails only when
\* each of them was refused.
THEOREM FailuresAreOwn == Spec => FailureIsOwn
<1> DEFINE P == \A r \in Requests :
                  /\ req'[r].refused # req[r].refused =>
                       \/ ~Passes(req[r].cip, req[r].image, Sig(r))
                       \/ req[r].pc \in {"calling", "answered"}
                  /\ At(r, "next") /\ req'[r].pc = "failed" =>
                       req[r].refused = 1..Len(req[r].image.sigs)
<1>1. ASSUME IInv, Next, NEW r \in Requests, req'[r].refused # req[r].refused
      PROVE  ~Passes(req[r].cip, req[r].image, Sig(r)) \/ req[r].pc \in {"calling", "answered"}
  <2>1. ~Count(r) /\ ~(Start(r) \/ Call(r) \/ Finish(r) \/ Answer(r))
    BY <1>1, CountStep, OtherSteps DEF IInv
  <2>2. Skip(r) \/ Receive(r) \/ CallFails(r)
    BY <1>1, <2>1, OwnStep DEF Hit
  <2> QED
    BY <2>2 DEF Skip, Gated, Receive, CallFails, At
<1>2. ASSUME IInv, Next, NEW r \in Requests, At(r, "next"), req'[r].pc = "failed"
      PROVE  req[r].refused = 1..Len(req[r].image.sigs)
  <2>1. ~Count(r) /\ ~Refuse(r)
    BY <1>2, CountStep, RefuseStep DEF IInv
  <2>2. Start(r) \/ Call(r) \/ Finish(r) \/ Answer(r)
    BY <1>2, <2>1, OwnStep DEF At, Hit, Receive
  <2>3. req \in [Requests -> Locals] /\ req[r] \in Locals
    BY <1>2 DEF IInv, Types
  <2>4. ~Call(r)
    BY <1>2, <2>3 DEF Call, Locals
  <2>5. Finish(r)
    BY <1>2, <2>2, <2>4 DEF Start, Answer, At
  <2>6. req[r].verified = {}
    BY <1>2, <2>3, <2>5 DEF Finish, Locals
  <2>7. Good(req[r], now) /\ Len(req[r].image.sigs) \in Nat /\ req[r].i \in Nat \ {0}
    BY <1>2, LengthIsNat DEF IInv, Progress, Types
  <2>8. req[r].i - 1 = Len(req[r].image.sigs)
    BY <2>5, <2>7 DEF Good, Finish, InLoop, At
  <2> QED
    BY <2>6, <2>7, <2>8 DEF Good
<1>3. IInv /\ [Next]_vars => [P]_vars
  BY <1>1, <1>2
<1> QED
  BY <1>3, Invariant, PTL DEF Spec, FailureIsOwn

\* What is counted was accepted by the HSM: this claim during the call, or the
\* same bytes for the same signer at most one time to live and one call ago, when
\* the answer comes from an entry that some request stored.
THEOREM CountedWereAccepted == Spec => CountedWasAccepted
<1> DEFINE Known(r) == \E t \in Claims :
                         /\ t.bytes = SigBytes(Sig(r)) /\ t.signer = Signer(req[r].cip)
                         /\ AcceptedWithin(t, ttl + Timeout)
           P == \A r \in Requests : req'[r].verified # req[r].verified =>
                  \/ AcceptedWithin(Claim(r), Timeout)
                  \/ /\ Enabled
                     /\ \E t \in Claims :
                          /\ t.bytes = SigBytes(Sig(r)) /\ t.signer = Signer(req[r].cip)
                          /\ AcceptedWithin(t, ttl + Timeout)
<1>1. ASSUME IInv, Next, NEW r \in Requests, req'[r].verified # req[r].verified
      PROVE  AcceptedWithin(Claim(r), Timeout) \/ (Enabled /\ Known(r))
  <2>1. Hit(r) \/ (Receive(r) /\ req[r].answer = "ok")
    BY <1>1, OwnStep, RefuseStep, OtherSteps DEF IInv
  <2>2. req[r].i <= Len(req[r].image.sigs)
    BY <1>1, <2>1 DEF Hit, InLoop, Receive, At, IInv, Progress, Good
  <2>3. /\ Claim(r) \in Claims /\ Key(r) \in Keys
        /\ Key(r) = <<SigBytes(Sig(r)), Signer(req[r].cip)>>
    BY <1>1, <2>2, AtSignature DEF IInv
  <2>4. /\ now \in Nat /\ ttl \in Nat /\ req[r].since \in Nat /\ accepted[Claim(r)] \in Int
        /\ expires[Key(r)] \in Int /\ Timeout \in Nat
    BY <1>1, <2>3, BoundsAssumption DEF IInv, Types, Locals
  <2>5. CASE Hit(r)
    <3>1. Enabled /\ expires[Key(r)] # Absent /\ now <= expires[Key(r)]
      BY <2>5 DEF Hit, Lookup
    <3>2. PICK t \in Claims : /\ <<t.bytes, t.signer>> = Key(r) /\ accepted[t] # Absent
                              /\ expires[Key(r)] <= accepted[t] + ttl + Timeout
      BY <1>1, <2>3, <3>1 DEF IInv, EntriesAccepted, Backed
    <3>3. accepted[t] \in Int
      BY <1>1 DEF IInv, Types
    <3>4. AcceptedWithin(t, ttl + Timeout)
      BY <2>4, <3>1, <3>2, <3>3 DEF AcceptedWithin
    <3>5. t.bytes = SigBytes(Sig(r)) /\ t.signer = Signer(req[r].cip)
      BY <2>3, <3>2
    <3> QED
      BY <3>1, <3>4, <3>5
  <2>6. CASE Receive(r) /\ req[r].answer = "ok"
    <3>1. accepted[Claim(r)] >= req[r].since /\ now <= req[r].since + Timeout
      BY <1>1, <2>6 DEF Receive, At, IInv, AnswersAccepted, Accepted, Claim, Sig
    <3>2. AcceptedWithin(Claim(r), Timeout)
      BY <2>4, <3>1 DEF Absent, AcceptedWithin
    <3> QED
      BY <3>2
  <2> QED
    BY <2>1, <2>5, <2>6
<1>2. IInv /\ [Next]_vars => [P]_vars
  BY <1>1
<1> QED
  BY <1>2, Invariant, PTL DEF Spec, CountedWasAccepted

-----------------------------------------------------------------------------
(* The LRU list.                                                            *)

\* A list without one of its elements.
RemoveAt(s, i) == SubSeq(s, 1, i - 1) \o SubSeq(s, i + 1, Len(s))

LEMMA RemovedAt ==
  ASSUME NEW S, NEW s \in Seq(S), NEW i \in 1..Len(s)
  PROVE  /\ RemoveAt(s, i) \in Seq(S) /\ Len(RemoveAt(s, i)) = Len(s) - 1
         /\ \A n \in 1..Len(s) - 1 : RemoveAt(s, i)[n] = IF n < i THEN s[n] ELSE s[n + 1]
<1> DEFINE t == SubSeq(s, 1, i - 1)
           u == SubSeq(s, i + 1, Len(s))
<1>1. Len(s) \in Nat /\ i \in Nat \ {0} /\ i <= Len(s)
  OBVIOUS
<1>2. t \in Seq(S) /\ Len(t) = i - 1 /\ \A n \in 1..i - 1 : t[n] = s[n]
  BY <1>1
<1>3. u \in Seq(S) /\ Len(u) = Len(s) - i /\ \A n \in 1..Len(s) - i : u[n] = s[n + i]
  BY <1>1
<1> HIDE DEF t, u
<1>4. t \o u \in Seq(S) /\ Len(t \o u) = Len(s) - 1
  <2>1. t \o u \in Seq(S) /\ Len(t \o u) = Len(t) + Len(u)
    BY <1>2, <1>3, ConcatProperties
  <2> QED
    BY <1>1, <1>2, <1>3, <2>1
<1>5. ASSUME NEW n \in 1..Len(s) - 1 PROVE (t \o u)[n] = IF n < i THEN s[n] ELSE s[n + 1]
  <2>1. CASE n < i
    BY <1>1, <1>2, <1>3, <2>1
  <2>2. CASE n >= i
    <3>1. PICK m \in 1..Len(s) - i : m = n - (i - 1) /\ n + 1 = m + i
      BY <1>1, <2>2
    <3>2. (t \o u)[n] = u[m]
      <4>1. n \in 1..Len(t) + Len(u) /\ ~(n <= Len(t)) /\ n - Len(t) = m
        BY <1>1, <1>2, <1>3, <2>2, <3>1
      <4>2. (t \o u)[n] = IF n <= Len(t) THEN t[n] ELSE u[n - Len(t)]
        BY <1>2, <1>3, <4>1, ConcatProperties
      <4> QED
        BY <4>1, <4>2
    <3>3. u[m] = s[m + i]
      BY <1>3
    <3>4. u[m] = s[n + 1]
      BY <3>1, <3>3
    <3>5. ~(n < i)
      BY <1>1, <2>2
    <3> QED
      BY <3>2, <3>4, <3>5
  <2>3. n < i \/ n >= i
    BY <1>1
  <2> QED
    BY <2>1, <2>2, <2>3
<1> QED BY <1>4, <1>5 DEF RemoveAt, t, u

\* A list of distinct keys with k moved to its end, or added there.
LEMMA UsedList ==
  ASSUME lru \in Seq(Keys), IsInjective(lru), NEW k \in Keys
  PROVE  /\ Used(k) \in Seq(Keys) /\ IsInjective(Used(k))
         /\ Range(Used(k)) = Range(lru) \cup {k}
         /\ Len(Used(k)) = IF k \in Range(lru) THEN Len(lru) ELSE Len(lru) + 1
         /\ Used(k) # <<>>
<1> DEFINE w == IF k \in Range(lru) THEN RemoveAt(lru, CHOOSE i \in DOMAIN lru : lru[i] = k) ELSE lru
<1>1. /\ w \in Seq(Keys) /\ IsInjective(w) /\ Range(w) = Range(lru) \ {k}
      /\ Len(w) = IF k \in Range(lru) THEN Len(lru) - 1 ELSE Len(lru)
  <2>1. CASE k \notin Range(lru)
    BY <2>1
  <2>2. CASE k \in Range(lru)
    <3> DEFINE i == CHOOSE n \in DOMAIN lru : lru[n] = k
               v == RemoveAt(lru, i)
    <3>1. i \in 1..Len(lru) /\ lru[i] = k
      BY <2>2 DEF Range
    <3>2. w = v
      BY <2>2
    <3> HIDE DEF i
    <3>3. /\ v \in Seq(Keys) /\ Len(v) = Len(lru) - 1
          /\ \A n \in 1..Len(lru) - 1 : v[n] = IF n < i THEN lru[n] ELSE lru[n + 1]
      BY <3>1, RemovedAt
    <3> HIDE DEF v
    <3> DEFINE at(n) == IF n < i THEN n ELSE n + 1
    <3>4. Len(lru) \in Nat /\ i \in Nat /\ DOMAIN lru = 1..Len(lru) /\ DOMAIN v = 1..Len(lru) - 1
      BY <3>1, <3>3
    <3>5. \A n \in DOMAIN v : at(n) \in DOMAIN lru \ {i} /\ v[n] = lru[at(n)]
      BY <3>1, <3>3, <3>4
    <3>6. \A m, n \in DOMAIN v : at(m) = at(n) => m = n
      BY <3>1, <3>4
    <3>7. \A n \in DOMAIN lru \ {i} : \E m \in DOMAIN v : at(m) = n
      <4> SUFFICES ASSUME NEW n \in DOMAIN lru \ {i}
                   PROVE  \E m \in DOMAIN v : at(m) = n
        OBVIOUS
      <4>1. CASE n < i
        <5>1. n \in DOMAIN v /\ at(n) = n
          BY <3>1, <3>4, <4>1
        <5> QED
          BY <5>1
      <4>2. CASE n > i
        <5>1. n - 1 \in DOMAIN v /\ at(n - 1) = n
          BY <3>1, <3>4, <4>2
        <5> QED
          BY <5>1
      <4>3. n < i \/ n > i
        BY <3>4
      <4> QED
        BY <4>1, <4>2, <4>3
    <3> HIDE DEF at
    <3>8. IsInjective(v)
      BY <3>5, <3>6 DEF IsInjective
    <3>9. Range(v) = Range(lru) \ {k}
      <4>1. ASSUME NEW x \in Range(v) PROVE x \in Range(lru) \ {k}
        <5>1. PICK n \in DOMAIN v : x = v[n]
          BY DEF Range
        <5>2. at(n) \in DOMAIN lru /\ at(n) # i /\ x = lru[at(n)]
          BY <3>5, <5>1
        <5> QED
          BY <3>1, <3>4, <5>2 DEF Range, IsInjective
      <4>2. ASSUME NEW x \in Range(lru) \ {k} PROVE x \in Range(v)
        <5>1. PICK n \in DOMAIN lru \ {i} : x = lru[n]
          BY <3>1, <4>2 DEF Range
        <5>2. PICK m \in DOMAIN v : at(m) = n
          BY <3>7
        <5> QED
          BY <3>5, <5>1, <5>2 DEF Range
      <4> QED
        BY <4>1, <4>2
    <3> QED
      BY <2>2, <3>2, <3>3, <3>8, <3>9
  <2> QED
    BY <2>1, <2>2
<1>2. Used(k) = Append(w, k)
  BY DEF Used, RemoveAt
<1> HIDE DEF w
<1>3. Len(w) \in Nat /\ DOMAIN w = 1..Len(w) /\ Len(lru) \in Nat
  BY <1>1
<1> DEFINE u == Append(w, k)
<1>4. /\ u \in Seq(Keys) /\ Len(u) = Len(w) + 1 /\ DOMAIN u = 1..Len(w) + 1
      /\ \A n \in 1..Len(w) : u[n] = w[n]
      /\ u[Len(w) + 1] = k
  BY <1>1, AppendProperties
<1> HIDE DEF u
<1>5. \A n \in DOMAIN u : n \in DOMAIN w \/ n = Len(w) + 1
  BY <1>3, <1>4
<1>6. \A n \in DOMAIN w : n \in DOMAIN u /\ u[n] = w[n] /\ w[n] # k
  <2>1. \A n \in DOMAIN w : n \in DOMAIN u /\ u[n] = w[n]
    BY <1>3, <1>4
  <2>2. \A n \in DOMAIN w : w[n] \in Range(w)
    BY DEF Range
  <2> QED
    BY <1>1, <2>1, <2>2
<1>7. IsInjective(u)
  BY <1>1, <1>4, <1>5, <1>6 DEF IsInjective
<1>8. Len(w) + 1 \in DOMAIN u
  BY <1>3, <1>4
<1>9. Range(u) = Range(w) \cup {k}
  BY <1>4, <1>5, <1>6, <1>8 DEF Range
<1>10. Range(u) = Range(lru) \cup {k}
  BY <1>1, <1>9
<1>11. Len(u) = IF k \in Range(lru) THEN Len(lru) ELSE Len(lru) + 1
  BY <1>1, <1>3, <1>4
<1>12. u # <<>>
  BY <1>3, <1>4
<1> QED
  BY <1>2, <1>4, <1>7, <1>10, <1>11, <1>12 DEF u

\* A list of distinct keys without its first.
LEMMA EvictedList ==
  ASSUME NEW S, NEW s \in Seq(S), s # <<>>, IsInjective(s)
  PROVE  /\ Tail(s) \in Seq(S) /\ IsInjective(Tail(s)) /\ Len(Tail(s)) = Len(s) - 1
         /\ Range(Tail(s)) = Range(s) \ {Head(s)} /\ Head(s) \in Range(s)
<1> DEFINE t == Tail(s)
<1>1. /\ Len(s) \in Nat \ {0} /\ DOMAIN s = 1..Len(s) /\ Head(s) = s[1]
      /\ t \in Seq(S) /\ Len(t) = Len(s) - 1 /\ DOMAIN t = 1..Len(s) - 1
      /\ \A n \in 1..Len(s) - 1 : t[n] = s[n + 1]
  OBVIOUS
<1> HIDE DEF t
<1>2. \A n \in DOMAIN t : n + 1 \in DOMAIN s \ {1} /\ t[n] = s[n + 1]
  BY <1>1
<1>3. \A n \in DOMAIN s \ {1} : n - 1 \in DOMAIN t /\ t[n - 1] = s[n]
  BY <1>1
<1>4. 1 \in DOMAIN s
  BY <1>1
<1>5. IsInjective(t)
  <2> SUFFICES ASSUME NEW m \in DOMAIN t, NEW n \in DOMAIN t, t[m] = t[n] PROVE m = n
    BY DEF IsInjective
  <2>1. m + 1 = n + 1
    BY <1>2 DEF IsInjective
  <2> QED
    BY <1>1, <2>1
<1>6. \A x \in Range(t) : x \in Range(s) /\ x # s[1]
  BY <1>2, <1>4 DEF Range, IsInjective
<1>7. \A x \in Range(s) : x = s[1] \/ x \in Range(t)
  BY <1>3 DEF Range
<1>8. Range(t) = Range(s) \ {s[1]} /\ s[1] \in Range(s)
  BY <1>4, <1>6, <1>7 DEF Range
<1> QED
  BY <1>1, <1>5, <1>8 DEF t

\* The list and the entries of the cache have the same keys, each key is in the
\* list once, and no more of them than the capacity; a signature is counted or
\* refused and not both.
Cached ==
  /\ now \in 0..MaxTime /\ ttl \in TTLs /\ hsm \subseteq Claims
  /\ lru \in Seq(Keys) /\ IsInjective(lru) /\ Len(lru) <= Capacity
  /\ Range(lru) = {k \in Keys : expires[k] # Absent}
  /\ \A r \in Requests : req[r].verified \cap req[r].refused = {}

\* Store keeps the cache in order, whether it adds, renews or evicts.
LEMMA StoreKeeps ==
  ASSUME IInv, Cached, NEW k \in Keys, Store(k)
  PROVE  /\ lru' \in Seq(Keys) /\ IsInjective(lru') /\ Len(lru') <= Capacity
         /\ Range(lru') = {j \in Keys : expires'[j] # Absent}
<1>1. CASE ~Enabled
  BY <1>1 DEF Store, cacheVars, Cached
<1>2. CASE Enabled
  <2> DEFINE kept == Used(k)
             new == [expires EXCEPT ![k] = now + ttl]
  <2>1. /\ lru' = IF Len(kept) > Capacity THEN Tail(kept) ELSE kept
        /\ expires' = IF Len(kept) > Capacity THEN [new EXCEPT ![Head(kept)] = Absent] ELSE new
    BY <1>2 DEF Store
  <2>2. /\ kept \in Seq(Keys) /\ IsInjective(kept) /\ Range(kept) = Range(lru) \cup {k}
        /\ Len(kept) = (IF k \in Range(lru) THEN Len(lru) ELSE Len(lru) + 1) /\ kept # <<>>
    BY UsedList DEF Cached
  <2> HIDE DEF kept
  <2>3. now + ttl # Absent /\ expires \in [Keys -> Int] /\ now + ttl \in Int
    BY DEF IInv, Types, Absent
  <2>4. /\ new \in [Keys -> Int] /\ new[k] # Absent
        /\ \A j \in Keys \ {k} : new[j] = expires[j]
    BY <2>3
  <2>5. Range(kept) = {j \in Keys : new[j] # Absent}
    BY <2>2, <2>4 DEF Cached
  <2> HIDE DEF new
  <2>6. Len(lru) \in Nat /\ Len(lru) <= Capacity /\ Capacity \in Nat /\ Len(kept) \in Nat
    BY <2>2, BoundsAssumption DEF Cached
  <2>7. CASE ~(Len(kept) > Capacity)
    BY <2>1, <2>2, <2>5, <2>6, <2>7
  <2>8. CASE Len(kept) > Capacity
    <3>1. /\ Tail(kept) \in Seq(Keys) /\ IsInjective(Tail(kept)) /\ Len(Tail(kept)) = Len(kept) - 1
          /\ Range(Tail(kept)) = Range(kept) \ {Head(kept)} /\ Head(kept) \in Range(kept)
      BY <2>2, EvictedList
    <3>2. Head(kept) \in Keys
      BY <2>5, <3>1
    <3> DEFINE h == Head(kept)
               old == [new EXCEPT ![h] = Absent]
    <3>3. \A j \in Keys : old[j] # Absent <=> j # h /\ new[j] # Absent
      BY <2>4, <3>2
    <3>4. lru' = Tail(kept) /\ expires' = old
      BY <2>1, <2>8
    <3> HIDE DEF old, h
    <3>5. Range(Tail(kept)) = {j \in Keys : old[j] # Absent}
      BY <2>5, <3>1, <3>3 DEF h
    <3>6. Len(Tail(kept)) <= Capacity
      BY <2>2, <2>6, <3>1
    <3> QED
      BY <3>1, <3>4, <3>5, <3>6
  <2> QED
    BY <2>7, <2>8
<1> QED
  BY <1>1, <1>2

\* A signature that is counted or refused was neither before.
LEMMA CountedOrRefused ==
  ASSUME IInv, Cached, NEW r \in Requests, Count(r) \/ Refuse(r)
  PROVE  \A q \in Requests : req'[q].verified \cap req'[q].refused = {}
<1>1. Good(req[r], now) /\ req[r].i \in Nat \ {0}
  BY LengthIsNat DEF IInv, Progress, Types
<1>2. req[r].i \notin req[r].verified \cup req[r].refused
  BY <1>1 DEF Good
<1>3. req[r].verified \cap req[r].refused = {}
  BY DEF Cached
<1>4. \/ /\ req'[r].verified = req[r].verified \cup {req[r].i}
         /\ req'[r].refused = req[r].refused
      \/ /\ req'[r].verified = req[r].verified
         /\ req'[r].refused = req[r].refused \cup {req[r].i}
  BY CountStep, RefuseStep DEF IInv
<1>5. req'[r].verified \cap req'[r].refused = {}
  BY <1>2, <1>3, <1>4
<1>6. \A q \in Requests \ {r} : req'[q] = req[q]
  BY CountStep, RefuseStep DEF IInv
<1> QED
  BY <1>5, <1>6 DEF Cached

\* Cached is inductive.
LEMMA CachedInductive == IInv /\ Cached /\ [Next]_vars => Cached'
<1> SUFFICES ASSUME IInv, Cached, [Next]_vars PROVE Cached'
  OBVIOUS
<1> DEFINE Split == \A q \in Requests : req'[q].verified \cap req'[q].refused = {}
           Ordered == /\ lru' \in Seq(Keys) /\ IsInjective(lru') /\ Len(lru') <= Capacity
                      /\ Range(lru') = {k \in Keys : expires'[k] # Absent}
<1>1. ASSUME UNCHANGED <<now, ttl, hsm>>, Split, Ordered PROVE Cached'
  BY <1>1 DEF Cached
<1>2. ASSUME UNCHANGED <<now, ttl, hsm, expires, lru>>, Split PROVE Cached'
  BY <1>2 DEF Cached
<1>3. ASSUME NEW r \in Requests, Skip(r) \/ CallFails(r) PROVE Cached'
  BY <1>2, <1>3, CountedOrRefused DEF Skip, CallFails, cacheVars
<1>4. ASSUME NEW r \in Requests, Start(r) \/ Finish(r) \/ Call(r) \/ Answer(r) PROVE Cached'
  <2>1. req \in [Requests -> Locals] /\ req[r] \in Locals
    BY DEF IInv, Types
  <2>2. /\ \A q \in Requests \ {r} : req'[q] = req[q]
        /\ req'[r].verified = req[r].verified /\ req'[r].refused = req[r].refused
    BY <1>4, <2>1 DEF Start, Finish, Call, Answer, Locals
  <2>3. Split
    BY <2>2 DEF Cached
  <2> QED
    BY <1>2, <1>4, <2>3 DEF Start, Finish, Call, Answer, cacheVars
<1>5. ASSUME NEW r \in Requests, Hit(r) PROVE Cached'
  <2>1. Key(r) \in Keys
    BY <1>5, AtSignature DEF Hit, InLoop, IInv
  <2>2. Key(r) \in Range(lru)
    BY <1>5, <2>1 DEF Hit, Lookup, Cached
  <2>3. lru' = Used(Key(r)) /\ expires' = expires
    BY <1>5 DEF Hit, Touch
  <2>4. /\ lru' \in Seq(Keys) /\ IsInjective(lru') /\ Range(lru') = Range(lru) \cup {Key(r)}
        /\ Len(lru') = Len(lru)
    BY <2>1, <2>2, <2>3, UsedList DEF Cached
  <2>5. Ordered
    BY <2>2, <2>3, <2>4 DEF Cached
  <2>6. Split
    BY <1>5, CountedOrRefused DEF Hit
  <2> QED
    BY <1>1, <1>5, <2>5, <2>6 DEF Hit
<1>6. ASSUME NEW r \in Requests, Receive(r) PROVE Cached'
  <2>1. Key(r) \in Keys
    BY <1>6, AtSignature DEF Receive, At, IInv, Progress, Good
  <2>2. CASE req[r].answer = "ok"
    <3>1. Count(r) /\ Store(Key(r)) /\ UNCHANGED <<now, ttl, hsm>>
      BY <1>6, <2>2 DEF Receive
    <3>2. Ordered
      BY <2>1, <3>1, StoreKeeps
    <3>3. Split
      BY <3>1, CountedOrRefused
    <3> QED
      BY <1>1, <3>1, <3>2, <3>3
  <2>3. CASE req[r].answer # "ok"
    BY <1>2, <1>6, <2>3, CountedOrRefused DEF Receive, cacheVars
  <2> QED
    BY <2>2, <2>3
<1>7. CASE Tick
  <2>1. now' \in 0..MaxTime
    BY <1>7, BoundsAssumption DEF Tick, Cached
  <2> QED
    BY <1>7, <2>1 DEF Tick, cacheVars, Cached
<1>8. ASSUME NEW g \in Signers, NEW p \in Platforms, Rotate(g, p) PROVE Cached'
  BY <1>8 DEF Rotate, cacheVars, Cached
<1>9. CASE UNCHANGED vars
  BY <1>9 DEF vars, cacheVars, Cached
<1> QED
  BY <1>3, <1>4, <1>5, <1>6, <1>7, <1>8, <1>9 DEF Next, Step

\* The LRU list and the entries of the cache agree, and never exceed the capacity,
\* whatever requests look up, renew, add and evict; and a signature of a request
\* is counted or refused, once.
THEOREM CacheInOrder == Spec => []TypeOK
<1>1. Init => Cached
  <2> SUFFICES ASSUME Init PROVE Cached
    OBVIOUS
  <2>1. lru \in Seq(Keys) /\ IsInjective(lru) /\ Len(lru) <= Capacity /\ Range(lru) = {}
    BY BoundsAssumption DEF Init, IsInjective, Range
  <2>2. {k \in Keys : expires[k] # Absent} = {}
    BY DEF Init
  <2>3. \A r \in Requests : req[r].verified \cap req[r].refused = {}
    BY DEF Init, New
  <2>4. now \in 0..MaxTime
    BY BoundsAssumption DEF Init
  <2> QED
    BY <2>1, <2>2, <2>3, <2>4, GenuineAssumption DEF Init, Cached
<1>2. IInv /\ Cached => TypeOK
  <2> SUFFICES ASSUME IInv, Cached PROVE TypeOK
    OBVIOUS
  <2>1. ASSUME NEW r \in Requests
        PROVE  /\ req[r].pc \in {"start", "next", "calling", "answered", "passed", "failed"}
               /\ req[r].i \in 1..Len(req[r].image.sigs) + 1
               /\ req[r].verified \cap req[r].refused = {}
               /\ req[r].verified \cup req[r].refused \subseteq 1..req[r].i - 1
    <3>1. Good(req[r], now) /\ Len(req[r].image.sigs) \in Nat /\ req[r].i \in Nat \ {0}
      BY LengthIsNat DEF IInv, Progress, Types
    <3>2. req[r].pc \in {"start", "next", "calling", "answered", "passed", "failed"}
      BY DEF IInv, Types, Locals, Pcs
    <3>3. req[r].i \in 1..Len(req[r].image.sigs) + 1
      BY <3>1 DEF Good
    <3> QED
      BY <3>1, <3>2, <3>3 DEF Good, Cached
  <2> QED
    BY <2>1 DEF TypeOK, IInv, Types, Cached
<1> QED
  BY <1>1, <1>2, CachedInductive, Invariant, PTL DEF Spec
=============================================================================
