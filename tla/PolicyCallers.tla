--------------------------- MODULE PolicyCallers ---------------------------
(***************************************************************************)
(* The two callers of ValidatePolicy: a goroutine of the webhook's         *)
(* validatePolicies, with the configuration stores behind it and a result  *)
(* cache around it (pkg/webhook/cache.go, pkg/apis/config/store.go), and   *)
(* the tester (cmd/tester, pkg/policy), which reads policies from a file or*)
(* a URL, validates, compiles and matches them, and checks an image.       *)
(*                                                                         *)
(*   reference  [text, name], as written and with registry and repository; *)
(*   object     [form, kind, name, valid, compiles, match, globs, policy], *)
(*              one object of a document of the tester;                    *)
(*   resource   [resource, group, version, labels], of the object that uses*)
(*              the image, or None when the tester is not given one.       *)
(***************************************************************************)
EXTENDS PolicyCheck

CONSTANTS Refs,        \* references of images
          Edits,       \* bound: edits of the webhook's policy
          Requests,    \* bound: requests to the webhook
          Documents,   \* what the file or URL of the tester may hold
          Resources,   \* resources it may be given
          Regexps      \* the names each valid glob matches

\* A reference that is written in full names itself.
ASSUME RefsAssumption == \A r, s \in Refs : r.text = s.name => r.name = s.name
ASSUME BoundsAssumption == Edits \in Nat /\ Requests \in Nat
ASSUME DocumentsAssumption ==
  \A d \in Documents : DOMAIN d \subseteq Nat /\ \A n \in DOMAIN d : WellFormed(d[n].policy)
\* A nil pointer is no value.
ASSUME NoneAssumption ==
  /\ None \notin BOOLEAN /\ None # 0 /\ None \notin Refs
  /\ None \notin [version : Nat, policy : Policies]

VARIABLES caller,      \* "webhook" or "tester"
          ref,         \* the reference that is checked, or None
          \* the webhook
          current,     \* the policy in the image policy store: [version, policy]
          rooted,      \* the TrustRoot is in the store of the Sigstore keys
          load,        \* what the request's context holds: [policies, keys]
          cache,       \* results by <<image, version>>, with what they are for
          answer,      \* the last answer: [ref, policy, entry, hit]
          count,       \* requests so far
          \* the tester
          doc,         \* what the file or URL holds
          at,          \* "start", "valid", "compile", "match", "verify", "exit"
          ipc,         \* compiled policies by name
          ww,          \* the warnings written
          todo,        \* names of matching policies still to be checked
          seen,        \* what came of the others, as <<name, result>>
          flag,        \* enable-oci11
          resource,    \* what uses the image
          code         \* the exit code

webhookVars == <<current, rooted, load, cache, answer, count>>
testerVars == <<doc, at, ipc, ww, todo, seen, flag, resource, code>>
vars == <<checkVars, caller, ref, webhookVars, testerVars>>

NotLoaded == [policies |-> None, keys |-> None]

Init ==
  /\ CheckInit /\ ref = None
  /\ caller \in {"webhook", "tester"}
  /\ current \in IF caller = "webhook" THEN [version : {0}, policy : {p \in Policies : ~p.root}] ELSE {None}
  /\ rooted = FALSE /\ load = NotLoaded /\ cache = <<>> /\ answer = None /\ count = 0
  /\ doc \in IF caller = "tester" THEN Documents ELSE {<<>>}
  /\ at = "start" /\ ipc = <<>> /\ ww = {} /\ todo = {} /\ seen = {}
  /\ flag \in IF caller = "tester" THEN BOOLEAN ELSE {FALSE}
  /\ resource = None /\ code = None

-----------------------------------------------------------------------------
(* The webhook.                                                             *)

\* External: the TrustRoot is published before a policy refers to it.
PublishRoot ==
  /\ caller = "webhook" /\ ~rooted /\ rooted' = TRUE
  /\ UNCHANGED <<checkVars, caller, ref, current, load, cache, answer, count, testerVars>>

\* OnConfigChanged of the store, with an edited policy and its resourceVersion.
Edit ==
  /\ caller = "webhook" /\ current.version < Edits
  /\ \E p \in Policies \ {current.policy} :
       /\ p.root => rooted
       /\ current' = [version |-> current.version + 1, policy |-> p]
  /\ UNCHANGED <<checkVars, caller, ref, rooted, load, cache, answer, count, testerVars>>

\* Mutant of LoadPolicies: the keys are loaded first.
LoadKeysFirst(r) ==
  /\ caller = "webhook" /\ ref = None /\ count < Requests
  /\ ref' = r /\ count' = count + 1 /\ load' = [policies |-> None, keys |-> rooted]
  /\ UNCHANGED <<checkVars, caller, current, rooted, cache, answer, testerVars>>

\* Store.Load, for a request about r: the policies, then the keys.
LoadPolicies(r) ==
  /\ caller = "webhook" /\ ref = None /\ count < Requests
  /\ ref' = r /\ count' = count + 1 /\ load' = [policies |-> current, keys |-> None]
  /\ UNCHANGED <<checkVars, caller, current, rooted, cache, answer, testerVars>>

LoadRest ==
  /\ caller = "webhook" /\ ref # None /\ (load.policies = None \/ load.keys = None)
  /\ load' = [policies |-> IF load.policies = None THEN current ELSE load.policies,
              keys |-> IF load.keys = None THEN rooted ELSE load.keys]
  /\ UNCHANGED <<checkVars, caller, ref, current, rooted, cache, answer, count, testerVars>>

Loaded == ref # None /\ load.policies # None /\ load.keys # None

With(f, k, v) == [x \in DOMAIN f \cup {k} |-> IF x = k THEN v ELSE f[x]]

Reply(entry, hit) ==
  /\ answer' = [ref |-> ref, policy |-> load.policies.policy, entry |-> entry, hit |-> hit]
  /\ ref' = None /\ load' = NotLoaded

\* ResultCache.Get, by the reference as it is written: a hit is the result, which
\* validatePolicies then sets once more.
Get ==
  LET key == <<ref.text, load.policies.version>> IN
  /\ caller = "webhook" /\ Loaded /\ stage = "idle" /\ key \in DOMAIN cache
  /\ cache' = With(cache, <<ref.name, load.policies.version>>, cache[key])
  /\ Reply(cache[key], TRUE)
  /\ UNCHANGED <<checkVars, caller, current, rooted, count, testerVars>>

\* No hit.  Without the TrustRoot it names there are no check options.
Check ==
  /\ caller = "webhook" /\ Loaded /\ <<ref.text, load.policies.version>> \notin DOMAIN cache
  /\ \E ev \in Evidence, oci \in BOOLEAN :
       /\ load.policies.policy.root /\ ~load.keys => ~ev.opts
       /\ BeginCheck(load.policies.policy, ev, oci)
  /\ UNCHANGED <<caller, ref, webhookVars, testerVars>>

Entry == [result |-> result, name |-> ref.name, policy |-> policy]

\* Mutant of Set: the version is the one of the moment.
SetNow ==
  /\ caller = "webhook" /\ stage = "done"
  /\ cache' = With(cache, <<ref.name, current.version>>, Entry)
  /\ Reply(Entry, FALSE) /\ EndCheck
  /\ UNCHANGED <<caller, current, rooted, count, testerVars>>

\* ResultCache.Set, by the full name and the version that was checked, whatever the
\* result; then the answer.  The cache is external; here it keeps everything.
Set ==
  /\ caller = "webhook" /\ stage = "done"
  /\ cache' = With(cache, <<ref.name, load.policies.version>>, Entry)
  /\ Reply(Entry, FALSE) /\ EndCheck
  /\ UNCHANGED <<caller, current, rooted, count, testerVars>>

-----------------------------------------------------------------------------
(* pkg/policy: a document is a sequence of objects.                         *)

\* Parse: every object has to decode, with an apiVersion and a name.
Parses(d) == \A n \in DOMAIN d : d[n].form = "ok"

IsCIP(o) == o.kind \in {"v1alpha1", "v1beta1"}

\* Validate, with validate: strict decoding, defaults, validation.
Validates(d) ==
  /\ d # <<>> /\ Parses(d)
  /\ \A n \in DOMAIN d :
       \/ IsCIP(d[n]) /\ d[n].valid \in {"ok", "warn"}
       \/ d[n].kind = "Secret" /\ d[n].valid = "ok"

\* ParseClusterImagePolicies: where the policies of a valid document are, and
\* whether it returns warnings, which are those of the last policy alone.
CIPs(d) == {n \in DOMAIN d : IsCIP(d[n])}
Warns(d) == \E n \in CIPs(d) : d[n].valid = "warn" /\ \A m \in CIPs(d) : m <= n

\* gather: the first of a name; one that does not survive the round trip is left
\* out with a warning, and leaves its name to the next.
Compiled(d) == {n \in CIPs(d) : d[n].compiles}
First(d, name) ==
  CHOOSE n \in Compiled(d) : d[n].name = name /\ \A m \in Compiled(d) : d[m].name = name => n <= m
Gathered(d) == [name \in {d[n].name : n \in Compiled(d)} |-> d[First(d, name)]]
LeftOut(d, n) == ~d[n].compiles \/ \E m \in Compiled(d) : m < n /\ d[m].name = d[n].name
GatherWarnings(d) ==
  (IF Warns(d) THEN {"validation"} ELSE {}) \cup {d[n].name : n \in {m \in CIPs(d) : LeftOut(d, m)}}

-----------------------------------------------------------------------------
(* glob.Match and GetMatchingPolicies.                                      *)

Normalized(glob) ==
  CASE glob = "*" -> "index.docker.io/library/*" [] glob = "*/*" -> "index.docker.io/*/*" [] OTHER -> glob

\* An invalid glob, which is an error, has no regular expression.
Compiles(glob) == Normalized(glob) \in DOMAIN Regexps
FullName(text) == (CHOOSE r \in Refs : r.text = text \/ r.name = text).name
Match(glob, text) ==
  LET hits == Regexps[Normalized(glob)]
  IN FullName(text) \in hits \/ (FullName(text) # text /\ text \in hits)

\* One criterion of a policy's match; labels is None for a selector that does not parse.
Fits(c, res) == c.resource = res.resource /\ c.version \in {res.version, "*"} /\ c.group = res.group
Applies(c, res) == Fits(c, res) /\ c.labels # None /\ c.labels \subseteq res.labels

Nothing == [resource |-> "", group |-> "", version |-> "", labels |-> {}]
Considered(o, res) == o.match = <<>> \/ \E c \in DOMAIN o.match : Applies(o.match[c], res)

\* The loop gets to a selector that does not parse.
WrongSelector(o, res) ==
  \E c \in DOMAIN o.match :
    /\ Fits(o.match[c], res) /\ o.match[c].labels = None
    /\ \A d \in 1..c - 1 : ~Applies(o.match[d], res)

MatchError(policies, res) ==
  \E n \in DOMAIN policies :
    \/ WrongSelector(policies[n], res)
    \/ Considered(policies[n], res) /\ \E g \in policies[n].globs : ~Compiles(g)
GetMatchingPolicies(policies, image, res) ==
  {n \in DOMAIN policies : Considered(policies[n], res) /\ \E g \in policies[n].globs : Match(g, image)}

-----------------------------------------------------------------------------
(* The tester.                                                              *)

Exit(c) == at' = "exit" /\ code' = c
Stay == UNCHANGED <<checkVars, caller, webhookVars, flag>>

\* External: the file or what the URL serves changes, also between two reads.
Change ==
  /\ caller = "tester" /\ at \in {"start", "valid", "compile"}
  /\ doc' \in Documents \ {doc}
  /\ UNCHANGED <<ref, at, ipc, ww, todo, seen, resource, code>> /\ Stay

\* Verification.Validate, in main and again in Compile; each reads the source.
ValidateSource ==
  /\ caller = "tester" /\ at \in {"start", "valid"}
  /\ \/ Validates(doc) /\ at' = (IF at = "start" THEN "valid" ELSE "compile") /\ UNCHANGED code
     \/ ~Validates(doc) /\ Exit(1)
  /\ UNCHANGED <<ref, doc, ipc, ww, todo, seen, resource>> /\ Stay

\* gather: the source is read a third time.
GatherPolicies ==
  /\ caller = "tester" /\ at = "compile"
  /\ IF Validates(doc) THEN at' = "match" /\ ipc' = Gathered(doc) /\ ww' = GatherWarnings(doc) /\ UNCHANGED code
                       ELSE Exit(1) /\ UNCHANGED <<ipc, ww>>
  /\ UNCHANGED <<ref, doc, todo, seen, resource>> /\ Stay

\* main reads the resource and the TrustRoot, or fails to; Verify then finds the
\* policies that match.  The tester denies what none of them covers; other callers of
\* Compile choose.
FindPolicies(r, res, noMatch) ==
  LET matches == GetMatchingPolicies(ipc, r.name, IF res = None THEN Nothing ELSE res) IN
  /\ caller = "tester" /\ at = "match"
  /\ resource' = res
  /\ CASE MatchError(ipc, IF res = None THEN Nothing ELSE res) -> Exit(1) /\ UNCHANGED <<ref, todo, ww>>
       [] ~MatchError(ipc, IF res = None THEN Nothing ELSE res) /\ matches = {} ->
            /\ Exit(IF noMatch = "deny" THEN 1 ELSE 0)
            /\ ww' = IF noMatch = "warn" THEN ww \cup {"uncovered"} ELSE ww
            /\ UNCHANGED <<ref, todo>>
       [] OTHER -> at' = "verify" /\ ref' = r /\ todo' = matches /\ UNCHANGED <<code, ww>>
  /\ UNCHANGED <<doc, ipc, seen>> /\ Stay

BadInput ==
  /\ caller = "tester" /\ at = "match" /\ Exit(1)
  /\ UNCHANGED <<ref, doc, ipc, ww, todo, seen, resource>> /\ Stay

\* The loop over the matching policies, in any order.
VerifyPolicy(n) ==
  /\ caller = "tester" /\ at = "verify" /\ n \in todo
  /\ \E ev \in Evidence : BeginCheck(ipc[n].policy, ev, flag)
  /\ todo' = todo \ {n} /\ seen' = seen \cup {<<n, None>>}
  /\ UNCHANGED <<caller, ref, webhookVars, doc, at, ipc, ww, flag, resource, code>>

Current == CHOOSE n \in DOMAIN ipc : <<n, None>> \in seen

\* Mutant of Verified: a policy without a result is passed over.
VerifiedAny ==
  /\ caller = "tester" /\ stage = "done"
  /\ seen' = (seen \ {<<Current, None>>}) \cup {<<Current, result>>}
  /\ IF result.errs = {"error"} THEN Exit(1) ELSE UNCHANGED <<at, code>>
  /\ UNCHANGED ww
  /\ EndCheck /\ UNCHANGED <<caller, ref, webhookVars, doc, ipc, todo, flag, resource>>

\* A result passes the policy, its errors do not matter then; a warning is written,
\* and any other error ends the loop.
Verified ==
  /\ caller = "tester" /\ stage = "done"
  /\ seen' = (seen \ {<<Current, None>>}) \cup {<<Current, result>>}
  /\ IF result.ok \/ result.errs = {"warning"} THEN UNCHANGED <<at, code>> ELSE Exit(1)
  /\ ww' = IF ~result.ok /\ result.errs = {"warning"} THEN ww \cup {Current} ELSE ww
  /\ EndCheck /\ UNCHANGED <<caller, ref, webhookVars, doc, ipc, todo, flag, resource>>

Succeeded ==
  /\ caller = "tester" /\ at = "verify" /\ stage = "idle" /\ todo = {} /\ Exit(0)
  /\ UNCHANGED <<ref, doc, ipc, ww, todo, seen, resource>> /\ Stay

-----------------------------------------------------------------------------
Others == UNCHANGED <<caller, ref, webhookVars, testerVars>>

Step ==
  \/ CheckStep /\ Others
  \/ LoadRest \/ Get \/ Check \/ Set
  \/ ValidateSource \/ GatherPolicies \/ BadInput \/ Verified \/ Succeeded
  \/ \E r \in Refs, res \in Resources \cup {None}, noMatch \in {"allow", "warn", "deny"} : FindPolicies(r, res, noMatch)
  \/ \E n \in todo : VerifyPolicy(n)

Fetch == (\E m \in pending : FetchConfig(m)) /\ Others

Next ==
  \/ Step \/ Fetch
  \/ Cancel /\ caller = "webhook" /\ Others
  \/ PublishRoot \/ Edit \/ Change
  \/ \E r \in Refs : LoadPolicies(r)

Spec == Init /\ [][Next]_vars

\* Both callers and the goroutines of getConfigs run; a fetch ends at the latest with
\* an error.
FairSpec == Spec /\ WF_vars(Step) /\ WF_vars(Fetch)

-----------------------------------------------------------------------------
(* Properties.                                                              *)

\* Store.Load reads its two parts one after the other while both change.  A request
\* whose policy names a TrustRoot still has the keys of that TrustRoot, if it was
\* published first: the policies are loaded before the keys.
RootIsLoaded == Loaded => (load.policies.policy.root => load.keys)

\* An answer from the cache is the result of this very policy, in the version the
\* request loaded, for the image it asks about, whatever was edited meanwhile; only
\* a reference written in full finds it, since Get takes the text and Set the name.
HitIsRight ==
  (answer # None /\ answer.hit) =>
    /\ answer.entry.policy = answer.policy
    /\ answer.entry.name = answer.ref.name
    /\ answer.ref.text = answer.ref.name

\* When the tester succeeds, every policy that matches the image was passed, or is in
\* warn mode and was written about; and a policy of the document is missing among
\* them only with a warning.  What was checked with was valid when it was compiled,
\* though the source is read three times and may change between the reads.
SuccessCovers ==
  (code = 0 /\ ref # None) =>
    LET res == IF resource = None THEN Nothing ELSE resource IN
    /\ \A n \in DOMAIN ipc : ipc[n].name = n /\ ipc[n].valid \in {"ok", "warn"} /\ ipc[n].compiles
    /\ \A n \in GetMatchingPolicies(ipc, ref.name, res) :
         \E x \in seen : x[1] = n /\ (x[2].ok \/ (ipc[n].policy.mode = "warn" /\ n \in ww))
    /\ \A n \in CIPs(doc) : (\E x \in DOMAIN ipc : ipc[x] = doc[n]) \/ doc[n].name \in ww

\* The request is answered and the tester exits: no loop runs for ever or waits for a
\* goroutine that was not started.
Answered ==
  /\ (caller = "webhook" /\ ref # None) ~> (ref = None)
  /\ caller = "tester" ~> code # None
=============================================================================
