------------------------ MODULE PolicyCallersProofs -------------------------
(***************************************************************************)
(* What a match of an authority, a complete set of config files, a loaded  *)
(* request, a cached result and exit code 0 of the tester mean, for all    *)
(* policies, answers of the registry, references, documents, edits and     *)
(* requests.                                                               *)
(***************************************************************************)
EXTENDS PolicyCallers, PolicyCheckProofs

-----------------------------------------------------------------------------
(* The inductive invariant.                                                 *)

\* The webhook.  A version of the policy has one content: the one that is current, the
\* one a request holds and those in the cache agree wherever they have equal versions.
Snapshots == [version : Nat, policy : Policies]
Older(s, t) == s.version <= t.version /\ (s.version = t.version => s.policy = t.policy)

StoreInv ==
  caller = "webhook" =>
    /\ current \in Snapshots /\ rooted \in BOOLEAN /\ (current.policy.root => rooted)
    /\ ref \in Refs \cup {None} /\ code = None
    /\ ref = None => load = NotLoaded
    /\ ref # None => /\ load.policies \in Snapshots /\ Older(load.policies, current)
                     /\ load.policies.policy.root => rooted
                     /\ load.keys # None => (load.policies.policy.root => load.keys)
    /\ stage # "idle" => ref # None /\ policy = load.policies.policy

CachedFor(k, r) ==
  /\ k = <<r.name, k[2]>> /\ k[2] \in Nat /\ cache[k].name = r.name
  /\ Older([version |-> k[2], policy |-> cache[k].policy], current)
  /\ ref # None /\ load.policies.version = k[2] => cache[k].policy = load.policies.policy

CacheInv == caller = "webhook" => \A k \in DOMAIN cache : \E r \in Refs : CachedFor(k, r)

\* The tester.
Used == IF resource = None THEN Nothing ELSE resource
Passed(x) == x[2].ok \/ (ipc[x[1]].policy.mode = "warn" /\ x[1] \in ww)

TesterInv ==
  caller = "tester" =>
    /\ doc \in Documents /\ load = NotLoaded /\ answer = None
    /\ at \in {"start", "valid", "compile", "match", "verify", "exit"}
    /\ at \notin {"verify", "exit"} => ref = None
    /\ at # "exit" => code = None
    /\ at \in {"start", "valid", "compile", "match"} => todo = {} /\ seen = {}
    /\ stage # "idle" => at = "verify"
    /\ at \in {"match", "verify"} \/ (code = 0 /\ ref # None) =>
         ipc = Gathered(doc) /\ GatherWarnings(doc) \subseteq ww /\ Validates(doc)

SeenInv ==
  caller = "tester" /\ at = "verify" =>
    /\ todo \subseteq DOMAIN ipc
    /\ \A x \in seen : x[1] \in DOMAIN ipc /\ x = <<x[1], x[2]>>
    /\ \A x \in seen : x[2] # None => Passed(x)
    /\ \A n \in GetMatchingPolicies(ipc, ref.name, Used) : n \in todo \/ \E x \in seen : x[1] = n
    /\ stage = "idle" => \A x \in seen : x[2] # None
    /\ stage # "idle" =>
         \E n \in DOMAIN ipc : /\ <<n, None>> \in seen /\ policy = ipc[n].policy
                               /\ \A x \in seen : x[2] = None => x[1] = n

CallersInv ==
  /\ caller \in {"webhook", "tester"}
  /\ CheckInv /\ StoreInv /\ CacheInv /\ HitIsRight
  /\ TesterInv /\ SeenInv /\ SuccessCovers

-----------------------------------------------------------------------------
(* The webhook.                                                             *)

WebhookInv == StoreInv /\ CacheInv /\ HitIsRight

\* Nothing of the webhook changes but the stage of ValidatePolicy.
LEMMA WebhookQuiet ==
  ASSUME WebhookInv, UNCHANGED <<caller, ref, webhookVars>>, caller = "webhook" => code' = code,
         stage' # "idle" => stage # "idle" /\ policy' = policy
  PROVE  WebhookInv'
  <1>1. /\ caller' = caller /\ ref' = ref /\ current' = current /\ rooted' = rooted
        /\ load' = load /\ cache' = cache /\ answer' = answer
    BY DEF webhookVars
  <1>2. StoreInv'
    BY <1>1 DEF WebhookInv, StoreInv
  <1>3. CacheInv'
    BY <1>1 DEF WebhookInv, CacheInv, CachedFor
  <1>4. HitIsRight'
    BY <1>1 DEF WebhookInv, HitIsRight
  <1> QED BY <1>2, <1>3, <1>4 DEF WebhookInv

\* The TrustRoot is published.
LEMMA PublishKeeps ==
  ASSUME WebhookInv, PublishRoot
  PROVE  WebhookInv'
  <1>1. /\ caller = "webhook" /\ caller' = caller /\ ref' = ref /\ current' = current /\ rooted' = TRUE
        /\ load' = load /\ cache' = cache /\ answer' = answer /\ code' = code
        /\ stage' = stage /\ policy' = policy
    BY DEF PublishRoot, testerVars, checkVars, inputVars
  <1>2. StoreInv'
    BY <1>1 DEF WebhookInv, StoreInv
  <1>3. CacheInv'
    BY <1>1 DEF WebhookInv, CacheInv, CachedFor
  <1>4. HitIsRight'
    BY <1>1 DEF WebhookInv, HitIsRight
  <1> QED BY <1>2, <1>3, <1>4 DEF WebhookInv

\* An edit has a version that no request and no cached result has.
LEMMA EditKeeps ==
  ASSUME WebhookInv, Edit
  PROVE  WebhookInv'
  <1>1. /\ caller = "webhook" /\ caller' = caller /\ ref' = ref /\ rooted' = rooted
        /\ load' = load /\ cache' = cache /\ answer' = answer /\ code' = code
        /\ stage' = stage /\ policy' = policy
    BY DEF Edit, testerVars, checkVars, inputVars
  <1>2. PICK p \in Policies : (p.root => rooted) /\ current' = [version |-> current.version + 1, policy |-> p]
    BY DEF Edit
  <1>3. current \in Snapshots
    BY <1>1 DEF WebhookInv, StoreInv
  <1>4. /\ current.version \in Nat /\ current'.version = current.version + 1 /\ current'.policy = p
        /\ current' \in Snapshots
    BY <1>2, <1>3 DEF Snapshots
  <1>5. \A s : s.version \in Nat /\ Older(s, current) => Older(s, current')
    BY <1>4 DEF Older
  <1>6. StoreInv'
    <2>1. ref # None => load.policies \in Snapshots /\ Older(load.policies, current)
      BY <1>1 DEF WebhookInv, StoreInv
    <2>2. ref # None => Older(load.policies, current')
      BY <1>5, <2>1 DEF Snapshots
    <2> QED BY <1>1, <1>2, <1>4, <2>2 DEF WebhookInv, StoreInv
  <1>7. CacheInv'
    <2>1. ASSUME NEW k \in DOMAIN cache', NEW r \in Refs, CachedFor(k, r)
          PROVE  CachedFor(k, r)'
      <3> DEFINE s == [version |-> k[2], policy |-> cache[k].policy]
      <3>1. s.version \in Nat /\ Older(s, current)
        BY <2>1 DEF CachedFor
      <3>2. Older(s, current')
        BY <1>5, <3>1
      <3> QED BY <1>1, <2>1, <3>2 DEF CachedFor
    <2> QED BY <1>1, <2>1 DEF WebhookInv, CacheInv
  <1>8. HitIsRight'
    BY <1>1 DEF WebhookInv, HitIsRight
  <1> QED BY <1>6, <1>7, <1>8 DEF WebhookInv

\* A request begins with the policies of the moment.
LEMMA LoadPoliciesKeeps ==
  ASSUME WebhookInv, NEW r \in Refs, LoadPolicies(r)
  PROVE  WebhookInv'
  <1>1. /\ caller = "webhook" /\ caller' = caller /\ ref = None /\ ref' = r /\ rooted' = rooted
        /\ load' = [policies |-> current, keys |-> None] /\ current' = current
        /\ cache' = cache /\ answer' = answer /\ code' = code
        /\ stage' = stage /\ policy' = policy
    BY DEF LoadPolicies, testerVars, checkVars, inputVars
  <1>2. current \in Snapshots /\ stage = "idle" /\ r # None
    BY <1>1, NoneAssumption DEF WebhookInv, StoreInv
  <1>3. load'.policies = current /\ load'.keys = None
    BY <1>1
  <1>4. Older(current, current)
    BY <1>2 DEF Older, Snapshots
  <1>5. StoreInv'
    BY <1>1, <1>2, <1>3, <1>4 DEF WebhookInv, StoreInv
  <1>6. CacheInv'
    <2>1. ASSUME NEW k \in DOMAIN cache', NEW s \in Refs, CachedFor(k, s)
          PROVE  CachedFor(k, s)'
      BY <1>1, <1>3, <2>1 DEF CachedFor, Older
    <2> QED BY <1>1, <2>1 DEF WebhookInv, CacheInv
  <1>7. HitIsRight'
    BY <1>1 DEF WebhookInv, HitIsRight
  <1> QED BY <1>5, <1>6, <1>7 DEF WebhookInv

\* The keys are loaded after the policies.
LEMMA LoadRestKeeps ==
  ASSUME WebhookInv, LoadRest
  PROVE  WebhookInv'
  <1>1. /\ caller = "webhook" /\ caller' = caller /\ ref # None /\ ref' = ref /\ rooted' = rooted
        /\ load' = [policies |-> IF load.policies = None THEN current ELSE load.policies,
                    keys |-> IF load.keys = None THEN rooted ELSE load.keys]
        /\ current' = current /\ cache' = cache /\ answer' = answer /\ code' = code
        /\ stage' = stage /\ policy' = policy
    BY DEF LoadRest, testerVars, checkVars, inputVars
  <1>2. load.policies \in Snapshots /\ load.policies # None
    BY <1>1, NoneAssumption DEF WebhookInv, StoreInv, Snapshots
  <1>3. load'.policies = load.policies /\ (load'.keys = rooted \/ (load.keys # None /\ load'.keys = load.keys))
    BY <1>1, <1>2
  <1>4. StoreInv'
    BY <1>1, <1>2, <1>3 DEF WebhookInv, StoreInv
  <1>5. CacheInv'
    BY <1>1, <1>3 DEF WebhookInv, CacheInv, CachedFor
  <1>6. HitIsRight'
    BY <1>1 DEF WebhookInv, HitIsRight
  <1> QED BY <1>4, <1>5, <1>6 DEF WebhookInv

\* There is no hit, and ValidatePolicy runs.
LEMMA CheckKeeps ==
  ASSUME CheckInv, WebhookInv, Check
  PROVE  CheckInv' /\ WebhookInv'
  <1>1. /\ caller = "webhook" /\ Loaded /\ caller' = caller /\ ref' = ref
        /\ UNCHANGED webhookVars /\ code' = code
    BY DEF Check, testerVars
  <1>2. PICK ev \in Evidence, oci \in BOOLEAN : BeginCheck(load.policies.policy, ev, oci)
    BY DEF Check
  <1>3. ref # None /\ load.policies \in Snapshots
    BY <1>1 DEF WebhookInv, StoreInv, Loaded
  <1>4. WellFormed(load.policies.policy)
    BY <1>3, PoliciesAssumption DEF Snapshots
  <1>5. CheckInv' /\ policy' = load.policies.policy
    BY <1>2, <1>4, BeginKeeps
  <1>6. current' = current /\ rooted' = rooted /\ load' = load /\ cache' = cache /\ answer' = answer
    BY <1>1 DEF webhookVars
  <1>7. StoreInv'
    BY <1>1, <1>3, <1>5, <1>6 DEF WebhookInv, StoreInv
  <1>8. CacheInv'
    BY <1>1, <1>6 DEF WebhookInv, CacheInv, CachedFor
  <1>9. HitIsRight'
    BY <1>6 DEF WebhookInv, HitIsRight
  <1> QED BY <1>5, <1>7, <1>8, <1>9 DEF WebhookInv

\* A hit is an entry of the version the request holds, and of the name it is written
\* with: setting it once more changes nothing.
LEMMA GetKeeps ==
  ASSUME WebhookInv, Get
  PROVE  WebhookInv'
  <1> DEFINE v == load.policies.version
             key == <<ref.text, v>>
  <1>1. /\ caller = "webhook" /\ Loaded /\ stage = "idle" /\ key \in DOMAIN cache
        /\ cache' = With(cache, <<ref.name, v>>, cache[key])
        /\ answer' = [ref |-> ref, policy |-> load.policies.policy, entry |-> cache[key], hit |-> TRUE]
        /\ ref' = None /\ load' = NotLoaded
        /\ caller' = caller /\ current' = current /\ rooted' = rooted /\ code' = code
        /\ stage' = stage /\ policy' = policy
    BY DEF Get, Reply, testerVars, checkVars, inputVars
  <1>2. ref \in Refs /\ ref # None
    BY <1>1 DEF WebhookInv, StoreInv, Loaded
  <1>3. PICK s \in Refs : CachedFor(key, s)
    BY <1>1 DEF WebhookInv, CacheInv
  <1>4. /\ ref.text = s.name /\ cache[key].name = s.name
        /\ cache[key].policy = load.policies.policy
    BY <1>2, <1>3 DEF CachedFor
  <1>5. ref.name = ref.text
    BY <1>2, <1>4, RefsAssumption
  <1>6. DOMAIN cache' = DOMAIN cache /\ \A k \in DOMAIN cache : cache'[k] = cache[k]
    BY <1>1, <1>5 DEF With
  <1>7. StoreInv'
    BY <1>1 DEF WebhookInv, StoreInv
  <1>8. CacheInv'
    <2>1. ASSUME NEW k \in DOMAIN cache, NEW r \in Refs, CachedFor(k, r)
          PROVE  CachedFor(k, r)'
      BY <1>1, <1>6, <2>1 DEF CachedFor
    <2> QED BY <1>1, <1>6, <2>1 DEF WebhookInv, CacheInv
  <1>9. HitIsRight'
    BY <1>1, <1>4, <1>5 DEF HitIsRight
  <1> QED BY <1>7, <1>8, <1>9 DEF WebhookInv

\* A result is kept for the policy it was computed for, under its version.
LEMMA SetKeeps ==
  ASSUME WebhookInv, Set
  PROVE  CheckInv' /\ WebhookInv'
  <1> DEFINE v == load.policies.version
             key == <<ref.name, v>>
  <1>1. /\ caller = "webhook" /\ stage = "done" /\ cache' = With(cache, key, Entry)
        /\ answer' = [ref |-> ref, policy |-> load.policies.policy, entry |-> Entry, hit |-> FALSE]
        /\ ref' = None /\ load' = NotLoaded /\ EndCheck
        /\ caller' = caller /\ current' = current /\ rooted' = rooted /\ code' = code
    BY DEF Set, Reply, testerVars
  <1>2. CheckInv' /\ stage' = "idle"
    BY <1>1, EndKeeps
  <1>3. /\ ref \in Refs /\ load.policies \in Snapshots /\ Older(load.policies, current)
        /\ policy = load.policies.policy
    BY <1>1 DEF WebhookInv, StoreInv
  <1>4. /\ key \in DOMAIN cache' /\ cache'[key] = Entry
        /\ DOMAIN cache' = DOMAIN cache \cup {key}
        /\ \A k \in DOMAIN cache : k # key => cache'[k] = cache[k]
    BY <1>1 DEF With
  <1>5. StoreInv'
    BY <1>1, <1>2 DEF WebhookInv, StoreInv
  <1>6. ASSUME NEW k, k = key, NEW r \in Refs, r = ref
        PROVE  CachedFor(k, r)'
    <2>1. cache'[k] = Entry
      BY <1>4, <1>6
    <2>2. Entry.name = r.name /\ Entry.policy = load.policies.policy
      BY <1>3, <1>6 DEF Entry
    <2>3. v \in Nat /\ Older([version |-> v, policy |-> load.policies.policy], current)
      BY <1>3 DEF Older, Snapshots
    <2> QED BY <1>1, <1>6, <2>1, <2>2, <2>3 DEF CachedFor
  <1>7. CacheInv'
    <2>1. ASSUME NEW k \in DOMAIN cache, k # key, NEW r \in Refs, CachedFor(k, r)
          PROVE  CachedFor(k, r)'
      BY <1>1, <1>4, <2>1 DEF CachedFor
    <2>2. ASSUME NEW k \in DOMAIN cache'
          PROVE  \E r \in Refs : CachedFor(k, r)'
      <3>1. CASE k = key
        BY <1>3, <1>6, <3>1
      <3>2. CASE k # key
        <4>1. k \in DOMAIN cache
          BY <1>4, <3>2
        <4> QED BY <1>1, <2>1, <3>2, <4>1 DEF WebhookInv, CacheInv
      <3> QED BY <3>1, <3>2
    <2> QED BY <2>2 DEF CacheInv
  <1>8. HitIsRight'
    BY <1>1 DEF HitIsRight
  <1> QED BY <1>2, <1>5, <1>7, <1>8 DEF WebhookInv

-----------------------------------------------------------------------------
(* The tester.                                                              *)

TesterSide == TesterInv /\ SeenInv /\ SuccessCovers

\* The webhook has no exit code.
LEMMA TesterElsewhere ==
  ASSUME StoreInv', caller' = "webhook"
  PROVE  TesterSide'
  <1>1. code' = None
    BY DEF StoreInv
  <1> QED BY <1>1, NoneAssumption DEF TesterSide, TesterInv, SeenInv, SuccessCovers

\* The tester has no stores.
LEMMA WebhookElsewhere ==
  ASSUME HitIsRight, caller' = "tester", answer' = answer
  PROVE  WebhookInv'
  BY DEF WebhookInv, StoreInv, CacheInv, HitIsRight

\* Nothing of the tester changes but the stage of ValidatePolicy.
LEMMA TesterQuiet ==
  ASSUME TesterSide, UNCHANGED <<caller, ref, webhookVars, testerVars>>,
         stage' = "idle" <=> stage = "idle", stage # "idle" => policy' = policy
  PROVE  TesterSide'
  <1>1. /\ caller' = caller /\ ref' = ref /\ load' = load /\ answer' = answer
        /\ doc' = doc /\ at' = at /\ ipc' = ipc /\ ww' = ww /\ todo' = todo /\ seen' = seen
        /\ resource' = resource /\ code' = code
    BY DEF webhookVars, testerVars
  <1>2. TesterInv'
    BY <1>1 DEF TesterSide, TesterInv
  <1>3. Used' = Used /\ \A x : Passed(x)' = Passed(x)
    BY <1>1 DEF Used, Passed
  <1>4. SeenInv'
    BY <1>1, <1>3 DEF TesterSide, SeenInv
  <1>5. SuccessCovers'
    BY <1>1 DEF TesterSide, SuccessCovers
  <1> QED BY <1>2, <1>4, <1>5 DEF TesterSide

\* Before the tester verifies, nothing runs and there is no reference.
LEMMA BeforeVerify ==
  ASSUME TesterSide, caller = "tester", at \in {"start", "valid", "compile", "match"}
  PROVE  /\ stage = "idle" /\ ref = None /\ code = None /\ todo = {} /\ seen = {}
         /\ doc \in Documents /\ load = NotLoaded /\ answer = None
  BY DEF TesterSide, TesterInv

\* A tester that fails covers nothing, and one without a reference has nothing to cover.
LEMMA NothingCovered ==
  ASSUME code' # 0 \/ ref' = None
  PROVE  SuccessCovers'
  BY DEF SuccessCovers

\* The source changes, or is read and validated.
LEMMA SourceKeeps ==
  ASSUME TesterSide, Change \/ ValidateSource \/ BadInput
  PROVE  TesterSide'
  <1>1. /\ caller = "tester" /\ caller' = caller /\ at \in {"start", "valid", "compile", "match"}
        /\ ref' = ref /\ load' = load /\ answer' = answer /\ stage' = stage
        /\ todo' = todo /\ seen' = seen /\ ipc' = ipc /\ ww' = ww
    BY DEF Change, ValidateSource, BadInput, Stay, checkVars, webhookVars
  <1>2. /\ stage = "idle" /\ ref = None /\ code = None /\ todo = {} /\ seen = {}
        /\ doc \in Documents /\ load = NotLoaded /\ answer = None
    BY <1>1, BeforeVerify DEF TesterSide
  <1>3. /\ doc' \in Documents
        /\ \/ at' = "exit" /\ code' = 1
           \/ at' \in {"start", "valid", "compile"} /\ code' = code
    BY <1>1, <1>2 DEF Change, ValidateSource, BadInput, Exit
  <1>4. TesterInv'
    BY <1>1, <1>2, <1>3 DEF TesterInv
  <1>5. SeenInv'
    BY <1>3 DEF SeenInv
  <1>6. SuccessCovers'
    BY <1>1, <1>2, NothingCovered
  <1> QED BY <1>4, <1>5, <1>6 DEF TesterSide

\* The policies are gathered from what was validated.
LEMMA GatherKeeps ==
  ASSUME TesterSide, GatherPolicies
  PROVE  TesterSide'
  <1>1. /\ caller = "tester" /\ caller' = caller /\ at = "compile" /\ doc' = doc
        /\ ref' = ref /\ load' = load /\ answer' = answer /\ stage' = stage
        /\ todo' = todo /\ seen' = seen
    BY DEF GatherPolicies, Stay, checkVars, webhookVars
  <1>2. /\ stage = "idle" /\ ref = None /\ code = None /\ todo = {} /\ seen = {}
        /\ doc \in Documents /\ load = NotLoaded /\ answer = None
    BY <1>1, BeforeVerify DEF TesterSide
  <1>3. \/ /\ Validates(doc) /\ at' = "match" /\ ipc' = Gathered(doc) /\ ww' = GatherWarnings(doc)
           /\ code' = code
        \/ at' = "exit" /\ code' = 1
    BY DEF GatherPolicies, Exit
  <1>4. TesterInv'
    BY <1>1, <1>2, <1>3 DEF TesterInv
  <1>5. SeenInv'
    BY <1>3 DEF SeenInv
  <1>6. SuccessCovers'
    BY <1>1, <1>2, NothingCovered
  <1> QED BY <1>4, <1>5, <1>6 DEF TesterSide

\* The policies that match are the ones to check.
LEMMA FindKeeps ==
  ASSUME TesterSide, NEW r, NEW res, NEW noMatch, FindPolicies(r, res, noMatch)
  PROVE  TesterSide'
  <1> DEFINE matches == GetMatchingPolicies(ipc, r.name, IF res = None THEN Nothing ELSE res)
  <1>1. /\ caller = "tester" /\ caller' = caller /\ at = "match" /\ doc' = doc /\ ipc' = ipc
        /\ load' = load /\ answer' = answer /\ stage' = stage /\ seen' = seen /\ resource' = res
    BY DEF FindPolicies, Stay, checkVars, webhookVars
  <1>2. /\ stage = "idle" /\ ref = None /\ code = None /\ todo = {} /\ seen = {}
        /\ doc \in Documents /\ load = NotLoaded /\ answer = None
    BY <1>1, BeforeVerify DEF TesterSide
  <1>3. ipc = Gathered(doc) /\ GatherWarnings(doc) \subseteq ww /\ Validates(doc)
    BY <1>1 DEF TesterSide, TesterInv
  <1>4. \/ at' = "exit" /\ ref' = ref /\ todo' = todo
        \/ at' = "verify" /\ ref' = r /\ todo' = matches /\ code' = code /\ ww' = ww
    BY DEF FindPolicies, Exit
  <1>5. CASE at' = "exit" /\ ref' = ref /\ todo' = todo
    <2>1. TesterInv'
      BY <1>1, <1>2, <1>5 DEF TesterInv
    <2>2. SeenInv' /\ SuccessCovers'
      BY <1>2, <1>5, NothingCovered DEF SeenInv
    <2> QED BY <2>1, <2>2 DEF TesterSide
  <1>6. CASE at' = "verify" /\ ref' = r /\ todo' = matches /\ code' = code /\ ww' = ww
    <2>1. TesterInv'
      BY <1>1, <1>2, <1>3, <1>6 DEF TesterInv
    <2>2. matches = GetMatchingPolicies(ipc, ref.name, Used)' /\ matches \subseteq DOMAIN ipc'
      BY <1>1, <1>6 DEF Used, GetMatchingPolicies, Considered, Applies, Fits, Match, FullName, Normalized
    <2>3. SeenInv'
      BY <1>1, <1>2, <1>6, <2>2 DEF SeenInv
    <2>4. SuccessCovers'
      BY <1>2, <1>6, NoneAssumption, NothingCovered
    <2> QED BY <2>1, <2>3, <2>4 DEF TesterSide
  <1> QED BY <1>4, <1>5, <1>6

\* A policy that was checked has passed, or warns and is written about, or ends it all.
LEMMA VerifiedKeeps ==
  ASSUME CheckInv, TesterSide, Verified
  PROVE  CheckInv' /\ TesterSide'
  <1> DEFINE c == Current
             new == <<c, result>>
  <1>1. /\ caller = "tester" /\ caller' = caller /\ stage = "done" /\ doc' = doc /\ ipc' = ipc
        /\ ref' = ref /\ load' = load /\ answer' = answer /\ resource' = resource
        /\ todo' = todo /\ seen' = (seen \ {<<c, None>>}) \cup {new} /\ EndCheck
    BY DEF Verified, webhookVars
  <1>2. CheckInv' /\ stage' = "idle"
    BY <1>1, EndKeeps
  <1>3. at = "verify" /\ code = None
    BY <1>1 DEF TesterSide, TesterInv
  <1>4. result \in Results /\ result # None /\ (result.errs = {"warning"} => policy.mode = "warn")
    BY <1>1, NoResultAssumption DEF CheckInv, Staged
  <1>5. PICK n \in DOMAIN ipc : /\ <<n, None>> \in seen /\ policy = ipc[n].policy
                                /\ \A x \in seen : x[2] = None => x[1] = n
    BY <1>1, <1>3 DEF TesterSide, SeenInv
  <1>6. c = n
    <2>1. \A m : <<m, None>> \in seen => m = n
      <3>1. \A m : <<m, None>>[1] = m /\ <<m, None>>[2] = None
        OBVIOUS
      <3> QED BY <1>5, <3>1
    <2> QED BY <1>5, <2>1 DEF Current
  <1>7. new[1] = n /\ new[2] = result /\ new = <<new[1], new[2]>>
    BY <1>6
  <1>8. CASE ~(result.ok \/ result.errs = {"warning"})
    <2>1. at' = "exit" /\ code' = 1
      BY <1>8 DEF Verified, Exit
    <2>2. TesterInv'
      BY <1>1, <1>2, <2>1 DEF TesterSide, TesterInv
    <2>3. SeenInv' /\ SuccessCovers'
      BY <2>1, NothingCovered DEF SeenInv
    <2> QED BY <1>2, <2>2, <2>3 DEF TesterSide
  <1>9. CASE result.ok \/ result.errs = {"warning"}
    <2>1. at' = at /\ code' = code /\ ww \subseteq ww' /\ (~result.ok => n \in ww')
      BY <1>6, <1>9 DEF Verified
    <2>2. TesterInv'
      <3>1. doc \in Documents /\ ipc = Gathered(doc) /\ GatherWarnings(doc) \subseteq ww /\ Validates(doc)
        BY <1>1, <1>3 DEF TesterSide, TesterInv
      <3> QED BY <1>1, <1>2, <1>3, <2>1, <3>1 DEF TesterSide, TesterInv
    <2>3. Used' = Used /\ \A x : Passed(x) => Passed(x)'
      BY <1>1, <2>1 DEF Used, Passed
    <2>4. /\ todo \subseteq DOMAIN ipc
          /\ \A x \in seen : x[1] \in DOMAIN ipc /\ x = <<x[1], x[2]>>
          /\ \A x \in seen : x[2] # None => Passed(x)
          /\ \A m \in GetMatchingPolicies(ipc, ref.name, Used) : m \in todo \/ \E x \in seen : x[1] = m
      BY <1>1, <1>3 DEF TesterSide, SeenInv
    <2>5. ASSUME NEW x \in seen'
          PROVE  x[1] \in DOMAIN ipc' /\ x = <<x[1], x[2]>> /\ x[2] # None /\ Passed(x)'
      <3>1. CASE x = new
        <4>1. Passed(x)'
          BY <1>1, <1>4, <1>5, <1>7, <1>9, <2>1, <3>1 DEF Passed
        <4> QED BY <1>1, <1>4, <1>7, <3>1, <4>1
      <3>2. CASE x # new
        <4>1. x \in seen /\ x # <<n, None>>
          BY <1>1, <1>6, <3>2
        <4>2. x[2] # None
          BY <1>5, <2>4, <4>1
        <4> QED BY <1>1, <2>3, <2>4, <4>1, <4>2
      <3> QED BY <3>1, <3>2
    <2>6. ASSUME NEW m \in GetMatchingPolicies(ipc, ref.name, Used), m \notin todo
          PROVE  \E x \in seen' : x[1] = m
      <3>1. PICK x \in seen : x[1] = m
        BY <2>4, <2>6
      <3>2. CASE x = <<c, None>>
        BY <1>1, <1>6, <1>7, <3>1, <3>2, ZenonT(60)
      <3>3. CASE x # <<c, None>>
        BY <1>1, <3>1, <3>3
      <3> QED BY <3>2, <3>3
    <2>7. SeenInv'
      BY <1>1, <1>2, <2>3, <2>4, <2>5, <2>6 DEF SeenInv
    <2>8. SuccessCovers'
      BY <1>3, <2>1, NoneAssumption, NothingCovered
    <2> QED BY <1>2, <2>2, <2>7, <2>8 DEF TesterSide
  <1> QED BY <1>8, <1>9

\* gather takes the first policy of a name that compiles.
LEMMA FirstOfName ==
  ASSUME NEW d \in Documents, NEW name \in {d[n].name : n \in Compiled(d)}
  PROVE  /\ First(d, name) \in Compiled(d) /\ d[First(d, name)].name = name
         /\ \A m \in Compiled(d) : d[m].name = name => First(d, name) <= m
  <1> DEFINE K == {n \in Compiled(d) : d[n].name = name}
  <1>1. K \in SUBSET Nat /\ K # {}
    BY DocumentsAssumption DEF Compiled, CIPs
  <1>2. PICK k \in K : \A m \in K : k <= m
    BY <1>1, NatMin
  <1>3. k \in Compiled(d) /\ d[k].name = name /\ \A m \in Compiled(d) : d[m].name = name => k <= m
    BY <1>2
  <1> QED BY <1>3 DEF First

\* What gather returns of a valid document: valid policies that compile, by their names,
\* and a policy that is not among them has its name in a warning.
LEMMA GatherCovers ==
  ASSUME NEW d \in Documents, Validates(d)
  PROVE  /\ \A x \in DOMAIN Gathered(d) :
              /\ Gathered(d)[x].name = x /\ Gathered(d)[x].valid \in {"ok", "warn"}
              /\ Gathered(d)[x].compiles /\ WellFormed(Gathered(d)[x].policy)
         /\ \A n \in CIPs(d) : (\E x \in DOMAIN Gathered(d) : Gathered(d)[x] = d[n])
                               \/ d[n].name \in GatherWarnings(d)
  <1>1. /\ DOMAIN Gathered(d) = {d[n].name : n \in Compiled(d)}
        /\ \A x \in DOMAIN Gathered(d) : Gathered(d)[x] = d[First(d, x)]
    BY DEF Gathered
  <1>2. \A n \in Compiled(d) : n \in CIPs(d) /\ n \in DOMAIN d /\ IsCIP(d[n]) /\ d[n].compiles
    BY DEF Compiled, CIPs
  <1>3. ASSUME NEW x \in DOMAIN Gathered(d)
        PROVE  /\ Gathered(d)[x].name = x /\ Gathered(d)[x].valid \in {"ok", "warn"}
               /\ Gathered(d)[x].compiles /\ WellFormed(Gathered(d)[x].policy)
    <2> DEFINE f == First(d, x)
    <2>1. f \in Compiled(d) /\ d[f].name = x /\ Gathered(d)[x] = d[f]
      BY <1>1, FirstOfName
    <2>2. f \in DOMAIN d /\ IsCIP(d[f]) /\ d[f].compiles
      BY <1>2, <2>1
    <2>3. d[f].valid \in {"ok", "warn"}
      BY <2>2 DEF Validates, IsCIP
    <2>4. WellFormed(d[f].policy)
      BY <2>2, DocumentsAssumption
    <2> QED BY <2>1, <2>2, <2>3, <2>4
  <1>4. ASSUME NEW n \in CIPs(d), d[n].name \notin GatherWarnings(d)
        PROVE  \E x \in DOMAIN Gathered(d) : Gathered(d)[x] = d[n]
    <2>1. ~LeftOut(d, n)
      BY <1>4 DEF GatherWarnings
    <2>2. n \in Compiled(d) /\ \A m \in Compiled(d) : d[m].name = d[n].name => ~(m < n)
      BY <2>1 DEF LeftOut, Compiled
    <2>3. /\ First(d, d[n].name) \in Compiled(d) /\ d[First(d, d[n].name)].name = d[n].name
          /\ First(d, d[n].name) <= n
      BY <2>2, FirstOfName
    <2>4. \A m \in Compiled(d) : m \in Nat
      BY DocumentsAssumption DEF Compiled, CIPs
    <2>5. First(d, d[n].name) = n
      BY <2>2, <2>3, <2>4
    <2> QED BY <1>1, <2>2, <2>5
  <1> QED BY <1>3, <1>4

\* The next policy is checked.
LEMMA VerifyKeeps ==
  ASSUME CheckInv, TesterSide, NEW n \in todo, VerifyPolicy(n)
  PROVE  CheckInv' /\ TesterSide'
  <1>1. /\ caller = "tester" /\ caller' = caller /\ at = "verify" /\ at' = at /\ doc' = doc /\ ipc' = ipc
        /\ ref' = ref /\ load' = load /\ answer' = answer /\ ww' = ww /\ resource' = resource
        /\ code' = code /\ todo' = todo \ {n} /\ seen' = seen \cup {<<n, None>>}
    BY DEF VerifyPolicy, webhookVars
  <1>2. PICK ev \in Evidence : BeginCheck(ipc[n].policy, ev, flag)
    BY DEF VerifyPolicy
  <1>3. stage = "idle"
    BY <1>2 DEF BeginCheck
  <1>4. doc \in Documents /\ ipc = Gathered(doc) /\ Validates(doc) /\ n \in DOMAIN ipc
    BY <1>1 DEF TesterSide, TesterInv, SeenInv
  <1>5. WellFormed(ipc[n].policy)
    BY <1>4, GatherCovers
  <1>6. CheckInv' /\ stage' # "idle" /\ policy' = ipc[n].policy
    BY <1>2, <1>5, BeginKeeps
  <1>7. TesterInv'
    BY <1>1 DEF TesterSide, TesterInv
  <1>8. SeenInv'
    <2>1. Used' = Used /\ \A x : Passed(x)' = Passed(x)
      BY <1>1 DEF Used, Passed
    <2>2. /\ todo \subseteq DOMAIN ipc
          /\ \A x \in seen : x[1] \in DOMAIN ipc /\ x = <<x[1], x[2]>>
          /\ \A x \in seen : x[2] # None /\ Passed(x)
          /\ \A m \in GetMatchingPolicies(ipc, ref.name, Used) : m \in todo \/ \E x \in seen : x[1] = m
      BY <1>1, <1>3 DEF TesterSide, SeenInv
    <2>3. <<n, None>>[1] = n /\ <<n, None>>[2] = None
      OBVIOUS
    <2>4. /\ todo' \subseteq DOMAIN ipc'
          /\ \A x \in seen' : x[1] \in DOMAIN ipc' /\ x = <<x[1], x[2]>>
          /\ \A x \in seen' : x[2] # None => Passed(x)'
      BY <1>1, <1>4, <2>1, <2>2, <2>3
    <2>5. \A m \in GetMatchingPolicies(ipc, ref.name, Used) : m \in todo' \/ \E x \in seen' : x[1] = m
      BY <1>1, <2>2, <2>3, ZenonT(60)
    <2>6. /\ <<n, None>> \in seen' /\ policy' = ipc'[n].policy /\ n \in DOMAIN ipc'
          /\ \A x \in seen' : x[2] = None => x[1] = n
      BY <1>1, <1>4, <1>6, <2>2, <2>3
    <2> QED BY <1>1, <1>6, <2>1, <2>4, <2>5, <2>6 DEF SeenInv
  <1>9. SuccessCovers'
    <2>1. code' = None
      BY <1>1 DEF TesterSide, TesterInv
    <2> QED BY <2>1, NoneAssumption, NothingCovered
  <1> QED BY <1>6, <1>7, <1>8, <1>9 DEF TesterSide

\* The loop ends when nothing is left to check.
LEMMA SucceededKeeps ==
  ASSUME TesterSide, Succeeded
  PROVE  TesterSide'
  <1>1. /\ caller = "tester" /\ caller' = caller /\ at = "verify" /\ at' = "exit" /\ code' = 0
        /\ stage = "idle" /\ stage' = stage /\ todo = {}
        /\ doc' = doc /\ ipc' = ipc /\ ref' = ref /\ load' = load /\ answer' = answer
        /\ ww' = ww /\ seen' = seen /\ resource' = resource
    BY DEF Succeeded, Exit, Stay, checkVars, webhookVars
  <1>2. doc \in Documents /\ ipc = Gathered(doc) /\ GatherWarnings(doc) \subseteq ww /\ Validates(doc)
    BY <1>1 DEF TesterSide, TesterInv
  <1>3. TesterInv'
    BY <1>1, <1>2 DEF TesterSide, TesterInv
  <1>4. SeenInv'
    BY <1>1 DEF SeenInv
  <1>5. \A n \in GetMatchingPolicies(ipc, ref.name, Used) : \E x \in seen : x[1] = n /\ Passed(x)
    BY <1>1 DEF TesterSide, SeenInv
  <1>6. \A n \in GetMatchingPolicies(ipc, ref.name, Used) :
          \E x \in seen : x[1] = n /\ (x[2].ok \/ (ipc[n].policy.mode = "warn" /\ n \in ww))
    BY <1>5 DEF Passed
  <1>7. /\ \A n \in DOMAIN ipc : ipc[n].name = n /\ ipc[n].valid \in {"ok", "warn"} /\ ipc[n].compiles
        /\ \A n \in CIPs(doc) : (\E x \in DOMAIN ipc : ipc[x] = doc[n]) \/ doc[n].name \in ww
    BY <1>2, GatherCovers
  <1>8. SuccessCovers'
    BY <1>1, <1>6, <1>7 DEF SuccessCovers, Used
  <1> QED BY <1>3, <1>4, <1>8 DEF TesterSide

-----------------------------------------------------------------------------
(* Together.                                                                *)

\* The invariant holds at the start.
LEMMA StartsCalled ==
  ASSUME Init
  PROVE  CallersInv
  <1>1. CheckInv
    BY DEF Init, CheckInit, NoConfigs, CheckInv, Staged, AtStart, KeysTried, WantedTried, ConfigsRead,
           LoopsDecide
  <1>2. /\ stage = "idle" /\ ref = None /\ load = NotLoaded /\ cache = <<>> /\ answer = None
        /\ code = None /\ at = "start" /\ todo = {} /\ seen = {} /\ rooted = FALSE
        /\ caller \in {"webhook", "tester"}
        /\ caller = "tester" => doc \in Documents
    BY DEF Init, CheckInit
  <1>3. ASSUME caller = "webhook"
        PROVE  current \in Snapshots /\ ~current.policy.root
    BY <1>3 DEF Init, Snapshots
  <1>4. StoreInv
    BY <1>2, <1>3, ZenonT(60) DEF StoreInv
  <1>5. CacheInv /\ HitIsRight
    BY <1>2 DEF CacheInv, HitIsRight
  <1>6. TesterInv
    BY <1>2, NoneAssumption DEF TesterInv
  <1>7. SeenInv /\ SuccessCovers
    BY <1>2 DEF SeenInv, SuccessCovers
  <1> QED BY <1>1, <1>2, <1>4, <1>5, <1>6, <1>7 DEF CallersInv

\* Every step keeps the invariant.
LEMMA CallsInductive ==
  ASSUME CallersInv, [Next]_vars
  PROVE  CallersInv'
  <1>1. caller \in {"webhook", "tester"} /\ CheckInv /\ WebhookInv /\ TesterSide /\ StoreInv /\ HitIsRight
    BY DEF CallersInv, WebhookInv, TesterSide
  <1> SUFFICES CheckInv' /\ WebhookInv' /\ TesterSide' /\ caller' = caller
    BY <1>1 DEF CallersInv, WebhookInv, TesterSide
  <1>2. CASE UNCHANGED vars
    <2>1. /\ UNCHANGED <<inputVars, stage, loopVars, configVars, result>>
          /\ UNCHANGED <<caller, ref, webhookVars, testerVars>> /\ UNCHANGED code
          /\ stage' = stage /\ policy' = policy /\ caller' = caller
      BY <1>2 DEF vars, checkVars, inputVars, testerVars
    <2> QED BY <1>1, <2>1, QuietKeeps, WebhookQuiet, TesterQuiet
  <1>3. CASE (CheckStep \/ \E m \in pending : FetchConfig(m)) /\ Others
    <2>1. CheckInv' /\ policy' = policy /\ stage # "idle" /\ stage' # "idle"
      BY <1>1, <1>3, CheckStepKeeps
    <2>2. UNCHANGED <<caller, ref, webhookVars, testerVars>> /\ UNCHANGED code /\ caller' = caller
      BY <1>3 DEF Others, testerVars
    <2> QED BY <1>1, <2>1, <2>2, WebhookQuiet, TesterQuiet
  <1>4. CASE Cancel /\ Others
    <2>1. CheckInv' /\ policy' = policy /\ stage' = stage
      BY <1>1, <1>4, CancelKeeps
    <2>2. UNCHANGED <<caller, ref, webhookVars, testerVars>> /\ UNCHANGED code /\ caller' = caller
      BY <1>4 DEF Others, testerVars
    <2> QED BY <1>1, <2>1, <2>2, WebhookQuiet, TesterQuiet
  <1>5. CASE PublishRoot \/ Edit \/ (\E r \in Refs : LoadPolicies(r)) \/ LoadRest \/ Get
    <2>1. /\ UNCHANGED <<inputVars, stage, loopVars, configVars, result>>
          /\ caller = "webhook" /\ caller' = caller
      BY <1>5, ZenonT(60) DEF PublishRoot, Edit, LoadPolicies, LoadRest, Get, checkVars
    <2>2. WebhookInv'
      BY <1>1, <1>5, PublishKeeps, EditKeeps, LoadPoliciesKeeps, LoadRestKeeps, GetKeeps
    <2>3. TesterSide'
      BY <2>1, <2>2, TesterElsewhere DEF WebhookInv
    <2> QED BY <1>1, <2>1, <2>2, <2>3, QuietKeeps
  <1>6. CASE Check \/ Set
    <2>1. CheckInv' /\ WebhookInv'
      BY <1>1, <1>6, CheckKeeps, SetKeeps
    <2>2. caller = "webhook" /\ caller' = caller
      BY <1>6 DEF Check, Set
    <2>3. TesterSide'
      BY <2>1, <2>2, TesterElsewhere DEF WebhookInv
    <2> QED BY <2>1, <2>2, <2>3
  <1>7. CASE \/ Change \/ ValidateSource \/ BadInput \/ GatherPolicies \/ Succeeded
             \/ \E r \in Refs, res \in Resources \cup {None}, noMatch \in {"allow", "warn", "deny"} :
                  FindPolicies(r, res, noMatch)
    <2>1. /\ UNCHANGED <<inputVars, stage, loopVars, configVars, result>>
          /\ caller = "tester" /\ caller' = caller /\ answer' = answer
      BY <1>7 DEF Change, ValidateSource, BadInput, GatherPolicies, Succeeded, FindPolicies, Stay,
                  checkVars, webhookVars
    <2>2. TesterSide'
      BY <1>1, <1>7, SourceKeeps, GatherKeeps, SucceededKeeps, FindKeeps
    <2>3. WebhookInv'
      BY <1>1, <2>1, WebhookElsewhere
    <2> QED BY <1>1, <2>1, <2>2, <2>3, QuietKeeps
  <1>8. CASE Verified \/ \E n \in todo : VerifyPolicy(n)
    <2>1. CheckInv' /\ TesterSide'
      BY <1>1, <1>8, VerifiedKeeps, VerifyKeeps
    <2>2. caller = "tester" /\ caller' = caller /\ answer' = answer
      BY <1>8 DEF Verified, VerifyPolicy, webhookVars
    <2>3. WebhookInv'
      BY <1>1, <2>2, WebhookElsewhere
    <2> QED BY <2>1, <2>2, <2>3
  <1> QED BY <1>2, <1>3, <1>4, <1>5, <1>6, <1>7, <1>8 DEF Next, Step, Fetch

\* The invariant holds in every state.
LEMMA AlwaysCalled == Spec => []CallersInv
  <1>1. Init => CallersInv
    BY StartsCalled
  <1>2. CallersInv /\ [Next]_vars => CallersInv'
    BY CallsInductive
  <1> QED BY <1>1, <1>2, PTL DEF Spec

\* For every policy, every answer of the registry and whatever order it comes in,
\* ValidatePolicy's loops over keys, wanted attestations and what cosign verifies let an
\* authority match exactly when it keeps its promise, and hand on what satisfies the
\* wanted one.  Referrers that stand in for verified attestations are not covered.
THEOREM LoopsDecideTheMatch == Spec => []AuthorityMatches
  <1>1. CallersInv => AuthorityMatches
    BY InvariantMatches DEF CallersInv
  <1> QED BY <1>1, AlwaysCalled, PTL

\* However the goroutines of getConfigs interleave, and whenever the context is
\* cancelled, the policy of a CIP is evaluated with the config files of all platforms.
THEOREM ConfigsAreComplete == Spec => []ConfigsComplete
  <1>1. CallersInv => ConfigsComplete
    BY DEF CallersInv, CheckInv, ConfigsRead, FilesOf, ConfigsComplete
  <1> QED BY <1>1, AlwaysCalled, PTL

\* Store.Load gives a request the keys its policy names, however edits and the
\* TrustRoot come between its two parts.
THEOREM RootsAreLoaded == Spec => []RootIsLoaded
  <1>1. ASSUME CallersInv
        PROVE  RootIsLoaded
    <2>1. CASE caller = "webhook"
      BY <1>1, <2>1 DEF CallersInv, StoreInv, RootIsLoaded, Loaded
    <2>2. CASE caller = "tester"
      <3>1. load.policies = None
        BY <1>1, <2>2 DEF CallersInv, TesterInv, NotLoaded
      <3> QED BY <3>1 DEF RootIsLoaded, Loaded
    <2> QED BY <1>1, <2>1, <2>2 DEF CallersInv
  <1> QED BY <1>1, AlwaysCalled, PTL

\* For every number of edits and requests, a cached result is the one of the policy and
\* image asked about.
THEOREM HitsAreRight == Spec => []HitIsRight
  <1>1. CallersInv => HitIsRight
    BY DEF CallersInv
  <1> QED BY <1>1, AlwaysCalled, PTL

\* For every document, however it changes between the reads, exit code 0 of the tester
\* means that every matching policy passed or was warned about.
THEOREM SuccessIsCovered == Spec => []SuccessCovers
  <1>1. CallersInv => SuccessCovers
    BY DEF CallersInv
  <1> QED BY <1>1, AlwaysCalled, PTL
=============================================================================
