---------------------------- MODULE TrustedRoot ----------------------------
(***************************************************************************)
(* GetTrustedRoot (pkg/tuf/repo.go): the process-wide trusted root of the  *)
(* public TUF repository, fetched again when it is older than the resync   *)
(* period.                                                                 *)
(*                                                                         *)
(* A caller takes the time and looks at the timestamp without the lock.    *)
(* One that finds it stale fetches under the write lock; the others read   *)
(* the root under the read lock, whatever has happened meanwhile.  The     *)
(* racy read of the timestamp yields the value before or after a write.    *)
(*                                                                         *)
(* The TUF repository is external: it publishes the versions 1, 2, ... of  *)
(* trusted_root.json, some of which may not parse.                         *)
(***************************************************************************)
EXTENDS Integers

CONSTANTS Callers,     \* the calls, concurrent ones and later ones
          Nobody,      \* none of them
          Period,      \* the resync period, in ticks
          MaxTime,     \* bound on the clock
          MaxVersion   \* bound on the versions published

ASSUME TrustedRootAssumption ==
  Period \in Nat /\ MaxTime \in Nat /\ MaxVersion \in Nat \ {0} /\ Nobody \notin Callers

VARIABLES clock,      \* the time
          published,  \* the version of trusted_root.json in the repository
          parses,     \* it is a trusted root
          timestamp,  \* when the root was last fetched, or Zero
          trustedRoot,\* the version held, or Nil
          writer,     \* the caller that holds the write lock, or Nobody
          call,       \* the callers: what they do, their now and answer, and when they fetched
          fetched,    \* history: when the version held was fetched
          newest      \* history: the newest version ever held

rootVars == <<clock, published, parses, timestamp, trustedRoot, writer, call, fetched, newest>>
repo == <<published, parses>>
history == <<fetched, newest>>

Zero == -1
Nil == 0
Locals == [pc : {"idle", "check", "lock", "fetch", "parse", "stamp", "rlock", "done"},
           now : 0..MaxTime, at : 0..MaxTime, got : 0..MaxVersion, err : BOOLEAN]

RootInit ==
  /\ clock = 0 /\ published = 1 /\ parses = TRUE
  /\ timestamp = Zero /\ trustedRoot = Nil /\ writer = Nobody
  /\ call = [c \in Callers |-> [pc |-> "idle", now |-> 0, at |-> 0, got |-> Nil, err |-> FALSE]]
  /\ fetched = Zero /\ newest = Nil

At(c, pc) == call[c].pc = pc
Goto(c, pc) == call' = [call EXCEPT ![c].pc = pc]
Return(c, root, e) == call' = [call EXCEPT ![c] = [pc |-> "done", now |-> 0, at |-> 0, got |-> root, err |-> e]]

-----------------------------------------------------------------------------
(* GetTrustedRoot, by a caller.                                             *)

\* now := time.Now()
Begin(c) ==
  /\ At(c, "idle")
  /\ call' = [call EXCEPT ![c] = [pc |-> "check", now |-> clock, at |-> 0, got |-> Nil, err |-> FALSE]]
  /\ UNCHANGED <<clock, repo, timestamp, trustedRoot, writer, history>>

Stale(c) == timestamp = Zero \/ call[c].now > timestamp + Period

\* The timestamp, read without the lock.
CheckTimestamp(c) ==
  /\ At(c, "check") /\ Goto(c, IF Stale(c) THEN "lock" ELSE "rlock")
  /\ UNCHANGED <<clock, repo, timestamp, trustedRoot, writer, history>>

\* Mutant of Lock: the write lock excludes nobody.
LockShared(c) ==
  /\ At(c, "lock")
  /\ writer' = c /\ Goto(c, "fetch")
  /\ UNCHANGED <<clock, repo, timestamp, trustedRoot, history>>

Lock(c) ==
  /\ At(c, "lock") /\ writer = Nobody
  /\ writer' = c /\ Goto(c, "fetch")
  /\ UNCHANGED <<clock, repo, timestamp, trustedRoot, history>>

\* Mutant of FetchFails: the lock is not released.
FetchFailsLocked(c) ==
  /\ At(c, "fetch") /\ Return(c, Nil, TRUE)
  /\ UNCHANGED <<clock, repo, timestamp, trustedRoot, writer, history>>

\* The TUF client cannot be made, or the target not be downloaded.
FetchFails(c) ==
  /\ At(c, "fetch") /\ Return(c, Nil, TRUE) /\ writer' = Nobody
  /\ UNCHANGED <<clock, repo, timestamp, trustedRoot, history>>

\* The target is downloaded: a trusted root, or one that will not parse.
Fetch(c) ==
  /\ At(c, "fetch")
  /\ call' = [call EXCEPT ![c].pc = "parse", ![c].at = clock,
                            ![c].got = IF parses THEN published ELSE Nil]
  /\ UNCHANGED <<clock, repo, timestamp, trustedRoot, writer, history>>

\* Mutant of Parse: a root that is held is kept, and stamped as if it were new.
ParseOnce(c) ==
  /\ At(c, "parse") /\ call[c].got # Nil
  /\ trustedRoot' = (IF trustedRoot = Nil THEN call[c].got ELSE trustedRoot) /\ Goto(c, "stamp")
  /\ fetched' = (IF trustedRoot = Nil THEN call[c].at ELSE fetched)
  /\ newest' = (IF trustedRoot' > newest THEN trustedRoot' ELSE newest)
  /\ UNCHANGED <<clock, repo, timestamp, writer>>

\* The root is replaced by the one downloaded.
Parse(c) ==
  /\ At(c, "parse") /\ call[c].got # Nil
  /\ trustedRoot' = call[c].got /\ Goto(c, "stamp")
  /\ fetched' = call[c].at
  /\ newest' = (IF call[c].got > newest THEN call[c].got ELSE newest)
  /\ UNCHANGED <<clock, repo, timestamp, writer>>

\* It does not parse: the root held is overwritten all the same.
ParseFails(c) ==
  /\ At(c, "parse") /\ call[c].got = Nil
  /\ trustedRoot' = Nil /\ Return(c, Nil, TRUE) /\ writer' = Nobody
  /\ UNCHANGED <<clock, repo, timestamp, history>>

\* The timestamp is the time the call began.
Stamp(c) ==
  /\ At(c, "stamp")
  /\ timestamp' = call[c].now /\ Return(c, trustedRoot, FALSE) /\ writer' = Nobody
  /\ UNCHANGED <<clock, repo, trustedRoot, history>>

\* The read lock is held for the return only.
ReadRoot(c) ==
  /\ At(c, "rlock") /\ writer = Nobody
  /\ Return(c, trustedRoot, FALSE)
  /\ UNCHANGED <<clock, repo, timestamp, trustedRoot, writer, history>>

-----------------------------------------------------------------------------
(* External.                                                                *)

Tick == clock < MaxTime /\ clock' = clock + 1 /\ UNCHANGED <<repo, timestamp, trustedRoot, writer, call, history>>

Publish ==
  /\ published < MaxVersion /\ published' = published + 1 /\ parses' \in BOOLEAN
  /\ UNCHANGED <<clock, timestamp, trustedRoot, writer, call, history>>

GetTrustedRoot(c) == CheckTimestamp(c) \/ Lock(c) \/ FetchFails(c) \/ Fetch(c) \/ Parse(c)
                       \/ ParseFails(c) \/ Stamp(c) \/ ReadRoot(c)

RootNext == (\E c \in Callers : Begin(c) \/ GetTrustedRoot(c)) \/ Tick \/ Publish

RootSpec == RootInit /\ [][RootNext]_rootVars

\* A goroutine goes on, but for the download: NewFromEnv and GetTarget run with
\* context.Background() and have no deadline, so nothing says that they return.
OwnSteps(c) == CheckTimestamp(c) \/ Lock(c) \/ Parse(c) \/ ParseFails(c) \/ Stamp(c) \/ ReadRoot(c)
FairRootSpec == RootSpec /\ \A c \in Callers : WF_rootVars(OwnSteps(c))

-----------------------------------------------------------------------------
(* What a caller may rely on.                                               *)

\* The types, and a caller that holds the write lock is inside the section.
TypeOK ==
  /\ clock \in 0..MaxTime /\ published \in 1..MaxVersion /\ parses \in BOOLEAN
  /\ timestamp \in Zero..MaxTime /\ trustedRoot \in 0..MaxVersion
  /\ call \in [Callers -> Locals] /\ writer \in Callers \cup {Nobody}
  /\ fetched \in Zero..MaxTime /\ newest \in 0..MaxVersion
  /\ writer # Nobody => call[writer].pc \in {"fetch", "parse", "stamp"}

\* A caller that does not fetch began no later than one resync period after the
\* last download that parsed: neither the unlocked look at the timestamp nor a
\* timestamp that moves back makes a root look newer than it is, and a root that
\* was lost to a download that did not parse stays lost no longer than that.
ReadIsFresh ==
  [][\A c \in Callers : (At(c, "rlock") /\ call'[c].pc = "done") =>
       call[c].now <= fetched + Period]_rootVars

\* The root never goes back to an older version, however the callers that found
\* it stale are ordered.
NeverOlder == trustedRoot \in {Nil, newest}

\* Only a download that never ends keeps a call of GetTrustedRoot, and with it every
\* other call, from returning: the lock is released on every path, and neither a
\* failed download nor a root that was lost leaves a caller waiting.
DownloadsEnd == []<>(\A c \in Callers : ~At(c, "fetch"))
Answered == DownloadsEnd => <>[](\A c \in Callers : At(c, "idle") \/ At(c, "done"))
=============================================================================
