------------------------------- MODULE Upgrade -------------------------------
(***************************************************************************)
(* Releases on a host: prepare_upgrade, _background_prepare and             *)
(* start_latest of agentpost_sdk/auto_upgrade.py, run by every MCP process, *)
(* and ensure_runtime of the skill's bootstrap.py, which also the skill     *)
(* itself runs, without the lock.  A release's directory is a name for a     *)
(* tree of files: a failed tree is renamed away.                           *)
(***************************************************************************)
EXTENDS Naturals, FiniteSets

CONSTANTS
  Servers,           \* MCP processes, started by the host from release 0
  Skills,            \* runs of the skill's bootstrap script
  MaxRelease,        \* releases 1..MaxRelease may be published
  MaxTrees,          \* trees of files ever created
  NoProcess

ASSUME UpgradeAssumption ==
  /\ Servers \cap Skills = {} /\ NoProcess \notin Servers \cup Skills
  /\ MaxRelease \in Nat \ {0} /\ MaxTrees \in Nat \ {0}

VARIABLES
  published,  \* the release the server offers
  tree,       \* release -> the tree its directory holds, 0 for none
  content,    \* tree -> none, venv or installed
  born,       \* tree -> the release it was created for
  marked,     \* trees with .agentpost-verified.json
  trees,      \* trees created so far
  pointer,    \* current.json, 0 for none
  install,    \* release -> the process that holds its install lock
  step,       \* process -> where it is
  aim,        \* process -> the release it prepares
  fresh,      \* process -> created_here
  runs        \* process -> the tree it runs from; 0: the host's own

upgradeVars == <<published, tree, content, born, marked, trees, pointer, install, step, aim, fresh, runs>>

Releases == 1..MaxRelease
Trees == 1..MaxTrees
Processes == Servers \cup Skills
Steps == {"off", "starting", "watching", "fetched", "locked", "ensuring", "pip",
          "replacing", "verifying", "probing", "ready", "connector"}

UpgradeTypeOK ==
  /\ published \in 0..MaxRelease /\ pointer \in 0..MaxRelease
  /\ tree \in [Releases -> 0..MaxTrees]
  /\ content \in [Trees -> {"none", "venv", "installed"}]
  /\ born \in [Trees -> 0..MaxRelease]
  /\ marked \subseteq Trees /\ trees \in 0..MaxTrees
  /\ install \in [Releases -> Servers \cup {NoProcess}]
  /\ step \in [Processes -> Steps] /\ aim \in [Processes -> 0..MaxRelease]
  /\ fresh \in [Processes -> BOOLEAN] /\ runs \in [Processes -> 0..MaxTrees]

UpgradeInit ==
  /\ published = 0 /\ pointer = 0
  /\ tree = [v \in Releases |-> 0]
  /\ content = [i \in Trees |-> "none"] /\ born = [i \in Trees |-> 0] /\ marked = {} /\ trees = 0
  /\ install = [v \in Releases |-> NoProcess]
  /\ step = [p \in Processes |-> "off"] /\ aim = [p \in Processes |-> 0]
  /\ fresh = [p \in Processes |-> FALSE] /\ runs = [p \in Processes |-> 0]

\* A release goes out, or an earlier one is offered again.
Publish(v) ==
  /\ v # published /\ published' = v
  /\ UNCHANGED <<tree, content, born, marked, trees, pointer, install, step, aim, fresh, runs>>

-----------------------------------------------------------------------------
Here(p) == tree[aim[p]]          \* the tree under the name, at this moment
GoesTo(p, s) == step' = [step EXCEPT ![p] = s]
Unlocked(p) == install' = [v \in Releases |-> IF install[v] = p THEN NoProcess ELSE install[v]]
\* The call ends: a server watches for releases, the skill is done.
Returns(p, s) == /\ GoesTo(p, s) /\ Unlocked(p)
                 /\ aim' = [aim EXCEPT ![p] = 0]
                 /\ fresh' = [fresh EXCEPT ![p] = FALSE]
Files == <<published, tree, content, born, marked, trees, pointer>>

\* Which release the code of a process is: the tree's own.
ReleaseOf(i) == IF i = 0 THEN 0 ELSE born[i]

-----------------------------------------------------------------------------
(* An MCP process.                                                         *)

\* A marker and an executable
RunnableUnmarked(i) == i # 0 /\ content[i] = "installed"
Runnable(i) == i \in marked /\ content[i] = "installed"

\* The host starts its configured executable.
HostStarts(p) ==
  /\ p \in Servers /\ step[p] = "off"
  /\ GoesTo(p, "starting")
  /\ UNCHANGED <<Files, install, aim, fresh, runs>>

\* start_latest: the release current.json names replaces an older one if its
\* tree has a marker and an executable; the new code starts the same way.
StartLatest(p) ==
  /\ step[p] = "starting"
  /\ LET v == pointer
         i == IF v = 0 THEN 0 ELSE tree[v] IN
     IF v > ReleaseOf(runs[p]) /\ Runnable(i)
     THEN runs' = [runs EXCEPT ![p] = i] /\ UNCHANGED step
     ELSE GoesTo(p, "watching") /\ UNCHANGED runs
  /\ UNCHANGED <<Files, install, aim, fresh>>

\* fetch_release; nothing is done for a release that is not newer.
Fetch(p) ==
  /\ step[p] = IF p \in Servers THEN "watching" ELSE "off"
  /\ published > ReleaseOf(runs[p])
  /\ aim' = [aim EXCEPT ![p] = published]
  /\ GoesTo(p, IF p \in Servers THEN "fetched" ELSE "ensuring")
  /\ UNCHANGED <<Files, install, fresh, runs>>

\* _install_lock, and created_here once it is held.
LockInstall(p) ==
  /\ step[p] = "fetched"
  /\ IF install[aim[p]] = NoProcess
     THEN /\ install' = [install EXCEPT ![aim[p]] = p]
          /\ fresh' = [fresh EXCEPT ![p] = Here(p) = 0]
          /\ GoesTo(p, "locked") /\ UNCHANGED aim
     ELSE Returns(p, "watching")
  /\ UNCHANGED <<Files, runs>>

\* An existing directory is used if it was verified and never installed into.
Inspect(p) ==
  /\ step[p] = "locked"
  /\ IF Here(p) = 0
     THEN GoesTo(p, "ensuring") /\ UNCHANGED <<install, aim, fresh>>
     ELSE IF Runnable(Here(p))
     THEN GoesTo(p, "ready") /\ Unlocked(p) /\ UNCHANGED <<aim, fresh>>
     ELSE Returns(p, "watching")
  /\ UNCHANGED <<Files, runs>>

\* The import probe, then the marker.
Probe(p) ==
  /\ step[p] = "probing" /\ Here(p) # 0 /\ content[Here(p)] = "installed"
  /\ marked' = marked \cup {Here(p)}
  /\ GoesTo(p, "ready") /\ Unlocked(p)
  /\ UNCHANGED <<published, tree, content, born, trees, pointer, aim, fresh, runs>>

AlwaysMoved(p) == [tree EXCEPT ![aim[p]] = 0]
MovedAway(p) == IF fresh[p] THEN [tree EXCEPT ![aim[p]] = 0] ELSE tree

\* An exception in an install: a directory this process created is moved away.
\* pip, the verification and the probe may fail or take too long at any time.
Fail(p) ==
  /\ step[p] \in {"ensuring", "pip", "replacing", "verifying", "probing"}
  /\ tree' = MovedAway(p)
  /\ Returns(p, IF p \in Servers THEN "watching" ELSE "off")
  /\ UNCHANGED <<published, content, born, marked, trees, pointer, runs>>

\* _background_prepare replaces current.json after the lock is released.
WritePointer(p) ==
  /\ step[p] = "ready"
  /\ pointer' = aim[p]
  /\ Returns(p, "watching")
  /\ UNCHANGED <<published, tree, content, born, marked, trees, runs>>

\* The process ends: the operating system releases its lock.
Exit(p) ==
  /\ step[p] # "off"
  /\ Returns(p, "off")
  /\ runs' = [runs EXCEPT ![p] = 0]
  /\ UNCHANGED Files

-----------------------------------------------------------------------------
(* ensure_runtime, in a server that prepares a release and in the skill.   *)

Ensure(p) ==
  /\ step[p] = "ensuring"
  /\ IF Here(p) # 0
     THEN /\ GoesTo(p, IF content[Here(p)] = "installed" THEN "verifying" ELSE "pip")
          /\ UNCHANGED <<tree, content, born, trees>>
     ELSE /\ trees < MaxTrees /\ trees' = trees + 1
          /\ tree' = [tree EXCEPT ![aim[p]] = trees']
          /\ content' = [content EXCEPT ![trees'] = "venv"]
          /\ born' = [born EXCEPT ![trees'] = aim[p]]
          /\ GoesTo(p, "pip")
  /\ UNCHANGED <<published, marked, pointer, install, aim, fresh, runs>>

\* pip removes what another install put there, then writes the release; its
\* interpreter is gone when the directory was moved.
Pip(p) ==
  /\ step[p] = "pip" /\ Here(p) # 0
  /\ content' = [content EXCEPT ![Here(p)] = "venv"]
  /\ GoesTo(p, "replacing")
  /\ UNCHANGED <<published, tree, born, marked, trees, pointer, install, aim, fresh, runs>>

Replace(p) ==
  /\ step[p] = "replacing" /\ Here(p) # 0
  /\ content' = [content EXCEPT ![Here(p)] = "installed"]
  /\ GoesTo(p, "verifying")
  /\ UNCHANGED <<published, tree, born, marked, trees, pointer, install, aim, fresh, runs>>

\* The installed version is checked; the skill then runs its connector.
Verify(p) ==
  /\ step[p] = "verifying" /\ Here(p) # 0 /\ content[Here(p)] = "installed"
  /\ IF p \in Servers
     THEN GoesTo(p, "probing") /\ UNCHANGED runs
     ELSE GoesTo(p, "connector") /\ runs' = [runs EXCEPT ![p] = Here(p)]
  /\ UNCHANGED <<Files, install, aim, fresh>>

-----------------------------------------------------------------------------
UpgradeStep(p) ==
  \/ HostStarts(p) \/ StartLatest(p) \/ Fetch(p) \/ LockInstall(p) \/ Inspect(p)
  \/ Ensure(p) \/ Pip(p) \/ Replace(p) \/ Verify(p) \/ Probe(p) \/ Fail(p)
  \/ WritePointer(p) \/ Exit(p)

UpgradeNext ==
  \/ \E v \in Releases : Publish(v)
  \/ \E p \in Processes : UpgradeStep(p)

UpgradeSpec == UpgradeInit /\ [][UpgradeNext]_upgradeVars

-----------------------------------------------------------------------------
(* Properties.                                                             *)

\* current.json only ever names a release whose directory holds a verified
\* tree, although it is written after the install lock is released, other
\* processes install, fail and move directories meanwhile, and the skill
\* installs without the lock.
PointerVerified == pointer # 0 => tree[pointer] \in marked

\* A verified tree keeps its place: no later failure, however late its process
\* comes to it, moves away a release that others may already run.
VerifiedStays ==
  [][\A v \in Releases : tree[v] \in marked => tree'[v] = tree[v]]_upgradeVars

\* No MCP process runs a tree that was never verified or that was moved away,
\* whichever processes installed, failed and wrote current.json meanwhile.
OnlyVerifiedRun ==
  \A p \in Servers : runs[p] # 0 => runs[p] \in marked /\ tree[born[runs[p]]] = runs[p]

\* "Existing/possibly running environments are never moved."
RunningNeverMoved ==
  [][\A p \in Processes : runs[p] # 0 /\ runs'[p] = runs[p] =>
       \E v \in Releases : tree'[v] = runs[p]]_upgradeVars
=============================================================================
