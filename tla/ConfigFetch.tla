---------------------------- MODULE ConfigFetch ----------------------------
(***************************************************************************)
(* Fetcher.Fetch: how a node's two files, bird-meshctl.conf and            *)
(* wireguard.json, come from the configured sources, through the clone or  *)
(* download directory and the local cache, to Applier.Apply, which reads   *)
(* wireguard.json first.  Files are known by the version they belong to.   *)
(***************************************************************************)
EXTENDS Integers, Sequences, FiniteSets

CONSTANTS
    Deployments,  \* the agents a behaviour may be about: repo.sources, a
                  \* sequence of [kind, site], and how often each event of
                  \* FetchEvent may happen
    Sites,        \* hosts and directories the sources name
    None,         \* no clone, no file, no site
    Broken,       \* a file cut off by a crash or a full disk while it was written
    MaxVersion,   \* bound: versions a site may serve
    MaxFailures   \* bound: consecutive failures are counted up to here

Kinds == {"git", "http", "local"}
FetchEvent == {"outage", "crash", "disk"}

ASSUME DeploymentsAssumption ==
    /\ None \notin Sites
    /\ \A d \in Deployments :
          /\ d.sources \in Seq([kind : Kinds, site : Sites]) /\ d.sources # <<>>
          /\ d.budget \in [FetchEvent -> Nat]
ASSUME BoundsAssumption ==
    MaxVersion \in Nat \ {0} /\ MaxFailures \in Nat
ASSUME FileAssumption ==
    None \notin Nat /\ Broken \notin Nat /\ None # Broken

VARIABLES
    serves,     \* the version each site serves
    reachable,  \* the sites that answer
    clone,      \* /tmp/meshctl-repo: None or [origin, version]
    download,   \* /tmp/meshctl-http: the version of each file
    cache,      \* the local cache: the version of each file, None if missing
    failures,   \* Fetcher.consecutiveFailures
    fetch,      \* where Fetch, and the Apply that follows it, is
    applied,    \* the version of each file Apply read last
    left,       \* what is left of the deployment's budget
    deployment  \* the agent this is about: never changes

worldVars == <<left, deployment>>
vars == <<serves, reachable, clone, download, cache, failures, fetch, applied, worldVars>>

Sources   == deployment.sources
SitesUsed == {Sources[i].site : i \in DOMAIN Sources}

Version == 1..MaxVersion
File    == Version \cup {None, Broken}
Files   == [bird : File, wg : File]
NoFiles == [bird |-> None, wg |-> None]
Both(v) == [bird |-> v, wg |-> v]

FetchPoints == {"idle", "try", "second", "cacheBird", "cacheWg", "applyWg",
                "applyBird", "error"}

Idle == [at |-> "idle", i |-> 0, dir |-> None]

FetchTypeOK ==
    /\ serves \in [Sites -> Version]
    /\ reachable \subseteq Sites
    /\ clone # None => clone \in [origin : Sites, version : Version]
    /\ download \in Files
    /\ cache \in Files
    /\ failures \in 0..MaxFailures
    /\ fetch \in [at : FetchPoints, i : 0..Len(Sources), dir : Kinds \cup {"cache", None}]
    /\ fetch.at \in {"try", "second", "cacheBird", "cacheWg"}
          => fetch.i \in DOMAIN Sources
    /\ applied \in Files
    /\ deployment \in Deployments
    /\ left \in [FetchEvent -> Nat]
    /\ \A e \in FetchEvent : left[e] <= deployment.budget[e]

Spend(event) ==
    /\ left[event] > 0
    /\ left' = [left EXCEPT ![event] = @ - 1]
    /\ UNCHANGED deployment

(***************************************************************************)
(* backoffDelay in seconds: 30 s doubled once per failure after the first, *)
(* the loop leaving at the maximum, then cut to it.                        *)
(***************************************************************************)
MaxBackoff == 600

\* Mutant: the loop and the cut are taken for one, and the cut is dropped.
DoubledUncut(n) ==
    LET d[k \in Nat] == IF k <= 1 THEN 30
                        ELSE IF d[k-1] < MaxBackoff THEN 2 * d[k-1] ELSE d[k-1]
    IN  IF n <= 0 THEN 0 ELSE d[n]

BackoffDelay(n) ==
    LET d[k \in Nat] == IF k <= 1 THEN 30
                        ELSE IF d[k-1] < MaxBackoff THEN 2 * d[k-1] ELSE d[k-1]
    IN  IF n <= 0 THEN 0 ELSE IF d[n] > MaxBackoff THEN MaxBackoff ELSE d[n]

-----------------------------------------------------------------------------
FetchInit ==
    /\ deployment \in Deployments
    /\ serves = [s \in Sites |-> 1]
    /\ reachable \in SUBSET SitesUsed
    /\ clone = None
    /\ download = NoFiles
    /\ cache = NoFiles
    /\ failures = 0
    /\ fetch = Idle
    /\ applied = NoFiles
    /\ left = deployment.budget

Source == Sources[fetch.i]
Trying(kind) == fetch.at = "try" /\ Source.kind = kind

\* The directory Fetch chose, as it is now; a local one is live.
Content ==
    CASE fetch.dir = "git"   -> Both(clone.version)
      [] fetch.dir = "http"  -> download
      [] fetch.dir = "local" -> Both(serves[Source.site])
      [] fetch.dir = "cache" -> cache

\* A tick of the config sync loop, after the backoff delay has passed.
StartFetch ==
    /\ fetch.at \in {"idle", "error"}
    /\ fetch' = [at |-> "try", i |-> 1, dir |-> None]
    /\ UNCHANGED <<serves, reachable, clone, download, cache, failures, applied, worldVars>>

Fetched(kind) == fetch' = [fetch EXCEPT !.at = "cacheBird", !.dir = kind]

\* The site git talks to: the clone's origin once there is a clone.
GitSite == IF clone = None THEN Source.site ELSE clone.origin

\* Mutant: `git fetch` without `git reset --hard`.
FetchGitOnly ==
    /\ Trying("git") /\ GitSite \in reachable
    /\ clone' = IF clone = None THEN [origin |-> GitSite, version |-> serves[GitSite]]
                ELSE clone
    /\ Fetched("git")
    /\ UNCHANGED <<serves, reachable, download, cache, failures, applied, worldVars>>

FetchGit ==
    /\ Trying("git") /\ GitSite \in reachable
    /\ clone' = [origin |-> GitSite, version |-> serves[GitSite]]
    /\ Fetched("git")
    /\ UNCHANGED <<serves, reachable, download, cache, failures, applied, worldVars>>

\* fetchHTTP gets bird-meshctl.conf, then wireguard.json.
FetchHTTPFirst ==
    /\ Trying("http") /\ Source.site \in reachable
    /\ download' = [download EXCEPT !.bird = serves[Source.site]]
    /\ fetch' = [fetch EXCEPT !.at = "second"]
    /\ UNCHANGED <<serves, reachable, clone, cache, failures, applied, worldVars>>

FetchHTTPSecond ==
    /\ fetch.at = "second" /\ Source.site \in reachable
    /\ download' = [download EXCEPT !.wg = serves[Source.site]]
    /\ Fetched("http")
    /\ UNCHANGED <<serves, reachable, clone, cache, failures, applied, worldVars>>

\* src.Path itself stands in for a missing directory of the node; here either
\* holds the node's files.
FetchLocal ==
    /\ Trying("local") /\ Source.site \in reachable
    /\ Fetched("local")
    /\ UNCHANGED <<serves, reachable, clone, download, cache, failures, applied, worldVars>>

SourceDown ==
    IF fetch.at = "try" /\ Source.kind = "git" THEN GitSite \notin reachable
    ELSE Source.site \notin reachable

\* The source does not answer, or fails although it does: an error status, a
\* `git reset` that fails, a repository without the node's directory.  The clone
\* may be up to date by then.
SourceFails ==
    /\ fetch.at \in {"try", "second"}
    /\ \/ SourceDown /\ UNCHANGED <<clone, worldVars>>
       \/ /\ ~SourceDown /\ Spend("outage")
          /\ \/ UNCHANGED clone
             \/ Trying("git") /\ clone' = [origin |-> GitSite, version |-> serves[GitSite]]

NextSource ==
    /\ SourceFails
    /\ fetch.i < Len(Sources)
    /\ fetch' = [fetch EXCEPT !.at = "try", !.i = @ + 1]
    /\ UNCHANGED <<serves, reachable, download, cache, failures, applied>>

\* Mutant: an offline agent does not look for a cache.
NoSourceLeftOffline ==
    /\ SourceFails
    /\ fetch.i = Len(Sources)
    /\ failures' = IF failures < MaxFailures THEN failures + 1 ELSE failures
    /\ fetch' = [Idle EXCEPT !.at = "error"]
    /\ UNCHANGED <<serves, reachable, download, cache, applied>>

\* A cache directory exists from the first file on.  (updateCache may leave it
\* empty when the first write fails; Apply then finds no file and does nothing.)
NoSourceLeft ==
    /\ SourceFails
    /\ fetch.i = Len(Sources)
    /\ failures' = IF failures < MaxFailures THEN failures + 1 ELSE failures
    /\ fetch' = IF cache # NoFiles
                  THEN [Idle EXCEPT !.at = "applyWg", !.dir = "cache"]
                  ELSE [Idle EXCEPT !.at = "error"]
    /\ UNCHANGED <<serves, reachable, download, cache, applied>>

(***************************************************************************)
(* updateCache writes the files in the order of their names, in place.     *)
(***************************************************************************)

\* Mutant: a file that is cached already is left alone.
CacheBirdOnce ==
    /\ fetch.at = "cacheBird"
    /\ cache' = [cache EXCEPT !.bird = IF @ = None THEN Content.bird ELSE @]
    /\ fetch' = [fetch EXCEPT !.at = "cacheWg"]
    /\ UNCHANGED <<serves, reachable, clone, download, failures, applied, worldVars>>

CacheBird ==
    /\ fetch.at = "cacheBird"
    /\ cache' = [cache EXCEPT !.bird = Content.bird]
    /\ fetch' = [fetch EXCEPT !.at = "cacheWg"]
    /\ UNCHANGED <<serves, reachable, clone, download, failures, applied, worldVars>>

CacheWg ==
    /\ fetch.at = "cacheWg"
    /\ cache' = [cache EXCEPT !.wg = Content.wg]
    /\ fetch' = [fetch EXCEPT !.at = "applyWg"]
    /\ failures' = 0
    /\ UNCHANGED <<serves, reachable, clone, download, applied, worldVars>>

\* os.WriteFile truncates before it writes: the file being cached may be cut.
CutOff ==
    IF fetch.at = "cacheBird" THEN [cache EXCEPT !.bird = Broken]
    ELSE IF fetch.at = "cacheWg" THEN [cache EXCEPT !.wg = Broken]
    ELSE cache

\* A failed cache update is logged; the fetch is a success all the same.
CacheFails ==
    /\ fetch.at \in {"cacheBird", "cacheWg"}
    /\ Spend("disk")
    /\ cache' \in {cache, CutOff}
    /\ fetch' = [fetch EXCEPT !.at = "applyWg"]
    /\ failures' = 0
    /\ UNCHANGED <<serves, reachable, clone, download, applied>>

-----------------------------------------------------------------------------
(***************************************************************************)
(* Applier.Apply: a file that is missing is skipped, a wireguard.json that *)
(* does not parse is an error.                                             *)
(***************************************************************************)
Taken(old, new) == IF new = None THEN old ELSE new

\* Mutant: a file that does not parse is taken for a configuration.
ApplyWgUnparsed ==
    /\ fetch.at = "applyWg"
    /\ applied' = [applied EXCEPT !.wg = Taken(@, Content.wg)]
    /\ fetch' = [fetch EXCEPT !.at = "applyBird"]
    /\ UNCHANGED <<serves, reachable, clone, download, cache, failures, worldVars>>

ApplyWg ==
    /\ fetch.at = "applyWg" /\ Content.wg # Broken
    /\ applied' = [applied EXCEPT !.wg = Taken(@, Content.wg)]
    /\ fetch' = [fetch EXCEPT !.at = "applyBird"]
    /\ UNCHANGED <<serves, reachable, clone, download, cache, failures, worldVars>>

ApplyWgFails ==
    /\ fetch.at = "applyWg" /\ Content.wg = Broken
    /\ fetch' = [Idle EXCEPT !.at = "error"]
    /\ UNCHANGED <<serves, reachable, clone, download, cache, failures, applied, worldVars>>

ApplyBird ==
    /\ fetch.at = "applyBird"
    /\ applied' = [applied EXCEPT !.bird = Taken(@, Content.bird)]
    /\ fetch' = Idle
    /\ UNCHANGED <<serves, reachable, clone, download, cache, failures, worldVars>>

SyncStep ==
    \/ StartFetch \/ FetchGit \/ FetchHTTPFirst \/ FetchHTTPSecond \/ FetchLocal
    \/ NextSource \/ NoSourceLeft \/ CacheBird \/ CacheWg \/ CacheFails
    \/ ApplyWg \/ ApplyWgFails \/ ApplyBird

-----------------------------------------------------------------------------
\* The first source is the origin; the other sites copy it.
Publish(site) ==
    /\ serves[site] < IF site = Sources[1].site THEN MaxVersion
                      ELSE serves[Sources[1].site]
    /\ serves' = [serves EXCEPT ![site] = @ + 1]
    /\ UNCHANGED <<reachable, clone, download, cache, failures, fetch, applied, worldVars>>

Outage(site) ==
    /\ site \in reachable /\ Spend("outage")
    /\ reachable' = reachable \ {site}
    /\ UNCHANGED <<serves, clone, download, cache, failures, fetch, applied>>

Recovery(site) ==
    /\ site \notin reachable
    /\ reachable' = reachable \cup {site}
    /\ UNCHANGED <<serves, clone, download, cache, failures, fetch, applied, worldVars>>

\* The clone and the download directory outlive the agent in /tmp.
Crash ==
    /\ fetch.at # "idle" /\ Spend("crash")
    /\ cache' \in {cache, CutOff}
    /\ fetch' = Idle
    /\ failures' = 0
    /\ UNCHANGED <<serves, reachable, clone, download, applied>>

FetchNext ==
    \/ SyncStep
    \/ \E site \in SitesUsed : Publish(site) \/ Outage(site) \/ Recovery(site)
    \/ Crash

FetchSpec == FetchInit /\ [][FetchNext]_vars

\* The config sync ticker calls Fetch and Apply again and again.
FetchFairSpec == FetchSpec /\ WF_vars(SyncStep)

-----------------------------------------------------------------------------
(***************************************************************************)
(* Properties.                                                             *)
(***************************************************************************)

\* README "exponential backoff (30s -> 10min cap)": after n failed rounds the
\* next one waits 30 * 2^(n-1) seconds, 10 minutes from the sixth on.
BackoffDocumented ==
    BackoffDelay(failures) =
        IF failures = 0 THEN 0
        ELSE IF failures >= 6 THEN 600 ELSE 30 * 2^(failures - 1)

NoCrash == left.crash = deployment.budget.crash
NoFullDisk == left.disk = deployment.budget.disk

\* What may make a node go back: a second source that is behind the first; a
\* local directory, which Apply reads live after it was cached; a cache that
\* could not be written.
MayLag == Len(Sources) > 1 \/ Sources[1].kind = "local" \/ ~NoFullDisk

\* Otherwise a node never goes back to an older file than the one it runs: the
\* cache is written before Apply, so it is never behind, also when the agent
\* dies between two file writes.
NoRollback ==
    [][~MayLag =>
       \A f \in {"bird", "wg"} :
          applied[f] \in Version /\ applied'[f] \in Version
            => applied'[f] >= applied[f]]_vars

\* The abstract node: what WireGuard is given is always a published
\* configuration, whatever was cut off, and an older one only as MayLag says.
Node == INSTANCE NodeConfig WITH
            offered <- serves[Sources[1].site],
            lagging <- MayLag,
            runs    <- applied.wg

NodeConfigKept == Node!NodeSpec

\* README "The agent continues with cached config": once a configuration was
\* applied, a sync with every source down still finds one, across restarts (unless
\* a write to the cache failed or a crash cut the cached file off).
OfflineStillConfigured ==
    NoFullDisk /\ cache.wg # Broken /\ applied # NoFiles => fetch.at # "error"

\* The fallback chain: when some sources stay reachable, the node ends up with
\* what one of them serves ("Fetch tries each source in order"), also when two
\* files were downloaded from before and after a publication.
ReachableSourceApplied ==
    \A up \in SUBSET Sites \ {{}} :
      <>[](reachable = up) => <>[](\E s \in up : applied = Both(serves[s]))

\* "updateCache copies the fetched config": BIRD is given the file of the version
\* whose wireguard.json was applied just before, from the cache too, unless the
\* agent died or a write failed between the two files of a version (of a source
\* that hands out both files at once).
AppliedWhole ==
    [][NoFullDisk /\ NoCrash /\ applied'.bird # applied.bird =>
         \/ applied'.bird = applied.wg
         \/ \E i \in DOMAIN Sources : Sources[i].kind # "git"]_vars
=============================================================================
