------------------------- MODULE ConfigFetchProofs -------------------------
(***************************************************************************)
(* Proofs about ConfigFetch, for every list of sources, every budget and   *)
(* every bound on versions.                                                *)
(*                                                                         *)
(* The argument.  A version reaches applied through clone, download or a   *)
(* live directory, and through the cache; PublishedInv says that each of   *)
(* these is behind the first source.  A step back can only come from the   *)
(* cache: AheadInv says that, unless MayLag, neither the cache nor what    *)
(* the round in progress is about to apply is older than what the node     *)
(* runs, and that Apply reads what was cached just before it.  BirdInv     *)
(* says the same of the second file, KeptInv that a cached file outlives   *)
(* the agent, WholeInv that the two files applied are of one version.      *)
(* The backoff: the recursion has a solution, it is computed up to where   *)
(* it passes the maximum, and stays there by a least counterexample.       *)
(***************************************************************************)
EXTENDS ConfigFetch, WellFoundedInduction, TLAPS

Offered == serves[Sources[1].site]

\* The rounds' points at which fetch.dir is the directory that was chosen.
Chosen == {"cacheBird", "cacheWg", "applyWg", "applyBird"}

CloneOK ==
    /\ clone \in [origin : Sites, version : Version]
    /\ clone.origin \in SitesUsed /\ clone.version <= Offered

PublishedInv ==
    /\ \A s \in SitesUsed : serves[s] <= Offered
    /\ clone # None => CloneOK
    /\ \A w \in {download.wg, cache.wg, applied.wg} : w \in Version => w <= Offered
    /\ download.wg # Broken /\ applied.wg # Broken

DirInv ==
    fetch.at \in Chosen =>
       /\ fetch.dir \in Kinds \cup {"cache"}
       /\ fetch.dir = "cache" => fetch.at \in {"applyWg", "applyBird"}
       /\ fetch.dir = "git" => CloneOK
       /\ fetch.dir = "local" => fetch.i \in DOMAIN Sources /\ Source.kind = "local"

NotOlder(f) == f \in Version /\ applied.wg \in Version => f >= applied.wg

AheadInv ==
    ~MayLag =>
       /\ NotOlder(cache.wg)
       /\ fetch.at \in {"cacheBird", "cacheWg", "applyWg"} => NotOlder(Content.wg)
       /\ fetch.at = "applyWg" => Content.wg = cache.wg

FetchInv == FetchTypeOK /\ PublishedInv /\ DirInv /\ AheadInv

-----------------------------------------------------------------------------
(***************************************************************************)
(* Facts about the sources and the directories.                            *)
(***************************************************************************)

\* The sources of a deployment name sites and kinds.
LEMMA SourcesTyped ==
    ASSUME deployment \in Deployments
    PROVE  /\ Len(Sources) \in Nat /\ DOMAIN Sources = 1..Len(Sources) /\ 1 \in DOMAIN Sources
           /\ \A i \in DOMAIN Sources :
                 /\ Sources[i].site \in SitesUsed /\ Sources[i].site \in Sites
                 /\ Sources[i].kind \in Kinds
           /\ SitesUsed \subseteq Sites
<1> DEFINE R == [kind : Kinds, site : Sites]
<1>1. Sources \in Seq(R) /\ Sources # <<>>
  BY DeploymentsAssumption DEF Sources
<1>2. \A i \in DOMAIN Sources : Sources[i] \in R
  <2> HIDE DEF R
  <2> QED BY <1>1
<1>3. Len(Sources) \in Nat /\ DOMAIN Sources = 1..Len(Sources) /\ Len(Sources) # 0
  <2> HIDE DEF R
  <2> QED BY <1>1
<1> QED BY <1>2, <1>3 DEF SitesUsed

\* Without a second source every site in use is the first source's.
LEMMA OneSite ==
    ASSUME deployment \in Deployments, ~MayLag
    PROVE  /\ \A i \in DOMAIN Sources : Sources[i] = Sources[1]
           /\ SitesUsed = {Sources[1].site}
<1>1. DOMAIN Sources = {1}
  BY SourcesTyped DEF MayLag
<1> QED BY <1>1 DEF SitesUsed

\* The three places a version can come from.
LEMMA ContentIs ==
    /\ fetch.dir = "git"   => Content = [bird |-> clone.version, wg |-> clone.version]
    /\ fetch.dir = "http"  => Content = download
    /\ fetch.dir = "local" => Content = [bird |-> serves[Source.site], wg |-> serves[Source.site]]
    /\ fetch.dir = "cache" => Content = cache
BY DEF Content, Both

\* A chosen directory holds files, none of them newer than the first source's,
\* and a cut off one only in the cache.
LEMMA ContentTyped ==
    ASSUME FetchTypeOK, PublishedInv, DirInv, fetch.at \in Chosen
    PROVE  /\ Content \in Files
           /\ Content.wg \in Version => Content.wg <= Offered
           /\ fetch.dir # "cache" => Content.wg # Broken
<1>1. serves \in [Sites -> Version] /\ download \in Files /\ cache \in Files
      /\ deployment \in Deployments
  BY DEF FetchTypeOK
<1>2. Version \subseteq File /\ Broken \notin Version
  BY FileAssumption, BoundsAssumption DEF File, Version
<1>3. CASE fetch.dir = "git"
  BY <1>2, <1>3, ContentIs DEF DirInv, CloneOK, Files
<1>4. CASE fetch.dir = "http"
  BY <1>1, <1>4, ContentIs DEF PublishedInv
<1>5. CASE fetch.dir = "local"
  <2>1. Source.site \in SitesUsed /\ Source.site \in Sites
    BY <1>1, <1>5, SourcesTyped DEF DirInv, Source
  <2>2. serves[Source.site] \in Version /\ serves[Source.site] <= Offered
    BY <1>1, <2>1 DEF PublishedInv
  <2> QED BY <1>2, <1>5, <2>2, ContentIs DEF Files
<1>6. CASE fetch.dir = "cache"
  BY <1>1, <1>6, ContentIs DEF PublishedInv
<1> QED BY <1>3, <1>4, <1>5, <1>6 DEF DirInv, Kinds

-----------------------------------------------------------------------------
(***************************************************************************)
(* The steps.                                                              *)
(***************************************************************************)
LEMMA InitInv == FetchInit => FetchInv
<1> SUFFICES ASSUME FetchInit PROVE FetchInv
  OBVIOUS
<1>1. FetchTypeOK
  BY SourcesTyped, BoundsAssumption, DeploymentsAssumption
  DEF FetchInit, FetchTypeOK, Version, File, Files, NoFiles, Idle, FetchPoints
<1>2. PublishedInv
  BY SourcesTyped, FileAssumption, BoundsAssumption
  DEF FetchInit, PublishedInv, NoFiles, Offered, Version
<1>3. DirInv /\ AheadInv
  BY FileAssumption DEF FetchInit, DirInv, AheadInv, NotOlder, Idle, Chosen, NoFiles, Version
<1> QED BY <1>1, <1>2, <1>3 DEF FetchInv

\* No step changes the deployment.
LEMMA SourcesKept ==
    ASSUME deployment' = deployment
    PROVE  /\ Sources' = Sources /\ SitesUsed' = SitesUsed
           /\ left' = left => MayLag' = MayLag
           /\ left' = left => NoFullDisk' = NoFullDisk
BY DEF Sources, SitesUsed, MayLag, NoFullDisk

\* The type of fetch, and that a source is at hand while one is tried or cached.
FetchTyped ==
    /\ fetch \in [at : FetchPoints, i : 0..Len(Sources), dir : Kinds \cup {"cache", None}]
    /\ fetch.at \in {"try", "second", "cacheBird", "cacheWg"} => fetch.i \in DOMAIN Sources

\* A round starts over, or ends with nothing applied.
LEMMA RoundMoves ==
    ASSUME FetchInv, StartFetch \/ ApplyWgFails
    PROVE  FetchInv'
<1> USE DEF FetchInv
<1>1. UNCHANGED <<serves, reachable, clone, download, cache, failures, applied, left, deployment>>
  BY DEF StartFetch, ApplyWgFails, worldVars
<1>2. Sources' = Sources /\ SitesUsed' = SitesUsed /\ MayLag' = MayLag
  BY <1>1, SourcesKept
<1>3. /\ Len(Sources) \in Nat /\ DOMAIN Sources = 1..Len(Sources)
      /\ 1 \in DOMAIN Sources
  BY SourcesTyped DEF FetchTypeOK
<1>4. FetchTyped' /\ fetch'.at \notin Chosen
  <2>1. CASE StartFetch
    BY <1>2, <1>3, <2>1 DEF StartFetch, FetchTyped, FetchPoints, Chosen
  <2>2. CASE ApplyWgFails
    BY <1>2, <1>3, <2>2 DEF ApplyWgFails, Idle, FetchTyped, FetchPoints, Chosen
  <2> QED BY <2>1, <2>2
<1>5. FetchTypeOK'
  BY <1>1, <1>4 DEF FetchTypeOK, FetchTyped, Files, File, Version
<1>6. PublishedInv'
  BY <1>1, <1>2 DEF PublishedInv, CloneOK, Offered, Version
<1> QED BY <1>1, <1>2, <1>4, <1>5, <1>6 DEF DirInv, AheadInv, NotOlder, Chosen, Version

\* What every step below starts from.
LEMMA Known ==
    ASSUME FetchInv
    PROVE  /\ Len(Sources) \in Nat /\ DOMAIN Sources = 1..Len(Sources) /\ 1 \in DOMAIN Sources
           /\ deployment \in Deployments
           /\ Version \subseteq File /\ Version \subseteq Nat /\ None \in File /\ Broken \in File
           /\ None \notin Version /\ Broken \notin Version /\ None # Broken
           /\ \A s \in Sites : serves[s] \in Version
           /\ SitesUsed \subseteq Sites
           /\ serves \in [Sites -> Version] /\ download \in Files /\ cache \in Files /\ applied \in Files
<1>1. deployment \in Deployments
  BY DEF FetchInv, FetchTypeOK
<1>2. /\ Len(Sources) \in Nat /\ DOMAIN Sources = 1..Len(Sources) /\ 1 \in DOMAIN Sources
      /\ SitesUsed \subseteq Sites
  BY <1>1, SourcesTyped
<1> QED BY <1>1, <1>2, FileAssumption, BoundsAssumption
        DEF FetchInv, FetchTypeOK, Version, File

\* While a source is tried, it is one of the deployment's.
LEMMA SourceKnown ==
    ASSUME FetchInv, fetch.at \in {"try", "second"}
    PROVE  /\ fetch.i \in DOMAIN Sources
           /\ Source.site \in SitesUsed /\ Source.kind \in Kinds
           /\ serves[Source.site] \in Version /\ serves[Source.site] <= Offered
<1>1. fetch.i \in DOMAIN Sources
  BY DEF FetchInv, FetchTypeOK
<1>2. Source.site \in SitesUsed /\ Source.site \in Sites /\ Source.kind \in Kinds
  BY <1>1, Known, SourcesTyped DEF Source
<1> QED BY <1>1, <1>2, Known DEF FetchInv, PublishedInv

\* What a node runs is never newer than what its one source serves.
LEMMA OneSourceAhead ==
    ASSUME FetchInv, ~MayLag, NEW s \in SitesUsed
    PROVE  NotOlder(serves[s])
<1>1. s = Sources[1].site
  BY Known, OneSite
<1>2. serves[s] \in Version /\ serves[s] = Offered
  BY <1>1, Known DEF Offered
<1> QED BY <1>2 DEF FetchInv, PublishedInv, NotOlder

\* `git clone` or `git fetch` and `git reset --hard`.
LEMMA GitFetched == ASSUME FetchInv, FetchGit PROVE FetchInv'
<1> USE DEF FetchInv
<1>1. UNCHANGED <<serves, reachable, download, cache, failures, applied, left, deployment>>
  BY DEF FetchGit, worldVars
<1>2. Sources' = Sources /\ SitesUsed' = SitesUsed /\ MayLag' = MayLag
  BY <1>1, SourcesKept
<1>3. fetch' = [at |-> "cacheBird", i |-> fetch.i, dir |-> "git"] /\ fetch.i \in DOMAIN Sources
  BY SourceKnown DEF FetchGit, Trying, Fetched, FetchTypeOK
<1>4. GitSite \in SitesUsed
  BY SourceKnown DEF FetchGit, Trying, GitSite, PublishedInv, CloneOK
<1>5. clone' = [origin |-> GitSite, version |-> serves[GitSite]]
  BY DEF FetchGit
<1>6. CloneOK'
  BY <1>1, <1>2, <1>4, <1>5, Known DEF CloneOK, Offered, PublishedInv, Version
<1>7. FetchTyped'
  BY <1>2, <1>3, Known DEF FetchTyped, FetchPoints, Kinds
<1>8. FetchTypeOK'
  BY <1>1, <1>6, <1>7 DEF FetchTypeOK, FetchTyped, CloneOK, Files, File, Version
<1>9. PublishedInv' /\ DirInv'
  BY <1>1, <1>2, <1>3, <1>6 DEF PublishedInv, DirInv, Offered, Version, Kinds
<1>10. AheadInv'
  <2>1. Content'.wg = serves[GitSite]
    BY <1>3, <1>5 DEF Content, Both
  <2> QED BY <1>1, <1>2, <1>3, <1>4, <2>1, OneSourceAhead DEF AheadInv, NotOlder, Version
<1> QED BY <1>8, <1>9, <1>10

\* The two requests of fetchHTTP.
LEMMA HttpFetched == ASSUME FetchInv, FetchHTTPFirst \/ FetchHTTPSecond PROVE FetchInv'
<1> USE DEF FetchInv
<1>1. UNCHANGED <<serves, reachable, clone, cache, failures, applied, left, deployment>>
  BY DEF FetchHTTPFirst, FetchHTTPSecond, worldVars
<1>2. Sources' = Sources /\ SitesUsed' = SitesUsed /\ MayLag' = MayLag
  BY <1>1, SourcesKept
<1>3. /\ fetch.i \in DOMAIN Sources
      /\ Source.site \in SitesUsed /\ serves[Source.site] \in Version
      /\ serves[Source.site] <= Offered
  BY SourceKnown DEF FetchHTTPFirst, FetchHTTPSecond, Trying
<1>4. CASE FetchHTTPFirst
  <2>1. fetch' = [at |-> "second", i |-> fetch.i, dir |-> fetch.dir]
        /\ download' = [bird |-> serves[Source.site], wg |-> download.wg]
    BY <1>4, Known DEF FetchHTTPFirst, FetchTypeOK, Files
  <2>2. FetchTyped'
    BY <1>2, <1>3, <2>1, Known DEF FetchTyped, FetchPoints, FetchTypeOK
  <2>3. download' \in Files
    BY <1>3, <2>1, Known DEF Files
  <2>4. FetchTypeOK'
    BY <1>1, <2>2, <2>3 DEF FetchTypeOK, FetchTyped, Files, File, Version
  <2>5. PublishedInv' /\ DirInv' /\ AheadInv'
    BY <1>1, <1>2, <2>1
    DEF PublishedInv, CloneOK, DirInv, AheadInv, NotOlder, Chosen, Offered, Version
  <2> QED BY <2>4, <2>5
<1>5. CASE FetchHTTPSecond
  <2>1. fetch' = [at |-> "cacheBird", i |-> fetch.i, dir |-> "http"]
        /\ download' = [bird |-> download.bird, wg |-> serves[Source.site]]
    BY <1>5, Known DEF FetchHTTPSecond, Fetched, FetchTypeOK, Files
  <2>2. FetchTyped'
    BY <1>2, <1>3, <2>1, Known DEF FetchTyped, FetchPoints, Kinds
  <2>3. download' \in Files
    BY <1>3, <2>1, Known DEF Files
  <2>4. FetchTypeOK'
    BY <1>1, <2>2, <2>3 DEF FetchTypeOK, FetchTyped, Files, File, Version
  <2>5. PublishedInv' /\ DirInv'
    BY <1>1, <1>2, <1>3, <2>1, Known
    DEF PublishedInv, CloneOK, DirInv, Chosen, Offered, Version, Kinds
  <2>6. AheadInv'
    <3>1. Content'.wg = serves[Source.site]
      BY <2>1 DEF Content
    <3> QED BY <1>1, <1>2, <1>3, <2>1, <3>1, OneSourceAhead DEF AheadInv, NotOlder, Version
  <2> QED BY <2>4, <2>5, <2>6
<1> QED BY <1>4, <1>5

\* A local directory is taken as it is.
LEMMA LocalFetched == ASSUME FetchInv, FetchLocal PROVE FetchInv'
<1> USE DEF FetchInv
<1>1. UNCHANGED <<serves, reachable, clone, download, cache, failures, applied, left, deployment>>
  BY DEF FetchLocal, worldVars
<1>2. Sources' = Sources /\ SitesUsed' = SitesUsed /\ MayLag' = MayLag
  BY <1>1, SourcesKept
<1>3. /\ fetch.i \in DOMAIN Sources /\ Source.kind = "local"
      /\ fetch' = [at |-> "cacheBird", i |-> fetch.i, dir |-> "local"]
  BY SourceKnown DEF FetchLocal, Trying, Fetched, FetchTypeOK
<1>4. FetchTyped'
  BY <1>2, <1>3, Known DEF FetchTyped, FetchPoints, Kinds
<1>5. FetchTypeOK'
  BY <1>1, <1>4 DEF FetchTypeOK, FetchTyped, Files, File, Version
<1>6. PublishedInv' /\ DirInv'
  BY <1>1, <1>2, <1>3 DEF PublishedInv, CloneOK, DirInv, Offered, Source, Version, Kinds
<1>7. MayLag
  BY <1>3, Known, OneSite DEF Source, MayLag
<1> QED BY <1>2, <1>5, <1>6, <1>7 DEF AheadInv

\* A fault spends its budget and nothing else of it.
LEMMA Spent ==
    ASSUME FetchInv, NEW e \in FetchEvent, Spend(e)
    PROVE  /\ left' \in [FetchEvent -> Nat] /\ deployment' = deployment
           /\ \A x \in FetchEvent : left'[x] <= deployment.budget[x]
           /\ e # "disk" => left'.disk = left.disk
<1>1. /\ left' = [left EXCEPT ![e] = @ - 1] /\ left[e] > 0 /\ deployment' = deployment
  BY DEF Spend
<1>2. left \in [FetchEvent -> Nat] /\ "disk" \in FetchEvent
  BY DEF FetchInv, FetchTypeOK, FetchEvent
<1>3. \A x \in FetchEvent : left'[x] \in Nat /\ left'[x] <= left[x]
  BY <1>1, <1>2
<1>4. deployment.budget \in [FetchEvent -> Nat]
  BY Known, DeploymentsAssumption
<1>5. \A x \in FetchEvent : left'[x] <= deployment.budget[x]
  BY <1>2, <1>3, <1>4 DEF FetchInv, FetchTypeOK
<1>6. left' \in [FetchEvent -> Nat]
  BY <1>1, <1>2, <1>3
<1> QED BY <1>1, <1>2, <1>5, <1>6

\* What a source that fails may leave behind, whether it is the last or not: a
\* clone that is up to date, and less of the budget for outages.
LEMMA SourceFailed ==
    ASSUME FetchInv, SourceFails
    PROVE  /\ deployment' = deployment /\ left' \in [FetchEvent -> Nat]
           /\ \A e \in FetchEvent : left'[e] <= deployment.budget[e]
           /\ left'.disk = left.disk /\ left'.crash = left.crash
           /\ Sources' = Sources /\ SitesUsed' = SitesUsed /\ MayLag' = MayLag
           /\ serves' = serves => (clone' # None => CloneOK')
<1>1. deployment' = deployment
  BY DEF SourceFails, Spend, worldVars
<1>2. /\ left' \in [FetchEvent -> Nat] /\ left'.disk = left.disk /\ left'.crash = left.crash
      /\ \A e \in FetchEvent : left'[e] <= deployment.budget[e]
  <2>1. CASE left' = left
    BY <2>1 DEF FetchInv, FetchTypeOK
  <2>2. CASE Spend("outage")
    <3>1. left' = [left EXCEPT !["outage"] = @ - 1] /\ left \in [FetchEvent -> Nat]
      BY <2>2 DEF Spend, FetchInv, FetchTypeOK
    <3>2. left'.crash = left.crash
      BY <3>1 DEF FetchEvent
    <3> QED BY <2>2, <3>2, Spent DEF FetchEvent
  <2> QED BY <2>1, <2>2 DEF SourceFails, worldVars
<1>3. Sources' = Sources /\ SitesUsed' = SitesUsed /\ MayLag' = MayLag
  BY <1>1, <1>2, SourcesKept DEF MayLag, NoFullDisk
<1>4. ASSUME serves' = serves, clone' # None PROVE CloneOK'
  <2>1. CASE clone' = clone
    BY <1>3, <1>4, <2>1 DEF FetchInv, PublishedInv, CloneOK, Offered, Version
  <2>2. CASE Trying("git") /\ clone' = [origin |-> GitSite, version |-> serves[GitSite]]
    <3>1. GitSite \in SitesUsed
      BY <2>2, SourceKnown DEF Trying, GitSite, FetchInv, PublishedInv, CloneOK
    <3> QED BY <1>3, <1>4, <2>2, <3>1, Known
            DEF CloneOK, Offered, FetchInv, PublishedInv, Version
  <2> QED BY <2>1, <2>2 DEF SourceFails
<1> QED BY <1>1, <1>2, <1>3, <1>4

\* After a source that failed comes the next one or, when there is none, the cache.
LEMMA WentOn == ASSUME FetchInv, NextSource \/ NoSourceLeft PROVE FetchInv'
<1> USE DEF FetchInv
<1>1. UNCHANGED <<serves, reachable, download, cache, applied>> /\ SourceFails
  BY DEF NextSource, NoSourceLeft
<1>2. /\ Sources' = Sources /\ SitesUsed' = SitesUsed /\ MayLag' = MayLag
      /\ deployment' = deployment /\ left' \in [FetchEvent -> Nat]
      /\ \A e \in FetchEvent : left'[e] <= deployment.budget[e]
      /\ clone' # None => CloneOK'
  BY <1>1, SourceFailed
<1>3. \/ fetch'.at = "applyWg" /\ fetch'.dir = "cache"
      \/ fetch'.at \notin Chosen
  <2>1. CASE NextSource
    <3>1. fetch' = [at |-> "try", i |-> fetch.i + 1, dir |-> fetch.dir]
      BY <2>1 DEF NextSource, FetchTypeOK
    <3> QED BY <3>1 DEF Chosen
  <2>2. CASE NoSourceLeft
    BY <2>2 DEF NoSourceLeft, Idle, Chosen
  <2> QED BY <2>1, <2>2
<1>4. FetchTyped'
  <2>1. CASE NextSource
    <3>1. fetch.i \in 0..Len(Sources) /\ fetch.i < Len(Sources)
      BY <2>1 DEF NextSource, FetchTypeOK
    <3>2. fetch' = [at |-> "try", i |-> fetch.i + 1, dir |-> fetch.dir]
      BY <2>1 DEF NextSource, FetchTypeOK
    <3>3. fetch.i + 1 \in 1..Len(Sources)
      BY <3>1, Known
    <3> QED BY <1>2, <3>2, <3>3, Known DEF FetchTypeOK, FetchTyped, FetchPoints
  <2>2. CASE NoSourceLeft
    <3>1. \/ fetch' = [at |-> "applyWg", i |-> 0, dir |-> "cache"]
          \/ fetch' = [at |-> "error", i |-> 0, dir |-> None]
      BY <2>2 DEF NoSourceLeft, Idle
    <3> QED BY <1>2, <3>1, Known DEF FetchTyped, FetchPoints
  <2> QED BY <2>1, <2>2
<1>5. failures' \in 0..MaxFailures
  BY BoundsAssumption DEF NextSource, NoSourceLeft, FetchTypeOK
<1>6. FetchTypeOK'
  BY <1>1, <1>2, <1>4, <1>5 DEF FetchTypeOK, FetchTyped, CloneOK, Files, File, Version
<1>7. PublishedInv'
  BY <1>1, <1>2 DEF PublishedInv, Offered, Version
<1>8. DirInv'
  BY <1>3 DEF DirInv, Chosen, Kinds
<1>9. fetch'.at = "applyWg" => Content' = cache
  BY <1>1, <1>3 DEF Content, Chosen
<1>10. AheadInv'
  BY <1>1, <1>2, <1>3, <1>9 DEF AheadInv, NotOlder, Chosen, Version
<1> QED BY <1>6, <1>7, <1>8, <1>10

\* updateCache, whether its writes succeed or not.
LEMMA Cached == ASSUME FetchInv, CacheBird \/ CacheWg \/ CacheFails PROVE FetchInv'
<1> USE DEF FetchInv
<1>1. UNCHANGED <<serves, reachable, clone, download, applied, deployment>>
  BY DEF CacheBird, CacheWg, CacheFails, Spend, worldVars
<1>2. Sources' = Sources /\ SitesUsed' = SitesUsed
  BY <1>1, SourcesKept
<1>3. /\ fetch.at \in {"cacheBird", "cacheWg"} /\ fetch.i \in DOMAIN Sources
      /\ fetch.dir \in Kinds /\ fetch.dir # "cache"
  BY DEF CacheBird, CacheWg, CacheFails, FetchTypeOK, DirInv, Chosen, Kinds
<1>4. Content \in Files /\ (Content.wg \in Version => Content.wg <= Offered)
  BY <1>3, ContentTyped DEF Chosen
<1>5. Source' = Source
  BY <1>2, <1>3 DEF CacheBird, CacheWg, CacheFails, FetchTypeOK, Source
<1>6. \E at \in {"cacheWg", "applyWg"} : fetch' = [fetch EXCEPT !.at = at]
  BY DEF CacheBird, CacheWg, CacheFails
<1>7. FetchTyped' /\ fetch'.dir = fetch.dir /\ fetch'.i = fetch.i
  BY <1>2, <1>3, <1>6 DEF FetchTypeOK, FetchTyped, FetchPoints
<1>8. Content' = Content
  BY <1>1, <1>3, <1>5, <1>7 DEF Content, Kinds
<1>9. /\ cache' \in Files /\ failures' \in 0..MaxFailures /\ left' \in [FetchEvent -> Nat]
      /\ cache'.wg \in {cache.wg, Content.wg, Broken}
      /\ \A e \in FetchEvent : left'[e] <= deployment.budget[e]
  <2>1. CASE CacheBird
    BY <1>4, <2>1 DEF CacheBird, FetchTypeOK, Files, worldVars
  <2>2. CASE CacheWg
    <3>1. cache' = [cache EXCEPT !.wg = Content.wg] /\ failures' = 0 /\ left' = left
      BY <2>2 DEF CacheWg, worldVars
    <3>2. cache' \in Files /\ cache'.wg = Content.wg
      BY <1>4, <3>1, Known DEF Files
    <3> QED BY <3>1, <3>2, BoundsAssumption DEF FetchTypeOK
  <2>3. CASE CacheFails
    <3>1. cache' \in {cache, CutOff} /\ failures' = 0 /\ Spend("disk")
      BY <2>3 DEF CacheFails
    <3>2. cache' \in Files /\ cache'.wg \in {cache.wg, Broken}
      BY <3>1, Known DEF CutOff, Files
    <3> QED BY <3>1, <3>2, Spent, BoundsAssumption DEF FetchEvent
  <2> QED BY <2>1, <2>2, <2>3 DEF CacheBird, CacheWg, CacheFails
<1>10. FetchTypeOK'
  BY <1>1, <1>7, <1>9 DEF FetchTypeOK, FetchTyped, Files, File, Version
<1>11. PublishedInv'
  BY <1>1, <1>2, <1>4, <1>9, Known DEF PublishedInv, CloneOK, Offered, Version
<1>12. DirInv'
  BY <1>1, <1>2, <1>3, <1>5, <1>6, <1>7 DEF DirInv, CloneOK, Chosen, Offered, Version, Kinds
<1>13. AheadInv'
  <2>1. CASE CacheFails
    <3>1. left'.disk = left.disk - 1 /\ left.disk \in Nat /\ left.disk <= deployment.budget.disk
      BY <2>1 DEF CacheFails, Spend, FetchTypeOK, FetchEvent
    <3>2. deployment.budget.disk \in Nat
      BY Known, DeploymentsAssumption DEF FetchEvent
    <3>3. MayLag'
      BY <1>1, <3>1, <3>2 DEF MayLag, NoFullDisk
    <3> QED BY <3>3 DEF AheadInv
  <2>2. CASE CacheBird
    <3>1. MayLag' = MayLag /\ fetch'.at = "cacheWg" /\ cache'.wg = cache.wg
      BY <2>2, <1>1, SourcesKept DEF CacheBird, FetchTypeOK, worldVars, Files
    <3> QED BY <1>1, <1>3, <1>8, <3>1 DEF AheadInv, NotOlder, Version
  <2>3. CASE CacheWg
    <3>1. MayLag' = MayLag /\ cache'.wg = Content.wg
      BY <2>3, <1>1, SourcesKept DEF CacheWg, FetchTypeOK, worldVars, Files
    <3> QED BY <1>1, <1>3, <1>8, <3>1 DEF AheadInv, NotOlder, Version
  <2> QED BY <2>1, <2>2, <2>3
<1> QED BY <1>10, <1>11, <1>12, <1>13

\* Apply takes wireguard.json, then BIRD's file.
LEMMA WgApplied == ASSUME FetchInv, ApplyWg PROVE FetchInv'
<1> USE DEF FetchInv
<1>1. UNCHANGED <<serves, reachable, clone, download, cache, failures, left, deployment>>
  BY DEF ApplyWg, worldVars
<1>2. Sources' = Sources /\ SitesUsed' = SitesUsed /\ MayLag' = MayLag
  BY <1>1, SourcesKept
<1>3. /\ fetch.at = "applyWg" /\ fetch' = [fetch EXCEPT !.at = "applyBird"]
      /\ applied' = [applied EXCEPT !.wg = Taken(@, Content.wg)] /\ Content.wg # Broken
  BY DEF ApplyWg
<1>4. FetchTyped' /\ fetch'.at = "applyBird" /\ fetch'.dir = fetch.dir /\ fetch'.i = fetch.i
  BY <1>2, <1>3 DEF FetchTypeOK, FetchTyped, FetchPoints
<1>5. Content \in Files /\ (Content.wg \in Version => Content.wg <= Offered)
  BY <1>3, ContentTyped DEF Chosen
<1>6. /\ applied' \in Files /\ applied'.wg \in {applied.wg, Content.wg}
      /\ Content.wg # None => applied'.wg = Content.wg
      /\ Content.wg = None => applied'.wg = applied.wg
  BY <1>3, <1>5, Known DEF Taken, Files
<1>7. FetchTypeOK'
  BY <1>1, <1>4, <1>6 DEF FetchTypeOK, FetchTyped, Files, File, Version
<1>8. PublishedInv'
  BY <1>1, <1>2, <1>3, <1>5, <1>6 DEF PublishedInv, CloneOK, Offered, Version
<1>9. DirInv'
  BY <1>1, <1>2, <1>3, <1>4 DEF DirInv, CloneOK, Chosen, Offered, Source, Version
<1>10. AheadInv'
  BY <1>1, <1>2, <1>3, <1>4, <1>6 DEF AheadInv, NotOlder, Version
<1> QED BY <1>7, <1>8, <1>9, <1>10

LEMMA BirdApplied == ASSUME FetchInv, ApplyBird PROVE FetchInv'
<1> USE DEF FetchInv
<1>1. UNCHANGED <<serves, reachable, clone, download, cache, failures, left, deployment>>
  BY DEF ApplyBird, worldVars
<1>2. Sources' = Sources /\ SitesUsed' = SitesUsed /\ MayLag' = MayLag
  BY <1>1, SourcesKept
<1>3. /\ fetch.at = "applyBird" /\ fetch' = Idle
      /\ applied' = [applied EXCEPT !.bird = Taken(@, Content.bird)]
  BY DEF ApplyBird
<1>4. FetchTyped' /\ fetch'.at \notin Chosen
  BY <1>2, <1>3, Known DEF Idle, FetchTyped, FetchPoints, Chosen
<1>5. Content \in Files
  BY <1>3, ContentTyped DEF Chosen
<1>6. applied' \in Files /\ applied'.wg = applied.wg
  BY <1>3, <1>5, Known DEF Taken, Files
<1>7. FetchTypeOK'
  BY <1>1, <1>4, <1>6 DEF FetchTypeOK, FetchTyped, Files, File, Version
<1>8. PublishedInv' /\ DirInv' /\ AheadInv'
  BY <1>1, <1>2, <1>4, <1>6
  DEF PublishedInv, CloneOK, DirInv, AheadInv, NotOlder, Chosen, Offered, Version
<1> QED BY <1>7, <1>8

-----------------------------------------------------------------------------
\* A site may have published before a round reads it, at any point of the round.
LEMMA Published == ASSUME FetchInv, NEW site \in SitesUsed, Publish(site) PROVE FetchInv'
<1> USE DEF FetchInv
<1>1. UNCHANGED <<reachable, clone, download, cache, failures, fetch, applied, left, deployment>>
  BY DEF Publish, worldVars
<1>2. Sources' = Sources /\ SitesUsed' = SitesUsed /\ MayLag' = MayLag
  BY <1>1, SourcesKept
<1>3. site \in Sites /\ Sources[1].site \in Sites /\ Sources[1].site \in SitesUsed
  BY Known, SourcesTyped
<1>4. /\ serves' = [serves EXCEPT ![site] = @ + 1]
      /\ serves[site] < IF site = Sources[1].site THEN MaxVersion ELSE Offered
  BY DEF Publish, Offered
<1>5. serves[site] \in Nat /\ Offered \in Nat /\ Offered <= MaxVersion
  BY <1>3, Known DEF Offered, Version
<1>6. serves' \in [Sites -> Version]
  BY <1>3, <1>4, <1>5, Known, BoundsAssumption DEF Version
<1>7. Offered <= Offered' /\ Offered' \in Nat
  BY <1>2, <1>3, <1>4, <1>5, <1>6, Known DEF Offered, Version
<1>8. \A s \in SitesUsed : serves'[s] <= Offered'
  <2> TAKE s \in SitesUsed
  <2>1. CASE s = site
    BY <1>2, <1>3, <1>4, <1>5, <2>1, Known DEF Offered
  <2>2. CASE s # site
    BY <1>3, <1>4, <1>5, <1>7, <2>2, Known DEF PublishedInv, Version
  <2> QED BY <2>1, <2>2
<1>9. FetchTypeOK'
  BY <1>1, <1>2, <1>6 DEF FetchTypeOK, Files, File, Version
<1>10. PublishedInv'
  BY <1>1, <1>2, <1>5, <1>7, <1>8 DEF PublishedInv, CloneOK, Version
<1>11. DirInv'
  BY <1>1, <1>2, <1>5, <1>7 DEF DirInv, CloneOK, Source, Version
<1>12. AheadInv'
  <2>1. CASE fetch.dir = "local" /\ fetch.at \in Chosen
    BY <1>2, <2>1, Known, OneSite DEF DirInv, Source, MayLag, AheadInv
  <2>2. CASE fetch.dir # "local" /\ fetch.at \in Chosen
    <3>1. Content' = Content
      BY <1>1, <2>2 DEF Content, DirInv, Kinds
    <3> QED BY <1>1, <1>2, <3>1 DEF AheadInv, NotOlder, Version
  <2>3. CASE fetch.at \notin Chosen
    BY <1>1, <1>2, <2>3 DEF AheadInv, NotOlder, Chosen, Version
  <2> QED BY <2>1, <2>2, <2>3
<1> QED BY <1>9, <1>10, <1>11, <1>12

\* The network does not touch the node's files.
LEMMA NetworkMoves ==
    ASSUME FetchInv, NEW site \in SitesUsed, Outage(site) \/ Recovery(site)
    PROVE  FetchInv'
<1> USE DEF FetchInv
<1>1. UNCHANGED <<serves, clone, download, cache, failures, fetch, applied, deployment>>
  BY DEF Outage, Recovery, Spend, worldVars
<1>2. /\ left' \in [FetchEvent -> Nat] /\ left'.disk = left.disk
      /\ \A e \in FetchEvent : left'[e] <= deployment.budget[e]
  BY Spent DEF Outage, Recovery, FetchEvent, FetchTypeOK, worldVars
<1>3. Sources' = Sources /\ SitesUsed' = SitesUsed /\ MayLag' = MayLag
  BY <1>1, <1>2, SourcesKept DEF MayLag, NoFullDisk
<1>4. reachable' \subseteq Sites
  BY Known DEF Outage, Recovery, FetchTypeOK
<1>5. FetchTypeOK'
  BY <1>1, <1>2, <1>3, <1>4 DEF FetchTypeOK, Files, File, Version
<1>6. PublishedInv' /\ DirInv'
  BY <1>1, <1>3 DEF PublishedInv, CloneOK, DirInv, Offered, Source, Version
<1>7. AheadInv'
  <2>1. Content' = Content
    BY <1>1, <1>3 DEF Content, Source
  <2> QED BY <1>1, <1>3, <2>1 DEF AheadInv, NotOlder, Version
<1> QED BY <1>5, <1>6, <1>7

\* A crash ends the round and may cut the file that was being cached.
LEMMA Crashed == ASSUME FetchInv, Crash PROVE FetchInv'
<1> USE DEF FetchInv
<1>1. UNCHANGED <<serves, reachable, clone, download, applied, deployment>>
  BY DEF Crash, Spend
<1>2. /\ left' \in [FetchEvent -> Nat] /\ left'.disk = left.disk
      /\ \A e \in FetchEvent : left'[e] <= deployment.budget[e]
  BY Spent DEF Crash, FetchEvent
<1>3. Sources' = Sources /\ SitesUsed' = SitesUsed /\ MayLag' = MayLag
  BY <1>1, <1>2, SourcesKept DEF MayLag, NoFullDisk
<1>4. fetch' = Idle /\ failures' = 0 /\ cache' \in {cache, CutOff}
  BY DEF Crash
<1>5. cache' \in Files /\ cache'.wg \in {cache.wg, Broken}
  BY <1>4, Known DEF CutOff, Files
<1>6. FetchTyped' /\ fetch'.at \notin Chosen
  BY <1>3, <1>4, Known DEF Idle, FetchTyped, FetchPoints, Chosen
<1>7. FetchTypeOK'
  BY <1>1, <1>2, <1>4, <1>5, <1>6, BoundsAssumption DEF FetchTypeOK, FetchTyped, Files, File, Version
<1>8. PublishedInv' /\ DirInv' /\ AheadInv'
  BY <1>1, <1>3, <1>5, <1>6, Known
  DEF PublishedInv, CloneOK, DirInv, AheadInv, NotOlder, Chosen, Offered, Version
<1> QED BY <1>7, <1>8

LEMMA NextInv == ASSUME FetchInv, [FetchNext]_vars PROVE FetchInv'
<1>1. CASE SyncStep
  BY <1>1, RoundMoves, GitFetched, HttpFetched, LocalFetched, WentOn, Cached,
     WgApplied, BirdApplied DEF SyncStep
<1>2. CASE \E site \in SitesUsed : Publish(site) \/ Outage(site) \/ Recovery(site)
  BY <1>2, Published, NetworkMoves
<1>3. CASE Crash
  BY <1>3, Crashed
<1>4. CASE UNCHANGED vars
  <2>1. UNCHANGED <<serves, reachable, clone, download, cache, failures, fetch, applied,
                   left, deployment>>
    BY <1>4 DEF vars, worldVars
  <2>2. /\ Sources' = Sources /\ SitesUsed' = SitesUsed /\ MayLag' = MayLag
    BY <2>1, SourcesKept
  <2>3. Content' = Content /\ Source' = Source
    BY <2>1, <2>2 DEF Content, Source
  <2>4. FetchTypeOK'
    BY <2>1, <2>2 DEF FetchInv, FetchTypeOK, Files, File, Version
  <2> QED BY <2>1, <2>2, <2>3, <2>4
          DEF FetchInv, PublishedInv, CloneOK, DirInv, AheadInv, NotOlder, Offered, Version
<1> QED BY <1>1, <1>2, <1>3, <1>4 DEF FetchNext

-----------------------------------------------------------------------------
\* The types of the node's state, whatever fails or crashes.
THEOREM FetchTypeCorrect == FetchSpec => []FetchTypeOK
<1>1. FetchInv => FetchTypeOK
  BY DEF FetchInv
<1> QED BY InitInv, NextInv, <1>1, PTL DEF FetchSpec

\* Fetch and Apply implement the abstract node: WireGuard is given published
\* configurations only, and an older one than it has only when a second source,
\* a live directory or a full disk allows it.
THEOREM NodeConfigImplemented == FetchSpec => NodeConfigKept
<1>1. FetchInit => Node!NodeInit
  <2> SUFFICES ASSUME FetchInit PROVE Node!NodeInit
    OBVIOUS
  <2>1. serves[Sources[1].site] = 1
    BY SourcesTyped DEF FetchInit
  <2>2. applied.wg = None /\ MayLag \in BOOLEAN
    BY DEF FetchInit, NoFiles, MayLag
  <2> QED BY <2>1, <2>2 DEF Node!NodeInit
<1>2. FetchInv /\ FetchInv' /\ [FetchNext]_vars => [Node!NodeNext]_(Node!vars)
  <2> SUFFICES ASSUME FetchInv, FetchInv', [FetchNext]_vars
               PROVE  Node!NodeNext \/ UNCHANGED Node!vars
    OBVIOUS
  <2> DEFINE Same == Offered' = Offered /\ applied'.wg = applied.wg
  <2>1. Same /\ MayLag' = MayLag => UNCHANGED Node!vars
    BY DEF Node!vars, Offered
  <2>2. CASE ApplyWg
    <3>1. UNCHANGED <<serves, left, deployment>> /\ fetch.at = "applyWg" /\ Content.wg # Broken
          /\ applied' = [applied EXCEPT !.wg = Taken(@, Content.wg)]
      BY <2>2 DEF ApplyWg, worldVars
    <3>2. Content \in Files /\ (Content.wg \in Version => Content.wg <= Offered)
      BY <3>1, ContentTyped DEF FetchInv, Chosen
    <3>3. applied'.wg = Taken(applied.wg, Content.wg)
      BY <3>1, Known DEF Files
    <3>4. Offered' = Offered /\ MayLag' = MayLag
      BY <3>1, SourcesKept DEF Offered
    <3>5. CASE Content.wg = None
      BY <2>1, <3>3, <3>4, <3>5 DEF Taken
    <3>6. CASE Content.wg \in Version
      <4>1. applied'.wg = Content.wg
        BY <3>3, <3>6, Known DEF Taken
      <4>2. Content.wg \in 1..Offered
        BY <3>2, <3>6, SourcesTyped, Known DEF Offered, Version
      <4>3. applied.wg = None \/ applied.wg \in Version
        BY Known DEF FetchInv, PublishedInv, Files, File
      <4>4. ~MayLag /\ applied.wg # None => Content.wg >= applied.wg
        BY <3>1, <3>6, <4>3 DEF FetchInv, AheadInv, NotOlder
      <4>5. Node!Take(Content.wg)
        BY <3>4, <4>1, <4>4 DEF Node!Take, Offered
      <4> QED BY <4>2, <4>5 DEF Node!NodeNext, Offered
    <3> QED BY <3>1, <3>2, <3>5, <3>6 DEF Files, File
  <2>3. CASE CacheFails
    <3>1. UNCHANGED <<serves, applied, deployment>>
      BY <2>3 DEF CacheFails, Spend
    <3>2. Same
      BY <3>1, SourcesKept DEF Offered
    <3>3. CASE MayLag' = MayLag
      BY <2>1, <3>2, <3>3
    <3>4. CASE MayLag' # MayLag
      <4>1. left'.disk < left.disk /\ left.disk <= deployment.budget.disk
            /\ left'.disk \in Nat /\ left.disk \in Nat
        BY <2>3 DEF CacheFails, Spend, FetchInv, FetchTypeOK, FetchEvent
      <4>2. MayLag' = TRUE
        BY <3>1, <4>1 DEF MayLag, NoFullDisk
      <4> QED BY <3>2, <4>2 DEF Node!NodeNext, Node!Lapse, Offered
    <3> QED BY <3>3, <3>4
  <2>4. CASE \E site \in SitesUsed : Publish(site)
    <3>1. PICK site \in SitesUsed : Publish(site)
      BY <2>4
    <3>2. /\ UNCHANGED <<applied, left, deployment>>
          /\ serves' = [serves EXCEPT ![site] = @ + 1]
      BY <3>1 DEF Publish, worldVars
    <3>3. Sources' = Sources /\ MayLag' = MayLag
      BY <3>2, SourcesKept
    <3>4. serves \in [Sites -> Version] /\ Sources[1].site \in Sites /\ site \in Sites
      BY Known, SourcesTyped
    <3>5. CASE site = Sources[1].site
      <4>1. Offered' = Offered + 1
        BY <3>2, <3>3, <3>4, <3>5 DEF Offered
      <4> QED BY <3>2, <3>3, <4>1 DEF Node!NodeNext, Node!Offer, Offered
    <3>6. CASE site # Sources[1].site
      <4>1. Same
        BY <3>2, <3>3, <3>4, <3>6 DEF Offered
      <4> QED BY <2>1, <3>3, <4>1
    <3> QED BY <3>5, <3>6
  <2>5. CASE \E site \in SitesUsed : Outage(site) \/ Recovery(site)
    <3>1. /\ UNCHANGED <<serves, applied, deployment>> /\ left'.disk = left.disk
      BY <2>5, Spent DEF Outage, Recovery, FetchEvent, worldVars
    <3> QED BY <2>1, <3>1, SourcesKept DEF Offered, MayLag, NoFullDisk
  <2>6. CASE Crash
    <3>1. /\ UNCHANGED <<serves, applied, deployment>> /\ left'.disk = left.disk
      BY <2>6, Spent DEF Crash, FetchEvent
    <3> QED BY <2>1, <3>1, SourcesKept DEF Offered, MayLag, NoFullDisk
  <2>7. CASE ApplyBird
    <3>1. /\ UNCHANGED <<serves, left, deployment>> /\ applied'.wg = applied.wg
      BY <2>7, Known DEF ApplyBird, worldVars, Files
    <3> QED BY <2>1, <3>1, SourcesKept DEF Offered
  <2>8. CASE \/ StartFetch \/ FetchGit \/ FetchHTTPFirst \/ FetchHTTPSecond \/ FetchLocal
             \/ CacheBird \/ CacheWg \/ ApplyWgFails
    <3>1. UNCHANGED <<serves, applied, left, deployment>>
      BY <2>8 DEF StartFetch, FetchGit, FetchHTTPFirst, FetchHTTPSecond, FetchLocal, CacheBird, CacheWg, ApplyWgFails, worldVars
    <3> QED BY <2>1, <3>1, SourcesKept DEF Offered
  <2>9. CASE UNCHANGED vars
    BY <2>1, <2>9, SourcesKept DEF vars, worldVars, Offered
  <2>10. CASE NextSource \/ NoSourceLeft
    <3>1. UNCHANGED <<serves, applied>> /\ SourceFails
      BY <2>10 DEF NextSource, NoSourceLeft
    <3> QED BY <2>1, <3>1, SourceFailed DEF Offered
  <2> QED BY <2>2, <2>3, <2>4, <2>5, <2>6, <2>7, <2>8, <2>9, <2>10 DEF FetchNext, SyncStep
<1> QED BY <1>1, <1>2, InitInv, NextInv, PTL DEF FetchSpec, NodeConfigKept, Node!NodeSpec

-----------------------------------------------------------------------------
(***************************************************************************)
(* The cache outlives the agent.  KeptInv: what was downloaded, cached or  *)
(* applied leaves a cached file behind, and only a node that never applied *)
(* anything ends a round with an error.                                    *)
(***************************************************************************)
Downloaded ==
    /\ fetch.at = "second" => download.bird # None
    /\ fetch.at \in {"cacheBird", "cacheWg"} /\ fetch.dir = "http"
          => download.bird # None /\ download.wg # None

KeptInv ==
    /\ Downloaded
    /\ NoFullDisk =>
         /\ applied # NoFiles \/ fetch.at \in {"applyWg", "applyBird"} => cache # NoFiles
         /\ fetch.at = "error" /\ cache.wg # Broken => applied = NoFiles

\* A directory that is about to be cached has both files.
LEMMA ContentComplete ==
    ASSUME FetchInv, Downloaded, fetch.at \in {"cacheBird", "cacheWg"}
    PROVE  Content.bird # None /\ Content.wg # None
<1>1. fetch.dir \in Kinds
  BY DEF FetchInv, DirInv, Chosen
<1>2. CASE fetch.dir = "git"
  BY <1>2, Known, ContentIs DEF FetchInv, DirInv, CloneOK, Chosen
<1>3. CASE fetch.dir = "http"
  BY <1>3, ContentIs DEF Downloaded
<1>4. CASE fetch.dir = "local"
  <2>1. Source.site \in Sites
    BY <1>4, Known, SourcesTyped DEF FetchInv, DirInv, Chosen, Source
  <2> QED BY <1>4, <2>1, Known, ContentIs
<1> QED BY <1>1, <1>2, <1>3, <1>4 DEF Kinds

\* Steps that choose a directory or give up.
LEMMA RoundKept ==
    ASSUME FetchInv, KeptInv,
           \/ StartFetch \/ FetchGit \/ FetchHTTPFirst \/ FetchHTTPSecond \/ FetchLocal
           \/ NextSource \/ NoSourceLeft \/ ApplyWgFails
    PROVE  KeptInv'
<1>1. UNCHANGED <<cache, applied>> /\ NoFullDisk' = NoFullDisk
  <2>1. CASE NextSource \/ NoSourceLeft
    BY <2>1, SourceFailed DEF NextSource, NoSourceLeft, NoFullDisk
  <2>2. CASE \/ StartFetch \/ FetchGit \/ FetchHTTPFirst \/ FetchHTTPSecond \/ FetchLocal
             \/ ApplyWgFails
    BY <2>2, SourcesKept
    DEF StartFetch, FetchGit, FetchHTTPFirst, FetchHTTPSecond, FetchLocal, ApplyWgFails, worldVars
  <2> QED BY <2>1, <2>2
<1>2. fetch \in [at : FetchPoints, i : 0..Len(Sources), dir : Kinds \cup {"cache", None}]
  BY DEF FetchInv, FetchTypeOK
<1>3. CASE FetchHTTPFirst \/ FetchHTTPSecond
  <2>1. serves[Source.site] # None /\ download \in Files
    BY <1>3, Known, SourceKnown DEF FetchHTTPFirst, FetchHTTPSecond, Trying
  <2> QED BY <1>1, <1>2, <1>3, <2>1
          DEF FetchHTTPFirst, FetchHTTPSecond, Fetched, KeptInv, Downloaded, Files
<1>4. CASE StartFetch
  BY <1>1, <1>4 DEF StartFetch, KeptInv, Downloaded
<1>5. CASE FetchGit \/ FetchLocal
  <2>1. /\ fetch'.at = "cacheBird" /\ fetch'.dir # "http" /\ fetch.at = "try"
        /\ UNCHANGED download
    BY <1>2, <1>5 DEF FetchGit, FetchLocal, Trying, Fetched
  <2> QED BY <1>1, <2>1 DEF KeptInv, Downloaded
<1>6. CASE NextSource
  <2>1. fetch'.at = "try" /\ fetch.at \in {"try", "second"} /\ UNCHANGED download
    BY <1>2, <1>6 DEF NextSource, SourceFails
  <2> QED BY <1>1, <2>1 DEF KeptInv, Downloaded
<1>7. CASE NoSourceLeft
  BY <1>1, <1>7 DEF NoSourceLeft, Idle, KeptInv, Downloaded
<1>8. CASE ApplyWgFails
  <2>1. fetch.at = "applyWg" /\ Content.wg = Broken /\ fetch' = [Idle EXCEPT !.at = "error"]
    BY <1>8 DEF ApplyWgFails
  <2>2. cache.wg = Broken
    BY <2>1, ContentTyped, ContentIs DEF FetchInv, Chosen
  <2> QED BY <1>1, <2>1, <2>2 DEF Idle, KeptInv, Downloaded
<1> QED BY <1>3, <1>4, <1>5, <1>6, <1>7, <1>8

\* Steps that write the cache or read the chosen directory.
LEMMA ApplyKept ==
    ASSUME FetchInv, KeptInv,
           CacheBird \/ CacheWg \/ CacheFails \/ ApplyWg \/ ApplyBird
    PROVE  KeptInv'
<1>1. fetch \in [at : FetchPoints, i : 0..Len(Sources), dir : Kinds \cup {"cache", None}]
      /\ cache \in Files
  BY DEF FetchInv, FetchTypeOK
<1>2. CASE CacheBird \/ CacheWg
  <2>1. Content.bird # None /\ Content.wg # None
    BY <1>2, ContentComplete DEF CacheBird, CacheWg, KeptInv
  <2>2. UNCHANGED <<download, applied, left, deployment>> /\ NoFullDisk' = NoFullDisk
    BY <1>2, SourcesKept DEF CacheBird, CacheWg, worldVars
  <2>3. cache' # NoFiles
    BY <1>1, <1>2, <2>1 DEF CacheBird, CacheWg, NoFiles, Files
  <2> QED BY <1>1, <1>2, <2>2, <2>3 DEF CacheBird, CacheWg, KeptInv, Downloaded
<1>3. CASE CacheFails
  <2>1. left'.disk < left.disk /\ left.disk <= deployment.budget.disk
        /\ left'.disk \in Nat /\ left.disk \in Nat
    BY <1>3 DEF CacheFails, Spend, FetchInv, FetchTypeOK, FetchEvent
  <2>2. ~NoFullDisk'
    BY <1>3, <2>1 DEF CacheFails, Spend, NoFullDisk
  <2> QED BY <1>1, <1>3, <2>2 DEF CacheFails, KeptInv, Downloaded
<1>4. CASE ApplyWg \/ ApplyBird
  <2>1. UNCHANGED <<download, cache, left, deployment>> /\ NoFullDisk' = NoFullDisk
    BY <1>4, SourcesKept DEF ApplyWg, ApplyBird, worldVars
  <2> QED BY <1>1, <1>4, <2>1 DEF ApplyWg, ApplyBird, Idle, KeptInv, Downloaded
<1> QED BY <1>2, <1>3, <1>4

LEMMA EnvironmentKept ==
    ASSUME FetchInv, KeptInv,
           \/ Crash
           \/ \E site \in SitesUsed : Publish(site) \/ Outage(site) \/ Recovery(site)
           \/ UNCHANGED vars
    PROVE  KeptInv'
<1>1. CASE Crash
  <2>1. fetch' = Idle /\ cache' \in {cache, CutOff} /\ UNCHANGED <<applied, deployment>>
        /\ left'.disk = left.disk
    BY <1>1, Spent DEF Crash, FetchEvent
  <2>2. cache # NoFiles => cache' # NoFiles
    BY <2>1, Known DEF CutOff, NoFiles, Files
  <2> QED BY <2>1, <2>2 DEF Idle, KeptInv, Downloaded, NoFullDisk
<1>2. CASE \E site \in SitesUsed : Publish(site) \/ Outage(site) \/ Recovery(site)
  <2>1. /\ UNCHANGED <<download, cache, fetch, applied, deployment>>
        /\ left'.disk = left.disk
    BY <1>2, Spent DEF Publish, Outage, Recovery, FetchEvent, worldVars
  <2> QED BY <2>1 DEF KeptInv, Downloaded, NoFullDisk
<1>3. CASE UNCHANGED vars
  BY <1>3 DEF vars, worldVars, KeptInv, Downloaded, NoFullDisk
<1> QED BY <1>1, <1>2, <1>3

\* A node that once had a configuration finds one in its cache when every source
\* is down, however often the agent was restarted, unless the cache could not be
\* written or a crash cut it off.
THEOREM OfflineNodesConfigured == FetchSpec => []OfflineStillConfigured
<1>1. FetchInit => KeptInv
  BY DEF FetchInit, Idle, KeptInv, Downloaded
<1>2. FetchInv /\ KeptInv /\ [FetchNext]_vars => KeptInv'
  BY RoundKept, ApplyKept, EnvironmentKept DEF FetchNext, SyncStep
<1>3. KeptInv => OfflineStillConfigured
  BY DEF KeptInv, OfflineStillConfigured
<1> QED BY InitInv, NextInv, <1>1, <1>2, <1>3, PTL DEF FetchSpec

-----------------------------------------------------------------------------
(***************************************************************************)
(* BIRD's file.  What AheadInv says of wireguard.json holds of it too, with *)
(* one place more where it can be on its way: a download that has the      *)
(* first file and not yet the second.                                      *)
(***************************************************************************)
NotOlderBird(f) == f \in Version /\ applied.bird \in Version => f >= applied.bird

BirdPublished ==
    \A b \in {download.bird, cache.bird, applied.bird} : b \in Version => b <= Offered

BirdAhead ==
    ~MayLag =>
       /\ NotOlderBird(cache.bird)
       /\ fetch.at = "second" => NotOlderBird(download.bird)
       /\ fetch.at \in Chosen => NotOlderBird(Content.bird)
       /\ fetch.at \in Chosen \ {"cacheBird"} => Content.bird = cache.bird

BirdInv == BirdPublished /\ BirdAhead

\* The BIRD file of a chosen directory is not newer than the first source's.
LEMMA BirdContent ==
    ASSUME FetchInv, BirdPublished, fetch.at \in Chosen
    PROVE  /\ Content \in Files
           /\ Content.bird \in Version => Content.bird <= Offered
<1>1. Content \in Files
  BY ContentTyped DEF FetchInv
<1>2. CASE fetch.dir = "git"
  <2>1. Content.bird = clone.version
    BY <1>2, ContentIs
  <2>2. clone.version <= Offered
    BY <1>2 DEF FetchInv, DirInv, CloneOK
  <2> QED BY <1>1, <2>1, <2>2
<1>3. CASE fetch.dir = "http" \/ fetch.dir = "cache"
  <2>1. Content.bird \in {download.bird, cache.bird}
    BY <1>3, ContentIs
  <2> QED BY <1>1, <2>1 DEF BirdPublished
<1>4. CASE fetch.dir = "local"
  <2>1. Source.site \in SitesUsed
    BY <1>4, Known, SourcesTyped DEF FetchInv, DirInv, Source
  <2>2. Content.bird = serves[Source.site]
    BY <1>4, ContentIs
  <2> QED BY <1>1, <2>1, <2>2 DEF FetchInv, PublishedInv
<1> QED BY <1>2, <1>3, <1>4 DEF FetchInv, DirInv, Kinds

\* What BIRD runs is never newer than what the one source serves.
LEMMA OneSourceAheadOfBird ==
    ASSUME FetchInv, BirdPublished, ~MayLag, NEW s \in SitesUsed
    PROVE  NotOlderBird(serves[s])
<1>1. s = Sources[1].site
  BY Known, OneSite
<1>2. serves[s] \in Version /\ serves[s] = Offered
  BY <1>1, Known DEF Offered
<1> QED BY <1>2 DEF BirdPublished, NotOlderBird

\* Steps that end with no directory chosen: a round begins, goes on to the next
\* source, fails, or dies.
LEMMA BirdRound ==
    ASSUME FetchInv, BirdInv, StartFetch \/ NextSource \/ ApplyWgFails \/ Crash
    PROVE  BirdInv'
<1>1. UNCHANGED <<serves, download, applied, deployment>>
      /\ cache'.bird \in {cache.bird, Broken} /\ MayLag' = MayLag
  <2>1. CASE StartFetch \/ ApplyWgFails
    BY <2>1, SourcesKept DEF StartFetch, ApplyWgFails, worldVars
  <2>2. CASE NextSource
    BY <2>2, SourceFailed DEF NextSource
  <2>3. CASE Crash
    <3>1. cache' \in {cache, CutOff} /\ UNCHANGED <<serves, download, applied, deployment>>
      BY <2>3, Spent DEF Crash, FetchEvent
    <3>2. left'.disk = left.disk
      BY <2>3, Spent DEF Crash, FetchEvent
    <3>3. cache'.bird \in {cache.bird, Broken}
      BY <3>1, Known DEF CutOff, Files
    <3> QED BY <3>1, <3>2, <3>3, SourcesKept DEF MayLag, NoFullDisk
  <2> QED BY <2>1, <2>2, <2>3
<1>2. fetch'.at \in {"try", "idle", "error"}
  <2>1. CASE NextSource
    <3>1. fetch \in [at : FetchPoints, i : 0..Len(Sources), dir : Kinds \cup {"cache", None}]
      BY DEF FetchInv, FetchTypeOK
    <3>2. fetch' = [fetch EXCEPT !.at = "try", !.i = @ + 1]
      BY <2>1 DEF NextSource
    <3> QED BY <3>1, <3>2
  <2> QED BY <2>1 DEF StartFetch, ApplyWgFails, Crash, Idle
<1>3. Sources' = Sources
  BY <1>1, SourcesKept
<1> QED BY <1>1, <1>2, <1>3, Known
        DEF BirdInv, BirdPublished, BirdAhead, NotOlderBird, Chosen, Offered, Version

\* Steps that fetch, from whatever kind of source.
LEMMA BirdFetched ==
    ASSUME FetchInv, BirdInv,
           FetchGit \/ FetchHTTPFirst \/ FetchHTTPSecond \/ FetchLocal
    PROVE  BirdInv'
<1>1. UNCHANGED <<serves, cache, applied, left, deployment>>
  BY DEF FetchGit, FetchHTTPFirst, FetchHTTPSecond, FetchLocal, worldVars
<1>2. Sources' = Sources /\ SitesUsed' = SitesUsed /\ MayLag' = MayLag
  BY <1>1, SourcesKept
<1>3. fetch \in [at : FetchPoints, i : 0..Len(Sources), dir : Kinds \cup {"cache", None}]
  BY DEF FetchInv, FetchTypeOK
<1>4. /\ fetch.i \in DOMAIN Sources
      /\ Source.site \in SitesUsed /\ serves[Source.site] \in Version
      /\ serves[Source.site] <= Offered
  BY SourceKnown DEF FetchGit, FetchHTTPFirst, FetchHTTPSecond, FetchLocal, Trying
<1>5. CASE FetchGit
  <2>1. GitSite \in SitesUsed /\ UNCHANGED download
        /\ clone' = [origin |-> GitSite, version |-> serves[GitSite]]
    BY <1>4, <1>5 DEF FetchGit, GitSite, FetchInv, PublishedInv, CloneOK
  <2>2. fetch'.at = "cacheBird" /\ fetch'.dir = "git"
    BY <1>3, <1>5 DEF FetchGit, Fetched
  <2>3. Content'.bird = serves[GitSite]
    BY <2>1, <2>2 DEF Content, Both
  <2> QED BY <1>1, <1>2, <2>1, <2>2, <2>3, OneSourceAheadOfBird
          DEF BirdInv, BirdPublished, BirdAhead, NotOlderBird, Chosen, Offered, Version
<1>6. CASE FetchHTTPFirst
  <2>1. fetch'.at = "second" /\ download'.bird = serves[Source.site]
    BY <1>3, <1>6, Known DEF FetchHTTPFirst, Files
  <2> QED BY <1>1, <1>2, <1>4, <2>1, OneSourceAheadOfBird
          DEF BirdInv, BirdPublished, BirdAhead, NotOlderBird, Chosen, Offered, Version
<1>7. CASE FetchHTTPSecond
  <2>1. /\ fetch'.at = "cacheBird" /\ fetch'.dir = "http" /\ fetch.at = "second"
        /\ download'.bird = download.bird
    BY <1>3, <1>7, Known DEF FetchHTTPSecond, Fetched, Files
  <2>2. Content'.bird = download.bird
    BY <2>1 DEF Content
  <2> QED BY <1>1, <1>2, <2>1, <2>2
          DEF BirdInv, BirdPublished, BirdAhead, NotOlderBird, Chosen, Offered, Version
<1>8. CASE FetchLocal
  <2>1. MayLag /\ UNCHANGED download
    BY <1>4, <1>8, Known, OneSite DEF FetchLocal, Trying, Source, MayLag
  <2> QED BY <1>1, <1>2, <2>1 DEF BirdInv, BirdPublished, BirdAhead, Offered, Version
<1> QED BY <1>5, <1>6, <1>7, <1>8

\* The cache is what is left.
LEMMA BirdFellBack == ASSUME FetchInv, BirdInv, NoSourceLeft PROVE BirdInv'
<1>1. UNCHANGED <<serves, download, cache, applied>> /\ SourceFails
  BY DEF NoSourceLeft
<1>2. Sources' = Sources /\ MayLag' = MayLag
  BY <1>1, SourceFailed
<1>3. fetch'.at = "error" \/ (fetch'.at = "applyWg" /\ fetch'.dir = "cache")
  BY DEF NoSourceLeft, Idle
<1>4. fetch'.at = "applyWg" => Content' = cache
  BY <1>1, <1>3 DEF Content
<1> QED BY <1>1, <1>2, <1>3, <1>4
        DEF BirdInv, BirdPublished, BirdAhead, NotOlderBird, Chosen, Offered, Version

\* updateCache writes BIRD's file first.
LEMMA BirdCached ==
    ASSUME FetchInv, BirdInv, CacheBird \/ CacheWg \/ CacheFails
    PROVE  BirdInv'
<1>1. UNCHANGED <<serves, clone, download, applied, deployment>>
  BY DEF CacheBird, CacheWg, CacheFails, Spend, worldVars
<1>2. Sources' = Sources
  BY <1>1, SourcesKept
<1>3. /\ fetch.at \in {"cacheBird", "cacheWg"} /\ fetch.at \in Chosen
      /\ fetch.dir \in Kinds /\ fetch.dir # "cache"
  BY DEF FetchInv, CacheBird, CacheWg, CacheFails, FetchTypeOK, DirInv, Chosen, Kinds
<1>4. Content \in Files /\ (Content.bird \in Version => Content.bird <= Offered)
  BY <1>3, BirdContent DEF BirdInv
<1>5. /\ fetch'.at \in {"cacheWg", "applyWg"} /\ fetch'.dir = fetch.dir /\ fetch'.i = fetch.i
      /\ CacheFails => fetch'.at = "applyWg"
  BY DEF CacheBird, CacheWg, CacheFails, FetchInv, FetchTypeOK
<1>6. Content' = Content
  BY <1>1, <1>2, <1>3, <1>5 DEF Content, Kinds, Source
<1>7. cache'.bird \in {cache.bird, Content.bird, Broken}
  BY <1>4, Known DEF CacheBird, CacheWg, CacheFails, CutOff, Files
<1>8. BirdPublished'
  BY <1>1, <1>2, <1>4, <1>7, Known DEF BirdInv, BirdPublished, Offered, Version
<1>9. BirdAhead'
  <2>1. CASE CacheFails
    <3>1. left'.disk = left.disk - 1 /\ left.disk \in Nat /\ left.disk <= deployment.budget.disk
      BY <2>1 DEF CacheFails, Spend, FetchInv, FetchTypeOK, FetchEvent
    <3>2. deployment.budget.disk \in Nat
      BY Known, DeploymentsAssumption DEF FetchEvent
    <3>3. MayLag'
      BY <1>1, <3>1, <3>2 DEF MayLag, NoFullDisk
    <3> QED BY <3>3 DEF BirdAhead
  <2>2. CASE CacheBird \/ CacheWg
    <3>1. MayLag' = MayLag
      BY <1>1, <2>2, SourcesKept DEF CacheBird, CacheWg, worldVars
    <3>2. ~MayLag => cache'.bird = Content.bird
      BY <1>3, <2>2, Known DEF CacheBird, CacheWg, BirdInv, BirdAhead, Files
    <3> QED BY <1>1, <1>3, <1>5, <1>6, <3>1, <3>2
            DEF BirdInv, BirdAhead, NotOlderBird, Chosen, Version
  <2> QED BY <2>1, <2>2
<1> QED BY <1>8, <1>9 DEF BirdInv

\* Apply.
LEMMA BirdGiven == ASSUME FetchInv, BirdInv, ApplyWg \/ ApplyBird PROVE BirdInv'
<1>1. UNCHANGED <<serves, clone, download, cache, left, deployment>>
  BY DEF ApplyWg, ApplyBird, worldVars
<1>2. Sources' = Sources /\ MayLag' = MayLag
  BY <1>1, SourcesKept
<1>3. fetch \in [at : FetchPoints, i : 0..Len(Sources), dir : Kinds \cup {"cache", None}]
  BY DEF FetchInv, FetchTypeOK
<1>4. fetch.at \in Chosen
      /\ Content \in Files /\ (Content.bird \in Version => Content.bird <= Offered)
  BY BirdContent DEF ApplyWg, ApplyBird, BirdInv, Chosen
<1>5. CASE ApplyWg
  <2>1. /\ fetch.at = "applyWg" /\ fetch'.at = "applyBird"
        /\ fetch'.dir = fetch.dir /\ fetch'.i = fetch.i /\ applied'.bird = applied.bird
    BY <1>3, <1>5, Known DEF ApplyWg, Files
  <2>2. Content' = Content
    BY <1>1, <1>2, <2>1 DEF Content, Source
  <2> QED BY <1>1, <1>2, <2>1, <2>2
          DEF BirdInv, BirdPublished, BirdAhead, NotOlderBird, Chosen, Offered, Version
<1>6. CASE ApplyBird
  <2>1. /\ fetch.at = "applyBird" /\ fetch'.at = "idle"
        /\ applied'.bird = Taken(applied.bird, Content.bird)
    BY <1>6, Known DEF ApplyBird, Idle, Files
  <2>2. applied'.bird \in {applied.bird, Content.bird}
    BY <2>1 DEF Taken
  <2> QED BY <1>1, <1>2, <1>4, <2>1, <2>2, Known
          DEF BirdInv, BirdPublished, BirdAhead, NotOlderBird, Chosen, Offered, Version
<1> QED BY <1>5, <1>6

\* Publications and the network.
LEMMA BirdEnvironment ==
    ASSUME FetchInv, BirdInv,
           \/ \E site \in SitesUsed : Publish(site) \/ Outage(site) \/ Recovery(site)
           \/ UNCHANGED vars
    PROVE  BirdInv'
<1>1. /\ UNCHANGED <<clone, download, cache, fetch, applied, deployment>>
      /\ left'.disk = left.disk
  BY Spent DEF Publish, Outage, Recovery, FetchEvent, vars, worldVars
<1>2. Sources' = Sources /\ SitesUsed' = SitesUsed /\ MayLag' = MayLag
  BY <1>1, SourcesKept DEF MayLag, NoFullDisk
<1>3. Offered <= Offered' /\ Offered \in Nat /\ Offered' \in Nat
  <2>1. Sources[1].site \in Sites
    BY Known, SourcesTyped
  <2>2. CASE \E site \in SitesUsed : Publish(site)
    BY <1>2, <2>1, <2>2, Known DEF Publish, Offered
  <2>3. CASE ~ \E site \in SitesUsed : Publish(site)
    <3>1. serves' = serves
      BY <2>3 DEF Outage, Recovery, vars
    <3> QED BY <1>2, <2>1, <3>1, Known DEF Offered
  <2> QED BY <2>2, <2>3
<1>4. BirdPublished'
  BY <1>1, <1>3, Known DEF BirdInv, BirdPublished, Version
<1>5. BirdAhead'
  <2>1. CASE fetch.dir = "local" /\ fetch.at \in Chosen
    BY <1>2, <2>1, Known, OneSite DEF FetchInv, DirInv, Source, MayLag, BirdAhead
  <2>2. CASE fetch.dir # "local" /\ fetch.at \in Chosen
    <3>1. Content' = Content
      BY <1>1, <2>2 DEF Content, FetchInv, DirInv, Kinds
    <3> QED BY <1>1, <1>2, <3>1 DEF BirdInv, BirdAhead, NotOlderBird, Version
  <2>3. CASE fetch.at \notin Chosen
    BY <1>1, <1>2, <2>3 DEF BirdInv, BirdAhead, NotOlderBird, Chosen, Version
  <2> QED BY <2>1, <2>2, <2>3
<1> QED BY <1>4, <1>5 DEF BirdInv

\* A node never goes back to an older file than the one it runs, unless a second
\* source, a live directory or a full disk allows it: the fetched file is in the
\* cache before it is applied (fetch.go, Fetch and updateCache), so what a later
\* round falls back to is never behind, however often the agent dies.
THEOREM NeverRolledBack == FetchSpec => NoRollback
<1>1. FetchInit => BirdInv
  <2> SUFFICES ASSUME FetchInit PROVE BirdInv
    OBVIOUS
  <2> QED BY FileAssumption
          DEF FetchInit, BirdInv, BirdPublished, BirdAhead, NotOlderBird, NoFiles, Idle, Chosen,
              Version
<1>2. FetchInv /\ BirdInv /\ [FetchNext]_vars => BirdInv'
  BY BirdRound, BirdFetched, BirdFellBack, BirdCached, BirdGiven, BirdEnvironment
  DEF FetchNext, SyncStep
<1>3. FetchInv /\ BirdInv /\ [FetchNext]_vars
        => [~MayLag =>
              \A f \in {"bird", "wg"} :
                 applied[f] \in Version /\ applied'[f] \in Version
                   => applied'[f] >= applied[f]]_vars
  <2> SUFFICES ASSUME FetchInv, BirdInv, FetchNext, ~MayLag,
                      NEW f \in {"bird", "wg"},
                      applied[f] \in Version, applied'[f] \in Version
               PROVE  applied'[f] >= applied[f]
    OBVIOUS
  <2>1. CASE applied' = applied
    BY <2>1 DEF Version
  <2>2. CASE ApplyWg
    BY <2>2, Known DEF ApplyWg, Taken, Files, FetchInv, AheadInv, NotOlder, Version
  <2>3. CASE ApplyBird
    BY <2>3, Known DEF ApplyBird, Taken, Files, BirdInv, BirdAhead, NotOlderBird, Chosen, Version
  <2>4. FetchNext => applied' = applied \/ ApplyWg \/ ApplyBird
    BY DEF FetchNext, SyncStep, StartFetch, FetchGit, FetchHTTPFirst, FetchHTTPSecond, FetchLocal,
       NextSource, NoSourceLeft, CacheBird, CacheWg, CacheFails, ApplyWgFails, Publish, Outage,
       Recovery, Crash
  <2> QED BY <2>1, <2>2, <2>3, <2>4
<1> QED BY InitInv, NextInv, <1>1, <1>2, <1>3, PTL DEF FetchSpec, NoRollback

-----------------------------------------------------------------------------
(***************************************************************************)
(* Files of one version.  A clone has both at once, so an agent with git   *)
(* sources only mixes versions in the cache, between the two writes of     *)
(* updateCache; WholeInv says that nothing but the round in progress sees  *)
(* it there.                                                               *)
(***************************************************************************)
Undisturbed ==
    /\ NoFullDisk /\ NoCrash
    /\ \A i \in DOMAIN Sources : Sources[i].kind = "git"

WholeInv ==
    Undisturbed =>
       /\ fetch.at # "second"
       /\ fetch.at \in Chosen => fetch.dir \in {"git", "cache"}
       /\ fetch.at # "cacheWg" => cache.bird = cache.wg
       /\ fetch.at = "cacheWg" => cache.bird = Content.bird
       /\ fetch.at = "applyBird" => Content.wg \in {None, applied.wg}

\* A fault stays on record: the budget never grows.
LEMMA DisturbedForGood ==
    ASSUME FetchInv, [FetchNext]_vars, Undisturbed'
    PROVE  /\ Undisturbed /\ UNCHANGED deployment
           /\ \/ ~CacheFails /\ ~Crash
              \/ NextSource \/ NoSourceLeft
              \/ \E site \in SitesUsed : Outage(site)
<1>1. /\ deployment.budget \in [FetchEvent -> Nat] /\ left \in [FetchEvent -> Nat]
      /\ \A e \in FetchEvent : left[e] <= deployment.budget[e]
  BY Known, DeploymentsAssumption DEF FetchInv, FetchTypeOK
<1>2. ASSUME NEW e \in FetchEvent, Spend(e)
      PROVE  left'[e] = left[e] - 1 /\ left[e] \in Int /\ deployment' = deployment
  BY <1>1, <1>2 DEF Spend
<1>3. CASE UNCHANGED <<left, deployment>>
  <2>1. Undisturbed
    BY <1>3, SourcesKept DEF Undisturbed, NoCrash
  <2>2. \A e \in FetchEvent : ~Spend(e)
    BY <1>3, <1>2
  <2>3. ~CacheFails /\ ~Crash
    BY <2>2 DEF CacheFails, Crash, FetchEvent
  <2> QED BY <1>3, <2>1, <2>3
<1>4. ASSUME NEW e \in {"crash", "disk"}, Spend(e)
      PROVE  FALSE
  <2>1. left'[e] = left[e] - 1 /\ left[e] \in Int /\ deployment' = deployment
    BY <1>4, <1>2 DEF FetchEvent
  <2>2. left[e] <= deployment.budget[e] /\ deployment.budget[e] \in Int
    BY <1>1 DEF FetchEvent
  <2>3. left'[e] # deployment'.budget[e]
    BY <2>1, <2>2
  <2>4. left'["disk"] = deployment'.budget["disk"] /\ left'["crash"] = deployment'.budget["crash"]
    BY DEF Undisturbed, NoFullDisk, NoCrash
  <2> QED BY <2>3, <2>4
<1>5. ASSUME NEW site \in SitesUsed, Outage(site)
      PROVE  Undisturbed /\ UNCHANGED deployment
  <2>1. left' = [left EXCEPT !["outage"] = @ - 1] /\ deployment' = deployment
    BY <1>5 DEF Outage, Spend
  <2>2. left'.crash = left.crash /\ left'.disk = left.disk
    BY <1>1, <2>1 DEF FetchEvent
  <2> QED BY <2>1, <2>2, SourcesKept DEF Undisturbed, NoCrash, NoFullDisk
<1>6. ASSUME NextSource \/ NoSourceLeft
      PROVE  Undisturbed /\ UNCHANGED deployment
  <2>1. SourceFails
    BY <1>6 DEF NextSource, NoSourceLeft
  <2>2. left'.crash = left.crash /\ left'.disk = left.disk /\ deployment' = deployment
    BY <2>1, SourceFailed
  <2> QED BY <2>2, SourcesKept DEF Undisturbed, NoCrash, NoFullDisk
<1>7. FetchNext => \/ UNCHANGED <<left, deployment>> \/ CacheFails \/ Crash
                   \/ NextSource \/ NoSourceLeft
                   \/ \E site \in SitesUsed : Outage(site)
  BY DEF FetchNext, SyncStep, StartFetch, FetchGit, FetchHTTPFirst, FetchHTTPSecond, FetchLocal,
     CacheBird, CacheWg, ApplyWg, ApplyWgFails, ApplyBird, Publish, Recovery, worldVars
<1> QED BY <1>3, <1>4, <1>5, <1>6, <1>7 DEF CacheFails, Crash, vars, worldVars

\* In a chosen directory of such an agent both files are of one version.
LEMMA ContentWhole ==
    ASSUME FetchInv, WholeInv, Undisturbed, fetch.at \in Chosen
    PROVE  /\ fetch.at # "cacheWg" \/ fetch.dir = "git" => Content.bird = Content.wg
           /\ fetch.at \in {"cacheBird", "cacheWg"} => fetch.dir = "git"
<1>1. fetch.dir = "git" => Content.bird = Content.wg
  BY ContentIs
<1>2. fetch.dir = "cache" => Content = cache
  BY ContentIs
<1> QED BY <1>1, <1>2 DEF WholeInv, FetchInv, DirInv

\* Steps up to a chosen directory.
LEMMA WholeRound ==
    ASSUME FetchInv, WholeInv, Undisturbed,
           \/ StartFetch \/ FetchGit \/ FetchHTTPFirst \/ FetchHTTPSecond \/ FetchLocal
           \/ NextSource \/ NoSourceLeft \/ ApplyWgFails
    PROVE  WholeInv'
<1>1. UNCHANGED cache /\ fetch.at # "cacheWg"
  BY DEF StartFetch, FetchGit, FetchHTTPFirst, FetchHTTPSecond, FetchLocal, NextSource,
     NoSourceLeft, SourceFails, ApplyWgFails, Trying
<1>2. cache.bird = cache.wg
  BY <1>1 DEF WholeInv
<1>3. fetch \in [at : FetchPoints, i : 0..Len(Sources), dir : Kinds \cup {"cache", None}]
  BY DEF FetchInv, FetchTypeOK
<1>4. fetch.at = "try" => Source.kind = "git"
  BY SourceKnown DEF Undisturbed, Source
<1>5. ~FetchHTTPFirst /\ ~FetchHTTPSecond /\ ~FetchLocal
  BY <1>4 DEF FetchHTTPFirst, FetchHTTPSecond, FetchLocal, Trying, WholeInv
<1>6. \/ fetch'.at \in {"try", "error"}
      \/ fetch'.at = "cacheBird" /\ fetch'.dir = "git"
      \/ fetch'.at = "applyWg" /\ fetch'.dir = "cache"
  <2>1. CASE NextSource
    BY <1>3, <2>1 DEF NextSource
  <2>2. CASE FetchGit
    BY <1>3, <2>2 DEF FetchGit, Fetched
  <2>3. CASE NoSourceLeft
    BY <2>3 DEF NoSourceLeft, Idle
  <2>4. CASE StartFetch \/ ApplyWgFails
    BY <2>4 DEF StartFetch, ApplyWgFails, Idle
  <2> QED BY <1>5, <2>1, <2>2, <2>3, <2>4
<1> QED BY <1>1, <1>2, <1>6 DEF WholeInv, Chosen

\* Steps that write the cache and apply what was chosen.
LEMMA WholeApply ==
    ASSUME FetchInv, WholeInv, Undisturbed, CacheBird \/ CacheWg \/ ApplyWg \/ ApplyBird
    PROVE  WholeInv'
<1>1. fetch \in [at : FetchPoints, i : 0..Len(Sources), dir : Kinds \cup {"cache", None}]
      /\ fetch.at \in Chosen /\ fetch.dir \in {"git", "cache"}
  BY DEF FetchInv, FetchTypeOK, CacheBird, CacheWg, ApplyWg, ApplyBird, Chosen, WholeInv
<1>2. UNCHANGED <<clone, deployment>>
  BY DEF CacheBird, CacheWg, ApplyWg, ApplyBird, worldVars
<1>3. CASE CacheBird
  <2>1. /\ fetch.at = "cacheBird" /\ fetch'.at = "cacheWg"
        /\ fetch'.dir = fetch.dir /\ cache'.bird = Content.bird
    BY <1>1, <1>3, Known DEF CacheBird, Files
  <2>2. fetch.dir = "git"
    BY <1>1, <2>1, ContentWhole
  <2>3. Content' = Content
    BY <1>2, <2>1, <2>2 DEF Content
  <2> QED BY <2>1, <2>2, <2>3 DEF WholeInv
<1>4. CASE CacheWg
  <2>1. /\ fetch.at = "cacheWg" /\ fetch'.at = "applyWg" /\ fetch'.dir = fetch.dir
        /\ cache'.wg = Content.wg /\ cache'.bird = cache.bird
    BY <1>1, <1>4, Known DEF CacheWg, Files
  <2>2. fetch.dir = "git" /\ Content.bird = Content.wg
    BY <1>1, <2>1, ContentWhole
  <2> QED BY <2>1, <2>2 DEF WholeInv
<1>5. CASE ApplyWg
  <2>1. /\ fetch.at = "applyWg" /\ fetch'.at = "applyBird" /\ fetch'.dir = fetch.dir
        /\ cache' = cache /\ applied'.wg = Taken(applied.wg, Content.wg)
    BY <1>1, <1>5, Known DEF ApplyWg, Files
  <2>2. Content' = Content
    BY <1>1, <1>2, <2>1 DEF Content
  <2> QED BY <1>1, <2>1, <2>2 DEF WholeInv, Taken
<1>6. CASE ApplyBird
  <2>1. fetch.at = "applyBird" /\ fetch'.at = "idle" /\ cache' = cache
    BY <1>6 DEF ApplyBird, Idle
  <2> QED BY <2>1 DEF WholeInv, Chosen
<1> QED BY <1>3, <1>4, <1>5, <1>6

\* The sites and the network.
LEMMA WholeEnvironment ==
    ASSUME FetchInv, WholeInv, Undisturbed,
           \/ \E site \in SitesUsed : Publish(site) \/ Outage(site) \/ Recovery(site)
           \/ UNCHANGED vars
    PROVE  WholeInv'
<1>1. UNCHANGED <<clone, cache, fetch, applied>>
  BY DEF Publish, Outage, Recovery, vars, worldVars
<1>2. fetch.at \in Chosen => Content' = Content
  BY <1>1 DEF Content, WholeInv
<1> QED BY <1>1, <1>2 DEF WholeInv, Chosen

\* BIRD is given the file of the version whose wireguard.json was applied just
\* before (fetch.go, updateCache; apply.go, Apply), also from the cache, by an agent
\* whose sources hand out both files at once, up to the first crash or full disk.
THEOREM VersionsNotMixed == FetchSpec => AppliedWhole
<1>1. FetchInit => WholeInv
  BY DEF FetchInit, WholeInv, Idle, NoFiles, Chosen
<1>2. FetchInv /\ WholeInv /\ [FetchNext]_vars => WholeInv'
  <2> SUFFICES ASSUME FetchInv, WholeInv, [FetchNext]_vars, Undisturbed' PROVE WholeInv'
    BY DEF WholeInv
  <2>1. Undisturbed
    BY DisturbedForGood
  <2>2. \/ ~CacheFails /\ ~Crash
        \/ NextSource \/ NoSourceLeft
        \/ \E site \in SitesUsed : Outage(site)
    BY DisturbedForGood
  <2> QED BY <2>1, <2>2, WholeRound, WholeApply, WholeEnvironment DEF FetchNext, SyncStep
<1>3. FetchInv /\ WholeInv /\ [FetchNext]_vars
        => [NoFullDisk /\ NoCrash /\ applied'.bird # applied.bird =>
              \/ applied'.bird = applied.wg
              \/ \E i \in DOMAIN Sources : Sources[i].kind # "git"]_vars
  <2> SUFFICES ASSUME FetchInv, WholeInv, FetchNext, Undisturbed,
                      applied'.bird # applied.bird
               PROVE  applied'.bird = applied.wg
    BY DEF Undisturbed
  <2>1. applied' = applied \/ ApplyWg \/ ApplyBird
    BY DEF FetchNext, SyncStep, StartFetch, FetchGit, FetchHTTPFirst, FetchHTTPSecond, FetchLocal,
       NextSource, NoSourceLeft, CacheBird, CacheWg, CacheFails, ApplyWgFails, Publish, Outage,
       Recovery, Crash
  <2>2. CASE ApplyWg
    BY <2>2, Known DEF ApplyWg, Files
  <2>3. CASE ApplyBird
    <3>1. fetch.at = "applyBird" /\ applied'.bird = Taken(applied.bird, Content.bird)
      BY <2>3, Known DEF ApplyBird, Files
    <3>2. Content.bird = Content.wg
      BY <3>1, ContentWhole DEF Chosen
    <3>3. Content.wg \in {None, applied.wg}
      BY <3>1 DEF WholeInv
    <3> QED BY <3>1, <3>2, <3>3 DEF Taken
  <2> QED BY <2>1, <2>2, <2>3
<1> QED BY InitInv, NextInv, <1>1, <1>2, <1>3, PTL DEF FetchSpec, AppliedWhole

-----------------------------------------------------------------------------
(***************************************************************************)
(* The backoff.                                                            *)
(***************************************************************************)

\* The doubling of backoffDelay, before the cut.
Doubles(d) ==
    d = [k \in Nat |-> IF k <= 1 THEN 30
                       ELSE IF d[k-1] < MaxBackoff THEN 2 * d[k-1] ELSE d[k-1]]

\* The recursion has a solution.
LEMMA DoublingDefined == \E d : Doubles(d)
<1> DEFINE d == [k \in Nat |-> IF k <= 1 THEN 30 ELSE IF k = 2 THEN 60 ELSE IF k = 3 THEN 120
                               ELSE IF k = 4 THEN 240 ELSE IF k = 5 THEN 480 ELSE 960]
           e == [k \in Nat |-> IF k <= 1 THEN 30
                               ELSE IF d[k-1] < MaxBackoff THEN 2 * d[k-1] ELSE d[k-1]]
<1>1. ASSUME NEW k \in Nat PROVE d[k] = e[k]
  <2>1. CASE k <= 1
    BY <2>1
  <2>2. CASE k > 1
    <3>1. k - 1 \in Nat
      BY <2>2
    <3>2. e[k] = IF d[k-1] < 600 THEN 2 * d[k-1] ELSE d[k-1]
      BY <2>2 DEF MaxBackoff
    <3>3. d[k-1] = IF k = 2 THEN 30 ELSE IF k = 3 THEN 60 ELSE IF k = 4 THEN 120
                   ELSE IF k = 5 THEN 240 ELSE IF k = 6 THEN 480 ELSE 960
      BY <2>2, <3>1
    <3>4. d[k] = IF k = 2 THEN 60 ELSE IF k = 3 THEN 120
                 ELSE IF k = 4 THEN 240 ELSE IF k = 5 THEN 480 ELSE 960
      BY <2>2
    <3> HIDE DEF d, e
    <3>. QED  BY <2>2, <3>2, <3>3, <3>4
  <2>. QED  BY <2>1, <2>2
<1>2. d = e
  BY <1>1
<1>3. Doubles(d)
  BY <1>2 DEF Doubles
<1> HIDE DEF d
<1>. QED  BY <1>3

\* It passes the maximum at the sixth failure and stays.
LEMMA DoublingIs ==
    ASSUME NEW d, Doubles(d)
    PROVE  /\ d[1] = 30 /\ d[2] = 60 /\ d[3] = 120 /\ d[4] = 240 /\ d[5] = 480
           /\ \A k \in Nat : k >= 6 => d[k] = 960
<1>0. /\ d[1] = 30
      /\ \A k \in Nat : k > 1 =>
            d[k] = IF d[k-1] < 600 THEN 2 * d[k-1] ELSE d[k-1]
  BY DEF Doubles, MaxBackoff
<1>1. d[2] = 60
  <2>1. d[2] = IF d[2-1] < 600 THEN 2 * d[2-1] ELSE d[2-1]
    BY <1>0
  <2>. QED  BY <1>0, <2>1
<1>2. d[3] = 120
  <2>1. d[3] = IF d[3-1] < 600 THEN 2 * d[3-1] ELSE d[3-1]
    BY <1>0
  <2>. QED  BY <1>1, <2>1
<1>3. d[4] = 240
  <2>1. d[4] = IF d[4-1] < 600 THEN 2 * d[4-1] ELSE d[4-1]
    BY <1>0
  <2>. QED  BY <1>2, <2>1
<1>4. d[5] = 480
  <2>1. d[5] = IF d[5-1] < 600 THEN 2 * d[5-1] ELSE d[5-1]
    BY <1>0
  <2>. QED  BY <1>3, <2>1
<1>5. d[6] = 960
  <2>1. d[6] = IF d[6-1] < 600 THEN 2 * d[6-1] ELSE d[6-1]
    BY <1>0
  <2>. QED  BY <1>4, <2>1
<1>6. ASSUME NEW n \in Nat, n >= 6, d[n] # 960 PROVE FALSE
  <2> DEFINE Off == {k \in Nat : k >= 6 /\ d[k] # 960}
  <2>1. Off \subseteq Nat /\ Off # {}
    BY <1>6
  <2>2. PICK k \in Off : \A j \in Off : <<j, k>> \notin OpToRel(<, Nat)
    <3> HIDE DEF Off
    <3>. QED  BY <2>1, WFMin, NatLessThanWellFounded, Zenon
  <2>3. \A j \in Off : ~(j < k)
    <3>1. Off \subseteq Nat /\ k \in Nat
      OBVIOUS
    <3> HIDE DEF Off
    <3>. QED  BY <2>2, <3>1, Zenon DEF OpToRel
  <2>4. k > 6 /\ k - 1 \in Nat /\ k - 1 >= 6
    BY <1>5
  <2>5. d[k-1] = 960
    BY <2>3, <2>4
  <2>6. d[k] = IF d[k-1] < 600 THEN 2 * d[k-1] ELSE d[k-1]
    BY <1>0, <2>4
  <2>7. d[k] # 960
    OBVIOUS
  <2>. QED  BY <2>5, <2>6, <2>7
<1>. QED  BY <1>0, <1>1, <1>2, <1>3, <1>4, <1>6

\* "exponential backoff (30s -> 10min cap)": what backoffDelay computes for any
\* number of failures.
LEMMA BackoffIs ==
    ASSUME NEW n \in Nat
    PROVE  BackoffDelay(n) = IF n = 0 THEN 0
                             ELSE IF n >= 6 THEN 600 ELSE 30 * 2^(n - 1)
<1> DEFINE d == CHOOSE d : Doubles(d)
<1>1. BackoffDelay(n) = IF n <= 0 THEN 0 ELSE IF d[n] > MaxBackoff THEN MaxBackoff ELSE d[n]
  BY DEF BackoffDelay, Doubles
<1>2. Doubles(d)
  BY DoublingDefined
<1> HIDE DEF d
<1>3. /\ d[1] = 30 /\ d[2] = 60 /\ d[3] = 120 /\ d[4] = 240 /\ d[5] = 480
      /\ \A k \in Nat : k >= 6 => d[k] = 960
  BY <1>2, DoublingIs
<1>4. 2^0 = 1 /\ 2^1 = 2 /\ 2^2 = 4 /\ 2^3 = 8 /\ 2^4 = 16
  BY SMT
<1>5. CASE n = 0 \/ n >= 6
  BY <1>1, <1>3, <1>5 DEF MaxBackoff
<1>6. CASE n = 1
  BY <1>1, <1>3, <1>4, <1>6 DEF MaxBackoff
<1>7. CASE n = 2
  BY <1>1, <1>3, <1>4, <1>7 DEF MaxBackoff
<1>8. CASE n = 3
  BY <1>1, <1>3, <1>4, <1>8 DEF MaxBackoff
<1>9. CASE n = 4
  BY <1>1, <1>3, <1>4, <1>9 DEF MaxBackoff
<1>10. CASE n = 5
  BY <1>1, <1>3, <1>4, <1>10 DEF MaxBackoff
<1>. QED  BY <1>5, <1>6, <1>7, <1>8, <1>9, <1>10

\* README "exponential backoff (30s -> 10min cap)", however many rounds failed.
THEOREM BackoffAsDocumented == FetchSpec => []BackoffDocumented
<1>1. FetchTypeOK => BackoffDocumented
  BY BackoffIs, BoundsAssumption DEF FetchTypeOK, BackoffDocumented
<1>. QED  BY FetchTypeCorrect, <1>1, PTL
=============================================================================
