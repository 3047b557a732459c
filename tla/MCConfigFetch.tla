--------------------------- MODULE MCConfigFetch ---------------------------
(***************************************************************************)
(* ConfigFetch for TLC: one git source, a git source with a git mirror,    *)
(* and a download site with a local directory behind it.                   *)
(***************************************************************************)
EXTENDS ConfigFetch

CONSTANTS origin, mirror

Src(kind, site) == [kind |-> kind, site |-> site]

MkBudget(outage, crash, disk) == [outage |-> outage, crash |-> crash, disk |-> disk]

OneGit == [sources |-> <<Src("git", origin)>>, budget |-> MkBudget(3, 2, 1)]

HttpLocal == [sources |-> <<Src("http", origin), Src("local", mirror)>>,
              budget  |-> MkBudget(2, 1, 0)]

OneLocal == [sources |-> <<Src("local", origin)>>, budget |-> MkBudget(2, 0, 0)]

TwoGit == [sources |-> <<Src("git", origin), Src("git", mirror)>>,
           budget  |-> MkBudget(3, 0, 0)]

Agents   == {OneGit, OneLocal, HttpLocal}
Mirrored == {TwoGit}
=============================================================================
