---------------------------- MODULE AgentHealth ----------------------------
(***************************************************************************)
(* HealthTracker and the end of Agent.Run: the config sync loop and the    *)
(* probe loop record what they did under a lock, and each writes the       *)
(* health file from a snapshot of its own, taken and written after the     *)
(* lock is released.  Run waits for the loops before the final status.     *)
(***************************************************************************)
EXTENDS Integers

CONSTANTS
    MaxRecords,   \* bound: successful fetches, and probe rounds, of a run
    MaxFaults,    \* bound: writes of the file that fail
    None          \* no file yet, no snapshot

ASSUME HealthAssumption == MaxRecords \in Nat /\ MaxFaults \in Nat

VARIABLES
    status,    \* the tracker's fields; times are counted by their records
    file,      \* health.json
    step,      \* where each goroutine is
    snapshot,  \* what each is about to write
    cancelled, \* the context is cancelled
    faults     \* history: failed writes

vars == <<status, file, step, snapshot, cancelled, faults>>

Loops == {"sync", "probe"}
Goroutines == Loops \cup {"main"}

Status == [fetchOK : 0..MaxRecords, error : {"none", "fetch", "shutdown"},
           round : 0..MaxRecords]

HealthTypeOK ==
    /\ status \in Status
    /\ file \in Status \cup {None}
    /\ step \in [Goroutines -> {"loop", "recorded", "taken", "done"}]
    /\ snapshot \in [Goroutines -> Status \cup {None}]
    /\ cancelled \in BOOLEAN
    /\ faults \in 0..MaxFaults

HealthInit ==
    /\ status = [fetchOK |-> 0, error |-> "none", round |-> 0]
    /\ file = None
    /\ step = [g \in Goroutines |-> "loop"]
    /\ snapshot = [g \in Goroutines |-> None]
    /\ cancelled = FALSE /\ faults = 0

Goto(g, from, to) == step[g] = from /\ step' = [step EXCEPT ![g] = to]

\* The critical sections of the Record operations.
Fetched  == status' = [status EXCEPT !.fetchOK = @ + 1, !.error = "none"]
FetchErr == status' = [status EXCEPT !.error = "fetch"]

\* doConfigSync: Fetch and Apply went well, with a source or, when all sources
\* are down, with the cache: that is recorded as a successful fetch too.
SyncFetched ==
    /\ Goto("sync", "loop", "recorded") /\ status.fetchOK < MaxRecords
    /\ Fetched
    /\ UNCHANGED <<file, snapshot, cancelled, faults>>

SyncFailed ==
    /\ Goto("sync", "loop", "recorded")
    /\ FetchErr
    /\ UNCHANGED <<file, snapshot, cancelled, faults>>

\* Mutant: the snapshot is taken before the round is recorded.
ProbeRoundEarly ==
    /\ Goto("probe", "loop", "taken") /\ status.round < MaxRecords
    /\ snapshot' = [snapshot EXCEPT !["probe"] = status]
    /\ status' = [status EXCEPT !.round = @ + 1]
    /\ UNCHANGED <<file, cancelled, faults>>

ProbeRound ==
    /\ Goto("probe", "loop", "recorded") /\ status.round < MaxRecords
    /\ status' = [status EXCEPT !.round = @ + 1]
    /\ UNCHANGED <<file, snapshot, cancelled, faults>>

\* writeFile: Status takes a snapshot, atomicWriteFile puts it in place.
TakeSnapshot(g) ==
    /\ Goto(g, "recorded", "taken")
    /\ snapshot' = [snapshot EXCEPT ![g] = status]
    /\ UNCHANGED <<status, file, cancelled, faults>>

Written(g) ==
    /\ Goto(g, "taken", IF g = "main" THEN "done" ELSE "loop")
    /\ snapshot' = [snapshot EXCEPT ![g] = None]
    /\ UNCHANGED <<status, cancelled>>

WriteFile(g) == Written(g) /\ file' = snapshot[g] /\ UNCHANGED faults

WriteFails(g) ==
    Written(g) /\ faults < MaxFaults /\ faults' = faults + 1 /\ UNCHANGED file

-----------------------------------------------------------------------------
Cancel ==
    /\ ~cancelled /\ cancelled' = TRUE
    /\ UNCHANGED <<status, file, step, snapshot, faults>>

\* Mutant: the probe loop does not look at the context.
SyncLoopEnds(g) ==
    /\ cancelled /\ g = "sync" /\ Goto(g, "loop", "done")
    /\ UNCHANGED <<status, file, snapshot, cancelled, faults>>

\* A loop sees the cancelled context in its select, where a tick that is due
\* may win against it.
LoopEnds(g) ==
    /\ cancelled /\ Goto(g, "loop", "done")
    /\ UNCHANGED <<status, file, snapshot, cancelled, faults>>

\* Mutant: the final status does not wait for the probe loop.
SyncEnded == step["sync"] = "done"

\* wg.Wait.
LoopsEnded == \A g \in Loops : step[g] = "done"

WriteShutdown ==
    /\ LoopsEnded /\ Goto("main", "loop", "recorded")
    /\ status' = [status EXCEPT !.error = "shutdown"]
    /\ UNCHANGED <<file, snapshot, cancelled, faults>>

HealthNext ==
    \/ SyncFetched \/ SyncFailed \/ ProbeRound
    \/ \E g \in Goroutines : TakeSnapshot(g) \/ WriteFile(g) \/ WriteFails(g)
    \/ Cancel \/ WriteShutdown
    \/ \E g \in Loops : LoopEnds(g)

HealthSpec == HealthInit /\ [][HealthNext]_vars

\* Every call returns.  A select that finds a tick and the end of the context
\* picks one of them at random, so the end is not passed over for ever.
HealthFairSpec ==
    /\ HealthSpec
    /\ \A g \in Goroutines : WF_vars(TakeSnapshot(g)) /\ WF_vars(WriteFile(g) \/ WriteFails(g))
    /\ \A g \in Loops : SF_vars(LoopEnds(g))
    /\ WF_vars(WriteShutdown)

-----------------------------------------------------------------------------
(***************************************************************************)
(* Properties.                                                             *)
(***************************************************************************)
\* Run "writes a final health status before returning": the file a stopped agent
\* leaves is its last status, never a snapshot a loop took before (unless a
\* write failed).
ShutdownStatusLast ==
    step["main"] = "done" /\ faults = 0 => file = status /\ file.error = "shutdown"

\* Run returns, with the final status written, once it is told to stop: no loop is
\* waited for in vain ("Wait for all goroutines to finish").
ShutdownEnds == cancelled ~> step["main"] = "done"

\* Each loop's write puts its own last record into the file: the two writers can
\* hide each other's news by an older snapshot, never their own ("Monitoring
\* tools can watch this file for staleness").
OwnRecordWritten ==
    [][/\ WriteFile("sync") =>
            file'.fetchOK = status.fetchOK /\ file'.error = status.error
       /\ WriteFile("probe") => file'.round = status.round]_vars
=============================================================================
