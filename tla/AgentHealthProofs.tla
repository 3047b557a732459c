------------------------- MODULE AgentHealthProofs -------------------------
(***************************************************************************)
(* Proofs about AgentHealth, for any number of records and failed writes.  *)
(*                                                                         *)
(* The argument.  Run's final status comes after both loops have ended     *)
(* (FinalInv), and a loop that has ended neither records nor writes.  So   *)
(* the snapshot Run takes is the last status, and nothing is written over  *)
(* it.                                                                     *)
(***************************************************************************)
EXTENDS AgentHealth, TLAPS

Steps == {"loop", "recorded", "taken", "done"}

\* What is true once Run is past wg.Wait.
FinalInv ==
    /\ step["main"] # "loop" => (\A g \in Loops : step[g] = "done") /\ status.error = "shutdown"
    /\ step["main"] = "taken" => snapshot["main"] = status
    /\ step["main"] = "done" /\ faults = 0 => file = status

\* What a loop is about to write has its own last record.
FreshInv ==
    /\ step["sync"] = "taken" =>
         snapshot["sync"].fetchOK = status.fetchOK /\ snapshot["sync"].error = status.error
    /\ step["probe"] = "taken" => snapshot["probe"].round = status.round

HealthInv == HealthTypeOK /\ FinalInv /\ FreshInv

\* A step of one goroutine leaves the others where they are.
LEMMA GotoKeeps ==
    ASSUME HealthTypeOK, NEW g \in Goroutines, NEW from \in Steps, NEW to \in Steps,
           Goto(g, from, to)
    PROVE  /\ step' \in [Goroutines -> Steps]
           /\ step[g] = from /\ step'[g] = to
           /\ \A h \in Goroutines : h # g => step'[h] = step[h]
BY DEF Goto, HealthTypeOK, Steps

LEMMA InitHealth == HealthInit => HealthInv
<1> SUFFICES ASSUME HealthInit PROVE HealthInv
  OBVIOUS
<1>1. HealthTypeOK
  <2>1. status \in Status /\ faults \in 0..MaxFaults
    BY HealthAssumption DEF HealthInit, Status
  <2>2. step \in [Goroutines -> Steps] /\ snapshot \in [Goroutines -> Status \cup {None}]
    BY DEF HealthInit, Steps
  <2> QED BY <2>1, <2>2 DEF HealthInit, HealthTypeOK, Steps
<1>2. FinalInv /\ FreshInv
  BY DEF HealthInit, FinalInv, FreshInv, Goroutines, Loops
<1> QED BY <1>1, <1>2 DEF HealthInv

\* The Record operations and the final status: one field each.
LEMMA RecordTypes ==
    ASSUME HealthTypeOK, SyncFetched \/ SyncFailed \/ ProbeRound \/ WriteShutdown
    PROVE  HealthTypeOK'
<1>1. status \in Status
  BY DEF HealthTypeOK
<1>2. CASE SyncFetched
  <2>1. step' \in [Goroutines -> Steps]
    BY <1>2, GotoKeeps DEF SyncFetched, Goroutines, Loops, Steps
  <2>2. status.fetchOK + 1 \in 0..MaxRecords
    BY <1>1, <1>2, HealthAssumption DEF SyncFetched, Status
  <2>3. status' \in Status
    BY <1>1, <1>2, <2>2 DEF SyncFetched, Fetched, Status
  <2> QED BY <1>2, <2>1, <2>3 DEF SyncFetched, HealthTypeOK, Steps
<1>3. CASE SyncFailed
  <2>1. step' \in [Goroutines -> Steps]
    BY <1>3, GotoKeeps DEF SyncFailed, Goroutines, Loops, Steps
  <2>2. status' \in Status
    BY <1>1, <1>3 DEF SyncFailed, FetchErr, Status
  <2> QED BY <1>3, <2>1, <2>2 DEF SyncFailed, HealthTypeOK, Steps
<1>4. CASE ProbeRound
  <2>1. step' \in [Goroutines -> Steps]
    BY <1>4, GotoKeeps DEF ProbeRound, Goroutines, Loops, Steps
  <2>2. status.round + 1 \in 0..MaxRecords
    BY <1>1, <1>4, HealthAssumption DEF ProbeRound, Status
  <2>3. status' \in Status
    BY <1>1, <1>4, <2>2 DEF ProbeRound, Status
  <2> QED BY <1>4, <2>1, <2>3 DEF ProbeRound, HealthTypeOK, Steps
<1>5. CASE WriteShutdown
  <2>1. step' \in [Goroutines -> Steps]
    BY <1>5, GotoKeeps DEF WriteShutdown, Goroutines, Steps
  <2>2. status' \in Status
    BY <1>1, <1>5 DEF WriteShutdown, Status
  <2> QED BY <1>5, <2>1, <2>2 DEF WriteShutdown, HealthTypeOK, Steps
<1> QED BY <1>2, <1>3, <1>4, <1>5

\* The file is what some goroutine had taken.
LEMMA WriteTypes ==
    ASSUME HealthTypeOK, NEW g \in Goroutines, TakeSnapshot(g) \/ WriteFile(g) \/ WriteFails(g)
    PROVE  HealthTypeOK'
<1>1. CASE TakeSnapshot(g)
  <2>1. step' \in [Goroutines -> Steps]
    BY <1>1, GotoKeeps DEF TakeSnapshot, Steps
  <2> QED BY <1>1, <2>1 DEF TakeSnapshot, HealthTypeOK, Steps
<1>2. ASSUME Written(g)
      PROVE  step' \in [Goroutines -> Steps] /\ snapshot' \in [Goroutines -> Status \cup {None}]
  <2>1. step' \in [Goroutines -> Steps]
    BY <1>2, GotoKeeps DEF Written, Steps
  <2> QED BY <1>2, <2>1 DEF Written, HealthTypeOK
<1>3. CASE WriteFile(g)
  BY <1>2, <1>3 DEF WriteFile, Written, HealthTypeOK, Steps
<1>4. CASE WriteFails(g)
  <2>1. faults' \in 0..MaxFaults
    BY <1>4, HealthAssumption DEF WriteFails, HealthTypeOK
  <2> QED BY <1>2, <1>4, <2>1 DEF WriteFails, Written, HealthTypeOK, Steps
<1> QED BY <1>1, <1>3, <1>4

LEMMA NextTypes == ASSUME HealthTypeOK, [HealthNext]_vars PROVE HealthTypeOK'
<1>1. CASE \E g \in Loops : LoopEnds(g)
  <2>1. PICK g \in Loops : LoopEnds(g)
    BY <1>1
  <2>2. step' \in [Goroutines -> Steps]
    BY <2>1, GotoKeeps DEF LoopEnds, Goroutines, Steps
  <2> QED BY <2>1, <2>2 DEF LoopEnds, HealthTypeOK, Steps
<1>2. CASE Cancel
  BY <1>2 DEF Cancel, HealthTypeOK
<1>3. CASE UNCHANGED vars
  BY <1>3 DEF vars, HealthTypeOK
<1> QED BY <1>1, <1>2, <1>3, RecordTypes, WriteTypes DEF HealthNext

\* Past wg.Wait only Run itself moves.
LEMMA NextFinal == ASSUME HealthInv, [HealthNext]_vars PROVE FinalInv'
<1>1. HealthTypeOK /\ FinalInv /\ "main" \in Goroutines /\ Loops \subseteq Goroutines /\ "main" \notin Loops
  BY DEF HealthInv, Goroutines, Loops
<1>2. ASSUME NEW g \in Loops, NEW from \in Steps \ {"done"}, NEW to \in Steps, Goto(g, from, to)
      PROVE  FinalInv'
  <2>1. step[g] # "done" /\ step'["main"] = step["main"]
    BY <1>1, <1>2, GotoKeeps
  <2>2. step["main"] = "loop"
    BY <1>1, <2>1 DEF FinalInv
  <2> QED BY <2>1, <2>2 DEF FinalInv
<1>3. CASE SyncFetched \/ SyncFailed \/ ProbeRound
  BY <1>2, <1>3 DEF SyncFetched, SyncFailed, ProbeRound, Loops, Steps
<1>4. CASE \E g \in Loops : TakeSnapshot(g) \/ WriteFile(g) \/ WriteFails(g) \/ LoopEnds(g)
  <2>1. PICK g \in Loops : TakeSnapshot(g) \/ WriteFile(g) \/ WriteFails(g) \/ LoopEnds(g)
    BY <1>4
  <2>2. g # "main"
    BY <1>1
  <2> QED BY <1>2, <2>1, <2>2 DEF TakeSnapshot, WriteFile, WriteFails, Written, LoopEnds, Steps
<1>5. ASSUME NEW from \in Steps, NEW to \in Steps, Goto("main", from, to)
      PROVE  /\ step["main"] = from /\ step'["main"] = to
             /\ \A g \in Loops : step'[g] = step[g]
  BY <1>1, <1>5, GotoKeeps
<1>6. CASE TakeSnapshot("main")
  <2>1. /\ step["main"] = "recorded" /\ step'["main"] = "taken" /\ \A g \in Loops : step'[g] = step[g]
        /\ snapshot'["main"] = status
    BY <1>1, <1>5, <1>6 DEF TakeSnapshot, Steps, HealthTypeOK
  <2> QED BY <1>1, <1>6, <2>1 DEF TakeSnapshot, FinalInv
<1>7. CASE WriteFile("main") \/ WriteFails("main")
  <2>1. step["main"] = "taken" /\ step'["main"] = "done" /\ \A g \in Loops : step'[g] = step[g]
    BY <1>5, <1>7 DEF WriteFile, WriteFails, Written, Steps
  <2>2. status' = status /\ (faults' = 0 => file' = snapshot["main"])
    BY <1>1, <1>7 DEF WriteFile, WriteFails, Written, HealthTypeOK
  <2> QED BY <1>1, <2>1, <2>2 DEF FinalInv
<1>8. CASE WriteShutdown
  <2>1. step'["main"] = "recorded" /\ \A g \in Loops : step'[g] = "done"
    BY <1>5, <1>8 DEF WriteShutdown, LoopsEnded, Steps
  <2>2. status'.error = "shutdown"
    BY <1>1, <1>8 DEF WriteShutdown, HealthTypeOK, Status
  <2> QED BY <2>1, <2>2 DEF FinalInv
<1>9. CASE Cancel \/ UNCHANGED vars
  BY <1>1, <1>9 DEF Cancel, vars, FinalInv
<1> QED BY <1>3, <1>4, <1>6, <1>7, <1>8, <1>9 DEF HealthNext, Goroutines

\* Between its snapshot and its write a loop records nothing, and nobody else
\* records what it does: Run's final status waits for both.
LEMMA NextFresh == ASSUME HealthInv, [HealthNext]_vars PROVE FreshInv'
<1>1. HealthTypeOK /\ FreshInv /\ status \in Status /\ {"sync", "probe"} \subseteq Goroutines
  BY DEF HealthInv, HealthTypeOK, Goroutines, Loops
<1>2. ASSUME NEW g \in Goroutines, NEW from \in Steps, NEW to \in Steps \ {"taken"},
             Goto(g, from, to), status' = status,
             \A h \in Goroutines : h # g => snapshot'[h] = snapshot[h]
      PROVE  FreshInv'
  <2>1. \A h \in Goroutines : step'[h] = "taken" => step[h] = "taken" /\ snapshot'[h] = snapshot[h]
    BY <1>1, <1>2, GotoKeeps
  <2> QED BY <1>1, <1>2, <2>1 DEF FreshInv
<1>3. CASE SyncFetched \/ SyncFailed
  <2>1. step'["sync"] = "recorded" /\ step'["probe"] = step["probe"]
    BY <1>1, <1>3, GotoKeeps DEF SyncFetched, SyncFailed, Steps
  <2>2. status'.round = status.round /\ snapshot' = snapshot
    BY <1>1, <1>3 DEF SyncFetched, SyncFailed, Fetched, FetchErr, Status
  <2> QED BY <1>1, <2>1, <2>2 DEF FreshInv
<1>4. CASE ProbeRound
  <2>1. step'["probe"] = "recorded" /\ step'["sync"] = step["sync"]
    BY <1>1, <1>4, GotoKeeps DEF ProbeRound, Steps
  <2>2. status'.fetchOK = status.fetchOK /\ status'.error = status.error /\ snapshot' = snapshot
    BY <1>1, <1>4 DEF ProbeRound, Status
  <2> QED BY <1>1, <2>1, <2>2 DEF FreshInv
<1>5. CASE \E g \in Goroutines : TakeSnapshot(g)
  <2>1. PICK g \in Goroutines : TakeSnapshot(g)
    BY <1>5
  <2>2. step[g] = "recorded" /\ \A h \in Goroutines : h # g => step'[h] = step[h]
    BY <1>1, <2>1, GotoKeeps DEF TakeSnapshot, Steps
  <2>3. status' = status /\ snapshot'[g] = status
        /\ \A h \in Goroutines : h # g => snapshot'[h] = snapshot[h]
    BY <1>1, <2>1 DEF TakeSnapshot, HealthTypeOK
  <2> QED BY <1>1, <2>2, <2>3 DEF FreshInv
<1>6. ASSUME NEW g \in Goroutines, Written(g) PROVE FreshInv'
  <2>1. /\ Goto(g, "taken", IF g = "main" THEN "done" ELSE "loop") /\ status' = status
        /\ \A h \in Goroutines : h # g => snapshot'[h] = snapshot[h]
    BY <1>1, <1>6 DEF Written, HealthTypeOK
  <2> QED BY <1>2, <2>1 DEF Steps
<1>7. CASE \E g \in Goroutines : WriteFile(g) \/ WriteFails(g)
  BY <1>6, <1>7 DEF WriteFile, WriteFails
<1>8. CASE \E g \in Loops : LoopEnds(g)
  <2>1. PICK g \in Loops : LoopEnds(g)
    BY <1>8
  <2> QED BY <1>2, <2>1 DEF LoopEnds, Goroutines, Steps
<1>9. CASE WriteShutdown
  <2>1. \A g \in {"sync", "probe"} : step'[g] # "taken"
    BY <1>1, <1>9, GotoKeeps DEF WriteShutdown, LoopsEnded, Loops, Goroutines, Steps
  <2> QED BY <2>1 DEF FreshInv
<1>10. CASE Cancel \/ UNCHANGED vars
  BY <1>1, <1>10 DEF Cancel, vars, FreshInv
<1> QED BY <1>3, <1>4, <1>5, <1>7, <1>8, <1>9, <1>10 DEF HealthNext

-----------------------------------------------------------------------------
LEMMA HealthInvariant == HealthSpec => []HealthInv
<1>1. ASSUME HealthInv, [HealthNext]_vars PROVE HealthInv'
  BY <1>1, NextTypes, NextFinal, NextFresh DEF HealthInv
<1> QED BY InitHealth, <1>1, PTL DEF HealthSpec

\* HealthTypeOK: the tracker's fields, the file and the snapshots are statuses.
THEOREM HealthTypeCorrect == HealthSpec => []HealthTypeOK
<1>1. HealthInv => HealthTypeOK
  BY DEF HealthInv
<1> QED BY HealthInvariant, <1>1, PTL

\* ShutdownStatusLast: whatever the loops were recording and writing when the
\* agent was told to stop, the file it leaves is the final status.
THEOREM ShutdownStatusIsLast == HealthSpec => []ShutdownStatusLast
<1>1. HealthInv => ShutdownStatusLast
  BY DEF HealthInv, FinalInv, ShutdownStatusLast
<1> QED BY HealthInvariant, <1>1, PTL

\* OwnRecordWritten: no write of a loop puts an older record of its own into the
\* file.
THEOREM OwnRecordAlwaysWritten == HealthSpec => OwnRecordWritten
<1>1. ASSUME HealthInv, [HealthNext]_vars
      PROVE  [/\ WriteFile("sync") =>
                   file'.fetchOK = status.fetchOK /\ file'.error = status.error
              /\ WriteFile("probe") => file'.round = status.round]_vars
  BY <1>1 DEF HealthInv, FreshInv, WriteFile, Written, Goto
<1> QED BY HealthInvariant, <1>1, PTL DEF HealthSpec, OwnRecordWritten
=============================================================================
