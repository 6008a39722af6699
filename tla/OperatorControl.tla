--------------------------- MODULE OperatorControl ---------------------------
(***************************************************************************)
(* The operator's control latch (internal/operations/control) with the     *)
(* end-of-day runner it starts, which is the trading runtime's Shutdown:   *)
(* a sync.Once whose result only the caller that runs it receives.         *)
(*                                                                         *)
(* Everything the controller does under its mutex, the write of its file   *)
(* included, is one step.  The file is replaced by a rename, so a crash    *)
(* sees the old or the new content.  A request spawns at most one runEOD   *)
(* goroutine and names it.  Reasons are part of what a request asks.       *)
(***************************************************************************)
EXTENDS Integers, Sequences, FiniteSets

CONSTANTS
  Requests,      \* request identities
  Reasons,       \* reasons an operator gives
  MaxCommands,   \* commands kept in the snapshot (1024 in the code)
  MaxConflicts,  \* bound on refused requests between two writes
  MaxCrashes,    \* bound on restarts
  MaxFaults      \* bound on failing writes

ASSUME ControlAssumption ==
  MaxCommands \in Nat \ {0} /\ MaxConflicts \in Nat /\ MaxCrashes \in Nat /\ MaxFaults \in Nat

VARIABLES
  snapshot,    \* Controller.snapshot
  requests,    \* Controller.requests
  disk,        \* the file
  runner,      \* request -> its runEOD goroutine
  drain,       \* Runtime.stopOnce: [state, owner]
  answered,    \* history: the commands answered with success
  drained,     \* history: some shutdown sequence succeeded
  crashes, faults

vars == <<snapshot, requests, disk, runner, drain, answered, drained, crashes, faults>>

EODStates == {"IDLE", "REQUESTED", "RUNNING", "COMPLETED", "FAILED"}

Actions == {"STOP_NEW_EXPOSURE", "EOD_CLOSE"}

Keys == Actions \X Reasons

NoKey == <<"none", "none">>

Commands == [revision : Nat, id : Requests, key : Keys]

Empty == [revision |-> 0, blocked |-> FALSE, eod |-> "IDLE", commands |-> <<>>]

NotStarted == [state |-> "idle", owner |-> "none"]

Init ==
  /\ snapshot = Empty /\ disk = Empty
  /\ requests = [r \in Requests |-> NoKey]
  /\ runner = [r \in Requests |-> "none"]
  /\ drain = NotStarted
  /\ answered = {} /\ drained = FALSE
  /\ crashes = 0 /\ faults = 0

\* finalize: what a snapshot must satisfy to be written and to be loaded.
finalize(value) ==
  /\ Len(value.commands) <= MaxCommands
  /\ \A i \in DOMAIN value.commands :
       /\ value.commands[i].revision > 0
       /\ i > 1 => value.commands[i - 1].revision < value.commands[i].revision

\* The newest MaxCommands commands.
Newest(commands) ==
  IF Len(commands) > MaxCommands
  THEN SubSeq(commands, Len(commands) - MaxCommands + 1, Len(commands)) ELSE commands

\* persistLocked; FileLoads shows that finalize never refuses the snapshot.
Written == disk' = snapshot' /\ UNCHANGED faults

WriteFails == faults < MaxFaults /\ faults' = faults + 1 /\ UNCHANGED disk

-----------------------------------------------------------------------------
\* Mutant of Latched: the latch is set by STOP_NEW_EXPOSURE only.
LatchedByStop(action) == snapshot.blocked \/ action = "STOP_NEW_EXPOSURE"

Latched(action) == TRUE

\* Mutant of Commanded: the revision does not move.
CommandedInPlace(r, key) ==
  [snapshot EXCEPT
     !.blocked = Latched(key[1]),
     !.eod = IF key[1] = "EOD_CLOSE" THEN "REQUESTED" ELSE @,
     !.commands = Newest(Append(@, [revision |-> snapshot.revision, id |-> r, key |-> key]))]

\* What command leaves in the snapshot.
Commanded(r, key) ==
  LET revision == snapshot.revision + 1 IN
  [revision |-> revision,
   blocked  |-> Latched(key[1]),
   eod      |-> IF key[1] = "EOD_CLOSE" THEN "REQUESTED" ELSE snapshot.eod,
   commands |-> Newest(Append(snapshot.commands, [revision |-> revision, id |-> r, key |-> key]))]

\* A new request: recorded and answered once the file has it.
command(r, key) ==
  /\ requests[r] = NoKey
  /\ key[1] = "EOD_CLOSE" => snapshot.eod # "COMPLETED"
  /\ snapshot' = Commanded(r, key)
  /\ Written
  /\ requests' = [requests EXCEPT ![r] = key]
  /\ answered' = answered \cup {<<r, key>>}
  /\ runner' = IF key[1] = "EOD_CLOSE" THEN [runner EXCEPT ![r] = "start"] ELSE runner
  /\ UNCHANGED <<drain, drained, crashes>>

\* The write failed: the snapshot and the request are put back.
CommandFails(r, key) ==
  /\ requests[r] = NoKey
  /\ key[1] = "EOD_CLOSE" => snapshot.eod # "COMPLETED"
  /\ WriteFails
  /\ UNCHANGED <<snapshot, requests, runner, drain, answered, drained, crashes>>

\* A known request changes nothing; the same one is a success again.
CommandRepeated(r, key) ==
  /\ requests[r] = key
  /\ answered' = answered \cup {<<r, key>>}
  /\ UNCHANGED <<snapshot, requests, disk, runner, drain, drained, crashes, faults>>

\* EOD_CLOSE after COMPLETED is a conflict, but the revision has moved in memory.
\* The next write makes the gap durable.
CommandAfterCompleted(r, key) ==
  /\ requests[r] = NoKey
  /\ key[1] = "EOD_CLOSE" /\ snapshot.eod = "COMPLETED"
  /\ snapshot.revision < disk.revision + MaxConflicts
  /\ snapshot' = [snapshot EXCEPT !.revision = @ + 1, !.blocked = TRUE]
  /\ UNCHANGED <<requests, disk, runner, drain, answered, drained, crashes, faults>>

-----------------------------------------------------------------------------
\* runEOD starts; another goroutine may have taken the request over.
runEOD(r) ==
  /\ runner[r] = "start"
  /\ IF snapshot.eod # "REQUESTED"
     THEN /\ runner' = [runner EXCEPT ![r] = "none"]
          /\ UNCHANGED <<snapshot, disk, faults>>
     ELSE \/ /\ snapshot' = [snapshot EXCEPT !.eod = "RUNNING", !.revision = @ + 1]
             /\ Written
             /\ runner' = [runner EXCEPT ![r] = "call"]
          \/ /\ WriteFails
             /\ snapshot' = [snapshot EXCEPT !.eod = "FAILED", !.revision = @ + 1]
             /\ runner' = [runner EXCEPT ![r] = "none"]
  /\ UNCHANGED <<requests, drain, answered, drained, crashes>>

\* Runtime.Shutdown: the first caller of stopOnce.Do runs the sequence.
ShutdownOnce(r) ==
  /\ runner[r] = "call"
  /\ IF drain.state = "idle"
     THEN drain' = [state |-> "busy", owner |-> r]
     ELSE UNCHANGED drain
  /\ runner' = [runner EXCEPT ![r] = IF drain.state = "idle" THEN "own" ELSE "wait"]
  /\ UNCHANGED <<snapshot, requests, disk, answered, drained, crashes, faults>>

\* The application's own shutdown may be the first caller.
AppShutdown ==
  /\ drain.state = "idle"
  /\ drain' = [state |-> "busy", owner |-> "app"]
  /\ UNCHANGED <<snapshot, requests, disk, runner, answered, drained, crashes, faults>>

\* Wait for the work in flight, drain, checkpoint: it may fail or run out of time.
DrainEnds(ok) ==
  /\ drain.state = "busy"
  /\ drain' = [drain EXCEPT !.state = IF ok THEN "ok" ELSE "failed"]
  /\ drained' = (drained \/ ok)
  /\ UNCHANGED <<snapshot, requests, disk, runner, answered, crashes, faults>>

\* Only the owner's result variable is set, any other caller returns nil.
Result(r) == IF runner[r] = "own" THEN drain.state = "ok" ELSE TRUE

\* Mutant of EODFinished: the goroutine leaves without recording the outcome.
EODForgotten(r) ==
  /\ runner[r] \in {"own", "wait"} /\ drain.state \in {"ok", "failed"}
  /\ snapshot' = [snapshot EXCEPT !.revision = @ + 1]
  /\ Written
  /\ runner' = [runner EXCEPT ![r] = "none"]
  /\ UNCHANGED <<requests, drain, answered, drained, crashes>>

\* RunEOD has returned; a failing write is ignored.
EODFinished(r) ==
  /\ runner[r] \in {"own", "wait"} /\ drain.state \in {"ok", "failed"}
  /\ snapshot' = [snapshot EXCEPT !.revision = @ + 1,
                                  !.eod = IF Result(r) THEN "COMPLETED" ELSE "FAILED"]
  /\ Written \/ WriteFails
  /\ runner' = [runner EXCEPT ![r] = "none"]
  /\ UNCHANGED <<requests, drain, answered, drained, crashes>>

\* Mutant of Restored: an interrupted end of day is loaded as it was.
RestoredAsWas == disk

\* New: an end of day that was under way counts as failed.
Restored ==
  IF disk.eod \in {"REQUESTED", "RUNNING"}
  THEN [disk EXCEPT !.eod = "FAILED", !.blocked = TRUE] ELSE disk

Reload ==
  /\ snapshot' = Restored
  /\ disk' = Restored
  /\ requests' = [r \in Requests |->
       IF \E i \in DOMAIN disk.commands : disk.commands[i].id = r
       THEN disk.commands[CHOOSE i \in DOMAIN disk.commands :
              disk.commands[i].id = r /\ \A j \in DOMAIN disk.commands :
                disk.commands[j].id = r => j <= i].key
       ELSE NoKey]

\* The process ends and starts again; load refuses a file finalize refuses.
Restart ==
  /\ crashes < MaxCrashes
  /\ crashes' = crashes + 1
  /\ finalize(disk)
  /\ Reload
  /\ runner' = [r \in Requests |-> "none"]
  /\ drain' = NotStarted
  /\ UNCHANGED <<answered, drained, faults>>

RunnerStep(r) == runEOD(r) \/ ShutdownOnce(r) \/ EODFinished(r)

Next ==
  \/ \E r \in Requests, key \in Keys :
       command(r, key) \/ CommandFails(r, key) \/ CommandRepeated(r, key) \/ CommandAfterCompleted(r, key)
  \/ \E r \in Requests : RunnerStep(r)
  \/ AppShutdown
  \/ \E ok \in BOOLEAN : DrainEnds(ok)
  \/ Restart

Spec == Init /\ [][Next]_vars

\* Goroutines run, and the shutdown sequence is bounded by DrainTimeout.
Fairness ==
  /\ \A r \in Requests : WF_vars(RunnerStep(r))
  /\ WF_vars(\E ok \in BOOLEAN : DrainEnds(ok))

FairSpec == Spec /\ Fairness

-----------------------------------------------------------------------------
Snapshots == [revision : Nat, blocked : BOOLEAN, eod : EODStates, commands : Seq(Commands)]

\* Types of the controller's state.
TypeOK ==
  /\ snapshot \in Snapshots /\ disk \in Snapshots
  /\ requests \in [Requests -> Keys \cup {NoKey}]
  /\ runner \in [Requests -> {"none", "start", "call", "own", "wait"}]
  /\ drain \in [state : {"idle", "busy", "ok", "failed"}, owner : Requests \cup {"none", "app"}]
  /\ answered \subseteq (Requests \X Keys) /\ drained \in BOOLEAN
  /\ crashes \in Nat /\ faults \in Nat

\* The latch is one-way and durable: memory and file agree on it, so that no failed
\* write, no end of day and no restart releases it (command, runEOD, New).
LatchIsDurable ==
  /\ snapshot.blocked => disk.blocked
  /\ snapshot.eod # "IDLE" => snapshot.blocked
  /\ answered # {} => snapshot.blocked

\* An answered command survives: it is in the file, or the file is full of later ones.
AnsweredIsDurable ==
  \A a \in answered :
    \/ \E i \in DOMAIN disk.commands : disk.commands[i].id = a[1] /\ disk.commands[i].key = a[2]
    \/ Len(disk.commands) = MaxCommands

\* The controller can always be restarted: the file passes load's validation,
\* although revisions also move without a command and without a write.
FileLoads ==
  /\ finalize(disk)
  /\ \A i \in DOMAIN disk.commands : disk.commands[i].revision <= disk.revision
  /\ disk.revision <= snapshot.revision

\* What a restart finds: memory and file are well formed, the file loads and holds what was
\* answered (command, persist, load).
ControllerInv == TypeOK /\ FileLoads /\ AnsweredIsDurable

\* A new process does not believe in an end of day nobody runs: REQUESTED and RUNNING
\* always have a goroutine behind them.
EODHasRunner ==
  snapshot.eod \in {"REQUESTED", "RUNNING"} => \E r \in Requests : runner[r] # "none"

\* An accepted end of day reaches an outcome.
EODEnds == snapshot.eod \in {"REQUESTED", "RUNNING"} ~> snapshot.eod \in {"COMPLETED", "FAILED"}

\* EOD_CLOSE drains, checkpoints and shuts down: COMPLETED means that happened.
CompletedMeansDrained == snapshot.eod = "COMPLETED" => drained
=============================================================================
