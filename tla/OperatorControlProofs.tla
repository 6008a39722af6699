------------------------ MODULE OperatorControlProofs ------------------------
(***************************************************************************)
(* The operator's latch is durable, an end of day in progress always has a *)
(* goroutine behind it, and the file loads and holds what was answered,    *)
(* for any number of requests and restarts.                                *)
(***************************************************************************)
EXTENDS OperatorControl, SumLemmas, SequenceTheorems, TLAPS

\* The latch, strengthened by what the file says of an end of day.
Latch ==
  /\ snapshot.blocked => disk.blocked
  /\ snapshot.eod # "IDLE" => snapshot.blocked
  /\ disk.eod # "IDLE" => disk.blocked
  /\ answered # {} => snapshot.blocked

\* REQUESTED has a goroutine that has not looked yet, RUNNING one that has, and no
\* goroutine runs without the latch.
Runner ==
  /\ \A r \in Requests : runner[r] # "none" => snapshot.blocked
  /\ snapshot.eod = "REQUESTED" => \E r \in Requests : runner[r] = "start"
  /\ snapshot.eod = "RUNNING" => \E r \in Requests : runner[r] \in {"call", "own", "wait"}

\* A known request was latched, in this process or in the one that wrote the file.
Requested ==
  /\ disk.blocked \/ disk.commands = <<>>
  /\ \A r \in Requests : requests[r] # NoKey => snapshot.blocked

\* The fields of the two snapshots that the latch depends on, and the goroutines.
Shape ==
  /\ DOMAIN snapshot = {"revision", "blocked", "eod", "commands"}
  /\ DOMAIN disk = {"revision", "blocked", "eod", "commands"}
  /\ snapshot.blocked \in BOOLEAN /\ disk.blocked \in BOOLEAN
  /\ snapshot.eod \in EODStates /\ disk.eod \in EODStates
  /\ runner \in [Requests -> {"none", "start", "call", "own", "wait"}]

ControlInv == Shape /\ Latch /\ Runner /\ Requested

\* The controller starts with the latch off and no end of day.
LEMMA ControlInit == Init => ControlInv
BY DEF Init, Empty, ControlInv, Shape, Latch, Runner, Requested, EODStates

\* A written command latches memory and file together.
LEMMA CommandStep ==
  ASSUME ControlInv, NEW r \in Requests, NEW key \in Keys, command(r, key)
  PROVE  ControlInv'
<1>1. /\ snapshot' = Commanded(r, key)
      /\ disk' = snapshot'
      /\ answered' = answered \cup {<<r, key>>}
      /\ runner' = IF key[1] = "EOD_CLOSE" THEN [runner EXCEPT ![r] = "start"] ELSE runner
  BY DEF command, Written
<1>2. /\ DOMAIN snapshot' = {"revision", "blocked", "eod", "commands"}
      /\ snapshot'.blocked = TRUE
      /\ snapshot'.eod = IF key[1] = "EOD_CLOSE" THEN "REQUESTED" ELSE snapshot.eod
  BY <1>1 DEF Commanded, Latched
<1>3. snapshot.eod \in EODStates /\ runner \in [Requests -> {"none", "start", "call", "own", "wait"}]
  BY DEF ControlInv, Shape
<1>4. Shape'
  BY <1>1, <1>2, <1>3 DEF Shape, EODStates
<1>5. Latch'
  BY <1>1, <1>2 DEF Latch
<1>6. Runner'
  <2>1. CASE key[1] = "EOD_CLOSE"
    <3>1. snapshot'.eod = "REQUESTED" /\ runner'[r] = "start"
      BY <1>1, <1>2, <1>3, <2>1
    <3> QED BY <1>2, <3>1 DEF Runner
  <2>2. CASE key[1] # "EOD_CLOSE"
    <3>1. snapshot'.eod = snapshot.eod /\ runner' = runner
      BY <1>1, <1>2, <2>2
    <3> QED BY <1>2, <3>1 DEF ControlInv, Runner
  <2> QED BY <2>1, <2>2
<1>7. Requested'
  BY <1>1, <1>2 DEF Requested
<1> QED BY <1>4, <1>5, <1>6, <1>7 DEF ControlInv

\* A refused end of day after COMPLETED moves only the revision.
LEMMA ConflictStep ==
  ASSUME ControlInv, NEW r \in Requests, NEW key \in Keys, CommandAfterCompleted(r, key)
  PROVE  ControlInv'
<1>1. /\ snapshot' = [snapshot EXCEPT !.revision = @ + 1, !.blocked = TRUE]
      /\ snapshot.eod = "COMPLETED"
      /\ disk' = disk /\ runner' = runner /\ answered' = answered /\ requests' = requests
  BY DEF CommandAfterCompleted
<1>2. /\ DOMAIN snapshot' = {"revision", "blocked", "eod", "commands"}
      /\ snapshot'.blocked = TRUE /\ snapshot'.eod = "COMPLETED"
  BY <1>1 DEF ControlInv, Shape
<1>3. disk.blocked
  BY <1>1 DEF ControlInv, Latch
<1>4. Shape' /\ Latch' /\ Runner'
  BY <1>1, <1>2, <1>3 DEF ControlInv, Shape, Latch, Runner, EODStates
<1>5. Requested'
  BY <1>1, <1>2, <1>3 DEF Requested
<1> QED BY <1>4, <1>5 DEF ControlInv

\* runEOD takes the request over, finds it taken, or fails to record it.
LEMMA StartStep ==
  ASSUME ControlInv, NEW r \in Requests, runEOD(r)
  PROVE  ControlInv'
<1> USE DEF ControlInv
<1>0. answered' = answered /\ requests' = requests /\ runner[r] = "start"
      /\ runner \in [Requests -> {"none", "start", "call", "own", "wait"}]
  BY DEF runEOD, Shape
<1>1. CASE snapshot.eod # "REQUESTED"
  <2>1. runner' = [runner EXCEPT ![r] = "none"] /\ snapshot' = snapshot /\ disk' = disk
    BY <1>1 DEF runEOD
  <2>2. Shape' /\ Latch' /\ Requested'
    BY <1>0, <2>1 DEF Shape, Latch, Requested
  <2>3. Runner'
    <3>0. \A q \in Requests : runner'[q] # "none" => snapshot'.blocked
      BY <1>0, <2>1 DEF Runner
    <3>1. SUFFICES ASSUME snapshot.eod = "RUNNING"
                   PROVE  \E q \in Requests : runner'[q] \in {"call", "own", "wait"}
      BY <1>1, <2>1, <3>0 DEF Runner
    <3>2. PICK q \in Requests : runner[q] \in {"call", "own", "wait"}
      BY <3>1 DEF Runner
    <3>3. q # r
      BY <1>0, <3>2
    <3>4. runner'[q] = runner[q]
      BY <1>0, <2>1, <3>3
    <3> QED BY <3>2, <3>4
  <2> QED BY <2>2, <2>3
<1>2. CASE /\ snapshot.eod = "REQUESTED"
           /\ snapshot' = [snapshot EXCEPT !.eod = "RUNNING", !.revision = @ + 1]
           /\ Written
           /\ runner' = [runner EXCEPT ![r] = "call"]
  <2>1. /\ DOMAIN snapshot' = {"revision", "blocked", "eod", "commands"}
        /\ snapshot'.blocked = snapshot.blocked /\ snapshot'.eod = "RUNNING"
        /\ disk' = snapshot' /\ runner'[r] = "call"
    BY <1>0, <1>2 DEF Shape, Written
  <2>2. snapshot.blocked
    BY <1>2 DEF Latch
  <2>3. Shape'
    BY <1>0, <1>2, <2>1, <2>2 DEF Shape, EODStates
  <2>4. Latch' /\ Runner' /\ Requested'
    BY <1>0, <2>1, <2>2 DEF Latch, Runner, Requested
  <2> QED BY <2>3, <2>4
<1>3. CASE /\ snapshot.eod = "REQUESTED"
           /\ WriteFails
           /\ snapshot' = [snapshot EXCEPT !.eod = "FAILED", !.revision = @ + 1]
           /\ runner' = [runner EXCEPT ![r] = "none"]
  <2>1. /\ DOMAIN snapshot' = {"revision", "blocked", "eod", "commands"}
        /\ snapshot'.blocked = snapshot.blocked /\ snapshot'.eod = "FAILED"
        /\ disk' = disk
    BY <1>3 DEF Shape, WriteFails
  <2>2. snapshot.blocked
    BY <1>3 DEF Latch
  <2>3. Shape'
    BY <1>0, <1>3, <2>1, <2>2 DEF Shape, EODStates
  <2>4. Latch' /\ Runner' /\ Requested'
    BY <1>0, <2>1, <2>2 DEF Latch, Runner, Requested
  <2> QED BY <2>3, <2>4
<1> QED BY <1>1, <1>2, <1>3 DEF runEOD

\* The outcome of an end of day is recorded, in the file too unless the write fails.
LEMMA FinishStep ==
  ASSUME ControlInv, NEW r \in Requests, EODFinished(r)
  PROVE  ControlInv'
<1> USE DEF ControlInv
<1>1. PICK outcome \in {"COMPLETED", "FAILED"} :
        snapshot' = [snapshot EXCEPT !.revision = @ + 1, !.eod = outcome]
  BY DEF EODFinished
<1>2. /\ runner' = [runner EXCEPT ![r] = "none"] /\ answered' = answered /\ requests' = requests
      /\ disk' = snapshot' \/ disk' = disk
      /\ runner[r] \in {"own", "wait"}
  BY DEF EODFinished, Written, WriteFails
<1>3. /\ DOMAIN snapshot' = {"revision", "blocked", "eod", "commands"}
      /\ snapshot'.blocked = snapshot.blocked /\ snapshot'.eod = outcome
  BY <1>1 DEF Shape
<1>4. Shape'
  BY <1>2, <1>3 DEF Shape, EODStates
<1>5. snapshot.blocked
  BY <1>2 DEF Runner
<1>6. Latch'
  BY <1>2, <1>3, <1>5 DEF Latch
<1>7. Runner'
  BY <1>2, <1>3, <1>5 DEF Runner
<1>8. Requested'
  BY <1>2, <1>3, <1>5 DEF Requested, Latch
<1> QED BY <1>4, <1>6, <1>7, <1>8

\* A restart reads the latch back; an interrupted end of day counts as failed.
LEMMA RestartStep ==
  ASSUME ControlInv, Restart
  PROVE  ControlInv'
<1> USE DEF ControlInv
<1>1. /\ snapshot' = Restored /\ disk' = Restored /\ answered' = answered
      /\ runner' = [r \in Requests |-> "none"]
  BY DEF Restart, Reload
<1>2. /\ DOMAIN Restored = {"revision", "blocked", "eod", "commands"}
      /\ Restored.blocked \in BOOLEAN
      /\ disk.blocked => Restored.blocked
      /\ Restored.eod \in {"IDLE", "COMPLETED", "FAILED"}
      /\ Restored.eod # "IDLE" => Restored.blocked
      /\ Restored.commands = disk.commands
  <2>1. CASE disk.eod \in {"REQUESTED", "RUNNING"}
    <3>1. Restored = [disk EXCEPT !.eod = "FAILED", !.blocked = TRUE]
      BY <2>1 DEF Restored
    <3>2. /\ DOMAIN Restored = {"revision", "blocked", "eod", "commands"}
          /\ Restored.blocked = TRUE /\ Restored.eod = "FAILED" /\ Restored.commands = disk.commands
      BY <3>1 DEF Shape
    <3> QED BY <3>2
  <2>2. CASE disk.eod \notin {"REQUESTED", "RUNNING"}
    <3>1. Restored = disk
      BY <2>2 DEF Restored
    <3> QED BY <2>2, <3>1 DEF Shape, Latch, EODStates
  <2> QED BY <2>1, <2>2
<1>3. Shape'
  BY <1>1, <1>2 DEF Shape, EODStates
<1>4. Latch'
  BY <1>1, <1>2 DEF Latch
<1>5. Runner'
  BY <1>1, <1>2 DEF Runner
<1>6. Requested'
  <2>1. Restored.blocked \/ disk.commands = <<>>
    BY <1>2 DEF Requested
  <2>2. ASSUME NEW r \in Requests, requests'[r] # NoKey
        PROVE  \E i \in DOMAIN disk.commands : disk.commands[i].id = r
    BY <2>2 DEF Restart, Reload
  <2>3. disk.commands = <<>> => DOMAIN disk.commands = {}
    OBVIOUS
  <2> QED BY <1>1, <1>2, <2>1, <2>2, <2>3 DEF Requested
<1> QED BY <1>3, <1>4, <1>5, <1>6

\* Every step of the controller keeps the invariant.
LEMMA ControlStep == ControlInv /\ [Next]_vars => ControlInv'
<1> SUFFICES ASSUME ControlInv, [Next]_vars
             PROVE  ControlInv'
  OBVIOUS
<1>1. ASSUME NEW r \in Requests, NEW key \in Keys, CommandFails(r, key) \/ CommandRepeated(r, key)
      PROVE  ControlInv'
  <2>1. /\ snapshot' = snapshot /\ disk' = disk /\ runner' = runner
        /\ requests' = requests
        /\ answered' = answered \/ requests[r] = key
    BY <1>1 DEF CommandFails, CommandRepeated, WriteFails
  <2>2. key # NoKey
    BY DEF Keys, Actions, NoKey
  <2>3. answered' = answered \/ snapshot.blocked
    BY <2>1, <2>2 DEF ControlInv, Requested
  <2> QED BY <2>1, <2>3 DEF ControlInv, Shape, Latch, Runner, Requested
<1>2. ASSUME NEW r \in Requests, ShutdownOnce(r)
      PROVE  ControlInv'
  <2>1. PICK pc \in {"own", "wait"} : runner' = [runner EXCEPT ![r] = pc]
    BY <1>2 DEF ShutdownOnce
  <2>2. /\ snapshot' = snapshot /\ disk' = disk /\ answered' = answered /\ requests' = requests
        /\ runner[r] = "call"
    BY <1>2 DEF ShutdownOnce
  <2>3. runner \in [Requests -> {"none", "start", "call", "own", "wait"}]
    BY DEF ControlInv, Shape
  <2>4. Shape' /\ Latch' /\ Requested'
    BY <2>1, <2>2, <2>3 DEF ControlInv, Shape, Latch, Requested
  <2>5. Runner'
    <3>1. \A q \in Requests : runner'[q] = IF q = r THEN pc ELSE runner[q]
      BY <2>1, <2>3
    <3> QED BY <2>2, <3>1 DEF ControlInv, Runner
  <2> QED BY <2>4, <2>5 DEF ControlInv
<1>3. CASE AppShutdown \/ (\E ok \in BOOLEAN : DrainEnds(ok)) \/ UNCHANGED vars
  BY <1>3 DEF AppShutdown, DrainEnds, vars, ControlInv, Shape, Latch, Runner, Requested
<1> QED
  BY <1>1, <1>2, <1>3, CommandStep, ConflictStep, StartStep, FinishStep, RestartStep DEF Next, RunnerStep

\* The inductive invariant holds in every reachable state.
THEOREM ControlInvariant == Spec => []ControlInv
<1> QED BY ControlInit, ControlStep, PTL DEF Spec

\* The operator's latch survives failed writes, the end of day and restarts
\* (command, runEOD, New): no reachable state has released it.
THEOREM LatchHolds == Spec => []LatchIsDurable
<1>1. ControlInv => LatchIsDurable
  BY DEF ControlInv, Latch, LatchIsDurable
<1> QED BY <1>1, ControlInvariant, PTL

\* REQUESTED and RUNNING always have a runEOD goroutine behind them.
THEOREM EndOfDayHasRunner == Spec => []EODHasRunner
<1>1. ControlInv => EODHasRunner
  BY DEF ControlInv, Runner, EODHasRunner
<1> QED BY <1>1, ControlInvariant, PTL

-----------------------------------------------------------------------------
(* The file: its commands are those of the memory, in the order of their   *)
(* revisions, and an answered command is among them or the file is full.   *)

\* The commands cs are what finalize accepts at the given revision.
Ascends(cs, revision) ==
  /\ Len(cs) <= MaxCommands
  /\ \A i \in 1..Len(cs) : cs[i].revision > 0 /\ cs[i].revision <= revision
  /\ \A i \in 1..Len(cs) : i > 1 => cs[i - 1].revision < cs[i].revision

Has(cs, r, key) ==
  \/ \E i \in 1..Len(cs) : cs[i].id = r /\ cs[i].key = key
  \/ Len(cs) = MaxCommands

File ==
  /\ TypeOK
  /\ snapshot.commands = disk.commands
  /\ disk.revision <= snapshot.revision
  /\ Ascends(disk.commands, disk.revision)
  /\ \A a \in answered : Has(disk.commands, a[1], a[2])
  /\ \A r \in Requests : requests[r] # NoKey => Has(disk.commands, r, requests[r])

\* What Append and Newest leave of the commands.
LEMMA NewestCommands ==
  ASSUME NEW cs \in Seq(Commands), Len(cs) <= MaxCommands, NEW c \in Commands
  PROVE  LET ds == Newest(Append(cs, c)) IN
         /\ ds \in Seq(Commands) /\ Len(ds) \in 1..MaxCommands /\ ds[Len(ds)] = c
         /\ \/ /\ Len(ds) = Len(cs) + 1
               /\ \A i \in 1..Len(cs) : ds[i] = cs[i]
            \/ /\ Len(ds) = MaxCommands /\ Len(cs) = MaxCommands
               /\ \A i \in 1..(Len(ds) - 1) : i + 1 \in 1..Len(cs) /\ ds[i] = cs[i + 1]
<1> DEFINE as == Append(cs, c)
<1>1. /\ as \in Seq(Commands) /\ Len(as) = Len(cs) + 1 /\ as[Len(cs) + 1] = c
      /\ \A i \in 1..Len(cs) : as[i] = cs[i]
  BY AppendProperties
<1>2. PICK n \in Nat : n = Len(cs)
  BY LenProperties
<1>3. PICK m \in Nat : m = MaxCommands /\ m # 0
  BY ControlAssumption DEF ControlAssumption
<1>4. n <= m
  BY <1>2, <1>3
<1>5. /\ as \in Seq(Commands) /\ Len(as) = n + 1 /\ as[n + 1] = c
      /\ \A i \in 1..n : as[i] = cs[i]
  BY <1>1, <1>2
<1> HIDE DEF as
<1>6. CASE n < m
  <2>1. ~(Len(as) > MaxCommands)
    <3>1. ~(n + 1 > m)
      BY <1>6
    <3> QED BY <3>1, <1>3, <1>5
  <2>2. Newest(as) = as
    BY <2>1 DEF Newest
  <2>3. n + 1 \in 1..m
    BY <1>6
  <2>4. Len(as) \in 1..MaxCommands /\ as[Len(as)] = c /\ Len(as) = Len(cs) + 1 /\ (\A i \in 1..Len(cs) : as[i] = cs[i])
    BY <1>2, <1>3, <1>5, <2>3
  <2> QED BY <1>5, <2>2, <2>4 DEF as
<1>7. CASE n = m
  <2> DEFINE ds == Tail(as)
  <2>0. as # <<>>
    <3>1. n + 1 # 0
      OBVIOUS
    <3>2. Len(<<>>) = 0
      BY EmptySeq
    <3> QED BY <1>5, <3>1, <3>2, Zenon
  <2>1. Newest(as) = ds
    <3>1. n + 1 > m /\ n + 1 - m + 1 = 2
      BY <1>7
    <3>2. Len(as) > MaxCommands /\ Len(as) - MaxCommands + 1 = 2
      BY <1>3, <1>5, <3>1
    <3>3. Newest(as) = SubSeq(as, 2, Len(as))
      BY <3>2 DEF Newest
    <3> QED BY <1>5, <2>0, <3>3, TailIsSubSeq
  <2>2. ds \in Seq(Commands) /\ Len(ds) = n /\ \A i \in 1..n : ds[i] = as[i + 1]
    <3>1. ds \in Seq(Commands) /\ Len(ds) = Len(as) - 1 /\ \A i \in 1..Len(ds) : ds[i] = as[i + 1]
      BY <1>5, <2>0, HeadTailProperties, Zenon
    <3>2. Len(ds) = n
      BY <1>5, <3>1
    <3> QED BY <3>1, <3>2, Zenon
  <2> HIDE DEF ds
  <2>3. ds[n] = c /\ n \in 1..m
    <3>1. n \in 1..m /\ n \in 1..n
      BY <1>3, <1>7
    <3>2. ds[n] = as[n + 1]
      BY <2>2, <3>1, Zenon
    <3> QED BY <1>5, <3>1, <3>2, Zenon
  <2>4. \A i \in 1..(n - 1) : i + 1 \in 1..n /\ ds[i] = cs[i + 1]
    <3>1. \A i \in 1..(n - 1) : i + 1 \in 1..n /\ i \in 1..n
      OBVIOUS
    <3> QED BY <1>5, <2>2, <3>1, Zenon
  <2>5. /\ Len(ds) \in 1..MaxCommands /\ ds[Len(ds)] = c /\ Len(ds) = MaxCommands /\ Len(cs) = MaxCommands
        /\ \A i \in 1..(Len(ds) - 1) : i + 1 \in 1..Len(cs) /\ ds[i] = cs[i + 1]
    BY <1>2, <1>3, <1>7, <2>2, <2>3, <2>4
  <2> QED BY <2>1, <2>2, <2>5 DEF as
<1> QED BY <1>4, <1>6, <1>7

LEMMA NewestAscends ==
  ASSUME NEW cs \in Seq(Commands), NEW revision \in Nat, Ascends(cs, revision), NEW c \in Commands, c.revision = revision + 1
  PROVE  Ascends(Newest(Append(cs, c)), revision + 1)
<1> DEFINE ds == Newest(Append(cs, c))
<1>0. MaxCommands \in Nat \ {0} /\ Len(cs) \in Nat /\ Len(cs) <= MaxCommands
  BY ControlAssumption DEF ControlAssumption, Ascends
<1>1. /\ ds \in Seq(Commands) /\ Len(ds) \in 1..MaxCommands /\ ds[Len(ds)] = c
      /\ \/ /\ Len(ds) = Len(cs) + 1
            /\ \A i \in 1..Len(cs) : ds[i] = cs[i]
         \/ /\ Len(ds) = MaxCommands /\ Len(cs) = MaxCommands
            /\ \A i \in 1..(Len(ds) - 1) : i + 1 \in 1..Len(cs) /\ ds[i] = cs[i + 1]
  BY <1>0, NewestCommands
<1>2. PICK k \in {0, 1} : \A i \in 1..(Len(ds) - 1) : i + k \in 1..Len(cs) /\ ds[i] = cs[i + k]
  <2>1. CASE Len(ds) = Len(cs) + 1 /\ \A i \in 1..Len(cs) : ds[i] = cs[i]
    <3>1. \A i \in 1..(Len(ds) - 1) : i + 0 \in 1..Len(cs) /\ ds[i] = cs[i + 0]
      BY <1>0, <2>1
    <3> QED BY <3>1
  <2>2. CASE \A i \in 1..(Len(ds) - 1) : i + 1 \in 1..Len(cs) /\ ds[i] = cs[i + 1]
    BY <2>2
  <2> QED BY <1>1, <2>1, <2>2
<1> HIDE DEF ds
<1>3. \A i \in 1..Len(cs) : cs[i].revision \in Nat /\ cs[i].revision > 0 /\ cs[i].revision <= revision
  <2>1. \A i \in 1..Len(cs) : cs[i] \in Commands
    OBVIOUS
  <2> QED BY <2>1 DEF Ascends, Commands
<1>4. ASSUME NEW i \in 1..Len(ds) PROVE ds[i].revision > 0 /\ ds[i].revision <= revision + 1
  <2>1. CASE i = Len(ds)
    BY <1>1, <2>1
  <2>2. CASE i # Len(ds)
    <3>1. i \in 1..(Len(ds) - 1)
      BY <1>1, <2>2
    <3>2. i + k \in 1..Len(cs) /\ ds[i] = cs[i + k]
      BY <1>2, <3>1
    <3>3. cs[i + k].revision \in Nat /\ cs[i + k].revision > 0 /\ cs[i + k].revision <= revision
      BY <1>3, <3>2
    <3> QED BY <3>2, <3>3
  <2> QED BY <2>1, <2>2
<1>5. ASSUME NEW i \in 1..Len(ds), i > 1 PROVE ds[i - 1].revision < ds[i].revision
  <2>1. i - 1 \in 1..(Len(ds) - 1)
    BY <1>1, <1>5
  <2>2. i - 1 + k \in 1..Len(cs) /\ ds[i - 1] = cs[i - 1 + k]
    BY <1>2, <2>1
  <2>3. CASE i = Len(ds)
    <3>1. ds[i].revision = revision + 1
      BY <1>1, <2>3
    <3>2. cs[i - 1 + k].revision \in Nat /\ cs[i - 1 + k].revision <= revision
      BY <1>3, <2>2
    <3> QED BY <2>2, <3>1, <3>2
  <2>4. CASE i # Len(ds)
    <3>1. i \in 1..(Len(ds) - 1)
      BY <1>1, <2>4
    <3>2. i + k \in 1..Len(cs) /\ ds[i] = cs[i + k] /\ i + k > 1
      BY <1>2, <1>5, <3>1
    <3>3. cs[i + k - 1].revision < cs[i + k].revision
      BY <3>2 DEF Ascends
    <3>4. i + k - 1 = i - 1 + k
      BY <1>2
    <3> QED BY <2>2, <3>2, <3>3, <3>4
  <2> QED BY <2>3, <2>4
<1>6. Len(ds) <= MaxCommands
  BY <1>0, <1>1
<1>7. Ascends(ds, revision + 1)
  BY <1>4, <1>5, <1>6 DEF Ascends
<1> QED BY <1>7 DEF ds

\* A recorded command stays, unless the file is full.
LEMMA NewestHas ==
  ASSUME NEW cs \in Seq(Commands), Len(cs) <= MaxCommands, NEW c \in Commands
  PROVE  /\ Has(Newest(Append(cs, c)), c.id, c.key)
         /\ \A r, key : Has(cs, r, key) => Has(Newest(Append(cs, c)), r, key)
<1> DEFINE ds == Newest(Append(cs, c))
<1>0. MaxCommands \in Nat \ {0} /\ Len(cs) \in Nat
  BY ControlAssumption DEF ControlAssumption
<1>1. /\ ds \in Seq(Commands) /\ Len(ds) \in 1..MaxCommands /\ ds[Len(ds)] = c
      /\ \/ /\ Len(ds) = Len(cs) + 1
            /\ \A i \in 1..Len(cs) : ds[i] = cs[i]
         \/ /\ Len(ds) = MaxCommands /\ Len(cs) = MaxCommands
            /\ \A i \in 1..(Len(ds) - 1) : i + 1 \in 1..Len(cs) /\ ds[i] = cs[i + 1]
  BY NewestCommands
<1> HIDE DEF ds
<1>2. Has(ds, c.id, c.key)
  <2>1. Len(ds) \in 1..Len(ds)
    BY <1>1
  <2> QED BY <1>1, <2>1 DEF Has
<1>3. ASSUME NEW r, NEW key, Has(cs, r, key) PROVE Has(ds, r, key)
  <2>1. CASE Len(ds) = MaxCommands
    BY <2>1 DEF Has
  <2>2. CASE Len(ds) = Len(cs) + 1 /\ (\A i \in 1..Len(cs) : ds[i] = cs[i]) /\ Len(ds) # MaxCommands
    <3>1. CASE Len(cs) = MaxCommands
      BY <1>0, <1>1, <2>2, <3>1
    <3>2. CASE \E i \in 1..Len(cs) : cs[i].id = r /\ cs[i].key = key
      <4>1. PICK i \in 1..Len(cs) : cs[i].id = r /\ cs[i].key = key
        BY <3>2
      <4>2. i \in 1..Len(ds) /\ ds[i] = cs[i]
        BY <1>0, <2>2
      <4> QED BY <4>1, <4>2 DEF Has
    <3> QED BY <1>3, <3>1, <3>2 DEF Has
  <2> QED BY <1>1, <2>1, <2>2
<1> QED BY <1>2, <1>3 DEF ds
\* Commands of an earlier revision are commands of a later one.
LEMMA AscendsLater ==
  ASSUME NEW cs \in Seq(Commands), NEW a \in Nat, NEW b \in Nat, a <= b, Ascends(cs, a)
  PROVE  Ascends(cs, b)
<1>1. ASSUME NEW i \in 1..Len(cs) PROVE cs[i].revision > 0 /\ cs[i].revision <= b
  <2>1. cs[i] \in Commands
    BY ElementOfSeq
  <2>2. cs[i].revision \in Nat
    BY <2>1 DEF Commands
  <2>3. cs[i].revision > 0 /\ cs[i].revision <= a
    BY <1>1 DEF Ascends
  <2> QED BY <2>2, <2>3
<1> QED BY <1>1 DEF Ascends

\* What an operator recorded has left of the file: TRUE of the memory's requests and of
\* the answers, for the commands cs.
Recorded(cs, reqs, ans) ==
  /\ \A a \in ans : Has(cs, a[1], a[2])
  /\ \A r \in Requests : reqs[r] # NoKey => Has(cs, r, reqs[r])

LEMMA FileParts ==
  File <=> /\ TypeOK
           /\ snapshot.commands = disk.commands /\ disk.revision <= snapshot.revision
           /\ Ascends(disk.commands, disk.revision)
           /\ Recorded(disk.commands, requests, answered)
BY DEF File, Recorded

LEMMA FileInit == Init => File
<1> SUFFICES ASSUME Init PROVE File
  OBVIOUS
<1>1. Empty \in Snapshots /\ Empty.commands = <<>> /\ Empty.revision = 0
  BY EmptySeq DEF Empty, Snapshots, EODStates
<1>2. TypeOK
  BY <1>1 DEF Init, TypeOK, NotStarted
<1>3. Len(<<>>) = 0
  BY EmptySeq
<1>4. Ascends(<<>>, 0)
  BY <1>3, ControlAssumption DEF Ascends, ControlAssumption
<1>5. Recorded(<<>>, requests, answered)
  BY DEF Init, Recorded
<1> QED BY <1>1, <1>2, <1>4, <1>5 DEF Init, File, Recorded

\* A step that records no command keeps the commands: the revision may move, and the
\* file may follow.
LEMMA MovesFile ==
  ASSUME File, TypeOK',
         snapshot'.commands = snapshot.commands, snapshot'.revision >= snapshot.revision,
         disk' = snapshot' \/ disk' = disk,
         Recorded(disk.commands, requests', answered')
  PROVE  File'
<1>1. /\ snapshot.revision \in Nat /\ disk.revision \in Nat /\ disk.commands \in Seq(Commands)
      /\ snapshot'.revision \in Nat
  BY DEF File, TypeOK, Snapshots
<1>2. disk'.commands = disk.commands
  BY DEF File
<1>3. disk.revision <= disk'.revision /\ disk'.revision \in Nat /\ disk'.revision <= snapshot'.revision
  BY <1>1 DEF File
<1>4. Ascends(disk.commands, disk'.revision)
  BY <1>1, <1>3, AscendsLater DEF File
<1>5. Ascends(disk'.commands, disk'.revision) /\ Recorded(disk'.commands, requests', answered')
  BY <1>2, <1>4
<1> QED BY <1>2, <1>3, <1>5 DEF File, Recorded

\* A new command is the newest of the file, and it is of the revision of the snapshot.
LEMMA CommandKeepsFile ==
  ASSUME File, NEW r \in Requests, NEW key \in Keys, command(r, key)
  PROVE  File'
<1> DEFINE revision == snapshot.revision + 1
           c == [revision |-> revision, id |-> r, key |-> key]
           ds == Newest(Append(disk.commands, c))
<1>1. /\ snapshot \in Snapshots /\ disk.commands \in Seq(Commands) /\ disk.revision \in Nat
      /\ snapshot.revision \in Nat /\ snapshot.eod \in EODStates
  BY DEF File, TypeOK, Snapshots
<1>2. c \in Commands /\ c.revision = revision /\ c.id = r /\ c.key = key
  BY <1>1 DEF Commands
<1>3. Ascends(disk.commands, snapshot.revision) /\ Len(disk.commands) <= MaxCommands
  BY <1>1, AscendsLater DEF File, Ascends
<1>4. snapshot.commands = disk.commands
  BY DEF File
<1> HIDE DEF c
<1>5. Ascends(ds, revision)
  BY <1>1, <1>2, <1>3, NewestAscends
<1>6. ds \in Seq(Commands)
  BY <1>1, <1>2, <1>3, NewestCommands
<1>7. Has(ds, r, key) /\ \A q, k : Has(disk.commands, q, k) => Has(ds, q, k)
  BY <1>1, <1>2, <1>3, NewestHas
<1> HIDE DEF ds
<1>8. /\ snapshot' = [revision |-> revision, blocked |-> TRUE,
                      eod |-> IF key[1] = "EOD_CLOSE" THEN "REQUESTED" ELSE snapshot.eod, commands |-> ds]
      /\ disk' = snapshot'
  BY <1>4 DEF command, Written, Commanded, Latched, ds, c
<1>9. /\ snapshot' \in Snapshots /\ disk' = snapshot'
      /\ snapshot'.commands = ds /\ snapshot'.revision = revision /\ revision \in Nat
  BY <1>1, <1>6, <1>8 DEF Snapshots, EODStates
<1>10. /\ requests' = [requests EXCEPT ![r] = key]
       /\ answered' = answered \cup {<<r, key>>}
       /\ runner' = runner \/ runner' = [runner EXCEPT ![r] = "start"]
       /\ UNCHANGED <<drain, drained, crashes, faults>>
  BY DEF command, Written
<1>11. TypeOK'
  BY <1>9, <1>10 DEF File, TypeOK
<1>12. Recorded(ds, requests', answered')
  <2>1. ASSUME NEW a \in answered' PROVE Has(ds, a[1], a[2])
    BY <1>7, <1>10, <2>1 DEF File
  <2>2. ASSUME NEW q \in Requests, requests'[q] # NoKey PROVE Has(ds, q, requests'[q])
    <3>1. requests \in [Requests -> Keys \cup {NoKey}]
      BY DEF File, TypeOK
    <3>2. CASE q = r
      BY <1>7, <1>10, <3>1, <3>2
    <3>3. CASE q # r
      <4>1. requests'[q] = requests[q]
        BY <1>10, <3>1, <3>3
      <4> QED BY <1>7, <2>2, <4>1 DEF File
    <3> QED BY <3>2, <3>3
  <2> QED BY <2>1, <2>2 DEF Recorded
<1>13. /\ snapshot'.commands = disk'.commands /\ disk'.revision <= snapshot'.revision
       /\ Ascends(disk'.commands, disk'.revision) /\ Recorded(disk'.commands, requests', answered')
  BY <1>5, <1>9, <1>12
<1> QED BY <1>11, <1>13 DEF File, Recorded

\* A restart finds every recorded request in the file.
LEMMA RestartKeepsFile ==
  ASSUME File, Restart
  PROVE  File'
<1> DEFINE cs == disk.commands
           of(r) == {i \in DOMAIN cs : cs[i].id = r}
           last(r) == CHOOSE i \in DOMAIN cs : cs[i].id = r /\ \A j \in DOMAIN cs : cs[j].id = r => j <= i
<1>1. disk \in Snapshots /\ cs \in Seq(Commands)
  BY DEF File, TypeOK, Snapshots
<1>2. DOMAIN cs = 1..Len(cs) /\ Len(cs) \in Nat
  BY <1>1, LenProperties
<1>3. snapshot' \in Snapshots /\ disk' = snapshot' /\ snapshot'.commands = cs /\ snapshot'.revision = disk.revision
  BY <1>1 DEF Restart, Reload, Restored, Snapshots, EODStates
<1>4. requests' = [r \in Requests |-> IF \E i \in DOMAIN cs : cs[i].id = r THEN cs[last(r)].key ELSE NoKey]
  BY DEF Restart, Reload
<1> HIDE DEF cs
<1>5. ASSUME NEW r \in Requests, \E i \in DOMAIN cs : cs[i].id = r
      PROVE  last(r) \in 1..Len(cs) /\ cs[last(r)].id = r
  <2> DEFINE T == {n \in Nat : \E i \in of(r) : n = Len(cs) - i}
  <2>1. T \subseteq Nat /\ T # {}
    <3>1. PICK i \in DOMAIN cs : cs[i].id = r
      BY <1>5
    <3>2. Len(cs) - i \in T
      BY <1>2, <3>1
    <3> QED BY <3>2
  <2> HIDE DEF T
  <2>2. PICK x \in T : \A y \in T : x <= y
    BY <2>1, LeastNatural
  <2>3. PICK i \in of(r) : x = Len(cs) - i
    BY <2>2 DEF T
  <2>4. ASSUME NEW j \in DOMAIN cs, cs[j].id = r PROVE j <= i
    <3>1. Len(cs) - j \in T
      BY <1>2, <2>4 DEF T
    <3>2. Len(cs) - i <= Len(cs) - j
      BY <2>2, <2>3, <3>1
    <3> QED BY <1>2, <3>2
  <2>5. i \in DOMAIN cs /\ cs[i].id = r /\ \A j \in DOMAIN cs : cs[j].id = r => j <= i
    BY <2>4
  <2> QED BY <1>2, <2>5
<1> HIDE DEF last
<1>6. ASSUME NEW r \in Requests
      PROVE  \/ requests'[r] = NoKey
             \/ \E i \in 1..Len(cs) : cs[i].id = r /\ cs[i].key = requests'[r]
  BY <1>4, <1>5
<1>7. requests' \in [Requests -> Keys \cup {NoKey}]
  <2>1. \A r \in Requests : requests'[r] \in Keys \cup {NoKey}
    <3>1. ASSUME NEW i \in 1..Len(cs) PROVE cs[i].key \in Keys
      <4>1. cs[i] \in Commands
        BY <1>1, ElementOfSeq
      <4> QED BY <4>1 DEF Commands
    <3> QED BY <1>6, <3>1
  <2> QED BY <1>4, <2>1
<1>8. /\ runner' = [r \in Requests |-> "none"] /\ drain' = NotStarted
      /\ answered' = answered /\ drained' = drained /\ faults' = faults /\ crashes' = crashes + 1
  BY DEF Restart
<1>9. TypeOK'
  BY <1>3, <1>7, <1>8 DEF File, TypeOK, NotStarted
<1>10. Recorded(cs, requests', answered')
  BY <1>6, <1>8 DEF Recorded, File, Has, cs
<1>11. disk'.commands = cs /\ disk'.revision = disk.revision /\ disk.revision \in Nat
  BY <1>1, <1>3 DEF Snapshots
<1>12. Ascends(disk'.commands, disk'.revision)
  BY <1>11 DEF File, cs
<1>13. Recorded(disk'.commands, requests', answered') /\ disk'.revision <= snapshot'.revision
  BY <1>3, <1>10, <1>11
<1> QED BY <1>3, <1>9, <1>11, <1>12, <1>13 DEF File, Recorded
\* A step of a snapshot that is no command.
LEMMA MovedSnapshot ==
  ASSUME NEW s \in Snapshots, NEW e \in EODStates, NEW b \in BOOLEAN, NEW n \in {0, 1},
         NEW t, t = [revision |-> s.revision + n, blocked |-> b, eod |-> e, commands |-> s.commands]
  PROVE  t \in Snapshots /\ t.commands = s.commands /\ t.revision >= s.revision
<1>1. s.revision \in Nat /\ s.commands \in Seq(Commands)
  BY DEF Snapshots
<1>2. s.revision + n \in Nat /\ s.revision + n >= s.revision
  BY <1>1
<1>3. t \in Snapshots
  BY <1>1, <1>2 DEF Snapshots
<1> QED BY <1>2, <1>3

LEMMA FileStep ==
  ASSUME File, [Next]_vars
  PROVE  File'
<1>0. /\ TypeOK /\ Recorded(disk.commands, requests, answered)
      /\ snapshot \in Snapshots /\ disk \in Snapshots /\ snapshot.revision \in Nat
  BY DEF File, Recorded, TypeOK, Snapshots
<1>1. ASSUME NEW r \in Requests, NEW key \in Keys, CommandFails(r, key) PROVE File'
  <2>1. UNCHANGED <<snapshot, disk, requests, answered, runner, drain, drained, crashes>> /\ faults' = faults + 1
    BY <1>1 DEF CommandFails, WriteFails
  <2>2. TypeOK'
    BY <1>0, <2>1 DEF TypeOK
  <2> QED BY <1>0, <2>1, <2>2, MovesFile
<1>2. ASSUME NEW r \in Requests, NEW key \in Keys, CommandRepeated(r, key) PROVE File'
  <2>1. /\ UNCHANGED <<snapshot, disk, requests, runner, drain, drained, crashes, faults>>
        /\ requests[r] = key /\ answered' = answered \cup {<<r, key>>}
    BY <1>2 DEF CommandRepeated
  <2>2. TypeOK'
    BY <1>0, <2>1 DEF TypeOK
  <2>3. key # NoKey
    BY DEF Keys, Actions, NoKey
  <2>4. Has(disk.commands, r, key)
    BY <1>0, <2>1, <2>3 DEF Recorded
  <2>5. Recorded(disk.commands, requests', answered')
    BY <1>0, <2>1, <2>4 DEF Recorded
  <2> QED BY <1>0, <2>1, <2>2, <2>5, MovesFile
<1>3. ASSUME NEW r \in Requests, NEW key \in Keys, CommandAfterCompleted(r, key) PROVE File'
  <2>1. /\ snapshot' = [snapshot EXCEPT !.revision = @ + 1, !.blocked = TRUE]
        /\ UNCHANGED <<disk, requests, answered, runner, drain, drained, crashes, faults>>
    BY <1>3 DEF CommandAfterCompleted
  <2>2. snapshot' \in Snapshots /\ snapshot'.commands = snapshot.commands /\ snapshot'.revision >= snapshot.revision
    <3>1. snapshot' = [revision |-> snapshot.revision + 1, blocked |-> TRUE, eod |-> snapshot.eod,
                       commands |-> snapshot.commands]
      BY <1>0, <2>1, Zenon DEF Snapshots
    <3>2. snapshot.eod \in EODStates
      BY <1>0 DEF Snapshots
    <3>3. PICK e \in EODStates, b \in BOOLEAN :
            snapshot' = [revision |-> snapshot.revision + 1, blocked |-> b, eod |-> e, commands |-> snapshot.commands]
      BY <3>1, <3>2
    <3> QED BY <1>0, <3>3, MovedSnapshot
  <2>3. TypeOK'
    BY <1>0, <2>1, <2>2 DEF TypeOK
  <2> QED BY <1>0, <2>1, <2>2, <2>3, MovesFile
<1>4. ASSUME NEW r \in Requests, runEOD(r) \/ EODFinished(r) PROVE File'
  <2>1. /\ \/ snapshot' = snapshot
           \/ \E eod \in EODStates : snapshot' = [snapshot EXCEPT !.eod = eod, !.revision = @ + 1]
        /\ disk' = snapshot' \/ disk' = disk
        /\ faults' = faults \/ faults' = faults + 1
        /\ \E pc \in {"none", "call"} : runner' = [runner EXCEPT ![r] = pc]
        /\ UNCHANGED <<requests, answered, drain, drained, crashes>>
    BY <1>4 DEF runEOD, EODFinished, Written, WriteFails, EODStates
  <2>2. snapshot' \in Snapshots /\ snapshot'.commands = snapshot.commands /\ snapshot'.revision >= snapshot.revision
    <3>1. CASE snapshot' = snapshot
      BY <1>0, <3>1
    <3>2. ASSUME NEW eod \in EODStates, snapshot' = [snapshot EXCEPT !.eod = eod, !.revision = @ + 1]
          PROVE  snapshot' \in Snapshots /\ snapshot'.commands = snapshot.commands /\ snapshot'.revision >= snapshot.revision
      <4>1. snapshot' = [revision |-> snapshot.revision + 1, blocked |-> snapshot.blocked, eod |-> eod,
                         commands |-> snapshot.commands]
        BY <1>0, <3>2 DEF Snapshots
      <4>2. snapshot.blocked \in BOOLEAN
        BY <1>0 DEF Snapshots
      <4> QED BY <1>0, <4>1, <4>2, MovedSnapshot
    <3> QED BY <2>1, <3>1, <3>2
  <2>3. TypeOK'
    <3>1. runner' \in [Requests -> {"none", "start", "call", "own", "wait"}]
      <4>1. PICK pc \in {"none", "call"} : runner' = [runner EXCEPT ![r] = pc]
        BY <2>1
      <4>2. runner \in [Requests -> {"none", "start", "call", "own", "wait"}]
        BY <1>0 DEF TypeOK
      <4> QED BY <4>1, <4>2
    <3>2. faults' \in Nat
      <4>1. faults \in Nat
        BY <1>0 DEF TypeOK
      <4>2. faults' = faults \/ faults' = faults + 1
        BY <2>1
      <4> QED BY <4>1, <4>2
    <3>3. disk' \in Snapshots
      BY <1>0, <2>1, <2>2
    <3>4. UNCHANGED <<requests, answered, drain, drained, crashes>>
      BY <2>1
    <3> QED BY <1>0, <2>2, <3>1, <3>2, <3>3, <3>4 DEF TypeOK
  <2> QED BY <1>0, <2>1, <2>2, <2>3, MovesFile
<1>5. ASSUME NEW r \in Requests, ShutdownOnce(r) PROVE File'
  <2>1. /\ \E pc \in {"own", "wait"} : runner' = [runner EXCEPT ![r] = pc]
        /\ drain' = drain \/ drain' = [state |-> "busy", owner |-> r]
        /\ UNCHANGED <<snapshot, disk, requests, answered, drained, crashes, faults>>
    BY <1>5 DEF ShutdownOnce
  <2>2. TypeOK'
    BY <1>0, <2>1 DEF TypeOK
  <2> QED BY <1>0, <2>1, <2>2, MovesFile
<1>6. CASE AppShutdown \/ (\E ok \in BOOLEAN : DrainEnds(ok)) \/ UNCHANGED vars
  <2>1. /\ \/ drain' = drain
           \/ drain' = [state |-> "busy", owner |-> "app"]
           \/ \E s \in {"ok", "failed"} : drain' = [drain EXCEPT !.state = s]
        /\ drained' = drained \/ drained' = TRUE
        /\ UNCHANGED <<snapshot, disk, requests, answered, runner, crashes, faults>>
    BY <1>0, <1>6 DEF AppShutdown, DrainEnds, vars, TypeOK
  <2>2. drain' \in [state : {"idle", "busy", "ok", "failed"}, owner : Requests \cup {"none", "app"}]
    BY <1>0, <2>1 DEF TypeOK
  <2>3. drained' \in BOOLEAN
    BY <1>0, <2>1 DEF TypeOK
  <2>4. TypeOK'
    BY <1>0, <2>1, <2>2, <2>3 DEF TypeOK
  <2> QED BY <1>0, <2>1, <2>4, MovesFile
<1> QED
  BY <1>1, <1>2, <1>3, <1>4, <1>5, <1>6, CommandKeepsFile, RestartKeepsFile DEF Next, RunnerStep

\* What a restart finds (command, runEOD, persist, load): memory and file are well formed, the
\* file passes load's validation, and it holds every answered command unless it is full.
THEOREM FileIsSound == Spec => []ControllerInv
<1>1. File => ControllerInv
  <2> SUFFICES ASSUME File PROVE ControllerInv
    OBVIOUS
  <2>2. disk.commands \in Seq(Commands)
    BY DEF File, TypeOK, Snapshots
  <2>3. DOMAIN disk.commands = 1..Len(disk.commands)
    BY <2>2, LenProperties
  <2>4. FileLoads
    BY <2>3 DEF File, Ascends, FileLoads, finalize
  <2>5. AnsweredIsDurable
    BY <2>3 DEF File, Has, AnsweredIsDurable
  <2> QED BY <2>4, <2>5 DEF ControllerInv, File
<1> QED BY <1>1, FileInit, FileStep, PTL DEF Spec
=============================================================================
