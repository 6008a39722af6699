------------------------ MODULE SessionAuthorization ------------------------
(***************************************************************************)
(* What a PAPER or SHADOW session may start from: the runtime bundle       *)
(* (internal/config), the authorization manifest, the Day-0 and Day-1      *)
(* gates, the readiness report (internal/marketvalidation) and the start   *)
(* of the runtime that checks them (internal/app).                         *)
(*                                                                         *)
(* Every tool is a process that reads the files one after the other; the   *)
(* inputs may be edited between two reads.  A checksum is the version it   *)
(* pins, a file the tools write is create-once.                            *)
(***************************************************************************)
EXTENDS Integers, Sequences, FiniteSets, SequencesExt

CONSTANTS Inputs,       \* the files a bundle pins; "calendar" and "settings"
          Modes,        \* PAPER, SHADOW
          MaxTime,      \* two slots a day: within the authorization window, after it
          MaxEdits, MaxBundles, MaxManifests, MaxSessions,  \* bounds
          Nothing

VARIABLES time,
          files,      \* the version of every input now
          bundles,    \* the runtime bundles written
          evidence,   \* the Telegram and preflight evidence written
          manifests,  \* the authorization manifests written
          gates,      \* the Day-0 gate reports
          day1,       \* the Day-1 gate reports that passed
          runtime,    \* the starting or running process
          sessions,   \* the sessions that ran: their manifest and whether they were clean
          readiness,  \* the readiness tool: its step and manifest
          reports,    \* the manifests a passing readiness report names
          edits

vars == <<time, files, bundles, evidence, manifests, gates, day1, runtime, sessions,
          readiness, reports, edits>>

DayOf(t) == t \div 2
Day == DayOf(time)
Open == time % 2 = 0

Down == [step |-> "down", mode |-> Nothing, bundle |-> Nothing, manifest |-> Nothing,
         uses |-> Nothing]

Bundle(mode, pins) == [mode |-> mode, pins |-> pins]

(* FinalizeBundle *)
WriteBundle ==
    \E mode \in Modes :
        /\ Cardinality(bundles) < MaxBundles
        /\ bundles' = bundles \cup {Bundle(mode, files)}
        /\ UNCHANGED <<time, files, evidence, manifests, gates, day1, runtime, sessions,
                       readiness, reports, edits>>

(* The Telegram check and the preflight, each for the day, the mode and (the preflight) *)
(* the bundle it was given.                                                             *)
Telegram(mode, day) == [kind |-> "telegram", mode |-> mode, day |-> day, bundle |-> Nothing]
Preflight(b, day) == [kind |-> "preflight", mode |-> b.mode, day |-> day, bundle |-> b]

Collect ==
    \E b \in bundles :
        /\ evidence' = evidence \cup {Telegram(b.mode, Day), Preflight(b, Day)}
        /\ UNCHANGED <<time, files, bundles, manifests, gates, day1, runtime, sessions,
                       readiness, reports, edits>>

(***************************************************************************)
(* FinalizeAuthorization and LoadAuthorization: the manifest's shape, then *)
(* every file it names against its checksum.                               *)
(***************************************************************************)
Scopes(mode) == IF mode = "SHADOW" THEN {"QUALIFICATION_ONLY"} ELSE {"OPERATIONS_ONLY", "FULL_PIPELINE"}

ShapeOK(m) ==
    /\ m.scope \in Scopes(m.bundle.mode)
    /\ (m.scope = "FULL_PIPELINE") <=> (m.gate # Nothing)

EvidenceOK(m) ==
    {Telegram(m.bundle.mode, m.day), Preflight(m.bundle, m.day)} \subseteq evidence

GateOK(m) == m.gate # Nothing => m.gate \in gates /\ m.gate.passed

(* LoadRuntimeBundle: every pinned file as it is now. *)
BundleLoads(b) == b \in bundles /\ files = b.pins

FilesOK(m) == BundleLoads(m.bundle) /\ EvidenceOK(m) /\ GateOK(m)

Loads(m) == ShapeOK(m) /\ FilesOK(m)

Authorize ==
    \E b \in bundles, gate \in gates \cup {Nothing} :
      \E scope \in Scopes(b.mode) :
        LET m == [bundle |-> b, scope |-> scope, day |-> Day, gate |-> gate] IN
        /\ Open /\ Loads(m) /\ Cardinality(manifests) < MaxManifests
        /\ manifests' = manifests \cup {m}
        /\ UNCHANGED <<time, files, bundles, evidence, gates, day1, runtime, sessions,
                       readiness, reports, edits>>

(***************************************************************************)
(* The start of the runtime: the bundle, the manifest, their agreement     *)
(* with each other, the mode and the clock, and the calendar once more.    *)
(***************************************************************************)
Start ==
    \E b \in bundles, m \in manifests, mode \in Modes :
        /\ runtime.step = "down" /\ Cardinality(sessions) < MaxSessions
        /\ runtime' = [step |-> "bundle", mode |-> mode, bundle |-> b, manifest |-> m,
                       uses |-> Nothing]
        /\ UNCHANGED <<time, files, bundles, evidence, manifests, gates, day1, sessions,
                       readiness, reports, edits>>

Proceed(ok, next) == runtime' = IF ok THEN [runtime EXCEPT !.step = next] ELSE Down

StartBundle ==
    /\ runtime.step = "bundle"
    /\ runtime' = IF BundleLoads(runtime.bundle)
                  THEN [runtime EXCEPT !.step = "authorization", !.uses = files] ELSE Down
    /\ UNCHANGED <<time, files, bundles, evidence, manifests, gates, day1, sessions,
                   readiness, reports, edits>>

StartAuthorization ==
    /\ runtime.step = "authorization"
    /\ Proceed(Loads(runtime.manifest), "window")
    /\ UNCHANGED <<time, files, bundles, evidence, manifests, gates, day1, sessions,
                   readiness, reports, edits>>

(* Mutant of Matches: the manifest may have been written for another bundle. *)
MatchesAnyBundle(r) ==
    /\ r.manifest.bundle.mode = r.mode
    /\ r.manifest.scope \in {"OPERATIONS_ONLY", "QUALIFICATION_ONLY"}
    /\ r.manifest.day = Day /\ Open

(* validateRuntimeAuthorization *)
Matches(r) ==
    /\ r.manifest.bundle.mode = r.mode
    /\ r.manifest.scope \in {"OPERATIONS_ONLY", "QUALIFICATION_ONLY"}
    /\ r.manifest.bundle = r.bundle
    /\ r.manifest.day = Day /\ Open

StartWindow ==
    /\ runtime.step = "window"
    /\ Proceed(Matches(runtime), "calendar")
    /\ UNCHANGED <<time, files, bundles, evidence, manifests, gates, day1, sessions,
                   readiness, reports, edits>>

(* The calendar is decoded from the file again; the rest of the composition may fail. *)
StartCalendar ==
    /\ runtime.step = "calendar"
    /\ \/ runtime' = [runtime EXCEPT !.step = "running", !.uses.calendar = files.calendar]
       \/ runtime' = Down
    /\ UNCHANGED <<time, files, bundles, evidence, manifests, gates, day1, sessions,
                   readiness, reports, edits>>

(* Shutdown: what the session leaves for the Day-0 evidence. *)
Stop ==
    \E clean \in BOOLEAN :
        /\ runtime.step = "running"
        /\ runtime' = Down
        /\ sessions' = sessions \cup {[manifest |-> runtime.manifest, clean |-> clean]}
        /\ UNCHANGED <<time, files, bundles, evidence, manifests, gates, day1,
                       readiness, reports, edits>>

(***************************************************************************)
(* The gates.  Day 0 loads its authorization again; Day 1 pins the gate it *)
(* was written for.                                                        *)
(***************************************************************************)
Day0Passes(s) == s.clean /\ s.manifest.scope = "OPERATIONS_ONLY"

Day0Gate ==
    \E s \in sessions :
        /\ Loads(s.manifest)
        /\ gates' = gates \cup {[of |-> s.manifest, passed |-> Day0Passes(s)]}
        /\ UNCHANGED <<time, files, bundles, evidence, manifests, day1, runtime, sessions,
                       readiness, reports, edits>>

Day1Passes(gate, m) ==
    /\ gate.passed /\ m.gate = gate
    /\ m.scope = "FULL_PIPELINE"

Day1Gate ==
    \E gate \in gates, m \in manifests :
        /\ Loads(m) /\ Day1Passes(gate, m)
        /\ day1' = day1 \cup {m}
        /\ UNCHANGED <<time, files, bundles, evidence, manifests, gates, runtime, sessions,
                       readiness, reports, edits>>

(***************************************************************************)
(* RunReadiness: the files and the manifest, its window at the time the    *)
(* report was begun, and then the runtime's own answers, one request after *)
(* the other.  A check that fails leaves the report not ready.             *)
(***************************************************************************)
NoReadiness == [step |-> "idle", manifest |-> Nothing]

ReadinessBegins ==
    \E m \in manifests :
        /\ readiness.step = "idle"
        /\ m.scope # "QUALIFICATION_ONLY"
        /\ Loads(m) /\ m.day = Day /\ Open
        /\ readiness' = [step |-> "runtime", manifest |-> m]
        /\ UNCHANGED <<time, files, bundles, evidence, manifests, gates, day1, runtime, sessions,
                       reports, edits>>

ReadinessRuntime ==
    /\ readiness.step = "runtime"
    /\ readiness' = IF /\ runtime.step = "running"
                       /\ runtime.mode = readiness.manifest.bundle.mode
                    THEN [readiness EXCEPT !.step = "zerodha"] ELSE NoReadiness
    /\ UNCHANGED <<time, files, bundles, evidence, manifests, gates, day1, runtime, sessions,
                   reports, edits>>

(* The runtime's answer names the authorization it runs under; the manifest is loaded   *)
(* once more for the comparison.                                                        *)
SameAuthorization(m) ==
    runtime.step = "running" /\ runtime.manifest = m /\ Loads(m)

ReadinessZerodha ==
    /\ readiness.step = "zerodha"
    /\ readiness' = NoReadiness
    /\ reports' = IF SameAuthorization(readiness.manifest)
                  THEN reports \cup {readiness.manifest} ELSE reports
    /\ UNCHANGED <<time, files, bundles, evidence, manifests, gates, day1, runtime, sessions, edits>>

(* The clock, and whoever edits an input. *)
Tick ==
    /\ time < MaxTime /\ time' = time + 1
    /\ UNCHANGED <<files, bundles, evidence, manifests, gates, day1, runtime, sessions,
                   readiness, reports, edits>>

Edit ==
    \E i \in Inputs :
        /\ edits < MaxEdits /\ edits' = edits + 1
        /\ files' = [files EXCEPT ![i] = 1 - @]
        /\ UNCHANGED <<time, bundles, evidence, manifests, gates, day1, runtime, sessions,
                       readiness, reports>>

Init ==
    /\ time = 0
    /\ files = [i \in Inputs |-> 0]
    /\ bundles = {} /\ evidence = {} /\ manifests = {} /\ gates = {} /\ day1 = {}
    /\ runtime = Down /\ sessions = {}
    /\ readiness = NoReadiness /\ reports = {}
    /\ edits = 0

Next ==
    \/ WriteBundle \/ Collect \/ Authorize
    \/ Start \/ StartBundle \/ StartAuthorization \/ StartWindow \/ StartCalendar \/ Stop
    \/ Day0Gate \/ Day1Gate
    \/ ReadinessBegins \/ ReadinessRuntime \/ ReadinessZerodha
    \/ Tick \/ Edit

Spec == Init /\ [][Next]_vars

(***************************************************************************)
(* Properties.                                                             *)
(***************************************************************************)
TypeOK ==
    /\ time \in 0..MaxTime /\ edits \in 0..MaxEdits
    /\ runtime.step \in {"down", "bundle", "authorization", "window", "calendar", "running"}
    /\ readiness.step \in {"idle", "runtime", "zerodha"}

(* A running process uses the settings its manifest pins, whatever was edited while it *)
(* started, in the mode and the scope that mode allows; a FULL_PIPELINE manifest never *)
(* runs.  (The calendar is read once more after the checks and is not covered.)        *)
RunningIsAuthorized ==
    runtime.step = "running" =>
        /\ runtime.manifest \in manifests /\ runtime.bundle.mode = runtime.mode
        /\ runtime.uses.settings = runtime.manifest.bundle.pins.settings
        /\ runtime.manifest.scope = IF runtime.mode = "PAPER" THEN "OPERATIONS_ONLY"
                                                              ELSE "QUALIFICATION_ONLY"

(* A FULL_PIPELINE authorization exists only after a clean PAPER session under an      *)
(* OPERATIONS_ONLY one, and Day 1 passes for such a manifest only.                     *)
Day0First ==
    /\ \A m \in manifests : m.scope = "FULL_PIPELINE" =>
         \E s \in sessions :
            /\ s.clean /\ s.manifest = m.gate.of
            /\ s.manifest.scope = "OPERATIONS_ONLY" /\ s.manifest.day <= m.day
    /\ \A m \in day1 : m \in manifests /\ m.gate # Nothing

(* A passing readiness report names an authorization a PAPER runtime ran under, on the *)
(* day of the manifest.                                                                *)
ReadyRan ==
    \A m \in reports :
        /\ m.scope = "OPERATIONS_ONLY"
        /\ m \in {s.manifest : s \in sessions} \cup {runtime.manifest}

(* Bundles, manifests, gates, start and readiness as a whole. *)
AuthorizationInv == TypeOK /\ RunningIsAuthorized /\ Day0First /\ ReadyRan

(* What the stricter reading would want: the calendar in use is the authorised one. *)
CalendarIsAuthorized ==
    runtime.step = "running" => runtime.uses = runtime.manifest.bundle.pins

-----------------------------------------------------------------------------
(***************************************************************************)
(* The daily records of the market-validation programme and the scorecard  *)
(* over them (internal/marketvalidation/record.go and scorecard.go, with   *)
(* the commands finalize-day and scorecard).  They share no state with the *)
(* authorization: a run moves one or the other.                            *)
(*                                                                         *)
(* A record's evidence is reduced to what classify tells apart: whether a  *)
(* reason for INVALID or only an incident was recorded, the proposals, the *)
(* executions and the currency of a complete P&L.  A checksum is the       *)
(* content it covers.  Files are create-once for the commands; whoever     *)
(* edits one by hand is the action EditRecord.                             *)
(***************************************************************************)
CONSTANTS Dates,                 \* trading dates (naturals)
          Facts,                 \* what a session may record: defect, incident, proposals,
                                 \* executions, pnl
          Editable,              \* the fields of a stored record that may be edited
          MaxCorrections,        \* bound
          MinimumValid, MinimumPerMode, Consecutive, Target, MaximumRecords, ExecutionSample  \* thresholds

VARIABLES records,    \* the *.day.json files: by date and mode
          drafts,     \* what the sessions really recorded
          scorecard,  \* the last scorecard written, or Nothing
          corrections

scorecardVars == <<records, drafts, scorecard, corrections>>

Keys == Dates \X Modes

(***************************************************************************)
(* Finalize: the status follows from the evidence alone, the checksum      *)
(* covers both.                                                            *)
(***************************************************************************)
Classify(facts) ==
    IF facts.defect THEN "INVALID" ELSE IF facts.incident THEN "VALID_WITH_INCIDENTS" ELSE "VALID"

Finalized(facts) ==
    [facts |-> facts, status |-> Classify(facts),
     checksum |-> [facts |-> facts, status |-> Classify(facts)]]

(* Verify: the status is stripped and derived again before the checksum is compared. *)
Verify(record) == Finalized(record.facts).checksum = record.checksum

FinalizeDay ==
    \E k \in Keys, facts \in Facts :
        /\ records[k] = Nothing
        /\ records' = [records EXCEPT ![k] = Finalized(facts)]
        /\ drafts' = [drafts EXCEPT ![k] = facts]
        /\ UNCHANGED <<scorecard, corrections>>

EditRecord ==
    \E k \in Keys :
        /\ corrections < MaxCorrections /\ records[k] # Nothing
        /\ corrections' = corrections + 1
        /\ \/ /\ "facts" \in Editable
              /\ \E facts \in Facts : records' = [records EXCEPT ![k].facts = facts]
           \/ /\ "status" \in Editable
              /\ \E status \in {"VALID", "VALID_WITH_INCIDENTS", "INVALID"} :
                    records' = [records EXCEPT ![k].status = status]
        /\ UNCHANGED <<drafts, scorecard>>

(***************************************************************************)
(* BuildScorecard, over the records sorted by date, then mode.             *)
(***************************************************************************)
Finished == {k \in Keys : records[k] # Nothing}

Before(j, k) == j[1] < k[1] \/ (j[1] = k[1] /\ j[2] = "PAPER" /\ k[2] = "SHADOW")

Sorted == SetToSortSeq(Finished, Before)

WithStatus(status) == {k \in Finished : records[k].status = status}

OneCurrency ==
    Cardinality({records[k].facts.pnl : k \in Finished} \ {"none"}) <= 1

Accepted ==
    /\ Cardinality(Finished) \in 1..MaximumRecords
    /\ \A k \in Finished : Verify(records[k])
    /\ OneCurrency

ValidIn(mode) == Cardinality({k \in WithStatus("VALID") : k[2] = mode})

LastFiveConsecutiveValid ==
    /\ Len(Sorted) >= Consecutive
    /\ \A i \in (Len(Sorted) - Consecutive + 1)..Len(Sorted) : Sorted[i] \in WithStatus("VALID")

MinimumProgramComplete ==
    /\ Cardinality(WithStatus("VALID")) >= MinimumValid
    /\ \A mode \in Modes : ValidIn(mode) >= MinimumPerMode
    /\ LastFiveConsecutiveValid

TargetProgramComplete ==
    /\ Cardinality(Finished) >= Target
    /\ Cardinality(WithStatus("VALID")) * 10 >= Cardinality(Finished) * 9
    /\ MinimumProgramComplete

SimulatedExecutions == MapThenSumSet(LAMBDA k : records[k].facts.executions, Finished)

Proposals == MapThenSumSet(LAMBDA k : records[k].facts.proposals, Finished)

DecisionGate ==
    IF ~MinimumProgramComplete THEN "INSUFFICIENT_VALID_SESSIONS"
    ELSE IF WithStatus("INVALID") # {} THEN "OPERATIONAL_HARDENING_REVIEW"
    ELSE IF SimulatedExecutions < ExecutionSample THEN "EXECUTION_SAMPLE_INSUFFICIENT"
    ELSE IF Proposals = 0 THEN "STRATEGY_EVIDENCE_UNAVAILABLE"
    ELSE "SEPARATE_POST_VALIDATION_REVIEW_REQUIRED"

BuildScorecard ==
    /\ Accepted
    /\ scorecard' = [valid |-> WithStatus("VALID"),
                     invalid |-> WithStatus("INVALID"),
                     sessions |-> Finished, target |-> TargetProgramComplete,
                     gate |-> DecisionGate]
    /\ UNCHANGED <<records, drafts, corrections>>

ScorecardInit ==
    /\ records = [k \in Keys |-> Nothing]
    /\ drafts = [k \in Keys |-> Nothing]
    /\ scorecard = Nothing /\ corrections = 0

ScorecardNext == FinalizeDay \/ EditRecord \/ BuildScorecard

(***************************************************************************)
(* Properties.                                                             *)
(***************************************************************************)
ScorecardTypeOK ==
    /\ corrections \in 0..MaxCorrections
    /\ scorecard # Nothing => scorecard.valid \cup scorecard.invalid \subseteq scorecard.sessions

(* A scorecard counts a session as valid only if what that session recorded makes it   *)
(* valid (record.go: callers cannot assert VALID directly).                            *)
ScorecardCountsDerivedStatus ==
    scorecard # Nothing =>
        /\ \A k \in scorecard.valid : Classify(drafts[k]) = "VALID"
        /\ \A k \in scorecard.invalid : drafts[k].defect

(* The programme is complete only if enough sessions of each mode really passed and    *)
(* none of the last ones did not; the gate opens only without an invalid session.      *)
GateIsEarned ==
    scorecard # Nothing /\ scorecard.gate # "INSUFFICIENT_VALID_SESSIONS" =>
        /\ \A mode \in Modes :
             Cardinality({k \in scorecard.sessions : k[2] = mode /\ ~drafts[k].defect
                                                       /\ ~drafts[k].incident}) >= MinimumPerMode
        /\ \A k \in scorecard.sessions :
             (drafts[k].defect \/ drafts[k].incident) =>
                 Cardinality({j \in scorecard.sessions : Before(k, j)}) >= Consecutive
        /\ scorecard.gate = "SEPARATE_POST_VALIDATION_REVIEW_REQUIRED" =>
             /\ \A k \in scorecard.sessions : ~drafts[k].defect
             /\ \E k \in scorecard.sessions : drafts[k].proposals > 0

(* The scorecard as a whole. *)
ScorecardInv == ScorecardTypeOK /\ ScorecardCountsDerivedStatus /\ GateIsEarned
=============================================================================
