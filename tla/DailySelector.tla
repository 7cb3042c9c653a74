--------------------------- MODULE DailySelector ---------------------------
(***************************************************************************)
(* The daily selector, SelectDailyStrategyUseCase: a decision takes effect *)
(* at once, and whatever cannot be evaluated ends in cash.  It builds the  *)
(* same records as the four-hour selector (module RegimeSelector) and is   *)
(* run by the same scheduler.                                              *)
(*                                                                         *)
(* A reading is what the model makes of three days of candles: an          *)
(* assignment, or a failure of the history check, of the feature           *)
(* extraction or of the model.                                             *)
(***************************************************************************)
EXTENDS RegimeSelector

CONSTANTS
    Compatible,     \* the artifacts that pass _compatibility_reason
    Failures,       \* what raises while the candles are evaluated
    MaxDistance     \* distance_threshold of the model gates

ASSUME CompatibleAssumption == Compatible \subseteq Artifacts
ASSUME FailuresAssumption == Failures \intersect Assignments = {} /\ None \notin Failures
ASSUME MaxDistanceAssumption == MaxDistance \in Nat

DailyCommands == [boundary : Boundaries, artifact : Artifacts, reading : Assignments \union Failures]

(* The assignment execute goes on with; a missing distance is refused. *)
Assigned(command) ==
    IF \/ command.artifact \notin Compatible
       \/ command.reading \in Failures
       \/ command.reading.distance = None
    THEN None ELSE command.reading

(* The component is reported, confident or not, when the mapping knows it. *)
Component(command) ==
    LET a == Assigned(command) IN
    IF a # None /\ a.fingerprint \in DOMAIN Snapshots[command.artifact].mapping
    THEN a.fingerprint ELSE None

IsConfident(command) ==
    LET a == Assigned(command)
        s == Snapshots[command.artifact]
    IN  /\ Component(command) # None
        /\ a.dominant >= s.probability_min
        /\ a.dominant - a.second >= s.margin_min
        /\ a.distance =< MaxDistance

(* candidate_id: None for cash and for everything that fails closed. *)
Candidate(previous, command) ==
    IF IsConfident(command) THEN Snapshots[command.artifact].mapping[Component(command)]
    ELSE None

Status(command) ==
    IF ~IsConfident(command) THEN "fail_closed"
    ELSE IF Snapshots[command.artifact].mapping[Component(command)] = None THEN "cash"
    ELSE "selected"

DailyState(previous, command) ==
    [MakeState(previous, command, command.artifact, Component(command),
               Candidate(previous, command), Status(command) = "selected")
        EXCEPT !.low_count = IF Status(command) = "fail_closed" THEN 1 ELSE 0]

(* _events *)
DailyEvents(previous, state) ==
    IF previous = None THEN <<"CLASSIFICATION">>
    ELSE OrClassification(
        (IF previous.artifact # state.artifact THEN <<"ARTIFACT_REPLACED">> ELSE <<>>)
        \o (IF previous.cluster # state.cluster THEN <<"CLUSTER_TRANSITION">> ELSE <<>>)
        \o StrategyEvents(previous.active, state.active))

(* DailySelectionAudit *)
Audit(previous, command) ==
    [status |-> Status(command),
     component |-> IF Assigned(command) = None THEN None ELSE Assigned(command).fingerprint,
     candidate |-> Candidate(previous, command),
     previous_component |-> IF previous = None THEN None ELSE previous.cluster,
     previous_candidate |-> IF previous = None THEN None ELSE previous.active]

DailyExecute(previous, command) ==
    LET state == DailyState(previous, command) IN
    [expected |-> Version(previous), state |-> state, events |-> DailyEvents(previous, state),
     command |-> command, audit |-> Audit(previous, command)]

(* What the command or execute raises, or None. *)
DailyError(previous, command) ==
    IF previous # None /\ command.boundary =< previous.last_boundary THEN "boundary"
    ELSE LET result == DailyExecute(previous, command)
         IN  IF StateValid(result.state) /\ ResultValid(result) THEN None ELSE "invalid"
=============================================================================
