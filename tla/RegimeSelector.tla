--------------------------- MODULE RegimeSelector ---------------------------
(***************************************************************************)
(* The four-hour strategy selector: the pure state machine of              *)
(* SelectStrategyUseCase and the validators of the domain records it       *)
(* builds (domain/regime/selection.py).  Nothing here has state: each      *)
(* operator is one function of the code, applied to a previous state       *)
(* (or None) and a command.                                                *)
(*                                                                         *)
(* Data are abstracted as follows.  A four-hour UTC boundary is its index. *)
(* Probabilities and distances are integers on a common scale (per cent).  *)
(* An artifact identity is the hash of the bundle content, so an identity  *)
(* determines its snapshot: Snapshots is a function of the identity.  A    *)
(* selection input hash covers the boundary, the identity and the          *)
(* assignment, so it is the command itself; the canonical JSON of a result *)
(* is the result.  There is one symbol: every table row and every check is *)
(* keyed by it.                                                            *)
(***************************************************************************)
EXTENDS Integers, Sequences

CONSTANTS
    None,          \* Python's None
    Boundaries,    \* the boundaries a scheduler may ask for
    Artifacts,     \* artifact identities
    Clusters,      \* cluster fingerprints
    Strategies,    \* strategy profile ids
    Snapshots,     \* the bundle behind each identity
    Assignments    \* the classifications the model may return

Optional(S) == S \union {None}

(* SelectionArtifactSnapshot with its SelectionConfidenceThresholds. *)
SnapshotOK(s) ==
    /\ s.model_type \in {"gmm", "kmeans"}
    /\ DOMAIN s.mapping \in (SUBSET Clusters) \ {{}}
    /\ \A c \in DOMAIN s.mapping : s.mapping[c] \in Optional(Strategies)
    /\ s.model_type = "gmm" =>
        s.probability_min \in 0..100 /\ s.margin_min \in 0..100
    /\ s.model_type = "kmeans" =>
        /\ DOMAIN s.max_distance = DOMAIN s.mapping
        /\ \A c \in DOMAIN s.mapping : s.max_distance[c] \in Nat

(* ClusterAssignment.__post_init__. *)
AssignmentOK(a) ==
    /\ a.fingerprint \in Clusters
    /\ a.dominant \in 0..100 /\ a.second \in 0..100
    /\ a.second =< a.dominant
    /\ a.dominant + a.second =< 100
    /\ a.distance \in Optional(Nat)

Commands == [boundary : Boundaries, artifact : Artifacts, assignment : Assignments]

SelectionEventTypes ==
    {"CLASSIFICATION", "ENTRY_SUSPENDED", "ARTIFACT_REPLACED",
     "CLUSTER_TRANSITION", "STRATEGY_TRANSITION", "CASH_TRANSITION"}

(* The fields of RegimeSelectionState. *)
States ==
    [artifact : Artifacts,
     cluster : Optional(Clusters),
     active : Optional(Strategies),
     pending_cluster : Optional(Clusters),
     pending_count : Nat,
     pending_artifact : Optional(Artifacts),
     low_count : Nat,
     entries : BOOLEAN,
     last_boundary : Boundaries,
     version : Nat \ {0}]

Results ==
    [expected : Nat, state : States, events : Seq(SelectionEventTypes),
     command : Commands]

ASSUME NoneAssumption ==
    /\ None \notin Clusters /\ None \notin Strategies /\ None \notin Artifacts
    /\ None \notin Nat
    /\ None \notin States /\ None \notin Results
ASSUME BoundaryAssumption == Boundaries \subseteq Nat
ASSUME SnapshotAssumption == \A a \in Artifacts : SnapshotOK(Snapshots[a])
ASSUME AssignmentAssumption == \A a \in Assignments : AssignmentOK(a)

Version(s) == IF s = None THEN 0 ELSE s.version

-----------------------------------------------------------------------------
(* Validators *)

(* RegimeSelectionState.__post_init__: the cross-field rules. *)
StateValid(s) ==
    LET has_pending == s.pending_count > 0 IN
    /\ has_pending <=> s.pending_cluster # None
    /\ s.pending_count =< 1
    /\ s.pending_artifact # None =>
        /\ s.pending_artifact # s.artifact
        /\ has_pending
        /\ ~s.entries
    /\ s.low_count > 0 => ~has_pending /\ ~s.entries
    /\ s.low_count =< 2
    /\ s.low_count = 2 => s.active = None
    /\ s.cluster = None => s.active = None /\ ~s.entries
    /\ s.active = None => ~s.entries

(* SelectStrategyResult.__post_init__: the version step and the event rules. *)
MaterialOrder ==
    <<"ARTIFACT_REPLACED", "CLUSTER_TRANSITION", "STRATEGY_TRANSITION", "CASH_TRANSITION">>

Position(e) == CHOOSE i \in DOMAIN MaterialOrder : MaterialOrder[i] = e

EventsValid(events) ==
    /\ events # <<>>
    /\ \A i, j \in DOMAIN events : i # j => events[i] # events[j]
    /\ \A i \in DOMAIN events :
        events[i] \in {"CLASSIFICATION", "ENTRY_SUSPENDED"} => Len(events) = 1
    /\ (\A i \in DOMAIN events : \E k \in DOMAIN MaterialOrder : MaterialOrder[k] = events[i]) =>
        /\ \A i, j \in DOMAIN events : i < j => Position(events[i]) =< Position(events[j])
        /\ ~ \E i, j \in DOMAIN events :
            events[i] = "STRATEGY_TRANSITION" /\ events[j] = "CASH_TRANSITION"

ResultValid(r) ==
    /\ r.state.version = r.expected + 1
    /\ EventsValid(r.events)

(* SelectStrategyCommand.__post_init__. *)
CommandValid(previous, command) ==
    LET mapping == Snapshots[command.artifact].mapping IN
    /\ previous # None => command.boundary >= previous.last_boundary
    /\ command.assignment.fingerprint \in DOMAIN mapping
    /\ (previous # None /\ command.artifact = previous.artifact /\ previous.cluster # None)
        => previous.cluster \in DOMAIN mapping

-----------------------------------------------------------------------------
(* Transitions *)

(* The two checks of _is_high_confidence that raise. *)
AssignmentFits(command) ==
    Snapshots[command.artifact].model_type = "gmm" <=> command.assignment.distance = None

IsHighConfidence(command) ==
    LET s == Snapshots[command.artifact]
        a == command.assignment
    IN  IF s.model_type = "gmm"
        THEN /\ a.dominant >= s.probability_min
             /\ a.dominant - a.second >= s.margin_min
        ELSE a.distance =< s.max_distance[a.fingerprint]

Mapped(command) == Snapshots[command.artifact].mapping[command.assignment.fingerprint]

(* _make_state with its defaults: no pending candidate, no low count. *)
MakeState(previous, command, artifact, cluster, active, entries) ==
    [artifact |-> artifact,
     cluster |-> cluster,
     active |-> active,
     pending_cluster |-> None,
     pending_count |-> 0,
     pending_artifact |-> None,
     low_count |-> 0,
     entries |-> entries,
     last_boundary |-> command.boundary,
     version |-> Version(previous) + 1]

(* _make_state as the two branches call it that record a candidate. *)
MakePending(previous, command, artifact, entries) ==
    [MakeState(previous, command, previous.artifact, previous.cluster, previous.active, entries)
        EXCEPT !.pending_cluster = command.assignment.fingerprint,
               !.pending_count = 1,
               !.pending_artifact = artifact]

(* _make_state as every confirmed selection calls it. *)
MakeSelected(previous, command) ==
    MakeState(previous, command, command.artifact, command.assignment.fingerprint,
              Mapped(command), Mapped(command) # None)

StrategyEvents(old, new) ==
    IF old = new THEN <<>>
    ELSE IF new = None THEN <<"CASH_TRANSITION">> ELSE <<"STRATEGY_TRANSITION">>

OrClassification(events) == IF events = <<>> THEN <<"CLASSIFICATION">> ELSE events

SuspendEvents(previous) ==
    IF previous.entries THEN <<"ENTRY_SUSPENDED">> ELSE <<"CLASSIFICATION">>

Decision(state, events) == [state |-> state, events |-> events]

InitialTransition(command) ==
    IF IsHighConfidence(command)
    THEN Decision(MakeSelected(None, command), <<"CLASSIFICATION">>)
    ELSE Decision([MakeState(None, command, command.artifact, None, None, FALSE)
                    EXCEPT !.low_count = 1],
              <<"CLASSIFICATION">>)

(* Variant: any pending candidate confirms the next different cluster. *)
ConfidentAnyPending(previous, command) ==
    LET strategy_events == StrategyEvents(previous.active, Mapped(command))
    IN  IF command.assignment.fingerprint = previous.cluster
        THEN Decision(MakeSelected(previous, command), OrClassification(strategy_events))
        ELSE IF previous.pending_artifact = None /\ previous.pending_count = 1
        THEN Decision(MakeSelected(previous, command),
                      <<"CLUSTER_TRANSITION">> \o strategy_events)
        ELSE Decision(MakePending(previous, command, None, previous.entries),
                      <<"CLASSIFICATION">>)

(* previous.artifact = command.artifact on this branch. *)
ConfidentTransition(previous, command) ==
    LET fingerprint == command.assignment.fingerprint
        confirms == /\ previous.pending_artifact = None
                    /\ previous.pending_cluster = fingerprint
                    /\ previous.pending_count = 1
        strategy_events == StrategyEvents(previous.active, Mapped(command))
    IN  IF fingerprint = previous.cluster
        THEN Decision(MakeSelected(previous, command), OrClassification(strategy_events))
        ELSE IF confirms
        THEN Decision(MakeSelected(previous, command),
                  <<"CLUSTER_TRANSITION">> \o strategy_events)
        ELSE Decision(MakePending(previous, command, None, previous.entries),
                  <<"CLASSIFICATION">>)

(* Variants: a cash marker instead of None; the first low observation is      *)
(* tolerated; the count is not capped.                                        *)
LowConfidenceCashMarker(previous, command) ==
    Decision([MakeState(previous, command, previous.artifact, previous.cluster, "cash", FALSE)
                    EXCEPT !.low_count = 1],
             SuspendEvents(previous))

LowConfidenceTolerated(previous, command) ==
    Decision(MakeState(previous, command, previous.artifact, previous.cluster,
                       previous.active, previous.entries),
             <<"CLASSIFICATION">>)

LowConfidenceUncapped(previous, command) ==
    Decision([MakeState(previous, command, previous.artifact, previous.cluster, None, FALSE)
                    EXCEPT !.low_count = previous.low_count + 1],
             <<"CASH_TRANSITION">>)

LowConfidenceTransition(previous, command) ==
    LET low_count == IF previous.low_count + 1 < 2 THEN previous.low_count + 1 ELSE 2
        cash == low_count >= 2
        active == IF cash THEN None ELSE previous.active
    IN  Decision([MakeState(previous, command, previous.artifact, previous.cluster, active, FALSE)
                    EXCEPT !.low_count = low_count],
             IF ~cash THEN SuspendEvents(previous)
             ELSE IF previous.active # None THEN <<"CASH_TRANSITION">>
             ELSE <<"CLASSIFICATION">>)

ReplacementTransition(previous, command) ==
    LET fingerprint == command.assignment.fingerprint
        confirms == /\ previous.pending_artifact = command.artifact
                    /\ previous.pending_cluster = fingerprint
                    /\ previous.pending_count = 1
        cluster_events == IF previous.cluster # fingerprint
                          THEN <<"CLUSTER_TRANSITION">> ELSE <<>>
    IN  IF ~IsHighConfidence(command) THEN LowConfidenceTransition(previous, command)
        ELSE IF ~confirms
        THEN Decision(MakePending(previous, command, command.artifact, FALSE),
                  SuspendEvents(previous))
        ELSE Decision(MakeSelected(previous, command),
                  <<"ARTIFACT_REPLACED">> \o cluster_events
                    \o StrategyEvents(previous.active, Mapped(command)))

(* SelectStrategyUseCase.execute. *)
Transition(previous, command) ==
    IF previous = None THEN InitialTransition(command)
    ELSE IF command.artifact # previous.artifact
    THEN ReplacementTransition(previous, command)
    ELSE IF IsHighConfidence(command)
    THEN ConfidentTransition(previous, command)
    ELSE LowConfidenceTransition(previous, command)

Execute(previous, command) ==
    LET decision == Transition(previous, command)
    IN  [expected |-> Version(previous), state |-> decision.state,
         events |-> decision.events, command |-> command]

(* What execute raises, or None. *)
ExecuteError(previous, command) ==
    IF previous # None /\ command.boundary = previous.last_boundary THEN "equal_boundary"
    ELSE IF ~AssignmentFits(command) THEN "assignment"
    ELSE LET result == Execute(previous, command)
         IN IF StateValid(result.state) /\ ResultValid(result) THEN None ELSE "invalid"
=============================================================================
