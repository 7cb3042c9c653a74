------------------------ MODULE RegimeSelector_proofs ------------------------
(***************************************************************************)
(* Facts about the two pure selectors, for every mapping, every threshold  *)
(* and every previous state: what a decision contains, and that the        *)
(* validators of the domain records accept it.                             *)
(***************************************************************************)
EXTENDS DailySelector, SequenceTheorems, TLAPS

-----------------------------------------------------------------------------
(* The four-hour selector. *)

LEMMA VersionType ==
    ASSUME NEW s \in Optional(States)
    PROVE  /\ Version(s) \in Nat
           /\ s # None => s \in States /\ Version(s) = s.version /\ s.version > 0
BY NoneAssumption DEF Version, Optional, States

LEMMA MappedType ==
    ASSUME NEW prior, NEW request \in Commands, CommandValid(prior, request)
    PROVE  /\ Mapped(request) \in Optional(Strategies)
           /\ request.assignment.fingerprint \in Clusters
BY SnapshotAssumption, AssignmentAssumption
DEF Mapped, CommandValid, SnapshotOK, AssignmentOK, Commands

(* _make_state fills every field with a value of its type. *)
LEMMA MakeStateType ==
    ASSUME NEW prior \in Optional(States), NEW request \in Commands,
           NEW artifact \in Artifacts, NEW cluster \in Optional(Clusters),
           NEW active \in Optional(Strategies), NEW entries \in BOOLEAN
    PROVE  MakeState(prior, request, artifact, cluster, active, entries) \in States
BY VersionType DEF MakeState, States, Optional, Commands

LEMMA EventSequences ==
    /\ <<>> \in Seq(SelectionEventTypes)
    /\ \A e \in SelectionEventTypes : <<e>> \in Seq(SelectionEventTypes)
    /\ \A s, t \in Seq(SelectionEventTypes) : s \o t \in Seq(SelectionEventTypes)
OBVIOUS

LEMMA StrategyEventsType ==
    ASSUME NEW old, NEW new
    PROVE  StrategyEvents(old, new) \in Seq(SelectionEventTypes)
BY EventSequences DEF StrategyEvents, SelectionEventTypes

(* What a decision is made of, whatever branch of execute produced it. *)
DecisionOK(decision, prior, request) ==
    /\ decision.state \in States
    /\ decision.events \in Seq(SelectionEventTypes)
    /\ decision.state.last_boundary = request.boundary
    /\ decision.state.version = Version(prior) + 1

LEMMA InitialDecision ==
    ASSUME NEW request \in Commands, CommandValid(None, request)
    PROVE  DecisionOK(InitialTransition(request), None, request)
<1> None \in Optional(States)
  BY DEF Optional
<1> USE MappedType, EventSequences
<1>1. MakeSelected(None, request) \in States
  BY MakeStateType DEF MakeSelected, Commands, Optional
<1>2. MakeState(None, request, request.artifact, None, None, FALSE) \in States
  BY MakeStateType DEF Commands, Optional
<1>3. [MakeState(None, request, request.artifact, None, None, FALSE)
        EXCEPT !.low_count = 1] \in States
  BY <1>2 DEF States
<1> QED
  BY <1>1, <1>3
  DEF DecisionOK, InitialTransition, Decision, MakeSelected, MakeState, SelectionEventTypes

LEMMA SelectedDecision ==
    ASSUME NEW prior \in Optional(States), NEW request \in Commands,
           CommandValid(prior, request), NEW events \in Seq(SelectionEventTypes)
    PROVE  DecisionOK(Decision(MakeSelected(prior, request), events), prior, request)
<1>1. MakeSelected(prior, request) \in States
  BY MappedType, MakeStateType DEF MakeSelected, Commands, Optional
<1> QED
  BY <1>1 DEF DecisionOK, Decision, MakeSelected, MakeState

LEMMA PendingDecision ==
    ASSUME NEW prior \in States, NEW request \in Commands,
           CommandValid(prior, request), NEW artifact \in Optional(Artifacts),
           NEW entries \in BOOLEAN, NEW events \in Seq(SelectionEventTypes)
    PROVE  DecisionOK(Decision(MakePending(prior, request, artifact, entries), events),
                      prior, request)
<1> DEFINE m == MakeState(prior, request, prior.artifact, prior.cluster,
                          prior.active, entries)
<1>1. m \in States
  BY MakeStateType DEF States, Optional
<1>2. /\ m.last_boundary = request.boundary
      /\ m.version = Version(prior) + 1
  BY DEF MakeState
<1>3. request.assignment.fingerprint \in Optional(Clusters)
  BY MappedType DEF Optional
<1> HIDE DEF m
<1>4. [m EXCEPT !.pending_cluster = request.assignment.fingerprint,
                !.pending_count = 1, !.pending_artifact = artifact] \in States
  BY <1>1, <1>3 DEF States
<1> QED
  BY <1>1, <1>2, <1>4 DEF DecisionOK, Decision, MakePending, m, States

LEMMA LowConfidenceDecision ==
    ASSUME NEW prior \in States, NEW request \in Commands,
           CommandValid(prior, request)
    PROVE  DecisionOK(LowConfidenceTransition(prior, request), prior, request)
<1> DEFINE low_count == IF prior.low_count + 1 < 2 THEN prior.low_count + 1 ELSE 2
           active == IF low_count >= 2 THEN None ELSE prior.active
           m == MakeState(prior, request, prior.artifact, prior.cluster, active, FALSE)
           s == [m EXCEPT !.low_count = low_count]
           events == IF ~(low_count >= 2) THEN SuspendEvents(prior)
                     ELSE IF prior.active # None THEN <<"CASH_TRANSITION">>
                     ELSE <<"CLASSIFICATION">>
<1>1. low_count \in Nat /\ active \in Optional(Strategies)
  BY DEF States, Optional
<1>2. m \in States
  BY <1>1, MakeStateType DEF States, Optional
<1>3. /\ m.last_boundary = request.boundary
      /\ m.version = Version(prior) + 1
  BY DEF MakeState
<1>4. events \in Seq(SelectionEventTypes)
  BY EventSequences DEF SuspendEvents, SelectionEventTypes
<1>5. LowConfidenceTransition(prior, request) = Decision(s, events)
  BY DEF LowConfidenceTransition
<1> HIDE DEF m, low_count, active, events
<1>6. s \in States /\ s.last_boundary = m.last_boundary /\ s.version = m.version
  BY <1>1, <1>2 DEF States
<1> HIDE DEF s
<1> QED
  BY <1>3, <1>4, <1>5, <1>6 DEF DecisionOK, Decision

LEMMA TransitionDecision ==
    ASSUME NEW prior \in Optional(States), NEW request \in Commands,
           CommandValid(prior, request)
    PROVE  DecisionOK(Transition(prior, request), prior, request)
<1>1. CASE prior = None
  BY <1>1, InitialDecision DEF Transition
<1>2. CASE prior # None
  <2>1. prior \in States
    BY <1>2, VersionType
  <2>2. LowConfidenceTransition(prior, request)
        = Transition(prior, request)
        => DecisionOK(Transition(prior, request), prior, request)
    BY <2>1, LowConfidenceDecision
  <2>3. ASSUME NEW events \in Seq(SelectionEventTypes)
        PROVE  DecisionOK(Decision(MakeSelected(prior, request), events), prior, request)
    BY SelectedDecision
  <2>4. CASE request.artifact # prior.artifact
    <3>1. <<"ARTIFACT_REPLACED">>
            \o (IF prior.cluster # request.assignment.fingerprint
                THEN <<"CLUSTER_TRANSITION">> ELSE <<>>)
            \o StrategyEvents(prior.active, Mapped(request)) \in Seq(SelectionEventTypes)
      BY EventSequences, StrategyEventsType DEF SelectionEventTypes
    <3>2. DecisionOK(Decision(MakePending(prior, request, request.artifact, FALSE),
                              SuspendEvents(prior)), prior, request)
      BY <2>1, PendingDecision, EventSequences
      DEF SuspendEvents, SelectionEventTypes, Optional, Commands
    <3> QED
      BY <1>2, <2>2, <2>3, <2>4, <3>1, <3>2 DEF Transition, ReplacementTransition
  <2>5. CASE request.artifact = prior.artifact /\ IsHighConfidence(request)
    <3>1. /\ OrClassification(StrategyEvents(prior.active, Mapped(request)))
                \in Seq(SelectionEventTypes)
          /\ <<"CLUSTER_TRANSITION">> \o StrategyEvents(prior.active, Mapped(request))
                \in Seq(SelectionEventTypes)
      BY EventSequences, StrategyEventsType DEF SelectionEventTypes, OrClassification
    <3>2. DecisionOK(Decision(MakePending(prior, request, None, prior.entries),
                              <<"CLASSIFICATION">>), prior, request)
      BY <2>1, PendingDecision, EventSequences DEF SelectionEventTypes, Optional, States
    <3> QED
      BY <1>2, <2>3, <2>5, <3>1, <3>2 DEF Transition, ConfidentTransition
  <2>6. CASE request.artifact = prior.artifact /\ ~IsHighConfidence(request)
    BY <1>2, <2>2, <2>6 DEF Transition
  <2> QED
    BY <2>4, <2>5, <2>6
<1> QED
  BY <1>1, <1>2

(* What execute returns for a request its constructor accepted. *)
LEMMA ExecuteType ==
    ASSUME NEW prior \in Optional(States), NEW request \in Commands,
           CommandValid(prior, request)
    PROVE  LET result == Execute(prior, request) IN
           /\ result \in Results
           /\ result.expected = Version(prior)
           /\ result.state \in States
           /\ result.state.version = Version(prior) + 1
           /\ result.state.last_boundary = request.boundary
           /\ result.command = request
BY TransitionDecision, VersionType DEF Execute, DecisionOK, Results

-----------------------------------------------------------------------------
(* The selector never fails its own validators. *)

LEMMA MaterialPositions ==
    /\ Position("ARTIFACT_REPLACED") = 1
    /\ Position("CLUSTER_TRANSITION") = 2
    /\ Position("STRATEGY_TRANSITION") = 3
    /\ Position("CASH_TRANSITION") = 4
<1> DEFINE D == {1, 2, 3, 4}
<1>1. /\ DOMAIN MaterialOrder = D
      /\ MaterialOrder[1] = "ARTIFACT_REPLACED" /\ MaterialOrder[2] = "CLUSTER_TRANSITION"
      /\ MaterialOrder[3] = "STRATEGY_TRANSITION" /\ MaterialOrder[4] = "CASH_TRANSITION"
  BY DEF MaterialOrder
<1> QED
  BY <1>1 DEF Position

LEMMA OneEventValid ==
    ASSUME NEW e \in SelectionEventTypes
    PROVE  EventsValid(<<e>>)
<1>1. DOMAIN <<e>> = {1} /\ Len(<<e>>) = 1 /\ <<e>>[1] = e /\ <<e>> # <<>>
  OBVIOUS
<1>2. Position(e) =< Position(e) \/ e \in {"CLASSIFICATION", "ENTRY_SUSPENDED"}
  BY MaterialPositions DEF SelectionEventTypes
<1> QED
  BY <1>1, <1>2 DEF EventsValid

LEMMA TwoEventsValid ==
    ASSUME NEW e, NEW f,
           \/ e = "ARTIFACT_REPLACED"
              /\ f \in {"CLUSTER_TRANSITION", "STRATEGY_TRANSITION", "CASH_TRANSITION"}
           \/ e = "CLUSTER_TRANSITION" /\ f \in {"STRATEGY_TRANSITION", "CASH_TRANSITION"}
    PROVE  EventsValid(<<e, f>>)
<1> DEFINE t == <<e, f>>
<1>1. DOMAIN t = {1, 2} /\ t[1] = e /\ t[2] = f /\ t # <<>>
  OBVIOUS
<1>2. Position(e) =< Position(f)
  BY MaterialPositions
<1> HIDE DEF t
<1>3. \A i, j \in DOMAIN t : i < j => i = 1 /\ j = 2
  BY <1>1
<1>4. ~ \E i, j \in DOMAIN t : t[i] = "STRATEGY_TRANSITION" /\ t[j] = "CASH_TRANSITION"
  BY <1>1
<1>5. EventsValid(t)
  BY <1>1, <1>2, <1>3, <1>4 DEF EventsValid
<1> QED
  BY <1>5 DEF t

LEMMA ThreeEventsValid ==
    ASSUME NEW f \in {"STRATEGY_TRANSITION", "CASH_TRANSITION"}
    PROVE  EventsValid(<<"ARTIFACT_REPLACED", "CLUSTER_TRANSITION", f>>)
<1> DEFINE t == <<"ARTIFACT_REPLACED", "CLUSTER_TRANSITION", f>>
<1>1. /\ DOMAIN t = {1, 2, 3} /\ t # <<>>
      /\ t[1] = "ARTIFACT_REPLACED" /\ t[2] = "CLUSTER_TRANSITION" /\ t[3] = f
  OBVIOUS
<1> HIDE DEF t
<1>2. \A i, j \in DOMAIN t : i < j => Position(t[i]) =< Position(t[j])
  BY <1>1, MaterialPositions
<1>3. ~ \E i, j \in DOMAIN t : t[i] = "STRATEGY_TRANSITION" /\ t[j] = "CASH_TRANSITION"
  BY <1>1
<1>4. EventsValid(t)
  BY <1>1, <1>2, <1>3 DEF EventsValid
<1> QED
  BY <1>4 DEF t

(* Every tuple of events execute can build. *)
LEMMA StrategyEventsValues ==
    ASSUME NEW old, NEW new
    PROVE  StrategyEvents(old, new) \in
                {<<>>, <<"CASH_TRANSITION">>, <<"STRATEGY_TRANSITION">>}
BY DEF StrategyEvents

LEMMA ConcatSingles ==
    ASSUME NEW e \in SelectionEventTypes, NEW f \in SelectionEventTypes
    PROVE  <<e>> \o <<f>> = <<e, f>>
<1> DEFINE c == <<e>> \o <<f>>
           t == <<e, f>>
<1>1. <<e>> \in Seq(SelectionEventTypes) /\ <<f>> \in Seq(SelectionEventTypes)
  BY EventSequences
<1>2. t \in Seq(SelectionEventTypes) /\ Len(t) = 2 /\ t[1] = e /\ t[2] = f
  OBVIOUS
<1>3. /\ Len(<<e>>) = 1 /\ Len(<<f>>) = 1
      /\ <<e>>[1] = e /\ <<f>>[1] = f
  OBVIOUS
<1>4. c \in Seq(SelectionEventTypes) /\ Len(c) = 2 /\ c[1] = e /\ c[2] = f
  BY <1>1, <1>3, ConcatProperties, Z3
<1> HIDE DEF c, t
<1>5. c = t
  BY <1>2, <1>4, SeqEqual, Z3
<1> QED
  BY <1>5 DEF c, t

LEMMA ConcatPair ==
    ASSUME NEW d \in SelectionEventTypes, NEW e \in SelectionEventTypes,
           NEW f \in SelectionEventTypes
    PROVE  <<d, e>> \o <<f>> = <<d, e, f>>
<1> DEFINE c == <<d, e>> \o <<f>>
           t == <<d, e, f>>
<1>1. <<d, e>> \in Seq(SelectionEventTypes) /\ <<f>> \in Seq(SelectionEventTypes)
  BY EventSequences
<1>2. /\ t \in Seq(SelectionEventTypes) /\ Len(t) = 3
      /\ t[1] = d /\ t[2] = e /\ t[3] = f
  OBVIOUS
<1>3. /\ Len(<<d, e>>) = 2 /\ Len(<<f>>) = 1
      /\ <<d, e>>[1] = d /\ <<d, e>>[2] = e /\ <<f>>[1] = f
  OBVIOUS
<1>4. /\ c \in Seq(SelectionEventTypes) /\ Len(c) = 3
      /\ c[1] = d /\ c[2] = e /\ c[3] = f
  BY <1>1, <1>3, ConcatProperties, Z3
<1> HIDE DEF c, t
<1>5. c = t
  BY <1>2, <1>4, SeqEqual, Z3
<1> QED
  BY <1>5 DEF c, t

LEMMA ClusterEventsValid ==
    ASSUME NEW t \in {<<>>, <<"CASH_TRANSITION">>, <<"STRATEGY_TRANSITION">>}
    PROVE  EventsValid(<<"CLUSTER_TRANSITION">> \o t)
<1>1. <<"CLUSTER_TRANSITION">> \o <<>> = <<"CLUSTER_TRANSITION">>
  BY EventSequences, ConcatEmptySeq DEF SelectionEventTypes
<1>2. \A f \in SelectionEventTypes :
        <<"CLUSTER_TRANSITION">> \o <<f>> = <<"CLUSTER_TRANSITION", f>>
  BY ConcatSingles DEF SelectionEventTypes
<1> QED
  BY <1>1, <1>2, OneEventValid, TwoEventsValid DEF SelectionEventTypes

LEMMA ReplacementEventsValid ==
    ASSUME NEW t \in {<<>>, <<"CASH_TRANSITION">>, <<"STRATEGY_TRANSITION">>},
           NEW u \in {<<>>, <<"CLUSTER_TRANSITION">>}
    PROVE  EventsValid(<<"ARTIFACT_REPLACED">> \o u \o t)
<1> DEFINE A == <<"ARTIFACT_REPLACED">>
           AC == <<"ARTIFACT_REPLACED", "CLUSTER_TRANSITION">>
<1>1. A \in Seq(SelectionEventTypes) /\ AC \in Seq(SelectionEventTypes)
  BY DEF SelectionEventTypes
<1>2. A \o <<>> = A /\ AC \o <<>> = AC /\ A \o <<"CLUSTER_TRANSITION">> = AC
  BY <1>1, ConcatEmptySeq, ConcatSingles DEF SelectionEventTypes
<1>3. \A f \in SelectionEventTypes :
        /\ A \o <<f>> = <<"ARTIFACT_REPLACED", f>>
        /\ AC \o <<f>> = <<"ARTIFACT_REPLACED", "CLUSTER_TRANSITION", f>>
  BY ConcatSingles, ConcatPair, SMTT(30) DEF SelectionEventTypes
<1>4. CASE u = <<>>
  BY <1>2, <1>3, <1>4, OneEventValid, TwoEventsValid DEF SelectionEventTypes
<1>5. CASE u = <<"CLUSTER_TRANSITION">>
  BY <1>2, <1>3, <1>5, TwoEventsValid, ThreeEventsValid DEF SelectionEventTypes
<1> QED
  BY <1>4, <1>5

(* Each way a state is made satisfies the cross-field rules. *)
LEMMA SelectedValid ==
    ASSUME NEW prior, NEW request \in Commands, CommandValid(prior, request)
    PROVE  StateValid(MakeSelected(prior, request))
<1> DEFINE m == MakeSelected(prior, request)
<1>1. /\ m.pending_count = 0 /\ m.pending_cluster = None /\ m.pending_artifact = None
      /\ m.low_count = 0
      /\ m.cluster = request.assignment.fingerprint
      /\ m.active = None => m.entries = FALSE
  BY DEF MakeSelected, MakeState
<1>2. m.cluster # None
  BY <1>1, MappedType, NoneAssumption
<1> HIDE DEF m
<1>3. StateValid(m)
  BY <1>1, <1>2 DEF StateValid
<1> QED
  BY <1>3 DEF m

LEMMA PendingValid ==
    ASSUME NEW prior \in States, StateValid(prior),
           NEW request \in Commands, CommandValid(prior, request),
           NEW artifact, NEW entries \in BOOLEAN,
           artifact # None => artifact # prior.artifact /\ ~entries,
           entries => prior.entries
    PROVE  StateValid(MakePending(prior, request, artifact, entries))
BY MappedType, NoneAssumption DEF StateValid, MakePending, MakeState, States

LEMMA LowConfidenceValid ==
    ASSUME NEW prior \in States, StateValid(prior), NEW request \in Commands
    PROVE  StateValid(LowConfidenceTransition(prior, request).state)
<1>1. prior.low_count \in Nat
  BY DEF States
<1> QED
  BY <1>1 DEF StateValid, LowConfidenceTransition, Decision, MakeState

DecisionValid(decision) == StateValid(decision.state) /\ EventsValid(decision.events)

LEMMA LowConfidenceDecisionValid ==
    ASSUME NEW prior \in States, StateValid(prior), NEW request \in Commands
    PROVE  DecisionValid(LowConfidenceTransition(prior, request))
<1>1. LowConfidenceTransition(prior, request).events
        \in {<<e>> : e \in SelectionEventTypes}
  BY DEF LowConfidenceTransition, Decision, SuspendEvents, SelectionEventTypes
<1> QED
  BY <1>1, LowConfidenceValid, OneEventValid DEF DecisionValid

(* From a valid prior state, execute produces a state and events that the  *)
(* validators of RegimeSelectionState and SelectStrategyResult accept, so it  *)
(* raises nothing beyond its two documented errors.                           *)
THEOREM ExecuteNeverInvalid ==
    ASSUME NEW prior \in Optional(States), prior # None => StateValid(prior),
           NEW request \in Commands, CommandValid(prior, request)
    PROVE  /\ StateValid(Execute(prior, request).state)
           /\ ResultValid(Execute(prior, request))
<1> SUFFICES DecisionValid(Transition(prior, request))
  <2> DEFINE d == Transition(prior, request)
  <2>1. /\ Execute(prior, request).state = d.state
        /\ Execute(prior, request).events = d.events
    BY DEF Execute
  <2> HIDE DEF d
  <2>2. ResultValid(Execute(prior, request)) <=> EventsValid(d.events)
    BY <2>1, ExecuteType, VersionType DEF ResultValid
  <2> QED
    BY <2>1, <2>2 DEF DecisionValid, d
<1>1. CASE prior = None
  <2>1. StateValid([MakeState(None, request, request.artifact, None, None, FALSE)
                        EXCEPT !.low_count = 1])
    BY DEF StateValid, MakeState
  <2>2. EventsValid(<<"CLASSIFICATION">>)
    BY OneEventValid DEF SelectionEventTypes
  <2> QED
    BY <1>1, <2>1, <2>2, SelectedValid
    DEF DecisionValid, Transition, InitialTransition, Decision
<1>2. CASE prior # None /\ request.artifact # prior.artifact
  <2> USE <1>2, VersionType
  <2>1. CASE ~IsHighConfidence(request)
    BY <2>1, LowConfidenceDecisionValid DEF Transition, ReplacementTransition
  <2>2. CASE IsHighConfidence(request)
    <3>1. DecisionValid(Decision(MakePending(prior, request, request.artifact, FALSE),
                                 SuspendEvents(prior)))
      BY PendingValid, OneEventValid
      DEF DecisionValid, Decision, SuspendEvents, SelectionEventTypes
    <3>2. DecisionValid(Decision(MakeSelected(prior, request),
            <<"ARTIFACT_REPLACED">>
              \o (IF prior.cluster # request.assignment.fingerprint
                  THEN <<"CLUSTER_TRANSITION">> ELSE <<>>)
              \o StrategyEvents(prior.active, Mapped(request))))
      BY SelectedValid, ReplacementEventsValid, StrategyEventsValues
      DEF DecisionValid, Decision
    <3> QED
      BY <2>2, <3>1, <3>2 DEF Transition, ReplacementTransition
  <2> QED
    BY <2>1, <2>2
<1>3. CASE prior # None /\ request.artifact = prior.artifact
  <2> USE <1>3, VersionType
  <2>1. CASE ~IsHighConfidence(request)
    BY <2>1, LowConfidenceDecisionValid DEF Transition
  <2>2. CASE IsHighConfidence(request)
    <3>1. DecisionValid(Decision(MakePending(prior, request, None, prior.entries),
                                 <<"CLASSIFICATION">>))
      BY PendingValid, OneEventValid DEF DecisionValid, Decision, SelectionEventTypes, States
    <3>2. DecisionValid(Decision(MakeSelected(prior, request),
            <<"CLUSTER_TRANSITION">> \o StrategyEvents(prior.active, Mapped(request))))
      BY SelectedValid, ClusterEventsValid, StrategyEventsValues DEF DecisionValid, Decision
    <3>3. EventsValid(OrClassification(StrategyEvents(prior.active, Mapped(request))))
      BY StrategyEventsValues, OneEventValid DEF OrClassification, SelectionEventTypes
    <3>4. DecisionValid(Decision(MakeSelected(prior, request),
            OrClassification(StrategyEvents(prior.active, Mapped(request)))))
      BY <3>3, SelectedValid DEF DecisionValid, Decision
    <3> QED
      BY <2>2, <3>1, <3>2, <3>4 DEF Transition, ConfidentTransition
  <2> QED
    BY <2>1, <2>2
<1> QED
  BY <1>1, <1>2, <1>3

-----------------------------------------------------------------------------
(* The daily selector. *)

(* A component is a cluster of the mapping, and only a confident reading of   *)
(* one has a candidate.                                                       *)
LEMMA ComponentType ==
    ASSUME NEW prior, NEW request \in DailyCommands
    PROVE  /\ Component(request) \in Optional(Clusters)
           /\ Candidate(prior, request) \in Optional(Strategies)
           /\ Component(request) = None => Candidate(prior, request) = None
           /\ Status(request) = "selected" <=> Candidate(prior, request) # None
           /\ Status(request) = "fail_closed" => Candidate(prior, request) = None
<1> DEFINE mapping == Snapshots[request.artifact].mapping
<1>1. /\ DOMAIN mapping \subseteq Clusters
      /\ \A c \in DOMAIN mapping : mapping[c] \in Optional(Strategies)
  BY SnapshotAssumption DEF SnapshotOK, DailyCommands
<1>2. Component(request) # None => Component(request) \in DOMAIN mapping
  BY DEF Component
<1>3. IsConfident(request) => Component(request) # None
  BY DEF IsConfident
<1> QED
  BY <1>1, <1>2, <1>3 DEF Candidate, Status, Optional

(* A field of the base state may change without touching the others. *)
LEMMA DailyStateFields ==
    ASSUME NEW prior \in Optional(States), NEW request \in DailyCommands
    PROVE  LET s == DailyState(prior, request) IN
           /\ s \in States
           /\ s.artifact = request.artifact
           /\ s.cluster = Component(request)
           /\ s.active = Candidate(prior, request)
           /\ s.entries = (Status(request) = "selected")
           /\ s.pending_cluster = None /\ s.pending_count = 0 /\ s.pending_artifact = None
           /\ s.low_count = (IF Status(request) = "fail_closed" THEN 1 ELSE 0)
           /\ s.last_boundary = request.boundary
           /\ s.version = Version(prior) + 1
<1> DEFINE cluster == Component(request)
           active == Candidate(prior, request)
           entries == Status(request) = "selected"
           low_count == IF Status(request) = "fail_closed" THEN 1 ELSE 0
           version == Version(prior) + 1
<1>1. /\ cluster \in Optional(Clusters) /\ active \in Optional(Strategies)
      /\ entries \in BOOLEAN /\ low_count \in Nat /\ version \in Nat \ {0}
      /\ request.artifact \in Artifacts /\ request.boundary \in Boundaries
  BY ComponentType, VersionType DEF DailyCommands
<1>2. DailyState(prior, request) =
        [artifact |-> request.artifact, cluster |-> cluster, active |-> active,
         pending_cluster |-> None, pending_count |-> 0, pending_artifact |-> None,
         low_count |-> low_count, entries |-> entries,
         last_boundary |-> request.boundary, version |-> version]
  BY DEF DailyState, MakeState
<1> HIDE DEF cluster, active, entries, low_count, version
<1>3. DailyState(prior, request) \in States
  BY <1>1, <1>2 DEF States, Optional
<1> QED
  BY <1>2, <1>3 DEF cluster, active, entries, low_count, version

LEMMA DailyEventsValid ==
    ASSUME NEW prior, NEW state
    PROVE  EventsValid(DailyEvents(prior, state))
<1> DEFINE t == StrategyEvents(prior.active, state.active)
           u == IF prior.cluster # state.cluster THEN <<"CLUSTER_TRANSITION">> ELSE <<>>
           v == IF prior.artifact # state.artifact THEN <<"ARTIFACT_REPLACED">> ELSE <<>>
<1>1. /\ t \in {<<>>, <<"CASH_TRANSITION">>, <<"STRATEGY_TRANSITION">>}
      /\ u \in {<<>>, <<"CLUSTER_TRANSITION">>}
      /\ v \in {<<>>, <<"ARTIFACT_REPLACED">>}
  BY StrategyEventsValues
<1>2. DailyEvents(prior, state) =
        IF prior = None THEN <<"CLASSIFICATION">> ELSE OrClassification(v \o u \o t)
  BY DEF DailyEvents
<1> HIDE DEF t, u, v
<1>3. <<>> \o t = t /\ <<>> \o u = u
  <2>1. t \in Seq(SelectionEventTypes) /\ u \in Seq(SelectionEventTypes)
    BY <1>1, EventSequences DEF SelectionEventTypes
  <2> QED
    BY <2>1, ConcatEmptySeq
<1>4. v \o u \o t = <<>> \/ EventsValid(v \o u \o t)
  <2>1. CASE v = <<"ARTIFACT_REPLACED">>
    BY <1>1, <2>1, ReplacementEventsValid
  <2>2. CASE v = <<>> /\ u = <<"CLUSTER_TRANSITION">>
    BY <1>1, <1>3, <2>2, ClusterEventsValid
  <2>3. CASE v = <<>> /\ u = <<>>
    BY <1>1, <1>3, <2>3, OneEventValid DEF SelectionEventTypes
  <2> QED
    BY <1>1, <2>1, <2>2, <2>3
<1>5. EventsValid(<<"CLASSIFICATION">>)
  BY OneEventValid DEF SelectionEventTypes
<1> QED
  BY <1>2, <1>4, <1>5 DEF OrClassification

(* Whatever the daily selector is given, also a reading that failed, an       *)
(* artifact that is not compatible or a classification of low confidence, the *)
(* state and the events it builds are ones the validators of the same records *)
(* accept: SelectDailyStrategyUseCase.execute raises nothing of its own.      *)
THEOREM DailyNeverInvalid ==
    ASSUME NEW prior \in Optional(States), NEW request \in DailyCommands
    PROVE  /\ DailyExecute(prior, request).state \in States
           /\ StateValid(DailyExecute(prior, request).state)
           /\ ResultValid(DailyExecute(prior, request))
<1> DEFINE s == DailyState(prior, request)
           result == DailyExecute(prior, request)
<1>1. /\ result.state = s /\ result.expected = Version(prior)
      /\ result.events = DailyEvents(prior, s)
  BY DEF DailyExecute
<1>2. s \in States /\ s.version = Version(prior) + 1
  BY DailyStateFields
<1>3. StateValid(s)
  <2>1. /\ s.cluster = Component(request) /\ s.active = Candidate(prior, request)
        /\ s.entries = (Status(request) = "selected")
        /\ s.low_count = (IF Status(request) = "fail_closed" THEN 1 ELSE 0)
        /\ s.pending_cluster = None /\ s.pending_count = 0 /\ s.pending_artifact = None
    BY DailyStateFields
  <2> HIDE DEF s
  <2>2. /\ Status(request) = "selected" <=> Candidate(prior, request) # None
        /\ Status(request) = "fail_closed" => Candidate(prior, request) = None
        /\ Component(request) = None => Candidate(prior, request) = None
    BY ComponentType
  <2>3. /\ s.entries \in BOOLEAN
        /\ s.active = None => ~s.entries
        /\ s.cluster = None => s.active = None
    BY <2>1, <2>2
  <2>4. s.low_count > 0 => ~s.entries
    <3>1. Status(request) # "fail_closed" => s.low_count = 0
      BY <2>1
    <3> QED
      BY <2>1, <2>2, <2>3, <3>1
  <2>5. s.low_count =< 2 /\ s.low_count # 2 /\ ~(s.pending_count > 0)
    BY <2>1
  <2> QED
    BY <2>1, <2>3, <2>4, <2>5 DEF StateValid
<1>4. EventsValid(result.events)
  BY <1>1, DailyEventsValid
<1> QED
  BY <1>1, <1>2, <1>3, <1>4 DEF ResultValid
=============================================================================
