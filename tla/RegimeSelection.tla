--------------------------- MODULE RegimeSelection ---------------------------
(***************************************************************************)
(* RegimeSelectionScheduler.run_selection executed concurrently by several *)
(* processes over one SqliteRegimeSelectionStateRepository.                *)
(*                                                                         *)
(* A run touches the database three times, and other processes may commit  *)
(* between any two of them: it loads the state and builds the command, it  *)
(* looks for a committed result under the command's key and otherwise      *)
(* computes a proposal, and it commits the proposal in one BEGIN IMMEDIATE *)
(* transaction.  A process may die anywhere, also between the durable      *)
(* commit and the return of the result; a database that stays locked past  *)
(* the ten second timeout makes the access fail.                           *)
(***************************************************************************)
EXTENDS RegimeSelector

CONSTANT Processes

VARIABLES
    state_row,    \* regime_selection_states: the row of the symbol, or None
    event_rows,   \* regime_selection_events: the committed results
    pc,           \* where the run of each process is
    previous,     \* the state the run loaded
    command,      \* the command the run built
    proposed,     \* the result the run computed, then the one it returns
    outcome       \* how the last run ended: "result", an error, or None

db == <<state_row, event_rows>>
vars == <<state_row, event_rows, pc, previous, command, proposed, outcome>>

Errors == {"command", "conflict", "equal_boundary", "assignment", "invalid",
           "boundary", "stale", "locked"}

ASSUME OutcomeAssumption == None \notin Errors \union {"result"}

TypeOK ==
    /\ state_row \in Optional(States)
    /\ event_rows \subseteq Results
    /\ pc \in [Processes -> {"idle", "find", "commit", "return"}]
    /\ previous \in [Processes -> Optional(States)]
    /\ command \in [Processes -> Optional(Commands)]
    /\ proposed \in [Processes -> Optional(Results)]
    /\ outcome \in [Processes -> Errors \union {"result", None}]

Init ==
    /\ state_row = None
    /\ event_rows = {}
    /\ pc = [p \in Processes |-> "idle"]
    /\ previous = [p \in Processes |-> None]
    /\ command = [p \in Processes |-> None]
    /\ proposed = [p \in Processes |-> None]
    /\ outcome = [p \in Processes |-> None]

(* The locals of a run that is over. *)
Forget(p) ==
    /\ pc' = [pc EXCEPT ![p] = "idle"]
    /\ previous' = [previous EXCEPT ![p] = None]
    /\ command' = [command EXCEPT ![p] = None]
    /\ proposed' = [proposed EXCEPT ![p] = None]

(* The except clause of run_selection: the run ends with an error. *)
Fail(p, error) ==
    /\ Forget(p)
    /\ outcome' = [outcome EXCEPT ![p] = error]

-----------------------------------------------------------------------------
(* repository.load, then command_factory(previous_state).  The factory and   *)
(* the checks of its result read nothing but the loaded state.               *)
Load(p, c) ==
    /\ pc[p] = "idle"
    /\ IF CommandValid(state_row, c)
       THEN /\ pc' = [pc EXCEPT ![p] = "find"]
            /\ previous' = [previous EXCEPT ![p] = state_row]
            /\ command' = [command EXCEPT ![p] = c]
            /\ proposed' = [proposed EXCEPT ![p] = None]
            /\ outcome' = [outcome EXCEPT ![p] = None]
       ELSE Fail(p, "command")
    /\ UNCHANGED db

(* The row under (symbol, boundary, evaluated artifact). *)
CommittedUnder(c) ==
    {r \in event_rows : r.command.boundary = c.boundary /\ r.command.artifact = c.artifact}

(* The run goes on with a result, found, computed or committed. *)
Carry(p, where, result) ==
    /\ pc' = [pc EXCEPT ![p] = where]
    /\ proposed' = [proposed EXCEPT ![p] = result]
    /\ UNCHANGED <<previous, command, outcome>>

(* Variants: the input hash of the existing row is not compared; a conflict   *)
(* is not raised.                                                             *)
FindExistingUnchecked(p) ==
    \E existing \in CommittedUnder(command[p]) : Carry(p, "return", existing)

FindExistingSilent(p) ==
    \E existing \in CommittedUnder(command[p]) :
        existing.command = command[p] /\ Carry(p, "return", existing)

(* find_committed_result found a row: it must answer this very command. *)
FindExisting(p) ==
    \E existing \in CommittedUnder(command[p]) :
        IF existing.command = command[p]
        THEN Carry(p, "return", existing)
        ELSE Fail(p, "conflict")

(* There is no row: the usecase computes a proposal from the loaded state. *)
Propose(p) ==
    LET error == ExecuteError(previous[p], command[p]) IN
    /\ CommittedUnder(command[p]) = {}
    /\ IF error = None
       THEN Carry(p, "commit", Execute(previous[p], command[p]))
       ELSE Fail(p, error)

Find(p) ==
    /\ pc[p] = "find"
    /\ FindExisting(p) \/ Propose(p)
    /\ UNCHANGED db

(* _commit, inside BEGIN IMMEDIATE: a decision already stored under the key  *)
(* is returned when it is the same one and rejected otherwise.               *)
CommitPrior(p) ==
    /\ \E prior \in CommittedUnder(proposed[p].command) :
        IF prior = proposed[p]
        THEN Carry(p, "return", prior)
        ELSE Fail(p, "conflict")
    /\ UNCHANGED db

(* Variants: the version is not compared; the boundary must leave a gap. *)
CommitErrorUnversioned(result) ==
    IF state_row # None /\ state_row.last_boundary >= result.state.last_boundary
    THEN "boundary" ELSE None

CommitErrorGap(result) ==
    IF state_row # None /\ state_row.last_boundary + 1 >= result.state.last_boundary
    THEN "boundary"
    ELSE IF Version(state_row) # result.expected THEN "stale" ELSE None

(* Why _commit refuses a decision under a new key, or None. *)
CommitError(result) ==
    IF state_row # None /\ state_row.last_boundary >= result.state.last_boundary
    THEN "boundary"
    ELSE IF Version(state_row) # result.expected THEN "stale" ELSE None

CommitReject(p) ==
    LET error == CommitError(proposed[p]) IN
    /\ CommittedUnder(proposed[p].command) = {}
    /\ error # None
    /\ Fail(p, error)
    /\ UNCHANGED db

(* The event row and the state row are written in the same transaction. *)
CommitNew(p) ==
    /\ CommittedUnder(proposed[p].command) = {}
    /\ CommitError(proposed[p]) = None
    /\ event_rows' = event_rows \union {proposed[p]}
    /\ state_row' = proposed[p].state
    /\ Carry(p, "return", proposed[p])

Commit(p) ==
    /\ pc[p] = "commit"
    /\ CommitPrior(p) \/ CommitReject(p) \/ CommitNew(p)

(* The ScheduledRegimeSelection reaches the caller. *)
Return(p) ==
    /\ pc[p] = "return"
    /\ pc' = [pc EXCEPT ![p] = "idle"]
    /\ previous' = [previous EXCEPT ![p] = None]
    /\ outcome' = [outcome EXCEPT ![p] = "result"]
    /\ UNCHANGED <<db, command, proposed>>

(* busy_timeout expires inside find_committed_result or _commit. *)
DatabaseLocked(p) ==
    /\ pc[p] \in {"find", "commit"}
    /\ Fail(p, "locked")
    /\ UNCHANGED db

(* The process dies: what it held in memory is gone, the database is not. *)
Crash(p) ==
    /\ pc[p] # "idle"
    /\ Forget(p)
    /\ UNCHANGED <<db, outcome>>

RunStep(p) == Find(p) \/ Commit(p) \/ Return(p)

Next ==
    \E p \in Processes :
        \/ \E c \in Commands : Load(p, c)
        \/ RunStep(p)
        \/ DatabaseLocked(p)
        \/ Crash(p)

(* A started run is executed to its end unless its process dies: a run waits *)
(* for nothing but the database, and that wait is bounded by busy_timeout.   *)
Fairness == \A p \in Processes : WF_vars(RunStep(p))

Spec == Init /\ [][Next]_vars /\ Fairness

-----------------------------------------------------------------------------
(* Properties *)

(* r is the decision that directly follows q. *)
Follows(r, q) == r.expected = q.state.version

(* The two tables agree: the event rows carry the versions 1..n without gap   *)
(* or repetition, later versions have later boundaries (so a boundary is      *)
(* decided once, whatever artifact evaluated it), and the state row is the    *)
(* state of the last event row.                                               *)
HistoryIsAChain ==
    /\ \A v \in 1..Version(state_row) : \E r \in event_rows : r.state.version = v
    /\ \A r \in event_rows : r.state.version =< Version(state_row)
    /\ \A q, r \in event_rows : q.state.version = r.state.version => q = r
    /\ \A q, r \in event_rows :
        q.state.version < r.state.version => q.state.last_boundary < r.state.last_boundary
    /\ state_row # None => \E r \in event_rows : r.state = state_row

(* A switch of the current cluster or of the artifact needs the same cluster, *)
(* classified with high confidence under the same artifact, by the decision   *)
(* itself and by the decision right before it, however the runs interleave.   *)
TwoObservationRule ==
    \A q, r \in event_rows :
        /\ Follows(r, q)
        /\ r.state.cluster # q.state.cluster \/ r.state.artifact # q.state.artifact
        => /\ q.command.artifact = r.command.artifact
           /\ q.command.assignment.fingerprint = r.command.assignment.fingerprint
           /\ IsHighConfidence(q.command) /\ IsHighConfidence(r.command)
           /\ r.state.cluster = r.command.assignment.fingerprint
           /\ r.state.artifact = r.command.artifact

(* New entries are enabled only by a decision that classified with high       *)
(* confidence under the committed artifact, and only for the strategy that    *)
(* artifact maps the current cluster to.                                      *)
EntriesAreJustified ==
    \A r \in event_rows :
        r.state.entries =>
            /\ IsHighConfidence(r.command)
            /\ r.command.artifact = r.state.artifact
            /\ r.state.active # None
            /\ r.state.active = Snapshots[r.state.artifact].mapping[r.state.cluster]

(* Two low-confidence classifications in a row put the selector in cash, and  *)
(* an active strategy is given up for cash for no other reason than that or a *)
(* confirmed switch to a cluster mapped to cash.                              *)
CashRule ==
    \A q, r \in event_rows :
        Follows(r, q) =>
            LET both_low == ~IsHighConfidence(q.command) /\ ~IsHighConfidence(r.command) IN
            /\ both_low => r.state.active = None
            /\ (q.state.active # None /\ r.state.active = None) =>
                \/ both_low
                \/ /\ IsHighConfidence(r.command) /\ Mapped(r.command) = None
                   /\ <<r.state.artifact, r.state.cluster>> # <<q.state.artifact, q.state.cluster>>

(* The events stored with a decision say exactly what it changed in the state *)
(* before it, so list_events is a faithful account of the history.            *)
EventsDescribeChange ==
    \A q, r \in event_rows :
        Follows(r, q) =>
            LET emitted(e) == \E i \in DOMAIN r.events : r.events[i] = e IN
            /\ emitted("ARTIFACT_REPLACED") <=> r.state.artifact # q.state.artifact
            /\ emitted("CLUSTER_TRANSITION") <=> r.state.cluster # q.state.cluster
            /\ emitted("STRATEGY_TRANSITION") <=>
                r.state.active # q.state.active /\ r.state.active # None
            /\ emitted("CASH_TRANSITION") <=>
                r.state.active # q.state.active /\ r.state.active = None
            /\ emitted("ENTRY_SUSPENDED") <=>
                q.state.entries /\ ~r.state.entries /\ r.state.active = q.state.active

(* What a decision says is earned by the classifications behind it: entries,  *)
(* cash, and the events that report it.                                       *)
DecisionsAreJustified == EntriesAreJustified /\ CashRule /\ EventsDescribeChange

(* A result handed to a caller is a committed decision on exactly the command *)
(* the caller asked about, also when another process committed it or when the *)
(* run retried one whose process died after the commit.                       *)
ReturnedIsCommitted ==
    \A p \in Processes :
        outcome[p] = "result" =>
            /\ proposed[p] \in event_rows
            /\ proposed[p].command = command[p]

(* The selector never computes a state or a result that the validators of     *)
(* RegimeSelectionState and SelectStrategyResult refuse.                      *)
SelectorNeverInvalid == \A p \in Processes : outcome[p] # "invalid"

(* The commit refuses a proposal only when another decision was committed     *)
(* since the run loaded the state: a run nobody overtook is never rejected.   *)
RejectedOnlyWhenOvertaken ==
    [][\A p \in Processes :
        (pc[p] = "commit" /\ outcome'[p] \in {"conflict", "boundary", "stale"})
        => Version(state_row) > Version(previous[p])]_vars

(* Every run ends, with a result, with an error or with its process: there is *)
(* no combination of loaded state, stored decision and proposal that leaves   *)
(* run_selection without a branch to take.                                    *)
RunsEnd == \A p \in Processes : pc[p] # "idle" ~> pc[p] = "idle"

(* Concurrent, retried and crashing runs produce one sequence of decisions,   *)
(* each computed from the state its predecessor committed: no confirmation is *)
(* counted twice and none is computed from a stale state.                     *)
Accepts(s, c) == CommandValid(s, c) /\ ExecuteError(s, c) = None

Sequential == INSTANCE SequentialSelection
                  WITH Commands <- Commands, Accepts <- Accepts, Execute <- Execute,
                       state_row <- state_row, event_rows <- event_rows

RunsAreSequential == Sequential!Spec
=============================================================================
