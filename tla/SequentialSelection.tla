------------------------ MODULE SequentialSelection ------------------------
(***************************************************************************)
(* What the selection store promises: decisions happen one at a time, each *)
(* computed from the state the one before it left, and each recorded       *)
(* together with the state it produced.  There are no runs, no retries and *)
(* no failures here.  The selector is a parameter.                         *)
(***************************************************************************)
CONSTANTS
    None,
    Commands,          \* what a scheduler may ask
    Accepts(_, _),     \* the selector decides this command from this state
    Execute(_, _)      \* the decision it then makes

VARIABLES
    state_row,    \* regime_selection_states: the row of the symbol, or None
    event_rows    \* regime_selection_events: the committed results

vars == <<state_row, event_rows>>

Init ==
    /\ state_row = None
    /\ event_rows = {}

Decide(command) ==
    /\ Accepts(state_row, command)
    /\ state_row' = Execute(state_row, command).state
    /\ event_rows' = event_rows \union {Execute(state_row, command)}

Next == \E command \in Commands : Decide(command)

Spec == Init /\ [][Next]_vars
=============================================================================
