--------------------------- MODULE MCPoolManager ---------------------------
(* Instances of PoolManager for TLC. *)
EXTENDS PoolManager

CONSTANTS a, b, c

Two == <<a, b>>

AllAre(s) == [p \in Pool |-> s]
SceneOf(states, disableRejecting, console, commands, n, events) ==
  [state |-> states, disableRejecting |-> disableRejecting, console |-> console,
   commands |-> commands, ops |-> n, events |-> events]

(* Commands that rewrite the pool table, on pools that stay alive. *)
Table == SceneOf(AllAre("enabled"), FALSE, "api", {"remove", "priority", "switch", "add"}, 3, {})

(* Pools that die and reject, and one command of the curses console. *)
Rejecting == SceneOf(AllAre("rejecting"), TRUE, "curses",
                     {"switch", "enable", "disable"}, 1,
                     {"died", "accepted", "rejected"})

Safety == {Table, Rejecting}

(* Pools that die and come back, and a command that changes the choice. *)
Live == {SceneOf(AllAre("enabled"), FALSE, "api", {"switch", "enable", "disable", "strategy"}, 1,
                 {"died", "resumed"})}

(* Counterexamples: nobody does anything but what they need. *)
Quiet(states, commands, events) ==
  {SceneOf(states, TRUE, "api", commands, Cardinality(commands), events)}
Removes == Quiet(AllAre("enabled"), {"remove"}, {"died"})
Rejects == Quiet(AllAre("enabled"), {}, {"rejected"})
Starts == Quiet(AllAre("enabled"), {}, {})
FirstDisabled == Quiet([p \in Pool |-> IF p = a THEN "disabled" ELSE "enabled"], {}, {"resumed"})
=============================================================================
