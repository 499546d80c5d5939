----------------------------- MODULE CommandOnce -----------------------------
(***************************************************************************)
(* What network.operation_dispatch promises of a device command, without   *)
(* rows, locks, broker or retries: a command is offered once, taken by at  *)
(* most one worker, and its task is entered at most once and only after it *)
(* was taken.  A command withdrawn before it was taken is never entered.   *)
(***************************************************************************)
EXTENDS Naturals

CONSTANT Command

VARIABLES
    state,   \* none, offered, taken, closed (after taken), withdrawn (before)
    runs     \* how often the command's task was entered

vars == <<state, runs>>

Init ==
    /\ state = [c \in Command |-> "none"]
    /\ runs = [c \in Command |-> 0]

Move(c, from, to) ==
    /\ state[c] = from
    /\ state' = [state EXCEPT ![c] = to]
    /\ UNCHANGED runs

(* The task may be entered after the take was given up as timed out: the   *)
(* worker holding it cannot be told.                                       *)
Run(c) ==
    /\ state[c] \in {"taken", "closed"}
    /\ runs[c] = 0
    /\ runs' = [runs EXCEPT ![c] = 1]
    /\ UNCHANGED state

Next ==
    \E c \in Command :
       \/ Move(c, "none", "offered")
       \/ Move(c, "offered", "taken")
       \/ Move(c, "offered", "withdrawn")
       \/ Move(c, "taken", "closed")
       \/ Run(c)

Spec == Init /\ [][Next]_vars
==============================================================================
