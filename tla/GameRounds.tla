----------------------------- MODULE GameRounds -----------------------------
(***************************************************************************)
(* What the comments of main.rs and state.rs promise of the shared game    *)
(* state: updates and commands are serialized.  Commands may overlap each  *)
(* other, and put back a row some time after they read it; but no command  *)
(* is at work from the beginning of an update to its end, and the rows     *)
(* change at that end, in one step.  An update that fails or is cut short  *)
(* by the end of the process leaves a beginning of its rows, in the order  *)
(* of their numbers; nobody sees them come one by one.                     *)
(***************************************************************************)
EXTENDS Naturals

CONSTANTS Readers,   \* whoever works under the shared lock
          NRows      \* number of rows

VARIABLES round,     \* number of updates begun
          updating,  \* an update is in progress
          active,    \* commands in progress
          held,      \* the row a command has read, with its number
          rows       \* per row: the update it comes from, commands in it

vars == <<round, updating, active, held, rows>>

NoRow == [row |-> 0]

Init ==
    /\ round = 0 /\ updating = FALSE
    /\ active = {}
    /\ held = [t \in Readers |-> NoRow]
    /\ rows = [r \in 1..NRows |-> [tick |-> 0, writes |-> 0]]

-----------------------------------------------------------------------------
(* Commands *)

Begin(t) ==
    /\ ~updating /\ t \notin active
    /\ active' = active \cup {t}
    /\ UNCHANGED <<round, updating, held, rows>>

Read(t, r) ==
    /\ t \in active /\ held[t] = NoRow
    /\ held' = [held EXCEPT ![t] = [row |-> r, val |-> rows[r]]]
    /\ UNCHANGED <<round, updating, active, rows>>

\* The row goes back whole, with the command's change.
Write(t) ==
    /\ t \in active /\ held[t] # NoRow
    /\ rows' = [rows EXCEPT ![held[t].row] = [held[t].val EXCEPT !.writes = @ + 1]]
    /\ held' = [held EXCEPT ![t] = NoRow]
    /\ UNCHANGED <<round, updating, active>>

End(t) ==
    /\ t \in active
    /\ active' = active \ {t}
    /\ held' = [held EXCEPT ![t] = NoRow]
    /\ UNCHANGED <<round, updating, rows>>

-----------------------------------------------------------------------------
(* Updates *)

\* The rows once this update has replaced the first k of them.
Updated(k) ==
    [r \in 1..NRows |-> IF r <= k THEN [rows[r] EXCEPT !.tick = round] ELSE rows[r]]

StartUpdate ==
    /\ ~updating /\ active = {}
    /\ updating' = TRUE /\ round' = round + 1
    /\ UNCHANGED <<active, held, rows>>

EndUpdate ==
    /\ updating /\ updating' = FALSE
    /\ \E k \in 0..NRows : rows' = Updated(k)
    /\ UNCHANGED <<round, active, held>>

\* The process ends, perhaps during an update, and is started again.
Restart ==
    /\ \/ UNCHANGED rows
       \/ updating /\ \E k \in 0..NRows : rows' = Updated(k)
    /\ updating' = FALSE
    /\ active' = {} /\ held' = [t \in Readers |-> NoRow]
    /\ UNCHANGED round

Next ==
    \/ \E t \in Readers : Begin(t) \/ Write(t) \/ End(t)
    \/ \E t \in Readers, r \in 1..NRows : Read(t, r)
    \/ StartUpdate \/ EndUpdate \/ Restart

Spec == Init /\ [][Next]_vars
=============================================================================
