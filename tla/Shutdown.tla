------------------------------ MODULE Shutdown ------------------------------
(***************************************************************************)
(* The "shutdown" command of empire-server (commands/shutdown_cmd.rs): it  *)
(* schedules the end of the server in so many minutes, or calls off a      *)
(* scheduled end when the minutes are negative.                            *)
(*                                                                         *)
(* The command holds the mutex of shutdown_handle twice, to take the old   *)
(* handle and to store the new one, and spawns the task of the new timer   *)
(* in between.  Several deities' commands run on threads of their own and  *)
(* interleave between these steps.  How long a timer sleeps is left open;  *)
(* it wakes at some time.                                                  *)
(***************************************************************************)
EXTENDS Naturals

CONSTANTS Deities,      \* sessions of deities
          None,         \* no handle
          MaxTimers     \* bound on scheduling commands

ASSUME ShutdownAssumption ==
    /\ MaxTimers \in Nat
    /\ None \notin Nat

Timers == 1..MaxTimers

VARIABLES
    handle,      \* shutdown_handle: the timer it can abort, if any
    timer,       \* the spawned tasks
    spawned,     \* how many timers were spawned
    exited,      \* whether the process is gone
    pc,          \* the next step of each deity's command
    mine,        \* the timer a command has spawned
    asked,       \* history: the timer the latest command asked for, if any
    overlapped   \* history: whether a command began while another ran

shutdownVars == <<handle, timer, spawned, exited, pc, mine, asked, overlapped>>

ShutdownTypeOK ==
    /\ handle \in Timers \cup {None}
    /\ timer \in [Timers -> {"unborn", "sleeping", "expired", "aborted"}]
    /\ spawned \in 0..MaxTimers
    /\ exited \in BOOLEAN
    /\ pc \in [Deities -> {"idle", "spawn", "store"}]
    /\ mine \in [Deities -> Timers \cup {None}]
    /\ asked \in Timers \cup {None}
    /\ overlapped \in BOOLEAN

ShutdownInit ==
    /\ handle = None
    /\ timer = [t \in Timers |-> "unborn"]
    /\ spawned = 0
    /\ exited = FALSE
    /\ pc = [d \in Deities |-> "idle"]
    /\ mine = [d \in Deities |-> None]
    /\ asked = None
    /\ overlapped = FALSE

Resting == \A d \in Deities : pc[d] = "idle"
Begin(d) == pc[d] = "idle" /\ overlapped' = (overlapped \/ ~Resting)
GoTo(d, p) == pc' = [pc EXCEPT ![d] = p]

\* AbortHandle::abort ends a task that is asleep.  One that has woken has no
\* further await and goes on to its exit.
AbortTimer ==
    timer' = [t \in Timers |->
                IF t = handle /\ timer[t] = "sleeping" THEN "aborted" ELSE timer[t]]

-----------------------------------------------------------------------------
(* Faulty variants of the definitions below.  Nothing in the specification *)
(* uses them: each stands for a mistake that a property must catch.        *)

\* Rescheduling that forgets the old handle without aborting its timer.
TakeWithoutAbort(d) ==
    /\ Begin(d)
    /\ handle' = None
    /\ GoTo(d, "spawn")
    /\ UNCHANGED <<timer, spawned, exited, mine, asked>>

\* A command that drops the handle of its timer.
StoreNothing(d) ==
    /\ pc[d] = "store"
    /\ GoTo(d, "idle")
    /\ mine' = [mine EXCEPT ![d] = None]
    /\ UNCHANGED <<handle, timer, spawned, exited, asked, overlapped>>

-----------------------------------------------------------------------------
\* "shutdown -1": take the handle and abort its timer, under the mutex.
CallOff(d) ==
    /\ Begin(d)
    /\ AbortTimer
    /\ handle' = None
    /\ asked' = None
    /\ UNCHANGED <<spawned, exited, pc, mine>>

\* "shutdown <minutes>": the same first, for the timer that is pending.
Take(d) ==
    /\ Begin(d)
    /\ spawned < MaxTimers
    /\ AbortTimer
    /\ handle' = None
    /\ GoTo(d, "spawn")
    /\ UNCHANGED <<spawned, exited, mine, asked>>

\* tokio::spawn: from here on the timer runs.
Spawn(d) ==
    /\ pc[d] = "spawn"
    /\ spawned < MaxTimers
    /\ LET t == spawned + 1 IN
        /\ spawned' = t
        /\ timer' = [timer EXCEPT ![t] = "sleeping"]
        /\ mine' = [mine EXCEPT ![d] = t]
        /\ asked' = t
    /\ GoTo(d, "store")
    /\ UNCHANGED <<handle, exited, overlapped>>

\* The second time under the mutex: whatever is there is replaced.
Store(d) ==
    /\ pc[d] = "store"
    /\ handle' = mine[d]
    /\ mine' = [mine EXCEPT ![d] = None]
    /\ GoTo(d, "idle")
    /\ UNCHANGED <<timer, spawned, exited, asked, overlapped>>

\* The task of a timer: the sleep is over, then process::exit.
Expire(t) ==
    /\ timer[t] = "sleeping"
    /\ timer' = [timer EXCEPT ![t] = "expired"]
    /\ UNCHANGED <<handle, spawned, exited, pc, mine, asked, overlapped>>

Exit(t) ==
    /\ timer[t] = "expired"
    /\ exited' = TRUE
    /\ UNCHANGED <<handle, timer, spawned, pc, mine, asked, overlapped>>

Command(d) == CallOff(d) \/ Take(d) \/ Spawn(d) \/ Store(d)
Task(t) == Expire(t) \/ Exit(t)

ShutdownNext ==
    /\ ~exited
    /\ (\E d \in Deities : Command(d)) \/ (\E t \in Timers : Task(t))

ShutdownSpec == ShutdownInit /\ [][ShutdownNext]_shutdownVars

-----------------------------------------------------------------------------
(* Properties *)

\* The handle names a timer that can still end the server: a command never
\* stores or leaves behind the handle of an aborted one, however commands
\* overlap.  This is what lets "shutdown -1" tell whether one was pending.
HandleIsAlive == handle # None => timer[handle] \in {"sleeping", "expired"}

\* And as long as commands do not overlap, the handle reaches every timer that
\* sleeps once the command is over: a pending shutdown can be called off.
PendingCanBeAborted ==
    /\ HandleIsAlive
    /\ ~overlapped /\ Resting =>
        \A t \in Timers : timer[t] = "sleeping" => handle = t

\* As long as commands do not overlap, the timer that runs out is the one
\* the latest command asked for, never one that was replaced or called off.
OnlyLatestExpires ==
    [][~overlapped =>
        \A t \in Timers : timer[t] = "sleeping" /\ timer'[t] = "expired"
            => asked = t]_timer
=============================================================================
