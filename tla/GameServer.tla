----------------------------- MODULE GameServer -----------------------------
(***************************************************************************)
(* The tasks of empire-server that share RwLock<GameState>: the update     *)
(* loop (update.rs), the commands of the players (session.rs), among them  *)
(* "enable", "disable" and "force", and the market loop (marketup.rs).     *)
(*                                                                         *)
(* The game lives in the rows of a SQLite database.  Commands work on      *)
(* single rows: they read one, and later write it back whole, all under    *)
(* the shared lock.  An update reads every row, computes, and writes the   *)
(* rows back one by one under the exclusive lock, without a transaction.   *)
(* A row is abstracted to the last update whose results it carries and a   *)
(* count of the commands whose effect it has.                              *)
(*                                                                         *)
(* The process may stop at any point (the timer of "shutdown" calls exit   *)
(* without taking the lock; the container may be killed) and start again   *)
(* on the rows that were written.                                          *)
(***************************************************************************)
EXTENDS Naturals, Sequences, FiniteSets

CONSTANTS Sessions,      \* playing sessions
          Market,        \* the task of run_market_loop
          Updater,       \* the task of run_update_loop
          NRows,         \* number of rows, numbered in persist order
          AllowForce,    \* config.update.allow_force
          DbErrors,      \* whether calls of the database may fail
          MaxTicks,      \* bound on updates
          MaxWrites,     \* bound on command writes per row
          MaxCrashes     \* bound on crashes

ASSUME GameServerAssumption ==
    /\ Market \notin Sessions
    /\ Updater \notin Sessions \cup {Market}
    /\ NRows \in Nat \ {0}
    /\ AllowForce \in BOOLEAN /\ DbErrors \in BOOLEAN
    /\ MaxTicks \in Nat /\ MaxWrites \in Nat /\ MaxCrashes \in Nat

Readers == Sessions \cup {Market}
Tasks   == Readers \cup {Updater}
Rows    == 1..NRows

Row     == [tick: Nat, writes: Nat]

VARIABLES
    readers,    \* tasks that hold the shared lock
    writing,    \* the update loop holds the exclusive lock
    queue,      \* tasks waiting for the lock, first come first served
    upc,        \* where the update loop is
    next,       \* next row to load or to persist
    image,      \* the rows the update has loaded
    rpc,        \* where each session or the market loop is
    view,       \* the row a command has read, with its number
    enabled,    \* GameState.updates_enabled
    permit,     \* GameState.force_update: a notification is stored
    rows,       \* the database
    tick,       \* update_number, not reset by a restart
    crashes,    \* history: restarts so far
    sinceDisable,   \* history: updates begun since updates were disabled
    owed        \* history: a "force" was accepted, no update begun since

lock    == <<readers, writing, queue>>
flags   == <<enabled, permit>>
history == <<crashes, sinceDisable, owed>>
vars == <<lock, upc, next, image, rpc, view, flags, rows, tick, history>>

NoRow == [row |-> 0]
Views == {NoRow} \cup [row: Rows, val: Row]

TypeOK ==
    /\ readers \subseteq Readers
    /\ writing \in BOOLEAN
    /\ queue \in Seq(Tasks)
    /\ upc \in {"sleep", "awake", "queued", "loading", "reporting", "persisting"}
    /\ next \in Rows
    /\ image \in [Rows -> Row]
    /\ rpc \in [Readers -> {"idle", "queued", "running"}]
    /\ view \in [Readers -> Views]
    /\ enabled \in BOOLEAN
    /\ permit \in BOOLEAN
    /\ rows \in [Rows -> Row]
    /\ tick \in Nat
    /\ crashes \in Nat
    /\ sinceDisable \in Nat
    /\ owed \in BOOLEAN

FreshRows == [r \in Rows |-> [tick |-> 0, writes |-> 0]]

Init ==
    /\ readers = {} /\ writing = FALSE /\ queue = <<>>
    /\ upc = "sleep" /\ next = 1 /\ image = FreshRows
    /\ rpc = [t \in Readers |-> "idle"]
    /\ view = [t \in Readers |-> NoRow]
    /\ enabled = TRUE /\ permit = FALSE
    /\ rows = FreshRows
    /\ tick = 0
    /\ crashes = 0 /\ sinceDisable = 0 /\ owed = FALSE

-----------------------------------------------------------------------------
(* Faulty variants of the definitions below.  Nothing in the specification *)
(* uses them: each stands for a mistake that a property must catch.        *)

\* A lock that prefers readers to a writer that came first.
GrantSharedOvertaking(t) ==
    /\ \E i \in DOMAIN queue : queue[i] = t
    /\ ~writing
    /\ queue' = SelectSeq(queue, LAMBDA u : u # t)
    /\ readers' = readers \cup {t}
    /\ UNCHANGED writing

\* An update that takes the lock in shared mode.
GrantExclusiveShared ==
    /\ queue # <<>> /\ Head(queue) = Updater
    /\ ~writing
    /\ queue' = Tail(queue)
    /\ writing' = TRUE
    /\ UNCHANGED readers

\* A loop that does not look at the flag.
CheckNothing ==
    /\ upc = "awake"
    /\ upc' = "queued"
    /\ queue' = Append(queue, Updater) /\ UNCHANGED <<readers, writing>>
    /\ UNCHANGED <<next, image, rpc, view, flags, rows, tick, history>>

\* An update that persists its tables in the opposite order.
PersistBackwards ==
    LET r == NRows + 1 - next IN
    /\ upc = "persisting"
    /\ rows' = [rows EXCEPT ![r] = [image[r] EXCEPT !.tick = tick]]
    /\ IF next < NRows
         THEN next' = next + 1 /\ UNCHANGED <<upc, lock>>
         ELSE next' = 1 /\ upc' = "sleep" /\ writing' = FALSE
              /\ UNCHANGED <<readers, queue>>
    /\ UNCHANGED <<image, rpc, view, flags, tick, history>>

\* A loop that only starts its sleep again when it is notified.
WakeByTimerOnly ==
    /\ upc = "sleep"
    /\ tick < MaxTicks
    /\ \/ upc' = "awake" /\ UNCHANGED permit
       \/ permit /\ permit' = FALSE /\ UNCHANGED upc
    /\ UNCHANGED <<lock, next, image, rpc, view, enabled, rows, tick, history>>

-----------------------------------------------------------------------------
(* tokio::sync::RwLock: a fair queue of readers and writers.               *)

\* read().await and write().await join the queue.
Request(t) == queue' = Append(queue, t) /\ UNCHANGED <<readers, writing>>

\* The first in the queue gets the lock once nobody excludes it.
GrantShared(t) ==
    /\ queue # <<>> /\ Head(queue) = t
    /\ ~writing
    /\ queue' = Tail(queue)
    /\ readers' = readers \cup {t}
    /\ UNCHANGED writing

GrantExclusive ==
    /\ queue # <<>> /\ Head(queue) = Updater
    /\ ~writing /\ readers = {}
    /\ queue' = Tail(queue)
    /\ writing' = TRUE
    /\ UNCHANGED readers

ReleaseShared(t) == readers' = readers \ {t} /\ UNCHANGED <<writing, queue>>
ReleaseExclusive == writing' = FALSE /\ UNCHANGED <<readers, queue>>

-----------------------------------------------------------------------------
(* The update loop: run_update_loop() and update_main()                    *)

\* The select ends: the timer fires, or the notification is consumed.
Wake ==
    /\ upc = "sleep"
    /\ tick < MaxTicks
    /\ upc' = "awake"
    /\ \/ UNCHANGED permit
       \/ permit /\ permit' = FALSE
    /\ UNCHANGED <<lock, next, image, rpc, view, enabled, rows, tick, history>>

\* The flag is looked at before the lock is asked for.
CheckEnabled ==
    /\ upc = "awake"
    /\ \/ ~enabled /\ upc' = "sleep" /\ UNCHANGED lock
       \/ enabled /\ upc' = "queued" /\ Request(Updater)
    /\ UNCHANGED <<next, image, rpc, view, flags, rows, tick, history>>

\* The exclusive lock is granted and the update gets its number.
BeginUpdate ==
    /\ upc = "queued"
    /\ GrantExclusive
    /\ tick' = tick + 1
    /\ upc' = "loading"
    /\ next' = 1
    /\ sinceDisable' = IF enabled THEN sinceDisable ELSE sinceDisable + 1
    /\ owed' = FALSE
    /\ UNCHANGED <<image, rpc, view, flags, rows, crashes>>

\* get_all of the tables, nations first.
Load ==
    /\ upc = "loading"
    /\ image' = [image EXCEPT ![next] = rows[next]]
    /\ IF next = NRows THEN upc' = "reporting" /\ next' = 1
                       ELSE next' = next + 1 /\ UNCHANGED upc
    /\ UNCHANGED <<lock, rpc, view, flags, rows, tick, history>>

\* send_update_reports, before anything is persisted.
Report ==
    /\ upc = "reporting"
    /\ upc' = "persisting"
    /\ UNCHANGED <<lock, next, image, rpc, view, flags, rows, tick, history>>

\* put of one row: the loaded row with the results of this update.
Persist ==
    /\ upc = "persisting"
    /\ rows' = [rows EXCEPT ![next] = [image[next] EXCEPT !.tick = tick]]
    /\ IF next < NRows
         THEN next' = next + 1 /\ UNCHANGED <<upc, lock>>
         ELSE next' = 1 /\ upc' = "sleep" /\ ReleaseExclusive
    /\ UNCHANGED <<image, rpc, view, flags, tick, history>>

\* A database error ends update_main where it is; the loop goes on.
UpdateError ==
    /\ DbErrors
    /\ upc \in {"loading", "persisting"}
    /\ upc' = "sleep"
    /\ next' = 1
    /\ ReleaseExclusive
    /\ UNCHANGED <<image, rpc, view, flags, rows, tick, history>>

UpdateLoop ==
    \/ Wake \/ CheckEnabled \/ BeginUpdate \/ Load \/ Report \/ Persist
    \/ UpdateError

-----------------------------------------------------------------------------
(* Commands and the market loop                                            *)

\* A command line has arrived, or the ticker of the market loop fires.
Ask(t) ==
    /\ rpc[t] = "idle"
    /\ rpc' = [rpc EXCEPT ![t] = "queued"]
    /\ Request(t)
    /\ UNCHANGED <<upc, next, image, view, flags, rows, tick, history>>

BeginCommand(t) ==
    /\ rpc[t] = "queued"
    /\ GrantShared(t)
    /\ rpc' = [rpc EXCEPT ![t] = "running"]
    /\ UNCHANGED <<upc, next, image, view, flags, rows, tick, history>>

\* A command reads a row it is going to change.
ReadRow(t, r) ==
    /\ rpc[t] = "running" /\ view[t] = NoRow
    /\ rows[r].writes < MaxWrites
    /\ view' = [view EXCEPT ![t] = [row |-> r, val |-> rows[r]]]
    /\ UNCHANGED <<lock, upc, next, image, rpc, flags, rows, tick, history>>

\* put: the whole row as the command read it, with the command's change.
WriteRow(t) ==
    /\ rpc[t] = "running" /\ view[t] # NoRow
    /\ rows' = [rows EXCEPT ![view[t].row] =
                  [view[t].val EXCEPT !.writes = @ + 1]]
    /\ view' = [view EXCEPT ![t] = NoRow]
    /\ UNCHANGED <<lock, upc, next, image, rpc, flags, tick, history>>

\* The command returns; a row that was read but not written is forgotten.
EndCommand(t) ==
    /\ rpc[t] = "running"
    /\ rpc' = [rpc EXCEPT ![t] = "idle"]
    /\ view' = [view EXCEPT ![t] = NoRow]
    /\ ReleaseShared(t)
    /\ UNCHANGED <<upc, next, image, flags, rows, tick, history>>

\* "enable"
Enable(s) ==
    /\ rpc[s] = "running"
    /\ enabled' = TRUE
    /\ sinceDisable' = 0
    /\ UNCHANGED <<lock, upc, next, image, rpc, view, permit, rows, tick,
                   crashes, owed>>

\* "disable"
Disable(s) ==
    /\ rpc[s] = "running"
    /\ enabled' = FALSE
    /\ owed' = FALSE
    /\ UNCHANGED <<lock, upc, next, image, rpc, view, permit, rows, tick,
                   crashes, sinceDisable>>

\* "force" that is accepted: notify_one stores at most one notification.
ForceUpdate(s) ==
    /\ rpc[s] = "running"
    /\ AllowForce
    /\ enabled
    /\ permit' = TRUE
    /\ owed' = TRUE
    /\ UNCHANGED <<lock, upc, next, image, rpc, view, enabled, rows, tick,
                   crashes, sinceDisable>>

-----------------------------------------------------------------------------
\* The process ends between any two statements and is started again: tasks,
\* lock and flags are new, the rows are what was written.
Crash ==
    /\ crashes < MaxCrashes
    /\ crashes' = crashes + 1
    /\ readers' = {} /\ writing' = FALSE /\ queue' = <<>>
    /\ upc' = "sleep" /\ next' = 1
    /\ rpc' = [t \in Readers |-> "idle"]
    /\ view' = [t \in Readers |-> NoRow]
    /\ enabled' = TRUE /\ permit' = FALSE
    /\ sinceDisable' = 0 /\ owed' = FALSE
    /\ UNCHANGED <<image, rows, tick>>

Worker(t) ==
    \/ BeginCommand(t)
    \/ \E r \in Rows : ReadRow(t, r)
    \/ WriteRow(t)
    \/ EndCommand(t)

Next ==
    \/ UpdateLoop
    \/ \E t \in Readers : Ask(t) \/ Worker(t)
    \/ \E s \in Sessions : Enable(s) \/ Disable(s) \/ ForceUpdate(s)
    \/ Crash

Spec == Init /\ [][Next]_vars

\* Tokio polls every task that is ready and time::sleep ends, so the update
\* loop goes on, and a waiting task gets the lock when it is its turn.
\* Every handler returns.  Nobody is obliged to send a command.
FairSpec ==
    /\ Spec
    /\ WF_vars(UpdateLoop)
    /\ \A t \in Readers : WF_vars(BeginCommand(t)) /\ WF_vars(EndCommand(t))

-----------------------------------------------------------------------------
(* Properties *)

\* A row that a command has read belongs to the same update as the row that
\* it is going to replace.
CommandSeesOneUpdate ==
    \A t \in Readers : view[t] # NoRow => rows[view[t].row].tick = view[t].val.tick

\* While an update has loaded a row and not yet written it, nobody writes it.
ImageCurrent ==
    /\ upc = "loading" => \A r \in 1..(next - 1) : image[r] = rows[r]
    /\ upc = "reporting" => image = rows
    /\ upc = "persisting" => \A r \in next..NRows : image[r] = rows[r]

\* An update replaces every row without losing a command's change, and a
\* command never brings back a row from before an update.
NoLostUpdate ==
    [][\A r \in Rows :
        /\ rows'[r].tick >= rows[r].tick
        /\ rows'[r].tick # rows[r].tick => rows'[r].writes = rows[r].writes]_rows

\* Whatever errors and crashes cut updates short, a row carries no older an
\* update than the rows persisted after it: what is missing of an update is
\* a tail of the persist order.
TornUpdateIsPrefix ==
    \A q, r \in Rows : q < r => rows[q].tick >= rows[r].tick

\* After "disable" at most one more update begins, the one that had already
\* found updates enabled, until "enable".
OneUpdateAfterDisable == ~enabled => sinceDisable <= 1

\* An accepted "force" is not lost, even if it comes while an update is
\* running or the loop is about to look at the flag: until an update begins
\* or updates are disabled, the notification is stored or the loop is on its
\* way to an update.
ForceNotLost == owed => permit \/ upc \in {"awake", "queued"}

\* Neither side starves: the fair queue lets the update loop run whatever
\* commands keep coming, and every command gets its turn.
Waits(t) == \E i \in DOMAIN queue : queue[i] = t
LockIsGranted == \A t \in Tasks : Waits(t) ~> ~Waits(t)

\* The rows as they are for everybody but the update that holds the lock: the
\* rows it has persisted so far count from its end.
Settled == [r \in Rows |-> IF upc = "persisting" /\ r < next THEN image[r] ELSE rows[r]]

\* The promise of main.rs and state.rs: updates and commands are serialized.
\* No command begins or ends, reads or puts a row while update_main loads,
\* computes and puts, and what the update put was computed from rows that
\* nobody had changed meanwhile.
Rounds == INSTANCE GameRounds WITH
    round    <- tick,
    updating <- writing,
    active   <- readers,
    held     <- view,
    rows     <- Settled
SerializesUpdates == Rounds!Spec
=============================================================================
