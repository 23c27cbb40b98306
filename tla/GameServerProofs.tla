-------------------------- MODULE GameServerProofs --------------------------
(***************************************************************************)
(* Proofs about module GameServer, for any number of sessions and rows,    *)
(* and whatever the bounds on updates, writes and crashes; about the       *)
(* command that schedules the end of that server, module Shutdown; and     *)
(* about the schedule its update loop sleeps by, module Schedule.          *)
(***************************************************************************)
EXTENDS GameServer, Shutdown, Schedule, SetLemmas, SequenceTheorems

USE DEF Readers, Tasks, Rows

\* Steps that concern a reader, and those that only change the flags.
Flag(s) == Enable(s) \/ Disable(s) \/ ForceUpdate(s)

-----------------------------------------------------------------------------
(* Typing *)

\* TypeOK in two parts: the variables that are TRUE or FALSE, and the others.
Booleans ==
    writing \in BOOLEAN /\ enabled \in BOOLEAN /\ permit \in BOOLEAN /\ owed \in BOOLEAN

Shapes ==
    /\ readers \subseteq Readers
    /\ queue \in Seq(Tasks)
    /\ upc \in {"sleep", "awake", "queued", "loading", "reporting", "persisting"}
    /\ next \in Rows
    /\ image \in [Rows -> Row]
    /\ rpc \in [Readers -> {"idle", "queued", "running"}]
    /\ view \in [Readers -> Views]
    /\ rows \in [Rows -> Row]
    /\ tick \in Nat
    /\ crashes \in Nat
    /\ sinceDisable \in Nat

LEMMA TypeParts == TypeOK <=> Booleans /\ Shapes
BY Zenon DEF TypeOK, Booleans, Shapes

LEMMA TypeInit == Init => TypeOK
<1>1. Init => Booleans
  BY DEF Init, Booleans
<1>2. Init => Shapes
  BY GameServerAssumption DEF Init, Shapes, FreshRows, Views, Row
<1> QED
  BY <1>1, <1>2, TypeParts

LEMMA BooleansStep == Booleans /\ [Next]_vars => Booleans'
<1> SUFFICES ASSUME Booleans, [Next]_vars PROVE Booleans'
  OBVIOUS
<1> USE DEF Booleans, lock, flags, history
<1>1. CASE UNCHANGED vars
  BY <1>1 DEF vars
<1>2. CASE Wake \/ CheckEnabled
  BY <1>2 DEF Wake, CheckEnabled, Request
<1>3. CASE BeginUpdate
  BY <1>3 DEF BeginUpdate, GrantExclusive
<1>4. CASE Load \/ Report
  BY <1>4 DEF Load, Report
<1>5. CASE Persist \/ UpdateError
  BY <1>5 DEF Persist, UpdateError, ReleaseExclusive
<1>6. ASSUME NEW t \in Readers, Ask(t)
      PROVE  Booleans'
  BY <1>6 DEF Ask, Request
<1>7. ASSUME NEW t \in Readers, BeginCommand(t)
      PROVE  Booleans'
  BY <1>7 DEF BeginCommand, GrantShared
<1>8. ASSUME NEW t \in Readers, WriteRow(t) \/ \E r \in Rows : ReadRow(t, r)
      PROVE  Booleans'
  BY <1>8 DEF WriteRow, ReadRow
<1>9. ASSUME NEW t \in Readers, EndCommand(t)
      PROVE  Booleans'
  BY <1>9 DEF EndCommand, ReleaseShared
<1>10. ASSUME NEW s \in Sessions, Flag(s)
       PROVE  Booleans'
  BY <1>10 DEF Flag, Enable, Disable, ForceUpdate
<1>11. CASE Crash
  BY <1>11 DEF Crash
<1> QED
  BY <1>1, <1>2, <1>3, <1>4, <1>5, <1>6, <1>7, <1>8, <1>9, <1>10, <1>11
  DEF Next, UpdateLoop, Worker, Flag

\* What a command and what an update make of a row is a row.
LEMMA RowChanged ==
    \A v \in Row :
        /\ [v EXCEPT !.writes = @ + 1] \in Row
        /\ \A n \in Nat : [v EXCEPT !.tick = n] \in Row
BY DEF Row

LEMMA ShapesUpdateLoop == Shapes /\ UpdateLoop => Shapes'
<1> SUFFICES ASSUME Shapes, UpdateLoop PROVE Shapes'
  OBVIOUS
<1> USE GameServerAssumption DEF Shapes, lock, flags, history
<1>1. CASE Wake
  BY <1>1 DEF Wake
<1>2. CASE CheckEnabled
  <2>1. queue' = queue \/ queue' = Append(queue, Updater)
    BY <1>2, Zenon DEF CheckEnabled, Request
  <2>2. upc' \in {"sleep", "queued"}
    BY <1>2, Zenon DEF CheckEnabled
  <2>3. UNCHANGED <<readers, next, image, rpc, view, rows, tick, history>>
    BY <1>2, Zenon DEF CheckEnabled, Request
  <2> QED
    BY <2>1, <2>2, <2>3
<1>3. CASE BeginUpdate
  BY <1>3 DEF BeginUpdate, GrantExclusive
<1>4. CASE Load
  BY <1>4 DEF Load
<1>5. CASE Report
  BY <1>5 DEF Report
<1>6. CASE Persist
  <2>1. rows' \in [Rows -> Row]
    BY <1>6 DEF Persist, Row
  <2> QED
    BY <1>6, <2>1 DEF Persist, ReleaseExclusive
<1>7. CASE UpdateError
  BY <1>7 DEF UpdateError, ReleaseExclusive
<1> QED
  BY <1>1, <1>2, <1>3, <1>4, <1>5, <1>6, <1>7 DEF UpdateLoop

LEMMA ShapesReader ==
    ASSUME Shapes, NEW t \in Readers, Ask(t) \/ Worker(t)
    PROVE  Shapes'
<1> USE GameServerAssumption DEF Shapes, lock, flags, history
<1>1. CASE Ask(t)
  BY <1>1 DEF Ask, Request
<1>2. CASE BeginCommand(t)
  BY <1>2 DEF BeginCommand, GrantShared
<1>3. ASSUME NEW r \in Rows, ReadRow(t, r)
      PROVE  Shapes'
  BY <1>3 DEF ReadRow, Views
<1>4. CASE WriteRow(t)
  <2>1. view[t].row \in Rows /\ view[t].val \in Row
    BY <1>4 DEF WriteRow, Views
  <2>2. [view[t].val EXCEPT !.writes = @ + 1] \in Row
    BY <2>1, RowChanged
  <2> QED
    BY <1>4, <2>1, <2>2 DEF WriteRow, Views
<1>5. CASE EndCommand(t)
  BY <1>5 DEF EndCommand, ReleaseShared, Views
<1> QED
  BY <1>1, <1>2, <1>3, <1>4, <1>5 DEF Worker

LEMMA ShapesStep == Shapes /\ [Next]_vars => Shapes'
<1> SUFFICES ASSUME Shapes, [Next]_vars PROVE Shapes'
  OBVIOUS
<1>1. CASE UNCHANGED vars
  BY <1>1 DEF vars, lock, flags, history, Shapes
<1>2. ASSUME NEW s \in Sessions, Flag(s)
      PROVE  Shapes'
  BY <1>2 DEF Flag, Enable, Disable, ForceUpdate, lock, Shapes
<1>3. CASE Crash
  BY <1>3, GameServerAssumption DEF Crash, Shapes, Views
<1> QED
  BY <1>1, <1>2, <1>3, ShapesUpdateLoop, ShapesReader DEF Next, Flag

LEMMA TypeStep == TypeOK /\ [Next]_vars => TypeOK'
<1>1. TypeOK' <=> Booleans' /\ Shapes'
  BY Zenon DEF TypeOK, Booleans, Shapes
<1> QED
  BY <1>1, TypeParts, BooleansStep, ShapesStep

\* Types hold in every reachable state of the server.
THEOREM TypeCorrect == Spec => []TypeOK
BY TypeInit, TypeStep, PTL DEF Spec

-----------------------------------------------------------------------------
(* The lock *)

\* No command runs during an update; and who holds the lock is where the
\* lock says, so no task can keep it by ending early.
LockHeldByWorkers ==
    /\ readers = {t \in Readers : rpc[t] = "running"}
    /\ writing <=> upc \in {"loading", "reporting", "persisting"}
    /\ writing => readers = {}

LEMMA LockInit == Init => LockHeldByWorkers
BY DEF Init, LockHeldByWorkers

LEMMA LockStep == TypeOK /\ LockHeldByWorkers /\ [Next]_vars => LockHeldByWorkers'
<1> SUFFICES ASSUME TypeOK, LockHeldByWorkers, [Next]_vars PROVE LockHeldByWorkers'
  OBVIOUS
<1> USE GameServerAssumption DEF TypeOK, LockHeldByWorkers, lock, flags, history
<1>1. CASE UNCHANGED vars
  BY <1>1 DEF vars
<1>2. CASE Wake \/ CheckEnabled
  BY <1>2 DEF Wake, CheckEnabled, Request
<1>3. CASE BeginUpdate
  BY <1>3 DEF BeginUpdate, GrantExclusive
<1>4. CASE Load \/ Report
  BY <1>4 DEF Load, Report
<1>5. CASE Persist \/ UpdateError
  BY <1>5 DEF Persist, UpdateError, ReleaseExclusive
<1>6. ASSUME NEW t \in Readers, Ask(t)
      PROVE  LockHeldByWorkers'
  BY <1>6 DEF Ask, Request
<1>7. ASSUME NEW t \in Readers, BeginCommand(t)
      PROVE  LockHeldByWorkers'
  BY <1>7 DEF BeginCommand, GrantShared
<1>8. ASSUME NEW t \in Readers, WriteRow(t) \/ \E r \in Rows : ReadRow(t, r)
      PROVE  LockHeldByWorkers'
  BY <1>8 DEF WriteRow, ReadRow
<1>9. ASSUME NEW t \in Readers, EndCommand(t)
      PROVE  LockHeldByWorkers'
  BY <1>9 DEF EndCommand, ReleaseShared
<1>10. ASSUME NEW s \in Sessions, Flag(s)
       PROVE  LockHeldByWorkers'
  BY <1>10 DEF Flag, Enable, Disable, ForceUpdate
<1>11. CASE Crash
  BY <1>11 DEF Crash
<1> QED
  BY <1>1, <1>2, <1>3, <1>4, <1>5, <1>6, <1>7, <1>8, <1>9, <1>10, <1>11
  DEF Next, UpdateLoop, Worker, Flag

\* The lock is where the tasks that work are, in every path through them.
THEOREM LockIsHeldByWorkers == Spec => []LockHeldByWorkers
BY TypeInit, TypeStep, LockInit, LockStep, PTL DEF Spec

-----------------------------------------------------------------------------
(***************************************************************************)
(* Rows.  A command that has read a row is running, so no update writes it *)
(* meanwhile; an update that has loaded a row holds the lock, so that no   *)
(* command writes it.                                                      *)
(***************************************************************************)

ViewsCurrent ==
    \A t \in Readers : view[t] # NoRow =>
        /\ rpc[t] = "running"
        /\ rows[view[t].row].tick = view[t].val.tick

\* Rows carry updates that have begun; the update that persists has written
\* the rows before next.
RowsTicked ==
    /\ \A r \in Rows : rows[r].tick <= tick
    /\ upc = "reporting" => next = 1
    /\ upc = "persisting" => \A r \in 1..(next - 1) : rows[r].tick = tick

Typed == TypeOK /\ LockHeldByWorkers
RowInv == ViewsCurrent /\ RowsTicked /\ ImageCurrent

\* What a task reads from a well-typed state.
LEMMA Reads ==
    ASSUME TypeOK
    PROVE  /\ \A r \in Rows : rows[r] \in Row /\ rows[r].tick \in Nat
           /\ \A r \in Rows : image[r] \in Row /\ image[r].tick \in Nat
           /\ \A t \in Readers : view[t] # NoRow =>
                  /\ view[t].row \in Rows
                  /\ view[t].val \in Row
                  /\ view[t].val.tick \in Nat
BY TypeParts DEF Shapes, Views, Row

\* The row that a command writes keeps its tick, and no other row changes.
LEMMA WriteRowKeepsTicks ==
    ASSUME TypeOK, ViewsCurrent, NEW t \in Readers, WriteRow(t)
    PROVE  \A r \in Rows : rows'[r].tick = rows[r].tick
<1>1. [view[t].val EXCEPT !.writes = @ + 1].tick = view[t].val.tick
  BY Reads DEF WriteRow, Row
<1>2. rows[view[t].row].tick = view[t].val.tick
  BY DEF WriteRow, ViewsCurrent
<1> QED
  BY <1>1, <1>2, Reads, TypeParts DEF WriteRow, Shapes

\* put of the update: one row, which keeps its writes.
LEMMA PersistWrites ==
    ASSUME Typed, ImageCurrent, Persist
    PROVE  /\ rows'[next].tick = tick
           /\ rows'[next].writes = rows[next].writes
           /\ \A r \in Rows : r # next => rows'[r] = rows[r]
<1>1. next \in Rows /\ rows \in [Rows -> Row] /\ next \in next..NRows
  BY TypeParts, GameServerAssumption DEF Typed, Shapes
<1>2. image[next] = rows[next]
  BY <1>1 DEF ImageCurrent, Persist
<1>3. /\ [image[next] EXCEPT !.tick = tick].tick = tick
      /\ [image[next] EXCEPT !.tick = tick].writes = image[next].writes
  BY <1>1, Reads DEF Typed, Row
<1> QED
  BY <1>1, <1>2, <1>3 DEF Persist

LEMMA RowInit == Init => RowInv
BY GameServerAssumption
DEF Init, RowInv, ViewsCurrent, RowsTicked, ImageCurrent, FreshRows

\* Steps that leave the rows, the update and its number alone.
LEMMA UpdateUndisturbed ==
    ASSUME RowsTicked, ImageCurrent, UNCHANGED <<rows, image, tick, next>>,
           upc' = upc \/ upc' \in {"sleep", "awake", "queued"}
    PROVE  RowsTicked' /\ ImageCurrent'
BY DEF RowsTicked, ImageCurrent

LEMMA ViewsStep == Typed /\ RowInv /\ [Next]_vars => ViewsCurrent'
<1> SUFFICES ASSUME Typed, RowInv, [Next]_vars PROVE ViewsCurrent'
  OBVIOUS
<1>0. rpc \in [Readers -> {"idle", "queued", "running"}]
      /\ view \in [Readers -> Views] /\ rows \in [Rows -> Row]
  BY TypeParts DEF Typed, Shapes
<1> USE DEF RowInv, ViewsCurrent, lock, flags, history
<1>1. CASE UNCHANGED <<rows, view, rpc>>
  BY <1>1
<1>2. CASE Wake \/ CheckEnabled \/ BeginUpdate \/ Load \/ Report \/ UpdateError
  BY <1>1, <1>2 DEF Wake, CheckEnabled, BeginUpdate, Load, Report, UpdateError
<1>3. CASE Persist
  <2>1. \A t \in Readers : view[t] = NoRow
    BY <1>3 DEF Persist, Typed, LockHeldByWorkers
  <2> QED
    BY <1>3, <2>1 DEF Persist
<1>4. ASSUME NEW t \in Readers, Ask(t) \/ BeginCommand(t) \/ EndCommand(t)
      PROVE  ViewsCurrent'
  BY <1>0, <1>4 DEF Ask, BeginCommand, EndCommand
<1>5. ASSUME NEW t \in Readers, NEW r \in Rows, ReadRow(t, r)
      PROVE  ViewsCurrent'
  BY <1>0, <1>5 DEF ReadRow
<1>6. ASSUME NEW t \in Readers, WriteRow(t)
      PROVE  ViewsCurrent'
  <2>1. \A r \in Rows : rows'[r].tick = rows[r].tick
    BY <1>6, WriteRowKeepsTicks DEF Typed
  <2>2. \A u \in Readers : view[u] # NoRow => view[u].row \in Rows
    BY Reads DEF Typed
  <2> QED
    BY <1>0, <1>6, <2>1, <2>2 DEF WriteRow
<1>7. ASSUME NEW s \in Sessions, Flag(s)
      PROVE  ViewsCurrent'
  BY <1>1, <1>7 DEF Flag, Enable, Disable, ForceUpdate
<1>8. CASE Crash
  BY <1>8 DEF Crash
<1> QED
  BY <1>1, <1>2, <1>3, <1>4, <1>5, <1>6, <1>7, <1>8
  DEF Next, UpdateLoop, Worker, Flag, vars

LEMMA TicksStep == Typed /\ RowInv /\ [Next]_vars => RowsTicked' /\ ImageCurrent'
<1> SUFFICES ASSUME Typed, RowInv, [Next]_vars PROVE RowsTicked' /\ ImageCurrent'
  OBVIOUS
<1>0. /\ next \in Rows /\ tick \in Nat
      /\ rows \in [Rows -> Row] /\ image \in [Rows -> Row]
      /\ \A r \in Rows : rows[r].tick \in Nat
  BY TypeParts, Reads DEF Typed, Shapes
<1> USE GameServerAssumption DEF RowInv, lock, flags, history
<1>1. CASE UNCHANGED vars
  BY <1>1 DEF vars, RowsTicked, ImageCurrent
<1>2. CASE Wake \/ CheckEnabled
  BY <1>2, UpdateUndisturbed DEF Wake, CheckEnabled
<1>3. CASE BeginUpdate
  BY <1>0, <1>3 DEF BeginUpdate, RowsTicked, ImageCurrent
<1>4. CASE Load
  <2>1. /\ image'[next] = rows[next]
        /\ \A r \in Rows : r # next => image'[r] = image[r]
    BY <1>0, <1>4 DEF Load
  <2>2. UNCHANGED <<rows, tick>> /\ upc = "loading"
    BY <1>4 DEF Load
  <2>3. RowsTicked'
    BY <1>4, <2>2 DEF Load, RowsTicked
  <2>4. \A r \in 1..next : image'[r] = rows[r]
    BY <1>0, <2>1, <2>2 DEF ImageCurrent
  <2>5. CASE next = NRows
    <3>1. image' \in [Rows -> Row] /\ image' = rows
      BY <1>0, <1>4, <2>4, <2>5 DEF Load
    <3> QED
      BY <1>4, <2>2, <2>3, <2>5, <3>1 DEF Load, ImageCurrent
  <2>6. CASE next # NRows
    BY <1>0, <1>4, <2>2, <2>3, <2>4, <2>6 DEF Load, ImageCurrent
  <2> QED
    BY <2>5, <2>6
<1>5. CASE Report
  BY <1>0, <1>5 DEF Report, RowsTicked, ImageCurrent
<1>6. CASE Persist
  <2>1. /\ rows'[next].tick = tick
        /\ \A r \in Rows : r # next => rows'[r] = rows[r]
    BY <1>6, PersistWrites
  <2>2. UNCHANGED <<image, tick>> /\ upc = "persisting"
    BY <1>6 DEF Persist
  <2>3. RowsTicked'
    BY <1>0, <1>6, <2>1, <2>2 DEF Persist, RowsTicked
  <2>4. ImageCurrent'
    BY <1>0, <1>6, <2>1, <2>2 DEF Persist, ImageCurrent
  <2> QED
    BY <2>3, <2>4
<1>7. CASE UpdateError
  BY <1>7 DEF UpdateError, RowsTicked, ImageCurrent
<1>8. ASSUME NEW t \in Readers,
             Ask(t) \/ BeginCommand(t) \/ EndCommand(t) \/ \E r \in Rows : ReadRow(t, r)
      PROVE  RowsTicked' /\ ImageCurrent'
  BY <1>8, UpdateUndisturbed DEF Ask, BeginCommand, EndCommand, ReadRow
<1>9. ASSUME NEW t \in Readers, WriteRow(t)
      PROVE  RowsTicked' /\ ImageCurrent'
  <2>1. \A r \in Rows : rows'[r].tick = rows[r].tick
    BY <1>9, WriteRowKeepsTicks DEF Typed
  <2>2. upc \notin {"loading", "reporting", "persisting"}
    BY <1>9 DEF WriteRow, Typed, LockHeldByWorkers
  <2> QED
    BY <1>0, <1>9, <2>1, <2>2 DEF WriteRow, RowsTicked, ImageCurrent
<1>10. ASSUME NEW s \in Sessions, Flag(s)
       PROVE  RowsTicked' /\ ImageCurrent'
  BY <1>10, UpdateUndisturbed DEF Flag, Enable, Disable, ForceUpdate
<1>11. CASE Crash
  BY <1>11 DEF Crash, RowsTicked, ImageCurrent
<1> QED
  BY <1>1, <1>2, <1>3, <1>4, <1>5, <1>6, <1>7, <1>8, <1>9, <1>10, <1>11
  DEF Next, UpdateLoop, Worker, Flag

LEMMA RowInvariant == Spec => [](Typed /\ RowInv)
<1>1. Typed /\ RowInv /\ [Next]_vars => (Typed /\ RowInv)'
  BY TypeStep, LockStep, ViewsStep, TicksStep DEF Typed, RowInv
<1>2. Init => Typed /\ RowInv
  BY TypeInit, LockInit, RowInit DEF Typed
<1> QED
  BY <1>1, <1>2, PTL DEF Spec

\* While an update is between loading and writing a row, nobody changes it.
THEOREM ImageIsCurrent == Spec => []ImageCurrent
BY RowInvariant, PTL DEF RowInv

\* What a command read and what it replaces belong to the same update.
THEOREM CommandsSeeOneUpdate == Spec => []CommandSeesOneUpdate
<1>1. RowInv => CommandSeesOneUpdate
  BY DEF RowInv, ViewsCurrent, CommandSeesOneUpdate
<1> QED
  BY <1>1, RowInvariant, PTL

\* Updates and commands do not lose each other's changes of a row.
THEOREM NoUpdateIsLost == Spec => NoLostUpdate
<1>1. ASSUME Typed, RowInv, [Next]_vars, NEW r \in Rows
      PROVE  /\ rows'[r].tick >= rows[r].tick
             /\ rows'[r].tick # rows[r].tick => rows'[r].writes = rows[r].writes
  <2>0. rows[r].tick \in Nat /\ tick \in Nat /\ rows[r].tick <= tick
    BY <1>1, Reads, TypeParts DEF Typed, RowInv, RowsTicked, Shapes
  <2>1. CASE Persist
    BY <1>1, <2>0, <2>1, PersistWrites DEF RowInv
  <2>2. ASSUME NEW t \in Readers, WriteRow(t)
        PROVE  rows'[r].tick = rows[r].tick
    BY <1>1, <2>2, WriteRowKeepsTicks DEF Typed, RowInv
  <2>3. rows' = rows \/ Persist \/ \E t \in Readers : WriteRow(t)
    BY <1>1 DEF Next, vars, UpdateLoop, Worker, Wake, CheckEnabled, BeginUpdate, Load,
               Report, UpdateError, Ask, BeginCommand, ReadRow, EndCommand, Enable,
               Disable, ForceUpdate, Crash
  <2> QED
    BY <2>0, <2>1, <2>2, <2>3
<1>2. Typed /\ RowInv /\ [Next]_vars
        => [\A r \in Rows :
              /\ rows'[r].tick >= rows[r].tick
              /\ rows'[r].tick # rows[r].tick => rows'[r].writes = rows[r].writes]_rows
  BY <1>1
<1> QED
  BY <1>2, RowInvariant, PTL DEF Spec, NoLostUpdate

-----------------------------------------------------------------------------
(***************************************************************************)
(* Interrupted updates.                                                    *)
(***************************************************************************)

LEMMA TornInit == Init => TornUpdateIsPrefix
BY DEF Init, TornUpdateIsPrefix, FreshRows

LEMMA TornStep ==
    Typed /\ RowInv /\ TornUpdateIsPrefix /\ [Next]_vars => TornUpdateIsPrefix'
<1> SUFFICES ASSUME Typed, RowInv, TornUpdateIsPrefix, [Next]_vars
             PROVE  TornUpdateIsPrefix'
  OBVIOUS
<1>0. /\ next \in Rows /\ tick \in Nat
      /\ rows \in [Rows -> Row]
      /\ \A r \in Rows : rows[r].tick \in Nat
  BY TypeParts, Reads DEF Typed, Shapes
<1> USE GameServerAssumption
    DEF TornUpdateIsPrefix, lock, flags, history
<1>1. CASE UNCHANGED vars
  BY <1>1 DEF vars
<1>2. CASE Wake \/ CheckEnabled \/ BeginUpdate \/ Load \/ UpdateError
  BY <1>2 DEF Wake, CheckEnabled, BeginUpdate, Load, UpdateError
<1>3. CASE Report
  BY <1>3 DEF Report
<1>4. CASE Persist
  <2>1. /\ rows'[next].tick = tick
        /\ \A r \in Rows : r # next => rows'[r] = rows[r]
    BY <1>4, PersistWrites DEF RowInv
  <2>2. /\ \A r \in 1..(next - 1) : rows[r].tick = tick
        /\ \A r \in Rows : rows[r].tick <= tick
    BY <1>4 DEF Persist, RowInv, RowsTicked
  <2> QED
    BY <1>0, <2>1, <2>2
<1>5. ASSUME NEW t \in Readers,
             Ask(t) \/ BeginCommand(t) \/ EndCommand(t) \/ \E r \in Rows : ReadRow(t, r)
      PROVE  TornUpdateIsPrefix'
  BY <1>5 DEF Ask, BeginCommand, EndCommand, ReadRow
<1>6. ASSUME NEW t \in Readers, WriteRow(t)
      PROVE  TornUpdateIsPrefix'
  <2>1. \A r \in Rows : rows'[r].tick = rows[r].tick
    BY <1>6, WriteRowKeepsTicks DEF Typed, RowInv
  <2> QED
    BY <1>6, <2>1 DEF WriteRow
<1>7. ASSUME NEW s \in Sessions, Flag(s)
      PROVE  TornUpdateIsPrefix'
  BY <1>7 DEF Flag, Enable, Disable, ForceUpdate
<1>8. CASE Crash
  BY <1>8 DEF Crash
<1> QED
  BY <1>1, <1>2, <1>3, <1>4, <1>5, <1>6, <1>7, <1>8 DEF Next, UpdateLoop, Worker, Flag

\* Whatever cuts updates short, what is missing of them is a tail of the
\* order in which update_main persists.
THEOREM TornUpdatesArePrefixes == Spec => []TornUpdateIsPrefix
BY RowInvariant, TornInit, TornStep, PTL DEF Spec

-----------------------------------------------------------------------------
(***************************************************************************)
(* "disable" and "force"                                                   *)
(***************************************************************************)

\* The flag is looked at before the lock is asked for: the update that is
\* then in the queue is the one that may begin after "disable".
DisableInv ==
    /\ sinceDisable <= 1
    /\ enabled \/ upc = "queued" => sinceDisable = 0

LEMMA DisableInit == Init => DisableInv
BY DEF Init, DisableInv

LEMMA DisableStep == TypeOK /\ DisableInv /\ [Next]_vars => DisableInv'
<1> SUFFICES ASSUME TypeOK, DisableInv, [Next]_vars PROVE DisableInv'
  OBVIOUS
<1> USE DEF DisableInv, lock, flags, history
<1>0. sinceDisable \in Nat
  BY TypeParts DEF Shapes
<1>1. CASE UNCHANGED vars
  BY <1>1 DEF vars
<1>2. CASE Wake \/ CheckEnabled
  BY <1>2 DEF Wake, CheckEnabled
<1>3. CASE BeginUpdate
  BY <1>0, <1>3 DEF BeginUpdate
<1>4. CASE Load \/ Report \/ Persist \/ UpdateError
  BY <1>4 DEF Load, Report, Persist, UpdateError
<1>5. ASSUME NEW t \in Readers, Ask(t) \/ Worker(t)
      PROVE  DisableInv'
  BY <1>5 DEF Worker, Ask, BeginCommand, EndCommand, ReadRow, WriteRow
<1>6. ASSUME NEW s \in Sessions, Flag(s)
      PROVE  DisableInv'
  BY <1>6 DEF Flag, Enable, Disable, ForceUpdate
<1>7. CASE Crash
  BY <1>7 DEF Crash
<1> QED
  BY <1>1, <1>2, <1>3, <1>4, <1>5, <1>6, <1>7 DEF Next, UpdateLoop, Flag

\* At most the update that had found updates enabled begins after "disable".
THEOREM OneUpdateAfterDisabling == Spec => []OneUpdateAfterDisable
<1>1. DisableInv => OneUpdateAfterDisable
  BY DEF DisableInv, OneUpdateAfterDisable
<1> QED
  BY <1>1, TypeInit, TypeStep, DisableInit, DisableStep, PTL DEF Spec

\* "force" is refused while updates are disabled, and "disable" cancels it.
ForceInv == ForceNotLost /\ (owed => enabled)

LEMMA ForceInit == Init => ForceInv
BY DEF Init, ForceInv, ForceNotLost

LEMMA ForceStep == ForceInv /\ [Next]_vars => ForceInv'
<1> SUFFICES ASSUME ForceInv, [Next]_vars PROVE ForceInv'
  OBVIOUS
<1> USE DEF ForceInv, ForceNotLost, lock, flags, history
<1>1. CASE UNCHANGED vars
  BY <1>1 DEF vars
<1>2. CASE Wake
  BY <1>2 DEF Wake
<1>3. CASE CheckEnabled
  BY <1>3 DEF CheckEnabled
<1>4. CASE BeginUpdate
  BY <1>4 DEF BeginUpdate
<1>5. CASE Load \/ Report \/ Persist \/ UpdateError
  BY <1>5 DEF Load, Report, Persist, UpdateError
<1>6. ASSUME NEW t \in Readers, Ask(t) \/ Worker(t)
      PROVE  ForceInv'
  BY <1>6 DEF Worker, Ask, BeginCommand, EndCommand, ReadRow, WriteRow
<1>7. ASSUME NEW s \in Sessions, Flag(s)
      PROVE  ForceInv'
  BY <1>7 DEF Flag, Enable, Disable, ForceUpdate
<1>8. CASE Crash
  BY <1>8 DEF Crash
<1> QED
  BY <1>1, <1>2, <1>3, <1>4, <1>5, <1>6, <1>7, <1>8 DEF Next, UpdateLoop, Flag

\* An accepted "force" stays until an update begins or "disable": Notify
\* stores it while the update loop is busy.
THEOREM ForceIsNotLost == Spec => []ForceNotLost
BY ForceInit, ForceStep, PTL DEF Spec, ForceInv

-----------------------------------------------------------------------------
(***************************************************************************)
(* The server implements GameRounds.                                       *)
(***************************************************************************)

\* A row with the number of an update.
Ticked(v, n) == [v EXCEPT !.tick = n]

\* What the update that persists has put is what it loaded, with its number.
Persisted ==
    upc = "persisting" => \A r \in 1..(next - 1) : rows[r] = Ticked(image[r], tick)

LEMMA PersistedStep == Typed /\ RowInv /\ Persisted /\ [Next]_vars => Persisted'
<1> SUFFICES ASSUME Typed, RowInv, Persisted, [Next]_vars PROVE Persisted'
  OBVIOUS
<1>0. next \in Rows /\ rows \in [Rows -> Row] /\ image \in [Rows -> Row]
  BY TypeParts DEF Typed, Shapes
<1> USE GameServerAssumption DEF lock, flags, history
<1>1. CASE UNCHANGED <<rows, image, tick, next, upc>>
  BY <1>1 DEF Persisted
<1>2. CASE Wake \/ CheckEnabled \/ BeginUpdate \/ Load \/ UpdateError \/ Crash
  BY <1>2 DEF Wake, CheckEnabled, BeginUpdate, Load, UpdateError, Crash, Persisted
<1>3. CASE Report
  <2>1. next' = 1
    BY <1>3 DEF Report, RowInv, RowsTicked
  <2> QED
    BY <2>1 DEF Persisted
<1>4. CASE Persist
  <2>1. /\ rows' = [rows EXCEPT ![next] = Ticked(image[next], tick)]
        /\ UNCHANGED <<image, tick>> /\ upc = "persisting"
        /\ upc' = "persisting" => next' = next + 1
    BY <1>4 DEF Persist, Ticked
  <2>2. /\ rows'[next] = Ticked(image[next], tick)
        /\ \A r \in Rows : r # next => rows'[r] = rows[r]
    BY <1>0, <2>1
  <2> QED
    BY <1>0, <2>1, <2>2 DEF Persisted
<1>5. ASSUME NEW t \in Readers,
             Ask(t) \/ BeginCommand(t) \/ EndCommand(t) \/ \E r \in Rows : ReadRow(t, r)
      PROVE  Persisted'
  BY <1>1, <1>5 DEF Ask, BeginCommand, EndCommand, ReadRow
<1>6. ASSUME NEW t \in Readers, WriteRow(t)
      PROVE  Persisted'
  <2>1. upc' # "persisting"
    BY <1>6 DEF WriteRow, Typed, LockHeldByWorkers
  <2> QED
    BY <2>1 DEF Persisted
<1>7. ASSUME NEW s \in Sessions, Flag(s)
      PROVE  Persisted'
  BY <1>1, <1>7 DEF Flag, Enable, Disable, ForceUpdate
<1> QED
  BY <1>1, <1>2, <1>3, <1>4, <1>5, <1>6, <1>7 DEF Next, UpdateLoop, Worker, Flag, vars

LEMMA RoundsInit == Init => Rounds!Init /\ Persisted
BY GameServerAssumption
DEF Init, Rounds!Init, Persisted, Settled, FreshRows, NoRow, Rounds!NoRow

\* Outside the puts of an update the rows are what everybody may see.
LEMMA SettledIsRows ==
    ASSUME rows \in [Rows -> Row], upc # "persisting"
    PROVE  Settled = rows
BY DEF Settled

LEMMA UpdatedRows ==
    \A k : Rounds!Updated(k) =
        [r \in Rows |-> IF r <= k THEN Ticked(Settled[r], tick) ELSE Settled[r]]
BY DEF Rounds!Updated, Ticked

\* An update that ends before its next put has replaced the rows before it.
LEMMA CutShort ==
    ASSUME Typed, RowInv, Persisted, upc = "persisting"
    PROVE  rows = Rounds!Updated(next - 1)
<1>1. next \in Rows /\ rows \in [Rows -> Row] /\ image \in [Rows -> Row]
  BY TypeParts DEF Typed, Shapes
<1>2. \A r \in Rows :
        rows[r] = IF r <= next - 1 THEN Ticked(Settled[r], tick) ELSE Settled[r]
  BY <1>1, GameServerAssumption DEF Persisted, Settled
<1> QED
  BY <1>1, <1>2, UpdatedRows

LEMMA AllPut ==
    ASSUME Typed, RowInv, Persisted, Persist, next = NRows
    PROVE  rows' = Rounds!Updated(NRows)
<1>1. next \in Rows /\ rows \in [Rows -> Row] /\ image \in [Rows -> Row]
  BY TypeParts DEF Typed, Shapes
<1>2. upc = "persisting" /\ image[next] = rows[next]
      /\ rows' = [rows EXCEPT ![next] = Ticked(image[next], tick)]
  BY <1>1, GameServerAssumption DEF Persist, RowInv, ImageCurrent, Ticked
<1>3. \A r \in Rows : Settled[r] = image[r]
  BY <1>1, <1>2, GameServerAssumption DEF Settled
<1>4. \A r \in Rows : rows'[r] = Ticked(Settled[r], tick)
  BY <1>1, <1>2, <1>3, GameServerAssumption DEF Persisted
<1> QED
  BY <1>1, <1>2, <1>4, UpdatedRows, GameServerAssumption

\* A put in the middle of an update is not seen.
LEMMA PutUnseen ==
    ASSUME Typed, RowInv, Persist, next < NRows
    PROVE  Settled' = Settled
<1>1. next \in Rows /\ rows \in [Rows -> Row] /\ image \in [Rows -> Row]
  BY TypeParts DEF Typed, Shapes
<1>2. upc = "persisting" /\ image[next] = rows[next]
  BY <1>1, GameServerAssumption DEF Persist, RowInv, ImageCurrent
<1>3. /\ rows' = [rows EXCEPT ![next] = [image[next] EXCEPT !.tick = tick]]
      /\ upc' = "persisting" /\ image' = image /\ next' = next + 1
  BY <1>1, <1>2, GameServerAssumption DEF Persist
<1> QED
  BY <1>1, <1>2, <1>3, GameServerAssumption DEF Settled

\* Each step of the update loop is seen as nothing, but for the grant of the
\* lock and its release.
LEMMA LoopSeen ==
    ASSUME Typed, Typed', RowInv, Persisted, UpdateLoop
    PROVE  [Rounds!Next]_(Rounds!vars)
<1> USE DEF Rounds!vars, Rounds!Next, lock, flags, history
<1>0. next \in Rows /\ rows \in [Rows -> Row] /\ image \in [Rows -> Row]
      /\ rows' \in [Rows -> Row]
  BY TypeParts DEF Typed, TypeOK, Shapes
<1>1. /\ upc # "persisting" => Settled = rows
      /\ upc' # "persisting" => Settled' = rows'
  BY <1>0 DEF Settled
<1>2. CASE Wake \/ CheckEnabled \/ Load
  BY <1>1, <1>2 DEF Wake, CheckEnabled, Load, Request
<1>3. CASE BeginUpdate
  <2>1. Settled' = Settled
    BY <1>1, <1>3 DEF BeginUpdate
  <2> QED
    BY <1>3, <2>1 DEF BeginUpdate, GrantExclusive, Rounds!StartUpdate
<1>4. CASE Report
  <2>1. next' = 1 /\ upc' = "persisting" /\ UNCHANGED <<rows, image>> /\ upc = "reporting"
    BY <1>4 DEF Report, RowInv, RowsTicked
  <2>2. Settled' = rows'
    BY <1>0, <2>1, GameServerAssumption DEF Settled
  <2> QED
    BY <1>1, <1>4, <2>1, <2>2 DEF Report
<1>5. CASE Persist
  <2>1. CASE next < NRows
    BY <1>5, <2>1, PutUnseen DEF Persist
  <2>2. CASE ~(next < NRows)
    <3>1. next = NRows /\ writing /\ NRows \in 0..NRows
      BY <1>0, <1>5, <2>2, GameServerAssumption DEF Persist, Typed, LockHeldByWorkers
    <3>2. rows' = Rounds!Updated(NRows)
      BY <1>5, <3>1, AllPut
    <3>3. upc' = "sleep" /\ ReleaseExclusive /\ UNCHANGED <<view, tick>>
      BY <1>5, <2>2 DEF Persist
    <3> QED
      BY <1>1, <3>1, <3>2, <3>3 DEF ReleaseExclusive, Rounds!EndUpdate
  <2> QED
    BY <2>1, <2>2
<1>6. CASE UpdateError
  <2>1. writing /\ upc' = "sleep" /\ UNCHANGED <<rows, view, tick>> /\ ReleaseExclusive
    BY <1>6 DEF UpdateError, Typed, LockHeldByWorkers
  <2>2. Settled' = rows
    BY <1>1, <2>1
  <2>3. CASE upc = "persisting"
    <3>1. rows = Rounds!Updated(next - 1) /\ next - 1 \in 0..NRows
      BY <1>0, <2>3, CutShort, GameServerAssumption
    <3>2. Rounds!EndUpdate
      BY <2>1, <2>2, <3>1 DEF ReleaseExclusive, Rounds!EndUpdate
    <3> QED
      BY <3>2
  <2>4. CASE upc # "persisting"
    <3>1. rows = Rounds!Updated(0) /\ 0 \in 0..NRows
      BY <1>0, <1>1, <2>4, GameServerAssumption DEF Rounds!Updated
    <3>2. Rounds!EndUpdate
      BY <2>1, <2>2, <3>1 DEF ReleaseExclusive, Rounds!EndUpdate
    <3> QED
      BY <3>2
  <2> QED
    BY <2>3, <2>4
<1> QED
  BY <1>2, <1>3, <1>4, <1>5, <1>6 DEF UpdateLoop

\* A command works under the lock, so no update is in progress.
LEMMA CommandSeen ==
    ASSUME Typed, Typed', NEW t \in Readers, Ask(t) \/ Worker(t)
    PROVE  [Rounds!Next]_(Rounds!vars)
<1> USE DEF lock, flags, history
<1>0. rows \in [Rows -> Row] /\ rows' \in [Rows -> Row]
  BY TypeParts DEF Typed, TypeOK, Shapes
<1>1. /\ upc # "persisting" => Settled = rows
      /\ upc' # "persisting" => Settled' = rows'
      /\ UNCHANGED <<upc, rows, image, next>> => Settled' = Settled
  BY <1>0 DEF Settled
<1>2. CASE Ask(t)
  BY <1>1, <1>2 DEF Ask, Request, Rounds!vars
<1>3. CASE BeginCommand(t)
  <2>1. Rounds!Begin(t)
    BY <1>1, <1>3 DEF BeginCommand, GrantShared, Rounds!Begin, Typed, LockHeldByWorkers
  <2> QED
    BY <2>1 DEF Rounds!Next
<1>4. ASSUME rpc[t] = "running"
      PROVE  t \in readers /\ upc # "persisting" /\ Settled = rows
  BY <1>1, <1>4 DEF Typed, LockHeldByWorkers
<1>5. ASSUME NEW r \in Rows, ReadRow(t, r)
      PROVE  [Rounds!Next]_(Rounds!vars)
  <2>1. t \in readers /\ Settled = rows /\ Settled' = Settled
    BY <1>1, <1>4, <1>5 DEF ReadRow
  <2>2. Rounds!Read(t, r)
    BY <1>5, <2>1 DEF ReadRow, Rounds!Read, NoRow, Rounds!NoRow
  <2> QED
    BY <2>2 DEF Rounds!Next
<1>6. CASE WriteRow(t)
  <2>1. t \in readers /\ Settled = rows /\ Settled' = rows'
    BY <1>1, <1>4, <1>6 DEF WriteRow
  <2>2. Rounds!Write(t)
    BY <1>6, <2>1 DEF WriteRow, Rounds!Write, NoRow, Rounds!NoRow
  <2> QED
    BY <2>2 DEF Rounds!Next
<1>7. CASE EndCommand(t)
  <2>1. t \in readers /\ Settled' = Settled
    BY <1>1, <1>4, <1>7 DEF EndCommand
  <2>2. Rounds!End(t)
    BY <1>7, <2>1 DEF EndCommand, ReleaseShared, Rounds!End, NoRow, Rounds!NoRow
  <2> QED
    BY <2>2 DEF Rounds!Next
<1> QED
  BY <1>2, <1>3, <1>5, <1>6, <1>7 DEF Worker

LEMMA CrashSeen ==
    ASSUME Typed, Typed', RowInv, Persisted, Crash
    PROVE  Rounds!Restart
<1>0. next \in Rows /\ rows \in [Rows -> Row]
  BY TypeParts DEF Typed, Shapes
<1>1. /\ upc # "persisting" => Settled = rows
      /\ Settled' = rows
  BY <1>0 DEF Settled, Crash
<1>2. \/ Settled' = Settled
      \/ writing /\ \E k \in 0..NRows : Settled' = Rounds!Updated(k)
  <2>1. CASE upc = "persisting"
    <3>1. writing /\ Settled' = Rounds!Updated(next - 1) /\ next - 1 \in 0..NRows
      BY <1>0, <1>1, <2>1, CutShort, GameServerAssumption DEF Typed, LockHeldByWorkers
    <3> QED
      BY <3>1
  <2> QED
    BY <1>1, <2>1
<1> QED
  BY <1>2 DEF Crash, Rounds!Restart, NoRow, Rounds!NoRow

LEMMA RoundsStep ==
    Typed /\ Typed' /\ RowInv /\ Persisted /\ [Next]_vars => [Rounds!Next]_(Rounds!vars)
<1> SUFFICES ASSUME Typed, Typed', RowInv, Persisted, [Next]_vars
             PROVE  [Rounds!Next]_(Rounds!vars)
  OBVIOUS
<1>1. CASE UNCHANGED vars
  BY <1>1 DEF vars, lock, Rounds!vars, Settled
<1>2. ASSUME NEW s \in Sessions, Flag(s)
      PROVE  [Rounds!Next]_(Rounds!vars)
  BY <1>2 DEF Flag, Enable, Disable, ForceUpdate, lock, Rounds!vars, Settled
<1>3. CASE Crash
  BY <1>3, CrashSeen DEF Rounds!Next
<1> QED
  BY <1>1, <1>2, <1>3, LoopSeen, CommandSeen DEF Next, Flag

\* Updates and commands are serialized, as main.rs and state.rs promise: no
\* command is at work, reads or puts a row from the beginning of an update to
\* its end, and the update's rows appear at its end, all of them or, when it
\* fails or is cut short, a beginning of them.
THEOREM UpdatesAreSerialized == Spec => SerializesUpdates
<1>1. Spec => [](Typed /\ RowInv /\ Persisted)
  BY RowInvariant, RoundsInit, PersistedStep, PTL DEF Spec
<1>2. Spec => [][Rounds!Next]_(Rounds!vars)
  BY <1>1, RoundsStep, PTL DEF Spec
<1> QED
  BY <1>2, RoundsInit, PTL DEF Spec, SerializesUpdates, Rounds!Spec
-----------------------------------------------------------------------------
(***************************************************************************)
(* Module Shutdown, for any set of deities and any number of timers.       *)
(*                                                                         *)
(* Alive holds however commands overlap: a handle that is stored, or about *)
(* to be, names a timer nobody has aborted, because nobody else knows it.  *)
(* Serial adds what holds as long as no two commands have overlapped: the  *)
(* one timer asleep is that of the command in progress, or the stored one. *)
(***************************************************************************)
Live == {"sleeping", "expired"}

TimersTyped ==
    /\ handle \in Timers \cup {None}
    /\ timer \in [Timers -> {"unborn", "sleeping", "expired", "aborted"}]
    /\ spawned \in 0..MaxTimers
    /\ pc \in [Deities -> {"idle", "spawn", "store"}]
    /\ mine \in [Deities -> Timers \cup {None}]

Flags == exited \in BOOLEAN /\ overlapped \in BOOLEAN /\ asked \in Timers \cup {None}

Alive ==
    /\ \A t \in Timers : t > spawned => timer[t] = "unborn"
    /\ handle # None => handle <= spawned /\ timer[handle] \in Live
    /\ \A d \in Deities : pc[d] = "store" =>
          /\ mine[d] \in Timers /\ mine[d] <= spawned
          /\ timer[mine[d]] \in Live
          /\ handle # mine[d]
          /\ \A e \in Deities : pc[e] = "store" /\ mine[e] = mine[d] => e = d

OneCommand == \A d, e \in Deities : pc[d] # "idle" /\ pc[e] # "idle" => d = e

Asleep(t) == t \in Timers /\ timer[t] = "sleeping"

OneTimer ==
    /\ \A t \in Timers : Asleep(t) => asked = t
    /\ \A d \in Deities, t \in Timers : Asleep(t) =>
          pc[d] # "spawn" /\ (pc[d] = "store" => mine[d] = t)
    /\ Resting => \A t \in Timers : Asleep(t) => handle = t

Serial == ~overlapped => OneCommand /\ OneTimer

ShutdownInv == TimersTyped /\ Alive /\ Serial

-----------------------------------------------------------------------------
LEMMA ShutdownInvInit == ShutdownInit => ShutdownInv
BY ShutdownAssumption DEF ShutdownInit, ShutdownInv, TimersTyped, Alive, Serial, OneCommand, OneTimer, Asleep, Timers

LEMMA TimersTypedStep == TimersTyped /\ [ShutdownNext]_shutdownVars => TimersTyped'
<1> SUFFICES ASSUME TimersTyped, [ShutdownNext]_shutdownVars PROVE TimersTyped'
  OBVIOUS
<1> USE ShutdownAssumption DEF TimersTyped, Timers
<1>1. CASE UNCHANGED shutdownVars
  BY <1>1 DEF shutdownVars
<1>2. ASSUME NEW d \in Deities, Command(d)
      PROVE  TimersTyped'
  BY <1>2 DEF Command, CallOff, Take, Spawn, Store, Begin, GoTo, AbortTimer
<1>3. ASSUME NEW t \in Timers, Task(t)
      PROVE  TimersTyped'
  BY <1>3 DEF Task, Expire, Exit
<1> QED
  BY <1>1, <1>2, <1>3 DEF ShutdownNext

LEMMA AliveStep == TimersTyped /\ Alive /\ [ShutdownNext]_shutdownVars => Alive'
<1> SUFFICES ASSUME TimersTyped, Alive, [ShutdownNext]_shutdownVars PROVE Alive'
  OBVIOUS
<1> USE ShutdownAssumption DEF TimersTyped, Alive, Timers, Live
<1>1. CASE UNCHANGED shutdownVars
  BY <1>1 DEF shutdownVars
<1>2. ASSUME NEW d \in Deities, CallOff(d)
      PROVE  Alive'
  BY <1>2 DEF CallOff, AbortTimer, Begin
<1>3. ASSUME NEW d \in Deities, Take(d)
      PROVE  Alive'
  BY <1>3 DEF Take, AbortTimer, Begin, GoTo
<1>4. ASSUME NEW d \in Deities, Spawn(d)
      PROVE  Alive'
  BY <1>4 DEF Spawn, GoTo
<1>5. ASSUME NEW d \in Deities, Store(d)
      PROVE  Alive'
  BY <1>5 DEF Store, GoTo
<1>6. ASSUME NEW t \in Timers, Task(t)
      PROVE  Alive'
  BY <1>6 DEF Task, Expire, Exit
<1> QED
  BY <1>1, <1>2, <1>3, <1>4, <1>5, <1>6 DEF ShutdownNext, Command

LEMMA SerialStep == ShutdownInv /\ [ShutdownNext]_shutdownVars => Serial'
<1> SUFFICES ASSUME ShutdownInv, [ShutdownNext]_shutdownVars, ~overlapped' PROVE OneCommand' /\ OneTimer'
  BY DEF Serial
<1> USE ShutdownAssumption DEF ShutdownInv, TimersTyped, Timers, OneCommand, OneTimer, Asleep, Resting
<1>1. CASE UNCHANGED shutdownVars
  BY <1>1 DEF shutdownVars, Serial
<1>2. ASSUME NEW d \in Deities, CallOff(d)
      PROVE  OneCommand' /\ OneTimer'
  <2>1. ~overlapped /\ Resting
    BY <1>2 DEF CallOff, Begin
  <2> QED
    BY <1>2, <2>1 DEF CallOff, AbortTimer, Serial
<1>3. ASSUME NEW d \in Deities, Take(d)
      PROVE  OneCommand' /\ OneTimer'
  <2>1. ~overlapped /\ Resting
    BY <1>3 DEF Take, Begin
  <2> QED
    BY <1>3, <2>1 DEF Take, GoTo, AbortTimer, Serial
<1>4. ASSUME NEW d \in Deities, Spawn(d)
      PROVE  OneCommand' /\ OneTimer'
  <2>1. OneCommand /\ OneTimer
    BY <1>4 DEF Spawn, Serial
  <2> QED
    BY <1>4, <2>1 DEF Spawn, GoTo
<1>5. ASSUME NEW d \in Deities, Store(d)
      PROVE  OneCommand' /\ OneTimer'
  <2>1. OneCommand /\ OneTimer
    BY <1>5 DEF Store, Serial
  <2> QED
    BY <1>5, <2>1 DEF Store, GoTo
<1>6. ASSUME NEW t \in Timers, Task(t)
      PROVE  OneCommand' /\ OneTimer'
  <2>1. OneCommand /\ OneTimer
    BY <1>6 DEF Task, Expire, Exit, Serial
  <2> QED
    BY <1>6, <2>1 DEF Task, Expire, Exit
<1> QED
  BY <1>1, <1>2, <1>3, <1>4, <1>5, <1>6 DEF ShutdownNext, Command

LEMMA ShutdownInvStep == ShutdownInv /\ [ShutdownNext]_shutdownVars => ShutdownInv'
BY TimersTypedStep, AliveStep, SerialStep DEF ShutdownInv

LEMMA ShutdownInvariant == ShutdownSpec => []ShutdownInv
BY ShutdownInvInit, ShutdownInvStep, PTL DEF ShutdownSpec

-----------------------------------------------------------------------------
\* The stored handle never names an aborted timer, however commands overlap.
THEOREM HandleStaysAlive == ShutdownSpec => []HandleIsAlive
<1>1. ShutdownInv => HandleIsAlive
  BY DEF ShutdownInv, Alive, Live, HandleIsAlive
<1> QED
  BY <1>1, ShutdownInvariant, PTL

\* Without overlapping commands a pending shutdown can be called off.
THEOREM PendingIsReachable == ShutdownSpec => []PendingCanBeAborted
<1>1. ShutdownInv => PendingCanBeAborted
  BY DEF ShutdownInv, Alive, Live, HandleIsAlive, Serial, OneTimer, Asleep, PendingCanBeAborted
<1> QED
  BY <1>1, ShutdownInvariant, PTL

\* Without overlapping commands only the timer last asked for runs out.
THEOREM LatestExpires == ShutdownSpec => OnlyLatestExpires
<1>1. ShutdownInv /\ [ShutdownNext]_shutdownVars =>
        [~overlapped => \A t \in Timers :
            timer[t] = "sleeping" /\ timer'[t] = "expired" => asked = t]_timer
  BY DEF ShutdownInv, Serial, OneTimer, Asleep
<1> QED
  BY <1>1, ShutdownInvariant, PTL DEF ShutdownSpec, OnlyLatestExpires

LEMMA FlagsStep == TimersTyped /\ Flags /\ [ShutdownNext]_shutdownVars => Flags'
<1> SUFFICES ASSUME TimersTyped, Flags, [ShutdownNext]_shutdownVars PROVE Flags'
  OBVIOUS
<1>1. (exited \in BOOLEAN /\ overlapped \in BOOLEAN)'
  BY Zenon DEF Flags, ShutdownNext, Command, Task, CallOff, Take, Spawn, Store, Begin,
     Expire, Exit, shutdownVars
<1>2. (asked \in Timers \cup {None})'
  BY ShutdownAssumption DEF Flags, TimersTyped, Timers, ShutdownNext, Command, Task, CallOff, Take, Spawn, Store,
     Expire, Exit, shutdownVars
<1> QED
  BY <1>1, <1>2 DEF Flags

\* TimersTyped hold in every reachable state.
THEOREM ShutdownTypeCorrect == ShutdownSpec => []ShutdownTypeOK
<1>1. ShutdownInv /\ Flags => ShutdownTypeOK
  BY DEF ShutdownInv, TimersTyped, Flags, ShutdownTypeOK
<1>2. ShutdownInit => Flags
  BY Zenon DEF ShutdownInit, Flags
<1>3. ShutdownInv => TimersTyped
  BY DEF ShutdownInv
<1> QED
  BY <1>1, <1>2, <1>3, ShutdownInvInit, ShutdownInvStep, FlagsStep, PTL DEF ShutdownSpec

-----------------------------------------------------------------------------
(* The schedule the update loop sleeps by, module Schedule: whatever file  *)
(* is read, whoever reads it and however many times are asked for.         *)

\* A schedule that may be returned for a call with the given limits.
Fits(s, n, past) ==
    /\ s \in Seq(Int)
    /\ Ascending(s)
    /\ \A i \in DOMAIN s : s[i] > past
    /\ Len(s) <= n

ScheduleTyped ==
    /\ file \in Seq(Directives)
    /\ max \in Nat
    /\ after \in Int
    /\ lno \in Nat
    /\ anchor \in Int
    /\ reached \in Int
    /\ looping \in BOOLEAN
    /\ looping => lno \in DOMAIN file /\ file[lno].kind = "every"

ScheduleInv == ScheduleTyped /\ WellFormed

\* A time of the file is a number.
LEMMA TimeIsInt ==
    ASSUME NEW when \in Whens, NEW a \in Int
    PROVE  Time(when, a) \in Int
<1>0. DayLen \in Nat \ {0}
  BY ScheduleAssumption
<1>1. CASE when.form = "at"
  BY <1>1 DEF Time, Whens
<1>2. CASE when.form = "next"
  <2>1. when.day \in 0..6 /\ when.tod \in Seq(0..(DayLen - 1))
    BY <1>2 DEF Whens
  <2>2. a \div DayLen \in Int /\ a % DayLen \in Int
    BY <1>0
  <2>3. Weekday(a) \in 0..6
    BY <2>2 DEF Weekday
  <2>4. (when.day + 7 - Weekday(a)) % 7 \in Int
    BY <2>1, <2>3
  <2>5. when.tod # <<>> => when.tod[1] \in Int
    BY <2>1, <1>0
  <2>. DEFINE b == a \div DayLen
              e == (when.day + 7 - Weekday(a)) % 7
              o == IF when.tod = <<>> THEN a % DayLen ELSE when.tod[1]
              d == IF e = 0 THEN 7 ELSE e
  <2>6. b \in Int /\ o \in Int /\ d \in Int
    BY <2>2, <2>4, <2>5
  <2>7. NextDay(when, a) = (b + d) * DayLen + o
    BY DEF NextDay
  <2>. HIDE DEF b, o, d
  <2> QED
    BY <1>0, <1>2, <2>6, <2>7 DEF Time
<1> QED
  BY <1>1, <1>2 DEF Whens

LEMMA Segment ==
    ASSUME NEW n \in Nat
    PROVE  IsFiniteSet(1..n) /\ Cardinality(1..n) = n
<1>1. /\ IsFiniteSet(1..n)
      /\ Cardinality(1..n) = IF 1 > n THEN 0 ELSE n - 1 + 1
  BY FS_Interval
<1> QED
  BY <1>1

\* Of an ascending schedule the entries before a time are those up to its
\* position.
LEMMA PositionSplits ==
    ASSUME sched \in Seq(Int), Ascending(sched), NEW u \in Int
    PROVE  /\ Position(u) \in 0..Len(sched)
           /\ \A i \in DOMAIN sched : sched[i] < u <=> i <= Position(u)
<1>. DEFINE n == Len(sched)
            B == {i \in 1..n : sched[i] < u}
<1>1. n \in Nat /\ DOMAIN sched = 1..n /\ \A i \in 1..n : sched[i] \in Int
  OBVIOUS
<1>2. Position(u) = Cardinality(B)
  BY <1>1 DEF Position
<1>3. IsFiniteSet(1..n) /\ Cardinality(1..n) = n
  BY <1>1, Segment
<1>4. IsFiniteSet(B) /\ Cardinality(B) \in Nat /\ Cardinality(B) <= n
  BY <1>3, FS_Subset, FS_CardinalityType
<1>5. ASSUME NEW i \in 1..n, sched[i] < u
      PROVE  i <= Cardinality(B)
  <2>1. 1..i \subseteq B
    BY <1>1, <1>5 DEF Ascending
  <2>2. IsFiniteSet(1..i) /\ Cardinality(1..i) = i
    BY <1>1, Segment
  <2> QED
    BY <2>1, <2>2, <1>4, FS_Subset
<1>6. ASSUME NEW i \in 1..n, ~(sched[i] < u)
      PROVE  Cardinality(B) < i
  <2>1. B \subseteq 1..(i - 1)
    <3>1. SUFFICES ASSUME NEW j \in B, j >= i
                   PROVE  FALSE
      BY <1>1
    <3>2. sched[j] >= sched[i]
      BY <1>1, <3>1 DEF Ascending
    <3> QED
      BY <1>1, <1>6, <3>1, <3>2
  <2>2. IsFiniteSet(1..(i - 1)) /\ Cardinality(1..(i - 1)) = i - 1
    <3>1. i - 1 \in Nat
      BY <1>1
    <3> QED
      BY <3>1, Segment
  <2>3. Cardinality(B) <= i - 1
    BY <2>1, <2>2, FS_Subset
  <2> QED
    BY <2>3, <1>4
<1>. HIDE DEF B
<1> QED
  BY <1>1, <1>2, <1>4, <1>5, <1>6

\* What InsertAt and RemoveAt make of a sequence of numbers.
LEMMA InsertAtElements ==
    ASSUME NEW s \in Seq(Int), NEW p \in 0..Len(s), NEW u \in Int
    PROVE  /\ InsertAt(s, p + 1, u) \in Seq(Int)
           /\ Len(InsertAt(s, p + 1, u)) = Len(s) + 1
           /\ \A i \in 1..(Len(s) + 1) :
                InsertAt(s, p + 1, u)[i] =
                  IF i <= p THEN s[i] ELSE IF i = p + 1 THEN u ELSE s[i - 1]
<1>. DEFINE a == SubSeq(s, 1, (p + 1) - 1)
            b == SubSeq(s, p + 1, Len(s))
<1>1. /\ a \in Seq(Int) /\ Len(a) = p
      /\ \A i \in 1..p : a[i] = s[i]
  OBVIOUS
<1>2. /\ b \in Seq(Int) /\ Len(b) = Len(s) - p
      /\ \A i \in 1..(Len(s) - p) : b[i] = s[p + i]
  OBVIOUS
<1>3. InsertAt(s, p + 1, u) = (a \o <<u>>) \o b
  BY DEF InsertAt
<1>. HIDE DEF a, b
<1>4. /\ a \o <<u>> \in Seq(Int) /\ Len(a \o <<u>>) = p + 1
      /\ \A i \in 1..p : (a \o <<u>>)[i] = s[i]
      /\ (a \o <<u>>)[p + 1] = u
  <2>1. <<u>> \in Seq(Int) /\ Len(<<u>>) = 1 /\ <<u>>[1] = u
    OBVIOUS
  <2>2. \A i \in 1..(p + 1) : (a \o <<u>>)[i] = IF i <= p THEN a[i] ELSE <<u>>[i - p]
    <3>1. \A i \in 1..(Len(a) + Len(<<u>>)) :
            (a \o <<u>>)[i] = IF i <= Len(a) THEN a[i] ELSE <<u>>[i - Len(a)]
      BY <1>1, <2>1, ConcatProperties
    <3> QED
      BY <1>1, <2>1, <3>1
  <2>3. a \o <<u>> \in Seq(Int) /\ Len(a \o <<u>>) = Len(a) + Len(<<u>>)
    BY <1>1, <2>1, ConcatProperties
  <2>4. ASSUME NEW i \in 1..p PROVE (a \o <<u>>)[i] = s[i]
    BY <1>1, <2>2
  <2>5. (a \o <<u>>)[p + 1] = u
    <3>1. p + 1 \in 1..(p + 1) /\ ~(p + 1 <= p) /\ (p + 1) - p = 1
      OBVIOUS
    <3>2. (a \o <<u>>)[p + 1] = <<u>>[(p + 1) - p]
      BY <2>2, <3>1
    <3> QED
      BY <2>1, <3>1, <3>2
  <2> QED
    BY <1>1, <2>1, <2>3, <2>4, <2>5
<1>. DEFINE c == a \o <<u>>
<1>. HIDE DEF c
<1>5. /\ c \in Seq(Int) /\ Len(c) = p + 1
      /\ \A i \in 1..p : c[i] = s[i]
      /\ c[p + 1] = u
  BY <1>4 DEF c
<1>6. /\ c \o b \in Seq(Int) /\ Len(c \o b) = Len(s) + 1
      /\ \A i \in 1..(p + 1) : (c \o b)[i] = c[i]
      /\ \A i \in (p + 2)..(Len(s) + 1) : (c \o b)[i] = b[i - (p + 1)]
  <2>1. Len(c) + Len(b) = Len(s) + 1
    BY <1>2, <1>5
  <2>2. \A i \in 1..(Len(s) + 1) : (c \o b)[i] = IF i <= p + 1 THEN c[i] ELSE b[i - (p + 1)]
    <3>1. \A i \in 1..(Len(c) + Len(b)) : (c \o b)[i] = IF i <= Len(c) THEN c[i] ELSE b[i - Len(c)]
      BY <1>2, <1>5, ConcatProperties
    <3>2. Len(c) = p + 1
      BY <1>5
    <3>3. ASSUME NEW i \in 1..(Len(s) + 1)
          PROVE  (c \o b)[i] = IF i <= p + 1 THEN c[i] ELSE b[i - (p + 1)]
      <4>1. i \in 1..(Len(c) + Len(b))
        BY <2>1
      <4>2. (c \o b)[i] = IF i <= Len(c) THEN c[i] ELSE b[i - Len(c)]
        BY <3>1, <4>1
      <4> QED
        BY <3>2, <4>2
    <3> QED
      BY <3>3
  <2>3. c \o b \in Seq(Int) /\ Len(c \o b) = Len(c) + Len(b)
    BY <1>2, <1>5, ConcatProperties
  <2>4. ASSUME NEW i \in 1..(p + 1) PROVE (c \o b)[i] = c[i]
    <3>1. i \in 1..(Len(s) + 1) /\ i <= p + 1
      OBVIOUS
    <3> QED
      BY <2>2, <3>1
  <2>5. ASSUME NEW i \in (p + 2)..(Len(s) + 1) PROVE (c \o b)[i] = b[i - (p + 1)]
    <3>1. i \in 1..(Len(s) + 1) /\ ~(i <= p + 1)
      OBVIOUS
    <3> QED
      BY <2>2, <3>1
  <2> QED
    BY <2>1, <2>3, <2>4, <2>5
<1>7. ASSUME NEW i \in (p + 2)..(Len(s) + 1)
      PROVE  (c \o b)[i] = s[i - 1]
  <2>1. i - (p + 1) \in 1..(Len(s) - p) /\ p + (i - (p + 1)) = i - 1
    OBVIOUS
  <2> QED
    BY <1>2, <1>6, <2>1
<1>8. InsertAt(s, p + 1, u) = c \o b
  BY <1>3 DEF c
<1>. DEFINE r == InsertAt(s, p + 1, u)
<1>. HIDE DEF r
<1>9. ASSUME NEW i \in 1..(Len(s) + 1)
      PROVE  (c \o b)[i] = IF i <= p THEN s[i] ELSE IF i = p + 1 THEN u ELSE s[i - 1]
  <2>1. CASE i <= p
    BY <1>5, <1>6, <2>1
  <2>2. CASE i = p + 1
    BY <1>5, <1>6, <2>2
  <2>3. CASE i > p + 1
    <3>1. i \in (p + 2)..(Len(s) + 1) /\ ~(i <= p) /\ i # p + 1
      BY <2>3
    <3> QED
      BY <1>7, <3>1
  <2>4. i <= p \/ i = p + 1 \/ i > p + 1
    OBVIOUS
  <2> QED
    BY <2>1, <2>2, <2>3, <2>4
<1>10. /\ c \o b \in Seq(Int)
       /\ Len(c \o b) = Len(s) + 1
       /\ \A i \in 1..(Len(s) + 1) :
            (c \o b)[i] = IF i <= p THEN s[i] ELSE IF i = p + 1 THEN u ELSE s[i - 1]
  BY <1>6, <1>9
<1>11. r = c \o b
  BY <1>8 DEF r
<1>12. /\ r \in Seq(Int)
       /\ Len(r) = Len(s) + 1
       /\ \A i \in 1..(Len(s) + 1) : r[i] = IF i <= p THEN s[i] ELSE IF i = p + 1 THEN u ELSE s[i - 1]
  BY <1>10, <1>11
<1> QED
  BY <1>12 DEF r

LEMMA RemoveAtElements ==
    ASSUME NEW s \in Seq(Int), NEW p \in 1..Len(s)
    PROVE  /\ RemoveAt(s, p) \in Seq(Int)
           /\ Len(RemoveAt(s, p)) = Len(s) - 1
           /\ \A i \in 1..(Len(s) - 1) :
                RemoveAt(s, p)[i] = IF i < p THEN s[i] ELSE s[i + 1]
<1>. DEFINE a == SubSeq(s, 1, p - 1)
            b == SubSeq(s, p + 1, Len(s))
<1>1. /\ a \in Seq(Int) /\ Len(a) = p - 1
      /\ \A i \in 1..(p - 1) : a[i] = s[i]
  OBVIOUS
<1>2. /\ b \in Seq(Int) /\ Len(b) = Len(s) - p
      /\ \A i \in 1..(Len(s) - p) : b[i] = s[p + i]
  OBVIOUS
<1>3. RemoveAt(s, p) = a \o b
  BY DEF RemoveAt
<1>. HIDE DEF a, b
<1>4. /\ a \o b \in Seq(Int) /\ Len(a \o b) = Len(s) - 1
      /\ \A i \in 1..(p - 1) : (a \o b)[i] = a[i]
      /\ \A i \in p..(Len(s) - 1) : (a \o b)[i] = b[i - (p - 1)]
  <2>1. Len(a) + Len(b) = Len(s) - 1
    BY <1>1, <1>2
  <2>2. \A i \in 1..(Len(s) - 1) : (a \o b)[i] = IF i <= p - 1 THEN a[i] ELSE b[i - (p - 1)]
    <3>1. \A i \in 1..(Len(a) + Len(b)) : (a \o b)[i] = IF i <= Len(a) THEN a[i] ELSE b[i - Len(a)]
      BY <1>1, <1>2, ConcatProperties
    <3> QED
      BY <1>1, <2>1, <3>1
  <2>3. a \o b \in Seq(Int) /\ Len(a \o b) = Len(a) + Len(b)
    BY <1>1, <1>2, ConcatProperties
  <2>4. ASSUME NEW i \in 1..(p - 1) PROVE (a \o b)[i] = a[i]
    <3>1. i \in 1..(Len(s) - 1) /\ i <= p - 1
      OBVIOUS
    <3> QED
      BY <2>2, <3>1
  <2>5. ASSUME NEW i \in p..(Len(s) - 1) PROVE (a \o b)[i] = b[i - (p - 1)]
    <3>1. i \in 1..(Len(s) - 1) /\ ~(i <= p - 1)
      OBVIOUS
    <3> QED
      BY <2>2, <3>1
  <2> QED
    BY <2>1, <2>3, <2>4, <2>5
<1>5. ASSUME NEW i \in p..(Len(s) - 1)
      PROVE  (a \o b)[i] = s[i + 1]
  <2>1. i - (p - 1) \in 1..(Len(s) - p) /\ p + (i - (p - 1)) = i + 1
    OBVIOUS
  <2> QED
    BY <1>2, <1>4, <2>1
<1>6. ASSUME NEW i \in 1..(Len(s) - 1)
      PROVE  (a \o b)[i] = IF i < p THEN s[i] ELSE s[i + 1]
  <2>1. CASE i < p
    <3>1. i \in 1..(p - 1)
      BY <2>1
    <3> QED
      BY <1>1, <1>4, <2>1, <3>1
  <2>2. CASE ~(i < p)
    <3>1. i \in p..(Len(s) - 1)
      BY <2>2
    <3> QED
      BY <1>5, <2>2, <3>1
  <2> QED
    BY <2>1, <2>2
<1> QED
  BY <1>3, <1>4, <1>6

\* Cutting a schedule keeps it in order.
LEMMA CutFits ==
    ASSUME NEW s \in Seq(Int), Ascending(s), NEW n \in Nat, NEW past \in Int,
           \A i \in DOMAIN s : s[i] > past
    PROVE  Fits(CutTo(s, n), n, past)
<1>1. CASE Len(s) <= n
  BY <1>1 DEF CutTo, Fits
<1>2. CASE Len(s) > n
  <2>. DEFINE c == SubSeq(s, 1, n)
  <2>1. c \in Seq(Int) /\ Len(c) = n /\ \A i \in 1..n : c[i] = s[i]
    BY <1>2
  <2>2. CutTo(s, n) = c
    BY <1>2 DEF CutTo
  <2>. HIDE DEF c
  <2>3. DOMAIN c = 1..n /\ \A i \in 1..n : i \in DOMAIN s
    BY <2>1, <1>2
  <2> QED
    BY <2>1, <2>2, <2>3 DEF Fits, Ascending
<1> QED
  BY <1>1, <1>2

\* insert_update keeps the schedule in order and within its limits.
LEMMA InsertedFits ==
    ASSUME ScheduleInv, NEW u \in Int
    PROVE  Fits(Inserted(u), max, after)
<1>0. sched \in Seq(Int) /\ Ascending(sched) /\ Len(sched) <= max /\ max \in Nat /\ after \in Int
      /\ \A i \in DOMAIN sched : sched[i] > after
  BY DEF ScheduleInv, ScheduleTyped, WellFormed
<1>1. CASE Outside(u) \/ Scheduled(u)
  BY <1>0, <1>1 DEF Inserted, Fits
<1>2. CASE ~Outside(u) /\ ~Scheduled(u)
  <2>. DEFINE p == Position(u)
              s == InsertAt(sched, p + 1, u)
              n == Len(sched)
  <2>0. DOMAIN sched = 1..n /\ n \in Nat
    BY <1>0
  <2>1. p \in 0..n /\ \A i \in 1..n : sched[i] < u <=> i <= p
    BY <1>0, <2>0, PositionSplits
  <2>2. \A i \in 1..n : sched[i] \in Int /\ sched[i] # u /\ sched[i] > after
    BY <1>0, <1>2 DEF Scheduled
  <2>3. u > after
    BY <1>0, <1>2 DEF Outside
  <2>. HIDE DEF p
  <2>4. /\ s \in Seq(Int) /\ Len(s) = n + 1
        /\ \A i \in 1..(n + 1) : s[i] = IF i <= p THEN sched[i] ELSE IF i = p + 1 THEN u ELSE sched[i - 1]
    BY <1>0, <2>1, InsertAtElements
  <2>5. Inserted(u) = CutTo(s, max)
    BY <1>2 DEF Inserted, p
  <2>. HIDE DEF s
  <2>6. \A i \in 1..(n + 1) : s[i] > after
    BY <2>0, <2>1, <2>2, <2>3, <2>4
  <2>7. ASSUME NEW i \in 1..(n + 1), NEW j \in 1..(n + 1), i < j
        PROVE  s[i] < s[j]
    <3>0. \A k, l \in 1..n : k < l => sched[k] < sched[l]
      BY <1>0 DEF Ascending
    <3>1. n \in Nat
      BY <1>0
    <3>2. CASE j <= p
      <4>1. i \in 1..n /\ j \in 1..n /\ s[i] = sched[i] /\ s[j] = sched[j]
        BY <2>1, <2>4, <2>7, <3>1, <3>2
      <4> QED
        BY <2>7, <3>0, <4>1
    <3>3. CASE i <= p /\ j = p + 1
      <4>1. i \in 1..n /\ s[i] = sched[i] /\ ~(j <= p)
        BY <2>1, <2>4, <3>1, <3>3
      <4>2. s[j] = u
        BY <2>4, <3>3, <4>1
      <4> QED
        BY <2>1, <3>3, <4>1, <4>2
    <3>4. CASE i <= p /\ j > p + 1
      <4>1. /\ i \in 1..n /\ j - 1 \in 1..n /\ i < j - 1
            /\ s[i] = sched[i] /\ s[j] = sched[j - 1]
        BY <2>1, <2>4, <2>7, <3>1, <3>4
      <4> QED
        BY <3>0, <4>1
    <3>5. CASE i = p + 1 /\ j > p + 1
      <4>1. j - 1 \in 1..n /\ ~(j - 1 <= p) /\ s[j] = sched[j - 1] /\ s[i] = u
        BY <2>1, <2>4, <2>7, <3>1, <3>5
      <4>2. ~(sched[j - 1] < u) /\ sched[j - 1] # u /\ sched[j - 1] \in Int
        BY <2>1, <2>2, <4>1
      <4> QED
        BY <4>1, <4>2
    <3>6. CASE i > p + 1
      <4>1. /\ i - 1 \in 1..n /\ j - 1 \in 1..n /\ i - 1 < j - 1
            /\ s[i] = sched[i - 1] /\ s[j] = sched[j - 1]
        BY <2>1, <2>4, <2>7, <3>1, <3>6
      <4> QED
        BY <3>0, <4>1
    <3> QED
      BY <2>1, <2>7, <3>1, <3>2, <3>3, <3>4, <3>5, <3>6
  <2>8. Ascending(s) /\ \A i \in DOMAIN s : s[i] > after
    BY <2>4, <2>6, <2>7 DEF Ascending
  <2> QED
    BY <1>0, <2>4, <2>5, <2>8, CutFits
<1> QED
  BY <1>1, <1>2

\* delete_update keeps the schedule in order and within its limits.
LEMMA DeletedFits ==
    ASSUME ScheduleInv, NEW u \in Int
    PROVE  Fits(Deleted(u), max, after)
<1>0. sched \in Seq(Int) /\ Ascending(sched) /\ Len(sched) <= max /\ max \in Nat /\ after \in Int
      /\ \A i \in DOMAIN sched : sched[i] > after
  BY DEF ScheduleInv, ScheduleTyped, WellFormed
<1>1. CASE ~Scheduled(u)
  BY <1>0, <1>1 DEF Deleted, Fits
<1>2. CASE Scheduled(u)
  <2>. DEFINE p == Position(u)
              s == RemoveAt(sched, p + 1)
              n == Len(sched)
  <2>0. DOMAIN sched = 1..n /\ n \in Nat
    BY <1>0
  <2>1. p \in 0..n /\ \A i \in 1..n : sched[i] < u <=> i <= p
    BY <1>0, <2>0, PositionSplits
  <2>2. PICK k \in 1..n : sched[k] = u
    BY <1>0, <1>2 DEF Scheduled
  <2>3. p + 1 \in 1..n
    <3>1. ~(k <= p)
      BY <2>1, <2>2
    <3> QED
      BY <2>1, <2>2, <3>1
  <2>. HIDE DEF p
  <2>4. /\ s \in Seq(Int) /\ Len(s) = n - 1
        /\ \A i \in 1..(n - 1) : s[i] = IF i < p + 1 THEN sched[i] ELSE sched[i + 1]
    BY <1>0, <2>3, RemoveAtElements
  <2>5. Deleted(u) = s
    BY <1>2 DEF Deleted, p
  <2>. HIDE DEF s
  <2>6. DOMAIN s = 1..(n - 1) /\ n \in Nat
    BY <1>0, <2>4, <2>3
  <2>7. \A k1, l1 \in 1..n : k1 < l1 => sched[k1] < sched[l1]
    BY <1>0 DEF Ascending
  <2>. DEFINE at(i) == IF i < p + 1 THEN i ELSE i + 1
  <2>10. ASSUME NEW i \in 1..(n - 1)
        PROVE  at(i) \in 1..n /\ s[i] = sched[at(i)]
    BY <2>3, <2>4, <2>6
  <2>11. ASSUME NEW i \in 1..(n - 1), NEW j \in 1..(n - 1), i < j
        PROVE  at(i) < at(j)
    BY <2>3, <2>6, <2>11
  <2>. HIDE DEF at
  <2>8. Ascending(s)
    BY <2>6, <2>7, <2>10, <2>11 DEF Ascending
  <2>9. \A i \in DOMAIN s : s[i] > after
    BY <1>0, <2>0, <2>6, <2>10
  <2> QED
    BY <1>0, <2>4, <2>5, <2>6, <2>8, <2>9 DEF Fits
<1> QED
  BY <1>1, <1>2

\* A line that can be read names times that are numbers.
LEMMA LineTyped ==
    ASSUME ScheduleTyped, lno \in DOMAIN file
    PROVE  /\ file[lno].kind \in {"time", "skip"} => Time(file[lno].when, anchor) \in Int
           /\ file[lno].kind = "every" => file[lno].step \in Nat
<1>1. file[lno] \in Directives
  BY DEF ScheduleTyped
<1>2. anchor \in Int
  BY DEF ScheduleTyped
<1> QED
  BY <1>1, <1>2, TimeIsInt DEF Directives

\* The empty schedule of the start is in order, and every step keeps it so.
LEMMA ScheduleInvInit == ScheduleInit => ScheduleInv
<1>. SUFFICES ASSUME ScheduleInit PROVE ScheduleInv
  OBVIOUS
<1>1. start \in Nat /\ file \in Seq(Directives) /\ max \in Nat
  BY ScheduleAssumption DEF ScheduleInit
<1>2. after \in Int
  BY <1>1 DEF ScheduleInit
<1>3. ScheduleTyped
  <2>1. looping \in BOOLEAN /\ ~looping
    BY DEF ScheduleInit
  <2>2. lno \in Nat /\ anchor \in Int /\ reached \in Int
    BY <1>1 DEF ScheduleInit
  <2> QED
    BY <1>1, <1>2, <2>1, <2>2 DEF ScheduleTyped
<1>4. sched = <<>> /\ max \in Nat
  BY <1>1 DEF ScheduleInit
<1>5. WellFormed
  BY <1>4 DEF WellFormed, Ascending
<1> QED
  BY <1>3, <1>5 DEF ScheduleInv

LEMMA ScheduleInvStep == ScheduleInv /\ [ScheduleNext]_scheduleVars => ScheduleInv'
<1>. SUFFICES ASSUME ScheduleInv, [ScheduleNext]_scheduleVars PROVE ScheduleInv'
  OBVIOUS
<1>. USE DEF caller
<1>0. ScheduleTyped /\ WellFormed
  BY DEF ScheduleInv
<1>1. CASE SkipLine
  BY <1>0, <1>1 DEF SkipLine, ScheduleInv, ScheduleTyped, WellFormed
<1>2. CASE ReadTime
  <2>1. Time(file[lno].when, anchor) \in Int
    BY <1>0, <1>2, LineTyped DEF ReadTime, Reading
  <2>2. Fits(sched', max, after)
    BY <1>2, <2>1, InsertedFits DEF ReadTime
  <2>3. ScheduleTyped'
    BY <1>0, <1>2, <2>1 DEF ReadTime, Reading, ScheduleTyped
  <2> QED
    BY <1>2, <2>2, <2>3 DEF ReadTime, ScheduleInv, WellFormed, Fits
<1>3. CASE ReadSkip
  <2>1. Time(file[lno].when, anchor) \in Int
    BY <1>0, <1>3, LineTyped DEF ReadSkip, Reading
  <2>2. Fits(sched', max, after)
    BY <1>3, <2>1, DeletedFits DEF ReadSkip
  <2>3. ScheduleTyped'
    BY <1>0, <1>3 DEF ReadSkip, Reading, ScheduleTyped
  <2> QED
    BY <1>3, <2>2, <2>3 DEF ReadSkip, ScheduleInv, WellFormed, Fits
<1>4. CASE BeginEvery
  BY <1>0, <1>4 DEF BeginEvery, Reading, ScheduleInv, ScheduleTyped, WellFormed
<1>5. CASE EveryStep
  <2>1. lno \in DOMAIN file /\ file[lno].kind = "every"
    BY <1>0, <1>5 DEF EveryStep, ScheduleTyped
  <2>2. reached' \in Int
    BY <1>0, <1>5, <2>1, LineTyped DEF EveryStep, ScheduleTyped
  <2>3. Fits(sched', max, after)
    BY <1>5, <2>2, InsertedFits DEF EveryStep
  <2>4. ScheduleTyped'
    BY <1>0, <1>5, <2>2 DEF EveryStep, ScheduleTyped
  <2> QED
    BY <1>5, <2>3, <2>4 DEF EveryStep, ScheduleInv, WellFormed, Fits
<1>6. CASE EndEvery
  <2>1. lno \in DOMAIN file /\ file[lno].kind = "every"
    BY <1>0, <1>6 DEF EndEvery, ScheduleTyped
  <2>2. reached' \in Int
    BY <1>0, <1>6, <2>1, LineTyped DEF EndEvery, ScheduleTyped
  <2>3. looping' = FALSE /\ lno' = lno + 1 /\ UNCHANGED <<file, after, max, start, anchor>>
    BY <1>6 DEF EndEvery
  <2>4. ScheduleTyped'
    <3>1. lno \in Nat /\ lno' \in Nat
      BY <1>0, <2>3 DEF ScheduleTyped
    <3>2. looping' \in BOOLEAN /\ ~looping'
      BY <2>3
    <3> QED
      BY <1>0, <2>2, <2>3, <3>1, <3>2 DEF ScheduleTyped
  <2> QED
    BY <1>0, <1>6, <2>4 DEF EndEvery, ScheduleInv, WellFormed
<1>7. CASE Return
  <2>1. Fits(sched', max, after)
    BY <1>0, <1>7, CutFits DEF Return, ScheduleTyped, WellFormed
  <2>2. ScheduleTyped'
    BY <1>0, <1>7 DEF Return, ScheduleTyped
  <2> QED
    BY <1>7, <2>1, <2>2 DEF Return, ScheduleInv, WellFormed, Fits
<1>8. CASE UNCHANGED scheduleVars
  BY <1>0, <1>8 DEF scheduleVars, ScheduleInv, ScheduleTyped, WellFormed
<1> QED
  BY <1>1, <1>2, <1>3, <1>4, <1>5, <1>6, <1>7, <1>8 DEF ScheduleNext

\* For every file and every caller, at every point of the reading, what the
\* reader has found is ascending, without repetition, in the future and no
\* longer than asked.
THEOREM ScheduleIsWellFormed == ScheduleSpec => []WellFormed
<1>1. ScheduleInv => WellFormed
  BY DEF ScheduleInv
<1> QED
  BY <1>1, ScheduleInvInit, ScheduleInvStep, PTL DEF ScheduleSpec

(***************************************************************************)
(* What the lines ask for, read one after the other.                       *)
(***************************************************************************)
Nothing == [times |-> {}, anchor |-> start]
IsRead(w, n) ==
    w = [i \in 0..n |-> IF i = 0 THEN Nothing ELSE WrittenBy(file[i], w[i - 1])]

\* A reading of some lines can be carried on to the next line.
LEMMA ReadOn ==
    ASSUME NEW n \in Nat, \E w : IsRead(w, n)
    PROVE  \E w : IsRead(w, n + 1)
<1>1. PICK w : IsRead(w, n)
  OBVIOUS
<1> DEFINE Val(v, i) == IF i = 0 THEN Nothing ELSE WrittenBy(file[i], v[i - 1])
           v == [i \in 0..n + 1 |-> IF i = n + 1 THEN WrittenBy(file[n + 1], w[n]) ELSE w[i]]
<1>2. w = [i \in 0..n |-> Val(w, i)]
  BY <1>1 DEF IsRead
<1>3. \A i \in 0..n : w[i] = Val(w, i)
  BY <1>2
<1>4. \A i \in 0..n + 1 : v[i] = IF i = n + 1 THEN WrittenBy(file[n + 1], w[n]) ELSE w[i]
  OBVIOUS
<1>5. \A i \in 0..n : v[i] = w[i]
  <2> HIDE DEF v
  <2> QED
    BY <1>4
<1>6. DOMAIN v = 0..n + 1 /\ v = [i \in 0..n + 1 |-> v[i]]
  OBVIOUS
<1> HIDE DEF v
<1>7. ASSUME NEW i \in 0..n + 1 PROVE v[i] = Val(v, i)
  <2>1. CASE i = n + 1
    <3>1. i # 0 /\ i - 1 = n /\ n \in 0..n
      BY <2>1
    <3> QED
      BY <1>4, <1>5, <2>1, <3>1
  <2>2. CASE i # n + 1 /\ i # 0
    <3>1. i \in 0..n /\ i - 1 \in 0..n
      BY <2>2
    <3> QED
      BY <1>3, <1>5, <2>2, <3>1
  <2>3. CASE i = 0
    <3>1. 0 \in 0..n
      OBVIOUS
    <3> QED
      BY <1>3, <1>5, <2>3, <3>1
  <2> QED
    BY <2>1, <2>2, <2>3
<1>8. v = [i \in 0..n + 1 |-> Val(v, i)]
  BY <1>6, <1>7, Zenon
<1>9. IsRead(v, n + 1)
  BY <1>8 DEF IsRead
<1> QED
  BY <1>9

\* However many lines there are, they can be read: a least number of lines that
\* cannot be is neither zero nor one more than a number that can.
LEMMA CanBeRead ==
    ASSUME NEW n \in Nat
    PROVE  \E w : IsRead(w, n)
<1> DEFINE Bad == {k \in 0..n : ~\E w : IsRead(w, k)}
<1>1. SUFFICES ASSUME Bad # {} PROVE FALSE
  <2>1. n \in 0..n
    OBVIOUS
  <2> QED
    BY <2>1
<1>2. IsFiniteSet(Bad) /\ Bad \subseteq Int
  <2>1. IsFiniteSet(0..n) /\ Bad \subseteq 0..n
    BY FS_Interval
  <2> QED
    BY <2>1, FS_Subset
<1> HIDE DEF Bad
<1>3. PICK k \in Bad : \A j \in Bad : k <= j
  BY <1>1, <1>2, LeastOfFinite
<1>4. k \in 0..n /\ ~\E w : IsRead(w, k)
  BY <1>3 DEF Bad
<1>5. k # 0
  <2> DEFINE w == [i \in 0..0 |-> Nothing]
  <2>1. w = [i \in 0..0 |-> IF i = 0 THEN Nothing ELSE WrittenBy(file[i], w[i - 1])]
    OBVIOUS
  <2>2. IsRead(w, 0)
    BY <2>1 DEF IsRead
  <2> QED
    BY <1>4, <2>2
<1>6. k - 1 \in 0..n /\ k - 1 \in Nat /\ (k - 1) + 1 = k
  BY <1>4, <1>5
<1>7. k - 1 \notin Bad
  BY <1>3, <1>4
<1>8. \E w : IsRead(w, k - 1)
  BY <1>6, <1>7 DEF Bad
<1> QED
  BY <1>4, <1>6, <1>8, ReadOn

LEMMA WrittenIs ==
    ASSUME Len(file) \in Nat
    PROVE  /\ Written[0] = Nothing
           /\ \A i \in 1..Len(file) : Written[i] = WrittenBy(file[i], Written[i - 1])
<1> DEFINE n == Len(file)
<1>1. \E w : IsRead(w, n)
  BY CanBeRead
<1>2. Written = CHOOSE w : IsRead(w, n)
  BY Zenon DEF Written, IsRead, Nothing
<1>3. IsRead(Written, n)
  BY <1>1, <1>2, Zenon
<1> DEFINE W == Written
<1>4. IsRead(W, n)
  BY <1>3
<1> HIDE DEF W
<1>5. \A i \in 0..n : W[i] = IF i = 0 THEN Nothing ELSE WrittenBy(file[i], W[i - 1])
  BY <1>4 DEF IsRead
<1>6. W[0] = Nothing
  BY <1>5
<1>7. ASSUME NEW i \in 1..n PROVE W[i] = WrittenBy(file[i], W[i - 1])
  <2>1. i \in 0..n /\ i # 0
    OBVIOUS
  <2> QED
    BY <1>5, <2>1
<1> QED
  BY <1>6, <1>7 DEF W

(***************************************************************************)
(* Lists and what they are taken from.  A list of the earliest of S has    *)
(* nothing else, and what it lacks of S comes after all it has room for.   *)
(***************************************************************************)
In(s, v) == \E i \in 1..Len(s) : s[i] = v
Beyond(s, n, v) == Len(s) = n /\ \A i \in 1..Len(s) : s[i] < v
Drawn(s, S) == \A i \in 1..Len(s) : s[i] \in S
Fills(s, n, S) == \A v \in S : In(s, v) \/ Beyond(s, n, v)

LEMMA SchedIs ==
    ASSUME ScheduleInv
    PROVE  /\ sched \in Seq(Int) /\ Len(sched) \in Nat /\ DOMAIN sched = 1..Len(sched)
           /\ Len(sched) <= max /\ max \in Nat /\ after \in Int
           /\ \A i \in 1..Len(sched) : sched[i] \in Int /\ sched[i] > after
           /\ \A i, j \in 1..Len(sched) : i < j => sched[i] < sched[j]
           /\ \A v : Scheduled(v) <=> In(sched, v)
<1>1. sched \in Seq(Int) /\ Len(sched) <= max /\ max \in Nat /\ after \in Int
  BY DEF ScheduleInv, ScheduleTyped, WellFormed
<1>2. Len(sched) \in Nat /\ DOMAIN sched = 1..Len(sched)
  BY <1>1
<1>3. \A i \in 1..Len(sched) : sched[i] \in Int /\ sched[i] > after
  BY <1>1, <1>2 DEF ScheduleInv, WellFormed
<1>4. \A i, j \in 1..Len(sched) : i < j => sched[i] < sched[j]
  BY <1>2 DEF ScheduleInv, WellFormed, Ascending
<1>5. \A v : Scheduled(v) <=> In(sched, v)
  BY <1>2, Zenon DEF Scheduled, In
<1> QED
  BY <1>1, <1>2, <1>3, <1>4, <1>5

\* Where a time is inserted, and what is moved and dropped for it.
LEMMA InsertedIs ==
    ASSUME ScheduleInv, NEW u \in Int, ~Outside(u), ~Scheduled(u)
    PROVE  \E p \in 0..Len(sched) :
             /\ p < max
             /\ \A i \in 1..Len(sched) : sched[i] < u <=> i <= p
             /\ Len(Inserted(u)) = IF Len(sched) < max THEN Len(sched) + 1 ELSE max
             /\ \A i \in 1..Len(Inserted(u)) :
                  Inserted(u)[i] = IF i <= p THEN sched[i] ELSE IF i = p + 1 THEN u ELSE sched[i - 1]
<1> DEFINE p == Position(u)
           n == Len(sched)
           s == InsertAt(sched, p + 1, u)
           r == Inserted(u)
<1>1. /\ sched \in Seq(Int) /\ n \in Nat /\ DOMAIN sched = 1..n /\ n <= max /\ max \in Nat
      /\ Ascending(sched)
  BY SchedIs DEF ScheduleInv, WellFormed
<1>2. p \in 0..n /\ \A i \in 1..n : sched[i] < u <=> i <= p
  BY <1>1, PositionSplits
<1>3. p < max
  BY <1>1, <1>2 DEF Outside
<1>4. r = CutTo(s, max)
  BY DEF Inserted
<1> HIDE DEF p
<1>5. /\ s \in Seq(Int) /\ Len(s) = n + 1
      /\ \A i \in 1..(n + 1) : s[i] = IF i <= p THEN sched[i] ELSE IF i = p + 1 THEN u ELSE sched[i - 1]
  BY <1>1, <1>2, InsertAtElements
<1> HIDE DEF s, r
<1> DEFINE Split(x) == \A i \in 1..n : sched[i] < u <=> i <= x
           Made(x) == \A i \in 1..Len(r) :
                        r[i] = IF i <= x THEN sched[i] ELSE IF i = x + 1 THEN u ELSE sched[i - 1]
           Size == IF n < max THEN n + 1 ELSE max
<1>6. ASSUME n < max PROVE Len(r) = Size /\ Made(p)
  <2>1. r = s
    BY <1>1, <1>4, <1>5, <1>6 DEF CutTo
  <2> QED
    BY <1>5, <1>6, <2>1
<1>7. ASSUME n = max PROVE Len(r) = Size /\ Made(p)
  <2>1. r = SubSeq(s, 1, max)
    BY <1>1, <1>4, <1>5, <1>7 DEF CutTo
  <2>2. Len(r) = max /\ \A i \in 1..max : r[i] = s[i] /\ i \in 1..n + 1
    BY <1>1, <1>5, <1>7, <2>1
  <2>3. max \in Nat /\ ~(n < max)
    BY <1>1, <1>7
  <2>4. Len(r) = Size
    BY <2>2, <2>3
  <2>5. 1..Len(r) = 1..max
    BY <2>2
  <2>6. ASSUME NEW i \in 1..Len(r)
        PROVE  r[i] = IF i <= p THEN sched[i] ELSE IF i = p + 1 THEN u ELSE sched[i - 1]
    <3>1. r[i] = s[i] /\ i \in 1..n + 1
      BY <2>2, <2>5
    <3> QED
      BY <1>5, <3>1
  <2> HIDE DEF Size
  <2> QED
    BY <2>4, <2>6
<1>8. Len(r) = Size /\ Made(p)
  <2>1. n < max \/ n = max
    <3>1. n \in Nat /\ max \in Nat /\ n <= max
      BY <1>1
    <3> HIDE DEF n
    <3> QED
      BY <3>1
  <2> HIDE DEF Made, Size
  <2> QED
    BY <1>6, <1>7, <2>1
<1>9. Split(p)
  BY <1>2
<1> HIDE DEF Split, Made, Size
<1>10. \E x \in 0..n : x < max /\ Split(x) /\ Len(r) = Size /\ Made(x)
  BY <1>2, <1>3, <1>8, <1>9
<1> QED
  BY <1>10, Zenon DEF Split, Made, Size, r

\* Nothing is scheduled but what was or is inserted, and that is not past.
LEMMA InsertedDrawn ==
    ASSUME ScheduleInv, NEW u \in Int, NEW S, Drawn(sched, S), u > after => u \in S
    PROVE  Drawn(Inserted(u), S)
<1>1. CASE Outside(u) \/ Scheduled(u)
  BY <1>1 DEF Inserted
<1>2. CASE ~Outside(u) /\ ~Scheduled(u)
  <2>1. PICK p \in 0..Len(sched) :
             /\ Len(Inserted(u)) = IF Len(sched) < max THEN Len(sched) + 1 ELSE max
             /\ \A i \in 1..Len(Inserted(u)) :
                  Inserted(u)[i] = IF i <= p THEN sched[i] ELSE IF i = p + 1 THEN u ELSE sched[i - 1]
    BY <1>2, InsertedIs
  <2>2. u \in S
    BY <1>2, SchedIs DEF Outside
  <2> DEFINE r == Inserted(u)
             n == Len(sched)
  <2>3. n \in Nat /\ n <= max /\ max \in Nat /\ \A i \in 1..n : sched[i] \in S
    BY SchedIs DEF Drawn
  <2> HIDE DEF r
  <2>4. /\ Len(r) = IF n < max THEN n + 1 ELSE max
        /\ \A i \in 1..Len(r) : r[i] = IF i <= p THEN sched[i] ELSE IF i = p + 1 THEN u ELSE sched[i - 1]
    BY <2>1 DEF r
  <2>5. ASSUME NEW i \in 1..Len(r) PROVE r[i] \in S
    <3>1. i <= n + 1
      BY <2>3, <2>4
    <3> QED
      BY <2>1, <2>2, <2>3, <2>4, <3>1
  <2> QED
    BY <2>5 DEF Drawn, r
<1> QED
  BY <1>1, <1>2

\* What is inserted, or was to be, is there or has no room.
LEMMA InsertedFills ==
    ASSUME ScheduleInv, NEW u \in Int, u > after, NEW S \in SUBSET Int, Fills(sched, max, S)
    PROVE  Fills(Inserted(u), max, S \cup {u})
<1> DEFINE n == Len(sched)
           r == Inserted(u)
<1>0. /\ n \in Nat /\ n <= max /\ max \in Nat
      /\ \A i \in 1..n : sched[i] \in Int
      /\ \A i, j \in 1..n : i < j => sched[i] < sched[j]
  BY SchedIs
<1>1. CASE Scheduled(u)
  <2>1. In(sched, u)
    BY <1>1, SchedIs
  <2> QED
    BY <1>1, <2>1 DEF Inserted, Fills
<1>2. CASE ~Scheduled(u) /\ Outside(u)
  <2>1. Position(u) >= max
    BY <1>2, SchedIs DEF Outside
  <2>2. Position(u) \in 0..n /\ \A i \in 1..n : sched[i] < u <=> i <= Position(u)
    BY SchedIs, PositionSplits DEF ScheduleInv, WellFormed
  <2>3. Beyond(sched, max, u)
    BY <1>0, <2>1, <2>2 DEF Beyond
  <2> QED
    BY <1>2, <2>3 DEF Inserted, Fills
<1>3. CASE ~Scheduled(u) /\ ~Outside(u)
  <2>1. PICK p \in 0..n :
             /\ p < max
             /\ \A i \in 1..n : sched[i] < u <=> i <= p
             /\ Len(r) = IF n < max THEN n + 1 ELSE max
             /\ \A i \in 1..Len(r) : r[i] = IF i <= p THEN sched[i] ELSE IF i = p + 1 THEN u ELSE sched[i - 1]
    BY <1>3, InsertedIs
  <2> HIDE DEF r
  <2>2. In(r, u)
    <3>1. p + 1 \in 1..Len(r) /\ ~(p + 1 <= p)
      BY <1>0, <2>1
    <3>2. r[p + 1] = u
      BY <2>1, <3>1
    <3> QED
      BY <3>1, <3>2 DEF In
  <2>3. ASSUME NEW i \in 1..n, i <= p PROVE In(r, sched[i])
    <3>1. i \in 1..Len(r)
      BY <1>0, <2>1, <2>3
    <3> QED
      BY <2>1, <2>3, <3>1 DEF In
  <2>4. ASSUME NEW i \in 1..n, i > p, i < max PROVE In(r, sched[i])
    <3>1. i + 1 \in 1..Len(r) /\ ~(i + 1 <= p) /\ i + 1 # p + 1 /\ (i + 1) - 1 = i
      BY <1>0, <2>1, <2>4
    <3>2. r[i + 1] = sched[i]
      BY <2>1, <3>1
    <3> QED
      BY <3>1, <3>2 DEF In
  <2>5. ASSUME NEW v \in Int, n = max, p < max, v >= sched[n] PROVE Beyond(r, max, v)
    <3>1. Len(r) = max /\ n \in 1..n /\ u < sched[n]
      <4>1. n \in 1..n /\ ~(n <= p)
        BY <1>0, <2>1, <2>5
      <4>2. ~(sched[n] < u) /\ sched[n] \in Int /\ sched[n] # u
        <5>1. ~In(sched, u)
          BY <1>3, SchedIs
        <5> QED
          BY <1>0, <2>1, <4>1, <5>1 DEF In
      <4> QED
        BY <1>0, <2>1, <2>5, <4>1, <4>2
    <3>2. ASSUME NEW i \in 1..Len(r) PROVE r[i] < v
      <4>1. CASE i <= p
        <5>1. i \in 1..n /\ i < n /\ r[i] = sched[i]
          BY <1>0, <2>1, <2>5, <3>1, <4>1
        <5>2. sched[i] < sched[n] /\ sched[i] \in Int /\ sched[n] \in Int
          BY <1>0, <3>1, <5>1
        <5> QED
          BY <2>5, <5>1, <5>2
      <4>2. CASE i = p + 1
        <5>1. r[i] = u /\ sched[n] \in Int
          BY <1>0, <2>1, <3>1, <4>2
        <5> QED
          BY <2>5, <3>1, <5>1
      <4>3. CASE i > p + 1
        <5>1. i - 1 \in 1..n /\ i - 1 < n /\ r[i] = sched[i - 1]
          BY <1>0, <2>1, <2>5, <3>1, <4>3
        <5>2. sched[i - 1] < sched[n] /\ sched[i - 1] \in Int /\ sched[n] \in Int
          BY <1>0, <3>1, <5>1
        <5> QED
          BY <2>5, <5>1, <5>2
      <4> QED
        BY <2>1, <4>1, <4>2, <4>3
    <3> QED
      BY <3>1, <3>2 DEF Beyond
  <2>6. ASSUME NEW v \in S PROVE In(r, v) \/ Beyond(r, max, v)
    <3>1. CASE In(sched, v)
      <4>1. PICK i \in 1..n : sched[i] = v
        BY <3>1 DEF In
      <4>2. CASE i <= p \/ i < max
        BY <1>0, <2>1, <2>3, <2>4, <4>1, <4>2
      <4>3. CASE ~(i <= p) /\ ~(i < max)
        <5>1. i = n /\ n = max
          BY <1>0, <4>1, <4>3
        <5> QED
          BY <2>1, <2>5, <4>1, <5>1
      <4> QED
        BY <4>2, <4>3
    <3>2. CASE Beyond(sched, max, v)
      <4>1. n = max /\ \A i \in 1..n : sched[i] < v
        BY <3>2 DEF Beyond
      <4>2. n \in 1..n /\ v \in Int
        BY <1>0, <2>1, <4>1
      <4>3. v >= sched[n]
        BY <1>0, <4>1, <4>2
      <4> QED
        BY <2>1, <2>5, <4>1, <4>2, <4>3
    <3> QED
      BY <3>1, <3>2 DEF Fills
  <2> QED
    BY <2>2, <2>6 DEF Fills, r
<1> QED
  BY <1>1, <1>2, <1>3

\* A time taken off is the only one that goes.
LEMMA DeletedIs ==
    ASSUME ScheduleInv, NEW u \in Int
    PROVE  \A v : In(Deleted(u), v) <=> In(sched, v) /\ v # u
<1> DEFINE n == Len(sched)
           r == Deleted(u)
           p == Position(u)
<1>0. /\ n \in Nat /\ sched \in Seq(Int)
      /\ \A i \in 1..n : sched[i] \in Int
      /\ \A i, j \in 1..n : i < j => sched[i] < sched[j]
      /\ \A v : Scheduled(v) <=> In(sched, v)
  BY SchedIs
<1>1. CASE ~Scheduled(u)
  <2>1. r = sched /\ ~In(sched, u)
    BY <1>0, <1>1 DEF Deleted
  <2> QED
    BY <2>1
<1>2. CASE Scheduled(u)
  <2>1. p \in 0..n /\ \A i \in 1..n : sched[i] < u <=> i <= p
    BY SchedIs, PositionSplits DEF ScheduleInv, WellFormed
  <2>2. PICK k \in 1..n : sched[k] = u
    BY <1>0, <1>2 DEF In
  <2>3. p + 1 = k
    <3>1. ~(k <= p)
      BY <2>1, <2>2
    <3>2. ASSUME k > p + 1 PROVE FALSE
      <4>1. p + 1 \in 1..n /\ p + 1 < k /\ ~(p + 1 <= p)
        BY <1>0, <2>1, <2>2, <3>2
      <4> QED
        BY <1>0, <2>1, <2>2, <4>1
    <3> QED
      BY <2>1, <2>2, <3>1, <3>2
  <2>4. r = RemoveAt(sched, k)
    BY <1>2, <2>3 DEF Deleted
  <2> HIDE DEF r, p
  <2>5. /\ Len(r) = n - 1
        /\ \A i \in 1..(n - 1) : r[i] = IF i < k THEN sched[i] ELSE sched[i + 1]
    <3>1. sched \in Seq(Int) /\ k \in 1..Len(sched)
      BY <1>0, <2>2
    <3>2. /\ Len(RemoveAt(sched, k)) = Len(sched) - 1
          /\ \A i \in 1..(Len(sched) - 1) :
               RemoveAt(sched, k)[i] = IF i < k THEN sched[i] ELSE sched[i + 1]
      BY <3>1, RemoveAtElements
    <3> QED
      BY <2>4, <3>2
  <2>6. ASSUME NEW i \in 1..Len(r) PROVE In(sched, r[i]) /\ r[i] # u
    <3>1. CASE i < k
      <4>1. r[i] = sched[i] /\ i \in 1..n
        BY <1>0, <2>5, <3>1
      <4> QED
        BY <1>0, <2>2, <3>1, <4>1 DEF In
    <3>2. CASE ~(i < k)
      <4>1. r[i] = sched[i + 1] /\ i + 1 \in 1..n /\ k < i + 1
        BY <1>0, <2>2, <2>5, <3>2
      <4> QED
        BY <1>0, <2>2, <4>1 DEF In
    <3> QED
      BY <3>1, <3>2
  <2>7. ASSUME NEW i \in 1..n, sched[i] # u PROVE In(r, sched[i])
    <3>1. CASE i < k
      <4>1. i \in 1..Len(r) /\ r[i] = sched[i]
        BY <1>0, <2>2, <2>5, <3>1
      <4> QED
        BY <4>1 DEF In
    <3>2. CASE i > k
      <4>1. i - 1 \in 1..Len(r) /\ ~(i - 1 < k) /\ (i - 1) + 1 = i
        BY <1>0, <2>2, <2>5, <3>2
      <4>2. r[i - 1] = sched[i]
        BY <1>0, <2>5, <4>1
      <4> QED
        BY <4>1, <4>2 DEF In
    <3> QED
      BY <2>2, <2>7, <3>1, <3>2
  <2> QED
    BY <2>6, <2>7 DEF In, r
<1> QED
  BY <1>1, <1>2

\* An ascending list of k has k members.
LEMMA ListSize ==
    ASSUME NEW s, NEW k \in Nat
    PROVE  /\ IsFiniteSet({s[i] : i \in 1..k}) /\ Cardinality({s[i] : i \in 1..k}) <= k
           /\ (\A i, j \in 1..k : s[i] = s[j] => i = j) => Cardinality({s[i] : i \in 1..k}) = k
<1> DEFINE T == {s[i] : i \in 1..k}
           f == [i \in 1..k |-> s[i]]
<1>1. IsFiniteSet(1..k) /\ Cardinality(1..k) = k
  BY Segment
<1>2. f \in Surjection(1..k, T)
  <2>1. f \in [1..k -> T] /\ \A t \in T : \E i \in 1..k : f[i] = t
    OBVIOUS
  <2> QED
    BY <2>1 DEF Surjection
<1>3. IsFiniteSet(T) /\ Cardinality(T) <= k
  <2> HIDE DEF f, T
  <2> QED
    BY <1>1, <1>2, FS_Surjection
<1>4. ASSUME \A i, j \in 1..k : s[i] = s[j] => i = j PROVE Cardinality(T) = k
  <2>1. f \in [1..k -> T] /\ \A i, j \in 1..k : f[i] = f[j] => i = j
    BY <1>4
  <2>2. f \in Injection(1..k, T)
    <3> HIDE DEF f, T
    <3> QED
      BY <2>1 DEF Injection, IsInjective
  <2>3. k <= Cardinality(T) /\ Cardinality(T) \in Nat
    <3> HIDE DEF f, T
    <3> QED
      BY <1>1, <1>3, <2>2, FS_Injection, FS_CardinalityType
  <2> QED
    BY <1>3, <2>3
<1> QED
  BY <1>3, <1>4

\* A list that is drawn from a set and fills its room is of its earliest.
LEMMA EarliestIs ==
    ASSUME ScheduleInv, NEW S \in SUBSET Int, IsFiniteSet(S), Drawn(sched, S), Fills(sched, max, S)
    PROVE  Range(sched) = Earliest(max, S)
<1> DEFINE n == Len(sched)
           Below(u) == {v \in S : v < u}
           First(k) == {sched[i] : i \in 1..k}
<1>0. /\ n \in Nat /\ n <= max /\ max \in Nat /\ DOMAIN sched = 1..n
      /\ \A i \in 1..n : sched[i] \in Int /\ sched[i] \in S
      /\ \A i, j \in 1..n : i < j => sched[i] < sched[j]
  BY SchedIs DEF Drawn
<1>1. \A u : IsFiniteSet(Below(u)) /\ Cardinality(Below(u)) \in Nat
  <2> TAKE u
  <2>1. Below(u) \subseteq S
    OBVIOUS
  <2> HIDE DEF Below
  <2> QED
    BY <2>1, FS_Subset, FS_CardinalityType
<1>2. \A u : u \in Range(sched) <=> In(sched, u)
  BY <1>0 DEF Range, In
<1>3. \A u : u \in Earliest(max, S) <=> u \in S /\ Cardinality(Below(u)) < max
  BY DEF Earliest
<1>4. ASSUME NEW i \in 1..n PROVE Cardinality(Below(sched[i])) < max
  <2>1. ASSUME NEW v \in Below(sched[i]) PROVE v \in First(i - 1)
    <3>1. v \in S /\ v < sched[i] /\ v \in Int
      BY <2>1
    <3>2. ~Beyond(sched, max, v)
      <4>1. ~(sched[i] < v)
        BY <1>0, <3>1
      <4> QED
        BY <4>1 DEF Beyond
    <3>3. PICK j \in 1..n : sched[j] = v
      BY <3>1, <3>2 DEF Fills, In
    <3>4. j < i
      <4>1. ~(i < j) /\ i # j
        BY <1>0, <3>1, <3>3
      <4> QED
        BY <4>1
    <3>5. j \in 1..i - 1
      BY <3>4
    <3> QED
      BY <3>3, <3>5
  <2>2. i - 1 \in Nat
    OBVIOUS
  <2>3. IsFiniteSet(First(i - 1)) /\ Cardinality(First(i - 1)) <= i - 1
    BY <2>2, ListSize
  <2>4. Below(sched[i]) \subseteq First(i - 1)
    BY <2>1
  <2>5. Cardinality(Below(sched[i])) <= Cardinality(First(i - 1)) /\ Cardinality(First(i - 1)) \in Nat
    <3> HIDE DEF Below, First
    <3> QED
      BY <2>3, <2>4, FS_Subset, FS_CardinalityType
  <2> HIDE DEF Below, First
  <2> QED
    BY <1>0, <1>1, <2>3, <2>5
<1>5. ASSUME NEW u \in S, ~In(sched, u) PROVE ~(Cardinality(Below(u)) < max)
  <2>1. n = max /\ \A i \in 1..n : sched[i] < u
    BY <1>5 DEF Fills, Beyond
  <2>2. First(n) \subseteq Below(u)
    BY <1>0, <2>1
  <2>3. \A i, j \in 1..n : sched[i] = sched[j] => i = j
    <3> SUFFICES ASSUME NEW i \in 1..n, NEW j \in 1..n, i # j
                 PROVE  sched[i] # sched[j]
      OBVIOUS
    <3>1. i < j \/ j < i
      OBVIOUS
    <3>2. sched[i] < sched[j] \/ sched[j] < sched[i]
      BY <1>0, <3>1
    <3> QED
      BY <1>0, <3>2
  <2>4. Cardinality(First(n)) = n
    BY <1>0, <2>3, ListSize
  <2>5. n <= Cardinality(Below(u))
    <3> HIDE DEF Below, First
    <3> QED
      BY <1>1, <2>2, <2>4, FS_Subset
  <2> HIDE DEF Below
  <2> QED
    BY <1>0, <1>1, <2>1, <2>5
<1>6. ASSUME NEW u, In(sched, u) PROVE u \in S /\ Cardinality(Below(u)) < max
  <2>1. PICK i \in 1..n : sched[i] = u
    BY <1>6 DEF In
  <2> HIDE DEF Below
  <2> QED
    BY <1>0, <1>4, <2>1
<1>7. \A u : u \in Range(sched) <=> u \in Earliest(max, S)
  <2> HIDE DEF Below
  <2> QED
    BY <1>2, <1>3, <1>5, <1>6
<1> QED
  BY <1>7

\* A set that fits has all its members scheduled.
LEMMA AllFits ==
    ASSUME ScheduleInv, NEW S \in SUBSET Int, IsFiniteSet(S), Cardinality(S) <= max,
           Drawn(sched, S), Fills(sched, max, S), NEW v \in S
    PROVE  In(sched, v)
<1> DEFINE n == Len(sched)
           All == {sched[i] : i \in 1..n}
           Others == S \ {v}
<1>0. /\ n \in Nat /\ n <= max /\ max \in Nat
      /\ \A i \in 1..n : sched[i] \in Int /\ sched[i] \in S
      /\ \A i, j \in 1..n : i < j => sched[i] < sched[j]
  BY SchedIs DEF Drawn
<1>1. SUFFICES ASSUME ~In(sched, v) PROVE FALSE
  OBVIOUS
<1>2. n = max
  BY <1>1 DEF Fills, Beyond
<1>3. \A i, j \in 1..n : sched[i] = sched[j] => i = j
  <2> SUFFICES ASSUME NEW i \in 1..n, NEW j \in 1..n, i # j
               PROVE  sched[i] # sched[j]
    OBVIOUS
  <2>1. i < j \/ j < i
    OBVIOUS
  <2>2. sched[i] < sched[j] \/ sched[j] < sched[i]
    BY <1>0, <2>1
  <2> QED
    BY <1>0, <2>2
<1>4. Cardinality(All) = n
  BY <1>0, <1>3, ListSize
<1>5. All \subseteq Others
  BY <1>0, <1>1 DEF In
<1>6. IsFiniteSet(Others) /\ Cardinality(Others) = Cardinality(S) - 1
  BY FS_RemoveElement
<1>7. Cardinality(S) \in Nat
  BY FS_CardinalityType
<1>8. Cardinality(All) <= Cardinality(Others)
  <2> HIDE DEF All, Others
  <2> QED
    BY <1>5, <1>6, FS_Subset
<1> HIDE DEF All, Others
<1> QED
  BY <1>0, <1>2, <1>4, <1>6, <1>7, <1>8

(***************************************************************************)
(* The times an "every" asks for.                                          *)
(***************************************************************************)
Repeats(d) == d \in Directives /\ d.kind = "every"

LEMMA RepeatsIs ==
    ASSUME NEW d, Repeats(d), NEW a \in Int
    PROVE  /\ d.step \in Nat
           /\ \A i \in DOMAIN d.until : Time(d.until[i], a) \in Int
<1>1. d.step \in Nat /\ d.until \in Seq(Whens)
  BY DEF Repeats, Directives
<1>2. ASSUME NEW i \in DOMAIN d.until PROVE Time(d.until[i], a) \in Int
  <2>1. d.until[i] \in Whens
    BY <1>1
  <2> QED
    BY <2>1, TimeIsInt
<1> QED
  BY <1>1, <1>2

LEMMA MultiplesFinite ==
    ASSUME NEW d, NEW a \in Int
    PROVE  IsFiniteSet(Multiples(d, a)) /\ Multiples(d, a) \subseteq Int
<1>1. a + 1 \in Int /\ Horizon \in Int
  BY ScheduleAssumption
<1>2. IsFiniteSet((a + 1)..Horizon)
  BY <1>1, FS_Interval
<1>3. Multiples(d, a) \subseteq (a + 1)..Horizon
  BY DEF Multiples
<1>4. Multiples(d, a) \subseteq Int
  BY <1>1, <1>3
<1> QED
  BY <1>2, <1>3, <1>4, FS_Subset

\* After a multiple comes the next one: nothing between.
LEMMA NextMultiple ==
    ASSUME NEW d, Repeats(d), d.step > 0, NEW a \in Int, NEW k \in Nat,
           NEW m \in Multiples(d, a), m > a + k * d.step
    PROVE  m >= a + (k + 1) * d.step
<1> DEFINE s == d.step
           x == m - a
           q == x \div s
<1>0. s \in Nat \ {0} /\ m \in Int
  BY RepeatsIs, MultiplesFinite
<1>1. x % s = 0 /\ x \in Int
  BY <1>0 DEF Multiples
<1>2. x = s * q /\ q \in Int
  <2>1. x = s * q + (x % s) /\ q \in Int
    <3>1. s \in Int /\ s > 0 /\ x \in Int
      BY <1>0, <1>1
    <3> HIDE DEF x, s
    <3> QED
      BY <3>1
  <2> HIDE DEF x, s, q
  <2> QED
    BY <1>0, <1>1, <2>1
<1>3. k * s \in Int /\ (k + 1) * s \in Int /\ x > k * s
  <2> HIDE DEF s
  <2>1. k * s \in Int /\ (k + 1) * s \in Int
    BY <1>0
  <2>2. m > a + k * s
    BY DEF s
  <2> QED
    BY <1>0, <2>1, <2>2
<1> HIDE DEF x, s, q
<1>4. q > k
  <2>1. ASSUME q <= k PROVE FALSE
    <3>1. s * q <= s * k
      BY <1>0, <1>2, <2>1
    <3>2. s * k = k * s /\ s * q \in Int
      BY <1>0, <1>2
    <3> QED
      BY <1>2, <1>3, <3>1, <3>2
  <2> QED
    BY <1>2, <2>1
<1>5. s * q >= s * (k + 1)
  BY <1>0, <1>2, <1>4
<1>6. s * (k + 1) = (k + 1) * s
  BY <1>0
<1>7. x >= (k + 1) * s
  BY <1>2, <1>5, <1>6
<1> QED
  BY <1>0, <1>3, <1>7 DEF x, s

\* What an "every" reaches in time is one of its multiples.
LEMMA StepIsMultiple ==
    ASSUME NEW d, Repeats(d), d.step > 0, NEW a \in Int, NEW k \in Nat, NEW u \in Int,
           u = a + (k + 1) * d.step, u <= Horizon, \A i \in DOMAIN d.until : ~(u > Time(d.until[i], a))
    PROVE  u \in Multiples(d, a)
<1> DEFINE s == d.step
<1>0. s \in Nat \ {0} /\ Horizon \in Nat
  BY RepeatsIs, ScheduleAssumption
<1>1. (k + 1) * s >= s /\ (k + 1) * s \in Int
  <2> HIDE DEF s
  <2> QED
    BY <1>0
<1>2. u - a = (k + 1) * s
  <2> HIDE DEF s
  <2>1. u = a + (k + 1) * s
    BY DEF s
  <2> QED
    BY <1>1, <2>1
<1>3. ((k + 1) * s) % s = 0
  <2> HIDE DEF s
  <2>1. (s * (k + 1) + 0) % s = 0
    <3>1. 0 \in 0..s - 1 /\ k + 1 \in Int
      BY <1>0
    <3> QED
      BY <1>0, <3>1, Division
  <2>2. s * (k + 1) + 0 = (k + 1) * s
    BY <1>0
  <2> QED
    BY <2>1, <2>2
<1>4. u \in (a + 1)..Horizon
  <2> HIDE DEF s
  <2>1. (k + 1) * s >= 1
    BY <1>0, <1>1
  <2> QED
    BY <1>0, <1>1, <1>2, <2>1
<1>5. \A i \in DOMAIN d.until : u <= Time(d.until[i], a)
  BY RepeatsIs
<1> QED
  BY <1>0, <1>2, <1>3, <1>4, <1>5 DEF Multiples

(***************************************************************************)
(* The schedule and what the file asks for.                                *)
(***************************************************************************)
Asked(n) == Upcoming(Written, n)
Meant == Multiples(file[lno], anchor)

\* The lines read so far, the times they ask for, and the anchor they leave.
Prefix ==
    /\ lno \in 1..Len(file) + 1
    /\ Written[lno - 1].times \subseteq Int /\ IsFiniteSet(Written[lno - 1].times)
    /\ Written[lno - 1].anchor = anchor

\* Between lines.
Between ==
    ~looping =>
      /\ Drawn(sched, Asked(lno - 1))
      /\ Lossless(Written, lno - 1) => Fills(sched, max, Asked(lno - 1))

\* In the loop of an "every".  One whose step is zero and that has scheduled the
\* anchor goes on for ever, since the anchor stays where it is.
ReachedBy(k) == reached = anchor + k * file[lno].step
Stuck == file[lno].step = 0 /\ Scheduled(anchor) /\ anchor > after /\ ~PastUntil(anchor)
SoFar == Asked(lno - 1) \cup {u \in Meant : u <= reached}
During ==
    looping =>
      /\ Readable(file[lno], anchor)
      /\ \E k \in Nat : ReachedBy(k)
      /\ Drawn(sched, Asked(lno - 1) \cup Meant) \/ Stuck
      /\ Lossless(Written, lno) => Fills(sched, max, SoFar)

ReadInv == ScheduleInv /\ Prefix /\ Between /\ During

\* The next line.
LEMMA LineIs ==
    ASSUME ReadInv, lno \in DOMAIN file
    PROVE  /\ lno \in 1..Len(file) /\ lno \in Nat /\ (lno + 1) - 1 = lno
           /\ file[lno] \in Directives /\ anchor \in Int
           /\ Written[lno] = WrittenBy(file[lno], Written[lno - 1])
           /\ Written[lno - 1].times \subseteq Int /\ IsFiniteSet(Written[lno - 1].times)
           /\ Written[lno - 1].anchor = anchor
           /\ Lossless(Written, lno) => Lossless(Written, lno - 1)
<1>1. file \in Seq(Directives) /\ anchor \in Int /\ lno \in Nat
  BY DEF ReadInv, ScheduleInv, ScheduleTyped
<1>2. Len(file) \in Nat /\ lno \in 1..Len(file)
  BY <1>1
<1>3. Written[lno] = WrittenBy(file[lno], Written[lno - 1])
  BY <1>2, WrittenIs
<1>4. file[lno] \in Directives
  BY <1>1, <1>2
<1>5. Lossless(Written, lno) => Lossless(Written, lno - 1)
  <2>1. \A i \in 1..lno - 1 : i \in 1..lno
    BY <1>1
  <2> QED
    BY <2>1 DEF Lossless
<1>6. (lno + 1) - 1 = lno
  BY <1>1
<1> QED
  BY <1>1, <1>2, <1>3, <1>4, <1>5, <1>6 DEF ReadInv, Prefix

\* What the lines ask for does not change while they are read.
LEMMA AskedSame ==
    ASSUME UNCHANGED caller
    PROVE  /\ Written' = Written
           /\ \A n : Asked(n)' = Asked(n)
           /\ \A n : Lossless(Written, n)' = Lossless(Written, n)
           /\ file' = file /\ max' = max /\ after' = after /\ start' = start
<1>1. file' = file /\ max' = max /\ after' = after /\ start' = start
  BY DEF caller
<1>2. Written' = Written
  BY <1>1 DEF Written
<1>3. \A n : Asked(n)' = Asked(n)
  BY <1>1, <1>2 DEF Asked, Upcoming
<1>4. \A n : Lossless(Written, n)' = Lossless(Written, n)
  BY <1>1, <1>2 DEF Lossless, Upcoming
<1> QED
  BY <1>1, <1>2, <1>3, <1>4

LEMMA AskedFinite ==
    ASSUME ReadInv
    PROVE  Asked(lno - 1) \subseteq Int /\ IsFiniteSet(Asked(lno - 1))
<1>1. Asked(lno - 1) \subseteq Written[lno - 1].times
  BY DEF Asked, Upcoming
<1>2. Written[lno - 1].times \subseteq Int /\ IsFiniteSet(Written[lno - 1].times)
  BY DEF ReadInv, Prefix
<1> QED
  BY <1>1, <1>2, FS_Subset

LEMMA ReadInvInit == ScheduleInit => ReadInv
<1> SUFFICES ASSUME ScheduleInit PROVE ReadInv
  OBVIOUS
<1>1. ScheduleInv
  BY ScheduleInvInit
<1>2. file \in Seq(Directives) /\ lno = 1 /\ anchor = start /\ sched = <<>> /\ ~looping
  BY ScheduleAssumption DEF ScheduleInit
<1>3. Len(file) \in Nat /\ lno - 1 = 0 /\ lno \in 1..Len(file) + 1
  BY <1>2
<1>4. Written[0] = Nothing
  BY <1>3, WrittenIs
<1>5. Written[lno - 1].times = {} /\ Written[lno - 1].anchor = anchor
  BY <1>2, <1>3, <1>4 DEF Nothing
<1>6. Prefix
  BY <1>3, <1>5, FS_EmptySet DEF Prefix
<1>7. Asked(lno - 1) = {}
  BY <1>5 DEF Asked, Upcoming
<1>8. Len(sched) = 0
  BY <1>2
<1>9. Between
  BY <1>7, <1>8 DEF Between, Drawn, Fills
<1> QED
  BY <1>1, <1>2, <1>6, <1>9 DEF ReadInv, During

LEMMA NothingMoved ==
    ASSUME ReadInv, UNCHANGED <<caller, lno, sched, anchor, looping, reached>>
    PROVE  ReadInv'
<1>0. /\ lno' = lno /\ sched' = sched /\ anchor' = anchor /\ looping' = looping /\ reached' = reached
      /\ file' = file /\ max' = max /\ after' = after /\ start' = start
      /\ Written' = Written
      /\ \A n : Asked(n)' = Asked(n)
      /\ \A n : Lossless(Written, n)' = Lossless(Written, n)
  BY AskedSame
<1>1. ScheduleInv'
  BY <1>0 DEF ReadInv, ScheduleInv, ScheduleTyped, WellFormed
<1>2. Prefix'
  BY <1>0 DEF ReadInv, Prefix
<1>3. Between'
  BY <1>0 DEF ReadInv, Between
<1>4. During'
  <2>1. Meant' = Meant
    BY <1>0 DEF Meant
  <2>2. SoFar' = SoFar
    BY <1>0, <2>1 DEF SoFar
  <2>3. Stuck' = Stuck
    BY <1>0 DEF Stuck, PastUntil, Scheduled
  <2>4. \A k : ReachedBy(k)' = ReachedBy(k)
    BY <1>0 DEF ReachedBy
  <2>5. Readable(file[lno], anchor)' = Readable(file[lno], anchor)
    BY <1>0
  <2> QED
    BY <1>0, <2>1, <2>2, <2>3, <2>4, <2>5 DEF ReadInv, During
<1> QED
  BY <1>1, <1>2, <1>3, <1>4 DEF ReadInv

\* A line is done.
LEMMA LineDone ==
    ASSUME ReadInv, ScheduleInv', lno \in DOMAIN file, UNCHANGED caller, lno' = lno + 1, looping' = FALSE,
           Written[lno].times \subseteq Int, IsFiniteSet(Written[lno].times), Written[lno].anchor = anchor',
           Drawn(sched', Asked(lno)), Lossless(Written, lno) => Fills(sched', max, Asked(lno))
    PROVE  ReadInv'
<1>0. /\ file' = file /\ max' = max /\ after' = after /\ start' = start
      /\ Written' = Written
      /\ \A n : Asked(n)' = Asked(n)
      /\ \A n : Lossless(Written, n)' = Lossless(Written, n)
  BY AskedSame
<1>1. lno' - 1 = lno /\ lno' \in 1..Len(file) + 1
  BY LineIs
<1>2. Prefix'
  BY <1>0, <1>1 DEF Prefix
<1>3. Between'
  <2>1. Asked(lno - 1)' = Asked(lno)
    BY <1>0, <1>1 DEF Asked, Upcoming
  <2>2. Lossless(Written, lno - 1)' <=> Lossless(Written, lno)
    BY <1>0, <1>1 DEF Lossless, Upcoming
  <2>3. Drawn(sched, Asked(lno - 1))' <=> Drawn(sched', Asked(lno))
    BY <2>1 DEF Drawn
  <2>4. Fills(sched, max, Asked(lno - 1))' <=> Fills(sched', max, Asked(lno))
    BY <1>0, <2>1 DEF Fills
  <2> QED
    BY <2>2, <2>3, <2>4 DEF Between
<1>4. During'
  BY DEF During
<1> QED
  BY <1>2, <1>3, <1>4 DEF ReadInv

LEMMA SkipLineRead == ASSUME ReadInv, ScheduleInv', SkipLine PROVE ReadInv'
<1>1. /\ lno \in DOMAIN file /\ ~Readable(file[lno], anchor) /\ ~looping /\ looping' = FALSE
      /\ lno' = lno + 1 /\ anchor' = anchor /\ sched' = sched /\ UNCHANGED caller
  BY DEF SkipLine, ReadInv, ScheduleInv, ScheduleTyped
<1>2. Written[lno] = Written[lno - 1]
  BY <1>1, LineIs DEF WrittenBy
<1>3. Asked(lno) = Asked(lno - 1)
  BY <1>2 DEF Asked, Upcoming
<1>4. Drawn(sched', Asked(lno)) /\ (Lossless(Written, lno) => Fills(sched', max, Asked(lno)))
  BY <1>1, <1>3, LineIs DEF ReadInv, Between
<1> QED
  BY <1>1, <1>2, <1>4, LineIs, LineDone

LEMMA ReadTimeRead == ASSUME ReadInv, ScheduleInv', ReadTime PROVE ReadInv'
<1> DEFINE u == Time(file[lno].when, anchor)
<1>1. /\ lno \in DOMAIN file /\ Readable(file[lno], anchor) /\ file[lno].kind = "time" /\ ~looping
      /\ looping' = FALSE /\ lno' = lno + 1 /\ anchor' = u /\ sched' = Inserted(u) /\ UNCHANGED caller
  BY DEF ReadTime, Reading
<1>2. u \in Int /\ ScheduleInv /\ after \in Int
  BY <1>1, LineTyped, SchedIs DEF ReadInv, ScheduleInv
<1> HIDE DEF u
<1>3. /\ Written[lno].times = Written[lno - 1].times \cup {u}
      /\ Written[lno].anchor = u
  BY <1>1, LineIs DEF WrittenBy, u
<1>4. Written[lno].times \subseteq Int /\ IsFiniteSet(Written[lno].times)
  <2> DEFINE T == Written[lno - 1].times
  <2>1. T \subseteq Int /\ IsFiniteSet(T)
    BY <1>1, LineIs
  <2> HIDE DEF T
  <2>2. T \cup {u} \subseteq Int /\ IsFiniteSet(T \cup {u})
    BY <1>2, <2>1, FS_AddElement
  <2> QED
    BY <1>3, <2>2 DEF T
<1>5. Asked(lno) = Asked(lno - 1) \cup (IF u > after THEN {u} ELSE {})
  BY <1>3 DEF Asked, Upcoming
<1>6. Drawn(sched, Asked(lno - 1)) /\ (Lossless(Written, lno) => Fills(sched, max, Asked(lno - 1)))
  BY <1>1, LineIs DEF ReadInv, Between
<1>7. Drawn(Inserted(u), Asked(lno))
  <2>1. Drawn(sched, Asked(lno)) /\ (u > after => u \in Asked(lno))
    BY <1>5, <1>6 DEF Drawn
  <2> QED
    BY <1>2, <2>1, InsertedDrawn
<1>8. ASSUME Lossless(Written, lno) PROVE Fills(Inserted(u), max, Asked(lno))
  <2>1. CASE u > after
    <3>1. Asked(lno - 1) \in SUBSET Int
      BY AskedFinite
    <3>2. Fills(Inserted(u), max, Asked(lno - 1) \cup {u})
      BY <1>2, <1>6, <1>8, <2>1, <3>1, InsertedFills
    <3> QED
      BY <1>5, <2>1, <3>2
  <2>2. CASE ~(u > after)
    <3>1. Inserted(u) = sched
      BY <1>2, <2>2 DEF Inserted, Outside
    <3> QED
      BY <1>5, <1>6, <1>8, <2>2, <3>1
  <2> QED
    BY <2>1, <2>2
<1> QED
  BY <1>1, <1>3, <1>4, <1>7, <1>8, LineDone

LEMMA ReadSkipRead == ASSUME ReadInv, ScheduleInv', ReadSkip PROVE ReadInv'
<1> DEFINE u == Time(file[lno].when, anchor)
           S == Asked(lno - 1)
<1>1. /\ lno \in DOMAIN file /\ Readable(file[lno], anchor) /\ file[lno].kind = "skip" /\ ~looping
      /\ looping' = FALSE /\ lno' = lno + 1 /\ anchor' = anchor /\ sched' = Deleted(u) /\ UNCHANGED caller
  BY DEF ReadSkip, Reading
<1>2. u \in Int /\ ScheduleInv
  BY <1>1, LineTyped DEF ReadInv, ScheduleInv
<1> HIDE DEF u
<1>3. /\ Written[lno].times = Written[lno - 1].times \ {u}
      /\ Written[lno].anchor = anchor
  BY <1>1, LineIs DEF WrittenBy, u
<1>4. Written[lno].times \subseteq Int /\ IsFiniteSet(Written[lno].times)
  BY <1>1, <1>3, LineIs, FS_RemoveElement, FS_Subset
<1>5. Asked(lno) = S \ {u}
  BY <1>3 DEF Asked, Upcoming
<1>6. Drawn(sched, S) /\ (Lossless(Written, lno) => Fills(sched, max, S))
  BY <1>1, LineIs DEF ReadInv, Between
<1>7. \A v : In(Deleted(u), v) <=> In(sched, v) /\ v # u
  BY <1>2, DeletedIs
<1>8. Drawn(Deleted(u), Asked(lno))
  <2>1. \A v : In(sched, v) => v \in S
    BY <1>6 DEF Drawn, In
  <2>2. \A v : In(Deleted(u), v) => v \in Asked(lno)
    BY <1>5, <1>7, <2>1
  <2> QED
    BY <2>2 DEF Drawn, In
<1>9. ASSUME Lossless(Written, lno) PROVE Fills(Deleted(u), max, Asked(lno))
  <2>1. Cardinality(S) <= max
    BY <1>1, <1>9, LineIs DEF Lossless, Asked
  <2>2. S \in SUBSET Int /\ IsFiniteSet(S)
    BY AskedFinite
  <2>3. \A v \in S : In(sched, v)
    <3> HIDE DEF S
    <3> QED
      BY <1>2, <1>6, <1>9, <2>1, <2>2, AllFits
  <2> QED
    BY <1>5, <1>7, <2>3 DEF Fills
<1> QED
  BY <1>1, <1>3, <1>4, <1>8, <1>9, LineDone

LEMMA BeginEveryRead == ASSUME ReadInv, ScheduleInv', BeginEvery PROVE ReadInv'
<1>1. /\ lno \in DOMAIN file /\ Readable(file[lno], anchor) /\ file[lno].kind = "every" /\ ~looping
      /\ looping' = TRUE /\ reached' = anchor /\ lno' = lno /\ anchor' = anchor /\ sched' = sched
      /\ UNCHANGED caller
  BY DEF BeginEvery, Reading
<1>0. /\ file' = file /\ max' = max /\ after' = after /\ start' = start
      /\ Written' = Written
      /\ \A n : Asked(n)' = Asked(n)
      /\ \A n : Lossless(Written, n)' = Lossless(Written, n)
  BY <1>1, AskedSame
<1>2. Prefix'
  BY <1>0, <1>1 DEF ReadInv, Prefix
<1>3. Between'
  BY <1>1 DEF Between
<1>4. file[lno].step \in Nat /\ anchor \in Int
  BY <1>1, LineTyped DEF ReadInv, ScheduleInv, ScheduleTyped
<1>5. ReachedBy(0)'
  <2>1. 0 * file[lno].step = 0
    BY <1>4
  <2> QED
    BY <1>0, <1>1, <1>4, <2>1 DEF ReachedBy
<1>6. Drawn(sched, Asked(lno - 1) \cup Meant)
  BY <1>1 DEF ReadInv, Between, Drawn
<1>7. Lossless(Written, lno) => Fills(sched, max, Asked(lno - 1))
  BY <1>1, LineIs DEF ReadInv, Between
<1>8. (Asked(lno - 1) \cup Meant)' = Asked(lno - 1) \cup Meant
  BY <1>0, <1>1 DEF Meant
<1>9. SoFar' = Asked(lno - 1)
  <2>1. \A u \in Meant : ~(u <= anchor)
    BY <1>4 DEF Meant, Multiples
  <2>2. Meant' = Meant
    BY <1>0, <1>1 DEF Meant
  <2> QED
    BY <1>0, <1>1, <2>1, <2>2 DEF SoFar
<1>10. Lossless(Written, lno)' <=> Lossless(Written, lno)
  BY <1>0, <1>1
<1>11. During'
  <2>1. Readable(file[lno], anchor)'
    BY <1>0, <1>1
  <2>2. (\E k \in Nat : ReachedBy(k))'
    BY <1>5
  <2>3. Drawn(sched, Asked(lno - 1) \cup Meant)'
    BY <1>1, <1>6, <1>8
  <2>4. (Lossless(Written, lno) => Fills(sched, max, SoFar))'
    BY <1>0, <1>1, <1>7, <1>9, <1>10
  <2> QED
    BY <2>1, <2>2, <2>3, <2>4 DEF During
<1> QED
  BY <1>2, <1>3, <1>11 DEF ReadInv

\* Where the loop of an "every" is.
LEMMA LoopIs ==
    ASSUME ReadInv, looping
    PROVE  /\ lno \in DOMAIN file /\ Repeats(file[lno]) /\ file[lno].step \in Nat
           /\ Readable(file[lno], anchor) /\ anchor \in Int /\ reached \in Int /\ ScheduleInv
           /\ \E k \in Nat : ReachedBy(k)
           /\ Drawn(sched, Asked(lno - 1) \cup Meant) \/ Stuck
           /\ Lossless(Written, lno) =>
                Fills(sched, max, SoFar) /\ file[lno].step > 0 /\ anchor + file[lno].step > after
           /\ \A u \in Int : PastUntil(u) <=> ~\A i \in DOMAIN file[lno].until :
                                               ~(u > Time(file[lno].until[i], anchor))
<1>1. lno \in DOMAIN file /\ file[lno].kind = "every" /\ anchor \in Int /\ reached \in Int
  BY DEF ReadInv, ScheduleInv, ScheduleTyped
<1>2. Repeats(file[lno])
  BY <1>1, LineIs DEF Repeats
<1>3. /\ Readable(file[lno], anchor) /\ \E k \in Nat : ReachedBy(k)
      /\ Drawn(sched, Asked(lno - 1) \cup Meant) \/ Stuck
      /\ Lossless(Written, lno) => Fills(sched, max, SoFar)
  BY DEF ReadInv, During
<1>4. Lossless(Written, lno) => file[lno].step > 0 /\ anchor + file[lno].step > after
  BY <1>1, <1>3, LineIs DEF Lossless
<1>5. \A u \in Int : PastUntil(u) <=> ~\A i \in DOMAIN file[lno].until :
                                               ~(u > Time(file[lno].until[i], anchor))
  BY DEF PastUntil
<1> QED
  BY <1>1, <1>2, <1>3, <1>4, <1>5, RepeatsIs DEF ReadInv

\* The time a turn comes to, and what it adds to the times meant so far.
LEMMA TurnIs ==
    ASSUME ReadInv, looping, NEW k \in Nat, ReachedBy(k), NEW u \in Int, u = reached + file[lno].step
    PROVE  /\ u = anchor + (k + 1) * file[lno].step
           /\ file[lno].step > 0 => u >= anchor + file[lno].step
           /\ file[lno].step > 0 => \A m \in Meant : m > reached => m >= u
           /\ file[lno].step > 0 /\ u <= Horizon /\ ~PastUntil(u) => u \in Meant
           /\ file[lno].step = 0 => u = anchor
<1> DEFINE d == file[lno]
           s == d.step
<1>0. Repeats(d) /\ s \in Nat /\ anchor \in Int /\ reached \in Int
  BY LoopIs
<1>1. reached = anchor + k * s
  BY DEF ReachedBy
<1>2. k * s \in Nat /\ (k + 1) * s = k * s + s
  <2> HIDE DEF s
  <2> QED
    BY <1>0
<1>3. u = anchor + (k + 1) * s
  <2> HIDE DEF d
  <2> QED
    BY <1>0, <1>1, <1>2 DEF d
<1>4. u >= anchor + s
  BY <1>0, <1>2, <1>3
<1>5. ASSUME s > 0, NEW m \in Meant, m > reached PROVE m >= u
  <2>1. m \in Multiples(d, anchor) /\ m > anchor + k * s
    BY <1>1, <1>5 DEF Meant
  <2> HIDE DEF d
  <2> QED
    BY <1>0, <1>3, <1>5, <2>1, NextMultiple
<1>6. ASSUME s > 0, u <= Horizon, ~PastUntil(u) PROVE u \in Meant
  <2>1. \A i \in DOMAIN d.until : ~(u > Time(d.until[i], anchor))
    BY <1>6, LoopIs
  <2>2. u \in Multiples(d, anchor)
    <3> HIDE DEF d
    <3> QED
      BY <1>0, <1>3, <1>6, <2>1, StepIsMultiple
  <2> QED
    BY <2>2 DEF Meant
<1>7. s = 0 => u = anchor
  <2> HIDE DEF s
  <2>1. s = 0 => (k + 1) * s = 0
    BY <1>2
  <2> QED
    BY <1>0, <1>3, <2>1
<1> QED
  BY <1>3, <1>4, <1>5, <1>6, <1>7

\* What is inserted is there.
LEMMA InsertedIn ==
    ASSUME ScheduleInv, NEW u \in Int, ~Outside(u)
    PROVE  In(Inserted(u), u)
<1>1. CASE Scheduled(u)
  <2>1. Inserted(u) = sched /\ In(sched, u)
    BY <1>1, SchedIs DEF Inserted
  <2> QED
    BY <2>1
<1>2. CASE ~Scheduled(u)
  <2> DEFINE r == Inserted(u)
             n == Len(sched)
  <2>1. PICK p \in 0..n :
             /\ p < max
             /\ Len(r) = IF n < max THEN n + 1 ELSE max
             /\ \A i \in 1..Len(r) : r[i] = IF i <= p THEN sched[i] ELSE IF i = p + 1 THEN u ELSE sched[i - 1]
    BY <1>2, InsertedIs
  <2>2. n \in Nat /\ max \in Nat
    BY SchedIs
  <2> HIDE DEF r
  <2>3. p + 1 \in 1..Len(r) /\ ~(p + 1 <= p)
    BY <2>1, <2>2
  <2>4. r[p + 1] = u
    BY <2>1, <2>3
  <2> QED
    BY <2>3, <2>4 DEF In, r
<1> QED
  BY <1>1, <1>2

LEMMA EveryStepRead == ASSUME ReadInv, ScheduleInv', EveryStep PROVE ReadInv'
<1> DEFINE d == file[lno]
           S == Asked(lno - 1)
<1>1. /\ looping /\ looping' /\ reached' = reached + d.step /\ lno' = lno /\ anchor' = anchor
      /\ reached' <= Horizon /\ ~PastUntil(reached') /\ ~Outside(reached') /\ sched' = Inserted(reached')
      /\ UNCHANGED caller
  BY DEF EveryStep, ReadInv, ScheduleInv, ScheduleTyped
<1>0. /\ file' = file /\ max' = max /\ after' = after /\ start' = start
      /\ Written' = Written
      /\ \A n : Asked(n)' = Asked(n)
      /\ \A n : Lossless(Written, n)' = Lossless(Written, n)
  BY <1>1, AskedSame
<1>2. Prefix'
  BY <1>0, <1>1 DEF ReadInv, Prefix
<1>3. Between'
  BY <1>1 DEF Between
<1>4. d.step \in Nat /\ anchor \in Int /\ reached \in Int /\ ScheduleInv
  BY <1>1, LoopIs
<1>5. PICK u \in Int : u = reached'
  BY <1>1, <1>4
<1>6. PICK k \in Nat : ReachedBy(k)
  BY <1>1, LoopIs
<1>7. /\ u = anchor + (k + 1) * d.step
      /\ d.step > 0 => u >= anchor + d.step
      /\ d.step > 0 => \A m \in Meant : m > reached => m >= u
      /\ d.step > 0 => u \in Meant
      /\ d.step = 0 => u = anchor
  BY <1>1, <1>5, <1>6, TurnIs
<1>8. Meant' = Meant /\ SoFar' = S \cup {x \in Meant : x <= u}
  BY <1>0, <1>1, <1>5 DEF Meant, SoFar
<1>9. Readable(file[lno], anchor)'
  BY <1>0, <1>1, LoopIs
<1>10. (\E j \in Nat : ReachedBy(j))'
  <2>1. ReachedBy(k + 1)'
    BY <1>0, <1>1, <1>5, <1>7 DEF ReachedBy
  <2> QED
    BY <2>1
<1>11. u > after
  BY <1>1, <1>4, <1>5, SchedIs DEF Outside
<1>12. Drawn(Inserted(u), S \cup Meant) \/ (d.step = 0 /\ In(Inserted(u), anchor) /\ anchor > after /\ ~PastUntil(anchor))
  <2>1. CASE d.step = 0
    <3>1. u = anchor
      BY <1>7, <2>1
    <3>2. In(Inserted(u), u)
      BY <1>1, <1>4, <1>5, InsertedIn
    <3> QED
      BY <1>1, <1>5, <1>11, <2>1, <3>1, <3>2
  <2>2. CASE d.step > 0
    <3>1. Drawn(sched, S \cup Meant)
      BY <1>1, <1>4, <2>2, LoopIs DEF Stuck
    <3>2. u \in S \cup Meant
      BY <1>7, <2>2
    <3> HIDE DEF S
    <3> QED
      BY <1>4, <3>1, <3>2, InsertedDrawn
  <2> QED
    BY <1>4, <2>1, <2>2
<1>13. (Drawn(sched, Asked(lno - 1) \cup Meant) \/ Stuck)'
  <2>1. Drawn(sched, Asked(lno - 1) \cup Meant)' <=> Drawn(Inserted(u), S \cup Meant)
    BY <1>0, <1>1, <1>5, <1>8 DEF Drawn
  <2>2. Stuck' <=> (d.step = 0 /\ In(Inserted(u), anchor) /\ anchor > after /\ ~PastUntil(anchor))
    <3>1. Scheduled(anchor)' <=> In(sched', anchor)
      <4>1. DOMAIN sched' = 1..Len(sched')
        BY DEF ScheduleInv, WellFormed
      <4> QED
        BY <1>1, <4>1 DEF Scheduled, In
    <3>2. PastUntil(anchor)' <=> PastUntil(anchor)
      BY <1>0, <1>1 DEF PastUntil
    <3> QED
      BY <1>0, <1>1, <1>5, <3>1, <3>2 DEF Stuck
  <2> QED
    BY <1>12, <2>1, <2>2
<1>14. ASSUME Lossless(Written, lno) PROVE Fills(Inserted(u), max, S \cup {x \in Meant : x <= u})
  <2>1. Fills(sched, max, SoFar) /\ d.step > 0
    BY <1>1, <1>14, LoopIs
  <2>2. SoFar \in SUBSET Int
    BY AskedFinite, MultiplesFinite, <1>4 DEF SoFar, Meant
  <2>3. Fills(Inserted(u), max, SoFar \cup {u})
    BY <1>4, <1>11, <2>1, <2>2, InsertedFills
  <2>4. S \cup {x \in Meant : x <= u} \subseteq SoFar \cup {u}
    <3> SUFFICES ASSUME NEW x \in Meant, x <= u, x # u
                 PROVE  x <= reached
      BY DEF SoFar
    <3>1. x \in Int
      BY <1>4, MultiplesFinite DEF Meant
    <3>2. ~(x > reached)
      BY <1>7, <2>1, <3>1
    <3> QED
      BY <1>4, <3>1, <3>2
  <2> QED
    BY <2>3, <2>4 DEF Fills
<1>15. (Lossless(Written, lno) => Fills(sched, max, SoFar))'
  <2>1. Lossless(Written, lno)' <=> Lossless(Written, lno)
    BY <1>0, <1>1
  <2>2. Fills(sched, max, SoFar)' <=> Fills(Inserted(u), max, S \cup {x \in Meant : x <= u})
    BY <1>0, <1>1, <1>5, <1>8 DEF Fills
  <2> QED
    BY <1>14, <2>1, <2>2
<1>16. During'
  BY <1>9, <1>10, <1>13, <1>15 DEF During
<1> QED
  BY <1>2, <1>3, <1>16 DEF ReadInv

LEMMA EndEveryRead == ASSUME ReadInv, ScheduleInv', EndEvery PROVE ReadInv'
<1> DEFINE d == file[lno]
           S == Asked(lno - 1)
<1>1. /\ looping /\ looping' = FALSE /\ reached' = reached + d.step /\ lno' = lno + 1 /\ anchor' = anchor
      /\ PastUntil(reached') \/ Outside(reached')
      /\ sched' = sched /\ UNCHANGED caller
  BY DEF EndEvery
<1>2. /\ lno \in DOMAIN file /\ d.kind = "every" /\ Readable(d, anchor)
      /\ d.step \in Nat /\ anchor \in Int /\ reached \in Int /\ ScheduleInv
  BY <1>1, LoopIs DEF Repeats
<1>3. PICK u \in Int : u = reached'
  BY <1>1, <1>2
<1>4. PICK k \in Nat : ReachedBy(k)
  BY <1>1, LoopIs
<1>5. /\ d.step > 0 => u >= anchor + d.step
      /\ d.step > 0 => \A m \in Meant : m > reached => m >= u
      /\ d.step = 0 => u = anchor
  BY <1>1, <1>3, <1>4, TurnIs
<1>6. /\ Written[lno].times = Written[lno - 1].times \cup Meant
      /\ Written[lno].anchor = anchor
  BY <1>2, LineIs DEF WrittenBy, Meant
<1>7. Meant \subseteq Int /\ IsFiniteSet(Meant)
  BY <1>2, MultiplesFinite DEF Meant
<1>8. Written[lno].times \subseteq Int /\ IsFiniteSet(Written[lno].times)
  <2> DEFINE T == Written[lno - 1].times
  <2>1. T \subseteq Int /\ IsFiniteSet(T)
    BY <1>2, LineIs
  <2> HIDE DEF T
  <2>2. T \cup Meant \subseteq Int /\ IsFiniteSet(T \cup Meant)
    BY <1>7, <2>1, FS_Union
  <2> QED
    BY <1>6, <2>2 DEF T
<1>9. Asked(lno) = S \cup {m \in Meant : m > after}
  BY <1>6 DEF Asked, Upcoming
<1>10. Drawn(sched, Asked(lno))
  <2>1. ~Stuck
    <3> SUFFICES ASSUME Stuck PROVE FALSE
      OBVIOUS
    <3>1. u = anchor /\ Scheduled(anchor) /\ anchor > after /\ ~PastUntil(anchor)
      BY <1>5 DEF Stuck
    <3>2. ~Outside(anchor)
      BY <1>2, <3>1, SchedIs DEF Outside
    <3> QED
      BY <1>1, <1>3, <3>1, <3>2
  <2>2. Drawn(sched, S \cup Meant)
    BY <1>1, <2>1, LoopIs
  <2>3. \A i \in 1..Len(sched) : sched[i] > after
    BY <1>2, SchedIs
  <2> QED
    BY <1>9, <2>2, <2>3 DEF Drawn
<1>11. ASSUME Lossless(Written, lno) PROVE Fills(sched, max, Asked(lno))
  <2>1. Fills(sched, max, SoFar) /\ d.step > 0 /\ anchor + d.step > after
    BY <1>1, <1>11, LoopIs
  <2>2. SUFFICES ASSUME NEW m \in Meant, m > reached
                 PROVE  Beyond(sched, max, m)
    <3>1. \A x \in Meant : x <= reached \/ x > reached
      <4>1. reached \in Int /\ \A x \in Meant : x \in Int
        BY <1>2, <1>7
      <4> QED
        BY <4>1
    <3> QED
      BY <1>9, <2>1, <2>2, <3>1, Zenon DEF Fills, SoFar
  <2>3. m >= u /\ m \in Int /\ u > after
    <3>1. after \in Int
      BY <1>2, SchedIs
    <3> QED
      BY <1>2, <1>5, <1>7, <2>1, <2>2, <3>1
  <2>4. ~PastUntil(u)
    <3>1. \A i \in DOMAIN d.until : m <= Time(d.until[i], anchor) /\ Time(d.until[i], anchor) \in Int
      <4>1. Repeats(d)
        BY <1>1, LoopIs
      <4> QED
        BY <1>2, <4>1, RepeatsIs DEF Meant, Multiples
    <3>2. \A i \in DOMAIN d.until : ~(u > Time(d.until[i], anchor))
      BY <2>3, <3>1
    <3> QED
      BY <3>2 DEF PastUntil
  <2>5. Outside(u) /\ ~(u <= after)
    <3>1. after \in Int
      BY <1>2, SchedIs
    <3> QED
      BY <1>1, <1>3, <2>3, <2>4, <3>1
  <2>6. Position(u) >= max
    BY <2>5 DEF Outside
  <2> DEFINE n == Len(sched)
  <2>7. /\ n \in Nat /\ n <= max /\ max \in Nat
        /\ Position(u) \in 0..n /\ \A i \in 1..n : sched[i] < u <=> i <= Position(u)
    BY <1>2, SchedIs, PositionSplits DEF ScheduleInv, WellFormed
  <2>8. n = max /\ \A i \in 1..n : sched[i] < u /\ sched[i] \in Int
    <3>1. \A i \in 1..n : sched[i] \in Int
      BY <1>2, SchedIs
    <3> DEFINE p == Position(u)
    <3>2. p \in 0..n /\ p >= max /\ n \in Nat /\ max \in Nat /\ n <= max
      BY <2>6, <2>7
    <3>3. \A i \in 1..n : sched[i] < u <=> i <= p
      BY <2>7
    <3> HIDE DEF p, n
    <3>4. n = max /\ p = n
      BY <3>2
    <3>5. \A i \in 1..n : i <= p
      BY <3>2, <3>4
    <3> QED
      BY <3>1, <3>3, <3>4, <3>5 DEF n
  <2>9. \A i \in 1..n : sched[i] < m
    BY <2>3, <2>8
  <2> QED
    BY <2>8, <2>9 DEF Beyond
<1> QED
  BY <1>1, <1>2, <1>6, <1>8, <1>10, <1>11, LineDone

LEMMA ReadInvStep == ReadInv /\ [ScheduleNext]_scheduleVars => ReadInv'
<1> SUFFICES ASSUME ReadInv, [ScheduleNext]_scheduleVars
             PROVE  ReadInv'
  OBVIOUS
<1>0. ScheduleInv'
  BY ScheduleInvStep DEF ReadInv
<1>1. CASE SkipLine
  BY <1>0, <1>1, SkipLineRead
<1>2. CASE ReadTime
  BY <1>0, <1>2, ReadTimeRead
<1>3. CASE ReadSkip
  BY <1>0, <1>3, ReadSkipRead
<1>4. CASE BeginEvery
  BY <1>0, <1>4, BeginEveryRead
<1>5. CASE EveryStep
  BY <1>0, <1>5, EveryStepRead
<1>6. CASE EndEvery
  BY <1>0, <1>6, EndEveryRead
<1>7. CASE Return
  <2>1. sched' = sched
    BY <1>7, SchedIs DEF Return, CutTo, ReadInv
  <2> QED
    BY <1>7, <2>1, NothingMoved DEF Return
<1>8. CASE UNCHANGED scheduleVars
  BY <1>8, NothingMoved DEF scheduleVars
<1> QED
  BY <1>1, <1>2, <1>3, <1>4, <1>5, <1>6, <1>7, <1>8 DEF ScheduleNext

\* After each line the reader holds nothing the file does not ask for and, unless the
\* file is one it loses something of, exactly the earliest times the file asks for, in
\* whatever order the lines insert, displace and take off (read_schedule).
THEOREM EarliestIsWritten == ScheduleSpec => []EarliestWritten
<1>1. ReadInv => EarliestWritten
  <2> SUFFICES ASSUME ReadInv, ~looping
               PROVE  /\ Range(sched) \subseteq Asked(lno - 1)
                      /\ Lossless(Written, lno - 1) => Range(sched) = Earliest(max, Asked(lno - 1))
    BY DEF EarliestWritten, Asked
  <2>1. ScheduleInv /\ Drawn(sched, Asked(lno - 1))
    BY DEF ReadInv, Between
  <2>2. Range(sched) \subseteq Asked(lno - 1)
    <3>1. DOMAIN sched = 1..Len(sched)
      BY <2>1, SchedIs
    <3> QED
      BY <2>1, <3>1 DEF Drawn, Range
  <2>3. ASSUME Lossless(Written, lno - 1) PROVE Range(sched) = Earliest(max, Asked(lno - 1))
    <3>1. Fills(sched, max, Asked(lno - 1))
      BY <2>3 DEF ReadInv, Between
    <3>2. Asked(lno - 1) \in SUBSET Int /\ IsFiniteSet(Asked(lno - 1))
      BY AskedFinite
    <3> QED
      BY <2>1, <3>1, <3>2, EarliestIs
  <2> QED
    BY <2>2, <2>3
<1> QED
  BY <1>1, ReadInvInit, ReadInvStep, PTL DEF ScheduleSpec
=============================================================================
