--------------------------- MODULE SessionsProofs ---------------------------
(***************************************************************************)
(* Proofs about what players share: module Sessions, for any number of     *)
(* connections and countries, and whatever the bounds on kills and lost    *)
(* C_INIT replies; and module Mail, for any number of nations, sessions    *)
(* and messages.                                                           *)
(***************************************************************************)
EXTENDS Sessions, Mail, Integers, FiniteSetTheorems, TLAPS

(***************************************************************************)
(* Typing, and that a task past the login dialogue has a country.          *)
(***************************************************************************)
HasCountry ==
    \A x \in Conns :
        phase[x] \in {"entering", "killing"} \cup Registered => cnum[x] \in Countries

\* Every variable keeps to its type, and a task that enters, plays, leaves
\* or kills knows the country it does it for (LoginCtx.cnum).
Typed == TypeOK /\ HasCountry

LEMMA TypedInit == Init => Typed
BY SessionsAssumption
DEF Init, Typed, TypeOK, HasCountry, Phases, Registered, InLoop

LEMMA TypedClient ==
    ASSUME Typed, NEW x \in Conns, Client(x)
    PROVE  Typed'
<1> USE SessionsAssumption DEF Typed, TypeOK, HasCountry, Phases, Registered, InLoop, GoTo, history, rows
<1>1. CASE Connect(x)
  BY <1>1 DEF Connect
<1>2. CASE Hangup(x)
  BY <1>2 DEF Hangup
<1>3. CASE Pass(x)
  BY <1>3 DEF Pass
<1>4. CASE KillLook(x)
  BY <1>4 DEF KillLook
<1>5. CASE \E c \in Countries : Coun(x, c)
  BY <1>5 DEF Coun
<1>6. ASSUME NEW c \in Countries \cup {None}, NEW pw \in {"none", "ok", "bad"},
             Play(x, c, pw)
      PROVE  Typed'
  BY <1>6 DEF Play
<1>7. CASE Command(x)
  BY <1>7 DEF Command
<1>8. CASE Drop(x)
  BY <1>8 DEF Drop
<1>9. CASE GreetFails(x)
  BY <1>9 DEF GreetFails
<1> QED
  BY <1>1, <1>2, <1>3, <1>4, <1>5, <1>6, <1>7, <1>8, <1>9 DEF Client

LEMMA TypedTask ==
    ASSUME Typed, NEW x \in Conns, Task(x)
    PROVE  Typed'
<1> USE SessionsAssumption DEF Typed, TypeOK, HasCountry, Phases, Registered, InLoop, GoTo, history, rows
<1>1. CASE Enter(x)
  BY <1>1 DEF Enter, TryEnter
<1>2. CASE Greet(x)
  BY <1>2 DEF Greet
<1>3. CASE RecordLogin(x)
  BY <1>3 DEF RecordLogin
<1>4. CASE Dispatch(x)
  BY <1>4 DEF Dispatch
<1>5. CASE RecordLogout(x)
  BY <1>5 DEF RecordLogout
<1>6. CASE Leave(x)
  BY <1>6 DEF Leave, RegistryLeave
<1>7. CASE KillEvict(x)
  BY <1>7 DEF KillEvict, RegistryLeave
<1> QED
  BY <1>1, <1>2, <1>3, <1>4, <1>5, <1>6, <1>7 DEF Task

\* The rows of nations under way elsewhere say nothing of the sessions.
LEMMA RowsAside ==
    ASSUME NEW c \in Countries, RowRead(c) \/ RowPut(c)
    PROVE  UNCHANGED <<phase, cnum, authed, registry, kills, initFails, late>>
BY DEF RowRead, RowPut, history

LEMMA TypedStep == Typed /\ [Next]_vars => Typed'
<1> SUFFICES ASSUME Typed, [Next]_vars PROVE Typed'
  OBVIOUS
<1>1. CASE UNCHANGED vars
  BY <1>1 DEF vars, Typed, TypeOK, HasCountry
<1>2. ASSUME NEW x \in Conns, Task(x) \/ Client(x) PROVE Typed'
  BY <1>2, TypedClient, TypedTask
<1>3. ASSUME NEW c \in Countries, RowRead(c) \/ RowPut(c) PROVE Typed'
  BY <1>3 DEF RowRead, RowPut, Typed, TypeOK, HasCountry, history
<1> QED
  BY <1>1, <1>2, <1>3 DEF Next

\* Types hold in every reachable state of the session protocol.
THEOREM TypeCorrect == Spec => []TypeOK
<1>1. Typed => TypeOK
  BY DEF Typed
<1> QED
  BY <1>1, TypedInit, TypedStep, PTL DEF Spec

-----------------------------------------------------------------------------
(***************************************************************************)
(* The registry of a country that "kill" left alone.                       *)
(***************************************************************************)

\* RegistryExact, connection by connection.
Exact ==
    \A c \in Countries : Undisturbed(c) =>
        \A x \in Conns :
            (cnum[x] = c /\ phase[x] \in Registered) <=> registry[c] = x

LEMMA ExactEquivalent == Typed => (Exact <=> RegistryExact)
<1> SUFFICES ASSUME Typed PROVE Exact <=> RegistryExact
  OBVIOUS
<1> USE SessionsAssumption DEF Typed, TypeOK
<1>1. ASSUME Exact, NEW c \in Countries, Undisturbed(c)
      PROVE  SessionsOf(c) = IF registry[c] = None THEN {} ELSE {registry[c]}
  BY <1>1 DEF Exact, SessionsOf
<1>2. ASSUME RegistryExact, NEW c \in Countries, Undisturbed(c), NEW x \in Conns
      PROVE  (cnum[x] = c /\ phase[x] \in Registered) <=> registry[c] = x
  <2>1. SessionsOf(c) = IF registry[c] = None THEN {} ELSE {registry[c]}
    BY <1>2 DEF RegistryExact
  <2> QED
    BY <2>1 DEF SessionsOf
<1> QED
  BY <1>1, <1>2 DEF Exact, RegistryExact

LEMMA ExactInit == Init => Exact
BY SessionsAssumption DEF Init, Exact, Registered, InLoop

\* The client's steps neither enter nor leave, except for the lost C_INIT
\* reply, which ends the claim.
LEMMA ExactClient ==
    ASSUME Typed, Exact, NEW x \in Conns, Client(x)
    PROVE  Exact'
<1> USE SessionsAssumption
    DEF Typed, TypeOK, Exact, Undisturbed, Registered, InLoop, Phases, GoTo, history, rows
<1>1. CASE Connect(x)
  BY <1>1 DEF Connect
<1>2. CASE Hangup(x)
  BY <1>2 DEF Hangup
<1>3. CASE Pass(x)
  BY <1>3 DEF Pass
<1>4. CASE KillLook(x)
  BY <1>4 DEF KillLook
<1>5. CASE \E c \in Countries : Coun(x, c)
  BY <1>5 DEF Coun
<1>6. ASSUME NEW c \in Countries \cup {None}, NEW pw \in {"none", "ok", "bad"},
             Play(x, c, pw)
      PROVE  Exact'
  BY <1>6 DEF Play
<1>7. CASE Command(x)
  BY <1>7 DEF Command
<1>8. CASE Drop(x)
  BY <1>8 DEF Drop
<1>9. CASE GreetFails(x)
  <2>1. initFails' # 0
    BY <1>9 DEF GreetFails
  <2> QED
    BY <2>1
<1> QED
  BY <1>1, <1>2, <1>3, <1>4, <1>5, <1>6, <1>7, <1>8, <1>9 DEF Client

LEMMA ExactTask ==
    ASSUME Typed, Exact, NEW x \in Conns, Task(x)
    PROVE  Exact'
<1> USE SessionsAssumption
    DEF Typed, TypeOK, HasCountry, Exact, Undisturbed, Registered, InLoop, Phases,
        GoTo, history, rows
<1>1. CASE Enter(x)
  BY <1>1 DEF Enter, TryEnter
<1>2. CASE Greet(x)
  BY <1>2 DEF Greet
<1>3. CASE RecordLogin(x)
  BY <1>3 DEF RecordLogin
<1>4. CASE Dispatch(x)
  BY <1>4 DEF Dispatch
<1>5. CASE RecordLogout(x)
  BY <1>5 DEF RecordLogout
<1>6. CASE Leave(x)
  BY <1>6 DEF Leave, RegistryLeave
<1>7. CASE KillEvict(x)
  BY <1>7 DEF KillEvict, RegistryLeave
<1> QED
  BY <1>1, <1>2, <1>3, <1>4, <1>5, <1>6, <1>7 DEF Task

LEMMA ExactStep == Typed /\ Exact /\ [Next]_vars => Exact'
<1> SUFFICES ASSUME Typed, Exact, [Next]_vars PROVE Exact'
  OBVIOUS
<1>1. CASE UNCHANGED vars
  BY <1>1 DEF vars, Exact, Undisturbed
<1>2. ASSUME NEW x \in Conns, Task(x) \/ Client(x) PROVE Exact'
  BY <1>2, ExactClient, ExactTask
<1>3. ASSUME NEW c \in Countries, RowRead(c) \/ RowPut(c) PROVE Exact'
  BY <1>3, RowsAside DEF Exact, Undisturbed
<1> QED
  BY <1>1, <1>2, <1>3 DEF Next

\* Without "kill" and lost C_INIT replies, the registry of state.rs names
\* the one session of a country from try_enter to leave, and nothing else.
THEOREM RegistryIsExact == Spec => []RegistryExact
<1>1. Spec => [](Typed /\ Exact)
  BY TypedInit, TypedStep, ExactInit, ExactStep, PTL DEF Spec
<1>2. Typed /\ Exact => RegistryExact
  BY ExactEquivalent
<1> QED
  BY <1>1, <1>2, PTL

-----------------------------------------------------------------------------
(***************************************************************************)
(* The nation's login record.                                              *)
(***************************************************************************)

\* The counts that end a claim about a country never go back.
LEMMA UndisturbedBefore ==
    ASSUME Typed, [Next]_vars, NEW c \in Countries, Undisturbed(c)'
    PROVE  Undisturbed(c)
<1> USE DEF Typed, TypeOK, Undisturbed, history
<1>1. CASE UNCHANGED vars
  BY <1>1 DEF vars
<1>2. ASSUME NEW x \in Conns, Client(x)
      PROVE  Undisturbed(c)
  BY <1>2 DEF Client, Connect, Hangup, Pass, KillLook, Coun, Play, Command, Drop,
              GreetFails
<1>3. ASSUME NEW x \in Conns, Task(x)
      PROVE  Undisturbed(c)
  BY <1>3 DEF Task, Enter, Greet, RecordLogin, Dispatch, RecordLogout, Leave, KillEvict
<1>4. ASSUME NEW d \in Countries, RowRead(d) \/ RowPut(d)
      PROVE  Undisturbed(c)
  BY <1>4, RowsAside
<1> QED
  BY <1>1, <1>2, <1>3, <1>4 DEF Next

LEMMA LoginRecordInit == Init => LoginRecordCurrent
BY DEF Init, LoginRecordCurrent, Playing, SessionsOf, InLoop

\* A logout can only be recorded by the session that the country has, so no
\* other session of the country is playing then.
LEMMA LoginRecordStep ==
    Typed /\ Exact /\ LoginRecordCurrent /\ [Next]_vars => LoginRecordCurrent'
<1> SUFFICES ASSUME Typed, Exact, LoginRecordCurrent, [Next]_vars,
                    NEW c \in Countries, Undisturbed(c)', ~rewound'[c],
                    NEW y \in Conns, (cnum[y] = c /\ phase[y] \in InLoop)'
             PROVE  logrec'[c] = entered'[y]
  BY DEF LoginRecordCurrent, Playing, SessionsOf
<1> USE SessionsAssumption
    DEF Typed, TypeOK, HasCountry, Registered, InLoop, GoTo, history, rows
<1>1. Undisturbed(c)
  BY UndisturbedBefore
<1>2. (cnum[y] = c /\ phase[y] \in InLoop /\ ~rewound[c]) => logrec[c] = entered[y]
  BY <1>1 DEF LoginRecordCurrent, Playing, SessionsOf
<1>3. \A x \in Conns :
        (cnum[x] = c /\ phase[x] \in Registered) <=> registry[c] = x
  BY <1>1 DEF Exact
<1>4. CASE UNCHANGED vars
  BY <1>2, <1>4 DEF vars
<1>5. ASSUME NEW x \in Conns, RecordLogin(x)
      PROVE  logrec'[c] = entered'[y]
  BY <1>2, <1>3, <1>5 DEF RecordLogin
<1>6. ASSUME NEW x \in Conns, RecordLogout(x)
      PROVE  logrec'[c] = entered'[y]
  BY <1>2, <1>3, <1>6 DEF RecordLogout
<1>7. ASSUME NEW x \in Conns,
             Enter(x) \/ Greet(x) \/ Dispatch(x) \/ Leave(x) \/ KillEvict(x)
      PROVE  logrec'[c] = entered'[y]
  BY <1>2, <1>7 DEF Enter, Greet, Dispatch, Leave, KillEvict
<1>8. ASSUME NEW x \in Conns, Client(x)
      PROVE  logrec'[c] = entered'[y]
  BY <1>2, <1>8 DEF Client, Connect, Hangup, Pass, KillLook, Coun, Play, Command,
                    Drop, GreetFails
<1>9. ASSUME NEW d \in Countries, RowRead(d)
      PROVE  logrec'[c] = entered'[y]
  BY <1>2, <1>9 DEF RowRead
<1>10. ASSUME NEW d \in Countries, RowPut(d)
       PROVE  logrec'[c] = entered'[y]
  BY <1>2, <1>10 DEF RowPut
<1> QED
  BY <1>4, <1>5, <1>6, <1>7, <1>8, <1>9, <1>10 DEF Next, Task

\* While an undisturbed country has a playing session, its row says what
\* that session's record_login left in it (record_login, record_logout of
\* nations.rs), whatever fails, unless another country's command put a row
\* it had loaded before.
THEOREM LoginRecordIsCurrent == Spec => []LoginRecordCurrent
BY TypedInit, TypedStep, ExactInit, ExactStep, LoginRecordInit, LoginRecordStep,
   PTL DEF Spec

-----------------------------------------------------------------------------
(***************************************************************************)
(* Entries and sessions, with any number of kills.                         *)
(***************************************************************************)

\* EntryHasSession, without the set of sessions.
EntryNamesSession ==
    initFails = 0 =>
        \A c \in Countries : registry[c] # None =>
            cnum[registry[c]] = c /\ phase[registry[c]] \in Registered

LEMMA EntryInit == Init => EntryNamesSession
BY DEF Init, EntryNamesSession

LEMMA EntryClient ==
    ASSUME Typed, EntryNamesSession, NEW x \in Conns, Client(x)
    PROVE  EntryNamesSession'
<1> USE SessionsAssumption
    DEF Typed, TypeOK, EntryNamesSession, Registered, InLoop, Phases, GoTo, history, rows
<1>1. CASE Connect(x)
  BY <1>1 DEF Connect
<1>2. CASE Hangup(x)
  BY <1>2 DEF Hangup
<1>3. CASE Pass(x)
  BY <1>3 DEF Pass
<1>4. CASE KillLook(x)
  BY <1>4 DEF KillLook
<1>5. CASE \E c \in Countries : Coun(x, c)
  BY <1>5 DEF Coun
<1>6. ASSUME NEW c \in Countries \cup {None}, NEW pw \in {"none", "ok", "bad"},
             Play(x, c, pw)
      PROVE  EntryNamesSession'
  BY <1>6 DEF Play
<1>7. CASE Command(x)
  BY <1>7 DEF Command
<1>8. CASE Drop(x)
  BY <1>8 DEF Drop
<1>9. CASE GreetFails(x)
  BY <1>9 DEF GreetFails
<1> QED
  BY <1>1, <1>2, <1>3, <1>4, <1>5, <1>6, <1>7, <1>8, <1>9 DEF Client

LEMMA EntryTask ==
    ASSUME Typed, EntryNamesSession, NEW x \in Conns, Task(x)
    PROVE  EntryNamesSession'
<1> USE SessionsAssumption
    DEF Typed, TypeOK, HasCountry, EntryNamesSession, Registered, InLoop, Phases,
        GoTo, history, rows
<1>1. CASE Enter(x)
  BY <1>1 DEF Enter, TryEnter
<1>2. CASE Greet(x)
  BY <1>2 DEF Greet
<1>3. CASE RecordLogin(x)
  BY <1>3 DEF RecordLogin
<1>4. CASE Dispatch(x)
  BY <1>4 DEF Dispatch
<1>5. CASE RecordLogout(x)
  BY <1>5 DEF RecordLogout
<1>6. CASE Leave(x)
  BY <1>6 DEF Leave, RegistryLeave
<1>7. CASE KillEvict(x)
  BY <1>7 DEF KillEvict, RegistryLeave
<1> QED
  BY <1>1, <1>2, <1>3, <1>4, <1>5, <1>6, <1>7 DEF Task

LEMMA EntryStep == Typed /\ EntryNamesSession /\ [Next]_vars => EntryNamesSession'
<1> SUFFICES ASSUME Typed, EntryNamesSession, [Next]_vars PROVE EntryNamesSession'
  OBVIOUS
<1>1. CASE UNCHANGED vars
  BY <1>1 DEF vars, EntryNamesSession
<1>2. ASSUME NEW x \in Conns, Task(x) \/ Client(x) PROVE EntryNamesSession'
  BY <1>2, EntryClient, EntryTask
<1>3. ASSUME NEW c \in Countries, RowRead(c) \/ RowPut(c) PROVE EntryNamesSession'
  BY <1>3, RowsAside DEF EntryNamesSession
<1> QED
  BY <1>1, <1>2, <1>3 DEF Next

\* No entry outlives its session, although leave() removes the entry of a
\* country whoever made it.
THEOREM EntryAlwaysHasSession == Spec => []EntryHasSession
<1>1. Typed /\ EntryNamesSession => EntryHasSession
  BY DEF Typed, TypeOK, EntryNamesSession, EntryHasSession, SessionsOf
<1> QED
  BY <1>1, TypedInit, TypedStep, EntryInit, EntryStep, PTL DEF Spec

-----------------------------------------------------------------------------
(***************************************************************************)
(* Late commands.                                                          *)
(***************************************************************************)

\* A late command is counted when its country has no entry; the session is
\* then back in the loop, and the check lets no other command pass.
LateOnce ==
    \A x \in Conns :
        /\ late[x] <= 1
        /\ late[x] = 1 => phase[x] \in {"playing", "leaving", "left", "closed"}
        /\ late[x] = 1 /\ phase[x] = "playing" => registry[cnum[x]] = None

LEMMA LateInit == Init => LateOnce
BY DEF Init, LateOnce

LEMMA LateClient ==
    ASSUME Typed, LateOnce, NEW x \in Conns, Client(x)
    PROVE  LateOnce'
<1> USE SessionsAssumption
    DEF Typed, TypeOK, HasCountry, LateOnce, Registered, InLoop, Phases, GoTo, history, rows
<1>1. CASE Connect(x)
  BY <1>1 DEF Connect
<1>2. CASE Hangup(x)
  BY <1>2 DEF Hangup
<1>3. CASE Pass(x)
  BY <1>3 DEF Pass
<1>4. CASE KillLook(x)
  BY <1>4 DEF KillLook
<1>5. CASE \E c \in Countries : Coun(x, c)
  BY <1>5 DEF Coun
<1>6. ASSUME NEW c \in Countries \cup {None}, NEW pw \in {"none", "ok", "bad"},
             Play(x, c, pw)
      PROVE  LateOnce'
  BY <1>6 DEF Play
<1>7. CASE Command(x)
  BY <1>7 DEF Command
<1>8. CASE Drop(x)
  BY <1>8 DEF Drop
<1>9. CASE GreetFails(x)
  BY <1>9 DEF GreetFails
<1> QED
  BY <1>1, <1>2, <1>3, <1>4, <1>5, <1>6, <1>7, <1>8, <1>9 DEF Client

LEMMA LateTask ==
    ASSUME Typed, LateOnce, NEW x \in Conns, Task(x)
    PROVE  LateOnce'
<1> USE SessionsAssumption
    DEF Typed, TypeOK, HasCountry, LateOnce, Registered, InLoop, Phases, GoTo, history, rows
<1>1. CASE Enter(x)
  BY <1>1 DEF Enter, TryEnter
<1>2. CASE Greet(x)
  BY <1>2 DEF Greet
<1>3. CASE RecordLogin(x)
  BY <1>3 DEF RecordLogin
<1>4. CASE Dispatch(x)
  BY <1>4 DEF Dispatch
<1>5. CASE RecordLogout(x)
  BY <1>5 DEF RecordLogout
<1>6. CASE Leave(x)
  BY <1>6 DEF Leave, RegistryLeave
<1>7. CASE KillEvict(x)
  BY <1>7 DEF KillEvict, RegistryLeave
<1> QED
  BY <1>1, <1>2, <1>3, <1>4, <1>5, <1>6, <1>7 DEF Task

LEMMA LateStep == Typed /\ LateOnce /\ [Next]_vars => LateOnce'
<1> SUFFICES ASSUME Typed, LateOnce, [Next]_vars PROVE LateOnce'
  OBVIOUS
<1>1. CASE UNCHANGED vars
  BY <1>1 DEF vars, LateOnce
<1>2. ASSUME NEW x \in Conns, Task(x) \/ Client(x) PROVE LateOnce'
  BY <1>2, LateClient, LateTask
<1>3. ASSUME NEW c \in Countries, RowRead(c) \/ RowPut(c) PROVE LateOnce'
  BY <1>3, RowsAside DEF LateOnce
<1> QED
  BY <1>1, <1>2, <1>3 DEF Next

\* The eviction check of the playing loop lets at most one command through
\* after the country's entry is gone.
THEOREM AtMostOneLateCommand == Spec => []OneLateCommand
<1>1. LateOnce => OneLateCommand
  BY DEF LateOnce, OneLateCommand
<1> QED
  BY <1>1, TypedInit, TypedStep, LateInit, LateStep, PTL DEF Spec

-----------------------------------------------------------------------------
(***************************************************************************)
(* Each kill makes room for one more session.                              *)
(***************************************************************************)

Entries(c) == IF registry[c] = None THEN 0 ELSE 1

\* A session without an entry has been paid for by a kill.
RoomForSessions ==
    initFails = 0 =>
        \A c \in Countries : Cardinality(SessionsOf(c)) <= kills[c] + Entries(c)

LEMMA SessionsFinite ==
    \A c : IsFiniteSet(SessionsOf(c)) /\ Cardinality(SessionsOf(c)) \in Nat
BY SessionsAssumption, FS_Subset, FS_CardinalityType DEF SessionsOf

LEMMA RoomInit == Init => RoomForSessions
<1> SUFFICES ASSUME Init, NEW c \in Countries
             PROVE  Cardinality(SessionsOf(c)) <= kills[c] + Entries(c)
  BY DEF RoomForSessions
<1>1. SessionsOf(c) = {}
  BY DEF Init, SessionsOf, Registered, InLoop
<1> QED
  BY <1>1, FS_EmptySet DEF Init, Entries

\* What leaves the country's sessions, its entry and its kills alone.
LEMMA RoomKept ==
    ASSUME RoomForSessions, initFails' = initFails, UNCHANGED <<registry, kills>>,
           \A y \in Conns : (cnum'[y] = cnum[y] /\ phase'[y] \in Registered)
                               <=> (cnum'[y] = cnum[y] /\ phase[y] \in Registered),
           \A y \in Conns : cnum'[y] # cnum[y]
                               => phase[y] \notin Registered /\ phase'[y] \notin Registered
    PROVE  RoomForSessions'
<1>1. \A c \in Countries : SessionsOf(c)' = SessionsOf(c)
  BY DEF SessionsOf
<1> QED
  BY <1>1 DEF RoomForSessions, Entries

LEMMA RoomClient ==
    ASSUME Typed, RoomForSessions, NEW x \in Conns, Client(x)
    PROVE  RoomForSessions'
<1> USE SessionsAssumption DEF Typed, TypeOK, Registered, InLoop, Phases, GoTo, history, rows
<1>1. CASE Connect(x)
  BY <1>1, RoomKept DEF Connect
<1>2. CASE Hangup(x)
  BY <1>2, RoomKept DEF Hangup
<1>3. CASE Pass(x)
  BY <1>3, RoomKept DEF Pass
<1>4. CASE KillLook(x)
  BY <1>4, RoomKept DEF KillLook
<1>5. CASE \E c \in Countries : Coun(x, c)
  BY <1>5, RoomKept DEF Coun
<1>6. ASSUME NEW c \in Countries \cup {None}, NEW pw \in {"none", "ok", "bad"},
             Play(x, c, pw)
      PROVE  RoomForSessions'
  BY <1>6, RoomKept DEF Play
<1>7. CASE Command(x)
  BY <1>7, RoomKept DEF Command
<1>8. CASE Drop(x)
  BY <1>8, RoomKept DEF Drop
<1>9. CASE GreetFails(x)
  BY <1>9 DEF GreetFails, RoomForSessions
<1> QED
  BY <1>1, <1>2, <1>3, <1>4, <1>5, <1>6, <1>7, <1>8, <1>9 DEF Client

\* try_enter adds a session and an entry.
LEMMA RoomEnter ==
    ASSUME Typed, RoomForSessions, NEW x \in Conns, Enter(x)
    PROVE  RoomForSessions'
<1> USE SessionsAssumption
    DEF Typed, TypeOK, HasCountry, Registered, InLoop, Phases, GoTo, rows
<1>1. CASE registry[cnum[x]] # None
  BY <1>1, RoomKept DEF Enter, TryEnter
<1>2. CASE registry[cnum[x]] = None
  <2>1. SUFFICES ASSUME initFails = 0, NEW c \in Countries
                 PROVE  Cardinality(SessionsOf(c)') <= kills'[c] + Entries(c)'
    BY DEF RoomForSessions, Enter
  <2>2. Cardinality(SessionsOf(c)) <= kills[c] + Entries(c) /\ kills[c] \in Nat
    BY <2>1 DEF RoomForSessions
  <2>3. CASE c = cnum[x]
    <3>1. SessionsOf(c)' = SessionsOf(c) \cup {x} /\ x \notin SessionsOf(c)
      BY <1>2, <2>3 DEF Enter, TryEnter, SessionsOf
    <3>2. Cardinality(SessionsOf(c)') = Cardinality(SessionsOf(c)) + 1
      BY <3>1, SessionsFinite, FS_AddElement
    <3>3. Entries(c) = 0 /\ Entries(c)' = 1 /\ kills' = kills
      BY <1>2, <2>3 DEF Enter, TryEnter, Entries
    <3> QED
      BY <2>2, <3>2, <3>3, SessionsFinite
  <2>4. CASE c # cnum[x]
    <3>1. SessionsOf(c)' = SessionsOf(c)
      BY <1>2, <2>4 DEF Enter, TryEnter, SessionsOf
    <3>2. Entries(c)' = Entries(c) /\ kills' = kills
      BY <1>2, <2>4 DEF Enter, TryEnter, Entries
    <3> QED
      BY <2>2, <3>1, <3>2
  <2> QED
    BY <2>3, <2>4
<1> QED
  BY <1>1, <1>2

\* leave removes a session and at most one entry.
LEMMA RoomLeave ==
    ASSUME Typed, RoomForSessions, NEW x \in Conns, Leave(x)
    PROVE  RoomForSessions'
<1> USE SessionsAssumption
    DEF Typed, TypeOK, HasCountry, Registered, InLoop, Phases, GoTo, history, rows
<1>1. SUFFICES ASSUME initFails = 0, NEW c \in Countries
               PROVE  Cardinality(SessionsOf(c)') <= kills'[c] + Entries(c)'
  BY DEF RoomForSessions, Leave
<1>2. Cardinality(SessionsOf(c)) <= kills[c] + Entries(c) /\ kills[c] \in Nat
  BY <1>1 DEF RoomForSessions
<1>3. CASE c = cnum[x]
  <2>1. SessionsOf(c)' = SessionsOf(c) \ {x} /\ x \in SessionsOf(c)
    BY <1>3 DEF Leave, SessionsOf
  <2>2. Cardinality(SessionsOf(c)') = Cardinality(SessionsOf(c)) - 1
    BY <2>1, SessionsFinite, FS_RemoveElement
  <2>3. Entries(c) \in {0, 1} /\ Entries(c)' = 0 /\ kills' = kills
    BY <1>3 DEF Leave, RegistryLeave, Entries
  <2> QED
    BY <1>2, <2>2, <2>3, SessionsFinite
<1>4. CASE c # cnum[x]
  <2>1. SessionsOf(c)' = SessionsOf(c)
    BY <1>4 DEF Leave, SessionsOf
  <2>2. Entries(c)' = Entries(c) /\ kills' = kills
    BY <1>4 DEF Leave, RegistryLeave, Entries
  <2> QED
    BY <1>2, <2>1, <2>2
<1> QED
  BY <1>3, <1>4

\* "kill" may remove an entry, and counts as a kill in any case.
LEMMA RoomKill ==
    ASSUME Typed, RoomForSessions, NEW x \in Conns, KillEvict(x)
    PROVE  RoomForSessions'
<1> USE SessionsAssumption
    DEF Typed, TypeOK, HasCountry, Registered, InLoop, Phases, GoTo, rows
<1>1. SUFFICES ASSUME initFails = 0, NEW c \in Countries
               PROVE  Cardinality(SessionsOf(c)') <= kills'[c] + Entries(c)'
  BY DEF RoomForSessions, KillEvict
<1>2. Cardinality(SessionsOf(c)) <= kills[c] + Entries(c) /\ kills[c] \in Nat
  BY <1>1 DEF RoomForSessions
<1>3. SessionsOf(c)' = SessionsOf(c)
  BY DEF KillEvict, SessionsOf
<1>4. kills[c] + Entries(c) <= kills'[c] + Entries(c)'
  BY <1>2 DEF KillEvict, RegistryLeave, Entries
<1> QED
  BY <1>2, <1>3, <1>4, SessionsFinite DEF Entries, KillEvict

LEMMA RoomStep == Typed /\ RoomForSessions /\ [Next]_vars => RoomForSessions'
<1> SUFFICES ASSUME Typed, RoomForSessions, [Next]_vars PROVE RoomForSessions'
  OBVIOUS
<1>1. CASE UNCHANGED vars
  BY <1>1, RoomKept DEF vars
<1>2. ASSUME NEW x \in Conns, Client(x) PROVE RoomForSessions'
  BY <1>2, RoomClient
<1>3. ASSUME NEW x \in Conns,
             Greet(x) \/ RecordLogin(x) \/ Dispatch(x) \/ RecordLogout(x)
      PROVE  RoomForSessions'
  BY <1>3, RoomKept
  DEF Greet, RecordLogin, Dispatch, RecordLogout, Typed, TypeOK, Registered, InLoop,
      Phases, GoTo, history, rows
<1>4. ASSUME NEW c \in Countries, RowRead(c) \/ RowPut(c) PROVE RoomForSessions'
  BY <1>4, RowsAside, RoomKept
<1> QED
  BY <1>1, <1>2, <1>3, <1>4, RoomEnter, RoomLeave, RoomKill DEF Next, Task

\* However "kill", clean-ups and logins overlap, each kill of a country lets
\* at most one more of its sessions live.
THEOREM SessionsAreBoundedByKills == Spec => []SessionsBoundedByKills
<1>1. Typed /\ RoomForSessions => SessionsBoundedByKills
  BY SessionsFinite DEF Typed, TypeOK, RoomForSessions, SessionsBoundedByKills, Entries
<1> QED
  BY <1>1, TypedInit, TypedStep, RoomInit, RoomStep, PTL DEF Spec

\* The registry is exact, or off by no more than kills explain.
THEOREM RegistryIsAccountedFor == Spec => []RegistryAccounts
<1>1. RegistryExact /\ SessionsBoundedByKills => RegistryAccounts
  BY DEF RegistryAccounts
<1> QED
  BY <1>1, RegistryIsExact, SessionsAreBoundedByKills, PTL

-----------------------------------------------------------------------------
(***************************************************************************)
(* Mail: while commands do not overlap, the counter of a nation tells how  *)
(* many telegrams wait for it, and "read" removes only what it shows.      *)
(***************************************************************************)
Kinds == {"telegram", "announcement", "report"}
Addressees == Nations \cup {Deity}

-----------------------------------------------------------------------------
(* Inserting rows *)

Waiting(n) == Of(n, {"telegram"})

\* Rows are numbered in the order they are inserted.
Numbered ==
    /\ \A m \in box : m.uid <= sent
    /\ \A n \in Nations : IsFiniteSet(Waiting(n))

LEMMA OneElement ==
    ASSUME NEW d
    PROVE  IsFiniteSet({d}) /\ Cardinality({d}) = 1
  BY FS_Singleton

\* The numbers of the rows inserted at once are all the numbers of a range.
LEMMA InsertAdds ==
    ASSUME MailTypeOK, NEW kind \in Kinds, NEW A \in SUBSET Addressees, IsFiniteSet(A),
           Insert(kind, A)
    PROVE  /\ sent' \in 0..MaxMsgs /\ sent <= sent'
           /\ box \subseteq box' /\ box' \subseteq Msg
           /\ \A m \in box' : m \in box \/ (m.uid \in (sent + 1)..sent' /\ m.kind = kind)
           /\ \A u \in 1..sent' : u <= sent \/ \E m \in box' : m.uid = u
           /\ cameLate \subseteq cameLate' /\ cameLate' \in SUBSET (1..MaxMsgs)
           /\ \A m \in box' : m \in box \/ m.uid \in cameLate'
                                \/ (m.to \in Online => pc[m.to] # "delete")
<1>. DEFINE k == Cardinality(A)
            new == (sent + 1)..(sent + k)
<1>1. k \in Nat /\ sent \in Nat /\ clock \in Nat /\ MaxMsgs \in Nat /\ sent + k <= MaxMsgs
  BY FS_CardinalityType, MailAssumption DEF MailTypeOK, Insert
<1>2. sent' = sent + k
  BY DEF Insert
<1>3. PICK num \in [A -> new] :
        /\ \A a, b \in A : a # b => num[a] # num[b]
        /\ box' = box \cup {[uid |-> num[a], to |-> a, kind |-> kind, at |-> clock] : a \in A}
        /\ cameLate' = cameLate \cup {num[a] : a \in {b \in A \cap Online : pc[b] = "delete"}}
  BY DEF Insert
<1>4. IsFiniteSet(new) /\ Cardinality(new) = k
  <2>1. sent + 1 \in Int /\ sent + k \in Int
    BY <1>1
  <2>2. Cardinality(new) = IF sent + 1 > sent + k THEN 0 ELSE (sent + k) - (sent + 1) + 1
    BY <2>1, FS_Interval
  <2>3. IsFiniteSet(new)
    BY <2>1, FS_Interval
  <2>. HIDE DEF k, new
  <2> QED
    BY <1>1, <2>2, <2>3
<1>. HIDE DEF k
<1>5. ASSUME NEW u \in new
      PROVE  \E a \in A : num[a] = u
  <2>1. num \in Injection(A, new)
    BY <1>3 DEF Injection, IsInjective
  <2>2. num \in Surjection(A, new)
    BY <1>4, <2>1, FS_Injection DEF k
  <2> QED
    BY <2>2 DEF Surjection
<1>6. \A a \in A : num[a] \in 1..MaxMsgs /\ num[a] \in (sent + 1)..sent'
  BY <1>1, <1>2, <1>3
<1>7. box' \subseteq Msg
  <2>1. \A a \in A : [uid |-> num[a], to |-> a, kind |-> kind, at |-> clock] \in Msg
    BY <1>1, <1>6 DEF Msg, Kinds, Addressees
  <2> QED
    BY <1>3, <2>1 DEF MailTypeOK
<1>8. ASSUME NEW m \in box', m \notin box
      PROVE  m.uid \in (sent + 1)..sent' /\ m.kind = kind
  BY <1>3, <1>6, <1>8
<1>9. ASSUME NEW u \in 1..sent', ~(u <= sent)
      PROVE  \E m \in box' : m.uid = u
  <2>1. u \in new
    BY <1>1, <1>2, <1>9
  <2>2. PICK a \in A : num[a] = u
    BY <1>5, <2>1
  <2>. DEFINE row == [uid |-> num[a], to |-> a, kind |-> kind, at |-> clock]
  <2>3. row \in box' /\ row.uid = u
    BY <1>3, <2>2
  <2> QED
    BY <2>3
<1>10. cameLate \subseteq cameLate' /\ cameLate' \in SUBSET (1..MaxMsgs)
  BY <1>3, <1>6 DEF MailTypeOK
<1>11. ASSUME NEW m \in box', m \notin box, m.to \in Online, pc[m.to] = "delete"
       PROVE  m.uid \in cameLate'
  <2>1. PICK a \in A : m.uid = num[a] /\ m.to = a
    BY <1>3, <1>11
  <2> QED
    BY <1>3, <1>11, <2>1
<1> QED
  BY <1>1, <1>2, <1>3, <1>7, <1>8, <1>9, <1>10, <1>11

\* A row for one addressee.
AddsRow(kind, d) ==
    \E row : /\ row.uid = sent + 1 /\ row.to = d /\ row.kind = kind
             /\ box' = box \cup {row}

LEMMA InsertOne ==
    ASSUME MailTypeOK, NEW kind, NEW d, Insert(kind, {d})
    PROVE  AddsRow(kind, d)
<1>1. Cardinality({d}) = 1 /\ sent \in Nat
  <2>1. Cardinality({d}) = 1
    BY OneElement
  <2>2. sent \in Nat
    BY MailAssumption DEF MailTypeOK
  <2> QED
    BY <2>1, <2>2
<1>2. PICK num \in [{d} -> (sent + 1)..(sent + 1)] :
        box' = box \cup {[uid |-> num[a], to |-> a, kind |-> kind, at |-> clock] : a \in {d}}
  BY <1>1 DEF Insert
<1>. DEFINE row == [uid |-> num[d], to |-> d, kind |-> kind, at |-> clock]
<1>3. num[d] = sent + 1
  BY <1>1, <1>2
<1>4. box' = box \cup {row}
  BY <1>2
<1> QED
  BY <1>3, <1>4 DEF AddsRow

\* What the statements of the commands, the update and the clock insert.
LEMMA StepInserts ==
    ASSUME [MailNext]_mailVars
    PROVE  \/ UNCHANGED <<box, sent, cameLate>>
           \/ \E n \in Online : ReadDelete(n) /\ UNCHANGED <<sent, cameLate>>
           \/ \E n \in Online, d \in Nations : SendInsert(n, d) /\ Insert("telegram", {d})
           \/ \E n \in Online : AnnounceInsert(n) /\ Insert("announcement", {Deity})
           \/ Update /\ Insert("report", Nations)
  BY DEF MailNext, Statement, SendInsert, CopyRow, SendCount, PutRow, Fail, AnnounceInsert,
     AnnounceCount, ReadFetch, ReadDelete, ReadReset, AnnBegin, AnnFetch, AnnClear, Update,
     Second, mailVars

-----------------------------------------------------------------------------
(* Typing *)

RowsTyped ==
    /\ teleCnt \in [Nations -> Nat]
    /\ annCnt \in [Nations -> Nat]
    /\ lastRead \in [Nations -> Nat]
    /\ copy \in [Online -> Columns]

LEMMA ColumnsStep ==
    ASSUME MailTypeOK, [MailNext]_mailVars
    PROVE  RowsTyped'
<1>. USE DEF RowsTyped
<1>0. RowsTyped /\ Online \subseteq Nations /\ clock \in Nat /\ to \in [Online -> Nations]
  BY MailAssumption DEF MailTypeOK
<1>1. NoColumns \in Columns
  BY DEF NoColumns, Columns
<1>2. ASSUME NEW n \in Online, NEW d \in Nations, SendInsert(n, d) \/ CopyRow(n, d)
      PROVE  RowsTyped'
  <2>1. [tele |-> teleCnt[d], ann |-> annCnt[d], last |-> lastRead[d]] \in Columns
    BY <1>0 DEF Columns
  <2> QED
    BY <1>0, <1>2, <2>1 DEF SendInsert, CopyRow, counters
<1>3. ASSUME NEW n \in Online, SendCount(n)
      PROVE  RowsTyped'
  BY <1>0, <1>1, <1>3 DEF SendCount, Done
<1>4. ASSUME NEW n \in Online, PutRow(n)
      PROVE  RowsTyped'
  <2>1. copy[n].tele \in Nat /\ copy[n].ann \in Nat /\ copy[n].last \in Nat
    BY <1>0 DEF Columns
  <2> QED
    BY <1>0, <1>1, <1>4, <2>1 DEF PutRow, Done
<1>5. ASSUME NEW n \in Online, AnnounceCount(n)
      PROVE  RowsTyped'
  BY <1>0, <1>1, <1>5 DEF AnnounceCount, Done
<1>6. ASSUME NEW n \in Online,
             AnnounceInsert(n) \/ ReadFetch(n) \/ ReadDelete(n) \/ AnnFetch(n)
      PROVE  RowsTyped'
  BY <1>0, <1>6 DEF AnnounceInsert, ReadFetch, ReadDelete, AnnFetch, counters
<1>7. ASSUME NEW n \in Online, ReadReset(n)
      PROVE  RowsTyped'
  BY <1>0, <1>1, <1>7 DEF ReadReset, Done
<1>8. ASSUME NEW n \in Online, AnnBegin(n)
      PROVE  RowsTyped'
  <2>1. PICK since \in {lastRead[n], 0} : copy' = [copy EXCEPT ![n].last = since]
    BY <1>8 DEF AnnBegin
  <2>2. since \in Nat /\ copy[n] \in Columns
    BY <1>0
  <2>3. [copy[n] EXCEPT !.last = since] \in Columns
    BY <2>2 DEF Columns
  <2>4. copy' \in [Online -> Columns]
    BY <1>0, <2>1, <2>3
  <2> QED
    BY <1>0, <1>8, <2>4 DEF AnnBegin, counters
<1>9. ASSUME NEW n \in Online, AnnClear(n) \/ Fail(n)
      PROVE  RowsTyped'
  BY <1>0, <1>1, <1>9 DEF AnnClear, Fail, Done, counters
<1>10. ASSUME Update \/ Second \/ UNCHANGED mailVars
       PROVE  RowsTyped'
  BY <1>0, <1>10 DEF Update, Second, PutBack, mailVars, local, counters
<1> QED
  BY <1>2, <1>3, <1>4, <1>5, <1>6, <1>7, <1>8, <1>9, <1>10 DEF MailNext, Statement

\* A nation is shown rows that have been inserted.
LEMMA ShownStep ==
    ASSUME MailTypeOK, [MailNext]_mailVars
    PROVE  (shown \in [Nations -> SUBSET (1..MaxMsgs)])'
<1>1. ASSUME NEW n \in Online, NEW msgs \in SUBSET box, Show(n, msgs)
      PROVE  (shown \in [Nations -> SUBSET (1..MaxMsgs)])'
  <2>. DEFINE uids == {m.uid : m \in msgs}
  <2>1. uids \in SUBSET (1..MaxMsgs)
    BY DEF MailTypeOK, Msg
  <2>2. shown' = [shown EXCEPT ![n] = @ \cup uids]
    BY <1>1 DEF Show
  <2>. HIDE DEF uids
  <2> QED
    BY <2>1, <2>2 DEF MailTypeOK
<1>2. \/ UNCHANGED shown
      \/ \E n \in Online : Show(n, Addressed(n)) \/ Show(n, NewAnnouncements(copy[n].last))
  BY DEF MailNext, Statement, SendInsert, CopyRow, SendCount, PutRow, AnnounceInsert, AnnounceCount,
     ReadFetch, ReadDelete, ReadReset, AnnBegin, AnnFetch, AnnClear, Fail, Update, Second, mailVars
<1>3. \A n \in Online :
        Addressed(n) \in SUBSET box /\ NewAnnouncements(copy[n].last) \in SUBSET box
  BY DEF Addressed, NewAnnouncements
<1>4. CASE UNCHANGED shown
  BY <1>4 DEF MailTypeOK
<1> QED
  BY <1>1, <1>2, <1>3, <1>4

\* The columns of a message that is inserted, and its number.
BoxTyped == box \subseteq Msg /\ sent \in 0..MaxMsgs /\ cameLate \in SUBSET (1..MaxMsgs)

LEMMA BoxStep ==
    ASSUME MailTypeOK, [MailNext]_mailVars
    PROVE  BoxTyped'
<1>1. IsFiniteSet({Deity}) /\ IsFiniteSet(Nations)
  BY OneElement, MailAssumption
<1>2. \A d \in Nations : IsFiniteSet({d})
  BY OneElement
<1>3. CASE UNCHANGED <<box, sent, cameLate>>
  BY <1>3 DEF MailTypeOK, BoxTyped
<1>4. ASSUME NEW n \in Online, ReadDelete(n) /\ UNCHANGED <<sent, cameLate>>
      PROVE  BoxTyped'
  BY <1>4 DEF ReadDelete, MailTypeOK, BoxTyped
<1>5. ASSUME NEW d \in Nations, Insert("telegram", {d})
      PROVE  BoxTyped'
  BY <1>2, <1>5, InsertAdds DEF Kinds, Addressees, BoxTyped
<1>6. ASSUME Insert("announcement", {Deity}) \/ Insert("report", Nations)
      PROVE  BoxTyped'
  BY <1>1, <1>6, InsertAdds DEF Kinds, Addressees, BoxTyped
<1> QED
  BY <1>3, <1>4, <1>5, <1>6, StepInserts

LEMMA TypeStep == MailTypeOK /\ [MailNext]_mailVars => MailTypeOK'
<1>. SUFFICES ASSUME MailTypeOK, [MailNext]_mailVars PROVE MailTypeOK'
  OBVIOUS
<1>1. (clock \in 1..(MaxClock + 1))'
  <2>1. clock' = clock \/ (clock <= MaxClock /\ clock' = clock + 1)
    BY DEF MailNext, Statement, SendInsert, CopyRow, SendCount, PutRow, Fail, AnnounceInsert,
       AnnounceCount, ReadFetch, ReadDelete, ReadReset, AnnBegin, AnnFetch, AnnClear, Update,
       Second, mailVars
  <2> QED
    BY <2>1, MailAssumption DEF MailTypeOK
<1>2. (crossed \in SUBSET Nations)'
  <2>1. UNCHANGED crossed \/ \E afresh, missed : Note(afresh, missed)
    BY DEF MailNext, mailVars
  <2> QED
    BY <2>1 DEF Note, MailTypeOK
<1>3. (to \in [Online -> Nations])'
  BY MailAssumption DEF MailTypeOK, Done, local, MailNext, Statement, SendInsert, CopyRow, SendCount, PutRow, Fail, AnnounceInsert,
     AnnounceCount, ReadFetch, ReadDelete, ReadReset, AnnBegin, AnnFetch, AnnClear, Update,
     Second, mailVars
<1>4. (pc \in [Online -> {"idle", "count", "countAll", "put", "delete",
                          "reset", "fetch", "clear"}])'
  BY DEF MailTypeOK, Proceed, Done, local, MailNext, Statement, SendInsert, CopyRow, SendCount, PutRow, Fail, AnnounceInsert,
     AnnounceCount, ReadFetch, ReadDelete, ReadReset, AnnBegin, AnnFetch, AnnClear, Update,
     Second, mailVars
<1> QED
  BY <1>1, <1>2, <1>3, <1>4, ColumnsStep, ShownStep, BoxStep DEF MailTypeOK, RowsTyped, BoxTyped

LEMMA TypeInit == MailInit => MailTypeOK
<1>. SUFFICES ASSUME MailInit PROVE MailTypeOK
  OBVIOUS
<1>1. copy \in [Online -> Columns]
  BY DEF MailInit, NoColumns, Columns
<1> QED
  BY <1>1, MailAssumption DEF MailInit, MailTypeOK

-----------------------------------------------------------------------------
(* The counter of one nation *)

Resets(n) == n \in Online /\ pc[n] = "reset"

\* The counter and the telegrams of a nation at which nothing has crossed: a
\* row to put back has the counter of now, and what is reset is nothing.
TallyOf(n) ==
    /\ ~Crossing(n)
    /\ ~Resets(n) => teleCnt[n] + Cardinality(Senders(n)) = Cardinality(Waiting(n))
    /\ Resets(n) => Waiting(n) = {}
    /\ \A p \in Online : Puts(p, n) => copy[p].tele = teleCnt[n]

Tally == \A n \in Nations \ crossed : TallyOf(n)

\* What "read" is about to delete it has shown, or it came late.
ReadShown ==
    \A n \in Online : pc[n] = "delete" =>
        \A m \in box : m.to = n => m.uid \in shown[n] \/ m.uid \in cameLate

NoneMissed == \A u \in 1..sent : Shown(u) \/ u \in cameLate \/ \E m \in box : m.uid = u

MailInv == MailTypeOK /\ Numbered /\ Tally /\ ReadShown /\ NoneMissed

\* Rows other than telegrams do not change what waits for a nation.
LEMMA WaitingStays ==
    ASSUME MailTypeOK, Numbered, NEW kind \in {"announcement", "report"},
           NEW A \in SUBSET Addressees, IsFiniteSet(A), Insert(kind, A)
    PROVE  \A n \in Nations : Waiting(n)' = Waiting(n)
<1>1. /\ box \subseteq box'
      /\ \A m \in box' : m \in box \/ (m.uid \in (sent + 1)..sent' /\ m.kind = kind)
  BY InsertAdds DEF Kinds
<1>2. ASSUME NEW m \in box', m \notin box
      PROVE  m.kind # "telegram"
  BY <1>1, <1>2
<1> QED
  BY <1>1, <1>2 DEF Waiting, Of, Addressed

\* A telegram is one more that waits.
LEMMA WaitingGrows ==
    ASSUME MailTypeOK, Numbered, NEW d \in Nations, Insert("telegram", {d})
    PROVE  /\ \A n \in Nations \ {d} : Waiting(n)' = Waiting(n)
           /\ IsFiniteSet(Waiting(d)')
           /\ Cardinality(Waiting(d)') = Cardinality(Waiting(d)) + 1
<1>1. PICK row : /\ row.uid = sent + 1 /\ row.to = d /\ row.kind = "telegram"
                 /\ box' = box \cup {row}
  <2>1. AddsRow("telegram", d)
    BY InsertOne
  <2> QED
    BY <2>1 DEF AddsRow
<1>2. sent \in Nat /\ \A m \in box : m.uid <= sent
  BY MailAssumption DEF MailTypeOK, Numbered
<1>3. row \notin box
  BY <1>1, <1>2
<1>4. \A n \in Nations \ {d} : Waiting(n)' = Waiting(n)
  BY <1>1 DEF Waiting, Of, Addressed
<1>5. Waiting(d)' = Waiting(d) \cup {row} /\ row \notin Waiting(d)
  BY <1>1, <1>3 DEF Waiting, Of, Addressed
<1>6. IsFiniteSet(Waiting(d))
  BY DEF Numbered
<1>7. IsFiniteSet(Waiting(d) \cup {row})
      /\ Cardinality(Waiting(d) \cup {row}) = Cardinality(Waiting(d)) + 1
  BY <1>5, <1>6, FS_AddElement
<1> QED
  BY <1>4, <1>5, <1>7

\* What waits for a nation when its telegrams have been deleted.
LEMMA WaitingEnds ==
    ASSUME NEW n \in Online, ReadDelete(n)
    PROVE  /\ \A d \in Nations \ {n} : Waiting(d)' = Waiting(d)
           /\ Waiting(n)' = {}
  BY DEF ReadDelete, Waiting, Of, Addressed

LEMMA NumberedStep ==
    ASSUME MailTypeOK, Numbered, [MailNext]_mailVars
    PROVE  Numbered'
<1>0. sent \in Nat /\ \A m \in box : m.uid \in Nat
  BY MailAssumption DEF MailTypeOK, Msg
<1>1. CASE UNCHANGED <<box, sent>>
  BY <1>1 DEF Numbered, Waiting, Of, Addressed
<1>2. ASSUME NEW n \in Online, ReadDelete(n), UNCHANGED <<sent, cameLate>>
      PROVE  Numbered'
  <2>1. \A d \in Nations : IsFiniteSet(Waiting(d)')
    <3>1. \A d \in Nations : Waiting(d)' = Waiting(d) \/ Waiting(d)' = {}
      BY <1>2, WaitingEnds
    <3>2. IsFiniteSet({})
      BY FS_EmptySet
    <3> QED
      BY <3>1, <3>2 DEF Numbered
  <2>2. \A m \in box' : m.uid <= sent'
    BY <1>2 DEF ReadDelete, Numbered
  <2> QED
    BY <2>1, <2>2 DEF Numbered
<1>3. ASSUME NEW kind \in Kinds, NEW A \in SUBSET Addressees, IsFiniteSet(A), Insert(kind, A)
      PROVE  \A m \in box' : m.uid <= sent'
  <2>1. /\ sent <= sent' /\ sent' \in Nat
        /\ \A m \in box' : m \in box \/ m.uid \in (sent + 1)..sent'
    BY <1>3, InsertAdds, MailAssumption
  <2> QED
    BY <1>0, <2>1 DEF Numbered
<1>4. ASSUME NEW d \in Nations, Insert("telegram", {d})
      PROVE  Numbered'
  <2>1. IsFiniteSet({d})
    BY OneElement
  <2>2. \A m \in box' : m.uid <= sent'
    BY <1>3, <1>4, <2>1 DEF Kinds, Addressees
  <2>3. \A n \in Nations : IsFiniteSet(Waiting(n)')
    BY <1>4, WaitingGrows DEF Numbered
  <2> QED
    BY <2>2, <2>3 DEF Numbered
<1>5. ASSUME Insert("announcement", {Deity}) \/ Insert("report", Nations)
      PROVE  Numbered'
  <2>1. IsFiniteSet({Deity}) /\ IsFiniteSet(Nations)
    BY OneElement, MailAssumption
  <2>2. \A m \in box' : m.uid <= sent'
    BY <1>3, <1>5, <2>1 DEF Kinds, Addressees
  <2>3. \A n \in Nations : Waiting(n)' = Waiting(n)
    BY <1>5, <2>1, WaitingStays DEF Addressees
  <2> QED
    BY <2>2, <2>3 DEF Numbered
<1> QED
  BY <1>1, <1>2, <1>4, <1>5, StepInserts

\* A step that leaves the telegrams of a nation, their counter and those who
\* are about to change it alone.
LEMMA TallyKept ==
    ASSUME NEW n \in Nations, TallyOf(n), ~Crossing(n)', teleCnt'[n] = teleCnt[n],
           Waiting(n)' = Waiting(n), Senders(n)' = Senders(n), Resets(n)' <=> Resets(n),
           \A p \in Online : Puts(p, n)' => copy'[p].tele = teleCnt[n]
    PROVE  TallyOf(n)'
  BY DEF TallyOf

PcType == {"idle", "count", "countAll", "put", "delete", "reset", "fetch", "clear"}

\* A statement of a command that neither counts for the nation nor resets.
LEMMA TallyAside ==
    ASSUME MailTypeOK, NEW n \in Nations, TallyOf(n), ~Crossing(n)', NEW p \in Online,
           ~Sends(p, n), ~Sends(p, n)', ~(p = n /\ pc[p] = "reset"),
           ~(p = n /\ pc'[p] = "reset"),
           \A q \in Online \ {p} : pc'[q] = pc[q] /\ to'[q] = to[q] /\ copy'[q] = copy[q],
           Puts(p, n)' => copy'[p].tele = teleCnt[n],
           teleCnt'[n] = teleCnt[n], Waiting(n)' = Waiting(n)
    PROVE  TallyOf(n)'
<1>1. \A q \in Online : Sends(q, n)' <=> Sends(q, n)
  BY DEF Sends
<1>2. Senders(n)' = Senders(n)
  BY <1>1 DEF Senders
<1>3. Resets(n)' <=> Resets(n)
  BY DEF Resets
<1>4. ASSUME NEW q \in Online, Puts(q, n)'
      PROVE  copy'[q].tele = teleCnt[n]
  <2>1. CASE q = p
    BY <1>4, <2>1
  <2>2. CASE q # p
    BY <1>4, <2>2 DEF Puts, TallyOf
  <2> QED
    BY <2>1, <2>2
<1> QED
  BY <1>2, <1>3, <1>4, TallyKept

\* One sender more, or less.
LEMMA SendersGrow ==
    ASSUME MailTypeOK, NEW n \in Nations, NEW p \in Online, ~Sends(p, n), Sends(p, n)',
           \A q \in Online \ {p} : pc'[q] = pc[q] /\ to'[q] = to[q]
    PROVE  /\ Cardinality(Senders(n)) \in Nat
           /\ Cardinality(Senders(n)') = Cardinality(Senders(n)) + 1
<1>1. Senders(n)' = Senders(n) \cup {p} /\ p \notin Senders(n)
  BY DEF Senders, Sends
<1>2. IsFiniteSet(Senders(n))
  <2>1. IsFiniteSet(Online)
    BY MailAssumption, FS_Subset
  <2>2. Senders(n) \subseteq Online
    BY DEF Senders
  <2> QED
    BY <2>1, <2>2, FS_Subset
<1> QED
  BY <1>1, <1>2, FS_AddElement, FS_CardinalityType

LEMMA SendersShrink ==
    ASSUME MailTypeOK, NEW n \in Nations, NEW p \in Online, Sends(p, n), ~Sends(p, n)',
           \A q \in Online \ {p} : pc'[q] = pc[q] /\ to'[q] = to[q]
    PROVE  /\ Cardinality(Senders(n)') \in Nat
           /\ Cardinality(Senders(n)) = Cardinality(Senders(n)') + 1
<1>1. Senders(n) = Senders(n)' \cup {p} /\ p \notin Senders(n)'
  BY DEF Senders, Sends
<1>2. IsFiniteSet(Senders(n)')
  <2>1. IsFiniteSet(Online)
    BY MailAssumption, FS_Subset
  <2>2. Senders(n)' \subseteq Online
    BY DEF Senders
  <2> QED
    BY <2>1, <2>2, FS_Subset
<1> QED
  BY <1>1, <1>2, FS_AddElement, FS_CardinalityType

\* Nobody counts for a nation that is at rest.
LEMMA NoSenders ==
    ASSUME NEW n \in Nations, \A q \in Online : ~Sends(q, n)
    PROVE  Cardinality(Senders(n)) = 0
<1>1. Senders(n) = {}
  BY DEF Senders
<1> QED
  BY <1>1, FS_EmptySet

\* The counters follow the rows.
LEMMA TallyStep ==
    ASSUME MailInv, [MailNext]_mailVars
    PROVE  Tally'
<1>. SUFFICES ASSUME NEW n \in Nations, n \notin crossed' PROVE TallyOf(n)'
  BY DEF Tally
<1>0. MailTypeOK /\ Numbered /\ (n \notin crossed => TallyOf(n))
  BY DEF MailInv, Tally
<1>1. /\ pc \in [Online -> PcType]
      /\ to \in [Online -> Nations] /\ teleCnt \in [Nations -> Nat]
      /\ copy \in [Online -> Columns] /\ Online \subseteq Nations
  BY <1>0, MailAssumption DEF MailTypeOK, PcType
<1>2. ASSUME UNCHANGED box
      PROVE  Waiting(n)' = Waiting(n)
  BY <1>2 DEF Waiting, Of, Addressed
<1>3. ASSUME NEW p \in Online, Done(p)
      PROVE  /\ pc' = [pc EXCEPT ![p] = "idle"]
             /\ \A q \in Online \ {p} : pc'[q] = pc[q] /\ to'[q] = to[q] /\ copy'[q] = copy[q]
             /\ pc'[p] = "idle" /\ ~Sends(p, n)' /\ ~Puts(p, n)'
  BY <1>1, <1>3 DEF Done, Proceed, Sends, Puts
<1>4. ASSUME Note({}, {})
      PROVE  TallyOf(n) /\ ~Crossing(n)'
  BY <1>0, <1>4 DEF Note
<1>5. ASSUME NEW p \in Online, NEW d \in Nations, SendInsert(p, d), Note({}, {})
      PROVE  TallyOf(n)'
  <2>1. /\ UNCHANGED <<teleCnt, copy>> /\ Insert("telegram", {d}) /\ pc[p] = "idle"
        /\ pc' = [pc EXCEPT ![p] = "count"] /\ to' = [to EXCEPT ![p] = d]
    BY <1>5 DEF SendInsert, Begin, Proceed, counters
  <2>2. /\ \A q \in Online \ {p} : pc'[q] = pc[q] /\ to'[q] = to[q] /\ copy'[q] = copy[q]
        /\ pc'[p] = "count" /\ to'[p] = d
    BY <1>1, <2>1
  <2>3. ~Sends(p, n) /\ ~Puts(p, n)'
    BY <2>1, <2>2 DEF Sends, Puts
  <2>4. CASE n # d
    <3>1. Waiting(n)' = Waiting(n)
      BY <1>0, <2>1, <2>4, WaitingGrows
    <3>2. ~Sends(p, n)'
      BY <2>2, <2>4 DEF Sends
    <3> QED
      BY <1>0, <1>4, <1>5, <2>1, <2>2, <2>3, <3>1, <3>2, TallyAside
  <2>5. CASE n = d
    <3>1. Cardinality(Waiting(n)') = Cardinality(Waiting(n)) + 1
      BY <1>0, <2>1, <2>5, WaitingGrows
    <3>2. Sends(p, n)'
      BY <2>2, <2>5 DEF Sends
    <3>3. /\ Cardinality(Senders(n)) \in Nat
          /\ Cardinality(Senders(n)') = Cardinality(Senders(n)) + 1
      BY <1>0, <2>2, <2>3, <3>2, SendersGrow
    <3>4. ~Reads(n, n)' \/ n \notin Online
      BY <1>4, <1>5, <3>2 DEF Crossing
    <3>5. ~Resets(n)' /\ ~Resets(n)
      BY <2>1, <2>2, <3>4 DEF Reads, Resets
    <3>6. teleCnt[n] + Cardinality(Senders(n)) = Cardinality(Waiting(n)) /\ teleCnt[n] \in Nat
      BY <1>1, <1>4, <1>5, <3>5 DEF TallyOf
    <3>7. \A q \in Online : ~Puts(q, n)'
      BY <1>4, <1>5, <3>2 DEF Crossing
    <3>8. teleCnt'[n] + Cardinality(Senders(n)') = Cardinality(Waiting(n)')
      BY <2>1, <3>1, <3>3, <3>6
    <3> QED
      BY <1>4, <1>5, <3>5, <3>7, <3>8 DEF TallyOf
  <2> QED
    BY <2>4, <2>5
<1>6. ASSUME NEW p \in Online, SendCount(p), Note({}, {})
      PROVE  TallyOf(n)'
  <2>1. /\ pc[p] = "count" /\ Done(p) /\ UNCHANGED box
        /\ teleCnt' = [teleCnt EXCEPT ![to[p]] = @ + 1]
    BY <1>6 DEF SendCount
  <2>2. Waiting(n)' = Waiting(n)
    BY <1>2, <2>1
  <2>3. CASE to[p] # n
    <3>1. ~Sends(p, n) /\ teleCnt'[n] = teleCnt[n]
      BY <1>1, <2>1, <2>3 DEF Sends
    <3>2. pc[p] # "reset" /\ pc'[p] # "reset"
      BY <1>3, <2>1
    <3> QED
      BY <1>0, <1>3, <1>4, <1>6, <2>1, <2>2, <3>1, <3>2, TallyAside
  <2>4. CASE to[p] = n
    <3>1. Sends(p, n)
      BY <2>1, <2>4 DEF Sends
    <3>2. /\ Cardinality(Senders(n)') \in Nat
          /\ Cardinality(Senders(n)) = Cardinality(Senders(n)') + 1
      BY <1>0, <1>3, <2>1, <3>1, SendersShrink
    <3>3. ~Crossing(n)
      BY <1>4, <1>6 DEF TallyOf
    <3>4. (\A q \in Online : ~Puts(q, n)) /\ ~Resets(n)
      BY <1>1, <3>1, <3>3 DEF Crossing, Reads, Resets
    <3>5. (\A q \in Online : ~Puts(q, n)') /\ ~Resets(n)'
      BY <1>3, <2>1, <3>4 DEF Puts, Resets
    <3>6. teleCnt[n] + Cardinality(Senders(n)) = Cardinality(Waiting(n)) /\ teleCnt[n] \in Nat
      BY <1>1, <1>4, <1>6, <3>4 DEF TallyOf
    <3>7. teleCnt'[n] + Cardinality(Senders(n)') = Cardinality(Waiting(n)')
      BY <1>1, <2>1, <2>2, <2>4, <3>2, <3>6
    <3> QED
      BY <1>4, <1>6, <3>5, <3>7 DEF TallyOf
  <2> QED
    BY <2>3, <2>4
<1>7. ASSUME NEW p \in Online, ReadDelete(p), Note({p}, {})
      PROVE  TallyOf(n)'
  <2>1. /\ pc[p] = "delete" /\ pc' = [pc EXCEPT ![p] = "reset"]
        /\ UNCHANGED <<teleCnt, to, copy>>
    BY <1>7 DEF ReadDelete, Proceed, counters
  <2>2. /\ \A q \in Online \ {p} : pc'[q] = pc[q] /\ to'[q] = to[q] /\ copy'[q] = copy[q]
        /\ pc'[p] = "reset"
    BY <1>1, <2>1
  <2>3. ~Crossing(n)' /\ (n # p => n \notin crossed)
    BY <1>7 DEF Note
  <2>4. /\ \A d \in Nations \ {p} : Waiting(d)' = Waiting(d)
        /\ Waiting(p)' = {}
    BY <1>7, WaitingEnds
  <2>5. CASE n # p
    <3>1. ~Sends(p, n) /\ ~Sends(p, n)' /\ ~Puts(p, n)' /\ TallyOf(n)
      BY <1>0, <2>1, <2>2, <2>3, <2>5 DEF Sends, Puts
    <3> QED
      BY <1>0, <2>1, <2>2, <2>3, <2>4, <2>5, <3>1, TallyAside
  <2>6. CASE n = p
    <3>1. Resets(n)' /\ Reads(p, n)'
      BY <2>2, <2>6 DEF Resets, Reads
    <3>2. \A q \in Online : ~Puts(q, n)'
      BY <2>3, <3>1 DEF Crossing
    <3> QED
      BY <2>3, <2>4, <2>6, <3>1, <3>2 DEF TallyOf
  <2> QED
    BY <2>5, <2>6
<1>8. ASSUME NEW p \in Online, ReadReset(p), Note({}, {})
      PROVE  TallyOf(n)'
  <2>1. /\ pc[p] = "reset" /\ Done(p) /\ UNCHANGED box
        /\ teleCnt' = [teleCnt EXCEPT ![p] = 0]
    BY <1>8 DEF ReadReset
  <2>2. Waiting(n)' = Waiting(n)
    BY <1>2, <2>1
  <2>3. CASE p # n
    <3>1. ~Sends(p, n) /\ teleCnt'[n] = teleCnt[n]
      BY <1>1, <2>1, <2>3 DEF Sends
    <3> QED
      BY <1>0, <1>3, <1>4, <1>8, <2>1, <2>2, <2>3, <3>1, TallyAside
  <2>4. CASE p = n
    <3>1. Resets(n) /\ Reads(n, n) /\ ~Crossing(n) /\ Waiting(n) = {}
      BY <1>4, <1>8, <2>1, <2>4 DEF Resets, Reads, TallyOf
    <3>2. \A q \in Online : ~Sends(q, n) /\ ~Puts(q, n)
      BY <2>4, <3>1 DEF Crossing
    <3>3. /\ \A q \in Online : ~Sends(q, n)' /\ ~Puts(q, n)'
          /\ ~Resets(n)'
      BY <1>3, <2>1, <2>4, <3>2 DEF Sends, Puts, Resets
    <3>4. Cardinality(Senders(n)') = 0
      <4>1. Senders(n)' = {}
        BY <3>3 DEF Senders
      <4> QED
        BY <4>1, FS_EmptySet
    <3>5. teleCnt'[n] = 0 /\ Cardinality(Waiting(n)') = 0
      BY <1>1, <2>1, <2>2, <2>4, <3>1, FS_EmptySet
    <3>6. teleCnt'[n] + Cardinality(Senders(n)') = Cardinality(Waiting(n)')
      BY <3>4, <3>5
    <3> QED
      BY <1>4, <1>8, <3>3, <3>6 DEF TallyOf
  <2> QED
    BY <2>3, <2>4
<1>9. ASSUME NEW p \in Online, NEW d \in Nations, CopyRow(p, d), Note({}, {})
      PROVE  TallyOf(n)'
  <2>1. /\ pc[p] = "idle" /\ UNCHANGED <<box, teleCnt>>
        /\ pc' = [pc EXCEPT ![p] = "put"] /\ to' = [to EXCEPT ![p] = d]
        /\ copy' = [copy EXCEPT ![p] =
                      [tele |-> teleCnt[d], ann |-> annCnt[d], last |-> lastRead[d]]]
    BY <1>9 DEF CopyRow, Begin, Proceed, counters
  <2>2. /\ \A q \in Online \ {p} : pc'[q] = pc[q] /\ to'[q] = to[q] /\ copy'[q] = copy[q]
        /\ pc'[p] = "put" /\ to'[p] = d /\ copy'[p].tele = teleCnt[d]
    BY <1>1, <2>1
  <2>3. ~Sends(p, n) /\ ~Sends(p, n)' /\ (Puts(p, n)' => copy'[p].tele = teleCnt[n])
    BY <2>1, <2>2 DEF Sends, Puts
  <2>4. Waiting(n)' = Waiting(n)
    BY <1>2, <2>1
  <2> QED
    BY <1>0, <1>4, <1>9, <2>1, <2>2, <2>3, <2>4, TallyAside
<1>10. ASSUME NEW p \in Online, PutRow(p), Note({}, {})
       PROVE  TallyOf(n)'
  <2>1. /\ pc[p] = "put" /\ Done(p) /\ UNCHANGED box
        /\ teleCnt' = [teleCnt EXCEPT ![to[p]] = copy[p].tele]
    BY <1>10 DEF PutRow
  <2>2. Puts(p, n) => copy[p].tele = teleCnt[n]
    BY <1>4, <1>10 DEF TallyOf
  <2>3. teleCnt'[n] = teleCnt[n]
    BY <1>1, <2>1, <2>2 DEF Puts
  <2>4. ~Sends(p, n) /\ Waiting(n)' = Waiting(n)
    BY <1>2, <2>1 DEF Sends
  <2> QED
    BY <1>0, <1>3, <1>4, <1>10, <2>1, <2>3, <2>4, TallyAside
<1>11. ASSUME NEW p \in Online, Fail(p), Note({}, Miscounted(p))
       PROVE  TallyOf(n)'
  <2>1. Done(p) /\ UNCHANGED <<box, teleCnt>>
    BY <1>11 DEF Fail, counters
  <2>2. n \notin Miscounted(p) /\ ~Crossing(n)' /\ TallyOf(n)
    BY <1>0, <1>11 DEF Note
  <2>3. ~Sends(p, n) /\ ~(p = n /\ pc[p] = "reset")
    BY <2>2 DEF Miscounted
  <2>4. Waiting(n)' = Waiting(n)
    BY <1>2, <2>1
  <2> QED
    BY <1>0, <1>3, <2>1, <2>2, <2>3, <2>4, TallyAside
\* The commands that touch neither telegrams nor their counter.
<1>12. ASSUME NEW p \in Online, NEW x, x \notin {"count", "reset", "put"},
              pc[p] \notin {"count", "reset", "put"}, Proceed(p, x) \/ UNCHANGED pc,
              UNCHANGED teleCnt,
              \A q \in Online \ {p} : to'[q] = to[q] /\ copy'[q] = copy[q],
              Waiting(n)' = Waiting(n), Note({}, {})
       PROVE  TallyOf(n)'
  <2>1. /\ \A q \in Online \ {p} : pc'[q] = pc[q]
        /\ pc'[p] \notin {"count", "reset", "put"}
    BY <1>1, <1>12 DEF Proceed
  <2>2. ~Sends(p, n) /\ ~Sends(p, n)' /\ ~Puts(p, n)'
    BY <1>12, <2>1 DEF Sends, Puts
  <2> QED
    BY <1>0, <1>4, <1>12, <2>1, <2>2, TallyAside
<1>13. ASSUME NEW p \in Online, AnnounceInsert(p), Note({}, {})
       PROVE  TallyOf(n)'
  <2>1. IsFiniteSet({Deity})
    BY OneElement
  <2>2. Waiting(n)' = Waiting(n)
    BY <1>0, <1>13, <2>1, WaitingStays DEF AnnounceInsert, Addressees
  <2>3. /\ pc[p] = "idle" /\ Proceed(p, "countAll") /\ UNCHANGED <<teleCnt, to, copy>>
    BY <1>13 DEF AnnounceInsert, Begin, counters
  <2> QED
    BY <1>12, <1>13, <2>2, <2>3
<1>14. ASSUME NEW p \in Online, ReadFetch(p) \/ AnnFetch(p), Note({}, {})
       PROVE  TallyOf(n)'
  <2>1. PICK x \in {"delete", "clear"} : Proceed(p, x) \/ UNCHANGED pc
    BY <1>14 DEF ReadFetch, AnnFetch
  <2>2. pc[p] \in {"idle", "fetch"} /\ UNCHANGED <<box, teleCnt, to, copy>>
    BY <1>14 DEF ReadFetch, AnnFetch, Begin, counters
  <2>3. Waiting(n)' = Waiting(n)
    BY <1>2, <2>2
  <2> QED
    BY <1>12, <1>14, <2>1, <2>2, <2>3
<1>15. ASSUME NEW p \in Online, AnnounceCount(p) \/ AnnBegin(p) \/ AnnClear(p), Note({}, {})
       PROVE  TallyOf(n)'
  <2>1. PICK x \in {"idle", "fetch"} : Proceed(p, x)
    BY <1>15 DEF AnnounceCount, AnnBegin, AnnClear, Done
  <2>2. pc[p] \in {"idle", "countAll", "clear"} /\ UNCHANGED <<box, teleCnt>>
    BY <1>15 DEF AnnounceCount, AnnBegin, AnnClear, Begin, counters
  <2>3. \A q \in Online \ {p} : to'[q] = to[q] /\ copy'[q] = copy[q]
    BY <1>1, <1>15 DEF AnnounceCount, AnnBegin, AnnClear, Done
  <2>4. Waiting(n)' = Waiting(n)
    BY <1>2, <2>2
  <2> QED
    BY <1>12, <1>15, <2>1, <2>2, <2>3, <2>4
<1>16. ASSUME UNCHANGED <<pc, to, copy, teleCnt, crossed>>, Waiting(n)' = Waiting(n)
       PROVE  TallyOf(n)'
  <2>1. TallyOf(n)
    BY <1>0, <1>16
  <2> QED
    BY <1>16, <2>1 DEF TallyOf, Crossing, Sends, Reads, Puts, Senders, Resets
<1>17. CASE Update /\ UNCHANGED crossed
  <2>1. IsFiniteSet(Nations)
    BY MailAssumption
  <2>2. Waiting(n)' = Waiting(n)
    BY <1>0, <1>17, <2>1, WaitingStays DEF Update, Addressees
  <2>3. UNCHANGED <<pc, to, copy, teleCnt, crossed>>
    BY <1>17 DEF Update, PutBack, local
  <2> QED
    BY <1>16, <2>2, <2>3
<1>18. CASE (Second /\ UNCHANGED crossed) \/ UNCHANGED mailVars
  <2>1. UNCHANGED <<pc, to, copy, teleCnt, crossed, box>>
    BY <1>18 DEF Second, mailVars, local, counters
  <2> QED
    BY <1>2, <1>16, <2>1
<1> QED
  BY <1>5, <1>6, <1>7, <1>8, <1>9, <1>10, <1>11, <1>13, <1>14, <1>15, <1>17, <1>18
     DEF MailNext, Statement

\* What has been shown stays shown.
LEMMA ShownGrows ==
    ASSUME MailTypeOK, [MailNext]_mailVars
    PROVE  \A n \in Nations : shown[n] \subseteq shown'[n]
<1>1. \/ UNCHANGED shown
      \/ \E n \in Online : \E msgs : Show(n, msgs)
  BY DEF MailNext, Statement, SendInsert, CopyRow, SendCount, PutRow, AnnounceInsert, AnnounceCount,
     ReadFetch, ReadDelete, ReadReset, AnnBegin, AnnFetch, AnnClear, Fail, Update, Second, mailVars
<1>2. ASSUME NEW n \in Online, NEW msgs, Show(n, msgs)
      PROVE  \A d \in Nations : shown[d] \subseteq shown'[d]
  <2>. DEFINE uids == {m.uid : m \in msgs}
  <2>1. shown' = [shown EXCEPT ![n] = @ \cup uids]
    BY <1>2 DEF Show
  <2>. HIDE DEF uids
  <2> QED
    BY <2>1 DEF MailTypeOK
<1>3. CASE UNCHANGED shown
  BY <1>3
<1> QED
  BY <1>1, <1>2, <1>3

LEMMA LateGrows ==
    ASSUME MailTypeOK, [MailNext]_mailVars
    PROVE  cameLate \subseteq cameLate'
<1>1. IsFiniteSet({Deity}) /\ IsFiniteSet(Nations) /\ \A d \in Nations : IsFiniteSet({d})
  BY OneElement, MailAssumption
<1>2. ASSUME NEW d \in Nations, Insert("telegram", {d})
      PROVE  cameLate \subseteq cameLate'
  BY <1>1, <1>2, InsertAdds DEF Kinds, Addressees
<1>3. ASSUME Insert("announcement", {Deity}) \/ Insert("report", Nations)
      PROVE  cameLate \subseteq cameLate'
  BY <1>1, <1>3, InsertAdds DEF Kinds, Addressees
<1> QED
  BY <1>2, <1>3, StepInserts

\* "read" comes to its deletion with everything shown that it deletes, but
\* for what came late.
LEMMA ReadShownStep ==
    ASSUME MailInv, [MailNext]_mailVars
    PROVE  ReadShown'
<1>0. MailTypeOK /\ ReadShown
  BY DEF MailInv
<1>1. /\ pc \in [Online -> PcType]
      /\ shown \in [Nations -> SUBSET (1..MaxMsgs)] /\ Online \subseteq Nations
  BY <1>0, MailAssumption DEF MailTypeOK, PcType
<1>. SUFFICES ASSUME NEW n \in Online, pc'[n] = "delete", NEW m \in box', m.to = n
              PROVE  m.uid \in shown'[n] \/ m.uid \in cameLate'
  BY DEF ReadShown
<1>2. CASE ReadFetch(n)
  <2>. DEFINE uids == {r.uid : r \in Addressed(n)}
  <2>1. box' = box
    BY <1>2 DEF ReadFetch
  <2>2. m.uid \in uids
    BY <2>1 DEF Addressed
  <2>3. shown' = [shown EXCEPT ![n] = @ \cup uids]
    BY <1>2 DEF ReadFetch, Show
  <2>. HIDE DEF uids
  <2> QED
    BY <1>1, <2>2, <2>3
<1>3. CASE ~ReadFetch(n)
  <2>1. pc[n] = "delete"
    <3>1. \/ UNCHANGED pc
          \/ \E k \in Online, p \in {"idle", "count", "countAll", "put", "reset",
                                    "fetch", "clear"} : Proceed(k, p)
          \/ \E k \in Online : ReadFetch(k)
      BY DEF MailNext, Statement, SendInsert, CopyRow, SendCount, PutRow, Fail, AnnounceInsert,
         AnnounceCount, ReadDelete, ReadReset, AnnBegin, AnnFetch, AnnClear,
         Update, Second, mailVars, local, Done
    <3> QED
      BY <1>1, <1>3, <3>1 DEF Proceed, ReadFetch
  <2>2. IsFiniteSet({Deity}) /\ IsFiniteSet(Nations) /\ \A d \in Nations : IsFiniteSet({d})
    BY OneElement, MailAssumption
  <2>3. m \in box \/ m.uid \in cameLate'
    <3>1. ASSUME NEW d \in Nations, Insert("telegram", {d})
          PROVE  m \in box \/ m.uid \in cameLate'
      BY <1>0, <2>1, <2>2, <3>1, InsertAdds DEF Kinds, Addressees
    <3>2. ASSUME Insert("announcement", {Deity}) \/ Insert("report", Nations)
          PROVE  m \in box \/ m.uid \in cameLate'
      BY <1>0, <2>1, <2>2, <3>2, InsertAdds DEF Kinds, Addressees
    <3>3. ASSUME NEW k \in Online, ReadDelete(k)
          PROVE  m \in box
      BY <3>3 DEF ReadDelete
    <3> QED
      BY <3>1, <3>2, <3>3, StepInserts
  <2>4. CASE m \in box
    <3>1. m.uid \in shown[n] \/ m.uid \in cameLate
      BY <1>0, <2>1, <2>4 DEF ReadShown
    <3> QED
      BY <1>0, <1>1, <3>1, ShownGrows, LateGrows
  <2> QED
    BY <2>3, <2>4
<1> QED
  BY <1>2, <1>3

LEMMA NoneMissedStep ==
    ASSUME MailInv, [MailNext]_mailVars
    PROVE  NoneMissed'
<1>0. MailTypeOK /\ ReadShown /\ NoneMissed /\ Online \subseteq Nations
  BY MailAssumption DEF MailInv
<1>1. \A n \in Nations : shown[n] \subseteq shown'[n]
  BY <1>0, ShownGrows
<1>2. (\A u : Shown(u) => Shown(u)') /\ cameLate \subseteq cameLate'
  BY <1>0, <1>1, LateGrows DEF Shown
<1>3. CASE UNCHANGED <<box, sent, cameLate>>
  BY <1>0, <1>2, <1>3 DEF NoneMissed
<1>4. ASSUME NEW n \in Online, ReadDelete(n), UNCHANGED <<sent, cameLate>>
      PROVE  NoneMissed'
  <2>1. \A m \in box : m \in box' \/ Shown(m.uid) \/ m.uid \in cameLate
    BY <1>0, <1>4 DEF ReadDelete, Addressed, ReadShown, Shown
  <2> QED
    BY <1>0, <1>2, <1>4, <2>1 DEF NoneMissed
<1>5. ASSUME NEW kind \in Kinds, NEW A \in SUBSET Addressees, IsFiniteSet(A), Insert(kind, A)
      PROVE  NoneMissed'
  <2>1. /\ box \subseteq box' /\ sent \in Nat
        /\ \A u \in 1..sent' : u <= sent \/ \E m \in box' : m.uid = u
    BY <1>0, <1>5, InsertAdds, MailAssumption DEF MailTypeOK
  <2>2. \A u \in 1..sent' : u <= sent => u \in 1..sent
    BY <2>1
  <2> QED
    BY <1>0, <1>2, <2>1, <2>2 DEF NoneMissed
<1>6. IsFiniteSet({Deity}) /\ IsFiniteSet(Nations) /\ \A d \in Nations : IsFiniteSet({d})
  BY OneElement, MailAssumption
<1>7. ASSUME NEW d \in Nations, Insert("telegram", {d})
      PROVE  NoneMissed'
  BY <1>5, <1>6, <1>7 DEF Kinds, Addressees
<1>8. ASSUME Insert("announcement", {Deity}) \/ Insert("report", Nations)
      PROVE  NoneMissed'
  BY <1>5, <1>6, <1>8 DEF Kinds, Addressees
<1> QED
  BY <1>3, <1>4, <1>7, <1>8, StepInserts

LEMMA MailInvStep == MailInv /\ [MailNext]_mailVars => MailInv'
<1>. SUFFICES ASSUME MailInv, [MailNext]_mailVars PROVE MailInv'
  OBVIOUS
<1>1. MailTypeOK' /\ Numbered'
  BY TypeStep, NumberedStep DEF MailInv
<1> QED
  BY <1>1, TallyStep, ReadShownStep, NoneMissedStep DEF MailInv

LEMMA MailInvInit == MailInit => MailInv
<1>. SUFFICES ASSUME MailInit PROVE MailInv
  OBVIOUS
<1>1. IsFiniteSet({}) /\ Cardinality({}) = 0
  BY FS_EmptySet
<1>2. \A n \in Nations : Waiting(n) = {} /\ teleCnt[n] = 0
  BY DEF MailInit, Waiting, Of, Addressed
<1>3. Numbered
  BY <1>1, <1>2 DEF MailInit, Numbered
<1>4. \A p \in Online : pc[p] = "idle"
  BY DEF MailInit
<1>5. ASSUME NEW n \in Nations
      PROVE  TallyOf(n)
  <2>1. ~Crossing(n) /\ ~Resets(n) /\ \A p \in Online : ~Puts(p, n) /\ ~Sends(p, n)
    BY <1>4 DEF Crossing, Resets, Puts, Sends, Reads
  <2>2. Cardinality(Senders(n)) = 0
    BY <2>1, NoSenders
  <2> QED
    BY <1>1, <1>2, <2>1, <2>2 DEF TallyOf
<1>6. Tally
  BY <1>5 DEF Tally
<1>7. ReadShown
  BY <1>4 DEF ReadShown
<1>8. NoneMissed
  BY DEF MailInit, NoneMissed
<1> QED
  BY <1>3, <1>6, <1>7, <1>8, TypeInit DEF MailInv

THEOREM MailInvariant == MailSpec => []MailInv
  BY MailInvInit, MailInvStep, PTL DEF MailSpec

\* Whatever the senders of several sessions do at once, and whichever rows are
\* put back, the counter of a nation at which a sender, its "read" and a put
\* have not crossed, and no statement on its counter has failed, since its
\* messages were last deleted is the number of telegrams of players that wait
\* for it, less those whose sender is about to count them.
THEOREM CounterIsExact == MailSpec => []CountsTelegrams
<1>1. MailInv => CountsTelegrams
  BY DEF MailInv, Tally, TallyOf, Waiting, Resets, CountsTelegrams
<1> QED
  BY <1>1, MailInvariant, PTL

\* In every interleaving of sessions and with failing statements: a message
\* that was inserted is still there, has been shown to somebody, or arrived
\* while its addressee was between the query and the deletion of "read".
THEOREM ReadShowsWhatItRemoves == MailSpec => []NothingRemovedUnread
<1>1. MailInv => NothingRemovedUnread
  BY DEF MailInv, NoneMissed, NothingRemovedUnread
<1> QED
  BY <1>1, MailInvariant, PTL
=============================================================================
