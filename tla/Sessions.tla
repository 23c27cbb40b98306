------------------------------ MODULE Sessions ------------------------------
(***************************************************************************)
(* Player connections of empire-server: the login dialogue and the playing *)
(* loop of session.rs, and the SessionRegistry of state.rs they share.     *)
(*                                                                         *)
(* Every connection is a Tokio task, so any two of them interleave between *)
(* two accesses to the registry: the mutex of the registry is released     *)
(* after each call.  A look-up and the change decided from it are          *)
(* therefore two steps here, as they are in the code.                      *)
(*                                                                         *)
(* Whether a password is accepted is the environment's choice, and what a  *)
(* command does to the game is left to the other modules.                  *)
(***************************************************************************)
EXTENDS Naturals, FiniteSets

CONSTANTS Conns,         \* connections (the n of "Session-n")
          Countries,     \* country numbers that exist and can be named
          None,          \* no country, no session
          MaxKills,      \* bound on completed "kill" commands
          MaxInitFails   \* bound on lost connections at the C_INIT reply

ASSUME SessionsAssumption ==
    /\ IsFiniteSet(Conns)
    /\ None \notin Conns
    /\ None \notin Countries
    /\ MaxKills \in Nat
    /\ MaxInitFails \in Nat

VARIABLES
    phase,      \* where each connection's task is
    cnum,       \* LoginCtx.cnum, then the cnum the playing loop was given
    authed,     \* LoginCtx.authenticated
    registry,   \* SessionRegistry: the connection registered for a country
    logrec,     \* nations row: was record_login or record_logout last?
    held,       \* logrec of a row copied by another country's command
    entered,    \* history: what the row said when a session's loop began
    rewound,    \* history: an older row was put back during the session
    kills,      \* history: evictions by "kill", per country
    initFails,  \* history: sessions lost between try_enter and the loop
    late        \* history: commands begun since the country lost its entry

vars == <<phase, cnum, authed, registry, logrec, held, entered, rewound,
          kills, initFails, late>>

(***************************************************************************)
(* "entering" is between get and try_enter of "play"; "greeting" has the   *)
(* entry and is about to write C_INIT; "recording" waits for the read lock *)
(* of record_login; "waiting" has passed the eviction check and waits for  *)
(* the read lock of dispatch; "leaving" and "left" are before and after    *)
(* record_logout; "killing" is between get and leave of "kill".            *)
(***************************************************************************)
InLoop     == {"playing", "waiting"}
Registered == {"greeting", "recording", "leaving", "left"} \cup InLoop
Phases     == {"free", "login", "entering", "killing", "closed"} \cup Registered

TypeOK ==
    /\ phase \in [Conns -> Phases]
    /\ cnum \in [Conns -> Countries \cup {None}]
    /\ authed \in [Conns -> BOOLEAN]
    /\ registry \in [Countries -> Conns \cup {None}]
    /\ logrec \in [Countries -> {"in", "out"}]
    /\ held \in [Countries -> {"none", "in", "out"}]
    /\ entered \in [Conns -> {"in", "out"}]
    /\ rewound \in [Countries -> BOOLEAN]
    /\ kills \in [Countries -> Nat]
    /\ initFails \in Nat
    /\ late \in [Conns -> Nat]

Init ==
    /\ phase = [x \in Conns |-> "free"]
    /\ cnum = [x \in Conns |-> None]
    /\ authed = [x \in Conns |-> FALSE]
    /\ registry = [c \in Countries |-> None]
    /\ logrec = [c \in Countries |-> "out"]
    /\ held = [c \in Countries |-> "none"]
    /\ entered = [x \in Conns |-> "out"]
    /\ rewound = [c \in Countries |-> FALSE]
    /\ kills = [c \in Countries |-> 0]
    /\ initFails = 0
    /\ late = [x \in Conns |-> 0]

history == <<kills, initFails, late>>

\* The nation's row, the copy of it under way, and what is noted about both.
rows == <<logrec, held, entered, rewound>>

GoTo(x, p) == phase' = [phase EXCEPT ![x] = p]

-----------------------------------------------------------------------------
(* Faulty variants of the definitions below.  Nothing in the specification *)
(* uses them: each stands for a mistake that a property must catch.        *)

\* try_enter that inserts without looking for an entry.
TryEnterUnchecked(x, c) ==
    /\ registry' = [registry EXCEPT ![c] = x]
    /\ late' = [y \in Conns |-> IF cnum[y] = c THEN 0 ELSE late[y]]

\* A playing loop without the eviction check.
CommandUnchecked(x) ==
    /\ phase[x] = "playing"
    /\ GoTo(x, "waiting")
    /\ UNCHANGED <<cnum, authed, registry, rows, history>>

\* A playing loop that drops a killed session's command and reads on.
CommandDropped(x) ==
    /\ phase[x] = "playing"
    /\ registry[cnum[x]] # None
    /\ \E p \in {"leaving", "waiting"} : GoTo(x, p)
    /\ UNCHANGED <<cnum, authed, registry, rows, history>>

\* A clean-up that frees the entry before it records the logout.
RecordLogoutLate(x) ==
    /\ phase[x] = "leaving"
    /\ \/ /\ registry[cnum[x]] = x
          /\ registry' = [registry EXCEPT ![cnum[x]] = None]
          /\ UNCHANGED <<phase, logrec, entered, rewound>>
       \/ /\ registry[cnum[x]] # x
          /\ \E r \in {"out", logrec[cnum[x]]} :
                logrec' = [logrec EXCEPT ![cnum[x]] = r]
          /\ entered' = [entered EXCEPT ![x] = "out"]
          /\ rewound' = [rewound EXCEPT ![cnum[x]] = FALSE]
          /\ GoTo(x, "left")
          /\ UNCHANGED registry
    /\ UNCHANGED <<cnum, authed, held, history>>

-----------------------------------------------------------------------------
(* SessionRegistry *)

\* try_enter: insert unless the country has an entry.  The commands counted
\* by late start afresh when the country has a session again.
TryEnter(x, c) ==
    /\ registry[c] = None
    /\ registry' = [registry EXCEPT ![c] = x]
    /\ late' = [y \in Conns |-> IF cnum[y] = c THEN 0 ELSE late[y]]

\* leave: remove whatever entry the country has, whoever made it.
RegistryLeave(c) == registry' = [registry EXCEPT ![c] = None]

-----------------------------------------------------------------------------
(* The login dialogue: handle() *)

\* The accept loop spawns a task, which greets the client.  An identity is
\* used again once its task is over and no entry carries its name.
Connect(x) ==
    /\ phase[x] \in {"free", "closed"}
    /\ \A c \in Countries : registry[c] # x
    /\ GoTo(x, "login")
    /\ cnum' = [cnum EXCEPT ![x] = None]
    /\ authed' = [authed EXCEPT ![x] = FALSE]
    /\ late' = [late EXCEPT ![x] = 0]
    /\ UNCHANGED <<registry, rows, kills, initFails>>

\* End of input, "quit", or a write error before the session has entered.
Hangup(x) ==
    /\ phase[x] = "login"
    /\ GoTo(x, "closed")
    /\ UNCHANGED <<cnum, authed, registry, rows, history>>

\* "coun <name>" naming a country that exists.
Coun(x, c) ==
    /\ phase[x] = "login"
    /\ cnum' = [cnum EXCEPT ![x] = c]
    /\ authed' = [authed EXCEPT ![x] = FALSE]
    /\ UNCHANGED <<phase, registry, rows, history>>

\* "pass <password>" that is accepted; a refused one changes nothing.
Pass(x) ==
    /\ phase[x] = "login"
    /\ cnum[x] # None
    /\ authed' = [authed EXCEPT ![x] = TRUE]
    /\ UNCHANGED <<phase, cnum, registry, rows, history>>

\* "play [user [country [password]]]" up to the look-up in the registry.
\* The arguments take effect one by one, and a refused one leaves the
\* earlier ones in place.
Play(x, c, pw) ==
    /\ phase[x] = "login"
    /\ c \in {cnum[x]} \cup Countries
    /\ pw # "none" => c # None
    /\ cnum' = [cnum EXCEPT ![x] = c]
    /\ authed' = [authed EXCEPT ![x] = @ \/ pw = "ok"]
    /\ \/ /\ pw = "bad" \/ c = None \/ ~authed'[x]
          /\ UNCHANGED phase
       \/ /\ pw # "bad" /\ c # None /\ authed'[x]
          /\ GoTo(x, IF registry[c] = None THEN "entering" ELSE "closed")
    /\ UNCHANGED <<registry, rows, history>>

\* "play" goes on: try_enter, which another session may have beaten us to.
Enter(x) ==
    /\ phase[x] = "entering"
    /\ \/ /\ TryEnter(x, cnum[x])
          /\ GoTo(x, "greeting")
       \/ /\ registry[cnum[x]] # None
          /\ GoTo(x, "closed")
          /\ UNCHANGED <<registry, late>>
    /\ UNCHANGED <<cnum, authed, rows, kills, initFails>>

\* The C_INIT reply is written.
Greet(x) ==
    /\ phase[x] = "greeting"
    /\ GoTo(x, "recording")
    /\ UNCHANGED <<cnum, authed, registry, rows, history>>

\* The C_INIT reply fails: the ? leaves handle() past the clean-up.
GreetFails(x) ==
    /\ phase[x] = "greeting"
    /\ initFails < MaxInitFails
    /\ initFails' = initFails + 1
    /\ GoTo(x, "closed")
    /\ UNCHANGED <<cnum, authed, registry, rows, kills, late>>

\* record_login under the read lock, then playing_loop.  An error of the
\* database is thrown away: the row stays as it is and the session plays.
RecordLogin(x) ==
    /\ phase[x] = "recording"
    /\ \E r \in {"in", logrec[cnum[x]]} :
          /\ logrec' = [logrec EXCEPT ![cnum[x]] = r]
          /\ entered' = [entered EXCEPT ![x] = r]
    /\ rewound' = [rewound EXCEPT ![cnum[x]] = FALSE]
    /\ GoTo(x, "playing")
    /\ UNCHANGED <<cnum, authed, registry, held, history>>

-----------------------------------------------------------------------------
(* The playing loop: playing_loop() and the clean-up after it *)

\* A line arrives: the session ends if its country has no entry, or on
\* "quit" and "bye"; otherwise the command is on its way to dispatch.
Command(x) ==
    /\ phase[x] = "playing"
    /\ \/ /\ registry[cnum[x]] = None
          /\ GoTo(x, "leaving")
       \/ /\ registry[cnum[x]] # None
          /\ \E p \in {"leaving", "waiting"} : GoTo(x, p)
    /\ UNCHANGED <<cnum, authed, registry, rows, history>>

\* The read lock is granted: dispatch runs and the reply is written, which
\* ends the session when it fails.
Dispatch(x) ==
    /\ phase[x] = "waiting"
    /\ late' = IF registry[cnum[x]] = None
                 THEN [late EXCEPT ![x] = @ + 1] ELSE late
    /\ \E p \in {"playing", "leaving"} : GoTo(x, p)
    /\ UNCHANGED <<cnum, authed, registry, rows, kills, initFails>>

\* End of input or a read or write error in the loop.
Drop(x) ==
    /\ phase[x] = "playing"
    /\ GoTo(x, "leaving")
    /\ UNCHANGED <<cnum, authed, registry, rows, history>>

\* record_logout under the read lock, its error thrown away as well.
RecordLogout(x) ==
    /\ phase[x] = "leaving"
    /\ \E r \in {"out", logrec[cnum[x]]} :
          logrec' = [logrec EXCEPT ![cnum[x]] = r]
    /\ entered' = [entered EXCEPT ![x] = "out"]
    /\ rewound' = [rewound EXCEPT ![cnum[x]] = FALSE]
    /\ GoTo(x, "left")
    /\ UNCHANGED <<cnum, authed, registry, held, history>>

\* sessions.leave(cnum): the clean-up removes the country's entry, which
\* after a "kill" need not be the one this session made.
Leave(x) ==
    /\ phase[x] = "left"
    /\ RegistryLeave(cnum[x])
    /\ GoTo(x, "closed")
    /\ UNCHANGED <<cnum, authed, rows, history>>

-----------------------------------------------------------------------------
(* The "kill" command of the login dialogue *)

\* The look-up: without an entry the dialogue ends.
KillLook(x) ==
    /\ phase[x] = "login"
    /\ cnum[x] # None
    /\ authed[x]
    /\ kills[cnum[x]] < MaxKills
    /\ GoTo(x, IF registry[cnum[x]] = None THEN "closed" ELSE "killing")
    /\ UNCHANGED <<cnum, authed, registry, rows, history>>

\* The eviction, of the entry the country has by now.
KillEvict(x) ==
    /\ phase[x] = "killing"
    /\ RegistryLeave(cnum[x])
    /\ kills' = [kills EXCEPT ![cnum[x]] = @ + 1]
    /\ GoTo(x, "closed")
    /\ UNCHANGED <<cnum, authed, rows, initFails, late>>

-----------------------------------------------------------------------------
(* Another country's command that moves money ("accept" and "repay" of     *)
(* loan.rs) loads the nation's whole row and later puts it, under the same *)
(* shared lock as record_login and record_logout.                          *)

\* The row is loaded; one such command per country at a time.
RowRead(c) ==
    /\ held[c] = "none"
    /\ held' = [held EXCEPT ![c] = logrec[c]]
    /\ UNCHANGED <<phase, cnum, authed, registry, logrec, entered, rewound, history>>

\* The row is put with the times of login and logout it was loaded with, or
\* the command returns before its put.
RowPut(c) ==
    /\ held[c] # "none"
    /\ \/ /\ logrec' = [logrec EXCEPT ![c] = held[c]]
          /\ rewound' = [rewound EXCEPT ![c] = @ \/ held[c] # logrec[c]]
       \/ UNCHANGED <<logrec, rewound>>
    /\ held' = [held EXCEPT ![c] = "none"]
    /\ UNCHANGED <<phase, cnum, authed, registry, entered, history>>

-----------------------------------------------------------------------------
\* What the task does by itself once it may run.
Task(x) ==
    \/ Enter(x) \/ Greet(x) \/ RecordLogin(x) \/ Dispatch(x)
    \/ RecordLogout(x) \/ Leave(x) \/ KillEvict(x)

\* What waits for the client or the network.
Client(x) ==
    \/ Connect(x) \/ Hangup(x) \/ Pass(x) \/ KillLook(x)
    \/ \E c \in Countries : Coun(x, c)
    \/ \E c \in Countries \cup {None}, pw \in {"none", "ok", "bad"} : Play(x, c, pw)
    \/ Command(x) \/ Drop(x) \/ GreetFails(x)

Next ==
    \/ \E x \in Conns : Task(x) \/ Client(x)
    \/ \E c \in Countries : RowRead(c) \/ RowPut(c)

Spec == Init /\ [][Next]_vars

\* Tokio polls every ready task, and a client that plays keeps sending lines.
FairSpec ==
    /\ Spec
    /\ \A x \in Conns : WF_vars(Task(x)) /\ WF_vars(Command(x))

-----------------------------------------------------------------------------
(* Properties *)

SessionsOf(c) == {x \in Conns : cnum[x] = c /\ phase[x] \in Registered}
Playing(c) == {x \in SessionsOf(c) : phase[x] \in InLoop}

Undisturbed(c) == kills[c] = 0 /\ initFails = 0

\* As long as nobody used "kill" on a country and no C_INIT reply was lost,
\* the registry is exact: the country's entry names the one session between
\* try_enter and leave, and there is no other.
RegistryExact ==
    \A c \in Countries : Undisturbed(c) =>
        SessionsOf(c) = IF registry[c] = None THEN {} ELSE {registry[c]}

\* An entry never outlives its session, unless the C_INIT reply was lost,
\* and this even though a session's clean-up removes entries it did not make.
EntryHasSession ==
    initFails = 0 =>
        \A c \in Countries : registry[c] # None =>
            registry[c] \in SessionsOf(c)

\* Each kill lets at most one more session of the country into the loop,
\* however kills, clean-ups and logins overlap.
SessionsBoundedByKills ==
    initFails = 0 =>
        \A c \in Countries : Cardinality(SessionsOf(c)) <= 1 + kills[c]

\* After its country lost its entry, a session starts at most the one
\* command that had already passed the check, until somebody logs in again.
OneLateCommand == \A x \in Conns : late[x] <= 1

\* While a session plays undisturbed, the nation's row says what it said
\* when the session's own record_login had run (logged in, unless that
\* failed): the logout of an earlier session is recorded before the entry is
\* freed, so it cannot overtake the login of a later one.  Only a whole row
\* that another country's command had loaded before can take it back.
LoginRecordCurrent ==
    \A c \in Countries : Undisturbed(c) /\ ~rewound[c] =>
        \A x \in Playing(c) : logrec[c] = entered[x]

\* A session whose entry is gone ends, if nobody logs in to its country
\* meanwhile, and its client still sends something.
KilledSessionEnds ==
    \A x \in Conns, c \in Countries :
        (cnum[x] = c /\ phase[x] \in InLoop /\ registry[c] = None)
            ~> (phase[x] = "closed" \/ registry[c] # None)

\* Both together: what the registry says of who is playing is right but for
\* what "kill" and lost C_INIT replies explain.
RegistryAccounts == RegistryExact /\ SessionsBoundedByKills
=============================================================================
