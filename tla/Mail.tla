-------------------------------- MODULE Mail --------------------------------
(***************************************************************************)
(* Telegrams and announcements (telegrams.rs) and the commands and the     *)
(* update that use them: "telegram", "announce", "read", "read w", the     *)
(* update's reports, and the commands that put a nation's row back whole.  *)
(*                                                                         *)
(* A message is a row; the nation's row counts what is new.  Row and       *)
(* counter are changed by statements of their own, with no transaction,    *)
(* and commands of several sessions interleave between any two of them.    *)
(* An announcement is one shared row addressed to country 0, the deity.    *)
(***************************************************************************)
EXTENDS Naturals, FiniteSets

CONSTANTS Nations,     \* the active nations, with their rows
          Online,      \* those with a session
          Deity,       \* country 0, to_cnum of announcements
          MaxMsgs,     \* bound on messages
          MaxClock     \* bound on seconds

ASSUME MailAssumption ==
    /\ Online \subseteq Nations
    /\ IsFiniteSet(Nations)
    /\ MaxMsgs \in Nat /\ MaxClock \in Nat

VARIABLES
    box,       \* the rows of telegrams
    sent,      \* how many messages have been inserted
    teleCnt, annCnt, lastRead,   \* columns of the nations' rows
    clock,     \* seconds
    crossed,   \* history: nations whose counter may be wrong
    cameLate,  \* history: messages inserted while their addressee read
    pc,        \* the next statement of each session's command
    to,        \* addressee of the telegram, owner of the row to put back
    copy,      \* copy of a nation's row
    shown      \* history: messages shown to each nation

counters == <<teleCnt, annCnt, lastRead>>
local == <<pc, to, copy>>
mailVars == <<box, sent, counters, clock, crossed, cameLate, local, shown>>

Msg == [uid: 1..MaxMsgs, to: Nations \cup {Deity},
        kind: {"telegram", "announcement", "report"}, at: Nat]
Columns == [tele: Nat, ann: Nat, last: Nat]
NoColumns == [tele |-> 0, ann |-> 0, last |-> 0]

MailTypeOK ==
    /\ box \subseteq Msg
    /\ sent \in 0..MaxMsgs
    /\ teleCnt \in [Nations -> Nat]
    /\ annCnt \in [Nations -> Nat]
    /\ lastRead \in [Nations -> Nat]
    /\ clock \in 1..(MaxClock + 1)
    /\ crossed \in SUBSET Nations
    /\ cameLate \in SUBSET (1..MaxMsgs)
    /\ pc \in [Online -> {"idle", "count", "countAll", "put", "delete",
                          "reset", "fetch", "clear"}]
    /\ to \in [Online -> Nations]
    /\ copy \in [Online -> Columns]
    /\ shown \in [Nations -> SUBSET (1..MaxMsgs)]

MailInit ==
    /\ box = {} /\ sent = 0
    /\ teleCnt = [n \in Nations |-> 0]
    /\ annCnt = [n \in Nations |-> 0]
    /\ lastRead = [n \in Nations |-> 0]
    /\ clock = 1
    /\ crossed = {} /\ cameLate = {}
    /\ pc = [n \in Online |-> "idle"]
    /\ to = [n \in Online |-> n]
    /\ copy = [n \in Online |-> NoColumns]
    /\ shown = [n \in Nations |-> {}]

Resting == \A n \in Online : pc[n] = "idle"
Begin(n) == pc[n] = "idle"
Proceed(n, p) == pc' = [pc EXCEPT ![n] = p]

\* What a command has read ends with it.
Done(n) ==
    /\ Proceed(n, "idle")
    /\ to' = [to EXCEPT ![n] = n]
    /\ copy' = [copy EXCEPT ![n] = NoColumns]

Addressed(n) == {m \in box : m.to = n}

Show(n, msgs) == shown' = [shown EXCEPT ![n] = @ \cup {m.uid : m \in msgs}]

Insert(kind, addressees) ==
    /\ sent + Cardinality(addressees) <= MaxMsgs
    /\ \E num \in [addressees -> (sent + 1)..(sent + Cardinality(addressees))] :
        /\ \A a, b \in addressees : a # b => num[a] # num[b]
        /\ box' = box \cup {[uid |-> num[a], to |-> a, kind |-> kind, at |-> clock] :
                              a \in addressees}
        /\ cameLate' = cameLate \cup {num[a] : a \in {b \in addressees \cap Online : pc[b] = "delete"}}
    /\ sent' = sent + Cardinality(addressees)

-----------------------------------------------------------------------------
(* Faulty variants of the definitions below.  Nothing in the specification *)
(* uses them: each stands for a mistake that a property must catch.        *)

\* get_unread that shows the telegrams only.
ReadFetchTelegrams(n) ==
    /\ Begin(n)
    /\ Show(n, {m \in Addressed(n) : m.kind = "telegram"})
    /\ IF Addressed(n) = {} THEN UNCHANGED pc ELSE Proceed(n, "delete")
    /\ UNCHANGED <<box, sent, counters, clock, cameLate, to, copy>>

\* A reset of the counter that forgets to say whose.
ReadResetAll(n) ==
    /\ pc[n] = "reset"
    /\ teleCnt' = [d \in Nations |-> 0]
    /\ Done(n)
    /\ UNCHANGED <<box, sent, annCnt, lastRead, clock, cameLate, shown>>

-----------------------------------------------------------------------------
(* "telegram": send() for each recipient *)

SendInsert(n, d) ==
    /\ Begin(n)
    /\ Insert("telegram", {d})
    /\ to' = [to EXCEPT ![n] = d]
    /\ Proceed(n, "count")
    /\ UNCHANGED <<counters, clock, copy, shown>>

SendCount(n) ==
    /\ pc[n] = "count"
    /\ teleCnt' = [teleCnt EXCEPT ![to[n]] = @ + 1]
    /\ Done(n)
    /\ UNCHANGED <<box, sent, annCnt, lastRead, clock, cameLate, shown>>

(* "announce": announce() *)

AnnounceInsert(n) ==
    /\ Begin(n)
    /\ Insert("announcement", {Deity})
    /\ Proceed(n, "countAll")
    /\ UNCHANGED <<counters, clock, to, copy, shown>>

AnnounceCount(n) ==
    /\ pc[n] = "countAll"
    /\ annCnt' = [d \in Nations |-> annCnt[d] + 1]
    /\ Done(n)
    /\ UNCHANGED <<box, sent, teleCnt, lastRead, clock, cameLate, shown>>

(* "read": get_unread(), then mark_read() unless there was nothing *)

ReadFetch(n) ==
    /\ Begin(n)
    /\ Show(n, Addressed(n))
    /\ IF Addressed(n) = {} THEN UNCHANGED pc ELSE Proceed(n, "delete")
    /\ UNCHANGED <<box, sent, counters, clock, cameLate, to, copy>>

\* Every row addressed to the nation by now.
ReadDelete(n) ==
    /\ pc[n] = "delete"
    /\ box' = box \ Addressed(n)
    /\ Proceed(n, "reset")
    /\ UNCHANGED <<sent, counters, clock, cameLate, to, copy, shown>>

ReadReset(n) ==
    /\ pc[n] = "reset"
    /\ teleCnt' = [teleCnt EXCEPT ![n] = 0]
    /\ Done(n)
    /\ UNCHANGED <<box, sent, annCnt, lastRead, clock, cameLate, shown>>

(* "read w [days]": the announcements of so many days, or since the last   *)
(* reading, as the row of the nation had it when the command was           *)
(* dispatched; then clear_announces(), whatever was shown                  *)

AnnBegin(n) ==
    /\ Begin(n)
    /\ \E since \in {lastRead[n], 0} : copy' = [copy EXCEPT ![n].last = since]
    /\ Proceed(n, "fetch")
    /\ UNCHANGED <<box, sent, counters, clock, cameLate, to, shown>>

\* get_announces: what "read w" shows.
NewAnnouncements(since) ==
    {m \in box : m.to = Deity /\ m.kind = "announcement" /\ m.at > since}

AnnFetch(n) ==
    /\ pc[n] = "fetch"
    /\ Show(n, NewAnnouncements(copy[n].last))
    /\ Proceed(n, "clear")
    /\ UNCHANGED <<box, sent, counters, clock, cameLate, to, copy>>

AnnClear(n) ==
    /\ pc[n] = "clear"
    /\ annCnt' = [annCnt EXCEPT ![n] = 0]
    /\ lastRead' = [lastRead EXCEPT ![n] = clock]
    /\ Done(n)
    /\ UNCHANGED <<box, sent, teleCnt, clock, cameLate, shown>>

-----------------------------------------------------------------------------
(* A command that reads the row of a nation and puts it back whole: its    *)
(* own ("change") or another's (the seller's, in "buy").                   *)

CopyRow(n, d) ==
    /\ Begin(n)
    /\ to' = [to EXCEPT ![n] = d]
    /\ copy' = [copy EXCEPT ![n] =
                  [tele |-> teleCnt[d], ann |-> annCnt[d], last |-> lastRead[d]]]
    /\ Proceed(n, "put")
    /\ UNCHANGED <<box, sent, counters, clock, cameLate, shown>>

PutRow(n) ==
    /\ pc[n] = "put"
    /\ teleCnt' = [teleCnt EXCEPT ![to[n]] = copy[n].tele]
    /\ annCnt' = [annCnt EXCEPT ![to[n]] = copy[n].ann]
    /\ lastRead' = [lastRead EXCEPT ![to[n]] = copy[n].last]
    /\ Done(n)
    /\ UNCHANGED <<box, sent, clock, cameLate, shown>>

\* A statement of a command fails, or its session ends: the command says so,
\* or is gone, and what its earlier statements changed stays changed.
Fail(n) ==
    /\ pc[n] # "idle"
    /\ Done(n)
    /\ UNCHANGED <<box, sent, counters, clock, cameLate, shown>>

(* The update, which excludes all commands: it loads the nations' rows,    *)
(* sends each nation a report, counted like any telegram, and puts the     *)
(* rows back as they were loaded.                                          *)

Counted(cnt) == [n \in Nations |-> cnt[n] + 1]
PutBack(loaded, counted) == loaded

Update ==
    /\ Resting
    /\ Insert("report", Nations)
    /\ teleCnt' = PutBack(teleCnt, Counted(teleCnt))
    /\ UNCHANGED <<annCnt, lastRead, clock, local, shown>>

Second ==
    /\ clock <= MaxClock
    /\ clock' = clock + 1
    /\ UNCHANGED <<box, sent, counters, cameLate, local, shown>>

-----------------------------------------------------------------------------
(* Which commands work on a nation's counter, or on its messages, and when *)
(* two that do so in different ways overlap.                               *)

Sends(p, n) == pc[p] = "count" /\ to[p] = n
Puts(p, n)  == pc[p] = "put" /\ to[p] = n
Reads(p, n) == p = n /\ pc[p] \in {"delete", "reset"}

Crossing(n) ==
    \E p, q \in Online :
        \/ Sends(p, n) /\ (Reads(q, n) \/ Puts(q, n))
        \/ Reads(p, n) /\ Puts(q, n)

\* A nation's messages are deleted: its counter starts afresh.  A statement
\* that was to change a counter fails: that counter is missed.
Note(afresh, missed) ==
    crossed' = {n \in Nations : Crossing(n)' \/ n \in (crossed \ afresh) \cup missed}

Miscounted(p) == {n \in Nations : Sends(p, n) \/ (p = n /\ pc[p] = "reset")}

Statement(n) ==
    \/ \E d \in Nations : SendInsert(n, d) \/ CopyRow(n, d)
    \/ SendCount(n) \/ PutRow(n)
    \/ AnnounceInsert(n) \/ AnnounceCount(n)
    \/ ReadFetch(n) \/ ReadReset(n)
    \/ AnnBegin(n) \/ AnnFetch(n) \/ AnnClear(n)

MailNext ==
    \/ \E n \in Online : Statement(n) /\ Note({}, {})
    \/ \E n \in Online : ReadDelete(n) /\ Note({n}, {})
    \/ \E n \in Online : Fail(n) /\ Note({}, Miscounted(n))
    \/ (Update \/ Second) /\ UNCHANGED crossed

MailSpec == MailInit /\ [][MailNext]_mailVars

-----------------------------------------------------------------------------
(* Properties *)

Shown(u) == \E n \in Nations : u \in shown[n]

Of(n, kinds) == {m \in Addressed(n) : m.kind \in kinds}

\* Senders whose telegram to the nation is not counted yet.
Senders(n) == {p \in Online : Sends(p, n)}

\* However many senders overlap, and whatever is done to other nations, the
\* counter of a nation says how many telegrams of players wait for it, less
\* those that are about to be counted: unless, since its messages were last
\* deleted, two of a sender, the nation's "read" and a whole row put back
\* have crossed at this nation, or a statement on its counter has failed. The
\* reports of an update are messages that are not counted: update_main puts back
\* the row it had before it sent them, although send() "increments their tele_cnt".
CountsTelegrams ==
    /\ MailTypeOK
    /\ \A n \in Nations \ crossed :
          (n \in Online => pc[n] # "reset") =>
              teleCnt[n] + Cardinality(Senders(n)) = Cardinality(Of(n, {"telegram"}))

\* What "read" removes it has shown, but for messages that arrived between
\* its query and its deletion; every other message waits or has been shown.
NothingRemovedUnread ==
    \A u \in 1..sent : Shown(u) \/ u \in cameLate \/ \E m \in box : m.uid = u
=============================================================================
