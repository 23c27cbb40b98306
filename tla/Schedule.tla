------------------------------ MODULE Schedule ------------------------------
(***************************************************************************)
(* read_schedule of empire-config (rdsched.rs): the times of the next      *)
(* updates, read from a file of directives, one a line.                    *)
(*                                                                         *)
(* A time is a number of minutes since the midnight before some Monday.    *)
(* A directive is a record: "time" and "skip" hold the time they name,     *)
(* "every" its step and the time after "until", if any.  A time is named   *)
(* outright or as the next day of the week, with or without a time of the  *)
(* day.  A line that makes no sense is "junk".                             *)
(*                                                                         *)
(* The reader is called by the update loop before each sleep               *)
(* (update.rs), by "show updates" (show.rs) and by empsched.  All three    *)
(* round the present up to a full minute for the anchor and ask for what   *)
(* comes after a moment within half a minute of the present; times in the  *)
(* file are full minutes, so only the minute of that moment counts.        *)
(***************************************************************************)
EXTENDS Integers, FiniteSets, SequencesExt

CONSTANTS Files,        \* the files the reader may meet
          Nows,         \* the minutes the present may be rounded up to
          UpdateMax,    \* how many times the update loop asks for: 16
          Counts,       \* how many "show updates" and empsched may ask for
          DayLen,       \* minutes in a day
          Unclear,      \* local times the clock shows twice or never
          Horizon       \* bound on the times an "every" reaches

\* A time as the file names it, and a line of the file.
Whens ==
    [form : {"at"}, at : Nat]
    \cup [form : {"next"}, day : 0..6, tod : Seq(0..(DayLen - 1))]

Directives ==
    [kind : {"time", "skip"}, when : Whens]
    \cup [kind : {"every"}, step : Nat, until : Seq(Whens)]
    \cup [kind : {"junk"}]

ASSUME ScheduleAssumption ==
    /\ Files \subseteq Seq(Directives)
    /\ Nows \subseteq Nat /\ Counts \subseteq Nat /\ Unclear \subseteq Nat
    /\ UpdateMax \in Nat /\ Horizon \in Nat /\ DayLen \in Nat \ {0}

VARIABLES
    file,       \* the directives
    lno,        \* the next line
    sched,      \* the times found so far
    anchor,     \* what "next" and "every" count from
    looping,    \* whether an "every" is being carried out
    reached,    \* the time it has reached
    after,      \* only later times are wanted
    max,        \* and no more than so many
    start,      \* the anchor of the caller
    returned    \* whether the reader is done

caller == <<file, after, max, start>>
scheduleVars == <<caller, lno, sched, anchor, looping, reached, returned>>

-----------------------------------------------------------------------------
(* Times. *)

\* The day of the week, Monday being 0.
Weekday(a) == (a \div DayLen) % 7

\* parse_next: the day is at least one day ahead, the time of the day that
\* of the anchor unless it is given.
NextDay(when, a) ==
    LET ahead == (when.day + 7 - Weekday(a)) % 7
        days  == IF ahead = 0 THEN 7 ELSE ahead
        tod   == IF when.tod = <<>> THEN a % DayLen ELSE when.tod[1]
    IN ((a \div DayLen) + days) * DayLen + tod

\* parse_time_str
Time(when, a) == IF when.form = "next" THEN NextDay(when, a) ELSE when.at

\* local_from_naive refuses a time the clock shows twice or never.
Readable(d, a) ==
    CASE d.kind = "junk"  -> FALSE
      [] d.kind = "every" -> \A i \in DOMAIN d.until : Time(d.until[i], a) \notin Unclear
      [] OTHER            -> Time(d.when, a) \notin Unclear

-----------------------------------------------------------------------------
(* The schedule, a sorted vector. *)

\* partition_point
Position(u) == Cardinality({i \in DOMAIN sched : sched[i] < u})

Scheduled(u) == \E i \in DOMAIN sched : sched[i] = u

\* What insert_update refuses for its place, which ends an "every": a time
\* that is past, and one beyond a full schedule.
Outside(u) ==
    \/ u <= after
    \/ ~Scheduled(u) /\ Position(u) >= max

CutTo(s, n) == IF Len(s) > n THEN SubSeq(s, 1, n) ELSE s

\* insert_update
Inserted(u) ==
    IF Outside(u) \/ Scheduled(u) THEN sched ELSE CutTo(InsertAt(sched, Position(u) + 1, u), max)

\* delete_update
Deleted(u) == IF Scheduled(u) THEN RemoveAt(sched, Position(u) + 1) ELSE sched

-----------------------------------------------------------------------------
ScheduleInit ==
    /\ file \in Files
    /\ start \in Nows
    /\ \/ max = UpdateMax /\ after \in {start - 1, start}
       \/ max \in Counts \ {0} /\ after \in {start - 1, start}
       \/ max \in Counts /\ after \in {start - 2, start - 1}
    /\ lno = 1
    /\ sched = <<>>
    /\ anchor = start
    /\ looping = FALSE
    /\ reached = start
    /\ returned = FALSE

\* A line of the given kind is next.
Reading(kind) ==
    /\ ~returned
    /\ ~looping
    /\ lno \in DOMAIN file
    /\ file[lno].kind = kind
    /\ Readable(file[lno], anchor)

\* A line with an error is skipped, with a warning.
SkipLine ==
    /\ ~returned
    /\ ~looping
    /\ lno \in DOMAIN file
    /\ ~Readable(file[lno], anchor)
    /\ lno' = lno + 1
    /\ UNCHANGED <<caller, sched, anchor, looping, reached, returned>>

\* A time of its own; it becomes the anchor, past or not.
ReadTime ==
    /\ Reading("time")
    /\ LET u == Time(file[lno].when, anchor)
       IN /\ anchor' = u
          /\ sched' = Inserted(u)
    /\ lno' = lno + 1
    /\ UNCHANGED <<caller, looping, reached, returned>>

ReadSkip ==
    /\ Reading("skip")
    /\ sched' = Deleted(Time(file[lno].when, anchor))
    /\ lno' = lno + 1
    /\ UNCHANGED <<caller, anchor, looping, reached, returned>>

\* parse_every, up to its loop
BeginEvery ==
    /\ Reading("every")
    /\ looping' = TRUE
    /\ reached' = anchor
    /\ UNCHANGED <<caller, lno, sched, anchor, returned>>

PastUntil(u) == \E i \in DOMAIN file[lno].until : u > Time(file[lno].until[i], anchor)

\* MUTANT: an "every" ends as soon as the schedule is full, though its next
\* time may precede what is scheduled.
EndEveryFull ==
    /\ looping
    /\ reached' = reached + file[lno].step
    /\ PastUntil(reached') \/ Outside(reached') \/ Len(sched) >= max
    /\ looping' = FALSE
    /\ lno' = lno + 1
    /\ UNCHANGED <<caller, sched, anchor, returned>>

\* MUTANT: an "every" without "until" never ends.
EndEveryAtUntil ==
    /\ looping
    /\ reached' = reached + file[lno].step
    /\ PastUntil(reached')
    /\ looping' = FALSE
    /\ lno' = lno + 1
    /\ UNCHANGED <<caller, sched, anchor, returned>>

\* The loop of parse_every breaks.
EndEvery ==
    /\ looping
    /\ reached' = reached + file[lno].step
    /\ PastUntil(reached') \/ Outside(reached')
    /\ looping' = FALSE
    /\ lno' = lno + 1
    /\ UNCHANGED <<caller, sched, anchor, returned>>

\* The loop of parse_every goes on.
EveryStep ==
    /\ looping
    /\ reached + file[lno].step <= Horizon
    /\ reached' = reached + file[lno].step
    /\ ~PastUntil(reached') /\ ~Outside(reached')
    /\ sched' = Inserted(reached')
    /\ UNCHANGED <<caller, lno, anchor, looping, returned>>

Return ==
    /\ ~returned
    /\ lno = Len(file) + 1
    /\ sched' = CutTo(sched, max)
    /\ returned' = TRUE
    /\ UNCHANGED <<caller, lno, anchor, looping, reached>>

ScheduleNext ==
    \/ SkipLine \/ ReadTime \/ ReadSkip
    \/ BeginEvery \/ EveryStep \/ EndEvery
    \/ Return

ScheduleSpec == ScheduleInit /\ [][ScheduleNext]_scheduleVars

\* The reader is a plain function: it runs on until it returns.
ScheduleFairSpec == ScheduleSpec /\ WF_scheduleVars(ScheduleNext)

-----------------------------------------------------------------------------
(* What the file says, without limits and in one sweep: the times up to    *)
(* the horizon each prefix of its lines asks for, and the anchor it leaves *)
(* behind.                                                                 *)

Multiples(d, a) ==
    {u \in (a + 1)..Horizon :
        /\ d.step > 0 /\ (u - a) % d.step = 0
        /\ \A i \in DOMAIN d.until : u <= Time(d.until[i], a)}

\* What a line makes of the times asked for so far and the anchor.
WrittenBy(d, r) ==
    CASE ~Readable(d, r.anchor) -> r
      [] Readable(d, r.anchor) /\ d.kind = "time" ->
           [times |-> r.times \cup {Time(d.when, r.anchor)}, anchor |-> Time(d.when, r.anchor)]
      [] Readable(d, r.anchor) /\ d.kind = "skip" ->
           [times |-> r.times \ {Time(d.when, r.anchor)}, anchor |-> r.anchor]
      [] OTHER -> [times |-> r.times \cup Multiples(d, r.anchor), anchor |-> r.anchor]

Written ==
    LET w[i \in 0..Len(file)] ==
          IF i = 0 THEN [times |-> {}, anchor |-> start] ELSE WrittenBy(file[i], w[i - 1])
    IN w

Upcoming(w, i) == {u \in w[i].times : u > after}

Earliest(n, S) == {u \in S : Cardinality({v \in S : v < u}) < n}

\* Files read without loss: an "every" starts in the future, and a "skip"
\* comes before anything was left out for want of room.
Lossless(w, n) ==
    \A i \in 1..n : Readable(file[i], w[i - 1].anchor) =>
        /\ file[i].kind = "every" => file[i].step > 0 /\ w[i - 1].anchor + file[i].step > after
        /\ file[i].kind = "skip" => Cardinality(Upcoming(w, i - 1)) <= max

-----------------------------------------------------------------------------
(* Properties. *)

Ascending(s) == \A i, j \in DOMAIN s : i < j => s[i] < s[j]

\* What the update loop takes the first of is ascending, without repetition,
\* in the future and no longer than asked, at every point of the reading
\* and whatever the file says.
WellFormed ==
    /\ sched \in Seq(Int)
    /\ Ascending(sched)
    /\ \A i \in DOMAIN sched : sched[i] > after
    /\ Len(sched) <= max

\* Line by line the reader inserts, displaces and breaks off; after each
\* line it holds nothing the file does not ask for, and, unless the file is
\* one it loses something of, exactly the earliest times the file asks for.
EarliestWritten ==
    ~looping =>
        LET w == Written
            n == lno - 1
        IN /\ Range(sched) \subseteq Upcoming(w, n)
           /\ Lossless(w, n) => Range(sched) = Earliest(max, Upcoming(w, n))

\* Every file is read to its end, and so the update loop goes to sleep,
\* unless an "every" has a step of zero.
ReadToTheEnd ==
    (\A i \in DOMAIN file : file[i].kind = "every" => file[i].step > 0) ~> returned

\* rdsched.rs:133 says of the loop of "every": "Stop when the schedule is
\* full and the new time is beyond the end."  (It also stops when the new
\* time is past, and then schedules nothing at all.)
StopsWhenFull ==
    [][EndEvery => \/ PastUntil(reached')
                   \/ Len(sched) = max /\ \A i \in DOMAIN sched : sched[i] < reached']_scheduleVars
=============================================================================
