----------------------------- MODULE MCSchedule -----------------------------
(* Small instances of Schedule for TLC: files of up to three lines.  Days   *)
(* have three minutes, and the present is a Tuesday.                        *)
EXTENDS Schedule

At(u) == [form |-> "at", at |-> u]
NextOf(day, tod) == [form |-> "next", day |-> day, tod |-> tod]
Every(step, until) == [kind |-> "every", step |-> step, until |-> until]

\* Past and future times, one of them shown twice by the clock; the next
\* Tuesday and Wednesday; and one that repeats a time of the others.
Lines ==
    {[kind |-> "time", when |-> w] : w \in
        {At(1), At(6), At(8), At(11), At(13), NextOf(1, <<>>), NextOf(2, <<2>>)}}
    \cup {[kind |-> "skip", when |-> w] : w \in {At(6), At(8), NextOf(2, <<2>>)}}
    \cup {Every(2, <<>>), Every(3, <<At(11)>>), Every(5, <<NextOf(1, <<>>)>>), Every(0, <<>>)}
    \cup {[kind |-> "junk"]}

SomeFiles == UNION {[1..n -> Lines] : n \in 0..3}

\* Files of one period and the time it counts from.
PeriodicFiles == {<<[kind |-> "time", when |-> At(u)], Every(step, <<>>)>> : u \in {1, 6}, step \in {2, 3}}
Clock == {13}
=============================================================================
