------------------------------- MODULE MCWorld -------------------------------
(* A world of 6 by 4, which has 12 sectors, for TLC. *)
EXTENDS World

Line(nc, sc, ni, is, sp, pm, di, id, distinct) ==
    [nc |-> nc, sc |-> sc, ni |-> ni, is |-> is, sp |-> sp, pm |-> pm, di |-> di, id |-> id,
     distinct |-> distinct]

\* Islands that crowd each other; a group after another; no islands, and more mountains asked for
\* than there is room for; too much land; refused.
Lines == {Line(2, 2, 2, 3, 50, 50, 0, 0, TRUE), Line(1, 2, 2, 2, 100, 100, 0, 1, FALSE),
          Line(2, 3, 0, 1, 50, 70, 1, 0, TRUE), Line(2, 4, 0, 1, 0, 0, 1, 0, TRUE),
          Line(2, 2, 1, 1, 0, 0, 1, 1, TRUE)}
=============================================================================
