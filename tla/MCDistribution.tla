--------------------------- MODULE MCDistribution ---------------------------
(* Three sectors in a row for TLC: a warehouse or a mine at either end, and *)
(* between them one that may belong to the neighbour or to nobody.          *)
EXTENDS Distribution

Owners == {<<1, 1, 1>>, <<1, 2, 1>>}
Row == <<[d \in Directions |-> IF d = 2 THEN 2 ELSE 0],
         [d \in Directions |-> IF d = 2 THEN 3 ELSE 1],
         [d \in Directions |-> IF d = 2 THEN 0 ELSE 2]>>
Weights == [i \in Commodities |-> i]
Packs == [s \in Sectors |-> [i \in Commodities |-> IF s = 2 THEN 2 ELSE 1]]
Costs == <<1, 2, 1>>
AllLand == Sectors
Even(n) == [s \in Sectors |-> [i \in Commodities |-> n]]
Stocks == {<<<<3, 1>>, <<0, 2>>, <<3, 3>>>>}
Levels == {Even(1)}
\* All to the middle, and a chain: the middle is a centre and has another one.
Centres == {<<2, 2, 2>>, <<2, 3, 3>>}
Orders == {-1, 2, 4}
=============================================================================
