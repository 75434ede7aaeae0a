------------------------------- MODULE MCFilter -------------------------------
(***************************************************************************)
(* Filter for TLC: two distances, two azimuths, and limits that are far     *)
(* apart, too near to each other, or the wrong way round.                   *)
(***************************************************************************)
EXTENDS Filter

At(d, a) == [distance |-> d, azimuth |-> a]

MCLimits ==
  [time : {None, 1, 2, 4},
   position : {None, At(2, 4), At(3, 1), At(4, 4)},
   elevation : {None, 1, 4}]

Whole == [time : {1, 3}, position : {At(1, 5), At(3, 2)}, elevation : {2, 5}]

MCReports ==
  Whole \union {[r EXCEPT !.time = None] : r \in Whole}
        \union {[r EXCEPT !.position = None] : r \in {s \in Whole : s.time = 3}}
        \union {[r EXCEPT !.elevation = None] : r \in {s \in Whole : s.time = 1}}

LateOrAgain ==
  {<<>>, <<[id |-> "#FLT0", reference |-> FALSE]>>, <<[id |-> "#START"]>>}
==============================================================================
