------------------------------- MODULE MCCodec -------------------------------
(* Sources for Codec: groups of fields alone, a third dimension with and     *)
(* without the others, half of a group, all but one field, everything.      *)
EXTENDS Codec

LOCAL Combinations ==
  {{}, {"SourceType"}, {"Time"}, {"Latitude"}, {"GndSpeed", "VrtSpeed"},
   CourseFields, ErrorFields, Fields, Fields \ {"Bearing"},
   Fields \ {"SourceType"}, Fields \ {"LatitudeError"}}
  \union {ToSet(g[n]) : g \in {CourseGroups, ErrorGroups}, n \in {1, 2, 7}}
  \union {ToSet(g[1]) \union ToSet(g[2]) : g \in {CourseGroups, ErrorGroups}}

MCFollowers ==
  [fields : {Fields}, id : {2}, size : {0}]
  \union [fields : {{"Time", "Latitude", "Longitude"}}, id : {2}, size : {1}]

\* IDs and data of any length only with a few of the combinations.
MCSources ==
  [fields : Combinations, id : {2}, size : {0}]
  \union [fields : {{}, Fields}, id : {0, 130}, size : {0, 127}]
  \union [fields : {{"SourceType", "Time"}}, id : {1}, size : {1, 128, 300}]

\* A quantity of no interest.
MCUsual ==
  [f \in Fields |->
     IF f = "SourceType" THEN 3 ELSE
     IF f \in ErrorFields THEN 21 ELSE
     IF f \in CourseFields THEN Scale[f][2] \div 2 + 1001 ELSE 0]

\* The ends of the ranges. Of the time: midnight, the last tenths of a day, half
\* a tenth, and a later day.
MCBoundaries ==
  [f \in Fields |->
     IF f = "Time" THEN {0, 1, 1727998, 1727999, 1728000, 1728021} ELSE
     IF f = "SourceType" THEN {1, 4} ELSE
     IF f \in ErrorFields
     THEN {0, -1, 1, LargestError(f), LargestError(f) + 3, -LargestError(f) - 1}
     ELSE {Scale[f][2] - 3, Scale[f][2] - 1, Scale[f][2], -1, 0, 1,
           Scale[f][3], Scale[f][3] + 1, Scale[f][3] + 3}]
=============================================================================
