-------------------------------- MODULE Filter --------------------------------
(***************************************************************************)
(* The filter of a hub's client (sgctphub) and the options of hub2sgctp    *)
(* that it is made from.                                                   *)
(*                                                                         *)
(* The client's RX thread takes the "#FLT" directives and computes limits  *)
(* at "#START"; the TX thread checks data against the limits. They share   *)
(* the container of the client without a lock.                             *)
(*                                                                         *)
(* A position is given by its distance and azimuth from the one reference  *)
(* point. Numbers are halves of a second, a meter or a degree.             *)
(***************************************************************************)
EXTENDS Integers, Sequences

CONSTANTS
  None,         \* CData::UNDEFINED_VALUE
  Limits,       \* the points a client may give as its first or second limit
  Reports,      \* the data the hub has for its clients
  Extras        \* what a client may send after "#START", as sequences

Point == [time : Nat \union {None},
          position : [distance : Nat, azimuth : Nat] \union {None},
          elevation : Nat \union {None}]

NoPoint == [time |-> None, position |-> None, elevation |-> None]

Messages ==
  [id : {"#FLT0"}, reference : BOOLEAN]
    \union [id : {"#FLT1", "#FLT2"}, point : Point]
    \union [id : {"#START"}]

ASSUME FilterAssumption ==
  /\ None \notin Nat
  /\ None \notin [distance : Nat, azimuth : Nat]
  /\ Limits \subseteq Point /\ Reports \subseteq Point
  /\ Extras \subseteq Seq(Messages)

Filters == [reference : BOOLEAN, first : Limits, second : Limits]

One == 2

VARIABLES
  options,      \* what the user of the client asked for
  tool,         \* hub2sgctp, or another program that speaks the protocol
  inbox,        \* messages the hub has not handled
  filter,       \* fdLatitude0 .. fdElevation2 of the client's container
  limits,       \* fdTimeMin .. fdElevationMax and the flags
  sync,         \* bSync
  rx,           \* where the RX thread is
  tx,           \* where the TX thread is
  report,       \* what it checks
  torn          \* history: the limits were being written while it was checked

vars == <<options, tool, inbox, filter, limits, sync, rx, tx, report, torn>>

Dimensions == {"time", "distance", "azimuth", "elevation"}

Off == [on |-> FALSE, min |-> None, max |-> None]

------------------------------------------------------------------------------
(* hub2sgctp: from its options to the directives. *)

\* Another program sends what it means to.
Plain(point) == point

\* hub2sgctp calls setTime() for the elevation as well.
Muddled(point) ==
  [point EXCEPT !.time = IF point.elevation = None THEN @ ELSE point.elevation,
                !.elevation = None]

\* An elevation is only encoded with a position.
Encoded(point) ==
  IF point.position = None THEN [point EXCEPT !.elevation = None] ELSE point

Directive(id, point) ==
  IF point = NoPoint THEN <<>>
  ELSE <<[id |-> id, point |->
            Encoded(IF tool = "hub2sgctp" THEN Muddled(point)
                                          ELSE Plain(point))]>>

Directives ==
  (IF options.reference THEN <<[id |-> "#FLT0", reference |-> TRUE]>> ELSE <<>>)
    \o Directive("#FLT1", options.first)
    \o Directive("#FLT2", options.second)
    \o <<[id |-> "#START"]>>

Init ==
  /\ options \in Filters
  /\ tool \in {"hub2sgctp", "other"}
  /\ \E e \in Extras : inbox = Directives \o e
  /\ filter = [reference |-> FALSE, first |-> NoPoint, second |-> NoPoint]
  /\ limits = [d \in Dimensions |-> Off]
  /\ sync = FALSE
  /\ rx = "idle"
  /\ tx = "idle" /\ report = NoPoint /\ torn = FALSE

RxPCs == {"idle", "resetTime", "time", "position", "azimuth", "distance",
          "resetElevation", "elevation", "start", "refuse", "closed"}
TxPCs == {"idle", "time", "distance", "azimuth", "elevation", "sent",
          "withheld"}

TypeOK ==
  /\ options \in Filters
  /\ filter \in [reference : BOOLEAN, first : Point, second : Point]
  /\ limits \in [Dimensions -> [on : BOOLEAN, min : Nat \union {None},
                                max : Nat \union {None}]]
  /\ sync \in BOOLEAN
  /\ rx \in RxPCs /\ tx \in TxPCs
  /\ report \in Reports \union {NoPoint}
  /\ torn \in BOOLEAN

------------------------------------------------------------------------------
(* The limits. *)

\* Mutant: the limits are taken in the order they were given.
Unordered(x, y) == [on |-> TRUE, min |-> x, max |-> y]

Ordered(x, y) ==
  [on |-> TRUE, min |-> IF x > y THEN y ELSE x, max |-> IF x > y THEN x ELSE y]

\* Time and azimuth are limited by two values or not at all.
Both(x, y) == IF None \in {x, y} THEN Off ELSE Ordered(x, y)

\* Distance and elevation: one value alone is a maximum.
Either(x, y) ==
  IF x = None /\ y = None THEN Off
  ELSE IF None \in {x, y}
       THEN [on |-> TRUE, min |-> None, max |-> IF x = None THEN y ELSE x]
       ELSE Ordered(x, y)

IsNull(l) == l.on /\ l.min # None /\ l.max - l.min < One

\* distanceRL() and azimuthRL() from the reference.
From(field, point) ==
  IF filter.reference /\ point.position # None THEN point.position[field]
                                               ELSE None

------------------------------------------------------------------------------
(* RX: clientInput(), clientFilterDefine() and clientStart(). *)

txVars == <<tx, report, torn>>
clientVars == <<options, tool>>

\* Mutant: directives are taken at any time.
NeverLate == FALSE

\* Directives are ignored once the client is started.
Late == sync

\* A directive sets all of its fields, with what is undefined in it too.
Define ==
  /\ rx = "idle" /\ inbox # <<>>
  /\ Head(inbox).id # "#START"
  /\ LET m == Head(inbox)
     IN filter' = IF Late THEN filter
                  ELSE IF m.id = "#FLT0"
                       THEN [filter EXCEPT !.reference = m.reference]
                  ELSE [filter EXCEPT ![IF m.id = "#FLT1" THEN "first"
                                                         ELSE "second"] = m.point]
  /\ inbox' = Tail(inbox)
  /\ UNCHANGED <<clientVars, limits, sync, rx, txVars>>

Start ==
  /\ rx = "idle" /\ inbox # <<>>
  /\ Head(inbox).id = "#START"
  /\ inbox' = Tail(inbox)
  /\ rx' = "resetTime"
  /\ UNCHANGED <<clientVars, filter, limits, sync, txVars>>

\* A block of clientStart(): the limits of some dimensions are set. Nothing
\* keeps a client from a second "#START", nor the TX thread from checking then.
Sets(from, to, new) ==
  /\ rx = from
  /\ rx' = to
  /\ limits' = new
  /\ torn' = (torn \/ tx # "idle")
  /\ UNCHANGED <<clientVars, inbox, filter, sync, tx, report>>

ResetTime == Sets("resetTime", "time", [limits EXCEPT !["time"] = Off])

SetTime ==
  LET l == Both(filter.first.time, filter.second.time)
  IN Sets("time", IF IsNull(l) THEN "refuse" ELSE "position",
          [limits EXCEPT !["time"] = l])

\* The values are stored as they come; the flags are not touched yet.
SetPosition ==
  Sets("position", "azimuth",
       [d \in Dimensions |->
          IF d \in {"distance", "azimuth"}
          THEN [limits[d] EXCEPT !.min = From(d, filter.first),
                                 !.max = From(d, filter.second)]
          ELSE limits[d]])

\* Too small a sector is no sector.
SetAzimuth ==
  LET l == Both(limits["azimuth"].min, limits["azimuth"].max)
  IN Sets("azimuth", "distance",
          [limits EXCEPT !["azimuth"] = IF IsNull(l) THEN Off ELSE l])

SetDistance ==
  LET l == Either(limits["distance"].min, limits["distance"].max)
  IN Sets("distance",
          IF IsNull(l) /\ ~limits["azimuth"].on THEN "refuse"
                                               ELSE "resetElevation",
          [limits EXCEPT !["distance"] =
             IF IsNull(l) /\ limits["azimuth"].on THEN Off ELSE l])

ResetElevation ==
  Sets("resetElevation", "elevation", [limits EXCEPT !["elevation"] = Off])

SetElevation ==
  LET l == Either(filter.first.elevation, filter.second.elevation)
  IN Sets("elevation", IF IsNull(l) THEN "refuse" ELSE "start",
          [limits EXCEPT !["elevation"] = l])

Synchronize ==
  /\ rx = "start"
  /\ rx' = "idle"
  /\ sync' = TRUE
  /\ UNCHANGED <<clientVars, inbox, filter, limits, txVars>>

\* The client is deleted under the mutex that TX holds while it checks.
Refuse ==
  /\ rx = "refuse"
  /\ tx = "idle"
  /\ rx' = "closed"
  /\ UNCHANGED <<clientVars, inbox, filter, limits, sync, txVars>>

------------------------------------------------------------------------------
(* TX: clientFilterCheck(). *)

rxVars == <<clientVars, inbox, filter, limits, sync, rx>>

\* Mutant: the client gets data as soon as it is connected.
AtOnce == TRUE

Synchronized == sync

Take ==
  /\ tx = "idle" /\ rx # "closed"
  /\ Synchronized
  /\ report' \in Reports
  /\ tx' = "time"
  /\ torn' = (rx # "idle")
  /\ UNCHANGED rxVars

\* Comparisons with an undefined value are false.
Outside(x, l) ==
  /\ x # None
  /\ (l.min # None /\ x < l.min) \/ (l.max # None /\ x > l.max)

Value(d) ==
  CASE d = "time" -> report.time
    [] d \in {"distance", "azimuth"} -> From(d, report)
    [] d = "elevation" ->
         IF report.position = None THEN None ELSE report.elevation

Following == [time |-> "distance", distance |-> "azimuth",
              azimuth |-> "elevation", elevation |-> "sent"]

\* Data without a position is not checked for distance and azimuth, nor
\* without all three coordinates for elevation.
Check(d) ==
  /\ tx = d
  /\ tx' = IF limits[d].on /\ Outside(Value(d), limits[d]) THEN "withheld"
           ELSE IF d = "time" /\ \A e \in Dimensions \ {d} : ~limits[e].on
                THEN "sent"
           ELSE Following[d]
  /\ UNCHANGED <<rxVars, report, torn>>

Done ==
  /\ tx \in {"sent", "withheld"}
  /\ tx' = "idle" /\ report' = NoPoint /\ torn' = FALSE
  /\ UNCHANGED rxVars

------------------------------------------------------------------------------

RX == \/ Define \/ Start \/ ResetTime \/ SetTime \/ SetPosition \/ SetAzimuth
      \/ SetDistance \/ ResetElevation \/ SetElevation \/ Synchronize \/ Refuse

TX == Take \/ (\E d \in Dimensions : Check(d)) \/ Done

Next == RX \/ TX

Spec == Init /\ [][Next]_vars

------------------------------------------------------------------------------
(* What a filter means, without the limits. *)

Between(x, a, b) == (a <= x /\ x <= b) \/ (b <= x /\ x <= a)

Near(a, b) == a - b < One /\ b - a < One

FitsTime(f, d) ==
  None \notin {f.first.time, f.second.time, d.time} =>
    Between(d.time, f.first.time, f.second.time)

FitsPosition(f, d) ==
  LET P == {p \in {f.first.position, f.second.position} : p # None}
      Two == f.first.position # None /\ f.second.position # None
      a == f.first.position
      b == f.second.position
      Sector == Two /\ ~Near(a.azimuth, b.azimuth)
  IN f.reference /\ d.position # None /\ P # {} =>
       /\ Sector => Between(d.position.azimuth, a.azimuth, b.azimuth)
       /\ ~Two => \A p \in P : d.position.distance <= p.distance
       /\ Two => \/ Sector /\ Near(a.distance, b.distance)
                 \/ Between(d.position.distance, a.distance, b.distance)

FitsElevation(f, d) ==
  LET E == {f.first.elevation, f.second.elevation} \ {None}
  IN d.position # None /\ d.elevation # None /\ E # {} =>
       /\ \E e \in E : d.elevation <= e
       /\ None \notin {f.first.elevation, f.second.elevation} =>
            \E e \in E : d.elevation >= e

Fits(f, d) == FitsTime(f, d) /\ FitsPosition(f, d) /\ FitsElevation(f, d)

(* Properties. *)

\* The TX thread sends a client exactly the data its directives let through,
\* whatever the RX thread does meanwhile: an early or a late directive, the
\* first start. Only a client that starts again has data checked against
\* limits that are half written.
Verdict ==
  ~torn => /\ tx = "sent" => Fits(filter, report)
           /\ tx = "withheld" => ~Fits(filter, report)

\* A client is refused for a range of less than a unit and for nothing else,
\* whichever of its limits is the larger.
RefusedForCause ==
  LET Same(x, y) == None \notin {x, y} /\ Near(x, y)
      a == filter.first
      b == filter.second
  IN rx = "refuse" =>
       \/ Same(a.time, b.time)
       \/ Same(a.elevation, b.elevation)
       \/ /\ filter.reference /\ None \notin {a.position, b.position}
          /\ Near(a.position.distance, b.position.distance)
          /\ Near(a.position.azimuth, b.position.azimuth)

\* The types, and no client refused without cause.
Consistent == TypeOK /\ RefusedForCause

\* What the user of the client asked for is what the hub filters by, but for
\* the elevations: hub2sgctp sends them as times, and without a position they
\* are not encoded.
SentFitsOptions ==
  LET E == {p \in {options.first, options.second} : p.elevation # None}
      Lost == \E p \in E : p.position = None
  IN tx = "sent" /\ ~torn =>
       /\ FitsPosition(options, report)
       /\ (tool = "hub2sgctp" => E = {}) => FitsTime(options, report)
       /\ (tool = "other" /\ ~Lost) => FitsElevation(options, report)

==============================================================================
