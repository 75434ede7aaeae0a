---------------------------- MODULE FilterProofs ----------------------------
(***************************************************************************)
(* Proofs about Filter, for any limits and any data: a client gets the     *)
(* data its directives let through and is only refused for a range of less *)
(* than a unit, however its RX and TX threads interleave; and what the     *)
(* user of hub2sgctp asked for is what the hub filters by, as far as       *)
(* hub2sgctp says it.                                                      *)
(***************************************************************************)
EXTENDS Filter, SequenceTheorems, TLAPS

------------------------------------------------------------------------------
(* The invariant. *)

Number == Nat \union {None}
Limit == [on : BOOLEAN, min : Number, max : Number]

\* What clientStart() makes of the directives, dimension by dimension.
TimeLimit == Both(filter.first.time, filter.second.time)
AzimuthRange == Both(From("azimuth", filter.first), From("azimuth", filter.second))
AzimuthLimit == IF IsNull(AzimuthRange) THEN Off ELSE AzimuthRange
DistanceRange == Either(From("distance", filter.first), From("distance", filter.second))
DistanceLimit ==
  IF IsNull(DistanceRange) /\ AzimuthLimit.on THEN Off ELSE DistanceRange
ElevationLimit == Either(filter.first.elevation, filter.second.elevation)

Complete ==
  /\ limits["time"] = TimeLimit
  /\ limits["distance"] = DistanceLimit
  /\ limits["azimuth"] = AzimuthLimit
  /\ limits["elevation"] = ElevationLimit

\* How far clientStart() is. Once the client is started, its limits are complete
\* until clientStart() writes the first of them again.
Computed ==
  /\ rx \in {"position", "azimuth", "distance", "resetElevation", "elevation", "start"} =>
       limits["time"] = TimeLimit
  /\ rx \in {"azimuth", "distance"} =>
       /\ limits["distance"].min = From("distance", filter.first)
       /\ limits["distance"].max = From("distance", filter.second)
  /\ rx = "azimuth" =>
       /\ limits["azimuth"].min = From("azimuth", filter.first)
       /\ limits["azimuth"].max = From("azimuth", filter.second)
  /\ rx \in {"distance", "resetElevation", "elevation", "start"} =>
       limits["azimuth"] = AzimuthLimit
  /\ rx \in {"resetElevation", "elevation", "start"} =>
       limits["distance"] = DistanceLimit
  /\ rx = "start" => limits["elevation"] = ElevationLimit
  /\ rx \in {"idle", "resetTime"} /\ sync => Complete

\* What the directives say, and those that are still to come.
Sent(point) ==
  Encoded(IF tool = "hub2sgctp" THEN Muddled(point) ELSE Plain(point))
Asked == [reference |-> options.reference,
          first |-> Sent(options.first), second |-> Sent(options.second)]
Reference ==
  IF options.reference THEN <<[id |-> "#FLT0", reference |-> TRUE]>> ELSE <<>>
AfterSecond(e) == <<[id |-> "#START"]>> \o e
AfterFirst(e) == Directive("#FLT2", options.second) \o AfterSecond(e)
AfterReference(e) == Directive("#FLT1", options.first) \o AfterFirst(e)
All(e) == Reference \o AfterReference(e)

Defined ==
  /\ tool \in {"hub2sgctp", "other"}
  /\ sync \/ rx # "idle" => filter = Asked
  /\ ~sync /\ rx = "idle" => \E e \in Extras :
       \/ inbox = All(e)
          /\ filter = [reference |-> FALSE, first |-> NoPoint, second |-> NoPoint]
       \/ inbox = AfterReference(e)
          /\ filter = [reference |-> options.reference, first |-> NoPoint, second |-> NoPoint]
       \/ inbox = AfterFirst(e)
          /\ filter = [Asked EXCEPT !.second = NoPoint]
       \/ inbox = AfterSecond(e) /\ filter = Asked

\* A report that is checked, or was, and not while the limits are written.
Passed(d) == ~(limits[d].on /\ Outside(Value(d), limits[d]))

Steady == ~torn => rx \in {"idle", "resetTime"}
Checked ==
  /\ tx # "idle" => sync /\ Steady
  /\ tx \in {"distance", "azimuth", "elevation", "sent"} /\ ~torn => Passed("time")
  /\ tx \in {"azimuth", "elevation", "sent"} /\ ~torn => Passed("distance")
  /\ tx \in {"elevation", "sent"} /\ ~torn => Passed("azimuth")
  /\ tx = "sent" /\ ~torn => Passed("elevation")
  /\ tx = "withheld" /\ ~torn => \E d \in Dimensions : ~Passed(d)

\* The inductive invariant.
IInv == TypeOK /\ RefusedForCause /\ Computed /\ Defined /\ Checked

------------------------------------------------------------------------------
(* Limits. *)

\* Two values limit a third, or nothing.
LEMMA BothLimits ==
  ASSUME NEW x \in Number, NEW y \in Number
  PROVE  /\ Both(x, y) \in Limit
         /\ Both(x, y).on <=> None \notin {x, y}
         /\ IsNull(Both(x, y)) <=> None \notin {x, y} /\ Near(x, y)
         /\ \A v \in Number : Both(x, y).on /\ Outside(v, Both(x, y)) <=>
              None \notin {x, y, v} /\ ~Between(v, x, y)
<1> USE FilterAssumption DEF Number, Limit, Both, Ordered, Off, IsNull, Near, One,
      Outside, Between
<1>1. CASE None \in {x, y}
  BY <1>1
<1>2. CASE None \notin {x, y} /\ x > y
  <2>1. Both(x, y) = [on |-> TRUE, min |-> y, max |-> x]
    BY <1>2
  <2>2. x \in Nat /\ y \in Nat
    BY <1>2
  <2> QED
    BY <1>2, <2>1, <2>2
<1>3. CASE None \notin {x, y} /\ ~(x > y)
  <2>1. Both(x, y) = [on |-> TRUE, min |-> x, max |-> y]
    BY <1>3
  <2>2. x \in Nat /\ y \in Nat
    BY <1>3
  <2> QED
    BY <1>3, <2>1, <2>2
<1> QED
  BY <1>1, <1>2, <1>3

\* Two values limit a third, one alone is a maximum.
LEMMA EitherLimits ==
  ASSUME NEW x \in Number, NEW y \in Number
  PROVE  /\ Either(x, y) \in Limit
         /\ Either(x, y).on <=> ~(x = None /\ y = None)
         /\ IsNull(Either(x, y)) <=> None \notin {x, y} /\ Near(x, y)
         /\ \A v \in Number : Either(x, y).on /\ Outside(v, Either(x, y)) <=>
              /\ v # None
              /\ \/ None \notin {x, y} /\ ~Between(v, x, y)
                 \/ x = None /\ y # None /\ v > y
                 \/ y = None /\ x # None /\ v > x
<1> USE FilterAssumption DEF Number, Limit, Either, Ordered, Off, IsNull, Near, One,
      Outside, Between
<1>1. CASE x = None /\ y = None
  BY <1>1
<1>2. CASE x = None /\ y # None
  <2>1. Either(x, y) = [on |-> TRUE, min |-> None, max |-> y]
    BY <1>2
  <2> QED
    BY <1>2, <2>1
<1>3. CASE x # None /\ y = None
  <2>1. Either(x, y) = [on |-> TRUE, min |-> None, max |-> x]
    BY <1>3
  <2> QED
    BY <1>3, <2>1
<1>4. CASE None \notin {x, y} /\ x > y
  <2>1. Either(x, y) = [on |-> TRUE, min |-> y, max |-> x]
    BY <1>4
  <2>2. x \in Nat /\ y \in Nat
    BY <1>4
  <2> QED
    BY <1>4, <2>1, <2>2
<1>5. CASE None \notin {x, y} /\ ~(x > y)
  <2>1. Either(x, y) = [on |-> TRUE, min |-> x, max |-> y]
    BY <1>5
  <2>2. x \in Nat /\ y \in Nat
    BY <1>5
  <2> QED
    BY <1>5, <2>1, <2>2
<1> QED
  BY <1>1, <1>2, <1>3, <1>4, <1>5

\* A point has a distance and an azimuth when it has a position, and the reference
\* is known.
LEMMA FromReference ==
  ASSUME NEW p \in Point, filter.reference \in BOOLEAN
  PROVE  /\ From("distance", p) \in Number /\ From("azimuth", p) \in Number
         /\ From("distance", p) = None <=> ~filter.reference \/ p.position = None
         /\ From("azimuth", p) = None <=> ~filter.reference \/ p.position = None
         /\ filter.reference /\ p.position # None =>
              /\ From("distance", p) = p.position.distance
              /\ From("azimuth", p) = p.position.azimuth
              /\ p.position.distance \in Nat /\ p.position.azimuth \in Nat
<1>1. /\ p.position # None =>
           /\ p.position.distance \in Nat /\ p.position.azimuth \in Nat
           /\ p.position["distance"] = p.position.distance
           /\ p.position["azimuth"] = p.position.azimuth
  BY DEF Point
<1> QED
  BY <1>1, FilterAssumption DEF From, Number

------------------------------------------------------------------------------
(* What the limits mean. *)

\* The coordinates of a point are numbers or not there.
LEMMA PointFields ==
  ASSUME NEW p \in Point
  PROVE  /\ p.time \in Number /\ p.elevation \in Number
         /\ p.position = None \/ p.position \in [distance : Nat, azimuth : Nat]
BY DEF Point, Number

\* The time.
LEMMA TimeMeans ==
  ASSUME TypeOK, report \in Point, limits["time"] = TimeLimit
  PROVE  Passed("time") <=> FitsTime(filter, report)
<1> DEFINE x == filter.first.time
           y == filter.second.time
           v == report.time
<1>1. x \in Number /\ y \in Number /\ v \in Number
  <2>1. filter.first \in Point /\ filter.second \in Point
    BY DEF TypeOK
  <2> QED
    BY <2>1, PointFields
<1>2. Value("time") = v
  BY DEF Value
<1>3. Passed("time") <=> ~(Both(x, y).on /\ Outside(v, Both(x, y)))
  BY <1>2 DEF Passed, TimeLimit
<1>4. FitsTime(filter, report) <=> (None \notin {x, y, v} => Between(v, x, y))
  BY DEF FitsTime
<1> HIDE DEF x, y, v
<1> QED
  BY <1>1, <1>3, <1>4, BothLimits

\* The elevation.
LEMMA ElevationMeans ==
  ASSUME TypeOK, report \in Point, limits["elevation"] = ElevationLimit
  PROVE  Passed("elevation") <=> FitsElevation(filter, report)
<1> DEFINE x == filter.first.elevation
           y == filter.second.elevation
           v == IF report.position = None THEN None ELSE report.elevation
<1>1. x \in Number /\ y \in Number /\ v \in Number
  <2>1. filter.first \in Point /\ filter.second \in Point
    BY DEF TypeOK
  <2> QED
    BY <2>1, PointFields DEF Number
<1>2. Value("elevation") = v
  BY DEF Value
<1>3. Passed("elevation") <=> ~(Either(x, y).on /\ Outside(v, Either(x, y)))
  BY <1>2 DEF Passed, ElevationLimit
<1>4. FitsElevation(filter, report) <=>
        (v # None /\ {x, y} \ {None} # {} =>
           /\ \E e \in {x, y} \ {None} : v <= e
           /\ None \notin {x, y} => \E e \in {x, y} \ {None} : v >= e)
  BY DEF FitsElevation
<1> HIDE DEF x, y, v
<1>5. CASE v = None \/ (x = None /\ y = None)
  BY <1>1, <1>3, <1>4, <1>5, EitherLimits
<1>6. CASE v # None /\ x = None /\ y # None
  <2>1. y \in Nat /\ v \in Nat
    BY <1>1, <1>6 DEF Number
  <2>2. Passed("elevation") <=> ~(v > y)
    BY <1>1, <1>3, <1>6, EitherLimits
  <2>3. FitsElevation(filter, report) <=> v <= y
    BY <1>4, <1>6
  <2> QED
    BY <2>1, <2>2, <2>3
<1>7. CASE v # None /\ x # None /\ y = None
  <2>1. x \in Nat /\ v \in Nat
    BY <1>1, <1>7 DEF Number
  <2>2. Passed("elevation") <=> ~(v > x)
    BY <1>1, <1>3, <1>7, EitherLimits
  <2>3. FitsElevation(filter, report) <=> v <= x
    BY <1>4, <1>7
  <2> QED
    BY <2>1, <2>2, <2>3
<1>8. CASE v # None /\ None \notin {x, y}
  <2>1. Passed("elevation") <=> Between(v, x, y)
    BY <1>1, <1>3, <1>8, EitherLimits
  <2>2. x \in Nat /\ y \in Nat /\ v \in Nat
    BY <1>1, <1>8 DEF Number
  <2>3. FitsElevation(filter, report) <=> (v <= x \/ v <= y) /\ (v >= x \/ v >= y)
    BY <1>4, <1>8
  <2> QED
    BY <2>1, <2>2, <2>3 DEF Between
<1> QED
  BY <1>5, <1>6, <1>7, <1>8

\* The distance and the azimuth.
LEMMA PositionMeans ==
  ASSUME TypeOK, report \in Point,
         limits["azimuth"] = AzimuthLimit, limits["distance"] = DistanceLimit
  PROVE  Passed("azimuth") /\ Passed("distance") <=> FitsPosition(filter, report)
<1> DEFINE p == filter.first
           q == filter.second
           a == p.position
           b == q.position
           c == report.position
           ax == From("azimuth", p)
           ay == From("azimuth", q)
           av == From("azimuth", report)
           dx == From("distance", p)
           dy == From("distance", q)
           dv == From("distance", report)
           Two == a # None /\ b # None
           Sector == Two /\ ~Near(a.azimuth, b.azimuth)
<1>1. /\ p \in Point /\ q \in Point /\ report \in Point /\ filter.reference \in BOOLEAN
  BY DEF TypeOK
<1>2. /\ ax \in Number /\ ay \in Number /\ av \in Number
      /\ dx \in Number /\ dy \in Number /\ dv \in Number
  BY <1>1, FromReference
<1>3. /\ Passed("azimuth") <=> ~(AzimuthLimit.on /\ Outside(av, AzimuthLimit))
      /\ Passed("distance") <=> ~(DistanceLimit.on /\ Outside(dv, DistanceLimit))
  BY DEF Passed, Value
<1>4. AzimuthRange = Both(ax, ay) /\ DistanceRange = Either(dx, dy)
  BY DEF AzimuthRange, DistanceRange
<1>5. /\ AzimuthLimit.on <=> None \notin {ax, ay} /\ ~Near(ax, ay)
      /\ AzimuthLimit.on => AzimuthLimit = Both(ax, ay)
  BY <1>2, <1>4, BothLimits DEF AzimuthLimit, Off
<1>6. Passed("azimuth") <=> ~(/\ None \notin {ax, ay, av} /\ ~Near(ax, ay)
                              /\ ~Between(av, ax, ay))
  BY <1>2, <1>3, <1>5, BothLimits
<1>7. /\ IsNull(DistanceRange) <=> None \notin {dx, dy} /\ Near(dx, dy)
      /\ DistanceRange.on /\ Outside(dv, DistanceRange) <=>
           /\ dv # None
           /\ \/ None \notin {dx, dy} /\ ~Between(dv, dx, dy)
              \/ dx = None /\ dy # None /\ dv > dy
              \/ dy = None /\ dx # None /\ dv > dx
  BY <1>2, <1>4, EitherLimits
<1>8. CASE ~filter.reference \/ c = None
  <2>1. av = None /\ dv = None
    BY <1>1, <1>8, FromReference
  <2>2. Passed("azimuth")
    BY <1>6, <2>1
  <2>3. Passed("distance")
    BY <1>3, <2>1 DEF Outside
  <2> QED
    BY <1>8, <2>2, <2>3 DEF FitsPosition
<1>9. CASE filter.reference /\ c # None
  <2>1. /\ av = c.azimuth /\ dv = c.distance /\ av \in Nat /\ dv \in Nat
        /\ av # None /\ dv # None
    BY <1>1, <1>9, FromReference, FilterAssumption
  <2>2. a # None => /\ ax = a.azimuth /\ dx = a.distance /\ ax \in Nat /\ dx \in Nat
                    /\ ax # None /\ dx # None
    BY <1>1, <1>9, FromReference, FilterAssumption
  <2>3. b # None => /\ ay = b.azimuth /\ dy = b.distance /\ ay \in Nat /\ dy \in Nat
                    /\ ay # None /\ dy # None
    BY <1>1, <1>9, FromReference, FilterAssumption
  <2>4. (a = None => ax = None /\ dx = None) /\ (b = None => ay = None /\ dy = None)
    BY <1>1, FromReference
  <2>5. FitsPosition(filter, report) <=>
          ((\E r \in {a, b} : r # None) =>
             /\ Sector => Between(c.azimuth, a.azimuth, b.azimuth)
             /\ ~Two => \A r \in {a, b} : r # None => c.distance <= r.distance
             /\ Two => \/ Sector /\ Near(a.distance, b.distance)
                       \/ Between(c.distance, a.distance, b.distance))
    BY <1>9 DEF FitsPosition
  <2> HIDE DEF p, q, a, b, c, ax, ay, av, dx, dy, dv
  <2>6. CASE a = None /\ b = None
    <3>1. FitsPosition(filter, report)
      BY <2>5, <2>6
    <3>2. Passed("azimuth") /\ ~AzimuthLimit.on
      BY <1>5, <1>6, <2>4, <2>6
    <3>3. Passed("distance")
      BY <1>3, <1>7, <2>4, <2>6, <3>2 DEF DistanceLimit
    <3> QED
      BY <3>1, <3>2, <3>3
  <2>7. CASE a # None /\ b = None
    <3>1. FitsPosition(filter, report) <=> dv <= dx
      BY <2>1, <2>2, <2>5, <2>7
    <3>2. Passed("azimuth") /\ ~AzimuthLimit.on
      BY <1>5, <1>6, <2>4, <2>7
    <3>3. Passed("distance") <=> ~(dv > dx)
      BY <1>3, <1>7, <2>1, <2>2, <2>4, <2>7, <3>2 DEF DistanceLimit
    <3> QED
      BY <2>1, <2>2, <2>7, <3>1, <3>2, <3>3
  <2>8. CASE a = None /\ b # None
    <3>1. FitsPosition(filter, report) <=> dv <= dy
      BY <2>1, <2>3, <2>5, <2>8
    <3>2. Passed("azimuth") /\ ~AzimuthLimit.on
      BY <1>5, <1>6, <2>4, <2>8
    <3>3. Passed("distance") <=> ~(dv > dy)
      BY <1>3, <1>7, <2>1, <2>3, <2>4, <2>8, <3>2 DEF DistanceLimit
    <3> QED
      BY <2>1, <2>3, <2>8, <3>1, <3>2, <3>3
  <2>9. CASE a # None /\ b # None
    <3>1. Sector <=> ~Near(ax, ay)
      BY <2>2, <2>3, <2>9
    <3>2. FitsPosition(filter, report) <=>
            /\ Sector => Between(av, ax, ay)
            /\ \/ Sector /\ Near(dx, dy)
               \/ Between(dv, dx, dy)
      BY <2>1, <2>2, <2>3, <2>5, <2>9
    <3>3. Passed("azimuth") <=> (Sector => Between(av, ax, ay))
      BY <1>6, <2>1, <2>2, <2>3, <2>9, <3>1
    <3>4. AzimuthLimit.on <=> Sector
      BY <1>5, <2>2, <2>3, <2>9, <3>1
    <3>5. Passed("distance") <=> \/ Sector /\ Near(dx, dy)
                                 \/ Between(dv, dx, dy)
      <4>1. CASE Sector /\ Near(dx, dy)
        <5>1. DistanceLimit = Off
          BY <1>7, <2>2, <2>3, <2>9, <3>4, <4>1 DEF DistanceLimit
        <5> QED
          BY <1>3, <4>1, <5>1 DEF Off
      <4>2. CASE ~(Sector /\ Near(dx, dy))
        <5>1. DistanceLimit = DistanceRange
          BY <1>7, <2>2, <2>3, <2>9, <3>4, <4>2 DEF DistanceLimit
        <5> QED
          BY <1>3, <1>7, <2>1, <2>2, <2>3, <2>9, <4>2, <5>1
      <4> QED
        BY <4>1, <4>2
    <3> QED
      BY <3>2, <3>3, <3>5
  <2> QED
    BY <2>6, <2>7, <2>8, <2>9
<1> QED
  BY <1>8, <1>9

\* Complete limits let through what the directives let through.
LEMMA LimitsMean ==
  ASSUME TypeOK, report \in Point, Complete
  PROVE  (\A d \in Dimensions : Passed(d)) <=> Fits(filter, report)
<1>1. (\A d \in Dimensions : Passed(d)) <=>
        Passed("time") /\ Passed("azimuth") /\ Passed("distance") /\ Passed("elevation")
  BY DEF Dimensions
<1> QED
  BY <1>1, TimeMeans, PositionMeans, ElevationMeans DEF Complete, Fits

------------------------------------------------------------------------------
(* The directives. *)

\* A message in front of others.
LEMMA InFront ==
  ASSUME NEW m \in Messages, NEW s \in Seq(Messages)
  PROVE  /\ <<m>> \o s \in Seq(Messages) /\ <<m>> \o s # <<>>
         /\ Head(<<m>> \o s) = m /\ Tail(<<m>> \o s) = s
<1>1. <<m>> \in Seq(Messages) /\ Len(<<m>>) = 1 /\ <<m>>[1] = m
  OBVIOUS
<1> DEFINE c == <<m>> \o s
           t == Tail(c)
           l == Len(c)
           k == Len(s)
           n == Len(t)
<1>2. c \in Seq(Messages) /\ k \in Nat
  BY <1>1, ConcatProperties, LenProperties
<1>3. l = 1 + k /\ \A i \in 1 .. 1 + k : c[i] = IF i <= 1 THEN m ELSE s[i - 1]
  BY <1>1, ConcatProperties
<1>4. c # <<>>
  <2>1. Len(c) # 0
    <3> HIDE DEF c
    <3>1. l # 0
      <4> HIDE DEF l, k
      <4> QED
        BY <1>2, <1>3
    <3> QED
      BY <3>1
  <2> QED
    BY <1>2, <2>1, EmptySeq
<1>5. Head(c) = c[1] /\ t \in Seq(Messages) /\ n = l - 1
      /\ \A i \in 1 .. n : t[i] = c[i + 1]
  <2> HIDE DEF c
  <2> QED
    BY <1>2, <1>4, HeadTailProperties
<1> HIDE DEF c, t, l, k, n
<1>6. c[1] = m /\ n = k /\ \A i \in 1 .. k : t[i] = s[i]
  BY <1>2, <1>3, <1>5
<1>7. t = s
  BY <1>5, <1>6, SeqEqual DEF n, k
<1> QED
  BY <1>2, <1>4, <1>5, <1>6, <1>7 DEF c, t

\* Messages one after the other.
Then(s, t) == s \o t

\* The directives may be grouped from either end.
LEMMA Regroup ==
  ASSUME NEW x \in Seq(Messages), NEW y \in Seq(Messages), NEW z \in Seq(Messages)
  PROVE  /\ Then(x, y) \in Seq(Messages)
         /\ Then(Then(x, y), z) = Then(x, Then(y, z))
<1>1. Len((x \o y) \o z) = Len(x \o (y \o z))
  OBVIOUS
<1>2. \A i \in 1 .. Len((x \o y) \o z) : ((x \o y) \o z)[i] = (x \o (y \o z))[i]
  OBVIOUS
<1> QED
  BY <1>1, <1>2 DEF Then

\* What is sent of a point is a point, and nothing of none.
LEMMA SentPoints ==
  ASSUME NEW p \in Point
  PROVE  Sent(p) \in Point /\ Sent(NoPoint) = NoPoint
<1> USE FilterAssumption
<1>1. p.time \in Number /\ p.elevation \in Number
      /\ p = [time |-> p.time, position |-> p.position, elevation |-> p.elevation]
      /\ p.position \in [distance : Nat, azimuth : Nat] \union {None}
  BY DEF Point, Number
<1>2. Muddled(p) \in Point
  BY <1>1 DEF Muddled, Point, Number
<1>3. \A q \in Point : Encoded(q) \in Point
  BY DEF Encoded, Point
<1>4. Sent(NoPoint) = NoPoint
  BY DEF Sent, Muddled, Plain, Encoded, NoPoint
<1> QED
  BY <1>2, <1>3, <1>4 DEF Sent, Plain

\* The options and what was asked for are points.
LEMMA AskedTypes ==
  ASSUME TypeOK
  PROVE  /\ options.reference \in BOOLEAN
         /\ options.first \in Point /\ options.second \in Point
         /\ Asked \in [reference : BOOLEAN, first : Point, second : Point]
         /\ Asked.reference = options.reference
         /\ Asked.first = Sent(options.first) /\ Asked.second = Sent(options.second)
<1>1. /\ options.reference \in BOOLEAN
      /\ options.first \in Point /\ options.second \in Point
  BY FilterAssumption DEF TypeOK, Filters
<1> QED
  BY <1>1, SentPoints DEF Asked

\* The messages of the client, from the last to the first.
LEMMA Conversation ==
  ASSUME TypeOK, NEW e \in Extras
  PROVE  /\ Directives \o e = All(e)
         /\ /\ AfterSecond(e) # <<>>
            /\ Head(AfterSecond(e)) = [id |-> "#START"] /\ Tail(AfterSecond(e)) = e
         /\ options.second = NoPoint => AfterFirst(e) = AfterSecond(e)
         /\ options.second # NoPoint =>
              /\ AfterFirst(e) # <<>>
              /\ Head(AfterFirst(e)) = [id |-> "#FLT2", point |-> Sent(options.second)]
              /\ Tail(AfterFirst(e)) = AfterSecond(e)
         /\ options.first = NoPoint => AfterReference(e) = AfterFirst(e)
         /\ options.first # NoPoint =>
              /\ AfterReference(e) # <<>>
              /\ Head(AfterReference(e)) = [id |-> "#FLT1", point |-> Sent(options.first)]
              /\ Tail(AfterReference(e)) = AfterFirst(e)
         /\ ~options.reference => All(e) = AfterReference(e)
         /\ options.reference =>
              /\ All(e) # <<>>
              /\ Head(All(e)) = [id |-> "#FLT0", reference |-> TRUE]
              /\ Tail(All(e)) = AfterReference(e)
<1> DEFINE M == Seq(Messages)
           m0 == [id |-> "#FLT0", reference |-> TRUE]
           m1 == [id |-> "#FLT1", point |-> Sent(options.first)]
           m2 == [id |-> "#FLT2", point |-> Sent(options.second)]
           m3 == [id |-> "#START"]
           d1 == Directive("#FLT1", options.first)
           d2 == Directive("#FLT2", options.second)
<1>1. e \in M
  BY FilterAssumption
<1>2. m0 \in Messages /\ m1 \in Messages /\ m2 \in Messages /\ m3 \in Messages
  BY AskedTypes, SentPoints DEF Messages
<1>3. /\ d1 = IF options.first = NoPoint THEN <<>> ELSE <<m1>>
      /\ d2 = IF options.second = NoPoint THEN <<>> ELSE <<m2>>
  BY DEF Directive, Sent
<1>4. Reference = IF options.reference THEN <<m0>> ELSE <<>>
  BY DEF Reference
<1>5. /\ <<>> \in M /\ <<m0>> \in M /\ <<m1>> \in M /\ <<m2>> \in M /\ <<m3>> \in M
      /\ d1 \in M /\ d2 \in M /\ Reference \in M
  <2> HIDE DEF m0, m1, m2, m3, d1, d2
  <2>1. <<>> \in M /\ <<m0>> \in M /\ <<m1>> \in M /\ <<m2>> \in M /\ <<m3>> \in M
    BY <1>2
  <2> QED
    BY <1>3, <1>4, <2>1
<1>6. Directives = ((Reference \o d1) \o d2) \o <<m3>>
  BY DEF Directives, Reference
<1>7. AfterSecond(e) = <<m3>> \o e /\ AfterFirst(e) = d2 \o AfterSecond(e)
      /\ AfterReference(e) = d1 \o AfterFirst(e) /\ All(e) = Reference \o AfterReference(e)
  BY DEF AfterSecond, AfterFirst, AfterReference, All
<1> HIDE DEF M, m0, m1, m2, m3, d1, d2
<1>8. /\ AfterSecond(e) \in M /\ AfterSecond(e) # <<>>
      /\ Head(AfterSecond(e)) = m3 /\ Tail(AfterSecond(e)) = e
  BY <1>1, <1>2, <1>7, InFront DEF M
<1>9. /\ AfterFirst(e) \in M
      /\ options.second = NoPoint => AfterFirst(e) = AfterSecond(e)
      /\ options.second # NoPoint => /\ AfterFirst(e) # <<>>
                                     /\ Head(AfterFirst(e)) = m2
                                     /\ Tail(AfterFirst(e)) = AfterSecond(e)
  <2>1. CASE options.second = NoPoint
    BY <1>3, <1>7, <1>8, <2>1, ConcatEmptySeq DEF M
  <2>2. CASE options.second # NoPoint
    BY <1>2, <1>3, <1>7, <1>8, <2>2, InFront DEF M
  <2> QED
    BY <2>1, <2>2
<1>10. /\ AfterReference(e) \in M
       /\ options.first = NoPoint => AfterReference(e) = AfterFirst(e)
       /\ options.first # NoPoint => /\ AfterReference(e) # <<>>
                                     /\ Head(AfterReference(e)) = m1
                                     /\ Tail(AfterReference(e)) = AfterFirst(e)
  <2>1. CASE options.first = NoPoint
    BY <1>3, <1>7, <1>9, <2>1, ConcatEmptySeq DEF M
  <2>2. CASE options.first # NoPoint
    BY <1>2, <1>3, <1>7, <1>9, <2>2, InFront DEF M
  <2> QED
    BY <2>1, <2>2
<1>11. /\ ~options.reference => All(e) = AfterReference(e)
       /\ options.reference => /\ All(e) # <<>>
                               /\ Head(All(e)) = m0
                               /\ Tail(All(e)) = AfterReference(e)
  <2>1. CASE ~options.reference
    BY <1>4, <1>7, <1>10, <2>1, ConcatEmptySeq DEF M
  <2>2. CASE options.reference
    <3>1. All(e) = <<m0>> \o AfterReference(e)
      BY <1>4, <1>7, <2>2
    <3>2. m0 \in Messages /\ AfterReference(e) \in Seq(Messages)
      BY <1>2, <1>10 DEF M
    <3> QED
      BY <2>2, <3>1, <3>2, InFront
  <2> QED
    BY <2>1, <2>2
<1>12. Directives \o e = All(e)
  <2> DEFINE x == Reference
             s3 == <<m3>>
             a2 == AfterSecond(e)
             a1 == AfterFirst(e)
  <2>1. /\ x \in Seq(Messages) /\ d1 \in Seq(Messages) /\ d2 \in Seq(Messages)
        /\ s3 \in Seq(Messages) /\ e \in Seq(Messages)
        /\ a2 \in Seq(Messages) /\ a1 \in Seq(Messages)
    BY <1>1, <1>5, <1>8, <1>9 DEF M
  <2>2. a2 = s3 \o e /\ a1 = d2 \o a2 /\ All(e) = x \o (d1 \o a1)
        /\ Directives = ((x \o d1) \o d2) \o s3
    BY <1>6, <1>7
  <2> HIDE DEF x, s3, a2, a1
  <2>3. Then(Then(Then(Then(x, d1), d2), s3), e) = Then(x, Then(d1, Then(d2, Then(s3, e))))
    <3>1. /\ Then(x, d1) \in Seq(Messages) /\ Then(Then(x, d1), d2) \in Seq(Messages)
          /\ Then(s3, e) \in Seq(Messages)
          /\ Then(d2, Then(s3, e)) \in Seq(Messages)
      BY <2>1, Regroup
    <3> QED
      BY <2>1, <3>1, Regroup
  <2> QED
    BY <2>2, <2>3 DEF Then
<1> QED
  BY <1>8, <1>9, <1>10, <1>11, <1>12 DEF m0, m1, m2, m3

\* What comes next of a client that was not started: the directive that its filter
\* lacks, or the start when it lacks none.
LEMMA NextDirective ==
  ASSUME TypeOK, Defined, ~sync, rx = "idle"
  PROVE  /\ inbox # <<>>
         /\ \E e \in Extras :
              \/ /\ Head(inbox) = [id |-> "#FLT0", reference |-> TRUE]
                 /\ Tail(inbox) = AfterReference(e) /\ options.reference
                 /\ filter = [reference |-> FALSE, first |-> NoPoint, second |-> NoPoint]
              \/ /\ Head(inbox) = [id |-> "#FLT1", point |-> Sent(options.first)]
                 /\ Tail(inbox) = AfterFirst(e)
                 /\ filter = [reference |-> options.reference, first |-> NoPoint,
                              second |-> NoPoint]
              \/ /\ Head(inbox) = [id |-> "#FLT2", point |-> Sent(options.second)]
                 /\ Tail(inbox) = AfterSecond(e)
                 /\ filter = [Asked EXCEPT !.second = NoPoint]
              \/ /\ Head(inbox) = [id |-> "#START"] /\ Tail(inbox) = e
                 /\ filter = Asked
<1> DEFINE f0 == [reference |-> FALSE, first |-> NoPoint, second |-> NoPoint]
           f1 == [reference |-> options.reference, first |-> NoPoint,
                  second |-> NoPoint]
           f2 == [Asked EXCEPT !.second = NoPoint]
<1>1. PICK e \in Extras :
        \/ inbox = All(e) /\ filter = f0
        \/ inbox = AfterReference(e) /\ filter = f1
        \/ inbox = AfterFirst(e) /\ filter = f2
        \/ inbox = AfterSecond(e) /\ filter = Asked
  BY DEF Defined
<1>2. Sent(NoPoint) = NoPoint /\ options.reference \in BOOLEAN
  BY AskedTypes, SentPoints
<1>a. Asked = [reference |-> options.reference, first |-> Sent(options.first),
               second |-> Sent(options.second)]
  BY Zenon DEF Asked
<1>c. f2 = [reference |-> options.reference, first |-> Sent(options.first),
            second |-> NoPoint]
  BY <1>a
<1>3. ~options.reference => f0 = f1
  <2>1. ~options.reference => options.reference = FALSE
    BY <1>2
  <2> QED
    BY <2>1
<1>4. options.first = NoPoint => f1 = f2
  BY <1>2, <1>c
<1>5. options.second = NoPoint => f2 = Asked
  BY <1>2, <1>a, <1>c
<1> HIDE DEF f0, f1, f2
<1>6. CASE inbox = AfterSecond(e) /\ filter = Asked
  BY <1>6, Conversation
<1>7. CASE inbox = AfterFirst(e) /\ filter = f2
  BY <1>5, <1>7, Conversation DEF f2
<1>8. CASE inbox = AfterReference(e) /\ filter = f1
  <2>1. CASE options.first # NoPoint
    BY <1>8, <2>1, Conversation DEF f1
  <2>2. CASE options.first = NoPoint
    <3>1. inbox = AfterFirst(e) /\ filter = f2
      BY <1>4, <1>8, <2>2, Conversation
    <3> QED
      BY <1>7, <3>1
  <2> QED
    BY <2>1, <2>2
<1>9. CASE inbox = All(e) /\ filter = f0
  <2>1. CASE options.reference
    BY <1>9, <2>1, Conversation DEF f0
  <2>2. CASE ~options.reference
    <3>1. inbox = AfterReference(e) /\ filter = f1
      BY <1>3, <1>9, <2>2, Conversation
    <3> QED
      BY <1>8, <3>1
  <2> QED
    BY <2>1, <2>2
<1> QED
  BY <1>1, <1>6, <1>7, <1>8, <1>9

------------------------------------------------------------------------------
(* The steps. *)

\* What a directive does: nothing once the client is started, and before, it fills
\* the next part of the filter.
LEMMA DefineStep ==
  ASSUME TypeOK, Defined, Define
  PROVE  /\ rx = "idle" /\ UNCHANGED <<options, tool, limits, sync, rx, tx, report, torn>>
         /\ sync => filter' = filter
         /\ ~sync => \E e \in Extras :
              \/ inbox' = AfterReference(e)
                 /\ filter' = [reference |-> options.reference, first |-> NoPoint,
                               second |-> NoPoint]
              \/ inbox' = AfterFirst(e) /\ filter' = [Asked EXCEPT !.second = NoPoint]
              \/ inbox' = AfterSecond(e) /\ filter' = Asked
<1>1. /\ rx = "idle" /\ UNCHANGED <<options, tool, limits, sync, rx, tx, report, torn>>
      /\ Head(inbox).id # "#START" /\ inbox' = Tail(inbox)
      /\ sync => filter' = filter
  BY DEF Define, clientVars, txVars, Late
<1>2. ASSUME ~sync
      PROVE  filter' = IF Head(inbox).id = "#FLT0"
                       THEN [filter EXCEPT !.reference = Head(inbox).reference]
                       ELSE [filter EXCEPT ![IF Head(inbox).id = "#FLT1" THEN "first"
                                             ELSE "second"] = Head(inbox).point]
  BY <1>2 DEF Define, Late
<1>3. ASSUME ~sync
      PROVE  \E e \in Extras :
              \/ inbox' = AfterReference(e)
                 /\ filter' = [reference |-> options.reference, first |-> NoPoint,
                               second |-> NoPoint]
              \/ inbox' = AfterFirst(e) /\ filter' = [Asked EXCEPT !.second = NoPoint]
              \/ inbox' = AfterSecond(e) /\ filter' = Asked
  <2>0. Asked = [reference |-> options.reference, first |-> Sent(options.first),
                 second |-> Sent(options.second)]
    BY Zenon DEF Asked
  <2>1. PICK e \in Extras :
          \/ /\ Head(inbox) = [id |-> "#FLT0", reference |-> TRUE]
             /\ Tail(inbox) = AfterReference(e) /\ options.reference
             /\ filter = [reference |-> FALSE, first |-> NoPoint, second |-> NoPoint]
          \/ /\ Head(inbox) = [id |-> "#FLT1", point |-> Sent(options.first)]
             /\ Tail(inbox) = AfterFirst(e)
             /\ filter = [reference |-> options.reference, first |-> NoPoint,
                          second |-> NoPoint]
          \/ /\ Head(inbox) = [id |-> "#FLT2", point |-> Sent(options.second)]
             /\ Tail(inbox) = AfterSecond(e)
             /\ filter = [Asked EXCEPT !.second = NoPoint]
          \/ /\ Head(inbox) = [id |-> "#START"] /\ Tail(inbox) = e
             /\ filter = Asked
    BY <1>1, <1>3, NextDirective
  <2>2. CASE /\ Head(inbox) = [id |-> "#FLT0", reference |-> TRUE]
             /\ Tail(inbox) = AfterReference(e) /\ options.reference
             /\ filter = [reference |-> FALSE, first |-> NoPoint, second |-> NoPoint]
    <3>1. filter' = [filter EXCEPT !.reference = TRUE]
      BY <1>2, <1>3, <2>2
    <3>2. options.reference = TRUE
      BY <2>2, AskedTypes
    <3> QED
      BY <1>1, <2>2, <3>1, <3>2
  <2>3. CASE /\ Head(inbox) = [id |-> "#FLT1", point |-> Sent(options.first)]
             /\ Tail(inbox) = AfterFirst(e)
             /\ filter = [reference |-> options.reference, first |-> NoPoint,
                          second |-> NoPoint]
    <3>1. filter' = [filter EXCEPT !["first"] = Sent(options.first)]
      BY <1>2, <1>3, <2>3
    <3>2. filter' = [reference |-> options.reference, first |-> Sent(options.first),
                     second |-> NoPoint]
      BY <2>3, <3>1
    <3>3. [Asked EXCEPT !.second = NoPoint] =
            [reference |-> options.reference, first |-> Sent(options.first),
             second |-> NoPoint]
      BY <2>0
    <3> QED
      BY <1>1, <2>3, <3>2, <3>3
  <2>4. CASE /\ Head(inbox) = [id |-> "#FLT2", point |-> Sent(options.second)]
             /\ Tail(inbox) = AfterSecond(e)
             /\ filter = [Asked EXCEPT !.second = NoPoint]
    <3>1. Head(inbox).id = "#FLT2" /\ Head(inbox).point = Sent(options.second)
      BY <2>4
    <3>2. filter' = [filter EXCEPT !["second"] = Sent(options.second)]
      <4>1. "#FLT2" # "#FLT0" /\ "#FLT2" # "#FLT1"
        OBVIOUS
      <4>2. filter' = [filter EXCEPT !["second"] = Head(inbox).point]
        BY <1>2, <1>3, <3>1, <4>1
      <4> QED
        BY <3>1, <4>2
    <3>3. filter = [reference |-> options.reference, first |-> Sent(options.first),
                    second |-> NoPoint]
      BY <2>0, <2>4
    <3>4. filter' = [reference |-> options.reference, first |-> Sent(options.first),
                     second |-> Sent(options.second)]
      BY <3>2, <3>3
    <3> QED
      BY <1>1, <2>0, <2>4, <3>4
  <2> QED
    BY <1>1, <2>1, <2>2, <2>3, <2>4
<1> QED
  BY <1>1, <1>3

Writes ==
  \/ ResetTime \/ SetTime \/ SetPosition \/ SetAzimuth \/ SetDistance
  \/ ResetElevation \/ SetElevation

\* clientStart() writes limits, from the one block to the next.
LEMMA WritesStep ==
  ASSUME TypeOK, Writes
  PROVE  /\ UNCHANGED <<options, tool, inbox, filter, sync, tx, report>>
         /\ torn' = (torn \/ tx # "idle")
         /\ rx \notin {"idle", "refuse", "closed"} /\ rx' \notin {"idle", "resetTime"}
         /\ rx' \in RxPCs
         /\ limits' \in [Dimensions -> Limit]
<1>1. /\ filter.first \in Point /\ filter.second \in Point /\ filter.reference \in BOOLEAN
      /\ limits \in [Dimensions -> Limit]
  BY DEF TypeOK, Limit, Number
<1>2. /\ filter.first.time \in Number /\ filter.second.time \in Number
      /\ filter.first.elevation \in Number /\ filter.second.elevation \in Number
      /\ \A d \in {"distance", "azimuth"} :
           From(d, filter.first) \in Number /\ From(d, filter.second) \in Number
  BY <1>1, PointFields, FromReference
<1>3. Off \in Limit
  BY DEF Off, Limit, Number
<1>4. \A d \in Dimensions : /\ limits[d] \in Limit
                            /\ limits[d].min \in Number /\ limits[d].max \in Number
  BY <1>1 DEF Limit
<1> USE DEF Sets, clientVars
<1>a. CASE ResetTime
  BY <1>1, <1>3, <1>a DEF ResetTime, RxPCs
<1>b. CASE SetTime
  <2>1. Both(filter.first.time, filter.second.time) \in Limit
    BY <1>2, BothLimits
  <2> QED
    BY <1>1, <1>b, <2>1 DEF SetTime, RxPCs
<1>c. CASE SetPosition
  <2>1. limits' \in [Dimensions -> Limit]
    <3>1. limits' = [d \in Dimensions |->
                       IF d \in {"distance", "azimuth"}
                       THEN [limits[d] EXCEPT !.min = From(d, filter.first),
                                              !.max = From(d, filter.second)]
                       ELSE limits[d]]
      BY <1>c DEF SetPosition
    <3>2. ASSUME NEW d \in {"distance", "azimuth"}
          PROVE  [limits[d] EXCEPT !.min = From(d, filter.first),
                                   !.max = From(d, filter.second)] \in Limit
      <4> DEFINE x == From(d, filter.first)
                 y == From(d, filter.second)
                 l == limits[d]
      <4>1. l \in Limit /\ x \in Number /\ y \in Number
        BY <1>2, <1>4 DEF Dimensions
      <4> HIDE DEF x, y, l
      <4>2. [l EXCEPT !.min = x, !.max = y] \in Limit
        BY <4>1 DEF Limit
      <4> QED
        BY <4>2 DEF x, y, l
    <3> QED
      BY <1>4, <3>1, <3>2
  <2> QED
    BY <1>c, <2>1 DEF SetPosition, RxPCs
<1>d. CASE SetAzimuth
  <2>1. Both(limits["azimuth"].min, limits["azimuth"].max) \in Limit
    BY <1>4, BothLimits DEF Dimensions
  <2> QED
    BY <1>1, <1>3, <1>d, <2>1 DEF SetAzimuth, RxPCs
<1>e. CASE SetDistance
  <2>1. Either(limits["distance"].min, limits["distance"].max) \in Limit
    BY <1>4, EitherLimits DEF Dimensions
  <2> QED
    BY <1>1, <1>3, <1>e, <2>1 DEF SetDistance, RxPCs
<1>f. CASE ResetElevation
  BY <1>1, <1>3, <1>f DEF ResetElevation, RxPCs
<1>g. CASE SetElevation
  <2>1. Either(filter.first.elevation, filter.second.elevation) \in Limit
    BY <1>2, EitherLimits
  <2> QED
    BY <1>1, <1>g, <2>1 DEF SetElevation, RxPCs
<1> QED
  BY <1>a, <1>b, <1>c, <1>d, <1>e, <1>f, <1>g DEF Writes

\* A step of the TX thread, and where it leads.
LEMMA TXStep ==
  ASSUME TX
  PROVE  UNCHANGED <<options, tool, inbox, filter, limits, sync, rx>>
BY DEF TX, Take, Check, Done, rxVars, clientVars

\* A step keeps the types.
LEMMA TypeStep ==
  ASSUME IInv, [Next]_vars
  PROVE  TypeOK'
<1> USE FilterAssumption
<1>1. /\ TypeOK /\ Defined /\ limits \in [Dimensions -> Limit]
  BY DEF IInv, TypeOK, Limit, Number
<1>2. ASSUME UNCHANGED <<options, filter>>, limits' \in [Dimensions -> Limit],
             sync' \in BOOLEAN, rx' \in RxPCs, tx' \in TxPCs,
             report' \in Reports \union {NoPoint}, torn' \in BOOLEAN
      PROVE  TypeOK'
  BY <1>1, <1>2 DEF TypeOK, Limit, Number
<1>a. CASE Define
  <2>1. filter' \in [reference : BOOLEAN, first : Point, second : Point]
    <3>1. CASE sync
      BY <1>1, <1>a, <3>1, DefineStep DEF TypeOK
    <3>2. CASE ~sync
      <4>1. /\ Asked \in [reference : BOOLEAN, first : Point, second : Point]
            /\ options.reference \in BOOLEAN /\ NoPoint \in Point
        BY <1>1, AskedTypes DEF NoPoint, Point
      <4>2. \/ filter' = [reference |-> options.reference, first |-> NoPoint,
                          second |-> NoPoint]
            \/ filter' = [Asked EXCEPT !.second = NoPoint]
            \/ filter' = Asked
        BY <1>1, <1>a, <3>2, DefineStep
      <4> QED
        BY <4>1, <4>2
    <3> QED
      BY <3>1, <3>2
  <2>2. UNCHANGED <<options, limits, sync, rx, tx, report, torn>>
    BY <1>1, <1>a, DefineStep
  <2> QED
    BY <1>1, <2>1, <2>2 DEF TypeOK
<1>b. CASE Start \/ Synchronize \/ Refuse
  BY <1>1, <1>2, <1>b DEF Start, Synchronize, Refuse, clientVars, txVars, RxPCs, TypeOK
<1>c. CASE Writes
  <2>1. torn' \in BOOLEAN
    BY <1>1, <1>c, WritesStep DEF TypeOK
  <2> QED
    BY <1>1, <1>2, <1>c, <2>1, WritesStep DEF TypeOK
<1>d. CASE TX
  <2>1. UNCHANGED <<options, tool, inbox, filter, limits, sync, rx>>
    BY <1>d, TXStep
  <2>2. tx' \in TxPCs /\ report' \in Reports \union {NoPoint} /\ torn' \in BOOLEAN
    <3>1. CASE Take
      BY <3>1 DEF Take, TxPCs
    <3>2. ASSUME NEW d \in Dimensions, Check(d)
          PROVE  tx' \in TxPCs /\ UNCHANGED <<report, torn>>
      BY <3>2 DEF Check, TxPCs, Dimensions, Following
    <3>3. CASE Done
      BY <3>3 DEF Done, TxPCs
    <3> QED
      BY <1>1, <1>d, <3>1, <3>2, <3>3 DEF TX, TypeOK
  <2> QED
    BY <1>1, <1>2, <2>1, <2>2 DEF TypeOK
<1>e. CASE UNCHANGED vars
  BY <1>1, <1>2, <1>e DEF vars, TypeOK
<1> QED
  BY <1>a, <1>b, <1>c, <1>d, <1>e DEF Next, RX, Writes

\* Limits are made of the filter alone.
LEMMA SameFilter ==
  ASSUME filter' = filter
  PROVE  /\ TimeLimit' = TimeLimit /\ AzimuthLimit' = AzimuthLimit
         /\ DistanceLimit' = DistanceLimit /\ ElevationLimit' = ElevationLimit
         /\ From("distance", filter.first)' = From("distance", filter.first)
         /\ From("distance", filter.second)' = From("distance", filter.second)
         /\ From("azimuth", filter.first)' = From("azimuth", filter.first)
         /\ From("azimuth", filter.second)' = From("azimuth", filter.second)
<1>1. /\ From("distance", filter.first)' = From("distance", filter.first)
      /\ From("distance", filter.second)' = From("distance", filter.second)
      /\ From("azimuth", filter.first)' = From("azimuth", filter.first)
      /\ From("azimuth", filter.second)' = From("azimuth", filter.second)
  BY DEF From
<1>2. AzimuthRange' = AzimuthRange /\ DistanceRange' = DistanceRange
  BY <1>1 DEF AzimuthRange, DistanceRange
<1>3. AzimuthLimit' = AzimuthLimit
  BY <1>2 DEF AzimuthLimit
<1>4. DistanceLimit' = DistanceLimit
  BY <1>2, <1>3 DEF DistanceLimit
<1> QED
  BY <1>1, <1>3, <1>4 DEF TimeLimit, ElevationLimit

\* The block that reads the two azimuths, or distances, makes the limit of them.
LEMMA WriteOne ==
  ASSUME TypeOK, Computed
  PROVE  /\ SetTime => limits' = [limits EXCEPT !["time"] = TimeLimit]
         /\ SetPosition =>
              /\ limits'["time"] = limits["time"] /\ limits'["elevation"] = limits["elevation"]
              /\ limits'["distance"].min = From("distance", filter.first)
              /\ limits'["distance"].max = From("distance", filter.second)
              /\ limits'["azimuth"].min = From("azimuth", filter.first)
              /\ limits'["azimuth"].max = From("azimuth", filter.second)
         /\ SetAzimuth => limits' = [limits EXCEPT !["azimuth"] = AzimuthLimit]
         /\ SetDistance =>
              /\ limits' = [limits EXCEPT !["distance"] = DistanceLimit]
              /\ limits["azimuth"] = AzimuthLimit
              /\ rx' = IF IsNull(DistanceRange) /\ ~AzimuthLimit.on THEN "refuse"
                                                                  ELSE "resetElevation"
         /\ SetElevation => limits' = [limits EXCEPT !["elevation"] = ElevationLimit]
<1> USE DEF Sets
<1>1. limits \in [Dimensions -> Limit]
  BY DEF TypeOK, Limit, Number
<1>2. SetTime => limits' = [limits EXCEPT !["time"] = TimeLimit]
  BY DEF SetTime, TimeLimit
<1>3. SetElevation => limits' = [limits EXCEPT !["elevation"] = ElevationLimit]
  BY DEF SetElevation, ElevationLimit
<1>4. ASSUME SetAzimuth
      PROVE  limits' = [limits EXCEPT !["azimuth"] = AzimuthLimit]
  <2>1. Both(limits["azimuth"].min, limits["azimuth"].max) = AzimuthRange
    BY <1>4 DEF SetAzimuth, Computed, AzimuthRange
  <2> QED
    BY <1>4, <2>1 DEF SetAzimuth, AzimuthLimit
<1>5. ASSUME SetDistance
      PROVE  /\ limits' = [limits EXCEPT !["distance"] = DistanceLimit]
             /\ limits["azimuth"] = AzimuthLimit
             /\ rx' = IF IsNull(DistanceRange) /\ ~AzimuthLimit.on THEN "refuse"
                                                                 ELSE "resetElevation"
  <2>1. /\ limits["azimuth"] = AzimuthLimit
        /\ Either(limits["distance"].min, limits["distance"].max) = DistanceRange
    BY <1>5 DEF SetDistance, Computed, DistanceRange
  <2> QED
    BY <1>5, <2>1 DEF SetDistance, DistanceLimit
<1>6. ASSUME SetPosition
      PROVE  /\ limits'["time"] = limits["time"] /\ limits'["elevation"] = limits["elevation"]
             /\ limits'["distance"].min = From("distance", filter.first)
             /\ limits'["distance"].max = From("distance", filter.second)
             /\ limits'["azimuth"].min = From("azimuth", filter.first)
             /\ limits'["azimuth"].max = From("azimuth", filter.second)
  <2>1. limits' = [d \in Dimensions |->
                     IF d \in {"distance", "azimuth"}
                     THEN [limits[d] EXCEPT !.min = From(d, filter.first),
                                            !.max = From(d, filter.second)]
                     ELSE limits[d]]
    BY <1>6 DEF SetPosition
  <2>2. ASSUME NEW d \in {"distance", "azimuth"}
        PROVE  /\ limits'[d].min = From(d, filter.first)
               /\ limits'[d].max = From(d, filter.second)
    <3> DEFINE x == From(d, filter.first)
               y == From(d, filter.second)
               l == limits[d]
    <3>1. limits'[d] = [l EXCEPT !.min = x, !.max = y] /\ l \in Limit
      BY <1>1, <2>1 DEF Dimensions
    <3> HIDE DEF x, y, l
    <3>2. limits'[d].min = x /\ limits'[d].max = y
      BY <3>1 DEF Limit
    <3> QED
      BY <3>2 DEF x, y
  <2>3. limits'["time"] = limits["time"] /\ limits'["elevation"] = limits["elevation"]
    BY <2>1 DEF Dimensions
  <2> QED
    BY <2>2, <2>3
<1> QED
  BY <1>2, <1>3, <1>4, <1>5, <1>6

\* Each block leaves what the blocks before it made.
LEMMA ComputedStep ==
  ASSUME IInv, [Next]_vars
  PROVE  Computed'
<1>1. /\ TypeOK /\ Computed /\ Defined /\ limits \in [Dimensions -> Limit]
  BY DEF IInv, TypeOK, Limit, Number
<1>2. ASSUME UNCHANGED <<filter, limits, sync, rx>>
      PROVE  Computed'
  BY <1>1, <1>2, SameFilter DEF Computed, Complete
<1>a. CASE Define
  <2>1. rx = "idle" /\ UNCHANGED <<rx, limits, sync>> /\ (sync => filter' = filter)
    BY <1>1, <1>a, DefineStep
  <2>2. CASE sync
    BY <1>2, <2>1, <2>2
  <2>3. CASE ~sync
    BY <2>1, <2>3 DEF Computed
  <2> QED
    BY <2>2, <2>3
<1>b. CASE Start \/ Synchronize \/ Refuse
  <2>1. /\ UNCHANGED <<filter, limits>>
        /\ \/ rx = "idle" /\ rx' = "resetTime" /\ sync' = sync
           \/ rx = "start" /\ rx' = "idle"
           \/ rx' = "closed"
    BY <1>b DEF Start, Synchronize, Refuse, clientVars
  <2> QED
    BY <1>1, <2>1, SameFilter DEF Computed, Complete
<1>c. CASE Writes
  <2>1. filter' = filter /\ limits \in [Dimensions -> Limit]
    BY <1>1, <1>c, WritesStep
  <2> USE <2>1, SameFilter DEF Sets
  <2>2. CASE ResetTime
    BY <2>2 DEF ResetTime, Computed
  <2>3. CASE SetTime
    <3>1. rx' \in {"refuse", "position"} /\ limits' = [limits EXCEPT !["time"] = TimeLimit]
      BY <1>1, <2>3, WriteOne DEF SetTime
    <3> QED
      BY <3>1 DEF Computed, Dimensions
  <2>4. CASE SetPosition
    <3>1. rx = "position" /\ rx' = "azimuth"
      BY <2>4 DEF SetPosition
    <3> QED
      BY <1>1, <2>4, <3>1, WriteOne DEF Computed
  <2>5. CASE SetAzimuth
    <3>1. /\ rx = "azimuth" /\ rx' = "distance"
          /\ limits' = [limits EXCEPT !["azimuth"] = AzimuthLimit]
      BY <1>1, <2>5, WriteOne DEF SetAzimuth
    <3>2. /\ limits'["azimuth"] = AzimuthLimit /\ limits'["time"] = limits["time"]
          /\ limits'["distance"] = limits["distance"]
      BY <3>1 DEF Dimensions
    <3> QED
      BY <1>1, <3>1, <3>2 DEF Computed
  <2>6. CASE SetDistance
    <3>1. /\ rx = "distance" /\ rx' \in {"refuse", "resetElevation"}
          /\ limits' = [limits EXCEPT !["distance"] = DistanceLimit]
      BY <1>1, <2>6, WriteOne DEF SetDistance
    <3>2. /\ limits'["azimuth"] = limits["azimuth"] /\ limits'["time"] = limits["time"]
          /\ limits'["distance"] = DistanceLimit
      BY <3>1 DEF Dimensions
    <3> QED
      BY <1>1, <3>1, <3>2 DEF Computed
  <2>7. CASE ResetElevation
    <3>1. /\ rx = "resetElevation" /\ rx' = "elevation"
          /\ limits' = [limits EXCEPT !["elevation"] = Off]
      BY <2>7 DEF ResetElevation
    <3>2. /\ limits'["azimuth"] = limits["azimuth"] /\ limits'["time"] = limits["time"]
          /\ limits'["distance"] = limits["distance"]
      BY <3>1 DEF Dimensions
    <3> QED
      BY <1>1, <3>1, <3>2 DEF Computed
  <2>8. CASE SetElevation
    <3>1. /\ rx = "elevation" /\ rx' \in {"refuse", "start"}
          /\ limits' = [limits EXCEPT !["elevation"] = ElevationLimit]
      BY <1>1, <2>8, WriteOne DEF SetElevation
    <3>2. /\ limits'["azimuth"] = limits["azimuth"] /\ limits'["time"] = limits["time"]
          /\ limits'["distance"] = limits["distance"]
          /\ limits'["elevation"] = ElevationLimit
      BY <3>1 DEF Dimensions
    <3> QED
      BY <1>1, <3>1, <3>2 DEF Computed
  <2> QED
    BY <1>c, <2>2, <2>3, <2>4, <2>5, <2>6, <2>7, <2>8 DEF Writes
<1>d. CASE TX
  BY <1>2, <1>d, TXStep
<1>e. CASE UNCHANGED vars
  BY <1>2, <1>e DEF vars
<1> QED
  BY <1>a, <1>b, <1>c, <1>d, <1>e DEF Next, RX, Writes

\* What refuses a client is a range of less than a unit.
LEMMA RefusedStep ==
  ASSUME IInv, [Next]_vars
  PROVE  RefusedForCause'
<1> USE FilterAssumption
<1>1. /\ TypeOK /\ Computed /\ Defined /\ RefusedForCause
      /\ filter.first \in Point /\ filter.second \in Point /\ filter.reference \in BOOLEAN
  BY DEF IInv, TypeOK
<1>2. /\ filter.first.time \in Number /\ filter.second.time \in Number
      /\ filter.first.elevation \in Number /\ filter.second.elevation \in Number
  BY <1>1, PointFields
<1>a. CASE Define \/ Start \/ Synchronize \/ Refuse
  <2>1. rx' # "refuse"
    BY <1>1, <1>a, DefineStep DEF Start, Synchronize, Refuse
  <2> QED
    BY <2>1 DEF RefusedForCause
<1>b. CASE Writes
  <2>1. filter' = filter
    BY <1>1, <1>b, WritesStep
  <2> USE DEF Sets
  <2>2. CASE ResetTime \/ SetPosition \/ SetAzimuth \/ ResetElevation
    <3>1. rx' # "refuse"
      BY <2>2 DEF ResetTime, SetPosition, SetAzimuth, ResetElevation
    <3> QED
      BY <3>1 DEF RefusedForCause
  <2>3. CASE SetTime
    <3> DEFINE x == filter.first.time
               y == filter.second.time
    <3>1. rx' = "refuse" => IsNull(Both(x, y))
      BY <2>3 DEF SetTime
    <3>2. rx' = "refuse" => None \notin {x, y} /\ Near(x, y)
      BY <1>2, <3>1, BothLimits
    <3> QED
      BY <2>1, <3>2 DEF RefusedForCause
  <2>4. CASE SetElevation
    <3> DEFINE x == filter.first.elevation
               y == filter.second.elevation
    <3>1. rx' = "refuse" => IsNull(Either(x, y))
      BY <2>4 DEF SetElevation
    <3>2. rx' = "refuse" => None \notin {x, y} /\ Near(x, y)
      BY <1>2, <3>1, EitherLimits
    <3> QED
      BY <2>1, <3>2 DEF RefusedForCause
  <2>5. CASE SetDistance
    <3> DEFINE ax == From("azimuth", filter.first)
               ay == From("azimuth", filter.second)
               dx == From("distance", filter.first)
               dy == From("distance", filter.second)
               a == filter.first
               b == filter.second
    <3>1. rx' = "refuse" => IsNull(Either(dx, dy)) /\ ~AzimuthLimit.on
      BY <1>1, <2>5, WriteOne DEF DistanceRange
    <3>2. ax \in Number /\ ay \in Number /\ dx \in Number /\ dy \in Number
      BY <1>1, FromReference
    <3>3. rx' = "refuse" => None \notin {dx, dy} /\ Near(dx, dy)
      BY <3>1, <3>2, EitherLimits
    <3>4. None \notin {dx, dy} =>
            /\ filter.reference /\ a.position # None /\ b.position # None
            /\ dx = a.position.distance /\ dy = b.position.distance
            /\ ax = a.position.azimuth /\ ay = b.position.azimuth
            /\ None \notin {ax, ay}
      BY <1>1, FromReference
    <3>5. ~AzimuthLimit.on /\ None \notin {ax, ay} => Near(ax, ay)
      <4>1. AzimuthRange = Both(ax, ay)
        BY DEF AzimuthRange
      <4> QED
        BY <3>2, <4>1, BothLimits DEF AzimuthLimit
    <3>6. rx' = "refuse" =>
            /\ filter.reference /\ None \notin {a.position, b.position}
            /\ Near(a.position.distance, b.position.distance)
            /\ Near(a.position.azimuth, b.position.azimuth)
      BY <3>1, <3>3, <3>4, <3>5
    <3> QED
      BY <2>1, <3>6 DEF RefusedForCause
  <2> QED
    BY <1>b, <2>2, <2>3, <2>4, <2>5 DEF Writes
<1>c. CASE TX \/ UNCHANGED vars
  <2>1. UNCHANGED <<filter, rx>>
    BY <1>c, TXStep DEF vars
  <2> QED
    BY <1>1, <2>1 DEF RefusedForCause
<1> QED
  BY <1>a, <1>b, <1>c DEF Next, RX, Writes

\* The filter is what the directives so far have said.
LEMMA DefinedNext ==
  ASSUME IInv, [Next]_vars
  PROVE  Defined'
<1>1. TypeOK /\ Defined
  BY DEF IInv
<1>2. UNCHANGED <<options, tool>>
  <2>1. CASE Define
    BY <1>1, <2>1, DefineStep
  <2>2. CASE Start \/ Synchronize \/ Refuse
    BY <2>2 DEF Start, Synchronize, Refuse, clientVars
  <2>3. CASE Writes
    BY <1>1, <2>3, WritesStep
  <2>4. CASE TX \/ UNCHANGED vars
    BY <2>4, TXStep DEF vars
  <2> QED
    BY <2>1, <2>2, <2>3, <2>4 DEF Next, RX, Writes
<1>3. Asked' = Asked
  BY <1>2 DEF Asked, Sent, Muddled, Plain, Encoded
<1>4. \A e \in Extras : /\ AfterSecond(e)' = AfterSecond(e)
                        /\ AfterFirst(e)' = AfterFirst(e)
                        /\ AfterReference(e)' = AfterReference(e)
                        /\ All(e)' = All(e)
  <2>1. \A id, p : Directive(id, p)' = Directive(id, p)
    BY <1>2 DEF Directive, Muddled, Plain, Encoded
  <2>2. Reference' = Reference
    BY <1>2 DEF Reference
  <2> QED
    BY <1>2, <2>1, <2>2 DEF AfterSecond, AfterFirst, AfterReference, All
<1>5. ASSUME filter' = Asked, sync' \/ rx' # "idle"
      PROVE  Defined'
  BY <1>1, <1>2, <1>3, <1>5 DEF Defined
<1>a. CASE Define
  <2>1. CASE sync
    BY <1>1, <1>5, <1>a, <2>1, DefineStep DEF Defined
  <2>2. CASE ~sync
    <3>1. PICK e \in Extras :
            \/ inbox' = AfterReference(e)
               /\ filter' = [reference |-> options.reference, first |-> NoPoint,
                             second |-> NoPoint]
            \/ inbox' = AfterFirst(e) /\ filter' = [Asked EXCEPT !.second = NoPoint]
            \/ inbox' = AfterSecond(e) /\ filter' = Asked
      BY <1>1, <1>a, <2>2, DefineStep
    <3>2. ~sync' /\ rx' = "idle"
      BY <1>1, <1>a, <2>2, DefineStep
    <3>3. (\E e_1 \in Extras :
             \/ inbox = All(e_1)
                /\ filter = [reference |-> FALSE, first |-> NoPoint, second |-> NoPoint]
             \/ inbox = AfterReference(e_1)
                /\ filter = [reference |-> options.reference, first |-> NoPoint,
                             second |-> NoPoint]
             \/ inbox = AfterFirst(e_1)
                /\ filter = [Asked EXCEPT !.second = NoPoint]
             \/ inbox = AfterSecond(e_1) /\ filter = Asked)'
      BY <1>2, <1>3, <1>4, <3>1
    <3> QED
      BY <1>1, <1>2, <3>2, <3>3 DEF Defined
  <2> QED
    BY <2>1, <2>2
<1>b. CASE Start
  <2>1. rx = "idle" /\ rx' = "resetTime" /\ filter' = filter /\ Head(inbox).id = "#START"
    BY <1>b DEF Start
  <2>2. CASE sync
    BY <1>1, <1>5, <2>1, <2>2 DEF Defined
  <2>3. CASE ~sync
    <3>1. filter = Asked
      BY <1>1, <2>1, <2>3, NextDirective
    <3> QED
      BY <1>5, <2>1, <3>1
  <2> QED
    BY <2>2, <2>3
<1>c. CASE Synchronize \/ Refuse
  BY <1>1, <1>5, <1>c DEF Synchronize, Refuse, Defined
<1>d. CASE Writes
  BY <1>1, <1>5, <1>d, WritesStep DEF Defined
<1>e. CASE TX \/ UNCHANGED vars
  <2>1. UNCHANGED <<filter, sync, rx, inbox, options, tool>>
    BY <1>e, TXStep DEF vars
  <2> QED
    BY <1>1, <1>3, <1>4, <2>1 DEF Defined
<1> QED
  BY <1>a, <1>b, <1>c, <1>d, <1>e DEF Next, RX, Writes

\* A dimension that passed still does, while neither the limits nor the report change.
LEMMA PassedStays ==
  ASSUME UNCHANGED <<limits, report, filter>>
  PROVE  \A d \in Dimensions : Passed(d)' <=> Passed(d)
BY DEF Passed, Outside, Value, From

\* What was checked holds for as long as the limits are not written.
LEMMA CheckedStep ==
  ASSUME IInv, [Next]_vars
  PROVE  Checked'
<1>1. TypeOK /\ Defined /\ Checked
  BY DEF IInv
<1>2. ASSUME UNCHANGED <<limits, report, torn, tx>>, tx # "idle" => filter' = filter,
             sync => sync', rx' \in {"idle", "resetTime"} \/ rx' = rx
      PROVE  Checked'
  <2>1. CASE tx = "idle"
    BY <1>2, <2>1 DEF Checked
  <2>2. CASE tx # "idle"
    <3>1. \A d \in Dimensions : Passed(d)' <=> Passed(d)
      BY <1>2, <2>2, PassedStays
    <3> QED
      BY <1>1, <1>2, <2>2, <3>1 DEF Checked, Steady, Dimensions
  <2> QED
    BY <2>1, <2>2
<1>a. CASE Define
  BY <1>1, <1>2, <1>a, DefineStep DEF Checked
<1>b. CASE Start \/ Synchronize
  BY <1>1, <1>2, <1>b DEF Start, Synchronize, clientVars, txVars
<1>c. CASE Refuse
  <2>1. tx' = "idle"
    BY <1>c DEF Refuse, txVars
  <2> QED
    BY <2>1 DEF Checked
<1>d. CASE Writes
  <2>1. torn' = (torn \/ tx # "idle") /\ tx' = tx /\ sync' = sync
    BY <1>1, <1>d, WritesStep
  <2>2. CASE tx = "idle"
    BY <2>1, <2>2 DEF Checked
  <2>3. CASE tx # "idle"
    <3>1. torn' = TRUE
      BY <2>1, <2>3
    <3> QED
      BY <1>1, <2>1, <2>3, <3>1 DEF Checked, Steady
  <2> QED
    BY <2>2, <2>3
<1>e. CASE Take
  <2>1. tx' = "time" /\ sync' = sync /\ sync /\ rx' = rx /\ torn' = (rx # "idle")
    BY <1>e DEF Take, Synchronized, rxVars
  <2> QED
    BY <2>1 DEF Checked, Steady
<1>f. ASSUME NEW d \in Dimensions, Check(d)
      PROVE  Checked'
  <2>1. /\ tx = d /\ UNCHANGED <<limits, filter, sync, rx, report, torn>>
        /\ tx' = IF ~Passed(d) THEN "withheld"
                 ELSE IF d = "time" /\ \A e \in Dimensions \ {d} : ~limits[e].on
                      THEN "sent"
                 ELSE Following[d]
    BY <1>f DEF Check, rxVars, Passed
  <2>2. \A e \in Dimensions : Passed(e)' <=> Passed(e)
    BY <2>1, PassedStays
  <2>3. sync' /\ Steady'
    BY <1>1, <2>1 DEF Checked, Steady, Dimensions
  <2>4. CASE ~Passed(d)
    BY <2>1, <2>2, <2>3, <2>4 DEF Checked
  <2>5. CASE Passed(d) /\ d = "time" /\ \A e \in Dimensions \ {d} : ~limits[e].on
    <3>1. \A e \in Dimensions : Passed(e)
      BY <2>5 DEF Passed
    <3>2. tx' = "sent"
      BY <2>1, <2>5
    <3> QED
      BY <2>2, <2>3, <3>1, <3>2 DEF Checked, Dimensions
  <2>6. CASE Passed(d) /\ tx' = Following[d]
    <3>1. \/ d = "time" /\ tx' = "distance"
          \/ d = "distance" /\ tx' = "azimuth"
          \/ d = "azimuth" /\ tx' = "elevation"
          \/ d = "elevation" /\ tx' = "sent"
      BY <2>6 DEF Following, Dimensions
    <3>2. /\ Passed("time")' <=> Passed("time")
          /\ Passed("distance")' <=> Passed("distance")
          /\ Passed("azimuth")' <=> Passed("azimuth")
          /\ Passed("elevation")' <=> Passed("elevation")
      BY <2>2 DEF Dimensions
    <3> QED
      BY <1>1, <2>1, <2>3, <2>6, <3>1, <3>2 DEF Checked
  <2> QED
    BY <2>1, <2>4, <2>5, <2>6
<1>g. CASE Done
  <2>1. tx' = "idle"
    BY <1>g DEF Done
  <2> QED
    BY <2>1 DEF Checked
<1>h. CASE UNCHANGED vars
  BY <1>2, <1>h DEF vars
<1> QED
  BY <1>a, <1>b, <1>c, <1>d, <1>e, <1>f, <1>g, <1>h DEF Next, RX, TX, Writes

------------------------------------------------------------------------------
(* The theorems. *)

\* The invariant holds at first, and every step keeps it.
THEOREM FilterInvariant == Spec => []IInv
<1>1. Init => IInv
  <2> SUFFICES ASSUME Init
               PROVE  IInv
    OBVIOUS
  <2>1. TypeOK
    <3>1. NoPoint \in Point
      BY DEF NoPoint, Point
    <3>2. \A d \in Dimensions : Off \in [on : BOOLEAN, min : Nat \union {None},
                                         max : Nat \union {None}]
      BY DEF Off
    <3> QED
      BY <3>1, <3>2 DEF Init, TypeOK, RxPCs, TxPCs
  <2>2. RefusedForCause /\ Computed /\ Checked
    BY DEF Init, RefusedForCause, Computed, Checked
  <2>3. Defined
    <3>1. PICK e \in Extras : inbox = Directives \o e
      BY DEF Init
    <3>2. inbox = All(e)
      BY <2>1, <3>1, Conversation
    <3> QED
      BY <3>2 DEF Init, Defined
  <2> QED
    BY <2>1, <2>2, <2>3 DEF IInv
<1>2. IInv /\ [Next]_vars => IInv'
  BY TypeStep, RefusedStep, ComputedStep, DefinedNext, CheckedStep DEF IInv
<1> QED
  BY <1>1, <1>2, PTL DEF Spec

\* A client is refused for a range of less than a unit, and for nothing else.
THEOREM FilterConsistent == Spec => []Consistent
<1>1. IInv => Consistent
  BY DEF IInv, Consistent
<1> QED
  BY <1>1, FilterInvariant, PTL

\* A report that is checked is a point, and it is checked with complete limits unless
\* they were written meanwhile.
LEMMA CheckedReport ==
  ASSUME IInv, tx # "idle", ~torn
  PROVE  TypeOK /\ report \in Point /\ Complete /\ filter = Asked
<1>1. TypeOK /\ Complete /\ filter = Asked
  BY DEF IInv, Checked, Steady, Computed, Defined
<1>2. report \in Point
  BY <1>1, FilterAssumption DEF TypeOK, NoPoint, Point
<1> QED
  BY <1>1, <1>2

\* The data a client gets is the data its directives let through.
THEOREM FilterVerdict == Spec => []Verdict
<1>1. ASSUME IInv, ~torn, tx = "sent"
      PROVE  Fits(filter, report)
  <2>1. \A d \in Dimensions : Passed(d)
    BY <1>1 DEF IInv, Checked, Dimensions
  <2> QED
    BY <1>1, <2>1, CheckedReport, LimitsMean
<1>2. ASSUME IInv, ~torn, tx = "withheld"
      PROVE  ~Fits(filter, report)
  <2>1. \E d \in Dimensions : ~Passed(d)
    BY <1>2 DEF IInv, Checked
  <2> QED
    BY <1>2, <2>1, CheckedReport, LimitsMean
<1>3. IInv => Verdict
  BY <1>1, <1>2 DEF Verdict
<1> QED
  BY <1>3, FilterInvariant, PTL

\* It is also what the user asked for, where hub2sgctp says what the user did.
THEOREM FilterSentFitsOptions == Spec => []SentFitsOptions
<1>1. ASSUME IInv, tx = "sent", ~torn
      PROVE  LET E == {p \in {options.first, options.second} : p.elevation # None}
                 Lost == \E p \in E : p.position = None
             IN  /\ FitsPosition(options, report)
                 /\ (tool = "hub2sgctp" => E = {}) => FitsTime(options, report)
                 /\ (tool = "other" /\ ~Lost) => FitsElevation(options, report)
  <2> DEFINE a == options.first
             b == options.second
             E == {p \in {a, b} : p.elevation # None}
             Lost == \E p \in E : p.position = None
  <2>1. /\ TypeOK /\ filter = Asked /\ tool \in {"hub2sgctp", "other"}
        /\ Fits(filter, report)
    <3>1. \A d \in Dimensions : Passed(d)
      BY <1>1 DEF IInv, Checked, Dimensions
    <3> QED
      BY <1>1, <3>1, CheckedReport, LimitsMean DEF IInv, Defined
  <2>2. /\ filter.reference = options.reference
        /\ filter.first = Sent(a) /\ filter.second = Sent(b)
        /\ a \in Point /\ b \in Point
    BY <2>1, AskedTypes
  <2>3. ASSUME NEW p \in Point
        PROVE  /\ Sent(p).position = p.position
               /\ tool = "other" \/ p.elevation = None => Sent(p).time = p.time
               /\ tool = "other" /\ (p.elevation = None \/ p.position # None) =>
                    Sent(p).elevation = p.elevation
    BY <2>1 DEF Sent, Encoded, Muddled, Plain, Point
  <2>4. FitsPosition(options, report)
    <3>1. Sent(a).position = a.position /\ Sent(b).position = b.position
      BY <2>2, <2>3
    <3> QED
      BY <2>1, <2>2, <3>1 DEF Fits, FitsPosition
  <2>5. ASSUME tool = "hub2sgctp" => E = {}
        PROVE  FitsTime(options, report)
    <3>1. Sent(a).time = a.time /\ Sent(b).time = b.time
      BY <2>1, <2>2, <2>3, <2>5
    <3> QED
      BY <2>1, <2>2, <3>1 DEF Fits, FitsTime
  <2>6. ASSUME tool = "other", ~Lost
        PROVE  FitsElevation(options, report)
    <3>1. Sent(a).elevation = a.elevation /\ Sent(b).elevation = b.elevation
      BY <2>2, <2>3, <2>6
    <3> QED
      BY <2>1, <2>2, <3>1 DEF Fits, FitsElevation
  <2> QED
    BY <2>4, <2>5, <2>6
<1>2. IInv => SentFitsOptions
  BY <1>1 DEF SentFitsOptions
<1> QED
  BY <1>2, FilterInvariant, PTL

==============================================================================
