------------------------------- MODULE Converter ------------------------------
(***************************************************************************)
(* The converters that keep course data per source: sbs2sgctp (ADS-B, the  *)
(* lines of an SBS-1 receiver), flarm2sgctp (the NMEA sentences of a FLARM) *)
(* and ais2sgctp (the packets of gpsd). Each keeps a map of containers, by *)
(* source, completes a container with what a message says, writes it when  *)
(* there is enough in it, and drops containers now and then.               *)
(*                                                                         *)
(* The time in a container comes with the input: the clean-up may find any *)
(* of them too old, and always those that have none. Of what a container   *)
(* holds only the presence of the fields decides anything. The options that *)
(* switch some outputs off (GPS only, FLARM only) and the fields no         *)
(* decision reads are left out.                                            *)
(***************************************************************************)
EXTENDS LineBuffer

CONSTANTS
  Sources,     \* hexadecimal identifiers, MMSI numbers
  Nobody       \* an empty source ID, and no container

ASSUME NobodyAssumption == Nobody \notin Sources

VARIABLES
  program,     \* which converter
  option,      \* bBarometricElevation of flarm2sgctp, bCallsignLookup of the others
  containers,  \* __poData_umap
  sID,         \* flarm2sgctp: ID of the FLARM itself
  reference,   \* flarm2sgctp: key of the container of __poDataReference
  epoch,       \* flarm2sgctp: __fdEpochReference is set
  heard,       \* history: sources whose last name since the clean-up was not blank
  switched,    \* history: the reference became a container in use, or was
               \*   itself reported as traffic
  misdated     \* history: traffic was written with a wrong time

dataVars == <<program, option, containers, sID, reference, epoch,
              heard, switched, misdated>>
vars == <<lineVars, dataVars>>

Fields == {"time", "latitude", "longitude", "elevation"}

\* A container: the fields that are defined, whether it has an ID, and (history)
\* whether its time is the one __fdEpochReference was taken for.
Container == [fields : SUBSET Fields, named : BOOLEAN, dated : BOOLEAN]

Init ==
  /\ LineInit
  /\ program \in {"sbs", "flarm", "ais"}
  /\ option \in BOOLEAN
  /\ containers = <<>>
  /\ sID \in IF program = "flarm" THEN Sources \cup {Nobody} ELSE {Nobody}
  /\ reference = Nobody /\ epoch = FALSE
  /\ heard = {} /\ switched = FALSE /\ misdated = FALSE

------------------------------------------------------------------------------
(* The map *)

\* What is left after a clean-up that found these too old.
Without(old) == [s \in DOMAIN containers \ old |-> containers[s]]

\* The clean-up, every 300 seconds: a container without time is older than any.
Untimed == {s \in DOMAIN containers : "time" \notin containers[s].fields}
CleanUps == {{}} \cup {old \in SUBSET DOMAIN containers : Untimed \subseteq old}

Created(named) == [fields |-> {}, named |-> named, dated |-> FALSE]

\* The container of the source, a new one if there is none. (flarm2sgctp names it at
\* once.)
Found(map, s, named) ==
  IF s \in DOMAIN map THEN map[s] ELSE Created(named)

Stored(map, s, c) == [t \in DOMAIN map \cup {s} |-> IF t = s THEN c ELSE map[t]]

------------------------------------------------------------------------------
(* sbs2sgctp, ais2sgctp: one source, one container *)

\* What a message brings. A static one has a name at most (SBS-1 message 1, AIS
\* messages 5 and 24); one that is not handled nothing (other AIS messages).
\* The name may be spaces only, which SBS-1 pads call signs with.
Reports == [source : Sources, kind : {"moving", "static", "unhandled"},
            name : {"none", "blank", "sign"},
            time : BOOLEAN, position : BOOLEAN, course : BOOLEAN]

\* Lines of other kinds are ignored; an AIS name only comes with static messages,
\* and is used as it is.
SbsReports == {r \in Reports : r.kind # "unhandled"}
AisReports ==
  {r \in Reports : r.name # "blank" /\ (r.name = "sign" => r.kind = "static")}

\* What is known of a name after a message.
Names(known, r) == r.name = "sign" \/ (r.name = "none" /\ known)

\* With the lookup the ID is the last call sign heard; without, the identifier. A
\* blank call sign is not empty before it is trimmed: it takes the ID away.
Identified(c, r) ==
  IF r.kind = "unhandled" THEN c
  ELSE [c EXCEPT !.named = option => Names(@, r)]

\* The others bring no data. (An elevation only comes with a position: no
\* decision of these two reads it.)
Completed(c, r) ==
  IF r.kind # "moving" THEN c
  ELSE [c EXCEPT !.fields = @ \cup (IF r.time THEN {"time"} ELSE {})
                              \cup (IF r.position THEN {"latitude", "longitude"} ELSE {})]

\* There is something new to write, and an ID to write it under.
Writes(c, r) == r.kind = "moving" /\ (r.position \/ r.course) /\ c.named

\* One message, after a clean-up or not. The output may fail, which ends the loop.
Track(r) ==
  \E old \in CleanUps :
    LET c == Completed(Identified(Found(Without(old), r.source, FALSE), r), r)
    IN /\ containers' = Stored(Without(old), r.source, c)
       /\ heard' = {s \in (heard \ old) \cup {r.source} :
                      s = r.source => Names(s \in heard \ old, r)}
       /\ step' \in {step} \cup (IF Writes(c, r) THEN {"done"} ELSE {})
       /\ UNCHANGED <<program, option, sID, reference, epoch, switched, misdated>>

------------------------------------------------------------------------------
(* flarm2sgctp: the device's own sentences (position GPRMC and GPGGA, altitude *)
(* PGRMZ, status PFLAU) and those on the traffic around it (PFLAA)            *)

\* A fix is read field after field, up to the first that is corrupt. How many
\* fields there are is only looked at for a $PFLAU: with fewer, the code reads
\* whatever is behind the vector's last, and the sentence is any of its type.
Position == {"$GPRMC", "$GPGGA"}
Fix == {"time", "latitude", "longitude"}
Sentences ==
  [type : {"$PFLAU", "$PFLAA"}, source : Sources \cup {Nobody}]
  \cup [type : Position, good : {{}, {"time"}, {"time", "latitude"}, Fix, Fields}]
  \cup [type : {"$PGRMZ", "other"}]

\* The ID of the device: the last one a $PFLAU names.
OwnId(m) == IF m.type = "$PFLAU" /\ m.source # Nobody THEN m.source ELSE sID

Originator(m) ==
  CASE m.type = "$PFLAU" -> OwnId(m)
    [] m.type = "$PFLAA" -> m.source
    [] OTHER -> reference

\* Faulty variant, for the mutants of the runs: the clean-up leaves the pointer.
ReferenceKept(old) == reference

\* The clean-up forgets the reference with its container.
ReferenceLeft(old) == IF reference \in old THEN Nobody ELSE reference

\* The elevation is a GPGGA's, unless the altimeter's is wanted.
FieldsOf(m) == IF m.type = "$GPGGA" /\ ~option THEN m.good ELSE m.good \ {"elevation"}

\* Faulty variant, for the mutants of the runs: a GPRMC does not set the epoch.
TakesEpochLate(m) == m.type = "$GPGGA" /\ m.good # {}

\* With the time, the moment is kept at which it came.
TakesEpoch(m) == m.type \in Position /\ m.good # {}

\* Traffic is placed relative to a whole fix, and dated by the time elapsed since.
Relates(c) == epoch /\ Fields \subseteq c.fields

\* The reference's container after a sentence of the device.
Fixed(c, m) ==
  CASE m.type \in Position ->
         [c EXCEPT !.fields = @ \cup FieldsOf(m), !.dated = @ \/ TakesEpoch(m)]
    [] m.type = "$PGRMZ" /\ option -> [c EXCEPT !.fields = @ \cup {"elevation"}]
    [] OTHER -> c

\* The containers that hold the time the epoch was taken for: after a fix, one.
Redated(map, m, r) ==
  IF TakesEpoch(m) THEN [t \in DOMAIN map |-> [map[t] EXCEPT !.dated = @ /\ t = r]]
  ELSE map

\* What a sentence makes write: traffic if it could be placed, the fix as soon
\* as it has an elevation.
Outputs(m, traffic) ==
  \/ traffic
  \/ m.type = "$GPGGA" /\ Fix \subseteq m.good
  \/ m.type = "$PGRMZ" /\ option

\* Or what is behind the last field is no string, and the converter crashes.
Crashes == step' = "done" /\ UNCHANGED dataVars

\* A sentence whose source is not known is skipped before anything else.
Skipped(m) ==
  /\ Originator(m) = Nobody
  /\ sID' = OwnId(m)
  /\ UNCHANGED <<step, program, option, containers, reference, epoch,
                 heard, switched, misdated>>

Flarm(m) ==
  \E old \in CleanUps :
    LET s == Originator(m)
        looked == Stored(Without(old), s, Found(Without(old), s, TRUE))
        r == IF m.type = "$PFLAU" THEN s ELSE ReferenceLeft(old)
        known == r \in DOMAIN looked    \* __poDataReference != NULL
        traffic == m.type = "$PFLAA" /\ known /\ Relates(looked[r])
    IN /\ s # Nobody
       /\ sID' = OwnId(m)
       /\ reference' = r
       /\ epoch' = (epoch \/ (known /\ TakesEpoch(m)))
       /\ containers' =
            IF ~known THEN looked
            ELSE IF traffic
                 THEN Stored(looked, s, [looked[s] EXCEPT !.fields = Fields, !.dated = FALSE])
                 ELSE Redated(Stored(looked, r, Fixed(looked[r], m)), m, r)
       /\ switched' = (switched \/ (traffic /\ s = r)
                       \/ (r \notin {reference, Nobody} /\ "time" \in looked[r].fields))
       /\ misdated' = (misdated \/ (traffic /\ ~looked[r].dated))
       /\ step' \in {step} \cup (IF known /\ Outputs(m, traffic)
                                 THEN {"done"} ELSE {})
       /\ UNCHANGED <<program, option, heard>>

------------------------------------------------------------------------------
\* A line of a receiver. The converters ignore most kinds; the rest of one given
\* up they read like any other line, so that it says anything.
ReadLine ==
  /\ program # "ais"
  /\ TakeLine
  /\ \/ UNCHANGED <<step, dataVars>>
     \/ program = "sbs" /\ \E r \in SbsReports : Track(r)
     \/ program = "flarm" /\ (Crashes \/ \E m \in Sentences : Skipped(m) \/ Flarm(m))

\* A packet of gpsd.
ReadPacket ==
  /\ program = "ais" /\ step = "receive"
  /\ \E r \in AisReports : Track(r)
  /\ UNCHANGED <<start, end, eol, held, coming, number, expected, cut>>

ReadInput == program # "ais" /\ (Arrives \/ Receive \/ NoLine) /\ UNCHANGED dataVars
EndOfInput == ReceivesNothing /\ UNCHANGED dataVars

Next == ReadInput \/ ReadLine \/ ReadPacket \/ EndOfInput

Spec == Init /\ [][Next]_vars

------------------------------------------------------------------------------
(* Properties *)

TypeOK ==
  /\ program \in {"sbs", "flarm", "ais"} /\ option \in BOOLEAN
  /\ DOMAIN containers \subseteq Sources
  /\ \A s \in DOMAIN containers : containers[s] \in Container
  /\ sID \in Sources \cup {Nobody}
  /\ reference \in Sources \cup {Nobody}
  /\ epoch \in BOOLEAN
  /\ heard \subseteq Sources
  /\ switched \in BOOLEAN /\ misdated \in BOOLEAN

\* The map, and what points into it: __poDataReference is a container of the map,
\* never one the clean-up deleted, whatever is cleaned up while sentences of any
\* source are read; and a source whose name was heard is known by it until the
\* clean-up takes its container, so that its next position is written: unless a
\* blank call sign came since, which the code stores as an empty ID.
MapInStep ==
  /\ TypeOK
  /\ reference # Nobody => reference \in DOMAIN containers
  /\ \A s \in heard : s \in DOMAIN containers /\ containers[s].named

\* The lines are cut in step with the input, and recv() always has room.
LinesInStep == LineTypeOK /\ InStep /\ RoomToReceive

\* Traffic is dated by the fix of the reference and the time since: right as long
\* as one container has been the reference and was never itself traffic.
TrafficIsDated == misdated => switched

========================================
