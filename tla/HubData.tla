------------------------------- MODULE HubData -------------------------------
(***************************************************************************)
(* The internal data of the hub (utils/sgctphub: dataSync, dataCleanup),   *)
(* with the time and place of each update. An update carries a time of day *)
(* only: the hub makes an epoch of it with the date of its reception. HubFeed *)
(* has the same two functions among the threads that call them, with their *)
(* decisions left open.                                                    *)
(*                                                                         *)
(* Sources move along a meridian: a latitude is a whole number of degrees  *)
(* of DegreeLength metres each, and a longitude is defined exactly when the*)
(* latitude is.                                                            *)
(***************************************************************************)
EXTENDS Integers

CONSTANTS
  SourceIDs,     \* the IDs of the position sources
  Day,           \* seconds in a day
  TTL,           \* iDataTTL
  Period,        \* seconds between two clean-ups
  Throttle,      \* fdTimeThrottle, which may be undefined
  Threshold,     \* fdDistanceThreshold, which may be undefined
  DegreeLength,  \* metres in a degree of latitude
  Latitudes, Elevations,   \* the places the sources move between
  MaxDelay,      \* bound of the model: seconds between a fix and its reception
  Start,         \* epoch at which the hub starts
  End,           \* bound of the model: the last epoch
  Undefined,     \* CData::UNDEFINED_VALUE
  NoEntry

ASSUME HubDataAssumption ==
  /\ Day \in Nat \ {0} /\ TTL \in Nat /\ Period \in Nat \ {0}
  /\ MaxDelay \in 0..(Day - 1)
  /\ Start \in Nat /\ Start > TTL /\ Start >= MaxDelay
  /\ End \in Nat /\ Start <= End
  /\ Throttle \in Nat \union {Undefined}
  /\ Threshold \in Nat \union {Undefined}
  /\ DegreeLength \in Nat
  /\ Latitudes \subseteq Int /\ Elevations \subseteq Int
  /\ Undefined \notin Int

VARIABLES
  now,           \* the epoch
  cleaned,       \* when the data thread last went to sleep
  entry,         \* poSgctpHubData_umap
  created        \* history: when each entry was stored

dataVars == <<now, cleaned, entry, created>>

------------------------------------------------------------------------------
(* Updates and entries. *)

Times == 0..(Day - 1)
Optional(S) == S \union {Undefined}
Defined(v) == v # Undefined

Updates == [time : Optional(Times), lat : Optional(Latitudes),
            elev : Optional(Elevations)]

\* What a source can send now: a fix is at most MaxDelay old.
TimeOfDay(e) == e % Day
Arriving ==
  {u \in Updates : Defined(u.time) =>
                     \E d \in 0..MaxDelay : u.time = TimeOfDay(now - d)}

Entries == [data : Updates, epoch : Nat, lat : Optional(Latitudes),
            elev : Optional(Elevations)]

ASSUME NoEntryAssumption == NoEntry \notin Nat /\ NoEntry \notin Entries

DataTypeOK ==
  /\ now \in Start..End
  /\ cleaned \in Start..now
  /\ entry \in [SourceIDs -> Entries \union {NoEntry}]
  /\ created \in [SourceIDs -> (Start..now) \union {NoEntry}]
  /\ \A id \in SourceIDs : entry[id] = NoEntry <=> created[id] = NoEntry

Stored == {id \in SourceIDs : entry[id] # NoEntry}

------------------------------------------------------------------------------
(* The decisions of dataSync and dataCleanup. *)

\* Mutant: no time gives no epoch.
ToEpochOrNone(time, reference) ==
  IF Defined(time) THEN reference - TimeOfDay(reference) + time ELSE Undefined

\* CData::toEpoch with a reference: the time on the day of the reference.
ToEpoch(time, reference) ==
  IF Defined(time) THEN reference - TimeOfDay(reference) + time ELSE 0

Square(x) == x * x

\* The update is nearer than the threshold. Square roots are left out. It is
\* the entry's latitude that the code subtracts the new elevation from.
Near(e, u) ==
  /\ Defined(Threshold)
  /\ Defined(u.lat) /\ Defined(e.lat)
  /\ Square(DegreeLength * (u.lat - e.lat))
       + (IF Defined(u.elev) /\ Defined(e.elev)
          THEN Square(e.lat - u.elev) ELSE 0)
     < Square(Threshold)

\* Mutant: a day is added to the throttling delay.
EarlyByDay(e, u) ==
  /\ Defined(Throttle)
  /\ ToEpoch(u.time, now) - e.epoch < Throttle + Day

\* The update follows the entry's epoch by less than the throttling delay.
Early(e, u) ==
  /\ Defined(Throttle)
  /\ ToEpoch(u.time, now) - e.epoch < Throttle

\* CData::sync: each field the update defines replaces the stored one.
Sync(data, u) ==
  [f \in DOMAIN data |-> IF Defined(u[f]) THEN u[f] ELSE data[f]]

\* Mutant: the lifetime is exclusive.
ExpiredInclusive(e) == now - e.epoch >= TTL

Expired(e) == now - e.epoch > TTL

------------------------------------------------------------------------------
(* Actions. *)

DataInit ==
  /\ now = Start
  /\ cleaned = Start
  /\ entry = [id \in SourceIDs |-> NoEntry]
  /\ created = [id \in SourceIDs |-> NoEntry]

\* The data thread is taken to wake up on time.
Tick ==
  /\ now < End
  /\ now - cleaned < Period
  /\ now' = now + 1
  /\ UNCHANGED <<cleaned, entry, created>>

\* dataSync, an unknown ID. The clean-up and the throttling go by what is set
\* here, and only here.
DataCreate(id, u) ==
  /\ entry[id] = NoEntry
  /\ entry' = [entry EXCEPT ![id] =
                 [data |-> u, epoch |-> ToEpoch(u.time, now),
                  lat |-> u.lat, elev |-> u.elev]]
  /\ created' = [created EXCEPT ![id] = now]
  /\ UNCHANGED <<now, cleaned>>

\* dataSync, a known ID.
DataSync(id, u) ==
  /\ entry[id] # NoEntry
  /\ ~Early(entry[id], u)
  /\ ~Near(entry[id], u)
  /\ entry' = [entry EXCEPT ![id].data = Sync(@, u)]
  /\ UNCHANGED <<now, cleaned, created>>

\* dataSync, an update that is dropped.
DataDiscard(id, u) ==
  /\ entry[id] # NoEntry
  /\ Early(entry[id], u) \/ Near(entry[id], u)
  /\ UNCHANGED dataVars

\* Mutant: the expired entries are found and left.
DataCleanupForgets ==
  /\ now - cleaned = Period
  /\ cleaned' = now
  /\ UNCHANGED <<now, entry, created>>

\* dataCleanup, over all the entries.
DataCleanup ==
  /\ now - cleaned = Period
  /\ cleaned' = now
  /\ LET expired == {id \in Stored : Expired(entry[id])}
     IN /\ entry' = [id \in SourceIDs |->
                       IF id \in expired THEN NoEntry ELSE entry[id]]
        /\ created' = [id \in SourceIDs |->
                         IF id \in expired THEN NoEntry ELSE created[id]]
  /\ UNCHANGED now

DataNext ==
  \/ Tick
  \/ \E id \in SourceIDs, u \in Arriving :
       DataCreate(id, u) \/ DataSync(id, u) \/ DataDiscard(id, u)
  \/ DataCleanup

DataSpec == DataInit /\ [][DataNext]_dataVars

------------------------------------------------------------------------------
(* Properties. *)

\* An entry stored on the day its first fix was taken, and one whose first
\* update had no time, is gone once the lifetime and one clean-up period are
\* over; a first fix taken before a midnight it crossed on its way is dated a
\* day ahead, which adds up to a day, never more.
LifetimeIsBounded ==
  \A id \in Stored :
    LET ahead == IF entry[id].epoch > created[id]
                 THEN entry[id].epoch - created[id] ELSE 0
    IN /\ ahead < Day
       /\ now - created[id] <= TTL + Period + ahead

\* The clean-up leaves alone an entry whose first fix was taken, at most
\* MaxDelay before it was stored, less than its lifetime ago: neither the
\* midnight nor the age of the fix on arrival cost it more than MaxDelay.
KeptForItsLifetime ==
  [][\A id \in SourceIDs :
       entry[id] # NoEntry /\ entry'[id] = NoEntry /\ entry[id].epoch > 0
         => now - created[id] > TTL - MaxDelay]_dataVars

\* A source is silenced by throttling for a bounded time only: whatever its
\* first fix was dated, a timed update received a day, the throttling delay and
\* the age of a fix on arrival after the entry was stored gets through.
SilenceIsBounded ==
  \A id \in Stored : \A u \in Arriving :
    /\ Defined(u.time)
    /\ Early(entry[id], u)
    => now - created[id] < Day + Throttle + MaxDelay

==============================================================================
