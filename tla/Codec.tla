-------------------------------- MODULE Codec --------------------------------
(***************************************************************************)
(* A datum from the setters of a container (lib/data) to the bytes of a    *)
(* payload (lib/payload: serialize), back into a container at the other    *)
(* end (unserialize), and on to the record a hub keeps of its source       *)
(* (copy() the first time, sync() afterwards).                             *)
(*                                                                         *)
(* Quantities are integers, in halves of the step a field is stored in     *)
(* (0.05 m for an elevation, half a millisecond of arc for a latitude), so *)
(* that rounding shows. The bytes of an ID and of the free-form data say   *)
(* nothing: only their number is kept, and Opaque stands for their bits.   *)
(***************************************************************************)
EXTENDS Integers, Sequences, SequencesExt

CONSTANTS
  Undefined,     \* UNDEFINED_UINT32 of a field, UNDEFINED_VALUE of a getter
  Above, Below,  \* OVERFLOW_VALUE and -OVERFLOW_VALUE of a getter
  BadMessage,    \* EBADMSG
  Opaque,        \* a bit of an ID or of free-form data
  None,          \* no container, no payload
  Sources,       \* what a source fills in: fields, length of ID, size of data
  Followers,     \* and what it fills in in its later messages
  Usual,         \* of each field, a quantity of no interest
  Boundaries,    \* and those at the ends of its range
  MaxOdd,        \* bound of the model: fields set to a boundary value
  MaxMessages    \* bound of the model: messages of the source

OverflowMark == 2147483647                               \* OVERFLOW_UINT32
MAX_ID_LENGTH == 127
MAX_DATA_SIZE == 32767

------------------------------------------------------------------------------
(* The fields of a payload, in its order: a group per content flag, the    *)
(* third dimension of each group after its first two.                      *)

CourseGroups ==
  << <<"Latitude", "Longitude">>,  <<"Elevation">>,
     <<"Bearing", "GndSpeed">>,    <<"VrtSpeed">>,
     <<"BearingDt", "GndSpeedDt">>, <<"VrtSpeedDt">>,
     <<"Heading", "AppSpeed">> >>

ErrorGroups ==
  << <<"LatitudeError", "LongitudeError">>,   <<"ElevationError">>,
     <<"BearingError", "GndSpeedError">>,     <<"VrtSpeedError">>,
     <<"BearingDtError", "GndSpeedDtError">>, <<"VrtSpeedDtError">>,
     <<"HeadingError", "AppSpeedError">> >>

FieldsOf(groups) == UNION {ToSet(groups[g]) : g \in DOMAIN groups}
CourseFields == FieldsOf(CourseGroups)
ErrorFields == FieldsOf(ErrorGroups)
Fields == {"Time", "SourceType"} \union CourseFields \union ErrorFields

ThirdDimensions == {2, 4, 6}

CourseWidth ==
  [ Latitude |-> 30, Longitude |-> 31, Elevation |-> 19,
    Bearing |-> 12, GndSpeed |-> 16, VrtSpeed |-> 13,
    BearingDt |-> 10, GndSpeedDt |-> 12, VrtSpeedDt |-> 12,
    Heading |-> 12, AppSpeed |-> 16 ]

Width(f) ==
  IF f = "Time" THEN 23 ELSE
  IF f \in CourseFields THEN CourseWidth[f] ELSE
  IF f \in {"LatitudeError", "LongitudeError", "ElevationError"} THEN 12 ELSE 8

\* Containers: the fields, the length of the ID, the size of the free-form data,
\* and the bytes the data pointer really holds.
Containers ==
  [field : [Fields -> Nat \union {Undefined}],
   id : 0..MAX_ID_LENGTH, size : 0..MAX_DATA_SIZE, held : 0..MAX_DATA_SIZE]

Quantities(f) == {Usual[f]} \union Boundaries[f]

ASSUME CodecAssumption ==
  /\ {Undefined, Above, Below, BadMessage, None} \intersect Int = {}
  /\ Undefined \notin {Above, Below} /\ Above # Below
  /\ None \notin Containers
  /\ Usual \in [Fields -> Int] /\ Boundaries \in [Fields -> SUBSET Int]
  /\ Quantities("Time") \subseteq Nat
  /\ Quantities("SourceType") \subseteq 1..4
  /\ Sources \subseteq [fields : SUBSET Fields, id : Nat, size : Nat]
  /\ Followers \subseteq [fields : SUBSET Fields, id : Nat, size : Nat]
  /\ MaxOdd \in Nat /\ MaxMessages \in Nat \ {0}

VARIABLES
  pc,            \* where the message is: source, wire, peer, hub
  src,           \* the container of the source
  wire,          \* the payload, bit by bit
  dst,           \* the container it is unserialized into
  result,        \* what unserialize() returned
  kept,          \* the hub's record of the source
  meant,         \* history: the quantities given to the setters
  known,         \* history: the latest quantity the payloads carried
  odd,           \* history: boundary values set
  messages,      \* history: messages of the source
  crashed        \* whether the process made an access it may not survive

vars == <<pc, src, wire, dst, result, kept, meant, known, odd, messages, crashed>>

------------------------------------------------------------------------------
(* Setters and getters. A field with a bias keeps 0 for what is below its  *)
(* range, the mark for what is above.                                      *)

Day == 86400 * 20
Rounded(q) == (q + 1) \div 2

\* The bias, and the range between the overflows.
Scale ==
  [ Latitude |-> <<536870912, -648000000, 648000000>>,
    Longitude |-> <<1073741824, -1296000000, 1296000000>>,
    Elevation |-> <<131072, -262143, 786427>>,
    GndSpeed |-> <<1, 0, 131067>>,      AppSpeed |-> <<1, 0, 131067>>,
    VrtSpeed |-> <<4096, -8191, 8187>>, BearingDt |-> <<512, -1023, 1019>>,
    GndSpeedDt |-> <<2048, -4095, 4091>>,
    VrtSpeedDt |-> <<2048, -4095, 4091>>,
    Bearing |-> <<0, 0, 7199>>,         Heading |-> <<0, 0, 7200>> ]

Angles == {"Bearing", "Heading"}

StoredCourse(f, q) ==
  IF q < Scale[f][2] THEN (IF f \in Angles THEN OverflowMark ELSE 0) ELSE
  IF q > Scale[f][3] THEN OverflowMark ELSE Rounded(q) + Scale[f][1]

\* Faulty variant.
StoredErrorUnchecked(f, q) == Rounded(IF q < 0 THEN -q ELSE q)

LargestError(f) == IF Width(f) = 12 THEN 8189 ELSE 509

StoredError(f, q) ==
  LET size == IF q < 0 THEN -q ELSE q
  IN  IF size > LargestError(f) THEN OverflowMark ELSE Rounded(size)

\* setTime() keeps the time of day.
StoredTime(epoch) == Rounded(epoch % Day)

Stored(f, q) ==
  IF f = "Time" THEN StoredTime(q) ELSE
  IF f \in CourseFields THEN StoredCourse(f, q) ELSE
  IF f \in ErrorFields THEN StoredError(f, q) ELSE q

\* Faulty variant, for the mutants of the runs: no lower overflow.
ValueOnlyAbove(f, n) ==
  IF n = Undefined THEN Undefined ELSE
  IF n = OverflowMark THEN Above ELSE 2 * (n - Scale[f][1])

\* What a getter returns, in half steps.
CourseValue(f, n) ==
  IF n = Undefined THEN Undefined ELSE
  IF n = 0 /\ f \notin Angles THEN Below ELSE
  IF n = OverflowMark THEN Above ELSE 2 * (n - Scale[f][1])

ErrorValue(f, n) ==
  IF n = Undefined THEN Undefined ELSE
  IF n = OverflowMark THEN Above ELSE 2 * n

------------------------------------------------------------------------------
(* What is done with a container.                                          *)

Blank == [field |-> [f \in Fields |-> Undefined], id |-> 0, size |-> 0, held |-> 0]

Defined(c, f) == c.field[f] # Undefined

\* reset( false ): the data stays.
Cleared(c) == [Blank EXCEPT !.size = c.size, !.held = c.held]

\* allocData(): nothing to do for the size the container has already.
Allocated(c, n) ==
  LET size == IF n < MAX_DATA_SIZE THEN n ELSE MAX_DATA_SIZE
  IN  IF size = c.size THEN c ELSE [c EXCEPT !.size = size, !.held = size]

Freed(c) == [c EXCEPT !.size = 0, !.held = 0]

\* setID() keeps 127 characters.
Named(c, length) == [c EXCEPT !.id = IF length < MAX_ID_LENGTH THEN length ELSE MAX_ID_LENGTH]

\* copy() overwrites all but the data pointer, the size too, and then
\* allocates and copies the data: its size is the new one already.
Copied(to, from) ==
  LET over == [from EXCEPT !.held = to.held]
  IN  IF from.size > 0 THEN Allocated(over, from.size) ELSE Freed(over)
CopyIsSafe(to, from) == Copied(to, from).size <= Copied(to, from).held

\* Faulty variant: what is there stays.
SyncedOnce(to, from) ==
  [(IF from.size > 0 THEN Allocated(to, from.size) ELSE Freed(to)) EXCEPT
     !.field = [f \in Fields |->
                  IF Defined(to, f) THEN to.field[f] ELSE from.field[f]]]

\* sync(): what is defined replaces what is there, the data follows.
Synced(to, from) ==
  [(IF from.size > 0 THEN Allocated(to, from.size) ELSE Freed(to)) EXCEPT
     !.field = [f \in Fields |->
                  IF Defined(from, f) THEN from.field[f] ELSE to.field[f]]]

------------------------------------------------------------------------------
(* serialize(). *)

\* putBits(), byte after byte; of an undefined source type, the low bits.
Bits(width, n) ==
  [i \in 1..width |-> IF n = Undefined THEN 0 ELSE (n \div 2^(width - i)) % 2]
Flag(b) == IF b THEN 1 ELSE 0
Aligned(s) == s \o [i \in 1..((-Len(s)) % 8) |-> 0]
Bytes(n) == [i \in 1..(8 * n) |-> Opaque]
Ones(width) == [i \in 1..width |-> 1]

AllDefined(c, group) == \A f \in ToSet(group) : Defined(c, f)

\* The groups a message carries: a third dimension only with the others.
Carries(c, groups) ==
  {g \in DOMAIN groups : /\ AllDefined(c, groups[g])
                         /\ g \in ThirdDimensions => AllDefined(c, groups[g - 1])}

Extended(c) == Defined(c, "SourceType") \/ Carries(c, ErrorGroups) # {}

GroupFlags(groups, carried) == [g \in DOMAIN groups |-> Flag(g \in carried)]

\* The content flags, the ID and the data, with their sizes.
Header(c) ==
  LET long == c.size > 127
      size == Bits(7, c.size) \o <<Flag(long)>>
              \o (IF long THEN Bits(8, c.size \div 128) ELSE <<>>)
  IN  GroupFlags(CourseGroups, Carries(c, CourseGroups)) \o <<Flag(Extended(c))>>
      \o Bits(7, c.id) \o <<Flag(c.size > 0)>> \o Bytes(c.id)
      \o (IF c.size > 0 THEN size \o Bytes(c.size) ELSE <<>>)

\* The fields of the groups a message carries, in their order.
Carried(groups, carried) ==
  FlattenSeq([g \in DOMAIN groups |-> IF g \in carried THEN groups[g] ELSE <<>>])

\* An undefined time is all ones; the other fields are only written if defined,
\* but for the source type.
WriteField(c, f) ==
  IF f = "Time" /\ ~Defined(c, f) THEN Ones(23) ELSE Bits(Width(f), c.field[f])

WriteFields(c, fields) ==
  FlattenSeq([i \in DOMAIN fields |-> WriteField(c, fields[i])])

CourseSequence(c) ==
  <<"Time">> \o Carried(CourseGroups, Carries(c, CourseGroups))
ErrorSequence(c) ==
  <<"SourceType">> \o Carried(ErrorGroups, Carries(c, ErrorGroups))

Course(c) == WriteFields(c, CourseSequence(c))

ErrorFlags(c) == GroupFlags(ErrorGroups, Carries(c, ErrorGroups)) \o <<0>>

\* Faulty variant: as PROTOCOL has it.
ErrorsIfExtended(c) ==
  IF Extended(c) THEN WriteFields(c, ErrorSequence(c)) ELSE <<>>

\* The source type goes out with or without extended content.
Errors(c) == WriteFields(c, ErrorSequence(c))

Realigned(c, s) == IF Extended(c) THEN Aligned(s) \o ErrorFlags(c) ELSE s

Payload(c) == Aligned(Realigned(c, Header(c) \o Course(c)) \o Errors(c))

------------------------------------------------------------------------------
(* unserialize(). A reader is a container and how many bits it has read;   *)
(* what follows the payload in the buffer is zero.                         *)

Slice(w, at, width) ==
  [i \in 1..width |-> IF at + i \in DOMAIN w THEN w[at + i] ELSE 0]
Number(bits) ==
  LET first[n \in 0..Len(bits)] == IF n = 0 THEN 0 ELSE 2 * first[n - 1] + bits[n]
  IN  first[Len(bits)]

\* A course or error field: all ones are an overflow.
FieldOf(bits) ==
  IF \A i \in DOMAIN bits : bits[i] = 1 THEN OverflowMark ELSE Number(bits)

TimeOf(bits) == IF bits = Ones(23) THEN Undefined ELSE Number(bits)
SourceOf(bits) == IF Number(bits) = 0 THEN Undefined ELSE Number(bits)

Decoded(f, bits) ==
  IF f = "Time" THEN TimeOf(bits) ELSE
  IF f = "SourceType" THEN SourceOf(bits) ELSE FieldOf(bits)

ReadField(w, r, f) ==
  [at |-> r.at + Width(f),
   to |-> [r.to EXCEPT !.field[f] = Decoded(f, Slice(w, r.at, Width(f)))]]

Flagged(flags, groups) == Carried(groups, {g \in DOMAIN groups : flags[g] = 1})

\* The flags, then the ID and the data, into a container that keeps its data
\* pointer.
ReadHeader(w, c) ==
  LET id == Number(Slice(w, 8, 7))
      data == 16 + 8 * id
      more == w[data + 8] = 1
      size == Number(Slice(w, data, 7))
              + (IF more THEN 128 * Number(Slice(w, data + 8, 8)) ELSE 0)
      named == Named(Cleared(c), id)
  IN  IF w[16] = 0 THEN [at |-> data, to |-> Freed(named)]
      ELSE [at |-> data + (IF more THEN 16 ELSE 8) + 8 * size,
            to |-> Allocated(named, size)]

ReadFields(w, r, fields) ==
  LET after[i \in 0..Len(fields)] ==
        IF i = 0 THEN r ELSE ReadField(w, after[i - 1], fields[i])
  IN  after[Len(fields)]

ReadCourse(w, c) ==
  ReadFields(w, ReadHeader(w, c),
             <<"Time">> \o Flagged(Slice(w, 0, 7), CourseGroups))

ReadErrors(w, r) ==
  LET extended == w[8] = 1
      at == r.at + ((-r.at) % 8)
      flags == IF extended THEN Slice(w, at, 7) ELSE [g \in 1..7 |-> 0]
  IN  ReadFields(w, IF extended THEN [r EXCEPT !.at = at + 8] ELSE r,
                 <<"SourceType">> \o Flagged(flags, ErrorGroups))

\* The container, and the size or -EBADMSG.
Unserialized(w, c) ==
  LET r == ReadErrors(w, ReadCourse(w, c))
      size == (r.at + 7) \div 8
  IN  [to |-> r.to, result |-> IF 8 * size = Len(w) THEN size ELSE BadMessage]

------------------------------------------------------------------------------
(* Actions. *)

\* The container a source fills with its setters.
Filled(s) ==
  [Allocated(Named(Blank, s.id), s.size) EXCEPT
     !.field = [f \in Fields |->
                  IF f \in s.fields THEN Stored(f, Usual[f]) ELSE Undefined]]
Meaning(s) == [f \in Fields |-> IF f \in s.fields THEN Usual[f] ELSE Undefined]

Init ==
  /\ \E s \in Sources : src = Filled(s) /\ meant = Meaning(s)
  /\ pc = "source"
  /\ wire = None /\ dst = Blank /\ result = None /\ kept = None
  /\ known = [f \in Fields |-> Undefined]
  /\ odd = 0 /\ messages = 1
  /\ crashed = FALSE

\* One more setter, with a value at the end of its range.
Set(f, q) ==
  /\ pc = "source" /\ odd < MaxOdd
  /\ src' = [src EXCEPT !.field[f] = Stored(f, q)]
  /\ meant' = [meant EXCEPT ![f] = q]
  /\ odd' = odd + 1
  /\ UNCHANGED <<pc, wire, dst, result, kept, known, messages, crashed>>

Serialize ==
  /\ pc = "source"
  /\ pc' = "wire"
  /\ wire' = Payload(src)
  /\ UNCHANGED <<src, dst, result, kept, meant, known, odd, messages, crashed>>

\* known: what the message says replaces what earlier ones said.
Unserialize ==
  /\ pc = "wire"
  /\ pc' = "peer"
  /\ LET u == Unserialized(wire, dst)
     IN  dst' = u.to /\ result' = u.result
  /\ known' = [f \in Fields |->
                 IF dst'.field[f] = Undefined THEN known[f] ELSE meant[f]]
  /\ UNCHANGED <<src, wire, kept, meant, odd, messages, crashed>>

\* dataSync() of the hub: a first message of a source is copied into a new
\* container, later ones are synchronised with it.
Keep ==
  /\ pc = "peer"
  /\ pc' = "hub"
  /\ IF kept = None
     THEN /\ kept' = Copied(Blank, dst)
          /\ crashed' = ~CopyIsSafe(Blank, dst)
     ELSE kept' = Synced(kept, dst) /\ UNCHANGED crashed
  /\ UNCHANGED <<src, wire, dst, result, meant, known, odd, messages>>

\* The source's next message, in a container it resets.
Again ==
  /\ pc = "hub" /\ ~crashed /\ messages < MaxMessages
  /\ \E s \in Followers : src' = [Filled(s) EXCEPT !.id = src.id] /\ meant' = Meaning(s)
  /\ pc' = "source"
  /\ messages' = messages + 1
  /\ UNCHANGED <<wire, dst, result, kept, known, odd, crashed>>

Next ==
  \/ \E f \in Fields : \E q \in Boundaries[f] : Set(f, q)
  \/ Serialize
  \/ Unserialize
  \/ Keep
  \/ Again

Spec == Init /\ [][Next]_vars

------------------------------------------------------------------------------
(* Types. *)

\* What a field may hold.
Fits(f, n) ==
  \/ n = Undefined
  \/ f = "Time" /\ n \in 0..(Day \div 2)
  \/ f = "SourceType" /\ n \in 1..4
  \/ /\ f \in CourseFields \union ErrorFields
     /\ \/ n = OverflowMark
        \/ IF Width(f) = 31 THEN n < OverflowMark ELSE n < 2^Width(f)

IsContainer(c) == c \in Containers /\ \A f \in Fields : Fits(f, c.field[f])

\* The containers' fields always fit the bits a payload has for them, so that
\* putBits() cuts nothing (data.cpp:225-445, payload.cpp:192-370).
TypeOK ==
  /\ pc \in {"source", "wire", "peer", "hub"}
  /\ IsContainer(src) /\ IsContainer(dst) /\ (kept # None => IsContainer(kept))
  /\ wire # None => Len(wire) % 8 = 0
  /\ result \in Nat \union {None, BadMessage}
  /\ odd \in 0..MaxOdd /\ messages \in 1..MaxMessages
  /\ crashed \in BOOLEAN

------------------------------------------------------------------------------
(* Properties. *)

\* What must be defined for a field to be in a message: itself, the other
\* field of its group, and the first two dimensions of a third.
Companions(f) ==
  IF f \in {"Time", "SourceType"} THEN {f} ELSE
  {f} \union UNION
    {c \in { {"Latitude", "Longitude"}, {"Bearing", "GndSpeed"},
             {"BearingDt", "GndSpeedDt"}, {"Heading", "AppSpeed"},
             {"LatitudeError", "LongitudeError"}, {"BearingError", "GndSpeedError"},
             {"BearingDtError", "GndSpeedDtError"}, {"HeadingError", "AppSpeedError"} } :
       \/ f \in c
       \/ f = "Elevation" /\ "Latitude" \in c
       \/ f = "VrtSpeed" /\ "Bearing" \in c
       \/ f = "VrtSpeedDt" /\ "BearingDt" \in c
       \/ f = "ElevationError" /\ "LatitudeError" \in c
       \/ f = "VrtSpeedError" /\ "BearingError" \in c
       \/ f = "VrtSpeedDtError" /\ "BearingDtError" \in c}

\* The two ends agree on the layout of every payload: unserialize() reads as
\* many bytes as serialize() wrote (payload.cpp:650-655), gets the ID and the
\* data at their length, each field whose companions are there as it was
\* stored or as an overflow, and no other field.
Conveyed ==
  pc \in {"peer", "hub"} =>
    /\ result = Len(wire) \div 8
    /\ dst.id = src.id /\ dst.size = src.size
    /\ \A f \in Fields :
         IF \A c \in Companions(f) : Defined(src, c)
         THEN dst.field[f] \in {src.field[f], OverflowMark}
         ELSE dst.field[f] = Undefined

\* Whether a value read back stands for a quantity: half a step away at most,
\* an overflow for what is at the end of the range or beyond.
StandsFor(f, n, q) ==
  IF f = "SourceType" THEN n = q ELSE
  IF f = "Time" THEN 2 * n - (q % Day) \in -1..1 ELSE
  IF f \in ErrorFields
  THEN LET v == ErrorValue(f, n)
           size == IF q < 0 THEN -q ELSE q
       IN  IF v = Above THEN size >= LargestError(f) ELSE v - size \in -1..1
  ELSE LET v == CourseValue(f, n)
       IN  CASE v = Above -> q >= Scale[f][3] \/ (f \in Angles /\ q < 0)
             [] v = Below -> q < Scale[f][2]
             [] OTHER -> v - q \in -1..1

\* A quantity given to a setter of the source is read at the other end within
\* half a step, at every edge of every range (setters data.cpp:225-445,
\* getters 459-680, marks of payload.cpp:420-645).
Accurate ==
  pc \in {"peer", "hub"} =>
    \A f \in Fields : Defined(dst, f) => StandsFor(f, dst.field[f], meant[f])

\* The hub's record has, of each field, the latest quantity the source's
\* messages carried, and the data of its last message (copy() data.cpp:714,
\* sync() 738-875).
KeepsLatest ==
  (pc = "hub" /\ ~crashed) =>
    /\ kept.size = dst.size /\ kept.held >= kept.size
    /\ kept.id = dst.id
    /\ \A f \in Fields :
         /\ Defined(kept, f) <=> known[f] # Undefined
         /\ Defined(kept, f) => StandsFor(f, kept.field[f], known[f])

\* copy() writes no more bytes than the container has (data.cpp:714-736).
CopyIsComplete == ~crashed

=============================================================================
