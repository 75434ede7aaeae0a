------------------------------ MODULE Dispatch -------------------------------
(***************************************************************************)
(* What the hub promises its clients about each datum, with the            *)
(* descriptors, their set, its maximum, the map and the mutex of           *)
(* HubClients abstracted away: the datum is offered once to each client    *)
(* synchronised when its turn began, and none of them is deleted before    *)
(* the turn is over - unless a descriptor was closed behind its owner's    *)
(* back (TXClose), from when on a client may be replaced during a turn.    *)
(***************************************************************************)

CONSTANTS
  Clients,       \* whoever may be a client
  None           \* target of no send

VARIABLES
  synced,        \* the synchronised clients
  turn,          \* between data, offering one, or over with the process
  todo,          \* clients the datum is owed to
  may,           \* clients it has not been offered yet
  target,        \* the client it is being sent to
  sound          \* whether descriptors are as their owners think

vars == <<synced, turn, todo, may, target, sound>>

Init ==
  /\ synced = {}
  /\ turn = "between" /\ todo = {} /\ may = {} /\ target = None
  /\ sound = TRUE

\* A client sends "#START", during a turn as well: the datum is not owed to it.
Join(c) ==
  /\ turn # "over"
  /\ synced' = synced \union {c}
  /\ UNCHANGED <<turn, todo, may, target, sound>>

\* A client is deleted, or its container replaced.
Leave(c) ==
  /\ turn = "between" \/ (turn = "offering" /\ ~sound)
  /\ synced' = synced \ {c}
  /\ sound' \in {sound, FALSE}
  /\ UNCHANGED <<turn, todo, may, target>>

Misclose ==
  /\ turn # "over"
  /\ sound' = FALSE
  /\ UNCHANGED <<synced, turn, todo, may, target>>

Begin ==
  /\ turn = "between"
  /\ turn' = "offering"
  /\ todo' = synced
  /\ may' \in {M \in SUBSET Clients : synced \subseteq M}
  /\ UNCHANGED <<synced, target, sound>>

Offers(c) ==
  /\ turn = "offering" /\ target = None
  /\ c \in may
  /\ may' = may \ {c}
  /\ todo' = todo \ {c}

Send(c) ==
  /\ Offers(c)
  /\ c \in synced
  /\ target' = c
  /\ UNCHANGED <<synced, turn, sound>>

\* The client's filter excludes the datum.
Withhold(c) ==
  /\ Offers(c)
  /\ sound => c \in synced
  /\ UNCHANGED <<synced, turn, target, sound>>

\* Nobody the datum is owed to.
Pass(c) ==
  /\ Offers(c)
  /\ c \notin todo
  /\ UNCHANGED <<synced, turn, target, sound>>

Sent ==
  /\ turn = "offering" /\ target # None
  /\ target' = None
  /\ UNCHANGED <<synced, turn, todo, may, sound>>

Finish ==
  /\ turn = "offering" /\ target = None
  /\ todo = {}
  /\ turn' = "between" /\ may' = {}
  /\ UNCHANGED <<synced, todo, target, sound>>

\* The process ends.
Die ==
  /\ turn # "over"
  /\ turn' = "over" /\ todo' = {} /\ may' = {} /\ target' = None
  /\ UNCHANGED <<synced, sound>>

Next ==
  \/ \E c \in Clients :
       Join(c) \/ Leave(c) \/ Send(c) \/ Withhold(c) \/ Pass(c)
  \/ Begin \/ Sent \/ Finish \/ Misclose \/ Die

Spec == Init /\ [][Next]_vars

\* Whoever is owed the datum has not been offered it yet and, as long as
\* descriptors are as their owners think, is still there, as is the client a
\* send is going to (main.cpp:1349-1398).
OwedAreThere ==
  /\ turn # "offering" => todo = {} /\ target = None
  /\ todo \subseteq may
  /\ sound => todo \subseteq synced /\ (target # None => target \in synced)

==============================================================================
