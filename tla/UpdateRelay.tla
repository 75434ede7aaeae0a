----------------------------- MODULE UpdateRelay -----------------------------
(***************************************************************************)
(* What the hub promises about the position updates it relays, with the    *)
(* threads, the locks and the queue of HubFeed abstracted away: an update  *)
(* accepted into the internal data is pending until it has been forwarded, *)
(* and only forwarding or expiry makes it stop being news.                 *)
(***************************************************************************)

CONSTANT IDs     \* the IDs of the position sources

VARIABLES
  stored,        \* IDs that have an entry in the hub's internal data
  fresh,         \* IDs whose entry holds an update that was never forwarded
  pend           \* IDs the hub still owes a look at

vars == <<stored, fresh, pend>>

TypeOK ==
  /\ stored \subseteq IDs
  /\ fresh \subseteq IDs
  /\ pend \subseteq IDs

Init ==
  /\ stored = {}
  /\ fresh = {}
  /\ pend = {}

\* An agent's update enters the internal data (CSgctpHub::dataSync).
Accept(id) ==
  /\ stored' = stored \union {id}
  /\ fresh' = fresh \union {id}
  /\ pend' = pend \union {id}

\* The current entry of a pending ID is taken to be sent to the clients. The
\* ID remains pending when it had been announced more than once.
Forward(id) ==
  /\ id \in pend \intersect stored
  /\ fresh' = fresh \ {id}
  /\ pend' \in {pend, pend \ {id}}
  /\ UNCHANGED stored

\* A pending ID turns out to have expired.
Skip(id) ==
  /\ id \in pend \ stored
  /\ pend' \in {pend, pend \ {id}}
  /\ UNCHANGED <<stored, fresh>>

\* The clean-up drops a set of entries (CSgctpHub::dataCleanup).
Purge(S) ==
  /\ stored' = stored \ S
  /\ fresh' = fresh \ S
  /\ UNCHANGED pend

Next ==
  \/ \E id \in IDs : Accept(id) \/ Forward(id) \/ Skip(id)
  \/ \E S \in SUBSET IDs : Purge(S)

Spec == Init /\ [][Next]_vars

\* No accepted update falls through: as long as it was never forwarded and
\* has not expired, the hub still owes its ID a look.
FreshIsPending == fresh \subseteq stored \intersect pend

==============================================================================
