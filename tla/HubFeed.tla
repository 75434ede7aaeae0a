------------------------------- MODULE HubFeed -------------------------------
(***************************************************************************)
(* The path of a position update through the hub (utils/sgctphub): agent   *)
(* threads receive updates, merge them into the internal data and queue    *)
(* the updated ID; the client TX thread waits on a condition variable,     *)
(* drains the queue and takes a copy of the current data to send it to the *)
(* clients; the data thread periodically drops expired entries.            *)
(*                                                                         *)
(* Every pthread call is a step. The code between two of them is a step of *)
(* its own where another thread could see its intermediate state, so that  *)
(* a lookup and the use of what it found are separate steps. A local       *)
(* variable that is dead is reset.                                         *)
(*                                                                         *)
(* tClientTX_mutex is left out: the TX thread alone ever locks it, so the  *)
(* only effect of pthread_cond_wait on it is to let the thread sleep.      *)
(***************************************************************************)
EXTENDS Naturals, Sequences, Functions

CONSTANTS
  Agents,        \* the agent threads (agentUDPThread, agentTCPThread)
  UDPAgents,     \* those of them that end on an empty datagram
  IDs,           \* the IDs of the position sources
  MaxQueue,      \* bound of the model on the number of queued IDs
  TX,            \* the client TX thread
  Cleaner,       \* the data thread
  Nobody,        \* owner of a free mutex
  NoID           \* content of an ID variable that is not set yet

ASSUME HubFeedAssumption ==
  /\ UDPAgents \subseteq Agents
  /\ MaxQueue \in Nat
  /\ NoID \notin IDs
  /\ {TX, Cleaner, Nobody} \intersect Agents = {}
  /\ TX # Cleaner /\ TX # Nobody /\ Cleaner # Nobody

VARIABLES
  agentPC,       \* where each agent thread is
  agentID,       \* the ID of the update an agent thread is handling
  txPC,          \* where the TX thread is
  txID,          \* the ID the TX thread has popped (__sID)
  waiting,       \* whether the TX thread is blocked on tClientTX_cond
  cleanerPC,     \* where the data thread is
  keys,          \* the IDs the data thread is about to examine (__vsKeys)
  stored,        \* the IDs in poSgctpHubData_umap
  fresh,         \* history: IDs whose entry changed since TX last copied it
  queue,         \* sSyncID_queue
  dataMutex,     \* owner of tSgctpHubData_mutex
  syncMutex      \* owner of tSyncID_mutex

agentVars == <<agentPC, agentID>>
txVars == <<txPC, txID>>
cleanerVars == <<cleanerPC, keys>>
vars == <<agentPC, agentID, txPC, txID, waiting, cleanerPC, keys,
          stored, fresh, queue, dataMutex, syncMutex>>

------------------------------------------------------------------------------
(* Types and initial state. *)

AgentPCs == {"receive", "lockData", "find", "create", "sync", "lockQueue",
             "push", "signal", "exited"}
TXPCs == {"top", "waiting", "lockQueue", "pop", "lockData", "find", "copy",
          "dispatch"}
CleanerPCs == {"sleep", "collect", "erase"}

TypeOK ==
  /\ agentPC \in [Agents -> AgentPCs]
  /\ agentID \in [Agents -> IDs \union {NoID}]
  /\ \A a \in Agents :
       agentPC[a] \notin {"receive", "exited"} => agentID[a] \in IDs
  /\ txPC \in TXPCs
  /\ txID \in IDs \union {NoID}
  /\ txPC \in {"lockData", "find", "copy", "dispatch"} => txID \in IDs
  /\ waiting \in BOOLEAN
  /\ cleanerPC \in CleanerPCs
  /\ keys \subseteq IDs
  /\ stored \subseteq IDs
  /\ fresh \subseteq IDs
  /\ queue \in Seq(IDs)
  /\ dataMutex \in Agents \union {TX, Cleaner, Nobody}
  /\ syncMutex \in Agents \union {TX, Nobody}

Init ==
  /\ agentPC = [a \in Agents |-> "receive"]
  /\ agentID = [a \in Agents |-> NoID]
  /\ txPC = "top"
  /\ txID = NoID
  /\ waiting = FALSE
  /\ cleanerPC = "sleep"
  /\ keys = {}
  /\ stored = {}
  /\ fresh = {}
  /\ queue = <<>>
  /\ dataMutex = Nobody
  /\ syncMutex = Nobody

------------------------------------------------------------------------------
(* Agent threads. *)

AgentGoes(a, from, to) ==
  /\ agentPC[a] = from
  /\ agentPC' = [agentPC EXCEPT ![a] = to]

\* unserialize() returns an update. A failed unserialize() changes nothing
\* here: the thread goes back to receiving.
AgentReceive(a, id) ==
  /\ Len(queue) < MaxQueue
  /\ AgentGoes(a, "receive", "lockData")
  /\ agentID' = [agentID EXCEPT ![a] = id]
  /\ UNCHANGED <<txVars, waiting, cleanerVars, stored, fresh, queue,
                 dataMutex, syncMutex>>

\* unserialize() returns 0 on an empty datagram, which ends the UDP thread.
AgentExit(a) ==
  /\ a \in UDPAgents
  /\ AgentGoes(a, "receive", "exited")
  /\ UNCHANGED <<agentID, txVars, waiting, cleanerVars, stored, fresh,
                 queue, dataMutex, syncMutex>>

AgentLockData(a) ==
  /\ dataMutex = Nobody
  /\ AgentGoes(a, "lockData", "find")
  /\ dataMutex' = a
  /\ UNCHANGED <<agentID, txVars, waiting, cleanerVars, stored, fresh,
                 queue, syncMutex>>

\* dataSync: poSgctpHubData_umap.find tells a new source from a known one.
AgentFind(a) ==
  /\ AgentGoes(a, "find", IF agentID[a] \in stored THEN "sync" ELSE "create")
  /\ UNCHANGED <<agentID, txVars, waiting, cleanerVars, stored, fresh, queue,
                 dataMutex, syncMutex>>

\* dataSync: a new container is stored, and dataSync returns true.
AgentCreate(a) ==
  /\ AgentGoes(a, "create", "lockQueue")
  /\ stored' = stored \union {agentID[a]}
  /\ fresh' = fresh \union {agentID[a]}
  /\ dataMutex' = Nobody
  /\ UNCHANGED <<agentID, txVars, waiting, cleanerVars, queue,
                 syncMutex>>

\* Mutant: what sync() returns is not passed on.
AgentSyncSilently(a) ==
  /\ AgentGoes(a, "sync", "receive")
  /\ fresh' = fresh \union {agentID[a]}
  /\ agentID' = [agentID EXCEPT ![a] = NoID]
  /\ dataMutex' = Nobody
  /\ UNCHANGED <<txVars, waiting, cleanerVars, stored, queue, syncMutex>>

\* dataSync: the existing container takes the update's fields.
AgentSync(a) ==
  /\ AgentGoes(a, "sync", "lockQueue")
  /\ fresh' = fresh \union {agentID[a]}
  /\ dataMutex' = Nobody
  /\ UNCHANGED <<agentID, txVars, waiting, cleanerVars, stored, queue,
                 syncMutex>>

\* dataSync: the update is throttled, too near, or has no defined field.
AgentDiscard(a) ==
  /\ AgentGoes(a, "sync", "receive")
  /\ agentID' = [agentID EXCEPT ![a] = NoID]
  /\ dataMutex' = Nobody
  /\ UNCHANGED <<txVars, waiting, cleanerVars, stored, fresh,
                 queue, syncMutex>>

AgentLockQueue(a) ==
  /\ syncMutex = Nobody
  /\ AgentGoes(a, "lockQueue", "push")
  /\ syncMutex' = a
  /\ UNCHANGED <<agentID, txVars, waiting, cleanerVars, stored, fresh,
                 queue, dataMutex>>

\* Mutant: no push when something is queued already.
AgentPushIfEmpty(a) ==
  /\ AgentGoes(a, "push", "signal")
  /\ queue' = IF queue = <<>> THEN <<agentID[a]>> ELSE queue
  /\ syncMutex' = Nobody
  /\ UNCHANGED <<agentID, txVars, waiting, cleanerVars, stored, fresh,
                 dataMutex>>

AgentPush(a) ==
  /\ AgentGoes(a, "push", "signal")
  /\ queue' = Append(queue, agentID[a])
  /\ syncMutex' = Nobody
  /\ UNCHANGED <<agentID, txVars, waiting, cleanerVars, stored, fresh,
                 dataMutex>>

\* Mutant: the signal goes to another condition variable.
AgentSignalElsewhere(a) ==
  /\ AgentGoes(a, "signal", "receive")
  /\ agentID' = [agentID EXCEPT ![a] = NoID]
  /\ UNCHANGED <<txVars, waiting, cleanerVars, stored, fresh, queue,
                 dataMutex, syncMutex>>

\* pthread_cond_signal, called without tClientTX_mutex: it wakes the TX
\* thread if it is blocked at this moment, and is forgotten otherwise.
AgentSignal(a) ==
  /\ AgentGoes(a, "signal", "receive")
  /\ agentID' = [agentID EXCEPT ![a] = NoID]
  /\ waiting' = FALSE
  /\ UNCHANGED <<txVars, cleanerVars, stored, fresh, queue,
                 dataMutex, syncMutex>>

------------------------------------------------------------------------------
(* The client TX thread. *)

TXGoes(from, to) ==
  /\ txPC = from
  /\ txPC' = to

\* pthread_cond_wait blocks at once, whatever the queue holds.
TXWait ==
  /\ TXGoes("top", "waiting")
  /\ waiting' = TRUE
  /\ UNCHANGED <<agentVars, txID, cleanerVars, stored, fresh, queue,
                 dataMutex, syncMutex>>

TXWake ==
  /\ ~waiting
  /\ TXGoes("waiting", "lockQueue")
  /\ UNCHANGED <<agentVars, txID, waiting, cleanerVars, stored, fresh, queue,
                 dataMutex, syncMutex>>

\* POSIX lets pthread_cond_wait return without a signal.
TXSpuriousWake ==
  /\ waiting
  /\ TXGoes("waiting", "lockQueue")
  /\ waiting' = FALSE
  /\ UNCHANGED <<agentVars, txID, cleanerVars, stored, fresh, queue,
                 dataMutex, syncMutex>>

TXLockQueue ==
  /\ syncMutex = Nobody
  /\ TXGoes("lockQueue", "pop")
  /\ syncMutex' = TX
  /\ UNCHANGED <<agentVars, txID, waiting, cleanerVars, stored, fresh, queue,
                 dataMutex>>

TXEmpty ==
  /\ queue = <<>>
  /\ TXGoes("pop", "top")
  /\ syncMutex' = Nobody
  /\ UNCHANGED <<agentVars, txID, waiting, cleanerVars, stored, fresh, queue,
                 dataMutex>>

TXPop ==
  /\ queue # <<>>
  /\ TXGoes("pop", "lockData")
  /\ txID' = Head(queue)
  /\ queue' = Tail(queue)
  /\ syncMutex' = Nobody
  /\ UNCHANGED <<agentVars, waiting, cleanerVars, stored, fresh, dataMutex>>

TXLockData ==
  /\ dataMutex = Nobody
  /\ TXGoes("lockData", "find")
  /\ dataMutex' = TX
  /\ UNCHANGED <<agentVars, txID, waiting, cleanerVars, stored, fresh, queue,
                 syncMutex>>

\* Mutant: the data mutex stays locked on the early continue.
TXMissingKeepsLock ==
  /\ txID \notin stored
  /\ TXGoes("find", "lockQueue")
  /\ txID' = NoID
  /\ UNCHANGED <<agentVars, waiting, cleanerVars, stored, fresh, queue,
                 dataMutex, syncMutex>>

\* The entry expired since its ID was queued.
TXMissing ==
  /\ txID \notin stored
  /\ TXGoes("find", "lockQueue")
  /\ txID' = NoID
  /\ dataMutex' = Nobody
  /\ UNCHANGED <<agentVars, waiting, cleanerVars, stored, fresh, queue,
                 syncMutex>>

TXFind ==
  /\ txID \in stored
  /\ TXGoes("find", "copy")
  /\ UNCHANGED <<agentVars, txID, waiting, cleanerVars, stored, fresh, queue,
                 dataMutex, syncMutex>>

TXCopy ==
  /\ TXGoes("copy", "dispatch")
  /\ fresh' = fresh \ {txID}
  /\ dataMutex' = Nobody
  /\ UNCHANGED <<agentVars, txID, waiting, cleanerVars, stored, queue,
                 syncMutex>>

\* The copy is sent to every synchronised client whose filter it fits
\* (module HubClients has this part in detail).
TXDispatch ==
  /\ TXGoes("dispatch", "lockQueue")
  /\ txID' = NoID
  /\ UNCHANGED <<agentVars, waiting, cleanerVars, stored, fresh, queue,
                 dataMutex, syncMutex>>

------------------------------------------------------------------------------
(* The data thread. *)

CleanerGoes(from, to) ==
  /\ cleanerPC = from
  /\ cleanerPC' = to

\* Mutant: the clean-up does not lock the data.
CleanerLockNothing ==
  /\ CleanerGoes("sleep", "collect")
  /\ UNCHANGED <<agentVars, txVars, waiting, keys, stored, fresh, queue,
                 dataMutex, syncMutex>>

CleanerLock ==
  /\ dataMutex = Nobody
  /\ CleanerGoes("sleep", "collect")
  /\ dataMutex' = Cleaner
  /\ UNCHANGED <<agentVars, txVars, waiting, keys, stored, fresh, queue,
                 syncMutex>>

CleanerCollect ==
  /\ CleanerGoes("collect", "erase")
  /\ keys' = stored
  /\ UNCHANGED <<agentVars, txVars, waiting, stored, fresh, queue, dataMutex,
                 syncMutex>>

\* Which of the collected entries are older than iDataTTL is left open (module
\* HubData has their age).
CleanerErase(S) ==
  /\ S \subseteq keys
  /\ CleanerGoes("erase", "sleep")
  /\ keys' = {}
  /\ stored' = stored \ S
  /\ fresh' = fresh \ S
  /\ dataMutex' = Nobody
  /\ UNCHANGED <<agentVars, txVars, waiting, queue, syncMutex>>

------------------------------------------------------------------------------
(* The specification. *)

AgentLocks(a) == AgentLockData(a) \/ AgentLockQueue(a)

AgentSteps(a) ==
  \/ AgentFind(a) \/ AgentCreate(a) \/ AgentSync(a) \/ AgentDiscard(a)
  \/ AgentPush(a) \/ AgentSignal(a)

TXLocks == TXLockQueue \/ TXLockData

TXSteps ==
  \/ TXWait \/ TXWake \/ TXEmpty \/ TXPop
  \/ TXMissing \/ TXFind \/ TXCopy

CleanerSteps == CleanerCollect \/ \E S \in SUBSET IDs : CleanerErase(S)

Next ==
  \/ \E a \in Agents :
       \/ \E id \in IDs : AgentReceive(a, id)
       \/ AgentExit(a) \/ AgentLocks(a) \/ AgentSteps(a)
  \/ TXLocks \/ TXSteps \/ TXSpuriousWake \/ TXDispatch
  \/ CleanerLock \/ CleanerSteps

Spec == Init /\ [][Next]_vars

\* A running thread is scheduled again, and a mutex released again and again is
\* eventually obtained. Nothing makes an agent send another update, the clean-up
\* come due, or a wait return early; nor does anything end a dispatch: the
\* sends to the clients have no timeout.
Fairness ==
  /\ \A a \in Agents : SF_vars(AgentLocks(a)) /\ WF_vars(AgentSteps(a))
  /\ SF_vars(TXLocks) /\ WF_vars(TXSteps)
  /\ WF_vars(CleanerSteps)

FairSpec == Spec /\ Fairness

------------------------------------------------------------------------------
(* Properties. *)

AgentHoldsData(a) == agentPC[a] \in {"find", "create", "sync"}
AgentHoldsQueue(a) == agentPC[a] = "push"
TXHoldsData == txPC \in {"find", "copy"}
TXHoldsQueue == txPC = "pop"
CleanerHoldsData == cleanerPC \in {"collect", "erase"}

\* A thread inside a critical section owns its mutex, and a thread outside
\* owns none: no thread is ever inside together with another, and none
\* leaves through an early return (the missing ID, the empty queue, the
\* discarded update) with a mutex still locked.
MutexOwners ==
  /\ \A a \in Agents : AgentHoldsData(a) <=> dataMutex = a
  /\ TXHoldsData <=> dataMutex = TX
  /\ CleanerHoldsData <=> dataMutex = Cleaner
  /\ \A a \in Agents : AgentHoldsQueue(a) <=> syncMutex = a
  /\ TXHoldsQueue <=> syncMutex = TX

\* The types, and the ownership of the mutexes they are read with.
Consistent == TypeOK /\ MutexOwners

\* What a thread looked up in the internal data still holds when it uses it:
\* an agent writes through the iterator of its find, TX and the data thread
\* dereference poSgctpHubData_umap[ID] after testing or collecting the ID.
\* Were it not so, the hub would store two containers for one ID, write into
\* a deleted one or dereference a null one.
LookupStillHolds ==
  /\ \A a \in Agents :
       /\ agentPC[a] = "create" => agentID[a] \notin stored
       /\ agentPC[a] = "sync" => agentID[a] \in stored
  /\ txPC = "copy" => txID \in stored
  /\ cleanerPC = "erase" => keys \subseteq stored

\* The IDs on their way to the copy: with an agent that has stored the update
\* but not queued it, in the queue, or popped by TX and not copied yet.
Pending ==
  {agentID[a] : a \in {b \in Agents : agentPC[b] \in {"lockQueue", "push"}}}
    \union Range(queue)
    \union (IF txPC \in {"lockData", "find", "copy"} THEN {txID} ELSE {})

\* No lost update: an update that was stored and that TX never copied is
\* stored still and its ID on its way, whatever the agents, the clean-up and
\* TX did to the same ID in between.
NoLostUpdate == fresh \subseteq stored \intersect Pending

\* The hub implements the relay.
Relay == INSTANCE UpdateRelay WITH pend <- Pending
RelaySpec == Relay!Spec

\* Unless a dispatch blocks for ever on a client that does not read.
DispatchesEnd == []<>(txPC # "dispatch")

\* Unless a dispatch blocks for ever, a queued update is copied for the clients
\* (or expires), except while the TX thread is on its way from its last look
\* at the queue to its wait, or waits and no agent is about to signal: once
\* awake, it drains the queue, in the order of the pushes, whatever is pushed
\* meanwhile (main.cpp:1319-1345).
QueuedIsForwarded ==
  DispatchesEnd =>
    \A id \in IDs :
      /\ id \in fresh \intersect Range(queue)
      /\ txPC # "top"
      /\ waiting => \E a \in Agents : agentPC[a] = "signal"
      ~> id \notin fresh

\* An agent that received an update gets back to receiving, whatever becomes of
\* a dispatch: neither mutex is withheld for ever and no thread waits for the
\* other.
AgentReturns ==
  \A a \in Agents : (agentPC[a] = "lockData") ~> (agentPC[a] = "receive")

\* The agents get on, and so does what they brought.
Progress == AgentReturns /\ QueuedIsForwarded

\* Unless a dispatch blocks for ever, every stored update is eventually copied
\* for the clients (or expires), the last one before a lull included. The signal
\* that announces it can fall between TX's last look at the queue and its wait,
\* so that the code does not keep this.
EventuallyForwarded ==
  DispatchesEnd => \A id \in IDs : (id \in fresh) ~> (id \notin fresh)

==============================================================================
