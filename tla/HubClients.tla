----------------------------- MODULE HubClients ------------------------------
(***************************************************************************)
(* The connections of the hub's clients (utils/sgctphub): the client RX    *)
(* thread accepts and deletes them, the client TX thread visits them to    *)
(* send each datum. What the two share is the descriptor set, its maximum  *)
(* and the map of containers; tClientDelete_mutex protects their shrinking *)
(* only. Descriptor numbers are those of the process: a closed one is      *)
(* given to the next connection accepted, an agent's as well as a client's.*)
(*                                                                         *)
(* What a datum holds and which client's filter it fits is left open.      *)
(***************************************************************************)
EXTENDS Naturals, FiniteSetsExt

CONSTANTS
  MaxFD,         \* bound of the model: the greatest descriptor number
  NoFD,          \* content of a descriptor variable not in use
  RX, TX,        \* the client RX and TX threads
  Nobody,        \* owner of a free mutex
  Remains        \* what asking a deleted container for data may come to, of
                 \* "no data", "data" and "crash"

ASSUME HubClientsAssumption ==
  /\ MaxFD \in Nat \ {0}
  /\ NoFD \notin 0..MaxFD
  /\ RX # TX /\ RX # Nobody /\ TX # Nobody

ASSUME RemainsAssumption == Remains \subseteq {"no data", "data", "crash"}

FDs == 0..MaxFD
Listener == 0            \* sdClient, opened before any connection
Connections == FDs \ {Listener}

VARIABLES
  sock,          \* what each descriptor is open on
  agents,        \* descriptors the TCP agent thread takes for its own
  agentFD,       \* the one whose container it deleted and still asks for data
  umap,          \* poSgctpHubClient_umap: no container, or its bSync
  fdset,         \* sdClient_fdset
  fdmax,         \* sdClient_max
  deleteMutex,   \* owner of tClientDelete_mutex
  rxPC,          \* where the RX thread is
  rxReady,       \* selected descriptors it has not come to (__fdset)
  rxFD,          \* the connection it is working on
  txPC,          \* where the TX thread is
  txLeft,        \* descriptors its loop has still to come to
  txFD,          \* the connection it is sending to
  txClose,       \* __sdClientClose_fdset
  due,           \* history: clients the datum being sent is owed to
  misclosed,     \* history: whether a thread closed a descriptor open on
                 \* something else than it thought, or one still in fdset
  running        \* whether the process is alive

agentVars == <<agents, agentFD>>
sharedVars == <<umap, fdset, fdmax>>
rxVars == <<rxPC, rxReady, rxFD>>
txVars == <<txPC, txLeft, txFD, txClose, due>>
vars == <<sock, agents, agentFD, umap, fdset, fdmax, deleteMutex, rxPC, rxReady, rxFD,
          txPC, txLeft, txFD, txClose, due, misclosed, running>>

------------------------------------------------------------------------------
(* Types and initial state. *)

RXBusy == {"handshake", "insert", "addSet", "input", "lockDelete", "delete",
           "deleted"}
TXPCs == {"idle", "visit", "send", "bound", "close"}

TypeOK ==
  /\ sock \in [FDs -> {"free", "listener", "client", "agent"}]
  /\ agents \subseteq Connections
  /\ agentFD \in Connections \union {NoFD}
  /\ umap \in [FDs -> {"none", "idle", "sync"}]
  /\ fdset \subseteq FDs
  /\ fdmax \in FDs
  /\ deleteMutex \in {RX, TX, Nobody}
  /\ rxPC \in {"top", "select", "scan"} \union RXBusy
  /\ rxReady \subseteq FDs
  /\ IF rxPC \in RXBusy THEN rxFD \in Connections ELSE rxFD = NoFD
  /\ txPC \in TXPCs
  /\ txLeft \subseteq FDs
  /\ IF txPC = "send" THEN txFD \in Connections ELSE txFD = NoFD
  /\ txClose \subseteq Connections
  /\ due \subseteq Connections
  /\ misclosed \in BOOLEAN
  /\ running \in BOOLEAN

Init ==
  /\ sock = [fd \in FDs |-> IF fd = Listener THEN "listener" ELSE "free"]
  /\ agents = {} /\ agentFD = NoFD
  /\ umap = [fd \in FDs |-> "none"]
  /\ fdset = {Listener}
  /\ fdmax = Listener
  /\ deleteMutex = Nobody
  /\ rxPC = "top" /\ rxReady = {} /\ rxFD = NoFD
  /\ txPC = "idle" /\ txLeft = {} /\ txFD = NoFD /\ txClose = {} /\ due = {}
  /\ misclosed = FALSE
  /\ running = TRUE

------------------------------------------------------------------------------
(* Descriptors. *)

Free == {fd \in FDs : sock[fd] = "free"}

\* accept() returns the lowest free descriptor.
Opens(fd, kind) ==
  /\ Free # {}
  /\ fd = Min(Free)
  /\ sock' = [sock EXCEPT ![fd] = kind]

\* A thread that takes the descriptor for one of its kind closes it.
Closes(fd, kind) ==
  /\ sock' = [sock EXCEPT ![fd] = "free"]
  /\ misclosed' = (misclosed \/ sock[fd] \notin {kind, "free"})

(* The TCP agent thread, as far as descriptors go. *)

AgentAccept ==
  /\ running
  /\ agentFD = NoFD
  /\ \E fd \in Connections : Opens(fd, "agent") /\ agents' = agents \union {fd}
  /\ UNCHANGED <<agentFD, sharedVars, deleteMutex, rxVars, txVars, misclosed,
                 running>>

\* Its handshake failed, or its input did: then agentTCPInput() goes on with the
\* container it has deleted.
AgentClose(fd) ==
  /\ running
  /\ agentFD = NoFD
  /\ fd \in agents
  /\ agents' = agents \ {fd}
  /\ agentFD' \in {NoFD, fd}
  /\ Closes(fd, "agent")
  /\ UNCHANGED <<sharedVars, deleteMutex, rxVars, txVars, running>>

\* The deleted container may answer that it has no data, ...
AgentDeletedHasNone ==
  /\ "no data" \in Remains
  /\ running
  /\ agentFD # NoFD
  /\ agentFD' = NoFD
  /\ UNCHANGED <<sock, agents, sharedVars, deleteMutex, rxVars, txVars,
                 misclosed, running>>

\* ... that it has: its input fails once more, and its number, which may be
\* another connection's by now, is closed again, ...
AgentDeletedHasData ==
  /\ "data" \in Remains
  /\ running
  /\ agentFD # NoFD
  /\ Closes(agentFD, "agent")
  /\ UNCHANGED <<agentVars, sharedVars, deleteMutex, rxVars, txVars, running>>

\* ... or take the process down.
AgentCrash ==
  /\ "crash" \in Remains
  /\ running
  /\ agentFD # NoFD
  /\ running' = FALSE
  /\ UNCHANGED <<sock, agentVars, sharedVars, deleteMutex, rxVars, txVars,
                 misclosed>>

------------------------------------------------------------------------------
(* The client RX thread: the loop over the selected descriptors. *)

RXGoes(from, to) ==
  /\ running
  /\ rxPC = from
  /\ rxPC' = to

\* A variable the RX thread does not touch but where it says so.
RXKeeps == UNCHANGED <<agentVars, txVars, running>>

\* select() sleeps on a copy of the set, all of whose descriptors are open.
RXSelect ==
  /\ RXGoes("top", "select")
  /\ \A fd \in fdset : sock[fd] # "free"
  /\ RXKeeps
  /\ UNCHANGED <<sock, sharedVars, deleteMutex, rxReady, rxFD, misclosed>>

\* select() fails when the set holds a closed descriptor: the error is logged
\* and the loop tries again with the same set.
RXSelectFails ==
  /\ RXGoes("top", "top")
  /\ \E fd \in fdset : sock[fd] = "free"
  /\ RXKeeps
  /\ UNCHANGED <<sock, sharedVars, deleteMutex, rxReady, rxFD, misclosed>>

RXSelected(R) ==
  /\ RXGoes("select", "scan")
  /\ R \in SUBSET fdset \ {{}}
  /\ rxReady' = R
  /\ RXKeeps
  /\ UNCHANGED <<sock, sharedVars, deleteMutex, rxFD, misclosed>>

\* The descriptors are gone through upwards, as far as the current maximum.
RXNext(fd) ==
  /\ rxReady # {}
  /\ fd = Min(rxReady)
  /\ fd <= fdmax
  /\ rxReady' = rxReady \ {fd}

RXScanned ==
  /\ RXGoes("scan", "top")
  /\ \A fd \in rxReady : fd > fdmax
  /\ rxReady' = {}
  /\ RXKeeps
  /\ UNCHANGED <<sock, sharedVars, deleteMutex, rxFD, misclosed>>

RXAccept ==
  /\ RXGoes("scan", "handshake")
  /\ RXNext(Listener)
  /\ \E fd \in Connections : Opens(fd, "client") /\ rxFD' = fd
  /\ RXKeeps
  /\ UNCHANGED <<sharedVars, deleteMutex, misclosed>>

\* accept() fails, for want of a descriptor or because the peer has gone.
RXAcceptFails ==
  /\ RXGoes("scan", "scan")
  /\ RXNext(Listener)
  /\ RXKeeps
  /\ UNCHANGED <<sock, sharedVars, deleteMutex, rxFD, misclosed>>

RXInput ==
  /\ RXGoes("scan", "input")
  /\ \E fd \in Connections :
       RXNext(fd) /\ umap[fd] # "none" /\ rxFD' = fd
  /\ RXKeeps
  /\ UNCHANGED <<sock, sharedVars, deleteMutex, misclosed>>

------------------------------------------------------------------------------
(* A new client. *)

\* The handshake was refused, timed out or broke off.
RXHandshakeFails ==
  /\ RXGoes("handshake", "scan")
  /\ Closes(rxFD, "client")
  /\ rxFD' = NoFD
  /\ RXKeeps
  /\ UNCHANGED <<sharedVars, deleteMutex, rxReady>>

RXHandshakeDone ==
  /\ RXGoes("handshake", "insert")
  /\ RXKeeps
  /\ UNCHANGED <<sock, sharedVars, deleteMutex, rxReady, rxFD, misclosed>>

\* The container is stored, without tClientDelete_mutex.
RXInsert ==
  /\ RXGoes("insert", "addSet")
  /\ umap' = [umap EXCEPT ![rxFD] = "idle"]
  /\ RXKeeps
  /\ UNCHANGED <<sock, fdset, fdmax, deleteMutex, rxReady, rxFD, misclosed>>

\* Mutant: the maximum is left as it is.
RXAddSetOnly ==
  /\ running /\ rxPC = "addSet"
  /\ fdset' = fdset \union {rxFD}
  /\ \/ rxPC' = "input" /\ UNCHANGED rxFD
     \/ rxPC' = "scan" /\ rxFD' = NoFD
  /\ RXKeeps
  /\ UNCHANGED <<sock, umap, fdmax, deleteMutex, rxReady, misclosed>>

\* Only then does the descriptor join the set. What the client sent behind its
\* handshake is handled at once.
RXAddSet ==
  /\ running /\ rxPC = "addSet"
  /\ fdset' = fdset \union {rxFD}
  /\ fdmax' = Max({fdmax, rxFD})
  /\ \/ rxPC' = "input" /\ UNCHANGED rxFD
     \/ rxPC' = "scan" /\ rxFD' = NoFD
  /\ RXKeeps
  /\ UNCHANGED <<sock, umap, deleteMutex, rxReady, misclosed>>

------------------------------------------------------------------------------
(* clientInput. *)

\* The last of the available input is handled: filter limits, or data of no
\* interest to the hub.
RXInputDone ==
  /\ RXGoes("input", "scan")
  /\ rxFD' = NoFD
  /\ RXKeeps
  /\ UNCHANGED <<sock, sharedVars, deleteMutex, rxReady, misclosed>>

\* "#START" with a valid filter.
RXStart ==
  /\ RXGoes("input", "input")
  /\ umap[rxFD] # "none"
  /\ umap' = [umap EXCEPT ![rxFD] = "sync"]
  /\ RXKeeps
  /\ UNCHANGED <<sock, fdset, fdmax, deleteMutex, rxReady, rxFD, misclosed>>

\* The client has left, failed, timed out or asked for an invalid filter.
RXInputFails ==
  /\ RXGoes("input", "lockDelete")
  /\ RXKeeps
  /\ UNCHANGED <<sock, sharedVars, deleteMutex, rxReady, rxFD, misclosed>>

\* Mutant: the deletion does not wait for the TX thread.
RXLockNothing ==
  /\ RXGoes("lockDelete", "delete")
  /\ RXKeeps
  /\ UNCHANGED <<sock, sharedVars, deleteMutex, rxReady, rxFD, misclosed>>

RXLockDelete ==
  /\ deleteMutex = Nobody
  /\ RXGoes("lockDelete", "delete")
  /\ deleteMutex' = RX
  /\ RXKeeps
  /\ UNCHANGED <<sock, sharedVars, rxReady, rxFD, misclosed>>

\* Mutant: the connection is closed and nothing else.
RXDeleteOnlyCloses ==
  /\ RXGoes("delete", "deleted")
  /\ Closes(rxFD, "client")
  /\ deleteMutex' = Nobody
  /\ RXKeeps
  /\ UNCHANGED <<sharedVars, rxReady, rxFD>>

\* The container is deleted and erased, the descriptor closed and cleared, the
\* maximum recomputed.
RXDelete ==
  /\ RXGoes("delete", "deleted")
  /\ umap' = [umap EXCEPT ![rxFD] = "none"]
  /\ Closes(rxFD, "client")
  /\ fdset' = fdset \ {rxFD}
  /\ fdmax' = IF rxFD = fdmax THEN Max(fdset \ {rxFD}) ELSE fdmax
  /\ deleteMutex' = Nobody
  /\ RXKeeps
  /\ UNCHANGED <<rxReady, rxFD>>

\* The loop now asks the deleted container whether it has more data. It may
\* answer no, answer yes (its memory still holding the half of a message), in
\* which case its input fails once more, or take the process down.
RXDeletedHasNone ==
  /\ "no data" \in Remains
  /\ RXGoes("deleted", "scan")
  /\ rxFD' = NoFD
  /\ RXKeeps
  /\ UNCHANGED <<sock, sharedVars, deleteMutex, rxReady, misclosed>>

RXDeletedHasData ==
  /\ "data" \in Remains
  /\ RXGoes("deleted", "lockDelete")
  /\ RXKeeps
  /\ UNCHANGED <<sock, sharedVars, deleteMutex, rxReady, rxFD, misclosed>>

\* So does a selected descriptor that has no container any more: it had been
\* closed by the TX thread, given to a new client and deleted, all since
\* select() returned.
RXCrash ==
  /\ running
  /\ \/ rxPC = "deleted" /\ "crash" \in Remains
     \/ rxPC = "delete" /\ umap[rxFD] = "none"
     \/ /\ rxPC = "scan" /\ rxReady # {}
        /\ Min(rxReady) <= fdmax
        /\ Min(rxReady) # Listener /\ umap[Min(rxReady)] = "none"
  /\ running' = FALSE
  /\ UNCHANGED <<sock, agentVars, sharedVars, deleteMutex, rxVars, txVars,
                 misclosed>>

------------------------------------------------------------------------------
(* The client TX thread, from the moment it has a datum to send. *)

TXGoes(from, to) ==
  /\ running
  /\ txPC = from
  /\ txPC' = to

TXKeeps == UNCHANGED <<agentVars, sharedVars, rxVars, running>>

Synchronised == {fd \in Connections : umap[fd] = "sync"}

\* Mutant: the loop begins below the maximum.
TXStartBelow ==
  /\ deleteMutex = Nobody
  /\ TXGoes("idle", "visit")
  /\ deleteMutex' = TX
  /\ txLeft' = {fd \in FDs : fd < fdmax}
  /\ due' = Synchronised
  /\ TXKeeps
  /\ UNCHANGED <<sock, txFD, txClose, misclosed>>

TXStart ==
  /\ deleteMutex = Nobody
  /\ TXGoes("idle", "visit")
  /\ deleteMutex' = TX
  /\ txLeft' = 0..fdmax
  /\ due' = Synchronised
  /\ TXKeeps
  /\ UNCHANGED <<sock, txFD, txClose, misclosed>>

\* The descriptors are gone through downwards.
TXNext(fd) ==
  /\ txLeft # {}
  /\ fd = Max(txLeft)
  /\ txLeft' = txLeft \ {fd}

TXSkip ==
  /\ TXGoes("visit", "visit")
  /\ \E fd \in FDs : TXNext(fd) /\ (fd = Listener \/ fd \notin fdset)
  /\ TXKeeps
  /\ UNCHANGED <<sock, deleteMutex, txFD, txClose, due, misclosed>>

\* The container is not synchronised, or its filter excludes the datum.
TXRefuse ==
  /\ TXGoes("visit", "visit")
  /\ \E fd \in fdset \ {Listener} :
       /\ TXNext(fd)
       /\ umap[fd] # "none"
       /\ due' = due \ {fd}
  /\ TXKeeps
  /\ UNCHANGED <<sock, deleteMutex, txFD, txClose, misclosed>>

TXChoose ==
  /\ TXGoes("visit", "send")
  /\ \E fd \in fdset \ {Listener} :
       /\ TXNext(fd)
       /\ umap[fd] = "sync"
       /\ txFD' = fd
       /\ due' = due \ {fd}
  /\ TXKeeps
  /\ UNCHANGED <<sock, deleteMutex, txClose, misclosed>>

\* The lookup finds no container and dereferences the null pointer operator[]
\* stores in its place, or it meets the RX thread's insertion into the same
\* map.
TXCrash ==
  /\ running
  /\ txPC = "visit"
  /\ \E fd \in fdset \ {Listener} :
       TXNext(fd) /\ (umap[fd] = "none" \/ rxPC = "insert")
  /\ running' = FALSE
  /\ UNCHANGED <<sock, agentVars, sharedVars, deleteMutex, rxVars, txPC, txFD,
                 txClose, due, misclosed>>

TXSend ==
  /\ TXGoes("send", "visit")
  /\ txFD' = NoFD
  /\ TXKeeps
  /\ UNCHANGED <<sock, deleteMutex, txLeft, txClose, due, misclosed>>

TXSendFails ==
  /\ TXGoes("send", "visit")
  /\ txFD' = NoFD
  /\ txClose' = txClose \union {txFD}
  /\ TXKeeps
  /\ UNCHANGED <<sock, deleteMutex, txLeft, due, misclosed>>

\* Mutant: the mutex stays locked.
TXUnlockForgotten ==
  /\ txLeft = {}
  /\ TXGoes("visit", "bound")
  /\ TXKeeps
  /\ UNCHANGED <<sock, deleteMutex, txLeft, txFD, txClose, due, misclosed>>

TXUnlock ==
  /\ txLeft = {}
  /\ TXGoes("visit", "bound")
  /\ deleteMutex' = Nobody
  /\ TXKeeps
  /\ UNCHANGED <<sock, txLeft, txFD, txClose, due, misclosed>>

\* The closing loop, without the mutex, begins at what the maximum is by now.
TXBound ==
  /\ TXGoes("bound", "close")
  /\ txClose' = {fd \in txClose : fd <= fdmax}
  /\ TXKeeps
  /\ UNCHANGED <<sock, deleteMutex, txLeft, txFD, due, misclosed>>

\* The descriptor is closed, unless the RX thread was faster. The set, the map and
\* the container keep it.
TXClose ==
  /\ TXGoes("close", "close")
  /\ txClose # {}
  /\ txClose' = txClose \ {Max(txClose)}
  /\ sock' = [sock EXCEPT ![Max(txClose)] = "free"]
  /\ misclosed' = (misclosed \/ sock[Max(txClose)] # "free")
  /\ UNCHANGED <<agentVars, sharedVars, deleteMutex, rxVars, txLeft, txFD, due,
                 running>>

TXDone ==
  /\ txClose = {}
  /\ TXGoes("close", "idle")
  /\ TXKeeps
  /\ UNCHANGED <<sock, deleteMutex, txLeft, txFD, txClose, due, misclosed>>

------------------------------------------------------------------------------
(* The specification. *)

\* A step the RX thread takes by itself, once select() has returned.
RXSteps ==
  \/ RXSelect \/ RXScanned \/ RXAccept \/ RXAcceptFails \/ RXInput
  \/ RXHandshakeFails \/ RXHandshakeDone \/ RXInsert \/ RXAddSet
  \/ RXInputDone \/ RXInputFails
  \/ RXDelete \/ RXDeletedHasNone \/ RXDeletedHasData

TXSteps ==
  \/ TXSkip \/ TXRefuse \/ TXChoose \/ TXUnlock \/ TXBound \/ TXClose \/ TXDone

\* Nothing leaves a process that has died.
Halted == ~running /\ UNCHANGED vars

Next ==
  \/ AgentAccept \/ \E fd \in Connections : AgentClose(fd)
  \/ AgentDeletedHasNone \/ AgentDeletedHasData \/ AgentCrash
  \/ \E R \in SUBSET FDs : RXSelected(R)
  \/ RXSelectFails \/ RXStart \/ RXLockDelete \/ RXSteps \/ RXCrash
  \/ TXStart \/ TXSend \/ TXSendFails \/ TXSteps \/ TXCrash
  \/ Halted

Spec == Init /\ [][Next]_vars

\* A running thread is scheduled again and a mutex released again and again is
\* eventually obtained; the RX thread's reads end by the timeout of three
\* seconds. A send has no timeout: nothing makes it return.
Fairness ==
  /\ WF_vars(RXSteps) /\ SF_vars(RXLockDelete)
  /\ WF_vars(TXSteps)

FairSpec == Spec /\ Fairness

------------------------------------------------------------------------------
(* What a datum's turn is to the clients. *)

Turn ==
  IF ~running THEN "over" ELSE
  IF txPC \in {"visit", "send"} THEN "offering" ELSE "between"

Turns == INSTANCE Dispatch WITH
  Clients <- Connections, None <- NoFD,
  synced <- Synchronised, turn <- Turn, sound <- ~misclosed,
  todo <- IF Turn = "offering" THEN due ELSE {},
  may <- IF Turn = "offering" THEN txLeft \ {Listener} ELSE {},
  target <- IF Turn = "offering" THEN txFD ELSE NoFD

------------------------------------------------------------------------------
(* Properties. *)

\* The TX thread is inside its locked loop, or the RX thread inside a
\* deletion, exactly when it owns the mutex.
DeletionExcluded ==
  /\ txPC \in {"visit", "send"} <=> deleteMutex = TX
  /\ rxPC = "delete" <=> deleteMutex = RX

\* A descriptor in the set has a container and none else has, but for the one
\* the RX thread is about to add: so the TX thread, which reads both while the
\* RX thread adds clients unlocked, never finds a null container, whatever
\* happened to the descriptors themselves. Nor does the RX thread among those
\* selected, as long as none was closed behind its owner's back.
SetMatchesMap ==
  LET contained == {fd \in FDs : umap[fd] # "none"}
      adding == IF rxPC = "addSet" THEN {rxFD} ELSE {}
  IN /\ fdset \ {Listener} \subseteq contained
     /\ contained \subseteq fdset \union adding
     /\ ~misclosed => rxReady \ {Listener} \subseteq contained

\* The container the TX thread is sending from is not deleted meanwhile.
SendsFromLiveContainer ==
  txPC = "send" => umap[txFD] # "none" /\ txFD \in fdset

\* The maximum that bounds select() and every loop leaves no client out.
MaxCovers == fdmax = Max(fdset)

\* The set, its maximum, the map and the mutex fit together.
Consistent == TypeOK /\ DeletionExcluded /\ SetMatchesMap /\ MaxCovers

\* The two threads implement Dispatch: a datum is offered once to each client
\* synchronised when its turn began, none of which is deleted meanwhile, unless
\* a descriptor was closed behind its owner's back (main.cpp:1315-1411).
DispatchSpec == Turns!Spec

\* As long as no thread has closed a descriptor behind its owner's back, a
\* datum is sent to the client it is meant for: not to a closed socket, not to
\* an agent, not to a client still in its handshake.
ReachesClient ==
  /\ sock[txFD] = "client"
  /\ ~(rxPC \in {"handshake", "insert"} /\ rxFD = txFD)

SendsReachClient == txPC = "send" /\ ~misclosed => ReachesClient

\* Unless a send blocks for ever or the process dies, the RX thread obtains the
\* mutex and a client that left is deleted.
DeletionProceeds ==
  []<>(txPC # "send") => (rxPC = "lockDelete" ~> rxPC # "lockDelete" \/ ~running)

\* Unless a send blocks for ever, neither thread withholds the mutex for ever.
MutexReturns ==
  []<>(txPC # "send") => []<>(deleteMutex = Nobody \/ ~running)

\* The two together.
Progress == DeletionProceeds /\ MutexReturns

\* What the TX thread sends to an open connection goes to the client it is meant
\* for. The code does not keep this: TXClose leaves the descriptor it closed in
\* the set, and the number is given to the next connection.
NeverReachesAnother ==
  txPC = "send" /\ sock[txFD] # "free" => ReachesClient

==============================================================================
