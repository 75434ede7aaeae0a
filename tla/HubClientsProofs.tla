--------------------------- MODULE HubClientsProofs ---------------------------
(***************************************************************************)
(* Proofs about HubClients, for any number of descriptors: its types, the  *)
(* exclusion of deletion and sending, the agreement of the descriptor set, *)
(* its maximum and the map, and what a datum is sent to.                   *)
(***************************************************************************)
EXTENDS HubClients, WellFoundedInduction, TLAPS

------------------------------------------------------------------------------
(* The inductive invariant. *)

\* The maximum, by what it is used for.
Covers == fdmax \in fdset /\ \A fd \in fdset : fd <= fdmax

\* Unless a thread closed a descriptor behind its owner's back: a container is
\* that of an open client, an agent's descriptor is open on an agent and is not
\* the one just closed, the connection being accepted has no container yet, and
\* the one the RX thread works on is not among those it still has to come to.
Sockets ==
  ~misclosed =>
    /\ \A fd \in FDs : umap[fd] # "none" => sock[fd] = "client"
    /\ agentFD \notin agents /\ \A fd \in agents : sock[fd] = "agent"
    /\ rxPC \in {"handshake", "insert"} =>
         sock[rxFD] = "client" /\ umap[rxFD] = "none"
    /\ rxPC \in RXBusy => rxFD \notin rxReady

\* The clients owed the datum are in the set and still to be visited; the
\* connection about to join the set has a container not yet synchronised.
Visits ==
  /\ running /\ txPC \in {"visit", "send"} =>
       due \subseteq txLeft /\ due \subseteq fdset
  /\ txPC \in {"bound", "close"} => due = {}
  /\ rxPC = "addSet" => umap[rxFD] = "idle"

IInv ==
  /\ TypeOK /\ DeletionExcluded /\ SetMatchesMap
  /\ Listener \in fdset /\ Covers
  /\ SendsFromLiveContainer /\ Sockets /\ Visits

------------------------------------------------------------------------------
(* Descriptors. *)

\* A descriptor is a natural number, and the listener's is one.
LEMMA FDsAreNaturals ==
  /\ FDs \subseteq Nat /\ Connections \subseteq FDs
  /\ Listener \in FDs /\ Listener \notin Connections
  /\ NoFD \notin FDs
BY HubClientsAssumption DEF FDs, Connections, Listener

\* A pair of natural numbers in their order.
Less == {p \in Nat \X Nat : p[1] < p[2]}

\* A set of natural numbers has a least element.
LEMMA LeastNatural ==
  ASSUME NEW S \in SUBSET Nat, S # {}
  PROVE  \E x \in S : \A y \in S : x <= y
<1>1. IsWellFoundedOn(Less, Nat)
  BY NatLessThanWellFounded DEF OpToRel, Less
<1>2. PICK x \in S : \A y \in S : <<y, x>> \notin Less
  BY <1>1, WFMin
<1>3. \A y \in S : y < x => <<y, x>> \in Less
  BY DEF Less
<1>4. \A y \in S : ~(y < x)
  BY <1>2, <1>3
<1> QED
  BY <1>4

\* Min finds the smallest of some descriptors.
LEMMA MinOfFDs ==
  ASSUME NEW S \in SUBSET FDs, S # {}
  PROVE  Min(S) \in S /\ \A x \in S : Min(S) <= x
<1>1. \E x \in S : \A y \in S : x <= y
  BY FDsAreNaturals, LeastNatural
<1> QED
  BY <1>1 DEF Min

\* Max finds the greatest of some descriptors.
LEMMA MaxOfFDs ==
  ASSUME NEW S \in SUBSET FDs, S # {}
  PROVE  Max(S) \in S /\ \A x \in S : x <= Max(S)
<1> DEFINE T == {MaxFD - x : x \in S}
<1>1. T \in SUBSET Nat /\ T # {}
  <2>1. \A x \in S : MaxFD - x \in Nat
    BY HubClientsAssumption DEF FDs
  <2> QED
    BY <2>1
<1>2. PICK m \in T : \A y \in T : m <= y
  BY <1>1, LeastNatural
<1>3. \E x \in S : \A y \in S : x >= y
  <2>1. PICK x \in S : m = MaxFD - x
    BY DEF T
  <2>2. \A y \in S : MaxFD - x <= MaxFD - y
    BY <1>2, <2>1
  <2> QED
    BY <2>2, HubClientsAssumption DEF FDs
<1>4. Max(S) \in S /\ \A y \in S : Max(S) >= y
  BY <1>3 DEF Max
<1> QED
  BY <1>4, FDsAreNaturals

------------------------------------------------------------------------------
(* Types. *)

\* A step leaves every variable in its type.
LEMMA TypeStep ==
  ASSUME TypeOK, Listener \in fdset, Covers, [Next]_vars
  PROVE  TypeOK'
<1> USE FDsAreNaturals DEF TypeOK, RXBusy, TXPCs,
        RXGoes, RXKeeps, TXGoes, TXKeeps, sharedVars, agentVars, rxVars, txVars
<1>1. ASSUME AgentAccept
      PROVE  TypeOK'
  BY <1>1 DEF AgentAccept, Opens
<1>2. ASSUME NEW fd \in Connections, AgentClose(fd)
      PROVE  TypeOK'
  BY <1>2 DEF AgentClose, Closes
<1>3. ASSUME NEW R \in SUBSET FDs, RXSelected(R)
      PROVE  TypeOK'
  BY <1>3 DEF RXSelected
<1>4. CASE RXSelectFails
  BY <1>4 DEF RXSelectFails
<1>5. CASE RXStart
  BY <1>5 DEF RXStart
<1>6. CASE RXLockDelete
  BY <1>6 DEF RXLockDelete
<1>7. CASE RXSelect
  BY <1>7 DEF RXSelect
<1>8. CASE RXScanned
  BY <1>8 DEF RXScanned
<1>9. CASE RXAccept
  <2>1. PICK fd \in Connections : Opens(fd, "client") /\ rxFD' = fd
    BY <1>9 DEF RXAccept
  <2>2. sock' \in [FDs -> {"free", "listener", "client", "agent"}]
    BY <2>1 DEF Opens
  <2> QED
    BY <1>9, <2>1, <2>2 DEF RXAccept, RXNext
<1>10. CASE RXAcceptFails
  BY <1>10 DEF RXAcceptFails, RXNext
<1>11. CASE RXInput
  BY <1>11 DEF RXInput, RXNext
<1>12. CASE RXHandshakeFails
  BY <1>12 DEF RXHandshakeFails, Closes
<1>13. CASE RXHandshakeDone
  BY <1>13 DEF RXHandshakeDone
<1>14. CASE RXInsert
  BY <1>14 DEF RXInsert
<1>15. CASE RXAddSet
  <2>1. {fdmax, rxFD} \in SUBSET FDs
    BY <1>15 DEF RXAddSet
  <2>2. fdmax' \in FDs
    BY <1>15, <2>1, MaxOfFDs DEF RXAddSet
  <2> QED
    BY <1>15, <2>2 DEF RXAddSet
<1>16. CASE RXInputDone
  BY <1>16 DEF RXInputDone
<1>17. CASE RXInputFails
  BY <1>17 DEF RXInputFails
<1>18. CASE RXDelete
  <2>1. fdset \ {rxFD} \in SUBSET FDs /\ Listener \in fdset \ {rxFD}
    BY <1>18 DEF RXDelete
  <2>2. fdmax' \in FDs
    BY <1>18, <2>1, MaxOfFDs DEF RXDelete
  <2> QED
    BY <1>18, <2>2 DEF RXDelete, Closes
<1>19. CASE RXDeletedHasNone
  BY <1>19 DEF RXDeletedHasNone
<1>20. CASE RXDeletedHasData
  BY <1>20 DEF RXDeletedHasData
<1>21. CASE RXCrash
  BY <1>21 DEF RXCrash
<1>22. CASE TXStart
  <2>1. 0 .. fdmax \subseteq FDs
    BY HubClientsAssumption DEF FDs
  <2> QED
    BY <1>22, <2>1 DEF TXStart, Synchronised
<1>23. CASE TXSend
  BY <1>23 DEF TXSend
<1>24. CASE TXSendFails
  BY <1>24 DEF TXSendFails
<1>25. CASE TXSkip
  BY <1>25 DEF TXSkip, TXNext
<1>26. CASE TXRefuse
  BY <1>26 DEF TXRefuse, TXNext
<1>27. CASE TXChoose
  <2>1. fdset \ {Listener} \subseteq Connections
    BY DEF Connections
  <2> QED
    BY <1>27, <2>1 DEF TXChoose, TXNext
<1>28. CASE TXUnlock
  BY <1>28 DEF TXUnlock
<1>29. CASE TXBound
  BY <1>29 DEF TXBound
<1>30. CASE TXClose
  BY <1>30 DEF TXClose
<1>31. CASE TXDone
  BY <1>31 DEF TXDone
<1>32. CASE TXCrash
  BY <1>32 DEF TXCrash, TXNext
<1>33. CASE Halted
  BY <1>33 DEF Halted, vars
<1>34. CASE UNCHANGED vars
  BY <1>34 DEF vars
<1>35. CASE AgentDeletedHasNone
  BY <1>35 DEF AgentDeletedHasNone
<1>36. CASE AgentDeletedHasData
  BY <1>36 DEF AgentDeletedHasData, Closes
<1>37. CASE AgentCrash
  BY <1>37 DEF AgentCrash
<1> QED
  BY <1>1, <1>2, <1>3, <1>4, <1>5, <1>6, <1>7, <1>8, <1>9, <1>10, <1>11,
     <1>12, <1>13, <1>14, <1>15, <1>16, <1>17, <1>18, <1>19, <1>20, <1>21,
     <1>22, <1>23, <1>24, <1>25, <1>26, <1>27, <1>28, <1>29, <1>30, <1>31,
     <1>32, <1>33, <1>34, <1>35, <1>36, <1>37
  DEF Next, RXSteps, TXSteps

\* A step takes the mutex when it is free and gives back only its own.
LEMMA ExcludedStep ==
  ASSUME TypeOK, DeletionExcluded, [Next]_vars
  PROVE  DeletionExcluded'
<1> USE HubClientsAssumption DEF TypeOK, DeletionExcluded, RXBusy, TXPCs,
        RXGoes, RXKeeps, TXGoes, TXKeeps, sharedVars, agentVars, rxVars, txVars
<1>1. ASSUME AgentAccept
      PROVE  DeletionExcluded'
  BY <1>1 DEF AgentAccept, Opens
<1>2. ASSUME NEW fd \in Connections, AgentClose(fd)
      PROVE  DeletionExcluded'
  BY <1>2 DEF AgentClose, Closes
<1>3. ASSUME NEW R \in SUBSET FDs, RXSelected(R)
      PROVE  DeletionExcluded'
  BY <1>3 DEF RXSelected
<1>4. CASE RXSelectFails
  BY <1>4 DEF RXSelectFails
<1>5. CASE RXStart
  BY <1>5 DEF RXStart
<1>6. CASE RXLockDelete
  BY <1>6 DEF RXLockDelete
<1>7. CASE RXSelect
  BY <1>7 DEF RXSelect
<1>8. CASE RXScanned
  BY <1>8 DEF RXScanned
<1>9. CASE RXAccept
  BY <1>9 DEF RXAccept, RXNext, Opens
<1>10. CASE RXAcceptFails
  BY <1>10 DEF RXAcceptFails, RXNext
<1>11. CASE RXInput
  BY <1>11 DEF RXInput, RXNext
<1>12. CASE RXHandshakeFails
  BY <1>12 DEF RXHandshakeFails, Closes
<1>13. CASE RXHandshakeDone
  BY <1>13 DEF RXHandshakeDone
<1>14. CASE RXInsert
  BY <1>14 DEF RXInsert
<1>15. CASE RXAddSet
  BY <1>15 DEF RXAddSet
<1>16. CASE RXInputDone
  BY <1>16 DEF RXInputDone
<1>17. CASE RXInputFails
  BY <1>17 DEF RXInputFails
<1>18. CASE RXDelete
  BY <1>18 DEF RXDelete, Closes
<1>19. CASE RXDeletedHasNone
  BY <1>19 DEF RXDeletedHasNone
<1>20. CASE RXDeletedHasData
  BY <1>20 DEF RXDeletedHasData
<1>21. CASE RXCrash
  BY <1>21 DEF RXCrash
<1>22. CASE TXStart
  BY <1>22 DEF TXStart, Synchronised
<1>23. CASE TXSend
  BY <1>23 DEF TXSend
<1>24. CASE TXSendFails
  BY <1>24 DEF TXSendFails
<1>25. CASE TXSkip
  BY <1>25 DEF TXSkip, TXNext
<1>26. CASE TXRefuse
  BY <1>26 DEF TXRefuse, TXNext
<1>27. CASE TXChoose
  BY <1>27 DEF TXChoose, TXNext
<1>28. CASE TXUnlock
  BY <1>28 DEF TXUnlock
<1>29. CASE TXBound
  BY <1>29 DEF TXBound
<1>30. CASE TXClose
  BY <1>30 DEF TXClose
<1>31. CASE TXDone
  BY <1>31 DEF TXDone
<1>32. CASE TXCrash
  BY <1>32 DEF TXCrash, TXNext
<1>33. CASE Halted
  BY <1>33 DEF Halted, vars
<1>34. CASE UNCHANGED vars
  BY <1>34 DEF vars
<1>35. CASE AgentDeletedHasNone
  BY <1>35 DEF AgentDeletedHasNone
<1>36. CASE AgentDeletedHasData
  BY <1>36 DEF AgentDeletedHasData, Closes
<1>37. CASE AgentCrash
  BY <1>37 DEF AgentCrash
<1> QED
  BY <1>1, <1>2, <1>3, <1>4, <1>5, <1>6, <1>7, <1>8, <1>9, <1>10, <1>11,
     <1>12, <1>13, <1>14, <1>15, <1>16, <1>17, <1>18, <1>19, <1>20, <1>21,
     <1>22, <1>23, <1>24, <1>25, <1>26, <1>27, <1>28, <1>29, <1>30, <1>31,
     <1>32, <1>33, <1>34, <1>35, <1>36, <1>37
  DEF Next, RXSteps, TXSteps

------------------------------------------------------------------------------
(* The set, its maximum and the map. *)

\* A step leaves the listener in the set, and the maximum the greatest there.
LEMMA CoversStep ==
  ASSUME TypeOK, Listener \in fdset, Covers, [Next]_vars
  PROVE  Listener \in fdset' /\ Covers'
<1> USE FDsAreNaturals DEF TypeOK, Covers, RXBusy,
        RXGoes, RXKeeps, TXGoes, TXKeeps, sharedVars, agentVars, rxVars, txVars
<1>1. ASSUME AgentAccept
      PROVE  Listener \in fdset' /\ Covers'
  BY <1>1 DEF AgentAccept, Opens
<1>2. ASSUME NEW fd \in Connections, AgentClose(fd)
      PROVE  Listener \in fdset' /\ Covers'
  BY <1>2 DEF AgentClose, Closes
<1>3. ASSUME NEW R \in SUBSET FDs, RXSelected(R)
      PROVE  Listener \in fdset' /\ Covers'
  BY <1>3 DEF RXSelected
<1>4. CASE RXSelectFails
  BY <1>4 DEF RXSelectFails
<1>5. CASE RXStart
  BY <1>5 DEF RXStart
<1>6. CASE RXLockDelete
  BY <1>6 DEF RXLockDelete
<1>7. CASE RXSelect
  BY <1>7 DEF RXSelect
<1>8. CASE RXScanned
  BY <1>8 DEF RXScanned
<1>9. CASE RXAccept
  BY <1>9 DEF RXAccept, RXNext, Opens
<1>10. CASE RXAcceptFails
  BY <1>10 DEF RXAcceptFails, RXNext
<1>11. CASE RXInput
  BY <1>11 DEF RXInput, RXNext
<1>12. CASE RXHandshakeFails
  BY <1>12 DEF RXHandshakeFails, Closes
<1>13. CASE RXHandshakeDone
  BY <1>13 DEF RXHandshakeDone
<1>14. CASE RXInsert
  BY <1>14 DEF RXInsert
<1>15. CASE RXAddSet
  <2>1. {fdmax, rxFD} \in SUBSET FDs
    BY <1>15 DEF RXAddSet
  <2>2. fdmax' \in {fdmax, rxFD} /\ fdmax <= fdmax' /\ rxFD <= fdmax'
    BY <1>15, <2>1, MaxOfFDs DEF RXAddSet
  <2> QED
    BY <1>15, <2>1, <2>2 DEF RXAddSet
<1>16. CASE RXInputDone
  BY <1>16 DEF RXInputDone
<1>17. CASE RXInputFails
  BY <1>17 DEF RXInputFails
<1>18. CASE RXDelete
  <2>1. fdset \ {rxFD} \in SUBSET FDs /\ Listener \in fdset \ {rxFD}
    BY <1>18 DEF RXDelete
  <2>2. CASE rxFD = fdmax
    BY <1>18, <2>1, <2>2, MaxOfFDs DEF RXDelete
  <2>3. CASE rxFD # fdmax
    BY <1>18, <2>1, <2>3 DEF RXDelete
  <2> QED
    BY <2>2, <2>3
<1>19. CASE RXDeletedHasNone
  BY <1>19 DEF RXDeletedHasNone
<1>20. CASE RXDeletedHasData
  BY <1>20 DEF RXDeletedHasData
<1>21. CASE RXCrash
  BY <1>21 DEF RXCrash
<1>22. CASE TXStart
  BY <1>22 DEF TXStart, Synchronised
<1>23. CASE TXSend
  BY <1>23 DEF TXSend
<1>24. CASE TXSendFails
  BY <1>24 DEF TXSendFails
<1>25. CASE TXSkip
  BY <1>25 DEF TXSkip, TXNext
<1>26. CASE TXRefuse
  BY <1>26 DEF TXRefuse, TXNext
<1>27. CASE TXChoose
  BY <1>27 DEF TXChoose, TXNext
<1>28. CASE TXUnlock
  BY <1>28 DEF TXUnlock
<1>29. CASE TXBound
  BY <1>29 DEF TXBound
<1>30. CASE TXClose
  BY <1>30 DEF TXClose
<1>31. CASE TXDone
  BY <1>31 DEF TXDone
<1>32. CASE TXCrash
  BY <1>32 DEF TXCrash, TXNext
<1>33. CASE Halted
  BY <1>33 DEF Halted, vars
<1>34. CASE UNCHANGED vars
  BY <1>34 DEF vars
<1>35. CASE AgentDeletedHasNone
  BY <1>35 DEF AgentDeletedHasNone
<1>36. CASE AgentDeletedHasData
  BY <1>36 DEF AgentDeletedHasData, Closes
<1>37. CASE AgentCrash
  BY <1>37 DEF AgentCrash
<1> QED
  BY <1>1, <1>2, <1>3, <1>4, <1>5, <1>6, <1>7, <1>8, <1>9, <1>10, <1>11,
     <1>12, <1>13, <1>14, <1>15, <1>16, <1>17, <1>18, <1>19, <1>20, <1>21,
     <1>22, <1>23, <1>24, <1>25, <1>26, <1>27, <1>28, <1>29, <1>30, <1>31,
     <1>32, <1>33, <1>34, <1>35, <1>36, <1>37
  DEF Next, RXSteps, TXSteps

\* A step keeps the set and the map together. Only RXDelete takes a container
\* away, and with it the descriptor, which the RX thread does not come to again
\* before the next select().
LEMMA SetStep ==
  ASSUME TypeOK, SetMatchesMap, Sockets, Visits, [Next]_vars
  PROVE  SetMatchesMap'
<1> USE FDsAreNaturals DEF TypeOK, SetMatchesMap, RXBusy,
        RXGoes, RXKeeps, TXGoes, TXKeeps, sharedVars, agentVars, rxVars, txVars
<1>1. ASSUME AgentAccept
      PROVE  SetMatchesMap'
  BY <1>1 DEF AgentAccept, Opens
<1>2. ASSUME NEW fd \in Connections, AgentClose(fd)
      PROVE  SetMatchesMap'
  BY <1>2 DEF AgentClose, Closes
<1>3. ASSUME NEW R \in SUBSET FDs, RXSelected(R)
      PROVE  SetMatchesMap'
  BY <1>3 DEF RXSelected
<1>4. CASE RXSelectFails
  BY <1>4 DEF RXSelectFails
<1>5. CASE RXStart
  BY <1>5 DEF RXStart
<1>6. CASE RXLockDelete
  BY <1>6 DEF RXLockDelete
<1>7. CASE RXSelect
  BY <1>7 DEF RXSelect
<1>8. CASE RXScanned
  BY <1>8 DEF RXScanned
<1>9. CASE RXAccept
  BY <1>9 DEF RXAccept, RXNext, Opens
<1>10. CASE RXAcceptFails
  BY <1>10 DEF RXAcceptFails, RXNext
<1>11. CASE RXInput
  BY <1>11 DEF RXInput, RXNext
<1>12. CASE RXHandshakeFails
  BY <1>12 DEF RXHandshakeFails, Closes
<1>13. CASE RXHandshakeDone
  BY <1>13 DEF RXHandshakeDone
<1>14. CASE RXInsert
  BY <1>14 DEF RXInsert
<1>15. CASE RXAddSet
  <2>1. umap[rxFD] = "idle"
    BY <1>15 DEF RXAddSet, Visits
  <2> QED
    BY <1>15, <2>1 DEF RXAddSet
<1>16. CASE RXInputDone
  BY <1>16 DEF RXInputDone
<1>17. CASE RXInputFails
  BY <1>17 DEF RXInputFails
<1>18. CASE RXDelete
  <2>1. ~misclosed => rxFD \notin rxReady
    BY <1>18 DEF RXDelete, Sockets
  <2> QED
    BY <1>18, <2>1 DEF RXDelete, Closes
<1>19. CASE RXDeletedHasNone
  BY <1>19 DEF RXDeletedHasNone
<1>20. CASE RXDeletedHasData
  BY <1>20 DEF RXDeletedHasData
<1>21. CASE RXCrash
  BY <1>21 DEF RXCrash
<1>22. CASE TXStart
  BY <1>22 DEF TXStart, Synchronised
<1>23. CASE TXSend
  BY <1>23 DEF TXSend
<1>24. CASE TXSendFails
  BY <1>24 DEF TXSendFails
<1>25. CASE TXSkip
  BY <1>25 DEF TXSkip, TXNext
<1>26. CASE TXRefuse
  BY <1>26 DEF TXRefuse, TXNext
<1>27. CASE TXChoose
  BY <1>27 DEF TXChoose, TXNext
<1>28. CASE TXUnlock
  BY <1>28 DEF TXUnlock
<1>29. CASE TXBound
  BY <1>29 DEF TXBound
<1>30. CASE TXClose
  BY <1>30 DEF TXClose
<1>31. CASE TXDone
  BY <1>31 DEF TXDone
<1>32. CASE TXCrash
  BY <1>32 DEF TXCrash, TXNext
<1>33. CASE Halted
  BY <1>33 DEF Halted, vars
<1>34. CASE UNCHANGED vars
  BY <1>34 DEF vars
<1>35. CASE AgentDeletedHasNone
  BY <1>35 DEF AgentDeletedHasNone
<1>36. CASE AgentDeletedHasData
  BY <1>36 DEF AgentDeletedHasData, Closes
<1>37. CASE AgentCrash
  BY <1>37 DEF AgentCrash
<1> QED
  BY <1>1, <1>2, <1>3, <1>4, <1>5, <1>6, <1>7, <1>8, <1>9, <1>10, <1>11,
     <1>12, <1>13, <1>14, <1>15, <1>16, <1>17, <1>18, <1>19, <1>20, <1>21,
     <1>22, <1>23, <1>24, <1>25, <1>26, <1>27, <1>28, <1>29, <1>30, <1>31,
     <1>32, <1>33, <1>34, <1>35, <1>36, <1>37
  DEF Next, RXSteps, TXSteps

\* What is opened was free.
LEMMA OpensFree ==
  ASSUME NEW fd, NEW kind, Opens(fd, kind)
  PROVE  sock[fd] = "free" /\ sock' = [sock EXCEPT ![fd] = kind]
<1>1. Free \in SUBSET FDs /\ Free # {}
  BY DEF Opens, Free
<1>2. fd \in Free
  BY <1>1, MinOfFDs DEF Opens
<1> QED
  BY <1>2 DEF Opens, Free

\* A step keeps descriptors and containers together, unless it closes one behind
\* its owner's back.
LEMMA SocketsStep ==
  ASSUME TypeOK, SetMatchesMap, Sockets, [Next]_vars
  PROVE  Sockets'
<1> USE FDsAreNaturals DEF TypeOK, Sockets, RXBusy,
        RXGoes, RXKeeps, TXGoes, TXKeeps, sharedVars, agentVars, rxVars, txVars
<1>1. ASSUME AgentAccept
      PROVE  Sockets'
  <2>1. PICK fd \in Connections : Opens(fd, "agent") /\ agents' = agents \union {fd}
    BY <1>1 DEF AgentAccept
  <2>2. sock[fd] = "free" /\ sock' = [sock EXCEPT ![fd] = "agent"]
    BY <2>1, OpensFree
  <2> QED
    BY <1>1, <2>1, <2>2 DEF AgentAccept
<1>2. ASSUME NEW fd \in Connections, AgentClose(fd)
      PROVE  Sockets'
  BY <1>2 DEF AgentClose, Closes
<1>3. ASSUME NEW R \in SUBSET FDs, RXSelected(R)
      PROVE  Sockets'
  BY <1>3 DEF RXSelected
<1>4. CASE RXSelectFails
  BY <1>4 DEF RXSelectFails
<1>5. CASE RXStart
  BY <1>5 DEF RXStart
<1>6. CASE RXLockDelete
  BY <1>6 DEF RXLockDelete
<1>7. CASE RXSelect
  BY <1>7 DEF RXSelect
<1>8. CASE RXScanned
  BY <1>8 DEF RXScanned
<1>9. CASE RXAccept
  <2>1. PICK fd \in Connections : Opens(fd, "client") /\ rxFD' = fd
    BY <1>9 DEF RXAccept
  <2>2. sock[fd] = "free" /\ sock' = [sock EXCEPT ![fd] = "client"]
    BY <2>1, OpensFree
  <2>3. ~misclosed => umap[fd] = "none" /\ fd \notin agents /\ fd \notin rxReady
    BY <2>1, <2>2 DEF SetMatchesMap, Connections
  <2> QED
    BY <1>9, <2>1, <2>2, <2>3 DEF RXAccept, RXNext
<1>10. CASE RXAcceptFails
  BY <1>10 DEF RXAcceptFails, RXNext
<1>11. CASE RXInput
  BY <1>11 DEF RXInput, RXNext
<1>12. CASE RXHandshakeFails
  BY <1>12 DEF RXHandshakeFails, Closes
<1>13. CASE RXHandshakeDone
  BY <1>13 DEF RXHandshakeDone
<1>14. CASE RXInsert
  BY <1>14 DEF RXInsert
<1>15. CASE RXAddSet
  BY <1>15 DEF RXAddSet
<1>16. CASE RXInputDone
  BY <1>16 DEF RXInputDone
<1>17. CASE RXInputFails
  BY <1>17 DEF RXInputFails
<1>18. CASE RXDelete
  BY <1>18 DEF RXDelete, Closes
<1>19. CASE RXDeletedHasNone
  BY <1>19 DEF RXDeletedHasNone
<1>20. CASE RXDeletedHasData
  BY <1>20 DEF RXDeletedHasData
<1>21. CASE RXCrash
  BY <1>21 DEF RXCrash
<1>22. CASE TXStart
  BY <1>22 DEF TXStart, Synchronised
<1>23. CASE TXSend
  BY <1>23 DEF TXSend
<1>24. CASE TXSendFails
  BY <1>24 DEF TXSendFails
<1>25. CASE TXSkip
  BY <1>25 DEF TXSkip, TXNext
<1>26. CASE TXRefuse
  BY <1>26 DEF TXRefuse, TXNext
<1>27. CASE TXChoose
  BY <1>27 DEF TXChoose, TXNext
<1>28. CASE TXUnlock
  BY <1>28 DEF TXUnlock
<1>29. CASE TXBound
  BY <1>29 DEF TXBound
<1>30. CASE TXClose
  BY <1>30 DEF TXClose
<1>31. CASE TXDone
  BY <1>31 DEF TXDone
<1>32. CASE TXCrash
  BY <1>32 DEF TXCrash, TXNext
<1>33. CASE Halted
  BY <1>33 DEF Halted, vars
<1>34. CASE UNCHANGED vars
  BY <1>34 DEF vars
<1>35. CASE AgentDeletedHasNone
  BY <1>35 DEF AgentDeletedHasNone
<1>36. CASE AgentDeletedHasData
  BY <1>36 DEF AgentDeletedHasData, Closes
<1>37. CASE AgentCrash
  BY <1>37 DEF AgentCrash
<1> QED
  BY <1>1, <1>2, <1>3, <1>4, <1>5, <1>6, <1>7, <1>8, <1>9, <1>10, <1>11,
     <1>12, <1>13, <1>14, <1>15, <1>16, <1>17, <1>18, <1>19, <1>20, <1>21,
     <1>22, <1>23, <1>24, <1>25, <1>26, <1>27, <1>28, <1>29, <1>30, <1>31,
     <1>32, <1>33, <1>34, <1>35, <1>36, <1>37
  DEF Next, RXSteps, TXSteps

\* A step deletes no container the TX thread sends from.
LEMMA SendStep ==
  ASSUME TypeOK, DeletionExcluded, SetMatchesMap, SendsFromLiveContainer, [Next]_vars
  PROVE  SendsFromLiveContainer'
<1> USE HubClientsAssumption, FDsAreNaturals
    DEF TypeOK, DeletionExcluded, SetMatchesMap, SendsFromLiveContainer, RXBusy,
        RXGoes, RXKeeps, TXGoes, TXKeeps, sharedVars, agentVars, rxVars, txVars
<1>1. ASSUME AgentAccept
      PROVE  SendsFromLiveContainer'
  BY <1>1 DEF AgentAccept, Opens
<1>2. ASSUME NEW fd \in Connections, AgentClose(fd)
      PROVE  SendsFromLiveContainer'
  BY <1>2 DEF AgentClose, Closes
<1>3. ASSUME NEW R \in SUBSET FDs, RXSelected(R)
      PROVE  SendsFromLiveContainer'
  BY <1>3 DEF RXSelected
<1>4. CASE RXSelectFails
  BY <1>4 DEF RXSelectFails
<1>5. CASE RXStart
  BY <1>5 DEF RXStart
<1>6. CASE RXLockDelete
  BY <1>6 DEF RXLockDelete
<1>7. CASE RXSelect
  BY <1>7 DEF RXSelect
<1>8. CASE RXScanned
  BY <1>8 DEF RXScanned
<1>9. CASE RXAccept
  BY <1>9 DEF RXAccept, RXNext, Opens
<1>10. CASE RXAcceptFails
  BY <1>10 DEF RXAcceptFails, RXNext
<1>11. CASE RXInput
  BY <1>11 DEF RXInput, RXNext
<1>12. CASE RXHandshakeFails
  BY <1>12 DEF RXHandshakeFails, Closes
<1>13. CASE RXHandshakeDone
  BY <1>13 DEF RXHandshakeDone
<1>14. CASE RXInsert
  BY <1>14 DEF RXInsert
<1>15. CASE RXAddSet
  BY <1>15 DEF RXAddSet
<1>16. CASE RXInputDone
  BY <1>16 DEF RXInputDone
<1>17. CASE RXInputFails
  BY <1>17 DEF RXInputFails
<1>18. CASE RXDelete
  BY <1>18 DEF RXDelete, Closes
<1>19. CASE RXDeletedHasNone
  BY <1>19 DEF RXDeletedHasNone
<1>20. CASE RXDeletedHasData
  BY <1>20 DEF RXDeletedHasData
<1>21. CASE RXCrash
  BY <1>21 DEF RXCrash
<1>22. CASE TXStart
  BY <1>22 DEF TXStart, Synchronised
<1>23. CASE TXSend
  BY <1>23 DEF TXSend
<1>24. CASE TXSendFails
  BY <1>24 DEF TXSendFails
<1>25. CASE TXSkip
  BY <1>25 DEF TXSkip, TXNext
<1>26. CASE TXRefuse
  BY <1>26 DEF TXRefuse, TXNext
<1>27. CASE TXChoose
  BY <1>27 DEF TXChoose, TXNext
<1>28. CASE TXUnlock
  BY <1>28 DEF TXUnlock
<1>29. CASE TXBound
  BY <1>29 DEF TXBound
<1>30. CASE TXClose
  BY <1>30 DEF TXClose
<1>31. CASE TXDone
  BY <1>31 DEF TXDone
<1>32. CASE TXCrash
  BY <1>32 DEF TXCrash, TXNext
<1>33. CASE Halted
  BY <1>33 DEF Halted, vars
<1>34. CASE UNCHANGED vars
  BY <1>34 DEF vars
<1>35. CASE AgentDeletedHasNone
  BY <1>35 DEF AgentDeletedHasNone
<1>36. CASE AgentDeletedHasData
  BY <1>36 DEF AgentDeletedHasData, Closes
<1>37. CASE AgentCrash
  BY <1>37 DEF AgentCrash
<1> QED
  BY <1>1, <1>2, <1>3, <1>4, <1>5, <1>6, <1>7, <1>8, <1>9, <1>10, <1>11,
     <1>12, <1>13, <1>14, <1>15, <1>16, <1>17, <1>18, <1>19, <1>20, <1>21,
     <1>22, <1>23, <1>24, <1>25, <1>26, <1>27, <1>28, <1>29, <1>30, <1>31,
     <1>32, <1>33, <1>34, <1>35, <1>36, <1>37
  DEF Next, RXSteps, TXSteps

\* A step passes over no client that is owed the datum.
LEMMA VisitsStep ==
  ASSUME IInv, [Next]_vars
  PROVE  Visits'
<1> USE HubClientsAssumption, FDsAreNaturals
    DEF IInv, TypeOK, DeletionExcluded, Visits, RXBusy, TXPCs,
        RXGoes, RXKeeps, TXGoes, TXKeeps, sharedVars, agentVars, rxVars, txVars
<1>1. ASSUME AgentAccept
      PROVE  Visits'
  BY <1>1 DEF AgentAccept, Opens
<1>2. ASSUME NEW fd \in Connections, AgentClose(fd)
      PROVE  Visits'
  BY <1>2 DEF AgentClose, Closes
<1>3. ASSUME NEW R \in SUBSET FDs, RXSelected(R)
      PROVE  Visits'
  BY <1>3 DEF RXSelected
<1>4. CASE RXSelectFails
  BY <1>4 DEF RXSelectFails
<1>5. CASE RXStart
  BY <1>5 DEF RXStart
<1>6. CASE RXLockDelete
  BY <1>6 DEF RXLockDelete
<1>7. CASE RXSelect
  BY <1>7 DEF RXSelect
<1>8. CASE RXScanned
  BY <1>8 DEF RXScanned
<1>9. CASE RXAccept
  BY <1>9 DEF RXAccept, RXNext, Opens
<1>10. CASE RXAcceptFails
  BY <1>10 DEF RXAcceptFails, RXNext
<1>11. CASE RXInput
  BY <1>11 DEF RXInput, RXNext
<1>12. CASE RXHandshakeFails
  BY <1>12 DEF RXHandshakeFails, Closes
<1>13. CASE RXHandshakeDone
  BY <1>13 DEF RXHandshakeDone
<1>14. CASE RXInsert
  BY <1>14 DEF RXInsert
<1>15. CASE RXAddSet
  BY <1>15 DEF RXAddSet
<1>16. CASE RXInputDone
  BY <1>16 DEF RXInputDone
<1>17. CASE RXInputFails
  BY <1>17 DEF RXInputFails
<1>18. CASE RXDelete
  BY <1>18 DEF RXDelete, Closes
<1>19. CASE RXDeletedHasNone
  BY <1>19 DEF RXDeletedHasNone
<1>20. CASE RXDeletedHasData
  BY <1>20 DEF RXDeletedHasData
<1>21. CASE RXCrash
  BY <1>21 DEF RXCrash
<1>22. CASE TXStart
  <2>1. Synchronised \subseteq fdset
    BY DEF Synchronised, SetMatchesMap
  <2>2. fdset \subseteq 0 .. fdmax
    BY DEF Covers
  <2> QED
    BY <1>22, <2>1, <2>2 DEF TXStart
<1>23. CASE TXSend
  BY <1>23 DEF TXSend
<1>24. CASE TXSendFails
  BY <1>24 DEF TXSendFails
<1>25. CASE TXSkip
  BY <1>25 DEF TXSkip, TXNext
<1>26. CASE TXRefuse
  BY <1>26 DEF TXRefuse, TXNext
<1>27. CASE TXChoose
  BY <1>27 DEF TXChoose, TXNext
<1>28. CASE TXUnlock
  BY <1>28 DEF TXUnlock
<1>29. CASE TXBound
  BY <1>29 DEF TXBound
<1>30. CASE TXClose
  BY <1>30 DEF TXClose
<1>31. CASE TXDone
  BY <1>31 DEF TXDone
<1>32. CASE TXCrash
  BY <1>32 DEF TXCrash, TXNext
<1>33. CASE Halted
  BY <1>33 DEF Halted, vars
<1>34. CASE UNCHANGED vars
  BY <1>34 DEF vars
<1>35. CASE AgentDeletedHasNone
  BY <1>35 DEF AgentDeletedHasNone
<1>36. CASE AgentDeletedHasData
  BY <1>36 DEF AgentDeletedHasData, Closes
<1>37. CASE AgentCrash
  BY <1>37 DEF AgentCrash
<1> QED
  BY <1>1, <1>2, <1>3, <1>4, <1>5, <1>6, <1>7, <1>8, <1>9, <1>10, <1>11,
     <1>12, <1>13, <1>14, <1>15, <1>16, <1>17, <1>18, <1>19, <1>20, <1>21,
     <1>22, <1>23, <1>24, <1>25, <1>26, <1>27, <1>28, <1>29, <1>30, <1>31,
     <1>32, <1>33, <1>34, <1>35, <1>36, <1>37
  DEF Next, RXSteps, TXSteps

------------------------------------------------------------------------------
(* The theorems. *)

\* The initial state satisfies the invariant.
LEMMA InitIInv == Init => IInv
<1> SUFFICES ASSUME Init PROVE IInv
  OBVIOUS
<1> USE HubClientsAssumption, FDsAreNaturals DEF Init
<1>1. TypeOK
  BY DEF TypeOK, RXBusy, TXPCs
<1>2. DeletionExcluded /\ SendsFromLiveContainer
  BY DEF DeletionExcluded, SendsFromLiveContainer
<1>3. SetMatchesMap /\ Sockets
  BY DEF SetMatchesMap, Sockets, RXBusy
<1>4. Listener \in fdset /\ Covers /\ Visits
  BY DEF Covers, Visits
<1> QED
  BY <1>1, <1>2, <1>3, <1>4 DEF IInv

\* The invariant holds of every state.
LEMMA InvariantHolds == Spec => []IInv
<1>1. IInv /\ [Next]_vars => IInv'
  <2> SUFFICES ASSUME IInv, [Next]_vars PROVE IInv'
    OBVIOUS
  <2> USE DEF IInv
  <2>1. TypeOK'
    BY TypeStep
  <2>2. DeletionExcluded'
    BY ExcludedStep
  <2>3. Listener \in fdset' /\ Covers'
    BY CoversStep
  <2>4. SetMatchesMap' /\ Sockets'
    BY SetStep, SocketsStep
  <2>5. SendsFromLiveContainer' /\ Visits'
    BY SendStep, VisitsStep
  <2> QED
    BY <2>1, <2>2, <2>3, <2>4, <2>5
<1> QED
  BY InitIInv, <1>1, PTL DEF Spec

\* The set, its maximum, the map and the mutex fit together: the TX thread, which
\* looks clients up while the RX thread adds others unlocked, finds the container
\* of every descriptor of the set, and no loop leaves one out.
THEOREM ClientsConsistent == Spec => []Consistent
<1>1. IInv => Consistent
  <2> SUFFICES ASSUME IInv PROVE fdmax = Max(fdset)
    BY DEF IInv, Consistent, MaxCovers
  <2>1. fdset \in SUBSET FDs /\ fdset # {} /\ fdset \subseteq Nat
    BY FDsAreNaturals DEF IInv, TypeOK
  <2>2. Max(fdset) \in fdset /\ \A fd \in fdset : fd <= Max(fdset)
    BY <2>1, MaxOfFDs
  <2>3. fdmax \in fdset /\ Max(fdset) <= fdmax
    BY <2>2 DEF IInv, Covers
  <2>4. fdmax <= Max(fdset) /\ fdmax \in Nat /\ Max(fdset) \in Nat
    BY <2>1, <2>2, <2>3
  <2> QED
    BY <2>3, <2>4
<1> QED
  BY InvariantHolds, <1>1, PTL

\* The container the TX thread is sending from is not deleted meanwhile.
THEOREM ClientsSendFromLive == Spec => []SendsFromLiveContainer
<1>1. IInv => SendsFromLiveContainer
  BY DEF IInv
<1> QED
  BY InvariantHolds, <1>1, PTL

\* When the TX thread is through with a datum, it has considered it for every
\* client that was synchronised when it began, whoever came or left meanwhile.
EveryClientConsidered == txPC \in {"bound", "close"} => due = {}

\* A datum has been considered for every client synchronised when its turn began.
THEOREM ClientsAllConsidered == Spec => []EveryClientConsidered
<1>1. IInv => EveryClientConsidered
  BY DEF IInv, Visits, EveryClientConsidered
<1> QED
  BY InvariantHolds, <1>1, PTL

\* As long as no thread closed a descriptor behind its owner's back, a datum goes
\* to the client it is meant for.
THEOREM ClientsReached == Spec => []SendsReachClient
<1>1. IInv => SendsReachClient
  <2> SUFFICES ASSUME IInv, txPC = "send", ~misclosed PROVE ReachesClient
    BY DEF SendsReachClient
  <2>1. txFD \in FDs /\ umap[txFD] # "none"
    BY FDsAreNaturals DEF IInv, TypeOK, SendsFromLiveContainer
  <2> QED
    BY <2>1 DEF IInv, Sockets, ReachesClient
<1> QED
  BY InvariantHolds, <1>1, PTL

------------------------------------------------------------------------------
(* What a datum's turn is to the clients. *)

\* What Dispatch sees of the state; a step that changes none of it stutters.
Seen == <<umap, running, txPC, due, txLeft, txFD, misclosed>>

\* A turn stays as it is.
LEMMA TurnStays ==
  ASSUME UNCHANGED Seen
  PROVE  UNCHANGED Turns!vars
BY DEF Seen, Turns!vars, Turn, Synchronised

\* So it does between turns, unless a client comes or goes.
LEMMA TurnKept ==
  ASSUME Turn = "between", Turn' = "between", UNCHANGED <<umap, misclosed>>
  PROVE  UNCHANGED Turns!vars
<1>1. Synchronised' = Synchronised
  BY DEF Synchronised
<1> QED
  BY <1>1 DEF Turns!vars

\* Descriptors may be closed during a turn, clients join; they only leave
\* between turns.
LEMMA BesideTurn ==
  ASSUME TypeOK, NEW c \in Connections,
         UNCHANGED <<running, txPC, due, txLeft, txFD>>,
         Turn # "over", misclosed' \in {misclosed, TRUE},
         \/ /\ umap' = [umap EXCEPT ![c] = "sync"]
            /\ UNCHANGED misclosed
         \/ umap' = umap
         \/ /\ umap' \in { [umap EXCEPT ![c] = "none"], [umap EXCEPT ![c] = "idle"] }
            /\ \/ Turn = "between" \/ misclosed
               \/ umap[c] # "sync" /\ UNCHANGED misclosed
  PROVE  [Turns!Next]_(Turns!vars)
<1> USE FDsAreNaturals DEF TypeOK, Turn
<1>1. CASE umap' = [umap EXCEPT ![c] = "sync"] /\ UNCHANGED misclosed
  <2>1. Synchronised' = Synchronised \union {c}
    BY <1>1 DEF Synchronised
  <2> QED
    BY <1>1, <2>1 DEF Turns!Next, Turns!Join
<1>2. CASE umap' = umap
  <2>1. Synchronised' = Synchronised
    BY <1>2 DEF Synchronised
  <2>2. CASE UNCHANGED misclosed
    BY <1>2, <2>2, TurnStays DEF Seen
  <2>3. CASE misclosed'
    BY <2>1, <2>3 DEF Turns!Next, Turns!Misclose
  <2> QED
    BY <2>2, <2>3
<1>3. CASE /\ umap' \in { [umap EXCEPT ![c] = "none"], [umap EXCEPT ![c] = "idle"] }
           /\ Turn = "between" \/ misclosed
  <2>1. Synchronised' = Synchronised \ {c}
    BY <1>3 DEF Synchronised
  <2>2. Turn = "between" \/ (Turn = "offering" /\ misclosed)
    BY <1>3
  <2> QED
    BY <2>1, <2>2 DEF Turns!Next, Turns!Leave
<1>4. CASE /\ umap' \in { [umap EXCEPT ![c] = "none"], [umap EXCEPT ![c] = "idle"] }
           /\ umap[c] # "sync" /\ UNCHANGED misclosed
  <2>1. Synchronised' = Synchronised
    BY <1>4 DEF Synchronised
  <2> QED
    BY <1>4, <2>1 DEF Turns!vars
<1> QED
  BY <1>1, <1>2, <1>3, <1>4

\* A step of the threads is one of a turn, or none.
LEMMA TurnStep ==
  ASSUME IInv, Turns!OwedAreThere, [Next]_vars
  PROVE  [Turns!Next]_(Turns!vars)
<1> DEFINE Goal == [Turns!Next]_(Turns!vars)
           Stays == UNCHANGED Seen
<1>a. Stays => Goal
  BY TurnStays
<1> USE HubClientsAssumption, FDsAreNaturals
    DEF IInv, TypeOK, RXBusy, TXPCs, RXGoes, RXKeeps, TXGoes, TXKeeps,
        sharedVars, agentVars, rxVars, txVars
<1> HIDE DEF Goal
<1>1. ASSUME AgentAccept
      PROVE  Stays
  BY <1>1 DEF AgentAccept, Opens, Seen
<1>2. ASSUME NEW fd \in Connections, AgentClose(fd)
      PROVE  Goal
  BY <1>2, BesideTurn DEF AgentClose, Closes, Goal, Turn
<1>3. ASSUME NEW R \in SUBSET FDs, RXSelected(R)
      PROVE  Stays
  BY <1>3 DEF RXSelected, Seen
<1>4. ASSUME RXSelectFails PROVE Stays
  BY <1>4 DEF RXSelectFails, Seen
<1>5. CASE RXStart
  BY <1>5, BesideTurn DEF RXStart, Goal, Turn
<1>6. ASSUME RXLockDelete PROVE Stays
  BY <1>6 DEF RXLockDelete, Seen
<1>7. ASSUME RXSelect PROVE Stays
  BY <1>7 DEF RXSelect, Seen
<1>8. ASSUME RXScanned PROVE Stays
  BY <1>8 DEF RXScanned, Seen
<1>9. ASSUME RXAccept PROVE Stays
  BY <1>9 DEF RXAccept, Seen
<1>10. ASSUME RXAcceptFails PROVE Stays
  BY <1>10 DEF RXAcceptFails, Seen
<1>11. ASSUME RXInput PROVE Stays
  BY <1>11 DEF RXInput, Seen
<1>12. CASE RXHandshakeFails
  BY <1>12, BesideTurn DEF RXHandshakeFails, Closes, Goal, Turn
<1>13. ASSUME RXHandshakeDone PROVE Stays
  BY <1>13 DEF RXHandshakeDone, Seen
<1>14. CASE RXInsert
  <2>1. misclosed \/ umap[rxFD] # "sync"
    BY <1>14 DEF RXInsert, Sockets
  <2>2. rxFD \in Connections
    BY <1>14 DEF RXInsert
  <2>3. /\ UNCHANGED <<running, txPC, due, txLeft, txFD, misclosed>> /\ Turn # "over"
        /\ umap' = [umap EXCEPT ![rxFD] = "idle"]
    BY <1>14 DEF RXInsert, Turn
  <2> QED
    BY <2>1, <2>2, <2>3, BesideTurn DEF Goal
<1>15. ASSUME RXAddSet PROVE Stays
  BY <1>15 DEF RXAddSet, Seen
<1>16. ASSUME RXInputDone PROVE Stays
  BY <1>16 DEF RXInputDone, Seen
<1>17. ASSUME RXInputFails PROVE Stays
  BY <1>17 DEF RXInputFails, Seen
<1>18. CASE RXDelete
  <2>1. Turn = "between"
    BY <1>18 DEF RXDelete, DeletionExcluded, Turn
  <2>2. rxFD \in Connections
    BY <1>18 DEF RXDelete
  <2>3. /\ UNCHANGED <<running, txPC, due, txLeft, txFD>>
        /\ misclosed' \in {misclosed, TRUE}
        /\ umap' = [umap EXCEPT ![rxFD] = "none"]
    BY <1>18 DEF RXDelete, Closes
  <2> QED
    BY <2>1, <2>2, <2>3, BesideTurn DEF Goal
<1>19. ASSUME RXDeletedHasNone PROVE Stays
  BY <1>19 DEF RXDeletedHasNone, Seen
<1>20. ASSUME RXDeletedHasData PROVE Stays
  BY <1>20 DEF RXDeletedHasData, Seen
<1>21. CASE RXCrash
  <2>1. Synchronised' = Synchronised
    BY <1>21 DEF RXCrash, Synchronised
  <2> QED
    BY <1>21, <2>1 DEF RXCrash, Goal, Turn, Turns!Next, Turns!Die
<1>22. CASE TXStart
  <2>1. Synchronised' = Synchronised /\ Synchronised \subseteq Connections
    BY <1>22 DEF TXStart, Synchronised
  <2>2. Synchronised \subseteq fdset /\ fdset \subseteq 0 .. fdmax
    BY DEF Synchronised, SetMatchesMap, Covers, Visits
  <2>3. (0 .. fdmax) \ {Listener} \in SUBSET Connections
    BY DEF FDs, Connections
  <2>4. Synchronised \subseteq (0 .. fdmax) \ {Listener}
    BY <2>1, <2>2
  <2> QED
    BY <1>22, <2>1, <2>3, <2>4 DEF TXStart, Goal, Turn, Turns!Next, Turns!Begin
<1>23. CASE TXSend
  <2>1. Synchronised' = Synchronised
    BY <1>23 DEF TXSend, Synchronised
  <2> QED
    BY <1>23, <2>1 DEF TXSend, Goal, Turn, Turns!Next, Turns!Sent
<1>24. CASE TXSendFails
  <2>1. Synchronised' = Synchronised
    BY <1>24 DEF TXSendFails, Synchronised
  <2> QED
    BY <1>24, <2>1 DEF TXSendFails, Goal, Turn, Turns!Next, Turns!Sent
<1>25. CASE TXSkip
  <2>1. Synchronised' = Synchronised
    BY <1>25 DEF TXSkip, Synchronised
  <2>2. PICK fd \in FDs : TXNext(fd) /\ (fd = Listener \/ fd \notin fdset)
    BY <1>25 DEF TXSkip
  <2>3. Turn = "offering" /\ Turn' = "offering" /\ txFD = NoFD
    BY <1>25 DEF TXSkip, Turn
  <2>4. CASE fd = Listener
    BY <1>25, <2>1, <2>2, <2>3, <2>4 DEF TXSkip, TXNext, Goal, Turns!vars
  <2>5. CASE fd # Listener
    <3>1. fd \notin due /\ fd \in Connections
      BY <1>25, <2>2, <2>5 DEF TXSkip, Visits, Connections
    <3>2. fd \in txLeft
      BY <2>2, MaxOfFDs DEF TXNext
    <3> QED
      BY <1>25, <2>1, <2>2, <2>3, <3>1, <3>2
      DEF TXSkip, TXNext, Goal, Turns!Next, Turns!Pass, Turns!Offers
  <2> QED
    BY <2>4, <2>5
<1>26. CASE TXRefuse
  <2>1. Synchronised' = Synchronised
    BY <1>26 DEF TXRefuse, Synchronised
  <2>2. PICK fd \in fdset \ {Listener} :
             TXNext(fd) /\ umap[fd] # "none" /\ due' = due \ {fd}
    BY <1>26 DEF TXRefuse
  <2>3. Turn = "offering" /\ Turn' = "offering" /\ txFD = NoFD
    BY <1>26 DEF TXRefuse, Turn
  <2>4. fd \in txLeft /\ fd \in Connections
    BY <2>2, MaxOfFDs DEF TXNext, Connections
  <2>5. (txLeft \ {fd}) \ {Listener} = (txLeft \ {Listener}) \ {fd}
    OBVIOUS
  <2>6. CASE fd \in Synchronised \/ misclosed
    BY <1>26, <2>1, <2>2, <2>3, <2>4, <2>5, <2>6
    DEF TXRefuse, TXNext, Goal, Turns!Next, Turns!Withhold, Turns!Offers
  <2>7. CASE fd \notin due
    BY <1>26, <2>1, <2>2, <2>3, <2>4, <2>5, <2>7
    DEF TXRefuse, TXNext, Goal, Turns!Next, Turns!Pass, Turns!Offers
  <2>8. ~misclosed => due \subseteq Synchronised
    BY <2>3 DEF Turns!OwedAreThere
  <2> QED
    BY <2>6, <2>7, <2>8
<1>27. CASE TXChoose
  <2>1. Synchronised' = Synchronised
    BY <1>27 DEF TXChoose, Synchronised
  <2>2. PICK fd \in fdset \ {Listener} :
             /\ TXNext(fd) /\ umap[fd] = "sync"
             /\ txFD' = fd /\ due' = due \ {fd}
    BY <1>27 DEF TXChoose
  <2>3. Turn = "offering" /\ Turn' = "offering" /\ txFD = NoFD
    BY <1>27 DEF TXChoose, Turn
  <2>4. fd \in txLeft /\ fd \in Connections /\ fd \in Synchronised
    BY <2>2, MaxOfFDs DEF TXNext, Connections, Synchronised
  <2>5. (txLeft \ {fd}) \ {Listener} = (txLeft \ {Listener}) \ {fd}
    OBVIOUS
  <2> QED
    BY <1>27, <2>1, <2>2, <2>3, <2>4, <2>5
    DEF TXChoose, TXNext, Goal, Turns!Next, Turns!Send, Turns!Offers
<1>28. CASE TXUnlock
  <2>1. Synchronised' = Synchronised
    BY <1>28 DEF TXUnlock, Synchronised
  <2>2. due = {}
    BY <1>28 DEF TXUnlock, Visits
  <2> QED
    BY <1>28, <2>1, <2>2 DEF TXUnlock, Goal, Turn, Turns!Next, Turns!Finish
<1>29. CASE TXBound
  BY <1>29, TurnKept DEF TXBound, Goal, Turn
<1>30. CASE TXClose
  BY <1>30, BesideTurn DEF TXClose, Goal, Turn
<1>31. CASE TXDone
  BY <1>31, TurnKept DEF TXDone, Goal, Turn
<1>32. CASE TXCrash
  <2>1. Synchronised' = Synchronised
    BY <1>32 DEF TXCrash, Synchronised
  <2> QED
    BY <1>32, <2>1 DEF TXCrash, Goal, Turn, Turns!Next, Turns!Die
<1>33. ASSUME Halted PROVE Stays
  BY <1>33 DEF Halted, vars, Seen
<1>34. ASSUME UNCHANGED vars PROVE Stays
  BY <1>34 DEF vars, Seen
<1>35. ASSUME AgentDeletedHasNone PROVE Stays
  BY <1>35 DEF AgentDeletedHasNone, Seen
<1>36. CASE AgentDeletedHasData
  BY <1>36, BesideTurn DEF AgentDeletedHasData, Closes, Goal, Turn
<1>37. CASE AgentCrash
  <2>1. Synchronised' = Synchronised
    BY <1>37 DEF AgentCrash, Synchronised
  <2> QED
    BY <1>37, <2>1 DEF AgentCrash, Goal, Turn, Turns!Next, Turns!Die
<1> HIDE DEF Stays
<1> QED
  BY <1>a, <1>1, <1>2, <1>3, <1>4, <1>5, <1>6, <1>7, <1>8, <1>9, <1>10, <1>11,
     <1>12, <1>13, <1>14, <1>15, <1>16, <1>17, <1>18, <1>19, <1>20, <1>21,
     <1>22, <1>23, <1>24, <1>25, <1>26, <1>27, <1>28, <1>29, <1>30, <1>31,
     <1>32, <1>33, <1>34, <1>35, <1>36, <1>37
  DEF Next, RXSteps, TXSteps, Goal

\* In a turn, whoever is owed the datum has not been offered it yet, and stays.
LEMMA OwedStep ==
  ASSUME Turns!OwedAreThere, [Turns!Next]_(Turns!vars)
  PROVE  Turns!OwedAreThere'
<1> USE DEF Turns!OwedAreThere
<1>1. ASSUME NEW c \in Connections, Turns!Join(c)
      PROVE  Turns!OwedAreThere'
  BY <1>1 DEF Turns!Join
<1>2. ASSUME NEW c \in Connections, Turns!Leave(c)
      PROVE  Turns!OwedAreThere'
  BY <1>2 DEF Turns!Leave
<1>3. ASSUME NEW c \in Connections, Turns!Send(c)
      PROVE  Turns!OwedAreThere'
  BY <1>3 DEF Turns!Send, Turns!Offers
<1>4. ASSUME NEW c \in Connections, Turns!Withhold(c)
      PROVE  Turns!OwedAreThere'
  BY <1>4 DEF Turns!Withhold, Turns!Offers
<1>5. ASSUME NEW c \in Connections, Turns!Pass(c)
      PROVE  Turns!OwedAreThere'
  BY <1>5 DEF Turns!Pass, Turns!Offers
<1>6. CASE Turns!Begin
  BY <1>6 DEF Turns!Begin
<1>7. CASE Turns!Sent
  BY <1>7 DEF Turns!Sent
<1>8. CASE Turns!Finish
  BY <1>8 DEF Turns!Finish
<1>9. CASE Turns!Misclose
  BY <1>9 DEF Turns!Misclose
<1>10. CASE Turns!Die
  BY <1>10 DEF Turns!Die
<1>11. CASE UNCHANGED Turns!vars
  BY <1>11 DEF Turns!vars
<1> QED
  BY <1>1, <1>2, <1>3, <1>4, <1>5, <1>6, <1>7, <1>8, <1>9, <1>10, <1>11
  DEF Turns!Next

\* Initially nobody is owed anything.
LEMMA TurnInit == Init => Turns!Init /\ Turns!OwedAreThere
<1> SUFFICES ASSUME Init PROVE Turns!Init /\ Turns!OwedAreThere
  OBVIOUS
<1>1. Synchronised = {} /\ Turn = "between"
  BY FDsAreNaturals DEF Init, Synchronised, Turn
<1> QED
  BY <1>1 DEF Init, Turns!Init, Turns!OwedAreThere

\* Until a descriptor is closed behind its owner's back, no client a datum is owed
\* or being sent to is deleted during its turn.
THEOREM ClientsOwedAreThere == Spec => []Turns!OwedAreThere
<1>1. Init => Turns!OwedAreThere
  BY TurnInit
<1>2. IInv /\ Turns!OwedAreThere /\ [Next]_vars => Turns!OwedAreThere'
  BY TurnStep, OwedStep
<1> QED
  BY <1>1, <1>2, InvariantHolds, PTL DEF Spec

\* The RX and TX threads implement Dispatch: a datum is offered once to each
\* client synchronised when its turn began.
THEOREM ClientsImplementDispatch == Spec => DispatchSpec
<1>1. Init => Turns!Init
  BY TurnInit
<1>2. IInv /\ Turns!OwedAreThere /\ [Next]_vars => [Turns!Next]_(Turns!vars)
  BY TurnStep
<1> QED
  BY <1>1, <1>2, InvariantHolds, ClientsOwedAreThere, PTL
  DEF Spec, DispatchSpec, Turns!Spec

==============================================================================
