------------------------------ MODULE HubProofs ------------------------------
(***************************************************************************)
(* Proofs about the two views of the hub's internal data.                  *)
(*                                                                         *)
(* HubFeed, for any set of agent threads and of sources: its type          *)
(* invariant, mutual exclusion, the validity of looked-up entries, no lost *)
(* update, and the refinement of UpdateRelay.                              *)
(*                                                                         *)
(* HubData, for any lifetime, delays, length of the day and places: its    *)
(* types, how far an entry's epoch is from the moment it was stored, and   *)
(* from that how long it lives, how long it is kept and how long           *)
(* throttling silences it.                                                 *)
(***************************************************************************)
EXTENDS HubFeed, HubData, SequenceTheorems, TLAPS

------------------------------------------------------------------------------
(* The queue as a set. *)

\* Pushing an ID adds it to those queued.
LEMMA RangeAppend ==
  ASSUME NEW S, NEW s \in Seq(S), NEW e \in S
  PROVE  /\ Append(s, e) \in Seq(S)
         /\ Range(Append(s, e)) = Range(s) \union {e}
<1>1. /\ Append(s, e) \in Seq(S)
      /\ Len(Append(s, e)) = Len(s) + 1
      /\ \A i \in 1 .. Len(s) : Append(s, e)[i] = s[i]
      /\ Append(s, e)[Len(s) + 1] = e
  BY AppendProperties
<1>2. Len(s) \in Nat /\ DOMAIN s = 1 .. Len(s)
  BY LenProperties
<1>3. DOMAIN Append(s, e) = 1 .. Len(s) + 1
  BY <1>1, LenProperties
<1> QED
  BY <1>1, <1>2, <1>3 DEF Range

\* Popping an ID removes at most that ID from those queued.
LEMMA RangeTail ==
  ASSUME NEW S, NEW s \in Seq(S), s # <<>>
  PROVE  /\ Head(s) \in S
         /\ Tail(s) \in Seq(S)
         /\ Range(s) = {Head(s)} \union Range(Tail(s))
<1>1. /\ Head(s) \in S /\ Head(s) = s[1]
      /\ Tail(s) \in Seq(S)
      /\ Len(Tail(s)) = Len(s) - 1
      /\ \A i \in 1 .. Len(Tail(s)) : Tail(s)[i] = s[i + 1]
  BY HeadTailProperties
<1>2. /\ Len(s) \in Nat \ {0}
      /\ DOMAIN s = 1 .. Len(s)
      /\ DOMAIN Tail(s) = 1 .. Len(s) - 1
  BY <1>1, EmptySeq, LenProperties
<1>3. \A i \in 1 .. Len(s) : i = 1 \/ i - 1 \in 1 .. Len(s) - 1
  BY <1>2
<1>4. \A i \in 1 .. Len(s) - 1 : i + 1 \in 1 .. Len(s)
  BY <1>2
<1>5. ASSUME NEW x \in Range(s)
      PROVE  x \in {Head(s)} \union Range(Tail(s))
  <2>1. PICK i \in 1 .. Len(s) : x = s[i]
    BY <1>2, <1>5 DEF Range
  <2>2. CASE i = 1
    BY <1>1, <2>1, <2>2
  <2>3. CASE i # 1
    <3>1. i - 1 \in 1 .. Len(s) - 1 /\ (i - 1) + 1 = i
      BY <1>2, <2>3
    <3> QED
      BY <1>1, <1>2, <2>1, <3>1 DEF Range
  <2> QED
    BY <2>2, <2>3
<1>6. ASSUME NEW x \in {Head(s)} \union Range(Tail(s))
      PROVE  x \in Range(s)
  BY <1>1, <1>2, <1>4, <1>6 DEF Range
<1> QED
  BY <1>1, <1>5, <1>6

------------------------------------------------------------------------------
(* Types. *)

\* A step leaves every variable in its type.
LEMMA TypeStep ==
  ASSUME TypeOK, [Next]_vars
  PROVE  TypeOK'
<1> USE DEF TypeOK, AgentPCs, TXPCs, CleanerPCs
<1>1. ASSUME NEW a \in Agents, NEW id \in IDs, AgentReceive(a, id)
      PROVE  TypeOK'
  BY <1>1 DEF AgentReceive, AgentGoes, txVars, cleanerVars
<1>2. ASSUME NEW a \in Agents, AgentExit(a)
      PROVE  TypeOK'
  BY <1>2 DEF AgentExit, AgentGoes, txVars, cleanerVars
<1>3. ASSUME NEW a \in Agents, AgentLockData(a)
      PROVE  TypeOK'
  BY <1>3 DEF AgentLockData, AgentGoes, txVars, cleanerVars
<1>4. ASSUME NEW a \in Agents, AgentFind(a)
      PROVE  TypeOK'
  BY <1>4 DEF AgentFind, AgentGoes, txVars, cleanerVars
<1>5. ASSUME NEW a \in Agents, AgentCreate(a)
      PROVE  TypeOK'
  BY <1>5 DEF AgentCreate, AgentGoes, txVars, cleanerVars
<1>6. ASSUME NEW a \in Agents, AgentSync(a)
      PROVE  TypeOK'
  BY <1>6 DEF AgentSync, AgentGoes, txVars, cleanerVars
<1>7. ASSUME NEW a \in Agents, AgentDiscard(a)
      PROVE  TypeOK'
  BY <1>7 DEF AgentDiscard, AgentGoes, txVars, cleanerVars
<1>8. ASSUME NEW a \in Agents, AgentLockQueue(a)
      PROVE  TypeOK'
  BY <1>8 DEF AgentLockQueue, AgentGoes, txVars, cleanerVars
<1>9. ASSUME NEW a \in Agents, AgentPush(a)
      PROVE  TypeOK'
  BY <1>9, AppendProperties DEF AgentPush, AgentGoes, txVars, cleanerVars
<1>10. ASSUME NEW a \in Agents, AgentSignal(a)
      PROVE  TypeOK'
  BY <1>10 DEF AgentSignal, AgentGoes, txVars, cleanerVars
<1>11. CASE TXWait
  BY <1>11 DEF TXWait, TXGoes, agentVars, cleanerVars
<1>12. CASE TXWake
  BY <1>12 DEF TXWake, TXGoes, agentVars, cleanerVars
<1>13. CASE TXSpuriousWake
  BY <1>13 DEF TXSpuriousWake, TXGoes, agentVars, cleanerVars
<1>14. CASE TXLockQueue
  BY <1>14 DEF TXLockQueue, TXGoes, agentVars, cleanerVars
<1>15. CASE TXEmpty
  BY <1>15 DEF TXEmpty, TXGoes, agentVars, cleanerVars
<1>16. CASE TXPop
  BY <1>16, HeadTailProperties DEF TXPop, TXGoes, agentVars, cleanerVars
<1>17. CASE TXLockData
  BY <1>17 DEF TXLockData, TXGoes, agentVars, cleanerVars
<1>18. CASE TXMissing
  BY <1>18 DEF TXMissing, TXGoes, agentVars, cleanerVars
<1>19. CASE TXFind
  BY <1>19 DEF TXFind, TXGoes, agentVars, cleanerVars
<1>20. CASE TXCopy
  BY <1>20 DEF TXCopy, TXGoes, agentVars, cleanerVars
<1>21. CASE TXDispatch
  BY <1>21 DEF TXDispatch, TXGoes, agentVars, cleanerVars
<1>22. CASE CleanerLock
  BY <1>22 DEF CleanerLock, CleanerGoes, agentVars, txVars
<1>23. CASE CleanerCollect
  BY <1>23 DEF CleanerCollect, CleanerGoes, agentVars, txVars
<1>24. ASSUME NEW S \in SUBSET IDs, CleanerErase(S)
      PROVE  TypeOK'
  BY <1>24 DEF CleanerErase, CleanerGoes, agentVars, txVars
<1>25. CASE UNCHANGED vars
  BY <1>25 DEF vars
<1> QED
  BY <1>1, <1>2, <1>3, <1>4, <1>5, <1>6, <1>7, <1>8, <1>9, <1>10,
     <1>11, <1>12, <1>13, <1>14, <1>15, <1>16, <1>17, <1>18, <1>19, <1>20,
     <1>21, <1>22, <1>23, <1>24, <1>25
  DEF Next, AgentLocks, AgentSteps, TXLocks, TXSteps, CleanerSteps

------------------------------------------------------------------------------
(* Mutual exclusion. *)

\* A step takes a mutex only when it is free and gives back only its own.
LEMMA MutexStep ==
  ASSUME TypeOK, MutexOwners, [Next]_vars
  PROVE  MutexOwners'
<1> USE HubFeedAssumption DEF TypeOK, MutexOwners, AgentHoldsData, AgentHoldsQueue, TXHoldsData,
            TXHoldsQueue, CleanerHoldsData, AgentPCs, TXPCs, CleanerPCs
<1>1. ASSUME NEW a \in Agents, NEW id \in IDs, AgentReceive(a, id)
      PROVE  MutexOwners'
  BY <1>1 DEF AgentReceive, AgentGoes, txVars, cleanerVars
<1>2. ASSUME NEW a \in Agents, AgentExit(a)
      PROVE  MutexOwners'
  BY <1>2 DEF AgentExit, AgentGoes, txVars, cleanerVars
<1>3. ASSUME NEW a \in Agents, AgentLockData(a)
      PROVE  MutexOwners'
  BY <1>3 DEF AgentLockData, AgentGoes, txVars, cleanerVars
<1>4. ASSUME NEW a \in Agents, AgentFind(a)
      PROVE  MutexOwners'
  BY <1>4 DEF AgentFind, AgentGoes, txVars, cleanerVars
<1>5. ASSUME NEW a \in Agents, AgentCreate(a)
      PROVE  MutexOwners'
  BY <1>5 DEF AgentCreate, AgentGoes, txVars, cleanerVars
<1>6. ASSUME NEW a \in Agents, AgentSync(a)
      PROVE  MutexOwners'
  BY <1>6 DEF AgentSync, AgentGoes, txVars, cleanerVars
<1>7. ASSUME NEW a \in Agents, AgentDiscard(a)
      PROVE  MutexOwners'
  BY <1>7 DEF AgentDiscard, AgentGoes, txVars, cleanerVars
<1>8. ASSUME NEW a \in Agents, AgentLockQueue(a)
      PROVE  MutexOwners'
  BY <1>8 DEF AgentLockQueue, AgentGoes, txVars, cleanerVars
<1>9. ASSUME NEW a \in Agents, AgentPush(a)
      PROVE  MutexOwners'
  BY <1>9 DEF AgentPush, AgentGoes, txVars, cleanerVars
<1>10. ASSUME NEW a \in Agents, AgentSignal(a)
      PROVE  MutexOwners'
  BY <1>10 DEF AgentSignal, AgentGoes, txVars, cleanerVars
<1>11. CASE TXWait
  BY <1>11 DEF TXWait, TXGoes, agentVars, cleanerVars
<1>12. CASE TXWake
  BY <1>12 DEF TXWake, TXGoes, agentVars, cleanerVars
<1>13. CASE TXSpuriousWake
  BY <1>13 DEF TXSpuriousWake, TXGoes, agentVars, cleanerVars
<1>14. CASE TXLockQueue
  BY <1>14 DEF TXLockQueue, TXGoes, agentVars, cleanerVars
<1>15. CASE TXEmpty
  BY <1>15 DEF TXEmpty, TXGoes, agentVars, cleanerVars
<1>16. CASE TXPop
  BY <1>16 DEF TXPop, TXGoes, agentVars, cleanerVars
<1>17. CASE TXLockData
  BY <1>17 DEF TXLockData, TXGoes, agentVars, cleanerVars
<1>18. CASE TXMissing
  BY <1>18 DEF TXMissing, TXGoes, agentVars, cleanerVars
<1>19. CASE TXFind
  BY <1>19 DEF TXFind, TXGoes, agentVars, cleanerVars
<1>20. CASE TXCopy
  BY <1>20 DEF TXCopy, TXGoes, agentVars, cleanerVars
<1>21. CASE TXDispatch
  BY <1>21 DEF TXDispatch, TXGoes, agentVars, cleanerVars
<1>22. CASE CleanerLock
  BY <1>22 DEF CleanerLock, CleanerGoes, agentVars, txVars
<1>23. CASE CleanerCollect
  BY <1>23 DEF CleanerCollect, CleanerGoes, agentVars, txVars
<1>24. ASSUME NEW S \in SUBSET IDs, CleanerErase(S)
      PROVE  MutexOwners'
  BY <1>24 DEF CleanerErase, CleanerGoes, agentVars, txVars
<1>25. CASE UNCHANGED vars
  BY <1>25 DEF vars
<1> QED
  BY <1>1, <1>2, <1>3, <1>4, <1>5, <1>6, <1>7, <1>8, <1>9, <1>10,
     <1>11, <1>12, <1>13, <1>14, <1>15, <1>16, <1>17, <1>18, <1>19, <1>20,
     <1>21, <1>22, <1>23, <1>24, <1>25
  DEF Next, AgentLocks, AgentSteps, TXLocks, TXSteps, CleanerSteps

------------------------------------------------------------------------------
(* Looked-up entries. *)

\* The entries change only under the data mutex, which their reader holds.
LEMMA LookupStep ==
  ASSUME TypeOK, MutexOwners, LookupStillHolds, [Next]_vars
  PROVE  LookupStillHolds'
<1> USE HubFeedAssumption DEF TypeOK, MutexOwners, LookupStillHolds, AgentHoldsData, TXHoldsData,
            CleanerHoldsData
<1>1. ASSUME NEW a \in Agents, NEW id \in IDs, AgentReceive(a, id)
      PROVE  LookupStillHolds'
  BY <1>1 DEF AgentReceive, AgentGoes, txVars, cleanerVars
<1>2. ASSUME NEW a \in Agents, AgentExit(a)
      PROVE  LookupStillHolds'
  BY <1>2 DEF AgentExit, AgentGoes, txVars, cleanerVars
<1>3. ASSUME NEW a \in Agents, AgentLockData(a)
      PROVE  LookupStillHolds'
  BY <1>3 DEF AgentLockData, AgentGoes, txVars, cleanerVars
<1>4. ASSUME NEW a \in Agents, AgentFind(a)
      PROVE  LookupStillHolds'
  BY <1>4 DEF AgentFind, AgentGoes, txVars, cleanerVars
<1>5. ASSUME NEW a \in Agents, AgentCreate(a)
      PROVE  LookupStillHolds'
  BY <1>5 DEF AgentCreate, AgentGoes, txVars, cleanerVars
<1>6. ASSUME NEW a \in Agents, AgentSync(a)
      PROVE  LookupStillHolds'
  BY <1>6 DEF AgentSync, AgentGoes, txVars, cleanerVars
<1>7. ASSUME NEW a \in Agents, AgentDiscard(a)
      PROVE  LookupStillHolds'
  BY <1>7 DEF AgentDiscard, AgentGoes, txVars, cleanerVars
<1>8. ASSUME NEW a \in Agents, AgentLockQueue(a)
      PROVE  LookupStillHolds'
  BY <1>8 DEF AgentLockQueue, AgentGoes, txVars, cleanerVars
<1>9. ASSUME NEW a \in Agents, AgentPush(a)
      PROVE  LookupStillHolds'
  BY <1>9 DEF AgentPush, AgentGoes, txVars, cleanerVars
<1>10. ASSUME NEW a \in Agents, AgentSignal(a)
      PROVE  LookupStillHolds'
  BY <1>10 DEF AgentSignal, AgentGoes, txVars, cleanerVars
<1>11. CASE TXWait
  BY <1>11 DEF TXWait, TXGoes, agentVars, cleanerVars
<1>12. CASE TXWake
  BY <1>12 DEF TXWake, TXGoes, agentVars, cleanerVars
<1>13. CASE TXSpuriousWake
  BY <1>13 DEF TXSpuriousWake, TXGoes, agentVars, cleanerVars
<1>14. CASE TXLockQueue
  BY <1>14 DEF TXLockQueue, TXGoes, agentVars, cleanerVars
<1>15. CASE TXEmpty
  BY <1>15 DEF TXEmpty, TXGoes, agentVars, cleanerVars
<1>16. CASE TXPop
  BY <1>16 DEF TXPop, TXGoes, agentVars, cleanerVars
<1>17. CASE TXLockData
  BY <1>17 DEF TXLockData, TXGoes, agentVars, cleanerVars
<1>18. CASE TXMissing
  BY <1>18 DEF TXMissing, TXGoes, agentVars, cleanerVars
<1>19. CASE TXFind
  BY <1>19 DEF TXFind, TXGoes, agentVars, cleanerVars
<1>20. CASE TXCopy
  BY <1>20 DEF TXCopy, TXGoes, agentVars, cleanerVars
<1>21. CASE TXDispatch
  BY <1>21 DEF TXDispatch, TXGoes, agentVars, cleanerVars
<1>22. CASE CleanerLock
  BY <1>22 DEF CleanerLock, CleanerGoes, agentVars, txVars
<1>23. CASE CleanerCollect
  BY <1>23 DEF CleanerCollect, CleanerGoes, agentVars, txVars
<1>24. ASSUME NEW S \in SUBSET IDs, CleanerErase(S)
      PROVE  LookupStillHolds'
  BY <1>24 DEF CleanerErase, CleanerGoes, agentVars, txVars
<1>25. CASE UNCHANGED vars
  BY <1>25 DEF vars
<1> QED
  BY <1>1, <1>2, <1>3, <1>4, <1>5, <1>6, <1>7, <1>8, <1>9, <1>10,
     <1>11, <1>12, <1>13, <1>14, <1>15, <1>16, <1>17, <1>18, <1>19, <1>20,
     <1>21, <1>22, <1>23, <1>24, <1>25
  DEF Next, AgentLocks, AgentSteps, TXLocks, TXSteps, CleanerSteps

------------------------------------------------------------------------------
(* Refinement. *)

\* A step of the hub is a step of the relay: the entry is written (Accept),
\* copied for the clients (Forward), found missing (Skip), expires (Purge), or
\* only moves on the way from the agent to TX (a stutter).
LEMMA RelayStep ==
  ASSUME TypeOK, MutexOwners, LookupStillHolds, [Next]_vars
  PROVE  [Relay!Next]_(Relay!vars)
<1>1. ASSUME NEW a \in Agents, NEW id \in IDs, AgentReceive(a, id)
      PROVE  UNCHANGED Relay!vars
  BY <1>1 DEF TypeOK, AgentReceive, AgentGoes, txVars, cleanerVars, Pending,
     Relay!vars
<1>2. ASSUME NEW a \in Agents, AgentExit(a)
      PROVE  UNCHANGED Relay!vars
  BY <1>2 DEF TypeOK, AgentExit, AgentGoes, txVars, cleanerVars, Pending,
     Relay!vars
<1>3. ASSUME NEW a \in Agents, AgentLockData(a)
      PROVE  UNCHANGED Relay!vars
  BY <1>3 DEF TypeOK, AgentLockData, AgentGoes, txVars, cleanerVars, Pending,
     Relay!vars
<1>4. ASSUME NEW a \in Agents, AgentFind(a)
      PROVE  UNCHANGED Relay!vars
  BY <1>4 DEF TypeOK, AgentFind, AgentGoes, txVars, cleanerVars, Pending,
     Relay!vars
<1>5. ASSUME NEW a \in Agents, AgentCreate(a)
      PROVE  Relay!Next
  <2>1. agentID[a] \in IDs
    BY <1>5 DEF TypeOK, AgentCreate, AgentGoes
  <2>2. Relay!Accept(agentID[a])
    BY <1>5 DEF TypeOK, AgentCreate, AgentGoes, txVars, cleanerVars,
       Relay!Accept, Pending
  <2> QED
    BY <2>1, <2>2 DEF Relay!Next
<1>6. ASSUME NEW a \in Agents, AgentSync(a)
      PROVE  Relay!Next
  <2>1. agentID[a] \in IDs
    BY <1>6 DEF TypeOK, AgentSync, AgentGoes
  <2>2. Relay!Accept(agentID[a])
    BY <1>6 DEF TypeOK, AgentSync, AgentGoes, txVars, cleanerVars,
       Relay!Accept, LookupStillHolds, Pending
  <2> QED
    BY <2>1, <2>2 DEF Relay!Next
<1>7. ASSUME NEW a \in Agents, AgentDiscard(a)
      PROVE  UNCHANGED Relay!vars
  BY <1>7 DEF TypeOK, AgentDiscard, AgentGoes, txVars, cleanerVars, Pending,
     Relay!vars
<1>8. ASSUME NEW a \in Agents, AgentLockQueue(a)
      PROVE  UNCHANGED Relay!vars
  BY <1>8 DEF TypeOK, AgentLockQueue, AgentGoes, txVars, cleanerVars,
     Pending, Relay!vars
<1>9. ASSUME NEW a \in Agents, AgentPush(a)
      PROVE  UNCHANGED Relay!vars
  BY <1>9, RangeAppend DEF TypeOK, AgentPush, AgentGoes, txVars, cleanerVars,
     Pending, Relay!vars
<1>10. ASSUME NEW a \in Agents, AgentSignal(a)
      PROVE  UNCHANGED Relay!vars
  BY <1>10 DEF TypeOK, AgentSignal, AgentGoes, txVars, cleanerVars, Pending,
     Relay!vars
<1>11. ASSUME TXWait
      PROVE  UNCHANGED Relay!vars
  BY <1>11 DEF TypeOK, TXWait, TXGoes, agentVars, cleanerVars, Pending,
     Relay!vars
<1>12. ASSUME TXWake
      PROVE  UNCHANGED Relay!vars
  BY <1>12 DEF TypeOK, TXWake, TXGoes, agentVars, cleanerVars, Pending,
     Relay!vars
<1>13. ASSUME TXSpuriousWake
      PROVE  UNCHANGED Relay!vars
  BY <1>13 DEF TypeOK, TXSpuriousWake, TXGoes, agentVars, cleanerVars,
     Pending, Relay!vars
<1>14. ASSUME TXLockQueue
      PROVE  UNCHANGED Relay!vars
  BY <1>14 DEF TypeOK, TXLockQueue, TXGoes, agentVars, cleanerVars, Pending,
     Relay!vars
<1>15. ASSUME TXEmpty
      PROVE  UNCHANGED Relay!vars
  BY <1>15 DEF TypeOK, TXEmpty, TXGoes, agentVars, cleanerVars, Pending,
     Relay!vars
<1>16. ASSUME TXPop
      PROVE  UNCHANGED Relay!vars
  BY <1>16, RangeTail DEF TypeOK, TXPop, TXGoes, agentVars, cleanerVars,
     Pending, Relay!vars
<1>17. ASSUME TXLockData
      PROVE  UNCHANGED Relay!vars
  BY <1>17 DEF TypeOK, TXLockData, TXGoes, agentVars, cleanerVars, Pending,
     Relay!vars
<1>18. ASSUME TXMissing
      PROVE  Relay!Next
  <2>1. txID \in IDs
    BY <1>18 DEF TypeOK, TXMissing, TXGoes
  <2>2. Relay!Skip(txID)
    BY <1>18 DEF TypeOK, TXMissing, TXGoes, agentVars, cleanerVars,
       Relay!Skip, Pending
  <2> QED
    BY <2>1, <2>2 DEF Relay!Next
<1>19. ASSUME TXFind
      PROVE  UNCHANGED Relay!vars
  BY <1>19 DEF TypeOK, TXFind, TXGoes, agentVars, cleanerVars, Pending,
     Relay!vars
<1>20. ASSUME TXCopy
      PROVE  Relay!Next
  <2>1. txID \in IDs
    BY <1>20 DEF TypeOK, TXCopy, TXGoes
  <2>2. Relay!Forward(txID)
    BY <1>20 DEF TypeOK, TXCopy, TXGoes, agentVars, cleanerVars,
       Relay!Forward, LookupStillHolds, Pending
  <2> QED
    BY <2>1, <2>2 DEF Relay!Next
<1>21. ASSUME TXDispatch
      PROVE  UNCHANGED Relay!vars
  BY <1>21 DEF TypeOK, TXDispatch, TXGoes, agentVars, cleanerVars, Pending,
     Relay!vars
<1>22. ASSUME CleanerLock
      PROVE  UNCHANGED Relay!vars
  BY <1>22 DEF TypeOK, CleanerLock, CleanerGoes, agentVars, txVars, Pending,
     Relay!vars
<1>23. ASSUME CleanerCollect
      PROVE  UNCHANGED Relay!vars
  BY <1>23 DEF TypeOK, CleanerCollect, CleanerGoes, agentVars, txVars,
     Pending, Relay!vars
<1>24. ASSUME NEW S \in SUBSET IDs, CleanerErase(S)
      PROVE  Relay!Next
  <2>1. Relay!Purge(S)
    BY <1>24 DEF TypeOK, CleanerErase, CleanerGoes, agentVars, txVars,
       Relay!Purge, Pending
  <2> QED
    BY <2>1 DEF Relay!Next
<1>25. ASSUME UNCHANGED vars
      PROVE  UNCHANGED Relay!vars
  BY <1>25 DEF TypeOK, vars, Pending, Relay!vars
<1> QED
  BY <1>1, <1>2, <1>3, <1>4, <1>5, <1>6, <1>7, <1>8, <1>9, <1>10,
     <1>11, <1>12, <1>13, <1>14, <1>15, <1>16, <1>17, <1>18, <1>19, <1>20,
     <1>21, <1>22, <1>23, <1>24, <1>25
  DEF Next, AgentLocks, AgentSteps, TXLocks, TXSteps, CleanerSteps

------------------------------------------------------------------------------
(* The theorems. *)

\* Every variable keeps its type; what an agent pushes and what TX looks up is
\* always the ID of a received update.
THEOREM FeedTypes == Spec => []TypeOK
<1>1. Init => TypeOK
  BY EmptySeq DEF Init, TypeOK, AgentPCs, TXPCs, CleanerPCs
<1>2. TypeOK /\ [Next]_vars => TypeOK'
  BY TypeStep
<1> QED
  BY <1>1, <1>2, PTL DEF Spec

\* The data mutex and the queue mutex exclude, and no path keeps one locked.
THEOREM FeedMutualExclusion == Spec => []MutexOwners
<1>1. Init => MutexOwners
  BY HubFeedAssumption
  DEF Init, MutexOwners, AgentHoldsData, AgentHoldsQueue, TXHoldsData,
      TXHoldsQueue, CleanerHoldsData
<1>2. TypeOK /\ MutexOwners /\ [Next]_vars => MutexOwners'
  BY MutexStep
<1> QED
  BY <1>1, <1>2, FeedTypes, PTL DEF Spec

\* The two together, as the run checks them.
THEOREM FeedConsistent == Spec => []Consistent
<1>1. TypeOK /\ MutexOwners => Consistent
  BY DEF Consistent
<1> QED
  BY <1>1, FeedTypes, FeedMutualExclusion, PTL

\* What a thread looked up in the internal data still holds when it is used.
THEOREM FeedLookups == Spec => []LookupStillHolds
<1>1. Init => LookupStillHolds
  BY DEF Init, LookupStillHolds
<1>2. TypeOK /\ MutexOwners /\ LookupStillHolds /\ [Next]_vars
        => LookupStillHolds'
  BY LookupStep
<1> QED
  BY <1>1, <1>2, FeedTypes, FeedMutualExclusion, PTL DEF Spec

\* The hub's threads, locks and queue implement the relay.
THEOREM FeedImplementsRelay == Spec => RelaySpec
<1>1. Init => Relay!Init
  <2> SUFFICES ASSUME Init
               PROVE  stored = {} /\ fresh = {} /\ Pending = {}
    BY DEF Relay!Init
  <2>1. Range(queue) = {}
    BY DEF Init, Range
  <2> QED
    BY <2>1 DEF Init, Pending
<1>2. TypeOK /\ MutexOwners /\ LookupStillHolds /\ [Next]_vars
        => [Relay!Next]_(Relay!vars)
  BY RelayStep
<1> QED
  BY <1>1, <1>2, FeedTypes, FeedMutualExclusion, FeedLookups, PTL
  DEF Spec, RelaySpec, Relay!Spec

\* In the relay, of an update that is news either the entry is forwarded, and then
\* it is no news any more, or it expires.
THEOREM RelayNoUpdateFallsThrough == RelaySpec => []Relay!FreshIsPending
<1>1. Relay!Init => Relay!FreshIsPending
  BY DEF Relay!Init, Relay!FreshIsPending
<1>2. Relay!FreshIsPending /\ [Relay!Next]_(Relay!vars) => Relay!FreshIsPending'
  <2> SUFFICES ASSUME Relay!FreshIsPending, [Relay!Next]_(Relay!vars)
               PROVE  Relay!FreshIsPending'
    OBVIOUS
  <2> USE DEF Relay!FreshIsPending
  <2>1. ASSUME NEW id \in IDs, Relay!Accept(id)
        PROVE  Relay!FreshIsPending'
    BY <2>1 DEF Relay!Accept
  <2>2. ASSUME NEW id \in IDs, Relay!Forward(id)
        PROVE  Relay!FreshIsPending'
    BY <2>2 DEF Relay!Forward
  <2>3. ASSUME NEW id \in IDs, Relay!Skip(id)
        PROVE  Relay!FreshIsPending'
    BY <2>3 DEF Relay!Skip
  <2>4. ASSUME NEW S \in SUBSET IDs, Relay!Purge(S)
        PROVE  Relay!FreshIsPending'
    BY <2>4 DEF Relay!Purge
  <2>5. CASE UNCHANGED Relay!vars
    BY <2>5 DEF Relay!vars
  <2> QED
    BY <2>1, <2>2, <2>3, <2>4, <2>5 DEF Relay!Next
<1> QED
  BY <1>1, <1>2, PTL DEF RelaySpec, Relay!Spec

\* No stored update that TX has not copied is ever without its ID on the way:
\* what the relay guarantees holds of the hub.
THEOREM FeedNoLostUpdate == Spec => []NoLostUpdate
<1>1. RelaySpec => []Relay!FreshIsPending
  BY RelayNoUpdateFallsThrough
<1>2. Relay!FreshIsPending <=> NoLostUpdate
  BY DEF Relay!FreshIsPending, NoLostUpdate
<1> QED
  BY <1>1, <1>2, FeedImplementsRelay, PTL

------------------------------------------------------------------------------
(* Times of day. *)

\* A number is its days and its time of day.
LEMMA DivMod ==
  ASSUME NEW e \in Nat
  PROVE  /\ e \div Day \in Int
         /\ TimeOfDay(e) \in Times
         /\ e = Day * (e \div Day) + TimeOfDay(e)
BY HubDataAssumption DEF TimeOfDay, Times

\* Whatever is added in whole days leaves the time of day.
LEMMA ModOfSum ==
  ASSUME NEW q \in Int, NEW r \in Times
  PROVE  (Day * q + r) % Day = r
BY HubDataAssumption DEF Times

\* The date the hub gives a fix of d seconds ago is right, or a day ahead when
\* a midnight has passed since.
LEMMA EpochOfFix ==
  ASSUME NEW e \in Nat, NEW d \in 0 .. MaxDelay, e >= d
  PROVE  /\ TimeOfDay(e - d) \in Times
         /\ \/ e - TimeOfDay(e) + TimeOfDay(e - d) = e - d
            \/ /\ e - TimeOfDay(e) + TimeOfDay(e - d) = e - d + Day
               /\ d > 0
<1> DEFINE q == e \div Day
           r == TimeOfDay(e)
<1>1. q \in Int /\ r \in Times /\ e = Day * q + r /\ d \in Nat /\ d < Day /\ Day \in Nat
  BY DivMod, HubDataAssumption
<1> HIDE DEF q, r
<1>2. CASE d <= r
  <2>1. r - d \in Times /\ e - d = Day * q + (r - d)
    BY <1>1, <1>2 DEF Times
  <2>2. TimeOfDay(e - d) = r - d
    BY <2>1, <1>1, ModOfSum DEF TimeOfDay
  <2> QED
    BY <1>1, <2>1, <2>2 DEF r, Times
<1>3. CASE d > r
  <2>1. r - d + Day \in Times /\ q - 1 \in Int
    BY <1>1, <1>3 DEF Times
  <2>2. Day * q \in Int /\ Day * (q - 1) = Day * q - Day
    BY <1>1
  <2>3. e - d = Day * (q - 1) + (r - d + Day)
    BY <1>1, <2>2 DEF Times
  <2>4. TimeOfDay(e - d) = r - d + Day
    BY <2>1, <2>3, ModOfSum DEF TimeOfDay
  <2> QED
    BY <1>1, <1>3, <2>1, <2>4 DEF r, Times
<1> QED
  BY <1>1, <1>2, <1>3 DEF Times

------------------------------------------------------------------------------
(* The inductive invariant. *)

\* An epoch the hub may make of an update received at time e.
Dates(e, epoch) ==
  \/ epoch = 0
  \/ epoch >= e - MaxDelay /\ epoch < e + Day

\* The data thread is never late, and what its last clean-up left, or what was
\* stored since, is as young as the clean-up wants it.
CleanedUp ==
  /\ now <= cleaned + Period
  /\ \A id \in Stored :
       \/ created[id] >= cleaned
       \/ cleaned - entry[id].epoch <= TTL

\* An entry's epoch is one of those its first update may have been given.
Dated == \A id \in Stored : Dates(created[id], entry[id].epoch)

IInv == DataTypeOK /\ CleanedUp /\ Dated

------------------------------------------------------------------------------
(* Updates. *)

\* The epoch the hub makes of an update.
LEMMA EpochOfUpdate ==
  ASSUME now \in Start .. End, NEW u \in Arriving
  PROVE  /\ u \in Updates
         /\ ToEpoch(u.time, now) \in Nat
         /\ Dates(now, ToEpoch(u.time, now))
         /\ Defined(u.time) => ToEpoch(u.time, now) >= now - MaxDelay
<1> USE HubDataAssumption DEF ToEpoch
<1>1. u \in Updates /\ now \in Nat /\ now >= MaxDelay
  BY DEF Arriving
<1>2. CASE ~Defined(u.time)
  BY <1>1, <1>2 DEF Dates
<1>3. CASE Defined(u.time)
  <2>1. PICK d \in 0 .. MaxDelay : u.time = TimeOfDay(now - d)
    BY <1>3 DEF Arriving
  <2>2. now >= d /\ d \in Nat /\ MaxDelay \in Nat /\ Day \in Nat
    BY <1>1
  <2>3. /\ TimeOfDay(now) \in Nat /\ TimeOfDay(now) <= now
        /\ TimeOfDay(now - d) \in Nat
    <3>1. now - d \in Nat
      BY <1>1, <2>2
    <3>2. TimeOfDay(now) \in Times /\ TimeOfDay(now - d) \in Times
      BY <1>1, <3>1, DivMod
    <3>3. TimeOfDay(now) <= now
      BY <1>1 DEF TimeOfDay
    <3> QED
      BY <3>2, <3>3 DEF Times
  <2>4. ToEpoch(u.time, now) = now - TimeOfDay(now) + TimeOfDay(now - d)
    BY <1>3, <2>1
  <2>5. \/ ToEpoch(u.time, now) = now - d
        \/ ToEpoch(u.time, now) = now - d + Day /\ d > 0
    BY <1>1, <2>2, <2>4, EpochOfFix
  <2> HIDE DEF ToEpoch
  <2> QED
    BY <1>1, <2>2, <2>5 DEF Dates
<1> QED
  BY <1>2, <1>3

\* An update replaces optional fields by optional fields.
LEMMA SyncType ==
  ASSUME NEW data \in Updates, NEW u \in Updates
  PROVE  Sync(data, u) \in Updates
BY DEF Sync, Updates, Optional, Defined

------------------------------------------------------------------------------
(* The theorems. *)

\* The initial state satisfies the invariant.
LEMMA InitIInv == DataInit => IInv
<1> SUFFICES ASSUME DataInit PROVE IInv
  OBVIOUS
<1>1. DataTypeOK
  BY HubDataAssumption DEF DataInit, DataTypeOK
<1>2. Stored = {}
  BY DEF DataInit, Stored
<1> QED
  BY <1>1, <1>2, HubDataAssumption DEF DataInit, IInv, CleanedUp, Dated

\* Time passes as far as the next clean-up.
LEMMA TickIInv ==
  ASSUME IInv, Tick
  PROVE  IInv'
<1> USE HubDataAssumption DEF Tick
<1>1. DataTypeOK'
  BY DEF IInv, DataTypeOK
<1>2. CleanedUp'
  BY DEF IInv, DataTypeOK, CleanedUp, Stored
<1>3. Dated'
  BY DEF IInv, Dated, Stored
<1> QED
  BY <1>1, <1>2, <1>3 DEF IInv

\* A new entry is dated by its first update.
LEMMA DataCreateIInv ==
  ASSUME IInv, NEW id \in SourceIDs, NEW u \in Arriving, DataCreate(id, u)
  PROVE  IInv'
<1> DEFINE e == [data |-> u, epoch |-> ToEpoch(u.time, now),
                 lat |-> u.lat, elev |-> u.elev]
<1>1. /\ now \in Start .. End /\ now \in Nat /\ cleaned \in Start .. now
      /\ entry' = [entry EXCEPT ![id] = e] /\ created' = [created EXCEPT ![id] = now]
      /\ UNCHANGED <<now, cleaned>>
  BY HubDataAssumption DEF IInv, DataTypeOK, DataCreate
<1>2. e \in Entries /\ e # NoEntry /\ now # NoEntry
  <2>1. u \in Updates /\ ToEpoch(u.time, now) \in Nat
    BY <1>1, EpochOfUpdate
  <2>2. u.lat \in Optional(Latitudes) /\ u.elev \in Optional(Elevations)
    BY <2>1 DEF Updates
  <2>3. e \in Entries
    BY <2>1, <2>2 DEF Entries
  <2> QED
    BY <1>1, <2>3, NoEntryAssumption
<1>3. e.epoch = ToEpoch(u.time, now) /\ Dates(now, e.epoch)
  BY <1>1, EpochOfUpdate
<1> HIDE DEF e
<1>4. DataTypeOK'
  BY <1>1, <1>2 DEF IInv, DataTypeOK
<1>5. CleanedUp'
  BY <1>1, <1>2 DEF IInv, DataTypeOK, CleanedUp, Stored
<1>6. Dated'
  BY <1>1, <1>2, <1>3 DEF IInv, DataTypeOK, Dated, Stored
<1> QED
  BY <1>4, <1>5, <1>6 DEF IInv

\* A later update leaves the epoch.
LEMMA DataSyncIInv ==
  ASSUME IInv, NEW id \in SourceIDs, NEW u \in Arriving, DataSync(id, u)
  PROVE  IInv'
<1> DEFINE e == [entry[id] EXCEPT !.data = Sync(@, u)]
<1>1. /\ entry[id] \in Entries /\ u \in Updates
      /\ entry' = [entry EXCEPT ![id] = e]
      /\ UNCHANGED <<now, cleaned, created>>
  BY DEF IInv, DataTypeOK, DataSync, Arriving
<1>2. e \in Entries /\ e # NoEntry /\ e.epoch = entry[id].epoch
  <2>1. entry[id].data \in Updates
    BY <1>1 DEF Entries
  <2>2. Sync(entry[id].data, u) \in Updates
    BY <1>1, <2>1, SyncType
  <2> QED
    BY <1>1, <2>2, NoEntryAssumption DEF Entries
<1> HIDE DEF e
<1>3. DataTypeOK'
  BY <1>1, <1>2, NoEntryAssumption DEF IInv, DataTypeOK
<1>4. Stored' = Stored /\ \A i \in Stored : entry'[i].epoch = entry[i].epoch
  BY <1>1, <1>2, NoEntryAssumption DEF IInv, DataTypeOK, Stored
<1>5. CleanedUp' /\ Dated'
  BY <1>1, <1>4 DEF IInv, CleanedUp, Dated
<1> QED
  BY <1>3, <1>5 DEF IInv

\* The clean-up leaves no entry older than its lifetime.
LEMMA DataCleanupIInv ==
  ASSUME IInv, DataCleanup
  PROVE  IInv'
<1> DEFINE expired == {id \in Stored : Expired(entry[id])}
<1>1. /\ now \in Start .. End /\ cleaned' = now /\ now' = now
      /\ entry' = [id \in SourceIDs |-> IF id \in expired THEN NoEntry ELSE entry[id]]
      /\ created' = [id \in SourceIDs |-> IF id \in expired THEN NoEntry ELSE created[id]]
  BY DEF IInv, DataTypeOK, DataCleanup
<1>2. DataTypeOK'
  BY <1>1, HubDataAssumption DEF IInv, DataTypeOK
<1>3. ASSUME NEW id \in Stored'
      PROVE  /\ id \in Stored /\ ~Expired(entry[id])
             /\ entry'[id] = entry[id] /\ created'[id] = created[id]
  BY <1>1, <1>3 DEF Stored
<1>4. CleanedUp'
  <2>1. ASSUME NEW id \in Stored'
        PROVE  now - entry'[id].epoch <= TTL
    <3>1. entry[id] \in Entries
      BY <1>3, <2>1 DEF IInv, DataTypeOK, Stored
    <3>2. entry[id].epoch \in Nat
      BY <3>1 DEF Entries
    <3> QED
      BY <1>1, <1>3, <2>1, <3>2, HubDataAssumption DEF Expired
  <2> QED
    BY <1>1, <2>1, HubDataAssumption DEF CleanedUp
<1>5. Dated'
  BY <1>3 DEF IInv, Dated
<1> QED
  BY <1>2, <1>4, <1>5 DEF IInv

\* The invariant holds of every state.
LEMMA InvariantHolds == DataSpec => []IInv
<1>1. IInv /\ [DataNext]_dataVars => IInv'
  <2> SUFFICES ASSUME IInv, [DataNext]_dataVars PROVE IInv'
    OBVIOUS
  <2>1. CASE Tick
    BY <2>1, TickIInv
  <2>2. ASSUME NEW id \in SourceIDs, NEW u \in Arriving, DataCreate(id, u)
        PROVE  IInv'
    BY <2>2, DataCreateIInv
  <2>3. ASSUME NEW id \in SourceIDs, NEW u \in Arriving, DataSync(id, u)
        PROVE  IInv'
    BY <2>3, DataSyncIInv
  <2>4. CASE DataCleanup
    BY <2>4, DataCleanupIInv
  <2>5. CASE UNCHANGED dataVars
    BY <2>5 DEF dataVars, IInv, DataTypeOK, CleanedUp, Dated, Stored
  <2> QED
    BY <2>1, <2>2, <2>3, <2>4, <2>5 DEF DataNext, DataDiscard
<1> QED
  BY InitIInv, <1>1, PTL DEF DataSpec

\* What is known of a stored entry.
LEMMA EntryFacts ==
  ASSUME IInv, NEW id \in Stored
  PROVE  /\ entry[id].epoch \in Nat /\ created[id] \in Nat /\ now \in Nat
         /\ created[id] >= Start /\ created[id] <= now
         /\ Dates(created[id], entry[id].epoch)
<1>1. /\ id \in SourceIDs /\ entry[id] \in Entries
      /\ created[id] \in Start .. now /\ now \in Start .. End
  BY DEF IInv, DataTypeOK, Stored
<1>2. entry[id].epoch \in Nat
  BY <1>1 DEF Entries
<1> QED
  BY <1>1, <1>2, HubDataAssumption DEF IInv, Dated

\* The internal data is type correct.
THEOREM DataTypes == DataSpec => []DataTypeOK
<1>1. IInv => DataTypeOK
  BY DEF IInv
<1> QED
  BY InvariantHolds, <1>1, PTL

\* An entry is gone once its lifetime and a clean-up period are over, and up to
\* a day later when its first fix was dated a day ahead.
THEOREM DataLifetime == DataSpec => []LifetimeIsBounded
<1>1. IInv => LifetimeIsBounded
  <2> SUFFICES ASSUME IInv, NEW id \in Stored
               PROVE  LET ahead == IF entry[id].epoch > created[id]
                                   THEN entry[id].epoch - created[id] ELSE 0
                      IN /\ ahead < Day
                         /\ now - created[id] <= TTL + Period + ahead
    BY DEF LifetimeIsBounded
  <2>1. /\ entry[id].epoch \in Nat /\ created[id] \in Nat /\ now \in Nat
        /\ Dates(created[id], entry[id].epoch)
    BY EntryFacts
  <2>2. cleaned \in Nat
    BY HubDataAssumption DEF IInv, DataTypeOK
  <2>3. \/ created[id] >= cleaned
        \/ cleaned - entry[id].epoch <= TTL
    BY DEF IInv, CleanedUp
  <2> QED
    BY <2>1, <2>2, <2>3, HubDataAssumption DEF IInv, CleanedUp, Dates
<1> QED
  BY InvariantHolds, <1>1, PTL

\* Throttling silences a source for a bounded time.
THEOREM DataSilence == DataSpec => []SilenceIsBounded
<1>1. IInv => SilenceIsBounded
  <2> SUFFICES ASSUME IInv, NEW id \in Stored, NEW u \in Arriving,
                      Defined(u.time), Early(entry[id], u)
               PROVE  now - created[id] < Day + Throttle + MaxDelay
    BY DEF SilenceIsBounded
  <2>1. /\ entry[id].epoch \in Nat /\ created[id] \in Nat /\ now \in Nat
        /\ Dates(created[id], entry[id].epoch)
    BY EntryFacts
  <2>2. ToEpoch(u.time, now) \in Nat /\ ToEpoch(u.time, now) >= now - MaxDelay
    BY EpochOfUpdate DEF IInv, DataTypeOK
  <2>3. Throttle \in Nat /\ ToEpoch(u.time, now) - entry[id].epoch < Throttle
    BY HubDataAssumption DEF Early, Defined
  <2> QED
    BY <2>1, <2>2, <2>3, HubDataAssumption DEF Dates
<1> QED
  BY InvariantHolds, <1>1, PTL

\* The clean-up leaves an entry alone for its lifetime, but for the age its first
\* fix had on arrival.
THEOREM DataIsKept == DataSpec => KeptForItsLifetime
<1>1. IInv /\ [DataNext]_dataVars =>
        [\A id \in SourceIDs :
           entry[id] # NoEntry /\ entry'[id] = NoEntry /\ entry[id].epoch > 0
             => now - created[id] > TTL - MaxDelay]_dataVars
  <2> SUFFICES ASSUME IInv, [DataNext]_dataVars, NEW id \in SourceIDs, entry[id] # NoEntry,
                      entry'[id] = NoEntry, entry[id].epoch > 0
               PROVE  now - created[id] > TTL - MaxDelay
    OBVIOUS
  <2>1. id \in Stored /\ Expired(entry[id])
    <3>1. CASE DataCleanup
      BY <3>1 DEF DataCleanup, Stored
    <3>2. ASSUME NEW i \in SourceIDs, NEW u \in Arriving, DataCreate(i, u)
          PROVE  FALSE
      BY <3>2, NoEntryAssumption DEF DataCreate, IInv, DataTypeOK
    <3>3. ASSUME NEW i \in SourceIDs, NEW u \in Arriving, DataSync(i, u)
          PROVE  FALSE
      <4>1. IInv'
        BY <3>3, DataSyncIInv
      <4>2. created'[id] # NoEntry
        BY <3>3 DEF DataSync, IInv, DataTypeOK
      <4> QED
        BY <4>1, <4>2 DEF IInv, DataTypeOK
    <3> QED
      BY <3>1, <3>2, <3>3 DEF DataNext, Tick, DataDiscard, dataVars
  <2>2. /\ entry[id].epoch \in Nat /\ created[id] \in Nat /\ now \in Nat
        /\ Dates(created[id], entry[id].epoch)
    BY <2>1, EntryFacts
  <2> QED
    BY <2>1, <2>2, HubDataAssumption DEF Expired, Dates
<1> QED
  BY InvariantHolds, <1>1, PTL DEF DataSpec, KeptForItsLifetime

=============================================================================
