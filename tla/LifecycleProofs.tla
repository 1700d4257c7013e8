-------------------------- MODULE LifecycleProofs ---------------------------
(***************************************************************************)
(* Proofs about Lifecycle, for any number of connections, any hosts and any  *)
(* bounds.                                                                  *)
(***************************************************************************)
EXTENDS Lifecycle, RegistryProofs, SumTheorems

-----------------------------------------------------------------------------
(* The inductive invariant.  GuardsBalance needs to know that a task which   *)
(* has not chosen its protocol owns no upstream connection; the types need   *)
(* GuardsBalance, which keeps the count of guards from going below zero, and *)
(* that a connection being dialled or open holds a handle; the snapshot      *)
(* needs the rows it is about to read to stay in the map.                    *)

Early == {"none", "backlog", "spawned", "handshake"}

UpFollowsTask == \A c \in Conns : task[c] \in Early => up[c] = "none"

HandleHeld == \A c \in Conns : up[c] \in {"dialing", "open"} => handle[c] # 0

RowsPresent == /\ \A h \in rows : Present(h)
               /\ rows # {} => main = "snapshot"

IndInv == /\ TypeOK
          /\ UpFollowsTask
          /\ HandleHeld
          /\ RowsPresent
          /\ GuardsBalance

LEMMA GuardsFinite ==
    /\ IsFiniteSet(TaskGuards) /\ IsFiniteSet(UpstreamGuards)
    /\ Cardinality(TaskGuards) \in Nat /\ Cardinality(UpstreamGuards) \in Nat
<1>1. TaskGuards \in SUBSET Conns /\ UpstreamGuards \in SUBSET Conns
  BY DEF TaskGuards, UpstreamGuards
<1>2. IsFiniteSet(TaskGuards) /\ IsFiniteSet(UpstreamGuards)
  BY <1>1, FS_Subset, SetsAssumption
<1>3. QED
  BY <1>2, FS_CardinalityType

LEMMA GuardsFinitePrimed ==
    Cardinality(TaskGuards') \in Nat /\ Cardinality(UpstreamGuards') \in Nat
<1>1. TaskGuards' \in SUBSET Conns /\ UpstreamGuards' \in SUBSET Conns
  BY DEF TaskGuards, UpstreamGuards
<1>2. IsFiniteSet(TaskGuards') /\ IsFiniteSet(UpstreamGuards')
  BY <1>1, FS_Subset, SetsAssumption
<1>3. QED
  BY <1>2, FS_CardinalityType

\* The ways a step may change the guards.
LEMMA GuardsKept ==
    ASSUME GuardsBalance, UNCHANGED open_connections,
           TaskGuards' = TaskGuards, UpstreamGuards' = UpstreamGuards
    PROVE  GuardsBalance'
  BY DEF GuardsBalance

LEMMA TaskGuardTaken ==
    ASSUME GuardsBalance, track_open, NEW c, c \notin TaskGuards,
           TaskGuards' = TaskGuards \cup {c}, UpstreamGuards' = UpstreamGuards
    PROVE  GuardsBalance'
<1>1. Cardinality(TaskGuards \cup {c}) = Cardinality(TaskGuards) + 1
  BY GuardsFinite, FS_AddElement
<1>2. QED
  BY <1>1, GuardsFinite DEF GuardsBalance, track_open

LEMMA TaskGuardDropped ==
    ASSUME GuardsBalance, drop_guard, NEW c \in TaskGuards,
           TaskGuards' = TaskGuards \ {c}, UpstreamGuards' = UpstreamGuards
    PROVE  GuardsBalance'
<1>1. Cardinality(TaskGuards \ {c}) = Cardinality(TaskGuards) - 1
  BY GuardsFinite, FS_RemoveElement
<1>2. QED
  BY <1>1, GuardsFinite DEF GuardsBalance, drop_guard

LEMMA UpstreamGuardTaken ==
    ASSUME GuardsBalance, track_open, NEW c, c \notin UpstreamGuards,
           TaskGuards' = TaskGuards, UpstreamGuards' = UpstreamGuards \cup {c}
    PROVE  GuardsBalance'
<1>1. Cardinality(UpstreamGuards \cup {c}) = Cardinality(UpstreamGuards) + 1
  BY GuardsFinite, FS_AddElement
<1>2. QED
  BY <1>1, GuardsFinite DEF GuardsBalance, track_open

LEMMA UpstreamGuardDropped ==
    ASSUME GuardsBalance, drop_guard, NEW c \in UpstreamGuards,
           TaskGuards' = TaskGuards, UpstreamGuards' = UpstreamGuards \ {c}
    PROVE  GuardsBalance'
<1>1. Cardinality(UpstreamGuards \ {c}) = Cardinality(UpstreamGuards) - 1
  BY GuardsFinite, FS_RemoveElement
<1>2. QED
  BY <1>1, GuardsFinite DEF GuardsBalance, drop_guard

\* main's steps and the accept loop's own leave the guards alone.
LEMMA GuardsUntouched ==
    ASSUME GuardsBalance, UNCHANGED <<open_connections, task, up>>
    PROVE  GuardsBalance'
  BY DEF GuardsBalance, TaskGuards, UpstreamGuards

\* Every step returns or takes as many guards as it counts.
LEMMA NextGuardsBalance == IndInv /\ [Next]_vars => GuardsBalance'
<1> SUFFICES ASSUME IndInv, [Next]_vars PROVE GuardsBalance'
  OBVIOUS
<1>1. ASSUME NEW c \in Conns, Connect(c) PROVE GuardsBalance'
  <2>1. /\ TaskGuards' = TaskGuards
        /\ UpstreamGuards' = UpstreamGuards
    BY <1>1 DEF Connect, TaskGuards, UpstreamGuards, IndInv, TypeOK,
           UpFollowsTask, Early
  <2>2. QED
    BY <1>1, <2>1, GuardsKept DEF Connect, registryVars, IndInv
<1>2. ASSUME NEW c \in Conns, LoopAccepts(c) PROVE GuardsBalance'
  <2>1. /\ TaskGuards' = TaskGuards
        /\ UpstreamGuards' = UpstreamGuards
    BY <1>2 DEF LoopAccepts, TaskGuards, UpstreamGuards, IndInv, TypeOK,
           UpFollowsTask, Early
  <2>2. QED
    BY <1>2, <2>1, GuardsKept DEF LoopAccepts, registryVars, IndInv
<1>3. ASSUME NEW c \in Conns, HttpStarts(c) PROVE GuardsBalance'
  <2>1. /\ TaskGuards' = TaskGuards
        /\ UpstreamGuards' = UpstreamGuards
    BY <1>3 DEF HttpStarts, TaskGuards, UpstreamGuards, IndInv, TypeOK,
           UpFollowsTask, Early
  <2>2. QED
    BY <1>3, <2>1, GuardsKept DEF HttpStarts, registryVars, IndInv
<1>4. ASSUME NEW c \in Conns, HttpDialFails(c) PROVE GuardsBalance'
  <2>1. /\ TaskGuards' = TaskGuards
        /\ UpstreamGuards' = UpstreamGuards
    BY <1>4 DEF HttpDialFails, TaskGuards, UpstreamGuards, IndInv, TypeOK,
           UpFollowsTask, Early
  <2>2. QED
    BY <1>4, <2>1, GuardsKept DEF HttpDialFails, registryVars, IndInv
<1>5. ASSUME NEW c \in Conns, UdpStarts(c) PROVE GuardsBalance'
  <2>1. /\ TaskGuards' = TaskGuards
        /\ UpstreamGuards' = UpstreamGuards
    BY <1>5 DEF UdpStarts, TaskGuards, UpstreamGuards, IndInv, TypeOK,
           UpFollowsTask, Early
  <2>2. QED
    BY <1>5, <2>1, GuardsKept DEF UdpStarts, registryVars, IndInv
<1>6. ASSUME NEW c \in Conns, RelayPolled(c) PROVE GuardsBalance'
  <2>1. /\ TaskGuards' = TaskGuards
        /\ UpstreamGuards' = UpstreamGuards
    BY <1>6 DEF RelayPolled, TaskGuards, UpstreamGuards, IndInv, TypeOK,
           UpFollowsTask, Early
  <2>2. QED
    BY <1>6, <2>1, GuardsKept DEF RelayPolled, registryVars, IndInv
<1>7. ASSUME NEW c \in Conns, RelayYields(c) PROVE GuardsBalance'
  <2>1. /\ TaskGuards' = TaskGuards
        /\ UpstreamGuards' = UpstreamGuards
    BY <1>7 DEF RelayYields, TaskGuards, UpstreamGuards, IndInv, TypeOK,
           UpFollowsTask, Early
  <2>2. QED
    BY <1>7, <2>1, GuardsKept DEF RelayYields, registryVars, IndInv
<1>8. ASSUME NEW c \in Conns, RelayFails(c) PROVE GuardsBalance'
  <2>1. /\ TaskGuards' = TaskGuards
        /\ UpstreamGuards' = UpstreamGuards
    BY <1>8 DEF RelayFails, TaskGuards, UpstreamGuards, IndInv, TypeOK,
           UpFollowsTask, Early
  <2>2. QED
    BY <1>8, <2>1, GuardsKept DEF RelayFails, registryVars, IndInv
<1>9. ASSUME NEW c \in Conns, NEW addr \in Ips \cup {NoIp}, TunnelOpens(c, addr)
      PROVE  GuardsBalance'
  <2>1. /\ TaskGuards' = TaskGuards
        /\ UpstreamGuards' = UpstreamGuards
    BY <1>9 DEF TunnelOpens, TaskGuards, UpstreamGuards, IndInv, TypeOK,
           UpFollowsTask, Early
  <2>2. QED
    BY <1>9, <2>1, GuardsKept DEF TunnelOpens, registryVars, IndInv
<1>10. ASSUME NEW c \in Conns, NEW host \in Targets, TunnelDials(c, host)
      PROVE  GuardsBalance'
  <2>1. /\ TaskGuards' = TaskGuards
        /\ UpstreamGuards' = UpstreamGuards
    BY <1>10 DEF TunnelDials, TaskGuards, UpstreamGuards, IndInv, TypeOK,
           UpFollowsTask, Early
  <2>2. QED
    BY <1>10, <2>1, GuardsKept DEF TunnelDials, registryVars, IndInv
<1>11. ASSUME NEW c \in Conns, NEW host \in Targets, HttpDials(c, host)
      PROVE  GuardsBalance'
  <2>1. /\ TaskGuards' = TaskGuards
        /\ UpstreamGuards' = UpstreamGuards
    BY <1>11 DEF HttpDials, TaskGuards, UpstreamGuards, IndInv, TypeOK,
           UpFollowsTask, Early
  <2>2. QED
    BY <1>11, <2>1, GuardsKept DEF HttpDials, registryVars, IndInv
<1>12. ASSUME NEW c \in Conns, HandshakeFails(c) PROVE GuardsBalance'
  <2>1. /\ c \in TaskGuards
        /\ TaskGuards' = TaskGuards \ {c}
        /\ UpstreamGuards' = UpstreamGuards
    BY <1>12 DEF HandshakeFails, TaskGuards, UpstreamGuards, IndInv, TypeOK,
           UpFollowsTask, Early
  <2>2. QED
    BY <1>12, <2>1, TaskGuardDropped DEF HandshakeFails, registryVars, IndInv
<1>13. ASSUME NEW c \in Conns, TunnelRefused(c) PROVE GuardsBalance'
  <2>1. /\ c \in TaskGuards
        /\ TaskGuards' = TaskGuards \ {c}
        /\ UpstreamGuards' = UpstreamGuards
    BY <1>13 DEF TunnelRefused, TaskGuards, UpstreamGuards, IndInv, TypeOK,
           UpFollowsTask, Early
  <2>2. QED
    BY <1>13, <2>1, TaskGuardDropped DEF TunnelRefused, registryVars, IndInv
<1>14. ASSUME NEW c \in Conns, TunnelEnds(c) PROVE GuardsBalance'
  <2>1. /\ c \in TaskGuards
        /\ TaskGuards' = TaskGuards \ {c}
        /\ UpstreamGuards' = UpstreamGuards
    BY <1>14 DEF TunnelEnds, TaskGuards, UpstreamGuards, IndInv, TypeOK,
           UpFollowsTask, Early
  <2>2. QED
    BY <1>14, <2>1, TaskGuardDropped DEF TunnelEnds, registryVars, IndInv
<1>15. ASSUME NEW c \in Conns, HttpEnds(c) PROVE GuardsBalance'
  <2>1. /\ c \in TaskGuards
        /\ TaskGuards' = TaskGuards \ {c}
        /\ UpstreamGuards' = UpstreamGuards
    BY <1>15 DEF HttpEnds, TaskGuards, UpstreamGuards, IndInv, TypeOK,
           UpFollowsTask, Early
  <2>2. QED
    BY <1>15, <2>1, TaskGuardDropped DEF HttpEnds, registryVars, IndInv
<1>16. ASSUME NEW c \in Conns, UdpEnds(c) PROVE GuardsBalance'
  <2>1. /\ c \in TaskGuards
        /\ TaskGuards' = TaskGuards \ {c}
        /\ UpstreamGuards' = UpstreamGuards
    BY <1>16 DEF UdpEnds, TaskGuards, UpstreamGuards, IndInv, TypeOK,
           UpFollowsTask, Early
  <2>2. QED
    BY <1>16, <2>1, TaskGuardDropped DEF UdpEnds, registryVars, IndInv
<1>17. ASSUME NEW c \in Conns, TaskStarts(c) PROVE GuardsBalance'
  <2>1. /\ c \notin TaskGuards
        /\ TaskGuards' = TaskGuards \cup {c}
        /\ UpstreamGuards' = UpstreamGuards
    BY <1>17 DEF TaskStarts, TaskGuards, UpstreamGuards, IndInv, TypeOK,
           UpFollowsTask, Early
  <2>2. QED
    BY <1>17, <2>1, TaskGuardTaken DEF TaskStarts, registryVars, IndInv
<1>18. ASSUME NEW c \in Conns, NEW addr \in Ips \cup {NoIp}, HttpOpens(c, addr)
      PROVE  GuardsBalance'
  <2>1. /\ c \notin UpstreamGuards
        /\ TaskGuards' = TaskGuards
        /\ UpstreamGuards' = UpstreamGuards \cup {c}
    BY <1>18 DEF HttpOpens, TaskGuards, UpstreamGuards, IndInv, TypeOK,
           UpFollowsTask, Early
  <2>2. QED
    BY <1>18, <2>1, UpstreamGuardTaken DEF HttpOpens, UpstreamGuard, registryVars, IndInv
<1>19. ASSUME NEW c \in Conns, HttpUpstreamEnds(c) PROVE GuardsBalance'
  <2>1. /\ c \in UpstreamGuards
        /\ TaskGuards' = TaskGuards
        /\ UpstreamGuards' = UpstreamGuards \ {c}
    BY <1>19 DEF HttpUpstreamEnds, TaskGuards, UpstreamGuards, IndInv, TypeOK,
           UpFollowsTask, Early
  <2>2. QED
    BY <1>19, <2>1, UpstreamGuardDropped DEF HttpUpstreamEnds, registryVars, IndInv
<1>20. ASSUME NEW c \in Conns, NEW host \in Targets, RelayOpens(c, host)
      PROVE  GuardsBalance'
  BY <1>20, GuardsUntouched DEF RelayOpens, IndInv
<1>21. ASSUME NEW c \in Conns, Relays(c) PROVE GuardsBalance'
  BY <1>21, GuardsUntouched DEF Relays, IndInv
<1>22. CASE LoopPolled \/ LoopYields \/ ChildExits \/ DeadlinePasses \/ MainStep
  BY <1>22, GuardsUntouched
     DEF LoopPolled, LoopYields, ChildExits, DeadlinePasses, MainStep, DrainReturns,
         LookupAnswers, LookupFails, SnapshotStarts, SnapshotReads, Exit,
         registryVars, connVars, IndInv
<1>23. CASE UNCHANGED vars
  BY <1>23, GuardsUntouched DEF vars, registryVars, connVars, IndInv
<1>24. QED
  BY <1>1, <1>2, <1>3, <1>4, <1>5, <1>6, <1>7, <1>8, <1>9, <1>10, <1>11,
     <1>12, <1>13, <1>14, <1>15, <1>16, <1>17, <1>18, <1>19, <1>20, <1>21,
     <1>22, <1>23
     DEF Next, TaskStep, Terminated

\* The count of guards is a number at every step: an unsigned counter never
\* wraps.
LEMMA CountIsNat == GuardsBalance' => open_connections' \in Nat
  BY GuardsFinitePrimed DEF GuardsBalance

\* What the steps that leave the map and the heap alone have to show.
LEMMA RegistryKept ==
    ASSUME RegistryTypeOK, UNCHANGED <<endpoints, heap>>, open_connections' \in Nat
    PROVE  RegistryTypeOK'
  BY DEF RegistryTypeOK

\* Every step keeps the types and the shape of a connection.
LEMMA NextState ==
    IndInv /\ [Next]_vars => TypeOK' /\ UpFollowsTask' /\ HandleHeld' /\ RowsPresent'
<1> SUFFICES ASSUME IndInv, [Next]_vars
             PROVE  TypeOK' /\ UpFollowsTask' /\ HandleHeld' /\ RowsPresent'
  OBVIOUS
<1> DEFINE Goal == TypeOK' /\ UpFollowsTask' /\ HandleHeld' /\ RowsPresent'
<1>0. /\ TypeOK /\ UpFollowsTask /\ HandleHeld /\ RowsPresent /\ RegistryTypeOK
      /\ open_connections' \in Nat
  BY NextGuardsBalance, CountIsNat DEF IndInv, TypeOK
<1>1. ASSUME NEW c \in Conns, Connect(c) PROVE Goal
  <2>1. RegistryTypeOK' /\ UNCHANGED heap /\ UNCHANGED endpoints
    BY <1>1, <1>0, RegistryKept DEF Connect, registryVars
  <2>2. TypeOK'
    BY <1>1, <1>0, <2>1 DEF Connect, TypeOK, mainVars, loopVars
  <2>3. UpFollowsTask' /\ HandleHeld' /\ RowsPresent'
    BY <1>1, <1>0, <2>1
       DEF Connect, TypeOK, UpFollowsTask, HandleHeld, RowsPresent, Early, Present, mainVars
  <2>4. QED
    BY <2>2, <2>3
<1>2. ASSUME NEW c \in Conns, LoopAccepts(c) PROVE Goal
  <2>1. RegistryTypeOK' /\ UNCHANGED heap /\ UNCHANGED endpoints
    BY <1>2, <1>0, RegistryKept DEF LoopAccepts, registryVars
  <2>2. TypeOK'
    BY <1>2, <1>0, <2>1 DEF LoopAccepts, TypeOK, mainVars, loopVars
  <2>3. UpFollowsTask' /\ HandleHeld' /\ RowsPresent'
    BY <1>2, <1>0, <2>1
       DEF LoopAccepts, TypeOK, UpFollowsTask, HandleHeld, RowsPresent, Early, Present, mainVars
  <2>4. QED
    BY <2>2, <2>3
<1>3. ASSUME NEW c \in Conns, TaskStarts(c) PROVE Goal
  <2>1. RegistryTypeOK' /\ UNCHANGED heap /\ UNCHANGED endpoints
    BY <1>3, <1>0, RegistryKept DEF TaskStarts, registryVars
  <2>2. TypeOK'
    BY <1>3, <1>0, <2>1 DEF TaskStarts, TypeOK, mainVars, loopVars
  <2>3. UpFollowsTask' /\ HandleHeld' /\ RowsPresent'
    BY <1>3, <1>0, <2>1
       DEF TaskStarts, TypeOK, UpFollowsTask, HandleHeld, RowsPresent, Early, Present, mainVars
  <2>4. QED
    BY <2>2, <2>3
<1>4. ASSUME NEW c \in Conns, HandshakeFails(c) PROVE Goal
  <2>1. RegistryTypeOK' /\ UNCHANGED heap /\ UNCHANGED endpoints
    BY <1>4, <1>0, RegistryKept DEF HandshakeFails, registryVars
  <2>2. TypeOK'
    BY <1>4, <1>0, <2>1 DEF HandshakeFails, TypeOK, mainVars, loopVars
  <2>3. UpFollowsTask' /\ HandleHeld' /\ RowsPresent'
    BY <1>4, <1>0, <2>1
       DEF HandshakeFails, TypeOK, UpFollowsTask, HandleHeld, RowsPresent, Early, Present, mainVars
  <2>4. QED
    BY <2>2, <2>3
<1>5. ASSUME NEW c \in Conns, TunnelRefused(c) PROVE Goal
  <2>1. RegistryTypeOK' /\ UNCHANGED heap /\ UNCHANGED endpoints
    BY <1>5, <1>0, RegistryKept DEF TunnelRefused, registryVars
  <2>2. TypeOK'
    BY <1>5, <1>0, <2>1 DEF TunnelRefused, TypeOK, mainVars, loopVars
  <2>3. UpFollowsTask' /\ HandleHeld' /\ RowsPresent'
    BY <1>5, <1>0, <2>1
       DEF TunnelRefused, TypeOK, UpFollowsTask, HandleHeld, RowsPresent, Early, Present, mainVars
  <2>4. QED
    BY <2>2, <2>3
<1>6. ASSUME NEW c \in Conns, TunnelEnds(c) PROVE Goal
  <2>1. RegistryTypeOK' /\ UNCHANGED heap /\ UNCHANGED endpoints
    BY <1>6, <1>0, RegistryKept DEF TunnelEnds, registryVars
  <2>2. TypeOK'
    BY <1>6, <1>0, <2>1 DEF TunnelEnds, TypeOK, mainVars, loopVars
  <2>3. UpFollowsTask' /\ HandleHeld' /\ RowsPresent'
    BY <1>6, <1>0, <2>1
       DEF TunnelEnds, TypeOK, UpFollowsTask, HandleHeld, RowsPresent, Early, Present, mainVars
  <2>4. QED
    BY <2>2, <2>3
<1>7. ASSUME NEW c \in Conns, HttpStarts(c) PROVE Goal
  <2>1. RegistryTypeOK' /\ UNCHANGED heap /\ UNCHANGED endpoints
    BY <1>7, <1>0, RegistryKept DEF HttpStarts, registryVars
  <2>2. TypeOK'
    BY <1>7, <1>0, <2>1 DEF HttpStarts, TypeOK, mainVars, loopVars
  <2>3. UpFollowsTask' /\ HandleHeld' /\ RowsPresent'
    BY <1>7, <1>0, <2>1
       DEF HttpStarts, TypeOK, UpFollowsTask, HandleHeld, RowsPresent, Early, Present, mainVars
  <2>4. QED
    BY <2>2, <2>3
<1>8. ASSUME NEW c \in Conns, HttpDialFails(c) PROVE Goal
  <2>1. RegistryTypeOK' /\ UNCHANGED heap /\ UNCHANGED endpoints
    BY <1>8, <1>0, RegistryKept DEF HttpDialFails, registryVars
  <2>2. TypeOK'
    BY <1>8, <1>0, <2>1 DEF HttpDialFails, TypeOK, mainVars, loopVars
  <2>3. UpFollowsTask' /\ HandleHeld' /\ RowsPresent'
    BY <1>8, <1>0, <2>1
       DEF HttpDialFails, TypeOK, UpFollowsTask, HandleHeld, RowsPresent, Early, Present, mainVars
  <2>4. QED
    BY <2>2, <2>3
<1>9. ASSUME NEW c \in Conns, HttpUpstreamEnds(c) PROVE Goal
  <2>1. RegistryTypeOK' /\ UNCHANGED heap /\ UNCHANGED endpoints
    BY <1>9, <1>0, RegistryKept DEF HttpUpstreamEnds, registryVars
  <2>2. TypeOK'
    BY <1>9, <1>0, <2>1 DEF HttpUpstreamEnds, TypeOK, mainVars, loopVars
  <2>3. UpFollowsTask' /\ HandleHeld' /\ RowsPresent'
    BY <1>9, <1>0, <2>1
       DEF HttpUpstreamEnds, TypeOK, UpFollowsTask, HandleHeld, RowsPresent, Early, Present, mainVars
  <2>4. QED
    BY <2>2, <2>3
<1>10. ASSUME NEW c \in Conns, HttpEnds(c) PROVE Goal
  <2>1. RegistryTypeOK' /\ UNCHANGED heap /\ UNCHANGED endpoints
    BY <1>10, <1>0, RegistryKept DEF HttpEnds, registryVars
  <2>2. TypeOK'
    BY <1>10, <1>0, <2>1 DEF HttpEnds, TypeOK, mainVars, loopVars
  <2>3. UpFollowsTask' /\ HandleHeld' /\ RowsPresent'
    BY <1>10, <1>0, <2>1
       DEF HttpEnds, TypeOK, UpFollowsTask, HandleHeld, RowsPresent, Early, Present, mainVars
  <2>4. QED
    BY <2>2, <2>3
<1>11. ASSUME NEW c \in Conns, UdpStarts(c) PROVE Goal
  <2>1. RegistryTypeOK' /\ UNCHANGED heap /\ UNCHANGED endpoints
    BY <1>11, <1>0, RegistryKept DEF UdpStarts, registryVars
  <2>2. TypeOK'
    BY <1>11, <1>0, <2>1 DEF UdpStarts, TypeOK, mainVars, loopVars
  <2>3. UpFollowsTask' /\ HandleHeld' /\ RowsPresent'
    BY <1>11, <1>0, <2>1
       DEF UdpStarts, TypeOK, UpFollowsTask, HandleHeld, RowsPresent, Early, Present, mainVars
  <2>4. QED
    BY <2>2, <2>3
<1>12. ASSUME NEW c \in Conns, RelayPolled(c) PROVE Goal
  <2>1. RegistryTypeOK' /\ UNCHANGED heap /\ UNCHANGED endpoints
    BY <1>12, <1>0, RegistryKept DEF RelayPolled, registryVars
  <2>2. TypeOK'
    BY <1>12, <1>0, <2>1 DEF RelayPolled, TypeOK, mainVars, loopVars
  <2>3. UpFollowsTask' /\ HandleHeld' /\ RowsPresent'
    BY <1>12, <1>0, <2>1
       DEF RelayPolled, TypeOK, UpFollowsTask, HandleHeld, RowsPresent, Early, Present, mainVars
  <2>4. QED
    BY <2>2, <2>3
<1>13. ASSUME NEW c \in Conns, RelayYields(c) PROVE Goal
  <2>1. RegistryTypeOK' /\ UNCHANGED heap /\ UNCHANGED endpoints
    BY <1>13, <1>0, RegistryKept DEF RelayYields, registryVars
  <2>2. TypeOK'
    BY <1>13, <1>0, <2>1 DEF RelayYields, TypeOK, mainVars, loopVars
  <2>3. UpFollowsTask' /\ HandleHeld' /\ RowsPresent'
    BY <1>13, <1>0, <2>1
       DEF RelayYields, TypeOK, UpFollowsTask, HandleHeld, RowsPresent, Early, Present, mainVars
  <2>4. QED
    BY <2>2, <2>3
<1>14. ASSUME NEW c \in Conns, RelayFails(c) PROVE Goal
  <2>1. RegistryTypeOK' /\ UNCHANGED heap /\ UNCHANGED endpoints
    BY <1>14, <1>0, RegistryKept DEF RelayFails, registryVars
  <2>2. TypeOK'
    BY <1>14, <1>0, <2>1 DEF RelayFails, TypeOK, mainVars, loopVars
  <2>3. UpFollowsTask' /\ HandleHeld' /\ RowsPresent'
    BY <1>14, <1>0, <2>1
       DEF RelayFails, TypeOK, UpFollowsTask, HandleHeld, RowsPresent, Early, Present, mainVars
  <2>4. QED
    BY <2>2, <2>3
<1>15. ASSUME NEW c \in Conns, UdpEnds(c) PROVE Goal
  <2>1. RegistryTypeOK' /\ UNCHANGED heap /\ UNCHANGED endpoints
    BY <1>15, <1>0, RegistryKept DEF UdpEnds, registryVars
  <2>2. TypeOK'
    BY <1>15, <1>0, <2>1 DEF UdpEnds, TypeOK, mainVars, loopVars
  <2>3. UpFollowsTask' /\ HandleHeld' /\ RowsPresent'
    BY <1>15, <1>0, <2>1
       DEF UdpEnds, TypeOK, UpFollowsTask, HandleHeld, RowsPresent, Early, Present, mainVars
  <2>4. QED
    BY <2>2, <2>3
<1>16. ASSUME NEW c \in Conns, NEW host \in Targets, TunnelDials(c, host) PROVE Goal
  <2>1. host \in Hosts
    BY SetsAssumption
  <2>2. /\ HeapWith(host) \in Seq(EndpointStats)
        /\ Len(heap) \in Nat /\ Len(HeapWith(host)) \in Nat
        /\ Len(heap) <= Len(HeapWith(host))
        /\ endpoint(host) \in 1 .. Len(HeapWith(host))
        /\ MapWith(host) \in [Hosts -> 0 .. Len(HeapWith(host))]
    BY <1>0, <2>1, EndpointType
  <2>3. heap' \in Seq(EndpointStats) /\ Len(heap') = Len(HeapWith(host))
    BY <1>16, <2>2 DEF TunnelDials
  <2>4. RegistryTypeOK'
    BY <1>16, <1>0, <2>2, <2>3 DEF TunnelDials, RegistryTypeOK
  <2>5. handle' \in [Conns -> 0 .. Len(heap')]
    BY <1>16, <1>0, <2>2, <2>3 DEF TunnelDials, TypeOK
  <2>6. TypeOK'
    BY <1>16, <1>0, <2>4, <2>5 DEF TunnelDials, TypeOK, mainVars, loopVars
  <2>7. UpFollowsTask' /\ HandleHeld'
    BY <1>16, <1>0, <2>2 DEF TunnelDials, TypeOK, UpFollowsTask, HandleHeld, Early
  <2>8. RowsPresent'
    BY <1>16, <1>0, <2>1, <2>2
       DEF TunnelDials, TypeOK, RegistryTypeOK, RowsPresent, Present, MapWith, mainVars
  <2>9. QED
    BY <2>6, <2>7, <2>8
<1>17. ASSUME NEW c \in Conns, NEW host \in Targets, HttpDials(c, host) PROVE Goal
  <2>1. host \in Hosts
    BY SetsAssumption
  <2>2. /\ HeapWith(host) \in Seq(EndpointStats)
        /\ Len(heap) \in Nat /\ Len(HeapWith(host)) \in Nat
        /\ Len(heap) <= Len(HeapWith(host))
        /\ endpoint(host) \in 1 .. Len(HeapWith(host))
        /\ MapWith(host) \in [Hosts -> 0 .. Len(HeapWith(host))]
    BY <1>0, <2>1, EndpointType
  <2>3. heap' \in Seq(EndpointStats) /\ Len(heap') = Len(HeapWith(host))
    BY <1>17, <2>2 DEF HttpDials
  <2>4. RegistryTypeOK'
    BY <1>17, <1>0, <2>2, <2>3 DEF HttpDials, RegistryTypeOK
  <2>5. handle' \in [Conns -> 0 .. Len(heap')]
    BY <1>17, <1>0, <2>2, <2>3 DEF HttpDials, TypeOK
  <2>6. TypeOK'
    BY <1>17, <1>0, <2>4, <2>5 DEF HttpDials, TypeOK, mainVars, loopVars
  <2>7. UpFollowsTask' /\ HandleHeld'
    BY <1>17, <1>0, <2>2 DEF HttpDials, TypeOK, UpFollowsTask, HandleHeld, Early
  <2>8. RowsPresent'
    BY <1>17, <1>0, <2>1, <2>2
       DEF HttpDials, TypeOK, RegistryTypeOK, RowsPresent, Present, MapWith, mainVars
  <2>9. QED
    BY <2>6, <2>7, <2>8
<1>18. ASSUME NEW c \in Conns, NEW host \in Targets, RelayOpens(c, host) PROVE Goal
  <2>1. host \in Hosts
    BY SetsAssumption
  <2>2. /\ HeapWith(host) \in Seq(EndpointStats)
        /\ Len(heap) \in Nat /\ Len(HeapWith(host)) \in Nat
        /\ Len(heap) <= Len(HeapWith(host))
        /\ endpoint(host) \in 1 .. Len(HeapWith(host))
        /\ MapWith(host) \in [Hosts -> 0 .. Len(HeapWith(host))]
    BY <1>0, <2>1, EndpointType
  <2>3. heap' \in Seq(EndpointStats) /\ Len(heap') = Len(HeapWith(host))
    <3>0. HeapWith(host)[endpoint(host)] \in EndpointStats
      BY <2>2
    <3>1. add_connection(HeapWith(host)[endpoint(host)]) \in EndpointStats
      BY <3>0, StatsTypes
    <3>2. QED
      BY <1>18, <2>2, <3>1, HeapUpdateType DEF RelayOpens
  <2>4. RegistryTypeOK'
    BY <1>18, <1>0, <2>2, <2>3 DEF RelayOpens, RegistryTypeOK
  <2>5. handle' \in [Conns -> 0 .. Len(heap')]
    BY <1>18, <1>0, <2>2, <2>3 DEF RelayOpens, TypeOK
  <2>6. TypeOK'
    BY <1>18, <1>0, <2>4, <2>5 DEF RelayOpens, TypeOK, mainVars, loopVars
  <2>7. UpFollowsTask' /\ HandleHeld'
    BY <1>18, <1>0, <2>2 DEF RelayOpens, TypeOK, UpFollowsTask, HandleHeld, Early
  <2>8. RowsPresent'
    BY <1>18, <1>0, <2>1, <2>2
       DEF RelayOpens, TypeOK, RegistryTypeOK, RowsPresent, Present, MapWith, mainVars
  <2>9. QED
    BY <2>6, <2>7, <2>8
<1>19. ASSUME NEW c \in Conns, NEW addr \in Ips \cup {NoIp}, TunnelOpens(c, addr) PROVE Goal
  <2>1. handle[c] \in 1 .. Len(heap) /\ heap \in Seq(EndpointStats)
    BY <1>19, <1>0 DEF TunnelOpens, TypeOK, RegistryTypeOK, HandleHeld, Counting
  <2>2. heap' \in Seq(EndpointStats) /\ Len(heap') = Len(heap)
    <3>0. heap[handle[c]] \in EndpointStats
      BY <2>1
    <3>1. add_connection(observe_ip(heap[handle[c]], addr)) \in EndpointStats
      BY <3>0, StatsTypes
    <3>2. QED
      BY <1>19, <2>1, <3>1, HeapUpdateType DEF TunnelOpens
  <2>3. RegistryTypeOK'
    BY <1>19, <1>0, <2>2 DEF TunnelOpens, RegistryTypeOK
  <2>4. TypeOK'
    BY <1>19, <1>0, <2>2, <2>3 DEF TunnelOpens, TypeOK, mainVars, loopVars
  <2>5. UpFollowsTask' /\ HandleHeld' /\ RowsPresent'
    BY <1>19, <1>0
       DEF TunnelOpens, TypeOK, UpFollowsTask, HandleHeld, RowsPresent, Early, Present, mainVars
  <2>6. QED
    BY <2>4, <2>5
<1>20. ASSUME NEW c \in Conns, NEW addr \in Ips \cup {NoIp}, HttpOpens(c, addr) PROVE Goal
  <2>1. handle[c] \in 1 .. Len(heap) /\ heap \in Seq(EndpointStats)
    BY <1>20, <1>0 DEF HttpOpens, TypeOK, RegistryTypeOK, HandleHeld, Counting
  <2>2. heap' \in Seq(EndpointStats) /\ Len(heap') = Len(heap)
    <3>0. heap[handle[c]] \in EndpointStats
      BY <2>1
    <3>1. add_connection(observe_ip(heap[handle[c]], addr)) \in EndpointStats
      BY <3>0, StatsTypes
    <3>2. QED
      BY <1>20, <2>1, <3>1, HeapUpdateType DEF HttpOpens
  <2>3. RegistryTypeOK'
    BY <1>20, <1>0, <2>2 DEF HttpOpens, UpstreamGuard, RegistryTypeOK
  <2>4. TypeOK'
    BY <1>20, <1>0, <2>2, <2>3 DEF HttpOpens, TypeOK, mainVars, loopVars
  <2>5. UpFollowsTask' /\ HandleHeld' /\ RowsPresent'
    BY <1>20, <1>0
       DEF HttpOpens, TypeOK, UpFollowsTask, HandleHeld, RowsPresent, Early, Present, mainVars
  <2>6. QED
    BY <2>4, <2>5
<1>21. ASSUME NEW c \in Conns, Relays(c) PROVE Goal
  <2>1. handle[c] \in 1 .. Len(heap) /\ heap \in Seq(EndpointStats)
    BY <1>21, <1>0 DEF Relays, TypeOK, RegistryTypeOK, HandleHeld, Counting
  <2>2. heap' \in Seq(EndpointStats) /\ Len(heap') = Len(heap)
    <3>0. heap[handle[c]] \in EndpointStats
      BY <2>1
    <3>1. /\ add_ingress(heap[handle[c]], 1) \in EndpointStats
          /\ \A addr \in Observed(c) :
               observe_ip(add_egress(heap[handle[c]], 1), addr) \in EndpointStats
      <4>1. Observed(c) \subseteq Ips \cup {NoIp}
        BY DEF Observed
      <4>2. QED
        BY <3>0, <4>1, StatsTypes
    <3>2. QED
      BY <1>21, <2>1, <3>1, HeapUpdateType DEF Relays
  <2>3. RegistryTypeOK'
    BY <1>21, <1>0, <2>2 DEF Relays, RegistryTypeOK
  <2>4. TypeOK'
    BY <1>21, <1>0, <2>2, <2>3 DEF Relays, TypeOK, mainVars, loopVars
  <2>5. UpFollowsTask' /\ HandleHeld' /\ RowsPresent'
    BY <1>21, <1>0
       DEF Relays, TypeOK, UpFollowsTask, HandleHeld, RowsPresent, Early, Present, mainVars
  <2>6. QED
    BY <2>4, <2>5
<1>22. ASSUME LoopPolled PROVE Goal
  <2>1. RegistryTypeOK' /\ UNCHANGED heap /\ UNCHANGED endpoints
    BY <1>22, <1>0, RegistryKept DEF LoopPolled, registryVars
  <2>2. TypeOK'
    BY <1>22, <1>0, <2>1 DEF LoopPolled, TypeOK, mainVars, loopVars, connVars, hosts
  <2>3. UpFollowsTask' /\ HandleHeld' /\ RowsPresent'
    BY <1>22, <1>0, <2>1
       DEF LoopPolled, UpFollowsTask, HandleHeld, RowsPresent, Present, connVars, mainVars, hosts
  <2>4. QED
    BY <2>2, <2>3
<1>23. ASSUME LoopYields PROVE Goal
  <2>1. RegistryTypeOK' /\ UNCHANGED heap /\ UNCHANGED endpoints
    BY <1>23, <1>0, RegistryKept DEF LoopYields, registryVars
  <2>2. TypeOK'
    BY <1>23, <1>0, <2>1 DEF LoopYields, TypeOK, mainVars, loopVars, connVars, hosts
  <2>3. UpFollowsTask' /\ HandleHeld' /\ RowsPresent'
    BY <1>23, <1>0, <2>1
       DEF LoopYields, UpFollowsTask, HandleHeld, RowsPresent, Present, connVars, mainVars, hosts
  <2>4. QED
    BY <2>2, <2>3
<1>24. ASSUME ChildExits PROVE Goal
  <2>1. RegistryTypeOK' /\ UNCHANGED heap /\ UNCHANGED endpoints
    BY <1>24, <1>0, RegistryKept DEF ChildExits, registryVars
  <2>2. TypeOK'
    BY <1>24, <1>0, <2>1 DEF ChildExits, TypeOK, mainVars, loopVars, connVars, hosts
  <2>3. UpFollowsTask' /\ HandleHeld' /\ RowsPresent'
    BY <1>24, <1>0, <2>1
       DEF ChildExits, UpFollowsTask, HandleHeld, RowsPresent, Present, connVars, mainVars, hosts
  <2>4. QED
    BY <2>2, <2>3
<1>25. ASSUME DeadlinePasses PROVE Goal
  <2>1. RegistryTypeOK' /\ UNCHANGED heap /\ UNCHANGED endpoints
    BY <1>25, <1>0, RegistryKept DEF DeadlinePasses, registryVars
  <2>2. TypeOK'
    BY <1>25, <1>0, <2>1 DEF DeadlinePasses, TypeOK, mainVars, loopVars, connVars, hosts
  <2>3. UpFollowsTask' /\ HandleHeld' /\ RowsPresent'
    BY <1>25, <1>0, <2>1
       DEF DeadlinePasses, UpFollowsTask, HandleHeld, RowsPresent, Present, connVars, mainVars, hosts
  <2>4. QED
    BY <2>2, <2>3
<1>26. ASSUME DrainReturns PROVE Goal
  <2>1. RegistryTypeOK' /\ UNCHANGED heap /\ UNCHANGED endpoints
    BY <1>26, <1>0, RegistryKept DEF DrainReturns, registryVars
  <2>2. TypeOK'
    BY <1>26, <1>0, <2>1 DEF DrainReturns, TypeOK, mainVars, loopVars, connVars, hosts
  <2>3. UpFollowsTask' /\ HandleHeld' /\ RowsPresent'
    BY <1>26, <1>0, <2>1
       DEF DrainReturns, UpFollowsTask, HandleHeld, RowsPresent, Present, connVars, mainVars, hosts
  <2>4. QED
    BY <2>2, <2>3
<1>27. ASSUME SnapshotStarts PROVE Goal
  <2>1. RegistryTypeOK' /\ UNCHANGED heap /\ UNCHANGED endpoints
    BY <1>27, <1>0, RegistryKept DEF SnapshotStarts, registryVars
  <2>2. TypeOK'
    BY <1>27, <1>0, <2>1 DEF SnapshotStarts, TypeOK, mainVars, loopVars, connVars, hosts
  <2>3. UpFollowsTask' /\ HandleHeld' /\ RowsPresent'
    BY <1>27, <1>0, <2>1
       DEF SnapshotStarts, UpFollowsTask, HandleHeld, RowsPresent, Present, connVars, mainVars, hosts
  <2>4. QED
    BY <2>2, <2>3
<1>28. ASSUME Exit PROVE Goal
  <2>1. RegistryTypeOK' /\ UNCHANGED heap /\ UNCHANGED endpoints
    BY <1>28, <1>0, RegistryKept DEF Exit, registryVars
  <2>2. TypeOK'
    BY <1>28, <1>0, <2>1 DEF Exit, TypeOK, mainVars, loopVars, connVars, hosts
  <2>3. UpFollowsTask' /\ HandleHeld' /\ RowsPresent'
    BY <1>28, <1>0, <2>1
       DEF Exit, UpFollowsTask, HandleHeld, RowsPresent, Present, connVars, mainVars, hosts
  <2>4. QED
    BY <2>2, <2>3
<1>29. ASSUME NEW host \in IpHosts, LookupFails(host) PROVE Goal
  <2>1. RegistryTypeOK' /\ UNCHANGED heap /\ UNCHANGED endpoints
    BY <1>29, <1>0, RegistryKept DEF LookupFails, registryVars
  <2>2. TypeOK'
    BY <1>29, <1>0, <2>1 DEF LookupFails, TypeOK, loopVars, connVars
  <2>3. UpFollowsTask' /\ HandleHeld' /\ RowsPresent'
    BY <1>29, <1>0, <2>1 DEF LookupFails, UpFollowsTask, HandleHeld, RowsPresent, Present, connVars
  <2>4. QED
    BY <2>2, <2>3
<1>30. ASSUME NEW host \in Hosts, SnapshotReads(host) PROVE Goal
  <2>0. heap[endpoints[host]] \in EndpointStats
    BY <1>30, <1>0 DEF SnapshotReads, RowsPresent, Present, RegistryTypeOK
  <2>1. RegistryTypeOK' /\ UNCHANGED heap /\ UNCHANGED endpoints
    BY <1>30, <1>0, RegistryKept DEF SnapshotReads, registryVars
  <2>2. TypeOK'
    BY <1>30, <1>0, <2>0, <2>1 DEF SnapshotReads, TypeOK, loopVars, connVars
  <2>3. UpFollowsTask' /\ HandleHeld' /\ RowsPresent'
    BY <1>30, <1>0, <2>1 DEF SnapshotReads, UpFollowsTask, HandleHeld, RowsPresent, Present, connVars
  <2>4. QED
    BY <2>2, <2>3
<1>31. ASSUME NEW host \in IpHosts, NEW name \in PtrNames, LookupAnswers(host, name)
      PROVE  Goal
  <2>1. RegistryTypeOK' /\ Len(heap') = Len(heap)
    BY <1>31, <1>0, RenameType, SetsAssumption DEF LookupAnswers
  <2>2. TypeOK'
    BY <1>31, <1>0, <2>1 DEF LookupAnswers, TypeOK, loopVars, connVars
  <2>3. UpFollowsTask' /\ HandleHeld'
    BY <1>31, <1>0 DEF LookupAnswers, UpFollowsTask, HandleHeld, connVars
  <2>4. RowsPresent'
    BY <1>31, <1>0 DEF LookupAnswers, RowsPresent
  <2>5. QED
    BY <2>2, <2>3, <2>4
<1>32. CASE UNCHANGED vars
  BY <1>32, <1>0
     DEF vars, registryVars, mainVars, loopVars, connVars, TypeOK, RegistryTypeOK,
         UpFollowsTask, HandleHeld, RowsPresent, Present
<1>33. QED
  BY <1>1, <1>2, <1>3, <1>4, <1>5, <1>6, <1>7, <1>8, <1>9, <1>10, <1>11,
     <1>12, <1>13, <1>14, <1>15, <1>16, <1>17, <1>18, <1>19, <1>20, <1>21,
     <1>22, <1>23, <1>24, <1>25, <1>26, <1>27, <1>28, <1>29, <1>30, <1>31,
     <1>32
     DEF Next, TaskStep, MainStep, Terminated

LEMMA InitIndInv == Init => IndInv
<1> SUFFICES ASSUME Init PROVE IndInv
  OBVIOUS
<1>1. heap \in Seq(EndpointStats) /\ Len(heap) = 0
  BY DEF Init, RegistryInit
<1>2. NewStats \in EndpointStats
  BY DEF NewStats, EndpointStats
<1>3. TypeOK
  <2>1. RegistryTypeOK
    BY <1>1 DEF Init, RegistryInit, RegistryTypeOK
  <2>2. handle \in [Conns -> 0 .. Len(heap)]
    BY <1>1 DEF Init
  <2>3. report \in [Hosts -> EndpointStats]
    BY <1>2 DEF Init
  <2>4. QED
    BY <2>1, <2>2, <2>3 DEF Init, TypeOK
<1>4. UpFollowsTask /\ HandleHeld /\ RowsPresent
  BY DEF Init, UpFollowsTask, HandleHeld, RowsPresent
<1>5. TaskGuards = {} /\ UpstreamGuards = {}
  BY DEF Init, TaskGuards, UpstreamGuards
<1>6. GuardsBalance
  BY <1>5, FS_EmptySet DEF Init, RegistryInit, GuardsBalance
<1>7. QED
  BY <1>3, <1>4, <1>6 DEF IndInv

LEMMA NextIndInv == IndInv /\ [Next]_vars => IndInv'
  BY NextState, NextGuardsBalance DEF IndInv

LEMMA Inductive == Spec => []IndInv
  BY InitIndInv, NextIndInv, PTL DEF Spec

-----------------------------------------------------------------------------
(* The report.  What it will hold is followed from the first byte: as long   *)
(* as the snapshot has not read a row it is what the row holds, and then     *)
(* what was read.  Up to the end of drain() every handle is that of a row,   *)
(* so that whatever is relayed is in the rows; later a straggler may count   *)
(* through a handle whose row was merged away, or in a row the snapshot has  *)
(* read or never saw.  Renames move counts between rows and lose none,       *)
(* because no two rows share their counters.                                 *)

Traffic(s) == s.ingress + s.egress

Unread(h) == main \in {"wait", "drain", "resolve"} \/ h \in rows

Visible == [h \in Hosts |-> Traffic(IF Unread(h) THEN RowStats(h) ELSE report[h])]

HandlesInRows ==
    main \in {"wait", "drain"} =>
        \A c \in Conns : handle[c] # 0 => \E h \in Hosts : endpoints[h] = handle[c]

ReportEmpty ==
    main \in {"wait", "drain", "resolve"} => report = [h \in Hosts |-> NewStats]

Bracketed ==
    IF main \in {"wait", "drain"}
    THEN Total(Visible) = Total(seen)
    ELSE Total(drained) <= Total(Visible) /\ Total(Visible) <= Total(seen)

ReportInv == DistinctRows /\ HandlesInRows /\ ReportEmpty /\ Bracketed

LEMMA TrafficType ==
    ASSUME NEW s \in EndpointStats
    PROVE  Traffic(s) \in Nat
  BY DEF Traffic, EndpointStats

LEMMA VisibleType ==
    ASSUME TypeOK
    PROVE  Visible \in [Hosts -> Nat]
<1>1. ASSUME NEW h \in Hosts
      PROVE  Traffic(IF Unread(h) THEN RowStats(h) ELSE report[h]) \in Nat
  <2>1. RowStats(h) \in EndpointStats /\ report[h] \in EndpointStats
    BY RowType DEF TypeOK
  <2>2. QED
    BY <2>1, TrafficType
<1>2. QED
  BY <1>1 DEF Visible

LEMMA VisibleAt ==
    ASSUME NEW h \in Hosts
    PROVE  Visible[h] = Traffic(IF Unread(h) THEN RowStats(h) ELSE report[h])
  BY DEF Visible

\* The steps that move no traffic.
LEMMA TrafficStays ==
    ASSUME ReportInv, UNCHANGED <<main, rows, report, drained, seen>>,
           \A h \in Hosts : Traffic(RowStats(h)') = Traffic(RowStats(h)),
           DistinctRows', HandlesInRows'
    PROVE  ReportInv'
<1>1. ASSUME NEW h \in Hosts
      PROVE  Traffic(IF Unread(h)' THEN RowStats(h)' ELSE report'[h])
                = Traffic(IF Unread(h) THEN RowStats(h) ELSE report[h])
  <2>1. Unread(h)' = Unread(h) /\ report'[h] = report[h]
    BY DEF Unread
  <2>2. Traffic(RowStats(h)') = Traffic(RowStats(h))
    OBVIOUS
  <2>3. QED
    BY <2>1, <2>2
<1>2. Visible' = Visible
  BY <1>1 DEF Visible, Traffic
<1>3. Bracketed' /\ ReportEmpty'
  BY <1>2 DEF ReportInv, Bracketed, ReportEmpty
<1>4. QED
  BY <1>3 DEF ReportInv

\* The steps that leave the registry alone, and at most give handles up.
LEMMA RegistryStays ==
    ASSUME ReportInv, UNCHANGED <<endpoints, heap, main, rows, report, drained, seen>>,
           \A c \in Conns : handle'[c] \in {handle[c], 0}
    PROVE  ReportInv'
<1>1. DistinctRows' /\ HandlesInRows'
  BY DEF ReportInv, DistinctRows, Present, HandlesInRows
<1>2. \A h \in Hosts : RowStats(h)' = RowStats(h)
  BY DEF RowStats, Present
<1>3. QED
  BY <1>1, <1>2, TrafficStays

\* A dial: Registry::endpoint, and a handle.
LEMMA DialsReport ==
    ASSUME ReportInv, TypeOK, NEW c \in Conns, NEW host \in Hosts,
           UNCHANGED <<main, rows, report, drained, seen>>,
           endpoints' = MapWith(host), heap' = HeapWith(host),
           handle' = [handle EXCEPT ![c] = endpoint(host)]
    PROVE  ReportInv'
<1>1. RegistryTypeOK /\ DistinctRows
  BY DEF TypeOK, ReportInv
<1>2. /\ DistinctRows'
      /\ endpoints'[host] = endpoint(host)
      /\ \A h \in Hosts : RowStats(h)' = RowStats(h)
      /\ \A h \in Hosts : Present(h) => endpoints'[h] = endpoints[h]
  BY <1>1, OpenRow
<1>3. HandlesInRows'
  BY <1>2 DEF ReportInv, HandlesInRows, TypeOK, Present
<1>4. QED
  BY <1>2, <1>3, TrafficStays

\* A connection is counted through the handle of its task.
LEMMA OpensReport ==
    ASSUME ReportInv, TypeOK, NEW c \in Conns, NEW addr \in Ips \cup {NoIp},
           handle[c] # 0,
           UNCHANGED <<endpoints, handle, main, rows, report, drained, seen>>,
           heap' = [heap EXCEPT ![handle[c]] = add_connection(observe_ip(@, addr))]
    PROVE  ReportInv'
<1>1. PICK i \in 1 .. Len(heap) : i = handle[c]
  BY DEF TypeOK
<1>2. RegistryTypeOK /\ DistinctRows /\ heap[i] \in EndpointStats
  BY DEF TypeOK, RegistryTypeOK, ReportInv
<1>3. PICK s \in EndpointStats : /\ s = add_connection(observe_ip(heap[i], addr))
                                 /\ Traffic(s) = Traffic(heap[i])
  <2> DEFINE t == observe_ip(heap[i], addr)
  <2>1. t \in EndpointStats /\ Traffic(t) = Traffic(heap[i])
    BY <1>2 DEF EndpointStats, observe_ip, Traffic
  <2> HIDE DEF t
  <2>2. add_connection(t) \in EndpointStats /\ Traffic(add_connection(t)) = Traffic(t)
    <3>1. add_connection(t) \in EndpointStats
      BY <2>1 DEF EndpointStats, add_connection
    <3>2. QED
      BY <2>1, <3>1 DEF EndpointStats, add_connection, Traffic
  <2>3. QED
    BY <2>1, <2>2 DEF t
<1>4. heap' = [heap EXCEPT ![i] = s]
  BY <1>1, <1>3
<1>5. /\ DistinctRows'
      /\ \A h \in Hosts : RowStats(h)' = IF endpoints[h] = i THEN s ELSE RowStats(h)
  BY <1>2, <1>4, CountRow
<1>6. \A h \in Hosts : endpoints[h] = i => RowStats(h) = heap[i]
  BY DEF RowStats, Present
<1>7. \A h \in Hosts : Traffic(RowStats(h)') = Traffic(RowStats(h))
  BY <1>3, <1>5, <1>6
<1>8. HandlesInRows'
  BY DEF ReportInv, HandlesInRows
<1>9. QED
  BY <1>5, <1>7, <1>8, TrafficStays

\* Relay::endpoint does both at once.
LEMMA RelayOpensReport ==
    ASSUME ReportInv, TypeOK, NEW c \in Conns, NEW host \in Hosts, RelayOpens(c, host)
    PROVE  ReportInv'
<1>1. RegistryTypeOK /\ DistinctRows
  BY DEF TypeOK, ReportInv
<1>2. /\ UNCHANGED <<main, rows, report, drained, seen>>
      /\ endpoints' = MapWith(host)
      /\ heap' = [HeapWith(host) EXCEPT ![endpoint(host)] = add_connection(@)]
      /\ handle' = [handle EXCEPT ![c] = endpoint(host)]
  BY DEF RelayOpens, mainVars
<1>3. /\ DistinctRows'
      /\ endpoints'[host] = endpoint(host)
      /\ \A h \in Hosts : Present(h) => endpoints'[h] = endpoints[h]
      /\ RowStats(host)' = add_connection(RowStats(host))
      /\ \A h \in Hosts \ {host} : RowStats(h)' = RowStats(h)
  BY <1>1, <1>2, OpenAndCount
<1>4. Traffic(RowStats(host)') = Traffic(RowStats(host))
  <2>1. RowStats(host) \in EndpointStats
    BY <1>1, RowType
  <2>2. QED
    BY <1>3, <2>1 DEF EndpointStats, add_connection, Traffic
<1>5. \A h \in Hosts : Traffic(RowStats(h)') = Traffic(RowStats(h))
  BY <1>3, <1>4
<1>6. HandlesInRows'
  BY <1>2, <1>3 DEF ReportInv, HandlesInRows, TypeOK, Present
<1>7. QED
  BY <1>2, <1>3, <1>5, <1>6, TrafficStays

\* What the two branches of a relayed unit add to the counters.
LEMMA UnitCounted ==
    ASSUME NEW s \in EndpointStats, NEW addr \in Ips \cup {NoIp}
    PROVE  /\ add_ingress(s, 1) \in EndpointStats
           /\ Traffic(add_ingress(s, 1)) = Traffic(s) + 1
           /\ observe_ip(add_egress(s, 1), addr) \in EndpointStats
           /\ Traffic(observe_ip(add_egress(s, 1), addr)) = Traffic(s) + 1
<1>1. /\ add_ingress(s, 1) \in EndpointStats
      /\ add_ingress(s, 1).ingress = s.ingress + 1
      /\ add_ingress(s, 1).egress = s.egress
      /\ s.ingress \in Nat /\ s.egress \in Nat
  BY DEF EndpointStats, add_ingress
<1>2. PICK t \in EndpointStats : /\ t = add_egress(s, 1)
                                 /\ t.ingress = s.ingress
                                 /\ t.egress = s.egress + 1
  <2>1. add_egress(s, 1) \in EndpointStats
    BY DEF EndpointStats, add_egress
  <2>2. add_egress(s, 1).ingress = s.ingress /\ add_egress(s, 1).egress = s.egress + 1
    BY DEF EndpointStats, add_egress
  <2>3. QED
    BY <2>1, <2>2
<1>3. /\ observe_ip(t, addr) \in EndpointStats
      /\ observe_ip(t, addr).ingress = t.ingress
      /\ observe_ip(t, addr).egress = t.egress
  BY DEF EndpointStats, observe_ip
<1>4. QED
  BY <1>1, <1>2, <1>3 DEF Traffic

\* A relayed unit is in the row of the handle, if that row is still in the map
\* and still to be read; it is always in what was seen.
LEMMA RelaysReport ==
    ASSUME ReportInv, TypeOK, NEW c \in Conns, Relays(c)
    PROVE  ReportInv'
<1>1. /\ UNCHANGED <<endpoints, handle, main, rows, report, drained>>
      /\ seen' = [seen EXCEPT ![c] = @ + 1]
      /\ handle[c] # 0
  BY DEF Relays, Counting, mainVars
<1>2. PICK i \in 1 .. Len(heap) : i = handle[c]
  BY <1>1 DEF TypeOK
<1>3. RegistryTypeOK /\ DistinctRows /\ heap[i] \in EndpointStats
  BY DEF TypeOK, RegistryTypeOK, ReportInv
<1>4. PICK s \in EndpointStats : /\ heap' = [heap EXCEPT ![i] = s]
                                 /\ Traffic(s) = Traffic(heap[i]) + 1
  <2>1. CASE heap' = [heap EXCEPT ![handle[c]] = add_ingress(@, 1)]
    BY <1>2, <1>3, <2>1, UnitCounted
  <2>2. ASSUME NEW addr \in Observed(c),
               heap' = [heap EXCEPT ![handle[c]] = observe_ip(add_egress(@, 1), addr)]
        PROVE  \E s \in EndpointStats : /\ heap' = [heap EXCEPT ![i] = s]
                                        /\ Traffic(s) = Traffic(heap[i]) + 1
    <3>1. addr \in Ips \cup {NoIp}
      BY DEF Observed
    <3>2. QED
      BY <1>2, <1>3, <2>2, <3>1, UnitCounted
  <2>3. QED
    BY <2>1, <2>2 DEF Relays
<1>5. /\ DistinctRows'
      /\ \A h \in Hosts : RowStats(h)' = IF endpoints[h] = i THEN s ELSE RowStats(h)
  BY <1>1, <1>3, <1>4, CountRow
<1>6. HandlesInRows' /\ ReportEmpty'
  BY <1>1 DEF ReportInv, HandlesInRows, ReportEmpty
<1>7. \A h \in Hosts : Unread(h)' = Unread(h) /\ report'[h] = report[h]
  BY <1>1 DEF Unread
<1>8. /\ Total(seen') = Total(seen) + 1
      /\ Total(seen) \in Nat /\ Total(drained) \in Nat
  <2>0. seen \in [Conns -> Nat] /\ seen' \in [Conns -> Nat]
    BY <1>1 DEF TypeOK
  <2>1. PICK f \in [Conns -> Nat], g \in [Conns -> Nat] : f = seen /\ g = seen'
    BY <2>0
  <2>2. g[c] = f[c] + 1 /\ \A y \in Conns \ {c} : g[y] = f[y]
    BY <1>1, <2>1
  <2>3. IsFiniteSet(Conns)
    BY SetsAssumption
  <2>4. Total(g) = Total(f) + 1 /\ Total(f) \in Nat
    BY <2>2, <2>3, TotalAdd
  <2>5. drained \in [Conns -> Nat]
    BY DEF TypeOK
  <2>6. Total(drained) \in Nat
    BY <2>3, <2>5, TotalIsCount
  <2>7. QED
    BY <2>1, <2>4, <2>6
<1>9. PICK f \in [Hosts -> Nat] : f = Visible
  BY VisibleType
<1>10. \A h \in Hosts : f[h] = Traffic(IF Unread(h) THEN RowStats(h) ELSE report[h])
  BY <1>9 DEF Visible
<1>11. Total(f) \in Nat
  BY TotalIsCount, SetsAssumption
<1>12. CASE \E h \in Hosts : endpoints[h] = i /\ Unread(h)
  <2>1. PICK host \in Hosts : endpoints[host] = i /\ Unread(host)
    BY <1>12
  <2>2. RowStats(host) = heap[i] /\ RowStats(host)' = s
    BY <1>5, <2>1 DEF RowStats, Present
  <2>3. \A h \in Hosts \ {host} : RowStats(h)' = RowStats(h)
    BY <1>3, <1>5, <2>1 DEF DistinctRows, Present
  <2>4. Visible' = [h \in Hosts |-> IF h = host THEN f[h] + 1 ELSE f[h]]
    <3>1. ASSUME NEW h \in Hosts
          PROVE  Traffic(IF Unread(h)' THEN RowStats(h)' ELSE report'[h])
                    = IF h = host THEN f[h] + 1 ELSE f[h]
      <4>1. CASE h = host
        BY <1>4, <1>7, <1>10, <2>1, <2>2, <4>1
      <4>2. CASE h # host
        BY <1>7, <1>10, <2>3, <4>2
      <4>3. QED
        BY <4>1, <4>2
    <3>2. QED
      BY <3>1 DEF Visible, Traffic
  <2>5. PICK g \in [Hosts -> Nat] : g = Visible'
    BY <2>4
  <2>6. g[host] = f[host] + 1 /\ \A y \in Hosts \ {host} : g[y] = f[y]
    BY <2>4, <2>5
  <2>7. Total(g) = Total(f) + 1 /\ Total(f) \in Nat
    BY <2>6, TotalAdd, SetsAssumption
  <2>8. Bracketed'
    BY <1>1, <1>8, <1>9, <1>11, <2>5, <2>7 DEF ReportInv, Bracketed
  <2>9. QED
    BY <1>5, <1>6, <2>8 DEF ReportInv
<1>13. CASE ~ \E h \in Hosts : endpoints[h] = i /\ Unread(h)
  <2>1. main \notin {"wait", "drain"}
    BY <1>1, <1>2, <1>13 DEF ReportInv, HandlesInRows, Unread
  <2>2. ASSUME NEW h \in Hosts
        PROVE  Traffic(IF Unread(h)' THEN RowStats(h)' ELSE report'[h]) = f[h]
    <3>1. CASE Unread(h)
      BY <1>5, <1>7, <1>10, <1>13, <3>1
    <3>2. CASE ~Unread(h)
      BY <1>7, <1>10, <3>2
    <3>3. QED
      BY <3>1, <3>2
  <2>3. Visible' = Visible
    BY <1>9, <2>2 DEF Visible, Traffic
  <2>4. Bracketed'
    BY <1>1, <1>8, <1>9, <1>11, <2>1, <2>3 DEF ReportInv, Bracketed
  <2>5. QED
    BY <1>5, <1>6, <2>4 DEF ReportInv
<1>14. QED
  BY <1>12, <1>13

\* main's steps that take the report further, and change nothing it will hold.
LEMMA MainReport ==
    ASSUME ReportInv, IndInv,
           ChildExits \/ DrainReturns \/ SnapshotStarts \/ Exit
             \/ \E host \in Hosts : SnapshotReads(host)
    PROVE  ReportInv'
<1>1. TypeOK /\ RowsPresent
  BY DEF IndInv
<1>2. /\ UNCHANGED <<endpoints, heap, seen, handle>>
      /\ \A h \in Hosts : RowStats(h)' = RowStats(h)
  <2>1. UNCHANGED <<endpoints, heap, seen, handle>>
    BY DEF ChildExits, DrainReturns, SnapshotStarts, Exit, SnapshotReads, registryVars,
           connVars
  <2>2. QED
    BY <2>1 DEF RowStats, Present
<1>3. DistinctRows'
  BY <1>2 DEF ReportInv, DistinctRows, Present
<1>4. PICK f \in [Hosts -> Nat] : f = Visible
  BY <1>1, VisibleType
<1>5. \A h \in Hosts : f[h] = Traffic(IF Unread(h) THEN RowStats(h) ELSE report[h])
  BY <1>4 DEF Visible
<1>6. Total(f) \in Nat /\ Total(seen) \in Nat
  <2>1. seen \in [Conns -> Nat] /\ IsFiniteSet(Conns) /\ IsFiniteSet(Hosts)
    BY <1>1, SetsAssumption DEF TypeOK
  <2>2. QED
    BY <2>1, TotalIsCount
<1>7. ASSUME \A h \in Hosts :
                Traffic(IF Unread(h)' THEN RowStats(h)' ELSE report'[h]) = f[h]
      PROVE  Visible' = Visible
  BY <1>4, <1>7 DEF Visible, Traffic
<1>8. CASE ChildExits
  <2>1. main = "wait" /\ main' = "drain" /\ UNCHANGED <<rows, report, drained>>
    BY <1>8 DEF ChildExits
  <2>2. \A h \in Hosts : Unread(h) /\ Unread(h)'
    BY <2>1 DEF Unread
  <2>3. Visible' = Visible
    BY <1>2, <1>5, <1>7, <2>2
  <2>4. HandlesInRows' /\ ReportEmpty' /\ Bracketed'
    BY <1>2, <2>1, <2>3 DEF ReportInv, HandlesInRows, ReportEmpty, Bracketed
  <2>5. QED
    BY <1>3, <2>4 DEF ReportInv
<1>9. CASE DrainReturns
  <2>1. main = "drain" /\ main' = "resolve" /\ UNCHANGED <<rows, report>> /\ drained' = seen
    BY <1>9 DEF DrainReturns
  <2>2. \A h \in Hosts : Unread(h) /\ Unread(h)'
    BY <2>1 DEF Unread
  <2>3. Visible' = Visible
    BY <1>2, <1>5, <1>7, <2>2
  <2>4. HandlesInRows' /\ ReportEmpty'
    BY <2>1 DEF ReportInv, HandlesInRows, ReportEmpty
  <2>5. Bracketed'
    BY <1>2, <1>4, <1>6, <2>1, <2>3 DEF ReportInv, Bracketed
  <2>6. QED
    BY <1>3, <2>4, <2>5 DEF ReportInv
<1>10. CASE SnapshotStarts
  <2>1. main = "resolve" /\ main' = "snapshot" /\ rows' = hosts /\ UNCHANGED <<report, drained>>
    BY <1>10 DEF SnapshotStarts
  <2>2. ASSUME NEW h \in Hosts
        PROVE  Traffic(IF Unread(h)' THEN RowStats(h)' ELSE report'[h]) = f[h]
    <3>1. f[h] = Traffic(RowStats(h))
      BY <1>5, <2>1 DEF Unread
    <3>2. Unread(h)' <=> Present(h)
      BY <2>1 DEF Unread, hosts
    <3>3. ~Present(h) => RowStats(h) = NewStats
      BY DEF RowStats
    <3>4. report'[h] = NewStats
      BY <2>1 DEF ReportInv, ReportEmpty
    <3>5. QED
      BY <1>2, <3>1, <3>2, <3>3, <3>4
  <2>3. Visible' = Visible
    BY <1>7, <2>2
  <2>4. HandlesInRows' /\ ReportEmpty' /\ Bracketed'
    BY <1>2, <2>1, <2>3 DEF ReportInv, HandlesInRows, ReportEmpty, Bracketed
  <2>5. QED
    BY <1>3, <2>4 DEF ReportInv
<1>11. CASE Exit
  <2>1. main = "snapshot" /\ main' = "exited" /\ UNCHANGED <<rows, report, drained>>
    BY <1>11 DEF Exit
  <2>2. \A h \in Hosts : (Unread(h)' <=> Unread(h)) /\ report'[h] = report[h]
    BY <2>1 DEF Unread
  <2>3. Visible' = Visible
    BY <1>2, <1>5, <1>7, <2>2
  <2>4. HandlesInRows' /\ ReportEmpty' /\ Bracketed'
    BY <1>2, <2>1, <2>3 DEF ReportInv, HandlesInRows, ReportEmpty, Bracketed
  <2>5. QED
    BY <1>3, <2>4 DEF ReportInv
<1>12. ASSUME NEW host \in Hosts, SnapshotReads(host) PROVE ReportInv'
  <2>1. /\ main = "snapshot" /\ UNCHANGED <<main, drained>>
        /\ host \in rows /\ rows' = rows \ {host}
        /\ report' = [report EXCEPT ![host] = heap[endpoints[host]]]
    BY <1>12 DEF SnapshotReads
  <2>2. RowStats(host) = heap[endpoints[host]]
    BY <1>1, <2>1 DEF RowsPresent, RowStats
  <2>3. ASSUME NEW h \in Hosts
        PROVE  Traffic(IF Unread(h)' THEN RowStats(h)' ELSE report'[h]) = f[h]
    <3>1. CASE h = host
      <4>1. Unread(h) /\ ~Unread(h)'
        BY <2>1, <3>1 DEF Unread
      <4>2. report'[h] = RowStats(h)
        BY <1>1, <2>1, <2>2, <3>1 DEF TypeOK
      <4>3. QED
        BY <1>5, <4>1, <4>2
    <3>2. CASE h # host
      <4>1. (Unread(h)' <=> Unread(h)) /\ report'[h] = report[h]
        BY <1>1, <2>1, <3>2 DEF Unread, TypeOK
      <4>2. QED
        BY <1>2, <1>5, <4>1
    <3>3. QED
      BY <3>1, <3>2
  <2>4. Visible' = Visible
    BY <1>7, <2>3
  <2>5. HandlesInRows' /\ ReportEmpty' /\ Bracketed'
    BY <1>2, <2>1, <2>4 DEF ReportInv, HandlesInRows, ReportEmpty, Bracketed
  <2>6. QED
    BY <1>3, <2>5 DEF ReportInv
<1>13. QED
  BY <1>8, <1>9, <1>10, <1>11, <1>12

LEMMA MergedTraffic ==
    ASSUME NEW s \in EndpointStats, NEW t \in EndpointStats
    PROVE  Traffic(Merged(s, t)) = Traffic(s) + Traffic(t)
<1>1. s.ingress \in Nat /\ s.egress \in Nat /\ t.ingress \in Nat /\ t.egress \in Nat
  BY DEF EndpointStats
<1>2. QED
  BY <1>1 DEF Merged, Traffic

\* A reverse lookup answers: the row's traffic moves to the name's row.
LEMMA RenameReport ==
    ASSUME ReportInv, TypeOK, NEW from \in Hosts, NEW to \in Hosts,
           LookupAnswers(from, to)
    PROVE  ReportInv'
<1>1. /\ main = "resolve" /\ UNCHANGED <<main, rows, report, drained, seen, handle>>
      /\ rename(from, to)
  BY DEF LookupAnswers, connVars
<1>2. RegistryTypeOK /\ DistinctRows
  BY DEF TypeOK, ReportInv
<1>3. /\ DistinctRows'
      /\ \/ \A h \in Hosts : RowStats(h)' = RowStats(h)
         \/ /\ from # to
            /\ RowStats(from)' = NewStats
            /\ \/ RowStats(to)' = Merged(RowStats(to), RowStats(from))
               \/ RowStats(to) = NewStats /\ RowStats(to)' = RowStats(from)
            /\ \A h \in Hosts \ {from, to} : RowStats(h)' = RowStats(h)
  BY <1>1, <1>2, RenameRows
<1>4. HandlesInRows' /\ ReportEmpty'
  BY <1>1 DEF ReportInv, HandlesInRows, ReportEmpty
<1>5. CASE \A h \in Hosts : RowStats(h)' = RowStats(h)
  BY <1>1, <1>3, <1>4, <1>5, TrafficStays
<1>6. CASE ~ \A h \in Hosts : RowStats(h)' = RowStats(h)
  <2>1. PICK f \in [Hosts -> Nat] : f = Visible
    BY VisibleType
  <2>2. \A h \in Hosts : f[h] = Traffic(RowStats(h))
    BY <1>1, <2>1 DEF Visible, Unread
  <2>3. RowStats(from) \in EndpointStats /\ RowStats(to) \in EndpointStats
    BY <1>2, RowType
  <2>4. Traffic(NewStats) = 0
    BY DEF Traffic, NewStats
  <2>5. /\ Traffic(RowStats(from)') = 0
        /\ Traffic(RowStats(to)') = f[to] + f[from]
        /\ \A h \in Hosts \ {from, to} : Traffic(RowStats(h)') = f[h]
        /\ from # to
    <3>1. Traffic(RowStats(to)') = Traffic(RowStats(to)) + Traffic(RowStats(from))
      <4>1. CASE RowStats(to)' = Merged(RowStats(to), RowStats(from))
        BY <2>3, <4>1, MergedTraffic
      <4>2. CASE RowStats(to) = NewStats /\ RowStats(to)' = RowStats(from)
        BY <2>3, <2>4, <4>2, TrafficType
      <4>3. QED
        BY <1>3, <1>6, <4>1, <4>2
    <3>2. QED
      BY <1>3, <1>6, <2>2, <2>4, <3>1
  <2>6. Visible' = [h \in Hosts |-> Traffic(RowStats(h)')]
    BY <1>1 DEF Visible, Unread, Traffic
  <2>7. PICK g \in [Hosts -> Nat] :
          g = Visible' /\ \A h \in Hosts : g[h] = Traffic(RowStats(h)')
    <3>1. ASSUME NEW h \in Hosts PROVE Traffic(RowStats(h)') \in Nat
      BY <2>1, <2>5
    <3>2. QED
      BY <2>6, <3>1
  <2>8. g[from] = 0 /\ g[to] = f[to] + f[from] /\ \A h \in Hosts \ {from, to} : g[h] = f[h]
    BY <2>5, <2>7
  <2>9. Total(g) = Total(f) /\ Total(f) \in Nat
    BY <2>5, <2>8, TotalMove, SetsAssumption
  <2>10. Bracketed'
    BY <1>1, <2>1, <2>7, <2>9 DEF ReportInv, Bracketed
  <2>11. QED
    BY <1>3, <1>4, <2>10 DEF ReportInv
<1>7. QED
  BY <1>5, <1>6

LEMMA InitReportInv ==
    ASSUME Init
    PROVE  ReportInv
<1>1. DistinctRows /\ HandlesInRows /\ ReportEmpty
  BY DEF Init, RegistryInit, DistinctRows, Present, HandlesInRows, ReportEmpty
<1>2. Visible = [h \in Hosts |-> 0]
  BY DEF Init, RegistryInit, Visible, Traffic, Unread, RowStats, Present, NewStats
<1>3. Total([h \in Hosts |-> 0]) = 0 /\ Total([c \in Conns |-> 0]) = 0
  BY TotalZero, SetsAssumption
<1>4. Bracketed
  BY <1>2, <1>3 DEF Init, Bracketed
<1>5. QED
  BY <1>1, <1>4 DEF ReportInv

LEMMA NextReportInv ==
    IndInv /\ ReportInv /\ [Next]_vars => ReportInv'
<1> SUFFICES ASSUME IndInv, ReportInv, [Next]_vars PROVE ReportInv'
  OBVIOUS
<1>1. TypeOK /\ HandleHeld
  BY DEF IndInv
<1>2. ASSUME NEW c \in Conns, Connect(c) \/ LoopAccepts(c) PROVE ReportInv'
  BY <1>2, RegistryStays DEF Connect, LoopAccepts, registryVars, mainVars
<1>3. ASSUME NEW c \in Conns,
             TaskStarts(c) \/ HandshakeFails(c) \/ HttpStarts(c) \/ UdpStarts(c) \/ RelayPolled(c)
      PROVE  ReportInv'
  BY <1>3, RegistryStays
     DEF TaskStarts, HandshakeFails, HttpStarts, UdpStarts, RelayPolled, registryVars, mainVars
<1>4. ASSUME NEW c \in Conns,
             \/ TunnelRefused(c) \/ TunnelEnds(c) \/ HttpDialFails(c) \/ HttpUpstreamEnds(c)
             \/ HttpEnds(c) \/ RelayYields(c) \/ RelayFails(c) \/ UdpEnds(c)
      PROVE  ReportInv'
  <2>1. \A d \in Conns : handle'[d] \in {handle[d], 0}
    BY <1>1, <1>4 DEF TypeOK, TunnelRefused, TunnelEnds, HttpDialFails, HttpUpstreamEnds,
                      HttpEnds, RelayYields, RelayFails, UdpEnds
  <2>2. UNCHANGED <<endpoints, heap, main, rows, report, drained, seen>>
    BY <1>4 DEF TunnelRefused, TunnelEnds, HttpDialFails, HttpUpstreamEnds, HttpEnds,
                RelayYields, RelayFails, UdpEnds, registryVars, mainVars
  <2>3. QED
    BY <2>1, <2>2, RegistryStays
<1>5. ASSUME NEW c \in Conns, NEW host \in Targets,
             TunnelDials(c, host) \/ HttpDials(c, host)
      PROVE  ReportInv'
  <2>1. host \in Hosts
    BY SetsAssumption
  <2>2. QED
    BY <1>1, <1>5, <2>1, DialsReport DEF TunnelDials, HttpDials, mainVars
<1>6. ASSUME NEW c \in Conns, NEW addr \in Ips \cup {NoIp},
             TunnelOpens(c, addr) \/ HttpOpens(c, addr)
      PROVE  ReportInv'
  <2>1. handle[c] # 0
    BY <1>1, <1>6 DEF HandleHeld, TunnelOpens, HttpOpens
  <2>2. QED
    BY <1>1, <1>6, <2>1, OpensReport DEF TunnelOpens, HttpOpens, mainVars
<1>7. ASSUME NEW c \in Conns, NEW host \in Targets, RelayOpens(c, host) PROVE ReportInv'
  BY <1>1, <1>7, RelayOpensReport, SetsAssumption
<1>8. ASSUME NEW c \in Conns, Relays(c) PROVE ReportInv'
  BY <1>1, <1>8, RelaysReport
<1>9. CASE LoopPolled \/ LoopYields \/ DeadlinePasses \/ Terminated \/ UNCHANGED vars
  BY <1>9, RegistryStays
     DEF LoopPolled, LoopYields, DeadlinePasses, Terminated, vars, registryVars, mainVars, connVars
<1>10. ASSUME NEW host \in IpHosts, LookupFails(host) PROVE ReportInv'
  BY <1>10, RegistryStays DEF LookupFails, registryVars, connVars
<1>11. ASSUME NEW host \in IpHosts, NEW name \in PtrNames, LookupAnswers(host, name)
       PROVE  ReportInv'
  BY <1>1, <1>11, RenameReport, SetsAssumption
<1>12. CASE ChildExits \/ DrainReturns \/ SnapshotStarts \/ Exit
              \/ \E host \in Hosts : SnapshotReads(host)
  BY <1>12, MainReport
<1>13. QED
  BY <1>2, <1>3, <1>4, <1>5, <1>6, <1>7, <1>8, <1>9, <1>10, <1>11, <1>12
     DEF Next, TaskStep, MainStep

-----------------------------------------------------------------------------
(* The theorems.                                                            *)

\* Every field keeps its type; in particular the unsigned count of guards never
\* goes below zero (stats.rs, Drop for OpenGuard).
THEOREM TypeCorrect == Spec => []TypeOK
<1>1. IndInv => TypeOK
  BY DEF IndInv
<1>2. QED
  BY <1>1, Inductive, PTL

\* The count that drain() polls is the number of guards alive, for any number of
\* connections of any kind (stats.rs, track_open and Drop for OpenGuard).
THEOREM GuardsAlwaysBalance == Spec => []GuardsBalance
<1>1. IndInv => GuardsBalance
  BY DEF IndInv
<1>2. QED
  BY <1>1, Inductive, PTL

\* main.rs, drain(): when it returns before its deadline no TCP connection past
\* its first poll is left, whatever the tasks were doing while it slept.
THEOREM DrainAlwaysWaits == Spec => DrainWaits
<1> DEFINE Quiet ==
      \A c \in Conns : /\ task[c] \in {"none", "backlog", "spawned", "closed"}
                       /\ up[c] # "open"
<1>1. ASSUME IndInv, open_connections = 0 PROVE Quiet
  <2>1. Cardinality(TaskGuards) = 0 /\ Cardinality(UpstreamGuards) = 0
    BY <1>1, GuardsFinite DEF IndInv, GuardsBalance
  <2>2. TaskGuards = {} /\ UpstreamGuards = {}
    BY <2>1, GuardsFinite, FS_EmptySet
  <2>3. QED
    BY <1>1, <2>2 DEF IndInv, TypeOK, UpFollowsTask, Early, TaskGuards, UpstreamGuards
<1>2. ASSUME IndInv, [Next]_vars
      PROVE  [main = "drain" /\ main' = "resolve" /\ ~expired => Quiet]_vars
  <2>1. ASSUME main = "drain", main' = "resolve", ~expired PROVE open_connections = 0
    BY <1>2, <2>1
       DEF Next, TaskStep, MainStep, Connect, LoopAccepts, TaskStarts, HandshakeFails,
           TunnelDials, TunnelRefused, TunnelOpens, TunnelEnds, HttpStarts, HttpDials,
           HttpDialFails, HttpOpens, HttpUpstreamEnds, HttpEnds, UdpStarts, RelayPolled,
           RelayOpens, RelayYields, RelayFails, UdpEnds, Relays, LoopPolled, LoopYields,
           ChildExits, DeadlinePasses, DrainReturns, DrainOver, LookupAnswers,
           LookupFails, SnapshotStarts, SnapshotReads, Exit, Terminated, vars, mainVars
  <2>2. QED
    BY <1>1, <1>2, <2>1
<1>3. QED
  BY <1>2, Inductive, PTL DEF Spec, DrainWaits

\* What the report holds lies between what was relayed when drain() returned and
\* what was ever relayed, for any number of stragglers, lookups and renames
\* (stats.rs, rename and snapshot; main.rs, resolve_ip_only_endpoints).
THEOREM ReportAlwaysBracketed == Spec => []ReportBracket
<1>1. Init => ReportInv
  BY InitReportInv
<1>2. ASSUME IndInv, ReportInv PROVE ReportBracket
  <2>1. SUFFICES ASSUME main = "exited"
                 PROVE  Total(drained) <= TotalReported /\ TotalReported <= Total(seen)
    BY DEF ReportBracket
  <2>2. rows = {}
    BY <1>2, <2>1 DEF IndInv, RowsPresent
  <2>3. Visible = [h \in Hosts |-> report[h].ingress + report[h].egress]
    BY <2>1, <2>2 DEF Visible, Unread, Traffic
  <2>4. QED
    BY <1>2, <2>1, <2>3 DEF ReportInv, Bracketed, TotalReported
<1>3. QED
  BY <1>1, <1>2, NextReportInv, Inductive, PTL DEF Spec

\* Reverse lookups rename bare addresses only: a row that was reached by name
\* keeps its Arc from the step that made it on (main.rs,
\* resolve_ip_only_endpoints; stats.rs, Registry::rename).
THEOREM NamesAlwaysKeepTheirRow == Spec => NamesKeepTheirRow
<1> DEFINE Keeps == \A h \in Hosts \ IpHosts : Present(h) => endpoints'[h] = endpoints[h]
<1>1. ASSUME IndInv, [Next]_vars PROVE Keeps
  <2>1. RegistryTypeOK
    BY <1>1 DEF IndInv, TypeOK
  <2>2. CASE UNCHANGED endpoints
    BY <2>2
  <2>3. ASSUME NEW host \in Hosts, endpoints' = MapWith(host) PROVE Keeps
    BY <2>1, <2>3 DEF RegistryTypeOK, MapWith, endpoint, Present
  <2>4. ASSUME NEW host \in IpHosts, NEW name \in Hosts, rename(host, name) PROVE Keeps
    BY <2>1, <2>4, SetsAssumption DEF RegistryTypeOK, rename, Present
  <2>5. \/ UNCHANGED endpoints
        \/ \E host \in Hosts : endpoints' = MapWith(host)
        \/ \E host \in IpHosts, name \in Hosts : rename(host, name)
    BY <1>1, SetsAssumption
       DEF Next, TaskStep, MainStep, Connect, LoopAccepts, TaskStarts, HandshakeFails,
           TunnelDials, TunnelRefused, TunnelOpens, TunnelEnds, HttpStarts, HttpDials,
           HttpDialFails, HttpOpens, HttpUpstreamEnds, HttpEnds, UdpStarts, RelayPolled,
           RelayOpens, RelayYields, RelayFails, UdpEnds, Relays, LoopPolled, LoopYields,
           ChildExits, DeadlinePasses, DrainReturns, LookupAnswers,
           LookupFails, SnapshotStarts, SnapshotReads, Exit, Terminated, vars, registryVars
  <2>6. QED
    BY <2>2, <2>3, <2>4, <2>5
<1>2. QED
  BY <1>1, Inductive, PTL DEF Spec, NamesKeepTheirRow
=============================================================================
