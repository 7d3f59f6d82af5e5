------------------------ MODULE DbPodLifecycleProofs ------------------------
(***************************************************************************)
(* DbPod implements Lifecycle: every step of the controller and of the     *)
(* cluster is a step in the life of the DbPod, or none at all.             *)
(***************************************************************************)
EXTENDS DbPodProofs

\* DbPods are numbered as they come, so a new one owns nothing yet.
Numbered == cr.uid <= born /\ \A k \in Kinds : api[k] <= born

-----------------------------------------------------------------------------
(***************************************************************************)
(* The steps that write the DbPod.                                         *)
(***************************************************************************)

\* A step leaves the DbPod alone, or is one of these.
LEMMA OwnerChange ==
  ASSUME [Next]_vars
  PROVE  \/ UNCHANGED <<cr, born>>
         \/ AddFinalizer \/ Release \/ NameStatus \/ InitiateStatus \/ ReadyStatus
         \/ UserCreate \/ UserDelete \/ FinishForeground
<1>1. CASE Pass
  <2>1. ASSUME NEW k, Ensure(k) \/ FetchSecret(k) \/ CreateFetched(k)
        PROVE  UNCHANGED <<cr, born>>
    BY <2>1 DEF Ensure, FetchSecret, CreateFetched
  <2>2. ASSUME ReconcileService \/ ReconcileServiceRead \/ ReconcileCmap \/ ReconcileSecret
               \/ ReconcileProxyService \/ ReconcileProxyStatefulset
               \/ ReconcileInitCmap \/ ReconcileProxyCmap
        PROVE  UNCHANGED <<cr, born>>
    BY <2>1, <2>2 DEF ReconcileService, ReconcileServiceRead, ReconcileCmap,
       ReconcileSecret, ReconcileProxyService, ReconcileProxyStatefulset,
       ReconcileInitCmap, ReconcileProxyCmap
  <2>3. CASE StartPass \/ ReconcileDBDepl \/ Return \/ DeleteExternalResources
    BY <2>3 DEF StartPass, ReconcileDBDepl, Return, DeleteExternalResources
  <2> QED
    BY <1>1, <2>2, <2>3 DEF Pass
<1>2. CASE Cluster
  <2>1. ASSUME NEW k, UserDeleteChild(k) \/ Collect(k) \/ Provision(k) \/ PodUp \/ PodDown
        PROVE  UNCHANGED <<cr, born>>
    BY <2>1 DEF UserDeleteChild, Collect, Provision, PodUp, PodDown
  <2>2. CASE UserEdit
    BY <2>2 DEF UserEdit, Write
  <2> QED
    BY <1>2, <2>1, <2>2 DEF Cluster
<1>3. CASE ApiError \/ DeliverDbPod \/ (\E o \in Tracked : Deliver(o)) \/ Resync \/ Restart
           \/ UNCHANGED vars
  BY <1>3 DEF ApiError, DeliverDbPod, Deliver, Resync, Restart, vars
<1> QED
  BY <1>1, <1>2, <1>3 DEF Next

\* Those steps leave the children alone, and the number too unless a user is at it.
LEMMA ChildrenStay ==
  ASSUME AddFinalizer \/ Release \/ NameStatus \/ InitiateStatus \/ ReadyStatus
         \/ UserCreate \/ UserDelete \/ FinishForeground
  PROVE  UNCHANGED api /\ (UNCHANGED born \/ UserCreate)
BY DEF AddFinalizer, Release, NameStatus, InitiateStatus, ReadyStatus, UserCreate,
   UserDelete, FinishForeground, children

\* What settling leaves of a DbPod.
LEMMA SettleFields ==
  ASSUME NEW c \in DbPods
  PROVE  \/ Settle(c) = c
         \/ c.del /\ ~c.fin /\ Settle(c) = NoCr
BY DEF Settle

LEMMA Fields ==
  ASSUME TypeOK
  PROVE  /\ [cr EXCEPT !.fin = TRUE] \in DbPods
         /\ [cr EXCEPT !.fin = FALSE] \in DbPods
         /\ [cr EXCEPT !.fg = FALSE] \in DbPods
         /\ \A fg \in BOOLEAN : [cr EXCEPT !.del = TRUE, !.fg = fg] \in DbPods
BY DEF TypeOK, DbPods

-----------------------------------------------------------------------------
(***************************************************************************)
(* Numbers.                                                                *)
(***************************************************************************)

LEMMA NumberedInit == Init => Numbered
<1>1. Init => cr.uid = 0 /\ born = 0 /\ api = [k \in Kinds |-> 0]
  BY NoCrFields DEF Init
<1> QED
  BY <1>1 DEF Numbered

\* A child is made for the DbPod that is there, which has the highest number.
LEMMA NumberedStep ==
  ASSUME TypeOK, Guarded, Numbered, [Next]_vars
  PROVE  Numbered'
<1> USE DEF Numbered
<1>0. cr.uid \in Nat /\ born \in Nat /\ \A k \in Kinds : api[k] \in Nat
  BY BoundsAssumption DEF TypeOK, DbPods
<1>1. CASE UNCHANGED <<cr, born>>
  <2>1. CASE UNCHANGED api
    BY <1>1, <2>1
  <2>2. ASSUME NEW k \in Kinds, RemoveChild(k) PROVE Numbered'
    BY <1>0, <1>1, <2>2 DEF RemoveChild, TypeOK
  <2>3. ASSUME NEW k, pc \in {"ensure", "create"}, Create(k) PROVE Numbered'
    <3>1. mem.uid = cr.uid
      BY <2>3 DEF Guarded, PassSafe
    <3>2. api' = api \/ api' = [api EXCEPT ![k] = mem.uid]
      BY <2>3 DEF Create, children
    <3> QED
      BY <1>1, <3>1, <3>2 DEF TypeOK
  <2> QED
    BY <2>1, <2>2, <2>3, ChildrenChange
<1>2. CASE UserCreate
  <2>1. cr' = [NoCr EXCEPT !.uid = born + 1] /\ born' = born + 1 /\ UNCHANGED api
    BY <1>2, ChildrenStay DEF UserCreate, Write
  <2>2. cr'.uid = born + 1
    BY <2>1 DEF NoCr
  <2> QED
    BY <1>0, <2>1, <2>2
<1>3. ASSUME UNCHANGED <<api, born>>, cr'.uid \in {0, cr.uid} PROVE Numbered'
  BY <1>0, <1>3
<1>4. CASE AddFinalizer \/ Release \/ UserDelete \/ FinishForeground
  <2>1. \/ UNCHANGED cr
        \/ cr' = [cr EXCEPT !.fin = TRUE]
        \/ cr' = Settle([cr EXCEPT !.fin = FALSE])
        \/ \E fg \in BOOLEAN : cr' = Settle([cr EXCEPT !.del = TRUE, !.fg = fg])
        \/ cr' = Settle([cr EXCEPT !.fg = FALSE])
    BY <1>4 DEF AddFinalizer, Release, UserDelete, FinishForeground, Write
  <2>2. cr'.uid \in {0, cr.uid}
    <3>1. /\ [cr EXCEPT !.fin = TRUE].uid = cr.uid
          /\ [cr EXCEPT !.fin = FALSE].uid = cr.uid
          /\ [cr EXCEPT !.fg = FALSE].uid = cr.uid
          /\ \A fg \in BOOLEAN : [cr EXCEPT !.del = TRUE, !.fg = fg].uid = cr.uid
      BY DEF TypeOK, DbPods
    <3>2. \A c \in DbPods : c.uid = cr.uid => Settle(c).uid \in {0, cr.uid}
      BY SettleFields, NoCrFields
    <3> QED
      BY <2>1, <3>1, <3>2, Fields
  <2>3. UNCHANGED born
    BY <1>4 DEF AddFinalizer, Release, UserDelete, FinishForeground
  <2> QED
    BY <1>3, <1>4, <2>2, <2>3, ChildrenStay
<1>5. CASE NameStatus \/ InitiateStatus \/ ReadyStatus
  <2>1. \E m : cr' \in {cr, [cr EXCEPT !.named = m.named, !.progress = m.progress]}
    BY <1>5 DEF NameStatus, InitiateStatus, ReadyStatus, StatusUpdate
  <2>2. cr'.uid = cr.uid
    BY <2>1 DEF TypeOK, DbPods
  <2>3. UNCHANGED born
    BY <1>5 DEF NameStatus, InitiateStatus, ReadyStatus
  <2> QED
    BY <1>3, <1>5, <2>2, <2>3, ChildrenStay
<1> QED
  BY <1>1, <1>2, <1>4, <1>5, OwnerChange

-----------------------------------------------------------------------------
(***************************************************************************)
(* Steps of a life.                                                        *)
(***************************************************************************)

LEMMA LifeInit == Init => Life!Init
BY NoCrFields DEF Init, Life!Init

\* The status writes of a pass: nothing, or Ready.
LEMMA StatusLives ==
  ASSUME TypeOK, Guarded, pc \in Creating, UNCHANGED api, NEW m \in DbPods,
         UNCHANGED cr \/ StatusUpdate(m), mem.progress = "Ready" => m.progress = "Ready"
  PROVE  [Life!Next]_(Life!vars)
<1> DEFINE stored == [cr EXCEPT !.named = m.named, !.progress = m.progress]
<1>1. /\ stored.uid = cr.uid /\ stored.fin = cr.fin /\ stored.del = cr.del
      /\ stored.progress = m.progress
  BY DEF TypeOK, DbPods
<1>2. cr.fin
  BY DEF Guarded, PassSafe, Creating
<1>3. cr' \in {cr, stored}
  BY DEF StatusUpdate
<1>4. /\ cr'.uid = cr.uid /\ cr'.fin = cr.fin /\ cr'.del = cr.del
  BY <1>1, <1>3
<1>5. cr.progress = "Ready" => cr'.progress = "Ready"
  BY StatusKeepsReady
<1>6. CASE cr'.progress = "Ready" /\ cr.progress # "Ready"
  <2>1. Life!Report
    BY <1>2, <1>4, <1>6 DEF Life!Report
  <2> QED
    BY <2>1 DEF Life!Next
<1>7. CASE (cr'.progress = "Ready") = (cr.progress = "Ready")
  BY <1>4, <1>7 DEF Life!vars
<1> QED
  BY <1>5, <1>6, <1>7

\* A child is made, or removed.
LEMMA ChildLives ==
  ASSUME TypeOK, Guarded, [Next]_vars, UNCHANGED cr
  PROVE  [Life!Next]_(Life!vars)
<1>1. CASE UNCHANGED api
  BY <1>1 DEF Life!vars
<1>2. ASSUME NEW k \in Kinds, RemoveChild(k) PROVE [Life!Next]_(Life!vars)
  <2>1. api' = [api EXCEPT ![k] = 0]
    BY <1>2 DEF RemoveChild
  <2>2. CASE api[k] = 0
    BY <1>1, <2>1, <2>2 DEF TypeOK
  <2>3. CASE api[k] # 0
    BY <2>1, <2>3 DEF Life!Next, Life!Lose
  <2> QED
    BY <2>2, <2>3
<1>3. ASSUME NEW k, pc \in {"ensure", "create"}, Create(k) PROVE [Life!Next]_(Life!vars)
  <2>1. mem.uid = cr.uid /\ cr.fin
    BY <1>3 DEF Guarded, PassSafe
  <2>2. UNCHANGED api \/ (api[k] = 0 /\ api' = [api EXCEPT ![k] = cr.uid])
    BY <1>3, <2>1 DEF Create, children
  <2>3. CASE k \notin Kinds
    BY <1>1, <2>2, <2>3 DEF TypeOK
  <2>4. CASE k \in Kinds /\ api[k] = 0 /\ api' = [api EXCEPT ![k] = cr.uid]
    BY <2>1, <2>4 DEF Life!Next, Life!Make
  <2> QED
    BY <1>1, <2>2, <2>3, <2>4
<1> QED
  BY <1>1, <1>2, <1>3, ChildrenChange

\* Every step is one of a life, or leaves it alone.
LEMMA LifeStep ==
  ASSUME TypeOK, Guarded, Numbered, [Next]_vars
  PROVE  [Life!Next]_(Life!vars)
<1>1. CASE UNCHANGED <<cr, born>>
  BY <1>1, ChildLives
<1>2. CASE AddFinalizer
  <2>1. CASE UNCHANGED cr
    BY <2>1, ChildLives
  <2>2. CASE cr' # cr
    <3>1. pc = "finalizer" /\ memFresh /\ cr' = [cr EXCEPT !.fin = TRUE] /\ UNCHANGED api
      BY <1>2, <2>2, ChildrenStay DEF AddFinalizer
    <3>2. cr.uid # 0 /\ ~cr.del
      BY <3>1 DEF Guarded, Fresh, PassSafe
    <3>3. /\ cr'.uid = cr.uid /\ cr'.fin = TRUE /\ cr'.del = cr.del
          /\ cr'.progress = cr.progress
      BY <3>1 DEF TypeOK, DbPods
    <3>4. ~cr.fin
      BY <2>2, <3>1 DEF TypeOK, DbPods
    <3> QED
      BY <3>1, <3>2, <3>3, <3>4 DEF Life!Next, Life!Guard
  <2> QED
    BY <2>1, <2>2
<1>3. ASSUME NEW c \in DbPods, cr' = Settle(c), UNCHANGED api, cr.uid # 0,
             c.uid = cr.uid, c.progress = cr.progress,
             \/ c.fin = cr.fin /\ c.del = cr.del
             \/ ~c.fin /\ c.del = cr.del /\ cr.del
             \/ c.fin = cr.fin /\ ~cr.del /\ c.del
      PROVE  [Life!Next]_(Life!vars)
  <2>1. CASE cr' = NoCr /\ c.del /\ ~c.fin
    <3>1. Life!Vanish
      BY <1>3, <2>1, NoCrFields DEF Life!Vanish
    <3> QED
      BY <1>3, <2>1, <3>1 DEF Life!Next, Life!Go, Life!Release, Life!Condemn
  <2>2. CASE cr' = c
    <3>1. CASE c.fin = cr.fin /\ c.del = cr.del
      BY <1>3, <2>2, <3>1 DEF Life!vars
    <3>2. CASE c.fin # cr.fin
      <4>1. cr.fin \in BOOLEAN /\ cr.del \in BOOLEAN /\ c.fin \in BOOLEAN
        BY DEF TypeOK, DbPods
      <4> QED
        BY <1>3, <2>2, <3>2, <4>1 DEF Life!Next, Life!Release
    <3>3. CASE c.fin = cr.fin /\ ~cr.del /\ c.del
      <4>1. c.del = TRUE
        BY <3>3 DEF DbPods
      <4> QED
        BY <1>3, <2>2, <3>3, <4>1 DEF Life!Next, Life!Condemn
    <3> QED
      BY <1>3, <3>1, <3>2, <3>3
  <2> QED
    BY <1>3, <2>1, <2>2, SettleFields
<1>4. CASE Release
  <2>1. CASE UNCHANGED cr
    BY <2>1, ChildLives
  <2>2. CASE cr' # cr
    <3> DEFINE c == [cr EXCEPT !.fin = FALSE]
    <3>1. pc = "release" /\ memFresh /\ cr' = Settle(c) /\ UNCHANGED api
      BY <1>4, <2>2, ChildrenStay DEF Release
    <3>2. cr.uid # 0 /\ cr.del
      BY <3>1 DEF Guarded, Fresh, PassSafe
    <3>3. /\ c \in DbPods /\ c.uid = cr.uid /\ ~c.fin /\ c.del = cr.del
          /\ c.progress = cr.progress
      BY DEF TypeOK, DbPods
    <3> HIDE DEF c
    <3> QED
      BY <1>3, <3>1, <3>2, <3>3
  <2> QED
    BY <2>1, <2>2
<1>5. CASE UserDelete
  <2>1. PICK fg \in BOOLEAN : cr' = Settle([cr EXCEPT !.del = TRUE, !.fg = fg])
    BY <1>5 DEF UserDelete, Write
  <2> DEFINE c == [cr EXCEPT !.del = TRUE, !.fg = fg]
  <2>2. cr.uid # 0 /\ ~cr.del /\ UNCHANGED api
    BY <1>5, ChildrenStay DEF UserDelete
  <2>3. /\ c \in DbPods /\ c.uid = cr.uid /\ c.fin = cr.fin /\ c.del
        /\ c.progress = cr.progress
    BY DEF TypeOK, DbPods
  <2>4. cr' = Settle(c)
    BY <2>1
  <2> HIDE DEF c
  <2> QED
    BY <1>3, <2>2, <2>3, <2>4
<1>6. CASE FinishForeground
  <2> DEFINE c == [cr EXCEPT !.fg = FALSE]
  <2>1. cr' = Settle(c) /\ UNCHANGED api /\ cr.fg
    BY <1>6, ChildrenStay DEF FinishForeground, Write
  <2>2. cr.uid # 0
    BY <2>1, NoCrFields DEF Guarded, Absent
  <2>3. /\ c \in DbPods /\ c.uid = cr.uid /\ c.fin = cr.fin /\ c.del = cr.del
        /\ c.progress = cr.progress
    BY DEF TypeOK, DbPods
  <2> HIDE DEF c
  <2> QED
    BY <1>3, <2>1, <2>2, <2>3
<1>7. CASE UserCreate
  <2>1. cr = NoCr /\ cr' = [NoCr EXCEPT !.uid = born + 1] /\ UNCHANGED api
    BY <1>7, ChildrenStay DEF UserCreate, Write, Guarded, Absent
  <2>2. /\ cr'.uid = born + 1 /\ ~cr'.fin /\ ~cr'.del /\ cr'.progress = ""
        /\ cr.uid = 0 /\ ~cr.fin /\ ~cr.del /\ cr.progress = ""
        /\ cr'.fin = cr.fin /\ cr'.del = cr.del
    BY <2>1 DEF NoCr
  <2>3. born + 1 \in Nat \ ({0} \cup {api[k] : k \in Kinds})
    BY BoundsAssumption DEF Numbered, TypeOK
  <2> QED
    BY <2>1, <2>2, <2>3 DEF Life!Next, Life!Appear
<1>8. CASE NameStatus
  <2> DEFINE m == [mem EXCEPT !.named = TRUE]
  <2>1. m \in DbPods /\ m.progress = mem.progress
    BY DEF TypeOK, DbPods
  <2>2. pc \in Creating /\ UNCHANGED api /\ (UNCHANGED cr \/ StatusUpdate(m))
    BY <1>8, ChildrenStay DEF NameStatus, Creating
  <2> HIDE DEF m
  <2> QED
    BY <2>1, <2>2, StatusLives
<1>9. CASE InitiateStatus
  <2> DEFINE m == [mem EXCEPT !.progress = "Initiating"]
  <2>1. m \in DbPods
    BY DEF TypeOK, DbPods, Progress
  <2>2. pc \in Creating /\ UNCHANGED api
    BY <1>9, ChildrenStay DEF InitiateStatus, Creating
  <2>3. UNCHANGED cr \/ (mem.progress # "Ready" /\ StatusUpdate(m))
    BY <1>9 DEF InitiateStatus
  <2> HIDE DEF m
  <2>4. CASE UNCHANGED cr
    BY <2>4, ChildLives
  <2> QED
    BY <2>1, <2>2, <2>3, <2>4, StatusLives
<1>10. CASE ReadyStatus
  <2> DEFINE m == [mem EXCEPT !.progress = "Ready"]
  <2>1. m \in DbPods /\ m.progress = "Ready"
    BY DEF TypeOK, DbPods, Progress
  <2>2. pc \in Creating /\ UNCHANGED api /\ StatusUpdate(m)
    BY <1>10, ChildrenStay DEF ReadyStatus, Creating
  <2> HIDE DEF m
  <2> QED
    BY <2>1, <2>2, StatusLives
<1> QED
  BY <1>1, <1>2, <1>4, <1>5, <1>6, <1>7, <1>8, <1>9, <1>10, OwnerChange

\* The DbPod controller implements the life cycle of Lifecycle, for any number of
\* DbPods, whatever faults, users and the garbage collector do.
THEOREM LifecycleImplemented == Spec => ImplementsLifecycle
<1>1. TypeOK /\ Guarded /\ Numbered /\ [Next]_vars => Numbered'
  BY NumberedStep
<1>2. TypeOK /\ Guarded /\ Numbered /\ [Next]_vars => [Life!Next]_(Life!vars)
  BY LifeStep
<1> QED
  BY <1>1, <1>2, NumberedInit, LifeInit, TypeCorrect, GuardedAlways, PTL
     DEF Spec, ImplementsLifecycle, Life!Spec
=============================================================================
