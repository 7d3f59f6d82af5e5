------------------------- MODULE DbPodWakeupProofs -------------------------
(***************************************************************************)
(* No wake-up of the DbPod controller is missing: whatever is not in order *)
(* has a pass ahead of it.                                                 *)
(***************************************************************************)
EXTENDS DbPodProofs

\* No request whose error is ignored has been lost.
Attended == left["swallow"] = Limits["swallow"]

\* Something will queue the name, or has: the next pass begins after this moment.
Awake == queued \/ ~cachedFresh \/ Kinds \cap news # {}

\* What is not to be reported is known.
CacheTrue ==
  /\ \A k \in Kinds \ news : k \in cache <=> api[k] # 0
  /\ "mysql" \notin news => cachedAvail = avail
  /\ avail => api["mysql"] # 0

\* A pass whose copy has become old will be followed by another, and one whose
\* copy is the latest knows the stored status.
CopyTrue ==
  /\ pc # "idle" /\ ~memFresh => queued \/ ~cachedFresh
  /\ memFresh /\ Attended => mem.named = cr.named /\ mem.progress = cr.progress

\* The running pass has child k still before it.
Ahead(k) ==
  \/ pc \in {"finalizer", "name", "initiate"}
  \/ pc \in {"ensure", "create"} /\ obj \in Kinds /\ EnsureOrder[obj] <= EnsureOrder[k]
  \/ pc = "ready" /\ EnsureOrder["mysql"] < EnsureOrder[k]

\* The ConfigMaps that need the Secret wait for it.
Waiting(k) == k \in {"init", "pcmap"} /\ api["sec"] = 0 /\ Ahead("sec")

\* What is not in order is seen to by the running pass, or by the next.
FinPending == ~cr.fin => Awake \/ pc # "idle"
NamePending == ~cr.named => Awake \/ pc \in {"finalizer", "name"}
ChildPending(k) == api[k] = 0 => Awake \/ Ahead(k) \/ Waiting(k)
ReadyPending == avail /\ cr.progress # "Ready" => Awake \/ Ahead("mysql") \/ pc = "ready"

Alive == cr.uid # 0 /\ ~cr.del

\* Everything of the stored state that is not in order is seen to.
InHand == FinPending /\ NamePending /\ ReadyPending /\ \A k \in Kinds : ChildPending(k)

Pending == Alive /\ Attended => InHand

\* Disturbances are only used up.
LeftBound == left["swallow"] <= Limits["swallow"]

Wakeful == CacheTrue /\ CopyTrue /\ Pending

IWake == TypeOK /\ Guarded /\ LeftBound /\ Wakeful

-----------------------------------------------------------------------------
(***************************************************************************)
(* Where a pass is in the order of the children.                           *)
(***************************************************************************)

LEMMA OrderOfKinds ==
  /\ \A k \in Kinds : k \in Visited(EnsureOrder) /\ EnsureOrder[k] \in 1..11
  /\ \A j, k \in Kinds : EnsureOrder[j] = EnsureOrder[k] => j = k
  /\ EnsureOrder["init"] = 3 /\ EnsureOrder["sec"] = 5 /\ EnsureOrder["mysql"] = 6
  /\ EnsureOrder["pcmap"] = 7
BY KindsAssumption DEF Visited, EnsureOrder, Tracked, AllKinds

LEMMA VisitedKinds == \A o \in Visited(EnsureOrder) : o \in Kinds /\ EnsureOrder[o] \in 1..11
BY DEF Visited, EnsureOrder, Tracked, Volumes

\* A pass starts at a step that no child comes before.
LEMMA FirstAhead ==
  ASSUME NEW k \in Kinds
  PROVE  First(EnsureOrder) \in Kinds /\ EnsureOrder[First(EnsureOrder)] <= EnsureOrder[k]
BY OrderOfKinds, VisitedKinds, EarliestLeast DEF First

\* The step after j passes over no child that comes after j.
LEMMA AfterAhead ==
  ASSUME NEW j \in Kinds, NEW k \in Kinds, EnsureOrder[j] < EnsureOrder[k]
  PROVE  /\ After(EnsureOrder, j) \in Kinds
         /\ EnsureOrder[After(EnsureOrder, j)] <= EnsureOrder[k]
<1> DEFINE S == {p \in Visited(EnsureOrder) : EnsureOrder[p] > EnsureOrder[j]}
<1>1. k \in S
  BY OrderOfKinds
<1>2. \A o \in S : o \in Kinds /\ EnsureOrder[o] \in 1..11
  BY VisitedKinds
<1>3. After(EnsureOrder, j) = Earliest(EnsureOrder, S)
  BY DEF After
<1> HIDE DEF S
<1> QED
  BY <1>1, <1>2, <1>3, EarliestLeast

LEMMA KindsDomain ==
  /\ {"init", "sec", "mysql"} \subseteq Kinds
  /\ "none" \notin Kinds
  /\ Kinds \subseteq Watched
  /\ Kinds \cap Volumes = {}
  /\ Kinds \subseteq Tracked
BY KindsAssumption DEF AllKinds, Volumes, Tracked, Watched

\* The object of a step for one of the children is tracked.
LEMMA ObjInKinds ==
  ASSUME TypeOK, obj \in AllKinds
  PROVE  obj \in Kinds
BY DEF TypeOK, Objects, Tracked, Volumes, AllKinds

-----------------------------------------------------------------------------
(***************************************************************************)
(* Disturbances.                                                           *)
(***************************************************************************)

LEMMA SpendLeft ==
  ASSUME TypeOK, NEW e \in Events, Spend(e)
  PROVE  /\ left'["swallow"] <= left["swallow"]
         /\ e = "swallow" => left'["swallow"] < left["swallow"]
BY EventNames DEF TypeOK, Spend

LEMMA LeftStep == TypeOK /\ [Next]_vars => left'["swallow"] <= left["swallow"]
<1> SUFFICES ASSUME TypeOK, [Next]_vars PROVE left'["swallow"] <= left["swallow"]
  OBVIOUS
<1>1. left["swallow"] \in Nat
  BY EventNames DEF TypeOK
<1>2. SUFFICES UNCHANGED left \/ \E e \in Events : Spend(e)
  BY <1>1, SpendLeft
<1> DEFINE Used == UNCHANGED left \/ \E e \in Events : Spend(e)
<1> USE EventNames
<1>3. \A k : Create(k) => Used
  BY DEF Create
<1>4. \A m : StatusUpdate(m) => Used
  BY DEF StatusUpdate
<1>5. CASE Pass
  <2>1. \A k : Ensure(k) \/ FetchSecret(k) \/ CreateFetched(k) => Used
    BY <1>3 DEF Ensure, FetchSecret, CreateFetched
  <2>2. ReconcileDBDepl => Used
    BY <1>3 DEF ReconcileDBDepl
  <2>3. NameStatus \/ InitiateStatus \/ ReadyStatus => Used
    BY <1>4 DEF NameStatus, InitiateStatus, ReadyStatus
  <2>4. StartPass \/ AddFinalizer \/ Return \/ DeleteExternalResources \/ Release => Used
    BY DEF StartPass, AddFinalizer, Return, DeleteExternalResources, Release
  <2>5. ReconcileService \/ ReconcileServiceRead \/ ReconcileCmap \/ ReconcileSecret
        \/ ReconcileProxyService \/ ReconcileProxyStatefulset
        \/ ReconcileInitCmap \/ ReconcileProxyCmap => Used
    BY <2>1 DEF ReconcileService, ReconcileServiceRead, ReconcileCmap,
       ReconcileSecret, ReconcileProxyService, ReconcileProxyStatefulset,
       ReconcileInitCmap, ReconcileProxyCmap
  <2> QED
    BY <1>5, <2>2, <2>3, <2>4, <2>5 DEF Pass
<1>6. CASE Cluster
  BY <1>6 DEF Cluster, UserCreate, UserDelete, UserEdit, FinishForeground, PodUp, PodDown,
     UserDeleteChild, Collect, Provision
<1>7. CASE ApiError \/ DeliverDbPod \/ (\E o \in Tracked : Deliver(o)) \/ Resync \/ Restart
  BY <1>7 DEF ApiError, DeliverDbPod, Deliver, Resync, Restart
<1>8. CASE UNCHANGED vars
  BY <1>8 DEF vars
<1> QED
  BY <1>5, <1>6, <1>7, <1>8 DEF Next

LEMMA LeftBoundStep == TypeOK /\ LeftBound /\ [Next]_vars => LeftBound'
<1> SUFFICES ASSUME TypeOK, LeftBound, [Next]_vars PROVE LeftBound'
  OBVIOUS
<1>1. left["swallow"] \in Nat /\ Limits["swallow"] \in Nat
  BY EventNames, BoundsAssumption DEF TypeOK
<1>2. left'["swallow"] \in Nat
  BY TypeStep, EventNames DEF TypeOK
<1> QED
  BY <1>1, <1>2, LeftStep DEF LeftBound

\* Where no ignored error has happened by now, none has happened before.
LEMMA StillAttended ==
  ASSUME TypeOK, LeftBound, [Next]_vars, Attended'
  PROVE  Attended /\ ~Spend("swallow")
<1>1. left["swallow"] \in Nat /\ Limits["swallow"] \in Nat
  BY EventNames, BoundsAssumption DEF TypeOK
<1>2. left'["swallow"] \in Nat
  BY TypeStep, EventNames DEF TypeOK
<1>3. Limits' = Limits
  OBVIOUS
<1>4. Spend("swallow") => left'["swallow"] < left["swallow"]
  BY SpendLeft, EventNames
<1> QED
  BY <1>1, <1>2, <1>3, <1>4, LeftStep DEF LeftBound, Attended

-----------------------------------------------------------------------------
(***************************************************************************)
(* What the cache knows.                                                   *)
(***************************************************************************)

LEMMA CacheTrueCreate ==
  ASSUME TypeOK, CacheTrue, NEW k \in Kinds, Create(k), UNCHANGED <<cache, cachedAvail>>
  PROVE  CacheTrue'
<1>1. CASE UNCHANGED children
  BY <1>1 DEF CacheTrue, children
<1>2. CASE api[k] = 0 /\ api' = [api EXCEPT ![k] = mem.uid] /\ news' = news \cup {k}
           /\ UNCHANGED avail
  <2>1. \A j \in Kinds \ {k} : api'[j] = api[j]
    BY <1>2 DEF TypeOK
  <2>2. "mysql" \in Kinds
    BY KindsDomain
  <2> QED
    BY <1>2, <2>1, <2>2 DEF CacheTrue
<1> QED
  BY <1>1, <1>2 DEF Create

LEMMA CacheTrueRemove ==
  ASSUME TypeOK, CacheTrue, NEW k \in Kinds, RemoveChild(k), UNCHANGED <<cache, cachedAvail>>
  PROVE  CacheTrue'
<1>1. \A j \in Kinds \ {k} : api'[j] = api[j]
  BY DEF RemoveChild, TypeOK
<1>2. avail' = (avail /\ k # "mysql") /\ news' = news \cup {k}
  BY DEF RemoveChild
<1>3. "mysql" \in Kinds
  BY KindsDomain
<1>4. avail \in BOOLEAN /\ (k # "mysql" => avail' = avail)
  BY <1>2 DEF TypeOK
<1> QED
  BY <1>1, <1>2, <1>3, <1>4 DEF CacheTrue

LEMMA CacheTrueStep == TypeOK /\ CacheTrue /\ [Next]_vars => CacheTrue'
<1> SUFFICES ASSUME TypeOK, CacheTrue, [Next]_vars PROVE CacheTrue'
  OBVIOUS
<1> DEFINE Same == UNCHANGED <<api, avail, news, cache, cachedAvail>>
<1>1. Same => CacheTrue'
  BY DEF CacheTrue
<1>2. CASE Pass
  <2>1. ASSUME NEW k \in AllKinds, Ensure(k) \/ FetchSecret(k) \/ CreateFetched(k)
        PROVE  CacheTrue'
    <3>1. k \in Kinds
      BY <2>1, ObjInKinds DEF Ensure, FetchSecret, CreateFetched
    <3>2. UNCHANGED <<cache, cachedAvail>> /\ (Same \/ Create(k))
      BY <2>1 DEF Ensure, FetchSecret, CreateFetched, children, informers
    <3> QED
      BY <1>1, <3>1, <3>2, CacheTrueCreate
  <2>2. CASE ReconcileDBDepl
    <3>1. UNCHANGED <<cache, cachedAvail>> /\ (Same \/ Create("mysql"))
      BY <2>2 DEF ReconcileDBDepl, children, informers
    <3> QED
      BY <1>1, <3>1, CacheTrueCreate, KindsDomain
  <2>3. CASE ReconcileService \/ ReconcileServiceRead \/ ReconcileCmap \/ ReconcileSecret
             \/ ReconcileProxyService \/ ReconcileProxyStatefulset
             \/ ReconcileInitCmap \/ ReconcileProxyCmap
    <3>1. {"svc", "readsvc", "init", "cmap", "sec", "pcmap", "psvc", "psts"} \subseteq AllKinds
      BY DEF AllKinds
    <3> QED
      BY <2>1, <2>3, <3>1 DEF ReconcileService, ReconcileServiceRead, ReconcileCmap,
         ReconcileSecret, ReconcileProxyService, ReconcileProxyStatefulset,
         ReconcileInitCmap, ReconcileProxyCmap
  <2>4. CASE StartPass \/ AddFinalizer \/ NameStatus \/ InitiateStatus \/ ReadyStatus \/ Return
             \/ DeleteExternalResources \/ Release
    <3>1. Same
      BY <2>4 DEF StartPass, AddFinalizer, NameStatus, InitiateStatus, ReadyStatus, Return,
         DeleteExternalResources, Release, children, informers
    <3> QED
      BY <1>1, <3>1
  <2> QED
    BY <1>2, <2>2, <2>3, <2>4 DEF Pass
<1>3. CASE ApiError \/ DeliverDbPod \/ Resync \/ UserCreate \/ UserDelete \/ UserEdit
           \/ FinishForeground \/ UNCHANGED vars
  <2>1. Same
    BY <1>3 DEF ApiError, DeliverDbPod, Resync, UserCreate, UserDelete, UserEdit,
       FinishForeground, vars, children, informers
  <2> QED
    BY <1>1, <2>1
<1>4. ASSUME NEW o \in Tracked, Deliver(o) PROVE CacheTrue'
  <2>1. UNCHANGED <<api, avail>> /\ news' = news \ {o}
    BY <1>4 DEF Deliver
  <2>2. \A k \in Kinds \ {o} : k \in cache' <=> k \in cache
    BY <1>4 DEF Deliver
  <2>3. o \in Kinds => (o \in cache' <=> api[o] # 0)
    BY <1>4, KindsDomain DEF Deliver, Found, Exists
  <2>4. cachedAvail' = IF o = "mysql" THEN avail ELSE cachedAvail
    BY <1>4 DEF Deliver
  <2> QED
    BY <2>1, <2>2, <2>3, <2>4 DEF CacheTrue
<1>5. CASE Restart
  <2>1. \A k \in Kinds : k \in cache' <=> api[k] # 0
    BY <1>5, KindsDomain DEF Restart, Found, Exists
  <2>2. UNCHANGED <<api, avail>> /\ cachedAvail' = avail
    BY <1>5 DEF Restart
  <2> QED
    BY <2>1, <2>2 DEF CacheTrue
<1>6. ASSUME NEW k \in Kinds, UserDeleteChild(k) \/ Collect(k) PROVE CacheTrue'
  BY <1>6, CacheTrueRemove DEF UserDeleteChild, Collect, informers
<1>7. ASSUME NEW v \in Volumes, Provision(v) PROVE CacheTrue'
  BY <1>7 DEF Provision, CacheTrue, informers
<1>8. CASE PodUp \/ PodDown
  <2>1. "mysql" \in news' /\ news \subseteq news' /\ UNCHANGED <<api, cache, cachedAvail>>
    BY <1>8 DEF PodUp, PodDown, informers
  <2>2. avail' => api["mysql"] # 0
    BY <1>8 DEF PodUp, PodDown
  <2> QED
    BY <2>1, <2>2 DEF CacheTrue
<1> QED
  BY <1>2, <1>3, <1>4, <1>5, <1>6, <1>7, <1>8 DEF Next, Cluster

-----------------------------------------------------------------------------
(***************************************************************************)
(* What the running pass knows.                                            *)
(***************************************************************************)

\* A status update that is not lost leaves the stored status and the copy equal.
LEMMA StatusOutcome ==
  ASSUME TypeOK, NEW m \in DbPods, StatusUpdate(m), ~Spend("swallow")
  PROVE  /\ \/ /\ memFresh /\ memFresh' /\ (cachedFresh' => cachedFresh)
               /\ cr'.named = m.named /\ cr'.progress = m.progress
               /\ cr'.uid = cr.uid /\ cr'.del = cr.del /\ cr'.fin = cr.fin
            \/ ~memFresh /\ UNCHANGED <<cr, cachedFresh, memFresh>>
         /\ mem' = m
<1> DEFINE stored == [cr EXCEPT !.named = m.named, !.progress = m.progress]
<1>1. /\ stored.named = m.named /\ stored.progress = m.progress
      /\ stored.uid = cr.uid /\ stored.del = cr.del /\ stored.fin = cr.fin
  BY DEF TypeOK, DbPods
<1>2. /\ mem' = m
      /\ \/ memFresh /\ cr' = stored /\ cachedFresh' = (cachedFresh /\ stored = cr)
            /\ memFresh' = memFresh
         \/ ~memFresh /\ UNCHANGED <<cr, cachedFresh, memFresh>>
  BY DEF StatusUpdate
<1>3. memFresh \in BOOLEAN
  BY DEF TypeOK
<1> HIDE DEF stored
<1>4. CASE memFresh /\ cr' = stored /\ cachedFresh' = (cachedFresh /\ stored = cr)
           /\ memFresh' = memFresh
  BY <1>1, <1>2, <1>4
<1>5. CASE ~memFresh /\ UNCHANGED <<cr, cachedFresh, memFresh>>
  BY <1>2, <1>5
<1> QED
  BY <1>2, <1>4, <1>5

\* What holds after one also when it is lost.
LEMMA StatusFollowed ==
  ASSUME TypeOK, NEW m, StatusUpdate(m), ~memFresh'
  PROVE  (~memFresh /\ cachedFresh' = cachedFresh) \/ ~cachedFresh'
BY DEF StatusUpdate, TypeOK

\* The part of CopyTrue that speaks of the next pass.
Followed == pc # "idle" /\ ~memFresh => queued \/ ~cachedFresh

\* The part that speaks of the status.
Known == memFresh /\ Attended => mem.named = cr.named /\ mem.progress = cr.progress

LEMMA CopyTrueStep ==
  TypeOK /\ Guarded /\ LeftBound /\ CopyTrue /\ [Next]_vars => CopyTrue'
<1> SUFFICES ASSUME TypeOK, Guarded, LeftBound, CopyTrue, [Next]_vars PROVE CopyTrue'
  OBVIOUS
<1>1. Followed /\ Known /\ (Followed' /\ Known' => CopyTrue')
  BY DEF CopyTrue, Followed, Known
<1> DEFINE Idle == pc' = "idle" /\ ~memFresh'
           Same == /\ UNCHANGED <<cr, mem, memFresh, cachedFresh>>
                   /\ pc # "idle" \/ UNCHANGED pc
                   /\ queued => queued'
<1>2. Idle => CopyTrue'
  BY <1>1 DEF Followed, Known
<1>3. Same => CopyTrue'
  BY <1>1, StillAttended DEF Followed, Known
<1>4. EndPass => Idle
  BY DEF EndPass
<1> HIDE DEF Idle, Same
<1>5. CASE StartPass
  <2>1. CASE EndPass
    BY <1>2, <1>4, <2>1
  <2>2. CASE mem' = cached /\ memFresh' = cachedFresh /\ UNCHANGED <<cr, cachedFresh>>
    <3>1. Followed' /\ Known'
      BY <2>2 DEF Followed, Known, Guarded, Fresh
    <3> QED
      BY <1>1, <3>1
  <2> QED
    BY <1>5, <2>1, <2>2 DEF StartPass, informers
<1>6. CASE AddFinalizer
  <2>1. CASE Retry
    BY <1>2, <1>4, <2>1 DEF Retry
  <2>2. CASE /\ memFresh /\ UNCHANGED <<memFresh, left>>
             /\ cr' = [cr EXCEPT !.fin = TRUE] /\ mem' = [mem EXCEPT !.fin = TRUE]
    <3>1. /\ cr'.named = cr.named /\ cr'.progress = cr.progress
          /\ mem'.named = mem.named /\ mem'.progress = mem.progress
      BY <2>2 DEF TypeOK, DbPods
    <3>2. Attended' = Attended
      BY <2>2 DEF Attended
    <3>3. Followed' /\ Known'
      BY <1>1, <2>2, <3>1, <3>2 DEF Followed, Known
    <3> QED
      BY <1>1, <3>3
  <2> QED
    BY <1>6, <2>1, <2>2 DEF AddFinalizer
<1>7. ASSUME NEW m \in DbPods, StatusUpdate(m), pc # "idle", UNCHANGED queued PROVE CopyTrue'
  <2>1. Followed'
    BY <1>1, <1>7, StatusFollowed DEF Followed
  <2>2. ASSUME Attended', memFresh' PROVE mem'.named = cr'.named /\ mem'.progress = cr'.progress
    BY <1>7, <2>2, StillAttended, StatusOutcome
  <2> QED
    BY <1>1, <2>1, <2>2 DEF Known
<1>8. CASE NameStatus
  <2>1. [mem EXCEPT !.named = TRUE] \in DbPods
    BY DEF TypeOK, DbPods
  <2>2. pc # "idle" /\ UNCHANGED queued
    BY <1>8 DEF NameStatus
  <2>3. UNCHANGED <<cr, cachedFresh, mem, memFresh>> \/ StatusUpdate([mem EXCEPT !.named = TRUE])
    BY <1>8 DEF NameStatus
  <2>4. UNCHANGED <<cr, cachedFresh, mem, memFresh>> => Same
    BY <2>2 DEF Same
  <2> QED
    BY <1>3, <1>7, <2>1, <2>2, <2>3, <2>4
<1>9. CASE InitiateStatus
  <2>1. [mem EXCEPT !.progress = "Initiating"] \in DbPods
    BY DEF TypeOK, DbPods, Progress
  <2>2. pc # "idle" /\ UNCHANGED queued
    BY <1>9 DEF InitiateStatus
  <2>3. UNCHANGED <<cr, cachedFresh, mem, memFresh>>
        \/ StatusUpdate([mem EXCEPT !.progress = "Initiating"])
    BY <1>9 DEF InitiateStatus
  <2>4. UNCHANGED <<cr, cachedFresh, mem, memFresh>> => Same
    BY <2>2 DEF Same
  <2> QED
    BY <1>3, <1>7, <2>1, <2>2, <2>3, <2>4
<1>10. CASE ReadyStatus
  <2>1. [mem EXCEPT !.progress = "Ready"] \in DbPods
    BY DEF TypeOK, DbPods, Progress
  <2>2. pc # "idle" /\ UNCHANGED queued /\ StatusUpdate([mem EXCEPT !.progress = "Ready"])
    BY <1>10 DEF ReadyStatus
  <2> QED
    BY <1>7, <2>1, <2>2
<1>11. ASSUME NEW k, Ensure(k) \/ FetchSecret(k) \/ CreateFetched(k) PROVE CopyTrue'
  <2>1. pc # "idle" /\ UNCHANGED <<cr, cachedFresh>>
    BY <1>11 DEF Ensure, FetchSecret, CreateFetched, informers
  <2>2. UNCHANGED <<mem, memFresh, queued>> \/ Retry
    BY <1>11 DEF Ensure, FetchSecret, CreateFetched, Create, Advance
  <2>3. UNCHANGED <<mem, memFresh, queued>> => Same
    BY <2>1 DEF Same
  <2> QED
    BY <1>2, <1>3, <1>4, <2>2, <2>3 DEF Retry
<1>12. CASE ReconcileDBDepl
  <2>1. pc # "idle" /\ UNCHANGED <<cr, cachedFresh>>
    BY <1>12 DEF ReconcileDBDepl, informers
  <2>2. UNCHANGED <<mem, memFresh, queued>> \/ Retry
    BY <1>12 DEF ReconcileDBDepl, Create, Advance
  <2>3. UNCHANGED <<mem, memFresh, queued>> => Same
    BY <2>1 DEF Same
  <2> QED
    BY <1>2, <1>3, <1>4, <2>2, <2>3 DEF Retry
<1>13. CASE Return \/ Release \/ ApiError \/ Restart
  BY <1>2, <1>4, <1>13 DEF Return, Release, ApiError, Restart, Retry
<1>14. CASE DeleteExternalResources
  <2>1. pc # "idle" /\ UNCHANGED <<cr, cachedFresh>>
    BY <1>14 DEF DeleteExternalResources, informers
  <2>2. UNCHANGED <<mem, memFresh, queued>> \/ Retry
    BY <1>14 DEF DeleteExternalResources
  <2>3. UNCHANGED <<mem, memFresh, queued>> => Same
    BY <2>1 DEF Same
  <2> QED
    BY <1>2, <1>3, <1>4, <2>2, <2>3 DEF Retry
<1>15. CASE DeliverDbPod
  <2>1. queued' /\ UNCHANGED <<cr, mem, memFresh, left>>
    BY <1>15 DEF DeliverDbPod, pass
  <2>2. Followed' /\ Known'
    BY <1>1, <2>1 DEF Followed, Known, Attended
  <2> QED
    BY <1>1, <2>2
<1>16. CASE (\E o \in Tracked : Deliver(o)) \/ Resync \/ UNCHANGED vars \/ PodUp \/ PodDown
            \/ (\E k \in Kinds : UserDeleteChild(k) \/ Collect(k))
            \/ (\E v \in Volumes : Provision(v))
  <2>1. UNCHANGED <<cr, mem, memFresh, cachedFresh, pc>> /\ (queued => queued')
    <3>1. \A o : Deliver(o) => UNCHANGED <<cr, cachedFresh, pass>> /\ (queued => queued')
      BY DEF Deliver
    <3>2. Resync => UNCHANGED <<cr, cachedFresh, pass>> /\ queued'
      BY DEF Resync, informers
    <3>3. (\E k \in Kinds : UserDeleteChild(k) \/ Collect(k)) \/ PodUp \/ PodDown
          \/ (\E v \in Volumes : Provision(v)) \/ UNCHANGED vars
          => UNCHANGED <<cr, cachedFresh, pass, queued>>
      BY DEF UserDeleteChild, Collect, PodUp, PodDown, Provision, vars, informers
    <3> QED
      BY <1>16, <3>1, <3>2, <3>3 DEF pass
  <2>2. Same
    BY <2>1 DEF Same
  <2> QED
    BY <1>3, <2>2
<1>17. CASE UserCreate \/ UserDelete \/ UserEdit \/ FinishForeground
  <2>1. ~cachedFresh' /\ ~memFresh'
    BY <1>17 DEF UserCreate, UserDelete, UserEdit, FinishForeground, Write
  <2>2. Followed' /\ Known'
    BY <2>1 DEF Followed, Known
  <2> QED
    BY <1>1, <2>2
<1>18. CASE Pass
  <2>1. ReconcileService \/ ReconcileServiceRead \/ ReconcileCmap \/ ReconcileSecret
        \/ ReconcileProxyService \/ ReconcileProxyStatefulset
        \/ ReconcileInitCmap \/ ReconcileProxyCmap => CopyTrue'
    BY <1>11 DEF ReconcileService, ReconcileServiceRead, ReconcileCmap,
       ReconcileSecret, ReconcileProxyService, ReconcileProxyStatefulset,
       ReconcileInitCmap, ReconcileProxyCmap
  <2> QED
    BY <1>5, <1>6, <1>8, <1>9, <1>10, <1>12, <1>13, <1>14, <1>18, <2>1 DEF Pass
<1> QED
  BY <1>13, <1>15, <1>16, <1>17, <1>18 DEF Next, Cluster

-----------------------------------------------------------------------------
(***************************************************************************)
(* What is not in order.                                                   *)
(***************************************************************************)

\* A name about to be queued has everything in hand.
LEMMA AwakeInHand == Awake => InHand
BY DEF InHand, FinPending, NamePending, ReadyPending, ChildPending

LEMMA AwakeNext == Awake' => InHand'
BY DEF InHand, FinPending, NamePending, ReadyPending, ChildPending, Awake, Ahead, Waiting

\* Delivery, and claims, neither of which puts anything out of order.
LEMMA InHandCalm ==
  ASSUME InHand, UNCHANGED <<cr, api, avail, pc, obj>>, Awake => Awake'
  PROVE  InHand'
BY DEF InHand, FinPending, NamePending, ReadyPending, ChildPending, Ahead, Waiting

\* A child made, or found to exist by a pass that did not expect it, wakes the name.
LEMMA CreateWakes ==
  ASSUME NEW k \in Kinds, Create(k)
  PROVE  Awake'
BY DEF Create, Retry, Awake

LEMMA RetryWakes == Retry => Awake'
BY DEF Retry, Awake

\* Going on to the next child leaves behind a child that is there, or one that the
\* Secret still ahead will bring back.
LEMMA InHandAdvance ==
  ASSUME InHand, NEW k \in Kinds, pc = "ensure", obj = k, Advance(k),
         UNCHANGED <<cr, children, informers>>,
         api[k] # 0 \/ Awake \/ (k \in {"init", "pcmap"} /\ api["sec"] = 0),
         k = "mysql" => ~avail \/ Awake
  PROVE  InHand'
<1>1. Awake' <=> Awake
  BY DEF Advance, Awake, children, informers
<1>2. CASE Awake
  BY <1>1, <1>2, AwakeNext
<1>3. CASE ~Awake
  <2> USE KindsDomain, OrderOfKinds
  <2>1. pc' = "ensure" /\ obj' = After(EnsureOrder, k) /\ UNCHANGED <<cr, api, avail>>
    BY DEF Advance, Goto, children
  <2>2. ASSUME NEW j \in Kinds, j # k, Ahead(j) PROVE Ahead(j)'
    <3>1. EnsureOrder[k] < EnsureOrder[j]
      BY <2>2 DEF Ahead
    <3> QED
      BY <2>1, <3>1, AfterAhead DEF Ahead
  <2>3. ASSUME NEW j \in Kinds, api[j] = 0 PROVE Ahead(j)' \/ Waiting(j)'
    <3>1. Ahead(j) \/ Waiting(j)
      BY <1>3, <2>3 DEF InHand, ChildPending
    <3>2. CASE k = "sec"
      <4>1. api["sec"] # 0
        BY <1>3, <3>2
      <4> QED
        BY <2>2, <2>3, <3>1, <3>2, <4>1 DEF Waiting
    <3>3. CASE k # "sec" /\ j # k
      BY <2>1, <2>2, <3>1, <3>3 DEF Waiting
    <3>4. CASE k # "sec" /\ j = k
      <4>1. k \in {"init", "pcmap"} /\ api["sec"] = 0
        BY <1>3, <2>3, <3>4
      <4>2. Ahead("sec")
        BY <1>3, <4>1 DEF InHand, ChildPending, Waiting
      <4>3. Ahead("sec")'
        BY <2>2, <3>4, <4>2
      <4> QED
        BY <2>1, <3>4, <4>1, <4>3 DEF Waiting
    <3> QED
      BY <3>2, <3>3, <3>4
  <2>4. ReadyPending'
    <3>1. ASSUME avail, cr.progress # "Ready" PROVE Ahead("mysql")'
      <4>1. Ahead("mysql")
        BY <1>3, <3>1 DEF InHand, ReadyPending
      <4> QED
        BY <1>3, <2>2, <3>1, <4>1
    <3> QED
      BY <2>1, <3>1 DEF ReadyPending
  <2>5. FinPending' /\ NamePending'
    BY <1>3, <2>1 DEF FinPending, NamePending, InHand
  <2>6. \A j \in Kinds : ChildPending(j)'
    BY <2>1, <2>3 DEF ChildPending
  <2> QED
    BY <2>4, <2>5, <2>6 DEF InHand
<1> QED
  BY <1>2, <1>3

\* Each action, from a state where all is in hand, for a DbPod that is there and not
\* being deleted after it.
LEMMA InHandStart ==
  ASSUME TypeOK, Guarded, StartPass, Alive'
  PROVE  InHand'
<1>1. CASE ~cachedFresh
  <2>1. Awake'
    BY <1>1 DEF StartPass, Awake, informers
  <2> QED
    BY <2>1, AwakeNext
<1>2. CASE cachedFresh
  <2>1. cached = cr /\ Alive
    BY <1>2 DEF Guarded, Fresh, StartPass, Alive
  <2>2. Branch(cached) \in {"finalizer", "name"}
    BY <2>1 DEF Branch, Alive, TypeOK, DbPods
  <2>3. pc' \in {"finalizer", "name"}
    BY <2>2 DEF StartPass, Goto
  <2> QED
    BY <2>3, KindsDomain DEF InHand, FinPending, NamePending, ReadyPending, ChildPending, Ahead
<1> QED
  BY <1>1, <1>2 DEF TypeOK

LEMMA InHandName ==
  ASSUME TypeOK, CopyTrue, InHand, Attended, ~Spend("swallow"), NameStatus
  PROVE  InHand'
<1>1. pc' = "initiate"
  BY DEF NameStatus, Goto
<1>2. FinPending' /\ ReadyPending' /\ \A k \in Kinds : ChildPending(k)'
  BY <1>1 DEF FinPending, ReadyPending, ChildPending, Ahead
<1>3. ASSUME ~memFresh, UNCHANGED cachedFresh PROVE Awake'
  BY <1>3 DEF CopyTrue, Awake, NameStatus, children
<1>4. CASE mem.named
  <2>1. UNCHANGED <<cr, cachedFresh>>
    BY <1>4 DEF NameStatus
  <2>2. memFresh => cr.named
    BY <1>4 DEF CopyTrue
  <2>3. NamePending'
    BY <1>3, <2>1, <2>2 DEF NamePending
  <2> QED
    BY <1>2, <2>3 DEF InHand
<1>5. CASE ~mem.named
  <2> DEFINE m == [mem EXCEPT !.named = TRUE]
  <2>1. m \in DbPods /\ m.named
    BY DEF TypeOK, DbPods
  <2>2. StatusUpdate(m)
    BY <1>5 DEF NameStatus
  <2> HIDE DEF m
  <2>3. cr'.named \/ (~memFresh /\ UNCHANGED cachedFresh)
    BY <2>1, <2>2, StatusOutcome
  <2>4. NamePending'
    BY <1>3, <2>3 DEF NamePending
  <2> QED
    BY <1>2, <2>4 DEF InHand
<1> QED
  BY <1>4, <1>5

LEMMA InHandInitiate ==
  ASSUME TypeOK, CopyTrue, InHand, Attended, ~Spend("swallow"), InitiateStatus
  PROVE  InHand'
<1>1. pc' = "ensure" /\ obj' = First(EnsureOrder) /\ pc = "initiate"
  BY DEF InitiateStatus, Goto
<1>2. \A k \in Kinds : Ahead(k)'
  BY <1>1, FirstAhead DEF Ahead
<1>3. FinPending' /\ ReadyPending' /\ \A k \in Kinds : ChildPending(k)'
  BY <1>1, <1>2, KindsDomain DEF FinPending, ReadyPending, ChildPending
<1>4. ASSUME ~memFresh, UNCHANGED cachedFresh PROVE Awake'
  BY <1>4 DEF CopyTrue, Awake, InitiateStatus, children
<1>5. ~cr.named => Awake
  BY <1>1 DEF InHand, NamePending
<1>6. UNCHANGED <<queued, news>>
  BY DEF InitiateStatus, children
<1>7. CASE UNCHANGED <<cr, cachedFresh>>
  BY <1>3, <1>5, <1>6, <1>7 DEF InHand, NamePending, Awake
<1>8. CASE StatusUpdate([mem EXCEPT !.progress = "Initiating"])
  <2> DEFINE m == [mem EXCEPT !.progress = "Initiating"]
  <2>1. m \in DbPods /\ m.named = mem.named
    BY DEF TypeOK, DbPods, Progress
  <2> HIDE DEF m
  <2>2. \/ memFresh /\ cr'.named = mem.named /\ (cachedFresh' => cachedFresh)
        \/ ~memFresh /\ UNCHANGED cachedFresh
    BY <1>8, <2>1, StatusOutcome DEF m
  <2>3. memFresh => mem.named = cr.named
    BY DEF CopyTrue
  <2>4. NamePending'
    BY <1>4, <1>5, <1>6, <2>2, <2>3 DEF NamePending, Awake
  <2> QED
    BY <1>3, <2>4 DEF InHand
<1> QED
  BY <1>7, <1>8 DEF InitiateStatus

LEMMA InHandReady ==
  ASSUME TypeOK, CopyTrue, InHand, Attended, ~Spend("swallow"), ReadyStatus
  PROVE  InHand'
<1> USE KindsDomain, OrderOfKinds
<1>1. pc' = "ensure" /\ obj' = After(EnsureOrder, "mysql") /\ pc = "ready"
      /\ UNCHANGED <<queued, news, api, avail>>
  BY DEF ReadyStatus, Goto, children
<1> DEFINE m == [mem EXCEPT !.progress = "Ready"]
<1>2. m \in DbPods /\ m.named = mem.named /\ m.progress = "Ready"
  BY DEF TypeOK, DbPods, Progress
<1>3. StatusUpdate(m)
  BY DEF ReadyStatus
<1> HIDE DEF m
<1>4. \/ /\ memFresh /\ cr'.named = mem.named /\ cr'.progress = "Ready"
         /\ cachedFresh' => cachedFresh
      \/ ~memFresh /\ UNCHANGED cachedFresh
  BY <1>2, <1>3, StatusOutcome
<1>5. ~memFresh /\ UNCHANGED cachedFresh => Awake'
  BY <1>1 DEF CopyTrue, Awake
<1>6. Awake /\ (cachedFresh' => cachedFresh) => Awake'
  BY <1>1 DEF Awake
<1>7. CASE memFresh /\ (cachedFresh' => cachedFresh) /\ cr'.named = mem.named
           /\ cr'.progress = "Ready"
  <2>1. mem.named = cr.named
    BY <1>7 DEF CopyTrue
  <2>2. NamePending' /\ ReadyPending' /\ FinPending'
    BY <1>1, <1>6, <1>7, <2>1 DEF InHand, NamePending, ReadyPending, FinPending
  <2>3. \A k \in Kinds : Ahead(k) => Ahead(k)'
    BY <1>1, AfterAhead DEF Ahead
  <2>4. \A k : ~Waiting(k)
    BY <1>1 DEF Waiting, Ahead
  <2>5. \A k \in Kinds : ChildPending(k)'
    BY <1>1, <1>6, <1>7, <2>3, <2>4 DEF InHand, ChildPending
  <2> QED
    BY <2>2, <2>5 DEF InHand
<1> QED
  BY <1>4, <1>5, <1>7, AwakeNext

\* What the cache says of a child is so, or there is something left to deliver.
LEMMA CacheKnows ==
  ASSUME CacheTrue, ~Awake
  PROVE  /\ \A k \in Kinds : k \in cache <=> api[k] # 0
         /\ cachedAvail = avail
BY KindsDomain DEF CacheTrue, Awake

LEMMA InHandEnsure ==
  ASSUME TypeOK, CacheTrue, InHand, NEW k \in AllKinds \ {"mysql"}, Ensure(k)
  PROVE  InHand'
<1>1. k \in Kinds
  BY ObjInKinds DEF Ensure
<1>2. CASE Create(k)
  BY <1>1, <1>2, CreateWakes, AwakeNext
<1>3. CASE k \in cache /\ Advance(k) /\ UNCHANGED children
  <2>1. api[k] # 0 \/ Awake
    BY <1>1, <1>3, CacheKnows
  <2> QED
    BY <1>1, <1>3, <2>1, InHandAdvance DEF Ensure
<1> QED
  BY <1>2, <1>3 DEF Ensure

LEMMA InHandFetch ==
  ASSUME TypeOK, CacheTrue, InHand, ~Spend("swallow"),
         NEW k \in {"init", "pcmap"}, FetchSecret(k)
  PROVE  InHand'
<1>1. k \in Kinds /\ k # "mysql"
  BY ObjInKinds DEF FetchSecret, AllKinds
<1>2. pc = "ensure" /\ obj = k /\ UNCHANGED <<cr, children, informers>>
  BY DEF FetchSecret
<1>3. CASE k \in cache /\ Advance(k)
  <2>1. api[k] # 0 \/ Awake
    BY <1>1, <1>3, CacheKnows
  <2> QED
    BY <1>1, <1>2, <1>3, <2>1, InHandAdvance
<1>4. CASE Goto("create", k) /\ UNCHANGED queued
  <2>1. \A j : Ahead(j)' <=> Ahead(j)
    BY <1>2, <1>4 DEF Ahead, Goto
  <2>2. UNCHANGED <<cr, api, avail>> /\ (Awake' <=> Awake) /\ pc' = "create"
    BY <1>2, <1>4 DEF Awake, Goto, children, informers
  <2>3. (\A j : Waiting(j)' <=> Waiting(j))
    BY <2>1, <2>2 DEF Waiting
  <2>4. FinPending' /\ NamePending' /\ ReadyPending'
    BY <1>2, <2>1, <2>2 DEF InHand, FinPending, NamePending, ReadyPending
  <2>5. \A j \in Kinds : ChildPending(j)'
    BY <2>1, <2>2, <2>3 DEF InHand, ChildPending
  <2> QED
    BY <2>4, <2>5 DEF InHand
<1>5. CASE api["sec"] = 0 /\ Advance(k)
  BY <1>1, <1>2, <1>5, InHandAdvance
<1> QED
  BY <1>3, <1>4, <1>5 DEF FetchSecret

LEMMA InHandDepl ==
  ASSUME TypeOK, CacheTrue, InHand, ReconcileDBDepl
  PROVE  InHand'
<1> USE KindsDomain, OrderOfKinds
<1>1. pc = "ensure" /\ obj = "mysql"
  BY DEF ReconcileDBDepl
<1>2. CASE Create("mysql")
  BY <1>2, CreateWakes, AwakeNext
<1>3. CASE "mysql" \in cache /\ ~cachedAvail /\ Advance("mysql") /\ UNCHANGED children
  <2>1. (api["mysql"] # 0 /\ ~avail) \/ Awake
    BY <1>3, CacheKnows
  <2>2. UNCHANGED <<cr, children, informers>>
    BY <1>3 DEF ReconcileDBDepl
  <2> QED
    BY <1>1, <1>3, <2>1, <2>2, InHandAdvance
<1>4. CASE /\ "mysql" \in cache /\ Goto("ready", "mysql")
           /\ UNCHANGED <<mem, memFresh, fetched, queued, children, left>>
  <2>1. UNCHANGED <<cr, api, avail>> /\ (Awake' <=> Awake) /\ pc' = "ready"
    BY <1>4 DEF ReconcileDBDepl, Awake, Goto, children, informers
  <2>2. CASE Awake
    BY <2>1, <2>2, AwakeNext
  <2>3. CASE ~Awake
    <3>1. api["mysql"] # 0
      BY <1>4, <2>3, CacheKnows
    <3>2. ASSUME NEW k \in Kinds, api[k] = 0 PROVE Ahead(k)'
      <4>1. ~Waiting(k)
        BY <1>1 DEF Waiting, Ahead
      <4>2. Ahead(k)
        BY <2>3, <3>2, <4>1 DEF InHand, ChildPending
      <4>3. EnsureOrder["mysql"] < EnsureOrder[k]
        BY <1>1, <3>1, <3>2, <4>2 DEF Ahead
      <4> QED
        BY <2>1, <4>3 DEF Ahead
    <3>3. \A k \in Kinds : ChildPending(k)'
      BY <2>1, <3>2 DEF ChildPending
    <3>4. FinPending' /\ NamePending' /\ ReadyPending'
      BY <1>1, <2>1, <2>3 DEF InHand, FinPending, NamePending, ReadyPending
    <3> QED
      BY <3>3, <3>4 DEF InHand
  <2> QED
    BY <2>2, <2>3
<1> QED
  BY <1>2, <1>3, <1>4 DEF ReconcileDBDepl

LEMMA InHandReturn ==
  ASSUME TypeOK, Guarded, InHand, Return
  PROVE  InHand'
<1>1. pc = "ensure" /\ obj = "none" /\ UNCHANGED <<cr, children, informers, queued>>
  BY DEF Return
<1>2. cr.fin
  BY <1>1 DEF Guarded, PassSafe
<1>3. (\A k : ~Ahead(k)) /\ (\A k : ~Waiting(k))
  BY <1>1, KindsDomain DEF Ahead, Waiting
<1>4. UNCHANGED <<cr, api, avail>> /\ (Awake' <=> Awake)
  BY <1>1 DEF Awake, children, informers
<1>5. NamePending' /\ FinPending' /\ ReadyPending'
  BY <1>1, <1>2, <1>3, <1>4 DEF InHand, NamePending, FinPending, ReadyPending
<1>6. \A k \in Kinds : ChildPending(k)'
  BY <1>3, <1>4 DEF InHand, ChildPending
<1> QED
  BY <1>5, <1>6 DEF InHand

\* A pass in the deletion branch of a DbPod that is not being deleted has an old copy.
LEMMA InHandDelete ==
  ASSUME TypeOK, Guarded, CopyTrue, InHand, Alive', DeleteExternalResources \/ Release
  PROVE  InHand'
<1>1. pc \in {"delete", "release"}
  BY DEF DeleteExternalResources, Release
<1>2. memFresh => cr.del
  BY <1>1 DEF Guarded, PassSafe, Fresh
<1>3. CASE Retry
  BY <1>3, RetryWakes, AwakeNext
<1>4. CASE DeleteExternalResources /\ ~Retry
  <2>1. UNCHANGED <<cr, children, informers, queued>>
    BY <1>4 DEF DeleteExternalResources
  <2>2. ~memFresh
    BY <1>2, <2>1 DEF Alive
  <2>3. Awake'
    BY <1>1, <2>1, <2>2 DEF CopyTrue, Awake, informers
  <2> QED
    BY <2>3, AwakeNext
<1>5. CASE Release /\ memFresh
  <2>1. cr' = Settle([cr EXCEPT !.fin = FALSE])
    BY <1>5 DEF Release
  <2>2. [cr EXCEPT !.fin = FALSE].del
    BY <1>2, <1>5 DEF TypeOK, DbPods
  <2>3. cr'.del \/ cr'.uid = 0
    BY <2>1, <2>2, NoCrFields DEF Settle
  <2> QED
    BY <2>3 DEF Alive
<1> QED
  BY <1>3, <1>4, <1>5 DEF Release

LEMMA PendingStep == IWake /\ [Next]_vars => Pending'
<1> SUFFICES ASSUME TypeOK, Guarded, LeftBound, CacheTrue, CopyTrue, Pending, [Next]_vars,
                    Alive', Attended'
             PROVE  InHand'
  BY DEF IWake, Wakeful, Pending
<1> USE AwakeNext
<1>1. Attended /\ ~Spend("swallow")
  BY StillAttended
<1>2. CASE Awake'
  BY <1>2
<1>3. CASE UserCreate \/ UserDelete \/ UserEdit \/ FinishForeground
  <2>1. Awake'
    BY <1>3 DEF UserCreate, UserDelete, UserEdit, FinishForeground, Write, Awake
  <2> QED
    BY <2>1
<1>4. ASSUME NEW k \in Kinds, UserDeleteChild(k) \/ Collect(k) PROVE InHand'
  <2>1. Awake'
    BY <1>4 DEF UserDeleteChild, Collect, RemoveChild, Awake
  <2> QED
    BY <2>1
<1>5. CASE PodUp \/ PodDown
  <2>1. Awake'
    BY <1>5, KindsDomain DEF PodUp, PodDown, Awake
  <2> QED
    BY <2>1
<1>6. CASE DeliverDbPod \/ Resync \/ Restart \/ ApiError
  <2>1. Restart => queued'
    BY DEF Restart, Alive
  <2>2. Awake'
    BY <1>6, <2>1, RetryWakes DEF DeliverDbPod, Resync, ApiError, Awake
  <2> QED
    BY <2>2
<1>7. CASE AddFinalizer
  <2>1. Awake'
    BY <1>7, RetryWakes DEF AddFinalizer, Awake
  <2> QED
    BY <2>1
<1>8. ASSUME NEW o \in Kinds, Deliver(o) PROVE InHand'
  <2>1. Awake'
    BY <1>8, KindsDomain DEF Deliver, Awake
  <2> QED
    BY <2>1
<1>9. CASE StartPass
  BY <1>9, InHandStart
<1>10. CASE DeleteExternalResources \/ Release
  <2>1. DeleteExternalResources => Alive
    BY DEF DeleteExternalResources, Alive
  <2>2. CASE Alive
    BY <1>1, <1>10, <2>2, InHandDelete DEF Pending
  <2>3. CASE Release /\ ~Alive
    <3>1. CASE Retry
      BY <3>1, RetryWakes
    <3>2. CASE cr' = Settle([cr EXCEPT !.fin = FALSE])
      <4>1. [cr EXCEPT !.fin = FALSE].del = cr.del /\ [cr EXCEPT !.fin = FALSE].uid = cr.uid
        BY DEF TypeOK, DbPods
      <4> QED
        BY <2>3, <3>2, <4>1, NoCrFields DEF Alive, Settle
    <3> QED
      BY <2>3, <3>1, <3>2 DEF Release
  <2> QED
    BY <1>10, <2>1, <2>2, <2>3
<1>11. CASE UNCHANGED <<cr.uid, cr.del>>
  <2>1. InHand
    BY <1>1, <1>11 DEF Pending, Alive
  <2>2. ASSUME UNCHANGED <<cr, api, avail, pc, obj, cachedFresh, queued>>,
               Kinds \cap news \subseteq news'
        PROVE  InHand'
    <3>1. Awake => Awake'
      BY <2>2 DEF Awake
    <3> QED
      BY <2>1, <2>2, <3>1, InHandCalm
  <2>3. ASSUME NEW k, CreateFetched(k), k \in {"init", "pcmap"} PROVE InHand'
    <3>1. k \in Kinds
      BY <2>3, ObjInKinds DEF CreateFetched, AllKinds
    <3>2. Create(k)
      BY <2>3 DEF CreateFetched
    <3> QED
      BY <3>1, <3>2, CreateWakes
  <2>4. CASE NameStatus \/ InitiateStatus \/ ReadyStatus
    BY <1>1, <2>1, <2>4, InHandName, InHandInitiate, InHandReady
  <2>5. CASE ReconcileDBDepl \/ Return
    BY <2>1, <2>5, InHandDepl, InHandReturn
  <2>6. CASE ReconcileInitCmap \/ ReconcileProxyCmap
    BY <1>1, <2>1, <2>3, <2>6, InHandFetch DEF ReconcileInitCmap, ReconcileProxyCmap
  <2>7. CASE ReconcileService \/ ReconcileServiceRead \/ ReconcileCmap \/ ReconcileSecret
             \/ ReconcileProxyService \/ ReconcileProxyStatefulset
    <3>1. {"svc", "readsvc", "cmap", "sec", "psvc", "psts"} \subseteq AllKinds \ {"mysql"}
      BY DEF AllKinds
    <3> QED
      BY <2>1, <2>7, <3>1, InHandEnsure DEF ReconcileService, ReconcileServiceRead, ReconcileCmap,
         ReconcileSecret, ReconcileProxyService, ReconcileProxyStatefulset
  <2>8. ASSUME NEW v \in Volumes, Deliver(v) PROVE InHand'
    <3>1. CASE v \in Watched
      BY <3>1, <2>8 DEF Deliver, Awake
    <3>2. CASE v \notin Watched
      <4>1. v \notin Kinds
        BY KindsDomain
      <4>2. queued \in BOOLEAN
        BY DEF TypeOK
      <4> QED
        BY <2>2, <2>8, <3>2, <4>1, <4>2 DEF Deliver, pass
    <3> QED
      BY <3>1, <3>2
  <2>9. ASSUME NEW v \in Volumes, Provision(v) PROVE InHand'
    BY <2>2, <2>9 DEF Provision, informers, pass
  <2>10. CASE UNCHANGED vars
    BY <2>2, <2>10 DEF vars, children, informers, pass
  <2>11. Tracked = Kinds \cup Volumes
    BY DEF Tracked
  <2>12. CASE Pass
    BY <1>7, <1>9, <1>10, <2>4, <2>5, <2>6, <2>7, <2>12 DEF Pass
  <2> QED
    BY <1>3, <1>4, <1>5, <1>6, <1>8, <2>8, <2>9, <2>10, <2>11, <2>12 DEF Next, Cluster
<1>12. CASE Pass /\ ~UNCHANGED <<cr.uid, cr.del>>
  <2>1. ASSUME NEW m \in DbPods, StatusUpdate(m) PROVE UNCHANGED <<cr.uid, cr.del>>
    BY <1>1, <2>1, StatusOutcome
  <2>2. CASE NameStatus
    <3>1. [mem EXCEPT !.named = TRUE] \in DbPods
      BY DEF TypeOK, DbPods
    <3> QED
      BY <1>12, <2>1, <2>2, <3>1 DEF NameStatus
  <2>3. CASE InitiateStatus \/ ReadyStatus
    <3>1. [mem EXCEPT !.progress = "Initiating"] \in DbPods
          /\ [mem EXCEPT !.progress = "Ready"] \in DbPods
      BY DEF TypeOK, DbPods, Progress
    <3> QED
      BY <1>12, <2>1, <2>3, <3>1 DEF InitiateStatus, ReadyStatus
  <2>4. \A k : Ensure(k) \/ FetchSecret(k) \/ CreateFetched(k) => UNCHANGED cr
    BY DEF Ensure, FetchSecret, CreateFetched
  <2>5. StartPass \/ ReconcileDBDepl \/ Return \/ DeleteExternalResources => UNCHANGED cr
    BY DEF StartPass, ReconcileDBDepl, Return, DeleteExternalResources
  <2>6. ReconcileService \/ ReconcileServiceRead \/ ReconcileCmap \/ ReconcileSecret
        \/ ReconcileProxyService \/ ReconcileProxyStatefulset
        \/ ReconcileInitCmap \/ ReconcileProxyCmap => UNCHANGED cr
    BY <2>4 DEF ReconcileService, ReconcileServiceRead, ReconcileCmap,
       ReconcileSecret, ReconcileProxyService, ReconcileProxyStatefulset,
       ReconcileInitCmap, ReconcileProxyCmap
  <2> QED
    BY <1>7, <1>10, <1>12, <2>2, <2>3, <2>5, <2>6 DEF Pass
<1>13. CASE ~Pass
  <2>1. (\E o \in Tracked : Deliver(o)) \/ (\E v \in Volumes : Provision(v)) \/ UNCHANGED vars
        => UNCHANGED cr
    BY DEF Deliver, Provision, vars
  <2> QED
    BY <1>3, <1>4, <1>5, <1>6, <1>11, <1>13, <2>1 DEF Next, Cluster
<1> QED
  BY <1>11, <1>12, <1>13

-----------------------------------------------------------------------------
LEMMA WakeInit == Init => LeftBound /\ Wakeful
<1> SUFFICES ASSUME Init PROVE LeftBound /\ Wakeful
  OBVIOUS
<1>1. LeftBound
  BY BoundsAssumption, EventNames DEF Init, LeftBound
<1>2. CacheTrue /\ CopyTrue
  BY KindsDomain DEF Init, CacheTrue, CopyTrue
<1>3. ~Alive
  BY NoCrFields DEF Init, Alive
<1> QED
  BY <1>1, <1>2, <1>3 DEF Wakeful, Pending

LEMMA WakeStep == IWake /\ [Next]_vars => (LeftBound /\ Wakeful)'
BY LeftBoundStep, CacheTrueStep, CopyTrueStep, PendingStep DEF IWake, Wakeful

\* Whatever the stored DbPod and its children lack, a pass that will see to it is
\* running, is queued, or is about to be queued by a notification.
THEOREM AlwaysWakeful == Spec => []Wakeful
<1>1. Init => LeftBound /\ Wakeful
  BY WakeInit
<1>2. TypeOK /\ Guarded /\ (LeftBound /\ Wakeful) /\ [Next]_vars => (LeftBound /\ Wakeful)'
  BY WakeStep DEF IWake
<1> QED
  BY <1>1, <1>2, TypeCorrect, GuardedAlways, PTL DEF Spec

\* No wake-up is missing: when all is quiet, a DbPod that is not being deleted has its
\* finalizer, its name, all its children, and Ready if MySQL is available.
THEOREM QuietIsConverged == Spec => []QuietConverged
<1>1. Wakeful => QuietConverged
  <2> SUFFICES ASSUME Wakeful, Quiet, Attended, Alive
               PROVE  /\ cr.fin /\ cr.named
                      /\ \A k \in Kinds : api[k] # 0
                      /\ avail => cr.progress = "Ready"
    BY DEF QuietConverged, Attended, Alive
  <2>1. ~Awake /\ pc = "idle"
    BY DEF Quiet, Awake
  <2>2. \A k : ~Ahead(k) /\ ~Waiting(k)
    BY <2>1 DEF Ahead, Waiting
  <2> QED
    BY <2>1, <2>2 DEF Wakeful, Pending, InHand, FinPending, NamePending, ReadyPending, ChildPending
<1> QED
  BY <1>1, AlwaysWakeful, PTL
=============================================================================
