---------------------------- MODULE DbPodProofs ----------------------------
(***************************************************************************)
(* Proofs about DbPod, for any number of DbPods of the name, any choice of *)
(* Kinds that satisfies KindsAssumption, and any number of disturbances.   *)
(***************************************************************************)
EXTENDS DbPod, TLAPS

\* An absent DbPod is NoCr.
Absent == cr.uid = 0 => cr = NoCr

\* What "latest version" says of the two copies.  The copy of a pass may hold a
\* status whose write was lost, but it never lacks a Ready that is stored.
Fresh ==
  /\ cachedFresh => cached = cr
  /\ memFresh => /\ mem.uid = cr.uid /\ mem.fin = cr.fin /\ mem.del = cr.del
                 /\ cr.progress = "Ready" => mem.progress = "Ready"

\* A cached copy may be old, but a finalizer it shows on a DbPod not yet deleted is
\* still there, since only a pass that sees the deletion removes it; and a DbPod
\* that follows a deleted one has no finalizer before the cache knows of it.
CacheSafe ==
  /\ cached.uid # 0 /\ cached.fin /\ ~cached.del => cr.uid = cached.uid /\ cr.fin
  /\ cached.del /\ cr.fin => cr.del

\* What a pass may rely on at each of its steps.
PassSafe ==
  /\ pc # "idle" => mem.uid # 0
  /\ pc = "finalizer" => ~mem.del /\ (memFresh => ~cached.del)
  /\ pc \in {"name", "initiate", "ensure", "create", "ready"} => cr.uid = mem.uid /\ cr.fin
  /\ pc \in {"delete", "release"} => /\ mem.del
                                     /\ cr.fin => cr.del
                                     /\ cached.fin => cached.del

\* What keeps old copies from doing harm: the parts above together.
Guarded == Absent /\ Fresh /\ CacheSafe /\ PassSafe

\* Where copies of the password come from.
CopySafe ==
  /\ fetched # "old"
  /\ pc = "create" <=> fetched # "none"
  /\ api["init"] # 0 => copies["init"] # "none"
  /\ ~rotated => \A h \in Holders : copies[h] # "old"
  /\ ~rotated /\ api["sec"] = 0 => fetched = "none" /\ \A h \in Holders : copies[h] = "none"

\* The data volume has the Secret's password, or had one before a rotation.
Served == rotated \/ copies["data"] = "current"

\* Somebody believes, or may come to believe, that MySQL is available.
Believed ==
  avail \/ cachedAvail \/ pc = "ready" \/ "Ready" \in {cr.progress, mem.progress, cached.progress}

ServedSafe == Believed => Served

IInv == TypeOK /\ Guarded /\ CopySafe /\ ServedSafe
-----------------------------------------------------------------------------
(***************************************************************************)
(* The order of the steps.                                                 *)
(***************************************************************************)

\* The first of a non-empty set of steps is one of them, and before all others.
LEMMA EarliestLeast ==
  ASSUME NEW order, NEW S, \A o \in S : order[o] \in 1..11, S # {}
  PROVE  /\ Earliest(order, S) \in S
         /\ \A p \in S : order[Earliest(order, S)] <= order[p]
<1> DEFINE From(i) == \A o \in S : order[o] >= i
<1>1. SUFFICES ASSUME \A o \in S : ~ \A p \in S : order[o] <= order[p]
               PROVE  FALSE
  BY DEF Earliest
<1>2. ASSUME NEW i \in 1..11, From(i) PROVE From(i + 1)
  BY <1>1, <1>2
<1>3. From(1)
  OBVIOUS
<1> HIDE DEF From
<1>4. From(12)
  <2>1. From(2) /\ From(3) /\ From(4)
    <3>1. From(1 + 1) BY <1>2, <1>3
    <3>2. From(2 + 1) BY <1>2, <3>1
    <3>3. From(3 + 1) BY <1>2, <3>2
    <3> QED BY <3>1, <3>2, <3>3
  <2>2. From(5) /\ From(6) /\ From(7)
    <3>1. From(4 + 1) BY <1>2, <2>1
    <3>2. From(5 + 1) BY <1>2, <3>1
    <3>3. From(6 + 1) BY <1>2, <3>2
    <3> QED BY <3>1, <3>2, <3>3
  <2>3. From(8) /\ From(9) /\ From(10)
    <3>1. From(7 + 1) BY <1>2, <2>2
    <3>2. From(8 + 1) BY <1>2, <3>1
    <3>3. From(9 + 1) BY <1>2, <3>2
    <3> QED BY <3>1, <3>2, <3>3
  <2>4. From(11)
    <3>1. From(10 + 1) BY <1>2, <2>3
    <3> QED BY <3>1
  <2>5. From(11 + 1) BY <1>2, <2>4
  <2> QED BY <2>5
<1> QED
  BY <1>4 DEF From

LEMMA EarliestIn ==
  ASSUME NEW order, NEW S, \A o \in S : order[o] \in 1..11
  PROVE  Earliest(order, S) \in S \cup {"none"}
<1>1. CASE S = {}
  BY <1>1 DEF Earliest
<1> QED
  BY <1>1, EarliestLeast

LEMMA StepsInObjects ==
  /\ First(EnsureOrder) \in Objects /\ First(DeleteOrder) \in Objects
  /\ \A o : After(EnsureOrder, o) \in Objects /\ After(DeleteOrder, o) \in Objects
<1>1. \A o \in Visited(EnsureOrder) : o \in Objects /\ EnsureOrder[o] \in 1..11
  BY DEF Visited, EnsureOrder, Objects
<1>2. \A o \in Visited(DeleteOrder) : o \in Objects /\ DeleteOrder[o] \in 1..11
  BY DEF Visited, DeleteOrder, Objects
<1>3. "none" \in Objects
  BY DEF Objects
<1> QED
  BY <1>1, <1>2, <1>3, EarliestIn DEF First, After

-----------------------------------------------------------------------------
(***************************************************************************)
(* Types.                                                                  *)
(***************************************************************************)

LEMMA NoCrType == NoCr \in DbPods
BY BoundsAssumption DEF NoCr, DbPods, Progress

LEMMA NoCrFields ==
  NoCr.uid = 0 /\ NoCr.fin = FALSE /\ NoCr.fg = FALSE /\ NoCr.del = FALSE /\ NoCr.progress = ""
BY DEF NoCr

\* The type invariant holds at the start.
LEMMA TypeInit == Init => TypeOK
<1> SUFFICES ASSUME Init PROVE TypeOK
  OBVIOUS
<1>1. claims \in [Volumes -> Nat] /\ \A v \in Volumes : claims[v] <= Wanted(v)
  BY BoundsAssumption DEF Wanted, Init
<1>2. api \in [Kinds -> 0..MaxUid] /\ born \in 0..MaxUid /\ left \in [Events -> Nat]
  BY BoundsAssumption DEF Init
<1>3. cache \subseteq Tracked /\ news \subseteq Tracked
  BY DEF Init
<1> QED
  BY <1>1, <1>2, <1>3, NoCrType DEF Init, TypeOK, Password, Pcs, Objects

LEMMA SettleType == \A c \in DbPods : Settle(c) \in DbPods
BY NoCrType DEF Settle

LEMMA SpendType ==
  ASSUME TypeOK
  PROVE  \A e \in Events : Spend(e) => left' \in [Events -> Nat]
BY DEF TypeOK, Spend

LEMMA EventNames ==
  {"delete", "edit", "childDelete", "error", "swallow", "crash", "podDown"} \subseteq Events
BY DEF Events

\* The end of a pass, with or without an error.
LEMMA EndPassType ==
  ASSUME EndPass
  PROVE  /\ pc' \in Pcs /\ obj' \in Objects /\ mem' \in DbPods /\ memFresh' \in BOOLEAN
         /\ fetched' \in Password
BY NoCrType DEF EndPass, Pcs, Objects, Password

\* Every step keeps the types.
LEMMA TypeStep == TypeOK /\ [Next]_vars => TypeOK'
<1> SUFFICES ASSUME TypeOK, [Next]_vars PROVE TypeOK'
  OBVIOUS
<1> USE BoundsAssumption, StepsInObjects
<1>1. CASE StartPass
  BY <1>1, NoCrType DEF TypeOK, StartPass, Branch, EndPass, Goto, Pcs, Objects, Password, children, informers
<1> USE SpendType, EventNames, EndPassType DEF Goto, Retry, children
<1>2. CASE AddFinalizer
  <2>1. [cr EXCEPT !.fin = TRUE] \in DbPods /\ [mem EXCEPT !.fin = TRUE] \in DbPods
    BY DEF TypeOK, DbPods
  <2> QED
    BY <1>2, <2>1 DEF TypeOK, AddFinalizer, Pcs, Objects
<1>3. ASSUME NEW m \in DbPods, StatusUpdate(m) PROVE
        /\ cr' \in DbPods /\ cachedFresh' \in BOOLEAN /\ mem' \in DbPods
        /\ memFresh' \in BOOLEAN /\ left' \in [Events -> Nat]
  <2>1. [cr EXCEPT !.named = m.named, !.progress = m.progress] \in DbPods
    BY DEF TypeOK, DbPods
  <2> QED
    BY <1>3, <2>1 DEF TypeOK, StatusUpdate
<1>4. CASE NameStatus
  <2>1. [mem EXCEPT !.named = TRUE] \in DbPods
    BY DEF TypeOK, DbPods
  <2> QED
    BY <1>3, <1>4, <2>1 DEF TypeOK, NameStatus, Pcs, Objects
<1>5. CASE InitiateStatus
  <2>1. [mem EXCEPT !.progress = "Initiating"] \in DbPods
    BY DEF TypeOK, DbPods, Progress
  <2> QED
    BY <1>3, <1>5, <2>1 DEF TypeOK, InitiateStatus, Pcs, Objects
<1>6. CASE ReadyStatus
  <2>1. [mem EXCEPT !.progress = "Ready"] \in DbPods
    BY DEF TypeOK, DbPods, Progress
  <2> QED
    BY <1>3, <1>6, <2>1 DEF TypeOK, ReadyStatus, Pcs, Objects
<1>7. ASSUME NEW k \in Kinds, Create(k) PROVE
        /\ api' \in [Kinds -> 0..MaxUid] /\ news' \subseteq Tracked
        /\ avail' \in BOOLEAN /\ copies' \in [Holders -> Password]
        /\ rotated' \in BOOLEAN /\ queued' \in BOOLEAN /\ pc' \in Pcs
        /\ obj' \in Objects /\ mem' \in DbPods /\ memFresh' \in BOOLEAN
        /\ fetched' \in Password /\ left' \in [Events -> Nat]
  <2>1. CopiesWith(k) \in [Holders -> Password]
    BY DEF TypeOK, CopiesWith, Holders, Password
  <2>2. mem.uid \in 0..MaxUid
    BY DEF TypeOK, DbPods
  <2>3. pc' \in Pcs /\ obj' \in Objects /\ mem' \in DbPods /\ memFresh' \in BOOLEAN
        /\ fetched' \in Password /\ queued' \in BOOLEAN
    BY <1>7 DEF TypeOK, Create, Advance, Pcs, Objects, Password
  <2>4. api' \in [Kinds -> 0..MaxUid] /\ news' \subseteq Tracked
    BY <1>7, <2>2 DEF TypeOK, Create, Tracked
  <2> QED
    BY <1>7, <2>1, <2>3, <2>4 DEF TypeOK, Create
<1>8. ASSUME NEW k \in Kinds, Ensure(k) PROVE TypeOK'
  BY <1>7, <1>8 DEF TypeOK, Ensure, Advance, Pcs, Password, informers
<1>9. ASSUME NEW k \in Kinds, FetchSecret(k) PROVE TypeOK'
  BY <1>9 DEF TypeOK, FetchSecret, Advance, Pcs, Password, Objects, Tracked, informers
<1>10. ASSUME NEW k \in Kinds, CreateFetched(k) PROVE TypeOK'
  BY <1>7, <1>10 DEF TypeOK, CreateFetched, informers
<1>11. CASE ReconcileDBDepl
  BY <1>7, <1>11, KindsAssumption DEF TypeOK, ReconcileDBDepl, Advance, Pcs, Password, Objects,
     Tracked, informers
<1>12. CASE Return
  BY <1>12 DEF TypeOK, Return, Pcs, Password, Objects, informers
<1>13. CASE DeleteExternalResources
  BY <1>13 DEF TypeOK, DeleteExternalResources, Pcs, Password, Objects, informers
<1>14. CASE Release
  <2>1. [cr EXCEPT !.fin = FALSE] \in DbPods
    BY DEF TypeOK, DbPods
  <2>2. Settle([cr EXCEPT !.fin = FALSE]) \in DbPods
    BY <2>1, SettleType
  <2> QED
    BY <1>14, <2>2 DEF TypeOK, Release, Pcs, Password, Objects
<1>15. CASE ApiError
  BY <1>15 DEF TypeOK, ApiError, Pcs, Password, Objects, informers
<1>16. CASE DeliverDbPod
  BY <1>16 DEF TypeOK, DeliverDbPod, pass
<1>17. ASSUME NEW o \in Tracked, Deliver(o) PROVE TypeOK'
  BY <1>17 DEF TypeOK, Deliver, pass
<1>18. CASE Resync
  BY <1>18 DEF TypeOK, Resync, informers, pass
<1>19. CASE Restart
  BY <1>19 DEF TypeOK, Restart, Pcs, Password, Objects
<1>20. CASE UserCreate
  <2>1. \A u \in 0..MaxUid : [NoCr EXCEPT !.uid = u] \in DbPods
    BY NoCrType DEF DbPods
  <2>2. born + 1 \in 0..MaxUid
    BY <1>20 DEF UserCreate, TypeOK
  <2> QED
    BY <1>20, <2>1, <2>2 DEF TypeOK, UserCreate, Write
<1>21. CASE UserDelete
  <2>1. \A fg \in BOOLEAN : [cr EXCEPT !.del = TRUE, !.fg = fg] \in DbPods
    BY DEF TypeOK, DbPods
  <2>2. \A fg \in BOOLEAN : Settle([cr EXCEPT !.del = TRUE, !.fg = fg]) \in DbPods
    BY <2>1, SettleType
  <2> QED
    BY <1>21, <2>2 DEF TypeOK, UserDelete, Write
<1>22. CASE UserEdit
  BY <1>22 DEF TypeOK, UserEdit, Write
<1>23. CASE FinishForeground
  <2>1. [cr EXCEPT !.fg = FALSE] \in DbPods
    BY DEF TypeOK, DbPods
  <2>2. Settle([cr EXCEPT !.fg = FALSE]) \in DbPods
    BY <2>1, SettleType
  <2> QED
    BY <1>23, <2>2 DEF TypeOK, FinishForeground, Write
<1>24. ASSUME NEW k \in Kinds, RemoveChild(k) PROVE
         /\ api' \in [Kinds -> 0..MaxUid] /\ news' \subseteq Tracked
         /\ avail' \in BOOLEAN /\ copies' \in [Holders -> Password] /\ rotated' \in BOOLEAN
  <2>1. copies' \in [Holders -> Password]
    BY <1>24 DEF TypeOK, RemoveChild, Password
  <2> QED
    BY <1>24, <2>1 DEF TypeOK, RemoveChild, Tracked
<1>25. ASSUME NEW k \in Kinds, UserDeleteChild(k) PROVE TypeOK'
  BY <1>24, <1>25 DEF TypeOK, UserDeleteChild, informers, pass
<1>26. ASSUME NEW k \in Kinds, Collect(k) PROVE TypeOK'
  BY <1>24, <1>26 DEF TypeOK, Collect, informers, pass
<1>27. ASSUME NEW v \in Volumes, Provision(v) PROVE TypeOK'
  <2>1. claims' \in [Volumes -> Nat] /\ \A w \in Volumes : claims'[w] <= Wanted(w)
    BY <1>27 DEF TypeOK, Provision, Wanted
  <2> QED
    BY <1>27, <2>1 DEF TypeOK, Provision, Tracked, informers, pass
<1>28. CASE PodUp
  <2>1. copies' \in [Holders -> Password]
    BY <1>28 DEF TypeOK, PodUp, Holders
  <2> QED
    BY <1>28, <2>1, KindsAssumption DEF TypeOK, PodUp, Tracked, informers, pass
<1>29. CASE PodDown
  BY <1>29, KindsAssumption DEF TypeOK, PodDown, Tracked, informers, pass
<1>30. CASE UNCHANGED vars
  BY <1>30 DEF TypeOK, vars, informers, pass
<1>31. CASE Pass
  <2>1. ASSUME NEW k \in AllKinds, obj = k PROVE k \in Kinds
    BY <2>1 DEF TypeOK, Objects, Tracked, Volumes, AllKinds
  <2>2. ASSUME NEW k \in AllKinds, Ensure(k) \/ FetchSecret(k) \/ CreateFetched(k)
        PROVE  TypeOK'
    BY <1>8, <1>9, <1>10, <2>1, <2>2 DEF Ensure, FetchSecret, CreateFetched
  <2>3. {"svc", "readsvc", "init", "cmap", "sec", "pcmap", "psvc", "psts"} \subseteq AllKinds
    BY DEF AllKinds
  <2>4. ASSUME ReconcileService \/ ReconcileServiceRead \/ ReconcileCmap \/ ReconcileSecret
               \/ ReconcileProxyService \/ ReconcileProxyStatefulset
               \/ ReconcileInitCmap \/ ReconcileProxyCmap
        PROVE  TypeOK'
    BY <2>2, <2>3, <2>4 DEF ReconcileService, ReconcileServiceRead, ReconcileCmap,
       ReconcileSecret, ReconcileProxyService, ReconcileProxyStatefulset,
       ReconcileInitCmap, ReconcileProxyCmap
  <2> QED
    BY <1>1, <1>2, <1>4, <1>5, <1>6, <1>11, <1>12, <1>13, <1>14, <1>31, <2>4 DEF Pass
<1>32. CASE Cluster
  BY <1>20, <1>21, <1>22, <1>23, <1>25, <1>26, <1>27, <1>28, <1>29, <1>32 DEF Cluster
<1> QED
  BY <1>15, <1>16, <1>17, <1>18, <1>19, <1>30, <1>31, <1>32 DEF Next

\* The state of every run is of the declared types, whatever users and faults do.
THEOREM TypeCorrect == Spec => []TypeOK
BY TypeInit, TypeStep, PTL DEF Spec

-----------------------------------------------------------------------------
(***************************************************************************)
(* Old copies do no harm.                                                  *)
(***************************************************************************)

Creating == {"name", "initiate", "ensure", "create", "ready"}

\* Steps that leave the DbPod, its copies and the place in the pass alone.
LEMMA AsideStep ==
  ASSUME Guarded, UNCHANGED <<cr, cached, cachedFresh, mem, memFresh, pc>>
  PROVE  Guarded'
BY DEF Guarded, Absent, Fresh, CacheSafe, PassSafe

\* The end of a pass that has not written the DbPod.
LEMMA EndStep ==
  ASSUME Guarded, EndPass, UNCHANGED <<cr, cached, cachedFresh>>
  PROVE  Guarded'
BY DEF Guarded, Absent, Fresh, CacheSafe, PassSafe, EndPass

\* On from one child to the next.
LEMMA OnwardStep ==
  ASSUME Guarded, pc \in Creating, pc' \in Creating,
         UNCHANGED <<cr, cached, cachedFresh, mem, memFresh>>
  PROVE  Guarded'
BY DEF Guarded, Absent, Fresh, CacheSafe, PassSafe, Creating

\* A write of the status on the way, stored or not; it may add Ready, but never
\* takes it from the copy of the pass.
LEMMA StatusStep ==
  ASSUME TypeOK, Guarded, pc \in Creating, pc' \in Creating,
         NEW m \in DbPods, StatusUpdate(m), UNCHANGED cached,
         m.uid = mem.uid, m.fin = mem.fin, m.del = mem.del,
         mem.progress = "Ready" => m.progress = "Ready"
  PROVE  Guarded'
<1> DEFINE stored == [cr EXCEPT !.named = m.named, !.progress = m.progress]
<1>1. /\ stored.uid = cr.uid /\ stored.fin = cr.fin /\ stored.del = cr.del
      /\ stored.progress = m.progress
  BY DEF TypeOK, DbPods
<1>2. mem.uid # 0 /\ cr.uid = mem.uid /\ cr.fin
  BY DEF Guarded, PassSafe, Creating
<1>3. cr' \in {cr, stored} /\ mem' = m
  BY DEF StatusUpdate
<1>4. Absent' /\ CacheSafe'
  BY <1>1, <1>2, <1>3 DEF Guarded, Absent, CacheSafe
<1>5. PassSafe'
  BY <1>1, <1>2, <1>3 DEF Guarded, PassSafe, Creating
<1>6. (memFresh' => memFresh) /\ (memFresh' /\ cr' # cr => cr' = stored)
  BY DEF StatusUpdate
<1>7. Fresh'
  <2>1. cachedFresh' => cached' = cr'
    BY DEF StatusUpdate, Guarded, Fresh
  <2> QED
    BY <1>1, <1>3, <1>6, <2>1 DEF Guarded, Fresh
<1> QED
  BY <1>4, <1>5, <1>7 DEF Guarded

\* Somebody else writes the DbPod, but neither replaces it nor takes its finalizer.
LEMMA WriteStep ==
  ASSUME Guarded, NEW c, Write(c), UNCHANGED <<cached, mem, pc>>,
         \/ c.uid = cr.uid /\ (c.fin <=> cr.fin) /\ (cr.del => c.del) /\ cr.uid # 0
         \/ ~cr.fin /\ c.uid # 0 /\ ~c.fin
         \/ ~cr.fin /\ c = NoCr
  PROVE  Guarded'
<1>1. cr' = c /\ ~cachedFresh' /\ ~memFresh'
  BY DEF Write
<1>2. NoCr.uid = 0 /\ ~NoCr.fin
  BY DEF NoCr
<1>3. Absent' /\ Fresh'
  BY <1>1, <1>2 DEF Guarded, Absent, Fresh
<1>4. CacheSafe'
  BY <1>1, <1>2 DEF Guarded, CacheSafe
<1>5. PassSafe'
  BY <1>1, <1>2 DEF Guarded, PassSafe
<1> QED
  BY <1>3, <1>4, <1>5 DEF Guarded

LEMMA GuardedInit == Init => Guarded
BY DEF Init, Guarded, Absent, Fresh, CacheSafe, PassSafe, NoCr

\* Every step keeps Guarded.
LEMMA GuardedStep == TypeOK /\ Guarded /\ [Next]_vars => Guarded'
<1> SUFFICES ASSUME TypeOK, Guarded, [Next]_vars PROVE Guarded'
  OBVIOUS
<1> USE AsideStep, EndStep
<1>1. CASE StartPass
  <2>1. CASE Branch(cached) = "idle"
    BY <1>1, <2>1 DEF StartPass, informers
  <2>2. CASE Branch(cached) # "idle"
    <3>1. /\ UNCHANGED <<cr, cached, cachedFresh>> /\ mem' = cached /\ memFresh' = cachedFresh
          /\ pc' = Branch(cached)
      BY <1>1, <2>2 DEF StartPass, informers, Goto
    <3>2. \/ cached.uid # 0 /\ ~cached.del /\ ~cached.fin /\ pc' = "finalizer"
          \/ cached.uid # 0 /\ ~cached.del /\ cached.fin /\ pc' = "name"
          \/ cached.uid # 0 /\ cached.del /\ cached.fin /\ pc' = "delete"
      BY <2>2, <3>1 DEF Branch, TypeOK, DbPods
    <3> QED
      BY <3>1, <3>2 DEF Guarded, Absent, Fresh, CacheSafe, PassSafe
  <2> QED
    BY <2>1, <2>2
<1>2. CASE AddFinalizer
  <2>1. CASE ~memFresh
    BY <1>2, <2>1 DEF AddFinalizer, Retry
  <2>2. CASE memFresh
    <3>1. /\ cr.uid = mem.uid /\ cr.uid # 0 /\ ~cr.del /\ ~cached.del
          /\ cr.progress = "Ready" => mem.progress = "Ready"
      BY <1>2, <2>2 DEF AddFinalizer, Guarded, Fresh, PassSafe, TypeOK, DbPods
    <3>2. /\ [cr EXCEPT !.fin = TRUE].uid = cr.uid /\ [cr EXCEPT !.fin = TRUE].fin
          /\ [cr EXCEPT !.fin = TRUE].del = cr.del
          /\ [cr EXCEPT !.fin = TRUE].progress = cr.progress
      BY DEF TypeOK, DbPods
    <3>3. cr' = [cr EXCEPT !.fin = TRUE] /\ cached' = cached /\ cachedFresh' = FALSE
      BY <1>2, <2>2 DEF AddFinalizer
    <3>4. Absent' /\ CacheSafe'
      BY <3>1, <3>2, <3>3 DEF Guarded, Absent, CacheSafe
    <3>5. CASE mem' = [mem EXCEPT !.fin = TRUE] /\ UNCHANGED memFresh /\ pc' = "name"
      <4>1. /\ mem'.uid = mem.uid /\ mem'.fin = cr'.fin /\ mem'.del = mem.del
            /\ mem'.progress = mem.progress
        BY <3>2, <3>3, <3>5 DEF TypeOK, DbPods
      <4> QED
        BY <2>2, <3>1, <3>2, <3>3, <3>4, <3>5, <4>1 DEF Guarded, Fresh, PassSafe
    <3>6. CASE EndPass
      BY <3>3, <3>4, <3>6 DEF Guarded, Fresh, PassSafe, EndPass
    <3> QED
      BY <1>2, <2>2, <3>5, <3>6 DEF AddFinalizer, Goto, Retry
  <2> QED
    BY <2>1, <2>2
<1>3. CASE NameStatus
  <2>1. pc \in Creating /\ pc' \in Creating /\ UNCHANGED cached
    BY <1>3 DEF NameStatus, Goto, Creating
  <2>2. CASE mem.named
    BY <1>3, <2>1, <2>2, OnwardStep DEF NameStatus
  <2>3. CASE ~mem.named
    <3> DEFINE m == [mem EXCEPT !.named = TRUE]
    <3>1. /\ m \in DbPods /\ m.uid = mem.uid /\ m.fin = mem.fin /\ m.del = mem.del
          /\ m.progress = mem.progress
      BY DEF TypeOK, DbPods
    <3>2. StatusUpdate(m)
      BY <1>3, <2>3 DEF NameStatus
    <3> HIDE DEF m
    <3> QED
      BY <2>1, <3>1, <3>2, StatusStep
  <2> QED
    BY <2>2, <2>3
<1>4. CASE InitiateStatus
  <2>1. pc \in Creating /\ pc' \in Creating /\ UNCHANGED cached
    BY <1>4 DEF InitiateStatus, Goto, Creating
  <2>2. CASE mem.progress = "Ready"
    BY <1>4, <2>1, <2>2, OnwardStep DEF InitiateStatus
  <2>3. CASE mem.progress # "Ready"
    <3> DEFINE m == [mem EXCEPT !.progress = "Initiating"]
    <3>1. m \in DbPods /\ m.uid = mem.uid /\ m.fin = mem.fin /\ m.del = mem.del
      BY DEF TypeOK, DbPods, Progress
    <3>2. StatusUpdate(m)
      BY <1>4, <2>3 DEF InitiateStatus
    <3> HIDE DEF m
    <3> QED
      BY <2>1, <2>3, <3>1, <3>2, StatusStep
  <2> QED
    BY <2>2, <2>3
<1>5. CASE ReadyStatus
  <2>1. pc \in Creating /\ pc' \in Creating /\ UNCHANGED cached
    BY <1>5 DEF ReadyStatus, Goto, Creating
  <2> DEFINE m == [mem EXCEPT !.progress = "Ready"]
  <2>2. /\ m \in DbPods /\ m.uid = mem.uid /\ m.fin = mem.fin /\ m.del = mem.del
        /\ m.progress = "Ready"
    BY DEF TypeOK, DbPods, Progress
  <2>3. StatusUpdate(m)
    BY <1>5 DEF ReadyStatus
  <2> HIDE DEF m
  <2> QED
    BY <2>1, <2>2, <2>3, StatusStep
<1>6. ASSUME NEW k, pc \in Creating, Create(k), UNCHANGED <<cr, cached, cachedFresh>>
      PROVE  Guarded'
  <2>1. CASE Advance(k)
    BY <1>6, <2>1, OnwardStep DEF Advance, Goto, Creating
  <2>2. CASE Retry
    BY <1>6, <2>2 DEF Retry
  <2> QED
    BY <1>6, <2>1, <2>2 DEF Create
<1>7. ASSUME NEW k, Ensure(k) PROVE Guarded'
  BY <1>6, <1>7, OnwardStep DEF Ensure, Advance, Goto, Creating, informers
<1>8. ASSUME NEW k, FetchSecret(k) PROVE Guarded'
  BY <1>8, OnwardStep DEF FetchSecret, Advance, Goto, Creating, informers
<1>9. ASSUME NEW k, CreateFetched(k) PROVE Guarded'
  BY <1>6, <1>9 DEF CreateFetched, Creating, informers
<1>10. CASE ReconcileDBDepl
  BY <1>6, <1>10, OnwardStep DEF ReconcileDBDepl, Advance, Goto, Creating, informers
<1>11. CASE Return
  BY <1>11 DEF Return, informers
<1>12. CASE DeleteExternalResources
  <2>1. CASE Retry
    BY <1>12, <2>1 DEF DeleteExternalResources, Retry, informers
  <2>2. CASE pc' \in {"delete", "release"} /\ UNCHANGED <<mem, memFresh>>
    BY <1>12, <2>2 DEF DeleteExternalResources, informers, Guarded, Absent, Fresh, CacheSafe, PassSafe
  <2> QED
    BY <1>12, <2>1, <2>2 DEF DeleteExternalResources, Goto
<1>13. CASE Release
  <2>1. CASE ~memFresh
    BY <1>13, <2>1 DEF Release, Retry
  <2>2. CASE memFresh
    <3>1. EndPass /\ cached' = cached /\ cachedFresh' = FALSE
      BY <1>13, <2>2 DEF Release, Retry
    <3>2. cr.uid # 0 /\ (cached.fin => cached.del)
      BY <1>13, <2>2 DEF Release, Guarded, Fresh, PassSafe
    <3>3. ~cr'.fin /\ (cr'.uid = 0 => cr' = NoCr)
      <4> DEFINE c == [cr EXCEPT !.fin = FALSE]
      <4>1. c.uid = cr.uid /\ c.fin = FALSE
        BY DEF TypeOK, DbPods
      <4>2. cr' = Settle(c)
        BY <1>13, <2>2 DEF Release
      <4> HIDE DEF c
      <4> QED
        BY <3>2, <4>1, <4>2, NoCrFields DEF Settle
    <3> QED
      BY <3>1, <3>2, <3>3 DEF Guarded, Absent, Fresh, CacheSafe, PassSafe, EndPass
  <2> QED
    BY <2>1, <2>2
<1>14. CASE ApiError
  BY <1>14 DEF ApiError, Retry, informers
<1>15. CASE DeliverDbPod
  <2>1. cached' = cr /\ UNCHANGED <<cr, mem, memFresh, pc>>
    BY <1>15 DEF DeliverDbPod, pass
  <2>2. pc = "finalizer" /\ memFresh => ~cr.del
    BY DEF Guarded, Fresh, PassSafe
  <2> QED
    BY <2>1, <2>2 DEF Guarded, Absent, Fresh, CacheSafe, PassSafe
<1>16. ASSUME NEW o, Deliver(o) PROVE Guarded'
  BY <1>16 DEF Deliver, pass
<1>17. CASE Resync
  BY <1>17 DEF Resync, informers, pass
<1>18. CASE Restart
  BY <1>18 DEF Restart, EndPass, Guarded, Absent, Fresh, CacheSafe, PassSafe
<1>19. CASE UserCreate
  <2>1. cr = NoCr /\ ~cr.fin
    BY <1>19, NoCrFields DEF UserCreate, Guarded, Absent
  <2>2. [NoCr EXCEPT !.uid = born + 1].uid # 0 /\ ~[NoCr EXCEPT !.uid = born + 1].fin
    BY DEF NoCr, TypeOK
  <2> QED
    BY <1>19, <2>1, <2>2, WriteStep DEF UserCreate
<1>20. CASE UserDelete
  <2>1. PICK fg \in BOOLEAN : Write(Settle([cr EXCEPT !.del = TRUE, !.fg = fg]))
    BY <1>20 DEF UserDelete
  <2> DEFINE c == [cr EXCEPT !.del = TRUE, !.fg = fg]
  <2>2. c.uid = cr.uid /\ c.fin = cr.fin /\ c.del
    BY DEF TypeOK, DbPods
  <2>3. Settle(c) = c \/ (~c.fin /\ Settle(c) = NoCr)
    BY DEF Settle
  <2>4. cr.uid # 0 /\ UNCHANGED <<cached, mem, pc>>
    BY <1>20 DEF UserDelete
  <2> HIDE DEF c
  <2> QED
    BY <2>1, <2>2, <2>3, <2>4, WriteStep DEF c
<1>21. CASE UserEdit
  BY <1>21, WriteStep DEF UserEdit
<1>22. CASE FinishForeground
  <2> DEFINE c == [cr EXCEPT !.fg = FALSE]
  <2>1. c.uid = cr.uid /\ c.fin = cr.fin /\ c.del = cr.del
    BY DEF TypeOK, DbPods
  <2>2. Settle(c) = c \/ (~c.fin /\ Settle(c) = NoCr)
    BY DEF Settle
  <2>3. cr.uid # 0 /\ UNCHANGED <<cached, mem, pc>> /\ Write(Settle(c))
    BY <1>22, NoCrFields DEF FinishForeground, Guarded, Absent
  <2> HIDE DEF c
  <2> QED
    BY <2>1, <2>2, <2>3, WriteStep
<1>23. ASSUME NEW k, UserDeleteChild(k) \/ Collect(k) PROVE Guarded'
  BY <1>23 DEF UserDeleteChild, Collect, informers, pass
<1>24. ASSUME NEW v, Provision(v) PROVE Guarded'
  BY <1>24 DEF Provision, informers, pass
<1>25. CASE PodUp \/ PodDown
  BY <1>25 DEF PodUp, PodDown, informers, pass
<1>26. CASE UNCHANGED vars
  BY <1>26 DEF vars, informers, pass
<1>27. CASE Pass
  <2>1. ASSUME ReconcileService \/ ReconcileServiceRead \/ ReconcileCmap \/ ReconcileSecret
               \/ ReconcileProxyService \/ ReconcileProxyStatefulset
               \/ ReconcileInitCmap \/ ReconcileProxyCmap
        PROVE  Guarded'
    BY <1>7, <1>8, <1>9, <2>1 DEF ReconcileService, ReconcileServiceRead, ReconcileCmap,
       ReconcileSecret, ReconcileProxyService, ReconcileProxyStatefulset,
       ReconcileInitCmap, ReconcileProxyCmap
  <2> QED
    BY <1>1, <1>2, <1>3, <1>4, <1>5, <1>10, <1>11, <1>12, <1>13, <1>27, <2>1 DEF Pass
<1>28. CASE Cluster
  BY <1>19, <1>20, <1>21, <1>22, <1>23, <1>24, <1>25, <1>28 DEF Cluster
<1> QED
  BY <1>14, <1>15, <1>16, <1>17, <1>18, <1>26, <1>27, <1>28 DEF Next

THEOREM GuardedAlways == Spec => []Guarded
BY TypeCorrect, GuardedInit, GuardedStep, PTL DEF Spec

-----------------------------------------------------------------------------
(***************************************************************************)
(* Creation.                                                               *)
(***************************************************************************)

\* Children change in two ways only: a pass creates one, or one is removed.
LEMMA ChildrenChange ==
  ASSUME [Next]_vars
  PROVE  \/ UNCHANGED api
         \/ \E k \in Kinds : RemoveChild(k)
         \/ \E k : pc \in {"ensure", "create"} /\ Create(k)
<1>1. CASE Pass
  <2>1. ASSUME NEW k, Ensure(k) \/ FetchSecret(k) \/ CreateFetched(k)
        PROVE  UNCHANGED api \/ (pc \in {"ensure", "create"} /\ Create(k))
    BY <2>1 DEF Ensure, FetchSecret, CreateFetched, children
  <2>2. CASE ReconcileDBDepl
    BY <2>2 DEF ReconcileDBDepl, children
  <2>3. ASSUME ReconcileService \/ ReconcileServiceRead \/ ReconcileCmap \/ ReconcileSecret
               \/ ReconcileProxyService \/ ReconcileProxyStatefulset
               \/ ReconcileInitCmap \/ ReconcileProxyCmap
        PROVE  UNCHANGED api \/ \E k : pc \in {"ensure", "create"} /\ Create(k)
    BY <2>1, <2>3 DEF ReconcileService, ReconcileServiceRead, ReconcileCmap,
       ReconcileSecret, ReconcileProxyService, ReconcileProxyStatefulset,
       ReconcileInitCmap, ReconcileProxyCmap
  <2>4. CASE StartPass \/ AddFinalizer \/ NameStatus \/ InitiateStatus \/ ReadyStatus \/ Return
             \/ DeleteExternalResources \/ Release
    BY <2>4 DEF StartPass, AddFinalizer, NameStatus, InitiateStatus, ReadyStatus, Return,
       DeleteExternalResources, Release, children
  <2> QED
    BY <1>1, <2>2, <2>3, <2>4 DEF Pass
<1>2. CASE Cluster
  BY <1>2 DEF Cluster, UserCreate, UserDelete, UserEdit, FinishForeground, PodUp, PodDown,
     UserDeleteChild, Collect, Provision, children
<1>3. CASE ApiError \/ DeliverDbPod \/ (\E o \in Tracked : Deliver(o)) \/ Resync \/ Restart
           \/ UNCHANGED vars
  BY <1>3 DEF ApiError, DeliverDbPod, Deliver, Resync, Restart, vars, children
<1> QED
  BY <1>1, <1>2, <1>3 DEF Next

LEMMA CreationStep ==
  ASSUME TypeOK, Guarded, [Next]_vars, NEW k \in Kinds, api[k] = 0, api'[k] # 0
  PROVE  cr.uid = api'[k] /\ cr.fin
<1>1. ~\E j \in Kinds : RemoveChild(j)
  BY DEF RemoveChild, TypeOK
<1>2. PICK j : pc \in {"ensure", "create"} /\ Create(j)
  BY <1>1, ChildrenChange
<1>3. api' = [api EXCEPT ![j] = mem.uid]
  BY <1>2 DEF Create, children
<1>4. api'[k] = mem.uid
  BY <1>3 DEF TypeOK
<1> QED
  BY <1>2, <1>4 DEF Guarded, PassSafe

\* No child is created for a DbPod that is gone or lacks its finalizer, however old
\* the copies are that the passes work from.
THEOREM CreationGuarded == Spec => GuardedCreation
<1>1. TypeOK /\ Guarded /\ [Next]_vars =>
        [\A k \in Kinds : api[k] = 0 /\ api'[k] # 0 => cr.uid = api'[k] /\ cr.fin]_vars
  BY CreationStep
<1> QED
  BY <1>1, TypeCorrect, GuardedAlways, PTL DEF Spec, GuardedCreation

-----------------------------------------------------------------------------
(***************************************************************************)
(* The status.                                                             *)
(***************************************************************************)

\* A status write of a pass takes Ready from the DbPod only if the copy it writes
\* has lost it.
LEMMA StatusKeepsReady ==
  ASSUME TypeOK, Guarded, NEW m \in DbPods, StatusUpdate(m),
         mem.progress = "Ready" => m.progress = "Ready", cr.progress = "Ready"
  PROVE  cr'.progress = "Ready"
<1>1. [cr EXCEPT !.named = m.named, !.progress = m.progress].progress = m.progress
  BY DEF TypeOK, DbPods
<1>2. memFresh => m.progress = "Ready"
  BY DEF Guarded, Fresh
<1> QED
  BY <1>1, <1>2 DEF StatusUpdate

LEMMA ReadyStep ==
  ASSUME TypeOK, Guarded, [Next]_vars, cr.progress = "Ready", cr'.uid = cr.uid
  PROVE  cr'.progress = "Ready"
<1>0. cr.uid # 0
  BY NoCrFields DEF Guarded, Absent
<1>1. CASE UNCHANGED cr
  BY <1>1
<1>2. CASE NameStatus
  <2> DEFINE m == [mem EXCEPT !.named = TRUE]
  <2>1. m \in DbPods /\ m.progress = mem.progress
    BY DEF TypeOK, DbPods
  <2>2. UNCHANGED cr \/ StatusUpdate(m)
    BY <1>2 DEF NameStatus
  <2> HIDE DEF m
  <2> QED
    BY <1>1, <2>1, <2>2, StatusKeepsReady
<1>3. CASE InitiateStatus
  <2> DEFINE m == [mem EXCEPT !.progress = "Initiating"]
  <2>1. m \in DbPods
    BY DEF TypeOK, DbPods, Progress
  <2>2. UNCHANGED cr \/ (mem.progress # "Ready" /\ StatusUpdate(m))
    BY <1>3 DEF InitiateStatus
  <2> HIDE DEF m
  <2> QED
    BY <1>1, <2>1, <2>2, StatusKeepsReady
<1>4. CASE ReadyStatus
  <2> DEFINE m == [mem EXCEPT !.progress = "Ready"]
  <2>1. m \in DbPods /\ m.progress = "Ready"
    BY DEF TypeOK, DbPods, Progress
  <2>2. StatusUpdate(m)
    BY <1>4 DEF ReadyStatus
  <2> HIDE DEF m
  <2> QED
    BY <2>1, <2>2, StatusKeepsReady
<1>5. ASSUME NEW c \in DbPods, c.uid = cr.uid, c.progress = cr.progress, cr' \in {c, Settle(c)}
      PROVE  cr'.progress = "Ready"
  BY <1>0, <1>5, NoCrFields DEF Settle
<1>6. CASE AddFinalizer \/ Release
  <2>1. /\ [cr EXCEPT !.fin = TRUE] \in DbPods /\ [cr EXCEPT !.fin = TRUE].uid = cr.uid
        /\ [cr EXCEPT !.fin = TRUE].progress = cr.progress
    BY DEF TypeOK, DbPods
  <2>2. /\ [cr EXCEPT !.fin = FALSE] \in DbPods /\ [cr EXCEPT !.fin = FALSE].uid = cr.uid
        /\ [cr EXCEPT !.fin = FALSE].progress = cr.progress
    BY DEF TypeOK, DbPods
  <2>3. \/ UNCHANGED cr \/ cr' = [cr EXCEPT !.fin = TRUE]
        \/ cr' = Settle([cr EXCEPT !.fin = FALSE])
    BY <1>6 DEF AddFinalizer, Release
  <2> QED
    BY <1>1, <1>5, <2>1, <2>2, <2>3
<1>7. CASE UserDelete \/ FinishForeground
  <2>1. \A fg \in BOOLEAN : LET c == [cr EXCEPT !.del = TRUE, !.fg = fg]
                           IN  c \in DbPods /\ c.uid = cr.uid /\ c.progress = cr.progress
    BY DEF TypeOK, DbPods
  <2>2. /\ [cr EXCEPT !.fg = FALSE] \in DbPods /\ [cr EXCEPT !.fg = FALSE].uid = cr.uid
        /\ [cr EXCEPT !.fg = FALSE].progress = cr.progress
    BY DEF TypeOK, DbPods
  <2>3. \/ \E fg \in BOOLEAN : cr' = Settle([cr EXCEPT !.del = TRUE, !.fg = fg])
        \/ cr' = Settle([cr EXCEPT !.fg = FALSE])
    BY <1>7 DEF UserDelete, FinishForeground, Write
  <2> QED
    BY <1>5, <2>1, <2>2, <2>3
<1>8. CASE UserCreate
  BY <1>0, <1>8 DEF UserCreate
<1>9. CASE UserEdit
  BY <1>1, <1>9 DEF UserEdit, Write
<1>10. CASE Pass
  <2>1. ASSUME NEW k, Ensure(k) \/ FetchSecret(k) \/ CreateFetched(k)
        PROVE  UNCHANGED cr
    BY <2>1 DEF Ensure, FetchSecret, CreateFetched
  <2>2. ASSUME ReconcileService \/ ReconcileServiceRead \/ ReconcileCmap \/ ReconcileSecret
               \/ ReconcileProxyService \/ ReconcileProxyStatefulset
               \/ ReconcileInitCmap \/ ReconcileProxyCmap
        PROVE  UNCHANGED cr
    BY <2>1, <2>2 DEF ReconcileService, ReconcileServiceRead, ReconcileCmap,
       ReconcileSecret, ReconcileProxyService, ReconcileProxyStatefulset,
       ReconcileInitCmap, ReconcileProxyCmap
  <2>3. CASE StartPass \/ ReconcileDBDepl \/ Return \/ DeleteExternalResources
    BY <1>1, <2>3 DEF StartPass, ReconcileDBDepl, Return, DeleteExternalResources
  <2> QED
    BY <1>1, <1>2, <1>3, <1>4, <1>6, <1>10, <2>2, <2>3 DEF Pass
<1>11. CASE Cluster
  <2>1. ASSUME NEW k, UserDeleteChild(k) \/ Collect(k) \/ Provision(k) \/ PodUp \/ PodDown
        PROVE  UNCHANGED cr
    BY <2>1 DEF UserDeleteChild, Collect, Provision, PodUp, PodDown
  <2> QED
    BY <1>1, <1>7, <1>8, <1>9, <1>11, <2>1 DEF Cluster
<1>12. CASE ApiError \/ DeliverDbPod \/ (\E o \in Tracked : Deliver(o)) \/ Resync \/ Restart
            \/ UNCHANGED vars
  BY <1>1, <1>12 DEF ApiError, DeliverDbPod, Deliver, Resync, Restart, vars
<1> QED
  BY <1>10, <1>11, <1>12 DEF Next

\* Ready is never overwritten in the lifetime of a DbPod by a pass that works from an
\* old copy, of it or of an earlier DbPod of the name.
THEOREM ReadyIsStable == Spec => ReadyStable
<1>1. TypeOK /\ Guarded /\ [Next]_vars =>
        [cr.progress = "Ready" /\ cr'.uid = cr.uid => cr'.progress = "Ready"]_vars
  BY ReadyStep
<1> QED
  BY <1>1, TypeCorrect, GuardedAlways, PTL DEF Spec, ReadyStable

-----------------------------------------------------------------------------
(***************************************************************************)
(* The password.                                                           *)
(***************************************************************************)

LEMMA CopyInit == Init => CopySafe
BY KindsAssumption DEF Init, CopySafe, Holders

\* Steps that touch neither children nor copies, and hold no password afterwards.
LEMMA CopyOnward ==
  ASSUME CopySafe, UNCHANGED <<api, copies, rotated>>, pc' # "create", fetched' = "none"
  PROVE  CopySafe'
BY DEF CopySafe

LEMMA CopyAside ==
  ASSUME CopySafe, UNCHANGED <<api, copies, rotated, pc, fetched>>
  PROVE  CopySafe'
BY DEF CopySafe

\* A new child: the Secret when nobody holds a password, or a ConfigMap with the
\* password that was read.
LEMMA CopyCreate ==
  ASSUME TypeOK, CopySafe, NEW k \in Kinds, Create(k),
         \/ pc = "ensure" /\ k \notin {"init", "pcmap"}
         \/ pc = "create" /\ k \in {"init", "pcmap"}
  PROVE  CopySafe'
<1>1. pc' # "create" /\ fetched' = "none" /\ rotated' = rotated
  BY DEF Create, Advance, Retry, EndPass, Goto, children
<1>2. CASE UNCHANGED <<api, copies>>
  BY <1>1, <1>2, CopyOnward
<1>3. CASE api[k] = 0 /\ api' = [api EXCEPT ![k] = mem.uid] /\ copies' = CopiesWith(k)
  <2>1. {"init", "sec"} \subseteq Kinds
    BY KindsAssumption
  <2>2. CASE k = "sec"
    <3>1. \A h \in Holders : copies'[h] = IF copies[h] = "none" THEN "none" ELSE "old"
      BY <1>3, <2>2 DEF CopiesWith
    <3>2. api'["init"] = api["init"]
      BY <1>3, <2>1, <2>2 DEF TypeOK
    <3>3. ~rotated => \A h \in Holders : copies'[h] = "none"
      BY <1>3, <2>2, <3>1 DEF CopySafe
    <3> QED
      BY <1>1, <3>1, <3>2, <3>3 DEF CopySafe, Holders
  <2>3. CASE k \in {"init", "pcmap"}
    <3>1. copies' = [copies EXCEPT ![k] = fetched] /\ fetched # "none" /\ fetched # "old"
      BY <1>3, <2>3 DEF CopiesWith, CopySafe
    <3>2. \A h \in Holders : copies'[h] = IF h = k THEN fetched ELSE copies[h]
      BY <3>1 DEF TypeOK
    <3>3. api'["sec"] = api["sec"] /\ (k # "init" => api'["init"] = api["init"])
      BY <1>3, <2>1, <2>3 DEF TypeOK
    <3> QED
      BY <1>1, <2>3, <3>1, <3>2, <3>3 DEF CopySafe, Holders
  <2>4. CASE k \notin {"sec", "init", "pcmap"}
    <3>1. copies' = copies /\ api'["sec"] = api["sec"] /\ api'["init"] = api["init"]
      BY <1>3, <2>1, <2>4 DEF CopiesWith, TypeOK
    <3> QED
      BY <1>1, <3>1 DEF CopySafe
  <2> QED
    BY <2>2, <2>3, <2>4
<1> QED
  BY <1>2, <1>3 DEF Create, children

LEMMA CopyRemove ==
  ASSUME TypeOK, CopySafe, NEW k \in Kinds, RemoveChild(k), UNCHANGED <<pc, fetched>>
  PROVE  CopySafe'
<1>1. \A h \in Holders : copies'[h] = IF h = k THEN "none" ELSE copies[h]
  BY DEF RemoveChild
<1>2. \A j \in Kinds : api'[j] = IF j = k THEN 0 ELSE api[j]
  BY DEF RemoveChild, TypeOK
<1>3. {"init", "sec"} \subseteq Kinds
  BY KindsAssumption
<1>4. (~rotated' => ~rotated) /\
      (k = "sec" /\ ~rotated' => fetched = "none" /\ \A h \in Holders : copies[h] = "none")
  BY DEF RemoveChild
<1> QED
  BY <1>1, <1>2, <1>3, <1>4 DEF CopySafe, Holders

LEMMA CopyStep == TypeOK /\ CopySafe /\ [Next]_vars => CopySafe'
<1> SUFFICES ASSUME TypeOK, CopySafe, [Next]_vars PROVE CopySafe'
  OBVIOUS
<1> USE CopyOnward, CopyAside
<1>1. CASE StartPass \/ Return
  <2>1. fetched = "none"
    BY <1>1 DEF StartPass, Return, CopySafe
  <2>2. Branch(cached) # "create"
    BY DEF Branch, TypeOK, DbPods
  <2>3. pc' # "create" /\ fetched' = "none" /\ UNCHANGED <<api, copies, rotated>>
    BY <1>1, <2>1, <2>2 DEF StartPass, Return, EndPass, Goto, children
  <2> QED
    BY <2>3
<1>2. CASE AddFinalizer \/ NameStatus \/ InitiateStatus \/ ReadyStatus
  <2>1. fetched = "none"
    BY <1>2 DEF AddFinalizer, NameStatus, InitiateStatus, ReadyStatus, CopySafe
  <2>2. pc' # "create" /\ fetched' = "none" /\ UNCHANGED <<api, copies, rotated>>
    BY <1>2, <2>1 DEF AddFinalizer, NameStatus, InitiateStatus, ReadyStatus, Retry, EndPass,
       Goto, children
  <2> QED
    BY <2>2
<1>3. CASE DeleteExternalResources \/ Release \/ ApiError
  <2>1. DeleteExternalResources => fetched = "none"
    BY DEF DeleteExternalResources, CopySafe
  <2>2. pc' # "create" /\ fetched' = "none" /\ UNCHANGED <<api, copies, rotated>>
    BY <1>3, <2>1 DEF DeleteExternalResources, Release, ApiError, Retry, EndPass, Goto, children
  <2> QED
    BY <2>2
<1>4. ASSUME NEW k \in AllKinds, obj = k PROVE k \in Kinds
  BY <1>4 DEF TypeOK, Objects, Tracked, Volumes, AllKinds
<1>5. ASSUME NEW k \in AllKinds \ {"init", "pcmap"}, Ensure(k) PROVE CopySafe'
  <2>1. k \in Kinds /\ pc = "ensure"
    BY <1>4, <1>5 DEF Ensure
  <2>2. CASE Advance(k) /\ UNCHANGED children
    BY <2>2 DEF Advance, Goto, children
  <2> QED
    BY <1>5, <2>1, <2>2, CopyCreate DEF Ensure
<1>6. ASSUME NEW k \in {"init", "pcmap"}, FetchSecret(k) PROVE CopySafe'
  <2>1. UNCHANGED <<api, copies, rotated>>
    BY <1>6 DEF FetchSecret, children
  <2>2. CASE Advance(k)
    BY <2>1, <2>2 DEF Advance, Goto
  <2>3. CASE pc' = "create" /\ fetched' = "current" /\ api["sec"] # 0
    BY <2>1, <2>3 DEF CopySafe
  <2> QED
    BY <1>6, <2>2, <2>3 DEF FetchSecret, Goto
<1>7. ASSUME NEW k \in {"init", "pcmap"}, CreateFetched(k) PROVE CopySafe'
  <2>1. k \in Kinds /\ pc = "create"
    BY <1>4, <1>7 DEF CreateFetched, AllKinds
  <2> QED
    BY <1>7, <2>1, CopyCreate DEF CreateFetched
<1>8. CASE ReconcileDBDepl
  <2>1. "mysql" \in Kinds /\ pc = "ensure" /\ fetched = "none"
    BY <1>8, KindsAssumption DEF ReconcileDBDepl, CopySafe
  <2>2. CASE (Advance("mysql") \/ (Goto("ready", "mysql") /\ UNCHANGED fetched))
             /\ UNCHANGED children
    BY <2>1, <2>2 DEF Advance, Goto, children
  <2> QED
    BY <1>8, <2>1, <2>2, CopyCreate DEF ReconcileDBDepl
<1>9. CASE Pass
  <2>1. {"svc", "readsvc", "cmap", "sec", "psvc", "psts"} \subseteq AllKinds \ {"init", "pcmap"}
    BY DEF AllKinds
  <2>2. ASSUME ReconcileService \/ ReconcileServiceRead \/ ReconcileCmap \/ ReconcileSecret
               \/ ReconcileProxyService \/ ReconcileProxyStatefulset
        PROVE  CopySafe'
    BY <1>5, <2>1, <2>2 DEF ReconcileService, ReconcileServiceRead, ReconcileCmap,
       ReconcileSecret, ReconcileProxyService, ReconcileProxyStatefulset
  <2>3. ASSUME ReconcileInitCmap \/ ReconcileProxyCmap
        PROVE  CopySafe'
    BY <1>6, <1>7, <2>3 DEF ReconcileInitCmap, ReconcileProxyCmap
  <2> QED
    BY <1>1, <1>2, <1>3, <1>8, <1>9, <2>2, <2>3 DEF Pass
<1>10. ASSUME NEW k \in Kinds, UserDeleteChild(k) \/ Collect(k) PROVE CopySafe'
  BY <1>10, CopyRemove DEF UserDeleteChild, Collect, pass
<1>11. CASE PodUp
  <2>1. api["init"] # 0 /\ UNCHANGED <<api, rotated, pc, fetched>>
    BY <1>11, KindsAssumption DEF PodUp, Exists, pass
  <2>2. \A h \in Holders : copies'[h] = IF h = "data" /\ copies[h] = "none"
                                      THEN copies["init"] ELSE copies[h]
    BY <1>11 DEF PodUp, TypeOK
  <2> QED
    BY <2>1, <2>2 DEF CopySafe, Holders
<1>12. CASE UserCreate \/ UserDelete \/ UserEdit \/ FinishForeground \/ PodDown
  BY <1>12 DEF UserCreate, UserDelete, UserEdit, FinishForeground, PodDown, children, pass
<1>13. ASSUME NEW v, Provision(v) PROVE CopySafe'
  BY <1>13 DEF Provision, pass
<1>14. CASE DeliverDbPod \/ (\E o \in Tracked : Deliver(o)) \/ Resync \/ UNCHANGED vars
  BY <1>14 DEF DeliverDbPod, Deliver, Resync, vars, children, pass
<1>15. CASE Restart
  BY <1>15 DEF Restart, EndPass
<1> QED
  BY <1>3, <1>9, <1>10, <1>11, <1>12, <1>13, <1>14, <1>15 DEF Next, Cluster

THEOREM CopySafeAlways == Spec => []CopySafe
BY CopyInit, CopyStep, TypeCorrect, PTL DEF Spec

\* While no Secret in use is removed, no copy of the password differs from it.
THEOREM CredentialsAlwaysAgree == Spec => []CredentialsAgree
<1>1. CopySafe => CredentialsAgree
  BY DEF CopySafe, CredentialsAgree
<1> QED
  BY <1>1, CopySafeAlways, PTL

-----------------------------------------------------------------------------
(***************************************************************************)
(* What Ready says of the database.                                        *)
(***************************************************************************)

\* The belief spreads from the StatefulSet to the cache, the pass and the status, and
\* has no other source than a Pod.
LEMMA BeliefSpreads ==
  ASSUME TypeOK, [Next]_vars, Believed'
  PROVE  Believed \/ PodUp
<1> SUFFICES ASSUME ~Believed PROVE PodUp
  OBVIOUS
<1>1. /\ ~avail /\ ~cachedAvail /\ pc # "ready"
      /\ cr.progress # "Ready" /\ mem.progress # "Ready" /\ cached.progress # "Ready"
  BY DEF Believed
<1>2. ASSUME NEW c \in DbPods, c.progress # "Ready" PROVE Settle(c).progress # "Ready"
  BY <1>2, NoCrFields DEF Settle
<1>3. CASE StartPass
  <2>1. Branch(cached) # "ready"
    BY DEF Branch, TypeOK, DbPods
  <2> QED
    BY <1>1, <1>3, <2>1, NoCrFields DEF StartPass, EndPass, Goto, Believed, children, informers
<1>4. CASE AddFinalizer
  <2>1. /\ [cr EXCEPT !.fin = TRUE].progress = cr.progress
        /\ [mem EXCEPT !.fin = TRUE].progress = mem.progress
    BY DEF TypeOK, DbPods
  <2> QED
    BY <1>1, <1>4, <2>1, NoCrFields DEF AddFinalizer, Retry, EndPass, Goto, Believed, children
<1>5. ASSUME NEW m \in DbPods, StatusUpdate(m), m.progress # "Ready"
      PROVE  cr'.progress # "Ready" /\ mem'.progress # "Ready"
  <2>1. [cr EXCEPT !.named = m.named, !.progress = m.progress].progress = m.progress
    BY DEF TypeOK, DbPods
  <2> QED
    BY <1>1, <1>5, <2>1 DEF StatusUpdate
<1>6. CASE NameStatus
  <2> DEFINE m == [mem EXCEPT !.named = TRUE]
  <2>1. m \in DbPods /\ m.progress = mem.progress
    BY DEF TypeOK, DbPods
  <2>2. UNCHANGED <<cr, mem>> \/ StatusUpdate(m)
    BY <1>6 DEF NameStatus
  <2> HIDE DEF m
  <2>3. cr'.progress # "Ready" /\ mem'.progress # "Ready"
    BY <1>1, <1>5, <2>1, <2>2
  <2> QED
    BY <1>1, <1>6, <2>3 DEF NameStatus, Goto, Believed, children
<1>7. CASE InitiateStatus
  <2> DEFINE m == [mem EXCEPT !.progress = "Initiating"]
  <2>1. m \in DbPods /\ m.progress # "Ready"
    BY DEF TypeOK, DbPods, Progress
  <2>2. StatusUpdate(m)
    BY <1>1, <1>7 DEF InitiateStatus
  <2> HIDE DEF m
  <2>3. cr'.progress # "Ready" /\ mem'.progress # "Ready"
    BY <1>5, <2>1, <2>2
  <2> QED
    BY <1>1, <1>7, <2>3 DEF InitiateStatus, Goto, Believed, children
<1> DEFINE Aside == avail' = avail /\ pc' # "ready" /\ mem'.progress # "Ready"
<1>8. /\ \A k : Create(k) => Aside
      /\ \A k : Advance(k) /\ UNCHANGED children => Aside
  BY <1>1, NoCrFields DEF Create, Advance, Retry, EndPass, Goto, children
<1>9. ASSUME NEW k, Ensure(k) \/ FetchSecret(k) \/ CreateFetched(k) PROVE ~Believed'
  <2>1. ASSUME Create(k) PROVE Aside
    BY <1>8, <2>1
  <2>2. ASSUME Advance(k), UNCHANGED children PROVE Aside
    BY <1>8, <2>2
  <2>3. ASSUME Goto("create", k), UNCHANGED <<mem, children>> PROVE Aside
    BY <1>1, <2>3 DEF Goto, children
  <2>4. Aside
    BY <1>9, <2>1, <2>2, <2>3 DEF Ensure, FetchSecret, CreateFetched
  <2> QED
    BY <1>1, <1>9, <2>4 DEF Ensure, FetchSecret, CreateFetched, Believed, informers
<1>10. CASE ReconcileDBDepl
  <2>1. ASSUME Create("mysql") PROVE Aside
    BY <1>8, <2>1
  <2>2. ASSUME Advance("mysql"), UNCHANGED children PROVE Aside
    BY <1>8, <2>2
  <2>3. Aside
    BY <1>1, <1>10, <2>1, <2>2 DEF ReconcileDBDepl
  <2> QED
    BY <1>1, <1>10, <2>3 DEF ReconcileDBDepl, Believed, informers
<1>11. CASE ReadyStatus
  BY <1>1, <1>11 DEF ReadyStatus
<1>12. CASE Return \/ DeleteExternalResources \/ ApiError
  BY <1>1, <1>12, NoCrFields DEF Return, DeleteExternalResources, ApiError, Retry, EndPass, Goto,
     Believed, children, informers
<1>13. CASE Release
  <2>1. [cr EXCEPT !.fin = FALSE] \in DbPods /\ [cr EXCEPT !.fin = FALSE].progress # "Ready"
    BY <1>1 DEF TypeOK, DbPods
  <2>2. cr' = cr \/ cr' = Settle([cr EXCEPT !.fin = FALSE])
    BY <1>13 DEF Release
  <2>3. cr'.progress # "Ready"
    BY <1>1, <1>2, <2>1, <2>2
  <2> QED
    BY <1>1, <1>13, <2>3, NoCrFields DEF Release, Retry, EndPass, Believed, children
<1>14. CASE Pass
  <2>1. ASSUME ReconcileService \/ ReconcileServiceRead \/ ReconcileCmap \/ ReconcileSecret
               \/ ReconcileProxyService \/ ReconcileProxyStatefulset
               \/ ReconcileInitCmap \/ ReconcileProxyCmap
        PROVE  ~Believed'
    BY <1>9, <2>1 DEF ReconcileService, ReconcileServiceRead, ReconcileCmap,
       ReconcileSecret, ReconcileProxyService, ReconcileProxyStatefulset,
       ReconcileInitCmap, ReconcileProxyCmap
  <2> QED
    BY <1>3, <1>4, <1>6, <1>7, <1>10, <1>11, <1>12, <1>13, <1>14, <2>1 DEF Pass
<1>15. CASE DeliverDbPod \/ (\E o \in Tracked : Deliver(o)) \/ Resync \/ UNCHANGED vars
  BY <1>1, <1>15 DEF DeliverDbPod, Deliver, Resync, vars, Believed, children, informers, pass
<1>16. CASE Restart
  BY <1>1, <1>16, NoCrFields DEF Restart, EndPass, Believed
<1>17. CASE UserCreate
  <2>1. [NoCr EXCEPT !.uid = born + 1].progress = ""
    BY DEF NoCr
  <2> QED
    BY <1>1, <1>17, <2>1 DEF UserCreate, Write, Believed, children
<1>18. CASE UserDelete
  <2>1. \A fg \in BOOLEAN : LET c == [cr EXCEPT !.del = TRUE, !.fg = fg]
                           IN  c \in DbPods /\ c.progress # "Ready"
    BY <1>1 DEF TypeOK, DbPods
  <2>2. cr'.progress # "Ready"
    BY <1>2, <1>18, <2>1 DEF UserDelete, Write
  <2> QED
    BY <1>1, <1>18, <2>2 DEF UserDelete, Believed, children
<1>19. CASE FinishForeground
  <2>1. [cr EXCEPT !.fg = FALSE] \in DbPods /\ [cr EXCEPT !.fg = FALSE].progress # "Ready"
    BY <1>1 DEF TypeOK, DbPods
  <2>2. cr'.progress # "Ready"
    BY <1>2, <1>19, <2>1 DEF FinishForeground, Write
  <2> QED
    BY <1>1, <1>19, <2>2 DEF FinishForeground, Believed, children
<1>20. CASE UserEdit \/ PodDown
  BY <1>1, <1>20 DEF UserEdit, PodDown, Write, Believed, children, informers, pass
<1>21. ASSUME NEW k, UserDeleteChild(k) \/ Collect(k) \/ Provision(k) PROVE ~Believed'
  BY <1>1, <1>21 DEF UserDeleteChild, Collect, RemoveChild, Provision, Believed, informers, pass
<1> QED
  BY <1>12, <1>14, <1>15, <1>16, <1>17, <1>18, <1>19, <1>20, <1>21 DEF Next, Cluster

\* Once the volume has the Secret's password, only the removal of a Secret in use
\* changes that.
LEMMA ServedStays ==
  ASSUME TypeOK, CopySafe, [Next]_vars, Served
  PROVE  Served'
<1>1. CASE PodUp
  BY <1>1 DEF PodUp, Served, TypeOK, Holders
<1>2. ASSUME NEW k \in Kinds, RemoveChild(k) PROVE Served'
  <2>1. k # "data"
    BY KindsAssumption DEF AllKinds
  <2> QED
    BY <1>2, <2>1 DEF RemoveChild, Served, Holders
<1>3. ASSUME NEW k \in AllKinds, Create(k) PROVE Served'
  <2>1. rotated' = rotated
    BY <1>3 DEF Create, children
  <2>2. CASE k = "sec" /\ api["sec"] = 0
    BY <2>1, <2>2 DEF CopySafe, Served, Holders
  <2>3. CASE k # "sec"
    <3>1. CopiesWith(k)["data"] = copies["data"]
      BY <2>3 DEF CopiesWith, TypeOK, Holders
    <3> QED
      BY <1>3, <2>1, <3>1 DEF Create, Served, children
  <2>4. CASE k = "sec" /\ api["sec"] # 0
    BY <1>3, <2>1, <2>4 DEF Create, Served, children
  <2> QED
    BY <2>2, <2>3, <2>4
<1>4. CASE UNCHANGED <<copies, rotated>>
  BY <1>4 DEF Served
<1>5. CASE Pass
  <2>1. {"svc", "readsvc", "init", "cmap", "sec", "mysql", "pcmap", "psvc", "psts"} = AllKinds
    BY DEF AllKinds
  <2>2. ASSUME NEW k \in AllKinds, Ensure(k) \/ FetchSecret(k) \/ CreateFetched(k) PROVE Served'
    BY <1>3, <1>4, <2>2 DEF Ensure, FetchSecret, CreateFetched, children
  <2>3. ASSUME ReconcileService \/ ReconcileServiceRead \/ ReconcileCmap \/ ReconcileSecret
               \/ ReconcileProxyService \/ ReconcileProxyStatefulset
               \/ ReconcileInitCmap \/ ReconcileProxyCmap
        PROVE  Served'
    BY <2>1, <2>2, <2>3 DEF ReconcileService, ReconcileServiceRead, ReconcileCmap,
       ReconcileSecret, ReconcileProxyService, ReconcileProxyStatefulset,
       ReconcileInitCmap, ReconcileProxyCmap
  <2>4. CASE ReconcileDBDepl
    BY <1>3, <1>4, <2>1, <2>4 DEF ReconcileDBDepl, children
  <2>5. CASE StartPass \/ AddFinalizer \/ NameStatus \/ InitiateStatus \/ ReadyStatus \/ Return
             \/ DeleteExternalResources \/ Release
    BY <1>4, <2>5 DEF StartPass, AddFinalizer, NameStatus, InitiateStatus, ReadyStatus, Return,
       DeleteExternalResources, Release, children
  <2> QED
    BY <1>5, <2>3, <2>4, <2>5 DEF Pass
<1>6. CASE Cluster
  <2>1. ASSUME NEW k \in Kinds, UserDeleteChild(k) \/ Collect(k) PROVE Served'
    BY <1>2, <2>1 DEF UserDeleteChild, Collect
  <2>2. ASSUME NEW v, Provision(v) PROVE UNCHANGED <<copies, rotated>>
    BY <2>2 DEF Provision
  <2>3. CASE UserCreate \/ UserDelete \/ UserEdit \/ FinishForeground \/ PodDown
    BY <1>4, <2>3 DEF UserCreate, UserDelete, UserEdit, FinishForeground, PodDown, children
  <2> QED
    BY <1>1, <1>4, <1>6, <2>1, <2>2, <2>3 DEF Cluster
<1>7. CASE ApiError \/ DeliverDbPod \/ (\E o \in Tracked : Deliver(o)) \/ Resync \/ Restart
           \/ UNCHANGED vars
  BY <1>4, <1>7 DEF ApiError, DeliverDbPod, Deliver, Resync, Restart, vars, children
<1> QED
  BY <1>5, <1>6, <1>7 DEF Next

\* A Pod that comes up finds the Secret's password on its volume, or puts it there.
LEMMA PodServes ==
  ASSUME TypeOK, CopySafe, PodUp
  PROVE  Served'
<1>1. api["init"] # 0 /\ rotated' = rotated
  BY KindsAssumption DEF PodUp, Exists
<1>2. copies'["data"] = IF copies["data"] = "none" THEN copies["init"] ELSE copies["data"]
  BY DEF PodUp, TypeOK, Holders
<1> QED
  BY <1>1, <1>2 DEF CopySafe, Served, TypeOK, Holders, Password

LEMMA ServedInit == Init => ServedSafe
BY NoCrFields DEF Init, ServedSafe, Believed

LEMMA ServedStep == TypeOK /\ CopySafe /\ ServedSafe /\ [Next]_vars => ServedSafe'
BY BeliefSpreads, ServedStays, PodServes DEF ServedSafe

\* A DbPod is reported Ready only after a database was served that accepts the
\* password of the Secret, unless a Secret in use was removed.
THEOREM ReadyIsServed == Spec => []ReadyServed
<1>1. Spec => []ServedSafe
  BY ServedInit, ServedStep, TypeCorrect, CopySafeAlways, PTL DEF Spec
<1>2. ServedSafe => ReadyServed
  BY DEF ServedSafe, Believed, Served, ReadyServed
<1> QED
  BY <1>1, <1>2, PTL

=============================================================================
