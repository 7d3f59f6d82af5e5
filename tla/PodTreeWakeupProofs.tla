------------------------ MODULE PodTreeWakeupProofs ------------------------
(***************************************************************************)
(* No wake-up is missing between the queues of the three controllers, for  *)
(* any choice of followed objects and any number of disturbances: the      *)
(* proof of QuietGrown.                                                    *)
(***************************************************************************)
EXTENDS PodTreeProofs

\* Nothing of the kind has happened yet.
Never(e) == left[e] = Limits[e]

\* What has its owner's reference from the start: nobody but its maker makes it.
Wards(c) == PartsOf[c] \ Roots

\* Another pass of controller c is to come, or a notification that will queue one.
Awake(c) == c \in queued \/ c \notin fresh \/ PartsOf[c] \cap owed # {}

\* What QuietGrown asks of an object that c makes, and of the status of its own.
There(x) == x \in Roots \/ (x \in ClusterScoped /\ ~Never("childDelete")) \/ Exists(x)
Reported(c) == c \in Reporting /\ Never("swallow") => store[c].status = "Initiating"

\* The removal of an object that shows its owner will be reported, and the binding is
\* that of this namespace unless one was made elsewhere.
NewsSafe ==
  /\ \A e \in Events : left[e] <= Limits[e]
  /\ owed \cap fresh = {}
  /\ \A c \in Controllers : \A x \in Wards(c) : /\ Exists(x) => store[x].owner # 0
                                                /\ seen[x].uid # 0 => Exists(x) \/ x \in owed
  /\ \A x \in ClusterScoped : Never("childDelete") /\ seen[x].uid # 0 => Exists(x)
  /\ \A x \in {"crb"} \cap Kinds : Never("elsewhere") /\ Exists(x) => store[x].for = "here"

\* If no other pass is to come, this one leaves nothing to be done: what is not before it
\* is there, and its copy is the latest until the status is written.
PassLast(c) ==
  /\ work[c].pc = "idle" => store[c].fin /\ Reported(c) /\ \A x \in Makes[c] : There(x)
  /\ work[c].pc \in Making => \A x \in Makes[c] \ InOrder(work[c].todo) : There(x)
  /\ work[c].pc \in {"name", "initiate"} /\ Never("swallow") => work[c].latest
  /\ work[c].pc = "ensure" => Reported(c)
  /\ work[c].pc # "delete"

Wakeful == NewsSafe /\ \A c \in Controllers : Live(c) /\ ~Awake(c) => PassLast(c)
-----------------------------------------------------------------------------
LEMMA NeverBack ==
  ASSUME TypeOK, NewsSafe, [Next]_vars, NEW e \in Events
  PROVE  left'[e] <= Limits[e] /\ (Never(e)' => Never(e)) /\ (Spend(e) => ~Never(e)')
<1>1. left'[e] \in Nat /\ left'[e] <= left[e]
  BY LeftFalls
<1>2. left[e] \in Nat /\ Limits[e] \in Nat /\ left[e] <= Limits[e]
  BY TreeAssumption DEF TypeOK, NewsSafe
<1>3. Spend(e) => left'[e] # left[e]
  BY <1>2 DEF Spend, TypeOK
<1> QED
  BY <1>1, <1>2, <1>3 DEF Never

LEMMA WakefulInit == Init => Wakeful
<1> SUFFICES ASSUME Init PROVE Wakeful
  OBVIOUS
<1>1. Controllers \subseteq Kinds /\ ClusterScoped \subseteq Kinds
      /\ \A c \in Controllers : Wards(c) \subseteq Kinds
  BY Subsets, Parts DEF Wards
<1>2. \A e \in Events : left[e] <= Limits[e]
  BY TreeAssumption DEF Init
<1>3. NewsSafe
  BY <1>1, <1>2, AbsentFields DEF Init, NewsSafe, Exists
<1>4. \A c \in Controllers : ~Live(c)
  BY <1>1, AbsentFields DEF Init, Live, Exists
<1> QED
  BY <1>3, <1>4 DEF Wakeful

-----------------------------------------------------------------------------
(***************************************************************************)
(* Writes and what is reported of them.                                    *)
(***************************************************************************)

\* No write makes a ward without an owner, takes a cluster-scoped object away unless a
\* user removes it, or makes another binding unless one was made elsewhere.
Lawful(k, v) ==
  /\ \A c \in Controllers : k \in Wards(c) /\ v.uid # 0 => v.owner # 0
  /\ k \in ClusterScoped /\ Exists(k) /\ Never("childDelete")' => v.uid # 0
  /\ k = "crb" /\ Never("elsewhere")' /\ v.uid # 0 => v.for = "here"

\* An object as it is, but for finalizers, deletion and status, is lawful.
LEMMA SameLawful ==
  ASSUME TypeInv, NewsSafe, [Next]_vars, NEW k \in Kinds, NEW v, Exists(k), v.uid # 0,
         v.owner = store[k].owner, v.for = store[k].for
  PROVE  Lawful(k, v)
<1>1. Never("elsewhere")' => Never("elsewhere")
  BY NeverBack, EventNames DEF TypeInv
<1> QED
  BY <1>1 DEF NewsSafe, Lawful

\* So is the removal of one that is not cluster-scoped.
LEMMA AbsentLawful ==
  ASSUME NEW k \in Kinds, k \notin ClusterScoped
  PROVE  Lawful(k, Absent)
BY AbsentFields DEF Lawful, ClusterScoped

LEMMA PassLawful ==
  ASSUME TypeInv, Guarded, NewsSafe, [Next]_vars, NEW c \in Controllers, Pass(c) \/ ApiError(c)
  PROVE  UNCHANGED objects \/ \E k \in Kinds, v \in Versions : Put(k, v) /\ Lawful(k, v)
<1>1. c \in Kinds /\ c \notin ClusterScoped /\ store[c] \in Versions /\ PassSafe(c)
  BY Subsets DEF TypeInv, TypeOK, Guarded
<1>2. CASE Guards(c)
  <2> DEFINE v == [store[c] EXCEPT !.fin = TRUE]
  <2>1. v \in Versions /\ v.uid = store[c].uid /\ v.owner = store[c].owner /\ v.for = store[c].for
    BY <1>1 DEF Versions
  <2>2. Put(c, v) /\ store[c].uid # 0
    BY <1>1, <1>2 DEF Guards, PassSafe
  <2> HIDE DEF v
  <2> QED
    BY <1>1, <2>1, <2>2, SameLawful DEF Exists
<1>3. CASE Reports(c)
  <2>1. PICK s \in Status : Put(c, [store[c] EXCEPT !.status = s])
    BY <1>3 DEF Reports
  <2> DEFINE v == [store[c] EXCEPT !.status = s]
  <2>2. v \in Versions /\ v.uid = store[c].uid /\ v.owner = store[c].owner /\ v.for = store[c].for
    BY <1>1 DEF Versions
  <2>3. Put(c, v) /\ store[c].uid # 0
    BY <1>1, <1>3, <2>1 DEF Reports, PassSafe
  <2> HIDE DEF v
  <2> QED
    BY <1>1, <2>2, <2>3, SameLawful DEF Exists
<1>4. CASE Releases(c)
  <2> DEFINE v == [store[c] EXCEPT !.fin = FALSE]
  <2>1. v \in Versions /\ v.uid = store[c].uid /\ v.owner = store[c].owner /\ v.for = store[c].for
    BY <1>1 DEF Versions
  <2>2. Put(c, Settle(v)) /\ store[c].uid # 0
    BY <1>1, <1>4 DEF Releases, PassSafe
  <2> HIDE DEF v
  <2>3. CASE Settle(v) = v
    BY <1>1, <2>1, <2>2, <2>3, SameLawful DEF Exists
  <2>4. CASE Settle(v) = Absent
    BY <1>1, <2>2, <2>4, AbsentLawful, AbsentFields
  <2> QED
    BY <2>1, <2>3, <2>4, SettleFields
<1>5. CASE Creates(c)
  <2>1. PICK x \in Makes[c] : ~Exists(x) /\ Put(x, Made(c, x))
    BY <1>5 DEF Creates
  <2>2. x \in Kinds /\ work[c].uid # 0
    BY <1>1, <1>5, Parts DEF Creates, PassSafe
  <2> DEFINE v == Made(c, x)
  <2>3. /\ v \in Versions /\ v.owner = (IF x \in ClusterScoped THEN 0 ELSE work[c].uid)
        /\ v.for = (IF x = "crb" THEN "here" ELSE "none")
    BY <2>2, MadeFields
  <2>4. Put(x, v)
    BY <2>1
  <2> HIDE DEF v
  <2>5. Lawful(x, v)
    BY <2>1, <2>2, <2>3, Parts DEF Lawful, Wards
  <2> QED
    BY <2>2, <2>3, <2>4, <2>5
<1> QED
  BY <1>2, <1>3, <1>4, <1>5, PassWrites

LEMMA ClusterLawful ==
  ASSUME TypeInv, NewsSafe, [Next]_vars, NEW k \in Kinds, Cluster(k), NEW v \in Versions,
         Write(k, v), Outside(k, v)
  PROVE  Lawful(k, v)
<1>1. store'[k] = v
  BY PutFields DEF Write
<1>2. CASE Kept(k, v)
  BY <1>2, SameLawful DEF Kept, Exists
<1>3. CASE Gone(k, v)
  <2>1. CASE k \notin ClusterScoped
    BY <1>3, <2>1, AbsentLawful DEF Gone
  <2>2. CASE k \in ClusterScoped
    <3>1. k \notin Pods /\ k \notin Owned /\ k \notin {"dep", "nodeport"}
          /\ \A c \in Controllers : k \notin Wards(c)
      BY <2>2, Subsets, Parts DEF ClusterScoped, Pods, Owned, Wards
    <3>2. Exists(k) /\ k \notin Roots
      BY <1>3, <3>1, Subsets DEF Gone, Exists
    <3>3. UserDeleteChild(k)
      BY <3>1, <3>2 DEF Cluster, UserCreate, UserDelete, UserEdit, UserMakes, MadeElsewhere,
         Collect, FinishForeground
    <3>4. ~Never("childDelete")'
      BY <3>3, NeverBack, EventNames DEF UserDeleteChild, TypeInv
    <3>5. v.uid = 0
      BY <1>3, AbsentFields DEF Gone
    <3> QED
      BY <3>1, <3>4, <3>5 DEF Lawful
  <2> QED
    BY <2>1, <2>2
<1>4. CASE Born(k, v)
  <2>1. ~Exists(k) /\ store[k].owner = 0 /\ ~store[k].fg
    BY <1>4, AbsentFields DEF Born, Exists, TypeInv, AbsentSafe
  <2>2. UserCreate(k) \/ UserMakes(k) \/ MadeElsewhere(k)
    BY <2>1 DEF Cluster, UserDelete, UserEdit, UserDeleteChild, Collect, FinishForeground
  <2>3. CASE UserCreate(k) \/ UserMakes(k)
    <3>1. k \notin ClusterScoped /\ k # "crb" /\ \A c \in Controllers : k \notin Wards(c)
      BY <2>3, Subsets, ByHandNames DEF UserCreate, UserMakes, ByHand, Wards, ClusterScoped,
         Controllers
    <3> QED
      BY <3>1 DEF Lawful
  <2>4. CASE MadeElsewhere(k)
    <3>1. ~Never("elsewhere")' /\ k \in ClusterScoped
      BY <2>4, NeverBack, EventNames DEF MadeElsewhere, TypeInv
    <3>2. \A c \in Controllers : k \notin Wards(c)
      BY <3>1, Parts DEF Wards
    <3> QED
      BY <2>1, <3>1, <3>2 DEF Lawful
  <2> QED
    BY <2>2, <2>3, <2>4
<1> QED
  BY <1>2, <1>3, <1>4 DEF Outside

LEMMA DbPodLawful ==
  ASSUME TypeInv, NewsSafe, [Next]_vars, DbPodGuard \/ DbPodRelease, NEW v \in Versions,
         Write("dbpod", v), Outside("dbpod", v)
  PROVE  Lawful("dbpod", v)
<1>1. "dbpod" \in Kinds /\ "dbpod" \notin ClusterScoped
  BY DbPodWrite, Subsets DEF ClusterScoped
<1>2. Exists("dbpod")
  BY <1>1, AbsentFields DEF DbPodGuard, DbPodRelease, TypeInv, AbsentSafe, Exists
<1>3. CASE Kept("dbpod", v)
  BY <1>1, <1>2, <1>3, SameLawful DEF Kept
<1>4. CASE Gone("dbpod", v)
  BY <1>1, <1>4, AbsentLawful DEF Gone
<1> QED
  BY <1>2, <1>3, <1>4 DEF Outside, Born, Exists

-----------------------------------------------------------------------------
(***************************************************************************)
(* The news stay true.                                                     *)
(***************************************************************************)

LEMMA PutNews ==
  ASSUME TypeInv, NewsSafe, [Next]_vars, NEW k \in Kinds, NEW v \in Versions,
         Put(k, v), Lawful(k, v), seen' = seen
  PROVE  NewsSafe'
<1>1. /\ store'[k] = v /\ fresh' = fresh \ {k}
      /\ \A x \in Kinds : x # k => store'[x] = store[x]
  BY PutFields
<1>2. owed \subseteq owed' /\ owed' \subseteq owed \cup {k}
      /\ (store[k].owner # 0 \/ v.owner # 0 => k \in owed')
  BY DEF Put
<1>3. \A e \in Events : left'[e] <= Limits[e] /\ (Never(e)' => Never(e))
  BY NeverBack DEF TypeInv
<1>4. owed' \cap fresh' = {}
  BY <1>1, <1>2 DEF NewsSafe
<1>5. ASSUME NEW c \in Controllers, NEW x \in Wards(c)
      PROVE  /\ store'[x].uid # 0 => store'[x].owner # 0
             /\ seen[x].uid # 0 => store'[x].uid # 0 \/ x \in owed'
  <2>1. x \in Kinds
    BY Parts DEF Wards
  <2>2. /\ store[x].uid # 0 => store[x].owner # 0
        /\ seen[x].uid # 0 => store[x].uid # 0 \/ x \in owed
    BY DEF NewsSafe, Exists
  <2>3. CASE x # k
    BY <1>1, <1>2, <2>1, <2>2, <2>3
  <2>4. CASE x = k
    BY <1>1, <1>2, <2>2, <2>4 DEF Lawful
  <2> QED
    BY <2>3, <2>4
<1>6. ASSUME NEW x \in ClusterScoped, Never("childDelete")', seen[x].uid # 0
      PROVE  store'[x].uid # 0
  <2>1. x \in Kinds /\ Exists(x)
    BY <1>3, <1>6, Subsets, EventNames DEF NewsSafe
  <2> QED
    BY <1>1, <1>6, <2>1 DEF Lawful, Exists
<1>7. ASSUME NEW x \in {"crb"} \cap Kinds, Never("elsewhere")', store'[x].uid # 0
      PROVE  store'[x].for = "here"
  <2>1. Never("elsewhere")
    BY <1>3, <1>7, EventNames
  <2> QED
    BY <1>1, <1>7, <2>1 DEF NewsSafe, Lawful, Exists
<1> QED
  BY <1>3, <1>4, <1>5, <1>6, <1>7 DEF NewsSafe, Exists

LEMMA NewsStep ==
  ASSUME TypeInv, Guarded, NewsSafe, [Next]_vars
  PROVE  NewsSafe'
<1>1. \A e \in Events : left'[e] <= Limits[e] /\ (Never(e)' => Never(e))
  BY NeverBack DEF TypeInv
<1>2. ASSUME UNCHANGED objects, seen' = seen PROVE NewsSafe'
  BY <1>1, <1>2, EventNames DEF objects, NewsSafe, Exists
<1>3. CASE \E c \in Controllers : Pass(c) \/ ApiError(c)
  BY <1>2, <1>3, PassLawful, PassWrites, PutNews
<1>4. ASSUME NEW k \in Kinds, Cluster(k) PROVE NewsSafe'
  BY <1>4, OutsideWrite, ClusterLawful, PutNews DEF Write
<1>5. CASE DbPodGuard \/ DbPodRelease
  BY <1>5, DbPodWrite, DbPodLawful, PutNews DEF Write
<1>6. ASSUME NEW y \in Kinds, Deliver(y) PROVE NewsSafe'
  <2>1. /\ store' = store /\ fresh' = fresh \cup {y} /\ owed' = owed \ {y}
        /\ seen'[y] = Copy(store[y]) /\ \A x \in Kinds : x # y => seen'[x] = seen[x]
    BY <1>6 DEF Deliver, TypeInv, TypeOK
  <2>2. Copy(store[y]).uid = store[y].uid
    BY CopyFields DEF TypeInv, TypeOK
  <2>3. ASSUME NEW c \in Controllers, NEW x \in Wards(c)
        PROVE  /\ store[x].uid # 0 => store[x].owner # 0
               /\ seen'[x].uid # 0 => store[x].uid # 0 \/ x \in owed'
    <3>1. x \in Kinds
      BY Parts DEF Wards
    <3> QED
      BY <2>1, <2>2, <3>1 DEF NewsSafe, Exists
  <2>4. ASSUME NEW x \in ClusterScoped, Never("childDelete")', seen'[x].uid # 0
        PROVE  store[x].uid # 0
    <3>1. x \in Kinds /\ Never("childDelete")
      BY <1>1, <2>4, Subsets, EventNames
    <3> QED
      BY <2>1, <2>2, <2>4, <3>1 DEF NewsSafe, Exists
  <2>5. owed' \cap fresh' = {}
    BY <2>1 DEF NewsSafe
  <2>6. \A x \in {"crb"} \cap Kinds : Never("elsewhere")' /\ store[x].uid # 0 => store[x].for = "here"
    BY <1>1, EventNames DEF NewsSafe, Exists
  <2> QED
    BY <1>1, <2>1, <2>3, <2>4, <2>5, <2>6 DEF NewsSafe, Exists
<1>7. CASE Restart
  <2>1. store' = store /\ owed' = {} /\ seen' = [x \in Kinds |-> Copy(store[x])]
    BY <1>7 DEF Restart
  <2>2. \A x \in Kinds : seen'[x].uid = store[x].uid
    BY <2>1, CopyFields DEF TypeInv, TypeOK
  <2>3. ClusterScoped \subseteq Kinds /\ \A c \in Controllers : Wards(c) \subseteq Kinds
    BY Subsets, Parts DEF Wards
  <2>4. \A x \in {"crb"} \cap Kinds : Never("elsewhere")' /\ store[x].uid # 0 => store[x].for = "here"
    BY <1>1, EventNames DEF NewsSafe, Exists
  <2> QED
    BY <1>1, <2>1, <2>2, <2>3, <2>4 DEF NewsSafe, Exists
<1>8. CASE UNCHANGED vars
  BY <1>2, <1>8 DEF vars
<1> QED
  BY <1>3, <1>4, <1>5, <1>6, <1>7, <1>8 DEF Next

-----------------------------------------------------------------------------
(***************************************************************************)
(* The steps of others.                                                    *)
(***************************************************************************)

\* What was done is not undone while the objects stay.
LEMMA SameThere ==
  ASSUME TypeInv, NewsSafe, [Next]_vars
  PROVE  /\ \A x \in Kinds : store'[x] = store[x] /\ There(x) => There(x)'
         /\ \A c \in Controllers : store'[c] = store[c] /\ Reported(c) => Reported(c)'
<1>1. \A e \in Events : Never(e)' => Never(e)
  BY NeverBack DEF TypeInv
<1> QED
  BY <1>1, EventNames DEF There, Reported, Exists

\* A pass that stays where it is leaves as little to be done.
LEMMA SamePassLast ==
  ASSUME TypeInv, NewsSafe, [Next]_vars, NEW c \in Controllers, PassLast(c),
         work'[c] = work[c], store'[c] = store[c],
         \A x \in Makes[c] : There(x) => There(x)'
  PROVE  PassLast(c)'
<1>1. Never("swallow")' => Never("swallow")
  BY NeverBack, EventNames DEF TypeInv
<1>2. c \in Kinds /\ (Reported(c) => Reported(c)')
  BY SameThere, Subsets
<1> QED
  BY <1>1, <1>2 DEF PassLast

\* A write of another object leaves nothing undone for c, unless c is to hear of it.
LEMMA PutAside ==
  ASSUME TypeInv, NewsSafe, [Next]_vars, NEW c \in Controllers,
         NEW k \in Kinds, NEW v \in Versions, Put(k, v), Lawful(k, v),
         c \in queued' <=> c \in queued, work'[c] = work[c],
         Live(c) /\ ~Awake(c) => PassLast(c)
  PROVE  Live(c)' /\ ~Awake(c)' => PassLast(c)'
<1> SUFFICES ASSUME Live(c)', ~Awake(c)' PROVE PassLast(c)'
  OBVIOUS
<1>1. /\ store'[k] = v /\ fresh' = fresh \ {k}
      /\ \A x \in Kinds : x # k => store'[x] = store[x]
  BY PutFields
<1>2. owed \subseteq owed' /\ (store[k].owner # 0 \/ v.owner # 0 => k \in owed')
  BY DEF Put
<1>3. c \in Kinds /\ Makes[c] \subseteq Kinds /\ PartsOf[c] = Makes[c] \ ClusterScoped
  BY Subsets, Parts
<1>4. c \in fresh' /\ c # k
  BY <1>1 DEF Awake
<1>5. store'[c] = store[c]
  BY <1>1, <1>3, <1>4
<1>6. Live(c) /\ ~Awake(c)
  BY <1>1, <1>2, <1>4, <1>5 DEF Live, Exists, Awake
<1>7. Never("childDelete")' => Never("childDelete")
  BY NeverBack, EventNames DEF TypeInv
<1>8. ASSUME NEW x \in Makes[c], There(x) PROVE There(x)'
  <2>1. CASE x # k
    BY <1>1, <1>3, <1>8, <2>1, SameThere
  <2>2. CASE x = k /\ x \in Wards(c) /\ Exists(x)
    <3>1. store[k].owner # 0
      BY <2>2 DEF NewsSafe
    <3>2. k \in PartsOf[c] \cap owed'
      BY <1>2, <2>2, <3>1 DEF Wards
    <3> QED
      BY <3>2 DEF Awake
  <2>3. CASE x = k /\ x \in ClusterScoped /\ Exists(x)
    BY <1>1, <2>3 DEF Lawful, There, Exists
  <2>4. CASE x \in Roots \/ (x \in ClusterScoped /\ ~Never("childDelete"))
    BY <1>7, <2>4 DEF There
  <2> QED
    BY <1>3, <1>8, <2>1, <2>2, <2>3, <2>4 DEF There, Wards
<1> QED
  BY <1>5, <1>6, <1>8, SamePassLast

\* A pass queues no other object than its own.
LEMMA PassQueue ==
  ASSUME NEW c \in Controllers, NEW d \in Controllers, d # c, Pass(d) \/ ApiError(d)
  PROVE  c \in queued' <=> c \in queued
<1>1. Retry(d) => (c \in queued' <=> c \in queued)
  BY DEF Retry
<1>2. CASE StartPass(d)
  <2>1. queued' = queued \ {d}
    BY <1>2 DEF StartPass
  <2> QED
    BY <2>1
<1>3. CASE AddFinalizer(d) \/ Release(d) \/ DeleteExternalResources(d) \/ ApiError(d)
  BY <1>1, <1>3 DEF AddFinalizer, Release, DeleteExternalResources, ApiError
<1>4. CASE NameStatus(d) \/ InitiateStatus(d)
  BY <1>4 DEF NameStatus, InitiateStatus, StatusUpdate
<1>5. CASE Ensure(d)
  BY <1>1, <1>5 DEF Ensure, Create
<1> QED
  BY <1>2, <1>3, <1>4, <1>5 DEF Pass

\* When nothing that concerns c happens, nothing is to be done for it.
LEMMA SameWakeful ==
  ASSUME TypeInv, NewsSafe, [Next]_vars, NEW c \in Controllers,
         UNCHANGED objects, c \in queued' <=> c \in queued, work'[c] = work[c],
         Live(c) /\ ~Awake(c) => PassLast(c)
  PROVE  Live(c)' /\ ~Awake(c)' => PassLast(c)'
<1>1. store' = store /\ fresh' = fresh /\ owed' = owed
  BY DEF objects
<1>2. Makes[c] \subseteq Kinds
  BY Parts
<1>3. \A x \in Makes[c] : There(x) => There(x)'
  BY <1>1, <1>2, SameThere
<1>4. (Live(c)' => Live(c)) /\ (~Awake(c)' => ~Awake(c))
  BY <1>1 DEF Live, Awake, Exists
<1> QED
  BY <1>1, <1>3, <1>4, SamePassLast

LEMMA AsideWakeful ==
  ASSUME TypeInv, Guarded, NewsSafe, [Next]_vars, NEW c \in Controllers,
         NEW d \in Controllers, d # c, Pass(d) \/ ApiError(d),
         Live(c) /\ ~Awake(c) => PassLast(c)
  PROVE  Live(c)' /\ ~Awake(c)' => PassLast(c)'
<1>1. (c \in queued' <=> c \in queued) /\ work'[c] = work[c]
  BY PassQueue, PassWrites
<1>2. UNCHANGED objects \/ \E k \in Kinds, v \in Versions : Put(k, v) /\ Lawful(k, v)
  BY PassLawful
<1> QED
  BY <1>1, <1>2, PutAside, SameWakeful

LEMMA WriteWakeful ==
  ASSUME TypeInv, NewsSafe, [Next]_vars, NEW c \in Controllers,
         NEW k \in Kinds, NEW v \in Versions, Write(k, v), Lawful(k, v),
         Live(c) /\ ~Awake(c) => PassLast(c)
  PROVE  Live(c)' /\ ~Awake(c)' => PassLast(c)'
<1>1. Put(k, v) /\ work' = Outdate(k) /\ queued' = queued
  BY DEF Write
<1>2. CASE k = c
  <2>1. c \notin fresh'
    BY <1>1, <1>2, PutFields
  <2> QED
    BY <2>1 DEF Awake
<1>3. CASE k # c
  <2>1. work'[c] = work[c]
    BY <1>1, <1>3 DEF Outdate
  <2> QED
    BY <1>1, <2>1, PutAside
<1> QED
  BY <1>2, <1>3

LEMMA DeliverWakeful ==
  ASSUME TypeInv, NewsSafe, [Next]_vars, NEW c \in Controllers, NEW y \in Kinds, Deliver(y),
         Live(c) /\ ~Awake(c) => PassLast(c)
  PROVE  Live(c)' /\ ~Awake(c)' => PassLast(c)'
<1> SUFFICES ASSUME Live(c)', ~Awake(c)' PROVE PassLast(c)'
  OBVIOUS
<1>1. /\ store' = store /\ work' = work /\ fresh' = fresh \cup {y} /\ owed' = owed \ {y}
      /\ queued' = queued \cup {d \in Controllers : Wakes(d, y)}
  BY DEF Deliver
<1>2. c # y /\ y \notin PartsOf[c] \cap owed /\ c \notin queued
  BY <1>1 DEF Awake, Wakes, Watched
<1>3. Live(c) /\ ~Awake(c)
  BY <1>1, <1>2 DEF Live, Awake, Exists
<1>4. \A x \in Makes[c] : There(x) => There(x)'
  BY <1>1, SameThere, Parts
<1> QED
  BY <1>1, <1>3, <1>4, SamePassLast

LEMMA RestartWakeful ==
  ASSUME Restart, NEW c \in Controllers, Live(c)'
  PROVE  Awake(c)'
<1>1. Exists(c) /\ c \in queued'
  BY DEF Restart, Live, Exists
<1> QED
  BY <1>1 DEF Awake

-----------------------------------------------------------------------------
(***************************************************************************)
(* A controller's own pass.                                                *)
(***************************************************************************)

LEMMA StartWakeful ==
  ASSUME TypeInv, Guarded, NewsSafe, [Next]_vars, NEW c \in Controllers, StartPass(c),
         Live(c)', ~Awake(c)'
  PROVE  PassLast(c)'
<1>1. /\ c \in Kinds /\ store[c] \in Versions /\ seen[c] \in Versions
      /\ work \in [Controllers -> Passes]
  BY Subsets DEF TypeInv, TypeOK
<1>2. store' = store /\ fresh' = fresh
  BY DEF StartPass, objects
<1>3. c \in fresh /\ store[c].uid # 0 /\ ~store[c].del
  BY <1>2 DEF Awake, Live, Exists
<1>4. seen[c].uid # 0 /\ ~seen[c].del
  BY <1>1, <1>3, CopyFields DEF Guarded, CopyFresh
<1>5. PICK step \in {"finalizer", StatusStep(c, seen[c].status)} :
        work' = [work EXCEPT ![c] = [pc |-> step, todo |-> MakeOrder[c], uid |-> seen[c].uid,
                                     status |-> seen[c].status, latest |-> c \in fresh]]
  <2>1. CASE seen[c].fin
    BY <1>4, <2>1 DEF StartPass
  <2>2. CASE ~seen[c].fin
    BY <1>4, <2>2 DEF StartPass
  <2> QED
    BY <2>1, <2>2
<1>6. /\ work'[c].pc = step /\ work'[c].todo = MakeOrder[c]
      /\ work'[c].latest <=> c \in fresh
  BY <1>1, <1>5
<1>7. /\ work'[c].pc \in {"finalizer", "name", "initiate", "ensure"}
      /\ work'[c].pc = "ensure" => c \notin Reporting
  BY <1>5, <1>6 DEF StatusStep
<1>8. InOrder(work'[c].todo) = Makes[c]
  BY <1>6 DEF Makes
<1> QED
  BY <1>3, <1>6, <1>7, <1>8 DEF PassLast, Reported

LEMMA ReportWakeful ==
  ASSUME TypeInv, NewsSafe, [Next]_vars, NEW c \in Controllers,
         NameStatus(c) \/ InitiateStatus(c),
         Live(c) /\ ~Awake(c) => PassLast(c), Live(c)', ~Awake(c)'
  PROVE  PassLast(c)'
<1>1. c \in Kinds /\ work \in [Controllers -> Passes] /\ work[c] \in Passes /\ store[c] \in Versions
  BY Subsets DEF TypeInv, TypeOK
<1>2. ~(\E v : Put(c, v))
  BY <1>1, PutFields DEF Awake
<1>3. PICK s \in Status, step \in {"initiate", "ensure"} :
        /\ StatusUpdate(c, s, step) /\ work[c].pc \in {"name", "initiate"}
        /\ step = "ensure" => s = "Initiating"
  BY DEF NameStatus, InitiateStatus, Status
<1> DEFINE stored == [store[c] EXCEPT !.status = s]
<1>4. /\ UNCHANGED objects /\ queued' = queued
      /\ work' = [work EXCEPT ![c].pc = step, ![c].status = s, ![c].latest = work[c].latest]
      /\ Spend("swallow") \/ (work[c].latest => stored = store[c])
  BY <1>2, <1>3 DEF StatusUpdate
<1>5. stored.status = s
  BY <1>1 DEF Versions
<1> HIDE DEF stored
<1>6. work'[c].pc = step /\ work'[c].todo = work[c].todo /\ work'[c].latest = work[c].latest
  BY <1>1, <1>4 DEF Passes
<1>7. store' = store /\ Live(c) /\ ~Awake(c)
  BY <1>4 DEF objects, Live, Awake, Exists
<1>8. /\ \A x \in Makes[c] \ InOrder(work[c].todo) : There(x)
      /\ Never("swallow") => work[c].latest
  BY <1>3, <1>7 DEF PassLast, Making
<1>9. \A x \in Makes[c] \ InOrder(work'[c].todo) : There(x)'
  BY <1>6, <1>7, <1>8, SameThere, Parts
<1>10. Never("swallow")' => Never("swallow") /\ ~Spend("swallow")
  BY NeverBack, EventNames DEF TypeInv
<1>11. step = "ensure" => Reported(c)'
  BY <1>3, <1>4, <1>5, <1>7, <1>8, <1>10 DEF Reported
<1> QED
  BY <1>3, <1>6, <1>8, <1>9, <1>10, <1>11 DEF PassLast, Making

LEMMA EnsureWakeful ==
  ASSUME TypeInv, Guarded, NewsSafe, [Next]_vars, NEW c \in Controllers, Ensure(c),
         Live(c) /\ ~Awake(c) => PassLast(c), Live(c)', ~Awake(c)'
  PROVE  PassLast(c)'
<1>1. c \in Kinds /\ work \in [Controllers -> Passes] /\ work[c] \in Passes /\ PassSafe(c)
  BY Subsets DEF TypeInv, TypeOK, Guarded
<1>2. work[c].pc = "ensure" /\ work[c].pc \in Making
  BY DEF Ensure, Making
<1>3. PICK x \in Makes[c], s \in Seq(Kinds) :
        s = work[c].todo /\ s # <<>> /\ x = Head(s) /\ x \in Kinds /\ x # c
  BY <1>1, <1>2, TodoStep, Parts DEF Passes
<1>4. InOrder(s) \subseteq {x} \cup InOrder(Tail(s)) /\ (Len(s) = 1 => InOrder(s) \subseteq {x})
  <2>1. Len(s) = 1 => InOrder(s) \subseteq {x}
    BY <1>3 DEF InOrder
  <2> QED
    BY <1>3, <2>1, InTail
<1>5. (seen[x].uid # 0 /\ Advance(c) /\ UNCHANGED <<objects, queued, left>>) \/ Create(c, x)
  BY <1>3 DEF Ensure
<1>6. ~Retry(c)
  BY DEF Awake, Retry
<1>7. \/ seen[x].uid # 0 /\ UNCHANGED objects
      \/ ~Exists(x) /\ Put(x, Made(c, x))
  BY <1>5, <1>6 DEF Create
<1>8. Advance(c) /\ queued' = queued
  BY <1>5, <1>6 DEF Create
<1>9. \A y \in Kinds : y # x => store'[y] = store[y]
  BY <1>3, <1>7, PutFields DEF objects
<1>10. /\ store'[c] = store[c] /\ owed \subseteq owed' /\ fresh' \subseteq fresh
  BY <1>1, <1>3, <1>7, <1>9 DEF objects, Put
<1>11. Live(c) /\ ~Awake(c)
  BY <1>8, <1>10 DEF Live, Awake, Exists
<1>12. /\ \A y \in Makes[c] \ InOrder(s) : There(y)
       /\ Reported(c)
  BY <1>2, <1>3, <1>11 DEF PassLast
<1>13. There(x)'
  <2>1. CASE Put(x, Made(c, x))
    <3>1. store'[x].uid # 0
      <4>1. Made(c, x).uid # 0
        BY <1>3, MadeFields
      <4>2. store'[x] = Made(c, x)
        BY <1>3, <2>1, PutFields
      <4> QED
        BY <4>1, <4>2
    <3> QED
      BY <3>1 DEF There, Exists
  <2>2. CASE seen[x].uid # 0 /\ UNCHANGED objects
    <3>1. x \in Wards(c) => Exists(x)
      <4>1. x \in Wards(c) => x \in PartsOf[c] /\ (Exists(x) \/ x \in owed)
        BY <2>2 DEF NewsSafe, Wards
      <4> QED
        BY <1>11, <4>1 DEF Awake
    <3>2. x \in ClusterScoped /\ Never("childDelete") => Exists(x)
      BY <2>2 DEF NewsSafe
    <3>3. There(x)
      BY <1>3, <3>1, <3>2, Parts DEF There, Wards
    <3>4. store'[x] = store[x]
      BY <2>2 DEF objects
    <3> QED
      BY <1>3, <3>3, <3>4, SameThere
  <2> QED
    BY <1>7, <2>1, <2>2
<1>14. \A y \in Makes[c] : y = x \/ There(y) => There(y)'
  BY <1>9, <1>13, SameThere, Parts
<1>15. Reported(c)'
  BY <1>10, <1>12, SameThere
<1>16. CASE Len(s) = 1
  <2>1. work'[c] = Idle
    BY <1>1, <1>3, <1>8, <1>16 DEF Advance, EndPass
  <2>2. store'[c].fin
    BY <1>1, <1>2, <1>10 DEF PassSafe
  <2>3. \A y \in Makes[c] : There(y)'
    BY <1>4, <1>12, <1>14, <1>16
  <2> QED
    BY <1>15, <2>1, <2>2, <2>3, IdleFields DEF PassLast, Making
<1>17. CASE Len(s) # 1
  <2>1. work'[c].pc = "ensure" /\ work'[c].todo = Tail(s)
    BY <1>1, <1>2, <1>3, <1>8, <1>17 DEF Advance, Passes
  <2>2. \A y \in Makes[c] \ InOrder(Tail(s)) : There(y)'
    BY <1>4, <1>12, <1>14
  <2> QED
    BY <1>15, <2>1, <2>2 DEF PassLast
<1> QED
  BY <1>16, <1>17

LEMMA OwnWakeful ==
  ASSUME TypeInv, Guarded, NewsSafe, [Next]_vars, NEW c \in Controllers, Pass(c) \/ ApiError(c),
         Live(c) /\ ~Awake(c) => PassLast(c), Live(c)', ~Awake(c)'
  PROVE  PassLast(c)'
<1>1. ~Retry(c) /\ ~(\E v : Put(c, v))
  BY PutFields, Subsets DEF Awake, Retry
<1>2. ~AddFinalizer(c) /\ ~Release(c) /\ ~ApiError(c)
  BY <1>1 DEF AddFinalizer, Release, ApiError
<1>3. ~DeleteExternalResources(c)
  <2> SUFFICES ASSUME DeleteExternalResources(c) PROVE FALSE
    OBVIOUS
  <2>1. UNCHANGED objects /\ queued' = queued /\ work[c].pc = "delete"
    BY <1>1 DEF DeleteExternalResources
  <2>2. Live(c) /\ ~Awake(c)
    BY <2>1 DEF objects, Live, Awake, Exists
  <2> QED
    BY <2>1, <2>2 DEF PassLast
<1> QED
  BY <1>2, <1>3, StartWakeful, ReportWakeful, EnsureWakeful DEF Pass

-----------------------------------------------------------------------------
LEMMA WakefulStep == TypeInv /\ Guarded /\ Wakeful /\ [Next]_vars => Wakeful'
<1> SUFFICES ASSUME TypeInv, Guarded, Wakeful, [Next]_vars PROVE Wakeful'
  OBVIOUS
<1>1. NewsSafe /\ NewsSafe'
  BY NewsStep DEF Wakeful
<1> SUFFICES ASSUME NEW c \in Controllers PROVE Live(c)' /\ ~Awake(c)' => PassLast(c)'
  BY <1>1 DEF Wakeful
<1>2. Live(c) /\ ~Awake(c) => PassLast(c)
  BY DEF Wakeful
<1>3. ASSUME NEW d \in Controllers, Pass(d) \/ ApiError(d)
      PROVE  Live(c)' /\ ~Awake(c)' => PassLast(c)'
  <2>1. CASE d = c
    BY <1>1, <1>2, <1>3, <2>1, OwnWakeful
  <2>2. CASE d # c
    BY <1>1, <1>2, <1>3, <2>2, AsideWakeful
  <2> QED
    BY <2>1, <2>2
<1>4. ASSUME NEW k \in Kinds, Cluster(k) PROVE Live(c)' /\ ~Awake(c)' => PassLast(c)'
  BY <1>1, <1>2, <1>4, OutsideWrite, ClusterLawful, WriteWakeful
<1>5. CASE DbPodGuard \/ DbPodRelease
  BY <1>1, <1>2, <1>5, DbPodWrite, DbPodLawful, WriteWakeful
<1>6. ASSUME NEW y \in Kinds, Deliver(y) PROVE Live(c)' /\ ~Awake(c)' => PassLast(c)'
  BY <1>1, <1>2, <1>6, DeliverWakeful
<1>7. CASE Restart
  BY <1>7, RestartWakeful
<1>8. CASE UNCHANGED vars
  BY <1>1, <1>2, <1>8, SameWakeful DEF vars
<1> QED
  BY <1>3, <1>4, <1>5, <1>6, <1>7, <1>8 DEF Next

LEMMA QuietFollows == TypeInv /\ Wakeful => QuietGrown
<1> SUFFICES ASSUME TypeInv, Wakeful, Quiet, NEW c \in Controllers, Live(c)
             PROVE  /\ store[c].fin
                    /\ \A x \in Children(c) \ Roots :
                         x \notin ClusterScoped \/ left["childDelete"] = Limits["childDelete"]
                           => Exists(x)
                    /\ c = "ext" /\ left["elsewhere"] = Limits["elsewhere"]
                         => \A x \in Children(c) \cap {"crb"} : Exists(x) => store[x].for = "here"
                    /\ c \in Reporting /\ left["swallow"] = Limits["swallow"]
                         => store[c].status = "Initiating"
  BY DEF QuietGrown
<1>1. owed = {}
  BY DEF Quiet, Wakeful, NewsSafe, TypeInv, TypeOK
<1>2. ~Awake(c) /\ work[c].pc = "idle"
  BY <1>1, Subsets DEF Quiet, Awake
<1>3. store[c].fin /\ Reported(c) /\ \A x \in Makes[c] : There(x)
  BY <1>2 DEF Wakeful, PassLast
<1>4. Children(c) \subseteq Makes[c] /\ Children(c) \subseteq Kinds
  BY Orders, Subsets DEF Children
<1>5. \A x \in {"crb"} \cap Kinds : Never("elsewhere") /\ Exists(x) => store[x].for = "here"
  BY DEF Wakeful, NewsSafe
<1> QED
  BY <1>3, <1>4, <1>5 DEF There, Reported, Never

\* No wake-up is missing across the queues of the three controllers: when all is quiet,
\* every object that is not being deleted has its finalizer, its status, and its children
\* but those of a kind that users make themselves, whatever users, the garbage collector,
\* the other controllers, errors and crashes did, and however notifications and passes
\* were interleaved.
THEOREM QuietIsGrown == Spec => []QuietGrown
<1>1. Init => Wakeful
  BY WakefulInit
<1>2. TypeInv /\ Guarded /\ Wakeful /\ [Next]_vars => Wakeful'
  BY WakefulStep
<1>3. TypeInv /\ Wakeful => QuietGrown
  BY QuietFollows
<1> QED
  BY <1>1, <1>2, <1>3, AlwaysGuarded, PTL DEF Spec
=============================================================================
