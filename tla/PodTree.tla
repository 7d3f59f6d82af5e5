------------------------------ MODULE PodTree ------------------------------
(***************************************************************************)
(* The tree a CorePod grows: its CoreExt with the permission objects, and  *)
(* its OrgPod with the DbPod.  The CorePod, CoreExt and OrgPod controllers *)
(* of src/internal/controller run side by side in one manager, each with a *)
(* queue and one worker, and share the informer cache; they meet only in   *)
(* the objects, and so does the garbage collector.                         *)
(*                                                                         *)
(* One namespace and one CorePod name are followed: there is one object of *)
(* each kind, named by its kind.  The ClusterRole and the                  *)
(* ClusterRoleBinding have no namespace, so a CoreExt of the same name in  *)
(* another namespace uses the same two.  The DbPod is here what module     *)
(* Lifecycle says of it.  Caches, refused writes and merged notifications  *)
(* are as in DbPod.                                                        *)
(***************************************************************************)
EXTENDS Naturals, Sequences

CONSTANTS
  Kinds,   \* the objects followed
  Roots,   \* those of them that users make themselves
  Foreground, \* bound: those that users also delete in the foreground
  Limits   \* bound: how often each disturbance in Events happens

AllKinds == {"core", "ext", "org", "dbpod", "sa", "role", "rb", "crole", "crb",
             "dep", "nodeport"}

\* Disturbances: users create, delete and edit custom objects, and delete others; the
\* Deployment and the Service no controller makes are made by hand; a CoreExt of the
\* same name elsewhere makes the cluster-scoped objects; a request fails with an
\* error that is returned or with one that is ignored; the manager crashes.
Events == {"create", "delete", "edit", "childDelete", "byHand", "elsewhere",
           "error", "swallow", "crash"}

Controllers == Kinds \cap {"core", "ext", "org"}
Pods == Kinds \cap {"core", "ext", "org", "dbpod"}
ClusterScoped == Kinds \cap {"crole", "crb"}

ASSUME TreeAssumption ==
  /\ Kinds \subseteq AllKinds
  /\ Roots \subseteq Kinds \cap {"core", "ext", "org"}
  /\ Foreground \subseteq Pods
  /\ Limits \in [Events -> Nat]

\* The step for object k, if it is followed; the steps for others are left out.
Followed(k) == IF k \in Kinds THEN <<k>> ELSE <<>>

\* Mutant of MakeOrder: the call of reconcileCRB is left out.
MakeOrderShort ==
  [c \in Controllers |->
     CASE c = "core" -> Followed("ext") \o Followed("org")
       [] c = "org"  -> Followed("dbpod")
       [] c = "ext"  -> Followed("sa") \o Followed("role") \o Followed("rb") \o Followed("crole")]

\* The objects a pass of Reconcile gets or creates, in its order.
MakeOrder ==
  [c \in Controllers |->
     CASE c = "core" -> Followed("ext") \o Followed("org")
       [] c = "org"  -> Followed("dbpod")
       [] c = "ext"  -> Followed("sa") \o Followed("role") \o Followed("rb")
                          \o Followed("crole") \o Followed("crb")]

\* Mutant of CheckOrder: the finalizer of an OrgPod looks up its DbPod only.
CheckOrderDbPod ==
  [c \in Controllers |->
     CASE c = "core" -> Followed("ext")
       [] c = "org"  -> Followed("dbpod")
       [] c = "ext"  -> Followed("rb") \o Followed("crb") \o Followed("role")
                          \o Followed("crole") \o Followed("sa")]

\* Mutant of CheckOrder: the look-up of the RoleBinding asks for another name.
CheckOrderMisnamed ==
  [c \in Controllers |->
     CASE c = "core" -> Followed("ext")
       [] c = "org"  -> Followed("dep") \o Followed("nodeport") \o Followed("dbpod")
       [] c = "ext"  -> <<"misnamed">> \o Followed("crb") \o Followed("role")
                          \o Followed("crole") \o Followed("sa")]

\* The objects deleteExternalResources looks up, in its order.
CheckOrder ==
  [c \in Controllers |->
     CASE c = "core" -> Followed("ext")
       [] c = "org"  -> Followed("dep") \o Followed("nodeport") \o Followed("dbpod")
       [] c = "ext"  -> Followed("rb") \o Followed("crb") \o Followed("role")
                          \o Followed("crole") \o Followed("sa")]

\* Of what a controller makes at least one object is followed.
ASSUME FollowedAssumption == \A c \in Controllers : MakeOrder[c] # <<>>

InOrder(order) == {order[i] : i \in DOMAIN order}
Makes == [c \in Controllers |-> InOrder(MakeOrder[c])]

\* What a controller makes with an owner reference, and the maker of each object.
PartsOf == [c \in Controllers |-> Makes[c] \ ClusterScoped]
Owned == UNION {PartsOf[c] : c \in Controllers}
Maker(x) == CHOOSE c \in Controllers : x \in Makes[c]

\* Kinds an OrgPod watches without making any: Deployment and Service.
WatchedBesides == [c \in Controllers |-> IF c = "org" THEN Kinds \cap {"dep", "nodeport"} ELSE {}]

\* Mutant of Watched: Owns(&webappv1.OrgPod{}) is left out.
WatchedWithoutOrg == [c \in Controllers |-> (PartsOf[c] \cup WatchedBesides[c]) \ {"org"}]

\* SetupWithManager: the kinds whose notifications queue the owner.  The Deployment and
\* the Service made by hand have none.
Watched == [c \in Controllers |-> PartsOf[c] \cup WatchedBesides[c]]

\* Controllers that keep a status, and how far it has got.
Reporting == Controllers \cap {"core", "org"}
Status == {"", "named", "Initiating"}

\* An object as the API server stores it.  uid 0: there is none.  owner is the uid in
\* its owner reference; for is the namespace named in the subject of a cluster role
\* binding; fg is the finalizer of a deletion in the foreground.
Versions == [uid : Nat, owner : Nat, fin : BOOLEAN, fg : BOOLEAN, del : BOOLEAN,
             status : Status, for : {"none", "here", "elsewhere"}]

Absent == [uid |-> 0, owner |-> 0, fin |-> FALSE, fg |-> FALSE, del |-> FALSE,
           status |-> "", for |-> "none"]

Pcs == {"idle", "finalizer", "name", "initiate", "ensure", "delete"}

\* The pass of a worker: where it is, the objects before it, the uid and the status of
\* its copy, and whether that copy is the latest version.
Passes == [pc : Pcs, todo : Seq(Kinds), uid : Nat, status : Status, latest : BOOLEAN]

VARIABLES
  store,  \* the objects in the API server
  seen,   \* the informers' copies of them
  fresh,  \* objects whose copy is the latest version
  owed,   \* objects of which a version with an owner is still to be reported
  queued, \* controllers with the object in their queue
  work,   \* the pass of each controller's worker
  left    \* disturbances that may still happen

objects == <<store, fresh, owed>>
vars == <<objects, seen, queued, work, left>>

Idle == [pc |-> "idle", todo |-> <<>>, uid |-> 0, status |-> "", latest |-> FALSE]

TypeOK ==
  /\ store \in [Kinds -> Versions]
  /\ seen \in [Kinds -> Versions]
  /\ fresh \subseteq Kinds
  /\ owed \subseteq Kinds
  /\ queued \subseteq Controllers
  /\ work \in [Controllers -> Passes]
  /\ left \in [Events -> Nat]

Init ==
  /\ store = [k \in Kinds |-> Absent]
  /\ seen = [k \in Kinds |-> Absent]
  /\ fresh = Kinds
  /\ owed = {}
  /\ queued = {}
  /\ work = [c \in Controllers |-> Idle]
  /\ left = Limits

Exists(k) == store[k].uid # 0
Spend(e) == left[e] > 0 /\ left' = [left EXCEPT ![e] = @ - 1]

\* The API server forgets an object being deleted when its last finalizer goes.
Settle(v) == IF v.del /\ ~v.fin /\ ~v.fg THEN Absent ELSE v

\* A uid no copy and no owner reference mentions: only equality with those counts, so
\* numbers no longer in use come back.
UidsInUse(k) ==
  {store[k].uid, seen[k].uid}
    \cup (IF k \in Controllers
          THEN {work[k].uid} \cup UNION {{store[x].owner, seen[x].owner} : x \in PartsOf[k]}
          ELSE {})
NewUid(k) == CHOOSE u \in 1..10 : u \notin UidsInUse(k) /\ 1..(u-1) \subseteq UidsInUse(k)

\* Object k is written: its cached copy is no longer the latest.
Put(k, v) ==
  /\ store' = [store EXCEPT ![k] = v]
  /\ fresh' = fresh \ {k}
  /\ owed' = IF {store[k].owner, v.owner} = {0} THEN owed ELSE owed \cup {k}

\* Workers' copies of k that are no longer the latest.
Outdate(k) == [c \in Controllers |-> IF c = k THEN [work[c] EXCEPT !.latest = FALSE] ELSE work[c]]

-----------------------------------------------------------------------------
(***************************************************************************)
(* A pass of the controller of kind c.                                     *)
(***************************************************************************)

EndPass(c) == work' = [work EXCEPT ![c] = Idle]

\* Mutant of Retry: the error is logged and the name not queued again.
RetryDropped(c) == EndPass(c) /\ UNCHANGED queued

\* return ctrl.Result{}, err: the queue brings the name back.
Retry(c) == EndPass(c) /\ queued' = queued \cup {c}

\* What follows the finalizer: Status.Name if it is not set, then Progress, which is never
\* "Ready" and so written in every pass; a CoreExt keeps no status.
StatusStep(c, status) ==
  IF c \notin Reporting THEN "ensure" ELSE IF status = "" THEN "name" ELSE "initiate"

\* Mutant of StartPass: the deletion branch returns only when it has released.
StartFallsThrough(c) ==
  LET o == seen[c]
      Begin(step, todo) ==
        work' = [work EXCEPT ![c] = [pc |-> step, todo |-> todo, uid |-> o.uid,
                                     status |-> o.status, latest |-> c \in fresh]]
  IN /\ work[c].pc = "idle" /\ c \in queued
     /\ queued' = queued \ {c}
     /\ CASE o.uid = 0 -> UNCHANGED work
          [] o.uid # 0 /\ ~o.del /\ ~o.fin -> Begin("finalizer", MakeOrder[c])
          [] o.uid # 0 /\ ~o.del /\ o.fin -> Begin(StatusStep(c, o.status), MakeOrder[c])
          [] o.uid # 0 /\ o.del /\ ~o.fin -> Begin("ensure", MakeOrder[c])
          [] o.uid # 0 /\ o.del /\ o.fin -> Begin("delete", CheckOrder[c])
     /\ UNCHANGED <<objects, seen, left>>

\* The worker takes the name and reads the object from the cache: its deletion branch
\* does nothing more once the finalizer is off.
StartPass(c) ==
  LET o == seen[c]
      Begin(step, todo) ==
        work' = [work EXCEPT ![c] = [pc |-> step, todo |-> todo, uid |-> o.uid,
                                     status |-> o.status, latest |-> c \in fresh]]
  IN /\ work[c].pc = "idle" /\ c \in queued
     /\ queued' = queued \ {c}
     /\ CASE o.uid = 0 \/ (o.del /\ ~o.fin) -> UNCHANGED work
          [] o.uid # 0 /\ ~o.del /\ ~o.fin -> Begin("finalizer", MakeOrder[c])
          [] o.uid # 0 /\ ~o.del /\ o.fin -> Begin(StatusStep(c, o.status), MakeOrder[c])
          [] o.uid # 0 /\ o.del /\ o.fin -> Begin("delete", CheckOrder[c])
     /\ UNCHANGED <<objects, seen, left>>

\* Mutant of AddFinalizer: the error of Update is ignored.
AddFinalizerUnchecked(c) ==
  /\ work[c].pc = "finalizer"
  /\ IF work[c].latest THEN Put(c, [store[c] EXCEPT !.fin = TRUE]) ELSE UNCHANGED objects
  /\ work' = [work EXCEPT ![c].pc = StatusStep(c, work[c].status)]
  /\ UNCHANGED <<seen, queued, left>>

\* AddFinalizer and Update: stored if the copy is the latest, else refused; or stored
\* while the reply is lost.
AddFinalizer(c) ==
  /\ work[c].pc = "finalizer"
  /\ \/ /\ work[c].latest
        /\ Put(c, [store[c] EXCEPT !.fin = TRUE])
        /\ \/ /\ work' = [work EXCEPT ![c].pc = StatusStep(c, work[c].status)]
              /\ UNCHANGED <<queued, left>>
           \/ Spend("error") /\ Retry(c)
     \/ /\ ~work[c].latest
        /\ Retry(c)
        /\ UNCHANGED <<objects, left>>
  /\ UNCHANGED seen

\* r.Status().Update with the status s: its error is ignored.  A write that changes
\* nothing makes no new version.
StatusUpdate(c, s, step) ==
  LET stored == [store[c] EXCEPT !.status = s]
      Continue(latest) == work' = [work EXCEPT ![c].pc = step, ![c].status = s,
                                               ![c].latest = latest]
  IN /\ \/ /\ work[c].latest /\ stored # store[c]
           /\ Put(c, stored)
           /\ \/ Continue(TRUE) /\ UNCHANGED left
              \/ Spend("swallow") /\ Continue(FALSE)
        \/ /\ work[c].latest => stored = store[c]
           /\ Continue(work[c].latest)
           /\ UNCHANGED <<objects, left>>
        \/ /\ Spend("swallow")
           /\ Continue(work[c].latest)
           /\ UNCHANGED objects
     /\ UNCHANGED <<seen, queued>>

NameStatus(c) == work[c].pc = "name" /\ StatusUpdate(c, "named", "initiate")

\* Mutant of InitiateStatus: the status starts anew in every pass.
InitiateAnew(c) ==
  /\ work[c].pc = "initiate"
  /\ StatusUpdate(c, IF work[c].status = "named" THEN "Initiating" ELSE "named", "ensure")

InitiateStatus(c) == work[c].pc = "initiate" /\ StatusUpdate(c, "Initiating", "ensure")

\* The object a pass creates for its copy.
Made(c, x) == [Absent EXCEPT !.uid = NewUid(x),
                             !.owner = IF x \in ClusterScoped THEN 0 ELSE work[c].uid,
                             !.for = IF x = "crb" THEN "here" ELSE "none"]

\* On to the next object; after the last one the pass returns ctrl.Result{}, nil.
Advance(c) ==
  IF Len(work[c].todo) = 1 THEN EndPass(c) ELSE work' = [work EXCEPT ![c].todo = Tail(@)]

\* r.Create of object x: done, refused because it exists, or done while the reply is lost.
Create(c, x) ==
  \/ /\ ~Exists(x)
     /\ Put(x, Made(c, x))
     /\ \/ Advance(c) /\ UNCHANGED <<queued, left>>
        \/ Spend("error") /\ Retry(c)
  \/ /\ Exists(x)
     /\ Retry(c)
     /\ UNCHANGED <<objects, left>>

\* Get, and Create what was not found: whatever bears the name is taken for its own.
Ensure(c) ==
  /\ work[c].pc = "ensure"
  /\ LET x == Head(work[c].todo)
     IN \/ /\ seen[x].uid # 0
           /\ Advance(c)
           /\ UNCHANGED <<objects, queued, left>>
        \/ seen[x].uid = 0 /\ Create(c, x)
  /\ UNCHANGED seen

\* deleteExternalResources returns an error at the first object it does not find.  The
\* Update after each Get sends the object back as read: it stores and removes nothing.
DeleteExternalResources(c) ==
  /\ work[c].pc = "delete" /\ work[c].todo # <<>>
  /\ LET x == Head(work[c].todo)
     IN IF x \in Kinds /\ seen[x].uid # 0
        THEN work' = [work EXCEPT ![c].todo = Tail(@)] /\ UNCHANGED queued
        ELSE Retry(c)
  /\ UNCHANGED <<objects, seen, left>>

\* RemoveFinalizer and Update, when all has been found.
Release(c) ==
  /\ work[c].pc = "delete" /\ work[c].todo = <<>>
  /\ \/ /\ work[c].latest
        /\ Put(c, Settle([store[c] EXCEPT !.fin = FALSE]))
        /\ \/ EndPass(c) /\ UNCHANGED <<queued, left>>
           \/ Spend("error") /\ Retry(c)
     \/ /\ ~work[c].latest
        /\ Retry(c)
        /\ UNCHANGED <<objects, left>>
  /\ UNCHANGED seen

\* A request whose error is returned fails before it has any effect.
ApiError(c) ==
  /\ \/ work[c].pc = "finalizer"
     \/ work[c].pc = "delete" /\ work[c].todo = <<>>
     \/ work[c].pc = "ensure" /\ seen[Head(work[c].todo)].uid = 0
  /\ Spend("error")
  /\ Retry(c)
  /\ UNCHANGED <<objects, seen>>

Pass(c) ==
  \/ StartPass(c) \/ AddFinalizer(c) \/ NameStatus(c) \/ InitiateStatus(c)
  \/ Ensure(c) \/ DeleteExternalResources(c) \/ Release(c)

-----------------------------------------------------------------------------
(***************************************************************************)
(* Informers and manager process.                                          *)
(***************************************************************************)

\* Notifications of an object queue it with its own controller, and the owner named in
\* any of its versions with the controller that watches it.
Wakes(c, x) == c = x \/ (x \in Watched[c] \cap owed)

\* A copy without what no controller reads.
Copy(v) == [v EXCEPT !.fg = FALSE, !.for = "none"]

Deliver(x) ==
  /\ x \notin fresh
  /\ fresh' = fresh \cup {x} /\ owed' = owed \ {x}
  /\ seen' = [seen EXCEPT ![x] = Copy(store[x])]
  /\ queued' = queued \cup {c \in Controllers : Wakes(c, x)}
  /\ UNCHANGED <<store, work, left>>

\* The manager stops anywhere; its successor fills the cache before the first pass and
\* finds every existing object reported as new.  Its first list is taken to be current.
Restart ==
  /\ Spend("crash")
  /\ work' = [c \in Controllers |-> Idle]
  /\ seen' = [x \in Kinds |-> Copy(store[x])] /\ fresh' = Kinds /\ owed' = {}
  /\ queued' = {c \in Controllers : Exists(c) \/ \E x \in Watched[c] : store[x].owner # 0}
  /\ UNCHANGED store

-----------------------------------------------------------------------------
(***************************************************************************)
(* The rest of the cluster.                                                *)
(***************************************************************************)

\* Somebody other than the controller of k writes it.
Write(k, v) == Put(k, v) /\ work' = Outdate(k) /\ UNCHANGED <<seen, queued>>

UserCreate(k) ==
  /\ k \in Roots /\ ~Exists(k)
  /\ Spend("create")
  /\ Write(k, [Absent EXCEPT !.uid = NewUid(k)])

\* A deletion: in the foreground it waits for the children.
Condemn(k, fg) == Write(k, Settle([store[k] EXCEPT !.del = TRUE, !.fg = fg]))

UserDelete(k) ==
  /\ k \in Pods /\ Exists(k) /\ ~store[k].del
  /\ Spend("delete")
  /\ \/ Condemn(k, FALSE)
     \/ k \in Foreground /\ Condemn(k, TRUE)

UserEdit(k) ==
  /\ k \in Pods /\ Exists(k)
  /\ Spend("edit")
  /\ Write(k, store[k])

UserDeleteChild(k) ==
  /\ k \notin Pods /\ Exists(k)
  /\ Spend("childDelete")
  /\ Write(k, Absent)

\* Somebody makes by hand what the OrgPod finalizer asks for.
UserMakes(k) ==
  /\ k \in {"dep", "nodeport"} /\ ~Exists(k)
  /\ Spend("byHand")
  /\ Write(k, [Absent EXCEPT !.uid = NewUid(k)])

\* The CoreExt controller makes it for a CoreExt of this name in another namespace.
MadeElsewhere(k) ==
  /\ k \in ClusterScoped /\ ~Exists(k)
  /\ Spend("elsewhere")
  /\ Write(k, [Absent EXCEPT !.uid = NewUid(k), !.for = IF k = "crb" THEN "elsewhere" ELSE "none"])

\* The DbPod controller, as far as Lifecycle binds it.
DbPodGuard ==
  /\ "dbpod" \in Kinds /\ Exists("dbpod")
  /\ ~store["dbpod"].fin /\ ~store["dbpod"].del
  /\ Write("dbpod", [store["dbpod"] EXCEPT !.fin = TRUE])
  /\ UNCHANGED left

DbPodRelease ==
  /\ "dbpod" \in Kinds /\ store["dbpod"].fin /\ store["dbpod"].del
  /\ Write("dbpod", Settle([store["dbpod"] EXCEPT !.fin = FALSE]))
  /\ UNCHANGED left

\* The garbage collector deletes an object whose owner is gone or is being deleted in
\* the foreground, and then lets go of the owner.
Collect(x) ==
  /\ x \in Owned /\ store[x].owner # 0 /\ ~store[x].del
  /\ LET owner == store[Maker(x)]
     IN /\ owner.uid # store[x].owner \/ owner.fg
        /\ IF x \in Pods
           THEN \E fg \in {FALSE, owner.fg} : Condemn(x, fg)
           ELSE Write(x, Absent)
  /\ UNCHANGED left

FinishForeground(k) ==
  /\ k \in Pods /\ store[k].fg
  /\ k \in Controllers => \A x \in PartsOf[k] : store[x].owner # store[k].uid
  /\ Write(k, Settle([store[k] EXCEPT !.fg = FALSE]))
  /\ UNCHANGED left

Cluster(k) ==
  \/ UserCreate(k) \/ UserDelete(k) \/ UserEdit(k) \/ UserDeleteChild(k)
  \/ UserMakes(k) \/ MadeElsewhere(k) \/ Collect(k) \/ FinishForeground(k)

Next ==
  \/ \E c \in Controllers : Pass(c) \/ ApiError(c)
  \/ \E k \in Kinds : Deliver(k) \/ Cluster(k)
  \/ DbPodGuard \/ DbPodRelease \/ Restart

\* Each worker goes on with its pass, notifications are delivered, and the garbage
\* collector does its work.  Users, the DbPod and faults are free.
Fairness ==
  /\ \A c \in Controllers : WF_vars(Pass(c))
  /\ \A k \in Kinds : WF_vars(Deliver(k)) /\ WF_vars(Collect(k)) /\ WF_vars(FinishForeground(k))

Spec == Init /\ [][Next]_vars

FairSpec == Spec /\ Fairness

-----------------------------------------------------------------------------
(***************************************************************************)
(* Safety.                                                                 *)
(***************************************************************************)

\* What each controller promises of its object.
Life(c) == INSTANCE Lifecycle WITH
             Parts <- PartsOf[c], owner <- store[c].uid, guarded <- store[c].fin,
             deleting <- store[c].del, ready <- FALSE,
             made <- [x \in PartsOf[c] |-> store[x].owner]

\* Each of the three controllers implements Lifecycle (this is Life(c)!Spec for all c),
\* whatever the other two, the garbage collector and users do to its object and its
\* children meanwhile.
ImplementsLifecycle ==
  /\ \A c \in Controllers : Life(c)!Init
  /\ [][\A c \in Controllers : [Life(c)!Next]_(Life(c)!vars)]_vars

\* The objects nobody owns and nobody removes are made for a CoreExt that is there and
\* has its finalizer: no late pass grants rights for one that is gone.
GuardedRights ==
  [][\A x \in ClusterScoped :
       ~Exists(x) /\ store'[x].uid # 0 =>
         \/ left'["elsewhere"] # left["elsewhere"]
         \/ store["ext"].uid # 0 /\ store["ext"].fin]_vars

Live(c) == Exists(c) /\ ~store[c].del

\* Nothing is running, waiting or undelivered.
Quiet == queued = {} /\ fresh = Kinds /\ \A c \in Controllers : work[c].pc = "idle"

\* What belongs to each object, as its controller means it.
Children(c) ==
  Kinds \cap (CASE c = "core" -> {"ext", "org"}
                [] c = "org"  -> {"dbpod"}
                [] c = "ext"  -> {"sa", "role", "rb", "crole", "crb"})

\* No wake-up is missing across the three queues: when all is quiet, every object that
\* is not being deleted has its finalizer and its children, and its status if no write
\* of it was lost; the cluster-scoped ones, which nobody watches, if nobody removed one,
\* and the binding is its own unless the same name was taken in another namespace first.
\* A child of a kind that users make themselves may be missing: one they made has no
\* owner reference, and when they remove it nobody is told.
QuietGrown ==
  Quiet =>
    \A c \in Controllers : Live(c) =>
      /\ store[c].fin
      /\ \A x \in Children(c) \ Roots :
           x \notin ClusterScoped \/ left["childDelete"] = Limits["childDelete"] => Exists(x)
      /\ c = "ext" /\ left["elsewhere"] = Limits["elsewhere"]
           => \A x \in Children(c) \cap {"crb"} : Exists(x) => store[x].for = "here"
      /\ c \in Reporting /\ left["swallow"] = Limits["swallow"] => store[c].status = "Initiating"

\* The finalizer of an OrgPod asks for a Deployment and a Service that no controller
\* makes: it comes off only after somebody has made them by hand.
ReleasedByHand ==
  [][(\E k \in {"org"} \cap Kinds : store[k].fin /\ ~store'[k].fin)
       => left["byHand"] + Len(Followed("dep") \o Followed("nodeport")) <= Limits["byHand"]]_vars

-----------------------------------------------------------------------------
(***************************************************************************)
(* Liveness.                                                               *)
(***************************************************************************)

\* An object that is left alone ends up with children of its own, whatever its
\* predecessor left behind, unless that is stuck in deletion.
Grows ==
  \A c \in Controllers :
    <>[]Live(c) => <>[](\A x \in Children(c) \ ClusterScoped : store[x].owner = store[c].uid \/ store[x].del)

\* Its controller comes to rest, though every pass writes the status anew.
Rests ==
  \A c \in Controllers : <>[]Live(c) => <>[](work[c].pc = "idle" /\ c \notin queued)

\* All that belongs to an object is there, and what the finalizer of an OrgPod asks for.
Intact(c) ==
  \A x \in Children(c) \cup (IF c = "org" THEN Kinds \cap {"dep", "nodeport"} ELSE {}) : Exists(x)

\* The finalizer of an object being deleted comes off if all of that stays.
IntactReleased == \A c \in Controllers : ~<>[](store[c].del /\ store[c].fin /\ Intact(c))
=============================================================================
