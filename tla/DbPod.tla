------------------------------- MODULE DbPod -------------------------------
(***************************************************************************)
(* The DbPod controller of src/internal/controller: one DbPod name, the    *)
(* objects the controller keeps for it, the informer cache the controller  *)
(* reads, its one-worker queue, and the cluster around it (users, garbage  *)
(* collector, StatefulSet controller).                                     *)
(*                                                                         *)
(* Reads of the reconciler go to the informer cache, writes to the API     *)
(* server, so a pass works from copies that may be old.  A write of the    *)
(* DbPod is refused unless its copy carries the latest resourceVersion;    *)
(* instead of counting versions the module keeps, for the cache and for    *)
(* the running pass, whether its copy is the latest one.                   *)
(*                                                                         *)
(* An informer hands over the current state of an object and merges the    *)
(* notifications of versions in between: nothing reads a cache entry twice *)
(* in one pass, so a late delivery of such a version is the same as its    *)
(* delivery at the time it was written.  The cached Get of a child and the *)
(* Create that follows are one step, since this worker is the only creator *)
(* of the children and Create depends on the API server alone.             *)
(***************************************************************************)
EXTENDS Naturals

CONSTANTS
  Kinds,      \* the child objects followed in detail
  Replicas,   \* replicas, hence data claims, of the MySQL StatefulSet
  Lookups,    \* data claims that deleteExternalResources asks for
  MaxUid,     \* bound: how many DbPods of this name users create
  Limits,     \* bound: how often each disturbance in Events happens
  WithResync  \* does the ten-hourly resync of the informers happen?

AllKinds == {"svc", "readsvc", "init", "cmap", "sec", "mysql", "pcmap", "psvc", "psts"}

\* Disturbances: a user deletes or edits the DbPod or deletes a child, an API request fails
\* with an error the code returns or with one it ignores, the manager crashes,
\* the MySQL Pods go down.
Events == {"delete", "edit", "childDelete", "error", "swallow", "crash", "podDown"}

ASSUME KindsAssumption == {"init", "sec", "mysql"} \subseteq Kinds /\ Kinds \subseteq AllKinds
ASSUME BoundsAssumption ==
  /\ Replicas \in Nat \ {0}
  /\ Lookups \in Nat \ {0}
  /\ MaxUid \in Nat
  /\ Limits \in [Events -> Nat]
  /\ WithResync \in BOOLEAN

\* The claims the two StatefulSets make: they have no owner and outlive them.
Volumes == {"data"} \cup (IF "psts" \in Kinds THEN {"proxydata"} ELSE {})
Wanted(v) == IF v = "data" THEN Replicas ELSE 1
SetOf(v) == IF v = "data" THEN "mysql" ELSE "psts"

Tracked == Kinds \cup Volumes

\* Where a copy of the application user's password is kept besides the Secret.
Holders == {"init", "pcmap", "data"}

\* A copy holds nothing, the password of the latest Secret, or an earlier one.
Password == {"none", "current", "old"}

Progress == {"", "Initiating", "Ready"}

\* The fields of a DbPod the controller looks at.  uid 0: there is no such object.
DbPods == [uid : 0..MaxUid, fin : BOOLEAN, fg : BOOLEAN, del : BOOLEAN,
           named : BOOLEAN, progress : Progress]

NoCr == [uid |-> 0, fin |-> FALSE, fg |-> FALSE, del |-> FALSE,
         named |-> FALSE, progress |-> ""]

VARIABLES
  \* the cluster
  cr,          \* the DbPod stored by the API server
  api,         \* for each child, the uid of its owner, 0 if there is none
  claims,      \* for each volume, how many claims exist
  avail,       \* status.availableReplicas > 0 of the MySQL StatefulSet
  copies,      \* the password each holder was given
  rotated,     \* was a Secret removed whose password was in use?
  \* the informers
  cached,      \* cached copy of the DbPod
  cachedFresh, \* is it the latest version?
  cache,       \* objects present in the cache
  cachedAvail, \* cached value of avail
  news,        \* objects with a notification still to be delivered
  \* the controller
  queued,      \* is the DbPod's name in the work queue?
  pc,          \* where the pass is
  obj,         \* the object it handles
  mem,         \* its copy of the DbPod
  memFresh,    \* does that copy carry the latest resourceVersion?
  fetched,     \* the password it read from the Secret
  \* bookkeeping
  born,        \* number of DbPods created so far
  left         \* disturbances that may still happen

children == <<api, avail, copies, rotated, news>>
informers == <<cached, cachedFresh, cache, cachedAvail>>
pass == <<pc, obj, mem, memFresh, fetched>>
vars == <<cr, children, claims, informers, queued, pass, born, left>>

Pcs == {"idle", "finalizer", "name", "initiate", "ensure", "create", "ready",
        "delete", "release"}

\* What a pass can be at.
Objects == Tracked \cup {"none"}

TypeOK ==
  /\ cr \in DbPods
  /\ api \in [Kinds -> 0..MaxUid]
  /\ claims \in [Volumes -> Nat] /\ \A v \in Volumes : claims[v] <= Wanted(v)
  /\ avail \in BOOLEAN
  /\ copies \in [Holders -> Password]
  /\ rotated \in BOOLEAN
  /\ cached \in DbPods
  /\ cachedFresh \in BOOLEAN
  /\ cache \subseteq Tracked
  /\ cachedAvail \in BOOLEAN
  /\ news \subseteq Tracked
  /\ queued \in BOOLEAN
  /\ pc \in Pcs
  /\ obj \in Objects
  /\ mem \in DbPods
  /\ memFresh \in BOOLEAN
  /\ fetched \in Password
  /\ born \in 0..MaxUid
  /\ left \in [Events -> Nat]

Init ==
  /\ cr = NoCr
  /\ api = [k \in Kinds |-> 0]
  /\ claims = [v \in Volumes |-> 0]
  /\ avail = FALSE
  /\ copies = [h \in Holders |-> "none"]
  /\ rotated = FALSE
  /\ cached = NoCr
  /\ cachedFresh = TRUE
  /\ cache = {}
  /\ cachedAvail = FALSE
  /\ news = {}
  /\ queued = FALSE
  /\ pc = "idle"
  /\ obj = "none"
  /\ mem = NoCr
  /\ memFresh = FALSE
  /\ fetched = "none"
  /\ born = 0
  /\ left = Limits

Spend(e) == left[e] > 0 /\ left' = [left EXCEPT ![e] = @ - 1]

\* Children outside Kinds are taken to be in place at all times.
Exists(k) == k \in Kinds => api[k] # 0
Present(o) == IF o \in Volumes THEN claims[o] = Wanted(o) ELSE Exists(o)

\* Mutant of Asked: data-<name>-mysql-3 is asked for as well.
AskedOneMore(v) == IF v = "data" THEN Lookups + 1 ELSE 1

\* deleteExternalResources asks for claims number 0 to Asked(v) - 1 of a volume, whatever
\* the StatefulSet makes.  Claims are made in this order and stay, so asking for them one
\* by one gives what asking for all of them at the time of the last look-up gives.
Asked(v) == IF v = "data" THEN Lookups ELSE 1
Found(o) == IF o \in Volumes THEN claims[o] >= Asked(o) ELSE Exists(o)

\* Mutant of EnsureOrder: the call of reconcileProxyService is left out.
EnsureOrderShort ==
  [svc |-> 1, readsvc |-> 2, init |-> 3, cmap |-> 4, sec |-> 5, mysql |-> 6,
   pcmap |-> 7, psts |-> 9]

\* The order in which Reconcile, and deleteExternalResources, go through the objects.
EnsureOrder ==
  [svc |-> 1, readsvc |-> 2, init |-> 3, cmap |-> 4, sec |-> 5, mysql |-> 6,
   pcmap |-> 7, psvc |-> 8, psts |-> 9]

DeleteOrder ==
  [mysql |-> 1, svc |-> 2, readsvc |-> 3, data |-> 4, cmap |-> 5, sec |-> 6,
   init |-> 7, pcmap |-> 8, psvc |-> 9, psts |-> 10, proxydata |-> 11]

\* The tracked objects a sequence of steps visits, and the one that follows o:
\* a step for an object outside Tracked finds it in place and does nothing.
Visited(order) == Tracked \cap DOMAIN order
Earliest(order, S) ==
  IF S = {} THEN "none" ELSE CHOOSE o \in S : \A p \in S : order[o] <= order[p]
First(order) == Earliest(order, Visited(order))
After(order, o) == Earliest(order, {p \in Visited(order) : order[p] > order[o]})

\* The API server forgets an object being deleted when its last finalizer goes.
Settle(c) == IF c.del /\ ~c.fin /\ ~c.fg THEN NoCr ELSE c

-----------------------------------------------------------------------------
(***************************************************************************)
(* A pass of Reconcile.                                                    *)
(***************************************************************************)

EndPass ==
  /\ pc' = "idle" /\ obj' = "none" /\ fetched' = "none"
  /\ mem' = NoCr /\ memFresh' = FALSE

\* Mutant of Retry: the error is logged and the name not queued again.
RetryDropped == EndPass /\ UNCHANGED queued

\* return ctrl.Result{}, err: the queue brings the name back.
Retry == EndPass /\ queued' = TRUE

Goto(step, o) == pc' = step /\ obj' = o

\* A request whose error is returned fails before it has any effect: an Update of the
\* DbPod, or the Create of a child the cache does not have.
ApiError ==
  /\ \/ pc \in {"finalizer", "create", "release"}
     \/ pc = "ensure" /\ obj \in Kinds \ (cache \cup {"init", "pcmap"})
  /\ Spend("error")
  /\ Retry
  /\ UNCHANGED <<cr, children, claims, informers, born>>

\* Mutant of Branch: the return of the deletion branch moved into its inner if.
BranchFallsThrough(c) ==
  CASE c.uid = 0 -> "idle"
    [] c.uid # 0 /\ ~c.del /\ ~c.fin -> "finalizer"
    [] c.uid # 0 /\ (c.del => ~c.fin) /\ (~c.del => c.fin) -> "name"
    [] c.uid # 0 /\ c.del /\ c.fin -> "delete"

\* The branch a copy of the DbPod sends the pass to.
Branch(c) ==
  CASE c.uid = 0 -> "idle"
    [] c.uid # 0 /\ ~c.del /\ ~c.fin -> "finalizer"
    [] c.uid # 0 /\ ~c.del /\ c.fin -> "name"
    [] c.uid # 0 /\ c.del /\ c.fin -> "delete"
    [] c.uid # 0 /\ c.del /\ ~c.fin -> "idle"

\* The worker takes the name and reads the DbPod from the cache.
StartPass ==
  /\ pc = "idle" /\ queued
  /\ queued' = FALSE
  /\ IF Branch(cached) = "idle"
     THEN EndPass
     ELSE /\ Goto(Branch(cached), IF Branch(cached) = "delete" THEN First(DeleteOrder) ELSE "none")
          /\ mem' = cached /\ memFresh' = cachedFresh
          /\ UNCHANGED fetched
  /\ UNCHANGED <<cr, children, claims, informers, born, left>>

\* Mutant of AddFinalizer: the error of Update is ignored.
AddFinalizerUnchecked ==
  /\ pc = "finalizer"
  /\ cr' = IF memFresh THEN [cr EXCEPT !.fin = TRUE] ELSE cr
  /\ mem' = [mem EXCEPT !.fin = TRUE]
  /\ cachedFresh' = (cachedFresh /\ ~memFresh)
  /\ Goto("name", "none")
  /\ UNCHANGED <<memFresh, fetched, queued, left, children, claims, cached, cache,
                 cachedAvail, born>>

\* AddFinalizer and Update: stored if the copy is the latest, refused if not;
\* or stored while the reply is lost.
AddFinalizer ==
  /\ pc = "finalizer"
  /\ \/ /\ memFresh
        /\ cr' = [cr EXCEPT !.fin = TRUE]
        /\ mem' = [mem EXCEPT !.fin = TRUE]
        /\ cachedFresh' = FALSE
        /\ Goto("name", "none")
        /\ UNCHANGED <<memFresh, fetched, queued, left>>
     \/ /\ ~memFresh
        /\ Retry
        /\ UNCHANGED <<cr, cachedFresh, left>>
     \/ /\ memFresh
        /\ Spend("error")
        /\ cr' = [cr EXCEPT !.fin = TRUE]
        /\ cachedFresh' = FALSE
        /\ Retry
  /\ UNCHANGED <<children, claims, cached, cache, cachedAvail, born>>

\* Mutant of StatusUpdate: a patch that does not send the resourceVersion.
StatusPatch(m) ==
  /\ mem' = m
  /\ cr' = IF cr.uid = 0 THEN cr ELSE [cr EXCEPT !.named = m.named, !.progress = m.progress]
  /\ cachedFresh' = (cachedFresh /\ cr' = cr)
  /\ UNCHANGED <<memFresh, left>>

\* r.Status().Update of a copy whose status was set to that of m.  The error is
\* ignored, so the pass goes on with m whatever happened; a write that changes
\* nothing makes no new version.
StatusUpdate(m) ==
  LET stored == [cr EXCEPT !.named = m.named, !.progress = m.progress]
  IN /\ mem' = m
     /\ \/ /\ memFresh
           /\ cr' = stored
           /\ cachedFresh' = (cachedFresh /\ stored = cr)
           /\ UNCHANGED <<memFresh, left>>
        \/ /\ ~memFresh
           /\ UNCHANGED <<cr, cachedFresh, memFresh, left>>
        \/ /\ Spend("swallow")
           /\ UNCHANGED <<cr, cachedFresh, memFresh>>
        \/ /\ memFresh /\ stored # cr
           /\ Spend("swallow")
           /\ cr' = stored
           /\ cachedFresh' = FALSE /\ memFresh' = FALSE

NameStatus ==
  /\ pc = "name"
  /\ IF mem.named
     THEN UNCHANGED <<cr, cachedFresh, mem, memFresh, left>>
     ELSE StatusUpdate([mem EXCEPT !.named = TRUE])
  /\ Goto("initiate", "none")
  /\ UNCHANGED <<children, claims, cached, cache, cachedAvail, queued, fetched, born>>

\* Mutant of InitiateStatus: written in every pass.
InitiateAlways ==
  /\ pc = "initiate"
  /\ StatusUpdate([mem EXCEPT !.progress = "Initiating"])
  /\ Goto("ensure", First(EnsureOrder))
  /\ UNCHANGED <<children, claims, cached, cache, cachedAvail, queued, fetched, born>>

\* Mutant of InitiateStatus: a status constant misspelt.
InitiateMisspelt ==
  /\ pc = "initiate"
  /\ IF mem.progress = "Ready"
     THEN UNCHANGED <<cr, cachedFresh, mem, memFresh, left>>
     ELSE StatusUpdate([mem EXCEPT !.progress = "Initialising"])
  /\ Goto("ensure", First(EnsureOrder))
  /\ UNCHANGED <<children, claims, cached, cache, cachedAvail, queued, fetched, born>>

\* Mutant of InitiateStatus: a DbPod found Initiating is taken to have its children.
InitiateOnce ==
  /\ pc = "initiate"
  /\ IF mem.progress # ""
     THEN UNCHANGED <<cr, cachedFresh, mem, memFresh, left>>
     ELSE StatusUpdate([mem EXCEPT !.progress = "Initiating"])
  /\ Goto("ensure", IF mem.progress = "Initiating" THEN "none" ELSE First(EnsureOrder))
  /\ UNCHANGED <<children, claims, cached, cache, cachedAvail, queued, fetched, born>>

InitiateStatus ==
  /\ pc = "initiate"
  /\ IF mem.progress = "Ready"
     THEN UNCHANGED <<cr, cachedFresh, mem, memFresh, left>>
     ELSE StatusUpdate([mem EXCEPT !.progress = "Initiating"])
  /\ Goto("ensure", First(EnsureOrder))
  /\ UNCHANGED <<children, claims, cached, cache, cachedAvail, queued, fetched, born>>

-----------------------------------------------------------------------------
(***************************************************************************)
(* The children, in the order Reconcile goes through them.                 *)
(***************************************************************************)

\* On to the next child.
Advance(k) ==
  /\ Goto("ensure", After(EnsureOrder, k))
  /\ fetched' = "none"
  /\ UNCHANGED <<mem, memFresh, queued>>

\* What a new object of kind k makes of the copies of the password: a new Secret
\* has a new random one, the two ConfigMaps hold what the pass read.
CopiesWith(k) ==
  CASE k = "sec" -> [h \in Holders |-> IF copies[h] = "none" THEN "none" ELSE "old"]
    [] k \in {"init", "pcmap"} -> [copies EXCEPT ![k] = fetched]
    [] OTHER -> copies

\* r.Create of child k, owned by the DbPod of the pass: done, refused because the
\* child exists, or done while the reply is lost.
Create(k) ==
  \/ /\ api[k] = 0
     /\ api' = [api EXCEPT ![k] = mem.uid]
     /\ news' = news \cup {k}
     /\ copies' = CopiesWith(k)
     /\ \/ Advance(k) /\ UNCHANGED left
        \/ Spend("error") /\ Retry
     /\ UNCHANGED <<avail, rotated>>
  \/ /\ api[k] # 0
     /\ Retry
     /\ UNCHANGED <<children, left>>

\* Get, and Create what was not found.
Ensure(k) ==
  /\ pc = "ensure" /\ obj = k
  /\ \/ k \in cache /\ Advance(k) /\ UNCHANGED <<children, left>>
     \/ k \notin cache /\ Create(k)
  /\ UNCHANGED <<cr, claims, informers, born>>

ReconcileService == Ensure("svc")
ReconcileServiceRead == Ensure("readsvc")
ReconcileCmap == Ensure("cmap")

\* Mutant of ReconcileSecret: Create or Update, with new random passwords.
SecretOverwritten ==
  /\ pc = "ensure" /\ obj = "sec"
  /\ api' = [api EXCEPT !["sec"] = mem.uid]
  /\ copies' = IF "sec" \in cache THEN copies ELSE CopiesWith("sec")
  /\ news' = news \cup {"sec"}
  /\ Advance("sec")
  /\ UNCHANGED <<avail, rotated, cr, claims, informers, born, left>>

ReconcileSecret == Ensure("sec")
ReconcileProxyService == Ensure("psvc")
ReconcileProxyStatefulset == Ensure("psts")

\* Get, then read the Secret from the API server: when that fails the function
\* returns no error and the pass goes on without the ConfigMap.
FetchSecret(k) ==
  /\ pc = "ensure" /\ obj = k
  /\ \/ /\ k \in cache
        /\ Advance(k)
        /\ UNCHANGED left
     \/ /\ k \notin cache /\ api["sec"] # 0
        /\ Goto("create", k)
        /\ fetched' = "current"
        /\ UNCHANGED <<mem, memFresh, queued, left>>
     \/ /\ k \notin cache /\ api["sec"] = 0
        /\ Advance(k)
        /\ UNCHANGED left
     \/ /\ k \notin cache
        /\ Spend("swallow")
        /\ Advance(k)
  /\ UNCHANGED <<cr, children, claims, informers, born>>

\* The ConfigMap with the password the pass has read.
CreateFetched(k) ==
  /\ pc = "create" /\ obj = k
  /\ Create(k)
  /\ UNCHANGED <<cr, claims, informers, born>>

ReconcileInitCmap == FetchSecret("init") \/ CreateFetched("init")
ReconcileProxyCmap == FetchSecret("pcmap") \/ CreateFetched("pcmap")

\* Mutant of ReconcileDBDepl: Ready as soon as the StatefulSet is there.
ReadyWhenFound ==
  /\ pc = "ensure" /\ obj = "mysql"
  /\ \/ /\ "mysql" \in cache
        /\ Goto("ready", "mysql")
        /\ UNCHANGED <<mem, memFresh, fetched, queued, children, left>>
     \/ /\ "mysql" \notin cache
        /\ Create("mysql")
  /\ UNCHANGED <<cr, claims, informers, born>>

\* The StatefulSet, and whether its cached status has an available replica.
ReconcileDBDepl ==
  /\ pc = "ensure" /\ obj = "mysql"
  /\ \/ /\ "mysql" \in cache /\ cachedAvail
        /\ Goto("ready", "mysql")
        /\ UNCHANGED <<mem, memFresh, fetched, queued, children, left>>
     \/ /\ "mysql" \in cache /\ ~cachedAvail
        /\ Advance("mysql")
        /\ UNCHANGED <<children, left>>
     \/ /\ "mysql" \notin cache
        /\ Create("mysql")
  /\ UNCHANGED <<cr, claims, informers, born>>

ReadyStatus ==
  /\ pc = "ready"
  /\ StatusUpdate([mem EXCEPT !.progress = "Ready"])
  /\ Goto("ensure", After(EnsureOrder, "mysql"))
  /\ UNCHANGED <<children, claims, cached, cache, cachedAvail, queued, fetched, born>>

\* All children have been gone through: return ctrl.Result{}, nil.
Return ==
  /\ pc = "ensure" /\ obj = "none"
  /\ EndPass
  /\ UNCHANGED <<cr, children, claims, informers, queued, born, left>>

-----------------------------------------------------------------------------
(***************************************************************************)
(* Deletion.                                                               *)
(***************************************************************************)

\* deleteExternalResources looks up one object after the other and stops with an
\* error at the first it does not find.  The Update that follows each Get sends
\* the object back as it was read: it stores nothing, and removes nothing.
DeleteExternalResources ==
  /\ pc = "delete"
  /\ IF obj \in cache
     THEN /\ IF After(DeleteOrder, obj) = "none"
             THEN Goto("release", "none")
             ELSE Goto("delete", After(DeleteOrder, obj))
          /\ UNCHANGED <<mem, memFresh, fetched, queued>>
     ELSE Retry
  /\ UNCHANGED <<cr, children, claims, informers, born, left>>

\* RemoveFinalizer and Update.
Release ==
  /\ pc = "release"
  /\ \/ /\ memFresh
        /\ cr' = Settle([cr EXCEPT !.fin = FALSE])
        /\ cachedFresh' = FALSE
        /\ \/ EndPass /\ UNCHANGED <<queued, left>>
           \/ Spend("error") /\ Retry
     \/ /\ ~memFresh
        /\ Retry
        /\ UNCHANGED <<cr, cachedFresh, left>>
  /\ UNCHANGED <<children, claims, cached, cache, cachedAvail, born>>

Pass ==
  \/ StartPass \/ AddFinalizer \/ NameStatus \/ InitiateStatus
  \/ ReconcileService \/ ReconcileServiceRead \/ ReconcileInitCmap
  \/ ReconcileCmap \/ ReconcileSecret \/ ReconcileDBDepl \/ ReadyStatus
  \/ ReconcileProxyCmap \/ ReconcileProxyService \/ ReconcileProxyStatefulset
  \/ Return \/ DeleteExternalResources \/ Release

-----------------------------------------------------------------------------
(***************************************************************************)
(* Informers, work queue and manager process.                              *)
(***************************************************************************)

\* Mutant of Watched: Owns(&appsv1.StatefulSet{}) is left out.
WatchedWithoutSets == AllKinds \ {"mysql", "psts"}

\* Objects whose notifications queue the DbPod: SetupWithManager owns every kind
\* of child; nobody owns the claims.
Watched == AllKinds

DeliverDbPod ==
  /\ ~cachedFresh
  /\ cached' = cr /\ cachedFresh' = TRUE
  /\ queued' = TRUE
  /\ UNCHANGED <<cr, children, claims, cache, cachedAvail, pass, born, left>>

\* Mutant of Deliver: a predicate that filters deletions out.
DeliverAdditions(o) ==
  /\ o \in news
  /\ news' = news \ {o}
  /\ cache' = IF Found(o) THEN cache \cup {o} ELSE cache \ {o}
  /\ cachedAvail' = IF o = "mysql" THEN avail ELSE cachedAvail
  /\ queued' = (queued \/ (o \in Watched /\ Found(o)))
  /\ UNCHANGED <<cr, api, avail, copies, rotated, claims, cached, cachedFresh,
                 pass, born, left>>

Deliver(o) ==
  /\ o \in news
  /\ news' = news \ {o}
  /\ cache' = IF Found(o) THEN cache \cup {o} ELSE cache \ {o}
  /\ cachedAvail' = IF o = "mysql" THEN avail ELSE cachedAvail
  /\ queued' = (queued \/ o \in Watched)
  /\ UNCHANGED <<cr, api, avail, copies, rotated, claims, cached, cachedFresh,
                 pass, born, left>>

\* Mutant of Resync: a predicate lets through new versions only.
ResyncFiltered == FALSE /\ UNCHANGED vars

\* Every ten hours the informers report all they have again.
Resync ==
  /\ WithResync
  /\ ~queued /\ pc = "idle"
  /\ cached.uid # 0 \/ cache \cap Watched # {}
  /\ queued' = TRUE
  /\ UNCHANGED <<cr, children, claims, informers, pass, born, left>>

\* The manager stops anywhere in a pass; its successor fills the cache before the
\* first pass and finds every existing object reported as new.  Its first list is
\* taken to be current.
Restart ==
  /\ Spend("crash")
  /\ EndPass
  /\ cached' = cr /\ cachedFresh' = TRUE
  /\ cache' = {o \in Tracked : Found(o)}
  /\ cachedAvail' = avail
  /\ news' = {}
  /\ queued' = (cr.uid # 0 \/ \E k \in Kinds : api[k] # 0)
  /\ UNCHANGED <<cr, api, avail, copies, rotated, claims, born>>

-----------------------------------------------------------------------------
(***************************************************************************)
(* The rest of the cluster.                                                *)
(***************************************************************************)

\* Somebody other than the controller writes the DbPod.
Write(c) == cr' = c /\ cachedFresh' = FALSE /\ memFresh' = FALSE

UserCreate ==
  /\ cr.uid = 0 /\ born < MaxUid
  /\ Write([NoCr EXCEPT !.uid = born + 1])
  /\ born' = born + 1
  /\ UNCHANGED <<children, claims, cached, cache, cachedAvail, queued, pc, obj, mem,
                 fetched, left>>

\* Background or foreground deletion.
UserDelete ==
  /\ cr.uid # 0 /\ ~cr.del
  /\ Spend("delete")
  /\ \E fg \in BOOLEAN : Write(Settle([cr EXCEPT !.del = TRUE, !.fg = fg]))
  /\ UNCHANGED <<children, claims, cached, cache, cachedAvail, queued, pc, obj, mem,
                 fetched, born>>

\* A new version with nothing the controller looks at changed.
UserEdit ==
  /\ cr.uid # 0
  /\ Spend("edit")
  /\ Write(cr)
  /\ UNCHANGED <<children, claims, cached, cache, cachedAvail, queued, pc, obj, mem,
                 fetched, born>>

RemoveChild(k) ==
  /\ api' = [api EXCEPT ![k] = 0]
  /\ news' = news \cup {k}
  /\ avail' = (avail /\ k # "mysql")
  /\ copies' = [h \in Holders |-> IF h = k THEN "none" ELSE copies[h]]
  /\ rotated' = (rotated \/ (k = "sec" /\ (fetched # "none"
                                           \/ \E h \in Holders : copies[h] # "none")))

UserDeleteChild(k) ==
  /\ api[k] # 0
  /\ Spend("childDelete")
  /\ RemoveChild(k)
  /\ UNCHANGED <<cr, claims, informers, queued, pass, born>>

\* The garbage collector removes a child whose owner is gone, or is being deleted
\* in the foreground; then it lets go of the owner.
Collect(k) ==
  /\ api[k] # 0
  /\ api[k] # cr.uid \/ cr.fg
  /\ RemoveChild(k)
  /\ UNCHANGED <<cr, claims, informers, queued, pass, born, left>>

FinishForeground ==
  /\ cr.fg
  /\ \A k \in Kinds : api[k] # cr.uid
  /\ Write(Settle([cr EXCEPT !.fg = FALSE]))
  /\ UNCHANGED <<children, claims, cached, cache, cachedAvail, queued, pc, obj, mem,
                 fetched, born, left>>

\* The StatefulSet controller makes the claims one Pod at a time: the next Pod
\* waits for its predecessor to be available.
Provision(v) ==
  /\ Exists(SetOf(v)) /\ claims[v] < Wanted(v)
  /\ claims[v] > 0 => avail
  /\ claims' = [claims EXCEPT ![v] = @ + 1]
  /\ news' = news \cup {v}
  /\ UNCHANGED <<cr, api, avail, copies, rotated, informers, queued, pass, born, left>>

\* The first MySQL Pod becomes available.  It mounts both ConfigMaps; an empty data
\* volume is initialised with the script of the "init" ConfigMap.
PodUp ==
  /\ api["mysql"] # 0 /\ ~avail
  /\ claims["data"] > 0 /\ Exists("init") /\ Exists("cmap")
  /\ avail' = TRUE
  /\ news' = news \cup {"mysql"}
  /\ copies' = [copies EXCEPT !["data"] = IF @ = "none" THEN copies["init"] ELSE @]
  /\ UNCHANGED <<cr, api, rotated, claims, informers, queued, pass, born, left>>

PodDown ==
  /\ avail
  /\ Spend("podDown")
  /\ avail' = FALSE
  /\ news' = news \cup {"mysql"}
  /\ UNCHANGED <<cr, api, copies, rotated, claims, informers, queued, pass, born>>

Cluster ==
  \/ UserCreate \/ UserDelete \/ UserEdit \/ FinishForeground \/ PodUp \/ PodDown
  \/ \E k \in Kinds : UserDeleteChild(k) \/ Collect(k)
  \/ \E v \in Volumes : Provision(v)

Next ==
  \/ Pass \/ ApiError
  \/ DeliverDbPod \/ (\E o \in Tracked : Deliver(o)) \/ Resync \/ Restart
  \/ Cluster

\* The worker goes on with its pass, notifications are delivered, the resync comes
\* round, and the garbage collector does its work.  Users, Pods and faults are free.
Fairness ==
  /\ WF_vars(Pass)
  /\ WF_vars(DeliverDbPod)
  /\ \A o \in Tracked : WF_vars(Deliver(o))
  /\ WF_vars(Resync)
  /\ \A k \in Kinds : WF_vars(Collect(k))
  /\ WF_vars(FinishForeground)

Spec == Init /\ [][Next]_vars

FairSpec == Spec /\ Fairness

-----------------------------------------------------------------------------
(***************************************************************************)
(* Safety.                                                                 *)
(***************************************************************************)

\* No child is ever created for a DbPod that is gone or has not been given its
\* finalizer, although passes run from cached copies: a child made after the
\* object has left the API server would be an orphan made by a live controller.
GuardedCreation ==
  [][\A k \in Kinds : api[k] = 0 /\ api'[k] # 0 => cr.uid = api'[k] /\ cr.fin]_vars

\* A DbPod reported Ready stays so for its lifetime: no pass working from an old
\* copy puts Initiating, or the status of an earlier DbPod of that name, over it.
ReadyStable ==
  [][cr.progress = "Ready" /\ cr'.uid = cr.uid => cr'.progress = "Ready"]_vars

\* What the controller promises of its DbPod.
Life == INSTANCE Lifecycle WITH
          Parts <- Kinds, owner <- cr.uid, guarded <- cr.fin, deleting <- cr.del,
          ready <- cr.progress = "Ready", made <- api

\* The passes implement the life cycle of Lifecycle: through stale copies, refused
\* writes and crashes, the finalizer is on before the first child, children and Ready
\* come while it is on, and the DbPod goes only after a pass has taken it off.
ImplementsLifecycle == Life!Spec

\* As long as no Secret in use is removed, every copy of the password is that of the
\* Secret: a pass that does not see the Secret yet does not issue another password.
CredentialsAgree == ~rotated => \A h \in Holders : copies[h] # "old"

\* Ready means that a database which accepts the Secret's password has been served.
ReadyServed ==
  cr.progress = "Ready" => rotated \/ copies["data"] = "current"

\* Nothing is running, waiting or undelivered.
Quiet == pc = "idle" /\ ~queued /\ news = {} /\ cachedFresh

\* No wake-up is missing: when all is quiet, a DbPod that is not being deleted has
\* its finalizer, its name, all its children, and Ready if MySQL is available; the
\* ConfigMaps skipped because the Secret was not there yet have been made good.
\* This needs every request whose error is ignored to have got through.
QuietConverged ==
  Quiet /\ left["swallow"] = Limits["swallow"] /\ cr.uid # 0 /\ ~cr.del =>
    /\ cr.fin /\ cr.named
    /\ \A k \in Kinds : api[k] # 0
    /\ avail => cr.progress = "Ready"

-----------------------------------------------------------------------------
(***************************************************************************)
(* Liveness.                                                               *)
(***************************************************************************)

Live(u) == cr.uid = u /\ ~cr.del

\* A DbPod that is left alone ends up with all its children, owned by it, whatever
\* its predecessor left behind and whatever was deleted, lost or crashed before.
Converges ==
  \A u \in 1..MaxUid : <>[]Live(u) => <>[](\A k \in Kinds : api[k] = u)

\* ... and is reported Ready once MySQL stays available.
ReadyEventually ==
  \A u \in 1..MaxUid : <>[](Live(u) /\ avail) => <>[](cr.progress = "Ready")

\* The controller comes to rest: its own writes do not wake it for ever.
Settles ==
  \A u \in 1..MaxUid : <>[]Live(u) => <>[](pc = "idle" /\ ~queued)

\* A DbPod being deleted goes if all that deleteExternalResources asks for stays.
IntactDeletes ==
  ~<>[](cr.del /\ \A o \in Tracked : Present(o))

\* Deletion, retried until it succeeds, comes to an end: in the background, of a DbPod
\* that is deleted when all its claims are there.
DeletionCompletes ==
  []~cr.fg => \A u \in 1..MaxUid :
                (cr.uid = u /\ cr.del /\ \A v \in Volumes : Present(v)) ~> cr.uid # u

\* When the finalizer has been taken off, the claims have been deleted with the rest.
VolumesDeleted ==
  [][pc = "release" /\ cr.fin /\ ~cr'.fin => \A v \in Volumes : claims'[v] = 0]_vars
=============================================================================
