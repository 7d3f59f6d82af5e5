----------------------------- MODULE MCPodTree -----------------------------
(***************************************************************************)
(* Instances of PodTree for TLC: which objects are followed, and how often *)
(* each disturbance happens.                                               *)
(***************************************************************************)
EXTENDS PodTree, TLC

\* The CorePod with its CoreExt; of the permissions one that is owned and one that is not.
Permissions == {"core", "ext", "rb", "crb"}

\* The CorePod with its OrgPod, the DbPod, and one object that is made by hand.
Databases == {"core", "org", "dbpod", "dep"}

Undisturbed == [e \in Events |-> 0]

\* CorePods of one name follow each other while requests fail, a user edits, and a
\* CoreExt of another namespace comes first to the cluster-scoped objects.
Rivalry == "create" :> 2 @@ "delete" :> 1 @@ "edit" :> 1 @@ "error" :> 1
           @@ "elsewhere" :> 1 @@ Undisturbed

\* Objects come and go by hand under two controllers that crash.
Hands == "create" :> 1 @@ "delete" :> 1 @@ "byHand" :> 1 @@ "childDelete" :> 1
         @@ "crash" :> 1 @@ "swallow" :> 1 @@ Undisturbed
=============================================================================
