------------------------------ MODULE MCDbPod ------------------------------
(***************************************************************************)
(* Instances of DbPod for TLC: which children are followed, and how often  *)
(* each disturbance happens.                                               *)
(***************************************************************************)
EXTENDS DbPod, TLC

\* The children whose order matters: the script reads the Secret, the database
\* mounts the script.
Core == {"init", "sec", "mysql"}

Undisturbed == [e \in Events |-> 0]

\* Requests fail while users edit and delete.
Faults == "delete" :> 1 @@ "edit" :> 1 @@ "error" :> 1 @@ "swallow" :> 1 @@ Undisturbed

\* Children and Pods go away under the controller.
Meddling == "delete" :> 1 @@ "childDelete" :> 1 @@ "podDown" :> 1 @@ Undisturbed

\* DbPods of one name follow each other, and managers too.
Reuse == "delete" :> 2 @@ "crash" :> 1 @@ Undisturbed

\* For the liveness runs.
Unrest == "edit" :> 1 @@ "error" :> 1 @@ "crash" :> 1 @@ "podDown" :> 1
          @@ "childDelete" :> 1 @@ Undisturbed
OneDelete == "delete" :> 1 @@ Undisturbed
Ignored == "swallow" :> 1 @@ Undisturbed
=============================================================================
