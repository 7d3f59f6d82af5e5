----------------------------- MODULE Lifecycle -----------------------------
(***************************************************************************)
(* What every controller of src/internal/controller promises of the object *)
(* it reconciles, without its passes, caches and queue: the finalizer      *)
(* comes first, parts are made for a guarded object only, Ready once       *)
(* reported stays, and the object goes only after the finalizer was taken  *)
(* off.  DbPod and PodTree are shown to implement it.                      *)
(***************************************************************************)
EXTENDS Naturals

CONSTANT Parts  \* the objects made for it, which carry its owner reference

VARIABLES
  owner,     \* the uid of the object, 0 if there is none
  guarded,   \* does it have the controller's finalizer?
  deleting,  \* does it have a deletion timestamp?
  ready,     \* is it reported Ready?
  made       \* for each part, the uid in its owner reference, 0 if there is none

vars == <<owner, guarded, deleting, ready, made>>

TypeOK ==
  /\ owner \in Nat
  /\ guarded \in BOOLEAN
  /\ deleting \in BOOLEAN
  /\ ready \in BOOLEAN
  /\ made \in [Parts -> Nat]

Init ==
  /\ owner = 0 /\ ~guarded /\ ~deleting /\ ~ready
  /\ made = [p \in Parts |-> 0]

\* A new object: no part is its own yet.
Appear ==
  /\ owner = 0
  /\ owner' \in Nat \ ({0} \cup {made[p] : p \in Parts})
  /\ UNCHANGED <<guarded, deleting, ready, made>>

Guard ==
  /\ owner # 0 /\ ~guarded /\ ~deleting
  /\ guarded' = TRUE
  /\ UNCHANGED <<owner, deleting, ready, made>>

Vanish ==
  /\ owner' = 0 /\ guarded' = FALSE /\ deleting' = FALSE /\ ready' = FALSE
  /\ UNCHANGED made

\* Deletion is asked for: an unguarded object may go at once.
Condemn ==
  /\ owner # 0 /\ ~deleting
  /\ \/ deleting' = TRUE /\ UNCHANGED <<owner, guarded, ready, made>>
     \/ ~guarded /\ Vanish

\* The finalizer is taken off; the object may stay for other finalizers.
Release ==
  /\ deleting /\ guarded
  /\ \/ guarded' = FALSE /\ UNCHANGED <<owner, deleting, ready, made>>
     \/ Vanish

Go == deleting /\ ~guarded /\ Vanish

Make(p) ==
  /\ guarded /\ made[p] = 0
  /\ made' = [made EXCEPT ![p] = owner]
  /\ UNCHANGED <<owner, guarded, deleting, ready>>

\* A part is removed, by the garbage collector or by anybody else.
Lose(p) ==
  /\ made[p] # 0
  /\ made' = [made EXCEPT ![p] = 0]
  /\ UNCHANGED <<owner, guarded, deleting, ready>>

Report ==
  /\ guarded /\ ~ready
  /\ ready' = TRUE
  /\ UNCHANGED <<owner, guarded, deleting, made>>

Next ==
  \/ Appear \/ Guard \/ Condemn \/ Release \/ Go \/ Report
  \/ \E p \in Parts : Make(p) \/ Lose(p)

Spec == Init /\ [][Next]_vars
=============================================================================
