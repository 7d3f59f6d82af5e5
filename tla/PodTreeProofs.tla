--------------------------- MODULE PodTreeProofs ---------------------------
(***************************************************************************)
(* Proofs about PodTree, for any choice of followed objects that satisfies *)
(* the assumptions, and any number of disturbances.                        *)
(***************************************************************************)
EXTENDS PodTree, FiniteSetTheorems, SequenceTheorems, TLAPS

-----------------------------------------------------------------------------
(***************************************************************************)
(* The orders in which the passes go through the objects.                  *)
(***************************************************************************)

LEMMA Subsets ==
  /\ Controllers \subseteq Kinds /\ Pods \subseteq Kinds /\ ClusterScoped \subseteq Kinds
  /\ Controllers \subseteq Pods /\ Reporting \subseteq Controllers
  /\ Controllers \subseteq {"core", "ext", "org"}
  /\ ClusterScoped \subseteq {"crole", "crb"}
  /\ Kinds \subseteq AllKinds /\ Roots \subseteq Controllers /\ Foreground \subseteq Pods
BY TreeAssumption DEF Controllers, Pods, ClusterScoped, Reporting

LEMMA FollowedSeq ==
  ASSUME NEW k
  PROVE  Followed(k) \in Seq(Kinds) /\ InOrder(Followed(k)) = Kinds \cap {k}
<1>1. CASE k \in Kinds
  BY <1>1 DEF Followed, InOrder
<1>2. CASE k \notin Kinds
  BY <1>2 DEF Followed, InOrder
<1> QED
  BY <1>1, <1>2

LEMMA InConcat ==
  ASSUME NEW s \in Seq(Kinds), NEW t \in Seq(Kinds)
  PROVE  s \o t \in Seq(Kinds) /\ InOrder(s \o t) = InOrder(s) \cup InOrder(t)
<1>1. s \o t \in Seq(Kinds)
  OBVIOUS
<1>2. ASSUME NEW e \in InOrder(s \o t) PROVE e \in InOrder(s) \cup InOrder(t)
  BY DEF InOrder
<1>3. ASSUME NEW i \in DOMAIN s PROVE s[i] \in InOrder(s \o t)
  <2>1. i \in DOMAIN (s \o t) /\ (s \o t)[i] = s[i]
    OBVIOUS
  <2> QED
    BY <2>1 DEF InOrder
<1>4. ASSUME NEW i \in DOMAIN t PROVE t[i] \in InOrder(s \o t)
  <2>1. i + Len(s) \in DOMAIN (s \o t) /\ (s \o t)[i + Len(s)] = t[i]
    OBVIOUS
  <2> QED
    BY <2>1 DEF InOrder
<1> QED
  BY <1>1, <1>2, <1>3, <1>4 DEF InOrder

\* What the controllers make and look up, among the objects followed.
LEMMA Orders ==
  ASSUME NEW c \in Controllers
  PROVE  /\ MakeOrder[c] \in Seq(Kinds) /\ MakeOrder[c] # <<>>
         /\ CheckOrder[c] \in Seq(Kinds)
         /\ c = "core" => Makes[c] = Kinds \cap {"ext", "org"}
         /\ c = "org" => Makes[c] = Kinds \cap {"dbpod"}
         /\ c = "ext" => Makes[c] = Kinds \cap {"sa", "role", "rb", "crole", "crb"}
         /\ c = "org" => InOrder(CheckOrder[c]) = Kinds \cap {"dep", "nodeport", "dbpod"}
<1>1. MakeOrder[c] # <<>> /\ Makes[c] = InOrder(MakeOrder[c])
  BY FollowedAssumption DEF Makes
<1>2. CASE c = "core"
  <2>1. MakeOrder[c] = Followed("ext") \o Followed("org") /\ CheckOrder[c] = Followed("ext")
    BY <1>2 DEF MakeOrder, CheckOrder
  <2>2. InOrder(MakeOrder[c]) = (Kinds \cap {"ext"}) \cup (Kinds \cap {"org"})
    BY <2>1, FollowedSeq, InConcat
  <2>3. MakeOrder[c] \in Seq(Kinds) /\ CheckOrder[c] \in Seq(Kinds)
    BY <2>1, FollowedSeq, InConcat
  <2> QED
    BY <1>1, <1>2, <2>2, <2>3
<1>3. CASE c = "org"
  <2> DEFINE hand == Followed("dep") \o Followed("nodeport")
  <2>1. MakeOrder[c] = Followed("dbpod") /\ CheckOrder[c] = hand \o Followed("dbpod")
    BY <1>3 DEF MakeOrder, CheckOrder
  <2>2. hand \in Seq(Kinds) /\ InOrder(hand) = (Kinds \cap {"dep"}) \cup (Kinds \cap {"nodeport"})
    BY FollowedSeq, InConcat
  <2> HIDE DEF hand
  <2>3. /\ CheckOrder[c] \in Seq(Kinds) /\ MakeOrder[c] \in Seq(Kinds)
        /\ InOrder(CheckOrder[c]) = InOrder(hand) \cup (Kinds \cap {"dbpod"})
        /\ InOrder(MakeOrder[c]) = Kinds \cap {"dbpod"}
    BY <2>1, <2>2, FollowedSeq, InConcat
  <2> QED
    BY <1>1, <1>3, <2>2, <2>3
<1>4. CASE c = "ext"
  <2> DEFINE m2 == Followed("sa") \o Followed("role")
             m3 == m2 \o Followed("rb")
             m4 == m3 \o Followed("crole")
             c2 == Followed("rb") \o Followed("crb")
             c3 == c2 \o Followed("role")
             c4 == c3 \o Followed("crole")
  <2>1. MakeOrder[c] = m4 \o Followed("crb") /\ CheckOrder[c] = c4 \o Followed("sa")
    BY <1>4 DEF MakeOrder, CheckOrder
  <2>2. m2 \in Seq(Kinds) /\ InOrder(m2) = (Kinds \cap {"sa"}) \cup (Kinds \cap {"role"})
    BY FollowedSeq, InConcat
  <2>3. c2 \in Seq(Kinds)
    BY FollowedSeq, InConcat
  <2> HIDE DEF m2, c2
  <2>4. m3 \in Seq(Kinds) /\ InOrder(m3) = InOrder(m2) \cup (Kinds \cap {"rb"})
    BY <2>2, FollowedSeq, InConcat
  <2>5. c3 \in Seq(Kinds)
    BY <2>3, FollowedSeq, InConcat
  <2> HIDE DEF m3, c3
  <2>6. m4 \in Seq(Kinds) /\ InOrder(m4) = InOrder(m3) \cup (Kinds \cap {"crole"})
    BY <2>4, FollowedSeq, InConcat
  <2>7. c4 \in Seq(Kinds)
    BY <2>5, FollowedSeq, InConcat
  <2> HIDE DEF m4, c4
  <2>8. MakeOrder[c] \in Seq(Kinds) /\ InOrder(MakeOrder[c]) = InOrder(m4) \cup (Kinds \cap {"crb"})
    BY <2>1, <2>6, FollowedSeq, InConcat
  <2>9. CheckOrder[c] \in Seq(Kinds)
    BY <2>1, <2>7, FollowedSeq, InConcat
  <2> QED
    BY <1>1, <1>4, <2>2, <2>4, <2>6, <2>8, <2>9
<1> QED
  BY <1>2, <1>3, <1>4, Subsets

\* Each object has one maker; the parts of an object are not among its siblings' parts,
\* and no object makes itself.
LEMMA Parts ==
  /\ \A c \in Controllers : Makes[c] \subseteq Kinds /\ c \notin Makes[c]
  /\ \A c, d \in Controllers : c # d => Makes[c] \cap Makes[d] = {}
  /\ \A c \in Controllers : PartsOf[c] = Makes[c] \ ClusterScoped
  /\ \A c \in Controllers : PartsOf[c] \subseteq CASE c = "core" -> {"ext", "org"}
                                                   [] c = "org" -> {"dbpod"}
                                                   [] c = "ext" -> {"sa", "role", "rb"}
  /\ \A c \in Controllers : \A x \in Makes[c] \cap ClusterScoped : c = "ext"
<1>1. \A c \in Controllers : Makes[c] \subseteq Kinds /\ c \notin Makes[c]
  BY Orders, Subsets
<1>2. \A c, d \in Controllers : c # d => Makes[c] \cap Makes[d] = {}
  BY Orders, Subsets
<1>3. \A c \in Controllers : PartsOf[c] = Makes[c] \ ClusterScoped
  BY DEF PartsOf
<1>4. ASSUME NEW c \in Controllers
      PROVE  PartsOf[c] \subseteq CASE c = "core" -> {"ext", "org"}
                                    [] c = "org" -> {"dbpod"}
                                    [] c = "ext" -> {"sa", "role", "rb"}
  <2>1. CASE c = "core"
    BY <1>3, <2>1, Orders
  <2>2. CASE c = "org"
    BY <1>3, <2>2, Orders
  <2>3. CASE c = "ext"
    BY <1>3, <2>3, Orders DEF ClusterScoped
  <2> QED
    BY <2>1, <2>2, <2>3, Subsets
<1>5. ASSUME NEW c \in Controllers, NEW x \in Makes[c] \cap ClusterScoped PROVE c = "ext"
  BY <1>5, Orders, Subsets
<1> QED
  BY <1>1, <1>2, <1>3, <1>4, <1>5

\* The maker of an object is the controller that makes it.
LEMMA MakerIs ==
  ASSUME NEW c \in Controllers, NEW x \in Makes[c]
  PROVE  Maker(x) = c
BY Parts DEF Maker

-----------------------------------------------------------------------------
(***************************************************************************)
(* New uids.                                                               *)
(***************************************************************************)

Few(S, n) == IsFiniteSet(S) /\ Cardinality(S) <= n

LEMMA OneMore ==
  ASSUME NEW n \in Nat
  PROVE  \A S, e : Few(S, n) => Few(S \cup {e}, n + 1)
<1> SUFFICES ASSUME NEW S, NEW e, Few(S, n) PROVE Few(S \cup {e}, n + 1)
  OBVIOUS
<1>1. IsFiniteSet(S) /\ Cardinality(S) \in Nat /\ Cardinality(S) <= n
  BY FS_CardinalityType DEF Few
<1>2. /\ IsFiniteSet(S \cup {e})
      /\ Cardinality(S \cup {e}) = IF e \in S THEN Cardinality(S) ELSE Cardinality(S) + 1
  BY <1>1, FS_AddElement
<1> QED
  BY <1>1, <1>2 DEF Few

LEMMA NineFew ==
  ASSUME NEW a1, NEW a2, NEW a3, NEW a4, NEW a5, NEW a6, NEW a7, NEW a8, NEW a9
  PROVE  Few({a1} \cup {a2} \cup {a3} \cup {a4} \cup {a5} \cup {a6} \cup {a7} \cup {a8} \cup {a9}, 9)
<1>1. IsFiniteSet({a1}) /\ Cardinality({a1}) = 1
  BY FS_Singleton
<1>2. Few({a1}, 1)
  BY <1>1 DEF Few
<1>3. \A U, e : Few(U, 1) => Few(U \cup {e}, 2)
  BY OneMore, 1 + 1 = 2
<1>4. \A U, e : Few(U, 2) => Few(U \cup {e}, 3)
  BY OneMore, 2 + 1 = 3
<1>5. \A U, e : Few(U, 3) => Few(U \cup {e}, 4)
  BY OneMore, 3 + 1 = 4
<1>6. \A U, e : Few(U, 4) => Few(U \cup {e}, 5)
  BY OneMore, 4 + 1 = 5
<1>7. \A U, e : Few(U, 5) => Few(U \cup {e}, 6)
  BY OneMore, 5 + 1 = 6
<1>8. \A U, e : Few(U, 6) => Few(U \cup {e}, 7)
  BY OneMore, 6 + 1 = 7
<1>9. \A U, e : Few(U, 7) => Few(U \cup {e}, 8)
  BY OneMore, 7 + 1 = 8
<1>10. \A U, e : Few(U, 8) => Few(U \cup {e}, 9)
  BY OneMore, 8 + 1 = 9
<1> QED
  BY <1>2, <1>3, <1>4, <1>5, <1>6, <1>7, <1>8, <1>9, <1>10, Zenon

\* Nine numbers leave one of the first ten free.
LEMMA OneFree ==
  ASSUME NEW S, NEW T, Few(T, 9), S \subseteq T
  PROVE  ~(1..10 \subseteq S)
<1>1. Cardinality(1..10) = IF 1 > 10 THEN 0 ELSE 10 - 1 + 1
  BY FS_Interval, 1 \in Int, 10 \in Int, Zenon
<1>2. Cardinality(1..10) = 10
  <2> DEFINE n == Cardinality(1..10)
  <2>1. n = IF 1 > 10 THEN 0 ELSE 10 - 1 + 1
    BY <1>1
  <2> HIDE DEF n
  <2>2. n = 10
    BY <2>1
  <2> QED
    BY <2>2 DEF n
<1>3. ASSUME 1..10 \subseteq T PROVE FALSE
  <2>1. Cardinality(1..10) <= Cardinality(T) /\ Cardinality(T) \in Nat
    BY <1>3, FS_Subset, FS_CardinalityType DEF Few
  <2> QED
    BY <1>2, <2>1 DEF Few
<1> QED
  BY <1>3

\* The uids in use for k are at most nine: three copies, and the owners of its parts.
LEMMA UidsFew ==
  ASSUME NEW k \in Kinds
  PROVE  ~(1..10 \subseteq UidsInUse(k))
<1>1. ASSUME NEW p1, NEW p2, NEW p3, k \in Controllers => PartsOf[k] \subseteq {p1, p2, p3}
      PROVE  ~(1..10 \subseteq UidsInUse(k))
  <2> DEFINE T == {store[k].uid} \cup {seen[k].uid} \cup {work[k].uid}
                    \cup {store[p1].owner} \cup {seen[p1].owner}
                    \cup {store[p2].owner} \cup {seen[p2].owner}
                    \cup {store[p3].owner} \cup {seen[p3].owner}
  <2>1. UidsInUse(k) \subseteq T
    BY <1>1 DEF UidsInUse
  <2>2. Few(T, 9)
    BY NineFew, Zenon
  <2> QED
    BY <2>1, <2>2, OneFree
<1>2. CASE k \notin Controllers
  BY <1>1, <1>2
<1>3. CASE k = "core" /\ k \in Controllers
  <2>1. PartsOf[k] \subseteq {"ext", "org", "ext"}
    BY <1>3, Parts
  <2> QED
    BY <1>1, <2>1
<1>4. CASE k = "org" /\ k \in Controllers
  <2>1. PartsOf[k] \subseteq {"dbpod", "dbpod", "dbpod"}
    BY <1>4, Parts
  <2> QED
    BY <1>1, <2>1
<1>5. CASE k = "ext" /\ k \in Controllers
  <2>1. PartsOf[k] \subseteq {"sa", "role", "rb"}
    BY <1>5, Parts
  <2> QED
    BY <1>1, <2>1
<1> QED
  BY <1>2, <1>3, <1>4, <1>5, Subsets

\* A new uid is in nobody's use.
LEMMA NewUidIsNew ==
  ASSUME NEW k \in Kinds
  PROVE  NewUid(k) \in 1..10 /\ NewUid(k) \notin UidsInUse(k)
<1> DEFINE Used == UidsInUse(k)
<1>1. SUFFICES \E u \in 1..10 : u \notin Used /\ 1..(u-1) \subseteq Used
  BY DEF NewUid
<1>2. SUFFICES ASSUME \A u \in 1..10 : 1..(u-1) \subseteq Used => u \in Used
               PROVE  FALSE
  OBVIOUS
<1>3. ~(1..10 \subseteq Used)
  BY UidsFew
<1> HIDE DEF Used
<1>4. 1 \in Used
  <2>1. 1..(1-1) \subseteq Used
    OBVIOUS
  <2> QED
    BY <1>2, <2>1
<1>5. ASSUME NEW u \in 2..10, 1..(u-1) \subseteq Used PROVE 1..u \subseteq Used
  BY <1>2, <1>5
<1>6. 1..1 \subseteq Used
  BY <1>4
<1>7. 1..4 \subseteq Used
  <2>1. 1..2 \subseteq Used BY <1>5, <1>6
  <2>2. 1..3 \subseteq Used BY <1>5, <2>1
  <2> QED BY <1>5, <2>2
<1>8. 1..7 \subseteq Used
  <2>1. 1..5 \subseteq Used BY <1>5, <1>7
  <2>2. 1..6 \subseteq Used BY <1>5, <2>1
  <2> QED BY <1>5, <2>2
<1>9. 1..10 \subseteq Used
  <2>1. 1..8 \subseteq Used BY <1>5, <1>8
  <2>2. 1..9 \subseteq Used BY <1>5, <2>1
  <2> QED BY <1>5, <2>2
<1> QED
  BY <1>3, <1>9

-----------------------------------------------------------------------------
(***************************************************************************)
(* Types.                                                                  *)
(***************************************************************************)

\* An absent object is Absent.
AbsentSafe == \A k \in Kinds : store[k].uid = 0 => store[k] = Absent

\* The steps of a pass that makes objects.
Making == {"finalizer", "name", "initiate", "ensure"}

\* A pass on its way to making objects has some of those its kind makes before it.
TodoSafe ==
  \A c \in Controllers :
    work[c].pc \in Making => work[c].todo \in Seq(Makes[c]) /\ work[c].todo # <<>>

TypeInv == TypeOK /\ AbsentSafe /\ TodoSafe

LEMMA AbsentFields ==
  /\ Absent \in Versions
  /\ Absent.uid = 0 /\ Absent.owner = 0 /\ Absent.fin = FALSE /\ Absent.fg = FALSE
  /\ Absent.del = FALSE /\ Absent.status = "" /\ Absent.for = "none"
BY DEF Absent, Versions, Status

LEMMA IdleFields == Idle \in Passes /\ Idle.pc = "idle" /\ Idle.latest = FALSE
BY DEF Idle, Passes, Pcs, Status

LEMMA TypeInit == Init => TypeInv
<1> SUFFICES ASSUME Init PROVE TypeInv
  OBVIOUS
<1>1. store \in [Kinds -> Versions] /\ seen \in [Kinds -> Versions] /\ AbsentSafe
  BY AbsentFields DEF Init, AbsentSafe
<1>2. work \in [Controllers -> Passes] /\ TodoSafe
  BY IdleFields DEF Init, TodoSafe, Making
<1>3. left \in [Events -> Nat]
  BY TreeAssumption DEF Init
<1> QED
  BY <1>1, <1>2, <1>3 DEF TypeInv, TypeOK, Init

LEMMA MakeOrderSeq ==
  ASSUME NEW c \in Controllers
  PROVE  MakeOrder[c] \in Seq(Makes[c]) /\ MakeOrder[c] # <<>>
<1>1. MakeOrder[c] \in Seq(Kinds) /\ MakeOrder[c] # <<>> /\ Makes[c] = InOrder(MakeOrder[c])
  BY Orders DEF Makes
<1> DEFINE s == MakeOrder[c]
<1> HIDE DEF s
<1>2. s \in Seq(Kinds) => s \in Seq(InOrder(s))
  BY DEF InOrder
<1> QED
  BY <1>1, <1>2 DEF s

LEMMA EventNames ==
  {"create", "delete", "edit", "childDelete", "byHand", "elsewhere", "error", "swallow",
   "crash"} \subseteq Events
BY DEF Events

LEMMA SpendType ==
  ASSUME TypeOK, NEW e \in Events, Spend(e)
  PROVE  left' \in [Events -> Nat]
BY DEF TypeOK, Spend

\* The relation of a write by somebody else than the controller of k to what it replaces.
Born(k, v) ==
  /\ store[k].uid = 0
  /\ v.uid = NewUid(k) /\ v.owner = 0 /\ ~v.fin /\ ~v.fg /\ ~v.del /\ v.status = ""

Kept(k, v) ==
  /\ store[k].uid # 0
  /\ v.uid = store[k].uid /\ v.owner = store[k].owner /\ v.status = store[k].status
  /\ v.for = store[k].for
  /\ store[k].del => v.del
  /\ k \in Controllers => v.fin = store[k].fin

Gone(k, v) ==
  /\ store[k].uid # 0
  /\ v = Absent
  /\ k \in Controllers => ~store[k].fin

Outside(k, v) == Born(k, v) \/ Kept(k, v) \/ Gone(k, v)

LEMMA SettleOutside ==
  ASSUME TypeInv, NEW k \in Kinds, Exists(k), NEW v \in Versions, Kept(k, v)
  PROVE  Settle(v) \in Versions /\ Outside(k, Settle(v))
<1>1. CASE v.del /\ ~v.fin /\ ~v.fg
  BY <1>1, AbsentFields DEF Settle, Outside, Gone, Kept, Exists
<1>2. CASE ~(v.del /\ ~v.fin /\ ~v.fg)
  BY <1>2 DEF Settle, Outside
<1> QED
  BY <1>1, <1>2

LEMMA CondemnOutside ==
  ASSUME TypeInv, NEW k \in Kinds, Exists(k), NEW fg \in BOOLEAN, Condemn(k, fg)
  PROVE  \E v \in Versions : Write(k, v) /\ Outside(k, v)
<1> DEFINE v == [store[k] EXCEPT !.del = TRUE, !.fg = fg]
<1>1. v \in Versions /\ Kept(k, v)
  BY DEF TypeInv, TypeOK, Versions, Kept, Exists
<1>2. Write(k, Settle(v))
  BY DEF Condemn
<1> HIDE DEF v
<1> QED
  BY <1>1, <1>2, SettleOutside

LEMMA NewOutside ==
  ASSUME TypeInv, NEW k \in Kinds, ~Exists(k), NEW f \in {"none", "here", "elsewhere"}, NEW v,
         \/ v = [Absent EXCEPT !.uid = NewUid(k)]
         \/ v = [Absent EXCEPT !.uid = NewUid(k), !.for = f]
  PROVE  v \in Versions /\ Outside(k, v)
<1>1. NewUid(k) \in Nat
  BY NewUidIsNew
<1>2. v \in Versions
  BY <1>1, AbsentFields DEF Versions
<1>3. /\ v.uid = NewUid(k) /\ v.owner = 0 /\ v.fin = FALSE /\ v.fg = FALSE /\ v.del = FALSE
      /\ v.status = ""
  BY <1>1 DEF Absent
<1>4. Outside(k, v)
  BY <1>3 DEF Outside, Born, Exists
<1> QED
  BY <1>2, <1>4

LEMMA OutsideWrite ==
  ASSUME TypeInv, NEW k \in Kinds, Cluster(k)
  PROVE  \E v \in Versions : Write(k, v) /\ Outside(k, v)
<1>1. ASSUME ~Exists(k), Write(k, [Absent EXCEPT !.uid = NewUid(k)])
      PROVE  \E v \in Versions : Write(k, v) /\ Outside(k, v)
  BY <1>1, NewOutside
<1>2. CASE UserCreate(k) \/ UserMakes(k)
  BY <1>1, <1>2 DEF UserCreate, UserMakes
<1>3. CASE MadeElsewhere(k)
  <2>1. PICK f \in {"none", "elsewhere"} :
          Write(k, [Absent EXCEPT !.uid = NewUid(k), !.for = f]) /\ ~Exists(k)
    BY <1>3 DEF MadeElsewhere
  <2> QED
    BY <2>1, NewOutside
<1>4. CASE UserDelete(k)
  <2>1. Exists(k) /\ (Condemn(k, TRUE) \/ Condemn(k, FALSE))
    BY <1>4 DEF UserDelete
  <2> QED
    BY <2>1, CondemnOutside
<1>5. CASE UserEdit(k)
  BY <1>5 DEF UserEdit, TypeInv, TypeOK, Outside, Kept, Exists
<1>6. CASE UserDeleteChild(k)
  <2>1. Write(k, Absent) /\ Exists(k) /\ k \notin Controllers
    BY <1>6, Subsets DEF UserDeleteChild
  <2>2. Outside(k, Absent)
    BY <2>1 DEF Outside, Gone, Exists
  <2> QED
    BY <2>1, <2>2, AbsentFields
<1>7. CASE Collect(k)
  <2>1. Exists(k)
    BY <1>7, AbsentFields DEF Collect, TypeInv, AbsentSafe, Exists
  <2>2. CASE k \in Pods
    <3>1. Controllers \subseteq Kinds /\ store \in [Kinds -> Versions]
      BY Subsets DEF TypeInv, TypeOK
    <3>2. Maker(k) \in Kinds
      <4>1. PICK c \in Controllers : k \in PartsOf[c]
        BY <1>7 DEF Collect, Owned
      <4> QED
        BY <3>1, <4>1, MakerIs, Parts
    <3>3. {FALSE, store[Maker(k)].fg} \subseteq BOOLEAN
      BY <3>1, <3>2 DEF Versions
    <3> QED
      BY <1>7, <2>1, <2>2, <3>3, CondemnOutside DEF Collect
  <2>3. CASE k \notin Pods
    <3>1. Write(k, Absent) /\ k \notin Controllers
      BY <1>7, <2>3, Subsets DEF Collect
    <3>2. Outside(k, Absent)
      BY <2>1, <3>1 DEF Outside, Gone, Exists
    <3> QED
      BY <3>1, <3>2, AbsentFields
  <2> QED
    BY <2>2, <2>3
<1>8. CASE FinishForeground(k)
  <2> DEFINE v == [store[k] EXCEPT !.fg = FALSE]
  <2>1. Exists(k) /\ Write(k, Settle(v))
    BY <1>8, AbsentFields DEF FinishForeground, TypeInv, AbsentSafe, Exists
  <2>2. v \in Versions /\ Kept(k, v)
    BY <2>1 DEF TypeInv, TypeOK, Versions, Kept, Exists
  <2> HIDE DEF v
  <2> QED
    BY <2>1, <2>2, SettleOutside
<1> QED
  BY <1>2, <1>3, <1>4, <1>5, <1>6, <1>7, <1>8 DEF Cluster

LEMMA DbPodWrite ==
  ASSUME TypeInv, DbPodGuard \/ DbPodRelease
  PROVE  "dbpod" \in Kinds /\ \E v \in Versions : Write("dbpod", v) /\ Outside("dbpod", v)
<1>1. "dbpod" \in Kinds /\ "dbpod" \notin Controllers
  BY DEF DbPodGuard, DbPodRelease, Controllers
<1>2. Exists("dbpod")
  BY <1>1, AbsentFields DEF DbPodGuard, DbPodRelease, TypeInv, AbsentSafe, Exists
<1>3. CASE DbPodGuard
  <2> DEFINE v == [store["dbpod"] EXCEPT !.fin = TRUE]
  <2>1. v \in Versions /\ Kept("dbpod", v)
    BY <1>1, <1>2 DEF TypeInv, TypeOK, Versions, Kept, Exists
  <2> QED
    BY <1>1, <1>3, <2>1 DEF DbPodGuard, Outside
<1>4. CASE DbPodRelease
  <2> DEFINE v == [store["dbpod"] EXCEPT !.fin = FALSE]
  <2>1. v \in Versions /\ Kept("dbpod", v)
    BY <1>1, <1>2 DEF TypeInv, TypeOK, Versions, Kept, Exists
  <2>2. Write("dbpod", Settle(v))
    BY <1>4 DEF DbPodRelease
  <2> HIDE DEF v
  <2> QED
    BY <1>1, <1>2, <2>1, <2>2, SettleOutside
<1> QED
  BY <1>3, <1>4

-----------------------------------------------------------------------------
(***************************************************************************)
(* What keeps old copies from doing harm.                                  *)
(***************************************************************************)

\* A copy that counts as the latest is that of the stored version.
CopyFresh == \A k \in fresh : seen[k] = Copy(store[k])

\* A cached copy may be old, but a finalizer it shows on an object not yet deleted is
\* still there; and an object that follows a deleted one has no finalizer before the
\* cache knows of it.
CacheSafe(c) ==
  /\ seen[c].uid # 0 /\ seen[c].fin /\ ~seen[c].del => store[c].uid = seen[c].uid /\ store[c].fin
  /\ seen[c].del /\ store[c].fin => store[c].del

\* What the pass of controller c may rely on at each of its steps.
PassSafe(c) ==
  /\ IF work[c].pc = "idle" THEN ~work[c].latest ELSE work[c].uid # 0
  /\ work[c].latest => store[c].uid = work[c].uid
  /\ work[c].pc = "finalizer" /\ work[c].latest => ~store[c].fin /\ ~store[c].del /\ ~seen[c].del
  /\ work[c].pc \in {"name", "initiate", "ensure"} => store[c].uid = work[c].uid /\ store[c].fin
  /\ work[c].pc = "delete" => /\ store[c].fin => store[c].del
                              /\ seen[c].fin => seen[c].del
                              /\ work[c].latest => store[c].fin /\ store[c].del

Guarded == CopyFresh /\ \A c \in Controllers : CacheSafe(c) /\ PassSafe(c)

\* What the finalizer of an OrgPod asks for has been made by hand if it is there, in the
\* API server or in the cache, or if the pass has already found it.
MadeByHand(k) ==
  /\ k \in Kinds
  /\ \/ store[k].uid # 0 \/ seen[k].uid # 0
     \/ /\ "org" \in Kinds /\ work["org"].pc = "delete"
        /\ k \notin InOrder(work["org"].todo)

HandsSafe ==
  left["byHand"] + (IF MadeByHand("dep") THEN 1 ELSE 0) + (IF MadeByHand("nodeport") THEN 1 ELSE 0)
    <= Limits["byHand"]

-----------------------------------------------------------------------------
(***************************************************************************)
(* Every step keeps the types.                                             *)
(***************************************************************************)

LEMMA PutType ==
  ASSUME TypeInv, NEW k \in Kinds, NEW v \in Versions, v.uid = 0 => v = Absent, Put(k, v)
  PROVE  /\ store' \in [Kinds -> Versions] /\ fresh' \subseteq Kinds /\ owed' \subseteq Kinds
         /\ AbsentSafe'
BY DEF TypeInv, TypeOK, Put, AbsentSafe

\* The objects stay as they are.
LEMMA SameType ==
  ASSUME TypeInv, UNCHANGED objects
  PROVE  /\ store' \in [Kinds -> Versions] /\ fresh' \subseteq Kinds /\ owed' \subseteq Kinds
         /\ AbsentSafe'
BY DEF TypeInv, TypeOK, objects, AbsentSafe

\* The worker of c comes to w.
LEMMA WorkType ==
  ASSUME TypeInv, NEW c \in Controllers, NEW w \in Passes,
         w.pc \in Making => w.todo \in Seq(Makes[c]) /\ w.todo # <<>>,
         work' = [work EXCEPT ![c] = w]
  PROVE  work' \in [Controllers -> Passes] /\ TodoSafe'
BY DEF TypeInv, TypeOK, TodoSafe

LEMMA EndPassType ==
  ASSUME TypeInv, NEW c \in Controllers, EndPass(c)
  PROVE  work' \in [Controllers -> Passes] /\ TodoSafe'
BY WorkType, IdleFields DEF EndPass, Making

LEMMA WriteType ==
  ASSUME TypeInv, NEW k \in Kinds, NEW v \in Versions, v.uid = 0 => v = Absent, Write(k, v)
  PROVE  /\ store' \in [Kinds -> Versions] /\ fresh' \subseteq Kinds /\ owed' \subseteq Kinds
         /\ work' \in [Controllers -> Passes] /\ seen' = seen /\ queued' = queued
         /\ AbsentSafe' /\ TodoSafe'
<1>1. /\ store' \in [Kinds -> Versions] /\ fresh' \subseteq Kinds /\ owed' \subseteq Kinds
      /\ AbsentSafe'
  BY PutType DEF Write
<1>2. \A c \in Controllers : work[c] \in Passes
  BY DEF TypeInv, TypeOK
<1>3. \A w \in Passes : [w EXCEPT !.latest = FALSE] \in Passes
                        /\ [w EXCEPT !.latest = FALSE].pc = w.pc
                        /\ [w EXCEPT !.latest = FALSE].todo = w.todo
  BY DEF Passes
<1>4. \A c \in Controllers : work'[c] \in Passes /\ work'[c].pc = work[c].pc
                             /\ work'[c].todo = work[c].todo
  BY <1>2, <1>3 DEF Write, Outdate
<1>5. work' \in [Controllers -> Passes]
  BY <1>4 DEF Write, Outdate
<1>6. TodoSafe'
  BY <1>4 DEF TypeInv, TodoSafe
<1> QED
  BY <1>1, <1>5, <1>6 DEF Write

LEMMA OutsideAbsent ==
  ASSUME TypeInv, NEW k \in Kinds, NEW v, Outside(k, v)
  PROVE  v.uid = 0 => v = Absent
<1>1. CASE Born(k, v)
  <2>1. NewUid(k) \in 1..10 => NewUid(k) # 0
    OBVIOUS
  <2> QED
    BY <1>1, <2>1, NewUidIsNew DEF Born
<1>2. CASE Kept(k, v) \/ Gone(k, v)
  BY <1>2 DEF Kept, Gone
<1> QED
  BY <1>1, <1>2 DEF Outside

LEMMA TodoStep ==
  ASSUME TypeInv, NEW c \in Controllers, work[c].pc \in Making
  PROVE  /\ work[c].todo \in Seq(Makes[c]) /\ work[c].todo # <<>>
         /\ Head(work[c].todo) \in Makes[c]
         /\ Tail(work[c].todo) \in Seq(Makes[c])
         /\ Len(work[c].todo) # 1 => Tail(work[c].todo) # <<>>
<1> DEFINE s == work[c].todo
<1>1. s \in Seq(Makes[c]) /\ s # <<>>
  BY DEF TypeInv, TodoSafe
<1> HIDE DEF s
<1>2. /\ Head(s) \in Makes[c] /\ Tail(s) \in Seq(Makes[c]) /\ Len(Tail(s)) = Len(s) - 1
      /\ Len(s) \in Nat
  BY <1>1, HeadTailProperties, LenProperties
<1>3. Len(s) # 1 => Tail(s) # <<>>
  <2>1. Len(s) # 0 /\ (Tail(s) = <<>> => Len(Tail(s)) = 0)
    BY <1>1, EmptySeq, Zenon
  <2> QED
    BY <1>2, <2>1
<1> QED
  BY <1>1, <1>2, <1>3 DEF s

LEMMA AdvanceType ==
  ASSUME TypeInv, NEW c \in Controllers, work[c].pc \in Making, Advance(c)
  PROVE  work' \in [Controllers -> Passes] /\ TodoSafe'
<1>1. CASE EndPass(c)
  BY <1>1, EndPassType
<1>2. CASE Len(work[c].todo) # 1
  <2> DEFINE w == [work[c] EXCEPT !.todo = Tail(@)]
  <2>1. Tail(work[c].todo) \in Seq(Makes[c]) /\ Tail(work[c].todo) # <<>>
    BY <1>2, TodoStep
  <2>2. Tail(work[c].todo) \in Seq(Kinds)
    BY TodoStep, HeadTailProperties DEF TypeInv, TypeOK, Passes
  <2>3. w \in Passes /\ w.todo = Tail(work[c].todo)
    BY <2>2 DEF TypeInv, TypeOK, Passes
  <2>4. work' = [work EXCEPT ![c] = w]
    BY <1>2 DEF Advance
  <2> HIDE DEF w
  <2> QED
    BY <2>1, <2>3, <2>4, WorkType
<1> QED
  BY <1>1, <1>2 DEF Advance

\* What Create stores.
LEMMA MadeFields ==
  ASSUME TypeInv, NEW c \in Controllers, NEW x \in Kinds
  PROVE  LET v == Made(c, x)
         IN  /\ v \in Versions /\ v.uid = NewUid(x) /\ v.uid # 0
             /\ v.owner = IF x \in ClusterScoped THEN 0 ELSE work[c].uid
             /\ v.fin = FALSE /\ v.fg = FALSE /\ v.del = FALSE /\ v.status = ""
             /\ v.for = IF x = "crb" THEN "here" ELSE "none"
<1>1. NewUid(x) \in Nat /\ NewUid(x) # 0
  BY NewUidIsNew
<1>2. work[c].uid \in Nat
  BY DEF TypeInv, TypeOK, Passes
<1> QED
  BY <1>1, <1>2 DEF Made, Absent, Versions, Status

LEMMA StatusType ==
  ASSUME TypeInv, NEW c \in Controllers, NEW s \in Status, NEW step \in Making,
         work[c].pc \in Making, work[c].latest => store[c].uid # 0, StatusUpdate(c, s, step)
  PROVE  TypeInv'
<1>1. ASSUME NEW l \in BOOLEAN,
             work' = [work EXCEPT ![c].pc = step, ![c].status = s, ![c].latest = l]
      PROVE  work' \in [Controllers -> Passes] /\ TodoSafe'
  <2> DEFINE w == [work[c] EXCEPT !.pc = step, !.status = s, !.latest = l]
  <2>1. w \in Passes /\ w.pc = step /\ w.todo = work[c].todo
    BY DEF TypeInv, TypeOK, Passes, Making, Pcs
  <2>2. work' = [work EXCEPT ![c] = w]
    BY <1>1 DEF TypeInv, TypeOK
  <2> HIDE DEF w
  <2> QED
    BY <2>1, <2>2, WorkType, TodoStep
<1>2. work[c].latest \in BOOLEAN /\ c \in Kinds
  BY Subsets DEF TypeInv, TypeOK, Passes
<1>3. work' \in [Controllers -> Passes] /\ TodoSafe'
  BY <1>1, <1>2 DEF StatusUpdate
<1> DEFINE stored == [store[c] EXCEPT !.status = s]
<1>4. stored \in Versions /\ stored.uid = store[c].uid
  BY <1>2 DEF TypeInv, TypeOK, Versions
<1>5. UNCHANGED objects \/ (work[c].latest /\ Put(c, stored))
  BY DEF StatusUpdate
<1> HIDE DEF stored
<1>6. /\ store' \in [Kinds -> Versions] /\ fresh' \subseteq Kinds /\ owed' \subseteq Kinds
      /\ AbsentSafe'
  BY <1>2, <1>4, <1>5, PutType, SameType
<1>7. left' \in [Events -> Nat]
  BY SpendType, EventNames DEF StatusUpdate, TypeInv, TypeOK
<1> QED
  BY <1>3, <1>6, <1>7 DEF StatusUpdate, TypeInv, TypeOK

LEMMA PassType ==
  ASSUME TypeInv, NEW c \in Controllers, PassSafe(c), Pass(c) \/ ApiError(c)
  PROVE  TypeInv'
<1> USE DEF TypeInv
<1>1. c \in Kinds /\ work[c] \in Passes /\ store[c] \in Versions /\ seen[c] \in Versions
  BY Subsets DEF TypeOK
<1>2. Retry(c) => work' \in [Controllers -> Passes] /\ TodoSafe' /\ queued' \subseteq Controllers
  BY EndPassType DEF Retry, TypeOK
<1>3. Spend("error") => left' \in [Events -> Nat]
  BY SpendType, EventNames
<1>4. CASE StartPass(c)
  <2>1. ASSUME NEW step \in Pcs, NEW todo \in Seq(Kinds),
               step \in Making => todo \in Seq(Makes[c]) /\ todo # <<>>,
               work' = [work EXCEPT ![c] = [pc |-> step, todo |-> todo, uid |-> seen[c].uid,
                                            status |-> seen[c].status, latest |-> c \in fresh]]
        PROVE  work' \in [Controllers -> Passes] /\ TodoSafe'
    <3> DEFINE w == [pc |-> step, todo |-> todo, uid |-> seen[c].uid,
                     status |-> seen[c].status, latest |-> c \in fresh]
    <3>1. w \in Passes
      BY <1>1 DEF Passes, Versions
    <3>2. w.pc = step /\ w.todo = todo /\ work' = [work EXCEPT ![c] = w]
      BY <2>1
    <3> HIDE DEF w
    <3> QED
      BY <2>1, <3>1, <3>2, WorkType
  <2>2. StatusStep(c, seen[c].status) \in Making /\ Making \subseteq Pcs
    BY DEF StatusStep, Making, Pcs
  <2>3. MakeOrder[c] \in Seq(Makes[c]) /\ MakeOrder[c] # <<>> /\ MakeOrder[c] \in Seq(Kinds)
        /\ CheckOrder[c] \in Seq(Kinds)
    BY Orders, MakeOrderSeq
  <2>4. "delete" \in Pcs /\ "delete" \notin Making /\ "finalizer" \in Making
    BY DEF Pcs, Making
  <2>5. work' \in [Controllers -> Passes] /\ TodoSafe'
    <3>1. CASE UNCHANGED work
      BY <3>1 DEF TypeOK, TodoSafe
    <3> QED
      BY <1>4, <2>1, <2>2, <2>3, <2>4, <3>1 DEF StartPass
  <2> QED
    BY <1>4, <2>5, SameType DEF StartPass, TypeOK
<1>5. CASE AddFinalizer(c)
  <2> DEFINE v == [store[c] EXCEPT !.fin = TRUE]
             w == [work[c] EXCEPT !.pc = StatusStep(c, work[c].status)]
  <2>1. v \in Versions /\ v.uid = store[c].uid
    BY <1>1 DEF Versions
  <2>2. work[c].latest => store[c].uid # 0
    BY <1>5 DEF AddFinalizer, PassSafe
  <2>3. UNCHANGED objects \/ (work[c].latest /\ Put(c, v))
    BY <1>5 DEF AddFinalizer
  <2>4. w \in Passes /\ w.pc \in Making /\ w.todo = work[c].todo
    BY <1>1 DEF Passes, StatusStep, Making, Pcs
  <2>5. work[c].pc \in Making
    BY <1>5 DEF AddFinalizer, Making
  <2>6. (work' = [work EXCEPT ![c] = w] /\ UNCHANGED queued) \/ Retry(c)
    BY <1>5 DEF AddFinalizer
  <2> HIDE DEF v, w
  <2>7. work' \in [Controllers -> Passes] /\ TodoSafe' /\ queued' \subseteq Controllers
    <3>1. CASE Retry(c)
      BY <1>2, <3>1
    <3>2. CASE work' = [work EXCEPT ![c] = w] /\ UNCHANGED queued
      BY <2>4, <2>5, <3>2, TodoStep, WorkType DEF TypeOK
    <3> QED
      BY <2>6, <3>1, <3>2
  <2>8. /\ store' \in [Kinds -> Versions] /\ fresh' \subseteq Kinds /\ owed' \subseteq Kinds
        /\ AbsentSafe'
    BY <1>1, <2>1, <2>2, <2>3, PutType, SameType
  <2>9. left' \in [Events -> Nat] /\ seen' = seen
    BY <1>3, <1>5 DEF AddFinalizer, TypeOK
  <2> QED
    BY <2>7, <2>8, <2>9 DEF TypeOK
<1>6. CASE NameStatus(c) \/ InitiateStatus(c)
  <2>1. work[c].pc \in Making /\ (work[c].latest => store[c].uid # 0)
    BY <1>6 DEF NameStatus, InitiateStatus, Making, PassSafe
  <2>2. {"named", "Initiating"} \subseteq Status /\ {"initiate", "ensure"} \subseteq Making
    BY DEF Status, Making
  <2> QED
    BY <1>6, <2>1, <2>2, StatusType DEF NameStatus, InitiateStatus
<1>7. CASE Ensure(c)
  <2> DEFINE x == Head(work[c].todo)
  <2>1. work[c].pc \in Making
    BY <1>7 DEF Ensure, Making
  <2>2. x \in Kinds
    BY <2>1, TodoStep, Parts
  <2>3. (Advance(c) /\ UNCHANGED <<objects, queued, left>>) \/ Create(c, x)
    BY <1>7 DEF Ensure
  <2> HIDE DEF x
  <2>4. seen' = seen
    BY <1>7 DEF Ensure
  <2>5. CASE Advance(c) /\ UNCHANGED <<objects, queued, left>>
    BY <2>1, <2>4, <2>5, AdvanceType, SameType DEF TypeOK
  <2>6. CASE Create(c, x)
    <3>1. Made(c, x) \in Versions /\ Made(c, x).uid # 0
      BY <2>2, MadeFields
    <3>2. /\ store' \in [Kinds -> Versions] /\ fresh' \subseteq Kinds /\ owed' \subseteq Kinds
          /\ AbsentSafe'
      BY <2>2, <2>6, <3>1, PutType, SameType DEF Create
    <3>3. work' \in [Controllers -> Passes] /\ TodoSafe' /\ queued' \subseteq Controllers
      BY <1>2, <2>1, <2>6, AdvanceType DEF Create, TypeOK
    <3>4. left' \in [Events -> Nat]
      BY <1>3, <2>6 DEF Create, TypeOK
    <3> QED
      BY <2>4, <3>2, <3>3, <3>4 DEF TypeOK
  <2> QED
    BY <2>3, <2>5, <2>6
<1>8. CASE DeleteExternalResources(c)
  <2> DEFINE w == [work[c] EXCEPT !.todo = Tail(@)]
  <2>1. w \in Passes /\ w.pc = work[c].pc
    BY <1>1, <1>8, HeadTailProperties DEF Passes, DeleteExternalResources
  <2>2. (work' = [work EXCEPT ![c] = w] /\ UNCHANGED queued) \/ Retry(c)
    BY <1>8 DEF DeleteExternalResources
  <2>3. work[c].pc \notin Making
    BY <1>8 DEF DeleteExternalResources, Making
  <2> HIDE DEF w
  <2>4. work' \in [Controllers -> Passes] /\ TodoSafe' /\ queued' \subseteq Controllers
    BY <1>2, <2>1, <2>2, <2>3, WorkType DEF TypeOK
  <2> QED
    BY <1>8, <2>4, SameType DEF DeleteExternalResources, TypeOK
<1>9. CASE Release(c)
  <2> DEFINE v == [store[c] EXCEPT !.fin = FALSE]
  <2>1. v \in Versions /\ v.uid = store[c].uid
    BY <1>1 DEF Versions
  <2>2. work[c].latest => store[c].uid # 0
    BY <1>9 DEF Release, PassSafe
  <2>3. UNCHANGED objects \/ (work[c].latest /\ Put(c, Settle(v)))
    BY <1>9 DEF Release
  <2>4. EndPass(c) /\ queued' \subseteq Controllers
    BY <1>2, <1>9 DEF Release, Retry, TypeOK
  <2> HIDE DEF v
  <2>5. Settle(v) \in Versions /\ (work[c].latest /\ Settle(v).uid = 0 => Settle(v) = Absent)
    BY <2>1, <2>2, AbsentFields DEF Settle
  <2>6. /\ store' \in [Kinds -> Versions] /\ fresh' \subseteq Kinds /\ owed' \subseteq Kinds
        /\ AbsentSafe'
    BY <1>1, <2>3, <2>5, PutType, SameType
  <2>7. left' \in [Events -> Nat] /\ seen' = seen
    BY <1>3, <1>9 DEF Release, TypeOK
  <2> QED
    BY <2>4, <2>6, <2>7, EndPassType DEF TypeOK
<1>10. CASE ApiError(c)
  BY <1>2, <1>3, <1>10, SameType DEF ApiError, TypeOK
<1> QED
  BY <1>4, <1>5, <1>6, <1>7, <1>8, <1>9, <1>10 DEF Pass

LEMMA CopyType == \A v \in Versions : Copy(v) \in Versions
BY DEF Copy, Versions

LEMMA TypeStep == TypeInv /\ Guarded /\ [Next]_vars => TypeInv'
<1> SUFFICES ASSUME TypeInv, Guarded, [Next]_vars PROVE TypeInv'
  OBVIOUS
<1>1. ASSUME NEW c \in Controllers, Pass(c) \/ ApiError(c) PROVE TypeInv'
  BY <1>1, PassType DEF Guarded
<1>2. ASSUME NEW k \in Kinds, NEW v \in Versions, Write(k, v), Outside(k, v),
             left' \in [Events -> Nat]
      PROVE  TypeInv'
  BY <1>2, WriteType, OutsideAbsent DEF TypeInv, TypeOK
<1>3. ASSUME NEW k \in Kinds, Cluster(k) PROVE TypeInv'
  <2>1. left' \in [Events -> Nat]
    BY <1>3, SpendType, EventNames DEF TypeInv, TypeOK, Cluster, UserCreate, UserDelete, UserEdit,
       UserDeleteChild, UserMakes, MadeElsewhere, Collect, FinishForeground
  <2> QED
    BY <1>2, <1>3, <2>1, OutsideWrite
<1>4. CASE DbPodGuard \/ DbPodRelease
  <2>1. left' \in [Events -> Nat]
    BY <1>4 DEF DbPodGuard, DbPodRelease, TypeInv, TypeOK
  <2> QED
    BY <1>2, <1>4, <2>1, DbPodWrite
<1>5. ASSUME NEW k \in Kinds, Deliver(k) PROVE TypeInv'
  <2>1. Copy(store[k]) \in Versions
    BY CopyType DEF TypeInv, TypeOK
  <2> QED
    BY <1>5, <2>1 DEF Deliver, TypeInv, TypeOK, AbsentSafe, TodoSafe
<1>6. CASE Restart
  <2>1. seen' \in [Kinds -> Versions]
    BY <1>6, CopyType DEF Restart, TypeInv, TypeOK
  <2>2. work' \in [Controllers -> Passes] /\ TodoSafe'
    BY <1>6, IdleFields DEF Restart, TodoSafe, Making
  <2>3. left' \in [Events -> Nat]
    BY <1>6, SpendType, EventNames DEF Restart, TypeInv
  <2> QED
    BY <1>6, <2>1, <2>2, <2>3 DEF Restart, TypeInv, TypeOK, AbsentSafe
<1>7. CASE UNCHANGED vars
  BY <1>7 DEF vars, objects, TypeInv, TypeOK, AbsentSafe, TodoSafe
<1> QED
  BY <1>1, <1>3, <1>4, <1>5, <1>6, <1>7 DEF Next

-----------------------------------------------------------------------------
(***************************************************************************)
(* What the steps write.                                                   *)
(***************************************************************************)

\* The writes of a pass: each of its own object needs the latest copy.
Guards(c) ==
  work[c].pc = "finalizer" /\ work[c].latest /\ Put(c, [store[c] EXCEPT !.fin = TRUE])

Reports(c) ==
  /\ work[c].pc \in {"name", "initiate"} /\ work[c].latest
  /\ \E s \in Status : Put(c, [store[c] EXCEPT !.status = s])

Creates(c) ==
  /\ work[c].pc = "ensure"
  /\ \E x \in Makes[c] : ~Exists(x) /\ Put(x, Made(c, x))

Releases(c) ==
  /\ work[c].pc = "delete" /\ work[c].todo = <<>> /\ work[c].latest
  /\ Put(c, Settle([store[c] EXCEPT !.fin = FALSE]))
  /\ work'[c] = Idle

LEMMA SpendOther ==
  ASSUME TypeOK, NEW e \in Events, NEW f \in Events, e # f, Spend(e)
  PROVE  left'[f] = left[f]
BY DEF TypeOK, Spend

LEMMA PassWrites ==
  ASSUME TypeInv, NEW c \in Controllers, Pass(c) \/ ApiError(c)
  PROVE  /\ seen' = seen
         /\ \A d \in Controllers : d # c => work'[d] = work[d]
         /\ left'["elsewhere"] = left["elsewhere"] /\ left'["byHand"] = left["byHand"]
         /\ UNCHANGED objects \/ Guards(c) \/ Reports(c) \/ Creates(c) \/ Releases(c)
<1>1. work \in [Controllers -> Passes]
  BY DEF TypeInv, TypeOK
<1>2. /\ Spend("error") \/ Spend("swallow") \/ left' = left
         => left'["elsewhere"] = left["elsewhere"] /\ left'["byHand"] = left["byHand"]
  BY SpendOther, EventNames DEF TypeInv
<1>3. EndPass(c) => work'[c] = Idle /\ \A d \in Controllers : d # c => work'[d] = work[d]
  BY <1>1 DEF EndPass
<1>4. Retry(c) => EndPass(c)
  BY DEF Retry
<1>5. CASE StartPass(c) \/ DeleteExternalResources(c)
  <2>1. seen' = seen /\ left' = left /\ UNCHANGED objects
    BY <1>5 DEF StartPass, DeleteExternalResources
  <2>2. ASSUME NEW d \in Controllers, d # c PROVE work'[d] = work[d]
    BY <1>1, <1>3, <1>4, <1>5, <2>2 DEF StartPass, DeleteExternalResources
  <2> QED
    BY <1>2, <2>1, <2>2
<1>6. CASE AddFinalizer(c)
  <2>1. seen' = seen /\ (Spend("error") \/ left' = left) /\ (UNCHANGED objects \/ Guards(c))
    BY <1>6 DEF AddFinalizer, Guards
  <2>2. ASSUME NEW d \in Controllers, d # c PROVE work'[d] = work[d]
    BY <1>1, <1>3, <1>4, <1>6, <2>2 DEF AddFinalizer
  <2> QED
    BY <1>2, <2>1, <2>2
<1>7. ASSUME NEW s \in Status, NEW step, StatusUpdate(c, s, step), work[c].pc \in {"name", "initiate"}
      PROVE  /\ seen' = seen /\ (Spend("swallow") \/ left' = left)
             /\ UNCHANGED objects \/ Reports(c)
             /\ \A d \in Controllers : d # c => work'[d] = work[d]
  <2>1. seen' = seen /\ (Spend("swallow") \/ left' = left) /\ (UNCHANGED objects \/ Reports(c))
    BY <1>7 DEF StatusUpdate, Reports
  <2>2. ASSUME NEW d \in Controllers, d # c PROVE work'[d] = work[d]
    BY <1>1, <1>7, <2>2 DEF StatusUpdate
  <2> QED
    BY <2>1, <2>2
<1>8. CASE NameStatus(c) \/ InitiateStatus(c)
  BY <1>2, <1>7, <1>8 DEF NameStatus, InitiateStatus, Status
<1>9. CASE Ensure(c)
  <2> DEFINE x == Head(work[c].todo)
  <2>1. x \in Makes[c]
    BY <1>9, TodoStep DEF Ensure, Making
  <2>2. work[c].pc = "ensure" /\ seen' = seen
        /\ ((Advance(c) /\ UNCHANGED <<objects, queued, left>>) \/ Create(c, x))
    BY <1>9 DEF Ensure
  <2> HIDE DEF x
  <2>3. /\ Spend("error") \/ left' = left
        /\ UNCHANGED objects \/ Creates(c)
        /\ Advance(c) \/ EndPass(c)
    BY <1>4, <2>1, <2>2 DEF Create, Creates
  <2>4. ASSUME NEW d \in Controllers, d # c PROVE work'[d] = work[d]
    BY <1>1, <1>3, <2>3, <2>4 DEF Advance
  <2> QED
    BY <1>2, <2>2, <2>3, <2>4
<1>10. CASE Release(c)
  <2>1. seen' = seen /\ (Spend("error") \/ left' = left) /\ EndPass(c)
    BY <1>4, <1>10 DEF Release
  <2>2. UNCHANGED objects \/ Releases(c)
    BY <1>3, <1>10, <2>1 DEF Release, Releases
  <2> QED
    BY <1>2, <1>3, <2>1, <2>2
<1>11. CASE ApiError(c)
  <2>1. seen' = seen /\ Spend("error") /\ UNCHANGED objects /\ Retry(c)
    BY <1>11 DEF ApiError
  <2> QED
    BY <1>2, <1>3, <1>4, <2>1
<1> QED
  BY <1>5, <1>6, <1>8, <1>9, <1>10, <1>11 DEF Pass

\* What Settle leaves of an object.
LEMMA SettleFields ==
  ASSUME NEW v \in Versions
  PROVE  /\ Settle(v) \in Versions
         /\ Settle(v) = Absent \/ Settle(v) = v
         /\ v.fin \/ ~v.del => Settle(v) = v
BY AbsentFields DEF Settle

\* A write of object k changes no other object.
LEMMA PutFields ==
  ASSUME TypeInv, NEW k \in Kinds, NEW v, Put(k, v)
  PROVE  /\ store'[k] = v /\ fresh' = fresh \ {k}
         /\ \A x \in Kinds : x # k => store'[x] = store[x]
BY DEF Put, TypeInv, TypeOK

-----------------------------------------------------------------------------
(***************************************************************************)
(* Old copies do no harm.                                                  *)
(***************************************************************************)

LEMMA GuardedInit == Init => Guarded
<1> SUFFICES ASSUME Init PROVE Guarded
  OBVIOUS
<1>1. Copy(Absent) = Absent
  <2>1. \A v \in Versions : v.fg = FALSE /\ v.for = "none" => Copy(v) = v
    BY DEF Copy, Versions
  <2> QED
    BY <2>1, AbsentFields
<1>2. CopyFresh
  BY <1>1 DEF Init, CopyFresh
<1>3. ASSUME NEW c \in Controllers PROVE CacheSafe(c) /\ PassSafe(c)
  BY AbsentFields, IdleFields, Subsets DEF Init, CacheSafe, PassSafe
<1> QED
  BY <1>2, <1>3 DEF Guarded

LEMMA CopyFields ==
  ASSUME NEW v \in Versions
  PROVE  /\ Copy(v).uid = v.uid /\ Copy(v).fin = v.fin /\ Copy(v).del = v.del
         /\ Copy(v).owner = v.owner /\ Copy(v).status = v.status
BY DEF Copy, Versions

\* What a pass may rely on survives whatever leaves the object, its cached copy and the
\* pass alone.
LEMMA SameGuarded ==
  ASSUME NEW c \in Controllers, CacheSafe(c), PassSafe(c),
         store'[c] = store[c], seen'[c] = seen[c], work'[c] = work[c]
  PROVE  CacheSafe(c)' /\ PassSafe(c)'
BY DEF CacheSafe, PassSafe

\* It survives the writes of others, which outdate the copy of the pass.
LEMMA OthersGuarded ==
  ASSUME NEW c \in Controllers, CacheSafe(c), PassSafe(c), seen'[c] = seen[c],
         store[c].fin => store'[c].fin /\ store'[c].uid = store[c].uid,
         store'[c].fin => store[c].fin /\ (store[c].del => store'[c].del),
         work'[c].pc = work[c].pc, work'[c].uid = work[c].uid, ~work'[c].latest
  PROVE  CacheSafe(c)' /\ PassSafe(c)'
BY DEF CacheSafe, PassSafe

\* An idle worker relies on nothing.
LEMMA IdleGuarded ==
  ASSUME NEW c \in Controllers, CacheSafe(c), work'[c] = Idle,
         store'[c] = store[c], seen'[c] = seen[c]
  PROVE  CacheSafe(c)' /\ PassSafe(c)'
BY IdleFields DEF CacheSafe, PassSafe

LEMMA PutFresh ==
  ASSUME TypeInv, CopyFresh, NEW k \in Kinds, NEW v, Put(k, v), seen' = seen
  PROVE  CopyFresh'
<1>1. fresh \subseteq Kinds
  BY DEF TypeInv, TypeOK
<1> QED
  BY <1>1, PutFields DEF CopyFresh

LEMMA OutsideFields ==
  ASSUME TypeInv, NEW c \in Controllers, NEW v, Outside(c, v)
  PROVE  /\ store[c].fin => v.fin /\ v.uid = store[c].uid
         /\ v.fin => store[c].fin /\ (store[c].del => v.del)
<1>1. c \in Kinds
  BY Subsets
<1>2. CASE Born(c, v)
  BY <1>1, <1>2, AbsentFields DEF Born, TypeInv, AbsentSafe
<1>3. CASE Kept(c, v)
  BY <1>1, <1>3 DEF Kept
<1>4. CASE Gone(c, v)
  BY <1>4, AbsentFields DEF Gone
<1> QED
  BY <1>2, <1>3, <1>4 DEF Outside

\* A pass keeps what it relies on itself.
LEMMA OwnGuarded ==
  ASSUME TypeInv, Guarded, NEW c \in Controllers, Pass(c) \/ ApiError(c)
  PROVE  CacheSafe(c)' /\ PassSafe(c)'
<1>1. /\ c \in Kinds /\ store[c] \in Versions /\ seen[c] \in Versions
      /\ work \in [Controllers -> Passes] /\ fresh \subseteq Kinds
  BY Subsets DEF TypeInv, TypeOK
<1>2. CacheSafe(c) /\ PassSafe(c)
  BY DEF Guarded
<1>3. EndPass(c) => work'[c] = Idle
  BY <1>1 DEF EndPass
<1>4. Retry(c) => work'[c] = Idle
  BY <1>3 DEF Retry
<1>5. UNCHANGED objects => store'[c] = store[c]
  BY DEF objects
<1>6. ASSUME store'[c] = store[c], seen' = seen, work'[c] = Idle
      PROVE  CacheSafe(c)' /\ PassSafe(c)'
  BY <1>2, <1>6, IdleGuarded
<1>7. CASE StartPass(c)
  <2>1. store'[c] = store[c] /\ seen'[c] = seen[c]
    BY <1>5, <1>7 DEF StartPass
  <2>2. CacheSafe(c)'
    BY <1>2, <2>1 DEF CacheSafe
  <2>3. c \in fresh => seen[c].uid = store[c].uid /\ seen[c].fin = store[c].fin
                       /\ seen[c].del = store[c].del
    BY <1>1, CopyFields DEF Guarded, CopyFresh
  <2>4. CASE UNCHANGED work
    BY <1>2, <2>1, <2>4, SameGuarded
  <2>5. ASSUME NEW step, NEW todo, seen[c].uid # 0,
               work' = [work EXCEPT ![c] = [pc |-> step, todo |-> todo, uid |-> seen[c].uid,
                                            status |-> seen[c].status, latest |-> c \in fresh]]
        PROVE  /\ work'[c].pc = step /\ work'[c].uid = seen[c].uid
               /\ work'[c].latest <=> c \in fresh
    BY <1>1, <2>5
  <2>6. CASE seen[c].uid # 0 /\ ~seen[c].del /\ ~seen[c].fin
    <3>1. /\ work'[c].pc = "finalizer" /\ work'[c].uid = seen[c].uid
          /\ work'[c].latest <=> c \in fresh
      BY <1>7, <2>5, <2>6 DEF StartPass
    <3>2. PassSafe(c)'
      BY <2>1, <2>3, <2>6, <3>1 DEF PassSafe
    <3> QED
      BY <2>2, <3>2
  <2>7. CASE seen[c].uid # 0 /\ ~seen[c].del /\ seen[c].fin
    <3>1. /\ work'[c].pc = StatusStep(c, seen[c].status) /\ work'[c].uid = seen[c].uid
      BY <1>7, <2>5, <2>7 DEF StartPass
    <3>2. work'[c].pc \in {"name", "initiate", "ensure"}
      BY <3>1 DEF StatusStep
    <3>3. store[c].uid = seen[c].uid /\ store[c].fin
      BY <1>2, <2>7 DEF CacheSafe
    <3>4. PassSafe(c)'
      BY <2>1, <2>7, <3>1, <3>2, <3>3 DEF PassSafe
    <3> QED
      BY <2>2, <3>4
  <2>8. CASE seen[c].uid # 0 /\ seen[c].del /\ seen[c].fin
    <3>1. /\ work'[c].pc = "delete" /\ work'[c].uid = seen[c].uid
          /\ work'[c].latest <=> c \in fresh
      BY <1>7, <2>5, <2>8 DEF StartPass
    <3>2. store[c].fin => store[c].del
      BY <1>2, <2>8 DEF CacheSafe
    <3>3. PassSafe(c)'
      BY <2>1, <2>3, <2>8, <3>1, <3>2 DEF PassSafe
    <3> QED
      BY <2>2, <3>3
  <2>9. CASE seen[c].uid = 0 \/ (seen[c].del /\ ~seen[c].fin)
    BY <1>7, <2>4, <2>9 DEF StartPass
  <2>10. {seen[c].del, seen[c].fin} \subseteq BOOLEAN
    BY <1>1 DEF Versions
  <2> QED
    BY <2>6, <2>7, <2>8, <2>9, <2>10
<1>8. CASE AddFinalizer(c)
  <2>1. seen' = seen /\ work[c].pc = "finalizer"
    BY <1>8 DEF AddFinalizer
  <2>2. CASE work[c].latest
    <3>1. Put(c, [store[c] EXCEPT !.fin = TRUE])
      BY <1>8, <2>2 DEF AddFinalizer
    <3>2. store'[c].fin /\ store'[c].uid = store[c].uid
      BY <1>1, <3>1, PutFields DEF Versions
    <3>3. store[c].uid = work[c].uid /\ ~store[c].fin /\ ~seen[c].del /\ work[c].uid # 0
      BY <1>2, <2>1, <2>2 DEF PassSafe
    <3>4. CacheSafe(c)'
      BY <1>2, <2>1, <3>2, <3>3 DEF CacheSafe
    <3>5. CASE work'[c] = Idle
      BY <3>4, <3>5, IdleFields DEF PassSafe
    <3>6. CASE work' = [work EXCEPT ![c].pc = StatusStep(c, work[c].status)]
      <4>1. work'[c].pc = StatusStep(c, work[c].status) /\ work'[c].uid = work[c].uid
        BY <1>1, <3>6 DEF Passes
      <4>2. work'[c].pc \in {"name", "initiate", "ensure"}
        BY <4>1 DEF StatusStep
      <4> QED
        BY <3>2, <3>3, <3>4, <4>1, <4>2 DEF PassSafe
    <3> QED
      BY <1>4, <1>8, <2>2, <3>5, <3>6 DEF AddFinalizer
  <2>3. CASE ~work[c].latest
    BY <1>4, <1>5, <1>6, <1>8, <2>1, <2>3 DEF AddFinalizer
  <2> QED
    BY <2>2, <2>3
<1>9. CASE NameStatus(c) \/ InitiateStatus(c)
  <2>1. PICK s \in Status, step \in {"initiate", "ensure"} :
          StatusUpdate(c, s, step) /\ work[c].pc \in {"name", "initiate"}
    BY <1>9 DEF NameStatus, InitiateStatus, Status
  <2>2. store[c].uid = work[c].uid /\ store[c].fin /\ work[c].uid # 0
    BY <1>2, <2>1 DEF PassSafe
  <2>3. store'[c].uid = store[c].uid /\ store'[c].fin = store[c].fin /\ store'[c].del = store[c].del
    <3>1. CASE UNCHANGED objects
      BY <1>5, <3>1
    <3>2. CASE Put(c, [store[c] EXCEPT !.status = s])
      BY <1>1, <3>2, PutFields DEF Versions
    <3> QED
      BY <2>1, <3>1, <3>2 DEF StatusUpdate
  <2>4. work'[c].pc = step /\ work'[c].uid = work[c].uid
    BY <1>1, <2>1 DEF StatusUpdate, Passes
  <2>5. seen' = seen
    BY <2>1 DEF StatusUpdate
  <2> QED
    BY <1>2, <2>2, <2>3, <2>4, <2>5 DEF CacheSafe, PassSafe
<1>10. CASE Ensure(c)
  <2> DEFINE x == Head(work[c].todo)
  <2>1. x \in Makes[c] /\ x \in Kinds /\ x # c
    BY <1>10, TodoStep, Parts DEF Ensure, Making
  <2>2. work[c].pc = "ensure" /\ seen' = seen
        /\ ((Advance(c) /\ UNCHANGED <<objects, queued, left>>) \/ Create(c, x))
    BY <1>10 DEF Ensure
  <2> HIDE DEF x
  <2>3. UNCHANGED objects \/ Put(x, Made(c, x))
    BY <2>2 DEF Create
  <2>4. store'[c] = store[c]
    BY <1>1, <1>5, <2>1, <2>3, PutFields
  <2>5. work'[c] = Idle \/ (work'[c].pc = work[c].pc /\ work'[c].uid = work[c].uid
                            /\ work'[c].latest = work[c].latest)
    BY <1>1, <1>3, <1>4, <2>2 DEF Create, Advance, Passes
  <2>6. CASE work'[c] = Idle
    BY <1>6, <2>2, <2>4, <2>6
  <2>7. CASE work'[c].pc = work[c].pc /\ work'[c].uid = work[c].uid
             /\ work'[c].latest = work[c].latest
    BY <1>2, <2>2, <2>4, <2>7 DEF CacheSafe, PassSafe
  <2> QED
    BY <2>5, <2>6, <2>7
<1>11. CASE DeleteExternalResources(c)
  <2>1. store'[c] = store[c] /\ seen' = seen
    BY <1>5, <1>11 DEF DeleteExternalResources
  <2>2. work'[c] = Idle \/ (work'[c].pc = work[c].pc /\ work'[c].uid = work[c].uid
                            /\ work'[c].latest = work[c].latest)
    BY <1>1, <1>4, <1>11 DEF DeleteExternalResources, Passes
  <2>3. CASE work'[c] = Idle
    BY <1>6, <2>1, <2>3
  <2>4. CASE work'[c].pc = work[c].pc /\ work'[c].uid = work[c].uid
             /\ work'[c].latest = work[c].latest
    BY <1>2, <2>1, <2>4 DEF CacheSafe, PassSafe
  <2> QED
    BY <2>2, <2>3, <2>4
<1>12. CASE Release(c)
  <2> DEFINE v == [store[c] EXCEPT !.fin = FALSE]
  <2>1. seen' = seen /\ work'[c] = Idle /\ work[c].pc = "delete"
        /\ (UNCHANGED objects \/ Put(c, Settle(v)))
    BY <1>3, <1>4, <1>12 DEF Release
  <2>2. v \in Versions /\ ~v.fin
    BY <1>1 DEF Versions
  <2> HIDE DEF v
  <2>3. CASE UNCHANGED objects
    BY <1>5, <1>6, <2>1, <2>3
  <2>4. CASE Put(c, Settle(v))
    <3>1. ~store'[c].fin
      <4>1. ~Settle(v).fin
        BY <2>2, SettleFields, AbsentFields
      <4>2. store'[c] = Settle(v)
        BY <1>1, <2>4, PutFields
      <4> QED
        BY <4>1, <4>2
    <3>2. seen[c].fin => seen[c].del
      BY <1>2, <2>1 DEF PassSafe
    <3> QED
      BY <2>1, <3>1, <3>2, IdleFields DEF CacheSafe, PassSafe
  <2> QED
    BY <2>1, <2>3, <2>4
<1>13. CASE ApiError(c)
  BY <1>4, <1>5, <1>6, <1>13 DEF ApiError
<1> QED
  BY <1>7, <1>8, <1>9, <1>10, <1>11, <1>12, <1>13 DEF Pass

LEMMA PassGuarded ==
  ASSUME TypeInv, Guarded, NEW c \in Controllers, Pass(c) \/ ApiError(c)
  PROVE  Guarded'
<1>1. seen' = seen /\ c \in Kinds
  BY PassWrites, Subsets
<1>2. CopyFresh'
  <2>1. CASE UNCHANGED objects
    BY <1>1, <2>1 DEF objects, Guarded, CopyFresh
  <2>2. ASSUME NEW k \in Kinds, NEW v, Put(k, v) PROVE CopyFresh'
    BY <1>1, <2>2, PutFresh DEF Guarded
  <2>3. CASE Guards(c) \/ Reports(c) \/ Releases(c)
    BY <1>1, <2>2, <2>3 DEF Guards, Reports, Releases
  <2>4. CASE Creates(c)
    BY <2>2, <2>4, Parts DEF Creates
  <2> QED
    BY <2>1, <2>3, <2>4, PassWrites
<1>3. ASSUME NEW d \in Controllers, d # c PROVE CacheSafe(d)' /\ PassSafe(d)'
  <2>1. CacheSafe(d) /\ PassSafe(d) /\ d \in Kinds /\ seen'[d] = seen[d]
    BY <1>1, Subsets DEF Guarded
  <2>2. work'[d] = work[d]
    BY <1>3, PassWrites
  <2>3. CASE store'[d] = store[d]
    BY <2>1, <2>2, <2>3, SameGuarded
  <2>4. CASE Creates(c) /\ store'[d] # store[d]
    <3>1. ~Exists(d) /\ Put(d, Made(c, d))
      <4>1. PICK x \in Makes[c] : ~Exists(x) /\ Put(x, Made(c, x))
        BY <2>4 DEF Creates
      <4>2. x \in Kinds
        BY Parts
      <4> QED
        BY <2>1, <2>4, <4>1, <4>2, PutFields
    <3>2. store[d].uid = 0 /\ ~store[d].fin
      BY <2>1, <3>1, AbsentFields DEF Exists, TypeInv, AbsentSafe
    <3>3. ~store'[d].fin
      <4>1. store'[d] = Made(c, d)
        BY <2>1, <3>1, PutFields
      <4> QED
        BY <2>1, <4>1, MadeFields
    <3>4. ~work[d].latest
      BY <2>1, <3>2 DEF PassSafe
    <3> QED
      BY <2>1, <2>2, <3>2, <3>3, <3>4, OthersGuarded
  <2>5. UNCHANGED objects \/ Guards(c) \/ Reports(c) \/ Releases(c) => store'[d] = store[d]
    BY <1>1, <1>3, <2>1, PutFields DEF objects, Guards, Reports, Releases
  <2> QED
    BY <2>3, <2>4, <2>5, PassWrites
<1> QED
  BY <1>2, <1>3, OwnGuarded DEF Guarded

LEMMA WriteGuarded ==
  ASSUME TypeInv, Guarded, NEW k \in Kinds, NEW v, Write(k, v), Outside(k, v)
  PROVE  Guarded'
<1>1. Put(k, v) /\ seen' = seen /\ work' = Outdate(k)
  BY DEF Write
<1>2. CopyFresh'
  BY <1>1, PutFresh DEF Guarded
<1>3. ASSUME NEW c \in Controllers PROVE CacheSafe(c)' /\ PassSafe(c)'
  <2>1. CacheSafe(c) /\ PassSafe(c) /\ c \in Kinds /\ seen'[c] = seen[c] /\ work[c] \in Passes
    BY <1>1, Subsets DEF Guarded, TypeInv, TypeOK
  <2>2. CASE c = k
    <3>1. work'[c] = [work[c] EXCEPT !.latest = FALSE]
      BY <1>1, <2>2 DEF Outdate
    <3>2. work'[c].pc = work[c].pc /\ work'[c].uid = work[c].uid /\ ~work'[c].latest
      BY <2>1, <3>1 DEF Passes
    <3>3. store'[c] = v
      BY <1>1, <2>2, PutFields
    <3> QED
      BY <2>1, <2>2, <3>2, <3>3, OutsideFields, OthersGuarded
  <2>3. CASE c # k
    BY <1>1, <2>1, <2>3, PutFields, SameGuarded DEF Outdate
  <2> QED
    BY <2>2, <2>3
<1> QED
  BY <1>2, <1>3 DEF Guarded

LEMMA GuardedStep == TypeInv /\ Guarded /\ [Next]_vars => Guarded'
<1> SUFFICES ASSUME TypeInv, Guarded, [Next]_vars PROVE Guarded'
  OBVIOUS
<1>1. ASSUME NEW c \in Controllers, Pass(c) \/ ApiError(c) PROVE Guarded'
  BY <1>1, PassGuarded
<1>2. ASSUME NEW k \in Kinds, Cluster(k) PROVE Guarded'
  BY <1>2, OutsideWrite, WriteGuarded
<1>3. CASE DbPodGuard \/ DbPodRelease
  BY <1>3, DbPodWrite, WriteGuarded
<1>4. ASSUME NEW x \in Kinds, Deliver(x) PROVE Guarded'
  <2>1. /\ store' = store /\ work' = work /\ fresh' = fresh \cup {x}
        /\ seen'[x] = Copy(store[x]) /\ \A k \in Kinds : k # x => seen'[k] = seen[k]
        /\ fresh \subseteq Kinds
    BY <1>4 DEF Deliver, TypeInv, TypeOK
  <2>2. CopyFresh'
    BY <2>1 DEF Guarded, CopyFresh
  <2>3. ASSUME NEW c \in Controllers PROVE CacheSafe(c)' /\ PassSafe(c)'
    <3>1. CacheSafe(c) /\ PassSafe(c) /\ c \in Kinds /\ store[c] \in Versions
      BY Subsets DEF Guarded, TypeInv, TypeOK
    <3>2. CASE c # x
      BY <2>1, <3>1, <3>2, SameGuarded
    <3>3. CASE c = x
      <4>1. /\ seen'[c].uid = store[c].uid /\ seen'[c].fin = store[c].fin
            /\ seen'[c].del = store[c].del
        BY <2>1, <3>1, <3>3, CopyFields
      <4> QED
        BY <2>1, <3>1, <4>1 DEF CacheSafe, PassSafe
    <3> QED
      BY <3>2, <3>3
  <2> QED
    BY <2>2, <2>3 DEF Guarded
<1>5. CASE Restart
  <2>1. /\ store' = store /\ seen' = [x \in Kinds |-> Copy(store[x])] /\ fresh' = Kinds
        /\ work' = [c \in Controllers |-> Idle]
    BY <1>5 DEF Restart
  <2>2. CopyFresh'
    BY <2>1 DEF CopyFresh
  <2>3. ASSUME NEW c \in Controllers PROVE CacheSafe(c)' /\ PassSafe(c)'
    <3>1. c \in Kinds /\ store[c] \in Versions
      BY Subsets DEF TypeInv, TypeOK
    <3>2. /\ seen'[c].uid = store[c].uid /\ seen'[c].fin = store[c].fin
          /\ seen'[c].del = store[c].del /\ work'[c] = Idle
      BY <2>1, <3>1, CopyFields
    <3> QED
      BY <2>1, <3>1, <3>2, IdleFields DEF CacheSafe, PassSafe
  <2> QED
    BY <2>2, <2>3 DEF Guarded
<1>6. CASE UNCHANGED vars
  BY <1>6 DEF vars, objects, Guarded, CopyFresh, CacheSafe, PassSafe
<1> QED
  BY <1>1, <1>2, <1>3, <1>4, <1>5, <1>6 DEF Next

LEMMA AlwaysGuarded == Spec => [](TypeInv /\ Guarded)
<1>1. Init => TypeInv /\ Guarded
  BY TypeInit, GuardedInit
<1>2. TypeInv /\ Guarded /\ [Next]_vars => (TypeInv /\ Guarded)'
  BY TypeStep, GuardedStep
<1> QED
  BY <1>1, <1>2, PTL DEF Spec

\* The state of every run is of the declared types, whichever objects are followed and
\* whatever users, faults and the garbage collector do.
THEOREM TreeTypeCorrect == Spec => []TypeOK
<1>1. TypeInv => TypeOK
  BY DEF TypeInv
<1> QED
  BY <1>1, AlwaysGuarded, PTL

-----------------------------------------------------------------------------
(***************************************************************************)
(* Rights.                                                                 *)
(***************************************************************************)

\* Whatever changes the stored objects is a write of a pass, or one of somebody else.
LEMMA StepWrites ==
  ASSUME TypeInv, [Next]_vars
  PROVE  \/ store' = store
         \/ \E c \in Controllers : Guards(c) \/ Reports(c) \/ Creates(c) \/ Releases(c)
         \/ \E k \in Kinds, v \in Versions : Write(k, v) /\ Outside(k, v)
<1>1. CASE \E c \in Controllers : Pass(c) \/ ApiError(c)
  BY <1>1, PassWrites DEF objects
<1>2. CASE \E k \in Kinds : Cluster(k)
  BY <1>2, OutsideWrite
<1>3. CASE DbPodGuard \/ DbPodRelease
  BY <1>3, DbPodWrite
<1>4. CASE (\E k \in Kinds : Deliver(k)) \/ Restart \/ UNCHANGED vars
  BY <1>4 DEF Deliver, Restart, vars, objects
<1> QED
  BY <1>1, <1>2, <1>3, <1>4 DEF Next

LEMMA RightsStep ==
  ASSUME TypeInv, Guarded, [Next]_vars, NEW x \in ClusterScoped,
         ~Exists(x), store'[x].uid # 0
  PROVE  \/ left'["elsewhere"] # left["elsewhere"]
         \/ store["ext"].uid # 0 /\ store["ext"].fin
<1>1. x \in Kinds /\ x \notin Pods /\ x \notin {"dep", "nodeport", "dbpod"} /\ store[x].uid = 0
  BY Subsets DEF ClusterScoped, Pods, Exists
<1>2. ASSUME NEW c \in Controllers, Pass(c) \/ ApiError(c)
      PROVE  store["ext"].uid # 0 /\ store["ext"].fin
  <2>1. c \in Kinds /\ c # x
    BY <1>1, Subsets
  <2>2. UNCHANGED objects \/ Guards(c) \/ Reports(c) \/ Releases(c) => store'[x] = store[x]
    BY <1>1, <2>1, PutFields DEF objects, Guards, Reports, Releases
  <2>3. Creates(c)
    BY <1>1, <1>2, <2>2, PassWrites
  <2>4. PICK y \in Makes[c] : Put(y, Made(c, y))
    BY <2>3 DEF Creates
  <2>5. y = x
    BY <1>1, <2>4, Parts, PutFields
  <2>6. c = "ext"
    BY <2>5, Parts
  <2>7. PassSafe(c) /\ work[c].pc = "ensure"
    BY <2>3 DEF Guarded, Creates
  <2> QED
    BY <2>6, <2>7 DEF PassSafe
<1>3. ASSUME NEW k \in Kinds, NEW v, Write(k, v) PROVE k = x
  BY <1>1, <1>3, PutFields DEF Write
<1>4. ASSUME NEW k \in Kinds, Cluster(k) PROVE left'["elsewhere"] # left["elsewhere"]
  <2>1. k = x
    BY <1>3, <1>4, OutsideWrite
  <2>2. store[x].owner = 0 /\ x \notin Roots
    BY <1>1, AbsentFields, Subsets DEF TypeInv, AbsentSafe
  <2>3. MadeElsewhere(x)
    BY <1>1, <1>4, <2>1, <2>2 DEF Cluster, UserCreate, UserDelete, UserEdit, UserDeleteChild,
       UserMakes, Collect, FinishForeground, Exists
  <2>4. left \in [Events -> Nat] /\ "elsewhere" \in Events
    BY EventNames DEF TypeInv, TypeOK
  <2> QED
    BY <2>3, <2>4 DEF MadeElsewhere, Spend
<1>5. ~(DbPodGuard \/ DbPodRelease)
  BY <1>1, <1>3, DbPodWrite
<1>6. ~((\E k \in Kinds : Deliver(k)) \/ Restart \/ UNCHANGED vars)
  BY <1>1 DEF Deliver, Restart, vars, objects
<1> QED
  BY <1>2, <1>4, <1>5, <1>6 DEF Next

\* No pass, however old the copies it works from, makes a cluster role or its binding for
\* a CoreExt that is gone or lacks its finalizer.
THEOREM RightsGuarded == Spec => GuardedRights
<1>1. TypeInv /\ Guarded /\ [Next]_vars =>
        [\A x \in ClusterScoped :
           ~Exists(x) /\ store'[x].uid # 0 =>
             \/ left'["elsewhere"] # left["elsewhere"]
             \/ store["ext"].uid # 0 /\ store["ext"].fin]_vars
  BY RightsStep
<1> QED
  BY <1>1, AlwaysGuarded, PTL DEF Spec, GuardedRights

-----------------------------------------------------------------------------
(***************************************************************************)
(* The life cycle.                                                         *)
(***************************************************************************)

LEMMA LifeInit == Init => \A c \in Controllers : Life(c)!Init
<1> SUFFICES ASSUME Init, NEW c \in Controllers PROVE Life(c)!Init
  OBVIOUS
<1>1. c \in Kinds /\ PartsOf[c] \subseteq Kinds
  BY Subsets, Parts
<1>2. store = [k \in Kinds |-> Absent]
  BY DEF Init
<1> QED
  BY <1>1, <1>2, AbsentFields DEF Life!Init

\* A step that leaves the object and the owners of its parts alone.
LEMMA LifeSame ==
  ASSUME NEW c \in Controllers,
         store'[c].uid = store[c].uid, store'[c].fin = store[c].fin, store'[c].del = store[c].del,
         \A x \in PartsOf[c] : store'[x].owner = store[x].owner
  PROVE  [Life(c)!Next]_(Life(c)!vars)
BY DEF Life!vars

\* A write of the object itself.
LEMMA LifeOwn ==
  ASSUME TypeInv, NEW c \in Controllers, NEW v \in Versions, Put(c, v),
         \/ store[c].uid = 0 /\ v.uid = NewUid(c) /\ ~v.fin /\ ~v.del
         \/ store[c].uid # 0 /\ v.uid = store[c].uid /\ v.fin = store[c].fin
              /\ (store[c].del => v.del)
         \/ store[c].uid # 0 /\ v.uid = store[c].uid /\ v.fin /\ v.del = store[c].del /\ ~v.del
         \/ store[c].uid # 0 /\ v.uid = store[c].uid /\ ~v.fin /\ v.del /\ store[c].del
         \/ store[c].uid # 0 /\ v = Absent /\ (store[c].fin => store[c].del)
  PROVE  [Life(c)!Next]_(Life(c)!vars)
<1>1. /\ c \in Kinds /\ PartsOf[c] \subseteq Kinds /\ c \notin PartsOf[c]
      /\ store[c] \in Versions
  BY Subsets, Parts DEF TypeInv, TypeOK
<1>2. store'[c] = v /\ \A x \in PartsOf[c] : store'[x].owner = store[x].owner
  BY <1>1, PutFields
<1>3. {store[c].fin, store[c].del, v.fin, v.del} \subseteq BOOLEAN
  BY <1>1 DEF Versions
<1>4. CASE store[c].uid = 0 /\ v.uid = NewUid(c) /\ ~v.fin /\ ~v.del
  <2>1. ~store[c].fin /\ ~store[c].del
    BY <1>1, <1>4, AbsentFields DEF TypeInv, AbsentSafe
  <2>2. NewUid(c) \in Nat \ {0} /\ \A x \in PartsOf[c] : NewUid(c) # store[x].owner
    BY <1>1, NewUidIsNew DEF UidsInUse
  <2>3. Life(c)!Appear
    BY <1>2, <1>3, <1>4, <2>1, <2>2 DEF Life!Appear
  <2> QED
    BY <2>3 DEF Life!Next
<1>5. CASE store[c].uid # 0 /\ v.uid = store[c].uid /\ v.fin = store[c].fin
              /\ (store[c].del => v.del)
  <2>1. CASE v.del = store[c].del
    BY <1>2, <1>5, <2>1, LifeSame
  <2>2. CASE v.del /\ ~store[c].del
    <3>1. Life(c)!Condemn
      BY <1>2, <1>3, <1>5, <2>2 DEF Life!Condemn
    <3> QED
      BY <3>1 DEF Life!Next
  <2> QED
    BY <1>3, <1>5, <2>1, <2>2
<1>6. CASE store[c].uid # 0 /\ v.uid = store[c].uid /\ v.fin /\ v.del = store[c].del /\ ~v.del
  <2>1. CASE store[c].fin
    BY <1>2, <1>3, <1>6, <2>1, LifeSame
  <2>2. CASE ~store[c].fin
    <3>1. Life(c)!Guard
      BY <1>2, <1>3, <1>6, <2>2 DEF Life!Guard
    <3> QED
      BY <3>1 DEF Life!Next
  <2> QED
    BY <2>1, <2>2
<1>7. CASE store[c].uid # 0 /\ v.uid = store[c].uid /\ ~v.fin /\ v.del /\ store[c].del
  <2>1. CASE store[c].fin
    <3>1. Life(c)!Release
      BY <1>2, <1>3, <1>7, <2>1 DEF Life!Release
    <3> QED
      BY <3>1 DEF Life!Next
  <2>2. CASE ~store[c].fin
    BY <1>2, <1>3, <1>7, <2>2, LifeSame
  <2> QED
    BY <2>1, <2>2
<1>8. CASE store[c].uid # 0 /\ v = Absent /\ (store[c].fin => store[c].del)
  <2>1. Life(c)!Vanish
    BY <1>2, <1>8, AbsentFields DEF Life!Vanish
  <2>2. Life(c)!Go \/ Life(c)!Release \/ Life(c)!Condemn
    BY <1>3, <1>8, <2>1 DEF Life!Go, Life!Release, Life!Condemn
  <2> QED
    BY <2>2 DEF Life!Next
<1> QED
  BY <1>4, <1>5, <1>6, <1>7, <1>8

\* A write of another object, which makes no part for it.
LEMMA LifeOther ==
  ASSUME TypeInv, NEW c \in Controllers, NEW x \in Kinds, x # c, NEW v, Put(x, v),
         v.owner = store[x].owner \/ v.owner = 0
  PROVE  [Life(c)!Next]_(Life(c)!vars)
<1>1. /\ store'[x] = v /\ \A k \in Kinds : k # x => store'[k] = store[k]
      /\ c \in Kinds /\ PartsOf[c] \subseteq Kinds
  BY PutFields, Subsets, Parts
<1>2. store'[c] = store[c]
  BY <1>1
<1>3. CASE x \notin PartsOf[c] \/ v.owner = store[x].owner
  BY <1>1, <1>2, <1>3, LifeSame
<1>4. CASE x \in PartsOf[c] /\ v.owner = 0 /\ store[x].owner # 0
  <2>1. [y \in PartsOf[c] |-> store'[y].owner]
          = [[y \in PartsOf[c] |-> store[y].owner] EXCEPT ![x] = 0]
    BY <1>1, <1>4
  <2>2. Life(c)!Lose(x)
    BY <1>2, <1>4, <2>1 DEF Life!Lose
  <2> QED
    BY <1>4, <2>2 DEF Life!Next
<1> QED
  BY <1>3, <1>4

LEMMA OutsideLife ==
  ASSUME TypeInv, NEW c \in Controllers, NEW k \in Kinds, NEW v \in Versions,
         Put(k, v), Outside(k, v)
  PROVE  [Life(c)!Next]_(Life(c)!vars)
<1>1. CASE k = c
  BY <1>1, LifeOwn DEF Outside, Born, Kept, Gone
<1>2. CASE k # c
  <2>1. v.owner = store[k].owner \/ v.owner = 0
    BY AbsentFields DEF Outside, Born, Kept, Gone
  <2> QED
    BY <1>2, <2>1, LifeOther
<1> QED
  BY <1>1, <1>2

\* The writes a pass makes to its own object.
LEMMA OwnLife ==
  ASSUME TypeInv, Guarded, NEW c \in Controllers, NEW d \in Controllers,
         Guards(d) \/ Reports(d) \/ Releases(d)
  PROVE  [Life(c)!Next]_(Life(c)!vars)
<1>1. d \in Kinds /\ store[d] \in Versions /\ PassSafe(d)
  BY Subsets DEF TypeInv, TypeOK, Guarded
<1>2. store[d].uid # 0
  BY <1>1 DEF PassSafe, Guards, Reports, Releases
<1>3. {store[d].fin, store[d].del} \subseteq BOOLEAN
  BY <1>1 DEF Versions
<1>4. CASE Guards(d)
  <2> DEFINE v == [store[d] EXCEPT !.fin = TRUE]
  <2>1. /\ v \in Versions /\ v.uid = store[d].uid /\ v.owner = store[d].owner /\ v.fin
        /\ v.del = store[d].del
    BY <1>1 DEF Versions
  <2>2. Put(d, v) /\ ~store[d].del
    BY <1>1, <1>4 DEF Guards, PassSafe
  <2> HIDE DEF v
  <2> QED
    BY <1>1, <1>2, <2>1, <2>2, LifeOwn, LifeOther
<1>5. CASE Reports(d)
  <2>1. PICK s \in Status : Put(d, [store[d] EXCEPT !.status = s])
    BY <1>5 DEF Reports
  <2> DEFINE v == [store[d] EXCEPT !.status = s]
  <2>2. /\ v \in Versions /\ v.uid = store[d].uid /\ v.owner = store[d].owner
        /\ v.fin = store[d].fin /\ v.del = store[d].del
    BY <1>1 DEF Versions
  <2>3. Put(d, v)
    BY <2>1
  <2> HIDE DEF v
  <2> QED
    BY <1>1, <1>2, <2>2, <2>3, LifeOwn, LifeOther
<1>6. CASE Releases(d)
  <2> DEFINE v == [store[d] EXCEPT !.fin = FALSE]
  <2>1. /\ v \in Versions /\ v.uid = store[d].uid /\ v.owner = store[d].owner /\ ~v.fin
        /\ v.del = store[d].del
    BY <1>1 DEF Versions
  <2>2. Put(d, Settle(v)) /\ store[d].fin /\ store[d].del
    BY <1>1, <1>6 DEF Releases, PassSafe
  <2> HIDE DEF v
  <2>3. Settle(v) \in Versions /\ (Settle(v) = Absent \/ Settle(v) = v)
    BY <2>1, SettleFields
  <2>4. Settle(v).owner = store[d].owner \/ Settle(v).owner = 0
    BY <2>1, <2>3, AbsentFields
  <2>5. CASE c = d
    BY <1>2, <2>1, <2>2, <2>3, <2>5, LifeOwn
  <2>6. CASE c # d
    BY <1>1, <2>2, <2>4, <2>6, LifeOther
  <2> QED
    BY <2>5, <2>6
<1> QED
  BY <1>4, <1>5, <1>6

\* What a pass creates is a part of its own object, which has its finalizer.
LEMMA CreateLife ==
  ASSUME TypeInv, Guarded, NEW c \in Controllers, NEW d \in Controllers, Creates(d)
  PROVE  [Life(c)!Next]_(Life(c)!vars)
<1>1. PICK x \in Makes[d] : ~Exists(x) /\ Put(x, Made(d, x))
  BY DEF Creates
<1>2. x \in Kinds /\ x # d /\ d \in Kinds
  BY Parts, Subsets
<1>3. store[x].uid = 0 /\ store[x].owner = 0
  BY <1>1, <1>2, AbsentFields DEF Exists, TypeInv, AbsentSafe
<1> DEFINE v == Made(d, x)
<1>4. /\ v \in Versions /\ v.uid = NewUid(x) /\ ~v.fin /\ ~v.del
      /\ v.owner = IF x \in ClusterScoped THEN 0 ELSE work[d].uid
  BY <1>2, MadeFields
<1>5. Put(x, v)
  BY <1>1
<1>6. store[d].uid = work[d].uid /\ store[d].fin
  BY DEF Creates, Guarded, PassSafe
<1> HIDE DEF v
<1>7. CASE x = c
  BY <1>3, <1>4, <1>5, <1>7, LifeOwn
<1>8. CASE x # c /\ x \in PartsOf[c]
  <2>1. d = c /\ x \notin ClusterScoped
    BY <1>8, Parts
  <2>2. store'[c] = store[c] /\ store'[x].owner = store[c].uid
    BY <1>2, <1>4, <1>5, <1>6, <1>8, <2>1, PutFields
  <2>3. [y \in PartsOf[c] |-> store'[y].owner]
          = [[y \in PartsOf[c] |-> store[y].owner] EXCEPT ![x] = store[c].uid]
    <3>1. PartsOf[c] \subseteq Kinds
      BY Parts
    <3>2. \A y \in PartsOf[c] : y # x => store'[y] = store[y]
      BY <1>2, <1>5, <3>1, PutFields
    <3> QED
      BY <1>8, <2>2, <3>2
  <2>4. Life(c)!Make(x)
    BY <1>3, <1>6, <1>8, <2>1, <2>2, <2>3 DEF Life!Make
  <2> QED
    BY <1>8, <2>4 DEF Life!Next
<1>9. CASE x # c /\ x \notin PartsOf[c]
  <2>1. store'[c] = store[c] /\ \A y \in PartsOf[c] : store'[y] = store[y]
    BY <1>2, <1>5, <1>9, Subsets, Parts, PutFields
  <2> QED
    BY <2>1, LifeSame
<1> QED
  BY <1>7, <1>8, <1>9

LEMMA LifeStep ==
  ASSUME TypeInv, Guarded, [Next]_vars, NEW c \in Controllers
  PROVE  [Life(c)!Next]_(Life(c)!vars)
<1>1. CASE store' = store
  BY <1>1, LifeSame
<1>2. CASE \E k \in Kinds, v \in Versions : Write(k, v) /\ Outside(k, v)
  BY <1>2, OutsideLife DEF Write
<1> QED
  BY <1>1, <1>2, StepWrites, OwnLife, CreateLife

\* Each of the three controllers implements Lifecycle, whatever the others do to its
\* object and to its children meanwhile.
THEOREM TreeImplementsLifecycle == Spec => ImplementsLifecycle
<1>1. TypeInv /\ Guarded /\ [Next]_vars
        => [\A c \in Controllers : [Life(c)!Next]_(Life(c)!vars)]_vars
  BY LifeStep
<1> QED
  BY <1>1, LifeInit, AlwaysGuarded, PTL DEF Spec, ImplementsLifecycle

-----------------------------------------------------------------------------
(***************************************************************************)
(* What the finalizer of an OrgPod waits for.                              *)
(***************************************************************************)

ByHand == {"dep", "nodeport"}

LEMMA ByHandNames ==
  ASSUME NEW k \in ByHand \cap Kinds
  PROVE  /\ k \notin Controllers /\ k \notin Pods /\ k \notin Roots /\ k \notin ClusterScoped
         /\ k # "dbpod"
         /\ \A c \in Controllers : k \notin Makes[c] /\ k \notin PartsOf[c]
<1>1. k \notin Controllers /\ k \notin Pods /\ k \notin Roots /\ k \notin ClusterScoped /\ k # "dbpod"
  BY Subsets DEF ByHand, Controllers, Pods, ClusterScoped
<1>2. ASSUME NEW c \in Controllers PROVE k \notin Makes[c]
  BY Orders, Subsets DEF ByHand
<1> QED
  BY <1>1, <1>2, Parts

\* Only users make it.
LEMMA MadeByUser ==
  ASSUME TypeInv, [Next]_vars, NEW k \in ByHand \cap Kinds, store[k].uid = 0, store'[k].uid # 0
  PROVE  UserMakes(k) /\ seen' = seen /\ \A c \in Controllers : work'[c].pc = work[c].pc
                                                        /\ work'[c].todo = work[c].todo
<1>1. ASSUME NEW c \in Controllers, Pass(c) \/ ApiError(c) PROVE FALSE
  <2>1. c \in Kinds /\ c # k /\ k \notin Makes[c] /\ Makes[c] \subseteq Kinds
    BY ByHandNames, Subsets, Parts
  <2>2. UNCHANGED objects \/ Guards(c) \/ Reports(c) \/ Releases(c) => store'[k] = store[k]
    BY <2>1, PutFields DEF objects, Guards, Reports, Releases
  <2>3. Creates(c) => store'[k] = store[k]
    BY <2>1, PutFields DEF Creates
  <2> QED
    BY <1>1, <2>2, <2>3, PassWrites
<1>2. ASSUME NEW x \in Kinds, NEW v \in Versions, Write(x, v) PROVE k = x
  BY <1>2, PutFields DEF Write
<1>3. ASSUME NEW x \in Kinds, Cluster(x) PROVE UserMakes(k)
  <2>1. k = x
    BY <1>2, <1>3, OutsideWrite
  <2>2. store[k].owner = 0
    BY AbsentFields DEF TypeInv, AbsentSafe
  <2> QED
    BY <1>3, <2>1, <2>2, ByHandNames DEF Cluster, UserCreate, UserDelete, UserEdit,
       UserDeleteChild, MadeElsewhere, Collect, FinishForeground, Exists
<1>4. ~(DbPodGuard \/ DbPodRelease)
  BY <1>2, DbPodWrite, ByHandNames
<1>5. ~((\E x \in Kinds : Deliver(x)) \/ Restart \/ UNCHANGED vars)
  BY DEF Deliver, Restart, vars, objects
<1>6. UserMakes(k)
  BY <1>1, <1>3, <1>4, <1>5 DEF Next
<1>7. seen' = seen /\ work' = Outdate(k) /\ work \in [Controllers -> Passes]
  BY <1>6 DEF UserMakes, Write, TypeInv, TypeOK
<1> QED
  BY <1>6, <1>7 DEF Outdate, Passes

LEMMA InTail ==
  ASSUME NEW s \in Seq(Kinds), s # <<>>
  PROVE  InOrder(s) \subseteq {Head(s)} \cup InOrder(Tail(s))
<1> SUFFICES ASSUME NEW i \in DOMAIN s PROVE s[i] \in {Head(s)} \cup InOrder(Tail(s))
  BY DEF InOrder
<1>1. Len(s) \in Nat /\ DOMAIN s = 1..Len(s) /\ i \in 1..Len(s)
  BY LenProperties
<1>2. /\ Head(s) = s[1] /\ Tail(s) \in Seq(Kinds) /\ Len(Tail(s)) = Len(s) - 1
      /\ \A j \in 1..Len(Tail(s)) : Tail(s)[j] = s[j+1]
  BY HeadTailProperties
<1>3. CASE i = 1
  BY <1>2, <1>3
<1>4. CASE i # 1
  <2>1. i - 1 \in 1..Len(Tail(s)) /\ (i - 1) + 1 = i
    BY <1>1, <1>2, <1>4
  <2>2. DOMAIN Tail(s) = 1..Len(Tail(s))
    BY <1>2, LenProperties
  <2> QED
    BY <1>2, <2>1, <2>2 DEF InOrder
<1> QED
  BY <1>3, <1>4

LEMMA StartTodo ==
  ASSUME TypeInv, NEW c \in Controllers, StartPass(c), work'[c].pc = "delete"
  PROVE  work'[c].todo = CheckOrder[c]
<1>1. work \in [Controllers -> Passes] /\ {seen[c].del, seen[c].fin} \subseteq BOOLEAN
  BY Subsets DEF TypeInv, TypeOK, Versions
<1>2. ASSUME NEW step, NEW todo,
             work' = [work EXCEPT ![c] = [pc |-> step, todo |-> todo, uid |-> seen[c].uid,
                                          status |-> seen[c].status, latest |-> c \in fresh]]
      PROVE  work'[c].pc = step /\ work'[c].todo = todo
  BY <1>1, <1>2
<1>3. CASE seen[c].uid = 0 \/ (seen[c].del /\ ~seen[c].fin)
  BY <1>3 DEF StartPass
<1>4. CASE seen[c].uid # 0 /\ ~seen[c].del /\ ~seen[c].fin
  <2>1. work'[c].pc = "finalizer"
    BY <1>2, <1>4 DEF StartPass
  <2> QED
    BY <2>1
<1>5. CASE seen[c].uid # 0 /\ ~seen[c].del /\ seen[c].fin
  <2>1. work'[c].pc = StatusStep(c, seen[c].status)
    BY <1>2, <1>5 DEF StartPass
  <2> QED
    BY <2>1 DEF StatusStep
<1>6. CASE seen[c].uid # 0 /\ seen[c].del /\ seen[c].fin
  BY <1>2, <1>6 DEF StartPass
<1> QED
  BY <1>1, <1>3, <1>4, <1>5, <1>6

\* The pass of an OrgPod has found what is no longer before it.
LEMMA FoundByPass ==
  ASSUME TypeInv, [Next]_vars, NEW k \in ByHand \cap Kinds, "org" \in Kinds,
         work'["org"].pc = "delete", k \notin InOrder(work'["org"].todo)
  PROVE  MadeByHand(k)
<1> DEFINE o == "org"
<1>1. /\ o \in Controllers /\ work \in [Controllers -> Passes] /\ work[o] \in Passes
      /\ work[o].todo \in Seq(Kinds)
  BY DEF Controllers, TypeInv, TypeOK, Passes
<1>2. EndPass(o) \/ Retry(o) => FALSE
  BY <1>1, IdleFields DEF Retry, EndPass
<1>3. CASE work'[o].pc = work[o].pc /\ work'[o].todo = work[o].todo
  BY <1>3 DEF MadeByHand
<1>4. CASE work'[o] = work[o]
  BY <1>3, <1>4
<1>5. CASE Pass(o)
  <2>1. CASE StartPass(o)
    <3>1. k \in InOrder(CheckOrder[o])
      BY <1>1, Orders DEF ByHand
    <3>2. work'[o].todo = CheckOrder[o]
      BY <1>1, <2>1, StartTodo
    <3> QED
      BY <3>1, <3>2
  <2>2. CASE AddFinalizer(o) \/ NameStatus(o) \/ InitiateStatus(o) \/ Ensure(o)
    <3>1. ASSUME AddFinalizer(o) PROVE work'[o].pc # "delete"
      <4>1. StatusStep(o, work[o].status) # "delete"
        BY DEF StatusStep
      <4> QED
        BY <1>1, <1>2, <3>1, <4>1 DEF AddFinalizer, Passes
    <3>2. ASSUME NameStatus(o) \/ InitiateStatus(o) PROVE work'[o].pc # "delete"
      BY <1>1, <3>2 DEF NameStatus, InitiateStatus, StatusUpdate, Passes
    <3>3. ASSUME Ensure(o) PROVE work'[o].pc # "delete"
      <4>1. work[o].pc = "ensure" /\ (Advance(o) \/ EndPass(o))
        BY <3>3 DEF Ensure, Create, Retry
      <4> QED
        BY <1>1, <1>2, <4>1 DEF Advance, Passes
    <3> QED
      BY <2>2, <3>1, <3>2, <3>3
  <2>3. CASE DeleteExternalResources(o)
    <3> DEFINE s == work[o].todo
    <3>1. /\ Head(s) \in Kinds /\ seen[Head(s)].uid # 0 /\ s # <<>> /\ work[o].pc = "delete"
          /\ work' = [work EXCEPT ![o].todo = Tail(@)]
      BY <1>2, <2>3 DEF DeleteExternalResources
    <3>2. work'[o].todo = Tail(s)
      BY <1>1, <3>1 DEF Passes
    <3>3. k \notin InOrder(s) \/ k = Head(s)
      BY <1>1, <3>1, <3>2, InTail
    <3> QED
      BY <3>1, <3>3 DEF MadeByHand
  <2>4. CASE Release(o)
    BY <1>2, <2>4 DEF Release
  <2> QED
    BY <1>5, <2>1, <2>2, <2>3, <2>4 DEF Pass
<1>6. CASE ApiError(o)
  BY <1>2, <1>6 DEF ApiError
<1>7. ASSUME NEW c \in Controllers, c # o, Pass(c) \/ ApiError(c) PROVE work'[o] = work[o]
  BY <1>1, <1>7, PassWrites
<1>8. ASSUME NEW x, NEW v, Write(x, v)
      PROVE  work'[o].pc = work[o].pc /\ work'[o].todo = work[o].todo
  BY <1>1, <1>8 DEF Write, Outdate, Passes
<1>9. CASE (\E x \in Kinds : Cluster(x)) \/ DbPodGuard \/ DbPodRelease
  BY <1>3, <1>8, <1>9, OutsideWrite, DbPodWrite
<1>10. CASE (\E x \in Kinds : Deliver(x)) \/ UNCHANGED vars
  BY <1>4, <1>10 DEF Deliver, vars
<1>11. ~Restart
  BY <1>1, IdleFields DEF Restart
<1> QED
  BY <1>4, <1>5, <1>6, <1>7, <1>9, <1>10, <1>11 DEF Next

\* It is made by hand in no other step than UserMakes.
LEMMA MadeByHandStep ==
  ASSUME TypeInv, [Next]_vars, NEW k \in ByHand, ~MadeByHand(k), MadeByHand(k)'
  PROVE  UserMakes(k) /\ k \in Kinds /\ store[k].uid = 0 /\ store'[k].uid # 0
<1>1. k \in Kinds /\ store[k].uid = 0 /\ seen[k].uid = 0
  BY DEF MadeByHand
<1>2. ~("org" \in Kinds /\ work'["org"].pc = "delete" /\ k \notin InOrder(work'["org"].todo))
  BY <1>1, FoundByPass
<1>3. store'[k].uid # 0 \/ seen'[k].uid # 0
  BY <1>2 DEF MadeByHand
<1>4. ASSUME store'[k].uid = 0 PROVE FALSE
  <2>1. seen'[k] # seen[k]
    BY <1>1, <1>3, <1>4
  <2>2. ASSUME NEW c \in Controllers, Pass(c) \/ ApiError(c) PROVE seen' = seen
    BY <2>2, PassWrites
  <2>3. CASE (\E x \in Kinds : Cluster(x)) \/ DbPodGuard \/ DbPodRelease
    BY <2>1, <2>3, OutsideWrite, DbPodWrite DEF Write
  <2>4. (\E x \in Kinds : Deliver(x)) \/ Restart
    BY <2>1, <2>2, <2>3 DEF Next, vars
  <2>5. seen'[k] = Copy(store[k]) /\ store[k] \in Versions
    BY <1>1, <2>1, <2>4 DEF Deliver, Restart, TypeInv, TypeOK
  <2> QED
    BY <1>1, <1>3, <1>4, <2>5, CopyFields
<1> QED
  BY <1>1, <1>4, MadeByUser

\* No step gives a disturbance back.
LEMMA LeftFalls ==
  ASSUME TypeOK, [Next]_vars, NEW e \in Events
  PROVE  left'[e] \in Nat /\ left'[e] <= left[e]
<1>1. (\E f \in Events : Spend(f)) \/ left' = left
  <2>1. CASE \E c \in Controllers : Pass(c) \/ ApiError(c)
    BY <2>1, EventNames DEF Pass, ApiError, StartPass, AddFinalizer, NameStatus, InitiateStatus,
       StatusUpdate, Ensure, Create, DeleteExternalResources, Release
  <2>2. CASE (\E k \in Kinds : Cluster(k)) \/ DbPodGuard \/ DbPodRelease
    BY <2>2, EventNames DEF Cluster, UserCreate, UserDelete, UserEdit, UserDeleteChild, UserMakes,
       MadeElsewhere, Collect, FinishForeground, DbPodGuard, DbPodRelease
  <2>3. CASE (\E k \in Kinds : Deliver(k)) \/ Restart \/ UNCHANGED vars
    BY <2>3, EventNames DEF Deliver, Restart, vars
  <2> QED
    BY <2>1, <2>2, <2>3 DEF Next
<1>2. left \in [Events -> Nat]
  BY DEF TypeOK
<1> QED
  BY <1>1, <1>2 DEF Spend

LEMMA HandsInit == Init => HandsSafe
<1> SUFFICES ASSUME Init PROVE HandsSafe
  OBVIOUS
<1>1. ~MadeByHand("dep") /\ ~MadeByHand("nodeport")
  BY AbsentFields, IdleFields DEF Init, MadeByHand, Controllers
<1>2. left["byHand"] = Limits["byHand"] /\ Limits["byHand"] \in Nat
  BY TreeAssumption, EventNames DEF Init
<1> QED
  BY <1>1, <1>2 DEF HandsSafe

LEMMA HandsStep == TypeInv /\ HandsSafe /\ [Next]_vars => HandsSafe'
<1> SUFFICES ASSUME TypeInv, HandsSafe, [Next]_vars PROVE HandsSafe'
  OBVIOUS
<1> DEFINE l == left["byHand"]
           m == left'["byHand"]
           L == Limits["byHand"]
<1>1. l \in Nat /\ L \in Nat
  BY TreeAssumption, EventNames DEF TypeInv, TypeOK
<1>2. m \in Nat /\ m <= l
  BY LeftFalls, EventNames DEF TypeInv
<1>3. CASE \E k \in ByHand : ~MadeByHand(k) /\ MadeByHand(k)'
  <2>1. PICK k \in ByHand : ~MadeByHand(k) /\ MadeByHand(k)'
    BY <1>3
  <2>2. UserMakes(k) /\ k \in Kinds
    BY <2>1, MadeByHandStep
  <2>3. m = l - 1
    BY <2>2, EventNames DEF UserMakes, Spend, TypeInv, TypeOK
  <2>4. \A x \in Kinds : x # k => store'[x] = store[x]
    BY <2>2, PutFields DEF UserMakes, Write
  <2>5. ASSUME NEW x \in ByHand, x # k, MadeByHand(x)' PROVE MadeByHand(x)
    BY <2>4, <2>5, MadeByHandStep
  <2>6. \/ MadeByHand("dep")' => MadeByHand("dep")
        \/ MadeByHand("nodeport")' => MadeByHand("nodeport")
    BY <2>5 DEF ByHand
  <2> HIDE DEF l, m, L
  <2>7. l + (IF MadeByHand("dep") THEN 1 ELSE 0) + (IF MadeByHand("nodeport") THEN 1 ELSE 0) <= L
    BY DEF HandsSafe, l, L
  <2>8. m + (IF MadeByHand("dep")' THEN 1 ELSE 0) + (IF MadeByHand("nodeport")' THEN 1 ELSE 0) <= L
    BY <1>1, <2>3, <2>6, <2>7
  <2> QED
    BY <2>8 DEF HandsSafe, m, L
<1>4. CASE ~\E k \in ByHand : ~MadeByHand(k) /\ MadeByHand(k)'
  <2>1. (MadeByHand("dep")' => MadeByHand("dep")) /\ (MadeByHand("nodeport")' => MadeByHand("nodeport"))
    BY <1>4 DEF ByHand
  <2> HIDE DEF l, m, L
  <2>2. l + (IF MadeByHand("dep") THEN 1 ELSE 0) + (IF MadeByHand("nodeport") THEN 1 ELSE 0) <= L
    BY DEF HandsSafe, l, L
  <2>3. m + (IF MadeByHand("dep")' THEN 1 ELSE 0) + (IF MadeByHand("nodeport")' THEN 1 ELSE 0) <= L
    BY <1>1, <1>2, <2>1, <2>2
  <2> QED
    BY <2>3 DEF HandsSafe, m, L
<1> QED
  BY <1>3, <1>4

\* The finalizer of a controller's own object is taken off by its pass only.
LEMMA ReleaseOnly ==
  ASSUME TypeInv, Guarded, [Next]_vars, NEW c \in Controllers, store[c].fin, ~store'[c].fin
  PROVE  Releases(c) /\ left'["byHand"] = left["byHand"]
<1>1. c \in Kinds /\ store[c] \in Versions /\ store[c].uid # 0
  BY Subsets, AbsentFields DEF TypeInv, TypeOK, AbsentSafe
<1>2. ASSUME NEW k \in Kinds, NEW v \in Versions, Write(k, v), Outside(k, v) PROVE FALSE
  <2>1. k = c /\ store'[c] = v
    BY <1>1, <1>2, PutFields DEF Write
  <2> QED
    BY <1>2, <2>1, OutsideFields
<1>3. CASE (\E k \in Kinds : Cluster(k)) \/ DbPodGuard \/ DbPodRelease
  BY <1>2, <1>3, OutsideWrite, DbPodWrite
<1>4. CASE (\E k \in Kinds : Deliver(k)) \/ Restart \/ UNCHANGED vars
  BY <1>4 DEF Deliver, Restart, vars, objects
<1>5. ASSUME NEW d \in Controllers, Pass(d) \/ ApiError(d)
      PROVE  Releases(c) /\ left'["byHand"] = left["byHand"]
  <2>1. d \in Kinds
    BY Subsets
  <2>2. ASSUME d # c PROVE UNCHANGED objects \/ Guards(d) \/ Reports(d) \/ Releases(d) => FALSE
    BY <1>1, <2>1, <2>2, PutFields DEF objects, Guards, Reports, Releases
  <2>3. ~Creates(d)
    <3>1. ASSUME NEW x \in Makes[d], ~Exists(x), Put(x, Made(d, x)) PROVE FALSE
      <4>1. x \in Kinds /\ x # c
        BY <1>1, <3>1, Parts DEF Exists
      <4> QED
        BY <1>1, <3>1, <4>1, PutFields
    <3> QED
      BY <3>1 DEF Creates
  <2>4. ~Guards(c) /\ ~UNCHANGED objects
    <3>1. Guards(c) => store'[c].fin
      BY <1>1, PutFields DEF Guards, Versions
    <3> QED
      BY <3>1 DEF objects
  <2>5. ~Reports(c)
    <3>1. ASSUME NEW s, Put(c, [store[c] EXCEPT !.status = s]) PROVE FALSE
      BY <1>1, <3>1, PutFields DEF Versions
    <3> QED
      BY <3>1 DEF Reports
  <2> QED
    BY <1>5, <2>2, <2>3, <2>4, <2>5, PassWrites
<1> QED
  BY <1>3, <1>4, <1>5 DEF Next

LEMMA HandsCounted ==
  Len(Followed("dep") \o Followed("nodeport"))
    = (IF "dep" \in Kinds THEN 1 ELSE 0) + (IF "nodeport" \in Kinds THEN 1 ELSE 0)
<1>1. \A k : Followed(k) \in Seq(Kinds) /\ Len(Followed(k)) = IF k \in Kinds THEN 1 ELSE 0
  BY DEF Followed
<1> QED
  BY <1>1, ConcatProperties

LEMMA HandsReleased ==
  ASSUME TypeInv, Guarded, HandsSafe, [Next]_vars,
         \E k \in {"org"} \cap Kinds : store[k].fin /\ ~store'[k].fin
  PROVE  left["byHand"] + Len(Followed("dep") \o Followed("nodeport")) <= Limits["byHand"]
<1>1. "org" \in Kinds /\ "org" \in Controllers /\ store["org"].fin /\ ~store'["org"].fin
  BY DEF Controllers
<1>2. work["org"].pc = "delete" /\ work["org"].todo = <<>>
  BY <1>1, ReleaseOnly DEF Releases
<1>3. InOrder(work["org"].todo) = {}
  BY <1>2 DEF InOrder
<1>4. ("dep" \in Kinds => MadeByHand("dep")) /\ ("nodeport" \in Kinds => MadeByHand("nodeport"))
  BY <1>1, <1>2, <1>3 DEF MadeByHand
<1>5. left["byHand"] \in Nat /\ Limits["byHand"] \in Nat
  BY EventNames, TreeAssumption DEF TypeInv, TypeOK
<1>6. left["byHand"] + (IF MadeByHand("dep") THEN 1 ELSE 0)
        + (IF MadeByHand("nodeport") THEN 1 ELSE 0) <= Limits["byHand"]
  BY DEF HandsSafe
<1>7. left["byHand"] + ((IF "dep" \in Kinds THEN 1 ELSE 0) + (IF "nodeport" \in Kinds THEN 1 ELSE 0))
        <= Limits["byHand"]
  BY <1>4, <1>5, <1>6
<1> QED
  BY <1>7, HandsCounted

\* An OrgPod keeps its finalizer until somebody has made the Deployment and the Service
\* that no controller makes: no order of passes, faults and restarts lets it come off
\* sooner.
THEOREM ReleaseTakesHands == Spec => ReleasedByHand
<1>1. Spec => []HandsSafe
  BY HandsInit, HandsStep, AlwaysGuarded, PTL DEF Spec
<1>2. TypeInv /\ Guarded /\ HandsSafe /\ [Next]_vars =>
        [(\E k \in {"org"} \cap Kinds : store[k].fin /\ ~store'[k].fin)
           => left["byHand"] + Len(Followed("dep") \o Followed("nodeport")) <= Limits["byHand"]]_vars
  BY HandsReleased
<1> QED
  BY <1>1, <1>2, AlwaysGuarded, PTL DEF Spec, ReleasedByHand
=============================================================================
