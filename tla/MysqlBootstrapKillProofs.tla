---------------------- MODULE MysqlBootstrapKillProofs ----------------------
(***************************************************************************)
(* Kills outside the windows are harmless, for any number of Pods and      *)
(* transactions, and any number of kills: the proof of KillsHarmless.      *)
(***************************************************************************)
EXTENDS MysqlBootstrapProofs

\* A copy is consistent once the clone has been prepared, and the clone is not done before:
\* no server initialises the volume of a replica.
CloneSafe(r) ==
  /\ mysqld[r] # "initialising"
  /\ dir[r] = "mysql" => sound[r] = IF clone[r] = "prepare" THEN "unprepared" ELSE "yes"
  /\ clone[r] \in {"prepare", "done"} => dir[r] = "mysql"

\* Coordinates that came with the data are somewhere until they are those of a master.
CoordinatesSafe(r) ==
  /\ dir[r] = "mysql" => \/ slave[r] # None \/ binlog[r] # None \/ parsed[r] # None
                         \/ change[r] # None \/ master[r] # None
  /\ side[r] \in {"rename", "serve"} => master[r] # None
  /\ side[r] = "serve" => change[r] = None

\* A server that has a master while the file that sets it up is still there does not
\* replicate yet, unless the script has come to the renaming.
SetUpSafe(r) ==
  master[r] # None /\ change[r] # None /\ side[r] # "rename" => mysqld[r] = "up" /\ ~running[r]

\* The predecessor serves for the whole of the transfer.
SourceSafe(r) == clone[r] = "transfer" => mysqld[r - 1] = "up" /\ side[r - 1] = "serve"

ReplicaSafe(r) == CloneSafe(r) /\ CoordinatesSafe(r) /\ SetUpSafe(r) /\ SourceSafe(r)

\* The primary's volume is consistent once it has been initialised.
LogSafe == dir[Primary] = "mysql" => sound[Primary] = "yes" \/ mysqld[Primary] = "initialising"

Harmless ==
  /\ Unhurt(Primary) => LogSafe
  /\ \A r \in Ordinals \ {Primary} : Unhurt(r) => ReplicaSafe(r)
-----------------------------------------------------------------------------
\* What a Pod does, kills apart.
Works(r) == Script(r) \/ RefuseFiles(r) \/ StartServer(r) \/ Replicate(r)

LEMMA HarmlessInit == Init => Harmless
<1> SUFFICES ASSUME Init PROVE Harmless
  OBVIOUS
<1> USE Domains DEF Init, Everywhere
<1>1. LogSafe
  BY DEF LogSafe
<1>2. ASSUME NEW r \in Ordinals PROVE ReplicaSafe(r)
  BY DEF ReplicaSafe, CloneSafe, CoordinatesSafe, SetUpSafe, SourceSafe
<1> QED
  BY <1>1, <1>2 DEF Harmless

\* A Pod that serves goes on serving until something in it is killed.
LEMMA ServesOn ==
  ASSUME IInv, NEW r \in Ordinals, Works(r), NEW q \in Ordinals,
         mysqld[q] = "up", side[q] = "serve"
  PROVE  mysqld'[q] = "up" /\ side'[q] = "serve"
<1> USE DEF IInv, TypeOK, Safe, ScriptSafe
<1>1. CASE StartPod(r) \/ CheckData(r) \/ Connect(r) \/ Receive(r) \/ Prepare(r) \/ RefuseFiles(r)
  BY <1>1 DEF StartPod, CheckData, Connect, Receive, Prepare, RefuseFiles, volumes
<1>2. CASE Initialise(r) \/ Initialised(r) \/ StartServer(r) \/ Replicate(r)
  BY <1>2 DEF Initialise, Initialised, StartServer, Replicate, volumes, pods
<1>3. CASE Parse(r) \/ CopySlaveInfo(r) \/ RemoveSlaveInfo(r) \/ WriteChange(r)
  BY <1>3 DEF Parse, CopySlaveInfo, RemoveSlaveInfo, WriteChange, Step
<1>4. CASE ChangeMaster(r) \/ StartSlave(r) \/ Rename(r)
  BY <1>4 DEF ChangeMaster, StartSlave, Rename, Step, Fail, volumes
<1> QED
  BY <1>1, <1>2, <1>3, <1>4 DEF Works, Script

LEMMA WorksHurtsNone ==
  ASSUME NEW r \in Ordinals, Works(r)
  PROVE  hurt' = hurt
BY DEF Works, Script, StartPod, CheckData, Connect, Receive, Prepare, RefuseFiles, Initialise,
   Initialised, StartServer, Replicate, Parse, CopySlaveInfo, RemoveSlaveInfo, WriteChange,
   ChangeMaster, StartSlave, Rename

\* The other Pods stay as they are.
LEMMA OtherPod ==
  ASSUME IInv, NEW r \in Ordinals, Works(r), NEW q \in Ordinals, q # r
  PROVE  /\ dir'[q] = dir[q] /\ sound'[q] = sound[q] /\ slave'[q] = slave[q]
         /\ binlog'[q] = binlog[q] /\ parsed'[q] = parsed[q] /\ change'[q] = change[q]
         /\ master'[q] = master[q] /\ clone'[q] = clone[q] /\ side'[q] = side[q]
         /\ mysqld'[q] = mysqld[q] /\ running'[q] = running[q]
<1> USE DEF IInv, TypeOK
<1>1. CASE StartPod(r) \/ CheckData(r) \/ Connect(r) \/ Receive(r) \/ Prepare(r) \/ RefuseFiles(r)
  BY <1>1 DEF StartPod, CheckData, Connect, Receive, Prepare, RefuseFiles, volumes
<1>2. CASE Initialise(r) \/ Initialised(r) \/ StartServer(r) \/ Replicate(r)
  BY <1>2 DEF Initialise, Initialised, StartServer, Replicate, volumes, pods
<1>3. CASE Parse(r) \/ CopySlaveInfo(r) \/ RemoveSlaveInfo(r) \/ WriteChange(r)
  BY <1>3 DEF Parse, CopySlaveInfo, RemoveSlaveInfo, WriteChange, Step
<1>4. CASE ChangeMaster(r) \/ StartSlave(r) \/ Rename(r)
  BY <1>4 DEF ChangeMaster, StartSlave, Rename, Step, Fail, volumes
<1> QED
  BY <1>1, <1>2, <1>3, <1>4 DEF Works, Script

LEMMA OtherSafe ==
  ASSUME IInv, NEW r \in Ordinals, Works(r), NEW q \in Ordinals \ {Primary}, q # r, ReplicaSafe(q)
  PROVE  ReplicaSafe(q)'
<1>1. q - 1 \in Ordinals
  BY Domains
<1>2. SourceSafe(q)'
  BY <1>1, OtherPod, ServesOn DEF ReplicaSafe, SourceSafe
<1>3. CloneSafe(q)' /\ CoordinatesSafe(q)' /\ SetUpSafe(q)'
  BY OtherPod DEF ReplicaSafe, CloneSafe, CoordinatesSafe, SetUpSafe
<1> QED
  BY <1>2, <1>3 DEF ReplicaSafe

\* The data and the coordinates of a clone are those of a server that serves them.
LEMMA SourceSound ==
  ASSUME IInv, Harmless, NEW r \in Ordinals \ {Primary}, Unhurt(r), clone[r] = "transfer"
  PROVE  sound[r - 1] = "yes" /\ (r - 1 # Primary => master[r - 1] # None)
<1> DEFINE s == r - 1
<1>1. s \in Ordinals /\ r \in Nat
  BY Domains
<1>2. Unhurt(s) /\ Unhurt(Primary) /\ ReplicaSafe(r)
  BY <1>1, Domains DEF Unhurt, Harmless
<1>3. mysqld[s] = "up" /\ side[s] = "serve"
  BY <1>2 DEF ReplicaSafe, SourceSafe
<1> HIDE DEF s
<1>4. dir[s] = "mysql" /\ clone[s] = "done"
  BY <1>1, <1>3 DEF IInv, Safe, VolumeSafe, ScriptSafe
<1>5. CASE s = Primary
  BY <1>2, <1>3, <1>4, <1>5 DEF Harmless, LogSafe, s
<1>6. CASE s # Primary
  <2>1. ReplicaSafe(s)
    BY <1>1, <1>2, <1>6 DEF Harmless
  <2> QED
    BY <1>3, <1>4, <2>1 DEF ReplicaSafe, CloneSafe, CoordinatesSafe, s
<1> QED
  BY <1>5, <1>6

LEMMA OwnSafe ==
  ASSUME IInv, Harmless, NEW r \in Ordinals \ {Primary}, Unhurt(r), Works(r)
  PROVE  ReplicaSafe(r)'
<1>1. /\ ReplicaSafe(r) /\ r - 1 \in Ordinals /\ r - 1 # r /\ r \in Ordinals
      /\ VolumeSafe(r) /\ ScriptSafe(r)
  BY Domains DEF Harmless, IInv, Safe
<1>2. clone[r] = "transfer" => mysqld'[r - 1] = "up" /\ side'[r - 1] = "serve"
  BY <1>1, ServesOn DEF ReplicaSafe, SourceSafe
<1>3. TypeOK
  BY DEF IInv
<1> USE DEF TypeOK, ReplicaSafe, CloneSafe, CoordinatesSafe, SetUpSafe, SourceSafe
<1>4. CASE StartPod(r) \/ RefuseFiles(r)
  BY <1>1, <1>3, <1>4 DEF StartPod, RefuseFiles, volumes
<1>5. CASE CheckData(r)
  BY <1>1, <1>3, <1>5 DEF CheckData, volumes, ScriptSafe
<1>6. CASE Connect(r)
  BY <1>1, <1>3, <1>6 DEF Connect, volumes
<1>7. CASE Receive(r)
  <2>1. sound[r - 1] = "yes" /\ (r - 1 # Primary => master[r - 1] # None)
    BY <1>7, SourceSound DEF Receive
  <2>2. Len(Log) # None
    <3>1. Len(Log) \in Nat
      BY <1>3, Domains DEF Log
    <3> QED
      BY <3>1 DEF None
  <2>3. /\ dir'[r] = "mysql" /\ sound'[r] = "unprepared" /\ clone'[r] = "prepare"
        /\ slave'[r] = (IF r - 1 = Primary THEN None ELSE master[r - 1])
        /\ binlog'[r] = (IF r - 1 = Primary THEN Len(Log) ELSE None)
        /\ change' = change /\ master' = master /\ side' = side
        /\ mysqld' = mysqld /\ running' = running
    BY <1>1, <1>3, <1>7, <2>1 DEF Receive
  <2>4. slave'[r] # None \/ binlog'[r] # None
    BY <2>1, <2>2, <2>3
  <2>5. master[r] = None /\ side[r] = "off"
    BY <1>1, <1>7 DEF Receive, VolumeSafe, ScriptSafe
  <2> QED
    BY <1>1, <2>3, <2>4, <2>5
<1>8. CASE Prepare(r)
  BY <1>1, <1>3, <1>8 DEF Prepare, ScriptSafe
<1>9. CASE Initialise(r)
  BY <1>1, <1>9 DEF Initialise
<1>10. CASE Initialised(r)
  BY <1>1, <1>10 DEF Initialised
<1>11. CASE StartServer(r)
  BY <1>1, <1>3, <1>11 DEF StartServer, volumes
<1>12. CASE Replicate(r)
  <2>1. master[r] # None /\ master[r] + 1 # None
    <3>1. master[r] # None /\ data[r] \in Seq(1..MaxTransactions)
      BY <1>1, <1>3, <1>12 DEF Replicate, ScriptSafe
    <3>2. master[r] \in Nat
      BY <1>1, <3>1 DEF VolumeSafe
    <3> QED
      BY <3>1, <3>2 DEF None
  <2> QED
    BY <1>1, <1>2, <1>3, <1>12, <2>1 DEF Replicate, pods
<1>13. CASE Parse(r)
  BY <1>1, <1>2, <1>3, <1>13 DEF Parse, Step, ScriptSafe
<1>14. CASE CopySlaveInfo(r)
  BY <1>1, <1>2, <1>3, <1>14 DEF CopySlaveInfo, Step, VolumeSafe, ScriptSafe
<1>15. CASE RemoveSlaveInfo(r)
  BY <1>1, <1>2, <1>3, <1>15 DEF RemoveSlaveInfo, Step, ScriptSafe
<1>16. CASE WriteChange(r)
  BY <1>1, <1>2, <1>3, <1>16 DEF WriteChange, Step, VolumeSafe, ScriptSafe
<1>17. CASE ChangeMaster(r)
  BY <1>1, <1>2, <1>3, <1>17 DEF ChangeMaster, Fail, Step, ScriptSafe
<1>18. CASE StartSlave(r)
  BY <1>1, <1>2, <1>3, <1>18 DEF StartSlave, Step, volumes, ScriptSafe
<1>19. CASE Rename(r)
  BY <1>1, <1>2, <1>3, <1>19 DEF Rename, Step
<1> QED
  BY <1>4, <1>5, <1>6, <1>7, <1>8, <1>9, <1>10, <1>11, <1>12, <1>13, <1>14, <1>15, <1>16, <1>17,
     <1>18, <1>19 DEF Works, Script

LEMMA LogWorks ==
  ASSUME IInv, LogSafe, NEW r \in Ordinals, Works(r)
  PROVE  LogSafe'
<1>1. /\ Primary \in Ordinals /\ TypeOK
      /\ clone[Primary] \in {"none", "check", "done"} /\ slave[Primary] = None
  BY Domains DEF IInv, PrimarySafe
<1>2. CASE r # Primary
  BY <1>1, <1>2, OtherPod DEF LogSafe
<1>3. CASE r = Primary
  <2> USE <1>3 DEF TypeOK, LogSafe
  <2>1. CASE StartPod(r) \/ CheckData(r) \/ RefuseFiles(r) \/ StartServer(r)
    BY <1>1, <2>1 DEF StartPod, CheckData, RefuseFiles, StartServer, volumes
  <2>2. ~(Connect(r) \/ Receive(r) \/ Prepare(r))
    BY <1>1 DEF Connect, Receive, Prepare
  <2>3. CASE Initialise(r) \/ Initialised(r)
    BY <1>1, <2>3 DEF Initialise, Initialised
  <2>4. CASE Replicate(r)
    BY <1>1, <2>4 DEF Replicate, pods
  <2>5. CASE Parse(r) \/ CopySlaveInfo(r) \/ RemoveSlaveInfo(r) \/ WriteChange(r)
    BY <1>1, <2>5 DEF Parse, CopySlaveInfo, RemoveSlaveInfo, WriteChange
  <2>6. CASE ChangeMaster(r) \/ StartSlave(r) \/ Rename(r)
    BY <1>1, <2>6 DEF ChangeMaster, StartSlave, Rename, volumes
  <2> QED
    BY <2>1, <2>2, <2>3, <2>4, <2>5, <2>6 DEF Works, Script
<1> QED
  BY <1>2, <1>3

-----------------------------------------------------------------------------
(***************************************************************************)
(* Kills.                                                                  *)
(***************************************************************************)

\* What a kill does to a Pod that it does not hurt.
LEMMA KillLeaves ==
  ASSUME IInv, NEW r \in Ordinals, NEW t \in Targets, Kill(r, t), NEW q \in Ordinals,
         q \notin hurt'
  PROVE  /\ dir'[q] = dir[q] /\ sound' = sound /\ slave' = slave /\ binlog' = binlog
         /\ master' = master
         /\ q \notin CutOff(r, t) /\ ~(q = r /\ InWindow(r, t))
         /\ q \notin hurt
<1> DEFINE cut == CutOff(r, t) \cup (IF t \in {"clone", "pod"} /\ clone[r] = "transfer" THEN {r} ELSE {})
<1>1. /\ IF cut = {} THEN UNCHANGED dir ELSE Torn(cut)
      /\ hurt' = hurt \cup cut \cup (IF InWindow(r, t) THEN {r} ELSE {})
      /\ UNCHANGED <<sound, data, slave, binlog, master>>
  BY DEF Kill
<1>2. q \notin cut /\ CutOff(r, t) \subseteq cut
  BY <1>1
<1> HIDE DEF cut
<1>3. dir'[q] = dir[q]
  BY <1>1, <1>2 DEF Torn
<1> QED
  BY <1>1, <1>2, <1>3

\* The Pods that are not killed keep all but their transfers.
LEMMA KillAside ==
  ASSUME IInv, NEW r \in Ordinals, NEW t \in Targets, Kill(r, t), NEW q \in Ordinals,
         q \notin hurt', q # r
  PROVE  /\ clone'[q] = clone[q] /\ mysqld'[q] = mysqld[q] /\ running'[q] = running[q]
         /\ side'[q] = side[q] /\ parsed'[q] = parsed[q] /\ change'[q] = change[q]
<1>1. TypeOK
  BY DEF IInv
<1>2. clone'[q] = clone[q]
  BY KillLeaves DEF Kill
<1>3. change'[q] = change[q]
  BY <1>1 DEF Kill, CutWrite, TypeOK
<1>4. side'[q] = side[q]
  BY <1>1 DEF Kill, TypeOK, Targets
<1>5. mysqld'[q] = mysqld[q] /\ running'[q] = running[q] /\ parsed'[q] = parsed[q]
  BY <1>1 DEF Kill, TypeOK
<1> QED
  BY <1>2, <1>3, <1>4, <1>5

\* What is left of the Pod of which t is killed.
LEMMA KillFields ==
  ASSUME IInv, NEW r \in Ordinals, NEW t \in Targets, Kill(r, t), r \notin hurt'
  PROVE  /\ clone'[r] = (IF t = "pod" THEN "none" ELSE IF t = "clone" THEN "check" ELSE clone[r])
         /\ mysqld'[r] = (IF t \in {"mysqld", "pod"} THEN "down" ELSE mysqld[r])
         /\ running'[r] = (IF t \in {"mysqld", "pod"} THEN FALSE ELSE running[r])
         /\ side'[r] = (IF t = "sidecar" \/ (t = "mysqld" /\ side[r] = "start") THEN "parse"
                        ELSE IF t = "pod" THEN "off" ELSE side[r])
         /\ parsed'[r] = (IF t \in {"sidecar", "pod"} THEN None ELSE parsed[r])
         /\ \/ change'[r] = change[r]
            \/ change'[r] = Blank /\ side[r] \in {"copy", "write"} /\ t \in {"sidecar", "pod"}
<1>1. TypeOK
  BY DEF IInv
<1>2. clone'[r] = IF t = "pod" THEN "none" ELSE IF t = "clone" THEN "check" ELSE clone[r]
  <2>1. r \notin CutOff(r, t) \cup (IF t \in {"clone", "pod"} /\ clone[r] = "transfer" THEN {r} ELSE {})
    BY DEF Kill
  <2> QED
    BY <2>1 DEF Kill
<1>3. \/ change'[r] = change[r]
      \/ change'[r] = Blank /\ side[r] \in {"copy", "write"} /\ t \in {"sidecar", "pod"}
  BY <1>1 DEF Kill, CutWrite, TypeOK
<1>4. side'[r] = (IF t = "sidecar" \/ (t = "mysqld" /\ side[r] = "start") THEN "parse"
                  ELSE IF t = "pod" THEN "off" ELSE side[r])
  BY <1>1 DEF Kill, TypeOK
<1>5. /\ mysqld'[r] = (IF t \in {"mysqld", "pod"} THEN "down" ELSE mysqld[r])
      /\ running'[r] = (IF t \in {"mysqld", "pod"} THEN FALSE ELSE running[r])
      /\ parsed'[r] = (IF t \in {"sidecar", "pod"} THEN None ELSE parsed[r])
  BY <1>1 DEF Kill, TypeOK
<1> QED
  BY <1>2, <1>3, <1>4, <1>5

LEMMA KillOther ==
  ASSUME IInv, NEW r \in Ordinals, NEW t \in Targets, Kill(r, t),
         NEW q \in Ordinals \ {Primary}, (0..q) \cap hurt' = {}, q # r, ReplicaSafe(q)
  PROVE  ReplicaSafe(q)'
<1>1. q \in Nat /\ q - 1 \in Ordinals /\ q \notin hurt' /\ q - 1 \notin hurt' /\ q - 1 \in Nat
  BY Domains DEF Ordinals
<1>2. CloneSafe(q)' /\ CoordinatesSafe(q)' /\ SetUpSafe(q)'
  BY <1>1, KillLeaves, KillAside DEF ReplicaSafe, CloneSafe, CoordinatesSafe, SetUpSafe
<1>3. ASSUME clone'[q] = "transfer" PROVE mysqld'[q - 1] = "up" /\ side'[q - 1] = "serve"
  <2>1. clone[q] = "transfer" /\ mysqld[q - 1] = "up" /\ side[q - 1] = "serve"
    BY <1>1, <1>3, KillAside DEF ReplicaSafe, SourceSafe
  <2>2. CASE r # q - 1
    BY <1>1, <2>1, <2>2, KillAside
  <2>3. CASE r = q - 1
    <3>1. r + 1 = q
      BY <1>1, <2>3
    <3>2. t = "clone"
      BY <1>1, <2>1, <3>1, KillLeaves DEF CutOff, Targets
    <3> QED
      BY <1>1, <2>1, <2>3, <3>2, KillFields
  <2> QED
    BY <2>2, <2>3
<1> QED
  BY <1>2, <1>3 DEF ReplicaSafe, SourceSafe

LEMMA KillOwn ==
  ASSUME IInv, NEW r \in Ordinals \ {Primary}, NEW t \in Targets, Kill(r, t),
         (0..r) \cap hurt' = {}, ReplicaSafe(r)
  PROVE  ReplicaSafe(r)'
<1> r \in Nat /\ r - 1 \in Ordinals /\ r \notin hurt' /\ r - 1 \notin hurt' /\ r - 1 # r
  BY Domains DEF Ordinals
<1>1. /\ dir'[r] = dir[r] /\ sound' = sound /\ slave' = slave /\ binlog' = binlog
      /\ master' = master /\ ~InWindow(r, t)
  BY KillLeaves
<1>2. VolumeSafe(r) /\ ScriptSafe(r)
  BY DEF IInv, Safe
<1>3. CASE t = "clone"
  <2>1. clone[r] \in {"check", "connect"}
    BY <1>1, <1>3 DEF Kill, InWindow
  <2>2. /\ clone'[r] = "check" /\ mysqld'[r] = mysqld[r] /\ running'[r] = running[r]
        /\ side'[r] = side[r] /\ parsed'[r] = parsed[r] /\ change'[r] = change[r]
    BY <1>3, KillFields
  <2> QED
    BY <1>1, <2>1, <2>2 DEF ReplicaSafe, CloneSafe, CoordinatesSafe, SetUpSafe, SourceSafe
<1>4. CASE t = "mysqld"
  <2>1. ~(master[r] # None /\ change[r] # None /\ ~running[r]) /\ mysqld[r] # "down"
    BY <1>1, <1>4 DEF Kill, InWindow
  <2>2. /\ clone'[r] = clone[r] /\ mysqld'[r] = "down" /\ running'[r] = FALSE
        /\ side'[r] = (IF side[r] = "start" THEN "parse" ELSE side[r])
        /\ parsed'[r] = parsed[r] /\ change'[r] = change[r]
    BY <1>4, KillFields
  <2>3. SourceSafe(r)'
    <3>1. mysqld'[r - 1] = mysqld[r - 1] /\ side'[r - 1] = side[r - 1]
      BY KillAside
    <3> QED
      BY <2>2, <3>1 DEF ReplicaSafe, SourceSafe
  <2>4. SetUpSafe(r)'
    BY <1>1, <2>1, <2>2 DEF ReplicaSafe, SetUpSafe
  <2> QED
    BY <1>1, <2>2, <2>3, <2>4 DEF ReplicaSafe, CloneSafe, CoordinatesSafe
<1>5. CASE t = "sidecar"
  <2>1. side[r] \notin {"write", "rename", "off"}
    BY <1>1, <1>5 DEF Kill, InWindow
  <2>2. /\ clone'[r] = clone[r] /\ mysqld'[r] = mysqld[r] /\ running'[r] = running[r]
        /\ side'[r] = "parse" /\ parsed'[r] = None
        /\ change'[r] = change[r] \/ (change'[r] = Blank /\ side[r] = "copy")
    BY <1>5, <2>1, KillFields
  <2>3. clone[r] = "done" /\ parsed[r] = None /\ (side[r] = "copy" => slave[r] # None /\ master[r] = None)
    BY <1>2, <2>1 DEF VolumeSafe, ScriptSafe
  <2> QED
    BY <1>1, <2>1, <2>2, <2>3 DEF ReplicaSafe, CloneSafe, CoordinatesSafe, SetUpSafe, SourceSafe,
       None, Blank
<1>6. CASE t = "pod"
  <2>1. /\ side[r] \notin {"write", "rename"} /\ clone[r] \notin {"transfer", "prepare"}
        /\ ~(master[r] # None /\ change[r] # None /\ ~running[r])
    BY <1>1, <1>6 DEF InWindow
  <2>2. /\ clone'[r] = "none" /\ mysqld'[r] = "down" /\ running'[r] = FALSE
        /\ side'[r] = "off" /\ parsed'[r] = None
        /\ change'[r] = change[r] \/ (change'[r] = Blank /\ side[r] = "copy")
    BY <1>6, <2>1, KillFields
  <2>3. parsed[r] = None /\ (side[r] = "copy" => slave[r] # None /\ master[r] = None)
    BY <1>2, <2>1 DEF VolumeSafe, ScriptSafe
  <2> QED
    BY <1>1, <2>1, <2>2, <2>3 DEF ReplicaSafe, CloneSafe, CoordinatesSafe, SetUpSafe, SourceSafe,
       None, Blank
<1> QED
  BY <1>3, <1>4, <1>5, <1>6 DEF Targets

LEMMA KillHarmless ==
  ASSUME IInv, Harmless, NEW r \in Ordinals, NEW t \in Targets, Kill(r, t)
  PROVE  Harmless'
<1>1. hurt \subseteq hurt'
  BY DEF Kill
<1>2. ASSUME (0..Primary) \cap hurt' = {} PROVE LogSafe'
  <2>1. Primary \in Ordinals /\ Primary \notin hurt' /\ LogSafe
    BY <1>1, <1>2, Domains DEF Harmless, Unhurt
  <2>2. CASE r # Primary
    BY <2>1, <2>2, KillLeaves, KillAside DEF LogSafe
  <2>3. CASE r = Primary
    <3>1. mysqld'[r] = mysqld[r] \/ mysqld[r] # "initialising"
      BY <2>1, <2>3, KillLeaves, KillFields DEF InWindow
    <3> QED
      BY <2>1, <2>3, <3>1, KillLeaves DEF LogSafe
  <2> QED
    BY <2>2, <2>3
<1>3. ASSUME NEW q \in Ordinals \ {Primary}, (0..q) \cap hurt' = {} PROVE ReplicaSafe(q)'
  <2>1. q \notin hurt' /\ ReplicaSafe(q)
    BY <1>1, <1>3, Domains DEF Harmless, Unhurt
  <2> QED
    BY <1>3, <2>1, KillOther, KillOwn
<1> QED
  BY <1>2, <1>3 DEF Harmless, Unhurt

LEMMA HarmlessStep == IInv /\ Harmless /\ [Next]_vars => Harmless'
<1> SUFFICES ASSUME IInv, Harmless, [Next]_vars PROVE Harmless'
  OBVIOUS
<1>1. ASSUME NEW r \in Ordinals, Works(r) PROVE Harmless'
  <2>1. hurt' = hurt
    BY <1>1, WorksHurtsNone
  <2>2. ASSUME NEW q \in Ordinals \ {Primary}, Unhurt(q) PROVE ReplicaSafe(q)'
    BY <1>1, <2>2, OwnSafe, OtherSafe DEF Harmless
  <2>3. ASSUME Unhurt(Primary) PROVE LogSafe'
    BY <1>1, <2>3, LogWorks DEF Harmless
  <2> QED
    BY <2>1, <2>2, <2>3 DEF Harmless, Unhurt
<1>2. ASSUME NEW r \in Ordinals, NEW t \in Targets, Kill(r, t) PROVE Harmless'
  BY <1>2, KillHarmless
<1>3. CASE Commit \/ UNCHANGED vars
  <2>1. UNCHANGED <<dir, sound, slave, binlog, change, master, clone, mysqld, running, side, parsed, hurt>>
    BY <1>3 DEF Commit, vars, volumes, pods
  <2> QED
    BY <2>1 DEF Harmless, Unhurt, LogSafe, ReplicaSafe, CloneSafe, CoordinatesSafe, SetUpSafe, SourceSafe
<1> QED
  BY <1>1, <1>2, <1>3 DEF Next, Works

\* Outside the windows a kill is harmless: a Pod that was not hit in one, nor any Pod
\* before it, serves no clones without its master and never sets up replication twice,
\* at whatever other lines whatever Pods are killed.
THEOREM KillsAreHarmless == Spec => []KillsHarmless
<1>1. Spec => []Harmless
  BY HarmlessInit, HarmlessStep, AlwaysSafe, PTL DEF Spec
<1>2. IInv /\ Harmless => KillsHarmless
  <2> SUFFICES ASSUME IInv, Harmless, NEW r \in Ordinals \ {Primary}, Unhurt(r)
               PROVE  /\ side[r] = "serve" => master[r] # None /\ sound[r] = "yes"
                      /\ side[r] \in {"parse", "wait"} /\ change[r] # None => ~running[r]
    BY DEF KillsHarmless
  <2>1. ReplicaSafe(r) /\ ScriptSafe(r)
    BY DEF Harmless, IInv, Safe
  <2> QED
    BY <2>1 DEF ReplicaSafe, CloneSafe, CoordinatesSafe, SetUpSafe, ScriptSafe
<1> QED
  BY <1>1, <1>2, AlwaysSafe, PTL
=============================================================================
