------------------------ MODULE MysqlBootstrapProofs ------------------------
(***************************************************************************)
(* Proofs about MysqlBootstrap, for any number of Pods and transactions,   *)
(* and any number of kills.                                                *)
(***************************************************************************)
EXTENDS MysqlBootstrap, SequenceTheorems, TLAPS

\* The transactions are applied in order, each once.
InOrder(s) == \A i \in 1..Len(s) : s[i] = i

\* The files on a volume and the master are those of its data.
VolumeSafe(r) ==
  /\ dir[r] # "mysql" => /\ Len(data[r]) = 0 /\ slave[r] = None /\ binlog[r] = None
                         /\ parsed[r] = None /\ change[r] = None /\ master[r] = None
  /\ mysqld[r] # "down" => dir[r] = "mysql"
  /\ master[r] # None => master[r] = Len(data[r])
  /\ slave[r] # None => slave[r] = Len(data[r]) /\ master[r] = None
  /\ binlog[r] # None => binlog[r] = Len(data[r]) /\ master[r] = None
  /\ parsed[r] # None => parsed[r] = Len(data[r]) /\ master[r] = None

\* Coordinates that were used may still be there, but not with a server that would
\* take them: replication runs, or will run as soon as the server is back.
ChangeSafe(r) ==
  change[r] \notin {None, Blank} =>
    \/ change[r] = Len(data[r])
    \/ master[r] # None /\ (running[r] \/ mysqld[r] = "down")

\* What the scripts may rely on at each of their lines.
ScriptSafe(r) ==
  /\ clone[r] # "done" => side[r] = "off"
  /\ running[r] => master[r] # None
  /\ parsed[r] # None <=> side[r] = "write"
  /\ side[r] \in {"copy", "clean"} => slave[r] # None
  /\ side[r] \in {"clean", "wait"} => change[r] # None
  /\ side[r] = "start" => master[r] # None
  /\ side[r] \in {"write", "wait", "start", "rename", "serve"} => slave[r] = None /\ binlog[r] = None

\* The primary has no coordinates of its own, and is never cloned.
PrimarySafe ==
  /\ clone[Primary] \in {"none", "check", "done"}
  /\ slave[Primary] = None /\ binlog[Primary] = None /\ parsed[Primary] = None
  /\ change[Primary] = None /\ master[Primary] = None

\* No replica is ahead of the primary.
DataSafe(r) == InOrder(data[r]) /\ Len(data[r]) <= Len(Log)

Safe(r) == VolumeSafe(r) /\ ChangeSafe(r) /\ ScriptSafe(r) /\ DataSafe(r)

IInv == TypeOK /\ PrimarySafe /\ Len(Log) <= MaxTransactions /\ \A r \in Ordinals : Safe(r)
-----------------------------------------------------------------------------
LEMMA Domains ==
  /\ Primary \in Ordinals /\ Primary = 0
  /\ \A r \in Ordinals : r \in Nat /\ (r # Primary => r - 1 \in Ordinals)
BY BootstrapAssumption DEF Primary, Ordinals

LEMMA EmptyLog == <<>> \in Seq(1..MaxTransactions) /\ Len(<<>>) = 0
OBVIOUS

LEMMA InitSafe == Init => IInv
<1> SUFFICES ASSUME Init PROVE IInv
  OBVIOUS
<1>1. TypeOK
  BY BootstrapAssumption, EmptyLog DEF Init, TypeOK, Everywhere, Positions, None, Blank, Dirs,
     Soundness,
     CloneSteps, Servers, SideSteps
<1>2. PrimarySafe
  BY Domains DEF Init, PrimarySafe, Everywhere
<1>3. Len(Log) <= MaxTransactions
  BY Domains, EmptyLog, BootstrapAssumption DEF Init, Log, Everywhere
<1>4. ASSUME NEW r \in Ordinals PROVE Safe(r)
  BY <1>4, Domains, EmptyLog DEF Init, Everywhere, Log, Safe, VolumeSafe, ChangeSafe,
     ScriptSafe,
     DataSafe, InOrder, None
<1> QED
  BY <1>1, <1>2, <1>3, <1>4 DEF IInv

\* A Pod of which nothing changes stays safe while the log can only grow.
LEMMA Frame ==
  ASSUME NEW q \in Ordinals, Safe(q), DataSafe(q)',
         dir'[q] = dir[q], data'[q] = data[q], slave'[q] = slave[q], binlog'[q] = binlog[q],
         change'[q] = change[q], master'[q] = master[q], clone'[q] = clone[q],
         mysqld'[q] = mysqld[q], running'[q] = running[q], side'[q] = side[q],
         parsed'[q] = parsed[q]
  PROVE  Safe(q)'
BY DEF Safe, VolumeSafe, ChangeSafe, ScriptSafe, None, Blank

LEMMA StartPodSafe ==
  ASSUME NEW r \in Ordinals, IInv, StartPod(r)
  PROVE  IInv'
<1> USE Domains
<1>1. TypeOK'
  BY DEF IInv, TypeOK, PrimarySafe, StartPod, volumes, pods, Positions, None, Blank, Dirs,
     Soundness, CloneSteps, Servers, SideSteps
<1>2. PrimarySafe'
  BY DEF IInv, TypeOK, PrimarySafe, Safe, VolumeSafe, ScriptSafe, StartPod, volumes, pods,
     Positions, None, Blank, Dirs, Soundness, CloneSteps, Servers, SideSteps
<1>3. data' = data
  BY DEF StartPod, volumes, pods
<1>4. (Len(Log) <= MaxTransactions)' /\ \A q \in Ordinals : DataSafe(q)'
  BY <1>3 DEF IInv, Safe, DataSafe, InOrder, Log
<1>5. VolumeSafe(r)'
  BY DEF IInv, TypeOK, PrimarySafe, Safe, VolumeSafe, ScriptSafe, StartPod, volumes, pods,
     Positions, None, Blank, Dirs, Soundness, CloneSteps, Servers, SideSteps
<1>6. ChangeSafe(r)'
  BY DEF IInv, TypeOK, Safe, VolumeSafe, ChangeSafe, ScriptSafe, StartPod, volumes, pods,
     Positions, None, Blank, Dirs, Soundness, CloneSteps, Servers, SideSteps
<1>7. ScriptSafe(r)'
  BY DEF IInv, TypeOK, Safe, VolumeSafe, ScriptSafe, StartPod, volumes, pods, Positions, None,
     Blank, Dirs, Soundness, CloneSteps, Servers, SideSteps
<1>8. ASSUME NEW q \in Ordinals, q # r PROVE Safe(q)'
  <2>1. Safe(q) /\ DataSafe(q)'
    BY <1>4 DEF IInv
  <2> QED
    BY <1>8, <2>1, Frame DEF IInv, TypeOK, StartPod, volumes, pods
<1> QED
  BY <1>1, <1>2, <1>4, <1>5, <1>6, <1>7, <1>8 DEF IInv, Safe

LEMMA CheckDataSafe ==
  ASSUME NEW r \in Ordinals, IInv, CheckData(r)
  PROVE  IInv'
<1> USE Domains
<1>1. TypeOK'
  BY DEF IInv, TypeOK, PrimarySafe, CheckData, volumes, pods, Positions, None, Blank, Dirs,
     Soundness, CloneSteps, Servers, SideSteps
<1>2. PrimarySafe'
  BY DEF IInv, TypeOK, PrimarySafe, Safe, VolumeSafe, ScriptSafe, CheckData, volumes, pods,
     Positions, None, Blank, Dirs, Soundness, CloneSteps, Servers, SideSteps
<1>3. data' = data
  BY DEF CheckData, volumes, pods
<1>4. (Len(Log) <= MaxTransactions)' /\ \A q \in Ordinals : DataSafe(q)'
  BY <1>3 DEF IInv, Safe, DataSafe, InOrder, Log
<1>5. VolumeSafe(r)'
  BY DEF IInv, TypeOK, PrimarySafe, Safe, VolumeSafe, ScriptSafe, CheckData, volumes, pods,
     Positions, None, Blank, Dirs, Soundness, CloneSteps, Servers, SideSteps
<1>6. ChangeSafe(r)'
  BY DEF IInv, TypeOK, Safe, VolumeSafe, ChangeSafe, ScriptSafe, CheckData, volumes, pods,
     Positions, None, Blank, Dirs, Soundness, CloneSteps, Servers, SideSteps
<1>7. ScriptSafe(r)'
  BY DEF IInv, TypeOK, Safe, VolumeSafe, ScriptSafe, CheckData, volumes, pods, Positions, None,
     Blank, Dirs, Soundness, CloneSteps, Servers, SideSteps
<1>8. ASSUME NEW q \in Ordinals, q # r PROVE Safe(q)'
  <2>1. Safe(q) /\ DataSafe(q)'
    BY <1>4 DEF IInv
  <2> QED
    BY <1>8, <2>1, Frame DEF IInv, TypeOK, CheckData, volumes, pods
<1> QED
  BY <1>1, <1>2, <1>4, <1>5, <1>6, <1>7, <1>8 DEF IInv, Safe

LEMMA ConnectSafe ==
  ASSUME NEW r \in Ordinals, IInv, Connect(r)
  PROVE  IInv'
<1> USE Domains
<1>1. TypeOK'
  BY DEF IInv, TypeOK, PrimarySafe, Connect, volumes, pods, Positions, None, Blank, Dirs,
     Soundness, CloneSteps, Servers, SideSteps
<1>2. PrimarySafe'
  BY DEF IInv, TypeOK, PrimarySafe, Safe, VolumeSafe, ScriptSafe, Connect, volumes, pods,
     Positions, None, Blank, Dirs, Soundness, CloneSteps, Servers, SideSteps
<1>3. data' = data
  BY DEF Connect, volumes, pods
<1>4. (Len(Log) <= MaxTransactions)' /\ \A q \in Ordinals : DataSafe(q)'
  BY <1>3 DEF IInv, Safe, DataSafe, InOrder, Log
<1>5. VolumeSafe(r)'
  BY DEF IInv, TypeOK, PrimarySafe, Safe, VolumeSafe, ScriptSafe, Connect, volumes, pods,
     Positions, None, Blank, Dirs, Soundness, CloneSteps, Servers, SideSteps
<1>6. ChangeSafe(r)'
  BY DEF IInv, TypeOK, Safe, VolumeSafe, ChangeSafe, ScriptSafe, Connect, volumes, pods,
     Positions, None, Blank, Dirs, Soundness, CloneSteps, Servers, SideSteps
<1>7. ScriptSafe(r)'
  BY DEF IInv, TypeOK, Safe, VolumeSafe, ScriptSafe, Connect, volumes, pods, Positions, None,
     Blank, Dirs, Soundness, CloneSteps, Servers, SideSteps
<1>8. ASSUME NEW q \in Ordinals, q # r PROVE Safe(q)'
  <2>1. Safe(q) /\ DataSafe(q)'
    BY <1>4 DEF IInv
  <2> QED
    BY <1>8, <2>1, Frame DEF IInv, TypeOK, Connect, volumes, pods
<1> QED
  BY <1>1, <1>2, <1>4, <1>5, <1>6, <1>7, <1>8 DEF IInv, Safe

LEMMA RefuseFilesSafe ==
  ASSUME NEW r \in Ordinals, IInv, RefuseFiles(r)
  PROVE  IInv'
<1> USE Domains
<1>1. TypeOK'
  BY DEF IInv, TypeOK, PrimarySafe, RefuseFiles, volumes, pods, Positions, None, Blank, Dirs,
     Soundness, CloneSteps, Servers, SideSteps
<1>2. PrimarySafe'
  BY DEF IInv, TypeOK, PrimarySafe, Safe, VolumeSafe, ScriptSafe, RefuseFiles, volumes, pods,
     Positions, None, Blank, Dirs, Soundness, CloneSteps, Servers, SideSteps
<1>3. data' = data
  BY DEF RefuseFiles, volumes, pods
<1>4. (Len(Log) <= MaxTransactions)' /\ \A q \in Ordinals : DataSafe(q)'
  BY <1>3 DEF IInv, Safe, DataSafe, InOrder, Log
<1>5. VolumeSafe(r)'
  BY DEF IInv, TypeOK, PrimarySafe, Safe, VolumeSafe, ScriptSafe, RefuseFiles, volumes, pods,
     Positions, None, Blank, Dirs, Soundness, CloneSteps, Servers, SideSteps
<1>6. ChangeSafe(r)'
  BY DEF IInv, TypeOK, Safe, VolumeSafe, ChangeSafe, ScriptSafe, RefuseFiles, volumes, pods,
     Positions, None, Blank, Dirs, Soundness, CloneSteps, Servers, SideSteps
<1>7. ScriptSafe(r)'
  BY DEF IInv, TypeOK, Safe, VolumeSafe, ScriptSafe, RefuseFiles, volumes, pods, Positions,
     None, Blank, Dirs, Soundness, CloneSteps, Servers, SideSteps
<1>8. ASSUME NEW q \in Ordinals, q # r PROVE Safe(q)'
  <2>1. Safe(q) /\ DataSafe(q)'
    BY <1>4 DEF IInv
  <2> QED
    BY <1>8, <2>1, Frame DEF IInv, TypeOK, RefuseFiles, volumes, pods
<1> QED
  BY <1>1, <1>2, <1>4, <1>5, <1>6, <1>7, <1>8 DEF IInv, Safe

LEMMA PrepareSafe ==
  ASSUME NEW r \in Ordinals, IInv, Prepare(r)
  PROVE  IInv'
<1> USE Domains
<1>1. TypeOK'
  BY DEF IInv, TypeOK, PrimarySafe, Prepare, volumes, pods, Positions, None, Blank, Dirs,
     Soundness, CloneSteps, Servers, SideSteps
<1>2. PrimarySafe'
  BY DEF IInv, TypeOK, PrimarySafe, Safe, VolumeSafe, ScriptSafe, Prepare, volumes, pods,
     Positions, None, Blank, Dirs, Soundness, CloneSteps, Servers, SideSteps
<1>3. data' = data
  BY DEF Prepare, volumes, pods
<1>4. (Len(Log) <= MaxTransactions)' /\ \A q \in Ordinals : DataSafe(q)'
  BY <1>3 DEF IInv, Safe, DataSafe, InOrder, Log
<1>5. VolumeSafe(r)'
  BY DEF IInv, TypeOK, PrimarySafe, Safe, VolumeSafe, ScriptSafe, Prepare, volumes, pods,
     Positions, None, Blank, Dirs, Soundness, CloneSteps, Servers, SideSteps
<1>6. ChangeSafe(r)'
  BY DEF IInv, TypeOK, Safe, VolumeSafe, ChangeSafe, ScriptSafe, Prepare, volumes, pods,
     Positions, None, Blank, Dirs, Soundness, CloneSteps, Servers, SideSteps
<1>7. ScriptSafe(r)'
  BY DEF IInv, TypeOK, Safe, VolumeSafe, ScriptSafe, Prepare, volumes, pods, Positions, None,
     Blank, Dirs, Soundness, CloneSteps, Servers, SideSteps
<1>8. ASSUME NEW q \in Ordinals, q # r PROVE Safe(q)'
  <2>1. Safe(q) /\ DataSafe(q)'
    BY <1>4 DEF IInv
  <2> QED
    BY <1>8, <2>1, Frame DEF IInv, TypeOK, Prepare, volumes, pods
<1> QED
  BY <1>1, <1>2, <1>4, <1>5, <1>6, <1>7, <1>8 DEF IInv, Safe

LEMMA InitialiseSafe ==
  ASSUME NEW r \in Ordinals, IInv, Initialise(r)
  PROVE  IInv'
<1> USE Domains
<1>1. TypeOK'
  BY DEF IInv, TypeOK, PrimarySafe, Initialise, volumes, pods, Positions, None, Blank, Dirs,
     Soundness, CloneSteps, Servers, SideSteps
<1>2. PrimarySafe'
  BY DEF IInv, TypeOK, PrimarySafe, Safe, VolumeSafe, ScriptSafe, Initialise, volumes, pods,
     Positions, None, Blank, Dirs, Soundness, CloneSteps, Servers, SideSteps
<1>3. data' = data
  BY DEF Initialise, volumes, pods
<1>4. (Len(Log) <= MaxTransactions)' /\ \A q \in Ordinals : DataSafe(q)'
  BY <1>3 DEF IInv, Safe, DataSafe, InOrder, Log
<1>5. VolumeSafe(r)'
  BY DEF IInv, TypeOK, PrimarySafe, Safe, VolumeSafe, ScriptSafe, Initialise, volumes, pods,
     Positions, None, Blank, Dirs, Soundness, CloneSteps, Servers, SideSteps
<1>6. ChangeSafe(r)'
  BY DEF IInv, TypeOK, Safe, VolumeSafe, ChangeSafe, ScriptSafe, Initialise, volumes, pods,
     Positions, None, Blank, Dirs, Soundness, CloneSteps, Servers, SideSteps
<1>7. ScriptSafe(r)'
  BY DEF IInv, TypeOK, Safe, VolumeSafe, ScriptSafe, Initialise, volumes, pods, Positions, None,
     Blank, Dirs, Soundness, CloneSteps, Servers, SideSteps
<1>8. ASSUME NEW q \in Ordinals, q # r PROVE Safe(q)'
  <2>1. Safe(q) /\ DataSafe(q)'
    BY <1>4 DEF IInv
  <2> QED
    BY <1>8, <2>1, Frame DEF IInv, TypeOK, Initialise, volumes, pods
<1> QED
  BY <1>1, <1>2, <1>4, <1>5, <1>6, <1>7, <1>8 DEF IInv, Safe

LEMMA InitialisedSafe ==
  ASSUME NEW r \in Ordinals, IInv, Initialised(r)
  PROVE  IInv'
<1> USE Domains
<1>1. TypeOK'
  BY DEF IInv, TypeOK, PrimarySafe, Initialised, volumes, pods, Positions, None, Blank, Dirs,
     Soundness, CloneSteps, Servers, SideSteps
<1>2. PrimarySafe'
  BY DEF IInv, TypeOK, PrimarySafe, Safe, VolumeSafe, ScriptSafe, Initialised, volumes, pods,
     Positions, None, Blank, Dirs, Soundness, CloneSteps, Servers, SideSteps
<1>3. data' = data
  BY DEF Initialised, volumes, pods
<1>4. (Len(Log) <= MaxTransactions)' /\ \A q \in Ordinals : DataSafe(q)'
  BY <1>3 DEF IInv, Safe, DataSafe, InOrder, Log
<1>5. VolumeSafe(r)'
  BY DEF IInv, TypeOK, PrimarySafe, Safe, VolumeSafe, ScriptSafe, Initialised, volumes, pods,
     Positions, None, Blank, Dirs, Soundness, CloneSteps, Servers, SideSteps
<1>6. ChangeSafe(r)'
  BY DEF IInv, TypeOK, Safe, VolumeSafe, ChangeSafe, ScriptSafe, Initialised, volumes, pods,
     Positions, None, Blank, Dirs, Soundness, CloneSteps, Servers, SideSteps
<1>7. ScriptSafe(r)'
  BY DEF IInv, TypeOK, Safe, VolumeSafe, ScriptSafe, Initialised, volumes, pods, Positions,
     None, Blank, Dirs, Soundness, CloneSteps, Servers, SideSteps
<1>8. ASSUME NEW q \in Ordinals, q # r PROVE Safe(q)'
  <2>1. Safe(q) /\ DataSafe(q)'
    BY <1>4 DEF IInv
  <2> QED
    BY <1>8, <2>1, Frame DEF IInv, TypeOK, Initialised, volumes, pods
<1> QED
  BY <1>1, <1>2, <1>4, <1>5, <1>6, <1>7, <1>8 DEF IInv, Safe

LEMMA StartServerSafe ==
  ASSUME NEW r \in Ordinals, IInv, StartServer(r)
  PROVE  IInv'
<1> USE Domains
<1>1. TypeOK'
  BY DEF IInv, TypeOK, PrimarySafe, StartServer, volumes, pods, Positions, None, Blank, Dirs,
     Soundness, CloneSteps, Servers, SideSteps
<1>2. PrimarySafe'
  BY DEF IInv, TypeOK, PrimarySafe, Safe, VolumeSafe, ScriptSafe, StartServer, volumes, pods,
     Positions, None, Blank, Dirs, Soundness, CloneSteps, Servers, SideSteps
<1>3. data' = data
  BY DEF StartServer, volumes, pods
<1>4. (Len(Log) <= MaxTransactions)' /\ \A q \in Ordinals : DataSafe(q)'
  BY <1>3 DEF IInv, Safe, DataSafe, InOrder, Log
<1>5. VolumeSafe(r)'
  BY DEF IInv, TypeOK, PrimarySafe, Safe, VolumeSafe, ScriptSafe, StartServer, volumes, pods,
     Positions, None, Blank, Dirs, Soundness, CloneSteps, Servers, SideSteps
<1>6. ChangeSafe(r)'
  BY DEF IInv, TypeOK, Safe, VolumeSafe, ChangeSafe, ScriptSafe, StartServer, volumes, pods,
     Positions, None, Blank, Dirs, Soundness, CloneSteps, Servers, SideSteps
<1>7. ScriptSafe(r)'
  BY DEF IInv, TypeOK, Safe, VolumeSafe, ScriptSafe, StartServer, volumes, pods, Positions,
     None, Blank, Dirs, Soundness, CloneSteps, Servers, SideSteps
<1>8. ASSUME NEW q \in Ordinals, q # r PROVE Safe(q)'
  <2>1. Safe(q) /\ DataSafe(q)'
    BY <1>4 DEF IInv
  <2> QED
    BY <1>8, <2>1, Frame DEF IInv, TypeOK, StartServer, volumes, pods
<1> QED
  BY <1>1, <1>2, <1>4, <1>5, <1>6, <1>7, <1>8 DEF IInv, Safe

LEMMA ParseSafe ==
  ASSUME NEW r \in Ordinals, IInv, Parse(r)
  PROVE  IInv'
<1> USE Domains
<1>1. TypeOK'
  <2>1. /\ slave' = slave
        /\ binlog' = binlog \/ binlog' = [binlog EXCEPT ![r] = None]
        /\ parsed' = parsed \/ parsed' = [parsed EXCEPT ![r] = binlog[r]]
    BY DEF Parse
  <2>2. Step(r, "parse", "copy") \/ Step(r, "parse", "write") \/ Step(r, "parse", "serve") \/ Step(r, "parse", "wait")
    BY DEF Parse
  <2>3. side' \in [Ordinals -> SideSteps]
    BY <2>2 DEF IInv, TypeOK, Step, SideSteps
  <2>4. binlog' \in [Ordinals -> Positions] /\ parsed' \in [Ordinals -> Positions]
    BY <2>1 DEF IInv, TypeOK, Positions
  <2> QED
    BY <2>1, <2>3, <2>4 DEF IInv, TypeOK, Parse
<1>2. PrimarySafe'
  BY DEF IInv, TypeOK, PrimarySafe, Safe, VolumeSafe, ScriptSafe, Parse, Step, volumes, pods,
     Positions, None, Blank, Dirs, Soundness, CloneSteps, Servers, SideSteps
<1>3. data' = data
  BY DEF Parse, Step, volumes, pods
<1>4. (Len(Log) <= MaxTransactions)' /\ \A q \in Ordinals : DataSafe(q)'
  BY <1>3 DEF IInv, Safe, DataSafe, InOrder, Log
<1>5. VolumeSafe(r)'
  BY DEF IInv, TypeOK, PrimarySafe, Safe, VolumeSafe, ScriptSafe, Parse, Step, volumes, pods,
     Positions, None, Blank, Dirs, Soundness, CloneSteps, Servers, SideSteps
<1>6. ChangeSafe(r)'
  BY DEF IInv, TypeOK, Safe, VolumeSafe, ChangeSafe, ScriptSafe, Parse, Step, volumes, pods,
     Positions, None, Blank, Dirs, Soundness, CloneSteps, Servers, SideSteps
<1>7. ScriptSafe(r)'
  BY DEF IInv, TypeOK, Safe, VolumeSafe, ScriptSafe, Parse, Step, volumes, pods, Positions,
     None, Blank, Dirs, Soundness, CloneSteps, Servers, SideSteps
<1>8. ASSUME NEW q \in Ordinals, q # r PROVE Safe(q)'
  <2>1. Safe(q) /\ DataSafe(q)'
    BY <1>4 DEF IInv
  <2> QED
    BY <1>8, <2>1, Frame DEF IInv, TypeOK, Parse, Step, volumes, pods
<1> QED
  BY <1>1, <1>2, <1>4, <1>5, <1>6, <1>7, <1>8 DEF IInv, Safe

LEMMA CopySlaveInfoSafe ==
  ASSUME NEW r \in Ordinals, IInv, CopySlaveInfo(r)
  PROVE  IInv'
<1> USE Domains
<1>1. TypeOK'
  BY DEF IInv, TypeOK, PrimarySafe, CopySlaveInfo, Step, volumes, pods, Positions, None, Blank,
     Dirs, Soundness, CloneSteps, Servers, SideSteps
<1>2. PrimarySafe'
  BY DEF IInv, TypeOK, PrimarySafe, Safe, VolumeSafe, ScriptSafe, CopySlaveInfo, Step, volumes,
     pods, Positions, None, Blank, Dirs, Soundness, CloneSteps, Servers, SideSteps
<1>3. data' = data
  BY DEF CopySlaveInfo, Step, volumes, pods
<1>4. (Len(Log) <= MaxTransactions)' /\ \A q \in Ordinals : DataSafe(q)'
  BY <1>3 DEF IInv, Safe, DataSafe, InOrder, Log
<1>5. VolumeSafe(r)'
  BY DEF IInv, TypeOK, PrimarySafe, Safe, VolumeSafe, ScriptSafe, CopySlaveInfo, Step, volumes,
     pods, Positions, None, Blank, Dirs, Soundness, CloneSteps, Servers, SideSteps
<1>6. ChangeSafe(r)'
  BY DEF IInv, TypeOK, Safe, VolumeSafe, ChangeSafe, ScriptSafe, CopySlaveInfo, Step, volumes,
     pods, Positions, None, Blank, Dirs, Soundness, CloneSteps, Servers, SideSteps
<1>7. ScriptSafe(r)'
  BY DEF IInv, TypeOK, Safe, VolumeSafe, ScriptSafe, CopySlaveInfo, Step, volumes, pods,
     Positions, None, Blank, Dirs, Soundness, CloneSteps, Servers, SideSteps
<1>8. ASSUME NEW q \in Ordinals, q # r PROVE Safe(q)'
  <2>1. Safe(q) /\ DataSafe(q)'
    BY <1>4 DEF IInv
  <2> QED
    BY <1>8, <2>1, Frame DEF IInv, TypeOK, CopySlaveInfo, Step, volumes, pods
<1> QED
  BY <1>1, <1>2, <1>4, <1>5, <1>6, <1>7, <1>8 DEF IInv, Safe

LEMMA RemoveSlaveInfoSafe ==
  ASSUME NEW r \in Ordinals, IInv, RemoveSlaveInfo(r)
  PROVE  IInv'
<1> USE Domains
<1>1. TypeOK'
  BY DEF IInv, TypeOK, PrimarySafe, RemoveSlaveInfo, Step, volumes, pods, Positions, None,
     Blank, Dirs, Soundness, CloneSteps, Servers, SideSteps
<1>2. PrimarySafe'
  BY DEF IInv, TypeOK, PrimarySafe, Safe, VolumeSafe, ScriptSafe, RemoveSlaveInfo, Step,
     volumes, pods, Positions, None, Blank, Dirs, Soundness, CloneSteps, Servers, SideSteps
<1>3. data' = data
  BY DEF RemoveSlaveInfo, Step, volumes, pods
<1>4. (Len(Log) <= MaxTransactions)' /\ \A q \in Ordinals : DataSafe(q)'
  BY <1>3 DEF IInv, Safe, DataSafe, InOrder, Log
<1>5. VolumeSafe(r)'
  BY DEF IInv, TypeOK, PrimarySafe, Safe, VolumeSafe, ScriptSafe, RemoveSlaveInfo, Step,
     volumes, pods, Positions, None, Blank, Dirs, Soundness, CloneSteps, Servers, SideSteps
<1>6. ChangeSafe(r)'
  BY DEF IInv, TypeOK, Safe, VolumeSafe, ChangeSafe, ScriptSafe, RemoveSlaveInfo, Step, volumes,
     pods, Positions, None, Blank, Dirs, Soundness, CloneSteps, Servers, SideSteps
<1>7. ScriptSafe(r)'
  BY DEF IInv, TypeOK, Safe, VolumeSafe, ScriptSafe, RemoveSlaveInfo, Step, volumes, pods,
     Positions, None, Blank, Dirs, Soundness, CloneSteps, Servers, SideSteps
<1>8. ASSUME NEW q \in Ordinals, q # r PROVE Safe(q)'
  <2>1. Safe(q) /\ DataSafe(q)'
    BY <1>4 DEF IInv
  <2> QED
    BY <1>8, <2>1, Frame DEF IInv, TypeOK, RemoveSlaveInfo, Step, volumes, pods
<1> QED
  BY <1>1, <1>2, <1>4, <1>5, <1>6, <1>7, <1>8 DEF IInv, Safe

LEMMA WriteChangeSafe ==
  ASSUME NEW r \in Ordinals, IInv, WriteChange(r)
  PROVE  IInv'
<1> USE Domains
<1>1. TypeOK'
  BY DEF IInv, TypeOK, PrimarySafe, WriteChange, Step, volumes, pods, Positions, None, Blank,
     Dirs, Soundness, CloneSteps, Servers, SideSteps
<1>2. PrimarySafe'
  BY DEF IInv, TypeOK, PrimarySafe, Safe, VolumeSafe, ScriptSafe, WriteChange, Step, volumes,
     pods, Positions, None, Blank, Dirs, Soundness, CloneSteps, Servers, SideSteps
<1>3. data' = data
  BY DEF WriteChange, Step, volumes, pods
<1>4. (Len(Log) <= MaxTransactions)' /\ \A q \in Ordinals : DataSafe(q)'
  BY <1>3 DEF IInv, Safe, DataSafe, InOrder, Log
<1>5. VolumeSafe(r)'
  BY DEF IInv, TypeOK, PrimarySafe, Safe, VolumeSafe, ScriptSafe, WriteChange, Step, volumes,
     pods, Positions, None, Blank, Dirs, Soundness, CloneSteps, Servers, SideSteps
<1>6. ChangeSafe(r)'
  BY DEF IInv, TypeOK, Safe, VolumeSafe, ChangeSafe, ScriptSafe, WriteChange, Step, volumes,
     pods, Positions, None, Blank, Dirs, Soundness, CloneSteps, Servers, SideSteps
<1>7. ScriptSafe(r)'
  BY DEF IInv, TypeOK, Safe, VolumeSafe, ScriptSafe, WriteChange, Step, volumes, pods,
     Positions, None, Blank, Dirs, Soundness, CloneSteps, Servers, SideSteps
<1>8. ASSUME NEW q \in Ordinals, q # r PROVE Safe(q)'
  <2>1. Safe(q) /\ DataSafe(q)'
    BY <1>4 DEF IInv
  <2> QED
    BY <1>8, <2>1, Frame DEF IInv, TypeOK, WriteChange, Step, volumes, pods
<1> QED
  BY <1>1, <1>2, <1>4, <1>5, <1>6, <1>7, <1>8 DEF IInv, Safe

LEMMA ChangeMasterSafe ==
  ASSUME NEW r \in Ordinals, IInv, ChangeMaster(r)
  PROVE  IInv'
<1> USE Domains
<1>1. TypeOK'
  BY DEF IInv, TypeOK, PrimarySafe, ChangeMaster, Step, Fail, volumes, pods, Positions, None,
     Blank, Dirs, Soundness, CloneSteps, Servers, SideSteps
<1>2. PrimarySafe'
  BY DEF IInv, TypeOK, PrimarySafe, Safe, VolumeSafe, ScriptSafe, ChangeMaster, Step, Fail,
     volumes, pods, Positions, None, Blank, Dirs, Soundness, CloneSteps, Servers, SideSteps
<1>3. data' = data
  BY DEF ChangeMaster, Step, Fail, volumes, pods
<1>4. (Len(Log) <= MaxTransactions)' /\ \A q \in Ordinals : DataSafe(q)'
  BY <1>3 DEF IInv, Safe, DataSafe, InOrder, Log
<1>5. VolumeSafe(r)'
  BY DEF IInv, TypeOK, PrimarySafe, Safe, VolumeSafe, ChangeSafe, ScriptSafe, ChangeMaster,
     Step, Fail, volumes, pods, Positions, None, Blank, Dirs, Soundness, CloneSteps, Servers,
     SideSteps
<1>6. ChangeSafe(r)'
  BY DEF IInv, TypeOK, Safe, VolumeSafe, ChangeSafe, ScriptSafe, ChangeMaster, Step, Fail,
     volumes, pods, Positions, None, Blank, Dirs, Soundness, CloneSteps, Servers, SideSteps
<1>7. ScriptSafe(r)'
  BY DEF IInv, TypeOK, Safe, VolumeSafe, ScriptSafe, ChangeMaster, Step, Fail, volumes, pods,
     Positions, None, Blank, Dirs, Soundness, CloneSteps, Servers, SideSteps
<1>8. ASSUME NEW q \in Ordinals, q # r PROVE Safe(q)'
  <2>1. Safe(q) /\ DataSafe(q)'
    BY <1>4 DEF IInv
  <2> QED
    BY <1>8, <2>1, Frame DEF IInv, TypeOK, ChangeMaster, Step, Fail, volumes, pods
<1> QED
  BY <1>1, <1>2, <1>4, <1>5, <1>6, <1>7, <1>8 DEF IInv, Safe

LEMMA StartSlaveSafe ==
  ASSUME NEW r \in Ordinals, IInv, StartSlave(r)
  PROVE  IInv'
<1> USE Domains
<1>1. TypeOK'
  BY DEF IInv, TypeOK, PrimarySafe, StartSlave, Step, volumes, pods, Positions, None, Blank,
     Dirs, Soundness, CloneSteps, Servers, SideSteps
<1>2. PrimarySafe'
  BY DEF IInv, TypeOK, PrimarySafe, Safe, VolumeSafe, ScriptSafe, StartSlave, Step, volumes,
     pods, Positions, None, Blank, Dirs, Soundness, CloneSteps, Servers, SideSteps
<1>3. data' = data
  BY DEF StartSlave, Step, volumes, pods
<1>4. (Len(Log) <= MaxTransactions)' /\ \A q \in Ordinals : DataSafe(q)'
  BY <1>3 DEF IInv, Safe, DataSafe, InOrder, Log
<1>5. VolumeSafe(r)'
  BY DEF IInv, TypeOK, PrimarySafe, Safe, VolumeSafe, ScriptSafe, StartSlave, Step, volumes,
     pods, Positions, None, Blank, Dirs, Soundness, CloneSteps, Servers, SideSteps
<1>6. ChangeSafe(r)'
  BY DEF IInv, TypeOK, Safe, VolumeSafe, ChangeSafe, ScriptSafe, StartSlave, Step, volumes,
     pods, Positions, None, Blank, Dirs, Soundness, CloneSteps, Servers, SideSteps
<1>7. ScriptSafe(r)'
  BY DEF IInv, TypeOK, Safe, VolumeSafe, ScriptSafe, StartSlave, Step, volumes, pods, Positions,
     None, Blank, Dirs, Soundness, CloneSteps, Servers, SideSteps
<1>8. ASSUME NEW q \in Ordinals, q # r PROVE Safe(q)'
  <2>1. Safe(q) /\ DataSafe(q)'
    BY <1>4 DEF IInv
  <2> QED
    BY <1>8, <2>1, Frame DEF IInv, TypeOK, StartSlave, Step, volumes, pods
<1> QED
  BY <1>1, <1>2, <1>4, <1>5, <1>6, <1>7, <1>8 DEF IInv, Safe

LEMMA RenameSafe ==
  ASSUME NEW r \in Ordinals, IInv, Rename(r)
  PROVE  IInv'
<1> USE Domains
<1>1. TypeOK'
  BY DEF IInv, TypeOK, PrimarySafe, Rename, Step, volumes, pods, Positions, None, Blank, Dirs,
     Soundness, CloneSteps, Servers, SideSteps
<1>2. PrimarySafe'
  BY DEF IInv, TypeOK, PrimarySafe, Safe, VolumeSafe, ScriptSafe, Rename, Step, volumes, pods,
     Positions, None, Blank, Dirs, Soundness, CloneSteps, Servers, SideSteps
<1>3. data' = data
  BY DEF Rename, Step, volumes, pods
<1>4. (Len(Log) <= MaxTransactions)' /\ \A q \in Ordinals : DataSafe(q)'
  BY <1>3 DEF IInv, Safe, DataSafe, InOrder, Log
<1>5. VolumeSafe(r)'
  BY DEF IInv, TypeOK, PrimarySafe, Safe, VolumeSafe, ScriptSafe, Rename, Step, volumes, pods,
     Positions, None, Blank, Dirs, Soundness, CloneSteps, Servers, SideSteps
<1>6. ChangeSafe(r)'
  BY DEF IInv, TypeOK, Safe, VolumeSafe, ChangeSafe, ScriptSafe, Rename, Step, volumes, pods,
     Positions, None, Blank, Dirs, Soundness, CloneSteps, Servers, SideSteps
<1>7. ScriptSafe(r)'
  BY DEF IInv, TypeOK, Safe, VolumeSafe, ScriptSafe, Rename, Step, volumes, pods, Positions,
     None, Blank, Dirs, Soundness, CloneSteps, Servers, SideSteps
<1>8. ASSUME NEW q \in Ordinals, q # r PROVE Safe(q)'
  <2>1. Safe(q) /\ DataSafe(q)'
    BY <1>4 DEF IInv
  <2> QED
    BY <1>8, <2>1, Frame DEF IInv, TypeOK, Rename, Step, volumes, pods
<1> QED
  BY <1>1, <1>2, <1>4, <1>5, <1>6, <1>7, <1>8 DEF IInv, Safe

\* The predecessor's files and data are those of a safe volume, and so are the copies.
LEMMA ReceiveSafe ==
  ASSUME NEW r \in Ordinals, IInv, Receive(r)
  PROVE  IInv'
<1> USE Domains
<1> DEFINE s == r - 1
<1>1. r # Primary /\ s \in Ordinals /\ Safe(r) /\ Safe(s)
  BY DEF IInv, PrimarySafe, Receive
<1>2. Len(Log) \in 0..MaxTransactions /\ data[s] \in Seq(1..MaxTransactions) /\ Log \in Seq(1..MaxTransactions)
  BY <1>1, BootstrapAssumption DEF IInv, TypeOK, Log
<1>3. data'[r] = data[s] /\ \A q \in Ordinals \ {r} : data'[q] = data[q]
  BY <1>1 DEF IInv, TypeOK, Receive
<1>4. Log' = Log
  BY <1>1, <1>3 DEF Log
<1>5. TypeOK'
  <2>1. UNCHANGED <<change, master, mysqld, running, side, parsed, hurt, left>>
    BY DEF Receive
  <2>2. dir' \in [Ordinals -> Dirs] /\ sound' \in [Ordinals -> Soundness] /\ clone' \in [Ordinals -> CloneSteps]
    BY DEF Receive, IInv, TypeOK, Dirs, Soundness, CloneSteps
  <2>3. data' \in [Ordinals -> Seq(1..MaxTransactions)]
    BY <1>2 DEF Receive, IInv, TypeOK
  <2>4. slave' \in [Ordinals -> Positions] /\ binlog' \in [Ordinals -> Positions]
    BY <1>1, <1>2 DEF Receive, IInv, TypeOK, Positions, None
  <2> QED
    BY <2>1, <2>2, <2>3, <2>4 DEF IInv, TypeOK
<1>6. PrimarySafe'
  BY <1>1 DEF Receive, IInv, PrimarySafe, TypeOK
<1>7. \A q \in Ordinals : DataSafe(q)'
  BY <1>1, <1>3, <1>4 DEF IInv, Safe, DataSafe, InOrder
<1>8. VolumeSafe(r)'
  <2>1. /\ master'[r] = None /\ change'[r] = None /\ parsed'[r] = None /\ mysqld'[r] = mysqld[r]
        /\ dir'[r] = "mysql" /\ data'[r] = data[s]
        /\ slave'[r] = IF s = Primary THEN None ELSE master[s]
        /\ binlog'[r] = IF s = Primary THEN Len(Log) ELSE None
    BY <1>1 DEF Receive, IInv, TypeOK, Safe, VolumeSafe
  <2>2. master[s] # None => master[s] = Len(data[s])
    BY <1>1 DEF Safe, VolumeSafe
  <2> QED
    BY <2>1, <2>2 DEF VolumeSafe, Log
<1>9. ChangeSafe(r)' /\ ScriptSafe(r)'
  BY <1>1 DEF Receive, IInv, TypeOK, Safe, VolumeSafe, ChangeSafe, ScriptSafe, None
<1>10. ASSUME NEW q \in Ordinals, q # r PROVE Safe(q)'
  <2>1. Safe(q) /\ DataSafe(q)'
    BY <1>7 DEF IInv
  <2> QED
    BY <1>10, <2>1, Frame DEF IInv, TypeOK, Receive
<1> QED
  BY <1>2, <1>4, <1>5, <1>6, <1>7, <1>8, <1>9, <1>10 DEF IInv, Safe

\* The log stays in order, and no replica's volume is the primary's.
LEMMA CommitSafe ==
  ASSUME IInv, Commit
  PROVE  IInv'
<1> USE Domains
<1>1. Log \in Seq(1..MaxTransactions) /\ Len(Log) \in Nat /\ InOrder(Log) /\ Len(Log) < MaxTransactions
  BY DEF IInv, TypeOK, Safe, DataSafe, Log, Commit
<1>2. Log' = Append(Log, Len(Log) + 1) /\ \A q \in Ordinals \ {Primary} : data'[q] = data[q]
  BY DEF IInv, TypeOK, Log, Commit
<1>3. Len(Log) + 1 \in 1..MaxTransactions
  BY <1>1, BootstrapAssumption
<1>4. /\ Log' \in Seq(1..MaxTransactions) /\ Len(Log') = Len(Log) + 1
      /\ \A i \in 1..(Len(Log) + 1) : Log'[i] = IF i <= Len(Log) THEN Log[i] ELSE Len(Log) + 1
  BY <1>1, <1>2, <1>3, AppendProperties
<1>5. InOrder(Log')
  BY <1>1, <1>4 DEF InOrder
<1>6. TypeOK'
  BY <1>2, <1>4 DEF IInv, TypeOK, Commit, pods, Log
<1>7. PrimarySafe' /\ (Len(Log) <= MaxTransactions)'
  <2>1. PrimarySafe'
    BY DEF IInv, PrimarySafe, Commit, pods
  <2>2. Len(Log') <= MaxTransactions
    BY <1>1, <1>3, <1>4
  <2> QED
    BY <2>1, <2>2
<1>8. ASSUME NEW q \in Ordinals PROVE DataSafe(q)'
  <2>1. CASE q = Primary
    BY <1>1, <1>4, <1>5, <2>1 DEF DataSafe, Log
  <2>2. CASE q # Primary
    <3>1. data'[q] = data[q] /\ Len(data[q]) <= Len(Log) /\ InOrder(data[q]) /\ Len(data[q]) \in Nat
      BY <1>2, <2>2 DEF IInv, TypeOK, Safe, DataSafe
    <3> QED
      BY <1>1, <1>4, <3>1 DEF DataSafe, InOrder
  <2> QED
    BY <2>1, <2>2
<1>9. Safe(Primary)'
  BY <1>8 DEF IInv, TypeOK, PrimarySafe, Commit, pods, Safe, VolumeSafe, ChangeSafe, ScriptSafe
<1>10. ASSUME NEW q \in Ordinals, q # Primary PROVE Safe(q)'
  <2>1. Safe(q) /\ DataSafe(q)' /\ data'[q] = data[q]
    BY <1>2, <1>8, <1>10 DEF IInv
  <2> QED
    BY <2>1, Frame DEF Commit, pods
<1> QED
  BY <1>6, <1>7, <1>9, <1>10 DEF IInv

\* The transaction that follows the position is the one that follows the data.
LEMMA ReplicateSafe ==
  ASSUME NEW r \in Ordinals, IInv, Replicate(r)
  PROVE  IInv'
<1> USE Domains
<1>1. /\ Safe(r) /\ r # Primary /\ data[r] \in Seq(1..MaxTransactions) /\ master[r] = Len(data[r])
      /\ Log \in Seq(1..MaxTransactions) /\ InOrder(Log) /\ Len(Log) <= MaxTransactions
  BY DEF IInv, TypeOK, PrimarySafe, Safe, VolumeSafe, ScriptSafe, DataSafe, Log, Replicate
<1>2. master[r] \in Nat /\ master[r] < Len(Log) /\ Log[master[r] + 1] = Len(data[r]) + 1
      /\ Len(data[r]) + 1 \in 1..MaxTransactions
  BY <1>1, BootstrapAssumption DEF Replicate, InOrder
<1>3. data'[r] = Append(data[r], Len(data[r]) + 1) /\ \A q \in Ordinals \ {r} : data'[q] = data[q]
  BY <1>2 DEF IInv, TypeOK, Replicate
<1>4. /\ data'[r] \in Seq(1..MaxTransactions) /\ Len(data'[r]) = Len(data[r]) + 1
      /\ \A i \in 1..(Len(data[r]) + 1) : data'[r][i] = IF i <= Len(data[r]) THEN data[r][i] ELSE Len(data[r]) + 1
  BY <1>1, <1>2, <1>3, AppendProperties
<1>5. Log' = Log
  BY <1>1, <1>3 DEF Log
<1>6. master'[r] = Len(data'[r]) /\ master' \in [Ordinals -> Positions]
  BY <1>1, <1>2, <1>4 DEF IInv, TypeOK, Replicate, Positions
<1>7. TypeOK'
  BY <1>3, <1>4, <1>6 DEF IInv, TypeOK, Replicate, pods
<1>8. PrimarySafe'
  BY <1>1 DEF IInv, TypeOK, PrimarySafe, Replicate, pods
<1>9. ASSUME NEW q \in Ordinals PROVE DataSafe(q)'
  <2>1. CASE q = r
    <3>1. InOrder(data[r])
      BY <1>1 DEF Safe, DataSafe
    <3>2. \A i \in 1..(Len(data[r]) + 1) : data'[r][i] = i
      <4>1. ASSUME NEW i \in 1..(Len(data[r]) + 1) PROVE data'[r][i] = i
        <5>1. i <= Len(data[r]) => i \in 1..Len(data[r])
          BY <1>1, <1>2
        <5>2. ~(i <= Len(data[r])) => i = Len(data[r]) + 1
          BY <1>1, <1>2
        <5> QED
          BY <1>4, <3>1, <5>1, <5>2 DEF InOrder
      <4> QED
        BY <4>1
    <3>3. InOrder(data'[r])
      BY <1>4, <3>2 DEF InOrder
    <3>4. Len(data'[r]) <= Len(Log')
      BY <1>1, <1>2, <1>4, <1>5
    <3> QED
      BY <2>1, <3>3, <3>4 DEF DataSafe
  <2>2. CASE q # r
    BY <1>3, <1>5, <2>2 DEF IInv, Safe, DataSafe, InOrder
  <2> QED
    BY <2>1, <2>2
<1>10. VolumeSafe(r)' /\ ChangeSafe(r)' /\ ScriptSafe(r)'
  BY <1>1, <1>2, <1>4, <1>6 DEF IInv, TypeOK, Replicate, pods, Safe, VolumeSafe, ChangeSafe,
     ScriptSafe, None
<1>11. ASSUME NEW q \in Ordinals, q # r PROVE Safe(q)'
  <2>1. Safe(q) /\ DataSafe(q)' /\ data'[q] = data[q] /\ master'[q] = master[q]
    BY <1>3, <1>9, <1>11 DEF IInv, TypeOK, Replicate
  <2> QED
    BY <2>1, Frame DEF Replicate, pods
<1> QED
  BY <1>1, <1>5, <1>7, <1>8, <1>9, <1>10, <1>11 DEF IInv, Safe

\* What a kill does to each Pod: volumes lose nothing but what the killed script was
\* writing, and a Pod that is not there, or not yet cloned, runs nothing.
LEMMA KillSafe ==
  ASSUME NEW r \in Ordinals, NEW t \in Targets, IInv, Kill(r, t)
  PROVE  IInv'
<1> USE Domains
<1> DEFINE cut == CutOff(r, t) \cup (IF t \in {"clone", "pod"} /\ clone[r] = "transfer" THEN {r} ELSE {})
<1>1. TypeOK /\ UNCHANGED <<sound, data, slave, binlog, master>> /\ Log' = Log
  BY DEF IInv, Kill, Log
<1>2. cut \subseteq Ordinals /\ \A q \in cut : clone[q] = "transfer"
  BY DEF CutOff
<1>3. dir' \in [Ordinals -> Dirs] /\ \A q \in Ordinals : dir[q] # "empty" => dir'[q] = dir[q]
  <2>1. CASE cut = {}
    BY <1>1, <2>1 DEF Kill, TypeOK
  <2>2. CASE Torn(cut)
    BY <1>1, <2>2 DEF Torn, TypeOK
  <2> QED
    BY <2>1, <2>2 DEF Kill
<1>4. clone' = [q \in Ordinals |-> IF q = r /\ t = "pod" THEN "none"
                                  ELSE IF q \in cut \/ (q = r /\ t = "clone") THEN "check"
                                  ELSE clone[q]]
  BY DEF Kill
<1>5. /\ change' \in [Ordinals -> Positions]
      /\ \A q \in Ordinals :
           \/ change'[q] = change[q]
           \/ change'[q] = Blank /\ side[q] \in {"copy", "write"}
  <2>1. CASE side[r] \in {"copy", "write"} /\ \E f \in {change[r], Blank} : change' = [change EXCEPT ![r] = f]
    BY <1>1, <2>1 DEF TypeOK, Positions
  <2>2. CASE UNCHANGED change
    BY <1>1, <2>2 DEF TypeOK
  <2> QED
    BY <2>1, <2>2 DEF Kill, CutWrite
<1>6. /\ mysqld' \in [Ordinals -> Servers] /\ running' \in [Ordinals -> BOOLEAN]
      /\ \A q \in Ordinals :
           \/ mysqld'[q] = mysqld[q] /\ running'[q] = running[q]
           \/ mysqld'[q] = "down" /\ running'[q] = FALSE
  <2>1. CASE t \in {"mysqld", "pod"}
    <3>1. mysqld' = [mysqld EXCEPT ![r] = "down"] /\ running' = [running EXCEPT ![r] = FALSE]
      BY <2>1 DEF Kill
    <3> QED
      BY <1>1, <3>1 DEF TypeOK, Servers
  <2>2. CASE t \notin {"mysqld", "pod"}
    <3>1. UNCHANGED <<mysqld, running>>
      BY <2>2 DEF Kill
    <3> QED
      BY <1>1, <3>1 DEF TypeOK
  <2> QED
    BY <2>1, <2>2
<1>7. /\ side' \in [Ordinals -> SideSteps] /\ parsed' \in [Ordinals -> Positions]
      /\ \A q \in Ordinals :
           \/ side'[q] = side[q] /\ parsed'[q] = parsed[q] /\ (t = "pod" => q # r)
           \/ /\ side'[q] = "parse" /\ side[q] # "off"
              /\ parsed'[q] = None \/ (parsed'[q] = parsed[q] /\ side[q] = "start")
              /\ t = "pod" => q # r
           \/ side'[q] = "off" /\ parsed'[q] = None
  <2>1. CASE t = "pod"
    <3>1. side' = [side EXCEPT ![r] = "off"] /\ parsed' = [parsed EXCEPT ![r] = None]
      BY <2>1 DEF Kill
    <3> QED
      BY <1>1, <3>1 DEF TypeOK, SideSteps, Positions
  <2>2. CASE t = "sidecar"
    <3>1. /\ side[r] # "off" /\ side' = [side EXCEPT ![r] = "parse"]
          /\ parsed' = [parsed EXCEPT ![r] = None]
      BY <2>2 DEF Kill
    <3>2. side' \in [Ordinals -> SideSteps] /\ parsed' \in [Ordinals -> Positions]
      BY <1>1, <3>1 DEF TypeOK, SideSteps, Positions
    <3> QED
      BY <1>1, <2>2, <3>1, <3>2 DEF TypeOK
  <2>3. CASE t = "mysqld"
    <3>1. UNCHANGED parsed
      BY <2>3 DEF Kill
    <3>2. \/ side[r] = "start" /\ side' = [side EXCEPT ![r] = "parse"]
          \/ UNCHANGED side
      BY <2>3 DEF Kill
    <3> QED
      BY <1>1, <2>3, <3>1, <3>2 DEF TypeOK, SideSteps
  <2>4. CASE t = "clone"
    BY <1>1, <2>4 DEF Kill, TypeOK
  <2> QED
    BY <2>1, <2>2, <2>3, <2>4 DEF Targets
<1>8. TypeOK'
  <2>1. clone' \in [Ordinals -> CloneSteps]
    BY <1>1, <1>4 DEF TypeOK, CloneSteps
  <2>2. hurt' \subseteq Ordinals
    BY <1>1, <1>2 DEF Kill, TypeOK
  <2>3. left' \in [Targets -> Nat]
    BY <1>1 DEF Kill, TypeOK
  <2> QED
    BY <1>1, <1>3, <1>5, <1>6, <1>7, <2>1, <2>2, <2>3 DEF TypeOK
<1>9. ASSUME NEW q \in Ordinals PROVE VolumeSafe(q)'
  BY <1>1, <1>3, <1>5, <1>6, <1>7 DEF IInv, Safe, VolumeSafe, ScriptSafe, TypeOK, Dirs
<1>10. ASSUME NEW q \in Ordinals PROVE ChangeSafe(q)'
  BY <1>1, <1>5, <1>6 DEF IInv, Safe, ChangeSafe
<1>11. ASSUME NEW q \in Ordinals PROVE ScriptSafe(q)'
  <2>1. Safe(q)
    BY DEF IInv
  <2>2. clone'[q] # "done" => side'[q] = "off"
    <3>1. CASE q = r /\ t = "pod"
      BY <1>7, <3>1
    <3>2. CASE q \in cut \/ (q = r /\ t = "clone")
      <4>1. clone[q] # "done"
        BY <1>2, <3>2 DEF Kill
      <4> QED
        BY <1>7, <2>1, <4>1 DEF Safe, ScriptSafe
    <3>3. CASE ~(q = r /\ t = "pod") /\ ~(q \in cut \/ (q = r /\ t = "clone"))
      <4>1. clone'[q] = clone[q]
        BY <1>4, <3>3
      <4> QED
        BY <1>7, <2>1, <4>1 DEF Safe, ScriptSafe
    <3> QED
      BY <3>1, <3>2, <3>3
  <2> QED
    BY <1>1, <1>5, <1>6, <1>7, <2>1, <2>2 DEF Safe, ScriptSafe, None, Blank
<1>12. \A q \in Ordinals : DataSafe(q)'
  BY <1>1 DEF IInv, Safe, DataSafe, InOrder
<1>13. PrimarySafe'
  <2>1. clone'[Primary] \in {"none", "check", "done"}
    BY <1>4 DEF IInv, PrimarySafe
  <2>2. change'[Primary] = None /\ parsed'[Primary] = None
    BY <1>5, <1>7 DEF IInv, PrimarySafe, Safe, ScriptSafe
  <2> QED
    BY <1>1, <2>1, <2>2 DEF IInv, PrimarySafe
<1> QED
  BY <1>1, <1>8, <1>9, <1>10, <1>11, <1>12, <1>13 DEF IInv, Safe

LEMMA NextSafe == IInv /\ [Next]_vars => IInv'
<1> SUFFICES ASSUME IInv, [Next]_vars PROVE IInv'
  OBVIOUS
<1>1. CASE Commit
  BY <1>1, CommitSafe
<1>2. ASSUME NEW r \in Ordinals, Script(r) PROVE IInv'
  BY <1>2, StartPodSafe, CheckDataSafe, ConnectSafe, ReceiveSafe, PrepareSafe, InitialiseSafe,
     InitialisedSafe, ParseSafe, CopySlaveInfoSafe, RemoveSlaveInfoSafe, WriteChangeSafe,
     ChangeMasterSafe, StartSlaveSafe, RenameSafe DEF Script
<1>3. ASSUME NEW r \in Ordinals, RefuseFiles(r) \/ StartServer(r) \/ Replicate(r) PROVE IInv'
  BY <1>3, RefuseFilesSafe, StartServerSafe, ReplicateSafe
<1>4. ASSUME NEW r \in Ordinals, NEW t \in Targets, Kill(r, t) PROVE IInv'
  BY <1>4, KillSafe
<1>5. CASE UNCHANGED vars
  BY <1>5 DEF vars, volumes, pods, IInv, TypeOK, PrimarySafe, Safe, VolumeSafe, ChangeSafe,
     ScriptSafe, DataSafe, InOrder, Log
<1> QED
  BY <1>1, <1>2, <1>3, <1>4, <1>5 DEF Next

LEMMA AlwaysSafe == Spec => []IInv
BY InitSafe, NextSafe, PTL DEF Spec

\* A sequence in order is determined by its length.
LEMMA InOrderPrefix ==
  ASSUME NEW S, NEW s \in Seq(S), NEW log \in Seq(S), InOrder(s), InOrder(log), Len(s) <= Len(log)
  PROVE  s = SubSeq(log, 1, Len(s))
<1>1. Len(s) \in Nat /\ Len(log) \in Nat
  BY LenProperties
<1> DEFINE prefix == SubSeq(log, 1, Len(s))
<1>2. prefix \in Seq(S) /\ Len(prefix) = Len(s) /\ \A i \in 1..Len(s) : prefix[i] = log[i]
  BY <1>1, SubSeqProperties
<1>3. \A i \in 1..Len(s) : s[i] = prefix[i]
  BY <1>1, <1>2 DEF InOrder
<1> QED
  BY <1>2, <1>3, SeqEqual

-----------------------------------------------------------------------------
\* The types of the variables, at any number of Pods, transactions and kills.
THEOREM BootstrapTypeCorrect == Spec => []TypeOK
<1>1. IInv => TypeOK
  BY DEF IInv
<1> QED
  BY <1>1, AlwaysSafe, PTL

\* Every consistent copy is a prefix of the primary's transactions: at whatever lines the
\* scripts of whatever Pods are killed, no transaction is skipped or applied twice.
THEOREM CopiesExact == Spec => []ExactCopies
<1>1. IInv => ExactCopies
  BY Domains, InOrderPrefix DEF IInv, TypeOK, Safe, DataSafe, Log, ExactCopies
<1> QED
  BY <1>1, AlwaysSafe, PTL
=============================================================================
