--------------------------- MODULE MysqlBootstrap ---------------------------
(***************************************************************************)
(* How the Pods of the MySQL StatefulSet become a primary and its          *)
(* replicas: the shell scripts of the clone-mysql init container and of    *)
(* the xtrabackup sidecar (src/internal/controller/dbpod_depl.go), their   *)
(* files on the data volume, and containers that are killed at any line.   *)
(*                                                                         *)
(* A position in the primary's binary log is the number of transactions    *)
(* before it.  MySQL, xtrabackup and ncat are modelled as the scripts use  *)
(* them; MySQL's own recovery after a crash is taken to be exact.          *)
(***************************************************************************)
EXTENDS Integers, Sequences

CONSTANTS
  Replicas,        \* Pods of the StatefulSet
  MaxTransactions, \* bound: transactions on the primary
  Limits           \* bound: how often a container of each kind, or a Pod, is killed

Targets == {"clone", "mysqld", "sidecar", "pod"}

ASSUME BootstrapAssumption ==
  /\ Replicas \in Nat \ {0}
  /\ MaxTransactions \in Nat
  /\ Limits \in [Targets -> Nat]

Ordinals == 0..(Replicas - 1)
Primary == 0

\* A position; a file that is not there, or a replica without master; an empty file.
None == -1
Blank == -2
Positions == 0..MaxTransactions \cup {None, Blank}

VARIABLES
  \* the data volumes
  dir,     \* no files, files but not the directory mysql, or that too
  sound,   \* is the content a consistent copy?  after a clone, only once prepared
  data,    \* the transactions it holds
  slave,   \* xtrabackup_slave_info
  binlog,  \* xtrabackup_binlog_info
  change,  \* change_master_to.sql.in
  master,  \* the position up to which the primary's log has been applied
  \* the Pods
  clone,   \* where the script of clone-mysql is
  mysqld,  \* the MySQL server
  running, \* are its replication threads running?
  side,    \* where the script of the sidecar is
  parsed,  \* the position it has parsed
  \* bookkeeping
  hurt,    \* Pods that were hit in one of their windows
  left     \* kills that may still happen

volumes == <<dir, sound, data, slave, binlog, change, master>>
pods == <<clone, mysqld, running, side, parsed>>
vars == <<volumes, pods, hurt, left>>

Dirs == {"empty", "partial", "mysql"}
Soundness == {"no", "unprepared", "yes"}
CloneSteps == {"none", "check", "connect", "transfer", "prepare", "done"}
Servers == {"down", "initialising", "up"}
SideSteps == {"off", "parse", "copy", "clean", "write", "wait", "start", "rename", "serve"}

TypeOK ==
  /\ dir \in [Ordinals -> Dirs]
  /\ sound \in [Ordinals -> Soundness]
  /\ data \in [Ordinals -> Seq(1..MaxTransactions)]
  /\ slave \in [Ordinals -> Positions] /\ binlog \in [Ordinals -> Positions]
  /\ change \in [Ordinals -> Positions] /\ master \in [Ordinals -> Positions]
  /\ clone \in [Ordinals -> CloneSteps]
  /\ mysqld \in [Ordinals -> Servers]
  /\ running \in [Ordinals -> BOOLEAN]
  /\ side \in [Ordinals -> SideSteps]
  /\ parsed \in [Ordinals -> Positions]
  /\ hurt \subseteq Ordinals
  /\ left \in [Targets -> Nat]

Everywhere(x) == [r \in Ordinals |-> x]

Init ==
  /\ dir = Everywhere("empty")
  /\ sound = Everywhere("no")
  /\ data = Everywhere(<<>>)
  /\ slave = Everywhere(None) /\ binlog = Everywhere(None)
  /\ change = Everywhere(None) /\ master = Everywhere(None)
  /\ clone = Everywhere("none")
  /\ mysqld = Everywhere("down")
  /\ running = Everywhere(FALSE)
  /\ side = Everywhere("off") /\ parsed = Everywhere(None)
  /\ hurt = {}
  /\ left = Limits

Log == data[Primary]
Ready(r) == mysqld[r] = "up"

-----------------------------------------------------------------------------
(***************************************************************************)
(* The init container clone-mysql.                                         *)
(***************************************************************************)

\* The StatefulSet controller starts a Pod when its predecessor is ready.
StartPod(r) ==
  /\ clone[r] = "none"
  /\ r # Primary => Ready(r - 1)
  /\ clone' = [clone EXCEPT ![r] = "check"]
  /\ UNCHANGED <<volumes, mysqld, running, side, parsed, hurt, left>>

\* The clone is skipped when the directory mysql exists, and on the primary.
CheckData(r) ==
  /\ clone[r] = "check"
  /\ IF dir[r] = "mysql" \/ r = Primary
     THEN /\ clone' = [clone EXCEPT ![r] = "done"]
          /\ side' = [side EXCEPT ![r] = "parse"]
     ELSE /\ clone' = [clone EXCEPT ![r] = "connect"]
          /\ UNCHANGED side
  /\ UNCHANGED <<volumes, mysqld, running, parsed, hurt, left>>

\* ncat finds the sidecar of the predecessor listening; when it is refused, the script
\* fails for want of data and starts again.
Connect(r) ==
  /\ clone[r] = "connect" /\ mysqld[r - 1] = "up" /\ side[r - 1] = "serve"
  /\ clone' = [clone EXCEPT ![r] = "transfer"]
  /\ UNCHANGED <<volumes, mysqld, running, side, parsed, hurt, left>>

\* Mutant of Receive: xtrabackup is called without --slave-info.
ReceiveWithoutSlaveInfo(r) ==
  LET s == r - 1
  IN /\ clone[r] = "transfer" /\ dir[r] = "empty"
     /\ dir' = [dir EXCEPT ![r] = "mysql"]
     /\ sound' = [sound EXCEPT ![r] = IF sound[s] = "yes" THEN "unprepared" ELSE "no"]
     /\ data' = [data EXCEPT ![r] = data[s]]
     /\ binlog' = [binlog EXCEPT ![r] = IF s = Primary THEN Len(Log) ELSE None]
     /\ clone' = [clone EXCEPT ![r] = "prepare"]
     /\ UNCHANGED <<slave, change, master, mysqld, running, side, parsed, hurt, left>>

\* xtrabackup sends the data of the predecessor as of the end of the transfer, with the
\* position of the log: the primary's own, or the one a replica has applied.  A replica
\* without a master keeps no log: nothing comes with its data.
Receive(r) ==
  LET s == r - 1
  IN /\ clone[r] = "transfer" /\ dir[r] = "empty"
     /\ dir' = [dir EXCEPT ![r] = "mysql"]
     /\ sound' = [sound EXCEPT ![r] = IF sound[s] = "yes" THEN "unprepared" ELSE "no"]
     /\ data' = [data EXCEPT ![r] = data[s]]
     /\ slave' = [slave EXCEPT ![r] = IF s = Primary THEN None ELSE master[s]]
     /\ binlog' = [binlog EXCEPT ![r] = IF s = Primary THEN Len(Log) ELSE None]
     /\ clone' = [clone EXCEPT ![r] = "prepare"]
     /\ UNCHANGED <<change, master, mysqld, running, side, parsed, hurt, left>>

\* xbstream does not replace files that are there: the script fails and starts again.
RefuseFiles(r) ==
  /\ clone[r] = "transfer" /\ dir[r] = "partial"
  /\ clone' = [clone EXCEPT ![r] = "check"]
  /\ UNCHANGED <<volumes, mysqld, running, side, parsed, hurt, left>>

Prepare(r) ==
  /\ clone[r] = "prepare"
  /\ sound' = [sound EXCEPT ![r] = IF @ = "unprepared" THEN "yes" ELSE @]
  /\ clone' = [clone EXCEPT ![r] = "done"]
  /\ side' = [side EXCEPT ![r] = "parse"]
  /\ UNCHANGED <<dir, data, slave, binlog, change, master, mysqld, running, parsed, hurt, left>>

-----------------------------------------------------------------------------
(***************************************************************************)
(* The server.                                                             *)
(***************************************************************************)

\* The image initialises an empty volume: the directory mysql is there from the start.
Initialise(r) ==
  /\ clone[r] = "done" /\ mysqld[r] = "down" /\ dir[r] # "mysql"
  /\ mysqld' = [mysqld EXCEPT ![r] = "initialising"]
  /\ dir' = [dir EXCEPT ![r] = "mysql"]
  /\ UNCHANGED <<sound, data, slave, binlog, change, master, clone, running, side, parsed,
                 hurt, left>>

Initialised(r) ==
  /\ mysqld[r] = "initialising"
  /\ mysqld' = [mysqld EXCEPT ![r] = "up"]
  /\ sound' = [sound EXCEPT ![r] = "yes"]
  /\ UNCHANGED <<dir, data, slave, binlog, change, master, clone, running, side, parsed,
                 hurt, left>>

\* A server that has a master starts replicating by itself.  It may, but need not,
\* come up on a copy that is not consistent.
StartServer(r) ==
  /\ clone[r] = "done" /\ mysqld[r] = "down" /\ dir[r] = "mysql"
  /\ mysqld' = [mysqld EXCEPT ![r] = "up"]
  /\ running' = [running EXCEPT ![r] = master[r] # None]
  /\ UNCHANGED <<volumes, clone, side, parsed, hurt, left>>

Commit ==
  /\ mysqld[Primary] = "up" /\ Len(Log) < MaxTransactions
  /\ data' = [data EXCEPT ![Primary] = Append(@, Len(@) + 1)]
  /\ UNCHANGED <<dir, sound, slave, binlog, change, master, pods, hurt, left>>

\* The next transaction after the applied position.
Replicate(r) ==
  /\ running[r] /\ mysqld[r] = "up" /\ mysqld[Primary] = "up"
  /\ master[r] < Len(Log)
  /\ data' = [data EXCEPT ![r] = Append(@, Log[master[r] + 1])]
  /\ master' = [master EXCEPT ![r] = @ + 1]
  /\ UNCHANGED <<dir, sound, slave, binlog, change, pods, hurt, left>>

-----------------------------------------------------------------------------
(***************************************************************************)
(* The sidecar, line by line.                                              *)
(***************************************************************************)

Step(r, from, to) == side[r] = from /\ side' = [side EXCEPT ![r] = to]

\* Which coordinates came with the data, if any; those of the primary are read and
\* their file removed, at once, before they are written elsewhere.
Parse(r) ==
  /\ \/ /\ slave[r] # None
        /\ Step(r, "parse", "copy")
        /\ UNCHANGED <<slave, binlog, parsed>>
     \/ /\ slave[r] = None /\ binlog[r] # None
        /\ Step(r, "parse", "write")
        /\ parsed' = [parsed EXCEPT ![r] = binlog[r]]
        /\ binlog' = [binlog EXCEPT ![r] = None]
        /\ UNCHANGED slave
     \/ /\ slave[r] = None /\ binlog[r] = None
        /\ Step(r, "parse", IF change[r] = None THEN "serve" ELSE "wait")
        /\ UNCHANGED <<slave, binlog, parsed>>
  /\ UNCHANGED <<dir, sound, data, change, master, clone, mysqld, running, hurt, left>>

\* The coordinates of a replica are copied first and removed then.
CopySlaveInfo(r) ==
  /\ Step(r, "copy", "clean")
  /\ change' = [change EXCEPT ![r] = slave[r]]
  /\ UNCHANGED <<dir, sound, data, slave, binlog, master, clone, mysqld, running, parsed,
                 hurt, left>>

RemoveSlaveInfo(r) ==
  /\ Step(r, "clean", "wait")
  /\ slave' = [slave EXCEPT ![r] = None] /\ binlog' = [binlog EXCEPT ![r] = None]
  /\ UNCHANGED <<dir, sound, data, change, master, clone, mysqld, running, parsed, hurt, left>>

\* Mutant of WriteChange: the position after the one parsed.
WriteChangeNext(r) ==
  /\ Step(r, "write", "wait")
  /\ change' = [change EXCEPT ![r] = parsed[r] + 1]
  /\ parsed' = [parsed EXCEPT ![r] = None]
  /\ UNCHANGED <<dir, sound, data, slave, binlog, master, clone, mysqld, running, hurt, left>>

WriteChange(r) ==
  /\ Step(r, "write", "wait")
  /\ change' = [change EXCEPT ![r] = parsed[r]]
  /\ parsed' = [parsed EXCEPT ![r] = None]
  /\ UNCHANGED <<dir, sound, data, slave, binlog, master, clone, mysqld, running, hurt, left>>

\* The script ends with an error: its container is started again.
Fail(r) == side' = [side EXCEPT ![r] = "parse"] /\ UNCHANGED <<master, running>>

\* Mutant of ChangeMaster: STOP SLAVE comes first.
ChangeMasterStopped(r) ==
  /\ side[r] = "wait" /\ mysqld[r] = "up"
  /\ IF change[r] = Blank
     THEN Fail(r)
     ELSE /\ Step(r, "wait", "start")
          /\ master' = [master EXCEPT ![r] = change[r]]
          /\ running' = [running EXCEPT ![r] = FALSE]
  /\ UNCHANGED <<dir, sound, data, slave, binlog, change, clone, mysqld, parsed, hurt, left>>

\* Once the server answers, CHANGE MASTER: refused while replication runs, and no
\* statement at all when the file is empty.
ChangeMaster(r) ==
  /\ side[r] = "wait" /\ mysqld[r] = "up"
  /\ IF change[r] = Blank \/ running[r]
     THEN Fail(r)
     ELSE /\ Step(r, "wait", "start")
          /\ master' = [master EXCEPT ![r] = change[r]]
          /\ UNCHANGED running
  /\ UNCHANGED <<dir, sound, data, slave, binlog, change, clone, mysqld, parsed, hurt, left>>

\* START SLAVE, on the same connection.
StartSlave(r) ==
  /\ Step(r, "start", "rename")
  /\ mysqld[r] = "up"
  /\ running' = [running EXCEPT ![r] = TRUE]
  /\ UNCHANGED <<volumes, clone, mysqld, parsed, hurt, left>>

\* Mutant of Rename: the file is left where it was.
RenameNot(r) ==
  /\ Step(r, "rename", "serve")
  /\ UNCHANGED <<volumes, clone, mysqld, running, parsed, hurt, left>>

\* mv change_master_to.sql.in: then the sidecar serves clones.
Rename(r) ==
  /\ Step(r, "rename", "serve")
  /\ change' = [change EXCEPT ![r] = None]
  /\ UNCHANGED <<dir, sound, data, slave, binlog, master, clone, mysqld, running, parsed,
                 hurt, left>>

-----------------------------------------------------------------------------
(***************************************************************************)
(* Containers are killed: by a probe, for memory, with their node.         *)
(***************************************************************************)

\* The lines at which a kill of t in Pod r is not made good by starting again: the clone
\* and the first initialisation leave the directory mysql behind; the parsed position
\* is in memory alone; replication runs, or will run as soon as the server is back,
\* while the file that makes the script set it up is still there.
InWindow(r, t) ==
  \/ t \in {"clone", "pod"} /\ clone[r] \in {"transfer", "prepare"}
  \/ t \in {"sidecar", "pod"} /\ side[r] \in {"write", "rename"}
  \/ t \in {"mysqld", "pod"} /\ mysqld[r] = "initialising"
  \/ t \in {"mysqld", "pod"} /\ master[r] # None /\ change[r] # None /\ ~running[r]

\* Whose clone is cut off when t is killed in Pod r.
CutOff(r, t) == {q \in {r + 1} \cap Ordinals : clone[q] = "transfer" /\ t \in {"mysqld", "sidecar", "pod"}}

\* What the volumes may hold after the transfers to Pods in cut were cut off.
Torn(cut) ==
  \E d \in Dirs :
    /\ \A q \in cut : dir[q] # "empty" => d = dir[q]
    /\ dir' = [q \in Ordinals |-> IF q \in cut THEN d ELSE dir[q]]

\* What a file may hold after the sidecar was killed while writing it.
CutWrite(r, t) ==
  IF t \in {"sidecar", "pod"} /\ side[r] \in {"copy", "write"}
  THEN \E f \in {change[r], Blank} : change' = [change EXCEPT ![r] = f]
  ELSE UNCHANGED change

Kill(r, t) ==
  /\ left[t] > 0 /\ left' = [left EXCEPT ![t] = @ - 1]
  /\ CASE t = "clone"   -> clone[r] \in {"check", "connect", "transfer", "prepare"}
       [] t = "mysqld"  -> mysqld[r] # "down"
       [] t = "sidecar" -> side[r] # "off"
       [] t = "pod"     -> clone[r] # "none"
  /\ LET cut == CutOff(r, t) \cup (IF t \in {"clone", "pod"} /\ clone[r] = "transfer" THEN {r} ELSE {})
     IN /\ IF cut = {} THEN UNCHANGED dir ELSE Torn(cut)
        /\ clone' = [q \in Ordinals |->
                       IF q = r /\ t = "pod" THEN "none"
                       ELSE IF q \in cut \/ (q = r /\ t = "clone") THEN "check"
                       ELSE clone[q]]
        /\ hurt' = hurt \cup cut \cup (IF InWindow(r, t) THEN {r} ELSE {})
  /\ CutWrite(r, t)
  /\ mysqld' = IF t \in {"mysqld", "pod"} THEN [mysqld EXCEPT ![r] = "down"] ELSE mysqld
  /\ running' = IF t \in {"mysqld", "pod"} THEN [running EXCEPT ![r] = FALSE] ELSE running
  /\ side' = CASE t = "sidecar" -> [side EXCEPT ![r] = "parse"]
               [] t = "pod" -> [side EXCEPT ![r] = "off"]
               [] t = "mysqld" /\ side[r] = "start" -> [side EXCEPT ![r] = "parse"]
               [] OTHER -> side
  /\ parsed' = IF t \in {"sidecar", "pod"} THEN [parsed EXCEPT ![r] = None] ELSE parsed
  /\ UNCHANGED <<sound, data, slave, binlog, master>>

Script(r) ==
  \/ StartPod(r) \/ CheckData(r) \/ Connect(r) \/ Receive(r) \/ Prepare(r)
  \/ Initialise(r) \/ Initialised(r)
  \/ Parse(r) \/ CopySlaveInfo(r) \/ RemoveSlaveInfo(r) \/ WriteChange(r)
  \/ ChangeMaster(r) \/ StartSlave(r) \/ Rename(r)

Next ==
  \/ Commit
  \/ \E r \in Ordinals :
       \/ Script(r) \/ RefuseFiles(r) \/ StartServer(r) \/ Replicate(r)
       \/ \E t \in Targets : Kill(r, t)

\* Every container goes on; a server comes up on a consistent copy.
Fairness ==
  \A r \in Ordinals :
    /\ WF_vars(StartPod(r)) /\ WF_vars(CheckData(r)) /\ WF_vars(Connect(r))
    /\ WF_vars(Receive(r)) /\ WF_vars(Prepare(r))
    /\ WF_vars(Initialise(r)) /\ WF_vars(Initialised(r))
    /\ WF_vars(sound[r] = "yes" /\ StartServer(r))
    /\ WF_vars(Replicate(r))
    /\ WF_vars(Parse(r)) /\ WF_vars(CopySlaveInfo(r)) /\ WF_vars(RemoveSlaveInfo(r))
    /\ WF_vars(WriteChange(r)) /\ WF_vars(ChangeMaster(r)) /\ WF_vars(StartSlave(r))
    /\ WF_vars(Rename(r))

Spec == Init /\ [][Next]_vars

FairSpec == Spec /\ Fairness
-----------------------------------------------------------------------------
(***************************************************************************)
(* Safety.                                                                 *)
(***************************************************************************)

\* A consistent copy holds the primary's transactions up to some point, each once: the
\* coordinates that travel with a clone, through whatever files and kills, are those of
\* the data, and replication is never set back once it runs.
ExactCopies ==
  \A r \in Ordinals : sound[r] = "yes" =>
    Len(data[r]) <= Len(Log) /\ data[r] = SubSeq(Log, 1, Len(data[r]))

Unhurt(r) == (0..r) \cap hurt = {}

\* Outside the windows a kill is harmless: no replica serves clones that has not been
\* given its master, and no sidecar comes to set up replication that runs already.
KillsHarmless ==
  \A r \in Ordinals \ {Primary} : Unhurt(r) =>
    /\ side[r] = "serve" => master[r] # None /\ sound[r] = "yes"
    /\ side[r] \in {"parse", "wait"} /\ change[r] # None => ~running[r]

-----------------------------------------------------------------------------
(***************************************************************************)
(* Liveness.                                                               *)
(***************************************************************************)

\* The Pods that are not hit in a window, nor any Pod before them, come up, replicate,
\* catch up with the primary and serve clones.
Bootstraps ==
  \A r \in Ordinals :
    []Unhurt(r) => <>[](/\ mysqld[r] = "up" /\ side[r] = "serve"
                        /\ r # Primary => running[r] /\ data[r] = Log)

\* The sidecar of a replica with a consistent copy completes the clone by starting
\* replication before it serves clones itself.
ClonesReplicate ==
  \A r \in Ordinals \ {Primary} :
    side[r] = "serve" /\ sound[r] = "yes" => master[r] # None
=============================================================================
