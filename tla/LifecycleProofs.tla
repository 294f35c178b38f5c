-------------------------- MODULE LifecycleProofs --------------------------
(* What deploy, launch, start, restart, stop and remove promise, for every   *)
(* number of nodes and any number of commands, failures and crashes.         *)
EXTENDS Lifecycle, TLAPS

(***************************************************************************)
(* The stages of a command                                                 *)
(***************************************************************************)

StageNames ==
    {"prepare", "fetch", "upload", "configure", "logStart", "logProbe", "dssStart", "dssStop",
     "bootstrap", "bootClean", "clean", "txStart", "startNodes", "status", "report",
     "killStandby", "killTx", "killNodes", "topology", "stopStandby", "stopTx", "logStop",
     "failover", "rmDir", "dropRecords", "dropRow"}

Starts == {"start", "launch", "restart"}
StartTx == {"txStart", "startNodes"}
StopTx == {"killStandby", "killTx", "killNodes", "stopStandby", "stopTx"}

\* A stage of S is still to be finished.
Has(ss, S) == \E i \in 1..Len(ss) : ss[i] \in S

\* What may not come behind a stage, in any command: a start of the tx processes
\* is followed by reports only, the services below are stopped after the tx
\* processes, and the rows of a cluster are deleted last.
NotAfter(s) ==
    CASE s \in StartTx             -> StageNames \ {"status", "report"}
      [] s = "upload"              -> {"upload"}
      [] s = "killStandby"         -> {"killStandby"}
      [] s = "killTx"              -> {"killTx", "killStandby"}
      [] s \in {"logStop", "dssStop"} -> {"killTx", "killStandby"}
      [] s = "dropRow"             -> {"dropRecords", "dropRow"}
      [] OTHER                     -> {}

Ordered(ss) == \A i, j \in 1..Len(ss) : i < j => ss[j] \notin NotAfter(ss[i])

(***************************************************************************)
(* The inductive invariant                                                 *)
(***************************************************************************)

Ops == {"idle", "deploy", "launch", "install", "start", "stop", "stopServices", "restart", "failover",
        "remove"}

CmdInv ==
    /\ cmd \in [op : Ops, force : BOOLEAN, nodes : SUBSET Nodes]
    /\ stages \in Seq(StageNames)
    /\ pending \subseteq Nodes \cup DssHosts \cup {"all"}
    /\ cmd = Idle => stages = <<>>
    /\ cmd.op \notin {"idle", "remove"} => row # None

\* Which stages a command has, and in which order.
Fits(op, nodes, ss) ==
    /\ Ordered(ss)
    /\ Has(ss, {"upload"}) => op \in {"deploy", "launch"}
    /\ Has(ss, {"rmDir", "dropRecords", "dropRow"}) => op = "remove"
    /\ Has(ss, {"txStart"}) => op \in Starts /\ nodes = {}
    /\ Has(ss, {"startNodes"}) => op = "start" /\ nodes # {}
    /\ op \in Starts /\ Has(ss, StopTx) => Has(ss, StartTx)

StageInv == Fits(cmd.op, cmd.nodes, stages)

\* The row of a cluster is deleted once its task records are.
DropInv ==
    /\ row = None => recorded = {}
    /\ Has(stages, {"dropRow"}) => Has(stages, {"dropRecords"}) \/ recorded = {}
    /\ Current = "dropRecords" /\ pending = {} => recorded = {}

\* stop --force of the whole cluster: what is left of the processes is still to
\* be killed, unless the command has been broken off.
KillInv ==
    cmd.op = "stop" /\ cmd.force /\ cmd.nodes = {} =>
        /\ stages # <<>> \/ ~failed =>
              /\ Has(stages, {"killStandby"}) \/ up \cap Standbys = {}
              /\ Has(stages, {"killTx"}) \/ up \cap TxNodes = {}
        /\ ~failed /\ Current = "killStandby" => up \cap Standbys \subseteq pending
        /\ ~failed /\ Current = "killTx" => up \cap TxNodes \subseteq pending

\* The processes a start is asked for.
Target == IF cmd.nodes = {} THEN Nodes ELSE cmd.nodes

\* A process that does not run is still to be started or died meanwhile.
ServeInv ==
    cmd.op \in Starts /\ ~failed =>
        /\ Has(stages, StartTx) \/ Target \ up \subseteq died
        /\ Current \in StartTx => Target \ up \subseteq died \cup pending

\* A host whose upload is recorded has the version of the index, unless it is
\* known to be outdated; the others are uploaded to.
DeployInv ==
    /\ \A h \in recorded \ outdated : inst[h] = row
    /\ Current = "upload" => pending \cap recorded = {}
    /\ cmd.op \in {"deploy", "launch"} /\ ~failed =>
          /\ Has(stages, {"upload"}) \/ \A h \in Nodes \ outdated : inst[h] = row
          /\ Current = "upload" => \A h \in Nodes \ (outdated \cup pending) : inst[h] = row

\* The log service has had its leaders since the probe.
LogLed == log \in {"ready", "stopping"} \/ "log" \in died

LogInv ==
    cmd.op \in Starts /\ cmd.nodes = {} =>
        /\ stages # <<>> => Has(stages, {"logProbe"}) \/ LogLed
        /\ Current = "logProbe" /\ pending = {} /\ ~failed => LogLed

BootInv ==
    cmd.op = "launch" =>
        /\ stages # <<>> => Has(stages, {"bootstrap"}) \/ booted \/ SkipBootstrap
        /\ Current = "bootstrap" /\ pending = {} /\ ~failed => booted

LifecycleInv ==
    /\ TypeOK /\ CmdInv /\ StageInv
    /\ DropInv /\ DssKeepsData /\ KillInv /\ ServeInv /\ DeployInv /\ LogInv /\ BootInv

(***************************************************************************)
(* The lists of stages                                                     *)
(***************************************************************************)

\* What the list of a command that starts has.
Whole(op, force, nodes, ss) ==
    /\ ss \in Seq(StageNames) /\ Fits(op, nodes, ss)
    /\ op = "stop" /\ force /\ nodes = {} =>
          Has(ss, {"killTx"}) /\ (Standbys = {} \/ Has(ss, {"killStandby"}))
    /\ op \in Starts => Has(ss, StartTx)
    /\ op \in {"deploy", "launch"} => Has(ss, {"upload"})
    /\ op \in Starts /\ nodes = {} => Has(ss, {"logProbe"})
    /\ op = "launch" => Has(ss, {"bootstrap"}) \/ SkipBootstrap
    /\ Has(ss, {"dropRow"}) => Has(ss, {"dropRecords"})

\* A stage that ends takes itself out of the list and changes nothing else.
LEMMA TailHas ==
    ASSUME NEW ss \in Seq(StageNames), ss # <<>>
    PROVE  /\ Head(ss) \in StageNames /\ Tail(ss) \in Seq(StageNames)
           /\ \A S : Has(ss, S) <=> Head(ss) \in S \/ Has(Tail(ss), S)
  BY DEF Has

LEMMA TailOrdered ==
    ASSUME NEW ss \in Seq(StageNames), ss # <<>>, Ordered(ss)
    PROVE  Ordered(Tail(ss)) /\ ~Has(Tail(ss), NotAfter(Head(ss)))
  BY DEF Ordered, Has

LEMMA HasMore ==
    ASSUME NEW ss, NEW S, NEW T, S \subseteq T, Has(ss, S)
    PROVE  Has(ss, T)
  BY DEF Has

LEMMA HasNothing == \A S : ~Has(<<>>, S)
  BY DEF Has

\* A list of stages of M in an admissible order.
Block(ss, M) == ss \in Seq(M) /\ M \subseteq StageNames /\ Ordered(ss)

LEMMA BlockHas ==
    ASSUME NEW M, NEW ss, Block(ss, M), NEW S, M \cap S = {}
    PROVE  ~Has(ss, S)
  BY DEF Block, Has

LEMMA BlockSeq ==
    ASSUME NEW M, NEW ss, Block(ss, M)
    PROVE  ss \in Seq(StageNames) /\ Ordered(ss)
  BY DEF Block

\* Two lists one after the other have the stages of both.
LEMMA CatHas ==
    ASSUME NEW s \in Seq(StageNames), NEW t \in Seq(StageNames), NEW S
    PROVE  Has(s \o t, S) <=> Has(s, S) \/ Has(t, S)
  <1>1. ASSUME Has(s, S) PROVE Has(s \o t, S)
    BY <1>1 DEF Has
  <1>2. ASSUME Has(t, S) PROVE Has(s \o t, S)
    <2>1. PICK i \in 1..Len(t) : t[i] \in S
      BY <1>2 DEF Has
    <2>2. (s \o t)[Len(s) + i] = t[i] /\ Len(s) + i \in 1..Len(s \o t)
      OBVIOUS
    <2> QED BY <2>1, <2>2 DEF Has
  <1>3. ASSUME Has(s \o t, S) PROVE Has(s, S) \/ Has(t, S)
    <2>1. PICK i \in 1..Len(s \o t) : (s \o t)[i] \in S
      BY <1>3 DEF Has
    <2>2. CASE i <= Len(s)
      BY <2>1, <2>2 DEF Has
    <2>3. CASE i > Len(s)
      <3>1. i - Len(s) \in 1..Len(t) /\ (s \o t)[i] = t[i - Len(s)]
        BY <2>3
      <3> QED BY <2>1, <3>1 DEF Has
    <2> QED BY <2>2, <2>3
  <1> QED BY <1>1, <1>2, <1>3

\* They are ordered when nothing of the second is forbidden behind a stage of
\* the first.
LEMMA CatBlock ==
    ASSUME NEW M, NEW N, NEW s, NEW t, Block(s, M), Block(t, N),
           \A m \in M : NotAfter(m) \cap N = {}
    PROVE  Block(s \o t, M \cup N)
  <1>1. s \in Seq(M) /\ t \in Seq(N) /\ s \o t \in Seq(M \cup N)
    BY DEF Block
  <1>2. ASSUME NEW i \in 1..Len(s \o t), NEW j \in 1..Len(s \o t), i < j
        PROVE  (s \o t)[j] \notin NotAfter((s \o t)[i])
    <2>1. CASE j <= Len(s)
      BY <1>1, <1>2, <2>1 DEF Ordered, Block
    <2>2. CASE i > Len(s)
      <3>1. /\ (s \o t)[j] = t[j - Len(s)] /\ j - Len(s) \in 1..Len(t)
            /\ (s \o t)[i] = t[i - Len(s)] /\ i - Len(s) \in 1..Len(t)
        BY <1>1, <1>2, <2>2
      <3> QED BY <1>2, <3>1 DEF Ordered, Block
    <2>3. CASE i <= Len(s) /\ j > Len(s)
      <3>1. /\ (s \o t)[j] = t[j - Len(s)] /\ j - Len(s) \in 1..Len(t)
            /\ (s \o t)[i] = s[i] /\ i \in 1..Len(s)
        BY <1>1, <2>3
      <3>2. s[i] \in M /\ t[j - Len(s)] \in N
        BY <1>1, <3>1
      <3> QED BY <3>1, <3>2
    <2> QED BY <1>1, <2>1, <2>2, <2>3
  <1> QED BY <1>1, <1>2 DEF Block, Ordered

LEMMA IfBlock ==
    ASSUME NEW M, NEW s, Block(s, M), NEW b \in BOOLEAN
    PROVE  Block(If(b, s), M)
  <1>1. CASE b
    BY <1>1 DEF If
  <1>2. CASE ~b
    <2>1. Block(<<>>, M)
      BY DEF Block, Ordered
    <2> QED BY <1>2, <2>1 DEF If
  <1> QED BY <1>1, <1>2

LEMMA UnitBlock ==
    ASSUME NEW s \in StageNames
    PROVE  /\ Block(<<s>>, {s})
           /\ \A b \in BOOLEAN : Block(If(b, <<s>>), {s})
           /\ \A S : Has(<<s>>, S) <=> s \in S
  <1>1. Block(<<s>>, {s})
    BY DEF Block, Ordered
  <1>2. \A S : Has(<<s>>, S) <=> s \in S
    BY DEF Has
  <1> QED BY <1>1, <1>2, IfBlock

DeployNames == {"prepare", "fetch", "upload", "configure"}
LogNames == {"logStart", "logProbe"}
StartNames == {"clean", "dssStart", "logStart", "logProbe", "txStart", "status"}
InstallNames == {"dssStart", "bootstrap", "bootClean"}
StopNames == {"killStandby", "killTx", "topology", "stopStandby", "stopTx", "logStop", "dssStop"}

LEMMA DeployBlock == Block(DeployStages, DeployNames) /\ Has(DeployStages, {"upload"})
  BY DEF Block, Ordered, NotAfter, Has, DeployNames, DeployStages, StageNames, StartTx

LEMMA LogBlock ==
    /\ Block(LogStages, LogNames) /\ Has(LogStages, {"logProbe"})
    /\ \A b \in BOOLEAN : Block(If(b, LogStages), LogNames)
  <1>1. Block(LogStages, LogNames) /\ Has(LogStages, {"logProbe"})
    BY DEF Block, Ordered, NotAfter, Has, LogNames, LogStages, StageNames, StartTx
  <1> QED BY <1>1, IfBlock

LEMMA InstallBlock ==
    /\ Block(InstallStages, InstallNames)
    /\ Has(InstallStages, {"bootstrap"}) \/ SkipBootstrap
  <1> DEFINE boot == <<"bootstrap">> \o If(mode = "local", <<"bootClean">>)
  <1>0. Block(<<"bootstrap">>, {"bootstrap"}) /\ Block(If(mode = "local", <<"bootClean">>), {"bootClean"})
        /\ Has(<<"bootstrap">>, {"bootstrap"})
    BY UnitBlock DEF StageNames
  <1>1. Block(boot, {"bootstrap"} \cup {"bootClean"})
    BY <1>0, CatBlock DEF NotAfter, StartTx
  <1>2. Has(boot, {"bootstrap"})
    BY <1>0, CatHas, BlockSeq
  <1>3. Block(If(~SkipBootstrap, boot), {"bootstrap"} \cup {"bootClean"})
    <2> HIDE DEF boot
    <2> QED BY <1>1, IfBlock DEF SkipBootstrap
  <1>4. Block(DssStart, {"dssStart"})
    BY UnitBlock DEF DssStart, StageNames, DssManaged
  <1>5. Block(InstallStages, {"dssStart"} \cup ({"bootstrap"} \cup {"bootClean"}))
    BY <1>3, <1>4, CatBlock DEF NotAfter, StartTx, InstallStages
  <1>6. ~SkipBootstrap => Has(InstallStages, {"bootstrap"})
    <2>1. ~SkipBootstrap => If(~SkipBootstrap, boot) = boot
      BY DEF If
    <2> QED BY <1>2, <1>3, <1>4, <2>1, CatHas, BlockSeq DEF InstallStages
  <1>7. InstallNames = {"dssStart"} \cup ({"bootstrap"} \cup {"bootClean"})
    BY DEF InstallNames
  <1> QED BY <1>5, <1>6, <1>7

LEMMA StartBlock ==
    ASSUME NEW skipLog \in BOOLEAN
    PROVE  /\ Block(StartStages(skipLog), StartNames)
           /\ Has(StartStages(skipLog), {"txStart"})
           /\ ~skipLog => Has(StartStages(skipLog), {"logProbe"})
  <1> DEFINE s1 == <<"clean">> \o DssStart
             s2 == s1 \o If(~skipLog, LogStages)
             s3 == s2 \o <<"txStart">>
             s4 == s3 \o StatusStages
             M1 == {"clean"} \cup {"dssStart"}
             M2 == M1 \cup LogNames
             M3 == M2 \cup {"txStart"}
             M4 == M3 \cup {"status"}
  <1>1. Block(<<"clean">>, {"clean"}) /\ Block(DssStart, {"dssStart"})
        /\ Block(<<"txStart">>, {"txStart"}) /\ Block(StatusStages, {"status"})
        /\ Has(<<"txStart">>, {"txStart"})
    BY UnitBlock DEF StageNames, DssStart, DssManaged, StatusStages
  <1>2. Block(s1, M1)
    BY <1>1, CatBlock DEF NotAfter, StartTx
  <1>3. Block(s2, M2)
    <2>1. \A m \in M1 : NotAfter(m) \cap LogNames = {}
      BY DEF NotAfter, StartTx
    <2> HIDE DEF s1, M1
    <2> QED BY <1>2, <2>1, LogBlock, CatBlock
  <1>4. Block(s3, M3)
    <2>1. \A m \in M2 : NotAfter(m) \cap {"txStart"} = {}
      BY DEF NotAfter, StartTx, LogNames
    <2> HIDE DEF s2, M2
    <2> QED BY <1>1, <1>3, <2>1, CatBlock
  <1>5. Block(s4, M4)
    <2>1. \A m \in M3 : NotAfter(m) \cap {"status"} = {}
      BY DEF NotAfter, StartTx, LogNames
    <2> HIDE DEF s3, M3
    <2> QED BY <1>1, <1>4, <2>1, CatBlock
  <1>6. M4 = StartNames
    BY DEF StartNames, LogNames
  <1>7. StartStages(skipLog) = s4
    BY DEF StartStages
  <1>8. Has(s3, {"txStart"})
    <2> HIDE DEF s2, M2
    <2> QED BY <1>1, <1>3, CatHas, BlockSeq
  <1>9. ~skipLog => Has(s3, {"logProbe"})
    <2> SUFFICES ASSUME ~skipLog PROVE Has(s3, {"logProbe"})
      OBVIOUS
    <2>1. Has(s2, {"logProbe"})
      <3>1. s2 = s1 \o LogStages
        BY DEF If
      <3> HIDE DEF s1, s2, M1
      <3> QED BY <1>2, <3>1, LogBlock, CatHas, BlockSeq
    <2> HIDE DEF s2, M2
    <2> QED BY <1>1, <1>3, <2>1, CatHas, BlockSeq
  <1>10. \A S : Has(s3, S) => Has(s4, S)
    <2> HIDE DEF s3, M3
    <2> QED BY <1>1, <1>4, CatHas, BlockSeq
  <1> HIDE DEF s4, M4
  <1> QED BY <1>5, <1>6, <1>7, <1>8, <1>9, <1>10

LEMMA StopBlock ==
    ASSUME NEW force \in BOOLEAN, NEW alsoLog \in BOOLEAN
    PROVE  /\ Block(StopStages(force, alsoLog), StopNames)
           /\ force => /\ Has(StopStages(force, alsoLog), {"killTx"})
                       /\ Standbys = {} \/ Has(StopStages(force, alsoLog), {"killStandby"})
  <1> DEFINE k == If(Standbys # {}, <<"killStandby">>)
             T == {"killStandby", "killTx", "topology", "stopStandby", "stopTx"}
             s1 == TxStopStages(force) \o If(alsoLog, <<"logStop">>)
             s2 == s1 \o DssStop
             M1 == T \cup {"logStop"}
             M2 == M1 \cup {"dssStop"}
  <1>1. Block(k, {"killStandby"}) /\ Block(<<"killTx">>, {"killTx"})
        /\ Has(<<"killTx">>, {"killTx"}) /\ Has(<<"killStandby">>, {"killStandby"})
        /\ Block(If(alsoLog, <<"logStop">>), {"logStop"}) /\ Block(DssStop, {"dssStop"})
    BY UnitBlock DEF StageNames, DssStop, DssManaged
  <1>2. Block(KillStages, {"killStandby"} \cup {"killTx"})
    <2>1. NotAfter("killStandby") \cap {"killTx"} = {}
      BY DEF NotAfter, StartTx
    <2> HIDE DEF k
    <2>2. Block(k \o <<"killTx">>, {"killStandby"} \cup {"killTx"})
      BY <1>1, <2>1, CatBlock
    <2> QED BY <2>2 DEF KillStages, k
  <1>3. Has(KillStages, {"killTx"}) /\ (Standbys = {} \/ Has(KillStages, {"killStandby"}))
    <2>1. Standbys # {} => k = <<"killStandby">>
      BY DEF If
    <2>2. KillStages = k \o <<"killTx">>
      BY DEF KillStages
    <2> HIDE DEF k
    <2> QED BY <1>1, <2>1, <2>2, CatHas, BlockSeq
  <1>4. Block(HotStandbyStages, T)
    BY DEF Block, Ordered, NotAfter, HotStandbyStages, StageNames, StartTx
  <1>5. Block(TxStopStages(force), T)
    <2>1. Block(KillStages, T)
      BY <1>2 DEF Block, StageNames
    <2> QED BY <1>4, <2>1 DEF TxStopStages
  <1>6. Block(s1, M1)
    <2>1. \A m \in T : NotAfter(m) \cap {"logStop"} = {}
      BY DEF NotAfter, StartTx
    <2> HIDE DEF T
    <2> QED BY <1>1, <1>5, <2>1, CatBlock
  <1>7. Block(s2, M2)
    <2>1. \A m \in M1 : NotAfter(m) \cap {"dssStop"} = {}
      BY DEF NotAfter, StartTx
    <2> HIDE DEF M1, s1
    <2> QED BY <1>1, <1>6, <2>1, CatBlock
  <1>8. M2 = StopNames
    BY DEF StopNames
  <1>9. StopStages(force, alsoLog) = s2
    BY DEF StopStages
  <1>10. \A S : Has(TxStopStages(force), S) => Has(s2, S)
    <2>1. \A S : Has(TxStopStages(force), S) => Has(s1, S)
      <3> HIDE DEF T
      <3> QED BY <1>1, <1>5, CatHas, BlockSeq
    <2>2. \A S : Has(s1, S) => Has(s2, S)
      <3> HIDE DEF s1, M1
      <3> QED BY <1>1, <1>6, CatHas, BlockSeq
    <2> QED BY <2>1, <2>2
  <1>11. force => TxStopStages(force) = KillStages
    BY DEF TxStopStages
  <1> HIDE DEF s1, s2, M2
  <1> QED BY <1>3, <1>7, <1>8, <1>9, <1>10, <1>11

LEMMA ServiceStopBlock ==
    ASSUME NEW alsoLog \in BOOLEAN
    PROVE  Block(ServiceStopStages(alsoLog), {"logStop", "dssStop"})
  <1>1. Block(If(alsoLog, <<"logStop">>), {"logStop"}) /\ Block(DssStop, {"dssStop"})
    BY UnitBlock DEF StageNames, DssStop, DssManaged
  <1>2. Block(ServiceStopStages(alsoLog), {"logStop"} \cup {"dssStop"})
    BY <1>1, CatBlock DEF NotAfter, StartTx, ServiceStopStages
  <1>3. {"logStop"} \cup {"dssStop"} = {"logStop", "dssStop"}
    OBVIOUS
  <1> QED BY <1>2, <1>3

LEMMA LaunchBlock ==
    /\ Block(LaunchStages, DeployNames \cup LogNames \cup InstallNames \cup StartNames \cup {"report"})
    /\ Has(LaunchStages, {"upload"}) /\ Has(LaunchStages, {"logProbe"})
    /\ Has(LaunchStages, {"txStart"})
    /\ Has(LaunchStages, {"bootstrap"}) \/ SkipBootstrap
  <1> DEFINE s1 == DeployStages \o LogStages
             s2 == s1 \o InstallStages
             s3 == s2 \o StartStages(TRUE)
             s4 == s3 \o ReportStages
             M1 == DeployNames \cup LogNames
             M2 == M1 \cup InstallNames
             M3 == M2 \cup StartNames
             M4 == M3 \cup {"report"}
  <1>1. Block(ReportStages, {"report"})
    BY UnitBlock DEF StageNames, ReportStages
  <1>2. Block(s1, M1) /\ \A S : Has(s1, S) <=> Has(DeployStages, S) \/ Has(LogStages, S)
    <2>1. \A m \in DeployNames : NotAfter(m) \cap LogNames = {}
      BY DEF NotAfter, StartTx, LogNames, DeployNames
    <2> QED BY <2>1, DeployBlock, LogBlock, CatBlock, CatHas, BlockSeq
  <1>3. Block(s2, M2) /\ \A S : Has(s2, S) <=> Has(s1, S) \/ Has(InstallStages, S)
    <2>1. \A m \in M1 : NotAfter(m) \cap InstallNames = {}
      BY DEF NotAfter, StartTx, LogNames, DeployNames, InstallNames
    <2> HIDE DEF s1, M1
    <2> QED BY <1>2, <2>1, InstallBlock, CatBlock, CatHas, BlockSeq
  <1>4. Block(s3, M3) /\ \A S : Has(s3, S) <=> Has(s2, S) \/ Has(StartStages(TRUE), S)
    <2>1. \A m \in M2 : NotAfter(m) \cap StartNames = {}
      BY DEF NotAfter, StartTx, LogNames, DeployNames, InstallNames, StartNames
    <2> HIDE DEF s2, M2
    <2> QED BY <1>3, <2>1, StartBlock, CatBlock, CatHas, BlockSeq
  <1>5. Block(s4, M4) /\ \A S : Has(s4, S) <=> Has(s3, S) \/ Has(ReportStages, S)
    <2>1. \A m \in M3 : NotAfter(m) \cap {"report"} = {}
      BY DEF NotAfter, StartTx, LogNames, DeployNames, InstallNames, StartNames
    <2> HIDE DEF s3, M3
    <2> QED BY <1>1, <1>4, <2>1, CatBlock, CatHas, BlockSeq
  <1>6. LaunchStages = s4
    BY DEF LaunchStages
  <1>7. Has(StartStages(TRUE), {"txStart"})
    BY StartBlock
  <1> HIDE DEF s1, s2, s3, s4
  <1> QED BY <1>2, <1>3, <1>4, <1>5, <1>6, <1>7, DeployBlock, LogBlock, InstallBlock

LEMMA RemoveBlock ==
    ASSUME NEW force \in BOOLEAN
    PROVE  /\ Block(RemoveStages(force), StopNames \cup {"rmDir", "dropRecords", "dropRow"})
           /\ Has(RemoveStages(force), {"dropRecords"})
  <1> DEFINE s1 == StopStages(TRUE, TRUE) \o <<"rmDir">>
             M1 == StopNames \cup {"rmDir"}
  <1>1. Block(s1, M1)
    <2>1. Block(<<"rmDir">>, {"rmDir"})
      BY UnitBlock DEF StageNames
    <2>2. \A m \in StopNames : NotAfter(m) \cap {"rmDir"} = {}
      BY DEF NotAfter, StartTx, StopNames
    <2> QED BY <2>1, <2>2, StopBlock, CatBlock
  <1>2. Block(DeleteCluster, {"dropRecords", "dropRow"}) /\ Has(DeleteCluster, {"dropRecords"})
    BY DEF Block, Ordered, NotAfter, Has, DeleteCluster, StageNames, StartTx
  <1>3. \A m \in M1 : NotAfter(m) \cap {"dropRecords", "dropRow"} = {}
    BY DEF NotAfter, StartTx, StopNames
  <1>4. M1 \cup {"dropRecords", "dropRow"} = StopNames \cup {"rmDir", "dropRecords", "dropRow"}
    OBVIOUS
  <1>5. Block(If(~force, s1), M1)
    <2> HIDE DEF s1, M1
    <2> QED BY <1>1, IfBlock
  <1>6. RemoveStages(force) = If(~force, s1) \o DeleteCluster
    BY DEF RemoveStages
  <1> HIDE DEF s1, M1
  <1> QED BY <1>2, <1>3, <1>4, <1>5, <1>6, CatBlock, CatHas, BlockSeq

\* Every list of the task groups fits its command.
LEMMA WholeLists ==
    /\ Whole("deploy", FALSE, {}, DeployStages)
    /\ Whole("launch", FALSE, {}, LaunchStages)
    /\ Whole("install", FALSE, {}, InstallStages)
    /\ Whole("start", FALSE, {}, StartStages(FALSE))
    /\ Whole("restart", FALSE, {}, StopStages(FALSE, TRUE) \o StartStages(FALSE))
    /\ \A f, l \in BOOLEAN : Whole("stop", f, {}, StopStages(f, l))
    /\ \A f, l \in BOOLEAN : Whole("stopServices", f, {}, ServiceStopStages(l))
    /\ \A f \in BOOLEAN : Whole("remove", f, {}, RemoveStages(f))
  <1> USE DEF Starts, StartTx, StopTx
  <1>0. \A ss, M, S : Block(ss, M) /\ M \cap S = {} => ~Has(ss, S)
    BY BlockHas
  <1>00. \A ss : Has(ss, {"txStart"}) => Has(ss, StartTx)
    BY DEF Has
  <1>1. Whole("deploy", FALSE, {}, DeployStages)
    BY <1>0, DeployBlock, BlockSeq DEF Whole, Fits, DeployNames
  <1>2. Whole("launch", FALSE, {}, LaunchStages)
    <2> DEFINE M == DeployNames \cup LogNames \cup InstallNames \cup StartNames \cup {"report"}
    <2>1. /\ ~Has(LaunchStages, {"rmDir", "dropRecords", "dropRow"}) /\ ~Has(LaunchStages, {"startNodes"})
          /\ ~Has(LaunchStages, StopTx) /\ ~Has(LaunchStages, {"dropRow"})
      BY <1>0, LaunchBlock DEF DeployNames, LogNames, InstallNames, StartNames
    <2> QED BY <1>00, <2>1, LaunchBlock, BlockSeq DEF Whole, Fits
  <1>3. Whole("install", FALSE, {}, InstallStages)
    BY <1>0, InstallBlock, BlockSeq DEF Whole, Fits, InstallNames
  <1>4. Whole("start", FALSE, {}, StartStages(FALSE))
    BY <1>0, <1>00, StartBlock, BlockSeq DEF Whole, Fits, StartNames
  <1>5. Whole("restart", FALSE, {}, StopStages(FALSE, TRUE) \o StartStages(FALSE))
    <2> DEFINE ss == StopStages(FALSE, TRUE) \o StartStages(FALSE)
    <2>1. \A m \in StopNames : NotAfter(m) \cap StartNames = {}
      BY DEF NotAfter, StopNames, StartNames
    <2>2. Block(ss, StopNames \cup StartNames)
      BY <2>1, StopBlock, StartBlock, CatBlock
    <2>3. Has(ss, {"txStart"}) /\ Has(ss, {"logProbe"})
      BY StopBlock, StartBlock, CatHas, BlockSeq
    <2>4. /\ ~Has(ss, {"upload"}) /\ ~Has(ss, {"rmDir", "dropRecords", "dropRow"})
          /\ ~Has(ss, {"startNodes"}) /\ ~Has(ss, {"dropRow"})
      BY <1>0, <2>2 DEF StopNames, StartNames
    <2> HIDE DEF ss
    <2>5. Whole("restart", FALSE, {}, ss)
      BY <1>00, <2>2, <2>3, <2>4, BlockSeq DEF Whole, Fits
    <2> QED BY <2>5 DEF ss
  <1>6. ASSUME NEW f \in BOOLEAN, NEW l \in BOOLEAN PROVE Whole("stop", f, {}, StopStages(f, l))
    BY <1>0, StopBlock, BlockSeq DEF Whole, Fits, StopNames
  <1>7. ASSUME NEW f \in BOOLEAN PROVE Whole("remove", f, {}, RemoveStages(f))
    BY <1>0, RemoveBlock, BlockSeq DEF Whole, Fits, StopNames
  <1>8. ASSUME NEW f \in BOOLEAN, NEW l \in BOOLEAN
        PROVE  Whole("stopServices", f, {}, ServiceStopStages(l))
    BY <1>0, ServiceStopBlock, BlockSeq DEF Whole, Fits
  <1> QED BY <1>1, <1>2, <1>3, <1>4, <1>5, <1>6, <1>7, <1>8

LEMMA WholeNodeLists ==
    ASSUME NEW N, N # {}
    PROVE  /\ Whole("start", FALSE, N, <<"startNodes", "status">>)
           /\ \A f, l \in BOOLEAN : Whole("stop", f, N, <<"killNodes">> \o ServiceStopStages(l))
           /\ Whole("failover", FALSE, N, <<"topology", "failover", "status">>)
  <1>1. Whole("start", FALSE, N, <<"startNodes", "status">>)
    BY DEF Whole, Fits, StageNames, Starts, StartTx, StopTx, Has, Ordered, NotAfter
  <1>2. ASSUME NEW f \in BOOLEAN, NEW l \in BOOLEAN
        PROVE  Whole("stop", f, N, <<"killNodes">> \o ServiceStopStages(l))
    <2> DEFINE ss == <<"killNodes">> \o ServiceStopStages(l)
               M == {"killNodes"} \cup {"logStop", "dssStop"}
    <2>1. Block(<<"killNodes">>, {"killNodes"}) /\ Block(ServiceStopStages(l), {"logStop", "dssStop"})
      BY UnitBlock, ServiceStopBlock DEF StageNames
    <2>2. Block(ss, M)
      BY <2>1, CatBlock DEF NotAfter, StartTx
    <2>3. \A S : M \cap S = {} => ~Has(ss, S)
      BY <2>2, BlockHas
    <2> HIDE DEF ss
    <2>4. Whole("stop", f, N, ss)
      BY <2>2, <2>3, BlockSeq DEF Whole, Fits, Starts, StartTx, StopTx
    <2> QED BY <2>4 DEF ss
  <1>3. Whole("failover", FALSE, N, <<"topology", "failover", "status">>)
    BY DEF Whole, Fits, StageNames, Starts, StartTx, StopTx, Has, Ordered, NotAfter
  <1> QED BY <1>1, <1>2, <1>3

(***************************************************************************)
(* The steps                                                               *)
(***************************************************************************)

\* Every host of the data store service has a peer that is listed last.
LEMMA LastPeers == \A h \in DssHosts : LastPeer[h] \in DssPeers /\ LastPeer[h] \in PeersAt(h)
  BY LifecycleAssumption DEF DssHosts, PeersAt

LEMMA LifecycleInit == Init => LifecycleInv
  <1> SUFFICES ASSUME Init PROVE LifecycleInv
    OBVIOUS
  <1>1. First \in TxNodes
    BY LifecycleAssumption DEF First
  <1>2. TypeOK
    <2>1. 0 \in Nat /\ 0 \in Nat /\ 0 \in Nat
      BY LifecycleAssumption
    <2>2. inst \in [Nodes -> Nat]
      BY <2>1 DEF Init, None
    <2> QED BY <1>1, <2>1, <2>2 DEF Init, TypeOK, Nodes, None
  <1>3. CmdInv
    BY DEF Init, CmdInv, Idle, Ops
  <1>4. StageInv
    BY HasNothing DEF Init, StageInv, Fits, Ordered
  <1>5. DssKeepsData
    BY LastPeers DEF Init, DssKeepsData
  <1>6. DropInv /\ KillInv /\ ServeInv /\ DeployInv /\ LogInv /\ BootInv
    BY HasNothing DEF Init, DropInv, KillInv, ServeInv, DeployInv, LogInv, BootInv,
                      Current, Idle, Starts, StartTx
  <1> QED BY <1>2, <1>3, <1>4, <1>5, <1>6 DEF LifecycleInv

\* The tasks of a stage when it begins.
LEMMA EnterTasks ==
    ASSUME NEW ss \in Seq(StageNames), Enter(ss), cmd'.nodes \subseteq Nodes
    PROVE  /\ stages' = ss
           /\ pending' \subseteq Nodes \cup DssHosts \cup {"all"}
           /\ Current' = "upload" => pending' = Nodes \ recorded
           /\ Current' = "txStart" => pending' = Nodes
           /\ Current' = "startNodes" => pending' = cmd'.nodes
           /\ Current' = "killStandby" => pending' = Standbys
           /\ Current' = "killTx" => pending' = TxNodes
           /\ Current' \in {"dropRecords", "logProbe", "bootstrap"} => pending' # {}
  <1>1. First \in TxNodes
    BY LifecycleAssumption DEF First
  <1>2. CASE ss = <<>>
    BY <1>2 DEF Enter, Current
  <1>3. CASE ss # <<>>
    <2>1. Current' = Head(ss) /\ pending' = TasksOf(Head(ss)) /\ stages' = ss
      BY <1>3 DEF Enter, Current
    <2> QED BY <1>1, <2>1 DEF TasksOf, TxStages, TxTasks, CleanTasks, Nodes,
                              skip_success_task_execution
  <1> QED BY <1>2, <1>3

\* A command starts with the list of its task group.
LEMMA BeginStep ==
    ASSUME LifecycleInv,
           NEW op \in Ops \ {"idle"}, NEW force \in BOOLEAN, NEW nodes \in SUBSET Nodes, NEW ss,
           Begin(op, force, nodes, ss), Whole(op, force, nodes, ss),
           UNCHANGED <<mode, recorded>>, commands' \in Nat,
           row' \in Nat, row' # None, outdated' \subseteq Nodes,
           \A h \in recorded \ outdated' : inst[h] = row'
    PROVE  LifecycleInv'
  <1>1. /\ cmd' = [op |-> op, force |-> force, nodes |-> nodes]
        /\ cmd'.op = op /\ cmd'.force = force /\ cmd'.nodes = nodes
        /\ failed' = FALSE /\ died' = {} /\ UNCHANGED <<hostVars, procVars, faults>>
        /\ ss \in Seq(StageNames) /\ Enter(ss)
    BY DEF Begin, Whole, NoFault
  <1>2. /\ stages' = ss
        /\ pending' \subseteq Nodes \cup DssHosts \cup {"all"}
        /\ Current' = "upload" => pending' = Nodes \ recorded
        /\ Current' = "txStart" => pending' = Nodes
        /\ Current' = "startNodes" => pending' = nodes
        /\ Current' = "killStandby" => pending' = Standbys
        /\ Current' = "killTx" => pending' = TxNodes
        /\ Current' \in {"dropRecords", "logProbe", "bootstrap"} => pending' # {}
    BY <1>1, EnterTasks
  <1>3. TypeOK'
    BY <1>1 DEF LifecycleInv, TypeOK, hostVars, procVars
  <1>4. CmdInv'
    BY <1>1, <1>2 DEF CmdInv, Idle
  <1>5. StageInv'
    BY <1>1, <1>2 DEF StageInv, Whole
  <1>6. DropInv' /\ DssKeepsData'
    BY <1>1, <1>2 DEF LifecycleInv, DropInv, DssKeepsData, Whole, Fits, hostVars, procVars, Current
  <1>7. KillInv'
    BY <1>1, <1>2 DEF KillInv, Whole
  <1>8. ServeInv'
    BY <1>1, <1>2 DEF ServeInv, Whole, Target, StartTx, Fits, Has, Current
  <1>9. DeployInv'
    BY <1>1, <1>2 DEF DeployInv, Whole, hostVars
  <1>10. LogInv' /\ BootInv'
    BY <1>1, <1>2 DEF LogInv, BootInv, Whole, Starts, SkipBootstrap
  <1> QED BY <1>3, <1>4, <1>5, <1>6, <1>7, <1>8, <1>9, <1>10 DEF LifecycleInv

\* A stage is joined and the next one begins, or the command is broken off.
LEMMA NextStageStep ==
    ASSUME LifecycleInv, NextStage
    PROVE  LifecycleInv'
  <1> DEFINE ss == IF failed /\ cmd.op # "remove" THEN <<>> ELSE Tail(stages)
  <1> USE DEF LifecycleInv
  <1>1. /\ stages # <<>> /\ pending = {} /\ Enter(ss)
        /\ UNCHANGED <<stateVars, hostVars, procVars, cmd, topo, commands, died, failed, faults>>
        /\ stages \in Seq(StageNames) /\ Current = Head(stages)
    BY DEF NextStage, CmdInv, Current
  <1>2. /\ Tail(stages) \in Seq(StageNames)
        /\ \A S : Has(stages, S) <=> Current \in S \/ Has(Tail(stages), S)
        /\ Ordered(Tail(stages)) /\ ~Has(Tail(stages), NotAfter(Current))
    BY <1>1, TailHas, TailOrdered DEF StageInv, Fits
  <1>3. /\ ss \in Seq(StageNames) /\ Ordered(ss)
        /\ \A S : Has(ss, S) => Has(stages, S)
        /\ ss # <<>> => ss = Tail(stages) /\ (failed => cmd.op = "remove")
        /\ ss # Tail(stages) => failed
    BY <1>2, HasNothing DEF Ordered
  <1>4. /\ stages' = ss
        /\ pending' \subseteq Nodes \cup DssHosts \cup {"all"}
        /\ Current' = "upload" => pending' = Nodes \ recorded
        /\ Current' = "txStart" => pending' = Nodes
        /\ Current' = "startNodes" => pending' = cmd.nodes
        /\ Current' = "killStandby" => pending' = Standbys
        /\ Current' = "killTx" => pending' = TxNodes
        /\ Current' \in {"dropRecords", "logProbe", "bootstrap"} => pending' # {}
    BY <1>1, <1>3, EnterTasks DEF CmdInv
  <1> HIDE DEF ss
  <1>5. TypeOK' /\ DssKeepsData'
    BY <1>1 DEF TypeOK, DssKeepsData, hostVars, procVars, stateVars
  <1>6. CmdInv'
    BY <1>1, <1>3, <1>4 DEF CmdInv, stateVars
  <1>7. StageInv'
    <2>1. cmd.op \in Starts /\ Has(ss, StopTx) => Has(ss, StartTx)
      <3>1. ASSUME Has(Tail(stages), StopTx) PROVE Current \notin StartTx
        <4>1. Has(Tail(stages), StageNames \ {"status", "report"})
          BY <3>1, HasMore DEF StopTx, StageNames
        <4>2. Current \in StartTx => NotAfter(Current) = StageNames \ {"status", "report"}
          BY DEF NotAfter, StartTx
        <4> QED BY <1>2, <4>1, <4>2
      <3> QED BY <1>2, <1>3, <3>1, HasNothing DEF StageInv, Fits
    <2> QED BY <1>1, <1>3, <1>4, <2>1 DEF StageInv, Fits
  <1>8. DropInv'
    BY <1>1, <1>2, <1>3, <1>4, HasNothing DEF DropInv, stateVars
  <1>9. KillInv'
    <2>1. cmd.op = "stop" /\ (stages' # <<>> \/ ~failed') => stages' = Tail(stages) /\ ~failed
      BY <1>1, <1>3, <1>4
    <2> QED BY <1>1, <1>2, <1>4, <2>1 DEF KillInv, procVars
  <1>10. ServeInv'
    <2>1. Current' \in StartTx => Has(stages', {Current'})
      BY <1>3, <1>4, TailHas DEF Current, StartTx
    <2>2. Current' \in StartTx => pending' = Target
      BY <1>3, <1>4, <2>1 DEF Target, StartTx, StageInv, Fits
    <2> QED BY <1>1, <1>2, <1>3, <1>4, <2>2 DEF ServeInv, Target, procVars
  <1>11. DeployInv'
    BY <1>1, <1>2, <1>3, <1>4 DEF DeployInv, stateVars, hostVars
  <1>12. LogInv' /\ BootInv'
    <2>1. cmd.op \in Starts /\ stages' # <<>> => stages' = Tail(stages) /\ ~failed
      BY <1>1, <1>3, <1>4 DEF Starts
    <2>2. LogInv'
      BY <1>1, <1>2, <1>4, <2>1 DEF LogInv, LogLed, procVars
    <2>3. BootInv'
      BY <1>1, <1>2, <1>4, <2>1 DEF BootInv, Starts, SkipBootstrap, hostVars
    <2> QED BY <2>2, <2>3
  <1> QED BY <1>5, <1>6, <1>7, <1>8, <1>9, <1>10, <1>11, <1>12

\* A command ends, by itself or in a crash.
LEMMA QuitStep ==
    ASSUME LifecycleInv, Quit, UNCHANGED <<stateVars, hostVars, procVars, commands>>,
           faults' \in Nat
    PROVE  LifecycleInv'
  <1> USE DEF LifecycleInv
  <1>1. TypeOK'
    BY DEF TypeOK, Quit, hostVars, procVars, stateVars
  <1>2. CmdInv'
    BY DEF CmdInv, Quit, Idle, Ops
  <1>3. StageInv'
    BY HasNothing DEF Quit, StageInv, Fits, Ordered
  <1>4. DropInv' /\ DssKeepsData' /\ KillInv' /\ ServeInv' /\ DeployInv' /\ LogInv' /\ BootInv'
    BY HasNothing DEF Quit, DropInv, DssKeepsData, KillInv, ServeInv, DeployInv, LogInv, BootInv,
                      Current, Idle, Starts, StartTx, stateVars, hostVars, procVars
  <1> QED BY <1>1, <1>2, <1>3, <1>4

LEMMA FaultType ==
    ASSUME TypeOK, Fault \/ NoFault
    PROVE  faults' \in Nat
  BY LifecycleAssumption DEF TypeOK, Fault, NoFault

\* The cluster moves under a command, or without one.
LEMMA EnvironmentStep ==
    ASSUME LifecycleInv,
           \/ \E n \in Nodes : Elect(n) \/ NodeDies(n) \/ HostReplaced(n)
           \/ \E p \in DssPeers : DssExits(p) \/ DssDies(p)
           \/ LogElects \/ LogExits
    PROVE  LifecycleInv'
  <1> USE DEF LifecycleInv, stateVars, hostVars, procVars, cmdVars
  <1>1. ASSUME NEW n \in Nodes, Elect(n) PROVE LifecycleInv'
    <2>1. TypeOK' /\ CmdInv' /\ StageInv'
      BY <1>1 DEF Elect, TypeOK, CmdInv, StageInv
    <2> QED BY <1>1, <2>1 DEF Elect, DropInv, DssKeepsData, KillInv, ServeInv, Target, DeployInv,
                              LogInv, LogLed, BootInv, Current, SkipBootstrap
  <1>2. ASSUME NEW n \in Nodes, NodeDies(n) PROVE LifecycleInv'
    <2>1. TypeOK' /\ CmdInv' /\ StageInv'
      BY <1>2, LifecycleAssumption DEF NodeDies, Fault, TypeOK, CmdInv, StageInv
    <2>2. KillInv' /\ ServeInv'
      BY <1>2 DEF NodeDies, KillInv, ServeInv, Target, Current, Idle, Starts
    <2> QED BY <1>2, <2>1, <2>2 DEF NodeDies, DropInv, DssKeepsData, DeployInv,
                              LogInv, LogLed, BootInv, Current, SkipBootstrap
  <1>3. ASSUME NEW n \in Nodes, HostReplaced(n) PROVE LifecycleInv'
    <2>1. TypeOK' /\ CmdInv' /\ StageInv'
      <3>1. inst' \in [Nodes -> Nat] /\ outdated' \subseteq Nodes
        BY <1>3, LifecycleAssumption DEF HostReplaced, TypeOK, None
      <3> QED BY <1>3, <3>1, LifecycleAssumption DEF HostReplaced, Fault, TypeOK, CmdInv, StageInv
    <2>2. DeployInv'
      BY <1>3 DEF HostReplaced, DeployInv, Current, TypeOK
    <2> QED BY <1>3, <2>1, <2>2 DEF HostReplaced, DropInv, DssKeepsData, KillInv, ServeInv, Target, 
                              LogInv, LogLed, BootInv, Current, SkipBootstrap
  <1>4. ASSUME LogElects PROVE LifecycleInv'
    <2>1. TypeOK' /\ CmdInv' /\ StageInv'
      BY <1>4 DEF LogElects, TypeOK, CmdInv, StageInv
    <2> QED BY <1>4, <2>1 DEF LogElects, DropInv, DssKeepsData, KillInv, ServeInv, Target, DeployInv,
                              LogInv, LogLed, BootInv, Current, SkipBootstrap
  <1>5. ASSUME LogExits PROVE LifecycleInv'
    <2>1. TypeOK' /\ CmdInv' /\ StageInv'
      BY <1>5 DEF LogExits, TypeOK, CmdInv, StageInv
    <2>2. LogInv' /\ ServeInv'
      BY <1>5 DEF LogExits, LogInv, LogLed, ServeInv, Target, Current, Idle, Starts
    <2> QED BY <1>5, <2>1, <2>2 DEF LogExits, DropInv, DssKeepsData, KillInv, DeployInv,
                              BootInv, Current, SkipBootstrap
  <1>6. ASSUME NEW p \in DssPeers, DssExits(p) \/ DssDies(p) PROVE LifecycleInv'
    <2>0. faults' \in Nat /\ dss' = [dss EXCEPT ![p] = "down"]
          /\ UNCHANGED <<stateVars, hostVars, up, master, log, cmdVars, pending, failed>>
      BY <1>6, FaultType DEF DssExits, DssDies, NoFault
    <2>1. TypeOK' /\ CmdInv' /\ StageInv'
      BY <2>0 DEF TypeOK, CmdInv, StageInv
    <2>2. DssKeepsData'
      BY <2>0, LastPeers DEF TypeOK, DssKeepsData
    <2> QED BY <2>0, <2>1, <2>2 DEF DropInv, KillInv, ServeInv, Target, DeployInv,
                              LogInv, LogLed, BootInv, Current, SkipBootstrap
  <1> QED BY <1>1, <1>2, <1>3, <1>4, <1>5, <1>6

\* The current stage is one of the list.
LEMMA CurrentHas ==
    ASSUME CmdInv, NEW S, Current \in S, S \subseteq StageNames
    PROVE  stages # <<>> /\ Has(stages, S) /\ Current = Head(stages)
  <1>1. stages # <<>>
    BY DEF Current, StageNames
  <1> QED BY <1>1, TailHas DEF Current, CmdInv

\* The tasks of the log service, the data store service, the bootstrap and the
\* cleanup, and those that change nothing here.
LEMMA ServiceTaskStep ==
    ASSUME LifecycleInv,
           \/ Other \/ LogStart \/ LogProbe \/ LogStop \/ Bootstrap \/ Topology
           \/ \E h \in DssHosts : DssStarts(h) \/ DssStops(h)
           \/ \E t \in TxNodes \cup DssHosts : Clean(t)
           \/ \E n \in Nodes : FailoverOp(n)
    PROVE  LifecycleInv'
  <1> USE DEF LifecycleInv, stateVars, hostVars, procVars, cmdVars, Runs, Ok, Err
  <1>0. "all" \notin Nodes
    BY LifecycleAssumption DEF Nodes
  <1>1. ASSUME Other PROVE LifecycleInv'
    <2>1. faults' \in Nat
      BY <1>1, FaultType DEF Other
    <2>2. TypeOK' /\ CmdInv' /\ StageInv'
      BY <1>1, <2>1 DEF Other, TypeOK, CmdInv, StageInv
    <2> QED BY <1>0, <1>1, <2>2 DEF Other, DropInv, DssKeepsData, KillInv, ServeInv, DeployInv,
                    LogInv, BootInv, Target, LogLed, SkipBootstrap, Current, StartTx
  <1>2. ASSUME LogStart PROVE LifecycleInv'
    <2>1. faults' \in Nat
      BY <1>2, FaultType DEF LogStart
    <2>2. TypeOK' /\ CmdInv' /\ StageInv'
      BY <1>2, <2>1 DEF LogStart, Launched, check_pid, TypeOK, CmdInv, StageInv
    <2> QED BY <1>0, <1>2, <2>2 DEF LogStart, DropInv, DssKeepsData, KillInv, ServeInv, DeployInv,
                    LogInv, BootInv, Target, LogLed, SkipBootstrap, Current, StartTx, Launched,
                    check_pid
  <1>3. ASSUME LogProbe PROVE LifecycleInv'
    <2>1. faults' \in Nat
      BY <1>3, FaultType DEF LogProbe
    <2>2. TypeOK' /\ CmdInv' /\ StageInv'
      BY <1>3, <2>1 DEF LogProbe, TypeOK, CmdInv, StageInv
    <2> QED BY <1>0, <1>3, <2>2 DEF LogProbe, DropInv, DssKeepsData, KillInv, ServeInv, DeployInv,
                    LogInv, BootInv, Target, LogLed, SkipBootstrap, Current, StartTx
  <1>4. ASSUME LogStop PROVE LifecycleInv'
    <2>1. faults' \in Nat
      BY <1>4, FaultType DEF LogStop
    <2>2. TypeOK' /\ CmdInv' /\ StageInv'
      BY <1>4, <2>1 DEF LogStop, Signalled, check_pid, TypeOK, CmdInv, StageInv
    <2> QED BY <1>0, <1>4, <2>2 DEF LogStop, DropInv, DssKeepsData, KillInv, ServeInv, DeployInv,
                    LogInv, BootInv, Target, LogLed, SkipBootstrap, Current, StartTx, Signalled,
                    check_pid
  <1>5. ASSUME NEW h \in DssHosts, DssStarts(h) PROVE LifecycleInv'
    <2>1. PICK done \in SUBSET PeersAt(h) :
            /\ dss' = [p \in DssPeers |-> IF p \in done THEN Launched(dss[p]) ELSE dss[p]]
            /\ cached' = cached \cup {p \in done : ~check_pid(dss[p])}
      BY <1>5 DEF DssStarts
    <2>0. faults' \in Nat
      BY <1>5, FaultType DEF DssStarts
    <2>2. /\ Current = "dssStart" /\ pending' = pending \ {h} /\ failed' \in {failed, TRUE}
          /\ UNCHANGED <<stateVars, inst, booted, up, master, log, cmdVars>>
      BY <1>5 DEF DssStarts
    <2>3. done \subseteq DssPeers
      BY DEF PeersAt
    <2>4. TypeOK' /\ CmdInv' /\ StageInv'
      BY <2>0, <2>1, <2>2, <2>3 DEF Launched, check_pid, TypeOK, CmdInv, StageInv
    <2>5. DssKeepsData'
      BY <2>1, LastPeers DEF Launched, check_pid, DssKeepsData
    <2> QED BY <2>2, <2>4, <2>5 DEF DropInv, KillInv, ServeInv, DeployInv,
                    LogInv, BootInv, Target, LogLed, SkipBootstrap, Current, StartTx
  <1>6. ASSUME NEW h \in DssHosts, DssStops(h) PROVE LifecycleInv'
    <2>1. PICK done \in SUBSET PeersAt(h) :
            dss' = [p \in DssPeers |-> IF p \in done THEN Signalled(dss[p]) ELSE dss[p]]
      BY <1>6 DEF DssStops
    <2>0. faults' \in Nat
      BY <1>6, FaultType DEF DssStops
    <2>2. /\ Current = "dssStop" /\ pending' = pending \ {h} /\ failed' \in {failed, TRUE}
          /\ UNCHANGED <<stateVars, hostVars, up, master, log, cmdVars>>
      BY <1>6 DEF DssStops
    <2>3. TypeOK' /\ CmdInv' /\ StageInv'
      BY <2>0, <2>1, <2>2 DEF Signalled, check_pid, TypeOK, CmdInv, StageInv
    <2>4. DssKeepsData'
      BY <2>1, <2>2, LastPeers DEF Signalled, check_pid, DssKeepsData
    <2> QED BY <2>2, <2>3, <2>4 DEF DropInv, KillInv, ServeInv, DeployInv,
                    LogInv, BootInv, Target, LogLed, SkipBootstrap, Current, StartTx
  <1>7. ASSUME Bootstrap PROVE LifecycleInv'
    <2>1. faults' \in Nat
      BY <1>7, FaultType DEF Bootstrap
    <2>2. TypeOK' /\ CmdInv' /\ StageInv'
      BY <1>7, <2>1 DEF Bootstrap, TypeOK, CmdInv, StageInv
    <2> QED BY <1>0, <1>7, <2>2 DEF Bootstrap, DropInv, DssKeepsData, KillInv, ServeInv, DeployInv,
                    LogInv, BootInv, Target, LogLed, SkipBootstrap, Current, StartTx
  <1>8. ASSUME Topology PROVE LifecycleInv'
    <2>1. faults' \in Nat
      BY <1>8, FaultType DEF Topology
    <2>2. TypeOK' /\ CmdInv' /\ StageInv'
      BY <1>8, <2>1 DEF Topology, TypeOK, CmdInv, StageInv
    <2> QED BY <1>0, <1>8, <2>2 DEF Topology, DropInv, DssKeepsData, KillInv, ServeInv, DeployInv,
                    LogInv, BootInv, Target, LogLed, SkipBootstrap, Current, StartTx
  <1>9. ASSUME NEW t \in TxNodes \cup DssHosts, Clean(t) PROVE LifecycleInv'
    <2>1. faults' \in Nat
      BY <1>9, FaultType DEF Clean
    <2>2. /\ Current \in {"clean", "bootClean"} /\ pending' = pending \ {t}
          /\ failed' \in {failed, TRUE}
          /\ UNCHANGED <<stateVars, inst, booted, procVars, cmdVars>>
          /\ cached' = cached \/ (~KeepsData(t) /\ cached' = cached \ DataAt(t))
      BY <1>9 DEF Clean
    <2>3. TypeOK' /\ CmdInv' /\ StageInv'
      BY <2>1, <2>2 DEF TypeOK, CmdInv, StageInv
    <2>4. DssKeepsData'
      <3> SUFFICES ASSUME NEW h \in DssHosts, dss[LastPeer[h]] # "down" PROVE LastPeer[h] \in cached'
        BY <2>2 DEF DssKeepsData
      <3>1. LastPeer[h] \in cached
        BY DEF DssKeepsData
      <3>2. ~KeepsData(t) => LastPeer[h] \notin DataAt(t)
        <4>1. CASE DssManaged
          BY <4>1, LastPeers DEF KeepsData, check_pid, DataAt, PeersAt
        <4>2. CASE ~DssManaged
          BY <4>2, LastPeers, LifecycleAssumption DEF DataAt, DssHosts
        <4> QED BY <4>1, <4>2
      <3> QED BY <2>2, <3>1, <3>2
    <2>5. Current' = Current /\ (~failed' => ~failed)
      <3>1. Current' = Current
        BY <2>2 DEF Current
      <3>2. failed' = failed \/ failed' = TRUE
        BY <2>2
      <3> QED BY <3>1, <3>2
    <2>6. DropInv' /\ DeployInv' /\ KillInv'
      BY <2>2, <2>5 DEF DropInv, DeployInv, KillInv
    <2>7. ServeInv' /\ LogInv' /\ BootInv'
      BY <2>2, <2>5 DEF ServeInv, LogInv, BootInv, Target, LogLed, SkipBootstrap, StartTx
    <2> QED BY <2>3, <2>4, <2>6, <2>7
  <1>10. ASSUME NEW n \in Nodes, FailoverOp(n) PROVE LifecycleInv'
    <2>1. faults' \in Nat
      BY <1>10, FaultType DEF FailoverOp
    <2>2. TypeOK' /\ CmdInv' /\ StageInv'
      BY <1>10, <2>1 DEF FailoverOp, TypeOK, CmdInv, StageInv
    <2> QED BY <1>0, <1>10, <2>2 DEF FailoverOp, DropInv, DssKeepsData, KillInv, ServeInv,
                    DeployInv, LogInv, BootInv, Target, LogLed, SkipBootstrap, Current, StartTx
  <1> QED BY <1>1, <1>2, <1>3, <1>4, <1>5, <1>6, <1>7, <1>8, <1>9, <1>10

\* An upload: the host is not recorded, and the cluster is in the index.
LEMMA UploadStep ==
    ASSUME LifecycleInv, NEW h \in Nodes, Upload(h)
    PROVE  LifecycleInv'
  <1> USE DEF LifecycleInv, stateVars, hostVars, procVars, cmdVars, Runs, Ok, Err
  <1>1. Current = "upload" /\ h \in pending /\ h \notin recorded
    BY DEF Upload, DeployInv
  <1>2. cmd.op \in {"deploy", "launch"} /\ row # None
    BY <1>1, CurrentHas DEF StageNames, StageInv, Fits, CmdInv
  <1>3. faults' \in Nat
    BY FaultType DEF Upload
  <1>4. inst' \in [Nodes -> Nat] /\ recorded' \subseteq Nodes /\ outdated' \subseteq Nodes
    BY LifecycleAssumption DEF Upload, TypeOK, None
  <1>5. TypeOK' /\ CmdInv' /\ StageInv'
    BY <1>3, <1>4 DEF Upload, TypeOK, CmdInv, StageInv
  <1>6. DropInv'
    <2>1. ~Has(stages, {"dropRow"})
      BY <1>2, HasMore DEF StageInv, Fits
    <2> QED BY <1>1, <1>2, <2>1 DEF Upload, DropInv, Current
  <1>7. DeployInv'
    <2>1. CASE /\ inst' = [inst EXCEPT ![h] = row] /\ outdated' = outdated \ {h} /\ Ok(h)
               /\ recorded' = IF cmd.op = "deploy" THEN recorded \cup {h} ELSE recorded
      BY <1>1, <2>1 DEF Upload, DeployInv, Current, TypeOK
    <2>2. CASE inst' \in {inst, [inst EXCEPT ![h] = None]} /\ Err(h) /\ UNCHANGED <<recorded, outdated>>
      <3>1. \A g \in recorded : inst'[g] = inst[g]
        BY <1>1, <2>2 DEF TypeOK
      <3> QED BY <1>1, <2>2, <3>1 DEF Upload, DeployInv, Current
    <2> QED BY <2>1, <2>2 DEF Upload
  <1> QED BY <1>1, <1>2, <1>5, <1>6, <1>7
          DEF Upload, DssKeepsData, KillInv, ServeInv, Target, LogInv, LogLed, BootInv, SkipBootstrap,
              Current, StartTx

\* A tx process is started.
LEMMA TxStartStep ==
    ASSUME LifecycleInv, NEW n \in Nodes, TxStart(n)
    PROVE  LifecycleInv'
  <1> USE DEF LifecycleInv, stateVars, hostVars, procVars, cmdVars, Runs, Ok, Err
  <1>1. Current \in StartTx /\ n \in pending
    BY DEF TxStart, StartTx
  <1>2. cmd.op \in Starts
    BY <1>1, CurrentHas DEF StageNames, StageInv, Fits, StartTx, Starts
  <1>3. faults' \in Nat
    BY FaultType DEF TxStart
  <1>4. TypeOK' /\ CmdInv' /\ StageInv'
    BY <1>3 DEF TxStart, TypeOK, CmdInv, StageInv, Nodes
  <1>5. ServeInv'
    BY <1>1 DEF TxStart, ServeInv, Target, Current
  <1> QED BY <1>1, <1>2, <1>4, <1>5
          DEF TxStart, DropInv, DssKeepsData, KillInv, DeployInv, LogInv, LogLed, BootInv,
              SkipBootstrap, Current, StartTx, Starts

\* A tx process is stopped.
LEMMA TxStopStep ==
    ASSUME LifecycleInv, NEW n \in Nodes, TxStop(n)
    PROVE  LifecycleInv'
  <1> USE DEF LifecycleInv, stateVars, hostVars, procVars, cmdVars, Runs, Ok, Err
  <1>1. /\ Current \in StopTx /\ n \in pending
        /\ UNCHANGED <<stateVars, hostVars, master, log, dss, cmdVars>>
        /\ up' \subseteq up /\ pending' = pending \ {n}
        /\ failed => failed'
        /\ Current \in {"killStandby", "killTx"} /\ ~failed' => n \notin up'
    BY DEF TxStop, Kill, StopTx
  <1>2. Has(stages, StopTx)
    BY <1>1, CurrentHas DEF StageNames, StopTx
  <1>3. faults' \in Nat /\ failed' \in BOOLEAN
    BY FaultType DEF TxStop, Kill, TypeOK
  <1>4. TypeOK' /\ CmdInv' /\ StageInv'
    BY <1>1, <1>3 DEF TypeOK, CmdInv, StageInv
  <1>5. ServeInv'
    BY <1>1, <1>2 DEF ServeInv, Target, Current, StopTx, StartTx, StageInv, Fits
  <1>6. KillInv'
    <2>1. /\ Current = "killStandby" => Has(stages, {"killStandby"})
          /\ Current = "killTx" => Has(stages, {"killTx"})
      BY CurrentHas DEF StageNames
    <2> QED BY <1>1, <2>1 DEF KillInv, Current
  <1> QED BY <1>1, <1>4, <1>5, <1>6
          DEF DropInv, DssKeepsData, DeployInv, LogInv, LogLed, BootInv,
              SkipBootstrap, Current, StopTx

\* A remove: the install directory of a host, then the rows, the records first.
LEMMA RemoveTaskStep ==
    ASSUME LifecycleInv, (\E h \in Nodes : RmDir(h)) \/ DropRecords \/ DropRow
    PROVE  LifecycleInv'
  <1> USE DEF LifecycleInv, stateVars, hostVars, procVars, cmdVars, Runs, Ok, Err
  <1>1. /\ cmd.op = "remove" /\ Current \in {"rmDir", "dropRecords", "dropRow"}
        /\ UNCHANGED <<mode, cached, procVars, cmdVars>>
    <2>1. Current \in {"rmDir", "dropRecords", "dropRow"} /\ UNCHANGED <<mode, cached, procVars, cmdVars>>
      BY DEF RmDir, DropRecords, DropRow
    <2> QED BY <2>1, CurrentHas DEF StageNames, StageInv, Fits
  <1>2. faults' \in Nat /\ StageInv'
    BY <1>1, FaultType DEF RmDir, DropRecords, DropRow, StageInv
  <1>3. KillInv' /\ ServeInv' /\ LogInv' /\ BootInv' /\ DssKeepsData'
    BY <1>1 DEF KillInv, ServeInv, LogInv, BootInv, DssKeepsData, Starts
  <1>4. ASSUME NEW h \in Nodes, RmDir(h) PROVE TypeOK' /\ CmdInv' /\ DropInv' /\ DeployInv'
    <2>1. inst' \in [Nodes -> Nat] /\ outdated' \subseteq Nodes
      BY <1>4, LifecycleAssumption DEF RmDir, TypeOK, None
    <2>2. TypeOK' /\ CmdInv'
      BY <1>2, <1>4, <2>1 DEF RmDir, TypeOK, CmdInv
    <2>3. DropInv'
      BY <1>1, <1>4 DEF RmDir, DropInv, Current
    <2>4. DeployInv'
      BY <1>1, <1>4 DEF RmDir, DeployInv, Current, TypeOK
    <2> QED BY <2>2, <2>3, <2>4
  <1>5. ASSUME DropRecords PROVE TypeOK' /\ CmdInv' /\ DropInv' /\ DeployInv'
    <2>1. TypeOK' /\ CmdInv'
      BY <1>2, <1>5 DEF DropRecords, TypeOK, CmdInv
    <2> QED BY <1>1, <1>5, <2>1 DEF DropRecords, DropInv, DeployInv, Current
  <1>6. ASSUME DropRow PROVE TypeOK' /\ CmdInv' /\ DropInv' /\ DeployInv'
    <2>1. TypeOK' /\ CmdInv'
      <3>1. row' \in Nat
        BY <1>6, LifecycleAssumption DEF DropRow, None
      <3> QED BY <1>1, <1>2, <1>6, <3>1 DEF DropRow, TypeOK, CmdInv
    <2>2. recorded = {}
      <3>1. Current = "dropRow" /\ Has(stages, {"dropRow"}) /\ stages # <<>> /\ Head(stages) = Current
        BY <1>6, CurrentHas DEF DropRow, StageNames
      <3>2. ~Has(Tail(stages), NotAfter("dropRow"))
        BY <3>1, TailOrdered DEF StageInv, Fits, CmdInv
      <3>3. ~Has(Tail(stages), {"dropRecords"})
        BY <3>2, HasMore DEF NotAfter, StartTx
      <3>4. ~Has(stages, {"dropRecords"})
        BY <3>1, <3>3, TailHas DEF CmdInv
      <3> QED BY <3>1, <3>4 DEF DropInv
    <2> QED BY <1>1, <1>6, <2>1, <2>2 DEF DropRow, DropInv, DeployInv, Current
  <1> QED BY <1>2, <1>3, <1>4, <1>5, <1>6

\* An operator's command.
LEMMA OperatorStep ==
    ASSUME LifecycleInv, Operator
    PROVE  LifecycleInv'
  <1> USE DEF LifecycleInv
  <1>1. row # None => row \in Nat /\ outdated \subseteq Nodes /\ commands \in Nat
                     /\ \A h \in recorded \ outdated : inst[h] = row
    BY DEF TypeOK, DeployInv
  <1>2. Counted => commands' \in Nat
    BY LifecycleAssumption DEF Counted, TypeOK
  <1>3. ASSUME DeployOrLaunch PROVE LifecycleInv'
    <2>1. PICK v \in 1..MaxVersion[mode] :
             row' = v /\ outdated' = IF v = row THEN outdated ELSE outdated \cup recorded
      BY <1>3 DEF DeployOrLaunch
    <2>2. /\ row' \in Nat /\ row' # None /\ outdated' \subseteq Nodes
          /\ \A h \in recorded \ outdated' : inst[h] = row'
          /\ UNCHANGED <<mode, recorded>> /\ commands' \in Nat
      BY <1>2, <1>3, <2>1, LifecycleAssumption DEF DeployOrLaunch, TypeOK, DeployInv, None
    <2>3. CASE Begin("deploy", FALSE, {}, DeployStages)
      BY <2>2, <2>3, WholeLists, BeginStep DEF Ops
    <2>4. CASE Begin("launch", FALSE, {}, LaunchStages)
      BY <2>2, <2>4, WholeLists, BeginStep DEF Ops
    <2> QED BY <1>3, <2>3, <2>4 DEF DeployOrLaunch
  <1>4. ASSUME row # None, UNCHANGED stateVars, commands' \in Nat,
               NEW op \in Ops \ {"idle"}, NEW force \in BOOLEAN, NEW nodes \in SUBSET Nodes, NEW ss,
               Begin(op, force, nodes, ss), Whole(op, force, nodes, ss)
        PROVE  LifecycleInv'
    BY <1>1, <1>4, BeginStep DEF stateVars
  <1>5. CASE Install
    BY <1>2, <1>4, <1>5, WholeLists DEF Install, Ops
  <1>6. CASE Start
    BY <1>1, <1>4, <1>6, WholeLists DEF Start, Ops
  <1>7. CASE StartNodes
    <2>1. PICK N \in (SUBSET Nodes) \ {{}} : Begin("start", FALSE, N, <<"startNodes", "status">>)
      BY <1>7 DEF StartNodes
    <2>2. Whole("start", FALSE, N, <<"startNodes", "status">>)
      BY <2>1, WholeNodeLists
    <2> QED BY <1>2, <1>4, <1>7, <2>1, <2>2 DEF StartNodes, Ops
  <1>8. CASE Stop
    BY <1>2, <1>4, <1>8, WholeLists DEF Stop, Ops
  <1>9. CASE StopNodes
    <2>1. PICK N \in (SUBSET Nodes) \ {{}}, force \in BOOLEAN, alsoLog \in BOOLEAN :
             Begin("stop", force, N, <<"killNodes">> \o ServiceStopStages(alsoLog))
      BY <1>9 DEF StopNodes
    <2>2. Whole("stop", force, N, <<"killNodes">> \o ServiceStopStages(alsoLog))
      BY <2>1, WholeNodeLists
    <2> QED BY <1>2, <1>4, <1>9, <2>1, <2>2 DEF StopNodes, Ops
  <1>10. CASE Restart
    BY <1>2, <1>4, <1>10, WholeLists DEF Restart, Ops
  <1>11. CASE Failover
    BY <1>2, <1>4, <1>11, WholeNodeLists DEF Failover, Ops
  <1>12. CASE Remove
    BY <1>2, <1>4, <1>12, WholeLists DEF Remove, Ops
  <1>13. CASE StopServices
    BY <1>2, <1>4, <1>13, WholeLists DEF StopServices, Ops
  <1> QED BY <1>3, <1>5, <1>6, <1>7, <1>8, <1>9, <1>10, <1>11, <1>12, <1>13 DEF Operator

LEMMA LifecycleStep == LifecycleInv /\ [Next]_vars => LifecycleInv'
  <1> SUFFICES ASSUME LifecycleInv, [Next]_vars PROVE LifecycleInv'
    OBVIOUS
  <1>1. CASE Command
    <2>1. CASE End
      BY <2>1, QuitStep DEF End, NoFault, LifecycleInv, TypeOK
    <2>2. CASE NextStage
      BY <2>2, NextStageStep
    <2> QED BY <1>1, <2>1, <2>2, ServiceTaskStep, RemoveTaskStep, UploadStep, TxStartStep, TxStopStep
            DEF Command
  <1>2. CASE Operator
    BY <1>2, OperatorStep
  <1>3. CASE Environment
    <2>1. CASE Crash
      BY <2>1, QuitStep, FaultType DEF Crash, LifecycleInv
    <2> QED BY <1>3, <2>1, EnvironmentStep DEF Environment
  <1>4. CASE UNCHANGED vars
    <2> USE <1>4 DEF LifecycleInv, vars
    <2>1. TypeOK' /\ CmdInv' /\ StageInv' /\ DropInv' /\ DssKeepsData'
      BY DEF TypeOK, CmdInv, StageInv, DropInv, DssKeepsData, Current
    <2>2. KillInv' /\ ServeInv' /\ DeployInv'
      BY DEF KillInv, ServeInv, Target, DeployInv, Current
    <2>3. LogInv' /\ BootInv'
      BY DEF LogInv, LogLed, BootInv, SkipBootstrap, Current
    <2> QED BY <2>1, <2>2, <2>3
  <1> QED BY <1>1, <1>2, <1>3, <1>4 DEF Next

(***************************************************************************)
(* The theorems                                                            *)
(***************************************************************************)

\* Every command keeps the invariant, whatever fails, dies or crashes.
THEOREM LifecycleInvariant == Spec => []LifecycleInv
  BY LifecycleInit, LifecycleStep, PTL DEF Spec

\* A start, launch or restart without an error leaves what it was asked for
\* running: EloqTxCtlTask's "start" fails unless the ports listen.
THEOREM StartsServe == Spec => []StartServes
  <1>1. LifecycleInv => StartServes
    BY HasNothing DEF LifecycleInv, ServeInv, StartServes, EndsOk, Starts, Target
  <1> QED BY <1>1, LifecycleInvariant, PTL

\* stop --force of the whole cluster: no tx process is left when the services
\* below are stopped, and none when the command reports success.
THEOREM ForcedStopIsOrdered == Spec => []ForcedStopOrder
  <1>1. LifecycleInv => ForcedStopOrder
    <2> SUFFICES ASSUME LifecycleInv, cmd.op = "stop", cmd.force, cmd.nodes = {},
                        Current \in {"logStop", "dssStop"} \/ EndsOk
                 PROVE  up = {}
      BY DEF ForcedStopOrder
    <2>1. ~Has(stages, {"killStandby"}) /\ ~Has(stages, {"killTx"}) /\ (stages # <<>> \/ ~failed)
      <3>1. CASE EndsOk
        BY <3>1, HasNothing DEF EndsOk
      <3>2. CASE Current \in {"logStop", "dssStop"}
        <4>1. stages # <<>> /\ stages \in Seq(StageNames) /\ Current = Head(stages)
          BY <3>2, CurrentHas DEF LifecycleInv, CmdInv, StageNames
        <4>2. ~Has(Tail(stages), {"killTx", "killStandby"})
          BY <3>2, <4>1, TailOrdered DEF LifecycleInv, StageInv, Fits, NotAfter, StartTx
        <4>3. ~Has(Tail(stages), {"killTx"}) /\ ~Has(Tail(stages), {"killStandby"})
          BY <4>2, HasMore
        <4> QED BY <3>2, <4>1, <4>3, TailHas
      <3> QED BY <3>1, <3>2
    <2>2. up \cap Standbys = {} /\ up \cap TxNodes = {}
      BY <2>1 DEF LifecycleInv, KillInv
    <2> QED BY <2>2 DEF LifecycleInv, TypeOK, Nodes
  <1> QED BY <1>1, LifecycleInvariant, PTL

\* Of several dss_servers on a host the one listed last keeps its data while it
\* runs, whichever of the others are down: the cleanup looks for its pid.
THEOREM DssDataIsKept == Spec => []DssKeepsData
  <1>1. LifecycleInv => DssKeepsData
    BY DEF LifecycleInv
  <1> QED BY <1>1, LifecycleInvariant, PTL

\* delete_cluster leaves no task record without its cluster, wherever it stops.
THEOREM RecordsHaveARow == Spec => []NoOrphanRecords
  <1>1. LifecycleInv => NoOrphanRecords
    BY DEF LifecycleInv, DropInv, NoOrphanRecords
  <1> QED BY <1>1, LifecycleInvariant, PTL

\* deploy and launch report success once every host has the version asked for,
\* the uploads left out for their records included.
THEOREM DeployInstalls == Spec => []DeployOkInstalled
  <1>1. LifecycleInv => DeployOkInstalled
    BY HasNothing DEF LifecycleInv, DeployInv, DeployOkInstalled, EndsOk
  <1> QED BY <1>1, LifecycleInvariant, PTL

\* A full start brings a tx process up on a log service that has its leaders,
\* and a launch on a bootstrapped cluster: EloqLogProbeTask and EloqInstall come
\* before the stage that starts them, and an error ends the command.
THEOREM TxNeedsLog == Spec => TxOnLog
  <1> DEFINE A == \A n \in up' \ up : cmd.nodes = {} =>
                    /\ log \in {"ready", "stopping"} \/ "log" \in died
                    /\ cmd.op = "launch" => booted \/ SkipBootstrap
  <1>1. ASSUME LifecycleInv, [Next]_vars PROVE [A]_vars
    <2> USE <1>1 DEF LifecycleInv
    <2>1. ASSUME NEW n \in Nodes, TxStart(n), cmd.nodes = {}
          PROVE  LogLed /\ (cmd.op = "launch" => booted \/ SkipBootstrap)
      <3>1. /\ Current \in StartTx /\ stages # <<>> /\ stages \in Seq(StageNames)
            /\ Head(stages) = Current /\ Has(stages, StartTx)
        BY <2>1, CurrentHas DEF TxStart, Runs, StageNames, StartTx, CmdInv
      <3>2. cmd.op \in Starts
        BY <3>1, CurrentHas DEF StageNames, StageInv, Fits, StartTx, Starts
      <3>3. ~Has(Tail(stages), StageNames \ {"status", "report"})
        BY <3>1, TailOrdered DEF StageInv, Fits, NotAfter, StartTx
      <3>4. ~Has(Tail(stages), {"logProbe"}) /\ ~Has(Tail(stages), {"bootstrap"})
        BY <3>3, HasMore DEF StageNames
      <3>5. ~Has(stages, {"logProbe"}) /\ ~Has(stages, {"bootstrap"})
        BY <3>1, <3>4, TailHas DEF StartTx
      <3> QED BY <2>1, <3>1, <3>2, <3>5 DEF LogInv, BootInv
    <2>2. ASSUME ~(\E n \in Nodes : TxStart(n)) PROVE up' \subseteq up
      <3> USE DEF procVars
      <3>1. CASE Operator
        BY <3>1 DEF Operator, DeployOrLaunch, Install, Start, StartNodes, Stop, StopServices,
                    StopNodes, Restart, Failover, Remove, Begin
      <3>2. CASE Environment
        BY <3>2 DEF Environment, Elect, NodeDies, HostReplaced, LogElects, LogExits, DssExits,
                    DssDies, Crash
      <3>3. CASE Command
        BY <2>2, <3>3 DEF Command, NextStage, End, Other, LogStart, LogProbe, LogStop, DssStarts,
                    DssStops, Bootstrap, Topology, DropRecords, DropRow, Upload, TxStop, Kill, RmDir,
                    FailoverOp, Clean
      <3> QED BY <1>1, <3>1, <3>2, <3>3 DEF Next, vars
    <2> QED BY <2>1, <2>2 DEF LogLed
  <1>2. LifecycleInv /\ [Next]_vars => [A]_vars
    BY <1>1
  <1>3. [A]_vars <=> [\A n \in up' \ up : cmd.nodes = {} =>
         /\ log \in {"ready", "stopping"} \/ "log" \in died
         /\ cmd.op = "launch" => booted \/ SkipBootstrap]_vars
    OBVIOUS
  <1> QED BY <1>2, <1>3, LifecycleInvariant, PTL DEF Spec, TxOnLog
=============================================================================
