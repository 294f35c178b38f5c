---------------------------- MODULE ScaleProofs ----------------------------
(* What `eloqctl scale` promises, for every cluster and any number of runs,  *)
(* failures and lost changes.                                                *)
EXTENDS Scale, FiniteSetTheorems, TLAPS

(***************************************************************************)
(* The inductive invariant                                                 *)
(***************************************************************************)

\* The steps of a run after the servers' configuration has been written down.
Configured == {"upload", "start", "post", "check", "stop", "save", "table", "clean", "done"}
BeforeReply == {"topology", "prepare", "rpc"}

\* Every configuration the servers run with, or change to, names its masters.
Led(c) == \A g \in Groups : c[g].first \in c[g].cands

ConfigInv ==
    /\ Led(live)
    /\ \A c \in {target, file, reply} : c # None => Led(c)

\* The request, and the nodes a step still has to handle.
RequestInv ==
    /\ op.kind = "remove" => op.nodes \subseteq before
    /\ step \in {"prepare", "start", "post"} => op.kind = "add"
    /\ step \in {"stop", "clean"} => op.kind = "remove"
    /\ step \in {"start", "stop", "clean"} => todo \subseteq op.nodes

\* The change c is the one this run has asked for.
Asked(c) ==
    /\ op.kind = "add" => op.nodes \subseteq Members(c)
    /\ op.kind = "remove" => op.nodes \cap Members(c) = {}

\* What the servers know of the event is about this run's change: they are
\* still at it, or they run with it.
EventInv ==
    /\ step \in BeforeReply => event = "unknown" /\ reply = None
    /\ reply # None => Asked(reply)
    /\ event = "open" => target # None /\ Asked(target) /\ (reply # None => target = reply)
    /\ event = "finished" => target = None /\ Asked(live) /\ (reply # None => live = reply)
    /\ step \in Configured => reply # None /\ file = reply
    /\ step \in {"stop", "save", "table", "clean", "done"} /\ ~blind => event = "finished"

\* The processes and directories of the nodes of the request.
HostInv ==
    /\ op.kind = "add" /\ step = "start" => op.nodes \subseteq running \cup todo
    /\ op.kind = "add" /\ step \in {"post", "check", "save", "table", "done"} =>
          op.nodes \subseteq running
    /\ step = "stop" => op.nodes \cap running \subseteq todo
    /\ op.kind = "remove" /\ step \in {"save", "table", "clean", "done"} => op.nodes \cap running = {}
    /\ step = "clean" => op.nodes \cap data \subseteq todo
    /\ op.kind = "remove" /\ step = "done" => op.nodes \cap data = {}

\* The file of an added node is generated, then uploaded, before it is started.
FileInv ==
    op.kind = "add" =>
        /\ step \in BeforeReply \cup {"conf"} => op.nodes \subseteq todo
        /\ step \in {"upload", "start"} =>
              \A n \in op.nodes : ini[n] = UpdateIni(index, FormatNodeLists(reply))
        /\ step = "upload" => \A n \in op.nodes \ todo : remote[n] = ini[n]
        /\ step = "start" => \A n \in op.nodes : remote[n] = ini[n]

\* The index, then the topology table, have the nodes of the configuration.
SavedInv ==
    /\ step \in {"table", "clean", "done"} =>
          /\ Members(reply) \subseteq Indexed
          /\ op.kind = "remove" => op.nodes \cap Indexed = {}
    /\ step \in {"clean", "done"} /\ ~unsaved =>
          /\ Members(reply) \subseteq rows
          /\ op.kind = "remove" => op.nodes \cap rows = {}

ScaleInv ==
    TypeOK /\ ConfigInv /\ RequestInv /\ EventInv /\ HostInv /\ FileInv /\ SavedInv

(***************************************************************************)
(* Configurations and lists                                                *)
(***************************************************************************)

LEMMA ConfigSets ==
    ASSUME NEW c \in Configs, Led(c)
    PROVE  /\ Masters(c) \subseteq Candidates(c) /\ Masters(c) # {}
           /\ Candidates(c) \subseteq Nodes /\ Voters(c) \subseteq Nodes /\ Members(c) \subseteq Nodes
  <1>1. \A g \in Groups : /\ c[g].first \in Nodes /\ c[g].first \in c[g].cands
                          /\ c[g].cands \subseteq Nodes /\ c[g].voters \subseteq Nodes
    BY DEF Configs, Group, Led
  <1>2. Candidates(c) \subseteq Nodes /\ Voters(c) \subseteq Nodes
    BY <1>1 DEF Candidates, Voters
  <1>3. Masters(c) \subseteq Candidates(c)
    BY <1>1 DEF Masters, Candidates
  <1>4. Masters(c) # {}
    <2>1. PICK g \in Groups : TRUE
      BY ScaleAssumption
    <2>2. c[g].first \in Masters(c)
      BY <1>1 DEF Masters
    <2> QED BY <2>2
  <1> QED BY <1>2, <1>3, <1>4 DEF Members

\* Lists filled from a configuration, over older ones.
FilledFrom(c, x, y, z) ==
    [m |-> Filled(Masters(c), x), r |-> Filled(Candidates(c) \ Masters(c), y), v |-> Filled(Voters(c), z)]

ListNodes(l) == l.m \cup Opt(l.r) \cup Opt(l.v)

\* They have the members of the configuration, and no others when nothing old
\* is kept.
LEMMA FilledLists ==
    ASSUME NEW c \in Configs, Led(c), NEW x, NEW y \in {None} \cup SUBSET Nodes,
           NEW z \in {None} \cup SUBSET Nodes
    PROVE  /\ FilledFrom(c, x, y, z) \in Lists
           /\ FilledFrom(c, x, y, z).m = Masters(c)
           /\ Members(c) \subseteq ListNodes(FilledFrom(c, x, y, z))
           /\ y = {} /\ z = {} => ListNodes(FilledFrom(c, x, y, z)) \subseteq Members(c)
  <1> DEFINE C == Candidates(c)
             M == Masters(c)
             V == Voters(c)
             l == FilledFrom(c, x, y, z)
  <1>1. M \subseteq C /\ M # {} /\ C \subseteq Nodes /\ V \subseteq Nodes /\ Members(c) = C \cup V
    BY ConfigSets DEF Members
  <1>2. l = [m |-> Filled(M, x), r |-> Filled(C \ M, y), v |-> Filled(V, z)]
    BY DEF FilledFrom
  <1> HIDE DEF C, M, V, l
  <1>3. l.m = M
    BY <1>1, <1>2 DEF Filled
  <1>4. \A S \in SUBSET Nodes : S # None
    BY ScaleAssumption
  <1>5. (C \ M) \subseteq Opt(l.r) /\ (y = {} => Opt(l.r) = C \ M) /\ l.r \in {None} \cup SUBSET Nodes
    <2>1. C \ M \in SUBSET Nodes /\ {} \in SUBSET Nodes
      BY <1>1
    <2> QED BY <1>2, <1>4, <2>1 DEF Filled, Opt
  <1>6. V \subseteq Opt(l.v) /\ (z = {} => Opt(l.v) = V) /\ l.v \in {None} \cup SUBSET Nodes
    <2>1. V \in SUBSET Nodes /\ {} \in SUBSET Nodes
      BY <1>1
    <2> QED BY <1>2, <1>4, <2>1 DEF Filled, Opt
  <1>7. l \in Lists
    BY <1>1, <1>2, <1>3, <1>5, <1>6 DEF Lists
  <1>8. Members(c) \subseteq ListNodes(l) /\ (y = {} /\ z = {} => ListNodes(l) \subseteq Members(c))
    BY <1>1, <1>3, <1>5, <1>6 DEF ListNodes
  <1> QED BY <1>3, <1>7, <1>8 DEF M, l

LEMMA UpdatedIni ==
    ASSUME NEW c \in Configs, Led(c), NEW old \in Lists
    PROVE  /\ UpdateIni(old, FormatNodeLists(c)) \in Lists
           /\ UpdateIni(old, FormatNodeLists(c)).m = Masters(c)
           /\ Members(c) \subseteq ListNodes(UpdateIni(old, FormatNodeLists(c)))
  <1> DEFINE x == Masters(c)
             y == old.r
             z == old.v
  <1>1. y \in {None} \cup SUBSET Nodes /\ z \in {None} \cup SUBSET Nodes
    BY DEF Lists
  <1>2. UpdateIni(old, FormatNodeLists(c)) = FilledFrom(c, x, y, z)
    BY DEF UpdateIni, FormatNodeLists, FilledFrom, Filled
  <1> HIDE DEF x, y, z
  <1> QED BY <1>1, <1>2, FilledLists

LEMMA IndexedNodes == ASSUME index \in Lists PROVE Indexed \subseteq Nodes
  BY DEF Lists, Indexed, Opt

LEMMA UploadListNodes ==
    ASSUME NEW o, o.nodes \subseteq Nodes, Indexed \subseteq Nodes
    PROVE  /\ UploadList(o) \subseteq Nodes
           /\ o.kind = "add" => o.nodes \subseteq UploadList(o)
  <1> DEFINE old == {n \in Nodes : HostOf[n] \in UploadHosts(o) /\ ini[n] # None}
             generated == UNION {At(Indexed, h) : h \in NeedyHosts(o)}
             new == IF o.kind = "add" THEN o.nodes ELSE {}
  <1>1. \A h : At(Indexed, h) \subseteq Nodes
    BY DEF At
  <1>2. generated \subseteq Nodes
    BY <1>1
  <1>3. old \subseteq Nodes /\ new \subseteq Nodes /\ (o.kind = "add" => new = o.nodes)
    OBVIOUS
  <1>4. UploadList(o) = old \cup generated \cup new
    BY DEF UploadList
  <1> HIDE DEF old, generated, new
  <1> QED BY <1>2, <1>3, <1>4

LEMMA RequestType ==
    ASSUME NEW o \in Requests
    PROVE  /\ o.kind \in {"add", "remove"} /\ o.nodes \subseteq Nodes /\ o.again \subseteq o.nodes
           /\ o.cand \in BOOLEAN /\ o.group \in Groups
  <1>1. NoOp.group \in Groups
    BY ScaleAssumption DEF NoOp
  <1> QED BY <1>1 DEF Requests

\* A filtered request is a request for nodes of the saved topology, or for others.
LEMMA EffectiveRequest ==
    ASSUME NEW o \in Requests
    PROVE  /\ Effective(o) \in Requests /\ Effective(o).kind = o.kind /\ Effective(o).nodes \subseteq o.nodes
           /\ o.kind = "remove" => Effective(o).nodes \subseteq Indexed
  <1>1. CASE o.kind = "add"
    BY <1>1 DEF Requests, Effective
  <1>2. CASE o.kind = "remove"
    <2>1. /\ o.nodes \in SUBSET Nodes /\ o.again \subseteq o.nodes /\ Cardinality(o.again) <= MaxRepeats
          /\ o.cand = FALSE /\ o.group = NoOp.group
          /\ o = [kind |-> "remove", nodes |-> o.nodes, again |-> o.again, cand |-> FALSE,
                  group |-> NoOp.group]
      BY <1>2 DEF Requests
    <2> DEFINE N == o.nodes \cap Indexed
               A == o.again \cap Indexed
    <2>2. Effective(o) = [kind |-> "remove", nodes |-> N, again |-> A, cand |-> FALSE, group |-> NoOp.group]
      <3>1. Effective(o) = [o EXCEPT !.nodes = N, !.again = A]
        BY <1>2 DEF Effective
      <3> HIDE DEF N, A
      <3>2. PICK n, a, g : o = [kind |-> "remove", nodes |-> n, again |-> a, cand |-> FALSE, group |-> g]
        BY <2>1
      <3>3. Effective(o) = [kind |-> "remove", nodes |-> N, again |-> A, cand |-> FALSE, group |-> g]
        BY <3>1, <3>2
      <3> QED BY <2>1, <3>2, <3>3
    <2>3. Cardinality(A) <= MaxRepeats
      <3>1. IsFiniteSet(o.again) /\ A \subseteq o.again
        BY <2>1, FS_Subset, ScaleAssumption
      <3>2. Cardinality(A) <= Cardinality(o.again) /\ Cardinality(A) \in Nat /\ Cardinality(o.again) \in Nat
        BY <3>1, FS_Subset, FS_CardinalityType
      <3> QED BY <2>1, <3>2, ScaleAssumption
    <2>4. N \in SUBSET Nodes /\ A \in SUBSET Nodes /\ A \subseteq N
      BY <2>1
    <2> HIDE DEF N, A
    <2>5. Effective(o) \in Requests
      BY <2>2, <2>3, <2>4 DEF Requests
    <2> QED BY <1>2, <2>1, <2>2, <2>5 DEF N
  <1> QED BY <1>1, <1>2, RequestType

\* The servers' change is the one the request asks for.
LEMMA WantedChange ==
    ASSUME live \in Configs, Led(live), op \in Requests, NEW w \in Wanted
    PROVE  w \in Configs /\ Led(w) /\ Asked(w)
  <1> DEFINE new(g) == IF op.kind = "add" /\ g = op.group THEN op.nodes \ Members(live) ELSE {}
             gone == IF op.kind = "remove" THEN op.nodes ELSE {}
             cands(g) == (live[g].cands \ gone) \cup (IF op.cand THEN new(g) ELSE {})
             voters(g) == (live[g].voters \ gone) \cup (IF op.cand THEN {} ELSE new(g))
  <1>1. /\ op.kind \in {"add", "remove"} /\ op.nodes \subseteq Nodes /\ op.group \in Groups
        /\ op.cand \in BOOLEAN
    BY RequestType
  <1>2. \A g \in Groups : cands(g) \subseteq Nodes /\ voters(g) \subseteq Nodes
    BY <1>1 DEF Configs, Group
  <1>3. \A g \in Groups : \E n \in cands(g) :
              w[g] = [first |-> n, cands |-> cands(g), voters |-> voters(g)]
    <2>1. DOMAIN w = Groups /\ \A g \in Groups : w[g] \in After(g)
      BY DEF Wanted
    <2> QED BY <2>1 DEF After
  <1>4. \A g \in Groups : /\ w[g] \in Group /\ w[g].first \in cands(g)
                          /\ w[g].cands = cands(g) /\ w[g].voters = voters(g)
    <2> SUFFICES ASSUME NEW g \in Groups
                 PROVE  /\ w[g] \in Group /\ w[g].first \in cands(g)
                        /\ w[g].cands = cands(g) /\ w[g].voters = voters(g)
      OBVIOUS
    <2>1. cands(g) \subseteq Nodes /\ voters(g) \subseteq Nodes
      BY <1>2
    <2>2. PICK n \in cands(g) : w[g] = [first |-> n, cands |-> cands(g), voters |-> voters(g)]
      BY <1>3
    <2> HIDE DEF cands, voters
    <2> QED BY <2>1, <2>2 DEF Group
  <1>5. w \in Configs /\ Led(w)
    <2>1. w \in [Groups -> UNION {After(g) : g \in Groups}]
      BY DEF Wanted
    <2> HIDE DEF cands, voters
    <2> QED BY <1>4, <2>1 DEF Configs, Led
  <1>6. op.kind = "add" => op.nodes \subseteq Members(w)
    <2> SUFFICES ASSUME op.kind = "add", NEW n \in op.nodes PROVE n \in Members(w)
      OBVIOUS
    <2>1. CASE n \in Members(live)
      <3>1. PICK g \in Groups : n \in live[g].cands \/ n \in live[g].voters
        BY <2>1 DEF Members, Candidates, Voters
      <3>2. n \in cands(g) \/ n \in voters(g)
        BY <3>1
      <3> HIDE DEF cands, voters
      <3> QED BY <1>4, <3>2 DEF Members, Candidates, Voters
    <2>2. CASE n \notin Members(live)
      <3>1. n \in cands(op.group) \/ n \in voters(op.group)
        BY <1>1, <2>2
      <3> HIDE DEF cands, voters
      <3> QED BY <1>1, <1>4, <3>1 DEF Members, Candidates, Voters
    <2> QED BY <2>1, <2>2
  <1>7. op.kind = "remove" => op.nodes \cap Members(w) = {}
    <2> SUFFICES ASSUME op.kind = "remove", NEW n \in op.nodes, n \in Members(w) PROVE FALSE
      OBVIOUS
    <2>1. PICK g \in Groups : n \in w[g].cands \/ n \in w[g].voters
      BY DEF Members, Candidates, Voters
    <2>2. n \notin cands(g) /\ n \notin voters(g)
      OBVIOUS
    <2> HIDE DEF cands, voters
    <2> QED BY <1>4, <2>1, <2>2
  <1> QED BY <1>5, <1>6, <1>7 DEF Asked

LEMMA FaultType == ASSUME TypeOK, Fault \/ UNCHANGED faults PROVE faults' \in 0..MaxFaults
  BY ScaleAssumption DEF TypeOK, Fault

(***************************************************************************)
(* The steps                                                               *)
(***************************************************************************)

LEMMA ScaleInit == Init => ScaleInv
  <1> SUFFICES ASSUME Init PROVE ScaleInv
    OBVIOUS
  <1>1. InitConfig \in Configs /\ Led(InitConfig)
    BY ScaleAssumption DEF Led
  <1>2. /\ Masters(InitConfig) \subseteq Nodes /\ Candidates(InitConfig) \subseteq Nodes
        /\ Voters(InitConfig) \subseteq Nodes /\ Members(InitConfig) \subseteq Nodes
    BY <1>1, ConfigSets
  <1>3. InitIndex \in Lists
    <2>1. /\ Given(Candidates(InitConfig) \ Masters(InitConfig)) \in {None} \cup SUBSET Nodes
          /\ Given(Voters(InitConfig)) \in {None} \cup SUBSET Nodes
      BY <1>2 DEF Given
    <2> QED BY <1>2, <2>1 DEF InitIndex, FormatNodeLists, Lists
  <1>4. NoOp \in Requests /\ NoOp.kind = "add" /\ NoOp.nodes = {}
    BY ScaleAssumption DEF NoOp, Requests
  <1>5. TypeOK
    <2> DEFINE L == Lists \cup {None}
    <2>1. ini \in [Nodes -> L] /\ remote \in [Nodes -> L]
      BY <1>3 DEF Init
    <2>2. 0 \in 0..MaxRuns /\ 0 \in 0..MaxFaults
      BY ScaleAssumption
    <2> QED BY <1>1, <1>2, <1>3, <1>4, <2>1, <2>2 DEF Init, TypeOK, Idle
  <1>6. ConfigInv /\ RequestInv
    BY <1>1, <1>4 DEF Init, ConfigInv, RequestInv
  <1>7. EventInv /\ HostInv /\ FileInv /\ SavedInv
    BY DEF Init, EventInv, HostInv, FileInv, SavedInv, BeforeReply, Configured
  <1> QED BY <1>5, <1>6, <1>7 DEF ScaleInv

\* A run begins: the request is filtered, the uploads are listed.
LEMMA BeginStep ==
    ASSUME ScaleInv, NEW o \in Requests, Begin(o)
    PROVE  ScaleInv'
  <1> USE DEF ScaleInv
  <1>1. /\ op' = Effective(o) /\ before' = Indexed
        /\ step' = "topology" /\ todo' = UploadList(op') /\ runs < MaxRuns
        /\ ini' = IF NeedyHosts(op') = {} THEN ini
                  ELSE [n \in Nodes |-> IF n \in Indexed THEN index ELSE ini[n]]
        /\ event' = "unknown" /\ seen' = FALSE /\ reply' = None /\ blind' = FALSE /\ unsaved' = FALSE
        /\ runs' = runs + 1
        /\ UNCHANGED <<live, target, running, data, remote, index, rows, file, faults>>
    BY DEF Begin, hosts
  <1>2. o.kind \in {"add", "remove"} /\ o.nodes \subseteq Nodes
    BY RequestType
  <1>3. /\ op' \in Requests /\ op'.kind = o.kind /\ op'.nodes \subseteq Nodes
        /\ op'.kind = "remove" => op'.nodes \subseteq Indexed
    BY <1>1, <1>2, EffectiveRequest
  <1>4. Indexed \subseteq Nodes
    BY IndexedNodes DEF TypeOK
  <1>5. todo' \subseteq Nodes /\ (op'.kind = "add" => op'.nodes \subseteq todo')
    BY <1>1, <1>3, <1>4, UploadListNodes
  <1>6. TypeOK'
    <2> DEFINE L == Lists \cup {None}
    <2>1. ini' \in [Nodes -> L]
      <3>1. ini \in [Nodes -> L] /\ index \in L
        BY DEF TypeOK
      <3> HIDE DEF L
      <3> QED BY <1>1, <3>1
    <2>2. runs' \in 0..MaxRuns
      BY <1>1, ScaleAssumption DEF TypeOK
    <2> QED BY <1>1, <1>3, <1>4, <1>5, <2>1, <2>2 DEF TypeOK
  <1>7. ConfigInv' /\ RequestInv'
    BY <1>1, <1>3 DEF ConfigInv, RequestInv
  <1>8. EventInv' /\ HostInv' /\ FileInv' /\ SavedInv'
    BY <1>1, <1>5 DEF EventInv, HostInv, FileInv, SavedInv, BeforeReply, Configured
  <1> QED BY <1>6, <1>7, <1>8

\* The servers accept the change; the answer may come without it, or be lost.
LEMMA AcceptStep ==
    ASSUME ScaleInv, ScaleOp \/ ScaleOpLost
    PROVE  ScaleInv'
  <1> USE DEF ScaleInv
  <1>1. /\ step = "rpc" /\ target' \in Wanted /\ event' = "open" /\ reply' \in {None, target'}
        /\ step' \in {"conf", "failed"}
        /\ UNCHANGED <<live, running, data, remote, index, rows, file, ini, op, before, seen, todo, blind, unsaved,
                       runs>>
        /\ (Fault \/ UNCHANGED faults)
    BY DEF ScaleOp, ScaleOpLost, hosts, local, EventInv, BeforeReply
  <1>2. target' \in Configs /\ Led(target') /\ Asked(target')
    BY <1>1, WantedChange DEF TypeOK, ConfigInv
  <1>3. None \notin Configs
    BY ScaleAssumption
  <1>4. TypeOK'
    BY <1>1, <1>2, FaultType DEF TypeOK, Idle
  <1>5. ConfigInv' /\ RequestInv'
    BY <1>1, <1>2 DEF ConfigInv, RequestInv
  <1>6. Asked(target)'
    BY <1>1, <1>2 DEF Asked
  <1>7. EventInv'
    BY <1>1, <1>2, <1>3, <1>6 DEF EventInv, BeforeReply, Configured, Asked
  <1>8. HostInv' /\ FileInv' /\ SavedInv'
    BY <1>1 DEF HostInv, FileInv, SavedInv, BeforeReply
  <1> QED BY <1>4, <1>5, <1>7, <1>8

\* The servers finish the change, or lose it.
LEMMA ServerStep ==
    ASSUME ScaleInv, ServerFinishes \/ ServerForgets
    PROVE  ScaleInv'
  <1> USE DEF ScaleInv
  <1>1. /\ target # None /\ target' = None
        /\ UNCHANGED <<running, data, remote, index, rows, file, ini, step, op, before, seen, reply, todo,
                       blind, unsaved, runs>>
        /\ (Fault \/ UNCHANGED faults)
        /\ \/ live' = target /\ event' = IF event = "open" THEN "finished" ELSE event
           \/ live' = live /\ event' = "unknown"
    BY DEF ServerFinishes, ServerForgets, hosts, local
  <1>2. event # "finished"
    BY <1>1 DEF EventInv
  <1>3. target \in Configs
    BY <1>1 DEF TypeOK
  <1>4. TypeOK'
    BY <1>1, <1>3, FaultType DEF TypeOK
  <1>5. ConfigInv' /\ RequestInv'
    BY <1>1 DEF ConfigInv, RequestInv
  <1>6. \A c : Asked(c)' <=> Asked(c)
    BY <1>1 DEF Asked
  <1>7. event' = "finished" => Asked(live)' /\ (reply # None => live' = reply)
    BY <1>1, <1>2 DEF EventInv, Asked
  <1>8. EventInv'
    BY <1>1, <1>2, <1>7 DEF EventInv, BeforeReply, Asked
  <1>9. HostInv' /\ FileInv' /\ SavedInv'
    BY <1>1 DEF HostInv, FileInv, SavedInv, Indexed
  <1> QED BY <1>4, <1>5, <1>8, <1>9

\* The configuration of the servers is written into every ini file.
LEMMA ConfigureStep ==
    ASSUME ScaleInv, TxConfUpdate
    PROVE  ScaleInv'
  <1> USE DEF ScaleInv
  <1>1. /\ step = "conf" /\ reply # None /\ file' = reply /\ step' = "upload"
        /\ ini' = UpdateConfigs(FormatNodeLists(reply))
        /\ UNCHANGED <<live, target, event, running, data, remote, index, rows, op, before, seen, reply,
                       todo, blind, unsaved, runs, faults>>
    BY DEF TxConfUpdate, server, hosts
  <1>2. reply \in Configs /\ Led(reply)
    BY <1>1 DEF TypeOK, ConfigInv
  <1>3. \A old \in Lists : UpdateIni(old, FormatNodeLists(reply)) \in Lists
    BY <1>2, UpdatedIni
  <1>4. ini' \in [Nodes -> Lists \cup {None}]
    <2> DEFINE U(old) == UpdateIni(old, FormatNodeLists(reply))
    <2>1. \A old \in Lists : U(old) \in Lists
      BY <1>3
    <2>2. index \in Lists /\ \A n \in Nodes : ini[n] # None => ini[n] \in Lists
      BY DEF TypeOK
    <2>3. ini' = [n \in Nodes |->
                    CASE op.kind = "remove" /\ n \in op.nodes -> None
                      [] op.kind = "add" /\ n \in op.nodes    -> U(index)
                      [] n \notin op.nodes /\ ini[n] # None   -> U(ini[n])
                      [] OTHER -> None]
      BY <1>1 DEF UpdateConfigs
    <2> HIDE DEF U
    <2>4. op.kind \in {"add", "remove"}
      BY RequestType DEF TypeOK
    <2> QED BY <2>1, <2>2, <2>3, <2>4
  <1>5. op.kind = "add" => \A n \in op.nodes : ini'[n] = UpdateIni(index, FormatNodeLists(reply))
    <2>1. op.nodes \subseteq Nodes
      BY RequestType DEF TypeOK
    <2> QED BY <1>1, <2>1 DEF UpdateConfigs
  <1>6. TypeOK'
    BY <1>1, <1>4 DEF TypeOK
  <1>7. ConfigInv' /\ RequestInv'
    BY <1>1 DEF ConfigInv, RequestInv
  <1>8. EventInv' /\ HostInv' /\ SavedInv'
    BY <1>1 DEF EventInv, HostInv, SavedInv, BeforeReply, Asked
  <1>9. FileInv'
    BY <1>1, <1>5 DEF FileInv, BeforeReply
  <1> QED BY <1>6, <1>7, <1>8, <1>9

\* The topology is saved from the configuration of this run.
LEMMA SaveStep ==
    ASSUME ScaleInv, DbDeploymentUpdate
    PROVE  /\ ScaleInv' /\ index'.m = Masters(reply) /\ Members(reply) \subseteq Indexed'
  <1> USE DEF ScaleInv
  <1> DEFINE x == index.m
             y == IF op.kind = "remove" THEN {} ELSE index.r
             z == IF op.kind = "remove" THEN {} ELSE index.v
  <1>1. /\ step = "save" /\ step' = "table"
        /\ UNCHANGED <<live, target, event, running, data, remote, rows, file, ini, op, before, seen,
                       reply, todo, blind, unsaved, runs, faults>>
    BY DEF DbDeploymentUpdate, server, hosts
  <1>2. reply # None /\ reply \in Configs /\ Led(reply) /\ ConfigToSave = reply
    BY <1>1 DEF TypeOK, ConfigInv, EventInv, Configured, ConfigToSave
  <1>3. /\ x \in SUBSET Nodes /\ y \in {None} \cup SUBSET Nodes /\ z \in {None} \cup SUBSET Nodes
        /\ op.kind = "remove" => y = {} /\ z = {}
    BY DEF TypeOK, Lists
  <1>4. index' = FilledFrom(reply, x, y, z)
    BY <1>2 DEF DbDeploymentUpdate, FormatNodeLists, FilledFrom
  <1> HIDE DEF x, y, z
  <1>5. /\ index' \in Lists /\ index'.m = Masters(reply) /\ Members(reply) \subseteq Indexed'
        /\ op.kind = "remove" => Indexed' \subseteq Members(reply)
    <2>1. /\ index' \in Lists /\ index'.m = Masters(reply) /\ Members(reply) \subseteq ListNodes(index')
          /\ op.kind = "remove" => ListNodes(index') \subseteq Members(reply)
      BY <1>2, <1>3, <1>4, FilledLists
    <2> QED BY <2>1 DEF Indexed, ListNodes
  <1>6. TypeOK'
    BY <1>1, <1>5 DEF TypeOK
  <1>7. ConfigInv' /\ RequestInv' /\ EventInv' /\ HostInv' /\ FileInv'
    BY <1>1 DEF ConfigInv, RequestInv, EventInv, HostInv, FileInv, BeforeReply, Configured, Asked
  <1>8. SavedInv'
    BY <1>1, <1>2, <1>5 DEF SavedInv, EventInv, Asked
  <1> QED BY <1>5, <1>6, <1>7, <1>8

\* The other steps up to the answer of the servers.
LEMMA AskStep ==
    ASSUME ScaleInv, \/ ReadTopology \/ ReadTopologyFails \/ ScaleOpRefused \/ TxConfUpdateFails \/ Fails
    PROVE  ScaleInv'
  <1> USE DEF ScaleInv
  <1>1. /\ UNCHANGED <<live, target, event, running, data, remote, index, rows, file, ini, op, before,
                       reply, todo, blind, unsaved, runs>>
        /\ (Fault \/ UNCHANGED faults) /\ seen' \in BOOLEAN
        /\ \/ step' = "failed"
           \/ step = "post" /\ step' = "check"
           \/ step = "topology" /\ op.kind = "add" /\ step' = "prepare"
           \/ step = "topology" /\ op.kind # "add" /\ step' = "rpc"
    BY DEF ReadTopology, ReadTopologyFails, ScaleOpRefused, TxConfUpdateFails, Fails, server, hosts, local,
           TypeOK
  <1>2. TypeOK'
    BY <1>1, FaultType DEF TypeOK, Idle
  <1>3. ConfigInv' /\ RequestInv'
    BY <1>1 DEF ConfigInv, RequestInv
  <1>4. EventInv'
    BY <1>1 DEF EventInv, BeforeReply, Configured, Asked
  <1>5. HostInv' /\ SavedInv'
    BY <1>1 DEF HostInv, SavedInv, RequestInv
  <1>6. FileInv'
    BY <1>1 DEF FileInv, BeforeReply
  <1> QED BY <1>2, <1>3, <1>4, <1>5, <1>6

\* A new host is synced, or some are when the step fails: none has a recorded node.
LEMMA PrepareStep ==
    ASSUME ScaleInv, Prepare \/ PrepareFails
    PROVE  ScaleInv' /\ (data \ data') \cap before = {}
  <1> USE DEF ScaleInv
  <1>1. /\ step = "prepare" /\ step' \in {"rpc", "failed"}
        /\ UNCHANGED <<live, target, event, running, index, rows, file, ini, op, before, seen, reply, todo,
                       blind, unsaved, runs>>
        /\ (Fault \/ UNCHANGED faults)
    BY DEF Prepare, PrepareFails, server, local
  <1>2. \/ \E made \in SUBSET op.nodes : data' = data \cup made /\ UNCHANGED remote
        \/ \E hs \in SUBSET NewHosts : Sync(hs)
    BY DEF Prepare, PrepareFails
  <1>3. op.nodes \subseteq Nodes
    BY RequestType DEF TypeOK
  <1> DEFINE L == Lists \cup {None}
  <1>4. data \subseteq Nodes /\ remote \in [Nodes -> L] /\ None \in L
    BY DEF TypeOK
  <1> HIDE DEF L
  <1>5. data' \subseteq Nodes /\ remote' \in [Nodes -> L] /\ (data \ data') \cap before = {}
    <2>1. ASSUME NEW hs \in SUBSET NewHosts, Sync(hs)
          PROVE  data' \subseteq Nodes /\ remote' \in [Nodes -> L] /\ (data \ data') \cap before = {}
      <3>1. \A n \in before : HostOf[n] \notin hs
        BY DEF NewHosts, HostsOf
      <3> QED BY <1>3, <1>4, <2>1, <3>1 DEF Sync
    <2>2. ASSUME NEW made \in SUBSET op.nodes, data' = data \cup made, UNCHANGED remote
          PROVE  data' \subseteq Nodes /\ remote' \in [Nodes -> L] /\ (data \ data') \cap before = {}
      BY <1>3, <1>4, <2>2
    <2> QED BY <1>2, <2>1, <2>2
  <1>6. TypeOK'
    BY <1>1, <1>5, FaultType DEF TypeOK, Idle, L
  <1>7. ConfigInv' /\ RequestInv' /\ EventInv'
    BY <1>1 DEF ConfigInv, RequestInv, EventInv, BeforeReply, Configured, Asked
  <1>8. HostInv' /\ FileInv' /\ SavedInv'
    BY <1>1 DEF HostInv, FileInv, SavedInv, BeforeReply
  <1> QED BY <1>5, <1>6, <1>7, <1>8

\* The files are uploaded one by one.
LEMMA UploadStep ==
    ASSUME ScaleInv, EndUploads \/ \E n \in Nodes : UploadConfig(n)
    PROVE  ScaleInv'
  <1> USE DEF ScaleInv
  <1>1. CASE EndUploads
    <2>1. /\ step = "upload" /\ todo = {}
          /\ step' = IF op.kind = "add" THEN "start" ELSE "check"
          /\ todo' = IF op.kind = "add" THEN op.nodes ELSE {}
          /\ UNCHANGED <<live, target, event, running, data, remote, index, rows, file, ini, op, before,
                         seen, reply, blind, unsaved, runs, faults>>
      BY <1>1 DEF EndUploads, server, hosts, local
    <2>2. op.nodes \subseteq Nodes
      BY RequestType DEF TypeOK
    <2>3. TypeOK'
      BY <2>1, <2>2 DEF TypeOK
    <2>4. ConfigInv' /\ RequestInv' /\ EventInv'
      BY <2>1 DEF ConfigInv, RequestInv, EventInv, BeforeReply, Configured, Asked
    <2>5. HostInv' /\ FileInv' /\ SavedInv'
      BY <2>1 DEF HostInv, FileInv, SavedInv, BeforeReply
    <2> QED BY <2>3, <2>4, <2>5
  <1>2. ASSUME NEW n \in Nodes, UploadConfig(n) PROVE ScaleInv'
    <2>1. /\ step = "upload" /\ n \in todo /\ remote' = [remote EXCEPT ![n] = ini[n]]
          /\ todo' = todo \ {n}
          /\ UNCHANGED <<live, target, event, running, data, index, rows, file, ini, step, op, before,
                         seen, reply, blind, unsaved, runs, faults>>
      BY <1>2 DEF UploadConfig, server, local
    <2>2. TypeOK'
      <3> DEFINE L == Lists \cup {None}
      <3>1. remote \in [Nodes -> L] /\ ini \in [Nodes -> L]
        BY DEF TypeOK
      <3>2. remote' \in [Nodes -> L]
        <4> HIDE DEF L
        <4> QED BY <2>1, <3>1
      <3> QED BY <2>1, <3>2 DEF TypeOK
    <2>3. ConfigInv' /\ RequestInv' /\ EventInv'
      BY <2>1 DEF ConfigInv, RequestInv, EventInv, BeforeReply, Configured, Asked
    <2>4. HostInv' /\ SavedInv'
      BY <2>1 DEF HostInv, SavedInv, Indexed
    <2>5. FileInv'
      <3>1. op.nodes \subseteq Nodes /\ DOMAIN remote = Nodes
        BY RequestType DEF TypeOK
      <3>2. \A k \in Nodes : remote'[k] = IF k = n THEN ini[n] ELSE remote[k]
        BY <2>1, <3>1
      <3> QED BY <2>1, <3>1, <3>2 DEF FileInv, BeforeReply
    <2> QED BY <2>2, <2>3, <2>4, <2>5
  <1> QED BY <1>1, <1>2

\* Added nodes are started.
LEMMA StartStep ==
    ASSUME ScaleInv, EndStarts \/ \E n \in Nodes : StartNode(n)
    PROVE  ScaleInv'
  <1> USE DEF ScaleInv
  <1>1. CASE EndStarts
    <2>1. /\ step = "start" /\ todo = {} /\ step' = "post"
          /\ UNCHANGED <<live, target, event, running, data, remote, index, rows, file, ini, op, before,
                         seen, reply, todo, blind, unsaved, runs, faults>>
      BY <1>1 DEF EndStarts, server, hosts, local
    <2>2. TypeOK' /\ ConfigInv' /\ RequestInv' /\ EventInv'
      BY <2>1 DEF TypeOK, ConfigInv, RequestInv, EventInv, BeforeReply, Configured, Asked
    <2>3. HostInv' /\ FileInv' /\ SavedInv'
      BY <2>1 DEF HostInv, FileInv, SavedInv, BeforeReply
    <2> QED BY <2>2, <2>3
  <1>2. ASSUME NEW n \in Nodes, StartNode(n) PROVE ScaleInv'
    <2>1. /\ step = "start" /\ n \in todo /\ running' = running \cup {n} /\ data' = data \cup {n}
          /\ todo' = todo \ {n}
          /\ UNCHANGED <<live, target, event, remote, index, rows, file, ini, step, op, before,
                         seen, reply, blind, unsaved, runs, faults>>
      BY <1>2 DEF StartNode, server, local
    <2>2. TypeOK'
      BY <2>1 DEF TypeOK
    <2>3. ConfigInv' /\ RequestInv' /\ EventInv'
      BY <2>1 DEF ConfigInv, RequestInv, EventInv, BeforeReply, Configured, Asked
    <2>4. HostInv' /\ SavedInv'
      BY <2>1 DEF HostInv, SavedInv
    <2>5. FileInv'
      BY <2>1 DEF FileInv, BeforeReply
    <2> QED BY <2>2, <2>3, <2>4, <2>5
  <1> QED BY <1>1, <1>2

\* The status check ends: FINISHED, an unknown event, nobody to ask, or too late.
LEMMA CheckStep ==
    ASSUME ScaleInv, CheckScaleStatus \/ CheckTimesOut
    PROVE  ScaleInv'
  <1> USE DEF ScaleInv
  <1>0. op.nodes \subseteq Nodes /\ op.kind \in {"add", "remove"}
    BY RequestType DEF TypeOK
  <1>1. CASE CheckScaleStatus
    <2>1. /\ step = "check" /\ blind' \in BOOLEAN /\ (~blind' => event # "open" /\ event # "unknown")
          /\ step' = IF op.kind = "add" THEN "save" ELSE "stop"
          /\ todo' = IF op.kind = "add" THEN {} ELSE op.nodes
          /\ UNCHANGED <<live, target, event, running, data, remote, index, rows, file, ini, op, before,
                         seen, reply, unsaved, runs, faults>>
      BY <1>1 DEF CheckScaleStatus, AfterCheck, server, hosts, local
    <2>2. TypeOK'
      BY <1>0, <2>1 DEF TypeOK
    <2>3. ~blind' => event = "finished"
      BY <2>1 DEF TypeOK
    <2>4. ConfigInv' /\ RequestInv' /\ EventInv'
      BY <1>0, <2>1, <2>3 DEF ConfigInv, RequestInv, EventInv, BeforeReply, Configured, Asked
    <2>5. HostInv' /\ FileInv' /\ SavedInv'
      BY <1>0, <2>1 DEF HostInv, FileInv, SavedInv, BeforeReply
    <2> QED BY <2>2, <2>4, <2>5
  <1>2. CASE CheckTimesOut
    <2>1. /\ step' = "failed"
          /\ UNCHANGED <<live, target, event, running, data, remote, index, rows, file, ini, op, before,
                         seen, reply, todo, blind, unsaved, runs, faults>>
      BY <1>2 DEF CheckTimesOut, server, hosts, local
    <2>2. TypeOK' /\ ConfigInv' /\ RequestInv' /\ EventInv'
      BY <2>1 DEF TypeOK, Idle, ConfigInv, RequestInv, EventInv, BeforeReply, Configured, Asked
    <2>3. HostInv' /\ FileInv' /\ SavedInv'
      BY <2>1 DEF HostInv, FileInv, SavedInv, BeforeReply
    <2> QED BY <2>2, <2>3
  <1> QED BY <1>1, <1>2

\* Removed nodes are stopped; whoever saw FINISHED stops no member.
LEMMA StopStep ==
    ASSUME ScaleInv, EndStops \/ \E n \in Nodes : StopNode(n)
    PROVE  ScaleInv' /\ (~blind => (running \ running') \cap Members(live) = {})
  <1> USE DEF ScaleInv
  <1>1. CASE EndStops
    <2>1. /\ step = "stop" /\ todo = {} /\ step' = "save"
          /\ UNCHANGED <<live, target, event, running, data, remote, index, rows, file, ini, op, before,
                         seen, reply, todo, blind, unsaved, runs, faults>>
      BY <1>1 DEF EndStops, server, hosts, local
    <2>2. TypeOK' /\ ConfigInv' /\ RequestInv' /\ EventInv'
      BY <2>1 DEF TypeOK, ConfigInv, RequestInv, EventInv, BeforeReply, Configured, Asked
    <2>3. HostInv' /\ FileInv' /\ SavedInv'
      BY <2>1 DEF HostInv, FileInv, SavedInv, RequestInv, BeforeReply
    <2> QED BY <2>1, <2>2, <2>3
  <1>2. ASSUME NEW n \in Nodes, StopNode(n)
        PROVE  ScaleInv' /\ (~blind => (running \ running') \cap Members(live) = {})
    <2>1. /\ step = "stop" /\ n \in todo /\ running' = running \ {n} /\ todo' = todo \ {n}
          /\ UNCHANGED <<live, target, event, data, remote, index, rows, file, ini, step, op, before,
                         seen, reply, blind, unsaved, runs, faults>>
      BY <1>2 DEF StopNode, server, local
    <2>2. TypeOK'
      BY <2>1 DEF TypeOK
    <2>3. ConfigInv' /\ RequestInv' /\ EventInv'
      BY <2>1 DEF ConfigInv, RequestInv, EventInv, BeforeReply, Configured, Asked
    <2>4. HostInv' /\ FileInv' /\ SavedInv'
      BY <2>1 DEF HostInv, FileInv, SavedInv, RequestInv, BeforeReply
    <2>5. ~blind => n \notin Members(live)
      BY <2>1 DEF RequestInv, EventInv, Asked
    <2> QED BY <2>1, <2>2, <2>3, <2>4, <2>5
  <1> QED BY <1>1, <1>2

\* The topology table follows the index, but for the writes that fail.
LEMMA TableStep ==
    ASSUME ScaleInv, TopologyUpdate \/ TopologyUpdateFalters
    PROVE  ScaleInv'
  <1> USE DEF ScaleInv
  <1>1. /\ step = "table" /\ rows' \subseteq rows \cup Members(file)
        /\ (unsaved' = TRUE \/ (UNCHANGED unsaved /\ rows' = (rows \ RemovedNodes) \cup Members(file)))
        /\ step' = IF op.kind = "add" THEN "done" ELSE "clean"
        /\ todo' = IF op.kind = "add" THEN {} ELSE op.nodes
        /\ UNCHANGED <<live, target, event, running, data, remote, index, file, ini, op, before, seen,
                       reply, blind, runs>>
        /\ (Fault \/ UNCHANGED faults)
    BY DEF TopologyUpdate, TopologyUpdateFalters, AfterTable, FileTopology, server, hosts
  <1>2. op.nodes \subseteq Nodes /\ op.kind \in {"add", "remove"}
    BY RequestType DEF TypeOK
  <1>3. reply # None /\ file = reply /\ reply \in Configs /\ Led(reply) /\ Asked(reply)
    BY <1>1 DEF TypeOK, ConfigInv, EventInv, Configured
  <1>4. Members(file) \subseteq Nodes
    BY <1>3, ConfigSets
  <1>5. TypeOK'
    BY <1>1, <1>2, <1>4, FaultType DEF TypeOK, Idle
  <1>6. ConfigInv' /\ RequestInv' /\ EventInv'
    BY <1>1, <1>2 DEF ConfigInv, RequestInv, EventInv, BeforeReply, Configured, Asked
  <1>7. HostInv' /\ FileInv'
    BY <1>1, <1>2 DEF HostInv, FileInv, BeforeReply
  <1>8. ~unsaved' => Members(reply) \subseteq rows' /\ (op.kind = "remove" => op.nodes \cap rows' = {})
    BY <1>1, <1>3 DEF RemovedNodes, Asked
  <1>9. SavedInv'
    BY <1>1, <1>8 DEF SavedInv, Indexed
  <1> QED BY <1>5, <1>6, <1>7, <1>9

\* A host that is wiped as a whole has no recorded node but the removed ones,
\* when none of them is listed twice.
LEMMA LastNodes ==
    ASSUME ScaleInv, op.kind = "remove", NEW h, IsLastNode(h), At(op.again, h) = {}
    PROVE  At(before, h) = At(op.nodes, h)
  <1>1. op.nodes \subseteq before /\ before \subseteq Nodes /\ IsFiniteSet(Nodes)
    BY ScaleAssumption DEF ScaleInv, TypeOK, RequestInv
  <1> DEFINE B == At(before, h)
             R == At(op.nodes, h)
  <1>2. R \subseteq B /\ B \subseteq Nodes
    BY <1>1 DEF At
  <1>3. IsFiniteSet(B)
    BY <1>1, <1>2, FS_Subset
  <1>4. Cardinality(B) <= Cardinality(R) + Cardinality({})
    BY DEF IsLastNode, Mentions
  <1> HIDE DEF B, R
  <1>5. Cardinality(R) \in Nat /\ Cardinality(B) \in Nat /\ Cardinality({}) = 0
    BY <1>2, <1>3, FS_Subset, FS_CardinalityType, FS_EmptySet
  <1>6. B = R
    BY <1>2, <1>3, <1>4, <1>5, FS_Subset
  <1> QED BY <1>6 DEF B, R

LEMMA CleanStep ==
    ASSUME ScaleInv, EndClean \/ \E h \in HostsOf(Nodes) : CleanHost(h)
    PROVE  ScaleInv' /\ \A n \in data \ data' :
              n \in before => op.kind = "remove" /\ (n \in op.nodes \ running \/ Repeated(n))
  <1> USE DEF ScaleInv
  <1>1. CASE EndClean
    <2>1. /\ step = "clean" /\ todo = {} /\ step' = "done"
          /\ UNCHANGED <<live, target, event, running, data, remote, index, rows, file, ini, op, before,
                         seen, reply, todo, blind, unsaved, runs, faults>>
      BY <1>1 DEF EndClean, server, hosts, local
    <2>2. TypeOK' /\ ConfigInv' /\ RequestInv' /\ EventInv'
      BY <2>1 DEF TypeOK, Idle, ConfigInv, RequestInv, EventInv, BeforeReply, Configured, Asked
    <2>3. HostInv' /\ FileInv' /\ SavedInv'
      BY <2>1 DEF HostInv, FileInv, SavedInv, RequestInv, BeforeReply, Indexed
    <2> QED BY <2>1, <2>2, <2>3
  <1>2. ASSUME NEW h, CleanHost(h)
        PROVE  ScaleInv' /\ \A n \in data \ data' :
              n \in before => op.kind = "remove" /\ (n \in op.nodes \ running \/ Repeated(n))
    <2>1. /\ step = "clean" /\ todo' = todo \ At(todo, h)
          /\ IF IsLastNode(h)
             THEN /\ data' = data \ At(Nodes, h)
                  /\ remote' = [n \in Nodes |-> IF HostOf[n] = h THEN None ELSE remote[n]]
             ELSE data' = data \ At(op.nodes, h) /\ UNCHANGED remote
          /\ UNCHANGED <<live, target, event, running, index, rows, file, ini, step, op, before, seen,
                         reply, blind, unsaved, runs, faults>>
      BY <1>2 DEF CleanHost, server, local
    <2>2. op.kind = "remove" /\ op.nodes \subseteq Nodes /\ todo \subseteq op.nodes /\ op.nodes \cap running = {}
      BY <2>1, RequestType DEF TypeOK, RequestInv, HostInv
    <2>3. TypeOK'
      <3> DEFINE L == Lists \cup {None}
      <3>1. remote \in [Nodes -> L] /\ None \in L
        BY DEF TypeOK
      <3>2. remote' \in [Nodes -> L]
        <4> HIDE DEF L
        <4> QED BY <2>1, <3>1 DEF IsLastNode
      <3>3. data' \subseteq data
        BY <2>1 DEF IsLastNode
      <3> QED BY <2>1, <3>2, <3>3 DEF TypeOK
    <2>4. ConfigInv' /\ RequestInv' /\ EventInv'
      BY <2>1 DEF ConfigInv, RequestInv, EventInv, BeforeReply, Configured, Asked
    <2>5. op.nodes \cap data' \subseteq todo'
      <3>1. op.nodes \cap data \subseteq todo
        BY <2>1 DEF HostInv
      <3>2. data' \subseteq data /\ data' \cap At(op.nodes, h) = {}
        BY <2>1, <2>2 DEF At, IsLastNode
      <3> QED BY <2>1, <2>2, <3>1, <3>2 DEF At
    <2>6. HostInv' /\ FileInv' /\ SavedInv'
      BY <2>1, <2>2, <2>5 DEF HostInv, FileInv, SavedInv, Indexed
    <2>7. \A n \in data \ data' : n \in before => n \in op.nodes \/ Repeated(n)
      <3>1. CASE IsLastNode(h)
        <4>1. At(op.again, h) # {} \/ At(before, h) = At(op.nodes, h)
          BY <2>2, <3>1, LastNodes
        <4>2. \A n \in data \ data' : n \in At(Nodes, h)
          BY <2>1, <3>1
        <4>3. ASSUME NEW n \in data \ data', n \in before, At(op.again, h) # {} PROVE Repeated(n)
          BY <4>2, <4>3 DEF Repeated, At
        <4>4. ASSUME NEW n \in data \ data', n \in before, At(before, h) = At(op.nodes, h) PROVE n \in op.nodes
          BY <4>2, <4>4 DEF At
        <4> QED BY <4>1, <4>3, <4>4
      <3>2. CASE ~IsLastNode(h)
        BY <2>1, <3>2 DEF At
      <3> QED BY <3>1, <3>2
    <2> QED BY <2>2, <2>3, <2>4, <2>6, <2>7
  <1> QED BY <1>1, <1>2

LEMMA StutterStep == ScaleInv /\ UNCHANGED vars => ScaleInv'
  <1> SUFFICES ASSUME ScaleInv, UNCHANGED vars PROVE ScaleInv'
    OBVIOUS
  <1> USE DEF ScaleInv, vars
  <1>1. TypeOK' /\ ConfigInv' /\ RequestInv'
    BY DEF TypeOK, ConfigInv, RequestInv
  <1>2. EventInv'
    BY DEF EventInv, Asked
  <1>3. HostInv' /\ FileInv' /\ SavedInv'
    BY DEF HostInv, FileInv, SavedInv, Indexed
  <1> QED BY <1>1, <1>2, <1>3

\* Which group of steps changes what the action properties look at.
LEMMA StepKinds ==
    ASSUME Next
    PROVE  \/ \E o \in Requests : Begin(o)
           \/ ScaleOp \/ ScaleOpLost \/ ServerFinishes \/ ServerForgets \/ TxConfUpdate
           \/ ReadTopology \/ ReadTopologyFails \/ ScaleOpRefused \/ TxConfUpdateFails \/ Fails
           \/ EndUploads \/ \E n \in Nodes : UploadConfig(n)
           \/ EndStarts \/ \E n \in Nodes : StartNode(n)
           \/ CheckScaleStatus \/ CheckTimesOut
           \/ EndStops \/ \E n \in Nodes : StopNode(n)
           \/ Prepare \/ PrepareFails \/ DbDeploymentUpdate \/ TopologyUpdate \/ TopologyUpdateFalters
           \/ EndClean \/ \E h \in HostsOf(Nodes) : CleanHost(h)
  BY DEF Next, Advance

LEMMA ScaleStep == ScaleInv /\ [Next]_vars => ScaleInv'
  <1> SUFFICES ASSUME ScaleInv, [Next]_vars PROVE ScaleInv'
    OBVIOUS
  <1>1. CASE UNCHANGED vars
    BY <1>1, StutterStep
  <1>2. CASE Next
    BY <1>2, StepKinds, BeginStep, AcceptStep, ServerStep, ConfigureStep, SaveStep, AskStep,
       PrepareStep, UploadStep, StartStep, CheckStep, StopStep, TableStep, CleanStep
  <1> QED BY <1>1, <1>2

(***************************************************************************)
(* The theorems                                                            *)
(***************************************************************************)

\* Whatever fails or is lost in a run or between runs of DbScaleCluster, what the
\* servers know of its event is about this run's change, and from the rewrite of
\* the ini files on, the kept configuration is the one they answered with.
THEOREM ScaleInvariant == Spec => []ScaleInv
  <1> QED BY ScaleInit, ScaleStep, PTL DEF Spec

\* A scale that ends after it saw FINISHED leaves servers, index and hosts agreeing
\* on the nodes it was given, whatever earlier runs left, and the topology table
\* too unless TopologyUpdateTask counted a failed write.
THEOREM DoneRecordsTheChange == Spec => []DoneMeansRecorded
  <1>1. ScaleInv => DoneMeansRecorded
    <2> SUFFICES ASSUME ScaleInv, step = "done", ~blind
                 PROVE  /\ Members(live) \subseteq Indexed
                        /\ op.kind = "add" => op.nodes \subseteq Members(live) \cap Indexed \cap running
                        /\ op.kind = "remove" =>
                             op.nodes \cap (Members(live) \cup Indexed \cup running \cup data) = {}
                        /\ ~unsaved => /\ Members(live) \subseteq rows
                                       /\ op.kind = "remove" => op.nodes \cap rows = {}
      BY DEF DoneMeansRecorded
    <2>1. reply # None /\ live = reply /\ Asked(live)
      BY DEF ScaleInv, EventInv, Configured
    <2>2. /\ Members(live) \subseteq Indexed /\ (op.kind = "remove" => op.nodes \cap Indexed = {})
          /\ ~unsaved => Members(live) \subseteq rows /\ (op.kind = "remove" => op.nodes \cap rows = {})
      BY <2>1 DEF ScaleInv, SavedInv
    <2>3. /\ op.kind = "add" => op.nodes \subseteq running
          /\ op.kind = "remove" => op.nodes \cap running = {} /\ op.nodes \cap data = {}
      BY DEF ScaleInv, HostInv
    <2> QED BY <2>1, <2>2, <2>3 DEF Asked
  <1> QED BY <1>1, ScaleInvariant, PTL

\* The index is only ever rewritten by DbDeploymentUpdateTask, and once FINISHED
\* was seen with the masters and all the members the servers run with.
THEOREM SavesWhatTheServersRun == Spec => SavedMatchesServer
  <1> DEFINE A == index' # index /\ ~blind => index'.m = Masters(live) /\ Members(live) \subseteq Indexed'
  <1>1. ScaleInv /\ [Next]_vars => [A]_vars
    <2> SUFFICES ASSUME ScaleInv, Next, index' # index, ~blind
                 PROVE  index'.m = Masters(live) /\ Members(live) \subseteq Indexed'
      OBVIOUS
    <2>1. DbDeploymentUpdate
      BY StepKinds DEF Begin, ScaleOp, ScaleOpLost, ServerFinishes, ServerForgets, TxConfUpdate, ReadTopology,
        ReadTopologyFails, ScaleOpRefused, TxConfUpdateFails, Fails, EndUploads, UploadConfig, EndStarts,
        StartNode, CheckScaleStatus, CheckTimesOut, AfterCheck, EndStops, StopNode, Prepare, PrepareFails, Sync, TopologyUpdate, TopologyUpdateFalters, AfterTable,
        EndClean, CleanHost, local
    <2>2. reply # None /\ live = reply
      BY <2>1 DEF DbDeploymentUpdate, ScaleInv, EventInv, Configured
    <2> QED BY <2>1, <2>2, SaveStep
  <1> QED BY <1>1, ScaleInvariant, PTL DEF Spec, SavedMatchesServer

\* Neither the rsync of a new host nor a clean-up deletes the directories of a
\* node that was recorded when the run began, but of the stopped nodes it removes;
\* a clean-up may on a host of which the request lists a node twice.
THEOREM RecordedNodesKeepData == Spec => WipesNoRecordedNode
  <1> DEFINE A == \A n \in data \ data' :
                   n \in before => op.kind = "remove" /\ (n \in op.nodes \ running \/ Repeated(n))
  <1>1. ScaleInv /\ [Next]_vars => [A]_vars
    <2> SUFFICES ASSUME ScaleInv, Next PROVE A
      OBVIOUS
    <2>1. CASE Prepare \/ PrepareFails
      BY <2>1, PrepareStep
    <2>2. CASE EndClean \/ \E h \in HostsOf(Nodes) : CleanHost(h)
      BY <2>2, CleanStep
    <2>3. CASE ~(Prepare \/ PrepareFails \/ EndClean \/ \E h \in HostsOf(Nodes) : CleanHost(h))
      <3>1. data' = data \/ \E n \in Nodes : data' = data \cup {n}
        BY <2>3, StepKinds DEF Begin, ScaleOp, ScaleOpLost, ServerFinishes, ServerForgets, TxConfUpdate,
          ReadTopology, ReadTopologyFails, ScaleOpRefused, TxConfUpdateFails, Fails, EndUploads, UploadConfig,
          EndStarts, StartNode, CheckScaleStatus, CheckTimesOut, AfterCheck, EndStops, StopNode,
          DbDeploymentUpdate, TopologyUpdate, TopologyUpdateFalters, AfterTable, hosts
      <3> QED BY <3>1
    <2> QED BY <2>1, <2>2, <2>3
  <1> QED BY <1>1, ScaleInvariant, PTL DEF Spec, WipesNoRecordedNode

\* A node is stopped only once the servers have dropped it, unless the status
\* check of the run passed without an answer.
THEOREM StopsOnlyTheRemoved == Spec => StopsAfterRemoval
  <1> DEFINE A == \A n \in running \ running' : n \in Members(live) => blind
  <1>1. ScaleInv /\ [Next]_vars => [A]_vars
    <2> SUFFICES ASSUME ScaleInv, Next PROVE A
      OBVIOUS
    <2>1. CASE EndStops \/ \E n \in Nodes : StopNode(n)
      BY <2>1, StopStep
    <2>2. CASE ~(EndStops \/ \E n \in Nodes : StopNode(n))
      <3>1. running' = running \/ \E n \in Nodes : running' = running \cup {n}
        BY <2>2, StepKinds DEF Begin, ScaleOp, ScaleOpLost, ServerFinishes, ServerForgets, TxConfUpdate,
          ReadTopology, ReadTopologyFails, ScaleOpRefused, TxConfUpdateFails, Fails, EndUploads, UploadConfig,
          EndStarts, StartNode, CheckScaleStatus, CheckTimesOut, AfterCheck, Prepare, PrepareFails, Sync, CleanHost, EndClean,
          DbDeploymentUpdate, TopologyUpdate, TopologyUpdateFalters, AfterTable, hosts
      <3> QED BY <3>1
    <2> QED BY <2>1, <2>2
  <1> QED BY <1>1, ScaleInvariant, PTL DEF Spec, StopsAfterRemoval

\* A node is started with a file of this run on its host: it names the masters
\* the servers answered with, and the node itself.
THEOREM StartsConfigured == Spec => StartsWithCurrentConfig
  <1> DEFINE A == \A n \in running' \ running :
                      /\ remote[n] # None /\ reply # None /\ remote[n].m = Masters(reply)
                      /\ n \in remote[n].m \cup Opt(remote[n].r) \cup Opt(remote[n].v)
  <1>1. ScaleInv /\ [Next]_vars => [A]_vars
    <2> SUFFICES ASSUME ScaleInv, Next, NEW n \in running' \ running
                 PROVE  /\ remote[n] # None /\ reply # None /\ remote[n].m = Masters(reply)
                        /\ n \in ListNodes(remote[n])
      BY DEF ListNodes
    <2>1. StartNode(n) /\ n \in Nodes
      <3>1. PICK k \in Nodes : StartNode(k)
        BY StepKinds DEF Begin, ScaleOp, ScaleOpLost, ServerFinishes, ServerForgets, TxConfUpdate,
          ReadTopology, ReadTopologyFails, ScaleOpRefused, TxConfUpdateFails, Fails, EndUploads, UploadConfig,
          EndStarts, CheckScaleStatus, CheckTimesOut, AfterCheck, Prepare, PrepareFails, Sync, CleanHost, EndClean, EndStops,
          StopNode, DbDeploymentUpdate, TopologyUpdate, TopologyUpdateFalters, AfterTable, hosts
      <3> QED BY <3>1 DEF StartNode
    <2>2. /\ op.kind = "add" /\ n \in op.nodes
          /\ remote[n] = UpdateIni(index, FormatNodeLists(reply))
      BY <2>1 DEF StartNode, ScaleInv, RequestInv, FileInv
    <2>3. reply # None /\ reply \in Configs /\ Led(reply) /\ Asked(reply) /\ index \in Lists
      BY <2>1 DEF StartNode, ScaleInv, TypeOK, ConfigInv, EventInv, Configured
    <2>4. /\ remote[n] \in Lists /\ remote[n].m = Masters(reply)
          /\ Members(reply) \subseteq ListNodes(remote[n])
      BY <2>2, <2>3, UpdatedIni
    <2>5. None \notin Lists
      BY ScaleAssumption
    <2> QED BY <2>2, <2>3, <2>4, <2>5 DEF Asked
  <1> QED BY <1>1, ScaleInvariant, PTL DEF Spec, StartsWithCurrentConfig
=============================================================================
