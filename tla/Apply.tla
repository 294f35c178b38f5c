------------------------------- MODULE Apply -------------------------------
(***************************************************************************)
(* `eloqctl apply <topology.yaml>`: build_reconcile_plan compares the      *)
(* topology with the one in the cluster index, and apply_topology executes *)
(* the plan: save the index, regenerate the node files, run `update-conf   *)
(* --restart`, restart the monitor, look at the cluster.  A run may fail   *)
(* or be killed between any two of these and the operator runs it again.   *)
(* A configuration goes through the index, the topology table (a copy of   *)
(* the node files made at launch), the files on the control host, those on *)
(* the nodes and the running processes.                                    *)
(***************************************************************************)
EXTENDS Naturals, FiniteSets

CONSTANTS Touched,    \* the fields of which the topology may ask for another value
          MaxFaults,  \* bound on failures and kills
          MayStall,   \* whether the task that edits the node files may fail softly
          Unset       \* an optional field the topology leaves out

\* tls      deployment.enable_tls, 1 when enabled
\* tx       deployment.checkpointer_interval, deployment.cluster_mode
\* monitor  deployment.monitor.prometheus.*
\* storage  deployment.storage_service
\* other    everything else
Optional == {"tls", "tx", "monitor"}
Fields == Optional \cup {"storage", "other"}
NodeFields == {"tls", "tx", "storage"}
Values == {0, 1}

ASSUME ApplyAssumption ==
    /\ Touched \subseteq Fields
    /\ MaxFaults \in Nat
    /\ MayStall \in BOOLEAN
    /\ Unset \notin Values

VARIABLES
    desired,  \* the topology file of the operator
    stored,   \* the topology of the cluster index
    table,    \* ini_config of the topology table's rows
    file,     \* the node files on the control host
    disk,     \* the node files on the nodes
    live,     \* what the tx and standby processes run with
    mon,      \* what the monitor runs with
    monUp,    \* whether the monitor runs
    up,       \* whether the critical services are healthy
    phase,    \* where apply_topology is
    merged,   \* merged_config of the plan
    edits,    \* whether the plan has tx_field_updates
    acts,     \* the actions of the plan
    faults,   \* faults so far
    clean     \* history: nothing has failed in any run

planVars == <<merged, edits, acts>>
vars == <<desired, stored, table, file, disk, live, mon, monUp, up, phase, planVars, faults, clean>>

Ready == {"idle", "ok", "failed"}
Actions == {"save", "regenerate", "restart", "monitor", "verify"}

TypeOK ==
    /\ desired \in [Fields -> Values \cup {Unset}]
    /\ \A f \in Fields \ Optional : desired[f] # Unset
    /\ stored \in [Fields -> Values]
    /\ table \in [NodeFields -> Values]
    /\ file \in [NodeFields -> Values]
    /\ disk \in [NodeFields -> Values]
    /\ live \in [NodeFields -> Values]
    /\ mon \in Values
    /\ monUp \in BOOLEAN
    /\ up \in BOOLEAN
    /\ phase \in Ready \cup {"save", "regenerate", "conf", "edit", "upload", "restart",
                             "monstop", "monstart", "verify"}
    /\ merged \in [Fields -> Values]
    /\ edits \in BOOLEAN
    /\ acts \in SUBSET Actions
    /\ faults \in 0..MaxFaults
    /\ clean \in BOOLEAN

\* A cluster that runs what its index says.
Init ==
    /\ stored \in {s \in [Fields -> Values] : \A f \in Fields \ Touched : s[f] = 0}
    /\ desired \in {d \in [Fields -> Values \cup {Unset}] :
                      /\ \A f \in Fields \ Touched : d[f] = stored[f]
                      /\ \A f \in Fields \ Optional : d[f] # Unset}
    /\ file = [f \in NodeFields |-> stored[f]]
    /\ table = file /\ disk = file /\ live = file
    /\ mon = stored["monitor"] /\ monUp = TRUE
    /\ up = TRUE
    /\ phase = "idle"
    /\ merged = stored /\ edits = FALSE /\ acts = {}
    /\ faults = 0 /\ clean = TRUE

(***************************************************************************)
(* build_reconcile_plan                                                    *)
(***************************************************************************)

\* An optional field that is left out asks for nothing.
Differs(f) == desired[f] # Unset /\ desired[f] # stored[f]

\* merged_config takes the optional fields only; a storage_service that differs
\* is planned for but not merged.
Merged == [f \in Fields |-> IF f \in Optional /\ Differs(f) THEN desired[f] ELSE stored[f]]

PlanActions ==
    LET changes    == \E f \in Optional \cup {"storage"} : Differs(f)
        regenerate == Differs("tls") \/ Differs("storage")
    IN  (IF changes THEN {"save", "verify"} ELSE {})
        \cup (IF regenerate THEN {"regenerate"} ELSE {})
        \cup (IF regenerate \/ Differs("tx") THEN {"restart"} ELSE {})
        \cup (IF Differs("monitor") THEN {"monitor"} ELSE {})

(***************************************************************************)
(* apply_topology                                                          *)
(***************************************************************************)

Fault == faults < MaxFaults /\ faults' = faults + 1

\* Fault: the index is not saved before the plan is executed.
PlanWithoutSave ==
    /\ phase \in Ready /\ up
    /\ merged' = Merged /\ edits' = Differs("tx") /\ acts' = PlanActions
    /\ phase' = IF PlanActions = {} THEN "ok" ELSE "regenerate"
    /\ UNCHANGED <<desired, table, stored, file, disk, live, mon, monUp, up, faults, clean>>

\* The live cluster is observed, healthy, and the plan is made.
Plan ==
    /\ phase \in Ready /\ up
    /\ merged' = Merged /\ edits' = Differs("tx") /\ acts' = PlanActions
    /\ phase' = IF PlanActions = {} THEN "ok" ELSE "save"
    /\ UNCHANGED <<desired, table, stored, file, disk, live, mon, monUp, up, faults, clean>>

\* SaveClusterIndex comes first.
Save ==
    /\ phase = "save"
    /\ stored' = merged
    /\ phase' = "regenerate"
    /\ UNCHANGED <<desired, table, file, disk, live, mon, monUp, up, planVars, faults, clean>>

\* gen_eloqkv_node_config for every node, from the merged configuration.
Regenerate ==
    /\ phase = "regenerate"
    /\ file' = IF "regenerate" \in acts THEN [f \in NodeFields |-> merged[f]] ELSE file
    /\ phase' = IF "restart" \in acts THEN "conf" ELSE "monstop"
    /\ UNCHANGED <<desired, table, stored, disk, live, mon, monUp, up, planVars, faults, clean>>

\* build_config_update: nothing to do without fields and TLS; with both the
\* stage lengths do not fit the tasks and split_task panics (TaskPlan).
BuildConfigUpdate ==
    /\ phase = "conf"
    /\ \/ /\ edits /\ stored["tls"] = 1
          /\ phase' = "failed" /\ clean' = FALSE
       \/ /\ ~edits /\ stored["tls"] = 0
          /\ phase' = "restart" /\ UNCHANGED clean
       \/ /\ edits # (stored["tls"] = 1)
          /\ phase' = "edit" /\ UNCHANGED clean
    /\ UNCHANGED <<desired, table, stored, file, disk, live, mon, monUp, up, planVars, faults>>

\* A row's ini_config takes the updated fields and keeps the others.
update_config_json(c) == [c EXCEPT !["tx"] = merged["tx"]]

\* Every field of ini_config is written to the file, the updated one or not;
\* TLS is there only when enabled, and a file's line it does not have is kept.
update_existing_ini_file(f, c) ==
    [x \in NodeFields |-> IF x = "tls" /\ c[x] = 0 THEN f[x] ELSE c[x]]

\* write_config_to_ini_file finds the node's file in the upload directory.  A
\* failure after the row was put leaves the two apart.
WriteFails == table' \in {table, update_config_json(table)} /\ clean' = FALSE /\ UNCHANGED file

\* TopologyUpdateTask for all nodes edits the files on the control host; a task
\* that could not reports status 1 inside Ok, which is a success.
Edit ==
    /\ phase = "edit"
    /\ \/ /\ edits
          /\ table' = update_config_json(table)
          /\ file' = update_existing_ini_file(file, table')
          /\ UNCHANGED clean
       \/ MayStall /\ edits /\ WriteFails
       \/ ~edits /\ UNCHANGED <<table, file, clean>>
    /\ phase' = "upload"
    /\ UNCHANGED <<desired, stored, disk, live, mon, monUp, up, planVars, faults>>

\* TxConfUpload sends the files that exist.
Upload ==
    /\ phase = "upload"
    /\ disk' = file
    /\ phase' = "restart"
    /\ UNCHANGED <<desired, table, stored, file, live, mon, monUp, up, planVars, faults, clean>>

\* Fault: the processes are not restarted.
RestartSkipped ==
    /\ phase = "restart"
    /\ phase' = "monstop"
    /\ UNCHANGED <<desired, table, stored, file, disk, live, mon, monUp, up, planVars, faults, clean>>

\* The rolling restart of ConfigRestart, followed by the gate of update-conf.
Restart ==
    /\ phase = "restart"
    /\ live' = disk
    /\ phase' = "monstop"
    /\ UNCHANGED <<desired, table, stored, file, disk, mon, monUp, up, planVars, faults, clean>>

\* The restart breaks off and leaves nodes down.
RestartFails ==
    /\ phase = "restart"
    /\ Fault
    /\ live' \in {live, disk}
    /\ up' = FALSE
    /\ phase' = "failed" /\ clean' = FALSE
    /\ UNCHANGED <<desired, table, stored, file, disk, mon, monUp, planVars>>

MonitorStop ==
    /\ phase = "monstop"
    /\ monUp' = (monUp /\ "monitor" \notin acts)
    /\ phase' = IF "monitor" \in acts THEN "monstart" ELSE "verify"
    /\ UNCHANGED <<desired, table, stored, file, disk, live, mon, up, planVars, faults, clean>>

\* The monitor is started from the configuration in the index.
MonitorStart ==
    /\ phase = "monstart"
    /\ mon' = stored["monitor"] /\ monUp' = TRUE
    /\ phase' = "verify"
    /\ UNCHANGED <<desired, table, stored, file, disk, live, up, planVars, faults, clean>>

\* The final look at the critical services.
Verify ==
    /\ phase = "verify"
    /\ phase' = "ok"
    /\ UNCHANGED <<desired, table, stored, file, disk, live, mon, monUp, up, planVars, faults, clean>>

\* A command or a check fails with nothing changed, or eloqctl is killed.
Interrupt ==
    /\ phase \notin Ready
    /\ Fault
    /\ phase' = "failed" /\ clean' = FALSE
    /\ UNCHANGED <<desired, table, stored, file, disk, live, mon, monUp, up, planVars>>

\* The operator runs `eloqctl start`; a started process reads the node's file.
Repair ==
    /\ phase = "failed" /\ ~up
    /\ up' = TRUE /\ live' = disk
    /\ UNCHANGED <<desired, table, stored, file, disk, mon, monUp, phase, planVars, faults, clean>>

Advance ==
    \/ Save \/ Regenerate \/ BuildConfigUpdate \/ Edit \/ Upload \/ Restart
    \/ MonitorStop \/ MonitorStart \/ Verify

Next == Plan \/ Advance \/ RestartFails \/ Interrupt \/ Repair

Spec == Init /\ [][Next]_vars

\* The run goes on, and the operator repairs and retries.
FairSpec == Spec /\ WF_vars(Plan) /\ WF_vars(Advance) /\ WF_vars(Repair)

(***************************************************************************)
(* Properties                                                              *)
(***************************************************************************)

\* Where nothing has failed, an apply that reports success has brought the tx
\* settings to the processes and the monitor settings to a running monitor, and
\* has enabled TLS where that was asked for (apply_topology).
OkMeansApplied ==
    clean /\ phase = "ok" =>
        /\ desired["tx"] # Unset => live["tx"] = desired["tx"]
        /\ desired["monitor"] # Unset => monUp /\ mon = desired["monitor"]
        /\ desired["tls"] = 1 => live["tls"] = 1

\* No node and no file is ever ahead of the index: a value the topology asks for
\* is in the index before it is anywhere else, whatever run wrote it and
\* wherever that run was killed (SaveClusterIndex before every other action).
IndexFirst ==
    \A f \in NodeFields \cap Optional :
        desired[f] # Unset /\ desired[f] \in {file[f], disk[f], live[f]} => stored[f] = desired[f]

\* "A retry must converge toward the requested state": with finitely many
\* failures and an operator who goes on retrying, the processes get the tx
\* settings in the end.
ApplyRetryConverges == desired["tx"] # Unset => <>[](live["tx"] = desired["tx"])
=============================================================================
