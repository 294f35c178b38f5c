---------------------------- MODULE ApplyProofs ----------------------------
(* What `eloqctl apply` promises, for every set of fields the topology may   *)
(* change and any number of failed and killed runs.                          *)
EXTENDS Apply, TLAPS

(***************************************************************************)
(* The inductive invariant                                                 *)
(***************************************************************************)

\* The phases behind SaveClusterIndex, up to the end of the run.
Saved == {"regenerate", "conf", "edit", "upload", "restart", "monstop", "monstart", "verify"}

\* The plan of a run is the one its index and topology call for until it is
\* saved, and afterwards the index is the merged configuration.
PlanInv ==
    /\ phase = "save" => merged = Merged /\ edits = Differs("tx") /\ acts = PlanActions
    /\ phase \in Saved => stored = merged

\* Once the index is saved it has every optional field the topology gives.
StoredInv ==
    phase \in Saved \cup {"ok"} =>
        \A f \in Optional : desired[f] # Unset => stored[f] = desired[f]

\* A value that is not yet in the index is in none of the places behind it.
BehindInv ==
    \A f \in NodeFields \cap Optional :
        desired[f] # Unset /\ stored[f] # desired[f] =>
            desired[f] \notin {table[f], file[f], disk[f], live[f]}

\* How far the tx settings have come in a run where nothing has failed.
TxInv ==
    clean =>
        /\ phase = "failed" => FALSE
        /\ phase \in Ready \cup {"save", "monstop", "monstart", "verify"} =>
               {table["tx"], file["tx"], disk["tx"], live["tx"]} = {stored["tx"]}
        /\ phase \in {"regenerate", "conf", "edit"} /\ ~edits =>
               {table["tx"], file["tx"], disk["tx"], live["tx"]} = {stored["tx"]}
        /\ phase = "upload" => {table["tx"], file["tx"]} = {stored["tx"]}
        /\ phase = "restart" => {table["tx"], file["tx"], disk["tx"]} = {stored["tx"]}

\* How far an enabled TLS has come.
TlsInv ==
    clean /\ stored["tls"] = 1 =>
        /\ phase \in {"conf", "edit", "upload", "restart"} => file["tls"] = 1
        /\ phase = "edit" => ~edits
        /\ phase = "restart" => disk["tls"] = 1
        /\ phase \in Ready \cup {"save", "monstop", "monstart", "verify"} =>
               {file["tls"], disk["tls"], live["tls"]} = {1}
        /\ phase = "regenerate" /\ "regenerate" \notin acts =>
               {file["tls"], disk["tls"], live["tls"]} = {1}

\* Where the plan leaves the restart or the monitor out there is nothing to do
\* for them.
ActsInv ==
    /\ phase = "regenerate" /\ "restart" \notin acts => ~edits /\ "regenerate" \notin acts
    /\ clean /\ phase \notin {"monstart"} /\ (phase \in Saved \ {"verify"} => "monitor" \notin acts) =>
           monUp /\ mon = stored["monitor"]

ApplyInv ==
    /\ TypeOK /\ PlanInv /\ StoredInv /\ BehindInv
    /\ TxInv /\ TlsInv /\ ActsInv

(***************************************************************************)
(* Proofs                                                                  *)
(***************************************************************************)

\* A cluster that runs what its index says satisfies the invariant.
LEMMA ApplyInit == Init => ApplyInv
<1> SUFFICES ASSUME Init PROVE ApplyInv
    OBVIOUS
<1> USE ApplyAssumption DEF Optional, Fields, NodeFields, Values, Ready, Saved, Actions
<1>1. stored \in [Fields -> Values] /\ desired \in [Fields -> Values \cup {Unset}]
    BY DEF Init
<1>2. file \in [NodeFields -> Values]
    BY <1>1 DEF Init
<1>3. TypeOK
  <2>1. faults \in 0..MaxFaults
      BY DEF Init
  <2>2. mon \in Values /\ merged \in [Fields -> Values]
      BY <1>1 DEF Init
  <2>3. \A f \in Fields \ Optional : desired[f] # Unset
      BY DEF Init
  <2>4. /\ monUp \in BOOLEAN /\ up \in BOOLEAN /\ edits \in BOOLEAN /\ clean \in BOOLEAN
        /\ phase = "idle" /\ acts \in SUBSET Actions
      BY DEF Init
  <2>5. /\ table \in [NodeFields -> Values] /\ disk \in [NodeFields -> Values]
        /\ live \in [NodeFields -> Values]
      BY <1>2 DEF Init
  <2> HIDE DEF Optional, Fields, NodeFields, Values, Actions
  <2> QED
      BY <1>1, <1>2, <2>1, <2>2, <2>3, <2>4, <2>5 DEF TypeOK
<1>4. PlanInv /\ StoredInv
    BY DEF Init, PlanInv, StoredInv
<1>5. BehindInv
    BY DEF Init, BehindInv
<1>6. TxInv /\ TlsInv /\ ActsInv
    BY DEF Init, TxInv, TlsInv, ActsInv
<1> QED
    BY <1>3, <1>4, <1>5, <1>6 DEF ApplyInv

\* The merged configuration is the index with what the topology asks for.
LEMMA MergedType ==
    ASSUME TypeOK
    PROVE  /\ Merged \in [Fields -> Values]
           /\ PlanActions \in SUBSET Actions
           /\ Differs("tx") \in BOOLEAN
BY ApplyAssumption DEF TypeOK, Merged, PlanActions, Differs, Optional, Fields, Values, Actions

\* build_reconcile_plan: an empty plan means that the index has every optional
\* field the topology gives.
LEMMA EmptyPlan ==
    ASSUME TypeOK, PlanActions = {}, NEW f \in Optional, desired[f] # Unset
    PROVE  stored[f] = desired[f]
BY DEF TypeOK, PlanActions, Differs, Optional, Fields

\* The plan is made: it is the one index and topology call for.
LEMMA PlanKeeps == ASSUME ApplyInv, Plan PROVE ApplyInv'
<1> USE ApplyAssumption DEF ApplyInv
<1>1. TypeOK'
    BY MergedType DEF Plan, TypeOK, Ready
<1>2. PlanInv'
    BY DEF Plan, PlanInv, Merged, PlanActions, Differs, Saved
<1>3. StoredInv'
    BY EmptyPlan DEF Plan, StoredInv, Saved, Optional
<1>4. BehindInv'
    BY DEF Plan, BehindInv
<1>5. TxInv' /\ TlsInv' /\ ActsInv'
    BY DEF Plan, TxInv, TlsInv, ActsInv, Ready, Saved
<1> QED
    BY <1>1, <1>2, <1>3, <1>4, <1>5

\* The index is saved: from here on nothing the topology asks for is missing in
\* it, and the plan tells what is missing behind it.
LEMMA SaveKeeps == ASSUME ApplyInv, Save PROVE ApplyInv'
<1> USE ApplyAssumption DEF ApplyInv, Optional, Fields, NodeFields
<1>1. phase = "save" /\ merged = Merged /\ edits = Differs("tx") /\ acts = PlanActions
    BY DEF Save, PlanInv
<1>2. /\ stored' = merged /\ phase' = "regenerate"
      /\ UNCHANGED <<desired, table, file, disk, live, mon, monUp, up, merged, edits, acts, faults, clean>>
    BY DEF Save, planVars
<1>3. TypeOK'
    BY <1>2 DEF TypeOK
<1>4. PlanInv'
    BY <1>2 DEF PlanInv
<1>5. \A f \in Optional : desired[f] # Unset => stored'[f] = desired[f]
    BY <1>1, <1>2 DEF Merged, Differs
<1>6. StoredInv' /\ BehindInv'
    BY <1>2, <1>5 DEF StoredInv, BehindInv
<1>7. \A f \in Optional : ~Differs(f) => stored'[f] = stored[f]
    BY <1>1, <1>2 DEF Merged
<1>8. TxInv'
    BY <1>1, <1>2, <1>7 DEF TxInv, Ready
<1>9. "regenerate" \notin acts => ~Differs("tls")
    BY <1>1 DEF PlanActions
<1>10. TlsInv'
    BY <1>1, <1>2, <1>7, <1>9 DEF TlsInv, Ready
<1>11. /\ "restart" \notin acts => ~edits /\ "regenerate" \notin acts
       /\ "monitor" \notin acts => ~Differs("monitor")
    BY <1>1 DEF PlanActions
<1>12. ActsInv'
    BY <1>1, <1>2, <1>7, <1>11 DEF ActsInv, Saved
<1> QED
    BY <1>3, <1>4, <1>6, <1>8, <1>10, <1>12

\* The node files are generated anew from what is in the index by now.
LEMMA RegenerateKeeps == ASSUME ApplyInv, Regenerate PROVE ApplyInv'
<1> USE ApplyAssumption DEF ApplyInv, Optional, Fields, NodeFields
<1>1. phase = "regenerate" /\ stored = merged
    BY DEF Regenerate, PlanInv, Saved
<1>2. UNCHANGED <<desired, table, stored, disk, live, mon, monUp, up, merged, edits, acts, faults, clean>>
    BY DEF Regenerate, planVars
<1>3. phase' = IF "restart" \in acts THEN "conf" ELSE "monstop"
    BY DEF Regenerate
<1>4. /\ "regenerate" \notin acts => file' = file
      /\ "regenerate" \in acts => file' = [f \in NodeFields |-> stored[f]]
    BY <1>1 DEF Regenerate
<1>5. TypeOK'
    BY <1>2, <1>3, <1>4 DEF TypeOK
<1>6. PlanInv' /\ StoredInv'
    BY <1>1, <1>2, <1>3 DEF PlanInv, StoredInv, Saved
<1>7. BehindInv'
    BY <1>1, <1>2, <1>4 DEF BehindInv
<1>8. TxInv'
    BY <1>1, <1>2, <1>3, <1>4 DEF TxInv, ActsInv, Ready
<1>9. TlsInv'
    BY <1>1, <1>2, <1>3, <1>4 DEF TlsInv, ActsInv, Ready
<1>10. ActsInv'
    BY <1>1, <1>2, <1>3 DEF ActsInv, Saved
<1> QED
    BY <1>5, <1>6, <1>7, <1>8, <1>9, <1>10

\* A row of the topology table is written into the file as it stands: it has
\* the tx settings of the index by then.
LEMMA EditKeeps == ASSUME ApplyInv, Edit PROVE ApplyInv'
<1> USE ApplyAssumption DEF ApplyInv, Optional, Fields, NodeFields
<1> DEFINE row == [table EXCEPT !["tx"] = merged["tx"]]
<1>1. phase = "edit" /\ stored = merged /\ phase' = "upload"
    BY DEF Edit, PlanInv, Saved
<1>2. UNCHANGED <<desired, stored, disk, live, mon, monUp, up, merged, edits, acts, faults>>
    BY DEF Edit, planVars
<1>3. row \in [NodeFields -> Values] /\ row["tx"] = stored["tx"] /\ row["tls"] = table["tls"]
    BY <1>1 DEF TypeOK
<1>4. /\ table' \in {table, row}
      /\ file' = file \/ file' = update_existing_ini_file(file, row)
      /\ clean' => clean /\ (edits => table' = row /\ file' = update_existing_ini_file(file, row))
                         /\ (~edits => UNCHANGED <<table, file>>)
    BY DEF Edit, WriteFails, update_config_json
<1> HIDE DEF row
<1>5. /\ update_existing_ini_file(file, row) \in [NodeFields -> Values]
      /\ update_existing_ini_file(file, row)["tx"] = stored["tx"]
      /\ update_existing_ini_file(file, row)["tls"] \in {file["tls"], table["tls"]}
    BY <1>3 DEF update_existing_ini_file, TypeOK
<1>6. TypeOK'
    BY <1>1, <1>2, <1>3, <1>4, <1>5 DEF TypeOK, Edit, WriteFails
<1>7. PlanInv' /\ StoredInv'
    BY <1>1, <1>2 DEF PlanInv, StoredInv, Saved
<1>8. BehindInv'
    BY <1>1, <1>2, <1>3, <1>4, <1>5 DEF BehindInv, StoredInv, Saved
<1>9. TxInv'
    BY <1>1, <1>2, <1>3, <1>4, <1>5 DEF TxInv, Ready
<1>10. TlsInv'
    BY <1>1, <1>2, <1>4 DEF TlsInv, Ready
<1>11. ActsInv'
    BY <1>1, <1>2, <1>4 DEF ActsInv, Saved
<1> QED
    BY <1>6, <1>7, <1>8, <1>9, <1>10, <1>11

\* Every step keeps the invariant.
LEMMA ApplyStep == ApplyInv /\ [Next]_vars => ApplyInv'
<1> SUFFICES ASSUME ApplyInv, [Next]_vars PROVE ApplyInv'
    OBVIOUS
<1> USE ApplyAssumption DEF ApplyInv, Optional, Fields, NodeFields, Ready, Saved
<1>1. CASE Plan
    BY <1>1, PlanKeeps
<1>2. CASE Save
    BY <1>2, SaveKeeps
<1>3. CASE Regenerate
    BY <1>3, RegenerateKeeps
<1>4. CASE BuildConfigUpdate
  <2>1. TypeOK' /\ PlanInv' /\ StoredInv' /\ BehindInv'
      BY <1>4 DEF BuildConfigUpdate, planVars, TypeOK, PlanInv, StoredInv, BehindInv
  <2>2. TxInv' /\ TlsInv' /\ ActsInv'
      BY <1>4 DEF BuildConfigUpdate, planVars, TypeOK, TxInv, TlsInv, ActsInv
  <2> QED
      BY <2>1, <2>2
<1>5. CASE Edit
    BY <1>5, EditKeeps
<1>6. CASE Upload
  <2>1. TypeOK' /\ PlanInv' /\ StoredInv' /\ BehindInv'
      BY <1>6 DEF Upload, planVars, TypeOK, PlanInv, StoredInv, BehindInv
  <2>2. TxInv' /\ TlsInv' /\ ActsInv'
      BY <1>6 DEF Upload, planVars, TxInv, TlsInv, ActsInv
  <2> QED
      BY <2>1, <2>2
<1>7. CASE Restart
  <2>1. TypeOK' /\ PlanInv' /\ StoredInv' /\ BehindInv'
      BY <1>7 DEF Restart, planVars, TypeOK, PlanInv, StoredInv, BehindInv
  <2>2. TxInv' /\ TlsInv' /\ ActsInv'
      BY <1>7 DEF Restart, planVars, TxInv, TlsInv, ActsInv
  <2> QED
      BY <2>1, <2>2
<1>8. CASE MonitorStop
  <2>1. TypeOK' /\ PlanInv' /\ StoredInv' /\ BehindInv'
      BY <1>8 DEF MonitorStop, planVars, TypeOK, PlanInv, StoredInv, BehindInv
  <2>2. TxInv' /\ TlsInv' /\ ActsInv'
      BY <1>8 DEF MonitorStop, planVars, TxInv, TlsInv, ActsInv
  <2> QED
      BY <2>1, <2>2
<1>9. CASE MonitorStart
  <2>1. mon' \in Values
      BY <1>9 DEF MonitorStart, TypeOK
  <2>2. TypeOK'
      BY <1>9, <2>1 DEF MonitorStart, planVars, TypeOK
  <2>3. PlanInv' /\ StoredInv' /\ BehindInv'
      BY <1>9 DEF MonitorStart, planVars, PlanInv, StoredInv, BehindInv
  <2>4. TxInv' /\ TlsInv' /\ ActsInv'
      BY <1>9 DEF MonitorStart, planVars, TxInv, TlsInv, ActsInv
  <2> QED
      BY <2>2, <2>3, <2>4
<1>10. CASE Verify
  <2>1. TypeOK' /\ PlanInv' /\ StoredInv' /\ BehindInv'
      BY <1>10 DEF Verify, planVars, TypeOK, PlanInv, StoredInv, BehindInv
  <2>2. TxInv' /\ TlsInv' /\ ActsInv'
      BY <1>10 DEF Verify, planVars, TxInv, TlsInv, ActsInv
  <2> QED
      BY <2>1, <2>2
<1>11. CASE RestartFails \/ Interrupt
  <2>1. faults' \in 0..MaxFaults
      BY <1>11 DEF RestartFails, Interrupt, Fault, TypeOK
  <2>2. TypeOK' /\ BehindInv'
      BY <1>11, <2>1 DEF RestartFails, Interrupt, planVars, TypeOK, BehindInv
  <2>3. PlanInv' /\ StoredInv' /\ TxInv' /\ TlsInv' /\ ActsInv'
      BY <1>11 DEF RestartFails, Interrupt, PlanInv, StoredInv, TxInv, TlsInv, ActsInv
  <2> QED
      BY <2>2, <2>3
<1>12. CASE Repair
  <2>1. ~clean'
      BY <1>12 DEF Repair, TxInv
  <2>2. TypeOK' /\ BehindInv'
      BY <1>12 DEF Repair, planVars, TypeOK, BehindInv
  <2>3. PlanInv' /\ StoredInv' /\ TxInv' /\ TlsInv' /\ ActsInv'
      BY <1>12, <2>1 DEF Repair, PlanInv, StoredInv, TxInv, TlsInv, ActsInv
  <2> QED
      BY <2>2, <2>3
<1>13. CASE UNCHANGED vars
  <2>1. TypeOK' /\ PlanInv'
      BY <1>13 DEF vars, planVars, TypeOK, PlanInv, Merged, PlanActions, Differs
  <2>2. StoredInv' /\ BehindInv' /\ TxInv' /\ TlsInv' /\ ActsInv'
      BY <1>13 DEF vars, planVars, StoredInv, BehindInv, TxInv, TlsInv, ActsInv
  <2> QED
      BY <2>1, <2>2
<1> QED
    BY <1>1, <1>2, <1>3, <1>4, <1>5, <1>6, <1>7, <1>8, <1>9, <1>10, <1>11, <1>12, <1>13
    DEF Next, Advance

\* The inductive invariant holds in every reachable state of any sequence of
\* runs, failed ones included.
THEOREM ApplyInvariant == Spec => []ApplyInv
<1> QED
    BY ApplyInit, ApplyStep, PTL DEF Spec

\* An apply that reports success where nothing has failed has brought the
\* settings to the processes and the monitor (apply_topology).
THEOREM AppliedWhenOk == Spec => []OkMeansApplied
<1>1. ApplyInv => OkMeansApplied
    BY ApplyAssumption
    DEF ApplyInv, StoredInv, TxInv, TlsInv, ActsInv, OkMeansApplied, Ready, Saved, Optional, Values
<1> QED
    BY <1>1, ApplyInvariant, PTL

\* No node and no file is ahead of the index, wherever runs are killed
\* (SaveClusterIndex before every other action).
THEOREM IndexIsFirst == Spec => []IndexFirst
<1>1. ApplyInv => IndexFirst
    BY DEF ApplyInv, BehindInv, IndexFirst
<1> QED
    BY <1>1, ApplyInvariant, PTL
=============================================================================
