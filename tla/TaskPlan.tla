------------------------------ MODULE TaskPlan ------------------------------
(***************************************************************************)
(* How a plan of tasks is put together and cut into stages.  A command     *)
(* merges the contexts of its steps into one IndexMap of tasks and one     *)
(* list of stage lengths (merge_execution, append_step_context);           *)
(* split_task cuts the tasks at those lengths again.  An IndexMap keeps    *)
(* the place of a task id it already has, while the list of lengths grows  *)
(* all the same.  build_config_update fills both by hand.                  *)
(***************************************************************************)
EXTENDS Naturals, Sequences, FiniteSets

CONSTANTS Ids,       \* task ids
          MaxSteps,  \* bound on the stages merged
          MaxStage,  \* bound on the tasks of a stage
          Sources    \* how the plan is made: "merge", "config"

ASSUME PlanAssumption ==
    /\ MaxSteps \in Nat
    /\ MaxStage \in Nat \ {0}
    /\ Sources \subseteq {"merge", "config"}

VARIABLES
    source,  \* how this plan is made
    misfit,  \* history: a config update with fields, for all nodes, on a TLS cluster
    phase,   \* merge, split, run or panicked
    plan,    \* the stage lengths, the keys of the IndexMap and, as history, the
             \* stages that were asked for
    idx,     \* the next stage length split_task looks at
    end,     \* the end of the last slice
    stages   \* the slices made

planVars == <<source, misfit, phase, plan, idx, end, stages>>

Distinct(s) == \A i, j \in DOMAIN s : i # j => s[i] # s[j]

\* A step of one or two stages, with distinct ids inside the step.
Stages == {s \in UNION {[1..n -> Ids] : n \in 0..MaxStage} : Distinct(s)}
Steps == {<<s>> : s \in Stages \ {<<>>}}
         \cup {st \in Stages \X Stages : Distinct(st[1] \o st[2]) /\ st # <<<<>>, <<>>>>}

\* The i-th smallest element of a set of numbers.
Nth(S, i) == CHOOSE n \in S : Cardinality({m \in S : m <= n}) = i

\* IndexMap::extend: an id that is present keeps its place, the others follow.
Extend(map, tasks) ==
    LET new == {i \in DOMAIN tasks : \A k \in DOMAIN map : map[k] # tasks[i]}
    IN  map \o [i \in 1..Cardinality(new) |-> tasks[Nth(new, i)]]

NoPlan == [meant |-> <<>>, barrier |-> <<>>, executable |-> <<>>]

\* A stage goes into the plan, with the length recorded for it.
Add(pl, stage, n) ==
    [meant      |-> Append(pl.meant, stage),
     barrier    |-> Append(pl.barrier, n),
     executable |-> Extend(pl.executable, stage)]

\* Two of the stages that were asked for have a task id in common.
Shared(meant) ==
    \E k, l \in DOMAIN meant : k # l /\ \E i \in DOMAIN meant[k], j \in DOMAIN meant[l] :
        meant[k][i] = meant[l][j]

PlanInit ==
    /\ source \in Sources /\ misfit = FALSE
    /\ phase = "merge"
    /\ plan = NoPlan
    /\ idx = 1 /\ end = 0 /\ stages = <<>>

\* Fault: the length recorded is that of the whole map after the extension.
MergeTotal(step) ==
    /\ phase = "merge" /\ source = "merge"
    /\ LET added == Add(plan, step[1], Len(Extend(plan.executable, step[1])))
       IN  plan' = IF Len(step) = 1 THEN added ELSE Add(added, step[2], Len(step[2]))
    /\ UNCHANGED <<source, misfit, phase, idx, end, stages>>

\* merge_execution: a step without tasks adds nothing, not even its lengths; a
\* step of one stage comes without a list and adds its number of tasks.
Merge(step) ==
    /\ phase = "merge" /\ source = "merge"
    /\ LET added == Add(plan, step[1], Len(step[1]))
       IN  plan' = IF Len(step) = 1 THEN added ELSE Add(added, step[2], Len(step[2]))
    /\ UNCHANGED <<source, misfit, phase, idx, end, stages>>

\* build_config_update: mkdir tasks with TLS, a topology task when one node is
\* meant, the task that edits the configuration, and the uploads.  The length of
\* the edit stage for all nodes is the size of the map built so far.  The tasks
\* of the four kinds have different ids.
BuildConfigUpdate(mkdir, topo, edit, upload, fields, targeted, tls) ==
    LET dirs   == IF tls THEN Add(NoPlan, mkdir, Len(mkdir)) ELSE NoPlan
        asked  == IF targeted THEN Add(dirs, <<topo>>, 1) ELSE dirs
        length == IF targeted THEN 1 ELSE Len(Extend(asked.executable, <<edit>>))
        edited == IF fields THEN Add(asked, <<edit>>, length) ELSE asked
    IN  /\ phase = "merge" /\ source = "config"
        /\ fields \/ tls
        /\ plan = NoPlan
        /\ plan' = Add(edited, upload, Len(upload))
        /\ ~Shared(plan'.meant)
        /\ misfit' = (tls /\ fields /\ ~targeted /\ mkdir # <<>>)
        /\ UNCHANGED <<source, phase, idx, end, stages>>

StartSplit ==
    /\ phase = "merge" /\ plan # NoPlan
    /\ phase' = "split"
    /\ UNCHANGED <<source, misfit, plan, idx, end, stages>>

\* Fault: every slice begins where the first one did.
SliceFromStart ==
    /\ phase = "split" /\ idx <= Len(plan.barrier)
    /\ IF end + plan.barrier[idx] > Len(plan.executable)
       THEN phase' = "panicked" /\ UNCHANGED <<idx, end, stages>>
       ELSE /\ stages' = Append(stages, SubSeq(plan.executable, 1, plan.barrier[idx]))
            /\ end' = end + plan.barrier[idx]
            /\ idx' = idx + 1
            /\ UNCHANGED phase
    /\ UNCHANGED <<source, misfit, plan>>

\* One turn of split_task; tasks[begin..end] panics past the end of the tasks.
Slice ==
    /\ phase = "split" /\ idx <= Len(plan.barrier)
    /\ IF end + plan.barrier[idx] > Len(plan.executable)
       THEN phase' = "panicked" /\ UNCHANGED <<idx, end, stages>>
       ELSE /\ stages' = Append(stages, SubSeq(plan.executable, end + 1, end + plan.barrier[idx]))
            /\ end' = end + plan.barrier[idx]
            /\ idx' = idx + 1
            /\ UNCHANGED phase
    /\ UNCHANGED <<source, misfit, plan>>

\* The stages go to run_all_tasks.
Run ==
    /\ phase = "split" /\ idx > Len(plan.barrier)
    /\ phase' = "run"
    /\ UNCHANGED <<source, misfit, plan, idx, end, stages>>

PlanEnded == phase \in {"run", "panicked"} /\ UNCHANGED planVars

\* The bound counts merged stages, of which a step has one or two.
PlanNext ==
    \/ Len(plan.meant) < MaxSteps /\ \E step \in Steps : Merge(step)
    \/ \E mkdir, upload \in Stages, topo, edit \in Ids, fields, targeted, tls \in BOOLEAN :
            BuildConfigUpdate(mkdir, topo, edit, upload, fields, targeted, tls)
    \/ StartSplit \/ Slice \/ Run \/ PlanEnded

PlanSpec == PlanInit /\ [][PlanNext]_planVars

(***************************************************************************)
(* Properties                                                              *)
(***************************************************************************)

\* A plan that reaches run_all_tasks has exactly the stages its steps asked
\* for, in their order: nothing is dropped, repeated or moved to another stage
\* (merge_execution followed by split_task).
StagesAsMeant == phase = "run" => stages = plan.meant

\* Cutting the plan panics in two cases and in no other: two steps brought the
\* same task id (merge_execution warns and goes on), or build_config_update
\* recorded the length of the whole map for the edit stage of a TLS cluster.
PanicMeansMisfit == phase = "panicked" => misfit \/ Shared(plan.meant)
=============================================================================
