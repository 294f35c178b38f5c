----------------------------- MODULE TaskProofs -----------------------------
(***************************************************************************)
(* The tasks of a plan: the stages of a run, for every plan, channel       *)
(* capacity and caller (TaskController), and the archives that the         *)
(* download tasks of several invocations put in one place (Staging), for   *)
(* every number of invocations, versions, attempts and faults.             *)
(***************************************************************************)
EXTENDS TaskController, Staging, SequenceTheorems, TLAPS

(***************************************************************************)
(* The stages of a run                                                     *)
(***************************************************************************)

\* The initial states satisfy the inductive invariant (run_all_tasks).
LEMMA ControllerInit == Init => ControllerInv
<1> SUFFICES ASSUME Init PROVE ControllerInv
  OBVIOUS
<1>1. TypeOK
  BY ControllerAssumption DEF Init, TypeOK
<1>2. StageInv
  BY ControllerAssumption DEF Init, StageInv, Joined, Failed
<1>3. ResultInv
  BY DEF Init, ResultInv
<1>4. ChanInv
  BY DEF Init, ChanInv
<1> QED BY <1>1, <1>2, <1>3, <1>4 DEF ControllerInv

\* Every step keeps the types and the capacity of the channel.
LEMMA TypeStep == TypeOK /\ StageInv /\ [Next]_vars => TypeOK'
<1> SUFFICES ASSUME TypeOK, StageInv, [Next]_vars PROVE TypeOK'
  OBVIOUS
<1> USE ControllerAssumption DEF TypeOK
<1>1. CASE LaunchStage
  BY <1>1 DEF LaunchStage
<1>2. CASE JoinStage
  <2>1. stage <= Last
    BY <1>2 DEF JoinStage, StageInv
  <2> QED BY <1>2, <2>1 DEF JoinStage
<1>3. CASE Finish
  BY <1>3 DEF Finish
<1>4. ASSUME NEW t \in Tasks, TaskStep(t) PROVE TypeOK'
  <2>1. CASE Execute(t)
    BY <2>1 DEF Execute
  <2>2. CASE SaveStatus(t)
    BY <2>2 DEF SaveStatus
  <2>3. CASE Panic(t)
    BY <2>3 DEF Panic
  <2>4. CASE Send(t)
    BY <2>4 DEF Send
  <2> QED BY <1>4, <2>1, <2>2, <2>3, <2>4 DEF TaskStep
<1>5. CASE StartDrain
  BY <1>5 DEF StartDrain
<1>6. CASE Receive
  BY <1>6 DEF Receive
<1>7. CASE CallerEnds
  BY <1>7 DEF CallerEnds
<1>8. CASE UNCHANGED vars
  BY <1>8 DEF vars
<1> QED BY <1>1, <1>2, <1>3, <1>4, <1>5, <1>6, <1>7, <1>8 DEF Next

\* Every step keeps the order of the stages.
LEMMA StageStep == TypeOK /\ StageInv /\ [Next]_vars => StageInv'
<1> SUFFICES ASSUME TypeOK, StageInv, [Next]_vars PROVE StageInv'
  OBVIOUS
<1> USE ControllerAssumption DEF StageInv, Joined, Failed, ErrBrk
<1>1. CASE LaunchStage
  BY <1>1 DEF LaunchStage, TypeOK
<1>2. CASE JoinStage
  <2>1. \A t \in Tasks : StageOf[t] = stage => ts[t] \in {"sent", "panicked"}
    BY <1>2 DEF JoinStage, Stage
  <2>2. CASE ErrBrk /\ \E t \in Stage(stage) : Failed(t)
    <3>1. ctl = "join" /\ ctl' = "bailed" /\ UNCHANGED <<call, stage, ts, outcome>>
      BY <1>2, <2>2 DEF JoinStage
    <3> QED BY <2>1, <3>1
  <2>3. CASE ~(ErrBrk /\ \E t \in Stage(stage) : Failed(t))
    <3>1. \A t \in Tasks : StageOf[t] \in Nat /\ (StageOf[t] < stage + 1 <=> StageOf[t] < stage \/ StageOf[t] = stage)
      BY DEF TypeOK
    <3>2. ErrBrk => \A t \in Tasks : StageOf[t] = stage => ~Failed(t)
      BY <2>3 DEF Stage
    <3> QED BY <1>2, <2>1, <2>3, <3>1, <3>2 DEF JoinStage, TypeOK
  <2> QED BY <2>2, <2>3
<1>3. CASE Finish
  BY <1>3 DEF Finish, TypeOK
<1>4. ASSUME NEW t \in Tasks, TaskStep(t) PROVE StageInv'
  <2>1. CASE Execute(t)
    BY <2>1 DEF Execute, TypeOK
  <2>2. CASE SaveStatus(t)
    BY <2>2 DEF SaveStatus, TypeOK
  <2>3. CASE Panic(t)
    BY <2>3 DEF Panic, TypeOK
  <2>4. CASE Send(t)
    BY <2>4 DEF Send, TypeOK
  <2> QED BY <1>4, <2>1, <2>2, <2>3, <2>4 DEF TaskStep
<1>5. CASE StartDrain
  BY <1>5 DEF StartDrain
<1>6. CASE Receive
  BY <1>6 DEF Receive
<1>7. CASE CallerEnds
  BY <1>7 DEF CallerEnds
<1>8. CASE UNCHANGED vars
  BY <1>8 DEF vars
<1> QED BY <1>1, <1>2, <1>3, <1>4, <1>5, <1>6, <1>7, <1>8 DEF Next

\* Every step keeps the agreement of result, status row and place in the task.
LEMMA ResultStep == TypeOK /\ StageInv /\ ResultInv /\ [Next]_vars => ResultInv'
<1> SUFFICES ASSUME TypeOK, StageInv, ResultInv, [Next]_vars PROVE ResultInv'
  OBVIOUS
<1> USE DEF ResultInv
<1>1. CASE LaunchStage
  BY <1>1 DEF LaunchStage
<1>2. CASE JoinStage
  BY <1>2 DEF JoinStage
<1>3. CASE Finish
  BY <1>3 DEF Finish
<1>4. ASSUME NEW t \in Tasks, TaskStep(t) PROVE ResultInv'
  <2>1. CASE Execute(t)
    BY <2>1 DEF Execute, TypeOK
  <2>2. CASE SaveStatus(t)
    BY <2>2 DEF SaveStatus, TypeOK
  <2>3. CASE Panic(t)
    BY <2>3 DEF Panic, TypeOK
  <2>4. CASE Send(t)
    BY <2>4 DEF Send, TypeOK
  <2> QED BY <1>4, <2>1, <2>2, <2>3, <2>4 DEF TaskStep
<1>5. CASE StartDrain
  BY <1>5 DEF StartDrain
<1>6. CASE Receive
  BY <1>6 DEF Receive
<1>7. CASE CallerEnds
  BY <1>7 DEF CallerEnds
<1>8. CASE UNCHANGED vars
  BY <1>8 DEF vars
<1> QED BY <1>1, <1>2, <1>3, <1>4, <1>5, <1>6, <1>7, <1>8 DEF Next

\* Every step keeps the channel's account of the results.
LEMMA ChanStep == TypeOK /\ StageInv /\ ChanInv /\ [Next]_vars => ChanInv'
<1> SUFFICES ASSUME TypeOK, StageInv, ChanInv, [Next]_vars PROVE ChanInv'
  OBVIOUS
<1> USE ControllerAssumption DEF ChanInv
<1>1. CASE LaunchStage
  <2>1. \A t \in Tasks : ts'[t] = "sent" <=> ts[t] = "sent"
    BY <1>1 DEF LaunchStage, TypeOK, StageInv
  <2> QED BY <1>1, <2>1 DEF LaunchStage, TypeOK
<1>2. CASE JoinStage
  BY <1>2 DEF JoinStage
<1>3. CASE Finish
  BY <1>3 DEF Finish, TypeOK
<1>4. ASSUME NEW t \in Tasks, TaskStep(t) PROVE ChanInv'
  <2>1. CASE Execute(t)
    BY <2>1 DEF Execute, TypeOK
  <2>2. CASE SaveStatus(t)
    BY <2>2 DEF SaveStatus, TypeOK
  <2>3. CASE Panic(t)
    BY <2>3 DEF Panic, TypeOK
  <2>4. CASE Send(t)
    <3>1. ctl \notin {"returned", "ok"}
      <4>1. ts[t] = "sending" /\ StageOf[t] \in 1..Last /\ Last \in Nat
        BY <2>4 DEF Send
      <4>2. ~Joined(t)
        BY <4>1 DEF Joined
      <4>3. stage = Last + 1 => StageOf[t] < stage
        BY <4>1
      <4> QED BY <4>2, <4>3 DEF StageInv
    <3>2. Len(chan') = Len(chan) + 1 /\ chan'[Len(chan) + 1] = t
            /\ \A i \in 1..Len(chan) : chan'[i] = chan[i]
      BY <2>4 DEF Send, TypeOK
    <3>3. \A s \in Tasks : s # t => (ts'[s] = "sent" <=> ts[s] = "sent")
      BY <2>4 DEF Send, TypeOK
    <3>4. ts'[t] = "sent" /\ UNCHANGED <<ctl, recv, got>>
      BY <2>4 DEF Send, TypeOK
    <3>5. Len(chan) \in Nat
      BY DEF TypeOK
    <3>6. \A s \in Tasks : ts'[s] = "sent" <=> (s \in got' \/ \E i \in 1..Len(chan') : chan'[i] = s)
      <4> SUFFICES ASSUME NEW s \in Tasks
                   PROVE ts'[s] = "sent" <=> (s \in got' \/ \E i \in 1..Len(chan') : chan'[i] = s)
        OBVIOUS
      <4>1. CASE s = t
        <5>1. Len(chan) + 1 \in 1..Len(chan')
          BY <3>2, <3>5
        <5> QED BY <3>2, <3>4, <4>1, <5>1
      <4>2. CASE s # t
        <5>1. (\E i \in 1..Len(chan) : chan[i] = s) <=> (\E i \in 1..Len(chan') : chan'[i] = s)
          <6>1. ASSUME NEW i \in 1..Len(chan), chan[i] = s PROVE i \in 1..Len(chan') /\ chan'[i] = s
            BY <3>2, <3>5, <6>1
          <6>2. ASSUME NEW i \in 1..Len(chan'), chan'[i] = s PROVE i \in 1..Len(chan) /\ chan[i] = s
            BY <3>2, <3>5, <4>2, <6>2
          <6> QED BY <6>1, <6>2
        <5>2. ts[s] = "sent" <=> (s \in got \/ \E i \in 1..Len(chan) : chan[i] = s)
          OBVIOUS
        <5> QED BY <3>3, <3>4, <4>2, <5>1, <5>2
      <4> QED BY <4>1, <4>2
    <3>7. \A i \in 1..Len(chan') : chan'[i] # FINISH
      BY <3>1, <3>2, <3>5
    <3> QED BY <3>1, <3>4, <3>6, <3>7
  <2> QED BY <1>4, <2>1, <2>2, <2>3, <2>4 DEF TaskStep
<1>5. CASE StartDrain
  BY <1>5 DEF StartDrain
<1>6. CASE Receive
  <2>1. Len(chan) \in Nat \ {0} /\ Len(chan') = Len(chan) - 1
          /\ Head(chan) = chan[1] /\ \A i \in 1..Len(chan') : chan'[i] = chan[i + 1]
    BY <1>6 DEF Receive, TypeOK
  <2>2. recv = "reading" /\ UNCHANGED <<ctl, ts>>
    BY <1>6 DEF Receive
  <2>3. CASE Head(chan) = FINISH
    <3>1. recv' = "ended" /\ got' = got
      BY <1>6, <2>3 DEF Receive
    <3>2. ctl \in {"returned", "ok"} /\ Len(chan) = 1
      BY <2>1, <2>2, <2>3 DEF TypeOK
    <3>3. chan' = <<>>
      BY <1>6, <2>1, <3>2 DEF Receive, TypeOK
    <3>4. \A i \in 1..Len(chan) : chan[i] \notin Tasks
      BY <2>1, <2>3, <3>2
    <3> QED BY <2>2, <3>1, <3>2, <3>3, <3>4
  <2>4. CASE Head(chan) # FINISH
    <3>1. recv' = "reading" /\ got' = got \cup {Head(chan)}
      BY <1>6, <2>2, <2>4 DEF Receive
    <3>2. ctl \notin {"returned", "ok"} => \A i \in 1..Len(chan') : chan'[i] # FINISH
      BY <2>1
    <3>3. ASSUME ctl \in {"returned", "ok"}
          PROVE /\ Len(chan') > 0
                /\ chan'[Len(chan')] = FINISH
                /\ \A i \in 1..(Len(chan') - 1) : chan'[i] # FINISH
      <4>1. chan[Len(chan)] = FINISH /\ \A i \in 1..(Len(chan) - 1) : chan[i] # FINISH
        BY <2>2, <3>3
      <4>2. Len(chan) > 1
        BY <2>1, <2>4, <4>1
      <4> QED BY <2>1, <4>1, <4>2
    <3>4. \A t \in Tasks :
            (\E i \in 1..Len(chan) : chan[i] = t)
              <=> (t = chan[1] \/ \E i \in 1..Len(chan') : chan'[i] = t)
      <4> SUFFICES ASSUME NEW t \in Tasks
                   PROVE (\E i \in 1..Len(chan) : chan[i] = t)
                           <=> (t = chan[1] \/ \E i \in 1..Len(chan') : chan'[i] = t)
        OBVIOUS
      <4>1. ASSUME NEW i \in 1..Len(chan), chan[i] = t
            PROVE t = chan[1] \/ \E j \in 1..Len(chan') : chan'[j] = t
        <5>1. CASE i = 1
          BY <4>1, <5>1
        <5>2. CASE i # 1
          <6>1. i - 1 \in 1..Len(chan') /\ (i - 1) + 1 = i
            BY <2>1, <5>2
          <6>2. chan'[i - 1] = t
            BY <2>1, <4>1, <6>1
          <6> QED BY <6>1, <6>2
        <5> QED BY <5>1, <5>2
      <4>2. ASSUME NEW i \in 1..Len(chan'), chan'[i] = t
            PROVE \E j \in 1..Len(chan) : chan[j] = t
        <5>1. i + 1 \in 1..Len(chan)
          BY <2>1
        <5> QED BY <2>1, <4>2, <5>1
      <4>3. t = chan[1] => \E j \in 1..Len(chan) : chan[j] = t
        BY <2>1
      <4> QED BY <4>1, <4>2, <4>3
    <3> QED BY <2>1, <2>2, <3>1, <3>2, <3>3, <3>4
  <2> QED BY <2>3, <2>4
<1>7. CASE CallerEnds
  BY <1>7 DEF CallerEnds
<1>8. CASE UNCHANGED vars
  BY <1>8 DEF vars
<1> QED BY <1>1, <1>2, <1>3, <1>4, <1>5, <1>6, <1>7, <1>8 DEF Next

\* Whatever the plan, the caller and the capacity, a run keeps the inductive
\* invariant (run_all_tasks with its reader).
THEOREM ControllerInvariant == Spec => []ControllerInv
<1>1. ControllerInv /\ [Next]_vars => ControllerInv'
  BY TypeStep, StageStep, ResultStep, ChanStep DEF ControllerInv
<1> QED BY ControllerInit, <1>1, PTL DEF Spec

\* The types hold in every run; the channel never exceeds its capacity.
THEOREM ControllerTyping == Spec => []TypeOK
<1>1. ControllerInv => TypeOK
  BY DEF ControllerInv
<1> QED BY ControllerInvariant, <1>1, PTL

\* No task starts before every task of the earlier stages is joined.
THEOREM Barrier == Spec => []BarrierRespected
<1>1. ControllerInv => BarrierRespected
  <2> SUFFICES ASSUME ControllerInv, NEW s \in Tasks, NEW t \in Tasks,
                      StageOf[s] < StageOf[t], ts[t] # "new"
               PROVE Joined(s)
    BY DEF BarrierRespected
  <2>1. ~(StageOf[t] > stage)
    BY DEF ControllerInv, StageInv
  <2> QED BY <2>1, ControllerAssumption DEF ControllerInv, StageInv, TypeOK
<1> QED BY ControllerInvariant, <1>1, PTL

\* For a caller that stops on errors, nothing of a later stage runs after a failure.
THEOREM StopsOnError == Spec => []FailStops
<1>1. ControllerInv => FailStops
  <2> SUFFICES ASSUME ControllerInv, ErrBrk, NEW s \in Tasks, NEW t \in Tasks,
                      StageOf[s] < StageOf[t], Failed(s)
               PROVE ts[t] = "new"
    BY DEF FailStops
  <2>1. ~(StageOf[s] < stage)
    BY DEF ControllerInv, StageInv
  <2> QED BY <2>1, ControllerAssumption DEF ControllerInv, StageInv, TypeOK
<1> QED BY ControllerInvariant, <1>1, PTL

\* The reader that saw the finish signal has every result, and the channel is empty.
THEOREM ReaderSawAll == Spec => []FinishIsLast
<1>1. ControllerInv => FinishIsLast
  <2> SUFFICES ASSUME ControllerInv, recv = "ended"
               PROVE /\ chan = <<>>
                     /\ got = {t \in Tasks : ts[t] = "sent"}
                     /\ \A t \in Tasks : Joined(t)
    BY DEF FinishIsLast
  <2>1. chan = <<>> /\ ctl \in {"returned", "ok"}
    BY DEF ControllerInv, ChanInv
  <2>2. \A t \in Tasks : ts[t] = "sent" <=> t \in got
    BY <2>1 DEF ControllerInv, ChanInv
  <2>3. got \subseteq Tasks
    BY DEF ControllerInv, TypeOK
  <2>4. \A t \in Tasks : Joined(t)
    BY <2>1, ControllerAssumption DEF ControllerInv, StageInv
  <2> QED BY <2>1, <2>2, <2>3, <2>4
<1> QED BY ControllerInvariant, <1>1, PTL

\* A run that returned Ok to a caller that stops on errors has no failure but panics.
THEOREM OkMeansDone == Spec => []OkUnlessPanic
<1>1. ControllerInv => OkUnlessPanic
  <2> SUFFICES ASSUME ControllerInv, ErrBrk, ctl \in {"returned", "ok"}, NEW t \in Tasks
               PROVE ts[t] = "panicked" \/ (ts[t] = "sent" /\ status[t] = "ok")
    BY DEF OkUnlessPanic
  <2>1. StageOf[t] < stage
    BY ControllerAssumption DEF ControllerInv, StageInv
  <2>2. Joined(t) /\ ~Failed(t)
    BY <2>1 DEF ControllerInv, StageInv
  <2> QED BY <2>2 DEF ControllerInv, ResultInv, TypeOK, Joined, Failed
<1> QED BY ControllerInvariant, <1>1, PTL

\* A step of the controller is a step of the staged run, or none of it.
LEMMA StagedStep ==
    ControllerInv /\ ControllerInv' /\ [Next]_vars => [Abs!Next]_(Abs!vars)
<1> SUFFICES ASSUME ControllerInv, ControllerInv', [Next]_vars
             PROVE Abs!Next \/ UNCHANGED Abs!vars
  OBVIOUS
<1> USE ControllerAssumption
<1>0. TypeOK /\ TypeOK' /\ StageInv /\ StageInv' /\ ResultInv
  BY DEF ControllerInv
<1>1. CASE LaunchStage
  <2>1. UNCHANGED <<ErrBrk, Ended, Bad, Returned>>
    <3>1. \A t \in Tasks : (Joined(t)' <=> Joined(t)) /\ (Failed(t)' <=> Failed(t))
      BY <1>0, <1>1 DEF LaunchStage, TypeOK, StageInv, Joined, Failed
    <3>2. Ended' = Ended /\ Bad' = Bad
      BY <3>1 DEF Ended, Bad
    <3>3. UNCHANGED <<ErrBrk, Returned>>
      BY <1>1 DEF LaunchStage, ErrBrk, Returned
    <3> QED BY <3>2, <3>3
  <2>2. Returned = "none"
    BY <1>1 DEF LaunchStage, Returned
  <2>3. Begun = {t \in Tasks : StageOf[t] < stage} /\ Ended = Begun
    <3>1. \A t \in Tasks : (ts[t] # "new" <=> StageOf[t] < stage) /\ (Joined(t) <=> StageOf[t] < stage)
      BY <1>0, <1>1 DEF LaunchStage, TypeOK, StageInv, Joined
    <3> QED BY <3>1 DEF Begun, Ended
  <2>4. Begun' = {t \in Tasks : StageOf[t] <= stage}
    <3>1. ASSUME NEW t \in Tasks PROVE ts'[t] # "new" <=> StageOf[t] <= stage
      <4>1. ts'[t] = IF StageOf[t] = stage THEN "running" ELSE ts[t]
        BY <1>1 DEF LaunchStage
      <4>2. StageOf[t] \in Nat /\ stage \in Nat
        BY <1>0 DEF TypeOK
      <4>3. CASE StageOf[t] < stage
        <5>1. ts[t] \in {"sent", "panicked"}
          BY <1>0, <4>3 DEF StageInv, Joined
        <5> QED BY <4>1, <4>2, <4>3, <5>1
      <4>4. CASE StageOf[t] = stage
        BY <4>1, <4>2, <4>4
      <4>5. CASE StageOf[t] > stage
        <5>1. ts[t] = "new"
          BY <1>0, <4>5 DEF StageInv
        <5> QED BY <4>1, <4>2, <4>5, <5>1
      <4> QED BY <4>2, <4>3, <4>4, <4>5
    <3> QED BY <3>1 DEF Begun
  <2>5. ErrBrk => Bad = {}
    <3>1. ASSUME ErrBrk PROVE \A t \in Tasks : ~Failed(t)
      BY <1>0, <1>1, <3>1 DEF LaunchStage, TypeOK, StageInv, Failed
    <3> QED BY <3>1 DEF Bad
  <2>6. CASE \E t \in Tasks : StageOf[t] = stage
    <3>1. Abs!BeginStage(stage)
      BY <2>1, <2>2, <2>3, <2>4, <2>5 DEF Abs!BeginStage
    <3>2. stage \in {StageOf[t] : t \in Tasks}
      BY <2>6
    <3> QED BY <3>1, <3>2 DEF Abs!Next
  <2>7. CASE ~\E t \in Tasks : StageOf[t] = stage
    <3>1. Begun' = Begun
      <4>1. \A t \in Tasks : StageOf[t] <= stage <=> StageOf[t] < stage
        BY <1>0, <2>7 DEF TypeOK
      <4> QED BY <2>3, <2>4, <4>1
    <3> QED BY <2>1, <3>1 DEF Abs!vars
  <2> QED BY <2>6, <2>7
<1>2. CASE JoinStage
  <2>1. UNCHANGED <<ErrBrk, Begun, Ended, Bad>>
    BY <1>2 DEF JoinStage, ErrBrk, Begun, Ended, Bad, Joined, Failed
  <2>2. Returned = "none"
    BY <1>2 DEF JoinStage, Returned
  <2>3. CASE ErrBrk /\ \E t \in Stage(stage) : Failed(t)
    <3>1. Returned' = "error"
      BY <1>2, <2>3 DEF JoinStage, Returned
    <3>2. Bad # {}
      BY <2>3 DEF Bad, Stage
    <3>3. Ended = Begun
      <4>1. \A t \in Tasks : ts[t] # "new" <=> Joined(t)
        BY <1>0, <1>2 DEF JoinStage, TypeOK, StageInv, Joined, Stage
      <4> QED BY <4>1 DEF Begun, Ended
    <3>4. Abs!Break
      BY <2>1, <2>2, <2>3, <3>1, <3>2, <3>3 DEF Abs!Break
    <3> QED BY <3>4 DEF Abs!Next
  <2>4. CASE ~(ErrBrk /\ \E t \in Stage(stage) : Failed(t))
    <3>1. Returned' = "none"
      BY <1>2, <2>4 DEF JoinStage, Returned
    <3> QED BY <2>1, <2>2, <3>1 DEF Abs!vars
  <2> QED BY <2>3, <2>4
<1>3. CASE Finish
  <2>1. UNCHANGED <<ErrBrk, Begun, Ended, Bad>>
    BY <1>3 DEF Finish, ErrBrk, Begun, Ended, Bad, Joined, Failed
  <2>2. Returned = "none" /\ Returned' = "ok"
    BY <1>3 DEF Finish, Returned
  <2>3. \A t \in Tasks : StageOf[t] < stage
    BY <1>0, <1>3 DEF Finish, TypeOK
  <2>4. Ended = Tasks
    <3>1. \A t \in Tasks : Joined(t)
      BY <1>0, <2>3 DEF StageInv
    <3> QED BY <3>1 DEF Ended
  <2>5. ErrBrk => Bad = {}
    <3>1. ASSUME ErrBrk PROVE \A t \in Tasks : ~Failed(t)
      BY <1>0, <2>3, <3>1 DEF StageInv
    <3> QED BY <3>1 DEF Bad
  <2>6. Abs!Succeed
    BY <2>1, <2>2, <2>4, <2>5 DEF Abs!Succeed
  <2> QED BY <2>6 DEF Abs!Next
<1>4. ASSUME NEW t \in Tasks, TaskStep(t) PROVE Abs!Next \/ UNCHANGED Abs!vars
  <2>1. CASE Execute(t) \/ SaveStatus(t)
    <3>1. UNCHANGED <<call, ctl>>
      BY <2>1 DEF Execute, SaveStatus
    <3>2. \A s \in Tasks : /\ ts'[s] # "new" <=> ts[s] # "new"
                           /\ Joined(s)' <=> Joined(s)
                           /\ Failed(s)' <=> Failed(s)
      BY <1>0, <2>1 DEF Execute, SaveStatus, TypeOK, Joined, Failed
    <3>3. UNCHANGED <<Begun, Ended, Bad>>
      BY <3>2 DEF Begun, Ended, Bad
    <3>4. UNCHANGED <<ErrBrk, Returned>>
      BY <3>1 DEF ErrBrk, Returned
    <3> QED BY <3>3, <3>4 DEF Abs!vars
  <2>2. CASE Panic(t) \/ Send(t)
    <3>1. UNCHANGED <<call, ctl, outcome>>
      BY <2>2 DEF Panic, Send
    <3>2. ts[t] \in {"running", "saving", "sending"} /\ Joined(t)'
      BY <1>0, <2>2 DEF Panic, Send, TypeOK, Joined
    <3>3. \A s \in Tasks : s # t => ts'[s] = ts[s]
      BY <1>0, <2>2 DEF Panic, Send, TypeOK
    <3>4. Begun' = Begun
      <4>1. ts'[t] # "new"
        BY <3>2 DEF Joined
      <4>2. ts[t] # "new"
        BY <3>2
      <4> QED BY <3>3, <4>1, <4>2 DEF Begun
    <3>5. t \in Begun \ Ended
      BY <3>2 DEF Begun, Ended, Joined
    <3>6. Ended' = Ended \cup {t}
      <4>1. \A s \in Tasks : s # t => (Joined(s)' <=> Joined(s))
        BY <3>3 DEF Joined
      <4> QED BY <3>2, <4>1 DEF Ended
    <3>7. Bad' \in {Bad, Bad \cup {t}}
      <4>1. \A s \in Tasks : s # t => (Failed(s)' <=> Failed(s))
        BY <3>1, <3>3 DEF Failed
      <4>2. ~Failed(t)
        BY <3>2 DEF Failed
      <4>3. CASE Failed(t)'
        <5>1. Bad' = Bad \cup {t}
          BY <4>1, <4>3 DEF Bad
        <5> QED BY <5>1
      <4>4. CASE ~Failed(t)'
        <5>1. Bad' = Bad
          BY <4>1, <4>2, <4>4 DEF Bad
        <5> QED BY <5>1
      <4> QED BY <4>3, <4>4
    <3>8. Returned = "none"
      <4>1. StageOf[t] < stage => Joined(t)
        BY <1>0 DEF StageInv
      <4>2. ~Joined(t)
        BY <3>2 DEF Joined
      <4>3. ctl \notin {"returned", "ok"}
        BY <1>0, <4>1, <4>2 DEF StageInv, TypeOK
      <4>4. ctl # "bailed"
        <5>1. stage \in Nat /\ StageOf[t] \in Nat
          BY <1>0 DEF TypeOK
        <5>2. ~(StageOf[t] > stage)
          BY <1>0, <3>2 DEF StageInv
        <5>3. StageOf[t] = stage
          BY <4>1, <4>2, <5>1, <5>2
        <5> QED BY <1>0, <4>2, <5>3 DEF StageInv
      <4> QED BY <4>3, <4>4 DEF Returned
    <3>9. UNCHANGED <<ErrBrk, Returned>>
      BY <3>1 DEF ErrBrk, Returned
    <3>10. Abs!EndTask(t)
      BY <3>4, <3>5, <3>6, <3>7, <3>8, <3>9 DEF Abs!EndTask
    <3> QED BY <3>10 DEF Abs!Next
  <2> QED BY <1>4, <2>1, <2>2 DEF TaskStep
<1>5. CASE StartDrain \/ Receive
  <2>1. UNCHANGED <<call, ctl, ts, outcome>>
    BY <1>5 DEF StartDrain, Receive
  <2> QED BY <2>1 DEF Abs!vars, ErrBrk, Begun, Ended, Bad, Returned, Joined, Failed
<1>6. CASE CallerEnds
  <2>1. UNCHANGED <<call, ts, outcome>> /\ Returned = "ok" /\ Returned' = "ok"
    BY <1>6 DEF CallerEnds, Returned
  <2> QED BY <2>1 DEF Abs!vars, ErrBrk, Begun, Ended, Bad, Joined, Failed
<1>7. CASE UNCHANGED vars
  BY <1>7 DEF vars, Abs!vars, ErrBrk, Begun, Ended, Bad, Returned, Joined, Failed
<1> QED BY <1>1, <1>2, <1>3, <1>4, <1>5, <1>6, <1>7 DEF Next

\* For every plan, caller and capacity, the controller implements the staged
\* run (run_all_tasks, err_brk).
THEOREM Refinement == Spec => ImplementsStagedRun
<1>1. Init => Abs!Init
  <2> SUFFICES ASSUME Init PROVE Abs!Init
    OBVIOUS
  <2>1. Begun = {} /\ Ended = {} /\ Bad = {}
    BY DEF Init, Begun, Ended, Bad, Joined, Failed
  <2>2. ErrBrk \in BOOLEAN /\ Returned = "none"
    BY DEF Init, ErrBrk, Returned
  <2> QED BY <2>1, <2>2 DEF Abs!Init
<1> QED BY <1>1, StagedStep, ControllerInvariant, PTL DEF Spec, ImplementsStagedRun, Abs!Spec

(***************************************************************************)
(* The staged archives                                                     *)
(***************************************************************************)

\* What is known of one invocation: a file handle belongs to a stream, a task
\* that goes back for another attempt has one left, a stream is inside its body.
LocalOf(p) ==
    /\ run[p].on # "none" => pc[p] = "stream"
    /\ pc[p] \in {"idle", "head", "failed"} => run[p].attempt = 0
    /\ pc[p] = "rehead" => run[p].attempt < MaxAttempts
    /\ pc[p] = "stream" => run[p].v # None

\* A file that does not exist has no bytes.
AbsentInv ==
    /\ ~part.exists => part.bytes = <<>>
    /\ ~save.exists => save.bytes = <<>>

\* Invocations that stage at the same time have been counted, and neither
\* takes itself for the only one.
AloneInv ==
    \A p, q \in Procs : p # q /\ Active(p) /\ Active(q) => overlaps > 0 /\ ~run[p].alone

\* What an invocation that has a digest and is alone has behind the download.
WantOf(p) ==
    run[p].alone /\ run[p].want # None =>
        /\ pc[p] \in {"extract", "unpack"} => Is(save, run[p].want)
        /\ pc[p] = "upload" => tree = Whole(run[p].want)
        /\ pc[p] = "done" => host[p] = Whole(run[p].want)

\* As long as one invocation at a time stages the first publication and the
\* server's answers are true, the cache holds all of it under its name and a
\* prefix of it in the partial file ...
Prefix(n) == [i \in 1..n |-> <<1, i>>]

CacheInv ==
    /\ save.exists => Is(save, 1)
    /\ Size(part) <= LenOf[1] /\ part.bytes = Prefix(Size(part))

\* ... and the invocation is where that prefix ends.
ProgressOf(p) ==
    /\ run[p].remoteLen \in {Unknown, 0, LenOf[1]}
    /\ pc[p] = "get" => run[p].resume = Size(part)
    /\ pc[p] = "stream" =>
         run[p].on = "part" /\ part.exists /\ run[p].v = 1 /\ run[p].at = Size(part) + 1
    /\ pc[p] = "finish" => part.exists /\ Size(part) = LenOf[1]
    /\ pc[p] \in {"extract", "unpack"} => save.exists
    /\ pc[p] = "upload" => tree = Whole(1)
    /\ pc[p] = "done" => host[p] = Whole(1)

Calm == overlaps = 0 /\ served = 1 /\ misled = {}

StagingInv ==
    /\ StagingTypeOK /\ AbsentInv /\ AloneInv
    /\ \A p \in Procs : LocalOf(p) /\ WantOf(p)
    /\ Calm => CacheInv /\ \A p \in Procs : ProgressOf(p)

-----------------------------------------------------------------------------
\* There is a first publication, and none is empty.
LEMMA LengthFacts ==
    /\ 1 \in Versions
    /\ \A v \in Versions : LenOf[v] \in Nat \ {0} /\ v \in Nat
    /\ None \notin Versions
  <1>1. Len(LenOf) \in Nat /\ Len(LenOf) # 0
    BY StagingAssumption
  <1> QED BY <1>1, StagingAssumption DEF Versions, None

\* A whole archive as a sequence of bytes.
LEMMA WholeFacts ==
    \A v \in Versions : Whole(v) \in Seq(Bytes) /\ Len(Whole(v)) = LenOf[v] /\ Whole(v) # <<>>
  <1> SUFFICES ASSUME NEW v \in Versions
               PROVE  Whole(v) \in Seq(Bytes) /\ Len(Whole(v)) = LenOf[v] /\ Whole(v) # <<>>
    OBVIOUS
  <1>1. LenOf[v] \in Nat \ {0}
    BY LengthFacts
  <1>2. \A i \in 1..LenOf[v] : <<v, i>> \in Bytes
    BY <1>1, StagingAssumption DEF Bytes, Versions
  <1>3. Whole(v) \in [1..LenOf[v] -> Bytes]
    BY <1>2 DEF Whole
  <1>4. Whole(v) \in Seq(Bytes) /\ Len(Whole(v)) = LenOf[v]
    BY <1>1, <1>3, IsASeq, LenProperties
  <1> QED BY <1>1, <1>4

\* A prefix of the first publication as a sequence of bytes.
LEMMA PrefixFacts ==
    ASSUME NEW n \in Nat
    PROVE  Prefix(n) \in Seq(Bytes) /\ Len(Prefix(n)) = n
  <1>1. \A i \in 1..n : <<1, i>> \in Bytes
    <2>1. 1 \in 0..Len(LenOf)
      BY LengthFacts, StagingAssumption DEF Versions
    <2> QED BY <2>1 DEF Bytes
  <1>2. Prefix(n) \in [1..n -> Bytes]
    BY <1>1 DEF Prefix
  <1> QED BY <1>2, IsASeq, LenProperties

\* The whole of the first publication is its longest prefix.
LEMMA WholePrefix == Whole(1) = Prefix(LenOf[1])
  BY DEF Whole, Prefix

\* The types of what a run's steps make of its locals.
LEMMA FreshType == Fresh \in Runs
  BY LengthFacts, StagingAssumption DEF Fresh, Runs, None, Versions

\* Files that are absent, written and measured.
LEMMA FileFacts ==
    /\ Absent \in Files /\ ~Absent.exists /\ Absent.bytes = <<>>
    /\ \A b \in Seq(Bytes) : File(b) \in Files /\ File(b).exists /\ File(b).bytes = b
    /\ \A f \in Files : Size(f) \in Nat
  BY EmptySeq, LenProperties DEF Absent, File, Files, Size

-----------------------------------------------------------------------------
\* Before anything is staged the cache is empty.
LEMMA StagingBegins == StagingInit => StagingInv
  <1> SUFFICES ASSUME StagingInit PROVE StagingInv
    OBVIOUS
  <1> USE DEF StagingInit
  <1>1. StagingTypeOK
    BY LengthFacts, FreshType, FileFacts, EmptySeq, StagingAssumption DEF StagingTypeOK
  <1>2. AbsentInv /\ AloneInv
    BY FileFacts DEF AbsentInv, AloneInv, Active
  <1>3. \A p \in Procs : LocalOf(p) /\ WantOf(p) /\ ProgressOf(p)
    BY DEF LocalOf, WantOf, ProgressOf, Fresh, None
  <1>4. CacheInv
    <2>1. Size(part) = 0
      BY FileFacts, EmptySeq DEF Size
    <2>2. Prefix(0) = <<>>
      BY PrefixFacts, EmptySeq
    <2> QED BY <2>1, <2>2, FileFacts, LengthFacts DEF CacheInv
  <1> QED BY <1>1, <1>2, <1>3, <1>4 DEF StagingInv

\* What a step of p leaves alone: of the others only a handle may be lost or
\* follow its file.
Kept(r, s) ==
    /\ r.want = s.want /\ r.remoteLen = s.remoteLen /\ r.attempt = s.attempt
    /\ r.resume = s.resume /\ r.v = s.v /\ r.at = s.at /\ r.alone = s.alone
    /\ r.on # "none" => s.on # "none"

Frame(p) ==
    /\ served' = served /\ overlaps' = overlaps /\ misled \subseteq misled'
    /\ \A q \in Procs \ {p} : pc'[q] = pc[q] /\ host'[q] = host[q] /\ Kept(run'[q], run[q])
    /\ Active(p) /\ (Active(p)' /\ run'[p].alone => run[p].alone)

\* While p is active, an invocation that takes itself for the only one, or that
\* runs in a calm cache, is not: so p has to answer for its own part only.
LEMMA FrameKeeps ==
    ASSUME StagingInv, NEW p \in Procs, Frame(p),
           StagingTypeOK', AbsentInv', LocalOf(p)', WantOf(p)',
           Calm /\ misled' = {} => CacheInv' /\ ProgressOf(p)'
    PROVE  StagingInv'
  <1> USE DEF StagingInv
  <1>1. AloneInv'
    BY DEF Frame, AloneInv, Active, Kept
  <1>2. ASSUME NEW q \in Procs \ {p}
        PROVE  LocalOf(q)' /\ WantOf(q)' /\ (Calm => ProgressOf(q)')
    <2>1. pc'[q] = pc[q] /\ host'[q] = host[q] /\ Kept(run'[q], run[q]) /\ Active(p)
      BY DEF Frame
    <2>2. LocalOf(q) /\ WantOf(q) /\ (Calm => ProgressOf(q))
      OBVIOUS
    <2>3. Active(q) => ~run[q].alone /\ ~Calm
      BY <2>1 DEF AloneInv, Calm
    <2>4. LocalOf(q)'
      BY <2>1, <2>2 DEF LocalOf, Kept
    <2>5. WantOf(q)'
      BY <2>1, <2>2, <2>3 DEF WantOf, Kept, Active
    <2>6. Calm => ProgressOf(q)'
      BY <2>1, <2>2, <2>3 DEF ProgressOf, Kept, Active
    <2> QED BY <2>4, <2>5, <2>6
  <1>3. Calm' => Calm /\ misled' = {}
    BY DEF Frame, Calm
  <1> QED BY <1>1, <1>2, <1>3

-----------------------------------------------------------------------------
(* The ways out of a step that several steps have.                         *)

\* The faults stay within their bound.
LEMMA FaultBound ==
    ASSUME StagingTypeOK, Fault \/ NoFault
    PROVE  faults' \in Nat
  BY StagingAssumption DEF StagingTypeOK, Fault, NoFault

\* An answer that is not the asset's is remembered.
MisledGrows == misled \subseteq misled' /\ misled' \subseteq {"length", "short", "range"}

LEMMA MisledKept == StagingTypeOK /\ UNCHANGED misled => MisledGrows
  BY DEF StagingTypeOK, MisledGrows

\* The task ends with an error and leaves the files alone.
LEMMA FailKeeps ==
    ASSUME StagingInv, NEW p \in Procs, Active(p), Fail(p), faults' \in Nat,
           UNCHANGED <<served, segments, ranges, part, save, tree, host, overlaps>>,
           MisledGrows
    PROVE  StagingInv'
  <1> USE DEF StagingInv, MisledGrows
  <1>1. /\ pc' = [pc EXCEPT ![p] = "failed"] /\ run' = [run EXCEPT ![p] = Fresh]
        /\ pc'[p] = "failed" /\ run'[p] = Fresh
    BY DEF Fail, Goto, StagingTypeOK
  <1>2. StagingTypeOK'
    BY <1>1, FreshType DEF StagingTypeOK
  <1>3. Frame(p)
    BY <1>1 DEF Frame, StagingTypeOK, Kept, Active
  <1>4. AbsentInv' /\ LocalOf(p)' /\ WantOf(p)' /\ (Calm => CacheInv' /\ ProgressOf(p)')
    BY <1>1 DEF AbsentInv, LocalOf, WantOf, CacheInv, ProgressOf, Fresh, None, Size, Is
  <1> QED BY <1>2, <1>3, <1>4, FrameKeeps

\* The task goes back for another attempt, or has none left.
LEMMA RetryKeeps ==
    ASSUME StagingInv, NEW p \in Procs, pc[p] \in {"get", "stream"}, RetryOrFail(p),
           faults' \in Nat,
           UNCHANGED <<served, segments, ranges, part, save, tree, host, overlaps>>,
           MisledGrows
    PROVE  StagingInv'
  <1> USE DEF StagingInv, MisledGrows
  <1>1. CASE run[p].attempt < MaxAttempts
    <2> DEFINE r == [run[p] EXCEPT !.on = "none", !.v = None, !.at = 0]
    <2>1. /\ run[p] \in Runs /\ r \in Runs
          /\ r.attempt = run[p].attempt /\ r.alone = run[p].alone /\ r.on = "none"
          /\ r.remoteLen = run[p].remoteLen
      BY DEF StagingTypeOK, Runs
    <2>2. pc' = [pc EXCEPT ![p] = "rehead"] /\ run' = [run EXCEPT ![p] = r]
      BY <1>1 DEF RetryOrFail, Goto, StagingTypeOK
    <2>3. pc'[p] = "rehead" /\ run'[p] = r
      BY <2>2 DEF StagingTypeOK
    <2> HIDE DEF r
    <2>4. StagingTypeOK'
      BY <2>1, <2>2 DEF StagingTypeOK
    <2>5. Frame(p)
      BY <2>1, <2>2, <2>3 DEF Frame, StagingTypeOK, Kept, Active
    <2>6. AbsentInv' /\ LocalOf(p)' /\ WantOf(p)' /\ (Calm => CacheInv' /\ ProgressOf(p)')
      BY <1>1, <2>1, <2>3 DEF AbsentInv, LocalOf, WantOf, CacheInv, ProgressOf, Size, Is
    <2> QED BY <2>4, <2>5, <2>6, FrameKeeps
  <1>2. CASE ~(run[p].attempt < MaxAttempts)
    BY <1>2, FailKeeps DEF RetryOrFail, Active
  <1> QED BY <1>1, <1>2

\* The archive is in the cache and goes to the extraction.
LEMMA FetchedKeeps ==
    ASSUME StagingInv, NEW p \in Procs, Active(p), faults' \in Nat,
           NEW r \in [Procs -> Runs], \A q \in Procs \ {p} : Kept(r[q], run[q]),
           Fetched(p, r),
           UNCHANGED <<served, segments, ranges, tree, host, overlaps>>,
           MisledGrows,
           part' \in Files, save' \in Files, AbsentInv',
           run[p].alone /\ run[p].want # None => Is(save', run[p].want),
           Calm => CacheInv' /\ save'.exists
    PROVE  StagingInv'
  <1> USE DEF StagingInv, MisledGrows
  <1> DEFINE f == [Fresh EXCEPT !.want = run[p].want, !.began = run[p].began, !.alone = run[p].alone]
  <1>1. /\ f \in Runs /\ f.want = run[p].want /\ f.alone = run[p].alone
        /\ f.on = "none" /\ f.attempt = 0 /\ f.remoteLen = Unknown
    <2>1. run[p] \in Runs /\ Fresh \in Runs
      BY FreshType DEF StagingTypeOK
    <2> QED BY <2>1 DEF Fresh, Runs
  <1>2. pc' = [pc EXCEPT ![p] = "extract"] /\ run' = [r EXCEPT ![p] = f]
    BY DEF Fetched, Goto
  <1>3. pc'[p] = "extract" /\ run'[p] = f
    BY <1>2 DEF StagingTypeOK
  <1> HIDE DEF f
  <1>4. StagingTypeOK'
    BY <1>1, <1>2 DEF StagingTypeOK
  <1>5. Frame(p)
    BY <1>1, <1>2, <1>3 DEF Frame, StagingTypeOK, Active
  <1>6. LocalOf(p)' /\ WantOf(p)' /\ (Calm => ProgressOf(p)')
    BY <1>1, <1>3 DEF LocalOf, WantOf, ProgressOf, Is
  <1> QED BY <1>4, <1>5, <1>6, FrameKeeps

\* A file that is renamed or removed takes the handles on it along.
LEMMA FollowFacts ==
    ASSUME StagingTypeOK, NEW from \in {"part", "save"}, NEW to \in {"none", "part", "save"}
    PROVE  /\ Follow(from, to) \in [Procs -> Runs]
           /\ \A q \in Procs : /\ Kept(Follow(from, to)[q], run[q])
                               /\ Follow(from, to)[q].fileLen = run[q].fileLen
  <1>1. ASSUME NEW q \in Procs
        PROVE  /\ Follow(from, to)[q] \in Runs
               /\ Kept(Follow(from, to)[q], run[q])
               /\ Follow(from, to)[q].fileLen = run[q].fileLen
    <2>1. run[q] \in Runs
      BY DEF StagingTypeOK
    <2>2. PICK o \in {"none", "part", "save"} :
                 /\ Follow(from, to)[q] = [run[q] EXCEPT !.on = o]
                 /\ o # "none" => run[q].on # "none"
      BY <2>1 DEF Follow, Runs
    <2> DEFINE r == [run[q] EXCEPT !.on = o]
    <2>3. r \in Runs /\ r.on = o
      BY <2>1 DEF Runs
    <2>4. /\ r.want = run[q].want /\ r.remoteLen = run[q].remoteLen /\ r.attempt = run[q].attempt
          /\ r.resume = run[q].resume /\ r.v = run[q].v /\ r.at = run[q].at /\ r.alone = run[q].alone
          /\ r.fileLen = run[q].fileLen
      BY <2>1 DEF Runs
    <2> HIDE DEF r
    <2>5. Kept(r, run[q])
      BY <2>2, <2>3, <2>4 DEF Kept
    <2> QED BY <2>2, <2>3, <2>4, <2>5 DEF r
  <1> QED BY <1>1 DEF Follow

-----------------------------------------------------------------------------
(* The steps                                                               *)

\* The process is killed, at any point.
LEMMA CrashKeeps ==
    ASSUME StagingInv, NEW p \in Procs, Crash(p)
    PROVE  StagingInv'
  <1>1. faults' \in Nat
    BY FaultBound DEF Crash, StagingInv
  <1> QED BY <1>1, FailKeeps, MisledKept DEF Crash, Fail, StagingInv

\* A deploy begins, alone or while another one stages.
LEMMA StartKeeps ==
    ASSUME StagingInv, NEW p \in Procs, Start(p)
    PROVE  StagingInv'
  <1> USE DEF StagingInv
  <1>1. PICK d \in Versions \cup {None} :
            /\ expected_digest(d)
            /\ run' = [q \in Procs |->
                 IF q = p THEN [Fresh EXCEPT !.want = d, !.began = served,
                                             !.alone = \A o \in Procs \ {p} : ~Active(o)]
                 ELSE [run[q] EXCEPT !.alone = @ /\ ~Active(q)]]
    BY DEF Start
  <1> DEFINE solo == \A o \in Procs \ {p} : ~Active(o)
             f == [Fresh EXCEPT !.want = d, !.began = served, !.alone = solo]
  <1>2. /\ ~Active(p) /\ pc' = [pc EXCEPT ![p] = "head"] /\ pc'[p] = "head" /\ Active(p)'
        /\ \A q \in Procs \ {p} : pc'[q] = pc[q] /\ (Active(q)' <=> Active(q))
        /\ UNCHANGED <<served, segments, ranges, part, save, tree, host, misled>>
    BY DEF Start, Goto, Active, StagingTypeOK
  <1>3. /\ f \in Runs /\ f.alone = solo /\ f.on = "none" /\ f.attempt = 0 /\ f.remoteLen = Unknown
        /\ run'[p] = f
    BY <1>1, FreshType DEF StagingTypeOK, Fresh, Runs
  <1>4. ASSUME NEW q \in Procs \ {p}
        PROVE  /\ run'[q] \in Runs
               /\ run'[q].alone => run[q].alone /\ ~Active(q)
               /\ run'[q].want = run[q].want /\ run'[q].remoteLen = run[q].remoteLen
               /\ run'[q].attempt = run[q].attempt /\ run'[q].resume = run[q].resume
               /\ run'[q].v = run[q].v /\ run'[q].at = run[q].at /\ run'[q].on = run[q].on
    <2>1. run[q] \in Runs
      BY DEF StagingTypeOK
    <2>2. run'[q] = [run[q] EXCEPT !.alone = run[q].alone /\ ~Active(q)]
      BY <1>1, <2>1 DEF Runs
    <2>3. (run[q].alone /\ ~Active(q)) \in BOOLEAN
      OBVIOUS
    <2> QED BY <2>1, <2>2, <2>3 DEF Runs
  <1>5. /\ overlaps' \in Nat /\ (overlaps' = 0 => overlaps = 0)
        /\ ~solo => overlaps' > 0
    <2>1. overlaps \in Nat
      BY DEF StagingTypeOK
    <2>2. IF solo THEN overlaps' = overlaps ELSE overlaps' = overlaps + 1
      BY DEF Start
    <2> QED BY <2>1, <2>2
  <1> HIDE DEF f
  <1>6. StagingTypeOK'
    <2>1. faults' \in Nat
      BY <1>1, FaultBound DEF expected_digest
    <2>2. run' \in [Procs -> Runs]
      BY <1>1, <1>3, <1>4
    <2> QED BY <1>2, <1>5, <2>1, <2>2 DEF StagingTypeOK
  <1>7. AbsentInv'
    BY <1>2 DEF AbsentInv
  <1>8. AloneInv'
    BY <1>2, <1>3, <1>4, <1>5 DEF AloneInv, StagingTypeOK
  <1>9. ASSUME NEW q \in Procs
        PROVE  LocalOf(q)' /\ WantOf(q)'
    <2>1. CASE q = p
      BY <1>2, <1>3, <2>1 DEF LocalOf, WantOf
    <2>2. CASE q # p
      <3>1. LocalOf(q)'
        BY <1>2, <1>4, <2>2 DEF LocalOf
      <3>2. WantOf(q)'
        BY <1>2, <1>4, <2>2 DEF WantOf, Is
      <3> QED BY <3>1, <3>2
    <2> QED BY <2>1, <2>2
  <1>10. ASSUME Calm'
         PROVE  CacheInv' /\ \A q \in Procs : ProgressOf(q)'
    <2>1. Calm
      BY <1>2, <1>5, <1>10 DEF Calm
    <2>2. CacheInv'
      BY <1>2, <2>1 DEF CacheInv, Size, Is
    <2>3. ASSUME NEW q \in Procs PROVE ProgressOf(q)'
      <3>1. CASE q = p
        BY <1>2, <1>3, <3>1 DEF ProgressOf
      <3>2. CASE q # p
        BY <1>2, <1>4, <2>1, <3>2 DEF ProgressOf, Size
      <3> QED BY <3>1, <3>2
    <2> QED BY <2>2, <2>3
  <1> QED BY <1>6, <1>7, <1>8, <1>9, <1>10

\* The length and the digest of the asset are looked up.
LEMMA ResolveKeeps ==
    ASSUME StagingInv, NEW p \in Procs, Resolve(p)
    PROVE  StagingInv'
  <1> USE DEF StagingInv, MisledGrows
  <1>1. PICK len \in {LenOf[served], 0, Unknown} \cup OtherLens :
            /\ HeadLength(len)
            /\ run' = [run EXCEPT ![p].remoteLen = IF @ = Unknown THEN len ELSE @,
                                  ![p].attempt = @ + 1]
    BY DEF Resolve
  <1> DEFINE r == [run[p] EXCEPT !.remoteLen = IF run[p].remoteLen = Unknown THEN len ELSE run[p].remoteLen,
                                 !.attempt = run[p].attempt + 1]
             l == IF pc[p] = "head" THEN "cached" ELSE "attempt"
  <1>2. /\ run[p] \in Runs /\ len \in Nat \cup {Unknown} /\ run[p].attempt \in Nat
        /\ run[p].attempt + 1 \in 0..MaxAttempts
    <2>1. run[p] \in Runs /\ len \in Nat \cup {Unknown}
      <3>1. LenOf[served] \in Nat /\ OtherLens \subseteq Nat /\ 0 \in Nat
        BY LengthFacts, StagingAssumption DEF StagingTypeOK
      <3> QED BY <3>1 DEF StagingTypeOK
    <2>2. run[p].attempt \in 0..MaxAttempts /\ MaxAttempts \in Nat \ {0}
      BY <2>1, StagingAssumption DEF Runs
    <2>3. run[p].attempt = 0 \/ run[p].attempt < MaxAttempts
      BY DEF LocalOf, Resolve
    <2> QED BY <2>1, <2>2, <2>3
  <1>3. /\ r \in Runs /\ r.alone = run[p].alone /\ r.on = run[p].on
        /\ r.remoteLen = IF run[p].remoteLen = Unknown THEN len ELSE run[p].remoteLen
    BY <1>2 DEF Runs
  <1>4. run' = [run EXCEPT ![p] = r] /\ pc' = [pc EXCEPT ![p] = l]
    BY <1>1 DEF Resolve, Goto, StagingTypeOK
  <1>5. run'[p] = r /\ pc'[p] = l /\ l \in {"cached", "attempt"} /\ Active(p)
    BY <1>4 DEF StagingTypeOK, Resolve, Active
  <1>6. /\ faults' \in Nat /\ MisledGrows
        /\ misled' = {} => len \in {LenOf[served], 0, Unknown}
    BY <1>1, FaultBound DEF HeadLength, StagingTypeOK
  <1> HIDE DEF r, l
  <1>7. StagingTypeOK'
    BY <1>3, <1>4, <1>5, <1>6 DEF StagingTypeOK, Resolve
  <1>8. Frame(p)
    BY <1>3, <1>4, <1>5, <1>6 DEF Frame, StagingTypeOK, Kept, Active, Resolve
  <1>9. AbsentInv' /\ LocalOf(p)' /\ WantOf(p)'
    BY <1>3, <1>5 DEF AbsentInv, LocalOf, WantOf, Is, Resolve
  <1>10. Calm /\ misled' = {} => CacheInv' /\ ProgressOf(p)'
    BY <1>3, <1>5, <1>6 DEF CacheInv, ProgressOf, Size, Is, Resolve, Calm
  <1> QED BY <1>7, <1>8, <1>9, <1>10, FrameKeeps

\* A partial file that is gone is a prefix of length zero; one of full length
\* is the publication.
LEMMA NoPrefix == Size(Absent) = 0 /\ Absent.bytes = Prefix(0)
  BY FileFacts, PrefixFacts, EmptySeq DEF Size

\* A partial file of full length is the whole archive.
LEMMA FullPrefix ==
    ASSUME StagingTypeOK, AbsentInv, CacheInv, Size(part) = LenOf[1]
    PROVE  part.exists /\ Is(part, 1)
  <1>1. part \in Files /\ part.bytes = Whole(1)
    BY WholePrefix DEF StagingTypeOK, CacheInv
  <1>2. part.exists
    BY <1>1, WholeFacts, LengthFacts DEF AbsentInv
  <1>3. part = File(Whole(1))
    BY <1>1, <1>2 DEF Files, File
  <1> QED BY <1>2, <1>3 DEF Is

\* The lookup in the cache, and the promotion of a complete partial file.
LEMMA CachedKeeps ==
    ASSUME StagingInv, NEW p \in Procs, Cached(p)
    PROVE  StagingInv'
  <1> USE DEF StagingInv
  <1>1. /\ pc[p] = "cached" /\ Active(p) /\ faults' \in Nat
        /\ UNCHANGED <<served, segments, ranges, tree, host, overlaps, misled>>
    BY FaultBound DEF Cached, Active
  <1>2. run \in [Procs -> Runs] /\ (\A q \in Procs : Kept(run[q], run[q])) /\ run[p].on = "none"
    BY <1>1 DEF StagingTypeOK, Kept, LocalOf
  <1>3. CASE Reusable(run[p]) /\ Fetched(p, run) /\ UNCHANGED <<part, save>>
    <2>1. run[p].want # None => Is(save', run[p].want)
      BY <1>3 DEF Reusable
    <2>2. AbsentInv' /\ part' \in Files /\ save' \in Files
      BY <1>3 DEF AbsentInv, StagingTypeOK
    <2>3. Calm => CacheInv' /\ save'.exists
      BY <1>3 DEF CacheInv, Size, Is, Reusable
    <2> QED BY <1>1, <1>2, <1>3, <2>1, <2>2, <2>3, FetchedKeeps, MisledKept
  <1>4. CASE /\ ~Reusable(run[p]) /\ Promotes(run[p])
             /\ part' = save /\ save' = Absent
             /\ run' = Follow("save", "part") /\ Goto(p, "attempt")
    <2>1. run' \in [Procs -> Runs] /\ \A q \in Procs : Kept(run'[q], run[q])
      BY <1>4, FollowFacts
    <2>2. pc' = [pc EXCEPT ![p] = "attempt"] /\ pc'[p] = "attempt"
      BY <1>4 DEF Goto, StagingTypeOK
    <2>3. StagingTypeOK'
      BY <1>1, <1>4, <2>1, <2>2, FileFacts DEF StagingTypeOK
    <2>4. Frame(p)
      BY <1>1, <2>1, <2>2 DEF Frame, StagingTypeOK, Kept, Active
    <2>5. AbsentInv' /\ LocalOf(p)' /\ WantOf(p)'
      BY <1>2, <1>4, <2>1, <2>2, FileFacts DEF AbsentInv, LocalOf, WantOf, Kept
    <2>6. ~Calm
      <3> SUFFICES ASSUME Calm PROVE FALSE
        OBVIOUS
      <3>1. save.exists
        BY <1>4, EmptySeq DEF Promotes, AbsentInv, Size
      <3>2. Size(save) = LenOf[1]
        BY <3>1, WholeFacts, LengthFacts, FileFacts DEF CacheInv, Is, Size
      <3> QED BY <1>4, <3>2, LengthFacts DEF Promotes, ProgressOf, Unknown
    <2> QED BY <2>3, <2>4, <2>5, <2>6, FrameKeeps
  <1>5. CASE Goto(p, "attempt") /\ UNCHANGED <<part, save, run>>
    <2>1. pc' = [pc EXCEPT ![p] = "attempt"] /\ pc'[p] = "attempt"
      BY <1>5 DEF Goto, StagingTypeOK
    <2>2. StagingTypeOK' /\ Frame(p)
      BY <1>1, <1>2, <1>5, <2>1 DEF StagingTypeOK, Frame, Active
    <2>3. AbsentInv' /\ LocalOf(p)' /\ WantOf(p)' /\ (Calm => CacheInv' /\ ProgressOf(p)')
      BY <1>2, <1>5, <2>1 DEF AbsentInv, LocalOf, WantOf, CacheInv, ProgressOf, Size, Is
    <2> QED BY <2>2, <2>3, FrameKeeps
  <1> QED BY <1>3, <1>4, <1>5 DEF Cached

\* An attempt begins with what an earlier one left.
LEMMA AttemptKeeps ==
    ASSUME StagingInv, NEW p \in Procs, Attempt(p)
    PROVE  StagingInv'
  <1> USE DEF StagingInv
  <1>1. /\ pc[p] = "attempt" /\ Active(p) /\ faults' \in Nat
        /\ UNCHANGED <<served, segments, ranges, tree, host, overlaps, misled>>
    BY FaultBound DEF Attempt, Active
  <1>2. run \in [Procs -> Runs] /\ run[p].on = "none"
    BY <1>1 DEF StagingTypeOK, LocalOf
  <1>3. CASE /\ Adopts(run[p]) /\ save' = part /\ part' = Absent
             /\ Fetched(p, Follow("part", "save"))
    <2>1. run[p].want # None => Is(save', run[p].want)
      BY <1>3 DEF Adopts, Is
    <2>2. AbsentInv' /\ part' \in Files /\ save' \in Files
      BY <1>3, FileFacts DEF AbsentInv, StagingTypeOK
    <2>3. ASSUME Calm PROVE CacheInv' /\ save'.exists
      <3>1. Size(part) = LenOf[1]
        BY <1>3, <2>3, LengthFacts DEF Adopts, ProgressOf, Unknown
      <3>2. part.exists /\ Is(part, 1)
        BY <2>3, <3>1, FullPrefix
      <3> QED BY <1>3, <3>2, NoPrefix, LengthFacts DEF CacheInv, Is, Size
    <2> QED BY <1>1, <1>3, <2>1, <2>2, <2>3, FetchedKeeps, FollowFacts, MisledKept
  <1>4. CASE /\ part' = Absent /\ UNCHANGED save
             /\ run' = [Follow("part", "none") EXCEPT ![p].resume = 0]
             /\ Goto(p, "get")
    <2> DEFINE F == Follow("part", "none")
               r == [F[p] EXCEPT !.resume = 0]
    <2>1. F \in [Procs -> Runs] /\ \A q \in Procs : Kept(F[q], run[q])
      BY FollowFacts
    <2> HIDE DEF F
    <2>2. /\ r \in Runs /\ r.resume = 0 /\ r.on = F[p].on /\ r.alone = F[p].alone
          /\ r.remoteLen = F[p].remoteLen /\ r.attempt = F[p].attempt
      BY <2>1 DEF Runs
    <2>3. run' = [F EXCEPT ![p] = r] /\ pc' = [pc EXCEPT ![p] = "get"]
      BY <1>4, <2>1 DEF Goto, F
    <2>4. run'[p] = r /\ pc'[p] = "get"
      BY <2>1, <2>3 DEF StagingTypeOK
    <2> HIDE DEF r
    <2>5. StagingTypeOK'
      <3>1. run' \in [Procs -> Runs]
        BY <2>1, <2>2, <2>3
      <3>2. pc' \in [Procs -> {"idle", "head", "cached", "attempt", "rehead", "get", "stream", "finish",
                              "extract", "unpack", "upload", "failed", "done"}]
        BY <2>3 DEF StagingTypeOK
      <3> QED BY <1>1, <1>4, <3>1, <3>2, FileFacts DEF StagingTypeOK
    <2>6. Frame(p)
      BY <1>1, <2>1, <2>2, <2>3, <2>4 DEF Frame, StagingTypeOK, Kept, Active
    <2>7. AbsentInv' /\ LocalOf(p)' /\ WantOf(p)'
      BY <1>2, <1>4, <2>1, <2>2, <2>4, FileFacts DEF AbsentInv, LocalOf, WantOf, Kept
    <2>8. Calm => CacheInv' /\ ProgressOf(p)'
      <3>1. Calm => CacheInv'
        BY <1>4, NoPrefix, LengthFacts DEF CacheInv, Size, Is
      <3>2. Calm => ProgressOf(p)'
        <4>1. Size(part') = 0
          BY <1>4, NoPrefix
        <4>2. run'[p].remoteLen = run[p].remoteLen /\ run'[p].resume = 0
          BY <2>1, <2>2, <2>4 DEF Kept
        <4> QED BY <2>4, <4>1, <4>2 DEF ProgressOf, Size
      <3> QED BY <3>1, <3>2
    <2> QED BY <2>5, <2>6, <2>7, <2>8, FrameKeeps
  <1>5. CASE /\ run' = [run EXCEPT ![p].resume = Size(part)]
             /\ Goto(p, "get") /\ UNCHANGED <<part, save>>
    <2> DEFINE r == [run[p] EXCEPT !.resume = Size(part)]
    <2>1. Size(part) \in Nat /\ run[p] \in Runs
      BY FileFacts DEF StagingTypeOK
    <2>2. /\ r \in Runs /\ r.resume = Size(part) /\ r.on = run[p].on /\ r.alone = run[p].alone
          /\ r.remoteLen = run[p].remoteLen
      BY <2>1 DEF Runs
    <2>3. run' = [run EXCEPT ![p] = r] /\ pc' = [pc EXCEPT ![p] = "get"]
      BY <1>5 DEF Goto, StagingTypeOK
    <2>4. run'[p] = r /\ pc'[p] = "get"
      BY <2>3 DEF StagingTypeOK
    <2> HIDE DEF r
    <2>5. StagingTypeOK'
      BY <1>1, <1>5, <2>2, <2>3 DEF StagingTypeOK
    <2>6. Frame(p)
      BY <1>1, <2>2, <2>3, <2>4 DEF Frame, StagingTypeOK, Kept, Active
    <2>7. AbsentInv' /\ LocalOf(p)' /\ WantOf(p)'
      BY <1>2, <1>5, <2>2, <2>4 DEF AbsentInv, LocalOf, WantOf
    <2>8. Calm => CacheInv' /\ ProgressOf(p)'
      BY <1>5, <2>2, <2>4 DEF CacheInv, ProgressOf, Size, Is
    <2> QED BY <2>5, <2>6, <2>7, <2>8, FrameKeeps
  <1> QED BY <1>3, <1>4, <1>5 DEF Attempt

\* The request fails, or is not answered with the range it asked for.
LEMMA GetFailsKeeps ==
    ASSUME StagingInv, NEW p \in Procs, GetFails(p) \/ NotPartial(p)
    PROVE  StagingInv'
  <1>1. /\ pc[p] = "get" /\ Active(p) /\ faults' \in Nat
        /\ UNCHANGED <<served, segments, ranges, part, save, tree, host, overlaps, misled>>
    BY FaultBound DEF GetFails, NotPartial, Active, StagingInv
  <1> QED BY <1>1, FailKeeps, RetryKeeps, MisledKept DEF GetFails, NotPartial, StagingInv

\* The response comes and the partial file is opened or emptied.
LEMMA GetKeeps ==
    ASSUME StagingInv, NEW p \in Procs, Get(p)
    PROVE  StagingInv'
  <1> USE DEF StagingInv, MisledGrows
  <1> DEFINE lenOf(at, sized) == FileLen(run[p], IF sized THEN LenOf[served] + 1 - at ELSE Unknown)
  <1>1. PICK at \in 1..LenOf[served], sized \in BOOLEAN :
            /\ BodyStart(run[p], at)
            /\ IF DoubleCheck(run[p], lenOf(at, sized)) THEN Fetched(p, run)
               ELSE /\ Goto(p, "stream")
                    /\ run' = [run EXCEPT ![p].fileLen = lenOf(at, sized), ![p].sized = sized,
                                          ![p].on = "part", ![p].v = served, ![p].at = at]
    BY DEF Get
  <1> DEFINE len == lenOf(at, sized)
  <1>2. /\ pc[p] = "get" /\ Active(p) /\ faults' \in Nat
        /\ run[p].resume < LenOf[served] /\ part' = Opened(run[p])
        /\ MisledGrows
        /\ misled' = {} => at = RangeStart(run[p])
        /\ UNCHANGED <<served, segments, ranges, save, tree, host, overlaps>>
    BY <1>1, FaultBound DEF Get, Active, BodyStart, StagingTypeOK
  <1>3. run \in [Procs -> Runs] /\ run[p] \in Runs /\ \A q \in Procs : Kept(run[q], run[q])
    BY DEF StagingTypeOK, Kept
  <1>4. RangeStart(run[p]) = run[p].resume + 1 /\ run[p].resume \in Nat /\ len \in Nat /\ at \in Nat
    <2>1. run[p].resume \in Nat /\ run[p].remoteLen \in Nat \cup {Unknown}
      BY <1>3 DEF Runs
    <2>2. LenOf[served] \in Nat
      BY LengthFacts DEF StagingTypeOK
    <2>3. at \in Nat /\ LenOf[served] + 1 - at \in Nat
      BY <2>2
    <2>4. (IF sized THEN LenOf[served] + 1 - at ELSE Unknown) \in Nat \cup {Unknown}
      BY <2>3
    <2>5. \A c \in Nat \cup {Unknown} : FileLen(run[p], c) \in Nat
      BY <2>1 DEF FileLen, OrZero, Unknown
    <2> QED BY <2>1, <2>3, <2>4, <2>5 DEF RangeStart
  <1>5. part' \in Files /\ part'.exists /\ AbsentInv'
    <2>1. (part' = part /\ part.exists) \/ part' = File(<<>>)
      BY <1>2 DEF Opened
    <2>2. <<>> \in Seq(Bytes)
      BY EmptySeq
    <2> QED BY <1>2, <2>1, <2>2, FileFacts DEF AbsentInv, StagingTypeOK
  <1>6. ASSUME Calm
        PROVE  CacheInv' /\ Size(part') = run[p].resume
    <2>1. run[p].resume = Size(part)
      BY <1>2, <1>6 DEF ProgressOf
    <2>2. CASE run[p].resume > 0
      <3>1. part.exists
        BY <2>1, <2>2, EmptySeq DEF AbsentInv, Size
      <3>2. part' = part
        BY <1>2, <2>2, <3>1 DEF Opened
      <3> QED BY <1>2, <1>6, <2>1, <3>2 DEF CacheInv, Size, Is
    <2>3. CASE ~(run[p].resume > 0)
      <3>1. part' = File(<<>>) /\ <<>> \in Seq(Bytes) /\ Prefix(0) = <<>>
        BY <1>2, <2>3, PrefixFacts, EmptySeq DEF Opened
      <3>2. Size(part') = 0 /\ part'.bytes = <<>>
        BY <3>1, FileFacts, EmptySeq DEF Size
      <3> QED BY <1>2, <1>4, <1>6, <2>3, <3>1, <3>2, LengthFacts DEF CacheInv, Size, Is
    <2> QED BY <2>2, <2>3
  <1>7. CASE DoubleCheck(run[p], len)
    <2>1. Fetched(p, run) /\ save' \in Files
      BY <1>1, <1>2, <1>7 DEF StagingTypeOK
    <2>2. save'.exists /\ (run[p].want # None => Is(save', run[p].want))
      BY <1>2, <1>7 DEF DoubleCheck
    <2> QED BY <1>2, <1>3, <1>5, <1>6, <2>1, <2>2, FetchedKeeps
  <1>8. CASE ~DoubleCheck(run[p], len)
    <2> DEFINE r == [run[p] EXCEPT !.fileLen = len, !.sized = sized, !.on = "part",
                                   !.v = served, !.at = at]
    <2> HIDE DEF len
    <2>1. served \in Versions
      BY DEF StagingTypeOK
    <2>2. /\ r \in Runs /\ r.on = "part" /\ r.v = served /\ r.at = at
          /\ r.alone = run[p].alone /\ r.remoteLen = run[p].remoteLen /\ r.attempt = run[p].attempt
      <3>1. r \in Runs
        BY <1>3, <1>4, <2>1 DEF Runs
      <3> QED BY <1>3, <3>1 DEF Runs
    <2>3. run' = [run EXCEPT ![p] = r] /\ pc' = [pc EXCEPT ![p] = "stream"]
      BY <1>1, <1>3, <1>8 DEF Goto, len
    <2>4. run'[p] = r /\ pc'[p] = "stream"
      BY <2>3 DEF StagingTypeOK
    <2> HIDE DEF r
    <2>5. StagingTypeOK'
      BY <1>2, <1>5, <2>2, <2>3 DEF StagingTypeOK
    <2>6. Frame(p)
      BY <1>2, <2>2, <2>3, <2>4 DEF Frame, StagingTypeOK, Kept, Active
    <2>7. LocalOf(p)' /\ WantOf(p)'
      BY <2>1, <2>2, <2>4, LengthFacts DEF LocalOf, WantOf
    <2>8. Calm /\ misled' = {} => ProgressOf(p)'
      BY <1>2, <1>4, <1>5, <1>6, <2>2, <2>4 DEF ProgressOf, Calm, Size
    <2> QED BY <1>5, <1>6, <2>5, <2>6, <2>7, <2>8, FrameKeeps
  <1> QED BY <1>7, <1>8

\* A byte more of a file is a file, and the next byte of a prefix makes the
\* next prefix, appended or in place.
LEMMA WrittenFacts ==
    ASSUME NEW f \in Files, NEW r \in Runs, r.v # None
    PROVE  Written(f, r) \in Files /\ Written(f, r).exists
  <1> DEFINE at == IF r.resume > 0 THEN Size(f) + 1 ELSE r.at
             n == IF at > Size(f) THEN at ELSE Size(f)
             b == [i \in 1..n |->
                     IF i = at THEN <<r.v, r.at>> ELSE IF i <= Size(f) THEN f.bytes[i] ELSE Hole]
  <1>1. Size(f) \in Nat /\ f.bytes \in Seq(Bytes)
    BY FileFacts DEF Files
  <1>2. n \in Nat
    BY <1>1 DEF Runs
  <1>3. <<r.v, r.at>> \in Bytes /\ Hole \in Bytes
    BY StagingAssumption DEF Runs, Bytes, Hole, Versions, None
  <1>4. \A i \in 1..Size(f) : f.bytes[i] \in Bytes
    BY <1>1, ElementOfSeq DEF Size
  <1> HIDE DEF n, at
  <1>5. b \in [1..n -> Bytes]
    BY <1>1, <1>2, <1>3, <1>4
  <1>6. b \in Seq(Bytes)
    BY <1>2, <1>5, IsASeq
  <1>7. Written(f, r) = File(b)
    BY DEF Written, at, n
  <1> QED BY <1>6, <1>7, FileFacts

\* The next byte makes a prefix a longer prefix.
LEMMA WrittenPrefix ==
    ASSUME NEW f \in Files, NEW r \in Runs,
           f.bytes = Prefix(Size(f)), r.v = 1, r.at = Size(f) + 1
    PROVE  Written(f, r).bytes = Prefix(Size(f) + 1) /\ Size(Written(f, r)) = Size(f) + 1
  <1> DEFINE n == Size(f)
  <1>1. n \in Nat
    BY FileFacts
  <1>2. \A i \in 1..n : f.bytes[i] = <<1, i>>
    BY DEF Prefix
  <1>3. (IF r.resume > 0 THEN n + 1 ELSE r.at) = n + 1 /\ n + 1 > n
    BY <1>1
  <1>4. Written(f, r) = File([i \in 1..(n + 1) |->
            IF i = n + 1 THEN <<r.v, r.at>> ELSE IF i <= n THEN f.bytes[i] ELSE Hole])
    BY <1>3 DEF Written
  <1>5. [i \in 1..(n + 1) |->
            IF i = n + 1 THEN <<r.v, r.at>> ELSE IF i <= n THEN f.bytes[i] ELSE Hole]
        = Prefix(n + 1)
    BY <1>1, <1>2 DEF Prefix
  <1>6. Prefix(n + 1) \in Seq(Bytes) /\ Len(Prefix(n + 1)) = n + 1
    BY <1>1, PrefixFacts
  <1> QED BY <1>4, <1>5, <1>6, FileFacts DEF Size

\* A byte of the body is written.
LEMMA StreamKeeps ==
    ASSUME StagingInv, NEW p \in Procs, Stream(p)
    PROVE  StagingInv'
  <1> USE DEF StagingInv
  <1> DEFINE r == [run[p] EXCEPT !.at = run[p].at + 1]
  <1>1. /\ pc[p] = "stream" /\ Active(p) /\ faults' \in Nat
        /\ run[p].at <= LenOf[run[p].v] /\ pc' = pc
        /\ part' = IF run[p].on = "part" THEN Written(part, run[p]) ELSE part
        /\ save' = IF run[p].on = "save" THEN Written(save, run[p]) ELSE save
        /\ UNCHANGED <<served, segments, ranges, tree, host, overlaps, misled>>
    BY FaultBound DEF Stream, Active
  <1>2. run[p] \in Runs /\ run[p].v # None /\ part \in Files /\ save \in Files
    BY <1>1 DEF StagingTypeOK, LocalOf
  <1>3. /\ r \in Runs /\ r.on = run[p].on /\ r.v = run[p].v /\ r.at = run[p].at + 1
        /\ r.alone = run[p].alone /\ r.remoteLen = run[p].remoteLen
    BY <1>2 DEF Runs
  <1>4. run' = [run EXCEPT ![p] = r]
    BY DEF Stream, StagingTypeOK
  <1>5. run'[p] = r
    BY <1>4 DEF StagingTypeOK
  <1> HIDE DEF r
  <1>6. part' \in Files /\ save' \in Files /\ AbsentInv'
    BY <1>1, <1>2, WrittenFacts DEF AbsentInv
  <1>7. StagingTypeOK'
    BY <1>1, <1>3, <1>4, <1>6 DEF StagingTypeOK
  <1>8. Frame(p)
    BY <1>1, <1>3, <1>4, <1>5 DEF Frame, StagingTypeOK, Kept, Active
  <1>9. LocalOf(p)' /\ WantOf(p)'
    BY <1>1, <1>2, <1>3, <1>5 DEF LocalOf, WantOf
  <1>10. ASSUME Calm
         PROVE  CacheInv' /\ ProgressOf(p)'
    <2>1. /\ run[p].on = "part" /\ run[p].v = 1 /\ run[p].at = Size(part) + 1 /\ Size(part) \in Nat
          /\ part.bytes = Prefix(Size(part))
      BY <1>1, <1>2, <1>10, FileFacts DEF ProgressOf, CacheInv
    <2>2. part'.bytes = Prefix(Size(part) + 1) /\ Size(part') = Size(part) + 1 /\ part'.exists
      BY <1>1, <1>2, <2>1, WrittenPrefix, WrittenFacts
    <2>3. Size(part) + 1 <= LenOf[1] /\ LenOf[1] \in Nat
      BY <1>1, <2>1, LengthFacts
    <2>4. CacheInv'
      BY <1>1, <1>10, <2>1, <2>2, <2>3 DEF CacheInv, Size, Is
    <2>5. ProgressOf(p)'
      BY <1>1, <1>3, <1>5, <1>10, <2>1, <2>2 DEF ProgressOf, Size
    <2> QED BY <2>4, <2>5
  <1> QED BY <1>6, <1>7, <1>8, <1>9, <1>10, FrameKeeps

\* The body ends, complete or broken.
LEMMA StreamEndKeeps ==
    ASSUME StagingInv, NEW p \in Procs, StreamEnd(p)
    PROVE  StagingInv'
  <1> USE DEF StagingInv, MisledGrows
  <1>1. /\ pc[p] = "stream" /\ Active(p) /\ faults' \in Nat
        /\ MisledGrows
        /\ UNCHANGED <<served, segments, ranges, part, save, tree, host, overlaps>>
    BY FaultBound DEF StreamEnd, Active, StagingTypeOK
  <1>2. CASE Fail(p) \/ RetryOrFail(p)
    BY <1>1, <1>2, FailKeeps, RetryKeeps
  <1>3. CASE /\ misled' = {} => run[p].at > LenOf[run[p].v]
             /\ Goto(p, "finish") /\ run' = [run EXCEPT ![p].on = "none"]
    <2> DEFINE r == [run[p] EXCEPT !.on = "none"]
    <2>1. run[p] \in Runs
      BY DEF StagingTypeOK
    <2>2. /\ r \in Runs /\ r.on = "none" /\ r.alone = run[p].alone
          /\ r.remoteLen = run[p].remoteLen
      BY <2>1 DEF Runs
    <2>3. run' = [run EXCEPT ![p] = r] /\ pc' = [pc EXCEPT ![p] = "finish"]
      BY <1>3 DEF Goto, StagingTypeOK
    <2>4. run'[p] = r /\ pc'[p] = "finish"
      BY <2>3 DEF StagingTypeOK
    <2> HIDE DEF r
    <2>5. StagingTypeOK'
      BY <1>1, <2>2, <2>3 DEF StagingTypeOK
    <2>6. Frame(p)
      BY <1>1, <2>2, <2>3, <2>4 DEF Frame, StagingTypeOK, Kept, Active
    <2>7. AbsentInv' /\ LocalOf(p)' /\ WantOf(p)'
      BY <1>1, <2>2, <2>4 DEF AbsentInv, LocalOf, WantOf
    <2>8. ASSUME Calm, misled' = {} PROVE CacheInv' /\ ProgressOf(p)'
      <3>1. part.exists /\ run[p].v = 1 /\ run[p].at = Size(part) + 1 /\ Size(part) <= LenOf[1]
        BY <1>1, <2>8 DEF ProgressOf, CacheInv
      <3>2. Size(part) = LenOf[1]
        BY <1>3, <2>8, <3>1, FileFacts, LengthFacts DEF StagingTypeOK
      <3> QED BY <1>1, <2>2, <2>4, <2>8, <3>1, <3>2 DEF CacheInv, ProgressOf, Size, Is
    <2> QED BY <2>5, <2>6, <2>7, <2>8, FrameKeeps
  <1> QED BY <1>2, <1>3 DEF StreamEnd, BodyEnded

\* The checks before the rename, and the rename.
LEMMA FinishKeeps ==
    ASSUME StagingInv, NEW p \in Procs, FinishDownload(p)
    PROVE  StagingInv'
  <1> USE DEF StagingInv
  <1>1. /\ pc[p] = "finish" /\ Active(p) /\ faults' \in Nat
        /\ UNCHANGED <<served, segments, ranges, tree, host, overlaps, misled>>
    BY FaultBound DEF FinishDownload, Active
  <1>2. CASE /\ part.exists /\ DigestOK(run[p])
             /\ save' = part /\ part' = Absent /\ Fetched(p, Follow("part", "save"))
    <2>1. run[p].want # None => Is(save', run[p].want)
      BY <1>2 DEF DigestOK, Is
    <2>2. AbsentInv' /\ part' \in Files /\ save' \in Files
      BY <1>2, FileFacts DEF AbsentInv, StagingTypeOK
    <2>3. ASSUME Calm PROVE CacheInv' /\ save'.exists
      <3>1. Size(part) = LenOf[1]
        BY <1>1, <2>3 DEF ProgressOf
      <3>2. part.exists /\ Is(part, 1)
        BY <2>3, <3>1, FullPrefix
      <3> QED BY <1>2, <3>2, NoPrefix, LengthFacts DEF CacheInv, Is, Size
    <2> QED BY <1>1, <1>2, <2>1, <2>2, <2>3, FetchedKeeps, FollowFacts, MisledKept
  <1>3. CASE Fail(p) /\ UNCHANGED <<part, save>>
    BY <1>1, <1>3, FailKeeps, MisledKept
  <1>4. CASE /\ part' = Absent /\ Goto(p, "failed")
             /\ run' = [Follow("part", "none") EXCEPT ![p] = Fresh] /\ UNCHANGED save
    <2> DEFINE F == Follow("part", "none")
    <2>1. F \in [Procs -> Runs] /\ \A q \in Procs : Kept(F[q], run[q])
      BY FollowFacts
    <2>2. run' = [F EXCEPT ![p] = Fresh] /\ pc' = [pc EXCEPT ![p] = "failed"]
      BY <1>4 DEF Goto
    <2> HIDE DEF F
    <2>3. run'[p] = Fresh /\ pc'[p] = "failed"
      BY <2>1, <2>2 DEF StagingTypeOK
    <2>4. StagingTypeOK'
      BY <1>1, <1>4, <2>1, <2>2, FreshType, FileFacts DEF StagingTypeOK
    <2>5. Frame(p)
      BY <1>1, <2>1, <2>2, <2>3 DEF Frame, StagingTypeOK, Active
    <2>6. AbsentInv' /\ LocalOf(p)' /\ WantOf(p)'
      BY <1>4, <2>3, FileFacts DEF AbsentInv, LocalOf, WantOf, Fresh
    <2>7. Calm => CacheInv'
      BY <1>4, NoPrefix, LengthFacts DEF CacheInv, Size, Is
    <2>8. ProgressOf(p)'
      BY <2>3 DEF ProgressOf, Fresh
    <2> QED BY <2>4, <2>5, <2>6, <2>7, <2>8, FrameKeeps
  <1> QED BY <1>2, <1>3, <1>4 DEF FinishDownload

\* The extraction empties its directory.
LEMMA WipeKeeps ==
    ASSUME StagingInv, NEW p \in Procs, Wipe(p)
    PROVE  StagingInv'
  <1> USE DEF StagingInv
  <1>1. /\ pc[p] = "extract" /\ Active(p) /\ faults' \in Nat
        /\ UNCHANGED <<served, segments, ranges, part, save, host, overlaps, misled>>
    BY FaultBound DEF Wipe, Active
  <1>2. CASE ~save.exists
    BY <1>1, <1>2, FailKeeps, MisledKept DEF Wipe
  <1>3. CASE save.exists
    <2>1. pc' = [pc EXCEPT ![p] = "unpack"] /\ tree' = <<>> /\ run' = run
      BY <1>3 DEF Wipe, Goto
    <2>2. pc'[p] = "unpack"
      BY <2>1 DEF StagingTypeOK
    <2>3. StagingTypeOK' /\ Frame(p)
      BY <1>1, <2>1, <2>2, EmptySeq DEF StagingTypeOK, Frame, Kept, Active
    <2>4. AbsentInv' /\ LocalOf(p)' /\ WantOf(p)'
      BY <1>1, <2>1, <2>2 DEF AbsentInv, LocalOf, WantOf, Is
    <2>5. Calm => CacheInv' /\ ProgressOf(p)'
      BY <1>1, <1>3, <2>1, <2>2 DEF CacheInv, ProgressOf, Is, Size
    <2> QED BY <2>3, <2>4, <2>5, FrameKeeps
  <1> QED BY <1>2, <1>3

\* The archive is unpacked.
LEMMA UnpackKeeps ==
    ASSUME StagingInv, NEW p \in Procs, Unpack(p)
    PROVE  StagingInv'
  <1> USE DEF StagingInv
  <1>1. /\ pc[p] = "unpack" /\ Active(p) /\ faults' \in Nat
        /\ UNCHANGED <<served, segments, ranges, part, save, host, overlaps, misled>>
    BY FaultBound DEF Unpack, Active
  <1>2. CASE Fail(p) /\ UNCHANGED tree
    BY <1>1, <1>2, FailKeeps, MisledKept
  <1>3. CASE save.exists /\ tree' = save.bytes /\ Goto(p, "upload") /\ UNCHANGED run
    <2>1. pc' = [pc EXCEPT ![p] = "upload"] /\ pc'[p] = "upload" /\ run' = run
      BY <1>3 DEF Goto, StagingTypeOK
    <2>2. tree' \in Seq(Bytes)
      BY <1>3 DEF StagingTypeOK, Files
    <2>3. StagingTypeOK' /\ Frame(p)
      BY <1>1, <2>1, <2>2 DEF StagingTypeOK, Frame, Kept, Active
    <2>4. \A v \in Versions : Is(save, v) => tree' = Whole(v)
      BY <1>3, WholeFacts, FileFacts DEF Is
    <2>5. run[p].want \in Versions \cup {None}
      BY DEF StagingTypeOK, Runs
    <2>6. AbsentInv' /\ LocalOf(p)' /\ WantOf(p)'
      BY <1>1, <2>1, <2>4, <2>5 DEF AbsentInv, LocalOf, WantOf
    <2>7. Calm => CacheInv' /\ ProgressOf(p)'
      BY <1>1, <1>3, <2>1, <2>4, LengthFacts DEF CacheInv, ProgressOf, Is, Size
    <2> QED BY <2>3, <2>6, <2>7, FrameKeeps
  <1> QED BY <1>2, <1>3 DEF Unpack

\* The unpacked tree goes to the host.
LEMMA UploadKeeps ==
    ASSUME StagingInv, NEW p \in Procs, Upload(p)
    PROVE  StagingInv'
  <1> USE DEF StagingInv
  <1>1. /\ pc[p] = "upload" /\ Active(p) /\ faults' \in Nat
        /\ UNCHANGED <<served, segments, ranges, part, save, tree, overlaps, misled>>
    BY FaultBound DEF Upload, Active
  <1>2. CASE Fail(p) /\ UNCHANGED host
    BY <1>1, <1>2, FailKeeps, MisledKept
  <1>3. CASE host' = [host EXCEPT ![p] = tree] /\ Goto(p, "done") /\ UNCHANGED run
    <2>1. /\ pc' = [pc EXCEPT ![p] = "done"] /\ pc'[p] = "done" /\ run' = run
          /\ host'[p] = tree
      BY <1>3 DEF Goto, StagingTypeOK
    <2>2. StagingTypeOK' /\ Frame(p)
      BY <1>1, <1>3, <2>1 DEF StagingTypeOK, Frame, Kept, Active
    <2>3. AbsentInv' /\ LocalOf(p)' /\ WantOf(p)'
      BY <1>1, <2>1 DEF AbsentInv, LocalOf, WantOf
    <2>4. Calm => CacheInv' /\ ProgressOf(p)'
      BY <1>1, <2>1 DEF CacheInv, ProgressOf, Is, Size
    <2> QED BY <2>2, <2>3, <2>4, FrameKeeps
  <1> QED BY <1>2, <1>3 DEF Upload

\* Every step keeps the invariant.
LEMMA StagingStep == StagingInv /\ [StagingNext]_stagingVars => StagingInv'
  <1> SUFFICES ASSUME StagingInv, [StagingNext]_stagingVars PROVE StagingInv'
    OBVIOUS
  <1>1. CASE Republish
    <2> USE DEF StagingInv
    <2>1. /\ served' = served + 1 /\ served' \in Versions
          /\ UNCHANGED <<segments, ranges, faults, part, save, tree, pc, run, host, overlaps, misled>>
      BY <1>1, StagingAssumption DEF Republish, StagingTypeOK, Versions
    <2>2. StagingTypeOK'
      BY <2>1 DEF StagingTypeOK
    <2>3. AbsentInv' /\ AloneInv' /\ \A p \in Procs : LocalOf(p)' /\ WantOf(p)'
      BY <2>1 DEF AbsentInv, AloneInv, LocalOf, WantOf, Active, Is
    <2>4. ~Calm'
      BY <2>1, LengthFacts DEF Calm, StagingTypeOK, Versions
    <2> QED BY <2>2, <2>3, <2>4
  <1>2. CASE UNCHANGED stagingVars
    <2> USE <1>2 DEF StagingInv, stagingVars
    <2>1. StagingTypeOK'
      BY DEF StagingTypeOK
    <2>2. AbsentInv' /\ AloneInv' /\ \A p \in Procs : LocalOf(p)' /\ WantOf(p)'
      BY DEF AbsentInv, AloneInv, LocalOf, WantOf, Active, Is
    <2>3. Calm' => CacheInv' /\ \A p \in Procs : ProgressOf(p)'
      BY DEF Calm, CacheInv, ProgressOf, Is, Size
    <2> QED BY <2>1, <2>2, <2>3
  <1>3. ASSUME NEW p \in Procs, Step(p) \/ Crash(p) PROVE StagingInv'
    BY <1>3, CrashKeeps, StartKeeps, ResolveKeeps, CachedKeeps, AttemptKeeps, GetFailsKeeps,
       GetKeeps, StreamKeeps, StreamEndKeeps, FinishKeeps, WipeKeeps, UnpackKeeps, UploadKeeps
       DEF Step
  <1> QED BY <1>1, <1>2, <1>3 DEF StagingNext, StagingEnded

-----------------------------------------------------------------------------
\* Whatever breaks, crashes, overlaps or is republished: the types, and what
\* the cache and the invocations know of each other.
THEOREM StagingInvariant == StagingSpec => []StagingInv
  BY StagingBegins, StagingStep, PTL DEF StagingSpec

\* The archive is never torn under the name the extraction reads, while one
\* invocation at a time downloads one publication and the server gives no false
\* length, early end or wrong range (DownloadTask::execute).
THEOREM ArchiveIsWhole == StagingSpec => []CacheNeverTorn
  <1>1. StagingInv => CacheNeverTorn
    BY DEF StagingInv, CacheInv, Calm, CacheNeverTorn
  <1> QED BY <1>1, StagingInvariant, PTL

\* A staging that succeeded has put the only publication there is on its host,
\* if runs did not overlap and the server's answers were true, and the one with
\* its digest, where the URL is long enough to have one looked up, in any case
\* in which it was alone.
THEOREM StagedIsGenuine == StagingSpec => []DoneMeansGenuine
  <1>1. StagingInv => DoneMeansGenuine
    BY DEF StagingInv, WantOf, ProgressOf, Calm, DoneMeansGenuine
  <1> QED BY <1>1, StagingInvariant, PTL
=============================================================================
