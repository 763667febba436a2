------------------------ MODULE LakeWorkloadsProofs ------------------------
(***************************************************************************)
(* Proofs about LakeWorkloads: what readings and verdict of lake status    *)
(* are worth, for any list of workloads, any timeouts and any cluster.     *)
(***************************************************************************)
EXTENDS LakeWorkloads, TLAPS

(* Between what the workload was and what it is.                           *)
Between(w, state) ==
    /\ Reached(w, before[w]) <= Reported(state)
    /\ Reported(state) <= Reached(w, actual[w])

(* A workload does not fall behind what it was.                            *)
Advanced ==
    \A w \in Workloads : Reached(w, before[w]) <= Reached(w, actual[w])

(* The answer a Job may be left with is as good as a reading.              *)
AnswerIsBounded ==
    wpc \in {"decide", "sleep"} =>
        /\ IsJob(Current)
        /\ wpc = "decide" =>
             /\ answer \in {"progressing", "degraded"}
             /\ ~disturbed => Between(Current, answer)

Reports ==
    wpc = "done" /\ Expected # <<>> =>
        Len(readings) = Len(Expected) /\ verdict = DeploymentState(readings)

Beginning == wpc = "idle" => readings = <<>> /\ wat = 1 /\ nap = 0 /\ before = actual

WorkloadsInv ==
    /\ WorkloadsTypeOK
    /\ Len(readings) <= Len(Expected)
    /\ Beginning
    /\ ~disturbed => Advanced
    /\ AnswerIsBounded
    /\ ReadingsAreBounded
    /\ Reports

-----------------------------------------------------------------------------
LEMMA ExpectedAre ==
    /\ Expected \in Seq(Workloads)
    /\ Len(Expected) \in Nat
    /\ \A i \in 1..Len(Expected) : Expected[i] \in Workloads
  BY WorkloadsAssumption

LEMMA ClusterStates ==
    ASSUME NEW c \in Clusters, NEW w \in Workloads
    PROVE  c[w] \in StatesOf(w)
  BY DEF Clusters

LEMMA ReachedRange ==
    ASSUME NEW w, NEW s
    PROVE  Reached(w, s) \in 0..2
  BY DEF Reached

(* A reading says how far the workload has come.                           *)
LEMMA ReadingReports ==
    ASSUME NEW w \in Workloads, NEW s \in StatesOf(w)
    PROVE  /\ Reading(w, s) \in WorkloadStates \ {"unknown"}
           /\ Reported(Reading(w, s)) = Reached(w, s)
           /\ ~IsJob(w) => Reading(w, s) \in {"missing", "progressing", "ready"}
<1>1. CASE s = Absent
  BY <1>1 DEF Reading, Reported, Reached, WorkloadStates
<1>2. CASE s # Absent /\ IsJob(w)
  BY <1>2 DEF Reading, Reported, Reached, WorkloadStates, IsJob, StatesOf, Jobs,
     JobReading, Healthy
<1>3. CASE s # Absent /\ ~IsJob(w)
  <2>1. KindOf[w] \in {"Deployment", "StatefulSet"} /\ KindOf[w] # "Job"
    BY <1>3, WorkloadsAssumption DEF IsJob, Kinds
  <2>2. /\ s.desired \in Nat /\ s.ready \in Nat /\ s.available \in Nat
        /\ s.available <= s.ready
    BY <1>3, WorkloadsAssumption DEF StatesOf, Replicas
  <2>3. s.ready >= DesiredReplicas(s) <=> Healthy(w, s)
    BY <1>3, <2>2 DEF DesiredReplicas, Healthy
  <2>4. Reading(w, s) = IF s.ready >= DesiredReplicas(s) THEN "ready" ELSE "progressing"
    BY <1>3, <2>1, <2>2 DEF Reading, DeploymentReading, StatefulSetReading, IsJob
  <2> QED
    BY <1>3, <2>3, <2>4 DEF Reported, Reached, WorkloadStates
<1> QED
  BY <1>1, <1>2, <1>3

LEMMA WorkloadsInitially == WorkloadsInit => WorkloadsInv
<1> SUFFICES ASSUME WorkloadsInit PROVE WorkloadsInv
  OBVIOUS
<1>1. WorkloadsTypeOK
  <2>1. JobTimeout \in Nat /\ <<>> \in Seq(WorkloadStates)
    BY WorkloadsAssumption DEF PollingOptions
  <2>2. actual \in Clusters /\ before \in Clusters
    BY DEF WorkloadsInit
  <2>3. /\ wpc = "idle" /\ wat = 1 /\ left = 0 /\ nap = 0 /\ answer = "unknown"
        /\ readings = <<>> /\ verdict = "unknown" /\ disturbed = FALSE
    BY DEF WorkloadsInit
  <2>4. left \in 0..JobTimeout /\ nap \in 0..left /\ wat \in Nat \ {0}
    BY <2>1, <2>3
  <2>5. /\ wpc \in Phases /\ answer \in WorkloadStates /\ verdict \in DeploymentStates
        /\ disturbed \in BOOLEAN /\ wpc \notin {"read", "decide", "sleep"}
    BY <2>3 DEF WorkloadsInit, Phases, WorkloadStates, DeploymentStates
  <2> QED
    BY <2>1, <2>2, <2>3, <2>4, <2>5 DEF WorkloadsTypeOK
<1>2. Advanced
  BY ReachedRange DEF Advanced, WorkloadsInit
<1> QED
  BY <1>1, <1>2, ExpectedAre DEF WorkloadsInit, WorkloadsInv, Beginning,
     AnswerIsBounded, ReadingsAreBounded, Reports

-----------------------------------------------------------------------------
(* Steps of the inspection.                                                *)

(* One state is kept.                                                      *)
LEMMA RecordKeeps ==
    ASSUME WorkloadsInv, wpc \in {"read", "decide"}, NEW s \in WorkloadStates,
           Record(s), ~disturbed /\ s # "unknown" => Between(Current, s)
    PROVE  WorkloadsInv'
<1>1. /\ WorkloadsTypeOK /\ wat \in 1..Len(Expected) /\ Len(readings) = wat - 1
      /\ readings \in Seq(WorkloadStates) /\ Expected # <<>>
      /\ Len(Expected) \in Nat /\ wat \in Nat
  BY ExpectedAre DEF WorkloadsInv, WorkloadsTypeOK
<1>2. /\ readings' = Append(readings, s) /\ nap' = 0
      /\ actual' = actual /\ before' = before /\ disturbed' = disturbed
      /\ answer' = answer
  BY DEF Record
<1>3. /\ readings' \in Seq(WorkloadStates) /\ Len(readings') = wat
      /\ \A i \in 1..wat : readings'[i] = IF i = wat THEN s ELSE readings[i]
  BY <1>1, <1>2
<1>4. JobTimeout \in Nat /\ left \in 0..JobTimeout
  BY <1>1, WorkloadsAssumption DEF PollingOptions, WorkloadsTypeOK
<1>5. \/ wat < Len(Expected) /\ wat' = wat + 1 /\ wpc' = "read" /\ left' = JobTimeout
         /\ verdict' = verdict
      \/ wat = Len(Expected) /\ wat' = wat /\ wpc' = "done" /\ left' = left
         /\ verdict' = DeploymentState(readings')
  BY <1>2 DEF Record
<1>6. DeploymentState(readings') \in DeploymentStates
  BY DEF DeploymentState, DeploymentStates
<1>7. left' \in 0..JobTimeout /\ nap' \in 0..left'
  <2>1. left' = JobTimeout \/ left' = left
    BY <1>5
  <2> QED
    BY <1>2, <1>4, <2>1
<1>8. /\ wat' \in Nat \ {0} /\ wpc' \in Phases
      /\ wpc' \in {"read", "decide", "sleep"} =>
           wat' \in 1..Len(Expected) /\ Len(readings') = wat' - 1
      /\ Len(readings') <= Len(Expected)
  <2>1. CASE wat < Len(Expected) /\ wat' = wat + 1 /\ wpc' = "read"
    BY <1>1, <1>3, <2>1 DEF Phases
  <2>2. CASE wat = Len(Expected) /\ wat' = wat /\ wpc' = "done"
    BY <1>1, <1>3, <2>2 DEF Phases
  <2> QED
    BY <1>5, <2>1, <2>2
<1>9. WorkloadsTypeOK'
  <2>1. verdict' \in DeploymentStates
    BY <1>1, <1>5, <1>6 DEF WorkloadsTypeOK
  <2>2. /\ actual' \in Clusters /\ before' \in Clusters /\ disturbed' \in BOOLEAN
        /\ answer' \in WorkloadStates
    BY <1>1, <1>2 DEF WorkloadsTypeOK
  <2> QED
    BY <1>3, <1>7, <1>8, <2>1, <2>2 DEF WorkloadsTypeOK
<1>10. ReadingsAreBounded'
  <2> SUFFICES ASSUME ~disturbed, NEW i \in 1..wat, readings'[i] # "unknown"
               PROVE  Between(Expected[i], readings'[i])
    BY <1>2, <1>3 DEF ReadingsAreBounded, Between
  <2>1. CASE i = wat
    BY <1>3, <2>1 DEF Current
  <2>2. CASE i # wat
    <3>1. i \in 1..Len(readings) /\ readings'[i] = readings[i]
      BY <1>1, <1>3, <2>2
    <3> QED
      BY <3>1 DEF WorkloadsInv, ReadingsAreBounded, Between
  <2> QED
    BY <2>1, <2>2
<1>11. Reports'
  BY <1>1, <1>3, <1>5 DEF Reports
<1>12. (~disturbed => Advanced)' /\ Beginning' /\ AnswerIsBounded'
  BY <1>2, <1>5 DEF WorkloadsInv, Advanced, Beginning, AnswerIsBounded
<1> QED
  BY <1>8, <1>9, <1>10, <1>11, <1>12 DEF WorkloadsInv

LEMMA BeginKeeps == WorkloadsInv /\ BeginInspection => WorkloadsInv'
<1> SUFFICES ASSUME WorkloadsInv, BeginInspection PROVE WorkloadsInv'
  OBVIOUS
<1>1. /\ wpc = "idle" /\ wat = 1 /\ nap = 0 /\ readings = <<>> /\ before = actual
      /\ WorkloadsTypeOK
  BY DEF BeginInspection, WorkloadsInv, Beginning
<1>2. /\ before' = actual /\ actual' = actual /\ wat' = wat /\ nap' = nap
      /\ answer' = answer /\ readings' = readings /\ disturbed' = disturbed
  BY DEF BeginInspection
<1>3. \/ Expected = <<>> /\ verdict' = DeploymentState(<<>>) /\ wpc' = "done" /\ left' = left
      \/ Expected # <<>> /\ wpc' = "read" /\ left' = JobTimeout /\ verdict' = verdict
  BY DEF BeginInspection
<1>4. JobTimeout \in Nat /\ left \in 0..JobTimeout
  BY <1>1, WorkloadsAssumption DEF PollingOptions, WorkloadsTypeOK
<1>5. left' \in 0..JobTimeout /\ nap' \in 0..left'
  <2>1. left' = JobTimeout \/ left' = left
    BY <1>3
  <2> QED
    BY <1>1, <1>2, <1>4, <2>1
<1>6. verdict' \in DeploymentStates
  BY <1>1, <1>3 DEF WorkloadsTypeOK, DeploymentState, DeploymentStates
<1>7. Expected # <<>> => 1 \in 1..Len(Expected)
  BY ExpectedAre
<1>8. WorkloadsTypeOK'
  <2>1. wpc' \in Phases /\ wat' \in Nat \ {0}
    BY <1>1, <1>2, <1>3 DEF Phases
  <2>2. wpc' \in {"read", "decide", "sleep"} =>
          wat' \in 1..Len(Expected) /\ Len(readings') = wat' - 1
    BY <1>1, <1>2, <1>3, <1>7
  <2>3. /\ actual' \in Clusters /\ before' \in Clusters /\ disturbed' \in BOOLEAN
        /\ answer' \in WorkloadStates /\ readings' \in Seq(WorkloadStates)
    BY <1>1, <1>2 DEF WorkloadsTypeOK
  <2> QED
    BY <1>5, <1>6, <2>1, <2>2, <2>3 DEF WorkloadsTypeOK
<1>9. Advanced'
  <2>1. \A w \in Workloads : Reached(w, actual[w]) <= Reached(w, actual[w])
    BY ReachedRange
  <2> QED
    BY <1>2, <2>1 DEF Advanced
<1> QED
  BY <1>1, <1>2, <1>3, <1>8, <1>9, ExpectedAre
  DEF WorkloadsInv, Beginning, AnswerIsBounded, ReadingsAreBounded, Reports

(* What is read now lies between what was and what is.                     *)
LEMMA ReadingIsBounded ==
    ASSUME WorkloadsInv, wpc = "read"
    PROVE  /\ Current \in Workloads
           /\ Reading(Current, actual[Current]) \in WorkloadStates \ {"unknown"}
           /\ ~disturbed => Between(Current, Reading(Current, actual[Current]))
<1>1. wat \in 1..Len(Expected) /\ actual \in Clusters /\ (~disturbed => Advanced)
  BY DEF WorkloadsInv, WorkloadsTypeOK
<1>2. Current \in Workloads
  BY <1>1, ExpectedAre DEF Current
<1>3. actual[Current] \in StatesOf(Current)
  BY <1>1, <1>2, ClusterStates
<1>4. /\ Reading(Current, actual[Current]) \in WorkloadStates \ {"unknown"}
      /\ Reported(Reading(Current, actual[Current])) = Reached(Current, actual[Current])
  BY <1>2, <1>3, ReadingReports
<1>5. Reached(Current, actual[Current]) \in 0..2
  BY ReachedRange
<1> QED
  BY <1>1, <1>2, <1>4, <1>5 DEF Between, Advanced

(* Steps that keep the readings and move the clock or the phase.           *)
LEMMA WaitingKeeps ==
    ASSUME WorkloadsInv, Inspecting,
           UNCHANGED <<actual, wat, readings, verdict, before, disturbed>>,
           wpc' \in {"read", "decide", "sleep"},
           answer' \in WorkloadStates,
           left' \in 0..JobTimeout, nap' \in 0..left',
           AnswerIsBounded'
    PROVE  WorkloadsInv'
<1>1. WorkloadsTypeOK'
  BY DEF WorkloadsInv, WorkloadsTypeOK, Inspecting, Phases
<1>2. /\ Len(readings') <= Len(Expected) /\ Beginning' /\ (~disturbed => Advanced)'
      /\ ReadingsAreBounded' /\ Reports'
  BY DEF WorkloadsInv, Beginning, Advanced, ReadingsAreBounded, Reports
<1> QED
  BY <1>1, <1>2 DEF WorkloadsInv

LEMMA InspectionStepKeeps == WorkloadsInv /\ InspectionStep => WorkloadsInv'
<1> SUFFICES ASSUME WorkloadsInv, InspectionStep PROVE WorkloadsInv'
  OBVIOUS
<1>0. /\ answer \in WorkloadStates /\ left \in 0..JobTimeout /\ nap \in 0..left
      /\ JobTimeout \in Nat /\ PollInterval \in Nat
  BY WorkloadsAssumption DEF WorkloadsInv, WorkloadsTypeOK, PollingOptions
<1>1. CASE ReadReplicas
  BY <1>1, ReadingIsBounded, RecordKeeps DEF ReadReplicas
<1>2. CASE ReadRefused
  BY <1>2, RecordKeeps DEF ReadRefused, WorkloadStates
<1>3. CASE PollSettled
  BY <1>3, ReadingIsBounded, RecordKeeps DEF PollSettled
<1>4. CASE PollUnsettled
  <2>1. AnswerIsBounded'
    BY <1>4, ReadingIsBounded DEF PollUnsettled, AnswerIsBounded, Between, Current
  <2>2. answer' \in WorkloadStates /\ Inspecting /\ wpc' = "decide"
        /\ UNCHANGED <<actual, wat, left, nap, readings, verdict, before, disturbed>>
    BY <1>4, ReadingIsBounded DEF PollUnsettled, Inspecting
  <2> QED
    BY <1>0, <2>1, <2>2, WaitingKeeps
<1>5. CASE Expire
  <2>1. wpc = "decide" /\ Record(answer)
    BY <1>5 DEF Expire
  <2>2. ~disturbed => Between(Current, answer)
    BY <2>1 DEF WorkloadsInv, AnswerIsBounded
  <2> QED
    BY <1>0, <2>1, <2>2, RecordKeeps
<1>6. CASE Sleep
  <2>1. AnswerIsBounded'
    BY <1>6 DEF Sleep, WorkloadsInv, AnswerIsBounded, Current
  <2>2. nap' \in 0..left /\ left' = left
    BY <1>0, <1>6 DEF Sleep
  <2> QED
    BY <1>0, <1>6, <2>1, <2>2, WaitingKeeps DEF Sleep, Inspecting
<1>7. CASE Wake
  <2>1. AnswerIsBounded'
    BY <1>7 DEF Wake, AnswerIsBounded
  <2> QED
    BY <1>0, <1>7, <2>1, WaitingKeeps DEF Wake, Inspecting
<1> QED
  BY <1>1, <1>2, <1>3, <1>4, <1>5, <1>6, <1>7 DEF InspectionStep

LEMMA TickKeeps == WorkloadsInv /\ Tick => WorkloadsInv'
<1> SUFFICES ASSUME WorkloadsInv, Tick PROVE WorkloadsInv'
  OBVIOUS
<1>1. /\ answer \in WorkloadStates /\ left \in 0..JobTimeout /\ nap \in 0..left
      /\ JobTimeout \in Nat /\ left > 0
  BY WorkloadsAssumption DEF WorkloadsInv, WorkloadsTypeOK, PollingOptions, Tick
<1>2. left' \in 0..JobTimeout /\ nap' \in 0..left'
  BY <1>1 DEF Tick
<1>3. AnswerIsBounded'
  BY DEF Tick, WorkloadsInv, AnswerIsBounded, Between, Current
<1> QED
  BY <1>1, <1>2, <1>3, WaitingKeeps DEF Tick, Inspecting

-----------------------------------------------------------------------------
(* Steps of the cluster.                                                   *)
LEMMA BecomesKeeps ==
    ASSUME WorkloadsInv, NEW w \in Workloads, NEW s \in StatesOf(w), Becomes(w, s),
           disturbed' \in BOOLEAN,
           wpc # "idle" /\ ~disturbed' =>
               ~disturbed /\ Reached(w, actual[w]) <= Reached(w, s)
    PROVE  WorkloadsInv'
<1>1. /\ WorkloadsTypeOK /\ actual \in Clusters /\ before \in Clusters
      /\ UNCHANGED <<wpc, wat, left, nap, answer, readings, verdict>>
      /\ actual' = [actual EXCEPT ![w] = s]
      /\ before' = IF wpc = "idle" \/ disturbed' THEN actual' ELSE before
  BY DEF WorkloadsInv, WorkloadsTypeOK, Becomes
<1>2. actual' \in Clusters
  <2>1. s \in {Absent} \cup Jobs \cup Replicas
    BY DEF StatesOf
  <2>2. actual' \in [Workloads -> {Absent} \cup Jobs \cup Replicas]
    BY <1>1, <2>1 DEF Clusters
  <2>3. \A v \in Workloads : actual'[v] = IF v = w THEN s ELSE actual[v]
    BY <1>1 DEF Clusters
  <2>4. \A v \in Workloads : actual'[v] \in StatesOf(v)
    BY <1>1, <2>3, ClusterStates
  <2> QED
    BY <2>2, <2>4 DEF Clusters
<1>3. WorkloadsTypeOK'
  <2>1. before' \in Clusters
    BY <1>1, <1>2
  <2> QED
    BY <1>1, <1>2, <2>1 DEF WorkloadsTypeOK
<1>4. wpc # "idle" /\ ~disturbed' =>
        /\ ~disturbed /\ before' = before
        /\ \A v \in Workloads : Reached(v, actual[v]) <= Reached(v, actual'[v])
  <2>1. \A v \in Workloads : actual'[v] = IF v = w THEN s ELSE actual[v]
    BY <1>1 DEF Clusters
  <2>2. \A v \in Workloads : Reached(v, actual[v]) <= Reached(v, actual[v])
    BY ReachedRange
  <2> QED
    BY <1>1, <2>1, <2>2
<1>5. (~disturbed => Advanced)'
  <2>1. CASE wpc = "idle" \/ disturbed'
    <3>1. \A v \in Workloads : Reached(v, actual'[v]) <= Reached(v, actual'[v])
      BY ReachedRange
    <3> QED
      BY <1>1, <2>1, <3>1 DEF Advanced
  <2>2. CASE wpc # "idle" /\ ~disturbed'
    <3> SUFFICES ASSUME NEW v \in Workloads
                 PROVE  Reached(v, before[v]) <= Reached(v, actual'[v])
      BY <1>4, <2>2 DEF Advanced
    <3>1. /\ Reached(v, before[v]) <= Reached(v, actual[v])
          /\ Reached(v, actual[v]) <= Reached(v, actual'[v])
      BY <1>4, <2>2 DEF WorkloadsInv, Advanced
    <3>2. /\ Reached(v, before[v]) \in 0..2 /\ Reached(v, actual[v]) \in 0..2
          /\ Reached(v, actual'[v]) \in 0..2
      BY ReachedRange
    <3> QED
      BY <3>1, <3>2
  <2> QED
    BY <2>1, <2>2
<1>6. ASSUME wpc # "idle", ~disturbed', NEW v \in Workloads, NEW state \in WorkloadStates,
             state # "unknown", Between(v, state)
      PROVE  Between(v, state)'
  <2>1. /\ before' = before /\ Reported(state) <= Reached(v, actual[v])
        /\ Reached(v, actual[v]) <= Reached(v, actual'[v])
        /\ Reached(v, before[v]) <= Reported(state)
    BY <1>4, <1>6 DEF Between
  <2>2. /\ Reached(v, actual[v]) \in 0..2 /\ Reached(v, actual'[v]) \in 0..2
        /\ Reported(state) \in 0..2
    BY <1>6, ReachedRange DEF Reported, WorkloadStates
  <2> QED
    BY <2>1, <2>2 DEF Between
<1>7. ReadingsAreBounded'
  <2>1. CASE wpc = "idle" \/ disturbed'
    <3>1. wpc = "idle" => readings' = <<>>
      BY <1>1 DEF WorkloadsInv, Beginning
    <3> QED
      BY <2>1, <3>1 DEF ReadingsAreBounded
  <2>2. CASE wpc # "idle" /\ ~disturbed'
    <3> SUFFICES ASSUME NEW i \in 1..Len(readings), readings[i] # "unknown"
                 PROVE  Between(Expected[i], readings[i])'
      BY <1>1 DEF ReadingsAreBounded, Between
    <3>1. Between(Expected[i], readings[i])
      BY <1>4, <2>2 DEF WorkloadsInv, ReadingsAreBounded, Between
    <3>2. readings[i] \in WorkloadStates
      BY <1>1 DEF WorkloadsTypeOK
    <3>3. i \in 1..Len(Expected)
      <4>1. Len(readings) <= Len(Expected) /\ Len(readings) \in Nat /\ Len(Expected) \in Nat
        BY <1>1, ExpectedAre DEF WorkloadsInv, WorkloadsTypeOK
      <4> QED
        BY <4>1
    <3>4. Expected[i] \in Workloads
      BY <3>3, ExpectedAre
    <3>5. Between(Expected[i], readings[i]) = (
             /\ Reached(Expected[i], before[Expected[i]]) <= Reported(readings[i])
             /\ Reported(readings[i]) <= Reached(Expected[i], actual[Expected[i]]))
      BY DEF Between
    <3> QED
      BY <1>1, <1>6, <2>2, <3>1, <3>2, <3>4 DEF Between
  <2> QED
    BY <2>1, <2>2
<1>8. AnswerIsBounded'
  <2> SUFFICES ASSUME wpc = "decide", ~disturbed'
               PROVE  Between(Current, answer)'
    BY <1>1 DEF WorkloadsInv, AnswerIsBounded, Current
  <2>1. /\ answer \in {"progressing", "degraded"} /\ Between(Current, answer)
        /\ wat \in 1..Len(Expected)
    BY <1>1, <1>4 DEF WorkloadsInv, AnswerIsBounded, WorkloadsTypeOK
  <2>2. Current \in Workloads /\ answer \in WorkloadStates /\ answer # "unknown"
    BY <2>1, ExpectedAre DEF Current, WorkloadStates
  <2> QED
    BY <1>1, <1>6, <2>1, <2>2 DEF Between, Current
<1> QED
  BY <1>1, <1>3, <1>5, <1>7, <1>8 DEF WorkloadsInv, Beginning, Reports

(* Progress brings a workload on, and never back.                          *)
LEMMA ProgressKeeps == WorkloadsInv /\ Progress => WorkloadsInv'
<1> SUFFICES ASSUME WorkloadsInv, Progress PROVE WorkloadsInv'
  OBVIOUS
<1>1. PICK w \in Workloads : Applied(w) \/ PodReady(w) \/ JobMoves(w)
  BY DEF Progress
<1>2. disturbed' = disturbed /\ disturbed \in BOOLEAN /\ actual \in Clusters
  BY DEF Progress, WorkloadsInv, WorkloadsTypeOK
<1>3. actual[w] \in StatesOf(w) /\ MaxReplicas \in Nat \ {0}
  BY <1>2, ClusterStates, WorkloadsAssumption
<1>4. ASSUME NEW s \in StatesOf(w), Becomes(w, s), Reached(w, actual[w]) <= Reached(w, s)
      PROVE  WorkloadsInv'
  BY <1>2, <1>4, BecomesKeeps
<1>5. CASE Applied(w)
  <2>1. PICK s : /\ Becomes(w, s)
                 /\ \/ IsJob(w) /\ s = [phase |-> "running"]
                    \/ /\ ~IsJob(w)
                       /\ \E n \in 1..MaxReplicas :
                            s = [desired |-> n, ready |-> 0, available |-> 0]
    BY <1>5 DEF Applied
  <2>2. s \in StatesOf(w)
    BY <1>3, <2>1 DEF StatesOf, Jobs, Replicas
  <2>3. Reached(w, actual[w]) = 0 /\ Reached(w, s) \in 0..2
    BY <1>5, ReachedRange DEF Applied, Reached
  <2> QED
    BY <1>4, <2>1, <2>2, <2>3
<1>6. CASE PodReady(w)
  <2>1. /\ actual[w] \in Replicas /\ ~IsJob(w) /\ actual[w] # Absent
    BY <1>3, <1>6 DEF PodReady, StatesOf
  <2>2. /\ actual[w].desired \in 0..MaxReplicas /\ actual[w].ready \in 0..MaxReplicas
        /\ actual[w].available \in 0..MaxReplicas /\ actual[w].available <= actual[w].ready
    BY <2>1 DEF Replicas
  <2>3. PICK s : /\ Becomes(w, s)
                 /\ \/ /\ actual[w].ready < actual[w].desired
                       /\ s = [actual[w] EXCEPT !.ready = @ + 1]
                    \/ /\ actual[w].available < actual[w].ready
                       /\ s = [actual[w] EXCEPT !.available = @ + 1]
    BY <1>6 DEF PodReady
  <2>4. s \in Replicas /\ s.desired = actual[w].desired /\ s.ready >= actual[w].ready
    BY <1>3, <2>1, <2>2, <2>3 DEF Replicas
  <2>5. s # Absent /\ s \in StatesOf(w)
    BY <2>1, <2>4, WorkloadsAssumption DEF StatesOf
  <2>6. Reached(w, actual[w]) <= Reached(w, s)
    BY <2>1, <2>2, <2>4, <2>5 DEF Reached, Healthy, Replicas
  <2> QED
    BY <1>4, <2>3, <2>5, <2>6
<1>7. CASE JobMoves(w)
  <2>1. PICK next \in {"retrying", "failed", "complete"} :
          /\ Becomes(w, [phase |-> next])
          /\ actual[w].phase # "complete"
    BY <1>7 DEF JobMoves
  <2>2. IsJob(w) /\ actual[w] # Absent
    BY <1>7 DEF JobMoves
  <2>3. [phase |-> next] \in StatesOf(w) /\ [phase |-> next] # Absent
    BY <2>2, WorkloadsAssumption DEF StatesOf, Jobs
  <2>4. Reached(w, actual[w]) <= Reached(w, [phase |-> next])
    BY <2>1, <2>2, <2>3 DEF Reached, Healthy
  <2> QED
    BY <1>4, <2>1, <2>3, <2>4
<1> QED
  BY <1>1, <1>5, <1>6, <1>7

LEMMA DisruptionKeeps == WorkloadsInv /\ Disruption => WorkloadsInv'
<1> SUFFICES ASSUME WorkloadsInv, Disruption PROVE WorkloadsInv'
  OBVIOUS
<1>1. PICK w \in Workloads :
        \/ Becomes(w, Absent)
        \/ ~IsJob(w) /\ \E s \in Replicas : Becomes(w, s)
  BY DEF Disruption
<1>2. PICK s \in StatesOf(w) : Becomes(w, s)
  BY <1>1 DEF StatesOf
<1>3. disturbed' = (wpc # "idle")
  BY DEF Disruption
<1> QED
  BY <1>2, <1>3, BecomesKeeps

LEMMA WorkloadsStep == WorkloadsInv /\ [WorkloadsNext]_workloadVars => WorkloadsInv'
<1> SUFFICES ASSUME WorkloadsInv, [WorkloadsNext]_workloadVars PROVE WorkloadsInv'
  OBVIOUS
<1>1. CASE UNCHANGED workloadVars
  BY <1>1 DEF workloadVars, WorkloadsInv, WorkloadsTypeOK, Beginning, Advanced,
     AnswerIsBounded, ReadingsAreBounded, Reports, Between, Current
<1> QED
  BY <1>1, BeginKeeps, InspectionStepKeeps, TickKeeps, ProgressKeeps, DisruptionKeeps
  DEF WorkloadsNext

LEMMA WorkloadsInvariant == WorkloadsSpec => []WorkloadsInv
<1> QED
  BY WorkloadsInitially, WorkloadsStep, PTL DEF WorkloadsSpec

-----------------------------------------------------------------------------
(* The variables keep their types; in particular no sleep outlasts the     *)
(* deadline, for any timeout and poll interval (_job_status).              *)
THEOREM WorkloadsType == WorkloadsSpec => []WorkloadsTypeOK
<1>1. WorkloadsInv => WorkloadsTypeOK
  BY DEF WorkloadsInv
<1> QED
  BY <1>1, WorkloadsInvariant, PTL

(* Each state in a report of lake status lies between what the workload    *)
(* was when the inspection began and what it is now (inspect_deployment_   *)
(* status), for any workloads and replicas.                                *)
THEOREM ReadingsBounded == WorkloadsSpec => []ReadingsAreBounded
<1>1. WorkloadsInv => ReadingsAreBounded
  BY DEF WorkloadsInv
<1> QED
  BY <1>1, WorkloadsInvariant, PTL

(* So does the verdict (_deployment_state).                                *)
THEOREM VerdictBounded == WorkloadsSpec => []VerdictIsBounded
<1>1. WorkloadsInv => VerdictIsBounded
  <2> SUFFICES ASSUME WorkloadsInv, wpc = "done", ~disturbed, Expected # <<>>
               PROVE  /\ verdict = "deployed" => AllHealthy(actual)
                      /\ verdict = "not_deployed" =>
                           \A i \in 1..Len(Expected) : before[Expected[i]] = Absent
                      /\ AllHealthy(before) =>
                           verdict \in {"deployed", "unchecked", "unknown"}
    BY DEF VerdictIsBounded
  <2> DEFINE states == {readings[i] : i \in 1..Len(readings)}
  <2>1. /\ Len(readings) = Len(Expected) /\ verdict = DeploymentState(readings)
        /\ readings \in Seq(WorkloadStates) /\ readings # <<>>
    BY ExpectedAre DEF WorkloadsInv, Reports, WorkloadsTypeOK
  <2>2. ASSUME NEW i \in 1..Len(Expected)
        PROVE  /\ readings[i] \in WorkloadStates /\ Expected[i] \in Workloads
               /\ readings[i] \in states
               /\ readings[i] # "unknown" =>
                    /\ Reached(Expected[i], before[Expected[i]]) <= Reported(readings[i])
                    /\ Reported(readings[i]) <= Reached(Expected[i], actual[Expected[i]])
               /\ Reached(Expected[i], before[Expected[i]]) \in 0..2
               /\ Reached(Expected[i], actual[Expected[i]]) \in 0..2
    BY <2>1, ExpectedAre, ReachedRange DEF WorkloadsInv, ReadingsAreBounded
  <2>3. ASSUME verdict = "deployed", NEW i \in 1..Len(Expected)
        PROVE  Healthy(Expected[i], actual[Expected[i]])
    <3>1. readings[i] \in {"ready", "complete"}
      BY <2>1, <2>2, <2>3 DEF DeploymentState, WorkloadStates
    <3>2. Reported(readings[i]) = 2
      BY <3>1 DEF Reported
    <3> QED
      BY <2>2, <3>1, <3>2 DEF Reached
  <2>4. ASSUME verdict = "not_deployed", NEW i \in 1..Len(Expected)
        PROVE  before[Expected[i]] = Absent
    <3>1. readings[i] = "missing"
      BY <2>1, <2>2, <2>4 DEF DeploymentState
    <3>2. Reported(readings[i]) = 0
      BY <3>1 DEF Reported
    <3> QED
      BY <2>2, <3>1, <3>2 DEF Reached
  <2>5. ASSUME AllHealthy(before)
        PROVE  verdict \in {"deployed", "unchecked", "unknown"}
    <3>1. ASSUME NEW i \in 1..Len(Expected)
          PROVE  readings[i] \in {"ready", "complete", "unknown"}
      <4>1. Reached(Expected[i], before[Expected[i]]) = 2
        BY <2>5 DEF AllHealthy, Reached, Healthy
      <4> QED
        BY <2>2, <4>1 DEF Reported, WorkloadStates
    <3>2. states \subseteq {"ready", "complete", "unknown"}
      BY <2>1, <3>1
    <3> QED
      BY <2>1, <3>2 DEF DeploymentState
  <2> QED
    BY <2>3, <2>4, <2>5 DEF AllHealthy
<1> QED
  BY <1>1, WorkloadsInvariant, PTL

(* An init Job that exists is given up only at its deadline, whatever the  *)
(* timeout, the poll interval and the order of failures and retries.       *)
THEOREM JobsWindow == WorkloadsSpec => JobsGetTheirWindow
<1>1. WorkloadsInv /\ [WorkloadsNext]_workloadVars =>
        [\A i \in 1..Len(readings') :
           i > Len(readings) /\ IsJob(Expected[i])
               /\ readings'[i] \in {"progressing", "degraded"} => left = 0]_workloadVars
  <2> SUFFICES ASSUME WorkloadsInv, WorkloadsNext, NEW i \in 1..Len(readings'),
                      i > Len(readings), IsJob(Expected[i]),
                      readings'[i] \in {"progressing", "degraded"}
               PROVE  left = 0
    BY DEF workloadVars
  <2>1. readings' # readings
    <3>1. Len(readings) \in Nat
      BY DEF WorkloadsInv, WorkloadsTypeOK
    <3> QED
      BY <3>1
  <2>2. InspectionStep
    BY <2>1 DEF WorkloadsNext, BeginInspection, Tick, Progress, Disruption, Applied,
       PodReady, JobMoves, Becomes
  <2>3. ASSUME NEW s, Record(s), wpc \in {"read", "decide"}
        PROVE  i = wat /\ readings'[i] = s
    <3>1. /\ readings \in Seq(WorkloadStates) /\ Len(readings) = wat - 1 /\ wat \in Nat
          /\ readings' = Append(readings, s)
      BY <2>3 DEF WorkloadsInv, WorkloadsTypeOK, Record
    <3> QED
      BY <3>1
  <2>4. CASE ReadReplicas
    BY <2>3, <2>4 DEF ReadReplicas, Current
  <2>5. CASE ReadRefused
    BY <2>3, <2>5 DEF ReadRefused
  <2>6. CASE PollSettled
    <3>1. readings'[i] = Reading(Current, actual[Current])
      BY <2>3, <2>6 DEF PollSettled
    <3> QED
      BY <2>6, <3>1 DEF PollSettled
  <2>7. CASE Expire
    BY <2>7 DEF Expire
  <2> QED
    BY <2>1, <2>2, <2>4, <2>5, <2>6, <2>7
    DEF InspectionStep, PollUnsettled, Sleep, Wake
<1> QED
  BY <1>1, WorkloadsInvariant, PTL DEF WorkloadsSpec, JobsGetTheirWindow
=============================================================================
