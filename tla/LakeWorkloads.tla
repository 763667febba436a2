--------------------------- MODULE LakeWorkloads ---------------------------
(***************************************************************************)
(* The deployment half of `stelarctl lake status`: one read per expected   *)
(* Deployment and StatefulSet, init Jobs polled until a deadline, and one  *)
(* verdict from all the answers, while the cluster goes on changing.       *)
(*                                                                         *)
(* Time is what is left of the current deadline and of the current sleep,  *)
(* in units as long as one likes; between any two steps of the command any *)
(* amount of it may pass.  JobTimeout = 0 is the command without --wait.   *)
(***************************************************************************)
EXTENDS Integers, Sequences

CONSTANTS
    Workloads,      \* names of Kubernetes workloads
    Expected,       \* the expected ones, in the order they are inspected
    KindOf,         \* Workloads -> kind
    Unchecked,      \* selected components that have no workload to inspect
    Absent,         \* the workload does not exist
    JobTimeout,     \* --job-timeout
    PollInterval,   \* --poll-interval
    MaxReplicas,    \* bound on the replicas of one workload
    Disruptive      \* TRUE: things get lost while the inspection runs

Kinds == {"Deployment", "StatefulSet", "Job"}

(* Available replicas are ready ones that have stayed so for a while.      *)
Replicas ==
    {r \in [desired : 0..MaxReplicas, ready : 0..MaxReplicas,
             available : 0..MaxReplicas] : r.available <= r.ready}

(* What a Job's counters and conditions tell apart: "retrying" has failed  *)
(* and not succeeded, "failed" has in addition given up.                   *)
Jobs == [phase : {"running", "retrying", "failed", "complete"}]

PollingOptions ==
    /\ JobTimeout \in Nat /\ PollInterval \in Nat
    /\ JobTimeout > 0 => PollInterval > 0

ASSUME WorkloadsAssumption ==
    /\ Expected \in Seq(Workloads)
    /\ KindOf \in [Workloads -> Kinds]
    /\ PollingOptions
    /\ MaxReplicas \in Nat \ {0}
    /\ Disruptive \in BOOLEAN
    /\ Absent \notin Replicas \cup Jobs

IsJob(w) == KindOf[w] = "Job"
StatesOf(w) == {Absent} \cup (IF IsJob(w) THEN Jobs ELSE Replicas)
Clusters ==
    {c \in [Workloads -> {Absent} \cup Jobs \cup Replicas] :
        \A w \in Workloads : c[w] \in StatesOf(w)}

WorkloadStates ==
    {"ready", "progressing", "missing", "unknown", "complete", "degraded"}
DeploymentStates ==
    {"deployed", "progressing", "degraded", "not_deployed", "unchecked", "unknown"}

VARIABLES
    actual,      \* workload -> its state in the cluster
    wpc,         \* where the inspection is
    wat,         \* index of the workload it is at
    left,        \* time until the deadline of the current Job
    nap,         \* time until the current sleep ends
    answer,      \* what the last poll of the current Job said
    readings,    \* states of the workloads before wat
    verdict,     \* the deployment state reported
    disturbed,   \* history: something was deleted, scaled or lost meanwhile
    before       \* history: the cluster when the inspection began, until then

workloadVars == <<actual, wpc, wat, left, nap, answer, readings, verdict,
                  before, disturbed>>

Phases == {"idle", "read", "decide", "sleep", "done"}

WorkloadsTypeOK ==
    /\ actual \in Clusters
    /\ before \in Clusters
    /\ wpc \in Phases
    /\ wat \in Nat \ {0}
    /\ wpc \in {"read", "decide", "sleep"} => wat \in 1..Len(Expected)
    /\ left \in 0..JobTimeout
    /\ nap \in 0..left
    /\ answer \in WorkloadStates
    /\ readings \in Seq(WorkloadStates)
    /\ wpc \in {"read", "decide", "sleep"} => Len(readings) = wat - 1
    /\ verdict \in DeploymentStates
    /\ disturbed \in BOOLEAN
-----------------------------------------------------------------------------
(* What the API answers.                                                   *)

(* A workload scaled to zero, like one that leaves replicas out, counts as *)
(* wanting one.                                                            *)
DesiredReplicas(s) == IF s.desired > 0 THEN s.desired ELSE 1

DeploymentReading(s) ==
    LET ready == IF s.ready > s.available THEN s.ready ELSE s.available IN
    IF ready >= DesiredReplicas(s) THEN "ready" ELSE "progressing"

(* Mutant: a StatefulSet with no replica ready passes.                     *)
StatefulSetReading_OneShort(s) ==
    IF s.ready + 1 >= DesiredReplicas(s) THEN "ready" ELSE "progressing"

StatefulSetReading(s) ==
    IF s.ready >= DesiredReplicas(s) THEN "ready" ELSE "progressing"

JobReading(s) ==
    CASE s.phase = "complete" -> "complete"
      [] s.phase \in {"retrying", "failed"} -> "degraded"
      [] s.phase = "running" -> "progressing"

Reading(w, s) ==
    CASE s = Absent -> "missing"
      [] s # Absent /\ KindOf[w] = "Deployment" -> DeploymentReading(s)
      [] s # Absent /\ KindOf[w] = "StatefulSet" -> StatefulSetReading(s)
      [] s # Absent /\ IsJob(w) -> JobReading(s)

(* The rest of the selection cannot be vouched for, "system" excepted.     *)
BlockingUnchecked == Unchecked \ {"system"} # {}

(* Mutant: a missing workload is overlooked while another one exists.      *)
DeploymentState_ForgetsMissing(rs) ==
    LET states == {rs[i] : i \in 1..Len(rs)} IN
    IF rs = <<>> THEN IF Unchecked # {} THEN "unchecked" ELSE "not_deployed"
    ELSE IF "unknown" \in states THEN "unknown"
    ELSE IF states = {"missing"} THEN "not_deployed"
    ELSE IF "degraded" \in states THEN "degraded"
    ELSE IF "progressing" \in states THEN "progressing"
    ELSE IF BlockingUnchecked THEN "unchecked"
    ELSE "deployed"

(* The first that applies.                                                 *)
DeploymentState(rs) ==
    LET states == {rs[i] : i \in 1..Len(rs)} IN
    IF rs = <<>> THEN IF Unchecked # {} THEN "unchecked" ELSE "not_deployed"
    ELSE IF "unknown" \in states THEN "unknown"
    ELSE IF states = {"missing"} THEN "not_deployed"
    ELSE IF states \cap {"missing", "degraded"} # {} THEN "degraded"
    ELSE IF "progressing" \in states THEN "progressing"
    ELSE IF BlockingUnchecked THEN "unchecked"
    ELSE "deployed"
-----------------------------------------------------------------------------
(* The inspection.                                                         *)

Inspecting == wpc \in {"read", "decide", "sleep"}
Current == Expected[wat]

(* The workload does what it is there for.                                 *)
Healthy(w, s) ==
    /\ s # Absent
    /\ IF IsJob(w) THEN s.phase = "complete" ELSE s.ready >= s.desired /\ s.ready > 0

AllHealthy(c) == \A i \in 1..Len(Expected) : Healthy(Expected[i], c[Expected[i]])

WorkloadsInit ==
    /\ actual \in Clusters
    /\ before = actual
    /\ wpc = "idle"
    /\ wat = 1
    /\ left = 0
    /\ nap = 0
    /\ answer = "unknown"
    /\ readings = <<>>
    /\ verdict = "unknown"
    /\ disturbed = FALSE

BeginInspection ==
    /\ wpc = "idle"
    /\ before' = actual
    /\ \/ /\ Expected = <<>>
          /\ verdict' = DeploymentState(<<>>)
          /\ wpc' = "done"
          /\ UNCHANGED left
       \/ /\ Expected # <<>>
          /\ wpc' = "read"
          /\ left' = JobTimeout
          /\ UNCHANGED verdict
    /\ UNCHANGED <<actual, wat, nap, answer, readings, disturbed>>

(* Keep one state; go on to the next workload, whose deadline starts now,  *)
(* or report.                                                              *)
Record(s) ==
    /\ readings' = Append(readings, s)
    /\ nap' = 0
    /\ \/ /\ wat < Len(Expected)
          /\ wat' = wat + 1
          /\ left' = JobTimeout
          /\ wpc' = "read"
          /\ UNCHANGED verdict
       \/ /\ wat = Len(Expected)
          /\ verdict' = DeploymentState(Append(readings, s))
          /\ wpc' = "done"
          /\ UNCHANGED <<wat, left>>
    /\ UNCHANGED <<actual, answer, before,
                   disturbed>>

ReadReplicas ==
    /\ wpc = "read"
    /\ ~IsJob(Current)
    /\ Record(Reading(Current, actual[Current]))

(* 403 or any error but 404.                                               *)
ReadRefused ==
    /\ wpc = "read"
    /\ Record("unknown")

PollSettled ==
    /\ wpc = "read"
    /\ IsJob(Current)
    /\ Reading(Current, actual[Current]) \in {"complete", "missing"}
    /\ Record(Reading(Current, actual[Current]))

(* Mutant: a failed Job is reported at once, whatever its retries.         *)
PollUnsettled_FailsFast ==
    /\ wpc = "read"
    /\ IsJob(Current)
    /\ \/ /\ Reading(Current, actual[Current]) = "degraded"
          /\ Record("degraded")
       \/ /\ Reading(Current, actual[Current]) = "progressing"
          /\ answer' = "progressing"
          /\ wpc' = "decide"
          /\ UNCHANGED <<actual, wat, left, nap, readings, verdict, before,
                   disturbed>>

(* Mutant: the deadline is set again on every poll.                        *)
PollUnsettled_NewDeadline ==
    /\ wpc = "read"
    /\ IsJob(Current)
    /\ Reading(Current, actual[Current]) \in {"progressing", "degraded"}
    /\ answer' = Reading(Current, actual[Current])
    /\ left' = JobTimeout
    /\ wpc' = "decide"
    /\ UNCHANGED <<actual, wat, nap, readings, verdict, before, disturbed>>

PollUnsettled ==
    /\ wpc = "read"
    /\ IsJob(Current)
    /\ Reading(Current, actual[Current]) \in {"progressing", "degraded"}
    /\ answer' = Reading(Current, actual[Current])
    /\ wpc' = "decide"
    /\ UNCHANGED <<actual, wat, left, nap, readings, verdict, before, disturbed>>

Expire ==
    /\ wpc = "decide"
    /\ left = 0
    /\ Record(answer)

(* Mutant: the sleep is the poll interval even past the deadline.          *)
Sleep_PastDeadline ==
    /\ wpc = "decide"
    /\ left > 0
    /\ nap' = PollInterval
    /\ wpc' = "sleep"
    /\ UNCHANGED <<actual, wat, left, answer, readings, verdict, before,
                   disturbed>>

Sleep ==
    /\ wpc = "decide"
    /\ left > 0
    /\ nap' = (IF PollInterval < left THEN PollInterval ELSE left)
    /\ wpc' = "sleep"
    /\ UNCHANGED <<actual, wat, left, answer, readings, verdict, before,
                   disturbed>>

Wake ==
    /\ wpc = "sleep"
    /\ nap = 0
    /\ wpc' = "read"
    /\ UNCHANGED <<actual, wat, left, nap, answer, readings, verdict, before,
                   disturbed>>

InspectionStep ==
    ReadReplicas \/ ReadRefused \/ PollSettled \/ PollUnsettled \/ Expire
        \/ Sleep \/ Wake

(* Time passes.                                                            *)
Tick ==
    /\ Inspecting
    /\ left > 0
    /\ left' = left - 1
    /\ nap' = (IF nap > 0 THEN nap - 1 ELSE 0)
    /\ UNCHANGED <<actual, wpc, wat, answer, readings, verdict, before,
                   disturbed>>
-----------------------------------------------------------------------------
(* The cluster.                                                            *)

Becomes(w, s) ==
    /\ actual' = [actual EXCEPT ![w] = s]
    /\ before' = (IF wpc = "idle" \/ disturbed' THEN [actual EXCEPT ![w] = s]
                  ELSE before)
    /\ UNCHANGED <<wpc, wat, left, nap, answer, readings, verdict>>

(* tk apply: the workload appears.                                         *)
Applied(w) ==
    /\ actual[w] = Absent
    /\ \/ IsJob(w) /\ Becomes(w, [phase |-> "running"])
       \/ /\ ~IsJob(w)
          /\ \E n \in 1..MaxReplicas :
               Becomes(w, [desired |-> n, ready |-> 0, available |-> 0])

PodReady(w) ==
    /\ ~IsJob(w)
    /\ actual[w] # Absent
    /\ \/ /\ actual[w].ready < actual[w].desired
          /\ Becomes(w, [actual[w] EXCEPT !.ready = @ + 1])
       \/ /\ actual[w].available < actual[w].ready
          /\ Becomes(w, [actual[w] EXCEPT !.available = @ + 1])

JobMoves(w) ==
    /\ IsJob(w)
    /\ actual[w] # Absent
    /\ \E next \in {"retrying", "failed", "complete"} :
         /\ <<actual[w].phase, next>> \in
               {<<"running", "retrying">>, <<"retrying", "failed">>,
                <<"running", "complete">>, <<"retrying", "complete">>}
         /\ Becomes(w, [phase |-> next])

(* The cluster moves towards the deployed lake.                            *)
Progress ==
    /\ UNCHANGED disturbed
    /\ \E w \in Workloads : Applied(w) \/ PodReady(w) \/ JobMoves(w)

(* A pod is lost, a workload scaled or rolled out again, deleted.          *)
Disruption ==
    /\ Disruptive
    /\ disturbed' = (wpc # "idle")
    /\ \E w \in Workloads :
         /\ actual[w] # Absent
         /\ \/ Becomes(w, Absent)
            \/ ~IsJob(w) /\ \E s \in Replicas : Becomes(w, s)

WorkloadsNext ==
    \/ BeginInspection
    \/ InspectionStep
    \/ Tick
    \/ Progress
    \/ Disruption

WorkloadsSpec == WorkloadsInit /\ [][WorkloadsNext]_workloadVars

(* The command goes on while it can, and time passes.                      *)
WorkloadsFairSpec ==
    /\ WorkloadsSpec
    /\ WF_workloadVars(InspectionStep)
    /\ WF_workloadVars(Tick)
-----------------------------------------------------------------------------
(* How far a workload is on its way, from nothing to healthy: as reported, *)
(* and as it is.                                                           *)
Reported(state) ==
    CASE state = "missing" -> 0
      [] state \in {"progressing", "degraded"} -> 1
      [] state \in {"ready", "complete"} -> 2

Reached(w, s) == IF s = Absent THEN 0 ELSE IF Healthy(w, s) THEN 2 ELSE 1

(* A report combines reads of different moments.  When nothing is deleted, *)
(* scaled or lost meanwhile, each state in it still lies between what the  *)
(* workload was when the inspection began and what it is now.              *)
ReadingsAreBounded ==
    ~disturbed =>
        \A i \in 1..Len(readings) :
            readings[i] # "unknown" =>
                LET w == Expected[i] IN
                /\ Reached(w, before[w]) <= Reported(readings[i])
                /\ Reported(readings[i]) <= Reached(w, actual[w])

(* So is the verdict: a lake reported "deployed" is deployed now, one      *)
(* reported "not_deployed" was not begun when the inspection began, and    *)
(* one that was whole from the start is not reported broken.               *)
VerdictIsBounded ==
    wpc = "done" /\ ~disturbed /\ Expected # <<>> =>
        /\ verdict = "deployed" => AllHealthy(actual)
        /\ verdict = "not_deployed" =>
             \A i \in 1..Len(Expected) : before[Expected[i]] = Absent
        /\ AllHealthy(before) => verdict \in {"deployed", "unchecked", "unknown"}

(* docs/stelarctl.md: "--wait polls init Jobs until they succeed or        *)
(* --job-timeout expires": an init Job that exists is reported unfinished  *)
(* or failed only once its window is over, however often it failed before. *)
JobsGetTheirWindow ==
    [][\A i \in 1..Len(readings') :
         i > Len(readings) /\ IsJob(Expected[i])
             /\ readings'[i] \in {"progressing", "degraded"} => left = 0]_workloadVars

(* An inspection ends, whatever the cluster does and however short the     *)
(* poll interval: each Job is given up at its deadline.                    *)
InspectionEnds == Inspecting ~> wpc = "done"
=============================================================================
