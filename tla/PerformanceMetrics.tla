-------------------------- MODULE PerformanceMetrics --------------------------
(* The metrics and alerts, packages/core/src/intervention/performance/       *)
(* metrics.ts: a window of latencies, rates over a window of time, the       *)
(* states of connections, snapshots that an interval collects, and alerts    *)
(* that another interval derives.  One rate stands for the four that are     *)
(* alike, and one tracker of latencies for both; memory, the depths by        *)
(* priority, and what is in a snapshot of the history are left out.          *)
EXTENDS Integers, Sequences, FiniteSets, SequencesExt

CONSTANTS
    Latencies,       \* values that are recorded
    WindowSize,      \* config.latencyWindowSize
    RateWindow,      \* config.rateWindowSize
    Watched,         \* ids of connections
    MaxSnapshots,    \* maxSnapshots
    Thresholds,      \* alerts: [metric, comparison, threshold]
    MaxTime          \* bound: the clock

ASSUME MetricsAssumption ==
    /\ Latencies \subseteq Nat /\ WindowSize \in Nat \ {0}
    /\ RateWindow \in Nat /\ MaxSnapshots \in Nat \ {0} /\ MaxTime \in Nat

VARIABLES
    time,
    samples,          \* LatencyTracker.samples
    timestamps,       \* RateTracker.timestamps
    recorded,         \* history: the times of all events since clear
    queueDepth,
    connectionStates, \* connection -> its state
    snapshots,        \* the times of the snapshots that are kept
    collecting,       \* the interval of PerformanceMetrics is set
    alerts            \* the alerts of the last check

metricsVars == <<time, samples, timestamps, recorded, queueDepth,
                 connectionStates, snapshots, collecting, alerts>>

MetricStates == {"connected", "connecting", "reconnecting", "error", "disconnected"}

MetricsTypeOK ==
    /\ time \in 0..MaxTime
    /\ samples \in Seq(Latencies) /\ Len(samples) <= WindowSize
    /\ queueDepth \in Nat
    /\ DOMAIN connectionStates \subseteq Watched /\ Range(connectionStates) \subseteq MetricStates
    /\ Len(snapshots) <= MaxSnapshots
    /\ collecting \in BOOLEAN
    /\ alerts \subseteq Thresholds

MetricsInit ==
    /\ time = 0 /\ samples = <<>> /\ timestamps = <<>> /\ recorded = <<>>
    /\ queueDepth = 0
    /\ connectionStates = [c \in {} |-> "error"]
    /\ snapshots = <<>> /\ collecting = FALSE /\ alerts = {}

-----------------------------------------------------------------------------
(* The trackers                                                            *)

Shifted(q, limit) == IF Len(q) > limit THEN Tail(q) ELSE q

(* sort: the place of a sample is told by how many come before it, equal     *)
(* ones in the order of their arrival.                                       *)
Smaller(q, i) == {j \in DOMAIN q : \/ q[j] < q[i]
                                   \/ q[j] = q[i] /\ j < i}

Sorted(q) == [k \in DOMAIN q |-> q[CHOOSE i \in DOMAIN q : Cardinality(Smaller(q, i)) = k - 1]]

(* The sample at a fraction, of hundredths, of the sorted window.            *)
Percentile(q, hundredths) ==
    IF q = <<>> THEN 0 ELSE Sorted(q)[(Len(q) * hundredths) \div 100 + 1]

Maximum(q) == IF q = <<>> THEN 0 ELSE Sorted(q)[Len(q)]

IsOldEarly(t) == t <= time - RateWindow

IsOld(t) == t < time - RateWindow

(* prune: from the front, up to the first that is not old. *)
Pruned(ts) ==
    LET fresh == {i \in DOMAIN ts : ~IsOld(ts[i])} IN
    IF fresh = {} THEN <<>>
    ELSE SubSeq(ts, CHOOSE i \in fresh : \A j \in fresh : i <= j, Len(ts))

RateOf(ts) == Len(Pruned(ts))

ConnectionsIn(states) ==
    Cardinality({c \in DOMAIN connectionStates : connectionStates[c] \in states})

-----------------------------------------------------------------------------
(* The collector                                                           *)

RecordLatency(v) ==
    /\ samples' = Shifted(Append(samples, v), WindowSize)
    /\ UNCHANGED <<time, timestamps, recorded, queueDepth,
                   connectionStates, snapshots, collecting, alerts>>

RecordEvent ==
    /\ timestamps' = Pruned(Append(timestamps, time))
    /\ recorded' = Append(recorded, time)
    /\ UNCHANGED <<time, samples, queueDepth, connectionStates,
                   snapshots, collecting, alerts>>

UpdateQueueDepth(n) ==
    /\ queueDepth' = n
    /\ UNCHANGED <<time, samples, timestamps, recorded, connectionStates, snapshots,
                   collecting, alerts>>

UpdateConnectionState(c, s) ==
    /\ connectionStates' = [d \in DOMAIN connectionStates \cup {c} |->
                              IF d = c THEN s ELSE connectionStates[d]]
    /\ UNCHANGED <<time, samples, timestamps, recorded, queueDepth,
                   snapshots, collecting, alerts>>

RemoveConnection(c) ==
    /\ connectionStates' = [d \in DOMAIN connectionStates \ {c} |-> connectionStates[d]]
    /\ UNCHANGED <<time, samples, timestamps, recorded, queueDepth,
                   snapshots, collecting, alerts>>

Collecting(on) ==
    /\ collecting' = on
    /\ UNCHANGED <<time, samples, timestamps, recorded, queueDepth,
                   connectionStates, snapshots, alerts>>

Snapshot ==
    [at |-> time, p95 |-> Percentile(samples, 95), depth |-> queueDepth,
     rate |-> RateOf(timestamps), errors |-> ConnectionsIn({"error"})]

(* collect, which reads the rates and so prunes. *)
Collect ==
    /\ collecting
    /\ timestamps' = Pruned(timestamps)
    /\ snapshots' = Shifted(Append(snapshots, time), MaxSnapshots)
    /\ UNCHANGED <<time, samples, recorded, queueDepth,
                   connectionStates, collecting, alerts>>

ClearMetrics ==
    /\ samples' = <<>> /\ timestamps' = <<>> /\ recorded' = <<>>
    /\ connectionStates' = [c \in {} |-> "error"]
    /\ snapshots' = <<>> /\ queueDepth' = 0
    /\ UNCHANGED <<time, collecting, alerts>>

(* What a threshold looks at, in a snapshot. *)
ValueOf(metric, snapshot) ==
    CASE metric = "latency" -> snapshot.p95
      [] metric = "queueDepth" -> snapshot.depth
      [] metric = "errorRate" -> snapshot.rate
      [] metric = "connectionErrors" -> snapshot.errors

EvaluateThreshold(value, t) ==
    \/ t.comparison = "gt" /\ value > t.threshold
    \/ t.comparison = "lt" /\ value < t.threshold
    \/ t.comparison = "eq" /\ value = t.threshold

(* checkAlerts: of a snapshot of its own; the duration is not looked at. *)
CheckAlerts ==
    /\ timestamps' = Pruned(timestamps)
    /\ alerts' = {t \in Thresholds : EvaluateThreshold(ValueOf(t.metric, Snapshot), t)}
    /\ UNCHANGED <<time, samples, recorded, queueDepth,
                   connectionStates, snapshots, collecting>>

TimePasses ==
    /\ time < MaxTime
    /\ time' = time + 1
    /\ UNCHANGED <<samples, timestamps, recorded, queueDepth,
                   connectionStates, snapshots, collecting, alerts>>

MetricsNext ==
    \/ \E v \in Latencies : RecordLatency(v)
    \/ Len(recorded) < MaxTime /\ RecordEvent
    \/ \E n \in {0, 1} : UpdateQueueDepth(n)
    \/ \E c \in Watched : RemoveConnection(c) \/ \E s \in {"connected", "error"} : UpdateConnectionState(c, s)
    \/ \E on \in BOOLEAN : Collecting(on)
    \/ Collect \/ ClearMetrics \/ CheckAlerts \/ TimePasses

MetricsSpec == MetricsInit /\ [][MetricsNext]_metricsVars

-----------------------------------------------------------------------------
(* The rate counts the events of the window and no other, though it forgets  *)
(* some at each record, snapshot and check, which come at any times.         *)
RateCountsWindow ==
    RateOf(timestamps) = Cardinality({i \in DOMAIN recorded : time - recorded[i] <= RateWindow})

(* The percentiles of the window are ordered, each is a latency that is in   *)
(* it, and at least the stated share of the window is not above it, for any  *)
(* length of the window.                                                     *)
PercentilesOrdered ==
    samples # <<>> =>
      /\ \A h \in {50, 95, 99} :
           /\ \E i \in DOMAIN samples : samples[i] = Percentile(samples, h)
           /\ 100 * Cardinality({i \in DOMAIN samples : samples[i] <= Percentile(samples, h)})
                >= h * Len(samples)
      /\ Percentile(samples, 50) <= Percentile(samples, 95)
      /\ Percentile(samples, 99) <= Maximum(samples)

(* What is reported is what was recorded in its window.                      *)
MetricsInv ==
    /\ MetricsTypeOK
    /\ RateCountsWindow
    /\ PercentilesOrdered
=============================================================================
