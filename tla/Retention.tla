------------------------------ MODULE Retention ------------------------------
(***************************************************************************)
(* The analytics store and its retention job (analytics, retention): raw   *)
(* samples, the hourly aggregates the job makes of those older than the    *)
(* cutoff before it deletes them, and the summaries read from both.  Only  *)
(* online_count is modelled; error_count is computed beside it in the same *)
(* statements.                                                             *)
(***************************************************************************)
EXTENDS Naturals, FiniteSets, Functions, FiniteSetsExt

CONSTANTS
    Drivers,    \* the database drivers deployments use
    Hour,       \* length of a bucket in the unit of the timestamps
    Cutoffs,    \* the cutoffs that runs of the job may have
    Ranges      \* the time ranges clients ask summaries for

ASSUME DriversAssumption == Drivers \subseteq {"pgx", "sqlite"}
ASSUME HourAssumption ==
    Hour \in Nat \ {0} /\ Cutoffs \subseteq Nat /\ Ranges \subseteq Nat \X Nat

VARIABLES
    driver,     \* that of this deployment, chosen once
    raw,        \* rows of telemetry_samples
    aggregates, \* telemetry_aggregates: <<robot, hour>> -> online_count
    job,        \* "idle" or "aggregated": between the job's two statements
    cutoff,     \* the cutoff of the latest run
    stored,     \* every sample that was ever stored (history)
    split       \* hours aggregated by a run whose cutoff lay within them (history)

retentionVars == <<driver, raw, aggregates, job, cutoff, stored, split>>

Bucket(x) == <<x.robot, x.stamp \div Hour>>

(* The hours of samples, which PostgreSQL computes with date_trunc.  SQLite *)
(* holds a time as the text of Go's Time.String(): strftime makes NULL of  *)
(* it, for which there is no row (INSERT OR IGNORE, bucket_start NOT NULL).*)
Buckets(samples) == IF driver = "pgx" THEN {Bucket(x) : x \in samples} ELSE {}

Count(samples) == Cardinality({x \in samples : x.online})

(* One row per sample; a failure is not even logged.                       *)
WriteTelemetry(x) ==
    /\ \/ raw' = raw \cup {x} /\ stored' = stored \cup {x}
       \/ UNCHANGED <<raw, stored>>
    /\ UNCHANGED <<driver, aggregates, job, cutoff, split>>

(* aggregateHours: one row for every robot and hour with old samples; a    *)
(* row that is there already stays as it is.                               *)
AggregateHours(c) ==
    LET old == {x \in raw : x.stamp < c}
        buckets == Buckets(old) \ DOMAIN aggregates
    IN /\ job = "idle" /\ c >= cutoff
       /\ aggregates' = [b \in DOMAIN aggregates \cup buckets |->
                            IF b \in buckets THEN Count({x \in old : Bucket(x) = b})
                            ELSE aggregates[b]]
       /\ cutoff' = c /\ job' = "aggregated"
       /\ split' = split \cup {b[2] : b \in {b \in buckets : (b[2] + 1) * Hour > c}}
       /\ UNCHANGED <<driver, raw, stored>>

(* Faulty variant: a failed aggregation does not end the run.              *)
JobFailsLate(c) ==
    /\ \/ job = "idle" /\ c >= cutoff /\ cutoff' = c /\ job' = "aggregated"
       \/ job = "aggregated" /\ job' = "idle" /\ UNCHANGED cutoff
    /\ UNCHANGED <<driver, raw, aggregates, stored, split>>

(* A statement fails or the process dies: an aggregation that failed is    *)
(* not followed by a deletion.                                             *)
JobFails(c) ==
    /\ \/ job = "idle" /\ c >= cutoff /\ cutoff' = c /\ UNCHANGED job
       \/ job = "aggregated" /\ job' = "idle" /\ UNCHANGED cutoff
    /\ UNCHANGED <<driver, raw, aggregates, stored, split>>

DeleteOldSamples ==
    /\ job = "aggregated"
    /\ raw' = {x \in raw : x.stamp >= cutoff}
    /\ job' = "idle"
    /\ UNCHANGED <<driver, aggregates, cutoff, stored, split>>

(* Faulty variant: raw samples and aggregates are added up.                *)
RobotSummarySums(r, from, to) ==
    LET rows == {x \in raw : x.robot = r /\ from <= x.stamp /\ x.stamp <= to}
        buckets == {b \in DOMAIN aggregates : /\ b[1] = r
                                              /\ from <= b[2] * Hour /\ b[2] * Hour <= to}
    IN Count(rows) + SumFunctionOnSet(aggregates, buckets)

(* RobotSummary reads the aggregates only when the range has no raw        *)
(* sample, and then the buckets that start in the range.                   *)
RobotSummary(r, from, to) ==
    LET rows == {x \in raw : x.robot = r /\ from <= x.stamp /\ x.stamp <= to}
        buckets == {b \in DOMAIN aggregates : /\ b[1] = r
                                              /\ from <= b[2] * Hour /\ b[2] * Hour <= to}
    IN IF Count(rows) > 0 THEN Count(rows) ELSE SumFunctionOnSet(aggregates, buckets)

RetentionInit ==
    /\ driver \in Drivers
    /\ raw = {} /\ stored = {} /\ aggregates = <<>> /\ job = "idle" /\ cutoff = 0
    /\ split = {}

RetentionTypeOK ==
    /\ driver \in Drivers
    /\ raw \subseteq stored /\ job \in {"idle", "aggregated"} /\ cutoff \in Cutoffs \cup {0}
    /\ \A b \in DOMAIN aggregates : aggregates[b] \in Nat
-----------------------------------------------------------------------------
(* Properties *)

InBucket(b) == {x \in stored : Bucket(x) = b}

(* In PostgreSQL an hour that no run has split is never lost: once one of  *)
(* its samples is deleted, its aggregate counts all of them, whichever     *)
(* statements failed.                                                      *)
WholeHoursKept ==
    driver = "pgx" =>
        \A b \in {Bucket(x) : x \in stored \ raw} : b[2] \notin split =>
            b \in DOMAIN aggregates /\ aggregates[b] = Count(InBucket(b))

(* A summary never reports more than was stored in the hours of its range, *)
(* also while an hour is aggregated and its samples not yet deleted.       *)
SummaryNoInflation ==
    \A range \in Ranges, r \in {x.robot : x \in stored} :
        RobotSummary(r, range[1], range[2])
            <= Count({x \in stored : x.robot = r /\ range[1] <= x.stamp
                                     /\ x.stamp < (range[2] \div Hour + 1) * Hour})

-----------------------------------------------------------------------------
(* What the docs say of the code and it does not do                        *)

(* docs/implementation/telemetry-retention.md: "Raw samples older than the *)
(* retention cutoff are aggregated" before they are deleted.  In SQLite,   *)
(* the default database, they are only deleted.                            *)
DeletedAggregated == {Bucket(x) : x \in stored \ raw} \subseteq DOMAIN aggregates
==============================================================================
