------------------------------ MODULE JobTable ------------------------------
(***************************************************************************)
(* The table postvec.jobs and the statements that change it.               *)
(*                                                                         *)
(* A queue is a function from job ids to rows of the table.  The operators *)
(* take the queue as a parameter, so that one transaction can apply        *)
(* several of them in the order the code does.                             *)
(*                                                                         *)
(* not_before and the wall clock are left out: a pending job may be taken  *)
(* at any later moment, which covers every backoff the code can compute.   *)
(***************************************************************************)
EXTENDS Naturals, FiniteSets

CONSTANTS
    Row,        \* primary-key values of the synchronised table
    NoRow,      \* no key
    JobId,      \* identities of jobs; a bound on the rows of the table
    MaxRetries  \* postvec.max_retries

ASSUME NoRowAssumption == NoRow \notin Row
ASSUME MaxRetriesAssumption == MaxRetries \in Nat

(***************************************************************************)
(* "open" is a job inserted by a transaction that has not committed,       *)
(* "pending" one with claimed_at IS NULL, "claimed" one with claimed_at    *)
(* set, "stale" one whose claim is older than the visibility timeout.      *)
(***************************************************************************)
JobState == {"free", "open", "pending", "claimed", "stale"}

Job == [st: JobState, row: Row \union {NoRow}, att: Nat]

NoJob == [st |-> "free", row |-> NoRow, att |-> 0]

InState(q, S) == {j \in JobId : q[j].st \in S}

Pending(q)   == InState(q, {"pending"})
Stale(q)     == InState(q, {"stale"})
Unclaimed(q) == InState(q, {"open", "pending"})
InFlight(q)  == InState(q, {"claimed", "stale"})

RowsOf(q, J) == {q[j].row : j \in J}

PendingRows(q) == RowsOf(q, Pending(q))
OpenRows(q)    == RowsOf(q, InState(q, {"open"}))

(***************************************************************************)
(* INSERT INTO postvec.jobs: one new identity for each row of R.           *)
(***************************************************************************)
NewJobs(R, Ids) ==
    {g \in UNION {[I -> R] : I \in SUBSET Ids} :
        /\ \A r \in R : \E i \in DOMAIN g : g[i] = r
        /\ \A i, k \in DOMAIN g : g[i] = g[k] => i = k}

Inserted(q, g, s) ==
    [j \in JobId |->
        IF j \in DOMAIN g THEN [st |-> s, row |-> g[j], att |-> 0] ELSE q[j]]

(***************************************************************************)
(* The partial unique index jobs_pending_dedup: ON CONFLICT DO NOTHING     *)
(* drops the rows of R that already have a committed pending job.  An      *)
(* uncommitted one makes the statement wait: WaitsForWriter.               *)
(***************************************************************************)
NotPending(q, R) == R \ PendingRows(q)

WaitsForWriter(q, R) == R \intersect OpenRows(q) # {}

Deleted(q, J) == [j \in JobId |-> IF j \in J THEN NoJob ELSE q[j]]

(***************************************************************************)
(* UPDATE postvec.jobs SET claimed_at = now(), attempts = attempts + 1.    *)
(***************************************************************************)
Claimed(q, C) ==
    [j \in JobId |->
        IF j \in C THEN [st |-> "claimed", row |-> q[j].row, att |-> q[j].att + 1]
        ELSE q[j]]

\* Faulty: UPDATE ... SET claimed_at = NULL.
SurvivorsAll(q, U) == {U}

\* Faulty: DISTINCT ON (registry_id, op).
SurvivorsOnePerEntry(q, U) ==
    {K \in SUBSET U : Cardinality(K) <= 1 /\ RowsOf(q, K) \intersect PendingRows(q) = {}}

(***************************************************************************)
(* Un-claiming is DELETE, then INSERT ... ON CONFLICT DO NOTHING of one    *)
(* job per key: Survivors picks it.  The identity of the deleted job is    *)
(* kept for the new one; nothing refers to it any more.                    *)
(***************************************************************************)
Survivors(q, U) ==
    {K \in SUBSET U :
        /\ RowsOf(q, K) = NotPending(q, RowsOf(q, U))
        /\ \A i, k \in K : q[i].row = q[k].row => i = k}

Unclaim(q, U, K) ==
    [j \in JobId |->
        IF j \in K THEN [q[j] EXCEPT !.st = "pending"]
        ELSE IF j \in U THEN NoJob
        ELSE q[j]]

\* The same with the attempt of the claim refunded (defer_jobs).
Defer(q, U, K) ==
    [j \in JobId |->
        IF j \in K
        THEN [st |-> "pending", row |-> q[j].row,
              att |-> IF q[j].att > 0 THEN q[j].att - 1 ELSE 0]
        ELSE IF j \in U THEN NoJob
        ELSE q[j]]

\* Faulty: one attempt too many.
ExhaustedLate(q, J) == {j \in J : q[j].att > MaxRetries + 1}

\* attempts > max_retries.
Exhausted(q, J) == {j \in J : q[j].att > MaxRetries}

-----------------------------------------------------------------------------
(***************************************************************************)
(* A well-formed queue: the unique index holds, uncommitted jobs included, *)
(* and no job was claimed more than MaxRetries + 1 times.                  *)
(***************************************************************************)
OneUnclaimed(q) ==
    \A i, j \in Unclaimed(q) : q[i].row = q[j].row => i = j

Bounded(q) ==
    /\ \A j \in Unclaimed(q) : q[j].att <= MaxRetries
    /\ \A j \in InFlight(q) : q[j].att <= MaxRetries + 1

QueueInv(q) ==
    /\ q \in [JobId -> Job]
    /\ \A j \in JobId : q[j].st # "free" => q[j].row \in Row
    /\ OneUnclaimed(q)
    /\ Bounded(q)

=============================================================================
