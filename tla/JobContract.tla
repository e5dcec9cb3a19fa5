----------------------------- MODULE JobContract -----------------------------
(****************************************************************************)
(* What the claim queue promises of each job, whoever works on it: a job is *)
(* held for one attempt at a time, an attempt ends in a verdict or gives    *)
(* the job back, a job is given back only while it may be tried again, is   *)
(* declared exhausted only when it may not, and keeps its verdict.          *)
(****************************************************************************)
EXTENDS Naturals

CONSTANTS Job, Budget

VARIABLE job    \* job[j] is what the queue knows of job j

Absent == [phase |-> "absent", tries |-> 0, budget |-> 0]

Submitted(b) == [phase |-> "waiting", tries |-> 0, budget |-> b]

\* A step may make q of what was r.
JobStep(r, q) ==
    \/ r.phase = "absent" /\ \E b \in Budget : q = Submitted(b)
    \/ /\ r.phase = "waiting"
       /\ q = [phase |-> "held", tries |-> r.tries + 1, budget |-> r.budget]
    \/ r.phase = "held" /\ q = [r EXCEPT !.phase = "SUCCEEDED"]
    \/ r.phase = "held" /\ q = [r EXCEPT !.phase = "FAILED"]
    \/ r.phase = "held" /\ r.tries < r.budget /\ q = [r EXCEPT !.phase = "waiting"]
    \/ r.phase = "held" /\ r.tries >= r.budget /\ q = [r EXCEPT !.phase = "RETRIES_EXHAUSTED"]

Init == job = [j \in Job |-> Absent]

\* One step may move several jobs: a poll claims, or recovers, a batch.
Next ==
    /\ job' = [j \in Job |-> job'[j]]
    /\ \A j \in Job : job'[j] = job[j] \/ JobStep(job[j], job'[j])

Spec == Init /\ [][Next]_job
=============================================================================
