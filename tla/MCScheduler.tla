----------------------------- MODULE MCScheduler -----------------------------
(****************************************************************************)
(* Small instances of SchedulerView for TLC.                                *)
(****************************************************************************)
EXTENDS SchedulerView, TLC

CONSTANTS w1, w2

\* Two workers deployed with one owner name, as the replicas of a compose
\* service are.
MCSharedOwner == [w \in {w1, w2} |-> "compose-worker"]

\* One job may be tried twice and the other contents once.
MCSubmissions == {[contents |-> "a", max_attempts |-> 2, scheduled_in |-> 0],
                  [contents |-> "b", max_attempts |-> 1, scheduled_in |-> 1]}

MCOneSubmission == {[contents |-> "a", max_attempts |-> 2, scheduled_in |-> 0]}

\* Workers with one owner name are interchangeable.
MCSymmetry == Permutations({w1, w2})

\* min(300, 2**attempt) seconds, at one tick per two seconds.
MCRetryDelay(n) == n

=============================================================================
