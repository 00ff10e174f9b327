------------------------------ MODULE Replies ------------------------------
(* What a script is answered: the Async await, the database and HTTP.  The  *)
(* three families of effects live in one thread, each with a replay cache   *)
(* of its own; no handler of one calls into another, so that they share     *)
(* the size of their caches and nothing else.                               *)
EXTENDS Effects, DbEffects, HttpEffects

\* Each family goes its own way.
RepliesSpec == Spec /\ DbSpec /\ HttpSpec

\* Each of the three caches implements Memo: a recorded answer is never
\* replaced, and forgotten only with all others.
RepliesAreMemos == ReplayIsMemo /\ DbReplayIsMemo /\ HttpReplayIsMemo

\* What the process has answered for a seed it does not send to the database
\* or to the network again until the cache is full.
RetriesAreReplayed == RetryIsReplayed /\ RequestedOnce
=============================================================================
