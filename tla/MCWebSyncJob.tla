---------------------------- MODULE MCWebSyncJob ----------------------------
(* Small instances of WebSyncJob for TLC. *)
EXTENDS WebSyncJob, TLC

CONSTANTS j1, j2, s1, p1, p2, w1, w2

OneJob == {j1}
TwoJobs == {j1, j2}
OneSite == [j \in Job |-> s1]
NoLoser == {}
NoWinner == [l \in Loser |-> p1]
OneLoser == {p2}
FirstWins == [l \in Loser |-> p1]
WorkerSymmetry == Permutations(Worker)
WorkerAndJobSymmetry == Permutations(Worker) \cup Permutations(Job)
=============================================================================
