------------------------------ MODULE JobPool ------------------------------
(***************************************************************************)
(* What OksPipeline promises to k_load_data: every job given to the pool   *)
(* is run by one thread at a time, at most once, at most NWorkers jobs run *)
(* together, and whoever waits for completion goes on only when every job  *)
(* submitted so far has finished.                                          *)
(***************************************************************************)
EXTENDS Naturals, FiniteSets

CONSTANTS
    Job,        \* the jobs a client may submit
    NWorkers    \* the number of threads of the pool

VARIABLES
    submitted,  \* jobs handed to the pool
    active,     \* jobs being run now
    finished,   \* jobs whose run() returned
    open        \* FALSE while the client waits for completion

vars == <<submitted, active, finished, open>>

Init ==
    /\ submitted = {}
    /\ active = {}
    /\ finished = {}
    /\ open = TRUE

\* The client hands over a job that was never handed over before.
Submit ==
    /\ open
    /\ \E j \in Job \ submitted : submitted' = submitted \cup {j}
    /\ UNCHANGED <<active, finished, open>>

\* A thread takes a submitted job nobody runs or ran, and runs it. The
\* thread that ends one job may start its next one in the same step.
Start ==
    /\ Cardinality(active) < NWorkers
    /\ \E j \in submitted \ (active \cup finished) : active' = active \cup {j}
    /\ UNCHANGED <<submitted, finished, open>>

Finish ==
    /\ \E j \in active :
         /\ active' = active \ {j}
         /\ finished' = finished \cup {j}
    /\ UNCHANGED <<submitted, open>>

BeginWait == open /\ open' = FALSE /\ UNCHANGED <<submitted, active, finished>>

\* The wait ends with every job done.
EndWait ==
    /\ ~open
    /\ finished = submitted
    /\ open' = TRUE
    /\ UNCHANGED <<submitted, active, finished>>

Next == Submit \/ Start \/ Finish \/ BeginWait \/ EndWait

Spec == Init /\ [][Next]_vars
=============================================================================
