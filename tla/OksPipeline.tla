---------------------------- MODULE OksPipeline ----------------------------
(***************************************************************************)
(* OksPipeline (src/src/pipeline.cpp, src/include/oks/pipeline.hpp): the   *)
(* thread pool k_load_data runs its OksLoadObjectsJob's on.                *)
(*                                                                         *)
(* One main thread constructs the pool, adds jobs, waits for completion    *)
(* and destroys the pool.  Each worker loops: take the job in its slot,    *)
(* run it, fetch the next one from the queue, and sleep on its condition   *)
(* variable when there is none.  A step of this module is one critical     *)
(* section of the code, or the code between two of them.  The only         *)
(* sections in which a worker blocks while it holds its mutex are the two  *)
(* calls of m_barrier.wait(): WorkerMutexHeld tells when.                  *)
(***************************************************************************)
EXTENDS Naturals, Sequences, FiniteSets

CONSTANTS
    N,      \* size of the pool (p_threads_pool_size)
    Job,    \* the jobs the client may add
    NoJob   \* an uninitialised m_job, or an empty hand of the main thread

ASSUME PipelineAssumption == N \in Nat \ {0} /\ NoJob \notin Job

VARIABLES
    wpc,        \* where each worker is
    m_idle,     \* Worker::m_idle
    m_running,  \* Worker::m_running
    m_stop,     \* Worker::m_stop
    m_shutdown, \* Worker::m_shutdown
    m_job,      \* Worker::m_job
    m_jobs,     \* OksPipeline::m_jobs, the shared queue
    mpc,        \* where the main thread is
    k,          \* loop index of the main thread over m_workers
    hand,       \* the job addJob was called with
    closing,    \* the wait was called by the destructor
    submitted,  \* the jobs addJob was called with so far
    finished    \* the jobs whose run() returned

flags == <<m_idle, m_running, m_stop, m_shutdown>>
mainVars == <<mpc, k, hand, closing, submitted>>
vars == <<wpc, flags, m_job, m_jobs, mainVars, finished>>

Worker == 1 .. N

WorkerPC == {"none", "begin", "enter", "top", "exec", "fetch", "settle",
             "stopBarrier", "resume", "wait", "exit"}

MainPC == {"create", "startBarrier", "ready", "offer", "push", "drain",
           "sleep", "stop", "barrier", "shutdown", "join", "done"}

\* A worker waits for the barrier, and leaves it, with its own mutex locked.
WorkerMutexHeld(w) == wpc[w] \in {"enter", "stopBarrier", "resume"}

Init ==
    /\ wpc = [w \in Worker |-> "none"]
    /\ m_idle = [w \in Worker |-> TRUE]
    /\ m_running = [w \in Worker |-> FALSE]
    /\ m_stop = [w \in Worker |-> FALSE]
    /\ m_shutdown = [w \in Worker |-> FALSE]
    /\ m_job = [w \in Worker |-> NoJob]
    /\ m_jobs = <<>>
    /\ mpc = "create"
    /\ k = 1
    /\ hand = NoJob
    /\ closing = FALSE
    /\ submitted = {}
    /\ finished = {}

GoTo(w, pc) == wpc' = [wpc EXCEPT ![w] = pc]

-----------------------------------------------------------------------------
(* Worker::run *)

\* Lock the mutex and arrive at the start barrier.
Enter(w) ==
    /\ wpc[w] = "begin"
    /\ GoTo(w, "enter")
    /\ UNCHANGED <<flags, m_job, m_jobs, mainVars, finished>>

\* Mutant: m_running is not set.
BuggyBeginRound(w) ==
    /\ wpc[w] = "top"
    /\ GoTo(w, IF m_idle[w] THEN "settle" ELSE "exec")
    /\ UNCHANGED <<flags, m_job, m_jobs, mainVars, finished>>

\* m_running = true under the mutex, then the first test of m_idle.
BeginRound(w) ==
    /\ wpc[w] = "top"
    /\ m_running' = [m_running EXCEPT ![w] = TRUE]
    /\ GoTo(w, IF m_idle[w] THEN "settle" ELSE "exec")
    /\ UNCHANGED <<m_idle, m_stop, m_shutdown, m_job, m_jobs, mainVars, finished>>

\* m_job->run() returns and the job is deleted.
RunJob(w) ==
    /\ wpc[w] = "exec"
    /\ finished' = finished \cup {m_job[w]}
    /\ m_job' = [m_job EXCEPT ![w] = NoJob]
    /\ GoTo(w, "fetch")
    /\ UNCHANGED <<flags, m_jobs, mainVars>>

\* Mutant: the front stays in the queue.
BuggyFetchJob(w) ==
    /\ wpc[w] = "fetch"
    /\ m_jobs # <<>>
    /\ m_job' = [m_job EXCEPT ![w] = Head(m_jobs)]
    /\ mpc' = IF mpc = "sleep" THEN "drain" ELSE mpc
    /\ GoTo(w, "exec")
    /\ UNCHANGED <<flags, m_jobs, k, hand, closing, submitted, finished>>

\* m_idle = !getJob(m_job), with a job in the queue: take the front and
\* notify the main thread, which may sleep until the queue is empty.
FetchJob(w) ==
    /\ wpc[w] = "fetch"
    /\ m_jobs # <<>>
    /\ m_job' = [m_job EXCEPT ![w] = Head(m_jobs)]
    /\ m_jobs' = Tail(m_jobs)
    /\ mpc' = IF mpc = "sleep" THEN "drain" ELSE mpc
    /\ GoTo(w, "exec")
    /\ UNCHANGED <<flags, k, hand, closing, submitted, finished>>

\* m_idle = !getJob(m_job) with the queue empty.
FetchNothing(w) ==
    /\ wpc[w] = "fetch"
    /\ m_jobs = <<>>
    /\ m_idle' = [m_idle EXCEPT ![w] = TRUE]
    /\ GoTo(w, "settle")
    /\ UNCHANGED <<m_running, m_stop, m_shutdown, m_job, m_jobs, mainVars, finished>>

\* Mutant: m_stop and m_shutdown are tested after the wait only.
SleepyEndRound(w) ==
    /\ wpc[w] = "settle"
    /\ m_running' = [m_running EXCEPT ![w] = FALSE]
    /\ GoTo(w, IF m_idle[w] THEN "wait" ELSE "top")
    /\ UNCHANGED <<m_idle, m_stop, m_shutdown, m_job, m_jobs, mainVars, finished>>

\* The end of a round, under the mutex: m_running = false, then leave on
\* m_shutdown, go to the barrier on m_stop, or sleep on the condition.
EndRound(w) ==
    /\ wpc[w] = "settle"
    /\ m_running' = [m_running EXCEPT ![w] = FALSE]
    /\ GoTo(w, IF m_shutdown[w] THEN "exit"
               ELSE IF m_stop[w] THEN "stopBarrier"
               ELSE IF m_idle[w] THEN "wait" ELSE "top")
    /\ UNCHANGED <<m_idle, m_stop, m_shutdown, m_job, m_jobs, mainVars, finished>>

\* Back from the barrier, the mutex still locked.
Resume(w) ==
    /\ wpc[w] = "resume"
    /\ m_stop' = [m_stop EXCEPT ![w] = FALSE]
    /\ GoTo(w, IF m_idle[w] THEN "wait" ELSE "top")
    /\ UNCHANGED <<m_idle, m_running, m_shutdown, m_job, m_jobs, mainVars, finished>>

\* A condition variable may wake its waiter without a notification.
SpuriousWake(w) ==
    /\ wpc[w] = "wait"
    /\ GoTo(w, "top")
    /\ UNCHANGED <<flags, m_job, m_jobs, mainVars, finished>>

WorkerStep(w) ==
    \/ Enter(w) \/ BeginRound(w) \/ RunJob(w) \/ FetchJob(w)
    \/ FetchNothing(w) \/ EndRound(w) \/ Resume(w)

-----------------------------------------------------------------------------
(* The main thread *)

\* Mutant: nobody is notified.
BuggyNotified(w) == wpc

\* The program counter of w after notify_one on its condition variable.
Notified(w) == IF wpc[w] = "wait" THEN [wpc EXCEPT ![w] = "top"] ELSE wpc

\* The constructor starts the k-th thread.
CreateWorker ==
    /\ mpc = "create"
    /\ GoTo(k, "begin")
    /\ IF k = N THEN mpc' = "startBarrier" /\ k' = 1
                ELSE mpc' = mpc /\ k' = k + 1
    /\ UNCHANGED <<flags, m_job, m_jobs, hand, closing, submitted, finished>>

\* The last of the N + 1 threads arrives at m_barrier and all are released:
\* the workers in run(), the main thread in the constructor or in
\* waitForCompletion, which the destructor may have called.
BarrierTrip ==
    /\ mpc \in {"startBarrier", "barrier"}
    /\ \A w \in Worker : wpc[w] \in {"enter", "stopBarrier"}
    /\ wpc' = [w \in Worker |-> IF wpc[w] = "enter" THEN "top" ELSE "resume"]
    /\ mpc' = IF closing THEN "shutdown" ELSE "ready"
    /\ UNCHANGED <<flags, m_job, m_jobs, k, hand, closing, submitted, finished>>

\* addJob is called with a new job.
AddJob ==
    /\ mpc = "ready"
    /\ \E j \in Job \ submitted : hand' = j /\ submitted' = submitted \cup {j}
    /\ mpc' = "offer"
    /\ UNCHANGED <<wpc, flags, m_job, m_jobs, k, closing, finished>>

\* Mutant: m_idle is not looked at.
BuggyCanTake(w) == ~m_running[w]

\* setJob accepts the job.
CanTake(w) == ~m_running[w] /\ m_idle[w]

\* setJob of the k-th worker, once its mutex is free: a worker that is idle
\* and not running takes the job; otherwise the next worker is tried, and
\* after the last one the job goes to the queue.
SetJob ==
    /\ mpc = "offer"
    /\ ~WorkerMutexHeld(k)
    /\ IF CanTake(k)
         THEN /\ m_job' = [m_job EXCEPT ![k] = hand]
              /\ m_idle' = [m_idle EXCEPT ![k] = FALSE]
              /\ wpc' = Notified(k)
              /\ mpc' = "ready" /\ k' = 1 /\ hand' = NoJob
         ELSE /\ UNCHANGED <<m_job, m_idle, wpc, hand>>
              /\ IF k = N THEN mpc' = "push" /\ k' = 1
                          ELSE mpc' = mpc /\ k' = k + 1
    /\ UNCHANGED <<m_running, m_stop, m_shutdown, m_jobs, closing, submitted, finished>>

PushJob ==
    /\ mpc = "push"
    /\ m_jobs' = Append(m_jobs, hand)
    /\ hand' = NoJob
    /\ mpc' = "ready"
    /\ UNCHANGED <<wpc, flags, m_job, k, closing, submitted, finished>>

\* waitForCompletion is called, by the client or by the destructor.
WaitForCompletion ==
    /\ mpc = "ready"
    /\ closing' \in BOOLEAN
    /\ mpc' = "drain"
    /\ UNCHANGED <<wpc, flags, m_job, m_jobs, k, hand, submitted, finished>>

\* Mutant: the wait goes on with jobs in the queue.
BuggyDrain ==
    /\ mpc = "drain"
    /\ mpc' = "stop"
    /\ UNCHANGED <<wpc, flags, m_job, m_jobs, k, hand, closing, submitted, finished>>

\* The test of m_jobs.empty() under the pipeline's mutex.
Drain ==
    /\ mpc = "drain"
    /\ mpc' = IF m_jobs = <<>> THEN "stop" ELSE "sleep"
    /\ UNCHANGED <<wpc, flags, m_job, m_jobs, k, hand, closing, submitted, finished>>

SpuriousWakeMain ==
    /\ mpc = "sleep"
    /\ mpc' = "drain"
    /\ UNCHANGED <<wpc, flags, m_job, m_jobs, k, hand, closing, submitted, finished>>

\* stop() of the k-th worker.
StopWorker ==
    /\ mpc = "stop"
    /\ ~WorkerMutexHeld(k)
    /\ m_stop' = [m_stop EXCEPT ![k] = TRUE]
    /\ wpc' = Notified(k)
    /\ IF k = N THEN mpc' = "barrier" /\ k' = 1
                ELSE mpc' = mpc /\ k' = k + 1
    /\ UNCHANGED <<m_idle, m_running, m_shutdown, m_job, m_jobs, hand, closing,
                   submitted, finished>>

\* shutdown() of the k-th worker.
ShutdownWorker ==
    /\ mpc = "shutdown"
    /\ ~WorkerMutexHeld(k)
    /\ m_shutdown' = [m_shutdown EXCEPT ![k] = TRUE]
    /\ wpc' = Notified(k)
    /\ IF k = N THEN mpc' = "join" /\ k' = 1
                ELSE mpc' = mpc /\ k' = k + 1
    /\ UNCHANGED <<m_idle, m_running, m_stop, m_job, m_jobs, hand, closing,
                   submitted, finished>>

Join ==
    /\ mpc = "join"
    /\ \A w \in Worker : wpc[w] = "exit"
    /\ mpc' = "done"
    /\ UNCHANGED <<wpc, flags, m_job, m_jobs, k, hand, closing, submitted, finished>>

\* What the main thread does once it is called; when to call is the client's.
MainStep ==
    \/ CreateWorker \/ BarrierTrip \/ SetJob \/ PushJob \/ Drain
    \/ StopWorker \/ ShutdownWorker \/ Join

Next ==
    \/ \E w \in Worker : WorkerStep(w) \/ SpuriousWake(w)
    \/ MainStep \/ AddJob \/ WaitForCompletion \/ SpuriousWakeMain

Spec == Init /\ [][Next]_vars

\* Threads are scheduled; a spurious wakeup need never come, and a client
\* need never call.
FairSpec == Spec /\ WF_vars(MainStep) /\ \A w \in Worker : WF_vars(WorkerStep(w))

-----------------------------------------------------------------------------
(* Properties *)

\* Every variable keeps its type, in every state of the pool.
TypeOK ==
    /\ wpc \in [Worker -> WorkerPC]
    /\ m_idle \in [Worker -> BOOLEAN]
    /\ m_running \in [Worker -> BOOLEAN]
    /\ m_stop \in [Worker -> BOOLEAN]
    /\ m_shutdown \in [Worker -> BOOLEAN]
    /\ m_job \in [Worker -> Job \cup {NoJob}]
    /\ m_jobs \in Seq(Job)
    /\ mpc \in MainPC
    /\ k \in Worker
    /\ hand \in Job \cup {NoJob}
    /\ closing \in BOOLEAN
    /\ submitted \in SUBSET Job
    /\ finished \in SUBSET Job

Slots == {w \in Worker : m_job[w] # NoJob}
InSlot == {m_job[w] : w \in Slots}
Queued == {m_jobs[i] : i \in DOMAIN m_jobs}
InHand == {hand} \ {NoJob}

\* addJob, setJob and getJob pass a job from hand to slot or queue and from
\* queue to slot under two different mutexes: whatever the interleaving, each
\* added job is in exactly one place, so none is lost, run by two workers or
\* run again (and deleted twice) after it finished.
JobInOnePlace ==
    /\ submitted = InHand \cup InSlot \cup Queued \cup finished
    /\ InHand \cap (InSlot \cup Queued \cup finished) = {}
    /\ InSlot \cap (Queued \cup finished) = {}
    /\ Queued \cap finished = {}
    /\ \A v, w \in Slots : m_job[v] = m_job[w] => v = w
    /\ \A i, j \in DOMAIN m_jobs : m_jobs[i] = m_jobs[j] => i = j

\* setJob never writes m_job or m_idle while the worker reads or writes them
\* outside its mutex: a slot holds a job exactly when m_idle is false and the
\* job was not deleted, and run() dereferences only such a slot.
SlotMatchesIdle ==
    \A w \in Worker :
        /\ wpc[w] = "exec" => m_running[w] /\ ~m_idle[w] /\ m_job[w] # NoJob
        /\ wpc[w] = "fetch" => m_running[w] /\ ~m_idle[w] /\ m_job[w] = NoJob
        /\ wpc[w] # "fetch" => (m_idle[w] <=> m_job[w] = NoJob)

\* One barrier object serves the start and every wait: no worker arrives for
\* one purpose while another one is there for the other, and nobody is at the
\* barrier with work left in its slot.
BarrierOfOneKind ==
    \A v, w \in Worker :
        /\ wpc[v] = "enter" => wpc[w] \in {"none", "begin", "enter"}
        /\ wpc[v] \in {"stopBarrier", "resume"} => m_idle[v]
        /\ wpc[v] = "stopBarrier" => mpc \in {"stop", "barrier"}

\* Where the threads are when the flags and the queue have their values: with
\* the three invariants above, an inductive invariant.
PhaseInv ==
    /\ hand # NoJob <=> mpc \in {"offer", "push"}
    /\ mpc \in {"stop", "barrier", "shutdown", "join", "done"} => m_jobs = <<>>
    /\ mpc \in {"shutdown", "join", "done"} => closing
    /\ closing => mpc \notin {"create", "startBarrier", "ready", "offer", "push"}
    /\ \A w \in Worker :
        /\ m_running[w] <=> wpc[w] \in {"exec", "fetch", "settle"}
        /\ ~m_idle[w] => wpc[w] \in {"top", "exec", "fetch"}
        /\ mpc \in {"shutdown", "join", "done"} => m_idle[w]
        /\ wpc[w] \in {"none", "begin", "enter"} => mpc \in {"create", "startBarrier"}
        /\ mpc \in {"create", "startBarrier"} => wpc[w] \in {"none", "begin", "enter"}
        /\ wpc[w] \in {"stopBarrier", "resume"} => m_stop[w]
        /\ m_stop[w] /\ wpc[w] # "resume" => mpc \in {"stop", "barrier"}
        /\ m_shutdown[w] => mpc \in {"shutdown", "join", "done"}
        /\ wpc[w] = "exit" => m_shutdown[w]

\* A call of waitForCompletion (and so the destructor at the end of
\* k_load_data) returns only when every added job has been run.
WaitMeansAllDone ==
    [][mpc = "barrier" /\ mpc' # "barrier" => finished = submitted]_vars

\* A worker leaves its loop only when the destructor's wait is over: no job
\* is finished, queued or pending after a thread has gone.
NoJobAfterExit ==
    \A w \in Worker : wpc[w] = "exit" => finished = submitted /\ closing

\* A job given directly to a worker is always run: its notification is not
\* lost between the end of a round and the wait.
GivenJobIsRun ==
    \A j \in Job : (j \in InSlot) ~> (j \in finished)

\* Once the queue was seen empty the rest of the wait cannot hang: stop() is
\* not lost, all reach the barrier, and the destructor's shutdown() and join
\* end as well.
DrainedWaitReturns ==
    (mpc = "stop") ~> (mpc = IF closing THEN "done" ELSE "ready")

\* k_load_data documents that the file is loaded when the call returns, and
\* gives the pool no other means to say so: the wait must end.
WaitReturns ==
    (mpc = "drain") ~> (mpc \in {"ready", "done"})

-----------------------------------------------------------------------------
(* The pool implements the abstract job pool. *)

ActiveJobs == {m_job[w] : w \in {v \in Worker : wpc[v] = "exec"}}

Waiting == mpc \in {"drain", "sleep", "stop", "barrier"}

Pool == INSTANCE JobPool WITH
            NWorkers <- N,
            active <- ActiveJobs,
            open <- ~Waiting

PoolSpec == Pool!Spec
=============================================================================
