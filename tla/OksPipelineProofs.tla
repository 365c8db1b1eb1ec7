------------------------- MODULE OksPipelineProofs -------------------------
(***************************************************************************)
(* Proofs about OksPipeline for every size of the pool and every set of    *)
(* jobs: the type invariant, the conservation of jobs across the hand, the *)
(* slots and the queue, and what the end of a wait means.                  *)
(***************************************************************************)
EXTENDS OksPipeline, FiniteSetTheorems, TLAPS

\* The inductive invariant: types, slots, phases, and one place per job.
PipelineInv == TypeOK /\ SlotMatchesIdle /\ PhaseInv /\ JobInOnePlace

-----------------------------------------------------------------------------
(* Lemmas about the queue. *)

\* Appending a job to the queue adds it to the queued set, and keeps the
\* entries different when it was not there.
LEMMA AppendQueue ==
  ASSUME NEW q \in Seq(Job), NEW j \in Job,
         \A a, b \in DOMAIN q : q[a] = q[b] => a = b,
         j \notin {q[i] : i \in DOMAIN q}
  PROVE  LET r == Append(q, j) IN
           /\ r \in Seq(Job)
           /\ {r[i] : i \in DOMAIN r} = {q[i] : i \in DOMAIN q} \cup {j}
           /\ \A a, b \in DOMAIN r : r[a] = r[b] => a = b
<1> DEFINE r == Append(q, j)
<1>1. r \in Seq(Job) /\ DOMAIN q = 1 .. Len(q) /\ Len(q) \in Nat
      /\ DOMAIN r = 1 .. (Len(q) + 1)
  OBVIOUS
<1>2. \A i \in 1 .. Len(q) : r[i] = q[i]
  OBVIOUS
<1>3. r[Len(q) + 1] = j
  OBVIOUS
<1> HIDE DEF r
<1>4. {r[i] : i \in DOMAIN r} = {q[i] : i \in DOMAIN q} \cup {j}
  <2>1. ASSUME NEW i \in DOMAIN r PROVE r[i] \in {q[n] : n \in DOMAIN q} \cup {j}
    BY <1>1, <1>2, <1>3
  <2>2. ASSUME NEW i \in DOMAIN q PROVE q[i] \in {r[n] : n \in DOMAIN r}
    BY <1>1, <1>2
  <2>3. j \in {r[n] : n \in DOMAIN r}
    BY <1>1, <1>3
  <2> QED BY <2>1, <2>2, <2>3
<1>5. ASSUME NEW a \in DOMAIN r, NEW b \in DOMAIN r, r[a] = r[b] PROVE a = b
  <2>1. CASE a = Len(q) + 1 /\ b # Len(q) + 1
    BY <1>1, <1>2, <1>3, <1>5, <2>1
  <2>2. CASE b = Len(q) + 1 /\ a # Len(q) + 1
    BY <1>1, <1>2, <1>3, <1>5, <2>2
  <2>3. CASE a # Len(q) + 1 /\ b # Len(q) + 1
    BY <1>1, <1>2, <1>5, <2>3
  <2> QED BY <2>1, <2>2, <2>3
<1> QED BY <1>1, <1>4, <1>5 DEF r

\* Taking the front of a queue of different jobs takes exactly that job out
\* of the queued set.
LEMMA TailQueue ==
  ASSUME NEW q \in Seq(Job), q # <<>>,
         \A a, b \in DOMAIN q : q[a] = q[b] => a = b
  PROVE  LET r == Tail(q) IN
           /\ r \in Seq(Job)
           /\ Head(q) \in Job
           /\ Head(q) \in {q[i] : i \in DOMAIN q}
           /\ {r[i] : i \in DOMAIN r} = {q[i] : i \in DOMAIN q} \ {Head(q)}
           /\ \A a, b \in DOMAIN r : r[a] = r[b] => a = b
<1> DEFINE r == Tail(q)
<1>1. r \in Seq(Job) /\ DOMAIN q = 1 .. Len(q) /\ Len(q) \in Nat /\ Len(q) > 0
      /\ DOMAIN r = 1 .. (Len(q) - 1) /\ Head(q) = q[1]
  OBVIOUS
<1>2. \A i \in 1 .. (Len(q) - 1) : r[i] = q[i + 1]
  OBVIOUS
<1>3. Head(q) \in Job
  OBVIOUS
<1> HIDE DEF r
<1>4. {r[i] : i \in DOMAIN r} = {q[i] : i \in DOMAIN q} \ {Head(q)}
  <2>1. ASSUME NEW i \in DOMAIN r PROVE r[i] \in {q[n] : n \in DOMAIN q} \ {Head(q)}
    <3>1. i + 1 \in DOMAIN q /\ i + 1 # 1 /\ 1 \in DOMAIN q
      BY <1>1
    <3> QED BY <1>1, <1>2, <3>1
  <2>2. ASSUME NEW i \in DOMAIN q, q[i] # Head(q) PROVE q[i] \in {r[n] : n \in DOMAIN r}
    <3>1. i - 1 \in DOMAIN r /\ (i - 1) + 1 = i
      BY <1>1, <2>2
    <3> QED BY <1>1, <1>2, <3>1
  <2> QED BY <2>1, <2>2
<1>5. ASSUME NEW a \in DOMAIN r, NEW b \in DOMAIN r, r[a] = r[b] PROVE a = b
  <2>1. a + 1 \in DOMAIN q /\ b + 1 \in DOMAIN q /\ q[a + 1] = q[b + 1]
    BY <1>1, <1>2, <1>5
  <2>2. a + 1 = b + 1
    BY <2>1
  <2> QED BY <1>1, <2>2
<1>6. Head(q) \in {q[i] : i \in DOMAIN q}
  BY <1>1
<1> QED BY <1>1, <1>3, <1>4, <1>5, <1>6 DEF r

-----------------------------------------------------------------------------
(* Type correctness, the slots and the phases. *)

\* What the steps preserve apart from JobInOnePlace.
ControlInv == TypeOK /\ SlotMatchesIdle /\ PhaseInv

\* No worker runs and no job waits: the control invariant holds.
LEMMA InitControl == Init => ControlInv
<1> SUFFICES ASSUME Init PROVE ControlInv
  OBVIOUS
<1> USE PipelineAssumption
<1>1. TypeOK
  <2>1. <<>> \in Seq(Job) /\ 1 \in 1 .. N
    OBVIOUS
  <2> QED BY <2>1 DEF Init, TypeOK, Worker, WorkerPC, MainPC
<1>2. SlotMatchesIdle
  BY DEF Init, SlotMatchesIdle
<1>3. PhaseInv
  BY DEF Init, PhaseInv
<1> QED BY <1>1, <1>2, <1>3 DEF ControlInv

\* Every step of the producer and of the workers keeps the control invariant.
LEMMA NextControl == ControlInv /\ [Next]_vars => ControlInv'
<1> SUFFICES ASSUME TypeOK, SlotMatchesIdle, PhaseInv, [Next]_vars
             PROVE  TypeOK' /\ SlotMatchesIdle' /\ PhaseInv'
  BY DEF ControlInv
<1> USE PipelineAssumption
<1>1. ASSUME NEW w \in Worker, Enter(w) PROVE TypeOK' /\ SlotMatchesIdle' /\ PhaseInv'
  <2>1. TypeOK'
    BY <1>1 DEF Enter, GoTo, flags, mainVars, TypeOK, Worker, WorkerPC, MainPC, SlotMatchesIdle, PhaseInv
  <2>2. SlotMatchesIdle'
    BY <1>1 DEF Enter, GoTo, flags, mainVars, TypeOK, Worker, WorkerPC, MainPC, SlotMatchesIdle, PhaseInv
  <2>3. PhaseInv'
    <3>1. /\ wpc[w] = "begin" /\ wpc' = [wpc EXCEPT ![w] = "enter"]
          /\ UNCHANGED <<m_idle, m_running, m_stop, m_shutdown, m_jobs, mpc, hand, closing>>
      BY <1>1 DEF Enter, GoTo, flags, mainVars
    <3>2. wpc'[w] = "enter" /\ \A v \in Worker \ {w} : wpc'[v] = wpc[v]
      BY <3>1 DEF TypeOK
    <3> QED BY <3>1, <3>2 DEF PhaseInv
  <2> QED BY <2>1, <2>2, <2>3
<1>2. ASSUME NEW w \in Worker, BeginRound(w) PROVE TypeOK' /\ SlotMatchesIdle' /\ PhaseInv'
  <2>1. TypeOK'
    BY <1>2 DEF BeginRound, GoTo, flags, mainVars, TypeOK, Worker, WorkerPC, MainPC, SlotMatchesIdle, PhaseInv
  <2>2. SlotMatchesIdle'
    BY <1>2 DEF BeginRound, GoTo, flags, mainVars, TypeOK, Worker, WorkerPC, MainPC, SlotMatchesIdle, PhaseInv
  <2>3. PhaseInv'
    BY <1>2 DEF BeginRound, GoTo, flags, mainVars, TypeOK, Worker, WorkerPC, MainPC, SlotMatchesIdle, PhaseInv
  <2> QED BY <2>1, <2>2, <2>3
<1>3. ASSUME NEW w \in Worker, RunJob(w) PROVE TypeOK' /\ SlotMatchesIdle' /\ PhaseInv'
  <2>1. TypeOK'
    BY <1>3 DEF RunJob, GoTo, flags, mainVars, TypeOK, Worker, WorkerPC, MainPC, SlotMatchesIdle, PhaseInv
  <2>2. SlotMatchesIdle'
    BY <1>3 DEF RunJob, GoTo, flags, mainVars, TypeOK, Worker, WorkerPC, MainPC, SlotMatchesIdle, PhaseInv
  <2>3. PhaseInv'
    BY <1>3 DEF RunJob, GoTo, flags, mainVars, TypeOK, Worker, WorkerPC, MainPC, SlotMatchesIdle, PhaseInv
  <2> QED BY <2>1, <2>2, <2>3
<1>4. ASSUME NEW w \in Worker, FetchJob(w) PROVE TypeOK' /\ SlotMatchesIdle' /\ PhaseInv'
  <2>1. TypeOK'
    <3>1. Head(m_jobs) \in Job /\ Tail(m_jobs) \in Seq(Job)
      BY <1>4 DEF FetchJob, TypeOK
    <3>2. m_job' \in [Worker -> Job \cup {NoJob}] /\ m_jobs' \in Seq(Job)
      BY <1>4, <3>1 DEF FetchJob, TypeOK
    <3>3. wpc' \in [Worker -> WorkerPC] /\ mpc' \in MainPC
      BY <1>4 DEF FetchJob, GoTo, TypeOK, WorkerPC, MainPC
    <3> QED BY <1>4, <3>2, <3>3 DEF FetchJob, flags, TypeOK
  <2>2. SlotMatchesIdle'
    BY <1>4 DEF FetchJob, GoTo, flags, mainVars, TypeOK, Worker, WorkerPC, MainPC, SlotMatchesIdle, PhaseInv
  <2>3. PhaseInv'
    BY <1>4 DEF FetchJob, GoTo, flags, mainVars, TypeOK, Worker, WorkerPC, MainPC, SlotMatchesIdle, PhaseInv
  <2> QED BY <2>1, <2>2, <2>3
<1>5. ASSUME NEW w \in Worker, FetchNothing(w) PROVE TypeOK' /\ SlotMatchesIdle' /\ PhaseInv'
  <2>1. TypeOK'
    BY <1>5 DEF FetchNothing, GoTo, flags, mainVars, TypeOK, Worker, WorkerPC, MainPC, SlotMatchesIdle, PhaseInv
  <2>2. SlotMatchesIdle'
    BY <1>5 DEF FetchNothing, GoTo, flags, mainVars, TypeOK, Worker, WorkerPC, MainPC, SlotMatchesIdle, PhaseInv
  <2>3. PhaseInv'
    BY <1>5 DEF FetchNothing, GoTo, flags, mainVars, TypeOK, Worker, WorkerPC, MainPC, SlotMatchesIdle, PhaseInv
  <2> QED BY <2>1, <2>2, <2>3
<1>6. ASSUME NEW w \in Worker, EndRound(w) PROVE TypeOK' /\ SlotMatchesIdle' /\ PhaseInv'
  <2>1. TypeOK'
    BY <1>6 DEF EndRound, GoTo, flags, mainVars, TypeOK, Worker, WorkerPC, MainPC, SlotMatchesIdle, PhaseInv
  <2>2. SlotMatchesIdle'
    BY <1>6 DEF EndRound, GoTo, flags, mainVars, TypeOK, Worker, WorkerPC, MainPC, SlotMatchesIdle, PhaseInv
  <2>3. PhaseInv'
    <3>1. /\ m_running' = [m_running EXCEPT ![w] = FALSE] /\ wpc[w] = "settle"
          /\ UNCHANGED <<m_idle, m_stop, m_shutdown, m_jobs, mpc, hand, closing>>
      BY <1>6 DEF EndRound, mainVars
    <3>2. /\ \A v \in Worker \ {w} : wpc'[v] = wpc[v] /\ m_running'[v] = m_running[v]
          /\ ~m_running'[w]
          /\ wpc'[w] = IF m_shutdown[w] THEN "exit"
                       ELSE IF m_stop[w] THEN "stopBarrier" ELSE IF m_idle[w] THEN "wait" ELSE "top"
      BY <1>6, <3>1 DEF EndRound, GoTo, TypeOK
    <3> QED BY <3>1, <3>2 DEF PhaseInv
  <2> QED BY <2>1, <2>2, <2>3
<1>7. ASSUME NEW w \in Worker, Resume(w) PROVE TypeOK' /\ SlotMatchesIdle' /\ PhaseInv'
  <2>1. TypeOK'
    BY <1>7 DEF Resume, GoTo, flags, mainVars, TypeOK, Worker, WorkerPC, MainPC, SlotMatchesIdle, PhaseInv
  <2>2. SlotMatchesIdle'
    BY <1>7 DEF Resume, GoTo, flags, mainVars, TypeOK, Worker, WorkerPC, MainPC, SlotMatchesIdle, PhaseInv
  <2>3. PhaseInv'
    BY <1>7 DEF Resume, GoTo, flags, mainVars, TypeOK, Worker, WorkerPC, MainPC, SlotMatchesIdle, PhaseInv
  <2> QED BY <2>1, <2>2, <2>3
<1>8. ASSUME NEW w \in Worker, SpuriousWake(w) PROVE TypeOK' /\ SlotMatchesIdle' /\ PhaseInv'
  <2>1. TypeOK'
    BY <1>8 DEF SpuriousWake, GoTo, flags, mainVars, TypeOK, Worker, WorkerPC, MainPC, SlotMatchesIdle, PhaseInv
  <2>2. SlotMatchesIdle'
    BY <1>8 DEF SpuriousWake, GoTo, flags, mainVars, TypeOK, Worker, WorkerPC, MainPC, SlotMatchesIdle, PhaseInv
  <2>3. PhaseInv'
    BY <1>8 DEF SpuriousWake, GoTo, flags, mainVars, TypeOK, Worker, WorkerPC, MainPC, SlotMatchesIdle, PhaseInv
  <2> QED BY <2>1, <2>2, <2>3
<1>9. CASE CreateWorker
  <2>1. TypeOK'
    BY <1>9 DEF CreateWorker, GoTo, Notified, WorkerMutexHeld, flags, mainVars, TypeOK, Worker, WorkerPC, MainPC, SlotMatchesIdle, PhaseInv
  <2>2. SlotMatchesIdle'
    BY <1>9 DEF CreateWorker, GoTo, Notified, WorkerMutexHeld, flags, mainVars, TypeOK, Worker, WorkerPC, MainPC, SlotMatchesIdle, PhaseInv
  <2>3. PhaseInv'
    BY <1>9 DEF CreateWorker, GoTo, Notified, WorkerMutexHeld, flags, mainVars, TypeOK, Worker, WorkerPC, MainPC, SlotMatchesIdle, PhaseInv
  <2> QED BY <2>1, <2>2, <2>3
<1>10. CASE BarrierTrip
  <2>1. TypeOK'
    BY <1>10 DEF BarrierTrip, GoTo, Notified, WorkerMutexHeld, flags, mainVars, TypeOK, Worker, WorkerPC, MainPC, SlotMatchesIdle, PhaseInv
  <2>2. SlotMatchesIdle'
    BY <1>10 DEF BarrierTrip, GoTo, Notified, WorkerMutexHeld, flags, mainVars, TypeOK, Worker, WorkerPC, MainPC, SlotMatchesIdle, PhaseInv
  <2>3. PhaseInv'
    BY <1>10 DEF BarrierTrip, GoTo, Notified, WorkerMutexHeld, flags, mainVars, TypeOK, Worker, WorkerPC, MainPC, SlotMatchesIdle, PhaseInv
  <2> QED BY <2>1, <2>2, <2>3
<1>11. CASE SetJob
  <2>1. TypeOK'
    <3>1. hand \in Job
      BY <1>11 DEF SetJob, CanTake, TypeOK, PhaseInv
    <3>2. CASE ~m_running[k] /\ m_idle[k]
      <4>1. m_job' \in [Worker -> Job \cup {NoJob}]
        BY <1>11, <3>1, <3>2 DEF SetJob, CanTake, TypeOK
      <4>2. wpc' \in [Worker -> WorkerPC]
        BY <1>11, <3>2 DEF SetJob, CanTake, Notified, TypeOK, WorkerPC
      <4>3. m_idle' \in [Worker -> BOOLEAN]
        BY <1>11, <3>2 DEF SetJob, CanTake, TypeOK
      <4>4. UNCHANGED <<m_running, m_stop, m_shutdown, m_jobs, closing, submitted, finished>>
        BY <1>11 DEF SetJob, CanTake
      <4>5. mpc' \in MainPC /\ k' \in Worker /\ hand' \in Job \cup {NoJob}
        BY <1>11, <3>2 DEF SetJob, CanTake, MainPC, Worker
      <4> QED BY <4>1, <4>2, <4>3, <4>4, <4>5 DEF TypeOK
    <3>3. CASE ~(~m_running[k] /\ m_idle[k])
      BY <1>11, <3>3 DEF SetJob, CanTake, flags, TypeOK, Worker, WorkerPC, MainPC
    <3> QED BY <3>2, <3>3
  <2>2. SlotMatchesIdle'
    BY <1>11 DEF SetJob, CanTake, GoTo, Notified, WorkerMutexHeld, flags, mainVars, TypeOK, Worker, WorkerPC, MainPC, SlotMatchesIdle, PhaseInv
  <2>3. PhaseInv'
    BY <1>11 DEF SetJob, CanTake, GoTo, Notified, WorkerMutexHeld, flags, mainVars, TypeOK, Worker, WorkerPC, MainPC, SlotMatchesIdle, PhaseInv
  <2> QED BY <2>1, <2>2, <2>3
<1>12. CASE PushJob
  <2>1. TypeOK'
    BY <1>12 DEF PushJob, GoTo, Notified, WorkerMutexHeld, flags, mainVars, TypeOK, Worker, WorkerPC, MainPC, SlotMatchesIdle, PhaseInv
  <2>2. SlotMatchesIdle'
    BY <1>12 DEF PushJob, GoTo, Notified, WorkerMutexHeld, flags, mainVars, TypeOK, Worker, WorkerPC, MainPC, SlotMatchesIdle, PhaseInv
  <2>3. PhaseInv'
    BY <1>12 DEF PushJob, GoTo, Notified, WorkerMutexHeld, flags, mainVars, TypeOK, Worker, WorkerPC, MainPC, SlotMatchesIdle, PhaseInv
  <2> QED BY <2>1, <2>2, <2>3
<1>13. CASE Drain
  <2>1. TypeOK'
    BY <1>13 DEF Drain, GoTo, Notified, WorkerMutexHeld, flags, mainVars, TypeOK, Worker, WorkerPC, MainPC, SlotMatchesIdle, PhaseInv
  <2>2. SlotMatchesIdle'
    BY <1>13 DEF Drain, GoTo, Notified, WorkerMutexHeld, flags, mainVars, TypeOK, Worker, WorkerPC, MainPC, SlotMatchesIdle, PhaseInv
  <2>3. PhaseInv'
    BY <1>13 DEF Drain, GoTo, Notified, WorkerMutexHeld, flags, mainVars, TypeOK, Worker, WorkerPC, MainPC, SlotMatchesIdle, PhaseInv
  <2> QED BY <2>1, <2>2, <2>3
<1>14. CASE StopWorker
  <2>1. TypeOK'
    BY <1>14 DEF StopWorker, GoTo, Notified, WorkerMutexHeld, flags, mainVars, TypeOK, Worker, WorkerPC, MainPC, SlotMatchesIdle, PhaseInv
  <2>2. SlotMatchesIdle'
    BY <1>14 DEF StopWorker, GoTo, Notified, WorkerMutexHeld, flags, mainVars, TypeOK, Worker, WorkerPC, MainPC, SlotMatchesIdle, PhaseInv
  <2>3. PhaseInv'
    BY <1>14 DEF StopWorker, GoTo, Notified, WorkerMutexHeld, flags, mainVars, TypeOK, Worker, WorkerPC, MainPC, SlotMatchesIdle, PhaseInv
  <2> QED BY <2>1, <2>2, <2>3
<1>15. CASE ShutdownWorker
  <2>1. TypeOK'
    BY <1>15 DEF ShutdownWorker, GoTo, Notified, WorkerMutexHeld, flags, mainVars, TypeOK, Worker, WorkerPC, MainPC, SlotMatchesIdle, PhaseInv
  <2>2. SlotMatchesIdle'
    BY <1>15 DEF ShutdownWorker, GoTo, Notified, WorkerMutexHeld, flags, mainVars, TypeOK, Worker, WorkerPC, MainPC, SlotMatchesIdle, PhaseInv
  <2>3. PhaseInv'
    BY <1>15 DEF ShutdownWorker, GoTo, Notified, WorkerMutexHeld, flags, mainVars, TypeOK, Worker, WorkerPC, MainPC, SlotMatchesIdle, PhaseInv
  <2> QED BY <2>1, <2>2, <2>3
<1>16. CASE Join
  <2>1. TypeOK'
    BY <1>16 DEF Join, GoTo, Notified, WorkerMutexHeld, flags, mainVars, TypeOK, Worker, WorkerPC, MainPC, SlotMatchesIdle, PhaseInv
  <2>2. SlotMatchesIdle'
    BY <1>16 DEF Join, GoTo, Notified, WorkerMutexHeld, flags, mainVars, TypeOK, Worker, WorkerPC, MainPC, SlotMatchesIdle, PhaseInv
  <2>3. PhaseInv'
    BY <1>16 DEF Join, GoTo, Notified, WorkerMutexHeld, flags, mainVars, TypeOK, Worker, WorkerPC, MainPC, SlotMatchesIdle, PhaseInv
  <2> QED BY <2>1, <2>2, <2>3
<1>17. CASE AddJob
  <2>1. TypeOK'
    BY <1>17 DEF AddJob, GoTo, Notified, WorkerMutexHeld, flags, mainVars, TypeOK, Worker, WorkerPC, MainPC, SlotMatchesIdle, PhaseInv
  <2>2. SlotMatchesIdle'
    BY <1>17 DEF AddJob, GoTo, Notified, WorkerMutexHeld, flags, mainVars, TypeOK, Worker, WorkerPC, MainPC, SlotMatchesIdle, PhaseInv
  <2>3. PhaseInv'
    BY <1>17 DEF AddJob, GoTo, Notified, WorkerMutexHeld, flags, mainVars, TypeOK, Worker, WorkerPC, MainPC, SlotMatchesIdle, PhaseInv
  <2> QED BY <2>1, <2>2, <2>3
<1>18. CASE WaitForCompletion
  <2>1. TypeOK'
    BY <1>18 DEF WaitForCompletion, GoTo, Notified, WorkerMutexHeld, flags, mainVars, TypeOK, Worker, WorkerPC, MainPC, SlotMatchesIdle, PhaseInv
  <2>2. SlotMatchesIdle'
    BY <1>18 DEF WaitForCompletion, GoTo, Notified, WorkerMutexHeld, flags, mainVars, TypeOK, Worker, WorkerPC, MainPC, SlotMatchesIdle, PhaseInv
  <2>3. PhaseInv'
    BY <1>18 DEF WaitForCompletion, GoTo, Notified, WorkerMutexHeld, flags, mainVars, TypeOK, Worker, WorkerPC, MainPC, SlotMatchesIdle, PhaseInv
  <2> QED BY <2>1, <2>2, <2>3
<1>19. CASE SpuriousWakeMain
  <2>1. TypeOK'
    BY <1>19 DEF SpuriousWakeMain, GoTo, Notified, WorkerMutexHeld, flags, mainVars, TypeOK, Worker, WorkerPC, MainPC, SlotMatchesIdle, PhaseInv
  <2>2. SlotMatchesIdle'
    BY <1>19 DEF SpuriousWakeMain, GoTo, Notified, WorkerMutexHeld, flags, mainVars, TypeOK, Worker, WorkerPC, MainPC, SlotMatchesIdle, PhaseInv
  <2>3. PhaseInv'
    BY <1>19 DEF SpuriousWakeMain, GoTo, Notified, WorkerMutexHeld, flags, mainVars, TypeOK, Worker, WorkerPC, MainPC, SlotMatchesIdle, PhaseInv
  <2> QED BY <2>1, <2>2, <2>3
<1>20. CASE UNCHANGED vars
  BY <1>20 DEF vars, flags, mainVars, TypeOK, SlotMatchesIdle, PhaseInv
<1> QED BY <1>1, <1>2, <1>3, <1>4, <1>5, <1>6, <1>7, <1>8, <1>9, <1>10, <1>11, <1>12, <1>13, <1>14, <1>15, <1>16, <1>17, <1>18, <1>19, <1>20 DEF Next, WorkerStep, MainStep

-----------------------------------------------------------------------------
(* One place per job. *)

\* The conjuncts of JobInOnePlace, named for the steps that disturb them.
Conserved == submitted = InHand \cup InSlot \cup Queued \cup finished
HandApart == InHand \cap (InSlot \cup Queued \cup finished) = {}
SlotApart == InSlot \cap (Queued \cup finished) = {}
QueueApart == Queued \cap finished = {}
SlotsDiffer == \A v, w \in Slots : m_job[v] = m_job[w] => v = w
QueueDiffers == \A i, j \in DOMAIN m_jobs : m_jobs[i] = m_jobs[j] => i = j

\* A job is in one place when none is lost, and no two places have it.
LEMMA PlacesAre ==
  JobInOnePlace <=> /\ Conserved /\ HandApart /\ SlotApart
                    /\ QueueApart /\ SlotsDiffer /\ QueueDiffers
BY DEF JobInOnePlace, Conserved, HandApart, SlotApart, QueueApart, SlotsDiffer, QueueDiffers

\* Every job is with its producer.
LEMMA InitPlaces == Init => JobInOnePlace
<1> SUFFICES ASSUME Init PROVE JobInOnePlace
  OBVIOUS
<1>1. InHand = {} /\ InSlot = {} /\ Slots = {} /\ finished = {} /\ submitted = {}
  BY DEF Init, InHand, InSlot, Slots
<1>2. m_jobs = <<>> /\ DOMAIN m_jobs = {}
  BY DEF Init
<1>3. Queued = {}
  BY <1>2 DEF Queued
<1> QED BY <1>1, <1>2, <1>3 DEF JobInOnePlace

\* A job leaves the slot of a worker when it is run.
LEMMA RunJobPlaces ==
  ASSUME ControlInv, JobInOnePlace, NEW w \in Worker, RunJob(w)
  PROVE  JobInOnePlace'
<1> USE DEF ControlInv
<1>1. w \in Slots /\ m_job[w] \in Job /\ m_job[w] # NoJob
  BY DEF RunJob, TypeOK, SlotMatchesIdle, Slots
<1>2. m_job' = [m_job EXCEPT ![w] = NoJob] /\ finished' = finished \cup {m_job[w]}
      /\ UNCHANGED <<m_jobs, hand, submitted>>
  BY DEF RunJob, mainVars
<1>3. Slots' = Slots \ {w} /\ \A v \in Slots' : m_job'[v] = m_job[v]
  BY <1>2 DEF Slots, TypeOK
<1>4. InSlot' = InSlot \ {m_job[w]}
  BY <1>1, <1>3 DEF InSlot, JobInOnePlace
<1>5. InHand' = InHand /\ Queued' = Queued
  BY <1>2 DEF InHand, Queued
<1>6. m_job[w] \in InSlot
  BY <1>1 DEF InSlot
<1>7. Conserved' /\ HandApart' /\ SlotApart' /\ QueueApart'
  BY <1>2, <1>4, <1>5, <1>6 DEF JobInOnePlace, Conserved, HandApart, SlotApart, QueueApart
<1>8. SlotsDiffer' /\ QueueDiffers'
  BY <1>2, <1>3 DEF JobInOnePlace, SlotsDiffer, QueueDiffers
<1> QED BY <1>7, <1>8 DEF JobInOnePlace, Conserved, HandApart, SlotApart, QueueApart, SlotsDiffer, QueueDiffers

\* A job goes from the front of the queue to an empty slot.
LEMMA FetchJobPlaces ==
  ASSUME ControlInv, JobInOnePlace, NEW w \in Worker, FetchJob(w)
  PROVE  JobInOnePlace'
<1> USE DEF ControlInv
<1> DEFINE j == Head(m_jobs)
<1>1. m_jobs \in Seq(Job) /\ m_jobs # <<>> /\ QueueDiffers
  BY DEF FetchJob, TypeOK, JobInOnePlace, QueueDiffers
<1>2. j \in Job /\ j \in Queued /\ Queued' = Queued \ {j} /\ QueueDiffers'
  <2>1. \A a, b \in DOMAIN m_jobs : m_jobs[a] = m_jobs[b] => a = b
    BY <1>1 DEF QueueDiffers
  <2>2. /\ Tail(m_jobs) \in Seq(Job)
        /\ Head(m_jobs) \in Job
        /\ Head(m_jobs) \in {m_jobs[i] : i \in DOMAIN m_jobs}
        /\ {Tail(m_jobs)[i] : i \in DOMAIN Tail(m_jobs)}
             = {m_jobs[i] : i \in DOMAIN m_jobs} \ {Head(m_jobs)}
        /\ \A a, b \in DOMAIN Tail(m_jobs) : Tail(m_jobs)[a] = Tail(m_jobs)[b] => a = b
    BY <1>1, <2>1, TailQueue
  <2>3. m_jobs' = Tail(m_jobs)
    BY DEF FetchJob
  <2> QED BY <2>2, <2>3 DEF Queued, QueueDiffers
<1> HIDE DEF j
<1>3. m_job' = [m_job EXCEPT ![w] = j] /\ UNCHANGED <<hand, submitted, finished>>
  BY DEF FetchJob, j
<1>4. w \notin Slots /\ j # NoJob
  BY <1>2, PipelineAssumption DEF FetchJob, SlotMatchesIdle, Slots
<1>5. Slots' = Slots \cup {w} /\ (\A v \in Slots : m_job'[v] = m_job[v]) /\ m_job'[w] = j
  BY <1>3, <1>4 DEF Slots, TypeOK
<1>6. InSlot' = InSlot \cup {j} /\ InHand' = InHand
  BY <1>3, <1>5 DEF InSlot, InHand
<1>7. Conserved' /\ HandApart' /\ SlotApart' /\ QueueApart'
  BY <1>2, <1>3, <1>6 DEF JobInOnePlace, Conserved, HandApart, SlotApart, QueueApart
<1>8. j \notin InSlot
  BY <1>2 DEF JobInOnePlace
<1>9. SlotsDiffer'
  BY <1>5, <1>8 DEF JobInOnePlace, SlotsDiffer, InSlot
<1> QED BY <1>2, <1>7, <1>9 DEF JobInOnePlace, Conserved, HandApart, SlotApart, QueueApart, SlotsDiffer, QueueDiffers

\* A new job enters the hand.
LEMMA AddJobPlaces ==
  ASSUME ControlInv, JobInOnePlace, AddJob PROVE JobInOnePlace'
<1> USE DEF ControlInv
<1>1. PICK j \in Job \ submitted : hand' = j /\ submitted' = submitted \cup {j}
  BY DEF AddJob
<1>2. hand = NoJob /\ InHand = {} /\ InHand' = {j}
  BY <1>1, PipelineAssumption DEF AddJob, PhaseInv, InHand
<1>3. UNCHANGED <<m_job, m_jobs, finished>>
  BY DEF AddJob
<1>4. Slots' = Slots /\ InSlot' = InSlot /\ Queued' = Queued
  BY <1>3 DEF Slots, InSlot, Queued
<1> QED BY <1>1, <1>2, <1>3, <1>4 DEF JobInOnePlace

\* A job goes from the hand to an idle worker, or stays in the hand.
LEMMA SetJobPlaces ==
  ASSUME ControlInv, JobInOnePlace, SetJob PROVE JobInOnePlace'
<1> USE DEF ControlInv
<1>1. UNCHANGED <<m_jobs, submitted, finished>> /\ Queued' = Queued /\ k \in Worker
  BY DEF SetJob, CanTake, Queued, TypeOK
<1>2. CASE ~m_running[k] /\ m_idle[k]
  <2>1. m_job' = [m_job EXCEPT ![k] = hand] /\ hand' = NoJob
    BY <1>2 DEF SetJob, CanTake
  <2>2. hand # NoJob /\ InHand = {hand} /\ InHand' = {}
    BY <2>1 DEF SetJob, CanTake, PhaseInv, InHand
  <2>3. k \notin Slots
    BY <1>1, <1>2 DEF SlotMatchesIdle, PhaseInv, Slots
  <2>4. Slots' = Slots \cup {k} /\ (\A v \in Slots : m_job'[v] = m_job[v]) /\ m_job'[k] = hand
    BY <1>1, <2>1, <2>2, <2>3 DEF Slots, TypeOK
  <2>5. InSlot' = InSlot \cup {hand}
    BY <2>4 DEF InSlot
  <2>6. Conserved' /\ HandApart' /\ SlotApart' /\ QueueApart'
    BY <1>1, <2>2, <2>5 DEF JobInOnePlace, Conserved, HandApart, SlotApart, QueueApart
  <2>7. hand \notin InSlot
    BY <2>2 DEF JobInOnePlace
  <2>8. SlotsDiffer' /\ QueueDiffers'
    BY <1>1, <2>4, <2>7 DEF JobInOnePlace, SlotsDiffer, QueueDiffers, InSlot
  <2> QED BY <2>6, <2>8 DEF JobInOnePlace, Conserved, HandApart, SlotApart, QueueApart, SlotsDiffer, QueueDiffers
<1>3. CASE ~(~m_running[k] /\ m_idle[k])
  <2>1. UNCHANGED <<m_job, hand>>
    BY <1>3 DEF SetJob, CanTake
  <2> QED BY <1>1, <2>1 DEF JobInOnePlace, InHand, InSlot, Slots, Queued
<1> QED BY <1>2, <1>3

\* A job goes from the hand to the back of the queue.
LEMMA PushJobPlaces ==
  ASSUME ControlInv, JobInOnePlace, PushJob PROVE JobInOnePlace'
<1> USE DEF ControlInv
<1>1. hand # NoJob /\ hand \in Job /\ InHand = {hand} /\ InHand' = {}
  BY DEF PushJob, PhaseInv, TypeOK, InHand
<1>2. m_jobs \in Seq(Job) /\ QueueDiffers /\ hand \notin Queued
  BY <1>1 DEF TypeOK, JobInOnePlace, QueueDiffers
<1>3. Queued' = Queued \cup {hand} /\ QueueDiffers'
  BY <1>1, <1>2, AppendQueue DEF PushJob, Queued, QueueDiffers
<1>4. UNCHANGED <<m_job, submitted, finished>> /\ InSlot' = InSlot /\ Slots' = Slots
  BY DEF PushJob, InSlot, Slots
<1>5. Conserved' /\ HandApart' /\ SlotApart' /\ QueueApart' /\ SlotsDiffer'
  BY <1>1, <1>3, <1>4 DEF JobInOnePlace, Conserved, HandApart, SlotApart, QueueApart, SlotsDiffer
<1> QED BY <1>3, <1>5 DEF JobInOnePlace, Conserved, HandApart, SlotApart, QueueApart, SlotsDiffer, QueueDiffers

\* Every step moves a job from one place to another, or none.
LEMMA NextPlaces == ControlInv /\ JobInOnePlace /\ [Next]_vars => JobInOnePlace'
<1> SUFFICES ASSUME ControlInv, JobInOnePlace, [Next]_vars PROVE JobInOnePlace'
  OBVIOUS
<1>1. CASE UNCHANGED <<m_job, m_jobs, hand, submitted, finished>>
  BY <1>1 DEF JobInOnePlace, InHand, InSlot, Slots, Queued
<1>2. CASE \E w \in Worker : WorkerStep(w) \/ SpuriousWake(w)
  <2>1. PICK w \in Worker : WorkerStep(w) \/ SpuriousWake(w)
    BY <1>2
  <2>2. CASE RunJob(w)
    BY <2>2, RunJobPlaces
  <2>3. CASE FetchJob(w)
    BY <2>3, FetchJobPlaces
  <2>4. CASE Enter(w) \/ BeginRound(w) \/ FetchNothing(w) \/ EndRound(w) \/ Resume(w) \/ SpuriousWake(w)
    BY <1>1, <2>4 DEF Enter, BeginRound, FetchNothing, EndRound, Resume, SpuriousWake, mainVars
  <2> QED BY <2>1, <2>2, <2>3, <2>4 DEF WorkerStep
<1>3. CASE AddJob
  BY <1>3, AddJobPlaces
<1>4. CASE SetJob
  BY <1>4, SetJobPlaces
<1>5. CASE PushJob
  BY <1>5, PushJobPlaces
<1>6. CASE CreateWorker \/ BarrierTrip \/ Drain \/ StopWorker \/ ShutdownWorker \/ Join
           \/ WaitForCompletion \/ SpuriousWakeMain
  BY <1>1, <1>6 DEF CreateWorker, BarrierTrip, Drain, StopWorker, ShutdownWorker, Join,
     WaitForCompletion, SpuriousWakeMain
<1>7. CASE UNCHANGED vars
  BY <1>1, <1>7 DEF vars, mainVars
<1> QED BY <1>2, <1>3, <1>4, <1>5, <1>6, <1>7 DEF Next, MainStep

-----------------------------------------------------------------------------
(* The theorems. *)

\* PipelineInv is an invariant of the pool.
THEOREM PipelineInvariant == Spec => []PipelineInv
<1>1. Init => PipelineInv
  BY InitControl, InitPlaces DEF PipelineInv, ControlInv
<1>2. PipelineInv /\ [Next]_vars => PipelineInv'
  BY NextControl, NextPlaces DEF PipelineInv, ControlInv
<1> QED BY <1>1, <1>2, PTL DEF Spec

\* Every variable of the pool and of its threads keeps its type.
THEOREM TypeCorrect == Spec => []TypeOK
<1>1. PipelineInv => TypeOK
  BY DEF PipelineInv
<1> QED BY <1>1, PipelineInvariant, PTL

\* No job is lost or duplicated between addJob, setJob, getJob and run.
THEOREM JobsConserved == Spec => []JobInOnePlace
<1>1. PipelineInv => JobInOnePlace
  BY DEF PipelineInv
<1> QED BY <1>1, PipelineInvariant, PTL

\* run() uses m_job only while it owns it.
THEOREM SlotsOwned == Spec => []SlotMatchesIdle
<1>1. PipelineInv => SlotMatchesIdle
  BY DEF PipelineInv
<1> QED BY <1>1, PipelineInvariant, PTL

\* The start barrier and the completion barrier are never mixed.
THEOREM BarrierSafe == Spec => []BarrierOfOneKind
<1>1. PipelineInv => BarrierOfOneKind
  BY DEF PipelineInv, PhaseInv, TypeOK, MainPC, WorkerPC, BarrierOfOneKind
<1> QED BY <1>1, PipelineInvariant, PTL

\* With all workers idle, the queue and the hand empty, every job is finished.
LEMMA IdleMeansDone ==
  ASSUME PipelineInv, hand = NoJob, m_jobs = <<>>, \A w \in Worker : m_idle[w]
  PROVE  finished = submitted
<1>1. Slots = {} /\ InSlot = {}
  BY DEF PipelineInv, SlotMatchesIdle, Slots, InSlot
<1>2. Queued = {} /\ InHand = {}
  BY DEF Queued, InHand
<1> QED BY <1>1, <1>2 DEF PipelineInv, JobInOnePlace

\* Threads end only when the destructor has waited for every job.
THEOREM ExitSafe == Spec => []NoJobAfterExit
<1>1. PipelineInv => NoJobAfterExit
  <2> SUFFICES ASSUME PipelineInv, NEW w \in Worker, wpc[w] = "exit"
               PROVE  finished = submitted /\ closing
    BY DEF NoJobAfterExit
  <2>1. mpc \in {"shutdown", "join", "done"}
    BY DEF PipelineInv, PhaseInv
  <2>2. closing /\ m_jobs = <<>> /\ hand = NoJob /\ \A v \in Worker : m_idle[v]
    BY <2>1 DEF PipelineInv, PhaseInv
  <2> QED BY <2>2, IdleMeansDone
<1> QED BY <1>1, PipelineInvariant, PTL

\* waitForCompletion returns only when every job added before has been run.
THEOREM WaitCompletes == Spec => WaitMeansAllDone
<1>1. PipelineInv /\ [Next]_vars => [mpc = "barrier" /\ mpc' # "barrier" => finished = submitted]_vars
  <2> SUFFICES ASSUME PipelineInv, [Next]_vars, mpc = "barrier", mpc' # "barrier"
               PROVE  finished = submitted
    OBVIOUS
  <2>1. BarrierTrip
    BY DEF Next, WorkerStep, MainStep, Enter, BeginRound, RunJob, FetchJob, FetchNothing,
       EndRound, Resume, SpuriousWake, CreateWorker, SetJob, CanTake, PushJob, Drain, StopWorker,
       ShutdownWorker, Join, AddJob, WaitForCompletion, SpuriousWakeMain, vars, mainVars
  <2>2. hand = NoJob /\ m_jobs = <<>>
    BY DEF PipelineInv, PhaseInv
  <2>3. \A w \in Worker : m_idle[w]
    BY <2>1 DEF BarrierTrip, PipelineInv, PhaseInv
  <2> QED BY <2>2, <2>3, IdleMeansDone
<1> QED BY <1>1, PipelineInvariant, PTL DEF Spec, WaitMeansAllDone

-----------------------------------------------------------------------------
(* The pool implements the abstract job pool. *)

Executing == {v \in Worker : wpc[v] = "exec"}

\* Fewer than N jobs are active while some worker is not executing one.
LEMMA RoomForOne ==
  ASSUME NEW w \in Worker, wpc[w] # "exec"
  PROVE  Cardinality(ActiveJobs) < N
<1> DEFINE S == Worker \ {w}
<1>1. IsFiniteSet(Worker) /\ Cardinality(Worker) = N
  <2>1. 1 \in Int /\ N \in Int /\ N >= 1
    BY PipelineAssumption
  <2> QED BY <2>1, FS_Interval DEF Worker
<1>2. IsFiniteSet(S) /\ Cardinality(S) = N - 1
  BY <1>1, FS_RemoveElement
<1>3. IsFiniteSet(Executing) /\ Cardinality(Executing) <= N - 1
  <2>1. Executing \subseteq S
    BY DEF Executing
  <2> QED BY <1>2, <2>1, FS_Subset
<1>4. Cardinality(ActiveJobs) <= Cardinality(Executing)
  <2>1. ActiveJobs = {m_job[v] : v \in Executing}
    BY DEF ActiveJobs, Executing
  <2>2. /\ IsFiniteSet(ActiveJobs)
        /\ Cardinality(ActiveJobs) <= Cardinality(Executing)
    <3> DEFINE f == [v \in Executing |-> m_job[v]]
    <3>1. f \in Surjection(Executing, ActiveJobs)
      BY <2>1 DEF Surjection
    <3> QED BY <1>3, <3>1, FS_Surjection
  <2> QED BY <2>2
<1>5. Cardinality(Executing) \in Nat /\ Cardinality(ActiveJobs) \in Nat
  <2>1. IsFiniteSet(ActiveJobs)
    <3> DEFINE f == [v \in Executing |-> m_job[v]]
    <3>1. f \in Surjection(Executing, ActiveJobs)
      BY DEF Surjection, ActiveJobs, Executing
    <3> QED BY <1>3, <3>1, FS_Surjection
  <2> QED BY <1>3, <2>1, FS_CardinalityType
<1> QED BY <1>3, <1>4, <1>5, PipelineAssumption

\* A step that leaves the executing workers and their slots alone leaves the
\* active jobs alone.
LEMMA ActiveUnchanged ==
  ASSUME \A v \in Worker : (wpc'[v] = "exec") <=> (wpc[v] = "exec"),
         \A v \in Worker : wpc[v] = "exec" => m_job'[v] = m_job[v]
  PROVE  ActiveJobs' = ActiveJobs
BY DEF ActiveJobs

\* Worker w starts the job j: a step of the abstract pool.
LEMMA StartRefines ==
  ASSUME PipelineInv, NEW w \in Worker, NEW j \in Job,
         wpc[w] # "exec", wpc' = [wpc EXCEPT ![w] = "exec"],
         m_job' = [m_job EXCEPT ![w] = j],
         j \in submitted \ finished, j \notin ActiveJobs,
         UNCHANGED <<submitted, finished, Waiting>>
  PROVE  Pool!Start
<1>1. wpc \in [Worker -> WorkerPC] /\ m_job \in [Worker -> Job \cup {NoJob}]
  BY DEF PipelineInv, TypeOK
<1>2. Executing' = Executing \cup {w}
  BY <1>1 DEF Executing
<1>3. ActiveJobs = {m_job[v] : v \in Executing} /\ ActiveJobs' = {m_job'[v] : v \in Executing'}
  BY DEF ActiveJobs, Executing
<1>4. \A v \in Executing : m_job'[v] = m_job[v]
  BY <1>1 DEF Executing
<1>5. m_job'[w] = j
  BY <1>1
<1>6. ActiveJobs' = ActiveJobs \cup {j}
  BY <1>2, <1>3, <1>4, <1>5
<1>7. Cardinality(ActiveJobs) < N
  BY RoomForOne
<1>8. j \in submitted \ (ActiveJobs \cup finished)
  OBVIOUS
<1>9. submitted' = submitted /\ finished' = finished /\ (~Waiting)' = ~Waiting
  OBVIOUS
<1> HIDE DEF ActiveJobs
<1> QED BY ONLY <1>6, <1>7, <1>8, <1>9 DEF Pool!Start, Cardinality, Pool!Cardinality

\* The pool refines JobPool: at most N jobs run together, each at most once,
\* and a wait ends with all of them done.
THEOREM PipelineRefines == Spec => PoolSpec
<1>1. Init => Pool!Init
  <2> SUFFICES ASSUME Init PROVE Pool!Init
    OBVIOUS
  <2>1. ActiveJobs = {} /\ ~Waiting /\ submitted = {} /\ finished = {}
    BY DEF Init, ActiveJobs, Waiting
  <2> QED BY <2>1 DEF Pool!Init
<1>2. PipelineInv /\ PipelineInv' /\ [Next]_vars => [Pool!Next]_Pool!vars
  <2> SUFFICES ASSUME PipelineInv, PipelineInv', [Next]_vars
               PROVE  Pool!Next \/ UNCHANGED Pool!vars
    OBVIOUS
  <2> USE DEF PipelineInv
  <2>t. wpc \in [Worker -> WorkerPC] /\ m_job \in [Worker -> Job \cup {NoJob}]
    BY DEF TypeOK
  <2>1. ASSUME NEW w \in Worker, Enter(w) \/ FetchNothing(w) \/ EndRound(w) \/ Resume(w) \/ SpuriousWake(w)
        PROVE  UNCHANGED Pool!vars
    <3>1. ActiveJobs' = ActiveJobs
      BY <2>1, <2>t, ActiveUnchanged
         DEF Enter, FetchNothing, EndRound, Resume, SpuriousWake, GoTo
    <3>2. UNCHANGED <<submitted, finished, mpc>>
      BY <2>1 DEF Enter, FetchNothing, EndRound, Resume, SpuriousWake, mainVars
    <3> QED BY <3>1, <3>2 DEF Pool!vars, Waiting
  <2>2. ASSUME NEW w \in Worker, BeginRound(w) PROVE Pool!Next \/ UNCHANGED Pool!vars
    <3>1. UNCHANGED <<submitted, finished, mpc, m_job>> /\ UNCHANGED Waiting
      BY <2>2 DEF BeginRound, mainVars, Waiting
    <3>2. CASE m_idle[w]
      <4>1. ActiveJobs' = ActiveJobs
        BY <2>2, <2>t, <3>1, <3>2, ActiveUnchanged DEF BeginRound, GoTo
      <4> QED BY <3>1, <4>1 DEF Pool!vars
    <3>3. CASE ~m_idle[w]
      <4>1. wpc[w] # "exec" /\ wpc' = [wpc EXCEPT ![w] = "exec"]
        BY <2>2, <3>3 DEF BeginRound, GoTo
      <4>2. w \in Slots /\ m_job[w] \in Job
        BY <2>2, <2>t, <3>3 DEF BeginRound, SlotMatchesIdle, Slots
      <4>3. m_job[w] \in submitted \ finished
        BY <4>2 DEF JobInOnePlace, InSlot
      <4>4. m_job[w] \notin ActiveJobs
        <5> SUFFICES ASSUME NEW v \in Worker, wpc[v] = "exec", m_job[v] = m_job[w] PROVE FALSE
          BY DEF ActiveJobs
        <5>1. v \in Slots
          BY DEF SlotMatchesIdle, Slots
        <5> QED BY <4>1, <4>2, <5>1 DEF JobInOnePlace
      <4>5. m_job' = [m_job EXCEPT ![w] = m_job[w]]
        BY <2>t, <3>1
      <4>6. Pool!Start
        BY <3>1, <4>1, <4>2, <4>3, <4>4, <4>5, StartRefines
      <4> QED BY <4>6 DEF Pool!Next
    <3> QED BY <3>2, <3>3
  <2>3. ASSUME NEW w \in Worker, RunJob(w) PROVE Pool!Finish
    <3>1. w \in Slots /\ m_job[w] \in ActiveJobs
      BY <2>3 DEF RunJob, SlotMatchesIdle, Slots, ActiveJobs
    <3>2. \A v \in Worker : wpc'[v] = "exec" <=> wpc[v] = "exec" /\ v # w
      BY <2>3, <2>t DEF RunJob, GoTo
    <3>3. \A v \in Worker : v # w => m_job'[v] = m_job[v]
      BY <2>3, <2>t DEF RunJob
    <3>4. \A v \in Worker : wpc[v] = "exec" /\ v # w => m_job[v] # m_job[w]
      BY <3>1 DEF SlotMatchesIdle, JobInOnePlace, Slots
    <3>5. ActiveJobs' = ActiveJobs \ {m_job[w]}
      BY <3>2, <3>3, <3>4 DEF ActiveJobs
    <3>6. finished' = finished \cup {m_job[w]} /\ UNCHANGED <<submitted, mpc>>
      BY <2>3 DEF RunJob, mainVars
    <3> QED BY <3>1, <3>5, <3>6 DEF Pool!Finish, Waiting
  <2>4. ASSUME NEW w \in Worker, FetchJob(w) PROVE Pool!Start
    <3> DEFINE j == Head(m_jobs)
    <3>1. j \in Job /\ j \in Queued
      <4>1. m_jobs \in Seq(Job) /\ m_jobs # <<>>
        BY <2>4 DEF FetchJob, TypeOK
      <4>2. Head(m_jobs) = m_jobs[1] /\ 1 \in DOMAIN m_jobs /\ Head(m_jobs) \in Job
        BY <4>1
      <4> QED BY <4>2 DEF Queued
    <3> HIDE DEF j
    <3>2. m_job' = [m_job EXCEPT ![w] = j] /\ wpc[w] # "exec" /\ wpc' = [wpc EXCEPT ![w] = "exec"]
      BY <2>4 DEF FetchJob, GoTo, j
    <3>3. UNCHANGED <<submitted, finished>> /\ UNCHANGED Waiting
      BY <2>4 DEF FetchJob, Waiting
    <3>4. j \in submitted \ finished /\ j \notin InSlot
      BY <3>1 DEF JobInOnePlace
    <3>5. j \notin ActiveJobs
      BY <3>4 DEF ActiveJobs, InSlot, Slots, SlotMatchesIdle
    <3> QED BY <3>1, <3>2, <3>3, <3>4, <3>5, StartRefines
  <2>5. CASE AddJob
    <3>1. ActiveJobs' = ActiveJobs /\ ~Waiting /\ ~Waiting' /\ finished' = finished
      BY <2>5, ActiveUnchanged DEF AddJob, Waiting
    <3>2. Pool!Submit
      BY <2>5, <3>1 DEF AddJob, Pool!Submit
    <3> QED BY <3>2 DEF Pool!Next
  <2>6. CASE WaitForCompletion
    <3>1. ActiveJobs' = ActiveJobs /\ ~Waiting /\ Waiting' /\ UNCHANGED <<submitted, finished>>
      BY <2>6, ActiveUnchanged DEF WaitForCompletion, Waiting
    <3>2. Pool!BeginWait
      BY <3>1 DEF Pool!BeginWait
    <3> QED BY <3>2 DEF Pool!Next
  <2>7. CASE BarrierTrip
    <3>1. \A v \in Worker : wpc[v] # "exec" /\ wpc'[v] # "exec"
      BY <2>7 DEF BarrierTrip
    <3>2. ActiveJobs' = ActiveJobs /\ UNCHANGED <<submitted, finished>> /\ ~Waiting'
      BY <2>7, <3>1, ActiveUnchanged DEF BarrierTrip, Waiting
    <3>3. CASE mpc = "startBarrier"
      BY <3>2, <3>3 DEF Waiting, Pool!vars
    <3>4. CASE mpc = "barrier"
      <4>1. hand = NoJob /\ m_jobs = <<>> /\ \A v \in Worker : m_idle[v]
        BY <2>7, <3>4 DEF BarrierTrip, PhaseInv
      <4>2. finished = submitted
        BY <4>1, IdleMeansDone
      <4>3. Pool!EndWait
        BY <3>2, <3>4, <4>2 DEF Pool!EndWait, Waiting
      <4> QED BY <4>3 DEF Pool!Next
    <3> QED BY <2>7, <3>3, <3>4 DEF BarrierTrip
  <2>8. CASE SetJob
    <3>1. k \in Worker /\ ((~m_running[k] /\ m_idle[k]) => wpc[k] # "exec")
      BY DEF TypeOK, PhaseInv
    <3>2. ActiveJobs' = ActiveJobs
      BY <2>8, <2>t, <3>1, ActiveUnchanged DEF SetJob, CanTake, Notified
    <3>3. UNCHANGED <<submitted, finished>> /\ ~Waiting /\ ~Waiting'
      BY <2>8 DEF SetJob, CanTake, Waiting
    <3> QED BY <3>2, <3>3 DEF Pool!vars
  <2>9. CASE CreateWorker \/ PushJob \/ Drain \/ StopWorker \/ ShutdownWorker \/ Join \/ SpuriousWakeMain
    <3>1. k \in Worker /\ (mpc = "create" => wpc[k] # "exec")
      BY DEF TypeOK, PhaseInv
    <3>2. ActiveJobs' = ActiveJobs
      BY <2>9, <2>t, <3>1, ActiveUnchanged DEF CreateWorker, PushJob, Drain, StopWorker,
         ShutdownWorker, Join, SpuriousWakeMain, GoTo, Notified
    <3>3. UNCHANGED <<submitted, finished>> /\ UNCHANGED Waiting
      BY <2>9 DEF CreateWorker, PushJob, Drain, StopWorker, ShutdownWorker, Join,
         SpuriousWakeMain, Waiting
    <3> QED BY <3>2, <3>3 DEF Pool!vars
  <2>10. CASE UNCHANGED vars
    BY <2>10 DEF vars, mainVars, Pool!vars, ActiveJobs, Waiting
  <2> QED BY <2>1, <2>2, <2>3, <2>4, <2>5, <2>6, <2>7, <2>8, <2>9, <2>10
          DEF Next, WorkerStep, MainStep, Pool!Next
<1> QED BY <1>1, <1>2, PipelineInvariant, PTL DEF Spec, PoolSpec, Pool!Spec
=============================================================================
