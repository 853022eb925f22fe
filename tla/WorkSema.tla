------------------------------ MODULE WorkSema ------------------------------
(***************************************************************************)
(* Threading::WorkSema (common/Threading.h, common/Semaphore.cpp): the     *)
(* wake-up protocol between a worker thread and the threads that fill its  *)
(* queue.  MTGS, MTVU and GSJobQueue all sleep and wake through it.        *)
(*                                                                         *)
(* One atomic integer, m_state, carries the worker's state, the number of  *)
(* notifications it has not looked at and a bit for a thread waiting for   *)
(* the queue to run empty; two kernel semaphores put threads to sleep.  A  *)
(* step is one access to shared memory: an atomic read-modify-write, or a  *)
(* Post or a Wait of a semaphore.  The failed tries of a compare-exchange  *)
(* loop change nothing and are left out, and so is the time spent          *)
(* spinning: a bound on time may elapse at any step.                       *)
(*                                                                         *)
(* The queue is not part of the class.  It is modelled as the class's      *)
(* comment tells its users to treat it: a client adds its work and then    *)
(* calls NotifyOfWork, the worker processes everything it finds between    *)
(* two waits.                                                              *)
(***************************************************************************)
EXTENDS Integers

CONSTANTS
    Clients,   \* the threads that add work
    Waiter,    \* the one client that also calls WaitForEmpty
    Items,     \* the pieces of work
    NoItem,    \* stands for "no work"
    FLAG,      \* STATE_FLAG_WAITING_EMPTY, 2^30 in the code
    CanDie     \* whether the worker may Kill() the semaphore

ASSUME WaiterAssumption == Waiter \in Clients
ASSUME NoItemAssumption == NoItem \notin Items
ASSUME FlagAssumption == FLAG \in Nat /\ FLAG > 4
ASSUME CanDieAssumption == CanDie \in BOOLEAN

STATE_SPINNING  == -2
STATE_SLEEPING  == -1
STATE_RUNNING_0 == 0
STATE_DEAD      == -2 * FLAG    \* numeric_limits<s32>::min()

VARIABLES
    m_state,       \* the atomic
    m_sema,        \* count of the semaphore the worker sleeps on
    m_empty_sema,  \* count of the semaphore WaitForEmpty sleeps on
    wpc,           \* where the worker is
    cpc,           \* where each client is
    item,          \* the work a client has added and not yet announced
    queue,         \* the work the worker has not finished
    promised,      \* the work WaitForEmpty was called to wait for
    died,          \* whether the worker was dead at some time of that wait
    ret            \* what the last WaitForEmpty returned

vars == <<m_state, m_sema, m_empty_sema, wpc, cpc, item, queue, promised, died, ret>>

-----------------------------------------------------------------------------
(* The predicates on m_state.  They are the code's bit masks, written for  *)
(* a two's complement integer whose second highest bit is FLAG.            *)

IsDead(v) == v < STATE_SPINNING

IsReadyForSleep(v) == v \in {-2 * FLAG, -FLAG, 0, FLAG}

WaitingEmpty(v) == v >= FLAG \/ (-FLAG <= v /\ v < 0)

KeepFlag(v) == IF WaitingEmpty(v) THEN FLAG ELSE 0

NextStateWaitForWork(v) ==
    IF IsReadyForSleep(v) THEN STATE_SLEEPING ELSE STATE_RUNNING_0 + KeepFlag(v)

(* The bound of the model: a notification never carries into FLAG.  The    *)
(* code has room for 2^29 of them between two looks of the worker.         *)
Headroom(v) == v + 2 \notin {FLAG, FLAG + 1, 2 * FLAG, 2 * FLAG + 1, -FLAG, 1 - FLAG}

Unannounced == {item[c] : c \in {d \in Clients : cpc[d] = "notify"}}

-----------------------------------------------------------------------------
Init ==
    /\ m_state = STATE_RUNNING_0
    /\ m_sema = 0
    /\ m_empty_sema = 0
    /\ wpc = "process"
    /\ cpc = [c \in Clients |-> "idle"]
    /\ item = [c \in Clients |-> NoItem]
    /\ queue = {}
    /\ promised = {}
    /\ died = FALSE
    /\ ret = "none"

(* A client puts work into the queue ...                                   *)
AddWork(c, i) ==
    /\ cpc[c] = "idle"
    /\ i \notin queue
    /\ queue' = queue \cup {i}
    /\ item' = [item EXCEPT ![c] = i]
    /\ cpc' = [cpc EXCEPT ![c] = "notify"]
    /\ UNCHANGED <<m_state, m_sema, m_empty_sema, wpc, promised, died, ret>>

(* Mutant: nobody wakes the worker.                                        *)
NotifyWithoutPost(c) ==
    /\ cpc[c] = "notify"
    /\ Headroom(m_state)
    /\ m_state' = m_state + 2
    /\ cpc' = [cpc EXCEPT ![c] = "idle"]
    /\ item' = [item EXCEPT ![c] = NoItem]
    /\ UNCHANGED <<m_sema, m_empty_sema, wpc, queue, promised, died, ret>>

(* Mutant: a spinning worker is woken too.                                 *)
NotifySpinner(c) ==
    /\ cpc[c] = "notify"
    /\ Headroom(m_state)
    /\ m_state' = m_state + 2
    /\ cpc' = [cpc EXCEPT ![c] = IF m_state \in {STATE_SLEEPING, STATE_SPINNING} THEN "post" ELSE "idle"]
    /\ item' = [item EXCEPT ![c] = NoItem]
    /\ UNCHANGED <<m_sema, m_empty_sema, wpc, queue, promised, died, ret>>

(* ... and announces it: fetch_add(2), then m_sema.Post() if the worker    *)
(* slept.                                                                  *)
NotifyOfWork(c) ==
    /\ cpc[c] = "notify"
    /\ Headroom(m_state)
    /\ m_state' = m_state + 2
    /\ cpc' = [cpc EXCEPT ![c] = IF m_state = STATE_SLEEPING THEN "post" ELSE "idle"]
    /\ item' = [item EXCEPT ![c] = NoItem]
    /\ UNCHANGED <<m_sema, m_empty_sema, wpc, queue, promised, died, ret>>

NotifyPost(c) ==
    /\ cpc[c] = "post"
    /\ m_sema' = m_sema + 1
    /\ cpc' = [cpc EXCEPT ![c] = "idle"]
    /\ UNCHANGED <<m_state, m_empty_sema, wpc, item, queue, promised, died, ret>>

(* WaitForEmpty and WaitForEmptyWithSpin: a negative state is an answer,   *)
(* any other gets the flag and the caller sleeps on m_empty_sema.          *)
WaitForEmpty ==
    /\ cpc[Waiter] = "idle"
    /\ promised' = queue \ Unannounced
    /\ died' = IsDead(m_state)
    /\ \/ /\ m_state < 0
          /\ ret' = IF IsDead(m_state) THEN "dead" ELSE "empty"
          /\ UNCHANGED <<m_state, cpc>>
       \/ /\ m_state >= 0
          /\ m_state' = FLAG + (IF WaitingEmpty(m_state) THEN m_state - FLAG ELSE m_state)
          /\ cpc' = [cpc EXCEPT ![Waiter] = "wait_empty"]
          /\ ret' = "none"
    /\ UNCHANGED <<m_sema, m_empty_sema, wpc, item, queue>>

WaitForEmptyWake ==
    /\ cpc[Waiter] = "wait_empty"
    /\ m_empty_sema > 0
    /\ m_empty_sema' = m_empty_sema - 1
    /\ cpc' = [cpc EXCEPT ![Waiter] = "load"]
    /\ UNCHANGED <<m_state, m_sema, wpc, item, queue, promised, died, ret>>

WaitForEmptyReturn ==
    /\ cpc[Waiter] = "load"
    /\ ret' = IF IsDead(m_state) THEN "dead" ELSE "empty"
    /\ cpc' = [cpc EXCEPT ![Waiter] = "idle"]
    /\ UNCHANGED <<m_state, m_sema, m_empty_sema, wpc, item, queue, promised, died>>

-----------------------------------------------------------------------------
(* The worker.  At "wait" it has found its queue empty and calls one of    *)
(* CheckForWork, WaitForWork and WaitForWorkWithSpin.                      *)

Process(i) ==
    /\ wpc = "process"
    /\ i \in queue
    /\ queue' = queue \ {i}
    /\ promised' = promised \ {i}
    /\ UNCHANGED <<m_state, m_sema, m_empty_sema, wpc, cpc, item, died, ret>>

FoundEmpty ==
    /\ wpc = "process"
    /\ queue = {}
    /\ wpc' = "wait"
    /\ UNCHANGED <<m_state, m_sema, m_empty_sema, cpc, item, queue, promised, died, ret>>

(* Mutant: the waiter is told although there is work.                      *)
CheckTellsWaiter ==
    /\ wpc = "wait"
    /\ m_state' = STATE_RUNNING_0
    /\ wpc' = IF WaitingEmpty(m_state) THEN "check_post" ELSE "process"
    /\ UNCHANGED <<m_sema, m_empty_sema, cpc, item, queue, promised, died, ret>>

CheckForWork ==
    /\ wpc = "wait"
    /\ m_state' = IF IsReadyForSleep(m_state) THEN STATE_RUNNING_0 ELSE KeepFlag(m_state)
    /\ wpc' = IF IsReadyForSleep(m_state) /\ WaitingEmpty(m_state) THEN "check_post" ELSE "process"
    /\ UNCHANGED <<m_sema, m_empty_sema, cpc, item, queue, promised, died, ret>>

(* Mutant: a store of SLEEPING, whatever was notified.                     *)
WaitForWorkBlindly ==
    /\ wpc = "wait"
    /\ m_state' = STATE_SLEEPING
    /\ wpc' = IF WaitingEmpty(m_state) THEN "sleep_post" ELSE "sleep"
    /\ UNCHANGED <<m_sema, m_empty_sema, cpc, item, queue, promised, died, ret>>

WaitForWork ==
    /\ wpc = "wait"
    /\ m_state' = NextStateWaitForWork(m_state)
    /\ wpc' = IF ~IsReadyForSleep(m_state) THEN "process"
              ELSE IF WaitingEmpty(m_state) THEN "sleep_post" ELSE "sleep"
    /\ UNCHANGED <<m_sema, m_empty_sema, cpc, item, queue, promised, died, ret>>

(* WaitForWorkWithSpin enters SPINNING only from a state ready for sleep;  *)
(* otherwise it goes straight to the closing fetch_and.                    *)
WaitForWorkWithSpin ==
    /\ wpc = "wait"
    /\ IF IsReadyForSleep(m_state)
         THEN /\ m_state' = STATE_SPINNING
              /\ wpc' = IF WaitingEmpty(m_state) THEN "spin_post" ELSE "spin"
         ELSE /\ wpc' = "ack"
              /\ UNCHANGED m_state
    /\ UNCHANGED <<m_sema, m_empty_sema, cpc, item, queue, promised, died, ret>>

SpinNotices ==
    /\ wpc = "spin"
    /\ m_state >= 0
    /\ wpc' = "ack"
    /\ UNCHANGED <<m_state, m_sema, m_empty_sema, cpc, item, queue, promised, died, ret>>

(* SPIN_TIME_NS is over: SPINNING becomes SLEEPING, unless work came in.   *)
SpinTimesOut ==
    /\ wpc = "spin"
    /\ m_state < 0
    /\ m_state' = STATE_SLEEPING
    /\ wpc' = "sleep"
    /\ UNCHANGED <<m_sema, m_empty_sema, cpc, item, queue, promised, died, ret>>

(* m_empty_sema.Post() of the four functions that find a waiter.           *)
PostEmpty ==
    /\ wpc \in {"check_post", "sleep_post", "spin_post", "kill_post"}
    /\ m_empty_sema' = m_empty_sema + 1
    /\ wpc' = CASE wpc = "check_post" -> "process"
                [] wpc = "sleep_post" -> "sleep"
                [] wpc = "spin_post"  -> "spin"
                [] wpc = "kill_post"  -> "dead"
    /\ UNCHANGED <<m_state, m_sema, cpc, item, queue, promised, died, ret>>

(* Mutant: the wait does not block.                                        *)
SemaWaitNot ==
    /\ wpc = "sleep"
    /\ m_sema' = m_sema - 1
    /\ wpc' = "ack"
    /\ UNCHANGED <<m_state, m_empty_sema, cpc, item, queue, promised, died, ret>>

SemaWait ==
    /\ wpc = "sleep"
    /\ m_sema > 0
    /\ m_sema' = m_sema - 1
    /\ wpc' = "ack"
    /\ UNCHANGED <<m_state, m_empty_sema, cpc, item, queue, promised, died, ret>>

(* fetch_and(STATE_FLAG_WAITING_EMPTY): what came in while the worker was  *)
(* waking up is acknowledged with the rest.                                *)
Acknowledge ==
    /\ wpc = "ack"
    /\ m_state' = KeepFlag(m_state)
    /\ wpc' = "process"
    /\ UNCHANGED <<m_sema, m_empty_sema, cpc, item, queue, promised, died, ret>>

(* Mutant: the waiter is not told.                                         *)
KillSilently ==
    /\ CanDie
    /\ wpc = "process"
    /\ m_state' = STATE_DEAD
    /\ died' = TRUE
    /\ wpc' = "dead"
    /\ UNCHANGED <<m_sema, m_empty_sema, cpc, item, queue, promised, ret>>

Kill ==
    /\ CanDie
    /\ wpc = "process"
    /\ m_state' = STATE_DEAD
    /\ died' = TRUE
    /\ wpc' = IF WaitingEmpty(m_state) THEN "kill_post" ELSE "dead"
    /\ UNCHANGED <<m_sema, m_empty_sema, cpc, item, queue, promised, ret>>

(* A worker that restarts looks at its queue before it waits again: MTGS   *)
(* tests s_open_flag after Reset(), MTVU starts on an emptied ring.        *)
Reset ==
    /\ wpc = "dead"
    /\ m_state' = STATE_RUNNING_0
    /\ wpc' = "process"
    /\ UNCHANGED <<m_sema, m_empty_sema, cpc, item, queue, promised, died, ret>>

-----------------------------------------------------------------------------
ClientStep(c) == NotifyOfWork(c) \/ NotifyPost(c) \/ \E i \in Items : AddWork(c, i)

WaiterStep == WaitForEmpty \/ WaitForEmptyWake \/ WaitForEmptyReturn

WorkerStep ==
    \/ \E i \in Items : Process(i)
    \/ FoundEmpty \/ CheckForWork \/ WaitForWork \/ WaitForWorkWithSpin
    \/ SpinNotices \/ SpinTimesOut \/ PostEmpty \/ SemaWait \/ Acknowledge
    \/ Kill \/ Reset

Next == WorkerStep \/ WaiterStep \/ \E c \in Clients : ClientStep(c)

Spec == Init /\ [][Next]_vars

(* The threads run: whoever has begun to announce work goes on, a thread   *)
(* whose semaphore is posted wakes up, and the worker keeps taking steps   *)
(* and, its queue being a fifo, leaves no work behind for ever.  No client *)
(* is obliged to add work or to wait.                                      *)
Fairness ==
    /\ WF_vars(WorkerStep)
    /\ \A i \in Items : WF_vars(Process(i))
    /\ WF_vars(WaitForEmptyWake \/ WaitForEmptyReturn)
    /\ \A c \in Clients : WF_vars(NotifyOfWork(c) \/ NotifyPost(c))

FairSpec == Spec /\ Fairness

-----------------------------------------------------------------------------
WorkerPC == {"process", "wait", "check_post", "sleep_post", "sleep", "spin_post",
             "spin", "ack", "kill_post", "dead"}
ClientPC == {"idle", "notify", "post", "wait_empty", "load"}

(* The types, and that only the waiter is ever inside WaitForEmpty.        *)
TypeOK ==
    /\ m_state \in (-2 * FLAG) .. (2 * FLAG - 1)
    /\ m_sema \in Nat
    /\ m_empty_sema \in Nat
    /\ wpc \in WorkerPC
    /\ cpc \in [Clients -> ClientPC]
    /\ \A c \in Clients : cpc[c] \in {"wait_empty", "load"} => c = Waiter
    /\ item \in [Clients -> Items \cup {NoItem}]
    /\ queue \subseteq Items
    /\ promised \subseteq Items
    /\ died \in BOOLEAN
    /\ ret \in {"none", "empty", "dead"}

(* NotifyOfWork never loses a wake-up: while the worker is asleep and no   *)
(* Post is on its way to it, every piece of queued work belongs to a       *)
(* client that has not announced it yet.                                   *)
NoLostWakeup ==
    (wpc = "sleep" /\ m_sema = 0 /\ \A c \in Clients : cpc[c] # "post")
        => queue \subseteq Unannounced

(* WaitForEmpty says "empty" only when everything announced before the     *)
(* call is done, unless the worker died meanwhile, and it says "dead" only *)
(* of a worker that was killed during the call.                            *)
EmptyIsEmpty ==
    /\ cpc[Waiter] # "wait_empty" /\ ret = "empty" /\ ~died => promised = {}
    /\ ret = "dead" => died

(* The semaphores are only used to put a thread to sleep and to wake it: a *)
(* Post is for a thread that is asleep or going to sleep, and there is     *)
(* never more than one, so no wait returns on a stale Post.                *)
NoStalePost ==
    /\ m_sema > 0 => wpc = "sleep_post" \/ (wpc = "sleep" /\ m_sema = 1)
    /\ m_empty_sema > 0 => cpc[Waiter] = "wait_empty" /\ m_empty_sema = 1

(* Announced work is done or the worker dies.                              *)
WorkGetsDone ==
    \A i \in Items : (i \in queue \ Unannounced) ~> (i \notin queue \/ IsDead(m_state))

(* A thread in WaitForEmpty gets out of it, unless other clients go on     *)
(* adding work for ever and the worker never finds its queue empty.        *)
WaiterReturns ==
    <>[](\A c \in Clients \ {Waiter} : cpc[c] = "idle")
        => ((cpc[Waiter] = "wait_empty") ~> (cpc[Waiter] = "idle"))

=============================================================================
