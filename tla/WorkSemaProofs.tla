--------------------------- MODULE WorkSemaProofs ---------------------------
(***************************************************************************)
(* The safety of Threading::WorkSema for any number of clients, any work   *)
(* and any width of the integer.                                           *)
(***************************************************************************)
EXTENDS WorkSema, TLAPS

Sleeping == wpc \in {"sleep_post", "sleep"}
PostingEmpty == wpc \in {"check_post", "sleep_post", "spin_post", "kill_post"}

(* What m_state can be at each place of the worker.                        *)
StateInv ==
    /\ wpc \in {"process", "wait", "check_post", "ack"} => m_state >= 0
    /\ Sleeping => m_state = -1 \/ m_state >= 0
    /\ wpc \in {"spin_post", "spin"} => m_state = -2 \/ m_state >= 0
    /\ wpc \in {"kill_post", "dead"} => m_state < -FLAG

(* A worker whose sleep was ended has exactly one Post, delivered or on    *)
(* its way.                                                                *)
SemaInv ==
    /\ \A c, d \in Clients : cpc[c] = "post" /\ cpc[d] = "post" => c = d
    /\ \A c \in Clients : cpc[c] = "post" => Sleeping /\ m_state >= 0 /\ m_sema = 0
    /\ m_sema > 0 => Sleeping /\ m_state >= 0 /\ m_sema = 1
    /\ Sleeping /\ m_state >= 0 => m_sema = 1 \/ \E c \in Clients : cpc[c] = "post"

(* The flag, a Post about to be made and a Post made are three stages of   *)
(* one wait for empty.                                                     *)
EmptyInv ==
    /\ cpc[Waiter] # "wait_empty" => m_state < FLAG /\ m_empty_sema = 0 /\ ~PostingEmpty
    /\ m_state >= FLAG => m_empty_sema = 0 /\ ~PostingEmpty
    /\ m_empty_sema \in {0, 1}
    /\ m_empty_sema = 1 => ~PostingEmpty

(* Announced work keeps the worker awake.                                  *)
QueueInv ==
    /\ wpc = "wait" /\ IsReadyForSleep(m_state) => queue \subseteq Unannounced
    /\ m_state \in {-1, -2} => queue \subseteq Unannounced

(* What the waiter is owed is announced, queued work, and nothing is left  *)
(* of it once the flag has been taken off.                                 *)
PromiseInv ==
    /\ promised \subseteq queue
    /\ promised \cap Unannounced = {}
    /\ (PostingEmpty \/ m_empty_sema = 1 \/ cpc[Waiter] = "load") /\ ~died => promised = {}
    /\ cpc[Waiter] # "wait_empty" /\ ret = "empty" /\ ~died => promised = {}
    /\ IsDead(m_state) => died
    /\ ret = "dead" => died

IInv == TypeOK /\ StateInv /\ SemaInv /\ EmptyInv /\ QueueInv /\ PromiseInv

-----------------------------------------------------------------------------
(* Adding work adds one unannounced item, ...                              *)
LEMMA AddWorkUnannounced ==
    ASSUME TypeOK, NEW c \in Clients, NEW i \in Items, AddWork(c, i)
    PROVE  Unannounced' = Unannounced \cup {i}
<1>1. \A d \in Clients : (cpc[d] = "notify")' <=> cpc[d] = "notify" \/ d = c
  BY DEF AddWork, TypeOK
<1>2. \A d \in Clients : item'[d] = IF d = c THEN i ELSE item[d]
  BY DEF AddWork, TypeOK
<1>3. cpc[c] # "notify"
  BY DEF AddWork
<1> QED
  BY <1>1, <1>2, <1>3 DEF Unannounced

(* ... announcing it can only take items away, ...                         *)
LEMMA NotifyUnannounced ==
    ASSUME TypeOK, NEW c \in Clients, NotifyOfWork(c)
    PROVE  Unannounced' \subseteq Unannounced
<1>1. \A d \in Clients : (cpc[d] = "notify")' => cpc[d] = "notify" /\ d # c
  BY DEF NotifyOfWork, TypeOK
<1>2. \A d \in Clients : d # c => item'[d] = item[d]
  BY DEF NotifyOfWork, TypeOK
<1> QED
  BY <1>1, <1>2 DEF Unannounced

(* ... and no other step changes the set.                                  *)
LEMMA SameUnannounced ==
    ASSUME TypeOK, item' = item,
           \A d \in Clients : (cpc[d] = "notify")' <=> cpc[d] = "notify"
    PROVE  Unannounced' = Unannounced
BY DEF Unannounced

(* The initial states satisfy the inductive invariant.                     *)
LEMMA InitIInv == Init => IInv
<1> SUFFICES ASSUME Init PROVE IInv
  OBVIOUS
<1> USE FlagAssumption, WaiterAssumption, NoItemAssumption
<1>1. TypeOK
  <2>1. m_state \in (-2 * FLAG) .. (2 * FLAG - 1) /\ m_sema \in Nat /\ m_empty_sema \in Nat
    BY DEF Init, STATE_RUNNING_0
  <2>2. /\ cpc \in [Clients -> ClientPC]
        /\ item \in [Clients -> Items \cup {NoItem}]
        /\ \A c \in Clients : cpc[c] = "idle"
    BY DEF Init, ClientPC
  <2>3. wpc \in WorkerPC /\ ret \in {"none", "empty", "dead"}
    BY DEF Init, WorkerPC
  <2>4. queue \subseteq Items /\ promised \subseteq Items /\ died \in BOOLEAN
    BY Zenon DEF Init
  <2> QED
    BY <2>1, <2>2, <2>3, <2>4 DEF TypeOK
<1>2. StateInv /\ SemaInv /\ EmptyInv
  BY DEF Init, StateInv, SemaInv, EmptyInv, Sleeping, PostingEmpty, STATE_RUNNING_0
<1>3. QueueInv /\ PromiseInv
  BY DEF Init, QueueInv, PromiseInv, PostingEmpty, IsDead, STATE_RUNNING_0, STATE_SPINNING
<1> QED
  BY <1>1, <1>2, <1>3 DEF IInv

(* Every step preserves it: one case per action, one step per conjunct.    *)
LEMMA NextIInv == IInv /\ [Next]_vars => IInv'
<1> SUFFICES ASSUME IInv, [Next]_vars PROVE IInv'
  OBVIOUS
<1> USE FlagAssumption, WaiterAssumption, NoItemAssumption
<1>t. TypeOK
  BY DEF IInv
<1>1. ASSUME NEW c \in Clients, NEW i \in Items, AddWork(c, i) PROVE IInv'
  <2>u. Unannounced' = Unannounced \cup {i}
    BY <1>t, <1>1, AddWorkUnannounced
  <2>1. TypeOK'
    BY <1>1 DEF IInv, TypeOK, StateInv, WorkerPC, ClientPC, Sleeping, AddWork
  <2>2. StateInv'
    BY <1>1 DEF IInv, TypeOK, StateInv, WorkerPC, Sleeping, AddWork
  <2>3. SemaInv'
    BY <1>1 DEF IInv, TypeOK, StateInv, SemaInv, WorkerPC, ClientPC, Sleeping, AddWork
  <2>4. EmptyInv'
    BY <1>1 DEF IInv, TypeOK, StateInv, EmptyInv, WorkerPC, ClientPC, Sleeping,
      PostingEmpty, AddWork
  <2>5. QueueInv'
    BY <1>1, <2>u DEF IInv, TypeOK, StateInv, QueueInv, WorkerPC, Sleeping, AddWork,
      IsReadyForSleep
  <2>6. PromiseInv'
    BY <1>1, <2>u DEF IInv, TypeOK, StateInv, EmptyInv, QueueInv, PromiseInv,
      WorkerPC, ClientPC, Sleeping, PostingEmpty, AddWork, IsReadyForSleep, IsDead,
      STATE_SPINNING
  <2> QED
    BY <2>1, <2>2, <2>3, <2>4, <2>5, <2>6 DEF IInv
<1>2. ASSUME NEW c \in Clients, NotifyOfWork(c) PROVE IInv'
  <2>u. Unannounced' \subseteq Unannounced
    BY <1>t, <1>2, NotifyUnannounced
  <2>1. TypeOK'
    BY <1>2 DEF IInv, TypeOK, StateInv, WorkerPC, ClientPC, Sleeping, NotifyOfWork,
      Headroom, STATE_SLEEPING
  <2>2. StateInv'
    BY <1>2 DEF IInv, TypeOK, StateInv, WorkerPC, Sleeping, NotifyOfWork, Headroom,
      STATE_SLEEPING
  <2>3. SemaInv'
    BY <1>2 DEF IInv, TypeOK, StateInv, SemaInv, WorkerPC, ClientPC, Sleeping,
      NotifyOfWork, Headroom, STATE_SLEEPING
  <2>4. EmptyInv'
    BY <1>2 DEF IInv, TypeOK, StateInv, EmptyInv, WorkerPC, ClientPC, Sleeping,
      PostingEmpty, NotifyOfWork, Headroom, STATE_SLEEPING
  <2>5. QueueInv'
    BY <1>2, <2>u DEF IInv, TypeOK, StateInv, QueueInv, WorkerPC, Sleeping,
      NotifyOfWork, Headroom, IsReadyForSleep, STATE_SLEEPING
  <2>6. PromiseInv'
    BY <1>2, <2>u DEF IInv, TypeOK, StateInv, EmptyInv, QueueInv, PromiseInv,
      WorkerPC, ClientPC, Sleeping, PostingEmpty, NotifyOfWork, Headroom,
      IsReadyForSleep, IsDead, STATE_SLEEPING, STATE_SPINNING
  <2> QED
    BY <2>1, <2>2, <2>3, <2>4, <2>5, <2>6 DEF IInv
<1>3. ASSUME NEW c \in Clients, NotifyPost(c) PROVE IInv'
  <2>u. Unannounced' = Unannounced
    BY <1>t, <1>3, SameUnannounced DEF NotifyPost, TypeOK
  <2>1. TypeOK'
    BY <1>3 DEF IInv, TypeOK, StateInv, WorkerPC, ClientPC, Sleeping, NotifyPost
  <2>2. StateInv'
    BY <1>3 DEF IInv, TypeOK, StateInv, WorkerPC, Sleeping, NotifyPost
  <2>3. SemaInv'
    BY <1>3 DEF IInv, TypeOK, StateInv, SemaInv, WorkerPC, ClientPC, Sleeping, NotifyPost
  <2>4. EmptyInv'
    BY <1>3 DEF IInv, TypeOK, StateInv, EmptyInv, WorkerPC, ClientPC, Sleeping,
      PostingEmpty, NotifyPost
  <2>5. QueueInv'
    BY <1>3, <2>u DEF IInv, TypeOK, StateInv, QueueInv, WorkerPC, Sleeping,
      NotifyPost, IsReadyForSleep
  <2>6. PromiseInv'
    BY <1>3, <2>u DEF IInv, TypeOK, StateInv, EmptyInv, QueueInv, PromiseInv,
      WorkerPC, ClientPC, Sleeping, PostingEmpty, NotifyPost, IsReadyForSleep,
      IsDead, STATE_SPINNING
  <2> QED
    BY <2>1, <2>2, <2>3, <2>4, <2>5, <2>6 DEF IInv
<1>4. CASE WaitForEmpty
  <2>u. Unannounced' = Unannounced
    BY <1>t, <1>4, SameUnannounced DEF WaitForEmpty, TypeOK
  <2>1. TypeOK'
    BY <1>4 DEF IInv, TypeOK, StateInv, WorkerPC, ClientPC, Sleeping, WaitForEmpty,
      WaitingEmpty, IsDead, STATE_SPINNING
  <2>2. StateInv'
    BY <1>4 DEF IInv, TypeOK, StateInv, WorkerPC, Sleeping, WaitForEmpty,
      WaitingEmpty, IsDead, STATE_SPINNING
  <2>3. SemaInv'
    BY <1>4 DEF IInv, TypeOK, StateInv, SemaInv, WorkerPC, ClientPC, Sleeping,
      WaitForEmpty, WaitingEmpty, IsDead, STATE_SPINNING
  <2>4. EmptyInv'
    BY <1>4 DEF IInv, TypeOK, StateInv, EmptyInv, WorkerPC, ClientPC, Sleeping,
      PostingEmpty, WaitForEmpty, WaitingEmpty, IsDead, STATE_SPINNING
  <2>5. QueueInv'
    BY <1>4, <2>u DEF IInv, TypeOK, StateInv, QueueInv, WorkerPC, Sleeping,
      WaitForEmpty, WaitingEmpty, IsDead, IsReadyForSleep, STATE_SPINNING
  <2>6. PromiseInv'
    BY <1>4, <2>u DEF IInv, TypeOK, StateInv, EmptyInv, QueueInv, PromiseInv,
      WorkerPC, ClientPC, Sleeping, PostingEmpty, WaitForEmpty, WaitingEmpty, IsDead,
      IsReadyForSleep, STATE_SPINNING
  <2> QED
    BY <2>1, <2>2, <2>3, <2>4, <2>5, <2>6 DEF IInv
<1>5. CASE WaitForEmptyWake
  <2>u. Unannounced' = Unannounced
    BY <1>t, <1>5, SameUnannounced DEF WaitForEmptyWake, TypeOK
  <2>1. TypeOK'
    BY <1>5 DEF IInv, TypeOK, StateInv, WorkerPC, ClientPC, Sleeping, WaitForEmptyWake
  <2>2. StateInv'
    BY <1>5 DEF IInv, TypeOK, StateInv, WorkerPC, Sleeping, WaitForEmptyWake
  <2>3. SemaInv'
    BY <1>5 DEF IInv, TypeOK, StateInv, SemaInv, WorkerPC, ClientPC, Sleeping,
      WaitForEmptyWake
  <2>4. EmptyInv'
    BY <1>5 DEF IInv, TypeOK, StateInv, EmptyInv, WorkerPC, ClientPC, Sleeping,
      PostingEmpty, WaitForEmptyWake
  <2>5. QueueInv'
    BY <1>5, <2>u DEF IInv, TypeOK, StateInv, QueueInv, WorkerPC, Sleeping,
      WaitForEmptyWake, IsReadyForSleep
  <2>6. PromiseInv'
    BY <1>5, <2>u DEF IInv, TypeOK, StateInv, EmptyInv, QueueInv, PromiseInv,
      WorkerPC, ClientPC, Sleeping, PostingEmpty, WaitForEmptyWake, IsReadyForSleep,
      IsDead, STATE_SPINNING
  <2> QED
    BY <2>1, <2>2, <2>3, <2>4, <2>5, <2>6 DEF IInv
<1>6. CASE WaitForEmptyReturn
  <2>u. Unannounced' = Unannounced
    BY <1>t, <1>6, SameUnannounced DEF WaitForEmptyReturn, TypeOK
  <2>1. TypeOK'
    BY <1>6 DEF IInv, TypeOK, StateInv, WorkerPC, ClientPC, Sleeping, WaitForEmptyReturn
  <2>2. StateInv'
    BY <1>6 DEF IInv, TypeOK, StateInv, WorkerPC, Sleeping, WaitForEmptyReturn
  <2>3. SemaInv'
    BY <1>6 DEF IInv, TypeOK, StateInv, SemaInv, WorkerPC, ClientPC, Sleeping,
      WaitForEmptyReturn
  <2>4. EmptyInv'
    BY <1>6 DEF IInv, TypeOK, StateInv, EmptyInv, WorkerPC, ClientPC, Sleeping,
      PostingEmpty, WaitForEmptyReturn
  <2>5. QueueInv'
    BY <1>6, <2>u DEF IInv, TypeOK, StateInv, QueueInv, WorkerPC, Sleeping,
      WaitForEmptyReturn, IsReadyForSleep
  <2>6. PromiseInv'
    BY <1>6, <2>u DEF IInv, TypeOK, StateInv, EmptyInv, QueueInv, PromiseInv,
      WorkerPC, ClientPC, Sleeping, PostingEmpty, WaitForEmptyReturn,
      IsReadyForSleep, IsDead, STATE_SPINNING
  <2> QED
    BY <2>1, <2>2, <2>3, <2>4, <2>5, <2>6 DEF IInv
<1>7. ASSUME NEW i \in Items, Process(i) PROVE IInv'
  <2>u. Unannounced' = Unannounced
    BY <1>t, <1>7, SameUnannounced DEF Process, TypeOK
  <2>1. TypeOK'
    BY <1>7 DEF IInv, TypeOK, StateInv, WorkerPC, ClientPC, Sleeping, Process
  <2>2. StateInv'
    BY <1>7 DEF IInv, TypeOK, StateInv, WorkerPC, Sleeping, Process
  <2>3. SemaInv'
    BY <1>7 DEF IInv, TypeOK, StateInv, SemaInv, WorkerPC, ClientPC, Sleeping, Process
  <2>4. EmptyInv'
    BY <1>7 DEF IInv, TypeOK, StateInv, EmptyInv, WorkerPC, ClientPC, Sleeping,
      PostingEmpty, Process
  <2>5. QueueInv'
    BY <1>7, <2>u DEF IInv, TypeOK, StateInv, QueueInv, WorkerPC, Sleeping, Process,
      IsReadyForSleep
  <2>6. PromiseInv'
    BY <1>7, <2>u DEF IInv, TypeOK, StateInv, EmptyInv, QueueInv, PromiseInv,
      WorkerPC, ClientPC, Sleeping, PostingEmpty, Process, IsReadyForSleep, IsDead,
      STATE_SPINNING
  <2> QED
    BY <2>1, <2>2, <2>3, <2>4, <2>5, <2>6 DEF IInv
<1>8. CASE FoundEmpty
  <2>u. Unannounced' = Unannounced
    BY <1>t, <1>8, SameUnannounced DEF FoundEmpty, TypeOK
  <2>1. TypeOK'
    BY <1>8 DEF IInv, TypeOK, StateInv, WorkerPC, ClientPC, Sleeping, FoundEmpty
  <2>2. StateInv'
    BY <1>8 DEF IInv, TypeOK, StateInv, WorkerPC, Sleeping, FoundEmpty
  <2>3. SemaInv'
    BY <1>8 DEF IInv, TypeOK, StateInv, SemaInv, WorkerPC, ClientPC, Sleeping, FoundEmpty
  <2>4. EmptyInv'
    BY <1>8 DEF IInv, TypeOK, StateInv, EmptyInv, WorkerPC, ClientPC, Sleeping,
      PostingEmpty, FoundEmpty
  <2>5. QueueInv'
    BY <1>8, <2>u DEF IInv, TypeOK, StateInv, QueueInv, WorkerPC, Sleeping,
      FoundEmpty, IsReadyForSleep
  <2>6. PromiseInv'
    BY <1>8, <2>u DEF IInv, TypeOK, StateInv, EmptyInv, QueueInv, PromiseInv,
      WorkerPC, ClientPC, Sleeping, PostingEmpty, FoundEmpty, IsReadyForSleep,
      IsDead, STATE_SPINNING
  <2> QED
    BY <2>1, <2>2, <2>3, <2>4, <2>5, <2>6 DEF IInv
<1>9. CASE CheckForWork
  <2>u. Unannounced' = Unannounced
    BY <1>t, <1>9, SameUnannounced DEF CheckForWork, TypeOK
  <2>1. TypeOK'
    BY <1>9 DEF IInv, TypeOK, StateInv, WorkerPC, ClientPC, Sleeping, CheckForWork,
      IsReadyForSleep, WaitingEmpty, KeepFlag, STATE_RUNNING_0
  <2>2. StateInv'
    BY <1>9 DEF IInv, TypeOK, StateInv, WorkerPC, Sleeping, CheckForWork,
      IsReadyForSleep, WaitingEmpty, KeepFlag, STATE_RUNNING_0
  <2>3. SemaInv'
    BY <1>9 DEF IInv, TypeOK, StateInv, SemaInv, WorkerPC, ClientPC, Sleeping,
      CheckForWork, IsReadyForSleep, WaitingEmpty, KeepFlag, STATE_RUNNING_0
  <2>4. EmptyInv'
    BY <1>9 DEF IInv, TypeOK, StateInv, EmptyInv, WorkerPC, ClientPC, Sleeping,
      PostingEmpty, CheckForWork, IsReadyForSleep, WaitingEmpty, KeepFlag,
      STATE_RUNNING_0
  <2>5. QueueInv'
    BY <1>9, <2>u DEF IInv, TypeOK, StateInv, QueueInv, WorkerPC, Sleeping,
      CheckForWork, IsReadyForSleep, WaitingEmpty, KeepFlag, STATE_RUNNING_0
  <2>6. PromiseInv'
    BY <1>9, <2>u DEF IInv, TypeOK, StateInv, EmptyInv, QueueInv, PromiseInv,
      WorkerPC, ClientPC, Sleeping, PostingEmpty, CheckForWork, IsReadyForSleep,
      WaitingEmpty, KeepFlag, IsDead, STATE_RUNNING_0, STATE_SPINNING
  <2> QED
    BY <2>1, <2>2, <2>3, <2>4, <2>5, <2>6 DEF IInv
<1>10. CASE WaitForWork
  <2>u. Unannounced' = Unannounced
    BY <1>t, <1>10, SameUnannounced DEF WaitForWork, TypeOK
  <2>1. TypeOK'
    BY <1>10 DEF IInv, TypeOK, StateInv, WorkerPC, ClientPC, Sleeping, WaitForWork,
      IsReadyForSleep, WaitingEmpty, KeepFlag, NextStateWaitForWork, STATE_RUNNING_0,
      STATE_SLEEPING
  <2>2. StateInv'
    BY <1>10 DEF IInv, TypeOK, StateInv, WorkerPC, Sleeping, WaitForWork,
      IsReadyForSleep, WaitingEmpty, KeepFlag, NextStateWaitForWork, STATE_RUNNING_0,
      STATE_SLEEPING
  <2>3. SemaInv'
    BY <1>10 DEF IInv, TypeOK, StateInv, SemaInv, WorkerPC, ClientPC, Sleeping,
      WaitForWork, IsReadyForSleep, WaitingEmpty, KeepFlag, NextStateWaitForWork,
      STATE_RUNNING_0, STATE_SLEEPING
  <2>4. EmptyInv'
    BY <1>10 DEF IInv, TypeOK, StateInv, EmptyInv, WorkerPC, ClientPC, Sleeping,
      PostingEmpty, WaitForWork, IsReadyForSleep, WaitingEmpty, KeepFlag,
      NextStateWaitForWork, STATE_RUNNING_0, STATE_SLEEPING
  <2>5. QueueInv'
    BY <1>10, <2>u DEF IInv, TypeOK, StateInv, QueueInv, WorkerPC, Sleeping,
      WaitForWork, IsReadyForSleep, WaitingEmpty, KeepFlag, NextStateWaitForWork,
      STATE_RUNNING_0, STATE_SLEEPING
  <2>6. PromiseInv'
    BY <1>10, <2>u DEF IInv, TypeOK, StateInv, EmptyInv, QueueInv, PromiseInv,
      WorkerPC, ClientPC, Sleeping, PostingEmpty, WaitForWork, IsReadyForSleep,
      WaitingEmpty, KeepFlag, NextStateWaitForWork, IsDead, STATE_RUNNING_0,
      STATE_SLEEPING, STATE_SPINNING
  <2> QED
    BY <2>1, <2>2, <2>3, <2>4, <2>5, <2>6 DEF IInv
<1>11. CASE WaitForWorkWithSpin
  <2>u. Unannounced' = Unannounced
    BY <1>t, <1>11, SameUnannounced DEF WaitForWorkWithSpin, TypeOK
  <2>1. TypeOK'
    BY <1>11 DEF IInv, TypeOK, StateInv, WorkerPC, ClientPC, Sleeping,
      WaitForWorkWithSpin, IsReadyForSleep, WaitingEmpty, STATE_SPINNING
  <2>2. StateInv'
    BY <1>11 DEF IInv, TypeOK, StateInv, WorkerPC, Sleeping, WaitForWorkWithSpin,
      IsReadyForSleep, WaitingEmpty, STATE_SPINNING
  <2>3. SemaInv'
    BY <1>11 DEF IInv, TypeOK, StateInv, SemaInv, WorkerPC, ClientPC, Sleeping,
      WaitForWorkWithSpin, IsReadyForSleep, WaitingEmpty, STATE_SPINNING
  <2>4. EmptyInv'
    BY <1>11 DEF IInv, TypeOK, StateInv, EmptyInv, WorkerPC, ClientPC, Sleeping,
      PostingEmpty, WaitForWorkWithSpin, IsReadyForSleep, WaitingEmpty,
      STATE_SPINNING
  <2>5. QueueInv'
    BY <1>11, <2>u DEF IInv, TypeOK, StateInv, QueueInv, WorkerPC, Sleeping,
      WaitForWorkWithSpin, IsReadyForSleep, WaitingEmpty, STATE_SPINNING
  <2>6. PromiseInv'
    BY <1>11, <2>u DEF IInv, TypeOK, StateInv, EmptyInv, QueueInv, PromiseInv,
      WorkerPC, ClientPC, Sleeping, PostingEmpty, WaitForWorkWithSpin,
      IsReadyForSleep, WaitingEmpty, IsDead, STATE_SPINNING
  <2> QED
    BY <2>1, <2>2, <2>3, <2>4, <2>5, <2>6 DEF IInv
<1>12. CASE SpinNotices
  <2>u. Unannounced' = Unannounced
    BY <1>t, <1>12, SameUnannounced DEF SpinNotices, TypeOK
  <2>1. TypeOK'
    BY <1>12 DEF IInv, TypeOK, StateInv, WorkerPC, ClientPC, Sleeping, SpinNotices
  <2>2. StateInv'
    BY <1>12 DEF IInv, TypeOK, StateInv, WorkerPC, Sleeping, SpinNotices
  <2>3. SemaInv'
    BY <1>12 DEF IInv, TypeOK, StateInv, SemaInv, WorkerPC, ClientPC, Sleeping,
      SpinNotices
  <2>4. EmptyInv'
    BY <1>12 DEF IInv, TypeOK, StateInv, EmptyInv, WorkerPC, ClientPC, Sleeping,
      PostingEmpty, SpinNotices
  <2>5. QueueInv'
    BY <1>12, <2>u DEF IInv, TypeOK, StateInv, QueueInv, WorkerPC, Sleeping,
      SpinNotices, IsReadyForSleep
  <2>6. PromiseInv'
    BY <1>12, <2>u DEF IInv, TypeOK, StateInv, EmptyInv, QueueInv, PromiseInv,
      WorkerPC, ClientPC, Sleeping, PostingEmpty, SpinNotices, IsReadyForSleep,
      IsDead, STATE_SPINNING
  <2> QED
    BY <2>1, <2>2, <2>3, <2>4, <2>5, <2>6 DEF IInv
<1>13. CASE SpinTimesOut
  <2>u. Unannounced' = Unannounced
    BY <1>t, <1>13, SameUnannounced DEF SpinTimesOut, TypeOK
  <2>1. TypeOK'
    BY <1>13 DEF IInv, TypeOK, StateInv, WorkerPC, ClientPC, Sleeping, SpinTimesOut,
      STATE_SLEEPING
  <2>2. StateInv'
    BY <1>13 DEF IInv, TypeOK, StateInv, WorkerPC, Sleeping, SpinTimesOut, STATE_SLEEPING
  <2>3. SemaInv'
    BY <1>13 DEF IInv, TypeOK, StateInv, SemaInv, WorkerPC, ClientPC, Sleeping,
      SpinTimesOut, STATE_SLEEPING
  <2>4. EmptyInv'
    BY <1>13 DEF IInv, TypeOK, StateInv, EmptyInv, WorkerPC, ClientPC, Sleeping,
      PostingEmpty, SpinTimesOut, STATE_SLEEPING
  <2>5. QueueInv'
    BY <1>13, <2>u DEF IInv, TypeOK, StateInv, QueueInv, WorkerPC, Sleeping,
      SpinTimesOut, IsReadyForSleep, STATE_SLEEPING
  <2>6. PromiseInv'
    BY <1>13, <2>u DEF IInv, TypeOK, StateInv, EmptyInv, QueueInv, PromiseInv,
      WorkerPC, ClientPC, Sleeping, PostingEmpty, SpinTimesOut, IsReadyForSleep,
      IsDead, STATE_SLEEPING, STATE_SPINNING
  <2> QED
    BY <2>1, <2>2, <2>3, <2>4, <2>5, <2>6 DEF IInv
<1>14. CASE PostEmpty
  <2>u. Unannounced' = Unannounced
    BY <1>t, <1>14, SameUnannounced DEF PostEmpty, TypeOK
  <2>1. TypeOK'
    BY <1>14 DEF IInv, TypeOK, StateInv, WorkerPC, ClientPC, Sleeping, PostEmpty
  <2>2. StateInv'
    BY <1>14 DEF IInv, TypeOK, StateInv, WorkerPC, Sleeping, PostEmpty
  <2>3. SemaInv'
    BY <1>14 DEF IInv, TypeOK, StateInv, SemaInv, WorkerPC, ClientPC, Sleeping, PostEmpty
  <2>4. EmptyInv'
    BY <1>14 DEF IInv, TypeOK, StateInv, EmptyInv, WorkerPC, ClientPC, Sleeping,
      PostingEmpty, PostEmpty
  <2>5. QueueInv'
    BY <1>14, <2>u DEF IInv, TypeOK, StateInv, QueueInv, WorkerPC, Sleeping,
      PostEmpty, IsReadyForSleep
  <2>6. PromiseInv'
    BY <1>14, <2>u DEF IInv, TypeOK, StateInv, EmptyInv, QueueInv, PromiseInv,
      WorkerPC, ClientPC, Sleeping, PostingEmpty, PostEmpty, IsReadyForSleep, IsDead,
      STATE_SPINNING
  <2> QED
    BY <2>1, <2>2, <2>3, <2>4, <2>5, <2>6 DEF IInv
<1>15. CASE SemaWait
  <2>u. Unannounced' = Unannounced
    BY <1>t, <1>15, SameUnannounced DEF SemaWait, TypeOK
  <2>1. TypeOK'
    BY <1>15 DEF IInv, TypeOK, StateInv, WorkerPC, ClientPC, Sleeping, SemaWait
  <2>2. StateInv'
    BY <1>15 DEF IInv, TypeOK, StateInv, SemaInv, WorkerPC, Sleeping, SemaWait
  <2>3. SemaInv'
    BY <1>15 DEF IInv, TypeOK, StateInv, SemaInv, WorkerPC, ClientPC, Sleeping, SemaWait
  <2>4. EmptyInv'
    BY <1>15 DEF IInv, TypeOK, StateInv, EmptyInv, WorkerPC, ClientPC, Sleeping,
      PostingEmpty, SemaWait
  <2>5. QueueInv'
    BY <1>15, <2>u DEF IInv, TypeOK, StateInv, QueueInv, WorkerPC, Sleeping,
      SemaWait, IsReadyForSleep
  <2>6. PromiseInv'
    BY <1>15, <2>u DEF IInv, TypeOK, StateInv, EmptyInv, QueueInv, PromiseInv,
      WorkerPC, ClientPC, Sleeping, PostingEmpty, SemaWait, IsReadyForSleep, IsDead,
      STATE_SPINNING
  <2> QED
    BY <2>1, <2>2, <2>3, <2>4, <2>5, <2>6 DEF IInv
<1>16. CASE Acknowledge
  <2>u. Unannounced' = Unannounced
    BY <1>t, <1>16, SameUnannounced DEF Acknowledge, TypeOK
  <2>1. TypeOK'
    BY <1>16 DEF IInv, TypeOK, StateInv, WorkerPC, ClientPC, Sleeping, Acknowledge,
      WaitingEmpty, KeepFlag
  <2>2. StateInv'
    BY <1>16 DEF IInv, TypeOK, StateInv, WorkerPC, Sleeping, Acknowledge,
      WaitingEmpty, KeepFlag
  <2>3. SemaInv'
    BY <1>16 DEF IInv, TypeOK, StateInv, SemaInv, WorkerPC, ClientPC, Sleeping,
      Acknowledge, WaitingEmpty, KeepFlag
  <2>4. EmptyInv'
    BY <1>16 DEF IInv, TypeOK, StateInv, EmptyInv, WorkerPC, ClientPC, Sleeping,
      PostingEmpty, Acknowledge, WaitingEmpty, KeepFlag
  <2>5. QueueInv'
    BY <1>16, <2>u DEF IInv, TypeOK, StateInv, QueueInv, WorkerPC, Sleeping,
      Acknowledge, WaitingEmpty, KeepFlag, IsReadyForSleep
  <2>6. PromiseInv'
    BY <1>16, <2>u DEF IInv, TypeOK, StateInv, EmptyInv, QueueInv, PromiseInv,
      WorkerPC, ClientPC, Sleeping, PostingEmpty, Acknowledge, WaitingEmpty,
      KeepFlag, IsReadyForSleep, IsDead, STATE_SPINNING
  <2> QED
    BY <2>1, <2>2, <2>3, <2>4, <2>5, <2>6 DEF IInv
<1>17. CASE Kill
  <2>u. Unannounced' = Unannounced
    BY <1>t, <1>17, SameUnannounced DEF Kill, TypeOK
  <2>1. TypeOK'
    BY <1>17 DEF IInv, TypeOK, StateInv, WorkerPC, ClientPC, Sleeping, Kill,
      WaitingEmpty, STATE_DEAD
  <2>2. StateInv'
    BY <1>17 DEF IInv, TypeOK, StateInv, WorkerPC, Sleeping, Kill, WaitingEmpty,
      STATE_DEAD
  <2>3. SemaInv'
    BY <1>17 DEF IInv, TypeOK, StateInv, SemaInv, WorkerPC, ClientPC, Sleeping, Kill,
      WaitingEmpty, STATE_DEAD
  <2>4. EmptyInv'
    BY <1>17 DEF IInv, TypeOK, StateInv, EmptyInv, WorkerPC, ClientPC, Sleeping,
      PostingEmpty, Kill, WaitingEmpty, STATE_DEAD
  <2>5. QueueInv'
    BY <1>17, <2>u DEF IInv, TypeOK, StateInv, QueueInv, WorkerPC, Sleeping, Kill,
      WaitingEmpty, IsReadyForSleep, STATE_DEAD
  <2>6. PromiseInv'
    BY <1>17, <2>u DEF IInv, TypeOK, StateInv, EmptyInv, QueueInv, PromiseInv,
      WorkerPC, ClientPC, Sleeping, PostingEmpty, Kill, WaitingEmpty,
      IsReadyForSleep, IsDead, STATE_SPINNING, STATE_DEAD
  <2> QED
    BY <2>1, <2>2, <2>3, <2>4, <2>5, <2>6 DEF IInv
<1>18. CASE Reset
  <2>u. Unannounced' = Unannounced
    BY <1>t, <1>18, SameUnannounced DEF Reset, TypeOK
  <2>1. TypeOK'
    BY <1>18 DEF IInv, TypeOK, StateInv, WorkerPC, ClientPC, Sleeping, Reset,
      STATE_RUNNING_0
  <2>2. StateInv'
    BY <1>18 DEF IInv, TypeOK, StateInv, WorkerPC, Sleeping, Reset, STATE_RUNNING_0
  <2>3. SemaInv'
    BY <1>18 DEF IInv, TypeOK, StateInv, SemaInv, WorkerPC, ClientPC, Sleeping,
      Reset, STATE_RUNNING_0
  <2>4. EmptyInv'
    BY <1>18 DEF IInv, TypeOK, StateInv, EmptyInv, WorkerPC, ClientPC, Sleeping,
      PostingEmpty, Reset, STATE_RUNNING_0
  <2>5. QueueInv'
    BY <1>18, <2>u DEF IInv, TypeOK, StateInv, QueueInv, WorkerPC, Sleeping, Reset,
      IsReadyForSleep, STATE_RUNNING_0
  <2>6. PromiseInv'
    BY <1>18, <2>u DEF IInv, TypeOK, StateInv, EmptyInv, QueueInv, PromiseInv,
      WorkerPC, ClientPC, Sleeping, PostingEmpty, Reset, IsReadyForSleep, IsDead,
      STATE_RUNNING_0, STATE_SPINNING
  <2> QED
    BY <2>1, <2>2, <2>3, <2>4, <2>5, <2>6 DEF IInv
<1>19. CASE UNCHANGED vars
  BY <1>19 DEF vars, IInv, TypeOK, StateInv, SemaInv, EmptyInv, QueueInv, PromiseInv,
    Sleeping, PostingEmpty, Unannounced
<1> QED
  BY <1>1, <1>2, <1>3, <1>4, <1>5, <1>6, <1>7, <1>8, <1>9, <1>10, <1>11, <1>12,
    <1>13, <1>14, <1>15, <1>16, <1>17, <1>18, <1>19 DEF Next, WorkerStep, WaiterStep,
    ClientStep

-----------------------------------------------------------------------------
(* m_state stays within the integer, only the waiter waits, and every      *)
(* variable keeps its type: pxAssert(!IsDead(value)) and the "Multiple     *)
(* threads" assertion of Semaphore.cpp rest on it.                         *)
THEOREM TypeCorrect == Spec => []TypeOK
<1>1. IInv => TypeOK
  BY DEF IInv
<1> QED
  BY <1>1, InitIInv, NextIInv, PTL DEF Spec

(* No notification is lost: with any number of clients a sleeping worker   *)
(* to which no Post is on its way has no announced work in its queue.      *)
THEOREM WakeupNotLost == Spec => []NoLostWakeup
<1>1. IInv => NoLostWakeup
  BY DEF IInv, StateInv, SemaInv, QueueInv, NoLostWakeup, Sleeping, TypeOK
<1> QED
  BY <1>1, InitIInv, NextIInv, PTL DEF Spec

(* WaitForEmpty tells the truth: "empty" means that what was announced     *)
(* before the call is done, "dead" that the worker was killed.             *)
THEOREM WaitForEmptyTruthful == Spec => []EmptyIsEmpty
<1>1. IInv => EmptyIsEmpty
  BY DEF IInv, PromiseInv, EmptyIsEmpty
<1> QED
  BY <1>1, InitIInv, NextIInv, PTL DEF Spec

(* No semaphore holds a Post that its sleeper is not about to take.        *)
THEOREM PostsAreFresh == Spec => []NoStalePost
<1>1. IInv => NoStalePost
  BY DEF IInv, TypeOK, SemaInv, EmptyInv, NoStalePost, Sleeping
<1> QED
  BY <1>1, InitIInv, NextIInv, PTL DEF Spec

=============================================================================
