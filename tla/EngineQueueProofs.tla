-------------------------- MODULE EngineQueueProofs --------------------------
(***************************************************************************)
(* The queues of an engine (EngineWorkers) and the references to tasks in    *)
(* them, for any number of workers, producers and tasks and any queue sizes: *)
(* an inductive invariant that says who sleeps and is owed a notify, and     *)
(* where the one reference of a task is.  EngineProofs counts on it.         *)
(***************************************************************************)
EXTENDS EngineWorkers, Integers, TLAPS

\* The flag of a queue is up exactly while its consumer sleeps, so a push that
\* skips the notify has seen it awake.  Who has yet to notify pushes nothing.
QueueInv ==
    /\ \A q \in Queues : state[q] <=> cv[q] # "off"
    /\ \A w \in Blocking : cv[w] # "off" => pos[w] = "block"
    /\ \A w \in Blocking : notify[w] = NoQueue
    /\ \A w \in AsyncWorkers : entry # "done" => notify[w] = NoQueue
    /\ NoLostNotify

\* One async worker at a time polls the entry task, and only one that is there.
EntryInv ==
    \A w \in AsyncWorkers : pos[w] = "poll" =>
        entry = "polled" /\ \A v \in AsyncWorkers : pos[v] = "poll" => v = w

\* The queue and the local storage of a worker hold the tasks that wait and were
\* spawned to it, each in one place.
Elements(list) == {list[i] : i \in DOMAIN list}
Distinct(list) == \A i, k \in DOMAIN list : list[i] = list[k] => i = k
Waiting(w) == {t \in Tasks : task[t] = "queued" /\ home[t] = w}
HoldInv ==
    /\ \A w \in Blocking : Distinct(items[w]) /\ Distinct(local[w])
    /\ \A w \in Blocking : Elements(items[w]) \cap Elements(local[w]) = {}
    /\ \A w \in Blocking : Elements(items[w]) \cup Elements(local[w]) = Waiting(w)
    /\ \A w \in Blocking : pos[w] = "block" => local[w] = <<>>
    /\ \A t \in Tasks : task[t] = "queued" => home[t] \in Blocking

\* A task is polled by the worker it was spawned to, which polls nothing else.
PollInv ==
    /\ \A w \in Blocking : running[w] = NoTask <=> pos[w] # "poll"
    /\ \A w \in Blocking : running[w] # NoTask => task[running[w]] = "polled" /\ home[running[w]] = w
    /\ \A t \in Tasks : task[t] = "polled" => home[t] \in Blocking /\ running[home[t]] = t
    /\ \A t \in Tasks : task[t] = "new" <=> home[t] = NoTask

\* The inductive invariant.
PlaceInv == QueueTypeOK /\ StorageTypeOK /\ ControlTypeOK /\ QueueInv /\ EntryInv /\ HoldInv /\ PollInv

(***************************************************************************)
(* Lists without repetitions.                                                *)
(***************************************************************************)

\* Putting a new value at the end.
LEMMA AppendList ==
    ASSUME NEW S, NEW list \in Seq(S), NEW t \in S, t \notin Elements(list), Distinct(list)
    PROVE  Distinct(Append(list, t)) /\ Elements(Append(list, t)) = Elements(list) \cup {t}
<1> DEFINE more == Append(list, t)
           n == Len(list)
<1>1. n \in Nat /\ DOMAIN list = 1..n /\ DOMAIN more = 1..(n + 1)
  OBVIOUS
<1>2. \A i \in 1..n : more[i] = list[i]
  OBVIOUS
<1>3. more[n + 1] = t
  OBVIOUS
<1>4. \A i \in 1..(n + 1) : i \in 1..n \/ i = n + 1
  BY <1>1
<1>5. n + 1 \in 1..(n + 1) /\ \A i \in 1..n : i \in 1..(n + 1)
  BY <1>1
<1> HIDE DEF more, n
<1>6. \A i \in 1..n : list[i] # t
  BY <1>1 DEF Elements
<1>7. Distinct(more)
  BY <1>1, <1>2, <1>3, <1>4, <1>6 DEF Distinct
<1>8. Elements(more) = {more[i] : i \in 1..(n + 1)} /\ Elements(list) = {list[i] : i \in 1..n}
  BY <1>1 DEF Elements
<1>9. Elements(more) = Elements(list) \cup {t}
  BY <1>2, <1>3, <1>4, <1>5, <1>8
<1> QED
  BY <1>7, <1>9 DEF more

\* Cutting a list in two.
LEMMA CutList ==
    ASSUME NEW S, NEW list \in Seq(S), Distinct(list), NEW n \in 0..Len(list)
    PROVE  LET front == SubSeq(list, 1, n)
               rest == SubSeq(list, n + 1, Len(list))
           IN  /\ front \in Seq(S) /\ rest \in Seq(S)
               /\ Len(front) = n /\ Len(rest) = Len(list) - n
               /\ Distinct(front) /\ Distinct(rest)
               /\ Elements(front) \cap Elements(rest) = {}
               /\ Elements(front) \cup Elements(rest) = Elements(list)
<1> DEFINE front == SubSeq(list, 1, n)
           rest == SubSeq(list, n + 1, Len(list))
           m == Len(list)
<1>1. rest \in Seq(S) /\ Len(rest) = m - n
  OBVIOUS
<1>2. DOMAIN rest = 1..(m - n)
  OBVIOUS
<1>3. ASSUME NEW i \in 1..(m - n) PROVE rest[i] = list[n + i]
  OBVIOUS
<1> m \in Nat /\ n \in Nat /\ n <= m /\ DOMAIN list = 1..m
  OBVIOUS
<1>0. front \in Seq(S) /\ Len(front) = n /\ DOMAIN front = 1..n /\ \A i \in 1..n : front[i] = list[i]
  OBVIOUS
<1>4. \A i \in 1..(m - n) : n + i \in 1..m /\ n + i \notin 1..n
  OBVIOUS
<1>5. \A i \in 1..m : i \in 1..n \/ (i - n \in 1..(m - n) /\ n + (i - n) = i)
  OBVIOUS
<1>6. \A i \in 1..n : i \in 1..m
  OBVIOUS
<1>7. \A i, k \in 1..(m - n) : n + i = n + k => i = k
  OBVIOUS
<1> HIDE DEF front, rest, m
<1>8. Distinct(front)
  BY <1>0, <1>6 DEF Distinct
<1>9. Distinct(rest)
  BY <1>2, <1>3, <1>4, <1>7, SMTT(20) DEF Distinct
<1>10. Elements(front) = {list[i] : i \in 1..n} /\ Elements(list) = {list[i] : i \in 1..m}
  BY <1>0 DEF Elements
<1>11. Elements(rest) = {list[n + i] : i \in 1..(m - n)}
  BY <1>2, <1>3 DEF Elements
<1>12. Elements(front) \cap Elements(rest) = {}
  <2> SUFFICES ASSUME NEW i \in 1..n, NEW k \in 1..(m - n) PROVE list[i] # list[n + k]
    BY <1>10, <1>11
  <2> QED
    BY <1>4, <1>6 DEF Distinct
<1>13. Elements(front) \cup Elements(rest) = Elements(list)
  BY <1>4, <1>5, <1>6, <1>10, <1>11, SMTT(20)
<1> QED
  BY <1>0, <1>1, <1>8, <1>9, <1>12, <1>13, Zenon DEF front, rest, m

\* The sets of threads and queues of an engine.
LEMMA EngineSets ==
    /\ Workers = Blocking \cup AsyncWorkers /\ Blocking \cap AsyncWorkers = {}
    /\ Pushers = Producers \cup Workers /\ Producers \cap Workers = {}
    /\ Queues = Blocking \cup {JoinQueue} /\ JoinQueue \notin Blocking /\ NoQueue \notin Queues
    /\ NoTask \notin Tasks /\ NoTask \notin Blocking
    /\ LocalSize \in Nat \ {0} /\ Capacity \in [Queues -> Nat \ {0}]
BY EngineAssumption, CapacityAssumption DEF Workers

USE EngineSets
USE DEF TaskStates, queueVars, ownerVars, barrierVars, taskVars, entryVars, workerVars

(***************************************************************************)
(* What leaves a part of the invariant alone.                                *)
(***************************************************************************)

\* The queues are left alone by everybody, and their sleepers sleep on.
LEMMA QueuesRest ==
    ASSUME QueueTypeOK, QueueInv, UNCHANGED queueVars, entry' # "done" => entry # "done",
           \A w \in Blocking : cv[w] # "off" => pos'[w] = pos[w]
    PROVE  QueueTypeOK' /\ QueueInv'
<1>1. QueueTypeOK'
  BY DEF QueueTypeOK
<1>2. QueueInv'
  BY DEF QueueInv, NoLostNotify
<1> QED
  BY <1>1, <1>2

\* No reference moves.
LEMMA ReferencesRest ==
    ASSUME StorageTypeOK, HoldInv, PollInv, UNCHANGED <<local, running, task, home>>,
           \A w \in Blocking : items'[w] = items[w],
           \A w \in Blocking : pos'[w] = "block" => pos[w] = "block",
           \A w \in Blocking : pos'[w] = "poll" <=> pos[w] = "poll"
    PROVE  StorageTypeOK' /\ HoldInv' /\ PollInv'
<1>1. StorageTypeOK'
  BY DEF StorageTypeOK
<1>2. HoldInv'
  <2>1. \A w \in Blocking : Waiting(w)' = Waiting(w)
    BY DEF Waiting
  <2> QED
    BY <2>1, Zenon DEF HoldInv
<1>3. PollInv'
  BY DEF PollInv
<1> QED
  BY <1>1, <1>2, <1>3

\* Tasks that do not wait change their state or are spawned elsewhere.
LEMMA HoldRests ==
    ASSUME HoldInv, UNCHANGED <<items, local>>,
           \A t \in Tasks : task[t] = "queued" => task'[t] = "queued" /\ home'[t] = home[t],
           \A t \in Tasks : task'[t] = "queued" => task[t] = "queued",
           \A w \in Blocking : pos'[w] = "block" => pos[w] = "block"
    PROVE  HoldInv'
<1>1. \A w \in Blocking : Waiting(w)' = Waiting(w)
  BY DEF Waiting
<1> QED
  BY <1>1 DEF HoldInv

\* The entry task is left alone.
LEMMA EntryRests ==
    ASSUME EntryInv, UNCHANGED entry, \A w \in AsyncWorkers : pos'[w] = "poll" => pos[w] = "poll"
    PROVE  EntryInv'
  BY DEF EntryInv

(***************************************************************************)
(* Pushing and popping.                                                      *)
(***************************************************************************)

\* A push notifies the sleeper or has seen it awake.
LEMMA PushQueues ==
    ASSUME QueueTypeOK, QueueInv, NEW p \in Pushers, NEW q \in Queues, NEW v \in Tasks \cup {EntryTask},
           Push(p, q, v), notify[p] = NoQueue,
           p \in Blocking => cv[q] = "off",
           p \in AsyncWorkers => entry' = "done",
           entry' # "done" => entry # "done",
           \A w \in Blocking : cv[w] # "off" => pos'[w] = pos[w]
    PROVE  QueueTypeOK' /\ QueueInv'
<1>1. state' = state /\ cv' = cv /\ items' = [items EXCEPT ![q] = Append(items[q], v)]
  BY DEF Push
<1>2. \A r \in Pushers \ {p} : notify'[r] = notify[r]
  BY DEF Push, QueueTypeOK
<1>3. notify'[p] = IF state[q] THEN q ELSE NoQueue
  BY DEF Push, QueueTypeOK
<1>4. \A r \in Queues \ {q} : items'[r] = items[r]
  BY <1>1 DEF QueueTypeOK
<1>5. QueueTypeOK'
  <2>1. /\ items[q] \in Seq(Tasks \cup {EntryTask})
        /\ Len(items[q]) \in Nat /\ Len(items[q]) < Capacity[q] /\ Capacity[q] \in Nat
    BY DEF QueueTypeOK, Push, Full
  <2>2. /\ Append(items[q], v) \in Seq(Tasks \cup {EntryTask})
        /\ Len(Append(items[q], v)) <= Capacity[q]
    BY <2>1
  <2>3. notify' \in [Pushers -> Queues \cup {NoQueue}]
    BY DEF QueueTypeOK, Push
  <2> QED
    BY <1>1, <2>2, <2>3 DEF QueueTypeOK
<1>6. ASSUME NEW r \in Queues, cv'[r] = "waiting", items'[r] # <<>>
      PROVE  \E x \in Pushers : notify'[x] = r
  <2>1. CASE r = q
    BY <1>1, <1>3, <1>6, <2>1 DEF QueueInv
  <2>2. CASE r # q
    <3>1. PICK x \in Pushers : notify[x] = r
      BY <1>1, <1>4, <1>6, <2>2 DEF QueueInv, NoLostNotify
    <3> QED
      BY <1>2, <3>1
  <2> QED
    BY <2>1, <2>2
<1>7. NoLostNotify'
  BY <1>6 DEF NoLostNotify
<1>8. /\ \A w \in Blocking : notify'[w] = NoQueue
      /\ \A w \in AsyncWorkers : entry' # "done" => notify'[w] = NoQueue
  BY <1>2, <1>3 DEF QueueInv
<1> QED
  BY <1>1, <1>5, <1>7, <1>8 DEF QueueInv

\* A task that did not wait goes to the end of its worker's queue.
LEMMA PushHolds ==
    ASSUME QueueTypeOK, ControlTypeOK, HoldInv, NEW p, NEW w \in Blocking, NEW t \in Tasks, Push(p, w, t),
           task[t] # "queued", task' = [task EXCEPT ![t] = "queued"], home'[t] = w,
           \A u \in Tasks \ {t} : home'[u] = home[u],
           UNCHANGED local, \A v \in Blocking : pos'[v] = "block" => pos[v] = "block"
    PROVE  HoldInv'
<1>1. /\ items[w] \in Seq(Tasks \cup {EntryTask}) /\ items'[w] = Append(items[w], t)
      /\ \A v \in Blocking \ {w} : items'[v] = items[v]
  BY DEF Push, QueueTypeOK
<1>2. task'[t] = "queued" /\ \A u \in Tasks \ {t} : task'[u] = task[u]
  BY DEF ControlTypeOK
<1>3. Waiting(w)' = Waiting(w) \cup {t} /\ \A v \in Blocking \ {w} : Waiting(v)' = Waiting(v)
  BY <1>2 DEF Waiting
<1>4. t \notin Waiting(w) /\ t \notin Elements(items[w]) /\ t \notin Elements(local[w])
  BY DEF Waiting, HoldInv
<1>5. Distinct(items'[w]) /\ Elements(items'[w]) = Elements(items[w]) \cup {t}
  BY <1>1, <1>4, AppendList DEF HoldInv
<1>6. ASSUME NEW v \in Blocking
      PROVE  /\ Distinct(items'[v]) /\ Distinct(local[v])
             /\ Elements(items'[v]) \cap Elements(local[v]) = {}
             /\ Elements(items'[v]) \cup Elements(local[v]) = Waiting(v)'
  <2>1. /\ Distinct(items[v]) /\ Distinct(local[v])
        /\ Elements(items[v]) \cap Elements(local[v]) = {}
        /\ Elements(items[v]) \cup Elements(local[v]) = Waiting(v)
    BY DEF HoldInv
  <2>2. CASE v = w
    BY <1>3, <1>4, <1>5, <2>1, <2>2
  <2>3. CASE v # w
    BY <1>1, <1>3, <2>1, <2>3, Zenon
  <2> QED
    BY <2>2, <2>3
<1>7. \A u \in Tasks : task'[u] = "queued" => home'[u] \in Blocking
  BY <1>2 DEF HoldInv
<1> QED
  BY <1>6, <1>7, Zenon DEF HoldInv

\* A consumer lies down beside an empty queue, or sleeps on there.
LEMMA SleepQueues ==
    ASSUME QueueTypeOK, QueueInv, NEW q \in Queues, PopBlocking(q) \/ PopSleepsOn(q),
           q \in Blocking => pos[q] = "block", UNCHANGED <<pos, entry>>
    PROVE  QueueTypeOK' /\ QueueInv'
<1>1. /\ cv' = [cv EXCEPT ![q] = "waiting"] /\ items[q] = <<>> /\ UNCHANGED <<items, notify>>
      /\ state' = [state EXCEPT ![q] = TRUE] \/ (UNCHANGED state /\ cv[q] = "notified")
  BY DEF PopBlocking, PopSleepsOn
<1>2. state' \in [Queues -> BOOLEAN] /\ state'[q] /\ \A r \in Queues \ {q} : state'[r] = state[r]
  BY <1>1, Zenon DEF QueueInv, QueueTypeOK
<1>3. QueueTypeOK'
  BY <1>1, <1>2 DEF QueueTypeOK
<1>4. cv'[q] = "waiting" /\ \A r \in Queues \ {q} : cv'[r] = cv[r]
  BY <1>1 DEF QueueTypeOK
<1>5. \A r \in Queues : state'[r] <=> cv'[r] # "off"
  BY <1>2, <1>4 DEF QueueInv
<1>6. NoLostNotify'
  BY <1>1, <1>4 DEF QueueInv, NoLostNotify
<1> QED
  BY <1>1, <1>3, <1>4, <1>5, <1>6 DEF QueueInv

\* A consumer gets up, with a value or after a timeout.
LEMMA UpQueues ==
    ASSUME QueueTypeOK, QueueInv, NEW q \in Queues, PopValue(q) \/ PopTimeout(q),
           \A w \in Blocking \ {q} : pos'[w] = pos[w], UNCHANGED entry
    PROVE  QueueTypeOK' /\ QueueInv' /\ \A r \in Queues \ {q} : items'[r] = items[r]
<1>1. /\ cv' = [cv EXCEPT ![q] = "off"] /\ state' = [state EXCEPT ![q] = FALSE] /\ UNCHANGED notify
      /\ UNCHANGED items \/ (items' = [items EXCEPT ![q] = Tail(items[q])] /\ items[q] # <<>>)
  BY DEF PopValue, PopTimeout
<1>2. /\ cv'[q] = "off" /\ ~state'[q]
      /\ \A r \in Queues \ {q} : cv'[r] = cv[r] /\ state'[r] = state[r] /\ items'[r] = items[r]
  BY <1>1 DEF QueueTypeOK
<1>3. QueueTypeOK'
  <2>1. items[q] \in Seq(Tasks \cup {EntryTask}) /\ Len(items[q]) \in Nat /\ Len(items[q]) <= Capacity[q]
    BY DEF QueueTypeOK
  <2>2. items[q] # <<>> => /\ Tail(items[q]) \in Seq(Tasks \cup {EntryTask})
                           /\ Len(Tail(items[q])) = Len(items[q]) - 1
    BY <2>1
  <2>3. items[q] # <<>> => Len(Tail(items[q])) <= Capacity[q]
    BY <2>1, <2>2
  <2>4. /\ items' \in [Queues -> Seq(Tasks \cup {EntryTask})]
        /\ \A r \in Queues : Len(items'[r]) <= Capacity[r]
    <3>1. CASE UNCHANGED items
      BY <3>1 DEF QueueTypeOK
    <3>2. CASE items' = [items EXCEPT ![q] = Tail(items[q])] /\ items[q] # <<>>
      BY <2>2, <2>3, <3>2 DEF QueueTypeOK
    <3> QED
      BY <1>1, <3>1, <3>2
  <2> QED
    BY <1>1, <2>4 DEF QueueTypeOK
<1>4. \A r \in Queues : state'[r] <=> cv'[r] # "off"
  BY <1>2 DEF QueueInv
<1>5. NoLostNotify'
  BY <1>1, <1>2 DEF QueueInv, NoLostNotify
<1>6. QueueInv'
  BY <1>1, <1>2, <1>4, <1>5 DEF QueueInv
<1> QED
  BY <1>2, <1>3, <1>6

\* References move from the front of a worker's queue to its empty local storage.
LEMMA FetchHolds ==
    ASSUME QueueTypeOK, StorageTypeOK, HoldInv, NEW w \in Blocking, local[w] = <<>>,
           NEW n \in 0..Len(items[w]), n <= LocalSize,
           items' = [items EXCEPT ![w] = SubSeq(items[w], n + 1, Len(items[w]))],
           local' = [local EXCEPT ![w] = SubSeq(items[w], 1, n)],
           UNCHANGED <<task, home>>,
           \A v \in Blocking \ {w} : pos'[v] = pos[v],
           pos'[w] = "block" => n = 0
    PROVE  /\ HoldInv' /\ StorageTypeOK'
           /\ items' \in [Queues -> Seq(Tasks \cup {EntryTask})]
           /\ \A q \in Queues : Len(items'[q]) <= Capacity[q]
<1> DEFINE S == Tasks \cup {EntryTask}
           front == SubSeq(items[w], 1, n)
           rest == SubSeq(items[w], n + 1, Len(items[w]))
<1>1. /\ items[w] \in Seq(S) /\ Len(items[w]) \in Nat /\ Len(items[w]) <= Capacity[w]
      /\ Distinct(items[w]) /\ Elements(items[w]) \subseteq Tasks
  BY DEF QueueTypeOK, HoldInv, Waiting
<1>2. /\ front \in Seq(S) /\ rest \in Seq(S) /\ Len(front) = n /\ Len(rest) = Len(items[w]) - n
      /\ Distinct(front) /\ Distinct(rest)
      /\ Elements(front) \cap Elements(rest) = {}
      /\ Elements(front) \cup Elements(rest) = Elements(items[w])
  BY <1>1, CutList
<1>3. /\ items' = [items EXCEPT ![w] = rest] /\ local' = [local EXCEPT ![w] = front]
  OBVIOUS
<1> HIDE DEF front, rest
<1>4. front \in Seq(Tasks)
  <2>1. DOMAIN front = 1..n
    BY <1>2
  <2>2. \A i \in 1..n : front[i] \in Elements(front)
    BY <2>1 DEF Elements
  <2>3. \A i \in 1..n : front[i] \in Tasks
    BY <1>1, <1>2, <2>2
  <2> QED
    BY <1>2, <2>1, <2>3
<1>5. Len(rest) <= Capacity[w]
  BY <1>1, <1>2
<1>6. /\ items'[w] = rest /\ local'[w] = front
      /\ \A v \in Blocking \ {w} : items'[v] = items[v] /\ local'[v] = local[v]
  BY <1>3 DEF QueueTypeOK, StorageTypeOK
<1>7. Elements(local[w]) = {}
  BY DEF Elements
<1>8. \A v \in Blocking : Waiting(v)' = Waiting(v)
  BY DEF Waiting
<1>9. ASSUME NEW v \in Blocking
      PROVE  /\ Distinct(items'[v]) /\ Distinct(local'[v])
             /\ Elements(items'[v]) \cap Elements(local'[v]) = {}
             /\ Elements(items'[v]) \cup Elements(local'[v]) = Waiting(v)'
  <2>1. /\ Distinct(items[v]) /\ Distinct(local[v])
        /\ Elements(items[v]) \cap Elements(local[v]) = {}
        /\ Elements(items[v]) \cup Elements(local[v]) = Waiting(v)
    BY DEF HoldInv
  <2>2. CASE v = w
    BY <1>2, <1>6, <1>7, <1>8, <2>1, <2>2, Zenon
  <2>3. CASE v # w
    BY <1>6, <1>8, <2>1, <2>3, Zenon
  <2> QED
    BY <2>2, <2>3
<1>10. \A v \in Blocking : pos'[v] = "block" => local'[v] = <<>>
  BY <1>2, <1>6 DEF HoldInv
<1>11. HoldInv'
  BY <1>9, <1>10, Zenon DEF HoldInv
<1>12. /\ items' \in [Queues -> Seq(S)] /\ \A q \in Queues : Len(items'[q]) <= Capacity[q]
  BY <1>2, <1>3, <1>5 DEF QueueTypeOK
<1>13. StorageTypeOK'
  BY <1>2, <1>3, <1>4 DEF StorageTypeOK
<1> QED
  BY <1>11, <1>12, <1>13

(***************************************************************************)
(* The owner, workers that report and look at their flags, the entry task.   *)
(***************************************************************************)

\* No queue and no task is touched, and no dedicated or safety worker enters or
\* leaves a poll or a sleep.
LEMMA QuietKeeps ==
    ASSUME PlaceInv, ControlTypeOK', EntryInv',
           UNCHANGED <<queueVars, local, running, task, home>>, entry' # "done" => entry # "done",
           \A w \in Blocking : \/ pos'[w] = pos[w]
                               \/ pos[w] \notin {"block", "poll"} /\ pos'[w] \notin {"block", "poll"}
    PROVE  PlaceInv'
<1>1. \A w \in Blocking : cv[w] # "off" => pos'[w] = pos[w]
  BY DEF PlaceInv, QueueInv
<1>2. QueueTypeOK' /\ QueueInv'
  BY <1>1, QueuesRest DEF PlaceInv
<1>3. /\ \A w \in Blocking : items'[w] = items[w]
      /\ \A w \in Blocking : pos'[w] = "block" => pos[w] = "block"
      /\ \A w \in Blocking : pos'[w] = "poll" <=> pos[w] = "poll"
  OBVIOUS
<1>4. StorageTypeOK' /\ HoldInv' /\ PollInv'
  BY <1>3, ReferencesRest DEF PlaceInv
<1> QED
  BY <1>2, <1>4 DEF PlaceInv

\* The owner starts, waits for or stops workers; a thread comes to join.
LEMMA OwnerKeeps ==
    ASSUME PlaceInv,
           \/ StartFails \/ Started \/ WaitForAll \/ WaitTimeout \/ RunInEngine \/ Shutdown \/ Drop
           \/ Join \/ \E w \in Workers : Stop(w) \/ ReadyNotify(w)
    PROVE  PlaceInv'
<1> USE DEF StartFails, Started, WaitForAll, WaitTimeout, RunInEngine, Shutdown, Drop, Stop, Join, ReadyNotify
<1>1. /\ UNCHANGED <<queueVars, local, running, task, home, notified, pos>>
      /\ owner' \in {owner, "stopping", "barrier", "built", "asleep", "dropped"}
      /\ engine' \in {engine, "Running", "Stopped"} /\ joiner' \in {joiner, "joining"}
      /\ UNCHANGED stopped \/ \E w \in Workers : stopped' = [stopped EXCEPT ![w] = TRUE]
  OBVIOUS
<1>2. UNCHANGED entry \/ (entry = "none" /\ entry' = "queued")
  OBVIOUS
<1>3. ControlTypeOK'
  <2>1. stopped' \in [Workers -> BOOLEAN]
    BY ONLY PlaceInv, <1>1, Zenon DEF PlaceInv, ControlTypeOK
  <2> QED
    BY ONLY PlaceInv, <1>1, <1>2, <2>1 DEF PlaceInv, ControlTypeOK
<1>4. EntryInv' /\ (entry' # "done" => entry # "done")
  BY ONLY PlaceInv, <1>1, <1>2 DEF PlaceInv, EntryInv
<1> QED
  BY ONLY PlaceInv, <1>1, <1>3, <1>4, QuietKeeps

\* A thread is spawned, reports, and looks at its flag or loses it.
LEMMA ReportKeeps ==
    ASSUME PlaceInv, NEW w \in Workers,
           Ready(w) \/ LoopTop(w) \/ StopIsLost(w) \/ SleepEnds(w) \/ \E before : SpawnThread(w, before)
    PROVE  PlaceInv'
<1>1. PICK p \in {"prerun", "loop", "drain", "asleep", "ended"} : pos' = [pos EXCEPT ![w] = p]
  BY DEF SpawnThread, Ready, LoopTop, StopIsLost, SleepEnds, Goto
<1>2. /\ UNCHANGED <<queueVars, ownerVars, taskVars, entryVars, stopped, local>>
      /\ pos[w] \notin {"block", "poll"}
  BY DEF SpawnThread, Ready, LoopTop, StopIsLost, SleepEnds
<1>3. ControlTypeOK'
  BY ONLY PlaceInv, <1>1, <1>2 DEF PlaceInv, ControlTypeOK, ownerVars, taskVars, entryVars
<1>4. pos'[w] = p /\ \A v \in Workers \ {w} : pos'[v] = pos[v]
  BY <1>1 DEF PlaceInv, ControlTypeOK
<1>5. EntryInv'
  BY <1>2, <1>4, EntryRests DEF PlaceInv
<1> QED
  BY <1>2, <1>3, <1>4, <1>5, QuietKeeps

\* The entry task is polled, or stays pending.
LEMMA EntryKeeps ==
    ASSUME PlaceInv, NEW w \in AsyncWorkers, PollEntry(w) \/ EntryPending(w)
    PROVE  PlaceInv'
<1>1. /\ UNCHANGED <<queueVars, ownerVars, taskVars, joiner, stopped, local>>
      /\ \/ entry = "queued" /\ entry' = "polled" /\ pos' = [pos EXCEPT ![w] = "poll"]
         \/ pos[w] = "poll" /\ entry' = "queued" /\ pos' = [pos EXCEPT ![w] = "loop"]
  BY DEF PollEntry, EntryPending, Goto
<1>2. ControlTypeOK'
  BY <1>1 DEF PlaceInv, ControlTypeOK
<1>3. /\ pos'[w] \in {"poll", "loop"} /\ \A v \in Workers \ {w} : pos'[v] = pos[v]
      /\ pos'[w] = "poll" => entry = "queued" /\ entry' = "polled"
      /\ pos'[w] = "loop" => pos[w] = "poll" /\ entry' = "queued"
  BY <1>1 DEF PlaceInv, ControlTypeOK
<1>4. EntryInv' /\ (entry' # "done" => entry # "done")
  BY <1>3 DEF PlaceInv, EntryInv
<1>5. \A v \in Blocking : pos'[v] = pos[v]
  BY <1>3
<1> QED
  BY <1>1, <1>2, <1>4, <1>5, QuietKeeps

(***************************************************************************)
(* Consumers of a trigger queue.                                             *)
(***************************************************************************)

\* A worker, or a thread in join, lies down or sleeps on.
LEMMA BlockKeeps ==
    ASSUME PlaceInv, JoinBlocks \/ \E w \in Blocking : Block(w) \/ BlockAgain(w)
    PROVE  PlaceInv'
<1>1. PICK q \in Queues : (PopBlocking(q) \/ PopSleepsOn(q)) /\ (q \in Blocking => pos[q] = "block")
  BY DEF JoinBlocks, Block, BlockAgain
<1>2. UNCHANGED <<ownerVars, taskVars, entryVars, workerVars>>
  BY DEF JoinBlocks, Block, BlockAgain
<1>3. UNCHANGED items
  BY <1>1 DEF PopBlocking, PopSleepsOn
<1>4. ControlTypeOK' /\ EntryInv'
  BY <1>2 DEF PlaceInv, ControlTypeOK, EntryInv
<1>5. QueueTypeOK' /\ QueueInv'
  BY <1>1, <1>2, SleepQueues DEF PlaceInv
<1>6. StorageTypeOK' /\ HoldInv' /\ PollInv'
  BY <1>2, <1>3, ReferencesRest DEF PlaceInv
<1> QED
  BY <1>4, <1>5, <1>6 DEF PlaceInv

\* The 100 ms of a worker are over.
LEMMA BlockTimeoutKeeps ==
    ASSUME PlaceInv, NEW w \in Blocking, BlockTimeout(w)
    PROVE  PlaceInv'
<1>1. /\ PopTimeout(w) /\ UNCHANGED items /\ pos[w] = "block" /\ pos' = [pos EXCEPT ![w] = "loop"]
      /\ UNCHANGED <<ownerVars, taskVars, entryVars, stopped, local>>
  BY DEF BlockTimeout, PopTimeout, Goto
<1>2. pos'[w] = "loop" /\ \A v \in Workers \ {w} : pos'[v] = pos[v]
  BY <1>1 DEF PlaceInv, ControlTypeOK
<1>3. ControlTypeOK'
  BY <1>1 DEF PlaceInv, ControlTypeOK
<1>4. EntryInv'
  BY <1>1, <1>2, EntryRests DEF PlaceInv
<1>5. QueueTypeOK' /\ QueueInv'
  BY <1>1, <1>2, UpQueues DEF PlaceInv
<1>6. StorageTypeOK' /\ HoldInv' /\ PollInv'
  BY <1>1, <1>2, ReferencesRest DEF PlaceInv
<1> QED
  BY <1>3, <1>4, <1>5, <1>6 DEF PlaceInv

\* The thread in join takes the result; the queues of the workers are others.
LEMMA JoinTakesKeeps ==
    ASSUME PlaceInv, JoinTakes
    PROVE  PlaceInv'
<1>1. /\ PopValue(JoinQueue) /\ joiner' = "joined"
      /\ UNCHANGED <<ownerVars, taskVars, entry, workerVars>>
  BY DEF JoinTakes
<1>2. ControlTypeOK' /\ EntryInv'
  BY <1>1 DEF PlaceInv, ControlTypeOK, EntryInv
<1>3. QueueTypeOK' /\ QueueInv' /\ \A r \in Queues \ {JoinQueue} : items'[r] = items[r]
  BY <1>1, UpQueues DEF PlaceInv
<1>4. StorageTypeOK' /\ HoldInv' /\ PollInv'
  BY <1>1, <1>3, ReferencesRest DEF PlaceInv
<1> QED
  BY <1>2, <1>3, <1>4 DEF PlaceInv

\* The notify after the unlock.
LEMMA NotifyKeeps ==
    ASSUME PlaceInv, NEW p \in Pushers, Notify(p)
    PROVE  PlaceInv'
<1>1. UNCHANGED <<items, state, ownerVars, taskVars, entryVars, workerVars>>
  BY DEF Notify, NotifyOne
<1>2. ControlTypeOK' /\ EntryInv'
  BY <1>1 DEF PlaceInv, ControlTypeOK, EntryInv
<1>3. /\ notify'[p] = NoQueue /\ \A r \in Pushers \ {p} : notify'[r] = notify[r]
      /\ notify[p] \in Queues /\ cv'[notify[p]] # "waiting"
      /\ \A q \in Queues : (cv'[q] = "off") <=> (cv[q] = "off")
      /\ \A q \in Queues \ {notify[p]} : cv'[q] = cv[q]
  BY DEF PlaceInv, QueueTypeOK, Notify, NotifyOne
<1>4. QueueTypeOK'
  BY <1>1 DEF PlaceInv, QueueTypeOK, Notify, NotifyOne
<1>5. NoLostNotify'
  BY <1>1, <1>3 DEF PlaceInv, QueueInv, NoLostNotify
<1>6. QueueInv'
  BY <1>1, <1>3, <1>5 DEF PlaceInv, QueueInv
<1>7. StorageTypeOK' /\ HoldInv' /\ PollInv'
  BY <1>1, ReferencesRest DEF PlaceInv
<1> QED
  BY <1>2, <1>4, <1>6, <1>7 DEF PlaceInv

(***************************************************************************)
(* References on their way.                                                  *)
(***************************************************************************)

\* pop_into_vec takes what fits.
LEMMA RefillKeeps ==
    ASSUME PlaceInv, NEW w \in Workers, Refill(w)
    PROVE  PlaceInv'
<1> DEFINE n == IF Len(items[w]) < LocalSize THEN Len(items[w]) ELSE LocalSize
<1> USE DEF PlaceInv
<1>1. /\ w \in Blocking /\ pos[w] = "drain" /\ local[w] = <<>>
      /\ items[w] \in Seq(Tasks \cup {EntryTask}) /\ Len(items[w]) \in Nat
  BY DEF Refill, QueueTypeOK
<1>2. /\ n \in 0..Len(items[w]) /\ n <= LocalSize /\ Len(SubSeq(items[w], 1, n)) = n
      /\ Batch(w, LocalSize) = SubSeq(items[w], 1, n)
      /\ items[w] = <<>> => n = 0
  BY <1>1 DEF Batch
<1> HIDE DEF n, PlaceInv
<1>3. /\ items' = [items EXCEPT ![w] = SubSeq(items[w], n + 1, Len(items[w]))]
      /\ local' = [local EXCEPT ![w] = SubSeq(items[w], 1, n)]
      /\ pos' = [pos EXCEPT ![w] = IF items[w] = <<>> THEN "block" ELSE "loop"]
      /\ UNCHANGED <<state, cv, notify, ownerVars, taskVars, entryVars, stopped>>
  BY <1>2, Zenon DEF Refill, PopIntoVec, Goto
<1>4. ControlTypeOK'
  BY <1>3 DEF PlaceInv, ControlTypeOK
<1>5. /\ pos'[w] \in {"block", "loop"}
      /\ pos'[w] = "block" => n = 0
      /\ \A v \in Workers \ {w} : pos'[v] = pos[v]
  BY <1>2, <1>3 DEF PlaceInv, ControlTypeOK
<1>6. /\ HoldInv' /\ StorageTypeOK'
      /\ items' \in [Queues -> Seq(Tasks \cup {EntryTask})]
      /\ \A q \in Queues : Len(items'[q]) <= Capacity[q]
  BY <1>1, <1>2, <1>3, <1>5, FetchHolds, Zenon DEF PlaceInv
<1>7. QueueTypeOK'
  BY <1>3, <1>6 DEF PlaceInv, QueueTypeOK
<1>8. cv[w] = "off" /\ \A q \in Queues \ {w} : items'[q] = items[q]
  BY <1>1, <1>3 DEF PlaceInv, QueueInv, QueueTypeOK
<1>9. NoLostNotify'
  BY <1>3, <1>8 DEF PlaceInv, QueueInv, NoLostNotify
<1>10. QueueInv'
  BY <1>1, <1>3, <1>5, <1>8, <1>9 DEF PlaceInv, QueueInv
<1>11. EntryInv'
  BY <1>1, <1>3, <1>5, EntryRests DEF PlaceInv
<1>12. PollInv'
  BY <1>1, <1>3, <1>5 DEF PlaceInv, PollInv
<1> QED
  BY <1>4, <1>6, <1>7, <1>10, <1>11, <1>12 DEF PlaceInv

\* pop_blocking gives one reference to a worker that had none.
LEMMA TakeOneKeeps ==
    ASSUME PlaceInv, NEW w \in Workers, TakeOne(w)
    PROVE  PlaceInv'
<1>1. /\ w \in Blocking /\ pos[w] = "block" /\ local[w] = <<>> /\ items[w] # <<>>
      /\ items[w] \in Seq(Tasks \cup {EntryTask}) /\ Len(items[w]) \in Nat
  BY DEF PlaceInv, TakeOne, PopValue, QueueTypeOK, HoldInv
<1>2. /\ 1 \in 0..Len(items[w]) /\ 1 <= LocalSize
      /\ Tail(items[w]) = SubSeq(items[w], 1 + 1, Len(items[w]))
      /\ <<Head(items[w])>> = SubSeq(items[w], 1, 1)
  BY <1>1
<1>3. /\ items' = [items EXCEPT ![w] = SubSeq(items[w], 1 + 1, Len(items[w]))]
      /\ local' = [local EXCEPT ![w] = SubSeq(items[w], 1, 1)]
      /\ pos' = [pos EXCEPT ![w] = "loop"] /\ PopValue(w)
      /\ UNCHANGED <<ownerVars, taskVars, entryVars, stopped>>
  BY <1>2, Zenon DEF TakeOne, PopValue, Goto
<1>4. ControlTypeOK'
  BY <1>3 DEF PlaceInv, ControlTypeOK
<1>5. pos'[w] = "loop" /\ \A v \in Workers \ {w} : pos'[v] = pos[v]
  BY <1>3 DEF PlaceInv, ControlTypeOK
<1>6. HoldInv' /\ StorageTypeOK'
  BY <1>1, <1>2, <1>3, <1>5, FetchHolds, Zenon DEF PlaceInv
<1>7. QueueTypeOK' /\ QueueInv'
  BY <1>1, <1>3, <1>5, UpQueues DEF PlaceInv
<1>8. EntryInv'
  BY <1>1, <1>3, <1>5, EntryRests DEF PlaceInv
<1>9. PollInv'
  BY <1>1, <1>3, <1>5 DEF PlaceInv, PollInv
<1> QED
  BY <1>4, <1>6, <1>7, <1>8, <1>9 DEF PlaceInv

\* The last reference of the local storage becomes a poll.
LEMMA RunTaskKeeps ==
    ASSUME PlaceInv, NEW w \in Workers, RunTask(w)
    PROVE  PlaceInv'
<1> DEFINE n == Len(local[w]) - 1
           t == local[w][Len(local[w])]
           front == SubSeq(local[w], 1, n)
           last == SubSeq(local[w], n + 1, Len(local[w]))
<1>1. /\ w \in Blocking /\ pos[w] = "drain" /\ local[w] # <<>> /\ running[w] = NoTask
      /\ local[w] \in Seq(Tasks) /\ Distinct(local[w]) /\ Len(local[w]) <= LocalSize
  BY DEF PlaceInv, RunTask, StorageTypeOK, HoldInv, PollInv
<1>2. /\ n \in 0..Len(local[w]) /\ t \in Tasks /\ n <= LocalSize /\ Len(local[w]) = n + 1
      /\ Len(local[w]) \in DOMAIN local[w]
  BY <1>1
<1>3. /\ front \in Seq(Tasks) /\ Len(front) = n /\ Distinct(front)
      /\ Elements(front) \cap Elements(last) = {}
      /\ Elements(front) \cup Elements(last) = Elements(local[w])
  BY ONLY <1>1, <1>2, CutList
<1>4. DOMAIN last = 1..1 /\ last[1] = t
  BY ONLY <1>1, <1>2
<1>5. /\ running' = [running EXCEPT ![w] = t] /\ task' = [task EXCEPT ![t] = "polled"]
      /\ local' = [local EXCEPT ![w] = front] /\ pos' = [pos EXCEPT ![w] = "poll"]
      /\ UNCHANGED <<queueVars, ownerVars, home, notified, entryVars, stopped>>
  BY <1>1 DEF RunTask, Goto, PlaceInv, ControlTypeOK
<1> HIDE DEF n, t, front, last
<1>6. Elements(last) = {t}
  BY <1>4 DEF Elements
<1>7. /\ t \in Waiting(w) /\ task[t] = "queued" /\ home[t] = w /\ t \notin Elements(items[w])
  <2>1. t \in Elements(local[w])
    BY <1>3, <1>6
  <2>2. Elements(items[w]) \cap Elements(local[w]) = {} /\ Elements(items[w]) \cup Elements(local[w]) = Waiting(w)
    BY <1>1 DEF PlaceInv, HoldInv
  <2>3. t \in Waiting(w) /\ t \notin Elements(items[w])
    BY <2>1, <2>2
  <2> QED
    BY <2>3 DEF Waiting
<1>8. ControlTypeOK'
  BY <1>2, <1>5 DEF PlaceInv, ControlTypeOK
<1>9. StorageTypeOK'
  BY <1>2, <1>3, <1>5, Zenon DEF PlaceInv, StorageTypeOK
<1>10. /\ pos'[w] = "poll" /\ running'[w] = t /\ task'[t] = "polled"
       /\ \A v \in Workers \ {w} : pos'[v] = pos[v] /\ running'[v] = running[v]
       /\ \A u \in Tasks \ {t} : task'[u] = task[u]
  BY <1>1, <1>2, <1>5 DEF PlaceInv, ControlTypeOK
<1>11. local'[w] = front /\ \A v \in Blocking \ {w} : local'[v] = local[v]
  BY <1>1, <1>5 DEF PlaceInv, StorageTypeOK
<1>12. QueueTypeOK' /\ QueueInv'
  <2>1. \A v \in Blocking : cv[v] # "off" => pos'[v] = pos[v]
    BY <1>1, <1>10 DEF PlaceInv, QueueInv
  <2> QED
    BY <1>5, <2>1, QueuesRest DEF PlaceInv
<1>13. EntryInv'
  BY <1>1, <1>5, <1>10, EntryRests DEF PlaceInv
<1>14. Waiting(w)' = Waiting(w) \ {t} /\ \A v \in Blocking \ {w} : Waiting(v)' = Waiting(v)
  BY <1>5, <1>7, <1>10 DEF Waiting
<1>15. ASSUME NEW v \in Blocking
       PROVE  /\ Distinct(items[v]) /\ Distinct(local'[v])
              /\ Elements(items[v]) \cap Elements(local'[v]) = {}
              /\ Elements(items[v]) \cup Elements(local'[v]) = Waiting(v)'
  <2>1. /\ Distinct(items[v]) /\ Distinct(local[v])
        /\ Elements(items[v]) \cap Elements(local[v]) = {}
        /\ Elements(items[v]) \cup Elements(local[v]) = Waiting(v)
    BY DEF PlaceInv, HoldInv
  <2>2. CASE v = w
    BY <1>3, <1>6, <1>7, <1>11, <1>14, <2>1, <2>2
  <2>3. CASE v # w
    BY <1>11, <1>14, <2>1, <2>3, Zenon
  <2> QED
    BY <2>2, <2>3
<1>16. HoldInv'
  BY <1>1, <1>5, <1>10, <1>11, <1>15, Zenon DEF PlaceInv, HoldInv
<1>17. PollInv'
  <2>1. \A v \in Blocking : running'[v] = NoTask <=> pos'[v] # "poll"
    BY <1>1, <1>2, <1>10, SMTT(20) DEF PlaceInv, PollInv
  <2>2. \A v \in Blocking : running'[v] # NoTask => task'[running'[v]] = "polled" /\ home'[running'[v]] = v
    BY <1>1, <1>5, <1>7, <1>10, SMTT(20) DEF PlaceInv, PollInv, ControlTypeOK
  <2>3. \A u \in Tasks : task'[u] = "polled" => home'[u] \in Blocking /\ running'[home'[u]] = u
    BY <1>1, <1>5, <1>7, <1>10, SMTT(20) DEF PlaceInv, PollInv
  <2>4. \A u \in Tasks : task'[u] = "new" <=> home'[u] = NoTask
    BY <1>5, <1>7, <1>10 DEF PlaceInv, PollInv
  <2> QED
    BY <2>1, <2>2, <2>3, <2>4 DEF PollInv
<1> QED
  BY <1>8, <1>9, <1>12, <1>13, <1>16, <1>17 DEF PlaceInv

\* A poll of a dedicated or safety worker ends, whatever becomes of the task.
LEMMA PollEnds ==
    ASSUME PlaceInv, NEW w \in Blocking, pos[w] = "poll",
           NEW x \in TaskStates \ {"new", "polled"}, task' = [task EXCEPT ![running[w]] = x],
           running' = [running EXCEPT ![w] = NoTask], pos' = [pos EXCEPT ![w] = "drain"],
           notified' = notified \ {running[w]},
           UNCHANGED <<ownerVars, home, entryVars, stopped, local>>
    PROVE  /\ running[w] \in Tasks /\ task[running[w]] = "polled" /\ home[running[w]] = w
           /\ cv[w] = "off" /\ notify[w] = NoQueue
           /\ task'[running[w]] = x /\ \A u \in Tasks \ {running[w]} : task'[u] = task[u]
           /\ \A v \in Blocking : pos'[v] = "block" => pos[v] = "block"
           /\ \A v \in Blocking : cv[v] # "off" => pos'[v] = pos[v]
           /\ ControlTypeOK' /\ StorageTypeOK' /\ EntryInv' /\ PollInv'
<1>1. /\ running[w] \in Tasks /\ task[running[w]] = "polled" /\ home[running[w]] = w
      /\ cv[w] = "off" /\ notify[w] = NoQueue
  BY DEF PlaceInv, PollInv, ControlTypeOK, QueueInv
<1>2. /\ running'[w] = NoTask /\ pos'[w] = "drain" /\ task'[running[w]] = x
      /\ \A v \in Workers \ {w} : pos'[v] = pos[v] /\ running'[v] = running[v]
      /\ \A u \in Tasks \ {running[w]} : task'[u] = task[u]
  BY <1>1 DEF PlaceInv, ControlTypeOK
<1>3. EntryInv'
  BY <1>2, EntryRests DEF PlaceInv
<1>4. PollInv'
  BY <1>1, <1>2 DEF PlaceInv, PollInv
<1>5. ControlTypeOK'
  BY <1>1 DEF PlaceInv, ControlTypeOK
<1>6. StorageTypeOK'
  BY DEF PlaceInv, StorageTypeOK
<1> QED
  BY <1>1, <1>2, <1>3, <1>4, <1>5, <1>6, Zenon

\* The poll answers Done.
LEMMA PollDoneKeeps ==
    ASSUME PlaceInv, NEW w \in Workers, PollDone(w)
    PROVE  PlaceInv'
<1>1. PICK x \in {"done", "idle"} :
        /\ w \in Blocking /\ pos[w] = "poll" /\ task' = [task EXCEPT ![running[w]] = x]
        /\ running' = [running EXCEPT ![w] = NoTask] /\ pos' = [pos EXCEPT ![w] = "drain"]
        /\ notified' = notified \ {running[w]}
        /\ UNCHANGED <<queueVars, ownerVars, home, entryVars, stopped, local>>
  BY DEF PollDone, Goto
<1>2. /\ running[w] \in Tasks /\ task[running[w]] = "polled" /\ home[running[w]] = w
      /\ cv[w] = "off" /\ notify[w] = NoQueue
      /\ task'[running[w]] = x /\ \A u \in Tasks \ {running[w]} : task'[u] = task[u]
      /\ \A v \in Blocking : pos'[v] = "block" => pos[v] = "block"
      /\ \A v \in Blocking : cv[v] # "off" => pos'[v] = pos[v]
      /\ ControlTypeOK' /\ StorageTypeOK' /\ EntryInv' /\ PollInv'
  BY ONLY PlaceInv, <1>1, PollEnds, Zenon DEF TaskStates, queueVars
<1>3. QueueTypeOK' /\ QueueInv'
  BY <1>1, <1>2, QueuesRest, Zenon DEF PlaceInv
<1>4. HoldInv'
  <2>1. \A u \in Tasks : task[u] = "queued" <=> task'[u] = "queued"
    BY <1>2
  <2> QED
    BY <1>1, <1>2, <2>1, HoldRests DEF PlaceInv
<1> QED
  BY <1>2, <1>3, <1>4 DEF PlaceInv

\* The poll answers Notified: to the end of the queue, or lost.
LEMMA PollNotifiedKeeps ==
    ASSUME PlaceInv, NEW w \in Workers, PollNotified(w)
    PROVE  PlaceInv'
<1>1. PICK x \in {"lost", "queued"} :
        /\ w \in Blocking /\ pos[w] = "poll" /\ task' = [task EXCEPT ![running[w]] = x]
        /\ running' = [running EXCEPT ![w] = NoTask] /\ pos' = [pos EXCEPT ![w] = "drain"]
        /\ notified' = notified \ {running[w]}
        /\ UNCHANGED <<ownerVars, home, entryVars, stopped, local>>
        /\ \/ x = "lost" /\ UNCHANGED queueVars
           \/ x = "queued" /\ Push(w, w, running[w])
  BY DEF PollNotified, Goto
<1>2. /\ running[w] \in Tasks /\ task[running[w]] = "polled" /\ home[running[w]] = w
      /\ cv[w] = "off" /\ notify[w] = NoQueue
      /\ task'[running[w]] = x /\ \A u \in Tasks \ {running[w]} : task'[u] = task[u]
      /\ \A v \in Blocking : pos'[v] = "block" => pos[v] = "block"
      /\ \A v \in Blocking : cv[v] # "off" => pos'[v] = pos[v]
      /\ ControlTypeOK' /\ StorageTypeOK' /\ EntryInv' /\ PollInv'
  BY ONLY PlaceInv, <1>1, PollEnds, Zenon DEF TaskStates, queueVars
<1>3. CASE x = "lost" /\ UNCHANGED queueVars
  <2>1. QueueTypeOK' /\ QueueInv'
    BY <1>1, <1>2, <1>3, QueuesRest DEF PlaceInv
  <2>2. \A u \in Tasks : task[u] = "queued" <=> task'[u] = "queued"
    BY <1>2, <1>3, Zenon
  <2>3. HoldInv'
    BY <1>1, <1>2, <1>3, <2>2, HoldRests, SMTT(20) DEF PlaceInv
  <2> QED
    BY <1>2, <2>1, <2>3, Zenon DEF PlaceInv
<1>4. CASE x = "queued" /\ Push(w, w, running[w])
  <2>1. QueueTypeOK' /\ QueueInv'
    BY <1>1, <1>2, <1>4, PushQueues DEF PlaceInv
  <2>2. HoldInv'
    BY <1>1, <1>2, <1>4, PushHolds, Zenon DEF PlaceInv
  <2> QED
    BY <1>2, <2>1, <2>2 DEF PlaceInv
<1> QED
  BY <1>1, <1>3, <1>4

(***************************************************************************)
(* Spawning, waking, the result of the entry task.                           *)
(***************************************************************************)

\* A reference goes to the queue of a worker, or a full queue refuses it.
LEMMA GivenOrRefused ==
    ASSUME PlaceInv, NEW p \in Producers, NEW t \in Tasks, NEW w \in Blocking,
           notify[p] = NoQueue, task[t] \notin {"queued", "polled"},
           NEW x \in {"queued", "lost", "refused"}, task' = [task EXCEPT ![t] = x],
           home'[t] = w, \A u \in Tasks \ {t} : home'[u] = home[u],
           home' \in [Tasks -> Blocking \cup {NoTask}],
           x = "queued" => Push(p, w, t), x # "queued" => UNCHANGED queueVars,
           UNCHANGED <<ownerVars, running, notified, entryVars, workerVars>>
    PROVE  PlaceInv'
<1>1. task'[t] = x /\ \A u \in Tasks \ {t} : task'[u] = task[u]
  BY DEF PlaceInv, ControlTypeOK
<1>2. ControlTypeOK'
  <2>1. task' \in [Tasks -> TaskStates]
    BY DEF PlaceInv, ControlTypeOK
  <2> QED
    BY <2>1 DEF PlaceInv, ControlTypeOK
<1>3. StorageTypeOK' /\ EntryInv'
  BY DEF PlaceInv, StorageTypeOK, EntryInv
<1>4. PollInv'
  <2>1. \A v \in Blocking : running[v] # t
    BY DEF PlaceInv, PollInv
  <2> QED
    BY <1>1, <2>1 DEF PlaceInv, PollInv, ControlTypeOK
<1>5. CASE x = "queued"
  <2>1. Push(p, w, t) /\ p \notin Workers
    BY <1>5
  <2>2. QueueTypeOK' /\ QueueInv'
    BY <2>1, PushQueues DEF PlaceInv
  <2>3. HoldInv'
    BY <1>5, <2>1, PushHolds, Zenon DEF PlaceInv
  <2> QED
    BY <1>2, <1>3, <1>4, <2>2, <2>3 DEF PlaceInv
<1>6. CASE x # "queued"
  <2>1. UNCHANGED queueVars
    BY <1>6
  <2>2. QueueTypeOK' /\ QueueInv'
    BY <2>1, QueuesRest, Zenon DEF PlaceInv
  <2>3. HoldInv'
    BY <1>1, <1>6, <2>1, HoldRests DEF PlaceInv
  <2> QED
    BY <1>2, <1>3, <1>4, <2>2, <2>3 DEF PlaceInv
<1> QED
  BY <1>5, <1>6

\* A task is spawned to a worker.
LEMMA SpawnOnKeeps ==
    ASSUME PlaceInv, NEW p \in Producers, NEW t \in Tasks, NEW w \in Blocking, SpawnOn(p, t, w)
    PROVE  PlaceInv'
<1>1. /\ notify[p] = NoQueue /\ task[t] = "new" /\ home' = [home EXCEPT ![t] = w]
      /\ UNCHANGED <<ownerVars, running, notified, entryVars, workerVars>>
  BY DEF SpawnOn
<1>2. /\ home'[t] = w /\ \A u \in Tasks \ {t} : home'[u] = home[u]
      /\ home' \in [Tasks -> Blocking \cup {NoTask}]
  BY <1>1 DEF PlaceInv, ControlTypeOK
<1>3. PICK x \in {"queued", "lost", "refused"} :
        /\ task' = [task EXCEPT ![t] = x]
        /\ x = "queued" => Push(p, w, t)
        /\ x # "queued" => UNCHANGED queueVars
  BY DEF SpawnOn
<1> QED
  BY ONLY PlaceInv, <1>1, <1>2, <1>3, GivenOrRefused, Zenon

\* An idle task is woken into the queue of its worker, or lost; a polled one is marked.
LEMMA WakeKeeps ==
    ASSUME PlaceInv, NEW p \in Producers, NEW t \in Tasks, Wake(p, t)
    PROVE  PlaceInv'
<1>1. /\ notify[p] = NoQueue
      /\ UNCHANGED <<ownerVars, home, running, entryVars, workerVars>>
  BY DEF Wake
<1>2. CASE notified' = notified \cup {t} /\ UNCHANGED <<task, queueVars>>
  <2>1. ControlTypeOK' /\ EntryInv'
    BY <1>1, <1>2 DEF PlaceInv, ControlTypeOK, EntryInv
  <2> QED
    BY <1>1, <1>2, <2>1, QuietKeeps
<1>3. CASE task[t] = "idle" /\ UNCHANGED notified
  <2>1. home[t] \in Blocking /\ home' \in [Tasks -> Blocking \cup {NoTask}]
    BY <1>1, <1>3 DEF PlaceInv, PollInv, ControlTypeOK
  <2>2. PICK x \in {"queued", "lost", "refused"} :
          /\ task' = [task EXCEPT ![t] = x]
          /\ x = "queued" => Push(p, home[t], t)
          /\ x # "queued" => UNCHANGED queueVars
    BY <1>3 DEF Wake
  <2> QED
    BY ONLY PlaceInv, <1>1, <1>3, <2>1, <2>2, GivenOrRefused, Zenon
<1> QED
  BY <1>2, <1>3 DEF Wake

\* The wrapper of the entry task pushes the result; the workers' queues are others.
LEMMA EntryDoneKeeps ==
    ASSUME PlaceInv, NEW w \in AsyncWorkers, EntryDone(w)
    PROVE  PlaceInv'
<1>1. /\ pos[w] = "poll" /\ pos' = [pos EXCEPT ![w] = "loop"] /\ entry' = "done"
      /\ Push(w, JoinQueue, EntryTask)
      /\ UNCHANGED <<ownerVars, taskVars, joiner, stopped, local>>
  BY DEF EntryDone, Goto
<1>2. pos'[w] = "loop" /\ \A v \in Workers \ {w} : pos'[v] = pos[v]
  BY <1>1 DEF PlaceInv, ControlTypeOK
<1>3. ControlTypeOK'
  BY <1>1 DEF PlaceInv, ControlTypeOK
<1>4. EntryInv' /\ notify[w] = NoQueue
  BY <1>1, <1>2 DEF PlaceInv, EntryInv, QueueInv
<1>5. QueueTypeOK' /\ QueueInv'
  BY <1>1, <1>2, <1>4, PushQueues DEF PlaceInv
<1>6. \A v \in Blocking : items'[v] = items[v]
  BY <1>1 DEF Push, PlaceInv, QueueTypeOK
<1>7. StorageTypeOK' /\ HoldInv' /\ PollInv'
  BY <1>1, <1>2, <1>6, ReferencesRest DEF PlaceInv
<1> QED
  BY <1>3, <1>4, <1>5, <1>7 DEF PlaceInv

(***************************************************************************)
(* The induction.                                                            *)
(***************************************************************************)

\* A new engine.
LEMMA PlaceInit == Init => PlaceInv
<1> SUFFICES ASSUME Init PROVE PlaceInv
  OBVIOUS
<1>1. QueueTypeOK /\ StorageTypeOK
  BY DEF Init, QueueInit, QueueTypeOK, StorageTypeOK
<1>2. ControlTypeOK
  BY DEF Init, ControlTypeOK
<1>3. QueueInv /\ EntryInv
  BY DEF Init, QueueInit, QueueInv, NoLostNotify, EntryInv
<1>4. Distinct(<<>>) /\ Elements(<<>>) = {} /\ \A w \in Blocking : Waiting(w) = {}
  BY DEF Init, Distinct, Elements, Waiting
<1>5. HoldInv
  BY <1>4 DEF Init, QueueInit, HoldInv
<1>6. PollInv
  BY DEF Init, PollInv
<1> QED
  BY <1>1, <1>2, <1>3, <1>5, <1>6 DEF PlaceInv

\* The invariant holds whatever thread takes a step.
LEMMA PlaceStep == PlaceInv /\ [Next]_vars => PlaceInv'
<1> SUFFICES ASSUME PlaceInv, [Next]_vars PROVE PlaceInv'
  OBVIOUS
<1>1. ASSUME NEW w \in Workers, WorkerStep(w) \/ StopIsLost(w) \/ SleepEnds(w) PROVE PlaceInv'
  <2>1. CASE Report(w)
    BY <2>1, ReportKeeps, OwnerKeeps DEF Report
  <2>2. CASE QueueLoop(w)
    <3>1. CASE Block(w) \/ BlockAgain(w)
      BY <3>1, BlockKeeps DEF Block, BlockAgain
    <3>2. CASE BlockTimeout(w)
      BY <3>2, BlockTimeoutKeeps DEF BlockTimeout
    <3> QED
      BY <2>2, <3>1, <3>2, RunTaskKeeps, PollDoneKeeps, PollNotifiedKeeps, RefillKeeps, TakeOneKeeps
         DEF QueueLoop
  <2>3. CASE w \in AsyncWorkers /\ (PollEntry(w) \/ EntryDone(w) \/ EntryPending(w))
    BY <2>3, EntryKeeps, EntryDoneKeeps
  <2> QED
    BY <1>1, <2>1, <2>2, <2>3, ReportKeeps DEF WorkerStep, RunAsync, RunDedicated, RunSafety
<1>2. CASE OwnerStep \/ Join
  <2>1. ASSUME NEW w \in Workers, StartWorker(w) PROVE PlaceInv'
    BY <2>1, ReportKeeps DEF StartWorker, StartSafety, StartAsync, StartDedicated
  <2> QED
    BY <1>2, <2>1, OwnerKeeps DEF OwnerStep
<1>3. CASE JoinBlocks \/ JoinTakes
  BY <1>3, BlockKeeps, JoinTakesKeeps
<1>4. ASSUME NEW p \in Pushers, Notify(p) PROVE PlaceInv'
  BY <1>4, NotifyKeeps
<1>5. ASSUME NEW p \in Producers, NEW t \in Tasks, Wake(p, t) \/ \E w \in Blocking : SpawnOn(p, t, w)
      PROVE  PlaceInv'
  BY <1>5, WakeKeeps, SpawnOnKeeps
<1>6. CASE UNCHANGED vars
  <2>1. ControlTypeOK' /\ EntryInv'
    BY <1>6 DEF vars, PlaceInv, ControlTypeOK, EntryInv
  <2> QED
    BY <1>6, <2>1, QuietKeeps DEF vars
<1> QED
  BY <1>1, <1>2, <1>3, <1>4, <1>5, <1>6 DEF Next

\* Sleepers are owed a notify and references are in their places, always.
THEOREM PlacesKept == Spec => []PlaceInv
  BY PlaceInit, PlaceStep, PTL DEF Spec
=============================================================================
