---------------------------- MODULE Parts_proofs ----------------------------
(***************************************************************************)
(* The task list is a queue, the stack and the pool of entries are a       *)
(* sequence and a set, and the route table finds the longest match, loses  *)
(* no route and gives each a key of its own, for any sizes.  Each part has *)
(* its invariant; the abstract queue and store are shown to be implemented *)
(* step by step.                                                           *)
(***************************************************************************)
EXTENDS Parts, SequenceTheorems, FiniteSetTheorems, NaturalsInduction, TLAPS

TaskTypes == fifo \in Seq(Tasks) /\ m_next \in [Tasks -> Tasks \cup {NoTask}]

TaskInv == TaskTypes /\ T!Represents

\* In the list: isWaiting tells exactly the tasks of fifo.
LEMMA WaitingIsInFifo ==
  ASSUME TaskInv, NEW id \in Tasks
  PROVE  T!isWaiting(id) <=> \E i \in 1 .. Len(fifo) : fifo[i] = id
<1>1. ASSUME NEW i \in 1 .. Len(fifo), fifo[i] = id  PROVE T!isWaiting(id)
  <2>1. CASE i < Len(fifo)
    <3>1. fifo[i + 1] \in Tasks
      BY <2>1, <1>1 DEF TaskInv, TaskTypes
    <3>2. m_next[id] = fifo[i + 1]
      BY <2>1, <1>1 DEF TaskInv, T!Represents
    <3> QED BY <3>1, <3>2, PartsAssumption DEF T!TasksAssumption, T!isWaiting
  <2>2. CASE i = Len(fifo)
    <3>1. fifo # <<>>
      BY <1>1 DEF TaskInv, TaskTypes
    <3>2. m_tail = id
      BY <2>2, <1>1, <3>1 DEF TaskInv, T!Represents
    <3> QED BY <3>2 DEF T!isWaiting
  <2> QED BY <1>1, <2>1, <2>2 DEF TaskInv, TaskTypes
<1>2. ASSUME T!isWaiting(id), \A i \in 1 .. Len(fifo) : fifo[i] # id  PROVE FALSE
  <2>1. m_next[id] = NoTask
    BY <1>2 DEF TaskInv, T!Represents
  <2>2. m_tail = id
    BY <1>2, <2>1 DEF T!isWaiting
  <2>3. fifo # <<>>
    BY <2>2, PartsAssumption DEF TaskInv, T!Represents, T!TasksAssumption
  <2>4. Len(fifo) \in 1 .. Len(fifo)
    BY <2>3 DEF TaskInv, TaskTypes
  <2> QED BY <1>2, <2>2, <2>3, <2>4 DEF TaskInv, T!Represents
<1> QED BY <1>1, <1>2

LEMMA TaskInitInv == ASSUME T!Init  PROVE TaskInv
BY PartsAssumption DEF T!Init, TaskInv, TaskTypes, T!Represents, T!TasksAssumption

\* A task that does not wait joins the list at its tail.
LEMMA PostTaskInv ==
  ASSUME TaskInv, NEW id \in Tasks, T!PostTask(id),
         ~T!isWaiting(id)
  PROVE  TaskInv'
<1>1. /\ fifo' = Append(fifo, id)
      /\ m_tail' = id
      /\ IF m_head = NoTask THEN m_head' = id /\ m_next' = m_next
         ELSE m_next' = [m_next EXCEPT ![m_tail] = id] /\ m_head' = m_head
  BY DEF T!PostTask
<1>2. /\ \A i \in 1 .. Len(fifo) : fifo[i] # id
      /\ m_next[id] = NoTask /\ m_tail # id
  BY WaitingIsInFifo DEF T!isWaiting
<1>3. /\ fifo \in Seq(Tasks)
      /\ m_next \in [Tasks -> Tasks \cup {NoTask}]
  BY DEF TaskInv, TaskTypes
<1>4. CASE fifo = <<>>
  <2>1. m_head = NoTask
    BY <1>4 DEF TaskInv, T!Represents
  <2>2. fifo' = <<id>> /\ m_head' = id /\ m_next' = m_next
    BY <1>1, <1>4, <2>1
  <2>3. TaskTypes'
    BY <2>2, <1>3 DEF TaskTypes
  <2>4. \A t \in Tasks : m_next[t] = NoTask
    BY <1>4 DEF TaskInv, T!Represents
  <2>5. T!Represents'
    BY <2>2, <2>4, <1>1 DEF T!Represents
  <2> QED BY <2>3, <2>5 DEF TaskInv
<1>5. CASE fifo # <<>>
  <2> DEFINE n == Len(fifo)
  <2>1. n \in Nat \ {0} /\ fifo[1] \in Tasks /\ fifo[n] \in Tasks
    BY <1>3, <1>5
  <2>2. m_head = fifo[1] /\ m_tail = fifo[n]
    BY <1>5 DEF TaskInv, T!Represents
  <2>3. m_head # NoTask
    BY <2>1, <2>2, PartsAssumption DEF T!TasksAssumption
  <2>4. m_next' = [m_next EXCEPT ![m_tail] = id] /\ m_head' = m_head
    BY <2>3, <1>1
  <2>5. /\ Len(fifo') = n + 1 /\ fifo'[n + 1] = id
        /\ \A i \in 1 .. n : fifo'[i] = fifo[i]
        /\ fifo' \in Seq(Tasks) /\ fifo' # <<>>
    BY <1>1, <1>3, <2>1
  <2>6. TaskTypes'
    BY <2>4, <2>5, <1>3 DEF TaskTypes
  <2>7. \A i, j \in 1 .. n + 1 : fifo'[i] = fifo'[j] => i = j
    BY <2>5, <2>1, <1>2 DEF TaskInv, T!Represents
  <2>8. ASSUME NEW i \in 1 .. n + 1
        PROVE  m_next'[fifo'[i]] = IF i < n + 1 THEN fifo'[i + 1] ELSE NoTask
    <3>1. CASE i = n + 1
      BY <3>1, <2>4, <2>5, <2>1, <2>2, <1>2, <1>3
    <3>2. CASE i = n
      BY <3>2, <2>4, <2>5, <2>1, <2>2, <1>3
    <3>3. CASE i < n
      <4>1. fifo[i] # fifo[n] /\ fifo[i] \in Tasks
        BY <3>3, <2>1, <1>3 DEF TaskInv, T!Represents
      <4>2. m_next[fifo[i]] = fifo[i + 1]
        BY <3>3, <2>1 DEF TaskInv, T!Represents
      <4> QED BY <4>1, <4>2, <3>3, <2>4, <2>5, <2>1, <2>2, <1>3
    <3> QED BY <3>1, <3>2, <3>3, <2>1
  <2>9. ASSUME NEW t \in Tasks, \A i \in 1 .. n + 1 : fifo'[i] # t
        PROVE  m_next'[t] = NoTask
    <3>1. \A i \in 1 .. n : fifo[i] # t
      BY <2>9, <2>5, <2>1
    <3>2. m_next[t] = NoTask /\ t # m_tail
      BY <3>1, <2>1, <2>2 DEF TaskInv, T!Represents
    <3> QED BY <3>2, <2>4, <1>3
  <2>10. m_head' = fifo'[1] /\ m_tail' = fifo'[n + 1]
    BY <2>1, <2>2, <2>4, <2>5, <1>1
  <2>11. T!Represents'
    BY <2>5, <2>7, <2>8, <2>9, <2>10 DEF T!Represents
  <2> QED BY <2>6, <2>11 DEF TaskInv
<1> QED BY <1>4, <1>5

\* The head leaves the list; its successor becomes the head.
LEMMA RunTaskInv ==
  ASSUME TaskInv, T!RunNextTask
  PROVE  TaskInv' /\ fifo # <<>> /\ m_head = fifo[1]
<1> DEFINE n == Len(fifo)
<1>1. fifo # <<>>
  BY DEF T!RunNextTask, TaskInv, T!Represents
<1>2. /\ fifo \in Seq(Tasks) /\ n \in Nat \ {0} /\ fifo[1] \in Tasks
      /\ m_next \in [Tasks -> Tasks \cup {NoTask}]
  BY <1>1 DEF TaskInv, TaskTypes
<1>3. m_head = fifo[1] /\ m_tail = fifo[n]
  BY <1>1 DEF TaskInv, T!Represents
<1>4. /\ fifo' = Tail(fifo) /\ m_head' = m_next[m_head]
      /\ m_tail' = IF m_next[m_head] = NoTask THEN NoTask ELSE m_tail
      /\ m_next' = [m_next EXCEPT ![m_head] = NoTask]
  BY DEF T!RunNextTask
<1>5. /\ fifo' \in Seq(Tasks) /\ Len(fifo') = n - 1
      /\ \A i \in 1 .. n - 1 : fifo'[i] = fifo[i + 1]
  BY <1>1, <1>2, <1>4
<1>6. TaskTypes'
  BY <1>2, <1>4, <1>5 DEF TaskTypes
<1>7. \A i, j \in 1 .. n : fifo[i] = fifo[j] => i = j
  BY DEF TaskInv, T!Represents
<1>8. \A i, j \in 1 .. n - 1 : fifo'[i] = fifo'[j] => i = j
  BY <1>2, <1>5, <1>7
<1>9. n # 1 => 1 < n /\ 2 \in 1 .. n
  <2>1. n \in Nat \ {0}
    BY <1>2
  <2> HIDE DEF n
  <2> QED BY <2>1
<1>10. n # 1 => fifo[2] \in Tasks
  BY <1>2, <1>9
<1>successor. m_next[m_head] = IF n = 1 THEN NoTask ELSE fifo[2]
  <2>1. 1 \in 1 .. n
    BY <1>2
  <2>2. m_next[fifo[1]] = IF 1 < n THEN fifo[1 + 1] ELSE NoTask
    BY <2>1 DEF TaskInv, T!Represents
  <2> HIDE DEF n
  <2> QED BY <2>2, <1>3, <1>9
<1>11. fifo' = <<>> <=> n = 1
  BY <1>2, <1>5
<1>12. m_head' = IF fifo' = <<>> THEN NoTask ELSE fifo'[1]
  BY <1>2, <1>4, <1>5, <1>successor, <1>9, <1>11
<1>13. m_tail' = IF fifo' = <<>> THEN NoTask ELSE fifo'[Len(fifo')]
  <2>1. CASE n = 1
    BY <2>1, <1>4, <1>successor, <1>11
  <2>2. CASE n # 1
    <3>1. m_tail' = fifo[n]
      BY <2>2, <1>3, <1>4, <1>successor, <1>10, PartsAssumption DEF T!TasksAssumption
    <3>2. fifo'[n - 1] = fifo[n]
      BY <2>2, <1>2, <1>5
    <3> QED BY <3>1, <3>2, <2>2, <1>5, <1>11
  <2> QED BY <2>1, <2>2
<1>14. ASSUME NEW i \in 1 .. n - 1
       PROVE  m_next'[fifo'[i]] = IF i < n - 1 THEN fifo'[i + 1] ELSE NoTask
  <2>1. /\ i + 1 \in 1 .. n /\ 1 \in 1 .. n /\ i + 1 # 1
        /\ fifo'[i] = fifo[i + 1]
    BY <1>2, <1>5
  <2>2. fifo[i + 1] # fifo[1] /\ fifo[i + 1] \in Tasks
    BY <2>1, <1>2, <1>7
  <2>3. m_next'[fifo'[i]] = m_next[fifo[i + 1]]
    BY <2>1, <2>2, <1>2, <1>3, <1>4
  <2>4. m_next[fifo[i + 1]] = IF i + 1 < n THEN fifo[i + 1 + 1] ELSE NoTask
    BY <2>1 DEF TaskInv, T!Represents
  <2>5. i < n - 1 => fifo'[i + 1] = fifo[i + 1 + 1]
    BY <1>2, <1>5
  <2>6. i < n - 1 <=> i + 1 < n
    BY <1>2
  <2> QED BY <2>3, <2>4, <2>5, <2>6
<1>15. ASSUME NEW t \in Tasks, \A i \in 1 .. n - 1 : fifo'[i] # t
       PROVE  m_next'[t] = NoTask
  <2>1. CASE t = fifo[1]
    BY <2>1, <1>2, <1>3, <1>4
  <2>2. CASE t # fifo[1]
    <3>1. ASSUME NEW i \in 1 .. n  PROVE fifo[i] # t
      <4>1. CASE i = 1
        BY <4>1, <2>2
      <4>2. CASE i # 1
        <5>1. i - 1 \in 1 .. n - 1 /\ (i - 1) + 1 = i
          BY <4>2, <1>2
        <5> QED BY <5>1, <1>5, <1>15
      <4> QED BY <4>1, <4>2
    <3>2. m_next[t] = NoTask
      BY <3>1 DEF TaskInv, T!Represents
    <3> QED BY <3>2, <2>2, <1>2, <1>3, <1>4
  <2> QED BY <2>1, <2>2
<1>16. T!Represents'
  BY <1>5, <1>8, <1>12, <1>13, <1>14, <1>15 DEF T!Represents
<1> QED BY <1>1, <1>3, <1>6, <1>16 DEF TaskInv

LEMMA TaskNextInv == ASSUME TaskInv, [T!Next]_(T!vars)  PROVE TaskInv'
<1>1. CASE T!RunNextTask
  BY <1>1, RunTaskInv
<1>2. ASSUME NEW id \in Tasks, T!PostTask(id), ~T!isWaiting(id)  PROVE TaskInv'
  BY <1>2, PostTaskInv
<1>3. CASE UNCHANGED <<m_head, m_tail, m_next, fifo>>
  BY <1>3 DEF TaskInv, TaskTypes, T!Represents
<1>4. \/ T!RunNextTask
      \/ \E id \in Tasks : T!PostTask(id) /\ ~T!isWaiting(id)
      \/ UNCHANGED <<m_head, m_tail, m_next, fifo>>
  BY DEF T!Next, T!RunNothing, T!PostTask, T!vars
<1> QED BY <1>1, <1>2, <1>3, <1>4

\* A step of the list is a step of the queue, or changes nothing of it.
LEMMA TaskStepRefines ==
  ASSUME TaskInv, [T!Next]_(T!vars)
  PROVE  [T!Abstract!Next]_<<fifo, ret>>
<1>1. CASE T!RunNextTask
  <2>1. fifo # <<>> /\ m_head = fifo[1] /\ fifo \in Seq(Tasks)
    BY <1>1, RunTaskInv DEF TaskInv, TaskTypes
  <2>2. ret' = Head(fifo) /\ fifo' = Tail(fifo)
    BY <1>1, <2>1 DEF T!RunNextTask
  <2> QED BY <2>1, <2>2 DEF T!Abstract!Next, T!Abstract!Run
<1>2. CASE T!RunNothing
  <2>1. fifo = <<>>
    <3>1. fifo # <<>> => fifo[1] \in Tasks
      BY DEF TaskInv, TaskTypes
    <3> QED BY <3>1, <1>2, PartsAssumption DEF T!RunNothing, TaskInv, T!Represents, T!TasksAssumption
  <2> QED BY <1>2, <2>1 DEF T!RunNothing, T!Abstract!Next, T!Abstract!Run
<1>3. ASSUME NEW id \in Tasks, T!PostTask(id)
      PROVE  [T!Abstract!Next]_<<fifo, ret>>
  <2>1. T!isWaiting(id) <=> T!Abstract!Waits(id)
    BY WaitingIsInFifo DEF T!Abstract!Waits
  <2>2. T!Abstract!Post(id)
    BY <1>3, <2>1 DEF T!PostTask, T!Abstract!Post
  <2> QED BY <2>2 DEF T!Abstract!Next
<1>4. CASE UNCHANGED T!vars
  BY <1>4 DEF T!vars
<1> QED BY <1>1, <1>2, <1>3, <1>4 DEF T!Next

\* What is not the task list leaves it alone.
LEMMA TaskSteps == [PartsNext]_allVars => [T!Next]_(T!vars)
BY DEF PartsNext, TaskStep, EntryStep, HeapStep, RouteStep, ofTasks, T!vars,
       allVars

\* For any number of tasks SchedulerBasicP serves them in the order of their
\* posts, holds each at most once, and answers EBUSY exactly to a task that
\* waits: the list implements the queue of TaskQueue.
THEOREM ListImplementsQueue == PartsSpec => TasksInOrder
<1>1. PartsInit => TaskInv /\ T!Abstract!Init
  BY TaskInitInv DEF PartsInit, T!Init, T!Abstract!Init
<1>2. TaskInv /\ [PartsNext]_allVars => TaskInv'
  BY TaskSteps, TaskNextInv
<1>3. TaskInv /\ [PartsNext]_allVars => [T!Abstract!Next]_<<fifo, ret>>
  BY TaskSteps, TaskStepRefines
<1> QED
  BY <1>1, <1>2, <1>3, PTL
     DEF PartsSpec, TasksInOrder, T!ImplementsQueue, T!Abstract!Spec
-----------------------------------------------------------------------------
(* The route table.                                                        *)

\* The invariant: entries have their type, and the table is Sorted.
IsEntry(r) ==
  /\ r = [valid |-> r.valid, key |-> r.key, prefix |-> r.prefix,
          hop |-> r.hop]
  /\ r.valid \in BOOLEAN
  /\ r.prefix \in Seq(Bytes)

RouteTypes ==
  /\ table = [i \in R!Slots |-> table[i]]
  /\ \A i \in R!Slots : IsEntry(table[i])
  /\ adds \in Nat

RouteInv == RouteTypes /\ R!Sorted

LEMMA SlotFacts ==
  /\ TableSize \in Nat \ {0} /\ MaxLen \in Nat \ {0}
  /\ R!Slots = 1 .. TableSize
BY PartsAssumption DEF R!TableAssumption, R!Slots

LEMMA PrefixFacts == ASSUME NEW p \in R!Prefixes  PROVE p \in Seq(Bytes)
BY DEF R!Prefixes

LEMMA LeastFacts ==
  ASSUME NEW I, I \subseteq Nat, I # {}
  PROVE  \E i \in I : \A j \in I : i <= j
<1>1. \E i \in I : \A j \in I : ~(<<j, i>> \in OpToRel(<, Nat))
  BY WFMin, NatLessThanWellFounded, Zenon
<1>2. PICK i \in I : \A j \in I : ~(<<j, i>> \in OpToRel(<, Nat))
  BY <1>1
<1>3. ASSUME NEW j \in I  PROVE i <= j
  <2>1. i \in Nat /\ j \in Nat
    OBVIOUS
  <2>2. ~(j < i)
    BY <1>2, <2>1 DEF OpToRel
  <2> QED BY <2>1, <2>2
<1> QED BY <1>3

\* Searches find the first entry of those they look for.
LEMMA FirstFacts ==
  ASSUME NEW I, I \subseteq R!Slots, I # {}
  PROVE  /\ R!First(I) \in I
         /\ \A j \in I : R!First(I) <= j
<1>1. I \subseteq Nat
  BY SlotFacts
<1>2. \E i \in I : \A j \in I : i <= j
  BY <1>1, LeastFacts
<1> QED BY <1>2 DEF R!First

\* lookupRoute finds a valid entry, if it finds one.
LEMMA LookupFacts ==
  ASSUME NEW p, R!lookupRoute(p) # 0
  PROVE  /\ R!lookupRoute(p) \in R!Matches(p)
         /\ R!lookupRoute(p) \in R!Slots
         /\ table[R!lookupRoute(p)].valid
<1>1. R!Matches(p) \subseteq R!Slots /\ \A i \in R!Matches(p) : table[i].valid
  BY DEF R!Matches, R!Valid
<1>2. R!Matches(p) # {} /\ R!lookupRoute(p) = R!First(R!Matches(p))
  BY DEF R!lookupRoute
<1> QED BY <1>1, <1>2, FirstFacts

\* The entry that an update overwrites keeps its place.
LEMMA UpdateFacts ==
  ASSUME RouteTypes, NEW p \in R!Prefixes, NEW h, R!AddUpdates(p, h)
  PROVE  \E i \in R!Slots :
           /\ table' = [table EXCEPT ![i] = table'[i]]
           /\ table[i].valid /\ IsEntry(table'[i]) /\ table'[i].valid
           /\ Len(table'[i].prefix) = Len(table[i].prefix)
           /\ table'[i].key = table[i].key
<1> DEFINE i == R!lookupRoute(p)
           e == [[table[i] EXCEPT !.prefix = p] EXCEPT !.hop = R!HopIn(i, h)]
<1>1. i # 0 /\ Len(table[i].prefix) = Len(p)
  BY DEF R!AddUpdates, R!Known
<1>2. i \in R!Slots /\ table[i].valid
  BY <1>1, LookupFacts
<1>3. table' = [table EXCEPT ![i].prefix = p, ![i].hop = R!HopIn(i, h)]
  BY DEF R!AddUpdates
<1>4. IsEntry(table[i]) /\ p \in Seq(Bytes)
  BY <1>2, PrefixFacts DEF RouteTypes
<1> HIDE DEF i
<1>5. table' = [table EXCEPT ![i] = e]
  BY <1>2, <1>3 DEF RouteTypes
<1>6. IsEntry(e) /\ e.valid /\ e.prefix = p /\ e.key = table[i].key
  <2>1. PICK v, k, q, g : table[i] = [valid |-> v, key |-> k, prefix |-> q,
                                      hop |-> g]
    BY <1>4 DEF IsEntry
  <2> DEFINE x == R!HopIn(i, h)
             r == [valid |-> v, key |-> k, prefix |-> p, hop |-> g]
  <2>2. e = [valid |-> v, key |-> k, prefix |-> p, hop |-> x]
    <3>1. e = [[table[i] EXCEPT !.prefix = p] EXCEPT !.hop = x]
      OBVIOUS
    <3>2. [table[i] EXCEPT !.prefix = p] = r
      BY <2>1
    <3> HIDE DEF e, x
    <3>3. [r EXCEPT !.hop = x] = [valid |-> v, key |-> k, prefix |-> p,
                                  hop |-> x]
      OBVIOUS
    <3> QED BY <3>1, <3>2, <3>3
  <2>3. v = TRUE
    BY <2>1, <1>2, <1>4 DEF IsEntry
  <2> HIDE DEF e, x
  <2>4. e.key = table[i].key
    BY <2>1, <2>2
  <2> QED BY <2>2, <2>3, <2>4, <1>4 DEF IsEntry
<1> HIDE DEF e
<1>7. table'[i] = e
  BY <1>2, <1>5 DEF RouteTypes
<1> QED BY <1>1, <1>2, <1>5, <1>6, <1>7

\* Where an insertion goes: everything above is at least as long, and what is
\* there, if anything, is shorter.
InsertsAt(p, i, k, g) ==
  /\ table' = R!Inserted(i, [valid |-> TRUE, key |-> k, prefix |-> p,
                             hop |-> g])
  /\ k = R!FreeKey(last_key, i) /\ last_key' = R!NextKey(k)
  /\ ~table[TableSize].valid /\ adds' = adds + 1
  /\ table[i].valid => Len(table[i].prefix) < Len(p)
  /\ \A j \in R!Slots : j < i =>
       table[j].valid /\ ~(Len(table[j].prefix) < Len(p))

LEMMA InsertFacts ==
  ASSUME NEW p, NEW h, R!AddInserts(p, h)
  PROVE  \E i \in R!Slots : \E k, g : InsertsAt(p, i, k, g)
<1> DEFINE i == R!SlotFor(p)
           I == {j \in R!Slots :
                   ~table[j].valid \/ Len(table[j].prefix) < Len(p)}
           k == R!FreeKey(last_key, i)
           g == R!HopIn(i, h)
<1>1. /\ ~table[TableSize].valid /\ adds' = adds + 1
      /\ table' = R!Inserted(i, [valid |-> TRUE, key |-> k, prefix |-> p,
                                 hop |-> g])
      /\ k = R!FreeKey(last_key, i) /\ last_key' = R!NextKey(k)
  BY DEF R!AddInserts
<1>2. TableSize \in I
  BY <1>1, SlotFacts
<1>3. i = R!First(I)
  BY DEF R!SlotFor
<1> HIDE DEF i
<1>4. i \in I /\ \A j \in I : i <= j
  BY <1>2, <1>3, FirstFacts
<1>5. \A j \in R!Slots : j < i => j \notin I
  BY <1>4, SlotFacts
<1>6. i \in R!Slots /\ (table[i].valid => Len(table[i].prefix) < Len(p))
  BY <1>4
<1>7. \A j \in R!Slots : j < i =>
        table[j].valid /\ ~(Len(table[j].prefix) < Len(p))
  BY <1>5
<1> HIDE DEF k, g
<1>8. InsertsAt(p, i, k, g)
  BY <1>1, <1>6, <1>7 DEF InsertsAt
<1> QED BY <1>6, <1>8

\* What a removal takes away is one slot.
LEMMA RemoveFacts ==
  ASSUME NEW k, R!DelRoute(k)
  PROVE  \E i \in R!Slots : table' = R!Removed(i) /\ adds' = adds
<1> DEFINE I == {i \in R!Slots : table[i].key = k}
<1>1. I # {} /\ table' = R!Removed(R!First(I)) /\ adds' = adds
  BY DEF R!DelRoute
<1>2. R!First(I) \in R!Slots
  BY <1>1, FirstFacts
<1> QED BY <1>1, <1>2

\* The values of an insertion and a removal, slot by slot.
LEMMA InsertedAt ==
  ASSUME NEW i \in R!Slots, NEW e, table' = R!Inserted(i, e)
  PROVE  /\ table' = [j \in R!Slots |-> table'[j]]
         /\ table'[i] = e
         /\ \A j \in R!Slots : j > i => j - 1 \in R!Slots /\ j - 1 >= i
         /\ \A j \in R!Slots : j < i => table'[j] = table[j]
         /\ \A j \in R!Slots : j > i =>
              table'[j] = IF table[i].valid THEN table[j - 1] ELSE table[j]
<1>1. \A j \in R!Slots :
        table'[j] = CASE j = i -> e
                      [] j > i /\ table[i].valid -> table[j - 1]
                      [] OTHER -> table[j]
  BY DEF R!Inserted
<1>2. ASSUME NEW j \in R!Slots, j > i
      PROVE  /\ j - 1 \in R!Slots /\ j - 1 >= i /\ j # i
             /\ table'[j] = IF table[i].valid THEN table[j - 1] ELSE table[j]
  <2>1. j # i /\ j - 1 \in R!Slots /\ j - 1 >= i
    BY <1>2, SlotFacts
  <2>2. CASE table[i].valid
    BY <1>1, <1>2, <2>1, <2>2
  <2>3. CASE ~table[i].valid
    BY <1>1, <1>2, <2>1, <2>3
  <2> QED BY <2>1, <2>2, <2>3
<1>3. ASSUME NEW j \in R!Slots, j < i  PROVE table'[j] = table[j]
  <2>1. j # i /\ ~(j > i)
    BY <1>3, SlotFacts
  <2> QED BY <1>1, <2>1
<1>4. table'[i] = e
  <2>1. i = i /\ ~(i > i)
    BY SlotFacts
  <2> QED BY <1>1, <2>1
<1>5. table' = [j \in R!Slots |-> table'[j]]
  BY DEF R!Inserted
<1> QED BY <1>2, <1>3, <1>4, <1>5

LEMMA RemovedAt ==
  ASSUME RouteTypes, NEW i \in R!Slots, table' = R!Removed(i)
  PROVE  /\ table' = [j \in R!Slots |-> table'[j]]
         /\ IsEntry(table'[TableSize]) /\ ~table'[TableSize].valid
         /\ \A j \in R!Slots : j < i /\ j # TableSize => table'[j] = table[j]
         /\ \A j \in R!Slots : j >= i /\ j # TableSize =>
              j + 1 \in R!Slots /\ table'[j] = table[j + 1]
<1>1. \A j \in R!Slots :
        table'[j] = CASE j = TableSize -> [table[TableSize] EXCEPT !.valid = FALSE]
                      [] j >= i /\ j < TableSize -> table[j + 1]
                      [] OTHER -> table[j]
  BY DEF R!Removed
<1>2. TableSize \in R!Slots
  BY SlotFacts
<1>3. table'[TableSize] = [table[TableSize] EXCEPT !.valid = FALSE]
  <2>1. ~(TableSize < TableSize)
    BY SlotFacts
  <2> QED BY <1>1, <1>2, <2>1
<1>4. IsEntry(table'[TableSize]) /\ ~table'[TableSize].valid
  <2>1. PICK v, k, q, g : table[TableSize] = [valid |-> v, key |-> k,
                                              prefix |-> q, hop |-> g]
    BY <1>2 DEF IsEntry, RouteTypes
  <2>2. q \in Seq(Bytes)
    BY <1>2, <2>1 DEF IsEntry, RouteTypes
  <2> DEFINE r == [valid |-> v, key |-> k, prefix |-> q, hop |-> g]
  <2>3. table'[TableSize] = [valid |-> FALSE, key |-> k, prefix |-> q,
                             hop |-> g]
    <3>1. \A f : [r EXCEPT !.valid = f] =
                   [valid |-> f, key |-> k, prefix |-> q, hop |-> g]
      OBVIOUS
    <3>2. table[TableSize] = r
      BY <2>1
    <3> HIDE DEF r
    <3> QED BY <1>3, <3>1, <3>2
  <2> QED BY <2>2, <2>3 DEF IsEntry
<1>5. ASSUME NEW j \in R!Slots, j >= i, j # TableSize
      PROVE  j + 1 \in R!Slots /\ table'[j] = table[j + 1]
  <2>1. j < TableSize /\ j + 1 \in R!Slots
    BY <1>5, SlotFacts
  <2> QED BY <1>1, <1>5, <2>1
<1>6. ASSUME NEW j \in R!Slots, j < i, j # TableSize
      PROVE  table'[j] = table[j]
  <2>1. ~(j >= i)
    BY <1>6, SlotFacts
  <2> QED BY <1>1, <1>6, <2>1
<1>7. table' = [j \in R!Slots |-> table'[j]]
  BY DEF R!Removed
<1> QED BY <1>4, <1>5, <1>6, <1>7

LEMMA LenFacts ==
  ASSUME RouteTypes, NEW i \in R!Slots
  PROVE  Len(table[i].prefix) \in Nat /\ table[i].valid \in BOOLEAN
BY DEF RouteTypes, IsEntry

LEMMA RouteInitInv == R!Init => RouteInv
<1> SUFFICES ASSUME R!Init  PROVE RouteInv
  OBVIOUS
<1>1. \A i \in R!Slots : table[i] = R!Cleared
  BY DEF R!Init
<1>2. IsEntry(R!Cleared) /\ ~R!Cleared.valid
  BY DEF IsEntry, R!Cleared
<1>3. RouteTypes
  BY <1>1, <1>2 DEF R!Init, RouteTypes
<1>4. R!Sorted
  BY <1>1, <1>2 DEF R!Sorted
<1> QED BY <1>3, <1>4 DEF RouteInv

\* An update leaves validity and lengths as they were.
LEMMA UpdateInv ==
  ASSUME RouteInv, NEW p \in R!Prefixes, NEW h, R!AddUpdates(p, h)
  PROVE  RouteInv'
<1>1. PICK i \in R!Slots :
        /\ table' = [table EXCEPT ![i] = table'[i]]
        /\ table[i].valid /\ IsEntry(table'[i]) /\ table'[i].valid
        /\ Len(table'[i].prefix) = Len(table[i].prefix)
  BY UpdateFacts DEF RouteInv
<1>2. RouteTypes /\ adds' = adds
  BY DEF RouteInv, R!AddUpdates
<1>3. \A j \in R!Slots : j # i => table'[j] = table[j]
  BY <1>1, <1>2 DEF RouteTypes
<1>4. table' = [j \in R!Slots |-> table'[j]]
  BY <1>1, <1>2, <1>3 DEF RouteTypes
<1>5. \A j \in R!Slots : /\ IsEntry(table'[j])
                         /\ table'[j].valid <=> table[j].valid
                         /\ Len(table'[j].prefix) = Len(table[j].prefix)
  BY <1>1, <1>2, <1>3 DEF RouteTypes
<1>6. RouteTypes'
  BY <1>2, <1>4, <1>5 DEF RouteTypes, IsEntry, R!Slots
<1>7. R!Sorted'
  BY <1>5 DEF RouteInv, R!Sorted, R!Slots
<1> QED BY <1>6, <1>7 DEF RouteInv

\* An insertion puts the new entry below those that are at least as long, and
\* moves down those that are shorter.
LEMMA InsertInv ==
  ASSUME RouteInv, NEW p \in R!Prefixes, NEW h, R!AddInserts(p, h)
  PROVE  RouteInv'
<1>a. PICK i \in R!Slots : \E m, g : InsertsAt(p, i, m, g)
  BY InsertFacts
<1>b. PICK m, g : InsertsAt(p, i, m, g)
  BY <1>a
<1>1. /\ table' = R!Inserted(i, [valid |-> TRUE, key |-> m, prefix |-> p,
                                 hop |-> g])
      /\ ~table[TableSize].valid /\ adds' = adds + 1
      /\ table[i].valid => Len(table[i].prefix) < Len(p)
      /\ \A j \in R!Slots : j < i =>
           table[j].valid /\ ~(Len(table[j].prefix) < Len(p))
  BY <1>b DEF InsertsAt
<1> DEFINE e == [valid |-> TRUE, key |-> m, prefix |-> p, hop |-> g]
<1>2. RouteTypes /\ p \in Seq(Bytes) /\ Len(p) \in Nat
  BY PrefixFacts DEF RouteInv
<1>3. /\ table' = [j \in R!Slots |-> table'[j]]
      /\ table'[i] = e
      /\ \A j \in R!Slots : j > i => j - 1 \in R!Slots /\ j - 1 >= i
      /\ \A j \in R!Slots : j < i => table'[j] = table[j]
      /\ \A j \in R!Slots : j > i =>
           table'[j] = IF table[i].valid THEN table[j - 1] ELSE table[j]
  BY <1>1, InsertedAt
<1>4. IsEntry(e) /\ e.valid /\ e.prefix = p
  BY <1>2 DEF IsEntry
<1> HIDE DEF e
<1>5. \A j \in R!Slots : j < i \/ j = i \/ j > i
  BY SlotFacts
<1>6. \A j \in R!Slots : IsEntry(table'[j])
  BY <1>2, <1>3, <1>4, <1>5 DEF RouteTypes
<1>7. RouteTypes'
  <2>1. adds' \in Nat
    BY <1>1, <1>2 DEF RouteTypes
  <2> QED BY <1>3, <1>6, <2>1 DEF RouteTypes, IsEntry, R!Slots
<1>8. R!Sorted
  BY DEF RouteInv
<1>9. ASSUME NEW k \in R!Slots, NEW j \in R!Slots, k < j, table'[j].valid
      PROVE  /\ table'[k].valid
             /\ Len(table'[k].prefix) >= Len(table'[j].prefix)
  <2>1. CASE j < i
    <3>1. k < i /\ table'[j] = table[j] /\ table'[k] = table[k]
      BY <2>1, <1>3, <1>9, SlotFacts
    <3> QED BY <3>1, <1>8, <1>9 DEF R!Sorted
  <2>2. CASE j = i
    <3>1. table'[k] = table[k] /\ table[k].valid /\ Len(table[k].prefix) \in Nat
          /\ ~(Len(table[k].prefix) < Len(p))
      BY <2>2, <1>1, <1>2, <1>3, <1>9, LenFacts
    <3> QED BY <3>1, <2>2, <1>2, <1>3, <1>4
  <2>3. CASE j > i
    <3>1. table[i].valid
      BY <2>3, <1>3, <1>8, <1>9 DEF R!Sorted
    <3>2. /\ j - 1 \in R!Slots /\ j - 1 >= i
          /\ table'[j] = table[j - 1] /\ table[j - 1].valid
      BY <2>3, <3>1, <1>3, <1>9
    <3>3. CASE k < i
      <4>1. k < j - 1 /\ table'[k] = table[k]
        BY <3>2, <3>3, <1>3, SlotFacts
      <4> QED BY <4>1, <3>2, <1>8 DEF R!Sorted
    <3>4. CASE k = i
      <4>1. /\ Len(table[i].prefix) < Len(p)
            /\ Len(table[i].prefix) \in Nat /\ Len(table[j - 1].prefix) \in Nat
        BY <3>1, <3>2, <1>1, <1>2, LenFacts
      <4>2. Len(table[i].prefix) >= Len(table[j - 1].prefix)
        <5>1. CASE j - 1 = i
          BY <5>1, <4>1
        <5>2. CASE j - 1 # i
          <6>1. i < j - 1
            BY <5>2, <3>2, SlotFacts
          <6> QED BY <6>1, <3>2, <1>8 DEF R!Sorted
        <5> QED BY <5>1, <5>2
      <4>3. Len(p) >= Len(table[j - 1].prefix)
        BY <4>1, <4>2, <1>2
      <4> QED BY <3>2, <3>4, <4>3, <1>3, <1>4
    <3>5. CASE k > i
      <4>1. k - 1 \in R!Slots /\ table'[k] = table[k - 1] /\ k - 1 < j - 1
        BY <3>1, <3>5, <1>3, <1>9, SlotFacts
      <4> QED BY <4>1, <3>2, <1>8 DEF R!Sorted
    <3> QED BY <3>3, <3>4, <3>5, <1>5
  <2> QED BY <2>1, <2>2, <2>3, <1>5
<1>10. R!Sorted'
  BY <1>9 DEF R!Sorted, R!Slots
<1> QED BY <1>7, <1>10 DEF RouteInv

\* A removal moves up what is below.
LEMMA RemoveInv ==
  ASSUME RouteInv, NEW k, R!DelRoute(k)
  PROVE  RouteInv'
<1>1. PICK i \in R!Slots : table' = R!Removed(i) /\ adds' = adds
  BY RemoveFacts
<1>2. RouteTypes /\ R!Sorted
  BY DEF RouteInv
<1>3. /\ table' = [j \in R!Slots |-> table'[j]]
      /\ IsEntry(table'[TableSize]) /\ ~table'[TableSize].valid
      /\ \A j \in R!Slots : j < i /\ j # TableSize => table'[j] = table[j]
      /\ \A j \in R!Slots : j >= i /\ j # TableSize =>
           j + 1 \in R!Slots /\ table'[j] = table[j + 1]
  BY <1>1, <1>2, RemovedAt
<1>4. \A j \in R!Slots : j < i \/ j >= i
  BY SlotFacts
<1>5. \A j \in R!Slots : IsEntry(table'[j])
  BY <1>2, <1>3, <1>4 DEF RouteTypes
<1>6. RouteTypes'
  BY <1>1, <1>2, <1>3, <1>5 DEF RouteTypes, IsEntry, R!Slots
<1>7. ASSUME NEW m \in R!Slots, NEW j \in R!Slots, m < j, table'[j].valid
      PROVE  /\ table'[m].valid
             /\ Len(table'[m].prefix) >= Len(table'[j].prefix)
  <2>1. j # TableSize /\ m # TableSize
    BY <1>3, <1>7, SlotFacts
  <2>2. CASE j < i
    <3>1. m < i
      BY <2>2, <1>7, SlotFacts
    <3> QED BY <3>1, <2>1, <2>2, <1>2, <1>3, <1>7 DEF R!Sorted
  <2>3. CASE j >= i /\ m < i
    <3>1. j + 1 \in R!Slots /\ m < j + 1 /\ table'[j] = table[j + 1]
          /\ table'[m] = table[m]
      BY <2>1, <2>3, <1>3, <1>7, SlotFacts
    <3> QED BY <3>1, <1>2, <1>7 DEF R!Sorted
  <2>4. CASE j >= i /\ m >= i
    <3>1. /\ j + 1 \in R!Slots /\ m + 1 \in R!Slots /\ m + 1 < j + 1
          /\ table'[j] = table[j + 1] /\ table'[m] = table[m + 1]
      BY <2>1, <2>4, <1>3, <1>7, SlotFacts
    <3> QED BY <3>1, <1>2, <1>7 DEF R!Sorted
  <2> QED BY <2>2, <2>3, <2>4, <1>4
<1>8. R!Sorted'
  BY <1>7 DEF R!Sorted, R!Slots
<1> QED BY <1>6, <1>8 DEF RouteInv

LEMMA RouteNextInv == RouteInv /\ [R!Next]_(R!vars) => RouteInv'
<1> SUFFICES ASSUME RouteInv, [R!Next]_(R!vars)  PROVE RouteInv'
  OBVIOUS
<1>1. ASSUME UNCHANGED <<table, adds>>  PROVE RouteInv'
  BY <1>1 DEF RouteInv, RouteTypes, IsEntry, R!Sorted, R!Slots
<1>2. ASSUME NEW p \in R!Prefixes, NEW h, R!addRoute(p, h)  PROVE RouteInv'
  <2>1. CASE R!AddRefused(p, h)
    BY <1>1, <2>1 DEF R!AddRefused
  <2> QED BY <1>2, <2>1, UpdateInv, InsertInv DEF R!addRoute
<1>3. ASSUME NEW k, R!DelRoute(k)  PROVE RouteInv'
  BY <1>3, RemoveInv
<1>4. CASE R!DefaultRouteAdded \/ UNCHANGED R!vars
  BY <1>1, <1>4 DEF R!DefaultRouteAdded, R!vars
<1> QED BY <1>2, <1>3, <1>4 DEF R!Next

LEMMA RouteSteps == [PartsNext]_allVars => [R!Next]_(R!vars)
BY DEF PartsNext, TaskStep, EntryStep, HeapStep, RouteStep, ofRoutes, R!vars,
       allVars

\* In a sorted table the first match is a longest one.
LEMMA SortedLongest == RouteInv => LongestMatch
<1> SUFFICES ASSUME RouteInv, NEW a \in R!Addresses
             PROVE  LET M == {i \in R!Valid : R!Agree(a, table[i].prefix)}
                    IN  IF M = {} THEN R!lookupRoute(a) = 0
                        ELSE /\ R!lookupRoute(a) \in M
                             /\ \A i \in M :
                                  Len(table[i].prefix)
                                    <= Len(table[R!lookupRoute(a)].prefix)
  BY DEF LongestMatch, R!LongestMatch
<1> DEFINE M == {i \in R!Valid : R!Agree(a, table[i].prefix)}
<1>1. RouteTypes /\ R!Sorted
  BY DEF RouteInv
<1>2. a # <<>>
  <2>1. Len(a) = MaxLen /\ MaxLen # 0
    BY SlotFacts DEF R!Addresses
  <2> QED BY <2>1
<1>3. R!Matches(a) = M
  <2>1. ASSUME NEW i \in R!Slots, table[i].prefix = <<>>
        PROVE  R!Agree(a, table[i].prefix)
    <3>1. Len(a) \in Nat
      BY SlotFacts DEF R!Addresses
    <3> QED BY <2>1, <3>1 DEF R!Agree
  <2> QED BY <1>2, <2>1 DEF R!Matches, R!Valid
<1>4. M \subseteq R!Slots /\ \A i \in M : table[i].valid
  BY DEF R!Valid
<1> HIDE DEF M
<1>5. CASE M = {}
  BY <1>3, <1>5 DEF R!lookupRoute, M
<1>6. CASE M # {}
  <2> DEFINE f == R!lookupRoute(a)
  <2>1. f = R!First(M)
    BY <1>3, <1>6 DEF R!lookupRoute
  <2> HIDE DEF f
  <2>2. f \in M /\ \A i \in M : f <= i
    BY <1>4, <1>6, <2>1, FirstFacts
  <2>3. ASSUME NEW i \in M
        PROVE  Len(table[i].prefix) <= Len(table[f].prefix)
    <3>1. i \in R!Slots /\ f \in R!Slots /\ f <= i /\ table[i].valid
      BY <1>4, <2>2
    <3>2. Len(table[i].prefix) \in Nat /\ Len(table[f].prefix) \in Nat
      BY <1>1, <3>1, LenFacts
    <3>3. CASE f = i
      BY <3>2, <3>3
    <3>4. CASE f # i
      <4>1. f < i
        BY <3>1, <3>4, SlotFacts
      <4>2. Len(table[f].prefix) >= Len(table[i].prefix)
        BY <1>1, <3>1, <4>1 DEF R!Sorted
      <4> QED BY <3>2, <4>2
    <3> QED BY <3>3, <3>4
  <2> QED BY <1>6, <2>2, <2>3 DEF M, f
<1> QED BY <1>5, <1>6 DEF M

\* For any table size, addresses and next hops: after any sequence of
\* addRoute and delRoute the entries are sorted by their length, so that
\* lookupRoute, which takes the first match, takes a longest one.
THEOREM RoutesLongestMatch == PartsSpec => []LongestMatch
<1>1. PartsInit => RouteInv
  BY RouteInitInv DEF PartsInit
<1>2. RouteInv /\ [PartsNext]_allVars => RouteInv'
  BY RouteSteps, RouteNextInv
<1> QED BY <1>1, <1>2, SortedLongest, PTL DEF PartsSpec

\* At most one element.
LEMMA AtMostOne ==
  ASSUME NEW S, NEW x, S \subseteq {x}
  PROVE  R!Cardinality(S) <= 1
<1>1. R!Cardinality(S) = Cardinality(S)
  BY DEF R!Cardinality, Cardinality
<1>2. S = {} \/ S = {x}
  OBVIOUS
<1>3. Cardinality({}) = 0 /\ Cardinality({x}) = 1
  BY FS_EmptySet, FS_Singleton
<1> QED BY <1>1, <1>2, <1>3

\* What OthersStay says of a step.
OneRoute ==
  /\ adds' > adds => R!Routes \subseteq R!Routes'
  /\ R!Cardinality(R!Routes \ R!Routes') <= 1
  /\ R!Cardinality(R!Routes' \ R!Routes) <= 1

LEMMA RouteOf ==
  ASSUME NEW i \in R!Slots
  PROVE  /\ table[i].valid => table[i] \in R!Routes
         /\ table'[i].valid => table'[i] \in R!Routes'
BY DEF R!Routes, R!Valid, R!Slots

LEMMA UpdateOne ==
  ASSUME RouteInv, NEW p \in R!Prefixes, NEW h, R!AddUpdates(p, h)
  PROVE  OneRoute
<1>1. PICK i \in R!Slots :
        /\ table' = [table EXCEPT ![i] = table'[i]]
        /\ table[i].valid /\ IsEntry(table'[i]) /\ table'[i].valid
        /\ Len(table'[i].prefix) = Len(table[i].prefix)
  BY UpdateFacts DEF RouteInv
<1>2. RouteTypes /\ ~(adds' > adds)
  BY DEF RouteInv, RouteTypes, R!AddUpdates
<1>3. \A j \in R!Slots : j # i => table'[j] = table[j]
  BY <1>1, <1>2 DEF RouteTypes
<1>4. R!Routes \ R!Routes' \subseteq {table[i]}
  BY <1>3, RouteOf DEF R!Routes, R!Valid
<1>5. R!Routes' \ R!Routes \subseteq {table'[i]}
  BY <1>3, RouteOf DEF R!Routes, R!Valid, R!Slots
<1> QED BY <1>2, <1>4, <1>5, AtMostOne DEF OneRoute

LEMMA InsertOne ==
  ASSUME RouteInv, NEW p \in R!Prefixes, NEW h, R!AddInserts(p, h)
  PROVE  OneRoute
<1>a. PICK i \in R!Slots : \E m, g : InsertsAt(p, i, m, g)
  BY InsertFacts
<1>b. PICK m, g : InsertsAt(p, i, m, g)
  BY <1>a
<1>1. /\ table' = R!Inserted(i, [valid |-> TRUE, key |-> m, prefix |-> p,
                                 hop |-> g])
      /\ ~table[TableSize].valid /\ adds' = adds + 1
      /\ table[i].valid => Len(table[i].prefix) < Len(p)
      /\ \A j \in R!Slots : j < i =>
           table[j].valid /\ ~(Len(table[j].prefix) < Len(p))
  BY <1>b DEF InsertsAt
<1> DEFINE e == [valid |-> TRUE, key |-> m, prefix |-> p, hop |-> g]
<1>2. /\ table'[i] = e
      /\ \A j \in R!Slots : j > i => j - 1 \in R!Slots /\ j - 1 >= i
      /\ \A j \in R!Slots : j < i => table'[j] = table[j]
      /\ \A j \in R!Slots : j > i =>
           table'[j] = IF table[i].valid THEN table[j - 1] ELSE table[j]
  BY <1>1, InsertedAt
<1> HIDE DEF e
<1>3. \A j \in R!Slots : j < i \/ j = i \/ j > i
  BY SlotFacts
<1>4. R!Sorted
  BY DEF RouteInv
<1>5. ASSUME NEW r \in R!Routes  PROVE r \in R!Routes'
  <2>1. PICK j \in R!Slots : r = table[j] /\ table[j].valid
    BY <1>5 DEF R!Routes, R!Valid
  <2>2. CASE j < i
    BY <1>2, <2>1, <2>2, RouteOf
  <2>3. CASE j >= i
    <3>1. table[i].valid
      <4>1. j = i \/ i < j
        BY <2>3, SlotFacts
      <4> QED BY <1>4, <2>1, <4>1 DEF R!Sorted
    <3>2. j # TableSize
      BY <1>1, <2>1
    <3>3. j + 1 \in R!Slots /\ j + 1 > i /\ (j + 1) - 1 = j
      BY <2>3, <3>2, SlotFacts
    <3>4. table'[j + 1] = table[j]
      BY <1>2, <3>1, <3>3
    <3> QED BY <2>1, <3>3, <3>4, RouteOf
  <2>4. j < i \/ j >= i
    BY SlotFacts
  <2> QED BY <2>2, <2>3, <2>4
<1>6. R!Routes' \ R!Routes \subseteq {e}
  <2>1. ASSUME NEW r \in R!Routes', r # e  PROVE r \in R!Routes
    <3>1. PICK j \in R!Slots : r = table'[j] /\ table'[j].valid
      BY <2>1 DEF R!Routes, R!Valid, R!Slots
    <3>2. CASE j < i
      BY <1>2, <3>1, <3>2, RouteOf
    <3>3. CASE j = i
      BY <1>2, <2>1, <3>1, <3>3
    <3>4. CASE j > i
      <4>1. j - 1 \in R!Slots
        BY <1>2, <3>4
      <4> QED BY <1>2, <3>1, <3>4, <4>1, RouteOf
    <3> QED BY <1>3, <3>2, <3>3, <3>4
  <2> QED BY <2>1
<1>7. R!Routes \ R!Routes' \subseteq {e}
  BY <1>5
<1> QED BY <1>5, <1>6, <1>7, AtMostOne DEF OneRoute

LEMMA RemoveOne ==
  ASSUME RouteInv, NEW k, R!DelRoute(k)
  PROVE  OneRoute
<1>1. PICK i \in R!Slots : table' = R!Removed(i) /\ adds' = adds
  BY RemoveFacts
<1>2. RouteTypes /\ ~(adds' > adds)
  BY <1>1 DEF RouteInv, RouteTypes
<1>3. /\ ~table'[TableSize].valid
      /\ \A j \in R!Slots : j < i /\ j # TableSize => table'[j] = table[j]
      /\ \A j \in R!Slots : j >= i /\ j # TableSize =>
           j + 1 \in R!Slots /\ table'[j] = table[j + 1]
  BY <1>1, <1>2, RemovedAt
<1>4. R!Routes \ R!Routes' \subseteq {table[i]}
  <2>1. ASSUME NEW r \in R!Routes, r # table[i]  PROVE r \in R!Routes'
    <3>1. PICK j \in R!Slots : r = table[j] /\ table[j].valid
      BY <2>1 DEF R!Routes, R!Valid
    <3>2. CASE j < i
      <4>1. j # TableSize
        BY <3>2, SlotFacts
      <4> QED BY <1>3, <3>1, <3>2, <4>1, RouteOf
    <3>3. CASE j > i
      <4>1. j - 1 \in R!Slots /\ j - 1 >= i /\ j - 1 # TableSize
            /\ (j - 1) + 1 = j
        BY <3>3, SlotFacts
      <4>2. table'[j - 1] = table[j]
        BY <1>3, <4>1
      <4> QED BY <3>1, <4>1, <4>2, RouteOf
    <3>4. j < i \/ j > i
      BY <2>1, <3>1, SlotFacts
    <3> QED BY <3>2, <3>3, <3>4
  <2> QED BY <2>1
<1>5. R!Routes' \ R!Routes \subseteq {table[i]}
  <2>1. ASSUME NEW r \in R!Routes'  PROVE r \in R!Routes
    <3>1. PICK j \in R!Slots : r = table'[j] /\ table'[j].valid
      BY <2>1 DEF R!Routes, R!Valid, R!Slots
    <3>2. j # TableSize
      BY <1>3, <3>1
    <3>3. CASE j < i
      BY <1>3, <3>1, <3>2, <3>3, RouteOf
    <3>4. CASE j >= i
      BY <1>3, <3>1, <3>2, <3>4, RouteOf
    <3>5. j < i \/ j >= i
      BY SlotFacts
    <3> QED BY <3>3, <3>4, <3>5
  <2> QED BY <2>1
<1> QED BY <1>2, <1>4, <1>5, AtMostOne DEF OneRoute

\* For any table size: an addition keeps every other route, wherever entries
\* are moved to, and no operation takes away or changes more than one.
THEOREM RoutesOthersStay == PartsSpec => OthersStay
<1>1. PartsInit => RouteInv
  BY RouteInitInv DEF PartsInit
<1>2. RouteInv /\ [PartsNext]_allVars => RouteInv'
  BY RouteSteps, RouteNextInv
<1>3. ASSUME RouteInv, [PartsNext]_allVars  PROVE [OneRoute]_(R!vars)
  <2>1. [R!Next]_(R!vars)
    BY <1>3, RouteSteps
  <2>2. ASSUME UNCHANGED <<table, adds>>  PROVE OneRoute
    <3>1. R!Routes' = R!Routes
      BY <2>2 DEF R!Routes, R!Valid, R!Slots
    <3>2. R!Routes \ R!Routes' \subseteq {0} /\ R!Routes' \ R!Routes \subseteq {0}
      BY <3>1
    <3> QED BY <3>1, <3>2, AtMostOne DEF OneRoute
  <2>3. ASSUME NEW p \in R!Prefixes, NEW h, R!addRoute(p, h)  PROVE OneRoute
    <3>1. CASE R!AddRefused(p, h)
      BY <2>2, <3>1 DEF R!AddRefused
    <3> QED BY <1>3, <2>3, <3>1, UpdateOne, InsertOne DEF R!addRoute
  <2>4. ASSUME NEW k, R!DelRoute(k)  PROVE OneRoute
    BY <1>3, <2>4, RemoveOne
  <2>5. CASE R!DefaultRouteAdded
    BY <2>2, <2>5 DEF R!DefaultRouteAdded
  <2> QED BY <2>1, <2>3, <2>4, <2>5 DEF R!Next
<1>4. OthersStay <=> [][OneRoute]_(R!vars)
  BY DEF OthersStay, R!OthersStay, OneRoute
<1> QED BY <1>1, <1>2, <1>3, <1>4, PTL DEF PartsSpec
-----------------------------------------------------------------------------
(* The keys of the routes.                                                 *)

LEMMA KeyFacts ==
  /\ MaxKey \in Nat \ {0} /\ TableSize < 2 * MaxKey + 2
  /\ R!Keys = (-MaxKey - 1) .. MaxKey
BY PartsAssumption DEF R!TableAssumption, R!Keys

\* The key n steps after k.
KeyAfter(k, n) == IF k + n > MaxKey THEN k + n - (2 * MaxKey + 2) ELSE k + n

\* As many keys in a row as the table has slots, and one more, are different,
\* also where they wrap.
LEMMA KeyAfterFacts ==
  ASSUME NEW k \in R!Keys
  PROVE  /\ KeyAfter(k, 0) = k
         /\ \A n \in 0 .. TableSize : KeyAfter(k, n) \in R!Keys
         /\ \A n \in 1 .. TableSize :
              R!NextKey(KeyAfter(k, n - 1)) = KeyAfter(k, n)
         /\ \A m, n \in 0 .. TableSize :
              KeyAfter(k, m) = KeyAfter(k, n) => m = n
BY KeyFacts, SlotFacts DEF KeyAfter, R!NextKey

\* Not all of them are in the table.
LEMMA SomeKeyFree ==
  ASSUME NEW k \in R!Keys, NEW i \in R!Slots
  PROVE  \E n \in 0 .. TableSize : ~R!Taken(KeyAfter(k, n), i)
<1> SUFFICES ASSUME \A n \in 0 .. TableSize : R!Taken(KeyAfter(k, n), i)
             PROVE  FALSE
  OBVIOUS
<1> DEFINE N == 0 .. TableSize
           slot == [n \in N |-> CHOOSE j \in R!Slots :
                                  table[j].key = KeyAfter(k, n)]
<1>1. ASSUME NEW n \in N
      PROVE  slot[n] \in R!Slots /\ table[slot[n]].key = KeyAfter(k, n)
  <2>1. \E j \in R!Slots : table[j].key = KeyAfter(k, n)
    BY DEF R!Taken, R!Valid
  <2> QED BY <2>1
<1>2. slot \in [N -> R!Slots]
  BY <1>1
<1>3. /\ IsFiniteSet(N) /\ Cardinality(N) = TableSize + 1
      /\ IsFiniteSet(R!Slots) /\ Cardinality(R!Slots) = TableSize
  <2>1. TableSize \in Nat /\ 0 \in Int /\ 1 \in Int /\ TableSize \in Int
    BY SlotFacts
  <2>2. /\ IsFiniteSet(N)
        /\ Cardinality(N) = IF 0 > TableSize THEN 0 ELSE TableSize - 0 + 1
    BY <2>1, FS_Interval
  <2>3. /\ IsFiniteSet(1 .. TableSize)
        /\ Cardinality(1 .. TableSize)
             = IF 1 > TableSize THEN 0 ELSE TableSize - 1 + 1
    BY <2>1, FS_Interval
  <2> QED BY <2>2, <2>3, SlotFacts
<1>4. Cardinality(R!Slots) < Cardinality(N)
  BY <1>3, SlotFacts
<1> HIDE DEF slot
<1>5. \E m, n \in N : m # n /\ slot[m] = slot[n]
  BY <1>2, <1>3, <1>4, FS_PigeonHole
<1> QED BY <1>1, <1>5, KeyAfterFacts

\* alloc_key's loop, as a function of the number of its rounds.
Rounds(k, i, f) ==
  f = [n \in 0 .. TableSize |->
         IF n = 0 THEN k
         ELSE IF R!Taken(f[n - 1], i) THEN R!NextKey(f[n - 1]) ELSE f[n - 1]]

LEMMA FreeKeyRounds ==
  ASSUME NEW k, NEW i
  PROVE  R!FreeKey(k, i) = (CHOOSE f : Rounds(k, i, f))[TableSize]
BY DEF R!FreeKey, Rounds

\* The loop ends on a key that no valid entry has, however the keys wrap.
LEMMA FreeKeyFacts ==
  ASSUME NEW k \in R!Keys, NEW i \in R!Slots
  PROVE  R!FreeKey(k, i) \in R!Keys /\ ~R!Taken(R!FreeKey(k, i), i)
<1> DEFINE F == {n \in 0 .. TableSize : ~R!Taken(KeyAfter(k, n), i)}
<1>1. PICK m \in F : \A n \in F : m <= n
  <2>1. F # {} /\ F \subseteq Nat
    BY SomeKeyFree
  <2> HIDE DEF F
  <2> QED BY <2>1, LeastFacts
<1>2. /\ m \in 0 .. TableSize /\ ~R!Taken(KeyAfter(k, m), i)
      /\ \A n \in 0 .. TableSize : n < m => R!Taken(KeyAfter(k, n), i)
  <2>1. ASSUME NEW n \in 0 .. TableSize, n < m, n \in F  PROVE FALSE
    BY <1>1, <2>1
  <2> QED BY <2>1
<1> HIDE DEF F
<1> DEFINE at(n) == KeyAfter(k, IF n <= m THEN n ELSE m)
           g == [n \in 0 .. TableSize |-> at(n)]
<1>3. ASSUME NEW n \in 0 .. TableSize
      PROVE  at(n) = IF n = 0 THEN k
                     ELSE IF R!Taken(at(n - 1), i) THEN R!NextKey(at(n - 1))
                     ELSE at(n - 1)
  <2>1. CASE n = 0
    BY <1>2, <2>1, KeyAfterFacts
  <2>2. CASE n # 0 /\ n <= m
    <3>1. n - 1 \in 0 .. TableSize /\ n - 1 < m /\ n - 1 <= m
          /\ n \in 1 .. TableSize
      BY <1>2, <2>2, SlotFacts
    <3>2. R!Taken(KeyAfter(k, n - 1), i)
      BY <1>2, <3>1
    <3>3. R!NextKey(KeyAfter(k, n - 1)) = KeyAfter(k, n)
      BY <3>1, KeyAfterFacts
    <3>4. at(n) = KeyAfter(k, n) /\ at(n - 1) = KeyAfter(k, n - 1)
      BY <2>2, <3>1
    <3> QED BY <2>2, <3>2, <3>3, <3>4
  <2>3. CASE ~(n <= m)
    <3>1. n # 0 /\ at(n) = KeyAfter(k, m)
      BY <1>2, <2>3
    <3>2. at(n - 1) = KeyAfter(k, m)
      <4>1. CASE n - 1 <= m
        <5>1. n - 1 = m
          BY <1>2, <2>3, <4>1, SlotFacts
        <5> QED BY <5>1
      <4>2. CASE ~(n - 1 <= m)
        BY <4>2
      <4> QED BY <4>1, <4>2
    <3> QED BY <1>2, <3>1, <3>2
  <2> QED BY <2>1, <2>2, <2>3
<1>4. TableSize \in 0 .. TableSize /\ at(TableSize) = KeyAfter(k, m)
  <2>1. TableSize \in 0 .. TableSize
    BY SlotFacts
  <2>2. CASE TableSize <= m
    <3>1. TableSize = m
      BY <1>2, <2>2, SlotFacts
    <3> QED BY <2>1, <3>1
  <2>3. CASE ~(TableSize <= m)
    BY <2>1, <2>3
  <2> QED BY <2>2, <2>3
<1> HIDE DEF at
<1>5. \A n \in 0 .. TableSize : n # 0 => n - 1 \in 0 .. TableSize
  BY SlotFacts
<1>6. Rounds(k, i, g)
  <2>1. \A n \in 0 .. TableSize : g[n] = at(n)
    OBVIOUS
  <2>2. ASSUME NEW n \in 0 .. TableSize
        PROVE  at(n) = IF n = 0 THEN k
                       ELSE IF R!Taken(g[n - 1], i) THEN R!NextKey(g[n - 1])
                       ELSE g[n - 1]
    <3>1. CASE n = 0
      BY <1>3, <3>1
    <3>2. CASE n # 0
      <4>1. g[n - 1] = at(n - 1)
        BY <1>5, <2>1, <3>2
      <4> QED BY <1>3, <3>2, <4>1
    <3> QED BY <3>1, <3>2
  <2> QED BY <2>2 DEF Rounds
<1> DEFINE f == CHOOSE x : Rounds(k, i, x)
<1>7. Rounds(k, i, f)
  BY <1>6
<1> HIDE DEF f, g
<1>8. ASSUME NEW n \in 0 .. TableSize
      PROVE  f[n] = IF n = 0 THEN k
                    ELSE IF R!Taken(f[n - 1], i) THEN R!NextKey(f[n - 1])
                    ELSE f[n - 1]
  BY <1>7 DEF Rounds
<1>9. \A n \in 0 .. TableSize : f[n] = at(n)
  <2> SUFFICES ASSUME \E n \in 0 .. TableSize : f[n] # at(n)
               PROVE  FALSE
    OBVIOUS
  <2> DEFINE B == {n \in 0 .. TableSize : f[n] # at(n)}
  <2>1. B # {} /\ B \subseteq Nat
    OBVIOUS
  <2>2. PICK b \in B : \A n \in B : b <= n
    <3> HIDE DEF B
    <3> QED BY <2>1, LeastFacts
  <2>3. b \in 0 .. TableSize /\ f[b] # at(b)
    OBVIOUS
  <2>4. b # 0
    BY <1>3, <1>8, <2>3
  <2>5. b - 1 \in 0 .. TableSize /\ ~(b <= b - 1)
    BY <1>5, <2>3, <2>4
  <2>6. f[b - 1] = at(b - 1)
    BY <2>2, <2>5
  <2>7. f[b] = at(b)
    BY <1>3, <1>8, <2>3, <2>4, <2>6
  <2> QED BY <2>3, <2>7
<1>10. R!FreeKey(k, i) = KeyAfter(k, m)
  <2>1. R!FreeKey(k, i) = f[TableSize]
    BY FreeKeyRounds DEF f
  <2> QED BY <1>4, <1>9, <2>1
<1> QED BY <1>2, <1>10, KeyAfterFacts

KeyInv == RouteInv /\ last_key \in R!Keys /\ R!KeysUnique

\* Slot by slot: a valid key of the new table, if it is not that of the new
\* entry, is a valid key of the old one.
LEMMA InsertKeys ==
  ASSUME KeyInv, NEW p \in R!Prefixes, NEW h, R!AddInserts(p, h)
  PROVE  last_key' \in R!Keys /\ R!KeysUnique'
<1>1. PICK i \in R!Slots : \E k, g : InsertsAt(p, i, k, g)
  BY InsertFacts
<1>2. PICK k, g : InsertsAt(p, i, k, g)
  BY <1>1
<1> DEFINE e == [valid |-> TRUE, key |-> k, prefix |-> p, hop |-> g]
<1>3. /\ table' = R!Inserted(i, e) /\ last_key' = R!NextKey(k)
      /\ k \in R!Keys /\ ~R!Taken(k, i)
  BY <1>2, FreeKeyFacts DEF InsertsAt, KeyInv
<1>4. /\ table'[i] = e
      /\ \A j \in R!Slots : j > i => j - 1 \in R!Slots /\ j - 1 >= i
      /\ \A j \in R!Slots : j < i => table'[j] = table[j]
      /\ \A j \in R!Slots : j > i =>
           table'[j] = IF table[i].valid THEN table[j - 1] ELSE table[j]
  BY <1>3, InsertedAt
<1>5. e.key = k
  OBVIOUS
<1> HIDE DEF e
<1>6. last_key' \in R!Keys
  BY <1>3, KeyFacts DEF R!NextKey
<1>7. \A j \in R!Slots : table[j].valid => table[j].key # k
  BY <1>3 DEF R!Taken, R!Valid
<1>8. \A a, b \in R!Slots :
        table[a].valid /\ table[b].valid /\ table[a].key = table[b].key => a = b
  BY DEF KeyInv, R!KeysUnique, R!Valid
<1> DEFINE from(j) == IF j > i /\ table[i].valid THEN j - 1 ELSE j
<1>9. ASSUME NEW j \in R!Slots, j # i
      PROVE  /\ from(j) \in R!Slots /\ table'[j] = table[from(j)]
             /\ j < i => from(j) < i
             /\ j > i => from(j) = IF table[i].valid THEN j - 1 ELSE j
  <2>1. CASE j < i
    <3>1. ~(j > i)
      BY <2>1, SlotFacts
    <3> QED BY <1>4, <2>1, <3>1
  <2>2. CASE j > i
    <3>1. ~(j < i)
      BY <2>2, SlotFacts
    <3> QED BY <1>4, <2>2, <3>1
  <2>3. j < i \/ j > i
    BY <1>9, SlotFacts
  <2> QED BY <2>1, <2>2, <2>3
<1>10. ASSUME NEW a \in R!Slots, NEW b \in R!Slots, a # i, b # i,
              from(a) = from(b)
       PROVE  a = b
  <2>1. CASE a < i /\ b < i
    BY <2>1, <1>10, SlotFacts
  <2>2. CASE a > i /\ b > i
    BY <2>2, <1>10, SlotFacts
  <2>3. CASE a < i /\ b > i
    BY <2>3, <1>10, SlotFacts
  <2>4. CASE a > i /\ b < i
    BY <2>4, <1>10, SlotFacts
  <2> QED BY <1>10, <2>1, <2>2, <2>3, <2>4, SlotFacts
<1> HIDE DEF from
<1>11. ASSUME NEW a \in R!Slots, NEW b \in R!Slots,
              table'[a].valid, table'[b].valid, table'[a].key = table'[b].key
       PROVE  a = b
  <2>1. CASE a # i /\ b # i
    BY <1>8, <1>9, <1>10, <1>11, <2>1
  <2>2. CASE a = i /\ b # i
    BY <1>4, <1>5, <1>7, <1>9, <1>11, <2>2
  <2>3. CASE a # i /\ b = i
    BY <1>4, <1>5, <1>7, <1>9, <1>11, <2>3
  <2> QED BY <2>1, <2>2, <2>3
<1>12. R!KeysUnique'
  BY <1>11 DEF R!KeysUnique, R!Valid, R!Slots
<1> QED BY <1>6, <1>12

LEMMA RemoveKeys ==
  ASSUME KeyInv, NEW k, R!DelRoute(k)
  PROVE  last_key' \in R!Keys /\ R!KeysUnique'
<1>1. PICK i \in R!Slots : table' = R!Removed(i) /\ adds' = adds
  BY RemoveFacts
<1>2. /\ ~table'[TableSize].valid
      /\ \A j \in R!Slots : j < i /\ j # TableSize => table'[j] = table[j]
      /\ \A j \in R!Slots : j >= i /\ j # TableSize =>
           j + 1 \in R!Slots /\ table'[j] = table[j + 1]
  BY <1>1, RemovedAt DEF KeyInv, RouteInv
<1>3. \A a, b \in R!Slots :
        table[a].valid /\ table[b].valid /\ table[a].key = table[b].key => a = b
  BY DEF KeyInv, R!KeysUnique, R!Valid
<1>4. ASSUME NEW a \in R!Slots, NEW b \in R!Slots,
             table'[a].valid, table'[b].valid, table'[a].key = table'[b].key
      PROVE  a = b
  <2>1. a # TableSize /\ b # TableSize
    BY <1>2, <1>4
  <2>2. CASE a < i /\ b < i
    BY <1>2, <1>3, <1>4, <2>1, <2>2
  <2>3. CASE a >= i /\ b >= i
    <3>1. a + 1 = b + 1
      BY <1>2, <1>3, <1>4, <2>1, <2>3
    <3> QED BY <3>1, SlotFacts
  <2>4. CASE a < i /\ b >= i
    <3>1. a = b + 1
      BY <1>2, <1>3, <1>4, <2>1, <2>4
    <3> QED BY <2>4, <3>1, SlotFacts
  <2>5. CASE a >= i /\ b < i
    <3>1. a + 1 = b
      BY <1>2, <1>3, <1>4, <2>1, <2>5
    <3> QED BY <2>5, <3>1, SlotFacts
  <2> QED BY <2>2, <2>3, <2>4, <2>5, SlotFacts
<1>5. R!KeysUnique'
  BY <1>4 DEF R!KeysUnique, R!Valid, R!Slots
<1>6. last_key' \in R!Keys
  BY DEF KeyInv, R!DelRoute
<1> QED BY <1>5, <1>6

\* An update keeps the key of the entry.
LEMMA UpdateKeys ==
  ASSUME KeyInv, NEW p \in R!Prefixes, NEW h, R!AddUpdates(p, h)
  PROVE  last_key' \in R!Keys /\ R!KeysUnique'
<1>1. PICK i \in R!Slots :
        /\ table' = [table EXCEPT ![i] = table'[i]]
        /\ table[i].valid /\ table'[i].key = table[i].key
  BY UpdateFacts DEF KeyInv, RouteInv
<1>2. RouteTypes /\ last_key' = last_key
  BY DEF KeyInv, RouteInv, R!AddUpdates
<1>3. \A j \in R!Slots : j # i => table'[j] = table[j]
  BY <1>1, <1>2 DEF RouteTypes
<1>4. \A j \in R!Slots : /\ table'[j].valid => table[j].valid
                         /\ table'[j].key = table[j].key
  BY <1>1, <1>3
<1> QED BY <1>2, <1>4 DEF KeyInv, R!KeysUnique, R!Valid, R!Slots

LEMMA KeyNextInv == KeyInv /\ [R!Next]_(R!vars) => KeyInv'
<1> SUFFICES ASSUME KeyInv, [R!Next]_(R!vars)  PROVE KeyInv'
  OBVIOUS
<1>1. RouteInv'
  BY RouteNextInv DEF KeyInv
<1>2. ASSUME UNCHANGED <<table, last_key>>
      PROVE  last_key' \in R!Keys /\ R!KeysUnique'
  BY <1>2 DEF KeyInv, R!KeysUnique, R!Valid, R!Slots
<1>3. ASSUME NEW p \in R!Prefixes, NEW h, R!addRoute(p, h)
      PROVE  last_key' \in R!Keys /\ R!KeysUnique'
  <2>1. CASE R!AddRefused(p, h)
    BY <1>2, <2>1 DEF R!AddRefused
  <2> QED BY <1>3, <2>1, UpdateKeys, InsertKeys DEF R!addRoute
<1>4. ASSUME NEW k, R!DelRoute(k)  PROVE last_key' \in R!Keys /\ R!KeysUnique'
  BY <1>4, RemoveKeys
<1>5. ASSUME R!DefaultRouteAdded \/ UNCHANGED R!vars
      PROVE  last_key' \in R!Keys /\ R!KeysUnique'
  BY <1>2, <1>5 DEF R!DefaultRouteAdded, R!vars
<1>6. last_key' \in R!Keys /\ R!KeysUnique'
  BY <1>3, <1>4, <1>5 DEF R!Next
<1> QED BY <1>1, <1>6 DEF KeyInv, R!Keys

\* For any table size and width of the keys: a key names one valid route, also
\* when the keys have wrapped past those of routes still in the table.
THEOREM RoutesKeysUnique == PartsSpec => []KeysUnique
<1>1. PartsInit => KeyInv
  <2> SUFFICES ASSUME PartsInit  PROVE KeyInv
    OBVIOUS
  <2>1. R!Init /\ RouteInv
    BY RouteInitInv DEF PartsInit
  <2>2. last_key \in R!Keys
    BY <2>1, KeyFacts DEF R!Init
  <2>3. \A i \in R!Slots : ~table[i].valid
    BY <2>1 DEF R!Init, R!Cleared
  <2> QED BY <2>1, <2>2, <2>3 DEF KeyInv, R!KeysUnique, R!Valid
<1>2. KeyInv /\ [PartsNext]_allVars => KeyInv'
  BY RouteSteps, KeyNextInv
<1>3. KeyInv => KeysUnique
  BY DEF KeyInv, KeysUnique
<1> QED BY <1>1, <1>2, <1>3, PTL DEF PartsSpec
-----------------------------------------------------------------------------
(* The rings of the stack and the pool.                                    *)

LEMMA Sizes == PoolSize \in Nat \ {0} /\ StackSize \in Nat \ {0}
BY PartsAssumption DEF E!StoreAssumption

\* The i-th cell of a ring of n cells that starts at b.
Place(n, b, i) == IF b + i < n THEN b + i ELSE b + i - n

\* The ring c from cell b on, k entries long, as a sequence.
Unrolled(c, n, b, k) == [i \in 1 .. k |-> c[Place(n, b, i - 1)]]

CellValues == E!Entries \cup {NoEntry}

IsRing(c, n, b, k) ==
  /\ c \in [0 .. n - 1 -> CellValues]
  /\ b \in 0 .. n - 1
  /\ k \in 0 .. n

LEMMA PlaceIsMod ==
  ASSUME NEW n \in Nat \ {0}, NEW b \in 0 .. n - 1, NEW i \in 0 .. n
  PROVE  (i + b) % n = Place(n, b, i)
<1>1. CASE b + i < n
  BY <1>1 DEF Place
<1>2. CASE b + i >= n
  BY <1>2 DEF Place
<1> QED BY <1>1, <1>2

LEMMA PlaceIn ==
  ASSUME NEW n \in Nat \ {0}, NEW b \in 0 .. n - 1, NEW i \in 0 .. n - 1
  PROVE  Place(n, b, i) \in 0 .. n - 1
BY DEF Place

\* Different places of a ring are different cells.
LEMMA PlaceInj ==
  ASSUME NEW n \in Nat \ {0}, NEW b \in 0 .. n - 1,
         NEW i \in 0 .. n - 1, NEW j \in 0 .. n - 1, i # j
  PROVE  Place(n, b, i) # Place(n, b, j)
BY DEF Place

\* A ring one cell further starts at its second place.
LEMMA PlaceAfter ==
  ASSUME NEW n \in Nat \ {0}, NEW b \in 0 .. n - 1
  PROVE  /\ E!After(b, n) \in 0 .. n - 1
         /\ \A i \in 0 .. n - 1 :
              Place(n, E!After(b, n), i) = Place(n, b, i + 1)
BY DEF Place, E!After

LEMMA PlaceBefore ==
  ASSUME NEW n \in Nat \ {0}, NEW b \in 0 .. n - 1
  PROVE  /\ E!Before(b, n) \in 0 .. n - 1
         /\ \A i \in 0 .. n - 1 :
              Place(n, E!Before(b, n), i + 1) = Place(n, b, i)
BY DEF Place, E!Before

\* The ends move with the places.
LEMMA PlaceMoves ==
  ASSUME NEW n \in Nat \ {0}, NEW b \in 0 .. n - 1, NEW i \in 0 .. n - 2
  PROVE  /\ E!After(Place(n, b, i), n) = Place(n, b, i + 1)
         /\ E!Before(Place(n, b, i + 1), n) = Place(n, b, i)
BY DEF Place, E!After, E!Before

LEMMA PlaceZero ==
  ASSUME NEW n \in Nat \ {0}, NEW b \in 0 .. n - 1
  PROVE  Place(n, b, 0) = b
BY DEF Place

LEMMA UnrolledAt ==
  ASSUME NEW c, NEW n, NEW b, NEW k \in Nat
  PROVE  /\ Len(Unrolled(c, n, b, k)) = k
         /\ \A i \in 1 .. k : Unrolled(c, n, b, k)[i] = c[Place(n, b, i - 1)]
BY DEF Unrolled

LEMMA UnrolledSeq ==
  ASSUME NEW c, NEW n \in Nat \ {0}, NEW b, NEW k, IsRing(c, n, b, k)
  PROVE  Unrolled(c, n, b, k) \in Seq(CellValues)
<1>1. k \in Nat /\ \A i \in 1 .. k : i - 1 \in 0 .. n - 1
  BY DEF IsRing
<1>2. \A i \in 1 .. k : c[Place(n, b, i - 1)] \in CellValues
  BY <1>1, PlaceIn DEF IsRing
<1> QED BY <1>1, <1>2 DEF Unrolled

Ahead(e, s) == <<e>> \o s

\* c with e written into cell i.
Written(c, i, e) == [c EXCEPT ![i] = e]

\* What the operations do to a ring: an entry written behind the last one, or
\* in front of the first, and the first or the last one left out.
LEMMA RingAppend ==
  ASSUME NEW c, NEW n \in Nat \ {0}, NEW b, NEW k, IsRing(c, n, b, k), k # n,
         NEW e \in E!Entries,
         NEW m \in 0 .. n, k < m, m <= k + 1,
         NEW d, d = Written(c, Place(n, b, k), e)
  PROVE  /\ IsRing(d, n, b, m)
         /\ Unrolled(d, n, b, m) = Append(Unrolled(c, n, b, k), e)
<1>0. m = k + 1
  BY DEF IsRing
<1> DEFINE u == Unrolled(c, n, b, k)
           v == Unrolled(d, n, b, k + 1)
<1>1. /\ k \in 0 .. n - 1 /\ k \in Nat /\ k + 1 \in 0 .. n
      /\ \A i \in 1 .. k : i - 1 \in 0 .. n - 1 /\ i - 1 # k
  BY DEF IsRing
<1>2. IsRing(d, n, b, k + 1)
  BY <1>1 DEF IsRing, CellValues, Written
<1>3. /\ v \in Seq(CellValues) /\ Len(v) = k + 1
      /\ \A i \in 1 .. k + 1 : v[i] = d[Place(n, b, i - 1)]
  <2>1. v \in Seq(CellValues)
    BY <1>2, UnrolledSeq, Zenon
  <2>2. k + 1 \in Nat
    BY <1>1
  <2>3. Len(v) = k + 1 /\ \A i \in 1 .. k + 1 : v[i] = d[Place(n, b, i - 1)]
    BY <2>2 DEF Unrolled
  <2> QED BY <2>1, <2>3
<1>4. /\ u \in Seq(CellValues) /\ Len(u) = k
      /\ \A i \in 1 .. k : u[i] = c[Place(n, b, i - 1)]
  <2>1. u \in Seq(CellValues)
    BY UnrolledSeq, Zenon
  <2>2. k \in Nat
    BY <1>1
  <2>3. Len(u) = k /\ \A i \in 1 .. k : u[i] = c[Place(n, b, i - 1)]
    BY <2>2, UnrolledAt
  <2> QED BY <2>1, <2>3
<1>5. Place(n, b, k) \in 0 .. n - 1
  BY <1>1, PlaceIn DEF IsRing
<1>6. d[Place(n, b, k)] = e
  <2>1. c \in [0 .. n - 1 -> CellValues]
    BY DEF IsRing
  <2> QED BY <1>5, <2>1 DEF Written
<1>7. \A i \in 1 .. k : d[Place(n, b, i - 1)] = c[Place(n, b, i - 1)]
  BY <1>1, <1>5, PlaceIn, PlaceInj DEF IsRing, Written
<1> HIDE DEF u, v
<1>8. v[k + 1] = e
  <2>1. k + 1 \in 1 .. k + 1 /\ (k + 1) - 1 = k
    BY <1>1
  <2>2. v[k + 1] = d[Place(n, b, (k + 1) - 1)]
    BY <1>3, <2>1
  <2> QED BY <1>6, <2>1, <2>2
<1>9. ASSUME NEW i \in 1 .. k  PROVE v[i] = u[i]
  <2>1. i \in 1 .. k + 1
    BY <1>1
  <2> QED BY <1>3, <1>4, <1>7, <2>1
<1>10. /\ Append(u, e) \in Seq(CellValues)
       /\ Len(Append(u, e)) = k + 1 /\ Append(u, e)[k + 1] = e
       /\ \A i \in 1 .. k : Append(u, e)[i] = u[i]
  BY <1>1, <1>4 DEF CellValues
<1>11. \A i \in 1 .. k + 1 : v[i] = Append(u, e)[i]
  BY <1>1, <1>8, <1>9, <1>10
<1>12. v = Append(u, e)
  BY <1>3, <1>10, <1>11, SeqEqual
<1> QED BY <1>0, <1>2, <1>12 DEF u, v

LEMMA RingPrepend ==
  ASSUME NEW c, NEW n \in Nat \ {0}, NEW b, NEW k, IsRing(c, n, b, k), k # n,
         NEW e \in E!Entries,
         NEW m \in 0 .. n, k < m, m <= k + 1,
         NEW a, a = E!Before(b, n), NEW d, d = Written(c, a, e)
  PROVE  /\ IsRing(d, n, a, m)
         /\ Unrolled(d, n, a, m) = Ahead(e, Unrolled(c, n, b, k))
<1>0. m = k + 1
  BY DEF IsRing
<1> DEFINE u == Unrolled(c, n, b, k)
           v == Unrolled(d, n, a, k + 1)
<1>1. /\ k \in 0 .. n - 1 /\ k \in Nat /\ k + 1 \in 0 .. n
      /\ \A i \in 1 .. k : i - 1 \in 0 .. n - 1 /\ i \in 0 .. n - 1 /\ i # 0
      /\ 0 \in 0 .. n - 1
  BY DEF IsRing
<1>2. a \in 0 .. n - 1
  BY PlaceBefore DEF IsRing
<1>3. IsRing(d, n, a, k + 1)
  BY <1>1, <1>2 DEF IsRing, CellValues, Written
<1>4. /\ v \in Seq(CellValues) /\ Len(v) = k + 1
      /\ \A i \in 1 .. k + 1 : v[i] = d[Place(n, a, i - 1)]
  <2>1. v \in Seq(CellValues)
    BY <1>3, UnrolledSeq, Zenon
  <2>2. k + 1 \in Nat
    BY <1>1
  <2>3. Len(v) = k + 1 /\ \A i \in 1 .. k + 1 : v[i] = d[Place(n, a, i - 1)]
    BY <2>2 DEF Unrolled
  <2> QED BY <2>1, <2>3
<1>5. /\ u \in Seq(CellValues) /\ Len(u) = k
      /\ \A i \in 1 .. k : u[i] = c[Place(n, b, i - 1)]
  <2>1. u \in Seq(CellValues)
    BY UnrolledSeq, Zenon
  <2>2. k \in Nat
    BY <1>1
  <2>3. Len(u) = k /\ \A i \in 1 .. k : u[i] = c[Place(n, b, i - 1)]
    BY <2>2, UnrolledAt
  <2> QED BY <2>1, <2>3
<1>6. Place(n, a, 0) = a
  BY <1>2, PlaceZero
<1>7. ASSUME NEW i \in 1 .. k
      PROVE  d[Place(n, a, i)] = c[Place(n, b, i - 1)]
  <2>1. Place(n, a, i) # a /\ Place(n, a, i) \in 0 .. n - 1
    BY <1>1, <1>2, <1>6, PlaceIn, PlaceInj
  <2>2. Place(n, a, (i - 1) + 1) = Place(n, b, i - 1)
    BY <1>1, PlaceBefore DEF IsRing
  <2>3. (i - 1) + 1 = i
    OBVIOUS
  <2> QED BY <2>1, <2>2, <2>3 DEF IsRing, Written
<1>8. d[a] = e
  BY <1>2 DEF IsRing, Written
<1> HIDE DEF u, v
<1>9. v[1] = e
  <2>1. 1 \in 1 .. k + 1 /\ 1 - 1 = 0
    BY <1>1
  <2>2. v[1] = d[Place(n, a, 1 - 1)]
    BY <1>4, <2>1
  <2> QED BY <1>6, <1>8, <2>1, <2>2
<1>10. ASSUME NEW i \in 1 .. k  PROVE v[i + 1] = u[i]
  <2>1. i + 1 \in 1 .. k + 1 /\ (i + 1) - 1 = i
    BY <1>1
  <2>2. v[i + 1] = d[Place(n, a, (i + 1) - 1)]
    BY <1>4, <2>1
  <2> QED BY <1>5, <1>7, <2>1, <2>2
<1>11. e \in CellValues /\ <<e>> \in Seq(CellValues)
       /\ Len(<<e>>) = 1
  BY DEF CellValues
<1>12. /\ <<e>> \o u \in Seq(CellValues)
       /\ Len(<<e>> \o u) = k + 1
       /\ \A i \in 1 .. k + 1 :
            (<<e>> \o u)[i] = IF i <= 1 THEN <<e>>[i] ELSE u[i - 1]
  BY <1>1, <1>5, <1>11, ConcatProperties
<1>13. ASSUME NEW i \in 1 .. k + 1  PROVE v[i] = (<<e>> \o u)[i]
  <2>1. CASE i = 1
    BY <1>9, <1>12, <2>1
  <2>2. CASE i # 1
    <3>1. i - 1 \in 1 .. k /\ (i - 1) + 1 = i /\ ~(i <= 1)
      BY <1>1, <2>2
    <3> QED BY <1>10, <1>12, <3>1
  <2> QED BY <2>1, <2>2
<1>14. v = <<e>> \o u
  BY <1>4, <1>12, <1>13, SeqEqual
<1> QED BY <1>0, <1>3, <1>14 DEF u, v, Ahead

Rest(s) == Tail(s)

SameBut(d, c, n, b) == \A j \in 0 .. n - 1 : j # b => d[j] = c[j]

LEMMA RingTail ==
  ASSUME NEW c, NEW n \in Nat \ {0}, NEW b, NEW k, IsRing(c, n, b, k), k # 0,
         NEW a, a = E!After(b, n),
         NEW m \in 0 .. n, m < k, k <= m + 1,
         NEW d, IsRing(d, n, a, m),
         SameBut(d, c, n, b)
  PROVE  Unrolled(d, n, a, m) = Rest(Unrolled(c, n, b, k))
<1>0. m = k - 1
  BY DEF IsRing
<1> DEFINE u == Unrolled(c, n, b, k)
           v == Unrolled(d, n, a, k - 1)
<1>1. /\ k \in 1 .. n /\ k \in Nat /\ k - 1 \in Nat
      /\ \A i \in 1 .. k - 1 : /\ i - 1 \in 0 .. n - 1 /\ i \in 0 .. n - 1
                               /\ i # 0 /\ i + 1 \in 1 .. k
      /\ 0 \in 0 .. n - 1 /\ b \in 0 .. n - 1
  BY DEF IsRing
<1>2. /\ v \in Seq(CellValues) /\ Len(v) = k - 1
      /\ \A i \in 1 .. k - 1 : v[i] = d[Place(n, a, i - 1)]
  <2>1. v \in Seq(CellValues)
    BY <1>0, UnrolledSeq, Zenon
  <2>2. Len(v) = k - 1 /\ \A i \in 1 .. k - 1 : v[i] = d[Place(n, a, i - 1)]
    BY <1>1 DEF Unrolled
  <2> QED BY <2>1, <2>2
<1>3. /\ u \in Seq(CellValues) /\ Len(u) = k
      /\ \A i \in 1 .. k : u[i] = c[Place(n, b, i - 1)]
  <2>1. u \in Seq(CellValues)
    BY UnrolledSeq, Zenon
  <2>2. Len(u) = k /\ \A i \in 1 .. k : u[i] = c[Place(n, b, i - 1)]
    BY <1>1, UnrolledAt
  <2> QED BY <2>1, <2>2
<1> HIDE DEF u, v
<1>4. ASSUME NEW i \in 1 .. k - 1  PROVE v[i] = u[i + 1]
  <2>1. Place(n, a, i - 1) = Place(n, b, (i - 1) + 1)
    BY <1>1, PlaceAfter
  <2>2. (i - 1) + 1 = i /\ (i + 1) - 1 = i /\ i + 1 \in 1 .. k
    BY <1>1
  <2>3. Place(n, b, i) \in 0 .. n - 1 /\ Place(n, b, i) # b
    BY <1>1, PlaceIn, PlaceInj, PlaceZero
  <2>4. u[i + 1] = c[Place(n, b, (i + 1) - 1)]
    BY <1>3, <2>2
  <2>5. v[i] = d[Place(n, b, i)]
    BY <1>2, <2>1, <2>2
  <2> QED BY <2>2, <2>3, <2>4, <2>5 DEF SameBut
<1>5. u # <<>>
  BY <1>1, <1>3
<1>6. /\ Tail(u) \in Seq(CellValues) /\ Len(Tail(u)) = k - 1
      /\ \A i \in 1 .. k - 1 : Tail(u)[i] = u[i + 1]
  BY <1>3, <1>5, HeadTailProperties
<1>7. \A i \in 1 .. k - 1 : v[i] = Tail(u)[i]
  BY <1>4, <1>6
<1>8. v = Tail(u)
  BY <1>2, <1>6, <1>7, SeqEqual
<1> QED BY <1>0, <1>8 DEF u, v, Rest

LEMMA RingFront ==
  ASSUME NEW c, NEW n \in Nat \ {0}, NEW b, NEW k, IsRing(c, n, b, k), k # 0,
         NEW m \in 0 .. n, m < k, k <= m + 1
  PROVE  /\ IsRing(c, n, b, m)
         /\ Unrolled(c, n, b, m) = SubSeq(Unrolled(c, n, b, k), 1, k - 1)
<1>0. m = k - 1
  BY DEF IsRing
<1> DEFINE u == Unrolled(c, n, b, k)
           v == Unrolled(c, n, b, k - 1)
<1>1. /\ k \in 1 .. n /\ k \in Nat /\ k - 1 \in Nat /\ k - 1 \in 0 .. n
      /\ \A i \in 1 .. k - 1 : i \in 1 .. k
  BY DEF IsRing
<1>2. IsRing(c, n, b, k - 1)
  BY <1>1 DEF IsRing
<1>3. /\ v \in Seq(CellValues) /\ Len(v) = k - 1
      /\ \A i \in 1 .. k - 1 : v[i] = c[Place(n, b, i - 1)]
  <2>1. v \in Seq(CellValues)
    BY <1>2, UnrolledSeq, Zenon
  <2>2. Len(v) = k - 1 /\ \A i \in 1 .. k - 1 : v[i] = c[Place(n, b, i - 1)]
    BY <1>1 DEF Unrolled
  <2> QED BY <2>1, <2>2
<1>4. /\ u \in Seq(CellValues) /\ Len(u) = k
      /\ \A i \in 1 .. k : u[i] = c[Place(n, b, i - 1)]
  <2>1. u \in Seq(CellValues)
    BY UnrolledSeq, Zenon
  <2>2. Len(u) = k /\ \A i \in 1 .. k : u[i] = c[Place(n, b, i - 1)]
    BY <1>1, UnrolledAt
  <2> QED BY <2>1, <2>2
<1>5. m \in Int /\ m >= 0 /\ \A i \in 1 .. m : i \in 1 .. k /\ u[i] \in CellValues
  BY <1>0, <1>1, <1>4, ElementOfSeq
<1>6. Len(v) = m /\ \A i \in 1 .. m : v[i] = u[i]
  BY <1>0, <1>1, <1>3, <1>4
<1> HIDE DEF u, v
<1>7. /\ SubSeq(u, 1, m) \in Seq(CellValues) /\ Len(SubSeq(u, 1, m)) = m
      /\ \A i \in 1 .. m : SubSeq(u, 1, m)[i] = u[i]
  BY <1>4, <1>5
<1>8. v = SubSeq(u, 1, m)
  BY <1>3, <1>6, <1>7, SeqEqual
<1> QED BY <1>0, <1>2, <1>8 DEF u, v

\* Sequences without repetition, and what they hold.
Vals(s) == {s[i] : i \in 1 .. Len(s)}

Simple(s) == /\ s \in Seq(E!Entries)
             /\ \A i, j \in 1 .. Len(s) : s[i] = s[j] => i = j

LEMMA SimpleAppend ==
  ASSUME NEW s, Simple(s), NEW e \in E!Entries, e \notin Vals(s),
         NEW t, t = Append(s, e)
  PROVE  Simple(t) /\ Vals(t) = Vals(s) \cup {e} /\ Len(t) = Len(s) + 1
<1> DEFINE n == Len(s)
<1>1. s \in Seq(E!Entries) /\ n \in Nat
  BY DEF Simple
<1>2. /\ t \in Seq(E!Entries) /\ Len(t) = n + 1 /\ t[n + 1] = e
      /\ \A i \in 1 .. n : t[i] = s[i]
  BY <1>1
<1>3. \A i \in 1 .. n : s[i] # e
  BY DEF Vals
<1>4. \A i, j \in 1 .. n : s[i] = s[j] => i = j
  BY DEF Simple
<1> HIDE DEF n
<1>5. \A i \in 1 .. n + 1 : i \in 1 .. n \/ i = n + 1
  BY <1>1
<1>6. \A i, j \in 1 .. n + 1 : t[i] = t[j] => i = j
  BY <1>2, <1>3, <1>4, <1>5
<1>7. 1 .. n + 1 = (1 .. n) \cup {n + 1}
  BY <1>1
<1>8. Vals(s) = {s[i] : i \in 1 .. n}
  BY DEF Vals, n
<1>9. Vals(t) = Vals(s) \cup {e}
  BY <1>2, <1>7, <1>8 DEF Vals
<1> QED BY <1>2, <1>6, <1>9 DEF Simple, n

LEMMA SimplePrepend ==
  ASSUME NEW s, Simple(s), NEW e \in E!Entries, e \notin Vals(s),
         NEW t, t = <<e>> \o s
  PROVE  Simple(t) /\ Vals(t) = Vals(s) \cup {e} /\ Len(t) = Len(s) + 1
<1> DEFINE n == Len(s)
<1>1. s \in Seq(E!Entries) /\ n \in Nat
  BY DEF Simple
<1>2. <<e>> \in Seq(E!Entries) /\ Len(<<e>>) = 1 /\ <<e>>[1] = e
  OBVIOUS
<1>3. /\ t \in Seq(E!Entries) /\ Len(t) = n + 1
      /\ \A i \in 1 .. n + 1 : t[i] = IF i <= 1 THEN <<e>>[i] ELSE s[i - 1]
  BY <1>1, <1>2, ConcatProperties
<1>4. \A i \in 1 .. n : s[i] # e
  BY DEF Vals
<1>5. \A i, j \in 1 .. n : s[i] = s[j] => i = j
  BY DEF Simple
<1> HIDE DEF n
<1>6. t[1] = e /\ 1 \in 1 .. n + 1
  BY <1>1, <1>2, <1>3
<1>7. ASSUME NEW i \in 1 .. n  PROVE i + 1 \in 1 .. n + 1 /\ t[i + 1] = s[i]
  <2>1. i + 1 \in 1 .. n + 1 /\ ~(i + 1 <= 1) /\ (i + 1) - 1 = i
    BY <1>1
  <2> QED BY <1>3, <2>1
<1>8. ASSUME NEW i \in 1 .. n + 1, i # 1
      PROVE  i - 1 \in 1 .. n /\ t[i] = s[i - 1]
  <2>1. i - 1 \in 1 .. n /\ ~(i <= 1)
    BY <1>1, <1>8
  <2> QED BY <1>3, <2>1
<1>9. ASSUME NEW i \in 1 .. n + 1, NEW j \in 1 .. n + 1, t[i] = t[j]
      PROVE  i = j
  <2>1. CASE i # 1 /\ j # 1
    <3>1. i - 1 = j - 1
      BY <1>5, <1>8, <1>9, <2>1
    <3> QED BY <3>1
  <2>2. CASE i = 1 \/ j = 1
    BY <1>4, <1>6, <1>8, <1>9, <2>2
  <2> QED BY <2>1, <2>2
<1>10. Vals(s) = {s[i] : i \in 1 .. n}
  BY DEF Vals, n
<1>11. Vals(t) = Vals(s) \cup {e}
  <2>1. Vals(t) = {t[i] : i \in 1 .. n + 1}
    BY <1>3 DEF Vals
  <2>2. ASSUME NEW x \in Vals(t)  PROVE x \in Vals(s) \cup {e}
    <3>1. PICK i \in 1 .. n + 1 : x = t[i]
      BY <2>1
    <3> QED BY <1>6, <1>8, <1>10, <3>1
  <2>3. Vals(s) \cup {e} \subseteq Vals(t)
    BY <1>6, <1>7, <1>10, <2>1
  <2> QED BY <2>2, <2>3
<1> QED BY <1>3, <1>9, <1>11 DEF Simple, n

LEMMA SimpleTail ==
  ASSUME NEW s, Simple(s), s # <<>>, NEW t, t = Tail(s)
  PROVE  /\ Simple(t) /\ Len(t) = Len(s) - 1
         /\ Head(s) = s[1] /\ s[1] \in Vals(s) /\ Vals(t) = Vals(s) \ {s[1]}
<1> DEFINE n == Len(s)
<1>1. s \in Seq(E!Entries) /\ n \in Nat \ {0}
  BY DEF Simple
<1>2. /\ t \in Seq(E!Entries) /\ Len(t) = n - 1
      /\ \A i \in 1 .. n - 1 : t[i] = s[i + 1]
  BY <1>1, HeadTailProperties
<1>3. \A i, j \in 1 .. n : s[i] = s[j] => i = j
  BY DEF Simple
<1>4. Head(s) = s[1]
  BY <1>1
<1> HIDE DEF n
<1>5. \A i \in 1 .. n - 1 : i + 1 \in 1 .. n /\ i + 1 # 1
  BY <1>1
<1>6. ASSUME NEW i \in 1 .. n - 1, NEW j \in 1 .. n - 1, t[i] = t[j]
      PROVE  i = j
  <2>1. i + 1 = j + 1
    BY <1>2, <1>3, <1>5, <1>6
  <2> QED BY <2>1
<1>7. Vals(s) = {s[i] : i \in 1 .. n} /\ Vals(t) = {t[i] : i \in 1 .. n - 1}
  BY <1>2 DEF Vals, n
<1>8. 1 \in 1 .. n
  BY <1>1
<1>9. ASSUME NEW x \in Vals(t)  PROVE x \in Vals(s) \ {s[1]}
  <2>1. PICK i \in 1 .. n - 1 : x = t[i]
    BY <1>7
  <2>2. x = s[i + 1] /\ s[i + 1] # s[1]
    BY <1>2, <1>3, <1>5, <1>8, <2>1
  <2> QED BY <1>5, <1>7, <2>2
<1>10. ASSUME NEW x \in Vals(s), x # s[1]  PROVE x \in Vals(t)
  <2>1. PICK i \in 1 .. n : x = s[i]
    BY <1>7
  <2>2. i - 1 \in 1 .. n - 1 /\ (i - 1) + 1 = i
    BY <1>1, <1>10, <2>1
  <2>3. x = t[i - 1]
    BY <1>2, <2>1, <2>2
  <2> QED BY <1>7, <2>2, <2>3
<1>11. Vals(t) = Vals(s) \ {s[1]}
  BY <1>9, <1>10
<1>12. s[1] \in Vals(s)
  BY <1>7, <1>8
<1> QED BY <1>2, <1>4, <1>6, <1>11, <1>12 DEF Simple, n

LEMMA SimpleFront ==
  ASSUME NEW s, Simple(s), s # <<>>, NEW t, t = SubSeq(s, 1, Len(s) - 1)
  PROVE  /\ Simple(t) /\ Len(t) = Len(s) - 1
         /\ s[Len(s)] \in Vals(s) /\ Vals(t) = Vals(s) \ {s[Len(s)]}
<1> DEFINE n == Len(s)
<1>1. s \in Seq(E!Entries) /\ n \in Nat \ {0}
  BY DEF Simple
<1>2. /\ t \in Seq(E!Entries) /\ Len(t) = n - 1
      /\ \A i \in 1 .. n - 1 : t[i] = s[i]
  <2> DEFINE m == n - 1
  <2>1. m \in Int /\ m >= 0 /\ \A i \in 1 .. m : i \in 1 .. n /\ s[i] \in E!Entries
    BY <1>1, ElementOfSeq
  <2>2. t = SubSeq(s, 1, m)
    OBVIOUS
  <2> HIDE DEF m, n
  <2>3. t \in Seq(E!Entries) /\ Len(t) = m /\ \A i \in 1 .. m : t[i] = s[i]
    BY <1>1, <2>1, <2>2
  <2> QED BY <2>3 DEF m
<1>3. \A i, j \in 1 .. n : s[i] = s[j] => i = j
  BY DEF Simple
<1>4. Vals(s) = {s[i] : i \in 1 .. n} /\ Vals(t) = {t[i] : i \in 1 .. n - 1}
  BY <1>2 DEF Vals
<1> HIDE DEF n
<1>5. \A i \in 1 .. n - 1 : i \in 1 .. n /\ i # n
  BY <1>1
<1>6. \A i, j \in 1 .. n - 1 : t[i] = t[j] => i = j
  BY <1>2, <1>3, <1>5
<1>7. n \in 1 .. n /\ \A i \in 1 .. n : i # n => i \in 1 .. n - 1
  BY <1>1
<1>8. ASSUME NEW x \in Vals(t)  PROVE x \in Vals(s) \ {s[n]}
  <2>1. PICK i \in 1 .. n - 1 : x = t[i]
    BY <1>4
  <2>2. x = s[i] /\ s[i] # s[n]
    BY <1>2, <1>3, <1>5, <1>7, <2>1
  <2> QED BY <1>4, <1>5, <2>2
<1>9. ASSUME NEW x \in Vals(s), x # s[n]  PROVE x \in Vals(t)
  BY <1>2, <1>4, <1>7, <1>9
<1>10. Vals(t) = Vals(s) \ {s[n]}
  BY <1>8, <1>9
<1>11. s[n] \in Vals(s)
  BY <1>4, <1>7
<1> QED BY <1>2, <1>6, <1>10, <1>11 DEF Simple, n

\* Every entry is in the pool, on the stack or in hand, once.
Split(p, c, h) ==
  /\ Simple(p) /\ Simple(c) /\ h \subseteq E!Entries
  /\ Vals(p) \cap Vals(c) = {} /\ Vals(p) \cap h = {} /\ Vals(c) \cap h = {}
  /\ Len(p) + Len(c) + Cardinality(h) = PoolSize

LEMMA SplitFacts ==
  ASSUME NEW p, NEW c, NEW h, Split(p, c, h)
  PROVE  /\ Split(c, p, h)
         /\ Len(p) \in Nat /\ Len(c) \in Nat
         /\ IsFiniteSet(h) /\ Cardinality(h) \in Nat
         /\ Vals(p) \subseteq E!Entries /\ Vals(c) \subseteq E!Entries
<1>1. Len(p) \in Nat /\ Len(c) \in Nat
  BY DEF Split, Simple
<1>2. IsFiniteSet(E!Entries)
  BY Sizes, FS_Interval DEF E!Entries
<1>3. IsFiniteSet(h)
  BY <1>2, FS_Subset DEF Split
<1>4. Cardinality(h) \in Nat
  BY <1>3, FS_CardinalityType
<1>5. Vals(p) \subseteq E!Entries /\ Vals(c) \subseteq E!Entries
  BY DEF Split, Simple, Vals
<1>6. Len(c) + Len(p) + Cardinality(h) = PoolSize
  BY <1>1, <1>4 DEF Split
<1>7. Split(c, p, h)
  BY <1>6 DEF Split
<1> QED BY <1>1, <1>3, <1>4, <1>5, <1>7

\* An entry is taken in hand, or given back.
LEMMA SplitTake ==
  ASSUME NEW p, NEW c, NEW h, Split(p, c, h), NEW e \in Vals(p),
         NEW q, Simple(q), Vals(q) = Vals(p) \ {e}, Len(q) = Len(p) - 1
  PROVE  Split(q, c, h \cup {e})
<1>1. e \in E!Entries /\ e \notin h /\ e \notin Vals(c)
  BY SplitFacts DEF Split
<1>2. Cardinality(h \cup {e}) = Cardinality(h) + 1
  BY <1>1, SplitFacts, FS_AddElement
<1>3. Len(q) + Len(c) + Cardinality(h \cup {e}) = PoolSize
  BY <1>2, SplitFacts DEF Split
<1> QED BY <1>1, <1>3 DEF Split

LEMMA SplitGive ==
  ASSUME NEW p, NEW c, NEW h, Split(p, c, h), NEW e \in h,
         NEW q, Simple(q), Vals(q) = Vals(p) \cup {e}, Len(q) = Len(p) + 1
  PROVE  Split(q, c, h \ {e})
<1>1. e \in E!Entries /\ e \notin Vals(p) /\ e \notin Vals(c)
  BY DEF Split
<1>2. Cardinality(h \ {e}) = Cardinality(h) - 1
  BY SplitFacts, FS_RemoveElement
<1>3. Len(q) + Len(c) + Cardinality(h \ {e}) = PoolSize
  BY <1>2, SplitFacts DEF Split
<1> QED BY <1>1, <1>3 DEF Split

\* What is in the rings, as sequences.
InPool  == Unrolled(queue, PoolSize, index, free)
OnStack == Unrolled(stack, StackSize, bottom, size)

\* The invariant: cells and counters have their types, top is the last place,
\* and no entry is lost or doubled.
RingTypes ==
  /\ IsRing(queue, PoolSize, index, free)
  /\ IsRing(stack, StackSize, bottom, size)
  /\ top = IF size = 0 THEN bottom ELSE Place(StackSize, bottom, size - 1)

RingInv == RingTypes /\ Split(InPool, OnStack, hand)

\* RingInv is what Contents, Free and TwoRings say.
LEMMA Readings ==
  ASSUME RingInv
  PROVE  E!Contents = OnStack /\ E!Free = Vals(InPool)
<1>1. /\ size \in 0 .. StackSize /\ bottom \in 0 .. StackSize - 1
      /\ free \in 0 .. PoolSize /\ index \in 0 .. PoolSize - 1
  BY DEF RingInv, RingTypes, IsRing
<1>2. E!Contents = [i \in 1 .. size |-> stack[((i - 1) + bottom) % StackSize]]
  BY DEF E!Contents, E!Element
<1>3. ASSUME NEW i \in 1 .. size
      PROVE  ((i - 1) + bottom) % StackSize = Place(StackSize, bottom, i - 1)
  <2>1. i - 1 \in 0 .. StackSize
    BY <1>1, Sizes
  <2> QED BY <1>1, <2>1, Sizes, PlaceIsMod
<1>4. E!Contents = OnStack
  BY <1>2, <1>3 DEF OnStack, Unrolled
<1>5. E!Free = {queue[E!Wrapped(index + i)] : i \in 0 .. free - 1}
  BY DEF E!Free, E!Cell
<1>6. ASSUME NEW i \in 0 .. free - 1
      PROVE  E!Wrapped(index + i) = Place(PoolSize, index, i)
  BY <1>1, Sizes DEF E!Wrapped, Place
<1>7. E!Free = {queue[Place(PoolSize, index, i)] : i \in 0 .. free - 1}
  BY <1>5, <1>6
<1>8. /\ Len(InPool) = free
      /\ \A i \in 1 .. free : InPool[i] = queue[Place(PoolSize, index, i - 1)]
  <2>1. free \in Nat
    BY <1>1
  <2> QED BY <2>1, UnrolledAt DEF InPool
<1>9. Vals(InPool) = {queue[Place(PoolSize, index, i - 1)] : i \in 1 .. free}
  BY <1>8 DEF Vals
<1>10. \A i \in 0 .. free - 1 : i + 1 \in 1 .. free /\ (i + 1) - 1 = i
  BY <1>1
<1>11. \A i \in 1 .. free : i - 1 \in 0 .. free - 1
  BY <1>1
<1>12. ASSUME NEW x \in E!Free  PROVE x \in Vals(InPool)
  <2>1. PICK i \in 0 .. free - 1 : x = queue[Place(PoolSize, index, i)]
    BY <1>7
  <2>2. x = queue[Place(PoolSize, index, (i + 1) - 1)]
    BY <1>10, <2>1
  <2> QED BY <1>9, <1>10, <2>2
<1>13. ASSUME NEW x \in Vals(InPool)  PROVE x \in E!Free
  BY <1>7, <1>9, <1>11
<1> QED BY <1>4, <1>12, <1>13

LEMMA RingInitInv == ASSUME E!Init  PROVE RingInv
<1>1. /\ stack = [i \in 0 .. StackSize - 1 |-> NoEntry]
      /\ top = 0 /\ bottom = 0 /\ size = 0
      /\ queue = [i \in 0 .. PoolSize - 1 |-> i]
      /\ index = 0 /\ free = PoolSize /\ hand = {}
  BY DEF E!Init
<1>2. RingTypes
  BY <1>1, Sizes DEF RingTypes, IsRing, CellValues, E!Entries
<1>3. \A i \in 1 .. PoolSize : Place(PoolSize, 0, i - 1) = i - 1
                               /\ i - 1 \in 0 .. PoolSize - 1
  BY Sizes DEF Place
<1>4. InPool = [i \in 1 .. PoolSize |-> i - 1]
  BY <1>1, <1>3 DEF InPool, Unrolled
<1>5. InPool \in Seq(E!Entries) /\ Len(InPool) = PoolSize
      /\ \A i \in 1 .. PoolSize : InPool[i] = i - 1
  BY <1>3, <1>4, Sizes DEF E!Entries
<1>6. Simple(InPool)
  BY <1>5, Sizes DEF Simple
<1>7. OnStack = <<>>
  BY <1>1 DEF OnStack, Unrolled
<1>8. Simple(OnStack) /\ Vals(OnStack) = {} /\ Len(OnStack) = 0
  BY <1>7 DEF Simple, Vals
<1>9. Cardinality(hand) = 0
  BY <1>1, FS_EmptySet
<1>10. Len(InPool) + Len(OnStack) + Cardinality(hand) = PoolSize
  BY <1>5, <1>8, <1>9, Sizes
<1> QED BY <1>1, <1>2, <1>6, <1>8, <1>10 DEF RingInv, Split

Reads == E!Contents = OnStack /\ E!Free = Vals(InPool)

LEMMA ReadsNext == RingInv' => Reads'
<1>1. RingInv => Reads
  BY Readings DEF Reads
<1> QED BY <1>1, PTL

LEMMA ReadingsNext ==
  ASSUME RingInv'
  PROVE  E!Contents' = OnStack' /\ E!Free' = Vals(InPool')
BY ReadsNext DEF Reads

LEMMA RingSame ==
  ASSUME RingInv,
         UNCHANGED <<stack, top, bottom, size, queue, index, free, hand>>
  PROVE  RingInv' /\ UNCHANGED <<E!Contents, E!Free, hand>>
<1>1. InPool' = InPool /\ OnStack' = OnStack
  BY DEF InPool, OnStack
<1>2. RingInv'
  BY <1>1 DEF RingInv, RingTypes
<1> QED BY <1>1, <1>2, Readings, ReadingsNext

\* Each operation keeps the invariant, and is the operation of Store.
LEMMA GetRefines ==
  ASSUME RingInv, E!Get
  PROVE  RingInv' /\ E!Abstract!Get
<1>1. CASE free = 0
  <2>1. UNCHANGED <<stack, top, bottom, size, queue, index, free, hand>>
    BY <1>1 DEF E!Get, E!stackVars, E!poolVars
  <2>2. RingInv' /\ UNCHANGED <<E!Contents, E!Free, hand>>
    BY <2>1, RingSame
  <2>3. E!Free = {}
    BY <1>1 DEF E!Free
  <2> QED BY <2>2, <2>3 DEF E!Abstract!Get, E!Abstract!store
<1>2. CASE free # 0
  <2>1. /\ hand' = hand \cup {queue[index]}
        /\ queue' = [queue EXCEPT ![index] = NoEntry]
        /\ index' = E!After(index, PoolSize) /\ free' = free - 1
        /\ UNCHANGED <<stack, top, bottom, size>>
    BY <1>2 DEF E!Get, E!stackVars
  <2>2. IsRing(queue, PoolSize, index, free) /\ Split(InPool, OnStack, hand)
    BY DEF RingInv, RingTypes
  <2>3. IsRing(queue', PoolSize, index', free')
    BY <1>2, <2>1, <2>2, Sizes, PlaceAfter DEF IsRing, CellValues
  <2>4. SameBut(queue', queue, PoolSize, index)
    BY <2>1, <2>2 DEF IsRing, SameBut
  <2>5. InPool' = Tail(InPool)
    <3>1. index' = E!After(index, PoolSize) /\ free' = free - 1
      BY <2>1
    <3>2. IsRing(queue, PoolSize, index, free)
      BY <2>2
    <3>3. free' \in 0 .. PoolSize /\ free' < free /\ free <= free' + 1
      BY <2>3, <3>1, <3>2, Sizes DEF IsRing
    <3>4. Unrolled(queue', PoolSize, index', free')
            = Rest(Unrolled(queue, PoolSize, index, free))
      BY <1>2, <2>3, <2>4, <3>1, <3>2, <3>3, Sizes, RingTail
    <3> QED BY <3>4 DEF InPool, Rest
  <2>6. Simple(InPool) /\ Len(InPool) = free /\ InPool # <<>>
        /\ InPool[1] = queue[index]
    <3>1. free \in Nat \ {0} /\ 1 \in 1 .. free
      BY <1>2, <2>2 DEF IsRing
    <3>2. Len(InPool) = free
          /\ InPool[1] = queue[Place(PoolSize, index, 1 - 1)]
      BY <3>1, UnrolledAt DEF InPool
    <3>3. Place(PoolSize, index, 1 - 1) = index
      BY <2>2, Sizes, PlaceZero DEF IsRing
    <3>4. Simple(InPool)
      BY <2>2 DEF Split
    <3> QED BY <3>1, <3>2, <3>3, <3>4
  <2>7. /\ Simple(InPool') /\ Len(InPool') = Len(InPool) - 1
        /\ InPool[1] \in Vals(InPool)
        /\ Vals(InPool') = Vals(InPool) \ {InPool[1]}
    BY <2>5, <2>6, SimpleTail
  <2>8. OnStack' = OnStack
    BY <2>1 DEF OnStack
  <2>9. hand' = hand \cup {InPool[1]}
    BY <2>1, <2>6
  <2>10. Split(InPool', OnStack', hand')
    BY <2>2, <2>7, <2>8, <2>9, SplitTake
  <2>11. RingInv'
    BY <2>1, <2>3, <2>10 DEF RingInv, RingTypes
  <2>12. /\ E!Contents = OnStack /\ E!Free = Vals(InPool)
         /\ E!Contents' = OnStack' /\ E!Free' = Vals(InPool')
    BY <2>11, Readings, ReadingsNext
  <2> QED BY <2>7, <2>8, <2>9, <2>11, <2>12 DEF E!Abstract!Get
<1> QED BY <1>1, <1>2

LEMMA PutRefines ==
  ASSUME RingInv, NEW e \in hand, E!Put(e)
  PROVE  RingInv' /\ E!Abstract!Put(e)
<1>1. /\ IsRing(queue, PoolSize, index, free)
      /\ Split(InPool, OnStack, hand) /\ Simple(InPool)
      /\ e \in E!Entries /\ e \notin Vals(InPool)
  BY DEF RingInv, RingTypes, Split
<1>2. Len(InPool) = free /\ free \in Nat
  <2>1. free \in Nat
    BY <1>1 DEF IsRing
  <2> QED BY <2>1, UnrolledAt DEF InPool
<1>3. free < PoolSize
  <2>1. Cardinality(hand) # 0
    BY <1>1, SplitFacts, FS_EmptySet
  <2> QED BY <1>1, <1>2, <2>1, SplitFacts, Sizes DEF Split
<1>4. E!Wrapped(index + free) = Place(PoolSize, index, free)
  BY <1>1, Sizes DEF E!Wrapped, Place, IsRing
<1>5. /\ queue' = Written(queue, Place(PoolSize, index, free), e)
      /\ free' = free + 1 /\ hand' = hand \ {e}
      /\ UNCHANGED <<index, stack, top, bottom, size>>
  BY <1>2, <1>3, <1>4, Sizes DEF E!Put, E!stackVars, Written
<1>6. free' \in 0 .. PoolSize /\ free < free' /\ free' <= free + 1
      /\ free # PoolSize
  BY <1>2, <1>3, <1>5, Sizes
<1>7. /\ IsRing(queue', PoolSize, index, free')
      /\ Unrolled(queue', PoolSize, index, free')
           = Append(Unrolled(queue, PoolSize, index, free), e)
  BY <1>1, <1>5, <1>6, Sizes, RingAppend
<1>8. InPool' = Append(InPool, e) /\ OnStack' = OnStack
  BY <1>5, <1>7 DEF InPool, OnStack
<1>9. /\ Simple(InPool') /\ Len(InPool') = Len(InPool) + 1
      /\ Vals(InPool') = Vals(InPool) \cup {e}
  BY <1>1, <1>8, SimpleAppend
<1>10. Split(InPool', OnStack', hand')
  BY <1>1, <1>5, <1>8, <1>9, SplitGive
<1>11. RingInv'
  BY <1>5, <1>7, <1>10 DEF RingInv, RingTypes
<1>12. /\ E!Contents = OnStack /\ E!Free = Vals(InPool)
       /\ E!Contents' = OnStack' /\ E!Free' = Vals(InPool')
  BY <1>11, Readings, ReadingsNext
<1> QED BY <1>5, <1>8, <1>9, <1>11, <1>12 DEF E!Abstract!Put

\* The stack's side of the invariant.
LEMMA StackFacts ==
  ASSUME RingInv
  PROVE  /\ IsRing(stack, StackSize, bottom, size)
         /\ Split(OnStack, InPool, hand) /\ Simple(OnStack)
         /\ Len(OnStack) = size /\ size \in 0 .. StackSize
         /\ \A i \in 1 .. size : OnStack[i] = stack[Place(StackSize, bottom, i - 1)]
         /\ top = IF size = 0 THEN bottom
                  ELSE Place(StackSize, bottom, size - 1)
<1>1. /\ IsRing(stack, StackSize, bottom, size) /\ Split(OnStack, InPool, hand)
      /\ top = IF size = 0 THEN bottom ELSE Place(StackSize, bottom, size - 1)
  BY SplitFacts DEF RingInv, RingTypes
<1>2. Simple(OnStack) /\ size \in 0 .. StackSize /\ size \in Nat
  BY <1>1, Sizes DEF Split, IsRing
<1>3. /\ Len(OnStack) = size
      /\ \A i \in 1 .. size : OnStack[i] = stack[Place(StackSize, bottom, i - 1)]
  BY <1>2, UnrolledAt DEF OnStack
<1> QED BY <1>1, <1>2, <1>3

\* A push that is refused.
LEMMA PushRefused ==
  ASSUME RingInv, size = StackSize, NEW e \in hand,
         E!PushTop(e) \/ E!PushBottom(e)
  PROVE  RingInv' /\ E!Abstract!PushTop(e) /\ E!Abstract!PushBottom(e)
<1>1. UNCHANGED <<stack, top, bottom, size, queue, index, free, hand>>
  BY DEF E!PushTop, E!PushBottom, E!stackVars, E!poolVars
<1>2. RingInv' /\ UNCHANGED <<E!Contents, E!Free, hand>>
  BY <1>1, RingSame
<1>3. Len(E!Contents) = StackSize
  BY Readings, StackFacts
<1> QED BY <1>2, <1>3
     DEF E!Abstract!PushTop, E!Abstract!PushBottom, E!Abstract!store

LEMMA PushTopRefines ==
  ASSUME RingInv, NEW e \in hand, E!PushTop(e)
  PROVE  RingInv' /\ E!Abstract!PushTop(e)
<1>1. CASE size = StackSize
  BY <1>1, PushRefused
<1>2. CASE size # StackSize
  <2>1. /\ IsRing(stack, StackSize, bottom, size) /\ Simple(OnStack)
        /\ size \in 0 .. StackSize /\ bottom \in 0 .. StackSize - 1
        /\ e \in E!Entries /\ e \notin Vals(OnStack) /\ Len(OnStack) = size
        /\ Split(OnStack, InPool, hand)
    BY StackFacts DEF Split, IsRing
  <2>2. E!TopCell = Place(StackSize, bottom, size)
    <3>1. CASE size = 0
      BY <2>1, <3>1, StackFacts, Sizes, PlaceZero DEF E!TopCell
    <3>2. CASE size # 0
      <4>1. size - 1 \in 0 .. StackSize - 2 /\ size > 0 /\ (size - 1) + 1 = size
        BY <1>2, <2>1, <3>2, Sizes
      <4>2. top = Place(StackSize, bottom, size - 1)
        BY <3>2, StackFacts
      <4>3. E!After(Place(StackSize, bottom, size - 1), StackSize)
              = Place(StackSize, bottom, (size - 1) + 1)
        BY <2>1, <4>1, Sizes, PlaceMoves
      <4> QED BY <4>1, <4>2, <4>3 DEF E!TopCell
    <3> QED BY <3>1, <3>2
  <2>3. /\ top' = Place(StackSize, bottom, size)
        /\ stack' = Written(stack, Place(StackSize, bottom, size), e)
        /\ size' = size + 1 /\ hand' = hand \ {e}
        /\ UNCHANGED <<bottom, queue, index, free>>
    BY <1>2, <2>2 DEF E!PushTop, E!poolVars, Written
  <2>4. size' \in 0 .. StackSize /\ size < size' /\ size' <= size + 1
        /\ size' # 0 /\ size' - 1 = size
    BY <1>2, <2>1, <2>3, Sizes
  <2>5. /\ IsRing(stack', StackSize, bottom, size')
        /\ Unrolled(stack', StackSize, bottom, size')
             = Append(Unrolled(stack, StackSize, bottom, size), e)
    BY <1>2, <2>1, <2>3, <2>4, Sizes, RingAppend
  <2>6. OnStack' = Append(OnStack, e) /\ InPool' = InPool
    BY <2>3, <2>5 DEF InPool, OnStack
  <2>7. /\ Simple(OnStack') /\ Len(OnStack') = Len(OnStack) + 1
        /\ Vals(OnStack') = Vals(OnStack) \cup {e}
    BY <2>1, <2>6, SimpleAppend
  <2>8. Split(InPool', OnStack', hand')
    <3>1. Split(OnStack', InPool, hand')
      BY <2>1, <2>3, <2>7, SplitGive
    <3> QED BY <2>6, <3>1, SplitFacts
  <2>9. RingTypes'
    BY <2>3, <2>4, <2>5 DEF RingInv, RingTypes
  <2>10. RingInv'
    BY <2>8, <2>9 DEF RingInv
  <2>11. /\ E!Contents = OnStack /\ E!Free = Vals(InPool)
         /\ E!Contents' = OnStack' /\ E!Free' = Vals(InPool')
    BY <2>10, Readings, ReadingsNext
  <2> QED BY <1>2, <2>1, <2>3, <2>6, <2>10, <2>11 DEF E!Abstract!PushTop
<1> QED BY <1>1, <1>2

LEMMA PushBottomRefines ==
  ASSUME RingInv, NEW e \in hand, E!PushBottom(e)
  PROVE  RingInv' /\ E!Abstract!PushBottom(e)
<1>1. CASE size = StackSize
  BY <1>1, PushRefused
<1>2. CASE size # StackSize
  <2>1. /\ IsRing(stack, StackSize, bottom, size) /\ Simple(OnStack)
        /\ size \in 0 .. StackSize /\ bottom \in 0 .. StackSize - 1
        /\ e \in E!Entries /\ e \notin Vals(OnStack) /\ Len(OnStack) = size
        /\ Split(OnStack, InPool, hand)
    BY StackFacts DEF Split, IsRing
  <2>2. /\ bottom' = E!BottomCell
        /\ stack' = Written(stack, bottom', e)
        /\ size' = size + 1 /\ hand' = hand \ {e}
        /\ UNCHANGED <<top, queue, index, free>>
    BY <1>2 DEF E!PushBottom, E!poolVars, Written
  <2>3. size' \in 0 .. StackSize /\ size < size' /\ size' <= size + 1
        /\ size' # 0 /\ size' - 1 = size
    BY <1>2, <2>1, <2>2, Sizes
  <2>4. /\ IsRing(stack', StackSize, bottom', size')
        /\ Unrolled(stack', StackSize, bottom', size')
             = <<e>> \o Unrolled(stack, StackSize, bottom, size)
        /\ top' = Place(StackSize, bottom', size)
    <3>1. CASE size = 0
      <4>1. bottom' = bottom /\ top = bottom
        BY <2>2, <3>1, StackFacts DEF E!BottomCell
      <4>2. Place(StackSize, bottom, size) = bottom
        BY <2>1, <3>1, Sizes, PlaceZero
      <4>3. stack' = Written(stack, Place(StackSize, bottom, size), e)
        BY <2>2, <4>1, <4>2
      <4>4. /\ IsRing(stack', StackSize, bottom, size')
            /\ Unrolled(stack', StackSize, bottom, size')
                 = Append(Unrolled(stack, StackSize, bottom, size), e)
        BY <1>2, <2>1, <2>3, <4>3, Sizes, RingAppend
      <4>5. OnStack = <<>>
        BY <2>1, <3>1 DEF Simple
      <4> QED BY <2>2, <4>1, <4>2, <4>4, <4>5 DEF OnStack
    <3>2. CASE size # 0
      <4>1. /\ bottom' = E!Before(bottom, StackSize)
            /\ size - 1 \in 0 .. StackSize - 1 /\ (size - 1) + 1 = size
        BY <2>1, <2>2, <3>2, Sizes DEF E!BottomCell
      <4>2. top = Place(StackSize, bottom, size - 1)
        BY <3>2, StackFacts
      <4>3. Place(StackSize, bottom', (size - 1) + 1)
              = Place(StackSize, bottom, size - 1)
        BY <2>1, <4>1, Sizes, PlaceBefore
      <4>4. /\ IsRing(stack', StackSize, bottom', size')
            /\ Unrolled(stack', StackSize, bottom', size')
                 = <<e>> \o Unrolled(stack, StackSize, bottom, size)
        <5>1. IsRing(stack, StackSize, bottom, size) /\ e \in E!Entries
          BY <2>1
        <5>2. bottom' = E!Before(bottom, StackSize)
          BY <4>1
        <5>3. stack' = Written(stack, bottom', e)
          BY <2>2
        <5>4. /\ IsRing(stack', StackSize, bottom', size')
              /\ Unrolled(stack', StackSize, bottom', size')
                   = Ahead(e, Unrolled(stack, StackSize, bottom, size))
          BY <1>2, <2>3, <5>1, <5>2, <5>3, Sizes, RingPrepend
        <5> QED BY <5>4 DEF Ahead
      <4> QED BY <2>2, <4>1, <4>2, <4>3, <4>4
    <3> QED BY <3>1, <3>2
  <2>5. OnStack' = <<e>> \o OnStack /\ InPool' = InPool
    BY <2>2, <2>4 DEF InPool, OnStack
  <2>6. /\ Simple(OnStack') /\ Len(OnStack') = Len(OnStack) + 1
        /\ Vals(OnStack') = Vals(OnStack) \cup {e}
    BY <2>1, <2>5, SimplePrepend
  <2>7. Split(InPool', OnStack', hand')
    <3>1. Split(OnStack', InPool, hand')
      BY <2>1, <2>2, <2>6, SplitGive
    <3> QED BY <2>5, <3>1, SplitFacts
  <2>8. RingTypes'
    BY <2>2, <2>3, <2>4 DEF RingInv, RingTypes
  <2>9. RingInv'
    BY <2>7, <2>8 DEF RingInv
  <2>10. /\ E!Contents = OnStack /\ E!Free = Vals(InPool)
         /\ E!Contents' = OnStack' /\ E!Free' = Vals(InPool')
    BY <2>9, Readings, ReadingsNext
  <2> QED BY <1>2, <2>1, <2>2, <2>5, <2>9, <2>10 DEF E!Abstract!PushBottom
<1> QED BY <1>1, <1>2

LEMMA PopTopRefines ==
  ASSUME RingInv, E!PopTop
  PROVE  RingInv' /\ E!Abstract!PopTop
<1>1. /\ size > 0 /\ hand' = hand \cup {stack[top]}
      /\ top' = IF size > 1 THEN E!Before(top, StackSize) ELSE top
      /\ size' = size - 1
      /\ UNCHANGED <<stack, bottom, queue, index, free>>
  BY DEF E!PopTop, E!poolVars
<1>2. /\ IsRing(stack, StackSize, bottom, size) /\ Simple(OnStack)
      /\ size \in 0 .. StackSize /\ bottom \in 0 .. StackSize - 1
      /\ Len(OnStack) = size /\ Split(OnStack, InPool, hand)
  BY StackFacts DEF IsRing
<1>3. /\ size' \in 0 .. StackSize /\ size' < size /\ size <= size' + 1
      /\ size # 0 /\ size \in 1 .. size
  BY <1>1, <1>2, Sizes
<1>4. /\ IsRing(stack, StackSize, bottom, size')
      /\ Unrolled(stack, StackSize, bottom, size')
           = SubSeq(Unrolled(stack, StackSize, bottom, size), 1, size - 1)
  BY <1>2, <1>3, Sizes, RingFront
<1>5. OnStack' = SubSeq(OnStack, 1, Len(OnStack) - 1) /\ InPool' = InPool
  BY <1>1, <1>2, <1>4 DEF OnStack, InPool
<1>6. OnStack # <<>>
  BY <1>2, <1>3
<1>7. /\ Simple(OnStack') /\ Len(OnStack') = Len(OnStack) - 1
      /\ OnStack[Len(OnStack)] \in Vals(OnStack)
      /\ Vals(OnStack') = Vals(OnStack) \ {OnStack[Len(OnStack)]}
  BY <1>2, <1>5, <1>6, SimpleFront
<1>8. OnStack[Len(OnStack)] = stack[top]
  BY <1>2, <1>3, StackFacts
<1>9. hand' = hand \cup {OnStack[Len(OnStack)]}
  BY <1>1, <1>8
<1>10. Split(InPool', OnStack', hand')
  <2>1. Split(OnStack', InPool, hand')
    BY <1>2, <1>7, <1>9, SplitTake
  <2> QED BY <1>5, <2>1, SplitFacts
<1>11. top' = IF size' = 0 THEN bottom ELSE Place(StackSize, bottom, size' - 1)
  <2>1. top = Place(StackSize, bottom, size - 1)
    BY <1>3, StackFacts
  <2>2. CASE size = 1
    BY <1>1, <1>2, <2>1, <2>2, Sizes, PlaceZero
  <2>3. CASE size # 1
    <3>1. /\ size - 2 \in 0 .. StackSize - 2 /\ (size - 2) + 1 = size - 1
          /\ size > 1 /\ size' # 0 /\ size' - 1 = size - 2
      BY <1>1, <1>2, <2>3, Sizes
    <3>2. E!Before(Place(StackSize, bottom, (size - 2) + 1), StackSize)
            = Place(StackSize, bottom, size - 2)
      BY <1>2, <3>1, Sizes, PlaceMoves
    <3> QED BY <1>1, <2>1, <3>1, <3>2
  <2> QED BY <2>2, <2>3
<1>12. RingTypes'
  BY <1>1, <1>4, <1>11 DEF RingInv, RingTypes
<1>13. RingInv'
  BY <1>10, <1>12 DEF RingInv
<1>14. /\ E!Contents = OnStack /\ E!Free = Vals(InPool)
       /\ E!Contents' = OnStack' /\ E!Free' = Vals(InPool')
  BY <1>13, Readings, ReadingsNext
<1> QED BY <1>5, <1>6, <1>9, <1>13, <1>14 DEF E!Abstract!PopTop

LEMMA PopBottomRefines ==
  ASSUME RingInv, E!PopBottom
  PROVE  RingInv' /\ E!Abstract!PopBottom
<1>1. /\ size > 0 /\ hand' = hand \cup {stack[bottom]}
      /\ bottom' = IF size > 1 THEN E!After(bottom, StackSize) ELSE bottom
      /\ size' = size - 1
      /\ UNCHANGED <<stack, top, queue, index, free>>
  BY DEF E!PopBottom, E!poolVars
<1>2. /\ IsRing(stack, StackSize, bottom, size) /\ Simple(OnStack)
      /\ size \in 0 .. StackSize /\ bottom \in 0 .. StackSize - 1
      /\ Len(OnStack) = size /\ Split(OnStack, InPool, hand)
  BY StackFacts DEF IsRing
<1>3. /\ size' \in 0 .. StackSize /\ size' < size /\ size <= size' + 1
      /\ size # 0 /\ size \in 1 .. size /\ 1 \in 1 .. size
  BY <1>1, <1>2, Sizes
<1>4. top = Place(StackSize, bottom, size - 1)
  BY <1>3, StackFacts
<1>5. /\ IsRing(stack, StackSize, bottom', size') /\ OnStack' = Tail(OnStack)
      /\ top' = IF size' = 0 THEN bottom'
                ELSE Place(StackSize, bottom', size' - 1)
  <2>1. CASE size = 1
    <3>1. bottom' = bottom /\ size' = 0 /\ top = bottom
      BY <1>1, <1>2, <1>4, <2>1, Sizes, PlaceZero
    <3>2. IsRing(stack, StackSize, bottom, 0)
      BY <1>2, Sizes DEF IsRing
    <3>3. OnStack' = <<>>
      BY <1>1, <3>1 DEF OnStack, Unrolled
    <3>4. Tail(OnStack) = <<>>
      <4>1. OnStack \in Seq(E!Entries) /\ Len(OnStack) = 1
        BY <1>2, <2>1 DEF Simple
      <4>2. OnStack # <<>>
        BY <4>1
      <4>3. Tail(OnStack) \in Seq(E!Entries)
        BY <4>1, <4>2, HeadTailProperties
      <4>4. Len(Tail(OnStack)) = Len(OnStack) - 1
        BY <4>1, <4>2, HeadTailProperties
      <4>5. Len(Tail(OnStack)) = 0
        BY <4>1, <4>4
      <4> QED BY <4>3, <4>5, EmptySeq
    <3> QED BY <1>1, <3>1, <3>2, <3>3, <3>4
  <2>2. CASE size # 1
    <3>1. /\ size > 1 /\ size' # 0 /\ size' - 1 = size - 2
          /\ size - 2 \in 0 .. StackSize - 1 /\ (size - 2) + 1 = size - 1
      BY <1>1, <1>2, <2>2, Sizes
    <3>2. bottom' = E!After(bottom, StackSize) /\ bottom' \in 0 .. StackSize - 1
      BY <1>1, <1>2, <3>1, Sizes, PlaceAfter
    <3>3. IsRing(stack, StackSize, bottom', size')
      BY <1>2, <1>3, <3>2 DEF IsRing
    <3>4. Unrolled(stack, StackSize, bottom', size')
            = Tail(Unrolled(stack, StackSize, bottom, size))
      <4>1. IsRing(stack, StackSize, bottom, size)
        BY <1>2
      <4>2. bottom' = E!After(bottom, StackSize)
        BY <3>2
      <4>3. SameBut(stack, stack, StackSize, bottom)
        BY DEF SameBut
      <4>4. Unrolled(stack, StackSize, bottom', size')
              = Rest(Unrolled(stack, StackSize, bottom, size))
        BY <1>3, <3>3, <4>1, <4>2, <4>3, Sizes, RingTail
      <4> QED BY <4>4 DEF Rest
    <3>5. Place(StackSize, bottom', size - 2) = Place(StackSize, bottom, (size - 2) + 1)
      BY <1>2, <3>1, <3>2, Sizes, PlaceAfter
    <3> QED BY <1>1, <1>4, <3>1, <3>3, <3>4, <3>5 DEF OnStack
  <2> QED BY <2>1, <2>2
<1>6. OnStack # <<>>
  BY <1>2, <1>3
<1>7. /\ Simple(OnStack') /\ Len(OnStack') = Len(OnStack) - 1
      /\ Head(OnStack) = OnStack[1] /\ OnStack[1] \in Vals(OnStack)
      /\ Vals(OnStack') = Vals(OnStack) \ {OnStack[1]}
  BY <1>2, <1>5, <1>6, SimpleTail
<1>8. OnStack[1] = stack[bottom]
  <2>1. OnStack[1] = stack[Place(StackSize, bottom, 1 - 1)]
    <3>1. \A i \in 1 .. size : OnStack[i] = stack[Place(StackSize, bottom, i - 1)]
      BY StackFacts
    <3> QED BY <1>3, <3>1
  <2>2. Place(StackSize, bottom, 1 - 1) = bottom
    BY <1>2, Sizes, PlaceZero
  <2> QED BY <2>1, <2>2
<1>9. hand' = hand \cup {OnStack[1]} /\ InPool' = InPool
  BY <1>1, <1>8 DEF InPool
<1>10. Split(InPool', OnStack', hand')
  <2>1. Split(OnStack', InPool, hand')
    BY <1>2, <1>7, <1>9, SplitTake
  <2> QED BY <1>9, <2>1, SplitFacts
<1>11. RingTypes'
  BY <1>1, <1>5 DEF RingInv, RingTypes
<1>12. RingInv'
  BY <1>10, <1>11 DEF RingInv
<1>13. /\ E!Contents = OnStack /\ E!Free = Vals(InPool)
       /\ E!Contents' = OnStack' /\ E!Free' = Vals(InPool')
  BY <1>12, Readings, ReadingsNext
<1> QED BY <1>5, <1>6, <1>7, <1>9, <1>12, <1>13 DEF E!Abstract!PopBottom

LEMMA RingStepRefines ==
  ASSUME RingInv, [E!Next]_(E!vars)
  PROVE  RingInv' /\ [E!Abstract!Next]_<<E!Contents, E!Free, hand>>
<1>1. CASE E!Get
  BY <1>1, GetRefines DEF E!Abstract!Next
<1>2. CASE E!PopTop
  BY <1>2, PopTopRefines DEF E!Abstract!Next
<1>3. CASE E!PopBottom
  BY <1>3, PopBottomRefines DEF E!Abstract!Next
<1>4. ASSUME NEW e \in hand, E!Put(e) \/ E!PushTop(e) \/ E!PushBottom(e)
      PROVE  RingInv' /\ [E!Abstract!Next]_<<E!Contents, E!Free, hand>>
  BY <1>4, PutRefines, PushTopRefines, PushBottomRefines DEF E!Abstract!Next
<1>5. CASE UNCHANGED E!vars
  BY <1>5, RingSame DEF E!vars
<1> QED BY <1>1, <1>2, <1>3, <1>4, <1>5 DEF E!Next

\* What is not the stack and the pool leaves them alone.
LEMMA EntrySteps == [PartsNext]_allVars => [E!Next]_(E!vars)
BY DEF PartsNext, TaskStep, EntryStep, HeapStep, RouteStep, ofEntries, E!vars,
       allVars

\* For any size of the pool and of the stack, however often the rings have
\* wrapped: StackC is a sequence with two ends and PoolP a set, no entry is
\* lost or doubled between them, and a push is refused only when the stack is
\* full, a put never.
THEOREM RingsImplementStore == PartsSpec => EntriesStored
<1>1. PartsInit => RingInv /\ E!Abstract!Init
  <2> SUFFICES ASSUME PartsInit  PROVE RingInv /\ E!Abstract!Init
    OBVIOUS
  <2>1. E!Init /\ RingInv
    BY RingInitInv DEF PartsInit
  <2>2. E!Contents = OnStack /\ E!Free = Vals(InPool) /\ hand = {}
    BY <2>1, Readings DEF E!Init
  <2>3. OnStack = <<>>
    BY <2>1 DEF E!Init, OnStack, Unrolled
  <2>4. Vals(InPool) = E!Entries
    <3>1. /\ queue = [i \in 0 .. PoolSize - 1 |-> i]
          /\ index = 0 /\ free = PoolSize
      BY <2>1 DEF E!Init
    <3>2. E!Free = {queue[E!Wrapped(index + i)] : i \in 0 .. free - 1}
      BY DEF E!Free, E!Cell
    <3>3. \A i \in 0 .. PoolSize - 1 : E!Wrapped(0 + i) = i
      BY Sizes DEF E!Wrapped
    <3>4. E!Free = {i : i \in 0 .. PoolSize - 1}
      BY <3>1, <3>2, <3>3
    <3> QED BY <2>2, <3>4 DEF E!Entries
  <2> QED BY <2>1, <2>2, <2>3, <2>4 DEF E!Abstract!Init
<1>2. RingInv /\ [PartsNext]_allVars => RingInv'
  BY EntrySteps, RingStepRefines
<1>3. RingInv /\ [PartsNext]_allVars
        => [E!Abstract!Next]_<<E!Contents, E!Free, hand>>
  BY EntrySteps, RingStepRefines
<1> QED
  BY <1>1, <1>2, <1>3, PTL
     DEF PartsSpec, EntriesStored, E!ImplementsStore, E!Abstract!Spec, E!Abstract!store
=============================================================================
