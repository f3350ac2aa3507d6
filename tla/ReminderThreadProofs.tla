------------------------- MODULE ReminderThreadProofs -------------------------
(***************************************************************************)
(* The reminder thread beside the GUI thread, for every value of the       *)
(* constants: the loop of checkReminders amounts to one step of the task   *)
(* manager, although each of its turns is a step of its own; every         *)
(* reminder it marks is announced once; and both threads together keep the *)
(* promise of Schedule.                                                    *)
(***************************************************************************)
EXTENDS ReminderThread, TaskManagerProofs

-----------------------------------------------------------------------------
(* The invariant.  The mutex keeps the GUI thread out of the list while it *)
(* is scanned.  What the scan has found so far are the ids of the due      *)
(* tasks it has passed, with those it marked itself counted as not yet     *)
(* reminded.                                                               *)

Before == reminded \ Ids(due)

Found(k) == {tasks[i].id : i \in {j \in 1..k : InWindow(tasks[j]) /\ tasks[j].id \notin Before}}

ScanInv ==
    rpc = "scan" =>
        /\ pc = "idle"
        /\ index <= Len(tasks) + 1
        /\ Ids(due) \subseteq reminded
        /\ Ids(due) = Found(index - 1)

TInv == IInv /\ ThreadTypeOK /\ ScanInv

LEMMA TInvInit == ThreadInit => TInv
<1>. SUFFICES ASSUME ThreadInit
              PROVE  TInv
    OBVIOUS
<1>1. IInv
    BY InitIInv DEF ThreadInit
<1>2. ThreadTypeOK
    <2>1. 0 \in 0..MaxClock /\ 0 \in 0..Period
        BY TimingAssumption
    <2>2. /\ due \in Seq(Tasks) /\ queue \in Seq(Seq(Tasks)) /\ shown \in Seq(Nat)
          /\ since \in [1..MaxId -> 0..MaxClock] /\ marked \in [1..MaxId -> 0..MaxClock]
        BY <2>1, EmptySeq DEF ThreadInit
    <2>3. clock \in 0..MaxClock /\ now \in 0..MaxClock /\ left \in 0..Period
        BY <2>1 DEF ThreadInit
    <2>4. index = 1 /\ delayed = FALSE /\ running = FALSE
        BY DEF ThreadInit
    <2>5. window = "none" /\ rpc = "none"
        BY DEF ThreadInit
    <2>6. delayed \in BOOLEAN /\ running \in BOOLEAN
        BY <2>4, Zenon
    <2>7. index \in Nat \ {0}
        BY <2>4
    <2>8. TypeOK
        BY <1>1 DEF IInv
    <2>. QED  BY <2>2, <2>3, <2>5, <2>6, <2>7, <2>8, Zenon DEF ThreadTypeOK
<1>. QED  BY <1>1, <1>2 DEF ThreadInit, ScanInv, TInv

(* Ids of a list that grows at its end.                                    *)
LEMMA IdsAppend ==
    ASSUME NEW q \in Seq(Tasks), NEW t \in Tasks
    PROVE  /\ Append(q, t) \in Seq(Tasks)
           /\ Ids(Append(q, t)) = Ids(q) \cup {t.id}
<1>. DEFINE f == Append(q, t)
<1>1. /\ f \in Seq(Tasks) /\ Len(f) = Len(q) + 1
      /\ \A k \in 1..Len(q) : f[k] = q[k]
      /\ f[Len(q) + 1] = t
    BY AppendProperties
<1>. HIDE DEF f
<1>2. DOMAIN f = 1..Len(f) /\ DOMAIN q = 1..Len(q) /\ Len(q) \in Nat
    BY <1>1, DomainsFinite
<1>3. DOMAIN f = DOMAIN q \cup {Len(q) + 1}
    BY <1>1, <1>2
<1>4. Ids(f) = Ids(q) \cup {t.id}
    BY <1>1, <1>2, <1>3 DEF Ids
<1>. QED  BY <1>1, <1>4 DEF f

LEMMA IdsEmpty == Ids(<<>>) = {}
BY DEF Ids

-----------------------------------------------------------------------------
(* The steps of the GUI thread and of time.                                *)

(* They are steps of the task manager or leave it alone.                   *)
GuiStep ==
    \/ Open
    \/ \E t \in Candidates : Add(t) \/ Update(t) \/ Reject(t)
    \/ \E id \in Ids(tasks) : Delete(id)
    \/ Saving

Elsewhere == ShowReminders \/ Close \/ Joined \/ Wake \/ Acquire \/ ScanEnd \/ Post \/ Tick

LEMMA ThreadNextSplit == ThreadNext <=> GuiStep \/ Elsewhere \/ ScanTask
BY DEF ThreadNext, GuiStep, Elsewhere, ReminderStep

LEMMA GuiManages ==
    ASSUME GuiStep, TInv
    PROVE  /\ Next
           /\ rpc # "scan" /\ rpc' # "scan"
           /\ UNCHANGED <<now, index, due>>
<1>1. CASE Open
    BY <1>1 DEF Open, LoadFromFile, Next, TInv, ScanInv, threadVars
<1>2. CASE \E t \in Candidates : Add(t) \/ Update(t) \/ Reject(t)
    BY <1>2 DEF Add, Update, Reject, GuiHasLock, Next, threadVars
<1>3. CASE \E id \in Ids(tasks) : Delete(id)
    BY <1>3 DEF Delete, GuiHasLock, Next, threadVars
<1>4. CASE Saving
    <2>1. pc \in {"save", "write"}
        BY <1>4 DEF Saving, Save, SaveOpenFails, SaveOpen, SaveLine, SaveClose
    <2>. QED  BY <1>4, <2>1 DEF Saving, Next, threadVars, TInv, ScanInv
<1>. QED  BY <1>1, <1>2, <1>3, <1>4 DEF GuiStep

LEMMA ElsewhereKeeps == Elsewhere => UNCHANGED vars
BY DEF Elsewhere, ShowReminders, Close, Joined, Wake, Acquire, ScanEnd, Post, Tick

-----------------------------------------------------------------------------
(* Types.                                                                  *)

(* The loop goes to sleep or ends.                                         *)
LEMMA LoopHeadTypes == LoopHead => rpc' \in {"sleep", "done"} /\ left' \in 0..Period
BY TimingAssumption DEF LoopHead

LEMMA OwnTypes == TInv /\ [ThreadNext]_allVars /\ TypeOK' => ThreadTypeOK'
<1>. SUFFICES ASSUME TInv, [ThreadNext]_allVars, TypeOK'
              PROVE  ThreadTypeOK'
    OBVIOUS
<1>. USE TimingAssumption DEF TInv, ThreadTypeOK
<1>1. CASE UNCHANGED allVars
    BY <1>1 DEF allVars, threadVars
<1>2. CASE Open
    BY <1>2 DEF Open
<1>3. ASSUME NEW t \in Candidates, Add(t) \/ Update(t)
      PROVE  ThreadTypeOK'
    BY <1>3 DEF Add, Update, Stamp
<1>4. ASSUME (\E t \in Candidates : Reject(t)) \/ (\E id \in Ids(tasks) : Delete(id)) \/ Saving
      PROVE  ThreadTypeOK'
    BY <1>4 DEF Reject, Delete, Saving, threadVars
<1>5. CASE ShowReminders
    <2>1. Head(queue) \in Seq(Tasks) /\ Tail(queue) \in Seq(Seq(Tasks))
        BY <1>5, HeadTailProperties DEF ShowReminders
    <2>2. [i \in DOMAIN Head(queue) |-> Head(queue)[i].id] \in Seq(Nat)
        <3>. DEFINE box == Head(queue)
        <3>. HIDE DEF box
        <3>1. \A i \in DOMAIN box : box[i].id \in Nat
            BY <2>1, ListIds DEF box
        <3>2. DOMAIN box = 1..Len(box) /\ Len(box) \in Nat
            BY <2>1, DomainsFinite DEF box
        <3>3. [i \in DOMAIN box |-> box[i].id] \in Seq(Nat)
            BY <3>1, <3>2
        <3>. QED  BY <3>3 DEF box
    <2>3. shown' \in Seq(Nat)
        BY <1>5, <2>2, ConcatProperties DEF ShowReminders
    <2>. QED  BY <1>5, <2>1, <2>3 DEF ShowReminders
<1>6. CASE Close \/ Joined \/ Wake
    <2>1. queue' \in Seq(Seq(Tasks))
        BY <1>6, EmptySeq DEF Close, Joined, Wake
    <2>. QED  BY <1>6, <2>1 DEF Close, Joined, Wake
<1>7. CASE Acquire
    BY <1>7 DEF Acquire
<1>8. CASE ScanTask
    <2>1. index' \in Nat \ {0}
        BY <1>8 DEF ScanTask
    <2>2. tasks[index] \in Tasks
        BY <1>8, DomainsFinite DEF ScanTask, TypeOK
    <2>3. due' \in {due, Append(due, tasks[index])}
        BY <1>8 DEF ScanTask
    <2>4. marked' = marked \/ \E id : marked' = [marked EXCEPT ![id] = now]
        BY <1>8 DEF ScanTask, Mark
    <2>5. due' \in Seq(Tasks) /\ marked' \in [1..MaxId -> 0..MaxClock]
        BY <2>2, <2>3, <2>4, IdsAppend
    <2>. QED  BY <1>8, <2>1, <2>5 DEF ScanTask
<1>9. CASE ScanEnd
    BY <1>9, LoopHeadTypes DEF ScanEnd
<1>10. CASE Post
    <2>1. queue' \in Seq(Seq(Tasks))
        BY <1>10, AppendProperties DEF Post
    <2>. QED  BY <1>10, <2>1, LoopHeadTypes DEF Post
<1>11. CASE Tick
    <2>1. clock' \in 0..MaxClock /\ left' \in 0..Period /\ delayed' \in BOOLEAN
        BY <1>11 DEF Tick
    <2>. QED  BY <1>11, <2>1 DEF Tick
<1>. QED  BY <1>1, <1>2, <1>3, <1>4, <1>5, <1>6, <1>7, <1>8, <1>9, <1>10, <1>11
          DEF ThreadNext, ReminderStep

-----------------------------------------------------------------------------
(* The scan.                                                               *)

(* One turn of the loop marks a task exactly if it is due.                 *)
LEMMA ScanTaskFound ==
    ASSUME TInv, ScanTask
    PROVE  /\ Ids(due') \subseteq reminded'
           /\ reminded' \ Ids(due') = Before
           /\ Ids(due') = Found(index)
           /\ \E id \in Ids(tasks) : reminded' \subseteq reminded \cup {id}
<1>. DEFINE t == tasks[index]
<1>1. /\ index \in DOMAIN tasks /\ index \in Nat \ {0}
      /\ t \in Tasks /\ t.id \in Ids(tasks)
      /\ due \in Seq(Tasks)
    BY DomainsFinite, ListIds DEF TInv, ThreadTypeOK, TypeOK, ScanTask
<1>2. Ids(due) \subseteq reminded /\ Ids(due) = Found(index - 1)
    BY DEF TInv, ScanInv, ScanTask
<1>3. Found(index) = Found(index - 1) \cup
         (IF InWindow(t) /\ t.id \notin Before THEN {t.id} ELSE {})
    <2>1. 1..index = 1..(index - 1) \cup {index}
        BY <1>1
    <2>. QED  BY <2>1 DEF Found
<1>4. CASE InWindow(t) /\ t.id \notin reminded
    <2>1. due' = Append(due, t) /\ reminded' = reminded \cup {t.id}
        BY <1>4 DEF ScanTask, Mark
    <2>2. Ids(due') = Ids(due) \cup {t.id}
        BY <1>1, <2>1, IdsAppend
    <2>. QED  BY <1>1, <1>2, <1>3, <1>4, <2>1, <2>2 DEF Before
<1>5. CASE ~(InWindow(t) /\ t.id \notin reminded)
    <2>1. due' = due /\ reminded' = reminded
        BY <1>5 DEF ScanTask
    <2>. QED  BY <1>1, <1>2, <1>3, <1>5, <2>1 DEF Before
<1>. QED  BY <1>4, <1>5

LEMMA ManagerKept == TInv /\ [ThreadNext]_allVars => IInv'
<1>. SUFFICES ASSUME TInv, [ThreadNext]_allVars
              PROVE  IInv'
    OBVIOUS
<1>1. CASE UNCHANGED allVars
    BY <1>1, NextIInv DEF allVars, TInv
<1>2. CASE GuiStep
    BY <1>2, GuiManages, NextIInv DEF TInv
<1>3. CASE Elsewhere
    BY <1>3, ElsewhereKeeps, NextIInv DEF TInv
<1>4. CASE ScanTask
    <2>1. PICK id \in Ids(tasks) : reminded' \subseteq reminded \cup {id}
        BY <1>4, ScanTaskFound
    <2>2. UNCHANGED <<tasks, nextId, file, pc, synced>> /\ pc = "idle"
        BY <1>4 DEF ScanTask, TInv, ScanInv
    <2>3. IInv /\ tasks \in Seq(Tasks) /\ Ids(tasks) \subseteq Nat
        BY ListIds DEF TInv, IInv, TypeOK
    <2>4. reminded' \subseteq Nat
        BY <2>1, <2>3 DEF IInv, TypeOK
    <2>5. IdsDistinct' /\ CounterAhead' /\ ListSorted'
        BY <2>1, <2>2, <2>3 DEF IInv, IdsDistinct, CounterAhead, ListSorted
    <2>. QED  BY <2>2, <2>3, <2>4, <2>5, MemoryStep DEF IInv, TypeOK
<1>. QED  BY <1>1, <1>2, <1>3, <1>4, ThreadNextSplit

LEMMA ScanKept == TInv /\ [ThreadNext]_allVars => ScanInv'
<1>. SUFFICES ASSUME TInv, [ThreadNext]_allVars, rpc' = "scan"
              PROVE  ScanInv'
    BY DEF ScanInv
<1>. USE DEF TInv
<1>1. CASE UNCHANGED allVars
    BY <1>1 DEF allVars, threadVars, vars, ScanInv, Found, InWindow, Before
<1>2. CASE GuiStep
    BY <1>2, GuiManages
<1>3. CASE Acquire
    <2>1. due' = <<>> /\ index' = 1 /\ pc' = "idle" /\ tasks' = tasks
        BY <1>3 DEF Acquire, vars
    <2>2. Found(0)' = {}
        BY DEF Found
    <2>3. index' - 1 = 0 /\ index' <= Len(tasks') + 1
        BY <2>1, DomainsFinite DEF IInv, TypeOK
    <2>4. Ids(due') = {}
        BY <2>1, IdsEmpty
    <2>5. Ids(due)' = Found(index - 1)'
        BY <2>2, <2>3, <2>4 DEF Found
    <2>. QED  BY <2>1, <2>3, <2>4, <2>5 DEF ScanInv
<1>4. CASE ShowReminders \/ Close \/ Joined \/ Tick
    <2>1. UNCHANGED <<vars, rpc, now, index, due>>
        BY <1>4 DEF ShowReminders, Close, Joined, Tick
    <2>. QED  BY <2>1 DEF vars, ScanInv, Found, InWindow, Before
<1>5. CASE Wake \/ ScanEnd \/ Post
    BY <1>5 DEF Wake, ScanEnd, Post, LoopHead
<1>6. CASE ScanTask
    <2>1. /\ UNCHANGED <<tasks, pc, now>> /\ index' = index + 1 /\ rpc = "scan"
          /\ index <= Len(tasks) /\ index \in Nat
        BY <1>6 DEF ScanTask, ThreadTypeOK
    <2>2. Before' = Before
        BY <1>6, ScanTaskFound DEF Before
    <2>3. index' - 1 = index /\ index' <= Len(tasks') + 1
        BY <2>1, DomainsFinite DEF IInv, TypeOK
    <2>4. Found(index - 1)' = Found(index)
        BY <2>1, <2>2, <2>3 DEF Found, InWindow
    <2>. QED  BY <1>6, <2>1, <2>3, <2>4, ScanTaskFound DEF ScanInv
<1>. QED  BY <1>1, <1>2, <1>3, <1>4, <1>5, <1>6 DEF ThreadNext, ReminderStep, GuiStep

LEMMA TInvStep == TInv /\ [ThreadNext]_allVars => TInv'
<1>1. IInv' => TypeOK'
    BY DEF IInv
<1>. QED  BY <1>1, ManagerKept, OwnTypes, ScanKept DEF TInv

THEOREM ThreadInvariance == ThreadSpec => []TInv
BY TInvInit, TInvStep, PTL DEF ThreadSpec

(* Both threads keep their variables in range (class MainWindow).          *)
THEOREM ThreadTyped == ThreadSpec => []ThreadTypeOK
<1>1. TInv => ThreadTypeOK
    BY DEF TInv
<1>. QED  BY <1>1, ThreadInvariance, PTL

(* Two threads or one, ids and counter are as safe as in TaskManager.      *)
THEOREM ThreadIdsSafe == ThreadSpec => [](IdsDistinct /\ CounterAhead)
<1>1. TInv => IdsDistinct /\ CounterAhead
    BY DEF TInv, IInv
<1>. QED  BY <1>1, ThreadInvariance, PTL

-----------------------------------------------------------------------------
(* The refinement.  Each step of the program is a step of the task manager *)
(* as it would be if checkReminders were one step, or changes nothing.     *)

LEMMA AtomicInit == ThreadInit => Atomic!Init
BY DEF ThreadInit, Init, Atomic!Init

Seen == IF rpc = "scan" THEN reminded \ Ids(due) ELSE reminded

LEMMA AtomicStutter ==
    ASSUME UNCHANGED <<tasks, nextId, file, pc, synced>>, Seen' = Seen
    PROVE  UNCHANGED Atomic!vars
BY DEF Atomic!vars, Seen

LEMMA SameCardinality == \A S : Atomic!Cardinality(S) = Cardinality(S)
BY Zenon DEF Atomic!Cardinality, Cardinality


LEMMA SameBijection == \A S, T : Atomic!Bijection(S, T) = Bijection(S, T)
BY DEF Atomic!Bijection, Atomic!Injection, Atomic!Surjection, Atomic!IsInjective,
       Bijection, Injection, Surjection, IsInjective

LEMMA SameSortings == \A f : Atomic!Sortings(f) = Sortings(f)
BY SameCardinality, SameBijection DEF Atomic!Sortings, Sortings, Atomic!SortedByStart, SortedByStart

LEMMA SameData ==
    /\ Atomic!Tasks = Tasks
    /\ Atomic!Candidates = Candidates
    /\ \A s : Atomic!Ids(s) = Ids(s)
    /\ \A s, i : Atomic!RemoveAt(s, i) = RemoveAt(s, i)
    /\ \A t : Atomic!Serialize(t) = Serialize(t) /\ Atomic!Entered(t) = Entered(t)
    /\ \A line : Atomic!Deserialize(line) = Deserialize(line)
    /\ \A f : Atomic!Readable(f) = Readable(f)
    /\ \A time : Atomic!Instant(time) = Instant(time)
BY DEF Atomic!Tasks, Tasks, Atomic!TaskNames, TaskNames, Atomic!Candidates, Candidates,
       Atomic!Ids, Ids,
       Atomic!RemoveAt, RemoveAt, Atomic!Serialize, Serialize, Atomic!Entered, Entered,
       Atomic!Deserialize, Deserialize, Atomic!Readable, Readable, Atomic!Parses, Parses,
       Atomic!FieldCount, FieldCount, Atomic!Instant, Instant, Atomic!Epoch, Epoch

LEMMA SameCuts ==
    /\ \A f : Atomic!Unreadable(f) <=> Unreadable(f)
    /\ Atomic!Cuts = Cuts
<1>1. \A f : Atomic!Unreadable(f) <=> Unreadable(f)
    BY DEF Atomic!Unreadable, Unreadable, Atomic!Throws, Throws, Atomic!Parses, Parses,
           Atomic!FieldCount, FieldCount
<1>2. \A t : Atomic!Torn(t) = Torn(t)
    BY DEF Atomic!Torn, Torn
<1>3. Atomic!Cuts = Cuts
    BY <1>2 DEF Atomic!Cuts, Cuts
<1>. QED  BY <1>1, <1>3

(* Outside the scan both managers take the same steps.                     *)
LEMMA AtomicNext ==
    ASSUME Next, rpc # "scan", rpc' # "scan"
    PROVE  Atomic!Next
<1>. USE SameSortings, SameData, SameCuts
<1>1. ASSUME LoadFromFile \/ LoadFails \/ LoadThrows
      PROVE  Atomic!Next
    <2>1. CASE LoadFromFile
        BY <2>1 DEF LoadFromFile, Atomic!LoadFromFile, Atomic!Next
    <2>2. CASE LoadFails
        BY <2>2 DEF LoadFails, Atomic!LoadFails, Atomic!Next
    <2>3. CASE LoadThrows
        BY <2>3 DEF LoadThrows, vars, Atomic!LoadThrows, Atomic!vars, Atomic!Next
    <2>. QED  BY <1>1, <2>1, <2>2, <2>3
<1>2. ASSUME NEW t \in Candidates, AddTask(t)
      PROVE  Atomic!AddTask(t)
    BY <1>2 DEF AddTask, Atomic!AddTask, NewId, Atomic!NewId, Conflict, Atomic!Conflict
<1>3. ASSUME NEW t \in Candidates, AddRejected(t)
      PROVE  Atomic!AddRejected(t)
    BY <1>3 DEF AddRejected, Atomic!AddRejected, NewId, Atomic!NewId, Conflict, Atomic!Conflict
<1>4. ASSUME NEW t \in Candidates, UpdateTask(t)
      PROVE  Atomic!UpdateTask(t)
    BY <1>4 DEF UpdateTask, Atomic!UpdateTask, NewId, Atomic!NewId, IsFirst, Atomic!IsFirst
<1>5. ASSUME NEW id \in Ids(tasks), DeleteTask(id)
      PROVE  Atomic!DeleteTask(id)
    BY <1>5 DEF DeleteTask, Atomic!DeleteTask, IsFirst, Atomic!IsFirst
<1>6. CASE Save
    <2>1. CASE SaveOpenFails \/ SaveOpen \/ SaveLine
        BY <2>1 DEF SaveOpenFails, SaveOpen, SaveLine, Atomic!Save,
                    Atomic!SaveOpenFails, Atomic!SaveOpen, Atomic!SaveLine, Atomic!Next
    <2>2. CASE SaveClose
        BY <2>2 DEF SaveClose, Atomic!SaveClose, Atomic!Save, Atomic!Next
    <2>. QED  BY <1>6, <2>1, <2>2 DEF Save
<1>7. ASSUME NEW at \in Instants, CheckReminders(at)
      PROVE  Atomic!CheckReminders(at)
    BY <1>7 DEF CheckReminders, Atomic!CheckReminders, Due, Atomic!Due
<1>8. CASE ProcessEnds
    BY <1>8 DEF ProcessEnds, Atomic!ProcessEnds, Atomic!Next
<1>. QED  BY <1>1, <1>2, <1>3, <1>4, <1>5, <1>6, <1>7, <1>8 DEF Next, Atomic!Next

(* The end of the scan is the step that marks the due tasks.               *)
LEMMA AtomicCheck ==
    ASSUME TInv, ScanEnd
    PROVE  Atomic!CheckReminders(now)
<1>1. /\ pc = "idle" /\ index = Len(tasks) + 1
      /\ Ids(due) \subseteq reminded /\ Ids(due) = Found(index - 1)
      /\ tasks \in Seq(Tasks) /\ Len(tasks) \in Nat
    BY DomainsFinite DEF TInv, ScanInv, ScanEnd, ThreadTypeOK, TypeOK
<1>2. rpc = "scan" /\ rpc' # "scan" /\ UNCHANGED vars
    BY DEF ScanEnd, LoopHead
<1>3. index - 1 = Len(tasks) /\ DOMAIN tasks = 1..Len(tasks)
    BY <1>1, DomainsFinite
<1>4. Atomic!Due(now) = {j \in 1..(index - 1) : InWindow(tasks[j]) /\ tasks[j].id \notin Before}
    BY <1>2, <1>3, SameData DEF Atomic!Due, InWindow, Before
<1>5. Ids(due) = {tasks[i].id : i \in Atomic!Due(now)}
    BY <1>1, <1>4 DEF Found
<1>6. reminded' = (reminded \ Ids(due)) \cup Ids(due)
    BY <1>1, <1>2 DEF vars
<1>. QED  BY <1>1, <1>2, <1>5, <1>6 DEF vars, Atomic!CheckReminders

LEMMA AtomicStep == TInv /\ [ThreadNext]_allVars => [Atomic!Next]_Atomic!vars
<1>. SUFFICES ASSUME TInv, [ThreadNext]_allVars
              PROVE  Atomic!Next \/ UNCHANGED Atomic!vars
    OBVIOUS
<1>1. CASE UNCHANGED allVars
    BY <1>1, AtomicStutter DEF allVars, threadVars, vars, Seen
<1>2. CASE GuiStep
    BY <1>2, GuiManages, AtomicNext
<1>3. CASE Acquire
    <2>1. reminded' = reminded /\ rpc # "scan" /\ Ids(due') = {} /\ rpc' = "scan"
          /\ UNCHANGED <<tasks, nextId, file, pc, synced>>
        BY <1>3, IdsEmpty DEF Acquire, vars
    <2>. QED  BY <2>1, AtomicStutter DEF Seen
<1>4. CASE ShowReminders \/ Close \/ Joined \/ Tick
    BY <1>4, AtomicStutter DEF ShowReminders, Close, Joined, Tick, vars, Seen
<1>5. CASE Wake \/ Post
    BY <1>5, AtomicStutter DEF Wake, Post, LoopHead, vars, Seen
<1>6. CASE ScanEnd
    <2>1. now \in Instants
        BY TimingAssumption DEF TInv, ThreadTypeOK
    <2>. QED  BY <1>6, <2>1, AtomicCheck DEF Atomic!Next
<1>7. CASE ScanTask
    <2>1. rpc = "scan" /\ rpc' = "scan" /\ UNCHANGED <<tasks, nextId, file, pc, synced>>
        BY <1>7 DEF ScanTask
    <2>. QED  BY <1>7, <2>1, ScanTaskFound, AtomicStutter DEF Seen, Before
<1>. QED  BY <1>1, <1>2, <1>3, <1>4, <1>5, <1>6, <1>7 DEF ThreadNext, ReminderStep, GuiStep

(* The program with its two threads is a task manager whose check for      *)
(* reminders is one step, at the instant the loop ends: nothing the GUI    *)
(* thread may do comes between the tasks of one check (checkReminders,     *)
(* m_mutex).                                                               *)
THEOREM ChecksAreAtomic == ThreadSpec => ChecksAtomic
<1>1. ThreadSpec => [][Atomic!Next]_Atomic!vars
    BY ThreadInvariance, AtomicStep, PTL DEF ThreadSpec
<1>2. ThreadSpec => Atomic!Init
    BY AtomicInit, PTL DEF ThreadSpec
<1>. QED  BY <1>1, <1>2, PTL DEF ChecksAtomic, Atomic!Spec

-----------------------------------------------------------------------------
(* The promise of Schedule.tla, with both threads.  While a check is under *)
(* way what it has found does not count as announced yet.                  *)

Announcing == INSTANCE Schedule WITH
    Universe <- Candidates,
    schedule <- Range(tasks),
    stored   <- Recover(file),
    alerted  <- IF rpc = "scan" THEN reminded \ Ids(due) ELSE reminded,
    up       <- pc # "off",
    dirty    <- pc # "idle" \/ ~synced

ScheduleAnnounced == Announcing!Spec

LEMMA SamePromise ==
    /\ Announcing!TaskIds = Promise!TaskIds
    /\ \A t : Announcing!CanBeStored(t) <=> Promise!CanBeStored(t)
    /\ \A t, at : Announcing!InWindow(t, at) <=> Promise!InWindow(t, at)
BY DEF Announcing!TaskIds, Promise!TaskIds, Announcing!CanBeStored, Promise!CanBeStored,
       Announcing!InWindow, Promise!InWindow, Announcing!Instant, Promise!Instant,
       Announcing!Epoch, Promise!Epoch

LEMMA SameGarbling == \A t : Announcing!Misreadings(t) = Promise!Misreadings(t)
<1>1. \A t : Announcing!Torn(t) = Promise!Torn(t)
    BY DEF Announcing!Torn, Promise!Torn
<1>2. \A line : Announcing!Throws(line) <=> Promise!Throws(line)
    BY DEF Announcing!Throws, Promise!Throws, Announcing!Parses, Promise!Parses,
           Announcing!FieldCount, Promise!FieldCount
<1>3. \A line : Announcing!Deserialize(line) = Promise!Deserialize(line)
    BY DEF Announcing!Deserialize, Promise!Deserialize
<1>. QED  BY <1>1, <1>2, <1>3 DEF Announcing!Misreadings, Promise!Misreadings

(* Outside the scan both promises take the same steps.                     *)
LEMMA PromiseNext ==
    ASSUME [Promise!Next]_(Promise!vars), rpc # "scan", rpc' # "scan"
    PROVE  [Announcing!Next]_(Announcing!vars)
<1>. USE SamePromise, SameGarbling
<1>1. CASE UNCHANGED Promise!vars
    BY <1>1 DEF Promise!vars, Announcing!vars
<1>2. CASE Promise!Start \/ Promise!Stop
    <2>1. CASE Promise!Start
        BY <2>1 DEF Promise!Start, Announcing!Start, Announcing!Next
    <2>2. CASE Promise!Stop
        BY <2>2 DEF Promise!Stop, Announcing!Stop, Announcing!Next
    <2>. QED  BY <1>2, <2>1, <2>2
<1>3. ASSUME NEW t \in Candidates, Promise!Add(t)
      PROVE  Announcing!Add(t)
    BY <1>3 DEF Promise!Add, Announcing!Add
<1>4. ASSUME NEW t, Promise!Delete(t)
      PROVE  Announcing!Delete(t)
    BY <1>4 DEF Promise!Delete, Announcing!Delete
<1>5. ASSUME NEW t, Promise!Store(t)
      PROVE  Announcing!Store(t)
    BY <1>5 DEF Promise!Store, Announcing!Store
<1>6. ASSUME NEW t, NEW u, Promise!Replace(t, u)
      PROVE  Announcing!Replace(t, u)
    BY <1>6 DEF Promise!Replace, Announcing!Replace
<1>7. CASE Promise!Forget
    BY <1>7 DEF Promise!Forget, Announcing!Forget, Announcing!Next
<1>8. CASE Promise!Commit
    BY <1>8 DEF Promise!Commit, Announcing!Commit, Announcing!Next
<1>9. ASSUME NEW at \in Instants, Promise!Alert(at)
      PROVE  Announcing!Alert(at)
    BY <1>9 DEF Promise!Alert, Announcing!Alert
<1>10. ASSUME NEW t, Promise!Garble(t)
       PROVE  Announcing!Garble(t)
    BY <1>10 DEF Promise!Garble, Announcing!Garble
<1>. QED  BY <1>1, <1>2, <1>3, <1>4, <1>5, <1>6, <1>7, <1>8, <1>9, <1>10
          DEF Promise!Next, Announcing!Next

(* The end of the scan announces the tasks in their window at its instant. *)
LEMMA PromiseAlert ==
    ASSUME TInv, ScanEnd
    PROVE  Announcing!Alert(now)
<1>1. /\ Atomic!CheckReminders(now)
      /\ rpc = "scan" /\ rpc' # "scan" /\ UNCHANGED vars
    BY AtomicCheck DEF ScanEnd, LoopHead
<1>2. pc = "idle" /\ UNCHANGED <<tasks, file, pc, synced>>
    BY <1>1 DEF Atomic!CheckReminders, vars
<1>3. Range(tasks') = Range(tasks) /\ Recover(file') = Recover(file)
    BY <1>2
<1>4. reminded' = (reminded \ Ids(due)) \cup {tasks[i].id : i \in Atomic!Due(now)}
    BY <1>1 DEF Atomic!CheckReminders
<1>5. \A i \in DOMAIN tasks :
         i \in Atomic!Due(now) <=>
            Announcing!InWindow(tasks[i], now) /\ tasks[i].id \notin reminded \ Ids(due)
    BY <1>1, SameData DEF Atomic!Due, Announcing!InWindow, Announcing!Instant, Instant,
                          Announcing!Epoch, Epoch
<1>6. Atomic!Due(now) \subseteq DOMAIN tasks
    BY DEF Atomic!Due
<1>7. reminded' = (reminded \ Ids(due)) \cup
                     {t.id : t \in {u \in Range(tasks) : Announcing!InWindow(u, now)}}
    BY <1>4, <1>5, <1>6 DEF Range
<1>. QED  BY <1>1, <1>2, <1>3, <1>7 DEF Announcing!Alert

LEMMA PromiseStutter ==
    ASSUME UNCHANGED <<tasks, file, pc, synced>>, Seen' = Seen
    PROVE  UNCHANGED Announcing!vars
<1>1. Range(tasks') = Range(tasks) /\ Recover(file') = Recover(file)
    OBVIOUS
<1>. QED  BY <1>1 DEF Announcing!vars, Seen

LEMMA PromiseStep == TInv /\ [ThreadNext]_allVars => [Announcing!Next]_(Announcing!vars)
<1>. SUFFICES ASSUME TInv, [ThreadNext]_allVars
              PROVE  [Announcing!Next]_(Announcing!vars)
    OBVIOUS
<1>1. CASE UNCHANGED allVars
    BY <1>1, PromiseStutter DEF allVars, threadVars, vars, Seen
<1>2. CASE GuiStep
    BY <1>2, GuiManages, RefineNext, PromiseNext DEF TInv
<1>3. CASE Acquire
    <2>1. reminded' = reminded /\ rpc # "scan" /\ Ids(due') = {} /\ rpc' = "scan"
          /\ UNCHANGED <<tasks, file, pc, synced>>
        BY <1>3, IdsEmpty DEF Acquire, vars
    <2>. QED  BY <2>1, PromiseStutter DEF Seen
<1>4. CASE ShowReminders \/ Close \/ Joined \/ Tick
    BY <1>4, PromiseStutter DEF ShowReminders, Close, Joined, Tick, vars, Seen
<1>5. CASE Wake \/ Post
    BY <1>5, PromiseStutter DEF Wake, Post, LoopHead, vars, Seen
<1>6. CASE ScanEnd
    <2>1. now \in Instants
        BY TimingAssumption DEF TInv, ThreadTypeOK
    <2>. QED  BY <1>6, <2>1, PromiseAlert DEF Announcing!Next
<1>7. CASE ScanTask
    <2>1. rpc = "scan" /\ rpc' = "scan" /\ UNCHANGED <<tasks, file, pc, synced>>
        BY <1>7 DEF ScanTask
    <2>. QED  BY <1>7, <2>1, ScanTaskFound, PromiseStutter DEF Seen, Before
<1>. QED  BY <1>1, <1>2, <1>3, <1>4, <1>5, <1>6, <1>7 DEF ThreadNext, ReminderStep, GuiStep

(* A run of the program, two threads with a list, a counter, a lock and a  *)
(* save of several steps, behaves as Schedule.tla says: a set of tasks, a  *)
(* stored set, and announcements of exactly the tasks in their window.     *)
THEOREM ThreadsKeepSchedule == ThreadSpec => ScheduleAnnounced
<1>1. ThreadSpec => [][Announcing!Next]_(Announcing!vars)
    BY ThreadInvariance, PromiseStep, PTL DEF ThreadSpec
<1>2. ThreadInit => Announcing!Init
    <2>. SUFFICES ASSUME ThreadInit
                  PROVE  Announcing!Init
        OBVIOUS
    <2>1. Init /\ Promise!Init /\ reminded = {}
        BY RefineInit DEF ThreadInit, Init
    <2>. QED  BY <2>1 DEF Promise!Init, Announcing!Init
<1>. QED  BY <1>1, <1>2, PTL DEF ThreadSpec, ScheduleAnnounced, Announcing!Spec

-----------------------------------------------------------------------------
(* Polling.  A task whose window lasts a whole period and that has not     *)
(* been announced cannot start before the next check; the invariant says   *)
(* when the next check is, wherever the thread stands.                     *)

Waiting(t) == LongWindow(t) /\ t.id \notin reminded

InTime(n) == \A t \in Range(tasks) : Waiting(t) => n <= t.start

PollInv ==
    /\ window = "none" => clock = 0
    /\ window = "open" => running = TRUE /\ rpc \in {"sleep", "lock", "scan", "post"}
    /\ rpc \in {"lock", "scan", "post"} => left = 0
    /\ window = "open" /\ ~delayed =>
          /\ rpc \in {"sleep", "lock", "scan"} => InTime(clock + left)
          /\ rpc = "scan" =>
                /\ now = clock
                /\ \A i \in 1..(index - 1) :
                      Waiting(tasks[i]) => clock + Period <= tasks[i].start
          /\ rpc = "post" => InTime(clock + Period)

LEMMA PollInit == ThreadInit => PollInv
BY DEF ThreadInit, PollInv

LEMMA RangeTypes ==
    ASSUME NEW q \in Seq(Tasks)
    PROVE  /\ \A t \in Range(q) : t \in Tasks /\ t.start \in Nat /\ t.remind \in Nat \ {0}
           /\ \A i \in DOMAIN q : q[i] \in Range(q)
<1>1. \A i \in DOMAIN q : q[i] \in Tasks
    BY DomainsFinite
<1>2. \A t \in Tasks : t.start \in Nat /\ t.remind \in Nat \ {0}
    BY TimesAssumption DEF Tasks
<1>. QED  BY <1>1, <1>2 DEF Range

(* A task that gets its times now is in time for the next check.           *)
LEMMA EnteredInTime ==
    ASSUME TInv, NEW t \in Candidates, Range(tasks') \subseteq Range(tasks) \cup {t},
           since' = [since EXCEPT ![t.id] = clock], reminded' = reminded,
           tasks' \in Seq(Tasks),
           NEW n \in Nat, n <= clock + Period, InTime(n)
    PROVE  \A u \in Range(tasks') : Waiting(u)' => n <= u.start
<1>. SUFFICES ASSUME NEW u \in Range(tasks'), Waiting(u)'
              PROVE  n <= u.start
    OBVIOUS
<1>1. u \in Tasks /\ u.start \in Nat
    BY RangeTypes
<1>2. /\ since \in [1..MaxId -> 0..MaxClock] /\ clock \in Nat /\ Period \in Nat
      /\ t.id \in 1..MaxId
    BY TimingAssumption DEF TInv, ThreadTypeOK, Candidates
<1>3. u.id \notin reminded /\ {u.remind, u.start} \subseteq CalendarTimes
      /\ u.remind + Period <= u.start /\ since'[u.id] + Period <= u.start
    BY DEF Waiting, LongWindow
<1>4. CASE u.id = t.id
    <2>1. since'[u.id] = clock
        BY <1>2, <1>4
    <2>. QED  BY <1>1, <1>2, <1>3, <2>1
<1>5. CASE u.id # t.id
    <2>1. since'[u.id] = since[u.id] /\ u # t
        BY <1>2, <1>5
    <2>2. Waiting(u) /\ u \in Range(tasks)
        BY <1>3, <2>1 DEF Waiting, LongWindow
    <2>. QED  BY <2>2 DEF InTime
<1>. QED  BY <1>4, <1>5

LEMMA PollStep == TInv /\ TInv' /\ PollInv /\ [ThreadNext]_allVars => PollInv'
<1>. SUFFICES ASSUME TInv, TInv', PollInv, [ThreadNext]_allVars
              PROVE  PollInv'
    OBVIOUS
<1>0. /\ clock \in Nat /\ left \in 0..Period /\ Period \in Nat \ {0} /\ index \in Nat \ {0}
      /\ tasks \in Seq(Tasks) /\ tasks' \in Seq(Tasks) /\ clock + left \in Nat
      /\ clock + left <= clock + Period /\ clock + Period \in Nat
    BY TimingAssumption DEF TInv, ThreadTypeOK, IInv, TypeOK
<1>1. CASE UNCHANGED <<tasks, reminded, since, clock, delayed, window, running, rpc, left, now, index>>
    BY <1>1 DEF PollInv, InTime, Waiting, LongWindow
<1>2. CASE Open
    <2>1. \A t \in Range(tasks') : t.remind \in Nat \ {0} /\ t.start \in Nat
        BY <1>0, RangeTypes
    <2>2. clock' = 0 /\ left' = Period /\ rpc' = "sleep" /\ running' = TRUE /\ window' = "open"
        BY <1>2 DEF Open, PollInv
    <2>3. InTime(clock + left)'
        BY <1>0, <2>1, <2>2 DEF InTime, Waiting, LongWindow
    <2>. QED  BY <2>2, <2>3 DEF PollInv
<1>3. ASSUME NEW t \in Candidates, Add(t) \/ Update(t)
      PROVE  PollInv'
    <2>1. /\ UNCHANGED <<clock, delayed, window, running, rpc, left, now, index, reminded>>
          /\ since' = [since EXCEPT ![t.id] = clock]
          /\ AddTask(t) \/ UpdateTask(t)
          /\ window = "open" /\ rpc # "scan"
        BY <1>3 DEF Add, Update, AddTask, UpdateTask, Stamp, GuiHasLock
    <2>2. Range(tasks') \subseteq Range(tasks) \cup {t}
        BY <2>1, AddedRange, UpdatedRange DEF TInv
    <2>3. ASSUME NEW n \in Nat, n <= clock + Period, InTime(n)
          PROVE  \A u \in Range(tasks') : Waiting(u)' => n <= u.start
        BY <1>0, <2>1, <2>2, <2>3, EnteredInTime
    <2>4. CASE rpc \in {"sleep", "lock"}
        <3>1. ~delayed => InTime(clock + left)
            BY <2>1, <2>4 DEF PollInv
        <3>2. ~delayed => InTime(clock + left)'
            BY <1>0, <2>1, <2>3, <3>1 DEF InTime
        <3>. QED  BY <2>1, <2>4, <3>2 DEF PollInv
    <2>5. CASE rpc = "post"
        <3>1. ~delayed => InTime(clock + Period)
            BY <2>1, <2>5 DEF PollInv
        <3>2. ~delayed => InTime(clock + Period)'
            BY <1>0, <2>1, <2>3, <3>1 DEF InTime
        <3>. QED  BY <2>1, <2>5, <3>2 DEF PollInv
    <2>. QED  BY <2>1, <2>4, <2>5 DEF PollInv
<1>4. ASSUME NEW id \in Ids(tasks), Delete(id)
      PROVE  PollInv'
    <2>1. /\ UNCHANGED <<clock, delayed, window, running, rpc, left, now, index, reminded, since>>
          /\ DeleteTask(id) /\ rpc # "scan"
        BY <1>4 DEF Delete, DeleteTask, GuiHasLock, threadVars
    <2>2. Range(tasks') \subseteq Range(tasks)
        BY <2>1, DeletedRange DEF TInv
    <2>. QED  BY <2>1, <2>2 DEF PollInv, InTime, Waiting, LongWindow
<1>5. CASE Close \/ Joined
    BY <1>5 DEF Close, Joined, PollInv
<1>6. CASE Wake \/ Acquire
    <2>1. UNCHANGED <<tasks, reminded, since, clock, delayed, window, running, left>>
        BY <1>6 DEF Wake, Acquire, vars
    <2>2. InTime(clock + left)' <=> InTime(clock + left)
        BY <2>1 DEF InTime, Waiting, LongWindow
    <2>3. CASE Wake
        BY <2>1, <2>2, <2>3 DEF Wake, PollInv
    <2>4. CASE Acquire
        <3>1. index' - 1 = 0 /\ 1..0 = {}
            BY <2>4 DEF Acquire
        <3>. QED  BY <2>1, <2>2, <2>4, <3>1 DEF Acquire, PollInv
    <2>. QED  BY <1>6, <2>3, <2>4
<1>7. CASE ScanTask
    <2>1. /\ UNCHANGED <<tasks, since, clock, delayed, window, running, rpc, left, now>>
          /\ index' = index + 1 /\ rpc = "scan" /\ index <= Len(tasks)
          /\ reminded \subseteq reminded'
          /\ InWindow(tasks[index]) /\ tasks[index].id \notin reminded
                => tasks[index].id \in reminded'
        BY <1>7 DEF ScanTask, Mark
    <2>2. \A u : Waiting(u)' => Waiting(u)
        BY <2>1 DEF Waiting, LongWindow
    <2>. SUFFICES ASSUME window = "open", ~delayed
                  PROVE  /\ InTime(clock + left)'
                         /\ \A i \in 1..(index' - 1) :
                               Waiting(tasks[i])' => clock + Period <= tasks[i].start
        BY <2>1 DEF PollInv
    <2>3. now = clock /\ left = 0 /\ InTime(clock + left)
        BY <2>1 DEF PollInv
    <2>4. InTime(clock + left)'
        BY <2>1, <2>2, <2>3 DEF InTime
    <2>5. ASSUME NEW t, t = tasks[index], Waiting(t)'
          PROVE  clock + Period <= t.start
        <3>1. t \in Range(tasks) /\ t.start \in Nat /\ t.remind \in Nat
            BY <1>0, <2>1, <2>5, DomainsFinite, RangeTypes
        <3>2. t.id \notin reminded' /\ Waiting(t)
            BY <2>2, <2>5 DEF Waiting
        <3>3. /\ t.remind + Period <= t.start
              /\ Instant(t.remind) = t.remind /\ Instant(t.start) = t.start
            BY <3>2 DEF Waiting, LongWindow, Instant
        <3>4. clock <= t.start
            BY <1>0, <2>3, <3>1, <3>2 DEF InTime
        <3>5. ~(t.remind <= clock)
            BY <2>1, <2>3, <2>5, <3>2, <3>3, <3>4 DEF InWindow, Waiting
        <3>. QED  BY <1>0, <3>1, <3>3, <3>5
    <2>6. \A i \in 1..(index - 1) : Waiting(tasks[i]) => clock + Period <= tasks[i].start
        BY <2>1 DEF PollInv
    <2>7. ASSUME NEW i \in 1..(index' - 1), Waiting(tasks[i])'
          PROVE  clock + Period <= tasks[i].start
        <3>1. i \in 1..(index - 1) \/ i = index
            BY <1>0, <2>1
        <3>2. Waiting(tasks[i]) /\ (i = index => \E t : t = tasks[index] /\ Waiting(t)')
            BY <2>1, <2>2, <2>7 DEF Waiting, LongWindow
        <3>. QED  BY <2>5, <2>6, <3>1, <3>2
    <2>. QED  BY <2>4, <2>7
<1>8. CASE ScanEnd \/ Post
    <2>1. /\ UNCHANGED <<tasks, reminded, since, clock, delayed, window, running>>
          /\ rpc \in {"scan", "post"}
          /\ \/ rpc' = "post" /\ left' = left
             \/ LoopHead
        BY <1>8 DEF ScanEnd, Post, vars
    <2>2. window = "open" /\ ~delayed => InTime(clock + Period)
        <3>1. CASE Post
            BY <3>1 DEF Post, PollInv
        <3>2. CASE ScanEnd
            <4>1. index - 1 = Len(tasks) /\ DOMAIN tasks = 1..Len(tasks)
                BY <1>0, <3>2, DomainsFinite DEF ScanEnd, TInv, ScanInv
            <4>. QED  BY <3>2, <4>1 DEF ScanEnd, PollInv, InTime, Range
        <3>. QED  BY <1>8, <3>1, <3>2
    <2>3. window = "open" /\ ~delayed => InTime(clock + Period)'
        BY <2>1, <2>2 DEF InTime, Waiting, LongWindow
    <2>4. CASE rpc' = "post" /\ left' = left
        BY <2>1, <2>3, <2>4 DEF PollInv, InTime
    <2>5. CASE LoopHead
        <3>1. window = "open" => rpc' = "sleep" /\ left' = Period
            BY <2>1, <2>5 DEF LoopHead, PollInv
        <3>2. rpc' \in {"sleep", "done"}
            BY <2>5 DEF LoopHead
        <3>. QED  BY <2>1, <2>3, <3>1, <3>2 DEF PollInv, InTime
    <2>. QED  BY <2>1, <2>4, <2>5
<1>9. CASE Tick
    <2>1. /\ UNCHANGED <<tasks, reminded, since, window, running, rpc, now, index>>
          /\ window # "none"
        BY <1>9 DEF Tick, vars
    <2>2. /\ left > 0 => clock' + left' <= clock + left
          /\ left = 0 => left' = 0
          /\ clock' + left' \in Nat
        BY <1>0, <1>9 DEF Tick
    <2>3. ~delayed' => ~delayed /\ AtRest
        BY <1>9, Zenon DEF Tick
    <2>4. ASSUME window = "open", ~delayed'
          PROVE  rpc = "sleep" /\ InTime(clock + left)'
        <3>1. rpc = "sleep" /\ left > 0 /\ InTime(clock + left)
            BY <2>3, <2>4 DEF AtRest, PollInv
        <3>2. \A t \in Range(tasks) : t.start \in Nat
            BY <1>0, RangeTypes
        <3>. QED  BY <1>0, <2>1, <2>2, <3>1, <3>2 DEF InTime, Waiting, LongWindow
    <2>. QED  BY <2>1, <2>2, <2>4 DEF PollInv
<1>10. CASE ShowReminders
    BY <1>1, <1>10 DEF ShowReminders, vars
<1>11. ASSUME (\E t \in Candidates : Reject(t)) \/ Saving
       PROVE  PollInv'
    BY <1>1, <1>11 DEF Reject, AddRejected, Saving, Save, SaveOpenFails, SaveOpen, SaveLine,
                       SaveClose, threadVars
<1>12. CASE UNCHANGED allVars
    BY <1>1, <1>12 DEF allVars, vars, threadVars
<1>. QED  BY <1>2, <1>3, <1>4, <1>5, <1>6, <1>7, <1>8, <1>9, <1>10, <1>11, <1>12
          DEF ThreadNext, ReminderStep

(* A window that lasts a period is never missed, for any period, any       *)
(* times, and any edits that move a task or change its reminder            *)
(* (reminderLoop, checkReminders).                                         *)
THEOREM PollingMissesNone == ThreadSpec => []WindowNotMissed
<1>1. TInv /\ PollInv => WindowNotMissed
    <2>. SUFFICES ASSUME TInv, PollInv, ~delayed, window = "open", NEW i \in DOMAIN tasks,
                         Waiting(tasks[i])
                  PROVE  ~(tasks[i].start < clock)
        BY DEF WindowNotMissed, Waiting
    <2>1. /\ clock \in Nat /\ left \in Nat /\ Period \in Nat \ {0}
          /\ tasks \in Seq(Tasks)
        BY TimingAssumption DEF TInv, ThreadTypeOK, TypeOK
    <2>2. tasks[i] \in Range(tasks) /\ tasks[i].start \in Nat
        BY <2>1, RangeTypes
    <2>3. clock + left <= tasks[i].start \/ clock + Period <= tasks[i].start
        BY <2>2 DEF PollInv, InTime
    <2>. QED  BY <2>1, <2>2, <2>3
<1>. QED  BY TInvInit, TInvStep, PollInit, PollStep, <1>1, PTL DEF ThreadSpec

-----------------------------------------------------------------------------
(* The boxes.  A task found by the scan goes from the result to a posted   *)
(* call to a box, and stays where it is in the list of what is announced.  *)

IdsInOrder(q) == [i \in DOMAIN q |-> q[i].id]

LEMMA IdsInOrderType ==
    ASSUME NEW q \in Seq(Tasks)
    PROVE  /\ IdsInOrder(q) \in Seq(Nat)
           /\ Len(IdsInOrder(q)) = Len(q)
           /\ \A i \in 1..Len(q) : IdsInOrder(q)[i] = q[i].id
<1>1. DOMAIN q = 1..Len(q) /\ Len(q) \in Nat
    BY DomainsFinite
<1>2. \A i \in 1..Len(q) : q[i].id \in Nat
    BY <1>1, ListIds
<1>3. IdsInOrder(q) \in [1..Len(q) -> Nat]
    BY <1>1, <1>2 DEF IdsInOrder
<1>. QED  BY <1>1, <1>3 DEF IdsInOrder

LEMMA IdsRegroup ==
    ASSUME NEW s \in Seq(Nat), NEW a \in Seq(Nat), NEW b \in Seq(Nat)
    PROVE  s \o (a \o b) = (s \o a) \o b
BY ConcatAssociative

LEMMA IdsJoined ==
    ASSUME NEW a \in Seq(Nat), NEW b \in Seq(Nat)
    PROVE  /\ a \o b \in Seq(Nat) /\ Len(a \o b) = Len(a) + Len(b)
           /\ \A i \in 1..Len(a) : (a \o b)[i] = a[i]
           /\ \A i \in 1..Len(b) : (a \o b)[Len(a) + i] = b[i]
BY ConcatProperties

LEMMA IdsInOrderConcat ==
    ASSUME NEW q \in Seq(Tasks), NEW r \in Seq(Tasks)
    PROVE  IdsInOrder(q \o r) = IdsInOrder(q) \o IdsInOrder(r)
<1>. DEFINE s == q \o r  a == IdsInOrder(q)  b == IdsInOrder(r)
<1>1. /\ s \in Seq(Tasks) /\ Len(s) = Len(q) + Len(r)
      /\ \A i \in 1..Len(q) : s[i] = q[i]
      /\ \A i \in 1..Len(r) : s[Len(q) + i] = r[i]
    BY ConcatProperties
<1>2. /\ a \in Seq(Nat) /\ Len(a) = Len(q) /\ \A i \in 1..Len(q) : a[i] = q[i].id
      /\ b \in Seq(Nat) /\ Len(b) = Len(r) /\ \A i \in 1..Len(r) : b[i] = r[i].id
    BY IdsInOrderType
<1>. HIDE DEF s, a, b
<1>3. /\ a \o b \in Seq(Nat) /\ Len(a \o b) = Len(a) + Len(b)
      /\ \A i \in 1..Len(a) : (a \o b)[i] = a[i]
      /\ \A i \in 1..Len(b) : (a \o b)[Len(a) + i] = b[i]
    BY <1>2, IdsJoined
<1>. DEFINE c == a \o b  d == IdsInOrder(s)
<1>4. /\ d \in Seq(Nat) /\ Len(d) = Len(s) /\ \A i \in 1..Len(s) : d[i] = s[i].id
    BY <1>1, IdsInOrderType
<1>. HIDE DEF c, d
<1>5. c \in Seq(Nat) /\ Len(c) = Len(d) /\ Len(q) \in Nat /\ Len(r) \in Nat
    BY <1>1, <1>2, <1>3, <1>4, LenProperties DEF c
<1>6. ASSUME NEW i \in 1..Len(d)
      PROVE  c[i] = d[i]
    <2>1. CASE i \in 1..Len(q)
        BY <1>1, <1>2, <1>3, <1>4, <1>5, <1>6, <2>1 DEF c
    <2>2. CASE i \notin 1..Len(q)
        <3>. DEFINE k == i - Len(q)
        <3>1. k \in 1..Len(r) /\ i = Len(q) + k
            BY <1>1, <1>4, <1>5, <1>6, <2>2
        <3>. HIDE DEF k
        <3>. QED  BY <1>1, <1>2, <1>3, <1>4, <1>6, <3>1 DEF c
    <2>. QED  BY <2>1, <2>2
<1>7. c = d
    BY <1>4, <1>5, <1>6, SeqEqual
<1>. QED  BY <1>7 DEF a, b, c, d, s

(* A list that moves from the pending ones to the boxes.                   *)
LEMMA BoxesConcat ==
    ASSUME NEW s \in Seq(Nat), NEW h \in Seq(Tasks), NEW f \in Seq(Tasks), NEW d \in Seq(Tasks)
    PROVE  s \o IdsInOrder((h \o f) \o d) = (s \o IdsInOrder(h)) \o IdsInOrder(f \o d)
<1>. DEFINE r == f \o d  a == IdsInOrder(h)  b == IdsInOrder(r)
<1>1. (h \o f) \o d = h \o r
    BY ConcatAssociative
<1>2. r \in Seq(Tasks)
    BY ConcatProperties
<1>3. IdsInOrder(h \o r) = a \o b
    <2>. HIDE DEF r
    <2>. QED  BY <1>2, IdsInOrderConcat
<1>4. a \in Seq(Nat) /\ b \in Seq(Nat)
    <2>. HIDE DEF r
    <2>. QED  BY <1>2, IdsInOrderType
<1>. HIDE DEF a, b
<1>5. s \o (a \o b) = (s \o a) \o b
    BY <1>4, IdsRegroup
<1>. QED  BY <1>1, <1>3, <1>5 DEF a, b, r

Pending == FlattenSeq(queue) \o due

LEMMA AnnouncedIs == Announced = shown \o IdsInOrder(Pending)
BY DEF Announced, IdsInOrder, Pending

LEMMA PendingType ==
    ASSUME TInv
    PROVE  Pending \in Seq(Tasks) /\ FlattenSeq(queue) \in Seq(Tasks)
           /\ due \in Seq(Tasks) /\ queue \in Seq(Seq(Tasks)) /\ shown \in Seq(Nat)
<1>1. due \in Seq(Tasks) /\ queue \in Seq(Seq(Tasks)) /\ shown \in Seq(Nat)
    BY DEF TInv, ThreadTypeOK
<1>2. FlattenSeq(queue) \in Seq(Tasks)
    BY <1>1, FlattenType
<1>. QED  BY <1>1, <1>2, ConcatProperties DEF Pending

(* The call that shows a list takes it off the queue.                      *)
LEMMA ShowMoves ==
    ASSUME TInv, ShowReminders
    PROVE  Announced' = Announced
<1>. DEFINE h == Head(queue)  f == FlattenSeq(Tail(queue))
<1>1. queue # <<>> /\ queue' = Tail(queue) /\ shown' = shown \o IdsInOrder(h) /\ due' = due
    BY DEF ShowReminders, IdsInOrder
<1>2. h \in Seq(Tasks) /\ Tail(queue) \in Seq(Seq(Tasks))
    BY <1>1, PendingType, HeadTailProperties
<1>3. f \in Seq(Tasks)
    BY <1>2, FlattenType
<1>4. FlattenSeq(queue) = h \o f
    BY <1>1, PendingType, FlattenHead
<1>5. Announced' = (shown \o IdsInOrder(h)) \o IdsInOrder(f \o due)
    BY <1>1, AnnouncedIs DEF Announced, IdsInOrder
<1>6. Announced = shown \o IdsInOrder((h \o f) \o due)
    BY <1>4, AnnouncedIs DEF Pending
<1>. HIDE DEF h, f
<1>. QED  BY <1>2, <1>3, <1>5, <1>6, PendingType, BoxesConcat

(* The result that is posted joins the end of the queue.                   *)
LEMMA PostMoves ==
    ASSUME TInv, Post
    PROVE  Announced' = Announced
<1>1. queue' = Append(queue, due) /\ due' = <<>> /\ shown' = shown
    BY DEF Post
<1>2. FlattenSeq(queue') = Pending
    BY <1>1, PendingType, FlattenAppend DEF Pending
<1>3. Pending \o <<>> = Pending
    BY PendingType, ConcatEmptySeq
<1>4. Announced' = shown \o IdsInOrder(Pending)
    BY <1>1, <1>2, <1>3 DEF Announced, IdsInOrder
<1>. QED  BY <1>4, AnnouncedIs

(* A task that is found is announced last.                                 *)
LEMMA FoundIsLast ==
    ASSUME TInv, NEW t \in Tasks, due' = Append(due, t), UNCHANGED <<queue, shown>>
    PROVE  /\ Announced \in Seq(Nat)
           /\ Announced' = Append(Announced, t.id)
<1>. DEFINE b == IdsInOrder(Pending)  x == <<t.id>>  one == <<t>>
<1>1. Announced = shown \o b /\ b \in Seq(Nat) /\ shown \in Seq(Nat)
    BY AnnouncedIs, PendingType, IdsInOrderType
<1>2. t.id \in Nat /\ x \in Seq(Nat) /\ one \in Seq(Tasks)
    BY DEF Tasks
<1>3. FlattenSeq(queue) \o (due \o one) = Pending \o one
    BY <1>2, PendingType, ConcatAssociative DEF Pending
<1>4. due' = due \o one
    BY PendingType, AppendIsConcat
<1>5. IdsInOrder(one) = x
    BY DEF IdsInOrder
<1>6. IdsInOrder(Pending \o one) = b \o x
    BY <1>2, <1>5, PendingType, IdsInOrderConcat
<1>7. Announced' = shown \o (b \o x)
    BY <1>3, <1>4, <1>6 DEF Announced, IdsInOrder
<1>8. shown \o b \in Seq(Nat)
    BY <1>1, ConcatProperties
<1>. HIDE DEF b, x
<1>9. Announced' = (shown \o b) \o x
    BY <1>1, <1>2, <1>7, IdsRegroup
<1>10. (shown \o b) \o x = Append(shown \o b, t.id)
    <2>. DEFINE a == shown \o b
    <2>. HIDE DEF a
    <2>1. a \in Seq(Nat) => Append(a, t.id) = a \o x
        BY <1>2, AppendIsConcat DEF x
    <2>. QED  BY <1>8, <2>1 DEF a
<1>. QED  BY <1>1, <1>8, <1>9, <1>10

LEMMA InjectiveAppend ==
    ASSUME NEW a \in Seq(Nat), NEW n \in Nat, IsInjective(a), n \notin Range(a)
    PROVE  IsInjective(Append(a, n)) /\ Range(Append(a, n)) = Range(a) \cup {n}
<1>. DEFINE f == Append(a, n)
<1>1. /\ f \in Seq(Nat) /\ Len(f) = Len(a) + 1
      /\ \A k \in 1..Len(a) : f[k] = a[k]
      /\ f[Len(a) + 1] = n
    BY AppendProperties
<1>. HIDE DEF f
<1>2. DOMAIN f = 1..Len(f) /\ DOMAIN a = 1..Len(a) /\ Len(a) \in Nat
    BY <1>1, LenProperties
<1>3. DOMAIN f = DOMAIN a \cup {Len(a) + 1} /\ \A k \in DOMAIN a : f[k] = a[k] /\ f[k] # n
    BY <1>1, <1>2 DEF Range
<1>4. Range(f) = Range(a) \cup {n}
    BY <1>1, <1>3 DEF Range
<1>5. IsInjective(f)
    BY <1>1, <1>3 DEF IsInjective
<1>. QED  BY <1>4, <1>5 DEF f

LEMMA InjectiveFront ==
    ASSUME NEW a \in Seq(Nat), NEW b \in Seq(Nat), IsInjective(a \o b)
    PROVE  IsInjective(a) /\ Range(a) \subseteq Range(a \o b)
<1>. DEFINE c == a \o b
<1>1. c \in Seq(Nat) /\ Len(c) = Len(a) + Len(b) /\ \A k \in 1..Len(a) : c[k] = a[k]
    BY IdsJoined
<1>2. IsInjective(c)
    OBVIOUS
<1>. HIDE DEF c
<1>3. /\ DOMAIN c = 1..Len(c) /\ DOMAIN a = 1..Len(a)
      /\ Len(a) \in Nat /\ Len(b) \in Nat
    BY <1>1, LenProperties
<1>4. \A k \in DOMAIN a : k \in DOMAIN c /\ c[k] = a[k]
    BY <1>1, <1>3
<1>5. IsInjective(a) /\ Range(a) \subseteq Range(c)
    BY <1>2, <1>4 DEF IsInjective, Range
<1>. QED  BY <1>5 DEF c

(* The invariant: what is announced is marked, in every window; what is    *)
(* marked is announced as long as the window is open.  Between two checks  *)
(* there is no result.                                                     *)
MarkInv ==
    /\ IsInjective(Announced)
    /\ Range(Announced) \subseteq reminded
    /\ window = "open" => reminded \subseteq Range(Announced)
    /\ window = "none" => rpc = "none" /\ queue = <<>> /\ shown = <<>>
    /\ rpc \in {"none", "sleep", "lock", "done"} => due = <<>>

LEMMA NothingAnnounced ==
    ASSUME shown = <<>>, queue = <<>>, due = <<>>
    PROVE  Announced = <<>> /\ IsInjective(Announced) /\ Range(Announced) = {}
<1>1. FlattenSeq(queue) \o due = <<>>
    BY FlattenEmpty
<1>2. [i \in DOMAIN (FlattenSeq(queue) \o due) |-> (FlattenSeq(queue) \o due)[i].id] = <<>>
    BY <1>1
<1>3. Announced = <<>>
    BY <1>2 DEF Announced
<1>. QED  BY <1>3 DEF IsInjective, Range

LEMMA MarkInit == ThreadInit => MarkInv
<1>. SUFFICES ASSUME ThreadInit
              PROVE  MarkInv
    OBVIOUS
<1>1. /\ shown = <<>> /\ queue = <<>> /\ due = <<>> /\ reminded = {}
      /\ window = "none" /\ rpc = "none"
    BY DEF ThreadInit, Init
<1>. QED  BY <1>1, NothingAnnounced DEF MarkInv

LEMMA MarkStep == TInv /\ MarkInv /\ [ThreadNext]_allVars => MarkInv'
<1>. SUFFICES ASSUME TInv, MarkInv, [ThreadNext]_allVars
              PROVE  MarkInv'
    OBVIOUS
<1>1. ASSUME reminded' = reminded, Announced' = Announced,
             window' = window \/ (window' # "none" /\ window' # "open"),
             window = "none" => UNCHANGED <<rpc, queue, shown>>,
             rpc' \in {"none", "sleep", "lock", "done"} => due' = <<>>
      PROVE  MarkInv'
    BY <1>1 DEF MarkInv
<1>2. ASSUME UNCHANGED <<reminded, due, queue, shown>>,
             window' = window \/ (window' # "none" /\ window' # "open"),
             window = "none" => UNCHANGED rpc,
             rpc' \in {"none", "sleep", "lock", "done"} => due' = <<>>
      PROVE  MarkInv'
    <2>1. Announced' = Announced
        BY <1>2 DEF Announced
    <2>. QED  BY <1>1, <1>2, <2>1
<1>3. CASE Open
    <2>1. shown' = <<>> /\ queue' = <<>> /\ due' = <<>>
        BY <1>3 DEF Open, MarkInv
    <2>2. reminded' = {} /\ window' = "open" /\ rpc' = "sleep"
        BY <1>3 DEF Open, LoadFromFile
    <2>3. Announced' = <<>> /\ IsInjective(Announced') /\ Range(Announced') = {}
        <3>1. FlattenSeq(queue') \o due' = <<>>
            BY <2>1, FlattenEmpty
        <3>2. Announced' = <<>>
            BY <2>1, <3>1 DEF Announced
        <3>. QED  BY <3>2 DEF IsInjective, Range
    <2>. QED  BY <2>1, <2>2, <2>3 DEF MarkInv, IsInjective
<1>4. ASSUME \/ \E t \in Candidates : Add(t) \/ Update(t) \/ Reject(t)
             \/ \E id \in Ids(tasks) : Delete(id)
             \/ Saving
      PROVE  MarkInv'
    BY <1>2, <1>4 DEF Add, Update, Reject, Delete, Saving, Save, SaveOpenFails, SaveOpen,
                      SaveLine, SaveClose, AddTask, UpdateTask, AddRejected, DeleteTask,
                      threadVars, MarkInv
<1>5. CASE ShowReminders
    BY <1>1, <1>5, ShowMoves DEF ShowReminders, vars, MarkInv
<1>6. CASE Close \/ Tick \/ Wake
    BY <1>2, <1>6 DEF Close, Tick, Wake, vars, MarkInv
<1>7. CASE Joined
    <2>1. /\ due = <<>> /\ due' = <<>> /\ queue' = <<>> /\ shown' = shown
          /\ window' = "gone" /\ rpc' = "done" /\ reminded' = reminded
        BY <1>7 DEF Joined, vars, MarkInv
    <2>2. Announced' = shown
        <3>1. FlattenSeq(queue') \o due' = <<>>
            BY <2>1, FlattenEmpty
        <3>2. IdsInOrder(<<>>) = <<>>
            BY DEF IdsInOrder
        <3>3. Announced' = shown \o IdsInOrder(<<>>)
            BY <2>1, <3>1 DEF Announced, IdsInOrder
        <3>. QED  BY <3>2, <3>3, PendingType, ConcatEmptySeq
    <2>3. IdsInOrder(Pending) \in Seq(Nat) /\ shown \in Seq(Nat)
        BY PendingType, IdsInOrderType
    <2>4. IsInjective(shown) /\ Range(shown) \subseteq Range(Announced)
        <3>. DEFINE b == IdsInOrder(Pending)
        <3>1. Announced = shown \o b
            BY AnnouncedIs
        <3>2. IsInjective(shown \o b)
            BY <3>1 DEF MarkInv
        <3>. HIDE DEF b
        <3>3. b \in Seq(Nat)
            BY <2>3 DEF b
        <3>. QED  BY <2>3, <3>1, <3>2, <3>3, InjectiveFront
    <2>5. Range(shown) \subseteq reminded
        BY <2>4 DEF MarkInv
    <2>. QED  BY <2>1, <2>2, <2>4, <2>5 DEF MarkInv, IsInjective, Range
<1>8. CASE Acquire
    BY <1>2, <1>8 DEF Acquire, vars, MarkInv
<1>9. CASE ScanTask
    <2>. DEFINE t == tasks[index]
    <2>1. t \in Tasks /\ t.id \in Nat
        BY <1>9, DomainsFinite, ListIds DEF ScanTask, TInv, ThreadTypeOK, TypeOK
    <2>2. UNCHANGED <<window, rpc, queue, shown>> /\ rpc = "scan"
        BY <1>9 DEF ScanTask
    <2>3. CASE InWindow(t) /\ t.id \notin reminded
        <3>1. due' = Append(due, t) /\ reminded' = reminded \cup {t.id}
            BY <1>9, <2>3 DEF ScanTask, Mark
        <3>2. Announced \in Seq(Nat) /\ Announced' = Append(Announced, t.id)
            BY <2>1, <2>2, <3>1, FoundIsLast
        <3>3. IsInjective(Announced) /\ t.id \notin Range(Announced)
            BY <2>3 DEF MarkInv
        <3>4. /\ IsInjective(Append(Announced, t.id))
              /\ Range(Append(Announced, t.id)) = Range(Announced) \cup {t.id}
            BY <2>1, <3>2, <3>3, InjectiveAppend
        <3>5. IsInjective(Announced)' /\ Range(Announced)' = Range(Announced) \cup {t.id}
            BY <3>2, <3>4 DEF IsInjective, Range
        <3>. QED  BY <2>2, <3>1, <3>5 DEF MarkInv
    <2>4. CASE ~(InWindow(t) /\ t.id \notin reminded)
        <3>1. due' = due /\ reminded' = reminded
            BY <1>9, <2>4 DEF ScanTask
        <3>. QED  BY <1>2, <2>2, <3>1
    <2>. QED  BY <2>3, <2>4
<1>10. CASE ScanEnd
    <2>1. rpc' \in {"sleep", "done", "post"} /\ (rpc' # "post" => due' = <<>>) /\ window # "none"
        BY <1>10 DEF ScanEnd, LoopHead, MarkInv
    <2>. QED  BY <1>2, <1>10, <2>1 DEF ScanEnd, vars
<1>11. CASE Post
    BY <1>1, <1>11, PostMoves DEF Post, vars, MarkInv
<1>12. CASE UNCHANGED allVars
    BY <1>2, <1>12 DEF allVars, vars, threadVars, MarkInv
<1>. QED  BY <1>3, <1>4, <1>5, <1>6, <1>7, <1>8, <1>9, <1>10, <1>11, <1>12
          DEF ThreadNext, ReminderStep

(* Every id marked as reminded has its box, or a posted call that will     *)
(* show it, exactly once, for any number of tasks, checks and calls in the *)
(* queue, whatever the GUI thread does in between (checkReminders,         *)
(* reminderLoop, showReminder).                                            *)
THEOREM EachAnnouncedOnce == ThreadSpec => []MarkedOnce
<1>1. MarkInv => MarkedOnce
    BY DEF MarkInv, MarkedOnce
<1>. QED  BY TInvInit, TInvStep, MarkInit, MarkStep, <1>1, PTL DEF ThreadSpec
=============================================================================
