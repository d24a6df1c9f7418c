-------------------------- MODULE DeploymentProofs --------------------------
(***************************************************************************)
(* Proofs about a deployment: for any number of agent processes, any       *)
(* length of time, and any starts, stops, crashes and failures, the state  *)
(* is well typed, one life of the bot runs one agent at a time, a day has  *)
(* one daily test unless two looked at once, and alerts stay in order.     *)
(***************************************************************************)
EXTENDS BotControl, CommonProofs

(* The states of a daily test, and those from the look to the publication. *)
TaskStates == {"off", "grace", "sleep", "nap", "look", "trend", "daily", "persist",
               "publish", "notify", "dead"}

Times == [day : 0 .. LastDay + 1, minute : Minutes]

TaskType == [pc : TaskStates, wake : Times, wait : 0 .. DayMinutes, inZone : BOOLEAN,
             trend : -1 .. 1, asked : Days, seen : -1 .. LastDay]

ProcStates == {"unused", "running", "stopping", "gone"}

(* What the clock, the processes and the tests always are.                 *)
TestTypes ==
    /\ clock \in [day : Days, minute : Minutes]
    /\ proc \in [Procs -> ProcStates]
    /\ task \in [Procs -> TaskType]
    /\ \A p \in Procs : task[p].pc = "off" <=> ~Live(p)
    /\ testRows \subseteq [day : Days, by : Procs] /\ raced \subseteq Days

(* What the bot, the launcher and the processes hold.                      *)
BotTypes ==
    /\ notes \in Stream({Alert}) /\ WellFormed(notes)
    /\ bot \in [life : 1 .. MaxBotLives, handle : Procs \cup {None}, waiting : BOOLEAN]
    /\ bot.waiting => bot.handle # None

-----------------------------------------------------------------------------
(* The tests.                                                              *)

(* The clock is made of integers.                                          *)
LEMMA ClockIntegers ==
  ASSUME TestTypes
  PROVE  /\ LastDay \in Nat /\ LastMinute \in Nat /\ DayMinutes = LastMinute + 1
         /\ clock.day \in 0 .. LastDay /\ clock.minute \in 0 .. LastMinute
         /\ FireMinute \in 1 .. LastMinute
  BY TestAssumption DEF TestTypes, Days, Minutes, DayMinutes

(* A sleep takes a day at most; before the slot it ends today, and a       *)
(* minute before midnight ends at midnight.                                *)
LEMMA SleepLemma ==
  ASSUME TestTypes
  PROVE  /\ UntilSlot \in 1 .. DayMinutes
         /\ clock.minute < FireMinute => In(UntilSlot).day = clock.day
         /\ In(1).day # clock.day => In(1).day = clock.day + 1 /\ In(1).minute = 0
         /\ \A m \in 1 .. DayMinutes : In(m) \in Times /\ In(m).day <= clock.day + 1
  <1>1. UntilSlot \in 1 .. DayMinutes
    BY ClockIntegers DEF UntilSlot
  <1>2. clock.minute < FireMinute => In(UntilSlot).day = clock.day
    BY ClockIntegers DEF UntilSlot, In
  <1>3. In(1).day # clock.day => In(1).day = clock.day + 1 /\ In(1).minute = 0
    BY ClockIntegers DEF In
  <1>4. ASSUME NEW m \in 1 .. DayMinutes
        PROVE  In(m) \in Times /\ In(m).day <= clock.day + 1
    BY ClockIntegers DEF In, Times, Minutes
  <1>5. QED
    BY <1>1, <1>2, <1>3, <1>4

(* A task that is not running is one that starts from nothing.             *)
LEMMA OffLemma == Off \in TaskType /\ Off.pc = "off"
  <1>1. /\ [day |-> 0, minute |-> 0] \in Times /\ 0 \in 0 .. DayMinutes /\ 0 \in Days
        /\ -1 \in -1 .. LastDay
    BY TestAssumption DEF Days, DayMinutes, Times, Minutes
  <1>2. QED
    BY <1>1 DEF Off, TaskType, TaskStates

(* Whatever a step makes of a task is a task that is not off.              *)
LEMMA TaskLemma ==
  ASSUME TestTypes, NEW t \in TaskType, NEW p \in Procs
  PROVE  /\ Told(t) \in TaskType /\ Told(t).pc = t.pc
         /\ \A m \in 1 .. DayMinutes : Asleep(t, m) \in TaskType /\ Asleep(t, m).pc = "sleep"
         /\ AfterTest(t) \in TaskType /\ AfterTest(t).pc = "sleep"
         /\ AfterError(t) \in TaskType /\ AfterError(t).pc \in {"nap", "dead"}
         /\ Begin(t, p) \in TaskType /\ Begin(t, p).pc \in {"sleep", "look"}
  <1>0. LastDay \in Nat /\ clock.day \in 0 .. LastDay /\ clock.day \in -1 .. LastDay
    BY ClockIntegers
  <1>1. Told(t) \in TaskType /\ Told(t).pc = t.pc
    BY <1>0 DEF Told, TaskType
  <1>2. ASSUME NEW m \in 1 .. DayMinutes
        PROVE  Asleep(t, m) \in TaskType /\ Asleep(t, m).pc = "sleep"
    <2>1. t.seen \in -1 .. LastDay /\ In(m) \in Times
      BY SleepLemma DEF TaskType
    <2>2. QED
      BY <2>1, OffLemma DEF Asleep, TaskType, TaskStates
  <1>3. AfterTest(t) \in TaskType /\ AfterTest(t).pc = "sleep"
    <2>1. (IF t.wait > 0 THEN t.wait ELSE UntilSlot) \in 1 .. DayMinutes
      BY SleepLemma, ClockIntegers DEF TaskType
    <2>2. QED
      BY <1>2, <2>1 DEF AfterTest
  <1>4. AfterError(t) \in TaskType /\ AfterError(t).pc \in {"nap", "dead"}
    <2>1. [Off EXCEPT !.pc = "dead"] \in TaskType /\ [Off EXCEPT !.pc = "dead"].pc = "dead"
      BY OffLemma DEF TaskType, TaskStates
    <2>2. Asleep(t, 1) \in TaskType
      BY <1>2, ClockIntegers
    <2> DEFINE nap == [Asleep(t, 1) EXCEPT !.pc = "nap", !.seen = clock.day]
    <2>3. nap \in TaskType /\ nap.pc = "nap"
      BY <1>0, <2>2 DEF TaskType, TaskStates
    <2>4. QED
      BY <2>1, <2>3 DEF AfterError
  <1>5. Begin(t, p) \in TaskType /\ Begin(t, p).pc \in {"sleep", "look"}
    <2> DEFINE looking == [t EXCEPT !.pc = "look", !.inZone = NoTradeZone, !.asked = clock.day]
    <2>1. NoTradeZone \in BOOLEAN /\ clock.day \in Days
      BY <1>0 DEF NoTradeZone, Days
    <2>2. looking \in TaskType /\ looking.pc = "look"
      BY <2>1 DEF TaskType, TaskStates
    <2>3. QED
      BY <1>3, <2>2 DEF Begin
  <1>6. QED
    BY <1>1, <1>2, <1>3, <1>4, <1>5

(* The catch-up of a task that has just waited its grace.                  *)
LEMMA CatchUpLemma ==
  ASSUME TestTypes, NEW t \in TaskType
  PROVE  [t EXCEPT !.wait = UntilSlot] \in TaskType
  BY SleepLemma, ClockIntegers DEF TaskType

(* One task changes and no process does: the types stay.                   *)
LEMMA TaskSet ==
  ASSUME TestTypes, NEW p \in Procs, Live(p), NEW x \in TaskType, x.pc # "off",
         task' = [task EXCEPT ![p] = x], UNCHANGED <<clock, proc>>,
         testRows' \subseteq [day : Days, by : Procs], raced' \subseteq Days
  PROVE  TestTypes'
  BY DEF TestTypes, Live

(* The tests' own steps keep the types.                                    *)
LEMMA TestStepTypes ==
  ASSUME TestTypes, BotTypes, NEW p \in Procs, Live(p), TestStep(p), UNCHANGED <<proc, botVars>>
  PROVE  TestTypes' /\ BotTypes'
  <1>t. task[p] \in TaskType /\ task[p].pc # "off"
    BY DEF TestTypes
  <1>d. clock.day \in Days
    BY DEF TestTypes
  <1>n. /\ \A m \in 1 .. DayMinutes : Asleep(task[p], m) \in TaskType /\ Asleep(task[p], m).pc = "sleep"
        /\ AfterTest(task[p]) \in TaskType /\ AfterTest(task[p]).pc = "sleep"
        /\ AfterError(task[p]) \in TaskType /\ AfterError(task[p]).pc \in {"nap", "dead"}
        /\ Begin(task[p], p) \in TaskType /\ Begin(task[p], p).pc \in {"sleep", "look"}
    BY <1>t, TaskLemma
  <1>b. UNCHANGED notes => BotTypes'
    BY DEF BotTypes, botVars
  <1>1. CASE GraceEnds(p)
    <2> DEFINE t == Asleep(task[p], UntilSlot)
               y == [task[p] EXCEPT !.wait = UntilSlot]
    <2>1. t \in TaskType /\ t.pc = "sleep"
      BY <1>n, SleepLemma
    <2>2. Begin(y, p) \in TaskType /\ Begin(y, p).pc \in {"sleep", "look"}
      BY <1>t, CatchUpLemma, TaskLemma
    <2> DEFINE x == IF clock.minute < FireMinute THEN t ELSE Begin(y, p)
    <2> HIDE DEF t, y
    <2>3. x \in TaskType /\ x.pc # "off"
      BY <2>1, <2>2
    <2>4. task' = [task EXCEPT ![p] = x] /\ UNCHANGED <<clock, testRows, raced, notes>>
      BY <1>1 DEF GraceEnds, t, y
    <2> HIDE DEF x
    <2>5. QED
      BY <2>3, <2>4, <1>b, TaskSet DEF TestTypes
  <1>2. CASE Wakes(p)
    BY <1>2, <1>n, <1>b, TaskSet DEF Wakes, TestTypes
  <1>12. CASE NapEnds(p)
    <2>1. Asleep(task[p], UntilSlot) \in TaskType /\ Asleep(task[p], UntilSlot).pc = "sleep"
      BY <1>n, SleepLemma
    <2>2. QED
      BY <1>12, <2>1, <1>b, TaskSet DEF NapEnds, TestTypes
  <1>3. CASE Look(p)
    <2>1. raced' \subseteq Days
      BY <1>3, <1>d DEF Look, TestTypes
    <2> DEFINE t == Told(task[p])
    <2>2. t \in TaskType
      BY <1>t, TaskLemma
    <2> HIDE DEF t
    <2>5. [t EXCEPT !.pc = "trend"] \in TaskType /\ [t EXCEPT !.pc = "trend"].pc # "off"
      BY <2>2 DEF TaskType, TaskStates
    <2>6. AfterTest(t) \in TaskType /\ AfterTest(t).pc = "sleep"
      BY <1>t, <2>2, TaskLemma
    <2>3. \E x \in TaskType : x.pc # "off" /\ task' = [task EXCEPT ![p] = x]
      BY <1>3, <2>5, <2>6 DEF Look, t
    <2>4. QED
      BY <1>3, <2>1, <2>3, <1>b, TaskSet DEF Look, TestTypes
  <1>4. CASE Trend(p)
    <2>1. PICK d \in Directions : task' = [task EXCEPT ![p].pc = "daily", ![p].trend = d]
      BY <1>4 DEF Trend
    <2>2. d \in -1 .. 1
      BY TestAssumption
    <2> DEFINE x == [task[p] EXCEPT !.pc = "daily", !.trend = d]
    <2>3. x \in TaskType /\ x.pc # "off"
      BY <1>t, <2>2 DEF TaskType, TaskStates
    <2>4. task' = [task EXCEPT ![p] = x]
      BY <2>1 DEF TestTypes
    <2> HIDE DEF x
    <2>5. QED
      BY <1>4, <2>3, <2>4, <1>b, TaskSet DEF Trend, TestTypes
  <1>5. CASE Daily(p)
    <2>1. [task[p] EXCEPT !.pc = "persist"] \in TaskType /\ [task[p] EXCEPT !.pc = "persist"].pc # "off"
      BY <1>t DEF TaskType, TaskStates
    <2>2. \E x \in TaskType : x.pc # "off" /\ task' = [task EXCEPT ![p] = x]
      BY <1>5, <1>n, <2>1 DEF Daily
    <2>3. QED
      BY <1>5, <2>2, <1>b, TaskSet DEF Daily, TestTypes
  <1>6. CASE PersistTest(p)
    <2>1. testRows' \subseteq [day : Days, by : Procs]
      BY <1>6, <1>d DEF PersistTest, TestTypes
    <2>2. [task[p] EXCEPT !.pc = "publish"] \in TaskType /\ [task[p] EXCEPT !.pc = "publish"].pc # "off"
      BY <1>t DEF TaskType, TaskStates
    <2>3. QED
      BY <1>6, <2>1, <2>2, <1>b, TaskSet DEF PersistTest, TestTypes
  <1>7. CASE PublishTest(p)
    <2>1. [task[p] EXCEPT !.pc = "notify"] \in TaskType /\ [task[p] EXCEPT !.pc = "notify"].pc # "off"
      BY <1>t DEF TaskType, TaskStates
    <2>2. QED
      BY <1>7, <2>1, <1>b, TaskSet DEF PublishTest, TestTypes
  <1>8. CASE NotifySignal(p)
    <2>1. TestTypes'
      BY <1>8, <1>n, TaskSet DEF NotifySignal, TestTypes
    <2>2. notes' \in Stream({Alert}) /\ WellFormed(notes')
      BY <1>8, PublishLemma DEF NotifySignal, BotTypes
    <2>3. QED
      BY <2>1, <2>2 DEF BotTypes, botVars
  <1>9. CASE TestFails(p)
    <2>1. \E x \in TaskType : x.pc # "off" /\ task' = [task EXCEPT ![p] = x]
      BY <1>9, <1>n DEF TestFails
    <2>2. QED
      BY <1>9, <2>1, <1>b, TaskSet DEF TestFails, TestTypes
  <1>10. QED
    BY <1>1, <1>2, <1>12, <1>3, <1>4, <1>5, <1>6, <1>7, <1>8, <1>9 DEF TestStep

(* The types hold at the start.                                            *)
LEMMA TypesInit == BotInit => TestTypes /\ BotTypes
  <1> SUFFICES ASSUME BotInit PROVE TestTypes /\ BotTypes
    OBVIOUS
  <1>1. Off \in TaskType /\ Off.pc = "off"
    BY OffLemma
  <1>2. clock \in [day : Days, minute : Minutes]
    BY TestAssumption DEF BotInit, TestInit, Days, Minutes
  <1>3. TestTypes
    BY <1>1, <1>2 DEF BotInit, TestInit, TestTypes, ProcStates, Live
  <1>4. notes \in Stream({Alert}) /\ WellFormed(notes)
    BY DEF BotInit, TestInit, EmptyStream, Stream, WellFormed
  <1>5. BotTypes
    BY <1>4, BotAssumption DEF BotInit, BotTypes
  <1>6. QED
    BY <1>3, <1>5

(* So do the bot's, the processes' and the clock's.                        *)
LEMMA TypesStep == TestTypes /\ BotTypes /\ [BotNext]_allVars => (TestTypes /\ BotTypes)'
  <1> SUFFICES ASSUME TestTypes, BotTypes, [BotNext]_allVars
               PROVE  TestTypes' /\ BotTypes'
    OBVIOUS
  <1>0. Off \in TaskType /\ Off.pc = "off"
    BY OffLemma
  <1>s. ASSUME NEW p \in Procs, Spawn(p), UNCHANGED <<clock, testRows, raced>>
        PROVE  TestTypes'
    <2> DEFINE x == [Off EXCEPT !.pc = "grace"]
    <2>1. x \in TaskType /\ x.pc = "grace"
      BY <1>0 DEF TaskType, TaskStates
    <2>2. task' = [task EXCEPT ![p] = x] /\ proc' = [proc EXCEPT ![p] = "running"]
      BY <1>s DEF Spawn, TestStarts
    <2> HIDE DEF x
    <2>3. QED
      BY <1>s, <2>1, <2>2 DEF TestTypes, ProcStates, Live
  <1>e. ASSUME NEW p \in Procs, proc' = [proc EXCEPT ![p] = "gone"],
               task' = [task EXCEPT ![p] = Off], UNCHANGED <<clock, testRows, raced>>
        PROVE  TestTypes'
    BY <1>0, <1>e DEF TestTypes, ProcStates, Live
  <1>1. CASE StartAgent
    <2>1. PICK p \in Procs : Spawn(p) /\ bot' = [bot EXCEPT !.handle = p]
      BY <1>1 DEF StartAgent
    <2>2. QED
      BY <1>1, <2>1, <1>s DEF StartAgent, BotTypes
  <1>2. CASE StopAgent
    <2>1. CASE Tracked
      <3>1. bot.handle \in Procs /\ Live(bot.handle)
        BY <2>1 DEF Tracked, BotTypes
      <3>2. QED
        BY <1>2, <2>1, <3>1 DEF StopAgent, Tracked, TestTypes, BotTypes, testVars, ProcStates, Live
    <2>2. CASE ~Tracked
      BY <1>2, <2>2 DEF StopAgent, TestTypes, BotTypes, testVars, Live
    <2>3. QED
      BY <2>1, <2>2
  <1>3. CASE StopDone
    BY <1>3 DEF StopDone, TestTypes, BotTypes, testVars, Live
  <1>4. CASE StopTimesOut
    <2>1. bot.handle \in Procs
      BY <1>4 DEF StopTimesOut, BotTypes, Tracked
    <2>2. TestTypes'
      BY <1>4, <2>1, <1>e DEF StopTimesOut, AfterTimeout
    <2>3. QED
      BY <1>4, <2>2 DEF StopTimesOut, BotTypes
  <1>5. CASE StartByHand
    BY <1>5, <1>s DEF StartByHand, BotTypes
  <1>6. CASE BotRestarts
    <2>1. bot' \in [life : 1 .. MaxBotLives, handle : Procs \cup {None}, waiting : BOOLEAN]
          /\ ~bot'.waiting
      BY <1>6, BotAssumption DEF BotRestarts, BotTypes
    <2>2. notes' \in Stream({Alert}) /\ WellFormed(notes')
      BY <1>6, ForgetLemma DEF BotRestarts, BotTypes
    <2>3. QED
      BY <1>6, <2>1, <2>2 DEF BotRestarts, TestTypes, BotTypes, Live
  <1>7. CASE ForwardTakes
    <2>1. notes' \in Stream({Alert}) /\ WellFormed(notes')
      BY <1>7, TakeLemma, BotAssumption DEF ForwardTakes, BotTypes
    <2>2. QED
      BY <1>7, <2>1 DEF ForwardTakes, TestTypes, BotTypes, Live
  <1>8. CASE ForwardEnds
    <2>1. notes' \in Stream({Alert}) /\ WellFormed(notes')
      BY <1>8, AckLemma DEF ForwardEnds, BotTypes
    <2>2. QED
      BY <1>8, <2>1 DEF ForwardEnds, TestTypes, BotTypes, Live
  <1>9. ASSUME NEW p \in Procs, ProcessEnds(p)
        PROVE  TestTypes' /\ BotTypes'
    BY <1>9, <1>e DEF ProcessEnds, BotTypes, botVars
  <1>10. ASSUME NEW p \in Procs, Live(p), TestStep(p), UNCHANGED <<proc, botVars>>
         PROVE  TestTypes' /\ BotTypes'
    BY <1>10, TestStepTypes
  <1>11. CASE MinutePasses /\ UNCHANGED <<proc, botVars>>
    <2>1. clock' \in [day : Days, minute : Minutes]
      BY <1>11, TestAssumption DEF MinutePasses, TestTypes, Days, Minutes
    <2>2. QED
      BY <1>11, <2>1 DEF MinutePasses, TestTypes, BotTypes, botVars, Live
  <1>12. CASE UNCHANGED allVars
    BY <1>12 DEF allVars, testVars, botVars, TestTypes, BotTypes, Live
  <1>13. QED
    BY <1>1, <1>2, <1>3, <1>4, <1>5, <1>6, <1>7, <1>8, <1>9, <1>10, <1>11, <1>12 DEF BotNext

(* Type correctness of the deployment.                                     *)
THEOREM DeploymentTypes == BotSpec => []BotTypeOK
  <1>1. TestTypes /\ BotTypes => BotTypeOK
    BY DEF TestTypes, BotTypes, BotTypeOK, TaskType, TaskStates, Times, ProcStates
  <1>2. QED
    BY <1>1, TypesInit, TypesStep, PTL DEF BotSpec

-----------------------------------------------------------------------------
(* The agents.                                                             *)

(* Nobody has started a process that is not used yet, and no later life.   *)
Owners ==
    /\ owner \in [Procs -> Nat]
    /\ \A p \in Procs : owner[p] <= bot.life /\ (proc[p] = "unused" => owner[p] = 0)

(* Every step keeps each process to the life of the bot that started it.   *)
LEMMA OwnersStep ==
  TestTypes /\ BotTypes /\ Owners /\ OneAgentPerBot /\ [BotNext]_allVars
  => (Owners /\ OneAgentPerBot)'
  <1> SUFFICES ASSUME TestTypes, BotTypes, Owners, OneAgentPerBot, [BotNext]_allVars
               PROVE  Owners' /\ OneAgentPerBot'
    OBVIOUS
  <1>l. bot.life \in Nat \ {0} /\ bot.handle \in Procs \cup {None} /\ None \notin Procs
    BY BotAssumption DEF BotTypes, None
  <1>h. ASSUME ~Tracked, NEW q \in Procs, Live(q)
        PROVE  owner[q] # bot.life
    <2>1. owner[q] = bot.life => bot.handle = q
      BY <1>h DEF OneAgentPerBot
    <2>2. QED
      BY <1>h, <1>l, <2>1 DEF Tracked
  <1>1. CASE StartAgent
    <2>1. PICK p \in Procs : /\ proc[p] = "unused" /\ proc' = [proc EXCEPT ![p] = "running"]
                             /\ bot' = [bot EXCEPT !.handle = p]
                             /\ owner' = [owner EXCEPT ![p] = bot.life]
      BY <1>1 DEF StartAgent, Spawn
    <2>2. bot'.life = bot.life /\ bot'.handle = p
      BY <2>1 DEF BotTypes
    <2>3. Owners'
      BY <1>l, <2>1, <2>2 DEF Owners, TestTypes
    <2>4. ASSUME NEW q \in Procs, Live(q)', owner'[q] = bot'.life, q # p
          PROVE  FALSE
      <3>1. Live(q) /\ owner[q] = bot.life
        BY <2>1, <2>2, <2>4 DEF Live, Owners, TestTypes
      <3>2. QED
        BY <1>1, <1>h, <3>1 DEF StartAgent, MayStart
    <2>5. QED
      BY <2>2, <2>3, <2>4 DEF OneAgentPerBot
  <1>2. CASE StopAgent
    <2>0. owner' = owner /\ bot'.life = bot.life
      BY <1>2 DEF StopAgent, BotTypes
    <2>1. CASE Tracked
      <3>1. /\ bot.handle \in Procs /\ Live(bot.handle)
            /\ proc' = [proc EXCEPT ![bot.handle] = "stopping"] /\ bot'.handle = bot.handle
        BY <1>2, <1>l, <2>1 DEF StopAgent, BotTypes, Tracked
      <3>2. QED
        BY <2>0, <3>1 DEF Owners, OneAgentPerBot, Live, TestTypes
    <2>2. CASE ~Tracked
      BY <1>2, <1>h, <2>0, <2>2 DEF StopAgent, Owners, OneAgentPerBot, Live
    <2>3. QED
      BY <2>1, <2>2
  <1>3. CASE StopDone
    <2>1. owner' = owner /\ proc' = proc /\ bot'.life = bot.life
      BY <1>3 DEF StopDone, BotTypes
    <2>2. QED
      BY <1>3, <1>h, <2>1 DEF StopDone, Owners, OneAgentPerBot, Live
  <1>4. CASE StopTimesOut
    <2>1. /\ bot.handle \in Procs /\ proc' = [proc EXCEPT ![bot.handle] = "gone"]
          /\ owner' = owner /\ bot'.life = bot.life
      BY <1>4, <1>l DEF StopTimesOut, AfterTimeout, Tracked, BotTypes
    <2>2. QED
      BY <2>1 DEF Owners, OneAgentPerBot, Live, TestTypes
  <1>5. CASE StartByHand
    <2>1. PICK p \in Procs : proc[p] = "unused" /\ proc' = [proc EXCEPT ![p] = "running"]
      BY <1>5 DEF StartByHand, Spawn
    <2>2. owner' = owner /\ bot' = bot
      BY <1>5 DEF StartByHand
    <2>3. QED
      BY <1>l, <2>1, <2>2 DEF Owners, OneAgentPerBot, Live, TestTypes
  <1>6. CASE BotRestarts
    <2>1. bot'.life = bot.life + 1 /\ proc' = proc /\ owner' = owner
      BY <1>6 DEF BotRestarts
    <2>2. \A q \in Procs : owner'[q] < bot'.life
      BY <1>l, <2>1 DEF Owners
    <2>3. QED
      BY <1>l, <2>1, <2>2 DEF Owners, OneAgentPerBot
  <1>7. CASE ForwardTakes
    BY <1>7 DEF ForwardTakes, Live, Owners, OneAgentPerBot
  <1>8. CASE ForwardEnds
    BY <1>8 DEF ForwardEnds, Live, Owners, OneAgentPerBot
  <1>9. ASSUME NEW p \in Procs, ProcessEnds(p)
        PROVE  Owners' /\ OneAgentPerBot'
    <2>1. owner' = owner /\ bot' = bot /\ proc' = [proc EXCEPT ![p] = "gone"]
      BY <1>9 DEF ProcessEnds, botVars
    <2>2. QED
      BY <2>1 DEF Owners, OneAgentPerBot, Live, TestTypes
  <1>10. CASE UNCHANGED <<proc, botVars>>
    BY <1>10 DEF botVars, Owners, OneAgentPerBot, Live
  <1>11. QED
    BY <1>1, <1>2, <1>3, <1>4, <1>5, <1>6, <1>7, <1>8, <1>9, <1>10 DEF BotNext, allVars

(* /start_agent never starts a second agent beside the one it knows, and   *)
(* the handle is given up only when its process has ended: whatever the    *)
(* stops, crashes, restarts of the bot and starts by hand.                 *)
THEOREM BotRunsOneAgent == BotSpec => []OneAgentPerBot
  <1>1. BotInit => Owners /\ OneAgentPerBot
    BY DEF BotInit, Owners, OneAgentPerBot, Live
  <1>2. QED
    BY <1>1, TypesInit, TypesStep, OwnersStep, PTL DEF BotSpec

-----------------------------------------------------------------------------
(* The slots.                                                              *)

(* A nap of a minute ends on the day of the failure, or at its midnight.   *)
Napping(t) ==
    \/ /\ t.seen = clock.day
       /\ t.wake.day # clock.day => t.wake.day = clock.day + 1 /\ t.wake.minute = 0
    \/ clock.minute = 0 /\ t.wake.day = clock.day /\ t.wake.minute = 0

(* No sleep ends two days away; past the look, a task has had its answer   *)
(* today.                                                                  *)
Timed(t) ==
    /\ t.asked <= clock.day /\ t.wake.day <= clock.day + 1
    /\ t.pc = "nap" => Napping(t)
    /\ t.pc \in {"trend", "daily", "persist", "publish", "notify"} => t.seen = clock.day

Looked(t) ==
    clock.day \notin Weekend /\ t.pc = "sleep" /\ t.wake.day > clock.day => t.seen = clock.day

SlotInv ==
    /\ \A p \in Procs : Timed(task[p])
    /\ \A p \in Procs : proc[p] = "running" => Looked(task[p])

(* Whatever a step makes of a task keeps to the slots.                     *)
LEMMA TimedLemma ==
  ASSUME TestTypes, NEW t \in TaskType, NEW p \in Procs, Timed(t)
  PROVE  /\ Timed(Off) /\ Looked(Off) /\ Timed(Told(t))
         /\ \A m \in 1 .. DayMinutes :
               /\ Timed(Asleep(t, m))
               /\ t.seen = clock.day \/ In(m).day = clock.day => Looked(Asleep(t, m))
         /\ Timed(AfterTest(t)) /\ (t.seen = clock.day => Looked(AfterTest(t)))
         /\ Timed(AfterError(t)) /\ Looked(AfterError(t))
         /\ Timed(Begin(t, p)) /\ (proc[p] = "running" => Looked(Begin(t, p)))
  <1>1. clock.day \in Nat /\ clock.minute \in Nat
    BY ClockIntegers
  <1>2. Timed(Off) /\ Looked(Off)
    BY <1>1 DEF Timed, Looked, Off
  <1>3. Timed(Told(t))
    BY <1>1 DEF Timed, Napping, Told, TaskType
  <1>4. ASSUME NEW m \in 1 .. DayMinutes
        PROVE  /\ Timed(Asleep(t, m))
               /\ t.seen = clock.day \/ In(m).day = clock.day => Looked(Asleep(t, m))
    <2>1. /\ Asleep(t, m).pc = "sleep" /\ Asleep(t, m).wake = In(m) /\ Asleep(t, m).asked = 0
          /\ Asleep(t, m).seen = t.seen
      BY DEF Asleep, Off
    <2>2. In(m).day <= clock.day + 1
      BY SleepLemma
    <2>3. QED
      BY <1>1, <2>1, <2>2 DEF Timed, Looked
  <1>5. Timed(AfterTest(t)) /\ (t.seen = clock.day => Looked(AfterTest(t)))
    <2>1. (IF t.wait > 0 THEN t.wait ELSE UntilSlot) \in 1 .. DayMinutes
      BY SleepLemma, ClockIntegers DEF TaskType
    <2>2. QED
      BY <1>4, <2>1 DEF AfterTest
  <1>6. Timed(AfterError(t)) /\ Looked(AfterError(t))
    <2> DEFINE dead == [Off EXCEPT !.pc = "dead"]
               nap == [Asleep(t, 1) EXCEPT !.pc = "nap", !.seen = clock.day]
    <2>1. dead.pc = "dead" /\ dead.wake = Off.wake /\ dead.asked = Off.asked
      BY DEF Off
    <2>2. Timed(dead) /\ Looked(dead)
      BY <1>2, <2>1 DEF Timed, Looked
    <2>3. nap.pc = "nap" /\ nap.wake = In(1) /\ nap.asked = 0 /\ nap.seen = clock.day
      BY DEF Asleep, Off
    <2>4. In(1).day <= clock.day + 1
      BY SleepLemma, ClockIntegers
    <2> HIDE DEF nap
    <2>5. Timed(nap) /\ Looked(nap)
      BY <1>1, <2>3, <2>4, SleepLemma DEF Timed, Napping, Looked
    <2>6. QED
      BY <2>2, <2>5 DEF AfterError, nap
  <1>7. Timed(Begin(t, p)) /\ (proc[p] = "running" => Looked(Begin(t, p)))
    <2>1. CASE clock.day \in Weekend \/ proc[p] = "stopping"
      BY <1>5, <2>1 DEF Begin, Looked
    <2>2. CASE ~(clock.day \in Weekend \/ proc[p] = "stopping")
      <3> DEFINE looking == [t EXCEPT !.pc = "look", !.inZone = NoTradeZone, !.asked = clock.day]
      <3>1. looking.pc = "look" /\ looking.asked = clock.day /\ looking.wake = t.wake
        BY DEF TaskType
      <3>2. Begin(t, p) = looking
        BY <2>2 DEF Begin
      <3> HIDE DEF looking
      <3>3. QED
        BY <1>1, <3>1, <3>2 DEF Timed, Looked
    <2>3. QED
      BY <2>1, <2>2
  <1>8. QED
    BY <1>2, <1>3, <1>4, <1>5, <1>6, <1>7

(* One task moves, to one that keeps to the slots.                         *)
LEMMA SlotSet ==
  ASSUME TestTypes, SlotInv, NEW p \in Procs, NEW x, Timed(x), task' = [task EXCEPT ![p] = x],
         UNCHANGED clock, proc'[p] = "running" => Looked(x),
         \A q \in Procs : q # p /\ proc'[q] = "running" => proc[q] = "running"
  PROVE  SlotInv'
  <1>1. \A q \in Procs : task'[q] = IF q = p THEN x ELSE task[q]
    BY DEF TestTypes
  <1>2. QED
    BY <1>1 DEF SlotInv, Timed, Napping, Looked

(* The tests' own steps keep to the slots.                                 *)
LEMMA TestStepSlots ==
  ASSUME TestTypes, SlotInv, NEW p \in Procs, TestStep(p), UNCHANGED proc
  PROVE  SlotInv'
  <1>t. /\ task[p] \in TaskType /\ Timed(task[p]) /\ task \in [Procs -> TaskType]
        /\ proc[p] = "running" => Looked(task[p])
    BY DEF TestTypes, SlotInv
  <1>c. clock.day \in Nat /\ clock.minute \in Nat /\ FireMinute \in Nat /\ FireMinute >= 1
    BY ClockIntegers
  <1>n. /\ Timed(Told(task[p])) /\ Told(task[p]) \in TaskType
        /\ Told(task[p]).seen = clock.day /\ Told(task[p]).pc = task[p].pc
    BY <1>t, TimedLemma, TaskLemma DEF Told, TaskType
  <1>m. \A t \in TaskType : Timed(t) =>
           /\ \A m \in 1 .. DayMinutes :
                 /\ Timed(Asleep(t, m))
                 /\ t.seen = clock.day \/ In(m).day = clock.day => Looked(Asleep(t, m))
           /\ Timed(AfterTest(t)) /\ (t.seen = clock.day => Looked(AfterTest(t)))
           /\ Timed(AfterError(t)) /\ Looked(AfterError(t))
           /\ Timed(Begin(t, p)) /\ (proc[p] = "running" => Looked(Begin(t, p)))
    BY TimedLemma
  <1>1. CASE GraceEnds(p)
    <2> DEFINE t == Asleep(task[p], UntilSlot)
               y == [task[p] EXCEPT !.wait = UntilSlot]
    <2>1. Timed(t) /\ (clock.minute < FireMinute => Looked(t))
      BY <1>t, <1>m, SleepLemma
    <2>2. y \in TaskType
      BY <1>t, CatchUpLemma
    <2>3. Timed(y)
      BY <1>t DEF Timed, Napping, TaskType
    <2>4. Timed(Begin(y, p)) /\ (proc[p] = "running" => Looked(Begin(y, p)))
      BY <1>m, <2>2, <2>3
    <2>5. task' = [task EXCEPT ![p] = IF clock.minute < FireMinute THEN t ELSE Begin(y, p)]
      BY <1>1 DEF GraceEnds
    <2> HIDE DEF t, y
    <2>6. QED
      BY <1>1, <2>1, <2>4, <2>5, SlotSet DEF GraceEnds
  <1>2. CASE Wakes(p)
    <2>1. task' = [task EXCEPT ![p] = Begin(task[p], p)]
      BY <1>2 DEF Wakes
    <2>2. QED
      BY <1>2, <1>t, <1>m, <2>1, SlotSet DEF Wakes
  <1>12. CASE NapEnds(p)
    <2> DEFINE x == Asleep(task[p], UntilSlot)
    <2>1. task[p].seen = clock.day \/ clock.minute < FireMinute
      BY <1>12, <1>t, <1>c DEF NapEnds, Timed, Napping
    <2>2. Timed(x) /\ Looked(x)
      BY <1>t, <1>m, <2>1, SleepLemma
    <2>3. task' = [task EXCEPT ![p] = x]
      BY <1>12 DEF NapEnds
    <2> HIDE DEF x
    <2>4. QED
      BY <1>12, <2>2, <2>3, SlotSet DEF NapEnds
  <1>3. CASE Look(p)
    <2>1. Timed(AfterTest(Told(task[p]))) /\ Looked(AfterTest(Told(task[p])))
      BY <1>n, <1>m
    <2> DEFINE x == [Told(task[p]) EXCEPT !.pc = "trend"]
    <2>2. /\ x.pc = "trend" /\ x.seen = clock.day /\ x.asked = Told(task[p]).asked
          /\ x.wake = Told(task[p]).wake
      BY <1>n DEF TaskType
    <2>3. Timed(x) /\ Looked(x)
      BY <1>n, <2>2 DEF Timed, Looked
    <2>4. \/ task' = [task EXCEPT ![p] = AfterTest(Told(task[p]))]
          \/ task' = [task EXCEPT ![p] = x]
      BY <1>3, <1>t DEF Look
    <2> HIDE DEF x
    <2>5. UNCHANGED clock
      BY <1>3 DEF Look
    <2>6. QED
      BY <2>1, <2>3, <2>4, <2>5, SlotSet
  <1>4. ASSUME NEW x, UNCHANGED clock, task' = [task EXCEPT ![p] = x],
               task[p].pc \in {"trend", "daily", "persist", "publish"},
               \/ /\ x.pc \in {"daily", "persist", "publish", "notify"} /\ x.seen = task[p].seen
                  /\ x.asked = task[p].asked /\ x.wake = task[p].wake
               \/ x = AfterTest(task[p])
        PROVE  SlotInv'
    <2>1. task[p].seen = clock.day
      BY <1>t, <1>4 DEF Timed
    <2>2. Timed(x) /\ Looked(x)
      <3>1. CASE x = AfterTest(task[p])
        BY <1>t, <1>m, <2>1, <3>1
      <3>2. CASE x # AfterTest(task[p])
        BY <1>t, <1>4, <2>1, <3>2 DEF Timed, Looked
      <3>3. QED
        BY <3>1, <3>2
    <2>3. QED
      BY <1>4, <2>2, SlotSet
  <1>5. CASE Trend(p)
    <2>1. PICK d \in Directions : task' = [task EXCEPT ![p].pc = "daily", ![p].trend = d]
      BY <1>5 DEF Trend
    <2> DEFINE x == [task[p] EXCEPT !.pc = "daily", !.trend = d]
    <2>2. /\ task' = [task EXCEPT ![p] = x] /\ x.pc = "daily" /\ x.seen = task[p].seen
          /\ x.asked = task[p].asked /\ x.wake = task[p].wake
      BY <2>1, <1>t DEF TaskType
    <2> HIDE DEF x
    <2>3. QED
      BY <1>4, <1>5, <2>2 DEF Trend
  <1>6. CASE Daily(p)
    <2> DEFINE y == [task[p] EXCEPT !.pc = "persist"]
    <2>1. /\ y.pc = "persist" /\ y.seen = task[p].seen
          /\ y.asked = task[p].asked /\ y.wake = task[p].wake
      BY <1>t DEF TaskType
    <2>2. \/ task' = [task EXCEPT ![p] = y]
          \/ task' = [task EXCEPT ![p] = AfterTest(task[p])]
      BY <1>6, <1>t DEF Daily
    <2> HIDE DEF y
    <2>3. UNCHANGED clock /\ task[p].pc = "daily"
      BY <1>6 DEF Daily
    <2>4. QED
      BY <1>4, <2>1, <2>2, <2>3
  <1>7. CASE PersistTest(p) \/ PublishTest(p)
    <2>1. \E pc \in {"publish", "notify"} : task' = [task EXCEPT ![p].pc = pc]
      BY <1>7 DEF PersistTest, PublishTest
    <2>2. PICK pc \in {"publish", "notify"} : task' = [task EXCEPT ![p].pc = pc]
      BY <2>1
    <2> DEFINE x == [task[p] EXCEPT !.pc = pc]
    <2>3. /\ task' = [task EXCEPT ![p] = x] /\ x.pc = pc /\ x.seen = task[p].seen
          /\ x.asked = task[p].asked /\ x.wake = task[p].wake
      BY <2>2, <1>t DEF TaskType
    <2> HIDE DEF x
    <2>4. QED
      BY <1>4, <1>7, <2>3 DEF PersistTest, PublishTest
  <1>8. CASE NotifySignal(p)
    <2>1. task' = [task EXCEPT ![p] = AfterTest(task[p])] /\ UNCHANGED clock /\ task[p].pc = "notify"
      BY <1>8 DEF NotifySignal
    <2>2. Timed(AfterTest(task[p])) /\ Looked(AfterTest(task[p]))
      BY <1>t, <1>m, <2>1 DEF Timed
    <2>3. QED
      BY <2>1, <2>2, SlotSet
  <1>9. CASE TestFails(p)
    <2>1. CASE task[p].pc \in {"look", "trend", "daily"}
      <3>1. task' = [task EXCEPT ![p] = AfterError(task[p])] /\ UNCHANGED clock
        BY <1>9, <2>1 DEF TestFails
      <3>2. QED
        BY <1>t, <1>m, <3>1, SlotSet
    <2>2. CASE task[p].pc \in {"persist", "publish"}
      <3>1. task' = [task EXCEPT ![p] = AfterTest(task[p])] /\ UNCHANGED clock
        BY <1>9, <2>2 DEF TestFails
      <3>2. QED
        BY <1>4, <2>2, <3>1
    <2>3. QED
      BY <1>9, <2>1, <2>2 DEF TestFails
  <1>10. QED
    BY <1>1, <1>2, <1>12, <1>3, <1>5, <1>6, <1>7, <1>8, <1>9 DEF TestStep

(* Every step of a deployment keeps the tasks to the slots.                *)
LEMMA SlotsStep == TestTypes /\ BotTypes /\ SlotInv /\ [BotNext]_allVars => SlotInv'
  <1> SUFFICES ASSUME TestTypes, BotTypes, SlotInv, [BotNext]_allVars
               PROVE  SlotInv'
    OBVIOUS
  <1>c. /\ clock.day \in Nat /\ clock.minute \in Nat /\ LastMinute \in Nat
        /\ clock.minute <= LastMinute
    BY ClockIntegers
  <1>o. /\ Timed(Off) /\ Timed([Off EXCEPT !.pc = "grace"])
        /\ Looked(Off) /\ Looked([Off EXCEPT !.pc = "grace"])
    BY <1>c DEF Timed, Looked, Off
  <1>s. ASSUME NEW p \in Procs, Spawn(p), UNCHANGED clock
        PROVE  SlotInv'
    <2>1. /\ task' = [task EXCEPT ![p] = [Off EXCEPT !.pc = "grace"]]
          /\ \A q \in Procs : q # p => proc'[q] = proc[q]
      BY <1>s DEF Spawn, TestStarts, TestTypes
    <2>2. QED
      BY <1>o, <1>s, <2>1, SlotSet
  <1>e. ASSUME NEW p \in Procs, proc' = [proc EXCEPT ![p] = "gone"],
               task' = [task EXCEPT ![p] = Off], UNCHANGED clock
        PROVE  SlotInv'
    <2>1. \A q \in Procs : proc'[q] = "running" => proc[q] = "running"
      BY <1>e DEF TestTypes
    <2>2. QED
      BY <1>o, <1>e, <2>1, SlotSet
  <1>q. ASSUME UNCHANGED <<task, clock>>,
               \A q \in Procs : proc'[q] = "running" => proc[q] = "running"
        PROVE  SlotInv'
    BY <1>q DEF SlotInv, Timed, Napping, Looked
  <1>1. CASE StartAgent
    BY <1>1, <1>s DEF StartAgent
  <1>2. CASE StopAgent
    <2>1. \A q \in Procs : proc'[q] = "running" => proc[q] = "running"
      BY <1>2 DEF StopAgent, TestTypes
    <2>2. QED
      BY <1>2, <1>q, <2>1 DEF StopAgent, testVars
  <1>3. CASE StopDone \/ BotRestarts \/ ForwardTakes \/ ForwardEnds
    <2>1. UNCHANGED <<clock, proc, task>>
      BY <1>3 DEF StopDone, BotRestarts, ForwardTakes, ForwardEnds, testVars
    <2>2. QED
      BY <1>q, <2>1
  <1>4. CASE StopTimesOut
    <2>1. bot.handle \in Procs
      BY <1>4, BotAssumption DEF StopTimesOut, BotTypes
    <2>2. QED
      BY <1>4, <2>1, <1>e DEF StopTimesOut, AfterTimeout
  <1>5. CASE StartByHand
    BY <1>5, <1>s DEF StartByHand
  <1>6. ASSUME NEW p \in Procs, ProcessEnds(p)
        PROVE  SlotInv'
    BY <1>6, <1>e DEF ProcessEnds
  <1>7. ASSUME NEW p \in Procs, TestStep(p), UNCHANGED <<proc, botVars>>
        PROVE  SlotInv'
    BY <1>7, TestStepSlots
  <1>8. CASE MinutePasses /\ UNCHANGED <<proc, botVars>>
    <2>0. /\ UNCHANGED <<task, proc>> /\ clock \in [day : Days, minute : Minutes]
          /\ \A p \in Procs : /\ task[p].asked \in Nat /\ task[p].wake.day \in Nat
                              /\ task[p].wake.minute \in 0 .. LastMinute
                              /\ task[p].pc = "nap" => ~Due(task[p])
      BY <1>8, TestAssumption DEF MinutePasses, TestTypes, TaskType, Times, Days, Minutes
    <2>n. ASSUME NEW p \in Procs, task[p].pc = "nap"
          PROVE  /\ task[p].seen = clock.day
                 /\ task[p].wake.day # clock.day => /\ task[p].wake.day = clock.day + 1
                                                    /\ task[p].wake.minute = 0
                 /\ task[p].wake.day = clock.day => clock.minute < task[p].wake.minute
      BY <1>c, <2>0, <2>n DEF SlotInv, Timed, Napping, Due
    <2>1. CASE clock.minute < LastMinute
      <3>1. clock'.day = clock.day /\ clock'.minute = clock.minute + 1
        BY <1>8, <2>0, <2>1 DEF MinutePasses, Days, Minutes
      <3>2. ASSUME NEW p \in Procs PROVE Timed(task[p])'
        BY <1>c, <2>0, <2>n, <3>1 DEF SlotInv, Timed, Napping
      <3>3. ASSUME NEW p \in Procs, proc[p] = "running" PROVE Looked(task[p])'
        BY <2>0, <3>1, <3>3 DEF SlotInv, Looked
      <3>4. QED
        BY <2>0, <3>2, <3>3 DEF SlotInv
    <2>2. CASE ~(clock.minute < LastMinute)
      <3>1. clock'.day = clock.day + 1 /\ clock'.minute = 0
            /\ \A p \in Procs : task[p].pc \notin {"trend", "daily", "persist", "publish", "notify"}
        BY <1>8, <2>2 DEF MinutePasses
      <3>2. ASSUME NEW p \in Procs, task[p].pc = "nap"
            PROVE  Napping(task[p])'
        BY <1>c, <2>0, <2>2, <2>n, <3>1, <3>2 DEF Napping
      <3>3. ASSUME NEW p \in Procs PROVE Timed(task[p])' /\ Looked(task[p])'
        BY <1>c, <2>0, <3>1, <3>2 DEF SlotInv, Timed, Looked
      <3>4. QED
        BY <2>0, <3>3 DEF SlotInv
    <2>3. QED
      BY <2>1, <2>2
  <1>9. CASE UNCHANGED allVars
    BY <1>9, <1>q DEF allVars, testVars
  <1>10. QED
    BY <1>1, <1>2, <1>3, <1>4, <1>5, <1>6, <1>7, <1>8, <1>9 DEF BotNext

(* It holds at the start: no task runs.                                    *)
LEMMA SlotsInit == BotInit => SlotInv
  <1> SUFFICES ASSUME BotInit PROVE SlotInv
    OBVIOUS
  <1>1. /\ clock = [day |-> 0, minute |-> 0] /\ task = [p \in Procs |-> Off] /\ faults = 0
        /\ proc = [p \in Procs |-> "unused"]
    BY DEF BotInit, TestInit
  <1>2. Timed(Off)
    BY <1>1, TestAssumption DEF Timed, Off
  <1>3. QED
    BY <1>1, <1>2 DEF SlotInv

(* However long a catch-up takes, whatever raises and however late it was  *)
(* started, no running process goes to sleep until a later day without an  *)
(* answer of the journal, or a call that raised, on this trading day.      *)
THEOREM SlotsAreLookedAt == BotSpec => []NoSlotPassedOver
  <1>1. TestTypes /\ SlotInv => NoSlotPassedOver
    BY DEF SlotInv, Looked, NoSlotPassedOver
  <1>2. QED
    BY <1>1, TypesInit, TypesStep, SlotsInit, SlotsStep, PTL DEF BotSpec

-----------------------------------------------------------------------------
(* The tests of a day.                                                     *)

(* From the look to the journal row.                                       *)
Asking == {"trend", "daily", "persist"}

GivenToday == \E i \in 1 .. Len(given) : given[i].day = clock.day

(* What was given had been journaled; while a test asks, on a day without  *)
(* a race, nothing is journaled for the day and no other test asks; while  *)
(* it waits to be published, it is journaled and nothing is given.         *)
GivenRows ==
    /\ given \in Seq([day : Days, by : Procs])
    /\ \A i \in 1 .. Len(given) : given[i] \in testRows
    /\ \A r \in testRows : r.day <= clock.day

(* On a day without a race a test asks alone, with nothing journaled yet.  *)
AloneAsking ==
    \A p \in Procs : task[p].pc \in Asking /\ clock.day \notin raced =>
        /\ \A r \in testRows : r.day # clock.day
        /\ \A q \in Procs \ {p} : task[q].pc \notin Asking

(* And one that is journaled and not published yet is the only one.        *)
AloneGiving ==
    \A p \in Procs : task[p].pc = "publish" =>
        /\ [day |-> clock.day, by |-> p] \in testRows
        /\ clock.day \notin raced =>
              /\ ~GivenToday
              /\ \A q \in Procs \ {p} : task[q].pc \notin Asking \cup {"publish"}

TestsOfADay == GivenRows /\ AloneAsking /\ AloneGiving /\ OneTestPerDay

(* Steps that journal and publish nothing, and begin no test.              *)
LEMMA QuietTests ==
  ASSUME TestsOfADay, UNCHANGED <<testRows, given, raced>>, clock'.day = clock.day,
         \A q \in Procs : /\ task'[q].pc \in Asking => task[q].pc \in Asking
                          /\ task'[q].pc = "publish" => task[q].pc = "publish"
  PROVE  TestsOfADay'
  BY DEF TestsOfADay, GivenRows, AloneAsking, AloneGiving, GivenToday, OneTestPerDay

(* A task that is set to something that asks or publishes only if it did.  *)
LEMMA QuietTask ==
  ASSUME TestTypes, NEW p \in Procs, NEW x, task' = [task EXCEPT ![p] = x],
         x.pc \in Asking => task[p].pc \in Asking,
         x.pc = "publish" => task[p].pc = "publish",
         TestsOfADay, UNCHANGED <<clock, testRows, given, raced>>
  PROVE  TestsOfADay'
  <1>1. \A q \in Procs : /\ task'[q].pc \in Asking => task[q].pc \in Asking
                         /\ task'[q].pc = "publish" => task[q].pc = "publish"
    BY DEF TestTypes
  <1>2. QED
    BY <1>1, QuietTests

(* Every step of a test keeps what is known of the day.                    *)
LEMMA TestStepOfADay ==
  ASSUME TestTypes, SlotInv, TestsOfADay, NEW p \in Procs, TestStep(p)
  PROVE  TestsOfADay'
  <1>t. task[p] \in TaskType /\ clock.day \in Days
    BY DEF TestTypes
  <1>n. /\ \A m \in 1 .. DayMinutes : Asleep(task[p], m).pc = "sleep"
        /\ AfterTest(task[p]).pc = "sleep"
        /\ AfterError(task[p]).pc \in {"nap", "dead"}
        /\ Begin(task[p], p).pc \in {"sleep", "look"}
    BY <1>t, TaskLemma
  <1>1. CASE GraceEnds(p)
    <2> DEFINE y == [task[p] EXCEPT !.wait = UntilSlot]
               x == IF clock.minute < FireMinute THEN Asleep(task[p], UntilSlot) ELSE Begin(y, p)
    <2>1. Begin(y, p).pc \in {"sleep", "look"}
      BY <1>t, CatchUpLemma, TaskLemma
    <2>2. x.pc \in {"sleep", "look"}
      BY <1>n, <2>1, SleepLemma
    <2>3. task' = [task EXCEPT ![p] = x]
      BY <1>1 DEF GraceEnds
    <2> HIDE DEF x
    <2>4. QED
      BY <1>1, <2>2, <2>3, QuietTask DEF GraceEnds, Asking
  <1>12. CASE NapEnds(p)
    <2>1. Asleep(task[p], UntilSlot).pc = "sleep"
      BY <1>n, SleepLemma
    <2>2. QED
      BY <1>12, <2>1, QuietTask DEF NapEnds, Asking
  <1>2. CASE Wakes(p)
    BY <1>2, <1>n, QuietTask DEF Wakes, Asking
  <1>3. CASE Look(p)
    <2>1. CASE AlreadyFired(p) \/ task[p].inZone
      <3>1. AfterTest(Told(task[p])).pc = "sleep"
        BY <1>t, TaskLemma
      <3>2. QED
        BY <1>3, <2>1, <3>1, QuietTask DEF Look, Asking
    <2>2. CASE ~(AlreadyFired(p) \/ task[p].inZone)
      <3>1. /\ task' = [task EXCEPT ![p] = [Told(task[p]) EXCEPT !.pc = "trend"]]
            /\ raced' = IF \E q \in Procs \ {p} : task[q].pc \in Asking
                        THEN raced \cup {clock.day} ELSE raced
            /\ UNCHANGED <<clock, testRows, given>>
        BY <1>3, <2>2 DEF Look, Asking
      <3>2. /\ \A q \in Procs \ {p} : task'[q] = task[q]
            /\ task'[p].pc = "trend"
        BY <1>t, <3>1 DEF TestTypes, TaskType, Told
      <3>3. \A r \in testRows : r.day # clock.day
        <4>1. task[p].asked <= clock.day
          BY DEF SlotInv, Timed
        <4>2. QED
          BY <2>2, <4>1 DEF AlreadyFired
      <3>4. \A q \in Procs : task[q].pc # "publish"
        BY <3>3 DEF TestsOfADay, AloneGiving
      <3>5. \A q \in Procs : task'[q].pc # "publish"
        BY <3>2, <3>4
      <3>6. AloneGiving'
        BY <3>5 DEF AloneGiving
      <3>7. AloneAsking'
        BY <3>1, <3>2, <3>3 DEF AloneAsking
      <3>8. GivenRows' /\ OneTestPerDay'
        BY <3>1 DEF TestsOfADay, GivenRows, OneTestPerDay
      <3>9. QED
        BY <3>6, <3>7, <3>8 DEF TestsOfADay
    <2>3. QED
      BY <2>1, <2>2
  <1>4. CASE Trend(p)
    <2>1. PICK d \in Directions : task' = [task EXCEPT ![p].pc = "daily", ![p].trend = d]
      BY <1>4 DEF Trend
    <2> DEFINE x == [task[p] EXCEPT !.pc = "daily", !.trend = d]
    <2>2. task' = [task EXCEPT ![p] = x] /\ x.pc = "daily"
      BY <2>1, <1>t DEF TestTypes, TaskType
    <2> HIDE DEF x
    <2>3. QED
      BY <1>4, <2>2, QuietTask DEF Trend, Asking
  <1>5. CASE Daily(p)
    <2>1. [task[p] EXCEPT !.pc = "persist"].pc = "persist"
      BY <1>t DEF TaskType
    <2>2. PICK d \in Directions :
             task' = [task EXCEPT ![p] = IF d = @.trend /\ d # 0 THEN [@ EXCEPT !.pc = "persist"]
                                         ELSE AfterTest(@)]
      BY <1>5 DEF Daily
    <2> DEFINE x == IF d = task[p].trend /\ d # 0 THEN [task[p] EXCEPT !.pc = "persist"]
                    ELSE AfterTest(task[p])
    <2>3. x.pc \in {"persist", "sleep"}
      BY <1>n, <2>1
    <2>4. task' = [task EXCEPT ![p] = x]
      BY <2>2
    <2> HIDE DEF x
    <2>5. QED
      BY <1>5, <2>3, <2>4, QuietTask DEF Daily, Asking
  <1>6. CASE PersistTest(p)
    <2>1. /\ \A q \in Procs \ {p} : task'[q] = task[q]
          /\ task'[p].pc = "publish" /\ task[p].pc \in Asking
          /\ testRows' = testRows \cup {[day |-> clock.day, by |-> p]}
          /\ UNCHANGED <<clock, given, raced>>
      BY <1>6, <1>t DEF PersistTest, TestTypes, TaskType, Asking
    <2>2. GivenRows'
      BY <2>1, <1>t DEF TestsOfADay, GivenRows, Days
    <2>3. ASSUME clock.day \notin raced
          PROVE  /\ ~GivenToday
                 /\ \A q \in Procs \ {p} : task[q].pc \notin Asking \cup {"publish"}
      <3>1. \A r \in testRows : r.day # clock.day
        BY <2>1, <2>3 DEF TestsOfADay, AloneAsking
      <3>2. \A q \in Procs \ {p} : task[q].pc \notin Asking
        BY <2>1, <2>3 DEF TestsOfADay, AloneAsking
      <3>3. \A q \in Procs : task[q].pc # "publish"
        BY <3>1 DEF TestsOfADay, AloneGiving
      <3>4. ~GivenToday
        BY <3>1 DEF TestsOfADay, GivenRows, GivenToday
      <3>5. QED
        BY <3>2, <3>3, <3>4
    <2>4. AloneAsking'
      BY <2>1, <2>3 DEF AloneAsking, Asking
    <2>5. ASSUME NEW o \in Procs, task'[o].pc = "publish"
          PROVE  /\ [day |-> clock.day, by |-> o] \in testRows'
                 /\ clock.day \notin raced =>
                       /\ ~GivenToday
                       /\ \A q \in Procs \ {o} : task'[q].pc \notin Asking \cup {"publish"}
      <3>1. CASE o = p
        BY <2>1, <2>3, <3>1
      <3>2. CASE o # p
        BY <2>1, <2>3, <2>5, <3>2 DEF TestsOfADay, AloneGiving
      <3>3. QED
        BY <3>1, <3>2
    <2>6. AloneGiving'
      BY <2>1, <2>5 DEF AloneGiving, GivenToday
    <2>7. OneTestPerDay'
      BY <2>1 DEF TestsOfADay, OneTestPerDay
    <2>8. QED
      BY <2>2, <2>4, <2>6, <2>7 DEF TestsOfADay
  <1>7. CASE PublishTest(p)
    <2> DEFINE r == [day |-> clock.day, by |-> p]
    <2>1. /\ \A q \in Procs \ {p} : task'[q] = task[q]
          /\ task'[p].pc = "notify" /\ task[p].pc = "publish"
          /\ given' = Append(given, r)
          /\ UNCHANGED <<clock, testRows, raced>>
      BY <1>7, <1>t DEF PublishTest, TestTypes, TaskType
    <2>2. r \in testRows /\ r \in [day : Days, by : Procs] /\ r.day = clock.day
      BY <2>1, <1>t DEF TestsOfADay, AloneGiving
    <2> HIDE DEF r
    <2>3. /\ given' \in Seq([day : Days, by : Procs]) /\ Len(given') = Len(given) + 1
          /\ Len(given) \in Nat
          /\ given'[Len(given) + 1] = r
          /\ \A i \in 1 .. Len(given) : given'[i] = given[i]
      BY <2>1, <2>2 DEF TestsOfADay, GivenRows
    <2>4. GivenRows'
      <3>1. \A i \in 1 .. Len(given') : given'[i] \in testRows
        <4>1. ASSUME NEW i \in 1 .. Len(given') PROVE given'[i] \in testRows
          <5>1. i \in 1 .. Len(given) \/ i = Len(given) + 1
            BY <2>3
          <5>2. QED
            BY <5>1, <2>2, <2>3 DEF TestsOfADay, GivenRows
        <4>2. QED
          BY <4>1
      <3>2. QED
        BY <2>1, <2>3, <3>1 DEF TestsOfADay, GivenRows
    <2>5. clock.day \notin raced => /\ ~GivenToday
                                    /\ \A q \in Procs \ {p} : task[q].pc \notin Asking \cup {"publish"}
      BY <2>1 DEF TestsOfADay, AloneGiving
    <2>6. OneTestPerDay'
      <3>1. ASSUME NEW i \in 1 .. Len(given'), NEW j \in 1 .. Len(given'),
                   given'[i].day = given'[j].day, i # j
            PROVE  given'[i].day \in raced
        <4>1. CASE i \in 1 .. Len(given) /\ j \in 1 .. Len(given)
          BY <2>3, <3>1, <4>1 DEF TestsOfADay, OneTestPerDay
        <4>2. CASE i = Len(given) + 1 \/ j = Len(given) + 1
          BY <2>2, <2>3, <2>5, <3>1, <4>2 DEF GivenToday
        <4>3. QED
          BY <2>3, <4>1, <4>2
      <3>2. QED
        BY <2>1, <3>1 DEF OneTestPerDay
    <2>7. AloneAsking'
      BY <2>1 DEF TestsOfADay, AloneAsking, Asking
    <2>8. AloneGiving'
      <3>1. ASSUME NEW o \in Procs, task'[o].pc = "publish"
            PROVE  [day |-> clock.day, by |-> o] \in testRows /\ clock.day \in raced
        BY <2>1, <2>5, <3>1 DEF TestsOfADay, AloneGiving
      <3>2. QED
        BY <2>1, <3>1 DEF AloneGiving
    <2>9. QED
      BY <2>4, <2>6, <2>7, <2>8 DEF TestsOfADay
  <1>8. CASE NotifySignal(p)
    BY <1>8, <1>n, QuietTask DEF NotifySignal, Asking
  <1>9. CASE TestFails(p)
    <2>1. \E x : x.pc \in {"sleep", "nap", "dead"} /\ task' = [task EXCEPT ![p] = x]
      BY <1>9, <1>n DEF TestFails
    <2>2. QED
      BY <1>9, <2>1, QuietTask DEF TestFails, Asking
  <1>10. QED
    BY <1>1, <1>2, <1>12, <1>3, <1>4, <1>5, <1>6, <1>7, <1>8, <1>9 DEF TestStep

(* So does every step of a deployment.                                     *)
LEMMA TestsStep == TestTypes /\ BotTypes /\ SlotInv /\ TestsOfADay /\ [BotNext]_allVars => TestsOfADay'
  <1> SUFFICES ASSUME TestTypes, BotTypes, SlotInv, TestsOfADay, [BotNext]_allVars
               PROVE  TestsOfADay'
    OBVIOUS
  <1>s. ASSUME NEW p \in Procs, Spawn(p), UNCHANGED <<clock, testRows, given, raced>>
        PROVE  TestsOfADay'
    <2> DEFINE x == [Off EXCEPT !.pc = "grace"]
    <2>1. x.pc = "grace"
      BY DEF Off
    <2>2. task' = [task EXCEPT ![p] = x]
      BY <1>s DEF Spawn, TestStarts
    <2> HIDE DEF x
    <2>3. QED
      BY <1>s, <2>1, <2>2, QuietTask DEF Asking
  <1>e. ASSUME NEW p \in Procs, task' = [task EXCEPT ![p] = Off],
               UNCHANGED <<clock, testRows, given, raced>>
        PROVE  TestsOfADay'
    <2>1. Off.pc = "off"
      BY DEF Off
    <2>2. QED
      BY <1>e, <2>1, QuietTask DEF Asking
  <1>q. ASSUME UNCHANGED <<task, clock, testRows, given, raced>>
        PROVE  TestsOfADay'
    BY <1>q, QuietTests
  <1>1. CASE StartAgent
    BY <1>1, <1>s DEF StartAgent
  <1>2. CASE StopAgent \/ StopDone \/ BotRestarts \/ ForwardTakes \/ ForwardEnds
    BY <1>2, <1>q DEF StopAgent, StopDone, BotRestarts, ForwardTakes, ForwardEnds, testVars
  <1>3. CASE StopTimesOut
    <2>1. bot.handle \in Procs
      BY <1>3 DEF StopTimesOut, BotTypes
    <2>2. QED
      BY <1>3, <2>1, <1>e DEF StopTimesOut, AfterTimeout
  <1>4. CASE StartByHand
    BY <1>4, <1>s DEF StartByHand
  <1>5. ASSUME NEW p \in Procs, ProcessEnds(p)
        PROVE  TestsOfADay'
    BY <1>5, <1>e DEF ProcessEnds
  <1>6. ASSUME NEW p \in Procs, TestStep(p)
        PROVE  TestsOfADay'
    BY <1>6, TestStepOfADay
  <1>7. CASE MinutePasses
    <2>1. CASE clock'.day = clock.day
      BY <1>7, <2>1, QuietTests DEF MinutePasses
    <2>2. CASE clock'.day # clock.day
      <3>1. /\ \A q \in Procs : task'[q].pc \notin Asking \cup {"publish"}
            /\ clock'.day = clock.day + 1 /\ UNCHANGED <<testRows, given, raced>>
        BY <1>7, <2>2 DEF MinutePasses, Asking, TestTypes
      <3>2. GivenRows'
        BY <3>1 DEF TestsOfADay, GivenRows, TestTypes, Days
      <3>3. AloneAsking' /\ AloneGiving' /\ OneTestPerDay'
        BY <3>1 DEF TestsOfADay, AloneAsking, AloneGiving, OneTestPerDay
      <3>4. QED
        BY <3>2, <3>3 DEF TestsOfADay
    <2>3. QED
      BY <2>1, <2>2
  <1>8. CASE UNCHANGED allVars
    BY <1>8, <1>q DEF allVars, testVars
  <1>9. QED
    BY <1>1, <1>2, <1>3, <1>4, <1>5, <1>6, <1>7, <1>8 DEF BotNext

(* The journal row keeps a day from having a second daily test, in         *)
(* whatever process and after whatever crash or restart, unless two tests  *)
(* have asked at once: _maybe_fire looks first and journals much later.    *)
THEOREM DayHasOneTest == BotSpec => []OneTestPerDay
  <1>1. BotInit => TestsOfADay
    BY DEF BotInit, TestInit, Off, TestsOfADay, GivenRows, AloneAsking, AloneGiving,
       OneTestPerDay, Asking
  <1>2. TestsOfADay => OneTestPerDay
    BY DEF TestsOfADay
  <1>3. QED
    BY <1>1, <1>2, TypesInit, TypesStep, SlotsInit, SlotsStep, TestsStep, PTL DEF BotSpec

(* A journaled test is given, or its own process is about to give it, or a *)
(* call has raised, or the process is gone.                                *)
Accounted(r) ==
    \/ \E i \in 1 .. Len(given) : given[i] = r
    \/ task[r.by].pc = "publish" /\ r.day = clock.day
    \/ faults > 0
    \/ proc[r.by] = "gone"

AllAccounted == faults \in Nat /\ \A r \in testRows : Accounted(r)

(* Every step keeps each journaled test published, on its way, or lost.    *)
LEMMA AccountedStep ==
  TestTypes /\ BotTypes /\ TestsOfADay /\ AllAccounted /\ [BotNext]_allVars => AllAccounted'
  <1> SUFFICES ASSUME TestTypes, BotTypes, TestsOfADay, AllAccounted, [BotNext]_allVars
               PROVE  AllAccounted'
    OBVIOUS
  <1>t. \A r \in testRows : r \in [day : Days, by : Procs]
    BY DEF TestTypes
  <1>q. ASSUME UNCHANGED <<testRows, given>>, faults' \in Nat, faults <= faults',
               clock'.day = clock.day,
               \A q \in Procs : /\ proc[q] = "gone" => proc'[q] = "gone"
                                /\ task[q].pc = "publish" =>
                                      \/ task'[q].pc = "publish"
                                      \/ proc'[q] = "gone" \/ faults' > 0
        PROVE  AllAccounted'
    <2>1. ASSUME NEW r \in testRows PROVE Accounted(r)'
      <3>1. r.by \in Procs /\ Accounted(r) /\ faults \in Nat
        BY <1>t DEF AllAccounted
      <3>2. QED
        BY <1>q, <3>1 DEF Accounted
    <2>2. QED
      BY <1>q, <2>1 DEF AllAccounted
  <1>s. ASSUME NEW p \in Procs, Spawn(p), UNCHANGED <<clock, testRows, given, faults>>
        PROVE  AllAccounted'
    <2>1. /\ \A q \in Procs \ {p} : proc'[q] = proc[q] /\ task'[q] = task[q]
          /\ proc[p] = "unused" /\ task[p].pc = "off"
      BY <1>s DEF Spawn, TestStarts, TestTypes, Live
    <2>2. QED
      BY <1>s, <1>q, <2>1 DEF AllAccounted
  <1>e. ASSUME NEW p \in Procs, proc' = [proc EXCEPT ![p] = "gone"],
               task' = [task EXCEPT ![p] = Off], UNCHANGED <<clock, testRows, given, faults>>
        PROVE  AllAccounted'
    BY <1>e, <1>q DEF AllAccounted, TestTypes
  <1>1. CASE StartAgent
    BY <1>1, <1>s DEF StartAgent
  <1>2. CASE StopAgent
    <2>1. \A q \in Procs : proc[q] = "gone" => proc'[q] = "gone"
      BY <1>2 DEF StopAgent, Tracked, Live, TestTypes
    <2>2. QED
      BY <1>2, <1>q, <2>1 DEF StopAgent, AllAccounted, testVars
  <1>3. CASE StopDone \/ BotRestarts \/ ForwardTakes \/ ForwardEnds
    <2>1. UNCHANGED <<testRows, given, clock, proc, task>> /\ faults' \in Nat /\ faults <= faults'
      BY <1>3 DEF StopDone, BotRestarts, ForwardTakes, ForwardEnds, testVars, AllAccounted
    <2>2. QED
      BY <1>q, <2>1
  <1>4. CASE StopTimesOut
    <2>1. bot.handle \in Procs
      BY <1>4, BotAssumption DEF StopTimesOut, BotTypes
    <2>2. QED
      BY <1>4, <2>1, <1>e DEF StopTimesOut, AfterTimeout
  <1>5. CASE StartByHand
    BY <1>5, <1>s DEF StartByHand
  <1>6. ASSUME NEW p \in Procs, ProcessEnds(p)
        PROVE  AllAccounted'
    BY <1>6, <1>e DEF ProcessEnds
  <1>7. ASSUME NEW p \in Procs, TestStep(p), UNCHANGED <<proc, botVars>>
        PROVE  AllAccounted'
    <2>1. \A q \in Procs \ {p} : task'[q] = task[q]
      BY <1>7 DEF TestStep, GraceEnds, Wakes, NapEnds, Look, Trend, Daily, PersistTest, PublishTest,
         NotifySignal, TestFails, TestTypes
    <2>2. CASE PersistTest(p)
      <3>0. PICK new : new = [day |-> clock.day, by |-> p]
        OBVIOUS
      <3>1. task'[p].pc = "publish" /\ UNCHANGED <<clock, given, faults>> /\ testRows' = testRows \cup {new}
        BY <2>2, <3>0 DEF PersistTest, TestTypes, TaskType
      <3>2. Accounted(new)'
        BY <3>0, <3>1 DEF Accounted
      <3>3. ASSUME NEW r \in testRows PROVE Accounted(r)'
        <4>1. Accounted(r) /\ r.by \in Procs
          BY <1>t DEF AllAccounted
        <4>2. CASE r.by = p
          <5>1. task[p].pc = "persist"
            BY <2>2 DEF PersistTest
          <5>2. QED
            BY <1>7, <3>1, <4>1, <4>2, <5>1 DEF Accounted
        <4>3. CASE r.by # p
          BY <1>7, <2>1, <3>1, <4>1, <4>3 DEF Accounted
        <4>4. QED
          BY <4>2, <4>3
      <3>4. QED
        BY <3>1, <3>2, <3>3 DEF AllAccounted
    <2>3. CASE PublishTest(p)
      <3> DEFINE new == [day |-> clock.day, by |-> p]
      <3>1. UNCHANGED <<clock, testRows, faults>> /\ given' = Append(given, new)
        BY <2>3 DEF PublishTest
      <3>2. /\ given'[Len(given) + 1] = new /\ Len(given') = Len(given) + 1 /\ Len(given) \in Nat
            /\ \A i \in 1 .. Len(given) : given'[i] = given[i]
        BY <3>1 DEF TestsOfADay, GivenRows
      <3>3. ASSUME NEW r \in testRows PROVE Accounted(r)'
        <4>1. Accounted(r) /\ r \in [day : Days, by : Procs]
          BY <1>t DEF AllAccounted
        <4>2. CASE \E i \in 1 .. Len(given) : given[i] = r
          BY <3>2, <4>2 DEF Accounted
        <4>3. CASE r = new
          BY <3>2, <4>3 DEF Accounted
        <4>4. CASE r # new /\ task[r.by].pc = "publish" /\ r.day = clock.day
          <5>1. r.by # p
            BY <4>1, <4>4
          <5>2. QED
            BY <2>1, <3>1, <4>1, <4>4, <5>1 DEF Accounted
        <4>5. CASE faults > 0 \/ proc[r.by] = "gone"
          BY <1>7, <3>1, <4>5 DEF Accounted
        <4>6. QED
          BY <4>1, <4>2, <4>3, <4>4, <4>5 DEF Accounted
      <3>4. QED
        BY <3>1, <3>3 DEF AllAccounted
    <2>4. CASE ~PersistTest(p) /\ ~PublishTest(p)
      <3>1. UNCHANGED <<testRows, given, clock>>
        BY <1>7, <2>4 DEF TestStep, GraceEnds, Wakes, NapEnds, Look, Trend, Daily, NotifySignal, TestFails
      <3>2. faults' \in Nat /\ faults <= faults'
            /\ (task[p].pc = "publish" => faults' > 0)
        BY <1>7, <2>4 DEF TestStep, GraceEnds, Wakes, NapEnds, Look, Trend, Daily, NotifySignal, TestFails,
           AllAccounted
      <3>3. QED
        BY <1>7, <1>q, <2>1, <3>1, <3>2
    <2>5. QED
      BY <2>2, <2>3, <2>4
  <1>8. CASE MinutePasses /\ UNCHANGED <<proc, botVars>>
    <2>1. CASE clock'.day = clock.day
      BY <1>8, <1>q, <2>1 DEF MinutePasses, AllAccounted
    <2>2. CASE clock'.day # clock.day
      <3>1. \A q \in Procs : task[q].pc # "publish"
        BY <1>8, <2>2 DEF MinutePasses, TestTypes
      <3>2. UNCHANGED <<testRows, given, faults, task, proc>>
        BY <1>8 DEF MinutePasses
      <3>3. QED
        BY <1>t, <3>1, <3>2 DEF AllAccounted, Accounted
    <2>3. QED
      BY <2>1, <2>2
  <1>9. CASE UNCHANGED allVars
    BY <1>9, <1>q DEF allVars, testVars, AllAccounted
  <1>10. QED
    BY <1>1, <1>2, <1>3, <1>4, <1>5, <1>6, <1>7, <1>8, <1>9 DEF BotNext

(* The row that stands for a test is a promise: unless a call raises or    *)
(* the process ends between the journal and the stream, a journaled test   *)
(* is published, by the process that journaled it.                         *)
THEOREM TestsAreKept == BotSpec => []TestsLostOnlyByFaults
  <1>1. BotInit => AllAccounted
    BY DEF BotInit, TestInit, AllAccounted
  <1>2. BotInit => TestsOfADay
    BY DEF BotInit, TestInit, Off, TestsOfADay, GivenRows, AloneAsking, AloneGiving,
       OneTestPerDay, Asking
  <1>3. AllAccounted => TestsLostOnlyByFaults
    BY DEF AllAccounted, Accounted, TestsLostOnlyByFaults
  <1>4. QED
    BY <1>1, <1>2, <1>3, TypesInit, TypesStep, SlotsInit, SlotsStep, TestsStep, AccountedStep, PTL DEF BotSpec

-----------------------------------------------------------------------------
(* The alerts.                                                             *)

(* What was sent is what the forwarder has passed, and not what it sends.  *)
AlertsBehind ==
    /\ sent \in Seq(Nat)
    /\ \A i \in 1 .. Len(sent) : sent[i] <= notes.at /\ (fwd = "sending" => sent[i] < notes.at)

(* Every step keeps what was sent behind the place in the stream.          *)
LEMMA AlertsStep ==
  TestTypes /\ BotTypes /\ AlertsBehind /\ AlertsInOrder /\ [BotNext]_allVars
  => (AlertsBehind /\ AlertsInOrder)'
  <1> SUFFICES ASSUME TestTypes, BotTypes, AlertsBehind, AlertsInOrder, [BotNext]_allVars
               PROVE  AlertsBehind' /\ AlertsInOrder'
    OBVIOUS
  <1>t. notes \in Stream({Alert}) /\ WellFormed(notes) /\ notes.at \in Nat
    BY DEF BotTypes, Stream
  <1>q. ASSUME UNCHANGED sent, notes'.at \in Nat, notes.at <= notes'.at,
               fwd' = "sending" => fwd = "sending" \/ notes.at < notes'.at
        PROVE  AlertsBehind' /\ AlertsInOrder'
    <2>1. \A i \in 1 .. Len(sent) : sent[i] \in Nat
      BY DEF AlertsBehind
    <2>2. QED
      BY <1>t, <1>q, <2>1 DEF AlertsBehind, AlertsInOrder
  <1>1. CASE UNCHANGED <<sent, fwd, notes>>
    BY <1>1, <1>t, <1>q
  <1>2. CASE BotRestarts
    <2>1. notes' = Forget(notes) /\ notes.at <= notes'.at /\ notes' \in Stream({Alert})
      BY <1>2, <1>t, ForgetLemma DEF BotRestarts
    <2>2. QED
      BY <1>2, <1>q, <2>1 DEF BotRestarts, Stream
  <1>3. CASE ForwardTakes
    <2>1. notes'.at = notes.at + 1
      BY <1>3, <1>t, TakeLemma, BotAssumption DEF ForwardTakes
    <2>2. QED
      BY <1>3, <1>t, <1>q, <2>1 DEF ForwardTakes
  <1>4. CASE ForwardEnds
    <2>1. notes'.at = notes.at /\ fwd' = "idle" /\ fwd = "sending"
      BY <1>4, <1>t, AckLemma DEF ForwardEnds
    <2>2. CASE UNCHANGED sent
      BY <1>t, <1>q, <2>1, <2>2
    <2>3. CASE sent' = Append(sent, notes.at)
      <3>1. /\ sent' \in Seq(Nat) /\ Len(sent') = Len(sent) + 1 /\ Len(sent) \in Nat
            /\ sent'[Len(sent) + 1] = notes.at
            /\ \A i \in 1 .. Len(sent) : sent'[i] = sent[i] /\ sent[i] < notes.at /\ sent[i] \in Nat
        BY <1>t, <2>1, <2>3 DEF AlertsBehind
      <3>2. AlertsBehind'
        BY <1>t, <2>1, <3>1 DEF AlertsBehind
      <3>3. AlertsInOrder'
        <4>1. ASSUME NEW i \in 1 .. Len(sent'), NEW j \in 1 .. Len(sent'), i < j
              PROVE  sent'[i] < sent'[j]
          <5>1. i \in 1 .. Len(sent) /\ (j \in 1 .. Len(sent) \/ j = Len(sent) + 1)
            BY <3>1, <4>1
          <5>2. QED
            BY <3>1, <4>1, <5>1 DEF AlertsInOrder
        <4>2. QED
          BY <4>1 DEF AlertsInOrder
      <3>4. QED
        BY <3>2, <3>3
    <2>4. QED
      BY <1>4, <2>2, <2>3 DEF ForwardEnds
  <1>5. ASSUME NEW p \in Procs, TestStep(p), UNCHANGED <<proc, botVars>>
        PROVE  AlertsBehind' /\ AlertsInOrder'
    <2>1. UNCHANGED <<sent, fwd>>
      BY <1>5 DEF botVars
    <2>2. CASE NotifySignal(p)
      <3>1. notes'.at = notes.at
        BY <1>t, <2>2, PublishLemma DEF NotifySignal
      <3>2. QED
        BY <1>t, <1>q, <2>1, <3>1
    <2>3. CASE UNCHANGED notes
      BY <1>1, <2>1, <2>3
    <2>4. QED
      BY <1>5, <2>2, <2>3 DEF TestStep, GraceEnds, Wakes, NapEnds, Look, Trend, Daily, PersistTest,
         PublishTest, TestFails
  <1>6. ASSUME NEW p \in Procs, ProcessEnds(p)
        PROVE  UNCHANGED <<sent, fwd, notes>>
    BY <1>6 DEF ProcessEnds, botVars
  <1>7. QED
    BY <1>1, <1>2, <1>3, <1>4, <1>5, <1>6 DEF BotNext, StartAgent, StopAgent, StopDone, StopTimesOut,
       StartByHand, MinutePasses, allVars, testVars, botVars

(* The forwarder acknowledges an alert whether it was sent or not, and a   *)
(* new life of the bot goes on behind the group's position: an alert may   *)
(* be lost, but none reaches the chat twice or after a later one.          *)
THEOREM AlertsStayInOrder == BotSpec => []AlertsInOrder
  <1>1. BotInit => AlertsBehind /\ AlertsInOrder
    BY DEF BotInit, AlertsBehind, AlertsInOrder
  <1>2. QED
    BY <1>1, TypesInit, TypesStep, AlertsStep, PTL DEF BotSpec
=============================================================================
