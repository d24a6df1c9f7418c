----------------------------- MODULE DailyTest ------------------------------
(***************************************************************************)
(* The daily paper-mode test trade (src/src/workers/daily_test.py): a task *)
(* of every agent process sleeps until the slot of the day, looks in the   *)
(* journal whether today's test has been given, asks the broker for two    *)
(* directions, journals a signal and publishes it.  The journal is all     *)
(* that the tasks of two processes, or of a process and its successor,     *)
(* have in common.  Mode is "paper": in any other the task ends at once.   *)
(*                                                                         *)
(* A sleep is a duration, taken when it is computed: the one that follows  *)
(* a catch-up was computed before it, and ends late by the time it took.   *)
(***************************************************************************)
EXTENDS EventBus, Integers, FiniteSets

CONSTANTS Procs,        \* process identifiers
          FireMinute,   \* the slot, 10:30
          LunchStart, LunchEnd, NoEntryAfter,
          LastMinute, LastDay,  \* bounds
          Weekend,      \* the days that are Saturdays and Sundays
          Directions,   \* what an EMA or a candle can say: a subset of -1 .. 1
          MaxFaults     \* bound: calls that raise

ASSUME TestAssumption ==
    /\ FireMinute \in Nat /\ LastMinute \in Nat /\ LastDay \in Nat
    /\ FireMinute \in 1 .. LastMinute
    /\ LunchStart \in Nat /\ LunchEnd \in Nat /\ NoEntryAfter \in Nat
    /\ Directions \subseteq -1 .. 1
    /\ MaxFaults \in Nat

VARIABLES clock,    \* the day and minute, IST
          proc,     \* every process: "unused", "running", "stopping" or "gone"
          task,     \* its run_daily_test_loop
          testRows, \* the journal's signals of strategy daily_paper_test
          given,    \* history: the signals published, in order
          raced,    \* history: days on which a test looked beside another's
          notes,    \* stream:notifications, group telegram-bot
          faults    \* model only

testVars == <<clock, task, testRows, given, raced, notes, faults>>

Days    == 0 .. LastDay
Minutes == 0 .. LastMinute

DayMinutes == LastMinute + 1

(* wake is when its sleep ends; wait, the sleep that follows the catch-up  *)
(* under way, 0 when none is; asked, the day about which it asks the       *)
(* journal; seen, a history, the last day on which it was told or a call   *)
(* of its raised.                                                          *)
Off == [pc |-> "off", wake |-> [day |-> 0, minute |-> 0], wait |-> 0, inZone |-> FALSE,
        trend |-> 0, asked |-> 0, seen |-> -1]

TestInit ==
    /\ clock = [day |-> 0, minute |-> 0]
    /\ task = [p \in Procs |-> Off]
    /\ testRows = {} /\ given = <<>> /\ raced = {}
    /\ notes = EmptyStream
    /\ faults = 0

(* Faulty: always tomorrow's.                                              *)
UntilSlotTomorrow == DayMinutes - clock.minute + FireMinute

(* _next_fire_seconds: to today's slot, or to tomorrow's if it has come.   *)
UntilSlot ==
    IF clock.minute < FireMinute THEN FireMinute - clock.minute
    ELSE DayMinutes - clock.minute + FireMinute

(* The time that many minutes from now, within a day.                      *)
In(minutes) ==
    IF clock.minute + minutes <= LastMinute
    THEN [day |-> clock.day, minute |-> clock.minute + minutes]
    ELSE [day |-> clock.day + 1, minute |-> clock.minute + minutes - DayMinutes]

(* _no_trade_zone                                                          *)
NoTradeZone == clock.minute \in LunchStart .. LunchEnd - 1 \/ clock.minute >= NoEntryAfter

Asleep(t, minutes) ==
    [Off EXCEPT !.pc = "sleep", !.wake = In(minutes), !.seen = t.seen]

(* What follows a _maybe_fire that returned: the sleep computed before the *)
(* catch-up begins only now, or one is computed.                           *)
AfterTest(t) == Asleep(t, IF t.wait > 0 THEN t.wait ELSE UntilSlot)

(* One that raised: the catch-up is not protected and ends the task; the   *)
(* loop sleeps a minute and computes a sleep then.                         *)
AfterError(t) ==
    IF t.wait > 0 THEN [Off EXCEPT !.pc = "dead"]
    ELSE [Asleep(t, 1) EXCEPT !.pc = "nap", !.seen = clock.day]

(* _maybe_fire begins: the guards that need no answer.  The local kill     *)
(* switch of a process is armed by the signal that stops it.               *)
Begin(t, p) ==
    IF clock.day \in Weekend \/ proc[p] = "stopping"
    THEN AfterTest(t)
    ELSE [t EXCEPT !.pc = "look", !.inZone = NoTradeZone, !.asked = clock.day]

(* The process has started its tasks: a minute of grace.                   *)
TestStarts(p) == task' = [task EXCEPT ![p] = [Off EXCEPT !.pc = "grace"]]

GraceEnds(p) ==
    /\ task[p].pc = "grace"
    /\ task' = [task EXCEPT ![p] =
                   IF clock.minute < FireMinute THEN Asleep(@, UntilSlot)
                   ELSE Begin([@ EXCEPT !.wait = UntilSlot], p)]
    /\ UNCHANGED <<clock, testRows, given, raced, notes, faults>>

Due(t) ==
    \/ clock.day > t.wake.day
    \/ clock.day = t.wake.day /\ clock.minute >= t.wake.minute

Wakes(p) ==
    /\ task[p].pc = "sleep" /\ Due(task[p])
    /\ task' = [task EXCEPT ![p] = Begin(@, p)]
    /\ UNCHANGED <<clock, testRows, given, raced, notes, faults>>

NapEnds(p) ==
    /\ task[p].pc = "nap" /\ Due(task[p])
    /\ task' = [task EXCEPT ![p] = Asleep(@, UntilSlot)]
    /\ UNCHANGED <<clock, testRows, given, raced, notes, faults>>

(* Faulty: only what this process has journaled counts.                    *)
AlreadyFiredHere(p) == \E r \in testRows : r.day >= task[p].asked /\ r.by = p

(* _already_fired_today: a test since the midnight before it was asked.    *)
AlreadyFired(p) == \E r \in testRows : r.day >= task[p].asked

Told(t) == [t EXCEPT !.seen = clock.day]

(* The journal has answered, be it on another day: nothing limits its time. *)
Look(p) ==
    /\ task[p].pc = "look"
    /\ IF AlreadyFired(p) \/ task[p].inZone
       THEN task' = [task EXCEPT ![p] = AfterTest(Told(@))] /\ UNCHANGED raced
       ELSE /\ task' = [task EXCEPT ![p] = [Told(@) EXCEPT !.pc = "trend"]]
            /\ raced' = IF \E q \in Procs \ {p} : task[q].pc \in {"trend", "daily", "persist"}
                        THEN raced \cup {clock.day} ELSE raced
    /\ UNCHANGED <<clock, testRows, given, notes, faults>>

(* _15m_direction                                                          *)
Trend(p) ==
    /\ task[p].pc = "trend"
    /\ \E d \in Directions : task' = [task EXCEPT ![p].pc = "daily", ![p].trend = d]
    /\ UNCHANGED <<clock, testRows, given, raced, notes, faults>>

(* _daily_direction, and the decision: both must say the same.             *)
Daily(p) ==
    /\ task[p].pc = "daily"
    /\ \E d \in Directions :
          task' = [task EXCEPT ![p] = IF d = @.trend /\ d # 0 THEN [@ EXCEPT !.pc = "persist"]
                                      ELSE AfterTest(@)]
    /\ UNCHANGED <<clock, testRows, given, raced, notes, faults>>

(* _inject: the signal is journaled, then published, then announced.       *)
PersistTest(p) ==
    /\ task[p].pc = "persist"
    /\ testRows' = testRows \cup {[day |-> clock.day, by |-> p]}
    /\ task' = [task EXCEPT ![p].pc = "publish"]
    /\ UNCHANGED <<clock, given, raced, notes, faults>>

(* Faulty: looks at the switch again once the signal is journaled.         *)
PublishTestUnderSwitch(p) ==
    /\ task[p].pc = "publish"
    /\ given' = IF proc[p] = "stopping" THEN given
                ELSE Append(given, [day |-> clock.day, by |-> p])
    /\ task' = [task EXCEPT ![p].pc = "notify"]
    /\ UNCHANGED <<clock, testRows, raced, notes, faults>>

PublishTest(p) ==
    /\ task[p].pc = "publish"
    /\ given' = Append(given, [day |-> clock.day, by |-> p])
    /\ task' = [task EXCEPT ![p].pc = "notify"]
    /\ UNCHANGED <<clock, testRows, raced, notes, faults>>

(* What an alert says is left out.                                         *)
Alert == "signal"

(* notify_signal, whose failure is swallowed.                              *)
NotifySignal(p) ==
    /\ task[p].pc = "notify"
    /\ \/ notes' = Publish(notes, Alert) /\ UNCHANGED faults
       \/ faults < MaxFaults /\ faults' = faults + 1 /\ UNCHANGED notes
    /\ task' = [task EXCEPT ![p] = AfterTest(@)]
    /\ UNCHANGED <<clock, testRows, given, raced>>

(* A call raises.  _inject is protected, the rest of _maybe_fire is not.   *)
TestFails(p) ==
    /\ faults < MaxFaults
    /\ faults' = faults + 1
    /\ \/ /\ task[p].pc \in {"look", "trend", "daily"}
          /\ task' = [task EXCEPT ![p] = AfterError(@)]
       \/ /\ task[p].pc \in {"persist", "publish"}
          /\ task' = [task EXCEPT ![p] = AfterTest(@)]
    /\ UNCHANGED <<clock, testRows, given, raced, notes>>

TestStep(p) ==
    \/ GraceEnds(p) \/ Wakes(p) \/ NapEnds(p) \/ Look(p) \/ Trend(p) \/ Daily(p)
    \/ PersistTest(p) \/ PublishTest(p) \/ NotifySignal(p) \/ TestFails(p)

(* A test that goes past the look began before NoEntryAfter and is over by *)
(* midnight, given that its client need not ask for a code and the journal *)
(* answers.  A nap of a minute lasts no longer.                            *)
MinutePasses ==
    /\ \A p \in Procs : task[p].pc = "nap" => ~Due(task[p])
    /\ \/ /\ clock.minute < LastMinute
          /\ clock' = [clock EXCEPT !.minute = @ + 1]
       \/ /\ clock.minute = LastMinute /\ clock.day < LastDay
          /\ \A p \in Procs : task[p].pc \notin {"trend", "daily", "persist", "publish", "notify"}
          /\ clock' = [day |-> clock.day + 1, minute |-> 0]
    /\ UNCHANGED <<task, testRows, given, raced, notes, faults>>
-----------------------------------------------------------------------------
(* A day has one test at most, in however many processes: the journal      *)
(* keeps a restarted process from giving it again.  Two tests that look    *)
(* beside one another can both find nothing.                               *)
OneTestPerDay ==
    \A i, j \in 1 .. Len(given) :
        given[i].day = given[j].day /\ i # j => given[i].day \in raced

(* A running process whose sleep will end on a later day has been told by  *)
(* the journal today whether to test, or a call of its has raised today:   *)
(* however late it was started, whatever the catch-up took and whatever    *)
(* raised before, it passes no trading day over unexamined.                *)
NoSlotPassedOver ==
    \A p \in Procs :
        /\ proc[p] = "running"
        /\ clock.day \notin Weekend /\ clock.minute >= FireMinute
        /\ task[p].pc = "sleep" /\ task[p].wake.day > clock.day
        => task[p].seen = clock.day

(* A journaled test was published, is about to be, or was lost to a call   *)
(* that raised or with its process: the journal then keeps every later     *)
(* attempt of that day from giving it.                                     *)
TestsLostOnlyByFaults ==
    \A r \in testRows :
        \/ \E i \in 1 .. Len(given) : given[i] = r
        \/ task[r.by].pc = "publish"
        \/ faults > 0
        \/ proc[r.by] = "gone"
=============================================================================
