----------------------------- MODULE BotControl -----------------------------
(***************************************************************************)
(* The processes of a deployment: the Telegram bot, which starts and stops *)
(* the agent and forwards alerts (src/src/notifications/bot.py), the agent *)
(* processes (src/src/workers/ingestor.py) it or the launcher has started, *)
(* and the daily test in each of them.                                     *)
(*                                                                         *)
(* The bot handles one command at a time, and while /stop_agent waits for  *)
(* the process its whole loop waits: the wait is a blocking one.           *)
(***************************************************************************)
EXTENDS DailyTest

CONSTANTS MaxBotLives, \* bound: lives of the bot
          MaxByHand,   \* bound: agents started with the launcher
          ReadCount    \* count of the forwarder's XREADGROUP

ASSUME BotAssumption ==
    /\ MaxBotLives \in Nat \ {0} /\ MaxByHand \in Nat
    /\ ReadCount \in Nat \ {0}
    /\ "none" \notin Procs

VARIABLES bot,     \* life; handle is _ingestor_proc, "none" for None
          owner,   \* history: the life of the bot that started a process, 0 the launcher
          byHand,  \* model only
          fwd,     \* the forwarder: "idle", or "sending" the current alert
          sent     \* history: the alerts that reached the chat

botVars == <<bot, owner, byHand, fwd, sent>>
allVars == <<testVars, proc, botVars>>

None == "none"

BotInit ==
    /\ TestInit
    /\ proc = [p \in Procs |-> "unused"]
    /\ bot = [life |-> 1, handle |-> None, waiting |-> FALSE]
    /\ owner = [p \in Procs |-> 0]
    /\ byHand = 0
    /\ fwd = "idle" /\ sent = <<>>

Live(p) == proc[p] \in {"running", "stopping"}

(* Popen.poll() is None                                                    *)
Tracked == bot.handle # None /\ Live(bot.handle)

(* A new process: its daily test begins with it.  What fails in main       *)
(* before the tasks are started ends the process.                          *)
Spawn(p) ==
    /\ proc[p] = "unused"
    /\ proc' = [proc EXCEPT ![p] = "running"]
    /\ TestStarts(p)

(* Faulty: does not look whether one is running.                           *)
MayStartAlways == TRUE

MayStart == ~Tracked

(* /start_agent.  Popen may fail: then nothing changes.                    *)
StartAgent ==
    /\ ~bot.waiting
    /\ MayStart
    /\ \E p \in Procs :
          /\ Spawn(p)
          /\ bot' = [bot EXCEPT !.handle = p]
          /\ owner' = [owner EXCEPT ![p] = bot.life]
    /\ UNCHANGED <<clock, testRows, given, raced, notes, faults, byHand, fwd, sent>>

(* /stop_agent: forgets a process that has ended, terminates one that has  *)
(* not and waits for it.                                                   *)
StopAgent ==
    /\ ~bot.waiting
    /\ IF Tracked
       THEN /\ proc' = [proc EXCEPT ![bot.handle] = "stopping"]
            /\ bot' = [bot EXCEPT !.waiting = TRUE]
       ELSE /\ bot.handle # None
            /\ bot' = [bot EXCEPT !.handle = None]
            /\ UNCHANGED proc
    /\ UNCHANGED <<testVars, owner, byHand, fwd, sent>>

(* The process it waits for has ended.                                     *)
StopDone ==
    /\ bot.waiting /\ ~Tracked
    /\ bot' = [bot EXCEPT !.handle = None, !.waiting = FALSE]
    /\ UNCHANGED <<testVars, proc, owner, byHand, fwd, sent>>

(* Faulty: waits without a timeout.                                        *)
AfterTimeoutNever == FALSE /\ UNCHANGED <<proc, task>>

(* kill() after ten seconds.                                               *)
AfterTimeout ==
    /\ proc' = [proc EXCEPT ![bot.handle] = "gone"]
    /\ task' = [task EXCEPT ![bot.handle] = Off]

StopTimesOut ==
    /\ bot.waiting /\ Tracked
    /\ AfterTimeout
    /\ bot' = [bot EXCEPT !.handle = None, !.waiting = FALSE]
    /\ UNCHANGED <<clock, testRows, given, raced, notes, faults, owner, byHand, fwd, sent>>

(* An agent process ends: told to, of an error in main, or by a crash.     *)
ProcessEnds(p) ==
    /\ Live(p)
    /\ proc' = [proc EXCEPT ![p] = "gone"]
    /\ task' = [task EXCEPT ![p] = Off]
    /\ UNCHANGED <<clock, testRows, given, raced, notes, faults, botVars>>

(* start_agent.bat runs beside whatever the bot has started.               *)
StartByHand ==
    /\ byHand < MaxByHand
    /\ byHand' = byHand + 1
    /\ \E p \in Procs : Spawn(p)
    /\ UNCHANGED <<clock, testRows, given, raced, notes, faults, bot, owner, fwd, sent>>

(* The bot ends and is started again: the handle is lost, the agent goes   *)
(* on, and an alert being sent is not sent again.                          *)
BotRestarts ==
    /\ bot.life < MaxBotLives
    /\ bot' = [life |-> bot.life + 1, handle |-> None, waiting |-> FALSE]
    /\ fwd' = "idle"
    /\ notes' = Forget(notes)
    /\ UNCHANGED <<clock, task, testRows, given, raced, faults, proc, owner, byHand, sent>>

(* _forward_notifications takes the next alert.                            *)
ForwardTakes ==
    /\ ~bot.waiting /\ fwd = "idle" /\ HasNext(notes)
    /\ notes' = Take(notes, ReadCount)
    /\ fwd' = "sending"
    /\ UNCHANGED <<clock, task, testRows, given, raced, faults, proc, bot, owner, byHand, sent>>

(* It is sent, or sending fails; it is acknowledged either way.            *)
ForwardEnds ==
    /\ ~bot.waiting /\ fwd = "sending"
    /\ \/ sent' = Append(sent, notes.at) /\ UNCHANGED faults
       \/ faults < MaxFaults /\ faults' = faults + 1 /\ UNCHANGED sent
    /\ notes' = Ack(notes)
    /\ fwd' = "idle"
    /\ UNCHANGED <<clock, task, testRows, given, raced, proc, bot, owner, byHand>>

BotNext ==
    \/ StartAgent \/ StopAgent \/ StopDone \/ StopTimesOut \/ StartByHand \/ BotRestarts
    \/ ForwardTakes \/ ForwardEnds
    \/ \E p \in Procs : ProcessEnds(p)
    \/ \E p \in Procs : Live(p) /\ TestStep(p) /\ UNCHANGED <<proc, botVars>>
    \/ MinutePasses /\ UNCHANGED <<proc, botVars>>

(* A blocking wait ends: with the process, or by its timeout.              *)
BotFairness == WF_allVars(StopDone) /\ WF_allVars(StopTimesOut)

BotSpec == BotInit /\ [][BotNext]_allVars /\ BotFairness
-----------------------------------------------------------------------------
BotTypeOK ==
    /\ clock \in [day : Days, minute : Minutes]
    /\ proc \in [Procs -> {"unused", "running", "stopping", "gone"}]
    /\ task \in [Procs -> [pc : {"off", "grace", "sleep", "nap", "look", "trend", "daily",
                                 "persist", "publish", "notify", "dead"},
                           wake : [day : 0 .. LastDay + 1, minute : Minutes],
                           wait : 0 .. DayMinutes, inZone : BOOLEAN, trend : -1 .. 1,
                           asked : Days, seen : -1 .. LastDay]]
    /\ \A p \in Procs : task[p].pc = "off" <=> ~Live(p)
    /\ testRows \subseteq [day : Days, by : Procs] /\ raced \subseteq Days
    /\ notes \in Stream({Alert}) /\ WellFormed(notes)
    /\ bot \in [life : 1 .. MaxBotLives, handle : Procs \cup {None}, waiting : BOOLEAN]
    /\ bot.waiting => bot.handle # None

(* However it is stopped, of the agents that one life of the bot has       *)
(* started one lives at most, and it is the one the bot has the handle of: *)
(* what runs beside it comes from the launcher or an earlier life.         *)
OneAgentPerBot ==
    \A p \in Procs : Live(p) /\ owner[p] = bot.life => bot.handle = p

(* An alert reaches the chat once at most, and in order.                   *)
AlertsInOrder == \A i, j \in 1 .. Len(sent) : i < j => sent[i] < sent[j]

(* /stop_agent is answered, whatever the process does.                     *)
StopIsAnswered == bot.waiting ~> ~bot.waiting
=============================================================================
