-------------------------- MODULE AgentInvariants ---------------------------
(***************************************************************************)
(* The inductive invariant of the trading path.  The properties it implies *)
(* (OneEntryPerAcceptedSignal, TradesAreBacked, UpdatesAreJournaled) speak *)
(* of the tables; they are kept because of where each task and each        *)
(* message stands, which is what the conjuncts below add.                  *)
(***************************************************************************)
EXTENDS AgentProperties

(* A task that is handling a message has taken one.                        *)
MessageInHand ==
    /\ risk.pc \notin {"idle", "dead"} => signalStream.at >= 1
    /\ exec.pc \notin {"idle", "dead"} => orderStream.at >= 1

(* A signal is published once; an order was published for a signal that    *)
(* was taken before, and is not being judged any more; once per signal.    *)
SignalIn(j) == orderStream.log[j].signal

PublishedOnce ==
    /\ \A i \in DOMAIN signalStream.log : emit[signalStream.log[i].id].pc = "done"
    /\ \A i, j \in DOMAIN signalStream.log :
          signalStream.log[i].id = signalStream.log[j].id => i = j
    /\ \A i, j \in DOMAIN orderStream.log : SignalIn(i) = SignalIn(j) => i = j
    /\ \A j \in DOMAIN orderStream.log :
          \E i \in 1 .. signalStream.at :
              /\ signalStream.log[i].id = SignalIn(j)
              /\ i = signalStream.at => risk.pc \in {"idle", "ack", "dead"}

(* A signal whose order is published was accepted, if the journal has it.  *)
VerdictFirst ==
    /\ \A j \in DOMAIN orderStream.log : signals[SignalIn(j)] \in {"none", "accepted"}
    /\ risk.pc = "publish" => signals[Signal.id] \in {"none", "accepted"}

(* An entry order in the journal comes from an order that was taken.       *)
EntriesAreOrdered ==
    /\ \A i \in Entries :
          /\ orders[i].signal \in Signals
          /\ signals[orders[i].signal] = "accepted"
          /\ \E j \in 1 .. orderStream.at :
                /\ SignalIn(j) = orders[i].signal
                /\ j = orderStream.at => exec.pc # "insert"
    /\ \A i, j \in Entries : orders[i].signal = orders[j].signal => i = j

(* What the executor's row is, step by step.                               *)
RowInHand ==
    /\ exec.pc \in {"quote", "fill", "open", "report"} =>
          /\ exec.row \in Entries
          /\ orders[exec.row].symbol = Order.symbol
    /\ exec.pc \in {"open", "report"} => orders[exec.row].status = "COMPLETE"
    /\ exec.pc \in {"quote", "fill", "open"} =>
          \A k \in DOMAIN trades : trades[k].entry # exec.row
    /\ exec.pc = "report" => \E k \in DOMAIN trades : trades[k].entry = exec.row

EntryBacked ==
    /\ \A k \in DOMAIN trades :
          /\ trades[k].entry \in Entries
          /\ orders[trades[k].entry].status = "COMPLETE"
          /\ orders[trades[k].entry].symbol = trades[k].symbol
    /\ \A j, k \in DOMAIN trades : trades[j].entry = trades[k].entry => j = k

(* What the watcher's trade and row are, step by step: what it has still   *)
(* to evaluate or to close is open, so no close is ever overwritten.       *)
IsExit(i, sym) ==
    /\ i \in Exits
    /\ orders[i].status = "COMPLETE"
    /\ orders[i].symbol = sym

ExitInHand ==
    /\ watch.todo \subseteq OpenTrades
    /\ watch.pc \in {"exit", "close"} => watch.trade \in OpenTrades \ watch.todo
    /\ watch.pc = "close" =>
          /\ IsExit(watch.row, trades[watch.trade].symbol)
          /\ \A k \in Closed : trades[k].exit # watch.row
    /\ watch.pc \in {"rollup", "report"} =>
          \E k \in Closed : trades[k].exit = watch.row

ExitBacked ==
    /\ \A k \in Closed : IsExit(trades[k].exit, trades[k].symbol)
    /\ \A j, k \in Closed : trades[j].exit = trades[k].exit => j = k

IndInv ==
    /\ TypeOK
    /\ MessageInHand /\ PublishedOnce /\ VerdictFirst
    /\ EntriesAreOrdered /\ RowInHand /\ EntryBacked
    /\ ExitInHand /\ ExitBacked
    /\ UpdatesAreJournaled

-----------------------------------------------------------------------------
(* What the refinement of SignalLifecycle needs beside it: a signal has no *)
(* verdict before the risk engine is done with it, and an order row that   *)
(* names a signal is an entry.                                             *)
Unjudged(s) == signals[s] \in {"none", "new"}

VerdictOnce ==
    /\ \A s \in Signals : emit[s].pc # "done" => Unjudged(s)
    /\ \A j \in DOMAIN signalStream.log :
          \/ j > signalStream.at
          \/ j = signalStream.at /\ risk.pc \in {"gate", "contract", "outcome"}
          => Unjudged(signalStream.log[j].id)

ExitsUnsigned == \A i \in Exits : orders[i].signal = NoSignal

LifeInv == VerdictOnce /\ ExitsUnsigned

-----------------------------------------------------------------------------
(* What HaltHolds needs: a day has an entry in its aggregate only after a  *)
(* signal was taken.                                                       *)
BookedAfterSignal ==
    (\E d \in Days : dailyPnl[d] # EmptyDay) => signalStream.at >= 1

-----------------------------------------------------------------------------
(* The accounts behind the properties that count failures.  An armed local *)
(* switch is a failure already counted: it pays for the tasks that the     *)
(* shutdown it announces will cancel.                                      *)
ShutdownDue == OneIf("local" \in kill)

FillAccount ==
    Cardinality(OrphanFills) + ShutdownDue <= faults + OneIf(exec.pc = "open")

ExitAccount ==
    /\ Booked + OneIf(watch.pc = "rollup") <= Cardinality(Closed)
    /\ Cardinality(OrphanExits) + (Cardinality(Closed) - Booked) + ShutdownDue
          <= faults + OneIf(watch.pc \in {"close", "rollup"})

NetAccount ==
    /\ "local" \in kill => faults > 0
    /\ \A k \in OpenTrades : trades[k].pnl = 0
    /\ LedgerAgrees
=============================================================================
