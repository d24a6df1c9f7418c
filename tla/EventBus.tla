------------------------------ MODULE EventBus ------------------------------
(***************************************************************************)
(* The event bus: a Redis stream read through one consumer group that has  *)
(* one consumer (src/src/core/bus.py).                                     *)
(*                                                                         *)
(* A message id is its position in the append-only log.  Redis keeps, per  *)
(* group, the last id it has delivered and the ids delivered but not yet   *)
(* acknowledged.  The consumer process keeps the batch of its last         *)
(* XREADGROUP in memory and yields its messages one at a time; `at` is the *)
(* last id it has yielded, so the batch still to be yielded is             *)
(* at+1 .. last.                                                           *)
(*                                                                         *)
(* consume() asks for ">" only: it never reads the pending ids again.      *)
(***************************************************************************)
EXTENDS Naturals, Sequences

Stream(E) == [log : Seq(E), last : Nat, at : Nat, pending : SUBSET Nat]

EmptyStream == [log |-> <<>>, last |-> 0, at |-> 0, pending |-> {}]

(* XADD.  MAXLEN (about 10^6 events) is never reached within the bounds.   *)
Publish(s, e) == [s EXCEPT !.log = Append(@, e)]

(* There is a message for the consumer, in its batch or in the stream.     *)
HasNext(s) == s.at < Len(s.log)

Least(a, b) == IF a <= b THEN a ELSE b

(* Faulty: takes XREADGROUP to return as many messages as it was asked for. *)
TakeFull(s, count) ==
    IF s.at < s.last
    THEN [s EXCEPT !.at = @ + 1]
    ELSE [s EXCEPT !.at = @ + 1, !.last = @ + count,
                   !.pending = @ \cup ((s.last + 1) .. (s.last + count))]

(* Faulty: handles the newest message of each batch only.                  *)
TakeNewest(s, count) ==
    LET last == Least(s.last + count, Len(s.log))
    IN  [s EXCEPT !.at = last, !.last = last,
                  !.pending = @ \cup ((s.last + 1) .. last)]

(* One __anext__ of the consume() generator: the next message of the batch *)
(* or, when the batch is exhausted, XREADGROUP of up to `count` new ones,  *)
(* which all become pending at once.                                       *)
Take(s, count) ==
    IF s.at < s.last
    THEN [s EXCEPT !.at = @ + 1]
    ELSE LET last == Least(s.last + count, Len(s.log))
         IN  [s EXCEPT !.at      = @ + 1,
                       !.last    = last,
                       !.pending = @ \cup ((s.last + 1) .. last)]

(* The message being handled.                                              *)
Current(s) == s.log[s.at]

(* XACK of the message being handled.                                      *)
Ack(s) == [s EXCEPT !.pending = @ \ {s.at}]

(* Faulty: the group is made anew, from the beginning of the stream.       *)
ForgetPosition(s) == [s EXCEPT !.at = 0, !.last = 0, !.pending = {}]

(* Faulty: the new consumer begins with what was left unacknowledged.      *)
ForgetAndRedeliver(s) ==
    LET first == CHOOSE i \in s.pending \cup {s.last + 1} :
                    \A j \in s.pending \cup {s.last + 1} : i <= j
    IN  [s EXCEPT !.at = first - 1, !.last = first - 1]

(* The consumer process is gone and a new one starts to read: the batch it *)
(* had in memory is lost, the group's position is not.                     *)
Forget(s) == [s EXCEPT !.at = s.last]

(* What holds of every stream that is only used through the operators      *)
(* above: the consumer is never ahead of the group, nor the group of the   *)
(* log.                                                                    *)
WellFormed(s) ==
    /\ s.at <= s.last
    /\ s.last <= Len(s.log)
    /\ s.pending \subseteq 1 .. s.last
=============================================================================
