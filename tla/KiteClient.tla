----------------------------- MODULE KiteClient -----------------------------
(***************************************************************************)
(* The broker client of a process (src/src/broker/kite_client.py): its     *)
(* tasks share one KiteClient, whose token any of them fills or            *)
(* invalidates, and one rate limiter.  Beside it the token_refresh worker  *)
(* (src/src/workers/token_refresh.py) uses the same table of sessions.     *)
(*                                                                         *)
(* Every call is a place_order: the other calls go the same way and only   *)
(* differ in that repeating them does no harm.                             *)
(***************************************************************************)
EXTENDS TokenBucket, KiteSession

CONSTANTS Worker,      \* the token_refresh worker
          MaxCalls,    \* bound: calls, and runs of the worker
          Attempts,    \* stop_after_attempt
          MaxFaults    \* bound: calls that end in an error but a refused token

ASSUME ClientAssumption ==
    /\ Callers = Tasks \cup {Worker} /\ Worker \notin Tasks
    /\ Attempts \in Nat \ {0}
    /\ MaxCalls \in Nat /\ MaxFaults \in Nat

VARIABLES cached,   \* _kite and _access_token
          call,     \* where each task is in _call
          refused,  \* history: tokens the client has been refused
          calls, faults  \* model only

clientVars == <<cached, call, refused, calls, faults>>
kiteVars   == <<bucketVars, sessionVars, clientVars>>

(* result tells how the task's last call ended; placed and lost count, of  *)
(* that call, the orders at the broker and the answers that never came;    *)
(* shunned are the tokens that had been refused when the call began.       *)
NoCall == [pc |-> "idle", token |-> NoToken, attempt |-> 0, result |-> "none",
           placed |-> 0, lost |-> 0, shunned |-> {}]

KiteInit ==
    /\ BucketInit /\ SessionInit
    /\ cached = NoToken
    /\ call = [t \in Tasks |-> NoCall]
    /\ refused = {}
    /\ calls = 0 /\ faults = 0

(* Bound: calls begin while there is time left to serve everyone in line.  *)
TimeIsLeft == now + Len(line) < MaxTime

(* _call begins: await _bucket.acquire().                                  *)
CallBegins(t) ==
    /\ call[t].pc = "idle"
    /\ calls < MaxCalls /\ TimeIsLeft
    /\ calls' = calls + 1
    /\ call' = [call EXCEPT ![t] = [NoCall EXCEPT !.pc = "bucket", !.shunned = refused]]
    /\ Enter(t)
    /\ UNCHANGED <<sessionVars, cached, refused, faults>>

Sending(c, token) == [c EXCEPT !.pc = "send", !.token = token, !.attempt = 1]

(* acquire returns and _ensure_ready looks at the cache at once.           *)
Acquired(t) ==
    /\ Take(t)
    /\ IF cached # NoToken
       THEN /\ call' = [call EXCEPT ![t] = Sending(@, cached)]
            /\ UNCHANGED sessionVars
       ELSE /\ call' = [call EXCEPT ![t].pc = "session"]
            /\ Ensure(t)
    /\ UNCHANGED <<cached, refused, calls, faults>>

Raise(c) == [c EXCEPT !.pc = "idle", !.result = "raised"]

(* _ensure_ready goes on once ensure_valid_token has returned, or raises.  *)
Ready(t) ==
    /\ Leave(t)
    /\ IF ses[t].pc = "have"
       THEN /\ cached' = ses[t].token
            /\ call' = [call EXCEPT ![t] = Sending(@, ses[t].token)]
       ELSE /\ call' = [call EXCEPT ![t] = Raise(@)]
            /\ UNCHANGED cached
    /\ UNCHANGED <<bucketVars, refused, calls, faults>>

Accepts(token) == \E s \in accepted : s.token = token

(* Faulty: one attempt too many.                                           *)
AfterNetworkErrorOnceMore(c) ==
    IF c.attempt <= Attempts THEN [c EXCEPT !.attempt = @ + 1] ELSE Raise(c)

(* The retryer, after a NetworkException, a transport error or "Too many   *)
(* requests": another attempt, with the same token and without taking      *)
(* from the bucket.  Its waits are any delay.                              *)
AfterNetworkError(c) ==
    IF c.attempt < Attempts THEN [c EXCEPT !.attempt = @ + 1] ELSE Raise(c)

(* Faulty: an answer does not end the attempts.                            *)
AnsweredAgain(c) ==
    IF c.attempt < Attempts
    THEN [c EXCEPT !.placed = @ + 1, !.attempt = @ + 1]
    ELSE [c EXCEPT !.pc = "idle", !.result = "returned", !.placed = @ + 1]

Answered(c) == [c EXCEPT !.pc = "idle", !.result = "returned", !.placed = @ + 1]

(* The order is placed and its id returned.                                *)
Answer(t) ==
    /\ call[t].pc = "send" /\ Accepts(call[t].token)
    /\ call' = [call EXCEPT ![t] = Answered(@)]
    /\ UNCHANGED <<bucketVars, sessionVars, cached, refused, calls, faults>>

Unanswered(c) == [c EXCEPT !.placed = @ + 1, !.lost = @ + 1]

(* The order is placed and the answer is lost: a read timeout, a reset.    *)
AnswerLost(t) ==
    /\ call[t].pc = "send" /\ Accepts(call[t].token)
    /\ faults < MaxFaults /\ faults' = faults + 1
    /\ call' = [call EXCEPT ![t] = AfterNetworkError(Unanswered(@))]
    /\ UNCHANGED <<bucketVars, sessionVars, cached, refused, calls>>

(* The request does not reach the broker, or its limit refuses it.         *)
Unsent(t) ==
    /\ call[t].pc = "send"
    /\ faults < MaxFaults /\ faults' = faults + 1
    /\ call' = [call EXCEPT ![t] = AfterNetworkError(@)]
    /\ UNCHANGED <<bucketVars, sessionVars, cached, refused, calls>>

(* The broker turns the order down: a BrokerError, not repeated.           *)
TurnedDown(t) ==
    /\ call[t].pc = "send" /\ Accepts(call[t].token)
    /\ faults < MaxFaults /\ faults' = faults + 1
    /\ call' = [call EXCEPT ![t] = Raise(@)]
    /\ UNCHANGED <<bucketVars, sessionVars, cached, refused, calls>>

(* TokenException: invalidate, and TokenExpiredError to the caller.        *)
Refuse(t) ==
    /\ call[t].pc = "send" /\ ~Accepts(call[t].token)
    /\ cached' = NoToken
    /\ refused' = refused \cup {call[t].token}
    /\ call' = [call EXCEPT ![t] = Raise(@)]
    /\ UNCHANGED <<bucketVars, sessionVars, calls, faults>>

(* A run of the token_refresh worker: get_active_token, and                *)
(* login_and_store if there is none.                                       *)
RefreshBegins ==
    /\ calls < MaxCalls
    /\ calls' = calls + 1
    /\ Ensure(Worker)
    /\ UNCHANGED <<bucketVars, cached, call, refused, faults>>

RefreshEnds ==
    /\ Leave(Worker)
    /\ UNCHANGED <<bucketVars, clientVars>>

(* A unit of time passes.  The event loop serves the line within a unit:   *)
(* time goes on when the holder of the lock sleeps or nobody is in line.   *)
UnitPasses ==
    /\ line # <<>> => Refilled = 0
    /\ Tick
    /\ UNCHANGED <<sessionVars, clientVars>>

(* The task has its answer, whatever it is.                                *)
Attempt(t) == Answer(t) \/ AnswerLost(t) \/ Unsent(t) \/ TurnedDown(t) \/ Refuse(t)

KiteNext ==
    \/ \E t \in Tasks : CallBegins(t) \/ Acquired(t) \/ Ready(t) \/ Attempt(t)
    \/ RefreshBegins \/ RefreshEnds
    \/ (\E c \in Callers : SessionStep(c)) /\ UNCHANGED <<bucketVars, clientVars>>
    \/ (BrokerDrops \/ HalfPasses) /\ UNCHANGED <<bucketVars, clientVars>>
    \/ UnitPasses

(* Time passes, the database and the broker answer or time out, and the    *)
(* loop resumes what is ready.  No call has to be made, and no operator    *)
(* has to type a code.                                                     *)
KiteFairness ==
    /\ WF_kiteVars(UnitPasses)
    /\ \A t \in Tasks : /\ WF_kiteVars(Acquired(t))
                        /\ WF_kiteVars(Ready(t))
                        /\ WF_kiteVars(Attempt(t))
    /\ \A c \in Callers : WF_kiteVars(/\ SessionStep(c) /\ ses[c].pc # "prompt"
                                      /\ UNCHANGED <<bucketVars, clientVars>>)

KiteSpec == KiteInit /\ [][KiteNext]_kiteVars /\ KiteFairness
-----------------------------------------------------------------------------
ClientTypeOK ==
    /\ BucketTypeOK /\ SessionTypeOK
    /\ cached \in 0 .. issued
    /\ refused \subseteq 1 .. issued
    /\ \A t \in Tasks :
          /\ call[t].pc \in {"idle", "bucket", "session", "send"}
          /\ call[t].attempt \in 0 .. Attempts
          /\ call[t].pc = "send" => call[t].token \in 1 .. issued
          /\ (call[t].pc = "bucket") <=> (\E i \in 1 .. Len(line) : line[i] = t)
          /\ (call[t].pc = "session") <=> ses[t].pc # "none"

(* An order is placed more than once only when the answers to the earlier  *)
(* attempts were lost, and a call that raises has placed one only if an    *)
(* answer was lost: no client order id tells the broker that an attempt    *)
(* repeats another.                                                        *)
DuplicatesOnlyByLostAnswers ==
    \A t \in Tasks :
        /\ call[t].placed <= Attempts
        /\ call[t].placed = call[t].lost + (IF call[t].result = "returned" THEN 1 ELSE 0)

(* Whatever is refused, lost, dropped or expires, and whoever waits for a  *)
(* code, every call returns or raises, unless it waits for a code itself:  *)
(* nothing else in the client waits without a limit.                       *)
CallsReturn ==
    \A t \in Tasks : call[t].pc # "idle" ~> (call[t].pc = "idle" \/ ses[t].pc = "prompt")

(* invalidate: "Force re-login on next call (e.g. after a TokenExpired     *)
(* error)" (kite_client.py:93): a call made after the broker has refused a *)
(* token does not send that token.                                         *)
ReloginAfterRefusal ==
    \A t \in Tasks : call[t].pc = "send" => call[t].token \notin call[t].shunned
=============================================================================
