---------------------------- MODULE TokenBucket -----------------------------
(***************************************************************************)
(* The rate limiter of the broker client (TokenBucket in                   *)
(* src/src/broker/kite_client.py): a bucket of tokens behind an            *)
(* asyncio.Lock.  Time advances in units of 1/rate seconds, so a unit adds *)
(* one token and a sleep of (1 - tokens)/rate ends with the next unit.     *)
(***************************************************************************)
EXTENDS Integers, Sequences

CONSTANTS Tasks,   \* the tasks of the process that call the broker
          Burst,   \* capacity
          MaxTime  \* bound

ASSUME BucketAssumption ==
    /\ Burst \in Nat \ {0}
    /\ MaxTime \in Nat

VARIABLES now,     \* time.monotonic(), in units of 1/rate seconds
          tokens,  \* self.tokens
          last,    \* self.last
          line,    \* the holder of the lock and those waiting for it, in order
          taken,   \* history: tokens taken so far
          takenAt  \* history: taken, as each unit of time began

bucketVars == <<now, tokens, last, line, taken, takenAt>>

Instants == 0 .. MaxTime

BucketTypeOK ==
    /\ now \in Instants
    /\ tokens \in 0 .. Burst
    /\ last \in 0 .. now
    /\ line \in Seq(Tasks)
    /\ taken \in Nat
    /\ takenAt \in [Instants -> Nat]

BucketInit ==
    /\ now = 0 /\ tokens = Burst /\ last = 0
    /\ line = <<>>
    /\ taken = 0 /\ takenAt = [i \in Instants |-> 0]

Tick ==
    /\ now < MaxTime
    /\ now' = now + 1
    /\ takenAt' = [takenAt EXCEPT ![now + 1] = taken]
    /\ UNCHANGED <<tokens, last, line, taken>>

(* acquire is called: asyncio.Lock serves its waiters in order.            *)
Enter(t) ==
    /\ line' = Append(line, t)
    /\ UNCHANGED <<now, tokens, last, taken, takenAt>>

(* Faulty: forgets the capacity.                                           *)
RefilledBeyond == tokens + (now - last)

(* Faulty: the time since the last call is not credited.                   *)
NeverRefilled == tokens

Refilled == IF tokens + (now - last) <= Burst THEN tokens + (now - last) ELSE Burst

(* The holder of the lock takes a token and releases the lock.  With an    *)
(* empty bucket it credits the time and sleeps, the lock in its hands:     *)
(* nothing happens here before the next unit.                              *)
Take(t) ==
    /\ line # <<>> /\ Head(line) = t
    /\ Refilled >= 1
    /\ tokens' = Refilled - 1
    /\ last' = now
    /\ line' = Tail(line)
    /\ taken' = taken + 1
    /\ UNCHANGED <<now, takenAt>>

BucketNext == Tick \/ \E t \in Tasks : Enter(t) \/ Take(t)

BucketSpec == BucketInit /\ [][BucketNext]_bucketVars
-----------------------------------------------------------------------------
(* Between any past instant and now no more tokens are taken than the      *)
(* burst and the time since allow: at 8 tokens a second and a burst of 10, *)
(* 18 in a second that follows an idle one.                                *)
WindowBound == \A i \in 0 .. now : taken - takenAt[i] <= Burst + (now - i)
=============================================================================
