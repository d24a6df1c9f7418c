---------------------------- MODULE BrokerProofs -----------------------------
(***************************************************************************)
(* Proofs about the broker client and its sessions.                        *)
(*                                                                         *)
(* The rate limiter: for any capacity, any tasks and any length of time,   *)
(* the tokens taken in a window are bounded by the burst and the length of *)
(* the window.  The client: for any tasks, any number of calls, attempts,  *)
(* faults and sessions, an order is placed again only after an answer was  *)
(* lost.  The sessions: logins that do not overlap leave one session per   *)
(* expiry, and the token that is handed out is one the broker accepts.     *)
(***************************************************************************)
EXTENDS KiteClient, SequenceTheorems, FiniteSetTheorems, TLAPS

Common == INSTANCE CommonProofs

(* What has been taken since an instant and what is in the bucket together *)
(* never exceed what the bucket held then and gained since; nothing has    *)
(* been taken since an instant later than the last credit.                 *)
Budget ==
    \A i \in 0 .. now :
        /\ i <= last => (taken - takenAt[i]) + tokens <= Burst + (last - i)
        /\ i > last  => taken = takenAt[i]

BucketInv == BucketTypeOK /\ Budget

(* The constants and the times are integers.                               *)
LEMMA BucketIntegers ==
  ASSUME BucketTypeOK
  PROVE  /\ now \in Int /\ last \in Int /\ tokens \in Int /\ taken \in Int
         /\ Burst \in Int /\ MaxTime \in Int
         /\ 0 <= last /\ last <= now /\ now <= MaxTime
         /\ 0 <= tokens /\ tokens <= Burst /\ 1 <= Burst /\ 0 <= taken
         /\ \A i \in 0 .. now : i \in Int /\ i \in Instants /\ takenAt[i] \in Int
  BY BucketAssumption DEF BucketTypeOK, Instants

(* The bucket starts full, and nothing has been taken.                     *)
LEMMA BucketStarts == BucketInit => BucketInv
  BY BucketAssumption DEF BucketInit, BucketInv, BucketTypeOK, Budget, Instants

(* A unit of time opens a window in which nothing has been taken yet.      *)
LEMMA TickKeeps ==
  ASSUME BucketInv, Tick
  PROVE  BucketInv'
  <1>1. /\ now' = now + 1 /\ now < MaxTime
        /\ takenAt' = [takenAt EXCEPT ![now + 1] = taken]
        /\ tokens' = tokens /\ last' = last /\ line' = line /\ taken' = taken
    BY DEF Tick
  <1>2. BucketTypeOK'
    BY <1>1, BucketAssumption DEF BucketInv, BucketTypeOK, Instants
  <1>3. Budget'
    <2> SUFFICES ASSUME NEW i \in 0 .. now + 1
                 PROVE  /\ i <= last => (taken - takenAt'[i]) + tokens <= Burst + (last - i)
                        /\ i > last  => taken = takenAt'[i]
      BY <1>1 DEF Budget
    <2>1. now + 1 \in Instants /\ now \in Int /\ last \in Int /\ last <= now
      BY <1>1, BucketIntegers DEF BucketInv, Instants
    <2>2. takenAt \in [Instants -> Nat]
      BY DEF BucketInv, BucketTypeOK
    <2>3. CASE i = now + 1
      BY <1>1, <2>1, <2>2, <2>3
    <2>4. CASE i \in 0 .. now
      <3>1. takenAt'[i] = takenAt[i]
        BY <1>1, <2>1, <2>2, <2>4
      <3>2. QED
        BY <3>1, <2>4 DEF BucketInv, Budget
    <2>5. QED
      BY <2>1, <2>3, <2>4
  <1>4. QED
    BY <1>2, <1>3 DEF BucketInv

(* Waiting in line for the lock takes nothing.                             *)
LEMMA EnterKeeps ==
  ASSUME BucketInv, NEW t \in Tasks, Enter(t)
  PROVE  BucketInv'
  <1>1. /\ line' = Append(line, t) /\ now' = now /\ tokens' = tokens
        /\ last' = last /\ taken' = taken /\ takenAt' = takenAt
    BY DEF Enter
  <1>2. line' \in Seq(Tasks)
    BY <1>1 DEF BucketInv, BucketTypeOK
  <1>3. QED
    BY <1>1, <1>2 DEF BucketInv, BucketTypeOK, Budget

(* A token taken is paid for by the credit of the time since the last one, *)
(* or the bucket was full.                                                 *)
LEMMA TakeKeeps ==
  ASSUME BucketInv, NEW t \in Tasks, Take(t)
  PROVE  BucketInv'
  <1>1. /\ tokens' = Refilled - 1 /\ Refilled >= 1
        /\ last' = now /\ line' = Tail(line) /\ taken' = taken + 1
        /\ now' = now /\ takenAt' = takenAt /\ line # <<>>
    BY DEF Take
  <1>2. /\ now \in Int /\ last \in Int /\ tokens \in Int /\ taken \in Int /\ Burst \in Int
        /\ 0 <= last /\ last <= now /\ 0 <= tokens /\ tokens <= Burst /\ 0 <= taken
        /\ \A i \in 0 .. now : i \in Int /\ takenAt[i] \in Int
    BY BucketIntegers DEF BucketInv
  <1>3. /\ Refilled \in Int /\ Refilled <= Burst
        /\ Refilled <= tokens + (now - last)
    BY <1>2 DEF Refilled
  <1>4. BucketTypeOK'
    <2>1. line' \in Seq(Tasks)
      BY <1>1 DEF BucketInv, BucketTypeOK
    <2>2. tokens' \in 0 .. Burst /\ last' \in 0 .. now /\ taken' \in Nat
      BY <1>1, <1>2, <1>3
    <2>3. QED
      BY <2>1, <2>2, <1>1 DEF BucketInv, BucketTypeOK
  <1>5. Budget'
    <2> SUFFICES ASSUME NEW i \in 0 .. now
                 PROVE  ((taken + 1) - takenAt[i]) + (Refilled - 1) <= Burst + (now - i)
      BY <1>1, <1>2 DEF Budget
    <2>1. i \in Int /\ takenAt[i] \in Int /\ i <= now
      BY <1>2
    <2>2. CASE i <= last
      <3>1. (taken - takenAt[i]) + tokens <= Burst + (last - i)
        BY <2>2 DEF BucketInv, Budget
      <3>2. QED
        BY <3>1, <1>2, <1>3, <2>1
    <2>3. CASE i > last
      <3>1. taken = takenAt[i]
        BY <2>3 DEF BucketInv, Budget
      <3>2. QED
        BY <3>1, <1>2, <1>3, <2>1
    <2>4. QED
      BY <2>1, <2>2, <2>3, <1>2
  <1>6. QED
    BY <1>4, <1>5 DEF BucketInv

(* Every step of the limiter keeps its invariant.                          *)
LEMMA BucketStepKeeps == BucketInv /\ [BucketNext]_bucketVars => BucketInv'
  <1> SUFFICES ASSUME BucketInv, [BucketNext]_bucketVars PROVE BucketInv'
    OBVIOUS
  <1>1. CASE Tick
    BY <1>1, TickKeeps
  <1>2. ASSUME NEW t \in Tasks, Enter(t) PROVE BucketInv'
    BY <1>2, EnterKeeps
  <1>3. ASSUME NEW t \in Tasks, Take(t) PROVE BucketInv'
    BY <1>3, TakeKeeps
  <1>4. CASE UNCHANGED bucketVars
    BY <1>4 DEF bucketVars, BucketInv, BucketTypeOK, Budget
  <1>5. QED
    BY <1>1, <1>2, <1>3, <1>4 DEF BucketNext

(* What the budget says of the tokens taken.                               *)
LEMMA BudgetBounds == BucketInv => WindowBound
  <1> SUFFICES ASSUME BucketInv, NEW i \in 0 .. now
               PROVE  taken - takenAt[i] <= Burst + (now - i)
    BY DEF WindowBound
  <1>1. /\ now \in Int /\ last \in Int /\ tokens \in Int /\ taken \in Int /\ Burst \in Int
        /\ last <= now /\ 0 <= tokens /\ 1 <= Burst /\ i \in Int /\ takenAt[i] \in Int /\ i <= now
    BY BucketIntegers DEF BucketInv
  <1>2. CASE i <= last
    BY <1>1, <1>2 DEF BucketInv, Budget
  <1>3. CASE i > last
    BY <1>1, <1>3 DEF BucketInv, Budget
  <1>4. QED
    BY <1>1, <1>2, <1>3
-----------------------------------------------------------------------------
(* The tokens taken between any past instant and now are bounded by the    *)
(* burst and the time in between, whatever the tasks do.                   *)
THEOREM BucketBoundsWindows == BucketSpec => []WindowBound
  <1>1. BucketInit => BucketInv
    BY BucketStarts
  <1>2. BucketInv /\ [BucketNext]_bucketVars => BucketInv'
    BY BucketStepKeeps
  <1>3. BucketInv => WindowBound
    BY BudgetBounds
  <1>4. QED
    BY <1>1, <1>2, <1>3, PTL DEF BucketSpec

-----------------------------------------------------------------------------
(* The client.                                                             *)

CallFields == {"pc", "token", "attempt", "result", "placed", "lost", "shunned"}

(* What a call has placed, stage by stage: while it sends, fewer orders    *)
(* than the attempt it is at, all of them with their answers lost.         *)
Accounted(c) ==
    /\ DOMAIN c = CallFields
    /\ c.pc \in {"idle", "bucket", "session", "send"}
    /\ c.placed \in Nat /\ c.lost \in Nat /\ c.attempt \in Nat
    /\ c.placed <= Attempts
    /\ c.placed = c.lost + (IF c.result = "returned" THEN 1 ELSE 0)
    /\ c.pc \in {"bucket", "session"} => c.placed = 0 /\ c.lost = 0 /\ c.result = "none"
    /\ c.pc = "send" => /\ c.result = "none"
                        /\ c.attempt \in 1 .. Attempts
                        /\ c.placed < c.attempt

CallsInv == DOMAIN call = Tasks /\ \A t \in Tasks : Accounted(call[t])

(* Who stands in line, or is in ensure_valid_token, is at that point of    *)
(* its call, and stands in line once.                                      *)
PlacesInv ==
    /\ line \in Seq(Tasks)
    /\ \A i \in 1 .. Len(line) : call[line[i]].pc = "bucket"
    /\ \A i, j \in 1 .. Len(line) : line[i] = line[j] => i = j
    /\ DOMAIN ses = Callers
    /\ \A t \in Tasks : ses[t].pc # "none" => call[t].pc = "session"

KiteInv == CallsInv /\ PlacesInv
-----------------------------------------------------------------------------

(* A task without a call owes nothing.                                     *)
LEMMA NoCallIsAccounted ==
  /\ Accounted(NoCall)
  /\ \A sh : Accounted([NoCall EXCEPT !.pc = "bucket", !.shunned = sh])
  <1>1. Attempts \in Nat
    BY ClientAssumption
  <1>2. Accounted(NoCall)
    BY <1>1 DEF NoCall, Accounted, CallFields
  <1>3. ASSUME NEW sh PROVE Accounted([NoCall EXCEPT !.pc = "bucket", !.shunned = sh])
    BY <1>1 DEF NoCall, Accounted, CallFields
  <1>4. QED
    BY <1>2, <1>3

(* A call that has its token begins its first attempt with nothing placed. *)
LEMMA SendingIsAccounted ==
  ASSUME NEW c, NEW token, Accounted(c), c.pc \in {"bucket", "session"}
  PROVE  Accounted(Sending(c, token)) /\ Accounted([c EXCEPT !.pc = "session"])
  BY ClientAssumption DEF Accounted, CallFields, Sending

(* An error raised changes nothing of what has been placed.                *)
LEMMA RaiseIsAccounted ==
  ASSUME NEW c, Accounted(c), c.result = "none"
  PROVE  Accounted(Raise(c))
  BY DEF Accounted, CallFields, Raise

(* One order placed, one attempt used, whether or not its answer comes.    *)
LEMMA AttemptIsAccounted ==
  ASSUME NEW c, Accounted(c), c.pc = "send"
  PROVE  /\ Accounted(Answered(c))
         /\ Accounted(AfterNetworkError(c))
         /\ Accounted(AfterNetworkError(Unanswered(c)))
  <1> DEFINE d == Unanswered(c)
  <1>1. Attempts \in Nat
    BY ClientAssumption
  <1>2. Accounted(Answered(c))
    BY <1>1 DEF Accounted, CallFields, Answered
  <1>3. Accounted(AfterNetworkError(c))
    BY <1>1 DEF Accounted, CallFields, AfterNetworkError, Raise
  <1>4. /\ DOMAIN d = CallFields /\ d.pc = "send" /\ d.result = "none"
        /\ d.attempt = c.attempt /\ d.placed = c.placed + 1 /\ d.lost = c.lost + 1
    BY DEF Accounted, CallFields, Unanswered
  <1> HIDE DEF d
  <1>5. /\ c.attempt \in 1 .. Attempts /\ c.placed \in Nat /\ c.lost \in Nat
        /\ c.placed = c.lost /\ c.placed < c.attempt
    BY DEF Accounted
  <1>6. Accounted(AfterNetworkError(d))
    <2>1. CASE c.attempt < Attempts
      BY <1>1, <1>4, <1>5, <2>1 DEF Accounted, CallFields, AfterNetworkError
    <2>2. CASE c.attempt >= Attempts
      BY <1>1, <1>4, <1>5, <2>2 DEF Accounted, CallFields, AfterNetworkError, Raise
    <2>3. QED
      BY <1>1, <1>5, <2>1, <2>2
  <1>7. QED
    BY <1>2, <1>3, <1>6 DEF d

(* A step that gives one task an accounted record keeps the invariant.     *)
LEMMA OneCallChanges ==
  ASSUME CallsInv, NEW t \in Tasks, NEW c, Accounted(c), call' = [call EXCEPT ![t] = c]
  PROVE  CallsInv'
  BY DEF CallsInv, Accounted

(* At the start no task has a call.                                        *)
LEMMA CallsStart == KiteInit => KiteInv
  <1> SUFFICES ASSUME KiteInit PROVE KiteInv
    OBVIOUS
  <1>1. CallsInv
    <2>1. call = [t \in Tasks |-> NoCall]
      BY DEF KiteInit
    <2>2. QED
      BY <2>1, NoCallIsAccounted DEF CallsInv
  <1>2. PlacesInv
    <2>1. line = <<>> /\ ses = [c \in Callers |-> Idle] /\ Idle.pc = "none"
      BY DEF KiteInit, BucketInit, SessionInit, Idle
    <2>2. QED
      BY <2>1, ClientAssumption DEF PlacesInv
  <1>3. QED
    BY <1>1, <1>2 DEF KiteInv

(* The steps of ensure_valid_token are those of a caller that is in it.    *)
LEMMA SessionStepStays ==
  ASSUME KiteInv, NEW c \in Callers, SessionStep(c), UNCHANGED <<bucketVars, clientVars>>
  PROVE  KiteInv'
  <1>1. /\ line' = line /\ call' = call
    BY DEF bucketVars, clientVars
  <1>2. ses[c].pc # "none" /\ \E s : ses' = [ses EXCEPT ![c] = s]
    <2>1. CASE Lookup(c) \/ CodeTyped(c)
      BY <2>1 DEF Lookup, CodeTyped
    <2>2. CASE KiteLoginRequest(c) \/ KiteTwofa(c) \/ PostFails(c)
      BY <2>2 DEF KiteLoginRequest, KiteTwofa, PostFails
    <2>3. CASE Exchange(c) \/ StoreToken(c) \/ StoreBegin(c)
      BY <2>3 DEF Exchange, StoreToken, StoreBegin
    <2>4. CASE StoreCommit(c) \/ LoginFails(c)
      BY <2>4 DEF StoreCommit, LoginFails
    <2>5. QED
      BY <2>1, <2>2, <2>3, <2>4 DEF SessionStep
  <1>3. QED
    BY <1>1, <1>2 DEF KiteInv, CallsInv, PlacesInv, Accounted

(* The steps of a task.                                                    *)
LEMMA BeginKeeps ==
  ASSUME KiteInv, NEW t \in Tasks, CallBegins(t)
  PROVE  KiteInv'
  <1> DEFINE c == [NoCall EXCEPT !.pc = "bucket", !.shunned = refused]
  <1>1. /\ call[t].pc = "idle" /\ call' = [call EXCEPT ![t] = c]
        /\ line' = Append(line, t) /\ ses' = ses
        /\ Accounted(c) /\ c.pc = "bucket"
    BY NoCallIsAccounted DEF CallBegins, Enter, sessionVars, NoCall
  <1> HIDE DEF c
  <1>2. CallsInv'
    BY <1>1, OneCallChanges DEF KiteInv
  <1>3. \A i \in 1 .. Len(line) : line[i] \in Tasks /\ line[i] # t
    BY <1>1 DEF KiteInv, PlacesInv
  <1>4. /\ line' \in Seq(Tasks) /\ Len(line') = Len(line) + 1 /\ Len(line) \in Nat
        /\ line'[Len(line) + 1] = t
        /\ \A i \in 1 .. Len(line) : line'[i] = line[i]
    BY <1>1 DEF KiteInv, PlacesInv
  <1>5. PlacesInv'
    <2>1. DOMAIN call = Tasks
      BY DEF KiteInv, CallsInv
    <2>2. \A i \in 1 .. Len(line') : call'[line'[i]].pc = "bucket"
      BY <1>1, <1>3, <1>4, <2>1 DEF KiteInv, PlacesInv
    <2>3. \A i, j \in 1 .. Len(line') : line'[i] = line'[j] => i = j
      BY <1>3, <1>4 DEF KiteInv, PlacesInv
    <2>4. \A u \in Tasks : ses'[u].pc # "none" => call'[u].pc = "session"
      BY <1>1, <2>1 DEF KiteInv, PlacesInv
    <2>5. QED
      BY <1>1, <1>4, <2>2, <2>3, <2>4 DEF KiteInv, PlacesInv
  <1>6. QED
    BY <1>2, <1>5 DEF KiteInv

(* A task that has its token goes on to the session, or sends.             *)
LEMMA AcquiredKeeps ==
  ASSUME KiteInv, NEW t \in Tasks, Acquired(t)
  PROVE  KiteInv'
  <1>1. /\ line # <<>> /\ Head(line) = t /\ line' = Tail(line)
        /\ DOMAIN call = Tasks /\ Accounted(call[t]) /\ line \in Seq(Tasks)
        /\ t \in Callers
    BY ClientAssumption DEF Acquired, Take, KiteInv, CallsInv, PlacesInv
  <1>2. /\ t = line[1] /\ Len(line) \in Nat /\ Len(line) >= 1
        /\ line' \in Seq(Tasks) /\ Len(line') = Len(line) - 1
        /\ \A i \in 1 .. Len(line') : i + 1 \in 1 .. Len(line) /\ line'[i] = line[i + 1]
    BY <1>1
  <1>3. call[t].pc = "bucket"
    BY <1>2 DEF KiteInv, PlacesInv
  <1>4. PICK c : /\ Accounted(c) /\ call' = [call EXCEPT ![t] = c]
                 /\ \/ ses' = ses
                    \/ c.pc = "session" /\ \E s : ses' = [ses EXCEPT ![t] = s]
    <2>1. CASE cached # NoToken
      <3>1. call' = [call EXCEPT ![t] = Sending(call[t], cached)] /\ ses' = ses
        BY <1>1, <2>1 DEF Acquired, sessionVars
      <3>2. Accounted(Sending(call[t], cached))
        BY <1>1, <1>3, SendingIsAccounted
      <3>3. QED
        BY <3>1, <3>2
    <2>2. CASE cached = NoToken
      <3> DEFINE c == [call[t] EXCEPT !.pc = "session"]
      <3>1. /\ call' = [call EXCEPT ![t] = c]
            /\ \E s : ses' = [ses EXCEPT ![t] = s]
        BY <1>1, <2>2 DEF Acquired, Ensure
      <3>2. Accounted(c)
        BY <1>1, <1>3, SendingIsAccounted
      <3>3. c.pc = "session"
        BY <1>1 DEF Accounted, CallFields
      <3>4. QED
        BY <3>1, <3>2, <3>3
    <2>3. QED
      BY <2>1, <2>2
  <1>5. CallsInv'
    BY <1>4, OneCallChanges DEF KiteInv
  <1>6. PlacesInv'
    <2>1. \A i \in 1 .. Len(line') : line'[i] \in Tasks /\ line'[i] # t
      BY <1>2 DEF KiteInv, PlacesInv
    <2>2. \A i \in 1 .. Len(line') : call'[line'[i]].pc = "bucket"
      BY <1>1, <1>2, <1>4, <2>1 DEF KiteInv, PlacesInv
    <2>3. ASSUME NEW i \in 1 .. Len(line'), NEW j \in 1 .. Len(line'), line'[i] = line'[j]
          PROVE  i = j
      <3>1. /\ i + 1 \in 1 .. Len(line) /\ j + 1 \in 1 .. Len(line)
            /\ line[i + 1] = line[j + 1] /\ i \in Int /\ j \in Int
        BY <1>2, <2>3
      <3>2. i + 1 = j + 1
        BY <3>1 DEF KiteInv, PlacesInv
      <3>3. QED
        BY <3>1, <3>2
    <2>4. ses[t].pc = "none"
      BY <1>3 DEF KiteInv, PlacesInv
    <2>5. /\ DOMAIN ses' = Callers
          /\ \A u \in Tasks : ses'[u].pc # "none" => call'[u].pc = "session"
      <3>1. DOMAIN ses = Callers /\ DOMAIN ses' = Callers
        BY <1>4 DEF KiteInv, PlacesInv
      <3>2. ASSUME NEW u \in Tasks, u # t, ses'[u].pc # "none"
            PROVE  call'[u].pc = "session"
        <4>1. u \in Callers
          BY ClientAssumption
        <4>2. ses'[u] = ses[u] /\ call'[u] = call[u]
          BY <1>1, <1>4, <3>1, <3>2, <4>1
        <4>3. QED
          BY <3>2, <4>2 DEF KiteInv, PlacesInv
      <3>3. ses'[t].pc # "none" => call'[t].pc = "session"
        BY <1>1, <1>4, <2>4
      <3>4. QED
        BY <3>1, <3>2, <3>3
    <2>6. QED
      BY <1>2, <2>2, <2>3, <2>5 DEF PlacesInv
  <1>7. QED
    BY <1>5, <1>6 DEF KiteInv

(* A task that neither enters nor leaves the line.                         *)
LEMMA OutOfLineKeeps ==
  ASSUME KiteInv, NEW t \in Tasks, NEW c, Accounted(c), call' = [call EXCEPT ![t] = c],
         line' = line, call[t].pc \notin {"bucket"},
         \/ ses' = ses /\ call[t].pc # "session"
         \/ \E s : s.pc = "none" /\ ses' = [ses EXCEPT ![t] = s]
  PROVE  KiteInv'
  <1>1. CallsInv'
    BY OneCallChanges DEF KiteInv
  <1>2. /\ DOMAIN call = Tasks /\ t \in Callers /\ DOMAIN ses = Callers
        /\ \A i \in 1 .. Len(line) : line[i] \in Tasks /\ line[i] # t
    BY ClientAssumption DEF KiteInv, CallsInv, PlacesInv
  <1>3. ASSUME NEW u \in Tasks, ses'[u].pc # "none" PROVE call'[u].pc = "session"
    <2>1. u # t
      BY <1>2, <1>3 DEF KiteInv, PlacesInv
    <2>2. u \in Callers
      BY ClientAssumption
    <2>3. ses'[u] = ses[u] /\ call'[u] = call[u]
      BY <1>2, <2>1, <2>2
    <2>4. QED
      BY <1>3, <2>3 DEF KiteInv, PlacesInv
  <1>4. PlacesInv'
    BY <1>2, <1>3 DEF KiteInv, PlacesInv
  <1>5. QED
    BY <1>1, <1>4 DEF KiteInv

(* A task that has its session sends; one whose login failed raises.       *)
LEMMA ReadyKeeps ==
  ASSUME KiteInv, NEW t \in Tasks, Ready(t)
  PROVE  KiteInv'
  <1>1. /\ ses[t].pc \in {"have", "failed"} /\ ses' = [ses EXCEPT ![t] = Idle]
        /\ line' = line /\ DOMAIN call = Tasks /\ Accounted(call[t])
    BY DEF Ready, Leave, bucketVars, KiteInv, CallsInv
  <1>2. call[t].pc = "session" /\ call[t].result = "none"
    BY <1>1 DEF KiteInv, PlacesInv, Accounted
  <1>3. \/ call' = [call EXCEPT ![t] = Sending(call[t], ses[t].token)]
        \/ call' = [call EXCEPT ![t] = Raise(call[t])]
    BY <1>1 DEF Ready
  <1>4. Accounted(Sending(call[t], ses[t].token)) /\ Accounted(Raise(call[t]))
    BY <1>1, <1>2, SendingIsAccounted, RaiseIsAccounted
  <1>5. Idle.pc = "none"
    BY DEF Idle
  <1>6. QED
    BY <1>1, <1>2, <1>3, <1>4, <1>5, OutOfLineKeeps

(* Each outcome of an attempt settles the account of its call.             *)
LEMMA AttemptKeeps ==
  ASSUME KiteInv, NEW t \in Tasks, Attempt(t)
  PROVE  KiteInv'
  <1>1. DOMAIN call = Tasks /\ Accounted(call[t])
    BY DEF KiteInv, CallsInv
  <1>2. call[t].pc = "send" /\ call[t].result = "none" /\ line' = line /\ ses' = ses
    BY <1>1 DEF Attempt, Answer, AnswerLost, Unsent, TurnedDown, Refuse, Accounted,
                bucketVars, sessionVars
  <1>3. \/ call' = [call EXCEPT ![t] = Answered(call[t])]
        \/ call' = [call EXCEPT ![t] = AfterNetworkError(Unanswered(call[t]))]
        \/ call' = [call EXCEPT ![t] = AfterNetworkError(call[t])]
        \/ call' = [call EXCEPT ![t] = Raise(call[t])]
    <2>1. CASE Answer(t)
      BY <1>1, <2>1 DEF Answer
    <2>2. CASE AnswerLost(t)
      BY <1>1, <2>2 DEF AnswerLost
    <2>3. CASE Unsent(t)
      BY <1>1, <2>3 DEF Unsent
    <2>4. CASE TurnedDown(t) \/ Refuse(t)
      BY <1>1, <2>4 DEF TurnedDown, Refuse
    <2>5. QED
      BY <2>1, <2>2, <2>3, <2>4 DEF Attempt
  <1>4. PICK c : Accounted(c) /\ call' = [call EXCEPT ![t] = c]
    BY <1>1, <1>2, <1>3, AttemptIsAccounted, RaiseIsAccounted
  <1>5. QED
    BY <1>2, <1>4, OutOfLineKeeps

(* What leaves the calls, the line and the sessions alone.                 *)
LEMMA ElsewhereKeeps ==
  ASSUME KiteInv, call' = call, line' = line,
         \/ ses' = ses
         \/ \E s : ses' = [ses EXCEPT ![Worker] = s]
  PROVE  KiteInv'
  <1>1. CallsInv'
    BY DEF KiteInv, CallsInv, Accounted
  <1>2. PlacesInv'
    BY ClientAssumption DEF KiteInv, PlacesInv
  <1>3. QED
    BY <1>1, <1>2 DEF KiteInv

(* Every step of the client keeps the accounts of all calls.               *)
LEMMA KiteStepKeeps == KiteInv /\ [KiteNext]_kiteVars => KiteInv'
  <1> SUFFICES ASSUME KiteInv, [KiteNext]_kiteVars PROVE KiteInv'
    OBVIOUS
  <1>1. ASSUME NEW t \in Tasks, CallBegins(t) \/ Acquired(t) \/ Ready(t) \/ Attempt(t)
        PROVE  KiteInv'
    BY <1>1, BeginKeeps, AcquiredKeeps, ReadyKeeps, AttemptKeeps
  <1>2. CASE RefreshBegins \/ RefreshEnds
    <2>1. /\ call' = call /\ line' = line
          /\ \E s : ses' = [ses EXCEPT ![Worker] = s]
      BY <1>2 DEF RefreshBegins, RefreshEnds, Ensure, Leave, bucketVars, clientVars
    <2>2. QED
      BY <2>1, ElsewhereKeeps
  <1>3. ASSUME NEW c \in Callers, SessionStep(c), UNCHANGED <<bucketVars, clientVars>>
        PROVE  KiteInv'
    BY <1>3, SessionStepStays
  <1>4. CASE (BrokerDrops \/ HalfPasses) /\ UNCHANGED <<bucketVars, clientVars>>
    <2>1. call' = call /\ line' = line /\ ses' = ses
      BY <1>4 DEF BrokerDrops, HalfPasses, bucketVars, clientVars
    <2>2. QED
      BY <2>1, ElsewhereKeeps
  <1>5. CASE UnitPasses
    <2>1. call' = call /\ line' = line /\ ses' = ses
      BY <1>5 DEF UnitPasses, Tick, sessionVars, clientVars
    <2>2. QED
      BY <2>1, ElsewhereKeeps
  <1>6. CASE UNCHANGED kiteVars
    <2>1. call' = call /\ line' = line /\ ses' = ses
      BY <1>6 DEF kiteVars, bucketVars, sessionVars, clientVars
    <2>2. QED
      BY <2>1, ElsewhereKeeps
  <1>7. QED
    BY <1>1, <1>2, <1>3, <1>4, <1>5, <1>6 DEF KiteNext

(* To the bucket, the client is some tasks that take tokens.               *)
LEMMA ClientUsesBucket == [KiteNext]_kiteVars => [BucketNext]_bucketVars
  <1> SUFFICES ASSUME [KiteNext]_kiteVars PROVE BucketNext \/ UNCHANGED bucketVars
    OBVIOUS
  <1>1. ASSUME NEW t \in Tasks, CallBegins(t) \/ Acquired(t) PROVE BucketNext
    BY <1>1 DEF CallBegins, Acquired, BucketNext
  <1>2. ASSUME NEW t \in Tasks, Ready(t) \/ Attempt(t) PROVE UNCHANGED bucketVars
    BY <1>2 DEF Ready, Attempt, Answer, AnswerLost, Unsent, TurnedDown, Refuse
  <1>3. RefreshBegins \/ RefreshEnds => UNCHANGED bucketVars
    BY DEF RefreshBegins, RefreshEnds
  <1>4. UnitPasses => BucketNext
    BY DEF UnitPasses, BucketNext
  <1>5. UNCHANGED kiteVars => UNCHANGED bucketVars
    BY DEF kiteVars
  <1>6. QED
    BY <1>1, <1>2, <1>3, <1>4, <1>5 DEF KiteNext
-----------------------------------------------------------------------------
(* An order is placed again only after an answer was lost, at most         *)
(* Attempts times in all, and a call that returns has placed it.           *)
THEOREM ClientDuplicates == KiteSpec => []DuplicatesOnlyByLostAnswers
  <1>1. KiteInit => KiteInv
    BY CallsStart
  <1>2. KiteInv /\ [KiteNext]_kiteVars => KiteInv'
    BY KiteStepKeeps
  <1>3. KiteInv => DuplicatesOnlyByLostAnswers
    BY DEF KiteInv, CallsInv, Accounted, DuplicatesOnlyByLostAnswers
  <1>4. QED
    BY <1>1, <1>2, <1>3, PTL DEF KiteSpec

(* The client keeps to the bound of its bucket.                            *)
THEOREM ClientBoundsWindows == KiteSpec => []WindowBound
  <1>1. KiteInit => BucketInit
    BY DEF KiteInit
  <1>2. [KiteNext]_kiteVars => [BucketNext]_bucketVars
    BY ClientUsesBucket
  <1>3. QED
    BY <1>1, <1>2, BucketBoundsWindows, PTL DEF KiteSpec, BucketSpec

-----------------------------------------------------------------------------
(* The sessions.                                                           *)

(* What a caller and a row always are.                                     *)
CallerState == [pc : {"none", "lookup", "have", "failed"} \cup LoggingIn,
                tries : 0 .. LoginAttempts - 1, token : Nat, day : Nat, expires : Nat,
                old : SUBSET Tokens, at : Nat]

Row == [token : Tokens, at : Nat, expires : Nat, active : BOOLEAN]

(* What the variables of the session hold.                                 *)
SesTypes ==
    /\ half \in 1 .. MaxHalf /\ issued \in 0 .. MaxLogins /\ begun \in Nat
    /\ ses \in [Callers -> CallerState]
    /\ rows \subseteq Row
    /\ overlap \in BOOLEAN /\ drops \in Nat

(* A token was issued before it is stored, and stored once: those that are *)
(* about to be have not begun to.                                          *)
Storing == {c \in Callers : ses[c].pc \in {"answered", "store"}}

(* Tokens are issued in order, and nothing refers to one not issued yet.   *)
SesRanges ==
    /\ \A r \in rows : r.token \in 1 .. issued /\ r.at \in 1 .. begun
    /\ \A s \in accepted : s.token \in 1 .. issued
    /\ \A c \in Callers : ses[c].pc \in {"answered", "store", "commit", "have"} =>
                              ses[c].token \in 1 .. issued
    /\ late \subseteq 1 .. issued
    /\ \A c \in Callers : ses[c].pc = "commit" => ses[c].at \in 1 .. begun
    /\ IsFiniteSet(Storing) /\ begun + Cardinality(Storing) <= issued

(* While no two logins have overlapped, whoever logs in is alone, found no *)
(* session of today, and will retire the one active row there is.          *)
AloneIn(c) ==
    /\ ses[c].pc \in LoggingIn =>
          /\ \A d \in Callers : ses[d].pc \in LoggingIn => c = d
          /\ \A r \in rows : r.expires <= half
    /\ ses[c].pc \in {"store", "commit"} => \A r \in rows : r.expires < ses[c].expires
    /\ ses[c].pc = "commit" => ses[c].old = {r.token : r \in Active}

(* Each expiry has one row, and the newest row alone is active.            *)
NewestActiveOnly ==
    /\ \A r, o \in rows : r.expires = o.expires => r = o
    /\ \A r, o \in Active : r = o
    /\ rows # {} => Active # {}
    /\ \A r \in Active, o \in rows : o.expires <= r.expires

(* Unless two callers have logged in beside one another.                   *)
OneLogin == ~overlap => NewestActiveOnly /\ \A c \in Callers : AloneIn(c)

(* The broker keeps the session of the active row, and that of a row about *)
(* to be stored, until it expires: that is, as long as the row says unless *)
(* midnight came between.                                                  *)
Kept(token, expires) ==
    expires <= half \/ \E s \in accepted : s.token = token /\ s.expires = expires

(* Unless two logins overlapped or the broker has ended a session.         *)
SessionsLive ==
    ~overlap /\ drops = 0 =>
        /\ \A r \in Active : r.token \notin late => Kept(r.token, r.expires)
        /\ \A c \in Callers :
              /\ ses[c].pc = "answered" => Kept(ses[c].token, SessionEnd(ses[c].day))
              /\ ses[c].pc \in {"store", "commit"} /\ ses[c].token \notin late =>
                    Kept(ses[c].token, ses[c].expires)

(* The invariant of the session.                                           *)
SesInv == SesTypes /\ SesRanges /\ OneLogin /\ SessionsLive

(* The steps of the callers and the broker, without the client's.          *)
SessionNext ==
    \/ \E c \in Callers : Ensure(c) \/ Leave(c) \/ SessionStep(c)
    \/ BrokerDrops \/ HalfPasses

(* There is a newest active row, and get_active_token looks at it.         *)
LEMMA NewestRow ==
    ASSUME SesTypes, SesRanges, Active # {}
    PROVE  \E n \in Active : /\ \A o \in Active : o.at <= n.at
                             /\ ActiveToken = IF n.expires <= half THEN NoToken ELSE n.token
<1>1. begun \in Nat /\ \A r \in Active : r.at \in 1 .. begun
  BY DEF SesTypes, SesRanges, Active
<1>. DEFINE Ages == {begun - r.at : r \in Active}
<1>2. PICK age \in Ages : \A a \in Ages : age <= a
  <2>1. Ages \subseteq Nat /\ Ages # {}
    BY <1>1
  <2>. HIDE DEF Ages
  <2>. QED
    BY <2>1, Common!LeastNat
<1>3. PICK r \in Active : age = begun - r.at
  BY <1>2
<1>4. ASSUME NEW o \in Active PROVE o.at <= r.at
  <2>1. begun - o.at \in Ages
    OBVIOUS
  <2>2. begun - r.at <= begun - o.at
    BY <1>2, <1>3, <2>1
  <2>3. r.at \in Int /\ o.at \in Int /\ begun \in Int
    BY <1>1, <1>3
  <2>. QED
    BY <2>2, <2>3
<1>. DEFINE newest == CHOOSE m \in Active : \A o \in Active : o.at <= m.at
<1>5. newest \in Active /\ \A o \in Active : o.at <= newest.at
  BY <1>3, <1>4
<1>6. ActiveToken = IF newest.expires <= half THEN NoToken ELSE newest.token
  BY DEF ActiveToken
<1>. QED
  BY <1>5, <1>6

(* It hands out an issued token or none.                                   *)
LEMMA ActiveTokenIssued ==
    ASSUME SesTypes, SesRanges
    PROVE  ActiveToken = NoToken \/ ActiveToken \in 1 .. issued
<1>1. CASE Active = {}
  BY <1>1 DEF ActiveToken
<1>2. CASE Active # {}
  BY <1>2, NewestRow DEF SesRanges, Active
<1>. QED
  BY <1>1, <1>2

(* Steps that log nobody in and store nothing: one caller moves, and gets  *)
(* an issued token if any.                                                 *)
LEMMA HarmlessMove ==
    ASSUME SesInv, NEW c \in Callers, NEW s \in CallerState,
           ses' = [ses EXCEPT ![c] = s],
           UNCHANGED <<half, rows, begun, issued, accepted, overlap, late, drops>>,
           s.pc \in LoggingIn => ses[c].pc \in LoggingIn,
           s.pc \notin {"answered", "store", "commit"},
           s.pc = "have" => s.token \in 1 .. issued
    PROVE  SesInv'
<1>1. ses \in [Callers -> CallerState] /\ ses'[c] = s
      /\ \A d \in Callers : d # c => ses'[d] = ses[d]
  BY DEF SesInv, SesTypes
<1>2. SesTypes'
  BY DEF SesInv, SesTypes
<1>3. SesRanges'
  <2>1. Storing' = Storing \ {c}
    BY <1>1 DEF Storing
  <2>2. /\ IsFiniteSet(Storing') /\ Cardinality(Storing') <= Cardinality(Storing)
        /\ Cardinality(Storing) \in Nat /\ Cardinality(Storing') \in Nat
    <3>1. IsFiniteSet(Storing) /\ Storing' \subseteq Storing
      BY <2>1 DEF SesInv, SesRanges
    <3>. QED
      BY <3>1, FS_Subset, FS_CardinalityType
  <2>3. begun \in Nat /\ issued \in Nat
    BY DEF SesInv, SesTypes
  <2>4. begun' + Cardinality(Storing') <= issued'
    BY <2>2, <2>3 DEF SesInv, SesRanges
  <2>. QED
    BY <1>1, <2>2, <2>4 DEF SesInv, SesRanges
<1>4. OneLogin'
  BY <1>1 DEF SesInv, OneLogin, NewestActiveOnly, AloneIn, Active
<1>5. SessionsLive'
  BY <1>1 DEF SesInv, SessionsLive, Kept, Active
<1>. QED
  BY <1>2, <1>3, <1>4, <1>5 DEF SesInv

(* A caller comes, goes, or waits for an answer to a post.                 *)
LEMMA QuietCallerKeeps ==
    ASSUME SesInv, NEW c \in Callers,
           \/ Ensure(c) \/ Leave(c) \/ CodeTyped(c) \/ KiteLoginRequest(c) \/ KiteTwofa(c)
           \/ PostFails(c) \/ LoginFails(c)
    PROVE  SesInv'
<1>1. ses[c] \in CallerState /\ ses \in [Callers -> CallerState]
  BY DEF SesInv, SesTypes
<1>2. Idle \in CallerState /\ [Idle EXCEPT !.pc = "failed"] \in CallerState
      /\ Idle.pc = "none" /\ [Idle EXCEPT !.pc = "failed"].pc = "failed"
  BY SessionAssumption DEF Idle, CallerState, NoToken
<1>3. UNCHANGED <<half, rows, begun, issued, accepted, overlap, late, drops>>
  BY DEF Ensure, Leave, CodeTyped, KiteLoginRequest, KiteTwofa, PostFails, LoginFails
<1>4. PICK s \in CallerState : /\ ses' = [ses EXCEPT ![c] = s]
                               /\ s.pc \in LoggingIn => ses[c].pc \in LoggingIn
                               /\ s.pc \notin {"answered", "store", "commit", "have"}
  <2>1. CASE Ensure(c)
    <3>1. ses' = [ses EXCEPT ![c] = [ses[c] EXCEPT !.pc = "lookup"]]
      BY <2>1 DEF Ensure
    <3>2. [ses[c] EXCEPT !.pc = "lookup"] \in CallerState
          /\ [ses[c] EXCEPT !.pc = "lookup"].pc = "lookup"
      BY <1>1 DEF CallerState
    <3>. QED
      BY <3>1, <3>2 DEF LoggingIn
  <2>2. CASE Leave(c)
    BY <1>2, <2>2 DEF Leave, LoggingIn
  <2>3. ASSUME NEW pc \in {"twofa", "exchange"}, ses[c].pc \in {"login", "twofa"},
               ses' = [ses EXCEPT ![c].pc = pc, ![c].tries = 0]
        PROVE  \E s \in CallerState : /\ ses' = [ses EXCEPT ![c] = s]
                                      /\ s.pc \in LoggingIn => ses[c].pc \in LoggingIn
                                      /\ s.pc \notin {"answered", "store", "commit", "have"}
    <3>. DEFINE s == [ses[c] EXCEPT !.pc = pc, !.tries = 0]
    <3>1. s \in CallerState /\ s.pc = pc
      <4>1. 0 \in 0 .. LoginAttempts - 1
        BY SessionAssumption
      <4>2. pc \in {"none", "lookup", "have", "failed"} \cup LoggingIn
        BY DEF LoggingIn
      <4>. QED
        BY <1>1, <4>1, <4>2 DEF CallerState
    <3>2. ses' = [ses EXCEPT ![c] = s]
      BY <1>1, <2>3
    <3>. QED
      BY <2>3, <3>1, <3>2 DEF LoggingIn
  <2>4. CASE KiteLoginRequest(c)
    BY <2>3, <2>4 DEF KiteLoginRequest
  <2>5. CASE KiteTwofa(c)
    BY <2>3, <2>5 DEF KiteTwofa
  <2>6. CASE PostFails(c)
    <3>1. CASE ses[c].tries + 1 < LoginAttempts
      <4>. DEFINE s == [ses[c] EXCEPT !.tries = ses[c].tries + 1]
      <4>1. s \in CallerState /\ s.pc = ses[c].pc
        BY <1>1, <3>1, SessionAssumption DEF CallerState
      <4>2. ses' = [ses EXCEPT ![c] = s] /\ ses[c].pc \in {"login", "twofa"}
        BY <1>1, <2>6, <3>1 DEF PostFails
      <4>. QED
        BY <4>1, <4>2 DEF LoggingIn
    <3>2. CASE ~(ses[c].tries + 1 < LoginAttempts)
      <4>1. ses' = [ses EXCEPT ![c] = [Idle EXCEPT !.pc = "failed"]]
        BY <1>1, <2>6, <3>2 DEF PostFails
      <4>. QED
        BY <1>2, <4>1 DEF LoggingIn
    <3>. QED
      BY <3>1, <3>2
  <2>7. CASE LoginFails(c)
    <3>1. ses' = [ses EXCEPT ![c] = [Idle EXCEPT !.pc = "failed"]]
      BY <2>7 DEF LoginFails
    <3>. QED
      BY <1>2, <3>1 DEF LoggingIn
  <2>8. CASE CodeTyped(c)
    <3>1. CASE ses' = [ses EXCEPT ![c] = [ses[c] EXCEPT !.pc = "login"]]
      <4>1. [ses[c] EXCEPT !.pc = "login"] \in CallerState
            /\ [ses[c] EXCEPT !.pc = "login"].pc = "login"
        BY <1>1 DEF CallerState, LoggingIn
      <4>. QED
        BY <2>8, <3>1, <4>1 DEF CodeTyped, LoggingIn
    <3>2. CASE ses' = [ses EXCEPT ![c] = [Idle EXCEPT !.pc = "failed"]]
      BY <1>2, <3>2 DEF LoggingIn
    <3>. QED
      BY <2>8, <3>1, <3>2 DEF CodeTyped
  <2>. QED
    BY <2>1, <2>2, <2>4, <2>5, <2>6, <2>7, <2>8
<1>. QED
  BY <1>3, <1>4, HarmlessMove

(* Whoever finds no live session logs in: alone, or the overlap is noted.  *)
LEMMA LookupKeeps ==
    ASSUME SesInv, NEW c \in Callers, Lookup(c)
    PROVE  SesInv'
<1>1. /\ ses \in [Callers -> CallerState] /\ ses[c] \in CallerState /\ ses[c].pc = "lookup"
      /\ UNCHANGED <<half, rows, begun, issued, accepted, late, drops>>
      /\ ActiveToken = NoToken \/ ActiveToken \in 1 .. issued
      /\ issued \in Nat /\ half \in Nat /\ rows \subseteq Row
  BY ActiveTokenIssued DEF SesInv, SesTypes, Lookup
<1>2. CASE ActiveToken # NoToken
  <2>. DEFINE s == [ses[c] EXCEPT !.pc = "have", !.token = ActiveToken]
  <2>1. ActiveToken \in 1 .. issued /\ ActiveToken \in Nat
    BY <1>1, <1>2
  <2>2. s \in CallerState /\ s.pc = "have" /\ s.token = ActiveToken
    BY <1>1, <2>1 DEF CallerState
  <2>3. ses' = [ses EXCEPT ![c] = s] /\ UNCHANGED overlap
    BY <1>1, <1>2 DEF Lookup
  <2>. QED
    BY <1>1, <2>1, <2>2, <2>3, HarmlessMove DEF LoggingIn
<1>3. CASE ActiveToken = NoToken
  <2>. DEFINE pc == IF ManualOtp THEN "prompt" ELSE "login"
              s  == [ses[c] EXCEPT !.pc = pc]
  <2>1. s \in CallerState /\ s.pc = pc /\ pc \in {"prompt", "login"}
    BY <1>1 DEF CallerState, LoggingIn
  <2>2. /\ ses' = [ses EXCEPT ![c] = s]
        /\ overlap' = (overlap \/ \E o \in Callers \ {c} : ses[o].pc \in LoggingIn)
    BY <1>1, <1>3 DEF Lookup
  <2>. HIDE DEF s, pc
  <2>3. /\ ses' \in [Callers -> CallerState] /\ ses'[c].pc \in {"prompt", "login"}
        /\ \A d \in Callers : d # c => ses'[d] = ses[d]
    BY <1>1, <2>1, <2>2
  <2>4. SesTypes'
    BY <1>1, <2>2, <2>3 DEF SesInv, SesTypes
  <2>5. SesRanges'
    <3>1. Storing' = Storing
      BY <1>1, <2>3 DEF Storing
    <3>. QED
      BY <1>1, <2>3, <3>1 DEF SesInv, SesRanges
  <2>6. OneLogin'
    <3>. SUFFICES ASSUME ~overlap' PROVE OneLogin'
      BY DEF OneLogin
    <3>1. ~overlap /\ NewestActiveOnly /\ \A d \in Callers : AloneIn(d)
      BY <2>2 DEF SesInv, OneLogin
    <3>2. \A o \in Callers : o # c => ses[o].pc \notin LoggingIn
      BY <2>2
    <3>3. \A r \in rows : r.expires <= half
      <4>1. CASE Active = {}
        BY <3>1, <4>1 DEF NewestActiveOnly
      <4>2. CASE Active # {}
        <5>1. PICK n \in Active : ActiveToken = IF n.expires <= half THEN NoToken ELSE n.token
          BY <4>2, NewestRow DEF SesInv
        <5>2. n.token # NoToken /\ n.expires \in Nat
          <6>1. n \in rows /\ n.token \in 1 .. issued
            BY DEF SesInv, SesRanges, Active
          <6>. QED
            BY <1>1, <6>1 DEF NoToken, Row
        <5>3. n.expires <= half
          BY <1>3, <5>1, <5>2
        <5>4. ASSUME NEW r \in rows PROVE r.expires <= half
          <6>1. r.expires <= n.expires /\ r.expires \in Nat
            BY <1>1, <3>1 DEF NewestActiveOnly, Row
          <6>. QED
            BY <1>1, <5>2, <5>3, <6>1
        <5>. QED
          BY <5>4
      <4>. QED
        BY <4>1, <4>2
    <3>4. NewestActiveOnly'
      BY <1>1, <3>1 DEF NewestActiveOnly, Active
    <3>5. ASSUME NEW d \in Callers PROVE AloneIn(d)'
      BY <1>1, <2>3, <3>1, <3>2, <3>3 DEF AloneIn, Active
    <3>. QED
      BY <3>4, <3>5 DEF OneLogin
  <2>7. SessionsLive'
    BY <1>1, <2>2, <2>3 DEF SesInv, SessionsLive, Kept, Active
  <2>. QED
    BY <2>4, <2>5, <2>6, <2>7 DEF SesInv
<1>. QED
  BY <1>2, <1>3

(* A session outlives the half it is opened in.                            *)
LEMMA ExpiryIsAhead ==
    ASSUME SesTypes
    PROVE  /\ NextTokenExpiry \in Nat /\ half < NextTokenExpiry /\ DateOf(half) \in Nat
           /\ NextTokenExpiry = SessionEnd(DateOf(half))
<1>1. \A h \in Nat : /\ 2 * (h \div 2 + 1) + 1 \in Nat /\ h < 2 * (h \div 2 + 1) + 1
                     /\ 2 * (h \div 2 + 1) + 1 = 2 * (h \div 2) + 3 /\ h \div 2 \in Nat
  OBVIOUS
<1>2. half \in Nat
  BY DEF SesTypes
<1>. QED
  BY <1>1, <1>2 DEF NextTokenExpiry, SessionEnd, DateOf

(* The token a login ends with is new, and so is its session.              *)
LEMMA ExchangeKeeps ==
    ASSUME SesInv, NEW c \in Callers, Exchange(c)
    PROVE  SesInv'
<1>. DEFINE today == DateOf(half)
            s     == [ses[c] EXCEPT !.pc = "answered", !.token = issued + 1, !.day = today]
<1>1. /\ ses \in [Callers -> CallerState] /\ ses[c] \in CallerState /\ ses[c].pc = "exchange"
      /\ UNCHANGED <<half, rows, begun, overlap, late, drops>>
      /\ issued \in 0 .. MaxLogins /\ issued < MaxLogins /\ issued' = issued + 1 /\ begun \in Nat
      /\ half \in Nat /\ MaxLogins \in Nat
  BY SessionAssumption DEF SesInv, SesTypes, Exchange
<1>2. today \in Nat
  BY ExpiryIsAhead DEF SesInv
<1>3. PICK kept \in {accepted, {}} :
          accepted' = kept \cup {[token |-> issued + 1, expires |-> SessionEnd(today)]}
  BY DEF Exchange
<1>4. ses' = [ses EXCEPT ![c] = s]
  BY <1>1 DEF Exchange
<1>. HIDE DEF today
<1>5. s \in CallerState /\ s.pc = "answered" /\ s.token = issued + 1 /\ s.day = today
  <2>1. issued + 1 \in Nat /\ "answered" \in {"none", "lookup", "have", "failed"} \cup LoggingIn
    BY <1>1 DEF LoggingIn
  <2>. QED
    BY <1>1, <1>2, <2>1 DEF CallerState
<1>. HIDE DEF s
<1>6. /\ ses' \in [Callers -> CallerState] /\ ses'[c] = s
      /\ \A d \in Callers : d # c => ses'[d] = ses[d]
  BY <1>1, <1>4, <1>5
<1>7. SesTypes'
  BY <1>1, <1>6 DEF SesInv, SesTypes
<1>8. SesRanges'
  <2>1. Storing' = Storing \cup {c} /\ c \notin Storing
    BY <1>1, <1>5, <1>6 DEF Storing
  <2>2. /\ IsFiniteSet(Storing') /\ Cardinality(Storing') = Cardinality(Storing) + 1
        /\ Cardinality(Storing) \in Nat
    BY <2>1, FS_AddElement, FS_CardinalityType DEF SesInv, SesRanges
  <2>3. begun' + Cardinality(Storing') <= issued'
    BY <1>1, <2>2 DEF SesInv, SesRanges
  <2>4. \A a \in accepted' : a.token \in 1 .. issued'
    BY <1>1, <1>3 DEF SesInv, SesRanges
  <2>5. \A d \in Callers : ses'[d].pc \in {"answered", "store", "commit", "have"} =>
                             ses'[d].token \in 1 .. issued'
    BY <1>1, <1>5, <1>6 DEF SesInv, SesRanges
  <2>6. /\ \A r \in rows : r.token \in 1 .. issued' /\ r.at \in 1 .. begun
        /\ late' \subseteq 1 .. issued'
    BY <1>1 DEF SesInv, SesRanges
  <2>7. \A d \in Callers : ses'[d].pc = "commit" => ses'[d].at \in 1 .. begun
    BY <1>5, <1>6 DEF SesInv, SesRanges
  <2>. QED
    BY <1>1, <2>2, <2>3, <2>4, <2>5, <2>6, <2>7 DEF SesRanges
<1>9. ASSUME ~overlap
      PROVE  /\ NewestActiveOnly /\ \A d \in Callers : AloneIn(d)
             /\ \A d \in Callers : d # c => ses[d].pc \notin LoggingIn
             /\ \A r \in rows : r.expires <= half
  <2>1. ses[c].pc \in LoggingIn
    BY <1>1 DEF LoggingIn
  <2>. QED
    BY <1>9, <2>1 DEF SesInv, OneLogin, AloneIn
<1>10. OneLogin'
  <2>. SUFFICES ASSUME ~overlap PROVE OneLogin'
    BY <1>1 DEF OneLogin
  <2>1. NewestActiveOnly'
    BY <1>1, <1>9 DEF NewestActiveOnly, Active
  <2>2. ASSUME NEW d \in Callers PROVE AloneIn(d)'
    BY <1>1, <1>5, <1>6, <1>9 DEF AloneIn, Active, LoggingIn
  <2>. QED
    BY <2>1, <2>2 DEF OneLogin
<1>11. SessionsLive'
  <2>. SUFFICES ASSUME ~overlap PROVE SessionsLive'
    BY <1>1 DEF SessionsLive
  <2>1. Kept(ses[c].token, SessionEnd(ses[c].day))'
    <3>1. [token |-> issued + 1, expires |-> SessionEnd(today)] \in accepted'
      BY <1>3
    <3>. QED
      BY <1>5, <1>6, <3>1 DEF Kept
  <2>2. \A r \in Active' : Kept(r.token, r.expires)'
    BY <1>1, <1>9 DEF Kept, Active
  <2>3. \A d \in Callers : d # c => ses'[d].pc \notin {"answered", "store", "commit"}
    BY <1>6, <1>9 DEF LoggingIn
  <2>4. ASSUME NEW d \in Callers, (ses[d].pc = "answered")'
        PROVE  Kept(ses[d].token, SessionEnd(ses[d].day))'
    <3>1. d = c
      BY <2>3, <2>4
    <3>. QED
      BY <2>1, <3>1
  <2>5. \A d \in Callers : ses'[d].pc \notin {"store", "commit"}
    BY <1>5, <1>6, <2>3
  <2>. QED
    BY <2>2, <2>4, <2>5 DEF SessionsLive
<1>. QED
  BY <1>7, <1>8, <1>10, <1>11 DEF SesInv

(* The row will expire with the session if it is still the date on which   *)
(* the token was issued.                                                   *)
LEMMA StoreTokenKeeps ==
    ASSUME SesInv, NEW c \in Callers, StoreToken(c)
    PROVE  SesInv'
<1>. DEFINE s == [ses[c] EXCEPT !.pc = "store", !.expires = NextTokenExpiry, !.day = 0]
<1>1. /\ ses \in [Callers -> CallerState] /\ ses[c] \in CallerState /\ ses[c].pc = "answered"
      /\ UNCHANGED <<half, rows, begun, issued, accepted, overlap, drops>>
      /\ late' = IF DateOf(half) # ses[c].day THEN late \cup {ses[c].token} ELSE late
      /\ half \in Nat
  BY DEF SesInv, SesTypes, StoreToken
<1>2. NextTokenExpiry \in Nat /\ half < NextTokenExpiry /\ NextTokenExpiry = SessionEnd(DateOf(half))
  BY ExpiryIsAhead DEF SesInv
<1>3. PICK e \in Nat : e = NextTokenExpiry
  BY <1>2
<1>4. /\ s \in CallerState /\ s.pc = "store" /\ s.token = ses[c].token /\ s.expires = e
      /\ ses' = [ses EXCEPT ![c] = s]
  <2>1. ses' = [ses EXCEPT ![c] = s]
    BY <1>1 DEF StoreToken
  <2>2. "store" \in {"none", "lookup", "have", "failed"} \cup LoggingIn
    BY DEF LoggingIn
  <2>3. s \in CallerState
    BY <1>1, <1>3, <2>2 DEF CallerState
  <2>. QED
    BY <1>1, <1>3, <2>1, <2>3 DEF CallerState
<1>. HIDE DEF s
<1>5. /\ ses' \in [Callers -> CallerState] /\ ses'[c] = s
      /\ \A d \in Callers : d # c => ses'[d] = ses[d]
  BY <1>1, <1>4
<1>6. SesTypes'
  BY <1>1, <1>5 DEF SesInv, SesTypes
<1>7. SesRanges'
  <2>1. Storing' = Storing
    BY <1>1, <1>4, <1>5 DEF Storing
  <2>2. late' \subseteq 1 .. issued
    BY <1>1 DEF SesInv, SesRanges
  <2>. QED
    BY <1>1, <1>4, <1>5, <2>1, <2>2 DEF SesInv, SesRanges
<1>8. ASSUME ~overlap
      PROVE  /\ NewestActiveOnly /\ \A d \in Callers : AloneIn(d)
             /\ \A d \in Callers : d # c => ses[d].pc \notin LoggingIn
             /\ \A r \in rows : r.expires <= half /\ r.expires \in Nat
  <2>1. ses[c].pc \in LoggingIn /\ rows \subseteq Row
    BY <1>1 DEF LoggingIn, SesInv, SesTypes
  <2>. QED
    BY <1>8, <2>1 DEF SesInv, OneLogin, AloneIn, Row
<1>9. OneLogin'
  <2>. SUFFICES ASSUME ~overlap PROVE OneLogin'
    BY <1>1 DEF OneLogin
  <2>1. NewestActiveOnly'
    BY <1>1, <1>8 DEF NewestActiveOnly, Active
  <2>2. \A r \in rows : r.expires < s.expires
    BY <1>1, <1>2, <1>3, <1>4, <1>8
  <2>3. ASSUME NEW d \in Callers PROVE AloneIn(d)'
    BY <1>1, <1>4, <1>5, <1>8, <2>2 DEF AloneIn, Active, LoggingIn
  <2>. QED
    BY <2>1, <2>3 DEF OneLogin
<1>10. SessionsLive'
  <2>. SUFFICES ASSUME ~overlap, drops = 0 PROVE SessionsLive'
    BY <1>1 DEF SessionsLive
  <2>1. SessionsLive /\ late \subseteq late'
    BY <1>1 DEF SesInv
  <2>2. \A r \in Active' : r.token \notin late' => Kept(r.token, r.expires)'
    BY <1>1, <2>1 DEF SessionsLive, Kept, Active
  <2>3. \A d \in Callers : d # c => ses'[d].pc \notin LoggingIn
    BY <1>5, <1>8
  <2>4. s.token \notin late' => \E a \in accepted : a.token = s.token /\ a.expires = e
    <3>. SUFFICES ASSUME s.token \notin late' PROVE \E a \in accepted : a.token = s.token /\ a.expires = e
      OBVIOUS
    <3>1. DateOf(half) = ses[c].day
      BY <1>1, <1>4
    <3>2. Kept(s.token, e)
      BY <1>1, <1>2, <1>3, <1>4, <2>1, <3>1 DEF SessionsLive
    <3>. QED
      BY <1>1, <1>2, <1>3, <3>2 DEF Kept
  <2>5. ASSUME NEW d \in Callers, (ses[d].pc \in {"store", "commit"} /\ ses[d].token \notin late)'
        PROVE  Kept(ses[d].token, ses[d].expires)'
    <3>1. d = c
      BY <2>3, <2>5 DEF LoggingIn
    <3>. QED
      BY <1>1, <1>4, <1>5, <2>4, <2>5, <3>1 DEF Kept
  <2>6. \A d \in Callers : ses'[d].pc # "answered"
    BY <1>4, <1>5, <2>3 DEF LoggingIn
  <2>. QED
    BY <2>2, <2>5, <2>6 DEF SessionsLive
<1>. QED
  BY <1>6, <1>7, <1>9, <1>10 DEF SesInv

(* A storing transaction sees the one active row there is.                 *)
LEMMA StoreBeginKeeps ==
    ASSUME SesInv, NEW c \in Callers, StoreBegin(c)
    PROVE  SesInv'
<1>. DEFINE s == [ses[c] EXCEPT !.pc = "commit", !.at = begun + 1, !.old = {r.token : r \in Active}]
<1>1. /\ ses \in [Callers -> CallerState] /\ ses[c] \in CallerState /\ ses[c].pc = "store"
      /\ UNCHANGED <<half, rows, issued, accepted, overlap, late, drops>>
      /\ issued \in Nat /\ begun \in Nat /\ begun' = begun + 1 /\ rows \subseteq Row
  BY SessionAssumption DEF SesInv, SesTypes, StoreBegin
<1>2. /\ s \in CallerState /\ s.pc = "commit" /\ s.at = begun + 1 /\ s.token = ses[c].token
      /\ s.expires = ses[c].expires /\ s.old = {r.token : r \in Active}
      /\ ses' = [ses EXCEPT ![c] = s]
  <2>1. ses' = [ses EXCEPT ![c] = s]
    BY <1>1 DEF StoreBegin
  <2>2. /\ begun + 1 \in Nat /\ {r.token : r \in Active} \in SUBSET Tokens
        /\ "commit" \in {"none", "lookup", "have", "failed"} \cup LoggingIn
    BY <1>1 DEF LoggingIn, Active, Row
  <2>3. s \in CallerState
    BY <1>1, <2>2 DEF CallerState
  <2>. QED
    BY <1>1, <2>1, <2>3 DEF CallerState
<1>. HIDE DEF s
<1>3. /\ ses' \in [Callers -> CallerState] /\ ses'[c] = s
      /\ \A d \in Callers : d # c => ses'[d] = ses[d]
  BY <1>1, <1>2
<1>4. SesTypes'
  BY <1>1, <1>3 DEF SesInv, SesTypes
<1>5. SesRanges'
  <2>1. Storing' = Storing \ {c} /\ c \in Storing
    BY <1>1, <1>2, <1>3 DEF Storing
  <2>2. /\ IsFiniteSet(Storing') /\ Cardinality(Storing') = Cardinality(Storing) - 1
        /\ Cardinality(Storing) \in Nat
    BY <2>1, FS_RemoveElement, FS_CardinalityType DEF SesInv, SesRanges
  <2>3. begun' + Cardinality(Storing') <= issued'
    BY <1>1, <2>2 DEF SesInv, SesRanges
  <2>4. \A d \in Callers : ses'[d].pc \in {"answered", "store", "commit", "have"} =>
                             ses'[d].token \in 1 .. issued'
    BY <1>1, <1>2, <1>3 DEF SesInv, SesRanges
  <2>5. \A r \in rows : r.token \in 1 .. issued /\ r.at \in 1 .. begun'
    BY <1>1 DEF SesInv, SesRanges
  <2>6. \A d \in Callers : ses'[d].pc = "commit" => ses'[d].at \in 1 .. begun'
    BY <1>1, <1>2, <1>3 DEF SesInv, SesRanges
  <2>7. (\A a \in accepted : a.token \in 1 .. issued) /\ late \subseteq 1 .. issued
    BY DEF SesInv, SesRanges
  <2>. QED
    BY <1>1, <2>2, <2>3, <2>4, <2>5, <2>6, <2>7 DEF SesRanges
<1>6. OneLogin'
  <2>. SUFFICES ASSUME ~overlap PROVE OneLogin'
    BY <1>1 DEF OneLogin
  <2>1. NewestActiveOnly /\ \A d \in Callers : AloneIn(d)
    BY DEF SesInv, OneLogin
  <2>2. NewestActiveOnly'
    BY <1>1, <2>1 DEF NewestActiveOnly, Active
  <2>3. ASSUME NEW d \in Callers PROVE AloneIn(d)'
    BY <1>1, <1>2, <1>3, <2>1 DEF AloneIn, Active, LoggingIn
  <2>. QED
    BY <2>2, <2>3 DEF OneLogin
<1>7. SessionsLive'
  BY <1>1, <1>2, <1>3 DEF SesInv, SessionsLive, Kept, Active
<1>. QED
  BY <1>4, <1>5, <1>6, <1>7 DEF SesInv

(* A storing transaction commits: whoever was alone leaves one active row, *)
(* and it is the newest.                                                   *)
LEMMA StoreCommitKeeps ==
    ASSUME SesInv, NEW c \in Callers, StoreCommit(c)
    PROVE  SesInv'
<1>. DEFINE s    == [Idle EXCEPT !.pc = "have", !.token = ses[c].token]
            new  == [token |-> ses[c].token, at |-> ses[c].at, expires |-> ses[c].expires,
                     active |-> TRUE]
            Old(r) == [r EXCEPT !.active = r.active /\ r.token \notin ses[c].old]
<1>1. /\ ses \in [Callers -> CallerState] /\ ses[c] \in CallerState /\ ses[c].pc = "commit"
      /\ ses' = [ses EXCEPT ![c] = s]
      /\ rows' = {Old(r) : r \in rows} \cup {new}
      /\ UNCHANGED <<half, begun, issued, accepted, overlap, late, drops>>
      /\ issued \in 0 .. MaxLogins /\ begun \in Nat /\ rows \subseteq Row /\ MaxLogins \in Nat
  BY SessionAssumption DEF SesInv, SesTypes, StoreCommit, AfterStore
<1>2. ses[c].token \in 1 .. issued /\ ses[c].at \in 1 .. begun
  BY <1>1 DEF SesInv, SesRanges
<1>3. s \in CallerState /\ s.pc = "have" /\ s.token = ses[c].token
  <2>1. 0 \in 0 .. LoginAttempts - 1
    BY SessionAssumption
  <2>. QED
    BY <1>1, <2>1 DEF Idle, CallerState, NoToken
<1>. HIDE DEF s
<1>4. /\ ses' \in [Callers -> CallerState] /\ ses'[c] = s
      /\ \A d \in Callers : d # c => ses'[d] = ses[d]
  BY <1>1, <1>3
<1>5. /\ new \in Row /\ new.token = ses[c].token /\ new.at = ses[c].at
      /\ new.expires = ses[c].expires /\ new.active
  BY <1>1, <1>2 DEF Row, CallerState, Tokens
<1>6. \A r \in rows : /\ Old(r) \in Row /\ Old(r).token = r.token /\ Old(r).at = r.at
                      /\ Old(r).expires = r.expires
                      /\ Old(r).active = (r.active /\ r.token \notin ses[c].old)
  BY <1>1 DEF Row
<1>. HIDE DEF new, Old
<1>7. SesTypes'
  BY <1>1, <1>4, <1>5, <1>6 DEF SesInv, SesTypes
<1>8. SesRanges'
  <2>1. Storing' = Storing
    BY <1>1, <1>3, <1>4 DEF Storing
  <2>2. \A r \in rows' : r.token \in 1 .. issued /\ r.at \in 1 .. begun
    BY <1>1, <1>2, <1>5, <1>6 DEF SesInv, SesRanges
  <2>. QED
    BY <1>1, <1>2, <1>3, <1>4, <2>1, <2>2 DEF SesInv, SesRanges
<1>9. ASSUME ~overlap
      PROVE  /\ \A d \in Callers : ses'[d].pc \notin LoggingIn
             /\ \A r, o \in rows' : r.expires = o.expires => r = o
             /\ Active' = {new}
             /\ \A r \in rows' : r.expires <= new.expires
  <2>1. /\ NewestActiveOnly /\ \A d \in Callers : d # c => ses[d].pc \notin LoggingIn
        /\ \A r \in rows : r.expires < ses[c].expires
        /\ ses[c].old = {r.token : r \in Active}
    <3>1. ses[c].pc \in LoggingIn
      BY <1>1 DEF LoggingIn
    <3>. QED
      BY <1>1, <1>9, <3>1 DEF SesInv, OneLogin, AloneIn
  <2>2. \A d \in Callers : ses'[d].pc \notin LoggingIn
    BY <1>3, <1>4, <2>1 DEF LoggingIn
  <2>3. \A r \in rows : ~Old(r).active
    BY <1>6, <2>1 DEF Active
  <2>4. \A r \in rows' : r = new \/ \E o \in rows : r = Old(o)
    BY <1>1
  <2>5. ASSUME NEW r \in rows', NEW o \in rows', r.expires = o.expires PROVE r = o
    <3>1. \A p \in rows : p.expires # ses[c].expires
      BY <1>1, <2>1 DEF Row, CallerState
    <3>2. CASE r = new \/ o = new
      BY <1>5, <1>6, <2>4, <2>5, <3>1, <3>2
    <3>3. CASE r # new /\ o # new
      <4>1. PICK p \in rows, q \in rows : r = Old(p) /\ o = Old(q)
        BY <2>4, <3>3
      <4>2. p = q
        BY <1>6, <2>1, <2>5, <4>1 DEF NewestActiveOnly
      <4>. QED
        BY <4>1, <4>2
    <3>. QED
      BY <3>2, <3>3
  <2>6. Active' = {new}
    BY <1>1, <1>5, <2>3, <2>4 DEF Active
  <2>7. \A r \in rows' : r.expires <= new.expires
    BY <1>1, <1>5, <1>6, <2>1, <2>4 DEF Row, CallerState
  <2>. QED
    BY <2>2, <2>5, <2>6, <2>7
<1>10. OneLogin'
  <2>. SUFFICES ASSUME ~overlap PROVE OneLogin'
    BY <1>1 DEF OneLogin
  <2>1. NewestActiveOnly'
    BY <1>9 DEF NewestActiveOnly
  <2>2. ASSUME NEW d \in Callers PROVE AloneIn(d)'
    BY <1>9 DEF AloneIn, LoggingIn
  <2>. QED
    BY <2>1, <2>2 DEF OneLogin
<1>11. SessionsLive'
  <2>. SUFFICES ASSUME ~overlap, drops = 0 PROVE SessionsLive'
    BY <1>1 DEF SessionsLive
  <2>1. ses[c].token \notin late => Kept(ses[c].token, ses[c].expires)
    BY <1>1 DEF SesInv, SessionsLive
  <2>2. PICK n : n = new
    OBVIOUS
  <2>5. n.token \notin late => Kept(n.token, n.expires)'
    BY <1>1, <1>5, <2>1, <2>2 DEF Kept
  <2>3. \A d \in Callers : ses'[d].pc \notin {"answered", "store", "commit"}
    BY <1>9 DEF LoggingIn
  <2>4. \A r \in Active' : r.token \notin late' => Kept(r.token, r.expires)'
    BY <1>1, <1>9, <2>2, <2>5
  <2>. QED
    BY <2>3, <2>4 DEF SessionsLive
<1>. QED
  BY <1>7, <1>8, <1>10, <1>11 DEF SesInv

(* The broker ends sessions on its own, or because they expire.            *)
LEMMA BrokerKeeps ==
    ASSUME SesInv, BrokerDrops \/ HalfPasses
    PROVE  SesInv'
<1>1. /\ UNCHANGED <<rows, begun, issued, ses, overlap, late>>
      /\ half \in 1 .. MaxHalf /\ MaxHalf \in Nat /\ drops \in Nat /\ rows \subseteq Row
      /\ ses \in [Callers -> CallerState]
  BY SessionAssumption DEF BrokerDrops, HalfPasses, SesInv, SesTypes
<1>2. \/ drops' = drops + 1 /\ half' = half /\ accepted' \subseteq accepted
      \/ /\ UNCHANGED drops /\ half' = half + 1 /\ half < MaxHalf
         /\ accepted' = accepted \ Expired(half + 1)
  BY DEF BrokerDrops, HalfPasses
<1>3. drops' \in Nat /\ half' \in 1 .. MaxHalf /\ half <= half'
      /\ (drops' = 0 => drops = 0 /\ accepted' = accepted \ Expired(half'))
      /\ accepted' \subseteq accepted
  <2>1. CASE drops' = drops + 1 /\ half' = half /\ accepted' \subseteq accepted
    BY <1>1, <2>1
  <2>2. CASE /\ UNCHANGED drops /\ half' = half + 1 /\ half < MaxHalf
             /\ accepted' = accepted \ Expired(half + 1)
    BY <1>1, <2>2
  <2>. QED
    BY <1>2, <2>1, <2>2
<1>4. SesTypes'
  BY <1>1, <1>3 DEF SesInv, SesTypes
<1>5. SesRanges'
  <2>1. Storing' = Storing
    BY <1>1 DEF Storing
  <2>. QED
    BY <1>1, <1>3, <2>1 DEF SesInv, SesRanges
<1>6. \A e \in Nat : e <= half => e <= half'
  BY <1>1, <1>3
<1>7. OneLogin'
  <2>. SUFFICES ASSUME ~overlap PROVE OneLogin'
    BY <1>1 DEF OneLogin
  <2>1. NewestActiveOnly'
    BY <1>1 DEF SesInv, OneLogin, NewestActiveOnly, Active
  <2>2. ASSUME NEW d \in Callers PROVE AloneIn(d)'
    <3>1. AloneIn(d) /\ \A r \in rows : r.expires \in Nat
      BY <1>1 DEF SesInv, OneLogin, Row
    <3>. QED
      BY <1>1, <1>6, <3>1 DEF AloneIn, Active
  <2>. QED
    BY <2>1, <2>2 DEF OneLogin
<1>8. SessionsLive'
  <2>. SUFFICES ASSUME ~overlap, drops' = 0 PROVE SessionsLive'
    BY <1>1 DEF SessionsLive
  <2>1. ASSUME NEW token, NEW expires \in Nat, Kept(token, expires)
        PROVE  Kept(token, expires)'
    <3>1. CASE expires <= half
      BY <1>6, <3>1 DEF Kept
    <3>2. CASE expires <= half'
      BY <3>2 DEF Kept
    <3>3. CASE ~(expires <= half')
      <4>1. PICK a \in accepted : a.token = token /\ a.expires = expires
        BY <1>6, <2>1, <3>3 DEF Kept
      <4>2. a \in accepted'
        BY <1>3, <3>3, <4>1 DEF Expired
      <4>. QED
        BY <4>1, <4>2 DEF Kept
    <3>. QED
      BY <3>2, <3>3
  <2>2. /\ SessionsLive
        /\ \A r \in Active : r.expires \in Nat
        /\ \A d \in Callers : ses[d].expires \in Nat /\ ses[d].token \in Nat
                               /\ SessionEnd(ses[d].day) \in Nat
    BY <1>1 DEF SesInv, Active, Row, CallerState, SessionEnd
  <2>3. \A r \in Active' : r.token \notin late' => Kept(r.token, r.expires)'
    BY <1>1, <1>3, <2>1, <2>2 DEF SessionsLive, Active
  <2>4. ASSUME NEW d \in Callers, ses[d].pc = "answered"
        PROVE  Kept(ses[d].token, SessionEnd(ses[d].day))'
    <3>1. PICK token \in Nat, expires \in Nat : token = ses[d].token /\ expires = SessionEnd(ses[d].day)
      BY <2>2
    <3>2. Kept(token, expires)
      BY <1>3, <2>2, <2>4, <3>1 DEF SessionsLive
    <3>3. Kept(token, expires)'
      BY <2>1, <3>2
    <3>. QED
      BY <1>1, <3>1, <3>3 DEF Kept
  <2>5. ASSUME NEW d \in Callers, ses[d].pc \in {"store", "commit"}, ses[d].token \notin late
        PROVE  Kept(ses[d].token, ses[d].expires)'
    <3>1. PICK token \in Nat, expires \in Nat : token = ses[d].token /\ expires = ses[d].expires
      BY <2>2
    <3>2. Kept(token, expires)
      BY <1>3, <2>2, <2>5, <3>1 DEF SessionsLive
    <3>3. Kept(token, expires)'
      BY <2>1, <3>2
    <3>. QED
      BY <1>1, <3>1, <3>3 DEF Kept
  <2>. QED
    BY <1>1, <2>3, <2>4, <2>5 DEF SessionsLive
<1>. QED
  BY <1>4, <1>5, <1>7, <1>8 DEF SesInv

(* The invariant of the sessions is inductive.                             *)
LEMMA SesInvStep == SesInv /\ [SessionNext]_sessionVars => SesInv'
<1>1. ASSUME SesInv, NEW c \in Callers, Ensure(c) \/ Leave(c) \/ SessionStep(c)
      PROVE  SesInv'
  BY <1>1, QuietCallerKeeps, LookupKeeps, ExchangeKeeps, StoreTokenKeeps, StoreBeginKeeps,
     StoreCommitKeeps
     DEF SessionStep
<1>2. ASSUME SesInv, UNCHANGED sessionVars PROVE SesInv'
  BY <1>2 DEF sessionVars, SesInv, SesTypes, SesRanges, Storing, OneLogin, NewestActiveOnly, AloneIn,
              Active, SessionsLive, Kept
<1>. QED
  BY <1>1, <1>2, BrokerKeeps DEF SessionNext

(* It holds of the empty table.                                            *)
LEMMA SesInvInit == SessionInit => SesInv
<1>. SUFFICES ASSUME SessionInit PROVE SesInv
  OBVIOUS
<1>1. /\ half = 1 /\ rows = {} /\ begun = 0 /\ issued = 0 /\ accepted = {}
      /\ ses = [c \in Callers |-> Idle] /\ overlap = FALSE /\ late = {} /\ drops = 0
  BY DEF SessionInit
<1>2. Idle \in CallerState /\ Idle.pc = "none"
  BY SessionAssumption DEF Idle, CallerState, NoToken
<1>3. SesTypes
  <2>1. half \in 1 .. MaxHalf /\ issued \in 0 .. MaxLogins /\ begun \in Nat /\ drops \in Nat
    BY <1>1, SessionAssumption
  <2>2. ses \in [Callers -> CallerState] /\ rows \subseteq Row /\ overlap \in BOOLEAN
    BY <1>1, <1>2
  <2>. QED
    BY <2>1, <2>2 DEF SesTypes
<1>4. SesRanges
  <2>1. Storing = {}
    BY <1>1, <1>2 DEF Storing
  <2>2. IsFiniteSet(Storing) /\ Cardinality(Storing) = 0
    BY <2>1, FS_EmptySet
  <2>. QED
    BY <1>1, <1>2, <2>2 DEF SesRanges
<1>5. OneLogin
  BY <1>1, <1>2 DEF OneLogin, NewestActiveOnly, AloneIn, Active, LoggingIn
<1>6. SessionsLive
  BY <1>1, <1>2 DEF SessionsLive, Active
<1>. QED
  BY <1>3, <1>4, <1>5, <1>6 DEF SesInv

(* To the sessions, a step of the client is one of theirs or none.         *)
LEMMA ClientUsesSessions == [KiteNext]_kiteVars => [SessionNext]_sessionVars
<1>. SUFFICES ASSUME [KiteNext]_kiteVars PROVE [SessionNext]_sessionVars
  OBVIOUS
<1>1. ASSUME NEW t \in Tasks, CallBegins(t) \/ Attempt(t)
      PROVE  UNCHANGED sessionVars
  BY <1>1 DEF CallBegins, Attempt, Answer, AnswerLost, Unsent, TurnedDown, Refuse
<1>2. ASSUME NEW t \in Tasks, Acquired(t) \/ Ready(t)
      PROVE  [SessionNext]_sessionVars
  <2>1. t \in Callers
    BY ClientAssumption
  <2>. QED
    BY <1>2, <2>1 DEF Acquired, Ready, SessionNext
<1>3. ASSUME RefreshBegins \/ RefreshEnds
      PROVE  [SessionNext]_sessionVars
  <2>1. Worker \in Callers
    BY ClientAssumption
  <2>. QED
    BY <1>3, <2>1 DEF RefreshBegins, RefreshEnds, SessionNext
<1>4. ASSUME UnitPasses \/ UNCHANGED kiteVars PROVE UNCHANGED sessionVars
  BY <1>4 DEF UnitPasses, kiteVars
<1>. QED
  BY <1>1, <1>2, <1>3, <1>4 DEF KiteNext, SessionNext

(* It holds in every state of the client.                                  *)
THEOREM SessionInvariance == KiteSpec => []SesInv
<1>1. KiteInit => SesInv
  BY SesInvInit DEF KiteInit
<1>2. SesInv /\ [KiteNext]_kiteVars => SesInv'
  BY ClientUsesSessions, SesInvStep
<1>. QED
  BY <1>1, <1>2, PTL DEF KiteSpec

(* Callers that do not log in beside one another share one session.        *)
THEOREM OneSessionShared == KiteSpec => []SessionsAreShared
<1>1. ASSUME SesInv PROVE SessionsAreShared
  <2>. SUFFICES ASSUME ~overlap PROVE SessionsAreShared
    BY DEF SessionsAreShared
  <2>1. NewestActiveOnly
    BY <1>1 DEF SesInv, OneLogin
  <2>2. Cardinality(Active) <= 1
    <3>1. CASE Active = {}
      BY <3>1, FS_EmptySet
    <3>2. CASE Active # {}
      <4>1. PICK r \in Active : Active = {r}
        BY <2>1, <3>2 DEF NewestActiveOnly
      <4>2. Cardinality({r}) = 1
        BY FS_Singleton
      <4>3. Cardinality(Active) = 1
        BY <4>1, <4>2
      <4>. QED
        BY <4>3
    <3>. QED
      BY <3>1, <3>2
  <2>. QED
    BY <2>1, <2>2 DEF SessionsAreShared, NewestActiveOnly
<1>. QED
  BY <1>1, SessionInvariance, PTL

(* What get_active_token hands out, the broker accepts, unless it was      *)
(* stored on a later date than it was issued, the broker ended the session *)
(* itself or two logins overlapped.                                        *)
THEOREM TokensHandedOutAreLive == KiteSpec => []ActiveTokenIsLive
<1>1. ASSUME SesInv PROVE ActiveTokenIsLive
  <2>. SUFFICES ASSUME ActiveToken # NoToken, ActiveToken \notin late, drops = 0, ~overlap
                PROVE  \E s \in accepted : s.token = ActiveToken
    BY DEF ActiveTokenIsLive
  <2>1. Active # {}
    BY DEF ActiveToken
  <2>2. PICK n \in Active : ActiveToken = IF n.expires <= half THEN NoToken ELSE n.token
    BY <1>1, <2>1, NewestRow DEF SesInv
  <2>3. ~(n.expires <= half) /\ ActiveToken = n.token
    BY <2>2
  <2>4. Kept(n.token, n.expires)
    BY <1>1, <2>3 DEF SesInv, SessionsLive
  <2>. QED
    BY <2>3, <2>4 DEF Kept
<1>. QED
  BY <1>1, SessionInvariance, PTL
-----------------------------------------------------------------------------
(* The types of the client, which need both the line and the sessions.     *)

Typed(c) == c.attempt \in 0 .. Attempts /\ (c.pc = "send" => c.token \in 1 .. issued)

(* The tokens in use were issued, and a call waits where it is waited for. *)
ClientTypes ==
    /\ cached \in 0 .. issued /\ refused \subseteq 1 .. issued
    /\ \A t \in Tasks : Typed(call[t])
    /\ \A t \in Tasks : call[t].pc = "bucket" => \E i \in 1 .. Len(line) : line[i] = t
    /\ \A t \in Tasks : call[t].pc = "session" => ses[t].pc # "none"

(* The invariant behind ClientTypeOK.                                      *)
TypeInv == BucketInv /\ KiteInv /\ SesInv /\ ClientTypes

(* What the steps of one task find.                                        *)
LEMMA TaskAt ==
    ASSUME TypeInv, NEW t \in Tasks
    PROVE  /\ DOMAIN call = Tasks /\ DOMAIN call[t] = CallFields /\ Typed(call[t])
           /\ t \in Callers /\ DOMAIN ses = Callers /\ issued \in Nat /\ cached \in 0 .. issued
           /\ Attempts \in Nat \ {0} /\ line \in Seq(Tasks)
  BY ClientAssumption, SessionAssumption
     DEF TypeInv, KiteInv, CallsInv, Accounted, PlacesInv, ClientTypes, SesInv, SesTypes

(* Each step of a task keeps the types.                                    *)
LEMMA BeginTyped ==
    ASSUME TypeInv, NEW t \in Tasks, CallBegins(t)
    PROVE  ClientTypes'
<1>1. PICK c :
         /\ call' = [call EXCEPT ![t] = c] /\ line' = Append(line, t)
         /\ ses' = ses /\ issued' = issued /\ cached' = cached /\ refused' = refused
         /\ c.pc = "bucket" /\ c.attempt = 0
  <2>. DEFINE first == [NoCall EXCEPT !.pc = "bucket", !.shunned = refused]
  <2>1. /\ call' = [call EXCEPT ![t] = first] /\ line' = Append(line, t)
        /\ ses' = ses /\ issued' = issued /\ cached' = cached /\ refused' = refused
    BY DEF CallBegins, Enter, sessionVars
  <2>2. first.pc = "bucket" /\ first.attempt = 0
    BY DEF NoCall
  <2>. QED
    BY <2>1, <2>2
<1>2. Typed(c)'
  BY <1>1, TaskAt DEF Typed
<1>3. /\ Len(line') = Len(line) + 1 /\ Len(line) \in Nat /\ line'[Len(line) + 1] = t
      /\ \A i \in 1 .. Len(line) : line'[i] = line[i]
  BY <1>1, TaskAt
<1>4. ASSUME NEW u \in Tasks, call'[u].pc = "bucket"
      PROVE  \E i \in 1 .. Len(line') : line'[i] = u
  <2>1. CASE u = t
    BY <1>3, <2>1
  <2>2. CASE u # t
    <3>1. call[u].pc = "bucket"
      BY <1>1, <1>4, <2>2, TaskAt
    <3>2. PICK i \in 1 .. Len(line) : line[i] = u
      BY <3>1 DEF TypeInv, ClientTypes
    <3>. QED
      BY <1>3, <3>2
  <2>. QED
    BY <2>1, <2>2
<1>5. \A u \in Tasks : call'[u] = IF u = t THEN c ELSE call[u]
  BY <1>1, TaskAt
<1>. QED
  BY <1>1, <1>2, <1>4, <1>5 DEF TypeInv, ClientTypes, Typed

(* The head of the line leaves it and waits for a session, or sends.       *)
LEMMA AcquiredTyped ==
    ASSUME TypeInv, NEW t \in Tasks, Acquired(t)
    PROVE  ClientTypes'
<1>1. /\ line # <<>> /\ Head(line) = t /\ line' = Tail(line)
      /\ issued' = issued /\ cached' = cached /\ refused' = refused
  BY DEF Acquired, Take, sessionVars, Ensure
<1>2. PICK c : /\ call' = [call EXCEPT ![t] = c] /\ c.pc # "bucket" /\ Typed(c)
               /\ \/ ses' = ses /\ c.pc # "session"
                  \/ ses' = [ses EXCEPT ![t].pc = "lookup"]
  <2>1. CASE cached # NoToken
    <3>1. call' = [call EXCEPT ![t] = Sending(call[t], cached)] /\ ses' = ses
      BY <2>1, TaskAt DEF Acquired, sessionVars
    <3>2. /\ Sending(call[t], cached).pc = "send" /\ Sending(call[t], cached).attempt = 1
          /\ Sending(call[t], cached).token = cached
      BY TaskAt DEF Sending, CallFields
    <3>3. cached \in 1 .. issued /\ 1 \in 0 .. Attempts
      BY <2>1, TaskAt DEF NoToken
    <3>. QED
      BY <3>1, <3>2, <3>3 DEF Typed
  <2>2. CASE cached = NoToken
    <3>. DEFINE c == [call[t] EXCEPT !.pc = "session"]
    <3>1. call' = [call EXCEPT ![t] = c] /\ ses' = [ses EXCEPT ![t].pc = "lookup"]
      BY <2>2, TaskAt DEF Acquired, Ensure
    <3>2. c.pc = "session" /\ c.attempt = call[t].attempt
      BY TaskAt DEF CallFields
    <3>. QED
      BY <3>1, <3>2, TaskAt DEF Typed
  <2>. QED
    BY <2>1, <2>2
<1>3. \A u \in Tasks : call'[u] = IF u = t THEN c ELSE call[u]
  BY <1>2, TaskAt
<1>4. /\ t = line[1] /\ Len(line) \in Nat /\ Len(line') = Len(line) - 1
      /\ \A i \in 1 .. Len(line') : line'[i] = line[i + 1]
  BY <1>1, TaskAt
<1>5. ASSUME NEW u \in Tasks, call'[u].pc = "bucket"
      PROVE  \E i \in 1 .. Len(line') : line'[i] = u
  <2>1. u # t /\ call[u].pc = "bucket"
    BY <1>2, <1>3, <1>5
  <2>2. PICK i \in 1 .. Len(line) : line[i] = u
    BY <2>1 DEF TypeInv, ClientTypes
  <2>3. i - 1 \in 1 .. Len(line') /\ (i - 1) + 1 = i
    BY <1>4, <2>1, <2>2
  <2>. QED
    BY <1>4, <2>2, <2>3
<1>6. ASSUME NEW u \in Tasks, call'[u].pc = "session" PROVE ses'[u].pc # "none"
  <2>1. CASE u = t
    <3>1. ses' = [ses EXCEPT ![t].pc = "lookup"] /\ ses[t] \in CallerState
      BY <1>2, <1>3, <1>6, <2>1, TaskAt DEF TypeInv, SesInv, SesTypes
    <3>. QED
      BY <2>1, <3>1, TaskAt DEF CallerState
  <2>2. CASE u # t
    <3>1. ses[u].pc # "none" /\ u \in Callers
      BY <1>3, <1>6, <2>2, ClientAssumption DEF TypeInv, ClientTypes
    <3>. QED
      BY <1>2, <2>2, <3>1, TaskAt
  <2>. QED
    BY <2>1, <2>2
<1>. QED
  BY <1>1, <1>2, <1>3, <1>5, <1>6 DEF TypeInv, ClientTypes, Typed

(* A call that leaves ensure_valid_token, or an attempt.                   *)
LEMMA CallGoesOn ==
    ASSUME TypeInv, NEW t \in Tasks, NEW c, call' = [call EXCEPT ![t] = c], Typed(c),
           c.pc \notin {"bucket", "session"}, line' = line, issued' = issued,
           ses' = ses \/ ses' = [ses EXCEPT ![t] = Idle],
           cached' \in 0 .. issued, refused' \subseteq 1 .. issued
    PROVE  ClientTypes'
<1>1. \A u \in Tasks : call'[u] = IF u = t THEN c ELSE call[u]
  BY TaskAt
<1>2. ASSUME NEW u \in Tasks, u # t PROVE ses'[u] = ses[u]
  BY <1>2, TaskAt, ClientAssumption
<1>. QED
  BY <1>1, <1>2 DEF TypeInv, ClientTypes, Typed

(* What ensure_valid_token returns was issued.                             *)
LEMMA ReadyTyped ==
    ASSUME TypeInv, NEW t \in Tasks, Ready(t)
    PROVE  ClientTypes'
<1>1. /\ ses' = [ses EXCEPT ![t] = Idle] /\ line' = line /\ issued' = issued
      /\ refused' = refused /\ refused \subseteq 1 .. issued /\ ses[t].pc \in {"have", "failed"}
  BY DEF Ready, Leave, bucketVars, TypeInv, ClientTypes
<1>2. CASE ses[t].pc = "have"
  <2>1. cached' = ses[t].token /\ call' = [call EXCEPT ![t] = Sending(call[t], ses[t].token)]
    BY <1>2, TaskAt DEF Ready
  <2>2. ses[t].token \in 1 .. issued /\ 1 \in 0 .. Attempts
    BY <1>2, TaskAt DEF TypeInv, SesInv, SesRanges
  <2>3. /\ Sending(call[t], ses[t].token).pc = "send" /\ Sending(call[t], ses[t].token).attempt = 1
        /\ Sending(call[t], ses[t].token).token = ses[t].token
    BY TaskAt DEF Sending, CallFields
  <2>4. cached' \in 0 .. issued
    BY <2>1, <2>2, TaskAt
  <2>. QED
    BY <1>1, <2>1, <2>2, <2>3, <2>4, CallGoesOn DEF Typed
<1>3. CASE ses[t].pc # "have"
  <2>1. UNCHANGED cached /\ call' = [call EXCEPT ![t] = Raise(call[t])]
    BY <1>3, TaskAt DEF Ready
  <2>2. Raise(call[t]).pc = "idle" /\ Raise(call[t]).attempt = call[t].attempt
    BY TaskAt DEF Raise, CallFields
  <2>. QED
    BY <1>1, <2>1, <2>2, CallGoesOn, TaskAt DEF Typed
<1>. QED
  BY <1>2, <1>3

(* An attempt is one of those allowed, and what is refused was issued.     *)
LEMMA AttemptTyped ==
    ASSUME TypeInv, NEW t \in Tasks, Attempt(t)
    PROVE  ClientTypes'
<1>1. /\ call[t].pc = "send" /\ line' = line /\ ses' = ses /\ issued' = issued
      /\ call[t].token \in 1 .. issued
  BY TaskAt DEF Attempt, Answer, AnswerLost, Unsent, TurnedDown, Refuse, bucketVars, sessionVars,
                Typed
<1>2. cached' \in 0 .. issued /\ refused' \subseteq 1 .. issued
  <2>1. cached' \in {cached, NoToken} /\ refused' \subseteq refused \cup {call[t].token}
    BY DEF Attempt, Answer, AnswerLost, Unsent, TurnedDown, Refuse
  <2>. QED
    BY <1>1, <2>1, TaskAt DEF NoToken, TypeInv, ClientTypes
<1>3. ASSUME NEW d, DOMAIN d = CallFields, d.pc = "send", Typed(d)
      PROVE  /\ Typed(Answered(d)) /\ Answered(d).pc = "idle"
             /\ Typed(Raise(d)) /\ Raise(d).pc = "idle"
             /\ Typed(AfterNetworkError(d)) /\ AfterNetworkError(d).pc \in {"idle", "send"}
             /\ Typed(Unanswered(d)) /\ Unanswered(d).pc = "send" /\ DOMAIN Unanswered(d) = CallFields
  <2>1. /\ Answered(d).pc = "idle" /\ Answered(d).attempt = d.attempt
        /\ Raise(d).pc = "idle" /\ Raise(d).attempt = d.attempt
    BY <1>3 DEF Answered, Raise, CallFields
  <2>2. /\ Unanswered(d).pc = "send" /\ Unanswered(d).attempt = d.attempt
        /\ Unanswered(d).token = d.token /\ DOMAIN Unanswered(d) = CallFields
    BY <1>3 DEF Unanswered, CallFields
  <2>3. CASE d.attempt < Attempts
    <3>1. /\ AfterNetworkError(d).pc = "send" /\ AfterNetworkError(d).token = d.token
          /\ AfterNetworkError(d).attempt = d.attempt + 1
      BY <1>3, <2>3 DEF AfterNetworkError, CallFields
    <3>2. d.attempt + 1 \in 0 .. Attempts
      BY <1>3, <2>3, TaskAt DEF Typed
    <3>. QED
      BY <1>3, <2>1, <2>2, <3>1, <3>2 DEF Typed
  <2>4. CASE ~(d.attempt < Attempts)
    BY <1>3, <2>1, <2>2, <2>4 DEF Typed, AfterNetworkError
  <2>. QED
    BY <2>3, <2>4
<1>4. PICK c : /\ call' = [call EXCEPT ![t] = c] /\ Typed(c) /\ c.pc \in {"idle", "send"}
  <2>1. DOMAIN call[t] = CallFields /\ Typed(call[t])
    BY TaskAt
  <2>2. CASE Answer(t)
    BY <1>1, <1>3, <2>1, <2>2, TaskAt DEF Answer
  <2>3. CASE AnswerLost(t)
    <3>1. call' = [call EXCEPT ![t] = AfterNetworkError(Unanswered(call[t]))]
      BY <2>3, TaskAt DEF AnswerLost
    <3>2. PICK d : d = Unanswered(call[t])
      OBVIOUS
    <3>. QED
      BY <1>1, <1>3, <2>1, <3>1, <3>2
  <2>4. CASE Unsent(t)
    BY <1>1, <1>3, <2>1, <2>4, TaskAt DEF Unsent
  <2>5. CASE TurnedDown(t) \/ Refuse(t)
    BY <1>1, <1>3, <2>1, <2>5, TaskAt DEF TurnedDown, Refuse
  <2>. QED
    BY <2>2, <2>3, <2>4, <2>5 DEF Attempt
<1>. QED
  BY <1>1, <1>2, <1>4, CallGoesOn

(* What leaves the client's calls alone does not put a task out of a       *)
(* session either.                                                         *)
LEMMA SessionTyped ==
    ASSUME TypeInv, UNCHANGED <<bucketVars, clientVars>>, issued <= issued', issued' \in Nat,
           \A t \in Tasks : ses[t].pc # "none" => ses'[t].pc # "none"
    PROVE  ClientTypes'
<1>1. call' = call /\ line' = line /\ cached' = cached /\ refused' = refused
  BY DEF bucketVars, clientVars
<1>2. issued \in Nat
  BY DEF TypeInv, SesInv, SesTypes
<1>3. \A k \in Nat : k <= issued => k <= issued'
  BY <1>2
<1>4. cached' \in 0 .. issued' /\ refused' \subseteq 1 .. issued'
  BY <1>1, <1>2, <1>3 DEF TypeInv, ClientTypes
<1>5. ASSUME NEW t \in Tasks PROVE Typed(call[t])'
  BY <1>1, <1>2, <1>3 DEF TypeInv, ClientTypes, Typed
<1>. QED
  BY <1>1, <1>4, <1>5 DEF TypeInv, ClientTypes
(* A step of ensure_valid_token leaves nobody outside it.                  *)
LEMMA SessionMoves ==
    ASSUME SesInv, NEW c \in Callers, SessionStep(c)
    PROVE  /\ issued <= issued' /\ issued' \in Nat
           /\ \A d \in Callers : ses[d].pc # "none" => ses'[d].pc # "none"
<1>1. issued \in Nat /\ ses \in [Callers -> CallerState] /\ ses[c] \in CallerState
  BY DEF SesInv, SesTypes
<1>2. issued' \in {issued, issued + 1}
  BY DEF SessionStep, Lookup, CodeTyped, KiteLoginRequest, KiteTwofa, PostFails, Exchange,
         StoreToken, StoreBegin, StoreCommit, LoginFails
<1>3. ASSUME NEW d \in Callers, ses[d].pc # "none" PROVE ses'[d].pc # "none"
  <2>1. CASE Lookup(c)
    BY <1>1, <1>3, <2>1 DEF Lookup, CallerState
  <2>2. CASE KiteLoginRequest(c)
    BY <1>1, <1>3, <2>2 DEF KiteLoginRequest, CallerState
  <2>3. CASE KiteTwofa(c)
    BY <1>1, <1>3, <2>3 DEF KiteTwofa, CallerState
  <2>4. CASE PostFails(c)
    <3>1. CASE ses[c].tries + 1 < LoginAttempts
      BY <1>1, <1>3, <2>4, <3>1 DEF PostFails, CallerState
    <3>2. CASE ~(ses[c].tries + 1 < LoginAttempts)
      BY <1>1, <1>3, <2>4, <3>2 DEF PostFails, Idle
    <3>. QED
      BY <3>1, <3>2
  <2>5. CASE Exchange(c)
    BY <1>1, <1>3, <2>5 DEF Exchange, CallerState
  <2>6. CASE StoreBegin(c)
    BY <1>1, <1>3, <2>6 DEF StoreBegin, CallerState
  <2>7. CASE StoreCommit(c) \/ LoginFails(c)
    BY <1>1, <1>3, <2>7 DEF StoreCommit, LoginFails, Idle
  <2>8. CASE CodeTyped(c)
    BY <1>1, <1>3, <2>8 DEF CodeTyped, CallerState, Idle
  <2>9. CASE StoreToken(c)
    BY <1>1, <1>3, <2>9 DEF StoreToken, CallerState
  <2>. QED
    BY <2>1, <2>2, <2>3, <2>4, <2>5, <2>6, <2>7, <2>8, <2>9 DEF SessionStep
<1>. QED
  BY <1>1, <1>2, <1>3

(* The four invariants together are inductive.                             *)
LEMMA TypeInvStep == TypeInv /\ [KiteNext]_kiteVars => TypeInv'
<1>. SUFFICES ASSUME TypeInv, [KiteNext]_kiteVars PROVE TypeInv'
  OBVIOUS
<1>1. BucketInv' /\ KiteInv' /\ SesInv'
  BY ClientUsesBucket, BucketStepKeeps, KiteStepKeeps, ClientUsesSessions, SesInvStep DEF TypeInv
<1>2. issued \in Nat /\ issued <= issued
  BY DEF TypeInv, SesInv, SesTypes
<1>3. ClientTypes'
  <2>1. ASSUME NEW t \in Tasks, CallBegins(t) \/ Acquired(t) \/ Ready(t) \/ Attempt(t)
        PROVE  ClientTypes'
    BY <2>1, BeginTyped, AcquiredTyped, ReadyTyped, AttemptTyped
  <2>2. CASE RefreshBegins \/ RefreshEnds
    <3>1. /\ call' = call /\ line' = line /\ cached' = cached /\ refused' = refused
          /\ issued' = issued /\ \E s : ses' = [ses EXCEPT ![Worker] = s]
      BY <2>2 DEF RefreshBegins, RefreshEnds, Ensure, Leave, bucketVars, clientVars
    <3>2. ASSUME NEW t \in Tasks PROVE ses'[t] = ses[t]
      BY <3>1, TaskAt, ClientAssumption
    <3>. QED
      BY <3>1, <3>2 DEF TypeInv, ClientTypes, Typed
  <2>3. ASSUME NEW c \in Callers, SessionStep(c), UNCHANGED <<bucketVars, clientVars>>
        PROVE  ClientTypes'
    BY <2>3, SessionMoves, SessionTyped, ClientAssumption DEF TypeInv
  <2>4. CASE (BrokerDrops \/ HalfPasses) /\ UNCHANGED <<bucketVars, clientVars>>
    <3>1. issued' = issued /\ ses' = ses
      BY <2>4 DEF BrokerDrops, HalfPasses
    <3>. QED
      BY <1>2, <2>4, <3>1, SessionTyped
  <2>5. CASE UnitPasses \/ UNCHANGED kiteVars
    <3>1. /\ call' = call /\ line' = line /\ cached' = cached /\ refused' = refused
          /\ issued' = issued /\ ses' = ses
      BY <2>5 DEF UnitPasses, Tick, kiteVars, bucketVars, sessionVars, clientVars
    <3>. QED
      BY <3>1 DEF TypeInv, ClientTypes, Typed
  <2>. QED
    BY <2>1, <2>2, <2>3, <2>4, <2>5 DEF KiteNext
<1>. QED
  BY <1>1, <1>3 DEF TypeInv

(* They hold at the start.                                                 *)
LEMMA TypeInvInit == KiteInit => TypeInv
<1>. SUFFICES ASSUME KiteInit PROVE TypeInv
  OBVIOUS
<1>1. BucketInv /\ KiteInv /\ SesInv
  BY BucketStarts, CallsStart, SesInvInit DEF KiteInit
<1>2. /\ cached = 0 /\ refused = {} /\ call = [t \in Tasks |-> NoCall] /\ issued \in Nat
  BY <1>1 DEF KiteInit, NoToken, SesInv, SesTypes
<1>3. 0 \in 0 .. Attempts /\ NoCall.pc = "idle" /\ NoCall.attempt = 0
  BY ClientAssumption DEF NoCall
<1>4. ClientTypes
  BY <1>2, <1>3 DEF ClientTypes, Typed
<1>. QED
  BY <1>1, <1>4 DEF TypeInv

(* The client's state has its types: a task stands in line exactly while   *)
(* its call waits for the bucket, and is in ensure_valid_token exactly     *)
(* while its call waits for a session.                                     *)
THEOREM ClientTyped == KiteSpec => []ClientTypeOK
<1>1. ASSUME TypeInv PROVE ClientTypeOK
  <2>1. SessionTypeOK
    <3>1. /\ half \in 1 .. MaxHalf /\ issued \in 0 .. MaxLogins /\ begun \in Nat
          /\ ses \in [Callers -> CallerState] /\ rows \subseteq Row /\ overlap \in BOOLEAN
          /\ MaxLogins \in Nat
      BY <1>1, SessionAssumption DEF TypeInv, SesInv, SesTypes
    <3>2. begun \in 0 .. issued
      <4>1. Cardinality(Storing) \in Nat /\ begun + Cardinality(Storing) <= issued
        BY <1>1, FS_CardinalityType DEF TypeInv, SesInv, SesRanges
      <4>. QED
        BY <3>1, <4>1
    <3>3. ASSUME NEW r \in rows
          PROVE  r \in [token : Tokens, at : 1 .. begun, expires : Nat, active : BOOLEAN]
      <4>1. r \in Row /\ r.at \in 1 .. begun
        BY <1>1, <3>1 DEF TypeInv, SesInv, SesRanges
      <4>. QED
        BY <4>1 DEF Row
    <3>4. \A s \in accepted : s.token \in 1 .. issued
      BY <1>1 DEF TypeInv, SesInv, SesRanges
    <3>5. \A c \in Callers :
              /\ ses[c].pc \in {"none", "lookup", "have", "failed"} \cup LoggingIn
              /\ ses[c].tries \in 0 .. LoginAttempts - 1
              /\ ses[c].old \subseteq Tokens
      BY <3>1 DEF CallerState
    <3>6. /\ \A c \in Callers : ses[c].pc \in {"answered", "store", "commit", "have"} =>
                                  ses[c].token \in 1 .. issued
          /\ late \subseteq 1 .. issued
      BY <1>1 DEF TypeInv, SesInv, SesRanges
    <3>. QED
      BY <3>1, <3>2, <3>3, <3>4, <3>5, <3>6 DEF SessionTypeOK
  <2>2. ASSUME NEW t \in Tasks
        PROVE  /\ call[t].pc \in {"idle", "bucket", "session", "send"}
               /\ call[t].attempt \in 0 .. Attempts
               /\ call[t].pc = "send" => call[t].token \in 1 .. issued
               /\ (call[t].pc = "bucket") <=> (\E i \in 1 .. Len(line) : line[i] = t)
               /\ (call[t].pc = "session") <=> ses[t].pc # "none"
    BY <1>1 DEF TypeInv, KiteInv, CallsInv, Accounted, PlacesInv, ClientTypes, Typed
  <2>. QED
    BY <1>1, <2>1, <2>2 DEF ClientTypeOK, TypeInv, BucketInv, ClientTypes
<1>. QED
  BY <1>1, TypeInvInit, TypeInvStep, PTL DEF KiteSpec
=============================================================================
