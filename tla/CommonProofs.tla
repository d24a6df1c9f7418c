---------------------------- MODULE CommonProofs -----------------------------
(***************************************************************************)
(* Lemmas that the proofs about several components cite.  A set of natural *)
(* numbers has a least element: the form in which the proofs reason by     *)
(* induction.  And the operations of EventBus: each keeps a stream well    *)
(* formed, none changes a message once published, and the position of the  *)
(* consumer never goes back.                                               *)
(***************************************************************************)
EXTENDS EventBus, FiniteSetTheorems, WellFoundedInduction, TLAPS

(* A set of natural numbers that is not empty has a least element.         *)
LEMMA LeastNat ==
  ASSUME NEW T, T \subseteq Nat, T # {}
  PROVE \E x \in T : \A y \in T : x <= y
<1>. DEFINE U == {0 .. k : k \in T}
<1>1. IsWellFoundedOn(StrictSubsetOrdering(Nat), FiniteSubsetsOf(Nat))
  BY FS_StrictSubsetOrderingWellFounded
<1>2. U \subseteq FiniteSubsetsOf(Nat) /\ U # {}
  <2>1. ASSUME NEW k \in T PROVE 0 .. k \in FiniteSubsetsOf(Nat)
    <3>1. k \in Nat
      BY <2>1
    <3>2. IsFiniteSet(0 .. k)
      BY <3>1, FS_Interval
    <3>3. 0 .. k \subseteq Nat
      BY <3>1
    <3>. QED
      BY <3>2, <3>3 DEF FiniteSubsetsOf
  <2>. QED
    BY <2>1
<1>. HIDE DEF U
<1>3. PICK m \in U : \A y \in U : <<y, m>> \notin StrictSubsetOrdering(Nat)
  BY <1>1, <1>2, WFMin
<1>4. PICK x \in T : m = 0 .. x
  BY DEF U
<1>5. ASSUME NEW y \in T, y < x PROVE FALSE
  <2>1. x \in Nat /\ y \in Nat
    BY <1>5
  <2>2. 0 .. y \in U
    BY DEF U
  <2>3. 0 .. y \in SUBSET Nat /\ 0 .. x \in SUBSET Nat
    BY <2>1
  <2>4. (0 .. y) \subseteq (0 .. x) /\ (0 .. y) # (0 .. x)
    <3>1. x \in 0 .. x /\ x \notin 0 .. y
      BY <2>1, <1>5
    <3>. QED
      BY <3>1, <2>1, <1>5
  <2>5. <<0 .. y, 0 .. x>> \in StrictSubsetOrdering(Nat)
    BY <2>3, <2>4 DEF StrictSubsetOrdering
  <2>. QED
    BY <2>2, <2>5, <1>3, <1>4
<1>. QED
  <2>1. \A y \in T : x <= y
    BY <1>5
  <2>. QED
    BY <2>1

-----------------------------------------------------------------------------
(* Publishing appends one message and moves neither position.              *)
LEMMA PublishLemma ==
    ASSUME NEW E, NEW s \in Stream(E), WellFormed(s), NEW e \in E
    PROVE  /\ Publish(s, e) \in Stream(E)
           /\ WellFormed(Publish(s, e))
           /\ Publish(s, e).log = Append(s.log, e)
           /\ Publish(s, e).at = s.at
<1> DEFINE log == Append(s.log, e)
<1>1. s.log \in Seq(E) /\ s.last \in Nat /\ s.at \in Nat /\ s.pending \in SUBSET Nat
  BY DEF Stream
<1>2. log \in Seq(E) /\ Len(log) = Len(s.log) + 1 /\ Len(s.log) \in Nat
  BY <1>1
<1>3. Publish(s, e) = [s EXCEPT !.log = log]
  BY DEF Publish
<1>. HIDE DEF log
<1>4. /\ [s EXCEPT !.log = log] \in Stream(E)
      /\ [s EXCEPT !.log = log].log = log
      /\ [s EXCEPT !.log = log].at = s.at
      /\ [s EXCEPT !.log = log].last = s.last
      /\ [s EXCEPT !.log = log].pending = s.pending
  BY <1>2 DEF Stream
<1>5. WellFormed([s EXCEPT !.log = log])
  BY <1>1, <1>2, <1>4 DEF WellFormed
<1>. QED BY <1>3, <1>4, <1>5 DEF log

(* With a message there to take, the consumer moves on by exactly one and  *)
(* stays within the log, whether the message is in its batch or a new      *)
(* batch is read.                                                          *)
LEMMA TakeLemma ==
    ASSUME NEW E, NEW s \in Stream(E), WellFormed(s), HasNext(s),
           NEW count \in Nat \ {0}
    PROVE  /\ Take(s, count) \in Stream(E)
           /\ WellFormed(Take(s, count))
           /\ Take(s, count).log = s.log
           /\ Take(s, count).at = s.at + 1
           /\ s.at + 1 \in 1 .. Len(s.log)
<1> DEFINE last == Least(s.last + count, Len(s.log))
           at == s.at + 1
           pending == s.pending \cup ((s.last + 1) .. last)
<1>1. /\ s.at \in Nat /\ s.last \in Nat /\ Len(s.log) \in Nat
      /\ s.at <= s.last /\ s.last <= Len(s.log) /\ s.at < Len(s.log)
      /\ s.pending \subseteq 1 .. s.last
  BY DEF Stream, WellFormed, HasNext
<1>2. at \in Nat /\ at \in 1 .. Len(s.log)
  BY <1>1
<1>3. CASE s.at < s.last
  <2>1. Take(s, count) = [s EXCEPT !.at = at] /\ at <= s.last
    BY <1>1, <1>3 DEF Take
  <2>. HIDE DEF at
  <2>2. /\ [s EXCEPT !.at = at] \in Stream(E)
        /\ [s EXCEPT !.at = at].log = s.log
        /\ [s EXCEPT !.at = at].at = at
        /\ [s EXCEPT !.at = at].last = s.last
        /\ [s EXCEPT !.at = at].pending = s.pending
    BY <1>2 DEF Stream
  <2>3. WellFormed([s EXCEPT !.at = at])
    BY <2>1, <2>2 DEF WellFormed
  <2>. QED
    BY <1>2, <2>1, <2>2, <2>3 DEF at
<1>4. CASE ~(s.at < s.last)
  <2>1. last \in Nat /\ s.last + 1 <= last /\ last <= Len(s.log)
    BY <1>1, <1>4 DEF Least
  <2>2. at <= last
    BY <1>1, <1>4, <2>1
  <2>3. Take(s, count) = [s EXCEPT !.at = at, !.last = last, !.pending = pending]
    BY <1>4 DEF Take
  <2>. HIDE DEF last
  <2>4. pending \subseteq 1 .. last /\ pending \in SUBSET Nat
    BY <1>1, <2>1
  <2>. HIDE DEF at, pending
  <2>. DEFINE taken == [s EXCEPT !.at = at, !.last = last, !.pending = pending]
  <2>5. /\ taken \in Stream(E) /\ taken.log = s.log /\ taken.at = at
        /\ taken.last = last /\ taken.pending = pending
    BY <1>2, <2>1, <2>4 DEF Stream
  <2>6. WellFormed(taken)
    BY <2>1, <2>2, <2>4, <2>5 DEF WellFormed
  <2>. QED
    BY <1>2, <2>3, <2>5, <2>6 DEF at
<1>. QED BY <1>3, <1>4

(* Acknowledging touches the pending ids only.                             *)
LEMMA AckLemma ==
    ASSUME NEW E, NEW s \in Stream(E), WellFormed(s)
    PROVE  /\ Ack(s) \in Stream(E)
           /\ WellFormed(Ack(s))
           /\ Ack(s).log = s.log
           /\ Ack(s).at = s.at
BY DEF Ack, Stream, WellFormed

(* A new consumer starts at or after the position of the old one.          *)
LEMMA ForgetLemma ==
    ASSUME NEW E, NEW s \in Stream(E), WellFormed(s)
    PROVE  /\ Forget(s) \in Stream(E)
           /\ WellFormed(Forget(s))
           /\ Forget(s).log = s.log
           /\ s.at <= Forget(s).at
           /\ Forget(s).at <= Len(s.log)
BY DEF Forget, Stream, WellFormed
=============================================================================
