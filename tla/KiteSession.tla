---------------------------- MODULE KiteSession -----------------------------
(***************************************************************************)
(* The daily session with the broker (src/src/auth/kite_session.py):       *)
(* callers look for the active token in the table kite_tokens, and log in  *)
(* and store a new one when there is none.  Nothing serialises them, in    *)
(* one process or in several.  The key, the user and the password are      *)
(* there.                                                                  *)
(*                                                                         *)
(* Time is counted in halves of a date: an even half is the night before   *)
(* 6 AM, the odd half that follows it the rest of that date.               *)
(***************************************************************************)
EXTENDS Integers, FiniteSets

CONSTANTS Callers,   \* those who call ensure_valid_token
          MaxHalf,   \* bound: the last half of a date
          MaxLogins, \* bound: logins
          MaxDrops,  \* bound: sessions the broker ends on its own
          ManualOtp,        \* there is neither a PIN nor a TOTP secret
          LoginAttempts,    \* of each post, retries included
          MaxLoginFailures  \* bound

ASSUME SessionAssumption ==
    /\ MaxHalf \in Nat \ {0} /\ MaxLogins \in Nat
    /\ MaxDrops \in Nat /\ MaxLoginFailures \in Nat
    /\ LoginAttempts \in Nat \ {0} /\ ManualOtp \in BOOLEAN

VARIABLES half,     \* the present half of a date
          rows,     \* the table kite_tokens
          begun,    \* storing transactions begun so far: the order of issued_at
          issued,   \* tokens the broker has issued
          accepted, \* external: the sessions the broker accepts
          ses,      \* where each caller is in ensure_valid_token
          overlap,  \* history: someone logged in beside an unfinished login
          late,     \* history: tokens stored on a later date than they were issued
          drops,    \* model only: sessions the broker has ended so far
          loginFailures \* model only

sessionVars == <<half, rows, begun, issued, accepted, ses, overlap, late, drops, loginFailures>>

NoToken == 0
Tokens  == 1 .. MaxLogins

(* day is the date of the broker's answer, until the row's expiry is       *)
(* computed.                                                               *)
Idle == [pc |-> "none", tries |-> 0, token |-> NoToken, day |-> 0, expires |-> 0, old |-> {},
         at |-> 0]

(* From the beginning of a login to the commit of its row.                 *)
LoggingIn == {"prompt", "login", "twofa", "exchange", "answered", "store", "commit"}

SessionInit ==
    /\ half = 1
    /\ rows = {} /\ begun = 0
    /\ issued = 0 /\ accepted = {}
    /\ ses = [c \in Callers |-> Idle]
    /\ overlap = FALSE /\ late = {}
    /\ drops = 0 /\ loginFailures = 0

Active == {r \in rows : r.active}

(* Faulty: the expiry is not looked at.                                    *)
ActiveTokenAnyAge ==
    IF Active = {} THEN NoToken
    ELSE (CHOOSE r \in Active : \A o \in Active : o.at <= r.at).token

(* get_active_token: the newest active row, if it has not expired.         *)
ActiveToken ==
    IF Active = {} THEN NoToken
    ELSE LET newest == CHOOSE r \in Active : \A o \in Active : o.at <= r.at
         IN  IF newest.expires <= half THEN NoToken ELSE newest.token

DateOf(h) == h \div 2

(* _next_token_expiry: 6 AM of the next date.                              *)
NextTokenExpiry == 2 * (DateOf(half) + 1) + 1

(* External: when the broker ends a session issued on a date, "~6 AM IST   *)
(* next day" (kite_session.py).                                            *)
SessionEnd(date) == 2 * date + 3

(* External: the sessions that end when a half begins.                     *)
Expired(h) == {s \in accepted : s.expires <= h}

(* ensure_valid_token is called.                                           *)
Ensure(c) ==
    /\ ses[c].pc = "none"
    /\ ses' = [ses EXCEPT ![c].pc = "lookup"]
    /\ UNCHANGED <<half, rows, begun, issued, accepted, overlap, late, drops, loginFailures>>

(* The answer of get_active_token.                                         *)
Lookup(c) ==
    /\ ses[c].pc = "lookup"
    /\ IF ActiveToken # NoToken
       THEN /\ ses' = [ses EXCEPT ![c].pc = "have", ![c].token = ActiveToken]
            /\ UNCHANGED overlap
       ELSE /\ ses' = [ses EXCEPT ![c].pc = IF ManualOtp THEN "prompt" ELSE "login"]
            /\ overlap' = (overlap \/ \E o \in Callers \ {c} :
                                         ses[o].pc \in LoggingIn)
    /\ UNCHANGED <<half, rows, begun, issued, accepted, late, drops, loginFailures>>

(* The operator types a code at the prompt, six digits or something else.  *)
(* input() has no timeout.                                                 *)
CodeTyped(c) ==
    /\ ses[c].pc = "prompt"
    /\ \/ ses' = [ses EXCEPT ![c].pc = "login"]
       \/ ses' = [ses EXCEPT ![c] = [Idle EXCEPT !.pc = "failed"]]
    /\ UNCHANGED <<half, rows, begun, issued, accepted, overlap, late, drops, loginFailures>>

(* The post of user and password is answered with a request_id.            *)
KiteLoginRequest(c) ==
    /\ ses[c].pc = "login"
    /\ ses' = [ses EXCEPT ![c].pc = "twofa", ![c].tries = 0]
    /\ UNCHANGED <<half, rows, begun, issued, accepted, overlap, late, drops, loginFailures>>

(* The post of the second factor succeeds.                                 *)
KiteTwofa(c) ==
    /\ ses[c].pc = "twofa"
    /\ ses' = [ses EXCEPT ![c].pc = "exchange", ![c].tries = 0]
    /\ UNCHANGED <<half, rows, begun, issued, accepted, overlap, late, drops, loginFailures>>

(* One of those posts fails, for whatever reason: it is repeated as it is, *)
(* and the last failure is raised.                                         *)
PostFails(c) ==
    /\ ses[c].pc \in {"login", "twofa"}
    /\ loginFailures < MaxLoginFailures
    /\ loginFailures' = loginFailures + 1
    /\ ses' = IF ses[c].tries + 1 < LoginAttempts
              THEN [ses EXCEPT ![c].tries = @ + 1]
              ELSE [ses EXCEPT ![c] = [Idle EXCEPT !.pc = "failed"]]
    /\ UNCHANGED <<half, rows, begun, issued, accepted, overlap, late, drops>>

(* The redirects end in a request token, and the broker exchanges it for   *)
(* an access token.  Whether it keeps the sessions it had is its own       *)
(* affair.                                                                 *)
Exchange(c) ==
    /\ ses[c].pc = "exchange"
    /\ issued < MaxLogins
    /\ issued' = issued + 1
    /\ \E kept \in {accepted, {}} :
          accepted' = kept \cup {[token |-> issued + 1, expires |-> SessionEnd(DateOf(half))]}
    /\ ses' = [ses EXCEPT ![c].pc = "answered", ![c].token = issued + 1, ![c].day = DateOf(half)]
    /\ UNCHANGED <<half, rows, begun, overlap, late, drops, loginFailures>>

(* generate_session returns, and store_token computes the expiry of the    *)
(* row from the time it is by now.                                         *)
StoreToken(c) ==
    /\ ses[c].pc = "answered"
    /\ ses' = [ses EXCEPT ![c].pc = "store", ![c].expires = NextTokenExpiry, ![c].day = 0]
    /\ late' = IF DateOf(half) # ses[c].day THEN late \cup {ses[c].token} ELSE late
    /\ UNCHANGED <<half, rows, begun, issued, accepted, overlap, drops, loginFailures>>

(* store_token: the UPDATE, which sees the rows committed before it.       *)
StoreBegin(c) ==
    /\ ses[c].pc = "store"
    /\ begun' = begun + 1
    /\ ses' = [ses EXCEPT ![c].pc = "commit", ![c].at = begun + 1,
                          ![c].old = {r.token : r \in Active}]
    /\ UNCHANGED <<half, rows, issued, accepted, overlap, late, drops, loginFailures>>

(* Faulty: the new row is inserted before the UPDATE that retires the old. *)
AfterStoreSwapped(s) ==
    {[r EXCEPT !.active = FALSE] : r \in rows}
    \cup {[token |-> s.token, at |-> s.at, expires |-> s.expires, active |-> FALSE]}

(* The table once a storing transaction has committed.                     *)
AfterStore(s) ==
    {[r EXCEPT !.active = @ /\ r.token \notin s.old] : r \in rows}
    \cup {[token |-> s.token, at |-> s.at, expires |-> s.expires, active |-> TRUE]}

StoreCommit(c) ==
    /\ ses[c].pc = "commit"
    /\ rows' = AfterStore(ses[c])
    /\ ses' = [ses EXCEPT ![c] = [Idle EXCEPT !.pc = "have", !.token = ses[c].token]]
    /\ UNCHANGED <<half, begun, issued, accepted, overlap, late, drops, loginFailures>>

(* The redirects lead nowhere, the exchange raises or its answer is lost,  *)
(* or the table cannot be written: nothing is retried.                     *)
LoginFails(c) ==
    /\ ses[c].pc \in {"exchange", "answered", "store", "commit"}
    /\ loginFailures < MaxLoginFailures \/ (ses[c].pc = "exchange" /\ issued = MaxLogins)
    /\ loginFailures' = IF loginFailures < MaxLoginFailures THEN loginFailures + 1 ELSE loginFailures
    /\ ses' = [ses EXCEPT ![c] = [Idle EXCEPT !.pc = "failed"]]
    /\ UNCHANGED <<half, rows, begun, issued, accepted, overlap, late, drops>>

(* The caller goes on with what ensure_valid_token gave it.                *)
Leave(c) ==
    /\ ses[c].pc \in {"have", "failed"}
    /\ ses' = [ses EXCEPT ![c] = Idle]
    /\ UNCHANGED <<half, rows, begun, issued, accepted, overlap, late, drops, loginFailures>>

(* External: the broker ends a session before its time.                    *)
BrokerDrops ==
    /\ drops < MaxDrops /\ accepted # {}
    /\ drops' = drops + 1
    /\ \E s \in accepted : accepted' = accepted \ {s}
    /\ UNCHANGED <<half, rows, begun, issued, ses, overlap, late, loginFailures>>

(* Midnight, or 6 AM.                                                      *)
HalfPasses ==
    /\ half < MaxHalf
    /\ half' = half + 1
    /\ accepted' = accepted \ Expired(half + 1)
    /\ UNCHANGED <<rows, begun, issued, ses, overlap, late, drops, loginFailures>>

SessionStep(c) ==
    \/ Lookup(c) \/ CodeTyped(c)
    \/ KiteLoginRequest(c) \/ KiteTwofa(c) \/ PostFails(c)
    \/ Exchange(c) \/ StoreToken(c) \/ StoreBegin(c) \/ StoreCommit(c) \/ LoginFails(c)
-----------------------------------------------------------------------------
SessionTypeOK ==
    /\ half \in 1 .. MaxHalf
    /\ \A r \in rows : r \in [token : Tokens, at : 1 .. begun, expires : Nat, active : BOOLEAN]
    /\ begun \in 0 .. issued /\ issued \in 0 .. MaxLogins
    /\ \A s \in accepted : s.token \in 1 .. issued
    /\ \A c \in Callers :
          /\ ses[c].pc \in {"none", "lookup", "have", "failed"} \cup LoggingIn
          /\ ses[c].tries \in 0 .. LoginAttempts - 1
          /\ ses[c].pc \in {"answered", "store", "commit", "have"} => ses[c].token \in 1 .. issued
          /\ ses[c].old \subseteq Tokens
    /\ overlap \in BOOLEAN /\ late \subseteq 1 .. issued

(* A session is shared: callers that do not log in beside one another      *)
(* leave one row for each expiry, and one active row at most.              *)
SessionsAreShared ==
    ~overlap => /\ \A r, o \in rows : r.expires = o.expires => r = o
                /\ Cardinality(Active) <= 1

(* The token that get_active_token hands out is one the broker accepts,    *)
(* unless the broker ended that session itself, or two callers logged in   *)
(* beside one another (then the newest row may be the older session), or   *)
(* midnight came between the broker's answer and the computation of the    *)
(* expiry (then the row outlives the session by a day).                    *)
ActiveTokenIsLive ==
    ActiveToken # NoToken /\ ActiveToken \notin late /\ drops = 0 /\ ~overlap =>
        \E s \in accepted : s.token = ActiveToken
=============================================================================
