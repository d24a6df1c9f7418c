--------------------------- MODULE OptionSelector ---------------------------
(***************************************************************************)
(* The choice of an option contract for a signal                           *)
(* (src/src/options/selector.py) from the instrument catalogue, which the  *)
(* worker refresh_instruments replaces as a whole                          *)
(* (src/src/broker/instrument_catalog.py).  A selection reads the          *)
(* catalogue in three transactions and the ticks in a fourth; a            *)
(* replacement can come between any two of them.                           *)
(*                                                                         *)
(* An expiry is the midnight that begins its date, so at any time of day d *)
(* the expiry of date e is ahead exactly when e > d, and e - d - 1 whole   *)
(* days are left.                                                          *)
(***************************************************************************)
EXTENDS Integers, FiniteSets

CONSTANTS Expiries,    \* dates, as days of the model
          Horizon,     \* how many days ahead the broker lists an expiry
          Strikes,     \* of every chain
          Spots,       \* prices a tick can have
          Preference,  \* expiry_preference
          SwitchDays,  \* switch_to_next_week_days_left
          MaxDay       \* bound

ASSUME SelectorAssumption ==
    /\ Expiries \subseteq Nat /\ Horizon \in Nat /\ SwitchDays \in Nat /\ MaxDay \in Nat
    /\ Strikes \subseteq Nat \ {0} /\ Spots \subseteq Nat \ {0}

VARIABLES today,  \* the date
          cat,    \* the table instruments, and the day of the dump it holds
          ref,    \* the refresh worker, with the dump it has fetched
          sel     \* the selection under way, or the last one

selectorVars == <<today, cat, ref, sel>>

NoExpiry == -1
Types    == {"CE", "PE"}
Rows     == [expiry : Expiries, strike : Strikes, type : Types]

NoSelection == [pc |-> "idle", type |-> "CE", day |-> 0, spot |-> 0, expiry |-> NoExpiry,
                dump |-> NoExpiry, strike |-> 0, outcome |-> "none"]

SelectorInit ==
    /\ today = 0
    /\ cat = [rows |-> {}, day |-> NoExpiry]
    /\ ref = [rows |-> {}, day |-> NoExpiry]
    /\ sel = NoSelection

(* External: what the broker lists on a day, an expiry to its last day.    *)
Listed(d) == {r \in Rows : r.expiry \in d .. d + Horizon}

(* refresh_instrument_catalog: the dump is fetched ...                     *)
RefreshFetch ==
    /\ ref.rows = {}
    /\ ref' = [rows |-> Listed(today), day |-> today]
    /\ UNCHANGED <<today, cat, sel>>

(* Faulty: the old rows are deleted in a transaction of their own.         *)
RefreshInTwo ==
    /\ ref.rows # {}
    /\ IF cat.rows # {} THEN cat' = [cat EXCEPT !.rows = {}] /\ UNCHANGED ref
       ELSE cat' = ref /\ ref' = [ref EXCEPT !.rows = {}]
    /\ UNCHANGED <<today, sel>>

(* ... and takes the place of the old rows in one transaction.             *)
RefreshCommit ==
    /\ ref.rows # {}
    /\ cat' = ref
    /\ ref' = [ref EXCEPT !.rows = {}]
    /\ UNCHANGED <<today, sel>>

(* The transaction fails, or the worker ends: the old rows stay.           *)
RefreshFails ==
    /\ ref.rows # {}
    /\ ref' = [ref EXCEPT !.rows = {}]
    /\ UNCHANGED <<today, cat, sel>>

-----------------------------------------------------------------------------
(* select_option_for_signal.                                               *)

Nearest(es) == CHOOSE e \in es : \A o \in es : e <= o

(* Faulty: today's expiry still counts.                                    *)
PickExpiryToday(es) ==
    LET future == {e \in es : e >= today}
        next   == future \ {Nearest(future)}
    IN  IF future = {} THEN NoExpiry
        ELSE IF next # {} /\ Nearest(future) - today < SwitchDays - 1
             THEN Nearest(next) ELSE Nearest(future)

(* Faulty: takes the difference of the dates for the days left.            *)
PickExpiryByDate(es) ==
    LET future == {e \in es : e > today}
        next   == future \ {Nearest(future)}
    IN  IF future = {} THEN NoExpiry
        ELSE IF next # {} /\ Nearest(future) - today < SwitchDays
             THEN Nearest(next) ELSE Nearest(future)

(* pick_expiry: the nearest one ahead, or the one after it if that is too  *)
(* near or the next week is preferred.                                     *)
PickExpiry(es) ==
    LET future == {e \in es : e > today}
        next   == future \ {Nearest(future)}
        skip   == \/ Preference = "current_week" /\ Nearest(future) - today - 1 < SwitchDays
                  \/ Preference = "next_week"
    IN  IF future = {} THEN NoExpiry
        ELSE IF next # {} /\ skip THEN Nearest(next) ELSE Nearest(future)

Distance(a, b) == IF a >= b THEN a - b ELSE b - a

(* pick_strike: the closest to the spot, of two the lower, which comes     *)
(* first in the chain.                                                     *)
PickStrike(chain, spot) ==
    CHOOSE r \in chain : \A o \in chain :
        \/ Distance(r.strike, spot) < Distance(o.strike, spot)
        \/ Distance(r.strike, spot) = Distance(o.strike, spot) /\ r.strike <= o.strike

Ended(outcome) == [sel EXCEPT !.pc = "idle", !.outcome = outcome]

Select(type) ==
    /\ sel.pc = "idle"
    /\ sel' = [NoSelection EXCEPT !.pc = "underlying", !.type = type, !.day = today]
    /\ UNCHANGED <<today, cat, ref>>

(* find_underlying_token: every dump lists the index.                      *)
FindUnderlying ==
    /\ sel.pc = "underlying"
    /\ sel' = IF cat.rows = {} THEN Ended("no underlying") ELSE [sel EXCEPT !.pc = "spot"]
    /\ UNCHANGED <<today, cat, ref>>

(* get_spot_price: the last tick, if there is one, however old.            *)
GetSpot ==
    /\ sel.pc = "spot"
    /\ \/ sel' = Ended("no spot")
       \/ \E s \in Spots : sel' = [sel EXCEPT !.pc = "expiries", !.spot = s]
    /\ UNCHANGED <<today, cat, ref>>

(* get_distinct_expiries and pick_expiry.                                  *)
GetExpiries ==
    /\ sel.pc = "expiries"
    /\ LET e == PickExpiry({r.expiry : r \in cat.rows})
       IN  sel' = IF e = NoExpiry THEN Ended("no expiry")
                  ELSE [sel EXCEPT !.pc = "chain", !.expiry = e, !.dump = cat.day]
    /\ UNCHANGED <<today, cat, ref>>

(* find_option_chain and pick_strike; the contract goes to the engine.     *)
GetChain ==
    /\ sel.pc = "chain"
    /\ LET chain == {r \in cat.rows : r.expiry = sel.expiry /\ r.type = sel.type}
       IN  sel' = IF chain = {} THEN Ended("no chain")
                  ELSE [Ended("picked") EXCEPT !.strike = PickStrike(chain, sel.spot).strike]
    /\ UNCHANGED <<today, cat, ref>>

(* One of the transactions raises.                                         *)
SelectFails ==
    /\ sel.pc # "idle"
    /\ sel' = Ended("raised")
    /\ UNCHANGED <<today, cat, ref>>

(* A selection takes less than a second of the trading hours.              *)
DayPasses ==
    /\ today < MaxDay /\ sel.pc = "idle"
    /\ today' = today + 1
    /\ UNCHANGED <<cat, ref, sel>>

SelectorNext ==
    \/ RefreshFetch \/ RefreshCommit \/ RefreshFails
    \/ \E type \in Types : Select(type)
    \/ FindUnderlying \/ GetSpot \/ GetExpiries \/ GetChain \/ SelectFails
    \/ DayPasses

SelectorSpec == SelectorInit /\ [][SelectorNext]_selectorVars
-----------------------------------------------------------------------------
SelectorTypeOK ==
    /\ today \in 0 .. MaxDay
    /\ \A c \in {cat, ref} : c.rows \subseteq Rows /\ c.day \in -1 .. today
    /\ sel.pc \in {"idle", "underlying", "spot", "expiries", "chain"}
    /\ sel.spot \in Spots \cup {0} /\ sel.day \in 0 .. today
    /\ sel.expiry \in Expiries \cup {NoExpiry} /\ (sel.expiry # NoExpiry => sel.expiry > sel.day)
    /\ sel.outcome \in {"none", "picked", "no underlying", "no spot", "no expiry", "no chain",
                        "raised"}
    /\ sel.outcome = "picked" <=> sel.strike \in Strikes

(* A selection that has found an expiry finds a contract: the catalogue is *)
(* never seen half replaced, and a newer dump still lists an expiry that   *)
(* an older one listed and that is ahead.                                  *)
ChainIsThere == sel.outcome # "no chain"

(* The expiries are far enough apart, and while one is too near the broker *)
(* lists the next one already: weekly options, and a preference that is    *)
(* one of the two there are.                                               *)
ExpiriesAreSpaced ==
    /\ Preference \in {"current_week", "next_week"}
    /\ \A e, n \in Expiries : e < n => n - e >= SwitchDays
    /\ \A e \in Expiries, d \in 0 .. MaxDay :
          d < e /\ e - d - 1 < SwitchDays => \E n \in Expiries : e < n /\ n <= d + Horizon

(* "Rolls to next when too close": on a dump of the day a contract with    *)
(* too few days left is never chosen; on an older one it may be the only   *)
(* one left.                                                               *)
FreshDumpRolls ==
    sel.expiry # NoExpiry /\ sel.dump = sel.day => sel.expiry - sel.day - 1 >= SwitchDays
=============================================================================
