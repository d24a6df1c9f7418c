---------------------------- MODULE LedgerProofs ----------------------------
(***************************************************************************)
(* The accounts of the trading path: every fill that no trade records,     *)
(* every exit order that closed nothing and every close missing from the   *)
(* daily aggregate was paid for by a failure; and without a failure the    *)
(* aggregates add up to the trades.                                        *)
(*                                                                         *)
(* The first part is about sums.  Total is a recursive function, and what  *)
(* takes the place of induction in its lemmas is LeastNat.                 *)
(***************************************************************************)
EXTENDS LifecycleProofs

(* g holds the partial sums of f up to n.                                  *)
PartialSums(g, f, n) ==
    g = [k \in 0 .. n |-> f[k] + (IF k = 0 THEN 0 ELSE g[k - 1])]

IsSummable(f, n) == n \in Nat /\ \A k \in 0 .. n : f[k] \in Int

(* Any two functions of partial sums agree where both are defined, and     *)
(* their values are integers.                                              *)
LEMMA PartialSumsAgree ==
    ASSUME NEW f, NEW n, NEW m, NEW g, NEW h,
           IsSummable(f, n), m \in 0 .. n,
           PartialSums(g, f, n), PartialSums(h, f, m)
    PROVE  \A k \in 0 .. m : g[k] = h[k] /\ g[k] \in Int
<1>. DEFINE T == {k \in 0 .. m : ~(g[k] = h[k] /\ g[k] \in Int)}
<1>0. n \in Nat /\ m \in Nat /\ m <= n
  BY DEF IsSummable
<1>1. SUFFICES ASSUME T # {} PROVE FALSE
  OBVIOUS
<1>2. PICK k \in T : \A j \in T : k <= j
  <2>1. T \subseteq Nat
    BY <1>0
  <2>. QED
    BY <1>1, <2>1, LeastNat
<1>3. k \in 0 .. m /\ k \in Nat /\ k \in 0 .. n
  BY <1>0
<1>4. /\ g[k] = f[k] + (IF k = 0 THEN 0 ELSE g[k - 1])
      /\ h[k] = f[k] + (IF k = 0 THEN 0 ELSE h[k - 1])
      /\ f[k] \in Int
  BY <1>3 DEF PartialSums, IsSummable
<1>5. CASE k = 0
  BY <1>4, <1>5
<1>6. CASE k # 0
  <2>1. k - 1 \in 0 .. m /\ ~(k <= k - 1)
    BY <1>0, <1>3, <1>6
  <2>2. k - 1 \notin T
    BY <1>2, <2>1
  <2>. QED
    BY <1>4, <1>6, <2>1, <2>2
<1>. QED
  BY <1>5, <1>6

(* Partial sums exist.                                                     *)
LEMMA PartialSumsExist ==
    ASSUME NEW f, NEW n, IsSummable(f, n)
    PROVE  \E g : PartialSums(g, f, n)
<1>. DEFINE T == {m \in 0 .. n : ~\E g : PartialSums(g, f, m)}
<1>0. n \in Nat
  BY DEF IsSummable
<1>1. SUFFICES ASSUME T # {} PROVE FALSE
  BY <1>0
<1>2. PICK m \in T : \A j \in T : m <= j
  <2>1. T \subseteq Nat
    BY <1>0
  <2>. QED
    BY <1>1, <2>1, LeastNat
<1>3. m \in Nat /\ m <= n
  BY <1>0
<1>4. CASE m = 0
  <2>. DEFINE g == [k \in 0 .. m |-> f[k] + 0]
  <2>1. g = [k \in 0 .. m |-> f[k] + (IF k = 0 THEN 0 ELSE g[k - 1])]
    BY <1>4
  <2>2. PartialSums(g, f, m)
    BY <2>1 DEF PartialSums
  <2>. QED
    BY <2>2
<1>5. CASE m # 0
  <2>1. m - 1 \in 0 .. n /\ ~(m <= m - 1)
    BY <1>0, <1>3, <1>5
  <2>2. PICK h : PartialSums(h, f, m - 1)
    BY <1>2, <2>1
  <2>. DEFINE g == [k \in 0 .. m |-> IF k = m THEN f[m] + h[m - 1] ELSE h[k]]
  <2>3. ASSUME NEW k \in 0 .. m
        PROVE  g[k] = f[k] + (IF k = 0 THEN 0 ELSE g[k - 1])
    <3>1. CASE k = m
      BY <3>1, <1>3, <1>5
    <3>2. CASE k # m
      <4>1. k \in 0 .. (m - 1)
        BY <3>2, <1>3
      <4>2. h[k] = f[k] + (IF k = 0 THEN 0 ELSE h[k - 1])
        BY <2>2, <4>1 DEF PartialSums
      <4>3. k # 0 => k - 1 \in 0 .. m /\ k - 1 # m
        BY <1>3, <4>1
      <4>. QED
        BY <4>2, <4>3, <3>2
    <3>. QED
      BY <3>1, <3>2
  <2>4. g = [k \in 0 .. m |-> f[k] + (IF k = 0 THEN 0 ELSE g[k - 1])]
    <3>1. g = [k \in 0 .. m |-> g[k]]
      OBVIOUS
    <3>. HIDE DEF g
    <3>. QED
      BY <2>3, <3>1
  <2>5. PartialSums(g, f, m)
    BY <2>4 DEF PartialSums
  <2>. QED
    BY <2>5
<1>. QED
  BY <1>4, <1>5

(* What Total returns is the last of the partial sums.                     *)
LEMMA TotalIsPartialSum ==
    ASSUME NEW f, NEW n, IsSummable(f, n)
    PROVE  \E g : PartialSums(g, f, n) /\ Total(f, n) = g[n]
<1>. DEFINE g == CHOOSE s : s = [k \in 0 .. n |-> f[k] + (IF k = 0 THEN 0 ELSE s[k - 1])]
<1>1. Total(f, n) = g[n]
  BY DEF Total
<1>2. \E s : s = [k \in 0 .. n |-> f[k] + (IF k = 0 THEN 0 ELSE s[k - 1])]
  BY PartialSumsExist DEF PartialSums
<1>3. PartialSums(g, f, n)
  <2>1. g = [k \in 0 .. n |-> f[k] + (IF k = 0 THEN 0 ELSE g[k - 1])]
    BY <1>2
  <2>. QED
    BY <2>1 DEF PartialSums
<1>. QED
  BY <1>1, <1>3

(* Total is an integer, and it is what its definition says it is.          *)
LEMMA TotalStep ==
    ASSUME NEW f, NEW n, IsSummable(f, n)
    PROVE  /\ Total(f, n) \in Int
           /\ Total(f, 0) = f[0]
           /\ n # 0 => Total(f, n) = f[n] + Total(f, n - 1)
<1>0. n \in Nat /\ 0 \in 0 .. n /\ n \in 0 .. n
  BY DEF IsSummable
<1>1. PICK g : PartialSums(g, f, n) /\ Total(f, n) = g[n]
  BY TotalIsPartialSum
<1>2. Total(f, n) \in Int
  BY <1>0, <1>1, PartialSumsAgree
<1>3. Total(f, 0) = f[0]
  <2>1. IsSummable(f, 0)
    BY <1>0 DEF IsSummable
  <2>2. PICK h : PartialSums(h, f, 0) /\ Total(f, 0) = h[0]
    BY <2>1, TotalIsPartialSum
  <2>3. h[0] = f[0] + 0
    BY <2>2 DEF PartialSums
  <2>. QED
    BY <2>1, <2>2, <2>3 DEF IsSummable
<1>4. ASSUME n # 0 PROVE Total(f, n) = f[n] + Total(f, n - 1)
  <2>1. IsSummable(f, n - 1) /\ n - 1 \in 0 .. n /\ n - 1 \in 0 .. (n - 1)
    BY <1>0, <1>4 DEF IsSummable
  <2>2. PICK h : PartialSums(h, f, n - 1) /\ Total(f, n - 1) = h[n - 1]
    BY <2>1, TotalIsPartialSum
  <2>3. g[n - 1] = h[n - 1]
    BY <1>1, <2>1, <2>2, PartialSumsAgree
  <2>4. g[n] = f[n] + g[n - 1]
    BY <1>0, <1>1, <1>4 DEF PartialSums
  <2>. QED
    BY <1>1, <2>2, <2>3, <2>4
<1>. QED
  BY <1>2, <1>3, <1>4

(* Changing one number of a sequence changes its sum by the difference.    *)
LEMMA TotalChange ==
    ASSUME NEW f, NEW g, NEW n, NEW i, NEW delta \in Int,
           IsSummable(f, n), IsSummable(g, n), i \in 0 .. n,
           \A k \in 0 .. n : k # i => g[k] = f[k],
           g[i] = f[i] + delta
    PROVE  Total(g, n) = Total(f, n) + delta
<1>. DEFINE Shift(m) == IF i <= m THEN delta ELSE 0
           T == {m \in 0 .. n : Total(g, m) # Total(f, m) + Shift(m)}
<1>0. n \in Nat /\ i \in Nat /\ i <= n
  BY DEF IsSummable
<1>1. SUFFICES ASSUME T # {} PROVE FALSE
  BY <1>0
<1>2. PICK m \in T : \A j \in T : m <= j
  <2>1. T \subseteq Nat
    BY <1>0
  <2>. QED
    BY <1>1, <2>1, LeastNat
<1>3. m \in Nat /\ m \in 0 .. n /\ IsSummable(f, m) /\ IsSummable(g, m)
  BY <1>0 DEF IsSummable
<1>4. /\ f[m] \in Int /\ g[m] \in Int
      /\ g[m] = IF m = i THEN f[m] + delta ELSE f[m]
  BY <1>3 DEF IsSummable
<1>5. CASE m = 0
  <2>1. Total(g, m) = g[m] /\ Total(f, m) = f[m]
    BY <1>3, <1>5, TotalStep
  <2>2. i <= m <=> m = i
    BY <1>0, <1>5
  <2>. QED
    BY <1>4, <2>1, <2>2
<1>6. CASE m # 0
  <2>1. m - 1 \in 0 .. n /\ ~(m <= m - 1) /\ m - 1 \in Nat
    BY <1>0, <1>3, <1>6
  <2>2. Total(g, m - 1) = Total(f, m - 1) + Shift(m - 1)
    BY <1>2, <2>1
  <2>3. /\ Total(g, m) = g[m] + Total(g, m - 1)
        /\ Total(f, m) = f[m] + Total(f, m - 1)
    BY <1>3, <1>6, TotalStep
  <2>4. Total(f, m - 1) \in Int
    <3>1. IsSummable(f, m - 1)
      BY <1>3, <2>1 DEF IsSummable
    <3>. QED
      BY <3>1, TotalStep
  <2>5. Shift(m) = Shift(m - 1) + (IF m = i THEN delta ELSE 0)
    BY <1>0, <1>3
  <2>. QED
    BY <1>4, <2>2, <2>3, <2>4, <2>5, <1>3
<1>. QED
  BY <1>5, <1>6

-----------------------------------------------------------------------------
(* The quantities of the accounts.                                         *)
Fills    == Cardinality(OrphanFills)
Extras   == Cardinality(OrphanExits)
Closes   == Cardinality(Closed)
NetSum   == Total(DayNets, MaxTime)
TradeSum == Total(TradeNets, Len(trades))

(* Each of them is a number.                                               *)
AccountsTyped ==
    /\ IsFiniteSet(OrphanFills) /\ IsFiniteSet(OrphanExits) /\ IsFiniteSet(Closed)
    /\ Fills \in Nat /\ Extras \in Nat /\ Closes \in Nat
    /\ Booked \in Int /\ NetSum \in Int /\ TradeSum \in Int
    /\ IsSummable(DayCounts, MaxTime) /\ IsSummable(DayNets, MaxTime)
    /\ IsSummable(TradeNets, Len(trades))
    /\ faults \in Nat

(* They are numbers.                                                       *)
LEMMA AccountTypes == TypeOK => AccountsTyped
<1>. SUFFICES ASSUME TypeOK PROVE AccountsTyped
  OBVIOUS
<1>1. /\ DOMAIN orders = 1 .. Len(orders) /\ Len(orders) \in Nat
      /\ DOMAIN trades = 1 .. Len(trades) /\ Len(trades) \in Nat
      /\ faults \in Nat
      /\ trades \in Seq(TradeRow) /\ dailyPnl \in [Days -> DailyRow]
  BY StateAssumption DEF TypeOK, SharedTypeOK, JournalTypeOK
<1>2. /\ IsFiniteSet(1 .. Len(orders)) /\ IsFiniteSet(1 .. Len(trades))
  BY <1>1, FS_Interval
<1>3. /\ IsFiniteSet(OrphanFills) /\ IsFiniteSet(OrphanExits) /\ IsFiniteSet(Closed)
  <2>1. /\ OrphanFills \in SUBSET (1 .. Len(orders)) /\ OrphanExits \in SUBSET (1 .. Len(orders))
        /\ Closed \in SUBSET (1 .. Len(trades))
    BY <1>1 DEF OrphanFills, OrphanExits, Entries, Exits, Closed
  <2>. QED
    BY <1>2, <2>1, FS_Subset
<1>4. /\ Fills \in Nat /\ Extras \in Nat /\ Closes \in Nat
  BY <1>3, FS_CardinalityType DEF Fills, Extras, Closes
<1>5. IsSummable(DayCounts, MaxTime) /\ IsSummable(DayNets, MaxTime)
  <2>1. \A d \in 0 .. MaxTime : dailyPnl[d].count \in Int /\ dailyPnl[d].net \in Int
    <3>1. \A d \in 0 .. MaxTime : dailyPnl[d] \in DailyRow
      BY <1>1 DEF Days
    <3>. QED
      BY <3>1 DEF DailyRow
  <2>. QED
    BY <2>1, TimeAssumption DEF IsSummable, DayCounts, DayNets, Days
<1>6. IsSummable(TradeNets, Len(trades))
  <2>1. \A k \in 1 .. Len(trades) : trades[k].pnl \in Int
    <3>1. \A k \in 1 .. Len(trades) : trades[k] \in TradeRow
      BY <1>1
    <3>. QED
      BY <3>1 DEF TradeRow
  <2>. QED
    BY <1>1, <2>1 DEF IsSummable, TradeNets
<1>7. Booked \in Int /\ NetSum \in Int /\ TradeSum \in Int
  BY <1>5, <1>6, TotalStep DEF Booked, NetSum, TradeSum
<1>. QED
  BY <1>1, <1>3, <1>4, <1>5, <1>6, <1>7 DEF AccountsTyped

(* After a step, too.                                                      *)
LEMMA AccountTypesNext == TypeOK' => AccountsTyped'
BY AccountTypes, PTL

-----------------------------------------------------------------------------
(* What each transaction does to the quantities.                           *)

FillsKept   == Fills' = Fills
ExitsKept   == Extras' = Extras /\ Closes' = Closes
SumsKept    == Booked' = Booked /\ NetSum' = NetSum
TradesKept  == TradeSum' = TradeSum

(* Each quantity is read off some of the tables only.                      *)
LEMMA TablesKept ==
    /\ UNCHANGED <<orders, trades>> => FillsKept /\ ExitsKept
    /\ UNCHANGED trades => TradesKept
    /\ UNCHANGED dailyPnl => SumsKept
BY DEF FillsKept, ExitsKept, SumsKept, TradesKept, Fills, Extras, Closes, NetSum, TradeSum,
   Booked, OrphanFills, OrphanExits, Entries, Exits, Closed, DayCounts, DayNets, TradeNets

(* The insertion of an entry order changes none of them.                   *)
LEMMA InsertCounts ==
    ASSUME IndInv, ExecInsert
    PROVE  FillsKept /\ ExitsKept /\ SumsKept /\ TradesKept
<1>1. PICK row : row = Len(orders) + 1
  OBVIOUS
<1>2. /\ UNCHANGED trades
      /\ row \notin DOMAIN orders /\ DOMAIN orders' = DOMAIN orders \cup {row}
      /\ \A i \in DOMAIN orders : orders'[i] = orders[i]
      /\ orders'[row].side = "BUY" /\ orders'[row].status = "PENDING"
  BY <1>1, WhatInsertDoes
<1>3. OrphanFills' = OrphanFills /\ OrphanExits' = OrphanExits /\ Closed' = Closed
  BY <1>2 DEF OrphanFills, OrphanExits, Entries, Exits, Closed
<1>4. UNCHANGED dailyPnl
  BY DEF ExecInsert
<1>. QED
  BY <1>2, <1>3, <1>4, TablesKept DEF FillsKept, ExitsKept, Fills, Extras, Closes

(* A fill is at most one more entry that no trade records.                 *)
LEMMA FillCounts ==
    ASSUME IndInv, ExecFill
    PROVE  Fills' <= Fills + 1 /\ ExitsKept /\ SumsKept /\ TradesKept
<1>1. PICK row : row = exec.row
  OBVIOUS
<1>2. /\ UNCHANGED trades
      /\ row \in Entries /\ DOMAIN orders' = DOMAIN orders
      /\ \A i \in DOMAIN orders :
            /\ orders'[i].side = orders[i].side
            /\ orders'[i].status = IF i = row THEN "COMPLETE" ELSE orders[i].status
      /\ \A k \in DOMAIN trades : trades[k].entry # row
  BY <1>1, WhatFillDoes
<1>3. /\ OrphanFills' = OrphanFills \cup {row}
      /\ OrphanExits' = OrphanExits /\ Closed' = Closed
  BY <1>1, <1>2 DEF OrphanFills, OrphanExits, Entries, Exits, Closed
<1>4. Fills' <= Fills + 1
  <2>1. IsFiniteSet(OrphanFills) /\ Fills \in Nat
    BY AccountTypes DEF IndInv, AccountsTyped
  <2>. QED
    BY <1>3, <2>1, FS_AddElement DEF Fills
<1>5. UNCHANGED dailyPnl
  BY DEF ExecFill
<1>. QED
  BY <1>2, <1>3, <1>4, <1>5, TablesKept DEF ExitsKept, Extras, Closes

(* A trade opened takes one off, and adds a result of 0 to the trades.     *)
LEMMA OpenCounts ==
    ASSUME IndInv, TypeOK', ExecOpen
    PROVE  Fills' = Fills - 1 /\ ExitsKept /\ SumsKept /\ TradesKept
<1>1. PICK row : row = exec.row
  OBVIOUS
<1>2. PICK n : n = Len(trades)
  OBVIOUS
<1>3. /\ UNCHANGED orders
      /\ n \in Nat /\ DOMAIN trades = 1 .. n /\ Len(trades') = n + 1
      /\ DOMAIN trades' = DOMAIN trades \cup {n + 1} /\ n + 1 \notin DOMAIN trades
      /\ \A k \in DOMAIN trades : trades'[k] = trades[k]
      /\ trades'[n + 1].entry = row /\ trades'[n + 1].exit = 0 /\ trades'[n + 1].pnl = 0
      /\ row \in Entries /\ orders[row].status = "COMPLETE"
      /\ \A k \in DOMAIN trades : trades[k].entry # row
  BY <1>1, <1>2, WhatOpenDoes
<1>4. Closed' = Closed
  BY <1>3 DEF Closed
<1>5. /\ OrphanFills' = OrphanFills \ {row} /\ row \in OrphanFills
      /\ OrphanExits' = OrphanExits
  <2>1. OrphanExits' = OrphanExits
    BY <1>3, <1>4 DEF OrphanExits, Exits, Closed
  <2>2. row \in OrphanFills
    BY <1>3 DEF OrphanFills
  <2>3. OrphanFills' = OrphanFills \ {row}
    BY <1>3 DEF OrphanFills, Entries
  <2>. QED
    BY <2>1, <2>2, <2>3
<1>6. Fills' = Fills - 1 /\ ExitsKept
  BY <1>4, <1>5, AccountTypes, FS_RemoveElement DEF IndInv, AccountsTyped, ExitsKept, Fills,
     Extras, Closes
<1>7. SumsKept
  BY TablesKept DEF ExecOpen
<1>8. TradesKept
  <2>. PICK f : f = TradeNets
    OBVIOUS
  <2>. PICK g : g = TradeNets'
    OBVIOUS
  <2>1. /\ IsSummable(f, n) /\ IsSummable(g, n + 1)
        /\ TradeSum = Total(f, n) /\ TradeSum' = Total(g, n + 1)
    BY <1>2, <1>3, AccountTypes, AccountTypesNext DEF IndInv, AccountsTyped, TradeSum
  <2>2. /\ \A k \in 0 .. n : g[k] = f[k]
        /\ g[n + 1] = 0
    <3>1. 0 .. n \subseteq 0 .. n + 1 /\ n + 1 \in 0 .. n + 1 /\ n + 1 # 0
      BY <1>3
    <3>. QED
      BY <1>2, <1>3, <3>1 DEF TradeNets
  <2>3. Total(g, n) = Total(f, n) + 0
    <3>1. IsSummable(g, n) /\ 0 \in 0 .. n /\ g[0] = f[0] + 0
      BY <1>3, <2>1, <2>2 DEF IsSummable
    <3>. QED
      BY <2>1, <2>2, <3>1, TotalChange
  <2>4. Total(g, n + 1) = g[n + 1] + Total(g, n)
    <3>1. n + 1 # 0 /\ (n + 1) - 1 = n
      BY <1>3
    <3>. QED
      BY <2>1, <3>1, TotalStep
  <2>5. Total(f, n) \in Int
    BY <2>1, TotalStep
  <2>. QED
    BY <2>1, <2>2, <2>3, <2>4, <2>5 DEF TradesKept
<1>. QED
  BY <1>6, <1>7, <1>8

(* An exit order is one more that closed nothing.                          *)
LEMMA ExitOrderCounts ==
    ASSUME IndInv, WatchExitOrder
    PROVE  Extras' = Extras + 1 /\ Closes' = Closes /\ FillsKept /\ SumsKept /\ TradesKept
<1>1. PICK row : row = Len(orders) + 1
  OBVIOUS
<1>2. /\ UNCHANGED <<trades, dailyPnl>>
      /\ row \notin DOMAIN orders /\ DOMAIN orders' = DOMAIN orders \cup {row}
      /\ \A i \in DOMAIN orders : orders'[i] = orders[i]
      /\ orders'[row].side = "SELL" /\ orders'[row].status = "COMPLETE"
  BY <1>1, WhatExitOrderDoes
<1>3. Closed' = Closed /\ OrphanFills' = OrphanFills
  BY <1>2 DEF OrphanFills, Entries, Closed
<1>4. OrphanExits' = OrphanExits \cup {row} /\ row \notin OrphanExits
  <2>1. \A k \in Closed : trades[k].exit # row
    BY <1>2 DEF IndInv, ExitBacked, IsExit, Exits
  <2>2. \A i \in Exits : i # row
    BY <1>2 DEF Exits
  <2>3. Exits' = Exits \cup {row}
    BY <1>2 DEF Exits
  <2>. QED
    BY <1>2, <1>3, <2>1, <2>2, <2>3 DEF OrphanExits
<1>. QED
  BY <1>2, <1>3, <1>4, TablesKept, AccountTypes, FS_AddElement
  DEF IndInv, AccountsTyped, FillsKept, Fills, Extras, Closes

(* A close takes it off, and adds its result to the trades: the trade was  *)
(* open, so its result was 0 before.                                       *)
LEMMA CloseCounts ==
    ASSUME IndInv, TypeOK', WatchClose, \A k \in OpenTrades : trades[k].pnl = 0
    PROVE  /\ Extras' = Extras - 1 /\ Closes' = Closes + 1
           /\ TradeSum' = TradeSum + watch.pnl
           /\ FillsKept /\ SumsKept
<1>. PICK row : row = watch.row
  OBVIOUS
<1>. PICK trade : trade = watch.trade
  OBVIOUS
<1>. PICK pnl : pnl = watch.pnl
  OBVIOUS
<1>1. /\ UNCHANGED <<orders, dailyPnl>>
      /\ trade \in OpenTrades /\ trade \in DOMAIN trades
      /\ row \in Exits /\ pnl \in Int
      /\ \A k \in Closed : trades[k].exit # row
      /\ Len(trades') = Len(trades) /\ DOMAIN trades' = DOMAIN trades
      /\ \A j \in DOMAIN trades :
            /\ trades'[j].entry = trades[j].entry
            /\ trades'[j].exit = IF j = trade THEN row ELSE trades[j].exit
            /\ trades'[j].pnl = IF j = trade THEN pnl ELSE trades[j].pnl
      /\ Closed' = Closed \cup {trade} /\ trade \notin Closed
  BY WhatCloseDoes DEF OpenTrades
<1>2. OrphanFills' = OrphanFills
  BY <1>1 DEF OrphanFills, Entries
<1>3. OrphanExits' = OrphanExits \ {row} /\ row \in OrphanExits
  BY <1>1 DEF OrphanExits, Exits, Closed
<1>4. /\ Extras' = Extras - 1 /\ Closes' = Closes + 1 /\ FillsKept
  BY <1>1, <1>2, <1>3, AccountTypes, FS_AddElement, FS_RemoveElement
  DEF IndInv, AccountsTyped, FillsKept, Fills, Extras, Closes
<1>5. TradeSum' = TradeSum + pnl
  <2>. PICK f : f = TradeNets
    OBVIOUS
  <2>. PICK g : g = TradeNets'
    OBVIOUS
  <2>. PICK n : n = Len(trades)
    OBVIOUS
  <2>1. /\ IsSummable(f, n) /\ IsSummable(g, n)
        /\ TradeSum = Total(f, n) /\ TradeSum' = Total(g, n)
    BY <1>1, AccountTypes, AccountTypesNext DEF IndInv, AccountsTyped, TradeSum
  <2>2. DOMAIN trades = 1 .. n /\ n \in Nat /\ trades[trade].pnl = 0
    BY <1>1 DEF IndInv, TypeOK, SharedTypeOK, JournalTypeOK
  <2>3. /\ \A k \in 0 .. n : k # trade => g[k] = f[k]
        /\ trade \in 0 .. n /\ g[trade] = f[trade] + pnl
    BY <1>1, <2>2 DEF TradeNets
  <2>. QED
    BY <1>1, <2>1, <2>3, TotalChange
<1>. QED
  BY <1>1, <1>4, <1>5, TablesKept

(* The aggregate counts one close more, and its result.                    *)
LEMMA RollupCounts ==
    ASSUME IndInv, TypeOK', WatchRollup
    PROVE  /\ Booked' = Booked + 1 /\ NetSum' = NetSum + watch.pnl
           /\ FillsKept /\ ExitsKept /\ TradesKept
<1>. PICK day : day = Day(watch.seen)
  OBVIOUS
<1>. PICK pnl : pnl = watch.pnl
  OBVIOUS
<1>1. /\ UNCHANGED <<orders, trades>>
      /\ day \in Days /\ pnl \in Int
      /\ dailyPnl \in [Days -> DailyRow]
      /\ dailyPnl' = [dailyPnl EXCEPT ![day] =
            [count  |-> dailyPnl[day].count + 1,
             net    |-> dailyPnl[day].net + pnl,
             streak |-> IF pnl > 0 THEN 0 ELSE dailyPnl[day].streak + 1]]
  BY DayType DEF WatchRollup, UpsertDailyPnl, IndInv, TypeOK, SharedTypeOK, JournalTypeOK,
     WatchTypeOK, WatchTask
<1>2. /\ \A d \in Days : d # day => dailyPnl'[d] = dailyPnl[d]
      /\ dailyPnl'[day].count = dailyPnl[day].count + 1
      /\ dailyPnl'[day].net = dailyPnl[day].net + pnl
  BY <1>1
<1>3. Days = 0 .. MaxTime
  BY DEF Days
<1>4. Booked' = Booked + 1
  <2>. PICK f : f = DayCounts
    OBVIOUS
  <2>. PICK g : g = DayCounts'
    OBVIOUS
  <2>1. /\ IsSummable(f, MaxTime) /\ IsSummable(g, MaxTime)
        /\ Booked = Total(f, MaxTime) /\ Booked' = Total(g, MaxTime)
    BY AccountTypes, AccountTypesNext DEF IndInv, AccountsTyped, Booked
  <2>2. /\ \A d \in Days : d # day => g[d] = f[d]
        /\ g[day] = f[day] + 1
    BY <1>1, <1>2 DEF DayCounts
  <2>. QED
    BY <1>1, <1>3, <2>1, <2>2, TotalChange
<1>5. NetSum' = NetSum + pnl
  <2>. PICK f : f = DayNets
    OBVIOUS
  <2>. PICK g : g = DayNets'
    OBVIOUS
  <2>1. /\ IsSummable(f, MaxTime) /\ IsSummable(g, MaxTime)
        /\ NetSum = Total(f, MaxTime) /\ NetSum' = Total(g, MaxTime)
    BY AccountTypes, AccountTypesNext DEF IndInv, AccountsTyped, NetSum
  <2>2. /\ \A d \in Days : d # day => g[d] = f[d]
        /\ g[day] = f[day] + pnl
    BY <1>1, <1>2 DEF DayNets
  <2>. QED
    BY <1>1, <1>3, <2>1, <2>2, TotalChange
<1>. QED
  BY <1>1, <1>4, <1>5, TablesKept

-----------------------------------------------------------------------------
(* The arithmetic of the accounts.                                         *)

(* What was lost and what a shutdown will drop is paid by the failures and *)
(* by what is in hand.                                                     *)
Paid(lost, due, paid, hand) == lost + due <= paid + hand

(* What a step loses it has in hand, or takes from a slack, which its      *)
(* failures finance.                                                       *)
Covered(lost, hand, lostNext, handNext, slack) == lostNext + hand <= lost + handNext + slack
Financed(due, paid, dueNext, paidNext, slack)  == dueNext + paid + slack <= paidNext + due

(* Such a step leaves the account balanced.                                *)
LEMMA StaysPaid ==
    \A lost, due, paid, hand, lostNext, dueNext, paidNext, handNext, slack \in Int :
        /\ Paid(lost, due, paid, hand)
        /\ Covered(lost, hand, lostNext, handNext, slack)
        /\ Financed(due, paid, dueNext, paidNext, slack)
        => Paid(lostNext, dueNext, paidNext, handNext)
BY DEF Paid, Covered, Financed

(* A step that loses nothing may let go of what the slack allows.          *)
LetsGo(hand, handNext, slack) == hand <= handNext + slack

(* A step that loses nothing and lets go of what is allowed is covered.    *)
LEMMA NothingLost ==
    \A lost, hand, handNext, slack \in Int :
        LetsGo(hand, handNext, slack) => Covered(lost, hand, lost, handNext, slack)
BY DEF LetsGo, Covered

(* Nobody lets go of more than the one thing in hand.                      *)
LEMMA HandHolds ==
    \A hand, handNext \in 0 .. 1 :
        /\ LetsGo(0, handNext, 0)
        /\ LetsGo(hand, hand, 0)
        /\ LetsGo(hand, handNext, 1)
BY DEF LetsGo

(* What is booked, and is about to be, was closed.                         *)
Counted(booked, hand, closes) == booked + hand <= closes

(* A booking that is in hand may be dropped.                               *)
LEMMA NothingMoreBooked ==
    \A booked, closes \in Int, hand \in 0 .. 1 :
        Counted(booked, hand, closes) => Counted(booked, 0, closes)
BY DEF Counted

-----------------------------------------------------------------------------
(* The accounts, kept by every step.                                       *)
Accounts == FillAccount /\ ExitAccount /\ NetAccount

(* What the tasks have in hand, and what was lost of the exits.            *)
Opening   == OneIf(exec.pc = "open")
Booking   == OneIf(watch.pc = "rollup")
Closing   == OneIf(watch.pc \in {"close", "rollup"})
ExitsLost == Extras + (Closes - Booked)

(* The accounts in terms of the quantities.                                *)
FillsPaid   == Paid(Fills, ShutdownDue, faults, Opening)
ExitsPaid   == Paid(ExitsLost, ShutdownDue, faults, Closing)
BookedOnce  == Counted(Booked, Booking, Closes)

(* The results: an open trade has none yet, and without a failure both     *)
(* sums agree but for the one about to be booked.                          *)
NetsAgree ==
    /\ "local" \in kill => faults > 0
    /\ \A k \in OpenTrades : trades[k].pnl = 0
    /\ faults = 0 => NetSum = TradeSum - (IF watch.pc = "rollup" THEN watch.pnl ELSE 0)

Balanced == FillsPaid /\ ExitsPaid /\ BookedOnce /\ NetsAgree

(* They say the same.                                                      *)
LEMMA AccountsAre == Accounts <=> Balanced
BY DEF Accounts, FillAccount, ExitAccount, NetAccount, LedgerAgrees, Balanced, FillsPaid,
   ExitsPaid, BookedOnce, NetsAgree, ExitsLost, Paid, Counted, Fills, Extras, Closes, NetSum, TradeSum,
   Opening, Booking, Closing

(* The ones, spelled out.                                                  *)
LEMMA OnesAre ==
    /\ ShutdownDue = IF "local" \in kill THEN 1 ELSE 0
    /\ Opening = IF exec.pc = "open" THEN 1 ELSE 0
    /\ Booking = IF watch.pc = "rollup" THEN 1 ELSE 0
    /\ Closing = IF watch.pc \in {"close", "rollup"} THEN 1 ELSE 0
    /\ ShutdownDue \in 0 .. 1 /\ Opening \in 0 .. 1 /\ Booking \in 0 .. 1 /\ Closing \in 0 .. 1
BY DEF ShutdownDue, Opening, Booking, Closing, OneIf

(* After a step, too.                                                      *)
LEMMA OnesNextAre ==
    /\ ShutdownDue' = IF "local" \in kill' THEN 1 ELSE 0
    /\ Opening' = IF exec'.pc = "open" THEN 1 ELSE 0
    /\ Booking' = IF watch'.pc = "rollup" THEN 1 ELSE 0
    /\ Closing' = IF watch'.pc \in {"close", "rollup"} THEN 1 ELSE 0
    /\ ShutdownDue' \in 0 .. 1 /\ Opening' \in 0 .. 1 /\ Booking' \in 0 .. 1 /\ Closing' \in 0 .. 1
BY DEF ShutdownDue, Opening, Booking, Closing, OneIf

(* All of them are integers.                                               *)
LEMMA LostIsInt == AccountsTyped => ExitsLost \in Int
BY DEF AccountsTyped, ExitsLost

(* After a step, too.                                                      *)
LEMMA LostNextIsInt == AccountsTyped' => ExitsLost' \in Int
BY DEF AccountsTyped, ExitsLost

(* How a step changes what is due and what is paid, and what it loses.     *)
Pays(slack)       == Financed(ShutdownDue, faults, ShutdownDue', faults', slack)
FillsSpent(slack) == Covered(Fills, Opening, Fills', Opening', slack)
ExitsSpent(slack) == Covered(ExitsLost, Closing, ExitsLost', Closing', slack)

(* A step that spends on fills what it finances keeps their account.       *)
LEMMA FillsStayPaid ==
    ASSUME AccountsTyped, AccountsTyped', FillsPaid, NEW slack \in 0 .. 1,
           Pays(slack), FillsSpent(slack)
    PROVE  FillsPaid'
<1>1. /\ Fills \in Int /\ Fills' \in Int /\ faults \in Int /\ faults' \in Int
      /\ ShutdownDue \in Int /\ ShutdownDue' \in Int /\ Opening \in Int /\ Opening' \in Int
      /\ slack \in Int
  BY OnesAre, OnesNextAre DEF AccountsTyped
<1>2. /\ Paid(Fills, ShutdownDue, faults, Opening)
      /\ Financed(ShutdownDue, faults, ShutdownDue', faults', slack)
      /\ Covered(Fills, Opening, Fills', Opening', slack)
  BY DEF FillsPaid, Pays, FillsSpent
<1>3. Paid(Fills', ShutdownDue', faults', Opening')
  BY <1>1, <1>2, StaysPaid, SMT
<1>. QED
  BY <1>3 DEF FillsPaid

(* Likewise for the exits.                                                 *)
LEMMA ExitsStayPaid ==
    ASSUME AccountsTyped, AccountsTyped', ExitsPaid, NEW slack \in 0 .. 1,
           Pays(slack), ExitsSpent(slack)
    PROVE  ExitsPaid'
<1>1. /\ ExitsLost \in Int /\ ExitsLost' \in Int /\ faults \in Int /\ faults' \in Int
      /\ ShutdownDue \in Int /\ ShutdownDue' \in Int /\ Closing \in Int /\ Closing' \in Int
      /\ slack \in Int
  BY OnesAre, OnesNextAre, LostIsInt, LostNextIsInt DEF AccountsTyped
<1>2. /\ Paid(ExitsLost, ShutdownDue, faults, Closing)
      /\ Financed(ShutdownDue, faults, ShutdownDue', faults', slack)
      /\ Covered(ExitsLost, Closing, ExitsLost', Closing', slack)
  BY DEF ExitsPaid, Pays, ExitsSpent
<1>3. Paid(ExitsLost', ShutdownDue', faults', Closing')
  BY <1>1, <1>2, StaysPaid, SMT
<1>. QED
  BY <1>3 DEF ExitsPaid

(* Where the money comes from: nothing is due and nothing paid, a failure  *)
(* pays for one loss or for the shutdown it announces, and a shutdown that *)
(* was paid for drops one thing from each hand.                            *)
LEMMA Financing ==
    ASSUME TypeOK, TypeOK'
    PROVE  /\ faults' = faults /\ ("local" \in kill' => "local" \in kill) => Pays(0)
           /\ Fault /\ ("local" \in kill' => "local" \in kill) => Pays(1)
           /\ Fault => Pays(0)
           /\ faults' = faults /\ "local" \in kill /\ "local" \notin kill' => Pays(1)
<1>. PICK paid \in Int, paidNext \in Int : paid = faults /\ paidNext = faults'
  BY StateAssumption DEF TypeOK, SharedTypeOK
<1>. PICK due \in 0 .. 1, dueNext \in 0 .. 1 : due = ShutdownDue /\ dueNext = ShutdownDue'
  BY OnesAre, OnesNextAre
<1>1. /\ due = (IF "local" \in kill THEN 1 ELSE 0)
      /\ dueNext = (IF "local" \in kill' THEN 1 ELSE 0)
  BY OnesAre, OnesNextAre
<1>2. Fault => paidNext = paid + 1
  BY DEF Fault
<1>3. \A slack : Pays(slack) <=> dueNext + paid + slack <= paidNext + due
  BY DEF Pays, Financed
<1>4. ASSUME faults' = faults, "local" \in kill' => "local" \in kill PROVE Pays(0)
  <2>1. dueNext <= due /\ paidNext = paid
    BY <1>1, <1>4
  <2>. QED
    BY <1>3, <2>1
<1>5. ASSUME Fault, "local" \in kill' => "local" \in kill PROVE Pays(1)
  <2>1. dueNext <= due /\ paidNext = paid + 1
    BY <1>1, <1>2, <1>5
  <2>. QED
    BY <1>3, <2>1
<1>6. ASSUME Fault PROVE Pays(0)
  BY <1>2, <1>3, <1>6
<1>7. ASSUME faults' = faults, "local" \in kill, "local" \notin kill' PROVE Pays(1)
  <2>1. due = 1 /\ dueNext = 0 /\ paidNext = paid
    BY <1>1, <1>7
  <2>. QED
    BY <1>3, <2>1
<1>. QED
  BY <1>4, <1>5, <1>6, <1>7

(* Steps that change none of the quantities: all that matters is what the  *)
(* tasks let go of.                                                        *)
AllKept == FillsKept /\ ExitsKept /\ SumsKept /\ TradesKept

NoShutdownUnpaid == "local" \in kill' => "local" \in kill \/ faults' > 0

SameResult == watch'.pc = watch.pc /\ watch'.pnl = watch.pnl

(* Such a step keeps the accounts if its failures pay for what it drops.   *)
LEMMA KeptBalances ==
    ASSUME TypeOK, TypeOK', Balanced, NEW slack \in 0 .. 1, Pays(slack),
           AllKept, UNCHANGED trades, NoShutdownUnpaid, faults' >= faults,
           LetsGo(Opening, Opening', slack), LetsGo(Closing, Closing', slack), Booking' \in {Booking, 0},
           faults' = 0 => SameResult \/ (watch.pc # "rollup" /\ watch'.pc # "rollup")
    PROVE  Balanced'
<1>1. AccountsTyped /\ AccountsTyped'
  BY AccountTypes, AccountTypesNext
<1>2. /\ Fills \in Int /\ Extras \in Int /\ Closes \in Int /\ Booked \in Int
      /\ faults \in Nat /\ faults' \in Nat
      /\ Fills' = Fills /\ Extras' = Extras /\ Closes' = Closes /\ Booked' = Booked
      /\ NetSum' = NetSum /\ TradeSum' = TradeSum
  BY <1>1 DEF AccountsTyped, AllKept, FillsKept, ExitsKept, SumsKept, TradesKept
<1>3. /\ Opening \in Int /\ Opening' \in Int /\ Closing \in Int /\ Closing' \in Int
      /\ Booking \in Int /\ Booking' \in Int /\ slack \in Int
  BY OnesAre, OnesNextAre
<1>4. ExitsLost' = ExitsLost /\ ExitsLost \in Int
  BY <1>1, <1>2, LostIsInt DEF ExitsLost
<1>5. FillsSpent(slack)
  <2>1. Covered(Fills, Opening, Fills, Opening', slack)
    BY <1>2, <1>3, NothingLost, SMT
  <2>. QED
    BY <1>2, <2>1 DEF FillsSpent
<1>6. ExitsSpent(slack)
  <2>1. Covered(ExitsLost, Closing, ExitsLost, Closing', slack)
    BY <1>3, <1>4, NothingLost, SMT
  <2>. QED
    BY <1>4, <2>1 DEF ExitsSpent
<1>7. FillsPaid' /\ ExitsPaid'
  BY <1>1, <1>5, <1>6, FillsStayPaid, ExitsStayPaid DEF Balanced
<1>8. BookedOnce'
  <2>1. Counted(Booked, Booking, Closes) /\ Booking \in 0 .. 1
    BY OnesAre DEF Balanced, BookedOnce
  <2>2. Counted(Booked, 0, Closes)
    BY <1>2, <2>1, NothingMoreBooked, SMT
  <2>. QED
    BY <1>2, <2>1, <2>2 DEF BookedOnce
<1>9. NetsAgree'
  <2>1. /\ "local" \in kill => faults > 0
        /\ \A k \in OpenTrades : trades[k].pnl = 0
        /\ faults = 0 => NetSum = TradeSum - (IF watch.pc = "rollup" THEN watch.pnl ELSE 0)
    BY DEF Balanced, NetsAgree
  <2>2. "local" \in kill' => faults' > 0
    BY <1>2, <2>1 DEF NoShutdownUnpaid
  <2>3. \A k \in OpenTrades' : trades'[k].pnl = 0
    BY <2>1 DEF OpenTrades, IsOpen
  <2>4. ASSUME faults' = 0
        PROVE  NetSum' = TradeSum' - (IF watch'.pc = "rollup" THEN watch'.pnl ELSE 0)
    <3>1. faults = 0
      BY <1>2, <2>4
    <3>. QED
      BY <1>2, <2>1, <2>4, <3>1 DEF SameResult
  <2>. QED
    BY <2>2, <2>3, <2>4 DEF NetsAgree
<1>. QED
  BY <1>7, <1>8, <1>9 DEF Balanced

(* What the other tasks and the environment do.                            *)
LEMMA FaultCounts ==
    ASSUME TypeOK, Fault
    PROVE  faults' >= faults /\ faults' > 0
<1>1. faults \in Nat /\ faults' = faults + 1
  BY StateAssumption DEF TypeOK, SharedTypeOK, Fault
<1>. QED
  BY <1>1

(* A step that leaves the tables and the hands alone keeps them.           *)
LEMMA QuietBalances ==
    ASSUME TypeOK, TypeOK', Balanced, UNCHANGED <<orders, trades, dailyPnl, exec, watch>>,
           Fault \/ (faults' = faults /\ ("local" \in kill' => "local" \in kill))
    PROVE  Balanced'
<1>1. AllKept
  BY TablesKept DEF AllKept
<1>2. Pays(0)
  BY Financing
<1>3. faults' >= faults /\ NoShutdownUnpaid
  <2>1. faults \in Nat
    BY StateAssumption DEF TypeOK, SharedTypeOK
  <2>. QED
    BY <2>1, FaultCounts DEF NoShutdownUnpaid
<1>4. /\ LetsGo(Opening, Opening', 0) /\ LetsGo(Closing, Closing', 0)
      /\ Booking' \in {Booking, 0} /\ SameResult
  <2>1. Opening' = Opening /\ Closing' = Closing /\ Booking' = Booking /\ SameResult
    BY DEF Opening, Closing, Booking, SameResult
  <2>2. Opening \in Int /\ Closing \in Int
    BY OnesAre
  <2>. QED
    BY <2>1, <2>2 DEF LetsGo
<1>. QED
  BY <1>1, <1>2, <1>3, <1>4, KeptBalances

(* The emission of signals is such a step.                                 *)
LEMMA EmitBalances ==
    ASSUME TypeOK, TypeOK', Balanced, Emission_
    PROVE  Balanced'
<1>1. /\ UNCHANGED <<orders, trades, dailyPnl, exec, watch, kill>>
      /\ Fault \/ faults' = faults
  BY DEF Emission_, EmitNext, EmitPersist, EmitPersistFails, EmitPublish, EmitPublishFails, tables
<1>. QED
  BY <1>1, QuietBalances

(* So is every step of the risk engine.                                    *)
LEMMA RiskBalances ==
    ASSUME TypeOK, TypeOK', Balanced, Risk_
    PROVE  Balanced'
<1>1. /\ UNCHANGED <<orders, trades, dailyPnl, exec, watch, kill>>
      /\ Fault \/ faults' = faults
  BY DEF Risk_, RiskNext, RiskStep, RiskReceive, RiskGate, RiskContract, RiskOutcome,
     RiskPublish, RiskAck, RiskFail, RiskDie, shared, tables
<1>. QED
  BY <1>1, QuietBalances

(* So are the clock, the operator and the signal handler.                  *)
LEMMA EnvironmentBalances ==
    ASSUME TypeOK, TypeOK', Balanced, Environment
    PROVE  Balanced'
<1>1. /\ UNCHANGED <<orders, trades, dailyPnl, exec, watch>>
      /\ Fault \/ (faults' = faults /\ ("local" \in kill' => "local" \in kill))
  BY DEF Environment, TimePasses, ArmRedis, DisarmRedis, Signalled, tables
<1>. QED
  BY <1>1, QuietBalances

(* A new process has nothing in hand.  What the old one had is paid by the *)
(* failure that ended it, or by the signal that announced its end.         *)
LEMMA RestartBalances ==
    ASSUME TypeOK, TypeOK', Balanced, CrashRestart \/ ShutdownRestart
    PROVE  Balanced'
<1>1. /\ UNCHANGED <<orders, trades, dailyPnl>>
      /\ "local" \notin kill' /\ exec' = ExecIdle /\ watch' = WatchSleep
      /\ Fault \/ (faults' = faults /\ "local" \in kill)
  BY DEF CrashRestart, ShutdownRestart, ProcessStarts, tables
<1>2. AllKept
  BY <1>1, TablesKept DEF AllKept
<1>3. Pays(1)
  BY <1>1, Financing
<1>4. faults' >= faults /\ faults' > 0 /\ NoShutdownUnpaid
  <2>1. faults \in Nat
    BY StateAssumption DEF TypeOK, SharedTypeOK
  <2>2. "local" \in kill => faults > 0
    BY DEF Balanced, NetsAgree
  <2>. QED
    BY <1>1, <2>1, <2>2, FaultCounts DEF NoShutdownUnpaid
<1>5. LetsGo(Opening, Opening', 1) /\ LetsGo(Closing, Closing', 1) /\ Booking' \in {Booking, 0}
  <2>1. Opening' = 0 /\ Closing' = 0 /\ Booking' = 0
    BY <1>1, OnesNextAre DEF ExecIdle, WatchSleep
  <2>2. Opening \in 0 .. 1 /\ Closing \in 0 .. 1
    BY OnesAre
  <2>. QED
    BY <2>1, <2>2 DEF LetsGo
<1>6. faults' # 0
  BY <1>4, StateAssumption DEF TypeOK, SharedTypeOK
<1>. QED
  BY <1>2, <1>3, <1>4, <1>5, <1>6, <1>1, KeptBalances

-----------------------------------------------------------------------------
(* The executor.                                                           *)

(* A fill is in hand until its trade is open.                              *)
LEMMA FillInHand ==
    \A lost, lostNext \in Int : lostNext <= lost + 1 => Covered(lost, 0, lostNext, 1, 0)
BY DEF Covered

(* With its trade it passes from the hand to the trades.                   *)
LEMMA FillBooked ==
    \A lost, lostNext \in Int : lostNext = lost - 1 => Covered(lost, 1, lostNext, 0, 0)
BY DEF Covered

(* A step that leaves the exits and the sums alone keeps their accounts.   *)
LEMMA ExitsSettled ==
    ASSUME TypeOK, TypeOK', Balanced, ExitsKept, SumsKept, TradesKept,
           UNCHANGED <<watch, kill, faults>>,
           \A k \in OpenTrades' : trades'[k].pnl = 0
    PROVE  ExitsSpent(0) /\ BookedOnce' /\ NetsAgree'
<1>1. AccountsTyped /\ AccountsTyped'
  BY AccountTypes, AccountTypesNext
<1>2. /\ ExitsLost' = ExitsLost /\ ExitsLost \in Int
      /\ Closing' = Closing /\ Closing \in Int /\ Booking' = Booking
      /\ Closes' = Closes /\ Booked' = Booked
  BY <1>1, OnesAre, LostIsInt DEF ExitsLost, ExitsKept, SumsKept, Closing, Booking
<1>3. LetsGo(Closing, Closing, 0)
  BY <1>2 DEF LetsGo
<1>4. Covered(ExitsLost, Closing, ExitsLost, Closing, 0)
  BY <1>2, <1>3, NothingLost, SMT
<1>5. ExitsSpent(0) /\ BookedOnce'
  BY <1>2, <1>4 DEF ExitsSpent, Balanced, BookedOnce
<1>6. NetsAgree'
  <2>1. /\ "local" \in kill => faults > 0
        /\ faults = 0 => NetSum = TradeSum - (IF watch.pc = "rollup" THEN watch.pnl ELSE 0)
    BY DEF Balanced, NetsAgree
  <2>2. NetSum' = NetSum /\ TradeSum' = TradeSum
    BY DEF SumsKept, TradesKept
  <2>. QED
    BY <2>1, <2>2 DEF NetsAgree
<1>. QED
  BY <1>5, <1>6

(* Every step of the executor keeps the accounts.                          *)
LEMMA ExecBalances ==
    ASSUME IndInv, TypeOK', Balanced, Exec_
    PROVE  Balanced'
<1>1. TypeOK /\ UNCHANGED <<watch, kill>> /\ ExecNext
  BY DEF Exec_, IndInv, ExecNext, ExecStep, ExecReceive, ExecInsert, ExecInsertRefused,
     ExecQuote, ExecNoQuote, ExecFill, ExecOpen, ExecReport, ExecAck, ExecFail, ExecDie, shared
<1>2. AccountsTyped /\ AccountsTyped' /\ faults \in Nat
  BY <1>1, AccountTypes, AccountTypesNext DEF AccountsTyped
<1>3. CASE /\ AllKept /\ UNCHANGED trades
           /\ exec.pc # "open"
           /\ Fault \/ faults' = faults
  <2>1. /\ Opening = 0 /\ Opening' \in 0 .. 1 /\ Closing' = Closing /\ Closing \in 0 .. 1
        /\ Booking' = Booking
    BY <1>1, <1>3, OnesAre, OnesNextAre DEF Closing, Booking
  <2>2. LetsGo(Opening, Opening', 0) /\ LetsGo(Closing, Closing', 0)
    BY <2>1, HandHolds, SMT
  <2>3. Pays(0) /\ faults' >= faults /\ NoShutdownUnpaid /\ SameResult
    BY <1>1, <1>2, <1>3, Financing, FaultCounts DEF NoShutdownUnpaid, SameResult
  <2>. QED
    BY <1>1, <1>3, <2>1, <2>2, <2>3, KeptBalances
<1>4. CASE ExecFail
  <2>1. AllKept /\ UNCHANGED trades /\ Fault
    BY <1>4, TablesKept DEF ExecFail, tables, AllKept
  <2>2. /\ Opening \in 0 .. 1 /\ Opening' = 0 /\ Closing' = Closing /\ Closing \in 0 .. 1
        /\ Booking' = Booking
    BY <1>1, <1>4, OnesAre, OnesNextAre DEF ExecFail, ExecIdle, Closing, Booking
  <2>3. LetsGo(Opening, Opening', 1) /\ LetsGo(Closing, Closing', 1)
    BY <2>2, HandHolds, SMT
  <2>4. Pays(1) /\ faults' >= faults /\ NoShutdownUnpaid /\ SameResult
    BY <1>1, <1>2, <2>1, Financing, FaultCounts DEF NoShutdownUnpaid, SameResult
  <2>. QED
    BY <1>1, <2>1, <2>2, <2>3, <2>4, KeptBalances
<1>5. CASE ExecFill
  <2>1. Fills' <= Fills + 1 /\ ExitsKept /\ SumsKept /\ TradesKept
    BY <1>5, FillCounts
  <2>2. UNCHANGED <<trades, faults>> /\ Pays(0)
    BY <1>1, <1>5, Financing DEF ExecFill
  <2>3. ExitsSpent(0) /\ BookedOnce' /\ NetsAgree'
    <3>1. \A k \in OpenTrades' : trades'[k].pnl = 0
      BY <2>2 DEF OpenTrades, IsOpen, Balanced, NetsAgree
    <3>. QED
      BY <1>1, <2>1, <2>2, <3>1, ExitsSettled
  <2>4. FillsSpent(0)
    <3>1. Opening = 0 /\ Opening' = 1 /\ Fills \in Int /\ Fills' \in Int
      BY <1>2, <1>5, OnesAre, OnesNextAre DEF ExecFill, IndInv, TypeOK, ExecTypeOK, ExecTask,
         AccountsTyped
    <3>2. Covered(Fills, 0, Fills', 1, 0)
      BY <2>1, <3>1, FillInHand, SMT
    <3>. QED
      BY <3>1, <3>2 DEF FillsSpent
  <2>. QED
    BY <1>2, <2>2, <2>3, <2>4, FillsStayPaid, ExitsStayPaid DEF Balanced
<1>6. CASE ExecOpen
  <2>1. Fills' = Fills - 1 /\ ExitsKept /\ SumsKept /\ TradesKept
    BY <1>6, OpenCounts
  <2>2. UNCHANGED faults /\ Pays(0)
    BY <1>1, <1>6, Financing DEF ExecOpen
  <2>3. ExitsSpent(0) /\ BookedOnce' /\ NetsAgree'
    <3>1. \A k \in OpenTrades' : trades'[k].pnl = 0
      <4>1. PICK n : n = Len(trades)
        OBVIOUS
      <4>2. /\ DOMAIN trades' = DOMAIN trades \cup {n + 1}
            /\ \A k \in DOMAIN trades : trades'[k] = trades[k]
            /\ trades'[n + 1].pnl = 0
        BY <1>6, <4>1, WhatOpenDoes
      <4>3. \A k \in OpenTrades : trades[k].pnl = 0
        BY DEF Balanced, NetsAgree
      <4>. QED
        BY <4>2, <4>3 DEF OpenTrades, IsOpen
    <3>. QED
      BY <1>1, <2>1, <2>2, <3>1, ExitsSettled
  <2>4. FillsSpent(0)
    <3>1. Opening = 1 /\ Opening' = 0 /\ Fills \in Int /\ Fills' \in Int
      BY <1>2, <1>6, OnesAre, OnesNextAre DEF ExecOpen, IndInv, TypeOK, ExecTypeOK, ExecTask,
         AccountsTyped
    <3>2. Covered(Fills, 1, Fills', 0, 0)
      BY <2>1, <3>1, FillBooked, SMT
    <3>. QED
      BY <3>1, <3>2 DEF FillsSpent
  <2>. QED
    BY <1>2, <2>2, <2>3, <2>4, FillsStayPaid, ExitsStayPaid DEF Balanced
<1>7. CASE ExecInsert
  <2>1. AllKept /\ UNCHANGED <<trades, faults>> /\ exec.pc # "open"
    BY <1>7, InsertCounts DEF ExecInsert, AllKept
  <2>. QED
    BY <1>3, <2>1
<1>8. CASE ExecReceive \/ ExecInsertRefused \/ ExecQuote \/ ExecNoQuote \/ ExecReport
           \/ ExecAck \/ ExecDie
  <2>1. /\ UNCHANGED <<orders, trades, dailyPnl>> /\ exec.pc # "open"
        /\ Fault \/ faults' = faults
    BY <1>8 DEF ExecReceive, ExecInsertRefused, ExecQuote, ExecNoQuote, ExecReport, ExecAck,
       ExecDie, shared, tables
  <2>. QED
    BY <1>3, <2>1, TablesKept DEF AllKept
<1>. QED
  BY <1>1, <1>4, <1>5, <1>6, <1>7, <1>8 DEF ExecNext, ExecStep

-----------------------------------------------------------------------------
(* The watcher.                                                            *)

(* What was lost of the exits, after each of the three transactions.       *)
LEMMA LostByExit ==
    \A extras, closes, booked \in Int :
        /\ (extras + 1) + (closes - booked) = (extras + (closes - booked)) + 1
        /\ (extras - 1) + ((closes + 1) - booked) = extras + (closes - booked)
        /\ extras + (closes - (booked + 1)) = (extras + (closes - booked)) - 1
OBVIOUS

(* An exit order is in hand until its close is booked; the close passes    *)
(* from the hand to the aggregate.                                         *)
LEMMA ExitInHands ==
    \A lost \in Int : /\ Covered(lost, 0, lost + 1, 1, 0)
                      /\ Covered(lost, 1, lost, 1, 0)
                      /\ Covered(lost, 1, lost - 1, 0, 0)
BY DEF Covered

(* A close is in hand until the aggregate has it.                          *)
LEMMA CloseInHand ==
    \A booked, closes \in Int :
        /\ Counted(booked, 0, closes) => Counted(booked, 1, closes + 1)
        /\ Counted(booked, 1, closes) => Counted(booked + 1, 0, closes)
BY DEF Counted

(* The same for the sums of the results.                                   *)
LEMMA ResultInHand ==
    \A net, sum, pnl \in Int :
        /\ net = sum => net = (sum + pnl) - pnl
        /\ net = sum - pnl => net + pnl = sum
OBVIOUS

(* A step of the watcher leaves the executor's account alone.              *)
LEMMA FillsSettled ==
    ASSUME TypeOK, TypeOK', Balanced, FillsKept, UNCHANGED <<exec, kill, faults>>,
           ExitsSpent(0), BookedOnce', NetsAgree'
    PROVE  Balanced'
<1>1. AccountsTyped /\ AccountsTyped' /\ Pays(0)
  BY AccountTypes, AccountTypesNext, Financing
<1>2. /\ Fills' = Fills /\ Fills \in Int /\ Opening' = Opening /\ Opening \in 0 .. 1
      /\ Opening \in Int
  BY <1>1, OnesAre DEF FillsKept, AccountsTyped, Opening
<1>3. FillsSpent(0)
  <2>1. LetsGo(Opening, Opening, 0)
    BY <1>2, HandHolds, SMT
  <2>2. Covered(Fills, Opening, Fills, Opening, 0)
    BY <1>2, <2>1, NothingLost, SMT
  <2>. QED
    BY <1>2, <2>2 DEF FillsSpent
<1>. QED
  BY <1>1, <1>3, FillsStayPaid, ExitsStayPaid DEF Balanced

(* An exit order is in hand as soon as it is written.                      *)
LEMMA ExitOrderBalances ==
    ASSUME IndInv, TypeOK', Balanced, WatchExitOrder, UNCHANGED exec
    PROVE  Balanced'
<1>1. /\ TypeOK /\ UNCHANGED <<kill, faults, trades>> /\ AccountsTyped
      /\ Extras' = Extras + 1 /\ Closes' = Closes /\ FillsKept /\ SumsKept /\ TradesKept
  BY ExitOrderCounts, AccountTypes DEF WatchExitOrder, IndInv
<1>2. watch.pc = "exit" /\ watch'.pc = "close"
  BY DEF WatchExitOrder, IndInv, TypeOK, WatchTypeOK, WatchTask
<1>3. /\ Extras \in Int /\ Closes \in Int /\ Booked \in Int /\ Booked' = Booked
      /\ NetSum' = NetSum /\ TradeSum' = TradeSum /\ ExitsLost \in Int
  BY <1>1, LostIsInt DEF AccountsTyped, SumsKept, TradesKept
<1>4. Closing = 0 /\ Closing' = 1 /\ Booking = 0 /\ Booking' = 0
  BY <1>2, OnesAre, OnesNextAre
<1>5. ExitsSpent(0)
  <2>1. ExitsLost' = ExitsLost + 1
    BY <1>1, <1>3, LostByExit DEF ExitsLost
  <2>2. Covered(ExitsLost, 0, ExitsLost + 1, 1, 0)
    BY <1>3, ExitInHands
  <2>. QED
    BY <1>4, <2>1, <2>2 DEF ExitsSpent
<1>6. BookedOnce'
  BY <1>1, <1>3, <1>4 DEF Balanced, BookedOnce
<1>7. NetsAgree'
  BY <1>1, <1>2, <1>3 DEF Balanced, NetsAgree, OpenTrades, IsOpen
<1>. QED
  BY <1>1, <1>5, <1>6, <1>7, FillsSettled

(* Its close takes the order off the orphans and waits to be booked.       *)
LEMMA CloseBalances ==
    ASSUME IndInv, TypeOK', Balanced, WatchClose, UNCHANGED exec
    PROVE  Balanced'
<1>1. TypeOK /\ UNCHANGED <<kill, faults>> /\ AccountsTyped
  BY AccountTypes DEF WatchClose, IndInv
<1>2. \A k \in OpenTrades : trades[k].pnl = 0
  BY DEF Balanced, NetsAgree
<1>3. /\ Extras' = Extras - 1 /\ Closes' = Closes + 1
      /\ TradeSum' = TradeSum + watch.pnl /\ FillsKept /\ SumsKept
  BY <1>2, CloseCounts
<1>4. watch.pc = "close" /\ watch'.pc = "rollup" /\ watch'.pnl = watch.pnl /\ watch.pnl \in Int
  BY DEF WatchClose, IndInv, TypeOK, WatchTypeOK, WatchTask
<1>5. /\ Extras \in Int /\ Closes \in Int /\ Booked \in Int /\ Booked' = Booked
      /\ NetSum' = NetSum /\ NetSum \in Int /\ TradeSum \in Int /\ ExitsLost \in Int
  BY <1>1, <1>3, LostIsInt DEF AccountsTyped, SumsKept
<1>6. Closing = 1 /\ Closing' = 1 /\ Booking = 0 /\ Booking' = 1
  BY <1>4, OnesAre, OnesNextAre
<1>7. ExitsSpent(0)
  <2>1. ExitsLost' = ExitsLost
    BY <1>3, <1>5, LostByExit DEF ExitsLost
  <2>2. Covered(ExitsLost, 1, ExitsLost, 1, 0)
    BY <1>5, ExitInHands
  <2>. QED
    BY <1>6, <2>1, <2>2 DEF ExitsSpent
<1>8. BookedOnce'
  <2>1. Counted(Booked, 0, Closes)
    BY <1>6 DEF Balanced, BookedOnce
  <2>2. Counted(Booked, 1, Closes + 1)
    BY <1>5, <2>1, CloseInHand
  <2>. QED
    BY <1>3, <1>5, <1>6, <2>2 DEF BookedOnce
<1>9. NetsAgree'
  <2>1. "local" \in kill' => faults' > 0
    BY <1>1 DEF Balanced, NetsAgree
  <2>2. \A k \in OpenTrades' : trades'[k].pnl = 0
    BY <1>2, WhatCloseDoes DEF OpenTrades
  <2>3. ASSUME faults' = 0 PROVE NetSum' = TradeSum' - watch'.pnl
    <3>1. NetSum = TradeSum
      BY <1>1, <1>4, <1>5, <2>3 DEF Balanced, NetsAgree
    <3>2. NetSum = (TradeSum + watch.pnl) - watch.pnl
      BY <1>4, <1>5, <3>1, ResultInHand
    <3>. QED
      BY <1>3, <1>4, <1>5, <3>2
  <2>. QED
    BY <1>4, <2>1, <2>2, <2>3 DEF NetsAgree
<1>. QED
  BY <1>1, <1>3, <1>7, <1>8, <1>9, FillsSettled

(* The aggregate books it, and the hand is empty.                          *)
LEMMA RollupBalances ==
    ASSUME IndInv, TypeOK', Balanced, WatchRollup, UNCHANGED exec
    PROVE  Balanced'
<1>1. /\ TypeOK /\ UNCHANGED <<kill, faults, trades>> /\ AccountsTyped
      /\ Booked' = Booked + 1 /\ NetSum' = NetSum + watch.pnl
      /\ FillsKept /\ ExitsKept /\ TradesKept
  BY RollupCounts, AccountTypes DEF WatchRollup, IndInv
<1>2. watch.pc = "rollup" /\ watch'.pc = "report" /\ watch.pnl \in Int
  BY DEF WatchRollup, IndInv, TypeOK, WatchTypeOK, WatchTask
<1>3. /\ Extras \in Int /\ Closes \in Int /\ Booked \in Int
      /\ Extras' = Extras /\ Closes' = Closes
      /\ TradeSum' = TradeSum /\ NetSum \in Int /\ TradeSum \in Int /\ ExitsLost \in Int
  BY <1>1, LostIsInt DEF AccountsTyped, ExitsKept, TradesKept
<1>4. Closing = 1 /\ Closing' = 0 /\ Booking = 1 /\ Booking' = 0
  BY <1>2, OnesAre, OnesNextAre
<1>5. ExitsSpent(0)
  <2>1. ExitsLost' = ExitsLost - 1
    BY <1>1, <1>3, LostByExit DEF ExitsLost
  <2>2. Covered(ExitsLost, 1, ExitsLost - 1, 0, 0)
    BY <1>3, ExitInHands
  <2>. QED
    BY <1>4, <2>1, <2>2 DEF ExitsSpent
<1>6. BookedOnce'
  <2>1. Counted(Booked, 1, Closes)
    BY <1>4 DEF Balanced, BookedOnce
  <2>2. Counted(Booked + 1, 0, Closes)
    BY <1>3, <2>1, CloseInHand
  <2>. QED
    BY <1>1, <1>3, <1>4, <2>2 DEF BookedOnce
<1>7. NetsAgree'
  <2>1. /\ "local" \in kill' => faults' > 0
        /\ \A k \in OpenTrades' : trades'[k].pnl = 0
    BY <1>1 DEF Balanced, NetsAgree, OpenTrades, IsOpen
  <2>2. ASSUME faults' = 0 PROVE NetSum' = TradeSum'
    <3>1. NetSum = TradeSum - watch.pnl
      BY <1>1, <1>2, <2>2 DEF Balanced, NetsAgree
    <3>2. NetSum + watch.pnl = TradeSum
      BY <1>2, <1>3, <3>1, ResultInHand
    <3>. QED
      BY <1>1, <1>3, <3>2
  <2>. QED
    BY <1>2, <1>3, <2>1, <2>2 DEF NetsAgree
<1>. QED
  BY <1>1, <1>5, <1>6, <1>7, FillsSettled

(* Every step of the watcher keeps the accounts.                           *)
LEMMA WatchBalances ==
    ASSUME IndInv, TypeOK', Balanced, Watch_
    PROVE  Balanced'
<1>1. TypeOK /\ UNCHANGED exec /\ WatchNext
  BY DEF Watch_, IndInv
<1>2. UNCHANGED kill
  BY <1>1 DEF WatchNext, WatchStep, WatchSelect, WatchKeep, WatchDecide, WatchExitOrder,
     WatchClose, WatchRollup, WatchReport, WatchFail, shared
<1>3. AccountsTyped /\ AccountsTyped' /\ faults \in Nat
  BY <1>1, AccountTypes, AccountTypesNext DEF AccountsTyped
<1>4. CASE WatchExitOrder \/ WatchClose \/ WatchRollup
  BY <1>1, <1>4, ExitOrderBalances, CloseBalances, RollupBalances
<1>5. CASE WatchFail
  <2>1. AllKept /\ UNCHANGED trades /\ Fault
    BY <1>5, TablesKept DEF WatchFail, tables, AllKept
  <2>2. watch'.pc \in {"sleep", "round"}
    BY <1>5, NextTradeFields DEF WatchFail
  <2>3. /\ Opening' = Opening /\ Opening \in 0 .. 1
        /\ Closing \in 0 .. 1 /\ Closing' = 0 /\ Booking' = 0
    BY <1>1, <2>2, OnesAre, OnesNextAre DEF Opening
  <2>4. LetsGo(Opening, Opening', 1) /\ LetsGo(Closing, Closing', 1)
    BY <2>3, HandHolds, SMT
  <2>5. Pays(1) /\ faults' >= faults /\ faults' > 0 /\ NoShutdownUnpaid
    BY <1>1, <1>2, <1>3, <2>1, Financing, FaultCounts DEF NoShutdownUnpaid
  <2>6. faults' # 0
    BY <1>3, <2>5
  <2>. QED
    BY <1>1, <2>1, <2>3, <2>4, <2>5, <2>6, KeptBalances
<1>6. CASE /\ UNCHANGED <<orders, trades, dailyPnl, faults>>
           /\ watch.pc \in {"sleep", "round", "report"}
           /\ watch'.pc \in {"sleep", "round", "exit"}
  <2>1. AllKept
    BY <1>6, TablesKept DEF AllKept
  <2>2. /\ Opening' = Opening /\ Opening \in 0 .. 1
        /\ Closing = 0 /\ Closing' = 0 /\ Booking' = 0
    BY <1>1, <1>6, OnesAre, OnesNextAre DEF Opening
  <2>3. LetsGo(Opening, Opening', 0) /\ LetsGo(Closing, Closing', 0)
    BY <2>2, HandHolds, SMT
  <2>4. Pays(0) /\ faults' >= faults /\ NoShutdownUnpaid
    BY <1>1, <1>2, <1>3, <1>6, Financing DEF NoShutdownUnpaid
  <2>. QED
    BY <1>1, <1>6, <2>1, <2>2, <2>3, <2>4, KeptBalances
<1>7. CASE \/ WatchSelect \/ WatchReport
           \/ \E k \in watch.todo : WatchKeep(k)
           \/ \E k \in watch.todo, pnl \in Pnl : WatchDecide(k, pnl)
  <2>1. watch'.pc \in {"sleep", "round", "exit"}
    BY <1>1, <1>7, NextTradeFields
    DEF WatchSelect, WatchKeep, WatchDecide, WatchReport, TypeOK, WatchTypeOK, WatchTask
  <2>2. /\ UNCHANGED <<orders, trades, dailyPnl, faults>>
        /\ watch.pc \in {"sleep", "round", "report"}
    BY <1>7 DEF WatchSelect, WatchKeep, WatchDecide, WatchReport, shared, tables
  <2>. QED
    BY <1>6, <2>1, <2>2
<1>. QED
  BY <1>1, <1>4, <1>5, <1>7 DEF WatchNext, WatchStep

-----------------------------------------------------------------------------
(* The theorems.                                                           *)

(* So does every step of the agent.                                        *)
LEMMA AccountsStep == IndInv /\ TypeOK' /\ Balanced /\ [Next]_vars => Balanced'
<1>. SUFFICES ASSUME IndInv, TypeOK', Balanced, [Next]_vars
              PROVE  Balanced'
  OBVIOUS
<1>1. TypeOK
  BY DEF IndInv
<1>2. CASE UNCHANGED vars
  BY <1>1, <1>2, QuietBalances DEF vars, shared, tables
<1>3. CASE Next
  BY <1>1, <1>3, EmitBalances, RiskBalances, ExecBalances, WatchBalances, EnvironmentBalances,
     RestartBalances DEF Next
<1>. QED
  BY <1>2, <1>3

(* A sum of zeros is zero.                                                 *)
LEMMA TotalOfZeros ==
    ASSUME NEW f, NEW n \in Nat, \A k \in 0 .. n : f[k] = 0
    PROVE  Total(f, n) = 0
<1>. DEFINE T == {m \in 0 .. n : Total(f, m) # 0}
<1>1. SUFFICES ASSUME T # {} PROVE FALSE
  BY DEF T
<1>2. PICK m \in T : \A j \in T : m <= j
  <2>1. T \subseteq Nat
    OBVIOUS
  <2>. QED
    BY <1>1, <2>1, LeastNat
<1>3. m \in 0 .. n /\ IsSummable(f, m) /\ f[m] = 0
  BY DEF IsSummable
<1>4. CASE m = 0
  BY <1>3, <1>4, TotalStep
<1>5. CASE m # 0
  <2>1. m - 1 \in 0 .. n /\ ~(m <= m - 1)
    BY <1>3, <1>5
  <2>2. Total(f, m - 1) = 0
    BY <1>2, <2>1
  <2>. QED
    BY <1>3, <1>5, <2>2, TotalStep
<1>. QED
  BY <1>4, <1>5

(* They hold at the start.                                                 *)
LEMMA AccountsInit == Init => Balanced
<1>. SUFFICES ASSUME Init PROVE Balanced
  OBVIOUS
<1>1. /\ orders = <<>> /\ trades = <<>> /\ dailyPnl = [d \in Days |-> EmptyDay]
      /\ kill = {} /\ faults = 0 /\ exec = ExecIdle /\ watch = WatchSleep
  BY DEF Init, SharedInit, JournalInit, ExecInit, WatchInit
<1>2. OrphanFills = {} /\ OrphanExits = {} /\ Closed = {} /\ OpenTrades = {}
  BY <1>1 DEF OrphanFills, OrphanExits, Entries, Exits, Closed, OpenTrades
<1>3. Fills = 0 /\ Extras = 0 /\ Closes = 0
  BY <1>2, FS_EmptySet DEF Fills, Extras, Closes
<1>4. Booked = 0 /\ NetSum = 0
  <2>1. MaxTime \in Nat /\ Days = 0 .. MaxTime
    BY TimeAssumption DEF Days
  <2>2. \A d \in 0 .. MaxTime : DayCounts[d] = 0 /\ DayNets[d] = 0
    BY <1>1, <2>1 DEF DayCounts, DayNets, EmptyDay
  <2>. QED
    BY <2>1, <2>2, TotalOfZeros DEF Booked, NetSum
<1>5. TradeSum = 0
  <2>1. Len(trades) = 0 /\ \A k \in 0 .. 0 : TradeNets[k] = 0
    BY <1>1 DEF TradeNets
  <2>. QED
    BY <2>1, TotalOfZeros DEF TradeSum
<1>6. ShutdownDue = 0 /\ Opening = 0 /\ Booking = 0 /\ Closing = 0 /\ watch.pc # "rollup"
  BY <1>1, OnesAre DEF ExecIdle, WatchSleep
<1>7. ExitsLost = 0
  BY <1>3, <1>4 DEF ExitsLost
<1>. QED
  BY <1>1, <1>2, <1>3, <1>4, <1>5, <1>6, <1>7
  DEF Balanced, FillsPaid, ExitsPaid, BookedOnce, NetsAgree, Paid, Counted

(* So they hold always.                                                    *)
LEMMA AccountsInvariance == Spec => []Accounts
<1>1. Init => Balanced
  BY AccountsInit
<1>2. IndInv /\ IndInv' /\ Balanced /\ [Next]_vars => Balanced'
  BY AccountsStep DEF IndInv
<1>3. Spec => []Balanced
  BY <1>1, <1>2, Invariance, PTL DEF Spec
<1>. QED
  BY <1>3, AccountsAre, PTL

(* Between the fill of an entry and its trade lies an await: every fill    *)
(* that no trade records, but for the one in progress, was left by a       *)
(* failure or a restart of the process, whatever came between.             *)
THEOREM FillsAccounted == Spec => []FillsLostOnlyByFaults
<1>1. TypeOK /\ Accounts => FillsLostOnlyByFaults
  <2>. SUFFICES ASSUME TypeOK, Accounts PROVE FillsLostOnlyByFaults
    OBVIOUS
  <2>. PICK lost \in Int, paid \in Int, hand \in Int :
          lost = Cardinality(OrphanFills) /\ paid = faults /\ hand = OneIf(exec.pc = "open")
    BY AccountTypes, OnesAre DEF AccountsTyped, Fills, Opening
  <2>. PICK due \in 0 .. 1 : due = ShutdownDue
    BY OnesAre
  <2>1. lost + due <= paid + hand
    BY DEF Accounts, FillAccount
  <2>2. lost <= paid + hand
    BY <2>1
  <2>. QED
    BY <2>2 DEF FillsLostOnlyByFaults
<1>. QED
  BY <1>1, TypeCorrect, AccountsInvariance, PTL

(* An exit order, the close of its trade and the daily aggregate are three *)
(* transactions: every exit order that closed nothing and every close that *)
(* is missing from the aggregate, but for the ones in progress, was left   *)
(* by a failure of its own, and no close is ever counted twice.            *)
THEOREM ExitsAccounted == Spec => []ExitsLostOnlyByFaults
<1>1. TypeOK /\ Accounts => ExitsLostOnlyByFaults
  <2>. SUFFICES ASSUME TypeOK, Accounts PROVE ExitsLostOnlyByFaults
    OBVIOUS
  <2>. PICK lost \in Int, paid \in Int, hand \in Int :
          lost = ExitsLost /\ paid = faults /\ hand = OneIf(watch.pc \in {"close", "rollup"})
    BY AccountTypes, OnesAre, LostIsInt DEF AccountsTyped, Closing
  <2>. PICK due \in 0 .. 1, book \in 0 .. 1 :
          due = ShutdownDue /\ book = OneIf(watch.pc = "rollup")
    BY OnesAre DEF Booking
  <2>. PICK booked \in Int, closes \in Int : booked = Booked /\ closes = Cardinality(Closed)
    BY AccountTypes DEF AccountsTyped, Closes
  <2>1. lost + due <= paid + hand /\ booked + book <= closes
    BY DEF Accounts, ExitAccount, ExitsLost, Extras, Closes
  <2>2. lost <= paid + hand /\ booked <= closes
    BY <2>1
  <2>. QED
    BY <2>2 DEF ExitsLostOnlyByFaults, ExitsLost, Extras, Closes
<1>. QED
  BY <1>1, TypeCorrect, AccountsInvariance, PTL

(* Without a failure, the results in the daily aggregates add up to those  *)
(* of the closed trades: the two tables are written apart, but only a      *)
(* failure can come between them.                                          *)
THEOREM LedgersAgree == Spec => []LedgerAgrees
<1>1. Accounts => LedgerAgrees
  BY DEF Accounts, NetAccount
<1>. QED
  BY <1>1, AccountsInvariance, PTL
=============================================================================
