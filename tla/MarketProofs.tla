---------------------------- MODULE MarketProofs ----------------------------
(***************************************************************************)
(* What TLAPS proves about Market, for every value of its constants.  The  *)
(* types hold whatever interleaves; that request and decision of a job are *)
(* one holds as long as neither the timer nor the users interleave; that   *)
(* an order has one driver and follows it, for one call after the other.   *)
(***************************************************************************)
EXTENDS Market, FiniteSetTheorems, WellFoundedInduction, TLAPS

-----------------------------------------------------------------------------
(***************************************************************************)
(* Least and greatest elements.                                            *)
(***************************************************************************)
\* The least element of a set of naturals belongs to the set.
LEMMA MinIn ==
    ASSUME NEW S, S \subseteq Nat, S # {}
    PROVE  Min(S) \in S
<1>1. PICK m \in S : \A x \in S : ~(<<x, m>> \in OpToRel(<, Nat))
  BY NatLessThanWellFounded, WFMin
<1>2. ASSUME NEW x \in S PROVE m <= x
  <2>1. x \in Nat /\ m \in Nat
    OBVIOUS
  <2>2. ~(x < m)
    BY <1>1, <2>1 DEF OpToRel
  <2> QED BY <2>1, <2>2
<1> QED BY <1>2 DEF Min

\* The greatest element of a bounded set belongs to it and bounds it.
LEMMA MaxIn ==
    ASSUME NEW n \in Nat, NEW S, S \subseteq 0..n, S # {}
    PROVE  Max(S) \in S /\ \A x \in S : Max(S) >= x
<1> DEFINE below == {n - x : x \in S}
<1>1. below \subseteq Nat /\ below # {}
  <2>1. \A x \in S : x \in 0..n /\ n - x \in Nat
    OBVIOUS
  <2> QED BY <2>1
<1>2. PICK m \in below : \A x \in below : ~(<<x, m>> \in OpToRel(<, Nat))
  BY <1>1, NatLessThanWellFounded, WFMin
<1>3. PICK s \in S : m = n - s
  OBVIOUS
<1>4. ASSUME NEW x \in S PROVE s >= x
  <2>1. n - x \in below /\ n - x \in Nat /\ m \in Nat
    BY <1>1
  <2>2. ~(n - x < m)
    BY <1>2, <2>1 DEF OpToRel
  <2> QED BY <2>1, <2>2, <1>3
<1> QED BY <1>4 DEF Max

-----------------------------------------------------------------------------
(***************************************************************************)
(* The rows.  A row that has a status has a driver, one that has a         *)
(* decision has an order, and a row keeps its order.                       *)
(***************************************************************************)
Open == {Requested, Agreed}

Taken == AcceptedByShipper..JourneyCompleted

RowFilled(x) ==
    /\ x \in RowType
    /\ x.decision # NoStatus => x.order # None
    /\ x.driver = None => x.order = None /\ x.status = NoStatus

RowsFilled(rows) == rows \in [Rows -> RowType] /\ \A r \in Rows : RowFilled(rows[r])

OrdersKept(rows, rows2) ==
    \A r \in Rows : rows[r].order # None => rows2[r].order = rows[r].order

\* Request and decision of a row agree: while the driver waits there is no
\* decision, while the request lives it is the decision, and the decision of a
\* driver at work is that of its request.
RowWhole(x) ==
    /\ x.status = Waiting => x.decision = NoStatus /\ x.order = None
    /\ x.status \in Active \ {Waiting} => x.decision = x.status
    /\ x.decision \in Working => x.status = x.decision

RowsWhole(rows) == \A r \in Rows : RowWhole(rows[r])

\* Where the ids of the statuses lie.
LEMMA Places ==
    /\ NoStatus = 0 /\ Waiting = 1 /\ Requested = 2 /\ Agreed = 3 /\ AcceptedByShipper = 4
    /\ JourneyStarted = 8 /\ JourneyCompleted = 9 /\ GoToLoadingPlace = 5
    /\ Active = 1..8 /\ Working = 4..8 /\ Taken = 4..9 /\ Open = {2, 3}
    /\ Statuses = 0..13 \cup {16, 17, 18}
    /\ {CancelledByShipper, RejectedByShipper, CancelledAfterAccept, CancelledByAdmin,
        NoAnswer, NotSelectedInBid, CancelledBeforeAccept} = 10..13 \cup {16, 17, 18}
BY DEF NoStatus, Waiting, Requested, Agreed, AcceptedByShipper, JourneyStarted, JourneyCompleted,
       GoToLoadingPlace, Active, Working, Taken, Open, Statuses, CancelledByShipper,
       RejectedByShipper, CancelledAfterAccept, CancelledByAdmin, NoAnswer, NotSelectedInBid,
       CancelledBeforeAccept

\* Statuses a request and its decision may end in.
Ended == {CancelledByShipper, RejectedByShipper, CancelledAfterAccept, CancelledByAdmin,
          NoAnswer, NotSelectedInBid, CancelledBeforeAccept}

\* Some rows get one status, request and decision alike.
LEMMA BothRows ==
    ASSUME NEW rows, RowsFilled(rows), NEW chosen, NEW s \in Statuses \ {NoStatus, Waiting},
           \A r \in Rows \cap chosen : rows[r].order # None
    PROVE  LET new == Both(rows, chosen, s)
           IN  /\ RowsFilled(new) /\ OrdersKept(rows, new)
               /\ RowsWhole(rows) => RowsWhole(new)
               /\ \A r \in Rows : /\ r \notin chosen => new[r] = rows[r]
                                  /\ r \in chosen => new[r].status = s /\ new[r].decision = s
                                  /\ new[r].order = rows[r].order
                                  /\ new[r].driver = rows[r].driver
<1> DEFINE new == Both(rows, chosen, s)
<1>1. /\ new = [r \in Rows |-> new[r]]
      /\ \A r \in Rows : new[r] = IF r \in chosen
                                  THEN [rows[r] EXCEPT !.status = s, !.decision = s]
                                  ELSE rows[r]
  BY DEF Both
<1> HIDE DEF new
<1>2. ASSUME NEW r \in Rows, r \in chosen
      PROVE  /\ new[r] \in RowType
             /\ new[r].status = s /\ new[r].decision = s
             /\ new[r].order = rows[r].order /\ new[r].driver = rows[r].driver
  <2>1. new[r] = [rows[r] EXCEPT !.status = s, !.decision = s] /\ rows[r] \in RowType
    BY <1>1, <1>2 DEF RowsFilled
  <2> QED BY <2>1 DEF RowType
<1>3. ASSUME NEW r \in Rows PROVE RowFilled(new[r]) /\ (RowWhole(rows[r]) => RowWhole(new[r]))
  <2>1. CASE r \notin chosen
    BY <2>1, <1>1 DEF RowsFilled
  <2>2. CASE r \in chosen
    <3>1. rows[r].order # None /\ RowFilled(rows[r])
      BY <2>2 DEF RowsFilled
    <3>2. RowFilled(new[r])
      BY <2>2, <1>2, <3>1 DEF RowFilled
    <3>3. RowWhole(new[r])
      BY <2>2, <1>2 DEF RowWhole
    <3> QED BY <3>2, <3>3
  <2> QED BY <2>1, <2>2
<1>4. RowsFilled(new) /\ OrdersKept(rows, new) /\ (RowsWhole(rows) => RowsWhole(new))
  BY <1>1, <1>2, <1>3 DEF RowsFilled, OrdersKept, RowsWhole, RowFilled
<1> QED BY <1>1, <1>2, <1>4 DEF new

\* A new request with an order, in a row that has no driver.
LEMMA InsertRow ==
    ASSUME NEW rows, RowsFilled(rows), NEW f \in Rows, rows[f].driver = None,
           NEW d \in Drivers, NEW o \in Orders, NEW s \in {Requested, Agreed, JourneyStarted}
    PROVE  LET new == [rows EXCEPT ![f] = New(d, o, s)]
           IN  /\ RowsFilled(new) /\ OrdersKept(rows, new)
               /\ RowsWhole(rows) => RowsWhole(new)
               /\ \A r \in Rows : r # f => new[r] = rows[r]
               /\ new[f].decision = s /\ new[f].order = o
<1> DEFINE x == New(d, o, s)
           new == [rows EXCEPT ![f] = x]
<1>1. x = [driver |-> d, order |-> o, status |-> s, decision |-> s, byDriver |-> TRUE]
  BY MarketAssumption DEF New
<1>2. x.driver = d /\ x.order = o /\ x.status = s /\ x.decision = s /\ x \in RowType
  BY <1>1, Places DEF RowType
<1>3. RowFilled(x) /\ RowWhole(x)
  BY <1>2, Places, MarketAssumption DEF RowFilled, RowWhole
<1> HIDE DEF x
<1>4. /\ new \in [Rows -> RowType] /\ new[f] = x
      /\ \A r \in Rows : r # f => new[r] = rows[r]
  BY <1>2 DEF RowsFilled
<1>5. rows[f].order = None
  BY DEF RowsFilled, RowFilled
<1> HIDE DEF new
<1>6. RowsFilled(new) /\ OrdersKept(rows, new) /\ (RowsWhole(rows) => RowsWhole(new))
  BY <1>3, <1>4, <1>5 DEF RowsFilled, OrdersKept, RowsWhole
<1> QED BY <1>2, <1>4, <1>6 DEF new, x

\* Some requests are ended, their decisions left as they were.
LEMMA StatusRows ==
    ASSUME NEW rows, RowsFilled(rows), NEW chosen, NEW s \in Ended,
           \A r \in Rows \cap chosen : rows[r].driver # None
    PROVE  LET new == [r \in Rows |-> IF r \in chosen THEN [rows[r] EXCEPT !.status = s]
                                      ELSE rows[r]]
           IN  /\ RowsFilled(new) /\ OrdersKept(rows, new)
               /\ (RowsWhole(rows) /\ \A r \in Rows \cap chosen : rows[r].decision \notin Working)
                    => RowsWhole(new)
               /\ \A r \in Rows : new[r].decision = rows[r].decision /\ new[r].order = rows[r].order
                                  /\ new[r].driver = rows[r].driver
<1> DEFINE new == [r \in Rows |-> IF r \in chosen THEN [rows[r] EXCEPT !.status = s]
                                  ELSE rows[r]]
<1>1. s \in Statuses \ Active /\ s # Waiting
  BY Places DEF Ended
<1>2. ASSUME NEW r \in Rows
      PROVE  /\ new[r] \in RowType
             /\ new[r].status = IF r \in chosen THEN s ELSE rows[r].status
             /\ new[r].decision = rows[r].decision
             /\ new[r].order = rows[r].order /\ new[r].driver = rows[r].driver
  <2>1. new[r] = (IF r \in chosen THEN [rows[r] EXCEPT !.status = s] ELSE rows[r])
        /\ rows[r] \in RowType
    BY DEF RowsFilled
  <2> HIDE DEF new
  <2> QED BY <2>1, <1>1 DEF RowType
<1>3. new \in [Rows -> RowType]
  BY <1>2
<1> HIDE DEF new
<1>4. ASSUME NEW r \in Rows PROVE RowFilled(new[r])
  BY <1>1, <1>2 DEF RowsFilled, RowFilled
<1>5. ASSUME NEW r \in Rows, RowWhole(rows[r]), r \in chosen => rows[r].decision \notin Working
      PROVE  RowWhole(new[r])
  BY <1>1, <1>2, <1>5 DEF RowWhole
<1>6. /\ RowsFilled(new) /\ OrdersKept(rows, new)
      /\ (RowsWhole(rows) /\ \A r \in Rows \cap chosen : rows[r].decision \notin Working)
            => RowsWhole(new)
  BY <1>2, <1>3, <1>4, <1>5 DEF RowsFilled, OrdersKept, RowsWhole
<1> QED BY <1>2, <1>6 DEF new

\* updateNegativeJourneyStatus: what was open or accepted is ended.
LEMMA NegativeRows ==
    ASSUME NEW rows, RowsFilled(rows), NEW chosen, NEW s \in Ended,
           \A r \in Rows \cap chosen : rows[r].order # None
    PROVE  LET new == Negative(rows, chosen, s)
           IN  /\ RowsFilled(new) /\ OrdersKept(rows, new)
               /\ RowsWhole(rows) => RowsWhole(new)
               /\ \A r \in Rows :
                    /\ new[r].order = rows[r].order
                    /\ new[r].decision =
                           (IF r \in chosen /\ rows[r].decision \in Open \cup {AcceptedByShipper}
                            THEN s ELSE rows[r].decision)
<1> DEFINE new == Negative(rows, chosen, s)
           Closed(t) == IF t \in Open \cup {AcceptedByShipper} THEN s ELSE t
<1>1. s \in Statuses \ (Active \cup {NoStatus})
  BY Places DEF Ended
<1>2. \A r \in Rows : new[r] = IF r \in chosen
                               THEN [rows[r] EXCEPT !.status = Closed(@), !.decision = Closed(@)]
                               ELSE rows[r]
  BY DEF Negative, Open
<1>3. new = [r \in Rows |-> new[r]]
  BY DEF Negative
<1> HIDE DEF new
<1>4. ASSUME NEW r \in Rows
      PROVE  /\ new[r] \in RowType
             /\ new[r].status = IF r \in chosen THEN Closed(rows[r].status) ELSE rows[r].status
             /\ new[r].decision = IF r \in chosen THEN Closed(rows[r].decision) ELSE rows[r].decision
             /\ new[r].order = rows[r].order /\ new[r].driver = rows[r].driver
  <2>1. rows[r] \in RowType /\ rows[r].status \in Statuses /\ rows[r].decision \in Statuses
    BY DEF RowsFilled, RowType
  <2>2. Closed(rows[r].status) \in Statuses /\ Closed(rows[r].decision) \in Statuses
    BY <2>1, <1>1
  <2> HIDE DEF Closed
  <2> QED BY <2>1, <2>2, <1>2 DEF RowType
<1>5. ASSUME NEW r \in Rows PROVE RowFilled(new[r]) /\ (RowWhole(rows[r]) => RowWhole(new[r]))
  <2>1. RowFilled(rows[r]) /\ (r \in chosen => rows[r].order # None)
    BY DEF RowsFilled
  <2>2. RowFilled(new[r])
    BY <2>1, <1>1, <1>4 DEF RowFilled
  <2>3. RowWhole(rows[r]) => RowWhole(new[r])
    BY <2>1, <1>1, <1>4, Places DEF RowWhole
  <2> QED BY <2>2, <2>3
<1>6. RowsFilled(new) /\ OrdersKept(rows, new) /\ (RowsWhole(rows) => RowsWhole(new))
  BY <1>3, <1>4, <1>5 DEF RowsFilled, OrdersKept, RowsWhole, RowFilled
<1> QED BY <1>4, <1>6 DEF new

-----------------------------------------------------------------------------
(***************************************************************************)
(* Types, whatever interleaves.  The rows a call has read keep their       *)
(* orders.                                                                 *)
(***************************************************************************)
CallNamed(c, rows) ==
    /\ c.step \in {"seek", "bid", "cancel"} => c.driver \in Drivers
    /\ c.step \in Steps \ {"seek", "ask"} => \A r \in c.rows \cup c.rest : rows[r].order # None

MarketTyped ==
    /\ order \in [Orders -> Statuses]
    /\ RowsFilled(row)
    /\ calls \subseteq Calls
    /\ \A c \in calls : CallNamed(c, row)

\* A step keeps the types and what makes a row whole.
Kept == MarketTyped' /\ (RowsWhole(row) => RowsWhole(row'))

\* What a call holds.
LEMMA CallShape ==
    ASSUME NEW c \in Calls
    PROVE  /\ c.order \in Orders
           /\ c.step = "correct" => /\ c.driver = None /\ c.from \in Active
                                    /\ c.to \in Active \cup {JourneyCompleted}
           /\ c.step # "correct" => /\ c.step \in Steps /\ c.driver \in Drivers \cup {None}
                                    /\ c.rows \subseteq Rows /\ c.rest \subseteq Rows
                                    /\ c.found \in BOOLEAN
BY DEF Calls, Steps

\* The names of the steps.
LEMMA StepNames ==
    /\ "seek" \in Steps /\ "ask" \in Steps /\ "bid" \in Steps /\ "select" \in Steps
    /\ "reject" \in Steps /\ "cancel" \in Steps /\ "withdraw" \in Steps
    /\ "timeout" \in Steps /\ "expire" \in Steps /\ "correct" \notin Steps
BY DEF Steps

\* What a new call holds.
LEMMA CallMade ==
    ASSUME NEW step \in Steps, NEW d \in Drivers \cup {None}, NEW o \in Orders,
           NEW rows \in SUBSET Rows, NEW rest \in SUBSET Rows, NEW found \in BOOLEAN
    PROVE  LET k == Call(step, d, o, rows, rest, found)
           IN  /\ k \in Calls /\ k.step = step /\ k.driver = d /\ k.order = o
               /\ k.rows = rows /\ k.rest = rest /\ k.found = found
BY DEF Call, Calls

\* Orders keep their rows, so a call that was well named stays so.
LEMMA TypedStep ==
    ASSUME MarketTyped, order' \in [Orders -> Statuses], RowsFilled(row'), OrdersKept(row, row'),
           calls' \subseteq Calls, \A c \in calls' \ calls : CallNamed(c, row')
    PROVE  MarketTyped'
<1>1. ASSUME NEW c \in calls' \cap calls PROVE CallNamed(c, row')
  <2>1. CallNamed(c, row) /\ c \in Calls
    BY DEF MarketTyped
  <2>2. c.step \in Steps => c.rows \subseteq Rows /\ c.rest \subseteq Rows
    BY <2>1, CallShape DEF Steps
  <2> QED BY <2>1, <2>2 DEF CallNamed, OrdersKept
<1> QED BY <1>1 DEF MarketTyped

\* A row that is free, if there is one.
LEMMA FreeRow ==
    ASSUME Free # {}
    PROVE  Min(Free) \in Rows /\ row[Min(Free)].driver = None
<1>1. Free \subseteq Nat
  BY DEF Free, Rows
<1>2. Min(Free) \in Free
  BY <1>1, MinIn
<1> QED BY <1>2 DEF Free

\* A transaction that is committed or rolled back.
LEMMA Committed ==
    ASSUME NEW newOrder, NEW newRow, Commit(newOrder, newRow)
    PROVE  (order' = newOrder /\ row' = newRow) \/ (order' = order /\ row' = row)
BY DEF Commit

\* The same rows.
LEMMA SameRows ==
    ASSUME NEW rows, RowsFilled(rows)
    PROVE  OrdersKept(rows, rows)
BY DEF OrdersKept

\* What is typed here is what TypeOK says.
LEMMA TypeOfMarket == MarketTyped => TypeOK
BY DEF MarketTyped, TypeOK, RowsFilled

\* A step that only begins a call.
LEMMA BeginTyped ==
    ASSUME MarketTyped, UNCHANGED <<order, row>>, NEW k, Begin(k), k \in Calls, CallNamed(k, row)
    PROVE  Kept
<1>1. calls' \subseteq Calls /\ \A c \in calls' \ calls : c = k
  BY DEF MarketTyped, Begin
<1>2. OrdersKept(row, row') /\ RowsFilled(row') /\ order' \in [Orders -> Statuses]
  BY SameRows DEF MarketTyped
<1> QED BY <1>1, <1>2, TypedStep DEF Kept

\* A step that begins no call.
LEMMA EndTyped ==
    ASSUME MarketTyped, order' \in [Orders -> Statuses], RowsFilled(row'), OrdersKept(row, row'),
           RowsWhole(row) => RowsWhole(row'), calls' \subseteq calls
    PROVE  Kept
BY TypedStep DEF MarketTyped, Kept

\* A driver's live rows.
LEMMA LiveOf ==
    ASSUME MarketTyped, NEW d \in Drivers
    PROVE  /\ LiveRows(d) \in SUBSET Rows
           /\ \A r \in LiveRows(d) : row[r].driver = d /\ row[r].driver # None
BY MarketAssumption DEF LiveRows, Of

\* A row with a decision has an order.
LEMMA DecidedHasOrder ==
    ASSUME MarketTyped, NEW r \in Rows, row[r].decision # NoStatus
    PROVE  row[r].order # None /\ row[r].order \in Orders /\ row[r].driver # None
BY DEF MarketTyped, RowsFilled, RowFilled, RowType

\* What a driver does keeps the types.
LEMMA DriverTyped ==
    ASSUME MarketTyped, NEW d \in Drivers, DriverAction(d)
    PROVE  Kept
<1>1. CASE GoOnline(d)
  <2> DEFINE f == Min(Free)
             x == New(d, None, Waiting)
  <2>1. /\ f \in Rows /\ row[f].driver = None
        /\ row' = [row EXCEPT ![f] = x] /\ order' = order /\ calls' = calls
    BY <1>1, FreeRow DEF GoOnline
  <2>2. x \in RowType /\ x.driver = d /\ x.decision = NoStatus /\ x.order = None /\ x.status = Waiting
    BY Places DEF New, RowType
  <2>3. RowFilled(x) /\ RowWhole(x)
    BY <2>2, MarketAssumption, Places DEF RowFilled, RowWhole
  <2>4. row[f].order = None
    BY <2>1 DEF MarketTyped, RowsFilled, RowFilled
  <2> HIDE DEF f, x
  <2>5. RowsFilled(row') /\ OrdersKept(row, row') /\ (RowsWhole(row) => RowsWhole(row'))
    BY <2>1, <2>2, <2>3, <2>4 DEF MarketTyped, RowsFilled, OrdersKept, RowsWhole
  <2> QED BY <2>1, <2>5, EndTyped DEF MarketTyped
<1>2. CASE GoOffline(d)
  <2>1. PICK r \in LiveRows(d) : /\ row' = [row EXCEPT ![r].status = CancelledBeforeAccept]
                                 /\ row[r].order = None
    BY <1>2 DEF GoOffline
  <2>2. r \in Rows /\ row[r].driver # None /\ order' = order /\ calls' = calls
    BY <1>2, LiveOf DEF GoOffline
  <2> DEFINE chosen == {r}
             s == CancelledBeforeAccept
  <2>3. row' = [q \in Rows |-> IF q \in chosen THEN [row[q] EXCEPT !.status = s] ELSE row[q]]
    BY <2>1, <2>2 DEF MarketTyped, RowsFilled
  <2>4. s \in Ended /\ \A q \in Rows \cap chosen : row[q].driver # None
    BY <2>2 DEF Ended
  <2>5. \A q \in Rows \cap chosen : row[q].decision \notin Working
    BY <2>1, Places DEF MarketTyped, RowsFilled, RowFilled
  <2> HIDE DEF chosen, s
  <2>6. RowsFilled(row') /\ OrdersKept(row, row') /\ (RowsWhole(row) => RowsWhole(row'))
    BY <2>3, <2>4, <2>5, StatusRows DEF MarketTyped
  <2> QED BY <2>2, <2>6, EndTyped DEF MarketTyped
<1>3. ASSUME NEW byDriver \in BOOLEAN, CancelRead(d, byDriver) PROVE Kept
  <2>1. PICK r \in LiveRows(d) :
          /\ row[r].order # None
          /\ Begin(Call("cancel", d, row[r].order, {r}, IF byDriver THEN {r} ELSE {},
                        row[r].status >= Agreed))
    BY <1>3 DEF CancelRead
  <2> DEFINE o == row[r].order
             rest == IF byDriver THEN {r} ELSE {}
             found == row[r].status >= Agreed
             k == Call("cancel", d, o, {r}, rest, found)
  <2>2. r \in Rows /\ o \in Orders /\ row[r].status \in Nat
    BY <2>1, LiveOf, Places DEF MarketTyped, RowsFilled, RowType
  <2>3. found \in BOOLEAN /\ rest \in SUBSET Rows /\ {r} \in SUBSET Rows /\ "cancel" \in Steps
    BY <2>2 DEF Steps
  <2>4. \A q \in {r} \cup rest : q = r
    OBVIOUS
  <2> HIDE DEF found, rest, o
  <2>5. /\ k \in Calls /\ k.step = "cancel" /\ k.driver = d /\ k.rows = {r} /\ k.rest = rest
    BY <2>2, <2>3, CallMade
  <2> HIDE DEF k
  <2>6. CallNamed(k, row)
    BY <2>1, <2>4, <2>5 DEF CallNamed, o
  <2> QED BY <1>3, <2>1, <2>5, <2>6, BeginTyped DEF CancelRead, k, o, rest, found
<1>4. ASSUME NEW o \in Orders, Seek(d, o) PROVE Kept
  <2> DEFINE k == Call("seek", d, o, LiveRows(d), {}, TRUE)
  <2>1. k \in Calls /\ k.step = "seek" /\ k.driver = d
    BY LiveOf, StepNames DEF Call, Calls
  <2>2. CallNamed(k, row)
    BY <2>1 DEF CallNamed
  <2> HIDE DEF k
  <2> QED BY <1>4, <2>1, <2>2, BeginTyped DEF Seek, k
<1>5. ASSUME NEW o \in Orders, BidRead(d, o) PROVE Kept
  <2> DEFINE rows == {r \in Of(d) : r \in Decided(o, Active)}
             k == Call("bid", d, o, rows, {}, TRUE)
  <2>1. rows \in SUBSET Rows /\ \A r \in rows : row[r].order # None
    BY MarketAssumption DEF Of, Decided
  <2> HIDE DEF rows
  <2>2. k \in Calls /\ k.step = "bid" /\ k.driver = d /\ k.rows = rows /\ k.rest = {}
    BY <2>1, StepNames DEF Call, Calls
  <2> HIDE DEF k
  <2>3. CallNamed(k, row)
    BY <2>1, <2>2 DEF CallNamed
  <2> QED BY <1>5, <2>2, <2>3, BeginTyped DEF BidRead, k, rows
<1>6. ASSUME NEW o \in Orders, TakeFromStreet(d, o) PROVE Kept
  <2>1. /\ order' = [order EXCEPT ![o] = JourneyStarted] /\ calls' = calls
        /\ row' = [row EXCEPT ![Min(Free)] = New(d, o, JourneyStarted)]
        /\ Min(Free) \in Rows /\ row[Min(Free)].driver = None
    BY <1>6, FreeRow DEF TakeFromStreet
  <2>2. RowsFilled(row') /\ OrdersKept(row, row') /\ (RowsWhole(row) => RowsWhole(row'))
    BY <2>1, InsertRow DEF MarketTyped
  <2>3. order' \in [Orders -> Statuses]
    BY <2>1, Places DEF MarketTyped
  <2> QED BY <2>1, <2>2, <2>3, EndTyped
<1> QED BY <1>1, <1>2, <1>3, <1>4, <1>5, <1>6 DEF DriverAction

\* A decision moves request, decision and order to one status.
LEMMA MoveTyped ==
    ASSUME MarketTyped, NEW o \in Orders, NEW chosen, NEW s \in Statuses \ {NoStatus, Waiting},
           \A r \in Rows \cap chosen : row[r].order # None,
           Commit([order EXCEPT ![o] = s], Both(row, chosen, s)), calls' \subseteq calls
    PROVE  Kept
<1>1. CASE order' = [order EXCEPT ![o] = s] /\ row' = Both(row, chosen, s)
  <2>1. order' \in [Orders -> Statuses]
    BY <1>1 DEF MarketTyped
  <2>2. RowsFilled(row') /\ OrdersKept(row, row') /\ (RowsWhole(row) => RowsWhole(row'))
    BY <1>1, BothRows DEF MarketTyped
  <2> QED BY <2>1, <2>2, EndTyped
<1>2. CASE order' = order /\ row' = row
  BY <1>2, SameRows, EndTyped DEF MarketTyped
<1> QED BY <1>1, <1>2, Committed

\* What is done about a request keeps the types.
LEMMA RowTyped ==
    ASSUME MarketTyped, NEW r \in Rows, RowAction(r)
    PROVE  Kept
<1> DEFINE o == row[r].order
           Moves(s) == /\ Commit([order EXCEPT ![o] = s], Both(row, {r}, s)) /\ UNCHANGED calls
                       /\ row[r].decision # NoStatus
<1>1. ASSUME NEW s \in {Agreed, JourneyStarted, JourneyCompleted}, Moves(s) PROVE Kept
  <2> DEFINE chosen == {r}
  <2>1. o \in Orders /\ \A q \in Rows \cap chosen : row[q].order # None
    BY <1>1, DecidedHasOrder
  <2>2. s \in Statuses \ {NoStatus, Waiting} /\ calls' \subseteq calls
    BY <1>1, Places
  <2>3. Commit([order EXCEPT ![o] = s], Both(row, chosen, s))
    BY <1>1
  <2> HIDE DEF chosen, o, Moves
  <2> QED BY <2>1, <2>2, <2>3, MoveTyped
<1>2. CASE AcceptShipperRequest(r)
  <2>1. Moves(Agreed)
    BY <1>2, Places DEF AcceptShipperRequest
  <2> QED BY <2>1, <1>1
<1>3. CASE StartJourney(r)
  <2>1. Moves(JourneyStarted)
    BY <1>3, Places DEF StartJourney
  <2> QED BY <2>1, <1>1
<1>4. CASE CompleteJourney(r)
  <2>1. Moves(JourneyCompleted)
    BY <1>4, Places DEF CompleteJourney
  <2> QED BY <2>1, <1>1
<1> HIDE DEF Moves
<1>5. ASSUME NEW step \in {"select", "reject", "timeout"}, NEW rest \in SUBSET Rows,
             NEW found \in BOOLEAN, row[r].decision # NoStatus,
             \A q \in rest : row[q].decision # NoStatus,
             UNCHANGED <<order, row>>, Begin(Call(step, None, o, {r}, rest, found))
      PROVE  Kept
  <2> DEFINE k == Call(step, None, o, {r}, rest, found)
  <2>1. o \in Orders
    BY <1>5, DecidedHasOrder
  <2>2. k \in Calls /\ k.step = step /\ k.rows = {r} /\ k.rest = rest
    <3>1. step \in Steps /\ {r} \in SUBSET Rows /\ None \in Drivers \cup {None}
      BY <1>5, StepNames
    <3> HIDE DEF o
    <3> QED BY <3>1, <2>1, CallMade
  <2> HIDE DEF k
  <2>3. \A q \in {r} \cup rest : q \in Rows /\ row[q].order # None
    BY <1>5, DecidedHasOrder
  <2>4. CallNamed(k, row)
    BY <2>2, <2>3 DEF CallNamed
  <2> QED BY <1>5, <2>2, <2>4, BeginTyped DEF k
<1> HIDE DEF o
<1>6. CASE SelectRead(r)
  <2> DEFINE rest == Candidates(o) \ {r}
             step == "select"
             found == TRUE
  <2>1. /\ row[r].decision # NoStatus /\ rest \in SUBSET Rows
        /\ \A q \in rest : row[q].decision # NoStatus
    BY <1>6, Places DEF SelectRead, Candidates
  <2>2. UNCHANGED <<order, row>> /\ Begin(Call(step, None, o, {r}, rest, found))
    BY <1>6 DEF SelectRead, o
  <2>3. step \in {"select", "reject", "timeout"} /\ found \in BOOLEAN
    OBVIOUS
  <2> HIDE DEF rest, step, found
  <2> QED BY <2>1, <2>2, <2>3, <1>5
<1>7. CASE RejectRead(r)
  <2> DEFINE rest == {}
             step == "reject"
             found == Cardinality(Decided(row[r].order, {Agreed})) <= 1
  <2>1. /\ row[r].decision # NoStatus /\ rest \in SUBSET Rows
        /\ \A q \in rest : row[q].decision # NoStatus
        /\ UNCHANGED <<order, row>> /\ Begin(Call(step, None, o, {r}, rest, found))
    BY <1>7, Places DEF RejectRead, o
  <2>2. step \in {"select", "reject", "timeout"} /\ found \in BOOLEAN
    OBVIOUS
  <2> HIDE DEF rest, step, found
  <2> QED BY <2>1, <2>2, <1>5
<1>8. CASE TimeoutRead(r)
  <2> DEFINE rest == {}
             step == "timeout"
             found == TRUE
  <2>1. /\ row[r].decision # NoStatus /\ rest \in SUBSET Rows
        /\ \A q \in rest : row[q].decision # NoStatus
    BY <1>8, Places DEF TimeoutRead
  <2>2. UNCHANGED <<order, row>> /\ Begin(Call(step, None, o, {r}, rest, found))
    BY <1>8 DEF TimeoutRead, o
  <2>3. step \in {"select", "reject", "timeout"} /\ found \in BOOLEAN
    OBVIOUS
  <2> HIDE DEF rest, step, found
  <2> QED BY <2>1, <2>2, <2>3, <1>5
<1> QED BY <1>2, <1>3, <1>4, <1>6, <1>7, <1>8 DEF RowAction

\* What is done about an order keeps the types.
LEMMA OrderTyped ==
    ASSUME MarketTyped, NEW o \in Orders, OrderAction(o)
    PROVE  Kept
<1>1. ASSUME NEW found \in SUBSET Rows, PlaceOrder(o, found) PROVE Kept
  <2>1. order' = [order EXCEPT ![o] = Waiting] /\ row' = row
    BY <1>1 DEF PlaceOrder
  <2>2. order' \in [Orders -> Statuses] /\ RowsFilled(row') /\ OrdersKept(row, row')
    BY <2>1, SameRows, Places DEF MarketTyped
  <2>3. CASE found = {}
    BY <1>1, <2>1, <2>2, <2>3, EndTyped DEF PlaceOrder
  <2>4. CASE found # {}
    <3> DEFINE k == Call("ask", None, o, found, {}, TRUE)
    <3>1. k \in Calls /\ k.step = "ask"
      BY StepNames DEF Call, Calls
    <3>2. calls' = calls \cup {k}
      BY <1>1, <2>4 DEF PlaceOrder, Begin
    <3> HIDE DEF k
    <3>3. CallNamed(k, row') /\ calls' \subseteq Calls
      BY <3>1, <3>2, StepNames DEF CallNamed, MarketTyped
    <3> QED BY <2>1, <2>2, <3>2, <3>3, TypedStep DEF Kept
  <2> QED BY <2>3, <2>4
<1>2. CASE WithdrawRead(o)
  <2> DEFINE rows == Decided(o, Statuses)
             k == Call("withdraw", None, o, rows, {}, TRUE)
  <2>1. rows \in SUBSET Rows /\ \A r \in rows : row[r].order # None
    BY MarketAssumption DEF Decided
  <2> HIDE DEF rows
  <2>2. k \in Calls /\ k.step = "withdraw" /\ k.rows = rows /\ k.rest = {}
    BY <2>1, StepNames DEF Call, Calls
  <2> HIDE DEF k
  <2>3. CallNamed(k, row)
    BY <2>1, <2>2 DEF CallNamed
  <2> QED BY <1>2, <2>2, <2>3, BeginTyped DEF WithdrawRead, k, rows
<1>3. CASE ReconcileRead(o)
  <2> DEFINE decisions == {row[r].decision : r \in Decided(o, Supporting)}
             to == IF decisions = {} THEN Waiting ELSE Max(decisions)
             k == [step |-> "correct", driver |-> None, order |-> o, from |-> order[o], to |-> to]
  <2>1. /\ order[o] \in Active /\ (decisions # {} => to > order[o]) /\ Begin(k)
        /\ UNCHANGED <<order, row>>
    BY <1>3 DEF ReconcileRead
  <2>2. to \in Active \cup {JourneyCompleted}
    <3>1. decisions \subseteq 2..9
      BY DEF Decided, Supporting, Requested, JourneyCompleted
    <3>2. decisions \subseteq 0..9
      BY <3>1
    <3> HIDE DEF decisions
    <3>3. decisions # {} => Max(decisions) \in 2..9
      BY <3>1, <3>2, MaxIn
    <3> QED BY <3>3, Places
  <2> HIDE DEF to
  <2>3. k \in Calls /\ k.step = "correct"
    BY <2>1, <2>2 DEF Calls
  <2> HIDE DEF k
  <2>4. CallNamed(k, row)
    BY <2>3, StepNames DEF CallNamed
  <2> QED BY <2>1, <2>3, <2>4, BeginTyped
<1>4. CASE SelectGone(o)
  <2> DEFINE open == Candidates(o)
             step == "select"
             named == {}
             found == TRUE
             k == Call(step, None, o, named, open, found)
  <2>1. open \in SUBSET Rows /\ \A r \in open : row[r].order # None
    BY DecidedHasOrder, Places DEF Candidates
  <2>2. /\ step \in Steps /\ named \in SUBSET Rows /\ None \in Drivers \cup {None}
        /\ found \in BOOLEAN
    BY StepNames
  <2>3. UNCHANGED <<order, row>> /\ Begin(k) /\ step \notin {"seek", "bid", "cancel"}
    BY <1>4 DEF SelectGone
  <2> HIDE DEF open, step, named, found
  <2>4. k \in Calls /\ k.step = step /\ k.rows = {} /\ k.rest = open
    BY <2>1, <2>2, CallMade DEF named
  <2> HIDE DEF k
  <2>5. CallNamed(k, row)
    BY <2>1, <2>3, <2>4 DEF CallNamed
  <2> QED BY <2>3, <2>4, <2>5, BeginTyped
<1> QED BY <1>1, <1>2, <1>3, <1>4 DEF OrderAction

\* The rows a driver that looks for work gets the order for.
Sought(rows, chosen, d, o) ==
    [r \in Rows |->
        IF r \notin chosen THEN rows[r]
        ELSE IF rows[r].order = None THEN New(d, o, Requested)
        ELSE [rows[r] EXCEPT !.status = Requested, !.decision = Requested]]

\* They are whole, and the order is the driver's only if the request had none.
LEMMA SoughtRows ==
    ASSUME NEW rows, RowsFilled(rows), NEW chosen, NEW d \in Drivers, NEW o \in Orders
    PROVE  LET new == Sought(rows, chosen, d, o)
           IN  /\ RowsFilled(new) /\ OrdersKept(rows, new)
               /\ RowsWhole(rows) => RowsWhole(new)
               /\ \A r \in Rows : /\ r \notin chosen => new[r] = rows[r]
                                  /\ r \in chosen => new[r].decision = Requested
                                  /\ (r \in chosen /\ rows[r].order = None) => new[r].order = o
<1> DEFINE new == Sought(rows, chosen, d, o)
           x == New(d, o, Requested)
           y(r) == [rows[r] EXCEPT !.status = Requested, !.decision = Requested]
<1>1. /\ new = [r \in Rows |-> new[r]]
      /\ \A r \in Rows : /\ r \notin chosen => new[r] = rows[r]
                         /\ (r \in chosen /\ rows[r].order = None) => new[r] = x
                         /\ (r \in chosen /\ rows[r].order # None) => new[r] = y(r)
  <2>1. new = [r \in Rows |-> IF r \notin chosen THEN rows[r]
                               ELSE IF rows[r].order = None THEN x ELSE y(r)]
    BY DEF Sought
  <2> HIDE DEF new, x, y
  <2> QED BY <2>1
<1> HIDE DEF new
<1>2. x = [driver |-> d, order |-> o, status |-> Requested, decision |-> Requested, byDriver |-> TRUE]
  BY MarketAssumption DEF New
<1>3. /\ x.driver = d /\ x.order = o /\ x.status = Requested /\ x.decision = Requested
      /\ x \in RowType
  BY <1>2, Places DEF RowType
<1>4. RowFilled(x) /\ RowWhole(x)
  BY <1>3, Places, MarketAssumption DEF RowFilled, RowWhole
<1> HIDE DEF x
<1>5. ASSUME NEW r \in Rows, rows[r].order # None
      PROVE  /\ RowFilled(y(r)) /\ RowWhole(y(r))
             /\ y(r).decision = Requested /\ y(r).order = rows[r].order
  <2>1. RowFilled(rows[r]) /\ rows[r] \in RowType
    BY DEF RowsFilled
  <2>2. /\ y(r) \in RowType /\ y(r).status = Requested /\ y(r).decision = Requested
        /\ y(r).order = rows[r].order /\ y(r).driver = rows[r].driver
    <3>1. Requested \in Statuses
      BY Places
    <3> QED BY <2>1, <3>1 DEF RowType
  <2> HIDE DEF y
  <2> QED BY <2>1, <2>2, <1>5, Places DEF RowFilled, RowWhole
<1> HIDE DEF y
<1>6. ASSUME NEW r \in Rows
      PROVE  RowFilled(new[r]) /\ (RowWhole(rows[r]) => RowWhole(new[r]))
  BY <1>1, <1>4, <1>5 DEF RowsFilled
<1>7. RowsFilled(new) /\ OrdersKept(rows, new) /\ (RowsWhole(rows) => RowsWhole(new))
  BY <1>1, <1>5, <1>6 DEF RowsFilled, OrdersKept, RowsWhole, RowFilled
<1> QED BY <1>1, <1>3, <1>5, <1>7 DEF new

\* A driver is asked.
LEMMA AskedRow ==
    ASSUME NEW rows, RowsFilled(rows), NEW f \in Rows, rows[f].status = Waiting,
           rows[f].order = None, NEW o \in Orders
    PROVE  LET new == [rows EXCEPT ![f].status = Requested, ![f].decision = Requested,
                                   ![f].order = o, ![f].byDriver = FALSE]
           IN  /\ RowsFilled(new) /\ OrdersKept(rows, new)
               /\ RowsWhole(rows) => RowsWhole(new)
               /\ \A r \in Rows : r # f => new[r] = rows[r]
               /\ new[f].decision = Requested /\ new[f].order = o
<1> DEFINE x == [rows[f] EXCEPT !.status = Requested, !.decision = Requested,
                                !.order = o, !.byDriver = FALSE]
           new == [rows EXCEPT ![f].status = Requested, ![f].decision = Requested,
                               ![f].order = o, ![f].byDriver = FALSE]
<1>1. RowFilled(rows[f]) /\ rows[f] \in RowType /\ rows \in [Rows -> RowType]
  BY DEF RowsFilled
<1>2. new = [rows EXCEPT ![f] = x]
  BY <1>1
<1>3. /\ x.driver = rows[f].driver /\ x.order = o /\ x.status = Requested
      /\ x.decision = Requested /\ x \in RowType
  <2>1. Requested \in Statuses
    BY Places
  <2> QED BY <1>1, <2>1 DEF RowType
<1> HIDE DEF x, new
<1>4. RowFilled(x) /\ RowWhole(x)
  BY <1>1, <1>3, Places, MarketAssumption DEF RowFilled, RowWhole
<1>5. /\ new \in [Rows -> RowType] /\ new[f] = x
      /\ \A r \in Rows : r # f => new[r] = rows[r]
  BY <1>1, <1>2, <1>3
<1>6. RowsFilled(new) /\ OrdersKept(rows, new) /\ (RowsWhole(rows) => RowsWhole(new))
  BY <1>4, <1>5 DEF RowsFilled, OrdersKept, RowsWhole
<1> QED BY <1>3, <1>5, <1>6 DEF new, x

\* A request and its decision are ended apart.
Cancelled(rows, chosen, s, t) ==
    [r \in Rows |-> IF r \in chosen THEN [rows[r] EXCEPT !.status = s, !.decision = t]
                    ELSE rows[r]]

\* Both are over, so the row is whole.
LEMMA CancelledRows ==
    ASSUME NEW rows, RowsFilled(rows), NEW chosen, NEW s \in Ended, NEW t \in Ended,
           \A r \in Rows \cap chosen : rows[r].order # None
    PROVE  LET new == Cancelled(rows, chosen, s, t)
           IN  /\ RowsFilled(new) /\ OrdersKept(rows, new)
               /\ RowsWhole(rows) => RowsWhole(new)
               /\ \A r \in Rows : /\ r \notin chosen => new[r] = rows[r]
                                  /\ r \in chosen => new[r].decision = t
                                  /\ new[r].order = rows[r].order
<1> DEFINE new == Cancelled(rows, chosen, s, t)
<1>1. s \in Statuses \ (Active \cup {NoStatus}) /\ t \in Statuses \ (Active \cup {NoStatus})
  BY Places DEF Ended
<1>2. ASSUME NEW r \in Rows
      PROVE  /\ new[r] \in RowType /\ new[r].order = rows[r].order
             /\ new[r].driver = rows[r].driver
             /\ r \in chosen => new[r].status = s /\ new[r].decision = t
             /\ r \notin chosen => new[r] = rows[r]
  <2>1. /\ rows[r] \in RowType
        /\ new[r] = (IF r \in chosen THEN [rows[r] EXCEPT !.status = s, !.decision = t]
                                     ELSE rows[r])
    BY DEF RowsFilled, Cancelled
  <2> HIDE DEF new
  <2> QED BY <2>1, <1>1 DEF RowType
<1>3. new \in [Rows -> RowType]
  BY <1>2 DEF Cancelled
<1> HIDE DEF new
<1>4. ASSUME NEW r \in Rows PROVE RowFilled(new[r]) /\ (RowWhole(rows[r]) => RowWhole(new[r]))
  <2>1. RowFilled(rows[r]) /\ (r \in chosen => rows[r].order # None)
    BY DEF RowsFilled
  <2>2. RowFilled(new[r])
    BY <2>1, <1>2 DEF RowFilled
  <2>3. r \in chosen => RowWhole(new[r])
    BY <1>1, <1>2, Places DEF RowWhole
  <2> QED BY <2>2, <2>3, <1>2
<1>5. RowsFilled(new) /\ OrdersKept(rows, new) /\ (RowsWhole(rows) => RowsWhole(new))
  BY <1>2, <1>3, <1>4 DEF RowsFilled, OrdersKept, RowsWhole
<1> QED BY <1>2, <1>5 DEF new

\* A call under way ends, or makes way for one that stands as well named.
LEMMA NextCall ==
    ASSUME MarketTyped, order' \in [Orders -> Statuses], RowsFilled(row'), OrdersKept(row, row'),
           NEW c \in calls, NEW k, k \in Calls, CallNamed(k, row'),
           calls' \in {calls \ {c}, (calls \ {c}) \cup {k}}
    PROVE  MarketTyped'
<1>1. calls' \subseteq Calls /\ \A e \in calls' \ calls : e = k
  BY DEF MarketTyped
<1> QED BY <1>1, TypedStep

\* The call that a step asks for is well named, whatever its rows hold.
LEMMA AskNamed ==
    ASSUME NEW o \in Orders, NEW found \in SUBSET Rows, NEW rows
    PROVE  LET k == Call("ask", None, o, found, {}, TRUE)
           IN  k \in Calls /\ CallNamed(k, rows) /\ k.step = "ask" /\ k.order = o
               /\ k.rows = found
<1> DEFINE k == Call("ask", None, o, found, {}, TRUE)
<1>1. k \in Calls /\ k.step = "ask" /\ k.order = o /\ k.rows = found
  BY StepNames DEF Call, Calls
<1> HIDE DEF k
<1>2. CallNamed(k, rows)
  BY <1>1, StepNames DEF CallNamed
<1> QED BY <1>1, <1>2 DEF k

\* The timer's call goes on to end the request it read.
LEMMA ExpireNamed ==
    ASSUME MarketTyped, NEW c \in calls, c.step = "timeout"
    PROVE  LET k == [c EXCEPT !.step = "expire"]
           IN  k \in Calls /\ CallNamed(k, row) /\ k.step = "expire" /\ k.order = c.order
               /\ k.rows = c.rows
<1> DEFINE k == [c EXCEPT !.step = "expire"]
<1>1. c \in Calls /\ CallNamed(c, row)
  BY DEF MarketTyped
<1>2. c \in [step : Steps, driver : Drivers \cup {None}, order : Orders,
             rows : SUBSET Rows, rest : SUBSET Rows, found : BOOLEAN]
  BY <1>1 DEF Calls
<1>3. k \in Calls /\ k.step = "expire" /\ k.order = c.order /\ k.rows = c.rows /\ k.rest = c.rest
  BY <1>2, StepNames DEF Calls
<1> HIDE DEF k
<1>4. CallNamed(k, row)
  BY <1>1, <1>3, StepNames DEF CallNamed
<1> QED BY <1>3, <1>4 DEF k

\* Drivers are asked one after the other.
LEMMA AskOn ==
    ASSUME MarketTyped, NEW c \in calls, c.step = "ask", NEW r \in c.rows, NEW rows
    PROVE  LET k == [c EXCEPT !.rows = @ \ {r}]
           IN  k \in Calls /\ CallNamed(k, rows) /\ k.step = "ask" /\ k.order = c.order
<1> DEFINE k == [c EXCEPT !.rows = @ \ {r}]
<1>1. c \in Calls
  BY DEF MarketTyped
<1>2. c \in [step : Steps, driver : Drivers \cup {None}, order : Orders,
             rows : SUBSET Rows, rest : SUBSET Rows, found : BOOLEAN]
  BY <1>1 DEF Calls
<1>3. k \in Calls /\ k.step = "ask" /\ k.order = c.order
  <2>1. c.rows \ {r} \in SUBSET Rows
    BY <1>2
  <2> QED BY <1>2, <2>1 DEF Calls
<1> HIDE DEF k
<1>4. CallNamed(k, rows)
  BY <1>3, StepNames DEF CallNamed
<1> QED BY <1>3, <1>4 DEF k

\* What a call under way holds.
LEMMA CallHeld ==
    ASSUME MarketTyped, NEW c \in calls
    PROVE  /\ c \in Calls /\ c.order \in Orders
           /\ c.step \in Steps => c.rows \subseteq Rows /\ c.rest \subseteq Rows
           /\ c.step \in {"seek", "bid", "cancel"} => c.driver \in Drivers
           /\ c.step \in Steps \ {"seek", "ask"} => \A r \in c.rows \cup c.rest :
                                                       r \in Rows /\ row[r].order # None
<1>1. c \in Calls /\ CallNamed(c, row)
  BY DEF MarketTyped
<1> QED BY <1>1, CallShape, StepNames DEF CallNamed

\* The driver that looked for work gets the order.
LEMMA SeekTyped ==
    ASSUME MarketTyped, NEW c \in calls, SeekWrite(c)
    PROVE  Kept
<1> DEFINE o == c.order
           d == c.driver
<1>1. c.step = "seek" /\ calls' \subseteq calls /\ o \in Orders /\ d \in Drivers
      /\ (c.rows = {} => Free # {})
  BY CallHeld, StepNames DEF SeekWrite, At, End
<1> DEFINE newRow == IF c.rows = {} THEN [row EXCEPT ![Min(Free)] = New(d, o, Requested)]
                     ELSE Sought(row, c.rows, d, o)
           newOrder == [order EXCEPT ![o] = Requested]
<1>2. Commit(newOrder, newRow)
  BY DEF SeekWrite, Sought
<1> HIDE DEF o, d
<1>3. newOrder \in [Orders -> Statuses]
  BY <1>1, Places DEF MarketTyped
<1>4. RowsFilled(newRow) /\ OrdersKept(row, newRow) /\ (RowsWhole(row) => RowsWhole(newRow))
  <2>1. CASE c.rows = {}
    BY <1>1, <2>1, FreeRow, InsertRow DEF MarketTyped
  <2>2. CASE c.rows # {}
    BY <1>1, <2>2, SoughtRows DEF MarketTyped
  <2> QED BY <2>1, <2>2
<1> HIDE DEF newRow, newOrder
<1> QED BY <1>1, <1>2, <1>3, <1>4, Committed, SameRows, EndTyped DEF MarketTyped

\* One of the drivers found is asked.
LEMMA AskTyped ==
    ASSUME MarketTyped, NEW c \in calls, NEW r \in Rows, Ask(c, r)
    PROVE  Kept
<1> DEFINE k == [c EXCEPT !.rows = @ \ {r}]
<1>1. c.step = "ask" /\ r \in c.rows /\ c.order \in Orders
      /\ calls' \in {calls \ {c}, (calls \ {c}) \cup {k}}
  BY CallHeld DEF Ask, At
<1>2. order' \in [Orders -> Statuses] /\ RowsFilled(row') /\ OrdersKept(row, row')
      /\ (RowsWhole(row) => RowsWhole(row'))
  <2>1. CASE row[r].status = Waiting /\ row[r].order = None
    <3>1. /\ order' = [order EXCEPT ![c.order] = Requested]
          /\ row' = [row EXCEPT ![r].status = Requested, ![r].decision = Requested,
                                ![r].order = c.order, ![r].byDriver = FALSE]
      BY <2>1 DEF Ask
    <3>2. order' \in [Orders -> Statuses]
      BY <3>1, <1>1, Places DEF MarketTyped
    <3> QED BY <1>1, <2>1, <3>1, <3>2, AskedRow DEF MarketTyped
  <2>2. CASE ~(row[r].status = Waiting /\ row[r].order = None)
    BY <2>2, SameRows DEF Ask, MarketTyped
  <2> QED BY <2>1, <2>2
<1>3. k \in Calls /\ CallNamed(k, row')
  BY <1>1, AskOn
<1> HIDE DEF k
<1> QED BY <1>1, <1>2, <1>3, NextCall DEF Kept

\* The driver's offer is written.
LEMMA BidTyped ==
    ASSUME MarketTyped, NEW c \in calls, BidWrite(c)
    PROVE  Kept
<1> DEFINE o == c.order
           d == c.driver
           given == {r \in LiveRows(d) : row[r].status < Agreed}
           left == [r \in Rows |-> IF r \in given THEN [row[r] EXCEPT !.status = CancelledAfterAccept]
                                   ELSE row[r]]
           newRow == [left EXCEPT ![Min(Free)] = New(d, o, Agreed)]
           newOrder == [order EXCEPT ![o] = Agreed]
<1>1. c.step = "bid" /\ calls' \subseteq calls /\ o \in Orders /\ d \in Drivers
      /\ \A r \in c.rows : r \in Rows /\ row[r].order # None
  BY CallHeld, StepNames DEF BidWrite, At, End
<1>2. \/ Commit(newOrder, Both(row, c.rows, Agreed))
      \/ Free # {} /\ Commit(newOrder, newRow)
      \/ UNCHANGED <<order, row>>
  BY DEF BidWrite
<1>3. newOrder \in [Orders -> Statuses]
  BY <1>1, Places DEF MarketTyped
<1>4. CASE UNCHANGED <<order, row>>
  BY <1>1, <1>4, SameRows, EndTyped DEF MarketTyped
<1>5. CASE Commit(newOrder, Both(row, c.rows, Agreed))
  <2>1. Agreed \in Statuses \ {NoStatus, Waiting}
    BY Places
  <2> HIDE DEF newOrder
  <2>2. /\ RowsFilled(Both(row, c.rows, Agreed)) /\ OrdersKept(row, Both(row, c.rows, Agreed))
        /\ RowsWhole(row) => RowsWhole(Both(row, c.rows, Agreed))
    BY <1>1, <2>1, BothRows DEF MarketTyped
  <2> QED BY <1>1, <1>3, <1>5, <2>2, Committed, SameRows, EndTyped DEF MarketTyped
<1>6. CASE Free # {} /\ Commit(newOrder, newRow)
  <2>1. \A r \in Rows \cap given : /\ row[r].driver # None
                                   /\ RowsWhole(row) => row[r].decision \notin Working
    <3> TAKE r \in Rows \cap given
    <3>1. row[r].driver # None /\ row[r].status \in Active /\ row[r].status < Agreed
      BY <1>1, LiveOf DEF LiveRows
    <3>2. RowWhole(row[r]) => row[r].decision \notin Working
      BY <3>1, Places DEF RowWhole
    <3> QED BY <3>1, <3>2 DEF RowsWhole
  <2>2. CancelledAfterAccept \in Ended
    BY DEF Ended
  <2> HIDE DEF given
  <2>3. /\ RowsFilled(left) /\ OrdersKept(row, left) /\ (RowsWhole(row) => RowsWhole(left))
        /\ \A r \in Rows : left[r].driver = row[r].driver
    BY <2>1, <2>2, StatusRows DEF MarketTyped
  <2> HIDE DEF left, newOrder
  <2>4. Min(Free) \in Rows /\ left[Min(Free)].driver = None
    BY <1>6, <2>3, FreeRow
  <2>5. RowsFilled(newRow) /\ OrdersKept(left, newRow) /\ (RowsWhole(left) => RowsWhole(newRow))
    BY <1>1, <2>3, <2>4, InsertRow
  <2> HIDE DEF newRow
  <2>6. OrdersKept(row, newRow)
    BY <2>3, <2>5 DEF OrdersKept
  <2> QED BY <1>1, <1>3, <1>6, <2>3, <2>5, <2>6, Committed, SameRows, EndTyped DEF MarketTyped
<1> QED BY <1>2, <1>4, <1>5, <1>6

\* The shipper's choice is written.
LEMMA SelectTyped ==
    ASSUME MarketTyped, NEW c \in calls, SelectWrite(c)
    PROVE  Kept
<1> DEFINE o == c.order
           rest == Both(row, c.rest, NotSelectedInBid)
           newRow == Both(rest, c.rows, AcceptedByShipper)
           newOrder == Chosen(c)
<1>1. calls' \subseteq calls /\ o \in Orders /\ Commit(newOrder, newRow)
      /\ \A r \in c.rows \cup c.rest : r \in Rows /\ row[r].order # None
  BY CallHeld, StepNames DEF SelectWrite, At, End
<1>2. newOrder \in [Orders -> Statuses]
  BY <1>1, Places DEF MarketTyped, Chosen
<1>3. {NotSelectedInBid, AcceptedByShipper} \subseteq Statuses \ {NoStatus, Waiting}
  BY Places
<1>4. RowsFilled(rest) /\ OrdersKept(row, rest) /\ (RowsWhole(row) => RowsWhole(rest))
  BY <1>1, <1>3, BothRows DEF MarketTyped
<1>5. \A r \in Rows \cap c.rows : rest[r].order # None
  BY <1>1, <1>4, MarketAssumption DEF OrdersKept
<1> HIDE DEF rest, newOrder
<1>6. RowsFilled(newRow) /\ OrdersKept(rest, newRow) /\ (RowsWhole(rest) => RowsWhole(newRow))
  BY <1>3, <1>4, <1>5, BothRows
<1> HIDE DEF newRow
<1>7. OrdersKept(row, newRow)
  BY <1>4, <1>6 DEF OrdersKept
<1> QED BY <1>1, <1>2, <1>4, <1>6, <1>7, Committed, SameRows, EndTyped DEF MarketTyped

\* The shipper turns an offer down, or withdraws the order.
LEMMA NegativeTyped ==
    ASSUME MarketTyped, NEW c \in calls, RejectWrite(c) \/ WithdrawWrite(c)
    PROVE  Kept
<1>1. /\ calls' \subseteq calls
      /\ \A r \in Rows \cap c.rows : row[r].order # None
  BY CallHeld, StepNames DEF RejectWrite, WithdrawWrite, At, End
<1>2. PICK s \in Ended : row' = Negative(row, c.rows, s)
  BY DEF RejectWrite, WithdrawWrite, Ended
<1>3. RowsFilled(row') /\ OrdersKept(row, row') /\ (RowsWhole(row) => RowsWhole(row'))
  BY <1>1, <1>2, NegativeRows DEF MarketTyped
<1>4. order' \in [Orders -> Statuses]
  BY Places DEF RejectWrite, WithdrawWrite, MarketTyped
<1> QED BY <1>1, <1>3, <1>4, EndTyped

\* A driver's or an admin's cancellation is written.
LEMMA CancelTyped ==
    ASSUME MarketTyped, NEW c \in calls, NEW found \in SUBSET Rows, CancelWrite(c, found)
    PROVE  Kept
<1> DEFINE status == IF c.found THEN CancelledAfterAccept ELSE CancelledBeforeAccept
           decision == IF c.rest # {} THEN status ELSE CancelledByAdmin
           k == Call("ask", None, c.order, found, {}, TRUE)
<1>1. /\ \A r \in Rows \cap c.rows : row[r].order # None
      /\ c.order \in Orders /\ order' = order
      /\ calls' \in {calls \ {c}, (calls \ {c}) \cup {k}}
      /\ row' = [r \in Rows |-> IF r \in c.rows
                                THEN [row[r] EXCEPT !.status = status, !.decision = decision]
                                ELSE row[r]]
  BY CallHeld, StepNames DEF CancelWrite, At
<1>2. status \in Ended /\ decision \in Ended
  BY DEF Ended
<1> HIDE DEF status, decision
<1> DEFINE chosen == c.rows
<1>3. RowsFilled(row') /\ OrdersKept(row, row') /\ (RowsWhole(row) => RowsWhole(row'))
  <2>1. row' = Cancelled(row, chosen, status, decision)
    BY <1>1 DEF Cancelled
  <2>2. RowsFilled(row) /\ \A r \in Rows \cap chosen : row[r].order # None
    BY <1>1 DEF MarketTyped
  <2> HIDE DEF chosen
  <2> QED BY <1>2, <2>1, <2>2, CancelledRows
<1>4. k \in Calls /\ CallNamed(k, row')
  BY <1>1, AskNamed
<1> HIDE DEF k
<1>5. order' \in [Orders -> Statuses]
  BY <1>1 DEF MarketTyped
<1> QED BY <1>1, <1>3, <1>4, <1>5, NextCall DEF Kept

\* The timer ends the request alone: the row stays whole if its driver is not
\* at work.
LEMMA TimeoutTyped ==
    ASSUME MarketTyped, NEW c \in calls, TimeoutWrite(c)
    PROVE  /\ MarketTyped'
           /\ (\A r \in c.rows : row[r].decision \notin Working) => Kept
<1>1. /\ \A r \in Rows \cap c.rows : row[r].order # None
      /\ c.order \in Orders /\ calls' \subseteq calls
      /\ row' = [r \in Rows |-> IF r \in c.rows THEN [row[r] EXCEPT !.status = NoAnswer]
                                ELSE row[r]]
  BY CallHeld, StepNames DEF TimeoutWrite, At, End
<1>2. NoAnswer \in Ended /\ \A r \in Rows \cap c.rows : row[r].driver # None
  BY <1>1 DEF Ended, MarketTyped, RowsFilled, RowFilled
<1> DEFINE chosen == c.rows
           s == NoAnswer
<1>3. /\ RowsFilled(row') /\ OrdersKept(row, row')
      /\ (RowsWhole(row) /\ \A r \in Rows \cap chosen : row[r].decision \notin Working)
            => RowsWhole(row')
  <2>1. row' = [r \in Rows |-> IF r \in chosen THEN [row[r] EXCEPT !.status = s] ELSE row[r]]
    BY <1>1
  <2>2. s \in Ended /\ (\A r \in Rows \cap chosen : row[r].driver # None) /\ RowsFilled(row)
    BY <1>2 DEF MarketTyped
  <2> HIDE DEF chosen, s
  <2> QED BY <2>1, <2>2, StatusRows
<1>4. order' \in [Orders -> Statuses]
  <2>1. order[c.order] \in Statuses
    BY <1>1 DEF MarketTyped
  <2> DEFINE alone == Cardinality(Decided(c.order, {Requested, Agreed, AcceptedByShipper})) = 1
             v == IF alone THEN Waiting ELSE IF order[c.order] = Requested THEN NoAnswer
                  ELSE order[c.order]
  <2>2. order' = [order EXCEPT ![c.order] = v]
    BY DEF TimeoutWrite
  <2> HIDE DEF alone
  <2>3. v \in Statuses
    BY <2>1, Places
  <2> QED BY <1>1, <2>2, <2>3 DEF MarketTyped
<1>5. MarketTyped'
  BY <1>1, <1>3, <1>4, TypedStep DEF MarketTyped
<1> QED BY <1>3, <1>5 DEF Kept

\* The timer reads the order again.
LEMMA CheckTyped ==
    ASSUME MarketTyped, NEW c \in calls, TimeoutCheck(c)
    PROVE  Kept
<1> DEFINE k == [c EXCEPT !.step = "expire"]
<1>1. c.step = "timeout" /\ order' = order /\ row' = row
      /\ calls' \in {calls \ {c}, (calls \ {c}) \cup {k}}
  BY DEF TimeoutCheck, At
<1>2. k \in Calls /\ CallNamed(k, row)
  BY <1>1, ExpireNamed
<1> HIDE DEF k
<1>3. CallNamed(k, row') /\ order' \in [Orders -> Statuses] /\ RowsFilled(row') /\ OrdersKept(row, row')
  BY <1>1, <1>2, SameRows DEF MarketTyped
<1>4. MarketTyped'
  BY <1>1, <1>2, <1>3, NextCall
<1> QED BY <1>1, <1>4 DEF Kept

\* The correction is written.
LEMMA ReconcileTyped ==
    ASSUME MarketTyped, NEW c \in calls, ReconcileApply(c)
    PROVE  Kept
<1>1. /\ c.step = "correct" /\ c.order \in Orders /\ c.to \in Statuses
      /\ row' = row /\ calls' \subseteq calls
      /\ order' = order \/ order' = [order EXCEPT ![c.order] = c.to]
  BY CallHeld, CallShape, Places DEF ReconcileApply, At, End
<1>2. order' \in [Orders -> Statuses]
  BY <1>1 DEF MarketTyped
<1> QED BY <1>1, <1>2, SameRows, EndTyped DEF MarketTyped

\* A step of a call keeps the types, and the rows whole unless the timer ends the
\* request of a driver at work.
LEMMA CallTyped ==
    ASSUME MarketTyped, NEW c \in calls, CallStep(c)
    PROVE  /\ MarketTyped'
           /\ (c.step = "expire" => \A r \in c.rows : row[r].decision \notin Working) => Kept
<1>1. CASE TimeoutWrite(c)
  BY <1>1, TimeoutTyped DEF TimeoutWrite, At
<1>2. CASE ~TimeoutWrite(c)
  BY <1>2, SeekTyped, AskTyped, BidTyped, SelectTyped, NegativeTyped, CancelTyped, CheckTyped,
     ReconcileTyped DEF CallStep, Kept
<1> QED BY <1>1, <1>2

\* The market begins with rows that are free.
LEMMA InitTyped == Init => MarketTyped /\ RowsWhole(row)
<1> SUFFICES ASSUME Init PROVE MarketTyped /\ RowsWhole(row)
  OBVIOUS
<1>1. NoRow \in RowType /\ RowFilled(NoRow) /\ RowWhole(NoRow)
  BY Places DEF NoRow, RowType, RowFilled, RowWhole
<1>2. RowsFilled(row) /\ RowsWhole(row)
  BY <1>1 DEF Init, RowsFilled, RowsWhole
<1> QED BY <1>2, Places DEF Init, MarketTyped

\* Every step keeps the types.
LEMMA MarketTypedStep == MarketTyped /\ [Next]_vars => MarketTyped'
<1> SUFFICES ASSUME MarketTyped, [Next]_vars PROVE MarketTyped'
  OBVIOUS
<1>1. CASE UNCHANGED vars
  BY <1>1 DEF vars, MarketTyped
<1>2. CASE Next
  BY <1>2, DriverTyped, RowTyped, OrderTyped, CallTyped DEF Next, Kept
<1> QED BY <1>1, <1>2

\* Orders, requests and calls have their types, a row with a status has a
\* driver and one with a decision an order, and a call keeps hold of rows that
\* have one, whichever parties interleave.
THEOREM MarketTypeCorrect == Spec => []TypeOK
<1>1. Spec => []MarketTyped
  BY InitTyped, MarketTypedStep, PTL DEF Spec
<1> QED BY <1>1, TypeOfMarket, PTL

-----------------------------------------------------------------------------
(***************************************************************************)
(* Request and decision of a job.  The timer ends a request and leaves the *)
(* decision; what it read must still stand when it writes.  It does if no  *)
(* call of the timer or of a user runs between its steps, and those of the *)
(* reconciliation may, for they touch no request.                          *)
(***************************************************************************)
Pending == {c \in calls : c.step # "correct"}

\* What the timer read is still open.
StillOpen(c) == c.step \in {"timeout", "expire"} => \A r \in c.rows : row[r].decision = Requested

JobInv ==
    /\ MarketTyped
    /\ RowsWhole(row)
    /\ \A c, e \in Pending : c = e
    /\ \A c \in Pending : StillOpen(c)

\* Nobody begins while a user or the timer is under way.
LEMMA OnlyReconciler ==
    ASSUME Interleaved \subseteq {"reconciler"}, NEW party \in {"user", "timer"}, Starts(party)
    PROVE  Pending = {}
<1>1. ASSUME NEW c \in calls PROVE c.step = "correct"
  <2>1. Party(c) = "reconciler"
    BY <1>1 DEF Starts
  <2> QED BY <2>1 DEF Party
<1> QED BY <1>1 DEF Pending

\* What an action that is no step of a call does to the calls: it begins at most
\* one, reading what is there, and unless that is the reconciliation's, no other
\* is under way.
Entry ==
    \/ calls' = calls /\ Pending = {}
    \/ \E k \in Calls : /\ calls' = calls \cup {k} /\ row' = row
                        /\ k.step # "correct" => Pending = {}
                        /\ StillOpen(k)

\* What a driver does begins a call or is done at once.
LEMMA DriverEntry ==
    ASSUME Interleaved \subseteq {"reconciler"}, MarketTyped, NEW d \in Drivers, DriverAction(d)
    PROVE  Entry
<1>1. Pending = {}
  <2>1. Starts("user")
    BY DEF DriverAction, GoOnline, GoOffline, CancelRead, Seek, BidRead, TakeFromStreet
  <2> QED BY <2>1, OnlyReconciler
<1>2. CASE calls' = calls
  BY <1>1, <1>2 DEF Entry
<1>3. ASSUME NEW k, Begin(k), row' = row, k.step \in {"cancel", "seek", "bid"}, MarketTyped'
      PROVE  Entry
  <2>1. k \in Calls /\ calls' = calls \cup {k}
    BY <1>3 DEF Begin, MarketTyped
  <2>2. StillOpen(k)
    BY <1>3 DEF StillOpen
  <2> QED BY <1>1, <1>3, <2>1, <2>2 DEF Entry
<1>4. MarketTyped'
  BY DriverTyped DEF Kept
<1>5. ASSUME NEW byDriver \in BOOLEAN, CancelRead(d, byDriver) PROVE Entry
  <2>1. PICK r \in LiveRows(d) :
          Begin(Call("cancel", d, row[r].order, {r}, IF byDriver THEN {r} ELSE {},
                     row[r].status >= Agreed))
    BY <1>5 DEF CancelRead
  <2> DEFINE k == Call("cancel", d, row[r].order, {r}, IF byDriver THEN {r} ELSE {},
                       row[r].status >= Agreed)
  <2>2. k.step = "cancel" /\ Begin(k) /\ row' = row
    BY <1>5, <2>1 DEF Call, CancelRead
  <2> HIDE DEF k
  <2> QED BY <1>3, <1>4, <2>2
<1>6. ASSUME NEW o \in Orders, Seek(d, o) PROVE Entry
  <2> DEFINE k == Call("seek", d, o, LiveRows(d), {}, TRUE)
  <2>1. k.step = "seek" /\ Begin(k) /\ row' = row
    BY <1>6 DEF Call, Seek
  <2> HIDE DEF k
  <2> QED BY <1>3, <1>4, <2>1
<1>7. ASSUME NEW o \in Orders, BidRead(d, o) PROVE Entry
  <2> DEFINE k == Call("bid", d, o, {r \in Of(d) : r \in Decided(o, Active)}, {}, TRUE)
  <2>1. k.step = "bid" /\ Begin(k) /\ row' = row
    BY <1>7 DEF Call, BidRead
  <2> HIDE DEF k
  <2> QED BY <1>3, <1>4, <2>1
<1>8. (GoOnline(d) \/ GoOffline(d) \/ \E o \in Orders : TakeFromStreet(d, o)) => calls' = calls
  BY DEF GoOnline, GoOffline, TakeFromStreet
<1> QED BY <1>2, <1>5, <1>6, <1>7, <1>8 DEF DriverAction

\* So is what is done about a request.
LEMMA RowEntry ==
    ASSUME Interleaved \subseteq {"reconciler"}, MarketTyped, NEW r \in Rows, RowAction(r)
    PROVE  Entry
<1>1. Pending = {}
  <2>1. Starts("user") \/ Starts("timer")
    BY DEF RowAction, AcceptShipperRequest, SelectRead, RejectRead, TimeoutRead, StartJourney,
           CompleteJourney
  <2> QED BY <2>1, OnlyReconciler
<1>2. CASE calls' = calls
  BY <1>1, <1>2 DEF Entry
<1>3. ASSUME NEW k, Begin(k), row' = row, StillOpen(k), MarketTyped'
      PROVE  Entry
  <2>1. k \in Calls /\ calls' = calls \cup {k}
    BY <1>3 DEF Begin, MarketTyped
  <2> QED BY <1>1, <1>3, <2>1 DEF Entry
<1>4. MarketTyped'
  BY RowTyped DEF Kept
<1>5. CASE SelectRead(r)
  <2> DEFINE k == Call("select", None, row[r].order, {r}, Candidates(row[r].order) \ {r}, TRUE)
  <2>1. k.step = "select" /\ Begin(k) /\ row' = row
    BY <1>5 DEF Call, SelectRead
  <2> HIDE DEF k
  <2> QED BY <1>3, <1>4, <2>1 DEF StillOpen
<1>6. CASE RejectRead(r)
  <2> DEFINE k == Call("reject", None, row[r].order, {r}, {},
                       Cardinality(Decided(row[r].order, {Agreed})) <= 1)
  <2>1. k.step = "reject" /\ Begin(k) /\ row' = row
    BY <1>6 DEF Call, RejectRead
  <2> HIDE DEF k
  <2> QED BY <1>3, <1>4, <2>1 DEF StillOpen
<1>7. CASE TimeoutRead(r)
  <2> DEFINE k == Call("timeout", None, row[r].order, {r}, {}, TRUE)
  <2>1. k.rows = {r} /\ Begin(k) /\ row' = row /\ row[r].decision = Requested
    BY <1>7 DEF Call, TimeoutRead
  <2> HIDE DEF k
  <2>2. StillOpen(k)
    BY <2>1 DEF StillOpen
  <2> QED BY <1>3, <1>4, <2>1, <2>2
<1>8. (AcceptShipperRequest(r) \/ StartJourney(r) \/ CompleteJourney(r)) => calls' = calls
  BY DEF AcceptShipperRequest, StartJourney, CompleteJourney
<1> QED BY <1>2, <1>5, <1>6, <1>7, <1>8 DEF RowAction

\* So is what is done about an order.
LEMMA OrderEntry ==
    ASSUME Interleaved \subseteq {"reconciler"}, MarketTyped, NEW o \in Orders, OrderAction(o)
    PROVE  Entry
<1>1. Starts("user") => Pending = {}
  BY OnlyReconciler
<1>2. MarketTyped'
  BY OrderTyped DEF Kept
<1>3. ASSUME NEW k, Begin(k), row' = row, k.step \in {"ask", "select", "withdraw", "correct"},
             k.step = "correct" \/ Starts("user")
      PROVE  Entry
  <2>1. k \in Calls /\ calls' = calls \cup {k}
    BY <1>2, <1>3 DEF Begin, MarketTyped
  <2>2. StillOpen(k)
    BY <1>3 DEF StillOpen
  <2> QED BY <1>1, <1>3, <2>1, <2>2 DEF Entry
<1>4. ASSUME NEW found \in SUBSET Rows, PlaceOrder(o, found) PROVE Entry
  <2> DEFINE k == Call("ask", None, o, found, {}, TRUE)
  <2>1. Starts("user") /\ row' = row /\ (calls' = calls \/ Begin(k))
    BY <1>4 DEF PlaceOrder
  <2>2. k.step = "ask"
    BY DEF Call
  <2> HIDE DEF k
  <2>3. CASE calls' = calls
    BY <1>1, <2>1, <2>3 DEF Entry
  <2> QED BY <1>3, <2>1, <2>2, <2>3
<1>5. CASE WithdrawRead(o)
  <2> DEFINE k == Call("withdraw", None, o, Decided(o, Statuses), {}, TRUE)
  <2>1. Starts("user") /\ row' = row /\ Begin(k) /\ k.step = "withdraw"
    BY <1>5 DEF WithdrawRead, Call
  <2> HIDE DEF k
  <2> QED BY <1>3, <2>1
<1>6. CASE ReconcileRead(o)
  <2>1. PICK k : Begin(k) /\ k.step = "correct" /\ row' = row
    BY <1>6 DEF ReconcileRead
  <2> QED BY <1>3, <2>1
<1>7. CASE SelectGone(o)
  <2> DEFINE k == Call("select", None, o, {}, Candidates(o), TRUE)
  <2>1. Starts("user") /\ row' = row /\ Begin(k) /\ k.step = "select"
    BY <1>7 DEF SelectGone, Call
  <2> HIDE DEF k
  <2> QED BY <1>3, <2>1
<1> QED BY <1>4, <1>5, <1>6, <1>7 DEF OrderAction

\* A call that is not the reconciliation's goes on, or is over; the
\* reconciliation's touches no request.
LEMMA CallEntry ==
    ASSUME MarketTyped, NEW c \in calls, CallStep(c), StillOpen(c)
    PROVE  \/ calls' = calls \ {c} /\ (c.step = "correct" => row' = row)
           \/ /\ c.step # "correct"
              /\ \E k \in Calls : calls' = (calls \ {c}) \cup {k} /\ StillOpen(k)'
<1>1. ASSUME NEW k, calls' \in {calls \ {c}, (calls \ {c}) \cup {k}}, StillOpen(k)',
             c.step # "correct", MarketTyped'
      PROVE  \/ calls' = calls \ {c}
             \/ \E e \in Calls : calls' = (calls \ {c}) \cup {e} /\ StillOpen(e)'
  BY <1>1 DEF MarketTyped
<1>2. MarketTyped'
  BY CallTyped
<1>3. ASSUME NEW r \in Rows, Ask(c, r)
      PROVE  /\ c.step # "correct"
             /\ \/ calls' = calls \ {c}
                \/ \E e \in Calls : calls' = (calls \ {c}) \cup {e} /\ StillOpen(e)'
  <2> DEFINE k == [c EXCEPT !.rows = @ \ {r}]
  <2>1. c.step = "ask" /\ r \in c.rows /\ calls' \in {calls \ {c}, (calls \ {c}) \cup {k}}
    BY <1>3 DEF Ask, At
  <2>2. k.step = "ask"
    BY <2>1, AskOn
  <2> HIDE DEF k
  <2>3. StillOpen(k)'
    BY <2>2 DEF StillOpen
  <2> QED BY <1>1, <1>2, <2>1, <2>3
<1>4. ASSUME NEW found \in SUBSET Rows, CancelWrite(c, found)
      PROVE  /\ c.step # "correct"
             /\ \/ calls' = calls \ {c}
                \/ \E e \in Calls : calls' = (calls \ {c}) \cup {e} /\ StillOpen(e)'
  <2> DEFINE k == Call("ask", None, c.order, found, {}, TRUE)
  <2>1. c.step = "cancel" /\ calls' \in {calls \ {c}, (calls \ {c}) \cup {k}}
    BY <1>4 DEF CancelWrite, At
  <2>2. k.step = "ask"
    BY DEF Call
  <2> HIDE DEF k
  <2>3. StillOpen(k)'
    BY <2>2 DEF StillOpen
  <2> QED BY <1>1, <1>2, <2>1, <2>3
<1>5. CASE TimeoutCheck(c)
  <2> DEFINE k == [c EXCEPT !.step = "expire"]
  <2>1. c.step = "timeout" /\ row' = row /\ calls' \in {calls \ {c}, (calls \ {c}) \cup {k}}
    BY <1>5 DEF TimeoutCheck, At
  <2>2. k.rows = c.rows
    BY <2>1, ExpireNamed
  <2> HIDE DEF k
  <2>3. StillOpen(k)'
    BY <2>1, <2>2 DEF StillOpen
  <2> QED BY <1>1, <1>2, <2>1, <2>3
<1>6. CASE SeekWrite(c) \/ BidWrite(c) \/ SelectWrite(c) \/ RejectWrite(c) \/ WithdrawWrite(c)
           \/ TimeoutWrite(c) \/ ReconcileApply(c)
  BY <1>6 DEF SeekWrite, BidWrite, SelectWrite, RejectWrite, WithdrawWrite, TimeoutWrite,
              ReconcileApply, At, End
<1> QED BY <1>3, <1>4, <1>5, <1>6 DEF CallStep

\* Every step keeps request and decision together.
LEMMA JobStep ==
    ASSUME Interleaved \subseteq {"reconciler"}, JobInv, [Next]_vars
    PROVE  JobInv'
<1>1. MarketTyped
  BY DEF JobInv
<1>2. CASE UNCHANGED vars
  BY <1>2 DEF vars, JobInv, MarketTyped, Pending, StillOpen
<1>3. CASE \/ \E d \in Drivers : DriverAction(d)
           \/ \E r \in Rows : RowAction(r)
           \/ \E o \in Orders : OrderAction(o)
  <2>1. Kept /\ Entry
    BY <1>1, <1>3, DriverTyped, RowTyped, OrderTyped, DriverEntry, RowEntry, OrderEntry
  <2>2. CASE calls' = calls /\ Pending = {}
    BY <2>1, <2>2 DEF JobInv, Kept, Pending
  <2>3. ASSUME NEW k \in Calls, calls' = calls \cup {k}, row' = row,
               k.step # "correct" => Pending = {}, StillOpen(k)
        PROVE  JobInv'
    <3>1. Pending' \in {Pending, {k}}
      BY <2>3 DEF Pending
    <3>2. \A c \in Pending' : StillOpen(c)'
      BY <2>3, <3>1 DEF JobInv, StillOpen
    <3> QED BY <2>1, <3>1, <3>2 DEF JobInv, Kept
  <2> QED BY <2>1, <2>2, <2>3 DEF Entry
<1>4. ASSUME NEW c \in calls, CallStep(c) PROVE JobInv'
  <2>1. StillOpen(c)
    BY DEF JobInv, Pending, StillOpen
  <2>2. Kept
    <3>1. c.step = "expire" => \A r \in c.rows : row[r].decision \notin Working
      BY <2>1, Places DEF StillOpen
    <3> QED BY <1>1, <1>4, <3>1, CallTyped
  <2>3. CASE calls' = calls \ {c} /\ (c.step = "correct" => row' = row)
    <3>1. Pending' \subseteq Pending /\ (row' = row \/ Pending' = {})
      BY <2>3 DEF Pending, JobInv
    <3>2. \A e \in Pending' : StillOpen(e)'
      BY <3>1 DEF JobInv, StillOpen
    <3> QED BY <2>2, <3>1, <3>2 DEF JobInv, Kept
  <2>4. ASSUME c.step # "correct", NEW k \in Calls, calls' = (calls \ {c}) \cup {k}, StillOpen(k)'
        PROVE  JobInv'
    <3>1. Pending' \subseteq {k}
      BY <2>4 DEF Pending, JobInv
    <3> QED BY <2>2, <2>4, <3>1 DEF JobInv, Kept
  <2> QED BY <1>1, <1>4, <2>1, <2>3, <2>4, CallEntry
<1> QED BY <1>2, <1>3, <1>4 DEF Next

\* Request and decision of a driver at work agree as long as the calls of users
\* and of the timer come one after the other; the reconciliation may come
\* between any two of their steps.
THEOREM JobAndDecisionAgree ==
    ASSUME Interleaved \subseteq {"reconciler"}
    PROVE  Spec => []JobIsOne
<1>1. Init => JobInv
  BY InitTyped DEF Init, JobInv, Pending
<1>2. JobInv /\ [Next]_vars => JobInv'
  BY JobStep
<1>3. JobInv => JobIsOne
  <2> SUFFICES ASSUME JobInv, NEW r \in Rows
               PROVE  /\ row[r].status \in Working => row[r].decision = row[r].status
                      /\ row[r].decision \in Working => row[r].status = row[r].decision
    BY DEF JobIsOne
  <2>1. RowWhole(row[r])
    BY DEF JobInv, RowsWhole
  <2> QED BY <2>1, Places DEF RowWhole
<1> QED BY <1>1, <1>2, <1>3, PTL DEF Spec

-----------------------------------------------------------------------------
(***************************************************************************)
(* One driver for an order, and the order at its driver's stage, when one  *)
(* call follows the other.                                                 *)
(***************************************************************************)
\* No driver has the order, or has had it to the end.
Untaken(rows, o) == \A r \in Rows : rows[r].order = o => rows[r].decision \notin Taken

\* Who has an order has it alone; nobody else is even offered it.
Exclusive ==
    \A r, q \in Rows :
        r # q /\ row[r].order = row[q].order /\ row[r].decision \in Taken
            => row[q].decision \notin Open \cup Taken

Leads ==
    \A r \in Rows : row[r].decision \in Taken =>
        order[row[r].order] \in {row[r].decision, CancelledByShipper}

\* An order that a request is about has been placed.
Placed == \A r \in Rows : row[r].order # None => order[row[r].order] # NoStatus

Sound == Exclusive /\ Leads /\ Placed

\* What a call has read still stands.
Fits(c) ==
    /\ /\ c.step # "cancel" /\ c.step # "reject" /\ c.step # "withdraw"
       /\ c.step = "select" => c.rows # {}
       => Untaken(row, c.order)
    /\ order[c.order] # NoStatus
    /\ c.step = "seek" => \A r \in c.rows : row[r].order = None
    /\ c.step = "bid" => \A r \in c.rows : row[r].order = c.order
    /\ c.step = "select" /\ c.rows # {} =>
        \E r \in Rows : /\ c.rows = {r} /\ row[r].order = c.order /\ row[r].decision \in Open
                        /\ \A q \in Rows \ {r} : row[q].order = c.order /\ row[q].decision \in Open
                                => q \in c.rest
    /\ c.step \in {"reject", "cancel"} =>
        \E r \in Rows : /\ c.rows = {r} /\ row[r].order = c.order
                        /\ row[r].decision \in Open \cup Taken
                        /\ c.step = "reject" => row[r].decision \in Open \cup {AcceptedByShipper}

MarketInv ==
    /\ MarketTyped
    /\ RowsWhole(row)
    /\ Sound
    /\ \A c, e \in calls : c = e
    /\ \A c \in calls : Fits(c)

\* A step keeps what is sound if no decision is made except offers on orders
\* that nobody has, and an order is only moved if nobody has it or the shipper
\* withdraws it.
LEMMA OffersKeepSound ==
    ASSUME MarketTyped, Sound, MarketTyped',
           \A r \in Rows : row'[r].decision \in Open \cup Taken =>
               \/ row'[r].decision = row[r].decision /\ row'[r].order = row[r].order
               \/ row'[r].decision \in Open /\ Untaken(row', row'[r].order),
           \A o \in Orders : /\ \/ order'[o] \in {order[o], CancelledByShipper}
                                \/ order'[o] # NoStatus /\ Untaken(row', o)
                             /\ order[o] # NoStatus => order'[o] # NoStatus,
           \A r \in Rows : row'[r].order # None =>
               row'[r].order = row[r].order \/ order'[row'[r].order] # NoStatus
    PROVE  Sound'
<1>1. ASSUME NEW r \in Rows, row'[r].decision \in Taken
      PROVE  /\ row'[r].decision = row[r].decision /\ row'[r].order = row[r].order
             /\ ~Untaken(row', row'[r].order)
             /\ row'[r].order \in Orders
  <2>1. ~Untaken(row', row'[r].order)
    BY <1>1 DEF Untaken
  <2>2. row'[r].order \in Orders
    BY <1>1, Places DEF MarketTyped, RowsFilled, RowFilled, RowType
  <2> QED BY <1>1, <2>1, <2>2
<1>2. Exclusive'
  BY <1>1 DEF Exclusive, Sound
<1>3. Leads'
  BY <1>1 DEF Leads, Sound
<1>4. Placed'
  <2> SUFFICES ASSUME NEW r \in Rows, row'[r].order # None PROVE order'[row'[r].order] # NoStatus
    BY DEF Placed
  <2>1. row'[r].order \in Orders
    BY DEF MarketTyped, RowsFilled, RowType
  <2> QED BY <2>1 DEF Placed, Sound
<1> QED BY <1>2, <1>3, <1>4 DEF Sound

\* A step keeps what is sound if one driver takes an order that nobody else has
\* or is offered afterwards.
LEMMA TakingKeepsSound ==
    ASSUME MarketTyped, Sound, MarketTyped',
           NEW r \in Rows, NEW o \in Orders, NEW s \in Taken,
           row'[r].order = o, row'[r].decision = s, order' = [order EXCEPT ![o] = s],
           \A q \in Rows \ {r} :
               /\ row'[q].order = row[q].order
               /\ row'[q].decision \in Open \cup Taken =>
                      row'[q].decision = row[q].decision /\ row'[q].order # o
    PROVE  Sound'
<1>1. order'[o] = s /\ \A p \in Orders : p # o => order'[p] = order[p]
  BY DEF MarketTyped
<1>2. Exclusive'
  <2> SUFFICES ASSUME NEW p \in Rows, NEW q \in Rows, p # q, row'[p].order = row'[q].order,
                      row'[p].decision \in Taken, row'[q].decision \in Open \cup Taken
               PROVE  FALSE
    BY DEF Exclusive
  <2>1. CASE p = r \/ q = r
    BY <2>1
  <2>2. CASE p # r /\ q # r
    BY <2>2 DEF Exclusive, Sound
  <2> QED BY <2>1, <2>2
<1>3. Leads'
  <2> SUFFICES ASSUME NEW q \in Rows, row'[q].decision \in Taken
               PROVE  order'[row'[q].order] \in {row'[q].decision, CancelledByShipper}
    BY DEF Leads
  <2>1. CASE q = r
    BY <2>1, <1>1
  <2>2. CASE q # r
    <3>1. row'[q].order \in Orders
      BY Places DEF MarketTyped, RowsFilled, RowFilled, RowType
    <3> QED BY <2>2, <3>1, <1>1 DEF Leads, Sound
  <2> QED BY <2>1, <2>2
<1>4. Placed'
  <2> SUFFICES ASSUME NEW q \in Rows, row'[q].order # None PROVE order'[row'[q].order] # NoStatus
    BY DEF Placed
  <2>1. row'[q].order \in Orders /\ s # NoStatus
    BY Places DEF MarketTyped, RowsFilled, RowType
  <2> QED BY <2>1, <1>1 DEF Placed, Sound
<1> QED BY <1>2, <1>3, <1>4 DEF Sound

\* An order with an offer that is open, or that stands before the driver's
\* acceptance, is nobody's.
LEMMA OfferedIsUntaken ==
    ASSUME MarketTyped, Sound, NEW o \in Orders,
           (\E r \in Rows : row[r].order = o /\ row[r].decision \in Open)
               \/ order[o] \in {NoStatus, Waiting, Requested, Agreed}
    PROVE  Untaken(row, o)
<1> SUFFICES ASSUME NEW q \in Rows, row[q].order = o, row[q].decision \in Taken PROVE FALSE
  BY DEF Untaken
<1>1. order[o] \in {row[q].decision, CancelledByShipper} /\ row[q].decision \notin Open
  BY Places DEF Sound, Leads
<1>2. order[o] \notin {NoStatus, Waiting, Requested, Agreed}
  BY <1>1, Places
<1>3. \A r \in Rows : row[r].order = o => row[r].decision \notin Open
  BY <1>1 DEF Sound, Exclusive
<1> QED BY <1>2, <1>3

\* Offers are made on an order that nobody has.
LEMMA OfferSound ==
    ASSUME MarketTyped, Sound, MarketTyped', NEW o \in Orders, Untaken(row, o),
           NEW s \in {Requested, Agreed}, order' = [order EXCEPT ![o] = s],
           \A r \in Rows :
               \/ row'[r].decision = row[r].decision /\ row'[r].order = row[r].order
               \/ row'[r].decision \in Open /\ row'[r].order = o
    PROVE  Sound' /\ Untaken(row', o) /\ order'[o] # NoStatus
<1>1. /\ order'[o] = s /\ s # NoStatus /\ \A p \in Orders : p # o => order'[p] = order[p]
      /\ Open \cap Taken = {}
  BY Places DEF MarketTyped
<1>2. Untaken(row', o)
  BY <1>1 DEF Untaken
<1>3. Sound'
  BY <1>1, <1>2, OffersKeepSound
<1> QED BY <1>1, <1>2, <1>3

\* Decisions are ended, or stay; the orders too, but for one that nobody has
\* any more or that the shipper withdraws.
LEMMA EndingSound ==
    ASSUME MarketTyped, Sound, MarketTyped', NEW o \in Orders, NEW s \in Statuses \ {NoStatus},
           \/ order' = order
           \/ order' = [order EXCEPT ![o] = s] /\ (s = CancelledByShipper \/ Untaken(row', o)),
           \A r \in Rows :
               \/ row'[r].decision \notin Open \cup Taken
               \/ row'[r].decision = row[r].decision /\ row'[r].order = row[r].order,
           \A r \in Rows : row'[r].order \in {None, row[r].order}
    PROVE  Sound'
<1>1. \A p \in Orders : order'[p] = order[p] \/ (p = o /\ order'[p] = s)
  BY DEF MarketTyped
<1>2. \A p \in Orders : /\ \/ order'[p] \in {order[p], CancelledByShipper}
                           \/ order'[p] # NoStatus /\ Untaken(row', p)
                        /\ order[p] # NoStatus => order'[p] # NoStatus
  BY <1>1 DEF MarketTyped
<1> QED BY <1>2, OffersKeepSound

\* What a new request that has an order holds.
LEMMA NewRow ==
    ASSUME NEW d, NEW o \in Orders, NEW s
    PROVE  New(d, o, s).decision = s /\ New(d, o, s).order = o
BY MarketAssumption DEF New

\* A step that changes neither orders nor requests.
LEMMA SameSound == Sound /\ UNCHANGED <<order, row>> => Sound'
BY DEF Sound, Exclusive, Leads, Placed

\* One party at a time: an action begins when no call is under way.
LEMMA AtRest ==
    ASSUME Interleaved = {}, NEW party, Starts(party)
    PROVE  calls = {}
BY DEF Starts

\* A call that begins, reading what is there.
LEMMA BeginInv ==
    ASSUME MarketInv, Kept, calls = {}, UNCHANGED <<order, row>>, NEW k, Begin(k), Fits(k)
    PROVE  MarketInv'
<1>1. calls' = {k}
  BY DEF Begin
<1>2. Fits(k)'
  BY DEF Fits, Untaken
<1>3. Sound'
  BY SameSound DEF MarketInv
<1> QED BY <1>1, <1>2, <1>3 DEF MarketInv, Kept

\* A step after which no call is under way.
LEMMA RestInv ==
    ASSUME MarketInv, Kept, Sound', calls' = {}
    PROVE  MarketInv'
BY DEF MarketInv, Kept

\* A step after which one call is.
LEMMA GoOnInv ==
    ASSUME MarketInv, Kept, Sound', NEW k, calls' \subseteq {k}, Fits(k)'
    PROVE  MarketInv'
BY DEF MarketInv, Kept

\* What a driver does, or the call it begins.
LEMMA DriverSound ==
    ASSUME Interleaved = {}, MarketInv, NEW d \in Drivers, DriverAction(d)
    PROVE  MarketInv'
<1>1. MarketTyped /\ Sound /\ RowsWhole(row)
  BY DEF MarketInv
<1>2. Kept
  BY <1>1, DriverTyped
<1>3. calls = {}
  <2>1. Starts("user")
    BY DEF DriverAction, GoOnline, GoOffline, CancelRead, Seek, BidRead, TakeFromStreet
  <2> QED BY <2>1, AtRest
<1>4. \A r \in Rows : RowWhole(row[r])
  BY <1>1 DEF RowsWhole
<1>5. CASE GoOnline(d)
  <2> DEFINE f == Min(Free)
             x == New(d, None, Waiting)
  <2>1. /\ f \in Rows /\ row' = [row EXCEPT ![f] = x] /\ order' = order /\ calls' = {}
    BY <1>3, <1>5, FreeRow DEF GoOnline
  <2>2. x.decision = NoStatus /\ x.order = None
    BY DEF New
  <2> HIDE DEF f, x
  <2>3. \A r \in Rows : row'[r] = IF r = f THEN x ELSE row[r]
    BY <1>1, <2>1 DEF MarketTyped, RowsFilled
  <2>4. \A r \in Rows : \/ row'[r].decision \notin Open \cup Taken /\ row'[r].order = None
                        \/ row'[r] = row[r]
    BY <2>2, <2>3, Places
  <2>5. \A o \in Orders : order'[o] = order[o]
    BY <2>1
  <2>6. Sound'
    BY <1>1, <1>2, <2>4, <2>5, OffersKeepSound DEF Kept
  <2> QED BY <1>2, <2>1, <2>6, RestInv
<1>6. CASE GoOffline(d)
  <2>1. PICK r \in LiveRows(d) : row' = [row EXCEPT ![r].status = CancelledBeforeAccept]
    BY <1>6 DEF GoOffline
  <2>2. r \in Rows /\ order' = order /\ calls' = {}
    BY <1>1, <1>3, <1>6, <2>1, LiveOf DEF GoOffline
  <2>3. \A q \in Rows : row'[q].decision = row[q].decision /\ row'[q].order = row[q].order
    BY <1>1, <2>1, <2>2 DEF MarketTyped, RowsFilled, RowType
  <2>4. \A o \in Orders : order'[o] = order[o]
    BY <2>2
  <2>5. Sound'
    BY <1>1, <1>2, <2>3, <2>4, OffersKeepSound DEF Kept
  <2> QED BY <1>2, <2>2, <2>5, RestInv
<1>7. ASSUME NEW byDriver \in BOOLEAN, CancelRead(d, byDriver) PROVE MarketInv'
  <2>1. PICK r \in LiveRows(d) :
          /\ row[r].order # None
          /\ Begin(Call("cancel", d, row[r].order, {r}, IF byDriver THEN {r} ELSE {},
                        row[r].status >= Agreed))
    BY <1>7 DEF CancelRead
  <2> DEFINE k == Call("cancel", d, row[r].order, {r}, IF byDriver THEN {r} ELSE {},
                       row[r].status >= Agreed)
  <2>2. r \in Rows /\ row[r].status \in Active
    BY <1>1, <2>1, LiveOf DEF LiveRows
  <2>3. row[r].decision \in Open \cup Taken
    BY <1>4, <2>1, <2>2, Places DEF RowWhole
  <2>4. order[row[r].order] # NoStatus
    BY <1>1, <2>1, <2>2 DEF Sound, Placed
  <2>5. k.step = "cancel" /\ k.rows = {r} /\ k.order = row[r].order
    BY DEF Call
  <2>6. Begin(k) /\ UNCHANGED <<order, row>>
    BY <1>7, <2>1 DEF CancelRead
  <2> HIDE DEF k
  <2>7. Fits(k)
    BY <2>2, <2>3, <2>4, <2>5 DEF Fits
  <2> QED BY <1>2, <1>3, <2>6, <2>7, BeginInv
<1>8. ASSUME NEW o \in Orders, Seek(d, o) PROVE MarketInv'
  <2> DEFINE k == Call("seek", d, o, LiveRows(d), {}, TRUE)
  <2>1. k.step = "seek" /\ k.rows = LiveRows(d) /\ k.order = o
    BY DEF Call
  <2>2. Begin(k) /\ UNCHANGED <<order, row>>
    BY <1>8 DEF Seek
  <2> HIDE DEF k
  <2>3. Untaken(row, o) /\ order[o] # NoStatus
    BY <1>1, <1>8, OfferedIsUntaken, Places DEF Seek
  <2>4. \A r \in LiveRows(d) : row[r].order = None
    BY <1>1, <1>4, <1>8, LiveOf DEF Seek, RowWhole
  <2>5. Fits(k)
    BY <2>1, <2>3, <2>4 DEF Fits
  <2> QED BY <1>2, <1>3, <2>2, <2>5, BeginInv
<1>9. ASSUME NEW o \in Orders, BidRead(d, o) PROVE MarketInv'
  <2> DEFINE rows == {r \in Of(d) : r \in Decided(o, Active)}
             k == Call("bid", d, o, rows, {}, TRUE)
  <2>1. k.step = "bid" /\ k.rows = rows /\ k.order = o
    BY DEF Call
  <2>2. Begin(k) /\ UNCHANGED <<order, row>>
    BY <1>9 DEF BidRead
  <2> HIDE DEF k
  <2>3. Untaken(row, o) /\ order[o] # NoStatus
    BY <1>1, <1>9, OfferedIsUntaken, Places DEF BidRead
  <2>4. \A r \in rows : row[r].order = o
    BY DEF Decided
  <2> HIDE DEF rows
  <2>5. Fits(k)
    BY <2>1, <2>3, <2>4 DEF Fits
  <2> QED BY <1>2, <1>3, <2>2, <2>5, BeginInv
<1>10. ASSUME NEW o \in Orders, TakeFromStreet(d, o) PROVE MarketInv'
  <2> DEFINE f == Min(Free)
             s == JourneyStarted
  <2>1. /\ order' = [order EXCEPT ![o] = s] /\ calls' = {} /\ order[o] = NoStatus
        /\ row' = [row EXCEPT ![f] = New(d, o, s)]
        /\ f \in Rows /\ row[f].driver = None
    BY <1>3, <1>10, FreeRow DEF TakeFromStreet
  <2>2. s \in Taken /\ s \in {Requested, Agreed, JourneyStarted} /\ RowsFilled(row)
    BY <1>1, Places DEF MarketTyped
  <2>3. \A q \in Rows : row[q].order # o
    BY <1>1, <2>1, MarketAssumption DEF Sound, Placed
  <2> HIDE DEF f, s
  <2>4. /\ \A q \in Rows \ {f} : row'[q] = row[q]
        /\ row'[f].decision = s /\ row'[f].order = o
    <3>1. row' = [row EXCEPT ![f] = New(d, o, s)] /\ row \in [Rows -> RowType] /\ f \in Rows
      BY <2>1, <2>2 DEF RowsFilled
    <3>2. New(d, o, s).decision = s /\ New(d, o, s).order = o
      BY NewRow
    <3> QED BY <3>1, <3>2
  <2>5. Sound'
    <3>1. \A q \in Rows \ {f} :
             /\ row'[q].order = row[q].order
             /\ row'[q].decision \in Open \cup Taken =>
                    row'[q].decision = row[q].decision /\ row'[q].order # o
      BY <2>3, <2>4
    <3>2. f \in Rows /\ order' = [order EXCEPT ![o] = s] /\ MarketTyped'
      BY <1>2, <2>1 DEF Kept
    <3> QED BY <1>1, <2>2, <2>4, <3>1, <3>2, TakingKeepsSound
  <2> QED BY <1>2, <2>1, <2>5, RestInv
<1> QED BY <1>5, <1>6, <1>7, <1>8, <1>9, <1>10 DEF DriverAction

\* What is done about a request, or the call it begins.
LEMMA RowSound ==
    ASSUME Interleaved = {}, MarketInv, NEW r \in Rows, RowAction(r)
    PROVE  MarketInv'
<1> DEFINE o == row[r].order
<1>1. MarketTyped /\ Sound
  BY DEF MarketInv
<1>2. Kept
  BY <1>1, RowTyped
<1>3. calls = {}
  <2>1. Starts("user") \/ Starts("timer")
    BY DEF RowAction, AcceptShipperRequest, SelectRead, RejectRead, TimeoutRead, StartJourney,
           CompleteJourney
  <2> QED BY <2>1, AtRest
<1>4. row[r].decision \in Open \cup Taken => /\ o \in Orders /\ o # None /\ order[o] # NoStatus
                                             /\ row[r].decision \in Open => Untaken(row, o)
  <2>1. row[r].decision \in Open \cup Taken => o \in Orders /\ o # None
    BY <1>1, DecidedHasOrder, Places
  <2>2. row[r].decision \in Open => Untaken(row, o)
    BY <1>1, <2>1, OfferedIsUntaken
  <2> QED BY <1>1, <2>1, <2>2 DEF Sound, Placed
<1> DEFINE Moves(s) == Commit([order EXCEPT ![o] = s], Both(row, {r}, s)) /\ UNCHANGED calls
<1>5. ASSUME NEW s \in {Agreed, JourneyStarted, JourneyCompleted}, Moves(s),
             row[r].decision \in Open \cup Taken,
             order' = [order EXCEPT ![o] = s], row' = Both(row, {r}, s)
      PROVE  /\ row'[r].decision = s /\ row'[r].order = o
             /\ \A q \in Rows \ {r} : row'[q] = row[q]
  <2> DEFINE chosen == {r}
  <2>1. s \in Statuses \ {NoStatus, Waiting} /\ RowsFilled(row)
    BY <1>1, <1>5, Places DEF MarketTyped
  <2>2. \A q \in Rows \cap chosen : row[q].order # None
    BY <1>4, <1>5
  <2>3. row' = Both(row, chosen, s) /\ r \in chosen /\ \A q \in Rows \ {r} : q \notin chosen
    BY <1>5
  <2> HIDE DEF chosen
  <2> QED BY <2>1, <2>2, <2>3, BothRows
<1>6. CASE AcceptShipperRequest(r)
  <2>1. Moves(Agreed) /\ row[r].decision \in Open
    BY <1>6, Places DEF AcceptShipperRequest
  <2>2. ASSUME order' = [order EXCEPT ![o] = Agreed], row' = Both(row, {r}, Agreed)
        PROVE  Sound'
    <3>1. /\ row'[r].decision = Agreed /\ row'[r].order = o
          /\ \A q \in Rows \ {r} : row'[q] = row[q]
      BY <1>5, <2>1, <2>2
    <3>2. o \in Orders /\ Untaken(row, o) /\ Agreed \in Open
      BY <1>4, <2>1, Places
    <3> HIDE DEF o
    <3>3. \A q \in Rows : \/ row'[q].decision = row[q].decision /\ row'[q].order = row[q].order
                          \/ row'[q].decision \in Open /\ row'[q].order = o
      BY <3>1, <3>2
    <3> QED BY <1>1, <1>2, <2>2, <3>2, <3>3, OfferSound DEF Kept
  <2>3. Sound'
    BY <1>1, <2>1, <2>2, Committed, SameSound
  <2> QED BY <1>2, <1>3, <2>1, <2>3, RestInv
<1>7. ASSUME NEW s \in {JourneyStarted, JourneyCompleted}, Moves(s), row[r].decision \in Taken
      PROVE  MarketInv'
  <2>1. ASSUME order' = [order EXCEPT ![o] = s], row' = Both(row, {r}, s)
        PROVE  Sound'
    <3>1. /\ row'[r].decision = s /\ row'[r].order = o
          /\ \A q \in Rows \ {r} : row'[q] = row[q]
      BY <1>5, <1>7, <2>1
    <3>2. o \in Orders /\ s \in Taken
      BY <1>4, <1>7, Places
    <3>3. \A q \in Rows \ {r} :
             /\ row'[q].order = row[q].order
             /\ row'[q].decision \in Open \cup Taken =>
                    row'[q].decision = row[q].decision /\ row'[q].order # o
      BY <1>1, <1>7, <3>1 DEF Sound, Exclusive
    <3> HIDE DEF o
    <3> QED BY <1>1, <1>2, <2>1, <3>1, <3>2, <3>3, TakingKeepsSound DEF Kept
  <2>2. Sound'
    BY <1>1, <1>7, <2>1, Committed, SameSound
  <2> QED BY <1>2, <1>3, <1>7, <2>2, RestInv
<1>8. CASE StartJourney(r)
  <2>1. Moves(JourneyStarted) /\ row[r].decision \in Taken
    BY <1>8, Places DEF StartJourney
  <2> QED BY <1>7, <2>1
<1>9. CASE CompleteJourney(r)
  <2>1. Moves(JourneyCompleted) /\ row[r].decision \in Taken
    BY <1>9, Places DEF CompleteJourney
  <2> QED BY <1>7, <2>1
<1> HIDE DEF Moves
<1>10. CASE SelectRead(r)
  <2> DEFINE rest == Candidates(o) \ {r}
             k == Call("select", None, row[r].order, {r}, rest, TRUE)
  <2>1. k.step = "select" /\ k.rows = {r} /\ k.order = o /\ k.rest = rest
    BY DEF Call
  <2>2. Begin(k) /\ UNCHANGED <<order, row>> /\ row[r].decision \in Open
    BY <1>10 DEF SelectRead, Open
  <2>3. \A q \in Rows \ {r} : row[q].order = o /\ row[q].decision \in Open => q \in rest
    BY DEF Open, Candidates
  <2> HIDE DEF k, rest
  <2>4. Fits(k)
    BY <1>4, <2>1, <2>2, <2>3 DEF Fits
  <2> QED BY <1>2, <1>3, <2>2, <2>4, BeginInv
<1>11. CASE RejectRead(r)
  <2> DEFINE k == Call("reject", None, row[r].order, {r}, {},
                       Cardinality(Decided(row[r].order, {Agreed})) <= 1)
  <2>1. k.step = "reject" /\ k.rows = {r} /\ k.order = o
    BY DEF Call
  <2>2. Begin(k) /\ UNCHANGED <<order, row>> /\ row[r].decision \in Open \cup {AcceptedByShipper}
    BY <1>11 DEF RejectRead, Open
  <2>3. row[r].decision \in Open \cup Taken
    BY <2>2, Places
  <2> HIDE DEF k
  <2>4. Fits(k)
    BY <1>4, <2>1, <2>2, <2>3 DEF Fits
  <2> QED BY <1>2, <1>3, <2>2, <2>4, BeginInv
<1>12. CASE TimeoutRead(r)
  <2> DEFINE k == Call("timeout", None, row[r].order, {r}, {}, TRUE)
  <2>1. k.step = "timeout" /\ k.order = o
    BY DEF Call
  <2>2. Begin(k) /\ UNCHANGED <<order, row>> /\ row[r].decision \in Open
    BY <1>12 DEF TimeoutRead, Open
  <2> HIDE DEF k
  <2>3. Fits(k)
    BY <1>4, <2>1, <2>2 DEF Fits
  <2> QED BY <1>2, <1>3, <2>2, <2>3, BeginInv
<1> QED BY <1>6, <1>8, <1>9, <1>10, <1>11, <1>12 DEF RowAction

\* What is done about an order, or the call it begins: the reconciliation finds
\* nothing to correct on an order that somebody has.
LEMMA OrderSound ==
    ASSUME Interleaved = {}, MarketInv, NEW o \in Orders, OrderAction(o)
    PROVE  MarketInv'
<1>1. MarketTyped /\ Sound
  BY DEF MarketInv
<1>2. Kept
  BY <1>1, OrderTyped
<1>3. calls = {}
  <2>1. Starts("user") \/ Starts("reconciler")
    BY DEF OrderAction, PlaceOrder, SelectGone, WithdrawRead, ReconcileRead
  <2> QED BY <2>1, AtRest
<1>4. ASSUME NEW found \in SUBSET Rows, PlaceOrder(o, found) PROVE MarketInv'
  <2> DEFINE k == Call("ask", None, o, found, {}, TRUE)
             s == Waiting
  <2>1. /\ order[o] = NoStatus /\ order' = [order EXCEPT ![o] = s] /\ row' = row
        /\ calls' \subseteq {k}
    BY <1>3, <1>4 DEF PlaceOrder, Begin
  <2>2. k.step = "ask" /\ k.order = o
    BY DEF Call
  <2> HIDE DEF k
  <2>3. Untaken(row, o) /\ Untaken(row', o)
    BY <1>1, <2>1, OfferedIsUntaken
  <2>4. s \in Statuses \ {NoStatus}
    BY Places
  <2> HIDE DEF s
  <2>5. Sound'
    BY <1>1, <1>2, <2>1, <2>3, <2>4, EndingSound DEF Kept
  <2>6. order'[o] # NoStatus
    BY <1>1, <2>1, <2>4 DEF MarketTyped
  <2>7. Fits(k)'
    BY <2>2, <2>3, <2>6 DEF Fits
  <2> QED BY <1>2, <2>1, <2>5, <2>7, GoOnInv
<1>5. CASE WithdrawRead(o)
  <2> DEFINE k == Call("withdraw", None, o, Decided(o, Statuses), {}, TRUE)
  <2>1. k.step = "withdraw" /\ k.order = o
    BY DEF Call
  <2>2. Begin(k) /\ UNCHANGED <<order, row>> /\ order[o] # NoStatus
    BY <1>5 DEF WithdrawRead
  <2> HIDE DEF k
  <2>3. Fits(k)
    BY <2>1, <2>2 DEF Fits
  <2> QED BY <1>2, <1>3, <2>2, <2>3, BeginInv
<1>6. CASE ReconcileRead(o)
  <2> DEFINE decisions == {row[r].decision : r \in Decided(o, Supporting)}
             to == IF decisions = {} THEN Waiting ELSE Max(decisions)
             k == [step |-> "correct", driver |-> None, order |-> o, from |-> order[o], to |-> to]
  <2>1. /\ order[o] \in Active /\ to # order[o] /\ Begin(k) /\ UNCHANGED <<order, row>>
    BY <1>6 DEF ReconcileRead
  <2>2. k.step = "correct" /\ k.order = o
    OBVIOUS
  \* Were it somebody's, its one decision would be where the order stands.
  <2>3. Untaken(row, o)
    <3> SUFFICES ASSUME NEW q \in Rows, row[q].order = o, row[q].decision \in Taken PROVE FALSE
      BY DEF Untaken
    <3>1. order[o] = row[q].decision
      BY <1>1, <2>1, Places DEF Sound, Leads
    <3>2. Supporting = Open \cup Taken
      BY Places DEF Supporting
    <3>3. Decided(o, Supporting) = {q}
      BY <1>1, <3>2 DEF Sound, Exclusive, Decided
    <3>4. decisions = {row[q].decision}
      BY <3>3
    <3>5. decisions # {} /\ decisions \subseteq 0..9
      BY <3>4, Places
    <3> HIDE DEF decisions
    <3>6. Max(decisions) \in decisions
      BY <3>5, MaxIn
    <3> QED BY <2>1, <3>1, <3>4, <3>5, <3>6
  <2> HIDE DEF k, to, decisions
  <2>4. Fits(k)
    BY <2>1, <2>2, <2>3, Places DEF Fits
  <2> QED BY <1>2, <1>3, <2>1, <2>4, BeginInv
<1>7. CASE SelectGone(o)
  <2> DEFINE k == Call("select", None, o, {}, Candidates(o), TRUE)
  <2>1. k.step = "select" /\ k.order = o /\ k.rows = {}
    BY DEF Call
  <2>2. Begin(k) /\ UNCHANGED <<order, row>> /\ order[o] # NoStatus
    BY <1>7 DEF SelectGone
  <2> HIDE DEF k
  <2>3. Fits(k)
    BY <2>1, <2>2 DEF Fits
  <2> QED BY <1>2, <1>3, <2>2, <2>3, BeginInv
<1> QED BY <1>4, <1>5, <1>6, <1>7 DEF OrderAction

\* A step of a call that offers an order, and is the call's last or goes on.
LEMMA OfferingCall ==
    ASSUME MarketInv, Kept, NEW o \in Orders, Untaken(row, o),
           NEW s \in {Requested, Agreed},
           \/ UNCHANGED <<order, row>>
           \/ /\ order' = [order EXCEPT ![o] = s]
              /\ \A r \in Rows :
                   \/ row'[r].decision = row[r].decision /\ row'[r].order = row[r].order
                   \/ row'[r].decision \in Open /\ row'[r].order = o
    PROVE  /\ Sound' /\ Untaken(row', o)
           /\ order[o] # NoStatus => order'[o] # NoStatus
<1>1. MarketTyped /\ Sound /\ MarketTyped'
  BY DEF MarketInv, Kept
<1>2. CASE UNCHANGED <<order, row>>
  BY <1>1, <1>2, SameSound
<1>3. CASE ~UNCHANGED <<order, row>>
  BY <1>1, <1>3, OfferSound
<1> QED BY <1>2, <1>3

\* A driver that found an order offers on it; its own requests had none.
LEMMA SeekSound ==
    ASSUME MarketInv, NEW c \in calls, SeekWrite(c)
    PROVE  MarketInv'
<1> DEFINE o == c.order
           d == c.driver
           f == Min(Free)
<1>1. MarketTyped /\ Fits(c) /\ calls = {c} /\ RowsFilled(row) /\ row \in [Rows -> RowType]
  BY DEF MarketInv, MarketTyped, RowsFilled
<1>2. c.step = "seek" /\ calls' = {} /\ o \in Orders /\ d \in Drivers
  BY <1>1, CallHeld, StepNames DEF SeekWrite, At, End
<1>3. Kept
  BY <1>1, SeekTyped
<1>4. Untaken(row, o) /\ \A r \in c.rows : row[r].order = None
  BY <1>1, <1>2 DEF Fits
<1> DEFINE newRow == IF c.rows = {} THEN [row EXCEPT ![f] = New(d, o, Requested)]
                     ELSE Sought(row, c.rows, d, o)
           newOrder == [order EXCEPT ![o] = Requested]
<1>5. Commit(newOrder, newRow)
  BY DEF SeekWrite, Sought
<1> HIDE DEF o, d
<1>6. ASSUME NEW r \in Rows
      PROVE  \/ newRow[r].decision = row[r].decision /\ newRow[r].order = row[r].order
             \/ newRow[r].decision \in Open /\ newRow[r].order = o
  <2>1. CASE c.rows = {}
    <3>1. New(d, o, Requested).decision = Requested /\ New(d, o, Requested).order = o
      BY <1>2, NewRow
    <3> QED BY <1>1, <2>1, <3>1 DEF Open
  <2>2. CASE c.rows # {}
    <3> DEFINE new == Sought(row, c.rows, d, o)
    <3>1. /\ r \notin c.rows => new[r] = row[r]
          /\ r \in c.rows => new[r].decision = Requested
          /\ (r \in c.rows /\ row[r].order = None) => new[r].order = o
      BY <1>1, <1>2, SoughtRows
    <3> HIDE DEF new
    <3>2. newRow = new
      BY <2>2 DEF new
    <3> QED BY <1>4, <3>1, <3>2 DEF Open
  <2> QED BY <2>1, <2>2
<1> HIDE DEF newRow
<1>7. Sound'
  BY <1>2, <1>3, <1>4, <1>5, <1>6, Committed, OfferingCall
<1> QED BY <1>2, <1>3, <1>7, RestInv

\* A driver that is asked is one more of those the order is offered to.
LEMMA AskSound ==
    ASSUME MarketInv, NEW c \in calls, NEW r \in Rows, Ask(c, r)
    PROVE  MarketInv'
<1> DEFINE k == [c EXCEPT !.rows = @ \ {r}]
           o == c.order
<1>1. MarketTyped /\ Fits(c) /\ calls = {c} /\ row \in [Rows -> RowType]
  BY DEF MarketInv, MarketTyped, RowsFilled
<1>2. c.step = "ask" /\ r \in c.rows /\ o \in Orders /\ calls' \subseteq {k}
  BY <1>1, CallHeld DEF Ask, At
<1>3. Kept
  BY <1>1, AskTyped
<1>4. Untaken(row, o) /\ order[o] # NoStatus
  BY <1>1, <1>2 DEF Fits
<1>5. \/ UNCHANGED <<order, row>>
      \/ /\ order' = [order EXCEPT ![o] = Requested]
         /\ \A q \in Rows : \/ row'[q].decision = row[q].decision /\ row'[q].order = row[q].order
                            \/ row'[q].decision \in Open /\ row'[q].order = o
  <2>1. CASE row[r].status = Waiting /\ row[r].order = None
    <3> DEFINE x == [row[r] EXCEPT !.status = Requested, !.decision = Requested,
                                   !.order = o, !.byDriver = FALSE]
    <3>1. /\ order' = [order EXCEPT ![o] = Requested]
          /\ row' = [row EXCEPT ![r] = x]
      BY <1>1, <2>1 DEF Ask
    <3>2. x.decision = Requested /\ x.order = o
      BY <1>1 DEF RowType
    <3> HIDE DEF x
    <3> QED BY <1>1, <3>1, <3>2 DEF Open
  <2>2. CASE ~(row[r].status = Waiting /\ row[r].order = None)
    BY <2>2 DEF Ask
  <2> QED BY <2>1, <2>2
<1>6. k.step = "ask" /\ k.order = o
  BY <1>1, <1>2, AskOn
<1> HIDE DEF k, o
<1>7. Sound' /\ Untaken(row', o) /\ order'[o] # NoStatus
  BY <1>2, <1>3, <1>4, <1>5, OfferingCall
<1>8. Fits(k)'
  BY <1>6, <1>7 DEF Fits
<1> QED BY <1>2, <1>3, <1>7, <1>8, GoOnInv

\* A bid is an offer, and the requests given up had no part in the order.
LEMMA BidSound ==
    ASSUME MarketInv, NEW c \in calls, BidWrite(c)
    PROVE  MarketInv'
<1> DEFINE o == c.order
           d == c.driver
           f == Min(Free)
           given == {r \in LiveRows(d) : row[r].status < Agreed}
           left == [r \in Rows |-> IF r \in given THEN [row[r] EXCEPT !.status = CancelledAfterAccept]
                                   ELSE row[r]]
           newRow == [left EXCEPT ![f] = New(d, o, Agreed)]
           newOrder == [order EXCEPT ![o] = Agreed]
<1>1. MarketTyped /\ Fits(c) /\ calls = {c} /\ RowsFilled(row) /\ row \in [Rows -> RowType]
  BY DEF MarketInv, MarketTyped, RowsFilled
<1>2. c.step = "bid" /\ calls' = {} /\ o \in Orders
      /\ \A r \in c.rows : r \in Rows /\ row[r].order # None
  BY <1>1, CallHeld, StepNames DEF BidWrite, At, End
<1>3. Kept
  BY <1>1, BidTyped
<1>4. Untaken(row, o) /\ \A r \in c.rows : row[r].order = o
  BY <1>1, <1>2 DEF Fits
<1>5. \/ Commit(newOrder, Both(row, c.rows, Agreed))
      \/ Free # {} /\ Commit(newOrder, newRow)
      \/ UNCHANGED <<order, row>>
  BY DEF BidWrite
<1> DEFINE Offers(rows) ==
             \A r \in Rows : \/ rows[r].decision = row[r].decision /\ rows[r].order = row[r].order
                             \/ rows[r].decision \in Open /\ rows[r].order = o
<1> HIDE DEF o
<1>6. Offers(Both(row, c.rows, Agreed))
  <2> DEFINE new == Both(row, c.rows, Agreed)
  <2>1. Agreed \in Statuses \ {NoStatus, Waiting} /\ Agreed \in Open
    BY Places
  <2>2. \A r \in Rows : /\ r \notin c.rows => new[r] = row[r]
                        /\ r \in c.rows => new[r].decision = Agreed
                        /\ new[r].order = row[r].order
    BY <1>1, <1>2, <2>1, BothRows
  <2> HIDE DEF new
  <2>3. Offers(new)
    BY <1>4, <2>1, <2>2
  <2> HIDE DEF Offers
  <2> QED BY <2>3 DEF new
<1>7. Offers(newRow)
  <2>1. \A r \in Rows : left[r].decision = row[r].decision /\ left[r].order = row[r].order
    BY <1>1 DEF RowType
  <2>2. New(d, o, Agreed).decision = Agreed /\ New(d, o, Agreed).order = o
    BY <1>2, NewRow
  <2>3. \A r \in Rows : newRow[r] = IF r = f THEN New(d, o, Agreed) ELSE left[r]
    OBVIOUS
  <2> HIDE DEF newRow, left, f, d
  <2> QED BY <2>1, <2>2, <2>3 DEF Open
<1> HIDE DEF newRow
<1>8. Sound'
  <2>1. \/ UNCHANGED <<order, row>>
        \/ order' = newOrder /\ Offers(row')
    BY <1>5, <1>6, <1>7, Committed
  <2> QED BY <1>2, <1>3, <1>4, <2>1, OfferingCall
<1> QED BY <1>2, <1>3, <1>8, RestInv

\* Of the open offers of an order one is taken and the rest are over.
LEMMA SelectSound ==
    ASSUME MarketInv, NEW c \in calls, SelectWrite(c)
    PROVE  MarketInv'
<1> DEFINE o == c.order
           mid == Both(row, c.rest, NotSelectedInBid)
           newRow == Both(mid, c.rows, AcceptedByShipper)
           newOrder == Chosen(c)
<1>1. MarketTyped /\ Fits(c) /\ calls = {c} /\ RowsFilled(row) /\ Sound
  BY DEF MarketInv, MarketTyped
<1>2. c.step = "select" /\ calls' = {} /\ o \in Orders
      /\ \A r \in c.rows \cup c.rest : r \in Rows /\ row[r].order # None
  BY <1>1, CallHeld, StepNames DEF SelectWrite, At, End
<1>3. Kept
  BY <1>1, SelectTyped
<1>4. Commit(newOrder, newRow)
  BY DEF SelectWrite
<1>5. /\ NotSelectedInBid \in Statuses \ {NoStatus, Waiting}
      /\ AcceptedByShipper \in Statuses \ {NoStatus, Waiting}
      /\ NotSelectedInBid \notin Open \cup Taken /\ AcceptedByShipper \in Taken
  BY Places
<1>6. /\ RowsFilled(mid)
      /\ \A q \in Rows : /\ q \notin c.rest => mid[q] = row[q]
                         /\ q \in c.rest => mid[q].decision = NotSelectedInBid
                         /\ mid[q].order = row[q].order
  BY <1>1, <1>2, <1>5, BothRows
<1> HIDE DEF mid, o
<1>7. \A q \in Rows : /\ q \notin c.rows => newRow[q] = mid[q]
                      /\ q \in c.rows => newRow[q].decision = AcceptedByShipper
                      /\ newRow[q].order = mid[q].order
  <2>1. \A q \in Rows \cap c.rows : mid[q].order # None
    BY <1>2, <1>6
  <2> QED BY <1>5, <1>6, <2>1, BothRows
<1> HIDE DEF newRow, newOrder
\* Nobody is taken: offers end and no order moves.
<1>8. ASSUME c.rows = {}, order' = newOrder, row' = newRow PROVE Sound'
  <2>1. order' = order
    BY <1>8 DEF newOrder, Chosen
  <2>2. \A q \in Rows : /\ row'[q].order = row[q].order
                        /\ row'[q].decision \in Open \cup Taken => row'[q].decision = row[q].decision
    BY <1>5, <1>6, <1>7, <1>8
  <2> QED BY <1>1, <1>3, <2>1, <2>2, OffersKeepSound DEF Kept
<1>9. ASSUME c.rows # {}, order' = newOrder, row' = newRow PROVE Sound'
  <2>1. PICK r \in Rows : /\ c.rows = {r} /\ row[r].order = o /\ row[r].decision \in Open
                          /\ \A q \in Rows \ {r} : row[q].order = o /\ row[q].decision \in Open
                                  => q \in c.rest
    BY <1>1, <1>2, <1>9 DEF Fits, o
  <2>2. Untaken(row, o)
    BY <1>1, <1>2, <1>9 DEF Fits, o
  <2>3. /\ row'[r].order = o /\ row'[r].decision = AcceptedByShipper
        /\ \A q \in Rows \ {r} : row'[q] = mid[q]
    BY <1>6, <1>7, <1>9, <2>1
  <2>4. \A q \in Rows \ {r} :
           /\ row'[q].order = row[q].order
           /\ row'[q].decision \in Open \cup Taken =>
                  row'[q].decision = row[q].decision /\ row'[q].order # o
    BY <1>5, <1>6, <2>1, <2>2, <2>3 DEF Untaken
  <2> DEFINE s == AcceptedByShipper
  <2>5. order' = [order EXCEPT ![o] = s]
    BY <1>9 DEF newOrder, Chosen, o
  <2>6. /\ MarketTyped' /\ MarketTyped /\ Sound /\ o \in Orders /\ s \in Taken
        /\ row'[r].decision = s
    BY <1>1, <1>2, <1>3, <1>5, <2>3 DEF Kept
  <2> HIDE DEF s
  <2> QED BY <2>3, <2>4, <2>5, <2>6, TakingKeepsSound
<1>10. Sound'
  BY <1>1, <1>4, <1>8, <1>9, Committed, SameSound
<1> QED BY <1>2, <1>3, <1>10, RestInv

\* The order whose offer is turned down has no driver left.
LEMMA RejectSound ==
    ASSUME MarketInv, NEW c \in calls, RejectWrite(c) \/ WithdrawWrite(c)
    PROVE  MarketInv'
<1> DEFINE o == c.order
<1>1. MarketTyped /\ Fits(c) /\ calls = {c} /\ RowsFilled(row) /\ Sound
  BY DEF MarketInv, MarketTyped
<1>2. calls' = {} /\ o \in Orders /\ \A r \in Rows \cap c.rows : row[r].order # None
  BY <1>1, CallHeld, StepNames DEF RejectWrite, WithdrawWrite, At, End
<1>3. Kept
  BY <1>1, NegativeTyped
<1>4. PICK t \in Ended : row' = Negative(row, c.rows, t)
  BY DEF RejectWrite, WithdrawWrite, Ended
<1>5. t \notin Open \cup Taken
  BY Places DEF Ended
<1>6. \A r \in Rows :
        /\ row'[r].order = row[r].order
        /\ row'[r].decision = IF r \in c.rows /\ row[r].decision \in Open \cup {AcceptedByShipper}
                              THEN t ELSE row[r].decision
  BY <1>1, <1>2, <1>4, NegativeRows
<1>7. \E s \in Statuses \ {NoStatus} :
         \/ order' = order
         \/ order' = [order EXCEPT ![o] = s] /\ (s = CancelledByShipper \/ Untaken(row', o))
  <2>1. CASE RejectWrite(c)
    <3>1. PICK r \in Rows : /\ c.rows = {r} /\ row[r].order = o
                            /\ row[r].decision \in Open \cup {AcceptedByShipper}
      BY <1>1, <2>1 DEF Fits, RejectWrite, At
    <3>2. Untaken(row', o)
      <4> SUFFICES ASSUME NEW q \in Rows, row'[q].order = o, row'[q].decision \in Taken PROVE FALSE
        BY DEF Untaken
      <4>1. q # r /\ row[q].order = o /\ row[q].decision \in Taken
        BY <1>5, <1>6, <3>1
      <4>2. row[r].decision \in Open \cup Taken
        BY <3>1, Places
      <4> QED BY <1>1, <3>1, <4>1, <4>2 DEF Sound, Exclusive
    <3>3. order' = order \/ order' = [order EXCEPT ![o] = Waiting]
      BY <2>1 DEF RejectWrite
    <3>4. Waiting \in Statuses \ {NoStatus}
      BY Places
    <3> QED BY <3>2, <3>3, <3>4
  <2>2. CASE WithdrawWrite(c)
    <3>1. CancelledByShipper \in Statuses \ {NoStatus}
      BY Places
    <3> QED BY <2>2, <3>1 DEF WithdrawWrite
  <2> QED BY <2>1, <2>2
<1> HIDE DEF o
<1>8. \A r \in Rows : /\ \/ row'[r].decision \notin Open \cup Taken
                         \/ row'[r].decision = row[r].decision /\ row'[r].order = row[r].order
                      /\ row'[r].order \in {None, row[r].order}
  BY <1>5, <1>6
<1>9. Sound'
  BY <1>1, <1>2, <1>3, <1>7, <1>8, EndingSound DEF Kept
<1> QED BY <1>2, <1>3, <1>9, RestInv

\* The order whose driver is gone has none until another is asked.
LEMMA CancelSound ==
    ASSUME MarketInv, NEW c \in calls, NEW found \in SUBSET Rows, CancelWrite(c, found)
    PROVE  MarketInv'
<1> DEFINE status == IF c.found THEN CancelledAfterAccept ELSE CancelledBeforeAccept
           decision == IF c.rest # {} THEN status ELSE CancelledByAdmin
           o == c.order
           k == Call("ask", None, o, found, {}, TRUE)
<1>1. MarketTyped /\ Fits(c) /\ calls = {c} /\ Sound /\ row \in [Rows -> RowType]
  BY DEF MarketInv, MarketTyped, RowsFilled
<1>2. /\ calls' \subseteq {k} /\ o \in Orders /\ order' = order
      /\ row' = [r \in Rows |-> IF r \in c.rows
                                THEN [row[r] EXCEPT !.status = status, !.decision = decision]
                                ELSE row[r]]
  BY <1>1, CallHeld DEF CancelWrite
<1>3. Kept
  BY <1>1, CancelTyped
<1>4. PICK r \in Rows : c.rows = {r} /\ row[r].order = o /\ row[r].decision \in Open \cup Taken
  BY <1>1 DEF Fits, CancelWrite, At
<1>5. decision \notin Open \cup Taken
  BY Places
<1> HIDE DEF status, decision
<1>6. \A q \in Rows : /\ row'[q].order = row[q].order
                      /\ row'[q].decision = IF q = r THEN decision ELSE row[q].decision
  BY <1>1, <1>2, <1>4 DEF RowType
<1>7. k.step = "ask" /\ k.order = o
  BY DEF Call
<1> HIDE DEF k
<1>8. Untaken(row', o)
  BY <1>1, <1>4, <1>5, <1>6 DEF Untaken, Sound, Exclusive
<1>9. Sound'
  <2>1. Waiting \in Statuses \ {NoStatus}
    BY Places
  <2> HIDE DEF o
  <2> QED BY <1>1, <1>2, <1>3, <1>5, <1>6, <2>1, EndingSound DEF Kept
<1>10. Fits(k)'
  BY <1>1, <1>2, <1>7, <1>8 DEF Fits
<1> QED BY <1>2, <1>3, <1>9, <1>10, GoOnInv

\* The order whose offer ran out of time had no driver.
LEMMA TimeoutSound ==
    ASSUME MarketInv, NEW c \in calls, TimeoutWrite(c), Kept
    PROVE  MarketInv'
<1> DEFINE o == c.order
           alone == Cardinality(Decided(o, {Requested, Agreed, AcceptedByShipper})) = 1
           s == IF alone THEN Waiting ELSE IF order[o] = Requested THEN NoAnswer ELSE order[o]
<1>1. MarketTyped /\ Fits(c) /\ calls = {c} /\ Sound /\ row \in [Rows -> RowType]
  BY DEF MarketInv, MarketTyped, RowsFilled
<1>2. /\ c.step = "expire" /\ calls' = {} /\ o \in Orders
      /\ row' = [r \in Rows |-> IF r \in c.rows THEN [row[r] EXCEPT !.status = NoAnswer]
                                ELSE row[r]]
  BY <1>1, CallHeld DEF TimeoutWrite, At, End
<1>3. order' = [order EXCEPT ![o] = s]
  BY DEF TimeoutWrite
<1> HIDE DEF alone
<1>4. Untaken(row, o) /\ order[o] # NoStatus
  BY <1>1, <1>2 DEF Fits
<1>5. \A r \in Rows : row'[r].decision = row[r].decision /\ row'[r].order = row[r].order
  BY <1>1, <1>2 DEF RowType
<1>6. s \in Statuses \ {NoStatus}
  BY <1>1, <1>2, <1>4, Places DEF MarketTyped
<1>7. Untaken(row', o)
  BY <1>4, <1>5 DEF Untaken
<1> HIDE DEF s, o
<1>8. Sound'
  BY <1>1, <1>2, <1>3, <1>5, <1>6, <1>7, EndingSound DEF Kept
<1> QED BY <1>2, <1>8, RestInv

\* An order that is corrected has no driver.
LEMMA CheckSound ==
    ASSUME MarketInv, NEW c \in calls, TimeoutCheck(c) \/ ReconcileApply(c)
    PROVE  MarketInv'
<1> DEFINE o == c.order
<1>1. MarketTyped /\ Fits(c) /\ calls = {c} /\ Sound
  BY DEF MarketInv
<1>2. row' = row /\ o \in Orders
  BY <1>1, CallHeld DEF TimeoutCheck, ReconcileApply
<1>3. Kept
  BY <1>1, CheckTyped, ReconcileTyped
<1>4. Untaken(row, o) /\ order[o] # NoStatus
  BY <1>1 DEF Fits, TimeoutCheck, ReconcileApply, At
<1>5. CASE TimeoutCheck(c)
  <2> DEFINE k == [c EXCEPT !.step = "expire"]
  <2>1. c.step = "timeout" /\ calls' \subseteq {k} /\ order' = order
    BY <1>1, <1>5 DEF TimeoutCheck, At
  <2>2. k.step = "expire" /\ k.order = o
    BY <1>1, <2>1, ExpireNamed
  <2> HIDE DEF k
  <2>3. Fits(k)'
    BY <1>2, <1>4, <2>1, <2>2 DEF Fits
  <2>4. Sound'
    BY <1>1, <1>2, <2>1, SameSound
  <2> QED BY <1>3, <2>1, <2>3, <2>4, GoOnInv
<1>6. CASE ReconcileApply(c)
  <2> DEFINE s == c.to
  <2>1. /\ c.step = "correct" /\ calls' = {}
        /\ order' = order \/ order' = [order EXCEPT ![o] = s]
    BY <1>1, <1>6 DEF ReconcileApply, At, End
  <2>2. s \in Statuses \ {NoStatus}
    BY <1>1, <2>1, CallHeld, CallShape, Places
  <2> HIDE DEF s, o
  <2>3. Sound'
    BY <1>1, <1>2, <1>3, <1>4, <2>1, <2>2, EndingSound DEF Kept
  <2> QED BY <1>3, <2>1, <2>3, RestInv
<1> QED BY <1>5, <1>6

\* Every step keeps what is sound.
LEMMA MarketStep ==
    ASSUME Interleaved = {}, MarketInv, JobInv, [Next]_vars
    PROVE  MarketInv'
<1>1. CASE UNCHANGED vars
  <2>1. MarketTyped'
    BY <1>1, MarketTypedStep DEF MarketInv
  <2>2. Sound'
    BY <1>1, SameSound DEF MarketInv, vars
  <2>3. \A c \in calls' : Fits(c)'
    BY <1>1 DEF MarketInv, vars, Fits, Untaken
  <2> QED BY <1>1, <2>1, <2>2, <2>3 DEF MarketInv, vars
<1>2. ASSUME NEW c \in calls, CallStep(c) PROVE MarketInv'
  <2>1. TimeoutWrite(c) => Kept
    <3>1. StillOpen(c)
      BY DEF JobInv, Pending, StillOpen
    <3>2. TimeoutWrite(c) => \A r \in c.rows : row[r].decision \notin Working
      BY <3>1, Places DEF StillOpen, TimeoutWrite, At
    <3> QED BY <3>2, TimeoutTyped DEF JobInv
  <2> QED BY <1>2, <2>1, SeekSound, AskSound, BidSound, SelectSound, RejectSound, CancelSound,
             TimeoutSound, CheckSound DEF CallStep
<1> QED BY <1>1, <1>2, DriverSound, RowSound, OrderSound DEF Next

\* No order has a driver at first.
LEMMA InitSound == Init => MarketInv
<1> SUFFICES ASSUME Init PROVE MarketInv
  OBVIOUS
<1>1. MarketTyped /\ RowsWhole(row)
  BY InitTyped
<1>2. \A r \in Rows : row[r].order = None /\ row[r].decision = NoStatus
  BY DEF Init, NoRow
<1>3. Sound
  BY <1>2, Places DEF Sound, Exclusive, Leads, Placed
<1> QED BY <1>1, <1>3 DEF Init, MarketInv

\* The rows of an order with a driver at work.
LEMMA OneAtWork ==
    ASSUME MarketInv, NEW o \in Orders
    PROVE  Cardinality(Decided(o, Working)) <= 1
<1>1. CASE Decided(o, Working) = {}
  BY <1>1, FS_EmptySet
<1>2. CASE Decided(o, Working) # {}
  <2>1. PICK r : r \in Decided(o, Working)
    BY <1>2
  <2>2. \A q \in Decided(o, Working) : q = r
    BY <2>1, Places DEF Decided, MarketInv, Sound, Exclusive
  <2>3. Decided(o, Working) = {r}
    BY <2>1, <2>2
  <2> QED BY <2>3, FS_Singleton
<1> QED BY <1>1, <1>2

\* What holds in every state if one call follows the other.
LEMMA MarketInvariant == ASSUME Interleaved = {} PROVE Spec => [](MarketInv /\ JobInv)
<1>1. Init => MarketInv /\ JobInv
  BY InitSound, InitTyped DEF Init, JobInv, Pending
<1>2. MarketInv /\ JobInv /\ [Next]_vars => (MarketInv /\ JobInv)'
  BY MarketStep, JobStep
<1> QED BY <1>1, <1>2, PTL DEF Spec

\* However many drivers were asked, offered and were turned down, cancelled or
\* ran out of time, an order has one at work at most, as long as every call
\* ends before the next begins.
THEOREM OrderHasOneDriver ==
    ASSUME Interleaved = {}
    PROVE  Spec => []OneDriver
<1>1. MarketInv => OneDriver
  BY OneAtWork DEF OneDriver
<1> QED BY <1>1, MarketInvariant, PTL

\* The order of a driver at work is at the driver's stage or withdrawn, as long
\* as every call ends before the next begins.
THEOREM OrderFollowsDriver ==
    ASSUME Interleaved = {}
    PROVE  Spec => []JobLeadsOrder
<1>1. MarketInv => JobLeadsOrder
  BY Places DEF MarketInv, Sound, Leads, JobLeadsOrder
<1> QED BY <1>1, MarketInvariant, PTL

=============================================================================
