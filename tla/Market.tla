------------------------------- MODULE Market -------------------------------
(***************************************************************************)
(* Orders outside the queues: a shipper places an order, drivers nearby    *)
(* are asked or look for orders themselves, several may offer, the shipper *)
(* takes one, the driver takes the load and arrives.  The minute timer     *)
(* ends the offers that were matched for a driver and not answered.        *)
(*                                                                         *)
(* A row is a DriverRequest with its JourneyDecision: a decision belongs   *)
(* to one request and a request has one decision at most.  A transaction   *)
(* that locks what it decides on is one step; what is read before it, or   *)
(* in it without a lock, is kept in calls until the step that writes.      *)
(*                                                                         *)
(* Not here: queue orders (DriverQueue) and company orders (Contract).     *)
(* Which drivers and orders are near each other is left open.              *)
(***************************************************************************)
EXTENDS Naturals, FiniteSets, FiniteSetsExt, QueueStatus

Parties == {"user", "timer", "reconciler"}

CONSTANTS
    Drivers, Orders, Shippers, None,
    ShipperOf,      \* the shipper of each order
    MaxRows,        \* driver requests made
    Interleaved     \* the parties whose calls interleave with any other

ASSUME MarketAssumption ==
    /\ ShipperOf \in [Orders -> Shippers]
    /\ MaxRows \in Nat
    /\ Interleaved \subseteq Parties
    /\ None \notin Drivers \cup Orders

VARIABLES
    order,          \* status of each order
    row,            \* the driver requests with their decisions
    calls           \* calls between what they read and what they write

vars == <<order, row, calls>>

-----------------------------------------------------------------------------
Rows == 1..MaxRows

Active == Waiting..JourneyStarted

Working == AcceptedByShipper..JourneyStarted

Statuses == {NoStatus} \cup Active \cup
            {JourneyCompleted, CancelledByShipper, RejectedByShipper, CancelledAfterAccept,
             CancelledByAdmin, NoAnswer, NotSelectedInBid, CancelledBeforeAccept}

\* Refusals that keep an order from the driver.
Refusals == {CancelledAfterAccept, RejectedByShipper, CancelledBeforeAccept,
             CancelledByAdmin, NoAnswer}

RowType == [driver : Drivers \cup {None}, order : Orders \cup {None},
            status : Statuses, decision : Statuses, byDriver : BOOLEAN]

NoRow == [driver |-> None, order |-> None, status |-> NoStatus,
          decision |-> NoStatus, byDriver |-> FALSE]

Steps == {"seek", "ask", "bid", "select", "reject", "cancel", "withdraw", "timeout", "expire"}

\* driver and order the call is about, the rows it read, and whether it found
\* what its next step depends on.
Calls == [step : Steps, driver : Drivers \cup {None}, order : Orders,
          rows : SUBSET Rows, rest : SUBSET Rows, found : BOOLEAN]
              \cup [step : {"correct"}, driver : {None}, order : Orders,
                    from : Active, to : Active \cup {JourneyCompleted}]

\* Every variable has its type.
TypeOK ==
    /\ order \in [Orders -> Statuses]
    /\ row \in [Rows -> RowType]
    /\ calls \subseteq Calls

Init ==
    /\ order = [o \in Orders |-> NoStatus]
    /\ row = [r \in Rows |-> NoRow]
    /\ calls = {}

-----------------------------------------------------------------------------
Of(d) == {r \in Rows : row[r].driver = d}

LiveRows(d) == {r \in Of(d) : row[r].status \in Active}

Decided(o, statuses) == {r \in Rows : row[r].order = o /\ row[r].decision \in statuses}

\* The most advanced live request of d.
Current(d) == CHOOSE r \in LiveRows(d) : \A q \in LiveRows(d) : row[q].status <= row[r].status

Refused(d, o) == \E r \in Of(d) : row[r].order = o /\ row[r].decision \in Refusals

Free == {r \in Rows : row[r].driver = None}

\* The nearby drivers an order is offered to: waiting, and not refused before.
Askable(o) == {r \in Rows : row[r].status = Waiting /\ ~Refused(row[r].driver, o)}

Both(rows, chosen, status) ==
    [r \in Rows |-> IF r \in chosen THEN [rows[r] EXCEPT !.status = status, !.decision = status]
                    ELSE rows[r]]

New(d, o, status) == [driver |-> d, order |-> o, status |-> status,
                      decision |-> IF o = None THEN NoStatus ELSE status, byDriver |-> TRUE]

\* uq_driver_active_request: a driver has one request at most from waiting to
\* the loading place.
GuardHolds(rows) ==
    \A r, q \in Rows :
        /\ r # q /\ rows[r].driver = rows[q].driver
        /\ {rows[r].status, rows[q].status} \subseteq Waiting..GoToLoadingPlace
        => FALSE

\* A transaction that breaks the index is rolled back.
Commit(newOrder, newRow) ==
    IF GuardHolds(newRow) THEN order' = newOrder /\ row' = newRow
    ELSE UNCHANGED <<order, row>>

Party(c) ==
    CASE c.step \in {"timeout", "expire"} -> "timer"
      [] c.step = "correct" -> "reconciler"
      [] OTHER -> "user"

\* A call begins while the others are at rest, or interleaves with them; nobody
\* makes two calls at a time.
Starts(party) ==
    party \in Interleaved \/ \A c \in calls : Party(c) \in Interleaved

Idle(d) == \A c \in calls : c.driver # d

Call(step, d, o, rows, rest, found) ==
    [step |-> step, driver |-> d, order |-> o, rows |-> rows, rest |-> rest, found |-> found]

Begin(c) == calls' = calls \cup {c}

End(c) == calls' = calls \ {c}

At(c, step) == c.step = step

-----------------------------------------------------------------------------
(* The driver looks for work.                                              *)

\* No order is near: the driver waits.
GoOnline(d) ==
    /\ Starts("user") /\ Idle(d)
    /\ LiveRows(d) = {} /\ Free # {}
    /\ row' = [row EXCEPT ![Min(Free)] = New(d, None, Waiting)]
    /\ UNCHANGED <<order, calls>>

\* An order is near that nobody has settled.
Seek(d, o) ==
    /\ Starts("user") /\ Idle(d)
    /\ \A r \in LiveRows(d) : row[r].status = Waiting
    /\ LiveRows(d) = {} => Free # {}
    /\ order[o] \in {Waiting, Requested, Agreed} /\ ~Refused(d, o)
    /\ Begin(Call("seek", d, o, LiveRows(d), {}, TRUE))
    /\ UNCHANGED <<order, row>>

\* executeStatusUpdates: a decision the request has meanwhile is asked again,
\* for the order it is about.
SeekWrite(c) ==
    /\ At(c, "seek") /\ (c.rows = {} => Free # {})
    /\ Commit([order EXCEPT ![c.order] = Requested],
              IF c.rows = {} THEN [row EXCEPT ![Min(Free)] = New(c.driver, c.order, Requested)]
              ELSE [r \in Rows |->
                        IF r \notin c.rows THEN row[r]
                        ELSE IF row[r].order = None THEN New(c.driver, c.order, Requested)
                        ELSE [row[r] EXCEPT !.status = Requested, !.decision = Requested]])
    /\ End(c)

-----------------------------------------------------------------------------
(* The shipper places an order, and the drivers found are asked one after  *)
(* the other.                                                              *)

PlaceOrder(o, found) ==
    /\ Starts("user") /\ order[o] = NoStatus
    /\ found \subseteq Askable(o)
    /\ order' = [order EXCEPT ![o] = Waiting]
    /\ IF found = {} THEN UNCHANGED calls
       ELSE Begin(Call("ask", None, o, found, {}, TRUE))
    /\ UNCHANGED row

\* A request that is no longer waiting, or has a decision, is passed over.
Ask(c, r) ==
    /\ At(c, "ask") /\ r \in c.rows
    /\ IF row[r].status = Waiting /\ row[r].order = None
       THEN /\ order' = [order EXCEPT ![c.order] = Requested]
            /\ row' = [row EXCEPT ![r].status = Requested, ![r].decision = Requested,
                                  ![r].order = c.order, ![r].byDriver = FALSE]
       ELSE UNCHANGED <<order, row>>
    /\ calls' = (calls \ {c}) \cup
                (IF c.rows = {r} THEN {} ELSE {[c EXCEPT !.rows = @ \ {r}]})

-----------------------------------------------------------------------------
(* The driver answers, or offers unasked.                                  *)

AcceptShipperRequest(r) ==
    /\ Starts("user") /\ row[r].decision = Requested
    /\ Commit([order EXCEPT ![row[r].order] = Agreed], Both(row, {r}, Agreed))
    /\ UNCHANGED calls

BidRead(d, o) ==
    /\ Starts("user") /\ Idle(d)
    /\ order[o] \in {Waiting, Requested, Agreed}
    /\ Begin(Call("bid", d, o, {r \in Of(d) : r \in Decided(o, Active)}, {}, TRUE))
    /\ UNCHANGED <<order, row>>

\* A driver that was asked accepts; another gives up what it waits for and
\* makes a new request, unless it is at work.
BidWrite(c) ==
    LET given == {r \in LiveRows(c.driver) : row[r].status < Agreed}
        left == [r \in Rows |-> IF r \in given THEN [row[r] EXCEPT !.status = CancelledAfterAccept]
                                ELSE row[r]]
    IN  /\ At(c, "bid")
        /\ \/ /\ c.rows # {}
              /\ Commit([order EXCEPT ![c.order] = Agreed], Both(row, c.rows, Agreed))
           \/ /\ c.rows = {} /\ LiveRows(c.driver) \subseteq given /\ Free # {}
              /\ Commit([order EXCEPT ![c.order] = Agreed],
                        [left EXCEPT ![Min(Free)] = New(c.driver, c.order, Agreed)])
           \/ /\ c.rows = {} /\ (~(LiveRows(c.driver) \subseteq given) \/ Free = {})
              /\ UNCHANGED <<order, row>>
        /\ End(c)

-----------------------------------------------------------------------------
(* The shipper takes an offer or turns one down.                           *)

\* The candidates are the open decisions of all the orders of the shipper.
Candidates(o) == {q \in Rows : /\ row[q].decision \in {Requested, Agreed}
                               /\ ShipperOf[row[q].order] = ShipperOf[o]}

SelectRead(r) ==
    /\ Starts("user") /\ row[r].decision \in {Requested, Agreed}
    /\ Begin(Call("select", None, row[r].order, {r}, Candidates(row[r].order) \ {r}, TRUE))
    /\ UNCHANGED <<order, row>>

\* The request named is not open any more: of the others none is the one taken.
SelectGone(o) ==
    /\ Starts("user") /\ order[o] # NoStatus /\ Candidates(o) # {}
    /\ Begin(Call("select", None, o, {}, Candidates(o), TRUE))
    /\ UNCHANGED <<order, row>>

Chosen(c) == IF c.rows = {} THEN order ELSE [order EXCEPT ![c.order] = AcceptedByShipper]

\* Fault: the drivers not chosen keep their offers.
SelectWrite_OthersStay(c) ==
    /\ At(c, "select")
    /\ Commit(Chosen(c), Both(row, c.rows, AcceptedByShipper))
    /\ End(c)

SelectWrite(c) ==
    /\ At(c, "select")
    /\ Commit(Chosen(c), Both(Both(row, c.rest, NotSelectedInBid), c.rows, AcceptedByShipper))
    /\ End(c)

\* The accepted offers of the order are counted before the transaction.
RejectRead(r) ==
    /\ Starts("user") /\ row[r].decision \in {Requested, Agreed, AcceptedByShipper}
    /\ Begin(Call("reject", None, row[r].order, {r}, {},
                  Cardinality(Decided(row[r].order, {Agreed})) <= 1))
    /\ UNCHANGED <<order, row>>

\* updateNegativeJourneyStatus: only open requests and decisions are ended.
Negative(rows, chosen, status) ==
    LET Ended(s) == IF s \in {Requested, Agreed, AcceptedByShipper} THEN status ELSE s
    IN  [r \in Rows |->
            IF r \in chosen THEN [rows[r] EXCEPT !.status = Ended(@), !.decision = Ended(@)]
            ELSE rows[r]]

RejectWrite(c) ==
    /\ At(c, "reject")
    /\ order' = IF c.found THEN [order EXCEPT ![c.order] = Waiting] ELSE order
    /\ row' = Negative(row, c.rows, RejectedByShipper)
    /\ End(c)

\* The decisions are read before the order is ended.
WithdrawRead(o) ==
    /\ Starts("user") /\ order[o] # NoStatus
    /\ Begin(Call("withdraw", None, o, Decided(o, Statuses), {}, TRUE))
    /\ UNCHANGED <<order, row>>

WithdrawWrite(c) ==
    /\ At(c, "withdraw")
    /\ order' = [order EXCEPT ![c.order] = CancelledByShipper]
    /\ row' = Negative(row, c.rows, CancelledByShipper)
    /\ End(c)

-----------------------------------------------------------------------------
(* The driver or an admin cancels the request.                             *)

\* A request that waits is ended; it has no order.
GoOffline(d) ==
    /\ Starts("user") /\ Idle(d)
    /\ \E r \in LiveRows(d) :
        /\ r = Current(d) /\ row[r].order = None
        /\ row' = [row EXCEPT ![r].status = CancelledBeforeAccept]
    /\ UNCHANGED <<order, calls>>

\* found: the driver was at least agreed when the call read the request.
CancelRead(d, byDriver) ==
    /\ Starts("user") /\ Idle(d)
    /\ \E r \in LiveRows(d) :
        /\ r = Current(d) /\ row[r].order # None
        /\ Begin(Call("cancel", d, row[r].order, {r}, IF byDriver THEN {r} ELSE {},
                      row[r].status >= Agreed))
    /\ UNCHANGED <<order, row>>

\* Fault: the decision is left as it was.
CancelWrite_DecisionStays(c, found) ==
    LET status == IF c.found THEN CancelledAfterAccept ELSE CancelledBeforeAccept
        alone == Cardinality(Decided(c.order, Active)) = 1
    IN  /\ At(c, "cancel")
        /\ row' = [r \in Rows |->
                    IF r \in c.rows THEN [row[r] EXCEPT !.status = status] ELSE row[r]]
        /\ found \subseteq (IF alone /\ c.rest # {} THEN Askable(c.order) ELSE {})
        /\ calls' = (calls \ {c}) \cup
                    (IF found = {} THEN {} ELSE {Call("ask", None, c.order, found, {}, TRUE)})
        /\ UNCHANGED order

\* The order of the last open decision is offered to others; it keeps its
\* status until one is asked.
CancelWrite(c, found) ==
    LET status == IF c.found THEN CancelledAfterAccept ELSE CancelledBeforeAccept
        decision == IF c.rest # {} THEN status ELSE CancelledByAdmin
        alone == Cardinality(Decided(c.order, Active)) = 1
    IN  /\ At(c, "cancel")
        /\ row' = [r \in Rows |->
                    IF r \in c.rows THEN [row[r] EXCEPT !.status = status, !.decision = decision]
                    ELSE row[r]]
        /\ found \subseteq (IF alone /\ c.rest # {} THEN Askable(c.order) ELSE {})
        /\ calls' = (calls \ {c}) \cup
                    (IF found = {} THEN {} ELSE {Call("ask", None, c.order, found, {}, TRUE)})
        /\ UNCHANGED order

-----------------------------------------------------------------------------
(* The minute timer.                                                       *)

TimeoutRead(r) ==
    /\ Starts("timer") /\ \A c \in calls : Party(c) # "timer"
    /\ row[r].decision = Requested /\ row[r].status = Requested /\ row[r].byDriver
    /\ order[row[r].order] = Requested
    /\ Begin(Call("timeout", None, row[r].order, {r}, {}, TRUE))
    /\ UNCHANGED <<order, row>>

\* The order is read again.
TimeoutCheck(c) ==
    /\ At(c, "timeout")
    /\ calls' = (calls \ {c}) \cup
                (IF order[c.order] \in {Agreed, AcceptedByShipper} THEN {}
                 ELSE {[c EXCEPT !.step = "expire"]})
    /\ UNCHANGED <<order, row>>

\* The decision stays as it is.
TimeoutWrite(c) ==
    LET alone == Cardinality(Decided(c.order, {Requested, Agreed, AcceptedByShipper})) = 1
    IN  /\ At(c, "expire")
        /\ row' = [r \in Rows |-> IF r \in c.rows THEN [row[r] EXCEPT !.status = NoAnswer]
                                  ELSE row[r]]
        /\ order' = [order EXCEPT ![c.order] =
                        IF alone THEN Waiting ELSE IF @ = Requested THEN NoAnswer ELSE @]
        /\ End(c)

-----------------------------------------------------------------------------
(* The reconciliation compares an order with its decisions, and corrects it  *)
(* if it still has the status it read.                                     *)

Supporting == Requested..JourneyCompleted

\* Fault: an order without decisions is not looked for.
ReconcileRead_AdvanceOnly(o) ==
    LET decisions == {row[r].decision : r \in Decided(o, Supporting)}
        to == Max(decisions)
    IN  /\ Starts("reconciler") /\ \A c \in calls : Party(c) # "reconciler"
        /\ order[o] \in Active /\ decisions # {} /\ to > order[o]
        /\ Begin([step |-> "correct", driver |-> None, order |-> o,
                  from |-> order[o], to |-> to])
        /\ UNCHANGED <<order, row>>

ReconcileRead(o) ==
    LET decisions == {row[r].decision : r \in Decided(o, Supporting)}
        to == IF decisions = {} THEN Waiting ELSE Max(decisions)
    IN  /\ Starts("reconciler") /\ \A c \in calls : Party(c) # "reconciler"
        /\ order[o] \in Active
        /\ to # order[o] /\ (decisions # {} => to > order[o])
        /\ Begin([step |-> "correct", driver |-> None, order |-> o,
                  from |-> order[o], to |-> to])
        /\ UNCHANGED <<order, row>>

ReconcileApply(c) ==
    /\ At(c, "correct")
    /\ order' = IF order[c.order] = c.from THEN [order EXCEPT ![c.order] = c.to] ELSE order
    /\ End(c)
    /\ UNCHANGED row

-----------------------------------------------------------------------------
(* The journey.                                                            *)

\* Fault: the order is not moved with the journey.
StartJourney_OrderStays(r) ==
    /\ Starts("user") /\ row[r].decision = AcceptedByShipper
    /\ Commit(order, Both(row, {r}, JourneyStarted))
    /\ UNCHANGED calls

StartJourney(r) ==
    /\ Starts("user") /\ row[r].decision = AcceptedByShipper
    /\ Commit([order EXCEPT ![row[r].order] = JourneyStarted], Both(row, {r}, JourneyStarted))
    /\ UNCHANGED calls

CompleteJourney(r) ==
    /\ Starts("user") /\ row[r].decision = JourneyStarted
    /\ Commit([order EXCEPT ![row[r].order] = JourneyCompleted], Both(row, {r}, JourneyCompleted))
    /\ UNCHANGED calls

\* A shipper on the street: the driver is free, and the order, the request and
\* the journey begin at once.
TakeFromStreet(d, o) ==
    /\ Starts("user") /\ Idle(d)
    /\ LiveRows(d) = {} /\ Free # {} /\ order[o] = NoStatus
    /\ order' = [order EXCEPT ![o] = JourneyStarted]
    /\ row' = [row EXCEPT ![Min(Free)] = New(d, o, JourneyStarted)]
    /\ UNCHANGED calls

-----------------------------------------------------------------------------
CallStep(c) ==
    \/ SeekWrite(c)
    \/ \E r \in Rows : Ask(c, r)
    \/ BidWrite(c)
    \/ SelectWrite(c)
    \/ RejectWrite(c)
    \/ WithdrawWrite(c)
    \/ \E found \in SUBSET Rows : CancelWrite(c, found)
    \/ TimeoutCheck(c)
    \/ TimeoutWrite(c)
    \/ ReconcileApply(c)

DriverAction(d) ==
    \/ GoOnline(d) \/ GoOffline(d)
    \/ \E byDriver \in BOOLEAN : CancelRead(d, byDriver)
    \/ \E o \in Orders : Seek(d, o) \/ BidRead(d, o) \/ TakeFromStreet(d, o)

RowAction(r) ==
    \/ AcceptShipperRequest(r) \/ SelectRead(r) \/ RejectRead(r) \/ TimeoutRead(r)
    \/ StartJourney(r) \/ CompleteJourney(r)

OrderAction(o) ==
    \/ \E found \in SUBSET Rows : PlaceOrder(o, found)
    \/ SelectGone(o) \/ WithdrawRead(o)
    \/ ReconcileRead(o)

Next ==
    \/ \E d \in Drivers : DriverAction(d)
    \/ \E r \in Rows : RowAction(r)
    \/ \E o \in Orders : OrderAction(o)
    \/ \E c \in calls : CallStep(c)

Spec == Init /\ [][Next]_vars

\* A call that began ends, and the reconciliation comes round.
FairSpec ==
    /\ Spec
    /\ \A party \in Parties : WF_vars(\E c \in calls : Party(c) = party /\ CallStep(c))
    /\ \A o \in Orders : SF_vars(ReconcileRead(o))

-----------------------------------------------------------------------------
\* An order has one driver at work at most, however many were asked, offered
\* and were turned down, cancelled or timed out (actionAccept.service.js, the
\* loop over the connected drivers).
OneDriver == \A o \in Orders : Cardinality(Decided(o, Working)) <= 1

\* The request of a driver at work and its decision agree: no call ends the one
\* and leaves the other (updateJourneyStatus, cancelDriverRequest).
JobIsOne ==
    \A r \in Rows :
        /\ row[r].status \in Working => row[r].decision = row[r].status
        /\ row[r].decision \in Working => row[r].status = row[r].decision

\* The order of a driver at work is at the driver's stage, unless the shipper
\* called it off, which does not stop a journey that has started.
JobLeadsOrder ==
    \A r \in Rows : row[r].decision \in Working =>
        order[row[r].order] \in {row[r].decision, CancelledByShipper}

\* An order whose last driver is gone is offered again in the end, though
\* cancelling leaves it where it was (cancelDriverRequest, reconcileStatus).
AbandonedOrderReturns ==
    \A o \in Orders :
        order[o] \in Active /\ Decided(o, Supporting) = {} ~>
            order[o] \notin Active \ {Waiting} \/ Decided(o, Supporting) # {}

\* ListOfSeedData.js:778 - a decision on one of the supporting statuses still
\* evidences a live request.
DecisionIsLive ==
    \A r \in Rows : row[r].decision \in Requested..JourneyStarted => row[r].status \in Active
=============================================================================
