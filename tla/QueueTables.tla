---------------------------- MODULE QueueTables ----------------------------
(***************************************************************************)
(* The tables the queue services share, as one record, and the service     *)
(* helpers as operators from the tables to the tables.  A handler of the   *)
(* code that runs in one transaction is a composition of these operators.  *)
(*                                                                         *)
(* Scope: one queue organisation, one queue day, one vehicle type, orders  *)
(* that are offered first-in first-out (not opened to bidding, not aimed   *)
(* at a company).                                                          *)
(***************************************************************************)
EXTENDS Naturals, FiniteSets, FiniteSetsExt, QueueStatus

CONSTANTS
    Drivers,        \* driver users, each with one active vehicle assignment
    MaxEntries,     \* bound: DriverQueue rows ever inserted
    MaxOrders,      \* bound: orders ever placed, numbered by creation time
    MaxNumber,      \* bound: queue and loading numbers issued
    RefusalLimit,   \* QUEUE_REFUSAL_LIMIT
    Shippers,
    ShipperOf,      \* the shipper that placed each order
    BatchOf,        \* the batch each order was placed in
    None            \* SQL NULL

Entries == 1..MaxEntries
Orders == 1..MaxOrders

ASSUME DriversAssumption == Drivers # {} /\ None \notin Drivers
ASSUME BoundsAssumption ==
    MaxEntries \in Nat /\ MaxOrders \in Nat /\ MaxNumber \in Nat
ASSUME RefusalAssumption == RefusalLimit \in Nat \ {0}
ASSUME OrdersAssumption ==
    /\ ShipperOf \in [Orders -> Shippers]
    /\ DOMAIN BatchOf = Orders
    /\ None \notin Orders
    /\ None \notin Shippers

(***************************************************************************)
(* The tables.  A driver request and its decision (one to one, by the      *)
(* unique key on JourneyDecisions.driverRequestId) are one element of      *)
(* requests while they are live; once terminal, all that is ever read of   *)
(* them is that the driver said no to the order (decisions 11, 12 and 18)  *)
(* or that an admin called it off (13), and that the order was delivered.  *)
(***************************************************************************)
EntryRow ==
    [driver   : Drivers \cup {None},
     status   : EntryStatuses,
     number   : 0..MaxNumber,                \* queueNumber
     order    : Orders \cup {None},          \* shipperRequestUniqueId
     refusals : 0..(RefusalLimit - 1),       \* queueRefusalCount
     loading  : 0..MaxNumber,                \* loadingOrderNumber, 0 for NULL
     reserved : Shippers \cup {None},        \* targetedShipperUserUUID
     deleted  : BOOLEAN]                     \* queueDeletedAt IS NOT NULL

NoRow == [driver |-> None, status |-> NoStatus, number |-> 0, order |-> None,
          refusals |-> 0, loading |-> 0, reserved |-> None, deleted |-> FALSE]

Request == [driver : Drivers, order : Orders, status : RequestStatuses]

Tables ==
    [entry    : [Entries -> EntryRow],
     order    : [Orders -> OrderStatuses],
     requests : SUBSET Request,
     declined : SUBSET (Drivers \X Orders),
     calledOff : SUBSET (Drivers \X Orders),
     delivered : SUBSET Orders,
     armed    : SUBSET Drivers]              \* waiting request, no decision yet

EmptyTables ==
    [entry |-> [e \in Entries |-> NoRow], order |-> [o \in Orders |-> NoStatus],
     requests |-> {}, declined |-> {}, calledOff |-> {}, delivered |-> {},
     armed |-> {}]

-----------------------------------------------------------------------------
(***************************************************************************)
(* Queries.                                                                *)
(***************************************************************************)
Live(t, e) == t.entry[e].status # NoStatus /\ ~t.entry[e].deleted

\* Entries in one of the statuses that carry the order and are not deleted.
HoldersIn(t, o, statuses) ==
    {e \in Entries : Live(t, e) /\ t.entry[e].order = o /\ t.entry[e].status \in statuses}

Holders(t, o) == HoldersIn(t, o, HoldingStatuses)

\* ORDER BY queueNumber ASC LIMIT 1; equal numbers are told apart by row id.
FirstInLine(t, S) ==
    CHOOSE e \in S : \A f \in S : \/ t.entry[e].number < t.entry[f].number
                                  \/ t.entry[e].number = t.entry[f].number /\ e <= f

\* Newest number first.
LastInLine(t, S) ==
    CHOOSE e \in S : \A f \in S : \/ t.entry[e].number > t.entry[f].number
                                  \/ t.entry[e].number = t.entry[f].number /\ e >= f

\* MAX over the rows of the day, the deleted ones too.
NextQueueNumber(t) == 1 + Max({t.entry[e].number : e \in Entries})

NextLoadingNumber(t) == 1 + Max({t.entry[e].loading : e \in Entries})

\* getDriverQueueState: the driver's entries that are still in the line.
InLine(t, d) ==
    {e \in Entries : Live(t, e) /\ t.entry[e].driver = d
                                /\ t.entry[e].status \in InQueueStatuses}

HasActiveJourney(t, d) == \E r \in t.requests : r.driver = d

\* Fault: an accepted request does not count.
CanTakeRequest_RequestedOnly(t, d) == ~\E r \in t.requests : r.driver = d /\ r.status = Requested

\* ensureWaitingDriverRequest does not return null: no guarded request that
\* already carries a decision.
CanTakeRequest(t, d) ==
    ~\E r \in t.requests : r.driver = d /\ r.status \in GuardedStatuses

Refused(t, d, o) == <<d, o>> \in t.declined \cup t.calledOff

\* One decline cools the whole batch.  The list the query is given holds more
\* statuses than the query has placeholders, so 13 and 16 fall off its end.
BatchCooled(t, d, o) ==
    \E other \in Orders : BatchOf[other] = BatchOf[o] /\ <<d, other>> \in t.declined

\* Fault: the reservations are not looked at.
Takers_AnyReservation(t, o, excluded) ==
    {e \in Entries : /\ Live(t, e) /\ t.entry[e].status \in OfferableStatuses
                     /\ t.entry[e].driver \notin excluded
                     /\ ~Refused(t, t.entry[e].driver, o)
                     /\ ~BatchCooled(t, t.entry[e].driver, o)
                     /\ CanTakeRequest(t, t.entry[e].driver)}

\* Fault: earlier refusals are not looked at.
Takers_AskAgain(t, o, excluded) ==
    {e \in Entries : /\ Live(t, e) /\ t.entry[e].status \in OfferableStatuses
                     /\ t.entry[e].reserved \in {None, ShipperOf[o]}
                     /\ t.entry[e].driver \notin excluded
                     /\ CanTakeRequest(t, t.entry[e].driver)}

\* The rows the FIFO scan of offerToDriver can end on: the scan skips the
\* drivers that cannot take a request and goes on with the next row.
Takers(t, o, excluded) ==
    {e \in Entries :
        LET row == t.entry[e]
        IN  /\ Live(t, e)
            /\ row.status \in OfferableStatuses
            /\ row.reserved \in {None, ShipperOf[o]}
            /\ row.driver \notin excluded
            /\ ~Refused(t, row.driver, o)
            /\ ~BatchCooled(t, row.driver, o)
            /\ CanTakeRequest(t, row.driver)}

\* The one it ends on.  The ORDER BY was to put the drivers reserved for the
\* order's shipper first, but the placeholders of the batch rule shift what it is
\* compared with to a status id, and the place in the line decides alone.
FrontEntry(t, o, excluded) == FirstInLine(t, Takers(t, o, excluded))

-----------------------------------------------------------------------------
(***************************************************************************)
(* Updates.                                                                *)
(***************************************************************************)
\* Entries other than e that hold the order unanswered lose it.
ReleaseRetained(t, o, e) ==
    [t EXCEPT !.entry = [f \in Entries |->
        IF f \in HoldersIn(t, o, {NoAnswer}) \ {e}
        THEN [t.entry[f] EXCEPT !.status = CancelledBeforeAccept, !.order = None]
        ELSE t.entry[f]]]

\* The tail of offerToDriver once the entry is chosen: the decision is created
\* on the driver's waiting request, and the order, the driver request and the
\* entry become requested.
Offer(t, o, e) ==
    [ReleaseRetained(t, o, e) EXCEPT
        !.entry[e].status = Requested,
        !.entry[e].order = o,
        !.order[o] = Requested,
        !.requests = @ \cup {[driver |-> t.entry[e].driver, order |-> o,
                              status |-> Requested]},
        !.armed = @ \ {t.entry[e].driver}]

\* offerToDriver in FIFO mode with throwIfNone = false.
OfferFifo(t, o, excluded) ==
    IF Takers(t, o, excluded) = {} THEN t
    ELSE Offer(t, o, FrontEntry(t, o, excluded))

ResetToWaitingIfUnheld(t, o) ==
    IF Holders(t, o) # {} THEN t ELSE [t EXCEPT !.order[o] = Waiting]

\* Fault: an order nobody is left for is not reset.
OfferToNextDriver_NoReset(t, o, d) == OfferFifo(t, o, {d})

OfferToNextDriver(t, o, d) ==
    IF Takers(t, o, {d}) = {} THEN ResetToWaitingIfUnheld(t, o)
    ELSE OfferFifo(t, o, {d})

\* applyRefusalPolicy: count is the refusal count read with the entry, which
\* may be older than the row that is written.  At the limit the count starts
\* again and the entry gets a number at the back of the line.
MovesBack(count) == count + 1 >= RefusalLimit

\* Fault: the count is not started again at the limit.
ChargeRefusal_NoReset(t, e, count, back) ==
    IF MovesBack(count) THEN [t EXCEPT !.entry[e].refusals = count + 1, !.entry[e].number = back]
    ELSE [t EXCEPT !.entry[e].refusals = count + 1]

ChargeRefusal(t, e, count, back) ==
    IF MovesBack(count)
    THEN [t EXCEPT !.entry[e].refusals = 0, !.entry[e].number = back]
    ELSE [t EXCEPT !.entry[e].refusals = count + 1]

ApplyRefusal(t, e, count) == ChargeRefusal(t, e, count, NextQueueNumber(t))

\* Close an entry for good: the order link goes, the row is soft-deleted.
CloseEntry(t, e, status) ==
    [t EXCEPT !.entry[e].status = status, !.entry[e].order = None,
              !.entry[e].deleted = TRUE]

\* Keep the place in the line, drop the order.
ReturnToLine(t, e, status) ==
    [t EXCEPT !.entry[e].status = status, !.entry[e].order = None]

\* The live requests of the driver for the order in one of the statuses.
LiveRequests(t, d, o, statuses) ==
    {r \in t.requests : r.driver = d /\ r.order = o /\ r.status \in statuses}

\* The entries of the driver q asks that carry its order before the journey.
TheirEntries(t, q) ==
    {e \in HoldersIn(t, q.order, {Requested, NoAnswer, Agreed}) :
        t.entry[e].driver = q.driver}

\* releaseAgreedEntryForUnselectedBidder, after the invitation itself has ended
\* whatever it has come to: the entry is back in the line without its yard
\* number, and the driver has not refused.
EndInvitation(t, q) ==
    LET ended == [t EXCEPT !.requests =
                     @ \ LiveRequests(t, q.driver, q.order, RequestStatuses)]
        e == Min(TheirEntries(t, q))
    IN  IF TheirEntries(t, q) = {} THEN ended
        ELSE [ReturnToLine(ended, e, Waiting) EXCEPT !.entry[e].loading = 0]

\* Requests and decisions that end with the driver saying no (11, 12, 18).
Decline(t, gone) ==
    [t EXCEPT !.requests = @ \ gone,
              !.declined = @ \cup {<<r.driver, r.order>> : r \in gone}]

\* Requests and decisions an admin ends (13).
CallOff(t, gone) ==
    [t EXCEPT !.requests = @ \ gone,
              !.calledOff = @ \cup {<<r.driver, r.order>> : r \in gone}]

\* Fault: the request of the driver that leaves stays open.
TerminalizeOrderRequest_Skipped(t, d, o) == t

TerminalizeOrderRequest(t, d, o) == Decline(t, LiveRequests(t, d, o, {Requested}))

\* Fault: an order that is being asked counts as pending.
PendingOrders_HeldToo(t) == {o \in Orders : t.order[o] \in {Waiting, Requested}}

\* Fault: the status of the order is not looked at.
PendingOrders_AnyStatus(t) ==
    {o \in Orders : t.order[o] # NoStatus /\ HoldersIn(t, o, {Requested}) = {}}

\* Fault: an order kept by a driver that did not answer counts as held.
PendingOrders_NotRetained(t) ==
    {o \in Orders : t.order[o] \in {Waiting, Requested}
                    /\ HoldersIn(t, o, {Requested, NoAnswer}) = {}}

\* rescanPendingQueueOrder: the pending orders without an entry that is being
\* asked, oldest first, until one of them is offered.
PendingOrders(t) ==
    {o \in Orders : t.order[o] \in {Waiting, Requested}
                    /\ HoldersIn(t, o, {Requested}) = {}}

RescanPendingOrder(t) ==
    LET served == {o \in PendingOrders(t) : Takers(t, o, {}) # {}}
    IN  IF served = {} THEN t ELSE OfferFifo(t, Min(served), {})

\* rejectOffer: the asked entry loses the order, is charged a refusal, and the
\* order goes to the next driver.
RejectOffer(t, o, asked) ==
    IF asked = {} THEN t
    ELSE LET e == FirstInLine(t, asked)
             freed == ReturnToLine(t, e, CancelledBeforeAccept)
         IN  OfferToNextDriver(ApplyRefusal(freed, e, t.entry[e].refusals),
                               o, t.entry[e].driver)

\* releaseQueueEntryAfterDriverCancel: the job holder's entry is closed, the
\* refusal is charged to that closed row, and the order goes on.
ReleaseAfterDriverCancel(t, o) ==
    LET jobs == HoldersIn(t, o, JobStatuses)
    IN  IF jobs = {} THEN t
        ELSE LET e == FirstInLine(t, jobs)
                 closed == CloseEntry(t, e, CancelledAfterAccept)
             IN  OfferToNextDriver(ApplyRefusal(closed, e, t.entry[e].refusals),
                                   o, t.entry[e].driver)

\* Fault: the entry is left as it is.
ReleaseOnOrderCancel_Skipped(t, o) == t

\* releaseEntryOnOrderCancel: an unaccepted offer goes back to waiting, an
\* accepted job is closed; no refusal, no next driver.
ReleaseOnOrderCancel(t, o) ==
    IF Holders(t, o) = {} THEN t
    ELSE LET e == FirstInLine(t, Holders(t, o))
             done == TerminalizeOrderRequest(t, t.entry[e].driver, o)
         IN  IF t.entry[e].status \in {Requested, NoAnswer}
             THEN ReturnToLine(done, e, Waiting)
             ELSE CloseEntry(done, e, CancelledAfterAccept)

\* Fault: an entry that is loaded does not follow.
MirrorProgress_NotLoaded(t, o, status) ==
    LET jobs == HoldersIn(t, o, JobStatuses \ {Loaded, JourneyStarted})
    IN  IF jobs = {} THEN t ELSE [t EXCEPT !.entry[Min(jobs)].status = status]

\* updateQueueEntryOnJourneyProgress and closeEntryOnJourneyCompletion take any
\* one holder; row order is the order of the primary key.
MirrorProgress(t, o, status) ==
    LET jobs == HoldersIn(t, o, JobStatuses \ {JourneyStarted})
    IN  IF jobs = {} THEN t ELSE [t EXCEPT !.entry[Min(jobs)].status = status]

CloseOnCompletion(t, o) ==
    LET jobs == HoldersIn(t, o, JobStatuses)
    IN  IF jobs = {} THEN t ELSE CloseEntry(t, Min(jobs), JourneyCompleted)
=============================================================================
