---------------------------- MODULE DriverQueue ----------------------------
(***************************************************************************)
(* The driver queue of one organisation: drivers join a line, each order   *)
(* is offered to one driver at a time, refused, left unanswered or         *)
(* accepted, driven, completed or cancelled.                               *)
(*                                                                         *)
(* A handler that runs in one transaction is one action.  Accepting an     *)
(* order, completing a journey, the expiry sweep and the status            *)
(* reconciliation are several statements or transactions long; what they   *)
(* carry from one to the next is in inFlight and sweep, and everybody      *)
(* else may act in between when Concurrent is TRUE.                        *)
(***************************************************************************)
EXTENDS QueueTables

CONSTANTS
    Operations,     \* the entry points this instance exercises
    Reservations,   \* shippers a driver may reserve the position for, or None
    Concurrent,     \* may other calls interleave with a call in progress?
    MaxInFlight     \* bound: calls between two of their transactions

ASSUME OperationsAssumption ==
    /\ Concurrent \in BOOLEAN
    /\ MaxInFlight \in Nat
    /\ Reservations \subseteq Shippers \cup {None}

VARIABLES
    tables,         \* the database
    inFlight,       \* calls that have committed one part and not yet the next
    sweep           \* the timer's pass, between its statements

vars == <<tables, inFlight, sweep>>

-----------------------------------------------------------------------------
\* What a call remembers between two of its transactions.
AcceptCalls == [step : {"accept", "agree"}, driver : Drivers, order : Orders]
StampCalls == [step : {"stamp"}, entry : Entries, order : Orders,
               loading : 0..MaxNumber]
CloseCalls == [step : {"close", "release"}, order : Orders]
DismissCalls == [step : {"dismiss"}, order : Orders, others : SUBSET Request]
Corrections == [step : {"correct"}, order : Orders, from : OrderStatuses,
                to : OrderStatuses]
Calls == AcceptCalls \cup StampCalls \cup CloseCalls \cup DismissCalls \cup Corrections

\* An expired offer as the sweep's SELECT saw it.
Expired == [entry : Entries, driver : Drivers, order : Orders,
            refusals : 0..(RefusalLimit - 1)]

\* The timer's pass: what is left of the expired offers, the one in hand, and
\* what the last statements read - the number at the back of the line, the
\* order to offer and the entry found in front.
Pass == [at : {"idle", "mark", "charge", "seek", "offer", "settle"},
         todo : SUBSET Expired, expired : Expired \cup {None},
         back : 0..MaxNumber, order : Orders \cup {None},
         front : Entries \cup {None}]

SweepIdle == [at |-> "idle", todo |-> {}, expired |-> None, back |-> 0,
              order |-> None, front |-> None]

TypeOK ==
    /\ tables \in Tables
    /\ inFlight \subseteq Calls
    /\ sweep \in Pass

Init ==
    /\ tables = EmptyTables
    /\ inFlight = {}
    /\ sweep = SweepIdle

Quiet == inFlight = {} /\ sweep = SweepIdle

\* An entry point is used by this instance and may start now.
Starts(op) == op \in Operations /\ (Concurrent \/ Quiet)

\* Bound: numbers stay below MaxNumber; a step that would issue a larger one
\* is not taken.
WithinBounds(t) ==
    \A e \in Entries : t.entry[e].number <= MaxNumber /\ t.entry[e].loading <= MaxNumber

Commit(t) == WithinBounds(t) /\ tables' = t

\* The whole handler is one transaction.
Transaction(t) == Commit(t) /\ UNCHANGED <<inFlight, sweep>>

\* A call commits a part and goes on to the next one, or is over.
Continue(call, next) ==
    /\ Cardinality((inFlight \ {call}) \cup next) <= MaxInFlight
    /\ inFlight' = (inFlight \ {call}) \cup next
    /\ UNCHANGED sweep

Begin(next) ==
    /\ Cardinality(inFlight \cup next) <= MaxInFlight
    /\ inFlight' = inFlight \cup next
    /\ UNCHANGED sweep

-----------------------------------------------------------------------------
(***************************************************************************)
(* Joining and leaving the line.                                           *)
(***************************************************************************)
FreeRows == {e \in Entries : tables.entry[e].status = NoStatus}

\* A fresh row at the back of the line, then one pending order is offered to
\* whoever is in front.
JoinLine(d, shipper) ==
    /\ FreeRows # {}
    /\ Transaction(RescanPendingOrder(
           [tables EXCEPT !.entry[Min(FreeRows)] =
               [NoRow EXCEPT !.driver = d, !.status = Waiting,
                             !.number = NextQueueNumber(tables),
                             !.reserved = shipper]]))

\* Fault: the driver's place in the line is not looked for.
CheckIn_Twice(d, shipper) ==
    /\ Starts("checkin")
    /\ d \notin tables.armed
    /\ ~HasActiveJourney(tables, d)
    /\ JoinLine(d, shipper)

\* A driver with a waiting request is taken to be on the on-demand market.
CheckIn(d, shipper) ==
    /\ Starts("checkin")
    /\ d \notin tables.armed
    /\ ~HasActiveJourney(tables, d)
    /\ InLine(tables, d) = {}
    /\ JoinLine(d, shipper)

\* Checking in again keeps the place, and reserves it when a shipper is named.
CheckInAgain(d, shipper) ==
    /\ Starts("checkin")
    /\ shipper # None
    /\ ~HasActiveJourney(tables, d)
    /\ InLine(tables, d) # {}
    /\ Transaction([tables EXCEPT !.entry[Max(InLine(tables, d))].reserved = shipper])

ManualCheckin(d, shipper) ==
    /\ Starts("manualCheckin")
    /\ ~HasActiveJourney(tables, d)
    /\ InLine(tables, d) = {}
    /\ JoinLine(d, shipper)

\* A driver leaves the line; an order still being asked of them goes on.
Checkout(d) ==
    /\ Starts("checkout")
    /\ LET mine == {e \in Entries : Live(tables, e) /\ tables.entry[e].driver = d}
       IN  /\ mine # {}
           /\ LET e == LastInLine(tables, mine)
                  row == tables.entry[e]
                  closed == CloseEntry(tables, e, CancelledAfterAccept)
              IN  /\ row.status \in JobStatuses => row.order = None
                  /\ Transaction(
                        IF row.status \in {Requested, NoAnswer} /\ row.order # None
                        THEN OfferToNextDriver(
                                TerminalizeOrderRequest(closed, d, row.order),
                                row.order, d)
                        ELSE closed)

\* An admin takes an entry out; only an entry that is being asked passes its
\* order on.
RemoveEntry(e) ==
    /\ Starts("remove")
    /\ Live(tables, e)
    /\ LET row == tables.entry[e]
           closed == CloseEntry(tables, e, CancelledByAdmin)
       IN  Transaction(
              IF row.status = Requested /\ row.order # None
              THEN OfferToNextDriver(
                      CallOff(closed, LiveRequests(closed, row.driver, row.order,
                                                   {Requested, AcceptedByShipper})),
                      row.order, row.driver)
              ELSE closed)

OverrideEntry(e, number) ==
    /\ Starts("override")
    /\ Live(tables, e)
    /\ Transaction([tables EXCEPT !.entry[e].number = number])

-----------------------------------------------------------------------------
(***************************************************************************)
(* Orders and offers.                                                      *)
(***************************************************************************)
NewOrders == {o \in Orders : tables.order[o] = NoStatus}

PlaceOrder(o) ==
    /\ Starts("place")
    /\ NewOrders # {} /\ o = Min(NewOrders)
    /\ Transaction(OfferFifo([tables EXCEPT !.order[o] = Waiting], o, {}))

\* Manual dispatch to the front of the line.
DispatchToFront(o) ==
    /\ Starts("dispatch")
    /\ tables.order[o] # NoStatus
    /\ Takers(tables, o, {}) # {}
    /\ Transaction(OfferFifo(tables, o, {}))

\* Manual dispatch to a named entry: the batch rule does not apply, and asking
\* the driver that is already being asked changes nothing.
DispatchToEntry(o, e) ==
    /\ Starts("dispatch")
    /\ tables.order[o] # NoStatus
    /\ Live(tables, e)
    /\ LET row == tables.entry[e]
       IN  /\ \/ row.status \in OfferableStatuses
              \/ row.status = Requested /\ row.order = o
           /\ ~Refused(tables, row.driver, o)
           /\ row.reserved \in {None, ShipperOf[o]}
           /\ CanTakeRequest(tables, row.driver)
    /\ Transaction(Offer(tables, o, e))

\* checkActiveDriverRequest answers the most advanced request of the driver,
\* an accepted one coming before the loading stages.
Rank(r) ==
    CASE r.status = JourneyStarted -> 4
      [] r.status = AcceptedByShipper -> 3
      [] r.status \in {GoToLoadingPlace, Loading, Loaded} -> 2
      [] r.status = Requested -> 1

\* A driver gives up the request it has: a refusal before accepting, a
\* cancellation after.  On the driver's behalf only the request is ended.
CancelDriverRequest(r, byDriver) ==
    /\ Starts(IF byDriver THEN "driverCancel" ELSE "adminCancel")
    /\ \A other \in tables.requests : other.driver = r.driver => Rank(other) <= Rank(r)
    /\ LET ended == Decline(tables, {r})
           asked == {e \in HoldersIn(ended, r.order, {Requested}) :
                        ended.entry[e].driver = r.driver}
       IN  Transaction(
              IF ~byDriver THEN CallOff(tables, {r})
              ELSE IF r.status = Requested THEN RejectOffer(ended, r.order, asked)
              ELSE ReleaseAfterDriverCancel(ended, r.order))

\* The same call on a request that waits for an offer.  Left out: the call
\* between the two statements of the pass that find and use that very request.
CancelWaitingRequest(d) ==
    /\ Starts("driverCancel")
    /\ d \in tables.armed /\ ~HasActiveJourney(tables, d)
    /\ sweep.at = "offer" => tables.entry[sweep.front].driver # d
    /\ Transaction([tables EXCEPT !.armed = @ \ {d}])

\* The shipper turns the driver down: the order waits again, the decision is
\* rejected, and an entry that is being asked passes the order on.
RejectDriverOffer(r) ==
    /\ Starts("shipperReject")
    /\ r.status \in {Requested, AcceptedByShipper}
    /\ LET ended == Decline([tables EXCEPT !.order[r.order] = Waiting], {r})
       IN  Transaction(RejectOffer(ended, r.order,
                                   HoldersIn(ended, r.order, {Requested})))

\* The order is cancelled by its shipper or by an admin, whatever its status;
\* decisions past acceptedByShipper are left as they are.
CancelShipperRequest(o, status) ==
    /\ Starts("shipperCancel")
    /\ tables.order[o] # NoStatus
    /\ LET cancelled == [tables EXCEPT !.order[o] = status]
           ended == {r \in tables.requests :
                        r.order = o /\ r.status \in {Requested, AcceptedByShipper}}
       IN  Transaction(ReleaseOnOrderCancel(
              IF status = CancelledByAdmin THEN CallOff(cancelled, ended)
              ELSE [cancelled EXCEPT !.requests = @ \ ended], o))

-----------------------------------------------------------------------------
(***************************************************************************)
(* Accepting: the gate on the entry, the transaction on the decision, the  *)
(* lookup of the entry, the write of the entry, the lookup of the order's  *)
(* other invitations and the end of each of them are steps of their own.   *)
(***************************************************************************)
AcceptGate(r) ==
    /\ Starts("accept")
    /\ r.status = Requested
    /\ LET asked == HoldersIn(tables, r.order, {Requested, NoAnswer})
       IN  asked # {} /\ tables.entry[Min(asked)].driver = r.driver
    /\ Begin({[step |-> "accept", driver |-> r.driver, order |-> r.order]})
    /\ UNCHANGED tables

\* Fault: the order is left requested.
AcceptDecision_OrderBehind(call) ==
    LET mine == LiveRequests(tables, call.driver, call.order, {Requested})
    IN  IF mine = {}
        THEN Continue(call, {}) /\ UNCHANGED tables
        ELSE /\ Commit([tables EXCEPT !.requests = (@ \ mine) \cup
                            {[r EXCEPT !.status = AcceptedByShipper] : r \in mine}])
             /\ Continue(call, {[call EXCEPT !.step = "agree"]})

\* The decision must still be requested; order, request and decision move on.
AcceptDecision(call) ==
    LET mine == LiveRequests(tables, call.driver, call.order, {Requested})
    IN  IF mine = {}
        THEN Continue(call, {}) /\ UNCHANGED tables
        ELSE /\ Commit([tables EXCEPT
                    !.order[call.order] = AcceptedByShipper,
                    !.requests = (@ \ mine) \cup
                        {[r EXCEPT !.status = AcceptedByShipper] : r \in mine}])
             /\ Continue(call, {[call EXCEPT !.step = "agree"]})

\* An agreed holder comes before the ones still being asked.
AcceptedEntry(t, o) ==
    LET agreed == HoldersIn(t, o, {Agreed})
    IN  FirstInLine(t, IF agreed # {} THEN agreed
                       ELSE HoldersIn(t, o, {Requested, NoAnswer}))

\* No entry, or another driver's: the caller is told 409 and nothing is undone.
AcceptLookup(call) ==
    /\ LET o == call.order
           e == AcceptedEntry(tables, o)
           number == IF tables.entry[e].loading = 0 THEN NextLoadingNumber(tables)
                     ELSE tables.entry[e].loading
       IN  IF /\ HoldersIn(tables, o, {Requested, Agreed, NoAnswer}) # {}
              /\ tables.entry[e].driver = call.driver
           THEN /\ number <= MaxNumber
                /\ Continue(call, {[step |-> "stamp", entry |-> e, order |-> o,
                                    loading |-> number]})
           ELSE Continue(call, {})
    /\ UNCHANGED tables

\* Fault: the yard number is not written.
AcceptStamp_NoNumber(call) ==
    /\ Commit([tables EXCEPT !.entry[call.entry].status = Agreed,
                             !.entry[call.entry].order = call.order])
    /\ Continue(call, {[step |-> "release", order |-> call.order]})

\* The write names the entry by its id alone.
AcceptStamp(call) ==
    /\ Commit([tables EXCEPT !.entry[call.entry].status = Agreed,
                             !.entry[call.entry].order = call.order,
                             !.entry[call.entry].loading = call.loading])
    /\ Continue(call, {[step |-> "release", order |-> call.order]})

\* releaseNotSelectedBidInvitees: who else is still asked for the order.
ReleaseRead(call) ==
    LET others == {r \in tables.requests : r.order = call.order /\ r.status = Requested}
    IN  /\ Continue(call, IF others = {} THEN {}
                           ELSE {[step |-> "dismiss", order |-> call.order, others |-> others]})
        /\ UNCHANGED tables

\* Each of them is ended in turn.
ReleaseInvitee(call) ==
    \E q \in call.others :
        /\ Commit(EndInvitation(tables, q))
        /\ Continue(call, IF call.others = {q} THEN {}
                          ELSE {[call EXCEPT !.others = @ \ {q}]})

-----------------------------------------------------------------------------
(***************************************************************************)
(* The journey.  Order, request and decision take the new status together; *)
(* the entry mirrors it, in the same transaction for the stages and after  *)
(* the commit for the completion.                                          *)
(***************************************************************************)
Progressed(r, status) ==
    MirrorProgress(
        [tables EXCEPT !.order[r.order] = status,
                       !.requests = (@ \ {r}) \cup {[r EXCEPT !.status = status]}],
        r.order, status)

LoadingStage(r) ==
    /\ Starts("loading")
    /\ r.status \in {AcceptedByShipper, GoToLoadingPlace, Loading}
    /\ Transaction(Progressed(r, r.status + 1))

StartJourney(r) ==
    /\ Starts("start")
    /\ r.status \in {AcceptedByShipper, GoToLoadingPlace, Loading, Loaded}
    /\ Transaction(Progressed(r, JourneyStarted))

\* Any stage that has a Journey row may complete.
CompleteJourney(r) ==
    /\ Starts("complete")
    /\ r.status \in {GoToLoadingPlace, Loading, Loaded, JourneyStarted}
    /\ Commit([tables EXCEPT !.order[r.order] = JourneyCompleted,
                             !.requests = @ \ {r},
                             !.delivered = @ \cup {r.order}])
    /\ Begin({[step |-> "close", order |-> r.order]})

CompletionClose(call) ==
    /\ Commit(CloseOnCompletion(tables, call.order))
    /\ Continue(call, {})

-----------------------------------------------------------------------------
(***************************************************************************)
(* The timer's pass, in autocommit: every statement stands on its own, and *)
(* the rows it names may have changed since they were read.  First the     *)
(* offers past their window are read once; each is marked unanswered with  *)
(* its order kept, charged as a refusal with the count that was read, and  *)
(* advanced to the next driver; the first driver's request is ended only   *)
(* if somebody else was found.  Then the pending orders are offered.       *)
(***************************************************************************)
\* Fault: the order is looked for among the waiting ones.
ExpiredOffers_WaitingOrders ==
    {x \in Expired : /\ Live(tables, x.entry)
                     /\ tables.entry[x.entry].status = Requested
                     /\ tables.entry[x.entry].driver = x.driver
                     /\ tables.entry[x.entry].order = x.order
                     /\ tables.entry[x.entry].refusals = x.refusals
                     /\ tables.order[x.order] = Waiting}

ExpiredOffers ==
    {x \in Expired :
        LET row == tables.entry[x.entry]
        IN  /\ Live(tables, x.entry)
            /\ row.status = Requested /\ row.driver = x.driver
            /\ row.order = x.order /\ row.refusals = x.refusals
            /\ tables.order[x.order] = Requested
            /\ LiveRequests(tables, x.driver, x.order, {Requested}) # {}}

SweepRead(found) ==
    /\ Starts("expiry")
    /\ sweep = SweepIdle
    /\ found # {}
    /\ sweep' = [SweepIdle EXCEPT !.at = "mark", !.todo = found]
    /\ UNCHANGED <<tables, inFlight>>

SweepMark(x) ==
    /\ sweep.at = "mark"
    /\ Commit([tables EXCEPT !.entry[x.entry].status = NoAnswer])
    /\ MovesBack(x.refusals) => NextQueueNumber(tables) <= MaxNumber
    /\ sweep' = [sweep EXCEPT
                    !.at = "charge", !.todo = @ \ {x}, !.expired = x,
                    !.back = IF MovesBack(x.refusals) THEN NextQueueNumber(tables) ELSE 0]
    /\ UNCHANGED inFlight

SweepCharge ==
    /\ sweep.at = "charge"
    /\ LET x == sweep.expired
       IN  /\ Commit(ChargeRefusal(tables, x.entry, x.refusals, sweep.back))
           /\ sweep' = [sweep EXCEPT !.at = "seek", !.back = 0, !.order = x.order]
    /\ UNCHANGED inFlight

\* On to the next expired offer, or the end of the pass.
SweepNext ==
    IF sweep.todo = {} THEN SweepIdle ELSE [SweepIdle EXCEPT !.at = "mark", !.todo = sweep.todo]

\* The front driver is chosen and given a waiting request.
Found(o, e) ==
    /\ Commit([tables EXCEPT !.armed = @ \cup {tables.entry[e].driver}])
    /\ sweep' = [sweep EXCEPT !.at = "offer", !.order = o, !.front = e]

SweepSeek ==
    /\ sweep.at = "seek"
    /\ LET passed == {sweep.expired.driver}
       IN  IF Takers(tables, sweep.order, passed) = {}
           THEN /\ Commit(ResetToWaitingIfUnheld(tables, sweep.order))
                /\ sweep' = SweepNext
           ELSE Found(sweep.order, FrontEntry(tables, sweep.order, passed))
    /\ UNCHANGED inFlight

\* Fault: an order nobody can take holds up the ones behind it.
RescanSeek_OldestOnly ==
    /\ Starts("rescan")
    /\ sweep = SweepIdle
    /\ PendingOrders(tables) # {}
    /\ LET o == Min(PendingOrders(tables))
       IN  Takers(tables, o, {}) # {} /\ Found(o, FrontEntry(tables, o, {}))
    /\ UNCHANGED inFlight

\* One round of the periodic re-dispatch: the oldest pending order somebody
\* can take.
RescanSeek ==
    /\ Starts("rescan")
    /\ sweep = SweepIdle
    /\ LET served == {o \in PendingOrders(tables) : Takers(tables, o, {}) # {}}
       IN  /\ served # {}
           /\ Found(Min(served), FrontEntry(tables, Min(served), {}))
    /\ UNCHANGED inFlight

\* The offer itself.  When the waiting request was used up meanwhile, the
\* decision's unique key fails the insert and the pass ends there.
SweepOffer ==
    /\ sweep.at = "offer"
    /\ LET o == sweep.order
           e == sweep.front
       IN  IF tables.entry[e].driver \in tables.armed
           THEN /\ Commit(Offer(tables, o, e))
                /\ sweep' = IF sweep.expired = None THEN SweepIdle
                            ELSE [sweep EXCEPT !.at = "settle", !.front = None]
           ELSE /\ Commit(ReleaseRetained(tables, o, e))
                /\ sweep' = SweepIdle
    /\ UNCHANGED inFlight

SweepSettle ==
    /\ sweep.at = "settle"
    /\ LET x == sweep.expired
       IN  Commit([tables EXCEPT !.requests =
                      @ \ LiveRequests(tables, x.driver, x.order, {Requested})])
    /\ sweep' = SweepNext
    /\ UNCHANGED inFlight

-----------------------------------------------------------------------------
(***************************************************************************)
(* The status reconciliation: an order behind its decisions is moved up to *)
(* them, an order without any goes back to waiting, if its status is still *)
(* the one that was read.                                                  *)
(***************************************************************************)
SupportingStatuses(t, o) ==
    {r.status : r \in {q \in t.requests : q.order = o}}
        \cup (IF o \in t.delivered THEN {JourneyCompleted} ELSE {})

ReconcileRead(o) ==
    /\ Starts("reconcile")
    /\ tables.order[o] \in ActiveOrderStatuses
    /\ LET found == SupportingStatuses(tables, o)
           to == IF found = {} THEN Waiting ELSE Max(found)
       IN  /\ to # tables.order[o]
           /\ found # {} => to > tables.order[o]
           /\ Begin({[step |-> "correct", order |-> o,
                      from |-> tables.order[o], to |-> to]})
    /\ UNCHANGED tables

\* Fault: the status is written without looking at it again.
ReconcileApply_Blind(call) ==
    /\ Commit([tables EXCEPT !.order[call.order] = call.to])
    /\ Continue(call, {})

ReconcileApply(call) ==
    /\ Commit(IF tables.order[call.order] = call.from
              THEN [tables EXCEPT !.order[call.order] = call.to] ELSE tables)
    /\ Continue(call, {})

-----------------------------------------------------------------------------
\* The process ends between two statements; the database stays as it is.
Restart ==
    /\ "restart" \in Operations
    /\ ~Quiet
    /\ inFlight' = {} /\ sweep' = SweepIdle
    /\ UNCHANGED tables

CallStep(call) ==
    \/ call.step = "accept" /\ AcceptDecision(call)
    \/ call.step = "agree" /\ AcceptLookup(call)
    \/ call.step = "stamp" /\ AcceptStamp(call)
    \/ call.step = "release" /\ ReleaseRead(call)
    \/ call.step = "dismiss" /\ ReleaseInvitee(call)
    \/ call.step = "close" /\ CompletionClose(call)
    \/ call.step = "correct" /\ ReconcileApply(call)

SweepStep ==
    \/ \E x \in sweep.todo : SweepMark(x)
    \/ SweepCharge
    \/ SweepSeek
    \/ SweepOffer
    \/ SweepSettle

EntryAction ==
    \/ \E d \in Drivers, s \in Reservations :
          CheckIn(d, s) \/ CheckInAgain(d, s) \/ ManualCheckin(d, s)
    \/ \E d \in Drivers : Checkout(d) \/ CancelWaitingRequest(d)
    \/ \E e \in Entries : RemoveEntry(e)
    \/ \E e \in Entries, n \in 1..MaxNumber : OverrideEntry(e, n)

OrderAction ==
    \/ \E o \in Orders :
          \/ PlaceOrder(o)
          \/ DispatchToFront(o)
          \/ \E e \in Entries : DispatchToEntry(o, e)
          \/ \E s \in {CancelledByShipper, CancelledByAdmin} : CancelShipperRequest(o, s)

RequestAction ==
    \E r \in tables.requests :
        \/ \E byDriver \in BOOLEAN : CancelDriverRequest(r, byDriver)
        \/ RejectDriverOffer(r)
        \/ AcceptGate(r)
        \/ LoadingStage(r)
        \/ StartJourney(r)
        \/ CompleteJourney(r)

Next ==
    \/ EntryAction
    \/ OrderAction
    \/ RequestAction
    \/ \E found \in SUBSET ExpiredOffers : SweepRead(found)
    \/ RescanSeek
    \/ SweepStep
    \/ \E o \in Orders : ReconcileRead(o)
    \/ \E call \in inFlight : CallStep(call)
    \/ Restart

Spec == Init /\ [][Next]_vars

(***************************************************************************)
(* The interval timer keeps running the pass, every pass offers the        *)
(* pending orders after the expired ones, and a call or a pass that has    *)
(* begun goes on to its end, unless the process dies, which it does not do *)
(* for ever.                                                               *)
(***************************************************************************)
Fairness ==
    /\ WF_vars(SweepRead(ExpiredOffers))
    /\ SF_vars(RescanSeek)
    /\ WF_vars(SweepStep)
    /\ WF_vars(\E call \in inFlight : CallStep(call))
    /\ <>[][~Restart]_vars

FairSpec == Spec /\ Fairness

-----------------------------------------------------------------------------
(***************************************************************************)
(* Safety.                                                                 *)
(***************************************************************************)
\* A driver never has two requests under the guard of the unique index
\* uq_driver_active_request: no path of the queue ever runs into ER_DUP_ENTRY.
OneGuardedRequest ==
    \A r1, r2 \in tables.requests :
        (r1.driver = r2.driver /\ {r1.status, r2.status} \subseteq GuardedStatuses)
            => r1 = r2

\* A driver stands in the line once: of a driver's live entries at most one is
\* waiting, being asked or unanswered, through check-ins, refusals, expiries
\* and cancellations.
OneLineEntry ==
    \A d \in Drivers : Cardinality(InLine(tables, d)) <= 1

\* No order is bound to two entries: whoever else it is offered to, the entry
\* that had it has let it go.
OneHolder ==
    \A o \in Orders : Cardinality(Holders(tables, o)) <= 1

\* Whenever no call is halfway, an entry that is being asked for an order has
\* behind it a live request of that driver for that order, still requested,
\* and the order itself is requested: the driver is able to answer.
AskedCanAnswer ==
    Quiet => \A e \in Entries :
        LET row == tables.entry[e]
        IN  (Live(tables, e) /\ row.status = Requested) =>
                /\ LiveRequests(tables, row.driver, row.order, {Requested}) # {}
                /\ tables.order[row.order] = Requested

\* Conversely, whenever no call is halfway, a request that is still to be
\* answered belongs to an entry in the line that holds its order: nobody is
\* kept out of the line by an offer that no entry carries.
RequestHasHolder ==
    Quiet => \A r \in tables.requests :
        r.status = Requested =>
            \E e \in HoldersIn(tables, r.order, {Requested, NoAnswer}) :
                tables.entry[e].driver = r.driver

\* Whenever no call is halfway, a driver on a job is at the stage its request
\* is at: the entry says agreed while the decision says accepted, and the same
\* stage from then on, and the order agrees with both.
JobMirrorsJourney ==
    Quiet => \A e \in Entries :
        LET row == tables.entry[e]
            stage == IF row.status = Agreed THEN AcceptedByShipper ELSE row.status
        IN  (Live(tables, e) /\ row.status \in JobStatuses) =>
                /\ LiveRequests(tables, row.driver, row.order, {stage}) # {}
                /\ tables.order[row.order] = stage

\* Whenever no call is halfway, an order shown as requested or under way is
\* held by an entry: "driver found" is never said of an order nobody holds.
ShownOrderIsHeld ==
    Quiet => \A o \in Orders :
        tables.order[o] \in ActiveOrderStatuses \ {Waiting} => Holders(tables, o) # {}

\* A driver that reserved the position for a shipper is asked by, and drives
\* for, no other shipper, however often the reservation is made over.
ReservationIsKept ==
    \A e \in Entries :
        LET row == tables.entry[e]
        IN  (Live(tables, e) /\ row.status \in {Requested} \cup JobStatuses)
                => row.reserved \in {None, ShipperOf[row.order]}

\* No two entries carry the same yard number, so the lowest live one names the
\* serving shipper.
LoadingNumbersUnique ==
    \A e, f \in Entries :
        (e # f /\ tables.entry[e].loading # 0)
            => tables.entry[e].loading # tables.entry[f].loading

\* Whenever no call is halfway, every accepted job has its yard number: the
\* driver that won the order has an entry on it, stamped for the yard.
AcceptedIsStamped ==
    Quiet => \A r \in tables.requests :
        r.status # Requested =>
            \E e \in HoldersIn(tables, r.order, JobStatuses) :
                tables.entry[e].driver = r.driver /\ tables.entry[e].loading # 0

(***************************************************************************)
(* What no step may do.                                                    *)
(***************************************************************************)
\* An order that was delivered or cancelled is never made offerable or live
\* again.
ClosedOrderStaysClosed ==
    [][\A o \in Orders : tables.order[o] \in ClosedOrderStatuses
          => tables'.order[o] \in ClosedOrderStatuses]_vars

\* A correction decided on before an order was delivered or cancelled does not
\* bring the order back when it is written afterwards.
CorrectionNeverReopens ==
    [][\A call \in inFlight \ inFlight' :
          call.step = "correct" /\ tables.order[call.order] \in ClosedOrderStatuses
          => tables'.order[call.order] = tables.order[call.order]]_vars

\* An order on a driver's job is not offered to anybody else before that job
\* entry has let it go.
AcceptedIsNotReoffered ==
    [][\A o \in Orders :
          LET jobs == HoldersIn(tables, o, JobStatuses)
          IN  (jobs # {} /\ HoldersIn(tables', o, {Requested})
                              \ HoldersIn(tables, o, {Requested}) # {})
                  => \A e \in jobs : tables'.entry[e].order # o]_vars

(***************************************************************************)
(* Liveness.                                                               *)
(***************************************************************************)
\* The bound on the numbers has not stopped the moves to the back.
NumbersLeft == NextQueueNumber(tables) <= MaxNumber

\* An offer does not stay open for ever: the driver answers, the offer is
\* withdrawn, or the sweep marks it unanswered.
OfferEnds ==
    \A e \in Entries :
        (Live(tables, e) /\ tables.entry[e].status = Requested)
            ~> (tables.entry[e].status # Requested \/ tables.entry[e].deleted \/ ~NumbersLeft)

\* A waiting order and a driver free to take it do not stay apart for ever.
PendingMeetsDriver ==
    \A o \in Orders :
        (tables.order[o] = Waiting /\ Takers(tables, o, {}) # {})
            ~> (tables.order[o] # Waiting \/ Takers(tables, o, {}) = {} \/ ~NumbersLeft)

\* An order left with a driver that did not answer moves on to a driver that
\* can take it, also when the pass that marked it was cut short.
RetainedMovesOn ==
    \A e \in Entries, o \in Orders :
        LET stuck == /\ e \in HoldersIn(tables, o, {NoAnswer})
                     /\ tables.order[o] = Requested
                     /\ Takers(tables, o, {}) # {}
        IN  stuck ~> (~stuck \/ ~NumbersLeft)
=============================================================================
