---------------------------- MODULE QueueStatus ----------------------------
(***************************************************************************)
(* The journey-status ids one vocabulary of which is shared by the queue   *)
(* entries, the orders (ShipperRequest), the driver requests and the       *)
(* journey decisions of the platform, and the groups of ids the queue      *)
(* services test them against.                                             *)
(***************************************************************************)

NoStatus == 0                   \* a row that does not exist yet
Waiting == 1
Requested == 2
Agreed == 3                     \* acceptedByDriver
AcceptedByShipper == 4
GoToLoadingPlace == 5
Loading == 6
Loaded == 7
JourneyStarted == 8
JourneyCompleted == 9
CancelledByShipper == 10
CancelledAfterAccept == 12      \* cancelledByDriver
CancelledByAdmin == 13
RejectedByShipper == 11
NoAnswer == 16                  \* noAnswerFromDriver
NotSelectedInBid == 17
CancelledBeforeAccept == 18     \* rejectedByDriver
ReplacedByCompany == 19         \* replacedByCompanyAssignment
PartiallyCancelled == 20

\* Statuses an entry of the line may show: in the line, then on a job.
InQueueStatuses == {Waiting, Requested, NoAnswer, CancelledBeforeAccept}
JobStatuses == {Agreed, GoToLoadingPlace, Loading, Loaded, JourneyStarted}
LiveEntryStatuses == InQueueStatuses \cup JobStatuses

\* Entries in these statuses can be offered an order.
OfferableStatuses == {Waiting, CancelledBeforeAccept}

\* Entries in these statuses bind the order they carry.
HoldingStatuses == {Requested, NoAnswer} \cup JobStatuses

EntryStatuses == {NoStatus, JourneyCompleted, CancelledAfterAccept,
                  CancelledByAdmin} \cup LiveEntryStatuses

\* Status of an order, from creation to one of its deliberate end states.
ActiveOrderStatuses == {Waiting, Requested, AcceptedByShipper,
                        GoToLoadingPlace, Loading, Loaded, JourneyStarted}
ClosedOrderStatuses == {JourneyCompleted, CancelledByShipper, CancelledByAdmin}
OrderStatuses == {NoStatus} \cup ActiveOrderStatuses \cup ClosedOrderStatuses

\* Status of a live driver request together with its decision.
RequestStatuses == ActiveOrderStatuses \ {Waiting}

\* The generated column activeRequestGuard is set in these statuses, and a
\* driver has one such request at most (unique index uq_driver_active_request).
GuardedStatuses == {Requested, AcceptedByShipper, GoToLoadingPlace}
=============================================================================
