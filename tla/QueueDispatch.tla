--------------------------- MODULE QueueDispatch ---------------------------
(***************************************************************************)
(* The driver queue implements OrderDispatch: an order is with the driver  *)
(* whose entry holds it, asked until that entry is on the job, and what a  *)
(* driver said no to is what its ended requests and decisions show.        *)
(***************************************************************************)
EXTENDS DriverQueue

StageOf(o) ==
    CASE tables.order[o] = NoStatus -> "unplaced"
      [] tables.order[o] \in ClosedOrderStatuses -> "closed"
      [] OTHER -> IF HoldersIn(tables, o, JobStatuses) # {} THEN "engaged"
                  ELSE IF Holders(tables, o) # {} THEN "asked" ELSE "open"

DriverOf(o) ==
    IF StageOf(o) \in {"asked", "engaged"}
    THEN tables.entry[CHOOSE e \in Holders(tables, o) : TRUE].driver
    ELSE None

Dispatch == INSTANCE OrderDispatch WITH
    stage <- [o \in Orders |-> StageOf(o)],
    driver <- [o \in Orders |-> DriverOf(o)],
    said <- tables.declined \cup tables.calledOff

\* The queue of the code keeps every promise of OrderDispatch, through
\* check-ins, refusals, offers that expire, acceptances, cancellations by the
\* driver and by the shipper, and the passes of the timer.
ImplementsDispatch == Dispatch!Spec
=============================================================================
