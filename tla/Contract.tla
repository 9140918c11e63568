------------------------------ MODULE Contract ------------------------------
(***************************************************************************)
(* A batch of orders carried by one company's fleet: companies bid on the  *)
(* batch, the shipper takes a bid, the dispatcher puts drivers on the      *)
(* orders, replaces and recalls them, drivers confirm, refuse and drive,   *)
(* and the shipper may call the batch off, or some of its orders.          *)
(*                                                                         *)
(* The same drivers look for work on the street, and a driver request with *)
(* its decision (a row) serves both: the dispatcher takes over the row the *)
(* driver happens to have, or retires it and opens another.                *)
(*                                                                         *)
(* Each call is a transaction and one step here, but for what a            *)
(* confirmation writes through the pool, which stays when it rolls back.   *)
(* A driver has one vehicle, of the company the driver works for.          *)
(***************************************************************************)
EXTENDS Naturals, FiniteSets, FiniteSetsExt, Functions, QueueStatus

CONSTANTS
    Companies, Drivers, None,
    Slots,          \* the orders of the batch
    Street,         \* orders of single shippers
    Modes,          \* how the batch was placed: "target" or "individual"
    EmployerOf,     \* the company of each driver
    MaxRows,        \* driver requests made
    MaxAssignments  \* assignments made

ASSUME ContractAssumption ==
    /\ EmployerOf \in [Drivers -> Companies]
    /\ None \notin Companies \cup Drivers \cup Slots \cup Street
    /\ Slots \cap Street = {} /\ Slots # {}
    /\ IsFiniteSet(Slots) /\ IsFiniteSet(Drivers)
    /\ Modes \subseteq {"target", "individual"}
    /\ MaxRows \in Nat /\ MaxAssignments \in Nat

VARIABLES
    mode,           \* requestMode of the batch
    batch,          \* status of the batch
    bid,            \* bidStatus of each company
    order,          \* status of each order
    row,            \* the driver requests with their decisions
    assignment,     \* the assignments
    fleet,          \* whether the vehicle of each driver is in the pool
    shared,         \* history: orders that had two assignments at a time
    late            \* history: drivers who answered an assignment that was over

vars == <<mode, batch, bid, order, row, assignment, fleet, shared, late>>

-----------------------------------------------------------------------------
Rows == 1..MaxRows
Assignments == 1..MaxAssignments
Orders == Slots \cup Street

Active == Waiting..JourneyStarted
Underway == GoToLoadingPlace..JourneyStarted
Engaged == Requested..JourneyStarted
Terminal == {CancelledByShipper, CancelledAfterAccept, CancelledByAdmin}
Locked == {JourneyStarted, JourneyCompleted} \cup Terminal
Individual == {Waiting, Requested, Agreed}

Statuses == {NoStatus, JourneyCompleted, CancelledBeforeAccept, ReplacedByCompany}
                \cup Active \cup Terminal

BidStatuses == {"none", "submitted", "accepted_by_shipper", "rejected_by_shipper",
                "cancelled_by_company", "expired", "completed"}

ByDriver == {"rejected_by_driver", "cancelled_by_driver"}
Freeing == ByDriver \cup {"cancelled_by_company", "cancelled_by_shipper"}
Ended == Freeing \cup {"completed"}
Pending == {"assigned", "reassigned"}
Progress == {"going_to_loading", "journey_started", "completed"}

RowType == [driver : Drivers \cup {None}, order : Orders \cup {None},
            status : Statuses, decision : Statuses, deleted : BOOLEAN]

AssignmentType == [company : Companies \cup {None}, order : Slots \cup {None},
                   driver : Drivers \cup {None}, row : Rows \cup {0},
                   status : {"none", "confirmed_by_driver"} \cup Pending \cup Progress \cup Ended,
                   deleted : BOOLEAN]

\* Every variable has its type.
TypeOK ==
    /\ mode \in Modes
    /\ batch \in {Waiting, AcceptedByShipper, CancelledByShipper, PartiallyCancelled}
    /\ bid \in [Companies -> BidStatuses]
    /\ order \in [Orders -> Statuses]
    /\ row \in [Rows -> RowType]
    /\ assignment \in [Assignments -> AssignmentType]
    /\ fleet \in [Drivers -> {"active", "inactive"}]
    /\ shared \in SUBSET Slots
    /\ late \in SUBSET Drivers

NoRow == [driver |-> None, order |-> None, status |-> NoStatus,
          decision |-> NoStatus, deleted |-> FALSE]

NoAssignment == [company |-> None, order |-> None, driver |-> None, row |-> 0,
                 status |-> "none", deleted |-> FALSE]

\* The orders of a targeted batch are made when a bid is accepted.
Init ==
    /\ mode \in Modes
    /\ batch = Waiting
    /\ bid = [c \in Companies |-> "none"]
    /\ order = [o \in Orders |->
                   IF o \in Slots /\ mode = "target" THEN NoStatus ELSE Waiting]
    /\ row = [r \in Rows |-> NoRow]
    /\ assignment = [a \in Assignments |-> NoAssignment]
    /\ fleet = [d \in Drivers |-> "active"]
    /\ shared = {}
    /\ late = {}

-----------------------------------------------------------------------------
(* The tables a call on an order writes.                                   *)

Tables == [order |-> order, row |-> row, assignment |-> assignment, fleet |-> fleet]

Made(t) == {a \in Assignments : t.assignment[a].status # "none"}

Live(t) == {a \in Made(t) : t.assignment[a].status \notin Ended /\ ~t.assignment[a].deleted}

SharedIn(t) == {s \in Slots : Cardinality({a \in Live(t) : t.assignment[a].order = s}) > 1}

\* uq_driver_active_request: a driver has one request at most from waiting to
\* the loading place.
GuardHolds(t) ==
    \A r, q \in Rows :
        /\ t.row[r].driver = t.row[q].driver
        /\ {t.row[r].status, t.row[q].status} \subseteq Waiting..GoToLoadingPlace
        => r = q

\* A transaction that breaks the index is rolled back.
Commit(t) ==
    IF GuardHolds(t)
    THEN /\ order' = t.order /\ row' = t.row
         /\ assignment' = t.assignment /\ fleet' = t.fleet
         /\ shared' = shared \cup SharedIn(t)
    ELSE UNCHANGED <<order, row, assignment, fleet, shared>>

Used(t, d) == {r \in Rows : t.row[r].driver = d /\ ~t.row[r].deleted}

Unused(t) == {r \in Rows : t.row[r].driver = None}

Room(n) == Cardinality(Unused(Tables)) >= n /\ Cardinality(Assignments \ Made(Tables)) >= n

Set(t, r, status) == [t EXCEPT !.row[r].status = status, !.row[r].decision = status]

EndAssignment(t, a, status) == [t EXCEPT !.assignment[a].status = status]

-----------------------------------------------------------------------------
(* Putting a driver on an order.                                           *)

\* findDriverBusyState: an offer or job the driver's requests still evidence,
\* or an assignment, other than on the order ignored.
Busy(d, ignored) ==
    \/ \E r \in Used(Tables, d) :
           /\ row[r].decision \in Engaged /\ row[r].order # ignored
           /\ \/ row[r].status \in Engaged
              \/ \E a \in Live(Tables) : assignment[a].row = r
    \/ \E a \in Live(Tables) : assignment[a].driver = d /\ assignment[a].order # ignored

\* Fault: the request of a driver who left the same order is taken up again.
MustStartFresh_DeadDecision(q, s) ==
    /\ q.order # None /\ q.status # CancelledBeforeAccept /\ q.order # s
    /\ ~{q.decision, q.status} \subseteq Individual

\* Fault: only a decision on the same order is looked at.
MustStartFresh_OtherOrder(q, s) ==
    /\ q.order = s /\ q.status # CancelledBeforeAccept
    /\ q.decision \in Terminal

\* driverRequestMustStartFresh: the request carries a decision on another order,
\* or one on this order that is over.
MustStartFresh(q, s) ==
    /\ q.order # None /\ q.status # CancelledBeforeAccept
    /\ IF q.order = s THEN q.decision \in Terminal
       ELSE ~{q.decision, q.status} \subseteq Individual

\* upsertDriverRequest: the request used for d on s, and the tables after it.
Upsert(t, d, s) ==
    LET r == Max(Used(t, d))
        q == t.row[r]
        fresh == Min(Unused(t))
        Retire(u) == [u EXCEPT !.row[r].status = ReplacedByCompany, !.row[r].deleted = TRUE]
        Insert(u) == [at |-> fresh, tables |->
                         [u EXCEPT !.row[fresh] = [NoRow EXCEPT !.driver = d, !.status = Requested]]]
    IN  IF Used(t, d) = {} THEN Insert(t)
        ELSE IF MustStartFresh(q, s) \/ q.status = CancelledBeforeAccept THEN Insert(Retire(t))
        ELSE IF q.order # None /\ {q.decision, q.status} \subseteq Individual
             THEN Insert(Retire([t EXCEPT !.row[r].decision = ReplacedByCompany,
                                          !.order[q.order] = Waiting]))
        ELSE [at |-> r, tables |-> [t EXCEPT !.row[r].status = Requested]]

\* createJourneyDecisionForAssignment: the decision the request already has on
\* the order is used as it is.
Decide(t, r, s) ==
    IF t.row[r].order = s THEN t ELSE [t EXCEPT !.row[r].order = s, !.row[r].decision = Requested]

\* The tables after d is put on s for company c.
Engage(t, c, s, d, status) ==
    LET used == Upsert(t, d, s)
        a == Min(Assignments \ Made(t))
    IN  [Decide(used.tables, used.at, s) EXCEPT
            !.assignment[a] = [company |-> c, order |-> s, driver |-> d, row |-> used.at,
                               status |-> status, deleted |-> FALSE]]

\* The tables after d[i] is put on s[i] for each i, in turn.
EngageAll(t, c, s, d, n) ==
    LET after[i \in 0..n] == IF i = 0 THEN t ELSE Engage(after[i - 1], c, s[i], d[i], "assigned")
    IN  after[n]

\* findActiveAssignmentForSlot.
Taken(c, s) ==
    \E a \in Made(Tables) : /\ assignment[a].company = c /\ assignment[a].order = s
                            /\ assignment[a].status \notin Freeing /\ ~assignment[a].deleted

Assignable(d) == fleet[d] = "active" /\ ~Busy(d, None)

CreateAssignment(s, d) ==
    LET c == EmployerOf[d]
    IN  /\ bid[c] = "accepted_by_shipper" /\ order[s] # NoStatus
        /\ Assignable(d) /\ ~Taken(c, s) /\ Room(1)
        /\ Commit(Engage(Tables, c, s, d, "assigned"))
        /\ UNCHANGED <<mode, batch, bid, late>>

\* As many free drivers as there are accepted orders without a driver; the
\* assignments are made one after the other.
AutoAssignBatch(c) ==
    LET slots == {s \in Slots : order[s] = AcceptedByShipper /\ ~Taken(c, s)}
        drivers == {d \in Drivers :
                       /\ EmployerOf[d] = c /\ fleet[d] = "active"
                       /\ \A a \in Live(Tables) : assignment[a].driver # d
                       /\ \A r \in Used(Tables, d) : row[r].decision \notin Engaged}
        n == Min({Cardinality(slots), Cardinality(drivers)})
    IN  /\ bid[c] = "accepted_by_shipper" /\ n > 0 /\ Room(n)
        /\ \E s \in Injection(1..n, slots), d \in Injection(1..n, drivers) :
               Commit(EngageAll(Tables, c, s, d, n))
        /\ UNCHANGED <<mode, batch, bid, late>>

-----------------------------------------------------------------------------
(* Recalling and replacing.                                                *)

\* Fault: the driver's request and decision stay as they were.
Recall_KeepsJob(t, a) ==
    LET it == t.assignment[a]
    IN  [EndAssignment(t, a, "cancelled_by_company") EXCEPT !.fleet[it.driver] = "inactive"]

\* recallAssignment: the driver is released and the vehicle leaves the pool.
Recall(t, a) ==
    LET it == t.assignment[a]
        reverted == IF mode = "target" THEN AcceptedByShipper ELSE Waiting
    IN  [Set(EndAssignment(t, a, "cancelled_by_company"), it.row, CancelledByAdmin) EXCEPT
            !.order[it.order] = IF @ \in Underway THEN reverted ELSE @,
            !.fleet[it.driver] = "inactive"]

DeleteAssignment(a) ==
    /\ a \in Made(Tables) /\ ~assignment[a].deleted
    /\ LET t == IF a \in Live(Tables) THEN Recall(Tables, a) ELSE Tables
       IN  Commit([t EXCEPT !.assignment[a].deleted = TRUE])
    /\ UNCHANGED <<mode, batch, bid, late>>

\* One the driver ended may be replaced too, and is left as it is.
ReplaceAssignment(a, d) ==
    LET it == assignment[a]
        recalled == IF a \in Live(Tables) THEN Recall(Tables, a) ELSE Tables
    IN  /\ a \in Made(Tables) /\ ~it.deleted /\ it.status \notin Ended \ ByDriver
        /\ bid[it.company] = "accepted_by_shipper" /\ EmployerOf[d] = it.company
        /\ fleet[d] = "active" /\ ~Busy(d, it.order) /\ Room(1)
        /\ Commit(Engage([recalled EXCEPT !.fleet[d] = "active"],
                         it.company, it.order, d, "reassigned"))
        /\ UNCHANGED <<mode, batch, bid, late>>

\* The dispatcher puts a vehicle back in the pool, or takes it out.
UpdateCompanyVehicle(d) ==
    /\ fleet' = [fleet EXCEPT ![d] = IF @ = "active" THEN "inactive" ELSE "active"]
    /\ UNCHANGED <<mode, batch, bid, order, row, assignment, shared, late>>

-----------------------------------------------------------------------------
(* The driver's answers, updateAssignmentStatus.                           *)

Answerable(a) == a \in Made(Tables) /\ ~assignment[a].deleted

Noted(a) == late' = IF assignment[a].status \in Ended THEN late \cup {assignment[a].driver} ELSE late

\* releaseConflictingOffers, "company": what else the driver was offered.
ReleaseOffers(t, d, kept) ==
    LET offers == {r \in Rows \ {kept} : t.row[r].driver = d
                                         /\ t.row[r].decision \in {Waiting, Requested}}
        ended == [r \in Rows |->
                    IF r \in offers THEN [t.row[r] EXCEPT !.status = CancelledAfterAccept,
                                                          !.decision = CancelledAfterAccept]
                    ELSE t.row[r]]
        Orphan(o) == /\ \E r \in offers : t.row[r].order = o
                     /\ \A r \in Rows : ended[r].order = o =>
                            ended[r].decision \notin {Requested, Agreed, AcceptedByShipper}
    IN  [t EXCEPT !.row = ended,
                  !.order = [o \in Orders |-> IF Orphan(o) THEN Waiting ELSE @[o]]]

ConfirmAssignment(a) ==
    LET it == assignment[a]
        t == Set([Tables EXCEPT !.order[it.order] = AcceptedByShipper], it.row, AcceptedByShipper)
    IN  /\ Answerable(a) /\ it.status \notin {"completed", "confirmed_by_driver"}
        /\ Commit(EndAssignment(ReleaseOffers(t, it.driver, it.row), a, "confirmed_by_driver"))
        /\ Noted(a)
        /\ UNCHANGED <<mode, batch, bid>>

\* The release is written through the pool and stays when a later write of the
\* confirmation fails.
ConfirmFails(a) ==
    LET it == assignment[a]
    IN  /\ Answerable(a) /\ it.status \notin {"completed", "confirmed_by_driver"}
        /\ Commit(ReleaseOffers(Tables, it.driver, it.row))
        /\ Noted(a)
        /\ UNCHANGED <<mode, batch, bid>>

\* maybeInactivateVehicleOnRepeatedPreconfirmRejection.
RestVehicle(t, a) ==
    LET it == t.assignment[a]
    IN  IF \E b \in Made(t) \ {a} : /\ t.assignment[b].driver = it.driver
                                    /\ t.assignment[b].status = "rejected_by_driver"
                                    /\ ~t.assignment[b].deleted
        THEN [t EXCEPT !.fleet[it.driver] = "inactive"] ELSE t

RejectAssignment(a) ==
    /\ Answerable(a)
    /\ Commit(RestVehicle(Set(EndAssignment(Tables, a, "rejected_by_driver"),
                              assignment[a].row, CancelledBeforeAccept), a))
    /\ Noted(a)
    /\ UNCHANGED <<mode, batch, bid>>

CancelAssignment(a) ==
    /\ Answerable(a)
    /\ Commit(Set(EndAssignment(Tables, a, "cancelled_by_driver"),
                  assignment[a].row, CancelledAfterAccept))
    /\ Noted(a)
    /\ UNCHANGED <<mode, batch, bid>>

\* handleBatchCompletionCheck: the bid is completed with as many assignments
\* completed as the batch has orders.
AdvanceAssignment(a, status) ==
    LET c == assignment[a].company
        t == [EndAssignment(Tables, a, status) EXCEPT
                 !.row[assignment[a].row].status =
                     IF status = "completed" THEN JourneyCompleted ELSE JourneyStarted]
        done == {b \in Made(t) : /\ t.assignment[b].company = c /\ ~t.assignment[b].deleted
                                 /\ t.assignment[b].status = "completed"}
    IN  /\ Answerable(a)
        /\ Commit(t)
        /\ bid' = IF status = "completed" /\ Cardinality(done) >= Cardinality(Slots)
                  THEN [bid EXCEPT ![c] = "completed"] ELSE bid
        /\ Noted(a)
    /\ UNCHANGED <<mode, batch>>

-----------------------------------------------------------------------------
(* Bids.                                                                   *)

SubmitBid(c) ==
    /\ bid[c] = "none" /\ \A b \in Companies : bid[b] # "accepted_by_shipper"
    /\ mode # "target" => \E s \in Slots : order[s] # NoStatus
    /\ \E d \in Drivers : EmployerOf[d] = c /\ fleet[d] = "active"
    /\ bid' = [bid EXCEPT ![c] = "submitted"]
    /\ UNCHANGED <<mode, batch, order, row, assignment, fleet, shared, late>>

\* The status the bid has is not looked at.  With no order left to claim the
\* bid is accepted and nothing else happens; with some left and not all, it is
\* refused.
AcceptBid(c) ==
    LET open == {s \in Slots : order[s] \in {NoStatus} \cup Individual}
        lost == {b \in Companies \ {c} : bid[b] = "submitted"}
    IN  /\ bid[c] # "none"
        /\ \/ /\ open = Slots
              /\ bid' = [b \in Companies |-> IF b = c THEN "accepted_by_shipper"
                                             ELSE IF b \in lost THEN "rejected_by_shipper"
                                             ELSE bid[b]]
              /\ order' = [o \in Orders |-> IF o \in Slots THEN AcceptedByShipper ELSE order[o]]
              /\ batch' = AcceptedByShipper
           \/ /\ open = {}
              /\ bid' = [bid EXCEPT ![c] = "accepted_by_shipper"]
              /\ UNCHANGED <<order, batch>>
        /\ UNCHANGED <<mode, row, assignment, fleet, shared, late>>

\* Whatever the bid was, every order of the batch is open again.
DismissBid(c, status) ==
    /\ bid[c] # "none"
    /\ bid' = [bid EXCEPT ![c] = status]
    /\ order' = [o \in Orders |-> IF o \in Slots /\ order[o] # NoStatus THEN Waiting ELSE order[o]]
    /\ batch' = IF batch = AcceptedByShipper THEN Waiting ELSE batch
    /\ UNCHANGED <<mode, row, assignment, fleet, shared, late>>

-----------------------------------------------------------------------------
(* The shipper calls orders off.                                           *)

\* The statements run one after the other on the connection of the transaction:
\* those on decisions, requests and assignments select by the status of the
\* order, which the statement before them has just ended.
CancelBatch ==
    LET there == {s \in Slots : order[s] # NoStatus}
        gone == {s \in there : order[s] \notin Locked}
        ended == [o \in Orders |-> IF o \in gone THEN CancelledByShipper ELSE order[o]]
        left == {s \in there : ended[s] \notin Locked}
    IN  /\ batch # CancelledByShipper
        /\ there = {} \/ gone # {}
        /\ batch' = IF gone # there THEN PartiallyCancelled ELSE CancelledByShipper
        /\ bid' = [c \in Companies |->
                      IF bid[c] = "none" THEN "none"
                      ELSE IF there # {} THEN "cancelled_by_company"
                      ELSE IF bid[c] \in {"expired", "rejected_by_shipper", "cancelled_by_company"}
                           THEN bid[c]
                      ELSE "expired"]
        /\ order' = ended
        /\ row' = [r \in Rows |->
                      IF row[r].order \notin left THEN row[r]
                      ELSE [row[r] EXCEPT
                               !.decision = IF @ \in Locked THEN @ ELSE CancelledByShipper,
                               !.status = IF @ \in Waiting..AcceptedByShipper
                                          THEN CancelledByShipper ELSE @]]
        /\ assignment' = [a \in Assignments |->
                      IF assignment[a].order \in left /\ assignment[a].status \in Pending
                      THEN [assignment[a] EXCEPT !.status = "cancelled_by_shipper"]
                      ELSE assignment[a]]
        /\ UNCHANGED <<mode, fleet, shared, late>>

PartialCancelBatch(gone) ==
    LET ended == [o \in Orders |-> IF o \in gone THEN CancelledByShipper ELSE order[o]]
        rest == {s \in Slots : ended[s] \notin {NoStatus} \cup Terminal}
    IN  /\ batch # CancelledByShipper
        /\ gone # {} /\ \A s \in gone : order[s] \in Waiting..AcceptedByShipper
        /\ batch' = IF rest = {} THEN CancelledByShipper ELSE PartiallyCancelled
        /\ Commit([order |-> ended, fleet |-> fleet,
                   row |-> [r \in Rows |->
                      IF row[r].order \notin gone THEN row[r]
                      ELSE [row[r] EXCEPT
                               !.decision = IF @ \in Terminal THEN @ ELSE CancelledByShipper,
                               !.status = IF @ \in Waiting..AcceptedByShipper
                                          THEN CancelledByShipper ELSE @]],
                   assignment |-> [a \in Assignments |->
                      IF assignment[a].order \in gone /\ assignment[a].status \in Pending
                      THEN [assignment[a] EXCEPT !.status = "cancelled_by_shipper"]
                      ELSE assignment[a]]])
        /\ UNCHANGED <<mode, bid, late>>

-----------------------------------------------------------------------------
(* The driver on the street and on the road.                               *)

Idle(d) == {r \in Used(Tables, d) : row[r].status \in Active} = {}

GoOnline(d) ==
    /\ Idle(d) /\ Unused(Tables) # {}
    /\ Commit([Tables EXCEPT !.row[Min(Unused(Tables))] =
                  [NoRow EXCEPT !.driver = d, !.status = Waiting]])
    /\ UNCHANGED <<mode, batch, bid, late>>

\* A waiting driver is asked for an order of the street.
AskDriver(r, o) ==
    /\ row[r].status = Waiting /\ row[r].order = None
    /\ order[o] \in {Waiting, Requested}
    /\ Commit([Tables EXCEPT !.order[o] = Requested,
                  !.row[r].status = Requested, !.row[r].decision = Requested, !.row[r].order = o])
    /\ UNCHANGED <<mode, batch, bid, late>>

\* releaseConflictingOffers, "individual": the assignments the driver has not
\* answered are given back.
AcceptShipperRequest(r) ==
    LET d == row[r].driver
        given == {a \in Live(Tables) : assignment[a].driver = d /\ assignment[a].status \in Pending}
        rows == {assignment[a].row : a \in given}
        t == Set([Tables EXCEPT !.order[row[r].order] = Agreed], r, Agreed)
    IN  /\ row[r].order \in Street /\ row[r].decision = Requested /\ ~row[r].deleted
        /\ Commit([t EXCEPT
               !.assignment = [a \in Assignments |->
                   IF a \in given THEN [@[a] EXCEPT !.status = "cancelled_by_driver"] ELSE @[a]],
               !.row = [q \in Rows |->
                   IF q \notin rows THEN t.row[q]
                   ELSE [t.row[q] EXCEPT !.status = CancelledAfterAccept,
                                         !.decision = IF @ \in {Waiting, Requested}
                                                      THEN CancelledAfterAccept ELSE @]]])
        /\ UNCHANGED <<mode, batch, bid, late>>

\* The driver gives up the request, and with it the assignment it serves: a
\* refusal before the driver agreed, a cancellation after.
CancelDriverRequest(r) ==
    LET refused == row[r].status < Agreed
        status == IF refused THEN CancelledBeforeAccept ELSE CancelledAfterAccept
        word == IF refused THEN "rejected_by_driver" ELSE "cancelled_by_driver"
        mine == {a \in Made(Tables) : assignment[a].row = r}
        over == {a \in mine : assignment[a].status \notin Ended}
        t == [Tables EXCEPT !.row[r].status = status,
                  !.row[r].decision = IF row[r].order = None THEN @ ELSE status,
                  !.assignment = [a \in Assignments |->
                      IF a \in over THEN [@[a] EXCEPT !.status = word] ELSE @[a]]]
        rejected == {a \in Made(t) : /\ t.assignment[a].driver = row[r].driver
                                     /\ t.assignment[a].status = "rejected_by_driver"
                                     /\ ~t.assignment[a].deleted}
        rests == IF refused THEN mine # {} /\ Cardinality(rejected) > 1
                 ELSE \E a \in mine : /\ t.assignment[a].status = "cancelled_by_driver"
                                      /\ ~assignment[a].deleted
    IN  /\ row[r].status \in Active /\ ~row[r].deleted
        /\ Commit(IF rests THEN [t EXCEPT !.fleet[row[r].driver] = "inactive"] ELSE t)
        /\ UNCHANGED <<mode, batch, bid, late>>

StartJourney(r) ==
    /\ row[r].decision = AcceptedByShipper /\ ~row[r].deleted
    /\ Commit(Set([Tables EXCEPT !.order[row[r].order] = JourneyStarted], r, JourneyStarted))
    /\ UNCHANGED <<mode, batch, bid, late>>

\* Every assignment of the order or of the request is completed with it,
\* whatever became of it before.
CompleteJourney(r) ==
    LET t == Set([Tables EXCEPT !.order[row[r].order] = JourneyCompleted], r, JourneyCompleted)
    IN  /\ row[r].decision = JourneyStarted /\ ~row[r].deleted
        /\ Commit([t EXCEPT !.assignment = [a \in Assignments |->
               IF a \in Made(t) /\ (@[a].order = row[r].order \/ @[a].row = r)
               THEN [@[a] EXCEPT !.status = "completed"] ELSE @[a]]])
        /\ UNCHANGED <<mode, batch, bid, late>>

-----------------------------------------------------------------------------
CompanyAction(c) ==
    \/ SubmitBid(c) \/ AcceptBid(c) \/ AutoAssignBatch(c)
    \/ \E status \in {"rejected_by_shipper", "cancelled_by_company", "expired"} :
           DismissBid(c, status)

AssignmentAction(a) ==
    \/ DeleteAssignment(a) \/ ConfirmAssignment(a) \/ ConfirmFails(a)
    \/ RejectAssignment(a) \/ CancelAssignment(a)
    \/ \E status \in Progress : AdvanceAssignment(a, status)
    \/ \E d \in Drivers : ReplaceAssignment(a, d)

DriverAction(d) ==
    \/ GoOnline(d) \/ UpdateCompanyVehicle(d)
    \/ \E s \in Slots : CreateAssignment(s, d)

RowAction(r) ==
    \/ AcceptShipperRequest(r) \/ CancelDriverRequest(r)
    \/ StartJourney(r) \/ CompleteJourney(r)
    \/ \E o \in Street : AskDriver(r, o)

Next ==
    \/ \E c \in Companies : CompanyAction(c)
    \/ \E a \in Assignments : AssignmentAction(a)
    \/ \E d \in Drivers : DriverAction(d)
    \/ \E r \in Rows : RowAction(r)
    \/ CancelBatch
    \/ \E gone \in SUBSET Slots : PartialCancelBatch(gone)

Spec == Init /\ [][Next]_vars

-----------------------------------------------------------------------------
\* The request picked for a new assignment has no decision on another order, so
\* the decision can be inserted: driverRequestId is unique in JourneyDecisions
\* (driver-request.service.js, "blows up with ER_DUP_ENTRY").
AssignmentNeverCollides ==
    \A d \in Drivers, s \in Slots :
        /\ order[s] # NoStatus /\ Unused(Tables) # {} /\ Assignable(d)
        => LET used == Upsert(Tables, d, s)
           IN  used.tables.row[used.at].order \in {None, s}

\* A driver who has not answered an assignment has a decision to answer: the
\* dispatcher's call never hands out one that was refused or called off, and
\* whoever ends the decision ends the assignment (recall, cancel, partial
\* cancel, release).
AssignedIsLive ==
    \A a \in Live(Tables) :
        /\ assignment[a].status \in Pending
        /\ assignment[a].order \notin shared /\ assignment[a].driver \notin late
        => row[assignment[a].row].decision \in Engaged \cup {JourneyCompleted}

\* A driver is not held on an order of the batch by an assignment that ended:
\* while request and decision still show the job, so does an assignment.
NoPhantomJob ==
    \A r \in Rows :
        /\ row[r].order \in Slots \ shared /\ row[r].driver \notin late /\ ~row[r].deleted
        /\ row[r].decision \in Engaged /\ row[r].status \in Engaged
        => \E a \in Made(Tables) : assignment[a].row = r /\ assignment[a].status \notin Freeing

\* cancelBatch.service.js:17 - all open decisions for those requests take the
\* cancelled status.
CancelledBatchIsClosed ==
    batch = CancelledByShipper =>
        \A r \in Rows : row[r].order \in Slots => row[r].decision \notin Engaged
=============================================================================
