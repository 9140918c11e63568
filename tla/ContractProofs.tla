---------------------------- MODULE ContractProofs ----------------------------
(***************************************************************************)
(* What the contract keeps in every instance: for every number of          *)
(* companies, drivers, orders, requests and assignments.                   *)
(*                                                                         *)
(* The inductive invariant relates the two tables the calls write apart:   *)
(* the driver requests with their decisions, and the assignments.  It is   *)
(* stated of tables, not of the state, since the calls are functions from  *)
(* tables to tables, composed: recall, then upsert, then decide.  Each     *)
(* function is shown to keep it, and then each call by the functions it    *)
(* applies.                                                                *)
(***************************************************************************)
EXTENDS Contract, FiniteSetTheorems, WellFoundedInduction, TLAPS

-----------------------------------------------------------------------------
(***************************************************************************)
(* The invariant.  S are the orders that had two assignments at a time, L  *)
(* the drivers who answered one that was over: of these nothing is said.   *)
(***************************************************************************)
TablesType == [order : [Orders -> Statuses], row : [Rows -> RowType],
               assignment : [Assignments -> AssignmentType],
               fleet : [Drivers -> {"active", "inactive"}]]

\* An assignment and its request are of one driver and one order.
Linked(t) ==
    \A a \in Made(t) :
        LET it == t.assignment[a]
        IN  /\ it.row \in Rows /\ it.driver \in Drivers /\ it.order \in Slots
            /\ t.row[it.row].driver = it.driver /\ t.row[it.row].order = it.order

\* A request that was not made shows nothing, and one has a decision when it
\* has an order.
Plain(t) ==
    \A r \in Rows :
        /\ t.row[r].driver = None => t.row[r] = NoRow
        /\ t.row[r].order = None <=> t.row[r].decision = NoStatus

DeletedIsEnded(t) == \A a \in Made(t) : t.assignment[a].deleted => t.assignment[a].status \in Ended

Spoken == Engaged \cup {JourneyCompleted} \cup Terminal

RowCounts(t, S, L, r) == t.row[r].driver \notin L /\ t.row[r].order \notin S
Counts(t, S, L, a) == t.assignment[a].driver \notin L /\ t.assignment[a].order \notin S

\* A driver has one live assignment.
OneLive(t, S, L) ==
    \A a, b \in Live(t) :
        /\ Counts(t, S, L, a) /\ t.assignment[a].driver = t.assignment[b].driver
        => a = b

\* A decision that was refused is on a request that was refused.
Decided(t, S, L) ==
    \A r \in Rows :
        /\ RowCounts(t, S, L, r) /\ t.row[r].order # None /\ ~t.row[r].deleted
        => \/ t.row[r].decision \in Spoken
           \/ t.row[r].decision = CancelledBeforeAccept /\ t.row[r].status = CancelledBeforeAccept

\* The decision of a live assignment was not refused, nor, before the driver
\* answered, called off.
LiveDecided(t, S, L) ==
    \A a \in Live(t) :
        Counts(t, S, L, a) =>
            LET decision == t.row[t.assignment[a].row].decision
            IN  /\ decision \in Spoken
                /\ t.assignment[a].status \in Pending => decision \notin Terminal

Serves(t, a, r) == a \in Made(t) /\ t.assignment[a].row = r /\ t.assignment[a].status \notin Freeing
Done(t, a, r) == a \in Made(t) /\ t.assignment[a].row = r /\ t.assignment[a].status = "completed"

\* A decision that holds its driver is served by an assignment.
Held(t, S, L) ==
    \A r \in Rows :
        /\ RowCounts(t, S, L, r) /\ t.row[r].order \in Slots /\ ~t.row[r].deleted
        /\ t.row[r].decision \in Engaged
        => \E a \in Assignments : Serves(t, a, r)

\* One that was taken up again as it was is that of an assignment completed before.
TakenUp(t, S, L) ==
    \A b \in Live(t) :
        /\ Counts(t, S, L, b) /\ t.assignment[b].status \in Pending
        /\ t.row[t.assignment[b].row].decision \in Engaged \ {Requested}
        => \E a \in Assignments : Done(t, a, t.assignment[b].row)

Facts(t) == t \in TablesType /\ Linked(t) /\ Plain(t) /\ DeletedIsEnded(t)

Good(t, S, L) ==
    /\ Facts(t) /\ OneLive(t, S, L) /\ Decided(t, S, L) /\ LiveDecided(t, S, L)
    /\ Held(t, S, L) /\ TakenUp(t, S, L)

IInv == TypeOK /\ Good(Tables, shared, late)

-----------------------------------------------------------------------------
(***************************************************************************)
(* Least and greatest elements, and the words of the statuses.             *)
(***************************************************************************)
\* A non-empty set of naturals has a least element.
LEMMA MinIn ==
    ASSUME NEW S, S \subseteq Nat, S # {}
    PROVE  Min(S) \in S
<1>1. PICK m \in S : \A x \in S : ~(<<x, m>> \in OpToRel(<, Nat))
  BY NatLessThanWellFounded, WFMin
<1>2. ASSUME NEW x \in S PROVE m <= x
  <2>1. x \in Nat /\ m \in Nat
    OBVIOUS
  <2>2. ~(x < m)
    BY <1>1, <2>1 DEF OpToRel
  <2> QED BY <2>1, <2>2
<1> QED BY <1>2 DEF Min

\* The greatest element of a bounded set belongs to it and bounds it.
LEMMA MaxIn ==
    ASSUME NEW n \in Nat, NEW S, S \subseteq 0..n, S # {}
    PROVE  Max(S) \in S /\ \A x \in S : Max(S) >= x
<1> DEFINE below == {n - x : x \in S}
<1>1. below \subseteq Nat /\ below # {}
  <2>1. \A x \in S : x \in 0..n /\ n - x \in Nat
    OBVIOUS
  <2> QED BY <2>1
<1>2. PICK m \in below : \A x \in below : ~(<<x, m>> \in OpToRel(<, Nat))
  BY <1>1, NatLessThanWellFounded, WFMin
<1>3. PICK s \in S : m = n - s
  OBVIOUS
<1>4. ASSUME NEW x \in S PROVE s >= x
  <2>1. n - x \in below /\ n - x \in Nat /\ m \in Nat
    BY <1>1
  <2>2. ~(n - x < m)
    BY <1>2, <2>1 DEF OpToRel
  <2> QED BY <2>1, <2>2, <1>3
<1> QED BY <1>4 DEF Max

\* The statuses and the sets of them, as numbers.
LEMMA Words ==
    /\ Active = 1..8 /\ Engaged = 2..8 /\ Underway = 5..8
    /\ Terminal = {10, 12, 13} /\ Individual = {1, 2, 3}
    /\ NoStatus = 0 /\ Waiting = 1 /\ Requested = 2 /\ Agreed = 3 /\ AcceptedByShipper = 4
    /\ JourneyStarted = 8 /\ JourneyCompleted = 9 /\ CancelledByShipper = 10
    /\ CancelledAfterAccept = 12 /\ CancelledByAdmin = 13 /\ CancelledBeforeAccept = 18
    /\ ReplacedByCompany = 19
    /\ Statuses = (0..10) \cup {12, 13, 18, 19}
    /\ Spoken = (2..10) \cup {12, 13}
BY DEF Active, Engaged, Underway, Terminal, Individual, NoStatus, Waiting, Requested, Agreed,
       AcceptedByShipper, GoToLoadingPlace, JourneyStarted, JourneyCompleted, CancelledByShipper,
       CancelledAfterAccept, CancelledByAdmin, CancelledBeforeAccept, ReplacedByCompany,
       Statuses, Spoken

\* What the proofs need of the statuses of decisions.
LEMMA EngagedWords ==
    /\ {Requested, Agreed, AcceptedByShipper, JourneyStarted} \subseteq Engaged
    /\ JourneyCompleted \notin Engaged \cup Terminal /\ Engaged \cap Terminal = {}
    /\ Engaged \cup {JourneyCompleted} \subseteq Spoken /\ Terminal \subseteq Spoken
    /\ {CancelledByShipper, CancelledAfterAccept, CancelledByAdmin} = Terminal
    /\ CancelledBeforeAccept \notin Spoken /\ CancelledBeforeAccept \notin Engaged
    /\ NoStatus \notin Spoken /\ NoStatus # CancelledBeforeAccept
    /\ Waiting \notin Spoken /\ ReplacedByCompany \notin Spoken
BY Words

\* What the proofs need of the statuses of assignments.
LEMMA EndedWords ==
    /\ Freeing \subseteq Ended /\ Pending \cap Ended = {} /\ "none" \notin Ended \cup Pending
    /\ "confirmed_by_driver" \notin Ended \cup Pending /\ Ended \ Freeing = {"completed"}
    /\ "completed" \notin Freeing
    /\ "going_to_loading" \notin Ended \cup Pending /\ "journey_started" \notin Ended \cup Pending
BY DEF Freeing, Ended, ByDriver, Pending

\* TypeOK, with the four tables taken together.
LEMMA Typed == TypeOK <=> /\ mode \in Modes
                          /\ batch \in {Waiting, AcceptedByShipper, CancelledByShipper, PartiallyCancelled}
                          /\ bid \in [Companies -> BidStatuses]
                          /\ Tables \in TablesType
                          /\ shared \in SUBSET Slots /\ late \in SUBSET Drivers
BY DEF TypeOK, Tables, TablesType

\* The rows and assignments of typed tables.
LEMMA Shape ==
    ASSUME NEW t \in TablesType
    PROVE  /\ \A r \in Rows : t.row[r] \in RowType
           /\ \A a \in Assignments : t.assignment[a] \in AssignmentType
           /\ t.row \in [Rows -> RowType] /\ t.assignment \in [Assignments -> AssignmentType]
           /\ Made(t) \subseteq Assignments /\ Live(t) \subseteq Made(t)
BY DEF TablesType, Made, Live

\* Whatever holds with some drivers and orders left out holds with more.
LEMMA Monotone ==
    ASSUME NEW t, NEW S, NEW L, NEW S2, NEW L2, S \subseteq S2, L \subseteq L2, Good(t, S, L)
    PROVE  Good(t, S2, L2)
<1>1. \A r : RowCounts(t, S2, L2, r) => RowCounts(t, S, L, r)
  BY DEF RowCounts
<1>2. \A a : Counts(t, S2, L2, a) => Counts(t, S, L, a)
  BY DEF Counts
<1>3. OneLive(t, S2, L2) /\ LiveDecided(t, S2, L2) /\ TakenUp(t, S2, L2)
  BY <1>2 DEF Good, OneLive, LiveDecided, TakenUp
<1>4. Decided(t, S2, L2) /\ Held(t, S2, L2)
  BY <1>1 DEF Good, Decided, Held
<1> QED BY <1>3, <1>4 DEF Good

\* Two live assignments share their order.
LEMMA SharedHas ==
    ASSUME NEW t \in TablesType, NEW a \in Live(t), NEW b \in Live(t), a # b,
           t.assignment[a].order = t.assignment[b].order, t.assignment[a].order \in Slots
    PROVE  t.assignment[a].order \in SharedIn(t)
<1> DEFINE s == t.assignment[a].order
           both == {x \in Live(t) : t.assignment[x].order = s}
<1>1. both \subseteq 1..MaxAssignments
  BY Shape DEF Assignments
<1>2. IsFiniteSet(both)
  BY <1>1, FS_Interval, FS_Subset, ContractAssumption
<1>3. {a, b} \subseteq both
  OBVIOUS
<1>4. Cardinality({a, b}) = 2 /\ IsFiniteSet({a, b})
  <2>1. {a, b} = {a} \cup {b} /\ b \notin {a}
    OBVIOUS
  <2>2. IsFiniteSet({a}) /\ Cardinality({a}) = 1
    BY FS_Singleton
  <2>3. /\ IsFiniteSet({a} \cup {b})
        /\ Cardinality({a} \cup {b}) = IF b \in {a} THEN Cardinality({a}) ELSE Cardinality({a}) + 1
    BY <2>2, FS_AddElement
  <2> QED BY <2>1, <2>2, <2>3
<1>5. Cardinality({a, b}) <= Cardinality(both) /\ Cardinality(both) \in Nat
  BY <1>2, <1>3, FS_Subset, FS_CardinalityType
<1>6. Cardinality(both) > 1
  BY <1>4, <1>5
<1>7. s \in {x \in Slots : Cardinality({y \in Live(t) : t.assignment[y].order = x}) > 1}
  BY <1>6
<1> QED BY <1>7 DEF SharedIn

\* The request a new assignment may use.
LEMMA FreshRow ==
    ASSUME NEW t, Unused(t) # {}
    PROVE  Min(Unused(t)) \in Rows /\ t.row[Min(Unused(t))].driver = None
<1>1. Unused(t) \subseteq Nat
  BY DEF Unused, Rows
<1>2. Min(Unused(t)) \in Unused(t)
  BY <1>1, MinIn
<1> QED BY <1>2 DEF Unused

\* The last request of a driver who has one.
LEMMA LastRow ==
    ASSUME NEW t, NEW d, Used(t, d) # {}
    PROVE  /\ Max(Used(t, d)) \in Rows /\ t.row[Max(Used(t, d))].driver = d
           /\ ~t.row[Max(Used(t, d))].deleted
<1>1. Used(t, d) \subseteq 0..MaxRows /\ MaxRows \in Nat
  BY ContractAssumption DEF Used, Rows
<1>2. Max(Used(t, d)) \in Used(t, d)
  BY <1>1, MaxIn
<1> QED BY <1>2 DEF Used

\* An assignment that can still be made.
LEMMA FreshAssignment ==
    ASSUME NEW t, Assignments \ Made(t) # {}
    PROVE  Min(Assignments \ Made(t)) \in Assignments /\ Min(Assignments \ Made(t)) \notin Made(t)
<1>1. Assignments \ Made(t) \subseteq Nat
  BY DEF Assignments
<1>2. Min(Assignments \ Made(t)) \in Assignments \ Made(t)
  BY <1>1, MinIn
<1> QED BY <1>2

-----------------------------------------------------------------------------
(***************************************************************************)
(* Updates that make nothing new: requests and assignments keep what they  *)
(* are about, none comes back, and a decision that changes takes what was  *)
(* to be answered with it.                                                 *)
(***************************************************************************)
\* The requests and assignments are there and about the same.
Akin(t, u) ==
    /\ \A r \in Rows : /\ u.row[r].driver = t.row[r].driver /\ u.row[r].order = t.row[r].order
                       /\ t.row[r].deleted => u.row[r].deleted
    /\ Made(u) = Made(t)
    /\ \A a \in Made(t) : /\ u.assignment[a].driver = t.assignment[a].driver
                          /\ u.assignment[a].order = t.assignment[a].order
                          /\ u.assignment[a].row = t.assignment[a].row

\* No assignment of a driver that counts is brought back.
NoneBack(t, u, L) ==
    \A a \in Made(t) :
        t.assignment[a].driver \notin L =>
            /\ a \in Live(u) => a \in Live(t)
            /\ u.assignment[a].status \in Pending => t.assignment[a].status \in Pending
            /\ t.assignment[a].status = "completed" => u.assignment[a].status = "completed"

LiveOn(u, r) == {a \in Live(u) : u.assignment[a].row = r}
PendingOn(u, r) == {a \in LiveOn(u, r) : u.assignment[a].status \in Pending}

\* The decision stays, and with it who serves it.
Stays(t, u, r) ==
    /\ u.row[r].decision = t.row[r].decision
    /\ u.row[r].decision = CancelledBeforeAccept => u.row[r].status = t.row[r].status
    /\ u.row[r].decision \in Engaged =>
          \A a \in Assignments : Serves(t, a, r) => \E b \in Assignments : Serves(u, b, r)

\* It is over, by a refusal or otherwise.
IsOver(u, r) ==
    /\ PendingOn(u, r) = {}
    /\ \/ u.row[r].decision \in Terminal
       \/ /\ u.row[r].decision = CancelledBeforeAccept /\ u.row[r].status = CancelledBeforeAccept
          /\ LiveOn(u, r) = {}

\* It was retired.
IsRetired(u, r) == u.row[r].deleted /\ LiveOn(u, r) = {}

\* It goes on, served.
GoesOn(t, u, r) ==
    /\ u.row[r].decision \in Engaged \cup {JourneyCompleted}
    /\ u.row[r].decision \in Engaged /\ u.row[r].order \in Slots =>
          \E a \in Assignments : Serves(u, a, r)
    /\ PendingOn(u, r) = {} \/ t.row[r].decision \in Engaged \ {Requested}

Moves(t, u, S, L) ==
    \A r \in Rows : RowCounts(t, S, L, r) /\ t.row[r].order # None =>
        Stays(t, u, r) \/ IsOver(u, r) \/ IsRetired(u, r) \/ GoesOn(t, u, r)

\* A step whose rows and assignments all stay, go on, end or retire keeps the invariant.
LEMMA Follows ==
    ASSUME NEW S, NEW L, NEW t, NEW u, Good(t, S, L), Facts(u),
           Akin(t, u), NoneBack(t, u, L), Moves(t, u, S, L)
    PROVE  Good(u, S, L)
<1>1. \A r \in Rows : RowCounts(u, S, L, r) <=> RowCounts(t, S, L, r)
  BY DEF Akin, RowCounts
<1>2. \A a \in Made(t) : Counts(u, S, L, a) <=> Counts(t, S, L, a)
  BY DEF Akin, Counts
<1>3. /\ Live(t) \subseteq Made(t) /\ Live(u) \subseteq Made(t) /\ Made(t) \subseteq Assignments
  BY DEF Live, Made, Akin
<1>4. ASSUME NEW a \in Live(u), Counts(u, S, L, a)
      PROVE  /\ a \in Live(t) /\ Counts(t, S, L, a) /\ a \in Made(t)
             /\ t.assignment[a].row \in Rows /\ u.assignment[a].row = t.assignment[a].row
             /\ RowCounts(t, S, L, t.assignment[a].row)
             /\ t.row[t.assignment[a].row].order \in Slots
             /\ t.row[t.assignment[a].row].order # None
  <2>1. a \in Made(t) /\ Counts(t, S, L, a)
    BY <1>2, <1>3, <1>4
  <2>2. a \in Live(t) /\ u.assignment[a].row = t.assignment[a].row
    BY <2>1, <1>4 DEF NoneBack, Akin, Counts
  <2>3. /\ t.assignment[a].row \in Rows /\ t.assignment[a].order \in Slots
        /\ t.row[t.assignment[a].row].driver = t.assignment[a].driver
        /\ t.row[t.assignment[a].row].order = t.assignment[a].order
    BY <2>1 DEF Good, Facts, Linked
  <2>4. None \notin Slots
    BY ContractAssumption
  <2> QED BY <2>1, <2>2, <2>3, <2>4 DEF Counts, RowCounts
<1>5. OneLive(u, S, L)
  <2> SUFFICES ASSUME NEW a \in Live(u), NEW b \in Live(u), Counts(u, S, L, a),
                      u.assignment[a].driver = u.assignment[b].driver
               PROVE  a = b
    BY DEF OneLive
  <2>1. a \in Live(t) /\ Counts(t, S, L, a) /\ a \in Made(t) /\ b \in Made(t)
    BY <1>3, <1>4
  <2>2. t.assignment[a].driver = t.assignment[b].driver
    BY <2>1 DEF Akin
  <2>3. b \in Live(t)
    BY <2>1, <2>2 DEF NoneBack, Counts
  <2> QED BY <2>1, <2>2, <2>3 DEF Good, OneLive
<1>6. Decided(u, S, L)
  <2> SUFFICES ASSUME NEW r \in Rows, RowCounts(u, S, L, r), u.row[r].order # None, ~u.row[r].deleted
               PROVE  \/ u.row[r].decision \in Spoken
                      \/ /\ u.row[r].decision = CancelledBeforeAccept
                         /\ u.row[r].status = CancelledBeforeAccept
    BY DEF Decided
  <2>1. RowCounts(t, S, L, r) /\ t.row[r].order # None /\ ~t.row[r].deleted
    BY <1>1 DEF Akin
  <2>2. CASE Stays(t, u, r)
    BY <2>1, <2>2 DEF Stays, Good, Decided
  <2> QED BY <2>1, <2>2 DEF Moves, IsOver, IsRetired, GoesOn, Spoken
<1>7. LiveDecided(u, S, L)
  <2> SUFFICES ASSUME NEW a \in Live(u), Counts(u, S, L, a)
               PROVE  /\ u.row[u.assignment[a].row].decision \in Spoken
                      /\ u.assignment[a].status \in Pending
                            => u.row[u.assignment[a].row].decision \notin Terminal
    BY DEF LiveDecided
  <2> DEFINE r == t.assignment[a].row
  <2>1. /\ a \in Live(t) /\ Counts(t, S, L, a) /\ r \in Rows /\ u.assignment[a].row = r
        /\ RowCounts(t, S, L, r) /\ t.row[r].order # None /\ a \in Made(t)
    BY <1>4
  <2>2. /\ t.row[r].decision \in Spoken
        /\ t.assignment[a].status \in Pending => t.row[r].decision \notin Terminal
    BY <2>1 DEF Good, LiveDecided
  <2>3. u.assignment[a].status \in Pending => t.assignment[a].status \in Pending
    BY <2>1 DEF NoneBack, Counts
  <2>4. a \in LiveOn(u, r) /\ (u.assignment[a].status \in Pending => a \in PendingOn(u, r))
    BY <2>1 DEF LiveOn, PendingOn
  <2>5. CASE Stays(t, u, r)
    BY <2>1, <2>2, <2>3, <2>5 DEF Stays
  <2>6. CASE IsOver(u, r)
    BY <2>1, <2>4, <2>6 DEF IsOver, Spoken
  <2>7. ~IsRetired(u, r)
    BY <2>4 DEF IsRetired
  <2>8. CASE GoesOn(t, u, r)
    BY <2>1, <2>8, Words DEF GoesOn
  <2> QED BY <2>1, <2>5, <2>6, <2>7, <2>8 DEF Moves
<1>8. Held(u, S, L)
  <2> SUFFICES ASSUME NEW r \in Rows, RowCounts(u, S, L, r), u.row[r].order \in Slots,
                      ~u.row[r].deleted, u.row[r].decision \in Engaged
               PROVE  \E a \in Assignments : Serves(u, a, r)
    BY DEF Held
  <2>1. /\ RowCounts(t, S, L, r) /\ t.row[r].order \in Slots /\ t.row[r].order # None
        /\ ~t.row[r].deleted
    BY <1>1, ContractAssumption DEF Akin
  <2>2. CASE Stays(t, u, r)
    <3>1. \E a \in Assignments : Serves(t, a, r)
      BY <2>1, <2>2 DEF Stays, Good, Held
    <3> QED BY <3>1, <2>2 DEF Stays
  <2>3. ~IsOver(u, r) /\ ~IsRetired(u, r)
    BY Words DEF IsOver, IsRetired
  <2> QED BY <2>1, <2>2, <2>3 DEF Moves, GoesOn
<1>9. TakenUp(u, S, L)
  <2> SUFFICES ASSUME NEW b \in Live(u), Counts(u, S, L, b), u.assignment[b].status \in Pending,
                      u.row[u.assignment[b].row].decision \in Engaged \ {Requested}
               PROVE  \E a \in Assignments : Done(u, a, u.assignment[b].row)
    BY DEF TakenUp
  <2> DEFINE r == t.assignment[b].row
  <2>1. /\ b \in Live(t) /\ Counts(t, S, L, b) /\ r \in Rows /\ u.assignment[b].row = r
        /\ RowCounts(t, S, L, r) /\ t.row[r].order # None /\ b \in Made(t)
    BY <1>4
  <2>2. t.assignment[b].status \in Pending /\ b \in PendingOn(u, r)
    BY <2>1 DEF NoneBack, Counts, LiveOn, PendingOn
  <2>3. t.row[r].decision \in Engaged \ {Requested}
    <3>1. ~IsOver(u, r) /\ ~IsRetired(u, r)
      BY <2>2 DEF IsOver, IsRetired, PendingOn
    <3> QED BY <2>1, <2>2, <3>1 DEF Moves, Stays, GoesOn
  <2>4. PICK a \in Assignments : Done(t, a, r)
    BY <2>1, <2>2, <2>3 DEF Good, TakenUp
  <2>5. a \in Made(t) /\ t.assignment[a].row = r /\ t.assignment[a].status = "completed"
    BY <2>4 DEF Done
  <2>6. t.assignment[a].driver \notin L
    BY <2>1, <2>5 DEF Good, Facts, Linked, RowCounts
  <2>7. Done(u, a, r)
    BY <2>5, <2>6 DEF NoneBack, Akin, Done
  <2> QED BY <2>1, <2>7
<1> QED BY <1>5, <1>6, <1>7, <1>8, <1>9 DEF Good

\* Neither requests nor assignments change.
LEMMA Unmoved ==
    ASSUME NEW S, NEW L, NEW t, NEW u, Good(t, S, L), u \in TablesType,
           u.row = t.row, u.assignment = t.assignment
    PROVE  Good(u, S, L)
<1>1. Made(u) = Made(t) /\ Live(u) = Live(t)
  BY DEF Made, Live
<1>2. \A r : RowCounts(u, S, L, r) <=> RowCounts(t, S, L, r)
  BY DEF RowCounts
<1>3. \A a : Counts(u, S, L, a) <=> Counts(t, S, L, a)
  BY DEF Counts
<1>4. \A a, r : (Serves(u, a, r) <=> Serves(t, a, r)) /\ (Done(u, a, r) <=> Done(t, a, r))
  BY <1>1 DEF Serves, Done
<1>5. Facts(u)
  BY <1>1 DEF Good, Facts, Linked, Plain, DeletedIsEnded
<1>6. OneLive(u, S, L) /\ LiveDecided(u, S, L)
  BY <1>1, <1>3 DEF Good, OneLive, LiveDecided
<1>7. Decided(u, S, L) /\ Held(u, S, L)
  BY <1>2, <1>4 DEF Good, Decided, Held
<1>8. TakenUp(u, S, L)
  BY <1>1, <1>3, <1>4 DEF Good, TakenUp
<1> QED BY <1>5, <1>6, <1>7, <1>8 DEF Good

\* A request no order of a batch is on serves no assignment: it may be made, and
\* asked for an order of the street.
Beside(t, u) ==
    /\ u.assignment = t.assignment
    /\ \A r \in Rows : \/ u.row[r] = t.row[r]
                       \/ /\ t.row[r].order = None /\ u.row[r].order \notin Slots
                          /\ u.row[r].order # None => u.row[r].decision \in Engaged

\* A step on the street, beside the batch, keeps the invariant.
LEMMA Apart ==
    ASSUME NEW S, NEW L, NEW t, NEW u, Good(t, S, L), u \in TablesType, Plain(u), Beside(t, u)
    PROVE  Good(u, S, L)
<1>1. Made(u) = Made(t) /\ Live(u) = Live(t)
  BY DEF Made, Live, Beside
<1>2. \A a : Counts(u, S, L, a) <=> Counts(t, S, L, a)
  BY DEF Counts, Beside
<1>3. \A a, r : (Serves(u, a, r) <=> Serves(t, a, r)) /\ (Done(u, a, r) <=> Done(t, a, r))
  BY <1>1 DEF Serves, Done, Beside
<1>4. None \notin Slots
  BY ContractAssumption
<1>5. \A a \in Made(t) : /\ t.assignment[a].row \in Rows
                         /\ u.row[t.assignment[a].row] = t.row[t.assignment[a].row]
  BY <1>4 DEF Good, Facts, Linked, Beside
<1>6. Facts(u)
  <2>1. Linked(u)
    BY <1>1, <1>5 DEF Good, Facts, Linked, Beside
  <2>2. DeletedIsEnded(u)
    BY <1>1 DEF Good, Facts, DeletedIsEnded, Beside
  <2> QED BY <2>1, <2>2 DEF Facts
<1>7. Live(t) \subseteq Made(t)
  BY DEF Live
<1>8. OneLive(u, S, L)
  BY <1>1, <1>2 DEF Good, OneLive, Beside
<1>9. LiveDecided(u, S, L)
  BY <1>1, <1>2, <1>5, <1>7 DEF Good, LiveDecided, Beside
<1>10. TakenUp(u, S, L)
  BY <1>1, <1>2, <1>3, <1>5, <1>7 DEF Good, TakenUp, Beside
<1>11. \A r \in Rows : u.row[r] = t.row[r] =>
           (RowCounts(u, S, L, r) <=> RowCounts(t, S, L, r))
  BY DEF RowCounts
<1>12. Decided(u, S, L)
  BY <1>11 DEF Good, Decided, Beside, Spoken
<1>13. Held(u, S, L)
  BY <1>3, <1>11 DEF Good, Held, Beside
<1> QED BY <1>6, <1>8, <1>9, <1>10, <1>12, <1>13 DEF Good

-----------------------------------------------------------------------------
(***************************************************************************)
(* A new assignment.                                                       *)
(***************************************************************************)
\* What a driver still has in hand is on the order s, which then has two.
Spare(t, S, d, s) ==
    \A b \in Live(t) : t.assignment[b].driver = d => t.assignment[b].order = s /\ s \in S

\* The request r of d may serve the order s: it has no decision, or one on s
\* that nobody refused or called off.
Fit(t, S, L, d, s, r) ==
    /\ r \in Rows /\ t.row[r].driver = d /\ ~t.row[r].deleted /\ t.row[r].order \in {None, s}
    /\ t.row[r].order = s /\ RowCounts(t, S, L, r) =>
          t.row[r].decision \in Engaged \cup {JourneyCompleted}

\* The assignment a is made, on the request r.
Assigned(t, u, d, s, r, a) ==
    /\ u.row[r] = IF t.row[r].order = s THEN t.row[r]
                  ELSE [t.row[r] EXCEPT !.order = s, !.decision = Requested]
    /\ \A q \in Rows : q # r => u.row[q] = t.row[q]
    /\ u.assignment[a].order = s /\ u.assignment[a].driver = d /\ u.assignment[a].row = r
    /\ u.assignment[a].status \in Pending /\ ~u.assignment[a].deleted
    /\ \A b \in Assignments : b # a => u.assignment[b] = t.assignment[b]

\* A new assignment of a driver with nothing else in hand, on a fitting request.
LEMMA NewAssignment ==
    ASSUME NEW S, NEW L, NEW t, NEW u, Good(t, S, L), u \in TablesType,
           NEW d \in Drivers, NEW s \in Slots, NEW r, NEW a \in Assignments, a \notin Made(t),
           Spare(t, S, d, s), Fit(t, S, L, d, s, r), Assigned(t, u, d, s, r, a)
    PROVE  /\ Good(u, S, L)
           /\ Made(u) = Made(t) \cup {a} /\ Live(u) = Live(t) \cup {a}
<1>1. t \in TablesType /\ Linked(t) /\ Plain(t) /\ DeletedIsEnded(t)
  BY DEF Good, Facts
<1>2. Made(u) = Made(t) \cup {a} /\ Live(u) = Live(t) \cup {a}
  <2>1. u.assignment[a].status \notin Ended /\ u.assignment[a].status # "none"
    BY EndedWords DEF Assigned
  <2>2. ASSUME NEW b PROVE b \in Made(u) <=> b \in Made(t) \cup {a}
    BY <2>1 DEF Made, Assigned
  <2>3. ASSUME NEW b PROVE b \in Live(u) <=> b \in Live(t) \cup {a}
    BY <2>1, <2>2 DEF Live, Made, Assigned
  <2> QED BY <2>2, <2>3
<1>3. Made(t) \subseteq Assignments /\ Live(t) \subseteq Made(t) /\ a \notin Live(t)
  BY DEF Made, Live
<1>4. None \notin Slots /\ None \notin Drivers
  BY ContractAssumption
<1>5. /\ r \in Rows /\ t.row[r] \in RowType /\ t.row[r].driver = d /\ ~t.row[r].deleted
      /\ u.row[r].driver = d /\ u.row[r].order = s /\ ~u.row[r].deleted
  BY <1>1, Shape DEF Fit, Assigned, RowType
<1>6. ASSUME NEW b \in Made(t)
      PROVE  /\ u.assignment[b] = t.assignment[b] /\ t.assignment[b].row \in Rows
             /\ u.row[t.assignment[b].row] = t.row[t.assignment[b].row]
  <2>1. u.assignment[b] = t.assignment[b]
    BY <1>3 DEF Assigned
  <2>2. /\ t.assignment[b].row \in Rows
        /\ t.row[t.assignment[b].row].order = t.assignment[b].order /\ t.assignment[b].order \in Slots
    BY <1>1 DEF Linked
  <2>3. t.assignment[b].row = r => t.row[r].order = s
    BY <2>2, <1>4 DEF Fit
  <2> QED BY <2>1, <2>2, <2>3 DEF Assigned
<1>7. Facts(u)
  <2>1. Linked(u)
    <3>1. ASSUME NEW b \in Made(t)
          PROVE  /\ u.assignment[b].row \in Rows /\ u.assignment[b].driver \in Drivers
                 /\ u.assignment[b].order \in Slots
                 /\ u.row[u.assignment[b].row].driver = u.assignment[b].driver
                 /\ u.row[u.assignment[b].row].order = u.assignment[b].order
      BY <1>1, <1>6 DEF Linked
    <3>2. /\ u.assignment[a].row = r /\ u.assignment[a].driver = d /\ u.assignment[a].order = s
      BY DEF Assigned
    <3> QED BY <1>2, <1>5, <3>1, <3>2 DEF Linked
  <2>2. Plain(u)
    <3>1. ASSUME NEW q \in Rows
          PROVE  /\ u.row[q].driver = None => u.row[q] = NoRow
                 /\ u.row[q].order = None <=> u.row[q].decision = NoStatus
      <4>1. CASE q # r
        BY <1>1, <4>1 DEF Assigned, Plain
      <4>2. CASE t.row[r].order = s
        BY <1>1, <4>1, <4>2 DEF Assigned, Plain
      <4>3. CASE q = r /\ t.row[r].order # s
        <5>1. u.row[r].decision = Requested
          BY <1>5, <4>3 DEF Assigned, RowType
        <5> QED BY <1>4, <1>5, <4>3, <5>1, Words
      <4> QED BY <4>1, <4>2, <4>3
    <3> QED BY <3>1 DEF Plain
  <2>3. DeletedIsEnded(u)
    BY <1>1, <1>2, <1>6 DEF DeletedIsEnded, Assigned
  <2> QED BY <2>1, <2>2, <2>3 DEF Facts
<1>8. \A b \in Made(t) : Counts(u, S, L, b) <=> Counts(t, S, L, b)
  BY <1>6 DEF Counts
<1>9. ASSUME NEW b \in Live(t), t.assignment[b].driver = d PROVE s \in S
  BY <1>9 DEF Spare
<1>10. ~Counts(u, S, L, a) \/ (s \notin S /\ d \notin L)
  BY DEF Counts, Assigned
<1>11. OneLive(u, S, L)
  <2> SUFFICES ASSUME NEW b \in Live(u), NEW c \in Live(u), Counts(u, S, L, b),
                      u.assignment[b].driver = u.assignment[c].driver, b # c
               PROVE  FALSE
    BY DEF OneLive
  <2>1. CASE b = a
    <3>1. c \in Live(t) /\ t.assignment[c].driver = d
      BY <1>2, <1>3, <1>6, <2>1 DEF Assigned
    <3> QED BY <1>9, <1>10, <2>1, <3>1
  <2>2. CASE c = a
    <3>1. b \in Live(t) /\ t.assignment[b].driver = d /\ u.assignment[b] = t.assignment[b]
      BY <1>2, <1>3, <1>6, <2>2 DEF Assigned
    <3> QED BY <3>1 DEF Spare, Counts
  <2>3. CASE b \in Live(t) /\ c \in Live(t)
    BY <1>3, <1>6, <1>8, <2>3 DEF Good, OneLive
  <2> QED BY <1>2, <2>1, <2>2, <2>3
<1>12. Decided(u, S, L)
  <2>1. ASSUME NEW q \in Rows, RowCounts(u, S, L, q), u.row[q].order # None, ~u.row[q].deleted
        PROVE  \/ u.row[q].decision \in Spoken
               \/ /\ u.row[q].decision = CancelledBeforeAccept
                  /\ u.row[q].status = CancelledBeforeAccept
    <3>1. CASE u.row[q] = t.row[q]
      BY <2>1, <3>1 DEF Good, Decided, RowCounts
    <3>2. CASE q = r /\ t.row[r].order # s
      <4>1. u.row[r].decision = Requested
        BY <1>5, <3>2 DEF Assigned, RowType
      <4> QED BY <3>2, <4>1, EngagedWords
    <3> QED BY <3>1, <3>2 DEF Assigned
  <2> QED BY <2>1 DEF Decided
<1>13. ASSUME Counts(u, S, L, a)
       PROVE  u.row[r].decision \in Engaged \cup {JourneyCompleted}
  <2>1. CASE t.row[r].order = s
    BY <1>5, <1>10, <1>13, <2>1 DEF Fit, Assigned, RowCounts
  <2>2. CASE t.row[r].order # s
    BY <1>5, <2>2, Words DEF Assigned, RowType
  <2> QED BY <2>1, <2>2
<1>14. LiveDecided(u, S, L)
  <2>1. ASSUME NEW b \in Live(u), Counts(u, S, L, b)
        PROVE  /\ u.row[u.assignment[b].row].decision \in Spoken
               /\ u.assignment[b].status \in Pending
                      => u.row[u.assignment[b].row].decision \notin Terminal
    <3>1. CASE b = a
      <4>1. u.row[r].decision \in Spoken \ Terminal
        BY <1>13, <2>1, <3>1, EngagedWords
      <4> QED BY <3>1, <4>1 DEF Assigned
    <3>2. CASE b \in Live(t)
      BY <1>3, <1>6, <1>8, <2>1, <3>2 DEF Good, LiveDecided
    <3> QED BY <1>2, <3>1, <3>2
  <2> QED BY <2>1 DEF LiveDecided
<1>15. Serves(u, a, r)
  BY <1>2, EndedWords DEF Serves, Assigned
<1>16. \A b, q : Serves(t, b, q) => Serves(u, b, q)
  BY <1>2, <1>6 DEF Serves
<1>17. Held(u, S, L)
  <2>1. ASSUME NEW q \in Rows, RowCounts(u, S, L, q), u.row[q].order \in Slots,
               ~u.row[q].deleted, u.row[q].decision \in Engaged
        PROVE  \E b \in Assignments : Serves(u, b, q)
    <3>1. CASE q = r
      BY <1>15, <3>1
    <3>2. CASE q # r
      <4>1. u.row[q] = t.row[q]
        BY <3>2 DEF Assigned
      <4>2. PICK b \in Assignments : Serves(t, b, q)
        BY <2>1, <4>1 DEF Good, Held, RowCounts
      <4> QED BY <1>16, <4>2
    <3> QED BY <3>1, <3>2
  <2> QED BY <2>1 DEF Held
<1>18. TakenUp(u, S, L)
  <2>1. ASSUME NEW b \in Live(u), Counts(u, S, L, b), u.assignment[b].status \in Pending,
               u.row[u.assignment[b].row].decision \in Engaged \ {Requested}
        PROVE  \E w \in Assignments : Done(u, w, u.assignment[b].row)
    <3>1. \A w, q : Done(t, w, q) => Done(u, w, q)
      BY <1>2, <1>6 DEF Done
    <3>2. CASE b \in Live(t)
      <4>1. PICK w \in Assignments : Done(t, w, t.assignment[b].row)
        BY <1>3, <1>6, <1>8, <2>1, <3>2 DEF Good, TakenUp
      <4> QED BY <1>3, <1>6, <3>1, <3>2, <4>1
    <3>3. CASE b = a
      <4>1. s \notin S /\ d \notin L /\ u.assignment[a].row = r
        BY <1>10, <2>1, <3>3 DEF Assigned
      <4>2. t.row[r].order = s /\ u.row[r] = t.row[r]
        <5>1. CASE t.row[r].order # s
          BY <1>5, <2>1, <3>3, <4>1, <5>1 DEF Assigned, RowType
        <5> QED BY <5>1 DEF Assigned
      <4>3. PICK w \in Assignments : Serves(t, w, r)
        BY <1>5, <2>1, <3>3, <4>1, <4>2 DEF Good, Held, RowCounts
      <4>4. w \in Made(t) /\ t.assignment[w].row = r /\ t.assignment[w].status \notin Freeing
        BY <4>3 DEF Serves
      <4>5. t.assignment[w].driver = d
        BY <1>1, <1>5, <4>4 DEF Linked
      <4>6. w \notin Live(t)
        BY <1>9, <4>1, <4>5
      <4>7. t.assignment[w].status \in Ended
        BY <1>1, <4>4, <4>6 DEF Live, DeletedIsEnded
      <4>8. t.assignment[w].status = "completed"
        BY <4>4, <4>7, EndedWords
      <4> QED BY <3>1, <3>3, <4>1, <4>4, <4>8 DEF Done
    <3> QED BY <1>2, <3>2, <3>3
  <2> QED BY <2>1 DEF TakenUp
<1> QED BY <1>2, <1>7, <1>11, <1>12, <1>14, <1>17, <1>18 DEF Good

\* A request of a driver who has nothing else in hand is retired.
LEMMA Retired ==
    ASSUME NEW S, NEW L, NEW t, NEW u, Good(t, S, L), u \in TablesType,
           NEW d \in Drivers, NEW s, Spare(t, S, d, s), NEW r \in Rows,
           t.row[r].driver = d, u.assignment = t.assignment,
           \A q \in Rows : q # r => u.row[q] = t.row[q],
           u.row[r].driver = d, u.row[r].order = t.row[r].order, u.row[r].deleted,
           \/ u.row[r].decision = t.row[r].decision
           \/ t.row[r].order # None /\ u.row[r].decision = ReplacedByCompany
    PROVE  Good(u, S, L)
<1>1. t \in TablesType /\ Linked(t) /\ Plain(t) /\ DeletedIsEnded(t)
  BY DEF Good, Facts
<1>2. Made(u) = Made(t) /\ Live(u) = Live(t) /\ Made(t) \subseteq Assignments
      /\ Live(t) \subseteq Made(t)
  BY DEF Made, Live
<1>3. Facts(u)
  <2>1. Linked(u)
    BY <1>1, <1>2 DEF Linked
  <2>2. Plain(u)
    BY <1>1, ContractAssumption, EngagedWords, Words DEF Plain
  <2>3. DeletedIsEnded(u)
    BY <1>1, <1>2 DEF DeletedIsEnded
  <2> QED BY <2>1, <2>2, <2>3 DEF Facts
<1>4. Akin(t, u)
  BY <1>2 DEF Akin
<1>5. NoneBack(t, u, L)
  BY <1>2 DEF NoneBack
<1>6. ASSUME NEW q \in Rows, q # r PROVE Stays(t, u, q)
  <2>1. \A a : Serves(t, a, q) => Serves(u, a, q)
    BY <1>2 DEF Serves
  <2> QED BY <1>6, <2>1 DEF Stays
<1>7. ASSUME RowCounts(t, S, L, r) PROVE IsRetired(u, r)
  <2>1. ASSUME NEW b \in LiveOn(u, r) PROVE FALSE
    <3>1. b \in Live(t) /\ t.assignment[b].row = r /\ b \in Made(t)
      BY <1>2 DEF LiveOn
    <3>2. t.assignment[b].driver = d /\ t.assignment[b].order = t.row[r].order
      BY <1>1, <3>1 DEF Linked
    <3> QED BY <1>7, <3>1, <3>2 DEF Spare, RowCounts
  <2> QED BY <2>1 DEF IsRetired
<1>8. Moves(t, u, S, L)
  BY <1>6, <1>7 DEF Moves
<1> QED BY <1>3, <1>4, <1>5, <1>8, Follows

NewRow(d, status) == [NoRow EXCEPT !.driver = d, !.status = status]

\* The fields of a request just made.
LEMMA RowMade ==
    ASSUME NEW d \in Drivers, NEW status \in Statuses
    PROVE  /\ NewRow(d, status) \in RowType
           /\ NewRow(d, status).driver = d /\ NewRow(d, status).order = None
           /\ NewRow(d, status).decision = NoStatus /\ NewRow(d, status).status = status
           /\ ~NewRow(d, status).deleted
<1>1. /\ NoRow \in RowType /\ NoRow.order = None /\ NoRow.decision = NoStatus /\ ~NoRow.deleted
  BY Words DEF NoRow, RowType
<1> HIDE DEF NoRow
<1> DEFINE x == [NoRow EXCEPT !.driver = d]
<1>2. /\ x \in RowType /\ x.driver = d /\ x.order = None /\ x.decision = NoStatus /\ ~x.deleted
  BY <1>1 DEF RowType
<1>3. NewRow(d, status) = [x EXCEPT !.status = status]
  BY DEF NewRow
<1> HIDE DEF x
<1> QED BY <1>2, <1>3 DEF RowType

\* A driver's new request.
LEMMA Inserted ==
    ASSUME NEW S, NEW L, NEW t, NEW u, Good(t, S, L), u \in TablesType,
           NEW d \in Drivers, NEW r \in Rows, t.row[r].driver = None,
           u.assignment = t.assignment,
           \A q \in Rows : q # r => u.row[q] = t.row[q],
           u.row[r].driver = d, u.row[r].order = None, u.row[r].decision = NoStatus
    PROVE  Good(u, S, L)
<1>1. t \in TablesType /\ Linked(t) /\ Plain(t)
  BY DEF Good, Facts
<1>2. /\ u.row[r].driver = d /\ u.row[r].order = None
      /\ u.row[r].decision = NoStatus
  OBVIOUS
<1>3. t.row[r].order = None
  BY <1>1 DEF Plain, NoRow
<1>4. d # None /\ None \notin Slots
  BY ContractAssumption
<1>5. Plain(u)
  BY <1>1, <1>2, <1>4 DEF Plain
<1>6. Beside(t, u)
  BY <1>2, <1>3, <1>4 DEF Beside
<1> QED BY <1>2, <1>5, <1>6, Apart

-----------------------------------------------------------------------------
(***************************************************************************)
(* Tables with one row, or one order, written.                             *)
(***************************************************************************)
PutRow(t, r, x) == [t EXCEPT !.row[r] = x]
PutOrder(t, o, status) == [t EXCEPT !.order[o] = status]

\* Writing one request changes nothing else.
LEMMA ChangedRow ==
    ASSUME NEW t \in TablesType, NEW r \in Rows, NEW x \in RowType
    PROVE  /\ PutRow(t, r, x) \in TablesType /\ PutRow(t, r, x).assignment = t.assignment
           /\ PutRow(t, r, x).order = t.order /\ PutRow(t, r, x).fleet = t.fleet
           /\ PutRow(t, r, x).row[r] = x
           /\ \A q \in Rows : q # r => PutRow(t, r, x).row[q] = t.row[q]
BY DEF PutRow, TablesType

\* Writing an order changes nothing else.
LEMMA ChangedOrder ==
    ASSUME NEW t \in TablesType, NEW o, NEW status \in Statuses
    PROVE  /\ PutOrder(t, o, status) \in TablesType /\ PutOrder(t, o, status).row = t.row
           /\ PutOrder(t, o, status).assignment = t.assignment
           /\ PutOrder(t, o, status).fleet = t.fleet
BY DEF PutOrder, TablesType

WithStatus(x, status) == [x EXCEPT !.status = status]
WithDecision(x, status) == [x EXCEPT !.decision = status]
Both(x, status) == WithDecision(WithStatus(x, status), status)
RetiredRow(x) == [x EXCEPT !.status = ReplacedByCompany, !.deleted = TRUE]

\* What a request is after one of its fields is written.
LEMMA RowField ==
    ASSUME NEW x \in RowType, NEW status \in Statuses
    PROVE  /\ WithStatus(x, status) \in RowType /\ WithStatus(x, status).status = status
           /\ WithStatus(x, status).decision = x.decision
           /\ WithStatus(x, status).driver = x.driver
           /\ WithStatus(x, status).order = x.order
           /\ WithStatus(x, status).deleted = x.deleted
           /\ WithDecision(x, status) \in RowType /\ WithDecision(x, status).decision = status
           /\ WithDecision(x, status).status = x.status
           /\ WithDecision(x, status).driver = x.driver
           /\ WithDecision(x, status).order = x.order
           /\ WithDecision(x, status).deleted = x.deleted
BY DEF RowType, WithStatus, WithDecision

\* The fields of a request whose status and decision were both written.
LEMMA BothFields ==
    ASSUME NEW x \in RowType, NEW status \in Statuses
    PROVE  /\ Both(x, status) \in RowType /\ Both(x, status).status = status
           /\ Both(x, status).decision = status /\ Both(x, status).driver = x.driver
           /\ Both(x, status).order = x.order /\ Both(x, status).deleted = x.deleted
BY RowField DEF Both

\* The fields of a retired request.
LEMMA RowRetired ==
    ASSUME NEW x \in RowType
    PROVE  /\ RetiredRow(x) \in RowType /\ RetiredRow(x).driver = x.driver
           /\ RetiredRow(x).order = x.order /\ RetiredRow(x).deleted
           /\ RetiredRow(x).decision = x.decision
<1> DEFINE y == WithStatus(x, ReplacedByCompany)
<1>1. /\ y \in RowType /\ y.driver = x.driver /\ y.order = x.order /\ y.decision = x.decision
  BY RowField, Words
<1>2. RetiredRow(x) = [y EXCEPT !.deleted = TRUE]
  BY DEF RetiredRow, WithStatus
<1> HIDE DEF y
<1> QED BY <1>1, <1>2 DEF RowType

\* What Upsert writes.
Retire(t, r) == [t EXCEPT !.row[r].status = ReplacedByCompany, !.row[r].deleted = TRUE]
Clear(t, r, o) == [t EXCEPT !.row[r].decision = ReplacedByCompany, !.order[o] = Waiting]
Renew(t, r) == [t EXCEPT !.row[r].status = Requested]

\* Retiring a request writes one row.
LEMMA RetireIs ==
    ASSUME NEW t \in TablesType, NEW r \in Rows
    PROVE  Retire(t, r) = PutRow(t, r, RetiredRow(t.row[r]))
BY DEF TablesType, Retire, RetiredRow, PutRow

\* Giving up an offer writes one row and one order.
LEMMA ClearIs ==
    ASSUME NEW t \in TablesType, NEW r \in Rows, NEW o
    PROVE  Clear(t, r, o) = PutOrder(PutRow(t, r, WithDecision(t.row[r], ReplacedByCompany)), o, Waiting)
BY DEF TablesType, Clear, PutRow, PutOrder, WithDecision

\* Renewing a request writes one row.
LEMMA RenewIs ==
    ASSUME NEW t \in TablesType, NEW r \in Rows
    PROVE  Renew(t, r) = PutRow(t, r, WithStatus(t.row[r], Requested))
BY DEF TablesType, Renew, PutRow, WithStatus

UpsertCases(t, d, s, up, fresh) ==
    LET r == Max(Used(t, d))
        q == t.row[r]
        starts == MustStartFresh(q, s) \/ q.status = CancelledBeforeAccept
        open == q.order # None /\ {q.decision, q.status} \subseteq Individual
        Inserts(u) == up = [at |-> fresh, tables |-> PutRow(u, fresh, NewRow(d, Requested))]
    IN  /\ Used(t, d) = {} => Inserts(t)
        /\ Used(t, d) # {} /\ starts => Inserts(Retire(t, r))
        /\ Used(t, d) # {} /\ ~starts /\ open => Inserts(Retire(Clear(t, r, q.order), r))
        /\ Used(t, d) # {} /\ ~starts /\ ~open => up = [at |-> r, tables |-> Renew(t, r)]

\* Upsert, with its steps named.
LEMMA UpsertIs ==
    ASSUME NEW t, NEW d, NEW s
    PROVE  UpsertCases(t, d, s, Upsert(t, d, s), Min(Unused(t)))
BY DEF Upsert, UpsertCases, Retire, Clear, Renew, PutRow, NewRow

\* The request found or made for d on s fits it.
LEMMA Upserted ==
    ASSUME NEW S, NEW L, NEW t, Good(t, S, L), NEW d \in Drivers, NEW s \in Slots,
           Unused(t) # {}, Spare(t, S, d, s),
           NEW up, up = Upsert(t, d, s), NEW fresh, fresh = Min(Unused(t))
    PROVE  /\ Good(up.tables, S, L) /\ Fit(up.tables, S, L, d, s, up.at)
           /\ up.tables.assignment = t.assignment
           /\ Unused(t) \ {fresh} \subseteq Unused(up.tables)
<1> DEFINE r == Max(Used(t, d))
           q == t.row[r]
<1>1. t \in TablesType /\ Linked(t) /\ Plain(t)
  BY DEF Good, Facts
<1>2. fresh \in Rows /\ t.row[fresh].driver = None
  BY FreshRow
<1>3. d # None /\ None \notin Slots
  BY ContractAssumption
<1>4. ASSUME NEW u \in TablesType, Good(u, S, L), u.row[fresh].driver = None,
             u.assignment = t.assignment, \A x \in Unused(t) : u.row[x].driver = None,
             up = [at |-> fresh, tables |-> PutRow(u, fresh, NewRow(d, Requested))]
      PROVE  /\ Good(up.tables, S, L) /\ Fit(up.tables, S, L, d, s, up.at)
             /\ up.tables.assignment = t.assignment
             /\ Unused(t) \ {fresh} \subseteq Unused(up.tables)
  <2> DEFINE v == up.tables
  <2>1. NewRow(d, Requested) \in RowType
    BY Words, RowMade
  <2>2. up.at = fresh /\ v = PutRow(u, fresh, NewRow(d, Requested))
    BY <1>4
  <2> HIDE DEF v
  <2>3. /\ v \in TablesType /\ v.assignment = u.assignment
        /\ v.row[fresh] = NewRow(d, Requested)
    BY <1>2, <2>1, <2>2, ChangedRow
  <2>4. \A x \in Rows : x # fresh => v.row[x] = u.row[x]
    BY <1>2, <2>1, <2>2, ChangedRow
  <2>5. /\ v.row[fresh].driver = d /\ v.row[fresh].order = None /\ ~v.row[fresh].deleted
        /\ v.row[fresh].decision = NoStatus
    BY <2>3, RowMade, Words
  <2>8. t.row[fresh].driver = None /\ v.assignment = u.assignment
    BY <1>2, <2>3
  <2>9. Good(v, S, L)
    BY <1>2, <1>4, <2>3, <2>4, <2>5, Inserted
  <2>6. Fit(v, S, L, d, s, fresh)
    BY <1>2, <1>3, <2>5 DEF Fit
  <2>7. Unused(t) \ {fresh} \subseteq Unused(v)
    BY <1>4, <2>4 DEF Unused
  <2> QED BY <1>4, <2>2, <2>3, <2>9, <2>6, <2>7 DEF v
<1>5. UpsertCases(t, d, s, up, fresh)
  BY UpsertIs
<1>6. CASE Used(t, d) = {}
  BY <1>1, <1>2, <1>4, <1>5, <1>6 DEF Unused, UpsertCases
<1>7. CASE Used(t, d) # {}
  <2>1. r \in Rows /\ q.driver = d /\ ~q.deleted /\ q \in RowType /\ r # fresh
    BY <1>1, <1>2, <1>3, <1>7, LastRow, Shape
  <2>2. ASSUME NEW u \in TablesType, u.assignment = t.assignment,
               \A x \in Rows : x # r => u.row[x] = t.row[x],
               u.row[r].driver = d, u.row[r].order = q.order, u.row[r].deleted,
               \/ u.row[r].decision = q.decision
               \/ q.order # None /\ u.row[r].decision = ReplacedByCompany,
               up = [at |-> fresh, tables |-> PutRow(u, fresh, NewRow(d, Requested))]
        PROVE  /\ Good(up.tables, S, L) /\ Fit(up.tables, S, L, d, s, up.at)
               /\ up.tables.assignment = t.assignment
               /\ Unused(t) \ {fresh} \subseteq Unused(up.tables)
    <3> HIDE DEF r
    <3>1. Good(u, S, L)
      BY <2>1, <2>2, Retired
    <3>2. \A x \in Unused(t) : u.row[x].driver = None
      BY <1>3, <2>1, <2>2 DEF Unused
    <3> QED BY <1>2, <1>4, <2>1, <2>2, <3>1, <3>2
  <2>3. CASE MustStartFresh(q, s) \/ q.status = CancelledBeforeAccept
    <3> DEFINE u == Retire(t, r)
    <3>1. up = [at |-> fresh, tables |-> PutRow(u, fresh, NewRow(d, Requested))]
      BY <1>5, <1>7, <2>3 DEF UpsertCases
    <3>2. u = PutRow(t, r, RetiredRow(q))
      BY <1>1, <2>1, RetireIs
    <3> HIDE DEF u, r
    <3>3. /\ RetiredRow(q) \in RowType /\ RetiredRow(q).driver = d /\ RetiredRow(q).order = q.order
          /\ RetiredRow(q).deleted /\ RetiredRow(q).decision = q.decision
      BY <2>1, RowRetired
    <3>4. /\ u \in TablesType /\ u.assignment = t.assignment /\ u.row[r] = RetiredRow(q)
          /\ \A x \in Rows : x # r => u.row[x] = t.row[x]
      BY <1>1, <2>1, <3>2, <3>3, ChangedRow
    <3> QED BY <2>2, <3>1, <3>3, <3>4
  <2>4. CASE /\ ~(MustStartFresh(q, s) \/ q.status = CancelledBeforeAccept)
             /\ q.order # None /\ {q.decision, q.status} \subseteq Individual
    <3> DEFINE put == PutRow(t, r, WithDecision(q, ReplacedByCompany))
               v == Clear(t, r, q.order)
               u == Retire(v, r)
    <3>1. up = [at |-> fresh, tables |-> PutRow(u, fresh, NewRow(d, Requested))]
      BY <1>5, <1>7, <2>4 DEF UpsertCases
    <3>2. v = PutOrder(put, q.order, Waiting)
      BY <1>1, <2>1, ClearIs
    <3> HIDE DEF r, v
    <3>3. /\ WithDecision(q, ReplacedByCompany) \in RowType
          /\ WithDecision(q, ReplacedByCompany).decision = ReplacedByCompany
          /\ WithDecision(q, ReplacedByCompany).driver = d
          /\ WithDecision(q, ReplacedByCompany).order = q.order
      BY <2>1, RowField, Words
    <3>4. /\ put \in TablesType /\ put.assignment = t.assignment
          /\ put.row[r] = WithDecision(q, ReplacedByCompany)
          /\ \A x \in Rows : x # r => put.row[x] = t.row[x]
      BY <1>1, <2>1, <3>3, ChangedRow
    <3> HIDE DEF put
    <3>5. v \in TablesType /\ v.assignment = put.assignment /\ v.row = put.row
      BY <3>2, <3>4, ChangedOrder, Words
    <3>6. u = PutRow(v, r, RetiredRow(v.row[r]))
      BY <2>1, <3>5, RetireIs
    <3> HIDE DEF u
    <3>7. /\ RetiredRow(v.row[r]) \in RowType /\ RetiredRow(v.row[r]).driver = d
          /\ RetiredRow(v.row[r]).order = q.order /\ RetiredRow(v.row[r]).deleted
          /\ RetiredRow(v.row[r]).decision = ReplacedByCompany
      BY <3>3, <3>4, <3>5, RowRetired
    <3> DEFINE it == RetiredRow(v.row[r])
    <3> HIDE DEF it
    <3>9. it = RetiredRow(v.row[r]) /\ it \in RowType
      BY <3>7 DEF it
    <3>10. /\ u \in TablesType /\ u.assignment = v.assignment /\ u.row[r] = it
           /\ \A x \in Rows : x # r => u.row[x] = v.row[x]
      BY <2>1, <3>5, <3>6, <3>9, ChangedRow
    <3>8. /\ u \in TablesType /\ u.assignment = t.assignment /\ u.row[r] = RetiredRow(v.row[r])
          /\ \A x \in Rows : x # r => u.row[x] = t.row[x]
      BY <3>4, <3>5, <3>9, <3>10
    <3> QED BY <2>2, <2>4, <3>1, <3>7, <3>8
  <2>5. CASE /\ ~(MustStartFresh(q, s) \/ q.status = CancelledBeforeAccept)
             /\ ~(q.order # None /\ {q.decision, q.status} \subseteq Individual)
    <3> DEFINE u == Renew(t, r)
    <3>1. up = [at |-> r, tables |-> u]
      BY <1>5, <1>7, <2>5 DEF UpsertCases
    <3>2. u = PutRow(t, r, WithStatus(q, Requested))
      BY <1>1, <2>1, RenewIs
    <3> HIDE DEF u, r
    <3>3. /\ WithStatus(q, Requested) \in RowType /\ WithStatus(q, Requested).driver = d
          /\ WithStatus(q, Requested).order = q.order /\ ~WithStatus(q, Requested).deleted
          /\ WithStatus(q, Requested).decision = q.decision
      BY <2>1, RowField, Words
    <3>4. /\ u \in TablesType /\ u.assignment = t.assignment /\ u.row[r] = WithStatus(q, Requested)
          /\ \A x \in Rows : x # r => u.row[x] = t.row[x]
      BY <1>1, <2>1, <3>2, <3>3, ChangedRow
    <3>5. q.order \in {None, s} /\ (q.order = s => q.decision \notin Terminal)
      <4>1. /\ ~MustStartFresh(q, s) /\ q.status # CancelledBeforeAccept
            /\ ~(q.order # None /\ {q.decision, q.status} \subseteq Individual)
        BY <2>5
      <4> DEFINE open == {q.decision, q.status} \subseteq Individual
      <4>2. \/ q.order = None
            \/ IF q.order = s THEN q.decision \notin Terminal ELSE open
        BY <4>1 DEF MustStartFresh
      <4>3. q.order = None \/ ~open
        BY <4>1
      <4> HIDE DEF open
      <4>4. CASE q.order = None
        BY <1>3, <4>4
      <4>5. CASE q.order # None
        BY <4>2, <4>3, <4>5
      <4> QED BY <4>4, <4>5
    <3>6. ASSUME RowCounts(t, S, L, r), q.order # None
          PROVE  q.decision \in Engaged \cup {JourneyCompleted}
      <4>1. q.decision \in Spoken
        BY <2>1, <2>5, <3>6 DEF Good, Decided
      <4> QED BY <3>5, <3>6, <4>1 DEF Spoken
    <3>7. Good(u, S, L)
      <4>1. Made(u) = Made(t) /\ Live(u) = Live(t) /\ Made(t) \subseteq Assignments
        BY <3>4 DEF Made, Live
      <4>2. Facts(u)
        <5>1. Linked(u)
          BY <1>1, <2>1, <3>3, <3>4, <4>1 DEF Linked
        <5>2. Plain(u)
          BY <1>1, <1>3, <2>1, <3>3, <3>4 DEF Plain
        <5>3. DeletedIsEnded(u)
          BY <3>4, <4>1 DEF Good, Facts, DeletedIsEnded
        <5> QED BY <3>4, <5>1, <5>2, <5>3 DEF Facts
      <4>3. Akin(t, u) /\ NoneBack(t, u, L)
        BY <2>1, <3>3, <3>4, <4>1 DEF Akin, NoneBack
      <4>4. ASSUME NEW x \in Rows, RowCounts(t, S, L, x), t.row[x].order # None PROVE Stays(t, u, x)
        <5>1. \A a : Serves(t, a, x) => Serves(u, a, x)
          BY <3>4, <4>1 DEF Serves
        <5>2. u.row[x].decision = CancelledBeforeAccept => x # r
          BY <3>3, <3>4, <3>6, <4>4, EngagedWords
        <5> QED BY <3>3, <3>4, <4>4, <5>1, <5>2 DEF Stays
      <4> QED BY <4>2, <4>3, <4>4, Follows DEF Moves
    <3>8. Fit(u, S, L, d, s, r)
      <4>1. RowCounts(u, S, L, r) => RowCounts(t, S, L, r)
        BY <2>1, <3>3, <3>4 DEF RowCounts
      <4> QED BY <1>3, <2>1, <3>3, <3>4, <3>5, <3>6, <4>1 DEF Fit
    <3>9. Unused(t) \ {fresh} \subseteq Unused(u)
      BY <1>3, <2>1, <3>4 DEF Unused
    <3> QED BY <3>1, <3>4, <3>7, <3>8, <3>9
  <2> QED BY <2>3, <2>4, <2>5
<1> QED BY <1>6, <1>7

PutAssignment(t, a, x) == [t EXCEPT !.assignment[a] = x]

\* Writing one assignment changes nothing else.
LEMMA ChangedAssignment ==
    ASSUME NEW t \in TablesType, NEW a \in Assignments, NEW x \in AssignmentType,
           NEW u, u = PutAssignment(t, a, x)
    PROVE  /\ u \in TablesType /\ u.row = t.row /\ u.order = t.order /\ u.fleet = t.fleet
           /\ u.assignment[a] = x
           /\ \A b \in Assignments : b # a => u.assignment[b] = t.assignment[b]
BY DEF PutAssignment, TablesType

NewJob(c, s, d, r, status) ==
    [company |-> c, order |-> s, driver |-> d, row |-> r, status |-> status, deleted |-> FALSE]

\* The fields of an assignment just made.
LEMMA JobMade ==
    ASSUME NEW c \in Companies, NEW s \in Slots, NEW d \in Drivers, NEW r \in Rows,
           NEW status \in Pending, NEW x, x = NewJob(c, s, d, r, status)
    PROVE  /\ x \in AssignmentType /\ x.order = s /\ x.driver = d /\ x.row = r
           /\ x.status \in Pending /\ ~x.deleted /\ x.company = c
BY DEF NewJob, AssignmentType

OnOrder(x, s) == [x EXCEPT !.order = s, !.decision = Requested]

\* The fields of a request put on an order.
LEMMA RowOnOrder ==
    ASSUME NEW x \in RowType, NEW s \in Orders
    PROVE  /\ OnOrder(x, s) \in RowType /\ OnOrder(x, s).order = s
           /\ OnOrder(x, s).driver = x.driver
<1> DEFINE y == [x EXCEPT !.order = s]
<1>1. y \in RowType /\ y.driver = x.driver /\ y.order = s
  BY DEF RowType
<1>2. OnOrder(x, s) = WithDecision(y, Requested)
  BY DEF OnOrder, WithDecision
<1> HIDE DEF y
<1> QED BY <1>1, <1>2, RowField, Words

\* Making a decision writes one row at most.
LEMMA DecideIs ==
    ASSUME NEW t \in TablesType, NEW r \in Rows, NEW s
    PROVE  Decide(t, r, s) = IF t.row[r].order = s THEN t ELSE PutRow(t, r, OnOrder(t.row[r], s))
BY DEF TablesType, Decide, PutRow, OnOrder

OnRequest(t, c, s, d, status, r, a) ==
    PutAssignment(Decide(t, r, s), a, NewJob(c, s, d, r, status))

\* Engage is an assignment made on the request Upsert found.
LEMMA EngageIs ==
    ASSUME NEW t, NEW c, NEW s, NEW d, NEW status, NEW up, up = Upsert(t, d, s)
    PROVE  Engage(t, c, s, d, status) =
              OnRequest(up.tables, c, s, d, status, up.at, Min(Assignments \ Made(t)))
BY DEF Engage, OnRequest, PutAssignment, NewJob

\* The assignment a of d on s was added, on a request found before.
NewJobOf(t, u, d, s, a) ==
    /\ Made(u) = Made(t) \cup {a} /\ Live(u) = Live(t) \cup {a}
    /\ u.assignment[a].driver = d /\ u.assignment[a].order = s
    /\ \A b \in Made(t) : u.assignment[b] = t.assignment[b]

Grown(t, u, d, s, a) == NewJobOf(t, u, d, s, a) /\ Unused(t) \subseteq Unused(u)

\* The assignment is made on a request that fits it.
LEMMA PutOn ==
    ASSUME NEW S, NEW L, NEW v, Good(v, S, L), NEW c \in Companies, NEW s \in Slots,
           NEW d \in Drivers, NEW status \in Pending, NEW r, NEW a \in Assignments, a \notin Made(v),
           Spare(v, S, d, s), Fit(v, S, L, d, s, r),
           NEW u, u = OnRequest(v, c, s, d, status, r, a)
    PROVE  Good(u, S, L) /\ Grown(v, u, d, s, a)
<1>0. PICK w, job : w = Decide(v, r, s) /\ job = NewJob(c, s, d, r, status)
  OBVIOUS
<1>1. v \in TablesType /\ r \in Rows /\ v.row[r] \in RowType /\ v.row[r].driver = d
  BY Shape DEF Good, Facts, Fit
<1>2. s \in Orders /\ d # None
  BY ContractAssumption DEF Orders
<1>3. w = IF v.row[r].order = s THEN v ELSE PutRow(v, r, OnOrder(v.row[r], s))
  BY <1>0, <1>1, DecideIs
<1>4. /\ w \in TablesType /\ w.assignment = v.assignment
      /\ w.row[r] = IF v.row[r].order = s THEN v.row[r] ELSE OnOrder(v.row[r], s)
      /\ w.row[r].driver = d
      /\ \A q \in Rows : q # r => w.row[q] = v.row[q]
  <2>1. CASE v.row[r].order = s
    BY <1>1, <1>3, <2>1
  <2>2. CASE v.row[r].order # s
    <3> DEFINE x == OnOrder(v.row[r], s)
    <3>1. x \in RowType /\ x.driver = d
      BY <1>1, <1>2, RowOnOrder
    <3>2. w = PutRow(v, r, x)
      BY <1>3, <2>2
    <3> HIDE DEF x
    <3>3. /\ w \in TablesType /\ w.assignment = v.assignment /\ w.row[r] = x
          /\ \A q \in Rows : q # r => w.row[q] = v.row[q]
      BY <1>1, <3>1, <3>2, ChangedRow
    <3> QED BY <2>2, <3>1, <3>3 DEF x
  <2> QED BY <2>1, <2>2
<1>5. /\ job \in AssignmentType /\ job.order = s /\ job.driver = d /\ job.row = r
      /\ job.status \in Pending /\ ~job.deleted
  BY <1>0, <1>1, JobMade
<1>6. w \in TablesType /\ u = PutAssignment(w, a, job)
  BY <1>0, <1>4 DEF OnRequest
<1>7. /\ u \in TablesType /\ u.row = w.row /\ u.assignment[a] = job
      /\ \A b \in Assignments : b # a => u.assignment[b] = w.assignment[b]
  BY <1>5, <1>6, ChangedAssignment
<1>8. Assigned(v, u, d, s, r, a)
  BY <1>4, <1>5, <1>7 DEF Assigned, OnOrder
<1>9. Good(u, S, L) /\ Made(u) = Made(v) \cup {a} /\ Live(u) = Live(v) \cup {a}
  BY <1>7, <1>8, NewAssignment
<1>10. \A b \in Made(v) : b \in Assignments /\ b # a
  BY DEF Made
<1>11. Unused(v) \subseteq Unused(u)
  <2>1. \A x \in Unused(v) : x \in Rows /\ x # r /\ v.row[x].driver = None
    BY <1>1, <1>2 DEF Unused
  <2> QED BY <1>4, <1>7, <2>1 DEF Unused
<1> QED BY <1>4, <1>5, <1>7, <1>9, <1>10, <1>11 DEF Grown, NewJobOf

\* A request and an assignment were used up to put d on s.
Took(t, u, d, s) ==
    /\ \E a \in Assignments : a \notin Made(t) /\ NewJobOf(t, u, d, s, a)
    /\ \E fresh \in Rows : Unused(t) \ {fresh} \subseteq Unused(u)

\* Putting a driver who has nothing else in hand on an order.
LEMMA Engaging ==
    ASSUME NEW S, NEW L, NEW t, Good(t, S, L), NEW c \in Companies, NEW s \in Slots,
           NEW d \in Drivers, NEW status \in Pending,
           Unused(t) # {}, Assignments \ Made(t) # {}, Spare(t, S, d, s),
           NEW u, u = Engage(t, c, s, d, status)
    PROVE  Good(u, S, L) /\ Took(t, u, d, s)
<1>0. PICK fresh, a : fresh = Min(Unused(t)) /\ a = Min(Assignments \ Made(t))
  OBVIOUS
<1>1. a \in Assignments /\ a \notin Made(t)
  BY <1>0, FreshAssignment
<1>2. PICK up : up = Upsert(t, d, s)
  OBVIOUS
<1>3. PICK v, r : v = up.tables /\ r = up.at
  OBVIOUS
<1>4. /\ Good(v, S, L) /\ Fit(v, S, L, d, s, r) /\ v.assignment = t.assignment
      /\ Unused(t) \ {fresh} \subseteq Unused(v)
  BY <1>0, <1>2, <1>3, Upserted
<1>6. u = OnRequest(v, c, s, d, status, r, a)
  BY <1>0, <1>2, <1>3, EngageIs
<1>7. Made(v) = Made(t) /\ Live(v) = Live(t)
  BY <1>4 DEF Made, Live
<1>8. Spare(v, S, d, s)
  BY <1>4, <1>7 DEF Spare
<1>9. Good(u, S, L) /\ Grown(v, u, d, s, a)
  <2>1. a \in Assignments /\ a \notin Made(v)
    BY <1>1, <1>7
  <2>2. Good(v, S, L) /\ Fit(v, S, L, d, s, r)
    BY <1>4
  <2> QED BY <1>6, <1>8, <2>1, <2>2, PutOn
<1>10. fresh \in Rows
  BY <1>0, FreshRow
<1>11. NewJobOf(t, u, d, s, a)
  BY <1>4, <1>7, <1>9 DEF Grown, NewJobOf
<1>12. Unused(t) \ {fresh} \subseteq Unused(u)
  BY <1>4, <1>9 DEF Grown
<1> QED BY <1>1, <1>9, <1>10, <1>11, <1>12 DEF Took

\* Counting up to n inside a set.
LEMMA UpTo ==
    ASSUME NEW n \in Nat, NEW Q, 0 \in Q, \A i \in 0..n : i \in Q /\ i < n => i + 1 \in Q
    PROVE  \A i \in 0..n : i \in Q
<1> DEFINE rest == {i \in 0..n : i \notin Q}
<1>1. SUFFICES ASSUME rest # {} PROVE FALSE
  OBVIOUS
<1>2. rest \subseteq Nat
  OBVIOUS
<1>3. PICK m \in rest : \A x \in rest : ~(<<x, m>> \in OpToRel(<, Nat))
  BY <1>1, <1>2, NatLessThanWellFounded, WFMin
<1>4. m \in 0..n /\ m \notin Q /\ m # 0
  OBVIOUS
<1>5. m - 1 \in 0..n /\ m - 1 < n /\ (m - 1) + 1 = m /\ m - 1 < m /\ m - 1 \in Nat
  BY <1>4
<1>6. m - 1 \notin rest
  <2>1. ASSUME NEW x \in rest PROVE ~(x < m)
    <3>1. x \in Nat /\ m \in Nat
      OBVIOUS
    <3> QED BY <1>3, <3>1 DEF OpToRel
  <2> QED BY <1>5, <2>1
<1>7. m - 1 \in Q
  BY <1>5, <1>6
<1> QED BY <1>4, <1>5, <1>7

Run(after, t, c, s, d, n) ==
    after = [i \in 0..n |-> IF i = 0 THEN t
                            ELSE Engage(after[i - 1], c, s[i], d[i], "assigned")]

\* The assignments are made one after the other.
LEMMA RunExists ==
    ASSUME NEW t, NEW c, NEW s, NEW d, NEW n \in Nat
    PROVE  \E after : Run(after, t, c, s, d, n)
<1> DEFINE Q == {m \in 0..n : \E after : Run(after, t, c, s, d, m)}
<1>1. 0 \in Q
  <2>1. Run([i \in 0..0 |-> t], t, c, s, d, 0)
    BY DEF Run
  <2> QED BY <2>1
<1>2. ASSUME NEW i \in 0..n, i \in Q, i < n PROVE i + 1 \in Q
  <2>1. PICK g : Run(g, t, c, s, d, i)
    BY <1>2
  <2> DEFINE m == i + 1
             h == [j \in 0..m |-> IF j = m THEN Engage(g[i], c, s[m], d[m], "assigned") ELSE g[j]]
  <2>2. m \in 0..n /\ m \in Nat /\ m - 1 = i /\ m # 0
    BY <1>2
  <2>3. ASSUME NEW j \in 0..m
        PROVE  h[j] = IF j = 0 THEN t ELSE Engage(h[j - 1], c, s[j], d[j], "assigned")
    <3>1. CASE j = m
      <4>1. h[m] = Engage(g[i], c, s[m], d[m], "assigned") /\ h[i] = g[i]
        BY <2>2
      <4> QED BY <2>2, <3>1, <4>1
    <3>2. CASE j # m
      <4>1. j \in 0..i /\ (j # 0 => j - 1 \in 0..i /\ j - 1 # m /\ j - 1 \in 0..m)
        BY <2>2, <3>2
      <4>2. h[j] = g[j] /\ (j # 0 => h[j - 1] = g[j - 1])
        BY <3>2, <4>1
      <4>3. g[j] = IF j = 0 THEN t ELSE Engage(g[j - 1], c, s[j], d[j], "assigned")
        BY <2>1, <4>1 DEF Run
      <4> HIDE DEF h
      <4> QED BY <4>2, <4>3
    <3> QED BY <3>1, <3>2
  <2>4. Run(h, t, c, s, d, m)
    <3>1. h = [j \in 0..m |-> h[j]]
      OBVIOUS
    <3> HIDE DEF h
    <3>2. h = [j \in 0..m |-> IF j = 0 THEN t ELSE Engage(h[j - 1], c, s[j], d[j], "assigned")]
      BY <2>3, <3>1
    <3> QED BY <3>2 DEF Run
  <2> QED BY <2>2, <2>4
<1> HIDE DEF Q
<1>3. n \in 0..n
  OBVIOUS
<1>4. n \in Q
  BY <1>1, <1>2, <1>3, UpTo
<1> QED BY <1>4 DEF Q

\* EngageAll is the end of a run of single engagements.
LEMMA RunIs ==
    ASSUME NEW t, NEW c, NEW s, NEW d, NEW n \in Nat
    PROVE  \E after : Run(after, t, c, s, d, n) /\ EngageAll(t, c, s, d, n) = after[n]
<1> DEFINE after == CHOOSE g : Run(g, t, c, s, d, n)
<1>1. Run(after, t, c, s, d, n)
  BY RunExists
<1>2. EngageAll(t, c, s, d, n) = after[n]
  BY DEF EngageAll, Run
<1> QED BY <1>1, <1>2

\* The rows and assignments are finitely many.
LEMMA Finite ==
    ASSUME NEW t
    PROVE  /\ IsFiniteSet(Unused(t)) /\ Cardinality(Unused(t)) \in Nat
           /\ IsFiniteSet(Assignments \ Made(t)) /\ Cardinality(Assignments \ Made(t)) \in Nat
<1>1. IsFiniteSet(Rows) /\ IsFiniteSet(Assignments)
  BY ContractAssumption, FS_Interval DEF Rows, Assignments
<1>2. Unused(t) \subseteq Rows /\ Assignments \ Made(t) \subseteq Assignments
  BY DEF Unused
<1> QED BY <1>1, <1>2, FS_Subset, FS_CardinalityType

\* Room for n in t, and nothing in the hands of the drivers after the i-th.
Ready(t, d, i, n) ==
    /\ Cardinality(Unused(t)) + i >= n /\ Cardinality(Assignments \ Made(t)) + i >= n
    /\ \A j \in 1..n : j > i => \A b \in Live(t) : t.assignment[b].driver # d[j]

\* While fewer than n are used up, one of n is left.
LEMMA NotEmpty ==
    ASSUME NEW n \in Nat, NEW i \in Nat, i < n, NEW X, IsFiniteSet(X), Cardinality(X) + i >= n
    PROVE  X # {}
BY FS_EmptySet

\* Using one up leaves one less.
LEMMA Shrunk ==
    ASSUME NEW n \in Nat, NEW X, IsFiniteSet(X), NEW Y, IsFiniteSet(Y), NEW x, X \ {x} \subseteq Y,
           NEW i \in Nat, Cardinality(X) + i >= n
    PROVE  Cardinality(Y) + (i + 1) >= n
<1>1. /\ Cardinality(X) \in Nat /\ Cardinality(Y) \in Nat
      /\ IsFiniteSet(X \ {x}) /\ Cardinality(X \ {x}) \in Nat
  BY FS_CardinalityType, FS_Subset
<1>2. Cardinality(X \ {x}) <= Cardinality(Y)
  BY FS_Subset
<1>3. Cardinality(X) <= Cardinality(X \ {x}) + 1
  <2>1. CASE x \in X
    BY <1>1, <2>1, FS_RemoveElement
  <2>2. CASE x \notin X
    <3>1. X \ {x} = X
      BY <2>2
    <3> QED BY <1>1, <3>1
  <2> QED BY <2>1, <2>2
<1> QED BY <1>1, <1>2, <1>3

\* One after the other, the drivers are put on the orders.
LEMMA AllEngaged ==
    ASSUME NEW S, NEW L, NEW t, Good(t, S, L), NEW c \in Companies, NEW n \in Nat,
           NEW s \in [1..n -> Slots], NEW d \in [1..n -> Drivers],
           \A i, j \in 1..n : d[i] = d[j] => i = j, Ready(t, d, 0, n),
           NEW u, u = EngageAll(t, c, s, d, n)
    PROVE  Good(u, S, L)
<1>1. PICK after : Run(after, t, c, s, d, n) /\ u = after[n]
  BY RunIs
<1> DEFINE Q == {i \in 0..n : Good(after[i], S, L) /\ Ready(after[i], d, i, n)}
<1>2. 0 \in Q
  BY <1>1 DEF Run
<1>3. ASSUME NEW i \in 0..n, i \in Q, i < n PROVE i + 1 \in Q
  <2> DEFINE m == i + 1
  <2>1. m \in 1..n /\ m \in 0..n /\ m > i /\ m - 1 = i /\ m # 0 /\ i \in Nat
    BY <1>3
  <2> HIDE DEF m
  <2>2. PICK x, y : x = after[i] /\ y = after[m]
    OBVIOUS
  <2>3. y = Engage(x, c, s[m], d[m], "assigned")
    BY <1>1, <2>1, <2>2 DEF Run
  <2>4. Good(x, S, L) /\ Ready(x, d, i, n)
    BY <1>3, <2>2
  <2>5. Unused(x) # {} /\ Assignments \ Made(x) # {}
    <3>1. Cardinality(Unused(x)) + i >= n /\ Cardinality(Assignments \ Made(x)) + i >= n
      BY <2>4 DEF Ready
    <3>2. IsFiniteSet(Unused(x)) /\ IsFiniteSet(Assignments \ Made(x))
      BY Finite
    <3> QED BY <1>3, <2>1, <3>1, <3>2, NotEmpty
  <2>6. Spare(x, S, d[m], s[m])
    BY <2>1, <2>4 DEF Ready, Spare
  <2>8. s[m] \in Slots /\ d[m] \in Drivers /\ "assigned" \in Pending
    BY <2>1 DEF Pending
  <2>7. Good(y, S, L) /\ Took(x, y, d[m], s[m])
    BY <2>3, <2>4, <2>5, <2>6, <2>8, Engaging
  <2>9. PICK a, fresh : NewJobOf(x, y, d[m], s[m], a) /\ Unused(x) \ {fresh} \subseteq Unused(y)
    BY <2>7 DEF Took
  <2>10. Cardinality(Unused(y)) + m >= n
    BY <2>4, <2>9, <2>1, Shrunk, Finite DEF Ready, m
  <2>11. Cardinality(Assignments \ Made(y)) + m >= n
    <3>1. (Assignments \ Made(x)) \ {a} \subseteq Assignments \ Made(y)
      BY <2>9 DEF NewJobOf
    <3> QED BY <2>4, <3>1, <2>1, Shrunk, Finite DEF Ready, m
  <2>12. ASSUME NEW j \in 1..n, j > m, NEW b \in Live(y)
         PROVE  y.assignment[b].driver # d[j]
    <3>1. CASE b = a
      BY <2>1, <2>9, <2>12, <3>1 DEF NewJobOf
    <3>2. CASE b \in Live(x)
      <4>1. b \in Made(x) /\ j > i
        BY <2>1, <2>12, <3>2 DEF Live
      <4> QED BY <2>4, <2>9, <3>2, <4>1 DEF Ready, NewJobOf
    <3> QED BY <2>9, <3>1, <3>2 DEF NewJobOf
  <2>13. Ready(y, d, m, n)
    BY <2>10, <2>11, <2>12 DEF Ready
  <2> QED BY <2>1, <2>2, <2>7, <2>13 DEF m
<1> HIDE DEF Q
<1>4. n \in 0..n
  OBVIOUS
<1>5. n \in Q
  BY <1>2, <1>3, <1>4, UpTo
<1> QED BY <1>1, <1>5 DEF Q

-----------------------------------------------------------------------------
(***************************************************************************)
(* The answers and the calls that end something.                           *)
(***************************************************************************)
RowsAlike(t, u) ==
    \A q \in Rows :
        \/ u.row[q] = t.row[q]
        \/ /\ t.row[q].driver # None
           /\ u.row[q].driver = t.row[q].driver /\ u.row[q].order = t.row[q].order
           /\ u.row[q].deleted = t.row[q].deleted
           /\ t.row[q].order = None => u.row[q].decision = t.row[q].decision
           /\ t.row[q].order # None => u.row[q].decision # NoStatus

JobsAlike(t, u) ==
    \A a \in Assignments :
        \/ u.assignment[a] = t.assignment[a]
        \/ /\ a \in Made(t)
           /\ u.assignment[a].driver = t.assignment[a].driver
           /\ u.assignment[a].order = t.assignment[a].order
           /\ u.assignment[a].row = t.assignment[a].row
           /\ u.assignment[a].status # "none"
           /\ u.assignment[a].deleted => u.assignment[a].status \in Ended

Alike(t, u) == u \in TablesType /\ RowsAlike(t, u) /\ JobsAlike(t, u)

\* Tables alike in drivers, orders and what is made keep the facts.
LEMMA Kept ==
    ASSUME NEW t, NEW u, Facts(t), Alike(t, u)
    PROVE  Facts(u) /\ Akin(t, u)
<1>1. Made(u) = Made(t) /\ Made(t) \subseteq Assignments
  BY DEF Made, Alike, JobsAlike
<1>2. \A a \in Made(t) : /\ u.assignment[a].driver = t.assignment[a].driver
                         /\ u.assignment[a].order = t.assignment[a].order
                         /\ u.assignment[a].row = t.assignment[a].row
                         /\ u.assignment[a].deleted => u.assignment[a].status \in Ended
  BY <1>1 DEF Alike, JobsAlike, Facts, DeletedIsEnded
<1>3. \A q \in Rows : /\ u.row[q].driver = t.row[q].driver /\ u.row[q].order = t.row[q].order
                      /\ u.row[q].deleted = t.row[q].deleted
  BY DEF Alike, RowsAlike
<1>4. Akin(t, u)
  BY <1>1, <1>2, <1>3 DEF Akin
<1>5. Linked(u)
  BY <1>1, <1>2, <1>3 DEF Linked, Facts
<1>6. Plain(u)
  BY DEF Plain, Facts, Alike, RowsAlike
<1>7. DeletedIsEnded(u)
  BY <1>1, <1>2 DEF DeletedIsEnded
<1> QED BY <1>4, <1>5, <1>6, <1>7 DEF Facts, Alike

\* What is live on a request of a driver that counts is the driver's one.
LEMMA OnRow ==
    ASSUME NEW S, NEW L, NEW t, Good(t, S, L), NEW a \in Made(t)
    PROVE  LET r == t.assignment[a].row
           IN  /\ r \in Rows /\ t.row[r].order # None /\ t.row[r].order \in Slots
               /\ RowCounts(t, S, L, r) <=> Counts(t, S, L, a)
               /\ t.row[r].driver = t.assignment[a].driver /\ t.row[r].driver # None
BY ContractAssumption DEF Good, Facts, Linked, RowCounts, Counts

\* A driver who counts has no other live assignment.
LEMMA OnlyOne ==
    ASSUME NEW S, NEW L, NEW t, Good(t, S, L), NEW a \in Live(t), Counts(t, S, L, a),
           NEW b \in Live(t), t.assignment[b].driver = t.assignment[a].driver
    PROVE  b = a
BY DEF Good, OneLive

\* Rows that no change touches go on as they are.
LEMMA Untouched ==
    ASSUME NEW t, NEW u, NEW q, u.row[q] = t.row[q], Made(u) = Made(t),
           \A a \in Made(t) : t.assignment[a].row = q =>
               /\ u.assignment[a].row = q
               /\ t.assignment[a].status \notin Freeing => u.assignment[a].status \notin Freeing
    PROVE  Stays(t, u, q)
BY DEF Stays, Serves

\* One assignment, and no other, is written.
OnlyJob(t, u, a) == \A b \in Assignments : b # a => u.assignment[b] = t.assignment[b]
OnlyRow(t, u, r) == \A q \in Rows : q # r => u.row[q] = t.row[q]

\* An assignment that is live, or whose driver does not count, ends with its decision.
LEMMA Ending ==
    ASSUME NEW S, NEW L, NEW t, NEW u, Good(t, S, L), NEW a \in Made(t), Alike(t, u),
           OnlyJob(t, u, a), u.assignment[a].status \in Ended,
           t.assignment[a].driver \notin L => a \in Live(t),
           OnlyRow(t, u, t.assignment[a].row),
           LET q == u.row[t.assignment[a].row]
           IN  \/ q.decision \in Terminal
               \/ q.decision = CancelledBeforeAccept /\ q.status = CancelledBeforeAccept
    PROVE  Good(u, S, L)
<1> DEFINE r == t.assignment[a].row
<1>1. Facts(t)
  BY DEF Good
<1>2. Facts(u) /\ Akin(t, u)
  BY <1>1, Kept
<1>3. /\ r \in Rows /\ (RowCounts(t, S, L, r) => Counts(t, S, L, a))
      /\ t.row[r].driver = t.assignment[a].driver
  BY OnRow
<1>4. Live(u) \subseteq Made(t) /\ a \notin Live(u) /\ Made(t) \subseteq Assignments /\ Live(t) \subseteq Made(t)
  BY <1>2 DEF Live, Made, Akin
<1>5. \A b \in Made(t) : b # a => u.assignment[b] = t.assignment[b] /\ (b \in Live(u) <=> b \in Live(t))
  BY <1>2, <1>4 DEF OnlyJob, Live, Akin
<1>6. NoneBack(t, u, L)
  <2>1. ASSUME NEW b \in Made(t), t.assignment[b].driver \notin L
        PROVE  /\ b \in Live(u) => b \in Live(t)
               /\ u.assignment[b].status \in Pending => t.assignment[b].status \in Pending
               /\ t.assignment[b].status = "completed" => u.assignment[b].status = "completed"
    <3>1. CASE b # a
      BY <1>5, <3>1
    <3>2. CASE b = a
      <4>1. t.assignment[a].status \notin Ended
        BY <2>1, <3>2 DEF Live
      <4> QED BY <1>4, <3>2, <4>1, EndedWords
    <3> QED BY <3>1, <3>2
  <2> QED BY <2>1 DEF NoneBack
<1>7. ASSUME RowCounts(t, S, L, r) PROVE IsOver(u, r)
  <2>1. Counts(t, S, L, a) /\ a \in Live(t)
    BY <1>3, <1>7 DEF RowCounts
  <2>2. ASSUME NEW b \in LiveOn(u, r) PROVE FALSE
    <3>1. b \in Live(u) /\ u.assignment[b].row = r /\ b \in Made(t) /\ b # a
      BY <1>4 DEF LiveOn
    <3>2. b \in Live(t) /\ t.assignment[b].row = r
      BY <1>5, <3>1
    <3>3. t.assignment[b].driver = t.assignment[a].driver
      BY <1>1, <1>3, <3>1, <3>2 DEF Facts, Linked
    <3> QED BY <2>1, <3>1, <3>2, <3>3, OnlyOne
  <2>3. LiveOn(u, r) = {} /\ PendingOn(u, r) = {}
    BY <2>2 DEF PendingOn
  <2> QED BY <2>3 DEF IsOver
<1>8. ASSUME NEW q \in Rows, q # r PROVE Stays(t, u, q)
  <2>1. u.row[q] = t.row[q] /\ Made(u) = Made(t)
    BY <1>2, <1>8 DEF OnlyRow, Akin
  <2>2. \A b \in Made(t) : t.assignment[b].row = q => u.assignment[b] = t.assignment[b]
    BY <1>5, <1>8
  <2> QED BY <2>1, <2>2, Untouched
<1>9. Moves(t, u, S, L)
  BY <1>7, <1>8 DEF Moves
<1> QED BY <1>2, <1>6, <1>9, Follows

\* An assignment that is over is deleted.
LEMMA Deleting ==
    ASSUME NEW S, NEW L, NEW t, NEW u, Good(t, S, L), NEW a \in Made(t), Alike(t, u),
           OnlyJob(t, u, a), t.assignment[a].status \in Ended,
           u.assignment[a].status = t.assignment[a].status, u.row = t.row
    PROVE  Good(u, S, L)
<1>1. Facts(u) /\ Akin(t, u)
  BY Kept DEF Good
<1>2. Live(u) \subseteq Made(t) /\ Made(t) \subseteq Assignments /\ Made(u) = Made(t)
  BY <1>1 DEF Live, Made, Akin
<1>3. \A b \in Made(t) : u.assignment[b].status = t.assignment[b].status
                         /\ (b \in Live(u) => b \in Live(t))
  BY <1>2 DEF OnlyJob, Live
<1>4. NoneBack(t, u, L)
  BY <1>3 DEF NoneBack
<1>5. ASSUME NEW q \in Rows PROVE Stays(t, u, q)
  <2>1. \A b \in Made(t) : u.assignment[b].row = t.assignment[b].row
    BY <1>1 DEF Akin
  <2> QED BY <1>2, <1>3, <2>1, Untouched
<1> QED BY <1>1, <1>4, <1>5, Follows DEF Moves

\* What else the driver of the assignment a was offered is called off; a itself
\* is confirmed, or stays.
Released(t, u, a) ==
    \A q \in Rows : q # t.assignment[a].row =>
        \/ u.row[q] = t.row[q]
        \/ t.row[q].driver = t.assignment[a].driver /\ u.row[q].decision \in Terminal

\* The driver confirms, or the confirmation fails: other offers are released.
LEMMA Answering ==
    ASSUME NEW S, NEW L, NEW t, NEW u, Good(t, S, L), NEW a \in Made(t), Alike(t, u),
           OnlyJob(t, u, a), t.assignment[a].driver \notin L => a \in Live(t),
           Released(t, u, a),
           \/ /\ u.assignment[a] = t.assignment[a]
              /\ u.row[t.assignment[a].row] = t.row[t.assignment[a].row]
           \/ /\ u.assignment[a].status = "confirmed_by_driver"
              /\ u.row[t.assignment[a].row].decision = AcceptedByShipper
    PROVE  Good(u, S, L)
<1> DEFINE r == t.assignment[a].row
<1>1. Facts(u) /\ Akin(t, u) /\ Facts(t)
  BY Kept DEF Good
<1>2. /\ r \in Rows /\ (RowCounts(t, S, L, r) => Counts(t, S, L, a))
      /\ t.row[r].driver = t.assignment[a].driver
  BY OnRow
<1>3. /\ Live(u) \subseteq Made(t) /\ Made(t) \subseteq Assignments /\ Made(u) = Made(t)
      /\ Live(t) \subseteq Made(t)
  BY <1>1 DEF Live, Made, Akin
<1>4. \A b \in Made(t) : b # a => u.assignment[b] = t.assignment[b] /\ (b \in Live(u) <=> b \in Live(t))
  BY <1>3 DEF OnlyJob, Live
<1>5. \/ u.assignment[a] = t.assignment[a] /\ u.row[r] = t.row[r]
      \/ u.assignment[a].status = "confirmed_by_driver" /\ u.row[r].decision = AcceptedByShipper
  OBVIOUS
<1>6. NoneBack(t, u, L)
  <2>1. ASSUME NEW b \in Made(t), t.assignment[b].driver \notin L
        PROVE  /\ b \in Live(u) => b \in Live(t)
               /\ u.assignment[b].status \in Pending => t.assignment[b].status \in Pending
               /\ t.assignment[b].status = "completed" => u.assignment[b].status = "completed"
    <3>1. CASE b # a
      BY <1>4, <3>1
    <3>2. CASE b = a
      <4>1. a \in Live(t) /\ t.assignment[a].status \notin Ended
        BY <2>1, <3>2 DEF Live
      <4> QED BY <1>5, <3>2, <4>1, EndedWords
    <3> QED BY <3>1, <3>2
  <2> QED BY <2>1 DEF NoneBack
<1>7. ASSUME NEW b \in Live(t), a \in Live(t), Counts(t, S, L, a),
             t.row[t.assignment[b].row].driver = t.assignment[a].driver
      PROVE  b = a
  <2>1. t.assignment[b].driver = t.assignment[a].driver
    BY <1>1, <1>3, <1>7 DEF Facts, Linked
  <2> QED BY <1>7, <2>1, OnlyOne
<1>8. ASSUME RowCounts(t, S, L, r) PROVE Stays(t, u, r) \/ GoesOn(t, u, r)
  <2>1. Counts(t, S, L, a) /\ a \in Live(t)
    BY <1>2, <1>8 DEF RowCounts
  <2>2. CASE u.assignment[a] = t.assignment[a] /\ u.row[r] = t.row[r]
    <3>1. \A b \in Made(t) : u.assignment[b] = t.assignment[b]
      BY <1>4, <2>2
    <3> QED BY <1>3, <2>2, <3>1, Untouched
  <2>3. CASE u.assignment[a].status = "confirmed_by_driver" /\ u.row[r].decision = AcceptedByShipper
    <3>1. Serves(u, a, r) /\ a \in Assignments
      BY <1>1, <1>3, <2>3, EndedWords DEF Serves, Akin
    <3>2. ASSUME NEW b \in PendingOn(u, r) PROVE FALSE
      <4>1. b \in Live(u) /\ u.assignment[b].row = r /\ u.assignment[b].status \in Pending
        BY DEF PendingOn, LiveOn
      <4>2. b # a /\ b \in Made(t)
        BY <1>3, <2>3, <4>1, EndedWords
      <4>3. b \in Live(t) /\ t.assignment[b].row = r
        BY <1>4, <4>1, <4>2
      <4> QED BY <1>2, <1>7, <2>1, <4>2, <4>3
    <3> QED BY <2>3, <3>1, <3>2, EngagedWords DEF GoesOn
  <2> QED BY <1>5, <2>2, <2>3
<1>9. ASSUME NEW q \in Rows, q # r, RowCounts(t, S, L, q), t.row[q].order # None
      PROVE  Stays(t, u, q) \/ IsOver(u, q)
  <2>1. CASE u.row[q] = t.row[q]
    <3>1. \A b \in Made(t) : t.assignment[b].row = q => u.assignment[b] = t.assignment[b]
      BY <1>4, <1>9
    <3> QED BY <1>3, <2>1, <3>1, Untouched
  <2>2. CASE t.row[q].driver = t.assignment[a].driver /\ u.row[q].decision \in Terminal
    <3>1. ASSUME NEW b \in PendingOn(u, q) PROVE FALSE
      <4>1. b \in Live(u) /\ u.assignment[b].row = q /\ b \in Made(t)
        BY <1>3 DEF PendingOn, LiveOn
      <4>2. b # a
        BY <1>1, <1>9, <4>1 DEF Akin
      <4>3. b \in Live(t) /\ t.assignment[b].row = q
        BY <1>4, <4>1, <4>2
      <4>4. t.assignment[b].driver = t.assignment[a].driver /\ t.assignment[a].driver \notin L
        BY <1>1, <1>9, <2>2, <4>1, <4>3 DEF Facts, Linked, RowCounts
      <4>5. a \in Live(t)
        BY <4>4
      <4>6. Counts(t, S, L, b)
        BY <1>9, <4>1, <4>3, OnRow
      <4>7. a = b
        BY <4>3, <4>4, <4>5, <4>6, OnlyOne
      <4> QED BY <4>2, <4>7
    <3> QED BY <2>2, <3>1 DEF IsOver
  <2> QED BY <1>9, <2>1, <2>2 DEF Released
<1>10. Moves(t, u, S, L)
  BY <1>8, <1>9 DEF Moves
<1> QED BY <1>1, <1>6, <1>10, Follows

\* The driver moves on, with the assignment and the request.
LEMMA Advancing ==
    ASSUME NEW S, NEW L, NEW t, NEW u, Good(t, S, L), NEW a \in Made(t), Alike(t, u),
           OnlyJob(t, u, a), t.assignment[a].driver \notin L => a \in Live(t),
           u.assignment[a].status \in Progress,
           OnlyRow(t, u, t.assignment[a].row),
           u.row[t.assignment[a].row].decision = t.row[t.assignment[a].row].decision
    PROVE  Good(u, S, L)
<1> DEFINE r == t.assignment[a].row
<1>1. Facts(u) /\ Akin(t, u) /\ Facts(t)
  BY Kept DEF Good
<1>2. /\ r \in Rows /\ (RowCounts(t, S, L, r) => Counts(t, S, L, a))
      /\ t.row[r].driver = t.assignment[a].driver
  BY OnRow
<1>3. /\ Live(u) \subseteq Made(t) /\ Made(t) \subseteq Assignments /\ Made(u) = Made(t)
      /\ Live(t) \subseteq Made(t)
  BY <1>1 DEF Live, Made, Akin
<1>4. \A b \in Made(t) : b # a => u.assignment[b] = t.assignment[b] /\ (b \in Live(u) <=> b \in Live(t))
  BY <1>3 DEF OnlyJob, Live
<1>5. u.assignment[a].status \notin Freeing \cup Pending
  BY EndedWords DEF Progress, Freeing, ByDriver, Pending
<1>6. NoneBack(t, u, L)
  <2>1. ASSUME NEW b \in Made(t), t.assignment[b].driver \notin L
        PROVE  /\ b \in Live(u) => b \in Live(t)
               /\ u.assignment[b].status \in Pending => t.assignment[b].status \in Pending
               /\ t.assignment[b].status = "completed" => u.assignment[b].status = "completed"
    <3>1. CASE b # a
      BY <1>4, <3>1
    <3>2. CASE b = a
      <4>1. a \in Live(t) /\ t.assignment[a].status \notin Ended
        BY <2>1, <3>2 DEF Live
      <4> QED BY <1>5, <3>2, <4>1, EndedWords
    <3> QED BY <3>1, <3>2
  <2> QED BY <2>1 DEF NoneBack
<1>7. \A b \in Made(t) : u.assignment[b].row = t.assignment[b].row
                         /\ (t.assignment[b].status \notin Freeing => u.assignment[b].status \notin Freeing)
  BY <1>1, <1>4, <1>5 DEF Akin
<1>8. ASSUME RowCounts(t, S, L, r) PROVE Stays(t, u, r)
  <2>1. Counts(t, S, L, a) /\ a \in Live(t)
    BY <1>2, <1>8 DEF RowCounts
  <2>2. t.row[r].decision # CancelledBeforeAccept
    BY <2>1, EngagedWords DEF Good, LiveDecided
  <2> QED BY <1>3, <1>7, <2>2 DEF Stays, Serves
<1>9. ASSUME NEW q \in Rows, q # r PROVE Stays(t, u, q)
  <2>1. u.row[q] = t.row[q]
    BY <1>9 DEF OnlyRow
  <2> QED BY <1>3, <1>7, <2>1, Untouched
<1>10. Moves(t, u, S, L)
  BY <1>8, <1>9 DEF Moves
<1> QED BY <1>1, <1>6, <1>10, Follows

\* The driver gives up a request and what it serves.
LEMMA GivingUp ==
    ASSUME NEW S, NEW L, NEW t, NEW u, Good(t, S, L), NEW r \in Rows, Alike(t, u), OnlyRow(t, u, r),
           t.row[r].order # None =>
              \/ u.row[r].decision \in Terminal
              \/ u.row[r].decision = CancelledBeforeAccept /\ u.row[r].status = CancelledBeforeAccept,
           \A b \in Assignments :
              IF b \in Made(t) /\ t.assignment[b].row = r /\ t.assignment[b].status \notin Ended
              THEN u.assignment[b].status \in Ended
              ELSE u.assignment[b] = t.assignment[b]
    PROVE  Good(u, S, L)
<1>1. Facts(u) /\ Akin(t, u) /\ Facts(t)
  BY Kept DEF Good
<1>2. /\ Live(u) \subseteq Made(t) /\ Made(t) \subseteq Assignments /\ Made(u) = Made(t)
  BY <1>1 DEF Live, Made, Akin
<1>3. ASSUME NEW b \in Made(t)
      PROVE  /\ t.assignment[b].row # r => u.assignment[b] = t.assignment[b]
             /\ t.assignment[b].row = r => u.assignment[b].status \in Ended
             /\ \/ u.assignment[b] = t.assignment[b]
                \/ u.assignment[b].status \in Ended /\ t.assignment[b].status \notin Ended
             /\ u.assignment[b].row = t.assignment[b].row
  BY <1>1, <1>2 DEF Akin
<1>4. NoneBack(t, u, L)
  <2>1. ASSUME NEW b \in Made(t)
        PROVE  /\ b \in Live(u) => b \in Live(t)
               /\ u.assignment[b].status \in Pending => t.assignment[b].status \in Pending
               /\ t.assignment[b].status = "completed" => u.assignment[b].status = "completed"
    <3>1. CASE u.assignment[b] = t.assignment[b]
      BY <3>1 DEF Live
    <3>2. CASE u.assignment[b].status \in Ended /\ t.assignment[b].status \notin Ended
      BY <3>2, EndedWords DEF Live
    <3> QED BY <1>3, <3>1, <3>2
  <2> QED BY <2>1 DEF NoneBack
<1>5. ASSUME t.row[r].order # None PROVE IsOver(u, r)
  <2>1. LiveOn(u, r) = {}
    BY <1>2, <1>3 DEF LiveOn, Live
  <2>2. PendingOn(u, r) = {}
    BY <2>1 DEF PendingOn
  <2> QED BY <1>5, <2>1, <2>2 DEF IsOver
<1>6. ASSUME NEW q \in Rows, q # r PROVE Stays(t, u, q)
  <2>1. u.row[q] = t.row[q]
    BY <1>6 DEF OnlyRow
  <2>2. \A b \in Made(t) : t.assignment[b].row = q => u.assignment[b] = t.assignment[b]
    BY <1>3, <1>6
  <2> QED BY <1>2, <2>1, <2>2, Untouched
<1>7. Moves(t, u, S, L)
  BY <1>5, <1>6 DEF Moves
<1> QED BY <1>1, <1>4, <1>7, Follows

\* A request that holds its driver goes on, and its assignments may be completed.
LEMMA Driving ==
    ASSUME NEW S, NEW L, NEW t, NEW u, Good(t, S, L), NEW r \in Rows, Alike(t, u), OnlyRow(t, u, r),
           ~t.row[r].deleted, t.row[r].decision \in Engaged \ {Requested},
           u.row[r].decision \in Engaged \cup {JourneyCompleted},
           \A b \in Assignments : \/ u.assignment[b] = t.assignment[b]
                                  \/ b \in Made(t) /\ u.assignment[b].status = "completed"
    PROVE  Good(u, S, L)
<1>1. Facts(u) /\ Akin(t, u) /\ Facts(t)
  BY Kept DEF Good
<1>2. /\ Live(u) \subseteq Made(t) /\ Made(t) \subseteq Assignments /\ Made(u) = Made(t)
  BY <1>1 DEF Live, Made, Akin
<1>3. ASSUME NEW b \in Made(t)
      PROVE  /\ u.assignment[b].row = t.assignment[b].row
             /\ t.assignment[b].status \notin Freeing => u.assignment[b].status \notin Freeing
             /\ b \in Live(u) => b \in Live(t)
             /\ u.assignment[b].status \in Pending => t.assignment[b].status \in Pending
             /\ t.assignment[b].status = "completed" => u.assignment[b].status = "completed"
  <2>1. u.assignment[b].row = t.assignment[b].row
    BY <1>1 DEF Akin
  <2>2. CASE u.assignment[b] = t.assignment[b]
    BY <2>1, <2>2 DEF Live
  <2>3. CASE u.assignment[b].status = "completed"
    BY <2>1, <2>3, EndedWords DEF Live
  <2> QED BY <1>2, <2>2, <2>3
<1>4. NoneBack(t, u, L)
  BY <1>3 DEF NoneBack
<1>5. ASSUME RowCounts(t, S, L, r), t.row[r].order # None PROVE GoesOn(t, u, r)
  <2>1. ASSUME u.row[r].decision \in Engaged, u.row[r].order \in Slots
        PROVE  \E a \in Assignments : Serves(u, a, r)
    <3>1. t.row[r].order \in Slots
      BY <1>1, <2>1 DEF Akin
    <3>2. PICK a \in Assignments : Serves(t, a, r)
      BY <1>5, <3>1 DEF Good, Held
    <3> QED BY <1>2, <1>3, <3>2 DEF Serves
  <2> QED BY <2>1 DEF GoesOn
<1>6. ASSUME NEW q \in Rows, q # r PROVE Stays(t, u, q)
  <2>1. u.row[q] = t.row[q]
    BY <1>6 DEF OnlyRow
  <2> QED BY <1>2, <1>3, <2>1, Untouched
<1>7. Moves(t, u, S, L)
  BY <1>5, <1>6 DEF Moves
<1> QED BY <1>1, <1>4, <1>7, Follows

\* A driver who takes an order of the street gives back what was not answered.
LEMMA GivingBack ==
    ASSUME NEW S, NEW L, NEW t, NEW u, Good(t, S, L), NEW r \in Rows, Alike(t, u),
           NEW given, given \subseteq Live(t),
           \A a \in given : t.assignment[a].status \in Pending,
           t.row[r].order \in Street, u.row[r].decision \in Engaged,
           \A b \in Assignments : IF b \in given THEN u.assignment[b].status = "cancelled_by_driver"
                                  ELSE u.assignment[b] = t.assignment[b],
           \A q \in Rows : q # r =>
              IF \E a \in given : t.assignment[a].row = q
              THEN u.row[q].decision = IF t.row[q].decision \in {Waiting, Requested}
                                       THEN CancelledAfterAccept ELSE t.row[q].decision
              ELSE u.row[q] = t.row[q]
    PROVE  Good(u, S, L)
<1>1. Facts(u) /\ Akin(t, u) /\ Facts(t)
  BY Kept DEF Good
<1>2. /\ Live(u) \subseteq Made(t) /\ Made(t) \subseteq Assignments /\ Made(u) = Made(t)
      /\ Live(t) \subseteq Made(t)
  BY <1>1 DEF Live, Made, Akin
<1>3. ASSUME NEW b \in Made(t)
      PROVE  /\ u.assignment[b].row = t.assignment[b].row
             /\ b \in Live(u) => b \in Live(t)
             /\ u.assignment[b].status \in Pending => t.assignment[b].status \in Pending
             /\ t.assignment[b].status = "completed" => u.assignment[b].status = "completed"
  <2>1. u.assignment[b].row = t.assignment[b].row
    BY <1>1 DEF Akin
  <2>2. CASE b \notin given
    BY <1>2, <2>1, <2>2 DEF Live
  <2>3. CASE b \in given
    <3>1. b \in Live(t) /\ t.assignment[b].status \in Pending
      BY <2>3
    <3> QED BY <2>1, <3>1, EndedWords
  <2> QED BY <2>2, <2>3
<1>4. NoneBack(t, u, L)
  BY <1>3 DEF NoneBack
<1>5. GoesOn(t, u, r)
  <2>1. u.row[r].order \notin Slots
    BY <1>1, ContractAssumption DEF Akin
  <2>2. PendingOn(u, r) = {}
    BY <1>1, <1>2, <2>1 DEF PendingOn, LiveOn, Facts, Linked
  <2> QED BY <2>1, <2>2 DEF GoesOn
<1>6. ASSUME NEW q \in Rows, q # r, RowCounts(t, S, L, q), t.row[q].order # None
      PROVE  Stays(t, u, q) \/ IsOver(u, q)
  <2>1. CASE \A a \in given : t.assignment[a].row # q
    <3>1. u.row[q] = t.row[q]
      BY <1>6, <2>1
    <3>2. \A b \in Made(t) : t.assignment[b].row = q => u.assignment[b] = t.assignment[b]
      BY <1>2, <2>1
    <3> QED BY <1>2, <3>1, <3>2, Untouched
  <2>2. ASSUME NEW a \in given, t.assignment[a].row = q PROVE Stays(t, u, q) \/ IsOver(u, q)
    <3>1. a \in Live(t) /\ a \in Made(t) /\ t.assignment[a].status \in Pending
      BY <1>2
    <3>2. Counts(t, S, L, a)
      BY <1>6, <2>2, <3>1, OnRow
    <3>3. t.row[q].decision \in Spoken \ Terminal
      BY <2>2, <3>1, <3>2 DEF Good, LiveDecided
    <3>4. u.row[q].decision = IF t.row[q].decision \in {Waiting, Requested}
                              THEN CancelledAfterAccept ELSE t.row[q].decision
      BY <1>6, <2>2
    <3>5. CASE t.row[q].decision = Requested
      <4>1. u.row[q].decision \in Terminal
        BY <3>4, <3>5, EngagedWords
      <4>2. ASSUME NEW b \in PendingOn(u, q) PROVE FALSE
        <5>1. b \in Live(u) /\ u.assignment[b].row = q /\ u.assignment[b].status \in Pending
          BY DEF PendingOn, LiveOn
        <5>2. b \in Made(t) /\ t.assignment[b].row = q /\ b \in Live(t)
          BY <1>2, <1>3, <5>1
        <5>3. t.assignment[b].driver = t.assignment[a].driver
          BY <1>1, <2>2, <3>1, <5>2 DEF Facts, Linked
        <5>4. b = a
          BY <3>1, <3>2, <5>2, <5>3, OnlyOne
        <5>5. u.assignment[a].status = "cancelled_by_driver"
          BY <1>2, <3>1
        <5> QED BY <5>1, <5>4, <5>5 DEF Pending
      <4> QED BY <4>1, <4>2 DEF IsOver
    <3>6. CASE t.row[q].decision # Requested
      <4>1. u.row[q].decision = t.row[q].decision
        BY <3>3, <3>4, <3>6, EngagedWords
      <4>2. u.row[q].decision # CancelledBeforeAccept
        BY <3>3, <4>1, EngagedWords
      <4>3. ASSUME u.row[q].decision \in Engaged
            PROVE  \E b \in Assignments : Serves(u, b, q)
        <5>1. PICK b \in Assignments : Done(t, b, q)
          BY <2>2, <3>1, <3>2, <3>6, <4>1, <4>3 DEF Good, TakenUp
        <5> QED BY <1>2, <1>3, <5>1, EndedWords DEF Done, Serves
      <4> QED BY <4>1, <4>2, <4>3 DEF Stays
    <3> QED BY <3>5, <3>6
  <2> QED BY <2>1, <2>2
<1>7. Moves(t, u, S, L)
  BY <1>5, <1>6 DEF Moves
<1> QED BY <1>1, <1>4, <1>7, Follows

\* The shipper calls some orders off, with what was not answered.
LEMMA CallingOff ==
    ASSUME NEW S, NEW L, NEW t, NEW u, Good(t, S, L), Alike(t, u), NEW gone,
           \A b \in Assignments :
              IF t.assignment[b].order \in gone /\ t.assignment[b].status \in Pending
              THEN u.assignment[b].status = "cancelled_by_shipper"
              ELSE u.assignment[b] = t.assignment[b],
           \A q \in Rows : IF t.row[q].order \in gone THEN u.row[q].decision \in Terminal
                           ELSE u.row[q] = t.row[q]
    PROVE  Good(u, S, L)
<1>1. Facts(u) /\ Akin(t, u) /\ Facts(t)
  BY Kept DEF Good
<1>2. /\ Live(u) \subseteq Made(t) /\ Made(t) \subseteq Assignments /\ Made(u) = Made(t)
  BY <1>1 DEF Live, Made, Akin
<1>3. "cancelled_by_shipper" \in Ended /\ "cancelled_by_shipper" \notin Pending
  BY DEF Ended, Freeing, Pending
<1>4. ASSUME NEW b \in Made(t)
      PROVE  /\ u.assignment[b].row = t.assignment[b].row
             /\ b \in Live(u) => b \in Live(t)
             /\ u.assignment[b].status \in Pending => t.assignment[b].status \in Pending
             /\ t.assignment[b].status = "completed" => u.assignment[b].status = "completed"
  <2>1. u.assignment[b].row = t.assignment[b].row
    BY <1>1 DEF Akin
  <2>2. CASE u.assignment[b] = t.assignment[b]
    BY <1>2, <2>1, <2>2 DEF Live
  <2>3. CASE u.assignment[b] # t.assignment[b]
    <3>1. u.assignment[b].status = "cancelled_by_shipper" /\ t.assignment[b].status \in Pending
      BY <1>2, <2>3
    <3> QED BY <1>3, <2>1, <3>1, EndedWords DEF Live
  <2> QED BY <2>2, <2>3
<1>5. NoneBack(t, u, L)
  BY <1>4 DEF NoneBack
<1>6. ASSUME NEW q \in Rows PROVE Stays(t, u, q) \/ IsOver(u, q)
  <2>1. \A b \in Made(t) : t.assignment[b].row = q => t.assignment[b].order = t.row[q].order
    BY <1>1 DEF Facts, Linked
  <2>2. CASE t.row[q].order \in gone
    <3>1. ASSUME NEW b \in PendingOn(u, q) PROVE FALSE
      <4>1. u.assignment[b].row = q /\ u.assignment[b].status \in Pending /\ b \in Made(t)
        BY <1>2 DEF PendingOn, LiveOn
      <4>2. t.assignment[b].row = q /\ t.assignment[b].status \in Pending
        BY <1>4, <4>1
      <4>3. u.assignment[b].status = "cancelled_by_shipper"
        BY <1>2, <2>1, <2>2, <4>1, <4>2
      <4> QED BY <1>3, <4>1, <4>3
    <3> QED BY <2>2, <3>1 DEF IsOver
  <2>3. CASE t.row[q].order \notin gone
    <3>1. u.row[q] = t.row[q]
      BY <2>3
    <3>2. \A b \in Made(t) : t.assignment[b].row = q => u.assignment[b] = t.assignment[b]
      BY <1>2, <2>1, <2>3
    <3> QED BY <1>2, <3>1, <3>2, Untouched
  <2> QED BY <2>2, <2>3
<1>7. Moves(t, u, S, L)
  BY <1>6 DEF Moves
<1> QED BY <1>1, <1>5, <1>7, Follows

-----------------------------------------------------------------------------
(***************************************************************************)
(* What the calls write.                                                   *)
(***************************************************************************)
Ends(x, status) == [x EXCEPT !.status = status]
Deleted(x) == [x EXCEPT !.deleted = TRUE]
PutFleet(t, d, status) == [t EXCEPT !.fleet[d] = status]

AssignmentWords == {"none", "confirmed_by_driver"} \cup Pending \cup Progress \cup Ended

\* The fields of an assignment whose status was written.
LEMMA JobEnds ==
    ASSUME NEW x \in AssignmentType, NEW status \in AssignmentWords
    PROVE  /\ Ends(x, status) \in AssignmentType /\ Ends(x, status).status = status
           /\ Ends(x, status).driver = x.driver /\ Ends(x, status).order = x.order
           /\ Ends(x, status).row = x.row /\ Ends(x, status).deleted = x.deleted
BY DEF AssignmentType, Ends, AssignmentWords

\* The fields of a deleted assignment.
LEMMA JobDeleted ==
    ASSUME NEW x \in AssignmentType
    PROVE  /\ Deleted(x) \in AssignmentType /\ Deleted(x).status = x.status
           /\ Deleted(x).driver = x.driver /\ Deleted(x).order = x.order
           /\ Deleted(x).row = x.row /\ Deleted(x).deleted
BY DEF AssignmentType, Deleted

\* Writing a vehicle changes nothing else.
LEMMA ChangedFleet ==
    ASSUME NEW t \in TablesType, NEW d, NEW status \in {"active", "inactive"},
           NEW u, u = PutFleet(t, d, status)
    PROVE  u \in TablesType /\ u.row = t.row /\ u.assignment = t.assignment /\ u.order = t.order
BY DEF PutFleet, TablesType

\* Set writes one row.
LEMMA SetIs ==
    ASSUME NEW t \in TablesType, NEW r \in Rows, NEW status
    PROVE  Set(t, r, status) = PutRow(t, r, Both(t.row[r], status))
BY DEF TablesType, Set, PutRow, Both, WithStatus, WithDecision

\* EndAssignment writes one assignment.
LEMMA EndIs ==
    ASSUME NEW t \in TablesType, NEW a \in Assignments, NEW status
    PROVE  EndAssignment(t, a, status) = PutAssignment(t, a, Ends(t.assignment[a], status))
BY DEF TablesType, EndAssignment, PutAssignment, Ends

\* One request and one assignment are written.
Wrote(t, u, a, word, r, status) ==
    /\ u \in TablesType /\ OnlyJob(t, u, a) /\ u.assignment[a] = Ends(t.assignment[a], word)
    /\ OnlyRow(t, u, r) /\ u.row[r] = Both(t.row[r], status)

\* Ending an assignment and its request writes one of each.
LEMMA SetEnd ==
    ASSUME NEW t \in TablesType, NEW a \in Assignments, NEW word \in AssignmentWords,
           NEW r \in Rows, NEW status \in Statuses,
           NEW u, u = Set(EndAssignment(t, a, word), r, status)
    PROVE  Wrote(t, u, a, word, r, status)
<1>1. t.assignment[a] \in AssignmentType /\ t.row[r] \in RowType
  BY Shape
<1>2. PICK x : x = Ends(t.assignment[a], word)
  OBVIOUS
<1>3. PICK v : v = EndAssignment(t, a, word)
  OBVIOUS
<1>4. x \in AssignmentType
  BY <1>1, <1>2, JobEnds
<1>5. v = PutAssignment(t, a, x)
  BY <1>2, <1>3, EndIs
<1>6. /\ v \in TablesType /\ v.row = t.row /\ v.assignment[a] = x
      /\ \A b \in Assignments : b # a => v.assignment[b] = t.assignment[b]
  BY <1>4, <1>5, ChangedAssignment
<1>7. PICK y : y = Both(t.row[r], status)
  OBVIOUS
<1>8. y \in RowType
  BY <1>1, <1>7, BothFields
<1>9. u = PutRow(v, r, y)
  BY <1>3, <1>6, <1>7, SetIs
<1>10. /\ u \in TablesType /\ u.assignment = v.assignment /\ u.row[r] = y
       /\ \A q \in Rows : q # r => u.row[q] = v.row[q]
  BY <1>6, <1>8, <1>9, ChangedRow
<1> QED BY <1>2, <1>6, <1>7, <1>10 DEF Wrote, OnlyJob, OnlyRow

\* What was written keeps drivers and orders as they were.
LEMMA WroteAlike ==
    ASSUME NEW t, Facts(t), NEW a \in Made(t), NEW word \in AssignmentWords \ {"none"},
           word \in Ended \/ ~t.assignment[a].deleted,
           NEW status \in Statuses \ {NoStatus},
           NEW u, Wrote(t, u, a, word, t.assignment[a].row, status)
    PROVE  /\ Alike(t, u) /\ OnlyJob(t, u, a) /\ OnlyRow(t, u, t.assignment[a].row)
           /\ u.assignment[a].status = word
           /\ u.row[t.assignment[a].row].decision = status
           /\ u.row[t.assignment[a].row].status = status
<1> DEFINE r == t.assignment[a].row
<1>1. /\ t \in TablesType /\ a \in Assignments /\ r \in Rows
      /\ t.row[r].driver # None /\ t.row[r].order # None
  BY ContractAssumption DEF Facts, Linked, Made
<1>2. t.assignment[a] \in AssignmentType /\ t.row[r] \in RowType
  BY <1>1, Shape
<1>3. /\ u.assignment[a].status = word /\ u.assignment[a].driver = t.assignment[a].driver
      /\ u.assignment[a].order = t.assignment[a].order /\ u.assignment[a].row = r
      /\ u.assignment[a].deleted = t.assignment[a].deleted
  BY <1>2, JobEnds DEF Wrote
<1>4. /\ u.row[r].decision = status /\ u.row[r].status = status
      /\ u.row[r].driver = t.row[r].driver /\ u.row[r].order = t.row[r].order
      /\ u.row[r].deleted = t.row[r].deleted
  BY <1>2, BothFields DEF Wrote
<1>5. RowsAlike(t, u)
  BY <1>1, <1>4 DEF RowsAlike, Wrote, OnlyRow
<1>6. JobsAlike(t, u)
  BY <1>1, <1>3 DEF JobsAlike, Wrote, OnlyJob
<1> QED BY <1>3, <1>4, <1>5, <1>6 DEF Wrote, Alike

\* A refusal, or a cancellation: the assignment and its decision end.
LEMMA WroteEnd ==
    ASSUME NEW S, NEW L, NEW t, Good(t, S, L), NEW a \in Made(t),
           t.assignment[a].driver \notin L => a \in Live(t),
           NEW word \in Ended, NEW status \in Terminal \cup {CancelledBeforeAccept},
           NEW u, u = Set(EndAssignment(t, a, word), t.assignment[a].row, status)
    PROVE  Good(u, S, L) /\ Wrote(t, u, a, word, t.assignment[a].row, status)
<1> DEFINE r == t.assignment[a].row
<1>1. Facts(t) /\ t \in TablesType /\ a \in Assignments /\ r \in Rows
  BY DEF Good, Facts, Linked, Made
<1>2. word \in AssignmentWords \ {"none"} /\ status \in Statuses \ {NoStatus}
  BY EndedWords, Words DEF AssignmentWords
<1>3. Wrote(t, u, a, word, r, status)
  BY <1>1, <1>2, SetEnd
<1>4. /\ Alike(t, u) /\ OnlyJob(t, u, a) /\ OnlyRow(t, u, r)
      /\ u.assignment[a].status = word
      /\ u.row[r].decision = status /\ u.row[r].status = status
  BY <1>1, <1>2, <1>3, WroteAlike
<1>5. Good(u, S, L)
  BY <1>4, Ending
<1> QED BY <1>3, <1>5

-----------------------------------------------------------------------------
\* Recalling, deleting.
LEMMA RecallIs ==
    ASSUME NEW t \in TablesType, NEW a \in Assignments, NEW v,
           v = Set(EndAssignment(t, a, "cancelled_by_company"), t.assignment[a].row, CancelledByAdmin),
           v \in TablesType, t.assignment[a].order \in Orders
    PROVE  \E status \in Statuses :
              Recall(t, a) = PutFleet(PutOrder(v, t.assignment[a].order, status),
                                      t.assignment[a].driver, "inactive")
<1> DEFINE o == t.assignment[a].order
           reverted == IF mode = "target" THEN AcceptedByShipper ELSE Waiting
           status == IF v.order[o] \in Underway THEN reverted ELSE v.order[o]
<1>1. v.order[o] \in Statuses
  BY DEF TablesType
<1>2. status \in Statuses
  BY <1>1, Words
<1>3. Recall(t, a) = PutFleet(PutOrder(v, o, status), t.assignment[a].driver, "inactive")
  BY DEF Recall, PutFleet, PutOrder, TablesType
<1> QED BY <1>2, <1>3

\* Recalling an assignment that is live keeps the invariant and ends it.
LEMMA Recalled ==
    ASSUME NEW S, NEW L, NEW t, Good(t, S, L), NEW a \in Live(t), NEW u, u = Recall(t, a)
    PROVE  /\ Good(u, S, L) /\ OnlyJob(t, u, a) /\ u.assignment[a].status \in Ended
           /\ Made(u) = Made(t) /\ Unused(u) = Unused(t)
<1>1. /\ Facts(t) /\ t \in TablesType /\ a \in Made(t) /\ a \in Assignments
      /\ t.assignment[a].row \in Rows /\ t.assignment[a].order \in Orders
  BY DEF Good, Facts, Linked, Live, Made, Orders
<1>2. PICK v : v = Set(EndAssignment(t, a, "cancelled_by_company"), t.assignment[a].row, CancelledByAdmin)
  OBVIOUS
<1>3. "cancelled_by_company" \in Ended /\ CancelledByAdmin \in Terminal
  BY EngagedWords DEF Ended, Freeing
<1>4. Good(v, S, L) /\ Wrote(t, v, a, "cancelled_by_company", t.assignment[a].row, CancelledByAdmin)
  BY <1>1, <1>2, <1>3, WroteEnd
<1>5. v \in TablesType
  BY <1>4 DEF Wrote
<1>6. PICK status \in Statuses :
          u = PutFleet(PutOrder(v, t.assignment[a].order, status), t.assignment[a].driver, "inactive")
  BY <1>1, <1>2, <1>5, RecallIs
<1>7. PICK w : w = PutOrder(v, t.assignment[a].order, status)
  OBVIOUS
<1>8. w \in TablesType /\ w.row = v.row /\ w.assignment = v.assignment
  BY <1>5, <1>7, ChangedOrder
<1>9. u \in TablesType /\ u.row = v.row /\ u.assignment = v.assignment
  BY <1>6, <1>7, <1>8, ChangedFleet
<1>10. Good(u, S, L)
  BY <1>4, <1>9, Unmoved
<1>11. t.assignment[a] \in AssignmentType /\ t.row[t.assignment[a].row] \in RowType
  BY <1>1, Shape
<1>12. "cancelled_by_company" \in AssignmentWords /\ CancelledByAdmin \in Statuses
  BY <1>3, Words DEF AssignmentWords
<1>13. OnlyJob(t, u, a) /\ u.assignment[a].status = "cancelled_by_company"
  BY <1>4, <1>9, <1>11, <1>12, JobEnds DEF Wrote, OnlyJob
<1>14. Made(u) = Made(t)
  BY <1>1, <1>13 DEF Made, OnlyJob
<1>15. u.row[t.assignment[a].row].driver = t.row[t.assignment[a].row].driver
  BY <1>4, <1>9, <1>11, <1>12, BothFields DEF Wrote
<1>16. Unused(u) = Unused(t)
  BY <1>4, <1>9, <1>15 DEF Unused, Wrote, OnlyRow
<1> QED BY <1>3, <1>10, <1>13, <1>14, <1>16

\* Deleting writes one assignment.
LEMMA DeleteIs ==
    ASSUME NEW t \in TablesType, NEW a \in Assignments
    PROVE  [t EXCEPT !.assignment[a].deleted = TRUE] = PutAssignment(t, a, Deleted(t.assignment[a]))
BY DEF TablesType, PutAssignment, Deleted

\* Deleting an assignment that is over keeps the invariant.
LEMMA DeletedOver ==
    ASSUME NEW S, NEW L, NEW t, Good(t, S, L), NEW a \in Made(t), t.assignment[a].status \in Ended,
           NEW u, u = PutAssignment(t, a, Deleted(t.assignment[a]))
    PROVE  Good(u, S, L)
<1>1. Facts(t) /\ t \in TablesType /\ a \in Assignments
  BY DEF Good, Facts, Made
<1>2. PICK x : x = Deleted(t.assignment[a])
  OBVIOUS
<1>3. t.assignment[a] \in AssignmentType
  BY <1>1, Shape
<1>4. /\ x \in AssignmentType /\ x.status = t.assignment[a].status
      /\ x.driver = t.assignment[a].driver /\ x.order = t.assignment[a].order
      /\ x.row = t.assignment[a].row
  BY <1>2, <1>3, JobDeleted
<1>5. /\ u \in TablesType /\ u.row = t.row /\ u.assignment[a] = x
      /\ \A b \in Assignments : b # a => u.assignment[b] = t.assignment[b]
  BY <1>1, <1>2, <1>4, ChangedAssignment
<1>6. "none" \notin Ended
  BY EndedWords
<1>7. Alike(t, u)
  BY <1>4, <1>5, <1>6 DEF Alike, RowsAlike, JobsAlike
<1>8. OnlyJob(t, u, a)
  BY <1>5 DEF OnlyJob
<1> QED BY <1>4, <1>5, <1>7, <1>8, Deleting

-----------------------------------------------------------------------------
(***************************************************************************)
(* Every call keeps the invariant.                                         *)
(***************************************************************************)
LEMMA Written ==
    ASSUME NEW t \in TablesType
    PROVE  t = [order |-> t.order, row |-> t.row, assignment |-> t.assignment, fleet |-> t.fleet]
BY DEF TablesType

\* A call that is committed with good tables, or rolled back.
LEMMA CommitKeeps ==
    ASSUME IInv, mode' = mode, bid' \in [Companies -> BidStatuses],
           batch' \in {Waiting, AcceptedByShipper, CancelledByShipper, PartiallyCancelled},
           late \subseteq late', late' \subseteq Drivers,
           NEW u, Commit(u), Good(u, shared \cup SharedIn(u), late')
    PROVE  IInv'
<1>1. /\ mode \in Modes /\ Tables \in TablesType /\ shared \subseteq Slots
      /\ Good(Tables, shared, late)
  BY Typed DEF IInv
<1>2. CASE UNCHANGED <<order, row, assignment, fleet, shared>>
  <2>1. Tables' = Tables /\ shared' = shared
    BY <1>2 DEF Tables
  <2>2. Good(Tables, shared, late')
    BY <1>1, Monotone
  <2>3. Good(Tables', shared', late')
    BY <2>1, <2>2
  <2>4. TypeOK'
    BY <1>1, <1>2 DEF TypeOK, IInv
  <2> QED BY <2>3, <2>4 DEF IInv
<1>3. CASE /\ order' = u.order /\ row' = u.row /\ assignment' = u.assignment /\ fleet' = u.fleet
           /\ shared' = shared \cup SharedIn(u)
  <2>1. u \in TablesType
    BY DEF Good, Facts
  <2>2. Tables' = u
    BY <1>3, <2>1, Written DEF Tables
  <2>3. Good(Tables', shared', late')
    BY <1>3, <2>2
  <2>4. shared' \subseteq Slots
    BY <1>1, <1>3 DEF SharedIn
  <2>5. TypeOK'
    BY <1>1, <1>3, <2>1, <2>4 DEF TypeOK, TablesType
  <2> QED BY <2>3, <2>5 DEF IInv
<1> QED BY <1>2, <1>3 DEF Commit

\* The same, for a call that notes nobody.
LEMMA CallKeeps ==
    ASSUME IInv, mode' = mode, bid' \in [Companies -> BidStatuses],
           batch' \in {Waiting, AcceptedByShipper, CancelledByShipper, PartiallyCancelled},
           late' = late, NEW u, Commit(u), Good(u, shared, late)
    PROVE  IInv'
<1>1. shared \subseteq shared \cup SharedIn(u) /\ late \subseteq late /\ late \subseteq Drivers
  BY DEF IInv, TypeOK
<1>2. Good(u, shared \cup SharedIn(u), late)
  BY <1>1, Monotone
<1> QED BY <1>1, <1>2, CommitKeeps

\* A call that writes neither requests nor assignments.
LEMMA AsideKeeps ==
    ASSUME IInv, mode' = mode, bid' \in [Companies -> BidStatuses],
           batch' \in {Waiting, AcceptedByShipper, CancelledByShipper, PartiallyCancelled},
           UNCHANGED <<row, assignment, shared, late>>, order' \in [Orders -> Statuses],
           fleet' \in [Drivers -> {"active", "inactive"}]
    PROVE  IInv'
<1>1. Tables' \in TablesType /\ Tables'.row = Tables.row /\ Tables'.assignment = Tables.assignment
  BY DEF Tables, TablesType, IInv, TypeOK
<1>2. Good(Tables, shared, late)
  BY DEF IInv
<1>3. Good(Tables', shared, late)
  BY <1>1, <1>2, Unmoved
<1>4. Good(Tables', shared', late')
  BY <1>3
<1>5. TypeOK'
  BY DEF IInv, TypeOK
<1> QED BY <1>4, <1>5 DEF IInv

\* What the invariant says of the state.
LEMMA Now ==
    ASSUME IInv
    PROVE  /\ Good(Tables, shared, late) /\ Facts(Tables) /\ Tables \in TablesType
           /\ Tables.row = row /\ Tables.assignment = assignment
           /\ Tables.order = order /\ Tables.fleet = fleet
           /\ bid \in [Companies -> BidStatuses] /\ late \subseteq Drivers
           /\ batch \in {Waiting, AcceptedByShipper, CancelledByShipper, PartiallyCancelled}
BY DEF IInv, Good, Facts, TypeOK, Tables

\* DeleteAssignment keeps the invariant.
LEMMA KeepDelete ==
    ASSUME IInv, NEW a \in Assignments, DeleteAssignment(a)
    PROVE  IInv'
<1>1. /\ a \in Made(Tables) /\ ~assignment[a].deleted
      /\ UNCHANGED <<mode, batch, bid, late>>
  BY DEF DeleteAssignment
<1>2. PICK t : t = IF a \in Live(Tables) THEN Recall(Tables, a) ELSE Tables
  OBVIOUS
<1>3. Commit([t EXCEPT !.assignment[a].deleted = TRUE])
  BY <1>2 DEF DeleteAssignment
<1>4. Good(t, shared, late) /\ a \in Made(t) /\ t.assignment[a].status \in Ended
  <2>1. CASE a \in Live(Tables)
    BY <1>1, <1>2, <2>1, Now, Recalled
  <2>2. CASE a \notin Live(Tables)
    <3>1. t = Tables
      BY <1>2, <2>2
    <3>2. t.assignment[a].status \in Ended
      BY <1>1, <2>2, <3>1, Now DEF Live
    <3> QED BY <1>1, <3>1, <3>2, Now
  <2> QED BY <2>1, <2>2
<1>5. PICK u : u = PutAssignment(t, a, Deleted(t.assignment[a]))
  OBVIOUS
<1>6. t \in TablesType
  BY <1>4 DEF Good, Facts
<1>7. Commit(u)
  BY <1>3, <1>5, <1>6, DeleteIs
<1>8. Good(u, shared, late)
  BY <1>4, <1>5, DeletedOver
<1> QED BY <1>1, <1>7, <1>8, Now, CallKeeps

\* Who answers an assignment that is over does not count from then on.
LEMMA NotedIs ==
    ASSUME IInv, NEW a \in Assignments, Answerable(a), Noted(a)
    PROVE  /\ late \subseteq late' /\ late' \subseteq Drivers
           /\ a \in Made(Tables) /\ ~assignment[a].deleted
           /\ assignment[a].driver \notin late' => a \in Live(Tables)
           /\ Good(Tables, shared, late')
<1>1. a \in Made(Tables) /\ ~assignment[a].deleted
  BY DEF Answerable
<1>2. assignment[a].driver \in Drivers
  BY <1>1, Now DEF Facts, Linked
<1>3. late \subseteq late' /\ late' \subseteq Drivers
  BY <1>2, Now DEF Noted
<1>4. assignment[a].driver \notin late' => a \in Live(Tables)
  BY <1>1, Now DEF Noted, Live
<1>5. Good(Tables, shared, late')
  BY <1>3, Now, Monotone
<1> QED BY <1>1, <1>3, <1>4, <1>5

\* A call that notes a driver, and is committed with tables good for the rest.
LEMMA AnswerKeeps ==
    ASSUME IInv, mode' = mode, bid' \in [Companies -> BidStatuses],
           batch' \in {Waiting, AcceptedByShipper, CancelledByShipper, PartiallyCancelled},
           NEW a \in Assignments, Answerable(a), Noted(a),
           NEW u, Commit(u), Good(u, shared, late')
    PROVE  IInv'
<1>1. Good(u, shared \cup SharedIn(u), late')
  BY Monotone
<1>2. late \subseteq late' /\ late' \subseteq Drivers
  BY NotedIs
<1> QED BY <1>1, <1>2, CommitKeeps

\* CancelAssignment keeps the invariant.
LEMMA KeepCancel ==
    ASSUME IInv, NEW a \in Assignments, CancelAssignment(a)
    PROVE  IInv'
<1>1. Answerable(a) /\ Noted(a) /\ UNCHANGED <<mode, batch, bid>>
  BY DEF CancelAssignment
<1>2. PICK u : u = Set(EndAssignment(Tables, a, "cancelled_by_driver"),
                       Tables.assignment[a].row, CancelledAfterAccept)
  OBVIOUS
<1>3. Commit(u)
  BY <1>2, Now DEF CancelAssignment
<1>4. "cancelled_by_driver" \in Ended /\ CancelledAfterAccept \in Terminal
  BY EngagedWords DEF Ended, Freeing, ByDriver
<1>5. /\ Good(Tables, shared, late') /\ a \in Made(Tables)
      /\ Tables.assignment[a].driver \notin late' => a \in Live(Tables)
  BY <1>1, NotedIs, Now
<1>6. Good(u, shared, late')
  BY <1>2, <1>4, <1>5, WroteEnd
<1> QED BY <1>1, <1>3, <1>6, Now, AnswerKeeps

\* RejectAssignment keeps the invariant.
LEMMA KeepReject ==
    ASSUME IInv, NEW a \in Assignments, RejectAssignment(a)
    PROVE  IInv'
<1>1. Answerable(a) /\ Noted(a) /\ UNCHANGED <<mode, batch, bid>>
  BY DEF RejectAssignment
<1>2. PICK v : v = Set(EndAssignment(Tables, a, "rejected_by_driver"),
                       Tables.assignment[a].row, CancelledBeforeAccept)
  OBVIOUS
<1>3. PICK u : u = RestVehicle(v, a)
  OBVIOUS
<1>4. Commit(u)
  BY <1>2, <1>3, Now DEF RejectAssignment
<1>5. "rejected_by_driver" \in Ended
  BY DEF Ended, Freeing, ByDriver
<1>6. /\ Good(Tables, shared, late') /\ a \in Made(Tables)
      /\ Tables.assignment[a].driver \notin late' => a \in Live(Tables)
  BY <1>1, NotedIs, Now
<1>7. Good(v, shared, late')
  BY <1>2, <1>5, <1>6, WroteEnd
<1>8. Good(u, shared, late')
  <2>1. u = v \/ u = PutFleet(v, v.assignment[a].driver, "inactive")
    BY <1>3 DEF RestVehicle, PutFleet
  <2>2. v \in TablesType
    BY <1>7 DEF Good, Facts
  <2>3. CASE u = PutFleet(v, v.assignment[a].driver, "inactive")
    <3>1. u \in TablesType /\ u.row = v.row /\ u.assignment = v.assignment
      BY <2>2, <2>3, ChangedFleet
    <3> QED BY <1>7, <3>1, Unmoved
  <2> QED BY <1>7, <2>1, <2>3
<1> QED BY <1>1, <1>4, <1>8, Now, AnswerKeeps

\* What a release leaves: the offers of the driver but the one kept are called off.
Releases(t, u, d, kept) ==
    /\ u \in TablesType /\ u.assignment = t.assignment
    /\ \A q \in Rows :
          \/ u.row[q] = t.row[q]
          \/ /\ q # kept /\ t.row[q].driver = d /\ t.row[q].decision \in {Waiting, Requested}
             /\ u.row[q] = Both(t.row[q], CancelledAfterAccept)

\* ReleaseOffers, row by row.
LEMMA ReleasesIs ==
    ASSUME NEW t \in TablesType, NEW d, NEW kept, NEW u, u = ReleaseOffers(t, d, kept)
    PROVE  Releases(t, u, d, kept)
<1> DEFINE offers == {r \in Rows \ {kept} : t.row[r].driver = d
                                            /\ t.row[r].decision \in {Waiting, Requested}}
           ended == [r \in Rows |->
                       IF r \in offers THEN [t.row[r] EXCEPT !.status = CancelledAfterAccept,
                                                             !.decision = CancelledAfterAccept]
                       ELSE t.row[r]]
           Orphan(o) == /\ \E r \in offers : t.row[r].order = o
                        /\ \A r \in Rows : ended[r].order = o =>
                               ended[r].decision \notin {Requested, Agreed, AcceptedByShipper}
           orders == [o \in Orders |-> IF Orphan(o) THEN Waiting ELSE t.order[o]]
<1>1. u = [t EXCEPT !.row = ended, !.order = orders]
  BY DEF ReleaseOffers
<1>2. \A q \in Rows : ended[q] = IF q \in offers THEN Both(t.row[q], CancelledAfterAccept) ELSE t.row[q]
  BY DEF Both, WithStatus, WithDecision
<1>3. CancelledAfterAccept \in Statuses /\ Waiting \in Statuses
  BY Words
<1>4. \A q \in Rows : ended[q] \in RowType
  <2> HIDE DEF ended, offers
  <2>1. ASSUME NEW q \in Rows PROVE ended[q] \in RowType
    <3>1. t.row[q] \in RowType /\ Both(t.row[q], CancelledAfterAccept) \in RowType
      BY <1>3, Shape, BothFields
    <3> QED BY <1>2, <3>1
  <2> QED BY <2>1
<1>5. ended \in [Rows -> RowType]
  <2>1. ended = [q \in Rows |-> ended[q]]
    OBVIOUS
  <2> HIDE DEF ended
  <2> QED BY <1>4, <2>1
<1>6. orders \in [Orders -> Statuses]
  <2>1. \A o \in Orders : t.order[o] \in Statuses
    BY DEF TablesType
  <2> HIDE DEF Orphan
  <2> QED BY <1>3, <2>1
<1>7. \A q \in Rows : \/ ended[q] = t.row[q]
                      \/ /\ q # kept /\ t.row[q].driver = d /\ t.row[q].decision \in {Waiting, Requested}
                         /\ ended[q] = Both(t.row[q], CancelledAfterAccept)
  <2> HIDE DEF ended
  <2> QED BY <1>2
<1> HIDE DEF ended, orders
<1>8. u \in TablesType /\ u.assignment = t.assignment /\ u.row = ended
  BY <1>1, <1>5, <1>6 DEF TablesType
<1> QED BY <1>7, <1>8 DEF Releases

\* A release ends offers of the driver and touches no other request.
LEMMA ReleasedAlike ==
    ASSUME NEW t, Facts(t), NEW d \in Drivers, NEW kept, NEW u, Releases(t, u, d, kept)
    PROVE  /\ RowsAlike(t, u)
           /\ \A q \in Rows : q # kept =>
                 u.row[q] = t.row[q] \/ (t.row[q].driver = d /\ u.row[q].decision \in Terminal)
           /\ kept \in Rows => u.row[kept] = t.row[kept]
<1>1. d # None /\ CancelledAfterAccept \in Terminal /\ CancelledAfterAccept \in Statuses
      /\ CancelledAfterAccept # NoStatus
  BY ContractAssumption, Words
<1>2. ASSUME NEW q \in Rows, u.row[q] = Both(t.row[q], CancelledAfterAccept), q # kept,
             t.row[q].driver = d, t.row[q].decision \in {Waiting, Requested}
      PROVE  /\ u.row[q].decision = CancelledAfterAccept /\ u.row[q].driver = t.row[q].driver
             /\ u.row[q].order = t.row[q].order /\ u.row[q].deleted = t.row[q].deleted
             /\ t.row[q].order # None
  <2>1. t.row[q] \in RowType
    BY Shape DEF Facts
  <2>2. t.row[q].decision # NoStatus
    BY <1>2, Words
  <2>3. t.row[q].order # None
    BY <2>2 DEF Facts, Plain
  <2> QED BY <1>1, <1>2, <2>1, <2>3, BothFields
<1>3. \A q \in Rows : \/ u.row[q] = t.row[q]
                      \/ /\ q # kept /\ t.row[q].driver = d
                         /\ u.row[q].decision = CancelledAfterAccept /\ u.row[q].driver = t.row[q].driver
                         /\ u.row[q].order = t.row[q].order /\ u.row[q].deleted = t.row[q].deleted
                         /\ t.row[q].order # None
  BY <1>2 DEF Releases
<1> QED BY <1>1, <1>3 DEF RowsAlike

\* A confirmation that fails after its release keeps the invariant.
LEMMA KeepConfirmFails ==
    ASSUME IInv, NEW a \in Assignments, ConfirmFails(a)
    PROVE  IInv'
<1>1. Answerable(a) /\ Noted(a) /\ UNCHANGED <<mode, batch, bid>>
  BY DEF ConfirmFails
<1>2. PICK d, r : d = assignment[a].driver /\ r = assignment[a].row
  OBVIOUS
<1>3. PICK u : u = ReleaseOffers(Tables, d, r)
  OBVIOUS
<1>4. Commit(u)
  BY <1>2, <1>3 DEF ConfirmFails
<1>5. /\ Good(Tables, shared, late') /\ a \in Made(Tables)
      /\ Tables.assignment[a].driver \notin late' => a \in Live(Tables)
  BY <1>1, NotedIs, Now
<1>6. d \in Drivers /\ r \in Rows /\ Facts(Tables) /\ Tables \in TablesType
  BY <1>2, <1>5, Now DEF Facts, Linked
<1>7. Releases(Tables, u, d, r)
  BY <1>3, <1>6, ReleasesIs
<1>8. /\ RowsAlike(Tables, u)
      /\ \A q \in Rows : q # r =>
            u.row[q] = Tables.row[q] \/ (Tables.row[q].driver = d /\ u.row[q].decision \in Terminal)
      /\ u.row[r] = Tables.row[r]
  BY <1>6, <1>7, ReleasedAlike
<1>9. /\ Alike(Tables, u) /\ OnlyJob(Tables, u, a) /\ Released(Tables, u, a)
      /\ u.assignment[a] = Tables.assignment[a]
      /\ u.row[Tables.assignment[a].row] = Tables.row[Tables.assignment[a].row]
  BY <1>2, <1>7, <1>8, Now DEF Alike, JobsAlike, OnlyJob, Released, Releases
<1>10. Good(u, shared, late')
  BY <1>5, <1>9, Answering
<1> QED BY <1>1, <1>4, <1>10, Now, AnswerKeeps

\* What ConfirmAssignment commits.
LEMMA ConfirmIs ==
    ASSUME IInv, NEW a \in Assignments, ConfirmAssignment(a)
    PROVE  LET it == assignment[a]
           IN  Commit(EndAssignment(ReleaseOffers(
                         Set(PutOrder(Tables, it.order, AcceptedByShipper), it.row, AcceptedByShipper),
                         it.driver, it.row), a, "confirmed_by_driver"))
BY DEF ConfirmAssignment, PutOrder

\* ConfirmAssignment keeps the invariant.
LEMMA KeepConfirm ==
    ASSUME IInv, NEW a \in Assignments, ConfirmAssignment(a)
    PROVE  IInv'
<1>1. Answerable(a) /\ Noted(a) /\ UNCHANGED <<mode, batch, bid>>
  BY DEF ConfirmAssignment
<1>2. PICK d, r, o : d = assignment[a].driver /\ r = assignment[a].row /\ o = assignment[a].order
  OBVIOUS
<1>3. PICK v : v = PutOrder(Tables, o, AcceptedByShipper)
  OBVIOUS
<1>4. PICK w : w = Set(v, r, AcceptedByShipper)
  OBVIOUS
<1>5. PICK x : x = ReleaseOffers(w, d, r)
  OBVIOUS
<1>6. PICK u : u = EndAssignment(x, a, "confirmed_by_driver")
  OBVIOUS
<1>7. Commit(u)
  BY <1>2, <1>3, <1>4, <1>5, <1>6, ConfirmIs
<1>8. /\ Good(Tables, shared, late') /\ a \in Made(Tables) /\ ~Tables.assignment[a].deleted
      /\ Tables.assignment[a].driver \notin late' => a \in Live(Tables)
  BY <1>1, NotedIs, Now
<1>9. /\ d \in Drivers /\ d # None /\ r \in Rows /\ Facts(Tables) /\ Tables \in TablesType
      /\ Tables.row[r].driver = d /\ Tables.row[r].order # None
      /\ Tables.row[r] \in RowType /\ Tables.assignment[a] \in AssignmentType
  <2>1. /\ d \in Drivers /\ r \in Rows /\ Facts(Tables) /\ Tables \in TablesType
        /\ Tables.row[r].driver = d /\ Tables.row[r].order \in Slots
    BY <1>2, <1>8, Now DEF Facts, Linked
  <2> QED BY <2>1, ContractAssumption, Shape
<1>10. AcceptedByShipper \in Statuses /\ AcceptedByShipper # NoStatus
  BY Words
<1>11. v \in TablesType /\ v.row = Tables.row /\ v.assignment = Tables.assignment
  BY <1>3, <1>9, <1>10, ChangedOrder
<1>12. PICK y : y = Both(Tables.row[r], AcceptedByShipper)
  OBVIOUS
<1>13. /\ y \in RowType /\ y.decision = AcceptedByShipper /\ y.driver = d
       /\ y.order = Tables.row[r].order /\ y.deleted = Tables.row[r].deleted
  BY <1>9, <1>10, <1>12, BothFields
<1>14. w = PutRow(v, r, y)
  BY <1>4, <1>9, <1>11, <1>12, SetIs
<1>15. /\ w \in TablesType /\ w.assignment = Tables.assignment /\ w.row[r] = y
       /\ \A q \in Rows : q # r => w.row[q] = Tables.row[q]
  <2>1. /\ w \in TablesType /\ w.assignment = v.assignment /\ w.row[r] = y
        /\ \A q \in Rows : q # r => w.row[q] = v.row[q]
    BY <1>9, <1>11, <1>13, <1>14, ChangedRow
  <2> QED BY <1>11, <2>1
<1>16. Facts(w)
  <2>1. RowsAlike(Tables, w)
    BY <1>9, <1>10, <1>13, <1>15 DEF RowsAlike
  <2>2. JobsAlike(Tables, w)
    BY <1>15 DEF JobsAlike
  <2>3. Alike(Tables, w)
    BY <1>15, <2>1, <2>2 DEF Alike
  <2> QED BY <1>9, <2>3, Kept
<1>17. Releases(w, x, d, r)
  BY <1>5, <1>15, ReleasesIs
<1>18. /\ RowsAlike(w, x)
       /\ \A q \in Rows : q # r =>
             x.row[q] = w.row[q] \/ (w.row[q].driver = d /\ x.row[q].decision \in Terminal)
       /\ x.row[r] = y
  BY <1>9, <1>15, <1>16, <1>17, ReleasedAlike
<1>19. x \in TablesType /\ x.assignment = Tables.assignment
  BY <1>15, <1>17 DEF Releases
<1>20. PICK z : z = Ends(Tables.assignment[a], "confirmed_by_driver")
  OBVIOUS
<1>21. /\ z \in AssignmentType /\ z.status = "confirmed_by_driver"
       /\ z.driver = d /\ z.order = Tables.assignment[a].order
       /\ z.row = r /\ z.deleted = Tables.assignment[a].deleted
  BY <1>2, <1>9, <1>20, JobEnds, Now DEF AssignmentWords
<1>22. a \in Assignments /\ u = PutAssignment(x, a, z)
  BY <1>6, <1>19, <1>20, EndIs
<1>23. /\ u \in TablesType /\ u.row = x.row /\ u.assignment[a] = z
       /\ \A b \in Assignments : b # a => u.assignment[b] = Tables.assignment[b]
  <2>1. /\ u \in TablesType /\ u.row = x.row /\ u.assignment[a] = z
        /\ \A b \in Assignments : b # a => u.assignment[b] = x.assignment[b]
    BY <1>19, <1>21, <1>22, ChangedAssignment
  <2> QED BY <1>19, <2>1
<1>24. RowsAlike(Tables, u)
  <2>1. ASSUME NEW q \in Rows, q # r
        PROVE  \/ u.row[q] = Tables.row[q]
               \/ /\ Tables.row[q].driver # None
                  /\ u.row[q].driver = Tables.row[q].driver /\ u.row[q].order = Tables.row[q].order
                  /\ u.row[q].deleted = Tables.row[q].deleted
                  /\ Tables.row[q].order = None => u.row[q].decision = Tables.row[q].decision
                  /\ Tables.row[q].order # None => u.row[q].decision # NoStatus
    <3>1. w.row[q] = Tables.row[q] /\ u.row[q] = x.row[q]
      BY <1>15, <1>23, <2>1
    <3> QED BY <1>18, <3>1 DEF RowsAlike
  <2> QED BY <1>9, <1>10, <1>13, <1>18, <1>23, <2>1 DEF RowsAlike
<1>25. JobsAlike(Tables, u)
  BY <1>2, <1>8, <1>21, <1>23, Now DEF JobsAlike
<1>26. Alike(Tables, u) /\ OnlyJob(Tables, u, a)
  BY <1>23, <1>24, <1>25 DEF Alike, OnlyJob
<1>27. Tables.assignment[a].row = r /\ Tables.assignment[a].driver = d
  BY <1>2, Now
<1>28. Released(Tables, u, a)
  BY <1>15, <1>18, <1>23, <1>27 DEF Released
<1>29. u.assignment[a].status = "confirmed_by_driver" /\ u.row[r].decision = AcceptedByShipper
  BY <1>13, <1>18, <1>21, <1>23
<1>30. Good(u, shared, late')
  BY <1>8, <1>26, <1>27, <1>28, <1>29, Answering
<1> QED BY <1>1, <1>7, <1>30, Now, AnswerKeeps

PutRows(t, rows) == [t EXCEPT !.row = rows]
PutJobs(t, jobs) == [t EXCEPT !.assignment = jobs]

\* Writing the requests changes nothing else.
LEMMA ChangedRows ==
    ASSUME NEW t \in TablesType, NEW f \in [Rows -> RowType], NEW u, u = PutRows(t, f)
    PROVE  u \in TablesType /\ u.row = f /\ u.assignment = t.assignment
BY DEF PutRows, TablesType

\* Writing the assignments changes nothing else.
LEMMA ChangedJobs ==
    ASSUME NEW t \in TablesType, NEW f \in [Assignments -> AssignmentType], NEW u, u = PutJobs(t, f)
    PROVE  u \in TablesType /\ u.assignment = f /\ u.row = t.row
BY DEF PutJobs, TablesType

\* Some of the assignments get a status.
JobsEnd(t, some, status) ==
    [a \in Assignments |-> IF a \in some THEN Ends(t.assignment[a], status) ELSE t.assignment[a]]

\* Assignments ended together keep all else as it was.
LEMMA JobsEnded ==
    ASSUME NEW t \in TablesType, NEW some, NEW status \in AssignmentWords \ {"none"},
           some \subseteq Made(t), status \in Ended,
           NEW f, f = JobsEnd(t, some, status), NEW u, u.assignment = f
    PROVE  /\ f \in [Assignments -> AssignmentType] /\ JobsAlike(t, u)
           /\ \A a \in some : u.assignment[a].status = status
           /\ \A a \in Assignments \ some : u.assignment[a] = t.assignment[a]
<1>1. some \subseteq Assignments
  BY DEF Made
<1>2. \A a \in Assignments : f[a] = IF a \in some THEN Ends(t.assignment[a], status) ELSE t.assignment[a]
  BY DEF JobsEnd
<1>3. f = [a \in Assignments |-> f[a]]
  BY DEF JobsEnd
<1>4. ASSUME NEW a \in Assignments
      PROVE  /\ f[a] \in AssignmentType
             /\ a \in some => /\ f[a].status = status /\ f[a].driver = t.assignment[a].driver
                              /\ f[a].order = t.assignment[a].order
                              /\ f[a].row = t.assignment[a].row
  <2>1. t.assignment[a] \in AssignmentType
    BY Shape
  <2> QED BY <1>2, <2>1, JobEnds
<1>5. f \in [Assignments -> AssignmentType]
  BY <1>3, <1>4
<1>6. JobsAlike(t, u)
  <2>1. ASSUME NEW a \in Assignments
        PROVE  \/ u.assignment[a] = t.assignment[a]
               \/ /\ a \in Made(t)
                  /\ u.assignment[a].driver = t.assignment[a].driver
                  /\ u.assignment[a].order = t.assignment[a].order
                  /\ u.assignment[a].row = t.assignment[a].row
                  /\ u.assignment[a].status # "none"
                  /\ u.assignment[a].deleted => u.assignment[a].status \in Ended
    <3>1. CASE a \in some
      BY <1>4, <3>1
    <3>2. CASE a \notin some
      BY <1>2, <3>2
    <3> QED BY <3>1, <3>2
  <2> QED BY <2>1 DEF JobsAlike
<1> QED BY <1>1, <1>2, <1>4, <1>5, <1>6

-----------------------------------------------------------------------------
\* An advance writes one assignment and the status of one request.
LEMMA AdvanceIs ==
    ASSUME NEW t \in TablesType, NEW a \in Assignments, NEW r \in Rows, NEW word, NEW status
    PROVE  [EndAssignment(t, a, word) EXCEPT !.row[r].status = status] =
              PutRow(EndAssignment(t, a, word), r, WithStatus(t.row[r], status))
BY DEF EndAssignment, PutRow, WithStatus, TablesType

\* AdvanceAssignment keeps the invariant.
LEMMA KeepAdvance ==
    ASSUME IInv, NEW a \in Assignments, NEW word \in Progress, AdvanceAssignment(a, word)
    PROVE  IInv'
<1>1. Answerable(a) /\ Noted(a) /\ UNCHANGED <<mode, batch>>
  BY DEF AdvanceAssignment
<1>2. bid' \in [Companies -> BidStatuses]
  <2>1. \/ bid' = bid
        \/ bid' = [bid EXCEPT ![assignment[a].company] = "completed"]
    BY DEF AdvanceAssignment
  <2> QED BY <2>1, Now DEF BidStatuses
<1>3. PICK r, status : /\ r = assignment[a].row
                       /\ status = IF word = "completed" THEN JourneyCompleted ELSE JourneyStarted
  OBVIOUS
<1>4. Commit([EndAssignment(Tables, a, word) EXCEPT !.row[r].status = status])
  BY <1>3 DEF AdvanceAssignment
<1>5. /\ Good(Tables, shared, late') /\ a \in Made(Tables) /\ ~Tables.assignment[a].deleted
      /\ Tables.assignment[a].driver \notin late' => a \in Live(Tables)
  BY <1>1, NotedIs, Now
<1>6. /\ r \in Rows /\ Tables \in TablesType
      /\ Tables.assignment[a].row = r
      /\ Tables.row[r].driver # None /\ Tables.row[r].order # None
      /\ Tables.row[r].decision # NoStatus
      /\ Tables.row[r] \in RowType /\ Tables.assignment[a] \in AssignmentType
  <2>1. /\ r \in Rows /\ Facts(Tables) /\ Tables \in TablesType
        /\ Tables.row[r].driver \in Drivers /\ Tables.row[r].order \in Slots
    BY <1>3, <1>5, Now DEF Facts, Linked
  <2>2. Tables.row[r].order # None
    BY <2>1, ContractAssumption
  <2>3. Tables.row[r].decision # NoStatus
    BY <2>1, <2>2 DEF Facts, Plain
  <2> QED BY <1>3, <2>1, <2>2, <2>3, ContractAssumption, Shape, Now
<1>7. status \in Statuses /\ word \in AssignmentWords /\ word # "none"
  BY <1>3, Words DEF AssignmentWords, Progress
<1>8. PICK v, z : v = EndAssignment(Tables, a, word) /\ z = Ends(Tables.assignment[a], word)
  OBVIOUS
<1>9. /\ z \in AssignmentType /\ z.status = word /\ z.driver = Tables.assignment[a].driver
      /\ z.order = Tables.assignment[a].order /\ z.row = r
      /\ z.deleted = Tables.assignment[a].deleted
  BY <1>6, <1>7, <1>8, JobEnds
<1>10. v = PutAssignment(Tables, a, z)
  BY <1>6, <1>8, EndIs
<1>11. /\ v \in TablesType /\ v.row = Tables.row /\ v.assignment[a] = z
       /\ \A b \in Assignments : b # a => v.assignment[b] = Tables.assignment[b]
  BY <1>6, <1>9, <1>10, ChangedAssignment
<1>12. PICK y : y = WithStatus(Tables.row[r], status)
  OBVIOUS
<1>13. /\ y \in RowType /\ y.decision = Tables.row[r].decision /\ y.driver = Tables.row[r].driver
       /\ y.order = Tables.row[r].order /\ y.deleted = Tables.row[r].deleted
  BY <1>6, <1>7, <1>12, RowField
<1>14. PICK u : u = PutRow(v, r, y)
  OBVIOUS
<1>15. Commit(u)
  BY <1>4, <1>6, <1>8, <1>12, <1>14, AdvanceIs
<1>16. /\ u \in TablesType /\ u.assignment = v.assignment /\ u.row[r] = y
       /\ \A q \in Rows : q # r => u.row[q] = Tables.row[q]
  <2>1. /\ u \in TablesType /\ u.assignment = v.assignment /\ u.row[r] = y
        /\ \A q \in Rows : q # r => u.row[q] = v.row[q]
    BY <1>6, <1>11, <1>13, <1>14, ChangedRow
  <2> QED BY <1>11, <2>1
<1>17. RowsAlike(Tables, u)
  BY <1>6, <1>13, <1>16 DEF RowsAlike
<1>18. JobsAlike(Tables, u)
  BY <1>5, <1>6, <1>7, <1>9, <1>11, <1>16 DEF JobsAlike
<1>19. /\ Alike(Tables, u) /\ OnlyJob(Tables, u, a) /\ OnlyRow(Tables, u, r)
       /\ u.assignment[a].status \in Progress /\ u.row[r].decision = Tables.row[r].decision
  BY <1>9, <1>11, <1>13, <1>16, <1>17, <1>18 DEF Alike, OnlyJob, OnlyRow
<1>20. Good(u, shared, late')
  BY <1>5, <1>6, <1>19, Advancing
<1> QED BY <1>1, <1>2, <1>15, <1>20, Now, AnswerKeeps

-----------------------------------------------------------------------------
\* The request and its decision, when it has one.
GaveUp(x, status) == [x EXCEPT !.status = status, !.decision = IF x.order = None THEN @ ELSE status]

\* The fields of a request that was given up.
LEMMA RowGivenUp ==
    ASSUME NEW x \in RowType, NEW status \in Statuses, NEW y, y = GaveUp(x, status)
    PROVE  /\ y \in RowType /\ y.status = status /\ y.driver = x.driver /\ y.order = x.order
           /\ y.deleted = x.deleted
           /\ y.decision = IF x.order = None THEN x.decision ELSE status
<1>1. y = IF x.order = None THEN WithStatus(x, status) ELSE Both(x, status)
  BY DEF GaveUp, RowType, Both, WithStatus, WithDecision
<1>2. CASE x.order = None
  BY <1>1, <1>2, RowField
<1>3. CASE x.order # None
  BY <1>1, <1>3, BothFields
<1> QED BY <1>2, <1>3

Over(r) == {a \in Made(Tables) : assignment[a].row = r /\ assignment[a].status \notin Ended}

GivenUp(r, status, word) ==
    PutJobs(PutRow(Tables, r, GaveUp(row[r], status)), JobsEnd(Tables, Over(r), word))

\* What CancelDriverRequest commits.
LEMMA GiveUpIs ==
    ASSUME Tables \in TablesType, NEW r \in Rows, CancelDriverRequest(r)
    PROVE  \E status, word :
              /\ <<status, word>> \in {<<CancelledBeforeAccept, "rejected_by_driver">>,
                                       <<CancelledAfterAccept, "cancelled_by_driver">>}
              /\ \/ Commit(GivenUp(r, status, word))
                 \/ Commit(PutFleet(GivenUp(r, status, word), row[r].driver, "inactive"))
<1> DEFINE refused == row[r].status < Agreed
           status == IF refused THEN CancelledBeforeAccept ELSE CancelledAfterAccept
           word == IF refused THEN "rejected_by_driver" ELSE "cancelled_by_driver"
           mine == {a \in Made(Tables) : assignment[a].row = r}
           over == {a \in mine : assignment[a].status \notin Ended}
           t == [Tables EXCEPT !.row[r].status = status,
                     !.row[r].decision = IF row[r].order = None THEN @ ELSE status,
                     !.assignment = [a \in Assignments |->
                         IF a \in over THEN [@[a] EXCEPT !.status = word] ELSE @[a]]]
<1>1. over = Over(r)
  BY DEF Over
<1>2. [a \in Assignments |-> IF a \in over THEN [assignment[a] EXCEPT !.status = word] ELSE assignment[a]]
      = JobsEnd(Tables, Over(r), word)
  BY <1>1 DEF JobsEnd, Ends, Tables
<1>3. t = GivenUp(r, status, word)
  <2> HIDE DEF over, status, word
  <2>1. t = [Tables EXCEPT !.row[r] = GaveUp(row[r], status),
                !.assignment = [a \in Assignments |->
                     IF a \in over THEN [assignment[a] EXCEPT !.status = word] ELSE assignment[a]]]
    BY DEF GaveUp, TablesType, Tables
  <2> QED BY <1>2, <2>1 DEF GivenUp, PutJobs, PutRow
<1>4. Commit(t) \/ Commit([t EXCEPT !.fleet[row[r].driver] = "inactive"])
  BY DEF CancelDriverRequest
<1>5. <<status, word>> \in {<<CancelledBeforeAccept, "rejected_by_driver">>,
                            <<CancelledAfterAccept, "cancelled_by_driver">>}
  OBVIOUS
<1>6. \/ Commit(GivenUp(r, status, word))
      \/ Commit(PutFleet(GivenUp(r, status, word), row[r].driver, "inactive"))
  <2> HIDE DEF t
  <2> QED BY <1>3, <1>4 DEF PutFleet
<1> HIDE DEF status, word
<1> QED BY <1>5, <1>6

\* CancelDriverRequest keeps the invariant.
LEMMA KeepCancelRequest ==
    ASSUME IInv, NEW r \in Rows, CancelDriverRequest(r)
    PROVE  IInv'
<1>1. UNCHANGED <<mode, batch, bid, late>> /\ row[r].status \in Active
  BY DEF CancelDriverRequest
<1>2. /\ Tables \in TablesType /\ Facts(Tables) /\ Good(Tables, shared, late)
      /\ row[r] \in RowType /\ Tables.row[r] = row[r]
  BY Now, Shape
<1>3. row[r].driver # None
  <2>1. NoStatus \notin Active
    BY Words
  <2> QED BY <1>1, <1>2, <2>1 DEF Facts, Plain, NoRow
<1>4. PICK status, word :
         /\ <<status, word>> \in {<<CancelledBeforeAccept, "rejected_by_driver">>,
                                  <<CancelledAfterAccept, "cancelled_by_driver">>}
         /\ \/ Commit(GivenUp(r, status, word))
            \/ Commit(PutFleet(GivenUp(r, status, word), row[r].driver, "inactive"))
  BY <1>2, GiveUpIs
<1>5. /\ status \in Statuses /\ status # NoStatus
      /\ status \in Terminal \/ status = CancelledBeforeAccept
      /\ word \in AssignmentWords \ {"none"} /\ word \in Ended
  <2>1. /\ CancelledBeforeAccept \in Statuses /\ CancelledAfterAccept \in Statuses
        /\ CancelledBeforeAccept # NoStatus /\ CancelledAfterAccept # NoStatus
        /\ CancelledAfterAccept \in Terminal
    BY Words
  <2>2. {"rejected_by_driver", "cancelled_by_driver"} \subseteq (AssignmentWords \ {"none"}) \cap Ended
    BY DEF AssignmentWords, Ended, Freeing, ByDriver
  <2> QED BY <1>4, <2>1, <2>2
<1>6. PICK y, f : y = GaveUp(row[r], status) /\ f = JobsEnd(Tables, Over(r), word)
  OBVIOUS
<1>7. /\ y \in RowType /\ y.status = status /\ y.driver = row[r].driver /\ y.order = row[r].order
      /\ y.deleted = row[r].deleted
      /\ y.decision = IF row[r].order = None THEN row[r].decision ELSE status
  BY <1>2, <1>5, <1>6, RowGivenUp
<1>8. PICK v : v = PutRow(Tables, r, y)
  OBVIOUS
<1>9. /\ v \in TablesType /\ v.assignment = Tables.assignment /\ v.row[r] = y
      /\ \A q \in Rows : q # r => v.row[q] = Tables.row[q]
  BY <1>2, <1>7, <1>8, ChangedRow
<1>10. PICK u : u = PutJobs(v, f)
  OBVIOUS
<1>11. Over(r) \subseteq Made(Tables)
  BY DEF Over
<1>12. f \in [Assignments -> AssignmentType]
  <2>1. PICK w : w = [assignment |-> f]
    OBVIOUS
  <2>2. w.assignment = f
    BY <2>1
  <2> QED BY <1>2, <1>5, <1>6, <1>11, <2>2, JobsEnded
<1>13. u \in TablesType /\ u.assignment = f /\ u.row = v.row
  BY <1>9, <1>10, <1>12, ChangedJobs
<1>14. /\ JobsAlike(Tables, u)
       /\ \A a \in Over(r) : u.assignment[a].status = word
       /\ \A a \in Assignments \ Over(r) : u.assignment[a] = Tables.assignment[a]
  BY <1>2, <1>5, <1>6, <1>11, <1>13, JobsEnded
<1>15. RowsAlike(Tables, u)
  BY <1>2, <1>3, <1>5, <1>7, <1>9, <1>13 DEF RowsAlike
<1>16. Alike(Tables, u) /\ OnlyRow(Tables, u, r)
  BY <1>9, <1>13, <1>14, <1>15 DEF Alike, OnlyRow
<1>17. \A b \in Assignments :
          IF b \in Made(Tables) /\ Tables.assignment[b].row = r /\ Tables.assignment[b].status \notin Ended
          THEN u.assignment[b].status \in Ended ELSE u.assignment[b] = Tables.assignment[b]
  BY <1>5, <1>14, Now DEF Over
<1>18. Tables.row[r].order # None =>
          \/ u.row[r].decision \in Terminal
          \/ u.row[r].decision = CancelledBeforeAccept /\ u.row[r].status = CancelledBeforeAccept
  BY <1>2, <1>5, <1>7, <1>9, <1>13
<1>19. Good(u, shared, late)
  BY <1>2, <1>16, <1>17, <1>18, GivingUp
<1>20. u = GivenUp(r, status, word)
  BY <1>6, <1>8, <1>10 DEF GivenUp
<1>21. CASE Commit(u)
  BY <1>1, <1>19, <1>21, Now, CallKeeps
<1>22. CASE Commit(PutFleet(u, row[r].driver, "inactive"))
  <2>1. PICK w : w = PutFleet(u, row[r].driver, "inactive")
    OBVIOUS
  <2>2. w \in TablesType /\ w.row = u.row /\ w.assignment = u.assignment
    BY <1>13, <2>1, ChangedFleet
  <2>3. Good(w, shared, late)
    BY <1>19, <2>2, Unmoved
  <2> QED BY <1>1, <1>22, <2>1, <2>3, Now, CallKeeps
<1> QED BY <1>4, <1>20, <1>21, <1>22

\* A request that holds its driver is written, with the status of its order.
LEMMA Drove ==
    ASSUME NEW t, Facts(t), NEW r \in Rows, t.row[r].driver # None,
           t.row[r].order # None, NEW o, NEW status \in Statuses \ {NoStatus},
           NEW u, u = Set(PutOrder(t, o, status), r, status)
    PROVE  /\ Alike(t, u) /\ OnlyRow(t, u, r) /\ u.row[r].decision = status
           /\ u.assignment = t.assignment
<1>1. t \in TablesType /\ t.row[r] \in RowType
  BY Shape DEF Facts
<1>2. PICK v : v = PutOrder(t, o, status)
  OBVIOUS
<1>3. v \in TablesType /\ v.row = t.row /\ v.assignment = t.assignment
  BY <1>1, <1>2, ChangedOrder
<1>4. PICK y : y = Both(t.row[r], status)
  OBVIOUS
<1>5. /\ y \in RowType /\ y.decision = status /\ y.driver = t.row[r].driver
      /\ y.order = t.row[r].order /\ y.deleted = t.row[r].deleted
  BY <1>1, <1>4, BothFields
<1>6. u = PutRow(v, r, y)
  BY <1>2, <1>3, <1>4, SetIs
<1>7. /\ u \in TablesType /\ u.assignment = t.assignment /\ u.row[r] = y
      /\ \A q \in Rows : q # r => u.row[q] = t.row[q]
  <2>1. /\ u \in TablesType /\ u.assignment = v.assignment /\ u.row[r] = y
        /\ \A q \in Rows : q # r => u.row[q] = v.row[q]
    BY <1>3, <1>5, <1>6, ChangedRow
  <2> QED BY <1>3, <2>1
<1>8. RowsAlike(t, u)
  BY <1>5, <1>7 DEF RowsAlike
<1>9. JobsAlike(t, u)
  BY <1>7 DEF JobsAlike
<1> QED BY <1>5, <1>7, <1>8, <1>9 DEF Alike, OnlyRow

\* A request with a decision is on an order, and of a driver.
LEMMA DecidedIsMade ==
    ASSUME IInv, NEW r \in Rows, row[r].decision # NoStatus
    PROVE  row[r].driver # None /\ row[r].order # None
<1>1. Plain(Tables)
  BY Now DEF Facts
<1>2. row[r].order # None
  BY <1>1, Now DEF Plain
<1> QED BY <1>1, <1>2, Now DEF Plain, NoRow

\* StartJourney keeps the invariant.
LEMMA KeepStart ==
    ASSUME IInv, NEW r \in Rows, StartJourney(r)
    PROVE  IInv'
<1>1. /\ row[r].decision = AcceptedByShipper /\ ~row[r].deleted
      /\ UNCHANGED <<mode, batch, bid, late>>
  BY DEF StartJourney
<1>2. PICK u : u = Set(PutOrder(Tables, row[r].order, JourneyStarted), r, JourneyStarted)
  OBVIOUS
<1>3. Commit(u)
  BY <1>2 DEF StartJourney, PutOrder
<1>4. /\ AcceptedByShipper # NoStatus /\ JourneyStarted \in Statuses \ {NoStatus}
      /\ AcceptedByShipper \in Engaged \ {Requested} /\ JourneyStarted \in Engaged
  BY Words
<1>5. row[r].driver # None /\ row[r].order # None
  BY <1>1, <1>4, DecidedIsMade
<1>6. /\ Alike(Tables, u) /\ OnlyRow(Tables, u, r) /\ u.row[r].decision = JourneyStarted
      /\ u.assignment = Tables.assignment
  BY <1>2, <1>4, <1>5, Now, Drove
<1>7. Good(u, shared, late)
  <2>1. \A b \in Assignments : \/ u.assignment[b] = Tables.assignment[b]
                               \/ b \in Made(Tables) /\ u.assignment[b].status = "completed"
    BY <1>6
  <2> QED BY <1>1, <1>4, <1>6, <2>1, Now, Driving
<1> QED BY <1>1, <1>3, <1>7, Now, CallKeeps

Finishing(t, r) == {a \in Made(t) : t.assignment[a].order = row[r].order \/ t.assignment[a].row = r}

\* What CompleteJourney commits.
LEMMA CompleteIs ==
    ASSUME NEW r \in Rows, CompleteJourney(r), NEW t,
           t = Set(PutOrder(Tables, row[r].order, JourneyCompleted), r, JourneyCompleted)
    PROVE  Commit(PutJobs(t, JobsEnd(t, Finishing(t, r), "completed")))
<1> DEFINE f == [a \in Assignments |->
                   IF a \in Made(t) /\ (t.assignment[a].order = row[r].order \/ t.assignment[a].row = r)
                   THEN [t.assignment[a] EXCEPT !.status = "completed"] ELSE t.assignment[a]]
<1>1. Commit([t EXCEPT !.assignment = f])
  BY DEF CompleteJourney, PutOrder
<1>2. f = JobsEnd(t, Finishing(t, r), "completed")
  BY DEF JobsEnd, Ends, Finishing
<1> HIDE DEF f
<1> QED BY <1>1, <1>2 DEF PutJobs

\* CompleteJourney keeps the invariant.
LEMMA KeepComplete ==
    ASSUME IInv, NEW r \in Rows, CompleteJourney(r)
    PROVE  IInv'
<1>1. /\ row[r].decision = JourneyStarted /\ ~row[r].deleted
      /\ UNCHANGED <<mode, batch, bid, late>>
  BY DEF CompleteJourney
<1>2. PICK t : t = Set(PutOrder(Tables, row[r].order, JourneyCompleted), r, JourneyCompleted)
  OBVIOUS
<1>3. PICK f, u : f = JobsEnd(t, Finishing(t, r), "completed") /\ u = PutJobs(t, f)
  OBVIOUS
<1>4. Commit(u)
  BY <1>2, <1>3, CompleteIs
<1>5. /\ JourneyStarted # NoStatus /\ JourneyCompleted \in Statuses \ {NoStatus}
      /\ JourneyStarted \in Engaged \ {Requested}
  BY Words
<1>6. row[r].driver # None /\ row[r].order # None
  BY <1>1, <1>5, DecidedIsMade
<1>7. /\ Alike(Tables, t) /\ OnlyRow(Tables, t, r) /\ t.row[r].decision = JourneyCompleted
      /\ t.assignment = Tables.assignment /\ t \in TablesType
  BY <1>2, <1>5, <1>6, Now, Drove DEF Alike
<1>8. /\ "completed" \in AssignmentWords \ {"none"} /\ "completed" \in Ended
      /\ Finishing(t, r) \subseteq Made(t)
  BY DEF AssignmentWords, Ended, Finishing
<1>9. f \in [Assignments -> AssignmentType]
  <2>1. PICK w : w = [assignment |-> f]
    OBVIOUS
  <2>2. w.assignment = f
    BY <2>1
  <2> QED BY <1>3, <1>7, <1>8, <2>2, JobsEnded
<1>10. u \in TablesType /\ u.assignment = f /\ u.row = t.row
  BY <1>3, <1>7, <1>9, ChangedJobs
<1>11. /\ JobsAlike(t, u)
       /\ \A a \in Finishing(t, r) : u.assignment[a].status = "completed"
       /\ \A a \in Assignments \ Finishing(t, r) : u.assignment[a] = t.assignment[a]
  BY <1>3, <1>7, <1>8, <1>10, JobsEnded
<1>12. Made(t) = Made(Tables)
  BY <1>7 DEF Made
<1>13. JobsAlike(Tables, u) /\ RowsAlike(Tables, u)
  BY <1>7, <1>10, <1>11, <1>12 DEF JobsAlike, RowsAlike, Alike
<1>14. Alike(Tables, u) /\ OnlyRow(Tables, u, r) /\ u.row[r].decision = JourneyCompleted
  BY <1>7, <1>10, <1>13 DEF Alike, OnlyRow
<1>15. \A b \in Assignments : \/ u.assignment[b] = Tables.assignment[b]
                              \/ b \in Made(Tables) /\ u.assignment[b].status = "completed"
  BY <1>7, <1>8, <1>11, <1>12
<1>16. Good(u, shared, late)
  BY <1>1, <1>5, <1>14, <1>15, Now, Driving
<1> QED BY <1>1, <1>4, <1>16, Now, CallKeeps

-----------------------------------------------------------------------------
\* The driver takes an order of the street.
GivenBack(x) ==
    [x EXCEPT !.status = CancelledAfterAccept,
              !.decision = IF @ \in {Waiting, Requested} THEN CancelledAfterAccept ELSE @]

\* The fields of a request given back for work on the street.
LEMMA RowGivenBack ==
    ASSUME NEW x \in RowType, NEW y, y = GivenBack(x)
    PROVE  /\ y \in RowType /\ y.driver = x.driver /\ y.order = x.order /\ y.deleted = x.deleted
           /\ y.decision = IF x.decision \in {Waiting, Requested} THEN CancelledAfterAccept
                           ELSE x.decision
<1> DEFINE open == x.decision \in {Waiting, Requested}
<1>1. y = IF open THEN Both(x, CancelledAfterAccept) ELSE WithStatus(x, CancelledAfterAccept)
  BY DEF GivenBack, RowType, Both, WithStatus, WithDecision
<1>2. CancelledAfterAccept \in Statuses
  BY Words
<1> HIDE DEF open
<1>3. CASE open
  BY <1>1, <1>2, <1>3, BothFields DEF open
<1>4. CASE ~open
  BY <1>1, <1>2, <1>4, RowField DEF open
<1> QED BY <1>3, <1>4

Given(d) == {a \in Live(Tables) : assignment[a].driver = d /\ assignment[a].status \in Pending}

RowsBack(t, some) == [q \in Rows |-> IF q \notin some THEN t.row[q] ELSE GivenBack(t.row[q])]

\* What AcceptShipperRequest commits.
LEMMA AcceptIs ==
    ASSUME IInv, NEW r \in Rows, AcceptShipperRequest(r), NEW t,
           t = Set(PutOrder(Tables, row[r].order, Agreed), r, Agreed)
    PROVE  Commit(PutRows(PutJobs(t, JobsEnd(t, Given(row[r].driver), "cancelled_by_driver")),
                          RowsBack(t, {assignment[a].row : a \in Given(row[r].driver)})))
<1> DEFINE d == row[r].driver
           given == {a \in Live(Tables) : assignment[a].driver = d /\ assignment[a].status \in Pending}
           rows == {assignment[a].row : a \in given}
           f == [a \in Assignments |->
                   IF a \in given THEN [t.assignment[a] EXCEPT !.status = "cancelled_by_driver"]
                   ELSE t.assignment[a]]
           g == [q \in Rows |->
                   IF q \notin rows THEN t.row[q]
                   ELSE [t.row[q] EXCEPT !.status = CancelledAfterAccept,
                                         !.decision = IF @ \in {Waiting, Requested}
                                                      THEN CancelledAfterAccept ELSE @]]
<1>1. Commit([t EXCEPT !.assignment = f, !.row = g])
  BY DEF AcceptShipperRequest, PutOrder
<1>2. given = Given(d)
  BY DEF Given
<1>3. f = JobsEnd(t, Given(d), "cancelled_by_driver")
  BY <1>2 DEF JobsEnd, Ends
<1>4. g = RowsBack(t, {assignment[a].row : a \in Given(d)})
  BY <1>2 DEF RowsBack, GivenBack
<1> HIDE DEF f, g, d
<1> QED BY <1>1, <1>3, <1>4 DEF PutRows, PutJobs, d

\* AcceptShipperRequest keeps the invariant.
LEMMA KeepAccept ==
    ASSUME IInv, NEW r \in Rows, AcceptShipperRequest(r)
    PROVE  IInv'
<1>1. /\ row[r].order \in Street /\ row[r].decision = Requested /\ ~row[r].deleted
      /\ UNCHANGED <<mode, batch, bid, late>>
  BY DEF AcceptShipperRequest
<1>2. PICK d, given, rows :
         /\ d = row[r].driver /\ given = Given(d) /\ rows = {assignment[a].row : a \in given}
  OBVIOUS
<1>3. PICK t : t = Set(PutOrder(Tables, row[r].order, Agreed), r, Agreed)
  OBVIOUS
<1>4. PICK f, g : f = JobsEnd(t, given, "cancelled_by_driver") /\ g = RowsBack(t, rows)
  OBVIOUS
<1>5. PICK v, u : v = PutJobs(t, f) /\ u = PutRows(v, g)
  OBVIOUS
<1>6. Commit(u)
  BY <1>2, <1>3, <1>4, <1>5, AcceptIs
<1>7. /\ Agreed \in Statuses \ {NoStatus} /\ Requested # NoStatus /\ Agreed \in Engaged
      /\ CancelledAfterAccept # NoStatus
  BY Words
<1>8. row[r].driver # None /\ row[r].order # None
  BY <1>1, <1>7, DecidedIsMade
<1>9. /\ Alike(Tables, t) /\ OnlyRow(Tables, t, r) /\ t.row[r].decision = Agreed
      /\ t.assignment = Tables.assignment /\ t \in TablesType
  BY <1>3, <1>7, <1>8, Now, Drove DEF Alike
<1>10. /\ given \subseteq Live(Tables) /\ \A a \in given : Tables.assignment[a].status \in Pending
       /\ given \subseteq Made(t)
  BY <1>2, <1>9, Now DEF Given, Live, Made
<1>11. /\ "cancelled_by_driver" \in AssignmentWords \ {"none"} /\ "cancelled_by_driver" \in Ended
  BY DEF AssignmentWords, Ended, Freeing, ByDriver
<1>12. f \in [Assignments -> AssignmentType]
  <2>1. PICK w : w = [assignment |-> f]
    OBVIOUS
  <2>2. w.assignment = f
    BY <2>1
  <2> QED BY <1>4, <1>9, <1>10, <1>11, <2>2, JobsEnded
<1>13. v \in TablesType /\ v.assignment = f /\ v.row = t.row
  BY <1>5, <1>9, <1>12, ChangedJobs
<1>14. \A q \in rows : q \in Rows /\ Tables.row[q].driver # None /\ Tables.row[q].order \in Slots
                       /\ q # r
  <2>1. ASSUME NEW a \in given
        PROVE  /\ assignment[a].row \in Rows /\ Tables.row[assignment[a].row].driver # None
               /\ Tables.row[assignment[a].row].order \in Slots
    <3>1. a \in Made(Tables)
      BY <1>10 DEF Live
    <3> QED BY <3>1, Now, ContractAssumption DEF Facts, Linked
  <2>2. row[r].order \notin Slots
    BY <1>1, ContractAssumption
  <2> QED BY <1>2, <2>1, <2>2, Now
<1>15. ASSUME NEW q \in Rows
       PROVE  /\ g[q] \in RowType
              /\ q \notin rows => g[q] = t.row[q]
              /\ g[q].driver = t.row[q].driver /\ g[q].order = t.row[q].order
              /\ g[q].deleted = t.row[q].deleted
              /\ q \in rows => g[q].decision = IF t.row[q].decision \in {Waiting, Requested}
                                               THEN CancelledAfterAccept ELSE t.row[q].decision
  <2>1. t.row[q] \in RowType
    BY <1>9, Shape
  <2>2. g[q] = IF q \notin rows THEN t.row[q] ELSE GivenBack(t.row[q])
    BY <1>4 DEF RowsBack
  <2>3. CASE q \in rows
    <3>1. g[q] = GivenBack(t.row[q])
      BY <2>2, <2>3
    <3> QED BY <2>1, <2>3, <3>1, RowGivenBack
  <2>4. CASE q \notin rows
    BY <2>1, <2>2, <2>4
  <2> QED BY <2>3, <2>4
<1>16. g \in [Rows -> RowType]
  <2>1. g = [q \in Rows |-> g[q]]
    BY <1>4 DEF RowsBack
  <2> QED BY <1>15, <2>1
<1>17. u \in TablesType /\ u.assignment = f /\ u.row = g
  BY <1>5, <1>13, <1>16, ChangedRows
<1>18. /\ JobsAlike(t, u)
       /\ \A a \in given : u.assignment[a].status = "cancelled_by_driver"
       /\ \A a \in Assignments \ given : u.assignment[a] = t.assignment[a]
  BY <1>4, <1>9, <1>10, <1>11, <1>17, JobsEnded
<1>19. Made(t) = Made(Tables)
  BY <1>9 DEF Made
<1>20. JobsAlike(Tables, u)
  BY <1>9, <1>18, <1>19 DEF JobsAlike
<1>21. RowsAlike(Tables, u)
  <2>1. ASSUME NEW q \in Rows, q \in rows
        PROVE  /\ Tables.row[q].driver # None
               /\ u.row[q].driver = Tables.row[q].driver /\ u.row[q].order = Tables.row[q].order
               /\ u.row[q].deleted = Tables.row[q].deleted
               /\ Tables.row[q].order = None => u.row[q].decision = Tables.row[q].decision
               /\ Tables.row[q].order # None => u.row[q].decision # NoStatus
    <3>1. /\ t.row[q] = Tables.row[q] /\ Tables.row[q].driver # None
          /\ Tables.row[q].order \in Slots /\ Tables.row[q].order # None
      BY <1>9, <1>14, <2>1, ContractAssumption DEF OnlyRow
    <3>2. Tables.row[q].decision # NoStatus
      BY <3>1, Now DEF Facts, Plain
    <3>3. /\ u.row[q].driver = Tables.row[q].driver /\ u.row[q].order = Tables.row[q].order
          /\ u.row[q].deleted = Tables.row[q].deleted
          /\ u.row[q].decision = CancelledAfterAccept \/ u.row[q].decision = Tables.row[q].decision
      BY <1>15, <1>17, <2>1, <3>1
    <3> QED BY <1>7, <3>1, <3>2, <3>3
  <2>2. \A q \in Rows : q \notin rows => u.row[q] = t.row[q]
    BY <1>15, <1>17
  <2> QED BY <1>9, <2>1, <2>2 DEF RowsAlike, Alike
<1>22. Alike(Tables, u)
  BY <1>17, <1>20, <1>21 DEF Alike
<1>23. u.row[r].decision \in Engaged /\ Tables.row[r].order \in Street
  BY <1>1, <1>7, <1>9, <1>14, <1>15, <1>17, Now
<1>24. \A b \in Assignments : IF b \in given THEN u.assignment[b].status = "cancelled_by_driver"
                              ELSE u.assignment[b] = Tables.assignment[b]
  BY <1>9, <1>18
<1>25. ASSUME NEW q \in Rows, q # r
       PROVE  IF \E a \in given : Tables.assignment[a].row = q
              THEN u.row[q].decision = IF Tables.row[q].decision \in {Waiting, Requested}
                                       THEN CancelledAfterAccept ELSE Tables.row[q].decision
              ELSE u.row[q] = Tables.row[q]
  <2>1. (\E a \in given : Tables.assignment[a].row = q) <=> q \in rows
    BY <1>2, Now
  <2>2. t.row[q] = Tables.row[q]
    BY <1>9, <1>25 DEF OnlyRow
  <2> QED BY <1>15, <1>17, <2>1, <2>2
<1>26. Good(u, shared, late)
  BY <1>10, <1>22, <1>23, <1>24, <1>25, Now, GivingBack
<1> QED BY <1>1, <1>6, <1>26, Now, CallKeeps

-----------------------------------------------------------------------------
\* The shipper calls orders off.
CalledOff(x) ==
    [x EXCEPT !.decision = IF @ \in Terminal THEN @ ELSE CancelledByShipper,
              !.status = IF @ \in Waiting..AcceptedByShipper THEN CancelledByShipper ELSE @]

\* The fields of a request whose order was called off.
LEMMA RowCalledOff ==
    ASSUME NEW x \in RowType, NEW y, y = CalledOff(x)
    PROVE  /\ y \in RowType /\ y.driver = x.driver /\ y.order = x.order /\ y.deleted = x.deleted
           /\ y.decision \in Terminal
<1> DEFINE dec == IF x.decision \in Terminal THEN x.decision ELSE CancelledByShipper
           sta == IF x.status \in Waiting..AcceptedByShipper THEN CancelledByShipper ELSE x.status
<1>1. x.decision \in Statuses /\ x.status \in Statuses
  BY DEF RowType
<1>2. CancelledByShipper \in Statuses /\ CancelledByShipper \in Terminal
  BY Words
<1>3. dec \in Statuses /\ dec \in Terminal /\ sta \in Statuses
  BY <1>1, <1>2
<1>4. y = WithStatus(WithDecision(x, dec), sta)
  BY DEF CalledOff, WithStatus, WithDecision, RowType
<1> HIDE DEF dec, sta
<1>5. PICK z : z = WithDecision(x, dec)
  OBVIOUS
<1>6. /\ z \in RowType /\ z.decision = dec /\ z.driver = x.driver /\ z.order = x.order
      /\ z.deleted = x.deleted
  BY <1>3, <1>5, RowField
<1>7. y = WithStatus(z, sta)
  BY <1>4, <1>5
<1>8. sta \in Statuses /\ z \in RowType
  BY <1>3, <1>6
<1>9. /\ y \in RowType /\ y.decision = z.decision /\ y.driver = z.driver /\ y.order = z.order
      /\ y.deleted = z.deleted
  BY <1>7, <1>8, RowField
<1> QED BY <1>3, <1>6, <1>9

RowsOff(gone) == [r \in Rows |-> IF row[r].order \notin gone THEN row[r] ELSE CalledOff(row[r])]

JobsOff(gone) ==
    [a \in Assignments |->
        IF assignment[a].order \in gone /\ assignment[a].status \in Pending
        THEN Ends(assignment[a], "cancelled_by_shipper") ELSE assignment[a]]

OrdersOff(gone) == [o \in Orders |-> IF o \in gone THEN CancelledByShipper ELSE order[o]]

\* What PartialCancelBatch commits.
LEMMA PartialIs ==
    ASSUME NEW gone, PartialCancelBatch(gone)
    PROVE  Commit([order |-> OrdersOff(gone), fleet |-> fleet, row |-> RowsOff(gone),
                   assignment |-> JobsOff(gone)])
BY DEF PartialCancelBatch, OrdersOff, RowsOff, JobsOff, CalledOff, Ends

\* PartialCancelBatch keeps the invariant.
LEMMA KeepPartial ==
    ASSUME IInv, NEW gone \in SUBSET Slots, PartialCancelBatch(gone)
    PROVE  IInv'
<1>1. /\ UNCHANGED <<mode, bid, late>>
      /\ batch' \in {Waiting, AcceptedByShipper, CancelledByShipper, PartiallyCancelled}
  BY DEF PartialCancelBatch
<1>2. PICK o, f, g : o = OrdersOff(gone) /\ f = RowsOff(gone) /\ g = JobsOff(gone)
  OBVIOUS
<1>3. PICK u : u = [order |-> o, fleet |-> fleet, row |-> f, assignment |-> g]
  OBVIOUS
<1>4. Commit(u)
  BY <1>2, <1>3, PartialIs
<1>5. o \in [Orders -> Statuses]
  <2>1. \A x \in Orders : order[x] \in Statuses
    BY DEF IInv, TypeOK
  <2>2. CancelledByShipper \in Statuses
    BY Words
  <2> QED BY <1>2, <2>1, <2>2 DEF OrdersOff
<1>6. ASSUME NEW q \in Rows
      PROVE  /\ f[q] \in RowType
             /\ row[q].order \notin gone => f[q] = row[q]
             /\ row[q].order \in gone =>
                   /\ f[q].driver = row[q].driver /\ f[q].order = row[q].order
                   /\ f[q].deleted = row[q].deleted /\ f[q].decision \in Terminal
  <2>1. row[q] \in RowType
    BY Now, Shape
  <2>2. f[q] = IF row[q].order \notin gone THEN row[q] ELSE CalledOff(row[q])
    BY <1>2 DEF RowsOff
  <2>3. CASE row[q].order \in gone
    <3>1. f[q] = CalledOff(row[q])
      BY <2>2, <2>3
    <3> QED BY <2>1, <2>3, <3>1, RowCalledOff
  <2>4. CASE row[q].order \notin gone
    BY <2>1, <2>2, <2>4
  <2> QED BY <2>3, <2>4
<1>7. f \in [Rows -> RowType]
  <2>1. f = [q \in Rows |-> f[q]]
    BY <1>2 DEF RowsOff
  <2> QED BY <1>6, <2>1
<1>8. "cancelled_by_shipper" \in AssignmentWords /\ "cancelled_by_shipper" \in Ended
  BY DEF AssignmentWords, Ended, Freeing
<1>9. ASSUME NEW a \in Assignments
      PROVE  /\ g[a] \in AssignmentType
             /\ IF assignment[a].order \in gone /\ assignment[a].status \in Pending
                THEN /\ g[a].status = "cancelled_by_shipper"
                     /\ g[a].driver = assignment[a].driver /\ g[a].order = assignment[a].order
                     /\ g[a].row = assignment[a].row /\ a \in Made(Tables)
                ELSE g[a] = assignment[a]
  <2>1. assignment[a] \in AssignmentType
    BY Now, Shape
  <2> DEFINE off == assignment[a].order \in gone /\ assignment[a].status \in Pending
  <2>2. g[a] = IF off THEN Ends(assignment[a], "cancelled_by_shipper") ELSE assignment[a]
    BY <1>2 DEF JobsOff
  <2>3. off => a \in Made(Tables)
    BY EndedWords, Now DEF Made
  <2> HIDE DEF off
  <2>4. CASE off
    <3>1. g[a] = Ends(assignment[a], "cancelled_by_shipper")
      BY <2>2, <2>4
    <3>2. /\ g[a] \in AssignmentType /\ g[a].status = "cancelled_by_shipper"
          /\ g[a].driver = assignment[a].driver /\ g[a].order = assignment[a].order
          /\ g[a].row = assignment[a].row
      BY <1>8, <2>1, <3>1, JobEnds
    <3> QED BY <2>3, <2>4, <3>2 DEF off
  <2>5. CASE ~off
    BY <2>1, <2>2, <2>5 DEF off
  <2> QED BY <2>4, <2>5
<1>10. g \in [Assignments -> AssignmentType]
  <2>1. g = [a \in Assignments |-> g[a]]
    BY <1>2 DEF JobsOff
  <2> QED BY <1>9, <2>1
<1>11. u \in TablesType /\ u.row = f /\ u.assignment = g
  BY <1>3, <1>5, <1>7, <1>10 DEF TablesType, IInv, TypeOK
<1>12. RowsAlike(Tables, u)
  <2>1. ASSUME NEW q \in Rows, row[q].order \in gone
        PROVE  row[q].driver # None /\ row[q].order # None
    <3>1. row[q].order # None
      BY <2>1, ContractAssumption
    <3> QED BY <3>1, Now DEF Facts, Plain, NoRow
  <2>2. \A x \in Terminal : x # NoStatus
    BY Words
  <2> QED BY <1>6, <1>11, <2>1, <2>2, Now DEF RowsAlike
<1>13. JobsAlike(Tables, u)
  BY <1>8, <1>9, <1>11, Now DEF JobsAlike
<1>14. Alike(Tables, u)
  BY <1>11, <1>12, <1>13 DEF Alike
<1>15. \A b \in Assignments :
          IF Tables.assignment[b].order \in gone /\ Tables.assignment[b].status \in Pending
          THEN u.assignment[b].status = "cancelled_by_shipper"
          ELSE u.assignment[b] = Tables.assignment[b]
  BY <1>9, <1>11, Now
<1>16. \A q \in Rows : IF Tables.row[q].order \in gone THEN u.row[q].decision \in Terminal
                       ELSE u.row[q] = Tables.row[q]
  BY <1>6, <1>11, Now
<1>17. Good(u, shared, late)
  BY <1>14, <1>15, <1>16, Now, CallingOff
<1> QED BY <1>1, <1>4, <1>17, Now, CallKeeps

\* Of the orders a call on the whole batch looks at, none is left open by then.
LEMMA KeepCancelBatch ==
    ASSUME IInv, CancelBatch
    PROVE  IInv'
<1> DEFINE there == {s \in Slots : order[s] # NoStatus}
           gone == {s \in there : order[s] \notin Locked}
           ended == OrdersOff(gone)
           left == {s \in there : ended[s] \notin Locked}
<1>1. left = {}
  <2>1. \A s \in Slots : ended[s] = IF s \in gone THEN CancelledByShipper ELSE order[s]
    BY DEF OrdersOff, Orders
  <2>2. CancelledByShipper \in Locked
    BY DEF Locked, Terminal
  <2> HIDE DEF ended
  <2> QED BY <2>1, <2>2
<1>2. ended \in [Orders -> Statuses]
  <2>1. \A x \in Orders : order[x] \in Statuses
    BY DEF IInv, TypeOK
  <2>2. CancelledByShipper \in Statuses
    BY Words
  <2> HIDE DEF gone
  <2> QED BY <2>1, <2>2 DEF OrdersOff
<1>3. /\ mode' = mode /\ fleet' = fleet /\ shared' = shared /\ late' = late
      /\ batch' \in {Waiting, AcceptedByShipper, CancelledByShipper, PartiallyCancelled}
      /\ order' = ended
  BY DEF CancelBatch, OrdersOff
<1>4. bid' \in [Companies -> BidStatuses]
  <2>1. /\ \A c \in Companies : bid'[c] \in {"none", "cancelled_by_company", bid[c], "expired"}
        /\ bid' = [c \in Companies |-> bid'[c]]
    BY DEF CancelBatch
  <2>2. \A c \in Companies : bid[c] \in BidStatuses
    BY Now
  <2>3. {"none", "cancelled_by_company", "expired"} \subseteq BidStatuses
    BY DEF BidStatuses
  <2>4. \A c \in Companies : bid'[c] \in BidStatuses
    BY <2>1, <2>2, <2>3
  <2> QED BY <2>1, <2>4
<1>5. row' = row
  <2>1. row' = [r \in Rows |-> row'[r]] /\ \A r \in Rows : row[r].order \notin left => row'[r] = row[r]
    BY DEF CancelBatch, OrdersOff
  <2>2. row = [r \in Rows |-> row[r]]
    BY DEF IInv, TypeOK
  <2> HIDE DEF left
  <2> QED BY <1>1, <2>1, <2>2
<1>6. assignment' = assignment
  <2>1. /\ assignment' = [a \in Assignments |-> assignment'[a]]
        /\ \A a \in Assignments : assignment[a].order \notin left => assignment'[a] = assignment[a]
    BY DEF CancelBatch, OrdersOff
  <2>2. assignment = [a \in Assignments |-> assignment[a]]
    BY DEF IInv, TypeOK
  <2> HIDE DEF left
  <2> QED BY <1>1, <2>1, <2>2
<1>7. fleet' \in [Drivers -> {"active", "inactive"}] /\ order' \in [Orders -> Statuses]
  BY <1>2, <1>3 DEF IInv, TypeOK
<1> HIDE DEF ended, left, gone, there
<1> QED BY <1>3, <1>4, <1>5, <1>6, <1>7, AsideKeeps

-----------------------------------------------------------------------------
\* Bids, and the pool.
LEMMA KeepSubmit ==
    ASSUME IInv, NEW c \in Companies, SubmitBid(c)
    PROVE  IInv'
<1>1. bid' = [bid EXCEPT ![c] = "submitted"]
      /\ UNCHANGED <<mode, batch, order, row, assignment, fleet, shared, late>>
  BY DEF SubmitBid
<1>2. bid' \in [Companies -> BidStatuses]
  BY <1>1, Now DEF BidStatuses
<1>3. order' \in [Orders -> Statuses] /\ fleet' \in [Drivers -> {"active", "inactive"}]
  BY <1>1 DEF IInv, TypeOK
<1> QED BY <1>1, <1>2, <1>3, Now, AsideKeeps

\* AcceptBid keeps the invariant.
LEMMA KeepAcceptBid ==
    ASSUME IInv, NEW c \in Companies, AcceptBid(c)
    PROVE  IInv'
<1>1. UNCHANGED <<mode, row, assignment, fleet, shared, late>>
  BY DEF AcceptBid
<1>2. \A b \in Companies : bid[b] \in BidStatuses
  BY Now
<1>3. {"accepted_by_shipper", "rejected_by_shipper"} \subseteq BidStatuses
  BY DEF BidStatuses
<1>4. bid' \in [Companies -> BidStatuses]
  <2>1. \/ bid' = [bid EXCEPT ![c] = "accepted_by_shipper"]
        \/ \E lost : bid' = [b \in Companies |-> IF b = c THEN "accepted_by_shipper"
                                                 ELSE IF b \in lost THEN "rejected_by_shipper"
                                                 ELSE bid[b]]
    BY DEF AcceptBid
  <2> QED BY <1>2, <1>3, <2>1, Now
<1>5. /\ order' \in [Orders -> Statuses]
      /\ batch' \in {Waiting, AcceptedByShipper, CancelledByShipper, PartiallyCancelled}
  <2>1. \/ order' = order /\ batch' = batch
        \/ /\ batch' = AcceptedByShipper
           /\ order' = [o \in Orders |-> IF o \in Slots THEN AcceptedByShipper ELSE order[o]]
    BY DEF AcceptBid
  <2>2. AcceptedByShipper \in Statuses
    BY Words
  <2> QED BY <2>1, <2>2 DEF IInv, TypeOK
<1>6. fleet' \in [Drivers -> {"active", "inactive"}]
  BY <1>1 DEF IInv, TypeOK
<1> QED BY <1>1, <1>4, <1>5, <1>6, AsideKeeps

\* DismissBid keeps the invariant.
LEMMA KeepDismiss ==
    ASSUME IInv, NEW c \in Companies,
           NEW status \in {"rejected_by_shipper", "cancelled_by_company", "expired"},
           DismissBid(c, status)
    PROVE  IInv'
<1>1. UNCHANGED <<mode, row, assignment, fleet, shared, late>> /\ bid' = [bid EXCEPT ![c] = status]
  BY DEF DismissBid
<1>2. bid' \in [Companies -> BidStatuses]
  BY <1>1, Now DEF BidStatuses
<1>3. order' \in [Orders -> Statuses]
  <2>1. order' = [o \in Orders |-> IF o \in Slots /\ order[o] # NoStatus THEN Waiting ELSE order[o]]
    BY DEF DismissBid
  <2>2. Waiting \in Statuses
    BY Words
  <2> QED BY <2>1, <2>2 DEF IInv, TypeOK
<1>4. batch' \in {Waiting, AcceptedByShipper, CancelledByShipper, PartiallyCancelled}
  BY Now DEF DismissBid
<1>5. fleet' \in [Drivers -> {"active", "inactive"}]
  BY <1>1 DEF IInv, TypeOK
<1> QED BY <1>1, <1>2, <1>3, <1>4, <1>5, AsideKeeps

\* UpdateCompanyVehicle keeps the invariant.
LEMMA KeepVehicle ==
    ASSUME IInv, NEW d \in Drivers, UpdateCompanyVehicle(d)
    PROVE  IInv'
<1>1. /\ UNCHANGED <<mode, batch, bid, order, row, assignment, shared, late>>
      /\ fleet' = [fleet EXCEPT ![d] = IF @ = "active" THEN "inactive" ELSE "active"]
  BY DEF UpdateCompanyVehicle
<1>2. fleet' \in [Drivers -> {"active", "inactive"}] /\ order' \in [Orders -> Statuses]
  BY <1>1 DEF IInv, TypeOK
<1> QED BY <1>1, <1>2, Now, AsideKeeps

-----------------------------------------------------------------------------
\* The street.
LEMMA GoOnlineIs ==
    ASSUME NEW d, GoOnline(d)
    PROVE  Commit(PutRow(Tables, Min(Unused(Tables)), NewRow(d, Waiting)))
BY DEF GoOnline, PutRow, NewRow

\* GoOnline keeps the invariant.
LEMMA KeepGoOnline ==
    ASSUME IInv, NEW d \in Drivers, GoOnline(d)
    PROVE  IInv'
<1>1. UNCHANGED <<mode, batch, bid, late>> /\ Unused(Tables) # {}
  BY DEF GoOnline
<1>2. PICK fresh : fresh = Min(Unused(Tables))
  OBVIOUS
<1>3. PICK x : x = NewRow(d, Waiting)
  OBVIOUS
<1>4. PICK u : u = PutRow(Tables, fresh, x)
  OBVIOUS
<1>5. Commit(u)
  BY <1>2, <1>3, <1>4, GoOnlineIs
<1>6. fresh \in Rows /\ Tables.row[fresh].driver = None
  BY <1>1, <1>2, FreshRow
<1>7. /\ x \in RowType /\ x.driver = d /\ x.order = None /\ x.decision = NoStatus
  BY <1>3, Words, RowMade
<1>8. Tables \in TablesType
  BY Now
<1>9. /\ u \in TablesType /\ u.assignment = Tables.assignment /\ u.row[fresh] = x
      /\ \A q \in Rows : q # fresh => u.row[q] = Tables.row[q]
  BY <1>4, <1>6, <1>7, <1>8, ChangedRow
<1>10. u.row[fresh].driver = d /\ u.row[fresh].order = None /\ u.row[fresh].decision = NoStatus
  BY <1>7, <1>9
<1>11. Good(u, shared, late)
  BY <1>6, <1>9, <1>10, Now, Inserted
<1> QED BY <1>1, <1>5, <1>11, Now, CallKeeps

Asked(t, r, o) == [t EXCEPT !.order[o] = Requested,
                      !.row[r].status = Requested, !.row[r].decision = Requested, !.row[r].order = o]

\* Asking writes one request and one order.
LEMMA AskedIs ==
    ASSUME NEW t \in TablesType, NEW r \in Rows, NEW o
    PROVE  Asked(t, r, o) = PutOrder(PutRow(t, r, WithStatus(OnOrder(t.row[r], o), Requested)), o, Requested)
<1>1. t.row[r] \in RowType
  BY Shape
<1>2. [t.row[r] EXCEPT !.status = Requested, !.decision = Requested, !.order = o]
      = WithStatus(OnOrder(t.row[r], o), Requested)
  BY <1>1 DEF WithStatus, OnOrder, RowType
<1>3. Asked(t, r, o)
      = PutOrder(PutRow(t, r, [t.row[r] EXCEPT !.status = Requested, !.decision = Requested,
                                               !.order = o]), o, Requested)
  BY DEF Asked, PutOrder, PutRow, TablesType
<1> QED BY <1>2, <1>3

\* What AskDriver commits.
LEMMA AskIs ==
    ASSUME IInv, NEW r \in Rows, NEW o, AskDriver(r, o)
    PROVE  Commit(PutOrder(PutRow(Tables, r, WithStatus(OnOrder(row[r], o), Requested)), o, Requested))
<1>1. Commit(Asked(Tables, r, o))
  BY DEF AskDriver, Asked
<1>2. Tables \in TablesType /\ Tables.row = row
  BY Now
<1>3. Asked(Tables, r, o) = PutOrder(PutRow(Tables, r, WithStatus(OnOrder(row[r], o), Requested)), o, Requested)
  BY <1>2, AskedIs
<1> QED BY <1>1, <1>3

\* AskDriver keeps the invariant.
LEMMA KeepAsk ==
    ASSUME IInv, NEW r \in Rows, NEW o \in Street, AskDriver(r, o)
    PROVE  IInv'
<1>1. /\ UNCHANGED <<mode, batch, bid, late>>
      /\ row[r].status = Waiting /\ row[r].order = None
  BY DEF AskDriver
<1>2. /\ o \in Orders /\ o \notin Slots /\ o # None
  BY ContractAssumption DEF Orders
<1>3. PICK x, y : x = OnOrder(row[r], o) /\ y = WithStatus(x, Requested)
  OBVIOUS
<1>4. PICK v, u : v = PutRow(Tables, r, y) /\ u = PutOrder(v, o, Requested)
  OBVIOUS
<1>5. Commit(u)
  BY <1>3, <1>4, AskIs
<1>6. row[r] \in RowType /\ Tables \in TablesType
  BY Now, Shape
<1>7. x \in RowType /\ x.order = o /\ x.driver = row[r].driver /\ x.decision = Requested
  BY <1>2, <1>3, <1>6, RowOnOrder DEF OnOrder, RowType
<1>8. Requested \in Statuses /\ Requested \in Engaged /\ Requested # NoStatus
      /\ Waiting # NoStatus
  BY Words
<1>9. y \in RowType /\ y.order = o /\ y.driver = row[r].driver /\ y.decision = Requested
  BY <1>3, <1>7, <1>8, RowField
<1>10. /\ v \in TablesType /\ v.assignment = Tables.assignment /\ v.row[r] = y
       /\ \A q \in Rows : q # r => v.row[q] = Tables.row[q]
  BY <1>4, <1>6, <1>9, ChangedRow
<1>11. u \in TablesType /\ u.row = v.row /\ u.assignment = v.assignment
  BY <1>4, <1>8, <1>10, ChangedOrder
<1>12. Plain(Tables)
  BY Now DEF Facts
<1>13. row[r].driver # None
  BY <1>1, <1>8, <1>12, Now DEF Plain, NoRow
<1>14. Plain(u)
  BY <1>2, <1>8, <1>9, <1>10, <1>11, <1>12, <1>13 DEF Plain
<1>15. Beside(Tables, u)
  BY <1>1, <1>2, <1>8, <1>9, <1>10, <1>11, Now DEF Beside
<1>16. Good(u, shared, late)
  BY <1>11, <1>14, <1>15, Now, Apart
<1> QED BY <1>1, <1>5, <1>16, Now, CallKeeps

-----------------------------------------------------------------------------
\* Putting drivers on orders.
LEMMA FreeIsSpare ==
    ASSUME IInv, NEW d \in Drivers, Assignable(d)
    PROVE  \A a \in Live(Tables) : assignment[a].driver # d
<1>1. ASSUME NEW a \in Live(Tables), assignment[a].driver = d PROVE FALSE
  <2>1. a \in Made(Tables)
    BY DEF Live
  <2>2. assignment[a].order # None
    BY <2>1, Now, ContractAssumption DEF Facts, Linked
  <2> QED BY <1>1, <2>2 DEF Assignable, Busy
<1> QED BY <1>1

\* With room there is a request and an assignment to make.
LEMMA RoomFor ==
    ASSUME NEW n \in Nat, n > 0, Room(n)
    PROVE  Unused(Tables) # {} /\ Assignments \ Made(Tables) # {}
<1>1. IsFiniteSet(Unused(Tables)) /\ IsFiniteSet(Assignments \ Made(Tables))
  BY Finite
<1>2. Cardinality(Unused(Tables)) + 0 >= n /\ Cardinality(Assignments \ Made(Tables)) + 0 >= n
  BY Finite DEF Room
<1> QED BY <1>1, <1>2, NotEmpty

\* CreateAssignment keeps the invariant: the driver it takes has nothing in hand.
LEMMA KeepCreate ==
    ASSUME IInv, NEW d \in Drivers, NEW s \in Slots, CreateAssignment(s, d)
    PROVE  IInv'
<1>1. /\ UNCHANGED <<mode, batch, bid, late>> /\ Assignable(d) /\ Room(1)
  BY DEF CreateAssignment
<1>2. PICK c : c = EmployerOf[d]
  OBVIOUS
<1>3. PICK u : u = Engage(Tables, c, s, d, "assigned")
  OBVIOUS
<1>4. Commit(u)
  BY <1>2, <1>3 DEF CreateAssignment
<1>5. c \in Companies /\ "assigned" \in Pending
  BY <1>2, ContractAssumption DEF Pending
<1>6. Unused(Tables) # {} /\ Assignments \ Made(Tables) # {}
  BY <1>1, RoomFor
<1>7. Spare(Tables, shared, d, s)
  BY <1>1, FreeIsSpare, Now DEF Spare
<1>8. Good(u, shared, late)
  BY <1>3, <1>5, <1>6, <1>7, Now, Engaging
<1> QED BY <1>1, <1>4, <1>8, Now, CallKeeps

\* AutoAssignBatch keeps the invariant: its drivers are free and differ from each other.
LEMMA KeepAuto ==
    ASSUME IInv, NEW c \in Companies, AutoAssignBatch(c)
    PROVE  IInv'
<1> DEFINE slots == {s \in Slots : order[s] = AcceptedByShipper /\ ~Taken(c, s)}
           drivers == {d \in Drivers :
                          /\ EmployerOf[d] = c /\ fleet[d] = "active"
                          /\ \A a \in Live(Tables) : assignment[a].driver # d
                          /\ \A r \in Used(Tables, d) : row[r].decision \notin Engaged}
           n == Min({Cardinality(slots), Cardinality(drivers)})
<1>1. /\ UNCHANGED <<mode, batch, bid, late>> /\ n > 0 /\ Room(n)
  BY DEF AutoAssignBatch
<1>2. PICK s \in Injection(1..n, slots), d \in Injection(1..n, drivers) :
         Commit(EngageAll(Tables, c, s, d, n))
  BY DEF AutoAssignBatch
<1>3. n \in Nat
  <2>1. IsFiniteSet(slots) /\ IsFiniteSet(drivers)
    BY ContractAssumption, FS_Subset
  <2>2. Cardinality(slots) \in Nat /\ Cardinality(drivers) \in Nat
    BY <2>1, FS_CardinalityType
  <2> DEFINE both == {Cardinality(slots), Cardinality(drivers)}
  <2>3. both \subseteq Nat /\ both # {}
    BY <2>2
  <2> HIDE DEF both
  <2>4. Min(both) \in both
    BY <2>3, MinIn
  <2> QED BY <2>3, <2>4 DEF both
<1>4. \A x \in drivers : x \in Drivers /\ \A a \in Live(Tables) : assignment[a].driver # x
  OBVIOUS
<1>5. slots \subseteq Slots
  OBVIOUS
<1> HIDE DEF n, slots, drivers
<1>6. /\ s \in [1..n -> slots] /\ d \in [1..n -> drivers]
      /\ \A i, j \in 1..n : d[i] = d[j] => i = j
  BY <1>2 DEF Injection, IsInjective
<1>7. s \in [1..n -> Slots] /\ d \in [1..n -> Drivers]
  BY <1>4, <1>5, <1>6
<1>8. Ready(Tables, d, 0, n)
  <2>1. Cardinality(Unused(Tables)) + 0 >= n /\ Cardinality(Assignments \ Made(Tables)) + 0 >= n
    <3> DEFINE x == Cardinality(Unused(Tables))
               y == Cardinality(Assignments \ Made(Tables))
    <3>1. x >= n /\ y >= n
      BY <1>1 DEF Room
    <3>2. x \in Nat /\ y \in Nat
      BY Finite
    <3> HIDE DEF x, y
    <3>3. x + 0 >= n /\ y + 0 >= n
      BY <1>3, <3>1, <3>2
    <3> QED BY <3>3 DEF x, y
  <2> QED BY <1>4, <1>6, <2>1, Now DEF Ready
<1>9. PICK u : u = EngageAll(Tables, c, s, d, n)
  OBVIOUS
<1>10. Good(u, shared, late)
  BY <1>3, <1>6, <1>7, <1>8, <1>9, Now, AllEngaged
<1>11. Commit(u)
  BY <1>2, <1>9
<1> QED BY <1>1, <1>10, <1>11, Now, CallKeeps

-----------------------------------------------------------------------------
\* Replacing.
Replacing(t, d, c, s) == Engage([t EXCEPT !.fleet[d] = "active"], c, s, d, "reassigned")

\* Putting the new driver on, with the vehicle back in the pool.
LEMMA ReplacingIs ==
    ASSUME NEW t, NEW d, NEW c, NEW s
    PROVE  Replacing(t, d, c, s) = Engage(PutFleet(t, d, "active"), c, s, d, "reassigned")
BY DEF Replacing, PutFleet

\* What ReplaceAssignment commits.
LEMMA ReplaceIs ==
    ASSUME NEW a \in Assignments, NEW d, ReplaceAssignment(a, d)
    PROVE  /\ a \in Made(Tables) /\ ~assignment[a].deleted
           /\ assignment[a].status \notin Ended \ ByDriver
           /\ EmployerOf[d] = assignment[a].company /\ ~Busy(d, assignment[a].order) /\ Room(1)
           /\ Commit(Replacing(IF a \in Live(Tables) THEN Recall(Tables, a) ELSE Tables,
                               d, assignment[a].company, assignment[a].order))
           /\ UNCHANGED <<mode, batch, bid, late>>
BY DEF ReplaceAssignment, Replacing

\* The tables after d is put on s, when what d has in hand is on s too.
LEMMA Joining ==
    ASSUME NEW S, NEW L, NEW t, Good(t, S, L), NEW c \in Companies, NEW s \in Slots,
           NEW d \in Drivers, NEW status \in Pending,
           Unused(t) # {}, Assignments \ Made(t) # {}, S \subseteq Slots,
           \A b \in Live(t) : t.assignment[b].driver = d => t.assignment[b].order = s,
           NEW u, u = Engage(t, c, s, d, status)
    PROVE  Good(u, S \cup SharedIn(u), L)
<1>1. Good(t, Slots, L)
  BY Monotone
<1>2. Spare(t, Slots, d, s)
  BY DEF Spare
<1>3. Good(u, Slots, L) /\ Took(t, u, d, s)
  BY <1>1, <1>2, Engaging
<1>4. PICK a \in Assignments : a \notin Made(t) /\ NewJobOf(t, u, d, s, a)
  BY <1>3 DEF Took
<1>5. u \in TablesType /\ t \in TablesType /\ Linked(u) /\ Linked(t)
  BY <1>1, <1>3 DEF Good, Facts
<1>6. Spare(t, S \cup SharedIn(u), d, s)
  <2>1. ASSUME NEW b \in Live(t), t.assignment[b].driver = d
        PROVE  t.assignment[b].order = s /\ s \in SharedIn(u)
    <3>1. t.assignment[b].order = s /\ b \in Made(t) /\ b \in Assignments
      BY <2>1 DEF Live, Made
    <3>2. b \in Live(u) /\ a \in Live(u) /\ a # b
      BY <1>4, <3>1 DEF NewJobOf
    <3>3. u.assignment[b].order = s /\ u.assignment[a].order = s
      BY <1>4, <3>1 DEF NewJobOf
    <3> QED BY <1>5, <3>1, <3>2, <3>3, SharedHas
  <2> QED BY <2>1 DEF Spare
<1>7. Good(t, S \cup SharedIn(u), L)
  BY Monotone
<1> QED BY <1>6, <1>7, Engaging

\* ReplaceAssignment keeps the invariant: what the new driver has in hand is on the
\* same order, which then counts as shared.
LEMMA KeepReplace ==
    ASSUME IInv, NEW a \in Assignments, NEW d \in Drivers, ReplaceAssignment(a, d)
    PROVE  IInv'
<1>1. /\ a \in Made(Tables) /\ ~assignment[a].deleted
      /\ assignment[a].status \notin Ended \ ByDriver
      /\ EmployerOf[d] = assignment[a].company /\ ~Busy(d, assignment[a].order) /\ Room(1)
      /\ UNCHANGED <<mode, batch, bid, late>>
  BY ReplaceIs
<1>2. PICK c, s : c = assignment[a].company /\ s = assignment[a].order
  OBVIOUS
<1>3. c \in Companies /\ s \in Slots /\ "reassigned" \in Pending
  BY <1>1, <1>2, Now, ContractAssumption DEF Facts, Linked, Pending
<1>4. PICK t : t = IF a \in Live(Tables) THEN Recall(Tables, a) ELSE Tables
  OBVIOUS
<1>5. PICK v : v = PutFleet(t, d, "active")
  OBVIOUS
<1>6. PICK u : u = Engage(v, c, s, d, "reassigned")
  OBVIOUS
<1>7. Commit(u)
  <2>1. Commit(Replacing(t, d, c, s))
    BY <1>2, <1>4, ReplaceIs
  <2>2. Replacing(t, d, c, s) = u
    BY <1>5, <1>6, ReplacingIs
  <2> QED BY <2>1, <2>2
<1>8. /\ Good(t, shared, late) /\ Made(t) = Made(Tables) /\ Unused(t) = Unused(Tables)
      /\ \A b \in Live(t) : b \in Live(Tables) /\ t.assignment[b] = assignment[b]
  <2>1. CASE a \in Live(Tables)
    <3>1. /\ Good(t, shared, late) /\ OnlyJob(Tables, t, a) /\ t.assignment[a].status \in Ended
          /\ Made(t) = Made(Tables) /\ Unused(t) = Unused(Tables)
      BY <1>4, <2>1, Now, Recalled
    <3>2. ASSUME NEW b \in Live(t) PROVE b \in Live(Tables) /\ t.assignment[b] = assignment[b]
      <4>1. b \in Made(t) /\ b \in Assignments /\ b # a
        BY <3>1 DEF Live, Made
      <4>2. t.assignment[b] = Tables.assignment[b]
        BY <3>1, <4>1 DEF OnlyJob
      <4> QED BY <3>1, <4>1, <4>2, Now DEF Live
    <3> QED BY <3>1, <3>2
  <2>2. CASE a \notin Live(Tables)
    BY <1>4, <2>2, Now
  <2> QED BY <2>1, <2>2
<1>9. v \in TablesType /\ v.row = t.row /\ v.assignment = t.assignment
  BY <1>5, <1>8, ChangedFleet DEF Good, Facts
<1>10. Good(v, shared, late)
  BY <1>8, <1>9, Unmoved
<1>11. Unused(v) # {} /\ Assignments \ Made(v) # {}
  <2>1. Unused(Tables) # {} /\ Assignments \ Made(Tables) # {}
    BY <1>1, RoomFor
  <2>2. Unused(v) = Unused(t) /\ Made(v) = Made(t)
    BY <1>9 DEF Unused, Made
  <2> QED BY <1>8, <2>1, <2>2
<1>12. \A b \in Live(v) : v.assignment[b].driver = d => v.assignment[b].order = s
  <2>1. Live(v) = Live(t)
    BY <1>9 DEF Live, Made
  <2>2. ASSUME NEW b \in Live(Tables), assignment[b].driver = d PROVE assignment[b].order = s
    BY <1>1, <1>2, <2>2 DEF Busy
  <2> QED BY <1>8, <1>9, <2>1, <2>2
<1>13. shared \subseteq Slots
  BY DEF IInv, TypeOK
<1>14. Good(u, shared \cup SharedIn(u), late)
  BY <1>3, <1>6, <1>10, <1>11, <1>12, <1>13, Joining
<1> QED BY <1>1, <1>7, <1>14, Now, CommitKeeps

-----------------------------------------------------------------------------
\* The whole.
LEMMA InitGood == Init => IInv
<1> SUFFICES ASSUME Init PROVE IInv
  OBVIOUS
<1>1. NoRow \in RowType /\ NoRow.driver = None /\ NoRow.order = None /\ NoRow.decision = NoStatus
  BY Words DEF NoRow, RowType
<1>2. NoAssignment \in AssignmentType /\ NoAssignment.status = "none"
  BY DEF NoAssignment, AssignmentType
<1>3. row = [r \in Rows |-> NoRow] /\ assignment = [a \in Assignments |-> NoAssignment]
  BY DEF Init
<1>4. order \in [Orders -> Statuses]
  BY Words DEF Init
<1>5. TypeOK
  BY <1>1, <1>2, <1>3, <1>4 DEF Init, TypeOK, BidStatuses
<1>6. Tables \in TablesType /\ Tables.row = row /\ Tables.assignment = assignment
  BY <1>5 DEF TypeOK, TablesType, Tables
<1>7. Made(Tables) = {} /\ Live(Tables) = {}
  BY <1>2, <1>3, <1>6 DEF Made, Live
<1>8. \A r \in Rows : Tables.row[r] = NoRow
  BY <1>3, <1>6
<1>9. Facts(Tables)
  BY <1>1, <1>6, <1>7, <1>8 DEF Facts, Linked, Plain, DeletedIsEnded
<1>10. None \notin Slots
  BY ContractAssumption
<1>11. Good(Tables, shared, late)
  BY <1>1, <1>7, <1>8, <1>9, <1>10 DEF Good, OneLive, Decided, LiveDecided, Held, TakenUp
<1> QED BY <1>5, <1>11 DEF IInv

\* No step leaves the invariant.
LEMMA NextGood == IInv /\ [Next]_vars => IInv'
<1> SUFFICES ASSUME IInv, [Next]_vars PROVE IInv'
  OBVIOUS
<1>1. ASSUME NEW c \in Companies, CompanyAction(c) PROVE IInv'
  <2>1. ASSUME NEW status \in {"rejected_by_shipper", "cancelled_by_company", "expired"},
               DismissBid(c, status)
        PROVE  IInv'
    BY <2>1, KeepDismiss
  <2> QED BY <1>1, <2>1, KeepSubmit, KeepAcceptBid, KeepAuto DEF CompanyAction
<1>2. ASSUME NEW a \in Assignments, AssignmentAction(a) PROVE IInv'
  <2>1. ASSUME NEW status \in Progress, AdvanceAssignment(a, status) PROVE IInv'
    BY <2>1, KeepAdvance
  <2>2. ASSUME NEW d \in Drivers, ReplaceAssignment(a, d) PROVE IInv'
    BY <2>2, KeepReplace
  <2> QED BY <1>2, <2>1, <2>2, KeepDelete, KeepConfirm, KeepConfirmFails, KeepReject, KeepCancel
          DEF AssignmentAction
<1>3. ASSUME NEW d \in Drivers, DriverAction(d) PROVE IInv'
  <2>1. ASSUME NEW s \in Slots, CreateAssignment(s, d) PROVE IInv'
    BY <2>1, KeepCreate
  <2> QED BY <1>3, <2>1, KeepGoOnline, KeepVehicle DEF DriverAction
<1>4. ASSUME NEW r \in Rows, RowAction(r) PROVE IInv'
  <2>1. ASSUME NEW o \in Street, AskDriver(r, o) PROVE IInv'
    BY <2>1, KeepAsk
  <2> QED BY <1>4, <2>1, KeepAccept, KeepCancelRequest, KeepStart, KeepComplete DEF RowAction
<1>5. ASSUME NEW gone \in SUBSET Slots, PartialCancelBatch(gone) PROVE IInv'
  BY <1>5, KeepPartial
<1>6. CASE UNCHANGED vars
  BY <1>6 DEF vars, IInv, TypeOK, Good, Facts, Linked, Plain, DeletedIsEnded, OneLive, Decided,
              LiveDecided, Held, TakenUp, Tables
<1>7. CASE CancelBatch
  BY <1>7, KeepCancelBatch
<1> QED BY <1>1, <1>2, <1>3, <1>4, <1>5, <1>6, <1>7 DEF Next

\* The inductive invariant holds in every state of the contract: apart from orders
\* shared by two assignments and drivers who answered one that was over, every
\* engaged decision on the batch is served and every live assignment has one.
THEOREM ContractInvariant == Spec => []IInv
<1> QED BY InitGood, NextGood, PTL DEF Spec

\* Every variable of the contract has its type in every state.
THEOREM ContractTypeCorrect == Spec => []TypeOK
<1>1. IInv => TypeOK
  BY DEF IInv
<1> QED BY <1>1, ContractInvariant, PTL

\* An assignable driver is spare, and a spare driver's request fits.
LEMMA NeverCollides == IInv => AssignmentNeverCollides
<1> SUFFICES ASSUME IInv, NEW d \in Drivers, NEW s \in Slots,
                    Unused(Tables) # {}, Assignable(d),
                    NEW used, used = Upsert(Tables, d, s)
             PROVE  used.tables.row[used.at].order \in {None, s}
  BY DEF AssignmentNeverCollides
<1>1. Spare(Tables, shared, d, s)
  BY FreeIsSpare, Now DEF Spare
<1>2. PICK fresh : fresh = Min(Unused(Tables))
  OBVIOUS
<1>3. Fit(used.tables, shared, late, d, s, used.at)
  BY <1>1, <1>2, Now, Upserted
<1> QED BY <1>3 DEF Fit

\* driverRequestMustStartFresh: the request upsertDriverRequest picks for an
\* assignable driver has no decision on another order, whatever the driver did on
\* the street or in the fleet before, so the decision's insert meets no duplicate.
THEOREM AssignmentsNeverCollide == Spec => []AssignmentNeverCollides
<1> QED BY NeverCollides, ContractInvariant, PTL

\* A decision that was spoken of and not called off is engaged or completed.
LEMMA LiveIsLive == IInv => AssignedIsLive
<1> SUFFICES ASSUME IInv, NEW a \in Live(Tables), assignment[a].status \in Pending,
                    assignment[a].order \notin shared, assignment[a].driver \notin late
             PROVE  row[assignment[a].row].decision \in Engaged \cup {JourneyCompleted}
  BY DEF AssignedIsLive
<1>1. Counts(Tables, shared, late, a)
  BY Now DEF Counts
<1>2. row[assignment[a].row].decision \in Spoken \ Terminal
  BY <1>1, Now DEF Good, LiveDecided
<1> QED BY <1>2 DEF Spoken

\* createJourneyDecisionForAssignment and the calls that end a decision: a driver
\* who has not answered an assignment has a decision that can be answered.
THEOREM AssignedStaysLive == Spec => []AssignedIsLive
<1> QED BY LiveIsLive, ContractInvariant, PTL

\* What serves a held decision is the assignment looked for.
LEMMA HeldIsServed == IInv => NoPhantomJob
<1> SUFFICES ASSUME IInv, NEW r \in Rows, row[r].order \in Slots \ shared, row[r].driver \notin late,
                    ~row[r].deleted, row[r].decision \in Engaged
             PROVE  \E a \in Made(Tables) : assignment[a].row = r /\ assignment[a].status \notin Freeing
  BY DEF NoPhantomJob
<1>1. RowCounts(Tables, shared, late, r)
  BY Now DEF RowCounts
<1>2. PICK a \in Assignments : Serves(Tables, a, r)
  BY <1>1, Now DEF Good, Held
<1> QED BY <1>2, Now DEF Serves

\* Every call that frees an assignment (refusal, recall, cancellation, replacement)
\* ends the driver's request and decision too: no driver is held by a job that is over.
THEOREM NoJobIsPhantom == Spec => []NoPhantomJob
<1> QED BY HeldIsServed, ContractInvariant, PTL
===============================================================================
