------------------------- MODULE DriverQueueProofs -------------------------
(***************************************************************************)
(* What TLAPS proves about DriverQueue, for every value of its constants.  *)
(*                                                                         *)
(* In four layers.  IInv: types, and the requests under the unique index, *)
(* through any interleaving.  LineInv: the places in the line, as long as  *)
(* nothing runs beside the expiry's pass, nor the re-dispatch beside a     *)
(* manual check-in.  QInv: what entries, requests and orders say of one    *)
(* another, while the operations that finish what they begin run one call  *)
(* at a time.  AnswersInv: what was said of an order and who is asked for  *)
(* it, from which every step is one of OrderDispatch.  A part of its own   *)
(* is about corrections, whatever interleaves.                             *)
(***************************************************************************)
EXTENDS QueueDispatch, WellFoundedInduction, TLAPS, FiniteSetTheorems

-----------------------------------------------------------------------------
(***************************************************************************)
(* Least and greatest elements.                                            *)
(***************************************************************************)
\* A non-empty set of naturals has a least element.
LEMMA LeastExists ==
    ASSUME NEW S, S \subseteq Nat, S # {}
    PROVE  \E m \in S : \A x \in S : m <= x
<1>1. \E m \in S : \A x \in S : ~(<<x, m>> \in OpToRel(<, Nat))
  BY NatLessThanWellFounded, WFMin
<1>2. PICK m \in S : \A x \in S : ~(<<x, m>> \in OpToRel(<, Nat))
  BY <1>1
<1>3. ASSUME NEW x \in S PROVE m <= x
  <2>1. x \in Nat /\ m \in Nat
    OBVIOUS
  <2>2. ~(x < m)
    BY <1>2, <2>1 DEF OpToRel
  <2> QED BY <2>1, <2>2
<1> QED BY <1>3

\* A non-empty set of naturals with an upper bound has a greatest element.
LEMMA GreatestExists ==
    ASSUME NEW N \in Nat, NEW S, S \subseteq 0..N, S # {}
    PROVE  \E m \in S : \A x \in S : m >= x
<1> DEFINE below == {N - x : x \in S}
<1>1. below \subseteq Nat /\ below # {}
  OBVIOUS
<1>2. PICK m \in below : \A x \in below : m <= x
  BY <1>1, LeastExists
<1>3. PICK s \in S : m = N - s
  OBVIOUS
<1>4. ASSUME NEW x \in S PROVE s >= x
  <2>1. m <= N - x
    BY <1>2
  <2> QED BY <2>1, <1>3
<1> QED BY <1>4

\* The least element of a set of naturals belongs to the set.
LEMMA MinIn ==
    ASSUME NEW S, S \subseteq Nat, S # {}
    PROVE  Min(S) \in S
BY LeastExists DEF Min

\* So does the greatest element of a bounded set.
LEMMA MaxIn ==
    ASSUME NEW N \in Nat, NEW S, S \subseteq 0..N, S # {}
    PROVE  Max(S) \in S
BY GreatestExists DEF Max


-----------------------------------------------------------------------------
(***************************************************************************)
(* The type of the tables, with the numbers bounded by N.  A handler may   *)
(* issue a number beyond MaxNumber; it is not committed then.  A row that  *)
(* has been inserted has its driver, and keeps it.                         *)
(***************************************************************************)
RowUpTo(N) ==
    {row \in [driver : Drivers \cup {None}, status : EntryStatuses, number : 0..N,
              order : Orders \cup {None}, refusals : 0..(RefusalLimit - 1),
              loading : 0..N, reserved : Shippers \cup {None}, deleted : BOOLEAN] :
        row.status = NoStatus \/ row.driver \in Drivers}

TablesUpTo(N) ==
    [entry : [Entries -> RowUpTo(N)], order : [Orders -> OrderStatuses],
     requests : SUBSET Request, declined : SUBSET (Drivers \X Orders),
     calledOff : SUBSET (Drivers \X Orders), delivered : SUBSET Orders,
     armed : SUBSET Drivers]

DriversStay(t, u) ==
    \A e \in Entries : t.entry[e].driver \in Drivers => u.entry[e].driver \in Drivers

(***************************************************************************)
(* No driver has two requests under the guard, and a driver that holds a   *)
(* waiting request has none: the offer that uses the waiting request up is *)
(* the driver's only one.                                                  *)
(***************************************************************************)
AtMostOne(t) ==
    \A r1, r2 \in t.requests :
        (r1.driver = r2.driver /\ {r1.status, r2.status} \subseteq GuardedStatuses) => r1 = r2

ArmedIsFree(t) == \A d \in t.armed : CanTakeRequest(t, d)

Guarded(t) == AtMostOne(t) /\ ArmedIsFree(t)

\* Being in the line is for good until it ends: an entry keeps its driver, and
\* one that is on a job or closed does not come back into the line.
InLineRow(row) == row.status \in InQueueStatuses /\ ~row.deleted

Onward(t, u) ==
    /\ u.armed \subseteq t.armed
    /\ \A e \in Entries :
          /\ t.entry[e].status # NoStatus =>
                u.entry[e].status # NoStatus /\ u.entry[e].driver = t.entry[e].driver
          /\ InLineRow(u.entry[e]) => InLineRow(t.entry[e])

\* Who has said no to which order, or was called off it.
Said(t) == t.declined \cup t.calledOff

\* What every update of the tables keeps.
Keeps(N, t, u) ==
    /\ u \in TablesUpTo(N)
    /\ DriversStay(t, u)
    /\ Guarded(t) => Guarded(u)

\* Tables bounded by MaxNumber have the type the model declares.
LEMMA BoundedIsTyped == TablesUpTo(MaxNumber) \subseteq Tables
BY DEF Tables, TablesUpTo, EntryRow, RowUpTo

\* A larger bound admits the same tables.
LEMMA BoundGrows ==
    ASSUME NEW N \in Nat, NEW t \in TablesUpTo(N)
    PROVE  t \in TablesUpTo(N + 1)
<1>1. RowUpTo(N) \subseteq RowUpTo(N + 1)
  BY DEF RowUpTo
<1> QED BY <1>1 DEF TablesUpTo

\* What is committed stays within MaxNumber.
LEMMA CommittedIsBounded ==
    ASSUME NEW N \in Nat, NEW t \in TablesUpTo(N), WithinBounds(t)
    PROVE  t \in TablesUpTo(MaxNumber)
<1>1. ASSUME NEW e \in Entries PROVE t.entry[e] \in RowUpTo(MaxNumber)
  BY <1>1, BoundsAssumption DEF TablesUpTo, RowUpTo, WithinBounds
<1> QED BY <1>1 DEF TablesUpTo

\* The first and the last row of a set of rows belong to it.
LEMMA FirstIn ==
    ASSUME NEW N \in Nat, NEW t \in TablesUpTo(N), NEW S, S \subseteq Entries, S # {}
    PROVE  FirstInLine(t, S) \in S
<1> DEFINE number(e) == t.entry[e].number
           numbers == {number(e) : e \in S}
<1>1. \A e \in S : e \in Nat /\ number(e) \in Nat
  BY BoundsAssumption DEF TablesUpTo, RowUpTo, Entries
<1>2. PICK n \in numbers : \A x \in numbers : n <= x
  <2>1. numbers \subseteq Nat /\ numbers # {}
    BY <1>1
  <2> HIDE DEF numbers
  <2> QED BY <2>1, LeastExists
<1> DEFINE front == {e \in S : number(e) = n}
<1>3. PICK e \in front : \A f \in front : e <= f
  <2>1. front \subseteq Nat /\ front # {}
    BY <1>1, <1>2
  <2> HIDE DEF front
  <2> QED BY <2>1, LeastExists
<1>4. ASSUME NEW f \in S
      PROVE  \/ number(e) < number(f)
             \/ number(e) = number(f) /\ e <= f
  <2>1. number(e) = n /\ e \in Nat /\ f \in Nat /\ n \in Nat /\ number(f) \in Nat
    BY <1>1, <1>3
  <2>2. n <= number(f)
    BY <1>2
  <2>3. number(f) = n => e <= f
    BY <1>3
  <2> HIDE DEF number
  <2> QED BY <2>1, <2>2, <2>3
<1>5. \E x \in S : \A f \in S : \/ t.entry[x].number < t.entry[f].number
                                \/ t.entry[x].number = t.entry[f].number /\ x <= f
  BY <1>3, <1>4
<1> QED BY <1>5 DEF FirstInLine

\* The row with the greatest number, too.
LEMMA LastIn ==
    ASSUME NEW N \in Nat, NEW t \in TablesUpTo(N), NEW S, S \subseteq Entries, S # {}
    PROVE  LastInLine(t, S) \in S
<1> DEFINE number(e) == t.entry[e].number
           numbers == {number(e) : e \in S}
<1>1. \A e \in S : e \in 0..MaxEntries /\ number(e) \in 0..N
  BY BoundsAssumption DEF TablesUpTo, RowUpTo, Entries
<1>2. PICK n \in numbers : \A x \in numbers : n >= x
  <2>1. numbers \subseteq 0..N /\ numbers # {}
    BY <1>1
  <2> HIDE DEF numbers
  <2> QED BY <2>1, GreatestExists
<1> DEFINE back == {e \in S : number(e) = n}
<1>3. PICK e \in back : \A f \in back : e >= f
  <2>1. back \subseteq 0..MaxEntries /\ back # {}
    BY <1>1, <1>2
  <2> HIDE DEF back
  <2> QED BY <2>1, GreatestExists, BoundsAssumption
<1>4. ASSUME NEW f \in S
      PROVE  \/ number(e) > number(f)
             \/ number(e) = number(f) /\ e >= f
  <2>1. number(e) = n /\ e \in Nat /\ f \in Nat /\ n \in Nat /\ number(f) \in Nat
    BY <1>1, <1>3
  <2>2. n >= number(f)
    BY <1>2
  <2>3. number(f) = n => e >= f
    BY <1>3
  <2> HIDE DEF number
  <2> QED BY <2>1, <2>2, <2>3
<1>5. \E x \in S : \A f \in S : \/ t.entry[x].number > t.entry[f].number
                                \/ t.entry[x].number = t.entry[f].number /\ x >= f
  BY <1>3, <1>4
<1> QED BY <1>5 DEF LastInLine

\* The numbers that are issued are one above the bound at most.
LEMMA NextNumbers ==
    ASSUME NEW N \in Nat, NEW t \in TablesUpTo(N), Entries # {}
    PROVE  NextQueueNumber(t) \in 0..(N + 1) /\ NextLoadingNumber(t) \in 0..(N + 1)
<1> DEFINE numbers == {t.entry[e].number : e \in Entries}
           loadings == {t.entry[e].loading : e \in Entries}
<1>1. /\ numbers \subseteq 0..N /\ numbers # {}
      /\ loadings \subseteq 0..N /\ loadings # {}
  BY DEF TablesUpTo, RowUpTo
<1>2. NextQueueNumber(t) = 1 + Max(numbers) /\ NextLoadingNumber(t) = 1 + Max(loadings)
  BY DEF NextQueueNumber, NextLoadingNumber
<1> HIDE DEF numbers, loadings
<1>3. Max(numbers) \in 0..N /\ Max(loadings) \in 0..N
  BY <1>1, MaxIn
<1> QED BY <1>2, <1>3

-----------------------------------------------------------------------------
(***************************************************************************)
(* The service helpers keep the tables typed.                              *)
(***************************************************************************)
\* The status ids belong to the vocabularies they are used in.
LEMMA StatusesAreTyped ==
    /\ EntryStatuses \subseteq Nat /\ OrderStatuses \subseteq Nat
    /\ LiveEntryStatuses \subseteq EntryStatuses /\ JobStatuses \subseteq EntryStatuses
    /\ HoldingStatuses \subseteq EntryStatuses
    /\ RequestStatuses \subseteq OrderStatuses
    /\ {NoStatus, Waiting, Requested, NoAnswer, Agreed, CancelledBeforeAccept,
        CancelledAfterAccept, CancelledByAdmin, JourneyCompleted} \subseteq EntryStatuses
    /\ {Waiting, Requested, AcceptedByShipper, JourneyCompleted, CancelledByShipper,
        CancelledByAdmin} \subseteq OrderStatuses
    /\ NoStatus \notin {Waiting, Requested, NoAnswer, Agreed, CancelledBeforeAccept,
                       CancelledAfterAccept, CancelledByAdmin, JourneyCompleted}
    /\ NoStatus \notin JobStatuses /\ InQueueStatuses \cap JobStatuses = {}
    /\ {Requested, AcceptedByShipper, GoToLoadingPlace, Loading, Loaded,
        JourneyStarted} = RequestStatuses
BY DEF EntryStatuses, OrderStatuses, LiveEntryStatuses, InQueueStatuses, JobStatuses,
       HoldingStatuses, RequestStatuses, ActiveOrderStatuses, ClosedOrderStatuses, NoStatus,
       Waiting, Requested, Agreed, AcceptedByShipper, GoToLoadingPlace, Loading, Loaded,
       JourneyStarted, JourneyCompleted, CancelledByShipper, CancelledAfterAccept,
       CancelledByAdmin, NoAnswer, CancelledBeforeAccept

\* Of the entries the queries find, the driver is known.
LEMMA LiveHasDriver ==
    ASSUME NEW N \in Nat, NEW t \in TablesUpTo(N), NEW e \in Entries, Live(t, e)
    PROVE  t.entry[e].driver \in Drivers
BY DEF TablesUpTo, RowUpTo, Live

\* Two updates in sequence keep what each of them keeps.
LEMMA KeepsTwice ==
    ASSUME NEW M, NEW N, NEW t, NEW u, NEW v, Keeps(M, t, u), Keeps(N, u, v)
    PROVE  Keeps(N, t, v)
BY DEF Keeps, DriversStay

\* Two updates in sequence take nobody back into the line if neither does.
LEMMA OnwardTwice ==
    ASSUME NEW t, NEW u, NEW v, Onward(t, u), Onward(u, v)
    PROVE  Onward(t, v)
BY DEF Onward

\* Nor does an update that leaves the entries alone.
LEMMA SameEntriesOnward ==
    ASSUME NEW t, NEW u, u.entry = t.entry, u.armed \subseteq t.armed
    PROVE  Onward(t, u)
BY DEF Onward

\* Ending requests and using up waiting requests guards nobody twice.
LEMMA FewerAreGuarded ==
    ASSUME NEW t, NEW u, Guarded(t), u.requests \subseteq t.requests, u.armed \subseteq t.armed
    PROVE  Guarded(u)
BY DEF Guarded, AtMostOne, ArmedIsFree, CanTakeRequest

\* Writing one row.
LEMMA RowKeeps ==
    ASSUME NEW N \in Nat, NEW t \in TablesUpTo(N), NEW e \in Entries, NEW row \in RowUpTo(N),
           row.driver = t.entry[e].driver
    PROVE  Keeps(N, t, [t EXCEPT !.entry[e] = row])
<1> DEFINE u == [t EXCEPT !.entry[e] = row]
<1>1. u \in TablesUpTo(N) /\ DriversStay(t, u)
  BY DEF TablesUpTo, DriversStay
<1>2. u.requests = t.requests /\ u.armed = t.armed
  BY DEF TablesUpTo
<1> HIDE DEF u
<1>3. Guarded(t) => Guarded(u)
  BY <1>2, FewerAreGuarded
<1>4. Keeps(N, t, u)
  BY <1>1, <1>3 DEF Keeps
<1> QED BY <1>4 DEF u

\* Writing one row that is in the line only if it was.
LEMMA RowOnward ==
    ASSUME NEW N \in Nat, NEW t \in TablesUpTo(N), NEW e \in Entries, NEW row,
           row.driver = t.entry[e].driver,
           t.entry[e].status # NoStatus => row.status # NoStatus,
           InLineRow(row) => InLineRow(t.entry[e])
    PROVE  Onward(t, [t EXCEPT !.entry[e] = row])
BY DEF TablesUpTo, Onward

\* Writing the status of one order.
LEMMA OrderKeeps ==
    ASSUME NEW N \in Nat, NEW t \in TablesUpTo(N), NEW o \in Orders, NEW s \in OrderStatuses
    PROVE  /\ Keeps(N, t, [t EXCEPT !.order[o] = s])
           /\ Onward(t, [t EXCEPT !.order[o] = s])
<1> DEFINE u == [t EXCEPT !.order[o] = s]
<1>1. u \in TablesUpTo(N) /\ DriversStay(t, u)
  BY DEF TablesUpTo, DriversStay
<1>2. u.requests = t.requests /\ u.armed = t.armed /\ u.entry = t.entry
  BY DEF TablesUpTo
<1> HIDE DEF u
<1>3. Guarded(t) => Guarded(u)
  BY <1>2, FewerAreGuarded
<1>4. Keeps(N, t, u) /\ Onward(t, u)
  BY <1>1, <1>2, <1>3, SameEntriesOnward DEF Keeps
<1> QED BY <1>4 DEF u

\* A row that takes another status and another order.
LEMMA RowRelinked ==
    ASSUME NEW N \in Nat, NEW row \in RowUpTo(N), NEW status \in EntryStatuses,
           NEW order \in Orders \cup {None}, row.driver \in Drivers
    PROVE  [row EXCEPT !.status = status, !.order = order] \in RowUpTo(N)
BY DEF RowUpTo

\* releaseRequestedOffer: rows lose their order, nothing else.
LEMMA ReleaseRetainedKeeps ==
    ASSUME NEW N \in Nat, NEW t \in TablesUpTo(N), NEW o \in Orders, NEW e \in Entries
    PROVE  /\ Keeps(N, t, ReleaseRetained(t, o, e))
           /\ Onward(t, ReleaseRetained(t, o, e))
           /\ ReleaseRetained(t, o, e).entry[e] = t.entry[e]
           /\ ReleaseRetained(t, o, e).requests = t.requests
           /\ ReleaseRetained(t, o, e).armed = t.armed
<1> DEFINE freed(f) == [t.entry[f] EXCEPT !.status = CancelledBeforeAccept, !.order = None]
           stale == HoldersIn(t, o, {NoAnswer}) \ {e}
           rows == [f \in Entries |-> IF f \in stale THEN freed(f) ELSE t.entry[f]]
<1>1. t.entry \in [Entries -> RowUpTo(N)]
  BY DEF TablesUpTo
<1>2. ASSUME NEW f \in stale
      PROVE  /\ freed(f) \in RowUpTo(N) /\ freed(f).driver = t.entry[f].driver
             /\ freed(f).status # NoStatus /\ InLineRow(t.entry[f])
  <2>1. f \in Entries /\ t.entry[f].driver \in Drivers
    BY LiveHasDriver DEF HoldersIn
  <2>2. freed(f) \in RowUpTo(N)
    BY <1>1, <2>1, RowRelinked, StatusesAreTyped
  <2>3. t.entry[f].status = NoAnswer /\ ~t.entry[f].deleted
    BY DEF HoldersIn, Live
  <2>4. InLineRow(t.entry[f])
    BY <2>3 DEF InLineRow, InQueueStatuses
  <2>5. freed(f).status = CancelledBeforeAccept /\ freed(f).driver = t.entry[f].driver
    BY <1>1, <2>1 DEF RowUpTo
  <2> QED BY <2>2, <2>4, <2>5 DEF CancelledBeforeAccept, NoStatus
<1> HIDE DEF freed, stale
<1>3. /\ rows \in [Entries -> RowUpTo(N)]
      /\ \A f \in Entries : /\ rows[f].driver = t.entry[f].driver
                            /\ t.entry[f].status # NoStatus => rows[f].status # NoStatus
                            /\ InLineRow(rows[f]) => InLineRow(t.entry[f])
  BY <1>1, <1>2
<1>4. rows[e] = t.entry[e]
  BY DEF stale
<1>5. ReleaseRetained(t, o, e) = [t EXCEPT !.entry = rows]
  BY DEF ReleaseRetained, freed, stale
<1> DEFINE u == [t EXCEPT !.entry = rows]
<1> HIDE DEF rows
<1>6. /\ u \in TablesUpTo(N) /\ DriversStay(t, u)
      /\ u.entry[e] = t.entry[e] /\ u.requests = t.requests /\ u.armed = t.armed
      /\ Onward(t, u)
  BY <1>3, <1>4 DEF TablesUpTo, DriversStay, Onward
<1> HIDE DEF u
<1>7. Guarded(t) => Guarded(u)
  BY <1>6, FewerAreGuarded
<1> QED BY <1>5, <1>6, <1>7 DEF Keeps, u

\* An offer to a driver that can take a request is the driver's only guarded one.
LEMMA OfferKeeps ==
    ASSUME NEW N \in Nat, NEW t \in TablesUpTo(N), NEW o \in Orders, NEW e \in Entries,
           t.entry[e].driver \in Drivers,
           Guarded(t) => CanTakeRequest(t, t.entry[e].driver)
    PROVE  /\ Keeps(N, t, Offer(t, o, e))
           /\ InLineRow(t.entry[e]) => Onward(t, Offer(t, o, e))
<1> DEFINE d == t.entry[e].driver
           r == ReleaseRetained(t, o, e)
           row == [t.entry[e] EXCEPT !.status = Requested, !.order = o]
           request == [driver |-> d, order |-> o, status |-> Requested]
           u == [r EXCEPT !.entry = [r.entry EXCEPT ![e] = row],
                          !.order = [r.order EXCEPT ![o] = Requested],
                          !.requests = r.requests \cup {request},
                          !.armed = r.armed \ {d}]
<1>1. /\ r \in TablesUpTo(N) /\ r.entry[e] = t.entry[e] /\ DriversStay(t, r)
      /\ r.requests = t.requests /\ r.armed = t.armed /\ Onward(t, r)
  BY ReleaseRetainedKeeps DEF Keeps
<1>2. request \in Request
  BY StatusesAreTyped DEF Request
<1>3. row \in RowUpTo(N) /\ row.driver = d /\ row.status # NoStatus
  <2>1. t.entry[e] \in RowUpTo(N)
    BY DEF TablesUpTo
  <2>2. row \in RowUpTo(N)
    BY <2>1, RowRelinked, StatusesAreTyped
  <2> QED BY <2>1, <2>2 DEF RowUpTo, Requested, NoStatus
<1>4. Offer(t, o, e) = u
  BY <1>1 DEF Offer, TablesUpTo
<1>5. request.driver = d /\ request.status = Requested
  OBVIOUS
<1> HIDE DEF d, r, row, request
<1>6. /\ [r.entry EXCEPT ![e] = row] \in [Entries -> RowUpTo(N)]
      /\ [r.order EXCEPT ![o] = Requested] \in [Orders -> OrderStatuses]
      /\ r.requests \cup {request} \in SUBSET Request
      /\ r.armed \ {d} \in SUBSET Drivers
      /\ \A f \in Entries : t.entry[f].driver \in Drivers =>
                              [r.entry EXCEPT ![e] = row][f].driver \in Drivers
  BY <1>1, <1>2, <1>3, StatusesAreTyped DEF TablesUpTo, DriversStay, d
<1>7. /\ u \in TablesUpTo(N) /\ DriversStay(t, u)
      /\ u.requests = t.requests \cup {request} /\ u.armed = t.armed \ {d}
      /\ u.entry = [r.entry EXCEPT ![e] = row]
  BY <1>1, <1>6 DEF TablesUpTo, DriversStay
<1> HIDE DEF u
<1>8. ASSUME Guarded(t) PROVE Guarded(u)
  <2>1. \A q \in t.requests : q.driver = d => q.status \notin GuardedStatuses
    BY <1>8 DEF CanTakeRequest, d
  <2>2. AtMostOne(u)
    BY <1>5, <1>7, <1>8, <2>1 DEF Guarded, AtMostOne
  <2>3. ArmedIsFree(u)
    BY <1>5, <1>7, <1>8 DEF Guarded, ArmedIsFree, CanTakeRequest
  <2> QED BY <2>2, <2>3 DEF Guarded
<1>9. ASSUME InLineRow(t.entry[e]) PROVE Onward(t, u)
  <2>1. Onward(r, u)
    <3>1. r.entry[e].driver = d /\ u.armed \subseteq r.armed
      BY <1>1, <1>7 DEF d
    <3>2. r.entry \in [Entries -> RowUpTo(N)]
      BY <1>1 DEF TablesUpTo
    <3> QED BY <1>1, <1>3, <1>7, <1>9, <3>1, <3>2 DEF Onward
  <2> QED BY <1>1, <2>1, OnwardTwice
<1> QED BY <1>4, <1>7, <1>8, <1>9 DEF Keeps

\* An update that does nothing.
LEMMA TakesNothing ==
    ASSUME NEW N \in Nat, NEW t \in TablesUpTo(N)
    PROVE  Keeps(N, t, t) /\ Onward(t, t)
BY DEF Keeps, DriversStay, Onward

\* Whom the scan ends on is one of those it may end on.
LEMMA FrontIsTaker ==
    ASSUME NEW N \in Nat, NEW t \in TablesUpTo(N), NEW o \in Orders, NEW excluded,
           Takers(t, o, excluded) # {}
    PROVE  FrontEntry(t, o, excluded) \in Takers(t, o, excluded)
<1>1. Takers(t, o, excluded) \subseteq Entries
  BY DEF Takers
<1> QED BY <1>1, FirstIn DEF FrontEntry

\* It is an inserted row whose driver can take a request.
LEMMA FrontTaker ==
    ASSUME NEW N \in Nat, NEW t \in TablesUpTo(N), NEW o \in Orders, NEW excluded,
           Takers(t, o, excluded) # {}
    PROVE  LET e == FrontEntry(t, o, excluded)
           IN  /\ e \in Entries
               /\ t.entry[e].driver \in Drivers
               /\ InLineRow(t.entry[e])
               /\ CanTakeRequest(t, t.entry[e].driver)
<1> DEFINE e == FrontEntry(t, o, excluded)
<1>2. e \in Takers(t, o, excluded)
  BY FrontIsTaker
<1>3. /\ e \in Entries /\ Live(t, e) /\ t.entry[e].status \in OfferableStatuses
      /\ CanTakeRequest(t, t.entry[e].driver)
  BY <1>2 DEF Takers
<1> HIDE DEF e
<1>4. InLineRow(t.entry[e])
  BY <1>3 DEF Live, InLineRow, OfferableStatuses, InQueueStatuses
<1> QED BY <1>3, <1>4, LiveHasDriver DEF e

\* offerToDriver, when somebody is found and when nobody is.
LEMMA OfferFifoKeeps ==
    ASSUME NEW N \in Nat, NEW t \in TablesUpTo(N), NEW o \in Orders, NEW excluded
    PROVE  Keeps(N, t, OfferFifo(t, o, excluded)) /\ Onward(t, OfferFifo(t, o, excluded))
<1>1. CASE Takers(t, o, excluded) = {}
  BY <1>1, TakesNothing DEF OfferFifo
<1>2. CASE Takers(t, o, excluded) # {}
  BY <1>2, FrontTaker, OfferKeeps DEF OfferFifo
<1> QED BY <1>1, <1>2

\* resetOrderToWaitingIfUnheld.
LEMMA ResetKeeps ==
    ASSUME NEW N \in Nat, NEW t \in TablesUpTo(N), NEW o \in Orders
    PROVE  Keeps(N, t, ResetToWaitingIfUnheld(t, o)) /\ Onward(t, ResetToWaitingIfUnheld(t, o))
BY TakesNothing, OrderKeeps, StatusesAreTyped DEF ResetToWaitingIfUnheld

\* offerToNextDriver.
LEMMA OfferToNextDriverKeeps ==
    ASSUME NEW N \in Nat, NEW t \in TablesUpTo(N), NEW o \in Orders, NEW d
    PROVE  Keeps(N, t, OfferToNextDriver(t, o, d)) /\ Onward(t, OfferToNextDriver(t, o, d))
BY ResetKeeps, OfferFifoKeeps DEF OfferToNextDriver

\* A refusal may move the entry to a number one beyond the bound.
LEMMA ChargeRefusalKeeps ==
    ASSUME NEW N \in Nat, NEW t \in TablesUpTo(N), NEW e \in Entries,
           NEW count \in 0..(RefusalLimit - 1), NEW back \in 0..N
    PROVE  /\ Keeps(N, t, ChargeRefusal(t, e, count, back))
           /\ Onward(t, ChargeRefusal(t, e, count, back))
<1> DEFINE moved == [t.entry[e] EXCEPT !.refusals = 0, !.number = back]
           counted == [t.entry[e] EXCEPT !.refusals = count + 1]
<1>1. t.entry[e] \in RowUpTo(N)
  BY DEF TablesUpTo
<1>2. CASE MovesBack(count)
  <2>1. /\ moved \in RowUpTo(N) /\ moved.driver = t.entry[e].driver
        /\ moved.status = t.entry[e].status /\ moved.deleted = t.entry[e].deleted
    <3>1. 0 \in 0..(RefusalLimit - 1)
      BY RefusalAssumption
    <3> QED BY <1>1, <3>1 DEF RowUpTo
  <2>2. ChargeRefusal(t, e, count, back) = [t EXCEPT !.entry[e] = moved]
    BY <1>2 DEF ChargeRefusal, TablesUpTo
  <2> HIDE DEF moved
  <2>3. InLineRow(moved) => InLineRow(t.entry[e])
    BY <2>1 DEF InLineRow
  <2> QED BY <2>1, <2>2, <2>3, RowKeeps, RowOnward
<1>3. CASE ~MovesBack(count)
  <2>1. count + 1 \in 0..(RefusalLimit - 1)
    <3>1. RefusalLimit \in Nat /\ count \in Nat /\ count + 1 < RefusalLimit
      BY <1>3, RefusalAssumption DEF MovesBack
    <3> QED BY <3>1
  <2>2. /\ counted \in RowUpTo(N) /\ counted.driver = t.entry[e].driver
        /\ counted.status = t.entry[e].status /\ counted.deleted = t.entry[e].deleted
    BY <1>1, <2>1 DEF RowUpTo
  <2>3. ChargeRefusal(t, e, count, back) = [t EXCEPT !.entry[e] = counted]
    BY <1>3 DEF ChargeRefusal, TablesUpTo
  <2> HIDE DEF counted
  <2>4. InLineRow(counted) => InLineRow(t.entry[e])
    BY <2>2 DEF InLineRow
  <2> QED BY <2>2, <2>3, <2>4, RowKeeps, RowOnward
<1> QED BY <1>2, <1>3

\* What an update keeps, it keeps under a larger bound.
LEMMA BoundGrowsKeeps ==
    ASSUME NEW N \in Nat, NEW t, NEW u, Keeps(N, t, u)
    PROVE  Keeps(N + 1, t, u)
BY BoundGrows DEF Keeps

\* applyRefusalPolicy: a move to the back may need one more number.
LEMMA ApplyRefusalKeeps ==
    ASSUME NEW N \in Nat, NEW t \in TablesUpTo(N), NEW e \in Entries,
           NEW count \in 0..(RefusalLimit - 1)
    PROVE  /\ Keeps(N + 1, t, ApplyRefusal(t, e, count))
           /\ Onward(t, ApplyRefusal(t, e, count))
<1>1. t \in TablesUpTo(N + 1) /\ NextQueueNumber(t) \in 0..(N + 1)
  BY BoundGrows, NextNumbers
<1> QED BY <1>1, ChargeRefusalKeeps DEF ApplyRefusal

\* Closing an entry.
LEMMA CloseEntryKeeps ==
    ASSUME NEW N \in Nat, NEW t \in TablesUpTo(N), NEW e \in Entries,
           NEW status \in EntryStatuses \ {NoStatus}, t.entry[e].driver \in Drivers
    PROVE  Keeps(N, t, CloseEntry(t, e, status)) /\ Onward(t, CloseEntry(t, e, status))
<1> DEFINE row == [t.entry[e] EXCEPT !.status = status, !.order = None, !.deleted = TRUE]
<1>1. /\ row \in RowUpTo(N) /\ row.driver = t.entry[e].driver
      /\ row.status = status /\ row.deleted
  <2>1. t.entry[e] \in RowUpTo(N)
    BY DEF TablesUpTo
  <2> QED BY <2>1 DEF RowUpTo
<1>2. CloseEntry(t, e, status) = [t EXCEPT !.entry[e] = row]
  BY DEF CloseEntry, TablesUpTo
<1> HIDE DEF row
<1>3. ~InLineRow(row)
  BY <1>1 DEF InLineRow
<1> QED BY <1>1, <1>2, <1>3, RowKeeps, RowOnward

\* Putting an entry back in the line.
LEMMA ReturnToLineKeeps ==
    ASSUME NEW N \in Nat, NEW t \in TablesUpTo(N), NEW e \in Entries,
           NEW status \in EntryStatuses, t.entry[e].driver \in Drivers
    PROVE  /\ Keeps(N, t, ReturnToLine(t, e, status))
           /\ (status # NoStatus /\ InLineRow(t.entry[e])) => Onward(t, ReturnToLine(t, e, status))
<1> DEFINE row == [t.entry[e] EXCEPT !.status = status, !.order = None]
<1>1. row \in RowUpTo(N) /\ row.driver = t.entry[e].driver /\ row.status = status
  <2>1. t.entry[e] \in RowUpTo(N)
    BY DEF TablesUpTo
  <2> QED BY <2>1 DEF RowUpTo
<1>2. ReturnToLine(t, e, status) = [t EXCEPT !.entry[e] = row]
  BY DEF ReturnToLine, TablesUpTo
<1> HIDE DEF row
<1> QED BY <1>1, <1>2, RowKeeps, RowOnward

\* Requests that end declined.
LEMMA DeclineKeeps ==
    ASSUME NEW N \in Nat, NEW t \in TablesUpTo(N), NEW gone, gone \subseteq t.requests
    PROVE  /\ Keeps(N, t, Decline(t, gone)) /\ Onward(t, Decline(t, gone))
           /\ Decline(t, gone).entry = t.entry
<1>1. {<<r.driver, r.order>> : r \in gone} \subseteq Drivers \X Orders
  BY DEF TablesUpTo, Request
<1>2. /\ Decline(t, gone) \in TablesUpTo(N) /\ Decline(t, gone).entry = t.entry
      /\ Decline(t, gone).requests \subseteq t.requests /\ Decline(t, gone).armed = t.armed
  BY <1>1 DEF Decline, TablesUpTo
<1> QED BY <1>2, FewerAreGuarded, SameEntriesOnward DEF Keeps, DriversStay

\* Requests an admin ends.
LEMMA CallOffKeeps ==
    ASSUME NEW N \in Nat, NEW t \in TablesUpTo(N), NEW gone, gone \subseteq t.requests
    PROVE  /\ Keeps(N, t, CallOff(t, gone)) /\ Onward(t, CallOff(t, gone))
           /\ CallOff(t, gone).entry = t.entry
<1>1. {<<r.driver, r.order>> : r \in gone} \subseteq Drivers \X Orders
  BY DEF TablesUpTo, Request
<1>2. /\ CallOff(t, gone) \in TablesUpTo(N) /\ CallOff(t, gone).entry = t.entry
      /\ CallOff(t, gone).requests \subseteq t.requests /\ CallOff(t, gone).armed = t.armed
  BY <1>1 DEF CallOff, TablesUpTo
<1> QED BY <1>2, FewerAreGuarded, SameEntriesOnward DEF Keeps, DriversStay

\* terminalizeQueueOrderRequest.
LEMMA TerminalizeKeeps ==
    ASSUME NEW N \in Nat, NEW t \in TablesUpTo(N), NEW d, NEW o
    PROVE  /\ Keeps(N, t, TerminalizeOrderRequest(t, d, o))
           /\ Onward(t, TerminalizeOrderRequest(t, d, o))
           /\ TerminalizeOrderRequest(t, d, o).entry = t.entry
<1>1. LiveRequests(t, d, o, {Requested}) \subseteq t.requests
  BY DEF LiveRequests
<1> QED BY <1>1, DeclineKeeps DEF TerminalizeOrderRequest

\* The entries that hold an order are inserted rows.
LEMMA HoldersHaveDrivers ==
    ASSUME NEW N \in Nat, NEW t \in TablesUpTo(N), NEW o, NEW statuses,
           NEW e \in HoldersIn(t, o, statuses)
    PROVE  /\ e \in Entries /\ t.entry[e].driver \in Drivers
           /\ t.entry[e].status # NoStatus /\ ~t.entry[e].deleted
           /\ t.entry[e].status \in statuses /\ t.entry[e].order = o
BY LiveHasDriver DEF HoldersIn, Live

\* An invitation that nobody's entry carries ends with the request alone.
LEMMA InvitationEnds ==
    ASSUME NEW N \in Nat, NEW t \in TablesUpTo(N), NEW q, TheirEntries(t, q) = {}
    PROVE  /\ EndInvitation(t, q).entry = t.entry /\ EndInvitation(t, q).order = t.order
           /\ EndInvitation(t, q).requests
                = t.requests \ LiveRequests(t, q.driver, q.order, RequestStatuses)
           /\ Said(EndInvitation(t, q)) = Said(t)
<1> DEFINE gone == LiveRequests(t, q.driver, q.order, RequestStatuses)
<1>1. EndInvitation(t, q) = [t EXCEPT !.requests = @ \ gone]
  BY DEF EndInvitation
<1> HIDE DEF gone
<1>2. /\ [t EXCEPT !.requests = @ \ gone].entry = t.entry
      /\ [t EXCEPT !.requests = @ \ gone].order = t.order
      /\ [t EXCEPT !.requests = @ \ gone].requests = t.requests \ gone
      /\ [t EXCEPT !.requests = @ \ gone].declined = t.declined
      /\ [t EXCEPT !.requests = @ \ gone].calledOff = t.calledOff
  BY DEF TablesUpTo
<1> QED BY <1>1, <1>2 DEF gone, Said

\* releaseAgreedEntryForUnselectedBidder.
LEMMA EndInvitationKeeps ==
    ASSUME NEW N \in Nat, NEW t \in TablesUpTo(N), NEW q
    PROVE  /\ Keeps(N, t, EndInvitation(t, q))
           /\ TheirEntries(t, q) = {} => Onward(t, EndInvitation(t, q))
<1> DEFINE gone == LiveRequests(t, q.driver, q.order, RequestStatuses)
           ended == [t EXCEPT !.requests = @ \ gone]
           e == Min(TheirEntries(t, q))
           row == [t.entry[e] EXCEPT !.status = Waiting, !.order = None, !.loading = 0]
<1>1. EndInvitation(t, q) = IF TheirEntries(t, q) = {} THEN ended
                            ELSE [ReturnToLine(ended, e, Waiting) EXCEPT !.entry[e].loading = 0]
  BY DEF EndInvitation
<1> HIDE DEF gone
<1>2. /\ ended \in TablesUpTo(N) /\ ended.entry = t.entry /\ DriversStay(t, ended)
      /\ ended.requests \subseteq t.requests /\ ended.armed = t.armed
  BY DEF TablesUpTo, DriversStay
<1> HIDE DEF ended
<1>3. Keeps(N, t, ended) /\ Onward(t, ended)
  BY <1>2, FewerAreGuarded, SameEntriesOnward DEF Keeps
<1>4. CASE TheirEntries(t, q) = {}
  BY <1>1, <1>3, <1>4
<1>5. CASE TheirEntries(t, q) # {}
  <2>1. e \in TheirEntries(t, q)
    <3>1. TheirEntries(t, q) \subseteq Nat
      BY BoundsAssumption DEF TheirEntries, HoldersIn, Entries
    <3> QED BY <1>5, <3>1, MinIn
  <2> HIDE DEF e
  <2>2. e \in Entries /\ t.entry[e].driver \in Drivers
    BY <2>1, HoldersHaveDrivers DEF TheirEntries
  <2>3. row \in RowUpTo(N) /\ row.driver = t.entry[e].driver
    <3>1. t.entry[e] \in RowUpTo(N) /\ Waiting \in EntryStatuses /\ 0 \in 0..N
      BY <2>2, StatusesAreTyped DEF TablesUpTo
    <3> QED BY <2>2, <3>1 DEF RowUpTo
  <2>4. EndInvitation(t, q) = [ended EXCEPT !.entry[e] = row]
    <3>1. ended.entry \in [Entries -> RowUpTo(N)] /\ ended.entry[e] = t.entry[e]
      BY <1>2 DEF TablesUpTo
    <3>2. [ended EXCEPT !.entry[e] = [ended.entry[e] EXCEPT !.status = Waiting, !.order = None,
                                                            !.loading = 0]]
            = [ReturnToLine(ended, e, Waiting) EXCEPT !.entry[e].loading = 0]
      BY <1>2, <2>2, <3>1 DEF ReturnToLine, TablesUpTo, RowUpTo
    <3> QED BY <1>1, <1>5, <3>1, <3>2
  <2> HIDE DEF row
  <2>5. Keeps(N, ended, EndInvitation(t, q))
    BY <1>2, <2>2, <2>3, <2>4, RowKeeps
  <2> QED BY <1>3, <1>5, <2>5, KeepsTwice
<1> QED BY <1>4, <1>5

\* rescanPendingQueueOrder.
LEMMA RescanKeeps ==
    ASSUME NEW N \in Nat, NEW t \in TablesUpTo(N)
    PROVE  Keeps(N, t, RescanPendingOrder(t)) /\ Onward(t, RescanPendingOrder(t))
<1> DEFINE served == {o \in PendingOrders(t) : Takers(t, o, {}) # {}}
<1>1. CASE served = {}
  BY <1>1, TakesNothing DEF RescanPendingOrder
<1>2. CASE served # {}
  <2>1. served \subseteq Orders /\ Orders \subseteq Nat
    BY BoundsAssumption DEF PendingOrders, Orders
  <2>2. Min(served) \in served
    <3> HIDE DEF served
    <3> QED BY <1>2, <2>1, MinIn
  <2>3. Min(served) \in Orders
    BY <2>1, <2>2
  <2>4. RescanPendingOrder(t) = OfferFifo(t, Min(served), {})
    BY <1>2 DEF RescanPendingOrder
  <2> HIDE DEF served
  <2> QED BY <2>3, <2>4, OfferFifoKeeps
<1> QED BY <1>1, <1>2

\* rejectOffer.
LEMMA RejectOfferKeeps ==
    ASSUME NEW N \in Nat, NEW t \in TablesUpTo(N), NEW o \in Orders, NEW asked,
           \A e \in asked : e \in Entries /\ t.entry[e].driver \in Drivers
    PROVE  /\ Keeps(N + 1, t, RejectOffer(t, o, asked))
           /\ (\A e \in asked : InLineRow(t.entry[e])) => Onward(t, RejectOffer(t, o, asked))
<1>1. CASE asked = {}
  <2>1. Keeps(N, t, t) /\ Onward(t, t)
    BY TakesNothing
  <2> QED BY <1>1, <2>1, BoundGrowsKeeps DEF RejectOffer
<1>2. CASE asked # {}
  <2> DEFINE e == FirstInLine(t, asked)
             count == t.entry[e].refusals
             d == t.entry[e].driver
             freed == ReturnToLine(t, e, CancelledBeforeAccept)
             charged == ApplyRefusal(freed, e, count)
             next == OfferToNextDriver(charged, o, d)
  <2>1. /\ e \in Entries /\ t.entry[e].driver \in Drivers
        /\ (\A f \in asked : InLineRow(t.entry[f])) => InLineRow(t.entry[e])
    <3>1. asked \subseteq Entries
      OBVIOUS
    <3>2. e \in asked
      BY <1>2, <3>1, FirstIn
    <3> QED BY <3>2
  <2>2. count \in 0..(RefusalLimit - 1)
    BY <2>1 DEF TablesUpTo, RowUpTo
  <2>3. RejectOffer(t, o, asked) = next
    BY <1>2 DEF RejectOffer
  <2> HIDE DEF e, count, d
  <2>4. Keeps(N, t, freed) /\ (InLineRow(t.entry[e]) => Onward(t, freed))
    BY <2>1, ReturnToLineKeeps, StatusesAreTyped
  <2> HIDE DEF freed
  <2>5. freed \in TablesUpTo(N)
    BY <2>4 DEF Keeps
  <2>6. Keeps(N + 1, freed, charged) /\ Onward(freed, charged)
    BY <2>1, <2>2, <2>5, ApplyRefusalKeeps
  <2> HIDE DEF charged
  <2>7. charged \in TablesUpTo(N + 1)
    BY <2>6 DEF Keeps
  <2>8. Keeps(N + 1, charged, next) /\ Onward(charged, next)
    BY <2>7, OfferToNextDriverKeeps
  <2> HIDE DEF next
  <2> QED BY <2>1, <2>3, <2>4, <2>6, <2>8, KeepsTwice, OnwardTwice
<1> QED BY <1>1, <1>2

\* releaseQueueEntryAfterDriverCancel.
LEMMA ReleaseAfterDriverCancelKeeps ==
    ASSUME NEW N \in Nat, NEW t \in TablesUpTo(N), NEW o \in Orders
    PROVE  /\ Keeps(N + 1, t, ReleaseAfterDriverCancel(t, o))
           /\ Onward(t, ReleaseAfterDriverCancel(t, o))
<1> DEFINE jobs == HoldersIn(t, o, JobStatuses)
<1>1. CASE jobs = {}
  <2>1. Keeps(N, t, t) /\ Onward(t, t)
    BY TakesNothing
  <2> QED BY <1>1, <2>1, BoundGrowsKeeps DEF ReleaseAfterDriverCancel
<1>2. CASE jobs # {}
  <2> DEFINE e == FirstInLine(t, jobs)
             count == t.entry[e].refusals
             d == t.entry[e].driver
             closed == CloseEntry(t, e, CancelledAfterAccept)
             charged == ApplyRefusal(closed, e, count)
             next == OfferToNextDriver(charged, o, d)
  <2>1. e \in Entries /\ t.entry[e].driver \in Drivers
    <3>1. jobs \subseteq Entries
      BY DEF HoldersIn
    <3>2. e \in jobs
      BY <1>2, <3>1, FirstIn
    <3> QED BY <3>2, HoldersHaveDrivers
  <2>2. count \in 0..(RefusalLimit - 1)
    BY <2>1 DEF TablesUpTo, RowUpTo
  <2>3. ReleaseAfterDriverCancel(t, o) = next
    BY <1>2 DEF ReleaseAfterDriverCancel
  <2> HIDE DEF e, count, d
  <2>4. Keeps(N, t, closed) /\ Onward(t, closed)
    BY <2>1, CloseEntryKeeps, StatusesAreTyped
  <2> HIDE DEF closed
  <2>5. closed \in TablesUpTo(N)
    BY <2>4 DEF Keeps
  <2>6. Keeps(N + 1, closed, charged) /\ Onward(closed, charged)
    BY <2>1, <2>2, <2>5, ApplyRefusalKeeps
  <2> HIDE DEF charged
  <2>7. charged \in TablesUpTo(N + 1)
    BY <2>6 DEF Keeps
  <2>8. Keeps(N + 1, charged, next) /\ Onward(charged, next)
    BY <2>7, OfferToNextDriverKeeps
  <2> HIDE DEF next
  <2> QED BY <2>1, <2>3, <2>4, <2>6, <2>8, KeepsTwice, OnwardTwice
<1> QED BY <1>1, <1>2

\* releaseEntryOnOrderCancel.
LEMMA ReleaseOnOrderCancelKeeps ==
    ASSUME NEW N \in Nat, NEW t \in TablesUpTo(N), NEW o \in Orders
    PROVE  Keeps(N, t, ReleaseOnOrderCancel(t, o)) /\ Onward(t, ReleaseOnOrderCancel(t, o))
<1>1. CASE Holders(t, o) = {}
  BY <1>1, TakesNothing DEF ReleaseOnOrderCancel
<1>2. CASE Holders(t, o) # {}
  <2> DEFINE e == FirstInLine(t, Holders(t, o))
             done == TerminalizeOrderRequest(t, t.entry[e].driver, o)
  <2>1. e \in Entries /\ t.entry[e].driver \in Drivers /\ ~t.entry[e].deleted
    <3>1. Holders(t, o) \subseteq Entries
      BY DEF Holders, HoldersIn
    <3>2. e \in Holders(t, o)
      BY <1>2, <3>1, FirstIn
    <3> QED BY <3>2, HoldersHaveDrivers DEF Holders
  <2>2. \/ /\ InLineRow(t.entry[e])
           /\ ReleaseOnOrderCancel(t, o) = ReturnToLine(done, e, Waiting)
        \/ ReleaseOnOrderCancel(t, o) = CloseEntry(done, e, CancelledAfterAccept)
    <3>1. t.entry[e].status \in {Requested, NoAnswer} => InLineRow(t.entry[e])
      BY <2>1 DEF InLineRow, InQueueStatuses
    <3> QED BY <1>2, <3>1 DEF ReleaseOnOrderCancel
  <2>3. Keeps(N, t, done) /\ Onward(t, done) /\ done.entry = t.entry
    BY TerminalizeKeeps
  <2> HIDE DEF done, e
  <2>4. done \in TablesUpTo(N) /\ done.entry[e].driver \in Drivers
    BY <2>1, <2>3 DEF Keeps
  <2>5. /\ Keeps(N, done, ReturnToLine(done, e, Waiting))
        /\ InLineRow(t.entry[e]) => Onward(done, ReturnToLine(done, e, Waiting))
        /\ Keeps(N, done, CloseEntry(done, e, CancelledAfterAccept))
        /\ Onward(done, CloseEntry(done, e, CancelledAfterAccept))
    BY <2>1, <2>3, <2>4, ReturnToLineKeeps, CloseEntryKeeps, StatusesAreTyped
  <2> QED BY <2>2, <2>3, <2>5, KeepsTwice, OnwardTwice
<1> QED BY <1>1, <1>2

\* updateQueueEntryOnJourneyProgress.
LEMMA MirrorProgressKeeps ==
    ASSUME NEW N \in Nat, NEW t \in TablesUpTo(N), NEW o \in Orders, NEW status \in JobStatuses
    PROVE  Keeps(N, t, MirrorProgress(t, o, status)) /\ Onward(t, MirrorProgress(t, o, status))
<1> DEFINE jobs == HoldersIn(t, o, JobStatuses \ {JourneyStarted})
           e == Min(jobs)
<1>1. CASE jobs = {}
  BY <1>1, TakesNothing DEF MirrorProgress
<1>2. CASE jobs # {}
  <2> DEFINE row == [t.entry[e] EXCEPT !.status = status]
  <2>1. jobs \subseteq Entries /\ Entries \subseteq Nat
    BY BoundsAssumption DEF HoldersIn, Entries
  <2>2. e \in jobs
    <3> HIDE DEF jobs
    <3> QED BY <1>2, <2>1, MinIn
  <2>3. e \in Entries /\ t.entry[e].driver \in Drivers
    BY <2>2, HoldersHaveDrivers
  <2>4. MirrorProgress(t, o, status) = [t EXCEPT !.entry[e] = row]
    BY <1>2 DEF MirrorProgress, TablesUpTo
  <2> HIDE DEF jobs, e
  <2>5. /\ row \in RowUpTo(N) /\ row.driver = t.entry[e].driver
        /\ row.status # NoStatus /\ ~InLineRow(row)
    BY <2>3, StatusesAreTyped DEF TablesUpTo, RowUpTo, InLineRow
  <2> HIDE DEF row
  <2> QED BY <2>3, <2>4, <2>5, RowKeeps, RowOnward
<1> QED BY <1>1, <1>2

\* closeEntryOnJourneyCompletion.
LEMMA CloseOnCompletionKeeps ==
    ASSUME NEW N \in Nat, NEW t \in TablesUpTo(N), NEW o \in Orders
    PROVE  Keeps(N, t, CloseOnCompletion(t, o)) /\ Onward(t, CloseOnCompletion(t, o))
<1> DEFINE jobs == HoldersIn(t, o, JobStatuses)
           e == Min(jobs)
<1>1. CASE jobs = {}
  BY <1>1, TakesNothing DEF CloseOnCompletion
<1>2. CASE jobs # {}
  <2>1. jobs \subseteq Entries /\ Entries \subseteq Nat
    BY BoundsAssumption DEF HoldersIn, Entries
  <2>2. e \in jobs
    <3> HIDE DEF jobs
    <3> QED BY <1>2, <2>1, MinIn
  <2>3. e \in Entries /\ t.entry[e].driver \in Drivers
    BY <2>2, HoldersHaveDrivers
  <2>4. CloseOnCompletion(t, o) = CloseEntry(t, e, JourneyCompleted)
    BY <1>2 DEF CloseOnCompletion
  <2> HIDE DEF jobs, e
  <2> QED BY <2>3, <2>4, CloseEntryKeeps, StatusesAreTyped
<1> QED BY <1>1, <1>2

-----------------------------------------------------------------------------
(***************************************************************************)
(* The inductive invariant: typed tables in which every inserted row has   *)
(* its driver, no driver asked twice, and calls and passes that name rows  *)
(* that have been inserted.                                                *)
(***************************************************************************)
TablesInv(t) == t \in TablesUpTo(MaxNumber) /\ Guarded(t)

CallsInv(t, calls) ==
    /\ calls \subseteq Calls
    /\ \A call \in calls : call.step = "stamp" => t.entry[call.entry].driver \in Drivers

PassInv(t, pass) ==
    /\ pass \in Pass
    /\ \A x \in pass.todo : t.entry[x.entry].driver \in Drivers
    /\ pass.at = "charge" => pass.expired \in Expired
    /\ pass.at \in {"seek", "offer"} => pass.order \in Orders
    /\ pass.at = "offer" => pass.front \in Entries

IInv == TablesInv(tables) /\ CallsInv(tables, inFlight) /\ PassInv(tables, sweep)

\* The inductive invariant implies what the runs check.
LEMMA InvariantIsEnough == IInv => TypeOK /\ OneGuardedRequest
BY BoundedIsTyped
   DEF IInv, TablesInv, CallsInv, PassInv, TypeOK, OneGuardedRequest, Guarded, AtMostOne

\* A pass that is not under way.
LEMMA IdleIsTyped == ASSUME NEW t PROVE PassInv(t, SweepIdle)
BY BoundsAssumption DEF PassInv, SweepIdle, Pass

\* The empty tables satisfy the invariant.
LEMMA InitInv == Init => IInv
<1> SUFFICES ASSUME Init PROVE IInv
  OBVIOUS
<1>1. NoRow \in RowUpTo(MaxNumber)
  <2>1. 0 \in 0..MaxNumber /\ 0 \in 0..(RefusalLimit - 1)
    BY BoundsAssumption, RefusalAssumption
  <2> QED BY <2>1, StatusesAreTyped DEF NoRow, RowUpTo
<1>2. EmptyTables \in TablesUpTo(MaxNumber)
  BY <1>1 DEF EmptyTables, TablesUpTo, OrderStatuses
<1>3. Guarded(EmptyTables)
  BY DEF EmptyTables, Guarded, AtMostOne, ArmedIsFree
<1>4. CallsInv(EmptyTables, {})
  BY DEF CallsInv
<1> QED BY <1>2, <1>3, <1>4, IdleIsTyped DEF Init, IInv, TablesInv

\* Whatever is committed, the calls and the pass under way stay typed.
LEMMA OthersStay ==
    ASSUME NEW t, NEW u, DriversStay(t, u)
    PROVE  /\ \A calls : CallsInv(t, calls) => CallsInv(u, calls)
           /\ \A pass : PassInv(t, pass) => PassInv(u, pass)
<1>1. ASSUME NEW calls, CallsInv(t, calls) PROVE CallsInv(u, calls)
  <2>1. \A call \in calls : call.step = "stamp" => call.entry \in Entries
    BY <1>1 DEF CallsInv, Calls, AcceptCalls, StampCalls, CloseCalls, DismissCalls,
     Corrections
  <2> QED BY <1>1, <2>1 DEF CallsInv, DriversStay
<1>2. ASSUME NEW pass, PassInv(t, pass) PROVE PassInv(u, pass)
  <2>1. \A x \in pass.todo : x.entry \in Entries
    BY <1>2 DEF PassInv, Pass, Expired
  <2> QED BY <1>2, <2>1 DEF PassInv, DriversStay
<1> QED BY <1>1, <1>2

\* What a part of a call commits leaves everybody else typed.
LEMMA CommitKeeps ==
    ASSUME IInv, NEW N \in Nat, NEW u, Keeps(N, tables, u), Commit(u)
    PROVE  /\ TablesInv(tables')
           /\ DriversStay(tables, tables')
           /\ CallsInv(tables', inFlight)
           /\ PassInv(tables', sweep)
           /\ Onward(tables, u) => Onward(tables, tables')
<1>1. u \in TablesUpTo(MaxNumber) /\ Guarded(u) /\ tables' = u /\ DriversStay(tables, u)
  BY CommittedIsBounded DEF IInv, TablesInv, Keeps, Commit
<1>2. CallsInv(u, inFlight) /\ PassInv(u, sweep)
  BY <1>1, OthersStay DEF IInv
<1> QED BY <1>1, <1>2 DEF TablesInv

\* A handler that is one transaction keeps the invariant if its update does.
LEMMA TransactionKeeps ==
    ASSUME IInv, NEW N \in Nat, NEW u, Keeps(N, tables, u), Transaction(u)
    PROVE  IInv' /\ (Onward(tables, u) => Onward(tables, tables'))
<1>1. Commit(u) /\ inFlight' = inFlight /\ sweep' = sweep
  BY DEF Transaction
<1>2. /\ TablesInv(tables') /\ CallsInv(tables', inFlight) /\ PassInv(tables', sweep)
      /\ Onward(tables, u) => Onward(tables, tables')
  BY <1>1, CommitKeeps
<1> QED BY <1>1, <1>2 DEF IInv

-----------------------------------------------------------------------------
(***************************************************************************)
(* Every step keeps the invariant: one lemma per action.                   *)
(***************************************************************************)
\* The part of the invariant nearly every step starts from.
LEMMA TypedNow == IInv => tables \in TablesUpTo(MaxNumber) /\ MaxNumber \in Nat
BY BoundsAssumption DEF IInv, TablesInv

\* A check-in inserts a row with its driver, then offers one order.
LEMMA JoinLineInv ==
    ASSUME IInv, NEW d \in Drivers, NEW shipper \in Reservations, JoinLine(d, shipper)
    PROVE  IInv'
<1> DEFINE e == Min(FreeRows)
           number == NextQueueNumber(tables)
           row == [NoRow EXCEPT !.driver = d, !.status = Waiting, !.number = number,
                                !.reserved = shipper]
           joined == [tables EXCEPT !.entry[e] = row]
           M == MaxNumber + 1
<1>1. M \in Nat /\ tables \in TablesUpTo(M)
  BY TypedNow, BoundGrows
<1>2. e \in Entries
  <2>1. FreeRows \subseteq Nat /\ FreeRows \subseteq Entries /\ FreeRows # {}
    BY BoundsAssumption DEF JoinLine, FreeRows, Entries
  <2> QED BY <2>1, MinIn
<1>3. number \in 0..M
  BY <1>2, TypedNow, NextNumbers
<1>4. row \in RowUpTo(M)
  <2>1. 0 \in 0..M /\ 0 \in 0..(RefusalLimit - 1) /\ shipper \in Shippers \cup {None}
    BY <1>1, RefusalAssumption, OperationsAssumption
  <2> HIDE DEF M, number
  <2> QED BY <1>3, <2>1, StatusesAreTyped DEF NoRow, RowUpTo
<1>5. row.driver = d
  BY DEF NoRow
<1>6. Transaction(RescanPendingOrder(joined))
  BY DEF JoinLine
<1> HIDE DEF e, row, number, M
<1>7. /\ joined \in TablesUpTo(M) /\ DriversStay(tables, joined)
      /\ joined.requests = tables.requests /\ joined.armed = tables.armed
  BY <1>1, <1>2, <1>4, <1>5 DEF TablesUpTo, DriversStay
<1> HIDE DEF joined
<1>8. Keeps(M, tables, joined)
  BY <1>7, FewerAreGuarded DEF Keeps
<1>9. Keeps(M, tables, RescanPendingOrder(joined))
  BY <1>1, <1>7, <1>8, RescanKeeps, KeepsTwice
<1> QED BY <1>1, <1>6, <1>9, TransactionKeeps

\* The entries of a driver that are in the line.
LEMMA NewestInLine ==
    ASSUME NEW t, NEW d, InLine(t, d) # {}
    PROVE  Max(InLine(t, d)) \in Entries /\ Max(InLine(t, d)) \in InLine(t, d)
<1>1. InLine(t, d) \subseteq 0..MaxEntries /\ InLine(t, d) \subseteq Entries
  BY BoundsAssumption DEF InLine, Entries
<1> QED BY <1>1, MaxIn, BoundsAssumption

\* A repeated check-in writes the reservation only.
LEMMA CheckInAgainInv ==
    ASSUME IInv, NEW d \in Drivers, NEW shipper \in Reservations, CheckInAgain(d, shipper)
    PROVE  IInv' /\ Onward(tables, tables')
<1> DEFINE e == Max(InLine(tables, d))
           row == [tables.entry[e] EXCEPT !.reserved = shipper]
           u == [tables EXCEPT !.entry[e] = row]
<1>1. e \in Entries /\ tables \in TablesUpTo(MaxNumber) /\ MaxNumber \in Nat
  BY NewestInLine, TypedNow DEF CheckInAgain
<1>2. Transaction(u)
  BY <1>1 DEF CheckInAgain, TablesUpTo
<1> HIDE DEF e
<1>3. /\ row \in RowUpTo(MaxNumber) /\ row.driver = tables.entry[e].driver
      /\ row.status = tables.entry[e].status /\ row.deleted = tables.entry[e].deleted
  BY <1>1, OperationsAssumption DEF TablesUpTo, RowUpTo
<1> HIDE DEF row
<1>4. Keeps(MaxNumber, tables, u) /\ Onward(tables, u)
  BY <1>1, <1>3, RowKeeps, RowOnward DEF InLineRow
<1> QED BY <1>1, <1>2, <1>4, TransactionKeeps

\* A checkout closes the row and passes an unanswered order on.
LEMMA CheckoutInv ==
    ASSUME IInv, NEW d \in Drivers, Checkout(d)
    PROVE  IInv' /\ Onward(tables, tables')
<1> DEFINE mine == {e \in Entries : Live(tables, e) /\ tables.entry[e].driver = d}
           e == LastInLine(tables, mine)
           o == tables.entry[e].order
           closed == CloseEntry(tables, e, CancelledAfterAccept)
           ended == TerminalizeOrderRequest(closed, d, o)
           passed == OfferToNextDriver(ended, o, d)
<1>1. tables \in TablesUpTo(MaxNumber) /\ MaxNumber \in Nat
  BY TypedNow
<1>2. e \in Entries /\ tables.entry[e].driver \in Drivers
  <2>1. mine # {} /\ mine \subseteq Entries
    BY DEF Checkout
  <2>2. e \in mine
    <3> HIDE DEF mine
    <3> QED BY <1>1, <2>1, LastIn
  <2> QED BY <2>2
<1>3. \/ o # None /\ Transaction(passed)
      \/ Transaction(closed)
  BY DEF Checkout
<1>4. o \in Orders \cup {None}
  <2> HIDE DEF e
  <2> QED BY <1>1, <1>2 DEF TablesUpTo, RowUpTo
<1> HIDE DEF e, o
<1>5. Keeps(MaxNumber, tables, closed) /\ Onward(tables, closed)
  BY <1>1, <1>2, CloseEntryKeeps, StatusesAreTyped
<1> HIDE DEF closed
<1>6. CASE Transaction(closed)
  BY <1>1, <1>5, <1>6, TransactionKeeps
<1>7. CASE o # None /\ Transaction(passed)
  <2>1. o \in Orders
    BY <1>4, <1>7
  <2>2. Keeps(MaxNumber, closed, ended) /\ Onward(closed, ended)
    BY <1>1, <1>5, TerminalizeKeeps DEF Keeps
  <2> HIDE DEF ended
  <2>3. Keeps(MaxNumber, ended, passed) /\ Onward(ended, passed)
    BY <1>1, <2>1, <2>2, OfferToNextDriverKeeps DEF Keeps
  <2> HIDE DEF passed
  <2>4. Keeps(MaxNumber, tables, passed) /\ Onward(tables, passed)
    BY <1>5, <2>2, <2>3, KeepsTwice, OnwardTwice
  <2> QED BY <1>1, <1>7, <2>4, TransactionKeeps
<1> QED BY <1>3, <1>6, <1>7

\* An admin removal, with and without an order to pass on.
LEMMA RemoveEntryInv ==
    ASSUME IInv, NEW e \in Entries, RemoveEntry(e)
    PROVE  IInv' /\ Onward(tables, tables')
<1> DEFINE o == tables.entry[e].order
           d == tables.entry[e].driver
           closed == CloseEntry(tables, e, CancelledByAdmin)
           gone == LiveRequests(closed, d, o, {Requested, AcceptedByShipper})
           ended == CallOff(closed, gone)
           passed == OfferToNextDriver(ended, o, d)
<1>1. tables \in TablesUpTo(MaxNumber) /\ MaxNumber \in Nat
  BY TypedNow
<1>2. d \in Drivers
  BY <1>1, LiveHasDriver DEF RemoveEntry
<1>3. \/ o # None /\ Transaction(passed)
      \/ Transaction(closed)
  BY DEF RemoveEntry
<1>4. o \in Orders \cup {None}
  BY <1>1 DEF TablesUpTo, RowUpTo
<1>5. Keeps(MaxNumber, tables, closed) /\ Onward(tables, closed)
  BY <1>1, <1>2, CloseEntryKeeps, StatusesAreTyped
<1> HIDE DEF d, o, closed
<1>6. CASE Transaction(closed)
  BY <1>1, <1>5, <1>6, TransactionKeeps
<1>7. CASE o # None /\ Transaction(passed)
  <2>1. o \in Orders /\ gone \subseteq closed.requests
    BY <1>4, <1>7 DEF LiveRequests
  <2> HIDE DEF gone
  <2>2. Keeps(MaxNumber, closed, ended) /\ Onward(closed, ended)
    BY <1>1, <1>5, <2>1, CallOffKeeps DEF Keeps
  <2> HIDE DEF ended
  <2>3. Keeps(MaxNumber, ended, passed) /\ Onward(ended, passed)
    BY <1>1, <2>1, <2>2, OfferToNextDriverKeeps DEF Keeps
  <2> HIDE DEF passed
  <2>4. Keeps(MaxNumber, tables, passed) /\ Onward(tables, passed)
    BY <1>5, <2>2, <2>3, KeepsTwice, OnwardTwice
  <2> QED BY <1>1, <1>7, <2>4, TransactionKeeps
<1> QED BY <1>3, <1>6, <1>7

\* A new number for one row.
LEMMA OverrideEntryInv ==
    ASSUME IInv, NEW e \in Entries, NEW n \in 1..MaxNumber, OverrideEntry(e, n)
    PROVE  IInv' /\ Onward(tables, tables')
<1> DEFINE row == [tables.entry[e] EXCEPT !.number = n]
           u == [tables EXCEPT !.entry[e] = row]
<1>1. tables \in TablesUpTo(MaxNumber) /\ MaxNumber \in Nat
  BY TypedNow
<1>2. Transaction(u)
  BY <1>1 DEF OverrideEntry, TablesUpTo
<1>3. /\ row \in RowUpTo(MaxNumber) /\ row.driver = tables.entry[e].driver
      /\ row.status = tables.entry[e].status /\ row.deleted = tables.entry[e].deleted
  BY <1>1 DEF TablesUpTo, RowUpTo
<1> HIDE DEF row
<1>4. Keeps(MaxNumber, tables, u) /\ Onward(tables, u)
  BY <1>1, <1>3, RowKeeps, RowOnward DEF InLineRow
<1> QED BY <1>1, <1>2, <1>4, TransactionKeeps

\* A waiting request is given up.
LEMMA CancelWaitingRequestInv ==
    ASSUME IInv, NEW d \in Drivers, CancelWaitingRequest(d)
    PROVE  IInv' /\ Onward(tables, tables')
<1> DEFINE u == [tables EXCEPT !.armed = @ \ {d}]
<1>1. tables \in TablesUpTo(MaxNumber) /\ MaxNumber \in Nat /\ Transaction(u)
  BY TypedNow DEF CancelWaitingRequest
<1>2. /\ u \in TablesUpTo(MaxNumber) /\ DriversStay(tables, u)
      /\ u.requests = tables.requests /\ u.armed \subseteq tables.armed
      /\ u.entry = tables.entry
  BY <1>1 DEF TablesUpTo, DriversStay
<1> HIDE DEF u
<1>3. Keeps(MaxNumber, tables, u) /\ Onward(tables, u)
  BY <1>2, FewerAreGuarded, SameEntriesOnward DEF Keeps
<1> QED BY <1>1, <1>3, TransactionKeeps

\* A new order is offered at once.
LEMMA PlaceOrderInv ==
    ASSUME IInv, NEW o \in Orders, PlaceOrder(o)
    PROVE  IInv' /\ Onward(tables, tables')
<1> DEFINE placed == [tables EXCEPT !.order[o] = Waiting]
           u == OfferFifo(placed, o, {})
<1>1. tables \in TablesUpTo(MaxNumber) /\ MaxNumber \in Nat /\ Transaction(u)
  BY TypedNow DEF PlaceOrder
<1>2. Keeps(MaxNumber, tables, placed) /\ Onward(tables, placed)
  BY <1>1, OrderKeeps, StatusesAreTyped
<1> HIDE DEF placed
<1>3. Keeps(MaxNumber, tables, u) /\ Onward(tables, u)
  <2>1. placed \in TablesUpTo(MaxNumber)
    BY <1>2 DEF Keeps
  <2>2. Keeps(MaxNumber, placed, u) /\ Onward(placed, u)
    BY <1>1, <2>1, OfferFifoKeeps
  <2> QED BY <1>2, <2>2, KeepsTwice, OnwardTwice
<1> QED BY <1>1, <1>3, TransactionKeeps

\* A manual dispatch to the front of the line.
LEMMA DispatchToFrontInv ==
    ASSUME IInv, NEW o \in Orders, DispatchToFront(o)
    PROVE  IInv' /\ Onward(tables, tables')
BY TypedNow, OfferFifoKeeps, TransactionKeeps DEF DispatchToFront

\* A manual dispatch to a named row.
LEMMA DispatchToEntryInv ==
    ASSUME IInv, NEW o \in Orders, NEW e \in Entries, DispatchToEntry(o, e)
    PROVE  IInv' /\ Onward(tables, tables')
<1>1. tables \in TablesUpTo(MaxNumber) /\ MaxNumber \in Nat
  BY TypedNow
<1>2. /\ tables.entry[e].driver \in Drivers /\ CanTakeRequest(tables, tables.entry[e].driver)
      /\ InLineRow(tables.entry[e])
  BY <1>1, LiveHasDriver
     DEF DispatchToEntry, Live, InLineRow, OfferableStatuses, InQueueStatuses
<1>3. Keeps(MaxNumber, tables, Offer(tables, o, e)) /\ Onward(tables, Offer(tables, o, e))
  BY <1>1, <1>2, OfferKeeps
<1>4. Transaction(Offer(tables, o, e))
  BY DEF DispatchToEntry
<1> QED BY <1>1, <1>3, <1>4, TransactionKeeps

\* A request is given up by the driver or on its behalf.
LEMMA CancelDriverRequestInv ==
    ASSUME IInv, NEW r \in tables.requests, NEW byDriver \in BOOLEAN,
           CancelDriverRequest(r, byDriver)
    PROVE  IInv' /\ Onward(tables, tables')
<1> DEFINE ended == Decline(tables, {r})
           asked == {e \in HoldersIn(ended, r.order, {Requested}) :
                        ended.entry[e].driver = r.driver}
           M == MaxNumber + 1
<1>1. tables \in TablesUpTo(MaxNumber) /\ MaxNumber \in Nat /\ M \in Nat
  BY TypedNow
<1>2. r.order \in Orders
  BY <1>1 DEF TablesUpTo, Request
<1>3. \/ Transaction(CallOff(tables, {r}))
      \/ Transaction(RejectOffer(ended, r.order, asked))
      \/ Transaction(ReleaseAfterDriverCancel(ended, r.order))
  BY DEF CancelDriverRequest
<1>4. Keeps(MaxNumber, tables, CallOff(tables, {r})) /\ Onward(tables, CallOff(tables, {r}))
  BY <1>1, CallOffKeeps
<1>5. Keeps(MaxNumber, tables, ended) /\ Onward(tables, ended)
  BY <1>1, DeclineKeeps
<1> HIDE DEF ended
<1>6. ended \in TablesUpTo(MaxNumber)
  BY <1>5 DEF Keeps
<1>7. \A e \in asked : /\ e \in Entries /\ ended.entry[e].driver \in Drivers
                       /\ InLineRow(ended.entry[e])
  BY <1>1, <1>6, HoldersHaveDrivers DEF InLineRow, InQueueStatuses
<1> HIDE DEF asked
<1>8. /\ Keeps(M, ended, RejectOffer(ended, r.order, asked))
      /\ Onward(ended, RejectOffer(ended, r.order, asked))
  BY <1>1, <1>2, <1>6, <1>7, RejectOfferKeeps
<1>9. /\ Keeps(M, ended, ReleaseAfterDriverCancel(ended, r.order))
      /\ Onward(ended, ReleaseAfterDriverCancel(ended, r.order))
  BY <1>1, <1>2, <1>6, ReleaseAfterDriverCancelKeeps
<1> HIDE DEF M
<1>10. /\ Keeps(M, tables, RejectOffer(ended, r.order, asked))
       /\ Keeps(M, tables, ReleaseAfterDriverCancel(ended, r.order))
       /\ Onward(tables, RejectOffer(ended, r.order, asked))
       /\ Onward(tables, ReleaseAfterDriverCancel(ended, r.order))
  BY <1>5, <1>8, <1>9, KeepsTwice, OnwardTwice
<1> QED BY <1>1, <1>3, <1>4, <1>10, TransactionKeeps

\* The shipper turns the driver down.
LEMMA RejectDriverOfferInv ==
    ASSUME IInv, NEW r \in tables.requests, RejectDriverOffer(r)
    PROVE  IInv' /\ Onward(tables, tables')
<1> DEFINE waits == [tables EXCEPT !.order[r.order] = Waiting]
           ended == Decline(waits, {r})
           asked == HoldersIn(ended, r.order, {Requested})
           M == MaxNumber + 1
<1>1. tables \in TablesUpTo(MaxNumber) /\ MaxNumber \in Nat /\ M \in Nat
  BY TypedNow
<1>2. r.order \in Orders
  BY <1>1 DEF TablesUpTo, Request
<1>3. Transaction(RejectOffer(ended, r.order, asked))
  BY DEF RejectDriverOffer
<1>4. Keeps(MaxNumber, tables, waits) /\ Onward(tables, waits) /\ r \in waits.requests
  BY <1>1, <1>2, OrderKeeps, StatusesAreTyped DEF TablesUpTo
<1> HIDE DEF waits
<1>5. Keeps(MaxNumber, waits, ended) /\ Onward(waits, ended)
  BY <1>1, <1>4, DeclineKeeps DEF Keeps
<1> HIDE DEF ended
<1>6. ended \in TablesUpTo(MaxNumber)
  BY <1>5 DEF Keeps
<1>7. \A e \in asked : /\ e \in Entries /\ ended.entry[e].driver \in Drivers
                       /\ InLineRow(ended.entry[e])
  BY <1>1, <1>6, HoldersHaveDrivers DEF InLineRow, InQueueStatuses
<1> HIDE DEF asked
<1>8. /\ Keeps(M, ended, RejectOffer(ended, r.order, asked))
      /\ Onward(ended, RejectOffer(ended, r.order, asked))
  BY <1>1, <1>2, <1>6, <1>7, RejectOfferKeeps
<1> HIDE DEF M
<1>9. /\ Keeps(M, tables, RejectOffer(ended, r.order, asked))
      /\ Onward(tables, RejectOffer(ended, r.order, asked))
  BY <1>4, <1>5, <1>8, KeepsTwice, OnwardTwice
<1> QED BY <1>1, <1>3, <1>9, TransactionKeeps

\* An order is cancelled by its shipper or an admin.
LEMMA CancelShipperRequestInv ==
    ASSUME IInv, NEW o \in Orders, NEW status \in {CancelledByShipper, CancelledByAdmin},
           CancelShipperRequest(o, status)
    PROVE  IInv' /\ Onward(tables, tables')
<1> DEFINE cancelled == [tables EXCEPT !.order[o] = status]
           gone == {r \in tables.requests :
                       r.order = o /\ r.status \in {Requested, AcceptedByShipper}}
           ended == IF status = CancelledByAdmin THEN CallOff(cancelled, gone)
                    ELSE [cancelled EXCEPT !.requests = @ \ gone]
           u == ReleaseOnOrderCancel(ended, o)
<1>1. tables \in TablesUpTo(MaxNumber) /\ MaxNumber \in Nat /\ Transaction(u)
  BY TypedNow DEF CancelShipperRequest
<1>2. /\ Keeps(MaxNumber, tables, cancelled) /\ Onward(tables, cancelled)
      /\ cancelled.requests = tables.requests
  BY <1>1, OrderKeeps, StatusesAreTyped DEF TablesUpTo
<1>3. gone \subseteq tables.requests
  OBVIOUS
<1> HIDE DEF cancelled, gone
<1>4. cancelled \in TablesUpTo(MaxNumber)
  BY <1>2 DEF Keeps
<1>5. /\ Keeps(MaxNumber, cancelled, CallOff(cancelled, gone))
      /\ Onward(cancelled, CallOff(cancelled, gone))
  BY <1>1, <1>2, <1>3, <1>4, CallOffKeeps
<1>6. /\ Keeps(MaxNumber, cancelled, [cancelled EXCEPT !.requests = @ \ gone])
      /\ Onward(cancelled, [cancelled EXCEPT !.requests = @ \ gone])
  <2> DEFINE v == [cancelled EXCEPT !.requests = @ \ gone]
  <2>1. /\ v \in TablesUpTo(MaxNumber) /\ DriversStay(cancelled, v)
        /\ v.requests \subseteq cancelled.requests /\ v.armed = cancelled.armed
        /\ v.entry = cancelled.entry
    BY <1>4 DEF TablesUpTo, DriversStay
  <2> HIDE DEF v
  <2>2. Keeps(MaxNumber, cancelled, v) /\ Onward(cancelled, v)
    BY <2>1, FewerAreGuarded, SameEntriesOnward DEF Keeps
  <2> QED BY <2>2 DEF v
<1>7. Keeps(MaxNumber, cancelled, ended) /\ Onward(cancelled, ended)
  BY <1>5, <1>6
<1> HIDE DEF ended
<1>8. Keeps(MaxNumber, ended, u) /\ Onward(ended, u)
  BY <1>1, <1>7, ReleaseOnOrderCancelKeeps DEF Keeps
<1> HIDE DEF u
<1>9. Keeps(MaxNumber, tables, u) /\ Onward(tables, u)
  BY <1>2, <1>7, <1>8, KeepsTwice, OnwardTwice
<1> QED BY <1>1, <1>9, TransactionKeeps

\* A request moves on with its order: it was the driver's guarded request
\* before if it is after.
LEMMA AdvanceKeeps ==
    ASSUME NEW N \in Nat, NEW t \in TablesUpTo(N), NEW r \in t.requests,
           NEW s \in RequestStatuses, s \in GuardedStatuses => r.status \in GuardedStatuses
    PROVE  LET u == [t EXCEPT !.order[r.order] = s,
                              !.requests = (@ \ {r}) \cup {[r EXCEPT !.status = s]}]
           IN  Keeps(N, t, u) /\ Onward(t, u)
<1> DEFINE q == [r EXCEPT !.status = s]
           u == [t EXCEPT !.order[r.order] = s, !.requests = (@ \ {r}) \cup {q}]
<1>1. r \in Request /\ q \in Request /\ q.driver = r.driver /\ q.status = s
  BY DEF TablesUpTo, Request
<1>2. r.order \in Orders /\ s \in OrderStatuses
  BY <1>1, StatusesAreTyped DEF Request
<1> HIDE DEF q
<1>3. /\ u \in TablesUpTo(N) /\ DriversStay(t, u)
      /\ u.requests = (t.requests \ {r}) \cup {q} /\ u.armed = t.armed
      /\ u.entry = t.entry
  BY <1>1, <1>2 DEF TablesUpTo, DriversStay
<1> HIDE DEF u
<1>4. ASSUME Guarded(t) PROVE Guarded(u)
  <2>1. AtMostOne(u)
    <3> SUFFICES ASSUME NEW r1 \in u.requests, NEW r2 \in u.requests, r1.driver = r2.driver,
                        r1.status \in GuardedStatuses, r2.status \in GuardedStatuses
                 PROVE  r1 = r2
      BY DEF AtMostOne
    <3>1. \A r3 \in t.requests :
             (r3.driver = r.driver /\ r3.status \in GuardedStatuses
                /\ r.status \in GuardedStatuses) => r3 = r
      BY <1>4 DEF Guarded, AtMostOne
    <3>2. CASE r1 # q /\ r2 # q
      BY <1>3, <1>4, <3>2 DEF Guarded, AtMostOne
    <3>3. CASE r1 = q \/ r2 = q
      BY <1>1, <1>3, <3>1, <3>3
    <3> QED BY <3>2, <3>3
  <2>2. ArmedIsFree(u)
    BY <1>1, <1>3, <1>4 DEF Guarded, ArmedIsFree, CanTakeRequest
  <2> QED BY <2>1, <2>2 DEF Guarded
<1>5. Keeps(N, t, u) /\ Onward(t, u)
  BY <1>3, <1>4, SameEntriesOnward DEF Keeps
<1> QED BY <1>5 DEF u, q

\* A call that goes on, or begins, leaves the others as they are.
LEMMA ContinueInv ==
    ASSUME NEW t, CallsInv(t, inFlight), NEW call, NEW next, CallsInv(t, next),
           Continue(call, next) \/ Begin(next)
    PROVE  CallsInv(t, inFlight') /\ sweep' = sweep
<1>1. inFlight' \subseteq inFlight \cup next /\ sweep' = sweep
  BY DEF Continue, Begin
<1> QED BY <1>1 DEF CallsInv

\* No calls are under way.
LEMMA NoCalls == ASSUME NEW t PROVE CallsInv(t, {})
BY DEF CallsInv

\* A call that is not about to stamp an entry.
LEMMA PlainCall ==
    ASSUME NEW t, NEW call \in AcceptCalls \cup CloseCalls \cup DismissCalls \cup Corrections
    PROVE  CallsInv(t, {call})
BY DEF CallsInv, Calls, AcceptCalls, CloseCalls, DismissCalls, Corrections

\* The gate of an accept writes nothing.
LEMMA AcceptGateInv ==
    ASSUME IInv, NEW r \in tables.requests, AcceptGate(r)
    PROVE  IInv' /\ Onward(tables, tables')
<1> DEFINE call == [step |-> "accept", driver |-> r.driver, order |-> r.order]
<1>1. r.driver \in Drivers /\ r.order \in Orders
  BY TypedNow DEF TablesUpTo, Request
<1>2. call \in AcceptCalls
  BY <1>1 DEF AcceptCalls
<1>3. Begin({call}) /\ tables' = tables
  BY DEF AcceptGate
<1> HIDE DEF call
<1>4. CallsInv(tables, inFlight') /\ sweep' = sweep
  BY <1>2, <1>3, PlainCall, ContinueInv DEF IInv
<1> QED BY <1>3, <1>4, SameEntriesOnward DEF IInv

\* The decision transaction of an accept.
LEMMA AcceptDecisionInv ==
    ASSUME IInv, NEW call \in inFlight, call.step = "accept", AcceptDecision(call)
    PROVE  IInv' /\ Onward(tables, tables')
<1> DEFINE mine == LiveRequests(tables, call.driver, call.order, {Requested})
           next == [call EXCEPT !.step = "agree"]
<1>1. call \in AcceptCalls
  BY DEF IInv, CallsInv, Calls, AcceptCalls, StampCalls, CloseCalls, DismissCalls,
     Corrections
<1>2. next \in AcceptCalls
  BY <1>1 DEF AcceptCalls
<1>3. CASE mine = {}
  <2>1. Continue(call, {}) /\ tables' = tables
    BY <1>3 DEF AcceptDecision
  <2>2. CallsInv(tables, inFlight') /\ sweep' = sweep
    BY <2>1, NoCalls, ContinueInv DEF IInv
  <2> QED BY <2>1, <2>2, SameEntriesOnward DEF IInv
<1>4. CASE mine # {}
  <2>1. PICK r \in mine : TRUE
    BY <1>4
  <2>2. /\ r \in tables.requests /\ r.order = call.order
        /\ r.driver = call.driver /\ r.status = Requested
    BY <2>1 DEF LiveRequests
  <2>3. mine = {r}
    <3>1. ASSUME NEW q \in mine PROVE q = r
      <4>1. q \in tables.requests /\ q.driver = r.driver /\ q.status = Requested
        BY <2>2 DEF LiveRequests
      <4>2. Requested \in GuardedStatuses
        BY DEF GuardedStatuses
      <4> QED BY <2>2, <4>1, <4>2 DEF IInv, TablesInv, Guarded, AtMostOne
    <3> QED BY <2>1, <3>1
  <2> DEFINE u == [tables EXCEPT !.order[r.order] = AcceptedByShipper,
                                 !.requests = (@ \ {r}) \cup
                                              {[r EXCEPT !.status = AcceptedByShipper]}]
  <2>4. Commit(u) /\ Continue(call, {next})
    <3>1. /\ Commit([tables EXCEPT
                !.order[call.order] = AcceptedByShipper,
                !.requests = (@ \ mine) \cup
                    {[q EXCEPT !.status = AcceptedByShipper] : q \in mine}])
          /\ Continue(call, {next})
      BY <1>4 DEF AcceptDecision
    <3>2. {[q EXCEPT !.status = AcceptedByShipper] : q \in mine}
            = {[r EXCEPT !.status = AcceptedByShipper]}
      BY <2>3
    <3> HIDE DEF mine, next
    <3> QED BY <2>2, <2>3, <3>1, <3>2
  <2>5. Keeps(MaxNumber, tables, u) /\ Onward(tables, u)
    <3>1. AcceptedByShipper \in RequestStatuses /\ Requested \in GuardedStatuses
      BY StatusesAreTyped DEF GuardedStatuses
    <3> QED BY <2>2, <3>1, TypedNow, AdvanceKeeps
  <2> HIDE DEF u
  <2>6. /\ TablesInv(tables') /\ CallsInv(tables', inFlight) /\ PassInv(tables', sweep)
        /\ Onward(tables, tables')
    BY <2>4, <2>5, TypedNow, CommitKeeps
  <2> HIDE DEF next
  <2>7. CallsInv(tables', inFlight') /\ sweep' = sweep
    BY <1>2, <2>4, <2>6, PlainCall, ContinueInv
  <2> QED BY <2>6, <2>7 DEF IInv
<1> QED BY <1>3, <1>4

\* The lookup remembers a row that has its driver.
LEMMA AcceptLookupInv ==
    ASSUME IInv, NEW call \in inFlight, call.step = "agree", AcceptLookup(call)
    PROVE  IInv' /\ Onward(tables, tables')
<1> DEFINE o == call.order
           e == AcceptedEntry(tables, o)
           held == HoldersIn(tables, o, {Requested, Agreed, NoAnswer})
           number == IF tables.entry[e].loading = 0 THEN NextLoadingNumber(tables)
                     ELSE tables.entry[e].loading
           next == [step |-> "stamp", entry |-> e, order |-> o, loading |-> number]
<1>1. call \in AcceptCalls
  BY DEF IInv, CallsInv, Calls, AcceptCalls, StampCalls, CloseCalls, DismissCalls,
     Corrections
<1>2. tables \in TablesUpTo(MaxNumber) /\ MaxNumber \in Nat /\ o \in Orders
  BY <1>1, TypedNow DEF AcceptCalls
<1>3. tables' = tables
  BY DEF AcceptLookup
<1>4. \/ Continue(call, {})
      \/ held # {} /\ number <= MaxNumber /\ Continue(call, {next})
  BY DEF AcceptLookup
<1>5. CASE Continue(call, {})
  <2>1. CallsInv(tables, inFlight') /\ sweep' = sweep
    BY <1>5, NoCalls, ContinueInv DEF IInv
  <2> QED BY <1>3, <2>1, SameEntriesOnward DEF IInv
<1>6. CASE held # {} /\ number <= MaxNumber /\ Continue(call, {next})
  <2> DEFINE agreed == HoldersIn(tables, o, {Agreed})
             asked == HoldersIn(tables, o, {Requested, NoAnswer})
             found == IF agreed # {} THEN agreed ELSE asked
  <2>1. held = agreed \cup asked
    BY DEF HoldersIn
  <2>2. found # {} /\ found \subseteq Entries
    BY <1>6, <2>1 DEF HoldersIn
  <2>3. e = FirstInLine(tables, found)
    BY DEF AcceptedEntry
  <2>4. e \in found
    <3> HIDE DEF found, e
    <3> QED BY <1>2, <2>2, <2>3, FirstIn
  <2>5. e \in Entries /\ tables.entry[e].driver \in Drivers
    <3>1. e \in agreed \/ e \in asked
      BY <2>4
    <3> HIDE DEF e
    <3> QED BY <1>2, <3>1, HoldersHaveDrivers
  <2> HIDE DEF e
  <2>6. number \in 0..MaxNumber
    <3>1. tables.entry[e].loading \in 0..MaxNumber
      BY <1>2, <2>5 DEF TablesUpTo, RowUpTo
    <3>2. NextLoadingNumber(tables) \in Nat
      BY <1>2, <2>5, NextNumbers
    <3> QED BY <1>2, <1>6, <3>1, <3>2
  <2> HIDE DEF number
  <2>7. CallsInv(tables, {next})
    BY <1>2, <2>5, <2>6 DEF CallsInv, Calls, StampCalls
  <2> HIDE DEF next
  <2>8. CallsInv(tables, inFlight') /\ sweep' = sweep
    BY <1>6, <2>7, ContinueInv DEF IInv
  <2> QED BY <1>3, <2>8, SameEntriesOnward DEF IInv
<1> QED BY <1>4, <1>5, <1>6

\* The row is stamped by its id: its driver is still there.
LEMMA AcceptStampInv ==
    ASSUME IInv, NEW call \in inFlight, call.step = "stamp", AcceptStamp(call)
    PROVE  IInv' /\ Onward(tables, tables')
<1> DEFINE e == call.entry
           row == [tables.entry[e] EXCEPT !.status = Agreed, !.order = call.order,
                                          !.loading = call.loading]
           u == [tables EXCEPT !.entry[e] = row]
           next == [step |-> "release", order |-> call.order]
<1>1. call \in StampCalls /\ tables.entry[e].driver \in Drivers
  BY DEF IInv, CallsInv, Calls, AcceptCalls, StampCalls, CloseCalls, DismissCalls,
     Corrections
<1>2. /\ e \in Entries /\ call.order \in Orders /\ call.loading \in 0..MaxNumber
      /\ tables \in TablesUpTo(MaxNumber) /\ MaxNumber \in Nat
  BY <1>1, TypedNow DEF StampCalls
<1>3. Commit(u) /\ Continue(call, {next}) /\ next \in CloseCalls
  BY <1>2 DEF AcceptStamp, TablesUpTo, CloseCalls
<1>4. /\ row \in RowUpTo(MaxNumber) /\ row.driver = tables.entry[e].driver
      /\ row.status = Agreed
  <2>1. tables.entry[e] \in RowUpTo(MaxNumber) /\ Agreed \in EntryStatuses
    BY <1>2, StatusesAreTyped DEF TablesUpTo
  <2> HIDE DEF e
  <2> QED BY <1>1, <1>2, <2>1 DEF RowUpTo
<1> HIDE DEF row
<1>5. Keeps(MaxNumber, tables, u) /\ Onward(tables, u)
  <2>1. row.status # NoStatus /\ ~InLineRow(row)
    BY <1>4, StatusesAreTyped DEF InLineRow, JobStatuses
  <2> QED BY <1>2, <1>4, <2>1, RowKeeps, RowOnward
<1> HIDE DEF u, next
<1>6. /\ TablesInv(tables') /\ CallsInv(tables', inFlight) /\ PassInv(tables', sweep)
      /\ Onward(tables, tables')
  BY <1>2, <1>3, <1>5, CommitKeeps
<1>7. CallsInv(tables', inFlight') /\ sweep' = sweep
  BY <1>3, <1>6, PlainCall, ContinueInv
<1> QED BY <1>6, <1>7 DEF IInv

\* The other invitations are looked up,
LEMMA ReleaseReadInv ==
    ASSUME IInv, NEW call \in inFlight, call.step = "release", ReleaseRead(call)
    PROVE  IInv' /\ Onward(tables, tables')
<1> DEFINE others == {r \in tables.requests : r.order = call.order /\ r.status = Requested}
           next == [step |-> "dismiss", order |-> call.order, others |-> others]
<1>1. call \in CloseCalls
  BY DEF IInv, CallsInv, Calls, AcceptCalls, StampCalls, CloseCalls, DismissCalls,
     Corrections
<1>2. next \in DismissCalls
  BY <1>1, TypedNow DEF TablesUpTo, CloseCalls, DismissCalls
<1>3. tables' = tables /\ (Continue(call, {}) \/ Continue(call, {next}))
  BY DEF ReleaseRead
<1> HIDE DEF next, others
<1>4. CallsInv(tables, inFlight') /\ sweep' = sweep
  BY <1>2, <1>3, PlainCall, NoCalls, ContinueInv DEF IInv
<1> QED BY <1>3, <1>4, SameEntriesOnward DEF IInv

\* and ended; an entry that comes back into the line by it is the exception to
\* what every other part of a call keeps.
LEMMA ReleaseInviteeInv ==
    ASSUME IInv, NEW call \in inFlight, call.step = "dismiss", ReleaseInvitee(call)
    PROVE  /\ IInv'
           /\ (\A q \in call.others : TheirEntries(tables, q) = {}) => Onward(tables, tables')
<1>1. call \in DismissCalls
  BY DEF IInv, CallsInv, Calls, AcceptCalls, StampCalls, CloseCalls, DismissCalls,
     Corrections
<1> DEFINE next(q) == [call EXCEPT !.others = @ \ {q}]
<1>2. PICK q \in call.others : /\ Commit(EndInvitation(tables, q))
                               /\ Continue(call, {}) \/ Continue(call, {next(q)})
  BY DEF ReleaseInvitee
<1>3. next(q) \in DismissCalls
  BY <1>1 DEF DismissCalls
<1> HIDE DEF next
<1>4. /\ TablesInv(tables') /\ CallsInv(tables', inFlight) /\ PassInv(tables', sweep)
      /\ TheirEntries(tables, q) = {} => Onward(tables, tables')
  BY <1>2, TypedNow, EndInvitationKeeps, CommitKeeps
<1>5. CallsInv(tables', inFlight') /\ sweep' = sweep
  BY <1>2, <1>3, <1>4, PlainCall, NoCalls, ContinueInv
<1> QED BY <1>4, <1>5 DEF IInv

-----------------------------------------------------------------------------
\* A request and its order move on, and the entry follows.
LEMMA ProgressedKeeps ==
    ASSUME IInv, NEW r \in tables.requests, NEW s \in RequestStatuses \cap JobStatuses,
           s \in GuardedStatuses => r.status \in GuardedStatuses
    PROVE  Keeps(MaxNumber, tables, Progressed(r, s)) /\ Onward(tables, Progressed(r, s))
<1> DEFINE advanced == [tables EXCEPT !.order[r.order] = s,
                                      !.requests = (@ \ {r}) \cup {[r EXCEPT !.status = s]}]
<1>1. tables \in TablesUpTo(MaxNumber) /\ MaxNumber \in Nat
  BY TypedNow
<1>2. r.order \in Orders
  BY <1>1 DEF TablesUpTo, Request
<1>3. Keeps(MaxNumber, tables, advanced) /\ Onward(tables, advanced)
  BY <1>1, AdvanceKeeps
<1>4. Progressed(r, s) = MirrorProgress(advanced, r.order, s)
  BY DEF Progressed
<1> HIDE DEF advanced
<1>5. /\ Keeps(MaxNumber, advanced, MirrorProgress(advanced, r.order, s))
      /\ Onward(advanced, MirrorProgress(advanced, r.order, s))
  BY <1>1, <1>2, <1>3, MirrorProgressKeeps DEF Keeps
<1> QED BY <1>3, <1>4, <1>5, KeepsTwice, OnwardTwice

\* The next loading stage.
LEMMA LoadingStageInv ==
    ASSUME IInv, NEW r \in tables.requests, LoadingStage(r)
    PROVE  IInv' /\ Onward(tables, tables')
<1> DEFINE s == r.status + 1
<1>1. /\ s \in RequestStatuses \cap JobStatuses
      /\ s \in GuardedStatuses => r.status \in GuardedStatuses
  <2>1. r.status \in {AcceptedByShipper, GoToLoadingPlace, Loading}
    BY DEF LoadingStage
  <2> QED BY <2>1 DEF RequestStatuses, JobStatuses, GuardedStatuses, ActiveOrderStatuses,
             Waiting, Requested, Agreed, AcceptedByShipper, GoToLoadingPlace, Loading,
             Loaded, JourneyStarted
<1>2. Transaction(Progressed(r, s))
  BY DEF LoadingStage
<1> HIDE DEF s
<1> QED BY <1>1, <1>2, TypedNow, ProgressedKeeps, TransactionKeeps

\* The journey starts.
LEMMA StartJourneyInv ==
    ASSUME IInv, NEW r \in tables.requests, StartJourney(r)
    PROVE  IInv' /\ Onward(tables, tables')
<1>1. /\ JourneyStarted \in RequestStatuses \cap JobStatuses
      /\ JourneyStarted \notin GuardedStatuses
  BY DEF RequestStatuses, JobStatuses, GuardedStatuses, ActiveOrderStatuses,
         Waiting, Requested, Agreed, AcceptedByShipper, GoToLoadingPlace, Loading,
         Loaded, JourneyStarted
<1>2. Transaction(Progressed(r, JourneyStarted))
  BY DEF StartJourney
<1> QED BY <1>1, <1>2, TypedNow, ProgressedKeeps, TransactionKeeps

\* The journey completes: the request is over.
LEMMA CompleteJourneyInv ==
    ASSUME IInv, NEW r \in tables.requests, CompleteJourney(r)
    PROVE  IInv' /\ Onward(tables, tables')
<1> DEFINE u == [tables EXCEPT !.order[r.order] = JourneyCompleted, !.requests = @ \ {r},
                               !.delivered = @ \cup {r.order}]
           call == [step |-> "close", order |-> r.order]
<1>1. tables \in TablesUpTo(MaxNumber) /\ MaxNumber \in Nat /\ r.order \in Orders
  BY TypedNow DEF TablesUpTo, Request
<1>2. Commit(u) /\ Begin({call})
  BY DEF CompleteJourney
<1>3. /\ u \in TablesUpTo(MaxNumber) /\ DriversStay(tables, u)
      /\ u.requests \subseteq tables.requests /\ u.armed = tables.armed
      /\ u.entry = tables.entry
  BY <1>1, StatusesAreTyped DEF TablesUpTo, DriversStay
<1>4. call \in CloseCalls
  BY <1>1 DEF CloseCalls
<1> HIDE DEF u, call
<1>5. Keeps(MaxNumber, tables, u) /\ Onward(tables, u)
  BY <1>3, FewerAreGuarded, SameEntriesOnward DEF Keeps
<1>6. /\ TablesInv(tables') /\ CallsInv(tables', inFlight) /\ PassInv(tables', sweep)
      /\ Onward(tables, tables')
  BY <1>1, <1>2, <1>5, CommitKeeps
<1>7. CallsInv(tables', inFlight') /\ sweep' = sweep
  BY <1>2, <1>4, <1>6, PlainCall, ContinueInv
<1> QED BY <1>6, <1>7 DEF IInv

\* The entry is closed after the completion committed.
LEMMA CompletionCloseInv ==
    ASSUME IInv, NEW call \in inFlight, call.step = "close", CompletionClose(call)
    PROVE  IInv' /\ Onward(tables, tables')
<1> DEFINE u == CloseOnCompletion(tables, call.order)
<1>1. call \in CloseCalls
  BY DEF IInv, CallsInv, Calls, AcceptCalls, StampCalls, CloseCalls, DismissCalls,
     Corrections
<1>2. tables \in TablesUpTo(MaxNumber) /\ MaxNumber \in Nat /\ call.order \in Orders
  BY <1>1, TypedNow DEF CloseCalls
<1>3. /\ Commit(u) /\ Continue(call, {})
      /\ Keeps(MaxNumber, tables, u) /\ Onward(tables, u)
  BY <1>2, CloseOnCompletionKeeps DEF CompletionClose
<1> HIDE DEF u
<1>4. /\ TablesInv(tables') /\ CallsInv(tables', inFlight) /\ PassInv(tables', sweep)
      /\ Onward(tables, tables')
  BY <1>2, <1>3, CommitKeeps
<1>5. CallsInv(tables', inFlight') /\ sweep' = sweep
  BY <1>3, <1>4, NoCalls, ContinueInv
<1> QED BY <1>4, <1>5 DEF IInv

-----------------------------------------------------------------------------
\* The pass commits and goes on.
LEMMA SweepStepKeeps ==
    ASSUME IInv, NEW N \in Nat, NEW u, Keeps(N, tables, u), Commit(u), inFlight' = inFlight,
           PassInv(tables, sweep')
    PROVE  IInv' /\ (Onward(tables, u) => Onward(tables, tables'))
<1>1. /\ TablesInv(tables') /\ DriversStay(tables, tables') /\ CallsInv(tables', inFlight)
      /\ Onward(tables, u) => Onward(tables, tables')
  BY CommitKeeps
<1>2. PassInv(tables', sweep')
  BY <1>1, OthersStay
<1> QED BY <1>1, <1>2 DEF IInv

\* A pass that is about to mark the offers it has read.
LEMMA MarkIsTyped ==
    ASSUME NEW found, found \subseteq Expired,
           \A x \in found : tables.entry[x.entry].driver \in Drivers
    PROVE  PassInv(tables, [SweepIdle EXCEPT !.at = "mark", !.todo = found])
<1> DEFINE next == [SweepIdle EXCEPT !.at = "mark", !.todo = found]
<1>1. SweepIdle \in Pass
  BY IdleIsTyped DEF PassInv
<1>2. next \in Pass
  BY <1>1 DEF Pass
<1>3. next.at = "mark" /\ next.todo = found
  BY <1>1 DEF Pass
<1>4. PassInv(tables, next)
  <2> HIDE DEF next
  <2> QED BY <1>2, <1>3 DEF PassInv
<1> QED BY <1>4

\* A pass that goes on to its next expired offer.
LEMMA SweepNextTyped == IInv => PassInv(tables, SweepNext)
<1> SUFFICES ASSUME IInv PROVE PassInv(tables, SweepNext)
  OBVIOUS
<1>1. CASE sweep.todo = {}
  BY <1>1, IdleIsTyped DEF SweepNext
<1>2. CASE sweep.todo # {}
  <2>1. SweepNext = [SweepIdle EXCEPT !.at = "mark", !.todo = sweep.todo]
    BY <1>2 DEF SweepNext
  <2>2. sweep.todo \subseteq Expired /\ \A x \in sweep.todo : tables.entry[x.entry].driver \in Drivers
    BY DEF IInv, PassInv, Pass
  <2> QED BY <2>1, <2>2, MarkIsTyped
<1> QED BY <1>1, <1>2

\* The pass reads the expired offers.
LEMMA SweepReadInv ==
    ASSUME IInv, NEW found \in SUBSET ExpiredOffers, SweepRead(found)
    PROVE  IInv' /\ Onward(tables, tables')
<1> DEFINE next == [SweepIdle EXCEPT !.at = "mark", !.todo = found]
<1>1. tables' = tables /\ inFlight' = inFlight /\ sweep' = next
  BY DEF SweepRead
<1>2. \A x \in found : x \in Expired /\ x.driver \in Drivers /\
                       tables.entry[x.entry].driver = x.driver
  BY DEF ExpiredOffers, Expired
<1>3. PassInv(tables, next)
  <2>1. \A x \in found : x.entry \in Entries /\ x \in Expired
    BY <1>2 DEF Expired
  <2> QED BY <1>2, <2>1, MarkIsTyped
<1> HIDE DEF next
<1> QED BY <1>1, <1>3, SameEntriesOnward DEF IInv

\* The pass marks an offer unanswered.
LEMMA SweepMarkInv ==
    ASSUME IInv, NEW x \in sweep.todo, SweepMark(x)
    PROVE  IInv'
<1> DEFINE e == x.entry
           row == [tables.entry[e] EXCEPT !.status = NoAnswer]
           u == [tables EXCEPT !.entry[e] = row]
           back == IF MovesBack(x.refusals) THEN NextQueueNumber(tables) ELSE 0
           next == [sweep EXCEPT !.at = "charge", !.todo = @ \ {x}, !.expired = x, !.back = back]
<1>1. tables \in TablesUpTo(MaxNumber) /\ MaxNumber \in Nat
  BY TypedNow
<1>2. x \in Expired /\ e \in Entries /\ tables.entry[e].driver \in Drivers
  BY DEF IInv, PassInv, Pass, Expired
<1>3. Commit(u) /\ inFlight' = inFlight /\ sweep' = next
  BY <1>1, <1>2 DEF SweepMark, TablesUpTo
<1>4. back \in 0..MaxNumber
  <2>1. MovesBack(x.refusals) => NextQueueNumber(tables) <= MaxNumber
    BY DEF SweepMark
  <2>2. NextQueueNumber(tables) \in Nat
    BY <1>1, <1>2, NextNumbers
  <2> QED BY <1>1, <2>1, <2>2
<1>5. row \in RowUpTo(MaxNumber) /\ row.driver = tables.entry[e].driver
  <2>1. tables.entry[e] \in RowUpTo(MaxNumber) /\ NoAnswer \in EntryStatuses
    BY <1>1, <1>2, StatusesAreTyped DEF TablesUpTo
  <2> HIDE DEF e
  <2> QED BY <1>2, <2>1 DEF RowUpTo
<1> HIDE DEF row, back
<1>6. Keeps(MaxNumber, tables, u)
  BY <1>1, <1>2, <1>5, RowKeeps
<1>7. PassInv(tables, next)
  BY <1>2, <1>4 DEF IInv, PassInv, Pass
<1> HIDE DEF u, next
<1> QED BY <1>1, <1>3, <1>6, <1>7, SweepStepKeeps

\* The pass charges the refusal.
LEMMA SweepChargeInv ==
    ASSUME IInv, SweepCharge
    PROVE  IInv' /\ Onward(tables, tables')
<1> DEFINE x == sweep.expired
           u == ChargeRefusal(tables, x.entry, x.refusals, sweep.back)
           next == [sweep EXCEPT !.at = "seek", !.back = 0, !.order = x.order]
<1>1. tables \in TablesUpTo(MaxNumber) /\ MaxNumber \in Nat
  BY TypedNow
<1>2. x \in Expired /\ sweep.back \in 0..MaxNumber
  BY DEF IInv, PassInv, Pass, SweepCharge
<1>3. Commit(u) /\ inFlight' = inFlight /\ sweep' = next
  BY DEF SweepCharge
<1>4. Keeps(MaxNumber, tables, u) /\ Onward(tables, u)
  BY <1>1, <1>2, ChargeRefusalKeeps DEF Expired
<1>5. PassInv(tables, next)
  <2>1. x.order \in Orders /\ 0 \in 0..MaxNumber
    BY <1>1, <1>2 DEF Expired
  <2>2. sweep \in Pass /\ \A y \in sweep.todo : tables.entry[y.entry].driver \in Drivers
    BY DEF IInv, PassInv
  <2>3. next \in Pass /\ next.at = "seek" /\ next.order = x.order /\ next.todo = sweep.todo
    BY <2>1, <2>2 DEF Pass
  <2> HIDE DEF next, x
  <2> QED BY <2>1, <2>2, <2>3 DEF PassInv
<1> HIDE DEF u, next
<1> QED BY <1>1, <1>3, <1>4, <1>5, SweepStepKeeps

\* The driver found in front is free, and gets a waiting request.
LEMMA FoundInv ==
    ASSUME IInv, NEW o \in Orders, NEW e \in Entries, Found(o, e), inFlight' = inFlight,
           tables.entry[e].driver \in Drivers, CanTakeRequest(tables, tables.entry[e].driver)
    PROVE  IInv'
<1> DEFINE d == tables.entry[e].driver
           u == [tables EXCEPT !.armed = @ \cup {d}]
           next == [sweep EXCEPT !.at = "offer", !.order = o, !.front = e]
<1>1. tables \in TablesUpTo(MaxNumber) /\ MaxNumber \in Nat
  BY TypedNow
<1>2. Commit(u) /\ sweep' = next
  BY DEF Found
<1>3. /\ u \in TablesUpTo(MaxNumber) /\ DriversStay(tables, u)
      /\ u.requests = tables.requests /\ u.armed = tables.armed \cup {d}
  BY <1>1 DEF TablesUpTo, DriversStay
<1>4. PassInv(tables, next)
  BY DEF IInv, PassInv, Pass
<1> HIDE DEF u, next
<1>5. Keeps(MaxNumber, tables, u)
  BY <1>3 DEF Keeps, Guarded, AtMostOne, ArmedIsFree, CanTakeRequest
<1> QED BY <1>1, <1>2, <1>4, <1>5, SweepStepKeeps

\* The pass looks for the next driver.
LEMMA SweepSeekInv ==
    ASSUME IInv, SweepSeek
    PROVE  IInv'
<1> DEFINE o == sweep.order
           passed == {sweep.expired.driver}
           next == Takers(tables, o, passed)
           e == FrontEntry(tables, o, passed)
           u == ResetToWaitingIfUnheld(tables, o)
<1>1. tables \in TablesUpTo(MaxNumber) /\ MaxNumber \in Nat /\ o \in Orders
  BY TypedNow DEF IInv, PassInv, SweepSeek
<1>2. inFlight' = inFlight
  BY DEF SweepSeek
<1>3. CASE next = {}
  <2>1. Commit(u) /\ sweep' = SweepNext
    BY <1>3 DEF SweepSeek
  <2>2. Keeps(MaxNumber, tables, u)
    BY <1>1, ResetKeeps
  <2> HIDE DEF u
  <2> QED BY <1>1, <1>2, <2>1, <2>2, SweepNextTyped, SweepStepKeeps
<1>4. CASE next # {}
  <2>1. Found(o, e)
    BY <1>4 DEF SweepSeek
  <2>2. /\ e \in Entries
        /\ tables.entry[e].driver \in Drivers
        /\ CanTakeRequest(tables, tables.entry[e].driver)
    BY <1>1, <1>4, FrontTaker
  <2> HIDE DEF o, e
  <2> QED BY <1>1, <1>2, <2>1, <2>2, FoundInv
<1> QED BY <1>3, <1>4

\* The pass looks for a driver for a pending order.
LEMMA RescanSeekInv ==
    ASSUME IInv, RescanSeek
    PROVE  IInv'
<1> DEFINE served == {o \in PendingOrders(tables) : Takers(tables, o, {}) # {}}
           o == Min(served)
           e == FrontEntry(tables, o, {})
<1>1. tables \in TablesUpTo(MaxNumber) /\ MaxNumber \in Nat
  BY TypedNow
<1>2. served # {} /\ Found(o, e) /\ inFlight' = inFlight
  BY DEF RescanSeek
<1>3. o \in served
  <2>1. served \subseteq Nat
    BY BoundsAssumption DEF PendingOrders, Orders
  <2> HIDE DEF served
  <2> QED BY <1>2, <2>1, MinIn
<1>4. o \in Orders /\ Takers(tables, o, {}) # {}
  <2>1. served \subseteq Orders /\ \A x \in served : Takers(tables, x, {}) # {}
    BY DEF PendingOrders
  <2> HIDE DEF o, served
  <2> QED BY <1>3, <2>1
<1>5. /\ e \in Entries
      /\ tables.entry[e].driver \in Drivers
      /\ CanTakeRequest(tables, tables.entry[e].driver)
  <2> HIDE DEF o
  <2> QED BY <1>1, <1>4, FrontTaker
<1> HIDE DEF o, e
<1> QED BY <1>2, <1>4, <1>5, FoundInv

\* The waiting request the pass found is still there, so the driver is free.
LEMMA SweepOfferInv ==
    ASSUME IInv, SweepOffer
    PROVE  IInv'
<1> DEFINE o == sweep.order
           e == sweep.front
           d == tables.entry[e].driver
           settle == [sweep EXCEPT !.at = "settle", !.front = None]
<1>1. /\ tables \in TablesUpTo(MaxNumber) /\ MaxNumber \in Nat
      /\ o \in Orders /\ e \in Entries /\ inFlight' = inFlight
  BY TypedNow DEF IInv, PassInv, SweepOffer
<1>2. PassInv(tables, SweepIdle)
  BY IdleIsTyped
<1>3. PassInv(tables, settle)
  <2>1. sweep \in Pass /\ \A x \in sweep.todo : tables.entry[x.entry].driver \in Drivers
    BY DEF IInv, PassInv
  <2>2. settle \in Pass /\ settle.at = "settle" /\ settle.todo = sweep.todo
    BY <2>1 DEF Pass
  <2> HIDE DEF settle
  <2> QED BY <2>1, <2>2 DEF PassInv
<1>4. CASE d \in tables.armed
  <2>1. Commit(Offer(tables, o, e)) /\ sweep' \in {SweepIdle, settle}
    BY <1>4 DEF SweepOffer
  <2>2. d \in Drivers
    BY <1>1, <1>4 DEF TablesUpTo
  <2>3. Guarded(tables) => CanTakeRequest(tables, d)
    BY <1>4 DEF Guarded, ArmedIsFree
  <2>4. Keeps(MaxNumber, tables, Offer(tables, o, e))
    BY <1>1, <2>2, <2>3, OfferKeeps
  <2> HIDE DEF settle
  <2>5. PassInv(tables, sweep')
    BY <1>2, <1>3, <2>1
  <2> QED BY <1>1, <2>1, <2>4, <2>5, SweepStepKeeps
<1>5. CASE d \notin tables.armed
  <2>1. Commit(ReleaseRetained(tables, o, e)) /\ sweep' = SweepIdle
    BY <1>5 DEF SweepOffer
  <2>2. Keeps(MaxNumber, tables, ReleaseRetained(tables, o, e))
    BY <1>1, ReleaseRetainedKeeps
  <2> QED BY <1>1, <1>2, <2>1, <2>2, SweepStepKeeps
<1> QED BY <1>4, <1>5

\* The pass ends the request of the driver that did not answer.
LEMMA SweepSettleInv ==
    ASSUME IInv, SweepSettle
    PROVE  IInv' /\ Onward(tables, tables')
<1> DEFINE gone == LiveRequests(tables, sweep.expired.driver, sweep.expired.order, {Requested})
           u == [tables EXCEPT !.requests = @ \ gone]
<1>1. tables \in TablesUpTo(MaxNumber) /\ MaxNumber \in Nat
  BY TypedNow
<1>2. Commit(u) /\ sweep' = SweepNext /\ inFlight' = inFlight
  BY DEF SweepSettle
<1>3. /\ u \in TablesUpTo(MaxNumber) /\ DriversStay(tables, u)
      /\ u.requests \subseteq tables.requests /\ u.armed = tables.armed
      /\ u.entry = tables.entry
  <2> HIDE DEF gone
  <2> QED BY <1>1 DEF TablesUpTo, DriversStay
<1> HIDE DEF u
<1>4. Keeps(MaxNumber, tables, u) /\ Onward(tables, u)
  BY <1>3, FewerAreGuarded, SameEntriesOnward DEF Keeps
<1> QED BY <1>1, <1>2, <1>4, SweepNextTyped, SweepStepKeeps

\* The status an order is corrected to is one of its decisions'.
LEMMA ReconcileReadInv ==
    ASSUME IInv, NEW o \in Orders, ReconcileRead(o)
    PROVE  IInv' /\ Onward(tables, tables')
<1> DEFINE found == SupportingStatuses(tables, o)
           to == IF found = {} THEN Waiting ELSE Max(found)
           call == [step |-> "correct", order |-> o, from |-> tables.order[o], to |-> to]
<1>1. tables \in TablesUpTo(MaxNumber)
  BY TypedNow
<1>2. found \subseteq OrderStatuses
  BY <1>1, StatusesAreTyped
     DEF SupportingStatuses, TablesUpTo, Request, OrderStatuses, ClosedOrderStatuses
<1>3. to \in OrderStatuses
  <2>1. OrderStatuses \subseteq 0..13
    BY DEF OrderStatuses, ActiveOrderStatuses, ClosedOrderStatuses, NoStatus, Waiting,
           Requested, AcceptedByShipper, GoToLoadingPlace, Loading, Loaded,
           JourneyStarted, JourneyCompleted, CancelledByShipper, CancelledByAdmin
  <2>2. Waiting \in OrderStatuses
    BY DEF OrderStatuses, ActiveOrderStatuses
  <2>3. found # {} => Max(found) \in found
    <3> HIDE DEF found
    <3> QED BY <1>2, <2>1, MaxIn
  <2> HIDE DEF found
  <2> QED BY <1>2, <2>2, <2>3
<1>4. tables' = tables /\ Begin({call})
  BY DEF ReconcileRead
<1>5. call \in Corrections
  <2>1. tables.order[o] \in OrderStatuses
    BY <1>1 DEF TablesUpTo
  <2> HIDE DEF to
  <2> QED BY <1>3, <2>1 DEF Corrections
<1> HIDE DEF call
<1>6. CallsInv(tables, inFlight') /\ sweep' = sweep
  BY <1>4, <1>5, PlainCall, ContinueInv DEF IInv
<1> QED BY <1>4, <1>6, SameEntriesOnward DEF IInv

\* The correction is written if the status is the one that was read.
LEMMA ReconcileApplyInv ==
    ASSUME IInv, NEW call \in inFlight, call.step = "correct", ReconcileApply(call)
    PROVE  IInv' /\ Onward(tables, tables')
<1> DEFINE corrected == [tables EXCEPT !.order[call.order] = call.to]
           u == IF tables.order[call.order] = call.from THEN corrected ELSE tables
<1>1. call \in Corrections
  BY DEF IInv, CallsInv, Calls, AcceptCalls, StampCalls, CloseCalls, DismissCalls,
     Corrections
<1>2. /\ tables \in TablesUpTo(MaxNumber) /\ MaxNumber \in Nat
      /\ call.order \in Orders /\ call.to \in OrderStatuses
  BY <1>1, TypedNow DEF Corrections
<1>3. Commit(u) /\ Continue(call, {})
  BY DEF ReconcileApply
<1>4. Keeps(MaxNumber, tables, u) /\ Onward(tables, u)
  BY <1>2, OrderKeeps, TakesNothing
<1> HIDE DEF u
<1>5. /\ TablesInv(tables') /\ CallsInv(tables', inFlight) /\ PassInv(tables', sweep)
      /\ Onward(tables, tables')
  BY <1>2, <1>3, <1>4, CommitKeeps
<1>6. CallsInv(tables', inFlight') /\ sweep' = sweep
  BY <1>3, <1>5, NoCalls, ContinueInv
<1> QED BY <1>5, <1>6 DEF IInv

\* A restart forgets the calls and the pass.
LEMMA RestartInv ==
    ASSUME IInv, Restart
    PROVE  IInv' /\ Onward(tables, tables')
BY IdleIsTyped, NoCalls, SameEntriesOnward DEF Restart, IInv

-----------------------------------------------------------------------------
(***************************************************************************)
(* The steps together, and the theorems.                                   *)
(***************************************************************************)
\* Joining and leaving the line keeps the invariant.
LEMMA EntryActionInv == IInv /\ EntryAction => IInv'
<1> SUFFICES ASSUME IInv, EntryAction PROVE IInv'
  OBVIOUS
<1>1. ASSUME NEW d \in Drivers, NEW s \in Reservations, CheckIn(d, s) PROVE IInv'
  BY <1>1, JoinLineInv DEF CheckIn
<1>2. ASSUME NEW d \in Drivers, NEW s \in Reservations, CheckInAgain(d, s) PROVE IInv'
  BY <1>2, CheckInAgainInv
<1>3. ASSUME NEW d \in Drivers, NEW s \in Reservations, ManualCheckin(d, s) PROVE IInv'
  BY <1>3, JoinLineInv DEF ManualCheckin
<1>4. ASSUME NEW d \in Drivers, Checkout(d) PROVE IInv'
  BY <1>4, CheckoutInv
<1>5. ASSUME NEW d \in Drivers, CancelWaitingRequest(d) PROVE IInv'
  BY <1>5, CancelWaitingRequestInv
<1>6. ASSUME NEW e \in Entries, RemoveEntry(e) PROVE IInv'
  BY <1>6, RemoveEntryInv
<1>7. ASSUME NEW e \in Entries, NEW n \in 1..MaxNumber, OverrideEntry(e, n) PROVE IInv'
  BY <1>7, OverrideEntryInv
<1> QED BY <1>1, <1>2, <1>3, <1>4, <1>5, <1>6, <1>7 DEF EntryAction

\* So does everything that is done to an order,
LEMMA OrderActionInv == IInv /\ OrderAction => IInv'
<1> SUFFICES ASSUME IInv, OrderAction PROVE IInv'
  OBVIOUS
<1>1. ASSUME NEW o \in Orders, PlaceOrder(o) PROVE IInv'
  BY <1>1, PlaceOrderInv
<1>2. ASSUME NEW o \in Orders, DispatchToFront(o) PROVE IInv'
  BY <1>2, DispatchToFrontInv
<1>3. ASSUME NEW o \in Orders, NEW e \in Entries, DispatchToEntry(o, e) PROVE IInv'
  BY <1>3, DispatchToEntryInv
<1>4. ASSUME NEW o \in Orders, NEW s \in {CancelledByShipper, CancelledByAdmin},
             CancelShipperRequest(o, s)
      PROVE  IInv'
  BY <1>4, CancelShipperRequestInv
<1> QED BY <1>1, <1>2, <1>3, <1>4 DEF OrderAction

\* to a live request,
LEMMA RequestActionInv == IInv /\ RequestAction => IInv'
<1> SUFFICES ASSUME IInv, NEW r \in tables.requests,
                    \/ \E byDriver \in BOOLEAN : CancelDriverRequest(r, byDriver)
                    \/ RejectDriverOffer(r)
                    \/ AcceptGate(r)
                    \/ LoadingStage(r)
                    \/ StartJourney(r)
                    \/ CompleteJourney(r)
             PROVE  IInv'
  BY DEF RequestAction
<1>1. CASE \E byDriver \in BOOLEAN : CancelDriverRequest(r, byDriver)
  BY <1>1, CancelDriverRequestInv
<1>2. CASE RejectDriverOffer(r)
  BY <1>2, RejectDriverOfferInv
<1>3. CASE AcceptGate(r)
  BY <1>3, AcceptGateInv
<1>4. CASE LoadingStage(r)
  BY <1>4, LoadingStageInv
<1>5. CASE StartJourney(r)
  BY <1>5, StartJourneyInv
<1>6. CASE CompleteJourney(r)
  BY <1>6, CompleteJourneyInv
<1> QED BY <1>1, <1>2, <1>3, <1>4, <1>5, <1>6

\* by a call that goes on,
LEMMA CallStepInv == ASSUME IInv, NEW call \in inFlight, CallStep(call) PROVE IInv'
<1>1. CASE call.step = "accept" /\ AcceptDecision(call)
  BY <1>1, AcceptDecisionInv
<1>2. CASE call.step = "agree" /\ AcceptLookup(call)
  BY <1>2, AcceptLookupInv
<1>3. CASE call.step = "stamp" /\ AcceptStamp(call)
  BY <1>3, AcceptStampInv
<1>4. CASE call.step = "close" /\ CompletionClose(call)
  BY <1>4, CompletionCloseInv
<1>5. CASE call.step = "correct" /\ ReconcileApply(call)
  BY <1>5, ReconcileApplyInv
<1>6. CASE call.step = "release" /\ ReleaseRead(call)
  BY <1>6, ReleaseReadInv
<1>7. CASE call.step = "dismiss" /\ ReleaseInvitee(call)
  BY <1>7, ReleaseInviteeInv
<1> QED BY <1>1, <1>2, <1>3, <1>4, <1>5, <1>6, <1>7 DEF CallStep

\* and by the timer's pass.
LEMMA SweepStepInv == IInv /\ SweepStep => IInv'
<1> SUFFICES ASSUME IInv, SweepStep PROVE IInv'
  OBVIOUS
<1>1. ASSUME NEW x \in sweep.todo, SweepMark(x) PROVE IInv'
  BY <1>1, SweepMarkInv
<1>2. CASE SweepCharge
  BY <1>2, SweepChargeInv
<1>3. CASE SweepSeek
  BY <1>3, SweepSeekInv
<1>4. CASE SweepOffer
  BY <1>4, SweepOfferInv
<1>5. CASE SweepSettle
  BY <1>5, SweepSettleInv
<1> QED BY <1>1, <1>2, <1>3, <1>4, <1>5 DEF SweepStep

\* The invariant is inductive.
LEMMA NextInv == IInv /\ [Next]_vars => IInv'
<1> SUFFICES ASSUME IInv, [Next]_vars PROVE IInv'
  OBVIOUS
<1>1. CASE EntryAction
  BY <1>1, EntryActionInv
<1>2. CASE OrderAction
  BY <1>2, OrderActionInv
<1>3. CASE RequestAction
  BY <1>3, RequestActionInv
<1>4. ASSUME NEW found \in SUBSET ExpiredOffers, SweepRead(found) PROVE IInv'
  BY <1>4, SweepReadInv
<1>5. CASE RescanSeek
  BY <1>5, RescanSeekInv
<1>6. CASE SweepStep
  BY <1>6, SweepStepInv
<1>7. ASSUME NEW o \in Orders, ReconcileRead(o) PROVE IInv'
  BY <1>7, ReconcileReadInv
<1>8. ASSUME NEW call \in inFlight, CallStep(call) PROVE IInv'
  BY <1>8, CallStepInv
<1>9. CASE Restart
  BY <1>9, RestartInv
<1>10. CASE UNCHANGED vars
  BY <1>10 DEF vars, IInv
<1> QED
  BY <1>1, <1>2, <1>3, <1>4, <1>5, <1>6, <1>7, <1>8, <1>9, <1>10 DEF Next

\* Typed tables, free waiting drivers and typed calls in every reachable state,
\* of every configuration, with all the handlers interleaving.
THEOREM Invariant == Spec => []IInv
BY InitInv, NextInv, PTL DEF Spec

\* No handler, statement of the pass or restart ever stores a row, a request, a
\* call or a pass outside its type.
THEOREM TypeCorrect == Spec => []TypeOK
<1>1. IInv => TypeOK
  BY InvariantIsEnough
<1> QED BY <1>1, Invariant, PTL

\* However the dispatches, answers, expiries and cancellations interleave, no
\* driver is ever given two requests under the guard of the unique index.
THEOREM OneOfferPerDriver == Spec => []OneGuardedRequest
<1>1. IInv => OneGuardedRequest
  BY InvariantIsEnough
<1> QED BY <1>1, Invariant, PTL

-----------------------------------------------------------------------------
(***************************************************************************)
(* A driver stands in the line once.  A check-in looks for the driver's    *)
(* place, so what could break this is a row that comes back into the line: *)
(* the pass writes to the row it found in front, and to the rows it read   *)
(* as expired.  The first is the only place of its driver as long as the   *)
(* waiting request is there, because a check-in is refused to a driver     *)
(* that has one; the others are in the line or deleted as long as nothing  *)
(* runs in between.                                                        *)
(***************************************************************************)
StandsOnce(t) ==
    \A e, f \in Entries :
        (InLineRow(t.entry[e]) /\ InLineRow(t.entry[f])
            /\ t.entry[e].driver = t.entry[f].driver) => e = f

FrontStands(t, pass) ==
    pass.at = "offer" =>
        /\ t.entry[pass.front].status # NoStatus
        /\ t.entry[pass.front].driver \in t.armed =>
              \A e \in Entries :
                 (InLineRow(t.entry[e]) /\ t.entry[e].driver = t.entry[pass.front].driver)
                    => e = pass.front

Stood(row) == row.deleted \/ InLineRow(row)

\* The expiry's pass writes to rows it read a while ago, and a manual check-in
\* does not look for a waiting request: nothing may run beside the one, nor the
\* re-dispatch beside the other.
LineSafe ==
    Concurrent => /\ "expiry" \notin Operations
                  /\ ~({"manualCheckin", "rescan"} \subseteq Operations)

WaitersStand(t, pass) == \A x \in pass.todo : Stood(t.entry[x.entry])

InTurn ==
    /\ Concurrent => sweep.todo = {}
    /\ ~Concurrent => inFlight = {} \/ sweep = SweepIdle
    /\ (Concurrent /\ "manualCheckin" \in Operations) => sweep = SweepIdle

LineInv ==
    /\ StandsOnce(tables)
    /\ FrontStands(tables, sweep)
    /\ WaitersStand(tables, sweep)
    /\ InTurn

\* Nobody comes back into the line, so nobody stands in it twice.
LEMMA OnwardStands ==
    ASSUME NEW t, NEW u, Onward(t, u), StandsOnce(t)
    PROVE  StandsOnce(u)
<1>1. \A e \in Entries : InLineRow(u.entry[e]) =>
         InLineRow(t.entry[e]) /\ u.entry[e].driver = t.entry[e].driver
  BY StatusesAreTyped DEF Onward, InLineRow, InQueueStatuses, NoStatus, Waiting, Requested,
                          NoAnswer, CancelledBeforeAccept
<1> QED BY <1>1 DEF StandsOnce

\* Nor next to the entry the pass found in front.
LEMMA OnwardFront ==
    ASSUME NEW t, NEW u, Onward(t, u), NEW pass, FrontStands(t, pass),
           pass.at = "offer" => pass.front \in Entries
    PROVE  FrontStands(u, pass)
<1> SUFFICES ASSUME pass.at = "offer" PROVE FrontStands(u, pass)
  BY DEF FrontStands
<1>1. \A e \in Entries : InLineRow(u.entry[e]) =>
         InLineRow(t.entry[e]) /\ u.entry[e].driver = t.entry[e].driver
  BY DEF Onward, InLineRow, InQueueStatuses, NoStatus, Waiting, Requested,
         NoAnswer, CancelledBeforeAccept
<1>2. /\ u.entry[pass.front].status # NoStatus
      /\ u.entry[pass.front].driver = t.entry[pass.front].driver
  BY DEF Onward, FrontStands
<1>3. u.entry[pass.front].driver \in u.armed => t.entry[pass.front].driver \in t.armed
  BY <1>2 DEF Onward
<1> QED BY <1>1, <1>2, <1>3 DEF FrontStands

\* A job does not turn into a place in the line.
Steady(t, u) ==
    \A e \in Entries : t.entry[e].status \in JobStatuses => ~InLineRow(u.entry[e])

LEMMA OnwardSteady ==
    ASSUME NEW t, NEW u, Onward(t, u)
    PROVE  Steady(t, u)
BY DEF Onward, Steady, InLineRow, InQueueStatuses, JobStatuses, NoStatus, Waiting, Requested,
       NoAnswer, CancelledBeforeAccept, Agreed, GoToLoadingPlace, Loading, Loaded,
       JourneyStarted

\* A handler or a part of a call, which moves nobody back into the line.
LEMMA HandlerLine ==
    ASSUME IInv, LineInv, Onward(tables, tables'), sweep' = sweep,
           Concurrent \/ sweep = SweepIdle
    PROVE  LineInv'
<1>1. StandsOnce(tables') /\ FrontStands(tables', sweep')
  BY OnwardStands, OnwardFront DEF LineInv, IInv, PassInv
<1>2. sweep.todo = {}
  BY DEF LineInv, InTurn, SweepIdle
<1> QED BY <1>1, <1>2 DEF LineInv, WaitersStand, InTurn

\* A statement of the pass: the rows it still has to mark stay where they are.
LEMMA PassLine ==
    ASSUME IInv, LineInv, StandsOnce(tables'), FrontStands(tables', sweep'),
           sweep'.todo \subseteq sweep.todo,
           \A x \in sweep'.todo : Stood(tables.entry[x.entry]) => Stood(tables'.entry[x.entry]),
           sweep # SweepIdle \/ (inFlight = {} /\ ~Concurrent), inFlight' = inFlight
    PROVE  LineInv'
BY DEF LineInv, WaitersStand, InTurn

-----------------------------------------------------------------------------
\* A check-in gives a row to a driver that has none in the line.
LEMMA JoinLineLine ==
    ASSUME IInv, LineInv, NEW d \in Drivers, NEW shipper \in Reservations, JoinLine(d, shipper),
           InLine(tables, d) = {}, sweep.at = "offer" => d \notin tables.armed,
           Concurrent \/ sweep = SweepIdle
    PROVE  LineInv' /\ Steady(tables, tables')
<1> DEFINE e == Min(FreeRows)
           number == NextQueueNumber(tables)
           row == [NoRow EXCEPT !.driver = d, !.status = Waiting, !.number = number,
                                !.reserved = shipper]
           joined == [tables EXCEPT !.entry[e] = row]
           M == MaxNumber + 1
<1>1. tables \in TablesUpTo(MaxNumber) /\ MaxNumber \in Nat /\ M \in Nat
  BY TypedNow
<1>2. /\ FreeRows # {}
      /\ Commit(RescanPendingOrder(joined)) /\ inFlight' = inFlight /\ sweep' = sweep
  BY DEF JoinLine, Transaction
<1>3. e \in FreeRows
  <2>1. FreeRows \subseteq Nat
    BY BoundsAssumption DEF FreeRows, Entries
  <2> QED BY <1>2, <2>1, MinIn
<1>4. e \in Entries /\ tables.entry[e].status = NoStatus
  BY <1>3 DEF FreeRows
<1> HIDE DEF e
<1>5. number \in 0..M /\ tables \in TablesUpTo(M)
  BY <1>1, <1>4, NextNumbers, BoundGrows
<1> HIDE DEF number
<1>6. row \in RowUpTo(M) /\ row.driver = d /\ row.status = Waiting /\ ~row.deleted
  <2>1. shipper \in Shippers \cup {None} /\ 0 \in 0..(RefusalLimit - 1) /\ 0 \in 0..M
    BY <1>1, OperationsAssumption, RefusalAssumption
  <2>2. Waiting \in EntryStatuses
    BY StatusesAreTyped
  <2> QED BY <1>5, <2>1, <2>2 DEF NoRow, RowUpTo
<1> HIDE DEF row, M
<1>7. /\ joined \in TablesUpTo(M) /\ joined.armed = tables.armed
      /\ joined.entry = [tables.entry EXCEPT ![e] = row]
      /\ joined.entry[e] = row
      /\ \A f \in Entries : f # e => joined.entry[f] = tables.entry[f]
  BY <1>4, <1>5, <1>6 DEF TablesUpTo
<1> HIDE DEF joined
<1>8. Onward(joined, tables')
  BY <1>1, <1>2, <1>7, RescanKeeps DEF Commit
<1>9. \A f \in Entries : ~(InLineRow(tables.entry[f]) /\ tables.entry[f].driver = d)
  BY DEF InLine, InLineRow, Live, InQueueStatuses, NoStatus, Waiting, Requested,
         NoAnswer, CancelledBeforeAccept
<1>10. StandsOnce(joined)
  BY <1>4, <1>6, <1>7, <1>9 DEF LineInv, StandsOnce
<1>11. FrontStands(joined, sweep)
  <2> SUFFICES ASSUME sweep.at = "offer" PROVE FrontStands(joined, sweep)
    BY DEF FrontStands
  <2>1. sweep.front \in Entries /\ tables.entry[sweep.front].status # NoStatus
    BY DEF IInv, PassInv, LineInv, FrontStands
  <2>2. sweep.front # e /\ joined.entry[sweep.front] = tables.entry[sweep.front]
    BY <1>4, <1>7, <2>1
  <2> QED BY <1>6, <1>7, <2>1, <2>2 DEF LineInv, FrontStands
<1>12. StandsOnce(tables') /\ FrontStands(tables', sweep')
  BY <1>2, <1>8, <1>10, <1>11, OnwardStands, OnwardFront DEF IInv, PassInv
<1>13. sweep.todo = {}
  BY DEF LineInv, InTurn, SweepIdle
<1>14. Steady(tables, tables')
  <2>1. Steady(joined, tables')
    BY <1>8, OnwardSteady
  <2>2. \A f \in Entries : tables.entry[f].status \in JobStatuses =>
           joined.entry[f].status \in JobStatuses
    BY <1>4, <1>7, StatusesAreTyped DEF JobStatuses, NoStatus, Agreed, GoToLoadingPlace,
                                        Loading, Loaded, JourneyStarted
  <2> QED BY <2>1, <2>2 DEF Steady
<1> QED BY <1>2, <1>12, <1>13, <1>14 DEF LineInv, WaitersStand, InTurn

\* The pass finds a driver in the line and gives it a waiting request.
LEMMA FoundLine ==
    ASSUME IInv, LineInv, NEW o, NEW e \in Entries, Found(o, e), inFlight' = inFlight,
           InLineRow(tables.entry[e]), sweep # SweepIdle \/ (inFlight = {} /\ ~Concurrent)
    PROVE  LineInv'
<1> DEFINE next == [sweep EXCEPT !.at = "offer", !.order = o, !.front = e]
<1>1. tables \in TablesUpTo(MaxNumber) /\ sweep \in Pass
  BY TypedNow DEF IInv, PassInv
<1>2. tables'.entry = tables.entry
  BY <1>1 DEF Found, Commit, TablesUpTo
<1>3. sweep' = next /\ next.todo = sweep.todo /\ next.front = e
  BY <1>1 DEF Found, Pass
<1> HIDE DEF next
<1>4. StandsOnce(tables')
  BY <1>2 DEF LineInv, StandsOnce
<1>5. FrontStands(tables', sweep')
  <2>1. tables.entry[e].status # NoStatus
    BY DEF InLineRow, InQueueStatuses, NoStatus, Waiting, Requested, NoAnswer,
           CancelledBeforeAccept
  <2> QED BY <1>2, <1>3, <2>1 DEF LineInv, StandsOnce, FrontStands
<1> QED BY <1>2, <1>3, <1>4, <1>5, PassLine

\* The row the scan ends on is in the line.
LEMMA FrontIsInLine ==
    ASSUME IInv, NEW o \in Orders, NEW excluded, Takers(tables, o, excluded) # {}
    PROVE  LET e == FrontEntry(tables, o, excluded)
           IN  e \in Entries /\ InLineRow(tables.entry[e])
BY TypedNow, FrontTaker

LEMMA SweepSeekLine ==
    ASSUME IInv, LineInv, SweepSeek
    PROVE  LineInv'
<1> DEFINE o == sweep.order
           passed == {sweep.expired.driver}
           next == Takers(tables, o, passed)
           e == FrontEntry(tables, o, passed)
           u == ResetToWaitingIfUnheld(tables, o)
<1>1. /\ tables \in TablesUpTo(MaxNumber) /\ MaxNumber \in Nat /\ o \in Orders
      /\ inFlight' = inFlight /\ sweep # SweepIdle
  BY TypedNow DEF IInv, PassInv, SweepSeek, SweepIdle
<1>2. CASE next = {}
  <2>1. tables' = u /\ sweep' = SweepNext
    BY <1>2 DEF SweepSeek, Commit
  <2>2. u.entry = tables.entry /\ u.armed = tables.armed
    BY <1>1 DEF ResetToWaitingIfUnheld, TablesUpTo
  <2>3. StandsOnce(tables')
    BY <2>1, <2>2 DEF LineInv, StandsOnce
  <2>4. sweep'.todo \subseteq sweep.todo /\ sweep'.at # "offer"
    BY <2>1 DEF SweepNext, SweepIdle
  <2> QED BY <1>1, <2>1, <2>2, <2>3, <2>4, PassLine DEF FrontStands
<1>3. CASE next # {}
  <2>1. Found(o, e)
    BY <1>3 DEF SweepSeek
  <2>2. e \in Entries /\ InLineRow(tables.entry[e])
    BY <1>1, <1>3, FrontIsInLine
  <2> HIDE DEF o, e
  <2> QED BY <1>1, <2>1, <2>2, FoundLine
<1> QED BY <1>2, <1>3

LEMMA RescanSeekLine ==
    ASSUME IInv, LineInv, RescanSeek, LineSafe
    PROVE  LineInv'
<1> DEFINE served == {o \in PendingOrders(tables) : Takers(tables, o, {}) # {}}
           o == Min(served)
           e == FrontEntry(tables, o, {})
<1>1. tables \in TablesUpTo(MaxNumber) /\ MaxNumber \in Nat
  BY TypedNow
<1>2. served # {} /\ Found(o, e) /\ inFlight' = inFlight /\ Starts("rescan") /\ sweep = SweepIdle
  BY DEF RescanSeek
<1>3. o \in served
  <2>1. served \subseteq Nat
    BY BoundsAssumption DEF PendingOrders, Orders
  <2> HIDE DEF served
  <2> QED BY <1>2, <2>1, MinIn
<1>4. o \in Orders /\ Takers(tables, o, {}) # {}
  <2>1. served \subseteq Orders /\ \A x \in served : Takers(tables, x, {}) # {}
    BY DEF PendingOrders
  <2> HIDE DEF o, served
  <2> QED BY <1>3, <2>1
<1> HIDE DEF o
<1>5. e \in Entries /\ InLineRow(tables.entry[e])
  BY <1>4, FrontIsInLine
<1> HIDE DEF e
<1>6. CASE Concurrent
  <2> DEFINE next == [sweep EXCEPT !.at = "offer", !.order = o, !.front = e]
  <2>1. sweep \in Pass
    BY DEF IInv, PassInv
  <2>2. tables'.entry = tables.entry
    BY <1>1, <1>2 DEF Found, Commit, TablesUpTo
  <2>3. sweep' = next /\ next.todo = sweep.todo /\ next.front = e
    BY <1>2, <2>1 DEF Found, Pass
  <2> HIDE DEF next
  <2>4. tables.entry[e].status # NoStatus
    BY <1>5 DEF InLineRow, InQueueStatuses, NoStatus, Waiting, Requested, NoAnswer,
                CancelledBeforeAccept
  <2>5. FrontStands(tables', sweep')
    BY <1>5, <2>2, <2>3, <2>4 DEF LineInv, StandsOnce, FrontStands
  <2>6. "manualCheckin" \notin Operations
    BY <1>2, <1>6 DEF LineSafe, Starts
  <2> QED BY <1>6, <2>2, <2>3, <2>5, <2>6 DEF LineInv, StandsOnce, WaitersStand, InTurn
<1>7. CASE ~Concurrent
  <2>1. inFlight = {}
    BY <1>2, <1>7 DEF Starts, Quiet
  <2> QED BY <1>2, <1>5, <1>7, <2>1, FoundLine
<1> QED BY <1>6, <1>7

\* A row that takes another status and another order, and is otherwise as it was.
Relinked(row, status, order) == [row EXCEPT !.status = status, !.order = order]

LEMMA RelinkedRow ==
    ASSUME NEW N \in Nat, NEW row \in RowUpTo(N), NEW status, NEW order
    PROVE  /\ Relinked(row, status, order).status = status
           /\ Relinked(row, status, order).order = order
           /\ Relinked(row, status, order).driver = row.driver
           /\ Relinked(row, status, order).deleted = row.deleted
           /\ Relinked(row, status, order).refusals = row.refusals
           /\ Relinked(row, status, order).loading = row.loading
           /\ Relinked(row, status, order).reserved = row.reserved
BY DEF RowUpTo, Relinked

\* The entries that lose the order when e takes it: those that did not answer.
Retained(t, o, e) == HoldersIn(t, o, {NoAnswer}) \ {e}

Asking(d, o) == [driver |-> d, order |-> o, status |-> Requested]

\* What an offer of the order to the entry does, row by row.
Offered(t, u, o, e) ==
    /\ u.entry[e] = Relinked(t.entry[e], Requested, o)
    /\ \A f \in Retained(t, o, e) : u.entry[f] = Relinked(t.entry[f], CancelledBeforeAccept, None)
    /\ \A f \in Entries : (f # e /\ f \notin Retained(t, o, e)) => u.entry[f] = t.entry[f]
    /\ u.order[o] = Requested
    /\ \A p \in Orders : p # o => u.order[p] = t.order[p]
    /\ u.requests = t.requests \cup {Asking(t.entry[e].driver, o)}
    /\ u.armed = t.armed \ {t.entry[e].driver}
    /\ u.delivered = t.delivered

LEMMA OfferRows ==
    ASSUME NEW N \in Nat, NEW t \in TablesUpTo(N), NEW o \in Orders, NEW e \in Entries
    PROVE  Offered(t, Offer(t, o, e), o, e)
<1> DEFINE row == [t.entry[e] EXCEPT !.status = Requested, !.order = o]
           retained == Retained(t, o, e)
           freed(f) == Relinked(t.entry[f], CancelledBeforeAccept, None)
           rows == [f \in Entries |-> IF f \in retained THEN freed(f) ELSE t.entry[f]]
           r == [t EXCEPT !.entry = rows]
           request == Asking(t.entry[e].driver, o)
           s == ReleaseRetained(t, o, e)
           u == [s EXCEPT !.entry = [s.entry EXCEPT ![e] = row],
                          !.order = [s.order EXCEPT ![o] = Requested],
                          !.requests = s.requests \cup {request},
                          !.armed = s.armed \ {t.entry[e].driver}]
<1>1. r = s /\ s \in TablesUpTo(N)
  <2>1. s \in TablesUpTo(N)
    BY ReleaseRetainedKeeps DEF Keeps
  <2>2. r = s
    BY DEF ReleaseRetained, Retained, Relinked
  <2> QED BY <2>1, <2>2
<1>2. rows[e] = t.entry[e] /\ retained \subseteq Entries
  BY DEF Retained, HoldersIn
<1> HIDE DEF retained, freed
<1>3. /\ s.entry = rows /\ s.order = t.order /\ s.requests = t.requests /\ s.armed = t.armed
      /\ s.delivered = t.delivered
  <2> HIDE DEF rows, s
  <2> QED BY <1>1 DEF TablesUpTo
<1>4. Offer(t, o, e) = u
  <2>1. s.entry[e] = t.entry[e]
    BY <1>2, <1>3
  <2> HIDE DEF rows, r
  <2> QED BY <1>1, <2>1 DEF Offer, TablesUpTo, Asking
<1>5. \A f \in Entries : f # e =>
         [rows EXCEPT ![e] = row][f] = IF f \in retained THEN freed(f) ELSE t.entry[f]
  OBVIOUS
<1>6. [rows EXCEPT ![e] = row][e] = row
  OBVIOUS
<1> DEFINE rows2 == [rows EXCEPT ![e] = row]
<1> HIDE DEF row, request, rows2, rows, s
<1>7. /\ u.entry = rows2 /\ u.order = [t.order EXCEPT ![o] = Requested]
      /\ u.requests = t.requests \cup {request} /\ u.armed = t.armed \ {t.entry[e].driver}
      /\ u.delivered = t.delivered
  BY <1>1, <1>3 DEF TablesUpTo, rows2
<1>8. e \notin retained
  BY DEF retained, Retained
<1>9. t.order \in [Orders -> OrderStatuses]
  BY DEF TablesUpTo
<1> HIDE DEF u
<1> QED BY <1>2, <1>4, <1>5, <1>6, <1>7, <1>8, <1>9
       DEF Offered, rows2, retained, freed, row, request, Relinked


\* What releasing the retained entries does, row by row.
Released(t, u, o, e) ==
    /\ \A f \in Retained(t, o, e) : u.entry[f] = Relinked(t.entry[f], CancelledBeforeAccept, None)
    /\ \A f \in Entries : f \notin Retained(t, o, e) => u.entry[f] = t.entry[f]

LEMMA RetainedRows ==
    ASSUME NEW N \in Nat, NEW t \in TablesUpTo(N), NEW o, NEW e
    PROVE  Released(t, ReleaseRetained(t, o, e), o, e)
BY DEF Released, Retained, ReleaseRetained, TablesUpTo, HoldersIn, Relinked

\* A row that takes a status of the line is in it if it is not deleted.
LEMMA FreedStood ==
    ASSUME NEW N \in Nat, NEW row \in RowUpTo(N), NEW status \in InQueueStatuses, NEW order
    PROVE  Stood(Relinked(row, status, order))
BY RelinkedRow DEF RowUpTo, Stood, InLineRow

LEMMA SweepOfferLine ==
    ASSUME IInv, LineInv, SweepOffer
    PROVE  LineInv'
<1> DEFINE o == sweep.order
           e == sweep.front
           d == tables.entry[e].driver
<1>1. /\ tables \in TablesUpTo(MaxNumber) /\ MaxNumber \in Nat /\ inFlight' = inFlight
      /\ o \in Orders /\ e \in Entries /\ sweep.at = "offer" /\ sweep # SweepIdle
      /\ sweep \in Pass
  BY TypedNow DEF IInv, PassInv, SweepOffer, SweepIdle
<1>2. tables.entry \in [Entries -> RowUpTo(MaxNumber)]
  BY <1>1 DEF TablesUpTo
<1>3. sweep'.todo \subseteq sweep.todo /\ sweep'.at # "offer"
  <2>1. sweep' \in {SweepIdle, [sweep EXCEPT !.at = "settle", !.front = None]}
    BY DEF SweepOffer
  <2>2. CASE sweep' = SweepIdle
    BY <2>2 DEF SweepIdle
  <2>3. CASE sweep' = [sweep EXCEPT !.at = "settle", !.front = None]
    <3>1. sweep'.todo = sweep.todo /\ sweep'.at = "settle"
      BY <1>1, <2>3 DEF Pass
    <3> QED BY <3>1
  <2> QED BY <2>1, <2>2, <2>3
<1>4. \A x \in sweep.todo : x.entry \in Entries
  BY <1>1 DEF Pass, Expired
<1> DEFINE retained == Retained(tables, o, e)
<1>5. \A f \in retained : f \in Entries /\ InLineRow(tables.entry[f])
  BY DEF Retained, HoldersIn, Live, InLineRow, InQueueStatuses
<1>6. /\ Requested \in InQueueStatuses /\ CancelledBeforeAccept \in InQueueStatuses
  BY DEF InQueueStatuses
<1>7. CASE d \in tables.armed
  <2> DEFINE u == Offer(tables, o, e)
  <2>1. tables' = u
    BY <1>7 DEF SweepOffer, Commit
  <2>2. Offered(tables, u, o, e)
    BY <1>1, OfferRows
  <2> HIDE DEF u, o, e, retained
  <2>3. \A f \in Entries : /\ u.entry[f].driver = tables.entry[f].driver
                           /\ Stood(tables.entry[f]) => Stood(u.entry[f])
    BY <1>1, <1>2, <1>6, <2>2, FreedStood, RelinkedRow DEF Offered, retained
  <2>4. \A f \in Entries : InLineRow(u.entry[f]) => InLineRow(tables.entry[f]) \/ f = e
    BY <1>5, <2>2 DEF Offered, retained
  <2>5. \A f \in Entries : (InLineRow(tables.entry[f]) /\ tables.entry[f].driver = d) => f = e
    BY <1>1, <1>7 DEF LineInv, FrontStands, e
  <2>6. StandsOnce(u)
    BY <2>3, <2>4, <2>5 DEF LineInv, StandsOnce, d
  <2> QED BY <1>1, <1>3, <1>4, <2>1, <2>3, <2>6, PassLine DEF FrontStands
<1>8. CASE d \notin tables.armed
  <2> DEFINE u == ReleaseRetained(tables, o, e)
  <2>1. tables' = u
    BY <1>8 DEF SweepOffer, Commit
  <2>2. Released(tables, u, o, e)
    BY <1>1, RetainedRows
  <2>3. Onward(tables, u)
    BY <1>1, ReleaseRetainedKeeps
  <2> HIDE DEF u, o, e, retained
  <2>4. \A f \in Entries : Stood(tables.entry[f]) => Stood(u.entry[f])
    BY <1>1, <1>2, <1>6, <2>2, FreedStood DEF Released, retained
  <2>5. StandsOnce(u)
    BY <2>3, OnwardStands DEF LineInv
  <2> QED BY <1>1, <1>3, <1>4, <2>1, <2>4, <2>5, PassLine DEF FrontStands
<1> QED BY <1>7, <1>8

\* A row that is marked was in the line, or is deleted.
LEMMA SweepMarkLine ==
    ASSUME IInv, LineInv, NEW x \in sweep.todo, SweepMark(x)
    PROVE  LineInv' /\ Onward(tables, tables')
<1> DEFINE e == x.entry
           row == [tables.entry[e] EXCEPT !.status = NoAnswer]
           u == [tables EXCEPT !.entry[e] = row]
<1>1. /\ tables \in TablesUpTo(MaxNumber) /\ MaxNumber \in Nat /\ inFlight' = inFlight
      /\ sweep.at = "mark" /\ sweep # SweepIdle /\ sweep \in Pass
  BY TypedNow DEF IInv, PassInv, SweepMark, SweepIdle
<1>2. e \in Entries /\ \A y \in sweep.todo : y.entry \in Entries
  BY <1>1 DEF Pass, Expired
<1>3. tables' = u
  BY <1>1, <1>2 DEF SweepMark, Commit, TablesUpTo
<1>4. /\ row.driver = tables.entry[e].driver /\ row.status = NoAnswer
      /\ row.deleted = tables.entry[e].deleted
  BY <1>1, <1>2 DEF TablesUpTo, RowUpTo
<1> HIDE DEF row
<1>5. u.entry[e] = row /\ \A f \in Entries : f # e => u.entry[f] = tables.entry[f]
  BY <1>1, <1>2 DEF TablesUpTo
<1>6. InLineRow(row) => InLineRow(tables.entry[e])
  BY <1>4 DEF LineInv, WaitersStand, Stood, InLineRow
<1>7. Onward(tables, u)
  BY <1>1, <1>2, <1>4, <1>6, StatusesAreTyped, RowOnward
<1> HIDE DEF u
<1>8. \A f \in Entries : Stood(tables.entry[f]) => Stood(u.entry[f])
  BY <1>4, <1>5 DEF Stood, InLineRow, InQueueStatuses
<1>9. sweep'.todo \subseteq sweep.todo /\ sweep'.at # "offer"
  BY <1>1 DEF SweepMark, Pass
<1>10. StandsOnce(u)
  BY <1>7, OnwardStands DEF LineInv
<1> QED BY <1>1, <1>2, <1>3, <1>7, <1>8, <1>9, <1>10, PassLine DEF FrontStands

\* A charge leaves the statuses as they are.
LEMMA ChargeRows ==
    ASSUME NEW N \in Nat, NEW t \in TablesUpTo(N), NEW e, NEW count, NEW back
    PROVE  LET u == ChargeRefusal(t, e, count, back)
           IN  /\ \A f \in Entries :
                     /\ u.entry[f].status = t.entry[f].status
                     /\ u.entry[f].driver = t.entry[f].driver
                     /\ u.entry[f].order = t.entry[f].order
                     /\ u.entry[f].loading = t.entry[f].loading
                     /\ u.entry[f].reserved = t.entry[f].reserved
                     /\ u.entry[f].deleted = t.entry[f].deleted
                     /\ f # e => u.entry[f] = t.entry[f]
               /\ u.order = t.order /\ u.requests = t.requests /\ u.armed = t.armed
               /\ u.delivered = t.delivered
BY DEF ChargeRefusal, TablesUpTo, RowUpTo

LEMMA SweepChargeLine ==
    ASSUME IInv, LineInv, SweepCharge
    PROVE  LineInv'
<1> DEFINE x == sweep.expired
           u == ChargeRefusal(tables, x.entry, x.refusals, sweep.back)
<1>1. /\ tables \in TablesUpTo(MaxNumber) /\ MaxNumber \in Nat /\ inFlight' = inFlight
      /\ tables' = u /\ sweep.at = "charge" /\ sweep # SweepIdle /\ sweep \in Pass
  BY TypedNow DEF IInv, PassInv, SweepCharge, SweepIdle, Commit
<1>2. \A f \in Entries : /\ u.entry[f].driver = tables.entry[f].driver
                         /\ u.entry[f].status = tables.entry[f].status
                         /\ u.entry[f].deleted = tables.entry[f].deleted
  BY <1>1, ChargeRows
<1>3. \A y \in sweep.todo : y.entry \in Entries
  BY <1>1 DEF Pass, Expired
<1>4. sweep'.todo \subseteq sweep.todo /\ sweep'.at # "offer"
  BY <1>1 DEF SweepCharge, Pass
<1> HIDE DEF u
<1>5. \A f \in Entries : /\ InLineRow(u.entry[f]) <=> InLineRow(tables.entry[f])
                         /\ Stood(u.entry[f]) <=> Stood(tables.entry[f])
  BY <1>2 DEF InLineRow, Stood
<1>6. StandsOnce(u)
  BY <1>2, <1>5 DEF LineInv, StandsOnce
<1> QED BY <1>1, <1>3, <1>4, <1>5, <1>6, PassLine DEF FrontStands

LEMMA SweepSettleLine ==
    ASSUME IInv, LineInv, SweepSettle
    PROVE  LineInv'
<1>1. /\ tables \in TablesUpTo(MaxNumber) /\ inFlight' = inFlight
      /\ sweep.at = "settle" /\ sweep # SweepIdle /\ sweep' = SweepNext
  BY TypedNow DEF SweepSettle, SweepIdle
<1>2. tables'.entry = tables.entry
  BY <1>1 DEF SweepSettle, Commit, TablesUpTo
<1>3. sweep'.todo \subseteq sweep.todo /\ sweep'.at # "offer"
  BY <1>1 DEF SweepNext, SweepIdle
<1>4. StandsOnce(tables')
  BY <1>2 DEF LineInv, StandsOnce
<1> QED BY <1>1, <1>2, <1>3, <1>4, PassLine DEF FrontStands

LEMMA SweepReadLine ==
    ASSUME IInv, LineInv, NEW found \in SUBSET ExpiredOffers, SweepRead(found),
           Concurrent => "expiry" \notin Operations
    PROVE  LineInv'
<1>1. /\ tables' = tables /\ inFlight' = inFlight /\ Starts("expiry") /\ ~Concurrent
      /\ sweep'.todo = found /\ sweep'.at = "mark"
  BY DEF SweepRead, Starts, SweepIdle
<1>2. inFlight' = {}
  BY <1>1 DEF Starts, Quiet
<1>3. \A x \in found : Stood(tables.entry[x.entry])
  BY DEF ExpiredOffers, Live, Stood, InLineRow, InQueueStatuses
<1> QED BY <1>1, <1>2, <1>3 DEF LineInv, StandsOnce, FrontStands, WaitersStand, InTurn

-----------------------------------------------------------------------------
(***************************************************************************)
(* The steps together.                                                     *)
(***************************************************************************)
LEMMA LineInit == Init => LineInv
BY DEF Init, LineInv, StandsOnce, FrontStands, WaitersStand, InTurn, EmptyTables, NoRow,
       SweepIdle, InLineRow, InQueueStatuses, NoStatus, Waiting, Requested, NoAnswer,
       CancelledBeforeAccept

\* A call that ends other invitations takes no entry back into the line.
DismissesNoHolder ==
    \A call \in inFlight : call.step = "dismiss" =>
        \A q \in call.others : TheirEntries(tables, q) = {}

LEMMA LineNext ==
    ASSUME LineSafe, DismissesNoHolder, IInv, LineInv, [Next]_vars
    PROVE  LineInv'
<1>1. \A op : Starts(op) => Concurrent \/ sweep = SweepIdle
  BY DEF Starts, Quiet
<1>2. ASSUME NEW d \in Drivers, NEW s \in Reservations, CheckIn(d, s) PROVE LineInv'
  BY <1>1, <1>2, JoinLineLine DEF CheckIn
<1>3. ASSUME NEW d \in Drivers, NEW s \in Reservations, ManualCheckin(d, s) PROVE LineInv'
  <2>1. sweep = SweepIdle /\ JoinLine(d, s) /\ InLine(tables, d) = {}
    BY <1>3 DEF ManualCheckin, Starts, LineInv, InTurn, Quiet
  <2> QED BY <2>1, JoinLineLine DEF SweepIdle
<1>4. CASE EntryAction
  <2>1. ASSUME NEW d \in Drivers, NEW s \in Reservations, CheckInAgain(d, s) PROVE LineInv'
    BY <1>1, <2>1, CheckInAgainInv, HandlerLine DEF CheckInAgain, Transaction
  <2>2. ASSUME NEW d \in Drivers, Checkout(d) PROVE LineInv'
    BY <1>1, <2>2, CheckoutInv, HandlerLine DEF Checkout, Transaction
  <2>3. ASSUME NEW d \in Drivers, CancelWaitingRequest(d) PROVE LineInv'
    BY <1>1, <2>3, CancelWaitingRequestInv, HandlerLine DEF CancelWaitingRequest, Transaction
  <2>4. ASSUME NEW e \in Entries, RemoveEntry(e) PROVE LineInv'
    BY <1>1, <2>4, RemoveEntryInv, HandlerLine DEF RemoveEntry, Transaction
  <2>5. ASSUME NEW e \in Entries, NEW n \in 1..MaxNumber, OverrideEntry(e, n) PROVE LineInv'
    BY <1>1, <2>5, OverrideEntryInv, HandlerLine DEF OverrideEntry, Transaction
  <2> QED BY <1>2, <1>3, <1>4, <2>1, <2>2, <2>3, <2>4, <2>5 DEF EntryAction
<1>5. CASE OrderAction
  <2>1. ASSUME NEW o \in Orders, PlaceOrder(o) PROVE LineInv'
    BY <1>1, <2>1, PlaceOrderInv, HandlerLine DEF PlaceOrder, Transaction
  <2>2. ASSUME NEW o \in Orders, DispatchToFront(o) PROVE LineInv'
    BY <1>1, <2>2, DispatchToFrontInv, HandlerLine DEF DispatchToFront, Transaction
  <2>3. ASSUME NEW o \in Orders, NEW e \in Entries, DispatchToEntry(o, e) PROVE LineInv'
    BY <1>1, <2>3, DispatchToEntryInv, HandlerLine DEF DispatchToEntry, Transaction
  <2>4. ASSUME NEW o \in Orders, NEW s \in {CancelledByShipper, CancelledByAdmin},
               CancelShipperRequest(o, s)
        PROVE  LineInv'
    BY <1>1, <2>4, CancelShipperRequestInv, HandlerLine DEF CancelShipperRequest, Transaction
  <2> QED BY <1>5, <2>1, <2>2, <2>3, <2>4 DEF OrderAction
<1>6. CASE RequestAction
  <2>1. PICK r \in tables.requests :
           \/ \E byDriver \in BOOLEAN : CancelDriverRequest(r, byDriver)
           \/ RejectDriverOffer(r)
           \/ AcceptGate(r)
           \/ LoadingStage(r)
           \/ StartJourney(r)
           \/ CompleteJourney(r)
    BY <1>6 DEF RequestAction
  <2>2. CASE \E byDriver \in BOOLEAN : CancelDriverRequest(r, byDriver)
    BY <1>1, <2>2, CancelDriverRequestInv, HandlerLine DEF CancelDriverRequest, Transaction
  <2>3. CASE RejectDriverOffer(r)
    BY <1>1, <2>3, RejectDriverOfferInv, HandlerLine DEF RejectDriverOffer, Transaction
  <2>4. CASE AcceptGate(r)
    BY <1>1, <2>4, AcceptGateInv, HandlerLine DEF AcceptGate, Begin
  <2>5. CASE LoadingStage(r)
    BY <1>1, <2>5, LoadingStageInv, HandlerLine DEF LoadingStage, Transaction
  <2>6. CASE StartJourney(r)
    BY <1>1, <2>6, StartJourneyInv, HandlerLine DEF StartJourney, Transaction
  <2>7. CASE CompleteJourney(r)
    BY <1>1, <2>7, CompleteJourneyInv, HandlerLine DEF CompleteJourney, Begin
  <2> QED BY <2>1, <2>2, <2>3, <2>4, <2>5, <2>6, <2>7
<1>7. ASSUME NEW found \in SUBSET ExpiredOffers, SweepRead(found) PROVE LineInv'
  BY <1>7, SweepReadLine DEF LineSafe
<1>8. CASE SweepStep
  BY <1>8, SweepMarkLine, SweepChargeLine, SweepSeekLine, SweepOfferLine, SweepSettleLine
     DEF SweepStep
<1>9. ASSUME NEW o \in Orders, ReconcileRead(o) PROVE LineInv'
  BY <1>1, <1>9, ReconcileReadInv, HandlerLine DEF ReconcileRead, Begin
<1>10. ASSUME NEW call \in inFlight, CallStep(call) PROVE LineInv'
  <2>1. Concurrent \/ sweep = SweepIdle
    BY DEF LineInv, InTurn
  <2>2. CASE call.step = "accept" /\ AcceptDecision(call)
    BY <2>1, <2>2, AcceptDecisionInv, HandlerLine DEF AcceptDecision, Continue
  <2>3. CASE call.step = "agree" /\ AcceptLookup(call)
    BY <2>1, <2>3, AcceptLookupInv, HandlerLine DEF AcceptLookup, Continue
  <2>4. CASE call.step = "stamp" /\ AcceptStamp(call)
    BY <2>1, <2>4, AcceptStampInv, HandlerLine DEF AcceptStamp, Continue
  <2>5. CASE call.step = "close" /\ CompletionClose(call)
    BY <2>1, <2>5, CompletionCloseInv, HandlerLine DEF CompletionClose, Continue
  <2>6. CASE call.step = "correct" /\ ReconcileApply(call)
    BY <2>1, <2>6, ReconcileApplyInv, HandlerLine DEF ReconcileApply, Continue
  <2>7. CASE call.step = "release" /\ ReleaseRead(call)
    BY <2>1, <2>7, ReleaseReadInv, HandlerLine DEF ReleaseRead, Continue
  <2>8. CASE call.step = "dismiss" /\ ReleaseInvitee(call)
    <3>1. Onward(tables, tables')
      BY <2>8, ReleaseInviteeInv DEF DismissesNoHolder
    <3>2. sweep' = sweep
      BY <2>8 DEF ReleaseInvitee, Continue
    <3> QED BY <2>1, <3>1, <3>2, HandlerLine
  <2> QED BY <1>10, <2>2, <2>3, <2>4, <2>5, <2>6, <2>7, <2>8 DEF CallStep
<1>11. CASE Restart
  BY <1>11 DEF Restart, LineInv, StandsOnce, FrontStands, WaitersStand, InTurn, SweepIdle
<1>12. CASE UNCHANGED vars
  BY <1>12 DEF vars, LineInv, InTurn
<1> QED BY <1>4, <1>5, <1>6, <1>7, RescanSeekLine, <1>8, <1>9, <1>10, <1>11, <1>12 DEF Next

-----------------------------------------------------------------------------
(***************************************************************************)
(* Orders, requests and entries agree, when one call at a time runs the    *)
(* orderly operations: those whose handlers finish what they begin for     *)
(* the entry, the request and the order alike.  Left out are the ones the  *)
(* model shows to leave one of the three behind: an admin that ends a      *)
(* driver's request or takes an entry out, a shipper that turns a driver   *)
(* down, a manual dispatch, the reconciliation, a restart, and a shipper   *)
(* that cancels an order while a vehicle is being loaded.                  *)
(***************************************************************************)
Orderly ==
    /\ ~Concurrent
    /\ Operations \subseteq {"checkin", "manualCheckin", "place", "accept", "loading", "start",
                             "complete", "driverCancel", "shipperCancel", "checkout", "override",
                             "rescan", "expiry"}
    /\ ~({"loading", "shipperCancel"} \subseteq Operations)

Holding(row) == row.status \in HoldingStatuses /\ ~row.deleted

\* The request an entry that holds an order stands for.
Stage(row) == IF row.status = Agreed THEN AcceptedByShipper ELSE row.status
RequestOf(row) == [driver |-> row.driver, order |-> row.order, status |-> Stage(row)]

Fits(t, row) ==
    IF row.status = NoAnswer
    THEN "expiry" \in Operations /\ t.order[row.order] = Requested
    ELSE /\ RequestOf(row) \in t.requests
         /\ t.order[row.order] = Stage(row)
         /\ row.status # Requested => row.loading # 0

\* An entry that did not answer may be reserved anew once its request is over.
Reserved(t, row) ==
    (row.status = NoAnswer => Asking(row.driver, row.order) \in t.requests)
      => row.reserved \in {None, ShipperOf[row.order]}

\* A live request belongs to a holder, is on its way with an order that was
\* cancelled, or was left by a driver that did not answer.
Carried(t, r) == \E e \in Holders(t, r.order) : RequestOf(t.entry[e]) = r
Abandoned(t, r) ==
    /\ "shipperCancel" \in Operations
    /\ r.status = JourneyStarted /\ t.order[r.order] \in ClosedOrderStatuses
Stray(r) == "expiry" \in Operations /\ r.status = Requested

\* Everything about one order agrees.
Settled(t, o) ==
    /\ \A e \in Holders(t, o) : Fits(t, t.entry[e]) /\ Reserved(t, t.entry[e])
    /\ \A r \in t.requests : r.order = o => Carried(t, r) \/ Abandoned(t, r) \/ Stray(r)
    /\ t.order[o] \in ActiveOrderStatuses \ {Waiting} => Holders(t, o) # {}

\* Entries hold orders, one entry an order.
Linked(row) == (row.order # None => Holding(row)) /\ (Holding(row) => row.order \in Orders)
Staged(r) ==
    "loading" \in Operations \/ r.status \in {Requested, AcceptedByShipper, JourneyStarted}

Whole(t) ==
    /\ \A e \in Entries : Linked(t.entry[e])
    /\ \A o \in Orders : \A e, f \in Holders(t, o) : e = f
    /\ \A r \in t.requests : Staged(r)

\* All orders are settled, but for those a call is in the middle of.
Matched(t, off) == Whole(t) /\ \A o \in Orders \ off : Settled(t, o)

\* Nobody is driving for the order or being asked for it.
Rest(t, o) == \A r \in t.requests : r.order = o => Abandoned(t, r) \/ Stray(r)
Open(t, o) ==
    /\ Matched(t, {o})
    /\ \A e \in Holders(t, o) : t.entry[e].status = NoAnswer
    /\ Rest(t, o) /\ t.order[o] \notin ClosedOrderStatuses

-----------------------------------------------------------------------------
(***************************************************************************)
(* An update that is about one order leaves the others settled.            *)
(***************************************************************************)
Alike(row, new) ==
    /\ new.driver = row.driver /\ new.status = row.status /\ new.order = row.order
    /\ new.loading = row.loading /\ new.reserved = row.reserved /\ new.deleted = row.deleted

OnlyFor(row, o) == Holding(row) => row.order = o

Local(t, u, o) ==
    /\ \A p \in Orders : p # o => u.order[p] = t.order[p]
    /\ \A e \in Entries :
          \/ Alike(t.entry[e], u.entry[e])
          \/ OnlyFor(t.entry[e], o) /\ OnlyFor(u.entry[e], o) /\ Linked(u.entry[e])
    /\ \A r \in t.requests : r.order # o => r \in u.requests
    /\ \A r \in u.requests : r \in t.requests \/ (r.order = o /\ Staged(r))
    /\ \A e, f \in Holders(u, o) : e = f

\* The entries that hold an order.
LEMMA HoldersAre ==
    ASSUME NEW t, NEW o
    PROVE  \A e : e \in Holders(t, o) <=> e \in Entries /\ Holding(t.entry[e]) /\ t.entry[e].order = o
BY DEF Holders, HoldersIn, Live, Holding, HoldingStatuses, JobStatuses, NoStatus, Requested,
       NoAnswer, Agreed, GoToLoadingPlace, Loading, Loaded, JourneyStarted

LEMMA LocalHolders ==
    ASSUME NEW t, NEW u, NEW o, Local(t, u, o), NEW p, p # o
    PROVE  /\ Holders(u, p) = Holders(t, p)
           /\ \A e \in Holders(t, p) : Alike(t.entry[e], u.entry[e])
<1>1. \A e \in Entries : (Holding(u.entry[e]) /\ u.entry[e].order = p)
                            <=> (Holding(t.entry[e]) /\ t.entry[e].order = p)
  BY DEF Local, Alike, OnlyFor, Holding
<1>2. \A e \in Entries : (Holding(t.entry[e]) /\ t.entry[e].order = p)
                            => Alike(t.entry[e], u.entry[e])
  BY DEF Local, OnlyFor
<1>3. \A e : e \in Holders(u, p) <=> e \in Holders(t, p)
  BY <1>1, HoldersAre
<1>4. \A e \in Holders(t, p) : Alike(t.entry[e], u.entry[e])
  BY <1>2, HoldersAre
<1> QED BY <1>3, <1>4

\* Another order stays settled,
LEMMA LocalSettled ==
    ASSUME NEW t, NEW u, NEW o, Local(t, u, o), NEW p \in Orders, p # o, Settled(t, p)
    PROVE  Settled(u, p)
<1>1. /\ Holders(u, p) = Holders(t, p)
      /\ \A e \in Holders(t, p) : Alike(t.entry[e], u.entry[e]) /\ t.entry[e].order = p
  BY LocalHolders, HoldersAre
<1>2. u.order[p] = t.order[p]
  BY DEF Local
<1>3. ASSUME NEW r, r.order = p PROVE r \in u.requests <=> r \in t.requests
  BY <1>3 DEF Local
<1>4. ASSUME NEW e \in Holders(t, p) PROVE RequestOf(u.entry[e]) = RequestOf(t.entry[e])
  BY <1>1 DEF Alike, RequestOf, Stage
<1>5. ASSUME NEW e \in Holders(u, p) PROVE Fits(u, u.entry[e]) /\ Reserved(u, u.entry[e])
  <2>1. Alike(t.entry[e], u.entry[e]) /\ t.entry[e].order = p /\ e \in Holders(t, p)
    BY <1>1
  <2>2. Fits(t, t.entry[e]) /\ Reserved(t, t.entry[e])
    BY <2>1 DEF Settled
  <2>3. RequestOf(t.entry[e]).order = p /\ Asking(t.entry[e].driver, p).order = p
    BY <2>1 DEF RequestOf, Asking
  <2>4. RequestOf(t.entry[e]) \in u.requests <=> RequestOf(t.entry[e]) \in t.requests
    BY <1>3, <2>3
  <2>5. Asking(t.entry[e].driver, p) \in u.requests <=> Asking(t.entry[e].driver, p) \in t.requests
    BY <1>3, <2>3
  <2>6. Fits(u, u.entry[e])
    BY <1>2, <1>4, <2>1, <2>2, <2>4 DEF Fits, Alike, Stage
  <2>7. Reserved(u, u.entry[e])
    BY <2>1, <2>2, <2>5 DEF Reserved, Alike
  <2> QED BY <2>6, <2>7
<1>6. ASSUME NEW r \in u.requests, r.order = p
      PROVE  Carried(u, r) \/ Abandoned(u, r) \/ Stray(r)
  <2>1. r \in t.requests
    BY <1>3, <1>6
  <2>2. Carried(t, r) => Carried(u, r)
    BY <1>1, <1>4, <1>6 DEF Carried
  <2>3. Abandoned(t, r) => Abandoned(u, r)
    BY <1>2, <1>6 DEF Abandoned
  <2> QED BY <1>6, <2>1, <2>2, <2>3 DEF Settled
<1> QED BY <1>1, <1>2, <1>5, <1>6 DEF Settled

\* and so do all but the one.
LEMMA LocalMatches ==
    ASSUME NEW t, NEW u, NEW o, Local(t, u, o), Matched(t, {o})
    PROVE  Matched(u, {o})
<1>1. ASSUME NEW e \in Entries PROVE Linked(u.entry[e])
  <2>1. Linked(t.entry[e])
    BY DEF Matched, Whole
  <2> QED BY <2>1 DEF Local, Linked, Alike, Holding
<1>2. ASSUME NEW p \in Orders, NEW e \in Holders(u, p), NEW f \in Holders(u, p) PROVE e = f
  <2>1. CASE p = o
    BY <1>2, <2>1 DEF Local
  <2>2. CASE p # o
    BY <1>2, <2>2, LocalHolders DEF Matched, Whole
  <2> QED BY <2>1, <2>2
<1>3. \A r \in u.requests : Staged(r)
  BY DEF Local, Matched, Whole
<1>4. \A p \in Orders \ {o} : Settled(u, p)
  BY LocalSettled DEF Matched
<1> QED BY <1>1, <1>2, <1>3, <1>4 DEF Matched, Whole

\* When the one is settled too, all are.
LEMMA AllMatched ==
    ASSUME NEW t, NEW o, Matched(t, {o}), o \in Orders => Settled(t, o)
    PROVE  Matched(t, {})
BY DEF Matched

LEMMA MatchedBut ==
    ASSUME NEW t, NEW o, Matched(t, {})
    PROVE  Matched(t, {o}) /\ (o \in Orders => Settled(t, o))
BY DEF Matched

\* An update that is about no order at all.
LEMMA NoOrderMatches ==
    ASSUME NEW t, NEW u, Local(t, u, None), Matched(t, {})
    PROVE  Matched(u, {})
<1>1. None \notin Orders
  BY OrdersAssumption
<1> QED BY <1>1, LocalMatches, MatchedBut, AllMatched

\* An order that was delivered or cancelled stays so.
ClosedStay(t, u) ==
    \A o \in Orders : t.order[o] \in ClosedOrderStatuses => u.order[o] \in ClosedOrderStatuses

-----------------------------------------------------------------------------
(***************************************************************************)
(* Offers.                                                                 *)
(***************************************************************************)
\* A new offer of an order nobody drives for or is being asked for.
LEMMA OfferMatches ==
    ASSUME NEW N \in Nat, NEW t \in TablesUpTo(N), NEW o \in Orders, NEW e \in Entries,
           Open(t, o), Live(t, e), t.entry[e].status \in OfferableStatuses,
           t.entry[e].reserved \in {None, ShipperOf[o]}
    PROVE  /\ Matched(Offer(t, o, e), {}) /\ Holders(Offer(t, o, e), o) = {e}
           /\ ClosedStay(t, Offer(t, o, e))
<1> DEFINE u == Offer(t, o, e)
<1>1. Offered(t, u, o, e)
  BY OfferRows
<1> HIDE DEF u
<1>2. t.entry \in [Entries -> RowUpTo(N)]
  BY DEF TablesUpTo
<1>3. ~Holding(t.entry[e])
  BY DEF Holding, HoldingStatuses, JobStatuses, OfferableStatuses, Waiting, Requested,
         NoAnswer, Agreed, GoToLoadingPlace, Loading, Loaded, JourneyStarted,
         CancelledBeforeAccept
<1>4. /\ u.entry[e].status = Requested /\ u.entry[e].order = o /\ ~u.entry[e].deleted
      /\ u.entry[e].driver = t.entry[e].driver /\ u.entry[e].reserved = t.entry[e].reserved
      /\ Holding(u.entry[e]) /\ Linked(u.entry[e])
  <2>1. /\ u.entry[e].status = Requested /\ u.entry[e].order = o
        /\ u.entry[e].driver = t.entry[e].driver /\ u.entry[e].reserved = t.entry[e].reserved
        /\ u.entry[e].deleted = t.entry[e].deleted
    BY <1>1, <1>2, RelinkedRow DEF Offered
  <2>2. Holding(u.entry[e])
    BY <2>1 DEF Live, Holding, HoldingStatuses
  <2> QED BY <2>1, <2>2 DEF Live, Linked
<1>5. ASSUME NEW f \in Retained(t, o, e)
      PROVE  /\ f \in Entries /\ OnlyFor(t.entry[f], o)
             /\ ~Holding(u.entry[f]) /\ Linked(u.entry[f])
  <2>1. f \in Entries /\ t.entry[f].order = o
    BY DEF Retained, HoldersIn
  <2>2. u.entry[f].status = CancelledBeforeAccept /\ u.entry[f].order = None
    BY <1>1, <1>2, <2>1, RelinkedRow DEF Offered
  <2>3. ~Holding(u.entry[f])
    BY <2>2 DEF Holding, HoldingStatuses, JobStatuses, Requested, NoAnswer, Agreed,
                GoToLoadingPlace, Loading, Loaded, JourneyStarted, CancelledBeforeAccept
  <2> QED BY <2>1, <2>2, <2>3 DEF OnlyFor, Linked
<1>6. ASSUME NEW f \in Entries, f # e, f \notin Retained(t, o, e)
      PROVE  u.entry[f] = t.entry[f] /\ ~(Holding(u.entry[f]) /\ u.entry[f].order = o)
  <2>1. u.entry[f] = t.entry[f]
    BY <1>1, <1>6 DEF Offered
  <2>2. ASSUME Holding(t.entry[f]), t.entry[f].order = o PROVE FALSE
    <3>1. t.entry[f].status = NoAnswer
      BY <2>2, HoldersAre DEF Open
    <3>2. f \in Retained(t, o, e)
      BY <1>6, <2>2, <3>1 DEF Retained, HoldersIn, Live, Holding, NoAnswer, NoStatus
    <3> QED BY <1>6, <3>2
  <2> QED BY <2>1, <2>2
<1>7. \A f : f \in Holders(u, o) <=> f = e
  BY <1>4, <1>5, <1>6, HoldersAre
<1> DEFINE r == Asking(t.entry[e].driver, o)
<1>8. r.order = o /\ r.status = Requested /\ RequestOf(u.entry[e]) = r
  BY <1>4 DEF Asking, RequestOf, Stage, Requested, Agreed
<1>9. u.requests = t.requests \cup {r} /\ u.order[o] = Requested
  BY <1>1 DEF Offered
<1> HIDE DEF r
<1>10. Local(t, u, o)
  <2>1. \A p \in Orders : p # o => u.order[p] = t.order[p]
    BY <1>1 DEF Offered
  <2>2. ASSUME NEW f \in Entries
        PROVE  \/ Alike(t.entry[f], u.entry[f])
               \/ OnlyFor(t.entry[f], o) /\ OnlyFor(u.entry[f], o) /\ Linked(u.entry[f])
    BY <1>3, <1>4, <1>5, <1>6 DEF OnlyFor, Alike
  <2>3. Staged(r)
    BY <1>8 DEF Staged
  <2> QED BY <1>7, <1>8, <1>9, <2>1, <2>2, <2>3 DEF Local
<1>11. Matched(u, {o})
  BY <1>10, LocalMatches DEF Open
<1>12. Settled(u, o)
  <2>1. Fits(u, u.entry[e]) /\ Reserved(u, u.entry[e])
    BY <1>4, <1>8, <1>9 DEF Fits, Reserved, Stage, Requested, NoAnswer, Agreed
  <2>2. ASSUME NEW q \in u.requests, q.order = o
        PROVE  Carried(u, q) \/ Abandoned(u, q) \/ Stray(q)
    <3>1. CASE q = r
      BY <1>7, <1>8, <3>1 DEF Carried
    <3>2. CASE q \in t.requests
      <4>1. Abandoned(t, q) => t.order[o] \in ClosedOrderStatuses
        BY <2>2 DEF Abandoned
      <4> QED BY <2>2, <3>2, <4>1 DEF Open, Rest
    <3> QED BY <1>9, <3>1, <3>2
  <2> QED BY <1>7, <2>1, <2>2 DEF Settled
<1>13. ClosedStay(t, u)
  BY <1>1 DEF Open, Offered, ClosedStay
<1> QED BY <1>7, <1>11, <1>12, <1>13, AllMatched DEF u

\* The entry the scan ends on can be offered the order.
LEMMA TakerIsOfferable ==
    ASSUME NEW N \in Nat, NEW t \in TablesUpTo(N), NEW o \in Orders, NEW excluded,
           Takers(t, o, excluded) # {}
    PROVE  LET e == FrontEntry(t, o, excluded)
           IN  /\ e \in Entries /\ Live(t, e) /\ t.entry[e].status \in OfferableStatuses
               /\ t.entry[e].reserved \in {None, ShipperOf[o]}
               /\ t.entry[e].driver \notin excluded
BY FrontIsTaker DEF Takers

LEMMA FifoMatches ==
    ASSUME NEW N \in Nat, NEW t \in TablesUpTo(N), NEW o \in Orders, NEW excluded,
           Open(t, o), Takers(t, o, excluded) # {}
    PROVE  Matched(OfferFifo(t, o, excluded), {}) /\ ClosedStay(t, OfferFifo(t, o, excluded))
<1> DEFINE e == FrontEntry(t, o, excluded)
<1>1. /\ e \in Entries /\ Live(t, e) /\ t.entry[e].status \in OfferableStatuses
      /\ t.entry[e].reserved \in {None, ShipperOf[o]}
  BY TakerIsOfferable
<1>2. OfferFifo(t, o, excluded) = Offer(t, o, e)
  BY DEF OfferFifo
<1> HIDE DEF e
<1> QED BY <1>1, <1>2, OfferMatches

\* An order nobody holds is offered on, or waits.
LEMMA NextMatches ==
    ASSUME NEW N \in Nat, NEW t \in TablesUpTo(N), NEW o \in Orders, NEW d,
           Open(t, o), Holders(t, o) = {}
    PROVE  Matched(OfferToNextDriver(t, o, d), {}) /\ ClosedStay(t, OfferToNextDriver(t, o, d))
<1>1. CASE Takers(t, o, {d}) # {}
  BY <1>1, FifoMatches DEF OfferToNextDriver
<1>2. CASE Takers(t, o, {d}) = {}
  <2> DEFINE u == [t EXCEPT !.order[o] = Waiting]
  <2>1. OfferToNextDriver(t, o, d) = u
    BY <1>2 DEF OfferToNextDriver, ResetToWaitingIfUnheld
  <2>2. /\ u.entry = t.entry /\ u.requests = t.requests /\ u.order[o] = Waiting
        /\ \A p \in Orders : p # o => u.order[p] = t.order[p]
    BY DEF TablesUpTo
  <2> HIDE DEF u
  <2>3. Holders(u, o) = {}
    BY <2>2, HoldersAre
  <2>4. Local(t, u, o)
    BY <2>2, <2>3 DEF Local, Alike
  <2>5. Settled(u, o)
    BY <2>2, <2>3 DEF Settled, Open, Rest, Abandoned
  <2>6. ClosedStay(t, u)
    BY <2>2 DEF Open, ClosedStay
  <2> QED BY <2>1, <2>4, <2>5, <2>6, LocalMatches, AllMatched DEF Open
<1> QED BY <1>1, <1>2

\* An order that is pending is open.
LEMMA PendingIsOpen ==
    ASSUME NEW N \in Nat, NEW t \in TablesUpTo(N), NEW o \in PendingOrders(t), Matched(t, {})
    PROVE  o \in Orders /\ Open(t, o)
<1>1. /\ o \in Orders /\ t.order[o] \in {Waiting, Requested}
      /\ HoldersIn(t, o, {Requested}) = {}
  BY DEF PendingOrders
<1>2. Settled(t, o) /\ Matched(t, {o})
  BY <1>1, MatchedBut
<1>3. ASSUME NEW e \in Holders(t, o) PROVE t.entry[e].status = NoAnswer
  <2> SUFFICES ASSUME t.entry[e].status # NoAnswer PROVE FALSE
    OBVIOUS
  <2>1. e \in Entries /\ Holding(t.entry[e]) /\ t.entry[e].order = o
    BY HoldersAre
  <2>2. t.order[o] = Stage(t.entry[e])
    BY <1>2, <2>1 DEF Settled, Fits
  <2>3. t.entry[e].status \in JobStatuses \cup {Requested}
    BY <2>1 DEF Holding, HoldingStatuses
  <2>4. t.entry[e].status = Requested
    BY <1>1, <2>2, <2>3 DEF Stage, JobStatuses, Waiting, Requested, Agreed, AcceptedByShipper,
       GoToLoadingPlace, Loading, Loaded, JourneyStarted
  <2>5. e \in HoldersIn(t, o, {Requested})
    BY <2>1, <2>4 DEF HoldersIn, Live, Holding, Requested, NoStatus
  <2> QED BY <1>1, <2>5
<1>4. ASSUME NEW r \in t.requests, r.order = o PROVE ~Carried(t, r)
  <2>1. r.status \in RequestStatuses
    BY DEF TablesUpTo, Request
  <2>2. ASSUME NEW e \in Holders(t, o), RequestOf(t.entry[e]) = r PROVE FALSE
    <3>1. r.status = NoAnswer
      BY <1>3, <2>2 DEF RequestOf, Stage, NoAnswer, Agreed
    <3> QED BY <2>1, <3>1 DEF RequestStatuses, ActiveOrderStatuses, NoAnswer, Waiting, Requested,
                AcceptedByShipper, GoToLoadingPlace, Loading, Loaded, JourneyStarted
  <2> QED BY <1>4, <2>2 DEF Carried
<1>5. Rest(t, o)
  BY <1>2, <1>4 DEF Rest, Settled
<1>6. t.order[o] \notin ClosedOrderStatuses
  BY <1>1 DEF ClosedOrderStatuses, Waiting, Requested, JourneyCompleted, CancelledByShipper,
         CancelledByAdmin
<1> QED BY <1>1, <1>2, <1>3, <1>5, <1>6 DEF Open

LEMMA RescanMatches ==
    ASSUME NEW N \in Nat, NEW t \in TablesUpTo(N), Matched(t, {})
    PROVE  Matched(RescanPendingOrder(t), {}) /\ ClosedStay(t, RescanPendingOrder(t))
<1> DEFINE served == {o \in PendingOrders(t) : Takers(t, o, {}) # {}}
           o == Min(served)
<1>1. CASE served = {}
  BY <1>1 DEF RescanPendingOrder, ClosedStay
<1>2. CASE served # {}
  <2>1. served \subseteq Nat
    BY BoundsAssumption DEF PendingOrders, Orders
  <2>2. o \in served
    <3> HIDE DEF served
    <3> QED BY <1>2, <2>1, MinIn
  <2>3. o \in PendingOrders(t) /\ Takers(t, o, {}) # {}
    BY <2>2
  <2>4. RescanPendingOrder(t) = OfferFifo(t, o, {})
    BY <1>2 DEF RescanPendingOrder
  <2> HIDE DEF o
  <2> QED BY <2>3, <2>4, PendingIsOpen, FifoMatches
<1> QED BY <1>1, <1>2

-----------------------------------------------------------------------------
(***************************************************************************)
(* An entry lets its order go.                                             *)
(***************************************************************************)
Freed(t, u, e) ==
    /\ u.entry[e].order = None /\ ~Holding(u.entry[e])
    /\ \A f \in Entries : f # e => u.entry[f] = t.entry[f]
    /\ u.order = t.order /\ u.requests = t.requests

LEMMA CloseFrees ==
    ASSUME NEW N \in Nat, NEW t \in TablesUpTo(N), NEW e \in Entries, NEW status
    PROVE  Freed(t, CloseEntry(t, e, status), e)
BY DEF TablesUpTo, RowUpTo, CloseEntry, Freed, Holding

LEMMA ReturnFrees ==
    ASSUME NEW N \in Nat, NEW t \in TablesUpTo(N), NEW e \in Entries,
           NEW status, status \in OfferableStatuses
    PROVE  Freed(t, ReturnToLine(t, e, status), e)
<1>1. status \notin HoldingStatuses
  BY DEF HoldingStatuses, JobStatuses, OfferableStatuses, Waiting, Requested, NoAnswer,
         Agreed, GoToLoadingPlace, Loading, Loaded, JourneyStarted, CancelledBeforeAccept
<1>2. t.entry[e] \in RowUpTo(N)
  BY DEF TablesUpTo
<1> DEFINE row == Relinked(t.entry[e], status, None)
<1>3. row.status = status /\ row.order = None
  BY <1>2, RelinkedRow
<1>4. ReturnToLine(t, e, status) = [t EXCEPT !.entry[e] = row]
  BY DEF ReturnToLine, Relinked, TablesUpTo
<1> HIDE DEF row
<1> QED BY <1>1, <1>3, <1>4 DEF TablesUpTo, Freed, Holding

\* Requests that end leave the entries and the orders as they are.
LEMMA DeclineRows ==
    ASSUME NEW N \in Nat, NEW t \in TablesUpTo(N), NEW gone
    PROVE  /\ Decline(t, gone).entry = t.entry /\ Decline(t, gone).order = t.order
           /\ Decline(t, gone).requests = t.requests \ gone
BY DEF Decline, TablesUpTo

LEMMA CallOffRows ==
    ASSUME NEW N \in Nat, NEW t \in TablesUpTo(N), NEW gone
    PROVE  /\ CallOff(t, gone).entry = t.entry /\ CallOff(t, gone).order = t.order
           /\ CallOff(t, gone).requests = t.requests \ gone
BY DEF CallOff, TablesUpTo

LetsGo(t, u, e, o) ==
    /\ u.entry[e].order = None /\ ~Holding(u.entry[e])
    /\ \A f \in Entries : f # e => Alike(t.entry[f], u.entry[f])
    /\ \A p \in Orders : p # o => u.order[p] = t.order[p]
    /\ u.requests \subseteq t.requests
    /\ \A r \in t.requests : r.order # o => r \in u.requests
    /\ RequestOf(t.entry[e]) \in u.requests => Abandoned(u, RequestOf(t.entry[e]))

\* The order of a holder is under way, and the other requests for it are strays.
LEMMA HeldOrder ==
    ASSUME NEW N \in Nat, NEW t \in TablesUpTo(N), Matched(t, {}), NEW o \in Orders,
           NEW e \in Holders(t, o)
    PROVE  /\ t.order[o] \in ActiveOrderStatuses \ {Waiting}
           /\ t.order[o] \notin ClosedOrderStatuses
           /\ \A f \in Holders(t, o) : f = e
           /\ \A r \in t.requests : r.order = o => r = RequestOf(t.entry[e]) \/ Stray(r)
<1>1. Settled(t, o) /\ \A f \in Holders(t, o) : f = e
  BY DEF Matched, Whole
<1>2. e \in Entries /\ Holding(t.entry[e]) /\ t.entry[e].order = o
  BY HoldersAre
<1>3. t.order[o] \in {Requested, Stage(t.entry[e])}
  BY <1>1, <1>2 DEF Settled, Fits
<1>4. t.order[o] \in ActiveOrderStatuses \ {Waiting} /\ t.order[o] \notin ClosedOrderStatuses
  <2>1. t.order[o] # NoAnswer
    BY DEF TablesUpTo, OrderStatuses, ActiveOrderStatuses, ClosedOrderStatuses, NoStatus, Waiting,
           Requested, AcceptedByShipper, GoToLoadingPlace, Loading, Loaded, JourneyStarted,
           JourneyCompleted, CancelledByShipper, CancelledByAdmin, NoAnswer
  <2>2. t.entry[e].status \in HoldingStatuses
    BY <1>2 DEF Holding
  <2> QED BY <1>3, <2>1, <2>2
          DEF Stage, HoldingStatuses, JobStatuses, ActiveOrderStatuses, ClosedOrderStatuses,
              Waiting, Requested, Agreed, AcceptedByShipper, GoToLoadingPlace, Loading,
              Loaded, JourneyStarted, JourneyCompleted, CancelledByShipper,
              CancelledByAdmin, NoAnswer
<1>5. ASSUME NEW r \in t.requests, r.order = o PROVE r = RequestOf(t.entry[e]) \/ Stray(r)
  <2>1. Carried(t, r) \/ Abandoned(t, r) \/ Stray(r)
    BY <1>1, <1>5 DEF Settled
  <2>2. Carried(t, r) => r = RequestOf(t.entry[e])
    BY <1>1, <1>5 DEF Carried
  <2>3. ~Abandoned(t, r)
    BY <1>4, <1>5 DEF Abandoned
  <2> QED BY <2>1, <2>2, <2>3
<1> QED BY <1>1, <1>4, <1>5

LEMMA LetGo ==
    ASSUME NEW N \in Nat, NEW t \in TablesUpTo(N), Matched(t, {}), NEW o \in Orders,
           NEW e \in Holders(t, o), NEW u, LetsGo(t, u, e, o)
    PROVE  Matched(u, {o}) /\ Holders(u, o) = {} /\ Rest(u, o)
<1>1. /\ \A f \in Holders(t, o) : f = e
      /\ \A r \in t.requests : r.order = o => r = RequestOf(t.entry[e]) \/ Stray(r)
  BY HeldOrder
<1>2. e \in Entries /\ Holding(t.entry[e]) /\ t.entry[e].order = o
  BY HoldersAre
<1>3. \A f : f \notin Holders(u, o)
  <2>1. \A f \in Entries : f # e =>
           (Holding(u.entry[f]) /\ u.entry[f].order = o
              => Holding(t.entry[f]) /\ t.entry[f].order = o)
    BY DEF LetsGo, Alike, Holding
  <2>2. \A f : f \in Holders(t, o) <=> f \in Entries /\ Holding(t.entry[f]) /\ t.entry[f].order = o
    BY HoldersAre
  <2>3. \A f : f \in Holders(u, o) <=> f \in Entries /\ Holding(u.entry[f]) /\ u.entry[f].order = o
    BY HoldersAre
  <2> QED BY <1>1, <2>1, <2>2, <2>3 DEF LetsGo
<1>4. Local(t, u, o)
  <2>1. OnlyFor(t.entry[e], o) /\ OnlyFor(u.entry[e], o) /\ Linked(u.entry[e])
    BY <1>2 DEF LetsGo, OnlyFor, Linked
  <2> QED BY <1>3, <2>1 DEF Local, LetsGo
<1>5. Rest(u, o)
  BY <1>1 DEF LetsGo, Rest
<1>6. Matched(t, {o})
  BY MatchedBut
<1> QED BY <1>3, <1>4, <1>5, <1>6, LocalMatches

\* The order is free to be offered on.
LEMMA LetGoOpens ==
    ASSUME NEW N \in Nat, NEW t \in TablesUpTo(N), Matched(t, {}), NEW o \in Orders,
           NEW e \in Holders(t, o), NEW u, LetsGo(t, u, e, o), u.order = t.order
    PROVE  Open(u, o) /\ Holders(u, o) = {}
BY LetGo, HeldOrder DEF Open

\* It is offered on after the refusal is charged.
LEMMA ChargedAndOffered ==
    ASSUME NEW M \in Nat, NEW N \in Nat, NEW t \in TablesUpTo(M), Matched(t, {}), NEW o \in Orders,
           NEW e \in Holders(t, o), NEW u \in TablesUpTo(N), LetsGo(t, u, e, o), u.order = t.order,
           NEW count \in 0..(RefusalLimit - 1), NEW d
    PROVE  /\ Matched(OfferToNextDriver(ApplyRefusal(u, e, count), o, d), {})
           /\ ClosedStay(t, OfferToNextDriver(ApplyRefusal(u, e, count), o, d))
<1> DEFINE v == ApplyRefusal(u, e, count)
<1>1. e \in Entries
  BY HoldersAre
<1>2. v \in TablesUpTo(N + 1) /\ N + 1 \in Nat
  BY <1>1, ApplyRefusalKeeps DEF Keeps
<1>3. /\ \A f \in Entries : Alike(u.entry[f], v.entry[f])
      /\ v.order = u.order /\ v.requests = u.requests
  <2> DEFINE back == NextQueueNumber(u)
  <2>1. v = ChargeRefusal(u, e, count, back)
    BY DEF ApplyRefusal
  <2> HIDE DEF v, back
  <2> QED BY <2>1, ChargeRows DEF Alike
<1> HIDE DEF v
<1>4. LetsGo(t, v, e, o)
  BY <1>1, <1>3 DEF LetsGo, Alike, Holding, Abandoned
<1>5. Open(v, o) /\ Holders(v, o) = {}
  BY <1>3, <1>4, LetGoOpens
<1>6. ClosedStay(v, OfferToNextDriver(v, o, d)) => ClosedStay(t, OfferToNextDriver(v, o, d))
  BY <1>3 DEF ClosedStay
<1> QED BY <1>2, <1>5, <1>6, NextMatches DEF v

-----------------------------------------------------------------------------
(***************************************************************************)
(* The handlers that are one transaction leave every order settled.        *)
(***************************************************************************)
Good(t, u) == Matched(u, {}) /\ ClosedStay(t, u)

\* A free row is taken.
LEMMA JoinLineGood ==
    ASSUME IInv, Matched(tables, {}), NEW d \in Drivers, NEW shipper \in Reservations,
           JoinLine(d, shipper)
    PROVE  Good(tables, tables')
<1> DEFINE e == Min(FreeRows)
           number == NextQueueNumber(tables)
           row == [NoRow EXCEPT !.driver = d, !.status = Waiting, !.number = number,
                                !.reserved = shipper]
           joined == [tables EXCEPT !.entry[e] = row]
           M == MaxNumber + 1
<1>1. tables \in TablesUpTo(MaxNumber) /\ MaxNumber \in Nat /\ M \in Nat
  BY TypedNow
<1>2. FreeRows # {} /\ tables' = RescanPendingOrder(joined)
  BY DEF JoinLine, Transaction, Commit
<1>3. e \in FreeRows
  <2>1. FreeRows \subseteq Nat
    BY BoundsAssumption DEF FreeRows, Entries
  <2> QED BY <1>2, <2>1, MinIn
<1>4. e \in Entries /\ tables.entry[e].status = NoStatus
  BY <1>3 DEF FreeRows
<1> HIDE DEF e
<1>5. number \in 0..M /\ tables \in TablesUpTo(M)
  BY <1>1, <1>4, NextNumbers, BoundGrows
<1> HIDE DEF number
<1>6. row \in RowUpTo(M) /\ row.status = Waiting /\ row.order = None
  <2>1. shipper \in Shippers \cup {None} /\ 0 \in 0..(RefusalLimit - 1) /\ 0 \in 0..M
    BY <1>1, OperationsAssumption, RefusalAssumption
  <2>2. Waiting \in EntryStatuses
    BY StatusesAreTyped
  <2> QED BY <1>5, <2>1, <2>2 DEF NoRow, RowUpTo
<1> HIDE DEF row, M
<1>7. /\ joined \in TablesUpTo(M) /\ joined.entry[e] = row
      /\ joined.order = tables.order /\ joined.requests = tables.requests
      /\ \A f \in Entries : f # e => joined.entry[f] = tables.entry[f]
  BY <1>4, <1>5, <1>6 DEF TablesUpTo
<1> HIDE DEF joined
<1>8. Local(tables, joined, None)
  <2>1. ~Holding(tables.entry[e]) /\ ~Holding(joined.entry[e])
    BY <1>4, <1>6, <1>7 DEF Holding, HoldingStatuses, JobStatuses, NoStatus, Waiting, Requested,
       NoAnswer, Agreed, GoToLoadingPlace, Loading, Loaded, JourneyStarted
  <2>2. Holders(joined, None) = {}
    <3>1. \A f \in Entries : f # e => Linked(joined.entry[f])
      BY <1>7 DEF Matched, Whole
    <3>2. \A f \in Entries : Holding(joined.entry[f]) => joined.entry[f].order # None
      BY <2>1, <3>1, OrdersAssumption DEF Linked
    <3> QED BY <3>2, HoldersAre
  <2> QED BY <1>6, <1>7, <2>1, <2>2 DEF Local, OnlyFor, Alike, Linked
<1>9. Matched(joined, {}) /\ ClosedStay(tables, joined)
  BY <1>7, <1>8, NoOrderMatches DEF ClosedStay
<1>10. /\ Matched(RescanPendingOrder(joined), {})
       /\ ClosedStay(joined, RescanPendingOrder(joined))
  BY <1>1, <1>7, <1>9, RescanMatches
<1> QED BY <1>2, <1>9, <1>10 DEF Good, ClosedStay

\* Nobody is asked who has no request, so a new reservation disturbs no offer.
LEMMA CheckInAgainGood ==
    ASSUME IInv, Matched(tables, {}), NEW d \in Drivers, NEW shipper \in Reservations,
           CheckInAgain(d, shipper)
    PROVE  Good(tables, tables')
<1> DEFINE e == Max(InLine(tables, d))
           u == [tables EXCEPT !.entry[e].reserved = shipper]
<1>1. tables \in TablesUpTo(MaxNumber) /\ MaxNumber \in Nat
  BY TypedNow
<1>2. ~HasActiveJourney(tables, d) /\ InLine(tables, d) # {} /\ tables' = u
  BY DEF CheckInAgain, Transaction, Commit
<1>3. e \in InLine(tables, d)
  BY <1>2, NewestInLine
<1>4. e \in Entries /\ tables.entry[e].driver = d /\ tables.entry[e].status \in InQueueStatuses
  BY <1>3 DEF InLine
<1> HIDE DEF e
<1>5. /\ u.order = tables.order /\ u.requests = tables.requests
      /\ \A f \in Entries : f # e => u.entry[f] = tables.entry[f]
      /\ u.entry[e].driver = d /\ u.entry[e].order = tables.entry[e].order
      /\ u.entry[e].status = tables.entry[e].status
      /\ u.entry[e].deleted = tables.entry[e].deleted
      /\ u.entry[e].loading = tables.entry[e].loading
  BY <1>1, <1>4 DEF TablesUpTo, RowUpTo
<1> HIDE DEF u
<1> DEFINE o == tables.entry[e].order
<1>6. CASE ~Holding(tables.entry[e])
  <2>1. ~Holding(u.entry[e]) /\ Linked(u.entry[e])
    BY <1>4, <1>5, <1>6 DEF Matched, Whole, Linked, Holding
  <2>2. Holders(u, None) = {}
    <3>1. \A f \in Entries : f # e => Linked(u.entry[f])
      BY <1>5 DEF Matched, Whole
    <3>2. \A f \in Entries : Holding(u.entry[f]) => u.entry[f].order # None
      BY <2>1, <3>1, OrdersAssumption DEF Linked
    <3> QED BY <3>2, HoldersAre
  <2>3. Local(tables, u, None)
    BY <1>5, <1>6, <2>1, <2>2 DEF Local, OnlyFor, Alike
  <2> QED BY <1>2, <1>5, <2>3, NoOrderMatches DEF Good, ClosedStay
<1>7. CASE Holding(tables.entry[e])
  <2>1. o \in Orders /\ e \in Holders(tables, o) /\ Settled(tables, o) /\ Matched(tables, {o})
    <3>1. o \in Orders
      BY <1>4, <1>7 DEF Matched, Whole, Linked
    <3> QED BY <1>4, <1>7, <3>1, HoldersAre, MatchedBut
  <2>2. \A r \in tables.requests : r.driver # d
    BY <1>2 DEF HasActiveJourney
  <2>3. tables.entry[e].status = NoAnswer
    <3>1. Fits(tables, tables.entry[e])
      BY <2>1 DEF Settled
    <3>2. RequestOf(tables.entry[e]).driver = d
      BY <1>4 DEF RequestOf
    <3> QED BY <2>2, <3>1, <3>2 DEF Fits
  <2>4. \A f : f \in Holders(u, o) <=> f \in Holders(tables, o)
    <3>1. \A f \in Entries : Holding(u.entry[f]) /\ u.entry[f].order = o
                               <=> Holding(tables.entry[f]) /\ tables.entry[f].order = o
      BY <1>5 DEF Holding
    <3>2. \A f : f \in Holders(u, o) <=> f \in Entries /\ Holding(u.entry[f]) /\ u.entry[f].order = o
      BY HoldersAre
    <3>3. \A f : f \in Holders(tables, o) <=>
             f \in Entries /\ Holding(tables.entry[f]) /\ tables.entry[f].order = o
      BY HoldersAre
    <3> QED BY <3>1, <3>2, <3>3
  <2>5. \A f \in Holders(u, o) : f = e
    BY <2>1, <2>4 DEF Matched, Whole
  <2>6. Holding(u.entry[e]) /\ Linked(u.entry[e]) /\ OnlyFor(u.entry[e], o) /\ OnlyFor(tables.entry[e], o)
    BY <1>5, <1>7, <2>1 DEF Holding, Linked, OnlyFor
  <2> HIDE DEF o
  <2>7. Local(tables, u, o)
    BY <1>5, <2>5, <2>6 DEF Local, Alike
  <2>8. Matched(u, {o})
    BY <2>1, <2>7, LocalMatches
  <2>9. Settled(u, o)
    <3>1. Fits(u, u.entry[e])
      <4>1. Fits(tables, tables.entry[e])
        BY <2>1 DEF Settled
      <4> QED BY <1>5, <2>3, <4>1 DEF Fits
    <3>2. Reserved(u, u.entry[e])
      <4>1. Asking(d, o).driver = d
        BY DEF Asking
      <4>2. Asking(d, o) \notin u.requests
        BY <1>5, <2>2, <4>1
      <4> QED BY <1>5, <2>3, <4>2 DEF Reserved, o
    <3>3. ASSUME NEW r \in u.requests, r.order = o PROVE Abandoned(u, r) \/ Stray(r)
      <4>1. r \in tables.requests /\ r.driver # d
        BY <1>5, <2>2, <3>3
      <4>2. ~Carried(tables, r)
        <5>1. \A f \in Holders(tables, o) : RequestOf(tables.entry[f]).driver = d
          BY <1>4, <2>1 DEF RequestOf, Matched, Whole
        <5> QED BY <3>3, <4>1, <5>1 DEF Carried
      <4> QED BY <1>5, <2>1, <3>3, <4>1, <4>2 DEF Settled, Abandoned
    <3> QED BY <1>5, <2>1, <2>4, <2>5, <3>1, <3>2, <3>3 DEF Settled
  <2> QED BY <1>2, <1>5, <2>8, <2>9, AllMatched DEF Good, ClosedStay
<1> QED BY <1>6, <1>7

\* A row that changes in nothing the orders see.
LEMMA AlikeGood ==
    ASSUME Matched(tables, {}), NEW u, u.order = tables.order, u.requests = tables.requests,
           \A e \in Entries : Alike(tables.entry[e], u.entry[e])
    PROVE  Good(tables, u)
<1>1. \A e \in Entries : Holding(u.entry[e]) => u.entry[e].order # None
  BY OrdersAssumption DEF Matched, Whole, Linked, Alike, Holding
<1>2. \A f : f \notin Holders(u, None)
  BY <1>1, HoldersAre
<1>3. Local(tables, u, None)
  BY <1>2 DEF Local
<1> QED BY <1>3, NoOrderMatches DEF Good, ClosedStay

LEMMA OverrideEntryGood ==
    ASSUME IInv, Matched(tables, {}), NEW e \in Entries, NEW n, OverrideEntry(e, n)
    PROVE  Good(tables, tables')
<1> DEFINE u == [tables EXCEPT !.entry[e].number = n]
<1>1. tables' = u
  BY DEF OverrideEntry, Transaction, Commit
<1>2. /\ u.order = tables.order /\ u.requests = tables.requests
      /\ \A f \in Entries : Alike(tables.entry[f], u.entry[f])
  <2>1. tables \in TablesUpTo(MaxNumber)
    BY TypedNow
  <2>2. u.order = tables.order /\ u.requests = tables.requests
    BY <2>1 DEF TablesUpTo
  <2>3. /\ \A f \in Entries : f # e => u.entry[f] = tables.entry[f]
        /\ u.entry[e] = [tables.entry[e] EXCEPT !.number = n]
    BY <2>1 DEF TablesUpTo
  <2>4. Alike(tables.entry[e], [tables.entry[e] EXCEPT !.number = n])
    BY <2>1 DEF TablesUpTo, RowUpTo, Alike
  <2> QED BY <2>2, <2>3, <2>4 DEF Alike
<1> HIDE DEF u
<1> QED BY <1>1, <1>2, AlikeGood

LEMMA CancelWaitingRequestGood ==
    ASSUME IInv, Matched(tables, {}), NEW d, CancelWaitingRequest(d)
    PROVE  Good(tables, tables')
<1>1. /\ tables'.entry = tables.entry /\ tables'.order = tables.order
      /\ tables'.requests = tables.requests
  BY TypedNow DEF CancelWaitingRequest, Transaction, Commit, TablesUpTo
<1> QED BY <1>1, AlikeGood DEF Alike

-----------------------------------------------------------------------------
\* A driver leaves the line.
LEMMA CheckoutGood ==
    ASSUME IInv, Matched(tables, {}), NEW d \in Drivers, Checkout(d)
    PROVE  Good(tables, tables')
<1> DEFINE mine == {e \in Entries : Live(tables, e) /\ tables.entry[e].driver = d}
           e == LastInLine(tables, mine)
           o == tables.entry[e].order
           closed == CloseEntry(tables, e, CancelledAfterAccept)
           done == TerminalizeOrderRequest(closed, d, o)
<1>1. tables \in TablesUpTo(MaxNumber) /\ MaxNumber \in Nat
  BY TypedNow
<1>2. /\ mine # {}
      /\ tables.entry[e].status \in JobStatuses => o = None
      /\ tables' = IF tables.entry[e].status \in {Requested, NoAnswer} /\ o # None
                   THEN OfferToNextDriver(done, o, d) ELSE closed
  BY DEF Checkout, Transaction, Commit
<1>3. e \in mine
  <2>1. mine \subseteq Entries
    OBVIOUS
  <2> HIDE DEF mine
  <2> QED BY <1>1, <1>2, <2>1, LastIn
<1>4. e \in Entries /\ Live(tables, e) /\ tables.entry[e].driver = d
  BY <1>3
<1> HIDE DEF e, mine
<1>5. /\ Freed(tables, closed, e) /\ closed \in TablesUpTo(MaxNumber)
      /\ d \in Drivers
  BY <1>1, <1>4, CloseFrees, CloseEntryKeeps, StatusesAreTyped DEF Keeps
<1> HIDE DEF closed
<1>6. CASE Holding(tables.entry[e])
  <2>1. o \in Orders /\ e \in Holders(tables, o)
    BY <1>4, <1>6, HoldersAre DEF Matched, Whole, Linked
  <2>2. tables.entry[e].status \in {Requested, NoAnswer}
    BY <1>2, <1>6, <2>1, OrdersAssumption DEF Holding, HoldingStatuses
  <2>3. tables' = OfferToNextDriver(done, o, d)
    BY <1>2, <2>1, <2>2, OrdersAssumption
  <2> HIDE DEF o
  <2> DEFINE gone == LiveRequests(closed, d, o, {Requested})
  <2>4. /\ done.entry = closed.entry /\ done.order = closed.order
        /\ done.requests = closed.requests \ gone
    BY <1>1, <1>5, DeclineRows DEF TerminalizeOrderRequest
  <2>5. done \in TablesUpTo(MaxNumber)
    BY <1>1, <1>5, TerminalizeKeeps DEF Keeps
  <2>6. RequestOf(tables.entry[e]) \notin done.requests
    <3> DEFINE r == RequestOf(tables.entry[e])
    <3>1. r.driver = d /\ r.order = o /\ r.status = tables.entry[e].status
      BY <1>4, <2>2 DEF RequestOf, Stage, o, Requested, NoAnswer, Agreed
    <3>2. r \in tables.requests => r.status # NoAnswer
      BY <1>1 DEF TablesUpTo, Request, RequestStatuses, ActiveOrderStatuses, NoAnswer, Waiting,
         Requested, AcceptedByShipper, GoToLoadingPlace, Loading, Loaded, JourneyStarted
    <3>3. closed.requests = tables.requests
      BY <1>5 DEF Freed
    <3> HIDE DEF r
    <3> QED BY <2>2, <2>4, <3>1, <3>2, <3>3 DEF LiveRequests, r
  <2>7. LetsGo(tables, done, e, o) /\ done.order = tables.order
    BY <1>5, <2>4, <2>6 DEF Freed, LetsGo, Alike, LiveRequests, Holding
  <2> HIDE DEF done
  <2>8. Open(done, o) /\ Holders(done, o) = {}
    BY <1>1, <2>1, <2>7, LetGoOpens
  <2>9. Matched(tables', {}) /\ ClosedStay(done, tables')
    BY <1>1, <2>1, <2>3, <2>5, <2>8, NextMatches
  <2> QED BY <2>7, <2>9 DEF Good, ClosedStay
<1>7. CASE ~Holding(tables.entry[e])
  <2>1. o = None
    BY <1>4, <1>7 DEF Matched, Whole, Linked
  <2>2. tables' = closed
    BY <1>2, <2>1
  <2>3. \A f \in Entries : Holding(closed.entry[f]) => closed.entry[f].order # None
    BY <1>5, OrdersAssumption DEF Freed, Matched, Whole, Linked
  <2>4. \A f : f \notin Holders(closed, None)
    BY <2>3, HoldersAre
  <2>5. Local(tables, closed, None)
    BY <1>5, <1>7, <2>4 DEF Local, OnlyFor, Alike, Linked, Freed
  <2> QED BY <1>5, <2>2, <2>5, NoOrderMatches DEF Good, ClosedStay, Freed
<1> QED BY <1>6, <1>7

\* A driver that is being asked refuses, or a driver on a job gives it up.
LEMMA CancelDriverRequestGood ==
    ASSUME IInv, Matched(tables, {}), NEW r \in tables.requests, CancelDriverRequest(r, TRUE)
    PROVE  Good(tables, tables')
<1> DEFINE o == r.order
           ended == Decline(tables, {r})
           asked == {e \in HoldersIn(ended, o, {Requested}) : ended.entry[e].driver = r.driver}
           jobs == HoldersIn(ended, o, JobStatuses)
<1>1. tables \in TablesUpTo(MaxNumber) /\ MaxNumber \in Nat /\ o \in Orders
  BY TypedNow DEF TablesUpTo, Request
<1>2. tables' = IF r.status = Requested THEN RejectOffer(ended, o, asked)
                ELSE ReleaseAfterDriverCancel(ended, o)
  BY DEF CancelDriverRequest, Transaction, Commit
<1>3. /\ ended.entry = tables.entry /\ ended.order = tables.order
      /\ ended.requests = tables.requests \ {r} /\ ended \in TablesUpTo(MaxNumber)
  BY <1>1, DeclineRows, DeclineKeeps DEF Keeps
<1>4. Settled(tables, o) /\ Matched(tables, {o})
  BY <1>1, MatchedBut
<1> HIDE DEF ended
<1>5. ASSUME NEW e \in Holders(tables, o), RequestOf(tables.entry[e]) = r,
             NEW u \in TablesUpTo(MaxNumber), Freed(ended, u, e),
             NEW count \in 0..(RefusalLimit - 1), NEW d,
             tables' = OfferToNextDriver(ApplyRefusal(u, e, count), o, d)
      PROVE  Good(tables, tables')
  <2>1. LetsGo(tables, u, e, o) /\ u.order = tables.order
    BY <1>3, <1>5 DEF Freed, LetsGo, Alike
  <2> QED BY <1>1, <1>5, <2>1, ChargedAndOffered DEF Good
<1>6. ASSUME tables' = ended, ~Carried(tables, r)
      PROVE  Good(tables, tables')
  <2>1. \A e \in Holders(tables, o) : RequestOf(tables.entry[e]) # r
    BY <1>6 DEF Carried
  <2>2. \A e : e \in Holders(ended, o) <=> e \in Holders(tables, o)
    <3>1. \A e : e \in Holders(ended, o) <=>
                    e \in Entries /\ Holding(ended.entry[e]) /\ ended.entry[e].order = o
      BY HoldersAre
    <3>2. \A e : e \in Holders(tables, o) <=>
                    e \in Entries /\ Holding(tables.entry[e]) /\ tables.entry[e].order = o
      BY HoldersAre
    <3> QED BY <1>3, <3>1, <3>2
  <2>3. Local(tables, ended, o)
    BY <1>1, <1>3, <2>2 DEF Local, Alike, Matched, Whole
  <2>4. Settled(ended, o)
    <3>1. \A e \in Holders(ended, o) : Fits(ended, ended.entry[e]) /\ Reserved(ended, ended.entry[e])
      BY <1>3, <1>4, <2>1, <2>2 DEF Settled, Fits, Reserved
    <3>2. ASSUME NEW q \in ended.requests, q.order = o
          PROVE  Carried(ended, q) \/ Abandoned(ended, q) \/ Stray(q)
      <4>1. Carried(tables, q) \/ Abandoned(tables, q) \/ Stray(q)
        BY <1>3, <1>4, <3>2 DEF Settled
      <4> QED BY <1>3, <2>2, <3>2, <4>1 DEF Carried, Abandoned
    <3> QED BY <1>3, <1>4, <2>2, <3>1, <3>2 DEF Settled
  <2> QED BY <1>3, <1>4, <1>6, <2>3, <2>4, LocalMatches, AllMatched DEF Good, ClosedStay
<1>7. \A e : e \in Holders(tables, o) <=>
                e \in Entries /\ Holding(tables.entry[e]) /\ tables.entry[e].order = o
  BY HoldersAre
<1>8. \A e \in Entries : Holding(tables.entry[e]) <=>
         Live(tables, e) /\ tables.entry[e].status \in HoldingStatuses
  BY DEF Holding, Live, HoldingStatuses, JobStatuses, NoStatus, Requested,
         NoAnswer, Agreed, GoToLoadingPlace, Loading, Loaded, JourneyStarted
<1>9. CASE r.status = Requested
  <2>1. tables' = RejectOffer(ended, o, asked)
    BY <1>2, <1>9
  <2>2. CASE asked = {}
    <3>1. ~Carried(tables, r)
      <4> SUFFICES ASSUME NEW e \in Holders(tables, o), RequestOf(tables.entry[e]) = r PROVE FALSE
        BY DEF Carried
      <4>1. tables.entry[e].driver = r.driver /\ tables.entry[e].status = Requested
        BY <1>9 DEF RequestOf, Stage, Requested, Agreed, AcceptedByShipper
      <4>2. e \in asked
        BY <1>3, <1>7, <1>8, <4>1 DEF HoldersIn, Live
      <4> QED BY <2>2, <4>2
    <3> QED BY <1>6, <2>1, <2>2, <3>1 DEF RejectOffer
  <2>3. CASE asked # {}
    <3> DEFINE e == FirstInLine(ended, asked)
               u == ReturnToLine(ended, e, CancelledBeforeAccept)
    <3>1. e \in asked
      <4>1. asked \subseteq Entries
        BY DEF HoldersIn
      <4> HIDE DEF asked
      <4> QED BY <1>1, <1>3, <2>3, <4>1, FirstIn
    <3>2. tables' = OfferToNextDriver(ApplyRefusal(u, e, ended.entry[e].refusals), o,
                                      ended.entry[e].driver)
      BY <2>1, <2>3 DEF RejectOffer
    <3> HIDE DEF e
    <3>3. /\ e \in Entries /\ Live(ended, e) /\ ended.entry[e].order = o
          /\ ended.entry[e].status = Requested /\ ended.entry[e].driver = r.driver
      BY <3>1 DEF HoldersIn
    <3>4. e \in Holders(tables, o)
      BY <1>3, <1>7, <1>8, <3>3 DEF Live, HoldingStatuses
    <3>5. RequestOf(tables.entry[e]) = r
      <4>1. RequestOf(tables.entry[e]) = [driver |-> r.driver, order |-> o, status |-> Requested]
        BY <1>3, <3>3 DEF RequestOf, Stage, Requested, Agreed
      <4>2. r = [driver |-> r.driver, order |-> o, status |-> Requested]
        BY <1>1, <1>9 DEF TablesUpTo, Request
      <4> QED BY <4>1, <4>2
    <3>6. /\ Freed(ended, u, e) /\ u \in TablesUpTo(MaxNumber)
          /\ ended.entry[e].refusals \in 0..(RefusalLimit - 1)
      <4>1. CancelledBeforeAccept \in OfferableStatuses
        BY DEF OfferableStatuses
      <4>2. ended.entry[e].driver \in Drivers
        BY <1>1, <1>3, <3>3, LiveHasDriver
      <4>3. Freed(ended, u, e)
        BY <1>1, <1>3, <3>3, <4>1, ReturnFrees
      <4>4. u \in TablesUpTo(MaxNumber)
        BY <1>1, <1>3, <3>3, <4>2, ReturnToLineKeeps, StatusesAreTyped DEF Keeps
      <4> QED BY <1>3, <3>3, <4>3, <4>4 DEF TablesUpTo, RowUpTo
    <3> HIDE DEF u
    <3> QED BY <1>5, <3>2, <3>4, <3>5, <3>6
  <2> QED BY <2>2, <2>3
<1>10. CASE r.status # Requested
  <2>1. tables' = ReleaseAfterDriverCancel(ended, o)
    BY <1>2, <1>10
  <2>2. \A e \in Holders(tables, o) :
           RequestOf(tables.entry[e]) = r => tables.entry[e].status \in JobStatuses
    <3> SUFFICES ASSUME NEW e \in Holders(tables, o), RequestOf(tables.entry[e]) = r
                 PROVE  tables.entry[e].status \in JobStatuses
      OBVIOUS
    <3>1. tables.entry[e].status \in HoldingStatuses
      BY <1>7, <1>8
    <3>2. r.status = Stage(tables.entry[e]) /\ r.status \in RequestStatuses
      BY <1>1 DEF RequestOf, TablesUpTo, Request
    <3> QED BY <1>10, <3>1, <3>2 DEF Stage, HoldingStatuses, RequestStatuses, ActiveOrderStatuses,
            NoAnswer, Waiting, Requested, Agreed, AcceptedByShipper, GoToLoadingPlace, Loading,
            Loaded, JourneyStarted
  <2>3. CASE jobs = {}
    <3>1. ~Carried(tables, r)
      <4> SUFFICES ASSUME NEW e \in Holders(tables, o), RequestOf(tables.entry[e]) = r PROVE FALSE
        BY DEF Carried
      <4>1. e \in jobs
        BY <1>3, <1>7, <1>8, <2>2 DEF HoldersIn, Live
      <4> QED BY <2>3, <4>1
    <3> QED BY <1>6, <2>1, <2>3, <3>1 DEF ReleaseAfterDriverCancel
  <2>4. CASE jobs # {}
    <3> DEFINE e == FirstInLine(ended, jobs)
               u == CloseEntry(ended, e, CancelledAfterAccept)
    <3>1. e \in jobs
      <4>1. jobs \subseteq Entries
        BY DEF HoldersIn
      <4> HIDE DEF jobs
      <4> QED BY <1>1, <1>3, <2>4, <4>1, FirstIn
    <3>2. tables' = OfferToNextDriver(ApplyRefusal(u, e, ended.entry[e].refusals), o,
                                      ended.entry[e].driver)
      BY <2>1, <2>4 DEF ReleaseAfterDriverCancel
    <3> HIDE DEF e
    <3>3. /\ e \in Entries /\ Live(ended, e) /\ ended.entry[e].order = o
          /\ ended.entry[e].status \in JobStatuses
      BY <3>1 DEF HoldersIn
    <3>4. e \in Holders(tables, o)
      BY <1>3, <1>7, <1>8, <3>3 DEF Live, HoldingStatuses
    <3>5. RequestOf(tables.entry[e]) = r
      <4>1. r = RequestOf(tables.entry[e]) \/ Stray(r)
        BY <1>1, <3>4, HeldOrder
      <4> QED BY <1>10, <4>1 DEF Stray
    <3>6. /\ Freed(ended, u, e) /\ u \in TablesUpTo(MaxNumber)
          /\ ended.entry[e].refusals \in 0..(RefusalLimit - 1)
      <4>1. ended.entry[e].driver \in Drivers
        BY <1>1, <1>3, <3>3, LiveHasDriver
      <4>2. Freed(ended, u, e)
        BY <1>1, <1>3, <3>3, CloseFrees
      <4>3. u \in TablesUpTo(MaxNumber)
        BY <1>1, <1>3, <3>3, <4>1, CloseEntryKeeps, StatusesAreTyped DEF Keeps
      <4> QED BY <1>3, <3>3, <4>2, <4>3 DEF TablesUpTo, RowUpTo
    <3> HIDE DEF u
    <3> QED BY <1>5, <3>2, <3>4, <3>5, <3>6
  <2> QED BY <2>3, <2>4
<1> QED BY <1>9, <1>10

\* An order nobody has and that is not shown as under way is settled.
LEMMA RestSettles ==
    ASSUME NEW u, NEW o, Matched(u, {o}), Holders(u, o) = {}, Rest(u, o),
           u.order[o] \notin ActiveOrderStatuses \ {Waiting}
    PROVE  Matched(u, {})
<1>1. Settled(u, o)
  BY DEF Settled, Rest
<1> QED BY <1>1, AllMatched

\* A new order is offered at once, or waits.
LEMMA PlaceOrderGood ==
    ASSUME IInv, Matched(tables, {}), NEW o \in Orders, PlaceOrder(o)
    PROVE  Good(tables, tables')
<1> DEFINE u == [tables EXCEPT !.order[o] = Waiting]
<1>1. tables \in TablesUpTo(MaxNumber) /\ MaxNumber \in Nat
  BY TypedNow
<1>2. tables.order[o] = NoStatus /\ tables' = OfferFifo(u, o, {})
  <2>1. NewOrders # {} /\ o = Min(NewOrders) /\ NewOrders \subseteq Nat
    BY BoundsAssumption DEF PlaceOrder, NewOrders, Orders
  <2>2. o \in NewOrders
    BY <2>1, MinIn
  <2>3. tables' = OfferFifo(u, o, {})
    BY DEF PlaceOrder, Transaction, Commit
  <2> QED BY <2>2, <2>3 DEF NewOrders
<1>3. /\ u \in TablesUpTo(MaxNumber)
      /\ u.entry = tables.entry /\ u.requests = tables.requests /\ u.order[o] = Waiting
      /\ \A p \in Orders : p # o => u.order[p] = tables.order[p]
  BY <1>1, StatusesAreTyped DEF TablesUpTo
<1> HIDE DEF u
<1>4. /\ NoStatus \notin ClosedOrderStatuses /\ NoStatus \notin ActiveOrderStatuses
      /\ Waiting \notin ClosedOrderStatuses
  BY DEF NoStatus, ClosedOrderStatuses, ActiveOrderStatuses, Waiting, Requested,
         AcceptedByShipper, GoToLoadingPlace, Loading, Loaded, JourneyStarted,
         JourneyCompleted, CancelledByShipper, CancelledByAdmin
<1>5. Settled(tables, o) /\ Matched(tables, {o})
  BY MatchedBut
<1>6. Holders(tables, o) = {}
  BY <1>1, <1>2, <1>4, HeldOrder
<1>7. Holders(u, o) = {}
  <2>1. \A e : e \in Holders(u, o) <=> e \in Entries /\ Holding(u.entry[e]) /\ u.entry[e].order = o
    BY HoldersAre
  <2>2. \A e : e \in Holders(tables, o) <=>
                  e \in Entries /\ Holding(tables.entry[e]) /\ tables.entry[e].order = o
    BY HoldersAre
  <2> QED BY <1>3, <1>6, <2>1, <2>2
<1>8. Rest(u, o)
  <2>1. \A r \in tables.requests : r.order = o => Stray(r)
    BY <1>2, <1>4, <1>5, <1>6 DEF Settled, Carried, Abandoned
  <2> QED BY <1>3, <2>1 DEF Rest
<1>9. Local(tables, u, o)
  BY <1>3, <1>7, <1>5 DEF Local, Alike, Matched, Whole
<1>10. Matched(u, {o})
  BY <1>5, <1>9, LocalMatches
<1>11. Open(u, o)
  BY <1>3, <1>4, <1>7, <1>8, <1>10 DEF Open
<1>12. ClosedStay(tables, u)
  BY <1>2, <1>3, <1>4 DEF ClosedStay
<1>13. CASE Takers(u, o, {}) = {}
  <2>1. tables' = u
    BY <1>2, <1>13 DEF OfferFifo
  <2>2. u.order[o] \notin ActiveOrderStatuses \ {Waiting}
    BY <1>3
  <2>3. Matched(u, {})
    BY <1>7, <1>8, <1>10, <2>2, RestSettles
  <2> QED BY <1>12, <2>1, <2>3 DEF Good
<1>14. CASE Takers(u, o, {}) # {}
  <2>1. Matched(tables', {}) /\ ClosedStay(u, tables')
    BY <1>1, <1>2, <1>3, <1>11, <1>14, FifoMatches
  <2> QED BY <1>12, <2>1 DEF Good, ClosedStay
<1> QED BY <1>13, <1>14

\* The order is cancelled: its entry lets it go, and a journey that has begun
\* goes on without it.
LEMMA CancelShipperRequestGood ==
    ASSUME Orderly, IInv, Matched(tables, {}), NEW o \in Orders,
           NEW status \in {CancelledByShipper, CancelledByAdmin}, CancelShipperRequest(o, status)
    PROVE  Good(tables, tables')
<1> DEFINE cancelled == [tables EXCEPT !.order[o] = status]
           ended == {r \in tables.requests :
                        r.order = o /\ r.status \in {Requested, AcceptedByShipper}}
           base == IF status = CancelledByAdmin THEN CallOff(cancelled, ended)
                   ELSE [cancelled EXCEPT !.requests = @ \ ended]
<1>1. tables \in TablesUpTo(MaxNumber) /\ MaxNumber \in Nat
  BY TypedNow
<1>2. "shipperCancel" \in Operations /\ tables' = ReleaseOnOrderCancel(base, o)
  BY DEF CancelShipperRequest, Starts, Transaction, Commit
<1>3. /\ status \in ClosedOrderStatuses /\ status \in OrderStatuses
      /\ status \notin ActiveOrderStatuses
  BY DEF OrderStatuses, NoStatus, ClosedOrderStatuses, ActiveOrderStatuses, Waiting, Requested,
         AcceptedByShipper, GoToLoadingPlace, Loading, Loaded, JourneyStarted,
         JourneyCompleted, CancelledByShipper, CancelledByAdmin
<1>4. /\ cancelled \in TablesUpTo(MaxNumber) /\ cancelled.entry = tables.entry
      /\ cancelled.requests = tables.requests /\ cancelled.order[o] = status
      /\ \A p \in Orders : p # o => cancelled.order[p] = tables.order[p]
  BY <1>1, <1>3 DEF TablesUpTo
<1> HIDE DEF cancelled
<1>5. /\ base \in TablesUpTo(MaxNumber) /\ base.entry = tables.entry
      /\ base.order = cancelled.order /\ base.requests = tables.requests \ ended
  <2>0. ended \subseteq cancelled.requests
    BY <1>4
  <2> HIDE DEF ended
  <2>1. CASE status = CancelledByAdmin
    <3>1. base = CallOff(cancelled, ended)
      BY <2>1
    <3> HIDE DEF base
    <3> QED BY <1>1, <1>4, <2>0, <3>1, CallOffRows, CallOffKeeps DEF Keeps
  <2>2. CASE status # CancelledByAdmin
    BY <1>4, <2>2 DEF TablesUpTo
  <2> QED BY <2>1, <2>2
<1> HIDE DEF base
<1>6. \A r \in base.requests : r.order = o => r.status = JourneyStarted
  <2>1. "loading" \notin Operations
    BY <1>2 DEF Orderly
  <2>2. \A r \in tables.requests : r.status \in {Requested, AcceptedByShipper, JourneyStarted}
    BY <2>1 DEF Matched, Whole, Staged
  <2> QED BY <1>5, <2>2
<1>7. Settled(tables, o) /\ Matched(tables, {o})
  BY MatchedBut
<1>8. \A e : e \in Holders(base, o) <=> e \in Holders(tables, o)
  <2>1. \A e : e \in Holders(base, o) <=>
                  e \in Entries /\ Holding(base.entry[e]) /\ base.entry[e].order = o
    BY HoldersAre
  <2>2. \A e : e \in Holders(tables, o) <=>
                  e \in Entries /\ Holding(tables.entry[e]) /\ tables.entry[e].order = o
    BY HoldersAre
  <2> QED BY <1>5, <2>1, <2>2
<1>9. ClosedStay(tables, base)
  BY <1>3, <1>4, <1>5 DEF ClosedStay
<1>10. base.order[o] = status
  BY <1>4, <1>5
<1>11. ASSUME NEW r \in base.requests, r.order = o, NEW u, u.order = base.order
       PROVE  Abandoned(u, r)
  BY <1>2, <1>3, <1>6, <1>10, <1>11 DEF Abandoned
<1>12. CASE Holders(base, o) = {}
  <2>1. tables' = base
    BY <1>2, <1>12 DEF ReleaseOnOrderCancel
  <2>2. Local(tables, base, o)
    BY <1>4, <1>5, <1>7, <1>12 DEF Local, Alike, Matched, Whole, ended
  <2>3. Matched(base, {o})
    BY <1>7, <2>2, LocalMatches
  <2>4. Rest(base, o)
    BY <1>11 DEF Rest
  <2>5. Matched(base, {})
    BY <1>3, <1>10, <1>12, <2>3, <2>4, RestSettles
  <2> QED BY <1>9, <2>1, <2>5 DEF Good
<1>13. CASE Holders(base, o) # {}
  <2> DEFINE e == FirstInLine(base, Holders(base, o))
             d == base.entry[e].driver
             done == TerminalizeOrderRequest(base, d, o)
  <2>1. e \in Holders(base, o)
    <3>1. Holders(base, o) \subseteq Entries
      BY DEF Holders, HoldersIn
    <3> QED BY <1>1, <1>5, <1>13, <3>1, FirstIn
  <2>2. tables' = IF base.entry[e].status \in {Requested, NoAnswer}
                  THEN ReturnToLine(done, e, Waiting)
                  ELSE CloseEntry(done, e, CancelledAfterAccept)
    BY <1>2, <1>13 DEF ReleaseOnOrderCancel
  <2> HIDE DEF e
  <2>3. e \in Entries /\ e \in Holders(tables, o) /\ Live(base, e)
    BY <1>8, <2>1 DEF Holders, HoldersIn
  <2>4. d \in Drivers
    BY <1>1, <1>5, <2>3, LiveHasDriver
  <2>5. /\ done \in TablesUpTo(MaxNumber) /\ done.entry = base.entry
        /\ done.order = base.order
        /\ done.requests = base.requests \ LiveRequests(base, d, o, {Requested})
    <3>1. done \in TablesUpTo(MaxNumber)
      BY <1>1, <1>5, TerminalizeKeeps DEF Keeps
    <3>2. done = Decline(base, LiveRequests(base, d, o, {Requested}))
      BY DEF TerminalizeOrderRequest
    <3> HIDE DEF done, d
    <3> QED BY <1>1, <1>5, <3>1, <3>2, DeclineRows
  <2> HIDE DEF done
  <2>6. Freed(done, tables', e)
    <3>1. Waiting \in OfferableStatuses
      BY DEF OfferableStatuses
    <3> QED BY <1>1, <2>2, <2>3, <2>5, <3>1, ReturnFrees, CloseFrees
  <2>7. LetsGo(tables, tables', e, o)
    <3> DEFINE r == RequestOf(tables.entry[e])
    <3>1. r.order = o
      BY <2>3, HoldersAre DEF RequestOf
    <3> HIDE DEF r
    <3>2. r \in tables'.requests => Abandoned(tables', r)
      BY <1>11, <2>5, <2>6, <3>1 DEF Freed
    <3>3. \A q \in tables.requests : q.order # o => q \in tables'.requests
      BY <1>5, <2>5, <2>6 DEF Freed, ended, LiveRequests
    <3> QED BY <1>4, <1>5, <2>5, <2>6, <3>2, <3>3 DEF Freed, LetsGo, Alike, r
  <2>8. Matched(tables', {o}) /\ Holders(tables', o) = {} /\ Rest(tables', o)
    BY <1>1, <2>3, <2>7, LetGo
  <2>9. tables'.order = base.order
    BY <2>5, <2>6 DEF Freed
  <2>10. Matched(tables', {})
    BY <1>3, <1>10, <2>8, <2>9, RestSettles
  <2> QED BY <1>9, <2>9, <2>10 DEF Good, ClosedStay
<1> QED BY <1>12, <1>13

\* A job entry follows the request and the order from stage to stage.
LEMMA ProgressedGood ==
    ASSUME IInv, Matched(tables, {}), NEW r \in tables.requests,
           r.status \in {AcceptedByShipper, GoToLoadingPlace, Loading, Loaded},
           NEW s \in JobStatuses \ {Agreed}, "loading" \in Operations \/ s = JourneyStarted,
           tables' = Progressed(r, s)
    PROVE  Good(tables, tables')
<1> DEFINE o == r.order
           new == [r EXCEPT !.status = s]
           base == [tables EXCEPT !.order[o] = s, !.requests = (@ \ {r}) \cup {new}]
           jobs == HoldersIn(base, o, JobStatuses \ {JourneyStarted})
<1>1. /\ tables \in TablesUpTo(MaxNumber) /\ MaxNumber \in Nat
      /\ o \in Orders /\ r \in Request
  BY TypedNow DEF TablesUpTo, Request
<1>2. /\ base.entry = tables.entry /\ base.order[o] = s
      /\ base.requests = (tables.requests \ {r}) \cup {new}
      /\ \A p \in Orders : p # o => base.order[p] = tables.order[p]
  BY <1>1 DEF TablesUpTo
<1>3. tables' = MirrorProgress(base, o, s)
  BY DEF Progressed
<1>4. new.driver = r.driver /\ new.order = o /\ new.status = s
  BY <1>1 DEF Request
<1>5. PICK e \in Holders(tables, o) : RequestOf(tables.entry[e]) = r
  <2>1. Settled(tables, o)
    BY <1>1, MatchedBut
  <2>2. ~Abandoned(tables, r) /\ ~Stray(r)
    BY DEF Abandoned, Stray, Requested, AcceptedByShipper, GoToLoadingPlace, Loading, Loaded,
           JourneyStarted
  <2> QED BY <2>1, <2>2 DEF Settled, Carried
<1>6. /\ tables.order[o] \notin ClosedOrderStatuses
      /\ \A f \in Holders(tables, o) : f = e
      /\ \A q \in tables.requests : q.order = o => q = r \/ Stray(q)
  BY <1>1, <1>5, HeldOrder
<1>7. e \in Entries /\ Holding(tables.entry[e]) /\ tables.entry[e].order = o
  BY <1>5, HoldersAre
<1>8. tables.entry[e].status \in JobStatuses \ {JourneyStarted}
  <2>1. Stage(tables.entry[e]) = r.status
    BY <1>5 DEF RequestOf
  <2>2. tables.entry[e].status \in HoldingStatuses
    BY <1>7 DEF Holding
  <2> QED BY <2>1, <2>2 DEF Stage, HoldingStatuses, JobStatuses, Requested, NoAnswer, Agreed,
             AcceptedByShipper, GoToLoadingPlace, Loading, Loaded, JourneyStarted
<1>9. \A f : f \in jobs <=> f = e
  <2>1. \A f : f \in Holders(tables, o) <=>
                  f \in Entries /\ Holding(tables.entry[f]) /\ tables.entry[f].order = o
    BY HoldersAre
  <2>2. \A f \in jobs : f \in Entries /\ Holding(tables.entry[f]) /\ tables.entry[f].order = o
    BY <1>2 DEF HoldersIn, Live, Holding, HoldingStatuses
  <2>3. e \in jobs
    BY <1>2, <1>7, <1>8, StatusesAreTyped DEF HoldersIn, Live, Holding
  <2> QED BY <1>6, <2>1, <2>2, <2>3
<1> HIDE DEF base, jobs
<1>10. tables' = [base EXCEPT !.entry[e].status = s]
  <2>1. jobs # {} /\ jobs \subseteq Nat
    BY <1>7, <1>9, BoundsAssumption DEF Entries
  <2>2. Min(jobs) = e
    BY <1>9, <2>1, MinIn
  <2> QED BY <1>3, <2>1, <2>2 DEF MirrorProgress, jobs
<1>11. base.entry \in [Entries -> RowUpTo(MaxNumber)]
  BY <1>1, <1>2 DEF TablesUpTo
<1> DEFINE u == tables'
<1>12. /\ u.order = base.order /\ u.requests = base.requests
       /\ \A f \in Entries : f # e => u.entry[f] = tables.entry[f]
       /\ u.entry[e].status = s /\ u.entry[e].driver = tables.entry[e].driver
       /\ u.entry[e].order = o /\ u.entry[e].loading = tables.entry[e].loading
       /\ u.entry[e].reserved = tables.entry[e].reserved
       /\ u.entry[e].deleted = tables.entry[e].deleted
  <2>1. base = [tables EXCEPT !.order[o] = s, !.requests = (@ \ {r}) \cup {new}]
    BY DEF base
  <2> HIDE DEF new
  <2> QED BY <1>1, <1>2, <1>7, <1>10, <1>11, <2>1 DEF TablesUpTo, RowUpTo
<1> HIDE DEF u, new, o
<1>13. Holding(u.entry[e]) /\ Linked(u.entry[e])
  BY <1>1, <1>7, <1>12 DEF Holding, HoldingStatuses, Linked
<1>14. \A f : f \in Holders(u, o) <=> f = e
  <2>1. \A f : f \in Holders(tables, o) <=>
                  f \in Entries /\ Holding(tables.entry[f]) /\ tables.entry[f].order = o
    BY HoldersAre
  <2>2. \A f : f \in Holders(u, o) <=> f \in Entries /\ Holding(u.entry[f]) /\ u.entry[f].order = o
    BY HoldersAre
  <2> QED BY <1>6, <1>7, <1>12, <1>13, <2>1, <2>2
<1>15. Local(tables, u, o)
  <2>1. OnlyFor(tables.entry[e], o) /\ OnlyFor(u.entry[e], o)
    BY <1>7, <1>12 DEF OnlyFor
  <2>2. Staged(new)
    BY <1>4 DEF Staged
  <2>3. \A q \in u.requests : q \in tables.requests \/ (q.order = o /\ Staged(q))
    BY <1>2, <1>4, <1>12, <2>2
  <2>4. \A q \in tables.requests : q.order # o => q \in u.requests
    BY <1>2, <1>12 DEF o
  <2> QED BY <1>2, <1>12, <1>13, <1>14, <2>1, <2>3, <2>4 DEF Local, Alike
<1>16. Settled(tables, o) /\ Matched(tables, {o})
  BY <1>1, MatchedBut
<1>17. Matched(u, {o})
  BY <1>15, <1>16, LocalMatches
<1>18. RequestOf(u.entry[e]) = new
  <2>1. RequestOf(u.entry[e]) = [driver |-> r.driver, order |-> o, status |-> s]
    BY <1>5, <1>12 DEF RequestOf, Stage
  <2>2. new = [driver |-> r.driver, order |-> o, status |-> s]
    BY <1>1 DEF Request, new, o
  <2> QED BY <2>1, <2>2
<1>19. Settled(u, o)
  <2>1. s # Requested /\ s # NoAnswer /\ s # Agreed
    BY StatusesAreTyped DEF JobStatuses, Requested, NoAnswer, GoToLoadingPlace, Loading, Loaded,
       JourneyStarted, Agreed
  <2>2. Fits(tables, tables.entry[e]) /\ Reserved(tables, tables.entry[e])
    BY <1>5, <1>16 DEF Settled
  <2>3. tables.entry[e].status # Requested /\ tables.entry[e].status # NoAnswer
    BY <1>8 DEF JobStatuses, Requested, NoAnswer, Agreed, GoToLoadingPlace, Loading, Loaded,
       JourneyStarted
  <2>4. tables.entry[e].loading # 0 /\ tables.entry[e].reserved \in {None, ShipperOf[o]}
    BY <1>7, <2>2, <2>3 DEF Fits, Reserved
  <2>5. Fits(u, u.entry[e]) /\ Reserved(u, u.entry[e])
    BY <1>2, <1>12, <1>18, <2>1, <2>4 DEF Fits, Reserved, Stage
  <2>6. ASSUME NEW q \in u.requests, q.order = o PROVE Carried(u, q) \/ Stray(q)
    BY <1>2, <1>4, <1>6, <1>12, <1>14, <1>18, <2>6 DEF Carried
  <2> QED BY <1>14, <2>5, <2>6 DEF Settled
<1>20. ClosedStay(tables, u)
  BY <1>2, <1>6, <1>12 DEF ClosedStay
<1>21. Matched(u, {})
  BY <1>17, <1>19, AllMatched
<1> QED BY <1>20, <1>21 DEF Good, u

LEMMA LoadingStageGood ==
    ASSUME IInv, Matched(tables, {}), NEW r \in tables.requests, LoadingStage(r)
    PROVE  Good(tables, tables')
<1>1. /\ "loading" \in Operations /\ r.status \in {AcceptedByShipper, GoToLoadingPlace, Loading}
      /\ tables' = Progressed(r, r.status + 1)
  BY DEF LoadingStage, Starts, Transaction, Commit
<1>2. r.status + 1 \in JobStatuses \ {Agreed}
  BY <1>1 DEF JobStatuses, Agreed, AcceptedByShipper, GoToLoadingPlace, Loading, Loaded,
              JourneyStarted
<1> QED BY <1>1, <1>2, ProgressedGood

LEMMA StartJourneyGood ==
    ASSUME IInv, Matched(tables, {}), NEW r \in tables.requests, StartJourney(r)
    PROVE  Good(tables, tables')
<1>1. /\ r.status \in {AcceptedByShipper, GoToLoadingPlace, Loading, Loaded}
      /\ tables' = Progressed(r, JourneyStarted)
  BY DEF StartJourney, Transaction, Commit
<1>2. JourneyStarted \in JobStatuses \ {Agreed}
  BY DEF JobStatuses, JourneyStarted, Agreed
<1> QED BY <1>1, <1>2, ProgressedGood

-----------------------------------------------------------------------------
(***************************************************************************)
(* What each half-done call and the pass leave open, and QInv: whichever   *)
(* is under way, it is the only one.                                       *)
(***************************************************************************)
Unanswered(t, o) == HoldersIn(t, o, {Requested, NoAnswer})

Accepted(d, o) == [driver |-> d, order |-> o, status |-> AcceptedByShipper]

\* The request has been accepted, the entry does not say so yet.
Won(t, e, o) ==
    LET row == t.entry[e]
    IN  /\ Matched(t, {o})
        /\ e \in Holders(t, o) /\ row.status \in {Requested, NoAnswer}
        /\ row.reserved \in {None, ShipperOf[o]}
        /\ t.order[o] = AcceptedByShipper
        /\ Accepted(row.driver, o) \in t.requests
        /\ \A r \in t.requests : r.order = o => r = Accepted(row.driver, o) \/ Stray(r)

\* The entry says so too; the others that are asked for the order are not told.
TakenUp(t, o) == Matched(t, {}) /\ HoldersIn(t, o, {Agreed}) # {}

StillAsked(t, o) == {r \in t.requests : r.order = o /\ r.status = Requested}

\* The order is delivered, the entry is not closed yet.
Done(t, o) ==
    /\ Matched(t, {o}) /\ t.order[o] = JourneyCompleted /\ Rest(t, o)
    /\ \A e \in Holders(t, o) :
          /\ t.entry[e].status \in JobStatuses
          /\ t.entry[e].reserved \in {None, ShipperOf[o]}

CallFits(t, call) ==
    \/ /\ call.step = "accept" /\ Matched(t, {})
       /\ \E e \in Unanswered(t, call.order) : t.entry[e].driver = call.driver
    \/ /\ call.step = "agree"
       /\ \E e \in Entries : Won(t, e, call.order) /\ t.entry[e].driver = call.driver
    \/ call.step = "stamp" /\ Won(t, call.entry, call.order) /\ call.loading # 0
    \/ call.step = "release" /\ TakenUp(t, call.order)
    \/ call.step = "dismiss" /\ TakenUp(t, call.order) /\ call.others \subseteq StillAsked(t, call.order)
    \/ call.step = "close" /\ Done(t, call.order)

\* The row is as the pass read it,
Asked(t, x) ==
    LET row == t.entry[x.entry]
    IN  /\ Holding(row) /\ row.status = Requested
        /\ row.driver = x.driver /\ row.order = x.order /\ row.refusals = x.refusals

\* and then as the pass marked it.
Kept(t, x) ==
    LET row == t.entry[x.entry]
    IN  Holding(row) /\ row.status = NoAnswer /\ row.driver = x.driver /\ row.order = x.order

\* The order may be offered to the entry the pass found in front.
Offerable(t, pass) ==
    LET row == t.entry[pass.front]
    IN  /\ Open(t, pass.order) /\ Live(t, pass.front) /\ row.status \in OfferableStatuses
        /\ row.reserved \in {None, ShipperOf[pass.order]} /\ row.driver \in t.armed
        /\ pass.expired # None =>
              pass.expired.driver # row.driver /\ pass.expired.order = pass.order

PassFits(t, pass) ==
    /\ Matched(t, {})
    /\ \A x \in pass.todo : Asked(t, x)
    /\ pass.todo # {} \/ pass.expired # None \/ pass.at # "offer" => "expiry" \in Operations
    /\ pass.at \in {"charge", "seek"} => pass.expired \in Expired /\ Kept(t, pass.expired)
    /\ pass.at = "seek" => pass.order = pass.expired.order
    /\ pass.at = "offer" => Offerable(t, pass)
    /\ pass.at = "settle" =>
          /\ pass.expired \in Expired
          /\ \A e \in Holders(t, pass.expired.order) : t.entry[e].driver # pass.expired.driver

QInv ==
    \/ Quiet /\ Matched(tables, {})
    \/ sweep = SweepIdle /\ \E call \in inFlight : inFlight = {call} /\ CallFits(tables, call)
    \/ inFlight = {} /\ sweep.at # "idle" /\ PassFits(tables, sweep)

-----------------------------------------------------------------------------
(***************************************************************************)
(* The calls of several transactions.                                      *)
(***************************************************************************)
LEMMA AllQuiet ==
    ASSUME inFlight' = {}, sweep' = SweepIdle, Matched(tables', {})
    PROVE  QInv'
BY DEF QInv, Quiet

LEMMA CallUnderWay ==
    ASSUME NEW call, inFlight' = {call}, sweep' = SweepIdle, CallFits(tables', call)
    PROVE  QInv'
BY DEF QInv

\* The call that is under way goes on to its next part, or is over.
LEMMA Continues ==
    ASSUME NEW call, NEW next, inFlight = {call}, sweep = SweepIdle, Continue(call, next)
    PROVE  inFlight' = next /\ sweep' = SweepIdle
BY DEF Continue

LEMMA Begins ==
    ASSUME NEW next, Quiet, Begin(next)
    PROVE  inFlight' = next /\ sweep' = SweepIdle
BY DEF Begin, Quiet

LEMMA AcceptGateGood ==
    ASSUME IInv, Quiet, Matched(tables, {}), NEW r \in tables.requests, AcceptGate(r)
    PROVE  QInv' /\ ClosedStay(tables, tables')
<1> DEFINE call == [step |-> "accept", driver |-> r.driver, order |-> r.order]
           asked == HoldersIn(tables, r.order, {Requested, NoAnswer})
<1>1. tables' = tables /\ inFlight' = {call} /\ sweep' = SweepIdle
  <2>1. Begin({call}) /\ tables' = tables
    BY DEF AcceptGate
  <2> QED BY <2>1, Begins
<1>2. asked # {} /\ tables.entry[Min(asked)].driver = r.driver
  BY DEF AcceptGate
<1>3. Min(asked) \in asked
  <2>1. asked \subseteq Nat
    BY BoundsAssumption DEF HoldersIn, Entries
  <2> HIDE DEF asked
  <2> QED BY <1>2, <2>1, MinIn
<1>4. CallFits(tables, call)
  BY <1>2, <1>3 DEF CallFits, Unanswered
<1> HIDE DEF call
<1>5. CallFits(tables', call)
  BY <1>1, <1>4
<1> QED BY <1>1, <1>5, CallUnderWay DEF ClosedStay

\* The request is accepted: the entry has only to say so.
LEMMA AcceptDecisionGood ==
    ASSUME IInv, NEW call, inFlight = {call}, sweep = SweepIdle, call.step = "accept",
           CallFits(tables, call), AcceptDecision(call)
    PROVE  QInv' /\ ClosedStay(tables, tables')
<1> DEFINE d == call.driver
           o == call.order
           mine == LiveRequests(tables, d, o, {Requested})
           next == [call EXCEPT !.step = "agree"]
           m == Asking(d, o)
           new == Accepted(d, o)
<1>1. /\ call \in AcceptCalls /\ d \in Drivers /\ o \in Orders
      /\ tables \in TablesUpTo(MaxNumber) /\ MaxNumber \in Nat
  <2>1. call \in AcceptCalls
    BY DEF IInv, CallsInv, Calls, AcceptCalls, StampCalls, CloseCalls, DismissCalls,
     Corrections
  <2> QED BY <2>1, TypedNow DEF AcceptCalls
<1>2. Matched(tables, {}) /\ \E e \in Unanswered(tables, o) : tables.entry[e].driver = d
  BY DEF CallFits
<1>3. CASE mine = {}
  <2>1. Continue(call, {}) /\ tables' = tables
    BY <1>3 DEF AcceptDecision
  <2>2. inFlight' = {} /\ sweep' = SweepIdle
    BY <2>1, Continues
  <2> QED BY <1>2, <2>1, <2>2, AllQuiet DEF ClosedStay
<1>4. CASE mine # {}
  <2>1. mine = {m} /\ m \in tables.requests
    <3>1. \A r \in mine : r = m /\ r \in tables.requests
      BY <1>1 DEF LiveRequests, TablesUpTo, Request, Asking
    <3> QED BY <1>4, <3>1
  <2>2. /\ Commit([tables EXCEPT !.order[o] = AcceptedByShipper,
                     !.requests = (@ \ mine) \cup
                         {[q EXCEPT !.status = AcceptedByShipper] : q \in mine}])
        /\ Continue(call, {next})
    BY <1>4 DEF AcceptDecision
  <2>3. {[q EXCEPT !.status = AcceptedByShipper] : q \in mine} = {new}
    <3>1. [m EXCEPT !.status = AcceptedByShipper] = new
      BY DEF Asking, Accepted
    <3> HIDE DEF m, new, mine
    <3> QED BY <2>1, <3>1
  <2>4. inFlight' = {next} /\ sweep' = SweepIdle
    BY <2>2, Continues
  <2>5. next.step = "agree" /\ next.driver = d /\ next.order = o
    BY <1>1 DEF AcceptCalls
  <2> HIDE DEF mine, next, m, new
  <2> DEFINE u == tables'
  <2>6. /\ u.entry = tables.entry /\ u.order[o] = AcceptedByShipper
        /\ u.requests = (tables.requests \ {m}) \cup {new}
        /\ \A p \in Orders : p # o => u.order[p] = tables.order[p]
    BY <1>1, <2>1, <2>2, <2>3 DEF Commit, TablesUpTo
  <2> HIDE DEF u
  <2>7. /\ m.driver = d /\ m.order = o /\ m.status = Requested
        /\ new.driver = d /\ new.order = o /\ new.status = AcceptedByShipper
    BY DEF Asking, Accepted, m, new
  <2>8. PICK e \in Unanswered(tables, o) : tables.entry[e].driver = d
    BY <1>2
  <2>9. /\ e \in Entries /\ e \in Holders(tables, o)
        /\ tables.entry[e].status \in {Requested, NoAnswer}
        /\ tables.entry[e].order = o
    BY <2>8 DEF Unanswered, Holders, HoldersIn, HoldingStatuses
  <2>10. /\ tables.order[o] \notin ClosedOrderStatuses
         /\ \A f \in Holders(tables, o) : f = e
         /\ \A r \in tables.requests : r.order = o => r = RequestOf(tables.entry[e]) \/ Stray(r)
    BY <1>1, <1>2, <2>9, HeldOrder
  <2>11. \A f : f \in Holders(u, o) <=> f \in Holders(tables, o)
    <3>1. \A f : f \in Holders(tables, o) <=>
                    f \in Entries /\ Holding(tables.entry[f]) /\ tables.entry[f].order = o
      BY HoldersAre
    <3>2. \A f : f \in Holders(u, o) <=> f \in Entries /\ Holding(u.entry[f]) /\ u.entry[f].order = o
      BY HoldersAre
    <3> QED BY <2>6, <3>1, <3>2
  <2>12. Settled(tables, o) /\ Matched(tables, {o})
    BY <1>1, <1>2, MatchedBut
  <2>13. tables.entry[e].reserved \in {None, ShipperOf[o]}
    <3>1. Reserved(tables, tables.entry[e])
      BY <2>9, <2>12 DEF Settled
    <3> QED BY <2>1, <2>8, <2>9, <3>1 DEF Reserved, m
  <2>14. \A r \in u.requests : r.order = o => r = new \/ Stray(r)
    <3>1. ASSUME NEW r \in tables.requests, r.order = o, r # m PROVE Stray(r)
      <4>1. r \in Request
        BY <1>1 DEF TablesUpTo
      <4>2. r # RequestOf(tables.entry[e])
        <5>1. CASE tables.entry[e].status = Requested
          <6>1. RequestOf(tables.entry[e]) = m
            BY <2>8, <2>9, <5>1 DEF RequestOf, Stage, Asking, Requested, Agreed, m
          <6> QED BY <3>1, <6>1
        <5>2. CASE tables.entry[e].status = NoAnswer
          <6>1. RequestOf(tables.entry[e]).status = NoAnswer
            BY <5>2 DEF RequestOf, Stage, NoAnswer, Agreed
          <6>2. r.status # NoAnswer
            BY <4>1 DEF Request, RequestStatuses, ActiveOrderStatuses, NoAnswer, Waiting,
               Requested, AcceptedByShipper, GoToLoadingPlace, Loading, Loaded, JourneyStarted
          <6> QED BY <6>1, <6>2
        <5> QED BY <2>9, <5>1, <5>2
      <4> QED BY <2>10, <3>1, <4>2
    <3> QED BY <2>6, <3>1
  <2>15. Local(tables, u, o)
    <3>1. Staged(new)
      BY <2>7 DEF Staged
    <3> QED BY <2>6, <2>7, <2>10, <2>11, <3>1 DEF Local, Alike
  <2>16. Matched(u, {o})
    BY <2>12, <2>15, LocalMatches
  <2>17. Won(u, e, o)
    BY <2>6, <2>8, <2>9, <2>11, <2>13, <2>14, <2>16 DEF Won, new
  <2>18. CallFits(u, next)
    BY <2>5, <2>6, <2>8, <2>9, <2>17 DEF CallFits
  <2>19. QInv'
    BY <2>4, <2>18, CallUnderWay DEF u
  <2>20. ClosedStay(tables, tables')
    BY <2>6, <2>10 DEF ClosedStay, u
  <2> QED BY <2>19, <2>20
<1> QED BY <1>3, <1>4

\* The lookup finds the entry that was asked, and a yard number.
LEMMA AcceptLookupGood ==
    ASSUME IInv, NEW call, inFlight = {call}, sweep = SweepIdle, call.step = "agree",
           CallFits(tables, call), AcceptLookup(call)
    PROVE  QInv' /\ ClosedStay(tables, tables')
<1> DEFINE o == call.order
           e == AcceptedEntry(tables, o)
           held == HoldersIn(tables, o, {Requested, Agreed, NoAnswer})
           agreed == HoldersIn(tables, o, {Agreed})
           asked == HoldersIn(tables, o, {Requested, NoAnswer})
           number == IF tables.entry[e].loading = 0 THEN NextLoadingNumber(tables)
                     ELSE tables.entry[e].loading
           next == [step |-> "stamp", entry |-> e, order |-> o, loading |-> number]
<1>1. /\ call \in AcceptCalls /\ o \in Orders
      /\ tables \in TablesUpTo(MaxNumber) /\ MaxNumber \in Nat
  <2>1. call \in AcceptCalls
    BY DEF IInv, CallsInv, Calls, AcceptCalls, StampCalls, CloseCalls, DismissCalls,
     Corrections
  <2> QED BY <2>1, TypedNow DEF AcceptCalls
<1>2. PICK w \in Entries : Won(tables, w, o) /\ tables.entry[w].driver = call.driver
  BY DEF CallFits
<1>3. w \in Holders(tables, o) /\ tables.entry[w].status \in {Requested, NoAnswer}
  BY <1>2 DEF Won
<1>4. w \in asked /\ w \in held
  BY <1>3 DEF Holders, HoldersIn
<1>5. \A f \in Holders(tables, o) : f = w
  BY <1>1, <1>2, <1>3 DEF Won, Matched, Whole
<1>6. asked \subseteq Holders(tables, o) /\ agreed \subseteq Holders(tables, o)
  BY DEF Holders, HoldersIn, HoldingStatuses, JobStatuses
<1>7. agreed = {}
  <2>1. \A f \in agreed : tables.entry[f].status = Agreed
    BY DEF HoldersIn
  <2>2. \A f \in agreed : f = w
    BY <1>5, <1>6
  <2> QED BY <1>3, <2>1, <2>2 DEF Requested, NoAnswer, Agreed
<1>8. e = w
  <2>1. e = FirstInLine(tables, asked)
    BY <1>7 DEF AcceptedEntry
  <2>2. asked \subseteq Entries /\ asked # {}
    BY <1>4 DEF HoldersIn
  <2>3. e \in asked
    <3> HIDE DEF e, asked
    <3> QED BY <1>1, <2>1, <2>2, FirstIn
  <2> QED BY <1>5, <1>6, <2>3
<1>9. tables' = tables /\ Continue(call, {next})
  BY <1>2, <1>4, <1>8 DEF AcceptLookup
<1>10. inFlight' = {next} /\ sweep' = SweepIdle
  <2> HIDE DEF next
  <2> QED BY <1>9, Continues
<1> HIDE DEF e
<1>11. number # 0
  <2>1. NextLoadingNumber(tables) = 1 + Max({tables.entry[f].loading : f \in Entries})
    BY DEF NextLoadingNumber
  <2> DEFINE loadings == {tables.entry[f].loading : f \in Entries}
  <2>2. loadings \subseteq 0..MaxNumber /\ loadings # {}
    BY <1>1, <1>2 DEF TablesUpTo, RowUpTo
  <2> HIDE DEF loadings
  <2>3. Max(loadings) \in 0..MaxNumber
    BY <1>1, <2>2, MaxIn
  <2>4. NextLoadingNumber(tables) # 0
    BY <1>1, <2>1, <2>3 DEF loadings
  <2> QED BY <2>4
<1> HIDE DEF number
<1>12. CallFits(tables, next)
  <2>1. next.step = "stamp" /\ next.entry = w /\ next.order = o /\ next.loading = number
    BY <1>8
  <2> HIDE DEF next
  <2> QED BY <1>2, <1>11, <2>1 DEF CallFits
<1> HIDE DEF next
<1> QED BY <1>9, <1>10, <1>12, CallUnderWay DEF ClosedStay

\* The entry is stamped, and entry, request and order agree again.
LEMMA AcceptStampGood ==
    ASSUME IInv, NEW call, inFlight = {call}, sweep = SweepIdle, call.step = "stamp",
           CallFits(tables, call), AcceptStamp(call)
    PROVE  QInv' /\ ClosedStay(tables, tables')
<1> DEFINE e == call.entry
           o == call.order
           d == tables.entry[e].driver
           u == tables'
           next == [step |-> "release", order |-> call.order]
<1>1. /\ e \in Entries /\ o \in Orders
      /\ tables \in TablesUpTo(MaxNumber) /\ MaxNumber \in Nat
  <2>1. call \in StampCalls
    BY DEF IInv, CallsInv, Calls, AcceptCalls, StampCalls, CloseCalls, DismissCalls,
     Corrections
  <2> QED BY <2>1, TypedNow DEF StampCalls
<1>2. Won(tables, e, o) /\ call.loading # 0
  BY DEF CallFits
<1>3. inFlight' = {next} /\ sweep' = SweepIdle /\ next.step = "release" /\ next.order = o
  <2>1. Continue(call, {next})
    BY DEF AcceptStamp
  <2>2. next.step = "release" /\ next.order = o
    OBVIOUS
  <2> HIDE DEF next
  <2> QED BY <2>1, <2>2, Continues
<1>4. /\ u.order = tables.order /\ u.requests = tables.requests
      /\ \A f \in Entries : f # e => u.entry[f] = tables.entry[f]
      /\ u.entry[e].status = Agreed /\ u.entry[e].driver = d
      /\ u.entry[e].order = o /\ u.entry[e].loading = call.loading
      /\ u.entry[e].reserved = tables.entry[e].reserved
      /\ u.entry[e].deleted = tables.entry[e].deleted
  <2> HIDE DEF e, o
  <2>1. tables' = [tables EXCEPT !.entry[e].status = Agreed, !.entry[e].order = o,
                                 !.entry[e].loading = call.loading]
    BY DEF AcceptStamp, Commit, e, o
  <2>2. tables.entry \in [Entries -> RowUpTo(MaxNumber)]
    BY <1>1 DEF TablesUpTo
  <2> QED BY <1>1, <2>1, <2>2 DEF TablesUpTo, RowUpTo
<1> HIDE DEF e, o, u, next
<1>5. e \in Holders(tables, o) /\ \A f \in Holders(tables, o) : f = e
  BY <1>1, <1>2 DEF Won, Matched, Whole
<1>6. Holding(tables.entry[e]) /\ tables.entry[e].order = o
  BY <1>5, HoldersAre
<1>7. Holding(u.entry[e]) /\ Linked(u.entry[e])
  BY <1>1, <1>4, <1>6 DEF Holding, HoldingStatuses, JobStatuses, Linked
<1>8. \A f : f \in Holders(u, o) <=> f = e
  <2>1. \A f : f \in Holders(tables, o) <=>
                  f \in Entries /\ Holding(tables.entry[f]) /\ tables.entry[f].order = o
    BY HoldersAre
  <2>2. \A f : f \in Holders(u, o) <=> f \in Entries /\ Holding(u.entry[f]) /\ u.entry[f].order = o
    BY HoldersAre
  <2> QED BY <1>1, <1>4, <1>5, <1>7, <2>1, <2>2
<1>9. Local(tables, u, o)
  <2>1. OnlyFor(tables.entry[e], o) /\ OnlyFor(u.entry[e], o)
    BY <1>4, <1>6 DEF OnlyFor
  <2> QED BY <1>4, <1>7, <1>8, <2>1 DEF Local, Alike
<1>10. Matched(u, {o})
  BY <1>2, <1>9, LocalMatches DEF Won
<1>11. Settled(u, o)
  <2>1. RequestOf(u.entry[e]) = Accepted(d, o)
    BY <1>4 DEF RequestOf, Stage, Accepted
  <2>2. Fits(u, u.entry[e]) /\ Reserved(u, u.entry[e])
    BY <1>2, <1>4, <2>1 DEF Won, Fits, Reserved, Stage, Agreed, NoAnswer
  <2>3. \A r \in u.requests : r.order = o => Carried(u, r) \/ Stray(r)
    BY <1>2, <1>4, <1>8, <2>1 DEF Won, Carried
  <2> QED BY <1>8, <2>2, <2>3 DEF Settled
<1>12. Matched(u, {})
  BY <1>10, <1>11, AllMatched
<1>13. ClosedStay(tables, u)
  BY <1>4 DEF ClosedStay
<1>14. CallFits(u, next)
  <2>1. e \in HoldersIn(u, o, {Agreed})
    BY <1>4, <1>8 DEF Holders, HoldersIn
  <2> QED BY <1>3, <1>12, <2>1 DEF CallFits, TakenUp
<1> QED BY <1>3, <1>13, <1>14, CallUnderWay DEF u

LEMMA ReleaseReadGood ==
    ASSUME IInv, NEW call, inFlight = {call}, sweep = SweepIdle, call.step = "release",
           CallFits(tables, call), ReleaseRead(call)
    PROVE  QInv' /\ ClosedStay(tables, tables')
<1> DEFINE others == {r \in tables.requests : r.order = call.order /\ r.status = Requested}
           next == [step |-> "dismiss", order |-> call.order, others |-> others]
<1>1. TakenUp(tables, call.order) /\ tables' = tables
  BY DEF CallFits, ReleaseRead
<1>2. CASE Continue(call, {})
  <2>1. inFlight' = {} /\ sweep' = SweepIdle
    BY <1>2, Continues
  <2> QED BY <1>1, <2>1, AllQuiet DEF TakenUp, ClosedStay
<1>3. CASE Continue(call, {next})
  <2>1. next.step = "dismiss" /\ next.order = call.order /\ next.others = StillAsked(tables, call.order)
    BY DEF StillAsked
  <2> HIDE DEF next
  <2>2. inFlight' = {next} /\ sweep' = SweepIdle
    BY <1>3, Continues
  <2>3. CallFits(tables, next)
    BY <1>1, <2>1 DEF CallFits
  <2> QED BY <1>1, <2>2, <2>3, CallUnderWay DEF ClosedStay
<1> QED BY <1>2, <1>3 DEF ReleaseRead

\* The driver that took the order holds it alone, and nobody that is still asked
\* is that driver.
LEMMA NobodyElse ==
    ASSUME NEW t, AtMostOne(t), NEW o \in Orders, TakenUp(t, o), NEW q \in StillAsked(t, o)
    PROVE  /\ \A e \in Holders(t, o) : t.entry[e].status = Agreed /\ t.entry[e].driver # q.driver
           /\ TheirEntries(t, q) = {}
<1>1. PICK w \in HoldersIn(t, o, {Agreed}) : TRUE
  BY DEF TakenUp
<1>2. w \in Holders(t, o) /\ t.entry[w].status = Agreed /\ t.entry[w].order = o
  BY <1>1 DEF Holders, HoldersIn, HoldingStatuses, JobStatuses
<1>3. \A e \in Holders(t, o) : e = w
  BY <1>2 DEF TakenUp, Matched, Whole
<1>4. Accepted(t.entry[w].driver, o) \in t.requests
  <2>1. Fits(t, t.entry[w])
    BY <1>2 DEF TakenUp, Matched, Settled
  <2>2. RequestOf(t.entry[w]) \in t.requests
    BY <1>2, <2>1 DEF Fits, Agreed, NoAnswer
  <2> QED BY <1>2, <2>2 DEF RequestOf, Stage, Accepted
<1>5. q \in t.requests /\ q.status = Requested /\ q.order = o
  BY DEF StillAsked
<1>6. t.entry[w].driver # q.driver
  <2> SUFFICES ASSUME t.entry[w].driver = q.driver PROVE FALSE
    OBVIOUS
  <2> DEFINE a == Accepted(t.entry[w].driver, o)
  <2>1. a.driver = q.driver /\ a.status = AcceptedByShipper
    BY DEF Accepted
  <2> HIDE DEF a
  <2>2. a \in t.requests
    BY <1>4 DEF a
  <2>3. {a.status, q.status} \subseteq GuardedStatuses
    BY <1>5, <2>1 DEF GuardedStatuses
  <2>4. a = q
    BY <1>5, <2>1, <2>2, <2>3 DEF AtMostOne
  <2> QED BY <1>5, <2>1, <2>4 DEF Requested, AcceptedByShipper
<1>7. TheirEntries(t, q) = {}
  <2>1. \A e \in TheirEntries(t, q) : e \in Holders(t, o) /\ t.entry[e].driver = q.driver
    BY <1>5 DEF TheirEntries, Holders, HoldersIn, HoldingStatuses, JobStatuses
  <2> QED BY <1>3, <1>6, <2>1
<1> QED BY <1>2, <1>3, <1>6, <1>7

\* So with one invitation less the orders are as settled as before.
LEMMA InviteeLeaves ==
    ASSUME NEW t, AtMostOne(t), NEW o \in Orders, TakenUp(t, o), NEW q \in StillAsked(t, o), NEW u,
           u.entry = t.entry, u.order = t.order,
           u.requests = t.requests \ LiveRequests(t, q.driver, q.order, RequestStatuses)
    PROVE  /\ TakenUp(u, o)
           /\ \A r \in StillAsked(t, o) : r # q => r \in StillAsked(u, o)
<1>1. q \in t.requests /\ q.order = o /\ q.status = Requested
  BY DEF StillAsked
<1>2. \A r \in t.requests : r \in u.requests \/ (r.driver = q.driver /\ r.order = o)
  BY <1>1 DEF LiveRequests
<1>3. u.requests \subseteq t.requests
  OBVIOUS
<1>4. \A p, statuses : HoldersIn(u, p, statuses) = HoldersIn(t, p, statuses)
  BY DEF HoldersIn, Live
<1>5. \A p : Holders(u, p) = Holders(t, p)
  BY <1>4 DEF Holders
<1>6. \A e \in Holders(t, o) : t.entry[e].status = Agreed /\ t.entry[e].driver # q.driver
  BY NobodyElse
<1>7. Local(t, u, o)
  <2>1. \A e, f \in Holders(u, o) : e = f
    BY <1>5 DEF TakenUp, Matched, Whole
  <2>2. \A r \in t.requests : r.order # o => r \in u.requests
    BY <1>2
  <2> QED BY <1>3, <2>1, <2>2 DEF Local, Alike
<1>8. Matched(u, {o})
  BY <1>7, LocalMatches, MatchedBut DEF TakenUp
<1>9. Settled(u, o)
  <2>1. Settled(t, o)
    BY DEF TakenUp, Matched
  <2>2. ASSUME NEW e \in Holders(u, o) PROVE Fits(u, u.entry[e]) /\ Reserved(u, u.entry[e])
    <3>1. e \in Holders(t, o) /\ Fits(t, t.entry[e]) /\ Reserved(t, t.entry[e])
      BY <1>5, <2>1 DEF Settled
    <3>2. t.entry[e].status = Agreed /\ t.entry[e].driver # q.driver
      BY <1>6, <3>1
    <3>3. RequestOf(t.entry[e]).driver # q.driver
      BY <3>2 DEF RequestOf
    <3>4. t.entry[e].status # NoAnswer
      BY <3>2 DEF Agreed, NoAnswer
    <3>5. Fits(u, t.entry[e])
      BY <1>2, <3>1, <3>3, <3>4 DEF Fits
    <3>6. Reserved(u, t.entry[e])
      BY <3>1, <3>4 DEF Reserved
    <3> QED BY <3>5, <3>6
  <2>3. ASSUME NEW r \in u.requests, r.order = o
        PROVE  Carried(u, r) \/ Abandoned(u, r) \/ Stray(r)
    BY <1>3, <1>5, <2>1, <2>3 DEF Settled, Carried, Abandoned
  <2> QED BY <1>5, <2>1, <2>2, <2>3 DEF Settled
<1>10. TakenUp(u, o)
  BY <1>4, <1>8, <1>9, AllMatched DEF TakenUp
<1>11. ASSUME NEW r \in StillAsked(t, o), r # q PROVE r \in StillAsked(u, o)
  <2>1. r \in t.requests /\ r.order = o /\ r.status = Requested
    BY DEF StillAsked
  <2>2. r.driver # q.driver
    <3>1. {r.status, q.status} \subseteq GuardedStatuses
      BY <1>1, <2>1 DEF GuardedStatuses
    <3> QED BY <1>1, <1>11, <2>1, <3>1 DEF AtMostOne
  <2> QED BY <1>2, <2>1, <2>2 DEF StillAsked
<1> QED BY <1>10, <1>11

\* What a call that is ending the other invitations knows of them.
LEMMA Dismissing ==
    ASSUME IInv, NEW call, inFlight = {call}, call.step = "dismiss", CallFits(tables, call)
    PROVE  /\ AtMostOne(tables) /\ call.order \in Orders /\ TakenUp(tables, call.order)
           /\ call.others \subseteq StillAsked(tables, call.order) /\ call \in DismissCalls
<1>1. call \in DismissCalls
  BY DEF IInv, CallsInv, Calls, AcceptCalls, StampCalls, CloseCalls, DismissCalls,
     Corrections
<1>2. TakenUp(tables, call.order) /\ call.others \subseteq StillAsked(tables, call.order)
  BY DEF CallFits
<1> QED BY <1>1, <1>2 DEF DismissCalls, IInv, TablesInv, Guarded

LEMMA ReleaseInviteeGood ==
    ASSUME IInv, NEW call, inFlight = {call}, sweep = SweepIdle, call.step = "dismiss",
           CallFits(tables, call), ReleaseInvitee(call)
    PROVE  QInv' /\ ClosedStay(tables, tables')
<1> DEFINE o == call.order
           next(q) == [call EXCEPT !.others = @ \ {q}]
<1>1. /\ AtMostOne(tables) /\ o \in Orders /\ TakenUp(tables, o)
      /\ call.others \subseteq StillAsked(tables, o) /\ call \in DismissCalls
  BY Dismissing
<1>2. PICK q \in call.others : /\ Commit(EndInvitation(tables, q))
                               /\ \/ call.others = {q} /\ Continue(call, {})
                                  \/ Continue(call, {next(q)})
  BY DEF ReleaseInvitee
<1> DEFINE u == EndInvitation(tables, q)
<1>3. /\ u.entry = tables.entry /\ u.order = tables.order
      /\ u.requests = tables.requests \ LiveRequests(tables, q.driver, q.order, RequestStatuses)
  BY <1>1, NobodyElse, TypedNow, InvitationEnds
<1>4. tables' = u
  BY <1>2 DEF Commit
<1>5. next(q).step = "dismiss" /\ next(q).order = o /\ next(q).others = call.others \ {q}
  BY <1>1 DEF DismissCalls
<1> HIDE DEF u, next, o
<1>6. TakenUp(u, o) /\ \A r \in StillAsked(tables, o) : r # q => r \in StillAsked(u, o)
  BY <1>1, <1>2, <1>3, InviteeLeaves
<1>7. ClosedStay(tables, u)
  BY <1>3 DEF ClosedStay
<1>8. CASE Continue(call, {})
  <2>1. inFlight' = {} /\ sweep' = SweepIdle
    BY <1>8, Continues
  <2> QED BY <1>4, <1>6, <1>7, <2>1, AllQuiet DEF TakenUp
<1>9. CASE Continue(call, {next(q)})
  <2>1. inFlight' = {next(q)} /\ sweep' = SweepIdle
    BY <1>9, Continues
  <2>2. CallFits(u, next(q))
    BY <1>1, <1>5, <1>6 DEF CallFits
  <2> QED BY <1>4, <1>7, <2>1, <2>2, CallUnderWay
<1> QED BY <1>2, <1>8, <1>9

\* The order is delivered: nothing but its entry is left to be closed.
LEMMA CompleteJourneyGood ==
    ASSUME IInv, Quiet, Matched(tables, {}), NEW r \in tables.requests, CompleteJourney(r)
    PROVE  QInv' /\ ClosedStay(tables, tables')
<1> DEFINE o == r.order
           call == [step |-> "close", order |-> o]
           u == tables'
<1>1. tables \in TablesUpTo(MaxNumber) /\ MaxNumber \in Nat /\ o \in Orders
  BY TypedNow DEF TablesUpTo, Request
<1>2. inFlight' = {call} /\ sweep' = SweepIdle
  BY Begins DEF CompleteJourney
<1>3. /\ u.entry = tables.entry /\ u.order[o] = JourneyCompleted
      /\ u.requests = tables.requests \ {r}
      /\ \A p \in Orders : p # o => u.order[p] = tables.order[p]
  BY <1>1 DEF CompleteJourney, Commit, TablesUpTo
<1>4. r.status \in {GoToLoadingPlace, Loading, Loaded, JourneyStarted}
  BY DEF CompleteJourney
<1>5. call.step = "close" /\ call.order = o
  OBVIOUS
<1> HIDE DEF u, call, o
<1>6. Settled(tables, o) /\ Matched(tables, {o})
  BY <1>1, MatchedBut
<1>7. \A f : f \in Holders(u, o) <=> f \in Holders(tables, o)
  <2>1. \A f : f \in Holders(tables, o) <=>
                  f \in Entries /\ Holding(tables.entry[f]) /\ tables.entry[f].order = o
    BY HoldersAre
  <2>2. \A f : f \in Holders(u, o) <=> f \in Entries /\ Holding(u.entry[f]) /\ u.entry[f].order = o
    BY HoldersAre
  <2> QED BY <1>3, <2>1, <2>2
<1>8. Local(tables, u, o)
  <2>1. \A e, f \in Holders(u, o) : e = f
    BY <1>1, <1>7 DEF Matched, Whole
  <2>2. \A q \in u.requests : q \in tables.requests
    BY <1>3
  <2>3. \A q \in tables.requests : q.order # o => q \in u.requests
    BY <1>3 DEF o
  <2> QED BY <1>3, <2>1, <2>2, <2>3 DEF Local, Alike
<1>9. Matched(u, {o})
  BY <1>6, <1>8, LocalMatches
<1>10. JourneyCompleted \in ClosedOrderStatuses
  BY DEF ClosedOrderStatuses
<1>11. Done(u, o)
  <2>1. CASE Carried(tables, r)
    <3>1. PICK e \in Holders(tables, o) : RequestOf(tables.entry[e]) = r
      BY <2>1 DEF Carried, o
    <3>2. /\ \A f \in Holders(tables, o) : f = e
          /\ \A q \in tables.requests : q.order = o => q = r \/ Stray(q)
      BY <1>1, <3>1, HeldOrder
    <3>3. Holding(tables.entry[e]) /\ tables.entry[e].order = o
      BY <3>1, HoldersAre
    <3>4. tables.entry[e].status \in JobStatuses
      <4>1. Stage(tables.entry[e]) = r.status
        BY <3>1 DEF RequestOf
      <4>2. tables.entry[e].status \in HoldingStatuses
        BY <3>3 DEF Holding
      <4> QED BY <1>4, <4>1, <4>2 DEF Stage, HoldingStatuses, Requested, NoAnswer, Agreed,
                 AcceptedByShipper, GoToLoadingPlace, Loading, Loaded, JourneyStarted
    <3>5. tables.entry[e].reserved \in {None, ShipperOf[o]}
      <4>1. Reserved(tables, tables.entry[e])
        BY <1>6, <3>1 DEF Settled
      <4>2. tables.entry[e].status # NoAnswer
        BY <3>4 DEF JobStatuses, NoAnswer, Agreed, GoToLoadingPlace, Loading, Loaded,
                    JourneyStarted
      <4> QED BY <3>3, <4>1, <4>2 DEF Reserved
    <3>6. Rest(u, o)
      BY <1>3, <3>2 DEF Rest
    <3> QED BY <1>3, <1>7, <1>9, <3>2, <3>4, <3>5, <3>6 DEF Done
  <2>2. CASE ~Carried(tables, r)
    <3>1. Abandoned(tables, r)
      BY <1>4, <1>6, <2>2 DEF Settled, Stray, Requested, GoToLoadingPlace, Loading, Loaded,
                              JourneyStarted, o
    <3>2. \A e : e \notin Holders(tables, o)
      BY <1>1, <3>1, HeldOrder DEF Abandoned, o
    <3>3. ASSUME NEW q \in u.requests, q.order = o PROVE Abandoned(u, q) \/ Stray(q)
      <4>1. Abandoned(tables, q) \/ Stray(q)
        BY <1>3, <1>6, <3>2, <3>3 DEF Settled, Carried
      <4> QED BY <1>3, <1>10, <3>3, <4>1 DEF Abandoned
    <3> QED BY <1>3, <1>7, <1>9, <3>2, <3>3 DEF Done, Rest
  <2> QED BY <2>1, <2>2
<1>12. CallFits(u, call)
  BY <1>5, <1>11 DEF CallFits
<1>13. ClosedStay(tables, u)
  BY <1>3, <1>10 DEF ClosedStay
<1> QED BY <1>2, <1>12, <1>13, CallUnderWay DEF u

\* Its entry is closed.
LEMMA CompletionCloseGood ==
    ASSUME IInv, NEW call, inFlight = {call}, sweep = SweepIdle, call.step = "close",
           CallFits(tables, call), CompletionClose(call)
    PROVE  QInv' /\ ClosedStay(tables, tables')
<1> DEFINE o == call.order
           jobs == HoldersIn(tables, o, JobStatuses)
           u == tables'
<1>1. /\ o \in Orders /\ tables \in TablesUpTo(MaxNumber) /\ MaxNumber \in Nat
  <2>1. call \in CloseCalls
    BY DEF IInv, CallsInv, Calls, AcceptCalls, StampCalls, CloseCalls, DismissCalls,
     Corrections
  <2> QED BY <2>1, TypedNow DEF CloseCalls
<1>2. Done(tables, o)
  BY DEF CallFits
<1>3. inFlight' = {} /\ sweep' = SweepIdle
  BY Continues DEF CompletionClose
<1>4. u = IF jobs = {} THEN tables ELSE CloseEntry(tables, Min(jobs), JourneyCompleted)
  BY DEF CompletionClose, Commit, CloseOnCompletion
<1>5. \A e : e \in jobs <=> e \in Holders(tables, o)
  BY <1>2 DEF Done, Holders, HoldersIn, HoldingStatuses
<1>6. JourneyCompleted \notin ActiveOrderStatuses
  BY DEF ActiveOrderStatuses, Waiting, Requested, AcceptedByShipper, GoToLoadingPlace, Loading,
         Loaded, JourneyStarted, JourneyCompleted
<1>7. CASE jobs = {}
  <2>1. u = tables /\ Holders(tables, o) = {}
    BY <1>4, <1>5, <1>7
  <2>2. Matched(tables, {})
    BY <1>2, <1>6, <2>1, RestSettles DEF Done
  <2> QED BY <1>3, <2>1, <2>2, AllQuiet DEF ClosedStay
<1>8. CASE jobs # {}
  <2> DEFINE e == Min(jobs)
  <2>1. e \in jobs
    <3>1. jobs \subseteq Nat
      BY BoundsAssumption DEF HoldersIn, Entries
    <3> HIDE DEF jobs
    <3> QED BY <1>8, <3>1, MinIn
  <2>2. u = CloseEntry(tables, e, JourneyCompleted)
    BY <1>4, <1>8
  <2>3. e \in Holders(tables, o)
    BY <1>5, <2>1
  <2> HIDE DEF e, jobs, u
  <2>4. e \in Entries /\ Holding(tables.entry[e]) /\ tables.entry[e].order = o
    BY <2>3, HoldersAre
  <2>5. Freed(tables, u, e)
    BY <1>1, <2>2, <2>4, CloseFrees
  <2>6. \A f \in Holders(tables, o) : f = e
    BY <1>1, <1>2, <2>3 DEF Done, Matched, Whole
  <2>7. \A f : f \notin Holders(u, o)
    <3>1. \A f : f \in Holders(tables, o) <=>
                    f \in Entries /\ Holding(tables.entry[f]) /\ tables.entry[f].order = o
      BY HoldersAre
    <3>2. \A f : f \in Holders(u, o) <=> f \in Entries /\ Holding(u.entry[f]) /\ u.entry[f].order = o
      BY HoldersAre
    <3> QED BY <2>5, <2>6, <3>1, <3>2 DEF Freed
  <2>8. Local(tables, u, o)
    <3>1. OnlyFor(tables.entry[e], o) /\ OnlyFor(u.entry[e], o) /\ Linked(u.entry[e])
      BY <2>4, <2>5 DEF Freed, OnlyFor, Linked
    <3> QED BY <2>5, <2>7, <3>1 DEF Freed, Local, Alike
  <2>9. Matched(u, {o})
    BY <1>2, <2>8, LocalMatches DEF Done
  <2>10. Rest(u, o) /\ u.order[o] = JourneyCompleted
    BY <1>2, <2>5 DEF Done, Rest, Freed, Abandoned
  <2>11. Matched(u, {})
    <3>1. Holders(u, o) = {}
      BY <2>7
    <3> QED BY <1>6, <2>9, <2>10, <3>1, RestSettles
  <2>12. ClosedStay(tables, u)
    BY <2>5 DEF Freed, ClosedStay
  <2> QED BY <1>3, <2>11, <2>12, AllQuiet DEF u
<1> QED BY <1>7, <1>8

-----------------------------------------------------------------------------
(***************************************************************************)
(* The pass.                                                               *)
(***************************************************************************)
LEMMA PassUnderWay ==
    ASSUME inFlight' = {}, sweep'.at # "idle", PassFits(tables', sweep')
    PROVE  QInv'
BY DEF QInv

\* What the orders see of the tables is the same, and so is what is said of it.
LEMMA SameMatches ==
    ASSUME NEW t, NEW u, u.entry = t.entry, u.order = t.order, u.requests = t.requests
    PROVE  /\ \A off : Matched(t, off) => Matched(u, off)
           /\ \A o : Open(t, o) => Open(u, o)
           /\ \A x : Asked(t, x) => Asked(u, x)
<1>1. \A o : Holders(u, o) = Holders(t, o)
  BY DEF Holders, HoldersIn, Live
<1>2. \A r : Carried(t, r) => Carried(u, r)
  BY <1>1 DEF Carried
<1>3. \A r : Abandoned(t, r) => Abandoned(u, r)
  BY DEF Abandoned
<1>4. \A row : /\ Fits(t, row) => Fits(u, row)
               /\ Reserved(t, row) => Reserved(u, row)
  BY DEF Fits, Reserved
<1>5. \A o : Settled(t, o) => Settled(u, o)
  BY <1>1, <1>2, <1>3, <1>4 DEF Settled
<1>6. \A off : Matched(t, off) => Matched(u, off)
  BY <1>1, <1>5 DEF Matched, Whole
<1>7. \A o : Open(t, o) => Open(u, o)
  BY <1>1, <1>3, <1>6 DEF Open, Rest
<1>8. \A x : Asked(t, x) => Asked(u, x)
  BY DEF Asked
<1> QED BY <1>6, <1>7, <1>8

\* On to the next expired offer, or the end of the pass.
LEMMA GoesOn ==
    ASSUME inFlight' = {}, sweep' = SweepNext, Matched(tables', {}), sweep \in Pass,
           sweep.todo # {} => "expiry" \in Operations,
           \A x \in sweep.todo : Asked(tables', x)
    PROVE  QInv'
<1>1. CASE sweep.todo = {}
  BY <1>1, AllQuiet DEF SweepNext
<1>2. CASE sweep.todo # {}
  <2>1. /\ sweep'.at = "mark" /\ sweep'.todo = sweep.todo /\ sweep'.expired = None
    BY <1>2 DEF SweepNext, SweepIdle
  <2>2. PassFits(tables', sweep')
    BY <1>2, <2>1 DEF PassFits
  <2> QED BY <2>1, <2>2, PassUnderWay
<1> QED BY <1>1, <1>2

LEMMA SweepReadGood ==
    ASSUME IInv, Quiet, Matched(tables, {}), NEW found \in SUBSET ExpiredOffers, SweepRead(found)
    PROVE  QInv' /\ ClosedStay(tables, tables')
<1>1. /\ "expiry" \in Operations /\ tables' = tables /\ inFlight' = {}
      /\ sweep'.at = "mark" /\ sweep'.todo = found /\ sweep'.expired = None
  BY DEF SweepRead, Starts, Quiet, SweepIdle
<1>2. \A x \in found : Asked(tables, x)
  <2> SUFFICES ASSUME NEW x \in ExpiredOffers PROVE Asked(tables, x)
    OBVIOUS
  <2>1. Live(tables, x.entry) /\ tables.entry[x.entry].status = Requested
    BY DEF ExpiredOffers
  <2>2. Holding(tables.entry[x.entry])
    BY <2>1 DEF Live, Holding, HoldingStatuses
  <2> QED BY <2>1, <2>2 DEF ExpiredOffers, Asked
<1>3. PassFits(tables', sweep')
  BY <1>1, <1>2 DEF PassFits
<1> QED BY <1>1, <1>3, PassUnderWay DEF ClosedStay

\* The offer is kept by a driver that did not answer; its request is a stray.
LEMMA SweepMarkGood ==
    ASSUME IInv, inFlight = {}, PassFits(tables, sweep), NEW x \in sweep.todo, SweepMark(x)
    PROVE  QInv' /\ ClosedStay(tables, tables')
<1> DEFINE e == x.entry
           o == x.order
           u == tables'
<1>1. /\ tables \in TablesUpTo(MaxNumber) /\ MaxNumber \in Nat /\ sweep \in Pass
      /\ x \in Expired /\ e \in Entries /\ o \in Orders
  BY TypedNow DEF IInv, PassInv, Pass, Expired
<1>2. /\ Matched(tables, {}) /\ Asked(tables, x) /\ "expiry" \in Operations
  BY DEF PassFits
<1>3. /\ inFlight' = {} /\ sweep'.at = "charge" /\ sweep'.todo = sweep.todo \ {x}
      /\ sweep'.expired = x
  BY <1>1 DEF SweepMark, Pass
<1>4. /\ u.order = tables.order /\ u.requests = tables.requests
      /\ \A f \in Entries : f # e => u.entry[f] = tables.entry[f]
      /\ u.entry[e].status = NoAnswer
      /\ u.entry[e].driver = tables.entry[e].driver /\ u.entry[e].order = tables.entry[e].order
      /\ u.entry[e].reserved = tables.entry[e].reserved
      /\ u.entry[e].deleted = tables.entry[e].deleted
  <2>1. tables' = [tables EXCEPT !.entry[e].status = NoAnswer]
    BY DEF SweepMark, Commit
  <2>2. tables.entry \in [Entries -> RowUpTo(MaxNumber)]
    BY <1>1 DEF TablesUpTo
  <2> HIDE DEF e
  <2> QED BY <1>1, <2>1, <2>2 DEF TablesUpTo, RowUpTo
<1>5. \A y \in sweep.todo : y # x => y.entry # e
  <2> SUFFICES ASSUME NEW y \in sweep.todo, y.entry = e PROVE y = x
    OBVIOUS
  <2>1. y.driver = x.driver /\ y.order = x.order /\ y.refusals = x.refusals
    BY <1>2 DEF Asked, PassFits
  <2>2. y \in Expired
    BY <1>1 DEF Pass
  <2> QED BY <1>1, <2>1, <2>2 DEF Expired
<1> HIDE DEF u
<1>6. /\ Holding(tables.entry[e]) /\ tables.entry[e].status = Requested
      /\ tables.entry[e].order = o /\ tables.entry[e].driver = x.driver
  BY <1>2 DEF Asked
<1> HIDE DEF o
<1>7. e \in Holders(tables, o) /\ Settled(tables, o) /\ Matched(tables, {o})
  BY <1>1, <1>2, <1>6, HoldersAre, MatchedBut
<1>8. /\ \A f \in Holders(tables, o) : f = e
      /\ \A r \in tables.requests : r.order = o => r = RequestOf(tables.entry[e]) \/ Stray(r)
  BY <1>1, <1>2, <1>7, HeldOrder
<1>9. Holding(u.entry[e]) /\ Linked(u.entry[e])
  BY <1>1, <1>4, <1>6 DEF Holding, HoldingStatuses, Linked
<1>10. \A f : f \in Holders(u, o) <=> f = e
  <2>1. \A f : f \in Holders(tables, o) <=>
                  f \in Entries /\ Holding(tables.entry[f]) /\ tables.entry[f].order = o
    BY HoldersAre
  <2>2. \A f : f \in Holders(u, o) <=> f \in Entries /\ Holding(u.entry[f]) /\ u.entry[f].order = o
    BY HoldersAre
  <2> QED BY <1>1, <1>4, <1>6, <1>8, <1>9, <2>1, <2>2
<1>11. Local(tables, u, o)
  <2>1. OnlyFor(tables.entry[e], o) /\ OnlyFor(u.entry[e], o)
    BY <1>4, <1>6 DEF OnlyFor
  <2> QED BY <1>4, <1>9, <1>10, <2>1 DEF Local, Alike
<1>12. Settled(u, o)
  <2>1. Fits(tables, tables.entry[e]) /\ Reserved(tables, tables.entry[e])
    BY <1>7 DEF Settled
  <2>2. tables.order[o] = Requested /\ u.entry[e].reserved \in {None, ShipperOf[o]}
    BY <1>4, <1>6, <2>1 DEF Fits, Reserved, Stage, Requested, NoAnswer, Agreed
  <2>3. Fits(u, u.entry[e]) /\ Reserved(u, u.entry[e])
    BY <1>2, <1>4, <1>6, <2>2 DEF Fits, Reserved
  <2>4. \A r \in u.requests : r.order = o => Stray(r)
    BY <1>2, <1>4, <1>6, <1>8 DEF Stray, RequestOf, Stage, Requested, Agreed
  <2> QED BY <1>10, <2>3, <2>4 DEF Settled
<1>13. Matched(u, {})
  BY <1>7, <1>11, <1>12, LocalMatches, AllMatched
<1>14. \A y \in sweep'.todo : Asked(u, y)
  <2> SUFFICES ASSUME NEW y \in sweep.todo, y # x PROVE Asked(u, y)
    BY <1>3
  <2>1. Asked(tables, y)
    BY DEF PassFits
  <2>2. y.entry # e /\ y.entry \in Entries
    BY <1>1, <1>5 DEF Pass, Expired
  <2> QED BY <1>4, <2>1, <2>2 DEF Asked
<1>15. Kept(u, x)
  BY <1>4, <1>6, <1>9 DEF Kept, o
<1>16. PassFits(u, sweep')
  BY <1>1, <1>2, <1>3, <1>13, <1>14, <1>15 DEF PassFits
<1>17. ClosedStay(tables, u)
  BY <1>4 DEF ClosedStay
<1> QED BY <1>3, <1>16, <1>17, PassUnderWay DEF u

LEMMA SweepChargeGood ==
    ASSUME IInv, inFlight = {}, PassFits(tables, sweep), SweepCharge
    PROVE  QInv' /\ ClosedStay(tables, tables')
<1> DEFINE x == sweep.expired
           u == ChargeRefusal(tables, x.entry, x.refusals, sweep.back)
<1>1. /\ tables \in TablesUpTo(MaxNumber) /\ MaxNumber \in Nat /\ sweep \in Pass
      /\ sweep.at = "charge"
  BY TypedNow DEF IInv, PassInv, SweepCharge
<1>2. /\ Matched(tables, {}) /\ x \in Expired /\ Kept(tables, x) /\ "expiry" \in Operations
  BY <1>1 DEF PassFits
<1>3. /\ tables' = u /\ inFlight' = {} /\ sweep'.at = "seek" /\ sweep'.todo = sweep.todo
      /\ sweep'.expired = x /\ sweep'.order = x.order
  BY <1>1 DEF SweepCharge, Commit, Pass
<1>4. /\ \A f \in Entries : Alike(tables.entry[f], u.entry[f])
      /\ \A f \in Entries : f # x.entry => u.entry[f] = tables.entry[f]
      /\ u.order = tables.order /\ u.requests = tables.requests
  BY <1>1, ChargeRows DEF Alike
<1>5. x.entry \in Entries
  BY <1>2 DEF Expired
<1> HIDE DEF u, x
<1>6. Good(tables, u)
  BY <1>2, <1>4, AlikeGood
<1>7. Kept(u, x)
  BY <1>2, <1>4, <1>5 DEF Kept, Alike, Holding
<1>8. \A y \in sweep.todo : Asked(u, y)
  <2> SUFFICES ASSUME NEW y \in sweep.todo PROVE Asked(u, y)
    OBVIOUS
  <2>1. Asked(tables, y) /\ y.entry \in Entries
    BY <1>1 DEF PassFits, Pass, Expired
  <2>2. y.entry # x.entry
    BY <1>2, <2>1 DEF Asked, Kept, Requested, NoAnswer
  <2> QED BY <1>4, <2>1, <2>2 DEF Asked
<1>9. PassFits(u, sweep')
  BY <1>2, <1>3, <1>6, <1>7, <1>8 DEF PassFits, Good
<1> QED BY <1>3, <1>6, <1>9, PassUnderWay DEF Good

\* The entry in front is found and given a waiting request.
LEMMA FoundGood ==
    ASSUME IInv, inFlight = {}, inFlight' = {}, Matched(tables, {}), NEW o \in Orders,
           Open(tables, o), NEW excluded, Takers(tables, o, excluded) # {},
           sweep \in Pass, \A x \in sweep.todo : Asked(tables, x),
           sweep.todo # {} \/ sweep.expired # None => "expiry" \in Operations,
           sweep.expired # None => sweep.expired.driver \in excluded /\ sweep.expired.order = o,
           Found(o, FrontEntry(tables, o, excluded))
    PROVE  QInv' /\ ClosedStay(tables, tables')
<1> DEFINE e == FrontEntry(tables, o, excluded)
           u == tables'
<1>1. tables \in TablesUpTo(MaxNumber) /\ MaxNumber \in Nat
  BY TypedNow
<1>2. /\ e \in Entries /\ Live(tables, e) /\ tables.entry[e].status \in OfferableStatuses
      /\ tables.entry[e].reserved \in {None, ShipperOf[o]}
      /\ tables.entry[e].driver \notin excluded
  BY <1>1, TakerIsOfferable
<1> HIDE DEF e
<1>3. /\ u = [tables EXCEPT !.armed = @ \cup {tables.entry[e].driver}]
      /\ sweep' = [sweep EXCEPT !.at = "offer", !.order = o, !.front = e]
  BY DEF Found, Commit, e
<1>4. /\ u.entry = tables.entry /\ u.order = tables.order /\ u.requests = tables.requests
      /\ tables.entry[e].driver \in u.armed
  BY <1>1, <1>3 DEF TablesUpTo
<1>5. /\ sweep'.at = "offer" /\ sweep'.order = o /\ sweep'.front = e
      /\ sweep'.todo = sweep.todo /\ sweep'.expired = sweep.expired
  BY <1>3 DEF Pass
<1> HIDE DEF u
<1>6. Matched(u, {}) /\ Open(u, o) /\ \A x \in sweep.todo : Asked(u, x)
  BY <1>4, SameMatches
<1>7. Offerable(u, sweep')
  BY <1>2, <1>4, <1>5, <1>6 DEF Offerable, Live
<1>8. PassFits(u, sweep')
  BY <1>5, <1>6, <1>7 DEF PassFits
<1>9. ClosedStay(tables, u)
  BY <1>4 DEF ClosedStay
<1> QED BY <1>5, <1>8, <1>9, PassUnderWay DEF u

LEMMA SweepSeekGood ==
    ASSUME IInv, inFlight = {}, PassFits(tables, sweep), SweepSeek
    PROVE  QInv' /\ ClosedStay(tables, tables')
<1> DEFINE x == sweep.expired
           o == sweep.order
           next == Takers(tables, o, {x.driver})
<1>1. /\ tables \in TablesUpTo(MaxNumber) /\ MaxNumber \in Nat /\ sweep \in Pass
      /\ sweep.at = "seek" /\ inFlight' = {} /\ o \in Orders
  BY TypedNow DEF IInv, PassInv, SweepSeek
<1>2. /\ Matched(tables, {}) /\ x \in Expired /\ Kept(tables, x) /\ o = x.order
      /\ \A y \in sweep.todo : Asked(tables, y)
      /\ sweep.todo # {} \/ x # None => "expiry" \in Operations
  BY <1>1 DEF PassFits
<1>3. x.entry \in Holders(tables, o) /\ tables.entry[x.entry].status = NoAnswer
  BY <1>2, HoldersAre DEF Kept, Expired
<1>4. /\ tables.order[o] \notin ClosedOrderStatuses
      /\ \A f \in Holders(tables, o) : f = x.entry
      /\ \A r \in tables.requests : r.order = o => r = RequestOf(tables.entry[x.entry]) \/ Stray(r)
  BY <1>1, <1>2, <1>3, HeldOrder
<1> HIDE DEF x, o
<1>5. CASE next = {}
  <2>1. tables' = ResetToWaitingIfUnheld(tables, o) /\ sweep' = SweepNext
    BY <1>5 DEF SweepSeek, Commit, x, o
  <2>2. tables' = tables
    BY <1>3, <2>1 DEF ResetToWaitingIfUnheld
  <2>3. QInv'
    BY <1>1, <1>2, <2>1, <2>2, GoesOn
  <2> QED BY <2>2, <2>3 DEF ClosedStay
<1>6. CASE next # {}
  <2>1. Found(o, FrontEntry(tables, o, {x.driver}))
    BY <1>6 DEF SweepSeek, x, o
  <2>2. Open(tables, o)
    <3>1. \A r \in tables.requests : r.status # NoAnswer
      BY <1>1 DEF TablesUpTo, Request, RequestStatuses, ActiveOrderStatuses, NoAnswer, Waiting,
         Requested, AcceptedByShipper, GoToLoadingPlace, Loading, Loaded, JourneyStarted
    <3>2. RequestOf(tables.entry[x.entry]).status = NoAnswer
      BY <1>3 DEF RequestOf, Stage, NoAnswer, Agreed
    <3>3. Rest(tables, o)
      BY <1>4, <3>1, <3>2 DEF Rest
    <3>4. Matched(tables, {o})
      BY <1>2, MatchedBut
    <3> QED BY <1>3, <1>4, <3>3, <3>4 DEF Open
  <2>3. x.driver \in {x.driver}
    OBVIOUS
  <2> QED BY <1>1, <1>2, <1>6, <2>1, <2>2, <2>3, FoundGood DEF x
<1> QED BY <1>5, <1>6

LEMMA RescanSeekGood ==
    ASSUME IInv, Quiet, Matched(tables, {}), RescanSeek
    PROVE  QInv' /\ ClosedStay(tables, tables')
<1> DEFINE served == {o \in PendingOrders(tables) : Takers(tables, o, {}) # {}}
           o == Min(served)
<1>1. /\ tables \in TablesUpTo(MaxNumber) /\ MaxNumber \in Nat /\ sweep \in Pass
      /\ inFlight = {} /\ inFlight' = {} /\ sweep.todo = {} /\ sweep.expired = None
  BY TypedNow DEF IInv, PassInv, RescanSeek, Quiet, SweepIdle
<1>2. served # {} /\ Found(o, FrontEntry(tables, o, {}))
  BY DEF RescanSeek
<1>3. o \in served
  <2>1. served \subseteq Nat
    BY BoundsAssumption DEF PendingOrders, Orders
  <2> HIDE DEF served
  <2> QED BY <1>2, <2>1, MinIn
<1>4. o \in PendingOrders(tables) /\ Takers(tables, o, {}) # {}
  BY <1>3
<1> HIDE DEF o, served
<1>5. o \in Orders /\ Open(tables, o)
  BY <1>1, <1>4, PendingIsOpen
<1> QED BY <1>1, <1>2, <1>4, <1>5, FoundGood

\* The order is offered to the entry in front.
LEMMA SweepOfferGood ==
    ASSUME IInv, inFlight = {}, PassFits(tables, sweep), SweepOffer
    PROVE  QInv' /\ ClosedStay(tables, tables')
<1> DEFINE o == sweep.order
           e == sweep.front
           x == sweep.expired
           u == Offer(tables, o, e)
<1>1. /\ tables \in TablesUpTo(MaxNumber) /\ MaxNumber \in Nat /\ sweep \in Pass
      /\ sweep.at = "offer" /\ inFlight' = {} /\ o \in Orders /\ e \in Entries
  BY TypedNow DEF IInv, PassInv, SweepOffer
<1>2. Offerable(tables, sweep) /\ Matched(tables, {})
  BY <1>1 DEF PassFits
<1>3. /\ tables' = u
      /\ sweep' = IF x = None THEN SweepIdle ELSE [sweep EXCEPT !.at = "settle", !.front = None]
  BY <1>2 DEF SweepOffer, Offerable, Commit
<1>4. Matched(u, {}) /\ Holders(u, o) = {e} /\ ClosedStay(tables, u)
  BY <1>1, <1>2, OfferMatches DEF Offerable
<1>5. Offered(tables, u, o, e)
  BY <1>1, OfferRows
<1> HIDE DEF u, o, e, x
<1>6. CASE x = None
  BY <1>1, <1>3, <1>4, <1>6, AllQuiet
<1>7. CASE x # None
  <2>1. /\ sweep'.at = "settle" /\ sweep'.todo = sweep.todo /\ sweep'.expired = x
        /\ x \in Expired /\ "expiry" \in Operations
    BY <1>1, <1>3, <1>7 DEF Pass, PassFits, x
  <2>2. x.order = o /\ x.driver # tables.entry[e].driver
    BY <1>2, <1>7 DEF Offerable, x, o, e
  <2>3. u.entry[e].driver = tables.entry[e].driver
    <3>1. tables.entry[e] \in RowUpTo(MaxNumber)
      BY <1>1 DEF TablesUpTo
    <3> QED BY <1>1, <1>5, <3>1, RelinkedRow DEF Offered
  <2>4. \A f \in Holders(u, x.order) : u.entry[f].driver # x.driver
    BY <1>4, <2>2, <2>3
  <2>5. \A y \in sweep.todo : Asked(u, y)
    <3> SUFFICES ASSUME NEW y \in sweep.todo PROVE Asked(u, y)
      OBVIOUS
    <3>1. Asked(tables, y) /\ y.entry \in Entries
      BY <1>1 DEF PassFits, Pass, Expired
    <3>2. y.entry # e
      BY <1>2, <3>1 DEF Asked, Offerable, OfferableStatuses, Requested, Waiting,
                        CancelledBeforeAccept, e
    <3>3. y.entry \notin Retained(tables, o, e)
      BY <3>1 DEF Asked, Retained, HoldersIn, Requested, NoAnswer
    <3>4. u.entry[y.entry] = tables.entry[y.entry]
      BY <1>5, <3>1, <3>2, <3>3 DEF Offered
    <3> QED BY <3>1, <3>4 DEF Asked
  <2>6. PassFits(u, sweep')
    BY <1>4, <2>1, <2>4, <2>5 DEF PassFits
  <2> QED BY <1>1, <1>3, <1>4, <2>1, <2>6, PassUnderWay
<1> QED BY <1>6, <1>7

\* The request of the driver that did not answer ends.
LEMMA SweepSettleGood ==
    ASSUME IInv, inFlight = {}, PassFits(tables, sweep), SweepSettle
    PROVE  QInv' /\ ClosedStay(tables, tables')
<1> DEFINE x == sweep.expired
           o == x.order
           gone == LiveRequests(tables, x.driver, o, {Requested})
           u == tables'
<1>1. /\ tables \in TablesUpTo(MaxNumber) /\ MaxNumber \in Nat /\ sweep \in Pass
      /\ sweep.at = "settle" /\ inFlight' = {} /\ sweep' = SweepNext
  BY TypedNow DEF IInv, PassInv, SweepSettle
<1>2. /\ Matched(tables, {}) /\ x \in Expired
      /\ \A e \in Holders(tables, o) : tables.entry[e].driver # x.driver
      /\ \A y \in sweep.todo : Asked(tables, y)
      /\ sweep.todo # {} => "expiry" \in Operations
  BY <1>1 DEF PassFits
<1>3. /\ u.entry = tables.entry /\ u.order = tables.order /\ u.requests = tables.requests \ gone
  BY <1>1 DEF SweepSettle, Commit, TablesUpTo
<1>4. o \in Orders /\ \A r \in gone : r.driver = x.driver /\ r.order = o
  BY <1>2 DEF Expired, LiveRequests
<1> HIDE DEF u, gone, o, x
<1>5. Settled(tables, o) /\ Matched(tables, {o})
  BY <1>2, <1>4, MatchedBut
<1>6. \A f : f \in Holders(u, o) <=> f \in Holders(tables, o)
  <2>1. \A f : f \in Holders(tables, o) <=>
                  f \in Entries /\ Holding(tables.entry[f]) /\ tables.entry[f].order = o
    BY HoldersAre
  <2>2. \A f : f \in Holders(u, o) <=> f \in Entries /\ Holding(u.entry[f]) /\ u.entry[f].order = o
    BY HoldersAre
  <2> QED BY <1>3, <2>1, <2>2
<1>7. Local(tables, u, o)
  <2>1. \A e, f \in Holders(u, o) : e = f
    BY <1>2, <1>4, <1>6 DEF Matched, Whole
  <2> QED BY <1>3, <1>4, <2>1 DEF Local, Alike
<1>8. Settled(u, o)
  <2>1. ASSUME NEW e \in Holders(u, o) PROVE Fits(u, u.entry[e]) /\ Reserved(u, u.entry[e])
    <3>1. e \in Holders(tables, o) /\ u.entry[e] = tables.entry[e]
      BY <1>3, <1>6, <2>1
    <3>2. Fits(tables, tables.entry[e]) /\ Reserved(tables, tables.entry[e])
      BY <1>5, <3>1 DEF Settled
    <3>3. RequestOf(tables.entry[e]) \notin gone
      <4>1. RequestOf(tables.entry[e]).driver # x.driver
        BY <1>2, <3>1 DEF RequestOf
      <4> QED BY <1>4, <4>1
    <3>4. tables.entry[e].order = o
      BY <3>1, HoldersAre
    <3>5. Asking(tables.entry[e].driver, o) \notin gone
      <4>1. Asking(tables.entry[e].driver, o).driver # x.driver
        BY <1>2, <3>1 DEF Asking
      <4> QED BY <1>4, <4>1
    <3> QED BY <1>3, <3>1, <3>2, <3>3, <3>4, <3>5 DEF Fits, Reserved
  <2>2. ASSUME NEW r \in u.requests, r.order = o
        PROVE  Carried(u, r) \/ Abandoned(u, r) \/ Stray(r)
    <3>1. Carried(tables, r) \/ Abandoned(tables, r) \/ Stray(r)
      BY <1>3, <1>5, <2>2 DEF Settled
    <3>2. Carried(tables, r) => Carried(u, r)
      BY <1>3, <1>6, <2>2 DEF Carried
    <3>3. Abandoned(tables, r) => Abandoned(u, r)
      BY <1>3 DEF Abandoned
    <3> QED BY <3>1, <3>2, <3>3
  <2>3. u.order[o] \in ActiveOrderStatuses \ {Waiting} => Holders(u, o) # {}
    BY <1>3, <1>5, <1>6 DEF Settled
  <2> QED BY <2>1, <2>2, <2>3 DEF Settled
<1>9. Matched(u, {})
  BY <1>5, <1>7, <1>8, LocalMatches, AllMatched
<1>10. \A y \in sweep.todo : Asked(u, y)
  BY <1>2, <1>3 DEF Asked
<1>11. ClosedStay(tables, u)
  BY <1>3 DEF ClosedStay
<1> QED BY <1>1, <1>2, <1>9, <1>10, <1>11, GoesOn DEF u

-----------------------------------------------------------------------------
(***************************************************************************)
(* The orderly steps together.                                             *)
(***************************************************************************)
LEMMA InitMatched == Init => QInv
<1> SUFFICES ASSUME Init PROVE QInv
  OBVIOUS
<1>1. \A e \in Entries : ~Holding(tables.entry[e]) /\ tables.entry[e].order = None
  BY DEF Init, EmptyTables, NoRow, Holding, HoldingStatuses, JobStatuses, NoStatus, Requested,
         NoAnswer, Agreed, GoToLoadingPlace, Loading, Loaded, JourneyStarted
<1>2. \A o, e : e \notin Holders(tables, o)
  BY <1>1, HoldersAre
<1>3. /\ tables.requests = {}
      /\ \A o \in Orders : tables.order[o] \notin ActiveOrderStatuses
  BY DEF Init, EmptyTables, ActiveOrderStatuses, NoStatus, Waiting, Requested,
         AcceptedByShipper, GoToLoadingPlace, Loading, Loaded, JourneyStarted
<1>4. Matched(tables, {})
  BY <1>1, <1>2, <1>3 DEF Matched, Whole, Linked, Settled
<1> QED BY <1>4 DEF Init, QInv, Quiet

\* While nothing is under way, every order is settled.
LEMMA QuietIsMatched == QInv /\ Quiet => Matched(tables, {})
BY DEF QInv, Quiet, SweepIdle

LEMMA HandlerGood ==
    ASSUME Quiet, Good(tables, tables'), NEW u, Transaction(u)
    PROVE  QInv' /\ ClosedStay(tables, tables')
BY DEF Good, Quiet, QInv, Transaction

LEMMA CallGood ==
    ASSUME IInv, QInv, NEW call \in inFlight, CallStep(call)
    PROVE  QInv' /\ ClosedStay(tables, tables')
<1>1. inFlight = {call} /\ sweep = SweepIdle /\ CallFits(tables, call)
  BY DEF QInv, Quiet
<1>2. call.step # "correct"
  BY <1>1 DEF CallFits
<1>3. CASE call.step = "accept" /\ AcceptDecision(call)
  BY <1>1, <1>3, AcceptDecisionGood
<1>4. CASE call.step = "agree" /\ AcceptLookup(call)
  BY <1>1, <1>4, AcceptLookupGood
<1>5. CASE call.step = "stamp" /\ AcceptStamp(call)
  BY <1>1, <1>5, AcceptStampGood
<1>6. CASE call.step = "close" /\ CompletionClose(call)
  BY <1>1, <1>6, CompletionCloseGood
<1>7. CASE call.step = "release" /\ ReleaseRead(call)
  BY <1>1, <1>7, ReleaseReadGood
<1>8. CASE call.step = "dismiss" /\ ReleaseInvitee(call)
  BY <1>1, <1>8, ReleaseInviteeGood
<1> QED BY <1>2, <1>3, <1>4, <1>5, <1>6, <1>7, <1>8 DEF CallStep

\* While one call at a time runs, whoever is turned away holds no entry.
LEMMA DismissedHoldNothing == IInv /\ QInv => DismissesNoHolder
<1> SUFFICES ASSUME IInv, QInv, NEW call \in inFlight, call.step = "dismiss",
                    NEW q \in call.others
             PROVE  TheirEntries(tables, q) = {}
  BY DEF DismissesNoHolder
<1>1. inFlight = {call} /\ CallFits(tables, call)
  BY DEF QInv, Quiet
<1>2. /\ AtMostOne(tables) /\ call.order \in Orders /\ TakenUp(tables, call.order)
      /\ call.others \subseteq StillAsked(tables, call.order)
  BY <1>1, Dismissing
<1> QED BY <1>2, NobodyElse

LEMMA PassGood ==
    ASSUME IInv, QInv, SweepStep
    PROVE  QInv' /\ ClosedStay(tables, tables')
<1>1. sweep.at # "idle" \/ sweep.todo # {}
  BY DEF SweepStep, SweepMark, SweepCharge, SweepSeek, SweepOffer, SweepSettle
<1>2. inFlight = {} /\ PassFits(tables, sweep)
  BY <1>1 DEF QInv, Quiet, SweepIdle
<1> QED BY <1>2, SweepMarkGood, SweepChargeGood, SweepSeekGood, SweepOfferGood, SweepSettleGood
       DEF SweepStep

LEMMA OrderlyNext ==
    ASSUME Orderly, IInv, QInv, [Next]_vars
    PROVE  QInv' /\ ClosedStay(tables, tables')
<1>1. \A op : Starts(op) => op \in Operations /\ Quiet /\ Matched(tables, {})
  BY QuietIsMatched DEF Starts, Orderly
<1>2. Operations \cap {"remove", "dispatch", "shipperReject", "adminCancel", "reconcile",
                       "restart"} = {}
  BY DEF Orderly
<1>3. CASE EntryAction
  <2>1. ASSUME NEW d \in Drivers, NEW s \in Reservations, CheckIn(d, s) \/ ManualCheckin(d, s)
        PROVE  QInv' /\ ClosedStay(tables, tables')
    <3>1. Quiet /\ Matched(tables, {}) /\ JoinLine(d, s)
      BY <1>1, <2>1 DEF CheckIn, ManualCheckin
    <3>2. Good(tables, tables')
      BY <3>1, JoinLineGood
    <3> QED BY <3>1, <3>2, HandlerGood DEF JoinLine
  <2>2. ASSUME NEW d \in Drivers, NEW s \in Reservations, CheckInAgain(d, s)
        PROVE  QInv' /\ ClosedStay(tables, tables')
    <3>1. Quiet /\ Matched(tables, {})
      BY <1>1, <2>2 DEF CheckInAgain
    <3>2. Good(tables, tables')
      BY <2>2, <3>1, CheckInAgainGood
    <3> QED BY <2>2, <3>1, <3>2, HandlerGood DEF CheckInAgain
  <2>3. ASSUME NEW d \in Drivers, Checkout(d) PROVE QInv' /\ ClosedStay(tables, tables')
    <3>1. Quiet /\ Matched(tables, {})
      BY <1>1, <2>3 DEF Checkout
    <3>2. Good(tables, tables')
      BY <2>3, <3>1, CheckoutGood
    <3> QED BY <2>3, <3>1, <3>2, HandlerGood DEF Checkout
  <2>4. ASSUME NEW d \in Drivers, CancelWaitingRequest(d)
        PROVE  QInv' /\ ClosedStay(tables, tables')
    <3>1. Quiet /\ Matched(tables, {})
      BY <1>1, <2>4 DEF CancelWaitingRequest
    <3>2. Good(tables, tables')
      BY <2>4, <3>1, CancelWaitingRequestGood
    <3> QED BY <2>4, <3>1, <3>2, HandlerGood DEF CancelWaitingRequest
  <2>5. ASSUME NEW e \in Entries, RemoveEntry(e) PROVE FALSE
    BY <1>1, <1>2, <2>5 DEF RemoveEntry
  <2>6. ASSUME NEW e \in Entries, NEW n \in 1..MaxNumber, OverrideEntry(e, n)
        PROVE  QInv' /\ ClosedStay(tables, tables')
    <3>1. Quiet /\ Matched(tables, {})
      BY <1>1, <2>6 DEF OverrideEntry
    <3>2. Good(tables, tables')
      BY <2>6, <3>1, OverrideEntryGood
    <3> QED BY <2>6, <3>1, <3>2, HandlerGood DEF OverrideEntry
  <2> QED BY <1>3, <2>1, <2>2, <2>3, <2>4, <2>5, <2>6 DEF EntryAction
<1>4. CASE OrderAction
  <2>1. ASSUME NEW o \in Orders, PlaceOrder(o) PROVE QInv' /\ ClosedStay(tables, tables')
    <3>1. Quiet /\ Matched(tables, {})
      BY <1>1, <2>1 DEF PlaceOrder
    <3>2. Good(tables, tables')
      BY <2>1, <3>1, PlaceOrderGood
    <3> QED BY <2>1, <3>1, <3>2, HandlerGood DEF PlaceOrder
  <2>2. ASSUME NEW o \in Orders, NEW e \in Entries, DispatchToFront(o) \/ DispatchToEntry(o, e)
        PROVE  FALSE
    BY <1>1, <1>2, <2>2 DEF DispatchToFront, DispatchToEntry
  <2>3. ASSUME NEW o \in Orders, DispatchToFront(o) PROVE FALSE
    BY <1>1, <1>2, <2>3 DEF DispatchToFront
  <2>4. ASSUME NEW o \in Orders, NEW s \in {CancelledByShipper, CancelledByAdmin},
               CancelShipperRequest(o, s)
        PROVE  QInv' /\ ClosedStay(tables, tables')
    <3>1. Quiet /\ Matched(tables, {})
      BY <1>1, <2>4 DEF CancelShipperRequest
    <3>2. Good(tables, tables')
      BY <2>4, <3>1, CancelShipperRequestGood
    <3>3. \E u : Transaction(u)
      BY <2>4 DEF CancelShipperRequest
    <3> QED BY <3>1, <3>2, <3>3, HandlerGood
  <2> QED BY <1>4, <2>1, <2>2, <2>3, <2>4 DEF OrderAction
<1>5. CASE RequestAction
  <2>1. PICK r \in tables.requests :
           \/ \E byDriver \in BOOLEAN : CancelDriverRequest(r, byDriver)
           \/ RejectDriverOffer(r)
           \/ AcceptGate(r)
           \/ LoadingStage(r)
           \/ StartJourney(r)
           \/ CompleteJourney(r)
    BY <1>5 DEF RequestAction
  <2>2. CASE CancelDriverRequest(r, TRUE)
    <3>1. Quiet /\ Matched(tables, {})
      BY <1>1, <2>2 DEF CancelDriverRequest
    <3>2. Good(tables, tables')
      BY <2>2, <3>1, CancelDriverRequestGood
    <3>3. \E u : Transaction(u)
      BY <2>2 DEF CancelDriverRequest
    <3> QED BY <3>1, <3>2, <3>3, HandlerGood
  <2>3. ~CancelDriverRequest(r, FALSE)
    BY <1>1, <1>2 DEF CancelDriverRequest
  <2>4. ~RejectDriverOffer(r)
    BY <1>1, <1>2 DEF RejectDriverOffer
  <2>5. CASE AcceptGate(r)
    <3>1. Quiet /\ Matched(tables, {})
      BY <1>1, <2>5 DEF AcceptGate
    <3> QED BY <2>5, <3>1, AcceptGateGood
  <2>6. CASE LoadingStage(r)
    <3>1. Quiet /\ Matched(tables, {})
      BY <1>1, <2>6 DEF LoadingStage
    <3>2. Good(tables, tables')
      BY <2>6, <3>1, LoadingStageGood
    <3> QED BY <2>6, <3>1, <3>2, HandlerGood DEF LoadingStage
  <2>7. CASE StartJourney(r)
    <3>1. Quiet /\ Matched(tables, {})
      BY <1>1, <2>7 DEF StartJourney
    <3>2. Good(tables, tables')
      BY <2>7, <3>1, StartJourneyGood
    <3> QED BY <2>7, <3>1, <3>2, HandlerGood DEF StartJourney
  <2>8. CASE CompleteJourney(r)
    <3>1. Quiet /\ Matched(tables, {})
      BY <1>1, <2>8 DEF CompleteJourney
    <3> QED BY <2>8, <3>1, CompleteJourneyGood
  <2>9. \A byDriver \in BOOLEAN : byDriver = TRUE \/ byDriver = FALSE
    OBVIOUS
  <2> QED BY <2>1, <2>2, <2>3, <2>4, <2>5, <2>6, <2>7, <2>8, <2>9
<1>6. ASSUME NEW found \in SUBSET ExpiredOffers, SweepRead(found)
      PROVE  QInv' /\ ClosedStay(tables, tables')
  <2>1. Quiet /\ Matched(tables, {})
    BY <1>1, <1>6 DEF SweepRead
  <2> QED BY <1>6, <2>1, SweepReadGood
<1>7. CASE RescanSeek
  <2>1. Quiet /\ Matched(tables, {})
    BY <1>1, <1>7 DEF RescanSeek
  <2> QED BY <1>7, <2>1, RescanSeekGood
<1>8. CASE SweepStep
  BY <1>8, PassGood
<1>9. ASSUME NEW o \in Orders, ReconcileRead(o) PROVE FALSE
  BY <1>1, <1>2, <1>9 DEF ReconcileRead
<1>10. ASSUME NEW call \in inFlight, CallStep(call) PROVE QInv' /\ ClosedStay(tables, tables')
  BY <1>10, CallGood
<1>11. ~Restart
  BY <1>2 DEF Restart
<1>12. CASE UNCHANGED vars
  BY <1>12 DEF vars, QInv, Quiet, ClosedStay
<1> QED BY <1>3, <1>4, <1>5, <1>6, <1>7, <1>8, <1>9, <1>10, <1>11, <1>12 DEF Next

-----------------------------------------------------------------------------
(***************************************************************************)
(* No step puts a job back in the line.                                    *)
(***************************************************************************)
LEMMA SameRowsSteady ==
    ASSUME NEW t, NEW u, \A e \in Entries : u.entry[e].status = t.entry[e].status
    PROVE  Steady(t, u)
BY DEF Steady, InLineRow, InQueueStatuses, JobStatuses, Waiting, Requested, NoAnswer,
       CancelledBeforeAccept, Agreed, GoToLoadingPlace, Loading, Loaded, JourneyStarted

LEMMA FoundSteady ==
    ASSUME IInv, NEW o, NEW e, Found(o, e)
    PROVE  Steady(tables, tables')
<1>1. tables'.entry = tables.entry
  BY TypedNow DEF Found, Commit, TablesUpTo
<1> QED BY <1>1, SameRowsSteady

LEMMA SweepSeekSteady ==
    ASSUME IInv, SweepSeek
    PROVE  Steady(tables, tables')
<1>1. CASE Takers(tables, sweep.order, {sweep.expired.driver}) = {}
  <2>1. tables' = ResetToWaitingIfUnheld(tables, sweep.order)
    BY <1>1 DEF SweepSeek, Commit
  <2>2. tables'.entry = tables.entry
    BY <2>1, TypedNow DEF ResetToWaitingIfUnheld, TablesUpTo
  <2> QED BY <2>2, SameRowsSteady
<1>2. CASE Takers(tables, sweep.order, {sweep.expired.driver}) # {}
  BY <1>2, FoundSteady DEF SweepSeek
<1> QED BY <1>1, <1>2

LEMMA SweepOfferSteady ==
    ASSUME IInv, QInv, SweepOffer
    PROVE  Steady(tables, tables')
<1> DEFINE o == sweep.order
           e == sweep.front
<1>1. /\ tables \in TablesUpTo(MaxNumber) /\ MaxNumber \in Nat
      /\ o \in Orders /\ e \in Entries /\ sweep.at = "offer"
  BY TypedNow DEF IInv, PassInv, SweepOffer
<1>2. tables.entry[e].driver \in tables.armed /\ tables.entry[e].status \in OfferableStatuses
  BY <1>1 DEF QInv, Quiet, SweepIdle, PassFits, Offerable
<1>3. tables' = Offer(tables, o, e)
  BY <1>2 DEF SweepOffer, Commit
<1>4. Offered(tables, tables', o, e)
  BY <1>1, <1>3, OfferRows
<1>5. ASSUME NEW f \in Entries, tables.entry[f].status \in JobStatuses
      PROVE  ~InLineRow(tables'.entry[f])
  <2>1. f # e
    BY <1>2, <1>5 DEF OfferableStatuses, JobStatuses, Waiting, CancelledBeforeAccept, Agreed,
                      GoToLoadingPlace, Loading, Loaded, JourneyStarted
  <2>2. f \notin Retained(tables, o, e)
    BY <1>5 DEF Retained, HoldersIn, JobStatuses, NoAnswer, Agreed, GoToLoadingPlace, Loading,
                Loaded, JourneyStarted
  <2>3. tables'.entry[f] = tables.entry[f]
    BY <1>4, <2>1, <2>2 DEF Offered
  <2> QED BY <1>5, <2>3 DEF InLineRow, InQueueStatuses, JobStatuses, Waiting, Requested, NoAnswer,
             CancelledBeforeAccept, Agreed, GoToLoadingPlace, Loading, Loaded, JourneyStarted
<1> QED BY <1>5 DEF Steady

LEMMA SweepStepSteady ==
    ASSUME IInv, LineInv, QInv, SweepStep
    PROVE  Steady(tables, tables')
<1>1. ASSUME NEW x \in sweep.todo, SweepMark(x) PROVE Steady(tables, tables')
  BY <1>1, SweepMarkLine, OnwardSteady
<1>2. CASE SweepCharge
  <2>1. \A e \in Entries : tables'.entry[e].status = tables.entry[e].status
    <3>1. tables' = ChargeRefusal(tables, sweep.expired.entry, sweep.expired.refusals, sweep.back)
      BY <1>2 DEF SweepCharge, Commit
    <3> QED BY <3>1, TypedNow, ChargeRows
  <2> QED BY <2>1, SameRowsSteady
<1>3. CASE SweepSettle
  <2>1. tables'.entry = tables.entry
    BY <1>3, TypedNow DEF SweepSettle, Commit, TablesUpTo
  <2> QED BY <2>1, SameRowsSteady
<1> QED BY <1>1, <1>2, <1>3, SweepSeekSteady, SweepOfferSteady DEF SweepStep

LEMMA SteadyNext ==
    ASSUME Orderly, IInv, LineInv, QInv, [Next]_vars
    PROVE  Steady(tables, tables')
<1>1. \A op : Starts(op) => op \in Operations /\ Quiet /\ sweep = SweepIdle /\ sweep.at # "offer"
  BY DEF Starts, Orderly, Quiet, SweepIdle
<1>2. Operations \cap {"remove", "dispatch", "shipperReject", "adminCancel", "reconcile",
                       "restart"} = {}
  BY DEF Orderly
<1>3. CASE EntryAction
  <2>1. ASSUME NEW d \in Drivers, NEW s \in Reservations, CheckIn(d, s) \/ ManualCheckin(d, s)
        PROVE  Steady(tables, tables')
    <3>1. sweep = SweepIdle /\ sweep.at # "offer" /\ JoinLine(d, s) /\ InLine(tables, d) = {}
      BY <1>1, <2>1 DEF CheckIn, ManualCheckin
    <3> QED BY <3>1, JoinLineLine
  <2>2. ASSUME NEW d \in Drivers, NEW s \in Reservations, CheckInAgain(d, s)
        PROVE  Steady(tables, tables')
    BY <2>2, CheckInAgainInv, OnwardSteady
  <2>3. ASSUME NEW d \in Drivers, Checkout(d) PROVE Steady(tables, tables')
    BY <2>3, CheckoutInv, OnwardSteady
  <2>4. ASSUME NEW d \in Drivers, CancelWaitingRequest(d) PROVE Steady(tables, tables')
    BY <2>4, CancelWaitingRequestInv, OnwardSteady
  <2>5. ASSUME NEW e \in Entries, RemoveEntry(e) PROVE Steady(tables, tables')
    BY <2>5, RemoveEntryInv, OnwardSteady
  <2>6. ASSUME NEW e \in Entries, NEW n \in 1..MaxNumber, OverrideEntry(e, n)
        PROVE  Steady(tables, tables')
    BY <2>6, OverrideEntryInv, OnwardSteady
  <2> QED BY <1>3, <2>1, <2>2, <2>3, <2>4, <2>5, <2>6 DEF EntryAction
<1>4. CASE OrderAction
  <2>1. ASSUME NEW o \in Orders, PlaceOrder(o) PROVE Steady(tables, tables')
    BY <2>1, PlaceOrderInv, OnwardSteady
  <2>2. ASSUME NEW o \in Orders, DispatchToFront(o) PROVE Steady(tables, tables')
    BY <2>2, DispatchToFrontInv, OnwardSteady
  <2>3. ASSUME NEW o \in Orders, NEW e \in Entries, DispatchToEntry(o, e)
        PROVE  Steady(tables, tables')
    BY <2>3, DispatchToEntryInv, OnwardSteady
  <2>4. ASSUME NEW o \in Orders, NEW s \in {CancelledByShipper, CancelledByAdmin},
               CancelShipperRequest(o, s)
        PROVE  Steady(tables, tables')
    BY <2>4, CancelShipperRequestInv, OnwardSteady
  <2> QED BY <1>4, <2>1, <2>2, <2>3, <2>4 DEF OrderAction
<1>5. CASE RequestAction
  <2>1. PICK r \in tables.requests :
           \/ \E byDriver \in BOOLEAN : CancelDriverRequest(r, byDriver)
           \/ RejectDriverOffer(r)
           \/ AcceptGate(r)
           \/ LoadingStage(r)
           \/ StartJourney(r)
           \/ CompleteJourney(r)
    BY <1>5 DEF RequestAction
  <2>2. CASE \E byDriver \in BOOLEAN : CancelDriverRequest(r, byDriver)
    BY <2>2, CancelDriverRequestInv, OnwardSteady
  <2>3. CASE RejectDriverOffer(r)
    BY <2>3, RejectDriverOfferInv, OnwardSteady
  <2>4. CASE AcceptGate(r)
    BY <2>4, AcceptGateInv, OnwardSteady
  <2>5. CASE LoadingStage(r)
    BY <2>5, LoadingStageInv, OnwardSteady
  <2>6. CASE StartJourney(r)
    BY <2>6, StartJourneyInv, OnwardSteady
  <2>7. CASE CompleteJourney(r)
    BY <2>7, CompleteJourneyInv, OnwardSteady
  <2> QED BY <2>1, <2>2, <2>3, <2>4, <2>5, <2>6, <2>7
<1>6. ASSUME NEW found \in SUBSET ExpiredOffers, SweepRead(found) PROVE Steady(tables, tables')
  BY <1>6, SameRowsSteady DEF SweepRead
<1>7. CASE RescanSeek
  BY <1>7, FoundSteady DEF RescanSeek
<1>8. CASE SweepStep
  BY <1>8, SweepStepSteady
<1>9. ASSUME NEW o \in Orders, ReconcileRead(o) PROVE FALSE
  BY <1>1, <1>2, <1>9 DEF ReconcileRead
<1>10. ASSUME NEW call \in inFlight, CallStep(call) PROVE Steady(tables, tables')
  <2>1. CASE call.step = "accept" /\ AcceptDecision(call)
    BY <2>1, AcceptDecisionInv, OnwardSteady
  <2>2. CASE call.step = "agree" /\ AcceptLookup(call)
    BY <2>2, AcceptLookupInv, OnwardSteady
  <2>3. CASE call.step = "stamp" /\ AcceptStamp(call)
    BY <2>3, AcceptStampInv, OnwardSteady
  <2>4. CASE call.step = "close" /\ CompletionClose(call)
    BY <2>4, CompletionCloseInv, OnwardSteady
  <2>5. CASE call.step = "correct" /\ ReconcileApply(call)
    BY <2>5, ReconcileApplyInv, OnwardSteady
  <2>6. CASE call.step = "release" /\ ReleaseRead(call)
    BY <2>6, ReleaseReadInv, OnwardSteady
  <2>7. CASE call.step = "dismiss" /\ ReleaseInvitee(call)
    <3>1. Onward(tables, tables')
      BY <2>7, ReleaseInviteeInv, DismissedHoldNothing DEF DismissesNoHolder
    <3> QED BY <3>1, OnwardSteady
  <2> QED BY <1>10, <2>1, <2>2, <2>3, <2>4, <2>5, <2>6, <2>7 DEF CallStep
<1>11. ~Restart
  BY <1>2 DEF Restart
<1>12. CASE UNCHANGED vars
  BY <1>12, SameRowsSteady DEF vars
<1> QED BY <1>3, <1>4, <1>5, <1>6, <1>7, <1>8, <1>9, <1>10, <1>11, <1>12 DEF Next

-----------------------------------------------------------------------------
(***************************************************************************)
(* What follows while the operations are orderly.                          *)
(***************************************************************************)
\* The invariant of a line whose calls run one at a time.
THEOREM OrderlyInvariant == ASSUME Orderly PROVE Spec => [](IInv /\ LineInv /\ QInv)
<1>1. LineSafe
  BY DEF Orderly, LineSafe
<1>2. Init => IInv /\ LineInv /\ QInv
  BY InitInv, LineInit, InitMatched
<1>3. IInv /\ LineInv /\ QInv /\ [Next]_vars => (IInv /\ LineInv /\ QInv)'
  BY <1>1, NextInv, LineNext, DismissedHoldNothing, OrderlyNext
<1> QED BY <1>2, <1>3, PTL DEF Spec

\* Where nobody accepts, no call is ending other invitations.
NobodyAccepts == \A call \in inFlight : call.step \in {"close", "correct"}

LEMMA NobodyAcceptsNext ==
    ASSUME "accept" \notin Operations, NobodyAccepts, [Next]_vars
    PROVE  NobodyAccepts'
<1>1. CASE inFlight' = inFlight
  BY <1>1 DEF NobodyAccepts
<1>2. ASSUME NEW r \in tables.requests, CompleteJourney(r) PROVE NobodyAccepts'
  BY <1>2 DEF CompleteJourney, Begin, NobodyAccepts
<1>3. ASSUME NEW o \in Orders, ReconcileRead(o) PROVE NobodyAccepts'
  <2>1. PICK from, to : Begin({[step |-> "correct", order |-> o, from |-> from, to |-> to]})
    BY <1>3 DEF ReconcileRead
  <2> QED BY <2>1 DEF Begin, NobodyAccepts
<1>4. ASSUME NEW call \in inFlight, CallStep(call) PROVE NobodyAccepts'
  <2>1. Continue(call, {})
    BY <1>4 DEF NobodyAccepts, CallStep, CompletionClose, ReconcileApply
  <2> QED BY <2>1 DEF Continue, NobodyAccepts
<1>5. CASE Restart
  BY <1>5 DEF Restart, NobodyAccepts
<1>6. ASSUME NEW r, AcceptGate(r) PROVE FALSE
  BY <1>6 DEF AcceptGate, Starts
<1>7. CASE EntryAction
  BY <1>1, <1>7 DEF EntryAction, CheckIn, CheckInAgain, ManualCheckin, JoinLine, Checkout,
     CancelWaitingRequest, RemoveEntry, OverrideEntry, Transaction
<1>8. CASE OrderAction
  BY <1>1, <1>8 DEF OrderAction, PlaceOrder, DispatchToFront, DispatchToEntry,
     CancelShipperRequest, Transaction
<1>9. CASE RequestAction
  BY <1>1, <1>2, <1>6, <1>9 DEF RequestAction, CancelDriverRequest, RejectDriverOffer,
     LoadingStage, StartJourney, Transaction
<1>10. CASE SweepStep
  BY <1>1, <1>10 DEF SweepStep, SweepMark, SweepCharge, SweepSeek, SweepOffer, SweepSettle
<1>11. ASSUME NEW found, SweepRead(found) PROVE NobodyAccepts'
  BY <1>1, <1>11 DEF SweepRead
<1>12. CASE RescanSeek
  BY <1>1, <1>12 DEF RescanSeek
<1>13. CASE UNCHANGED vars
  BY <1>1, <1>13 DEF vars
<1> QED BY <1>3, <1>4, <1>5, <1>7, <1>8, <1>9, <1>10, <1>11, <1>12, <1>13 DEF Next

LEMMA StandsInLineOnce == IInv /\ LineInv => OneLineEntry
<1> SUFFICES ASSUME IInv, LineInv, NEW d \in Drivers
             PROVE  Cardinality(InLine(tables, d)) <= 1
  BY DEF OneLineEntry
<1>1. \A e, f \in InLine(tables, d) : e = f
  BY DEF LineInv, StandsOnce, InLine, Live, InLineRow
<1>2. CASE InLine(tables, d) = {}
  BY <1>2, FS_EmptySet
<1>3. CASE InLine(tables, d) # {}
  <2>1. PICK e \in InLine(tables, d) : InLine(tables, d) = {e}
    BY <1>1, <1>3
  <2>2. Cardinality({e}) = 1
    BY FS_Singleton
  <2> QED BY <2>1, <2>2
<1> QED BY <1>2, <1>3

\* No driver stands in the line twice: while the operations are orderly, through
\* all the calls of several parts and the expiry; and however check-ins,
\* dispatches, refusals, completions and cancellations interleave, as long as
\* nobody accepts beside them, the expiry runs alone, and an admin enrols
\* drivers beside the others only where the re-dispatch does not run as well.
THEOREM DriverStandsOnce ==
    ASSUME Orderly \/ (LineSafe /\ "accept" \notin Operations)
    PROVE  Spec => []OneLineEntry
<1>1. CASE Orderly
  BY <1>1, OrderlyInvariant, StandsInLineOnce, PTL
<1>2. CASE LineSafe /\ "accept" \notin Operations
  <2> DEFINE Inv == IInv /\ LineInv /\ NobodyAccepts
  <2>1. Init => Inv
    BY InitInv, LineInit DEF Init, NobodyAccepts
  <2>2. NobodyAccepts => DismissesNoHolder
    BY DEF NobodyAccepts, DismissesNoHolder
  <2>3. Inv /\ [Next]_vars => Inv'
    BY <1>2, <2>2, NextInv, LineNext, NobodyAcceptsNext
  <2>4. Inv => OneLineEntry
    BY StandsInLineOnce
  <2> QED BY <2>1, <2>3, <2>4, PTL DEF Spec
<1> QED BY <1>1, <1>2

\* Whatever is under way, an order is held by one entry, and an entry holds
\* what it names.
LEMMA AlwaysWhole == QInv => Whole(tables)
BY DEF QInv, CallFits, Won, TakenUp, Done, PassFits, Matched

\* However offers, refusals, expiries, answers and cancellations follow one
\* another, no order is bound to two entries.
THEOREM OrderHasOneHolder == ASSUME Orderly PROVE Spec => []OneHolder
<1>1. QInv => OneHolder
  <2> SUFFICES ASSUME QInv, NEW o \in Orders PROVE Cardinality(Holders(tables, o)) <= 1
    BY DEF OneHolder
  <2>1. \A e, f \in Holders(tables, o) : e = f
    BY AlwaysWhole DEF Whole
  <2>2. CASE Holders(tables, o) = {}
    BY <2>2, FS_EmptySet
  <2>3. CASE Holders(tables, o) # {}
    <3>1. PICK e \in Holders(tables, o) : Holders(tables, o) = {e}
      BY <2>1, <2>3
    <3>2. Cardinality({e}) = 1
      BY FS_Singleton
    <3> QED BY <3>1, <3>2
  <2> QED BY <2>2, <2>3
<1> QED BY <1>1, OrderlyInvariant, PTL

\* A holder at rest has its order, its request and, once it has accepted, its
\* yard number.
LEMMA HolderFits ==
    ASSUME Matched(tables, {}), NEW e \in Entries, Live(tables, e),
           tables.entry[e].status \in HoldingStatuses
    PROVE  LET row == tables.entry[e]
           IN  /\ row.order \in Orders /\ e \in Holders(tables, row.order)
               /\ Fits(tables, row) /\ Reserved(tables, row)
<1>1. Holding(tables.entry[e])
  BY DEF Holding, Live
<1>2. tables.entry[e].order \in Orders
  BY <1>1 DEF Matched, Whole, Linked
<1>3. e \in Holders(tables, tables.entry[e].order)
  BY <1>1, HoldersAre
<1> QED BY <1>2, <1>3 DEF Matched, Settled

\* A driver that is being asked is able to answer.
THEOREM AskedDriverCanAnswer == ASSUME Orderly PROVE Spec => []AskedCanAnswer
<1>1. QInv => AskedCanAnswer
  <2> SUFFICES ASSUME QInv, Quiet, NEW e \in Entries, Live(tables, e),
                      tables.entry[e].status = Requested
               PROVE  LET row == tables.entry[e]
                      IN  /\ LiveRequests(tables, row.driver, row.order, {Requested}) # {}
                          /\ tables.order[row.order] = Requested
    BY DEF AskedCanAnswer
  <2> DEFINE row == tables.entry[e]
  <2>1. Fits(tables, row)
    BY QuietIsMatched, HolderFits DEF HoldingStatuses
  <2>2. Stage(row) = Requested
    BY DEF Stage, Requested, Agreed
  <2>3. RequestOf(row) \in tables.requests /\ tables.order[row.order] = Requested
    BY <2>1, <2>2 DEF Fits, Requested, NoAnswer
  <2>4. RequestOf(row) \in LiveRequests(tables, row.driver, row.order, {Requested})
    BY <2>2, <2>3 DEF LiveRequests, RequestOf
  <2> QED BY <2>3, <2>4
<1> QED BY <1>1, OrderlyInvariant, PTL

\* A driver on a job is at the stage its request and its order are at.
THEOREM JobAndJourneyAgree == ASSUME Orderly PROVE Spec => []JobMirrorsJourney
<1>1. QInv => JobMirrorsJourney
  <2> SUFFICES ASSUME QInv, Quiet, NEW e \in Entries, Live(tables, e),
                      tables.entry[e].status \in JobStatuses
               PROVE  LET row == tables.entry[e]
                          stage == Stage(row)
                      IN  /\ LiveRequests(tables, row.driver, row.order, {stage}) # {}
                          /\ tables.order[row.order] = stage
    BY DEF JobMirrorsJourney, Stage
  <2> DEFINE row == tables.entry[e]
  <2>1. Fits(tables, row) /\ row.status # NoAnswer
    BY QuietIsMatched, HolderFits
       DEF HoldingStatuses, JobStatuses, NoAnswer, Agreed, GoToLoadingPlace, Loading, Loaded,
           JourneyStarted
  <2>2. RequestOf(row) \in tables.requests /\ tables.order[row.order] = Stage(row)
    BY <2>1 DEF Fits
  <2>3. RequestOf(row) \in LiveRequests(tables, row.driver, row.order, {Stage(row)})
    BY <2>2 DEF LiveRequests, RequestOf
  <2> QED BY <2>2, <2>3
<1> QED BY <1>1, OrderlyInvariant, PTL

\* "Driver found" is never said of an order nobody holds.
THEOREM ShownOrderHasHolder == ASSUME Orderly PROVE Spec => []ShownOrderIsHeld
<1>1. QInv => ShownOrderIsHeld
  BY QuietIsMatched DEF ShownOrderIsHeld, Matched, Settled
<1> QED BY <1>1, OrderlyInvariant, PTL

\* A request that is still to be answered has its entry, as long as no offer
\* runs out: the pass ends the request of a driver that did not answer only
\* after it has found another.
THEOREM RequestHasItsHolder ==
    ASSUME Orderly, "expiry" \notin Operations PROVE Spec => []RequestHasHolder
<1>1. QInv /\ IInv => RequestHasHolder
  <2> SUFFICES ASSUME QInv, IInv, Quiet, NEW r \in tables.requests, r.status = Requested
               PROVE  \E e \in HoldersIn(tables, r.order, {Requested, NoAnswer}) :
                          tables.entry[e].driver = r.driver
    BY DEF RequestHasHolder
  <2>1. r.order \in Orders
    BY TypedNow DEF TablesUpTo, Request
  <2>2. Carried(tables, r) \/ Abandoned(tables, r) \/ Stray(r)
    BY <2>1, QuietIsMatched DEF Matched, Settled
  <2>3. PICK e \in Holders(tables, r.order) : RequestOf(tables.entry[e]) = r
    BY <2>2 DEF Carried, Abandoned, Stray, Requested, JourneyStarted
  <2>4. tables.entry[e].driver = r.driver /\ Stage(tables.entry[e]) = Requested
    BY <2>3 DEF RequestOf
  <2>5. tables.entry[e].status = Requested
    BY <2>4 DEF Stage, Requested, AcceptedByShipper
  <2>6. e \in HoldersIn(tables, r.order, {Requested, NoAnswer})
    BY <2>3, <2>5 DEF Holders, HoldersIn
  <2> QED BY <2>4, <2>6
<1> QED BY <1>1, OrderlyInvariant, PTL

\* Every accepted job has its entry, stamped for the yard, as long as no order
\* is cancelled under way: that closes the entry and leaves the journey.
THEOREM AcceptedJobIsStamped ==
    ASSUME Orderly, "shipperCancel" \notin Operations PROVE Spec => []AcceptedIsStamped
<1>1. QInv /\ IInv => AcceptedIsStamped
  <2> SUFFICES ASSUME QInv, IInv, Quiet, NEW r \in tables.requests, r.status # Requested
               PROVE  \E e \in HoldersIn(tables, r.order, JobStatuses) :
                          tables.entry[e].driver = r.driver /\ tables.entry[e].loading # 0
    BY DEF AcceptedIsStamped
  <2>1. r.order \in Orders /\ r.status \in RequestStatuses
    BY TypedNow DEF TablesUpTo, Request
  <2>2. Carried(tables, r) \/ Abandoned(tables, r) \/ Stray(r)
    BY <2>1, QuietIsMatched DEF Matched, Settled
  <2>3. PICK e \in Holders(tables, r.order) : RequestOf(tables.entry[e]) = r
    BY <2>2 DEF Carried, Abandoned, Stray
  <2>4. tables.entry[e].driver = r.driver /\ Stage(tables.entry[e]) = r.status
    BY <2>3 DEF RequestOf
  <2>5. tables.entry[e].status \in JobStatuses
    <3>1. tables.entry[e].status \in HoldingStatuses
      BY <2>3 DEF Holders, HoldersIn
    <3> QED BY <2>1, <2>4, <3>1 DEF Stage, HoldingStatuses, JobStatuses, RequestStatuses,
               ActiveOrderStatuses, Waiting, Requested, NoAnswer, Agreed, AcceptedByShipper,
               GoToLoadingPlace, Loading, Loaded, JourneyStarted
  <2>6. Fits(tables, tables.entry[e])
    BY <2>1, <2>3, QuietIsMatched DEF Matched, Settled
  <2>7. tables.entry[e].loading # 0
    BY <2>5, <2>6 DEF Fits, JobStatuses, Requested, NoAnswer, Agreed, GoToLoadingPlace,
                      Loading, Loaded, JourneyStarted
  <2>8. e \in HoldersIn(tables, r.order, JobStatuses)
    BY <2>3, <2>5 DEF Holders, HoldersIn
  <2> QED BY <2>4, <2>7, <2>8
<1> QED BY <1>1, OrderlyInvariant, PTL

\* An order a call is halfway through is held by somebody its shipper may have.
LEMMA HalfwayReserved ==
    ASSUME QInv, NEW o \in Orders, NEW e \in Holders(tables, o), ~Settled(tables, o)
    PROVE  tables.entry[e].reserved \in {None, ShipperOf[o]}
<1>1. ~Matched(tables, {})
  BY DEF Matched
<1>2. PICK call \in inFlight : CallFits(tables, call)
  BY <1>1 DEF QInv, PassFits
<1>3. CASE Done(tables, call.order)
  BY <1>3 DEF Done, Matched
<1>4. ASSUME NEW f, Won(tables, f, call.order) PROVE tables.entry[e].reserved \in {None, ShipperOf[o]}
  <2>1. o = call.order
    BY <1>4 DEF Won, Matched
  <2>2. e = f
    BY <1>4, <2>1, AlwaysWhole DEF Won, Whole
  <2> QED BY <1>4, <2>1, <2>2 DEF Won
<1> QED BY <1>1, <1>2, <1>3, <1>4 DEF CallFits, TakenUp

\* A driver that reserved the position is asked by, and drives for, no other
\* shipper, halfway through a call too.
THEOREM ReservationHolds == ASSUME Orderly PROVE Spec => []ReservationIsKept
<1>1. QInv => ReservationIsKept
  <2> SUFFICES ASSUME QInv, NEW e \in Entries, Live(tables, e),
                      tables.entry[e].status \in {Requested} \cup JobStatuses
               PROVE  tables.entry[e].reserved \in {None, ShipperOf[tables.entry[e].order]}
    BY DEF ReservationIsKept
  <2> DEFINE o == tables.entry[e].order
  <2>1. Holding(tables.entry[e])
    BY DEF Holding, HoldingStatuses, Live
  <2>2. o \in Orders
    BY <2>1, AlwaysWhole DEF Whole, Linked
  <2>3. e \in Holders(tables, o)
    BY <2>1, HoldersAre
  <2>4. CASE Settled(tables, o)
    <3>1. Reserved(tables, tables.entry[e])
      BY <2>3, <2>4 DEF Settled
    <3>2. tables.entry[e].status # NoAnswer
      BY DEF JobStatuses, Requested, NoAnswer, Agreed, GoToLoadingPlace, Loading, Loaded,
             JourneyStarted
    <3> QED BY <3>1, <3>2 DEF Reserved
  <2>5. CASE ~Settled(tables, o)
    BY <2>2, <2>3, <2>5, HalfwayReserved
  <2> QED BY <2>4, <2>5
<1> QED BY <1>1, OrderlyInvariant, PTL

\* An order that was delivered or cancelled is never made offerable or live
\* again.
THEOREM ClosedOrderIsOver == ASSUME Orderly PROVE Spec => ClosedOrderStaysClosed
<1>1. IInv /\ LineInv /\ QInv /\ [Next]_vars =>
         [\A o \in Orders : tables.order[o] \in ClosedOrderStatuses
              => tables'.order[o] \in ClosedOrderStatuses]_vars
  BY OrderlyNext DEF ClosedStay
<1> QED BY <1>1, OrderlyInvariant, PTL DEF Spec, ClosedOrderStaysClosed

\* An order on a driver's job is offered to nobody else before that job has let
\* it go.
THEOREM JobOrderIsNotReoffered == ASSUME Orderly PROVE Spec => AcceptedIsNotReoffered
<1>1. ASSUME IInv, LineInv, QInv, [Next]_vars, NEW o \in Orders,
             HoldersIn(tables', o, {Requested}) \ HoldersIn(tables, o, {Requested}) # {},
             NEW e \in HoldersIn(tables, o, JobStatuses)
      PROVE  tables'.entry[e].order # o
  <2> SUFFICES ASSUME tables'.entry[e].order = o PROVE FALSE
    OBVIOUS
  <2>1. QInv' /\ Steady(tables, tables')
    BY <1>1, OrderlyNext, SteadyNext
  <2>2. Whole(tables)'
    BY <2>1, AlwaysWhole, PTL
  <2>3. Whole(tables')
    BY <2>2 DEF Whole, Linked, Holding, Holders, HoldersIn, Live, Staged
  <2>4. e \in Entries /\ tables.entry[e].status \in JobStatuses
    BY DEF HoldersIn
  <2>5. Holding(tables'.entry[e])
    <3>1. o # None
      BY OrdersAssumption
    <3> QED BY <2>3, <2>4, <3>1 DEF Whole, Linked
  <2>6. e \in Holders(tables', o)
    BY <2>4, <2>5, HoldersAre
  <2>7. PICK f \in HoldersIn(tables', o, {Requested}) : TRUE
    BY <1>1
  <2>8. f \in Holders(tables', o) /\ tables'.entry[f].status = Requested
    BY <2>7 DEF Holders, HoldersIn, HoldingStatuses
  <2>9. tables'.entry[e].status = Requested
    BY <2>3, <2>6, <2>8 DEF Whole
  <2>10. InLineRow(tables'.entry[e])
    BY <2>5, <2>9 DEF Holding, InLineRow, InQueueStatuses
  <2> QED BY <2>1, <2>4, <2>10 DEF Steady
<1>2. IInv /\ LineInv /\ QInv /\ [Next]_vars =>
         [\A o \in Orders :
             LET jobs == HoldersIn(tables, o, JobStatuses)
             IN  (jobs # {} /\ HoldersIn(tables', o, {Requested})
                                 \ HoldersIn(tables, o, {Requested}) # {})
                     => \A e \in jobs : tables'.entry[e].order # o]_vars
  BY <1>1
<1> QED BY <1>2, OrderlyInvariant, PTL DEF Spec, AcceptedIsNotReoffered

-----------------------------------------------------------------------------
(***************************************************************************)
(* Corrections of an order's status.                                       *)
(***************************************************************************)
Sound(call) == call.step = "correct" => call.from \in ActiveOrderStatuses

CorrectionsInv == \A call \in inFlight : Sound(call)

\* A call that begins a correction read a status of an order under way, and a
\* call is over only after its own step or when the process dies.
Moved ==
    /\ \A call \in inFlight' : call \in inFlight \/ Sound(call)
    /\ \A call \in inFlight \ inFlight' : CallStep(call) \/ UNCHANGED tables

LEMMA StillMoved == inFlight' = inFlight => Moved
BY DEF Moved

LEMMA CallMoved ==
    ASSUME NEW call \in inFlight, CallStep(call)
    PROVE  Moved
<1>1. PICK next : Continue(call, next) /\ \A c \in next : c.step # "correct"
  <2>1. CASE call.step = "accept" /\ AcceptDecision(call)
    <3>1. call.step = "accept"
      BY <2>1
    <3>2. CASE Continue(call, {})
      BY <3>2
    <3>3. CASE Continue(call, {[call EXCEPT !.step = "agree"]})
      <4> DEFINE new == [call EXCEPT !.step = "agree"]
      <4>1. new.step # "correct"
        BY <3>1
      <4> HIDE DEF new
      <4>2. Continue(call, {new})
        BY <3>3 DEF new
      <4> QED BY <4>1, <4>2
    <3> QED BY <2>1, <3>2, <3>3 DEF AcceptDecision
  <2>2. CASE call.step = "agree" /\ AcceptLookup(call)
    <3>1. CASE Continue(call, {})
      BY <3>1
    <3>2. CASE ~Continue(call, {})
      <4>1. PICK e, n : Continue(call, {[step |-> "stamp", entry |-> e, order |-> call.order,
                                         loading |-> n]})
        BY <2>2, <3>2 DEF AcceptLookup
      <4> QED BY <4>1
    <3> QED BY <3>1, <3>2
  <2>3. CASE call.step = "stamp" /\ AcceptStamp(call)
    BY <2>3 DEF AcceptStamp
  <2>4. CASE call.step = "close" /\ CompletionClose(call)
    BY <2>4 DEF CompletionClose
  <2>5. CASE call.step = "correct" /\ ReconcileApply(call)
    BY <2>5 DEF ReconcileApply
  <2>6. CASE call.step = "release" /\ ReleaseRead(call)
    <3>1. CASE Continue(call, {})
      BY <3>1
    <3>2. CASE ~Continue(call, {})
      <4>1. PICK S : Continue(call, {[step |-> "dismiss", order |-> call.order, others |-> S]})
        BY <2>6, <3>2 DEF ReleaseRead
      <4> QED BY <4>1
    <3> QED BY <3>1, <3>2
  <2>7. CASE call.step = "dismiss" /\ ReleaseInvitee(call)
    <3> DEFINE new(q) == [call EXCEPT !.others = @ \ {q}]
    <3>1. PICK q : Continue(call, {}) \/ Continue(call, {new(q)})
      BY <2>7 DEF ReleaseInvitee
    <3>2. new(q).step # "correct"
      BY <2>7
    <3> HIDE DEF new
    <3> QED BY <3>1, <3>2
  <2> QED BY <2>1, <2>2, <2>3, <2>4, <2>5, <2>6, <2>7 DEF CallStep
<1> QED BY <1>1 DEF Continue, Moved, Sound

LEMMA NextMoved == [Next]_vars => Moved
<1>1. CASE EntryAction
  BY <1>1, StillMoved DEF EntryAction, CheckIn, CheckInAgain, ManualCheckin, JoinLine, Checkout,
     CancelWaitingRequest, RemoveEntry, OverrideEntry, Transaction
<1>2. CASE OrderAction
  BY <1>2, StillMoved DEF OrderAction, PlaceOrder, DispatchToFront, DispatchToEntry,
     CancelShipperRequest, Transaction
<1>3. CASE RequestAction
  <2>1. PICK r \in tables.requests :
           \/ \E byDriver \in BOOLEAN : CancelDriverRequest(r, byDriver)
           \/ RejectDriverOffer(r)
           \/ AcceptGate(r)
           \/ LoadingStage(r)
           \/ StartJourney(r)
           \/ CompleteJourney(r)
    BY <1>3 DEF RequestAction
  <2>2. CASE AcceptGate(r)
    BY <2>2 DEF AcceptGate, Begin, Moved, Sound
  <2>3. CASE CompleteJourney(r)
    BY <2>3 DEF CompleteJourney, Begin, Moved, Sound
  <2> QED BY <2>1, <2>2, <2>3, StillMoved
          DEF CancelDriverRequest, RejectDriverOffer, LoadingStage, StartJourney, Transaction
<1>4. CASE SweepStep
  BY <1>4, StillMoved DEF SweepStep, SweepMark, SweepCharge, SweepSeek, SweepOffer, SweepSettle
<1>5. ASSUME NEW found, SweepRead(found) PROVE Moved
  BY <1>5, StillMoved DEF SweepRead
<1>6. CASE RescanSeek
  BY <1>6, StillMoved DEF RescanSeek
<1>7. ASSUME NEW o \in Orders, ReconcileRead(o) PROVE Moved
  <2> DEFINE from == tables.order[o]
  <2>1. PICK to : Begin({[step |-> "correct", order |-> o, from |-> from, to |-> to]})
    BY <1>7 DEF ReconcileRead
  <2>2. from \in ActiveOrderStatuses
    BY <1>7 DEF ReconcileRead
  <2> HIDE DEF from
  <2> QED BY <2>1, <2>2 DEF Begin, Moved, Sound
<1>8. CASE Restart
  BY <1>8 DEF Restart, Moved
<1>9. CASE UNCHANGED vars
  BY <1>9, StillMoved DEF vars
<1> QED BY <1>1, <1>2, <1>3, <1>4, <1>5, <1>6, <1>7, CallMoved, <1>8, <1>9 DEF Next

\* A correction decided on before an order was delivered or cancelled does not
\* bring it back when it is written afterwards, whatever runs in between.
THEOREM LateCorrectionReopensNothing == Spec => CorrectionNeverReopens
<1>1. Init => CorrectionsInv
  BY DEF Init, CorrectionsInv
<1>2. CorrectionsInv /\ [Next]_vars => CorrectionsInv'
  BY NextMoved DEF CorrectionsInv, Moved
<1>3. CorrectionsInv /\ [Next]_vars =>
         [\A call \in inFlight \ inFlight' :
             call.step = "correct" /\ tables.order[call.order] \in ClosedOrderStatuses
             => tables'.order[call.order] = tables.order[call.order]]_vars
  <2> SUFFICES ASSUME CorrectionsInv, Moved, NEW call \in inFlight \ inFlight',
                      call.step = "correct", tables.order[call.order] \in ClosedOrderStatuses
               PROVE  tables'.order[call.order] = tables.order[call.order]
    BY NextMoved
  <2>1. CASE UNCHANGED tables
    BY <2>1
  <2>2. CASE CallStep(call)
    <3>1. tables.order[call.order] # call.from
      BY DEF CorrectionsInv, Sound, ActiveOrderStatuses, ClosedOrderStatuses, Waiting, Requested,
             AcceptedByShipper, GoToLoadingPlace, Loading, Loaded, JourneyStarted,
             JourneyCompleted, CancelledByShipper, CancelledByAdmin
    <3>2. ReconcileApply(call)
      BY <2>2 DEF CallStep
    <3> QED BY <3>1, <3>2 DEF ReconcileApply, Commit
  <2> QED BY <2>1, <2>2 DEF Moved
<1> QED BY <1>1, <1>2, <1>3, PTL DEF Spec, CorrectionNeverReopens

-----------------------------------------------------------------------------
(***************************************************************************)
(* The queue implements OrderDispatch.  What an abstract step needs beyond *)
(* the invariant: a driver has one entry that is in the line or on a job,  *)
(* one request for an order, and none for an order it has said no to.      *)
(***************************************************************************)
Standing(row) == row.status \in LiveEntryStatuses /\ ~row.deleted

OneEntry(t) ==
    \A e, f \in Entries :
        (Standing(t.entry[e]) /\ Standing(t.entry[f])
            /\ t.entry[e].driver = t.entry[f].driver) => e = f

OneAnswer(t) ==
    \A r, q \in t.requests : (r.driver = q.driver /\ r.order = q.order) => r = q

Unsaid(t) == \A r \in t.requests : ~Refused(t, r.driver, r.order)

Ordered(t) == \A r \in t.requests : t.order[r.order] # NoStatus

Tidy(t) == OneAnswer(t) /\ Unsaid(t) /\ Ordered(t)

\* The pass offers an order that was placed, to a driver that did not say no to it.
FrontMayBeAsked(t, pass) ==
    pass.at = "offer" =>
        /\ t.order[pass.order] # NoStatus
        /\ ~Refused(t, t.entry[pass.front].driver, pass.order)

AnswersInv == OneEntry(tables) /\ Tidy(tables) /\ FrontMayBeAsked(tables, sweep)

-----------------------------------------------------------------------------
(***************************************************************************)
(* An update that is about one order: no other order is looked at, nobody  *)
(* is brought back, and what was said stays said.                          *)
(***************************************************************************)
Akin(row, new) ==
    /\ new.driver = row.driver /\ new.status = row.status
    /\ new.order = row.order /\ new.deleted = row.deleted

NoneComes(t, u) ==
    \A e \in Entries : Standing(u.entry[e]) =>
        Standing(t.entry[e]) /\ u.entry[e].driver = t.entry[e].driver

RowsAbout(t, u, o) ==
    \A e \in Entries :
        Akin(t.entry[e], u.entry[e]) \/ (OnlyFor(t.entry[e], o) /\ OnlyFor(u.entry[e], o))

SaidAbout(t, u, o) ==
    /\ Said(t) \subseteq Said(u)
    /\ \A d \in Drivers, p \in Orders : <<d, p>> \in Said(u) => <<d, p>> \in Said(t) \/ p = o

About(t, u, o) ==
    /\ \A p \in Orders : p # o => u.order[p] = t.order[p]
    /\ NoneComes(t, u) /\ RowsAbout(t, u, o) /\ SaidAbout(t, u, o)
    /\ \A r \in u.requests : r.order # o => r \in t.requests
    /\ Tidy(t) => Tidy(u)

LEMMA AboutTwice ==
    ASSUME NEW t, NEW u, NEW v, NEW o, About(t, u, o), About(u, v, o)
    PROVE  About(t, v, o)
<1>1. NoneComes(t, v)
  BY DEF About, NoneComes
<1>2. RowsAbout(t, v, o)
  <2> SUFFICES ASSUME NEW e \in Entries
               PROVE  \/ Akin(t.entry[e], v.entry[e])
                      \/ OnlyFor(t.entry[e], o) /\ OnlyFor(v.entry[e], o)
    BY DEF RowsAbout
  <2>1. /\ \/ Akin(t.entry[e], u.entry[e])
           \/ OnlyFor(t.entry[e], o) /\ OnlyFor(u.entry[e], o)
        /\ \/ Akin(u.entry[e], v.entry[e])
           \/ OnlyFor(u.entry[e], o) /\ OnlyFor(v.entry[e], o)
    BY DEF About, RowsAbout
  <2> QED BY <2>1 DEF Akin, OnlyFor, Holding
<1>3. SaidAbout(t, v, o)
  BY DEF About, SaidAbout
<1>4. /\ \A p \in Orders : p # o => v.order[p] = t.order[p]
      /\ \A r \in v.requests : r.order # o => r \in t.requests
      /\ Tidy(t) => Tidy(v)
  BY DEF About
<1> QED BY <1>1, <1>2, <1>3, <1>4 DEF About

LEMMA AboutItself ==
    ASSUME NEW t, NEW o
    PROVE  About(t, t, o)
BY DEF About, NoneComes, RowsAbout, SaidAbout, Akin

\* Nobody comes, so nobody has two entries.
LEMMA NoneComesTwice ==
    ASSUME NEW t, NEW u, NoneComes(t, u), OneEntry(t)
    PROVE  OneEntry(u)
BY DEF NoneComes, OneEntry

-----------------------------------------------------------------------------
(***************************************************************************)
(* What the updates of QueueTables are about.                              *)
(***************************************************************************)
\* An update of the entries alone.
LEMMA RowsOnly ==
    ASSUME NEW t, NEW u, NEW o, NoneComes(t, u), RowsAbout(t, u, o),
           u.order = t.order, u.requests = t.requests,
           u.declined = t.declined, u.calledOff = t.calledOff
    PROVE  About(t, u, o)
BY DEF About, SaidAbout, Said, Tidy, OneAnswer, Unsaid, Ordered, Refused

\* Nothing the drivers, the orders or the requests can tell.
LEMMA NothingSeen ==
    ASSUME NEW t, NEW u, NEW o, \A e \in Entries : Akin(t.entry[e], u.entry[e]),
           u.order = t.order, u.requests = t.requests,
           u.declined = t.declined, u.calledOff = t.calledOff
    PROVE  About(t, u, o)
<1>1. NoneComes(t, u) /\ RowsAbout(t, u, o)
  BY DEF NoneComes, RowsAbout, Akin, Standing
<1> QED BY <1>1, RowsOnly

LEMMA ChargeAbout ==
    ASSUME NEW N \in Nat, NEW t \in TablesUpTo(N), NEW e, NEW count, NEW back, NEW o
    PROVE  About(t, ChargeRefusal(t, e, count, back), o)
<1> DEFINE u == ChargeRefusal(t, e, count, back)
<1>1. u.declined = t.declined /\ u.calledOff = t.calledOff
  BY DEF ChargeRefusal, TablesUpTo
<1>2. /\ \A f \in Entries : Akin(t.entry[f], u.entry[f])
      /\ u.order = t.order /\ u.requests = t.requests
  BY ChargeRows DEF Akin
<1> HIDE DEF u
<1>3. About(t, u, o)
  BY <1>1, <1>2, NothingSeen
<1> QED BY <1>3 DEF u

\* An entry that has an order, if any, lets it go and does not come back.
LEMMA CloseAbout ==
    ASSUME NEW N \in Nat, NEW t \in TablesUpTo(N), NEW e \in Entries, NEW status, NEW o,
           OnlyFor(t.entry[e], o)
    PROVE  About(t, CloseEntry(t, e, status), o)
<1> DEFINE u == CloseEntry(t, e, status)
<1>1. /\ u.entry[e].deleted = TRUE /\ \A f \in Entries : f # e => u.entry[f] = t.entry[f]
      /\ u.order = t.order /\ u.requests = t.requests
      /\ u.declined = t.declined /\ u.calledOff = t.calledOff
  BY DEF CloseEntry, TablesUpTo, RowUpTo
<1> HIDE DEF u
<1>2. NoneComes(t, u) /\ RowsAbout(t, u, o)
  BY <1>1 DEF NoneComes, RowsAbout, Akin, Standing, OnlyFor, Holding
<1>3. About(t, u, o)
  BY <1>1, <1>2, RowsOnly
<1> QED BY <1>3 DEF u

LEMMA ReturnAbout ==
    ASSUME NEW N \in Nat, NEW t \in TablesUpTo(N), NEW e \in Entries,
           NEW status \in OfferableStatuses, NEW o, OnlyFor(t.entry[e], o), Standing(t.entry[e])
    PROVE  About(t, ReturnToLine(t, e, status), o)
<1> DEFINE u == ReturnToLine(t, e, status)
           row == Relinked(t.entry[e], status, None)
<1>1. t.entry[e] \in RowUpTo(N) /\ t.entry \in [Entries -> RowUpTo(N)]
  BY DEF TablesUpTo
<1>2. row.driver = t.entry[e].driver /\ row.status = status /\ row.deleted = t.entry[e].deleted
  BY <1>1, RelinkedRow
<1>3. u = [t EXCEPT !.entry[e] = row]
  BY DEF ReturnToLine, Relinked, TablesUpTo
<1> HIDE DEF row, u
<1>4. /\ u.entry[e] = row /\ \A f \in Entries : f # e => u.entry[f] = t.entry[f]
      /\ u.order = t.order /\ u.requests = t.requests
      /\ u.declined = t.declined /\ u.calledOff = t.calledOff
  BY <1>1, <1>3 DEF TablesUpTo
<1>5. ~Holding(row)
  BY <1>2 DEF Holding, HoldingStatuses, JobStatuses, OfferableStatuses, Waiting, Requested,
         NoAnswer, Agreed, GoToLoadingPlace, Loading, Loaded, JourneyStarted,
         CancelledBeforeAccept
<1>6. NoneComes(t, u)
  BY <1>2, <1>4 DEF NoneComes
<1>7. RowsAbout(t, u, o)
  BY <1>4, <1>5 DEF RowsAbout, Akin, OnlyFor
<1>8. About(t, u, o)
  BY <1>4, <1>6, <1>7, RowsOnly
<1> QED BY <1>8 DEF u

\* Requests for the order end with their drivers noted.
LEMMA EndAbout ==
    ASSUME NEW t, NEW u, NEW o, NEW gone \in SUBSET t.requests,
           \A r \in t.requests : r.driver \in Drivers /\ r.order \in Orders,
           \A r \in gone : r.order = o,
           u.entry = t.entry, u.order = t.order, u.requests = t.requests \ gone,
           Said(u) = Said(t) \cup {<<r.driver, r.order>> : r \in gone}
    PROVE  About(t, u, o)
<1>1. NoneComes(t, u) /\ RowsAbout(t, u, o)
  BY DEF NoneComes, RowsAbout, Akin, Standing
<1>2. SaidAbout(t, u, o)
  BY DEF SaidAbout
<1>3. ASSUME Tidy(t) PROVE Tidy(u)
  <2>1. OneAnswer(u) /\ Ordered(u)
    BY <1>3 DEF Tidy, OneAnswer, Ordered
  <2>2. ASSUME NEW r \in u.requests PROVE ~Refused(u, r.driver, r.order)
    <3> SUFFICES ASSUME <<r.driver, r.order>> \in Said(u) PROVE FALSE
      BY DEF Refused, Said
    <3>1. r \in t.requests /\ r \notin gone /\ <<r.driver, r.order>> \notin Said(t)
      BY <1>3, <2>2 DEF Tidy, Unsaid, Refused, Said
    <3>2. PICK q \in gone : <<r.driver, r.order>> = <<q.driver, q.order>>
      BY <3>1
    <3>3. r = q
      BY <1>3, <3>1, <3>2 DEF Tidy, OneAnswer
    <3> QED BY <3>1, <3>3
  <2> QED BY <2>1, <2>2 DEF Tidy, Unsaid
<1> QED BY <1>1, <1>2, <1>3 DEF About

LEMMA DeclineAbout ==
    ASSUME NEW N \in Nat, NEW t \in TablesUpTo(N), NEW o, NEW gone \in SUBSET t.requests,
           \A r \in gone : r.order = o
    PROVE  /\ About(t, Decline(t, gone), o)
           /\ Said(Decline(t, gone)) = Said(t) \cup {<<r.driver, r.order>> : r \in gone}
<1> DEFINE u == Decline(t, gone)
<1>1. /\ u.entry = t.entry /\ u.order = t.order /\ u.requests = t.requests \ gone
      /\ u.declined = t.declined \cup {<<r.driver, r.order>> : r \in gone}
      /\ u.calledOff = t.calledOff
  BY DEF Decline, TablesUpTo
<1>2. \A r \in t.requests : r.driver \in Drivers /\ r.order \in Orders
  BY DEF TablesUpTo, Request
<1> HIDE DEF u
<1>3. Said(u) = Said(t) \cup {<<r.driver, r.order>> : r \in gone}
  BY <1>1 DEF Said
<1>4. About(t, u, o)
  BY <1>1, <1>2, <1>3, EndAbout
<1> QED BY <1>3, <1>4 DEF u

LEMMA CallOffAbout ==
    ASSUME NEW N \in Nat, NEW t \in TablesUpTo(N), NEW o, NEW gone \in SUBSET t.requests,
           \A r \in gone : r.order = o
    PROVE  /\ About(t, CallOff(t, gone), o)
           /\ Said(CallOff(t, gone)) = Said(t) \cup {<<r.driver, r.order>> : r \in gone}
<1> DEFINE u == CallOff(t, gone)
<1>1. /\ u.entry = t.entry /\ u.order = t.order /\ u.requests = t.requests \ gone
      /\ u.calledOff = t.calledOff \cup {<<r.driver, r.order>> : r \in gone}
      /\ u.declined = t.declined
  BY DEF CallOff, TablesUpTo
<1>2. \A r \in t.requests : r.driver \in Drivers /\ r.order \in Orders
  BY DEF TablesUpTo, Request
<1> HIDE DEF u
<1>3. Said(u) = Said(t) \cup {<<r.driver, r.order>> : r \in gone}
  BY <1>1 DEF Said
<1>4. About(t, u, o)
  BY <1>1, <1>2, <1>3, EndAbout
<1> QED BY <1>3, <1>4 DEF u

\* The order alone.
LEMMA OrderOnly ==
    ASSUME NEW t, NEW u, NEW o, u.entry = t.entry, u.requests = t.requests,
           Said(u) = Said(t), \A p \in Orders : p # o => u.order[p] = t.order[p],
           u.order[o] # NoStatus,
           \A r \in t.requests : r.order \in Orders
    PROVE  About(t, u, o)
<1>1. NoneComes(t, u) /\ RowsAbout(t, u, o)
  BY DEF NoneComes, RowsAbout, Akin, Standing
<1>2. SaidAbout(t, u, o)
  BY DEF SaidAbout
<1>3. Tidy(t) => Tidy(u)
  BY DEF Tidy, OneAnswer, Unsaid, Ordered, Refused, Said
<1> QED BY <1>1, <1>2, <1>3 DEF About

\* The order, and some requests for it that move on or are over.
MovesOn(t, u, mine, status) ==
    \A r \in u.requests :
        \/ r \in t.requests \ mine
        \/ r.status = status /\ \E q \in mine : q.driver = r.driver /\ q.order = r.order

LEMMA RequestsMove ==
    ASSUME NEW t, NEW u, NEW o, NoneComes(t, u), RowsAbout(t, u, o),
           t.requests \subseteq Request, u.requests \subseteq Request, Said(u) = Said(t),
           \A p \in Orders : p # o => u.order[p] = t.order[p],
           \A r \in u.requests : r.order = o => u.order[o] # NoStatus,
           NEW mine \in SUBSET t.requests, \A r \in mine : r.order = o,
           NEW status, MovesOn(t, u, mine, status)
    PROVE  About(t, u, o)
<1>1. SaidAbout(t, u, o)
  BY DEF SaidAbout
<1>2. ASSUME NEW r \in u.requests
      PROVE  /\ \E q \in t.requests : q.driver = r.driver /\ q.order = r.order
             /\ r.order # o => r \in t.requests
  BY <1>2 DEF MovesOn
<1>3. ASSUME Tidy(t) PROVE Tidy(u)
  <2>1. Unsaid(u)
    BY <1>2, <1>3 DEF Tidy, Unsaid, Refused, Said
  <2>2. Ordered(u)
    BY <1>2, <1>3 DEF Tidy, Ordered, Request
  <2>3. ASSUME NEW r \in u.requests, NEW q \in u.requests,
               r.driver = q.driver, r.order = q.order
        PROVE  r = q
    <3>1. CASE r \in t.requests \ mine
      <4>1. q \in t.requests \ mine
        BY <1>3, <2>3, <3>1 DEF Tidy, OneAnswer, MovesOn
      <4> QED BY <1>3, <2>3, <3>1, <4>1 DEF Tidy, OneAnswer
    <3>2. CASE r \notin t.requests \ mine
      <4>1. r.status = status /\ \E b \in mine : b.driver = r.driver /\ b.order = r.order
        BY <2>3, <3>2 DEF MovesOn
      <4>2. q \notin t.requests \ mine
        BY <1>3, <2>3, <4>1 DEF Tidy, OneAnswer
      <4>3. q.status = status
        BY <2>3, <4>2 DEF MovesOn
      <4>4. r \in Request /\ q \in Request
        BY <2>3
      <4> QED BY <2>3, <4>1, <4>3, <4>4 DEF Request
    <3> QED BY <3>1, <3>2
  <2> QED BY <2>1, <2>2, <2>3 DEF Tidy, OneAnswer
<1> QED BY <1>1, <1>2, <1>3 DEF About

\* Some requests for the order are over, with nothing said.
LEMMA RequestsEnd ==
    ASSUME NEW t, NEW u, NEW o, u.entry = t.entry, t.requests \subseteq Request,
           NEW gone \in SUBSET t.requests, \A r \in gone : r.order = o,
           u.requests = t.requests \ gone, Said(u) = Said(t),
           \A p \in Orders : p # o => u.order[p] = t.order[p],
           u.order[o] # NoStatus
    PROVE  About(t, u, o)
<1>1. NoneComes(t, u) /\ RowsAbout(t, u, o)
  BY DEF NoneComes, RowsAbout, Akin, Standing
<1>2. MovesOn(t, u, gone, Waiting)
  BY DEF MovesOn
<1> QED BY <1>1, <1>2, RequestsMove

LEMMA OfferedSaid ==
    ASSUME NEW N \in Nat, NEW t \in TablesUpTo(N), NEW o, NEW e
    PROVE  Said(Offer(t, o, e)) = Said(t)
<1> DEFINE s == ReleaseRetained(t, o, e)
<1>1. s.declined = t.declined /\ s.calledOff = t.calledOff
  BY DEF ReleaseRetained, TablesUpTo
<1>2. Offer(t, o, e).declined = s.declined /\ Offer(t, o, e).calledOff = s.calledOff
  BY DEF Offer, ReleaseRetained, TablesUpTo
<1> QED BY <1>1, <1>2 DEF Said

\* An entry that is being asked for the order.
Asks(t, e, o) == Holding(t.entry[e]) /\ t.entry[e].status = Requested /\ t.entry[e].order = o

\* The order is with nobody, or somebody is being asked.
PassedOn(t, o) ==
    \/ t.order[o] = Waiting
    \/ t.order[o] = Requested /\ \E e \in Entries : Asks(t, e, o)

LEMMA OfferAbout ==
    ASSUME NEW N \in Nat, NEW t \in TablesUpTo(N), NEW o \in Orders, NEW e \in Entries,
           Open(t, o), Live(t, e), t.entry[e].status \in OfferableStatuses,
           ~Refused(t, t.entry[e].driver, o), CanTakeRequest(t, t.entry[e].driver)
    PROVE  /\ About(t, Offer(t, o, e), o) /\ Said(Offer(t, o, e)) = Said(t)
           /\ PassedOn(Offer(t, o, e), o)
<1> DEFINE u == Offer(t, o, e)
           d == t.entry[e].driver
<1>1. Offered(t, u, o, e) /\ Said(u) = Said(t)
  BY OfferRows, OfferedSaid
<1> HIDE DEF u
<1>2. t.entry \in [Entries -> RowUpTo(N)]
  BY DEF TablesUpTo
<1>3. /\ u.entry[e].status = Requested /\ u.entry[e].order = o /\ ~u.entry[e].deleted
      /\ u.entry[e].driver = d
  BY <1>1, <1>2, RelinkedRow DEF Offered, Live
<1>4. Standing(t.entry[e]) /\ ~Holding(t.entry[e])
  BY DEF Live, Standing, Holding, LiveEntryStatuses, InQueueStatuses, HoldingStatuses,
         JobStatuses, OfferableStatuses, Waiting, Requested, NoAnswer, Agreed,
         GoToLoadingPlace, Loading, Loaded, JourneyStarted, CancelledBeforeAccept
<1>5. ASSUME NEW f \in Retained(t, o, e)
      PROVE  /\ f \in Entries /\ OnlyFor(t.entry[f], o) /\ Standing(t.entry[f])
             /\ ~Holding(u.entry[f]) /\ u.entry[f].driver = t.entry[f].driver
  <2>1. f \in Entries /\ t.entry[f].order = o /\ Live(t, f) /\ t.entry[f].status = NoAnswer
    BY DEF Retained, HoldersIn
  <2>2. /\ u.entry[f].status = CancelledBeforeAccept
        /\ u.entry[f].driver = t.entry[f].driver
    BY <1>1, <1>2, <2>1, RelinkedRow DEF Offered
  <2>3. ~Holding(u.entry[f])
    BY <2>2 DEF Holding, HoldingStatuses, JobStatuses, Requested, NoAnswer, Agreed,
                GoToLoadingPlace, Loading, Loaded, JourneyStarted, CancelledBeforeAccept
  <2>4. Standing(t.entry[f])
    BY <2>1 DEF Live, Standing, LiveEntryStatuses, InQueueStatuses
  <2> QED BY <2>1, <2>2, <2>3, <2>4 DEF OnlyFor
<1>6. \A f \in Entries : (f # e /\ f \notin Retained(t, o, e)) => u.entry[f] = t.entry[f]
  BY <1>1 DEF Offered
<1>7. NoneComes(t, u)
  BY <1>3, <1>4, <1>5, <1>6 DEF NoneComes
<1>8. RowsAbout(t, u, o)
  BY <1>3, <1>4, <1>5, <1>6 DEF RowsAbout, Akin, OnlyFor
<1>9. SaidAbout(t, u, o)
  BY <1>1 DEF SaidAbout
<1>10. /\ u.requests = t.requests \cup {Asking(d, o)}
       /\ u.order[o] = Requested /\ \A p \in Orders : p # o => u.order[p] = t.order[p]
  BY <1>1 DEF Offered
<1>11. Asking(d, o).driver = d /\ Asking(d, o).order = o
  BY DEF Asking
<1>12. ASSUME NEW r \in t.requests, r.driver = d, r.order = o PROVE FALSE
  <2>1. Abandoned(t, r) \/ Stray(r)
    BY <1>12 DEF Open, Rest
  <2>2. ~Abandoned(t, r)
    BY <1>12 DEF Open, Abandoned
  <2> QED BY <1>12, <2>1, <2>2 DEF Stray, CanTakeRequest, GuardedStatuses
<1>13. ASSUME Tidy(t) PROVE Tidy(u)
  <2>1. OneAnswer(u)
    BY <1>10, <1>11, <1>12, <1>13 DEF Tidy, OneAnswer
  <2>2. \A r \in u.requests : ~Refused(t, r.driver, r.order)
    BY <1>10, <1>11, <1>13 DEF Tidy, Unsaid
  <2>3. Unsaid(u)
    BY <1>1, <2>2 DEF Unsaid, Refused, Said
  <2>4. ASSUME NEW r \in u.requests PROVE u.order[r.order] # NoStatus
    <3>1. CASE r.order = o
      BY <1>10, <3>1 DEF Requested, NoStatus
    <3>2. CASE r.order # o
      <4>1. r \in t.requests /\ r.order \in Orders
        BY <1>10, <1>11, <3>2 DEF TablesUpTo, Request
      <4> QED BY <1>10, <1>13, <3>2, <4>1 DEF Tidy, Ordered
    <3> QED BY <3>1, <3>2
  <2> QED BY <2>1, <2>3, <2>4 DEF Tidy, Ordered
<1>14. \A r \in u.requests : r.order # o => r \in t.requests
  BY <1>10, <1>11
<1>15. About(t, u, o)
  BY <1>7, <1>8, <1>9, <1>10, <1>13, <1>14 DEF About
<1>16. PassedOn(u, o)
  BY <1>3, <1>10 DEF PassedOn, Asks, Holding, HoldingStatuses
<1> QED BY <1>1, <1>15, <1>16 DEF u

LEMMA FifoAbout ==
    ASSUME NEW N \in Nat, NEW t \in TablesUpTo(N), NEW o \in Orders, NEW excluded,
           Open(t, o), Takers(t, o, excluded) # {}
    PROVE  /\ About(t, OfferFifo(t, o, excluded), o)
           /\ Said(OfferFifo(t, o, excluded)) = Said(t)
           /\ PassedOn(OfferFifo(t, o, excluded), o)
<1> DEFINE e == FrontEntry(t, o, excluded)
<1>1. e \in Takers(t, o, excluded)
  BY FrontIsTaker
<1>2. OfferFifo(t, o, excluded) = Offer(t, o, e)
  BY DEF OfferFifo
<1> HIDE DEF e
<1>3. /\ e \in Entries /\ Live(t, e) /\ t.entry[e].status \in OfferableStatuses
      /\ ~Refused(t, t.entry[e].driver, o) /\ CanTakeRequest(t, t.entry[e].driver)
  BY <1>1 DEF Takers
<1> QED BY <1>2, <1>3, OfferAbout

\* An order nobody holds is offered on, or waits.
LEMMA NextAbout ==
    ASSUME NEW N \in Nat, NEW t \in TablesUpTo(N), NEW o \in Orders, NEW d,
           Open(t, o), Holders(t, o) = {}
    PROVE  /\ About(t, OfferToNextDriver(t, o, d), o)
           /\ Said(OfferToNextDriver(t, o, d)) = Said(t)
           /\ PassedOn(OfferToNextDriver(t, o, d), o)
<1>1. CASE Takers(t, o, {d}) # {}
  BY <1>1, FifoAbout DEF OfferToNextDriver
<1>2. CASE Takers(t, o, {d}) = {}
  <2> DEFINE u == [t EXCEPT !.order[o] = Waiting]
  <2>1. OfferToNextDriver(t, o, d) = u
    BY <1>2 DEF OfferToNextDriver, ResetToWaitingIfUnheld
  <2>2. /\ u.entry = t.entry /\ u.requests = t.requests /\ u.order[o] = Waiting
        /\ \A p \in Orders : p # o => u.order[p] = t.order[p]
        /\ Said(u) = Said(t)
    BY DEF TablesUpTo, Said
  <2>3. \A r \in t.requests : r.order \in Orders
    BY DEF TablesUpTo, Request
  <2> HIDE DEF u
  <2>4. About(t, u, o)
    BY <2>2, <2>3, OrderOnly DEF Waiting, NoStatus
  <2> QED BY <2>1, <2>2, <2>4 DEF PassedOn
<1> QED BY <1>1, <1>2

\* The re-dispatch finds nothing to do, or passes one pending order on.
LEMMA RescanAbout ==
    ASSUME NEW N \in Nat, NEW t \in TablesUpTo(N), Matched(t, {})
    PROVE  \/ RescanPendingOrder(t) = t
           \/ \E o \in Orders :
                 /\ Open(t, o) /\ t.order[o] \in {Waiting, Requested}
                 /\ About(t, RescanPendingOrder(t), o)
                 /\ Said(RescanPendingOrder(t)) = Said(t)
                 /\ PassedOn(RescanPendingOrder(t), o)
<1> DEFINE served == {o \in PendingOrders(t) : Takers(t, o, {}) # {}}
           o == Min(served)
<1>1. CASE served = {}
  BY <1>1 DEF RescanPendingOrder
<1>2. CASE served # {}
  <2>1. served \subseteq Nat
    BY BoundsAssumption DEF PendingOrders, Orders
  <2>2. o \in served
    <3> HIDE DEF served
    <3> QED BY <1>2, <2>1, MinIn
  <2>3. o \in PendingOrders(t) /\ Takers(t, o, {}) # {}
    BY <2>2
  <2>4. RescanPendingOrder(t) = OfferFifo(t, o, {})
    BY <1>2 DEF RescanPendingOrder
  <2> HIDE DEF o
  <2>5. o \in Orders /\ Open(t, o) /\ t.order[o] \in {Waiting, Requested}
    BY <2>3, PendingIsOpen DEF PendingOrders
  <2> QED BY <2>3, <2>4, <2>5, FifoAbout
<1> QED BY <1>1, <1>2

-----------------------------------------------------------------------------
(***************************************************************************)
(* The stage of an order and the driver it is with, in given tables.       *)
(***************************************************************************)
StageIn(t, o) ==
    IF t.order[o] = NoStatus THEN "unplaced"
    ELSE IF t.order[o] \in ClosedOrderStatuses THEN "closed"
    ELSE IF HoldersIn(t, o, JobStatuses) # {} THEN "engaged"
    ELSE IF Holders(t, o) # {} THEN "asked" ELSE "open"

DriverIn(t, o) ==
    IF StageIn(t, o) \in {"asked", "engaged"}
    THEN t.entry[CHOOSE e \in Holders(t, o) : TRUE].driver
    ELSE None

Stages(t) == [o \in Orders |-> StageIn(t, o)]
With(t) == [o \in Orders |-> DriverIn(t, o)]

LEMMA StagesNow ==
    /\ [o \in Orders |-> StageOf(o)] = Stages(tables)
    /\ [o \in Orders |-> DriverOf(o)] = With(tables)
<1>1. NoStatus \notin ClosedOrderStatuses
  BY DEF NoStatus, ClosedOrderStatuses, JourneyCompleted, CancelledByShipper, CancelledByAdmin
<1>2. \A o : StageOf(o) = StageIn(tables, o)
  BY <1>1 DEF StageOf, StageIn
<1>3. \A o : DriverOf(o) = DriverIn(tables, o)
  BY <1>2 DEF DriverOf, DriverIn
<1> QED BY <1>2, <1>3 DEF Stages, With

LEMMA StagesNext ==
    /\ [o \in Orders |-> StageOf(o)]' = Stages(tables')
    /\ [o \in Orders |-> DriverOf(o)]' = With(tables')
<1>1. NoStatus \notin ClosedOrderStatuses
  BY DEF NoStatus, ClosedOrderStatuses, JourneyCompleted, CancelledByShipper, CancelledByAdmin
<1>2. \A o : (StageOf(o))' = StageIn(tables', o)
  BY <1>1 DEF StageOf, StageIn
<1>3. \A o : (DriverOf(o))' = DriverIn(tables', o)
  BY <1>2 DEF DriverOf, DriverIn
<1> QED BY <1>2, <1>3 DEF Stages, With

\* Of an order under way the one holder says both.
LEMMA HeldStage ==
    ASSUME NEW t, NEW o \in Orders, Whole(t), NEW e \in Entries,
           Holding(t.entry[e]), t.entry[e].order = o,
           t.order[o] \notin {NoStatus} \cup ClosedOrderStatuses
    PROVE  /\ StageIn(t, o) = IF t.entry[e].status \in JobStatuses THEN "engaged" ELSE "asked"
           /\ DriverIn(t, o) = t.entry[e].driver
           /\ Holders(t, o) = {e}
<1>1. e \in Holders(t, o) /\ \A f \in Holders(t, o) : f = e
  BY HoldersAre DEF Whole
<1>2. Holders(t, o) = {e}
  BY <1>1
<1>3. (CHOOSE f \in Holders(t, o) : TRUE) = e
  BY <1>1
<1>4. HoldersIn(t, o, JobStatuses) # {} <=> t.entry[e].status \in JobStatuses
  <2>1. \A f \in HoldersIn(t, o, JobStatuses) :
           f \in Holders(t, o) /\ t.entry[f].status \in JobStatuses
    BY DEF Holders, HoldersIn, HoldingStatuses
  <2>2. t.entry[e].status \in JobStatuses => e \in HoldersIn(t, o, JobStatuses)
    BY <1>1 DEF Holders, HoldersIn
  <2> QED BY <1>1, <2>1, <2>2
<1> QED BY <1>2, <1>3, <1>4 DEF StageIn, DriverIn

LEMMA UnheldStage ==
    ASSUME NEW t, NEW o, Holders(t, o) = {} \/ t.order[o] \in {NoStatus} \cup ClosedOrderStatuses
    PROVE  /\ DriverIn(t, o) = None
           /\ StageIn(t, o) = IF t.order[o] = NoStatus THEN "unplaced"
                              ELSE IF t.order[o] \in ClosedOrderStatuses THEN "closed" ELSE "open"
<1>1. Holders(t, o) = {} => HoldersIn(t, o, JobStatuses) = {}
  BY DEF Holders, HoldersIn, HoldingStatuses
<1> QED BY <1>1 DEF StageIn, DriverIn

\* What an update is not about shows no difference.
SameFace(t, u, o) == StageIn(u, o) = StageIn(t, o) /\ DriverIn(u, o) = DriverIn(t, o)

LEMMA SameHolders ==
    ASSUME NEW t, NEW u, NEW p, u.order[p] = t.order[p],
           \A e \in Entries : \/ Akin(t.entry[e], u.entry[e])
                              \/ /\ ~(Holding(t.entry[e]) /\ t.entry[e].order = p)
                                 /\ ~(Holding(u.entry[e]) /\ u.entry[e].order = p)
    PROVE  SameFace(t, u, p)
<1>1. Holders(u, p) = Holders(t, p) /\ \A e \in Holders(t, p) : Akin(t.entry[e], u.entry[e])
  <2>1. \A e : e \in Holders(u, p) <=> e \in Holders(t, p)
    BY HoldersAre DEF Akin, Holding
  <2>2. \A e \in Holders(t, p) : Akin(t.entry[e], u.entry[e])
    BY HoldersAre
  <2> QED BY <2>1, <2>2
<1>2. \A v : HoldersIn(v, p, JobStatuses) = {e \in Holders(v, p) : v.entry[e].status \in JobStatuses}
  BY DEF Holders, HoldersIn, HoldingStatuses
<1>3. HoldersIn(u, p, JobStatuses) = HoldersIn(t, p, JobStatuses)
  BY <1>1, <1>2 DEF Akin
<1>4. StageIn(u, p) = StageIn(t, p)
  BY <1>1, <1>3 DEF StageIn
<1>5. ASSUME Holders(t, p) # {}
      PROVE  u.entry[CHOOSE e \in Holders(t, p) : TRUE].driver
                = t.entry[CHOOSE e \in Holders(t, p) : TRUE].driver
  BY <1>1, <1>5 DEF Akin
<1>6. StageIn(t, p) \in {"asked", "engaged"} => Holders(t, p) # {}
  BY <1>2 DEF StageIn
<1>7. DriverIn(u, p) = DriverIn(t, p)
  BY <1>1, <1>4, <1>5, <1>6 DEF DriverIn
<1> QED BY <1>4, <1>7 DEF SameFace

LEMMA OthersSame ==
    ASSUME NEW t, NEW u, NEW o, About(t, u, o), NEW p \in Orders, p # o
    PROVE  SameFace(t, u, p)
<1>1. u.order[p] = t.order[p] /\ RowsAbout(t, u, o)
  BY DEF About
<1> QED BY <1>1, SameHolders DEF RowsAbout, OnlyFor

-----------------------------------------------------------------------------
(***************************************************************************)
(* The steps of OrderDispatch.                                             *)
(***************************************************************************)
\* Nothing that OrderDispatch can see.
LEMMA Unseen ==
    ASSUME \A p \in Orders : SameFace(tables, tables', p), Said(tables') = Said(tables)
    PROVE  UNCHANGED Dispatch!vars
<1>1. Stages(tables') = Stages(tables) /\ With(tables') = With(tables)
  BY DEF Stages, With, SameFace
<1> QED BY <1>1, StagesNow, StagesNext DEF Dispatch!vars, Said

LEMMA StageTyped ==
    ASSUME NEW t, NEW o
    PROVE  /\ StageIn(t, o) = "unplaced" <=> t.order[o] = NoStatus
           /\ StageIn(t, o) \in {"asked", "engaged"} =>
                 /\ t.order[o] \notin {NoStatus} \cup ClosedOrderStatuses
                 /\ Holders(t, o) # {}
<1>1. HoldersIn(t, o, JobStatuses) # {} => Holders(t, o) # {}
  BY DEF Holders, HoldersIn, HoldingStatuses
<1> QED BY <1>1 DEF StageIn

\* An order nobody drives for is open or asked for.
LEMMA OpenStage ==
    ASSUME NEW t, NEW o, Open(t, o), t.order[o] # NoStatus
    PROVE  StageIn(t, o) \in {"open", "asked"}
<1>1. NoAnswer \notin JobStatuses
  BY DEF NoAnswer, JobStatuses, Agreed, GoToLoadingPlace, Loading, Loaded, JourneyStarted
<1>2. HoldersIn(t, o, JobStatuses) = {}
  BY <1>1 DEF Open, Holders, HoldersIn, HoldingStatuses
<1> QED BY <1>2 DEF StageIn, Open

\* One order at most shows a difference.
OnlyOne(t, u, o) == \A p \in Orders : p # o => SameFace(t, u, p)

LEMMA AboutOnlyOne ==
    ASSUME NEW t, NEW u, NEW o, About(t, u, o)
    PROVE  OnlyOne(t, u, o)
BY OthersSame DEF OnlyOne

\* The tables as one call after another leaves them.
Sane(t) ==
    /\ t \in TablesUpTo(MaxNumber) /\ Matched(t, {})
    /\ OneEntry(t) /\ Tidy(t)

\* A driver whose entry holds an order holds no other.
LEMMA OneOrderEach ==
    ASSUME NEW t, Sane(t), NEW o \in Orders, NEW p \in Orders, p # o, NEW e \in Holders(t, o)
    PROVE  DriverIn(t, p) # t.entry[e].driver
<1>1. /\ e \in Entries /\ Holding(t.entry[e]) /\ t.entry[e].order = o
      /\ t.entry[e].driver \in Drivers
  <2>1. e \in Entries /\ Holding(t.entry[e]) /\ t.entry[e].order = o
    BY HoldersAre
  <2>2. MaxNumber \in Nat
    BY BoundsAssumption
  <2>3. Live(t, e)
    BY <2>1 DEF Holding, Live, HoldingStatuses, JobStatuses, NoStatus, Requested, NoAnswer,
       Agreed, GoToLoadingPlace, Loading, Loaded, JourneyStarted
  <2> QED BY <2>1, <2>2, <2>3, LiveHasDriver DEF Sane
<1> SUFFICES ASSUME DriverIn(t, p) = t.entry[e].driver PROVE FALSE
  OBVIOUS
<1>2. StageIn(t, p) \in {"asked", "engaged"}
  BY <1>1, DriversAssumption DEF DriverIn
<1>3. PICK f \in Holders(t, p) : TRUE
  BY <1>2, StageTyped
<1>4. f \in Entries /\ Holding(t.entry[f]) /\ t.entry[f].order = p
  BY HoldersAre
<1>5. DriverIn(t, p) = t.entry[f].driver
  BY <1>2, <1>4, StageTyped, HeldStage DEF Sane, Matched
<1>6. \A row : Holding(row) => Standing(row)
  BY DEF Holding, Standing, HoldingStatuses, LiveEntryStatuses, InQueueStatuses
<1>7. e = f
  BY <1>1, <1>4, <1>5, <1>6 DEF Sane, OneEntry
<1> QED BY <1>1, <1>4, <1>7

\* The order is asked of a driver that may be asked, or of nobody.
LEMMA Offers ==
    ASSUME NEW o \in Orders, OnlyOne(tables, tables', o), Sane(tables'), PassedOn(tables', o)
    PROVE  Dispatch!Offered(o)
<1>1. \A p \in Orders : p # o => SameFace(tables, tables', p)
  BY DEF OnlyOne
<1>2. MaxNumber \in Nat /\ tables' \in TablesUpTo(MaxNumber)
  BY BoundsAssumption DEF Sane
<1>3. CASE tables'.order[o] = Waiting
  <2>1. Holders(tables', o) = {}
    BY <1>2, <1>3, HeldOrder DEF Sane
  <2>2. Waiting # NoStatus /\ Waiting \notin ClosedOrderStatuses
    BY DEF Waiting, NoStatus, ClosedOrderStatuses, JourneyCompleted, CancelledByShipper,
           CancelledByAdmin
  <2>3. StageIn(tables', o) = "open" /\ DriverIn(tables', o) = None
    BY <1>3, <2>1, <2>2, UnheldStage
  <2>4. /\ Stages(tables') = [Stages(tables) EXCEPT ![o] = "open"]
        /\ With(tables') = [With(tables) EXCEPT ![o] = None]
    BY <1>1, <2>3 DEF Stages, With, SameFace
  <2> QED BY <2>4, StagesNow, StagesNext DEF Dispatch!Offered
<1>4. CASE tables'.order[o] = Requested /\ \E e \in Entries : Asks(tables', e, o)
  <2>1. PICK e \in Entries : Asks(tables', e, o)
    BY <1>4
  <2> DEFINE d == tables'.entry[e].driver
  <2>2. e \in Holders(tables', o) /\ tables'.entry[e].status = Requested
    BY <2>1, HoldersAre DEF Asks
  <2>3. Requested \notin {NoStatus} \cup ClosedOrderStatuses /\ Requested \notin JobStatuses
    BY DEF Requested, NoStatus, ClosedOrderStatuses, JourneyCompleted, CancelledByShipper,
           CancelledByAdmin, JobStatuses, Agreed, GoToLoadingPlace, Loading, Loaded,
           JourneyStarted
  <2>4. StageIn(tables', o) = "asked" /\ DriverIn(tables', o) = d
    BY <1>4, <2>1, <2>3, HeldStage DEF Asks, Sane, Matched
  <2>5. /\ Stages(tables') = [Stages(tables) EXCEPT ![o] = "asked"]
        /\ With(tables') = [With(tables) EXCEPT ![o] = d]
    BY <1>1, <2>4 DEF Stages, With, SameFace
  <2>6. \A p \in Orders \ {o} : With(tables)[p] # d
    BY <1>1, <2>2, OneOrderEach DEF With, SameFace
  <2>7. d \in Drivers
    <3>1. Live(tables', e)
      BY <2>1 DEF Asks, Holding, Live, Requested, NoStatus
    <3> QED BY <1>2, <3>1, LiveHasDriver
  <2>8. <<d, o>> \notin Said(tables')
    <3>1. Fits(tables', tables'.entry[e])
      BY <2>2 DEF Sane, Matched, Settled
    <3>2. Asking(d, o) \in tables'.requests
      BY <2>1, <3>1 DEF Fits, RequestOf, Stage, Asking, Asks, Requested, NoAnswer, Agreed
    <3>3. Asking(d, o).driver = d /\ Asking(d, o).order = o
      BY DEF Asking
    <3> QED BY <3>2, <3>3 DEF Sane, Tidy, Unsaid, Refused, Said
  <2> HIDE DEF d
  <2> QED BY <2>5, <2>6, <2>7, <2>8, StagesNow, StagesNext DEF Dispatch!Offered, Said
<1> QED BY <1>3, <1>4 DEF PassedOn

\* The order is placed,
LEMMA Places ==
    ASSUME NEW o \in Orders, Dispatch!Offered(o), tables.order[o] = NoStatus,
           Said(tables') = Said(tables)
    PROVE  Dispatch!Next
<1>1. Stages(tables)[o] = "unplaced"
  BY StageTyped DEF Stages
<1> QED BY <1>1, StagesNow DEF Dispatch!Next, Dispatch!Place, Said

\* passed on, from whoever was asked to the next driver,
LEMMA PassesOn ==
    ASSUME NEW o \in Orders, Dispatch!Offered(o),
           StageIn(tables, o) \in {"open", "asked"},
           \/ Said(tables') = Said(tables)
           \/ /\ StageIn(tables, o) = "asked"
              /\ Said(tables') = Said(tables) \cup {<<DriverIn(tables, o), o>>}
    PROVE  Dispatch!Next
<1>1. Stages(tables)[o] = StageIn(tables, o) /\ With(tables)[o] = DriverIn(tables, o)
  BY DEF Stages, With
<1> QED BY <1>1, StagesNow DEF Dispatch!Next, Dispatch!PassOn, Dispatch!SaysNo, Said

\* refused by a driver it is not with any more,
LEMMA Refuses ==
    ASSUME NEW o \in Orders, NEW d \in Drivers, About(tables, tables', o),
           SameFace(tables, tables', o), tables.order[o] # NoStatus,
           StageIn(tables, o) = "engaged" => d # DriverIn(tables, o),
           Said(tables') = Said(tables) \cup {<<d, o>>}
    PROVE  Dispatch!Next
<1>1. \A p \in Orders : SameFace(tables, tables', p)
  BY OthersSame
<1>2. Stages(tables') = Stages(tables) /\ With(tables') = With(tables)
  BY <1>1 DEF Stages, With, SameFace
<1>3. /\ Stages(tables)[o] = StageIn(tables, o) /\ With(tables)[o] = DriverIn(tables, o)
      /\ Stages(tables)[o] # "unplaced"
  BY StageTyped DEF Stages, With
<1>4. Dispatch!Refuse(o)
  BY <1>2, <1>3, StagesNow, StagesNext DEF Dispatch!Refuse, Said
<1> QED BY <1>4 DEF Dispatch!Next

\* taken by the driver that is asked,
LEMMA Takes ==
    ASSUME NEW o \in Orders, About(tables, tables', o), StageIn(tables, o) = "asked",
           <<DriverIn(tables, o), o>> \notin Said(tables), Said(tables') = Said(tables),
           StageIn(tables', o) = "engaged", DriverIn(tables', o) = DriverIn(tables, o)
    PROVE  Dispatch!Next
<1>1. \A p \in Orders : p # o => SameFace(tables, tables', p)
  BY OthersSame
<1>2. Stages(tables') = [Stages(tables) EXCEPT ![o] = "engaged"] /\ With(tables') = With(tables)
  BY <1>1 DEF Stages, With, SameFace
<1>3. Stages(tables)[o] = "asked" /\ With(tables)[o] = DriverIn(tables, o)
  BY DEF Stages, With
<1>4. Dispatch!Accept(o)
  BY <1>2, <1>3, StagesNow, StagesNext DEF Dispatch!Accept, Said
<1> QED BY <1>4 DEF Dispatch!Next

\* given back by the driver that took it,
LEMMA GivesBack ==
    ASSUME NEW o \in Orders, Dispatch!Offered(o), StageIn(tables, o) = "engaged",
           Said(tables') = Said(tables) \cup {<<DriverIn(tables, o), o>>}
    PROVE  Dispatch!Next
<1>1. Stages(tables)[o] = StageIn(tables, o) /\ With(tables)[o] = DriverIn(tables, o)
  BY DEF Stages, With
<1> QED BY <1>1, StagesNow DEF Dispatch!Next, Dispatch!GiveBack, Dispatch!SaysNo, Said

\* or over: delivered, or called off.
LEMMA Closes ==
    ASSUME NEW o \in Orders, About(tables, tables', o), tables.order[o] # NoStatus,
           tables'.order[o] \in ClosedOrderStatuses, Said(tables') \subseteq Drivers \X Orders
    PROVE  Dispatch!Next
<1>1. \A p \in Orders : p # o => SameFace(tables, tables', p)
  BY OthersSame
<1>2. NoStatus \notin ClosedOrderStatuses
  BY DEF NoStatus, ClosedOrderStatuses, JourneyCompleted, CancelledByShipper, CancelledByAdmin
<1>3. StageIn(tables', o) = "closed" /\ DriverIn(tables', o) = None
  BY <1>2, UnheldStage
<1>4. /\ Stages(tables') = [Stages(tables) EXCEPT ![o] = "closed"]
      /\ With(tables') = [With(tables) EXCEPT ![o] = None]
  BY <1>1, <1>3 DEF Stages, With, SameFace
<1>5. Stages(tables)[o] # "unplaced"
  BY StageTyped DEF Stages
<1>6. \E asked \in SUBSET Drivers : Said(tables') = Said(tables) \cup (asked \X {o})
  <2> DEFINE asked == {d \in Drivers : <<d, o>> \in Said(tables')}
  <2>1. /\ Said(tables) \subseteq Said(tables')
        /\ \A d \in Drivers, p \in Orders :
              <<d, p>> \in Said(tables') => <<d, p>> \in Said(tables) \/ p = o
    BY DEF About, SaidAbout
  <2>2. ASSUME NEW x \in Said(tables') PROVE x \in Said(tables) \cup (asked \X {o})
    <3>1. PICK d \in Drivers, p \in Orders : x = <<d, p>>
      BY <2>2
    <3> QED BY <2>1, <2>2, <3>1
  <2>3. Said(tables) \cup (asked \X {o}) \subseteq Said(tables')
    BY <2>1
  <2> QED BY <2>2, <2>3
<1>7. Dispatch!Close(o)
  BY <1>4, <1>5, <1>6, StagesNow, StagesNext DEF Dispatch!Close, Said
<1> QED BY <1>7 DEF Dispatch!Next

-----------------------------------------------------------------------------
(***************************************************************************)
(* Every step of the queue is a step of OrderDispatch, or one it does not  *)
(* see, and keeps what the next one needs.                                 *)
(***************************************************************************)
Conforms == AnswersInv' /\ [Dispatch!Next]_(Dispatch!vars)

LEMMA KeptAnswers ==
    ASSUME AnswersInv, NEW o, About(tables, tables', o), sweep'.at # "offer"
    PROVE  AnswersInv'
<1>1. OneEntry(tables') /\ Tidy(tables')
  BY NoneComesTwice DEF About, AnswersInv
<1> QED BY <1>1 DEF AnswersInv, FrontMayBeAsked

\* A step OrderDispatch does not see.
LEMMA UnseenConforms ==
    ASSUME AnswersInv', \A p \in Orders : SameFace(tables, tables', p),
           Said(tables') = Said(tables)
    PROVE  Conforms
BY Unseen DEF Conforms

\* It is about no order,
LEMMA NoOrderConforms ==
    ASSUME AnswersInv, About(tables, tables', None), sweep'.at # "offer",
           Said(tables') = Said(tables)
    PROVE  Conforms
<1>1. AnswersInv'
  BY KeptAnswers
<1>2. \A p \in Orders : SameFace(tables, tables', p)
  BY OthersSame, OrdersAssumption
<1> QED BY <1>1, <1>2, UnseenConforms

\* or about one that stays as it is.
LEMMA OrderStaysConforms ==
    ASSUME AnswersInv, NEW o, About(tables, tables', o), SameFace(tables, tables', o),
           sweep'.at # "offer", Said(tables') = Said(tables)
    PROVE  Conforms
<1>1. AnswersInv'
  BY KeptAnswers
<1>2. \A p \in Orders : SameFace(tables, tables', p)
  BY OthersSame
<1> QED BY <1>1, <1>2, UnseenConforms

\* A step of OrderDispatch about one order.
LEMMA AboutConforms ==
    ASSUME AnswersInv, NEW o, About(tables, tables', o), sweep'.at # "offer", Dispatch!Next
    PROVE  Conforms
BY KeptAnswers DEF Conforms

\* An order moves on, to the next driver or to nobody.
LEMMA MovesOnOffers ==
    ASSUME AnswersInv, IInv', Matched(tables', {}), sweep'.at # "offer",
           NEW o \in Orders, About(tables, tables', o), PassedOn(tables', o)
    PROVE  Dispatch!Offered(o) /\ AnswersInv'
<1>1. AnswersInv'
  BY KeptAnswers
<1>2. Sane(tables')
  BY <1>1 DEF Sane, AnswersInv, IInv, TablesInv
<1> QED BY <1>1, <1>2, Offers, AboutOnlyOne

\* A check-in is unseen, but for the pending order it passes on.
LEMMA JoinLineConforms ==
    ASSUME IInv, IInv', Matched(tables, {}), Matched(tables', {}), AnswersInv,
           NEW d \in Drivers, NEW shipper \in Reservations, JoinLine(d, shipper),
           InLine(tables, d) = {}, ~HasActiveJourney(tables, d), sweep = SweepIdle
    PROVE  Conforms
<1> DEFINE e == Min(FreeRows)
           number == NextQueueNumber(tables)
           row == [NoRow EXCEPT !.driver = d, !.status = Waiting, !.number = number,
                                !.reserved = shipper]
           joined == [tables EXCEPT !.entry[e] = row]
           M == MaxNumber + 1
<1>1. tables \in TablesUpTo(MaxNumber) /\ MaxNumber \in Nat /\ M \in Nat
  BY TypedNow
<1>2. FreeRows # {} /\ tables' = RescanPendingOrder(joined) /\ sweep' = sweep
  BY DEF JoinLine, Transaction, Commit
<1>3. e \in FreeRows
  <2>1. FreeRows \subseteq Nat
    BY BoundsAssumption DEF FreeRows, Entries
  <2> QED BY <1>2, <2>1, MinIn
<1>4. e \in Entries /\ tables.entry[e].status = NoStatus
  BY <1>3 DEF FreeRows
<1> HIDE DEF e
<1>5. number \in 0..M /\ tables \in TablesUpTo(M)
  BY <1>1, <1>4, NextNumbers, BoundGrows
<1> HIDE DEF number
<1>6. row \in RowUpTo(M) /\ row.status = Waiting /\ row.order = None /\ row.driver = d
  <2>1. shipper \in Shippers \cup {None} /\ 0 \in 0..(RefusalLimit - 1) /\ 0 \in 0..M
    BY <1>1, OperationsAssumption, RefusalAssumption
  <2>2. Waiting \in EntryStatuses
    BY StatusesAreTyped
  <2> QED BY <1>5, <2>1, <2>2 DEF NoRow, RowUpTo
<1> HIDE DEF row, M
<1>7. /\ joined \in TablesUpTo(M) /\ joined.entry[e] = row
      /\ joined.order = tables.order /\ joined.requests = tables.requests
      /\ joined.declined = tables.declined /\ joined.calledOff = tables.calledOff
      /\ \A f \in Entries : f # e => joined.entry[f] = tables.entry[f]
  BY <1>4, <1>5, <1>6 DEF TablesUpTo
<1> HIDE DEF joined
<1>8. ~Holding(tables.entry[e]) /\ ~Holding(joined.entry[e])
  BY <1>4, <1>6, <1>7 DEF Holding, HoldingStatuses, JobStatuses, NoStatus, Waiting, Requested,
     NoAnswer, Agreed, GoToLoadingPlace, Loading, Loaded, JourneyStarted
<1>9. Matched(joined, {})
  <2>1. Holders(joined, None) = {}
    <3>1. \A f \in Entries : f # e => Linked(joined.entry[f])
      BY <1>7 DEF Matched, Whole
    <3>2. \A f \in Entries : Holding(joined.entry[f]) => joined.entry[f].order # None
      BY <1>8, <3>1, OrdersAssumption DEF Linked
    <3> QED BY <3>2, HoldersAre
  <2>2. Local(tables, joined, None)
    BY <1>6, <1>7, <1>8, <2>1 DEF Local, OnlyFor, Alike, Linked
  <2> QED BY <2>2, NoOrderMatches
<1>10. \A p \in Orders : SameFace(tables, joined, p)
  <2> TAKE p \in Orders
  <2>1. \A f \in Entries : \/ Akin(tables.entry[f], joined.entry[f])
                           \/ /\ ~(Holding(tables.entry[f]) /\ tables.entry[f].order = p)
                              /\ ~(Holding(joined.entry[f]) /\ joined.entry[f].order = p)
    BY <1>7, <1>8 DEF Akin
  <2> QED BY <1>7, <2>1, SameHolders
<1>11. OneEntry(joined)
  <2>1. ASSUME NEW f \in Entries, Standing(tables.entry[f]), tables.entry[f].driver = d
        PROVE  FALSE
    <3>1. CASE tables.entry[f].status \in InQueueStatuses
      <4>1. f \in InLine(tables, d)
        BY <2>1, <3>1 DEF InLine, Live, Standing, InQueueStatuses, NoStatus, Waiting, Requested,
           NoAnswer, CancelledBeforeAccept
      <4> QED BY <4>1
    <3>2. CASE tables.entry[f].status \in JobStatuses
      <4>1. Live(tables, f) /\ tables.entry[f].status \in HoldingStatuses
        BY <2>1, <3>2 DEF Standing, Live, HoldingStatuses, JobStatuses, NoStatus, Agreed,
           GoToLoadingPlace, Loading, Loaded, JourneyStarted
      <4>2. Fits(tables, tables.entry[f])
        BY <2>1, <4>1, HolderFits
      <4>3. RequestOf(tables.entry[f]) \in tables.requests
        BY <3>2, <4>2 DEF Fits, JobStatuses, NoAnswer, Agreed, GoToLoadingPlace, Loading, Loaded,
           JourneyStarted
      <4>4. RequestOf(tables.entry[f]).driver = d
        BY <2>1 DEF RequestOf
      <4> QED BY <4>3, <4>4 DEF HasActiveJourney
    <3> QED BY <2>1, <3>1, <3>2 DEF Standing, LiveEntryStatuses
  <2> QED BY <1>6, <1>7, <2>1 DEF AnswersInv, OneEntry
<1>12. Tidy(joined) /\ Said(joined) = Said(tables)
  BY <1>7 DEF AnswersInv, Tidy, OneAnswer, Unsaid, Ordered, Refused, Said
<1>13. sweep'.at # "offer"
  BY <1>2 DEF SweepIdle
<1>14. CASE tables' = joined
  <2>1. AnswersInv'
    BY <1>11, <1>12, <1>13, <1>14 DEF AnswersInv, FrontMayBeAsked
  <2> QED BY <1>10, <1>12, <1>14, <2>1, UnseenConforms
<1>15. ASSUME NEW o \in Orders, Open(joined, o), joined.order[o] \in {Waiting, Requested},
              About(joined, tables', o), Said(tables') = Said(joined), PassedOn(tables', o)
       PROVE  Conforms
  <2>1. OneEntry(tables') /\ Tidy(tables')
    BY <1>11, <1>12, <1>15, NoneComesTwice DEF About
  <2>2. AnswersInv'
    BY <1>13, <2>1 DEF AnswersInv, FrontMayBeAsked
  <2>3. Sane(tables')
    BY <2>1 DEF Sane, IInv, TablesInv
  <2>4. OnlyOne(tables, tables', o)
    BY <1>10, <1>15, OthersSame DEF OnlyOne, SameFace
  <2>5. Dispatch!Offered(o)
    BY <2>3, <2>4, <1>15, Offers
  <2>6. StageIn(joined, o) \in {"open", "asked"}
    BY <1>15, OpenStage DEF Waiting, Requested, NoStatus
  <2>7. StageIn(tables, o) \in {"open", "asked"}
    BY <1>10, <2>6 DEF SameFace
  <2>8. Dispatch!Next
    BY <1>12, <1>15, <2>5, <2>7, PassesOn
  <2> QED BY <2>2, <2>8 DEF Conforms
<1> QED BY <1>1, <1>2, <1>7, <1>9, <1>14, <1>15, RescanAbout

\* An entry has let its order go, and the order goes on to the next driver: the
\* driver that was asked was passed over or said no, the one that had taken it
\* gave it back.
LEMMA HandsOn ==
    ASSUME IInv', Matched(tables, {}), Matched(tables', {}), AnswersInv, sweep' = SweepIdle,
           tables \in TablesUpTo(MaxNumber), MaxNumber \in Nat,
           NEW o \in Orders, NEW e \in Holders(tables, o),
           NEW N \in Nat, NEW u \in TablesUpTo(N), Open(u, o), Holders(u, o) = {},
           About(tables, u, o), NEW d, tables' = OfferToNextDriver(u, o, d),
           \/ Said(u) = Said(tables) /\ tables.entry[e].status \notin JobStatuses
           \/ Said(u) = Said(tables) \cup {<<tables.entry[e].driver, o>>}
    PROVE  Conforms
<1>1. About(u, tables', o) /\ Said(tables') = Said(u) /\ PassedOn(tables', o)
  BY NextAbout
<1>2. About(tables, tables', o)
  BY <1>1, AboutTwice
<1>3. sweep'.at # "offer"
  BY DEF SweepIdle
<1>4. Dispatch!Offered(o) /\ AnswersInv'
  BY <1>1, <1>2, <1>3, MovesOnOffers
<1>5. e \in Entries /\ Holding(tables.entry[e]) /\ tables.entry[e].order = o
  BY HoldersAre
<1>6. tables.order[o] \notin {NoStatus} \cup ClosedOrderStatuses
  BY HeldOrder DEF ActiveOrderStatuses, Waiting, Requested, AcceptedByShipper, NoStatus,
     GoToLoadingPlace, Loading, Loaded, JourneyStarted
<1>7. /\ StageIn(tables, o) = IF tables.entry[e].status \in JobStatuses THEN "engaged" ELSE "asked"
      /\ DriverIn(tables, o) = tables.entry[e].driver
  BY <1>5, <1>6, HeldStage DEF Matched
<1>8. CASE tables.entry[e].status \in JobStatuses
  <2>1. Dispatch!Next
    BY <1>1, <1>4, <1>7, <1>8, GivesBack
  <2> QED BY <1>4, <2>1 DEF Conforms
<1>9. CASE tables.entry[e].status \notin JobStatuses
  <2>1. Dispatch!Next
    BY <1>1, <1>4, <1>7, <1>9, PassesOn
  <2> QED BY <1>4, <2>1 DEF Conforms
<1> QED BY <1>8, <1>9

\* The same after the refusal is charged.
LEMMA ChargedHandsOn ==
    ASSUME IInv', Matched(tables, {}), Matched(tables', {}), AnswersInv, sweep' = SweepIdle,
           tables \in TablesUpTo(MaxNumber), MaxNumber \in Nat,
           NEW o \in Orders, NEW e \in Holders(tables, o),
           NEW u \in TablesUpTo(MaxNumber), LetsGo(tables, u, e, o), u.order = tables.order,
           About(tables, u, o), NEW count \in 0..(RefusalLimit - 1), NEW d,
           tables' = OfferToNextDriver(ApplyRefusal(u, e, count), o, d),
           Said(u) = Said(tables) \cup {<<tables.entry[e].driver, o>>}
    PROVE  Conforms
<1> DEFINE v == ApplyRefusal(u, e, count)
           back == NextQueueNumber(u)
<1>1. e \in Entries
  BY HoldersAre
<1>2. v \in TablesUpTo(MaxNumber + 1) /\ MaxNumber + 1 \in Nat
  BY <1>1, ApplyRefusalKeeps DEF Keeps
<1>3. v = ChargeRefusal(u, e, count, back)
  BY DEF ApplyRefusal
<1> HIDE DEF back
<1>4. /\ \A f \in Entries : Alike(u.entry[f], v.entry[f])
      /\ v.order = u.order /\ v.requests = u.requests
  <2> HIDE DEF v
  <2> QED BY <1>3, ChargeRows DEF Alike
<1>5. About(u, v, o) /\ Said(v) = Said(u)
  <2>1. About(u, v, o)
    <3> HIDE DEF v
    <3> QED BY <1>3, ChargeAbout
  <2>2. Said(v) = Said(u)
    BY <1>3 DEF ChargeRefusal, Said, TablesUpTo
  <2> QED BY <2>1, <2>2
<1> HIDE DEF v
<1>6. LetsGo(tables, v, e, o)
  BY <1>1, <1>4 DEF LetsGo, Alike, Holding, Abandoned
<1>7. Open(v, o) /\ Holders(v, o) = {}
  BY <1>4, <1>6, LetGoOpens
<1>8. About(tables, v, o)
  BY <1>5, AboutTwice
<1> QED BY <1>2, <1>5, <1>7, <1>8, HandsOn DEF v

\* A driver that leaves the line passes its order on; without one nothing is seen.
LEMMA CheckoutConforms ==
    ASSUME IInv, IInv', Matched(tables, {}), Matched(tables', {}), AnswersInv,
           NEW d \in Drivers, Checkout(d), sweep = SweepIdle
    PROVE  Conforms
<1> DEFINE mine == {e \in Entries : Live(tables, e) /\ tables.entry[e].driver = d}
           e == LastInLine(tables, mine)
           o == tables.entry[e].order
           closed == CloseEntry(tables, e, CancelledAfterAccept)
           done == TerminalizeOrderRequest(closed, d, o)
<1>1. tables \in TablesUpTo(MaxNumber) /\ MaxNumber \in Nat
  BY TypedNow
<1>2. /\ mine # {}
      /\ tables.entry[e].status \in JobStatuses => o = None
      /\ tables' = IF tables.entry[e].status \in {Requested, NoAnswer} /\ o # None
                   THEN OfferToNextDriver(done, o, d) ELSE closed
      /\ sweep' = sweep
  BY DEF Checkout, Transaction, Commit
<1>3. e \in mine
  <2>1. mine \subseteq Entries
    OBVIOUS
  <2> HIDE DEF mine
  <2> QED BY <1>1, <1>2, <2>1, LastIn
<1>4. e \in Entries /\ Live(tables, e) /\ tables.entry[e].driver = d
  BY <1>3
<1> HIDE DEF e, mine
<1>5. /\ Freed(tables, closed, e) /\ closed \in TablesUpTo(MaxNumber)
      /\ About(tables, closed, o) /\ Said(closed) = Said(tables)
  <2>1. OnlyFor(tables.entry[e], o)
    BY DEF OnlyFor
  <2>2. About(tables, closed, o)
    BY <1>1, <1>4, <2>1, CloseAbout
  <2>3. Said(closed) = Said(tables)
    BY <1>1 DEF CloseEntry, Said, TablesUpTo
  <2> HIDE DEF o
  <2>4. Freed(tables, closed, e) /\ closed \in TablesUpTo(MaxNumber)
    BY <1>1, <1>4, CloseFrees, CloseEntryKeeps, StatusesAreTyped DEF Keeps
  <2> QED BY <2>2, <2>3, <2>4
<1> HIDE DEF closed
<1>6. CASE Holding(tables.entry[e])
  <2>1. o \in Orders /\ e \in Holders(tables, o)
    BY <1>4, <1>6, HoldersAre DEF Matched, Whole, Linked
  <2>2. tables.entry[e].status \in {Requested, NoAnswer}
    BY <1>2, <1>6, <2>1, OrdersAssumption DEF Holding, HoldingStatuses
  <2>3. tables' = OfferToNextDriver(done, o, d)
    BY <1>2, <2>1, <2>2, OrdersAssumption
  <2>4. tables.entry[e].order = o
    OBVIOUS
  <2> HIDE DEF o
  <2> DEFINE gone == LiveRequests(closed, d, o, {Requested})
  <2>5. /\ done.entry = closed.entry /\ done.order = closed.order
        /\ done.requests = closed.requests \ gone
    BY <1>1, <1>5, DeclineRows DEF TerminalizeOrderRequest
  <2>6. done \in TablesUpTo(MaxNumber)
    BY <1>1, <1>5, TerminalizeKeeps DEF Keeps
  <2>7. RequestOf(tables.entry[e]) \notin done.requests
    <3> DEFINE r == RequestOf(tables.entry[e])
    <3>1. r.driver = d /\ r.order = o /\ r.status = tables.entry[e].status
      BY <1>4, <2>2, <2>4 DEF RequestOf, Stage, Requested, NoAnswer, Agreed
    <3>2. r \in tables.requests => r.status # NoAnswer
      BY <1>1 DEF TablesUpTo, Request, RequestStatuses, ActiveOrderStatuses, NoAnswer, Waiting,
         Requested, AcceptedByShipper, GoToLoadingPlace, Loading, Loaded, JourneyStarted
    <3>3. closed.requests = tables.requests
      BY <1>5 DEF Freed
    <3> HIDE DEF r
    <3> QED BY <2>2, <2>5, <3>1, <3>2, <3>3 DEF LiveRequests, r
  <2>8. LetsGo(tables, done, e, o) /\ done.order = tables.order
    BY <1>5, <2>5, <2>7 DEF Freed, LetsGo, Alike, LiveRequests, Holding
  <2>9. gone \subseteq closed.requests /\ \A r \in gone : r.driver = d /\ r.order = o
    BY DEF LiveRequests
  <2> HIDE DEF gone
  <2>10. /\ About(closed, done, o)
         /\ Said(done) = Said(closed) \cup {<<r.driver, r.order>> : r \in gone}
    BY <1>1, <1>5, <2>9, DeclineAbout DEF TerminalizeOrderRequest, gone
  <2>11. Said(done) = Said(tables) \/ Said(done) = Said(tables) \cup {<<tables.entry[e].driver, o>>}
    BY <1>4, <1>5, <2>9, <2>10
  <2> HIDE DEF done
  <2>12. Open(done, o) /\ Holders(done, o) = {}
    BY <1>1, <2>1, <2>8, LetGoOpens
  <2>13. About(tables, done, o)
    BY <1>5, <2>10, AboutTwice
  <2>14. tables.entry[e].status \notin JobStatuses
    BY <2>2 DEF JobStatuses, Requested, NoAnswer, Agreed, GoToLoadingPlace, Loading, Loaded,
       JourneyStarted
  <2> QED BY <1>1, <1>2, <2>1, <2>3, <2>6, <2>11, <2>12, <2>13, <2>14, HandsOn
<1>7. CASE ~Holding(tables.entry[e])
  <2>1. o = None
    BY <1>4, <1>7 DEF Matched, Whole, Linked
  <2>2. tables' = closed
    BY <1>2, <2>1
  <2>3. sweep'.at # "offer"
    BY <1>2 DEF SweepIdle
  <2> QED BY <1>5, <2>1, <2>2, <2>3, NoOrderConforms
<1> QED BY <1>6, <1>7

LEMMA SaidTyped ==
    ASSUME NEW N, NEW t \in TablesUpTo(N)
    PROVE  Said(t) \subseteq Drivers \X Orders
BY DEF Said, TablesUpTo

\* A driver that gives up its request says no: late, or to the order it has.
LEMMA CancelDriverRequestConforms ==
    ASSUME IInv, IInv', Matched(tables, {}), Matched(tables', {}), AnswersInv,
           NEW r \in tables.requests, CancelDriverRequest(r, TRUE), sweep = SweepIdle
    PROVE  Conforms
<1> DEFINE o == r.order
           ended == Decline(tables, {r})
           asked == {e \in HoldersIn(ended, o, {Requested}) : ended.entry[e].driver = r.driver}
           jobs == HoldersIn(ended, o, JobStatuses)
<1>1. /\ tables \in TablesUpTo(MaxNumber) /\ MaxNumber \in Nat
      /\ o \in Orders /\ r.driver \in Drivers
  BY TypedNow DEF TablesUpTo, Request
<1>2. /\ tables' = IF r.status = Requested THEN RejectOffer(ended, o, asked)
                   ELSE ReleaseAfterDriverCancel(ended, o)
      /\ sweep' = SweepIdle
  BY DEF CancelDriverRequest, Transaction, Commit
<1>3. /\ ended.entry = tables.entry /\ ended.order = tables.order
      /\ ended.requests = tables.requests \ {r} /\ ended \in TablesUpTo(MaxNumber)
  BY <1>1, DeclineRows, DeclineKeeps DEF Keeps
<1>4. About(tables, ended, o) /\ Said(ended) = Said(tables) \cup {<<r.driver, o>>}
  <2>1. {r} \in SUBSET tables.requests /\ \A q \in {r} : q.order = o
    OBVIOUS
  <2>2. /\ About(tables, ended, o)
        /\ Said(ended) = Said(tables) \cup {<<q.driver, q.order>> : q \in {r}}
    BY <1>1, <2>1, DeclineAbout
  <2> QED BY <2>2
<1> HIDE DEF ended
<1>5. ASSUME NEW e \in Holders(tables, o), tables.entry[e].driver = r.driver,
             RequestOf(tables.entry[e]) = r,
             NEW u \in TablesUpTo(MaxNumber), Freed(ended, u, e), About(ended, u, o),
             Said(u) = Said(ended),
             NEW count \in 0..(RefusalLimit - 1), NEW d,
             tables' = OfferToNextDriver(ApplyRefusal(u, e, count), o, d)
      PROVE  Conforms
  <2>1. LetsGo(tables, u, e, o) /\ u.order = tables.order
    BY <1>3, <1>5 DEF Freed, LetsGo, Alike
  <2>2. About(tables, u, o) /\ Said(u) = Said(tables) \cup {<<tables.entry[e].driver, o>>}
    BY <1>4, <1>5, AboutTwice
  <2> QED BY <1>1, <1>2, <1>5, <2>1, <2>2, ChargedHandsOn
<1>6. ASSUME tables' = ended, ~Carried(tables, r)
      PROVE  Conforms
  <2>1. SameFace(tables, ended, o)
    BY <1>3, SameHolders DEF Akin
  <2>2. tables.order[o] # NoStatus
    BY DEF AnswersInv, Tidy, Ordered
  <2>3. ASSUME StageIn(tables, o) = "engaged", DriverIn(tables, o) = r.driver
        PROVE  FALSE
    <3>1. /\ tables.order[o] \notin {NoStatus} \cup ClosedOrderStatuses
          /\ Holders(tables, o) # {}
      BY <2>3, StageTyped
    <3>2. PICK e \in Holders(tables, o) : TRUE
      BY <3>1
    <3>3. e \in Entries /\ Holding(tables.entry[e]) /\ tables.entry[e].order = o
      BY HoldersAre
    <3>4. tables.entry[e].status \in JobStatuses /\ tables.entry[e].driver = r.driver
      BY <1>1, <2>3, <3>1, <3>3, HeldStage DEF Matched
    <3>5. Fits(tables, tables.entry[e])
      BY <1>1, <3>2 DEF Matched, Settled
    <3>6. RequestOf(tables.entry[e]) \in tables.requests
      BY <3>4, <3>5 DEF Fits, JobStatuses, NoAnswer, Agreed, GoToLoadingPlace, Loading, Loaded,
         JourneyStarted
    <3>7. RequestOf(tables.entry[e]).driver = r.driver /\ RequestOf(tables.entry[e]).order = r.order
      BY <3>3, <3>4 DEF RequestOf
    <3>8. RequestOf(tables.entry[e]) = r
      BY <3>6, <3>7 DEF AnswersInv, Tidy, OneAnswer
    <3> QED BY <1>6, <3>2, <3>8 DEF Carried
  <2>4. Dispatch!Next
    BY <1>1, <1>4, <1>6, <2>1, <2>2, <2>3, Refuses
  <2>5. sweep'.at # "offer"
    BY <1>2 DEF SweepIdle
  <2> QED BY <1>4, <1>6, <2>4, <2>5, AboutConforms
<1>7. \A e : e \in Holders(tables, o) <=>
                e \in Entries /\ Holding(tables.entry[e]) /\ tables.entry[e].order = o
  BY HoldersAre
<1>8. \A e \in Entries : Holding(tables.entry[e]) <=>
         Live(tables, e) /\ tables.entry[e].status \in HoldingStatuses
  BY DEF Holding, Live, HoldingStatuses, JobStatuses, NoStatus, Requested,
         NoAnswer, Agreed, GoToLoadingPlace, Loading, Loaded, JourneyStarted
<1>9. CASE r.status = Requested
  <2>1. tables' = RejectOffer(ended, o, asked)
    BY <1>2, <1>9
  <2>2. CASE asked = {}
    <3>1. ~Carried(tables, r)
      <4> SUFFICES ASSUME NEW e \in Holders(tables, o), RequestOf(tables.entry[e]) = r PROVE FALSE
        BY DEF Carried
      <4>1. tables.entry[e].driver = r.driver /\ tables.entry[e].status = Requested
        BY <1>9 DEF RequestOf, Stage, Requested, Agreed, AcceptedByShipper
      <4>2. e \in asked
        BY <1>3, <1>7, <1>8, <4>1 DEF HoldersIn, Live
      <4> QED BY <2>2, <4>2
    <3> QED BY <1>6, <2>1, <2>2, <3>1 DEF RejectOffer
  <2>3. CASE asked # {}
    <3> DEFINE e == FirstInLine(ended, asked)
               u == ReturnToLine(ended, e, CancelledBeforeAccept)
    <3>1. e \in asked
      <4>1. asked \subseteq Entries
        BY DEF HoldersIn
      <4> HIDE DEF asked
      <4> QED BY <1>1, <1>3, <2>3, <4>1, FirstIn
    <3>2. tables' = OfferToNextDriver(ApplyRefusal(u, e, ended.entry[e].refusals), o,
                                      ended.entry[e].driver)
      BY <2>1, <2>3 DEF RejectOffer
    <3> HIDE DEF e
    <3>3. /\ e \in Entries /\ Live(ended, e) /\ ended.entry[e].order = o
          /\ ended.entry[e].status = Requested /\ ended.entry[e].driver = r.driver
      BY <3>1 DEF HoldersIn
    <3>4. e \in Holders(tables, o)
      BY <1>3, <1>7, <1>8, <3>3 DEF Live, HoldingStatuses
    <3>5. RequestOf(tables.entry[e]) = r /\ tables.entry[e].driver = r.driver
      <4>1. RequestOf(tables.entry[e]) = [driver |-> r.driver, order |-> o, status |-> Requested]
        BY <1>3, <3>3 DEF RequestOf, Stage, Requested, Agreed
      <4>2. r = [driver |-> r.driver, order |-> o, status |-> Requested]
        BY <1>1, <1>9 DEF TablesUpTo, Request
      <4> QED BY <1>3, <3>3, <4>1, <4>2
    <3>6. CancelledBeforeAccept \in OfferableStatuses
      BY DEF OfferableStatuses
    <3>7. /\ Freed(ended, u, e) /\ u \in TablesUpTo(MaxNumber)
          /\ ended.entry[e].refusals \in 0..(RefusalLimit - 1)
      <4>1. ended.entry[e].driver \in Drivers
        BY <1>1, <1>3, <3>3, LiveHasDriver
      <4>2. Freed(ended, u, e)
        BY <1>1, <1>3, <3>3, <3>6, ReturnFrees
      <4>3. u \in TablesUpTo(MaxNumber)
        BY <1>1, <1>3, <3>3, <4>1, ReturnToLineKeeps, StatusesAreTyped DEF Keeps
      <4> QED BY <1>3, <3>3, <4>2, <4>3 DEF TablesUpTo, RowUpTo
    <3>8. About(ended, u, o) /\ Said(u) = Said(ended)
      <4>1. OnlyFor(ended.entry[e], o) /\ Standing(ended.entry[e])
        BY <3>3 DEF OnlyFor, Standing, Live, LiveEntryStatuses, InQueueStatuses
      <4>2. About(ended, u, o)
        BY <1>1, <1>3, <3>3, <3>6, <4>1, ReturnAbout
      <4>3. Said(u) = Said(ended)
        BY <1>3 DEF ReturnToLine, Said, TablesUpTo
      <4> QED BY <4>2, <4>3
    <3> HIDE DEF u
    <3> QED BY <1>5, <3>2, <3>4, <3>5, <3>7, <3>8
  <2> QED BY <2>2, <2>3
<1>10. CASE r.status # Requested
  <2>1. tables' = ReleaseAfterDriverCancel(ended, o)
    BY <1>2, <1>10
  <2>2. \A e \in Holders(tables, o) :
           RequestOf(tables.entry[e]) = r => tables.entry[e].status \in JobStatuses
    <3> SUFFICES ASSUME NEW e \in Holders(tables, o), RequestOf(tables.entry[e]) = r
                 PROVE  tables.entry[e].status \in JobStatuses
      OBVIOUS
    <3>1. tables.entry[e].status \in HoldingStatuses
      BY <1>7, <1>8
    <3>2. r.status = Stage(tables.entry[e]) /\ r.status \in RequestStatuses
      BY <1>1 DEF RequestOf, TablesUpTo, Request
    <3> QED BY <1>10, <3>1, <3>2 DEF Stage, HoldingStatuses, RequestStatuses, ActiveOrderStatuses,
            NoAnswer, Waiting, Requested, Agreed, AcceptedByShipper, GoToLoadingPlace, Loading,
            Loaded, JourneyStarted
  <2>3. CASE jobs = {}
    <3>1. ~Carried(tables, r)
      <4> SUFFICES ASSUME NEW e \in Holders(tables, o), RequestOf(tables.entry[e]) = r PROVE FALSE
        BY DEF Carried
      <4>1. e \in jobs
        BY <1>3, <1>7, <1>8, <2>2 DEF HoldersIn, Live
      <4> QED BY <2>3, <4>1
    <3> QED BY <1>6, <2>1, <2>3, <3>1 DEF ReleaseAfterDriverCancel
  <2>4. CASE jobs # {}
    <3> DEFINE e == FirstInLine(ended, jobs)
               u == CloseEntry(ended, e, CancelledAfterAccept)
    <3>1. e \in jobs
      <4>1. jobs \subseteq Entries
        BY DEF HoldersIn
      <4> HIDE DEF jobs
      <4> QED BY <1>1, <1>3, <2>4, <4>1, FirstIn
    <3>2. tables' = OfferToNextDriver(ApplyRefusal(u, e, ended.entry[e].refusals), o,
                                      ended.entry[e].driver)
      BY <2>1, <2>4 DEF ReleaseAfterDriverCancel
    <3> HIDE DEF e
    <3>3. /\ e \in Entries /\ Live(ended, e) /\ ended.entry[e].order = o
          /\ ended.entry[e].status \in JobStatuses
      BY <3>1 DEF HoldersIn
    <3>4. e \in Holders(tables, o)
      BY <1>3, <1>7, <1>8, <3>3 DEF Live, HoldingStatuses
    <3>5. RequestOf(tables.entry[e]) = r /\ tables.entry[e].driver = r.driver
      <4>1. r = RequestOf(tables.entry[e]) \/ Stray(r)
        BY <1>1, <3>4, HeldOrder
      <4> QED BY <1>10, <4>1 DEF Stray, RequestOf
    <3>6. /\ Freed(ended, u, e) /\ u \in TablesUpTo(MaxNumber)
          /\ ended.entry[e].refusals \in 0..(RefusalLimit - 1)
      <4>1. ended.entry[e].driver \in Drivers
        BY <1>1, <1>3, <3>3, LiveHasDriver
      <4>2. Freed(ended, u, e)
        BY <1>1, <1>3, <3>3, CloseFrees
      <4>3. u \in TablesUpTo(MaxNumber)
        BY <1>1, <1>3, <3>3, <4>1, CloseEntryKeeps, StatusesAreTyped DEF Keeps
      <4> QED BY <1>3, <3>3, <4>2, <4>3 DEF TablesUpTo, RowUpTo
    <3>7. About(ended, u, o) /\ Said(u) = Said(ended)
      <4>1. OnlyFor(ended.entry[e], o)
        BY <3>3 DEF OnlyFor
      <4>2. About(ended, u, o)
        BY <1>1, <1>3, <3>3, <4>1, CloseAbout
      <4>3. Said(u) = Said(ended)
        BY <1>3 DEF CloseEntry, Said, TablesUpTo
      <4> QED BY <4>2, <4>3
    <3> HIDE DEF u
    <3> QED BY <1>5, <3>2, <3>4, <3>5, <3>6, <3>7
  <2> QED BY <2>3, <2>4
<1> QED BY <1>9, <1>10

\* A new order is asked of the front driver, or waits.
LEMMA PlaceOrderConforms ==
    ASSUME IInv, IInv', Matched(tables, {}), Matched(tables', {}), AnswersInv,
           NEW o \in Orders, PlaceOrder(o), sweep = SweepIdle
    PROVE  Conforms
<1> DEFINE u == [tables EXCEPT !.order[o] = Waiting]
<1>1. tables \in TablesUpTo(MaxNumber) /\ MaxNumber \in Nat
  BY TypedNow
<1>2. tables.order[o] = NoStatus /\ tables' = OfferFifo(u, o, {}) /\ sweep'.at # "offer"
  <2>1. NewOrders # {} /\ o = Min(NewOrders) /\ NewOrders \subseteq Nat
    BY BoundsAssumption DEF PlaceOrder, NewOrders, Orders
  <2>2. o \in NewOrders
    BY <2>1, MinIn
  <2>3. tables' = OfferFifo(u, o, {}) /\ sweep' = SweepIdle
    BY DEF PlaceOrder, Transaction, Commit
  <2> QED BY <2>2, <2>3 DEF NewOrders, SweepIdle
<1>3. /\ u \in TablesUpTo(MaxNumber)
      /\ u.entry = tables.entry /\ u.requests = tables.requests /\ u.order[o] = Waiting
      /\ \A p \in Orders : p # o => u.order[p] = tables.order[p]
      /\ Said(u) = Said(tables)
  BY <1>1, StatusesAreTyped DEF TablesUpTo, Said
<1> HIDE DEF u
<1>4. /\ NoStatus \notin ClosedOrderStatuses /\ NoStatus \notin ActiveOrderStatuses
      /\ Waiting \notin ClosedOrderStatuses
  BY DEF NoStatus, ClosedOrderStatuses, ActiveOrderStatuses, Waiting, Requested,
         AcceptedByShipper, GoToLoadingPlace, Loading, Loaded, JourneyStarted,
         JourneyCompleted, CancelledByShipper, CancelledByAdmin
<1>5. Settled(tables, o) /\ Matched(tables, {o})
  BY MatchedBut
<1>6. Holders(tables, o) = {}
  BY <1>1, <1>2, <1>4, HeldOrder
<1>7. Holders(u, o) = {}
  <2>1. \A e : e \in Holders(u, o) <=> e \in Entries /\ Holding(u.entry[e]) /\ u.entry[e].order = o
    BY HoldersAre
  <2>2. \A e : e \in Holders(tables, o) <=>
                  e \in Entries /\ Holding(tables.entry[e]) /\ tables.entry[e].order = o
    BY HoldersAre
  <2> QED BY <1>3, <1>6, <2>1, <2>2
<1>8. \A r \in tables.requests : r.order # o
  BY <1>2 DEF AnswersInv, Tidy, Ordered
<1>9. Local(tables, u, o)
  BY <1>3, <1>7, <1>5 DEF Local, Alike, Matched, Whole
<1>10. Matched(u, {o})
  BY <1>5, <1>9, LocalMatches
<1>11. Open(u, o)
  BY <1>3, <1>4, <1>7, <1>8, <1>10 DEF Open, Rest
<1>12. About(tables, u, o)
  <2>1. \A r \in tables.requests : r.order \in Orders
    BY <1>1 DEF TablesUpTo, Request
  <2> QED BY <1>3, <2>1, OrderOnly DEF Waiting, NoStatus
<1>13. About(u, tables', o) /\ Said(tables') = Said(u) /\ PassedOn(tables', o)
  <2>1. CASE Takers(u, o, {}) = {}
    BY <1>2, <1>3, <2>1, AboutItself DEF OfferFifo, PassedOn
  <2>2. CASE Takers(u, o, {}) # {}
    BY <1>1, <1>2, <1>3, <1>11, <2>2, FifoAbout
  <2> QED BY <2>1, <2>2
<1>14. Dispatch!Offered(o) /\ AnswersInv'
  BY <1>2, <1>12, <1>13, AboutTwice, MovesOnOffers
<1>15. Dispatch!Next
  BY <1>2, <1>3, <1>13, <1>14, Places
<1> QED BY <1>14, <1>15 DEF Conforms

\* A cancelled order is over: its driver, if any, is back in the line or out of
\* it, with its request ended.
LEMMA CancelShipperRequestConforms ==
    ASSUME IInv, IInv', AnswersInv, NEW o \in Orders,
           NEW status \in {CancelledByShipper, CancelledByAdmin},
           CancelShipperRequest(o, status), sweep = SweepIdle
    PROVE  Conforms
<1> DEFINE cancelled == [tables EXCEPT !.order[o] = status]
           ended == {r \in tables.requests :
                        r.order = o /\ r.status \in {Requested, AcceptedByShipper}}
           base == IF status = CancelledByAdmin THEN CallOff(cancelled, ended)
                   ELSE [cancelled EXCEPT !.requests = @ \ ended]
<1>1. tables \in TablesUpTo(MaxNumber) /\ MaxNumber \in Nat
  BY TypedNow
<1>2. /\ tables.order[o] # NoStatus /\ tables' = ReleaseOnOrderCancel(base, o)
      /\ sweep'.at # "offer"
  BY DEF CancelShipperRequest, Transaction, Commit, SweepIdle
<1>3. status \in ClosedOrderStatuses /\ status \in OrderStatuses /\ status # NoStatus
  BY DEF OrderStatuses, NoStatus, ClosedOrderStatuses, ActiveOrderStatuses, Waiting, Requested,
         AcceptedByShipper, GoToLoadingPlace, Loading, Loaded, JourneyStarted,
         JourneyCompleted, CancelledByShipper, CancelledByAdmin
<1>4. /\ cancelled \in TablesUpTo(MaxNumber) /\ cancelled.entry = tables.entry
      /\ cancelled.requests = tables.requests /\ cancelled.order[o] = status
      /\ \A p \in Orders : p # o => cancelled.order[p] = tables.order[p]
      /\ Said(cancelled) = Said(tables)
  BY <1>1, <1>3 DEF TablesUpTo, Said
<1> HIDE DEF cancelled
<1>5. \A r \in tables.requests : r.order \in Orders
  BY <1>1 DEF TablesUpTo, Request
<1>6. ended \in SUBSET cancelled.requests /\ \A r \in ended : r.order = o
  BY <1>4
<1> HIDE DEF ended
<1>7. About(tables, cancelled, o)
  BY <1>3, <1>4, <1>5, OrderOnly
<1>8. /\ base \in TablesUpTo(MaxNumber) /\ base.order = cancelled.order
      /\ About(cancelled, base, o)
  <2>1. CASE status = CancelledByAdmin
    <3>1. base = CallOff(cancelled, ended)
      BY <2>1
    <3> HIDE DEF base
    <3> QED BY <1>1, <1>4, <1>6, <3>1, CallOffRows, CallOffKeeps, CallOffAbout DEF Keeps
  <2>2. CASE status # CancelledByAdmin
    <3>1. /\ base \in TablesUpTo(MaxNumber) /\ base.entry = cancelled.entry
          /\ base.order = cancelled.order /\ base.requests = cancelled.requests \ ended
          /\ Said(base) = Said(cancelled)
      BY <1>4, <2>2 DEF TablesUpTo, Said
    <3>2. cancelled.requests \subseteq Request
      BY <1>4 DEF TablesUpTo
    <3> HIDE DEF base
    <3> QED BY <1>3, <1>4, <1>6, <3>1, <3>2, RequestsEnd
  <2> QED BY <2>1, <2>2
<1> HIDE DEF base
<1>9. About(tables, tables', o) /\ tables'.order = base.order
  <2>1. CASE Holders(base, o) = {}
    BY <1>2, <1>7, <1>8, <2>1, AboutTwice DEF ReleaseOnOrderCancel
  <2>2. CASE Holders(base, o) # {}
    <3> DEFINE e == FirstInLine(base, Holders(base, o))
               d == base.entry[e].driver
               gone == LiveRequests(base, d, o, {Requested})
               done == Decline(base, gone)
    <3>1. e \in Holders(base, o)
      <4>1. Holders(base, o) \subseteq Entries
        BY DEF Holders, HoldersIn
      <4> QED BY <1>1, <1>8, <2>2, <4>1, FirstIn
    <3>2. tables' = IF base.entry[e].status \in {Requested, NoAnswer}
                    THEN ReturnToLine(done, e, Waiting)
                    ELSE CloseEntry(done, e, CancelledAfterAccept)
      BY <1>2, <2>2 DEF ReleaseOnOrderCancel, TerminalizeOrderRequest
    <3> HIDE DEF e
    <3>3. e \in Entries /\ Holding(base.entry[e]) /\ base.entry[e].order = o
      BY <3>1, HoldersAre
    <3>4. gone \in SUBSET base.requests /\ \A r \in gone : r.order = o
      BY DEF LiveRequests
    <3> HIDE DEF gone, d
    <3>5. /\ done \in TablesUpTo(MaxNumber) /\ done.entry = base.entry
          /\ done.order = base.order /\ About(base, done, o)
      BY <1>1, <1>8, <3>4, DeclineKeeps, DeclineRows, DeclineAbout DEF Keeps
    <3> HIDE DEF done
    <3>6. OnlyFor(done.entry[e], o) /\ Standing(done.entry[e]) /\ Waiting \in OfferableStatuses
      BY <3>3, <3>5 DEF OnlyFor, Holding, Standing, HoldingStatuses, LiveEntryStatuses,
         InQueueStatuses, OfferableStatuses
    <3>7. About(done, tables', o)
      BY <1>1, <3>2, <3>3, <3>5, <3>6, ReturnAbout, CloseAbout
    <3>8. tables'.order = done.order
      BY <3>2, <3>5 DEF ReturnToLine, CloseEntry, TablesUpTo
    <3> QED BY <1>7, <1>8, <3>5, <3>7, <3>8, AboutTwice
  <2> QED BY <2>1, <2>2
<1>10. Said(tables') \subseteq Drivers \X Orders
  BY SaidTyped DEF IInv, TablesInv
<1>11. Dispatch!Next
  BY <1>2, <1>3, <1>4, <1>8, <1>9, <1>10, Closes
<1> QED BY <1>2, <1>9, <1>11, AboutConforms

-----------------------------------------------------------------------------
\* A place in the line that is reserved or overridden, a waiting request that
\* is given up: no order looks at those.
LEMMA CheckInAgainConforms ==
    ASSUME IInv, AnswersInv, NEW d, NEW shipper, CheckInAgain(d, shipper), sweep = SweepIdle
    PROVE  Conforms
<1> DEFINE e == Max(InLine(tables, d))
           u == [tables EXCEPT !.entry[e].reserved = shipper]
<1>1. tables \in TablesUpTo(MaxNumber)
  BY TypedNow
<1>2. InLine(tables, d) # {} /\ tables' = u /\ sweep'.at # "offer"
  BY DEF CheckInAgain, Transaction, Commit, SweepIdle
<1>3. e \in Entries
  BY <1>2, NewestInLine DEF InLine
<1> HIDE DEF e
<1>4. /\ u.order = tables.order /\ u.requests = tables.requests
      /\ u.declined = tables.declined /\ u.calledOff = tables.calledOff
      /\ \A f \in Entries : Akin(tables.entry[f], u.entry[f])
  BY <1>1, <1>3 DEF TablesUpTo, RowUpTo, Akin
<1> HIDE DEF u
<1>5. About(tables, u, None) /\ Said(u) = Said(tables)
  BY <1>4, NothingSeen DEF Said
<1> QED BY <1>2, <1>5, NoOrderConforms

LEMMA OverrideEntryConforms ==
    ASSUME IInv, AnswersInv, NEW e \in Entries, NEW n, OverrideEntry(e, n), sweep = SweepIdle
    PROVE  Conforms
<1> DEFINE u == [tables EXCEPT !.entry[e].number = n]
<1>1. tables \in TablesUpTo(MaxNumber)
  BY TypedNow
<1>2. tables' = u /\ sweep'.at # "offer"
  BY DEF OverrideEntry, Transaction, Commit, SweepIdle
<1>3. /\ u.order = tables.order /\ u.requests = tables.requests
      /\ u.declined = tables.declined /\ u.calledOff = tables.calledOff
      /\ \A f \in Entries : Akin(tables.entry[f], u.entry[f])
  BY <1>1 DEF TablesUpTo, RowUpTo, Akin
<1> HIDE DEF u
<1>4. About(tables, u, None) /\ Said(u) = Said(tables)
  BY <1>3, NothingSeen DEF Said
<1> QED BY <1>2, <1>4, NoOrderConforms

LEMMA CancelWaitingRequestConforms ==
    ASSUME IInv, AnswersInv, NEW d, CancelWaitingRequest(d), sweep = SweepIdle
    PROVE  Conforms
<1>1. tables \in TablesUpTo(MaxNumber)
  BY TypedNow
<1>2. /\ tables'.order = tables.order /\ tables'.requests = tables.requests
      /\ tables'.declined = tables.declined /\ tables'.calledOff = tables.calledOff
      /\ tables'.entry = tables.entry /\ sweep'.at # "offer"
  BY <1>1 DEF CancelWaitingRequest, Transaction, Commit, TablesUpTo, SweepIdle
<1>3. About(tables, tables', None) /\ Said(tables') = Said(tables)
  BY <1>2, NothingSeen DEF Said, Akin
<1> QED BY <1>2, <1>3, NoOrderConforms

-----------------------------------------------------------------------------
\* A driver that is under way stays engaged from stage to stage.
LEMMA ProgressedConforms ==
    ASSUME IInv, IInv', Matched(tables, {}), Matched(tables', {}), AnswersInv,
           NEW r \in tables.requests,
           r.status \in {AcceptedByShipper, GoToLoadingPlace, Loading, Loaded},
           NEW s \in JobStatuses \ {Agreed}, tables' = Progressed(r, s), sweep'.at # "offer"
    PROVE  Conforms
<1> DEFINE o == r.order
           new == [r EXCEPT !.status = s]
           base == [tables EXCEPT !.order[o] = s, !.requests = (@ \ {r}) \cup {new}]
           jobs == HoldersIn(base, o, JobStatuses \ {JourneyStarted})
           u == tables'
<1>1. /\ tables \in TablesUpTo(MaxNumber) /\ MaxNumber \in Nat
      /\ o \in Orders /\ r \in Request
  BY TypedNow DEF TablesUpTo, Request
<1>2. /\ base.entry = tables.entry /\ base.order[o] = s
      /\ base.requests = (tables.requests \ {r}) \cup {new}
      /\ \A p \in Orders : p # o => base.order[p] = tables.order[p]
      /\ base.declined = tables.declined /\ base.calledOff = tables.calledOff
  BY <1>1 DEF TablesUpTo
<1>3. u = MirrorProgress(base, o, s)
  BY DEF Progressed
<1>4. new.driver = r.driver /\ new.order = o /\ new.status = s
  BY <1>1 DEF Request
<1>5. PICK e \in Holders(tables, o) : RequestOf(tables.entry[e]) = r
  <2>1. Settled(tables, o)
    BY <1>1, MatchedBut
  <2>2. ~Abandoned(tables, r) /\ ~Stray(r)
    BY DEF Abandoned, Stray, Requested, AcceptedByShipper, GoToLoadingPlace, Loading, Loaded,
           JourneyStarted
  <2> QED BY <2>1, <2>2 DEF Settled, Carried
<1>6. /\ tables.order[o] \in ActiveOrderStatuses
      /\ \A f \in Holders(tables, o) : f = e
  BY <1>1, <1>5, HeldOrder
<1>7. e \in Entries /\ Holding(tables.entry[e]) /\ tables.entry[e].order = o
  BY <1>5, HoldersAre
<1>8. tables.entry[e].status \in JobStatuses \ {JourneyStarted}
  <2>1. Stage(tables.entry[e]) = r.status
    BY <1>5 DEF RequestOf
  <2>2. tables.entry[e].status \in HoldingStatuses
    BY <1>7 DEF Holding
  <2> QED BY <2>1, <2>2 DEF Stage, HoldingStatuses, JobStatuses, Requested, NoAnswer, Agreed,
             AcceptedByShipper, GoToLoadingPlace, Loading, Loaded, JourneyStarted
<1>9. \A f : f \in jobs <=> f = e
  <2>1. \A f : f \in Holders(tables, o) <=>
                  f \in Entries /\ Holding(tables.entry[f]) /\ tables.entry[f].order = o
    BY HoldersAre
  <2>2. \A f \in jobs : f \in Entries /\ Holding(tables.entry[f]) /\ tables.entry[f].order = o
    BY <1>2 DEF HoldersIn, Live, Holding, HoldingStatuses
  <2>3. e \in jobs
    BY <1>2, <1>7, <1>8, StatusesAreTyped DEF HoldersIn, Live, Holding
  <2> QED BY <1>6, <2>1, <2>2, <2>3
<1> HIDE DEF base, jobs
<1>10. u = [base EXCEPT !.entry[e].status = s]
  <2>1. jobs # {} /\ jobs \subseteq Nat
    BY <1>7, <1>9, BoundsAssumption DEF Entries
  <2>2. Min(jobs) = e
    BY <1>9, <2>1, MinIn
  <2> QED BY <1>3, <2>1, <2>2 DEF MirrorProgress, jobs
<1>11. base.entry \in [Entries -> RowUpTo(MaxNumber)]
  BY <1>1, <1>2 DEF TablesUpTo
<1>12. /\ u.order = base.order /\ u.requests = base.requests
       /\ u.declined = base.declined /\ u.calledOff = base.calledOff
       /\ \A f \in Entries : f # e => u.entry[f] = tables.entry[f]
       /\ u.entry[e].status = s /\ u.entry[e].driver = tables.entry[e].driver
       /\ u.entry[e].order = o /\ u.entry[e].deleted = tables.entry[e].deleted
  <2>1. base = [tables EXCEPT !.order[o] = s, !.requests = (@ \ {r}) \cup {new}]
    BY DEF base
  <2> HIDE DEF new
  <2> QED BY <1>1, <1>2, <1>7, <1>10, <1>11, <2>1 DEF TablesUpTo, RowUpTo
<1> HIDE DEF u, new, o
<1>13. Holding(u.entry[e]) /\ Standing(tables.entry[e])
  BY <1>7, <1>8, <1>12 DEF Holding, HoldingStatuses, Standing, LiveEntryStatuses
<1>14. NoneComes(tables, u)
  BY <1>12, <1>13 DEF NoneComes
<1>15. RowsAbout(tables, u, o)
  BY <1>7, <1>12 DEF RowsAbout, Akin, OnlyFor
<1>16. s \in ActiveOrderStatuses
  BY DEF JobStatuses, ActiveOrderStatuses, Agreed, Waiting, Requested, AcceptedByShipper,
         GoToLoadingPlace, Loading, Loaded, JourneyStarted
<1>17. ActiveOrderStatuses \cap ({NoStatus} \cup ClosedOrderStatuses) = {}
  BY DEF ActiveOrderStatuses, ClosedOrderStatuses, NoStatus, Waiting, Requested,
         AcceptedByShipper, GoToLoadingPlace, Loading, Loaded, JourneyStarted,
         JourneyCompleted, CancelledByShipper, CancelledByAdmin
<1>18. Said(u) = Said(tables)
  BY <1>2, <1>12 DEF Said
<1>19. About(tables, u, o)
  <2>1. tables.requests \subseteq Request /\ u.requests \subseteq Request
    BY DEF IInv, TablesInv, TablesUpTo, u
  <2>2. {r} \in SUBSET tables.requests /\ \A q \in {r} : q.order = o
    BY DEF o
  <2>3. MovesOn(tables, u, {r}, s)
    BY <1>2, <1>4, <1>12 DEF MovesOn, o
  <2>4. /\ u.order[o] # NoStatus
        /\ \A p \in Orders : p # o => u.order[p] = tables.order[p]
    BY <1>2, <1>12, <1>16, <1>17
  <2> QED BY <1>14, <1>15, <1>18, <2>1, <2>2, <2>3, <2>4, RequestsMove
<1>20. SameFace(tables, u, o)
  <2>1. StageIn(tables, o) = "engaged" /\ DriverIn(tables, o) = tables.entry[e].driver
    BY <1>1, <1>6, <1>7, <1>8, <1>17, HeldStage DEF Matched, o
  <2>2. u.order[o] \notin {NoStatus} \cup ClosedOrderStatuses
    BY <1>2, <1>12, <1>16, <1>17
  <2>3. Whole(u) /\ o \in Orders
    BY <1>1 DEF Matched, u, o
  <2>4. StageIn(u, o) = "engaged" /\ DriverIn(u, o) = u.entry[e].driver
    BY <1>7, <1>12, <1>13, <2>2, <2>3, HeldStage
  <2> QED BY <1>12, <2>1, <2>4 DEF SameFace
<1> QED BY <1>18, <1>19, <1>20, OrderStaysConforms DEF u

LEMMA LoadingStageConforms ==
    ASSUME IInv, IInv', Matched(tables, {}), Matched(tables', {}), AnswersInv,
           NEW r \in tables.requests, LoadingStage(r), sweep = SweepIdle
    PROVE  Conforms
<1>1. /\ r.status \in {AcceptedByShipper, GoToLoadingPlace, Loading}
      /\ tables' = Progressed(r, r.status + 1) /\ sweep'.at # "offer"
  BY DEF LoadingStage, Transaction, Commit, SweepIdle
<1>2. r.status + 1 \in JobStatuses \ {Agreed}
  BY <1>1 DEF JobStatuses, Agreed, AcceptedByShipper, GoToLoadingPlace, Loading, Loaded,
              JourneyStarted
<1> QED BY <1>1, <1>2, ProgressedConforms

LEMMA StartJourneyConforms ==
    ASSUME IInv, IInv', Matched(tables, {}), Matched(tables', {}), AnswersInv,
           NEW r \in tables.requests, StartJourney(r), sweep = SweepIdle
    PROVE  Conforms
<1>1. /\ r.status \in {AcceptedByShipper, GoToLoadingPlace, Loading, Loaded}
      /\ tables' = Progressed(r, JourneyStarted) /\ sweep'.at # "offer"
  BY DEF StartJourney, Transaction, Commit, SweepIdle
<1>2. JourneyStarted \in JobStatuses \ {Agreed}
  BY DEF JobStatuses, JourneyStarted, Agreed
<1> QED BY <1>1, <1>2, ProgressedConforms

-----------------------------------------------------------------------------
\* A step that writes nothing.
LEMMA TablesSameConforms ==
    ASSUME AnswersInv, tables' = tables, sweep'.at # "offer"
    PROVE  Conforms
<1>1. About(tables, tables', None) /\ Said(tables') = Said(tables)
  BY AboutItself
<1> QED BY <1>1, NoOrderConforms

\* The decision moves on and the entry is still asked.
LEMMA AcceptDecisionConforms ==
    ASSUME IInv, IInv', AnswersInv, NEW call, inFlight = {call}, sweep = SweepIdle,
           call.step = "accept", CallFits(tables, call), AcceptDecision(call), QInv'
    PROVE  Conforms
<1> DEFINE d == call.driver
           o == call.order
           mine == LiveRequests(tables, d, o, {Requested})
           u == tables'
<1>1. /\ call \in AcceptCalls /\ d \in Drivers /\ o \in Orders
      /\ tables \in TablesUpTo(MaxNumber) /\ MaxNumber \in Nat
  <2>1. call \in AcceptCalls
    BY DEF IInv, CallsInv, Calls, AcceptCalls, StampCalls, CloseCalls, DismissCalls,
     Corrections
  <2> QED BY <2>1, TypedNow DEF AcceptCalls
<1>2. Matched(tables, {}) /\ \E e \in Unanswered(tables, o) : tables.entry[e].driver = d
  BY DEF CallFits
<1>3. sweep'.at # "offer"
  BY DEF AcceptDecision, Continue, SweepIdle
<1>4. CASE mine = {}
  <2>1. tables' = tables
    BY <1>4 DEF AcceptDecision
  <2> QED BY <1>3, <2>1, TablesSameConforms
<1>5. CASE mine # {}
  <2> DEFINE moved == {[q EXCEPT !.status = AcceptedByShipper] : q \in mine}
  <2>1. tables' = [tables EXCEPT !.order[o] = AcceptedByShipper,
                                 !.requests = (@ \ mine) \cup moved]
    BY <1>5 DEF AcceptDecision, Commit
  <2>2. mine \in SUBSET tables.requests /\ \A q \in mine : q \in Request /\ q.order = o
    BY <1>1 DEF LiveRequests, TablesUpTo
  <2>3. \A r \in moved : r.status = AcceptedByShipper
                         /\ \E q \in mine : q.driver = r.driver /\ q.order = r.order
    BY <2>2 DEF Request
  <2> HIDE DEF mine, moved
  <2>4. /\ u.entry = tables.entry /\ u.order[o] = AcceptedByShipper
        /\ u.requests = (tables.requests \ mine) \cup moved
        /\ \A p \in Orders : p # o => u.order[p] = tables.order[p]
        /\ Said(u) = Said(tables)
    BY <1>1, <2>1 DEF TablesUpTo, Said
  <2> HIDE DEF u
  <2>5. MovesOn(tables, u, mine, AcceptedByShipper)
    BY <2>3, <2>4 DEF MovesOn
  <2>6. AcceptedByShipper \notin {NoStatus} \cup ClosedOrderStatuses
    BY DEF NoStatus, ClosedOrderStatuses, AcceptedByShipper, JourneyCompleted,
           CancelledByShipper, CancelledByAdmin
  <2>7. About(tables, u, o)
    <3>1. tables.requests \subseteq Request /\ u.requests \subseteq Request
      BY DEF IInv, TablesInv, TablesUpTo, u
    <3>2. NoneComes(tables, u) /\ RowsAbout(tables, u, o)
      BY <2>4 DEF NoneComes, RowsAbout, Akin
    <3> QED BY <2>2, <2>4, <2>5, <2>6, <3>1, <3>2, RequestsMove
  <2>8. PICK e \in Unanswered(tables, o) : tables.entry[e].driver = d
    BY <1>2
  <2>9. e \in Holders(tables, o)
    BY DEF Unanswered, Holders, HoldersIn, HoldingStatuses
  <2>10. SameFace(tables, u, o)
    <3>1. \A v : v.entry = tables.entry =>
             /\ Holders(v, o) = Holders(tables, o)
             /\ HoldersIn(v, o, JobStatuses) = HoldersIn(tables, o, JobStatuses)
      BY DEF Holders, HoldersIn, Live
    <3>2. tables.order[o] \notin {NoStatus} \cup ClosedOrderStatuses
      <4>1. tables.order[o] \in ActiveOrderStatuses
        BY <1>1, <1>2, <2>9, HeldOrder
      <4> QED BY <4>1 DEF ActiveOrderStatuses, ClosedOrderStatuses, NoStatus, Waiting, Requested,
              AcceptedByShipper, GoToLoadingPlace, Loading, Loaded, JourneyStarted,
              JourneyCompleted, CancelledByShipper, CancelledByAdmin
    <3>3. /\ Holders(u, o) = Holders(tables, o)
          /\ HoldersIn(u, o, JobStatuses) = HoldersIn(tables, o, JobStatuses)
      BY <2>4, <3>1
    <3>4. StageIn(u, o) = StageIn(tables, o)
      BY <2>4, <2>6, <3>2, <3>3 DEF StageIn
    <3> QED BY <2>4, <3>3, <3>4 DEF SameFace, DriverIn
  <2> QED BY <1>3, <2>4, <2>7, <2>10, OrderStaysConforms DEF u
<1> QED BY <1>4, <1>5

\* The entry says so: the driver took the order.
LEMMA AcceptStampConforms ==
    ASSUME IInv, AnswersInv, NEW call, inFlight = {call}, sweep = SweepIdle,
           call.step = "stamp", CallFits(tables, call), AcceptStamp(call), Matched(tables', {})
    PROVE  Conforms
<1> DEFINE e == call.entry
           o == call.order
           u == tables'
<1>1. /\ e \in Entries /\ o \in Orders
      /\ tables \in TablesUpTo(MaxNumber) /\ MaxNumber \in Nat
  <2>1. call \in StampCalls
    BY DEF IInv, CallsInv, Calls, AcceptCalls, StampCalls, CloseCalls, DismissCalls,
     Corrections
  <2> QED BY <2>1, TypedNow DEF StampCalls
<1>2. Won(tables, e, o)
  BY DEF CallFits
<1>3. sweep'.at # "offer"
  BY DEF AcceptStamp, Continue, SweepIdle
<1>4. /\ u.order = tables.order /\ u.requests = tables.requests
      /\ u.declined = tables.declined /\ u.calledOff = tables.calledOff
      /\ \A f \in Entries : f # e => u.entry[f] = tables.entry[f]
      /\ u.entry[e].status = Agreed /\ u.entry[e].driver = tables.entry[e].driver
      /\ u.entry[e].order = o /\ u.entry[e].deleted = tables.entry[e].deleted
  <2> HIDE DEF e, o
  <2>1. tables' = [tables EXCEPT !.entry[e].status = Agreed, !.entry[e].order = o,
                                 !.entry[e].loading = call.loading]
    BY DEF AcceptStamp, Commit, e, o
  <2>2. tables.entry \in [Entries -> RowUpTo(MaxNumber)]
    BY <1>1 DEF TablesUpTo
  <2> QED BY <1>1, <2>1, <2>2 DEF TablesUpTo, RowUpTo
<1> HIDE DEF e, o, u
<1>5. /\ Holding(tables.entry[e]) /\ tables.entry[e].order = o
      /\ tables.entry[e].status \in {Requested, NoAnswer}
  BY <1>2, HoldersAre DEF Won
<1>6. Holding(u.entry[e]) /\ Standing(tables.entry[e])
  BY <1>4, <1>5 DEF Holding, Standing, HoldingStatuses, JobStatuses, LiveEntryStatuses,
     InQueueStatuses
<1>7. About(tables, u, o) /\ Said(u) = Said(tables)
  <2>1. NoneComes(tables, u)
    BY <1>4, <1>6 DEF NoneComes
  <2>2. RowsAbout(tables, u, o)
    BY <1>4, <1>5 DEF RowsAbout, Akin, OnlyFor
  <2> QED BY <1>4, <2>1, <2>2, RowsOnly DEF Said
<1>8. tables.order[o] \notin {NoStatus} \cup ClosedOrderStatuses
  BY <1>2 DEF Won, NoStatus, ClosedOrderStatuses, AcceptedByShipper, JourneyCompleted,
         CancelledByShipper, CancelledByAdmin
<1>9. StageIn(tables, o) = "asked" /\ DriverIn(tables, o) = tables.entry[e].driver
  <2>1. tables.entry[e].status \notin JobStatuses
    BY <1>5 DEF JobStatuses, Requested, NoAnswer, Agreed, GoToLoadingPlace, Loading, Loaded,
       JourneyStarted
  <2> QED BY <1>1, <1>2, <1>5, <1>8, <2>1, HeldStage DEF Won, Matched
<1>10. StageIn(u, o) = "engaged" /\ DriverIn(u, o) = tables.entry[e].driver
  <2>1. u.entry[e].status \in JobStatuses /\ Whole(u)
    BY <1>4 DEF JobStatuses, Matched, u
  <2> QED BY <1>1, <1>4, <1>6, <1>8, <2>1, HeldStage
<1>11. <<tables.entry[e].driver, o>> \notin Said(tables)
  <2>1. Accepted(tables.entry[e].driver, o) \in tables.requests
    BY <1>2 DEF Won
  <2>2. /\ Accepted(tables.entry[e].driver, o).driver = tables.entry[e].driver
        /\ Accepted(tables.entry[e].driver, o).order = o
    BY DEF Accepted
  <2> QED BY <2>1, <2>2 DEF AnswersInv, Tidy, Unsaid, Refused, Said
<1>12. Dispatch!Next
  BY <1>1, <1>7, <1>9, <1>10, <1>11, Takes DEF u
<1> QED BY <1>3, <1>7, <1>12, AboutConforms DEF u

\* The others are turned away; OrderDispatch does not see it, for the driver
\* that has the order is another.
LEMMA ReleaseInviteeConforms ==
    ASSUME IInv, AnswersInv, NEW call, inFlight = {call}, sweep = SweepIdle,
           call.step = "dismiss", CallFits(tables, call), ReleaseInvitee(call)
    PROVE  Conforms
<1> DEFINE o == call.order
<1>1. /\ AtMostOne(tables) /\ o \in Orders /\ TakenUp(tables, o)
      /\ call.others \subseteq StillAsked(tables, o)
  BY Dismissing
<1>2. PICK q \in call.others : Commit(EndInvitation(tables, q))
  BY DEF ReleaseInvitee
<1>3. sweep'.at # "offer"
  BY DEF ReleaseInvitee, Continue, SweepIdle
<1> DEFINE u == EndInvitation(tables, q)
           gone == LiveRequests(tables, q.driver, q.order, RequestStatuses)
<1>4. /\ u.entry = tables.entry /\ u.order = tables.order
      /\ u.requests = tables.requests \ gone /\ Said(u) = Said(tables)
  BY <1>1, NobodyElse, TypedNow, InvitationEnds
<1>5. tables' = u
  BY <1>2 DEF Commit
<1>6. q \in tables.requests /\ q.order = o
  BY <1>1 DEF StillAsked
<1>7. gone \in SUBSET tables.requests /\ \A r \in gone : r.order = o
  BY <1>6 DEF LiveRequests
<1>8. tables.requests \subseteq Request
  BY TypedNow DEF TablesUpTo
<1> HIDE DEF u, gone, o
<1>9. u.order[o] # NoStatus
  BY <1>4, <1>6 DEF AnswersInv, Tidy, Ordered
<1>10. About(tables, u, o)
  BY <1>4, <1>7, <1>8, <1>9, RequestsEnd
<1>11. SameFace(tables, u, o)
  BY <1>4, SameHolders DEF Akin
<1> QED BY <1>3, <1>4, <1>5, <1>10, <1>11, OrderStaysConforms

\* Delivered,
LEMMA CompleteJourneyConforms ==
    ASSUME IInv, IInv', AnswersInv, NEW r \in tables.requests, CompleteJourney(r),
           sweep = SweepIdle
    PROVE  Conforms
<1> DEFINE o == r.order
           u == tables'
<1>1. tables \in TablesUpTo(MaxNumber) /\ MaxNumber \in Nat /\ o \in Orders
  BY TypedNow DEF TablesUpTo, Request
<1>2. sweep'.at # "offer"
  BY DEF CompleteJourney, Begin, SweepIdle
<1>3. /\ u.entry = tables.entry /\ u.order[o] = JourneyCompleted
      /\ u.requests = tables.requests \ {r} /\ Said(u) = Said(tables)
      /\ \A p \in Orders : p # o => u.order[p] = tables.order[p]
  BY <1>1 DEF CompleteJourney, Commit, TablesUpTo, Said
<1>4. {r} \in SUBSET tables.requests /\ \A q \in {r} : q.order = o
  OBVIOUS
<1>5. tables.requests \subseteq Request
  BY <1>1 DEF TablesUpTo
<1>6. tables.order[o] # NoStatus
  BY DEF AnswersInv, Tidy, Ordered
<1> HIDE DEF u, o
<1>7. JourneyCompleted \in ClosedOrderStatuses /\ JourneyCompleted # NoStatus
  BY DEF ClosedOrderStatuses, JourneyCompleted, NoStatus
<1>8. About(tables, u, o)
  BY <1>3, <1>4, <1>5, <1>7, RequestsEnd
<1>9. Said(u) \subseteq Drivers \X Orders
  BY SaidTyped DEF IInv, TablesInv, u
<1>10. Dispatch!Next
  BY <1>1, <1>3, <1>6, <1>7, <1>8, <1>9, Closes DEF u
<1> QED BY <1>2, <1>8, <1>10, AboutConforms DEF u

\* and the entry closed.
LEMMA CompletionCloseConforms ==
    ASSUME IInv, AnswersInv, NEW call, inFlight = {call}, sweep = SweepIdle,
           call.step = "close", CallFits(tables, call), CompletionClose(call)
    PROVE  Conforms
<1> DEFINE o == call.order
           jobs == HoldersIn(tables, o, JobStatuses)
           e == Min(jobs)
           u == tables'
<1>1. tables \in TablesUpTo(MaxNumber) /\ MaxNumber \in Nat
  BY TypedNow
<1>2. Done(tables, o) /\ sweep'.at # "offer"
  BY DEF CallFits, CompletionClose, Continue, SweepIdle
<1>3. u = IF jobs = {} THEN tables ELSE CloseEntry(tables, e, JourneyCompleted)
  BY DEF CompletionClose, Commit, CloseOnCompletion
<1>4. CASE jobs = {}
  BY <1>2, <1>3, <1>4, TablesSameConforms
<1>5. CASE jobs # {}
  <2>1. e \in jobs
    <3>1. jobs \subseteq Nat
      BY BoundsAssumption DEF HoldersIn, Entries
    <3> HIDE DEF jobs
    <3> QED BY <1>5, <3>1, MinIn
  <2>2. e \in Entries /\ OnlyFor(tables.entry[e], o)
    BY <2>1 DEF HoldersIn, OnlyFor
  <2>3. u = CloseEntry(tables, e, JourneyCompleted)
    BY <1>3, <1>5
  <2> HIDE DEF e, jobs, u
  <2>4. u.order = tables.order /\ Said(u) = Said(tables)
    BY <1>1, <2>3 DEF CloseEntry, Said, TablesUpTo
  <2>5. About(tables, u, o)
    BY <1>1, <2>2, <2>3, CloseAbout
  <2>6. SameFace(tables, u, o)
    <3>1. tables.order[o] \in {NoStatus} \cup ClosedOrderStatuses
      BY <1>2 DEF Done, ClosedOrderStatuses
    <3> QED BY <2>4, <3>1, UnheldStage DEF SameFace
  <2> QED BY <1>2, <2>4, <2>5, <2>6, OrderStaysConforms DEF u
<1> QED BY <1>4, <1>5

-----------------------------------------------------------------------------
\* The pass marks an offer unanswered: its driver is still the one that is asked.
LEMMA SweepMarkConforms ==
    ASSUME IInv, AnswersInv, PassFits(tables, sweep), NEW x \in sweep.todo, SweepMark(x),
           Matched(tables', {})
    PROVE  Conforms
<1> DEFINE e == x.entry
           o == x.order
           u == tables'
<1>1. /\ tables \in TablesUpTo(MaxNumber) /\ MaxNumber \in Nat /\ sweep \in Pass
      /\ x \in Expired /\ e \in Entries /\ o \in Orders
  BY TypedNow DEF IInv, PassInv, Pass, Expired
<1>2. Matched(tables, {}) /\ Asked(tables, x)
  BY DEF PassFits
<1>3. sweep'.at # "offer"
  BY <1>1 DEF SweepMark, Pass
<1>4. /\ u.order = tables.order /\ u.requests = tables.requests
      /\ u.declined = tables.declined /\ u.calledOff = tables.calledOff
      /\ \A f \in Entries : f # e => u.entry[f] = tables.entry[f]
      /\ u.entry[e].status = NoAnswer
      /\ u.entry[e].driver = tables.entry[e].driver /\ u.entry[e].order = tables.entry[e].order
      /\ u.entry[e].deleted = tables.entry[e].deleted
  <2>1. tables' = [tables EXCEPT !.entry[e].status = NoAnswer]
    BY DEF SweepMark, Commit
  <2>2. tables.entry \in [Entries -> RowUpTo(MaxNumber)]
    BY <1>1 DEF TablesUpTo
  <2> HIDE DEF e
  <2> QED BY <1>1, <2>1, <2>2 DEF TablesUpTo, RowUpTo
<1> HIDE DEF u
<1>5. /\ Holding(tables.entry[e]) /\ tables.entry[e].status = Requested
      /\ tables.entry[e].order = o
  BY <1>2 DEF Asked
<1> HIDE DEF o, e
<1>6. Holding(u.entry[e]) /\ Standing(tables.entry[e])
  BY <1>4, <1>5 DEF Holding, HoldingStatuses, Standing, LiveEntryStatuses, InQueueStatuses
<1>7. About(tables, u, o) /\ Said(u) = Said(tables)
  <2>1. NoneComes(tables, u)
    BY <1>4, <1>6 DEF NoneComes
  <2>2. RowsAbout(tables, u, o)
    BY <1>4, <1>5 DEF RowsAbout, Akin, OnlyFor
  <2> QED BY <1>4, <2>1, <2>2, RowsOnly DEF Said
<1>8. tables.order[o] \notin {NoStatus} \cup ClosedOrderStatuses
  <2>1. e \in Holders(tables, o)
    BY <1>1, <1>5, HoldersAre
  <2>2. tables.order[o] \in ActiveOrderStatuses
    BY <1>1, <1>2, <2>1, HeldOrder
  <2> QED BY <2>2 DEF ActiveOrderStatuses, ClosedOrderStatuses, NoStatus, Waiting, Requested,
          AcceptedByShipper, GoToLoadingPlace, Loading, Loaded, JourneyStarted,
          JourneyCompleted, CancelledByShipper, CancelledByAdmin
<1>9. SameFace(tables, u, o)
  <2>1. Requested \notin JobStatuses /\ NoAnswer \notin JobStatuses
    BY DEF JobStatuses, Requested, NoAnswer, Agreed, GoToLoadingPlace, Loading, Loaded,
           JourneyStarted
  <2>2. StageIn(tables, o) = "asked" /\ DriverIn(tables, o) = tables.entry[e].driver
    BY <1>1, <1>2, <1>5, <1>8, <2>1, HeldStage DEF Matched
  <2>3. StageIn(u, o) = "asked" /\ DriverIn(u, o) = u.entry[e].driver
    <3>1. Whole(u) /\ u.order[o] = tables.order[o] /\ u.entry[e].order = o
      BY <1>4, <1>5 DEF Matched, u
    <3>2. u.entry[e].status \notin JobStatuses
      BY <1>4, <2>1
    <3> QED BY <1>1, <1>6, <1>8, <3>1, <3>2, HeldStage
  <2> QED BY <1>4, <2>2, <2>3 DEF SameFace
<1> QED BY <1>3, <1>7, <1>9, OrderStaysConforms DEF u

\* The refusal that is charged for it is not a no.
LEMMA SweepChargeConforms ==
    ASSUME IInv, AnswersInv, SweepCharge
    PROVE  Conforms
<1> DEFINE x == sweep.expired
           u == ChargeRefusal(tables, x.entry, x.refusals, sweep.back)
<1>1. /\ tables \in TablesUpTo(MaxNumber) /\ MaxNumber \in Nat /\ sweep \in Pass
  BY TypedNow DEF IInv, PassInv
<1>2. tables' = u /\ sweep'.at # "offer"
  BY <1>1 DEF SweepCharge, Commit, Pass
<1>3. Said(u) = Said(tables)
  BY <1>1 DEF ChargeRefusal, Said, TablesUpTo
<1>4. About(tables, u, None)
  BY <1>1, ChargeAbout
<1> HIDE DEF u
<1> QED BY <1>2, <1>3, <1>4, NoOrderConforms

\* The entry in front is found: nothing is asked of its driver yet.
LEMMA FoundConforms ==
    ASSUME IInv, AnswersInv, NEW o \in Orders, tables.order[o] # NoStatus, NEW excluded,
           Takers(tables, o, excluded) # {}, Found(o, FrontEntry(tables, o, excluded))
    PROVE  Conforms
<1> DEFINE e == FrontEntry(tables, o, excluded)
           u == tables'
<1>1. tables \in TablesUpTo(MaxNumber) /\ MaxNumber \in Nat /\ sweep \in Pass
  BY TypedNow DEF IInv, PassInv
<1>2. ~Refused(tables, tables.entry[e].driver, o)
  BY <1>1, FrontIsTaker DEF Takers
<1> HIDE DEF e
<1>3. /\ u = [tables EXCEPT !.armed = @ \cup {tables.entry[e].driver}]
      /\ sweep' = [sweep EXCEPT !.at = "offer", !.order = o, !.front = e]
  BY DEF Found, Commit, e
<1>4. /\ u.entry = tables.entry /\ u.order = tables.order /\ u.requests = tables.requests
      /\ u.declined = tables.declined /\ u.calledOff = tables.calledOff
  BY <1>1, <1>3 DEF TablesUpTo
<1>5. sweep'.order = o /\ sweep'.front = e
  BY <1>1, <1>3 DEF Pass
<1> HIDE DEF u
<1>6. About(tables, u, None) /\ Said(u) = Said(tables)
  BY <1>4, NothingSeen DEF Akin, Said
<1>7. OneEntry(u) /\ Tidy(u)
  BY <1>6, NoneComesTwice DEF About, AnswersInv
<1>8. FrontMayBeAsked(u, sweep')
  BY <1>2, <1>4, <1>5 DEF FrontMayBeAsked, Refused
<1>9. AnswersInv'
  BY <1>7, <1>8 DEF AnswersInv, u
<1>10. \A p \in Orders : SameFace(tables, u, p)
  BY <1>6, OthersSame, OrdersAssumption
<1> QED BY <1>6, <1>9, <1>10, UnseenConforms DEF u

LEMMA SweepSeekConforms ==
    ASSUME IInv, AnswersInv, PassFits(tables, sweep), SweepSeek
    PROVE  Conforms
<1> DEFINE x == sweep.expired
           o == sweep.order
           next == Takers(tables, o, {x.driver})
<1>1. /\ tables \in TablesUpTo(MaxNumber) /\ MaxNumber \in Nat
      /\ sweep.at = "seek" /\ o \in Orders
  BY TypedNow DEF IInv, PassInv, SweepSeek
<1>2. Matched(tables, {}) /\ x \in Expired /\ Kept(tables, x) /\ o = x.order
  BY <1>1 DEF PassFits
<1>3. x.entry \in Holders(tables, o)
  BY <1>2, HoldersAre DEF Kept, Expired
<1>4. tables.order[o] # NoStatus
  <2>1. tables.order[o] \in ActiveOrderStatuses
    BY <1>1, <1>2, <1>3, HeldOrder
  <2> QED BY <2>1 DEF ActiveOrderStatuses, NoStatus, Waiting, Requested, AcceptedByShipper,
          GoToLoadingPlace, Loading, Loaded, JourneyStarted
<1> HIDE DEF x, o
<1>5. CASE next = {}
  <2>1. tables' = ResetToWaitingIfUnheld(tables, o) /\ sweep' = SweepNext
    BY <1>5 DEF SweepSeek, Commit, x, o
  <2>2. tables' = tables /\ sweep'.at # "offer"
    BY <1>3, <2>1 DEF ResetToWaitingIfUnheld, SweepNext, SweepIdle
  <2> QED BY <2>2, TablesSameConforms
<1>6. CASE next # {}
  <2>1. Found(o, FrontEntry(tables, o, {x.driver}))
    BY <1>6 DEF SweepSeek, x, o
  <2> QED BY <1>1, <1>4, <1>6, <2>1, FoundConforms DEF o
<1> QED BY <1>5, <1>6

LEMMA RescanSeekConforms ==
    ASSUME IInv, AnswersInv, RescanSeek
    PROVE  Conforms
<1> DEFINE served == {o \in PendingOrders(tables) : Takers(tables, o, {}) # {}}
           o == Min(served)
<1>1. served # {} /\ Found(o, FrontEntry(tables, o, {}))
  BY DEF RescanSeek
<1>2. o \in served
  <2>1. served \subseteq Nat
    BY BoundsAssumption DEF PendingOrders, Orders
  <2> HIDE DEF served
  <2> QED BY <1>1, <2>1, MinIn
<1>3. /\ o \in Orders /\ tables.order[o] # NoStatus /\ Takers(tables, o, {}) # {}
  BY <1>2 DEF PendingOrders, Waiting, Requested, NoStatus
<1> HIDE DEF o, served
<1> QED BY <1>1, <1>3, FoundConforms

\* The order goes to the entry the pass found.
LEMMA SweepOfferConforms ==
    ASSUME IInv, IInv', AnswersInv, PassFits(tables, sweep), SweepOffer, Matched(tables', {})
    PROVE  Conforms
<1> DEFINE o == sweep.order
           e == sweep.front
           u == Offer(tables, o, e)
<1>1. /\ tables \in TablesUpTo(MaxNumber) /\ MaxNumber \in Nat /\ sweep \in Pass
      /\ sweep.at = "offer" /\ o \in Orders /\ e \in Entries
  BY TypedNow DEF IInv, PassInv, SweepOffer
<1>2. Offerable(tables, sweep)
  BY <1>1 DEF PassFits
<1>3. tables' = u /\ sweep'.at # "offer"
  <2>1. /\ tables' = u
        /\ sweep' = IF sweep.expired = None THEN SweepIdle
                    ELSE [sweep EXCEPT !.at = "settle", !.front = None]
    BY <1>2 DEF SweepOffer, Offerable, Commit
  <2> QED BY <1>1, <2>1 DEF SweepIdle, Pass
<1>4. tables.order[o] # NoStatus /\ ~Refused(tables, tables.entry[e].driver, o)
  BY <1>1 DEF AnswersInv, FrontMayBeAsked
<1>5. CanTakeRequest(tables, tables.entry[e].driver)
  BY <1>2 DEF Offerable, IInv, TablesInv, Guarded, ArmedIsFree
<1>6. Open(tables, o) /\ Live(tables, e) /\ tables.entry[e].status \in OfferableStatuses
  BY <1>2 DEF Offerable
<1> HIDE DEF o, e
<1>7. About(tables, u, o) /\ Said(u) = Said(tables) /\ PassedOn(u, o)
  BY <1>1, <1>4, <1>5, <1>6, OfferAbout
<1> HIDE DEF u
<1>8. Dispatch!Offered(o) /\ AnswersInv'
  BY <1>1, <1>3, <1>7, MovesOnOffers
<1>9. StageIn(tables, o) \in {"open", "asked"}
  BY <1>4, <1>6, OpenStage
<1>10. Dispatch!Next
  BY <1>1, <1>3, <1>7, <1>8, <1>9, PassesOn
<1> QED BY <1>8, <1>10 DEF Conforms

\* A request that was passed over ends without a word.
LEMMA SweepSettleConforms ==
    ASSUME IInv, IInv', AnswersInv, SweepSettle
    PROVE  Conforms
<1> DEFINE x == sweep.expired
           o == x.order
           gone == LiveRequests(tables, x.driver, o, {Requested})
           u == tables'
<1>1. tables \in TablesUpTo(MaxNumber)
  BY TypedNow
<1>2. sweep'.at # "offer"
  BY DEF SweepSettle, SweepNext, SweepIdle
<1>3. /\ u.entry = tables.entry /\ u.order = tables.order /\ u.requests = tables.requests \ gone
      /\ Said(u) = Said(tables)
  BY <1>1 DEF SweepSettle, Commit, TablesUpTo, Said
<1>4. gone \in SUBSET tables.requests /\ \A r \in gone : r.order = o
  BY DEF LiveRequests
<1> HIDE DEF gone, o, x, u
<1>5. About(tables, u, o)
  <2>1. NoneComes(tables, u) /\ RowsAbout(tables, u, o)
    BY <1>3 DEF NoneComes, RowsAbout, Akin
  <2>2. MovesOn(tables, u, gone, Waiting)
    BY <1>3 DEF MovesOn
  <2>3. \A r \in u.requests : r.order = o => u.order[o] # NoStatus
    BY <1>3 DEF AnswersInv, Tidy, Ordered
  <2>4. tables.requests \subseteq Request /\ u.requests \subseteq Request
    BY <1>1, <1>3 DEF TablesUpTo
  <2>5. \A p \in Orders : p # o => u.order[p] = tables.order[p]
    BY <1>3
  <2> QED BY <1>3, <1>4, <2>1, <2>2, <2>3, <2>4, <2>5, RequestsMove
<1>6. SameFace(tables, u, o)
  BY <1>3, SameHolders DEF Akin
<1> QED BY <1>2, <1>3, <1>5, <1>6, OrderStaysConforms DEF u

-----------------------------------------------------------------------------
(***************************************************************************)
(* The steps together.                                                     *)
(***************************************************************************)
LEMMA InitConforms == Init => Dispatch!Init /\ AnswersInv
<1> SUFFICES ASSUME Init PROVE Dispatch!Init /\ AnswersInv
  OBVIOUS
<1>1. /\ tables.requests = {} /\ Said(tables) = {} /\ sweep.at = "idle"
      /\ \A o \in Orders : tables.order[o] = NoStatus
      /\ \A e \in Entries : ~Standing(tables.entry[e])
  BY DEF Init, EmptyTables, NoRow, SweepIdle, Said, Standing, LiveEntryStatuses,
     InQueueStatuses, JobStatuses, NoStatus, Waiting, Requested, NoAnswer,
     CancelledBeforeAccept, Agreed, GoToLoadingPlace, Loading, Loaded, JourneyStarted
<1>2. AnswersInv
  BY <1>1 DEF AnswersInv, OneEntry, Tidy, OneAnswer, Unsaid, Ordered, FrontMayBeAsked
<1>3. \A o \in Orders : StageIn(tables, o) = "unplaced" /\ DriverIn(tables, o) = None
  BY <1>1 DEF StageIn, DriverIn
<1>4. /\ Stages(tables) = [o \in Orders |-> "unplaced"]
      /\ With(tables) = [o \in Orders |-> None]
  BY <1>3 DEF Stages, With
<1> QED BY <1>1, <1>2, <1>4, StagesNow DEF Dispatch!Init, Said

\* With no call between two of its transactions, every order is settled.
LEMMA SettledNext ==
    ASSUME QInv', inFlight' = {}
    PROVE  Matched(tables', {})
BY DEF QInv, Quiet, PassFits

LEMMA CallConforms ==
    ASSUME IInv, IInv', QInv, QInv', AnswersInv, NEW call \in inFlight, CallStep(call)
    PROVE  Conforms
<1>1. inFlight = {call} /\ sweep = SweepIdle /\ CallFits(tables, call)
  BY DEF QInv, Quiet
<1>2. call.step # "correct"
  BY <1>1 DEF CallFits
<1>3. CASE call.step = "accept" /\ AcceptDecision(call)
  BY <1>1, <1>3, AcceptDecisionConforms
<1>4. CASE call.step = "agree" /\ AcceptLookup(call)
  <2>1. tables' = tables /\ sweep'.at # "offer"
    BY <1>1, <1>4 DEF AcceptLookup, Continue, SweepIdle
  <2> QED BY <2>1, TablesSameConforms
<1>5. CASE call.step = "stamp" /\ AcceptStamp(call)
  <2> DEFINE next == [step |-> "release", order |-> call.order]
  <2>1. inFlight' = {next} /\ next.step = "release"
    BY <1>1, <1>5 DEF AcceptStamp, Continue
  <2> HIDE DEF next
  <2>2. CallFits(tables', next)
    BY <2>1 DEF QInv, Quiet
  <2>3. Matched(tables', {})
    BY <2>1, <2>2 DEF CallFits, TakenUp
  <2> QED BY <1>1, <1>5, <2>3, AcceptStampConforms
<1>6. CASE call.step = "close" /\ CompletionClose(call)
  BY <1>1, <1>6, CompletionCloseConforms
<1>7. CASE call.step = "release" /\ ReleaseRead(call)
  <2>1. tables' = tables /\ sweep'.at # "offer"
    BY <1>1, <1>7 DEF ReleaseRead, Continue, SweepIdle
  <2> QED BY <2>1, TablesSameConforms
<1>8. CASE call.step = "dismiss" /\ ReleaseInvitee(call)
  BY <1>1, <1>8, ReleaseInviteeConforms
<1> QED BY <1>2, <1>3, <1>4, <1>5, <1>6, <1>7, <1>8 DEF CallStep

LEMMA PassConforms ==
    ASSUME IInv, IInv', QInv, QInv', AnswersInv, SweepStep
    PROVE  Conforms
<1>1. sweep.at # "idle" \/ sweep.todo # {}
  BY DEF SweepStep, SweepMark, SweepCharge, SweepSeek, SweepOffer, SweepSettle
<1>2. inFlight = {} /\ PassFits(tables, sweep)
  BY <1>1 DEF QInv, Quiet, SweepIdle
<1>3. Matched(tables', {})
  BY <1>2, SettledNext DEF SweepStep, SweepMark, SweepCharge, SweepSeek, SweepOffer, SweepSettle
<1> QED BY <1>2, <1>3, SweepMarkConforms, SweepChargeConforms, SweepSeekConforms,
       SweepOfferConforms, SweepSettleConforms DEF SweepStep

\* Every step of an orderly queue is a step of OrderDispatch, or none.
LEMMA NextConforms ==
    ASSUME Orderly, IInv, IInv', QInv, QInv', AnswersInv, [Next]_vars
    PROVE  Conforms
<1>1. \A op : Starts(op) =>
         op \in Operations /\ Quiet /\ sweep = SweepIdle /\ Matched(tables, {})
  BY QuietIsMatched DEF Starts, Orderly, Quiet
<1>2. Operations \cap {"remove", "dispatch", "shipperReject", "adminCancel", "reconcile",
                       "restart"} = {}
  BY DEF Orderly
<1>3. Quiet /\ UNCHANGED inFlight => Matched(tables', {})
  BY SettledNext DEF Quiet
<1>4. CASE EntryAction
  <2>1. ASSUME NEW d \in Drivers, NEW s \in Reservations, CheckIn(d, s) \/ ManualCheckin(d, s)
        PROVE  Conforms
    <3>1. /\ Quiet /\ sweep = SweepIdle /\ Matched(tables, {}) /\ JoinLine(d, s)
          /\ InLine(tables, d) = {} /\ ~HasActiveJourney(tables, d)
      BY <1>1, <2>1 DEF CheckIn, ManualCheckin
    <3>2. Matched(tables', {})
      BY <1>3, <3>1 DEF JoinLine, Transaction
    <3> QED BY <3>1, <3>2, JoinLineConforms
  <2>2. ASSUME NEW d \in Drivers, NEW s \in Reservations, CheckInAgain(d, s) PROVE Conforms
    <3>1. sweep = SweepIdle
      BY <1>1, <2>2 DEF CheckInAgain
    <3> QED BY <2>2, <3>1, CheckInAgainConforms
  <2>3. ASSUME NEW d \in Drivers, Checkout(d) PROVE Conforms
    <3>1. Quiet /\ sweep = SweepIdle /\ Matched(tables, {})
      BY <1>1, <2>3 DEF Checkout
    <3>2. Matched(tables', {})
      BY <1>3, <2>3, <3>1 DEF Checkout, Transaction
    <3> QED BY <2>3, <3>1, <3>2, CheckoutConforms
  <2>4. ASSUME NEW d \in Drivers, CancelWaitingRequest(d) PROVE Conforms
    <3>1. sweep = SweepIdle
      BY <1>1, <2>4 DEF CancelWaitingRequest
    <3> QED BY <2>4, <3>1, CancelWaitingRequestConforms
  <2>5. ASSUME NEW e \in Entries, RemoveEntry(e) PROVE FALSE
    BY <1>1, <1>2, <2>5 DEF RemoveEntry
  <2>6. ASSUME NEW e \in Entries, NEW n \in 1..MaxNumber, OverrideEntry(e, n) PROVE Conforms
    <3>1. sweep = SweepIdle
      BY <1>1, <2>6 DEF OverrideEntry
    <3> QED BY <2>6, <3>1, OverrideEntryConforms
  <2> QED BY <1>4, <2>1, <2>2, <2>3, <2>4, <2>5, <2>6 DEF EntryAction
<1>5. CASE OrderAction
  <2>1. ASSUME NEW o \in Orders, PlaceOrder(o) PROVE Conforms
    <3>1. Quiet /\ sweep = SweepIdle /\ Matched(tables, {})
      BY <1>1, <2>1 DEF PlaceOrder
    <3>2. Matched(tables', {})
      BY <1>3, <2>1, <3>1 DEF PlaceOrder, Transaction
    <3> QED BY <2>1, <3>1, <3>2, PlaceOrderConforms
  <2>2. ASSUME NEW o \in Orders, NEW e \in Entries, DispatchToEntry(o, e) PROVE FALSE
    BY <1>1, <1>2, <2>2 DEF DispatchToEntry
  <2>3. ASSUME NEW o \in Orders, DispatchToFront(o) PROVE FALSE
    BY <1>1, <1>2, <2>3 DEF DispatchToFront
  <2>4. ASSUME NEW o \in Orders, NEW s \in {CancelledByShipper, CancelledByAdmin},
               CancelShipperRequest(o, s)
        PROVE  Conforms
    <3>1. sweep = SweepIdle
      BY <1>1, <2>4 DEF CancelShipperRequest
    <3> QED BY <2>4, <3>1, CancelShipperRequestConforms
  <2> QED BY <1>5, <2>1, <2>2, <2>3, <2>4 DEF OrderAction
<1>6. CASE RequestAction
  <2>1. PICK r \in tables.requests :
           \/ \E byDriver \in BOOLEAN : CancelDriverRequest(r, byDriver)
           \/ RejectDriverOffer(r)
           \/ AcceptGate(r)
           \/ LoadingStage(r)
           \/ StartJourney(r)
           \/ CompleteJourney(r)
    BY <1>6 DEF RequestAction
  <2>2. CASE CancelDriverRequest(r, TRUE)
    <3>1. Quiet /\ sweep = SweepIdle /\ Matched(tables, {})
      BY <1>1, <2>2 DEF CancelDriverRequest
    <3>2. Matched(tables', {})
      BY <1>3, <2>2, <3>1 DEF CancelDriverRequest, Transaction
    <3> QED BY <2>2, <3>1, <3>2, CancelDriverRequestConforms
  <2>3. ~CancelDriverRequest(r, FALSE)
    BY <1>1, <1>2 DEF CancelDriverRequest
  <2>4. ~RejectDriverOffer(r)
    BY <1>1, <1>2 DEF RejectDriverOffer
  <2>5. CASE AcceptGate(r)
    <3>1. tables' = tables /\ sweep'.at # "offer"
      BY <1>1, <2>5 DEF AcceptGate, Begin, SweepIdle
    <3> QED BY <3>1, TablesSameConforms
  <2>6. CASE LoadingStage(r)
    <3>1. Quiet /\ sweep = SweepIdle /\ Matched(tables, {})
      BY <1>1, <2>6 DEF LoadingStage
    <3>2. Matched(tables', {})
      BY <1>3, <2>6, <3>1 DEF LoadingStage, Transaction
    <3> QED BY <2>6, <3>1, <3>2, LoadingStageConforms
  <2>7. CASE StartJourney(r)
    <3>1. Quiet /\ sweep = SweepIdle /\ Matched(tables, {})
      BY <1>1, <2>7 DEF StartJourney
    <3>2. Matched(tables', {})
      BY <1>3, <2>7, <3>1 DEF StartJourney, Transaction
    <3> QED BY <2>7, <3>1, <3>2, StartJourneyConforms
  <2>8. CASE CompleteJourney(r)
    <3>1. sweep = SweepIdle
      BY <1>1, <2>8 DEF CompleteJourney
    <3> QED BY <2>8, <3>1, CompleteJourneyConforms
  <2>9. \A byDriver \in BOOLEAN : byDriver = TRUE \/ byDriver = FALSE
    OBVIOUS
  <2> QED BY <2>1, <2>2, <2>3, <2>4, <2>5, <2>6, <2>7, <2>8, <2>9
<1>7. ASSUME NEW found \in SUBSET ExpiredOffers, SweepRead(found) PROVE Conforms
  <2>1. tables' = tables /\ sweep'.at # "offer"
    BY <1>7 DEF SweepRead, SweepIdle
  <2> QED BY <2>1, TablesSameConforms
<1>8. CASE RescanSeek
  BY <1>8, RescanSeekConforms
<1>9. CASE SweepStep
  BY <1>9, PassConforms
<1>10. ASSUME NEW o \in Orders, ReconcileRead(o) PROVE FALSE
  BY <1>1, <1>2, <1>10 DEF ReconcileRead
<1>11. ASSUME NEW call \in inFlight, CallStep(call) PROVE Conforms
  BY <1>11, CallConforms
<1>12. ~Restart
  BY <1>2 DEF Restart
<1>13. CASE UNCHANGED vars
  <2>1. tables' = tables /\ sweep' = sweep
    BY <1>13 DEF vars
  <2>2. AnswersInv'
    BY <2>1 DEF AnswersInv
  <2>3. \A p \in Orders : SameFace(tables, tables', p)
    BY <2>1 DEF SameFace
  <2> QED BY <2>1, <2>2, <2>3, UnseenConforms
<1> QED BY <1>4, <1>5, <1>6, <1>7, <1>8, <1>9, <1>10, <1>11, <1>12, <1>13 DEF Next

\* An order that was asked for was placed, a driver has one request for it, and
\* none that still waits for an answer once it has said no; and the pass never
\* holds a driver that has said no to the order it is about to offer.
THEOREM AnswersInvariant == ASSUME Orderly PROVE Spec => []AnswersInv
<1>1. Init => AnswersInv
  BY InitConforms
<1>2. IInv /\ IInv' /\ QInv /\ QInv' /\ AnswersInv /\ [Next]_vars => AnswersInv'
  BY NextConforms DEF Conforms
<1> QED BY <1>1, <1>2, OrderlyInvariant, PTL DEF Spec

\* Every step of the queue's handlers and of the timer's passes is one step of
\* the dispatch as the shipper and the drivers see it, or changes nothing they
\* see: the queue implements OrderDispatch.
THEOREM QueueImplementsDispatch == ASSUME Orderly PROVE Spec => ImplementsDispatch
<1>1. Init => Dispatch!Init
  BY InitConforms
<1>2. IInv /\ IInv' /\ QInv /\ QInv' /\ AnswersInv /\ [Next]_vars
         => [Dispatch!Next]_(Dispatch!vars)
  BY NextConforms DEF Conforms
<1> QED
  BY <1>1, <1>2, OrderlyInvariant, AnswersInvariant, PTL
  DEF Spec, ImplementsDispatch, Dispatch!Spec

-----------------------------------------------------------------------------
(***************************************************************************)
(* What OrderDispatch promises of every state.                             *)
(***************************************************************************)
\* An order that is asked or taken is so by some driver: without this the no of
\* "the driver the order is with" might be nobody's.
WithSomeDriver ==
    \A o \in Orders : Stages(tables)[o] \in {"asked", "engaged"} => With(tables)[o] \in Drivers

Promises ==
    Dispatch!TypeOK /\ WithSomeDriver /\ Dispatch!DriverHasOneOrder /\ Dispatch!EngagedDidNotRefuse

\* The promises hold before anything is placed.
LEMMA InitPromises == Dispatch!Init => Promises
<1> SUFFICES ASSUME Dispatch!Init PROVE Promises
  OBVIOUS
<1>1. Dispatch!TypeOK
  BY StagesNow, StagesNext DEF Said, Dispatch!Init, Dispatch!TypeOK
<1>2. WithSomeDriver /\ Dispatch!DriverHasOneOrder /\ Dispatch!EngagedDidNotRefuse
  BY StagesNow, StagesNext
  DEF Said, Dispatch!Init, WithSomeDriver, Dispatch!DriverHasOneOrder, Dispatch!EngagedDidNotRefuse
<1> QED BY StagesNow, StagesNext, <1>1, <1>2 DEF Said, Promises

\* What was said before the step stays said, and only of the order it is about
\* is anything new.
LEMMA OfferedKeeps ==
    ASSUME Promises, NEW o \in Orders, Dispatch!Offered(o),
           Said(tables') \in SUBSET (Drivers \X Orders),
           \A d \in Drivers, other \in Orders \ {o} :
              <<d, other>> \in Said(tables') => <<d, other>> \in Said(tables)
    PROVE  Promises'
<1>1. CASE /\ Stages(tables') = [Stages(tables) EXCEPT ![o] = "open"]
           /\ With(tables') = [With(tables) EXCEPT ![o] = None]
  <2>1. Dispatch!TypeOK'
    BY StagesNow, StagesNext, <1>1 DEF Said, Promises, Dispatch!TypeOK
  <2>2. Dispatch!DriverHasOneOrder'
    BY StagesNow, StagesNext, <1>1 DEF Said, Promises, Dispatch!TypeOK, Dispatch!DriverHasOneOrder
  <2>3. Dispatch!EngagedDidNotRefuse'
    <3> SUFFICES ASSUME NEW p \in Orders, Stages(tables')[p] = "engaged"
                 PROVE  <<With(tables')[p], p>> \notin Said(tables')
      BY StagesNow, StagesNext DEF Said, Dispatch!EngagedDidNotRefuse
    <3>1. p # o /\ Stages(tables)[p] = "engaged" /\ With(tables')[p] = With(tables)[p]
      BY StagesNow, StagesNext, <1>1 DEF Said, Promises, Dispatch!TypeOK
    <3> QED BY StagesNow, StagesNext, <3>1 DEF Said, Promises, Dispatch!EngagedDidNotRefuse
  <2>4. WithSomeDriver'
    BY StagesNow, StagesNext, <1>1 DEF Said, Promises, Dispatch!TypeOK, WithSomeDriver
  <2> QED BY StagesNow, StagesNext, <2>1, <2>2, <2>3, <2>4 DEF Said, Promises
<1>2. CASE \E d \in Drivers :
              /\ \A other \in Orders \ {o} : With(tables)[other] # d
              /\ <<d, o>> \notin Said(tables')
              /\ Stages(tables') = [Stages(tables) EXCEPT ![o] = "asked"]
              /\ With(tables') = [With(tables) EXCEPT ![o] = d]
  <2> PICK d \in Drivers :
              /\ \A other \in Orders \ {o} : With(tables)[other] # d
              /\ <<d, o>> \notin Said(tables')
              /\ Stages(tables') = [Stages(tables) EXCEPT ![o] = "asked"]
              /\ With(tables') = [With(tables) EXCEPT ![o] = d]
    BY <1>2
  <2>1. Dispatch!TypeOK'
    BY StagesNow, StagesNext DEF Said, Promises, Dispatch!TypeOK
  <2>2. Dispatch!DriverHasOneOrder'
    BY StagesNow, StagesNext DEF Said, Promises, Dispatch!TypeOK, Dispatch!DriverHasOneOrder
  <2>3. Dispatch!EngagedDidNotRefuse'
    <3> SUFFICES ASSUME NEW p \in Orders, Stages(tables')[p] = "engaged"
                 PROVE  <<With(tables')[p], p>> \notin Said(tables')
      BY StagesNow, StagesNext DEF Said, Dispatch!EngagedDidNotRefuse
    <3>1. p # o /\ Stages(tables)[p] = "engaged" /\ With(tables')[p] = With(tables)[p]
      BY StagesNow, StagesNext DEF Said, Promises, Dispatch!TypeOK
    <3> QED BY StagesNow, StagesNext, <3>1 DEF Said, Promises, Dispatch!EngagedDidNotRefuse
  <2>4. WithSomeDriver'
    BY StagesNow, StagesNext DEF Said, Promises, Dispatch!TypeOK, WithSomeDriver
  <2> QED BY StagesNow, StagesNext, <2>1, <2>2, <2>3, <2>4 DEF Said, Promises
<1> QED BY StagesNow, StagesNext, <1>1, <1>2 DEF Said, Dispatch!Offered

\* Only of the order a driver says no to is anything new said.
LEMMA SaysNoType ==
    ASSUME Dispatch!TypeOK, NEW o \in Orders, With(tables)[o] \in Drivers, Dispatch!SaysNo(o)
    PROVE  /\ Said(tables') \in SUBSET (Drivers \X Orders)
           /\ \A d \in Drivers, other \in Orders \ {o} :
                 <<d, other>> \in Said(tables') => <<d, other>> \in Said(tables)
BY StagesNow, StagesNext DEF Said, Dispatch!TypeOK, Dispatch!SaysNo

\* No step of OrderDispatch breaks them.
LEMMA NextPromises == Promises /\ [Dispatch!Next]_Dispatch!vars => Promises'
<1> SUFFICES ASSUME Promises, [Dispatch!Next]_Dispatch!vars PROVE Promises'
  OBVIOUS
<1>1. CASE UNCHANGED Dispatch!vars
  BY StagesNow, StagesNext, <1>1
  DEF Said, Dispatch!vars, Promises, Dispatch!TypeOK, WithSomeDriver, Dispatch!DriverHasOneOrder,
              Dispatch!EngagedDidNotRefuse
<1>2. CASE Dispatch!Next
  <2> PICK o \in Orders : \/ Dispatch!Place(o) \/ Dispatch!PassOn(o)
                          \/ Dispatch!Refuse(o) \/ Dispatch!Accept(o)
                          \/ Dispatch!GiveBack(o) \/ Dispatch!Close(o)
    BY StagesNow, StagesNext, <1>2 DEF Said, Dispatch!Next
  <2>1. CASE Dispatch!Place(o)
    BY StagesNow, StagesNext, <2>1, OfferedKeeps DEF Said, Dispatch!Place, Promises, Dispatch!TypeOK
  <2>2. CASE Dispatch!PassOn(o)
    <3>1. CASE Said(tables') = Said(tables)
      BY StagesNow, StagesNext, <2>2, <3>1, OfferedKeeps
      DEF Said, Dispatch!PassOn, Promises, Dispatch!TypeOK
    <3>2. CASE Stages(tables)[o] = "asked" /\ Dispatch!SaysNo(o)
      <4>1. With(tables)[o] \in Drivers
        BY StagesNow, StagesNext, <3>2 DEF Said, Promises, WithSomeDriver
      <4> QED BY StagesNow, StagesNext, <2>2, <3>2, <4>1, SaysNoType, OfferedKeeps
        DEF Said, Dispatch!PassOn, Promises
    <3> QED BY StagesNow, StagesNext, <2>2, <3>1, <3>2 DEF Said, Dispatch!PassOn
  <2>3. CASE Dispatch!Refuse(o)
    <3> PICK d \in Drivers : /\ Stages(tables)[o] = "engaged" => d # With(tables)[o]
                             /\ Said(tables') = Said(tables) \cup {<<d, o>>}
      BY StagesNow, StagesNext, <2>3 DEF Said, Dispatch!Refuse
    <3>1. Stages(tables') = Stages(tables) /\ With(tables') = With(tables)
      BY StagesNow, StagesNext, <2>3 DEF Said, Dispatch!Refuse
    <3>2. Dispatch!TypeOK'
      BY StagesNow, StagesNext, <3>1 DEF Said, Promises, Dispatch!TypeOK
    <3>3. WithSomeDriver' /\ Dispatch!DriverHasOneOrder'
      BY StagesNow, StagesNext, <3>1 DEF Said, Promises, WithSomeDriver, Dispatch!DriverHasOneOrder
    <3>4. Dispatch!EngagedDidNotRefuse'
      BY StagesNow, StagesNext, <3>1 DEF Said, Promises, Dispatch!EngagedDidNotRefuse
    <3> QED BY StagesNow, StagesNext, <3>2, <3>3, <3>4 DEF Said, Promises
  <2>4. CASE Dispatch!Accept(o)
    <3>1. /\ <<With(tables)[o], o>> \notin Said(tables) /\ Stages(tables)[o] = "asked"
          /\ Stages(tables') = [Stages(tables) EXCEPT ![o] = "engaged"]
          /\ With(tables') = With(tables) /\ Said(tables') = Said(tables)
      BY StagesNow, StagesNext, <2>4 DEF Said, Dispatch!Accept
    <3>2. Dispatch!TypeOK' /\ WithSomeDriver'
      BY StagesNow, StagesNext, <3>1 DEF Said, Promises, Dispatch!TypeOK, WithSomeDriver
    <3>3. Dispatch!DriverHasOneOrder'
      BY StagesNow, StagesNext, <3>1 DEF Said, Promises, Dispatch!DriverHasOneOrder
    <3>4. Dispatch!EngagedDidNotRefuse'
      BY StagesNow, StagesNext, <3>1
      DEF Said, Promises, Dispatch!TypeOK, Dispatch!EngagedDidNotRefuse
    <3> QED BY StagesNow, StagesNext, <3>2, <3>3, <3>4 DEF Said, Promises
  <2>5. CASE Dispatch!GiveBack(o)
    <3>1. With(tables)[o] \in Drivers
      BY StagesNow, StagesNext, <2>5 DEF Said, Dispatch!GiveBack, Promises, WithSomeDriver
    <3> QED BY StagesNow, StagesNext, <2>5, <3>1, SaysNoType, OfferedKeeps
      DEF Said, Dispatch!GiveBack, Promises
  <2>6. CASE Dispatch!Close(o)
    <3> PICK asked \in SUBSET Drivers : Said(tables') = Said(tables) \cup (asked \X {o})
      BY StagesNow, StagesNext, <2>6 DEF Said, Dispatch!Close
    <3>1. /\ Stages(tables') = [Stages(tables) EXCEPT ![o] = "closed"]
          /\ With(tables') = [With(tables) EXCEPT ![o] = None]
      BY StagesNow, StagesNext, <2>6 DEF Said, Dispatch!Close
    <3>2. Dispatch!TypeOK' /\ WithSomeDriver'
      BY StagesNow, StagesNext, <3>1 DEF Said, Promises, Dispatch!TypeOK, WithSomeDriver
    <3>3. Dispatch!DriverHasOneOrder'
      BY StagesNow, StagesNext, <3>1 DEF Said, Promises, Dispatch!TypeOK, Dispatch!DriverHasOneOrder
    <3>4. Dispatch!EngagedDidNotRefuse'
      <4> SUFFICES ASSUME NEW p \in Orders, Stages(tables')[p] = "engaged"
                   PROVE  <<With(tables')[p], p>> \notin Said(tables')
        BY StagesNow, StagesNext DEF Said, Dispatch!EngagedDidNotRefuse
      <4>1. p # o /\ Stages(tables)[p] = "engaged" /\ With(tables')[p] = With(tables)[p]
        BY StagesNow, StagesNext, <3>1 DEF Said, Promises, Dispatch!TypeOK
      <4> QED BY StagesNow, StagesNext, <4>1 DEF Said, Promises, Dispatch!EngagedDidNotRefuse
    <3> QED BY StagesNow, StagesNext, <3>2, <3>3, <3>4 DEF Said, Promises
  <2> QED BY <2>1, <2>2, <2>3, <2>4, <2>5, <2>6
<1> QED BY <1>1, <1>2

\* What OrderDispatch promises of every step holds of every state: a driver is with
\* one order at most, and a driver that has taken an order did not say no to it.
THEOREM PromisesHold ==
    Dispatch!Spec => [](Dispatch!DriverHasOneOrder /\ Dispatch!EngagedDidNotRefuse)
<1>1. Promises => Dispatch!DriverHasOneOrder /\ Dispatch!EngagedDidNotRefuse
  BY StagesNow, StagesNext DEF Said, Promises
<1> QED BY StagesNow, StagesNext, <1>1, InitPromises, NextPromises, PTL DEF Said, Dispatch!Spec

\* In every state of the queue a driver is with one order at most, and no driver
\* is on the job of an order it refused or let go: what OrderDispatch promises,
\* carried over by the refinement.
THEOREM QueueKeepsPromises ==
    ASSUME Orderly
    PROVE  Spec => [](Dispatch!DriverHasOneOrder /\ Dispatch!EngagedDidNotRefuse)
BY QueueImplementsDispatch, PromisesHold, PTL DEF ImplementsDispatch
=============================================================================
