------------------------------- MODULE Wallet -------------------------------
(***************************************************************************)
(* The ledger of a user's money (UserBalance) and the documents that move  *)
(* it: deposits approved by an admin, deposits paid through the gateway,   *)
(* refunds, transfers between users, commissions, subscriptions.           *)
(*                                                                         *)
(* A call runs in a transaction of its own.  What it decides, it decides   *)
(* on the snapshot its first read takes: the last row of the ledger and    *)
(* the document.  So a call is two steps, one that reads and one that      *)
(* writes everything or nothing, with other calls in between.  Only the    *)
(* gateway's webhook writes outside its transaction.                       *)
(*                                                                         *)
(* Not here: the dates of subscriptions and the admin's own insert, edit   *)
(* and removal of ledger rows.                                             *)
(***************************************************************************)
EXTENDS Integers, Sequences, FiniteSets, FiniteSetsExt

CONSTANTS
    Users, Calls, None,
    Deposits,       \* deposits with a receipt
    Payments,       \* deposits paid through the gateway
    Refunds, Transfers, Commissions, Subscriptions,
    Journeys, DriverOf,     \* journeys that are charged and who drove each
    Amounts,        \* amounts of money, in the smallest unit
    NewAmounts,     \* amounts a document may be changed to
    Outcomes,       \* statuses an admin or the gateway gives a deposit
    MaxDocs,        \* documents made
    MaxCalls        \* calls that read the ledger

Documents == Deposits \cup Payments \cup Refunds \cup Transfers \cup
             Commissions \cup Subscriptions

ASSUME WalletAssumption ==
    /\ None \notin Users
    /\ DriverOf \in [Journeys -> Users]
    /\ Amounts \subseteq Nat \ {0} /\ NewAmounts \subseteq Nat \ {0}
    /\ Outcomes \subseteq {"requested", "approved", "rejected", "PENDING", "COMPLETED", "FAILED"}
    /\ MaxDocs \in Nat /\ MaxCalls \in Nat
    /\ (Deposits \cup Payments) \cap (Refunds \cup Transfers \cup Commissions
                                      \cup Subscriptions) = {}
    /\ Refunds \cap (Transfers \cup Commissions \cup Subscriptions) = {}
    /\ Transfers \cap (Commissions \cup Subscriptions) = {}
    /\ Commissions \cap Subscriptions = {}

VARIABLES
    ledger,         \* the rows of UserBalance, oldest first
    doc,            \* the documents
    calls,          \* calls that have read and not yet written
    overlapped,     \* users for whom, or for a document of whom, two calls were
                    \* under way at once
    edited,         \* deposits given an amount without approving them
    moved,          \* commissions an edit pointed at another journey
    begun           \* calls so far

vars == <<ledger, doc, calls, overlapped, edited, moved, begun>>

-----------------------------------------------------------------------------
Statuses == {"none", "requested", "approved", "rejected", "PENDING", "COMPLETED",
             "FAILED", "made", "removed"}

\* peer: the receiver of a transfer, the journey of a commission, whether a
\* subscription is free, whether a payment carries the gateway's own number.
DocType == [owner : Users \cup {None}, amount : Amounts \cup NewAmounts \cup {0}, status : Statuses,
            deleted : BOOLEAN, peer : Users \cup Journeys \cup BOOLEAN \cup {None}]

NoDoc == [owner |-> None, amount |-> 0, status |-> "none", deleted |-> FALSE, peer |-> None]

RowType == [user : Users, of : Documents, delta : Int, net : Int]

Live(d) == doc[d].status \notin {"none", "removed"} /\ ~doc[d].deleted

Made == {d \in Documents : doc[d].status # "none"}

Pending == {calls[c].of : c \in {x \in Calls : calls[x].busy}}

\* Identifiers are unique, those of calls under way included.
Fresh(d) == d \notin Made \cup Pending /\ Cardinality(Made \cup Pending) < MaxDocs

\* The balance of a user: what the last row says, zero when there is none.
NetOf(rows, u) ==
    LET own == {i \in DOMAIN rows : rows[i].user = u}
    IN  IF own = {} THEN 0 ELSE rows[Max(own)].net

\* Fault: a document's row is written again by every call.
CreateUserBalance_Again(book, row, kind) ==
    [book EXCEPT !.rows = Append(@, row)]

\* A transfer has two rows of the kind "creation", any other document one;
\* rows of the other kinds are always added.
CreateUserBalance(book, row, kind) ==
    LET written == Cardinality({i \in DOMAIN book.rows : book.rows[i].of = row.of})
        full == IF row.of \in Transfers THEN written >= 2
                ELSE kind = "creation" /\ written > 0
    IN  IF full THEN book ELSE [book EXCEPT !.rows = Append(@, row)]

\* Fault: money added to a debt is always accepted, and a refused half of a
\* call does not stop the other half.
PrepareAndCreateNewBalance_Half(book, u, d, delta, kind) ==
    LET net == NetOf(book.rows, u) + delta
    IN  IF delta > 0 /\ net <= 0 THEN book
        ELSE CreateUserBalance(book, [user |-> u, of |-> d, delta |-> delta, net |-> net],
                               "creation")

\* Fault: a call does not see the row it has just written.
PrepareAndCreateNewBalance_Stale(book, u, d, delta, kind) ==
    LET net == NetOf(ledger, u) + delta
    IN  IF ~book.ok THEN book
        ELSE IF delta > 0 /\ net <= 0 THEN [book EXCEPT !.ok = FALSE]
        ELSE CreateUserBalance(book, [user |-> u, of |-> d, delta |-> delta, net |-> net],
                               "creation")

\* The kind the caller passes is not among the arguments that are read, and
\* a row is always a "creation".  Adding to a debt larger than what is added
\* is refused, and with it the call; taking away never is.
PrepareAndCreateNewBalance(book, u, d, delta, kind) ==
    LET net == NetOf(book.rows, u) + delta
    IN  IF ~book.ok THEN book
        ELSE IF delta > 0 /\ net <= 0 THEN [book EXCEPT !.ok = FALSE]
        ELSE CreateUserBalance(book, [user |-> u, of |-> d, delta |-> delta, net |-> net],
                               "creation")

\* The columns a request gives, and an UPDATE of a document's row with them.
Given(cols) == [f \in {g \in DOMAIN cols : cols[g] # None} |-> cols[f]]
Updated(row, cols) == [f \in DOMAIN row |-> IF f \in DOMAIN cols THEN cols[f] ELSE row[f]]

Book == [rows |-> ledger, ok |-> TRUE]

Replace(book, u, d, old, new) ==
    PrepareAndCreateNewBalance(
        PrepareAndCreateNewBalance(book, u, d, -old, "reversal"), u, d, new, "adjustment")

-----------------------------------------------------------------------------
Idle == [busy |-> FALSE, users |-> {}, rows |-> << >>, ok |-> TRUE, of |-> None,
         live |-> FALSE, cols |-> << >>]

Busy(u) == \E c \in Calls : calls[c].busy /\ u \in calls[c].users

\* Whom a call meets that is for these users or for this document.
Met(users, d) ==
    {u \in users : Busy(u)} \cup
    UNION {users \cup calls[x].users : x \in {y \in Calls : calls[y].busy /\ calls[y].of = d}}

\* A call reads: it knows the rows it will add, the document it will write
\* with which columns, and whether that write asks for a row not deleted.
Read(c, users, book, d, live, cols) ==
    /\ ~calls[c].busy
    /\ begun < MaxCalls
    /\ begun' = begun + 1
    /\ calls' = [calls EXCEPT ![c] =
         [busy |-> TRUE, users |-> users, ok |-> book.ok, of |-> d, live |-> live,
          rows |-> SubSeq(book.rows, Len(ledger) + 1, Len(book.rows)), cols |-> cols]]
    /\ overlapped' = overlapped \cup Met(users, d)

\* The process stops, or the call throws: the transaction is rolled back.
Crash(c) ==
    /\ calls[c].busy
    /\ calls' = [calls EXCEPT ![c] = Idle]
    /\ UNCHANGED <<ledger, doc, overlapped, edited, moved, begun>>

\* An edit that names the journey of a commission.
Moves(call) == call.live /\ "peer" \in DOMAIN call.cols

\* Fault: a refused row of the ledger does not stop the document's update.
Commit_NoRows(c) ==
    /\ calls[c].busy
    /\ calls[c].ok \/ calls[c].cols # << >>
    /\ calls[c].live => ~doc[calls[c].of].deleted
    /\ ledger' = IF calls[c].ok THEN ledger \o calls[c].rows ELSE ledger
    /\ doc' = [doc EXCEPT ![calls[c].of] = Updated(@, calls[c].cols)]
    /\ moved' = IF Moves(calls[c]) THEN moved \cup {calls[c].of} ELSE moved
    /\ calls' = [calls EXCEPT ![c] = Idle]
    /\ UNCHANGED <<overlapped, edited, begun>>

\* Everything a call decided is written at once, unless the row it must find
\* undeleted is gone by then.
Commit(c) ==
    /\ calls[c].busy
    /\ calls[c].ok
    /\ calls[c].live => ~doc[calls[c].of].deleted
    /\ ledger' = ledger \o calls[c].rows
    /\ doc' = [doc EXCEPT ![calls[c].of] = Updated(@, calls[c].cols)]
    /\ moved' = IF Moves(calls[c]) THEN moved \cup {calls[c].of} ELSE moved
    /\ calls' = [calls EXCEPT ![c] = Idle]
    /\ UNCHANGED <<overlapped, edited, begun>>

-----------------------------------------------------------------------------
\* Statements that neither read the ledger nor decide on what they read.
Write(d, cols) ==
    /\ doc' = [doc EXCEPT ![d] = Updated(@, cols)]
    /\ UNCHANGED <<ledger, calls, overlapped, edited, moved, begun>>

CreateUserDeposit(d, u, amount) ==
    /\ Fresh(d)
    /\ Write(d, [owner |-> u, amount |-> amount, status |-> "requested"])

InitiateSantimPayPayment(d, u, amount) ==
    /\ Fresh(d)
    /\ Write(d, [owner |-> u, amount |-> amount, status |-> "PENDING", peer |-> FALSE])

\* An admin changes the status, the amount, the owner; None leaves a column.
\* An amount is replaced in the ledger whether or not it is there already; the
\* ledger knows the owner of before.
UpdateUserDeposit(c, d, status, amount, owner) ==
    LET cols == Given([status |-> status, amount |-> amount, owner |-> owner])
        approving == status = "approved" /\ doc[d].status # "approved"
        u == doc[d].owner
        book == IF approving
                THEN PrepareAndCreateNewBalance(Book, u, d,
                        IF amount = None THEN doc[d].amount ELSE amount, "creation")
                ELSE IF amount \notin {None, doc[d].amount}
                THEN Replace(Book, u, d, doc[d].amount, amount)
                ELSE Book
    IN  /\ Live(d)
        /\ DOMAIN cols # {}
        /\ Read(c, {u}, book, d, FALSE, cols)
        /\ edited' = IF ~approving /\ amount # None
                     THEN edited \cup {d} ELSE edited
        /\ UNCHANGED <<ledger, doc, moved>>

DeleteUserDeposit(c, d) ==
    LET book == IF doc[d].status = "approved"
                THEN PrepareAndCreateNewBalance(Book, doc[d].owner, d, -doc[d].amount, "reversal")
                ELSE Book
    IN  /\ Live(d)
        /\ Read(c, {doc[d].owner}, book, d, TRUE, [deleted |-> TRUE])
        /\ UNCHANGED <<ledger, doc, edited, moved>>

\* The gateway tells the outcome of a payment, any number of times.  The
\* document is written through the pool, at once; the ledger row belongs to
\* the transaction of the call.
SantimPayWebhook(c, d, status) ==
    LET book == IF status = "COMPLETED"
                THEN PrepareAndCreateNewBalance(Book, doc[d].owner, d, doc[d].amount, "creation")
                ELSE Book
    IN  /\ Live(d)
        /\ ~(doc[d].status = "COMPLETED" /\ doc[d].peer = TRUE)
        /\ doc' = [doc EXCEPT ![d].status = status, ![d].peer = TRUE]
        /\ Read(c, {doc[d].owner}, book, d, FALSE, << >>)
        /\ UNCHANGED <<ledger, edited, moved>>

\* A refund is asked for within the balance of the moment.  The same request
\* again within five minutes changes nothing.
CreateUserRefund(c, d, u, amount) ==
    /\ Fresh(d)
    /\ \E i \in DOMAIN ledger : ledger[i].user = u
    /\ NetOf(ledger, u) >= amount
    /\ Read(c, {u}, Book, d, FALSE, [owner |-> u, amount |-> amount, status |-> "requested"])
    /\ UNCHANGED <<ledger, doc, edited, moved>>

\* Any column may be given; what is approved is the amount and the owner of
\* before.
UpdateUserRefund(c, d, status, amount, owner) ==
    LET cols == Given([status |-> status, amount |-> amount, owner |-> owner])
        book == IF status = "approved"
                THEN PrepareAndCreateNewBalance(Book, doc[d].owner, d, -doc[d].amount, "creation")
                ELSE Book
    IN  /\ Live(d)
        /\ DOMAIN cols # {}
        /\ ~(status = "approved" /\ doc[d].status = "approved")
        /\ Read(c, {doc[d].owner}, book, d, FALSE, cols)
        /\ UNCHANGED <<ledger, doc, edited, moved>>

DeleteRefund(d) ==
    /\ Live(d)
    /\ Write(d, [status |-> "removed"])

\* What leaves one balance arrives on the other.
CreateTransfer(c, d, from, to, amount) ==
    LET book == PrepareAndCreateNewBalance(
                  PrepareAndCreateNewBalance(Book, from, d, -amount, "creation"),
                  to, d, amount, "creation")
    IN  /\ Fresh(d)
        /\ Read(c, {from, to}, book, d, FALSE,
                [owner |-> from, peer |-> to, amount |-> amount, status |-> "made"])
        /\ UNCHANGED <<ledger, doc, edited, moved>>

UpdateTransfer(d, amount) ==
    /\ Live(d)
    /\ Write(d, [amount |-> amount])

DeleteTransfer(d) ==
    /\ Live(d)
    /\ Write(d, [status |-> "removed"])

\* Fault: a journey may be charged more than once.
CreateCommission_Twice(c, d, j, amount) ==
    LET u == DriverOf[j]
    IN  /\ Fresh(d)
        /\ Read(c, {u}, PrepareAndCreateNewBalance(Book, u, d, -amount, "creation"), d, FALSE,
                [owner |-> u, peer |-> j, amount |-> amount, status |-> "made"])
        /\ UNCHANGED <<ledger, doc, edited, moved>>

\* The platform's share of a completed journey, once per journey.
CreateCommission(c, d, j, amount) ==
    LET u == DriverOf[j]
    IN  /\ Fresh(d)
        /\ ~\E m \in Commissions : Live(m) /\ doc[m].peer = j
        /\ Read(c, {u}, PrepareAndCreateNewBalance(Book, u, d, -amount, "creation"), d, FALSE,
                [owner |-> u, peer |-> j, amount |-> amount, status |-> "made"])
        /\ UNCHANGED <<ledger, doc, edited, moved>>

\* An admin changes the amount, the journey, both or neither; no other
\* commission of the journey is looked for.  Whatever was changed, the old
\* amount is given back to the driver of before and the new one taken from the
\* driver of now.
UpdateCommission(c, d, amount, j) ==
    LET driver == IF j = None THEN doc[d].owner ELSE DriverOf[j]
        back == PrepareAndCreateNewBalance(Book, doc[d].owner, d, doc[d].amount, "reversal")
        book == PrepareAndCreateNewBalance(back, driver, d,
                    -(IF amount = None THEN doc[d].amount ELSE amount), "adjustment")
    IN  /\ Live(d)
        /\ Read(c, {doc[d].owner, driver}, book, d, TRUE,
                Given([amount |-> amount, peer |-> j,
                       owner |-> IF j = None THEN None ELSE driver]))
        /\ UNCHANGED <<ledger, doc, edited, moved>>

DeleteCommission(c, d) ==
    /\ Live(d)
    /\ Read(c, {doc[d].owner},
            PrepareAndCreateNewBalance(Book, doc[d].owner, d, doc[d].amount, "reversal"), d, TRUE,
            [deleted |-> TRUE])
    /\ UNCHANGED <<ledger, doc, edited, moved>>

FreeBefore(u) ==
    \E s \in Subscriptions : Live(s) /\ doc[s].owner = u /\ doc[s].peer = TRUE

\* A plan is paid from the balance; the free plan, once per driver, adds its
\* price to it.
CreateUserSubscription(c, d, u, free, amount) ==
    /\ Fresh(d)
    /\ free => ~FreeBefore(u)
    /\ Read(c, {u}, PrepareAndCreateNewBalance(Book, u, d, IF free THEN amount ELSE -amount,
                                               "creation"), d, FALSE,
            [owner |-> u, peer |-> free, amount |-> amount, status |-> "made"])
    /\ UNCHANGED <<ledger, doc, edited, moved>>

DeleteUserSubscription(d) ==
    /\ Live(d)
    /\ Write(d, [deleted |-> TRUE])

-----------------------------------------------------------------------------
Init ==
    /\ ledger = << >>
    /\ doc = [d \in Documents |-> NoDoc]
    /\ calls = [c \in Calls |-> Idle]
    /\ overlapped = {}
    /\ edited = {}
    /\ moved = {}
    /\ begun = 0

Next ==
    \/ \E c \in Calls : Commit(c) \/ Crash(c)
    \/ \E u \in Users, a \in Amounts :
         \/ \E d \in Deposits : CreateUserDeposit(d, u, a)
         \/ \E d \in Payments : InitiateSantimPayPayment(d, u, a)
         \/ \E c \in Calls, d \in Refunds : CreateUserRefund(c, d, u, a)
         \/ \E c \in Calls, d \in Transfers, v \in Users : CreateTransfer(c, d, u, v, a)
         \/ \E c \in Calls, d \in Subscriptions, free \in BOOLEAN :
              CreateUserSubscription(c, d, u, free, a)
    \/ \E d \in Refunds : DeleteRefund(d)
    \/ \E d \in Transfers : DeleteTransfer(d) \/ \E a \in NewAmounts : UpdateTransfer(d, a)
    \/ \E d \in Subscriptions : DeleteUserSubscription(d)
    \/ \E c \in Calls, d \in Deposits \cup Payments :
         \/ \E s \in Outcomes \cup {None}, a \in NewAmounts \cup {None}, u \in Users \cup {None} :
              UpdateUserDeposit(c, d, s, a, u)
         \/ DeleteUserDeposit(c, d)
    \/ \E c \in Calls, d \in Payments, s \in Outcomes \cap {"COMPLETED", "FAILED", "PENDING"} :
         SantimPayWebhook(c, d, s)
    \/ \E c \in Calls, d \in Refunds, s \in {"requested", "approved", None},
          a \in NewAmounts \cup {None}, u \in Users \cup {None} :
         UpdateUserRefund(c, d, s, a, u)
    \/ \E c \in Calls, d \in Commissions :
         \/ \E j \in Journeys, a \in Amounts : CreateCommission(c, d, j, a)
         \/ \E a \in NewAmounts \cup {None}, j \in Journeys \cup {None} :
              UpdateCommission(c, d, a, j)
         \/ DeleteCommission(c, d)

Spec == Init /\ [][Next]_vars

-----------------------------------------------------------------------------
\* Every variable has its type.
TypeOK ==
    /\ ledger \in Seq(RowType)
    /\ doc \in [Documents -> DocType]
    /\ overlapped \subseteq Users
    /\ begun \in 0..MaxCalls
    /\ edited \subseteq Deposits \cup Payments
    /\ moved \subseteq Commissions
    /\ DOMAIN calls = Calls
    /\ \A c \in Calls :
         /\ calls[c].busy \in BOOLEAN /\ calls[c].ok \in BOOLEAN
         /\ calls[c].users \subseteq Users
         /\ calls[c].rows \in Seq(RowType)
         /\ calls[c].busy => calls[c].of \in Documents

RowsOf(d) == {i \in DOMAIN ledger : ledger[i].of = d}

\* The running total (UserBalance.post.service.js): every row of a user is
\* the row before it plus what the document moved, as long as no two calls
\* for that user were under way at once; calls for others, refusals, crashes,
\* redelivered webhooks and self-transfers do not break it.
RunningTotal ==
    \A i \in DOMAIN ledger :
        ledger[i].user \notin overlapped =>
            ledger[i].net = NetOf(SubSeq(ledger, 1, i - 1), ledger[i].user) + ledger[i].delta

\* Written once (createUserBalance): approving twice, a webhook delivered
\* again, an approval after the gateway's credit and an edit after it leave
\* one row of a document, a transfer two, while the calls for the user do
\* not overlap.
WrittenOnce ==
    \A d \in Documents : \A i \in RowsOf(d) :
        \/ ledger[i].user \in overlapped
        \/ Cardinality(RowsOf(d)) <= IF d \in Transfers THEN 2 ELSE 1

\* A transfer (createTransfer) is never half done: its rows, if any, are two
\* and sum to nothing, whatever overlaps and wherever the process stops.
TransferIsWhole ==
    \A d \in Transfers :
        /\ doc[d].status = "made" => RowsOf(d) # {}
        /\ RowsOf(d) # {} =>
             \E i, j \in RowsOf(d) :
                RowsOf(d) = {i, j} /\ i # j /\ ledger[i].delta + ledger[j].delta = 0

\* A deposit that counts as approved (updateUserDepositByUniqueId) has been
\* credited, whatever statuses it went through before, whatever overlapped
\* and wherever the process stopped, unless its amount was edited without
\* approving it: such an edit writes the row that keeps the credit out.
ApprovedIsCredited ==
    \A d \in Deposits \cup Payments :
        doc[d].status = "approved" /\ d \notin edited =>
            \E i \in RowsOf(d) : ledger[i].delta > 0

\* A journey is charged once (createCommission), also after a commission was
\* deleted and made again and after others were moved to it or away, while the
\* calls for its driver do not overlap: of two commissions of a journey an
\* edit put one there.
ChargedOnce ==
    \A d, e \in Commissions :
        /\ d # e /\ Live(d) /\ Live(e) /\ doc[d].peer = doc[e].peer
        /\ {d, e} \cap moved = {}
        => doc[d].owner \in overlapped

\* Deleting an approved deposit takes its money back: a reversal row is
\* always appended (deleteUserDepositByUniqueId).  It is not: the kind is
\* dropped on the way and the row is taken for a repeated creation.
DeletedIsReversed ==
    \A d \in Deposits :
        doc[d].deleted /\ doc[d].status = "approved" =>
            \E i \in RowsOf(d) : ledger[i].delta < 0
=============================================================================
