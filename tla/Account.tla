------------------------------- MODULE Account -------------------------------
(***************************************************************************)
(* The status of a driver's account (UserRoleStatusCurrent) and what moves *)
(* it: the evaluation of vehicle, documents and subscription, the review   *)
(* of documents, bans, the deletion of an account and its restoration.     *)
(*                                                                         *)
(* A request is one transaction and one step.  An evaluation outside a     *)
(* request reads the status, reads the facts and writes the verdict in     *)
(* three steps.  A review is two: the callback of its transaction, which   *)
(* queues an evaluation, and the COMMIT.                                   *)
(*                                                                         *)
(* One mandatory document of the driver's own and one of the vehicle stand *)
(* for all of them.  What the subscription and the wallet hold is seen     *)
(* only as the driver's standing.                                          *)
(***************************************************************************)
EXTENDS Integers, FiniteSets

CONSTANTS
    Users, Bans, None,
    Kinds,          \* documents asked for: "own", "vehicle"
    Tasks,          \* evaluations that can be under way at once
    AdminChoices,   \* statuses an admin gives when lifting a ban
    MaxReviews,     \* reviews
    MaxPolls,       \* evaluations nobody queued
    MaxChanges,     \* other changes of the facts
    MaxOrders       \* bans and what befalls them, deletions of an account

Active == 1
VehicleNotRegistered == 2
DocumentsMissing == 3
DocumentsRejected == 4
DocumentsPending == 5
Banned == 6
NoSubscription == 7
AccountDeleted == 8

Statuses == Active .. AccountDeleted

ASSUME AccountAssumption ==
    /\ "own" \in Kinds /\ Kinds \subseteq {"own", "vehicle"}
    /\ None \notin Users /\ AdminChoices \subseteq Statuses
    /\ MaxReviews \in Nat /\ MaxPolls \in Nat
    /\ MaxChanges \in Nat /\ MaxOrders \in Nat

VARIABLES
    status,         \* UserRoleStatusCurrent.statusId of each driver
    archived,       \* the newest status in the history that is not "deleted"
    deleted,        \* Users.isDeleted
    vehicle,        \* whether an active assignment gives the driver a vehicle
    docs,           \* the acceptance of each document
    standing,       \* "paid", "grace" or "none"
    bans,           \* the rows of BannedUsers
    open,           \* reviews whose transaction has not committed
    waiting,        \* evaluations in the queue of each user
    evals,          \* evaluations under way
    since,          \* whether each user was evaluated or changed last
    spent           \* what was used of each bound

facts == <<vehicle, docs, standing>>
vars == <<status, archived, deleted, vehicle, docs, standing, bans, open, waiting, evals,
          since, spent>>

-----------------------------------------------------------------------------
Acceptance == {"none", "PENDING", "ACCEPTED", "REJECTED"}
Outcomes == {"ACCEPTED", "REJECTED"}

BanType == [user : Users \cup {None}, active : BOOLEAN, expired : BOOLEAN]
ReviewType == [user : Users, kind : Kinds, outcome : Outcomes]

\* clean: nothing was done to the user since the evaluation began.
TaskType == [user : Users \cup {None}, queued : BOOLEAN, at : {"idle", "begun", "read"},
             seen : Statuses, verdict : Statuses, clean : BOOLEAN]

Rest == [user |-> None, queued |-> FALSE, at |-> "idle", seen |-> Active,
         verdict |-> Active, clean |-> FALSE]

-----------------------------------------------------------------------------
\* The documents an evaluation looks at.
Papers(driving, papers) == {papers[k] : k \in {x \in Kinds : x = "own" \/ driving}}

\* The ladder of accountStatus.  The list of bans it reads has no field
\* isBanned, so its first rung never holds; nothing it gives is the status of
\* a grace period that has ended.
VerdictOf(driving, papers, paying) ==
    IF paying = "grace" THEN DocumentsMissing
    ELSE IF ~driving THEN VehicleNotRegistered
    ELSE IF "REJECTED" \in Papers(driving, papers) THEN DocumentsRejected
    ELSE IF "none" \in Papers(driving, papers) THEN DocumentsMissing
    ELSE IF "PENDING" \in Papers(driving, papers) THEN DocumentsPending
    ELSE IF paying = "none" THEN NoSubscription
    ELSE Active

Verdict(u) == VerdictOf(vehicle[u], docs[u], standing[u])

\* Accounts as their first evaluation left them, with a free subscription and
\* no document reviewed; a new account has no vehicle.
Init ==
    /\ vehicle \in [Users -> BOOLEAN]
    /\ docs \in [Users -> [Kinds -> {"none", "PENDING"}]]
    /\ standing = [u \in Users |-> "paid"]
    /\ status = [u \in Users |-> Verdict(u)]
    /\ archived = [u \in Users |-> IF Verdict(u) = VehicleNotRegistered THEN None
                                  ELSE VehicleNotRegistered]
    /\ deleted = [u \in Users |-> FALSE]
    /\ bans = [b \in Bans |-> [user |-> None, active |-> FALSE, expired |-> FALSE]]
    /\ open = {}
    /\ waiting = [u \in Users |-> 0]
    /\ evals = [t \in Tasks |-> Rest]
    /\ since = [u \in Users |-> "changed"]
    /\ spent = [review |-> 0, poll |-> 0, change |-> 0, order |-> 0]

\* The other ladder, of a restored driver no history is known of.
LiveStatus(u) ==
    IF ~vehicle[u] THEN VehicleNotRegistered
    ELSE IF standing[u] # "paid" THEN NoSubscription
    ELSE IF "REJECTED" \in Papers(TRUE, docs[u]) THEN DocumentsRejected
    ELSE IF "none" \in Papers(TRUE, docs[u]) THEN DocumentsMissing
    ELSE IF "PENDING" \in Papers(TRUE, docs[u]) THEN DocumentsPending
    ELSE Active

LiveBan(u) == \E b \in Bans : bans[b].user = u /\ bans[b].active /\ ~bans[b].expired

\* The facts or the status of a user change: what an evaluation under way has
\* read of them is old.
Dirtied(u, tasks) ==
    [t \in Tasks |-> IF tasks[t].user = u THEN [tasks[t] EXCEPT !.clean = FALSE] ELSE tasks[t]]

Disturb(u) ==
    /\ since' = [since EXCEPT ![u] = "changed"]
    /\ evals' = Dirtied(u, evals)

Change(u) ==
    /\ spent.change < MaxChanges
    /\ spent' = [spent EXCEPT !.change = @ + 1]
    /\ Disturb(u)

Order ==
    /\ spent.order < MaxOrders
    /\ spent' = [spent EXCEPT !.order = @ + 1]

\* updateUserRoleStatus: the old status goes to the history.
SetStatus(u, s) ==
    /\ archived' = [archived EXCEPT ![u] = IF status[u] = AccountDeleted THEN @ ELSE status[u]]
    /\ status' = [status EXCEPT ![u] = s]

-----------------------------------------------------------------------------
\* Documents.
Unlocked(u, k) == \A r \in open : r.user # u \/ r.kind # k

\* An evaluation follows a driver's own document, in the same transaction; a
\* deleted account is left as it is.
Upload(u, k) ==
    LET papers == [docs[u] EXCEPT ![k] = "PENDING"]
        verdict == VerdictOf(vehicle[u], papers, standing[u])
    IN  /\ docs[u][k] = "none"
        /\ docs' = [docs EXCEPT ![u] = papers]
        /\ IF k = "own" /\ status[u] \notin {AccountDeleted, verdict}
           THEN SetStatus(u, verdict)
           ELSE UNCHANGED <<status, archived>>
        /\ Change(u)
        /\ UNCHANGED <<deleted, vehicle, standing, bans, open, waiting>>

\* A new version of a document awaits review.  No evaluation follows.
UpdateDocument(u, k) ==
    /\ docs[u][k] # "none" /\ Unlocked(u, k)
    /\ docs' = [docs EXCEPT ![u][k] = "PENDING"]
    /\ Change(u)
    /\ UNCHANGED <<status, archived, deleted, vehicle, standing, bans, open, waiting>>

DeleteDocument(u, k) ==
    /\ docs[u][k] # "none" /\ Unlocked(u, k)
    /\ docs' = [docs EXCEPT ![u][k] = "none"]
    /\ Change(u)
    /\ UNCHANGED <<status, archived, deleted, vehicle, standing, bans, open, waiting>>

\* The callback of a review.  The evaluation it puts in the user's queue does
\* not wait for the COMMIT; a vehicle's document concerns who drives it.
Review(u, k, o) ==
    /\ spent.review < MaxReviews
    /\ docs[u][k] # "none" /\ Unlocked(u, k)
    /\ open' = open \cup {[user |-> u, kind |-> k, outcome |-> o]}
    /\ waiting' = [waiting EXCEPT ![u] = IF k = "own" \/ vehicle[u] THEN @ + 1 ELSE @]
    /\ spent' = [spent EXCEPT !.review = @ + 1]
    /\ UNCHANGED <<status, archived, deleted, vehicle, docs, standing, bans, evals, since>>

Commit(r) ==
    /\ r \in open
    /\ open' = open \ {r}
    /\ docs' = [docs EXCEPT ![r.user][r.kind] = r.outcome]
    /\ Disturb(r.user)
    /\ UNCHANGED <<status, archived, deleted, vehicle, standing, bans, waiting, spent>>

-----------------------------------------------------------------------------
\* An evaluation begins by reading the status; it leaves a deleted account.
Begun(u, queued) ==
    IF status[u] = AccountDeleted THEN Rest
    ELSE [user |-> u, queued |-> queued, at |-> "begun", seen |-> status[u],
          verdict |-> status[u], clean |-> TRUE]

\* Fault: an evaluation does not wait for the one queued before it.
NextInQueue_Overlapping(u) == waiting[u] > 0

\* The queue of a user is a chain of promises.
NextInQueue(u) ==
    waiting[u] > 0 /\ \A t \in Tasks : evals[t].user # u \/ ~evals[t].queued

StartQueued(t, u) ==
    /\ evals[t].at = "idle"
    /\ NextInQueue(u)
    /\ waiting' = [waiting EXCEPT ![u] = @ - 1]
    /\ evals' = [evals EXCEPT ![t] = Begun(u, TRUE)]
    /\ UNCHANGED <<status, archived, deleted, facts, bans, open, since, spent>>

\* The account is opened in the app, or a vehicle was assigned or taken away.
StartPoll(t, u) ==
    /\ evals[t].at = "idle"
    /\ spent.poll < MaxPolls
    /\ spent' = [spent EXCEPT !.poll = @ + 1]
    /\ evals' = [evals EXCEPT ![t] = Begun(u, FALSE)]
    /\ UNCHANGED <<status, archived, deleted, facts, bans, open, waiting, since>>

ReadFacts(t) ==
    /\ evals[t].at = "begun"
    /\ evals' = [evals EXCEPT ![t].at = "read", ![t].verdict = Verdict(evals[t].user)]
    /\ UNCHANGED <<status, archived, deleted, facts, bans, open, waiting, since, spent>>

Differs(e) == e.seen # e.verdict

\* The verdict is written when it is not the status that was read.
WriteVerdict(t) ==
    LET e == evals[t]
        u == e.user
        done == [evals EXCEPT ![t] = Rest]
    IN  /\ e.at = "read"
        /\ IF Differs(e) THEN SetStatus(u, e.verdict) ELSE UNCHANGED <<status, archived>>
        /\ since' = [since EXCEPT ![u] = IF e.queued /\ e.clean THEN "evaluated"
                                        ELSE IF ~e.queued /\ Differs(e) THEN "changed" ELSE @]
        /\ evals' = IF ~e.queued /\ Differs(e) THEN Dirtied(u, done) ELSE done
        /\ UNCHANGED <<deleted, facts, bans, open, waiting, spent>>

-----------------------------------------------------------------------------
\* Vehicle and standing.
AssignVehicle(u) ==
    /\ ~vehicle[u]
    /\ vehicle' = [vehicle EXCEPT ![u] = TRUE]
    /\ Change(u)
    /\ UNCHANGED <<status, archived, deleted, docs, standing, bans, open, waiting>>

ReleaseVehicle(u) ==
    /\ vehicle[u]
    /\ vehicle' = [vehicle EXCEPT ![u] = FALSE]
    /\ Change(u)
    /\ UNCHANGED <<status, archived, deleted, docs, standing, bans, open, waiting>>

\* A subscription is bought or money arrives; a free one ends and its days of
\* grace pass.
ChangeStanding(u) ==
    /\ \E s \in IF standing[u] = "paid" THEN {"grace", "none"}
                ELSE IF standing[u] = "grace" THEN {"paid", "none"} ELSE {"paid"} :
          standing' = [standing EXCEPT ![u] = s]
    /\ Change(u)
    /\ UNCHANGED <<status, archived, deleted, vehicle, docs, bans, open, waiting>>

-----------------------------------------------------------------------------
\* Bans.
Issued(b, u) == bans' = [bans EXCEPT ![b] = [user |-> u, active |-> TRUE, expired |-> FALSE]]

BanUser(b, u) ==
    /\ Order
    /\ bans[b].user = None /\ ~LiveBan(u)
    /\ Issued(b, u)
    /\ SetStatus(u, Banned)
    /\ Disturb(u)
    /\ UNCHANGED <<deleted, facts, open, waiting>>

\* The points of a user reach a threshold: the status is not touched.
AutomaticBan(b, u) ==
    /\ Order
    /\ bans[b].user = None /\ ~LiveBan(u)
    /\ Issued(b, u)
    /\ UNCHANGED <<status, archived, deleted, facts, open, waiting, evals, since>>

\* Time passes, or an admin moves the end of a ban.
MoveExpiry(b) ==
    /\ Order
    /\ bans[b].user # None
    /\ bans' = [bans EXCEPT ![b].expired = ~@]
    /\ UNCHANGED <<status, archived, deleted, facts, open, waiting, evals, since>>

DeactivateBan(b) ==
    /\ Order
    /\ bans[b].active
    /\ bans' = [bans EXCEPT ![b].active = FALSE]
    /\ UNCHANGED <<status, archived, deleted, facts, open, waiting, evals, since>>

\* The ban and the account are two parameters of the request; nothing says
\* that the ban is of this account.
UnbanUser(b, u, s) ==
    /\ Order
    /\ bans[b].user # None
    /\ bans' = [bans EXCEPT ![b].active = FALSE]
    /\ SetStatus(u, s)
    /\ Disturb(u)
    /\ UNCHANGED <<deleted, facts, open, waiting>>

-----------------------------------------------------------------------------
\* Deletion.  The history is not written.
DeleteUser(u) ==
    /\ ~deleted[u] /\ Order
    /\ deleted' = [deleted EXCEPT ![u] = TRUE]
    /\ status' = [status EXCEPT ![u] = AccountDeleted]
    /\ Disturb(u)
    /\ UNCHANGED <<archived, facts, bans, open, waiting>>

\* Fault: the history is asked before the bans.
RestoredStatus_HistoryFirst(u) ==
    IF archived[u] # None THEN archived[u]
    ELSE IF LiveBan(u) THEN Banned
    ELSE LiveStatus(u)

RestoredStatus(u) ==
    IF LiveBan(u) THEN Banned
    ELSE IF archived[u] # None THEN archived[u]
    ELSE LiveStatus(u)

\* A status that is not "deleted" is left as it is.
RestoreUser(u) ==
    /\ deleted[u]
    /\ deleted' = [deleted EXCEPT ![u] = FALSE]
    /\ IF status[u] = AccountDeleted THEN SetStatus(u, RestoredStatus(u))
       ELSE UNCHANGED <<status, archived>>
    /\ Disturb(u)
    /\ UNCHANGED <<facts, bans, open, waiting, spent>>

-----------------------------------------------------------------------------
Documents ==
    \/ \E u \in Users, k \in Kinds :
          \/ Upload(u, k) \/ UpdateDocument(u, k) \/ DeleteDocument(u, k)
          \/ \E o \in Outcomes : Review(u, k, o)
    \/ \E r \in open : Commit(r)

Evaluations ==
    \E t \in Tasks :
       \/ \E u \in Users : StartQueued(t, u) \/ StartPoll(t, u)
       \/ ReadFacts(t) \/ WriteVerdict(t)

Circumstances == \E u \in Users : AssignVehicle(u) \/ ReleaseVehicle(u) \/ ChangeStanding(u)

Banning ==
    \E b \in Bans :
       \/ \E u \in Users :
             \/ BanUser(b, u) \/ AutomaticBan(b, u)
             \/ \E s \in AdminChoices : UnbanUser(b, u, s)
       \/ MoveExpiry(b) \/ DeactivateBan(b)

Removal == \E u \in Users : DeleteUser(u) \/ RestoreUser(u)

Next == Documents \/ Evaluations \/ Circumstances \/ Banning \/ Removal

Spec == Init /\ [][Next]_vars

-----------------------------------------------------------------------------
\* Every variable has its type.
TypeOK ==
    /\ status \in [Users -> Statuses]
    /\ archived \in [Users -> Statuses \cup {None}]
    /\ deleted \in [Users -> BOOLEAN]
    /\ vehicle \in [Users -> BOOLEAN]
    /\ docs \in [Users -> [Kinds -> Acceptance]]
    /\ standing \in [Users -> {"paid", "grace", "none"}]
    /\ bans \in [Bans -> BanType]
    /\ open \subseteq ReviewType
    /\ waiting \in [Users -> Nat]
    /\ evals \in [Tasks -> TaskType]
    /\ since \in [Users -> {"changed", "evaluated"}]
    /\ spent \in [review : Nat, poll : Nat, change : Nat,
                 order : Nat]

\* Once an evaluation from the queue that began after the last change has
\* finished, the status is the one the facts call for, whatever evaluations
\* of older facts were queued beside it: that is what the queue is for.  A
\* verdict written by an evaluation nobody queued is a change.
SettledIsCurrent == \A u \in Users : since[u] = "evaluated" => status[u] = Verdict(u)

\* Restoring an account never lifts a ban: the status it replaces becomes
\* "banned" whatever the history says.
BanSurvivesRestore ==
    [][\A u \in Users :
          deleted[u] /\ ~deleted'[u] /\ status[u] = AccountDeleted /\ LiveBan(u)
             => status'[u] = Banned]_vars

\* A driver under a ban who was set to "banned" stays so until an admin acts on
\* the ban or the account is deleted: an evaluation puts the ban first.
BannedIsBlocked ==
    [][\A u \in Users :
          status[u] = Banned /\ LiveBan(u) /\ LiveBan(u)' /\ ~deleted'[u]
             => status'[u] = Banned]_vars
=============================================================================
