---------------------------- MODULE AccountProofs ----------------------------
(***************************************************************************)
(* The evaluations queued for a user are one after the other, and so the   *)
(* last one to begin is the last one to write: SettledIsCurrent for any    *)
(* number of users, documents, bans and evaluations.  A restoration of an  *)
(* account looks at the bans first: BanSurvivesRestore.                    *)
(***************************************************************************)
EXTENDS Account, TLAPS

-----------------------------------------------------------------------------
\* No two evaluations queued for the same user are under way.
OneAtATime ==
    \A s, t \in Tasks :
       evals[s].queued /\ evals[t].queued /\ evals[s].user = evals[t].user => s = t

\* A task that is not at rest belongs to a user, and only such a task comes
\* from a queue.
Placed ==
    \A t \in Tasks :
       /\ evals[t].at # "idle" => evals[t].user \in Users
       /\ evals[t].queued => evals[t].at # "idle"

\* A queued evaluation has read what still holds, or knows that it has not
\* and the user is marked as changed.
UpToDate ==
    \A t \in Tasks :
       evals[t].queued =>
          IF evals[t].clean
          THEN /\ evals[t].seen = status[evals[t].user]
               /\ evals[t].at = "read" => evals[t].verdict = Verdict(evals[t].user)
          ELSE since[evals[t].user] = "changed"

Queues == OneAtATime /\ Placed /\ UpToDate /\ SettledIsCurrent

IInv == TypeOK /\ Queues

-----------------------------------------------------------------------------
\* What an evaluation finds is a status.
LEMMA VerdictIsStatus ==
    ASSUME NEW driving, NEW papers, NEW paying
    PROVE  VerdictOf(driving, papers, paying) \in Statuses
BY DEF VerdictOf, Statuses, Active, VehicleNotRegistered, DocumentsMissing,
       DocumentsRejected, DocumentsPending, NoSubscription, AccountDeleted

LEMMA LiveIsStatus == ASSUME NEW u PROVE LiveStatus(u) \in Statuses
BY DEF LiveStatus, Statuses, Active, VehicleNotRegistered, DocumentsMissing,
       DocumentsRejected, DocumentsPending, NoSubscription, AccountDeleted

LEMMA NamedStatuses ==
    Active \in Statuses /\ Banned \in Statuses /\ AccountDeleted \in Statuses
BY DEF Statuses, Active, Banned, AccountDeleted

\* updateUserRoleStatus keeps the types and touches one user.
LEMMA SetStatusType ==
    ASSUME TypeOK, NEW u \in Users, NEW s \in Statuses, SetStatus(u, s)
    PROVE  /\ status' \in [Users -> Statuses]
           /\ archived' \in [Users -> Statuses \cup {None}]
           /\ \A w \in Users \ {u} : status'[w] = status[w]
           /\ status'[u] = s
BY DEF TypeOK, SetStatus

LEMMA OrderType ==
    ASSUME TypeOK, Order
    PROVE  spent' \in [review : Nat, poll : Nat, change : Nat, order : Nat]
BY DEF TypeOK, Order

LEMMA ChangeType ==
    ASSUME TypeOK, NEW u \in Users, Change(u)
    PROVE  /\ Disturb(u)
           /\ spent' \in [review : Nat, poll : Nat, change : Nat, order : Nat]
<1>1. Disturb(u)
  BY DEF Change
<1>2. spent' = [spent EXCEPT !.change = @ + 1]
  BY DEF Change
<1>3. spent \in [review : Nat, poll : Nat, change : Nat, order : Nat]
  BY DEF TypeOK
<1>4. spent.change + 1 \in Nat
  BY <1>3
<1>5. spent' \in [review : Nat, poll : Nat, change : Nat, order : Nat]
  BY <1>2, <1>3, <1>4
<1> QED BY <1>1, <1>5

\* A change of one user's facts or status, marked as one, keeps the queues.
LEMMA Disturbed ==
    ASSUME TypeOK, Queues, NEW u \in Users, Disturb(u),
           \A w \in Users \ {u} : /\ status'[w] = status[w]
                                  /\ vehicle'[w] = vehicle[w]
                                  /\ docs'[w] = docs[w]
                                  /\ standing'[w] = standing[w]
    PROVE  /\ Queues'
           /\ evals' \in [Tasks -> TaskType]
           /\ since' \in [Users -> {"changed", "evaluated"}]
<1>1. /\ evals \in [Tasks -> TaskType]
      /\ since \in [Users -> {"changed", "evaluated"}]
  BY DEF TypeOK
<1>2. \A e \in TaskType : [e EXCEPT !.clean = FALSE] \in TaskType
  BY DEF TaskType
<1>3. evals' = [t \in Tasks |-> IF evals[t].user = u THEN [evals[t] EXCEPT !.clean = FALSE]
                                ELSE evals[t]]
  BY DEF Disturb, Dirtied
<1>4. /\ evals' \in [Tasks -> TaskType]
      /\ since' \in [Users -> {"changed", "evaluated"}]
  BY <1>1, <1>2, <1>3 DEF Disturb
<1>5. \A t \in Tasks : /\ evals'[t].user = evals[t].user
                       /\ evals'[t].queued = evals[t].queued
                       /\ evals'[t].at = evals[t].at
                       /\ evals'[t].seen = evals[t].seen
                       /\ evals'[t].verdict = evals[t].verdict
                       /\ evals[t].user # u => evals'[t].clean = evals[t].clean
                       /\ evals[t].user = u => evals'[t].clean = FALSE
  BY <1>1, <1>3 DEF TaskType
<1>6. since'[u] = "changed" /\ \A w \in Users \ {u} : since'[w] = since[w]
  BY <1>1 DEF Disturb
<1>7. OneAtATime' /\ Placed'
  BY <1>5 DEF Queues, OneAtATime, Placed
<1>8. UpToDate'
  <2> SUFFICES ASSUME NEW t \in Tasks, evals'[t].queued
               PROVE  (IF evals[t].clean
                       THEN /\ evals[t].seen = status[evals[t].user]
                            /\ evals[t].at = "read" => evals[t].verdict = Verdict(evals[t].user)
                       ELSE since[evals[t].user] = "changed")'
    BY DEF UpToDate
  <2>0. evals[t].queued
    BY <1>5
  <2>1. evals[t].user \in Users
    BY <2>0 DEF Queues, Placed
  <2>2. CASE evals[t].user = u
    BY <1>5, <1>6, <2>2
  <2>3. CASE evals[t].user # u
    <3>1. IF evals[t].clean
          THEN /\ evals[t].seen = status[evals[t].user]
               /\ evals[t].at = "read" => evals[t].verdict = Verdict(evals[t].user)
          ELSE since[evals[t].user] = "changed"
      BY <2>0 DEF Queues, UpToDate
    <3>2. /\ status'[evals[t].user] = status[evals[t].user]
          /\ evals'[t].user = evals[t].user
          /\ Verdict(evals[t].user)' = Verdict(evals[t].user)
      BY <2>1, <2>3, <1>5 DEF Verdict
    <3> QED BY <1>5, <1>6, <2>1, <2>3, <3>1, <3>2
  <2> QED BY <2>2, <2>3
<1>9. SettledIsCurrent'
  BY <1>6 DEF Queues, SettledIsCurrent, Verdict
<1> QED BY <1>4, <1>7, <1>8, <1>9 DEF Queues

\* What leaves statuses, facts and evaluations alone keeps the queues.
LEMMA Undisturbed ==
    ASSUME Queues, UNCHANGED <<status, vehicle, docs, standing, evals, since>>
    PROVE  Queues'
BY DEF Queues, OneAtATime, Placed, UpToDate, SettledIsCurrent, Verdict

-----------------------------------------------------------------------------
THEOREM InitIsInvariant == Init => IInv
<1> SUFFICES ASSUME Init PROVE IInv
  OBVIOUS
<1>1. \A u \in Users : Verdict(u) \in Statuses /\ VehicleNotRegistered \in Statuses
  BY VerdictIsStatus DEF Verdict, Statuses, VehicleNotRegistered, Active, AccountDeleted
<1>2. Rest \in TaskType /\ ~Rest.queued /\ Rest.at = "idle"
  BY NamedStatuses DEF Rest, TaskType
<1>3. /\ status \in [Users -> Statuses]
      /\ archived \in [Users -> Statuses \cup {None}]
      /\ deleted \in [Users -> BOOLEAN]
      /\ vehicle \in [Users -> BOOLEAN]
  BY <1>1 DEF Init
<1>4. /\ docs \in [Users -> [Kinds -> Acceptance]]
      /\ standing \in [Users -> {"paid", "grace", "none"}]
      /\ waiting \in [Users -> Nat]
      /\ open \subseteq ReviewType
  BY DEF Init, Acceptance
<1>5. bans \in [Bans -> BanType]
  BY DEF Init, BanType
<1>6. /\ evals \in [Tasks -> TaskType]
      /\ since \in [Users -> {"changed", "evaluated"}]
      /\ spent \in [review : Nat, poll : Nat, change : Nat, order : Nat]
  BY <1>2 DEF Init
<1>7. Queues
  BY <1>2 DEF Init, Queues, OneAtATime, Placed, UpToDate, SettledIsCurrent
<1> QED BY <1>3, <1>4, <1>5, <1>6, <1>7 DEF IInv, TypeOK

-----------------------------------------------------------------------------
\* Documents.
LEMMA DocumentSteps ==
    ASSUME IInv, NEW u \in Users, NEW k \in Kinds,
           Upload(u, k) \/ UpdateDocument(u, k) \/ DeleteDocument(u, k)
    PROVE  IInv'
<1> USE DEF IInv
<1>1. /\ Disturb(u)
      /\ spent' \in [review : Nat, poll : Nat, change : Nat, order : Nat]
  BY ChangeType DEF Upload, UpdateDocument, DeleteDocument
<1>2. /\ docs' \in [Users -> [Kinds -> Acceptance]]
      /\ \A w \in Users \ {u} : docs'[w] = docs[w]
  <2>1. PICK a \in Acceptance : docs' = [docs EXCEPT ![u] = [docs[u] EXCEPT ![k] = a]]
    BY DEF Upload, UpdateDocument, DeleteDocument, TypeOK, Acceptance
  <2> QED BY <2>1 DEF TypeOK
<1>3. /\ status' \in [Users -> Statuses]
      /\ archived' \in [Users -> Statuses \cup {None}]
      /\ \A w \in Users \ {u} : status'[w] = status[w]
  <2>1. CASE UNCHANGED <<status, archived>>
    BY <2>1 DEF TypeOK
  <2>2. CASE ~UNCHANGED <<status, archived>>
    <3>1. SetStatus(u, VerdictOf(vehicle[u], [docs[u] EXCEPT ![k] = "PENDING"], standing[u]))
      BY <2>2 DEF Upload, UpdateDocument, DeleteDocument
    <3> QED BY <3>1, VerdictIsStatus, SetStatusType
  <2> QED BY <2>1, <2>2
<1>4. UNCHANGED <<deleted, vehicle, standing, bans, open, waiting>>
  BY DEF Upload, UpdateDocument, DeleteDocument
<1>5. /\ Queues'
      /\ evals' \in [Tasks -> TaskType]
      /\ since' \in [Users -> {"changed", "evaluated"}]
  BY <1>1, <1>2, <1>3, <1>4, Disturbed
<1> QED BY <1>1, <1>2, <1>3, <1>4, <1>5 DEF TypeOK

LEMMA ReviewStep ==
    ASSUME IInv, NEW u \in Users, NEW k \in Kinds, NEW o \in Outcomes, Review(u, k, o)
    PROVE  IInv'
<1> USE DEF IInv
<1>1. open' \subseteq ReviewType
  BY AccountAssumption DEF Review, TypeOK, ReviewType
<1>2. waiting' \in [Users -> Nat]
  BY DEF Review, TypeOK
<1>3. spent' \in [review : Nat, poll : Nat, change : Nat, order : Nat]
  BY DEF Review, TypeOK
<1>4. Queues'
  BY Undisturbed DEF Review
<1> QED BY <1>1, <1>2, <1>3, <1>4 DEF TypeOK, Review

LEMMA CommitStep ==
    ASSUME IInv, NEW r, Commit(r)
    PROVE  IInv'
<1> USE DEF IInv
<1>1. r.user \in Users /\ r.kind \in Kinds /\ r.outcome \in Acceptance
  BY DEF Commit, TypeOK, ReviewType, Outcomes, Acceptance
<1>2. /\ docs' \in [Users -> [Kinds -> Acceptance]]
      /\ \A w \in Users \ {r.user} : docs'[w] = docs[w]
  BY <1>1 DEF Commit, TypeOK
<1>3. Disturb(r.user) /\ UNCHANGED <<status, archived, deleted, vehicle, standing, bans, waiting,
                                    spent>>
  BY DEF Commit
<1>4. /\ Queues'
      /\ evals' \in [Tasks -> TaskType]
      /\ since' \in [Users -> {"changed", "evaluated"}]
  BY <1>1, <1>2, <1>3, Disturbed DEF TypeOK
<1>5. open' \subseteq ReviewType
  BY DEF Commit, TypeOK
<1> QED BY <1>2, <1>3, <1>4, <1>5 DEF TypeOK

-----------------------------------------------------------------------------
\* Evaluations.
LEMMA StartSteps ==
    ASSUME IInv, NEW t \in Tasks, NEW u \in Users, StartQueued(t, u) \/ StartPoll(t, u)
    PROVE  IInv'
<1> USE DEF IInv
<1>1. UNCHANGED <<status, archived, deleted, vehicle, docs, standing, bans, open, since>>
  BY DEF StartQueued, StartPoll, facts
<1>2. /\ waiting' \in [Users -> Nat]
      /\ spent' \in [review : Nat, poll : Nat, change : Nat, order : Nat]
  <2>1. /\ waiting \in [Users -> Nat]
        /\ spent \in [review : Nat, poll : Nat, change : Nat, order : Nat]
    BY DEF TypeOK
  <2>2. CASE StartQueued(t, u)
    <3>1. waiting[u] > 0 /\ waiting' = [waiting EXCEPT ![u] = @ - 1] /\ spent' = spent
      BY <2>2 DEF StartQueued, NextInQueue
    <3>2. waiting[u] - 1 \in Nat
      BY <2>1, <3>1
    <3> QED BY <2>1, <3>1, <3>2
  <2>3. CASE StartPoll(t, u)
    BY <2>1, <2>3 DEF StartPoll
  <2> QED BY <2>2, <2>3
<1>3. status[u] \in Statuses
  BY DEF TypeOK
<1>4. /\ Begun(u, TRUE) \in TaskType /\ Begun(u, FALSE) \in TaskType
      /\ Begun(u, TRUE).queued => /\ Begun(u, TRUE).user = u
                                  /\ Begun(u, TRUE).at = "begun"
                                  /\ Begun(u, TRUE).clean
                                  /\ Begun(u, TRUE).seen = status[u]
      /\ Begun(u, TRUE).at # "idle" => Begun(u, TRUE).user = u
      /\ Begun(u, FALSE).at # "idle" => Begun(u, FALSE).user = u
      /\ ~Begun(u, FALSE).queued
  BY <1>3, NamedStatuses DEF Begun, Rest, TaskType
<1>5. PICK e \in TaskType :
         /\ evals' = [evals EXCEPT ![t] = e]
         /\ e.queued => /\ NextInQueue(u) /\ e.user = u /\ e.at = "begun"
                        /\ e.clean /\ e.seen = status[u]
         /\ e.at # "idle" => e.user = u
  <2>1. CASE StartQueued(t, u)
    BY <1>4, <2>1 DEF StartQueued
  <2>2. CASE StartPoll(t, u)
    BY <1>4, <2>2 DEF StartPoll
  <2> QED BY <2>1, <2>2
<1>6. evals \in [Tasks -> TaskType]
  BY DEF TypeOK
<1>7. evals' \in [Tasks -> TaskType]
  BY <1>5, <1>6
<1>8. evals'[t] = e /\ \A x \in Tasks \ {t} : evals'[x] = evals[x]
  BY <1>5, <1>6
<1>9. OneAtATime'
  <2> SUFFICES ASSUME NEW x \in Tasks, NEW y \in Tasks, evals'[x].queued, evals'[y].queued,
                      evals'[x].user = evals'[y].user
               PROVE  x = y
    BY DEF OneAtATime
  <2>1. CASE x # t /\ y # t
    BY <1>8, <2>1 DEF Queues, OneAtATime
  <2>2. CASE x = t /\ y # t
    <3>1. NextInQueue(u) /\ evals'[x].user = u
      BY <1>5, <1>8, <2>2
    <3>2. evals[y].user # u \/ ~evals[y].queued
      BY <3>1, <2>2 DEF NextInQueue
    <3>3. evals'[y] = evals[y]
      BY <1>8, <2>2
    <3> QED BY <3>1, <3>2, <3>3
  <2>3. CASE x # t /\ y = t
    <3>1. NextInQueue(u) /\ evals'[y].user = u
      BY <1>5, <1>8, <2>3
    <3>2. evals[x].user # u \/ ~evals[x].queued
      BY <3>1, <2>3 DEF NextInQueue
    <3>3. evals'[x] = evals[x]
      BY <1>8, <2>3
    <3> QED BY <3>1, <3>2, <3>3
  <2> QED BY <2>1, <2>2, <2>3
<1>10. Placed'
  BY <1>5, <1>8 DEF Queues, Placed
<1>11. UpToDate'
  <2> SUFFICES ASSUME NEW x \in Tasks, evals'[x].queued
               PROVE  (IF evals[x].clean
                       THEN /\ evals[x].seen = status[evals[x].user]
                            /\ evals[x].at = "read" => evals[x].verdict = Verdict(evals[x].user)
                       ELSE since[evals[x].user] = "changed")'
    BY DEF UpToDate
  <2>1. CASE x = t
    BY <1>5, <1>1, <1>8, <2>1
  <2>2. CASE x # t
    BY <1>1, <1>8, <2>2 DEF Queues, UpToDate, Verdict
  <2> QED BY <2>1, <2>2
<1>12. SettledIsCurrent'
  BY <1>1 DEF Queues, SettledIsCurrent, Verdict
<1> QED BY <1>1, <1>2, <1>7, <1>9, <1>10, <1>11, <1>12 DEF TypeOK, Queues

LEMMA ReadStep ==
    ASSUME IInv, NEW t \in Tasks, ReadFacts(t)
    PROVE  IInv'
<1> USE DEF IInv
<1> DEFINE v == Verdict(evals[t].user)
<1>1. UNCHANGED <<status, archived, deleted, vehicle, docs, standing, bans, open, waiting, since,
                  spent>>
  BY DEF ReadFacts, facts
<1>2. v \in Statuses
  BY VerdictIsStatus DEF Verdict
<1>3. evals[t] \in TaskType /\ evals' = [evals EXCEPT ![t] = [evals[t] EXCEPT !.at = "read",
                                                                        !.verdict = v]]
  BY DEF ReadFacts, TypeOK
<1>4. [evals[t] EXCEPT !.at = "read", !.verdict = v] \in TaskType
  BY <1>2, <1>3 DEF TaskType
<1>5. evals' \in [Tasks -> TaskType]
  BY <1>3, <1>4 DEF TypeOK
<1>6. /\ evals'[t].user = evals[t].user
      /\ evals'[t].queued = evals[t].queued
      /\ evals'[t].seen = evals[t].seen
      /\ evals'[t].clean = evals[t].clean
      /\ evals'[t].at = "read"
      /\ evals'[t].verdict = v
      /\ \A x \in Tasks \ {t} : evals'[x] = evals[x]
  BY <1>3 DEF TypeOK, TaskType
<1>7. evals[t].at = "begun"
  BY DEF ReadFacts
<1>8. OneAtATime' /\ Placed'
  BY <1>6, <1>7 DEF Queues, OneAtATime, Placed
<1>9. UpToDate'
  <2> SUFFICES ASSUME NEW x \in Tasks, evals'[x].queued
               PROVE  (IF evals[x].clean
                       THEN /\ evals[x].seen = status[evals[x].user]
                            /\ evals[x].at = "read" => evals[x].verdict = Verdict(evals[x].user)
                       ELSE since[evals[x].user] = "changed")'
    BY DEF UpToDate
  <2>1. CASE x = t
    BY <1>1, <1>6, <2>1 DEF Queues, UpToDate, Verdict
  <2>2. CASE x # t
    BY <1>1, <1>6, <2>2 DEF Queues, UpToDate, Verdict
  <2> QED BY <2>1, <2>2
<1>10. SettledIsCurrent'
  BY <1>1 DEF Queues, SettledIsCurrent, Verdict
<1> QED BY <1>1, <1>5, <1>8, <1>9, <1>10 DEF TypeOK, Queues

LEMMA WriteStep ==
    ASSUME IInv, NEW t \in Tasks, WriteVerdict(t)
    PROVE  IInv'
<1> USE DEF IInv
<1> DEFINE e == evals[t]
           u == evals[t].user
           done == [evals EXCEPT ![t] = Rest]
<1>1. /\ e \in TaskType /\ e.at = "read" /\ u \in Users
      /\ evals \in [Tasks -> TaskType]
      /\ since \in [Users -> {"changed", "evaluated"}]
  BY DEF WriteVerdict, TypeOK, Queues, Placed
<1>2. UNCHANGED <<deleted, vehicle, docs, standing, bans, open, waiting, spent>>
  BY DEF WriteVerdict, facts
<1>3. /\ status' \in [Users -> Statuses]
      /\ archived' \in [Users -> Statuses \cup {None}]
      /\ \A w \in Users \ {u} : status'[w] = status[w]
      /\ status'[u] = IF Differs(e) THEN e.verdict ELSE status[u]
  <2>1. CASE Differs(e)
    <3>1. SetStatus(u, e.verdict) /\ e.verdict \in Statuses
      BY <1>1, <2>1 DEF WriteVerdict, TaskType
    <3> QED BY <1>1, <2>1, <3>1, SetStatusType
  <2>2. CASE ~Differs(e)
    BY <2>2 DEF WriteVerdict, TypeOK
  <2> QED BY <2>1, <2>2
<1>4. /\ Rest \in TaskType /\ ~Rest.queued /\ Rest.at = "idle" /\ Rest.user = None
      /\ done \in [Tasks -> TaskType] /\ done[t] = Rest
      /\ \A x \in Tasks \ {t} : done[x] = evals[x]
  BY <1>1, NamedStatuses DEF Rest, TaskType
<1>5. PICK tasks \in {done, Dirtied(u, done)} : evals' = tasks /\ (e.queued => tasks = done)
  BY DEF WriteVerdict
<1>6. \A x \in TaskType : [x EXCEPT !.clean = FALSE] \in TaskType
  BY DEF TaskType
<1>7. Dirtied(u, done) = [x \in Tasks |-> IF done[x].user = u THEN [done[x] EXCEPT !.clean = FALSE]
                                         ELSE done[x]]
  BY DEF Dirtied
<1>8. evals' \in [Tasks -> TaskType]
  BY <1>4, <1>5, <1>6, <1>7
<1>9. /\ \A x \in Tasks \ {t} : /\ evals'[x].user = evals[x].user
                               /\ evals'[x].queued = evals[x].queued
                               /\ evals'[x].at = evals[x].at
                               /\ evals'[x].seen = evals[x].seen
                               /\ evals'[x].verdict = evals[x].verdict
      /\ evals'[t].queued = FALSE /\ evals'[t].at = "idle"
  BY <1>1, <1>4, <1>5, <1>7 DEF TaskType
<1>10. OneAtATime' /\ Placed'
  BY <1>9 DEF Queues, OneAtATime, Placed
<1>11. /\ since' \in [Users -> {"changed", "evaluated"}]
       /\ \A w \in Users \ {u} : since'[w] = since[w]
       /\ since'[u] = IF e.queued /\ e.clean THEN "evaluated"
                      ELSE IF ~e.queued /\ Differs(e) THEN "changed" ELSE since[u]
  BY <1>1 DEF WriteVerdict
<1>12. UpToDate'
  <2> SUFFICES ASSUME NEW x \in Tasks, evals'[x].queued
               PROVE  (IF evals[x].clean
                       THEN /\ evals[x].seen = status[evals[x].user]
                            /\ evals[x].at = "read" => evals[x].verdict = Verdict(evals[x].user)
                       ELSE since[evals[x].user] = "changed")'
    BY DEF UpToDate
  <2>1. x # t /\ evals[x].queued /\ evals[x].user \in Users
    BY <1>9 DEF Queues, Placed
  <2>2. IF evals[x].clean
        THEN /\ evals[x].seen = status[evals[x].user]
             /\ evals[x].at = "read" => evals[x].verdict = Verdict(evals[x].user)
        ELSE since[evals[x].user] = "changed"
    BY <2>1 DEF Queues, UpToDate
  <2>3. Verdict(evals[x].user)' = Verdict(evals[x].user) /\ evals'[x].user = evals[x].user
    BY <1>2, <1>9, <2>1 DEF Verdict
  <2>4. CASE evals[x].user # u
    <3>1. evals'[x].clean = evals[x].clean
      BY <1>1, <1>4, <1>5, <1>7, <2>1, <2>4 DEF TaskType
    <3> QED BY <1>3, <1>9, <1>11, <2>1, <2>2, <2>3, <2>4, <3>1
  <2>5. CASE evals[x].user = u
    <3>1. ~e.queued
      BY <2>1, <2>5 DEF Queues, OneAtATime
    <3>2. CASE Differs(e)
      <4>1. since'[u] = "changed"
        BY <1>11, <3>1, <3>2
      <4>2. evals' = Dirtied(u, done)
        BY <3>1, <3>2 DEF WriteVerdict
      <4>3. evals'[x].clean = FALSE
        BY <1>1, <1>4, <1>7, <2>1, <2>5, <4>2 DEF TaskType
      <4> QED BY <2>3, <2>5, <4>1, <4>3
    <3>3. CASE ~Differs(e)
      <4>1. since'[u] = since[u] /\ status'[u] = status[u]
        BY <1>3, <1>11, <3>1, <3>3
      <4>2. evals'[x] = evals[x]
        BY <1>4, <2>1, <3>3 DEF WriteVerdict
      <4> QED BY <2>2, <2>3, <2>5, <4>1, <4>2
    <3> QED BY <3>2, <3>3
  <2> QED BY <2>4, <2>5
<1>13. SettledIsCurrent'
  <2> SUFFICES ASSUME NEW w \in Users, since'[w] = "evaluated"
               PROVE  status'[w] = Verdict(w)'
    BY DEF SettledIsCurrent
  <2>1. Verdict(w)' = Verdict(w)
    BY <1>2 DEF Verdict
  <2>2. CASE w # u
    BY <1>3, <1>11, <2>1, <2>2 DEF Queues, SettledIsCurrent
  <2>3. CASE w = u /\ e.queued /\ e.clean
    <3>1. e.seen = status[u] /\ e.verdict = Verdict(u)
      BY <1>1, <2>3 DEF Queues, UpToDate
    <3> QED BY <1>3, <2>1, <2>3, <3>1 DEF Differs
  <2>4. CASE w = u /\ e.queued /\ ~e.clean
    <3>1. since[u] = "changed"
      BY <2>4 DEF Queues, UpToDate
    <3> QED BY <1>11, <2>4, <3>1
  <2>5. CASE w = u /\ ~e.queued
    BY <1>3, <1>11, <2>1, <2>5 DEF Queues, SettledIsCurrent
  <2> QED BY <2>2, <2>3, <2>4, <2>5
<1> QED BY <1>2, <1>3, <1>8, <1>10, <1>11, <1>12, <1>13 DEF TypeOK, Queues

-----------------------------------------------------------------------------
\* What becomes of a driver.
LEMMA CircumstanceSteps ==
    ASSUME IInv, NEW u \in Users, AssignVehicle(u) \/ ReleaseVehicle(u) \/ ChangeStanding(u)
    PROVE  IInv'
<1> USE DEF IInv
<1>1. /\ Disturb(u)
      /\ spent' \in [review : Nat, poll : Nat, change : Nat, order : Nat]
  BY ChangeType DEF AssignVehicle, ReleaseVehicle, ChangeStanding
<1>2. UNCHANGED <<status, archived, deleted, docs, bans, open, waiting>>
  BY DEF AssignVehicle, ReleaseVehicle, ChangeStanding
<1>3. /\ vehicle' \in [Users -> BOOLEAN]
      /\ \A w \in Users \ {u} : vehicle'[w] = vehicle[w]
  BY DEF AssignVehicle, ReleaseVehicle, ChangeStanding, TypeOK
<1>4. /\ standing' \in [Users -> {"paid", "grace", "none"}]
      /\ \A w \in Users \ {u} : standing'[w] = standing[w]
  <2>1. CASE UNCHANGED standing
    BY <2>1 DEF TypeOK
  <2>2. CASE ~UNCHANGED standing
    <3>1. PICK s \in {"paid", "grace", "none"} : standing' = [standing EXCEPT ![u] = s]
      BY <2>2 DEF AssignVehicle, ReleaseVehicle, ChangeStanding
    <3> QED BY <3>1 DEF TypeOK
  <2> QED BY <2>1, <2>2
<1>5. /\ Queues'
      /\ evals' \in [Tasks -> TaskType]
      /\ since' \in [Users -> {"changed", "evaluated"}]
  BY <1>1, <1>2, <1>3, <1>4, Disturbed
<1> QED BY <1>1, <1>2, <1>3, <1>4, <1>5 DEF TypeOK

\* An order of an admin, or the end of a ban, that leaves the status alone.
LEMMA BanSteps ==
    ASSUME IInv, NEW b \in Bans,
           MoveExpiry(b) \/ DeactivateBan(b) \/ \E u \in Users : AutomaticBan(b, u)
    PROVE  IInv'
<1> USE DEF IInv
<1>1. /\ UNCHANGED <<status, archived, deleted, vehicle, docs, standing,
                     open, waiting, evals, since>>
      /\ spent' \in [review : Nat, poll : Nat, change : Nat, order : Nat]
  BY OrderType DEF AutomaticBan, MoveExpiry, DeactivateBan, facts
<1>2. bans' \in [Bans -> BanType]
  <2>1. bans \in [Bans -> BanType]
    BY DEF TypeOK
  <2>2. PICK r \in BanType : bans' = [bans EXCEPT ![b] = r]
    <3>1. CASE MoveExpiry(b)
      BY <2>1, <3>1 DEF MoveExpiry, BanType
    <3>2. CASE DeactivateBan(b)
      BY <2>1, <3>2 DEF DeactivateBan, BanType
    <3>3. CASE \E u \in Users : AutomaticBan(b, u)
      BY <3>3 DEF AutomaticBan, Issued, BanType
    <3> QED BY <3>1, <3>2, <3>3
  <2> QED BY <2>1, <2>2
<1>3. Queues'
  BY <1>1, Undisturbed
<1> QED BY <1>1, <1>2, <1>3 DEF TypeOK

\* An order that sets the status.
LEMMA StatusSteps ==
    ASSUME IInv, NEW b \in Bans, NEW u \in Users,
           BanUser(b, u) \/ \E s \in AdminChoices : UnbanUser(b, u, s)
    PROVE  IInv'
<1> USE DEF IInv
<1>1. /\ Disturb(u)
      /\ UNCHANGED <<deleted, vehicle, docs, standing, open, waiting>>
      /\ spent' \in [review : Nat, poll : Nat, change : Nat, order : Nat]
  BY OrderType DEF BanUser, UnbanUser, facts
<1>2. bans' \in [Bans -> BanType]
  <2>1. bans \in [Bans -> BanType]
    BY DEF TypeOK
  <2>2. PICK r \in BanType : bans' = [bans EXCEPT ![b] = r]
    <3>1. CASE BanUser(b, u)
      BY <3>1 DEF BanUser, Issued, BanType
    <3>2. CASE \E s \in AdminChoices : UnbanUser(b, u, s)
      BY <2>1, <3>2 DEF UnbanUser, BanType
    <3> QED BY <3>1, <3>2
  <2> QED BY <2>1, <2>2
<1>3. /\ status' \in [Users -> Statuses]
      /\ archived' \in [Users -> Statuses \cup {None}]
      /\ \A w \in Users \ {u} : status'[w] = status[w]
  <2>1. PICK s \in Statuses : SetStatus(u, s)
    BY AccountAssumption, NamedStatuses DEF BanUser, UnbanUser
  <2> QED BY <2>1, SetStatusType
<1>4. /\ Queues'
      /\ evals' \in [Tasks -> TaskType]
      /\ since' \in [Users -> {"changed", "evaluated"}]
  BY <1>1, <1>3, Disturbed
<1> QED BY <1>1, <1>2, <1>3, <1>4 DEF TypeOK

LEMMA RemovalSteps ==
    ASSUME IInv, NEW u \in Users, DeleteUser(u) \/ RestoreUser(u)
    PROVE  IInv'
<1> USE DEF IInv
<1>1. /\ Disturb(u)
      /\ UNCHANGED <<vehicle, docs, standing, bans, open, waiting>>
      /\ spent' \in [review : Nat, poll : Nat, change : Nat, order : Nat]
      /\ deleted' \in [Users -> BOOLEAN]
  BY OrderType DEF DeleteUser, RestoreUser, facts, TypeOK
<1>2. /\ status' \in [Users -> Statuses]
      /\ archived' \in [Users -> Statuses \cup {None}]
      /\ \A w \in Users \ {u} : status'[w] = status[w]
  <2>1. CASE DeleteUser(u)
    BY <2>1, NamedStatuses DEF DeleteUser, TypeOK
  <2>2. CASE RestoreUser(u) /\ status[u] = AccountDeleted
    <3>1. RestoredStatus(u) \in Statuses
      BY LiveIsStatus, NamedStatuses DEF RestoredStatus, TypeOK
    <3>2. SetStatus(u, RestoredStatus(u))
      BY <2>2 DEF RestoreUser
    <3> QED BY <3>1, <3>2, SetStatusType
  <2>3. CASE RestoreUser(u) /\ status[u] # AccountDeleted
    BY <2>3 DEF RestoreUser, TypeOK
  <2> QED BY <2>1, <2>2, <2>3
<1>3. /\ Queues'
      /\ evals' \in [Tasks -> TaskType]
      /\ since' \in [Users -> {"changed", "evaluated"}]
  BY <1>1, <1>2, Disturbed
<1> QED BY <1>1, <1>2, <1>3 DEF TypeOK

-----------------------------------------------------------------------------
\* The evaluations of a user stay one after the other whatever happens.
THEOREM Invariant == Spec => []IInv
<1>1. Init => IInv
  BY InitIsInvariant
<1>2. IInv /\ [Next]_vars => IInv'
  <2> SUFFICES ASSUME IInv, [Next]_vars PROVE IInv'
    OBVIOUS
  <2>1. CASE Documents
    BY <2>1, DocumentSteps, ReviewStep, CommitStep DEF Documents
  <2>2. CASE Evaluations
    BY <2>2, StartSteps, ReadStep, WriteStep DEF Evaluations
  <2>3. CASE Circumstances
    BY <2>3, CircumstanceSteps DEF Circumstances
  <2>4. CASE Banning
    BY <2>4, BanSteps, StatusSteps DEF Banning
  <2>5. CASE Removal
    BY <2>5, RemovalSteps DEF Removal
  <2>6. CASE UNCHANGED vars
    BY <2>6, Undisturbed DEF vars, IInv, TypeOK
  <2> QED BY <2>1, <2>2, <2>3, <2>4, <2>5, <2>6 DEF Next
<1> QED BY <1>1, <1>2, PTL DEF Spec

\* Every variable keeps its type.
THEOREM TypeCorrect == Spec => []TypeOK
BY Invariant, PTL DEF IInv

\* The last evaluation that began after the last change decides: the status is
\* the one the facts call for (enqueueRecalc).
THEOREM QueueSettles == Spec => []SettledIsCurrent
<1>1. IInv => SettledIsCurrent
  BY DEF IInv, Queues
<1> QED BY <1>1, Invariant, PTL

-----------------------------------------------------------------------------
\* An account comes back from its deletion by a restoration of that account.
LEMMA OnlyRestoration ==
    ASSUME TypeOK, [Next]_vars, NEW u \in Users, deleted[u], ~deleted'[u]
    PROVE  RestoreUser(u)
<1>1. deleted \in [Users -> BOOLEAN] /\ deleted' # deleted
  BY DEF TypeOK
<1>2. Removal
  BY <1>1 DEF Next, vars, Documents, Upload, UpdateDocument, DeleteDocument, Review, Commit,
              Evaluations, StartQueued, StartPoll, ReadFacts, WriteVerdict,
              Circumstances, AssignVehicle, ReleaseVehicle, ChangeStanding,
              Banning, BanUser, AutomaticBan, UnbanUser, MoveExpiry, DeactivateBan
<1>3. PICK w \in Users : RestoreUser(w) /\ w = u
  BY <1>1, <1>2 DEF Removal, DeleteUser, RestoreUser
<1> QED BY <1>3

\* A restoration that replaces the status "deleted" looks at the bans before the
\* history and at the history before the facts.
THEOREM RestoredStaysBanned == Spec => BanSurvivesRestore
<1>1. ASSUME IInv, [Next]_vars, NEW u \in Users,
             deleted[u], ~deleted'[u], status[u] = AccountDeleted, LiveBan(u)
      PROVE  status'[u] = Banned
  <2>1. RestoreUser(u)
    BY <1>1, OnlyRestoration DEF IInv
  <2>2. RestoredStatus(u) = Banned
    BY <1>1 DEF RestoredStatus
  <2>3. SetStatus(u, Banned)
    BY <1>1, <2>1, <2>2 DEF RestoreUser
  <2> QED BY <1>1, <2>3, SetStatusType, NamedStatuses DEF IInv
<1>2. IInv /\ [Next]_vars =>
        [\A u \in Users :
            deleted[u] /\ ~deleted'[u] /\ status[u] = AccountDeleted /\ LiveBan(u)
               => status'[u] = Banned]_vars
  BY <1>1
<1> QED BY <1>2, Invariant, PTL DEF Spec, BanSurvivesRestore
=============================================================================
