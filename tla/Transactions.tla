---------------------------- MODULE Transactions ----------------------------
(***************************************************************************)
(* executeInTransaction: a call takes a connection of the pool, begins,    *)
(* runs its callback on the connection against a timer, commits or rolls   *)
(* back, and releases.  After a deadlock it releases, waits and starts     *)
(* again.                                                                  *)
(*                                                                         *)
(* The call and its callback are two processes: the timer ends the call,   *)
(* and nothing ends the callback, whose later statements still go to the   *)
(* connection.  A call made inside a callback finds the connection in the  *)
(* asynchronous context and joins, so its statements are the outer         *)
(* callback's.  What a statement writes is the pair of call and statement. *)
(***************************************************************************)
EXTENDS Naturals, FiniteSets

CONSTANTS
    Callers,        \* calls of executeInTransaction
    Connections,    \* the connections of the pool
    Statements,     \* statements of a callback
    MaxRetries,     \* MAX_RETRIES
    None

ASSUME TransactionsAssumption ==
    /\ Statements \in Nat \ {0}
    /\ MaxRetries \in Nat
    /\ None \notin Connections

VARIABLES
    free,           \* connections the pool would hand out
    session,        \* what the server keeps for a connection
    db,             \* the writes that are committed
    call,           \* executeInTransaction, per caller
    body,           \* its callback
    deadlocked,     \* history: some statement met a deadlock
    expired         \* history: the calls whose timer fired

vars == <<free, session, db, call, body, deadlocked, expired>>

-----------------------------------------------------------------------------
Writes == Callers \X (1..Statements)

Sessions == [open : BOOLEAN, writes : SUBSET Writes]

Closed == [open |-> FALSE, writes |-> {}]

Phases == {"idle", "acquire", "begin", "run", "commit", "rollback", "retry",
           "backoff", "release", "returned", "thrown"}

Calls == [phase : Phases, conn : Connections \cup {None},
          attempt : 0..MaxRetries, failed : BOOLEAN]

Bodies == [running : BOOLEAN, conn : Connections \cup {None},
           done : 0..Statements]

NoBody == [running |-> FALSE, conn |-> None, done |-> 0]

TypeOK ==
    /\ free \subseteq Connections
    /\ session \in [Connections -> Sessions]
    /\ db \subseteq Writes
    /\ call \in [Callers -> Calls]
    /\ body \in [Callers -> Bodies]
    /\ deadlocked \in BOOLEAN
    /\ expired \subseteq Callers

Init ==
    /\ free = Connections
    /\ session = [c \in Connections |-> Closed]
    /\ db = {}
    /\ call = [t \in Callers |-> [phase |-> "idle", conn |-> None,
                                  attempt |-> 0, failed |-> FALSE]]
    /\ body = [t \in Callers |-> NoBody]
    /\ deadlocked = FALSE
    /\ expired = {}

InPhase(t, phase) == call[t].phase = phase

Goto(t, phase) == call' = [call EXCEPT ![t].phase = phase]

-----------------------------------------------------------------------------
(* The server.                                                             *)

\* START TRANSACTION ends the transaction the session has open by committing
\* it.
BeginOn(c) ==
    /\ db' = db \cup session[c].writes
    /\ session' = [session EXCEPT ![c] = [open |-> TRUE, writes |-> {}]]

CommitOn(c) ==
    /\ db' = db \cup session[c].writes
    /\ session' = [session EXCEPT ![c] = Closed]

RollbackOn(c) == session' = [session EXCEPT ![c] = Closed] /\ UNCHANGED db

\* Without an open transaction a statement commits by itself.
WriteOn(c, w) ==
    IF session[c].open
    THEN /\ session' = [session EXCEPT ![c].writes = @ \cup {w}]
         /\ UNCHANGED db
    ELSE /\ db' = db \cup {w}
         /\ UNCHANGED session

-----------------------------------------------------------------------------
(* The call.                                                               *)

Enter(t) ==
    /\ InPhase(t, "idle")
    /\ Goto(t, "acquire")
    /\ UNCHANGED <<free, session, db, body, deadlocked, expired>>

\* pool.getConnection() answers when a connection is free.
Acquire(t) ==
    /\ InPhase(t, "acquire")
    /\ \E c \in free :
        /\ free' = free \ {c}
        /\ call' = [call EXCEPT ![t].phase = "begin", ![t].conn = c]
    /\ UNCHANGED <<session, db, body, deadlocked, expired>>

\* beginTransaction(), the timer is armed and the callback starts.
Begin(t) ==
    /\ InPhase(t, "begin")
    /\ BeginOn(call[t].conn)
    /\ body' = [body EXCEPT ![t] = [running |-> TRUE, conn |-> call[t].conn, done |-> 0]]
    /\ Goto(t, "run")
    /\ UNCHANGED <<free, deadlocked, expired>>

\* The timer wins the race: the call goes on to roll back, the callback runs on.
Timeout(t) ==
    /\ InPhase(t, "run")
    /\ call' = [call EXCEPT ![t].phase = "rollback", ![t].failed = TRUE]
    /\ expired' = expired \cup {t}
    /\ UNCHANGED <<free, session, db, body, deadlocked>>

CommitCall(t) ==
    /\ InPhase(t, "commit")
    /\ CommitOn(call[t].conn)
    /\ Goto(t, "release")
    /\ UNCHANGED <<free, body, deadlocked, expired>>

\* Fault: Released before it is rolled back.
RollbackCall_Forgotten(t) ==
    /\ InPhase(t, "rollback")
    /\ Goto(t, "release")
    /\ UNCHANGED <<free, session, db, body, deadlocked, expired>>

\* The catch block after an error that is not retried.
RollbackCall(t) ==
    /\ InPhase(t, "rollback")
    /\ RollbackOn(call[t].conn)
    /\ Goto(t, "release")
    /\ UNCHANGED <<free, body, deadlocked, expired>>

\* The catch block after a deadlock: rolled back, released, and the backoff
\* begins while the call still knows the connection.
ReleaseForRetry(t) ==
    /\ InPhase(t, "retry")
    /\ RollbackOn(call[t].conn)
    /\ free' = free \cup {call[t].conn}
    /\ Goto(t, "backoff")
    /\ UNCHANGED <<body, deadlocked, expired>>

\* Fault: The retry does not count.
Retry_Uncounted(t) ==
    /\ InPhase(t, "backoff")
    /\ free' \in {free, free \cup {call[t].conn}}
    /\ call' = [call EXCEPT ![t].phase = "acquire", ![t].conn = None]
    /\ UNCHANGED <<session, db, body, deadlocked, expired>>

\* continue: the finally block releases the connection a second time, and the
\* loop starts over.  Whether the driver of the pool ignores that or gives a
\* connection away that is in use is left open.
Retry(t) ==
    /\ InPhase(t, "backoff")
    /\ free' \in {free, free \cup {call[t].conn}}
    /\ call' = [call EXCEPT ![t].phase = "acquire", ![t].conn = None,
                            ![t].attempt = @ + 1]
    /\ UNCHANGED <<session, db, body, deadlocked, expired>>

\* Fault: Released on success only.
Release_OnSuccess(t) ==
    /\ InPhase(t, "release")
    /\ free' = IF call[t].failed THEN free ELSE free \cup {call[t].conn}
    /\ call' = [call EXCEPT ![t].phase = IF call[t].failed THEN "thrown" ELSE "returned",
                            ![t].conn = None]
    /\ UNCHANGED <<session, db, body, deadlocked, expired>>

\* The finally block after a commit or an error.
Release(t) ==
    /\ InPhase(t, "release")
    /\ free' = free \cup {call[t].conn}
    /\ call' = [call EXCEPT ![t].phase = IF call[t].failed THEN "thrown" ELSE "returned",
                            ![t].conn = None]
    /\ UNCHANGED <<session, db, body, deadlocked, expired>>

-----------------------------------------------------------------------------
(* The callback.                                                           *)

Statement(t) ==
    /\ body[t].running /\ body[t].done < Statements
    /\ WriteOn(body[t].conn, <<t, body[t].done + 1>>)
    /\ body' = [body EXCEPT ![t].done = @ + 1]
    /\ UNCHANGED <<free, call, deadlocked, expired>>

\* Fault: The call does not wait for its commit.
Resolve_NoCommit(t) ==
    /\ body[t].running /\ body[t].done = Statements
    /\ body' = [body EXCEPT ![t] = NoBody]
    /\ IF InPhase(t, "run") THEN Goto(t, "release") ELSE UNCHANGED call
    /\ UNCHANGED <<free, session, db, deadlocked, expired>>

\* The callback resolves.  A call whose timer fired takes no notice.
Resolve(t) ==
    /\ body[t].running /\ body[t].done = Statements
    /\ body' = [body EXCEPT ![t] = NoBody]
    /\ IF InPhase(t, "run") THEN Goto(t, "commit") ELSE UNCHANGED call
    /\ UNCHANGED <<free, session, db, deadlocked, expired>>

\* A statement or a check of the callback throws.
Throw(t) ==
    /\ body[t].running
    /\ body' = [body EXCEPT ![t] = NoBody]
    /\ IF InPhase(t, "run")
       THEN call' = [call EXCEPT ![t].phase = "rollback", ![t].failed = TRUE]
       ELSE UNCHANGED call
    /\ UNCHANGED <<free, session, db, deadlocked, expired>>

\* A statement is the victim of a deadlock, or meets the driver's other active
\* request: the transaction is rolled back and the callback throws.
Deadlock(t) ==
    /\ body[t].running /\ body[t].done < Statements
    /\ RollbackOn(body[t].conn)
    /\ body' = [body EXCEPT ![t] = NoBody]
    /\ deadlocked' = TRUE
    /\ CASE ~InPhase(t, "run") -> UNCHANGED call
         [] InPhase(t, "run") /\ call[t].attempt < MaxRetries -> Goto(t, "retry")
         [] OTHER -> call' = [call EXCEPT ![t].phase = "rollback", ![t].failed = TRUE]
    /\ UNCHANGED <<free, expired>>

-----------------------------------------------------------------------------
CallStep(t) ==
    \/ Enter(t) \/ Acquire(t) \/ Begin(t) \/ Timeout(t) \/ CommitCall(t)
    \/ RollbackCall(t) \/ ReleaseForRetry(t) \/ Retry(t) \/ Release(t)

BodyStep(t) == Statement(t) \/ Resolve(t) \/ Throw(t) \/ Deadlock(t)

\* Every call has ended and no callback runs.
Quiescent ==
    /\ \A t \in Callers : call[t].phase \in {"returned", "thrown"} /\ ~body[t].running
    /\ UNCHANGED vars

Next == (\E t \in Callers : CallStep(t) \/ BodyStep(t)) \/ Quiescent

Spec == Init /\ [][Next]_vars

\* The runtime runs what is ready and fires the timer; the pool serves the
\* calls that wait in the order of their coming.  A callback may hang.
FairSpec ==
    /\ Spec
    /\ \A t \in Callers :
        /\ WF_vars(Begin(t) \/ Timeout(t) \/ CommitCall(t) \/ RollbackCall(t)
                   \/ ReleaseForRetry(t) \/ Retry(t) \/ Release(t))
        /\ SF_vars(Acquire(t))

-----------------------------------------------------------------------------
\* A call that returned has all its statements committed, as long as no
\* statement met a deadlock: a stray callback on the same connection can not
\* take anything away from it.
ReturnedIsComplete ==
    ~deadlocked =>
        \A t \in Callers : call[t].phase = "returned" =>
            \A n \in 1..Statements : <<t, n>> \in db

\* A call that threw left nothing behind, unless its timer had fired or a
\* deadlock was met: then see FailureLeavesNothing.
ThrownLeavesNothing ==
    ~deadlocked =>
        \A t \in Callers \ expired : call[t].phase = "thrown" =>
            \A n \in 1..Statements : <<t, n>> \notin db

\* A connection is always in the pool or with a call that has not ended: no
\* way through the loop loses one.
ConnectionsComeBack ==
    \A c \in Connections : c \in free \/ \E t \in Callers : call[t].conn = c

\* Every call ends, through retries, contention for the pool and callbacks that
\* never answer.
EveryCallEnds ==
    \A t \in Callers :
        InPhase(t, "acquire") ~> call[t].phase \in {"returned", "thrown"}

\* DatabaseTransaction.js:22 - if any operation fails, all changes are
\* automatically rolled back.
FailureLeavesNothing ==
    \A t \in Callers : call[t].phase = "thrown" /\ ~body[t].running =>
        \A n \in 1..Statements : <<t, n>> \notin db

=============================================================================
