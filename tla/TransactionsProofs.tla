------------------------- MODULE TransactionsProofs -------------------------
(***************************************************************************)
(* What executeInTransaction keeps for any calls, connections, statements  *)
(* and retries.                                                            *)
(*                                                                         *)
(* None of the properties is inductive.  That every connection comes back  *)
(* rests on a call in backoff having given its connection away already;    *)
(* that a returned call is complete and a thrown one left nothing rests on *)
(* two calls never holding one connection, which holds until the first     *)
(* retry after a deadlock releases a connection twice.                     *)
(***************************************************************************)
EXTENDS Transactions, TLAPS

Retrying == {"retry", "backoff"}

Fresh == {"idle", "acquire", "begin", "run", "commit"}

Holding == {"begin", "run", "commit", "rollback", "release"} \cup Retrying

Numbers == 1..Statements

-----------------------------------------------------------------------------
\* A call between Acquire and Release names a connection, and one about to
\* retry may do so; a callback that runs names one too.
Named ==
    \A t \in Callers :
        /\ call[t].phase \in Holding => call[t].conn \in Connections
        /\ call[t].phase \in Retrying => call[t].attempt < MaxRetries /\ deadlocked
        /\ body[t].running => body[t].conn \in Connections

\* A connection is in the pool or with a call that did not give it back.
Kept ==
    \A c \in Connections :
        c \in free \/ \E t \in Callers : /\ call[t].conn = c
                                         /\ call[t].phase \in Holding \ {"backoff"}

\* A connection is with one call, and then not in the pool.
Exclusive ==
    \A t \in Callers : call[t].phase \in Holding =>
        /\ call[t].conn \notin free
        /\ \A u \in Callers \ {t} :
              call[u].phase \in Holding => call[u].conn # call[t].conn

\* A call has failed when its way leads through the rollback, and not before.
Failing ==
    \A t \in Callers :
        /\ call[t].phase \in Fresh \cup {"returned"} => ~call[t].failed
        /\ call[t].phase \in {"rollback", "thrown"} => call[t].failed

\* What a call in time has written is in its own transaction, in full at the
\* commit, and in the database after it.
Written ==
    \A t \in Callers :
        /\ call[t].phase = "run" =>
              /\ body[t].running /\ body[t].conn = call[t].conn
              /\ session[call[t].conn].open
              /\ \A n \in Numbers : n <= body[t].done =>
                    <<t, n>> \in session[call[t].conn].writes
        /\ call[t].phase = "commit" =>
              \A n \in Numbers : <<t, n>> \in session[call[t].conn].writes
        /\ call[t].phase \in {"release", "returned"} /\ ~call[t].failed =>
              \A n \in Numbers : <<t, n>> \in db

\* A call whose timer did not fire writes while it runs, only into its own
\* transaction, and reaches the database only by its commit.
Confined ==
    \A t \in Callers \ expired :
        /\ body[t].running => call[t].phase = "run"
        /\ \A n \in Numbers, c \in Connections : <<t, n>> \in session[c].writes =>
              /\ c = call[t].conn
              /\ call[t].phase \in {"run", "commit", "rollback"}
        /\ call[t].phase \in Fresh \/ call[t].failed =>
              \A n \in Numbers : <<t, n>> \notin db

Clean == Exclusive /\ Failing /\ Written /\ Confined

IInv == TypeOK /\ Named /\ Kept /\ (~deadlocked => Clean)

USE DEF InPhase, Goto, Retrying, Fresh, Holding

-----------------------------------------------------------------------------
\* The call starts.
LEMMA EnterInv ==
    ASSUME IInv, NEW t \in Callers, Enter(t)
    PROVE  IInv'
<1>1. TypeOK'
  BY DEF IInv, Named, TypeOK, Calls, Phases, Enter
<1>2. Named'
  BY DEF IInv, Named, TypeOK, Calls, Enter
<1>3. Kept'
  BY DEF IInv, Named, Kept, TypeOK, Calls, Enter
<1>4. ASSUME ~deadlocked' PROVE Clean'
  <2>0. Clean
    BY <1>4 DEF IInv, Enter
  <2>1. Exclusive'
    BY <2>0 DEF IInv, Clean, Exclusive, Named, TypeOK, Calls, Enter
  <2>2. Failing'
    BY <2>0 DEF IInv, Clean, Failing, TypeOK, Calls, Enter
  <2>3. Written'
    BY <1>4, <2>0 DEF IInv, Clean, Exclusive, Failing, Written, Named,
       Numbers, TypeOK, Calls, Enter
  <2>4. Confined'
    BY <2>0 DEF IInv, Clean, Exclusive, Failing, Written, Confined, Named,
       Numbers, TypeOK, Calls, Enter
  <2> QED
    BY <2>1, <2>2, <2>3, <2>4 DEF Clean
<1> QED
  BY <1>1, <1>2, <1>3, <1>4 DEF IInv

\* A connection of the pool is held by nobody, so it stays with one call.
LEMMA AcquireInv ==
    ASSUME IInv, NEW t \in Callers, Acquire(t)
    PROVE  IInv'
<1>1. TypeOK'
  <2>1. PICK c \in free : /\ free' = free \ {c}
                          /\ call' = [call EXCEPT ![t].phase = "begin", ![t].conn = c]
    BY DEF Acquire
  <2>2. c \in Connections
    BY DEF IInv, TypeOK
  <2>3. call' \in [Callers -> Calls]
    BY <2>1, <2>2 DEF IInv, TypeOK, Calls, Phases
  <2> QED
    BY <2>1, <2>3 DEF IInv, TypeOK, Acquire
<1>2. Named'
  BY DEF IInv, Named, TypeOK, Calls, Acquire
<1>3. Kept'
  BY DEF IInv, Named, Kept, TypeOK, Calls, Acquire
<1>4. ASSUME ~deadlocked' PROVE Clean'
  <2>0. Clean
    BY <1>4 DEF IInv, Acquire
  <2>1. Exclusive'
    BY <2>0 DEF IInv, Clean, Exclusive, Named, TypeOK, Calls, Acquire
  <2>2. Failing'
    BY <2>0 DEF IInv, Clean, Failing, TypeOK, Calls, Acquire
  <2>3. Written'
    BY <1>4, <2>0 DEF IInv, Clean, Exclusive, Failing, Written, Named,
       Numbers, TypeOK, Calls, Acquire
  <2>4. Confined'
    BY <2>0 DEF IInv, Clean, Exclusive, Failing, Written, Confined, Named,
       Numbers, TypeOK, Calls, Acquire
  <2> QED
    BY <2>1, <2>2, <2>3, <2>4 DEF Clean
<1> QED
  BY <1>1, <1>2, <1>3, <1>4 DEF IInv

\* What an earlier callback left open on the connection is committed; it is
\* not a write of a call in time, which writes only to the connection it
\* holds.
LEMMA BeginInv ==
    ASSUME IInv, NEW t \in Callers, Begin(t)
    PROVE  IInv'
<1>1. TypeOK'
  BY TransactionsAssumption DEF IInv, Named, TypeOK, Sessions, Calls,
     Phases, Bodies, Begin, BeginOn
<1>2. Named'
  BY DEF IInv, Named, TypeOK, Calls, Bodies, Begin
<1>3. Kept'
  BY DEF IInv, Named, Kept, TypeOK, Calls, Begin
<1>4. ASSUME ~deadlocked' PROVE Clean'
  <2>0. Clean
    BY <1>4 DEF IInv, Begin
  <2>1. Exclusive'
    BY <2>0 DEF IInv, Clean, Exclusive, Named, TypeOK, Calls, Begin
  <2>2. Failing'
    BY <2>0 DEF IInv, Clean, Failing, TypeOK, Calls, Begin
  <2>3. Written'
    BY <1>4, <2>0 DEF IInv, Clean, Exclusive, Failing, Written, Named,
       Numbers, TypeOK, Sessions, Calls, Bodies, Begin, BeginOn
  <2>4. Confined'
    BY <2>0 DEF IInv, Clean, Exclusive, Failing, Written, Confined, Named,
       Numbers, TypeOK, Sessions, Calls, Bodies, Begin, BeginOn
  <2> QED
    BY <2>1, <2>2, <2>3, <2>4 DEF Clean
<1> QED
  BY <1>1, <1>2, <1>3, <1>4 DEF IInv

\* The callback runs on; the call no longer counts as in time.
LEMMA TimeoutInv ==
    ASSUME IInv, NEW t \in Callers, Timeout(t)
    PROVE  IInv'
<1>1. TypeOK'
  BY DEF IInv, Named, TypeOK, Calls, Phases, Timeout
<1>2. Named'
  BY DEF IInv, Named, TypeOK, Calls, Timeout
<1>3. Kept'
  BY DEF IInv, Named, Kept, TypeOK, Calls, Timeout
<1>4. ASSUME ~deadlocked' PROVE Clean'
  <2>0. Clean
    BY <1>4 DEF IInv, Timeout
  <2>1. Exclusive'
    BY <2>0 DEF IInv, Clean, Exclusive, Named, TypeOK, Calls, Timeout
  <2>2. Failing'
    BY <2>0 DEF IInv, Clean, Failing, TypeOK, Calls, Timeout
  <2>3. Written'
    BY <1>4, <2>0 DEF IInv, Clean, Exclusive, Failing, Written, Named,
       Numbers, TypeOK, Calls, Timeout
  <2>4. Confined'
    BY <2>0 DEF IInv, Clean, Exclusive, Failing, Written, Confined, Named,
       Numbers, TypeOK, Calls, Timeout
  <2> QED
    BY <2>1, <2>2, <2>3, <2>4 DEF Clean
<1> QED
  BY <1>1, <1>2, <1>3, <1>4 DEF IInv

\* Everything the call wrote is in its session.
LEMMA CommitCallInv ==
    ASSUME IInv, NEW t \in Callers, CommitCall(t)
    PROVE  IInv'
<1>1. TypeOK'
  BY DEF IInv, Named, TypeOK, Sessions, Calls, Phases, CommitCall,
     CommitOn, Closed
<1>2. Named'
  BY DEF IInv, Named, TypeOK, Calls, CommitCall
<1>3. Kept'
  BY DEF IInv, Named, Kept, TypeOK, Calls, CommitCall
<1>4. ASSUME ~deadlocked' PROVE Clean'
  <2>0. Clean
    BY <1>4 DEF IInv, CommitCall
  <2>1. Exclusive'
    BY <2>0 DEF IInv, Clean, Exclusive, Named, TypeOK, Calls, CommitCall
  <2>2. Failing'
    BY <2>0 DEF IInv, Clean, Failing, TypeOK, Calls, CommitCall
  <2>3. Written'
    BY <1>4, <2>0 DEF IInv, Clean, Exclusive, Failing, Written, Named,
       Numbers, TypeOK, Sessions, Calls, CommitCall, CommitOn, Closed
  <2>4. Confined'
    BY <2>0 DEF IInv, Clean, Exclusive, Failing, Written, Confined, Named,
       Numbers, TypeOK, Sessions, Calls, CommitCall, CommitOn, Closed
  <2> QED
    BY <2>1, <2>2, <2>3, <2>4 DEF Clean
<1> QED
  BY <1>1, <1>2, <1>3, <1>4 DEF IInv

\* Only the session of the call is emptied.
LEMMA RollbackCallInv ==
    ASSUME IInv, NEW t \in Callers, RollbackCall(t)
    PROVE  IInv'
<1>1. TypeOK'
  BY DEF IInv, Named, TypeOK, Sessions, Calls, Phases, RollbackCall,
     RollbackOn, Closed
<1>2. Named'
  BY DEF IInv, Named, TypeOK, Calls, RollbackCall
<1>3. Kept'
  BY DEF IInv, Named, Kept, TypeOK, Calls, RollbackCall
<1>4. ASSUME ~deadlocked' PROVE Clean'
  <2>0. Clean
    BY <1>4 DEF IInv, RollbackCall
  <2>1. Exclusive'
    BY <2>0 DEF IInv, Clean, Exclusive, Named, TypeOK, Calls, RollbackCall
  <2>2. Failing'
    BY <2>0 DEF IInv, Clean, Failing, TypeOK, Calls, RollbackCall
  <2>3. Written'
    BY <1>4, <2>0 DEF IInv, Clean, Exclusive, Failing, Written, Named,
       Numbers, TypeOK, Sessions, Calls, RollbackCall, RollbackOn, Closed
  <2>4. Confined'
    BY <2>0 DEF IInv, Clean, Exclusive, Failing, Written, Confined, Named,
       Numbers, TypeOK, Sessions, Calls, RollbackCall, RollbackOn, Closed
  <2> QED
    BY <2>1, <2>2, <2>3, <2>4 DEF Clean
<1> QED
  BY <1>1, <1>2, <1>3, <1>4 DEF IInv

\* The connection goes back to the pool.
LEMMA ReleaseInv ==
    ASSUME IInv, NEW t \in Callers, Release(t)
    PROVE  IInv'
<1>1. TypeOK'
  <2>1. call[t].conn \in Connections
    BY DEF IInv, Named, Release
  <2> DEFINE end == IF call[t].failed THEN "thrown" ELSE "returned"
  <2>2. end \in Phases
    BY DEF Phases
  <2>3. call' = [call EXCEPT ![t].phase = end, ![t].conn = None]
    BY DEF Release
  <2> HIDE DEF end
  <2>4. call' \in [Callers -> Calls]
    BY <2>2, <2>3 DEF IInv, TypeOK, Calls
  <2> QED
    BY <2>1, <2>4 DEF IInv, TypeOK, Release
<1>2. Named'
  BY DEF IInv, Named, TypeOK, Calls, Release
<1>3. Kept'
  BY DEF IInv, Named, Kept, TypeOK, Calls, Release
<1>4. ASSUME ~deadlocked' PROVE Clean'
  <2>0. Clean
    BY <1>4 DEF IInv, Release
  <2>1. Exclusive'
    BY <2>0 DEF IInv, Clean, Exclusive, Named, TypeOK, Calls, Release
  <2>2. Failing'
    BY <2>0 DEF IInv, Clean, Failing, TypeOK, Calls, Release
  <2>3. Written'
    BY <1>4, <2>0 DEF IInv, Clean, Exclusive, Failing, Written, Named,
       Numbers, TypeOK, Calls, Release
  <2>4. Confined'
    BY <2>0 DEF IInv, Clean, Exclusive, Failing, Written, Confined, Named,
       Numbers, TypeOK, Calls, Release
  <2> QED
    BY <2>1, <2>2, <2>3, <2>4 DEF Clean
<1> QED
  BY <1>1, <1>2, <1>3, <1>4 DEF IInv

\* A callback in time writes to the open transaction of its call, any other
\* one only pairs of its own.
LEMMA StatementInv ==
    ASSUME IInv, NEW t \in Callers, Statement(t)
    PROVE  IInv'
<1> DEFINE c == body[t].conn
           w == <<t, body[t].done + 1>>
<1>0. /\ c \in Connections
      /\ body[t].done \in Nat /\ body[t].done < Statements
      /\ body' = [body EXCEPT ![t].done = @ + 1]
      /\ w \in Writes
  BY TransactionsAssumption DEF IInv, Named, TypeOK, Bodies, Statement, Writes
<1>a. /\ db \subseteq db'
      /\ \A p \in Connections :
            /\ session[p].writes \subseteq session'[p].writes
            /\ session[p].open => session'[p].open
  BY <1>0 DEF IInv, TypeOK, Sessions, Statement, WriteOn
<1>b. ASSUME session[c].open PROVE db' = db /\ w \in session'[c].writes
  BY <1>0, <1>b DEF IInv, TypeOK, Sessions, Statement, WriteOn
<1>c. /\ db' \subseteq db \cup {w}
      /\ \A p \in Connections :
            session'[p].writes \subseteq session[p].writes \cup (IF p = c THEN {w} ELSE {})
  BY <1>0 DEF IInv, TypeOK, Sessions, Statement, WriteOn
<1>1. TypeOK'
  <2>1. session' \in [Connections -> Sessions] /\ db' \subseteq Writes
    <3> HIDE DEF w
    <3> QED BY <1>0 DEF IInv, TypeOK, Sessions, Statement, WriteOn, w
  <2>2. body' \in [Callers -> Bodies]
    BY <1>0, TransactionsAssumption DEF IInv, TypeOK, Bodies
  <2> QED
    BY <2>1, <2>2 DEF IInv, TypeOK, Statement
<1>2. Named'
  BY DEF IInv, Named, TypeOK, Calls, Bodies, Statement
<1>3. Kept'
  BY DEF IInv, Named, Kept, TypeOK, Calls, Statement
<1>4. ASSUME ~deadlocked' PROVE Clean'
  <2>0. Clean
    BY <1>4 DEF IInv, Statement
  <2>1. Exclusive'
    BY <2>0 DEF IInv, Clean, Exclusive, Named, TypeOK, Calls, Statement
  <2>2. Failing'
    BY <2>0 DEF IInv, Clean, Failing, TypeOK, Calls, Statement
  <2>3. Written'
    <3>1. \A u \in Callers : call[u].phase \in Holding => call[u].conn \in Connections
      BY DEF IInv, Named
    <3>2. call[t].phase = "run" => c = call[t].conn /\ session[c].open
      BY <2>0 DEF Clean, Written
    <3>3. ASSUME NEW n \in Numbers, n <= body[t].done + 1, n > body[t].done
          PROVE  <<t, n>> = w
      BY <3>3, <1>0, TransactionsAssumption DEF Numbers
    <3>4. \A u \in Callers : u # t => body'[u] = body[u]
      BY <1>0 DEF IInv, TypeOK
    <3>5. body'[t].done = body[t].done + 1 /\ body'[t].running = body[t].running
          /\ body'[t].conn = c
      BY <1>0 DEF IInv, TypeOK, Bodies
    <3>6. call' = call
      BY DEF Statement
    <3> HIDE DEF c, w
    <3> SUFFICES ASSUME NEW u \in Callers
                 PROVE  /\ call[u].phase = "run" =>
                             /\ body'[u].running /\ body'[u].conn = call[u].conn
                             /\ session'[call[u].conn].open
                             /\ \A n \in Numbers : n <= body'[u].done =>
                                   <<u, n>> \in session'[call[u].conn].writes
                        /\ call[u].phase = "commit" =>
                             \A n \in Numbers : <<u, n>> \in session'[call[u].conn].writes
                        /\ call[u].phase \in {"release", "returned"} /\ ~call[u].failed =>
                             \A n \in Numbers : <<u, n>> \in db'
      BY <3>6 DEF Written
    <3>7. CASE u # t
      BY <3>7, <2>0, <1>a, <3>1, <3>4 DEF Clean, Written
    <3>8. CASE u = t
      <4>1. ASSUME call[t].phase = "run", NEW n \in Numbers, n <= body'[t].done
            PROVE  <<t, n>> \in session'[call[t].conn].writes
        <5>1. CASE n <= body[t].done
          BY <4>1, <5>1, <2>0, <1>a, <3>1 DEF Clean, Written
        <5>2. CASE ~(n <= body[t].done)
          <6>1. n > body[t].done /\ n <= body[t].done + 1
            BY <5>2, <4>1, <3>5, <1>0, TransactionsAssumption DEF Numbers
          <6> QED
            BY <6>1, <4>1, <3>2, <3>3, <1>b
        <5> QED BY <5>1, <5>2
      <4> QED
        BY <3>8, <4>1, <2>0, <1>a, <3>1, <3>5 DEF Clean, Written, c
    <3> QED BY <3>7, <3>8
  <2>4. Confined'
    <3>1. ASSUME NEW u \in Callers, u # t, NEW n PROVE <<u, n>> # w
      BY <3>1
    <3>2. ASSUME t \notin expired
          PROVE  /\ call[t].phase = "run" /\ ~call[t].failed
                 /\ c = call[t].conn /\ session[c].open
      BY <3>2, <2>0 DEF Clean, Confined, Written, Failing, Statement
    <3>3. /\ call' = call /\ expired' = expired
          /\ \A u \in Callers : body'[u].running = body[u].running
      BY <1>0 DEF IInv, TypeOK, Bodies, Statement
    <3> HIDE DEF c, w
    <3> SUFFICES ASSUME NEW u \in Callers \ expired
                 PROVE  /\ body[u].running => call[u].phase = "run"
                        /\ \A n \in Numbers, p \in Connections :
                              <<u, n>> \in session'[p].writes =>
                                 /\ p = call[u].conn
                                 /\ call[u].phase \in {"run", "commit", "rollback"}
                        /\ call[u].phase \in Fresh \/ call[u].failed =>
                              \A n \in Numbers : <<u, n>> \notin db'
      BY <3>3 DEF Confined
    <3>4. CASE u # t
      BY <3>1, <3>4, <2>0, <1>c DEF Clean, Confined
    <3>5. CASE u = t
      BY <3>2, <3>5, <2>0, <1>b, <1>c DEF Clean, Confined
    <3> QED BY <3>4, <3>5
  <2> QED
    BY <2>1, <2>2, <2>3, <2>4 DEF Clean
<1> QED
  BY <1>1, <1>2, <1>3, <1>4 DEF IInv

\* The call goes on to the commit with all its statements in its session, or
\* is past it.
LEMMA ResolveInv ==
    ASSUME IInv, NEW t \in Callers, Resolve(t)
    PROVE  IInv'
<1>1. TypeOK'
  BY TransactionsAssumption DEF IInv, Named, TypeOK, Calls, Phases,
     Bodies, Resolve, NoBody
<1>2. Named'
  BY DEF IInv, Named, TypeOK, Calls, Bodies, Resolve, NoBody
<1>3. Kept'
  BY DEF IInv, Named, Kept, TypeOK, Calls, Resolve
<1>4. ASSUME ~deadlocked' PROVE Clean'
  <2>0. Clean
    BY <1>4 DEF IInv, Resolve
  <2>1. Exclusive'
    BY <2>0 DEF IInv, Clean, Exclusive, Named, TypeOK, Calls, Resolve
  <2>2. Failing'
    BY <2>0 DEF IInv, Clean, Failing, TypeOK, Calls, Resolve
  <2>3. Written'
    BY <1>4, <2>0 DEF IInv, Clean, Exclusive, Failing, Written, Named,
       Numbers, TypeOK, Calls, Bodies, Resolve, NoBody
  <2>4. Confined'
    BY <2>0 DEF IInv, Clean, Exclusive, Failing, Written, Confined, Named,
       Numbers, TypeOK, Calls, Bodies, Resolve, NoBody
  <2> QED
    BY <2>1, <2>2, <2>3, <2>4 DEF Clean
<1> QED
  BY <1>1, <1>2, <1>3, <1>4 DEF IInv

\* The call goes on to the rollback, or is past it.
LEMMA ThrowInv ==
    ASSUME IInv, NEW t \in Callers, Throw(t)
    PROVE  IInv'
<1>1. TypeOK'
  <2>1. body' \in [Callers -> Bodies]
    BY TransactionsAssumption DEF IInv, TypeOK, Bodies, Throw, NoBody
  <2>2. call' \in [Callers -> Calls]
    BY DEF IInv, TypeOK, Calls, Phases, Throw
  <2> QED
    BY <2>1, <2>2 DEF IInv, TypeOK, Throw
<1>2. Named'
  BY DEF IInv, Named, TypeOK, Calls, Bodies, Throw, NoBody
<1>3. Kept'
  BY DEF IInv, Named, Kept, TypeOK, Calls, Throw
<1>4. ASSUME ~deadlocked' PROVE Clean'
  <2>0. Clean
    BY <1>4 DEF IInv, Throw
  <2>1. Exclusive'
    BY <2>0 DEF IInv, Clean, Exclusive, Named, TypeOK, Calls, Throw
  <2>2. Failing'
    BY <2>0 DEF IInv, Clean, Failing, TypeOK, Calls, Throw
  <2>3. Written'
    BY <1>4, <2>0 DEF IInv, Clean, Exclusive, Failing, Written, Named,
       Numbers, TypeOK, Calls, Bodies, Throw, NoBody
  <2>4. Confined'
    BY <2>0 DEF IInv, Clean, Exclusive, Failing, Written, Confined, Named,
       Numbers, TypeOK, Calls, Bodies, Throw, NoBody
  <2> QED
    BY <2>1, <2>2, <2>3, <2>4 DEF Clean
<1> QED
  BY <1>1, <1>2, <1>3, <1>4 DEF IInv

\* After a deadlock nothing is claimed but that the connection is in the
\* pool.
LEMMA ReleaseForRetryInv ==
    ASSUME IInv, NEW t \in Callers, ReleaseForRetry(t)
    PROVE  IInv'
<1>1. TypeOK'
  BY DEF IInv, Named, TypeOK, Sessions, Calls, Phases, ReleaseForRetry,
     RollbackOn, Closed
<1>2. Named'
  BY DEF IInv, Named, TypeOK, Calls, ReleaseForRetry
<1>3. Kept'
  BY DEF IInv, Named, Kept, TypeOK, Calls, ReleaseForRetry
<1>4. deadlocked'
  BY DEF IInv, Named, ReleaseForRetry
<1> QED
  BY <1>1, <1>2, <1>3, <1>4 DEF IInv

\* A call in backoff has given its connection away, released twice or not.
LEMMA RetryInv ==
    ASSUME IInv, NEW t \in Callers, Retry(t)
    PROVE  IInv'
<1>1. TypeOK'
  BY TransactionsAssumption DEF IInv, Named, TypeOK, Calls, Phases, Retry
<1>2. Named'
  BY DEF IInv, Named, TypeOK, Calls, Retry
<1>3. Kept'
  BY DEF IInv, Named, Kept, TypeOK, Calls, Retry
<1>4. deadlocked'
  BY DEF IInv, Named, Retry
<1> QED
  BY <1>1, <1>2, <1>3, <1>4 DEF IInv

\* A call is retried while its attempts last.
LEMMA DeadlockInv ==
    ASSUME IInv, NEW t \in Callers, Deadlock(t)
    PROVE  IInv'
<1>1. TypeOK'
  BY TransactionsAssumption DEF IInv, Named, TypeOK, Sessions, Calls,
     Phases, Bodies, Deadlock, RollbackOn, Closed, NoBody
<1>2. Named'
  BY DEF IInv, Named, TypeOK, Calls, Bodies, Deadlock, RollbackOn, Closed,
     NoBody
<1>3. Kept'
  BY DEF IInv, Named, Kept, TypeOK, Calls, Deadlock
<1>4. deadlocked'
  BY DEF IInv, Named, Deadlock
<1> QED
  BY <1>1, <1>2, <1>3, <1>4 DEF IInv

-----------------------------------------------------------------------------
\* No call has begun, every connection is in the pool.
LEMMA InitInv == Init => IInv
<1> SUFFICES ASSUME Init PROVE IInv
  OBVIOUS
<1>1. \A t \in Callers : call[t].phase = "idle" /\ ~call[t].failed /\ ~body[t].running
  BY DEF Init, NoBody
<1>2. TypeOK
  <2>1. session \in [Connections -> Sessions]
    BY DEF Init, Sessions, Closed
  <2>2. call \in [Callers -> Calls]
    BY TransactionsAssumption DEF Init, Calls, Phases
  <2>3. body \in [Callers -> Bodies]
    BY TransactionsAssumption DEF Init, Bodies, NoBody
  <2> QED
    BY <2>1, <2>2, <2>3 DEF Init, TypeOK
<1>3. Named /\ Kept
  BY <1>1 DEF Init, Named, Kept
<1>4. Exclusive /\ Failing /\ Written
  BY <1>1 DEF Exclusive, Failing, Written
<1>5. Confined
  BY <1>1 DEF Init, Closed, Confined
<1> QED
  BY <1>2, <1>3, <1>4, <1>5 DEF IInv, Clean

\* One case per step of a call and of a callback.
LEMMA NextInv == IInv /\ [Next]_vars => IInv'
<1> SUFFICES ASSUME IInv, [Next]_vars PROVE IInv'
  OBVIOUS
<1>1. CASE UNCHANGED vars
  BY <1>1 DEF vars, IInv, TypeOK, Named, Kept, Clean, Exclusive, Failing, Written,
              Confined
<1>2. ASSUME NEW t \in Callers, CallStep(t) PROVE IInv'
  BY <1>2, EnterInv, AcquireInv, BeginInv, TimeoutInv, CommitCallInv,
     RollbackCallInv, ReleaseForRetryInv, RetryInv, ReleaseInv DEF CallStep
<1>3. ASSUME NEW t \in Callers, BodyStep(t) PROVE IInv'
  BY <1>3, StatementInv, ResolveInv, ThrowInv, DeadlockInv DEF BodyStep
<1> QED
  BY <1>1, <1>2, <1>3 DEF Next, Quiescent

\* The inductive invariant, through every interleaving of calls, timers and
\* callbacks.
THEOREM Invariant == Spec => []IInv
BY InitInv, NextInv, PTL DEF Spec

\* Typed states for any calls, connections, statements and retries: in
\* particular the attempts never pass MAX_RETRIES.
THEOREM TypeCorrect == Spec => []TypeOK
BY Invariant, PTL DEF IInv

\* No way through the loop of executeInTransaction loses a connection.
THEOREM ComeBack == Spec => []ConnectionsComeBack
<1>1. IInv => ConnectionsComeBack
  BY DEF IInv, Kept, ConnectionsComeBack
<1> QED
  BY <1>1, Invariant, PTL

\* A call that returned has written everything, whatever callbacks of calls
\* that timed out go on writing beside it.
THEOREM Complete == Spec => []ReturnedIsComplete
<1>1. IInv => ReturnedIsComplete
  BY DEF IInv, Clean, Failing, Written, Numbers, ReturnedIsComplete
<1> QED
  BY <1>1, Invariant, PTL

\* A call that threw before its timer fired has written nothing.
THEOREM Nothing == Spec => []ThrownLeavesNothing
<1>1. IInv => ThrownLeavesNothing
  BY DEF IInv, Clean, Failing, Confined, Numbers, ThrownLeavesNothing
<1> QED
  BY <1>1, Invariant, PTL

=============================================================================
