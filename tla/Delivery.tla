------------------------------ MODULE Delivery -------------------------------
(***************************************************************************)
(* The proof of delivery of one journey (DeliveryConfirmations and         *)
(* DeliveryConfirmationPhotos): submitted by the driver, by the shipper or *)
(* with the completion, settled, amended, disputed and deleted.            *)
(*                                                                         *)
(* A request reads in one step and writes in another: it is a transaction  *)
(* without a lock, so that what it read is the database as it began, while *)
(* its UPDATE finds the row by its id as it is by then.  A request the     *)
(* code refuses on what it read has no effect and does not begin.          *)
(*                                                                         *)
(* Every request has a stamp of its own, which stands for the time it      *)
(* writes, for the photo it brings and for the terms (quantity, unit,      *)
(* condition, place) it gives.  A hash is what it was computed from.       *)
(***************************************************************************)
EXTENDS Integers, FiniteSets

CONSTANTS
    Receivers,      \* whom a driver may name as the receiver
    Changes,        \* what an update may bring
    Alone,          \* kinds of request of which one is under way at a time
    MaxRows,        \* confirmations
    MaxCalls,       \* requests
    MaxOpen         \* requests under way at once

Parties == {"driver", "shipper", "consignee", "admin"}

Kinds == {"submit", "direct", "receipt", "update", "dispute", "delete"}

ASSUME DeliveryAssumption ==
    /\ Receivers \subseteq Parties
    /\ Changes \subseteq [photos : BOOLEAN, terms : BOOLEAN, signature : {"none", "drawing"}]
    /\ Alone \subseteq Kinds
    /\ MaxRows \in Nat /\ MaxCalls \in Nat /\ MaxOpen \in Nat

VARIABLES
    rows,           \* DeliveryConfirmations with their photos
    journey,        \* "underway" or "completed"
    podRequired,    \* ShipperRequest.isPodRequired
    due,            \* the completion has yet to confirm by itself
    open,           \* requests that have read and not written
    clock           \* requests begun

vars == <<rows, journey, podRequired, due, open, clock>>

-----------------------------------------------------------------------------
Rows == 1..MaxRows
Stamps == 0..MaxCalls
Statuses == {"PENDING", "CONFIRMED", "DISPUTED"}

\* A signature arrives as a drawing and is stored as the file it is uploaded to.
Signatures == {"none", "drawing", "file"}
Uploaded(s) == IF s = "none" THEN "none" ELSE "file"

Hash == [photos : SUBSET Stamps, terms : Stamps, signature : Signatures, at : Stamps]
NoHash == [photos |-> {}, terms |-> 0, signature |-> "none", at |-> 0]

Row == [status : Statuses \cup {"none"}, deleted : BOOLEAN, receiver : Parties,
        photos : SUBSET Stamps, terms : Stamps, signature : Signatures, at : Stamps,
        hash : Hash, previous : Hash]

NoRow == [status |-> "none", deleted |-> FALSE, receiver |-> "shipper",
          photos |-> {}, terms |-> 0, signature |-> "none", at |-> 0,
          hash |-> NoHash, previous |-> NoHash]

Request == [kind : Kinds, row : Rows \cup {0}, receiver : Parties,
            status : Statuses \cup {"same"}, photos : BOOLEAN, terms : BOOLEAN,
            signature : Signatures]

\* view: the database as the request began.
Call == [ask : Request, now : Stamps, view : [Rows -> Row]]

Ask(kind) == [kind |-> kind, row |-> 0, receiver |-> "shipper", status |-> "same",
              photos |-> FALSE, terms |-> FALSE, signature |-> "none"]

TypeOK ==
    /\ rows \in [Rows -> Row]
    /\ journey \in {"underway", "completed"}
    /\ podRequired \in BOOLEAN /\ due \in BOOLEAN
    /\ open \subseteq Call
    /\ clock \in Stamps

Init ==
    /\ rows = [c \in Rows |-> NoRow]
    /\ journey = "underway"
    /\ podRequired \in BOOLEAN
    /\ due = FALSE
    /\ open = {}
    /\ clock = 0

\* The rows the unique key liveJourneyKey is about.
Live(t) == {c \in Rows : t[c].status # "none" /\ ~t[c].deleted}

PhotosOf(ask, now) == IF ask.photos THEN {now} ELSE {}

-----------------------------------------------------------------------------
\* Requests begin: what they read and are refused for.
Begin(ask) ==
    /\ clock < MaxCalls /\ Cardinality(open) < MaxOpen
    /\ ask.kind \in Alone => \A k \in open : k.ask.kind \notin Alone
    /\ clock' = clock + 1
    /\ open' = open \cup {[ask |-> ask, now |-> clock + 1, view |-> rows]}
    /\ UNCHANGED <<rows, journey, podRequired>>

\* The completion commits, and what comes after it confirms the delivery if
\* the order asked for no proof.
CompleteJourney ==
    /\ journey = "underway"
    /\ journey' = "completed"
    /\ due' = ~podRequired
    /\ UNCHANGED <<rows, podRequired, open, clock>>

AutoConfirm ==
    /\ due /\ due' = FALSE
    /\ Live(rows) = {}
    /\ Begin(Ask("receipt"))

SubmitReceiptPhotos ==
    /\ journey = "completed" /\ podRequired
    /\ Live(rows) = {}
    /\ Begin([Ask("receipt") EXCEPT !.photos = TRUE])
    /\ UNCHANGED due

CreateDeliveryConfirmation(receiver) ==
    /\ Begin([Ask("submit") EXCEPT !.receiver = receiver, !.photos = TRUE, !.terms = TRUE])
    /\ UNCHANGED due

CreateShipperDirectConfirmation(withPhotos) ==
    /\ journey = "completed"
    /\ Begin([Ask("direct") EXCEPT !.status = "CONFIRMED", !.photos = withPhotos,
                                    !.terms = TRUE, !.signature = "file"])
    /\ UNCHANGED due

\* A driver who comes after the confirmation adds photos and nothing else.
Late(v, by) == v.status = "CONFIRMED" /\ by = "driver"
Effective(v, ask, by) ==
    IF Late(v, by) THEN [ask EXCEPT !.status = "same", !.terms = FALSE, !.signature = "none"]
    ELSE ask

SignedFieldsChanged(ask) == ask.photos \/ ask.terms \/ ask.signature # "none"
IsSettling(v, ask) == ask.status = "CONFIRMED" /\ v.status # "CONFIRMED"
IsAmendment(v, ask) == v.status = "CONFIRMED" /\ SignedFieldsChanged(ask)
Rehashed(v, ask) == IsSettling(v, ask) \/ IsAmendment(v, ask)

\* The state machine of updateDeliveryConfirmation, on the row it read.
MayUpdate(v, ask, by) ==
    /\ ask.status \notin {"same", v.status} =>
        /\ v.status # "CONFIRMED"
        /\ v.status = "DISPUTED" => ask.status = "CONFIRMED" /\ by \in {"admin", "driver"}
    /\ IsAmendment(v, ask) => by = "admin" \/ Late(v, by)
    /\ IsSettling(v, ask) =>
        /\ v.status = "PENDING" => by \in {"admin", v.receiver}
        /\ ask.signature # "none" \/ v.signature # "none"
        /\ journey = "completed"
    /\ ask.status # "same" \/ SignedFieldsChanged(ask)

UpdateDeliveryConfirmation(c, by) ==
    /\ c \in Live(rows)
    /\ \E status \in Statuses \cup {"same"}, new \in Changes :
        LET given == [Ask("update") EXCEPT !.row = c, !.status = status, !.photos = new.photos,
                                           !.terms = new.terms, !.signature = new.signature]
            ask == Effective(rows[c], given, by)
        IN  MayUpdate(rows[c], ask, by) /\ Begin(ask)
    /\ UNCHANGED due

\* A report about the journey disputes its confirmation or makes a disputed one.
DisputeByDelinquency ==
    /\ \A c \in Live(rows) : rows[c].status # "DISPUTED"
    /\ Begin(Ask("dispute"))
    /\ UNCHANGED due

DeleteDeliveryConfirmation(c, by) ==
    /\ c \in Live(rows)
    /\ rows[c].status = "CONFIRMED" => by = "admin"
    /\ Begin([Ask("delete") EXCEPT !.row = c])
    /\ UNCHANGED due

-----------------------------------------------------------------------------
\* Requests write and commit.
Commit(k, t) ==
    /\ rows' = t
    /\ open' = open \ {k}
    /\ UNCHANGED <<journey, podRequired, due, clock>>

\* An INSERT meets the unique key, or takes the next row.
Inserted(row) ==
    [c \in Rows |-> IF rows[c].status = "none" /\ \A e \in 1..(c - 1) : rows[e].status # "none"
                    THEN row ELSE rows[c]]

Fits == \E c \in Rows : rows[c].status = "none"

\* Fault: the photos stored before are left out.
HashOf_NewPhotos(v, ask, now) ==
    [photos |-> PhotosOf(ask, now),
     terms |-> IF ask.terms THEN now ELSE v.terms,
     signature |-> IF ask.signature = "none" THEN v.signature ELSE ask.signature,
     at |-> IF IsSettling(v, ask) \/ v.at = 0 THEN now ELSE v.at]

HashOf(v, ask, now) ==
    [photos |-> v.photos \cup PhotosOf(ask, now),
     terms |-> IF ask.terms THEN now ELSE v.terms,
     signature |-> IF ask.signature = "none" THEN v.signature ELSE ask.signature,
     at |-> IF IsSettling(v, ask) \/ v.at = 0 THEN now ELSE v.at]

\* Fault: only the first hash is kept.
PreviousHash_First(v, row) == IF row.previous = NoHash THEN v.hash ELSE row.previous

\* The hash that is replaced, when there was one.
PreviousHash(v, row) == IF v.hash = NoHash THEN row.previous ELSE v.hash

\* The UPDATE: computed from the row that was read, written to the row that is there.
Updated(v, row, ask, now) ==
    [row EXCEPT
        !.status = IF ask.status = "same" THEN @ ELSE ask.status,
        !.photos = @ \cup PhotosOf(ask, now),
        !.terms = IF ask.terms THEN now ELSE @,
        !.signature = IF ask.signature = "none" THEN @ ELSE Uploaded(ask.signature),
        !.at = IF ask.status \in {"CONFIRMED", "DISPUTED"} THEN now ELSE @,
        !.hash = IF Rehashed(v, ask) THEN HashOf(v, ask, now) ELSE @,
        !.previous = IF Rehashed(v, ask) THEN PreviousHash(v, row) ELSE @]

WriteUpdate(k) ==
    LET c == k.ask.row
    IN  /\ k.ask.kind = "update"
        /\ Commit(k, [rows EXCEPT ![c] = Updated(k.view[c], @, k.ask, k.now)])

WriteSubmit(k) ==
    /\ k.ask.kind = "submit"
    /\ IF Live(rows) # {} THEN Commit(k, rows)
       ELSE /\ Fits
            /\ Commit(k, Inserted([NoRow EXCEPT !.status = "PENDING", !.photos = {k.now},
                                       !.receiver = k.ask.receiver, !.terms = k.now]))

Settled(ask, now) ==
    LET hash == HashOf(NoRow, ask, now)
    IN  [NoRow EXCEPT !.status = "CONFIRMED", !.photos = hash.photos, !.terms = hash.terms,
                      !.signature = hash.signature, !.at = now, !.hash = hash]

WriteReceipt(k) ==
    /\ k.ask.kind = "receipt"
    /\ IF Live(rows) # {} THEN Commit(k, rows)
       ELSE Fits /\ Commit(k, Inserted(Settled([k.ask EXCEPT !.terms = TRUE], k.now)))

\* The pending confirmation a shipper's own one met, if the shipper received.
MetPending(k) ==
    {c \in Live(k.view) : k.view[c].status = "PENDING" /\ k.view[c].receiver = "shipper"}

WriteDirect(k) ==
    /\ k.ask.kind = "direct"
    /\ IF Live(rows) = {} THEN Fits /\ Commit(k, Inserted(Settled(k.ask, k.now)))
       ELSE Commit(k, [c \in Rows |-> IF c \in MetPending(k)
                                      THEN Updated(k.view[c], rows[c], k.ask, k.now)
                                      ELSE rows[c]])

Disputed(row, now) == [row EXCEPT !.status = "DISPUTED", !.at = now]

WriteDispute(k) ==
    /\ k.ask.kind = "dispute"
    /\ IF Live(k.view) # {}
       THEN Commit(k, [c \in Rows |-> IF c \in Live(k.view) THEN Disputed(rows[c], k.now)
                                      ELSE rows[c]])
       ELSE IF Live(rows) # {} THEN Commit(k, rows)
       ELSE Fits /\ Commit(k, Inserted(Disputed(NoRow, k.now)))

WriteDelete(k) ==
    /\ k.ask.kind = "delete"
    /\ Commit(k, [rows EXCEPT ![k.ask.row].deleted = TRUE])

-----------------------------------------------------------------------------
Next ==
    \/ CompleteJourney
    \/ AutoConfirm
    \/ SubmitReceiptPhotos
    \/ \E r \in Receivers : CreateDeliveryConfirmation(r)
    \/ \E p \in BOOLEAN : CreateShipperDirectConfirmation(p)
    \/ \E c \in Rows, by \in Parties : UpdateDeliveryConfirmation(c, by)
    \/ DisputeByDelinquency
    \/ \E c \in Rows, by \in Parties : DeleteDeliveryConfirmation(c, by)
    \/ \E k \in open : \/ WriteUpdate(k) \/ WriteSubmit(k) \/ WriteReceipt(k)
                       \/ WriteDirect(k) \/ WriteDispute(k) \/ WriteDelete(k)

Spec == Init /\ [][Next]_vars

-----------------------------------------------------------------------------
\* What the admin's tool compares.
Verifies(row) ==
    row.hash = [photos |-> row.photos, terms |-> row.terms, signature |-> row.signature,
                at |-> row.at]

\* A confirmed delivery's hash is over all of its photos and its terms, whatever
\* was added before, with and after the confirmation, and by whom.
HashCovers ==
    \A c \in Rows : rows[c].status = "CONFIRMED" =>
        rows[c].hash.photos = rows[c].photos /\ rows[c].hash.terms = rows[c].terms

\* No hash is lost: an amendment or a new settlement keeps the one it replaces.
HashKept ==
    \A c \in Rows : rows[c].hash \notin {NoHash, rows'[c].hash} =>
        rows'[c].previous = rows[c].hash

HashTrail == [][HashKept]_vars

\* Stated, and not so: the tool finds a settled delivery unchanged.
SettledVerifies == \A c \in Live(rows) : rows[c].status = "CONFIRMED" => Verifies(rows[c])
=============================================================================
