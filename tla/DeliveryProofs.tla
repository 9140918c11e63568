--------------------------- MODULE DeliveryProofs ----------------------------
(***************************************************************************)
(* What Delivery keeps for any rows, requests and bounds, when one request *)
(* at a time settles or amends.                                            *)
(***************************************************************************)
EXTENDS Delivery, TLAPS

-----------------------------------------------------------------------------
Updating == {"update", "direct"}

Covers(row) ==
    row.status = "CONFIRMED" => row.hash.photos = row.photos /\ row.hash.terms = row.terms

\* What a settlement or an amendment read is what it finds, but for the status,
\* which can only have become a dispute.
Unmoved(v, row) ==
    /\ row.photos = v.photos /\ row.terms = v.terms /\ row.hash = v.hash
    /\ row.status # "none"
    /\ row.status = "CONFIRMED" => v.status = "CONFIRMED"

\* A confirmed delivery is asked for no other status.
Allowed(v, ask) == v.status = "CONFIRMED" => ask.status \in {"same", "CONFIRMED"}

CallInv(k) ==
    /\ k.ask.kind \in {"update", "delete"} => k.ask.row \in Live(k.view)
    /\ k.ask.kind = "update" => Allowed(k.view[k.ask.row], k.ask)
    /\ \A c \in Rows : Covers(k.view[c])
    /\ k.ask.kind \in Updating => \A c \in Live(k.view) : Unmoved(k.view[c], rows[c])

OneAlone == \A k, l \in open : k.ask.kind \in Alone /\ l.ask.kind \in Alone => k = l

IInv ==
    /\ TypeOK
    /\ OneAlone
    /\ \A c \in Rows : rows[c].status = "none" => rows[c].hash = NoHash
    /\ \A c \in Rows : Covers(rows[c])
    /\ \A k \in open : CallInv(k)

-----------------------------------------------------------------------------
\* Rows and requests are typed.
LEMMA BlankTyped == NoHash \in Hash /\ NoRow \in Row
<1>1. 0 \in Stamps
  BY DeliveryAssumption DEF Stamps
<1> QED BY <1>1 DEF NoHash, Hash, NoRow, Row, Signatures, Statuses, Parties

LEMMA AskTyped ==
    ASSUME NEW kind \in Kinds
    PROVE  Ask(kind) \in Request /\ Ask(kind).kind = kind
BY DEF Ask, Request, Parties, Signatures, Rows

LEMMA HashTyped ==
    ASSUME NEW v \in Row, NEW ask \in Request, NEW now \in Stamps
    PROVE  HashOf(v, ask, now) \in Hash
<1>1. v.photos \cup PhotosOf(ask, now) \in SUBSET Stamps
  BY DEF PhotosOf, Row
<1>2. /\ (IF ask.terms THEN now ELSE v.terms) \in Stamps
      /\ (IF ask.signature = "none" THEN v.signature ELSE ask.signature) \in Signatures
      /\ (IF IsSettling(v, ask) \/ v.at = 0 THEN now ELSE v.at) \in Stamps
  BY DEF Row, Request
<1> QED BY <1>1, <1>2 DEF HashOf, Hash

\* The fields an UPDATE leaves.
LEMMA UpdatedFields ==
    ASSUME NEW v \in Row, NEW row \in Row, NEW ask \in Request, NEW now \in Stamps
    PROVE  /\ Updated(v, row, ask, now) \in Row
           /\ Updated(v, row, ask, now).status \in {row.status, ask.status} \ {"same"}
           /\ ask.status # "same" => Updated(v, row, ask, now).status = ask.status
           /\ Updated(v, row, ask, now).photos = row.photos \cup PhotosOf(ask, now)
           /\ ask.terms => Updated(v, row, ask, now).terms = now
           /\ ~ask.terms => Updated(v, row, ask, now).terms = row.terms
           /\ Rehashed(v, ask) =>
                /\ Updated(v, row, ask, now).hash = HashOf(v, ask, now)
                /\ Updated(v, row, ask, now).previous = PreviousHash(v, row)
           /\ ~Rehashed(v, ask) => Updated(v, row, ask, now).hash = row.hash
<1> DEFINE status == IF ask.status = "same" THEN row.status ELSE ask.status
           photos == row.photos \cup PhotosOf(ask, now)
           terms == IF ask.terms THEN now ELSE row.terms
           signature == IF ask.signature = "none" THEN row.signature ELSE Uploaded(ask.signature)
           at == IF ask.status \in {"CONFIRMED", "DISPUTED"} THEN now ELSE row.at
           hash == IF Rehashed(v, ask) THEN HashOf(v, ask, now) ELSE row.hash
           previous == IF Rehashed(v, ask) THEN PreviousHash(v, row) ELSE row.previous
<1>1. /\ status \in Statuses \cup {"none"} /\ photos \in SUBSET Stamps
      /\ terms \in Stamps /\ signature \in Signatures /\ at \in Stamps
  BY DEF Row, Request, PhotosOf, Uploaded, Signatures
<1>2. hash \in Hash /\ previous \in Hash
  BY HashTyped DEF Row, PreviousHash
<1> HIDE DEF status, photos, terms, signature, at, hash, previous
<1>3. Updated(v, row, ask, now) =
        [row EXCEPT !.status = status, !.photos = photos, !.terms = terms,
                    !.signature = signature, !.at = at, !.hash = hash, !.previous = previous]
  BY DEF Updated, status, photos, terms, signature, at, hash, previous
<1>4. /\ Updated(v, row, ask, now) \in Row
      /\ Updated(v, row, ask, now).status = status
      /\ Updated(v, row, ask, now).photos = photos
      /\ Updated(v, row, ask, now).terms = terms
      /\ Updated(v, row, ask, now).hash = hash
      /\ Updated(v, row, ask, now).previous = previous
  BY <1>1, <1>2, <1>3 DEF Row
<1>5. row.status # "same"
  BY DEF Row, Statuses
<1> QED BY <1>4, <1>5 DEF status, photos, terms, hash, previous

\* An UPDATE of a row that stands as it was read leaves its hash covering it,
\* and loses no hash.
LEMMA UpdatedCovers ==
    ASSUME NEW v \in Row, NEW row \in Row, NEW ask \in Request, NEW now \in Stamps,
           Unmoved(v, row), Covers(v), Covers(row), Allowed(v, ask)
    PROVE  LET u == Updated(v, row, ask, now)
           IN  /\ Covers(u)
               /\ u.status # "none"
               /\ row.hash \notin {NoHash, u.hash} => u.previous = row.hash
<1> DEFINE u == Updated(v, row, ask, now)
<1>1. /\ u.status \in {row.status, ask.status} \ {"same"}
      /\ ask.status # "same" => u.status = ask.status
      /\ u.photos = row.photos \cup PhotosOf(ask, now)
      /\ ask.terms => u.terms = now
      /\ ~ask.terms => u.terms = row.terms
      /\ Rehashed(v, ask) => u.hash = HashOf(v, ask, now) /\ u.previous = PreviousHash(v, row)
      /\ ~Rehashed(v, ask) => u.hash = row.hash
  BY UpdatedFields, SMTT(90)
<1> HIDE DEF u
<1>2. CASE Rehashed(v, ask)
  <2>1. u.hash.photos = u.photos /\ u.hash.terms = u.terms
    BY <1>1, <1>2 DEF HashOf, Unmoved
  <2>2. row.hash # NoHash => u.previous = row.hash
    BY <1>1, <1>2 DEF PreviousHash, Unmoved
  <2>3. u.status # "none"
    BY <1>1 DEF Unmoved, Request, Statuses
  <2> QED BY <2>1, <2>2, <2>3 DEF Covers, u
<1>3. CASE ~Rehashed(v, ask)
  <2>1. u.hash = row.hash
    BY <1>1, <1>3
  <2>2. u.status # "none"
    BY <1>1 DEF Unmoved, Request, Statuses
  <2>3. ASSUME u.status = "CONFIRMED"
        PROVE  u.hash.photos = u.photos /\ u.hash.terms = u.terms
    <3>1. v.status = "CONFIRMED"
      BY <1>1, <1>3, <2>3 DEF Unmoved, Rehashed, IsSettling, Request
    <3>2. ~ask.photos /\ ~ask.terms
      BY <1>3, <3>1 DEF Rehashed, IsAmendment, SignedFieldsChanged, Request
    <3>3. u.photos = v.photos /\ u.terms = v.terms /\ u.hash = v.hash
      BY <1>1, <2>1, <3>2 DEF PhotosOf, Unmoved
    <3> QED BY <3>1, <3>3 DEF Covers
  <2> QED BY <2>1, <2>2, <2>3 DEF Covers, u
<1> QED BY <1>2, <1>3

-----------------------------------------------------------------------------
\* A request begins: what it keeps of the rows is what they are.
LEMMA BeginInv ==
    ASSUME IInv, NEW ask \in Request, Begin(ask), due' \in BOOLEAN,
           ask.kind \in {"update", "delete"} => ask.row \in Live(rows),
           ask.kind = "update" => Allowed(rows[ask.row], ask)
    PROVE  IInv'
<1> PICK new : new = [ask |-> ask, now |-> clock + 1, view |-> rows]
  OBVIOUS
<1>1. /\ open' = open \cup {new} /\ clock' = clock + 1 /\ rows' = rows
      /\ journey' = journey /\ podRequired' = podRequired
      /\ clock + 1 \in Stamps
  BY DeliveryAssumption DEF Begin, IInv, TypeOK, Stamps
<1>2. new \in Call
  BY <1>1 DEF Call, IInv, TypeOK
<1>3. /\ new.ask = ask /\ new.view = rows
  OBVIOUS
<1>4. TypeOK'
  BY <1>1, <1>2 DEF IInv, TypeOK
<1>5. OneAlone'
  BY <1>1, <1>3 DEF IInv, OneAlone, Begin
<1>6. ASSUME NEW k \in open
      PROVE  CallInv(k)'
  <2>1. CallInv(k)
    BY DEF IInv
  <2> QED BY <1>1, <2>1 DEF CallInv
<1>7. CallInv(new)'
  <2>1. \A c \in Live(rows) : Unmoved(rows[c], rows[c])
    BY DEF Live, Unmoved
  <2> QED BY <1>1, <1>3, <2>1 DEF IInv, CallInv
<1>8. \A k \in open' : CallInv(k)'
  BY <1>1, <1>6, <1>7
<1> QED BY <1>1, <1>4, <1>5, <1>8 DEF IInv

\* A request commits rows that are covered, and that leave the request that
\* settles or amends, if it is another one, what it read.
LEMMA CommitInv ==
    ASSUME IInv, NEW k \in open, NEW t \in [Rows -> Row], Commit(k, t),
           \A c \in Rows : t[c].status = "none" => t[c].hash = NoHash,
           \A c \in Rows : Covers(t[c]),
           \A l \in open \ {k} : l.ask.kind \in Updating =>
               \A c \in Live(l.view) : Unmoved(l.view[c], t[c])
    PROVE  IInv'
<1>1. /\ rows' = t /\ open' = open \ {k}
      /\ journey' = journey /\ podRequired' = podRequired /\ due' = due /\ clock' = clock
  BY DEF Commit
<1>2. TypeOK'
  BY <1>1 DEF IInv, TypeOK
<1>3. OneAlone'
  BY <1>1 DEF IInv, OneAlone
<1>4. \A l \in open' : CallInv(l)'
  BY <1>1 DEF IInv, CallInv
<1> QED BY <1>1, <1>2, <1>3, <1>4 DEF IInv

LEMMA RefusedInv ==
    ASSUME IInv, NEW k \in open, Commit(k, rows)
    PROVE  IInv'
<1>1. \A l \in open : l.ask.kind \in Updating => \A c \in Live(l.view) : Unmoved(l.view[c], rows[c])
  BY DEF IInv, CallInv
<1> QED BY <1>1, CommitInv DEF IInv, TypeOK

\* A new row takes the place of none that was read.
LEMMA InsertedInv ==
    ASSUME IInv, NEW k \in open, NEW row \in Row, row.status # "none", Covers(row),
           Commit(k, Inserted(row))
    PROVE  IInv'
<1> DEFINE t == Inserted(row)
<1>1. /\ t \in [Rows -> Row]
      /\ \A c \in Rows : t[c] = rows[c] \/ (t[c] = row /\ rows[c].status = "none")
  BY DEF Inserted, IInv, TypeOK
<1>2. \A c \in Rows : Covers(t[c]) /\ (t[c].status = "none" => t[c].hash = NoHash)
  BY <1>1 DEF IInv
<1>3. ASSUME NEW l \in open, l.ask.kind \in Updating, NEW c \in Live(l.view)
      PROVE  Unmoved(l.view[c], t[c])
  <2>1. Unmoved(l.view[c], rows[c]) /\ c \in Rows
    BY <1>3 DEF IInv, CallInv, Live
  <2>2. t[c] = rows[c]
    BY <1>1, <2>1 DEF Unmoved
  <2> QED BY <2>1, <2>2
<1> HIDE DEF t
<1> QED BY <1>1, <1>2, <1>3, CommitInv DEF t

\* A change of some rows that leaves their photos, terms and hashes, and
\* confirms none, moves nothing that was read.
LEMMA MarkedInv ==
    ASSUME IInv, NEW k \in open, NEW t \in [Rows -> Row], Commit(k, t),
           \A c \in Rows : /\ t[c].photos = rows[c].photos /\ t[c].terms = rows[c].terms
                           /\ t[c].hash = rows[c].hash
                           /\ t[c].status \in {rows[c].status, "DISPUTED"}
    PROVE  IInv'
<1>1. \A c \in Rows : Covers(t[c]) /\ (t[c].status = "none" => t[c].hash = NoHash)
  BY DEF IInv, Covers
<1>2. ASSUME NEW l \in open, l.ask.kind \in Updating, NEW c \in Live(l.view)
      PROVE  Unmoved(l.view[c], t[c])
  <2>1. Unmoved(l.view[c], rows[c]) /\ c \in Rows
    BY <1>2 DEF IInv, CallInv, Live
  <2> QED BY <2>1 DEF Unmoved
<1> QED BY <1>1, <1>2, CommitInv

\* A request that settles or amends is the only one that does, and writes to
\* rows that stand as it read them.
LEMMA UpdatedInv ==
    ASSUME IInv, Updating \subseteq Alone, NEW k \in open, k.ask.kind \in Updating,
           NEW S \in SUBSET Live(k.view), NEW t, Commit(k, t),
           \A c \in S : Allowed(k.view[c], k.ask),
           t = [c \in Rows |-> IF c \in S THEN Updated(k.view[c], rows[c], k.ask, k.now)
                               ELSE rows[c]]
    PROVE  IInv' /\ HashKept
<1>1. /\ k.ask \in Request /\ k.now \in Stamps /\ k.view \in [Rows -> Row]
      /\ rows \in [Rows -> Row] /\ S \subseteq Rows
  BY DEF IInv, TypeOK, Call, Live
<1>2. \A c \in S : Unmoved(k.view[c], rows[c]) /\ Covers(k.view[c]) /\ Covers(rows[c])
  BY <1>1 DEF IInv, CallInv
<1>3. ASSUME NEW c \in S
      PROVE  /\ t[c] \in Row /\ Covers(t[c]) /\ t[c].status # "none"
             /\ rows[c].hash \notin {NoHash, t[c].hash} => t[c].previous = rows[c].hash
  <2>1. t[c] = Updated(k.view[c], rows[c], k.ask, k.now)
    BY <1>1
  <2>2. k.view[c] \in Row /\ rows[c] \in Row
    BY <1>1
  <2>3. t[c] \in Row
    BY <1>1, <2>1, <2>2, UpdatedFields
  <2> QED BY <1>1, <1>2, <2>1, <2>2, <2>3, UpdatedCovers
<1>4. \A c \in Rows \ S : t[c] = rows[c]
  OBVIOUS
<1>5. t \in [Rows -> Row]
  BY <1>1, <1>3
<1>6. \A c \in Rows : Covers(t[c]) /\ (t[c].status = "none" => t[c].hash = NoHash)
  BY <1>3, <1>4 DEF IInv
<1>7. \A l \in open \ {k} : l.ask.kind \notin Updating
  BY DEF IInv, OneAlone
<1>8. IInv'
  BY <1>5, <1>6, <1>7, CommitInv
<1>9. rows' = t
  BY DEF Commit
<1> QED BY <1>3, <1>4, <1>8, <1>9 DEF HashKept

-----------------------------------------------------------------------------
\* Requests begin.
LEMMA BeginsInv ==
    ASSUME IInv,
           \/ CompleteJourney \/ AutoConfirm \/ SubmitReceiptPhotos
           \/ \E r \in Receivers : CreateDeliveryConfirmation(r)
           \/ \E p \in BOOLEAN : CreateShipperDirectConfirmation(p)
           \/ \E c \in Rows, by \in Parties : UpdateDeliveryConfirmation(c, by)
           \/ DisputeByDelinquency
           \/ \E c \in Rows, by \in Parties : DeleteDeliveryConfirmation(c, by)
    PROVE  IInv' /\ rows' = rows
<1>1. CASE CompleteJourney
  <2>1. rows' = rows /\ open' = open
    BY <1>1 DEF CompleteJourney
  <2>2. TypeOK' /\ OneAlone' /\ \A k \in open' : CallInv(k)'
    BY <1>1, <2>1 DEF CompleteJourney, IInv, TypeOK, OneAlone, CallInv
  <2> QED BY <2>1, <2>2 DEF IInv
<1>2. CASE AutoConfirm
  <2>1. Ask("receipt") \in Request /\ Ask("receipt").kind = "receipt"
    BY AskTyped DEF Kinds, Ask
  <2> QED BY <1>2, <2>1, BeginInv DEF AutoConfirm, Begin
<1>3. CASE SubmitReceiptPhotos
  <2> DEFINE ask == [Ask("receipt") EXCEPT !.photos = TRUE]
  <2>1. ask \in Request /\ ask.kind = "receipt"
    <3>1. Ask("receipt") \in Request /\ Ask("receipt").kind = "receipt"
      BY AskTyped DEF Kinds
    <3> QED BY <3>1 DEF Request
  <2>2. Begin(ask) /\ due' = due
    BY <1>3 DEF SubmitReceiptPhotos
  <2> HIDE DEF ask
  <2> QED BY <2>1, <2>2, BeginInv DEF Begin, IInv, TypeOK
<1>4. ASSUME NEW r \in Receivers, CreateDeliveryConfirmation(r)
      PROVE  IInv' /\ rows' = rows
  <2> DEFINE ask == [Ask("submit") EXCEPT !.receiver = r, !.photos = TRUE, !.terms = TRUE]
  <2>1. ask \in Request /\ ask.kind = "submit"
    <3>1. Ask("submit") \in Request /\ Ask("submit").kind = "submit"
      BY AskTyped DEF Kinds
    <3>2. r \in Parties
      BY DeliveryAssumption
    <3> QED BY <3>1, <3>2 DEF Request
  <2>2. Begin(ask) /\ due' = due
    BY <1>4 DEF CreateDeliveryConfirmation
  <2> HIDE DEF ask
  <2> QED BY <2>1, <2>2, BeginInv DEF Begin, IInv, TypeOK
<1>5. ASSUME NEW p \in BOOLEAN, CreateShipperDirectConfirmation(p)
      PROVE  IInv' /\ rows' = rows
  <2> DEFINE ask == [Ask("direct") EXCEPT !.status = "CONFIRMED", !.photos = p,
                                          !.terms = TRUE, !.signature = "file"]
  <2>1. ask \in Request /\ ask.kind = "direct"
    <3>1. Ask("direct") \in Request /\ Ask("direct").kind = "direct"
      BY AskTyped DEF Kinds
    <3>2. "CONFIRMED" \in Statuses /\ "file" \in Signatures
      BY DEF Statuses, Signatures
    <3> QED BY <3>1, <3>2 DEF Request
  <2>2. Begin(ask) /\ due' = due
    BY <1>5 DEF CreateShipperDirectConfirmation
  <2> HIDE DEF ask
  <2> QED BY <2>1, <2>2, BeginInv DEF Begin, IInv, TypeOK
<1>6. ASSUME NEW c \in Rows, NEW by \in Parties, UpdateDeliveryConfirmation(c, by)
      PROVE  IInv' /\ rows' = rows
  <2>1. PICK status \in Statuses \cup {"same"}, new \in Changes :
           LET given == [Ask("update") EXCEPT !.row = c, !.status = status, !.photos = new.photos,
                                              !.terms = new.terms, !.signature = new.signature]
               ask == Effective(rows[c], given, by)
           IN  MayUpdate(rows[c], ask, by) /\ Begin(ask)
    BY <1>6 DEF UpdateDeliveryConfirmation
  <2> DEFINE given == [Ask("update") EXCEPT !.row = c, !.status = status, !.photos = new.photos,
                                            !.terms = new.terms, !.signature = new.signature]
             ask == Effective(rows[c], given, by)
  <2>2. MayUpdate(rows[c], ask, by) /\ Begin(ask)
    BY <2>1
  <2>3. /\ new.photos \in BOOLEAN /\ new.terms \in BOOLEAN /\ new.signature \in Signatures
    BY DeliveryAssumption DEF Signatures
  <2>4. given \in Request /\ given.kind = "update" /\ given.row = c
    <3>1. Ask("update") \in Request /\ Ask("update").kind = "update"
      BY AskTyped DEF Kinds
    <3> QED BY <2>3, <3>1 DEF Request
  <2> HIDE DEF given
  <2>5. ask \in Request /\ ask.kind = "update" /\ ask.row = c
    BY <2>4 DEF Effective, Request, Signatures
  <2> HIDE DEF ask
  <2>6. Allowed(rows[c], ask)
    BY <2>2, <2>5 DEF MayUpdate, Allowed
  <2> QED BY <1>6, <2>2, <2>5, <2>6, BeginInv DEF UpdateDeliveryConfirmation, Begin, IInv, TypeOK
<1>7. CASE DisputeByDelinquency
  <2>1. Ask("dispute") \in Request /\ Ask("dispute").kind = "dispute"
    BY AskTyped DEF Kinds, Ask
  <2> QED BY <1>7, <2>1, BeginInv DEF DisputeByDelinquency, Begin, IInv, TypeOK
<1>8. ASSUME NEW c \in Rows, NEW by \in Parties, DeleteDeliveryConfirmation(c, by)
      PROVE  IInv' /\ rows' = rows
  <2> DEFINE ask == [Ask("delete") EXCEPT !.row = c]
  <2>1. ask \in Request /\ ask.kind = "delete" /\ ask.row = c
    <3>1. Ask("delete") \in Request /\ Ask("delete").kind = "delete"
      BY AskTyped DEF Kinds
    <3> QED BY <3>1 DEF Request
  <2>2. Begin(ask) /\ due' = due /\ c \in Live(rows)
    BY <1>8 DEF DeleteDeliveryConfirmation
  <2> HIDE DEF ask
  <2> QED BY <2>1, <2>2, BeginInv DEF Begin, IInv, TypeOK
<1> QED BY <1>1, <1>2, <1>3, <1>4, <1>5, <1>6, <1>7, <1>8

\* Requests write.
LEMMA WritesInv ==
    ASSUME IInv, Updating \subseteq Alone, NEW k \in open,
           \/ WriteUpdate(k) \/ WriteSubmit(k) \/ WriteReceipt(k)
           \/ WriteDirect(k) \/ WriteDispute(k) \/ WriteDelete(k)
    PROVE  IInv' /\ HashKept
<1>1. /\ k \in Call /\ k.ask \in Request /\ k.now \in Stamps /\ k.view \in [Rows -> Row]
      /\ rows \in [Rows -> Row]
  BY DEF IInv, TypeOK, Call
<1>2. ASSUME Commit(k, rows)
      PROVE  IInv' /\ HashKept
  BY <1>2, RefusedInv DEF Commit, HashKept
<1>3. ASSUME NEW row \in Row, row.status # "none", Covers(row), Commit(k, Inserted(row))
      PROVE  IInv' /\ HashKept
  <2>1. IInv'
    BY <1>3, InsertedInv
  <2>2. HashKept
    BY <1>1, <1>3 DEF Commit, Inserted, HashKept, IInv
  <2> QED BY <2>1, <2>2
<1>4. CASE WriteUpdate(k)
  <2> DEFINE c == k.ask.row
             t == [rows EXCEPT ![c] = Updated(k.view[c], rows[c], k.ask, k.now)]
  <2>1. k.ask.kind = "update" /\ Commit(k, t)
    BY <1>4 DEF WriteUpdate
  <2>2. c \in Live(k.view) /\ Allowed(k.view[c], k.ask)
    BY <2>1 DEF IInv, CallInv
  <2>3. t = [e \in Rows |-> IF e \in {c} THEN Updated(k.view[e], rows[e], k.ask, k.now)
                            ELSE rows[e]]
    BY <1>1
  <2> QED BY <2>1, <2>2, <2>3, UpdatedInv DEF Updating
<1>5. CASE WriteSubmit(k)
  <2> DEFINE row == [NoRow EXCEPT !.status = "PENDING", !.photos = {k.now},
                                  !.receiver = k.ask.receiver, !.terms = k.now]
  <2>1. row \in Row /\ row.status = "PENDING"
    BY <1>1, BlankTyped DEF Row, Request, Statuses
  <2>2. Commit(k, rows) \/ Commit(k, Inserted(row))
    BY <1>5 DEF WriteSubmit
  <2> HIDE DEF row
  <2> QED BY <1>2, <1>3, <2>1, <2>2 DEF Covers
<1>6. ASSUME NEW ask \in Request
      PROVE  /\ Settled(ask, k.now) \in Row /\ Settled(ask, k.now).status # "none"
             /\ Covers(Settled(ask, k.now))
  <2> DEFINE hash == HashOf(NoRow, ask, k.now)
  <2>1. hash \in Hash
    BY <1>1, <1>6, BlankTyped, HashTyped
  <2> HIDE DEF hash
  <2>2. Settled(ask, k.now) =
          [NoRow EXCEPT !.status = "CONFIRMED", !.photos = hash.photos, !.terms = hash.terms,
                        !.signature = hash.signature, !.at = k.now, !.hash = hash]
    BY DEF Settled, hash
  <2>3. /\ hash.photos \in SUBSET Stamps /\ hash.terms \in Stamps
        /\ hash.signature \in Signatures /\ k.now \in Stamps
    BY <1>1, <2>1 DEF Hash
  <2>4. /\ Settled(ask, k.now) \in Row /\ Settled(ask, k.now).status = "CONFIRMED"
        /\ Settled(ask, k.now).hash = hash /\ Settled(ask, k.now).photos = hash.photos
        /\ Settled(ask, k.now).terms = hash.terms
    BY <2>1, <2>2, <2>3, BlankTyped DEF Row, Statuses
  <2> QED BY <2>4 DEF Covers
<1>7. CASE WriteReceipt(k)
  <2> DEFINE ask == [k.ask EXCEPT !.terms = TRUE]
  <2>1. ask \in Request
    BY <1>1 DEF Request
  <2>2. Commit(k, rows) \/ Commit(k, Inserted(Settled(ask, k.now)))
    BY <1>7 DEF WriteReceipt
  <2> HIDE DEF ask
  <2> QED BY <1>2, <1>3, <1>6, <2>1, <2>2
<1>8. CASE WriteDirect(k)
  <2>1. CASE Commit(k, Inserted(Settled(k.ask, k.now)))
    BY <1>1, <1>3, <1>6, <2>1
  <2> DEFINE t == [c \in Rows |-> IF c \in MetPending(k)
                                  THEN Updated(k.view[c], rows[c], k.ask, k.now) ELSE rows[c]]
  <2>2. CASE Commit(k, t)
    <3>1. /\ MetPending(k) \subseteq Live(k.view)
          /\ \A c \in MetPending(k) : Allowed(k.view[c], k.ask)
      BY DEF MetPending, Allowed
    <3>2. k.ask.kind \in Updating
      BY <1>8 DEF WriteDirect, Updating
    <3> QED BY <2>2, <3>1, <3>2, UpdatedInv
  <2> QED BY <1>8, <2>1, <2>2 DEF WriteDirect
<1>9. CASE WriteDispute(k)
  <2>1. ASSUME NEW row \in Row
        PROVE  /\ Disputed(row, k.now) \in Row /\ Disputed(row, k.now).status = "DISPUTED"
               /\ Disputed(row, k.now).photos = row.photos /\ Disputed(row, k.now).terms = row.terms
               /\ Disputed(row, k.now).hash = row.hash
    BY <1>1, <2>1 DEF Disputed, Row, Statuses
  <2> DEFINE t == [c \in Rows |-> IF c \in Live(k.view) THEN Disputed(rows[c], k.now) ELSE rows[c]]
  <2>2. CASE Commit(k, t)
    <3>1. /\ t \in [Rows -> Row]
          /\ \A c \in Rows : /\ t[c].photos = rows[c].photos /\ t[c].terms = rows[c].terms
                             /\ t[c].hash = rows[c].hash
                             /\ t[c].status \in {rows[c].status, "DISPUTED"}
      BY <1>1, <2>1
    <3> HIDE DEF t
    <3>2. rows' = t
      BY <2>2 DEF Commit
    <3> QED BY <2>2, <3>1, <3>2, MarkedInv DEF HashKept
  <2>3. CASE Commit(k, Inserted(Disputed(NoRow, k.now)))
    BY <1>3, <2>1, <2>3, BlankTyped DEF Covers
  <2> QED BY <1>2, <1>9, <2>2, <2>3 DEF WriteDispute
<1>10. CASE WriteDelete(k)
  <2> DEFINE t == [rows EXCEPT ![k.ask.row].deleted = TRUE]
  <2>1. Commit(k, t)
    BY <1>10 DEF WriteDelete
  <2>2. /\ t \in [Rows -> Row]
        /\ \A c \in Rows : /\ t[c].photos = rows[c].photos /\ t[c].terms = rows[c].terms
                           /\ t[c].hash = rows[c].hash
                           /\ t[c].status \in {rows[c].status, "DISPUTED"}
    <3>1. t = [c \in Rows |-> IF c = k.ask.row THEN [rows[c] EXCEPT !.deleted = TRUE] ELSE rows[c]]
      BY <1>1
    <3>2. ASSUME NEW row \in Row
          PROVE  /\ [row EXCEPT !.deleted = TRUE] \in Row
                 /\ [row EXCEPT !.deleted = TRUE].photos = row.photos
                 /\ [row EXCEPT !.deleted = TRUE].terms = row.terms
                 /\ [row EXCEPT !.deleted = TRUE].hash = row.hash
                 /\ [row EXCEPT !.deleted = TRUE].status = row.status
      BY <3>2 DEF Row
    <3> HIDE DEF t
    <3> QED BY <1>1, <3>1, <3>2
  <2> HIDE DEF t
  <2>3. rows' = t
    BY <2>1 DEF Commit
  <2> QED BY <2>1, <2>2, <2>3, MarkedInv DEF HashKept
<1> QED BY <1>4, <1>5, <1>7, <1>8, <1>9, <1>10

-----------------------------------------------------------------------------
LEMMA InitInv == Init => IInv
<1> SUFFICES ASSUME Init PROVE IInv
  OBVIOUS
<1>1. TypeOK
  <2>1. 0 \in Stamps
    BY DeliveryAssumption DEF Stamps
  <2>2. rows \in [Rows -> Row]
    BY BlankTyped DEF Init
  <2> QED BY <2>1, <2>2 DEF Init, TypeOK
<1>2. OneAlone /\ \A k \in open : CallInv(k)
  BY DEF Init, OneAlone
<1>3. \A c \in Rows : Covers(rows[c]) /\ rows[c].hash = NoHash
  BY DEF Init, NoRow, Covers
<1> QED BY <1>1, <1>2, <1>3 DEF IInv

LEMMA NextInv == Updating \subseteq Alone /\ IInv /\ [Next]_vars => IInv' /\ [HashKept]_vars
<1> SUFFICES ASSUME Updating \subseteq Alone, IInv, [Next]_vars
             PROVE  IInv' /\ [HashKept]_vars
  OBVIOUS
<1>1. CASE UNCHANGED vars
  BY <1>1 DEF vars, IInv, TypeOK, OneAlone, CallInv
<1>2. CASE \E k \in open : \/ WriteUpdate(k) \/ WriteSubmit(k) \/ WriteReceipt(k)
                           \/ WriteDirect(k) \/ WriteDispute(k) \/ WriteDelete(k)
  BY <1>2, WritesInv
<1>3. ASSUME IInv' /\ rows' = rows
      PROVE  HashKept
  BY <1>3 DEF HashKept
<1> QED BY <1>1, <1>2, <1>3, BeginsInv DEF Next

\* One settlement or amendment at a time: the rows and the requests under way
\* are typed and agree.
THEOREM Invariant == Updating \subseteq Alone => (Spec => []IInv)
<1> SUFFICES ASSUME Updating \subseteq Alone PROVE Spec => []IInv
  OBVIOUS
<1>1. IInv /\ [Next]_vars => IInv'
  BY NextInv
<1> QED BY <1>1, InitInv, PTL DEF Spec

\* The hash of a confirmed delivery is over all of its photos and its terms.
THEOREM HashIsWhole == Updating \subseteq Alone => (Spec => []HashCovers)
<1> SUFFICES ASSUME Updating \subseteq Alone PROVE Spec => []HashCovers
  OBVIOUS
<1>1. IInv => HashCovers
  BY DEF IInv, Covers, HashCovers
<1>2. Spec => []IInv
  BY Invariant
<1> QED BY <1>1, <1>2, PTL

\* Every hash that is replaced is kept beside the new one.
THEOREM TrailIsKept == Updating \subseteq Alone => (Spec => HashTrail)
<1> SUFFICES ASSUME Updating \subseteq Alone PROVE Spec => HashTrail
  OBVIOUS
<1>1. IInv /\ [Next]_vars => [HashKept]_vars
  BY NextInv
<1>2. Spec => []IInv
  BY Invariant
<1> QED BY <1>1, <1>2, PTL DEF Spec, HashTrail
=============================================================================
