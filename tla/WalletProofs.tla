---------------------------- MODULE WalletProofs ----------------------------
(***************************************************************************)
(* What TLAPS proves about Wallet, for every value of its constants.       *)
(***************************************************************************)
EXTENDS Wallet, FiniteSetTheorems, SequenceTheorems, TLAPS

-----------------------------------------------------------------------------
(***************************************************************************)
(* The balance a ledger shows.                                             *)
(***************************************************************************)
\* A non-empty set of positions in a sequence has a greatest one.
LEMMA LastExists ==
    ASSUME NEW n \in Nat, NEW S, S \subseteq 1..n, S # {}
    PROVE  \E m \in S : \A x \in S : m >= x
<1> DEFINE below == {n - x : x \in S}
<1>1. below \subseteq Nat /\ below # {}
  <2>1. ASSUME NEW x \in S PROVE n - x \in Nat
    <3>1. x \in 1..n
      OBVIOUS
    <3> QED BY <3>1
  <2> QED BY <2>1
<1>2. PICK m \in below : \A x \in below : ~(<<x, m>> \in OpToRel(<, Nat))
  BY <1>1, NatLessThanWellFounded, WFMin
<1>3. PICK s \in S : m = n - s
  OBVIOUS
<1>4. ASSUME NEW x \in S PROVE s >= x
  <2>1. n - x \in below /\ n - x \in Nat /\ m \in Nat
    BY <1>1
  <2>2. ~(n - x < m)
    BY <1>2, <2>1 DEF OpToRel
  <2> QED BY <2>1, <2>2, <1>3
<1> QED BY <1>4

\* A user without rows has nothing.
LEMMA NetOfNobody ==
    ASSUME NEW rows \in Seq(RowType), NEW u, \A i \in DOMAIN rows : rows[i].user # u
    PROVE  NetOf(rows, u) = 0
<1>1. {i \in DOMAIN rows : rows[i].user = u} = {}
  OBVIOUS
<1> QED BY <1>1 DEF NetOf

\* The balance is what the user's last row says.
LEMMA NetOfLast ==
    ASSUME NEW rows \in Seq(RowType), NEW u, NEW i \in DOMAIN rows, rows[i].user = u,
           \A j \in DOMAIN rows : j > i => rows[j].user # u
    PROVE  NetOf(rows, u) = rows[i].net
<1> DEFINE own == {j \in DOMAIN rows : rows[j].user = u}
<1>1. own \subseteq Nat /\ i \in own /\ \A j \in own : i >= j
  OBVIOUS
<1>2. \A m \in own : (\A j \in own : m >= j) => m = i
  <2> SUFFICES ASSUME NEW m \in own, \A j \in own : m >= j PROVE m = i
    OBVIOUS
  <2>1. m >= i /\ i >= m /\ m \in Nat /\ i \in Nat
    BY <1>1
  <2> QED BY <2>1
<1>3. Max(own) = i
  BY <1>1, <1>2 DEF Max
<1> QED BY <1>1, <1>3 DEF NetOf

\* A user with rows has a last one.
LEMMA HasLast ==
    ASSUME NEW rows \in Seq(RowType), NEW u, NEW k \in DOMAIN rows, rows[k].user = u
    PROVE  \E i \in DOMAIN rows :
              rows[i].user = u /\ \A j \in DOMAIN rows : j > i => rows[j].user # u
<1> DEFINE own == {j \in DOMAIN rows : rows[j].user = u}
<1>1. own \subseteq 1..Len(rows) /\ own # {} /\ Len(rows) \in Nat
  OBVIOUS
<1>2. PICK i \in own : \A x \in own : i >= x
  BY <1>1, LastExists
<1>3. ASSUME NEW j \in DOMAIN rows, j > i PROVE rows[j].user # u
  BY <1>2, <1>1, <1>3
<1> QED BY <1>3

\* The balance a ledger shows is a number.
LEMMA NetOfInt ==
    ASSUME NEW rows \in Seq(RowType), NEW u
    PROVE  NetOf(rows, u) \in Int
<1>1. CASE \A i \in DOMAIN rows : rows[i].user # u
  BY <1>1, NetOfNobody
<1>2. CASE \E i \in DOMAIN rows : rows[i].user = u
  <2>1. PICK i \in DOMAIN rows :
              rows[i].user = u /\ \A j \in DOMAIN rows : j > i => rows[j].user # u
    BY <1>2, HasLast
  <2>2. NetOf(rows, u) = rows[i].net
    BY <2>1, NetOfLast
  <2>3. rows[i] \in RowType
    OBVIOUS
  <2> QED BY <2>2, <2>3 DEF RowType
<1> QED BY <1>1, <1>2

\* Rows of others do not change a user's balance.
LEMMA NetOfOthers ==
    ASSUME NEW rows \in Seq(RowType), NEW more \in Seq(RowType), NEW u,
           \A i \in DOMAIN more : more[i].user # u
    PROVE  NetOf(rows \o more, u) = NetOf(rows, u)
<1> DEFINE all == rows \o more
<1>1. /\ all \in Seq(RowType) /\ Len(all) = Len(rows) + Len(more)
      /\ \A i \in 1..Len(rows) : all[i] = rows[i]
      /\ \A i \in 1..Len(more) : all[Len(rows) + i] = more[i]
  OBVIOUS
<1>2. ASSUME NEW i \in DOMAIN all, i > Len(rows) PROVE all[i].user # u
  <2>1. i - Len(rows) \in 1..Len(more) /\ i = Len(rows) + (i - Len(rows))
    BY <1>1, <1>2
  <2>2. all[i] = more[i - Len(rows)]
    BY <1>1, <2>1
  <2> QED BY <2>1, <2>2
<1>3. CASE \A i \in DOMAIN rows : rows[i].user # u
  <2>1. ASSUME NEW i \in DOMAIN all PROVE all[i].user # u
    <3>1. CASE i > Len(rows)
      BY <3>1, <1>2
    <3>2. CASE i <= Len(rows)
      BY <3>2, <1>1, <1>3
    <3> QED BY <3>1, <3>2, <1>1
  <2>2. NetOf(all, u) = 0
    BY <2>1, <1>1, NetOfNobody
  <2>3. NetOf(rows, u) = 0
    BY <1>3, NetOfNobody
  <2> QED BY <2>2, <2>3
<1>4. CASE \E i \in DOMAIN rows : rows[i].user = u
  <2>1. PICK i \in DOMAIN rows :
              rows[i].user = u /\ \A j \in DOMAIN rows : j > i => rows[j].user # u
    BY <1>4, HasLast
  <2>2. NetOf(rows, u) = rows[i].net
    BY <2>1, NetOfLast
  <2>3. i \in DOMAIN all /\ all[i] = rows[i]
    BY <1>1
  <2>4. ASSUME NEW j \in DOMAIN all, j > i PROVE all[j].user # u
    <3>1. CASE j > Len(rows)
      BY <3>1, <1>2
    <3>2. CASE j <= Len(rows)
      <4>1. j \in DOMAIN rows /\ all[j] = rows[j]
        BY <3>2, <1>1
      <4> QED BY <4>1, <2>1, <2>4
    <3> QED BY <3>1, <3>2, <1>1
  <2>5. NetOf(all, u) = all[i].net
    BY <2>3, <2>4, <2>1, <1>1, NetOfLast
  <2> QED BY <2>2, <2>3, <2>5
<1> QED BY <1>3, <1>4

\* A row added to the ledger is the balance of its user and of nobody else.
LEMMA NetOfAppend ==
    ASSUME NEW rows \in Seq(RowType), NEW r \in RowType, NEW u
    PROVE  NetOf(Append(rows, r), u) = IF r.user = u THEN r.net ELSE NetOf(rows, u)
<1> DEFINE all == Append(rows, r)
<1>1. /\ all \in Seq(RowType) /\ Len(all) = Len(rows) + 1 /\ all[Len(all)] = r
      /\ Len(all) \in DOMAIN all /\ DOMAIN all = 1..Len(all)
  OBVIOUS
<1>2. CASE r.user = u
  <2>1. \A j \in DOMAIN all : j > Len(all) => all[j].user # u
    BY <1>1
  <2>2. NetOf(all, u) = all[Len(all)].net
    BY <2>1, <1>1, <1>2, NetOfLast
  <2> QED BY <2>2, <1>1, <1>2
<1>3. CASE r.user # u
  <2>1. <<r>> \in Seq(RowType) /\ all = rows \o <<r>> /\ \A i \in DOMAIN <<r>> : <<r>>[i].user # u
    BY <1>3
  <2>2. NetOf(rows \o <<r>>, u) = NetOf(rows, u)
    BY <2>1, NetOfOthers
  <2> QED BY <2>1, <2>2, <1>3
<1> QED BY <1>2, <1>3

-----------------------------------------------------------------------------
(***************************************************************************)
(* What a call adds to the ledger.                                         *)
(***************************************************************************)
\* A row of the ledger belongs to the document.
Written(rows, d) == \E i \in DOMAIN rows : rows[i].of = d

\* How many there are.
Count(rows, d) == Cardinality({i \in DOMAIN rows : rows[i].of = d})

\* A transfer may be given another row.
HasRoom(rows, d) == Count(rows, d) \in {0, 1}

\* The row that moves a user's balance.
NewRow(rows, u, d, delta) ==
    [user |-> u, of |-> d, delta |-> delta, net |-> NetOf(rows, u) + delta]

BookType == [rows : Seq(RowType), ok : BOOLEAN]

\* The row a call adds is a row.
LEMMA NewRowType ==
    ASSUME NEW rows \in Seq(RowType), NEW u \in Users, NEW d \in Documents, NEW delta \in Int
    PROVE  NewRow(rows, u, d, delta) \in RowType
<1>1. NetOf(rows, u) \in Int
  BY NetOfInt
<1>2. NetOf(rows, u) + delta \in Int
  BY <1>1
<1> QED BY <1>2 DEF NewRow, RowType

\* The number of a document's rows is zero when it has none.
LEMMA CountWritten ==
    ASSUME NEW rows \in Seq(RowType), NEW d
    PROVE  Count(rows, d) \in Nat /\ (Count(rows, d) = 0 <=> ~Written(rows, d))
<1> DEFINE S == {i \in DOMAIN rows : rows[i].of = d}
<1>1. Len(rows) \in Nat /\ DOMAIN rows = 1..Len(rows)
  OBVIOUS
<1>2. IsFiniteSet(1..Len(rows)) /\ S \in SUBSET (1..Len(rows))
  BY <1>1, FS_Interval
<1>3. IsFiniteSet(S)
  BY <1>2, FS_Subset
<1>4. Cardinality(S) \in Nat
  BY <1>3, FS_CardinalityType
<1>5. Cardinality(S) = 0 <=> S = {}
  BY <1>3, FS_EmptySet
<1>6. S = {} <=> ~Written(rows, d)
  BY DEF Written
<1> QED BY <1>4, <1>5, <1>6 DEF Count

\* A refused call does nothing more, money that does not clear a debt is
\* refused, and everything else is written.
LEMMA PrepareCases ==
    ASSUME NEW book, NEW u, NEW d, NEW delta, NEW kind
    PROVE  LET then == PrepareAndCreateNewBalance(book, u, d, delta, kind)
           IN  /\ ~book.ok => then = book
               /\ (book.ok /\ delta > 0 /\ NetOf(book.rows, u) + delta <= 0)
                     => then = [book EXCEPT !.ok = FALSE]
               /\ (book.ok /\ ~(delta > 0 /\ NetOf(book.rows, u) + delta <= 0))
                     => then = CreateUserBalance(book, NewRow(book.rows, u, d, delta), "creation")
BY DEF PrepareAndCreateNewBalance, NewRow

\* A row is added, or nothing is; a document other than a transfer that has a
\* row gets no other.
LEMMA PrepareOnce ==
    ASSUME NEW book \in BookType, NEW u \in Users, NEW d \in Documents \ Transfers,
           NEW delta \in Int, NEW kind
    PROVE  LET then == PrepareAndCreateNewBalance(book, u, d, delta, kind)
           IN  /\ then \in BookType
               /\ then.ok => book.ok
               /\ \/ then.rows = book.rows /\ (then.ok => Written(book.rows, d))
                  \/ /\ then.rows = Append(book.rows, NewRow(book.rows, u, d, delta))
                     /\ then.ok /\ ~Written(book.rows, d)
<1> DEFINE then == PrepareAndCreateNewBalance(book, u, d, delta, kind)
           r == NewRow(book.rows, u, d, delta)
           net == NetOf(book.rows, u) + delta
<1>1. book.rows \in Seq(RowType) /\ book.ok \in BOOLEAN
  BY DEF BookType
<1>2. r \in RowType
  BY <1>1, NewRowType
<1>3. r.of = d /\ r = [user |-> u, of |-> d, delta |-> delta, net |-> net]
  BY DEF NewRow
<1>4. Count(book.rows, d) \in Nat /\ (Count(book.rows, d) = 0 <=> ~Written(book.rows, d))
  BY <1>1, CountWritten
<1>5. CASE ~book.ok
  <2>1. then = book
    BY <1>5, PrepareCases
  <2> QED BY <2>1, <1>5
<1>6. CASE book.ok /\ delta > 0 /\ net <= 0
  <2>1. then = [book EXCEPT !.ok = FALSE]
    BY <1>6, PrepareCases
  <2> QED BY <2>1, <1>6 DEF BookType
<1>7. CASE book.ok /\ ~(delta > 0 /\ net <= 0)
  <2>1. then = CreateUserBalance(book, r, "creation")
    BY <1>7, PrepareCases
  <2>2. CASE Count(book.rows, d) > 0
    <3>1. then = book
      BY <2>1, <2>2, <1>3 DEF CreateUserBalance, Count
    <3> QED BY <3>1, <2>2, <1>4
  <2>3. CASE Count(book.rows, d) = 0
    <3>1. then = [book EXCEPT !.rows = Append(book.rows, r)]
      BY <2>1, <2>3, <1>3 DEF CreateUserBalance, Count
    <3>2. Append(book.rows, r) \in Seq(RowType)
      BY <1>1, <1>2
    <3> QED BY <3>1, <3>2, <2>3, <1>4, <1>7 DEF BookType
  <2> QED BY <2>2, <2>3, <1>4
<1> QED BY <1>5, <1>6, <1>7

\* A book that adds at most one row to the ledger for a document, moving the
\* user's balance by one of some amounts; when it adds none and stands, the
\* document has its row already.
AddsAtMostOne(book, rows, u, d, deltas) ==
    /\ book \in BookType
    /\ \/ book.rows = rows /\ (book.ok => Written(rows, d))
       \/ /\ ~Written(rows, d)
          /\ \E delta \in deltas : book.rows = Append(rows, NewRow(rows, u, d, delta))

\* One entry about a document other than a transfer (prepareAndCreateNewBalance)
\* adds at most a row, and only where the document has none.
LEMMA PrepareAddsOne ==
    ASSUME NEW rows \in Seq(RowType), NEW u \in Users, NEW d \in Documents \ Transfers,
           NEW delta \in Int, NEW kind
    PROVE  AddsAtMostOne(PrepareAndCreateNewBalance([rows |-> rows, ok |-> TRUE], u, d, delta, kind),
                         rows, u, d, {delta})
<1> DEFINE book == [rows |-> rows, ok |-> TRUE]
<1>1. book \in BookType /\ book.rows = rows
  BY DEF BookType
<1> HIDE DEF book
<1>2. LET then == PrepareAndCreateNewBalance(book, u, d, delta, kind)
      IN  /\ then \in BookType
          /\ then.ok => book.ok
          /\ \/ then.rows = book.rows /\ (then.ok => Written(book.rows, d))
             \/ /\ then.rows = Append(book.rows, NewRow(book.rows, u, d, delta))
                /\ then.ok /\ ~Written(book.rows, d)
  BY <1>1, PrepareOnce
<1> QED BY <1>1, <1>2 DEF AddsAtMostOne, book

\* A second entry about the document, for whichever user, adds nothing: where
\* the first one is refused it is refused as well, and where it is not the
\* document has its row.
LEMMA AgainAddsNone ==
    ASSUME NEW rows \in Seq(RowType), NEW u \in Users, NEW v \in Users,
           NEW d \in Documents \ Transfers, NEW deltas, deltas \subseteq Int,
           NEW first, AddsAtMostOne(first, rows, u, d, deltas), NEW delta \in Int, NEW kind
    PROVE  AddsAtMostOne(PrepareAndCreateNewBalance(first, v, d, delta, kind), rows, u, d, deltas)
<1> DEFINE then == PrepareAndCreateNewBalance(first, v, d, delta, kind)
<1>1. first \in BookType
  BY DEF AddsAtMostOne
<1>2. /\ then \in BookType
      /\ then.ok => first.ok
      /\ \/ then.rows = first.rows /\ (then.ok => Written(first.rows, d))
         \/ /\ then.rows = Append(first.rows, NewRow(first.rows, v, d, delta))
            /\ then.ok /\ ~Written(first.rows, d)
  BY <1>1, PrepareOnce
<1> HIDE DEF then
<1>3. ASSUME first.rows = rows, first.ok => Written(rows, d)
      PROVE  AddsAtMostOne(then, rows, u, d, deltas)
  <2>1. then.rows = rows /\ (then.ok => Written(rows, d))
    BY <1>2, <1>3
  <2> QED BY <1>2, <2>1 DEF AddsAtMostOne
<1>4. ASSUME ~Written(rows, d), NEW one \in deltas,
             first.rows = Append(rows, NewRow(rows, u, d, one))
      PROVE  AddsAtMostOne(then, rows, u, d, deltas)
  <2>1. NewRow(rows, u, d, one) \in RowType /\ NewRow(rows, u, d, one).of = d
    BY NewRowType DEF NewRow
  <2>2. Len(first.rows) \in DOMAIN first.rows /\ first.rows[Len(first.rows)].of = d
    BY <1>4, <2>1
  <2>3. Written(first.rows, d)
    BY <2>2 DEF Written
  <2>4. then.rows = first.rows
    BY <1>2, <2>3
  <2> QED BY <2>4, <1>2, <1>4 DEF AddsAtMostOne
<1>5. \/ first.rows = rows /\ (first.ok => Written(rows, d))
      \/ /\ ~Written(rows, d)
         /\ \E one \in deltas : first.rows = Append(rows, NewRow(rows, u, d, one))
  BY DEF AddsAtMostOne
<1> QED BY <1>3, <1>4, <1>5 DEF then

\* The rows a call keeps of its book are those behind the ledger's.
News(book, rows) == SubSeq(book.rows, Len(rows) + 1, Len(book.rows))

\* What a call added to a ledger is what stands after it.
LEMMA NewsOfConcat ==
    ASSUME NEW rows \in Seq(RowType), NEW more \in Seq(RowType), NEW book, book.rows = rows \o more
    PROVE  News(book, rows) = more
<1>1. Len(rows) \in Nat /\ Len(more) \in Nat /\ Len(rows \o more) = Len(rows) + Len(more)
  OBVIOUS
<1>2. SubSeq(rows \o more, Len(rows) + 1, Len(rows) + Len(more)) \in Seq(RowType)
  BY <1>1
<1>3. Len(SubSeq(rows \o more, Len(rows) + 1, Len(rows) + Len(more))) = Len(more)
  BY <1>1
<1>4. ASSUME NEW i \in 1..Len(more)
      PROVE  SubSeq(rows \o more, Len(rows) + 1, Len(rows) + Len(more))[i] = more[i]
  BY <1>1
<1> QED BY <1>1, <1>2, <1>3, <1>4, SeqEqual DEF News

\* A transfer that has less than two rows is written, unless it is refused.
LEMMA TransferRow ==
    ASSUME NEW book \in BookType, book.ok = TRUE, NEW u, NEW d \in Transfers, NEW delta \in Int, NEW kind,
           HasRoom(book.rows, d), NewRow(book.rows, u, d, delta) \in RowType
    PROVE  LET then == PrepareAndCreateNewBalance(book, u, d, delta, kind)
           IN  then \in BookType /\
               \/ delta > 0 /\ then.rows = book.rows /\ then.ok = FALSE
               \/ then.rows = Append(book.rows, NewRow(book.rows, u, d, delta)) /\ then.ok = TRUE
<1> DEFINE then == PrepareAndCreateNewBalance(book, u, d, delta, kind)
           r == NewRow(book.rows, u, d, delta)
<1>1. DOMAIN book = {"rows", "ok"} /\ Append(book.rows, r) \in Seq(RowType)
  BY DEF BookType
<1>2. r.of = d
  BY DEF NewRow
<1> HIDE DEF r
<1>3. CreateUserBalance(book, r, "creation") = [book EXCEPT !.rows = Append(book.rows, r)]
  BY <1>2 DEF CreateUserBalance, Count, HasRoom
<1>4. \/ delta > 0 /\ then = [book EXCEPT !.ok = FALSE]
      \/ then = CreateUserBalance(book, r, "creation")
  BY PrepareCases DEF r
<1> HIDE DEF then
<1>5. then \in BookType /\
      \/ delta > 0 /\ then.rows = book.rows /\ then.ok = FALSE
      \/ then.rows = Append(book.rows, r) /\ then.ok = TRUE
  BY <1>1, <1>3, <1>4 DEF BookType
<1> QED BY <1>5 DEF then, r

\* A transfer that is written takes from one user what it gives to the other;
\* one that is refused keeps its first row only.
LEMMA TransferAddsTwo ==
    ASSUME NEW rows \in Seq(RowType), NEW from \in Users, NEW to \in Users, NEW d \in Transfers,
           NEW amount \in Nat \ {0}, ~Written(rows, d)
    PROVE  LET first == NewRow(rows, from, d, -amount)
               second == NewRow(Append(rows, first), to, d, amount)
               book == PrepareAndCreateNewBalance(
                         PrepareAndCreateNewBalance([rows |-> rows, ok |-> TRUE],
                            from, d, -amount, "creation"), to, d, amount, "creation")
           IN  /\ book.ok \in BOOLEAN
               /\ \/ book.rows = rows \o <<first>> /\ ~book.ok
                  \/ book.rows = rows \o <<first, second>>
<1> DEFINE start == [rows |-> rows, ok |-> TRUE]
           first == NewRow(rows, from, d, -amount)
           one == Append(rows, first)
           second == NewRow(one, to, d, amount)
           middle == PrepareAndCreateNewBalance(start, from, d, -amount, "creation")
           book == PrepareAndCreateNewBalance(middle, to, d, amount, "creation")
<1>1. d \in Documents /\ -amount \in Int /\ amount \in Int /\ ~(-amount > 0)
  BY DEF Documents
<1>2. first \in RowType /\ one \in Seq(RowType) /\ first.of = d
  BY <1>1, NewRowType DEF NewRow
<1>3. second \in RowType
  BY <1>1, <1>2, NewRowType
<1>4. start \in BookType /\ start.ok = TRUE /\ start.rows = rows
  BY DEF BookType
<1>5. HasRoom(start.rows, d)
  BY <1>4, CountWritten DEF HasRoom
<1> HIDE DEF start
<1>6. middle \in BookType /\ middle.rows = one /\ middle.ok = TRUE
  <2> DEFINE neg == -amount
  <2>1. neg \in Int /\ ~(neg > 0) /\ first = NewRow(start.rows, from, d, neg)
    BY <1>1, <1>4
  <2>2. middle = PrepareAndCreateNewBalance(start, from, d, neg, "creation")
    OBVIOUS
  <2> HIDE DEF neg, middle, first
  <2> QED BY <2>1, <2>2, <1>2, <1>4, <1>5, TransferRow
<1> HIDE DEF middle, first
<1>8. HasRoom(one, d)
  <2> DEFINE T == {i \in DOMAIN one : one[i].of = d}
  <2>1. Len(one) = Len(rows) + 1 /\ one[Len(one)].of = d /\ DOMAIN one = 1..Len(one)
    BY <1>2
  <2>2. ASSUME NEW i \in 1..Len(rows) PROVE one[i].of # d
    BY <1>2 DEF Written
  <2>3. ASSUME NEW i \in T PROVE i = Len(one)
    BY <2>1, <2>2
  <2>4. Len(one) \in T
    BY <2>1
  <2>5. T = {Len(one)}
    BY <2>3, <2>4
  <2>6. Cardinality(T) = 1
    BY <2>5, FS_Singleton
  <2> QED BY <2>6 DEF Count, HasRoom
<1>9. one \o << >> = one /\ Append(one, second) = rows \o <<first, second>> /\ one = rows \o <<first>>
  BY <1>2, <1>3
<1> HIDE DEF one
<1>10. \/ book.rows = one /\ book.ok = FALSE
       \/ book.rows = Append(one, second) /\ book.ok = TRUE
  BY <1>1, <1>3, <1>6, <1>8, TransferRow
<1> HIDE DEF book, second
<1>11. /\ book.ok \in BOOLEAN
       /\ \/ book.rows = rows \o <<first>> /\ ~book.ok
          \/ book.rows = rows \o <<first, second>>
  BY <1>9, <1>10
<1> QED BY <1>11 DEF first, one, second, book, middle, start

-----------------------------------------------------------------------------
(***************************************************************************)
(* The inductive invariant.  What a call under way will write was decided  *)
(* on an older ledger and older documents; the parts below say what of it  *)
(* is still true of the present ones.                                      *)
(***************************************************************************)
Exists(docs, d) == docs[d].status # "none"

LiveIn(docs, d) == docs[d].status \notin {"none", "removed"} /\ ~docs[d].deleted

AnyAmount == Amounts \cup NewAmounts

ColsTyped(cols) ==
    /\ DOMAIN cols \subseteq {"owner", "amount", "status", "deleted", "peer"}
    /\ "owner" \in DOMAIN cols => cols["owner"] \in Users
    /\ "amount" \in DOMAIN cols => cols["amount"] \in AnyAmount
    /\ "status" \in DOMAIN cols => cols["status"] \in Statuses \ {"none"}
    /\ "deleted" \in DOMAIN cols => cols["deleted"] = TRUE
    /\ "peer" \in DOMAIN cols => cols["peer"] \in Users \cup Journeys \cup BOOLEAN

NewsTyped(k) ==
    /\ k.of \in Documents
    /\ k.users \subseteq Users
    /\ k.ok \in BOOLEAN
    /\ k.rows \in Seq(RowType) /\ Len(k.rows) \in 0..2
    /\ ColsTyped(k.cols)
    /\ \A i \in DOMAIN k.rows : k.rows[i].of = k.of /\ k.rows[i].user \in k.users

\* A call either makes its document, for a user of its own and without a row
\* yet, or changes one that is there.
Makes(cols, live, users, d, rows) ==
    /\ {"owner", "amount", "status"} \subseteq DOMAIN cols
    /\ cols["owner"] \in users
    /\ live = FALSE
    /\ ~Written(rows, d)
    /\ d \notin Deposits \cup Payments

Creates(k, rows, docs) ==
    IF Exists(docs, k.of)
    THEN k.of \notin Transfers /\ (Moves(k) => k.of \in Commissions)
    ELSE Makes(k.cols, k.live, k.users, k.of, rows)

\* The rows continue the ledger for users no two calls were under way for.
Continues(k, rows, over) ==
    /\ (1 \in DOMAIN k.rows /\ k.rows[1].user \notin over) =>
          k.rows[1].net = NetOf(rows, k.rows[1].user) + k.rows[1].delta
    /\ (Len(k.rows) = 2 /\ k.rows[2].user \notin over) =>
          k.rows[2].net = NetOf(Append(rows, k.rows[1]), k.rows[2].user) + k.rows[2].delta

\* A second row of a document is for users noted as overlapped, and so was the
\* first.
AddsOne(k, rows, over) ==
    k.of \notin Transfers =>
        /\ Len(k.rows) \in 0..1
        /\ (Len(k.rows) = 1 /\ Written(rows, k.of)) =>
              /\ k.rows[1].user \in over
              /\ \A i \in DOMAIN rows : rows[i].of = k.of => rows[i].user \in over

AddsTwo(k) ==
    (k.of \in Transfers /\ k.ok) => Len(k.rows) = 2 /\ k.rows[1].delta + k.rows[2].delta = 0

\* A deposit approved without its amount having been edited is credited.
Credits(k, rows, edit) ==
    k.of \in (Deposits \cup Payments) \ edit =>
        /\ \A i \in DOMAIN k.rows : k.rows[i].delta > 0
        /\ ("status" \in DOMAIN k.cols /\ k.cols["status"] = "approved" /\ k.ok)
             => k.rows # << >> \/ Written(rows, k.of)

\* The columns name a journey and its driver.
NamesJourney(cols) ==
    /\ {"peer", "owner"} \subseteq DOMAIN cols
    /\ cols["peer"] \in Journeys
    /\ cols["owner"] = DriverOf[cols["peer"]]

\* The columns an edit or a removal gives a commission.
Amends(cols, live) ==
    /\ DOMAIN cols \subseteq {"amount", "deleted", "owner", "peer"}
    /\ "owner" \in DOMAIN cols => "peer" \in DOMAIN cols
    /\ "peer" \in DOMAIN cols => live = TRUE /\ NamesJourney(cols)

\* A commission being made is the journey's only one, those aside that an edit
\* put there; an edit puts it somewhere together with the journey's driver.
Charges(k, docs, over, mv) ==
    k.of \in Commissions =>
        IF Exists(docs, k.of)
        THEN Amends(k.cols, k.live)
        ELSE /\ NamesJourney(k.cols)
             /\ \A m \in Commissions \ mv :
                  LiveIn(docs, m) /\ docs[m].peer = k.cols["peer"] => k.cols["owner"] \in over

Decides(k, rows, docs, over, edit, mv) ==
    /\ NewsTyped(k)
    /\ Creates(k, rows, docs)
    /\ Continues(k, rows, over)
    /\ AddsOne(k, rows, over)
    /\ AddsTwo(k)
    /\ Credits(k, rows, edit)
    /\ Charges(k, docs, over, mv)

Decided ==
    \A c \in Calls :
        calls[c].busy => Decides(calls[c], ledger, doc, overlapped, edited, moved)

\* Two calls under way for one user are noted; two for one document are for
\* one that is there, and their users are noted.
Noted ==
    \A c, e \in Calls : c # e /\ calls[c].busy /\ calls[e].busy =>
        /\ calls[c].users \cap calls[e].users \subseteq overlapped
        /\ calls[c].of = calls[e].of =>
              Exists(doc, calls[c].of) /\ calls[c].users \cup calls[e].users \subseteq overlapped

DocOwned(docs, rows, d) ==
    /\ Exists(docs, d) => docs[d].owner \in Users /\ docs[d].amount \in AnyAmount
    /\ Written(rows, d) => Exists(docs, d)
    /\ (d \in Commissions /\ Exists(docs, d)) =>
          docs[d].peer \in Journeys /\ docs[d].owner = DriverOf[docs[d].peer]

DocsOwned == \A d \in Documents : DocOwned(doc, ledger, d)

\* A row credits a deposit, and is the only one of its document, unless two
\* calls for its user were under way at once.
RowOwned(rows, over, edit, i) ==
    /\ rows[i].of \in (Deposits \cup Payments) \ edit => rows[i].delta > 0
    /\ rows[i].of \notin Transfers =>
         \A j \in DOMAIN rows : rows[j].of = rows[i].of /\ j # i => rows[i].user \in over

RowsOwned == \A i \in DOMAIN ledger : RowOwned(ledger, overlapped, edited, i)

WalletInv ==
    /\ TypeOK
    /\ Decided
    /\ Noted
    /\ DocsOwned
    /\ RowsOwned
    /\ RunningTotal
    /\ TransferIsWhole
    /\ ApprovedIsCredited
    /\ ChargedOnce

-----------------------------------------------------------------------------
(***************************************************************************)
(* What a call decided stays true while the documents change and while     *)
(* another call commits.                                                   *)
(***************************************************************************)
\* The document a call is about does not appear meanwhile, nor vanish.
Keeps(docs, docs2, d) == Exists(docs, d) <=> Exists(docs2, d)

\* No commission comes alive.
NoNewCharge(docs, docs2) ==
    \A m \in Commissions : LiveIn(docs2, m) => LiveIn(docs, m) /\ docs2[m].peer = docs[m].peer

\* A decision stays right while other documents change, users are noted and
\* deposits are edited.
LEMMA DecisionStays ==
    ASSUME NEW k, NEW rows, NEW docs, NEW docs2, NEW over, NEW over2, NEW edit, NEW edit2, NEW mv,
           Decides(k, rows, docs, over, edit, mv),
           Keeps(docs, docs2, k.of), NoNewCharge(docs, docs2),
           over \subseteq over2, edit \subseteq edit2
    PROVE  Decides(k, rows, docs2, over2, edit2, mv)
<1>1. Creates(k, rows, docs2)
  BY DEF Decides, Creates, Keeps
<1>4. Continues(k, rows, over2)
  BY DEF Decides, Continues
<1>5. AddsOne(k, rows, over2)
  BY DEF Decides, AddsOne
<1>6. Credits(k, rows, edit2)
  BY DEF Decides, Credits
<1>7. Charges(k, docs2, over2, mv)
  BY DEF Decides, Charges, Keeps, NoNewCharge
<1> QED BY <1>1, <1>4, <1>5, <1>6, <1>7 DEF Decides

\* A row of the documents with the columns of a call.
Holds(new, row, cols) ==
    /\ new.owner = IF "owner" \in DOMAIN cols THEN cols["owner"] ELSE row.owner
    /\ new.amount = IF "amount" \in DOMAIN cols THEN cols["amount"] ELSE row.amount
    /\ new.status = IF "status" \in DOMAIN cols THEN cols["status"] ELSE row.status
    /\ new.deleted = IF "deleted" \in DOMAIN cols THEN cols["deleted"] ELSE row.deleted
    /\ new.peer = IF "peer" \in DOMAIN cols THEN cols["peer"] ELSE row.peer

\* A document with some columns updated.
LEMMA UpdatedRow ==
    ASSUME NEW row \in DocType, NEW cols, ColsTyped(cols)
    PROVE  Updated(row, cols) \in DocType /\ Holds(Updated(row, cols), row, cols)
<1> DEFINE new == Updated(row, cols)
           Fields == {"owner", "amount", "status", "deleted", "peer"}
<1>1. DOMAIN row = Fields
  BY DEF DocType
<1>2. /\ new = [f \in Fields |-> new[f]]
      /\ \A f \in Fields : new[f] = IF f \in DOMAIN cols THEN cols[f] ELSE row[f]
  BY <1>1 DEF Updated
<1>3. Holds(new, row, cols)
  BY <1>2 DEF Holds
<1>4. /\ new.owner \in Users \cup {None}
      /\ new.amount \in Amounts \cup NewAmounts \cup {0}
      /\ new.status \in Statuses
      /\ new.deleted \in BOOLEAN
      /\ new.peer \in Users \cup Journeys \cup BOOLEAN \cup {None}
  BY <1>3 DEF Holds, ColsTyped, AnyAmount, DocType
<1>5. new = [owner |-> new.owner, amount |-> new.amount, status |-> new.status,
             deleted |-> new.deleted, peer |-> new.peer]
  BY <1>2
<1> HIDE DEF new
<1>6. new \in DocType
  BY <1>4, <1>5 DEF DocType
<1> QED BY <1>3, <1>6 DEF new

\* What a commit does to the documents.
LEMMA CommittedDocs ==
    ASSUME NEW docs \in [Documents -> DocType], NEW rows, NEW e, NewsTyped(e),
           Creates(e, rows, docs)
    PROVE  LET docs2 == [docs EXCEPT ![e.of] = Updated(@, e.cols)]
           IN  /\ docs2 \in [Documents -> DocType]
               /\ \A d \in Documents : d # e.of => docs2[d] = docs[d]
               /\ Exists(docs2, e.of)
               /\ Holds(docs2[e.of], docs[e.of], e.cols)
<1> DEFINE row == docs[e.of]
           new == Updated(row, e.cols)
           docs2 == [docs EXCEPT ![e.of] = Updated(@, e.cols)]
<1>1. e.of \in Documents /\ row \in DocType /\ ColsTyped(e.cols)
  BY DEF NewsTyped
<1>2. docs2[e.of] = new /\ \A d \in Documents : d # e.of => docs2[d] = docs[d]
  BY <1>1
<1>3. new \in DocType /\ Holds(new, row, e.cols)
  BY <1>1, UpdatedRow DEF Holds
<1> HIDE DEF new
<1>4. docs2 \in [Documents -> DocType]
  BY <1>1, <1>2, <1>3
<1>5. Exists(docs2, e.of)
  BY <1>1, <1>2, <1>3 DEF Exists, Creates, Makes, ColsTyped, Holds
<1> QED BY <1>2, <1>3, <1>4, <1>5

\* A commission that is alive after a commit was alive before, for the same
\* journey, or was made or moved by the call.
ChargedBy(e, docs, docs2, mv2) ==
    \A m \in Commissions \ mv2 : LiveIn(docs2, m) =>
        \/ LiveIn(docs, m) /\ docs2[m].peer = docs[m].peer
        \/ /\ m = e.of /\ ~Exists(docs, m) /\ NamesJourney(e.cols)
           /\ docs2[m].peer = e.cols["peer"] /\ docs2[m].owner = e.cols["owner"]

LEMMA CommittedCharge ==
    ASSUME NEW docs, NEW docs2, NEW rows, NEW e, NEW over, NEW mv, NEW mv2,
           NewsTyped(e), Creates(e, rows, docs), Charges(e, docs, over, mv),
           Moves(e) => e.of \in mv2,
           \A d \in Documents : d # e.of => docs2[d] = docs[d],
           Holds(docs2[e.of], docs[e.of], e.cols)
    PROVE  ChargedBy(e, docs, docs2, mv2)
<1> SUFFICES ASSUME NEW m \in Commissions \ mv2, LiveIn(docs2, m)
             PROVE  \/ LiveIn(docs, m) /\ docs2[m].peer = docs[m].peer
                    \/ /\ m = e.of /\ ~Exists(docs, m) /\ NamesJourney(e.cols)
                       /\ docs2[m].peer = e.cols["peer"] /\ docs2[m].owner = e.cols["owner"]
  BY DEF ChargedBy
<1>1. m \in Documents
  BY DEF Documents
<1>2. CASE m # e.of
  BY <1>1, <1>2 DEF LiveIn
<1>3. CASE m = e.of /\ Exists(docs, m)
  <2>1. Amends(e.cols, e.live)
    BY <1>3 DEF Charges
  <2>2. "peer" \notin DOMAIN e.cols
    BY <2>1, <1>3 DEF Amends, Moves
  <2>3. "status" \notin DOMAIN e.cols
    BY <2>1 DEF Amends
  <2>4. docs2[m].peer = docs[m].peer /\ docs2[m].status = docs[m].status
    BY <1>3, <2>2, <2>3 DEF Holds
  <2>5. "deleted" \in DOMAIN e.cols => e.cols["deleted"] = TRUE
    BY DEF NewsTyped, ColsTyped
  <2>6. "deleted" \in DOMAIN e.cols => docs2[m].deleted = e.cols["deleted"]
    BY <1>3 DEF Holds
  <2>7. "deleted" \notin DOMAIN e.cols
    BY <2>5, <2>6 DEF LiveIn
  <2>8. docs2[m].deleted = docs[m].deleted
    BY <1>3, <2>7 DEF Holds
  <2>9. LiveIn(docs, m)
    BY <2>4, <2>8 DEF LiveIn
  <2> QED BY <2>4, <2>9
<1>4. CASE m = e.of /\ ~Exists(docs, m)
  <2>1. NamesJourney(e.cols)
    BY <1>4 DEF Charges
  <2>2. docs2[m].peer = e.cols["peer"] /\ docs2[m].owner = e.cols["owner"]
    BY <1>4, <2>1 DEF Holds, NamesJourney
  <2> QED BY <1>4, <2>1, <2>2
<1> QED BY <1>2, <1>3, <1>4

\* The rows of a ledger that has grown.
LEMMA Concatenated ==
    ASSUME NEW rows \in Seq(RowType), NEW more \in Seq(RowType)
    PROVE  /\ rows \o more \in Seq(RowType)
           /\ Len(rows \o more) = Len(rows) + Len(more)
           /\ \A i \in DOMAIN rows : i \in DOMAIN (rows \o more) /\ (rows \o more)[i] = rows[i]
           /\ \A i \in DOMAIN more : /\ Len(rows) + i \in DOMAIN (rows \o more)
                                     /\ (rows \o more)[Len(rows) + i] = more[i]
           /\ \A i \in DOMAIN (rows \o more) :
                 i \in DOMAIN rows \/ \E j \in DOMAIN more : i = Len(rows) + j
<1> DEFINE all == rows \o more
<1>1. /\ all \in Seq(RowType) /\ Len(all) = Len(rows) + Len(more)
      /\ \A i \in 1..Len(rows) : all[i] = rows[i]
      /\ \A i \in 1..Len(more) : all[Len(rows) + i] = more[i]
      /\ DOMAIN all = 1..Len(all) /\ DOMAIN rows = 1..Len(rows) /\ DOMAIN more = 1..Len(more)
      /\ Len(rows) \in Nat /\ Len(more) \in Nat
  OBVIOUS
<1> HIDE DEF all
<1>2. ASSUME NEW i \in DOMAIN all, i \notin DOMAIN rows
      PROVE  \E j \in DOMAIN more : i = Len(rows) + j
  <2>1. i - Len(rows) \in DOMAIN more /\ i = Len(rows) + (i - Len(rows))
    BY <1>1, <1>2
  <2> QED BY <2>1
<1>3. \A i \in DOMAIN rows : i \in DOMAIN all /\ all[i] = rows[i]
  BY <1>1
<1>4. \A i \in DOMAIN more : Len(rows) + i \in DOMAIN all /\ all[Len(rows) + i] = more[i]
  BY <1>1
<1> QED BY <1>1, <1>2, <1>3, <1>4 DEF all

\* A document is in a ledger that has grown when it was there or is in what is new.
LEMMA WrittenConcat ==
    ASSUME NEW rows \in Seq(RowType), NEW more \in Seq(RowType), NEW d
    PROVE  Written(rows \o more, d) <=> Written(rows, d) \/ Written(more, d)
<1> DEFINE all == rows \o more
<1>1. /\ \A i \in DOMAIN rows : i \in DOMAIN all /\ all[i] = rows[i]
      /\ \A i \in DOMAIN more : Len(rows) + i \in DOMAIN all /\ all[Len(rows) + i] = more[i]
      /\ \A i \in DOMAIN all : i \in DOMAIN rows \/ \E j \in DOMAIN more : i = Len(rows) + j
  BY Concatenated
<1> HIDE DEF all
<1>2. ASSUME NEW i \in DOMAIN all, all[i].of = d PROVE Written(rows, d) \/ Written(more, d)
  BY <1>1, <1>2 DEF Written
<1>3. ASSUME NEW i \in DOMAIN rows, rows[i].of = d PROVE Written(all, d)
  BY <1>1, <1>3 DEF Written
<1>4. ASSUME NEW i \in DOMAIN more, more[i].of = d PROVE Written(all, d)
  <2>1. Len(rows) + i \in DOMAIN all /\ all[Len(rows) + i].of = d
    BY <1>1, <1>4
  <2> QED BY <2>1 DEF Written
<1>5. Written(all, d) <=> Written(rows, d) \/ Written(more, d)
  BY <1>2, <1>3, <1>4 DEF Written
<1> QED BY <1>5 DEF all

\* What one call decided is still right after another has committed: the two
\* are for different users and documents, or their users are noted.
LEMMA DecisionSurvivesCommit ==
    ASSUME NEW k, NEW e, NEW rows \in Seq(RowType), NEW docs \in [Documents -> DocType],
           NEW over, NEW edit, NEW mv, NEW mv2,
           Decides(k, rows, docs, over, edit, mv), Decides(e, rows, docs, over, edit, mv),
           k.users \cap e.users \subseteq over,
           k.of = e.of => Exists(docs, k.of) /\ k.users \cup e.users \subseteq over,
           mv \subseteq mv2, Moves(e) => e.of \in mv2
    PROVE  Decides(k, rows \o e.rows, [docs EXCEPT ![e.of] = Updated(@, e.cols)], over, edit, mv2)
<1> DEFINE all == rows \o e.rows
           docs2 == [docs EXCEPT ![e.of] = Updated(@, e.cols)]
<1>1. /\ NewsTyped(k) /\ NewsTyped(e) /\ Creates(e, rows, docs) /\ Charges(e, docs, over, mv)
      /\ k.rows \in Seq(RowType) /\ e.rows \in Seq(RowType)
      /\ k.of \in Documents /\ e.of \in Documents
      /\ \A i \in DOMAIN e.rows : e.rows[i].of = e.of /\ e.rows[i].user \in e.users
      /\ \A i \in DOMAIN k.rows : k.rows[i].of = k.of /\ k.rows[i].user \in k.users
  BY DEF Decides, NewsTyped
<1>2. /\ \A d \in Documents : d # e.of => docs2[d] = docs[d]
      /\ Exists(docs2, e.of)
      /\ Holds(docs2[e.of], docs[e.of], e.cols)
  BY <1>1, CommittedDocs
<1>3. all \in Seq(RowType) /\ \A d : Written(all, d) => Written(rows, d) \/ d = e.of
  <2>1. \A d : Written(e.rows, d) => d = e.of
    BY <1>1 DEF Written
  <2> QED BY <1>1, <2>1, WrittenConcat, Concatenated
<1>k. /\ \A i \in DOMAIN rows : all[i] = rows[i]
      /\ \A i \in DOMAIN e.rows : all[Len(rows) + i] = e.rows[i]
      /\ \A i \in DOMAIN all : i \in DOMAIN rows \/ \E j \in DOMAIN e.rows : i = Len(rows) + j
  BY <1>1, Concatenated
<1>4. \A d : Written(rows, d) => Written(all, d)
  BY <1>1, WrittenConcat
<1>c. ChargedBy(e, docs, docs2, mv2)
  <2> HIDE DEF docs2
  <2> QED BY <1>1, <1>2, CommittedCharge
<1>n. \A u \in k.users \ over : NetOf(all, u) = NetOf(rows, u)
  <2> TAKE u \in k.users \ over
  <2>1. \A i \in DOMAIN e.rows : e.rows[i].user # u
    BY <1>1
  <2> QED BY <2>1, <1>1, NetOfOthers
<1> HIDE DEF docs2, all
<1>5. Keeps(docs, docs2, k.of)
  BY <1>1, <1>2 DEF Keeps, Exists
<1>6. Creates(k, all, docs2)
  <2>1. Creates(k, rows, docs)
    BY DEF Decides
  <2>2. ~Exists(docs, k.of) => (~Written(rows, k.of) => ~Written(all, k.of))
    BY <1>3
  <2> QED BY <1>5, <2>1, <2>2 DEF Creates, Makes, Keeps
<1>10. Continues(k, all, over)
  <2>1. Continues(k, rows, over) /\ Len(k.rows) \in Nat
    BY <1>1 DEF Decides
  <2>2. ASSUME 1 \in DOMAIN k.rows, k.rows[1].user \notin over
        PROVE  k.rows[1].net = NetOf(all, k.rows[1].user) + k.rows[1].delta
    <3>1. k.rows[1].user \in k.users \ over
      BY <1>1, <2>1, <2>2
    <3> QED BY <3>1, <1>n, <2>1, <2>2 DEF Continues
  <2>3. ASSUME Len(k.rows) = 2, k.rows[2].user \notin over
        PROVE  k.rows[2].net = NetOf(Append(all, k.rows[1]), k.rows[2].user) + k.rows[2].delta
    <3>1. k.rows[2].user \in k.users \ over /\ k.rows[1] \in RowType
      BY <1>1, <2>3
    <3>2. NetOf(Append(all, k.rows[1]), k.rows[2].user) = NetOf(Append(rows, k.rows[1]), k.rows[2].user)
      BY <3>1, <1>3, <1>n, NetOfAppend
    <3> QED BY <3>2, <2>1, <2>3 DEF Continues
  <2> QED BY <2>2, <2>3 DEF Continues
<1>11. AddsOne(k, all, over)
  <2> SUFFICES ASSUME k.of \notin Transfers, Len(k.rows) = 1, Written(all, k.of)
               PROVE  /\ k.rows[1].user \in over
                      /\ \A i \in DOMAIN all : all[i].of = k.of => all[i].user \in over
    BY DEF Decides, AddsOne
  <2>1. k.rows[1].user \in k.users
    BY <1>1
  <2>2. Written(rows, k.of) => /\ k.rows[1].user \in over
                               /\ \A i \in DOMAIN rows : rows[i].of = k.of => rows[i].user \in over
    BY DEF Decides, AddsOne
  <2>3. Written(rows, k.of) \/ k.of = e.of
    BY <1>3
  <2>4. k.rows[1].user \in over
    BY <2>1, <2>2, <2>3
  <2>5. ASSUME NEW i \in DOMAIN all, all[i].of = k.of PROVE all[i].user \in over
    <3>1. CASE i \in DOMAIN rows
      <4>1. all[i] = rows[i]
        BY <3>1, <1>k
      <4>2. Written(rows, k.of)
        BY <3>1, <4>1, <2>5 DEF Written
      <4> QED BY <3>1, <4>1, <4>2, <2>2, <2>5
    <3>2. CASE i \notin DOMAIN rows
      <4>1. PICK j \in DOMAIN e.rows : i = Len(rows) + j
        BY <3>2, <1>k
      <4>2. all[i] = e.rows[j]
        BY <4>1, <1>k
      <4>3. k.of = e.of /\ all[i].user \in e.users
        BY <4>1, <4>2, <2>5, <1>1
      <4> QED BY <4>3
    <3> QED BY <3>1, <3>2
  <2> QED BY <2>4, <2>5
<1>12. Credits(k, all, edit)
  BY <1>4 DEF Decides, Credits
<1>13. Charges(k, docs2, over, mv2)
  <2>0. Charges(k, docs, over, mv)
    BY DEF Decides
  <2>1. CASE Exists(docs, k.of)
    BY <2>0, <2>1, <1>5 DEF Charges, Keeps
  <2>2. ASSUME ~Exists(docs, k.of), k.of \in Commissions,
               NEW m \in Commissions \ mv2, LiveIn(docs2, m), docs2[m].peer = k.cols["peer"]
        PROVE  k.cols["owner"] \in over
    <3>1. /\ NamesJourney(k.cols)
          /\ \A n \in Commissions \ mv : LiveIn(docs, n) /\ docs[n].peer = k.cols["peer"]
                                           => k.cols["owner"] \in over
      BY <2>0, <2>2 DEF Charges
    <3>2. CASE LiveIn(docs, m) /\ docs2[m].peer = docs[m].peer
      BY <2>2, <3>1, <3>2
    <3>3. CASE /\ m = e.of /\ ~Exists(docs, m) /\ NamesJourney(e.cols)
               /\ docs2[m].peer = e.cols["peer"] /\ docs2[m].owner = e.cols["owner"]
      <4>1. e.cols["owner"] = k.cols["owner"]
        BY <3>1, <3>3, <2>2 DEF NamesJourney
      <4>2. k.cols["owner"] \in k.users
        BY <2>2 DEF Decides, Creates, Makes
      <4>3. e.cols["owner"] \in e.users
        BY <3>3, <1>1 DEF Creates, Makes
      <4> QED BY <4>1, <4>2, <4>3
    <3> QED BY <3>2, <3>3, <2>2, <1>c DEF ChargedBy
  <2>3. CASE ~Exists(docs, k.of)
    BY <2>0, <2>2, <2>3, <1>5 DEF Charges, Keeps
  <2> QED BY <2>1, <2>3
<1>14. NewsTyped(k) /\ AddsTwo(k)
  BY DEF Decides
<1> QED BY <1>6, <1>10, <1>11, <1>12, <1>13, <1>14 DEF Decides, docs2, all

-----------------------------------------------------------------------------
(***************************************************************************)
(* The invariant is kept by a commit.                                      *)
(***************************************************************************)
LEMMA CommitKeeps ==
    ASSUME WalletInv, NEW c \in Calls, Commit(c)
    PROVE  WalletInv'
<1> SUFFICES ASSUME TypeOK, Decided, Noted, DocsOwned, RowsOwned, RunningTotal, TransferIsWhole,
                    ApprovedIsCredited, ChargedOnce
             PROVE  WalletInv'
  BY DEF WalletInv
<1> DEFINE e == calls[c]
           n == Len(ledger)
<1>1. /\ e.busy /\ e.ok
      /\ ledger' = ledger \o e.rows
      /\ doc' = [doc EXCEPT ![e.of] = Updated(@, e.cols)]
      /\ calls' = [calls EXCEPT ![c] = Idle]
      /\ overlapped' = overlapped /\ edited' = edited /\ begun' = begun
      /\ moved \subseteq moved' /\ (Moves(e) => e.of \in moved')
      /\ moved' \subseteq moved \cup (IF Moves(e) THEN {e.of} ELSE {})
  BY DEF Commit
<1>2. Decides(e, ledger, doc, overlapped, edited, moved)
  BY <1>1 DEF Decided
<1> HIDE DEF e
<1>3. /\ NewsTyped(e) /\ Creates(e, ledger, doc) /\ Charges(e, doc, overlapped, moved)
      /\ e.rows \in Seq(RowType) /\ Len(e.rows) \in 0..2 /\ e.of \in Documents
      /\ DOMAIN e.rows = 1..Len(e.rows)
      /\ ledger \in Seq(RowType) /\ doc \in [Documents -> DocType]
      /\ \A i \in DOMAIN e.rows : e.rows[i].of = e.of /\ e.rows[i].user \in e.users
  <2>1. NewsTyped(e) /\ Creates(e, ledger, doc) /\ Charges(e, doc, overlapped, moved)
    BY <1>2 DEF Decides
  <2>2. /\ e.rows \in Seq(RowType) /\ Len(e.rows) \in 0..2 /\ e.of \in Documents
        /\ \A i \in DOMAIN e.rows : e.rows[i].of = e.of /\ e.rows[i].user \in e.users
    BY <2>1 DEF NewsTyped
  <2>3. DOMAIN e.rows = 1..Len(e.rows)
    BY <2>2
  <2> QED BY <2>1, <2>2, <2>3 DEF TypeOK
<1>l. Len(e.rows) \in 0..2 /\ DOMAIN e.rows = 1..Len(e.rows)
  BY <1>3
<1>4. /\ doc' \in [Documents -> DocType]
      /\ \A d \in Documents : d # e.of => doc'[d] = doc[d]
      /\ Exists(doc', e.of)
      /\ Holds(doc'[e.of], doc[e.of], e.cols)
  BY <1>1, <1>3, CommittedDocs
<1>c. ChargedBy(e, doc, doc', moved')
  BY <1>1, <1>3, <1>4, CommittedCharge
<1>5. /\ ledger' \in Seq(RowType)
      /\ \A i \in DOMAIN ledger : i \in DOMAIN ledger' /\ ledger'[i] = ledger[i]
      /\ \A i \in DOMAIN e.rows : n + i \in DOMAIN ledger' /\ ledger'[n + i] = e.rows[i]
      /\ \A i \in DOMAIN ledger' : i \in DOMAIN ledger \/ \E j \in DOMAIN e.rows : i = n + j
      /\ n \in Nat /\ DOMAIN ledger = 1..n
  BY <1>1, <1>3, Concatenated
<1>6. \A x \in Calls : /\ x # c => calls'[x] = calls[x]
                       /\ calls'[c] = Idle
  BY <1>1 DEF TypeOK
<1>8. \A d \in Documents : Written(ledger', d) => Written(ledger, d) \/ d = e.of
  <2>1. \A d : Written(e.rows, d) => d = e.of
    BY <1>3 DEF Written
  <2> QED BY <2>1, <1>1, <1>3, WrittenConcat
<1>t. TypeOK'
  <2>1. DOMAIN calls' = Calls
    BY <1>1 DEF TypeOK
  <2>2. ASSUME NEW x \in Calls
        PROVE  /\ calls'[x].busy \in BOOLEAN /\ calls'[x].ok \in BOOLEAN
               /\ calls'[x].users \subseteq Users
               /\ calls'[x].rows \in Seq(RowType)
               /\ calls'[x].busy => calls'[x].of \in Documents
    <3>1. CASE x # c
      BY <3>1, <1>6 DEF TypeOK
    <3>2. CASE x = c
      <4>1. /\ Idle.busy = FALSE /\ Idle.ok = TRUE /\ Idle.users = {}
            /\ Idle.rows = << >>
        BY DEF Idle
      <4>2. Idle.rows \in Seq(RowType)
        BY <4>1
      <4> QED BY <3>2, <4>1, <4>2, <1>6
    <3> QED BY <3>1, <3>2
  <2>3. moved' \subseteq Commissions
    <3>1. Moves(e) => e.of \in Commissions
      BY <1>3 DEF Moves, Charges, Creates, Makes
    <3> QED BY <3>1, <1>1 DEF TypeOK
  <2> QED BY <2>1, <2>2, <2>3, <1>1, <1>4, <1>5 DEF TypeOK
<1>d. Decided'
  <2> SUFFICES ASSUME NEW x \in Calls, calls'[x].busy
               PROVE  Decides(calls'[x], ledger', doc', overlapped', edited', moved')
    BY DEF Decided
  <2>1. x # c /\ calls'[x] = calls[x] /\ calls[x].busy
    BY <1>6 DEF Idle
  <2>2. Decides(calls[x], ledger, doc, overlapped, edited, moved)
    BY <2>1 DEF Decided
  <2>3. /\ calls[x].users \cap e.users \subseteq overlapped
        /\ calls[x].of = e.of => /\ Exists(doc, calls[x].of)
                                 /\ calls[x].users \cup e.users \subseteq overlapped
    BY <2>1, <1>1 DEF Noted, e
  <2>4. Decides(calls[x], ledger \o e.rows, [doc EXCEPT ![e.of] = Updated(@, e.cols)],
                overlapped, edited, moved')
    BY <2>2, <2>3, <1>1, <1>2, <1>3, DecisionSurvivesCommit
  <2> QED BY <2>1, <2>4, <1>1
<1>n. Noted'
  <2> SUFFICES ASSUME NEW x \in Calls, NEW y \in Calls, x # y, calls'[x].busy, calls'[y].busy
               PROVE  /\ calls'[x].users \cap calls'[y].users \subseteq overlapped'
                      /\ calls'[x].of = calls'[y].of =>
                            /\ Exists(doc', calls'[x].of)
                            /\ calls'[x].users \cup calls'[y].users \subseteq overlapped'
    BY DEF Noted
  <2>1. x # c /\ y # c /\ calls'[x] = calls[x] /\ calls'[y] = calls[y]
    BY <1>6 DEF Idle
  <2>2. /\ calls[x].users \cap calls[y].users \subseteq overlapped
        /\ calls[x].of = calls[y].of => /\ Exists(doc, calls[x].of)
                                        /\ calls[x].users \cup calls[y].users \subseteq overlapped
    BY <2>1 DEF Noted
  <2>3. calls[x].of \in Documents
    BY <2>1 DEF TypeOK
  <2> QED BY <2>1, <2>2, <2>3, <1>1, <1>4 DEF Exists
<1>o. DocsOwned'
  <2> SUFFICES ASSUME NEW d \in Documents PROVE DocOwned(doc', ledger', d)
    BY DEF DocsOwned
  <2>0. DocOwned(doc, ledger, d)
    BY DEF DocsOwned
  <2>1. CASE d # e.of
    <3>1. doc'[d] = doc[d]
      BY <2>1, <1>4
    <3> QED BY <3>1, <2>0, <2>1, <1>8 DEF Exists, DocOwned
  <2>2. CASE d = e.of
    <3>0. ColsTyped(e.cols)
      BY <1>3 DEF NewsTyped
    <3>1. /\ Exists(doc, d) => doc[d].owner \in Users /\ doc[d].amount \in AnyAmount
          /\ ~Exists(doc, d) => {"owner", "amount"} \subseteq DOMAIN e.cols
      BY <2>0, <2>2, <1>3 DEF DocOwned, Creates, Makes
    <3>2. doc'[d].owner \in Users /\ doc'[d].amount \in AnyAmount
      BY <2>2, <3>0, <3>1, <1>4 DEF Holds, ColsTyped
    <3>3. d \in Commissions =>
             \/ NamesJourney(e.cols)
             \/ Exists(doc, d) /\ "peer" \notin DOMAIN e.cols /\ "owner" \notin DOMAIN e.cols
      BY <2>2, <1>3 DEF Charges, Amends
    <3>4. d \in Commissions =>
             doc'[d].peer \in Journeys /\ doc'[d].owner = DriverOf[doc'[d].peer]
      BY <2>0, <2>2, <3>3, <1>4 DEF Holds, NamesJourney, DocOwned
    <3> QED BY <3>2, <3>4, <2>2, <1>4 DEF DocOwned
  <2> QED BY <2>1, <2>2
<1>r. RowsOwned'
  <2> SUFFICES ASSUME NEW i \in DOMAIN ledger' PROVE RowOwned(ledger', overlapped', edited', i)
    BY DEF RowsOwned
  <2> DEFINE d == ledger'[i].of
  <2>0. \A j \in DOMAIN ledger : RowOwned(ledger, overlapped, edited, j)
    BY DEF RowsOwned
  <2>1. ASSUME d \in (Deposits \cup Payments) \ edited' PROVE ledger'[i].delta > 0
    <3>1. CASE i \in DOMAIN ledger
      BY <3>1, <2>0, <2>1, <1>1, <1>5 DEF RowOwned
    <3>2. CASE i \notin DOMAIN ledger
      <4>1. PICK m \in DOMAIN e.rows : i = n + m
        BY <3>2, <1>5
      <4>2. ledger'[i] = e.rows[m] /\ d = e.of
        BY <4>1, <1>3, <1>5
      <4> QED BY <4>2, <2>1, <1>1, <1>2 DEF Decides, Credits
    <3> QED BY <3>1, <3>2
  <2>2. ASSUME d = e.of, e.rows # << >>, d \notin Transfers, Written(ledger, d)
        PROVE  ledger'[i].user \in overlapped
    <3>1. /\ Len(e.rows) = 1 /\ e.rows[1].user \in overlapped
          /\ \A j \in DOMAIN ledger : ledger[j].of = d => ledger[j].user \in overlapped
      <4>1. Len(e.rows) \in 0..1 /\ Len(e.rows) # 0
        BY <2>2, <1>2, <1>3 DEF Decides, AddsOne
      <4>2. Len(e.rows) = 1
        BY <4>1
      <4> QED BY <4>2, <2>2, <1>2 DEF Decides, AddsOne
    <3>2. CASE i \in DOMAIN ledger
      BY <3>1, <3>2, <1>5
    <3>3. CASE i \notin DOMAIN ledger
      <4>1. PICK m \in DOMAIN e.rows : i = n + m
        BY <3>3, <1>5
      <4>2. m = 1
        BY <3>1, <1>l
      <4> QED BY <4>1, <4>2, <3>1, <1>5
    <3> QED BY <3>2, <3>3
  <2>3. ASSUME d \notin Transfers, NEW j \in DOMAIN ledger', ledger'[j].of = d, j # i
        PROVE  ledger'[i].user \in overlapped'
    <3>1. CASE i \in DOMAIN ledger /\ j \in DOMAIN ledger
      <4>1. ledger[i] = ledger'[i] /\ ledger[j].of = ledger[i].of
        BY <3>1, <2>3, <1>5
      <4> QED BY <3>1, <4>1, <2>0, <2>3, <1>1 DEF RowOwned
    <3>2. CASE i \in DOMAIN ledger /\ j \notin DOMAIN ledger
      <4>1. Written(ledger, d)
        BY <3>2, <1>5 DEF Written
      <4>2. PICK m \in DOMAIN e.rows : j = n + m
        BY <3>2, <1>5
      <4>3. d = e.of /\ e.rows # << >>
        BY <4>2, <2>3, <1>3, <1>5
      <4> QED BY <4>1, <4>3, <2>2, <2>3, <1>1
    <3>3. CASE i \notin DOMAIN ledger
      <4>1. PICK m \in DOMAIN e.rows : i = n + m
        BY <3>3, <1>5
      <4>2. d = e.of /\ e.rows # << >>
        BY <4>1, <1>3, <1>5
      <4>3. Len(e.rows) \in 0..1
        BY <4>2, <2>3, <1>2 DEF Decides, AddsOne
      <4>4. j \in DOMAIN ledger
        <5>1. ASSUME j \notin DOMAIN ledger PROVE FALSE
          <6>1. PICK q \in DOMAIN e.rows : j = n + q
            BY <5>1, <1>5
          <6> QED BY <6>1, <4>1, <4>3, <2>3, <1>3
        <5> QED BY <5>1
      <4>5. Written(ledger, d)
        BY <4>4, <2>3, <1>5 DEF Written
      <4> QED BY <4>2, <4>5, <2>2, <2>3, <1>1
    <3> QED BY <3>1, <3>2, <3>3
  <2> QED BY <2>1, <2>3 DEF RowOwned
<1>u. RunningTotal'
  <2> SUFFICES ASSUME NEW i \in DOMAIN ledger', ledger'[i].user \notin overlapped'
               PROVE  ledger'[i].net = NetOf(SubSeq(ledger', 1, i - 1), ledger'[i].user)
                                         + ledger'[i].delta
    BY DEF RunningTotal
  <2>1. CASE i \in DOMAIN ledger
    <3>1. ledger'[i] = ledger[i] /\ i - 1 \in 0..n
      BY <2>1, <1>5
    <3>2. SubSeq(ledger', 1, i - 1) = SubSeq(ledger, 1, i - 1)
      BY <3>1, <1>1, <1>3, <1>5, SubSeqOfConcat1
    <3> QED BY <3>1, <3>2, <2>1, <1>1 DEF RunningTotal
  <2>2. CASE i \notin DOMAIN ledger
    <3>1. PICK m \in DOMAIN e.rows : i = n + m
      BY <2>2, <1>5
    <3>2. ledger'[i] = e.rows[m] /\ m \in {1, 2} /\ Continues(e, ledger, overlapped)
      BY <3>1, <1>2, <1>3, <1>5 DEF Decides
    <3>3. CASE m = 1
      <4>1. SubSeq(ledger', 1, n) = ledger
        BY <1>1, <1>3, <1>5
      <4>2. i - 1 = n
        BY <3>1, <3>3, <1>5
      <4>3. 1 \in DOMAIN e.rows /\ e.rows[1].user \notin overlapped
        BY <3>1, <3>2, <3>3, <1>1, <1>3
      <4> QED BY <4>1, <4>2, <4>3, <3>2, <3>3 DEF Continues
    <3>4. CASE m = 2
      <4>1. SubSeq(ledger', 1, n + 1) = Append(ledger, e.rows[1])
        BY <3>1, <3>4, <1>1, <1>3, <1>5
      <4>2. i - 1 = n + 1
        BY <3>1, <3>4, <1>5
      <4>3. Len(e.rows) = 2 /\ e.rows[2].user \notin overlapped
        BY <3>1, <3>2, <3>4, <1>1, <1>3
      <4> QED BY <4>1, <4>2, <4>3, <3>2, <3>4 DEF Continues
    <3> QED BY <3>2, <3>3, <3>4
  <2> QED BY <2>1, <2>2
<1>w. TransferIsWhole'
  <2> SUFFICES ASSUME NEW d \in Transfers
               PROVE  /\ doc'[d].status = "made" => RowsOf(d)' # {}
                      /\ RowsOf(d)' # {} =>
                           \E i, j \in RowsOf(d)' :
                              RowsOf(d)' = {i, j} /\ i # j /\ ledger'[i].delta + ledger'[j].delta = 0
    BY DEF TransferIsWhole
  <2>1. CASE d = e.of
    <3>1. Len(e.rows) = 2 /\ e.rows[1].delta + e.rows[2].delta = 0
      BY <2>1, <1>1, <1>2 DEF Decides, AddsTwo, e
    <3>2. ~Written(ledger, d)
      BY <2>1, <1>3 DEF Creates, Makes
    <3>3. n + 1 \in RowsOf(d)' /\ n + 2 \in RowsOf(d)' /\ n + 1 # n + 2
      BY <3>1, <2>1, <1>3, <1>5 DEF RowsOf
    <3>4. ASSUME NEW i \in RowsOf(d)' PROVE i \in {n + 1, n + 2}
      <4>1. i \in DOMAIN ledger' /\ ledger'[i].of = d
        BY DEF RowsOf
      <4>2. i \notin DOMAIN ledger
        BY <4>1, <3>2, <1>5 DEF Written
      <4>3. PICK m \in DOMAIN e.rows : i = n + m
        BY <4>1, <4>2, <1>5
      <4> QED BY <4>3, <3>1, <1>3
    <3>5. RowsOf(d)' = {n + 1, n + 2}
      BY <3>3, <3>4
    <3>6. ledger'[n + 1].delta + ledger'[n + 2].delta = 0
      BY <3>1, <1>3, <1>5
    <3> HIDE DEF n
    <3> QED BY <3>3, <3>5, <3>6
  <2>2. CASE d # e.of
    <3>1. doc'[d] = doc[d]
      BY <2>2, <1>4 DEF Documents
    <3>2. RowsOf(d)' = RowsOf(d)
      BY <2>2, <1>3, <1>5 DEF RowsOf
    <3>3. \A i \in RowsOf(d) : ledger'[i] = ledger[i]
      BY <1>5 DEF RowsOf
    <3>4. /\ doc[d].status = "made" => RowsOf(d) # {}
          /\ RowsOf(d) # {} => \E i, j \in RowsOf(d) :
                 RowsOf(d) = {i, j} /\ i # j /\ ledger[i].delta + ledger[j].delta = 0
      BY DEF TransferIsWhole
    <3>5. RowsOf(d) # {} => \E i, j \in RowsOf(d) :
                 RowsOf(d) = {i, j} /\ i # j /\ ledger'[i].delta + ledger'[j].delta = 0
      BY <3>3, <3>4
    <3> QED BY <3>1, <3>2, <3>4, <3>5
  <2> QED BY <2>1, <2>2
<1>a. ApprovedIsCredited'
  <2> SUFFICES ASSUME NEW d \in Deposits \cup Payments, doc'[d].status = "approved", d \notin edited'
               PROVE  \E i \in RowsOf(d)' : ledger'[i].delta > 0
    BY DEF ApprovedIsCredited
  <2>0. d \in Documents /\ d \notin edited
    BY <1>1 DEF Documents
  <2>1. ASSUME Written(ledger', d)
        PROVE  \E i \in RowsOf(d)' : ledger'[i].delta > 0
    <3>1. PICK i \in DOMAIN ledger' : ledger'[i].of = d
      BY <2>1 DEF Written
    <3>2. ledger'[i].delta > 0
      BY <3>1, <2>0, <1>1, <1>r DEF RowsOwned, RowOwned
    <3>3. i \in RowsOf(d)'
      BY <3>1 DEF RowsOf
    <3> QED BY <3>2, <3>3
  <2>2. \A x : Written(ledger, x) => Written(ledger', x)
    BY <1>1, <1>3, WrittenConcat
  <2>3. doc[d].status = "approved" => Written(ledger, d)
    BY <2>0 DEF ApprovedIsCredited, RowsOf, Written
  <2>4. CASE d # e.of \/ "status" \notin DOMAIN e.cols
    BY <2>4, <2>0, <2>1, <2>2, <2>3, <1>4 DEF Holds
  <2>5. CASE d = e.of /\ "status" \in DOMAIN e.cols
    <3>1. e.rows # << >> \/ Written(ledger, d)
      BY <2>0, <2>5, <1>1, <1>2, <1>4 DEF Decides, Credits, Holds, e
    <3>2. CASE e.rows # << >>
      <4>1. n + 1 \in DOMAIN ledger' /\ ledger'[n + 1].of = d
        BY <3>2, <2>5, <1>3, <1>5
      <4> QED BY <4>1, <2>1 DEF Written
    <3> QED BY <3>1, <3>2, <2>1, <2>2
  <2> QED BY <2>4, <2>5
<1>g. ChargedOnce'
  <2> SUFFICES ASSUME NEW x \in Commissions \ moved', NEW y \in Commissions \ moved', x # y,
                      LiveIn(doc', x), LiveIn(doc', y), doc'[x].peer = doc'[y].peer
               PROVE  doc'[x].owner \in overlapped'
    BY DEF ChargedOnce, Live, LiveIn
  <2>0. x \in Documents /\ y \in Documents
    BY DEF Documents
  <2>1. Exists(doc', x) /\ Exists(doc', y)
    BY DEF Exists, LiveIn
  <2>2. doc'[x].owner = doc'[y].owner /\ doc'[x].owner = DriverOf[doc'[x].peer]
    BY <2>0, <2>1, <1>o DEF DocsOwned, DocOwned
  <2>3. CASE /\ LiveIn(doc, x) /\ doc'[x].peer = doc[x].peer
             /\ LiveIn(doc, y) /\ doc'[y].peer = doc[y].peer
    <3>1. doc[x].owner = DriverOf[doc[x].peer]
      BY <2>0, <2>3 DEF DocsOwned, DocOwned, Exists, LiveIn
    <3>2. Live(x) /\ Live(y) /\ doc[x].peer = doc[y].peer
      BY <2>3 DEF Live, LiveIn
    <3>3. {x, y} \cap moved = {}
      BY <1>1
    <3>4. doc[x].owner \in overlapped
      BY <3>2, <3>3 DEF ChargedOnce
    <3> QED BY <3>1, <3>4, <2>2, <2>3, <1>1
  <2>4. ASSUME NEW z \in Commissions \ moved', z # e.of, e.of \in Commissions,
               ~Exists(doc, e.of), NamesJourney(e.cols),
               LiveIn(doc', z), doc'[z].peer = e.cols["peer"]
        PROVE  e.cols["owner"] \in overlapped
    <3>1. LiveIn(doc, z) /\ doc'[z].peer = doc[z].peer
      BY <2>4, <1>c DEF ChargedBy
    <3>2. z \in Commissions \ moved
      BY <1>1
    <3> QED BY <3>1, <3>2, <2>4, <1>3 DEF Charges
  <2>5. CASE /\ x = e.of /\ ~Exists(doc, x) /\ NamesJourney(e.cols)
             /\ doc'[x].peer = e.cols["peer"] /\ doc'[x].owner = e.cols["owner"]
    <3>1. e.cols["owner"] \in overlapped
      BY <2>5, <2>4
    <3> QED BY <3>1, <2>5, <1>1
  <2>6. CASE /\ y = e.of /\ ~Exists(doc, y) /\ NamesJourney(e.cols)
             /\ doc'[y].peer = e.cols["peer"] /\ doc'[y].owner = e.cols["owner"]
    <3>1. e.cols["owner"] \in overlapped
      BY <2>6, <2>4
    <3>2. doc'[x].owner = e.cols["owner"]
      BY <2>2, <2>6
    <3> QED BY <3>1, <3>2, <1>1
  <2> QED BY <2>3, <2>5, <2>6, <1>c DEF ChargedBy
<1> QED BY <1>t, <1>d, <1>n, <1>o, <1>r, <1>u, <1>w, <1>a, <1>g DEF WalletInv
-----------------------------------------------------------------------------
(***************************************************************************)
(* The invariant is kept by what writes no row: a call that reads, one that *)
(* stops, a statement on a document.                                       *)
(***************************************************************************)
\* Documents are asked for, moved on, withdrawn: none is approved, made or
\* charged that way.
Settles(docs, docs2) ==
    \A d \in Documents :
        \/ docs2[d] = docs[d]
        \/ /\ d \in Deposits \cup Payments /\ ~Exists(docs, d)
           /\ docs2[d].status \notin {"none", "approved"}
           /\ docs2[d].owner \in Users /\ docs2[d].amount \in AnyAmount
        \/ /\ d \notin Commissions /\ Exists(docs, d) /\ Exists(docs2, d)
           /\ docs2[d].owner = docs[d].owner /\ docs2[d].amount \in AnyAmount
           /\ docs2[d].status \in {"approved", "made"} => docs2[d].status = docs[d].status

\* The invariant survives a step that adds no row and settles nothing.
LEMMA QuietKeeps ==
    ASSUME TypeOK, Decided, Noted, DocsOwned, RowsOwned, RunningTotal, TransferIsWhole,
           ApprovedIsCredited, ChargedOnce, TypeOK', Noted',
           ledger' = ledger, Settles(doc, doc'), overlapped \subseteq overlapped',
           edited \subseteq edited', moved' = moved,
           \A x \in Calls : calls'[x].busy =>
              \/ calls'[x] = calls[x] /\ Keeps(doc, doc', calls[x].of)
              \/ Decides(calls'[x], ledger', doc', overlapped', edited', moved')
    PROVE  WalletInv'
<1>1. \A d \in Documents : Exists(doc, d) => Exists(doc', d)
  BY DEF Settles, Exists
<1>2. \A d \in Commissions : doc'[d] = doc[d]
  BY WalletAssumption DEF Settles, Documents
<1>3. NoNewCharge(doc, doc')
  BY <1>2 DEF NoNewCharge, LiveIn
<1>d. Decided'
  <2> SUFFICES ASSUME NEW x \in Calls, calls'[x].busy
               PROVE  Decides(calls'[x], ledger', doc', overlapped', edited', moved')
    BY DEF Decided
  <2> SUFFICES ASSUME calls'[x] = calls[x], Keeps(doc, doc', calls[x].of)
               PROVE  Decides(calls'[x], ledger', doc', overlapped', edited', moved')
    OBVIOUS
  <2>1. Decides(calls[x], ledger, doc, overlapped, edited, moved)
    BY DEF Decided
  <2>2. Decides(calls[x], ledger, doc', overlapped', edited', moved)
    BY <2>1, <1>3, DecisionStays
  <2> QED BY <2>2
<1>o. DocsOwned'
  <2> SUFFICES ASSUME NEW d \in Documents PROVE DocOwned(doc', ledger', d)
    BY DEF DocsOwned
  <2>1. DocOwned(doc, ledger, d)
    BY DEF DocsOwned
  <2>2. Exists(doc', d) => doc'[d].owner \in Users /\ doc'[d].amount \in AnyAmount
    BY <2>1 DEF DocOwned, Settles, Exists
  <2>3. (d \in Commissions /\ Exists(doc', d)) =>
              doc'[d].peer \in Journeys /\ doc'[d].owner = DriverOf[doc'[d].peer]
    BY <2>1, <1>2 DEF DocOwned, Exists
  <2> QED BY <2>1, <2>2, <2>3, <1>1 DEF DocOwned
<1>r. RowsOwned'
  BY DEF RowsOwned, RowOwned
<1>u. RunningTotal'
  BY DEF RunningTotal
<1>w. TransferIsWhole'
  <2> SUFFICES ASSUME NEW d \in Transfers
               PROVE  /\ doc'[d].status = "made" => RowsOf(d) # {}
                      /\ RowsOf(d) # {} =>
                           \E i, j \in RowsOf(d) :
                              RowsOf(d) = {i, j} /\ i # j /\ ledger[i].delta + ledger[j].delta = 0
    BY DEF TransferIsWhole, RowsOf
  <2>1. doc'[d].status = "made" => doc[d].status = "made"
    BY WalletAssumption DEF Settles, Documents
  <2> QED BY <2>1 DEF TransferIsWhole
<1>a. ApprovedIsCredited'
  <2> SUFFICES ASSUME NEW d \in Deposits \cup Payments, doc'[d].status = "approved", d \notin edited'
               PROVE  \E i \in RowsOf(d) : ledger[i].delta > 0
    BY DEF ApprovedIsCredited, RowsOf
  <2>1. doc[d].status = "approved"
    BY DEF Settles, Documents
  <2> QED BY <2>1 DEF ApprovedIsCredited
<1>g. ChargedOnce'
  <2> SUFFICES ASSUME NEW x \in Commissions \ moved, NEW y \in Commissions \ moved, x # y,
                      LiveIn(doc', x), LiveIn(doc', y), doc'[x].peer = doc'[y].peer
               PROVE  doc'[x].owner \in overlapped'
    BY DEF ChargedOnce, Live, LiveIn
  <2>1. Live(x) /\ Live(y) /\ doc[x].peer = doc[y].peer /\ {x, y} \cap moved = {}
    BY <1>2 DEF Live, LiveIn
  <2>2. doc[x].owner \in overlapped
    BY <2>1 DEF ChargedOnce
  <2> QED BY <2>2, <1>2
<1> QED BY <1>d, <1>o, <1>r, <1>u, <1>w, <1>a, <1>g DEF WalletInv

\* A call as it is once it has read.
CallOf(users, ok, d, live, rows, cols) ==
    [busy |-> TRUE, users |-> users, ok |-> ok, of |-> d, live |-> live,
     rows |-> rows, cols |-> cols]

\* The process stops or the call throws.
LEMMA CrashKeeps ==
    ASSUME WalletInv, NEW c \in Calls, Crash(c)
    PROVE  WalletInv'
<1> SUFFICES ASSUME TypeOK, Decided, Noted, DocsOwned, RowsOwned, RunningTotal, TransferIsWhole,
                    ApprovedIsCredited, ChargedOnce
             PROVE  WalletInv'
  BY DEF WalletInv
<1>1. /\ calls' = [calls EXCEPT ![c] = Idle]
      /\ ledger' = ledger /\ doc' = doc /\ overlapped' = overlapped /\ edited' = edited
      /\ moved' = moved /\ begun' = begun
  BY DEF Crash
<1>2. \A x \in Calls : (x # c => calls'[x] = calls[x]) /\ calls'[c] = Idle
  BY <1>1 DEF TypeOK
<1>3. /\ Idle.busy = FALSE /\ Idle.ok = TRUE /\ Idle.users = {} /\ Idle.rows = << >>
      /\ Idle.rows \in Seq(RowType)
  BY DEF Idle
<1>4. TypeOK'
  <2>1. DOMAIN calls' = Calls
    BY <1>1 DEF TypeOK
  <2>2. ASSUME NEW x \in Calls
        PROVE  /\ calls'[x].busy \in BOOLEAN /\ calls'[x].ok \in BOOLEAN
               /\ calls'[x].users \subseteq Users
               /\ calls'[x].rows \in Seq(RowType)
               /\ calls'[x].busy => calls'[x].of \in Documents
    <3>1. CASE x # c
      BY <3>1, <1>2 DEF TypeOK
    <3>2. CASE x = c
      BY <3>2, <1>2, <1>3
    <3> QED BY <3>1, <3>2
  <2> QED BY <2>1, <2>2, <1>1 DEF TypeOK
<1>5. Noted'
  <2>1. \A x \in Calls : calls'[x].busy => calls'[x] = calls[x]
    BY <1>2, <1>3
  <2> QED BY <1>1, <2>1 DEF Noted, Exists
<1>6. Settles(doc, doc')
  BY <1>1 DEF Settles
<1>7. \A x \in Calls : calls'[x].busy => calls'[x] = calls[x] /\ Keeps(doc, doc', calls[x].of)
  BY <1>1, <1>2, <1>3 DEF Keeps
<1> QED BY <1>1, <1>4, <1>5, <1>6, <1>7, QuietKeeps

\* A statement of its own on a document no call under way is making.
LEMMA WriteKeeps ==
    ASSUME WalletInv, NEW d, NEW cols, Write(d, cols),
           doc' \in [Documents -> DocType], Settles(doc, doc'),
           \A x \in Documents : x # d => doc'[x] = doc[x],
           Exists(doc, d) \/ d \notin Pending
    PROVE  WalletInv'
<1> SUFFICES ASSUME TypeOK, Decided, Noted, DocsOwned, RowsOwned, RunningTotal, TransferIsWhole,
                    ApprovedIsCredited, ChargedOnce
             PROVE  WalletInv'
  BY DEF WalletInv
<1>1. /\ calls' = calls /\ ledger' = ledger /\ overlapped' = overlapped /\ edited' = edited
      /\ moved' = moved /\ begun' = begun
  BY DEF Write
<1>2. \A x \in Documents : Exists(doc, x) => Exists(doc', x)
  BY DEF Settles, Exists
<1>3. TypeOK'
  BY <1>1 DEF TypeOK
<1>4. ASSUME NEW x \in Calls, calls[x].busy PROVE Keeps(doc, doc', calls[x].of)
  <2>1. calls[x].of \in Documents /\ calls[x].of \in Pending
    BY <1>4 DEF TypeOK, Pending
  <2> QED BY <2>1, <1>2 DEF Keeps, Exists
<1>5. Noted'
  <2>1. \A x \in Calls : calls[x].busy => calls[x].of \in Documents
    BY DEF TypeOK
  <2> QED BY <1>1, <1>2, <2>1 DEF Noted
<1> QED BY <1>1, <1>3, <1>4, <1>5, QuietKeeps

\* A call reads; of what is under way, only its own decision is new.
LEMMA ReadKeeps ==
    ASSUME WalletInv,
           NEW c \in Calls, NEW users, NEW book, NEW d, NEW live, NEW cols,
           Read(c, users, book, d, live, cols),
           ledger' = ledger, doc' \in [Documents -> DocType], Settles(doc, doc'),
           \A x \in Documents : Exists(doc', x) => Exists(doc, x),
           edited \subseteq edited', edited' \subseteq Deposits \cup Payments, moved' = moved,
           Exists(doc, d) \/ d \notin Pending,
           Decides(CallOf(users, book.ok, d, live, News(book, ledger), cols),
                   ledger, doc', overlapped', edited', moved')
    PROVE  WalletInv'
<1> SUFFICES ASSUME TypeOK, Decided, Noted, DocsOwned, RowsOwned, RunningTotal, TransferIsWhole,
                    ApprovedIsCredited, ChargedOnce
             PROVE  WalletInv'
  BY DEF WalletInv
<1> DEFINE k == CallOf(users, book.ok, d, live, News(book, ledger), cols)
<1>1. /\ ~calls[c].busy /\ begun < MaxCalls /\ begun' = begun + 1
      /\ calls' = [calls EXCEPT ![c] = k]
      /\ overlapped' = overlapped \cup Met(users, d)
  BY DEF Read, CallOf, News
<1>2. /\ k.busy = TRUE /\ k.users = users /\ k.of = d /\ k.ok = book.ok
      /\ k.rows = News(book, ledger)
  BY DEF CallOf
<1> HIDE DEF k
<1>3. \A x \in Calls : (x # c => calls'[x] = calls[x]) /\ calls'[c] = k
  BY <1>1 DEF TypeOK
<1>4. NewsTyped(k) /\ Decides(k, ledger, doc', overlapped', edited', moved')
  BY DEF k, Decides
<1>5. TypeOK'
  <2>1. DOMAIN calls' = Calls
    BY <1>1 DEF TypeOK
  <2>2. ASSUME NEW x \in Calls
        PROVE  /\ calls'[x].busy \in BOOLEAN /\ calls'[x].ok \in BOOLEAN
               /\ calls'[x].users \subseteq Users
               /\ calls'[x].rows \in Seq(RowType)
               /\ calls'[x].busy => calls'[x].of \in Documents
    <3>1. CASE x # c
      BY <3>1, <1>3 DEF TypeOK
    <3>2. CASE x = c
      BY <3>2, <1>2, <1>3, <1>4 DEF NewsTyped
    <3> QED BY <3>1, <3>2
  <2>3. overlapped' \subseteq Users
    <3>1. users \subseteq Users /\ \A x \in Calls : calls[x].users \subseteq Users
      BY <1>2, <1>4 DEF TypeOK, NewsTyped
    <3>2. Met(users, d) \subseteq Users
      BY <3>1 DEF Met
    <3> QED BY <3>2, <1>1 DEF TypeOK
  <2>4. begun' \in 0..MaxCalls
    BY <1>1, WalletAssumption DEF TypeOK
  <2> QED BY <2>1, <2>2, <2>3, <2>4 DEF TypeOK
<1>6. \A x \in Documents : Exists(doc, x) => Exists(doc', x)
  BY DEF Settles, Exists
<1>7. \A x \in Calls : calls[x].busy => calls[x].of \in Documents /\ calls[x].of \in Pending
  BY DEF TypeOK, Pending
<1>8. Noted'
  <2> SUFFICES ASSUME NEW x \in Calls, NEW y \in Calls, x # y, calls'[x].busy, calls'[y].busy
               PROVE  /\ calls'[x].users \cap calls'[y].users \subseteq overlapped'
                      /\ calls'[x].of = calls'[y].of =>
                            /\ Exists(doc', calls'[x].of)
                            /\ calls'[x].users \cup calls'[y].users \subseteq overlapped'
    BY DEF Noted
  <2>1. ASSUME NEW z \in Calls, z # c, calls[z].busy
        PROVE  /\ users \cap calls[z].users \subseteq overlapped'
               /\ d = calls[z].of => /\ Exists(doc', d)
                                     /\ users \cup calls[z].users \subseteq overlapped'
    <3>1. users \cap calls[z].users \subseteq overlapped'
      BY <2>1, <1>1 DEF Met, Busy
    <3>2. d = calls[z].of => Exists(doc', d)
      BY <2>1, <1>6, <1>7
    <3>3. d = calls[z].of => users \cup calls[z].users \subseteq overlapped'
      BY <2>1, <1>1 DEF Met
    <3> QED BY <3>1, <3>2, <3>3
  <2>2. CASE x # c /\ y # c
    <3>1. calls'[x] = calls[x] /\ calls'[y] = calls[y]
      BY <2>2, <1>3
    <3>2. /\ calls[x].users \cap calls[y].users \subseteq overlapped
          /\ calls[x].of = calls[y].of =>
                /\ Exists(doc, calls[x].of)
                /\ calls[x].users \cup calls[y].users \subseteq overlapped
      BY <3>1 DEF Noted
    <3> QED BY <3>1, <3>2, <1>1, <1>6, <1>7
  <2>3. CASE x = c
    <3>1. y # c /\ calls'[y] = calls[y] /\ calls'[x] = k
      BY <2>3, <1>3
    <3> QED BY <3>1, <2>1, <1>2
  <2>4. CASE y = c
    <3>1. x # c /\ calls'[x] = calls[x] /\ calls'[y] = k
      BY <2>4, <1>3
    <3> QED BY <3>1, <2>1, <1>2
  <2> QED BY <2>2, <2>3, <2>4
<1>9. \A x \in Calls : calls'[x].busy =>
         \/ calls'[x] = calls[x] /\ Keeps(doc, doc', calls[x].of)
         \/ Decides(calls'[x], ledger', doc', overlapped', edited', moved')
  <2> TAKE x \in Calls
  <2>1. CASE x = c
    BY <2>1, <1>3, <1>4
  <2>2. CASE x # c
    BY <2>2, <1>3, <1>6, <1>7 DEF Keeps
  <2> QED BY <2>1, <2>2
<1>10. overlapped \subseteq overlapped'
  BY <1>1
<1> QED BY <1>5, <1>8, <1>9, <1>10, QuietKeeps

-----------------------------------------------------------------------------
(***************************************************************************)
(* What a call decides is right when it reads.                             *)
(***************************************************************************)
\* The rows of a call that adds at most one.
OneAtMost(news, rows, u, d, deltas) ==
    \/ news = << >>
    \/ ~Written(rows, d) /\ \E delta \in deltas : news = <<NewRow(rows, u, d, delta)>>

\* One entry leaves at most one new row.
LEMMA NewsAtMostOne ==
    ASSUME NEW rows \in Seq(RowType), NEW book, NEW u \in Users, NEW d \in Documents,
           NEW deltas, deltas \subseteq Int, AddsAtMostOne(book, rows, u, d, deltas)
    PROVE  /\ OneAtMost(News(book, rows), rows, u, d, deltas)
           /\ book.ok \in BOOLEAN
           /\ (News(book, rows) = << >> /\ book.ok) => Written(rows, d)
<1>1. book.ok \in BOOLEAN
  BY DEF AddsAtMostOne, BookType
<1>2. CASE book.rows = rows /\ (book.ok => Written(rows, d))
  <2>1. rows = rows \o << >> /\ << >> \in Seq(RowType)
    OBVIOUS
  <2>2. News(book, rows) = << >>
    BY <1>2, <2>1, NewsOfConcat
  <2> QED BY <2>2, <1>1, <1>2 DEF OneAtMost
<1>3. ASSUME ~Written(rows, d), NEW delta \in deltas,
             book.rows = Append(rows, NewRow(rows, u, d, delta))
      PROVE  /\ OneAtMost(News(book, rows), rows, u, d, deltas)
             /\ News(book, rows) # << >>
  <2> DEFINE r == NewRow(rows, u, d, delta)
  <2>1. r \in RowType
    BY NewRowType
  <2> HIDE DEF r
  <2>2. <<r>> \in Seq(RowType) /\ Append(rows, r) = rows \o <<r>> /\ <<r>> # << >>
    BY <2>1
  <2>3. News(book, rows) = <<r>>
    BY <1>3, <2>2, NewsOfConcat DEF r
  <2> QED BY <1>3, <2>2, <2>3 DEF OneAtMost, r
<1> QED BY <1>1, <1>2, <1>3 DEF AddsAtMostOne

\* A call that adds one row at most, about a document other than a transfer.
LEMMA DecidesOne ==
    ASSUME NEW rows \in Seq(RowType), NEW docs, NEW over, NEW edit, NEW mv,
           NEW users \in SUBSET Users, NEW u \in users,
           NEW d \in Documents \ Transfers, NEW deltas, deltas \subseteq Int,
           NEW news, OneAtMost(news, rows, u, d, deltas),
           NEW ok \in BOOLEAN, NEW live, NEW cols, ColsTyped(cols),
           IF Exists(docs, d)
           THEN live = TRUE /\ "peer" \in DOMAIN cols => d \in Commissions
           ELSE Makes(cols, live, users, d, rows),
           d \in (Deposits \cup Payments) \ edit =>
              /\ news # << >> => \A delta \in deltas : delta > 0
              /\ ("status" \in DOMAIN cols /\ cols["status"] = "approved" /\ ok)
                    => news # << >> \/ Written(rows, d),
           d \in Commissions =>
              IF Exists(docs, d)
              THEN Amends(cols, live)
              ELSE /\ NamesJourney(cols)
                   /\ \A m \in Commissions \ mv :
                        LiveIn(docs, m) /\ docs[m].peer = cols["peer"] => cols["owner"] \in over
    PROVE  Decides(CallOf(users, ok, d, live, news, cols), rows, docs, over, edit, mv)
<1> DEFINE k == CallOf(users, ok, d, live, news, cols)
<1>1. /\ k.users = users /\ k.ok = ok /\ k.of = d /\ k.rows = news /\ k.cols = cols
      /\ k.live = live
  BY DEF CallOf
<1> HIDE DEF k
<1>2. /\ news \in Seq(RowType) /\ Len(news) \in 0..1
      /\ Len(news) = 1 => ~Written(rows, d)
      /\ \A i \in DOMAIN news : /\ news[i].of = d /\ news[i].user = u /\ news[i].delta \in deltas
                                /\ i = 1 /\ news # << >>
                                /\ news[1].net = NetOf(rows, u) + news[1].delta
  <2>1. CASE news = << >>
    BY <2>1
  <2>2. CASE news # << >>
    <3>1. PICK delta \in deltas : news = <<NewRow(rows, u, d, delta)>>
      BY <2>2 DEF OneAtMost
    <3>2. ~Written(rows, d) /\ delta \in Int
      BY <2>2 DEF OneAtMost
    <3> DEFINE r == NewRow(rows, u, d, delta)
    <3>3. r \in RowType
      BY <3>2, NewRowType
    <3>4. r.of = d /\ r.user = u /\ r.delta = delta /\ r.net = NetOf(rows, u) + delta
      BY DEF NewRow
    <3>5. news = <<r>>
      BY <3>1
    <3> HIDE DEF r
    <3> QED BY <3>2, <3>3, <3>4, <3>5
  <2> QED BY <2>1, <2>2
<1>3. NewsTyped(k)
  BY <1>1, <1>2 DEF NewsTyped
<1>4. Creates(k, rows, docs)
  BY <1>1 DEF Creates, Moves
<1>7. Continues(k, rows, over)
  BY <1>1, <1>2 DEF Continues
<1>8. AddsOne(k, rows, over)
  BY <1>1, <1>2 DEF AddsOne
<1>9. AddsTwo(k) /\ Charges(k, docs, over, mv)
  BY <1>1 DEF AddsTwo, Charges
<1>10. Credits(k, rows, edit)
  BY <1>1, <1>2 DEF Credits
<1> QED BY <1>3, <1>4, <1>7, <1>8, <1>9, <1>10 DEF Decides, k

\* A document that is there, and one that is not.
LEMMA LiveDoc ==
    ASSUME WalletInv, NEW d \in Documents, Live(d)
    PROVE  /\ Exists(doc, d) /\ doc[d].owner \in Users
           /\ doc[d].amount \in AnyAmount /\ doc[d].amount \in Int /\ doc[d].amount > 0
<1>1. Exists(doc, d)
  BY DEF Live, Exists
<1>2. doc[d].owner \in Users /\ doc[d].amount \in AnyAmount
  BY <1>1 DEF WalletInv, DocsOwned, DocOwned
<1>3. \A a \in AnyAmount : a \in Int /\ a > 0
  BY WalletAssumption DEF AnyAmount
<1> QED BY <1>1, <1>2, <1>3

\* A fresh identifier has no document, no row and no call under way.
LEMMA FreshDoc ==
    ASSUME WalletInv, NEW d \in Documents, Fresh(d)
    PROVE  ~Exists(doc, d) /\ d \notin Pending /\ ~Written(ledger, d)
<1>1. ~Exists(doc, d) /\ d \notin Pending
  BY DEF Fresh, Made, Exists
<1> QED BY <1>1 DEF WalletInv, DocsOwned, DocOwned

\* A call that moves no money.
LEMMA NoNews ==
    ASSUME WalletInv
    PROVE  Book.rows = ledger /\ Book.ok = TRUE /\ News(Book, ledger) = << >>
<1>1. Book.rows = ledger /\ Book.ok = TRUE
  BY DEF Book
<1>2. ledger \in Seq(RowType) /\ ledger = ledger \o << >> /\ << >> \in Seq(RowType)
  BY DEF WalletInv, TypeOK
<1> QED BY <1>1, <1>2, NewsOfConcat

\* A call that adds one row at most, about a document other than a transfer.
LEMMA ReadOne ==
    ASSUME WalletInv, NEW c \in Calls, NEW users \in SUBSET Users, NEW u \in users,
           NEW d \in Documents \ Transfers,
           NEW book, NEW live, NEW cols, NEW deltas, deltas \subseteq Int,
           Read(c, users, book, d, live, cols), ColsTyped(cols),
           book = Book \/ AddsAtMostOne(book, ledger, u, d, deltas),
           ledger' = ledger, doc' \in [Documents -> DocType], Settles(doc, doc'),
           \A x \in Documents : Exists(doc', x) => Exists(doc, x),
           edited \subseteq edited', edited' \subseteq Deposits \cup Payments, moved' = moved,
           IF Exists(doc, d)
           THEN live = TRUE /\ "peer" \in DOMAIN cols => d \in Commissions
           ELSE /\ {"owner", "amount", "status"} \subseteq DOMAIN cols
                /\ Fresh(d) /\ d \notin Deposits \cup Payments
                /\ cols["owner"] \in users /\ live = FALSE,
           d \in (Deposits \cup Payments) \ edited' =>
              /\ Written(ledger, d) \/ \A delta \in deltas : delta > 0
              /\ ("status" \in DOMAIN cols /\ cols["status"] = "approved")
                    => AddsAtMostOne(book, ledger, u, d, deltas) \/ Written(ledger, d),
           d \in Commissions =>
              IF Exists(doc, d)
              THEN Amends(cols, live)
              ELSE /\ NamesJourney(cols)
                   /\ ~\E m \in Commissions : Live(m) /\ doc[m].peer = cols["peer"]
    PROVE  WalletInv'
<1> DEFINE news == News(book, ledger)
<1>1. ledger \in Seq(RowType)
  BY DEF WalletInv, TypeOK
<1>2. /\ OneAtMost(news, ledger, u, d, deltas) /\ book.ok \in BOOLEAN
      /\ (AddsAtMostOne(book, ledger, u, d, deltas) /\ news = << >> /\ book.ok)
            => Written(ledger, d)
  <2>1. CASE AddsAtMostOne(book, ledger, u, d, deltas)
    BY <2>1, <1>1, NewsAtMostOne
  <2>2. CASE book = Book /\ ~AddsAtMostOne(book, ledger, u, d, deltas)
    BY <2>2, NoNews DEF OneAtMost
  <2> QED BY <2>1, <2>2
<1> HIDE DEF news
<1>3. \A x \in Documents : Exists(doc', x) <=> Exists(doc, x)
  BY DEF Settles, Exists
<1>5. ~Exists(doc, d) => d \notin Pending /\ ~Written(ledger, d)
  BY FreshDoc
<1>6. \A m \in Commissions : LiveIn(doc', m) => Live(m) /\ doc'[m].peer = doc[m].peer
  BY WalletAssumption DEF Settles, LiveIn, Live, Documents
<1>7. IF Exists(doc', d)
      THEN live = TRUE /\ "peer" \in DOMAIN cols => d \in Commissions
      ELSE Makes(cols, live, users, d, ledger)
  BY <1>3, <1>5 DEF Makes
<1>8. d \in (Deposits \cup Payments) \ edited' =>
        /\ news # << >> => \A delta \in deltas : delta > 0
        /\ ("status" \in DOMAIN cols /\ cols["status"] = "approved" /\ book.ok)
              => news # << >> \/ Written(ledger, d)
  BY <1>2 DEF OneAtMost
<1>9. d \in Commissions =>
        IF Exists(doc', d)
        THEN Amends(cols, live)
        ELSE /\ NamesJourney(cols)
             /\ \A m \in Commissions \ moved' :
                  LiveIn(doc', m) /\ doc'[m].peer = cols["peer"] => cols["owner"] \in overlapped'
  BY <1>3, <1>6
<1>10. Decides(CallOf(users, book.ok, d, live, news, cols), ledger, doc', overlapped', edited', moved')
  BY <1>1, <1>2, <1>7, <1>8, <1>9, DecidesOne
<1> QED BY <1>5, <1>10, ReadKeeps DEF news

-----------------------------------------------------------------------------
(***************************************************************************)
(* Deposits.                                                               *)
(***************************************************************************)
\* An approved deposit whose amount was left alone has its row.
LEMMA ApprovedIsWritten ==
    ASSUME WalletInv, NEW d \in Deposits \cup Payments, doc[d].status = "approved", d \notin edited
    PROVE  Written(ledger, d)
BY DEF WalletInv, ApprovedIsCredited, RowsOf, Written

\* What the calls that leave the documents alone have in common.
LEMMA DocsUnread ==
    ASSUME WalletInv, doc' = doc
    PROVE  /\ doc' \in [Documents -> DocType] /\ Settles(doc, doc')
           /\ \A x \in Documents : Exists(doc', x) => Exists(doc, x)
           /\ edited \subseteq Deposits \cup Payments
BY DEF WalletInv, TypeOK, Settles

\* A book that was started from the ledger.
LEMMA FirstEntry ==
    ASSUME WalletInv, NEW u \in Users, NEW d \in Documents \ Transfers, NEW delta \in Int, NEW kind
    PROVE  AddsAtMostOne(PrepareAndCreateNewBalance(Book, u, d, delta, kind), ledger, u, d, {delta})
<1>1. ledger \in Seq(RowType)
  BY DEF WalletInv, TypeOK
<1>2. Book = [rows |-> ledger, ok |-> TRUE]
  BY DEF Book
<1> QED BY <1>1, <1>2, PrepareAddsOne

\* A second entry of a call about the same document leaves it at that.
LEMMA SecondEntry ==
    ASSUME WalletInv, NEW u \in Users, NEW v \in Users, NEW d \in Documents \ Transfers,
           NEW deltas, deltas \subseteq Int, NEW first, AddsAtMostOne(first, ledger, u, d, deltas),
           NEW delta \in Int, NEW kind
    PROVE  AddsAtMostOne(PrepareAndCreateNewBalance(first, v, d, delta, kind), ledger, u, d, deltas)
<1>1. ledger \in Seq(RowType)
  BY DEF WalletInv, TypeOK
<1> QED BY <1>1, AgainAddsNone

\* A replaced amount (reversal, then adjustment) leaves at most one row.
LEMMA Replaced ==
    ASSUME WalletInv, NEW u \in Users, NEW d \in Documents \ Transfers, NEW old \in Int, NEW new \in Int
    PROVE  AddsAtMostOne(Replace(Book, u, d, old, new), ledger, u, d, {-old})
<1> DEFINE first == PrepareAndCreateNewBalance(Book, u, d, -old, "reversal")
           deltas == {-old}
<1>1. AddsAtMostOne(first, ledger, u, d, deltas) /\ deltas \subseteq Int
  BY FirstEntry
<1> HIDE DEF first, deltas
<1>2. AddsAtMostOne(PrepareAndCreateNewBalance(first, u, d, new, "adjustment"), ledger, u, d, deltas)
  BY <1>1, SecondEntry
<1> QED BY <1>2 DEF Replace, first, deltas

\* The columns a request leaves out are not written.
LEMMA GivenColumns ==
    ASSUME NEW cols
    PROVE  /\ DOMAIN Given(cols) = {f \in DOMAIN cols : cols[f] # None}
           /\ \A f \in DOMAIN Given(cols) : Given(cols)[f] = cols[f]
BY DEF Given

\* An admin changes a deposit.
LEMMA UpdateUserDepositKeeps ==
    ASSUME WalletInv, NEW c \in Calls, NEW d \in Deposits \cup Payments,
           NEW status \in Outcomes \cup {None}, NEW amount \in NewAmounts \cup {None},
           NEW owner \in Users \cup {None}, UpdateUserDeposit(c, d, status, amount, owner)
    PROVE  WalletInv'
<1> DEFINE approving == status = "approved" /\ doc[d].status # "approved"
           u == doc[d].owner
           paid == IF amount = None THEN doc[d].amount ELSE amount
           first == PrepareAndCreateNewBalance(Book, u, d, paid, "creation")
           replaced == Replace(Book, u, d, doc[d].amount, amount)
           book == IF approving THEN first
                   ELSE IF amount \notin {None, doc[d].amount} THEN replaced ELSE Book
           deltas == IF approving THEN {paid}
                     ELSE IF amount \notin {None, doc[d].amount} THEN {-doc[d].amount}
                     ELSE {}
           asked == [status |-> status, amount |-> amount, owner |-> owner]
           cols == Given(asked)
           users == {u}
<1>1. /\ Live(d) /\ Read(c, users, book, d, FALSE, cols)
      /\ edited' = (IF ~approving /\ amount # None THEN edited \cup {d} ELSE edited)
      /\ ledger' = ledger /\ doc' = doc /\ moved' = moved
  BY DEF UpdateUserDeposit
<1>2. /\ d \in Documents \ Transfers /\ d \notin Commissions
  BY WalletAssumption DEF Documents
<1>3. /\ Exists(doc, d) /\ u \in Users /\ doc[d].amount \in AnyAmount
      /\ doc[d].amount \in Int /\ doc[d].amount > 0
  BY <1>1, <1>2, LiveDoc
<1>4. amount # None => amount \in NewAmounts /\ amount \in Int /\ amount > 0
  BY WalletAssumption
<1>5. paid \in Int /\ paid > 0
  BY <1>3, <1>4
<1>c. /\ DOMAIN cols \subseteq {"status", "amount", "owner"}
      /\ \A f \in DOMAIN cols : cols[f] = asked[f] /\ asked[f] # None
  <2>1. DOMAIN asked = {"status", "amount", "owner"}
    OBVIOUS
  <2> HIDE DEF asked
  <2> QED BY <2>1, GivenColumns
<1>a. asked["status"] = status /\ asked["amount"] = amount /\ asked["owner"] = owner
  OBVIOUS
<1> HIDE DEF cols, asked
<1>6. ColsTyped(cols)
  <2>2. "amount" \in DOMAIN cols => cols["amount"] \in NewAmounts
    BY <1>c, <1>a, <1>4
  <2>3. "status" \in DOMAIN cols => cols["status"] \in Statuses \ {"none"}
    BY <1>c, <1>a, WalletAssumption DEF Statuses
  <2>4. "owner" \in DOMAIN cols => cols["owner"] \in Users
    BY <1>c, <1>a
  <2> QED BY <1>c, <2>2, <2>3, <2>4 DEF ColsTyped, AnyAmount
<1>7. "status" \in DOMAIN cols => cols["status"] = status
  BY <1>c, <1>a
<1>8. /\ deltas \subseteq Int
      /\ book = Book \/ AddsAtMostOne(book, ledger, u, d, deltas)
      /\ approving => AddsAtMostOne(book, ledger, u, d, deltas) /\ deltas = {paid}
      /\ (~approving /\ amount = None) => deltas = {}
  <2>1. CASE approving
    <3>1. AddsAtMostOne(first, ledger, u, d, {paid})
      BY <1>2, <1>3, <1>5, FirstEntry
    <3> QED BY <2>1, <3>1, <1>5
  <2>2. CASE ~approving /\ amount \notin {None, doc[d].amount}
    <3>1. AddsAtMostOne(replaced, ledger, u, d, {-doc[d].amount})
      BY <2>2, <1>2, <1>3, <1>4, Replaced
    <3> QED BY <2>2, <3>1, <1>3, <1>4
  <2>3. CASE ~approving /\ amount \in {None, doc[d].amount}
    BY <2>3
  <2> QED BY <2>1, <2>2, <2>3
<1>9. ASSUME d \notin edited'
      PROVE  /\ \A delta \in deltas : delta > 0
             /\ ("status" \in DOMAIN cols /\ cols["status"] = "approved")
                  => AddsAtMostOne(book, ledger, u, d, deltas) \/ Written(ledger, d)
  <2>1. CASE approving
    BY <2>1, <1>5, <1>8
  <2>2. CASE ~approving
    <3>1. amount = None /\ d \notin edited
      BY <2>2, <1>1, <1>9
    <3>2. status = "approved" => Written(ledger, d)
      BY <2>2, <3>1, ApprovedIsWritten
    <3> QED BY <2>2, <3>1, <3>2, <1>7, <1>8
  <2> QED BY <2>1, <2>2
<1>10. /\ doc' \in [Documents -> DocType] /\ Settles(doc, doc')
       /\ \A x \in Documents : Exists(doc', x) => Exists(doc, x)
       /\ edited \subseteq Deposits \cup Payments
  BY <1>1, DocsUnread
<1>11. edited \subseteq edited' /\ edited' \subseteq Deposits \cup Payments
  BY <1>1, <1>10
<1>12. users \in SUBSET Users /\ u \in users /\ "peer" \notin DOMAIN cols
  BY <1>3, <1>c
<1> HIDE DEF u, book, deltas, users
<1> QED BY <1>1, <1>2, <1>3, <1>6, <1>8, <1>9, <1>10, <1>11, <1>12, ReadOne

\* A deposit is deleted.
LEMMA DeleteUserDepositKeeps ==
    ASSUME WalletInv, NEW c \in Calls, NEW d \in Deposits \cup Payments, DeleteUserDeposit(c, d)
    PROVE  WalletInv'
<1> DEFINE u == doc[d].owner
           reversal == PrepareAndCreateNewBalance(Book, u, d, -doc[d].amount, "reversal")
           book == IF doc[d].status = "approved" THEN reversal ELSE Book
           deltas == IF doc[d].status = "approved" THEN {-doc[d].amount} ELSE {}
           cols == [deleted |-> TRUE]
           users == {u}
<1>1. /\ Live(d) /\ Read(c, users, book, d, TRUE, cols)
      /\ edited' = edited /\ ledger' = ledger /\ doc' = doc /\ moved' = moved
  BY DEF DeleteUserDeposit
<1>2. /\ d \in Documents \ Transfers /\ d \notin Commissions
  BY WalletAssumption DEF Documents
<1>3. /\ Exists(doc, d) /\ u \in Users /\ doc[d].amount \in Int /\ doc[d].amount > 0
  BY <1>1, <1>2, LiveDoc
<1>4. ColsTyped(cols) /\ DOMAIN cols = {"deleted"}
  BY DEF ColsTyped
<1>5. deltas \subseteq Int /\ (book = Book \/ AddsAtMostOne(book, ledger, u, d, deltas))
  <2>1. AddsAtMostOne(reversal, ledger, u, d, {-doc[d].amount})
    BY <1>2, <1>3, FirstEntry
  <2> QED BY <2>1, <1>3
<1>6. ASSUME d \notin edited' PROVE Written(ledger, d) \/ \A delta \in deltas : delta > 0
  BY <1>1, <1>6, ApprovedIsWritten
<1>7. /\ doc' \in [Documents -> DocType] /\ Settles(doc, doc')
      /\ \A x \in Documents : Exists(doc', x) => Exists(doc, x)
      /\ edited \subseteq Deposits \cup Payments
  BY <1>1, DocsUnread
<1>8. users \in SUBSET Users /\ u \in users
  BY <1>3
<1> HIDE DEF u, book, deltas, cols, users
<1> QED BY <1>1, <1>2, <1>3, <1>4, <1>5, <1>6, <1>7, <1>8, ReadOne

\* The gateway's word on a payment is written at once, whoever else is about it.
LEMMA SantimPayWebhookKeeps ==
    ASSUME WalletInv, NEW c \in Calls, NEW d \in Payments,
           NEW status \in {"COMPLETED", "FAILED", "PENDING"}, SantimPayWebhook(c, d, status)
    PROVE  WalletInv'
<1> DEFINE u == doc[d].owner
           first == PrepareAndCreateNewBalance(Book, u, d, doc[d].amount, "creation")
           book == IF status = "COMPLETED" THEN first ELSE Book
           deltas == {doc[d].amount}
           cols == << >>
           users == {u}
<1>1. /\ Live(d) /\ Read(c, users, book, d, FALSE, cols)
      /\ doc' = [doc EXCEPT ![d].status = status, ![d].peer = TRUE]
      /\ edited' = edited /\ ledger' = ledger /\ moved' = moved
  BY DEF SantimPayWebhook
<1>2. /\ d \in Deposits \cup Payments
      /\ d \in Documents \ Transfers /\ d \notin Commissions
      /\ doc \in [Documents -> DocType] /\ edited \subseteq Deposits \cup Payments
  BY WalletAssumption DEF Documents, WalletInv, TypeOK
<1>3. /\ Exists(doc, d) /\ u \in Users /\ doc[d].amount \in AnyAmount
      /\ doc[d].amount \in Int /\ doc[d].amount > 0
  BY <1>1, <1>2, LiveDoc
<1>4. ColsTyped(cols) /\ DOMAIN cols = {}
  BY DEF ColsTyped
<1>5. deltas \subseteq Int /\ (book = Book \/ AddsAtMostOne(book, ledger, u, d, deltas))
  <2>1. AddsAtMostOne(first, ledger, u, d, {doc[d].amount})
    BY <1>2, <1>3, FirstEntry
  <2> QED BY <2>1, <1>3
<1>6. \A delta \in deltas : delta > 0
  BY <1>3
<1>7. /\ doc' \in [Documents -> DocType]
      /\ \A x \in Documents : x # d => doc'[x] = doc[x]
      /\ doc'[d].status = status /\ doc'[d].owner = doc[d].owner
      /\ doc'[d].amount = doc[d].amount
  <2> DEFINE new == [doc[d] EXCEPT !.status = status, !.peer = TRUE]
  <2>1. doc' = [doc EXCEPT ![d] = new]
    BY <1>1
  <2>2. new \in DocType /\ new.status = status /\ new.owner = doc[d].owner
        /\ new.amount = doc[d].amount
    BY <1>2 DEF DocType, Statuses
  <2> HIDE DEF new
  <2> QED BY <2>1, <2>2, <1>2
<1>8. Settles(doc, doc') /\ \A x \in Documents : Exists(doc', x) => Exists(doc, x)
  BY <1>2, <1>3, <1>7 DEF Settles, Exists
<1>9. users \in SUBSET Users /\ u \in users
  BY <1>3
<1> HIDE DEF u, book, deltas, cols, users
<1> QED BY <1>1, <1>2, <1>3, <1>4, <1>5, <1>6, <1>7, <1>8, <1>9, ReadOne

-----------------------------------------------------------------------------
(***************************************************************************)
(* Refunds.                                                                *)
(***************************************************************************)
\* A refund is asked for.
LEMMA CreateUserRefundKeeps ==
    ASSUME WalletInv, NEW c \in Calls, NEW d \in Refunds, NEW u \in Users, NEW amount \in Amounts,
           CreateUserRefund(c, d, u, amount)
    PROVE  WalletInv'
<1> DEFINE cols == [owner |-> u, amount |-> amount, status |-> "requested"]
           users == {u}
<1>1. /\ Fresh(d) /\ Read(c, users, Book, d, FALSE, cols)
      /\ edited' = edited /\ ledger' = ledger /\ doc' = doc /\ moved' = moved
  BY DEF CreateUserRefund
<1>2. /\ d \in Documents \ Transfers /\ d \notin Commissions /\ d \notin Deposits \cup Payments
  BY WalletAssumption DEF Documents
<1>3. ~Exists(doc, d)
  BY <1>1, <1>2, FreshDoc
<1>4. ColsTyped(cols) /\ {"owner", "amount", "status"} \subseteq DOMAIN cols /\ u = cols["owner"]
  BY DEF ColsTyped, AnyAmount, Statuses
<1>5. {} \subseteq Int
  OBVIOUS
<1>6. /\ doc' \in [Documents -> DocType] /\ Settles(doc, doc')
      /\ \A x \in Documents : Exists(doc', x) => Exists(doc, x)
      /\ edited \subseteq Deposits \cup Payments
  BY <1>1, DocsUnread
<1>7. users \in SUBSET Users /\ u \in users
  OBVIOUS
<1> HIDE DEF cols, users
<1> QED BY <1>1, <1>2, <1>3, <1>4, <1>5, <1>6, <1>7, ReadOne

\* A refund is approved, put back or edited.
LEMMA UpdateUserRefundKeeps ==
    ASSUME WalletInv, NEW c \in Calls, NEW d \in Refunds,
           NEW status \in {"requested", "approved", None}, NEW amount \in NewAmounts \cup {None},
           NEW owner \in Users \cup {None}, UpdateUserRefund(c, d, status, amount, owner)
    PROVE  WalletInv'
<1> DEFINE u == doc[d].owner
           first == PrepareAndCreateNewBalance(Book, u, d, -doc[d].amount, "creation")
           book == IF status = "approved" THEN first ELSE Book
           deltas == {-doc[d].amount}
           asked == [status |-> status, amount |-> amount, owner |-> owner]
           cols == Given(asked)
           users == {u}
<1>1. /\ Live(d) /\ Read(c, users, book, d, FALSE, cols)
      /\ edited' = edited /\ ledger' = ledger /\ doc' = doc /\ moved' = moved
  BY DEF UpdateUserRefund
<1>2. /\ d \in Documents \ Transfers /\ d \notin Commissions /\ d \notin Deposits \cup Payments
  BY WalletAssumption DEF Documents
<1>3. Exists(doc, d) /\ u \in Users /\ doc[d].amount \in Int
  BY <1>1, <1>2, LiveDoc
<1>c. /\ DOMAIN cols \subseteq {"status", "amount", "owner"}
      /\ \A f \in DOMAIN cols : cols[f] = asked[f] /\ asked[f] # None
  <2>1. DOMAIN asked = {"status", "amount", "owner"}
    OBVIOUS
  <2> HIDE DEF asked
  <2> QED BY <2>1, GivenColumns
<1>a. asked["status"] = status /\ asked["amount"] = amount /\ asked["owner"] = owner
  OBVIOUS
<1> HIDE DEF cols, asked
<1>4. ColsTyped(cols)
  <2>1. "amount" \in DOMAIN cols => cols["amount"] \in NewAmounts
    BY <1>c, <1>a
  <2>2. "status" \in DOMAIN cols => cols["status"] \in {"requested", "approved"}
    BY <1>c, <1>a
  <2>3. "owner" \in DOMAIN cols => cols["owner"] \in Users
    BY <1>c, <1>a
  <2> QED BY <1>c, <2>1, <2>2, <2>3 DEF ColsTyped, AnyAmount, Statuses
<1>5. deltas \subseteq Int /\ (book = Book \/ AddsAtMostOne(book, ledger, u, d, deltas))
  <2>1. AddsAtMostOne(first, ledger, u, d, {-doc[d].amount})
    BY <1>2, <1>3, FirstEntry
  <2> QED BY <2>1, <1>3
<1>6. /\ doc' \in [Documents -> DocType] /\ Settles(doc, doc')
      /\ \A x \in Documents : Exists(doc', x) => Exists(doc, x)
      /\ edited \subseteq Deposits \cup Payments
  BY <1>1, DocsUnread
<1>7. users \in SUBSET Users /\ u \in users /\ "peer" \notin DOMAIN cols
  BY <1>3, <1>c
<1> HIDE DEF u, book, deltas, users
<1> QED BY <1>1, <1>2, <1>3, <1>4, <1>5, <1>6, <1>7, ReadOne

-----------------------------------------------------------------------------
(***************************************************************************)
(* Commissions and subscriptions.                                          *)
(***************************************************************************)
\* A journey is charged.
LEMMA CreateCommissionKeeps ==
    ASSUME WalletInv, NEW c \in Calls, NEW d \in Commissions, NEW j \in Journeys,
           NEW amount \in Amounts, CreateCommission(c, d, j, amount)
    PROVE  WalletInv'
<1> DEFINE u == DriverOf[j]
           book == PrepareAndCreateNewBalance(Book, u, d, -amount, "creation")
           deltas == {-amount}
           cols == [owner |-> u, peer |-> j, amount |-> amount, status |-> "made"]
           users == {u}
<1>1. /\ Fresh(d) /\ Read(c, users, book, d, FALSE, cols)
      /\ ~\E m \in Commissions : Live(m) /\ doc[m].peer = j
      /\ edited' = edited /\ ledger' = ledger /\ doc' = doc /\ moved' = moved
  BY DEF CreateCommission
<1>2. /\ d \in Documents \ Transfers /\ d \notin Deposits \cup Payments
      /\ u \in Users /\ amount \in Int /\ -amount \in Int
  BY WalletAssumption DEF Documents
<1>3. ~Exists(doc, d)
  BY <1>1, <1>2, FreshDoc
<1>4. /\ cols["owner"] = u /\ cols["peer"] = j /\ cols["amount"] = amount
      /\ cols["status"] = "made" /\ DOMAIN cols = {"owner", "peer", "amount", "status"}
  OBVIOUS
<1> HIDE DEF cols, u
<1>5. ColsTyped(cols) /\ {"owner", "amount", "status"} \subseteq DOMAIN cols
  BY <1>2, <1>4 DEF ColsTyped, AnyAmount, Statuses
<1>6. deltas \subseteq Int /\ AddsAtMostOne(book, ledger, u, d, deltas)
  BY <1>2, FirstEntry
<1>7. /\ doc' \in [Documents -> DocType] /\ Settles(doc, doc')
      /\ \A x \in Documents : Exists(doc', x) => Exists(doc, x)
      /\ edited \subseteq Deposits \cup Payments
  BY <1>1, DocsUnread
<1>8. /\ NamesJourney(cols)
      /\ ~\E m \in Commissions : Live(m) /\ doc[m].peer = cols["peer"]
  BY <1>1, <1>4 DEF u, NamesJourney
<1>9. users \in SUBSET Users /\ u \in users /\ cols["owner"] \in users
  BY <1>2, <1>4
<1> HIDE DEF book, deltas, users
<1> QED BY <1>1, <1>2, <1>3, <1>5, <1>6, <1>7, <1>8, <1>9, ReadOne

\* A commission gets another amount, another journey, both or neither.
LEMMA UpdateCommissionKeeps ==
    ASSUME WalletInv, NEW c \in Calls, NEW d \in Commissions,
           NEW amount \in NewAmounts \cup {None}, NEW j \in Journeys \cup {None},
           UpdateCommission(c, d, amount, j)
    PROVE  WalletInv'
<1> DEFINE u == doc[d].owner
           driver == IF j = None THEN u ELSE DriverOf[j]
           taken == -(IF amount = None THEN doc[d].amount ELSE amount)
           back == PrepareAndCreateNewBalance(Book, u, d, doc[d].amount, "reversal")
           book == PrepareAndCreateNewBalance(back, driver, d, taken, "adjustment")
           deltas == {doc[d].amount}
           asked == [amount |-> amount, peer |-> j, owner |-> IF j = None THEN None ELSE driver]
           cols == Given(asked)
           users == {u, driver}
<1>1. /\ Live(d) /\ Read(c, users, book, d, TRUE, cols)
      /\ edited' = edited /\ ledger' = ledger /\ doc' = doc /\ moved' = moved
  BY DEF UpdateCommission
<1>2. d \in Documents \ Transfers /\ d \notin Deposits \cup Payments
  BY WalletAssumption DEF Documents
<1>3. Exists(doc, d) /\ u \in Users /\ doc[d].amount \in Int
  BY <1>1, <1>2, LiveDoc
<1>4. driver \in Users /\ (j # None => j \in Journeys /\ driver = DriverOf[j] /\ driver # None)
  BY <1>3, WalletAssumption
<1>5. taken \in Int /\ (amount # None => amount \in NewAmounts)
  BY <1>3, WalletAssumption
<1>c. /\ DOMAIN cols = {f \in {"amount", "peer", "owner"} : asked[f] # None}
      /\ \A f \in DOMAIN cols : cols[f] = asked[f]
  <2>1. DOMAIN asked = {"amount", "peer", "owner"}
    OBVIOUS
  <2> HIDE DEF asked
  <2> QED BY <2>1, GivenColumns
<1>a. asked["amount"] = amount /\ asked["peer"] = j
      /\ asked["owner"] = IF j = None THEN None ELSE driver
  OBVIOUS
<1>7. AddsAtMostOne(back, ledger, u, d, deltas) /\ deltas \subseteq Int
  BY <1>2, <1>3, FirstEntry
<1> HIDE DEF cols, asked, driver, taken, back, deltas
<1>8. AddsAtMostOne(book, ledger, u, d, deltas)
  BY <1>2, <1>3, <1>4, <1>5, <1>7, SecondEntry
<1>9. /\ "amount" \in DOMAIN cols => cols["amount"] \in NewAmounts
      /\ "peer" \in DOMAIN cols => j # None /\ cols["peer"] = j
      /\ "owner" \in DOMAIN cols => j # None /\ cols["owner"] = driver
      /\ j # None => "owner" \in DOMAIN cols /\ "peer" \in DOMAIN cols
  BY <1>4, <1>5, <1>c, <1>a
<1>10. ColsTyped(cols)
  BY <1>4, <1>9, <1>c DEF ColsTyped, AnyAmount
<1>11. Amends(cols, TRUE)
  BY <1>4, <1>9, <1>c DEF Amends, NamesJourney
<1>12. /\ doc' \in [Documents -> DocType] /\ Settles(doc, doc')
       /\ \A x \in Documents : Exists(doc', x) => Exists(doc, x)
       /\ edited \subseteq Deposits \cup Payments
  BY <1>1, DocsUnread
<1>13. users \in SUBSET Users /\ u \in users
  BY <1>3, <1>4
<1> HIDE DEF u, book, users
<1> QED BY <1>1, <1>2, <1>3, <1>7, <1>8, <1>10, <1>11, <1>12, <1>13, ReadOne

\* A commission is deleted.
LEMMA DeleteCommissionKeeps ==
    ASSUME WalletInv, NEW c \in Calls, NEW d \in Commissions, DeleteCommission(c, d)
    PROVE  WalletInv'
<1> DEFINE u == doc[d].owner
           book == PrepareAndCreateNewBalance(Book, u, d, doc[d].amount, "reversal")
           deltas == {doc[d].amount}
           cols == [deleted |-> TRUE]
           users == {u}
<1>1. /\ Live(d) /\ Read(c, users, book, d, TRUE, cols)
      /\ edited' = edited /\ ledger' = ledger /\ doc' = doc /\ moved' = moved
  BY DEF DeleteCommission
<1>2. /\ d \in Documents \ Transfers /\ d \notin Deposits \cup Payments
  BY WalletAssumption DEF Documents
<1>3. Exists(doc, d) /\ u \in Users /\ doc[d].amount \in Int
  BY <1>1, <1>2, LiveDoc
<1>4. ColsTyped(cols) /\ DOMAIN cols = {"deleted"}
  BY DEF ColsTyped
<1>5. deltas \subseteq Int /\ AddsAtMostOne(book, ledger, u, d, deltas)
  BY <1>2, <1>3, FirstEntry
<1>6. /\ doc' \in [Documents -> DocType] /\ Settles(doc, doc')
      /\ \A x \in Documents : Exists(doc', x) => Exists(doc, x)
      /\ edited \subseteq Deposits \cup Payments
  BY <1>1, DocsUnread
<1>7. users \in SUBSET Users /\ u \in users /\ Amends(cols, TRUE)
  BY <1>3, <1>4 DEF Amends
<1> HIDE DEF u, book, deltas, cols, users
<1> QED BY <1>1, <1>2, <1>3, <1>4, <1>5, <1>6, <1>7, ReadOne

\* A plan is taken.
LEMMA CreateUserSubscriptionKeeps ==
    ASSUME WalletInv, NEW c \in Calls, NEW d \in Subscriptions, NEW u \in Users,
           NEW free \in BOOLEAN, NEW amount \in Amounts, CreateUserSubscription(c, d, u, free, amount)
    PROVE  WalletInv'
<1> DEFINE delta == IF free THEN amount ELSE -amount
           book == PrepareAndCreateNewBalance(Book, u, d, delta, "creation")
           deltas == {delta}
           cols == [owner |-> u, peer |-> free, amount |-> amount, status |-> "made"]
           users == {u}
<1>1. /\ Fresh(d) /\ Read(c, users, book, d, FALSE, cols)
      /\ edited' = edited /\ ledger' = ledger /\ doc' = doc /\ moved' = moved
  BY DEF CreateUserSubscription
<1>2. /\ d \in Documents \ Transfers /\ d \notin Deposits \cup Payments /\ d \notin Commissions
      /\ amount \in Int /\ delta \in Int
  BY WalletAssumption DEF Documents
<1>3. ~Exists(doc, d)
  BY <1>1, <1>2, FreshDoc
<1>4. /\ cols["owner"] = u /\ cols["peer"] = free /\ cols["amount"] = amount
      /\ cols["status"] = "made" /\ DOMAIN cols = {"owner", "peer", "amount", "status"}
  OBVIOUS
<1> HIDE DEF cols, delta
<1>5. ColsTyped(cols) /\ {"owner", "amount", "status"} \subseteq DOMAIN cols
  BY <1>2, <1>4 DEF ColsTyped, AnyAmount, Statuses
<1>6. deltas \subseteq Int /\ AddsAtMostOne(book, ledger, u, d, deltas)
  BY <1>2, FirstEntry
<1>7. /\ doc' \in [Documents -> DocType] /\ Settles(doc, doc')
      /\ \A x \in Documents : Exists(doc', x) => Exists(doc, x)
      /\ edited \subseteq Deposits \cup Payments
  BY <1>1, DocsUnread
<1>8. users \in SUBSET Users /\ u \in users /\ cols["owner"] \in users
  BY <1>4
<1> HIDE DEF book, deltas, users
<1> QED BY <1>1, <1>2, <1>3, <1>5, <1>6, <1>7, <1>8, ReadOne

-----------------------------------------------------------------------------
(***************************************************************************)
(* Transfers.                                                              *)
(***************************************************************************)
\* What createTransfer decides: both rows, or nothing at all.
LEMMA DecidesTransfer ==
    ASSUME NEW rows \in Seq(RowType), NEW docs, NEW over, NEW edit,
           NEW d \in Transfers, ~Exists(docs, d), ~Written(rows, d),
           NEW from \in Users, NEW to \in Users, NEW amount \in Amounts,
           NEW ok \in BOOLEAN, NEW news, NEW mv,
           LET first == NewRow(rows, from, d, -amount)
               second == NewRow(Append(rows, first), to, d, amount)
           IN  (news = <<first>> /\ ~ok) \/ news = <<first, second>>
    PROVE  Decides(CallOf({from, to}, ok, d, FALSE, news,
                          [owner |-> from, peer |-> to, amount |-> amount, status |-> "made"]),
                   rows, docs, over, edit, mv)
<1> DEFINE neg == -amount
           first == NewRow(rows, from, d, neg)
           one == Append(rows, first)
           second == NewRow(one, to, d, amount)
           cols == [owner |-> from, peer |-> to, amount |-> amount, status |-> "made"]
           users == {from, to}
           k == CallOf(users, ok, d, FALSE, news, cols)
<1>1. /\ d \in Documents /\ amount \in Int /\ neg \in Int /\ neg + amount = 0
      /\ d \notin Deposits \cup Payments /\ d \notin Commissions
  BY WalletAssumption DEF Documents
<1>2. (news = <<first>> /\ ~ok) \/ news = <<first, second>>
  OBVIOUS
<1> HIDE DEF neg
<1>3. /\ first \in RowType /\ first.of = d /\ first.user = from /\ first.delta = neg
      /\ first.net = NetOf(rows, from) + neg
  BY <1>1, NewRowType DEF NewRow
<1> HIDE DEF first
<1>4. one \in Seq(RowType)
  BY <1>3
<1>5. /\ second \in RowType /\ second.of = d /\ second.user = to /\ second.delta = amount
      /\ second.net = NetOf(one, to) + amount
  <2> HIDE DEF one
  <2> QED BY <1>1, <1>4, NewRowType DEF NewRow
<1> HIDE DEF second
<1>6. /\ k.users = users /\ k.ok = ok /\ k.of = d /\ k.rows = news /\ k.cols = cols
      /\ k.live = FALSE
  BY DEF CallOf
<1>7. /\ cols["owner"] = from /\ cols["peer"] = to /\ cols["amount"] = amount
      /\ cols["status"] = "made" /\ DOMAIN cols = {"owner", "peer", "amount", "status"}
  OBVIOUS
<1> HIDE DEF k, cols
<1>8. ColsTyped(cols)
  BY <1>7 DEF ColsTyped, AnyAmount, Statuses
<1>9. /\ news \in Seq(RowType) /\ Len(news) \in 0..2
      /\ \A i \in DOMAIN news : news[i].of = d /\ news[i].user \in users
      /\ 1 \in DOMAIN news /\ news[1] = first
      /\ Len(news) = 2 => news[2] = second
      /\ ok => Len(news) = 2
  <2>1. CASE news = <<first>> /\ ~ok
    BY <2>1, <1>3
  <2>2. CASE news = <<first, second>>
    <3>1. /\ news \in Seq(RowType) /\ Len(news) = 2 /\ DOMAIN news = {1, 2}
          /\ news[1] = first /\ news[2] = second
      BY <2>2, <1>3, <1>5
    <3> QED BY <3>1, <1>3, <1>5
  <2> QED BY <2>1, <2>2, <1>2
<1>10. NewsTyped(k)
  BY <1>1, <1>6, <1>8, <1>9 DEF NewsTyped
<1>11. Creates(k, rows, docs)
  BY <1>1, <1>6, <1>7 DEF Creates, Makes
<1>13. Continues(k, rows, over)
  BY <1>3, <1>5, <1>6, <1>9 DEF Continues
<1>14. AddsOne(k, rows, over) /\ Credits(k, rows, edit) /\ Charges(k, docs, over, mv)
  BY <1>1, <1>6 DEF AddsOne, Credits, Charges
<1>15. AddsTwo(k)
  BY <1>1, <1>3, <1>5, <1>6, <1>9 DEF AddsTwo
<1> QED BY <1>10, <1>11, <1>13, <1>14, <1>15 DEF Decides, k, cols

\* A transfer is decided and noted.
LEMMA CreateTransferKeeps ==
    ASSUME WalletInv, NEW c \in Calls, NEW d \in Transfers, NEW from \in Users, NEW to \in Users,
           NEW amount \in Amounts, CreateTransfer(c, d, from, to, amount)
    PROVE  WalletInv'
<1> DEFINE users == {from, to}
           book == PrepareAndCreateNewBalance(
                     PrepareAndCreateNewBalance(Book, from, d, -amount, "creation"),
                     to, d, amount, "creation")
           cols == [owner |-> from, peer |-> to, amount |-> amount, status |-> "made"]
           first == NewRow(ledger, from, d, -amount)
           second == NewRow(Append(ledger, first), to, d, amount)
           news == News(book, ledger)
<1>1. /\ Fresh(d) /\ Read(c, users, book, d, FALSE, cols)
      /\ edited' = edited /\ ledger' = ledger /\ doc' = doc /\ moved' = moved
  BY DEF CreateTransfer
<1>2. d \in Documents /\ amount \in Nat \ {0}
  BY WalletAssumption DEF Documents
<1>3. ~Exists(doc, d) /\ d \notin Pending /\ ~Written(ledger, d) /\ ledger \in Seq(RowType)
  BY <1>1, <1>2, FreshDoc DEF WalletInv, TypeOK
<1>4. /\ book.ok \in BOOLEAN
      /\ \/ book.rows = ledger \o <<first>> /\ ~book.ok
         \/ book.rows = ledger \o <<first, second>>
  BY <1>2, <1>3, TransferAddsTwo DEF Book
<1>5. <<first>> \in Seq(RowType) /\ <<first, second>> \in Seq(RowType)
  <2>1. -amount \in Int /\ amount \in Int
    BY <1>2
  <2>2. first \in RowType
    BY <1>2, <1>3, <2>1, NewRowType
  <2> HIDE DEF first
  <2>3. Append(ledger, first) \in Seq(RowType)
    BY <1>3, <2>2
  <2>4. second \in RowType
    BY <1>2, <2>1, <2>3, NewRowType
  <2> QED BY <2>2, <2>4
<1> HIDE DEF book
<1>6. (news = <<first>> /\ ~book.ok) \/ news = <<first, second>>
  <2> HIDE DEF first, second
  <2> QED BY <1>3, <1>4, <1>5, NewsOfConcat
<1> HIDE DEF news
<1>7. Decides(CallOf(users, book.ok, d, FALSE, news, cols), ledger, doc, overlapped', edited', moved')
  BY <1>3, <1>4, <1>6, DecidesTransfer
<1>8. /\ doc' \in [Documents -> DocType] /\ Settles(doc, doc')
      /\ \A x \in Documents : Exists(doc', x) => Exists(doc, x)
      /\ edited \subseteq Deposits \cup Payments
  BY <1>1, DocsUnread
<1> HIDE DEF users, cols, first, second
<1> QED BY <1>1, <1>3, <1>7, <1>8, ReadKeeps DEF news

-----------------------------------------------------------------------------
(***************************************************************************)
(* Statements that read nothing of the ledger.                             *)
(***************************************************************************)
\* A statement changes its own document, which it leaves well typed.
LEMMA StatementWritten ==
    ASSUME WalletInv, NEW d \in Documents, NEW cols, ColsTyped(cols), Write(d, cols)
    PROVE  /\ doc' \in [Documents -> DocType]
           /\ \A x \in Documents : x # d => doc'[x] = doc[x]
           /\ doc'[d].owner = IF "owner" \in DOMAIN cols THEN cols["owner"] ELSE doc[d].owner
           /\ doc'[d].amount = IF "amount" \in DOMAIN cols THEN cols["amount"] ELSE doc[d].amount
           /\ doc'[d].status = IF "status" \in DOMAIN cols THEN cols["status"] ELSE doc[d].status
<1> DEFINE new == Updated(doc[d], cols)
<1>1. doc' = [doc EXCEPT ![d] = new] /\ doc \in [Documents -> DocType]
  BY DEF Write, WalletInv, TypeOK
<1>2. /\ new \in DocType
      /\ new.owner = IF "owner" \in DOMAIN cols THEN cols["owner"] ELSE doc[d].owner
      /\ new.amount = IF "amount" \in DOMAIN cols THEN cols["amount"] ELSE doc[d].amount
      /\ new.status = IF "status" \in DOMAIN cols THEN cols["status"] ELSE doc[d].status
  BY <1>1, UpdatedRow DEF Holds
<1> HIDE DEF new
<1> QED BY <1>1, <1>2

\* A deposit is asked for.
LEMMA AskedKeeps ==
    ASSUME WalletInv, NEW d \in Deposits \cup Payments, NEW cols, ColsTyped(cols), Fresh(d),
           Write(d, cols), {"owner", "amount", "status"} \subseteq DOMAIN cols,
           cols["status"] # "approved"
    PROVE  WalletInv'
<1>1. d \in Documents
  BY DEF Documents
<1>2. ~Exists(doc, d) /\ d \notin Pending
  BY <1>1, FreshDoc
<1>3. /\ doc' \in [Documents -> DocType]
      /\ \A x \in Documents : x # d => doc'[x] = doc[x]
      /\ doc'[d].owner = cols["owner"] /\ doc'[d].amount = cols["amount"]
      /\ doc'[d].status = cols["status"]
  BY <1>1, StatementWritten
<1>4. Settles(doc, doc')
  BY <1>2, <1>3 DEF Settles, ColsTyped
<1> QED BY <1>1, <1>2, <1>3, <1>4, WriteKeeps

\* A document is withdrawn or given another amount.
LEMMA ChangedKeeps ==
    ASSUME WalletInv, NEW d \in Documents \ Commissions, NEW cols, ColsTyped(cols), Live(d),
           Write(d, cols), "owner" \notin DOMAIN cols,
           "status" \in DOMAIN cols => cols["status"] = "removed"
    PROVE  WalletInv'
<1>1. Exists(doc, d) /\ doc[d].owner \in Users /\ doc[d].amount \in AnyAmount
  BY LiveDoc
<1>2. /\ doc' \in [Documents -> DocType]
      /\ \A x \in Documents : x # d => doc'[x] = doc[x]
      /\ doc'[d].owner = doc[d].owner
      /\ doc'[d].amount = IF "amount" \in DOMAIN cols THEN cols["amount"] ELSE doc[d].amount
      /\ doc'[d].status = IF "status" \in DOMAIN cols THEN "removed" ELSE doc[d].status
  BY StatementWritten
<1>3. Settles(doc, doc')
  BY <1>1, <1>2 DEF Settles, ColsTyped, Exists
<1> QED BY <1>1, <1>2, <1>3, WriteKeeps

\* None of the single statements breaks the invariant.
LEMMA StatementsKeep ==
    ASSUME WalletInv,
           \/ \E u \in Users, a \in Amounts :
                \/ \E d \in Deposits : CreateUserDeposit(d, u, a)
                \/ \E d \in Payments : InitiateSantimPayPayment(d, u, a)
           \/ \E d \in Refunds : DeleteRefund(d)
           \/ \E d \in Transfers : DeleteTransfer(d) \/ \E a \in NewAmounts : UpdateTransfer(d, a)
           \/ \E d \in Subscriptions : DeleteUserSubscription(d)
    PROVE  WalletInv'
<1>1. ASSUME NEW u \in Users, NEW a \in Amounts, NEW d \in Deposits, CreateUserDeposit(d, u, a)
      PROVE  WalletInv'
  <2> DEFINE cols == [owner |-> u, amount |-> a, status |-> "requested"]
  <2>1. Fresh(d) /\ Write(d, cols)
    BY <1>1 DEF CreateUserDeposit
  <2>2. /\ ColsTyped(cols) /\ {"owner", "amount", "status"} \subseteq DOMAIN cols
        /\ cols["status"] # "approved"
    BY DEF ColsTyped, AnyAmount, Statuses
  <2> HIDE DEF cols
  <2> QED BY <2>1, <2>2, AskedKeeps
<1>2. ASSUME NEW u \in Users, NEW a \in Amounts, NEW d \in Payments,
             InitiateSantimPayPayment(d, u, a)
      PROVE  WalletInv'
  <2> DEFINE cols == [owner |-> u, amount |-> a, status |-> "PENDING", peer |-> FALSE]
  <2>1. Fresh(d) /\ Write(d, cols)
    BY <1>2 DEF InitiateSantimPayPayment
  <2>2. /\ cols["owner"] = u /\ cols["peer"] = FALSE /\ cols["amount"] = a
        /\ cols["status"] = "PENDING" /\ DOMAIN cols = {"owner", "peer", "amount", "status"}
    OBVIOUS
  <2> HIDE DEF cols
  <2>3. ColsTyped(cols)
    BY <2>2 DEF ColsTyped, AnyAmount, Statuses
  <2> QED BY <2>1, <2>2, <2>3, AskedKeeps
<1>3. ASSUME NEW d \in Refunds \cup Transfers, Live(d), Write(d, [status |-> "removed"])
      PROVE  WalletInv'
  <2> DEFINE cols == [status |-> "removed"]
  <2>1. d \in Documents \ Commissions
    BY WalletAssumption DEF Documents
  <2>2. ColsTyped(cols) /\ "owner" \notin DOMAIN cols /\ cols["status"] = "removed"
    BY DEF ColsTyped, Statuses
  <2>3. Write(d, cols)
    BY <1>3
  <2> HIDE DEF cols
  <2> QED BY <1>3, <2>1, <2>2, <2>3, ChangedKeeps
<1>4. ASSUME NEW d \in Transfers, NEW a \in NewAmounts, UpdateTransfer(d, a)
      PROVE  WalletInv'
  <2> DEFINE cols == [amount |-> a]
  <2>1. d \in Documents \ Commissions
    BY WalletAssumption DEF Documents
  <2>2. ColsTyped(cols) /\ DOMAIN cols = {"amount"}
    BY DEF ColsTyped, AnyAmount
  <2>3. Write(d, cols) /\ Live(d)
    BY <1>4 DEF UpdateTransfer
  <2> HIDE DEF cols
  <2> QED BY <2>1, <2>2, <2>3, ChangedKeeps
<1>5. ASSUME NEW d \in Subscriptions, DeleteUserSubscription(d)
      PROVE  WalletInv'
  <2> DEFINE cols == [deleted |-> TRUE]
  <2>1. d \in Documents \ Commissions
    BY WalletAssumption DEF Documents
  <2>2. ColsTyped(cols) /\ DOMAIN cols = {"deleted"}
    BY DEF ColsTyped
  <2>3. Write(d, cols) /\ Live(d)
    BY <1>5 DEF DeleteUserSubscription
  <2> HIDE DEF cols
  <2> QED BY <2>1, <2>2, <2>3, ChangedKeeps
<1> QED BY <1>1, <1>2, <1>3, <1>4, <1>5 DEF DeleteRefund, DeleteTransfer

-----------------------------------------------------------------------------
(***************************************************************************)
(* The theorems.                                                           *)
(***************************************************************************)
\* The invariant holds of the empty ledger.
LEMMA InitWallet == Init => WalletInv
<1> SUFFICES ASSUME Init PROVE WalletInv
  OBVIOUS
<1>1. /\ ledger = << >> /\ overlapped = {} /\ edited = {} /\ moved = {} /\ begun = 0
      /\ doc \in [Documents -> DocType]
      /\ \A d \in Documents : doc[d].status = "none"
  BY DEF Init, NoDoc, DocType, Statuses
<1>2. /\ DOMAIN calls = Calls
      /\ \A c \in Calls : /\ calls[c].busy = FALSE /\ calls[c].ok = TRUE
                          /\ calls[c].users = {} /\ calls[c].rows = << >>
  BY DEF Init, Idle
<1>3. ledger \in Seq(RowType) /\ DOMAIN ledger = {} /\ << >> \in Seq(RowType)
  BY <1>1
<1>4. TypeOK
  <2>1. /\ begun \in 0..MaxCalls /\ overlapped \subseteq Users
        /\ edited \subseteq Deposits \cup Payments /\ moved \subseteq Commissions
    BY <1>1, WalletAssumption
  <2>2. \A c \in Calls :
           /\ calls[c].busy \in BOOLEAN /\ calls[c].ok \in BOOLEAN
           /\ calls[c].users \subseteq Users
           /\ calls[c].rows \in Seq(RowType)
           /\ calls[c].busy => calls[c].of \in Documents
    BY <1>2, <1>3
  <2> QED BY <1>1, <1>2, <1>3, <2>1, <2>2 DEF TypeOK
<1>5. Decided /\ Noted
  BY <1>2 DEF Decided, Noted
<1>6. DocsOwned /\ RowsOwned
  BY <1>1, <1>3 DEF DocsOwned, DocOwned, RowsOwned, Exists, Written
<1>7. RunningTotal /\ TransferIsWhole
  BY <1>1, <1>3 DEF RunningTotal, TransferIsWhole, RowsOf, Documents
<1>8. ApprovedIsCredited /\ ChargedOnce
  BY <1>1 DEF ApprovedIsCredited, ChargedOnce, Live, Documents
<1> QED BY <1>4, <1>5, <1>6, <1>7, <1>8 DEF WalletInv

\* Every step keeps the invariant.
LEMMA NextWallet == WalletInv /\ [Next]_vars => WalletInv'
<1> SUFFICES ASSUME WalletInv, [Next]_vars PROVE WalletInv'
  OBVIOUS
<1>1. CASE \E c \in Calls : Commit(c) \/ Crash(c)
  BY <1>1, CommitKeeps, CrashKeeps
<1>2. CASE \/ \E u \in Users, a \in Amounts :
                \/ \E d \in Deposits : CreateUserDeposit(d, u, a)
                \/ \E d \in Payments : InitiateSantimPayPayment(d, u, a)
           \/ \E d \in Refunds : DeleteRefund(d)
           \/ \E d \in Transfers : DeleteTransfer(d) \/ \E a \in NewAmounts : UpdateTransfer(d, a)
           \/ \E d \in Subscriptions : DeleteUserSubscription(d)
  BY <1>2, StatementsKeep
<1>3. CASE \E u \in Users, a \in Amounts :
             \/ \E c \in Calls, d \in Refunds : CreateUserRefund(c, d, u, a)
             \/ \E c \in Calls, d \in Transfers, v \in Users : CreateTransfer(c, d, u, v, a)
             \/ \E c \in Calls, d \in Subscriptions, free \in BOOLEAN :
                  CreateUserSubscription(c, d, u, free, a)
  BY <1>3, CreateUserRefundKeeps, CreateTransferKeeps, CreateUserSubscriptionKeeps
<1>4. CASE \E c \in Calls, d \in Deposits \cup Payments :
             \/ \E s \in Outcomes \cup {None}, a \in NewAmounts \cup {None}, u \in Users \cup {None} :
                  UpdateUserDeposit(c, d, s, a, u)
             \/ DeleteUserDeposit(c, d)
  BY <1>4, UpdateUserDepositKeeps, DeleteUserDepositKeeps
<1>5. CASE \E c \in Calls, d \in Payments, s \in Outcomes \cap {"COMPLETED", "FAILED", "PENDING"} :
             SantimPayWebhook(c, d, s)
  BY <1>5, SantimPayWebhookKeeps
<1>6. CASE \E c \in Calls, d \in Refunds, s \in {"requested", "approved", None},
              a \in NewAmounts \cup {None}, u \in Users \cup {None} :
             UpdateUserRefund(c, d, s, a, u)
  BY <1>6, UpdateUserRefundKeeps
<1>7. CASE \E c \in Calls, d \in Commissions :
             \/ \E j \in Journeys, a \in Amounts : CreateCommission(c, d, j, a)
             \/ \E a \in NewAmounts \cup {None}, j \in Journeys \cup {None} :
                  UpdateCommission(c, d, a, j)
             \/ DeleteCommission(c, d)
  BY <1>7, CreateCommissionKeeps, UpdateCommissionKeeps, DeleteCommissionKeeps
<1>8. CASE UNCHANGED vars
  BY <1>8 DEF vars, WalletInv, TypeOK, Decided, Noted, DocsOwned, DocOwned, RowsOwned, RowOwned,
              RunningTotal, TransferIsWhole, ApprovedIsCredited, ChargedOnce, RowsOf, Live
<1> QED BY <1>1, <1>2, <1>3, <1>4, <1>5, <1>6, <1>7, <1>8 DEF Next

\* The inductive invariant of the ledger: what every call under way will
\* write is still right when it commits.
THEOREM WalletInvariant == Spec => []WalletInv
BY InitWallet, NextWallet, PTL DEF Spec

\* Every variable keeps its type.
THEOREM WalletTypeCorrect == Spec => []TypeOK
<1>1. WalletInv => TypeOK
  BY DEF WalletInv
<1> QED BY <1>1, WalletInvariant, PTL

\* Each row is the balance before it plus what its document moved, while no
\* two calls for the user overlap (createUserBalance).
THEOREM LedgerRunsOn == Spec => []RunningTotal
<1>1. WalletInv => RunningTotal
  BY DEF WalletInv
<1> QED BY <1>1, WalletInvariant, PTL

\* A transfer has no row or two that sum to nothing (createTransfer), for any
\* users, amounts, calls under way and crashes.
THEOREM TransferNeverHalf == Spec => []TransferIsWhole
<1>1. WalletInv => TransferIsWhole
  BY DEF WalletInv
<1> QED BY <1>1, WalletInvariant, PTL

\* A deposit that counts as approved was credited, unless its amount was
\* edited without approving it (updateUserDepositByUniqueId).
THEOREM ApprovalCredits == Spec => []ApprovedIsCredited
<1>1. WalletInv => ApprovedIsCredited
  BY DEF WalletInv
<1> QED BY <1>1, WalletInvariant, PTL

\* Two live commissions of a journey are there because an edit put one of them
\* there, or because calls for its driver overlapped (createCommission,
\* updateCommission).
THEOREM JourneyChargedOnce == Spec => []ChargedOnce
<1>1. WalletInv => ChargedOnce
  BY DEF WalletInv
<1> QED BY <1>1, WalletInvariant, PTL

\* One row of a document, two of a transfer, while the calls for the user do
\* not overlap (createUserBalance).
THEOREM DocumentWrittenOnce == Spec => []WrittenOnce
<1>1. ASSUME WalletInv PROVE WrittenOnce
  <2> SUFFICES ASSUME NEW d \in Documents, NEW i \in RowsOf(d), ledger[i].user \notin overlapped
               PROVE  Cardinality(RowsOf(d)) <= IF d \in Transfers THEN 2 ELSE 1
    BY DEF WrittenOnce
  <2>1. i \in DOMAIN ledger /\ ledger[i].of = d
    BY DEF RowsOf
  <2>2. CASE d \notin Transfers
    <3>1. \A j \in RowsOf(d) : j = i
      BY <1>1, <2>1, <2>2 DEF WalletInv, RowsOwned, RowOwned, RowsOf
    <3>2. RowsOf(d) = {i}
      BY <3>1
    <3>3. Cardinality(RowsOf(d)) = 1
      BY <3>2, FS_Singleton
    <3> QED BY <2>2, <3>3
  <2>3. CASE d \in Transfers
    <3>1. PICK m, n \in RowsOf(d) : RowsOf(d) = {m, n} /\ m # n
      BY <1>1, <2>3 DEF WalletInv, TransferIsWhole
    <3>2. IsFiniteSet({m}) /\ Cardinality({m}) = 1
      BY FS_Singleton
    <3>3. Cardinality({m} \cup {n}) = 2
      <4> DEFINE S == {m}
      <4>1. IsFiniteSet(S) /\ Cardinality(S) = 1 /\ n \notin S
        BY <3>1, <3>2
      <4> HIDE DEF S
      <4>2. Cardinality(S \cup {n}) = Cardinality(S) + 1
        BY <4>1, FS_AddElement
      <4> QED BY <4>1, <4>2 DEF S
    <3>4. {m, n} = {m} \cup {n}
      OBVIOUS
    <3> QED BY <2>3, <3>1, <3>3, <3>4
  <2> QED BY <2>2, <2>3
<1> QED BY <1>1, WalletInvariant, PTL

=============================================================================
