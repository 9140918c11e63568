-------------------------- MODULE DelinquencyProofs ---------------------------
(***************************************************************************)
(* What Delinquency keeps for any companies, users, cases, bans and bounds *)
(* and, when one request is served at a time, what it keeps of bans and of *)
(* the cases behind them.                                                  *)
(***************************************************************************)
EXTENDS Delinquency, TLAPS

-----------------------------------------------------------------------------
\* The part of TypeOK about the tables.
Typed ==
    /\ approval \in [Companies -> Approvals]
    /\ audit \in [Companies -> [old : Approvals \cup {None}, new : Approvals]]
    /\ cases \in [Cases -> CaseType]
    /\ responses \in [Cases -> 0 .. MaxResponses]
    /\ rulings \in [Cases -> Seq(RulingType)]
    /\ \A c \in Cases : Len(rulings[c]) <= MaxRulings
    /\ bans \in [Bans -> BanType]

\* A recorded case stays recorded and its subject's.
Kept ==
    \A c \in Cases : cases[c] # Blank =>
        cases'[c] # Blank /\ cases'[c].subject = cases[c].subject

OneClerk == \A a, d \in Clerks : a = d

\* A request sees what is there.
Fresh == \A a \in Clerks : open[a] # Closed => open[a] = Snapshot

IInv == TypeOK /\ Fresh /\ OneLiveBan

-----------------------------------------------------------------------------
\* Cases and bans are typed.
LEMMA BlankTyped == Blank \in CaseType /\ Unused \in BanType
BY DEF CaseType, BanType

LEMMA CaseFields ==
    ASSUME NEW v \in CaseType, v.subject \in Subjects
    PROVE  /\ v # Blank
           /\ v \in [subject : Subjects, type : Types, points : Worths, at : Instants,
                     skip : BOOLEAN, deleted : BOOLEAN]
BY DelinquencyAssumption DEF CaseType, Blank

LEMMA BanFields ==
    ASSUME NEW v \in BanType, v.subject \in Subjects
    PROVE  v \in [subject : Subjects, active : BOOLEAN, by : {"points", "report", "admin"},
                  days : Nat, at : Instants, ends : Nat, moved : BOOLEAN, links : Links]
BY DelinquencyAssumption DEF BanType, Unused

LEMMA PointsTyped ==
    ASSUME NEW v \in CaseType
    PROVE  v.points \in Worths \cup {0}
BY DEF CaseType, Blank

LEMMA LinksOf ==
    ASSUME NEW S \in SUBSET Cases, NEW f \in [S -> Worths \cup {0}]
    PROVE  f \in Links
BY Zenon DEF Links

LEMMA LinksTyped ==
    /\ NoLinks \in Links
    /\ \A c \in Cases : [d \in {c} |-> 0] \in Links
<1>1. NoLinks \in [{} -> Worths \cup {0}]
  BY DEF NoLinks
<1>2. ASSUME NEW c \in Cases
      PROVE  [d \in {c} |-> 0] \in [{c} -> Worths \cup {0}]
  OBVIOUS
<1>3. {} \in SUBSET Cases /\ \A c \in Cases : {c} \in SUBSET Cases
  OBVIOUS
<1> QED BY <1>1, <1>2, <1>3, LinksOf

LEMMA CountedTyped ==
    ASSUME NEW cs \in [Cases -> CaseType], NEW s
    PROVE  Noted(cs, s) \in Links
<1>1. Counted(cs, s) \subseteq Cases
  BY DEF Counted
<1>2. \A c \in Counted(cs, s) : cs[c].points \in Worths \cup {0}
  BY <1>1, PointsTyped
<1>3. [c \in Counted(cs, s) |-> cs[c].points] \in [Counted(cs, s) -> Worths \cup {0}]
  BY <1>2
<1> QED BY <1>1, <1>3, LinksOf DEF Noted

\* A rule that is reached gives days.
LEMMA LeastOfFour ==
    ASSUME NEW S, S \subseteq 1 .. 4, S # {}
    PROVE  \E x \in S : \A y \in S : x <= y
<1>1. \A y \in S : y \in {1, 2, 3, 4}
  OBVIOUS
<1>2. CASE 1 \in S
  BY <1>1, <1>2
<1>3. CASE 1 \notin S /\ 2 \in S
  BY <1>1, <1>3
<1>4. CASE 1 \notin S /\ 2 \notin S /\ 3 \in S
  BY <1>1, <1>4
<1>5. CASE 1 \notin S /\ 2 \notin S /\ 3 \notin S
  <2>1. 4 \in S
    BY <1>1, <1>5
  <2> QED BY <1>1, <1>5, <2>1
<1> QED BY <1>2, <1>3, <1>4, <1>5

LEMMA DaysTyped ==
    ASSUME NEW rules \in {CompanyBanRules, ReportBanRules}, NEW total
    PROVE  DaysOf(rules, total) \in Nat
<1> DEFINE reached == {i \in DOMAIN rules : total >= rules[i].threshold}
<1>1. DOMAIN rules = 1 .. 4 /\ \A i \in 1 .. 4 : rules[i].duration \in Nat
  <2>1. CASE rules = CompanyBanRules
    BY <2>1 DEF CompanyBanRules
  <2>2. CASE rules = ReportBanRules
    BY <2>2 DEF ReportBanRules
  <2> QED BY <2>1, <2>2
<1>2. CASE reached = {}
  BY <1>2 DEF DaysOf
<1>3. CASE reached # {}
  <2>1. reached \subseteq 1 .. 4
    BY <1>1
  <2>2. \E x \in reached : \A y \in reached : x <= y
    BY <1>3, <2>1, LeastOfFour
  <2>3. Min(reached) \in reached
    BY <2>2 DEF Min
  <2>4. DaysOf(rules, total) = rules[Min(reached)].duration
    BY <1>3 DEF DaysOf
  <2> QED BY <1>1, <2>1, <2>3, <2>4
<1> QED BY <1>2, <1>3

LEMMA NewBanTyped ==
    ASSUME TypeOK, NEW b \in Bans, NEW s \in Subjects, NEW by \in {"points", "report", "admin"},
           NEW days \in Nat \ {0}, NEW links \in Links, NewBan(b, s, by, days, links)
    PROVE  bans' \in [Bans -> BanType]
<1> DEFINE ban == [subject |-> s, active |-> TRUE, by |-> by, days |-> days, at |-> now,
                   ends |-> now + days * DAY, moved |-> FALSE, links |-> links]
<1>1. now \in Instants /\ now \in Nat
  BY DelinquencyAssumption DEF TypeOK
<1>2. days * DAY \in Nat
  BY DEF DAY
<1>3. ban \in BanType
  <2> HIDE DEF DAY
  <2>1. now + days * DAY \in Nat
    BY <1>1, <1>2
  <2> QED BY <1>1, <2>1 DEF BanType
<1>4. bans' = [bans EXCEPT ![b] = ban]
  BY DEF NewBan
<1>5. bans \in [Bans -> BanType]
  BY DEF TypeOK
<1> HIDE DEF ban
<1> QED BY <1>3, <1>4, <1>5

LEMMA RecordTyped ==
    ASSUME TypeOK, NEW k \in Companies, NEW old \in Approvals, NEW new \in Approvals,
           Record(k, old, new)
    PROVE  audit' \in [Companies -> [old : Approvals \cup {None}, new : Approvals]]
BY DEF TypeOK, Record

-----------------------------------------------------------------------------
\* What each operation does to cases and bans.
LEMMA SeenTyped ==
    ASSUME TypeOK, NEW a \in Clerks, open[a] # Closed
    PROVE  /\ open[a] \in SnapshotType
           /\ \A c \in Cases : open[a].cases[c] # Blank =>
                  cases[c] # Blank /\ cases[c].subject = open[a].cases[c].subject
           /\ \A c \in Cases : open[a].cases[c].subject # None =>
                  cases[c].subject = open[a].cases[c].subject /\ cases[c].subject \in Subjects
<1>1. open[a] \in SnapshotType
  BY DEF TypeOK
<1>2. open[a].cases \in [Cases -> CaseType]
  BY <1>1 DEF SnapshotType
<1>3. \A c \in Cases : open[a].cases[c] # Blank =>
          cases[c] # Blank /\ cases[c].subject = open[a].cases[c].subject
  BY DEF TypeOK
<1>4. ASSUME NEW c \in Cases, open[a].cases[c].subject # None
      PROVE  cases[c].subject = open[a].cases[c].subject /\ cases[c].subject \in Subjects
  <2>1. open[a].cases[c] \in CaseType
    BY <1>2
  <2>2. open[a].cases[c] # Blank /\ open[a].cases[c].subject \in Subjects
    BY <1>4, <2>1 DEF CaseType, Blank
  <2> QED BY <1>3, <2>2
<1> QED BY <1>1, <1>3, <1>4

LEMMA CaseAdded ==
    ASSUME TypeOK, NEW c \in Cases, NEW s \in Subjects, NEW t \in Types, NEW skip \in BOOLEAN,
           cases[c] = Blank, cases' = [cases EXCEPT ![c] = NewCase(c, s, t, skip)]
    PROVE  NewCase(c, s, t, skip) \in CaseType /\ cases' \in [Cases -> CaseType] /\ Kept
<1>1. NewCase(c, s, t, skip) \in CaseType
  BY DEF NewCase, CaseType, Blank, Worths, TypeOK
<1>2. cases \in [Cases -> CaseType]
  BY DEF TypeOK
<1> QED BY <1>1, <1>2 DEF Kept

LEMMA CaseRemoved ==
    ASSUME TypeOK, NEW c \in Cases, cases[c].subject \in Subjects,
           cases' = [cases EXCEPT ![c].deleted = TRUE]
    PROVE  cases' \in [Cases -> CaseType] /\ Kept
<1>1. cases \in [Cases -> CaseType]
  BY DEF TypeOK
<1>2. cases[c] \in [subject : Subjects, type : Types, points : Worths, at : Instants,
                    skip : BOOLEAN, deleted : BOOLEAN]
  BY <1>1, CaseFields
<1>3. /\ cases'[c] \in [subject : Subjects, type : Types, points : Worths, at : Instants,
                        skip : BOOLEAN, deleted : BOOLEAN]
      /\ cases'[c].subject = cases[c].subject
  BY <1>1, <1>2
<1>4. cases'[c] \in CaseType
  BY <1>3 DEF CaseType
<1>5. cases'[c] # Blank
  BY <1>3, <1>4, CaseFields
<1> QED BY <1>1, <1>3, <1>4, <1>5 DEF Kept

LEMMA CaseWeighed ==
    ASSUME TypeOK, NEW c \in Cases, cases[c].subject \in Subjects, NEW points \in Leniency,
           cases' = [cases EXCEPT ![c].points = points]
    PROVE  cases' \in [Cases -> CaseType] /\ Kept
<1>1. cases \in [Cases -> CaseType]
  BY DEF TypeOK
<1>2. cases[c] \in [subject : Subjects, type : Types, points : Worths, at : Instants,
                    skip : BOOLEAN, deleted : BOOLEAN]
  BY <1>1, CaseFields
<1>3. /\ cases'[c] \in [subject : Subjects, type : Types, points : Worths, at : Instants,
                        skip : BOOLEAN, deleted : BOOLEAN]
      /\ cases'[c].subject = cases[c].subject
  BY <1>1, <1>2 DEF Worths
<1>4. cases'[c] \in CaseType
  BY <1>3 DEF CaseType
<1>5. cases'[c] # Blank
  BY <1>3, <1>4, CaseFields
<1> QED BY <1>1, <1>3, <1>4, <1>5 DEF Kept

LEMMA BanEnded ==
    ASSUME TypeOK, NEW b \in Bans, bans[b].subject \in Subjects,
           bans' = [bans EXCEPT ![b].active = FALSE]
    PROVE  bans' \in [Bans -> BanType]
<1>1. bans \in [Bans -> BanType]
  BY DEF TypeOK
<1>2. bans[b] \in [subject : Subjects, active : BOOLEAN, by : {"points", "report", "admin"},
                  days : Nat, at : Instants, ends : Nat, moved : BOOLEAN, links : Links]
  BY <1>1, BanFields
<1>3. bans'[b] \in [subject : Subjects, active : BOOLEAN, by : {"points", "report", "admin"},
                  days : Nat, at : Instants, ends : Nat, moved : BOOLEAN, links : Links]
  BY <1>1, <1>2
<1>4. bans'[b] \in BanType /\ \A d \in Bans \ {b} : bans'[d] = bans[d]
  BY <1>1, <1>3 DEF BanType
<1> QED BY <1>1, <1>4

LEMMA BanAmended ==
    ASSUME TypeOK, NEW b \in Bans, bans[b].subject \in Subjects,
           NEW ends \in Instants \cup {None}, NEW days \in Terms \cup {0, None},
           bans' = [bans EXCEPT ![b] = Amended(bans[b], ends, days)]
    PROVE  bans' \in [Bans -> BanType]
<1>1. /\ bans \in [Bans -> BanType]
      /\ ends # None => ends \in Nat
      /\ days # None => days \in Nat
  BY DelinquencyAssumption DEF TypeOK
<1>2. bans[b] \in [subject : Subjects, active : BOOLEAN, by : {"points", "report", "admin"},
                  days : Nat, at : Instants, ends : Nat, moved : BOOLEAN, links : Links]
  BY <1>1, BanFields
<1> DEFINE ban == Amended(bans[b], ends, days)
<1>3. ban \in [subject : Subjects, active : BOOLEAN, by : {"points", "report", "admin"},
               days : Nat, at : Instants, ends : Nat, moved : BOOLEAN, links : Links]
  BY <1>1, <1>2 DEF Amended
<1>4. ban \in BanType
  BY <1>3 DEF BanType
<1>5. bans' = [bans EXCEPT ![b] = ban]
  OBVIOUS
<1> HIDE DEF ban
<1> QED BY <1>1, <1>4, <1>5

LEMMA AutomaticBanTyped ==
    ASSUME TypeOK, NEW a \in Clerks, open[a] # Closed, NEW s \in Subjects,
           AutomaticBan(open[a], s)
    PROVE  /\ bans' \in [Bans -> BanType]
           /\ audit' \in [Companies -> [old : Approvals \cup {None}, new : Approvals]]
<1> DEFINE seen == open[a]
           total == Total(seen.cases, s)
           days == DaysOf(IF s \in Companies THEN CompanyBanRules ELSE UserBanRules, total)
           links == Noted(seen.cases, s)
<1>1. seen \in SnapshotType
  BY SeenTyped
<1>2. seen.cases \in [Cases -> CaseType] /\ seen.approval \in [Companies -> Approvals]
  BY <1>1 DEF SnapshotType
<1>3. days \in Nat
  BY DaysTyped DEF UserBanRules
<1>4. links \in Links
  BY <1>2, CountedTyped
<1>5. CASE UNCHANGED <<bans, audit>>
  BY <1>5 DEF TypeOK
<1>6. CASE /\ days # 0
           /\ \E b \in Bans : NewBan(b, s, "points", days, links)
           /\ IF s \in Companies THEN Record(s, seen.approval[s], "suspended")
              ELSE UNCHANGED audit
  <2> HIDE DEF days, links, seen
  <2>1. PICK b \in Bans : NewBan(b, s, "points", days, links)
    BY <1>6
  <2>2. days \in Nat \ {0}
    BY <1>3, <1>6
  <2>3. bans' \in [Bans -> BanType]
    BY <1>4, <2>1, <2>2, NewBanTyped
  <2>4. CASE s \in Companies
    <3>1. seen.approval[s] \in Approvals /\ "suspended" \in Approvals
      BY <1>2, <2>4 DEF Approvals
    <3>2. Record(s, seen.approval[s], "suspended")
      BY <1>6, <2>4
    <3> QED BY <2>3, <2>4, <3>1, <3>2, RecordTyped
  <2>5. CASE s \notin Companies
    BY <1>6, <2>3, <2>5 DEF TypeOK
  <2> QED BY <2>4, <2>5
<1> QED BY <1>5, <1>6 DEF AutomaticBan

LEMMA BanAtReportTyped ==
    ASSUME TypeOK, NEW a \in Clerks, open[a] # Closed, NEW s \in Subjects, NEW cs,
           BanAtReport(open[a], cs, s)
    PROVE  bans' \in [Bans -> BanType]
<1> DEFINE total == Total(cs, s)
           days == DaysOf(ReportBanRules, total)
<1>1. days \in Nat
  BY DaysTyped
<1>2. CASE UNCHANGED bans
  BY <1>2 DEF TypeOK
<1>3. CASE days # 0 /\ \E b \in Bans : NewBan(b, s, "report", days, NoLinks)
  <2> HIDE DEF days
  <2>1. PICK b \in Bans : NewBan(b, s, "report", days, NoLinks)
    BY <1>3
  <2> QED BY <1>1, <1>3, <2>1, NewBanTyped, LinksTyped
<1> QED BY <1>2, <1>3 DEF BanAtReport

-----------------------------------------------------------------------------
\* What each operation does to the bans that run and to the evidence.
Runs(b) == Live(bans[b])
Clear(s) == \A d \in Bans : ~(bans[d].subject = s /\ Runs(d))

LEMMA ClearOf ==
    ASSUME Fresh, NEW a \in Clerks, open[a] # Closed, NEW s, ~Banned(open[a], s)
    PROVE  Clear(s)
BY DEF Fresh, Snapshot, Banned, Clear, Runs

LEMMA NewBanAlone ==
    ASSUME TypeOK, OneLiveBan, NEW b \in Bans, NEW s \in Subjects, Clear(s), NEW by, NEW days,
           NEW links, NewBan(b, s, by, days, links), now' = now
    PROVE  OneLiveBan'
<1>1. /\ bans'[b].subject = s
      /\ \A d \in Bans \ {b} : bans'[d] = bans[d]
  BY DEF NewBan, TypeOK
<1>2. \A d \in Bans \ {b} : ~(bans'[d].subject = s /\ Runs(d)')
  BY <1>1 DEF Clear, Runs, Live
<1>3. \A d \in Bans \ {b} : Runs(d)' <=> Runs(d)
  BY <1>1 DEF Runs, Live
<1>4. SUFFICES ASSUME NEW d \in Bans, NEW e \in Bans, d # e, bans'[d].subject = bans'[e].subject,
                      bans'[d].subject # None, Runs(d)', Runs(e)'
               PROVE  bans'[d].moved \/ bans'[e].moved
  BY DEF OneLiveBan, Runs
<1>5. d # b /\ e # b
  BY <1>1, <1>2, <1>4
<1> QED BY <1>1, <1>3, <1>4, <1>5 DEF OneLiveBan, Runs

\* A ban that is ended or amended.
LEMMA BanChangedAlone ==
    ASSUME TypeOK, OneLiveBan, NEW b \in Bans, bans[b].subject \in Subjects, now' = now,
           \/ bans' = [bans EXCEPT ![b].active = FALSE]
           \/ \E ends, days : bans' = [bans EXCEPT ![b] = Amended(bans[b], ends, days)]
    PROVE  OneLiveBan'
<1>1. bans \in [Bans -> BanType]
  BY DEF TypeOK
<1>2. bans[b] \in [subject : Subjects, active : BOOLEAN, by : {"points", "report", "admin"},
                  days : Nat, at : Instants, ends : Nat, moved : BOOLEAN, links : Links]
  BY <1>1, BanFields
<1>3. /\ \A d \in Bans \ {b} : bans'[d] = bans[d]
      /\ bans'[b].subject = bans[b].subject
      /\ \/ ~bans'[b].active \/ bans'[b].moved
         \/ bans'[b].moved = bans[b].moved /\ bans'[b].ends = bans[b].ends
            /\ bans'[b].active = bans[b].active
  <2>1. CASE bans' = [bans EXCEPT ![b].active = FALSE]
    BY <1>1, <1>2, <2>1
  <2>2. ASSUME NEW ends, NEW days, bans' = [bans EXCEPT ![b] = Amended(bans[b], ends, days)]
        PROVE  /\ \A d \in Bans \ {b} : bans'[d] = bans[d]
               /\ bans'[b].subject = bans[b].subject
               /\ \/ bans'[b].moved
                  \/ bans'[b].moved = bans[b].moved /\ bans'[b].ends = bans[b].ends
                     /\ bans'[b].active = bans[b].active
    <3>1. bans'[b] = Amended(bans[b], ends, days)
      BY <1>1, <2>2
    <3>2. \A d \in Bans \ {b} : bans'[d] = bans[d]
      BY <1>1, <2>2
    <3>3. /\ Amended(bans[b], ends, days).subject = bans[b].subject
          /\ Amended(bans[b], ends, days).active = bans[b].active
          /\ ends # None => Amended(bans[b], ends, days).moved
          /\ ends = None => /\ Amended(bans[b], ends, days).ends = bans[b].ends
                            /\ Amended(bans[b], ends, days).moved = bans[b].moved
      BY <1>2 DEF Amended
    <3> QED BY <3>1, <3>2, <3>3
  <2> QED BY <2>1, <2>2
<1>4. \A d \in Bans : Runs(d)' => Runs(d) \/ (d = b /\ bans'[b].moved)
  <2>1. Runs(b)' => Runs(b) \/ bans'[b].moved
    BY <1>3 DEF Runs, Live
  <2>2. \A d \in Bans \ {b} : Runs(d)' => Runs(d)
    BY <1>3 DEF Runs, Live
  <2> QED BY <2>1, <2>2
<1>5. SUFFICES ASSUME NEW d \in Bans, NEW e \in Bans, d # e, bans'[d].subject = bans'[e].subject,
                      bans'[d].subject # None, Runs(d)', Runs(e)'
               PROVE  bans'[d].moved \/ bans'[e].moved
  BY DEF OneLiveBan, Runs
<1>6. CASE ~bans'[b].moved
  <2>1. \A f \in Bans : Runs(f)' => Runs(f)
    BY <1>4, <1>6
  <2>2. bans[b].moved => ~Runs(b)'
    BY <1>3, <1>6 DEF Runs, Live
  <2> QED BY <1>3, <1>5, <2>1, <2>2 DEF OneLiveBan, Runs
<1>7. CASE bans'[b].moved /\ d # b /\ e # b
  BY <1>3, <1>4, <1>5, <1>7 DEF OneLiveBan, Runs
<1> QED BY <1>6, <1>7

LEMMA BansSameAlone ==
    ASSUME OneLiveBan, bans' = bans, now' = now
    PROVE  OneLiveBan'
BY DEF OneLiveBan, Live

LEMMA AutomaticBanAlone ==
    ASSUME TypeOK, Fresh, OneLiveBan, NEW a \in Clerks, open[a] # Closed, NEW s \in Subjects,
           AutomaticBan(open[a], s), now' = now
    PROVE  OneLiveBan'
<1>1. CASE bans' = bans
  BY <1>1, BansSameAlone
<1>2. ASSUME NEW b \in Bans, NEW days, NEW links, NewBan(b, s, "points", days, links),
             ~Banned(open[a], s)
      PROVE  OneLiveBan'
  BY <1>2, ClearOf, NewBanAlone
<1> QED BY <1>1, <1>2 DEF AutomaticBan

LEMMA BanAtReportAlone ==
    ASSUME TypeOK, Fresh, OneLiveBan, NEW a \in Clerks, open[a] # Closed, NEW s \in Subjects,
           NEW cs, BanAtReport(open[a], cs, s), now' = now
    PROVE  OneLiveBan'
<1>1. CASE bans' = bans
  BY <1>1, BansSameAlone
<1>2. ASSUME NEW b \in Bans, NEW days, NewBan(b, s, "report", days, NoLinks),
             ~ \E d \in Bans : open[a].bans[d].subject = s /\ open[a].bans[d].active
      PROVE  OneLiveBan'
  <2>1. ~Banned(open[a], s)
    BY <1>2 DEF Banned, Live
  <2> QED BY <1>2, <2>1, ClearOf, NewBanAlone
<1> QED BY <1>1, <1>2 DEF BanAtReport

LEMMA CasesSameKept == cases' = cases => Kept /\ EvidenceKept
BY DEF Kept, EvidenceKept

LEMMA CaseAddedEvidence ==
    ASSUME TypeOK, NEW c \in Cases, NEW s \in Subjects, NEW t \in Types, NEW skip \in BOOLEAN,
           cases' = [cases EXCEPT ![c] = NewCase(c, s, t, skip)]
    PROVE  EvidenceKept
<1>1. cases \in [Cases -> CaseType]
  BY DEF TypeOK
<1>2. ~NewCase(c, s, t, skip).deleted
  BY DEF NewCase, Blank
<1> QED BY <1>1, <1>2 DEF EvidenceKept

LEMMA CaseWeighedEvidence ==
    ASSUME TypeOK, NEW c \in Cases, cases[c].subject \in Subjects, NEW points,
           cases' = [cases EXCEPT ![c].points = points]
    PROVE  EvidenceKept
<1>1. cases \in [Cases -> CaseType]
  BY DEF TypeOK
<1>2. cases[c] \in [subject : Subjects, type : Types, points : Worths, at : Instants,
                    skip : BOOLEAN, deleted : BOOLEAN]
  BY <1>1, CaseFields
<1>3. \A d \in Cases : cases'[d].deleted = cases[d].deleted
  BY <1>1, <1>2
<1> QED BY <1>3 DEF EvidenceKept

-----------------------------------------------------------------------------
\* Each kind of request.  A step of one keeps the tables typed, records as they
\* are and, if it sees what is there, the bans apart and the evidence.
Keeps ==
    /\ Typed' /\ Kept
    /\ Fresh /\ OneLiveBan => OneLiveBan'
    /\ Fresh => EvidenceKept

LEMMA ReportingKeeps ==
    ASSUME TypeOK, NEW a \in Clerks, Reporting(a)
    PROVE  Keeps
<1>1. open[a] # Closed /\ now' = now
  BY DEF Reporting, Served
<1>2. ASSUME NEW c \in Cases, NEW k \in Companies, NEW t \in Types, NEW skip \in BOOLEAN,
             ReportCompany(a, c, k, t, skip)
      PROVE  Keeps
  <2>1. /\ k \in Subjects /\ cases[c] = Blank
        /\ cases' = [cases EXCEPT ![c] = NewCase(c, k, t, skip)]
        /\ UNCHANGED <<approval, audit, responses, rulings, bans>>
    BY <1>2 DEF ReportCompany, Subjects
  <2>2. cases' \in [Cases -> CaseType] /\ Kept
    BY <2>1, CaseAdded
  <2>3. Typed'
    BY <2>1, <2>2 DEF Typed, TypeOK
  <2> QED BY <1>1, <2>1, <2>2, <2>3, BansSameAlone, CaseAddedEvidence DEF Keeps
<1>3. ASSUME NEW c \in Cases, NEW u \in Users, NEW t \in Types, NEW skip \in BOOLEAN,
             ReportUser(a, c, u, t, skip)
      PROVE  Keeps
  <2>1. /\ u \in Subjects /\ cases[c] = Blank
        /\ cases' = [cases EXCEPT ![c] = NewCase(c, u, t, skip)]
        /\ UNCHANGED <<approval, audit, responses, rulings>>
    BY <1>3 DEF ReportUser, Subjects
  <2>2. cases' \in [Cases -> CaseType] /\ Kept
    BY <2>1, CaseAdded
  <2>3. PICK cs : BanAtReport(open[a], cs, u)
    BY <1>3 DEF ReportUser
  <2>4. bans' \in [Bans -> BanType]
    BY <1>1, <2>1, <2>3, BanAtReportTyped
  <2>5. Typed'
    BY <2>1, <2>2, <2>4 DEF Typed, TypeOK
  <2>6. Fresh /\ OneLiveBan => OneLiveBan'
    BY <1>1, <2>1, <2>3, BanAtReportAlone
  <2> QED BY <2>1, <2>2, <2>5, <2>6, CaseAddedEvidence DEF Keeps
<1> QED BY <1>2, <1>3 DEF Reporting

LEMMA CorrectionsKeep ==
    ASSUME TypeOK, NEW a \in Clerks, Corrections(a)
    PROVE  Keeps
<1>1. open[a] # Closed /\ now' = now
  BY DEF Corrections, Served
<1>2. ASSUME NEW c \in Cases, RemoveCompanyCase(a, c)
      PROVE  Keeps
  <2>1. /\ cases[c].subject \in Subjects /\ cases' = [cases EXCEPT ![c].deleted = TRUE]
        /\ UNCHANGED <<approval, audit, responses, rulings, bans>>
    BY <1>2 DEF RemoveCompanyCase, Subjects
  <2>2. cases' \in [Cases -> CaseType] /\ Kept
    BY <2>1, CaseRemoved
  <2>3. Typed'
    BY <2>1, <2>2 DEF Typed, TypeOK
  <2>4. ASSUME Fresh PROVE EvidenceKept
    <3>1. \A b \in Bans : c \notin DOMAIN bans[b].links
      BY <1>1, <1>2, <2>4 DEF RemoveCompanyCase, Fresh, Snapshot
    <3>2. \A d \in Cases \ {c} : cases'[d] = cases[d]
      BY <2>1 DEF TypeOK
    <3> QED BY <3>1, <3>2 DEF EvidenceKept
  <2> QED BY <1>1, <2>1, <2>2, <2>3, <2>4, BansSameAlone DEF Keeps
<1>3. ASSUME NEW c \in Cases, RemoveUserCase(c)
      PROVE  Keeps
  <2>1. /\ cases[c].subject \in Subjects /\ cases' = [cases EXCEPT ![c].deleted = TRUE]
        /\ cases[c].subject \notin Companies
        /\ UNCHANGED <<approval, audit, responses, rulings, bans>>
    BY <1>3, DelinquencyAssumption DEF RemoveUserCase, Subjects
  <2>2. cases' \in [Cases -> CaseType] /\ Kept
    BY <2>1, CaseRemoved
  <2>3. Typed'
    BY <2>1, <2>2 DEF Typed, TypeOK
  <2>4. \A d \in Cases \ {c} : cases'[d] = cases[d]
    BY <2>1 DEF TypeOK
  <2>5. EvidenceKept
    BY <2>1, <2>4 DEF EvidenceKept
  <2> QED BY <1>1, <2>1, <2>2, <2>3, <2>5, BansSameAlone DEF Keeps
<1>4. ASSUME NEW c \in Cases, NEW points \in Leniency, AmendUserCase(c, points)
      PROVE  Keeps
  <2>1. /\ cases[c].subject \in Subjects /\ cases' = [cases EXCEPT ![c].points = points]
        /\ UNCHANGED <<approval, audit, responses, rulings, bans>>
    BY <1>4 DEF AmendUserCase, Subjects
  <2>2. cases' \in [Cases -> CaseType] /\ Kept
    BY <2>1, CaseWeighed
  <2>3. Typed'
    BY <2>1, <2>2 DEF Typed, TypeOK
  <2> QED BY <1>1, <2>1, <2>2, <2>3, BansSameAlone, CaseWeighedEvidence DEF Keeps
<1> QED BY <1>2, <1>3, <1>4 DEF Corrections

LEMMA DefenceKeeps ==
    ASSUME TypeOK, NEW a \in Clerks, Defence(a)
    PROVE  Keeps
<1>1. open[a] # Closed /\ now' = now
  BY DEF Defence, Served
<1>2. UNCHANGED <<approval, audit, cases, rulings, bans>>
  BY DEF Defence, Respond, WithdrawResponse
<1>3. responses' \in [Cases -> 0 .. MaxResponses]
  <2>1. responses \in [Cases -> 0 .. MaxResponses]
    BY DEF TypeOK
  <2>2. ASSUME NEW c \in Cases, Respond(a, c)
        PROVE  responses' \in [Cases -> 0 .. MaxResponses]
    <3>1. responses[c] + 1 \in 0 .. MaxResponses
      BY <2>1, <2>2, DelinquencyAssumption DEF Respond
    <3> QED BY <2>1, <2>2, <3>1 DEF Respond
  <2>3. ASSUME NEW c \in Cases, WithdrawResponse(c)
        PROVE  responses' \in [Cases -> 0 .. MaxResponses]
    <3>1. responses[c] - 1 \in 0 .. MaxResponses
      BY <2>1, <2>3, DelinquencyAssumption DEF WithdrawResponse
    <3> QED BY <2>1, <2>3, <3>1 DEF WithdrawResponse
  <2> QED BY <2>2, <2>3 DEF Defence
<1>4. Typed'
  BY <1>2, <1>3 DEF Typed, TypeOK
<1> QED BY <1>1, <1>2, <1>4, BansSameAlone, CasesSameKept DEF Keeps

LEMMA DecideKeeps ==
    ASSUME TypeOK, NEW a \in Clerks, open[a] # Closed, now' = now, NEW c \in Cases,
           NEW outcome \in Outcomes, NEW points \in Leniency, Decide(a, c, outcome, points)
    PROVE  Keeps
<1> DEFINE s == open[a].cases[c].subject
           ruling == [outcome |-> outcome, deleted |-> FALSE]
<1>1. /\ s # None /\ s = cases[c].subject /\ s \in Subjects
      /\ Len(rulings[c]) < MaxRulings
      /\ rulings' = [rulings EXCEPT ![c] = Append(@, ruling)]
      /\ UNCHANGED <<approval, responses>>
  BY SeenTyped DEF Decide
<1>2. /\ rulings' \in [Cases -> Seq(RulingType)]
      /\ \A d \in Cases : Len(rulings'[d]) <= MaxRulings
      /\ rulings'[c] = Append(rulings[c], ruling) /\ rulings[c] \in Seq(RulingType)
  <2>1. ruling \in RulingType
    BY DEF RulingType
  <2>2. rulings \in [Cases -> Seq(RulingType)] /\ \A d \in Cases : Len(rulings[d]) <= MaxRulings
    BY DEF TypeOK
  <2> HIDE DEF ruling
  <2>3. /\ Append(rulings[c], ruling) \in Seq(RulingType)
        /\ Len(Append(rulings[c], ruling)) = Len(rulings[c]) + 1
        /\ Len(rulings[c]) \in Nat
    BY <2>1, <2>2
  <2>4. Len(Append(rulings[c], ruling)) <= MaxRulings
    BY <1>1, <2>3, DelinquencyAssumption
  <2> QED BY <1>1, <2>2, <2>3, <2>4
<1>3. /\ bans' \in [Bans -> BanType]
      /\ audit' \in [Companies -> [old : Approvals \cup {None}, new : Approvals]]
  <2>1. CASE outcome = "UPHELD"
    BY <1>1, <2>1, AutomaticBanTyped DEF Decide
  <2>2. CASE outcome # "UPHELD"
    BY <2>2 DEF Decide, TypeOK
  <2> QED BY <2>1, <2>2
<1>4. Fresh /\ OneLiveBan => OneLiveBan'
  <2>1. CASE outcome = "UPHELD"
    BY <1>1, <2>1, AutomaticBanAlone DEF Decide
  <2>2. CASE outcome # "UPHELD"
    BY <2>2, BansSameAlone DEF Decide
  <2> QED BY <2>1, <2>2
<1>5. cases' \in [Cases -> CaseType] /\ Kept /\ EvidenceKept
  <2>1. CASE outcome = "EXONERATED"
    <3>1. cases' = [cases EXCEPT ![c].deleted = TRUE]
      BY <2>1 DEF Decide
    <3>2. \A d \in Cases \ {c} : cases'[d] = cases[d]
      BY <3>1 DEF TypeOK
    <3>3. /\ Len(rulings[c]) + 1 \in DOMAIN rulings'[c]
          /\ rulings'[c][Len(rulings[c]) + 1] = [outcome |-> "EXONERATED", deleted |-> FALSE]
      BY <1>2, <2>1
    <3>4. EvidenceKept
      BY <3>2, <3>3 DEF EvidenceKept
    <3> QED BY <1>1, <3>1, <3>4, CaseRemoved
  <2>2. CASE outcome = "REDUCED"
    <3>1. cases' = [cases EXCEPT ![c].points = points]
      BY <2>2 DEF Decide
    <3> QED BY <1>1, <3>1, CaseWeighed, CaseWeighedEvidence
  <2>3. CASE outcome \notin {"EXONERATED", "REDUCED"}
    <3>1. cases' = cases
      BY <2>3 DEF Decide
    <3> QED BY <3>1, CasesSameKept DEF TypeOK
  <2> QED BY <2>1, <2>2, <2>3
<1>6. Typed'
  BY <1>1, <1>2, <1>3, <1>5 DEF Typed, TypeOK
<1> QED BY <1>4, <1>5, <1>6 DEF Keeps

LEMMA RulingKeeps ==
    ASSUME TypeOK, NEW a \in Clerks, Ruling(a)
    PROVE  Keeps
<1>1. open[a] # Closed /\ now' = now
  BY DEF Ruling, Served
<1>2. ASSUME NEW c \in Cases, NEW i \in 1 .. MaxRulings, RetractRuling(c, i)
      PROVE  Keeps
  <2>1. UNCHANGED <<approval, audit, cases, responses, bans>>
    BY <1>2 DEF RetractRuling
  <2>2. /\ rulings \in [Cases -> Seq(RulingType)]
        /\ i \in DOMAIN rulings[c] /\ i \in 1 .. Len(rulings[c])
        /\ rulings[c][i] \in RulingType
    BY <1>2 DEF RetractRuling, TypeOK
  <2>3. [rulings[c][i] EXCEPT !.deleted = TRUE] \in RulingType
    BY <2>2 DEF RulingType
  <2>4. /\ [rulings[c] EXCEPT ![i] = [rulings[c][i] EXCEPT !.deleted = TRUE]] \in Seq(RulingType)
        /\ Len([rulings[c] EXCEPT ![i] = [rulings[c][i] EXCEPT !.deleted = TRUE]])
               = Len(rulings[c])
    BY <2>2, <2>3
  <2>5. rulings' = [rulings EXCEPT ![c] =
                       [rulings[c] EXCEPT ![i] = [rulings[c][i] EXCEPT !.deleted = TRUE]]]
    BY <1>2, <2>2 DEF RetractRuling
  <2>6. /\ rulings' \in [Cases -> Seq(RulingType)]
        /\ \A d \in Cases : Len(rulings'[d]) <= MaxRulings
    BY <2>2, <2>4, <2>5 DEF TypeOK
  <2>7. Typed'
    BY <2>1, <2>6 DEF Typed, TypeOK
  <2> QED BY <1>1, <2>1, <2>7, BansSameAlone, CasesSameKept DEF Keeps
<1> QED BY <1>1, <1>2, DecideKeeps DEF Ruling

LEMMA BanningKeeps ==
    ASSUME TypeOK, NEW a \in Clerks, Banning(a)
    PROVE  Keeps
<1>1. open[a] # Closed /\ now' = now
  BY DEF Banning, Served
<1>2. open[a].approval \in [Companies -> Approvals] /\ {"suspended", "approved"} \subseteq Approvals
  BY <1>1, SeenTyped DEF SnapshotType, Approvals
<1>3. ASSUME NEW b \in Bans, NEW k \in Companies, NEW c \in Cases, NEW days \in Terms,
             BanCompany(a, b, k, c, days)
      PROVE  Keeps
  <2>1. /\ k \in Subjects /\ days \in Nat \ {0} /\ [d \in {c} |-> 0] \in Links
        /\ ~Banned(open[a], k) /\ NewBan(b, k, "admin", days, [d \in {c} |-> 0])
        /\ Record(k, open[a].approval[k], "suspended")
        /\ UNCHANGED <<approval, cases, responses, rulings>>
    BY <1>3, LinksTyped, DelinquencyAssumption DEF BanCompany, Subjects
  <2>2. bans' \in [Bans -> BanType]
    BY <2>1, NewBanTyped
  <2>3. audit' \in [Companies -> [old : Approvals \cup {None}, new : Approvals]]
    BY <1>2, <2>1, RecordTyped
  <2>4. Typed'
    BY <2>1, <2>2, <2>3 DEF Typed, TypeOK
  <2>5. Fresh /\ OneLiveBan => OneLiveBan'
    BY <1>1, <2>1, ClearOf, NewBanAlone
  <2> QED BY <2>1, <2>4, <2>5, CasesSameKept DEF Keeps
<1>4. ASSUME NEW b \in Bans, NEW u \in Users, NEW days \in Terms, BanUser(a, b, u, days)
      PROVE  Keeps
  <2>1. /\ u \in Subjects /\ days \in Nat \ {0} /\ NoLinks \in Links
        /\ ~Banned(open[a], u) /\ NewBan(b, u, "admin", days, NoLinks)
        /\ UNCHANGED <<approval, audit, cases, responses, rulings>>
    BY <1>4, LinksTyped, DelinquencyAssumption DEF BanUser, Subjects
  <2>2. bans' \in [Bans -> BanType]
    BY <2>1, NewBanTyped
  <2>3. Typed'
    BY <2>1, <2>2 DEF Typed, TypeOK
  <2>4. Fresh /\ OneLiveBan => OneLiveBan'
    BY <1>1, <2>1, ClearOf, NewBanAlone
  <2> QED BY <2>1, <2>3, <2>4, CasesSameKept DEF Keeps
<1>5. ASSUME NEW b \in Bans, UnbanCompany(a, b)
      PROVE  Keeps
  <2>1. /\ bans[b].subject \in Companies /\ bans[b].subject \in Subjects
        /\ bans' = [bans EXCEPT ![b].active = FALSE]
        /\ Record(bans[b].subject, open[a].approval[bans[b].subject], "approved")
        /\ UNCHANGED <<approval, cases, responses, rulings>>
    BY <1>5 DEF UnbanCompany, Subjects
  <2>2. bans' \in [Bans -> BanType]
    BY <2>1, BanEnded
  <2>3. audit' \in [Companies -> [old : Approvals \cup {None}, new : Approvals]]
    BY <1>2, <2>1, RecordTyped
  <2>4. Typed'
    BY <2>1, <2>2, <2>3 DEF Typed, TypeOK
  <2> QED BY <1>1, <2>1, <2>4, BanChangedAlone, CasesSameKept DEF Keeps
<1>6. ASSUME NEW b \in Bans, DeactivateBan(b)
      PROVE  Keeps
  <2>1. /\ bans[b].subject \in Subjects /\ bans' = [bans EXCEPT ![b].active = FALSE]
        /\ UNCHANGED <<approval, audit, cases, responses, rulings>>
    BY <1>6 DEF DeactivateBan, Subjects
  <2>2. bans' \in [Bans -> BanType]
    BY <2>1, BanEnded
  <2>3. Typed'
    BY <2>1, <2>2 DEF Typed, TypeOK
  <2> QED BY <1>1, <2>1, <2>3, BanChangedAlone, CasesSameKept DEF Keeps
<1>7. ASSUME NEW b \in Bans, NEW ends \in Instants \cup {None},
             NEW days \in Terms \cup {0, None}, AmendBan(b, ends, days)
      PROVE  Keeps
  <2>1. /\ bans[b].subject \in Subjects
        /\ bans' = [bans EXCEPT ![b] = Amended(bans[b], ends, days)]
        /\ UNCHANGED <<approval, audit, cases, responses, rulings>>
    BY <1>7 DEF AmendBan, Subjects
  <2>2. bans' \in [Bans -> BanType]
    BY <2>1, BanAmended
  <2>3. Typed'
    BY <2>1, <2>2 DEF Typed, TypeOK
  <2> QED BY <1>1, <2>1, <2>3, BanChangedAlone, CasesSameKept DEF Keeps
<1> QED BY <1>3, <1>4, <1>5, <1>6, <1>7 DEF Banning

LEMMA ApprovingKeeps ==
    ASSUME TypeOK, NEW a \in Clerks, Approving(a)
    PROVE  Keeps
<1>1. now' = now
  BY DEF Approving, Served
<1>2. PICK k \in Companies, status \in Verdicts : ApproveCompany(k, status)
  BY DEF Approving
<1>3. /\ approval' \in [Companies -> Approvals] /\ approval'[k] = status /\ status \in Approvals
      /\ UNCHANGED <<cases, responses, rulings, bans>>
  BY <1>2 DEF ApproveCompany, TypeOK, Approvals, Verdicts
<1>4. audit' \in [Companies -> [old : Approvals \cup {None}, new : Approvals]]
  BY <1>2, <1>3, RecordTyped DEF ApproveCompany
<1>5. Typed'
  BY <1>3, <1>4 DEF Typed, TypeOK
<1> QED BY <1>1, <1>3, <1>5, BansSameAlone, CasesSameKept DEF Keeps

-----------------------------------------------------------------------------
\* A request that ends, one that begins, and the clock.
LEMMA ServedTyped ==
    ASSUME TypeOK, NEW a \in Clerks, Served(a), Typed', Kept
    PROVE  TypeOK'
<1>1. open' = [open EXCEPT ![a] = Closed] /\ UNCHANGED <<now, requests>>
  BY DEF Served, Close
<1>2. open' \in [Clerks -> {Closed} \cup SnapshotType]
  BY <1>1 DEF TypeOK
<1>3. ASSUME NEW d \in Clerks, open'[d] # Closed, NEW c \in Cases, open'[d].cases[c] # Blank
      PROVE  cases'[c] # Blank /\ cases'[c].subject = open'[d].cases[c].subject
  <2>1. d # a /\ open'[d] = open[d]
    BY <1>1, <1>3 DEF TypeOK
  <2>2. cases[c] # Blank /\ cases[c].subject = open[d].cases[c].subject
    BY <1>3, <2>1 DEF TypeOK
  <2> QED BY <2>1, <2>2 DEF Kept
<1> QED BY <1>1, <1>2, <1>3 DEF TypeOK, Typed

LEMMA ServedFresh ==
    ASSUME OneClerk, TypeOK, NEW a \in Clerks, Served(a)
    PROVE  Fresh'
BY DEF OneClerk, TypeOK, Served, Close, Fresh

LEMMA BeginTyped ==
    ASSUME TypeOK, NEW a \in Clerks, Begin(a)
    PROVE  TypeOK'
<1>1. Snapshot \in SnapshotType
  BY DEF TypeOK, Snapshot, SnapshotType
<1>2. open' = [open EXCEPT ![a] = Snapshot] /\ UNCHANGED <<now, tables>>
  BY DEF Begin
<1>3. open' \in [Clerks -> {Closed} \cup SnapshotType]
  BY <1>1, <1>2 DEF TypeOK
<1>4. requests' \in 0 .. MaxRequests
  BY DelinquencyAssumption DEF Begin, TypeOK
<1>5. ASSUME NEW d \in Clerks, open'[d] # Closed, NEW c \in Cases, open'[d].cases[c] # Blank
      PROVE  cases'[c] # Blank /\ cases'[c].subject = open'[d].cases[c].subject
  <2>1. CASE d = a
    BY <1>2, <1>5, <2>1 DEF TypeOK, Snapshot, tables
  <2>2. CASE d # a
    BY <1>2, <1>5, <2>2 DEF TypeOK, tables
  <2> QED BY <2>1, <2>2
<1> QED BY <1>2, <1>3, <1>4, <1>5 DEF TypeOK, tables

LEMMA TickAlone ==
    ASSUME TypeOK, OneLiveBan, Tick
    PROVE  OneLiveBan'
<1>1. now' \in Nat /\ now \in Nat /\ now' > now /\ bans' = bans
  BY DelinquencyAssumption DEF Tick, tables, TypeOK
<1>2. \A b \in Bans : bans[b].subject # None => bans[b].ends \in Nat
  BY DEF TypeOK, BanType, Unused
<1>3. \A b \in Bans : bans[b].subject # None /\ Runs(b)' => Runs(b)
  BY <1>1, <1>2 DEF Runs, Live
<1> QED BY <1>1, <1>3 DEF OneLiveBan, Runs

LEMMA InitInv == Init => IInv
<1> SUFFICES ASSUME Init PROVE IInv
  OBVIOUS
<1>1. cases \in [Cases -> CaseType] /\ bans \in [Bans -> BanType]
  BY BlankTyped DEF Init
<1>2. rulings \in [Cases -> Seq(RulingType)] /\ \A c \in Cases : Len(rulings[c]) <= MaxRulings
  BY DelinquencyAssumption DEF Init
<1>4. /\ approval \in [Companies -> Approvals]
      /\ audit \in [Companies -> [old : Approvals \cup {None}, new : Approvals]]
  BY DEF Init, Approvals
<1>5. /\ now \in Instants /\ responses \in [Cases -> 0 .. MaxResponses]
      /\ requests \in 0 .. MaxRequests /\ open \in [Clerks -> {Closed}]
  BY DelinquencyAssumption DEF Init
<1>6. TypeOK
  BY <1>1, <1>2, <1>4, <1>5 DEF TypeOK
<1>7. Fresh /\ OneLiveBan
  BY DEF Init, Fresh, OneLiveBan, Unused
<1> QED BY <1>6, <1>7 DEF IInv

\* A step of a request that is served.
LEMMA StepKeeps ==
    ASSUME TypeOK, NEW a \in Clerks,
           \/ Fail(a) \/ Reporting(a) \/ Corrections(a) \/ Defence(a)
           \/ Ruling(a) \/ Banning(a) \/ Approving(a)
    PROVE  Keeps /\ Served(a)
<1>1. CASE Fail(a)
  <2>1. UNCHANGED tables /\ now' = now /\ Served(a)
    BY <1>1 DEF Fail, Served
  <2>2. Typed'
    BY <2>1 DEF Typed, TypeOK, tables
  <2> QED BY <2>1, <2>2, BansSameAlone, CasesSameKept DEF Keeps, tables
<1>2. CASE ~Fail(a)
  <2>1. Served(a)
    BY <1>2 DEF Reporting, Corrections, Defence, Ruling, Banning, Approving
  <2> QED BY <1>2, <2>1, ReportingKeeps, CorrectionsKeep, DefenceKeeps, RulingKeeps,
             BanningKeeps, ApprovingKeeps
<1> QED BY <1>1, <1>2

LEMMA NextTyped == TypeOK /\ [Next]_vars => TypeOK'
<1> SUFFICES ASSUME TypeOK, [Next]_vars PROVE TypeOK'
  OBVIOUS
<1>1. CASE UNCHANGED vars
  BY <1>1 DEF vars, TypeOK
<1>2. CASE Tick
  BY <1>2 DEF Tick, tables, TypeOK
<1>3. ASSUME NEW a \in Clerks, Begin(a)
      PROVE  TypeOK'
  BY <1>3, BeginTyped
<1>4. ASSUME NEW a \in Clerks,
             \/ Fail(a) \/ Reporting(a) \/ Corrections(a) \/ Defence(a)
             \/ Ruling(a) \/ Banning(a) \/ Approving(a)
      PROVE  TypeOK'
  BY <1>4, StepKeeps, ServedTyped DEF Keeps
<1> QED BY <1>1, <1>2, <1>3, <1>4 DEF Next

LEMMA NextInv == OneClerk /\ IInv /\ [Next]_vars => IInv' /\ [EvidenceKept]_vars
<1> SUFFICES ASSUME OneClerk, IInv, [Next]_vars
             PROVE  IInv' /\ [EvidenceKept]_vars
  OBVIOUS
<1>1. TypeOK /\ Fresh /\ OneLiveBan /\ TypeOK'
  BY NextTyped DEF IInv
<1>2. CASE UNCHANGED vars
  BY <1>1, <1>2, BansSameAlone DEF vars, IInv, Fresh, Snapshot
<1>3. CASE Tick
  <2>1. Fresh' /\ EvidenceKept
    BY <1>3 DEF Tick, Fresh, tables, EvidenceKept
  <2> QED BY <1>1, <1>3, <2>1, TickAlone DEF IInv
<1>4. ASSUME NEW a \in Clerks, Begin(a)
      PROVE  IInv' /\ EvidenceKept
  <2>1. /\ open' = [open EXCEPT ![a] = Snapshot] /\ UNCHANGED <<now, tables>>
    BY <1>4 DEF Begin
  <2>2. Fresh'
    BY <1>1, <2>1 DEF OneClerk, TypeOK, Fresh, Snapshot, tables
  <2> QED BY <1>1, <2>1, <2>2, BansSameAlone, CasesSameKept DEF IInv, tables
<1>5. ASSUME NEW a \in Clerks,
             \/ Fail(a) \/ Reporting(a) \/ Corrections(a) \/ Defence(a)
             \/ Ruling(a) \/ Banning(a) \/ Approving(a)
      PROVE  IInv' /\ EvidenceKept
  BY <1>1, <1>5, StepKeeps, ServedFresh DEF Keeps, IInv
<1> QED BY <1>2, <1>3, <1>4, <1>5 DEF Next

\* Every reachable state is typed, with any number of requests under way, and
\* what a request read of a case's subject holds until the request ends.
THEOREM TypeCorrect == Spec => []TypeOK
<1>1. Init => TypeOK
  BY InitInv DEF IInv
<1> QED BY <1>1, NextTyped, PTL DEF Spec

\* Requests one after the other: the tables are typed, a request sees what is
\* there, and the bans are apart.
THEOREM Invariant == OneClerk => (Spec => []IInv)
<1> SUFFICES ASSUME OneClerk PROVE Spec => []IInv
  OBVIOUS
<1>1. IInv /\ [Next]_vars => IInv'
  BY NextInv
<1> QED BY <1>1, InitInv, PTL DEF Spec

\* Requests that are served one after the other never leave a subject with two
\* bans that run, unless an admin moved the end of one.
THEOREM BansStayApart == OneClerk => (Spec => []OneLiveBan)
<1> SUFFICES ASSUME OneClerk PROVE Spec => []OneLiveBan
  OBVIOUS
<1>1. IInv => OneLiveBan
  BY DEF IInv
<1>2. Spec => []IInv
  BY Invariant
<1> QED BY <1>1, <1>2, PTL

\* Under the same condition no case of a company that carries a ban leaves the
\* record without a ruling that clears the company.
THEOREM EvidenceIsKept == OneClerk => (Spec => EvidenceStays)
<1> SUFFICES ASSUME OneClerk PROVE Spec => EvidenceStays
  OBVIOUS
<1>1. IInv /\ [Next]_vars => [EvidenceKept]_vars
  BY NextInv
<1>2. Spec => []IInv
  BY Invariant
<1> QED BY <1>1, <1>2, PTL DEF Spec, EvidenceStays

-----------------------------------------------------------------------------
\* Bans that points gave, with any number of requests under way.
Ruled(ban) ==
    /\ RulesReached(ban.links) # {}
    /\ \/ ban.moved
       \/ \E r \in RulesReached(ban.links) :
             /\ ban.ends = ban.at + r.duration * DAY
             /\ \A q \in RulesReached(ban.links) : q.duration <= r.duration

Own(ban) ==
    \A c \in DOMAIN ban.links :
        /\ cases[c].subject = ban.subject
        /\ ban.at - Window <= cases[c].at /\ cases[c].at <= ban.at

Earned(ban) == Own(ban) /\ Ruled(ban)

\* Cases are of the past, and what a request read of a case's date still holds.
Dated ==
    /\ \A c \in Cases : cases[c].at <= now
    /\ \A a \in Clerks : open[a] # Closed => \A c \in Cases :
          open[a].cases[c] # Blank => cases[c].at = open[a].cases[c].at

EInv == TypeOK /\ Dated /\ BanIsEarned

\* What a step does to them: a recorded case keeps its date, and a ban of
\* points is as it was or is earned by the cases there are.
DatesKept ==
    \A c \in Cases : /\ cases[c] # Blank => cases'[c].at = cases[c].at
                     /\ cases'[c].at <= now
Same(b) ==
    /\ bans'[b].subject = bans[b].subject /\ bans'[b].by = bans[b].by
    /\ bans'[b].at = bans[b].at /\ bans'[b].links = bans[b].links
    /\ bans'[b].moved \/ (bans'[b].moved = bans[b].moved /\ bans'[b].ends = bans[b].ends)
Granted == \A b \in Bans : Same(b) \/ bans'[b].by # "points" \/ Earned(bans'[b])

LEMMA EarnedForm ==
    BanIsEarned <=>
        \A b \in Bans : bans[b].subject # None /\ bans[b].by = "points" => Earned(bans[b])
BY DEF BanIsEarned, Earned, Own, Ruled

\* The first rule reached is the one of the longest ban.
LEMMA DaysEarned ==
    ASSUME NEW links, DaysOf(CompanyBanRules, Weight(links)) # 0
    PROVE  \E r \in RulesReached(links) :
              /\ r.duration = DaysOf(CompanyBanRules, Weight(links))
              /\ \A q \in RulesReached(links) : q.duration <= r.duration
<1> DEFINE total == Weight(links)
           rules == CompanyBanRules
           reached == {i \in DOMAIN rules : total >= rules[i].threshold}
<1>1. reached # {} /\ DaysOf(rules, total) = rules[Min(reached)].duration
  BY DEF DaysOf
<1>2. DOMAIN rules = 1 .. 4
  BY DEF CompanyBanRules
<1>3. Min(reached) \in reached /\ \A i \in reached : Min(reached) <= i
  <2>1. \E x \in reached : \A y \in reached : x <= y
    BY <1>1, <1>2, LeastOfFour
  <2> QED BY <2>1 DEF Min
<1>4. \A i, j \in 1 .. 4 : i <= j => rules[j].duration <= rules[i].duration
  BY DEF CompanyBanRules
<1>5. reached \subseteq 1 .. 4
  BY <1>2
<1>6. \A i \in DOMAIN rules : total >= rules[i].threshold <=> i \in reached
  OBVIOUS
<1> DEFINE earned == {r \in {rules[i] : i \in DOMAIN rules} : total >= r.threshold}
<1> HIDE DEF reached, rules
<1>7. \A r \in earned : \E i \in reached : r = rules[i]
  BY <1>6
<1>8. \A i \in reached : rules[i] \in earned
  BY <1>6, <1>2, <1>5
<1> HIDE DEF earned
<1>9. /\ \E r \in earned : r.duration = DaysOf(rules, total)
      /\ \A r \in earned : r.duration <= DaysOf(rules, total)
  BY <1>1, <1>3, <1>4, <1>5, <1>7, <1>8
<1> QED BY <1>9 DEF RulesReached, earned, rules

LEMMA CasesSameDated ==
    ASSUME Dated, cases' = cases
    PROVE  DatesKept
BY DEF Dated, DatesKept

LEMMA CaseAddedDated ==
    ASSUME TypeOK, Dated, NEW c \in Cases, NEW s, NEW t, NEW skip,
           cases[c] = Blank, cases' = [cases EXCEPT ![c] = NewCase(c, s, t, skip)]
    PROVE  DatesKept
<1>1. NewCase(c, s, t, skip).at = now /\ now <= now
  BY DelinquencyAssumption DEF NewCase, Blank, TypeOK
<1> QED BY <1>1 DEF TypeOK, Dated, DatesKept

LEMMA CaseRemovedDated ==
    ASSUME TypeOK, Dated, NEW c \in Cases, cases[c].subject \in Subjects,
           cases' = [cases EXCEPT ![c].deleted = TRUE]
    PROVE  DatesKept
<1>1. cases \in [Cases -> CaseType]
  BY DEF TypeOK
<1>2. cases[c] \in [subject : Subjects, type : Types, points : Worths, at : Instants,
                    skip : BOOLEAN, deleted : BOOLEAN]
  BY <1>1, CaseFields
<1>3. \A d \in Cases : cases'[d].at = cases[d].at
  BY <1>1, <1>2
<1> QED BY <1>3 DEF Dated, DatesKept

LEMMA CaseWeighedDated ==
    ASSUME TypeOK, Dated, NEW c \in Cases, cases[c].subject \in Subjects, NEW points,
           cases' = [cases EXCEPT ![c].points = points]
    PROVE  DatesKept
<1>1. cases \in [Cases -> CaseType]
  BY DEF TypeOK
<1>2. cases[c] \in [subject : Subjects, type : Types, points : Worths, at : Instants,
                    skip : BOOLEAN, deleted : BOOLEAN]
  BY <1>1, CaseFields
<1>3. \A d \in Cases : cases'[d].at = cases[d].at
  BY <1>1, <1>2
<1> QED BY <1>3 DEF Dated, DatesKept

LEMMA BansSameGranted == bans' = bans => Granted
BY DEF Granted, Same

LEMMA BanChangedGranted ==
    ASSUME TypeOK, NEW b \in Bans, bans[b].subject \in Subjects, NEW ends, NEW days,
           \/ bans' = [bans EXCEPT ![b].active = FALSE]
           \/ bans' = [bans EXCEPT ![b] = Amended(bans[b], ends, days)]
    PROVE  Granted
<1>1. bans \in [Bans -> BanType]
  BY DEF TypeOK
<1>2. bans[b] \in [subject : Subjects, active : BOOLEAN, by : {"points", "report", "admin"},
                  days : Nat, at : Instants, ends : Nat, moved : BOOLEAN, links : Links]
  BY <1>1, BanFields
<1>3. Same(b)
  <2>1. CASE bans' = [bans EXCEPT ![b].active = FALSE]
    BY <1>1, <1>2, <2>1 DEF Same
  <2>2. CASE bans' = [bans EXCEPT ![b] = Amended(bans[b], ends, days)]
    <3>1. bans'[b] = Amended(bans[b], ends, days)
      BY <1>1, <2>2
    <3>2. LET ban == Amended(bans[b], ends, days) IN
          /\ ban.subject = bans[b].subject /\ ban.by = bans[b].by
          /\ ban.at = bans[b].at /\ ban.links = bans[b].links
          /\ ends # None => ban.moved
          /\ ends = None => ban.ends = bans[b].ends /\ ban.moved = bans[b].moved
      BY <1>2 DEF Amended
    <3> QED BY <3>1, <3>2 DEF Same
  <2> QED BY <2>1, <2>2
<1>4. \A d \in Bans \ {b} : Same(d)
  BY <1>1 DEF Same
<1> QED BY <1>3, <1>4 DEF Granted

LEMMA NewBanGranted ==
    ASSUME TypeOK, NEW b \in Bans, NEW s, NEW by, NEW days, NEW links,
           NewBan(b, s, by, days, links),
           by = "points" => Earned([subject |-> s, active |-> TRUE, by |-> by, days |-> days,
                                    at |-> now, ends |-> now + days * DAY, moved |-> FALSE,
                                    links |-> links])
    PROVE  Granted
<1>1. bans \in [Bans -> BanType]
  BY DEF TypeOK
<1> DEFINE ban == [subject |-> s, active |-> TRUE, by |-> by, days |-> days, at |-> now,
                   ends |-> now + days * DAY, moved |-> FALSE, links |-> links]
<1>2. ban.by = by
  OBVIOUS
<1>3. bans' = [bans EXCEPT ![b] = ban]
  BY DEF NewBan
<1>4. by = "points" => Earned(ban)
  OBVIOUS
<1> HIDE DEF ban
<1>5. bans'[b] = ban /\ \A d \in Bans \ {b} : bans'[d] = bans[d]
  BY <1>1, <1>3
<1> QED BY <1>2, <1>4, <1>5 DEF Granted, Same

\* The cases counted are the subject's own and of the last 30 days, and the
\* points noted with the ban are those that were summed.
LEMMA AutomaticBanGranted ==
    ASSUME TypeOK, Dated, NEW a \in Clerks, open[a] # Closed, NEW s \in Subjects,
           AutomaticBan(open[a], s)
    PROVE  Granted
<1> DEFINE seen == open[a]
           links == Noted(seen.cases, s)
           days == DaysOf(CompanyBanRules, Weight(links))
<1>1. CASE UNCHANGED bans
  BY <1>1, BansSameGranted
<1>2. CASE days # 0 /\ \E b \in Bans : NewBan(b, s, "points", days, links)
  <2>1. PICK b \in Bans : NewBan(b, s, "points", days, links)
    BY <1>2
  <2> DEFINE ban == [subject |-> s, active |-> TRUE, by |-> "points", days |-> days,
                     at |-> now, ends |-> now + days * DAY, moved |-> FALSE,
                     links |-> links]
  <2>2. DOMAIN links = Counted(seen.cases, s)
    BY DEF Noted
  <2>3. ASSUME NEW c \in Counted(seen.cases, s)
        PROVE  /\ cases[c].subject = s
               /\ now - Window <= cases[c].at /\ cases[c].at <= now
    <3>1. c \in Cases /\ seen.cases[c].subject = s /\ seen.cases[c].at >= now - Window
      BY DEF Counted
    <3>2. seen.cases[c] # Blank /\ s # None
      BY <3>1, DelinquencyAssumption DEF Blank
    <3>3. cases[c].subject = s /\ cases[c].at = seen.cases[c].at /\ cases[c].at <= now
      BY <3>1, <3>2, SeenTyped DEF Dated
    <3>4. seen.cases[c].at >= now - Window => now - Window <= seen.cases[c].at
      OBVIOUS
    <3> QED BY <3>1, <3>3, <3>4
  <2>4. PICK r \in RulesReached(links) :
            r.duration = days /\ \A q \in RulesReached(links) : q.duration <= r.duration
    BY <1>2, DaysEarned
  <2>5. /\ ban.subject = s /\ ban.at = now /\ ban.links = links
        /\ ban.ends = now + days * DAY
    OBVIOUS
  <2> HIDE DEF links, days, seen, ban
  <2>6. Ruled(ban)
    BY <2>4, <2>5 DEF Ruled
  <2>7. Earned(ban)
    BY <2>2, <2>3, <2>5, <2>6 DEF Earned, Own
  <2> USE DEF ban
  <2> QED BY <2>1, <2>7, NewBanGranted
<1> QED BY <1>1, <1>2 DEF AutomaticBan, UserBanRules, Total

LEMMA BanAtReportGranted ==
    ASSUME TypeOK, NEW a \in Clerks, NEW s, NEW cs, BanAtReport(open[a], cs, s)
    PROVE  Granted
<1> DEFINE days == DaysOf(ReportBanRules, Total(cs, s))
<1>1. CASE UNCHANGED bans
  BY <1>1, BansSameGranted
<1>2. CASE \E b \in Bans : NewBan(b, s, "report", days, NoLinks)
  BY <1>2, NewBanGranted
<1> QED BY <1>1, <1>2 DEF BanAtReport

LEMMA StepGrants ==
    ASSUME TypeOK, Dated, NEW a \in Clerks,
           \/ Fail(a) \/ Reporting(a) \/ Corrections(a) \/ Defence(a)
           \/ Ruling(a) \/ Banning(a) \/ Approving(a)
    PROVE  DatesKept /\ Granted
<1>1. CASE Fail(a) \/ Defence(a) \/ Approving(a)
  <2>1. cases' = cases /\ bans' = bans
    BY <1>1 DEF Fail, Defence, Approving, tables, Respond, WithdrawResponse, ApproveCompany
  <2> QED BY <2>1, CasesSameDated, BansSameGranted
<1>2. CASE Reporting(a)
  <2>1. PICK c \in Cases, t \in Types, skip \in BOOLEAN :
            \/ \E k \in Companies : ReportCompany(a, c, k, t, skip)
            \/ \E u \in Users : ReportUser(a, c, u, t, skip)
    BY <1>2 DEF Reporting
  <2>2. CASE \E k \in Companies : ReportCompany(a, c, k, t, skip)
    BY <2>2, CaseAddedDated, BansSameGranted DEF ReportCompany
  <2>3. CASE \E u \in Users : ReportUser(a, c, u, t, skip)
    <3>1. PICK u \in Users : ReportUser(a, c, u, t, skip)
      BY <2>3
    <3>2. PICK cs : BanAtReport(open[a], cs, u)
      BY <3>1 DEF ReportUser
    <3>3. cases[c] = Blank /\ cases' = [cases EXCEPT ![c] = NewCase(c, u, t, skip)]
      BY <3>1 DEF ReportUser
    <3> QED BY <3>2, <3>3, CaseAddedDated, BanAtReportGranted
  <2> QED BY <2>1, <2>2, <2>3
<1>3. CASE Corrections(a)
  <2>1. PICK c \in Cases : \/ RemoveCompanyCase(a, c) \/ RemoveUserCase(c)
                           \/ \E points \in Leniency : AmendUserCase(c, points)
    BY <1>3 DEF Corrections
  <2>2. CASE RemoveCompanyCase(a, c) \/ RemoveUserCase(c)
    BY <2>2, CaseRemovedDated, BansSameGranted DEF RemoveCompanyCase, RemoveUserCase, Subjects
  <2>3. CASE \E points \in Leniency : AmendUserCase(c, points)
    BY <2>3, CaseWeighedDated, BansSameGranted DEF AmendUserCase, Subjects
  <2> QED BY <2>1, <2>2, <2>3
<1>4. CASE Ruling(a)
  <2>1. open[a] # Closed
    BY <1>4 DEF Ruling, Served
  <2>2. ASSUME NEW c \in Cases, NEW i \in 1 .. MaxRulings, RetractRuling(c, i)
        PROVE  DatesKept /\ Granted
    BY <2>2, CasesSameDated, BansSameGranted DEF RetractRuling
  <2>3. ASSUME NEW c \in Cases, NEW outcome \in Outcomes, NEW points \in Leniency,
               Decide(a, c, outcome, points)
        PROVE  DatesKept /\ Granted
    <3> DEFINE s == open[a].cases[c].subject
    <3>1. s # None /\ s = cases[c].subject /\ s \in Subjects
      BY <2>1, <2>3, SeenTyped DEF Decide
    <3>2. Granted
      <4>1. CASE outcome = "UPHELD"
        BY <2>1, <2>3, <3>1, <4>1, AutomaticBanGranted DEF Decide
      <4>2. CASE outcome # "UPHELD"
        BY <2>3, <4>2, BansSameGranted DEF Decide
      <4> QED BY <4>1, <4>2
    <3>3. DatesKept
      <4>1. CASE outcome = "EXONERATED"
        BY <2>3, <3>1, <4>1, CaseRemovedDated DEF Decide
      <4>2. CASE outcome = "REDUCED"
        BY <2>3, <3>1, <4>2, CaseWeighedDated DEF Decide
      <4>3. CASE outcome \notin {"EXONERATED", "REDUCED"}
        BY <2>3, <4>3, CasesSameDated DEF Decide
      <4> QED BY <4>1, <4>2, <4>3
    <3> QED BY <3>2, <3>3
  <2> QED BY <1>4, <2>2, <2>3 DEF Ruling
<1>5. CASE Banning(a)
  <2>1. PICK b \in Bans :
            \/ \E k \in Companies, c \in Cases, days \in Terms : BanCompany(a, b, k, c, days)
            \/ \E u \in Users, days \in Terms : BanUser(a, b, u, days)
            \/ UnbanCompany(a, b) \/ DeactivateBan(b)
            \/ \E ends \in Instants \cup {None}, days \in Terms \cup {0, None} :
                  AmendBan(b, ends, days)
    BY <1>5 DEF Banning
  <2>2. cases' = cases
    BY <2>1 DEF BanCompany, BanUser, UnbanCompany, DeactivateBan, AmendBan
  <2>3. CASE \/ \E k \in Companies, c \in Cases, days \in Terms : BanCompany(a, b, k, c, days)
             \/ \E u \in Users, days \in Terms : BanUser(a, b, u, days)
    <3>1. PICK s, days, links : NewBan(b, s, "admin", days, links)
      BY <2>3 DEF BanCompany, BanUser
    <3> QED BY <2>2, <3>1, NewBanGranted, CasesSameDated
  <2>4. CASE UnbanCompany(a, b) \/ DeactivateBan(b)
    BY <2>2, <2>4, BanChangedGranted, CasesSameDated DEF UnbanCompany, DeactivateBan, Subjects
  <2>5. CASE \E ends \in Instants \cup {None}, days \in Terms \cup {0, None} :
                 AmendBan(b, ends, days)
    <3>1. PICK ends, days : AmendBan(b, ends, days)
      BY <2>5
    <3>2. /\ bans[b].subject \in Subjects
          /\ bans' = [bans EXCEPT ![b] = Amended(bans[b], ends, days)]
      BY <3>1 DEF AmendBan, Subjects
    <3> QED BY <2>2, <3>2, BanChangedGranted, CasesSameDated
  <2> QED BY <2>1, <2>3, <2>4, <2>5
<1> QED BY <1>1, <1>2, <1>3, <1>4, <1>5

\* Cases that carry an earned ban keep their subject and date, so it stays earned.
LEMMA StaysEarned ==
    ASSUME TypeOK, TypeOK', BanIsEarned, Kept, DatesKept, Granted
    PROVE  BanIsEarned'
<1>1. ASSUME NEW ban \in BanType, ban.subject # None, Own(ban)
      PROVE  Own(ban)'
  <2>1. ban.subject \in Subjects /\ ban.links \in Links
    BY <1>1 DEF BanType, Unused
  <2>2. DOMAIN ban.links \subseteq Cases
    BY <2>1 DEF Links
  <2>3. ASSUME NEW c \in DOMAIN ban.links
        PROVE  cases'[c].subject = cases[c].subject /\ cases'[c].at = cases[c].at
    <3>1. c \in Cases /\ cases[c].subject # Blank.subject
      BY <1>1, <2>2 DEF Own, Blank
    <3> QED BY <3>1 DEF Kept, DatesKept
  <2> QED BY <1>1, <2>3 DEF Own
<1>2. ASSUME NEW b \in Bans, bans'[b].subject # None, bans'[b].by = "points"
      PROVE  Earned(bans[b])'
  <2>1. bans'[b] \in BanType
    BY DEF TypeOK
  <2>2. Earned(bans'[b])
    <3>1. CASE Same(b)
      <4>1. Earned(bans[b])
        BY <1>2, <3>1, EarnedForm DEF Same
      <4>2. Own(bans'[b])
        BY <3>1, <4>1 DEF Same, Earned, Own
      <4>3. Ruled(bans'[b])
        BY <3>1, <4>1 DEF Same, Earned, Ruled
      <4> QED BY <4>2, <4>3 DEF Earned
    <3>2. CASE ~Same(b)
      BY <1>2, <3>2 DEF Granted
    <3> QED BY <3>1, <3>2
  <2>3. \A ban \in BanType : ban.subject # None /\ Earned(ban) =>
            /\ Ruled(ban)
            /\ \A c \in DOMAIN ban.links :
                  /\ cases'[c].subject = ban.subject
                  /\ ban.at - Window <= cases'[c].at /\ cases'[c].at <= ban.at
    BY <1>1 DEF Earned, Own
  <2>4. Ruled(bans'[b])
    BY <1>2, <2>1, <2>2, <2>3
  <2> QED BY <1>2, <2>1, <2>2, <2>3, <2>4 DEF Earned, Own
<1> QED BY <1>2 DEF BanIsEarned, Earned, Own, Ruled

LEMMA StaysDated ==
    ASSUME TypeOK, Dated, NEW a \in Clerks, Served(a), Kept, DatesKept
    PROVE  Dated'
<1>1. open' = [open EXCEPT ![a] = Closed] /\ now' = now
  BY DEF Served, Close
<1>2. ASSUME NEW d \in Clerks, open'[d] # Closed, NEW c \in Cases, open'[d].cases[c] # Blank
      PROVE  cases'[c].at = open'[d].cases[c].at
  <2>1. d # a /\ open'[d] = open[d]
    BY <1>1, <1>2 DEF TypeOK
  <2>2. cases[c] # Blank /\ cases[c].at = open[d].cases[c].at
    BY <1>2, <2>1 DEF TypeOK, Dated
  <2> QED BY <2>1, <2>2 DEF DatesKept
<1> QED BY <1>1, <1>2 DEF Dated, DatesKept

LEMMA NextEarned == EInv /\ [Next]_vars => EInv'
<1> SUFFICES ASSUME EInv, [Next]_vars PROVE EInv'
  OBVIOUS
<1>1. TypeOK /\ Dated /\ BanIsEarned /\ TypeOK'
  BY NextTyped DEF EInv
<1>2. ASSUME UNCHANGED <<cases, bans>>
      PROVE  BanIsEarned'
  BY <1>1, <1>2 DEF BanIsEarned
<1>3. CASE UNCHANGED vars
  BY <1>1, <1>2, <1>3 DEF vars, EInv, Dated
<1>4. CASE Tick
  <2>1. cases' = cases /\ bans' = bans /\ open' = open /\ now' > now
    BY <1>4 DEF Tick, tables
  <2>2. now \in Nat /\ now' \in Nat
    BY <1>1, DelinquencyAssumption DEF TypeOK
  <2>3. ASSUME NEW c \in Cases
        PROVE  cases[c].at \in Nat
    <3>1. cases[c] \in CaseType
      BY <1>1 DEF TypeOK
    <3>2. cases[c].at \in Instants \cup {0}
      BY <3>1 DEF CaseType, Blank
    <3> QED BY <3>2, DelinquencyAssumption
  <2>4. Dated'
    BY <1>1, <2>1, <2>2, <2>3 DEF Dated
  <2> QED BY <1>1, <1>2, <2>1, <2>4 DEF EInv
<1>5. ASSUME NEW a \in Clerks, Begin(a)
      PROVE  EInv'
  <2>1. open' = [open EXCEPT ![a] = Snapshot] /\ UNCHANGED <<now, cases, bans>>
    BY <1>5 DEF Begin, tables
  <2>2. Dated'
    BY <1>1, <2>1 DEF Dated, TypeOK, Snapshot
  <2> QED BY <1>1, <1>2, <2>1, <2>2 DEF EInv
<1>6. ASSUME NEW a \in Clerks,
             \/ Fail(a) \/ Reporting(a) \/ Corrections(a) \/ Defence(a)
             \/ Ruling(a) \/ Banning(a) \/ Approving(a)
      PROVE  EInv'
  BY <1>1, <1>6, StepKeeps, StepGrants, StaysEarned, StaysDated DEF Keeps, EInv
<1> QED BY <1>3, <1>4, <1>5, <1>6 DEF Next

\* With any number of requests under way: every case is of the past, and what a
\* request read of its subject and its date holds until the request ends.
THEOREM EarnedInvariant == Spec => []EInv
<1>1. Init => EInv
  <2> SUFFICES ASSUME Init PROVE EInv
    OBVIOUS
  <2>1. TypeOK
    BY InitInv DEF IInv
  <2>2. Dated
    BY DEF Init, Dated, Blank
  <2>3. BanIsEarned
    BY DEF Init, BanIsEarned, Unused
  <2> QED BY <2>1, <2>2, <2>3 DEF EInv
<1> QED BY <1>1, NextEarned, PTL DEF Spec

\* A ban that a ruling gave is carried by the subject's own cases of the 30 days
\* before it, whose points reach a rule, and unless an admin wrote another
\* expiry it runs for as long as the hardest rule reached gives.
THEOREM BansAreEarned == Spec => []BanIsEarned
<1>1. EInv => BanIsEarned
  BY DEF EInv
<1> QED BY <1>1, EarnedInvariant, PTL
=============================================================================
