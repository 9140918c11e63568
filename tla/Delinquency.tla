----------------------------- MODULE Delinquency -----------------------------
(***************************************************************************)
(* Delinquencies of transport companies and of users, the defence, the     *)
(* ruling of an admin and the bans: CompanyDelinquency, UserDelinquency    *)
(* and their Response, AdminDecision, Ban and BanDelinquency tables, with  *)
(* the approval of a company and the last row of its CompanyProfileHistory.*)
(*                                                                         *)
(* Every request is one transaction: it reads a snapshot and writes what   *)
(* is there when it commits.  No table has a key on the case, so nothing   *)
(* but the snapshot keeps two requests apart.                              *)
(*                                                                         *)
(* Time is counted in hours and moves between requests.  Severity, texts,  *)
(* deadlines of a response (which only mark it late) and notifications are *)
(* left out, and so is the delivery confirmation a report may dispute.     *)
(***************************************************************************)
EXTENDS Integers, Sequences, FiniteSets, FiniteSetsExt

CONSTANTS
    Companies, Users,
    Cases,          \* delinquencies that can be recorded
    Bans,           \* bans that can be recorded
    Clerks,         \* requests that can be under way at once
    None,
    Types,          \* delinquency types, each named by its default points
    Leniency,       \* points an admin reduces or changes a case to
    Terms,          \* days of a ban an admin gives by hand
    Instants,       \* hours at which requests are served
    MaxRulings,     \* rulings on a case
    MaxResponses,   \* live responses to a case
    MaxRequests     \* requests served

Subjects == Companies \cup Users

ASSUME DelinquencyAssumption ==
    /\ Companies \cap Users = {} /\ None \notin Subjects
    /\ Types \subseteq Nat \ {0} /\ Leniency \subseteq Nat /\ Terms \subseteq Nat \ {0}
    /\ 0 \in Instants /\ Instants \subseteq Nat
    /\ MaxRulings \in Nat /\ MaxResponses \in Nat /\ MaxRequests \in Nat

DAY == 24
Window == 30 * DAY

VARIABLES
    now,
    approval,       \* TransportCompany.approvalStatus
    audit,          \* the newest CompanyProfileHistory row of each company
    cases,
    responses,      \* live responses to each case
    rulings,        \* the rulings on each case, in order
    bans,
    open,           \* the snapshot of each request under way
    requests        \* requests begun

tables == <<approval, audit, cases, responses, rulings, bans>>
vars == <<now, approval, audit, cases, responses, rulings, bans, open, requests>>

-----------------------------------------------------------------------------
Approvals == {"pending", "approved", "suspended", "rejected"}
Verdicts == {"approved", "suspended", "rejected"}
Outcomes == {"EXONERATED", "UPHELD", "REDUCED", "DISMISSED"}
Worths == Types \cup Leniency

Blank == [subject |-> None, type |-> 0, points |-> 0, at |-> 0, skip |-> FALSE,
          deleted |-> FALSE]
CaseType == {Blank} \cup
            [subject : Subjects, type : Types, points : Worths, at : Instants,
             skip : BOOLEAN, deleted : BOOLEAN]
RulingType == [outcome : Outcomes, deleted : BOOLEAN]

\* links: the points each linked case had.  moved: an admin wrote another expiry.
NoLinks == [c \in {} |-> 0]
Links == UNION {[S -> Worths \cup {0}] : S \in SUBSET Cases}
Unused == [subject |-> None, active |-> FALSE, by |-> "points", days |-> 0, at |-> 0,
           ends |-> 0, moved |-> FALSE, links |-> NoLinks]
BanType == {Unused} \cup
           [subject : Subjects, active : BOOLEAN, by : {"points", "report", "admin"},
            days : Nat, at : Instants, ends : Nat, moved : BOOLEAN, links : Links]

CompanyBanRules == <<[threshold |-> 90, duration |-> 365], [threshold |-> 60, duration |-> 90],
                     [threshold |-> 30, duration |-> 7], [threshold |-> 15, duration |-> 3]>>
UserBanRules == CompanyBanRules
ReportBanRules == <<[threshold |-> 50, duration |-> 30], [threshold |-> 35, duration |-> 7],
                    [threshold |-> 20, duration |-> 3], [threshold |-> 10, duration |-> 1]>>

Snapshot == [cases |-> cases, responses |-> responses, rulings |-> rulings, bans |-> bans,
             approval |-> approval]
SnapshotType == [cases : [Cases -> CaseType], responses : [Cases -> 0 .. MaxResponses],
                 rulings : [Cases -> Seq(RulingType)], bans : [Bans -> BanType],
                 approval : [Companies -> Approvals]]
Closed == [cases |-> None]

Init ==
    /\ now = 0
    /\ approval = [k \in Companies |-> "pending"]
    /\ audit = [k \in Companies |-> [old |-> None, new |-> "pending"]]
    /\ cases = [c \in Cases |-> Blank]
    /\ responses = [c \in Cases |-> 0]
    /\ rulings = [c \in Cases |-> <<>>]
    /\ bans = [b \in Bans |-> Unused]
    /\ open = [a \in Clerks |-> Closed]
    /\ requests = 0

-----------------------------------------------------------------------------
\* What a request sees and does.
Live(ban) == ban.active /\ ban.ends > now
Banned(seen, s) == \E b \in Bans : seen.bans[b].subject = s /\ Live(seen.bans[b])

\* Fault: points never lapse.
Counted_Forever(cs, s) == {c \in Cases : cs[c].subject = s /\ ~cs[c].deleted}

\* The cases of the last 30 days that were not cleared or removed.
Counted(cs, s) ==
    {c \in Cases : cs[c].subject = s /\ cs[c].at >= now - Window /\ ~cs[c].deleted}
Noted(cs, s) == [c \in Counted(cs, s) |-> cs[c].points]
Weight(links) == MapThenSumSet(LAMBDA c : links[c], DOMAIN links)
Total(cs, s) == Weight(Noted(cs, s))

\* The first rule reached; 0 days if there is none.
DaysOf(rules, total) ==
    LET reached == {i \in DOMAIN rules : total >= rules[i].threshold} IN
    IF reached = {} THEN 0 ELSE rules[Min(reached)].duration

Unruled(seen, c) == \A i \in DOMAIN seen.rulings[c] : seen.rulings[c][i].deleted

\* The request ends: what it wrote becomes visible.
Close(a) == open' = [open EXCEPT ![a] = Closed]
Served(a) == open[a] # Closed /\ Close(a) /\ UNCHANGED <<now, requests>>

\* recordStatusChange reads the status back after the caller's own writes.
Record(k, old, new) == audit' = [audit EXCEPT ![k] = [old |-> old, new |-> new]]

NewBan(b, s, by, days, links) ==
    /\ bans[b].subject = None
    /\ bans' = [bans EXCEPT ![b] =
           [subject |-> s, active |-> TRUE, by |-> by, days |-> days, at |-> now,
            ends |-> now + days * DAY, moved |-> FALSE, links |-> links]]

\* checkAndApplyAutomaticCompanyBan and checkAndApplyAutomaticUserBan: only
\* the company's ban is written to the history.
AutomaticBan(seen, s) ==
    LET days == DaysOf(IF s \in Companies THEN CompanyBanRules ELSE UserBanRules,
                       Total(seen.cases, s))
    IN IF Banned(seen, s) \/ days = 0 THEN UNCHANGED <<bans, audit>>
       ELSE /\ \E b \in Bans : NewBan(b, s, "points", days, Noted(seen.cases, s))
            /\ IF s \in Companies THEN Record(s, seen.approval[s], "suspended")
               ELSE UNCHANGED audit

-----------------------------------------------------------------------------
\* Reports.
NewCase(c, s, t, skip) ==
    [Blank EXCEPT !.subject = s, !.type = t, !.points = t, !.at = now, !.skip = skip]

\* createCompanyDelinquency.  The window of its duplicate check, INTERVAL 0.24
\* HOUR, is rounded to no time at all.
ReportCompany(a, c, k, t, skip) ==
    /\ cases[c] = Blank
    /\ skip \/ \A d \in Cases : LET seen == open[a].cases[d] IN
                   ~(seen.subject = k /\ seen.type = t /\ seen.at >= now)
    /\ cases' = [cases EXCEPT ![c] = NewCase(c, k, t, skip)]
    /\ UNCHANGED <<approval, audit, responses, rulings, bans>>

\* checkAndApplyAutomaticBan of a report: any active ban, expired or not, stops
\* it; no case is linked.
BanAtReport(seen, cs, s) ==
    LET days == DaysOf(ReportBanRules, Total(cs, s))
        active == \E b \in Bans : seen.bans[b].subject = s /\ seen.bans[b].active
    IN IF active \/ days = 0 THEN UNCHANGED bans
       ELSE \E b \in Bans : NewBan(b, s, "report", days, NoLinks)

\* createUserDelinquency.  The duplicate check compares the message of the list
\* it reads with one that is never given, so it refuses nothing.
ReportUser(a, c, u, t, skip) ==
    /\ cases[c] = Blank
    /\ cases' = [cases EXCEPT ![c] = NewCase(c, u, t, skip)]
    /\ BanAtReport(open[a], [open[a].cases EXCEPT ![c] = NewCase(c, u, t, skip)], u)
    /\ UNCHANGED <<approval, audit, responses, rulings>>

Reporting(a) ==
    /\ Served(a)
    /\ \E c \in Cases, t \in Types, skip \in BOOLEAN :
          \/ \E k \in Companies : ReportCompany(a, c, k, t, skip)
          \/ \E u \in Users : ReportUser(a, c, u, t, skip)

\* Fault: a case is removed whatever hangs on it, as for users.
RemoveCompanyCase_Unchecked(a, c) ==
    /\ cases[c].subject \in Companies /\ ~cases[c].deleted
    /\ cases' = [cases EXCEPT ![c].deleted = TRUE]
    /\ UNCHANGED <<approval, audit, responses, rulings, bans>>

\* deleteCompanyDelinquency: a case a ban is linked to stays.
RemoveCompanyCase(a, c) ==
    /\ cases[c].subject \in Companies /\ ~cases[c].deleted
    /\ \A b \in Bans : c \notin DOMAIN open[a].bans[b].links
    /\ cases' = [cases EXCEPT ![c].deleted = TRUE]
    /\ UNCHANGED <<approval, audit, responses, rulings, bans>>

\* deleteUserDelinquency.
RemoveUserCase(c) ==
    /\ cases[c].subject \in Users
    /\ cases' = [cases EXCEPT ![c].deleted = TRUE]
    /\ UNCHANGED <<approval, audit, responses, rulings, bans>>

\* updateUserDelinquency.
AmendUserCase(c, points) ==
    /\ cases[c].subject \in Users
    /\ cases' = [cases EXCEPT ![c].points = points]
    /\ UNCHANGED <<approval, audit, responses, rulings, bans>>

Corrections(a) ==
    /\ Served(a)
    /\ \E c \in Cases :
          \/ RemoveCompanyCase(a, c) \/ RemoveUserCase(c)
          \/ \E points \in Leniency : AmendUserCase(c, points)

-----------------------------------------------------------------------------
\* Defence and ruling.

\* createDelinquencyResponse, of either side; a ruling does not end the right
\* to respond.
Respond(a, c) ==
    /\ LET seen == open[a] IN
       /\ seen.cases[c] # Blank /\ ~seen.cases[c].deleted
       /\ seen.responses[c] = 0
    /\ responses[c] < MaxResponses
    /\ responses' = [responses EXCEPT ![c] = @ + 1]
    /\ UNCHANGED <<approval, audit, cases, rulings, bans>>

\* deleteDelinquencyResponse, which only users have.
WithdrawResponse(c) ==
    /\ cases[c].subject \in Users /\ responses[c] > 0
    /\ responses' = [responses EXCEPT ![c] = @ - 1]
    /\ UNCHANGED <<approval, audit, cases, rulings, bans>>

Defence(a) ==
    /\ Served(a)
    /\ \E c \in Cases : Respond(a, c) \/ WithdrawResponse(c)

\* createAdminDecision, of either side: it does not look whether the case was
\* removed, and what REDUCED gives may be more than it was.
Decide(a, c, outcome, points) ==
    LET seen == open[a]
        s == seen.cases[c].subject
    IN /\ s # None /\ Unruled(seen, c)
       /\ Len(rulings[c]) < MaxRulings
       /\ rulings' = [rulings EXCEPT ![c] =
              Append(@, [outcome |-> outcome, deleted |-> FALSE])]
       /\ cases' = CASE outcome = "EXONERATED" -> [cases EXCEPT ![c].deleted = TRUE]
                     [] outcome = "REDUCED" -> [cases EXCEPT ![c].points = points]
                     [] OTHER -> cases
       /\ IF outcome = "UPHELD" THEN AutomaticBan(seen, s) ELSE UNCHANGED <<bans, audit>>
       /\ UNCHANGED <<approval, responses>>

\* deleteAdminDecision, which only the side of companies has: what the ruling
\* did stays done.
RetractRuling(c, i) ==
    /\ cases[c].subject \in Companies
    /\ i \in DOMAIN rulings[c] /\ ~rulings[c][i].deleted
    /\ rulings' = [rulings EXCEPT ![c][i].deleted = TRUE]
    /\ UNCHANGED <<approval, audit, cases, responses, bans>>

Ruling(a) ==
    /\ Served(a)
    /\ \E c \in Cases :
          \/ \E outcome \in Outcomes, points \in Leniency : Decide(a, c, outcome, points)
          \/ \E i \in 1 .. MaxRulings : RetractRuling(c, i)

-----------------------------------------------------------------------------
\* Bans by hand, and the approval of a company.

\* Fault: an admin bans without looking for a ban that runs.
BanCompany_Unchecked(a, b, k, c, days) ==
    /\ cases[c] # Blank
    /\ NewBan(b, k, "admin", days, [d \in {c} |-> 0])
    /\ Record(k, open[a].approval[k], "suspended")
    /\ UNCHANGED <<approval, cases, responses, rulings>>

\* banCompany: any case may be named, whoever's it is.
BanCompany(a, b, k, c, days) ==
    /\ ~Banned(open[a], k) /\ cases[c] # Blank
    /\ NewBan(b, k, "admin", days, [d \in {c} |-> 0])
    /\ Record(k, open[a].approval[k], "suspended")
    /\ UNCHANGED <<approval, cases, responses, rulings>>

\* unbanCompany.
UnbanCompany(a, b) ==
    /\ bans[b].subject \in Companies
    /\ bans' = [bans EXCEPT ![b].active = FALSE]
    /\ Record(bans[b].subject, open[a].approval[bans[b].subject], "approved")
    /\ UNCHANGED <<approval, cases, responses, rulings>>

\* banUser; what it does to the account is the module Account's.
BanUser(a, b, u, days) ==
    /\ ~Banned(open[a], u)
    /\ NewBan(b, u, "admin", days, NoLinks)
    /\ UNCHANGED <<approval, audit, cases, responses, rulings>>

\* unbanUser and deactivateBan.
DeactivateBan(b) ==
    /\ bans[b].subject \in Users
    /\ bans' = [bans EXCEPT ![b].active = FALSE]
    /\ UNCHANGED <<approval, audit, cases, responses, rulings>>

\* updateBannedUser: the expiry and the length are written apart, each if it
\* is given.
Amended(ban, ends, days) ==
    [ban EXCEPT !.ends = IF ends = None THEN ban.ends ELSE ends,
                !.days = IF days = None THEN ban.days ELSE days,
                !.moved = ban.moved \/ ends # None]

AmendBan(b, ends, days) ==
    /\ bans[b].subject \in Users
    /\ {ends, days} # {None}
    /\ bans' = [bans EXCEPT ![b] = Amended(bans[b], ends, days)]
    /\ UNCHANGED <<approval, audit, cases, responses, rulings>>

Banning(a) ==
    /\ Served(a)
    /\ \E b \in Bans :
          \/ \E k \in Companies, c \in Cases, days \in Terms : BanCompany(a, b, k, c, days)
          \/ \E u \in Users, days \in Terms : BanUser(a, b, u, days)
          \/ UnbanCompany(a, b) \/ DeactivateBan(b)
          \/ \E ends \in Instants \cup {None}, days \in Terms \cup {0, None} :
                AmendBan(b, ends, days)

\* approveCompany: the history is written after the update, whose value
\* recordStatusChange reads as the previous status.
ApproveCompany(k, status) ==
    /\ approval' = [approval EXCEPT ![k] = status]
    /\ Record(k, approval'[k], status)
    /\ UNCHANGED <<cases, responses, rulings, bans>>

Approving(a) ==
    /\ Served(a)
    /\ \E k \in Companies, status \in Verdicts : ApproveCompany(k, status)

-----------------------------------------------------------------------------
\* A request begins; it may also fail and leave nothing.
Begin(a) ==
    /\ open[a] = Closed /\ requests < MaxRequests
    /\ requests' = requests + 1
    /\ open' = [open EXCEPT ![a] = Snapshot]
    /\ UNCHANGED <<now, tables>>

Fail(a) == Served(a) /\ UNCHANGED tables

Tick ==
    /\ \A a \in Clerks : open[a] = Closed
    /\ \E t \in Instants : t > now /\ now' = t
    /\ UNCHANGED <<tables, open, requests>>

Next ==
    \/ \E a \in Clerks :
          \/ Begin(a) \/ Fail(a) \/ Reporting(a) \/ Corrections(a) \/ Defence(a)
          \/ Ruling(a) \/ Banning(a) \/ Approving(a)
    \/ Tick

Spec == Init /\ [][Next]_vars

-----------------------------------------------------------------------------
\* Properties.

\* Every variable has its type.
TypeOK ==
    /\ now \in Instants
    /\ approval \in [Companies -> Approvals]
    /\ audit \in [Companies -> [old : Approvals \cup {None}, new : Approvals]]
    /\ cases \in [Cases -> CaseType]
    /\ responses \in [Cases -> 0 .. MaxResponses]
    /\ rulings \in [Cases -> Seq(RulingType)]
    /\ \A c \in Cases : Len(rulings[c]) <= MaxRulings
    /\ bans \in [Bans -> BanType]
    /\ open \in [Clerks -> {Closed} \cup SnapshotType]
    /\ requests \in 0 .. MaxRequests
    /\ \A a \in Clerks : open[a] # Closed => \A c \in Cases :
          open[a].cases[c] # Blank =>
             cases[c] # Blank /\ cases[c].subject = open[a].cases[c].subject

\* The rules that the points of a ban's cases reach.
RulesReached(links) ==
    {r \in {CompanyBanRules[i] : i \in DOMAIN CompanyBanRules} :
         Weight(links) >= r.threshold}

\* A ban that a ruling gave is carried by the cases linked to it: they are the
\* subject's own, from the 30 days before it, and the points noted with them
\* reach a rule; unless an admin wrote another expiry, the ban runs for as long
\* as the hardest of the rules reached gives, whatever length was written next
\* to it since.  (CompanyBanDelinquency and BannedUserDelinquency "record WHICH
\* delinquencies contributed".)
BanIsEarned ==
    \A b \in Bans : LET ban == bans[b] IN
        ban.subject # None /\ ban.by = "points" =>
            /\ \A c \in DOMAIN ban.links :
                  /\ cases[c].subject = ban.subject
                  /\ ban.at - Window <= cases[c].at /\ cases[c].at <= ban.at
            /\ RulesReached(ban.links) # {}
            /\ \/ ban.moved
               \/ \E r \in RulesReached(ban.links) :
                     /\ ban.ends = ban.at + r.duration * DAY
                     /\ \A q \in RulesReached(ban.links) : q.duration <= r.duration

\* Served one after the other, no requests ban a subject twice over: of two
\* live bans an admin moved the end of one.
OneLiveBan ==
    \A b, d \in Bans :
        /\ b # d /\ bans[b].subject = bans[d].subject /\ bans[b].subject # None
        /\ Live(bans[b]) /\ Live(bans[d])
        => bans[b].moved \/ bans[d].moved

\* A company's case that carries a ban leaves the record only with a ruling
\* that clears the company.
EvidenceKept ==
    \A c \in Cases :
        /\ cases[c].subject \in Companies /\ ~cases[c].deleted /\ cases'[c].deleted
        /\ \E b \in Bans : c \in DOMAIN bans[b].links
        => \E i \in DOMAIN rulings'[c] :
              rulings'[c][i] = [outcome |-> "EXONERATED", deleted |-> FALSE]
EvidenceStays == [][EvidenceKept]_vars

\* One decision per delinquency (docs/DelinquencyLifecycle.js).  Not so: two
\* admins who rule at once both find the case undecided.
OneDecision ==
    \A c \in Cases : Cardinality({i \in DOMAIN rulings[c] : ~rulings[c][i].deleted}) <= 1

\* A report that takes a user's points to a rule leaves the user banned
\* (CommissionEvasion: the second offence gives 30 days).  Not so: a ban that
\* has run out is still active and stops every later one.
ReportedIsBanned ==
    [][\A u \in Users :
          /\ \E c \in Cases : cases[c] = Blank /\ cases'[c].subject = u
          /\ DaysOf(ReportBanRules, Total(cases', u)) > 0
          => \E b \in Bans : bans'[b].subject = u /\ Live(bans'[b])]_vars

\* A report of a user that asks for the duplicate check does not repeat one of
\* the last 24 hours (createUserDelinquency, step 4).  Not so: the check looks
\* for a message the list never has.
NoTwin ==
    \A c, d \in Cases :
        /\ c # d /\ cases[c].subject \in Users /\ cases[c].subject = cases[d].subject
        /\ cases[c].type = cases[d].type
        /\ cases[c].at - DAY <= cases[d].at /\ cases[d].at <= cases[c].at
        => cases[c].skip \/ cases[d].skip

\* A row of the company's history names the status the company had before
\* (CompanyProfileHistory: fromStatus).  Not so after an approval.
PreviousIsNamed ==
    [][\A k \in Companies : audit'[k] # audit[k] => audit'[k].old = approval[k]]_vars

=============================================================================
