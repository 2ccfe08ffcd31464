---------------------------- MODULE DeskSessions ----------------------------
(***************************************************************************)
(* Five desks where people decide on a document, several at once, statement *)
(* by statement on PostgreSQL:                                             *)
(*   factory approvals            src/app/smartfactory/approvals.py        *)
(*   new catalogue items          src/app/approvals/item_requests.py       *)
(*   probation reviews            src/app/probation/services.py            *)
(*   engineering justifications   src/app/maintenance/eng_justification.py *)
(*   wash recipe versions         src/app/wash/services.py                 *)
(*                                                                         *)
(* A function reads, decides, and leaves a list of statements to execute.  *)
(* The desks share no table, so a behaviour is about one of them.  Together *)
(* names the pairs of functions an instance lets overlap on one document.  *)
(***************************************************************************)
EXTENDS ReadCommitted, Sequences, FiniteSets, FiniteSetsExt

CONSTANTS
    Approval, Ladders,          \* a factory approval; the sets of levels a cost may ask for
    ItemRequests, Codes, Line,  \* requests for an item, the codes, a request line that names it
    MaxCases, MaxReopens,       \* bounds: cases of one employee, and how often they are reopened
    Sheets,                     \* contents of an evaluation
    Report, Engineers,          \* a justification report, and who writes and signs it
    Versions, Baths, Dips,      \* of one recipe: versions, lines of their steps, lab dips
    Verdicts,                   \* what a lab dip is given
    MaxDips,                    \* bound: lab dips of one version
    Together                    \* sets of functions that may overlap on a document

VARIABLES
    desk,           \* the desk this behaviour is about (it never changes)
    job             \* job[s]: the function session s executes, and what is left of it

vars == <<db, mine, desk, job>>

\* Levels are numbered from 1, and the rows of a desk are different rows.
ASSUME DeskAssumption ==
    /\ \A L \in Ladders : IsFiniteSet(L) /\ L = 1 .. Cardinality(L)
    /\ MaxCases \in Nat \ {0} /\ MaxReopens \in Nat /\ MaxDips \in Nat
    /\ Verdicts \subseteq {"pending", "approved", "rejected", "resubmit"}
    /\ \A l \in UNION Ladders : Approval # <<Approval, l>>
    /\ ItemRequests \cap Codes = {} /\ Line \notin ItemRequests \cup Codes
    /\ Versions # {} /\ Versions \cap Baths = {} /\ (Versions \cup Baths) \cap Dips = {}
    /\ \A v \in Versions : <<"bell", v>> \notin Versions \cup Baths \cup Dips

NoRow == [status |-> "none"]
Idle == [op |-> "idle", doc |-> "none", todo |-> <<>>]

Step(l) == <<Approval, l>>
Levels == UNION Ladders
Case(n) == <<"case", n>>
Evaluation(n) == <<"evaluation", n>>
Cases == 1 .. MaxCases
Bell(v) == <<"bell", v>>

\* The rows of each desk.
Rows ==
    [factory |-> {Approval} \cup {Step(l) : l \in Levels},
     catalogue |-> ItemRequests \cup Codes \cup {Line},
     probation |-> {Case(n) : n \in Cases} \cup {Evaluation(n) : n \in Cases},
     justification |-> {Report},
     wash |-> Versions \cup Baths \cup Dips \cup {Bell(v) : v \in Versions}]

Desks == DOMAIN Rows

Init ==
    /\ desk \in Desks
    /\ db = [r \in Rows[desk] |->
              IF desk = "catalogue" /\ r = Line THEN [status |-> "typed", item |-> "none"] ELSE NoRow]
    /\ mine = [s \in Sessions |-> NoRows]
    /\ job = [s \in Sessions |-> Idle]

Made(r) == db[r].status # "none"

\* Functions of a probation review that move the case and its evaluation.
CaseMovers == {"submit", "forward", "returned", "rejected", "approved", "reopen", "cancel"}

Ops ==
    CaseMovers \cup
    {"sign", "refuse", "catalogue", "deny", "open", "save", "send", "endorse", "decline",
     "line", "standard", "withdraw", "pass", "revoke"}

\* The pairs of functions that harm each other when they overlap on a document.
Harmful ==
    {{"sign"}, {"sign", "refuse"},
     {"catalogue"}, {"catalogue", "deny"},
     {"open"}, {"open", "cancel"}, {"save", "submit"}, {"save", "cancel"},
     {"send"}, {"endorse"}, {"endorse", "decline"},
     {"line", "standard"}, {"line", "withdraw"}, {"standard"}, {"standard", "revoke"}, {"revoke"}}
    \cup ({{f, g} : f, g \in CaseMovers} \ {{"reopen"}, {"cancel"}, {"reopen", "cancel"}})

(***************************************************************************)
(* Statements, and the functions as what they leave to do.                 *)
(***************************************************************************)
Update(r, cols) == [does |-> "update", row |-> r, cols |-> cols]
Insert(r, row) == [does |-> "insert", row |-> r, cols |-> row]
Add(r, col) == [does |-> "add", row |-> r, cols |-> col]
Link(c) == [does |-> "link", row |-> Line, cols |-> c]
Retire(v) == [does |-> "retire", row |-> v, cols |-> NoRows]
Ring(v) == [does |-> "ring", row |-> v, cols |-> NoRows]
Number == [does |-> "number", row |-> "none", cols |-> NoRows]
CommitNow == [does |-> "commit", row |-> "none", cols |-> NoRows]

Begin(s, op, doc, todo) ==
    /\ job[s] = Idle
    /\ \A t \in Sessions \ {s} : job[t].doc = doc => {op, job[t].op} \in Together
    /\ job' = [job EXCEPT ![s] = [op |-> op, doc |-> doc, todo |-> todo]]
    /\ Read

One(r, row) == [x \in {r} |-> row]

\* A new document, in one transaction nobody else can see into.
Create(r, rows) ==
    /\ ~Made(r)
    /\ db' = Over(rows, db)
    /\ UNCHANGED <<mine, job>>

(***************************************************************************)
(* Factory approvals.                                                      *)
(***************************************************************************)
submit(L) ==
    Create(Approval,
           Over(One(Approval, [status |-> IF L = {} THEN "auto_approved" ELSE "pending",
                               level |-> 1, total |-> Cardinality(L)]),
                [r \in {Step(l) : l \in L} |-> [status |-> "pending"]]))

Open(status) == status \in {"pending", "escalated"}

\* The rung of the level in hand, if it still waits.
SignStep(s, a, verdict) ==
    IF Step(a.level) \in DOMAIN db /\ Seen(s, Step(a.level)).status = "pending"
    THEN <<Update(Step(a.level), [status |-> verdict])>> ELSE <<>>

\* Mutant: one level too few.
MoreToSignBut(a) == a.level + 1 < a.total

MoreToSign(a) == a.level < a.total

decide(s, verdict) ==
    LET a == Seen(s, Approval)
    IN  /\ Open(a.status)
        /\ Begin(s, IF verdict = "approved" THEN "sign" ELSE "refuse", Approval,
                 SignStep(s, a, verdict)
                 \o (IF verdict = "approved" /\ MoreToSign(a) THEN <<Add(Approval, "level")>>
                     ELSE <<Update(Approval, [status |-> verdict])>>)
                 \o <<CommitNow>>)

(***************************************************************************)
(* New items for the catalogue.  The code is a UNIQUE column.              *)
(***************************************************************************)
create_item_request(q) ==
    Create(q, One(q, [status |-> "pending", code |-> "none"]))

Pending(s, q) == Seen(s, q).status = "pending"

approve_item_request(s, q, c) ==
    /\ Pending(s, q) /\ Seen(s, c).status = "none"
    /\ Begin(s, "catalogue", q,
             <<Insert(c, [status |-> "active", of |-> q]),
               Update(q, [status |-> "approved", code |-> c]), Link(c), CommitNow>>)

reject_item_request(s, q) ==
    /\ Pending(s, q)
    /\ Begin(s, "deny", q, <<Update(q, [status |-> "rejected"]), CommitNow>>)

(***************************************************************************)
(* Probation reviews of one employee.                                      *)
(***************************************************************************)
ACTIVE == {"draft", "pending_manager", "pending_hr_review", "returned"}
EDITABLE_BY_EVALUATOR == {"draft", "returned"}
Employee == "employee"

NoActiveCase(s) == \A n \in Cases : Seen(s, Case(n)).status \notin ACTIVE

\* create_case: the number of the new case is counted in a statement of its own.
create_case(s) ==
    /\ NoActiveCase(s) /\ ~Made(Case(MaxCases))
    /\ Begin(s, "open", Employee, <<Number>>)

NewCase(n) ==
    <<Insert(Case(n), [status |-> "draft", reopens |-> 0]), CommitNow,
      Insert(Evaluation(n), [status |-> "draft", sheet |-> "blank"]), CommitNow>>

\* Evaluation and case move together.
Both(n, status) == <<Update(Evaluation(n), [status |-> status]), Update(Case(n), [status |-> status])>>

\* Mutant: the case is left behind.
MoveToAlone(n, status) == <<Update(Evaluation(n), [status |-> status]), CommitNow>>

MoveTo(n, status) == Both(n, status) \o <<CommitNow>>

Editable(s, n) == Seen(s, Evaluation(n)).status \in EDITABLE_BY_EVALUATOR

save_evaluation(s, n, x) ==
    /\ Editable(s, n)
    /\ Begin(s, "save", Employee, <<Update(Evaluation(n), [sheet |-> x]), CommitNow>>)

submit_evaluation(s, n, to) ==
    /\ Editable(s, n) /\ Seen(s, Evaluation(n)).sheet # "blank"
    /\ Begin(s, "submit", Employee, MoveTo(n, to))

manager_forward(s, n) ==
    /\ Seen(s, Evaluation(n)).status = "pending_manager"
    /\ Begin(s, "forward", Employee, MoveTo(n, "pending_hr_review"))

ForHR(s, n) == Seen(s, Evaluation(n)).status = "pending_hr_review"

hr_decide(s, n, verdict) ==
    /\ ForHR(s, n)
    /\ Begin(s, verdict, Employee, MoveTo(n, verdict))

Reopens == MapThenSumSet(LAMBDA n : IF Made(Case(n)) THEN db[Case(n)].reopens ELSE 0, Cases)

admin_reopen(s, n) ==
    /\ Seen(s, Evaluation(n)).status # "none" /\ Reopens < MaxReopens
    /\ Begin(s, "reopen", Employee,
             Both(n, "returned") \o <<Add(Case(n), "reopens"), CommitNow>>)

cancel_case(s, n) ==
    /\ Seen(s, Case(n)).status # "none"
    /\ Begin(s, "cancel", Employee,
             <<Update(Case(n), [status |-> "cancelled"]), Update(Evaluation(n), [status |-> "cancelled"]),
               CommitNow>>)

(***************************************************************************)
(* Engineering justification reports.                                      *)
(***************************************************************************)
create_report(e) ==
    Create(Report, One(Report, [status |-> "draft", by |-> e, decided |-> "none"]))

submit_report(s) ==
    /\ Seen(s, Report).status \in {"draft", "rejected"}
    /\ Begin(s, "send", Report, <<Update(Report, [status |-> "submitted"]), CommitNow>>)

\* Mutant: a signed report may be decided again.
SubmittedOnce(s) == Seen(s, Report).status \notin {"none", "draft", "rejected"}

Submitted(s) == Seen(s, Report).status = "submitted"

decide_report(s, e, verdict) ==
    /\ Submitted(s)
    /\ verdict = "approved" => e # Seen(s, Report).by
    /\ Begin(s, IF verdict = "approved" THEN "endorse" ELSE "decline", Report,
             <<Update(Report, [status |-> verdict, decided |-> e]), CommitNow>>)

(***************************************************************************)
(* Versions of a wash recipe.                                              *)
(***************************************************************************)
Recipe == "recipe"

On(s, v) == {k \in Baths : Seen(s, k).status # "none" /\ Seen(s, k).on = v}
Passed(s, v) == {d \in Dips : Seen(s, d).status = "approved" /\ Seen(s, d).of = v}
\* Ids are drawn in order.
Unused(rows) == {r \in rows : ~Made(r)}
NewKey(rows) == CHOOSE r \in rows : r \in Unused(rows)
Fresh(k) == ~Made(k) /\ \A s \in Sessions : k \notin DOMAIN mine[s]
            /\ \A i \in DOMAIN job[s].todo : job[s].todo[i].row # k

create_recipe ==
    /\ Unused(Versions) = Versions
    /\ LET v == NewKey(Versions) IN Create(v, One(v, [status |-> "draft"]))

\* new_version: a draft with a copy of every line.
new_version(src) ==
    LET v == NewKey(Versions)
        lines == {k \in Baths : Made(k) /\ db[k].on = src}
        places == {c \in SUBSET {k \in Baths : Fresh(k)} : Cardinality(c) = Cardinality(lines)}
        copies == CHOOSE c \in places : TRUE
    IN  /\ Made(src) /\ Unused(Versions) # {} /\ places # {}
        /\ Create(v, Over(One(v, [status |-> "draft"]), [k \in copies |-> [status |-> "line", on |-> v]]))

Draft(s, v) == Seen(s, v).status = "draft"

\* add_step and add_chemical: a row of a child table, for a version that is a draft.
add_line(s, v) ==
    LET k == CHOOSE f \in Baths : Fresh(f)
    IN  /\ Draft(s, v) /\ \E f \in Baths : Fresh(f)
        /\ Begin(s, "line", Recipe, <<Insert(k, [status |-> "line", on |-> v]), CommitNow>>)

ApproveVersion(v) == <<Retire(v), Update(v, [status |-> "approved"]), CommitNow>>

set_version_status(s, v, status) ==
    /\ Seen(s, v).status \notin {"none", status}
    /\ status = "approved" => On(s, v) # {} /\ Passed(s, v) # {}
    /\ Begin(s, IF status = "approved" THEN "standard" ELSE "withdraw", Recipe,
             IF status = "approved" THEN ApproveVersion(v)
             ELSE <<Update(v, [status |-> status]), CommitNow>>)

create_labdip(v) ==
    /\ Made(v) /\ Unused(Dips) # {} /\ Cardinality({d \in Dips : Made(d) /\ db[d].of = v}) < MaxDips
    /\ LET d == NewKey(Dips) IN Create(d, One(d, [status |-> "pending", of |-> v]))

Alarming(verdict) == verdict \in {"rejected", "resubmit"}

set_labdip_verdict(s, d, verdict) ==
    /\ Seen(s, d).status \notin {"none", verdict}
    /\ Begin(s, IF Alarming(verdict) THEN "revoke" ELSE "pass", Recipe,
             <<Update(d, [status |-> verdict])>>
             \o (IF Alarming(verdict) THEN <<Ring(Seen(s, d).of)>> ELSE <<>>) \o <<CommitNow>>)

(***************************************************************************)
(* The statements.                                                         *)
(***************************************************************************)
Due(s, does) == job[s].todo # <<>> /\ Head(job[s].todo).does = does
Finished(j) == IF Len(j.todo) = 1 THEN Idle ELSE [j EXCEPT !.todo = Tail(@)]
Continue(s) == job' = [job EXCEPT ![s] = Finished(@)]
Quit(s) == job' = [job EXCEPT ![s] = Idle]
Row(s) == Head(job[s].todo).row
Cols(s) == Head(job[s].todo).cols

\* An UPDATE by key: of the named columns, of no row when there is none.
ExecuteUpdate(s) ==
    /\ Due(s, "update") /\ Continue(s)
    /\ IF Seen(s, Row(s)).status = "none" THEN Read ELSE Write(s, Row(s), Over(Cols(s), Seen(s, Row(s))))

\* UPDATE ... SET col = col + 1
ExecuteAdd(s) ==
    /\ Due(s, "add") /\ Continue(s)
    /\ Write(s, Row(s), [Seen(s, Row(s)) EXCEPT ![Cols(s)] = @ + 1])

\* An INSERT: waits for whoever is inserting the same key, and fails when it is there.
ExecuteInsert(s) ==
    /\ Due(s, "insert") /\ Free(s, Row(s))
    /\ \/ ~Made(Row(s)) /\ Write(s, Row(s), Cols(s)) /\ Continue(s)
       \/ Made(Row(s)) /\ Rollback(s) /\ Quit(s)

\* UPDATE pr_items ... WHERE item_id IS NULL
ExecuteLink(s) ==
    /\ Due(s, "link") /\ Continue(s)
    /\ IF Seen(s, Line).item # "none" THEN Read ELSE Write(s, Line, [Seen(s, Line) EXCEPT !.item = Cols(s)])

\* UPDATE wsh_versions ... WHERE id != ? AND status = 'approved'
ExecuteRetire(s) ==
    LET others == {v \in Versions \ {Row(s)} : Seen(s, v).status = "approved"}
    IN  /\ Due(s, "retire") /\ Continue(s)
        /\ WriteAll(s, [v \in others |-> [status |-> "retired"]])

\* The critical bell: a live version without an approved dip.
ExecuteRing(s) ==
    LET v == Row(s)
        live == Seen(s, v).status = "approved" /\ Passed(s, v) = {}
    IN  /\ Due(s, "ring") /\ Continue(s)
        /\ IF live THEN Write(s, Bell(v), [status |-> "critical"]) ELSE Read

\* SELECT COUNT(*): the number of the new case.
ExecuteNumber(s) ==
    LET n == Cardinality({m \in Cases : Made(Case(m))}) + 1
    IN  /\ Due(s, "number") /\ n \in Cases
        /\ job' = [job EXCEPT ![s].todo = NewCase(n)]
        /\ Read

ExecuteCommit(s) == Due(s, "commit") /\ Commit(s) /\ Continue(s)

Stop(s) == job[s] # Idle /\ Rollback(s) /\ Quit(s)

\* The rows the next statement changes.
Wanted(s) ==
    IF Due(s, "update") \/ Due(s, "add") \/ Due(s, "insert") THEN {Row(s)}
    ELSE IF Due(s, "link") THEN {Line}
    ELSE IF Due(s, "ring") THEN {Bell(Row(s))}
    ELSE IF Due(s, "retire") THEN {v \in Versions \ {Row(s)} : db[v].status = "approved"} ELSE {}

\* Mutant: a session waits for a lock as long as it takes.
LockTimeoutOff(s) == FALSE

\* lock_timeout: the statement fails and ends the request.
LockTimeout(s) == (\E r \in Wanted(s) : ~Free(s, r)) /\ Stop(s)

Work(s) ==
    /\ \/ ExecuteUpdate(s) \/ ExecuteAdd(s) \/ ExecuteInsert(s) \/ ExecuteLink(s) \/ ExecuteRetire(s)
       \/ ExecuteRing(s) \/ ExecuteNumber(s) \/ ExecuteCommit(s) \/ LockTimeout(s)
    /\ UNCHANGED desk

FactoryDesk(s) == \E verdict \in {"approved", "rejected"} : decide(s, verdict)

CatalogueDesk(s) == \E q \in ItemRequests :
    \/ \E c \in Codes : approve_item_request(s, q, c)
    \/ reject_item_request(s, q)

ProbationDesk(s) ==
    \/ create_case(s)
    \/ \E n \in Cases :
         \/ \E x \in Sheets : save_evaluation(s, n, x)
         \/ \E to \in {"pending_manager", "pending_hr_review"} : submit_evaluation(s, n, to)
         \/ manager_forward(s, n)
         \/ \E verdict \in {"returned", "rejected", "approved"} : hr_decide(s, n, verdict)
         \/ admin_reopen(s, n) \/ cancel_case(s, n)

JustificationDesk(s) ==
    \/ submit_report(s)
    \/ \E e \in Engineers, verdict \in {"approved", "rejected"} : decide_report(s, e, verdict)

WashDesk(s) ==
    \/ \E v \in Versions :
         \/ add_line(s, v)
         \/ \E status \in {"approved", "retired"} : set_version_status(s, v, status)
    \/ \E d \in Dips, verdict \in Verdicts : set_labdip_verdict(s, d, verdict)

Start(s) ==
    /\ \/ desk = "factory" /\ FactoryDesk(s)
       \/ desk = "catalogue" /\ CatalogueDesk(s)
       \/ desk = "probation" /\ ProbationDesk(s)
       \/ desk = "justification" /\ JustificationDesk(s)
       \/ desk = "wash" /\ WashDesk(s)
    /\ UNCHANGED desk

Raise ==
    /\ \/ desk = "factory" /\ \E L \in Ladders : submit(L)
       \/ desk = "catalogue" /\ \E q \in ItemRequests : create_item_request(q)
       \/ desk = "justification" /\ \E e \in Engineers : create_report(e)
       \/ desk = "wash" /\ (create_recipe \/ \E v \in Versions : new_version(v) \/ create_labdip(v))
    /\ UNCHANGED desk

Next == Raise \/ \E s \in Sessions : Start(s) \/ Work(s) \/ (Stop(s) /\ UNCHANGED desk)

\* A thread executes its statements until its request is answered or it stops.
Spec == Init /\ [][Next]_vars /\ \A s \in Sessions : WF_vars(Work(s))

(***************************************************************************)
(* Properties.                                                             *)
(***************************************************************************)
Statuses == {"none", "typed", "pending", "approved", "rejected", "auto_approved", "active", "draft",
             "pending_manager", "pending_hr_review", "returned", "cancelled", "submitted", "line",
             "retired", "critical", "resubmit"}

\* The rows of the desk a behaviour is about have the values their columns may have.
TypeOK ==
    /\ \A r \in DOMAIN db : db[r].status \in Statuses
    /\ desk = "factory" /\ Made(Approval) =>
         db[Approval].level = 1 \/ db[Approval].level \in 1 .. db[Approval].total
    /\ \A s \in Sessions : mine[s] # NoRows => job[s] # Idle

\* What a factory approval grants was signed at every level its cost asks for.
SignedAtEveryLevel ==
    desk = "factory" /\ db[Approval].status = "approved" =>
        \A l \in 1 .. db[Approval].total : db[Step(l)].status = "approved"

\* An answer stands: a factory approval, an item request.
AnswerStands ==
    [][\A r \in DOMAIN db :
         /\ (desk = "factory" /\ r = Approval) \/ (desk = "catalogue" /\ r \in ItemRequests)
         /\ db[r].status \in {"approved", "rejected", "auto_approved"}
         => UNCHANGED db[r]]_vars

\* Every item in the catalogue answers one request, and that request names it; the request
\* line that is linked is linked to such an item.
CatalogueTrue ==
    desk = "catalogue" =>
    /\ \A c \in Codes : Made(c) => db[db[c].of].status = "approved" /\ db[db[c].of].code = c
    /\ \A q \in ItemRequests : db[q].status = "approved" => Made(db[q].code) /\ db[db[q].code].of = q
    /\ db[Line].item # "none" => Made(db[Line].item)

\* One active case per employee, unless an administrator reopened one.
OneActive ==
    desk = "probation" => \A m, n \in Cases :
        m # n /\ {db[Case(m)].status, db[Case(n)].status} \subseteq ACTIVE
            => db[Case(m)].reopens + db[Case(n)].reopens > 0

\* A case says what its evaluation says.
CaseFollows ==
    desk = "probation" => \A n \in Cases :
        Made(Evaluation(n)) => db[Evaluation(n)].status = db[Case(n)].status

\* What HR decided is not undone by a step that was under way: only a reopening or a
\* cancellation leaves a decision, and HR decides on what was submitted.
ReviewSteps ==
    [][desk = "probation" => \A n \in Cases :
         LET was == db[Case(n)].status
             now == db'[Case(n)].status
         IN  was # now =>
               \/ now \in {"draft", "returned", "cancelled"}
               \/ was \in EDITABLE_BY_EVALUATOR /\ now \in {"pending_manager", "pending_hr_review"}
               \/ was = "pending_manager" /\ now = "pending_hr_review"
               \/ was = "pending_hr_review" /\ now \in {"approved", "rejected"}]_vars

\* An evaluation is not written in once it is submitted.
SheetFrozen ==
    [][desk = "probation" => \A n \in Cases :
         Made(Evaluation(n)) /\ db[Evaluation(n)].status \notin EDITABLE_BY_EVALUATOR
             => db'[Evaluation(n)].sheet = db[Evaluation(n)].sheet]_vars

\* A signed justification report stays as it was signed.
ReportStands ==
    [][desk = "justification" /\ db[Report].status = "approved" => UNCHANGED db[Report]]_vars

\* At most one version of a recipe is the bulk standard.
OneStandard ==
    desk = "wash" => \A v, w \in Versions :
        db[v].status = "approved" /\ db[w].status = "approved" => v = w

\* The lines of a version that bulk may have run against never change.
SnapshotKept ==
    [][desk = "wash" => \A v \in Versions : db[v].status \in {"approved", "retired"} =>
         {k \in Baths : db'[k].status # "none" /\ db'[k].on = v}
           = {k \in Baths : Made(k) /\ db[k].on = v}]_vars

\* Bulk standing on no approved lab dip is known: the critical bell has rung.
ShadeBacked ==
    desk = "wash" => \A v \in Versions : db[v].status = "approved" =>
        Made(Bell(v)) \/ \E d \in Dips : db[d].status = "approved" /\ db[d].of = v

\* What a desk grants rests on what it asks for: signatures at every level, one request
\* behind every item, one standard with a dip behind it.
GrantsBacked == TypeOK /\ SignedAtEveryLevel /\ CatalogueTrue /\ OneStandard /\ ShadeBacked

\* Cases and evaluations of a probation agree, and an employee has one that is open.
ReviewsTrue == OneActive /\ CaseFollows

\* What was decided, signed or released stands, however a decision, an edit and a stop
\* of the process interleave.
DecisionsStand == AnswerStands /\ ReviewSteps /\ SheetFrozen /\ ReportStands /\ SnapshotKept

\* Whoever asked gets an answer: no waiting for a lock lasts.  (Sessions are alike: one
\* stands for all.)
Answers ==
    LET s == CHOOSE s \in Sessions : TRUE
    IN  job[s].op # "idle" ~> job[s].op = "idle"

=============================================================================
