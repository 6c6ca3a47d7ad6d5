------------------------------- MODULE Records -------------------------------
(***************************************************************************)
(* What a user keeps beside the work, over Workspace: notes, knowledge     *)
(* articles, templates and reminders, which may be linked to a task;       *)
(* expenses, which may be linked to a project; journal entries, which have *)
(* no link.  A row belongs to one user.  A link is looked up with the      *)
(* abilities of the caller before the row is written; deleting the task or *)
(* the project clears it, deleting the user deletes the row.               *)
(***************************************************************************)
EXTENDS Workspace

CONSTANTS
    RecordIds,
    Calls,          \* slots of the requests about records
    NoLink

(* One kind for each shape: the services of notes, articles, templates and *)
(* reminders do the same with a task.                                      *)
Kinds == {"note", "expense", "journalEntry"}

LinkableTo(kind) ==
    CASE kind = "note" -> TaskIds [] kind = "expense" -> ProjectIds [] OTHER -> {}

(* Who set a link: the user, the keys it held in that request, and the     *)
(* company as whose member it saw what it linked to, if it was in one.     *)
Linker == [user : UserIds, keys : SUBSET Key, through : CompanyIds \cup {NoCompany}]

(* `linkedBy' is a history variable of a row, NoLink while it has no link. *)
Record == [kind : Kinds, userId : UserIds,
           link : TaskIds \cup ProjectIds \cup {NoLink}, linkedBy : Linker \cup {NoLink}]

ASSUME RecordsAssumption ==
    /\ NoLink \notin TaskIds \cup ProjectIds
    /\ TaskIds \cap ProjectIds = {}
    /\ UserIds \cap (CompanyIds \cup ProjectIds \cup TaskIds) = {}
    /\ NoRow \notin Record \cup UserIds

VARIABLES
    records,    \* the tables: id |-> row or NoRow
    usedIds,    \* ids of all rows ever inserted
    call        \* per slot: where the handler is and what it holds

recordVars == <<records, usedIds, call>>
allVars == <<vars, recordVars>>

Call ==
    [pc : {"idle"}]
    \cup [pc : {"insert"}, row : Record]
    \cup [pc : {"update"}, by : Linker, id : RecordIds,
          link : TaskIds \cup ProjectIds \cup {NoLink}]
    \cup [pc : {"delete"}, by : [user : UserIds, keys : SUBSET Key], id : RecordIds]

RecordRows == {i \in RecordIds : records[i] # NoRow}

Goes(q, state) == call' = [call EXCEPT ![q] = state]

RecordsInit ==
    /\ Init
    /\ records = [i \in RecordIds |-> NoRow]
    /\ usedIds = {}
    /\ call = [q \in Calls |-> Idle]

-----------------------------------------------------------------------------
\* Mutant: whoever holds the permission reaches every row.
Anybody(u, keys, i) == TRUE

\* A row is its owner's, whose keys for it are left out; `manage.all' reaches all.
reachesRecord(u, keys, i) == MANAGE_ALL \in keys \/ records[i].userId = u

\* Mutant: the task is looked up by its id alone.
ByIdAlone(u, keys, kind, x) == x \in LinkableTo(kind) /\ x \in ProjectRows \cup TaskRows

\* What findOne of tasks or projects finds with the abilities of the request.
visible(u, keys, kind, x) ==
    /\ x \in LinkableTo(kind)
    /\ \/ x \in ProjectRows /\ reachesProject(u, keys, x)
       \/ x \in TaskRows /\ reachesTask(u, keys, x)

companyOf(x) ==
    CASE x \in ProjectRows -> projects[x].companyId
      [] x \in TaskRows -> tasks[x].projectCompanyId
      [] OTHER -> NoCompany

linker(u, keys, x) ==
    [user |-> u, keys |-> keys,
     through |-> IF memberOf(u, companyOf(x)) THEN companyOf(x) ELSE NoCompany]

linkedBy(by, x) == IF x = NoLink THEN NoLink ELSE by

\* The rows the foreign keys ask for.
Linkable == ProjectRows \cup TaskRows \cup {NoLink}

-----------------------------------------------------------------------------
(* The handlers: the link is resolved, then the row is written by its id.  *)
(* Fields other than the link are left out.                                *)

CreateResolve(q, u, keys, kind, x) ==
    /\ call[q].pc = "idle"
    /\ u \in users
    /\ x = NoLink \/ visible(u, keys, kind, x)
    /\ Goes(q, [pc |-> "insert",
                row |-> [kind |-> kind, userId |-> u, link |-> x,
                         linkedBy |-> linkedBy(linker(u, keys, x), x)]])
    /\ UNCHANGED <<vars, records, usedIds>>

CreateInsert(q, i) ==
    LET row == call[q].row
    IN  /\ call[q].pc = "insert"
        /\ row.userId \in users /\ row.link \in Linkable
        /\ i \in RecordIds \ usedIds
        /\ records' = [records EXCEPT ![i] = row]
        /\ usedIds' = usedIds \cup {i}
        /\ Goes(q, Idle)
        /\ UNCHANGED vars

\* The row and then the link are looked up.  One step: whose a row is does not
\* change, and if it is deleted in between, the write finds nothing either.
UpdateResolve(q, u, keys, i, x) ==
    /\ call[q].pc = "idle"
    /\ u \in users
    /\ i \in RecordRows /\ reachesRecord(u, keys, i)
    /\ LinkableTo(records[i].kind) # {}
    /\ x = NoLink \/ visible(u, keys, records[i].kind, x)
    /\ Goes(q, [pc |-> "update", by |-> linker(u, keys, x), id |-> i, link |-> x])
    /\ UNCHANGED <<vars, records, usedIds>>

UpdateWrite(q) ==
    LET c == call[q]
    IN  /\ c.pc = "update"
        /\ c.id \in RecordRows /\ c.link \in Linkable
        /\ records' = [records EXCEPT ![c.id].link = c.link,
                                      ![c.id].linkedBy = linkedBy(c.by, c.link)]
        /\ Goes(q, Idle)
        /\ UNCHANGED <<vars, usedIds>>

DeleteFind(q, u, keys, i) ==
    /\ call[q].pc = "idle"
    /\ u \in users
    /\ i \in RecordRows /\ reachesRecord(u, keys, i)
    /\ Goes(q, [pc |-> "delete", by |-> [user |-> u, keys |-> keys], id |-> i])
    /\ UNCHANGED <<vars, records, usedIds>>

Delete(q) ==
    /\ call[q].pc = "delete"
    /\ call[q].id \in RecordRows
    /\ records' = [records EXCEPT ![call[q].id] = NoRow]
    /\ Goes(q, Idle)
    /\ UNCHANGED <<vars, usedIds>>

\* P2025 or P2003: the row, its owner or what it links to went meanwhile.
WriteFails(q) ==
    LET c == call[q]
    IN  /\ \/ c.pc = "insert" /\ (c.row.userId \notin users \/ c.row.link \notin Linkable)
           \/ c.pc = "update" /\ (c.id \notin RecordRows \/ c.link \notin Linkable)
           \/ c.pc = "delete" /\ c.id \notin RecordRows
        /\ Goes(q, Idle)
        /\ UNCHANGED <<vars, records, usedIds>>

-----------------------------------------------------------------------------
Unlinked(row) == [row EXCEPT !.link = NoLink, !.linkedBy = NoLink]

\* Mutant: a row keeps the id of a deleted task or project.
OwnersOnly ==
    [i \in RecordIds |->
        IF i \in RecordRows /\ records[i].userId \notin users' THEN NoRow ELSE records[i]]

\* Mutant: the rows of a deleted user stay.
LinksOnly ==
    [i \in RecordIds |->
        IF i \notin RecordRows \/ records[i].link \in Linkable' THEN records[i]
        ELSE Unlinked(records[i])]

\* ON DELETE CASCADE for the user, SET NULL for the task and the project.
Cascaded ==
    [i \in RecordIds |->
        IF i \notin RecordRows \/ records[i].userId \notin users' THEN NoRow
        ELSE IF records[i].link \in Linkable' THEN records[i]
        ELSE Unlinked(records[i])]

\* A step of the workspace, with what it does to the rows that hang on it.
WorkspaceStep ==
    /\ Work
    /\ records' = Cascaded
    /\ UNCHANGED <<usedIds, call>>

RestartAll ==
    /\ Restart
    /\ call' = [q \in Calls |-> Idle]
    /\ UNCHANGED <<records, usedIds>>

Ask(q, u, keys) ==
    \/ \E kind \in Kinds, x \in TaskIds \cup ProjectIds \cup {NoLink} :
          CreateResolve(q, u, keys, kind, x)
    \/ \E i \in RecordIds, x \in TaskIds \cup ProjectIds \cup {NoLink} :
          UpdateResolve(q, u, keys, i, x)
    \/ \E i \in RecordIds : DeleteFind(q, u, keys, i)

RecordsNext ==
    \/ WorkspaceStep
    \/ \E q \in Calls :
          \/ \E u \in UserIds : \E keys \in Held[u] : Ask(q, u, keys)
          \/ \E i \in RecordIds : CreateInsert(q, i)
          \/ UpdateWrite(q) \/ Delete(q) \/ WriteFails(q)
    \/ RestartAll

RecordsSpec == RecordsInit /\ [][RecordsNext]_allVars

-----------------------------------------------------------------------------
\* The rows and the calls in flight keep their shapes, and no row outlives its
\* owner or links to what is gone, or to a thing of another kind.
RecordsTypeOK ==
    /\ records \in [RecordIds -> Record \cup {NoRow}]
    /\ usedIds \subseteq RecordIds /\ RecordRows \subseteq usedIds
    /\ call \in [Calls -> Call]
    /\ \A i \in RecordRows :
          /\ records[i].userId \in users
          /\ records[i].link \in Linkable
          /\ records[i].link \in LinkableTo(records[i].kind) \cup {NoLink}

\* The company as whose member somebody saw what it linked to is gone.
LostItsCompany(by) == by.through \notin companies \cup {NoCompany}

\* `Optional linked task (must be visible to you)': what a row links to is
\* visible to whoever linked it, with the keys it held then, long after the lookup
\* and whatever was deleted in between.  It is lost from sight only to one who saw
\* it as the member of a company, and only together with that company.
LinksWithinReach ==
    \A i \in RecordRows :
        LET x == records[i].link
            by == records[i].linkedBy
        IN  x # NoLink =>
                \/ x \in TaskRows /\ reachesTask(by.user, by.keys, x)
                \/ x \in ProjectRows /\ reachesProject(by.user, by.keys, x)
                \/ LostItsCompany(by)

\* A row is changed or deleted on behalf of its owner or of one with `manage.all';
\* nobody else's request touches it, and it never changes hands.  The rest is
\* the doing of deletions around it, which take the owner or the link away.
RecordsTouchedByOwner ==
    [][\A i \in RecordRows :
          records'[i] # records[i] =>
              \/ \E q \in Calls :
                    /\ call[q].pc \in {"update", "delete"} /\ call[q].id = i
                    /\ records[i].userId = call[q].by.user \/ MANAGE_ALL \in call[q].by.keys
                    /\ call'[q] = Idle
                    /\ records'[i] # NoRow => records'[i].userId = records[i].userId
              \/ records'[i] = NoRow /\ records[i].userId \notin users'
              \/ records'[i] = Unlinked(records[i])
                 /\ records[i].link \notin Linkable']_allVars

\* Whose each row is.
Owner == [i \in RecordIds |-> IF records[i] = NoRow THEN NoRow ELSE records[i].userId]

Owned ==
    INSTANCE OwnedRows WITH Users <- UserIds, Ids <- RecordIds, NoUser <- NoRow,
        members <- users, joined <- used \cap UserIds, born <- usedIds, owner <- Owner

\* The records are rows of their users: an update whose row, or whose owner's
\* account, was deleted after the lookup does not bring it back.
RefinesOwnedRows == Owned!Spec
=============================================================================
