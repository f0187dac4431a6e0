------------------------------- MODULE Tickets -------------------------------
(***************************************************************************)
(* Support tickets (internal/ticket): the HTTP handlers, the service and   *)
(* its table.                                                              *)
(*                                                                         *)
(* Reply, Close and AdminPatch read the row of a ticket, change the copy   *)
(* and write the whole row back; nothing locks it in between, so each is   *)
(* two or three steps here and the calls of several people overlap.        *)
(* Subject, category, body and times are left out: no step depends on them *)
(* once a ticket exists.                                                   *)
(***************************************************************************)
EXTENDS Integers, FiniteSets, Sequences

CONSTANTS
    Ticket,       \* ids the table can hand out
    Person,       \* everyone with an account
    Staff,        \* those whose role is admin or ops
    Worker,       \* requests that may be under way at one time
    Status,       \* statuses a patch may name: the service takes any string
    Priority,     \* priorities a request may name, valid or not
    Patches,      \* patches that are asked for
    Nobody,       \* no assignee, no value in a patch
    MaxMessages,  \* bound: messages after which nobody replies any more
    MaxFaults     \* bound: database errors

ASSUME TicketsAssumption ==
    /\ Staff \subseteq Person
    /\ Nobody \notin Person \cup Status \cup Priority
    /\ Patches \subseteq [status : Status \cup {Nobody}, priority : Priority \cup {Nobody},
                          assignee : Person \cup {Nobody}]
    /\ MaxMessages \in Nat
    /\ MaxFaults \in Nat

VARIABLES
    ticket,   \* table tickets: the row of an id, NoRow before it exists
    message,  \* table ticket_messages, in the order of its ids, by ticket
    call,     \* each request: what it asks, the row it read, its next statement
    answer,   \* the last answer: its code, to whom, the tickets it shows
    faults    \* database errors so far

vars == <<ticket, message, call, answer, faults>>

-----------------------------------------------------------------------------
(* Rows.                                                                   *)

Statuses == {"open", "pending", "resolved", "closed"} \cup Status

Valid == {"low", "normal", "high", "urgent"}

NoRow == [user |-> Nobody, status |-> "none", priority |-> "none", assignee |-> Nobody]

Row == [user : Person, status : Statuses, priority : Valid,
        assignee : Person \cup {Nobody}]

Message == [sender : Person, type : {"user", "admin"}]

NoPatch == [status |-> Nobody, priority |-> Nobody, assignee |-> Nobody]

\* ListFilter with no filter set.
AnyRow == [user |-> Nobody, status |-> Nobody, priority |-> Nobody, assignee |-> Nobody]

NoAnswer == [code |-> 0, to |-> Nobody, shown |-> {}]

Stages == {"idle", "append", "save", "list"}

Idle == [at |-> "idle", op |-> "none", by |-> Nobody, id |-> 0, row |-> NoRow,
         in |-> NoPatch]

Ops == {"detail", "userReply", "adminReply", "close", "patch", "assign"}

Patch == [status : Status \cup {Nobody}, priority : Priority \cup {Nobody},
          assignee : Person \cup {Nobody}]

\* A request between two of its statements.
UnderWay == [at : Stages \ {"idle"}, op : Ops, by : Person, id : Ticket, row : Row,
             in : Patch]

TypeOK ==
    /\ ticket \in [Ticket -> Row \cup {NoRow}]
    /\ message \in [Ticket -> Seq(Message)]
    /\ call \in [Worker -> UnderWay \cup {Idle}]
    /\ answer \in [code : {0, 4000, 4003, 4004, 4009, 5000},
                   to : Person \cup {Nobody}, shown : SUBSET Ticket]
    /\ faults \in 0 .. MaxFaults

Init ==
    /\ ticket = [t \in Ticket |-> NoRow]
    /\ message = [t \in Ticket |-> <<>>]
    /\ call = [w \in Worker |-> Idle]
    /\ answer = NoAnswer
    /\ faults = 0

-----------------------------------------------------------------------------
(* The repository: one statement each.                                     *)

\* First by id.
Found(t) == ticket[t] # NoRow

\* Save writes every column of the row the caller holds.
Update(t, row) == ticket' = [ticket EXCEPT ![t] = row]

AppendMessage(t, m) == message' = [message EXCEPT ![t] = Append(@, m)]

\* The ticket and its first message, in one transaction.
Insert(t, row, m) ==
    /\ ~Found(t)
    /\ Update(t, row)
    /\ message' = [message EXCEPT ![t] = <<m>>]

\* A page of the rows that match the filter; its order is left out.
PageSize(limit) == IF limit <= 0 THEN 20 ELSE IF limit > 100 THEN 100 ELSE limit

Page(f, limit) ==
    {S \in SUBSET {t \in Ticket :
        /\ Found(t)
        /\ f.user # Nobody => ticket[t].user = f.user
        /\ f.status # Nobody => ticket[t].status = f.status
        /\ f.priority # Nobody => ticket[t].priority = f.priority
        /\ f.assignee # Nobody => ticket[t].assignee = f.assignee} :
     Cardinality(S) <= PageSize(limit)}

-----------------------------------------------------------------------------
(* The transport: who may call what, and how errors are answered.          *)

IsStaff(p) == p \in Staff

\* Routes under /admin want the role of staff.
AdminOps == {"adminList", "adminReply", "patch", "assign"}

MayCall(p, op) == op \in AdminOps => IsStaff(p)

\* The code an error is answered with.
Code(err) ==
    CASE err = "NotFound"  -> 4004
      [] err = "Forbidden" -> 4003
      [] err = "Closed"    -> 4009
      [] OTHER             -> 5000

Answer(code, p, shown) ==
    answer' = [code |-> code, to |-> p, shown |-> shown]

\* The request ends with an error of the service.
Fail(w, p, err) ==
    /\ Answer(Code(err), p, {})
    /\ call' = [call EXCEPT ![w] = Idle]

\* The request goes on with the row it has just read.
GoOn(w, stage, op, p, t, in) ==
    /\ call' = [call EXCEPT ![w] = [at |-> stage, op |-> op, by |-> p, id |-> t,
                                    row |-> ticket[t], in |-> in]]
    /\ answer' = NoAnswer

Done(w, p, shown) ==
    /\ Answer(0, p, shown)
    /\ call' = [call EXCEPT ![w] = Idle]

-----------------------------------------------------------------------------
(* Creating and listing.                                                   *)

\* What a ticket starts with: an unknown priority counts as normal.
NewRow(p, priority) ==
    [user |-> p, status |-> "open",
     priority |-> IF priority \in Valid THEN priority ELSE "normal",
     assignee |-> Nobody]

\* Create; a blank subject or body is a bad request.
Create(w, p, t, priority, blank) ==
    /\ call[w].at = "idle"
    /\ IF blank
       THEN Answer(4000, p, {}) /\ UNCHANGED <<ticket, message>>
       ELSE /\ Insert(t, NewRow(p, priority), [sender |-> p, type |-> "user"])
            /\ Answer(0, p, {t})
    /\ UNCHANGED <<call, faults>>

\* listMine: a filter on the caller, and nothing else.
ListMine(w, p, limit) ==
    /\ call[w].at = "idle"
    /\ \E page \in Page([AnyRow EXCEPT !.user = p], limit) : Answer(0, p, page)
    /\ UNCHANGED <<ticket, message, call, faults>>

\* ListForAdmin: any filter, but never one on the owner.
AdminList(w, p, f, limit) ==
    /\ call[w].at = "idle"
    /\ MayCall(p, "adminList")
    /\ \E page \in Page([f EXCEPT !.user = Nobody], limit) : Answer(0, p, page)
    /\ UNCHANGED <<ticket, message, call, faults>>

-----------------------------------------------------------------------------
(* Reading a ticket.                                                       *)

\* What Get and Close find wrong with a request: the owner or staff.
ReadError(p, t) ==
    IF ~Found(t) THEN "NotFound"
    ELSE IF ~IsStaff(p) /\ ticket[t].user # p THEN "Forbidden"
    ELSE "none"

\* Get: the row and the owner check come before the messages.
GetRow(w, p, t) ==
    /\ call[w].at = "idle"
    /\ IF ReadError(p, t) # "none" THEN Fail(w, p, ReadError(p, t))
       ELSE GoOn(w, "list", "detail", p, t, NoPatch)
    /\ UNCHANGED <<ticket, message, faults>>

\* ListMessages, and the answer with the row read before them.
ListMessages(w) ==
    /\ call[w].at = "list"
    /\ Done(w, call[w].by, {call[w].id})
    /\ UNCHANGED <<ticket, message, faults>>

-----------------------------------------------------------------------------
(* Replying.                                                               *)

ReplyErrorIfUser(p, t, op) ==
    IF ~Found(t) THEN "NotFound"
    ELSE IF op = "userReply" /\ ticket[t].status = "closed" THEN "Closed"
    ELSE IF op = "userReply" /\ ticket[t].user # p THEN "Forbidden"
    ELSE "none"

ReplyErrorAnyUser(p, t, op) ==
    IF ~Found(t) THEN "NotFound"
    ELSE IF ticket[t].status = "closed" THEN "Closed"
    ELSE "none"

\* What Reply finds wrong with a request.
ReplyError(p, t, op) ==
    IF ~Found(t) THEN "NotFound"
    ELSE IF op = "userReply" /\ ticket[t].user # p THEN "Forbidden"
    ELSE IF ticket[t].status = "closed" THEN "Closed"
    ELSE "none"

\* The first statement of Reply and the checks on the row.
ReplyGet(w, p, t, op) ==
    /\ call[w].at = "idle"
    /\ MayCall(p, op)
    /\ Len(message[t]) < MaxMessages
    /\ IF ReplyError(p, t, op) # "none" THEN Fail(w, p, ReplyError(p, t, op))
       ELSE GoOn(w, "append", op, p, t, NoPatch)
    /\ UNCHANGED <<ticket, message, faults>>

\* userReply: even staff reply here as the owner or not at all.
UserReply(w, p, t) == ReplyGet(w, p, t, "userReply")

AdminReply(w, p, t) == ReplyGet(w, p, t, "adminReply")

SenderType(op) == IF op = "adminReply" THEN "admin" ELSE "user"

\* The message is stored before the status moves.
ReplyAppend(w) ==
    /\ call[w].at = "append"
    /\ AppendMessage(call[w].id, [sender |-> call[w].by, type |-> SenderType(call[w].op)])
    /\ call' = [call EXCEPT ![w].at = "save"]
    /\ UNCHANGED <<ticket, answer, faults>>

\* Staff reply: the ticket awaits its user.  User reply: resolved is open again.
AfterReply(op, row) ==
    IF op = "adminReply" THEN [row EXCEPT !.status = "pending"]
    ELSE IF row.status = "resolved" THEN [row EXCEPT !.status = "open"]
    ELSE row

\* The copy of the row, whatever the table holds by now.
ReplySave(w) ==
    /\ call[w].at = "save"
    /\ call[w].op \in {"userReply", "adminReply"}
    /\ Update(call[w].id, AfterReply(call[w].op, call[w].row))
    /\ Done(w, call[w].by, {call[w].id})
    /\ UNCHANGED <<message, faults>>

-----------------------------------------------------------------------------
(* Closing and patching.                                                   *)

\* Close: the owner or staff; a closed ticket may be closed again.
CloseGet(w, p, t) ==
    /\ call[w].at = "idle"
    /\ IF ReadError(p, t) # "none" THEN Fail(w, p, ReadError(p, t))
       ELSE GoOn(w, "save", "close", p, t, NoPatch)
    /\ UNCHANGED <<ticket, message, faults>>

CloseSave(w) ==
    /\ call[w].at = "save"
    /\ call[w].op = "close"
    /\ Update(call[w].id, [call[w].row EXCEPT !.status = "closed"])
    /\ Done(w, call[w].by, {})
    /\ UNCHANGED <<message, faults>>

PatchGet(w, p, t, op, in) ==
    /\ call[w].at = "idle"
    /\ MayCall(p, op)
    /\ IF ~Found(t) THEN Fail(w, p, "NotFound")
       ELSE GoOn(w, "save", op, p, t, in)
    /\ UNCHANGED <<ticket, message, faults>>

\* adminPatch: the request names the columns to change, and what is missing in
\* it stays.
AdminPatch(w, p, t, in) == PatchGet(w, p, t, "patch", in)

\* adminAssign: a patch of nothing but the assignee, which must be given.
AdminAssign(w, p, t, a) == PatchGet(w, p, t, "assign", [NoPatch EXCEPT !.assignee = a])

PatchedWithAssignee(row, in) ==
    [row EXCEPT !.status = IF in.status # Nobody THEN in.status ELSE @,
                !.priority = IF in.priority \in Valid THEN in.priority ELSE @,
                !.assignee = in.assignee]

\* Any status is taken, an unknown priority is not.
Patched(row, in) ==
    [row EXCEPT !.status = IF in.status # Nobody THEN in.status ELSE @,
                !.priority = IF in.priority \in Valid THEN in.priority ELSE @,
                !.assignee = IF in.assignee # Nobody THEN in.assignee ELSE @]

PatchSave(w) ==
    /\ call[w].at = "save"
    /\ call[w].op \in {"patch", "assign"}
    /\ Update(call[w].id, Patched(call[w].row, call[w].in))
    /\ Done(w, call[w].by, {call[w].id})
    /\ UNCHANGED <<message, faults>>

\* A statement fails: the request ends there, what it wrote before stays.
DatabaseError(w) ==
    /\ call[w].at # "idle"
    /\ faults < MaxFaults
    /\ faults' = faults + 1
    /\ Fail(w, call[w].by, "Database")
    /\ UNCHANGED <<ticket, message>>

-----------------------------------------------------------------------------

Filters == [user : {Nobody}, status : {Nobody, "open"}, priority : {Nobody},
            assignee : {Nobody} \cup Staff]

Limits == {0, 1}

Request(w, p) ==
    \/ \E t \in Ticket, pr \in Priority, blank \in BOOLEAN : Create(w, p, t, pr, blank)
    \/ \E limit \in Limits : ListMine(w, p, limit)
    \/ \E f \in Filters, limit \in Limits : AdminList(w, p, f, limit)
    \/ \E t \in Ticket : GetRow(w, p, t)
    \/ \E t \in Ticket : UserReply(w, p, t)
    \/ \E t \in Ticket : AdminReply(w, p, t)
    \/ \E t \in Ticket : CloseGet(w, p, t)
    \/ \E t \in Ticket, in \in Patches : AdminPatch(w, p, t, in)
    \/ \E t \in Ticket, a \in Staff : AdminAssign(w, p, t, a)

Continue(w) ==
    \/ ListMessages(w)
    \/ ReplyAppend(w)
    \/ ReplySave(w)
    \/ CloseSave(w)
    \/ PatchSave(w)
    \/ DatabaseError(w)

Next == \E w \in Worker : Continue(w) \/ \E p \in Person : Request(w, p)

Spec == Init /\ [][Next]_vars

-----------------------------------------------------------------------------
(* What the properties rest on: facts about the calls under way that hold  *)
(* whatever the others do in between.                                      *)

\* Nothing changes the owner of a ticket, so the owner in the copy a request
\* read is the owner still (Create is the only writer of that column).
OwnerStays(c) == Found(c.id) /\ c.row.user = ticket[c.id].user

\* What the checks before the first statement let through.
Allowed(c) ==
    /\ c.op \in AdminOps => IsStaff(c.by)
    /\ c.op \in {"detail", "close"} => IsStaff(c.by) \/ c.row.user = c.by
    /\ c.op = "userReply" => c.row.user = c.by
    /\ c.op \in {"userReply", "adminReply"} => c.row.status # "closed"

\* Which statement a request may be before.
AtItsStage(c) ==
    /\ c.at = "append" => c.op \in {"userReply", "adminReply"}
    /\ c.at = "list" <=> c.op = "detail"

CallsAgree ==
    \A w \in Worker : call[w].at # "idle"
        => OwnerStays(call[w]) /\ Allowed(call[w]) /\ AtItsStage(call[w])

-----------------------------------------------------------------------------
(* Properties.                                                             *)

\* A closed ticket is reopened, or gets another message, only by a patch that
\* names another status or by a call that read the row before it was closed:
\* whoever reads it closed cannot reply to it (service.Reply, Close and
\* AdminPatch check a copy of the row, and each writes all of it).
ClosedStaysClosed ==
    [][\A t \in Ticket :
         /\ ticket[t].status = "closed"
         /\ ticket'[t].status # "closed" \/ message'[t] # message[t]
         => \E w \in Worker : /\ call[w].at \in {"append", "save"}
                              /\ call[w].id = t
                              /\ \/ call[w].in.status # Nobody
                                 \/ call[w].row.status # "closed"]_vars

\* An assignment is undone by another assignment, or by a request that read
\* the row before it was made; calls that come one after the other lose none
\* (whole-row Save of every handler).
AssignmentSticks ==
    [][\A t \in Ticket :
         Found(t) /\ ticket'[t].assignee # ticket[t].assignee
         => \E w \in Worker : /\ call[w].at = "save"
                              /\ call[w].id = t
                              /\ \/ ticket'[t].assignee = call[w].in.assignee /\ call[w].in.assignee # Nobody
                                 \/ call[w].row.assignee # ticket[t].assignee]_vars

\* Whoever speaks as the user of a ticket owns it, and whoever speaks as
\* support is staff (userReply and adminReply share service.Reply).
SpeakersAreWhoTheySay ==
    \A t \in Ticket : \A i \in DOMAIN message[t] :
        LET m == message[t][i]
        IN IF m.type = "user" THEN m.sender = ticket[t].user ELSE IsStaff(m.sender)

\* An answer shows a customer nobody else's tickets (listMine, detail, userReply).
OwnTicketsOnly ==
    \A t \in answer.shown : IsStaff(answer.to) \/ ticket[t].user = answer.to

\* Both: nobody speaks or reads as somebody else, whatever runs beside it.
PeopleAreWhoTheySay == SpeakersAreWhoTheySay /\ OwnTicketsOnly
=============================================================================
