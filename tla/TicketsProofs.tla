---------------------------- MODULE TicketsProofs ----------------------------
(***************************************************************************)
(* Proofs about Tickets for every set of tickets, people, staff and        *)
(* workers, every patch that may be asked for and every number of faults.  *)
(***************************************************************************)
EXTENDS Tickets, TLAPS

-----------------------------------------------------------------------------
(* Types.                                                                  *)

\* A row that may be saved is a row: what each handler does to its copy.
LEMMA SavedRows ==
  ASSUME NEW row \in Row, NEW in \in Patch, NEW op
  PROVE  /\ AfterReply(op, row) \in Row
         /\ [row EXCEPT !.status = "closed"] \in Row
         /\ Patched(row, in) \in Row
<1>1. AfterReply(op, row) \in Row
  BY DEF AfterReply, Row, Statuses
<1>2. [row EXCEPT !.status = "closed"] \in Row
  BY DEF Row, Statuses
<1>3. Patched(row, in) \in Row
  BY TicketsAssumption DEF Patched, Row, Statuses, Valid, Patch
<1>4. QED
  BY <1>1, <1>2, <1>3

\* No row of the table is NoRow, and a call under way is not idle.
LEMMA Distinct ==
  /\ NoRow \notin Row
  /\ \A c \in UnderWay : c.at # "idle"
  /\ Idle.at = "idle"
BY TicketsAssumption DEF TicketsAssumption, NoRow, Row, UnderWay, Stages, Idle

\* A call that goes on with a row it found is under way.
LEMMA GoOnTyped ==
  ASSUME TypeOK, NEW w \in Worker, NEW stage \in Stages \ {"idle"}, NEW op \in Ops,
         NEW p \in Person, NEW t \in Ticket, NEW in \in Patch, Found(t),
         GoOn(w, stage, op, p, t, in)
  PROVE  /\ call' \in [Worker -> UnderWay \cup {Idle}]
         /\ answer' = NoAnswer
<1>1. ticket[t] \in Row
  BY DEF TypeOK, Found
<1>2. [at |-> stage, op |-> op, by |-> p, id |-> t, row |-> ticket[t], in |-> in]
        \in UnderWay
  BY <1>1 DEF UnderWay
<1>3. QED
  BY <1>2 DEF GoOn, TypeOK

\* The two ways a request ends.
LEMMA FailTyped ==
  ASSUME TypeOK, NEW w \in Worker, NEW p \in Person, NEW err, Fail(w, p, err)
  PROVE  /\ call' \in [Worker -> UnderWay \cup {Idle}]
         /\ answer' \in [code : {0, 4000, 4003, 4004, 4009, 5000},
                         to : Person \cup {Nobody}, shown : SUBSET Ticket]
BY DEF TypeOK, Fail, Answer, Code

LEMMA DoneTyped ==
  ASSUME TypeOK, NEW w \in Worker, NEW p \in Person, NEW shown \in SUBSET Ticket,
         Done(w, p, shown)
  PROVE  /\ call' \in [Worker -> UnderWay \cup {Idle}]
         /\ answer' \in [code : {0, 4000, 4003, 4004, 4009, 5000},
                         to : Person \cup {Nobody}, shown : SUBSET Ticket]
BY DEF TypeOK, Done, Answer

\* What a request may carry as its patch.
LEMMA PatchTyped ==
  /\ NoPatch \in Patch
  /\ \A a \in Staff : [NoPatch EXCEPT !.assignee = a] \in Patch
  /\ \A in \in Patches : in \in Patch
BY TicketsAssumption DEF TicketsAssumption, NoPatch, Patch

\* What a call about to take its next statement holds.
LEMMA CallTyped ==
  ASSUME TypeOK, NEW w \in Worker, call[w].at # "idle"
  PROVE  /\ call[w] \in UnderWay
         /\ call[w].at \in Stages \ {"idle"} /\ call[w].op \in Ops
         /\ call[w].by \in Person /\ call[w].id \in Ticket
         /\ call[w].row \in Row /\ call[w].in \in Patch
<1>1. call[w] \in UnderWay
  BY Distinct DEF TypeOK
<1>2. QED
  BY <1>1 DEF UnderWay

\* Every variable keeps its type through every statement of every request.
LEMMA TypeStep == TypeOK /\ [Next]_vars => TypeOK'
<1> SUFFICES ASSUME TypeOK, [Next]_vars PROVE TypeOK'
  OBVIOUS
<1>1. ASSUME NEW w \in Worker, NEW p \in Person, NEW t \in Ticket,
             NEW pr \in Priority, NEW blank \in BOOLEAN, Create(w, p, t, pr, blank)
      PROVE  TypeOK'
  <2>1. NewRow(p, pr) \in Row
    BY DEF NewRow, Row, Statuses, Valid
  <2>2. << [sender |-> p, type |-> "user"] >> \in Seq(Message)
    BY DEF Message
  <2>3. CASE blank
    BY <1>1, <2>3 DEF Create, Answer, TypeOK
  <2>4. CASE ~blank
    <3>1. /\ ticket' = [ticket EXCEPT ![t] = NewRow(p, pr)]
          /\ message' = [message EXCEPT ![t] = << [sender |-> p, type |-> "user"] >>]
          /\ answer' = [code |-> 0, to |-> p, shown |-> {t}]
          /\ UNCHANGED <<call, faults>>
      BY <1>1, <2>4 DEF Create, Insert, Update, Answer
    <3>2. ticket' \in [Ticket -> Row \cup {NoRow}]
      BY <2>1, <3>1 DEF TypeOK
    <3>3. message' \in [Ticket -> Seq(Message)]
      BY <2>2, <3>1 DEF TypeOK
    <3>4. QED
      BY <3>1, <3>2, <3>3 DEF TypeOK
  <2>5. QED
    BY <2>3, <2>4
<1>2. ASSUME NEW w \in Worker, NEW p \in Person, NEW limit \in Limits,
             ListMine(w, p, limit)
      PROVE  TypeOK'
  BY <1>2 DEF ListMine, Page, Answer, TypeOK
<1>3. ASSUME NEW w \in Worker, NEW p \in Person, NEW f \in Filters, NEW limit \in Limits,
             AdminList(w, p, f, limit)
      PROVE  TypeOK'
  BY <1>3 DEF AdminList, Page, Answer, TypeOK
<1>4. ASSUME NEW w \in Worker, NEW p \in Person, NEW t \in Ticket, GetRow(w, p, t)
      PROVE  TypeOK'
  <2>1. CASE ReadError(p, t) # "none"
    BY <1>4, <2>1, FailTyped DEF GetRow, TypeOK
  <2>2. CASE ReadError(p, t) = "none"
    <3>1. Found(t) /\ GoOn(w, "list", "detail", p, t, NoPatch)
      BY <1>4, <2>2 DEF GetRow, ReadError
    <3>2. /\ call' \in [Worker -> UnderWay \cup {Idle}]
          /\ answer' = NoAnswer
      BY <3>1, GoOnTyped, PatchTyped DEF Stages, Ops
    <3>3. QED
      BY <1>4, <3>2 DEF GetRow, NoAnswer, TypeOK
  <2>3. QED
    BY <2>1, <2>2
<1>5. ASSUME NEW w \in Worker, NEW p \in Person, NEW t \in Ticket,
             NEW op \in {"userReply", "adminReply"}, ReplyGet(w, p, t, op)
      PROVE  TypeOK'
  <2>1. CASE ReplyError(p, t, op) # "none"
    BY <1>5, <2>1, FailTyped DEF ReplyGet, TypeOK
  <2>2. CASE ReplyError(p, t, op) = "none"
    <3>1. Found(t) /\ GoOn(w, "append", op, p, t, NoPatch)
      BY <1>5, <2>2 DEF ReplyGet, ReplyError
    <3>2. /\ call' \in [Worker -> UnderWay \cup {Idle}]
          /\ answer' = NoAnswer
      BY <3>1, GoOnTyped, PatchTyped DEF Stages, Ops
    <3>3. QED
      BY <1>5, <3>2 DEF ReplyGet, NoAnswer, TypeOK
  <2>3. QED
    BY <2>1, <2>2
<1>6. ASSUME NEW w \in Worker, NEW p \in Person, NEW t \in Ticket, CloseGet(w, p, t)
      PROVE  TypeOK'
  <2>1. CASE ReadError(p, t) # "none"
    BY <1>6, <2>1, FailTyped DEF CloseGet, TypeOK
  <2>2. CASE ReadError(p, t) = "none"
    <3>1. Found(t) /\ GoOn(w, "save", "close", p, t, NoPatch)
      BY <1>6, <2>2 DEF CloseGet, ReadError
    <3>2. /\ call' \in [Worker -> UnderWay \cup {Idle}]
          /\ answer' = NoAnswer
      BY <3>1, GoOnTyped, PatchTyped DEF Stages, Ops
    <3>3. QED
      BY <1>6, <3>2 DEF CloseGet, NoAnswer, TypeOK
  <2>3. QED
    BY <2>1, <2>2
<1>7. ASSUME NEW w \in Worker, NEW p \in Person, NEW t \in Ticket, NEW in \in Patch,
             NEW op \in {"patch", "assign"}, PatchGet(w, p, t, op, in)
      PROVE  TypeOK'
  <2>1. CASE ~Found(t)
    BY <1>7, <2>1, FailTyped DEF PatchGet, TypeOK
  <2>2. CASE Found(t)
    BY <1>7, <2>2, GoOnTyped DEF PatchGet, Stages, Ops, NoAnswer, TypeOK
  <2>3. QED
    BY <2>1, <2>2
<1>8. ASSUME NEW w \in Worker, ListMessages(w)
      PROVE  TypeOK'
  <2>1. call[w].by \in Person /\ call[w].id \in Ticket
    BY <1>8, CallTyped DEF ListMessages
  <2>2. QED
    BY <1>8, <2>1, DoneTyped DEF ListMessages, TypeOK
<1>9. ASSUME NEW w \in Worker, ReplyAppend(w)
      PROVE  TypeOK'
  <2>1. /\ call[w] \in UnderWay /\ call[w].id \in Ticket
        /\ call[w].by \in Person
    BY <1>9, CallTyped DEF ReplyAppend
  <2>2. [sender |-> call[w].by, type |-> SenderType(call[w].op)] \in Message
    BY <2>1 DEF Message, SenderType
  <2>3. message' \in [Ticket -> Seq(Message)]
    BY <1>9, <2>1, <2>2 DEF ReplyAppend, AppendMessage, TypeOK
  <2>4. [call[w] EXCEPT !.at = "save"] \in UnderWay
    BY <2>1 DEF UnderWay, Stages
  <2>5. call' = [call EXCEPT ![w] = [call[w] EXCEPT !.at = "save"]]
    BY <1>9 DEF ReplyAppend, TypeOK
  <2>6. call' \in [Worker -> UnderWay \cup {Idle}]
    BY <2>4, <2>5 DEF TypeOK
  <2>7. QED
    BY <1>9, <2>3, <2>6 DEF ReplyAppend, TypeOK
<1>10. ASSUME NEW w \in Worker, ReplySave(w) \/ CloseSave(w) \/ PatchSave(w)
       PROVE  TypeOK'
  <2>1. call[w].at # "idle"
    BY <1>10 DEF ReplySave, CloseSave, PatchSave
  <2>2. /\ call[w].by \in Person /\ call[w].id \in Ticket
        /\ call[w].row \in Row /\ call[w].in \in Patch
    BY <2>1, CallTyped
  <2>3. \E row \in Row : Update(call[w].id, row)
    BY <1>10, <2>2, SavedRows DEF ReplySave, CloseSave, PatchSave
  <2>4. ticket' \in [Ticket -> Row \cup {NoRow}]
    BY <2>2, <2>3 DEF Update, TypeOK
  <2>5. \E shown \in SUBSET Ticket : Done(w, call[w].by, shown)
    BY <1>10, <2>2 DEF ReplySave, CloseSave, PatchSave
  <2>6. UNCHANGED <<message, faults>>
    BY <1>10 DEF ReplySave, CloseSave, PatchSave
  <2>7. QED
    BY <2>2, <2>4, <2>5, <2>6, DoneTyped DEF TypeOK
<1>11. ASSUME NEW w \in Worker, DatabaseError(w)
       PROVE  TypeOK'
  <2>1. call[w].by \in Person
    BY <1>11, CallTyped DEF DatabaseError
  <2>2. faults' \in 0 .. MaxFaults
    BY <1>11, TicketsAssumption DEF DatabaseError, TicketsAssumption, TypeOK
  <2>3. QED
    BY <1>11, <2>1, <2>2, FailTyped DEF DatabaseError, TypeOK
<1>12. CASE UNCHANGED vars
  BY <1>12 DEF vars, TypeOK
<1>13. CASE Next
  <2>1. PICK w \in Worker : Continue(w) \/ \E p \in Person : Request(w, p)
    BY <1>13 DEF Next
  <2>2. CASE Continue(w)
    BY <2>2, <1>8, <1>9, <1>10, <1>11 DEF Continue
  <2>3. ASSUME NEW p \in Person, Request(w, p)
        PROVE  TypeOK'
    <3>1. ASSUME NEW t \in Ticket,
                 \/ UserReply(w, p, t)
                 \/ AdminReply(w, p, t)
                 \/ \E in \in Patches : AdminPatch(w, p, t, in)
                 \/ \E a \in Staff : AdminAssign(w, p, t, a)
          PROVE  TypeOK'
      <4>1. CASE UserReply(w, p, t) \/ AdminReply(w, p, t)
        BY <4>1, <1>5 DEF UserReply, AdminReply
      <4>2. ASSUME NEW in \in Patches, AdminPatch(w, p, t, in)
            PROVE  TypeOK'
        BY <4>2, <1>7, PatchTyped DEF AdminPatch
      <4>3. ASSUME NEW a \in Staff, AdminAssign(w, p, t, a)
            PROVE  TypeOK'
        BY <4>3, <1>7, PatchTyped DEF AdminAssign
      <4>4. QED
        BY <3>1, <4>1, <4>2, <4>3
    <3>2. QED
      BY <2>3, <3>1, <1>1, <1>2, <1>3, <1>4, <1>6 DEF Request
  <2>4. QED
    BY <2>1, <2>2, <2>3
<1>14. QED
  BY <1>12, <1>13

\* The types hold of every behaviour.
THEOREM TypeCorrect == Spec => []TypeOK
<1>1. Init => TypeOK
  BY TicketsAssumption DEF Init, TypeOK, NoAnswer, TicketsAssumption
<1>2. QED
  BY <1>1, TypeStep, PTL DEF Spec

-----------------------------------------------------------------------------
(* The calls under way.                                                    *)

\* A write keeps the owner of every ticket there is; only Create, which finds
\* none under its id, sets one.
OwnersStay == \A t \in Ticket : Found(t) => Found(t)' /\ ticket'[t].user = ticket[t].user

\* The owner and the error checks of a handler survive what it does to its copy.
LEMMA SavedKeeps ==
  ASSUME NEW row \in Row, NEW in \in Patch, NEW op
  PROVE  /\ AfterReply(op, row).user = row.user
         /\ AfterReply(op, row).assignee = row.assignee
         /\ [row EXCEPT !.status = "closed"].user = row.user
         /\ [row EXCEPT !.status = "closed"].assignee = row.assignee
         /\ Patched(row, in).user = row.user
BY DEF AfterReply, Patched, Row

\* What a whole-row write leaves in the table.
LEMMA Writes ==
  ASSUME TypeOK, CallsAgree, NEW w \in Worker,
         ReplySave(w) \/ CloseSave(w) \/ PatchSave(w)
  PROVE  \E row \in Row :
           /\ row.user = ticket[call[w].id].user
           /\ ticket' = [ticket EXCEPT ![call[w].id] = row]
<1>1. call[w].at # "idle"
  BY DEF ReplySave, CloseSave, PatchSave
<1>2. call[w].id \in Ticket /\ call[w].row \in Row /\ call[w].in \in Patch
  BY <1>1, CallTyped
<1>3. call[w].row.user = ticket[call[w].id].user
  BY <1>1 DEF CallsAgree, OwnerStays
<1>4. CASE ReplySave(w)
  <2> DEFINE row == AfterReply(call[w].op, call[w].row)
  <2>1. row \in Row /\ row.user = call[w].row.user
    BY <1>2, SavedRows, SavedKeeps
  <2>2. QED
    BY <1>3, <1>4, <2>1 DEF ReplySave, Update
<1>5. CASE CloseSave(w)
  <2> DEFINE row == [call[w].row EXCEPT !.status = "closed"]
  <2>1. row \in Row /\ row.user = call[w].row.user
    BY <1>2, SavedRows, SavedKeeps
  <2>2. QED
    BY <1>3, <1>5, <2>1 DEF CloseSave, Update
<1>6. CASE PatchSave(w)
  <2> DEFINE row == Patched(call[w].row, call[w].in)
  <2>1. row \in Row /\ row.user = call[w].row.user
    BY <1>2, SavedRows, SavedKeeps
  <2>2. QED
    BY <1>3, <1>6, <2>1 DEF PatchSave, Update
<1>7. QED
  BY <1>4, <1>5, <1>6

\* No step changes the owner of a ticket.
LEMMA OwnersStayStep == TypeOK /\ CallsAgree /\ [Next]_vars => OwnersStay
<1> SUFFICES ASSUME TypeOK, CallsAgree, [Next]_vars PROVE OwnersStay
  OBVIOUS
<1>1. CASE UNCHANGED ticket
  BY <1>1 DEF OwnersStay, Found
<1>2. ASSUME NEW w \in Worker, NEW p \in Person, NEW t \in Ticket,
             NEW pr \in Priority, NEW blank \in BOOLEAN, Create(w, p, t, pr, blank)
      PROVE  OwnersStay
  <2>1. CASE blank
    BY <1>1, <1>2, <2>1 DEF Create
  <2>2. CASE ~blank
    <3>1. ~Found(t) /\ ticket' = [ticket EXCEPT ![t] = NewRow(p, pr)]
      BY <1>2, <2>2 DEF Create, Insert, Update
    <3>2. \A s \in Ticket : Found(s) => ticket'[s] = ticket[s]
      BY <3>1 DEF TypeOK
    <3>3. QED
      BY <3>2 DEF OwnersStay, Found
  <2>3. QED
    BY <2>1, <2>2
<1>3. ASSUME NEW w \in Worker, ReplySave(w) \/ CloseSave(w) \/ PatchSave(w)
      PROVE  OwnersStay
  <2>1. PICK row \in Row : /\ row.user = ticket[call[w].id].user
                           /\ ticket' = [ticket EXCEPT ![call[w].id] = row]
    BY <1>3, Writes
  <2>2. QED
    BY <2>1, Distinct DEF OwnersStay, Found, TypeOK
<1>4. ASSUME NEW w \in Worker, ListMessages(w) \/ ReplyAppend(w) \/ DatabaseError(w)
      PROVE  UNCHANGED ticket
  BY <1>4 DEF ListMessages, ReplyAppend, DatabaseError
<1>5. ASSUME NEW w \in Worker, NEW p \in Person, Request(w, p)
      PROVE  OwnersStay
  <2>1. CASE \E t \in Ticket, pr \in Priority, blank \in BOOLEAN : Create(w, p, t, pr, blank)
    BY <2>1, <1>2
  <2>2. CASE ~ \E t \in Ticket, pr \in Priority, blank \in BOOLEAN : Create(w, p, t, pr, blank)
    <3>1. UNCHANGED ticket
      BY <1>5, <2>2 DEF Request, ListMine, AdminList, GetRow, UserReply, AdminReply,
         ReplyGet, CloseGet, AdminPatch, AdminAssign, PatchGet
    <3>2. QED
      BY <3>1, <1>1
  <2>3. QED
    BY <2>1, <2>2
<1>6. QED
  BY <1>1, <1>3, <1>4, <1>5 DEF Next, Continue, vars

\* A call that just began has passed the checks of its handler.
LEMMA BeginsAgreed ==
  ASSUME TypeOK, CallsAgree, OwnersStay, NEW w \in Worker, NEW p \in Person, NEW t \in Ticket,
         NEW stage \in Stages \ {"idle"}, NEW op \in Ops, NEW in \in Patch,
         Found(t), UNCHANGED ticket,
         GoOn(w, stage, op, p, t, in),
         op \in AdminOps => IsStaff(p),
         op \in {"detail", "close"} => IsStaff(p) \/ ticket[t].user = p,
         op = "userReply" => ticket[t].user = p,
         op \in {"userReply", "adminReply"} => ticket[t].status # "closed",
         stage = "append" => op \in {"userReply", "adminReply"},
         stage = "list" <=> op = "detail"
  PROVE  CallsAgree'
<1> DEFINE c == [at |-> stage, op |-> op, by |-> p, id |-> t, row |-> ticket[t], in |-> in]
<1>1. call' = [call EXCEPT ![w] = c]
  BY DEF GoOn
<1>2. ASSUME NEW v \in Worker, call[v].at' # "idle"
      PROVE  (OwnerStays(call[v]) /\ Allowed(call[v]) /\ AtItsStage(call[v]))'
  <2>1. CASE v = w
    <3>1. call[v]' = c
      BY <1>1, <2>1 DEF TypeOK
    <3>2. QED
      BY <3>1 DEF OwnerStays, Found, Allowed, AtItsStage
  <2>2. CASE v # w
    <3>1. call[v]' = call[v]
      BY <1>1, <2>2 DEF TypeOK
    <3>2. QED
      BY <1>2, <3>1 DEF CallsAgree, OwnerStays, Found, Allowed, AtItsStage
  <2>3. QED
    BY <2>1, <2>2
<1>3. QED
  BY <1>2 DEF CallsAgree

\* A request that ends or is not under way leaves the other calls agreed.
LEMMA OthersAgree ==
  ASSUME TypeOK, CallsAgree, OwnersStay, NEW w \in Worker,
         call' = call \/ call' = [call EXCEPT ![w] = Idle]
  PROVE  CallsAgree'
<1>1. ASSUME NEW v \in Worker, call[v].at' # "idle"
      PROVE  (OwnerStays(call[v]) /\ Allowed(call[v]) /\ AtItsStage(call[v]))'
  <2>1. call[v]' = call[v]
    BY <1>1, Distinct DEF TypeOK
  <2>2. call[v].id \in Ticket
    BY <1>1, <2>1, CallTyped
  <2>3. QED
    BY <1>1, <2>1, <2>2 DEF CallsAgree, OwnersStay, OwnerStays, Allowed, AtItsStage
<1>2. QED
  BY <1>1 DEF CallsAgree

\* The calls stay agreed with the table through every step.
LEMMA CallsStep == TypeOK /\ CallsAgree /\ [Next]_vars => CallsAgree'
<1> SUFFICES ASSUME TypeOK, CallsAgree, [Next]_vars PROVE CallsAgree'
  OBVIOUS
<1>0. OwnersStay
  BY OwnersStayStep
<1>1. ASSUME NEW w \in Worker, NEW p \in Person, NEW t \in Ticket, GetRow(w, p, t)
      PROVE  CallsAgree'
  <2>1. CASE ReadError(p, t) # "none"
    BY <1>0, <1>1, <2>1, OthersAgree DEF GetRow, Fail
  <2>2. CASE ReadError(p, t) = "none"
    <3>1. /\ Found(t) /\ GoOn(w, "list", "detail", p, t, NoPatch)
          /\ IsStaff(p) \/ ticket[t].user = p
      BY <1>1, <2>2 DEF GetRow, ReadError
    <3>2. QED
      BY <1>0, <1>1, <3>1, BeginsAgreed, PatchTyped DEF GetRow, Stages, Ops, AdminOps
  <2>3. QED
    BY <2>1, <2>2
<1>2. ASSUME NEW w \in Worker, NEW p \in Person, NEW t \in Ticket,
             NEW op \in {"userReply", "adminReply"}, ReplyGet(w, p, t, op)
      PROVE  CallsAgree'
  <2>1. CASE ReplyError(p, t, op) # "none"
    BY <1>0, <1>2, <2>1, OthersAgree DEF ReplyGet, Fail
  <2>2. CASE ReplyError(p, t, op) = "none"
    <3>1. /\ Found(t) /\ GoOn(w, "append", op, p, t, NoPatch)
          /\ op = "userReply" => ticket[t].user = p
          /\ ticket[t].status # "closed"
          /\ op \in AdminOps => IsStaff(p)
      BY <1>2, <2>2 DEF ReplyGet, ReplyError, MayCall
    <3>2. QED
      BY <1>0, <1>2, <3>1, BeginsAgreed, PatchTyped DEF ReplyGet, Stages, Ops, AdminOps
  <2>3. QED
    BY <2>1, <2>2
<1>3. ASSUME NEW w \in Worker, NEW p \in Person, NEW t \in Ticket, CloseGet(w, p, t)
      PROVE  CallsAgree'
  <2>1. CASE ReadError(p, t) # "none"
    BY <1>0, <1>3, <2>1, OthersAgree DEF CloseGet, Fail
  <2>2. CASE ReadError(p, t) = "none"
    <3>1. /\ Found(t) /\ GoOn(w, "save", "close", p, t, NoPatch)
          /\ IsStaff(p) \/ ticket[t].user = p
      BY <1>3, <2>2 DEF CloseGet, ReadError
    <3>2. QED
      BY <1>0, <1>3, <3>1, BeginsAgreed, PatchTyped DEF CloseGet, Stages, Ops, AdminOps
  <2>3. QED
    BY <2>1, <2>2
<1>4. ASSUME NEW w \in Worker, NEW p \in Person, NEW t \in Ticket, NEW in \in Patch,
             NEW op \in {"patch", "assign"}, PatchGet(w, p, t, op, in)
      PROVE  CallsAgree'
  <2>1. CASE ~Found(t)
    BY <1>0, <1>4, <2>1, OthersAgree DEF PatchGet, Fail
  <2>2. CASE Found(t)
    <3>1. /\ GoOn(w, "save", op, p, t, in)
          /\ op \in AdminOps => IsStaff(p)
      BY <1>4, <2>2 DEF PatchGet, MayCall
    <3>2. QED
      BY <1>0, <1>4, <2>2, <3>1, BeginsAgreed DEF PatchGet, Stages, Ops, AdminOps
  <2>3. QED
    BY <2>1, <2>2
<1>5. ASSUME NEW w \in Worker, ReplyAppend(w)
      PROVE  CallsAgree'
  <2>1. ASSUME NEW v \in Worker, call[v].at' # "idle"
        PROVE  (OwnerStays(call[v]) /\ Allowed(call[v]) /\ AtItsStage(call[v]))'
    <3>1. call[v].at # "idle"
      BY <1>5, <2>1 DEF ReplyAppend, TypeOK
    <3>2. call[v] \in UnderWay
      BY <3>1, CallTyped
    <3>3. call[v]' = call[v] \/ (v = w /\ call[v]' = [call[v] EXCEPT !.at = "save"])
      BY <1>5 DEF ReplyAppend, TypeOK
    <3>4. UNCHANGED ticket
      BY <1>5 DEF ReplyAppend
    <3>5. CASE call[v]' = call[v]
      BY <3>1, <3>4, <3>5 DEF CallsAgree, OwnerStays, Found, Allowed, AtItsStage
    <3>6. CASE v = w /\ call[v]' = [call[v] EXCEPT !.at = "save"]
      <4>1. /\ call[v].op' = call[v].op /\ call[v].by' = call[v].by
            /\ call[v].id' = call[v].id /\ call[v].row' = call[v].row
            /\ call[v].at' = "save" /\ call[v].at = "append"
        BY <1>5, <3>2, <3>6 DEF UnderWay, ReplyAppend
      <4>2. OwnerStays(call[v]) /\ Allowed(call[v]) /\ AtItsStage(call[v])
        BY <3>1 DEF CallsAgree
      <4>3. QED
        BY <3>4, <4>1, <4>2 DEF OwnerStays, Found, Allowed, AtItsStage
    <3>7. QED
      BY <3>3, <3>5, <3>6
  <2>2. QED
    BY <2>1 DEF CallsAgree
<1>6. ASSUME NEW w \in Worker,
             \/ ListMessages(w) \/ ReplySave(w) \/ CloseSave(w) \/ PatchSave(w)
             \/ DatabaseError(w)
      PROVE  CallsAgree'
  BY <1>0, <1>6, OthersAgree DEF ListMessages, ReplySave, CloseSave, PatchSave,
     DatabaseError, Done, Fail
<1>7. ASSUME NEW w \in Worker, UNCHANGED call
      PROVE  CallsAgree'
  BY <1>0, <1>7, OthersAgree
<1>8. CASE UNCHANGED vars
  BY <1>8 DEF vars, CallsAgree, OwnerStays, Found, Allowed, AtItsStage
<1>9. CASE Next
  <2>1. PICK w \in Worker : Continue(w) \/ \E p \in Person : Request(w, p)
    BY <1>9 DEF Next
  <2>2. CASE Continue(w)
    BY <2>2, <1>5, <1>6 DEF Continue
  <2>3. ASSUME NEW p \in Person, Request(w, p)
        PROVE  CallsAgree'
    <3>1. ASSUME NEW t \in Ticket, UserReply(w, p, t) \/ AdminReply(w, p, t)
          PROVE  CallsAgree'
      BY <3>1, <1>2 DEF UserReply, AdminReply
    <3>2. ASSUME NEW t \in Ticket, NEW in \in Patches, AdminPatch(w, p, t, in)
          PROVE  CallsAgree'
      BY <3>2, <1>4, PatchTyped DEF AdminPatch
    <3>3. ASSUME NEW t \in Ticket, NEW a \in Staff, AdminAssign(w, p, t, a)
          PROVE  CallsAgree'
      BY <3>3, <1>4, PatchTyped DEF AdminAssign
    <3>4. QED
      BY <2>3, <3>1, <3>2, <3>3, <1>1, <1>3, <1>7 DEF Request, Create, ListMine, AdminList
  <2>4. QED
    BY <2>1, <2>2, <2>3
<1>10. QED
  BY <1>8, <1>9

\* The inductive invariant of the module.
LEMMA Inductive == Spec => [](TypeOK /\ CallsAgree)
<1>1. Init => TypeOK
  BY TicketsAssumption DEF Init, TypeOK, NoAnswer, TicketsAssumption
<1>2. Init => CallsAgree
  BY DEF Init, CallsAgree, Idle
<1>3. QED
  BY <1>1, <1>2, TypeStep, CallsStep, PTL DEF Spec

-----------------------------------------------------------------------------
(* Who speaks and who reads.                                               *)

\* A message as its ticket may hold it.
Genuine(m, t) == IF m.type = "user" THEN m.sender = ticket[t].user ELSE IsStaff(m.sender)

\* The one message of a new ticket is genuine, and so is each that a reply adds
\* to messages that are.
LEMMA SpeakersStep ==
  TypeOK /\ CallsAgree /\ SpeakersAreWhoTheySay /\ [Next]_vars => SpeakersAreWhoTheySay'
<1> SUFFICES ASSUME TypeOK, CallsAgree, SpeakersAreWhoTheySay, [Next]_vars
             PROVE  SpeakersAreWhoTheySay'
  OBVIOUS
<1>0. OwnersStay
  BY OwnersStayStep
<1> DEFINE Said(t) == \A i \in DOMAIN message[t] : Genuine(message[t][i], t)
<1>1. ASSUME NEW t \in Ticket, message'[t] = message[t], Found(t) \/ UNCHANGED ticket
      PROVE  Said(t)'
  <2>1. Said(t)
    BY DEF SpeakersAreWhoTheySay, Genuine
  <2>2. ticket'[t].user = ticket[t].user
    BY <1>0, <1>1 DEF OwnersStay
  <2>3. QED
    BY <1>1, <2>1, <2>2 DEF Genuine
<1>2. ASSUME NEW w \in Worker, NEW p \in Person, NEW s \in Ticket,
             NEW pr \in Priority, NEW blank \in BOOLEAN, Create(w, p, s, pr, blank)
      PROVE  \A t \in Ticket : Said(t)'
  <2>1. CASE blank
    BY <1>1, <1>2, <2>1 DEF Create
  <2>2. CASE ~blank
    <3> DEFINE m == [sender |-> p, type |-> "user"]
    <3>1. /\ ticket' = [ticket EXCEPT ![s] = NewRow(p, pr)]
          /\ message' = [message EXCEPT ![s] = <<m>>]
      BY <1>2, <2>2 DEF Create, Insert, Update
    <3>2. ticket'[s].user = p /\ message'[s] = <<m>>
      BY <3>1 DEF TypeOK, NewRow
    <3>3. Said(s)'
      BY <3>2 DEF Genuine
    <3>4. ASSUME NEW t \in Ticket, t # s
          PROVE  Said(t)'
      <4>1. message'[t] = message[t] /\ ticket'[t] = ticket[t]
        BY <3>1, <3>4 DEF TypeOK
      <4>2. Said(t)
        BY DEF SpeakersAreWhoTheySay, Genuine
      <4>3. QED
        BY <4>1, <4>2 DEF Genuine
    <3>5. QED
      BY <3>3, <3>4
  <2>3. QED
    BY <2>1, <2>2
<1>3. ASSUME NEW w \in Worker, ReplyAppend(w)
      PROVE  \A t \in Ticket : Said(t)'
  <2> DEFINE s == call[w].id
             m == [sender |-> call[w].by, type |-> SenderType(call[w].op)]
  <2>1. s \in Ticket /\ call[w].by \in Person
    BY <1>3, CallTyped DEF ReplyAppend
  <2>2. OwnerStays(call[w]) /\ Allowed(call[w]) /\ AtItsStage(call[w])
    BY <1>3 DEF ReplyAppend, CallsAgree
  <2>3. Genuine(m, s)
    BY <1>3, <2>2 DEF ReplyAppend, OwnerStays, Allowed, AtItsStage, Genuine, SenderType,
       AdminOps
  <2>4. UNCHANGED ticket /\ message' = [message EXCEPT ![s] = Append(@, m)]
    BY <1>3 DEF ReplyAppend, AppendMessage
  <2>5. m \in Message
    BY <2>1 DEF Message, SenderType
  <2> HIDE DEF m, s
  <2>6. ASSUME NEW t \in Ticket, NEW i \in DOMAIN message'[t]
        PROVE  Genuine(message'[t][i], t)
    <3>1. CASE t # s
      BY <2>4, <2>6, <3>1 DEF TypeOK, SpeakersAreWhoTheySay, Genuine
    <3>2. CASE t = s
      <4>1. message'[s] = Append(message[s], m) /\ message[s] \in Seq(Message)
        BY <2>1, <2>4 DEF TypeOK
      <4>2. /\ i \in 1 .. Len(message[s]) + 1
            /\ i = Len(message[s]) + 1 => message'[s][i] = m
            /\ i # Len(message[s]) + 1 => message'[s][i] = message[s][i]
        BY <2>5, <2>6, <3>2, <4>1
      <4>3. i # Len(message[s]) + 1 => i \in DOMAIN message[s]
        BY <4>1, <4>2
      <4>4. QED
        BY <2>1, <2>3, <3>2, <4>2, <4>3 DEF SpeakersAreWhoTheySay, Genuine
    <3>3. QED
      BY <3>1, <3>2
  <2>7. QED
    BY <2>4, <2>6 DEF Genuine
<1>4. ASSUME NEW w \in Worker, ReplySave(w) \/ CloseSave(w) \/ PatchSave(w)
      PROVE  \A t \in Ticket : Said(t)'
  <2>1. UNCHANGED message
    BY <1>4 DEF ReplySave, CloseSave, PatchSave
  <2>2. PICK row \in Row : /\ row.user = ticket[call[w].id].user
                           /\ ticket' = [ticket EXCEPT ![call[w].id] = row]
    BY <1>4, Writes
  <2>3. \A t \in Ticket : ticket'[t].user = ticket[t].user
    BY <2>2 DEF TypeOK
  <2>4. QED
    BY <2>1, <2>3 DEF SpeakersAreWhoTheySay, Genuine
<1>5. ASSUME UNCHANGED <<ticket, message>>
      PROVE  \A t \in Ticket : Said(t)'
  BY <1>1, <1>5
<1>6. ASSUME NEW w \in Worker, NEW p \in Person, Request(w, p)
      PROVE  \A t \in Ticket : Said(t)'
  BY <1>2, <1>5, <1>6 DEF Request, ListMine, AdminList, GetRow, UserReply, AdminReply,
     ReplyGet, CloseGet, AdminPatch, AdminAssign, PatchGet
<1>7. ASSUME NEW w \in Worker, Continue(w)
      PROVE  \A t \in Ticket : Said(t)'
  BY <1>3, <1>4, <1>5, <1>7 DEF Continue, ListMessages, DatabaseError
<1>8. \A t \in Ticket : Said(t)'
  BY <1>5, <1>6, <1>7 DEF Next, vars
<1>9. QED
  BY <1>8 DEF SpeakersAreWhoTheySay, Genuine

\* Every answer that shows a ticket shows it to its owner or to staff, and what
\* has been shown keeps its owner.
LEMMA AnswersStep ==
  TypeOK /\ CallsAgree /\ OwnTicketsOnly /\ [Next]_vars => OwnTicketsOnly'
<1> SUFFICES ASSUME TypeOK, CallsAgree, OwnTicketsOnly, [Next]_vars
             PROVE  OwnTicketsOnly'
  OBVIOUS
<1>1. ASSUME answer'.shown = {}
      PROVE  OwnTicketsOnly'
  BY <1>1 DEF OwnTicketsOnly
<1>2. ASSUME UNCHANGED <<ticket, answer>>
      PROVE  OwnTicketsOnly'
  BY <1>2 DEF OwnTicketsOnly
<1>3. ASSUME NEW w \in Worker, NEW p \in Person, NEW t \in Ticket,
             NEW pr \in Priority, NEW blank \in BOOLEAN, Create(w, p, t, pr, blank)
      PROVE  OwnTicketsOnly'
  <2>1. CASE blank
    BY <1>3, <2>1 DEF Create, Answer, OwnTicketsOnly
  <2>2. CASE ~blank
    <3>1. /\ ticket' = [ticket EXCEPT ![t] = NewRow(p, pr)]
          /\ answer' = [code |-> 0, to |-> p, shown |-> {t}]
      BY <1>3, <2>2 DEF Create, Insert, Update, Answer
    <3>2. ticket'[t].user = p
      BY <3>1 DEF TypeOK, NewRow
    <3>3. QED
      BY <3>1, <3>2 DEF OwnTicketsOnly
  <2>3. QED
    BY <2>1, <2>2
<1>4. ASSUME NEW w \in Worker, NEW p \in Person, NEW limit \in Limits,
             ListMine(w, p, limit)
      PROVE  OwnTicketsOnly'
  <2>1. p # Nobody
    BY TicketsAssumption DEF TicketsAssumption
  <2>2. PICK page \in Page([AnyRow EXCEPT !.user = p], limit) : Answer(0, p, page)
    BY <1>4 DEF ListMine
  <2>3. \A t \in page : ticket[t].user = p
    BY <2>1, <2>2 DEF Page, AnyRow
  <2>4. QED
    BY <1>4, <2>2, <2>3 DEF ListMine, Answer, OwnTicketsOnly
<1>5. ASSUME NEW w \in Worker, NEW p \in Person, NEW f \in Filters,
             NEW limit \in Limits, AdminList(w, p, f, limit)
      PROVE  OwnTicketsOnly'
  BY <1>5 DEF AdminList, MayCall, AdminOps, Answer, OwnTicketsOnly, IsStaff
<1>6. ASSUME NEW w \in Worker, ReplySave(w) \/ PatchSave(w) \/ ListMessages(w)
      PROVE  OwnTicketsOnly'
  <2>1. call[w].at # "idle"
    BY <1>6 DEF ReplySave, PatchSave, ListMessages
  <2>2. call[w].id \in Ticket /\ call[w].row \in Row
    BY <2>1, CallTyped
  <2>3. OwnerStays(call[w]) /\ Allowed(call[w]) /\ AtItsStage(call[w])
    BY <2>1 DEF CallsAgree
  <2>4. IsStaff(call[w].by) \/ ticket[call[w].id].user = call[w].by
    BY <1>6, <2>3 DEF ReplySave, PatchSave, ListMessages, OwnerStays, Allowed, AtItsStage,
       AdminOps
  <2>5. ticket'[call[w].id].user = ticket[call[w].id].user
    <3>1. CASE ListMessages(w)
      BY <3>1 DEF ListMessages
    <3>2. CASE ReplySave(w) \/ PatchSave(w)
      <4>1. PICK row \in Row : /\ row.user = ticket[call[w].id].user
                               /\ ticket' = [ticket EXCEPT ![call[w].id] = row]
        BY <3>2, Writes
      <4>2. QED
        BY <2>2, <4>1 DEF TypeOK
    <3>3. QED
      BY <1>6, <3>1, <3>2
  <2>6. answer' = [code |-> 0, to |-> call[w].by, shown |-> {call[w].id}]
    BY <1>6 DEF ReplySave, PatchSave, ListMessages, Done, Answer
  <2>7. QED
    BY <2>4, <2>5, <2>6 DEF OwnTicketsOnly
<1>7. ASSUME NEW w \in Worker, CloseSave(w) \/ DatabaseError(w)
      PROVE  OwnTicketsOnly'
  BY <1>1, <1>7 DEF CloseSave, DatabaseError, Done, Fail, Answer
<1>8. ASSUME NEW w \in Worker, NEW p \in Person, NEW t \in Ticket, NEW op, NEW in,
             \/ GetRow(w, p, t) \/ ReplyGet(w, p, t, op)
             \/ CloseGet(w, p, t) \/ PatchGet(w, p, t, op, in)
      PROVE  OwnTicketsOnly'
  BY <1>1, <1>8 DEF GetRow, ReplyGet, CloseGet, PatchGet, GoOn, Fail, Answer, NoAnswer
<1>9. ASSUME NEW w \in Worker, NEW p \in Person, Request(w, p)
      PROVE  OwnTicketsOnly'
  <2>1. ASSUME NEW t \in Ticket, UserReply(w, p, t) \/ AdminReply(w, p, t)
        PROVE  OwnTicketsOnly'
    BY <2>1, <1>8 DEF UserReply, AdminReply
  <2>2. ASSUME NEW t \in Ticket, NEW in \in Patches, AdminPatch(w, p, t, in)
        PROVE  OwnTicketsOnly'
    BY <2>2, <1>8 DEF AdminPatch
  <2>3. ASSUME NEW t \in Ticket, NEW a \in Staff, AdminAssign(w, p, t, a)
        PROVE  OwnTicketsOnly'
    BY <2>3, <1>8 DEF AdminAssign
  <2>4. QED
    BY <1>9, <2>1, <2>2, <2>3, <1>3, <1>4, <1>5, <1>8 DEF Request
<1>10. ASSUME NEW w \in Worker, Continue(w)
       PROVE  OwnTicketsOnly'
  BY <1>2, <1>6, <1>7, <1>10 DEF Continue, ReplyAppend
<1>11. QED
  BY <1>2, <1>9, <1>10 DEF Next, vars

\* Nobody speaks in a ticket as somebody else, and no customer is shown a ticket
\* of another, however the requests of several people overlap.
THEOREM NobodyIsImpersonated == Spec => []PeopleAreWhoTheySay
<1>1. Init => SpeakersAreWhoTheySay /\ OwnTicketsOnly
  BY DEF Init, NoAnswer, SpeakersAreWhoTheySay, OwnTicketsOnly
<1>2. QED
  BY <1>1, Inductive, SpeakersStep, AnswersStep, PTL DEF Spec, PeopleAreWhoTheySay

-----------------------------------------------------------------------------
(* What overlapping requests may undo.                                     *)

\* The row a call writes and what became of its ticket's status and assignee.
LEMMA WriteOf ==
  ASSUME TypeOK, NEW w \in Worker, NEW t \in Ticket, NEW row,
         Update(call[w].id, row), ticket'[t] # ticket[t]
  PROVE  t = call[w].id /\ ticket'[t] = row
BY DEF Update, TypeOK

\* The condition of ClosedStaysClosed, for one ticket and one call.
Reopens(w, t) ==
    /\ call[w].at \in {"append", "save"}
    /\ call[w].id = t
    /\ call[w].in.status # Nobody \/ call[w].row.status # "closed"

\* A closed ticket changes only through a patch that names a status or a call
\* that read it open.
THEOREM ClosedIsFinal == Spec => ClosedStaysClosed
<1>1. ASSUME TypeOK, CallsAgree, [Next]_vars, NEW t \in Ticket,
             ticket[t].status = "closed",
             ticket'[t].status # "closed" \/ message'[t] # message[t]
      PROVE  \E w \in Worker : Reopens(w, t)
  <2>1. Found(t)
    BY <1>1 DEF Found, NoRow
  <2>2. ASSUME NEW w \in Worker, ReplyAppend(w)
        PROVE  Reopens(w, t)
    <3>1. call[w].id \in Ticket
      BY <1>1, <2>2, CallTyped DEF ReplyAppend
    <3>2. t = call[w].id
      BY <1>1, <2>2, <3>1 DEF ReplyAppend, AppendMessage, TypeOK
    <3>3. call[w].row.status # "closed"
      BY <1>1, <2>2 DEF ReplyAppend, CallsAgree, Allowed, AtItsStage
    <3>4. QED
      BY <2>2, <3>2, <3>3 DEF ReplyAppend, Reopens
  <2>3. ASSUME NEW w \in Worker, ReplySave(w) \/ CloseSave(w) \/ PatchSave(w)
        PROVE  Reopens(w, t)
    <3>1. /\ call[w].at = "save" /\ UNCHANGED message
          /\ call[w].id \in Ticket /\ call[w].row \in Row /\ call[w].in \in Patch
      BY <1>1, <2>3, CallTyped DEF ReplySave, CloseSave, PatchSave
    <3>2. ticket'[t] # ticket[t] /\ ticket'[t].status # "closed"
      BY <1>1, <3>1
    <3>3. CASE ReplySave(w)
      <4>1. t = call[w].id
        BY <1>1, <3>2, <3>3, WriteOf DEF ReplySave
      <4>2. call[w].row.status # "closed"
        BY <1>1, <3>1, <3>3 DEF ReplySave, CallsAgree, Allowed
      <4>3. QED
        BY <3>1, <4>1, <4>2 DEF Reopens
    <3>4. CASE CloseSave(w)
      <4>1. ticket'[t] = [call[w].row EXCEPT !.status = "closed"]
        BY <1>1, <3>2, <3>4, WriteOf DEF CloseSave
      <4>2. QED
        BY <3>1, <3>2, <4>1 DEF Row
    <3>5. CASE PatchSave(w)
      <4>1. t = call[w].id /\ ticket'[t] = Patched(call[w].row, call[w].in)
        BY <1>1, <3>2, <3>5, WriteOf DEF PatchSave
      <4>2. call[w].in.status = Nobody => ticket'[t].status = call[w].row.status
        BY <3>1, <4>1 DEF Patched, Row
      <4>3. QED
        BY <3>1, <3>2, <4>1, <4>2 DEF Reopens
    <3>6. QED
      BY <2>3, <3>3, <3>4, <3>5
  <2>4. ASSUME NEW w \in Worker, NEW p \in Person, Request(w, p)
        PROVE  ticket'[t] = ticket[t] /\ message'[t] = message[t]
    <3>1. ASSUME NEW s \in Ticket, NEW pr \in Priority, NEW blank \in BOOLEAN,
                 Create(w, p, s, pr, blank)
          PROVE  ticket'[t] = ticket[t] /\ message'[t] = message[t]
      BY <1>1, <2>1, <3>1 DEF Create, Insert, Update, TypeOK
    <3>2. QED
      BY <2>4, <3>1 DEF Request, ListMine, AdminList, GetRow, UserReply, AdminReply,
         ReplyGet, CloseGet, AdminPatch, AdminAssign, PatchGet
  <2>5. QED
    BY <1>1, <2>2, <2>3, <2>4 DEF Next, Continue, ListMessages, DatabaseError, vars
<1>2. TypeOK /\ CallsAgree /\ [Next]_vars
        => [\A t \in Ticket :
              /\ ticket[t].status = "closed"
              /\ ticket'[t].status # "closed" \/ message'[t] # message[t]
              => \E w \in Worker :
                   /\ call[w].at \in {"append", "save"}
                   /\ call[w].id = t
                   /\ \/ call[w].in.status # Nobody
                      \/ call[w].row.status # "closed"]_vars
  BY <1>1 DEF Reopens
<1>3. QED
  BY <1>2, Inductive, PTL DEF Spec, ClosedStaysClosed

\* An assignment is undone only by another one or by a call that read the row
\* before it was made.
THEOREM AssignmentsLast == Spec => AssignmentSticks
<1>1. ASSUME TypeOK, CallsAgree, [Next]_vars, NEW t \in Ticket,
             Found(t), ticket'[t].assignee # ticket[t].assignee
      PROVE  \E w \in Worker :
               /\ call[w].at = "save"
               /\ call[w].id = t
               /\ \/ /\ ticket'[t].assignee = call[w].in.assignee
                     /\ call[w].in.assignee # Nobody
                  \/ call[w].row.assignee # ticket[t].assignee
  <2>1. ASSUME NEW w \in Worker, ReplySave(w) \/ CloseSave(w) \/ PatchSave(w)
        PROVE  /\ call[w].at = "save"
               /\ call[w].id = t
               /\ \/ /\ ticket'[t].assignee = call[w].in.assignee
                     /\ call[w].in.assignee # Nobody
                  \/ call[w].row.assignee # ticket[t].assignee
    <3>1. /\ call[w].at = "save"
          /\ call[w].id \in Ticket /\ call[w].row \in Row /\ call[w].in \in Patch
      BY <1>1, <2>1, CallTyped DEF ReplySave, CloseSave, PatchSave
    <3>2. CASE ReplySave(w)
      <4>1. t = call[w].id /\ ticket'[t] = AfterReply(call[w].op, call[w].row)
        BY <1>1, <3>2, WriteOf DEF ReplySave
      <4>2. QED
        BY <1>1, <3>1, <4>1, SavedKeeps
    <3>3. CASE CloseSave(w)
      <4>1. t = call[w].id /\ ticket'[t] = [call[w].row EXCEPT !.status = "closed"]
        BY <1>1, <3>3, WriteOf DEF CloseSave
      <4>2. QED
        BY <1>1, <3>1, <4>1 DEF Row
    <3>4. CASE PatchSave(w)
      <4>1. t = call[w].id /\ ticket'[t] = Patched(call[w].row, call[w].in)
        BY <1>1, <3>4, WriteOf DEF PatchSave
      <4>2. ticket'[t].assignee = IF call[w].in.assignee # Nobody
                                  THEN call[w].in.assignee ELSE call[w].row.assignee
        BY <3>1, <4>1 DEF Patched, Row
      <4>3. QED
        BY <1>1, <3>1, <4>1, <4>2
    <3>5. QED
      BY <2>1, <3>2, <3>3, <3>4
  <2>2. ASSUME NEW w \in Worker, NEW p \in Person, Request(w, p)
        PROVE  ticket'[t] = ticket[t]
    <3>1. ASSUME NEW s \in Ticket, NEW pr \in Priority, NEW blank \in BOOLEAN,
                 Create(w, p, s, pr, blank)
          PROVE  ticket'[t] = ticket[t]
      BY <1>1, <3>1 DEF Create, Insert, Update, TypeOK
    <3>2. QED
      BY <2>2, <3>1 DEF Request, ListMine, AdminList, GetRow, UserReply, AdminReply,
         ReplyGet, CloseGet, AdminPatch, AdminAssign, PatchGet
  <2>3. QED
    BY <1>1, <2>1, <2>2 DEF Next, Continue, ListMessages, ReplyAppend, DatabaseError, vars
<1>2. TypeOK /\ CallsAgree /\ [Next]_vars
        => [\A t \in Ticket :
              Found(t) /\ ticket'[t].assignee # ticket[t].assignee
              => \E w \in Worker :
                   /\ call[w].at = "save"
                   /\ call[w].id = t
                   /\ \/ ticket'[t].assignee = call[w].in.assignee /\ call[w].in.assignee # Nobody
                      \/ call[w].row.assignee # ticket[t].assignee]_vars
  BY <1>1
<1>3. QED
  BY <1>2, Inductive, PTL DEF Spec, AssignmentSticks
=============================================================================
