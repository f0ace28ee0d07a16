------------------------------ MODULE Tickets ------------------------------
(***************************************************************************)
(* Support tickets: TicketController over the ticket table.  Replying and  *)
(* resolving read the whole ticket, check that it is open, change the      *)
(* entity and save all of it one await later, replies included.            *)
(*                                                                         *)
(* An action is one SQL statement on the ticket table with the code that   *)
(* runs on its result.  JwtGuard's read of the caller's account comes      *)
(* before and commutes with everything here, so it is merged with it.      *)
(***************************************************************************)
EXTENDS Integers, FiniteSets, SequencesExt

CONSTANTS
  UserId,
  SupportAgent,    \* the users with that role; nobody gains or loses it
  TicketId,
  Content,         \* texts of replies
  Request,         \* slots for requests in flight
  Null,
  MaxReplies,      \* bound on the replies of a ticket
  MaxFaults        \* bound on crashes and rejected statements

VARIABLES
  ticket,   \* table "ticket"
  req,
  faults

vars == <<ticket, req, faults>>

-----------------------------------------------------------------------------
(* Entities and requests.                                                  *)

TicketReply == [content : Content, createdBy : UserId]

TicketEntity ==
  [id : TicketId, createdBy : UserId, status : {"open", "closed"},
   resolvedBy : UserId \cup {Null}, replies : Seq(TicketReply)]

ASSUME TicketsAssumption ==
  /\ SupportAgent \subseteq UserId
  /\ MaxReplies \in Nat
  /\ MaxFaults \in Nat
  /\ Null \notin UserId
  /\ Null \notin TicketEntity

\* Mutant: no default status
NewTicketWithoutStatus(t, u) ==
  [id |-> t, createdBy |-> u, status |-> Null, resolvedBy |-> Null,
   replies |-> <<>>]

\* TicketEntity.create
NewTicket(t, u) ==
  [id |-> t, createdBy |-> u, status |-> "open", resolvedBy |-> Null,
   replies |-> <<>>]

\* KyselyTicketRepository.save on an id the table has: UPDATE of every column
\* but created_by
Updated(e) == [ticket EXCEPT ![e.id] = [e EXCEPT !.createdBy = ticket[e.id].createdBy]]

Idle == [pc |-> "idle"]
Done(status) == [pc |-> "done", status |-> status]

RequestState ==
  [pc : {"idle"}]
  \cup [pc : {"save"}, ticket : TicketEntity, status : {200, 204}]
  \cup [pc : {"done"}, status : {200, 201, 204, 400, 403, 404, 500}]

Goto(r, state) == req' = [req EXCEPT ![r] = state]

TypeOK ==
  /\ ticket \in [TicketId -> TicketEntity \cup {Null}]
  /\ req \in [Request -> RequestState]
  /\ faults \in 0..MaxFaults

Init ==
  /\ ticket = [t \in TicketId |-> Null]
  /\ req = [r \in Request |-> Idle]
  /\ faults = 0

-----------------------------------------------------------------------------
(* Operations.                                                             *)

\* POST /tickets: one statement
Create(r, u, t) ==
  /\ req[r] = Idle
  /\ ticket[t] = Null                       \* randomUUID() is fresh
  /\ ticket' = [ticket EXCEPT ![t] = NewTicket(t, u)]
  /\ Goto(r, Done(201))
  /\ UNCHANGED faults

\* The checks on the ticket that reply and resolve share
Refused(r, t) ==
  \/ ticket[t] = Null /\ Goto(r, Done(404))
  \/ ticket[t] # Null /\ ticket[t].status # "open" /\ Goto(r, Done(400))

IsOpen(t) == ticket[t] # Null /\ ticket[t].status = "open"

\* Mutant: no check that the ticket is open
ReplyToAny(r, u, t, content) ==
  /\ req[r] = Idle
  /\ ticket[t] # Null
  /\ Len(ticket[t].replies) < MaxReplies
  /\ Goto(r, [pc |-> "save", status |-> 204,
              ticket |-> [ticket[t] EXCEPT !.replies =
                Append(@, [content |-> content, createdBy |-> u])]])
  /\ UNCHANGED <<ticket, faults>>

\* Mutant: the reply replaces the list
ReplyAlone(r, u, t, content) ==
  /\ req[r] = Idle
  /\ IsOpen(t)
  /\ Goto(r, [pc |-> "save", status |-> 204,
              ticket |-> [ticket[t] EXCEPT !.replies =
                <<[content |-> content, createdBy |-> u]>>]])
  /\ UNCHANGED <<ticket, faults>>

\* POST /tickets/:id/reply up to its save
Reply(r, u, t, content) ==
  /\ req[r] = Idle
  /\ \/ Refused(r, t)
     \/ /\ IsOpen(t)
        /\ Len(ticket[t].replies) < MaxReplies
        /\ Goto(r, [pc |-> "save", status |-> 204,
                    ticket |-> [ticket[t] EXCEPT !.replies =
                      Append(@, [content |-> content, createdBy |-> u])]])
  /\ UNCHANGED <<ticket, faults>>

\* Mutant: anybody resolves
ResolveByAny(r, u, t) ==
  /\ req[r] = Idle
  /\ IsOpen(t)
  /\ Goto(r, [pc |-> "save", status |-> 200,
              ticket |-> [ticket[t] EXCEPT !.status = "closed",
                                           !.resolvedBy = u]])
  /\ UNCHANGED <<ticket, faults>>

\* POST /tickets/:id/resolve up to its save
Resolve(r, u, t) ==
  /\ req[r] = Idle
  /\ \/ u \notin SupportAgent /\ Goto(r, Done(403))
     \/ u \in SupportAgent /\ Refused(r, t)
     \/ /\ u \in SupportAgent
        /\ IsOpen(t)
        /\ Goto(r, [pc |-> "save", status |-> 200,
                    ticket |-> [ticket[t] EXCEPT !.status = "closed",
                                                 !.resolvedBy = u]])
  /\ UNCHANGED <<ticket, faults>>

SaveTicket(r) ==
  /\ req[r].pc = "save"
  /\ ticket' = Updated(req[r].ticket)
  /\ Goto(r, Done(req[r].status))
  /\ UNCHANGED faults

\* The client receives the response.
Respond(r) ==
  /\ req[r].pc = "done"
  /\ Goto(r, Idle)
  /\ UNCHANGED <<ticket, faults>>

\* An awaited statement is rejected.
Reject(r) ==
  /\ req[r].pc = "save"
  /\ faults < MaxFaults
  /\ faults' = faults + 1
  /\ Goto(r, Done(500))
  /\ UNCHANGED ticket

\* The process dies and restarts: every request in flight is forgotten.
Crash ==
  /\ faults < MaxFaults
  /\ faults' = faults + 1
  /\ req' = [r \in Request |-> Idle]
  /\ UNCHANGED ticket

Next ==
  \/ \E r \in Request :
       \/ \E u \in UserId, t \in TicketId :
            \/ Create(r, u, t)
            \/ \E content \in Content : Reply(r, u, t, content)
            \/ Resolve(r, u, t)
       \/ SaveTicket(r)
       \/ Respond(r)
       \/ Reject(r)
  \/ Crash

Spec == Init /\ [][Next]_vars

-----------------------------------------------------------------------------
(* Properties.                                                             *)

Stored == {t \in TicketId : ticket[t] # Null}

\* Status and resolver are saved as one entity: whatever stale saves overlap, a
\* ticket is closed exactly when it names who resolved it, a support agent.
ClosedByAgent ==
  \A t \in Stored :
    /\ ticket[t].status = "closed" <=> ticket[t].resolvedBy # Null
    /\ ticket[t].status = "closed" => ticket[t].resolvedBy \in SupportAgent

\* A ticket is settled when it is closed and every save of it under way would
\* write what the table has.
Settled(t) ==
  /\ ticket[t] # Null /\ ticket[t].status = "closed"
  /\ \A r \in Request :
       req[r].pc = "save" /\ req[r].ticket.id = t => req[r].ticket = ticket[t]

\* A settled ticket is final: the "is not open" checks fail only while a request
\* that read the ticket when it was open is still to save it.
SettledIsFinal ==
  [][\A t \in TicketId : Settled(t) => Settled(t)' /\ ticket'[t] = ticket[t]]_vars

\* Request r is about to reopen a ticket or to drop replies of it.
Outdated(r) ==
  /\ req[r].pc = "save"
  /\ LET e == req[r].ticket
     IN  \/ ticket[e.id].status = "closed"
         \/ ~ IsPrefix(ticket[e.id].replies, e.replies)

\* A save reopens a ticket, replaces its resolver or drops a reply only when
\* another request saved the same ticket between this one's read and its save.
OutdatedByOverlap ==
  [][\A r \in Request :
       Outdated(r)' =>
         \/ Outdated(r)
         \/ \E q \in Request \ {r} :
              SaveTicket(q) /\ req[q].ticket.id = req[r].ticket.id]_vars

\* The tickets of the table, as the abstract board has them
board ==
  [t \in Stored |-> [createdBy  |-> ticket[t].createdBy,
                     resolvedBy |-> ticket[t].resolvedBy,
                     replies    |-> ticket[t].replies]]

\* The board comes with the theorems about it.
Board == INSTANCE TicketBoard_proofs

\* The row request r read, made out from what it is about to save, ...
RowRead(r) ==
  LET e == req[r].ticket
  IN  IF req[r].status = 204 THEN [e EXCEPT !.replies = Front(@)]
      ELSE [e EXCEPT !.status = "open", !.resolvedBy = Null]

\* ... is still the one in the table.
Current(r) == ticket[req[r].ticket.id] = RowRead(r)

Stale(r) == req[r].pc = "save" /\ ~Current(r)

\* Read, check, change and save are one step of the board, although other
\* requests run in between: a save takes effect as if the whole handler had run
\* alone, unless another one saved the same ticket meanwhile.
FreshSavesAreAtomic ==
  /\ Board!BoardInit
  /\ [][Board!BoardNext \/ \E r \in Request : SaveTicket(r) /\ Stale(r)]_board
  /\ [][\A r \in Request :
          Stale(r)' =>
            \/ Stale(r)
            \/ \E q \in Request \ {r} :
                 SaveTicket(q) /\ req[q].ticket.id = req[r].ticket.id]_vars

\* No two requests are about to save the same ticket.
NoOverlap ==
  \A r, q \in Request :
    /\ req[r].pc = "save" /\ req[q].pc = "save"
    /\ req[r].ticket.id = req[q].ticket.id
    => r = q

\* The reply test "successfully replies to a ticket" finds the reply after its
\* 204: what is in a ticket's list of replies stays there.
RepliesAreKept ==
  [][\A t \in Stored : IsPrefix(ticket[t].replies, ticket'[t].replies)]_vars

\* The reply test "returns an error when ticket is closed" and the message "is
\* not open and cannot be replied to": a closed ticket does not change any more.
ClosedIsFinal ==
  [][\A t \in Stored : ticket[t].status = "closed" => ticket'[t] = ticket[t]]_vars

-----------------------------------------------------------------------------
(* The inductive invariant.                                                *)

\* A save under way carries a ticket the table has, with its own opener, closed
\* exactly when it names the support agent who resolves it.
SavesKnow ==
  \A r \in Request : req[r].pc = "save" =>
    LET e == req[r].ticket
    IN  /\ ticket[e.id] # Null
        /\ e.createdBy = ticket[e.id].createdBy
        /\ e.status = "closed" <=> e.resolvedBy # Null
        /\ e.resolvedBy \in SupportAgent \cup {Null}

IdsAgree == \A t \in Stored : ticket[t].id = t

IInv == TypeOK /\ IdsAgree /\ SavesKnow /\ ClosedByAgent

\* A save under way is the end of a reply, with the answer, or of a resolution.
SavesAct ==
  \A r \in Request : req[r].pc = "save" =>
    LET e == req[r].ticket
    IN  \/ req[r].status = 204 /\ e.status = "open" /\ e.replies # <<>>
        \/ req[r].status = 200 /\ e.status = "closed"

\* The row every save under way has read is still the one in the table.
SavesFresh == \A r \in Request : ~Stale(r)
=============================================================================
