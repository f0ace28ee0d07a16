--------------------------- MODULE Tickets_proofs ---------------------------
EXTENDS Tickets, SequenceTheorems, TLAPS

LEMMA TypeInit == Init => TypeOK
  BY TicketsAssumption DEF Init, TypeOK, Idle, RequestState

LEMMA NewTicketType ==
  ASSUME NEW t \in TicketId, NEW u \in UserId
  PROVE  NewTicket(t, u) \in TicketEntity /\ NewTicket(t, u) # Null
<1> DEFINE S == Seq(TicketReply)
           none == <<>>
<1>1. none \in S
  OBVIOUS
<1>2. NewTicket(t, u) = [id |-> t, createdBy |-> u, status |-> "open",
                         resolvedBy |-> Null, replies |-> none]
  BY DEF NewTicket
<1>3. TicketEntity = [id : TicketId, createdBy : UserId, status : {"open", "closed"},
                      resolvedBy : UserId \cup {Null}, replies : S]
  BY DEF TicketEntity
<1> HIDE DEF S, none
<1>4. [id |-> t, createdBy |-> u, status |-> "open", resolvedBy |-> Null, replies |-> none]
        \in [id : TicketId, createdBy : UserId, status : {"open", "closed"},
            resolvedBy : UserId \cup {Null}, replies : S]
  BY <1>1
<1>5. NewTicket(t, u) \in TicketEntity
  BY ONLY <1>2, <1>3, <1>4
<1> QED
  BY <1>5, TicketsAssumption

\* What reply makes of a ticket
LEMMA RepliedType ==
  ASSUME NEW e \in TicketEntity, NEW u \in UserId, NEW content \in Content
  PROVE  [e EXCEPT !.replies = Append(@, [content |-> content, createdBy |-> u])]
           \in TicketEntity
<1>1. e.replies \in Seq(TicketReply) /\ [content |-> content, createdBy |-> u] \in TicketReply
  BY DEF TicketEntity, TicketReply
<1>2. Append(e.replies, [content |-> content, createdBy |-> u]) \in Seq(TicketReply)
  BY <1>1
<1> QED
  BY <1>2 DEF TicketEntity

\* A reply only adds to the replies it was given.
LEMMA PrefixOfAppend ==
  ASSUME NEW S, NEW s \in Seq(S), NEW x \in S
  PROVE  IsPrefix(s, Append(s, x)) /\ IsPrefix(s, s)
BY Board!PrefixOfAppend DEF IsPrefix, Board!IsPrefix

\* The replies before an answer was added can be read off those after it, and
\* any list of replies but the empty one is what an answer was added to.
LEMMA FrontOfAppend ==
  ASSUME NEW S, NEW s \in Seq(S), NEW x \in S
  PROVE  Append(s, x) # <<>> /\ Front(Append(s, x)) = s
<1>1. /\ Append(s, x) \in Seq(S) /\ Len(s) \in Nat
      /\ Len(Append(s, x)) = Len(s) + 1
  OBVIOUS
<1>2. SubSeq(Append(s, x), 1, Len(s)) = s
  BY <1>1, SubSeqProperties, SMT
<1> QED
  BY <1>1, <1>2 DEF Front

LEMMA AppendOfFront ==
  ASSUME NEW S, NEW s \in Seq(S), s # <<>>
  PROVE  \E x \in S : Front(s) \in Seq(S) /\ s = Append(Front(s), x)
<1>1. PICK f \in Seq(S), x \in S : s = Append(f, x)
  BY SequenceEmptyOrAppend
<1> QED
  BY <1>1, FrontOfAppend

\* What resolve makes of a ticket
LEMMA ResolvedType ==
  ASSUME NEW e \in TicketEntity, NEW u \in SupportAgent
  PROVE  [e EXCEPT !.status = "closed", !.resolvedBy = u] \in TicketEntity
  BY TicketsAssumption DEF TicketEntity

\* The part of SavesKnow about one entity to be saved
Savable(e) ==
  /\ ticket[e.id] # Null
  /\ e.createdBy = ticket[e.id].createdBy
  /\ e.status = "closed" <=> e.resolvedBy # Null
  /\ e.resolvedBy \in SupportAgent \cup {Null}

\* A ticket of the table can be saved as it is.
LEMMA StoredSavable ==
  ASSUME IInv, NEW t \in TicketId, ticket[t] # Null
  PROVE  /\ ticket[t] \in TicketEntity
         /\ ticket[t].id = t
         /\ Savable(ticket[t])
  BY TicketsAssumption
     DEF IInv, TypeOK, IdsAgree, ClosedByAgent, Stored, Savable, TicketEntity

-----------------------------------------------------------------------------
(* The table changes by a creation or by a save.                           *)

LEMMA CreateStep ==
  ASSUME IInv, NEW r \in Request, NEW u \in UserId, NEW t \in TicketId, Create(r, u, t)
  PROVE  IInv'
<1> DEFINE new == NewTicket(t, u)
<1>1. /\ new \in TicketEntity /\ new # Null /\ new.id = t
      /\ new.status = "open" /\ new.resolvedBy = Null
  BY NewTicketType DEF NewTicket
<1>7. Done(201) \in RequestState
  BY DEF Done, RequestState
<1>2. /\ ticket[t] = Null /\ ticket' = [ticket EXCEPT ![t] = new]
      /\ req'[r] = Done(201) /\ faults' = faults
      /\ \A q \in Request : q # r => req'[q] = req[q]
      /\ req' \in [Request -> RequestState]
  BY <1>7 DEF Create, Goto, IInv, TypeOK
<1> HIDE DEF new
<1>3. /\ ticket'[t] = new /\ \A k \in TicketId : k # t => ticket'[k] = ticket[k]
      /\ Stored' = Stored \cup {t}
  BY <1>1, <1>2 DEF IInv, TypeOK, Stored
<1>4. TypeOK'
  BY <1>1, <1>2 DEF IInv, TypeOK
<1>5. IdsAgree' /\ ClosedByAgent'
  BY <1>1, <1>3 DEF IInv, IdsAgree, ClosedByAgent, Stored
<1>6. SavesKnow'
  <2> SUFFICES ASSUME NEW q \in Request, req'[q].pc = "save"
               PROVE  Savable(req[q].ticket)'
    BY DEF SavesKnow, Savable
  <2>1. req'[q] = req[q] /\ q # r
    BY <1>2 DEF Done
  <2>2. req[q].ticket.id \in TicketId /\ Savable(req[q].ticket)
    BY <2>1 DEF IInv, TypeOK, RequestState, TicketEntity, SavesKnow, Savable
  <2> QED
    BY <1>2, <1>3, <2>1, <2>2 DEF Savable
<1> QED
  BY <1>4, <1>5, <1>6 DEF IInv

LEMMA SaveStep ==
  ASSUME IInv, NEW r \in Request, SaveTicket(r)
  PROVE  /\ IInv'
         /\ LET e == req[r].ticket
            IN  /\ e \in TicketEntity /\ e.id \in TicketId /\ ticket[e.id] # Null
                /\ ticket'[e.id] = e
                /\ \A t \in TicketId : t # e.id => ticket'[t] = ticket[t]
<1> DEFINE e == req[r].ticket
<1>1. e \in TicketEntity /\ e.id \in TicketId /\ req[r].status \in {200, 204}
  BY DEF SaveTicket, IInv, TypeOK, RequestState, TicketEntity
<1>2. Savable(e)
  BY DEF SaveTicket, IInv, SavesKnow, Savable
<1>3. ticket' = Updated(e) /\ faults' = faults
  BY DEF SaveTicket
<1>4. /\ req'[r] = Done(req[r].status)
      /\ \A q \in Request : q # r => req'[q] = req[q]
      /\ req' \in [Request -> RequestState]
  BY <1>1 DEF SaveTicket, Goto, Done, IInv, TypeOK, RequestState
<1> HIDE DEF e
<1>5. [e EXCEPT !.createdBy = ticket[e.id].createdBy] = e
  BY <1>1, <1>2 DEF TicketEntity, Savable
<1>6. /\ ticket'[e.id] = e /\ e # Null
      /\ \A t \in TicketId : t # e.id => ticket'[t] = ticket[t]
      /\ ticket' \in [TicketId -> TicketEntity \cup {Null}]
  BY <1>1, <1>2, <1>3, <1>5, TicketsAssumption DEF IInv, TypeOK, Updated
<1>7. Stored' = Stored
  BY <1>2, <1>6 DEF Stored, Savable
<1>8. TypeOK'
  BY <1>3, <1>4, <1>6 DEF IInv, TypeOK
<1>9. IdsAgree'
  BY <1>6, <1>7 DEF IInv, IdsAgree, Stored
<1>10. ClosedByAgent'
  BY <1>2, <1>6, <1>7 DEF IInv, ClosedByAgent, Savable, Stored
<1>11. SavesKnow'
  <2> SUFFICES ASSUME NEW q \in Request, req'[q].pc = "save"
               PROVE  Savable(req[q].ticket)'
    BY DEF SavesKnow, Savable
  <2>1. req'[q] = req[q] /\ q # r
    BY <1>4 DEF Done
  <2>2. req[q].ticket.id \in TicketId /\ Savable(req[q].ticket)
    BY <2>1 DEF IInv, TypeOK, RequestState, TicketEntity, SavesKnow, Savable
  <2>3. CASE req[q].ticket.id = e.id
    BY <1>2, <1>6, <2>1, <2>2, <2>3 DEF Savable
  <2>4. CASE req[q].ticket.id # e.id
    BY <1>6, <2>1, <2>2, <2>4 DEF Savable
  <2> QED
    BY <2>3, <2>4
<1> QED
  BY <1>1, <1>2, <1>6, <1>8, <1>9, <1>10, <1>11 DEF IInv, Savable, e

-----------------------------------------------------------------------------
(* Every other step moves requests only.                                   *)

LEMMA EnterStep ==
  ASSUME IInv, NEW r \in Request, NEW state \in RequestState,
         state.pc = "save" => Savable(state.ticket),
         Goto(r, state), UNCHANGED <<ticket, faults>>
  PROVE  IInv'
<1>1. /\ req'[r] = state
      /\ \A q \in Request : q # r => req'[q] = req[q]
      /\ req' \in [Request -> RequestState]
  BY DEF Goto, IInv, TypeOK
<1> QED
  BY <1>1 DEF IInv, TypeOK, IdsAgree, ClosedByAgent, Stored, SavesKnow, Savable

LEMMA RefusedStep ==
  ASSUME IInv, NEW r \in Request, NEW t \in TicketId, Refused(r, t),
         UNCHANGED <<ticket, faults>>
  PROVE  IInv'
<1>1. Done(404) \in RequestState /\ Done(400) \in RequestState
  BY DEF Done, RequestState
<1> QED
  BY <1>1, EnterStep DEF Refused, Done

LEMMA ReplyStep ==
  ASSUME IInv, NEW r \in Request, NEW u \in UserId, NEW t \in TicketId,
         NEW content \in Content, Reply(r, u, t, content)
  PROVE  IInv'
<1> DEFINE e == [ticket[t] EXCEPT !.replies =
                   Append(@, [content |-> content, createdBy |-> u])]
<1>1. CASE Refused(r, t)
  BY <1>1, RefusedStep DEF Reply
<1>2. CASE IsOpen(t) /\ Goto(r, [pc |-> "save", status |-> 204, ticket |-> e])
  <2>1. ticket[t] \in TicketEntity /\ Savable(ticket[t])
    BY <1>2, StoredSavable DEF IsOpen
  <2>2. /\ e \in TicketEntity /\ e.id = ticket[t].id /\ e.status = ticket[t].status
        /\ e.createdBy = ticket[t].createdBy /\ e.resolvedBy = ticket[t].resolvedBy
    BY <2>1, RepliedType DEF TicketEntity
  <2> HIDE DEF e
  <2>3. [pc |-> "save", status |-> 204, ticket |-> e] \in RequestState /\ Savable(e)
    BY <2>1, <2>2 DEF RequestState, Savable
  <2> QED
    BY <1>2, <2>3, EnterStep DEF Reply
<1> QED
  BY <1>1, <1>2 DEF Reply

LEMMA ResolveStep ==
  ASSUME IInv, NEW r \in Request, NEW u \in UserId, NEW t \in TicketId, Resolve(r, u, t)
  PROVE  IInv'
<1> DEFINE e == [ticket[t] EXCEPT !.status = "closed", !.resolvedBy = u]
<1>1. CASE Refused(r, t)
  BY <1>1, RefusedStep DEF Resolve
<1>2. CASE Goto(r, Done(403))
  <2>1. Done(403) \in RequestState
    BY DEF Done, RequestState
  <2> QED
    BY <1>2, <2>1, EnterStep DEF Resolve, Done
<1>3. CASE u \in SupportAgent /\ IsOpen(t)
           /\ Goto(r, [pc |-> "save", status |-> 200, ticket |-> e])
  <2>1. ticket[t] \in TicketEntity /\ Savable(ticket[t])
    BY <1>3, StoredSavable DEF IsOpen
  <2>2. /\ e \in TicketEntity /\ e.id = ticket[t].id /\ e.status = "closed"
        /\ e.createdBy = ticket[t].createdBy /\ e.resolvedBy = u
    BY <1>3, <2>1, ResolvedType DEF TicketEntity
  <2> HIDE DEF e
  <2>3. [pc |-> "save", status |-> 200, ticket |-> e] \in RequestState /\ Savable(e)
    BY <1>3, <2>1, <2>2, TicketsAssumption DEF RequestState, Savable
  <2> QED
    BY <1>3, <2>3, EnterStep DEF Resolve
<1> QED
  BY <1>1, <1>2, <1>3 DEF Resolve

-----------------------------------------------------------------------------
(* The inductive invariant.                                                *)

LEMMA IInvInit == Init => IInv
<1> SUFFICES ASSUME Init PROVE IInv
  OBVIOUS
<1>1. TypeOK
  BY TypeInit
<1> QED
  BY <1>1 DEF Init, IInv, IdsAgree, SavesKnow, ClosedByAgent, Stored, Idle

LEMMA IInvNext == IInv /\ [Next]_vars => IInv'
<1> SUFFICES ASSUME IInv, [Next]_vars PROVE IInv'
  OBVIOUS
<1>1. ASSUME NEW r \in Request, Respond(r)
      PROVE  IInv'
  <2>1. Idle \in RequestState
    BY DEF Idle, RequestState
  <2> QED
    BY <1>1, <2>1, EnterStep DEF Respond, Idle
<1>2. ASSUME NEW r \in Request, Reject(r)
      PROVE  IInv'
  <2>1. /\ req'[r] = Done(500) /\ req' \in [Request -> RequestState]
        /\ \A q \in Request : q # r => req'[q] = req[q]
        /\ ticket' = ticket /\ faults' \in 0..MaxFaults
    BY <1>2, TicketsAssumption DEF Reject, Goto, Done, IInv, TypeOK, RequestState
  <2> QED
    BY <2>1 DEF IInv, TypeOK, IdsAgree, SavesKnow, ClosedByAgent, Stored, Done
<1>3. CASE Crash
  <2>1. /\ req' = [r \in Request |-> Idle] /\ req' \in [Request -> RequestState]
        /\ ticket' = ticket /\ faults' \in 0..MaxFaults
    BY <1>3, TicketsAssumption DEF Crash, Idle, IInv, TypeOK, RequestState
  <2> QED
    BY <2>1 DEF IInv, TypeOK, IdsAgree, SavesKnow, ClosedByAgent, Stored, Idle
<1>4. CASE UNCHANGED vars
  BY <1>4 DEF vars, IInv, TypeOK, IdsAgree, SavesKnow, ClosedByAgent, Stored
<1> QED
  BY <1>1, <1>2, <1>3, <1>4, CreateStep, SaveStep, ReplyStep, ResolveStep DEF Next

\* The inductive invariant of the tickets
THEOREM Invariance == Spec => []IInv
  BY IInvInit, IInvNext, PTL DEF Spec

\* The table and the requests stay in their types.
THEOREM TypeCorrect == Spec => []TypeOK
  BY Invariance, PTL DEF IInv

\* A save under way, of a ticket read one await earlier, still has that ticket's
\* opener, and is closed exactly when it names the agent who resolves it.
THEOREM SavesAreSound == Spec => []SavesKnow
  BY Invariance, PTL DEF IInv

\* A closed ticket names the support agent who resolved it, an open one nobody.
THEOREM ClosedTicketsHaveAgents == Spec => []ClosedByAgent
  BY Invariance, PTL DEF IInv

-----------------------------------------------------------------------------
(* Settled tickets.                                                        *)

\* A save under way after a step was under way before, or a reply or a
\* resolution reaches it with the step.
LEMMA SaveOrigin ==
  ASSUME IInv, [Next]_vars, NEW r \in Request, req'[r].pc = "save"
  PROVE  \/ req'[r] = req[r]
         \/ \E u \in UserId, t \in TicketId, content \in Content : Reply(r, u, t, content)
         \/ \E u \in UserId, t \in TicketId : Resolve(r, u, t)
<1>1. ASSUME NEW q \in Request, NEW state, Goto(q, state), state.pc # "save"
      PROVE  req'[r] = req[r]
  BY <1>1 DEF Goto, IInv, TypeOK
<1>2. Idle.pc # "save" /\ \A status : Done(status).pc # "save"
  BY DEF Idle, Done
<1>3. ASSUME NEW q \in Request, NEW u \in UserId, NEW t \in TicketId, Create(q, u, t)
      PROVE  req'[r] = req[r]
  BY <1>1, <1>2, <1>3 DEF Create
<1>4. ASSUME NEW q \in Request, SaveTicket(q) \/ Respond(q) \/ Reject(q)
      PROVE  req'[r] = req[r]
  BY <1>1, <1>2, <1>4 DEF SaveTicket, Respond, Reject
<1>5. ASSUME NEW q \in Request, q # r, NEW u \in UserId, NEW t \in TicketId,
             \/ \E content \in Content : Reply(q, u, t, content)
             \/ Resolve(q, u, t)
      PROVE  req'[r] = req[r]
  BY <1>5 DEF Reply, Resolve, Refused, Goto, IInv, TypeOK
<1>6. ~Crash
  BY DEF Crash, Idle
<1>7. UNCHANGED vars => req'[r] = req[r]
  BY DEF vars
<1>8. \/ UNCHANGED vars
      \/ \E q \in Request : SaveTicket(q) \/ Respond(q) \/ Reject(q)
      \/ \E q \in Request, u \in UserId, t \in TicketId :
           \/ Create(q, u, t)
           \/ \E content \in Content : Reply(q, u, t, content)
           \/ Resolve(q, u, t)
  BY <1>6, Zenon DEF Next
<1> QED
  BY <1>3, <1>4, <1>5, <1>7, <1>8, Zenon

\* What a request that starts to save has read and is about to write
SaveBegins(r, t) ==
  LET e == req'[r].ticket
  IN  /\ ticket' = ticket
      /\ IsOpen(t)
      /\ e.id = t
      /\ IsPrefix(ticket[t].replies, e.replies)
      /\ RowRead(r)' = ticket[t]
      /\ \/ req'[r].status = 204 /\ e.status = "open" /\ e.replies # <<>>
         \/ req'[r].status = 200 /\ e.status = "closed"

LEMMA ReplyBegins ==
  ASSUME IInv, NEW r \in Request, NEW u \in UserId, NEW t \in TicketId,
         NEW content \in Content, Reply(r, u, t, content), req'[r].pc = "save"
  PROVE  SaveBegins(r, t)
<1> DEFINE reply == [content |-> content, createdBy |-> u]
           e == [ticket[t] EXCEPT !.replies = Append(@, reply)]
<1>1. ticket' = ticket /\ IsOpen(t) /\ req'[r] = [pc |-> "save", status |-> 204, ticket |-> e]
  BY DEF Reply, Refused, Goto, Done, IInv, TypeOK
<1>2. ticket[t] \in TicketEntity /\ ticket[t].id = t /\ ticket[t].status = "open"
  BY <1>1, StoredSavable DEF IsOpen
<1>3. ticket[t].replies \in Seq(TicketReply) /\ reply \in TicketReply
  BY <1>2 DEF TicketEntity, TicketReply
<1>4. e.id = t /\ e.status = "open" /\ e.replies = Append(ticket[t].replies, reply)
  BY <1>2 DEF TicketEntity
<1>5. /\ IsPrefix(ticket[t].replies, Append(ticket[t].replies, reply))
      /\ Front(Append(ticket[t].replies, reply)) = ticket[t].replies
      /\ Append(ticket[t].replies, reply) # <<>>
  BY <1>3, PrefixOfAppend, FrontOfAppend
<1>6. [e EXCEPT !.replies = ticket[t].replies] = ticket[t]
  BY <1>2 DEF TicketEntity
<1> HIDE DEF e, reply
<1>7. /\ IsPrefix(ticket[t].replies, e.replies)
      /\ Front(e.replies) = ticket[t].replies
      /\ e.replies # <<>>
  BY <1>4, <1>5, Zenon
<1>8. req'[r].ticket = e /\ req'[r].status = 204
  BY <1>1
<1>9. RowRead(r)' = [e EXCEPT !.replies = Front(e.replies)]
  BY <1>8 DEF RowRead
<1>10. RowRead(r)' = ticket[t]
  BY <1>6, <1>7, <1>9, Zenon
<1> QED
  BY <1>1, <1>4, <1>7, <1>8, <1>10 DEF SaveBegins

LEMMA ResolveBegins ==
  ASSUME IInv, NEW r \in Request, NEW u \in UserId, NEW t \in TicketId,
         Resolve(r, u, t), req'[r].pc = "save"
  PROVE  SaveBegins(r, t)
<1> DEFINE e == [ticket[t] EXCEPT !.status = "closed", !.resolvedBy = u]
<1>1. ticket' = ticket /\ IsOpen(t) /\ req'[r] = [pc |-> "save", status |-> 200, ticket |-> e]
  BY DEF Resolve, Refused, Goto, Done, IInv, TypeOK
<1>2. /\ ticket[t] \in TicketEntity /\ ticket[t].id = t
      /\ ticket[t].status = "open" /\ ticket[t].resolvedBy = Null
  BY <1>1, StoredSavable DEF IsOpen, Savable
<1>3. e.id = t /\ e.replies = ticket[t].replies /\ e.status = "closed"
  BY <1>2 DEF TicketEntity
<1>4. [e EXCEPT !.status = "open", !.resolvedBy = Null] = ticket[t]
  BY <1>2 DEF TicketEntity
<1>5. IsPrefix(ticket[t].replies, ticket[t].replies)
  BY <1>2 DEF TicketEntity, IsPrefix
<1> HIDE DEF e
<1>6. req'[r].ticket = e /\ req'[r].status = 200
  BY <1>1
<1>7. RowRead(r)' = ticket[t]
  BY <1>4, <1>6 DEF RowRead
<1> QED
  BY <1>1, <1>3, <1>5, <1>6, <1>7 DEF SaveBegins

\* A save under way after a step was under way before, or starts with the step
\* from a ticket that is open.
LEMMA SaveStarts ==
  ASSUME IInv, [Next]_vars, NEW r \in Request, req'[r].pc = "save"
  PROVE  req'[r] = req[r] \/ \E t \in TicketId : SaveBegins(r, t)
BY SaveOrigin, ReplyBegins, ResolveBegins

LEMMA TicketWriters ==
  ASSUME IInv, [Next]_vars, NEW t \in Stored
  PROVE  \/ ticket'[t] = ticket[t]
         \/ \E r \in Request : SaveTicket(r) /\ req[r].ticket.id = t
<1>1. t \in TicketId /\ ticket[t] # Null
  BY DEF Stored
<1>2. ASSUME NEW r \in Request, NEW u \in UserId, NEW k \in TicketId, Create(r, u, k)
      PROVE  ticket'[t] = ticket[t]
  BY <1>1, <1>2 DEF Create, IInv, TypeOK
<1>3. ASSUME NEW r \in Request, SaveTicket(r), req[r].ticket.id # t
      PROVE  ticket'[t] = ticket[t]
  BY <1>1, <1>3, SaveStep
<1>4. \/ ticket' = ticket
      \/ \E r \in Request, u \in UserId, k \in TicketId : Create(r, u, k)
      \/ \E r \in Request : SaveTicket(r)
  BY DEF Next, vars, Reply, Resolve, Respond, Reject, Crash
<1> QED
  BY <1>2, <1>3, <1>4

LEMMA SettledNext ==
  ASSUME IInv, [Next]_vars, NEW t \in TicketId, Settled(t)
  PROVE  Settled(t)' /\ ticket'[t] = ticket[t]
<1>1. ticket'[t] = ticket[t]
  <2>1. ASSUME NEW r \in Request, SaveTicket(r), req[r].ticket.id = t
        PROVE  ticket'[t] = ticket[t]
    BY <2>1, SaveStep DEF Settled, SaveTicket
  <2> QED
    BY <2>1, TicketWriters DEF Settled, Stored
<1>2. ASSUME NEW r \in Request, req'[r].pc = "save", req'[r].ticket.id = t
      PROVE  req'[r].ticket = ticket[t]
  <2>1. CASE req'[r] = req[r]
    BY <1>2, <2>1 DEF Settled
  <2>2. ~IsOpen(t)
    BY DEF Settled, IsOpen
  <2> QED
    BY <1>2, <2>1, <2>2, SaveStarts DEF SaveBegins
<1> QED
  BY <1>1, <1>2 DEF Settled

\* Once closed with no stale save under way, a ticket never changes.
THEOREM SettledTicketsAreFinal == Spec => SettledIsFinal
<1>1. IInv /\ [Next]_vars =>
        \A t \in TicketId : Settled(t) => Settled(t)' /\ ticket'[t] = ticket[t]
  BY SettledNext
<1> QED
  BY <1>1, Invariance, PTL DEF Spec, SettledIsFinal

\* A save goes stale, and so reopens a ticket or drops a reply, only through an
\* overlapping save of the ticket.
THEOREM TicketsAreLostByOverlap == Spec => OutdatedByOverlap
<1>1. IInv /\ [Next]_vars =>
        \A r \in Request : Outdated(r)' =>
          \/ Outdated(r)
          \/ \E q \in Request \ {r} :
               SaveTicket(q) /\ req[q].ticket.id = req[r].ticket.id
  <2> SUFFICES ASSUME IInv, [Next]_vars, NEW r \in Request, Outdated(r)'
               PROVE  \/ Outdated(r)
                      \/ \E q \in Request \ {r} :
                           SaveTicket(q) /\ req[q].ticket.id = req[r].ticket.id
    OBVIOUS
  <2>1. req'[r].pc = "save"
    BY DEF Outdated
  <2>2. CASE req'[r] = req[r]
    <3>1. req[r].pc = "save" /\ req[r].ticket.id \in Stored
      BY <2>1, <2>2 DEF IInv, TypeOK, RequestState, TicketEntity, SavesKnow, Stored
    <3>2. CASE ticket'[req[r].ticket.id] = ticket[req[r].ticket.id]
      BY <2>2, <3>2 DEF Outdated
    <3>3. ASSUME NEW q \in Request, SaveTicket(q), req[q].ticket.id = req[r].ticket.id
          PROVE  q # r
      BY <2>1, <3>3, SMT DEF SaveTicket, Goto, Done, IInv, TypeOK
    <3> QED
      BY <3>1, <3>2, <3>3, TicketWriters
  <2>3. ASSUME NEW t \in TicketId, SaveBegins(r, t)
        PROVE  FALSE
    BY <2>3 DEF Outdated, IsOpen, SaveBegins
  <2> QED
    BY <2>1, <2>2, <2>3, SaveStarts
<1> QED
  BY <1>1, Invariance, PTL DEF Spec, OutdatedByOverlap
-----------------------------------------------------------------------------
(* Saves as single steps of the abstract board.                            *)

LEMMA SavesActNext == IInv /\ SavesAct /\ [Next]_vars => SavesAct'
<1> SUFFICES ASSUME IInv, SavesAct, [Next]_vars, NEW r \in Request, req'[r].pc = "save"
             PROVE  LET e == req'[r].ticket
                    IN  \/ req'[r].status = 204 /\ e.status = "open" /\ e.replies # <<>>
                        \/ req'[r].status = 200 /\ e.status = "closed"
  BY DEF SavesAct
<1>1. CASE req'[r] = req[r]
  BY <1>1 DEF SavesAct
<1>2. CASE \E t \in TicketId : SaveBegins(r, t)
  BY <1>2 DEF SaveBegins
<1> QED
  BY <1>1, <1>2, SaveStarts

\* A request saves with status 204 an open ticket that it has added an answer
\* to, with status 200 one that it has closed.
THEOREM SavesFinishHandlers == Spec => []SavesAct
<1>1. Init => SavesAct
  BY DEF Init, SavesAct, Idle
<1> QED
  BY <1>1, SavesActNext, Invariance, PTL DEF Spec

\* What the board has in the place of a row
Shown(row) ==
  [createdBy |-> row.createdBy, resolvedBy |-> row.resolvedBy, replies |-> row.replies]

LEMMA BoardOfTable ==
  /\ board = [t \in Stored |-> Shown(ticket[t])]
  /\ DOMAIN board = Stored
  /\ \A t \in Stored : /\ board[t].createdBy = ticket[t].createdBy
                       /\ board[t].resolvedBy = ticket[t].resolvedBy
                       /\ board[t].replies = ticket[t].replies
BY DEF board, Shown

LEMMA CreateOpens ==
  ASSUME IInv, NEW r \in Request, NEW u \in UserId, NEW t \in TicketId, Create(r, u, t)
  PROVE  Board!Open(t, u)
<1> DEFINE new == NewTicket(t, u)
<1>1. new # Null /\ Shown(new) = Board!Opened(u)
  BY NewTicketType DEF NewTicket, Shown, Board!Opened
<1>2. ticket[t] = Null /\ ticket' = [ticket EXCEPT ![t] = new]
  BY DEF Create
<1> HIDE DEF new
<1>3. /\ t \notin Stored /\ Stored' = Stored \cup {t} /\ ticket'[t] = new
      /\ \A k \in Stored : ticket'[k] = ticket[k]
  BY <1>1, <1>2 DEF IInv, TypeOK, Stored
<1>4. board' = [k \in Stored' |-> Shown(ticket'[k])]
  BY DEF board, Shown
<1>5. \A k \in Stored \cup {t} :
        Shown(ticket'[k]) = IF k = t THEN Board!Opened(u) ELSE board[k]
  BY <1>1, <1>3, BoardOfTable
<1> QED
  BY <1>3, <1>4, <1>5, BoardOfTable DEF Board!Open

\* The save of a request whose row is current is the whole of its handler.
LEMMA SaveActs ==
  ASSUME IInv, SavesAct, NEW r \in Request, SaveTicket(r), Current(r)
  PROVE  Board!BoardNext
<1> DEFINE e == req[r].ticket
           t == e.id
<1>1. /\ e \in TicketEntity /\ t \in TicketId /\ ticket[t] # Null
      /\ ticket'[t] = e
      /\ \A k \in TicketId : k # t => ticket'[k] = ticket[k]
  BY SaveStep
<1>2. /\ e.createdBy = ticket[t].createdBy
      /\ e.status = "closed" <=> e.resolvedBy # Null
      /\ e.resolvedBy \in SupportAgent \cup {Null}
      /\ ticket[t] \in TicketEntity /\ e # Null
  BY <1>1, TicketsAssumption DEF SaveTicket, IInv, SavesKnow, TypeOK
<1>3. ticket[t] = RowRead(r)
  BY DEF Current
<1>4. \/ req[r].status = 204 /\ e.status = "open" /\ e.replies # <<>>
      \/ req[r].status = 200 /\ e.status = "closed"
  BY DEF SaveTicket, SavesAct
<1> HIDE DEF e
<1>5. Stored' = Stored /\ t \in Stored /\ \A k \in Stored : k \in TicketId
  BY <1>1, <1>2 DEF Stored
<1>6. board' = [board EXCEPT ![t] = Shown(e)]
  <2>1. board' = [k \in Stored |-> Shown(ticket'[k])]
    BY <1>5 DEF board, Shown
  <2>2. \A k \in Stored : Shown(ticket'[k]) = IF k = t THEN Shown(e) ELSE board[k]
    BY <1>1, <1>5, BoardOfTable DEF Shown
  <2> QED
    BY <1>5, <2>1, <2>2, BoardOfTable
<1>7. CASE req[r].status = 204 /\ e.status = "open" /\ e.replies # <<>>
  <2>1. e.replies \in Seq(TicketReply)
    BY <1>1 DEF TicketEntity
  <2>2. PICK answer \in TicketReply : e.replies = Append(Front(e.replies), answer)
    BY <1>7, <2>1, AppendOfFront
  <2>3. ticket[t] = [e EXCEPT !.replies = Front(e.replies)]
    BY <1>3, <1>7 DEF RowRead, e
  <2>4. /\ ticket[t].createdBy = e.createdBy /\ ticket[t].resolvedBy = e.resolvedBy
        /\ ticket[t].replies = Front(e.replies) /\ e.resolvedBy = Null
    BY <1>1, <1>2, <1>7, <2>3 DEF TicketEntity
  <2>5. e.replies = Append(ticket[t].replies, answer)
    BY <2>2, <2>4, Zenon
  <2>6. [Shown(ticket[t]) EXCEPT !.replies = Append(@, answer)] = Shown(e)
    BY <2>4, <2>5 DEF Shown
  <2>7. board[t] = Shown(ticket[t])
    BY <1>5, BoardOfTable
  <2>8. Board!IsOpen(t)
    BY <1>5, <2>4, BoardOfTable DEF Board!IsOpen
  <2>9. board' = [board EXCEPT ![t].replies = Append(@, answer)]
    BY <1>6, <2>6, <2>7
  <2>10. answer \in Board!Answer
    BY DEF TicketReply, Board!Answer
  <2> QED
    BY <1>1, <2>8, <2>9, <2>10 DEF Board!Reply, Board!BoardNext
<1>8. CASE req[r].status = 200 /\ e.status = "closed"
  <2>1. ticket[t] = [e EXCEPT !.status = "open", !.resolvedBy = Null]
    BY <1>3, <1>8 DEF RowRead, e
  <2>2. /\ ticket[t].createdBy = e.createdBy /\ ticket[t].resolvedBy = Null
        /\ ticket[t].replies = e.replies /\ e.resolvedBy \in SupportAgent
    BY <1>1, <1>2, <1>8, <2>1 DEF TicketEntity
  <2>3. [Shown(ticket[t]) EXCEPT !.resolvedBy = e.resolvedBy] = Shown(e)
    BY <2>2 DEF Shown
  <2>4. board[t] = Shown(ticket[t])
    BY <1>5, BoardOfTable
  <2>5. Board!IsOpen(t)
    BY <1>5, <2>2, BoardOfTable DEF Board!IsOpen
  <2>6. board' = [board EXCEPT ![t].resolvedBy = e.resolvedBy]
    BY <1>6, <2>3, <2>4
  <2> QED
    BY <1>1, <2>2, <2>5, <2>6 DEF Board!Resolve, Board!BoardNext
<1> QED
  BY <1>4, <1>7, <1>8

LEMMA StepOnBoard ==
  ASSUME IInv, SavesAct, [Next]_vars
  PROVE  [Board!BoardNext \/ \E r \in Request : SaveTicket(r) /\ Stale(r)]_board
<1>1. CASE ticket' = ticket
  BY <1>1 DEF board, Stored
<1>2. ASSUME NEW r \in Request, NEW u \in UserId, NEW t \in TicketId, Create(r, u, t)
      PROVE  Board!BoardNext
  BY <1>2, CreateOpens DEF Board!BoardNext
<1>3. \/ ticket' = ticket
      \/ \E r \in Request, u \in UserId, t \in TicketId : Create(r, u, t)
      \/ \E r \in Request : SaveTicket(r)
  BY DEF Next, vars, Reply, Resolve, Respond, Reject, Crash
<1> QED
  BY <1>1, <1>2, <1>3, SaveActs DEF Stale, SaveTicket

LEMMA BoardStarts == Init => Board!BoardInit
<1> SUFFICES ASSUME Init PROVE Board!BoardInit
  OBVIOUS
<1>1. Stored = {}
  BY DEF Init, Stored
<1> QED
  BY <1>1 DEF board, Board!BoardInit

LEMMA StaleNext ==
  ASSUME IInv, [Next]_vars, NEW r \in Request, Stale(r)'
  PROVE  \/ Stale(r)
         \/ \E q \in Request \ {r} :
              SaveTicket(q) /\ req[q].ticket.id = req[r].ticket.id
<1>1. req'[r].pc = "save" /\ ~Current(r)'
  BY DEF Stale
<1>2. CASE req'[r] = req[r]
  <2> DEFINE t == req[r].ticket.id
  <2>1. req[r].pc = "save" /\ t \in Stored
    BY <1>1, <1>2 DEF IInv, TypeOK, RequestState, TicketEntity, SavesKnow, Stored
  <2>2. CASE ticket'[t] = ticket[t]
    BY <1>1, <1>2, <2>1, <2>2 DEF Current, RowRead, Stale
  <2>3. ASSUME NEW q \in Request, SaveTicket(q), req[q].ticket.id = t
        PROVE  q # r
    BY <1>1, <2>3, SMT DEF SaveTicket, Goto, Done, IInv, TypeOK
  <2> QED
    BY <2>1, <2>2, <2>3, TicketWriters
<1>3. ASSUME NEW t \in TicketId, SaveBegins(r, t)
      PROVE  FALSE
  BY <1>1, <1>3 DEF SaveBegins, Current
<1> QED
  BY <1>1, <1>2, <1>3, SaveStarts

\* A reply or a resolution, three statements that other requests run between,
\* takes effect as one step of the board, unless the row it read was saved over.
THEOREM SavesAreAtomic == Spec => FreshSavesAreAtomic
<1>1. IInv /\ SavesAct /\ [Next]_vars =>
        [Board!BoardNext \/ \E r \in Request : SaveTicket(r) /\ Stale(r)]_board
  BY StepOnBoard
<1>2. IInv /\ [Next]_vars =>
        \A r \in Request : Stale(r)' =>
          \/ Stale(r)
          \/ \E q \in Request \ {r} :
               SaveTicket(q) /\ req[q].ticket.id = req[r].ticket.id
  BY StaleNext
<1> QED
  BY <1>1, <1>2, BoardStarts, Invariance, SavesFinishHandlers, PTL
     DEF Spec, FreshSavesAreAtomic

-----------------------------------------------------------------------------
(* Tickets whose saves do not overlap.                                     *)

LEMMA SavesFreshNext ==
  IInv /\ SavesFresh /\ NoOverlap /\ [Next]_vars => SavesFresh'
<1> SUFFICES ASSUME IInv, SavesFresh, NoOverlap, [Next]_vars, NEW r \in Request, Stale(r)'
             PROVE  FALSE
  BY DEF SavesFresh
<1>1. PICK q \in Request \ {r} : SaveTicket(q) /\ req[q].ticket.id = req[r].ticket.id
  BY StaleNext DEF SavesFresh
<1>2. CASE req'[r] = req[r]
  BY <1>1, <1>2 DEF Stale, NoOverlap, SaveTicket
<1>3. CASE \E t \in TicketId : SaveBegins(r, t)
  BY <1>3 DEF Stale, SaveBegins, Current
<1> QED
  BY <1>2, <1>3, SaveStarts DEF Stale

\* While no two saves of one ticket overlap, every one of them has read the row
\* it replaces.
THEOREM NoOverlapKeepsFresh == Spec /\ []NoOverlap => []SavesFresh
<1>1. Init => SavesFresh
  BY DEF Init, SavesFresh, Stale, Idle
<1> QED
  BY <1>1, SavesFreshNext, Invariance, PTL DEF Spec

LEMMA FreshStepOnBoard ==
  ASSUME IInv, SavesAct, SavesFresh, [Next]_vars
  PROVE  [Board!BoardNext]_board
BY StepOnBoard DEF SavesFresh

\* Handlers whose saves do not overlap implement the abstract board: nothing but
\* an overlap of two saves of one ticket makes it behave as no ticket should.
THEOREM BoardImplemented == Spec /\ []NoOverlap => Board!BoardSpec
<1>1. IInv /\ SavesAct /\ SavesFresh /\ [Next]_vars => [Board!BoardNext]_board
  BY FreshStepOnBoard
<1> QED
  BY <1>1, BoardStarts, Invariance, SavesFinishHandlers, NoOverlapKeepsFresh, PTL
     DEF Spec, Board!BoardSpec

\* The board never loses a ticket, and neither does the table.
LEMMA TableAsBoard ==
  ASSUME IInv, IInv', Board!BoardTypeOK, [Board!BoardNext]_board, NEW t \in Stored
  PROVE  /\ IsPrefix(ticket[t].replies, ticket'[t].replies)
         /\ ticket[t].status = "closed" => ticket'[t] = ticket[t]
<1>1. t \in DOMAIN board
  BY BoardOfTable
<1>2. /\ t \in DOMAIN board'
      /\ Board!IsPrefix(board[t].replies, board'[t].replies)
      /\ ~Board!IsOpen(t) => board'[t] = board[t]
  BY <1>1, Board!TicketNext
<1>3. /\ t \in Stored'
      /\ board'[t].createdBy = ticket'[t].createdBy
      /\ board'[t].resolvedBy = ticket'[t].resolvedBy
      /\ board'[t].replies = ticket'[t].replies
  BY <1>2 DEF board
<1>4. IsPrefix(ticket[t].replies, ticket'[t].replies)
  BY <1>1, <1>2, <1>3, BoardOfTable DEF IsPrefix, Board!IsPrefix
<1>5. ASSUME ticket[t].status = "closed"
      PROVE  ticket'[t] = ticket[t]
  <2>1. ticket[t] \in TicketEntity /\ ticket'[t] \in TicketEntity
    BY <1>3 DEF IInv, TypeOK, Stored
  <2>2. ticket[t].resolvedBy # Null
    BY <1>5 DEF IInv, ClosedByAgent
  <2>3. board'[t] = board[t]
    BY <1>2, <2>2, BoardOfTable DEF Board!IsOpen
  <2>4. /\ ticket'[t].createdBy = ticket[t].createdBy
        /\ ticket'[t].resolvedBy = ticket[t].resolvedBy
        /\ ticket'[t].replies = ticket[t].replies
    BY <1>3, <2>3, BoardOfTable
  <2>5. ticket'[t].status = "closed" /\ ticket'[t].id = t /\ ticket[t].id = t
    BY <1>3, <2>2, <2>4 DEF IInv, ClosedByAgent, IdsAgree
  <2> QED
    BY <1>5, <2>1, <2>4, <2>5 DEF TicketEntity
<1> QED
  BY <1>4, <1>5

LEMMA BoardTyped == Spec /\ []NoOverlap => []Board!BoardTypeOK
  BY BoardImplemented, Board!TypeCorrect, PTL

\* What the reply tests say is true of every ticket when no two saves of one
\* overlap: an answer given is an answer kept.
THEOREM RepliesKeptWithoutOverlap == Spec /\ []NoOverlap => RepliesAreKept
<1>1. IInv /\ IInv' /\ SavesAct /\ SavesFresh /\ Board!BoardTypeOK /\ [Next]_vars =>
        \A t \in Stored : IsPrefix(ticket[t].replies, ticket'[t].replies)
  BY TableAsBoard, FreshStepOnBoard
<1> QED
  BY <1>1, Invariance, SavesFinishHandlers, NoOverlapKeepsFresh, BoardTyped, PTL
     DEF Spec, RepliesAreKept

\* So is the message "is not open and cannot be replied to": what is closed
\* stays as it is.
THEOREM ClosedFinalWithoutOverlap == Spec /\ []NoOverlap => ClosedIsFinal
<1>1. IInv /\ IInv' /\ SavesAct /\ SavesFresh /\ Board!BoardTypeOK /\ [Next]_vars =>
        \A t \in Stored : ticket[t].status = "closed" => ticket'[t] = ticket[t]
  BY TableAsBoard, FreshStepOnBoard
<1> QED
  BY <1>1, Invariance, SavesFinishHandlers, NoOverlapKeepsFresh, BoardTyped, PTL
     DEF Spec, ClosedIsFinal
=============================================================================
