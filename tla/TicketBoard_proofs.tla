------------------------ MODULE TicketBoard_proofs ------------------------
EXTENDS TicketBoard, SequenceTheorems, TLAPS

\* A reply only adds to the replies there are.
LEMMA PrefixOfAppend ==
  ASSUME NEW S, NEW s \in Seq(S), NEW x \in S
  PROVE  IsPrefix(s, Append(s, x)) /\ IsPrefix(s, s)
<1>1. /\ Append(s, x) \in Seq(S) /\ Len(s) \in Nat
      /\ Len(Append(s, x)) = Len(s) + 1
  OBVIOUS
<1>2. SubSeq(Append(s, x), 1, Len(s)) = SubSeq(s, 1, Len(s))
  BY <1>1, SubSeqProperties, SMT
<1> QED
  BY <1>1, <1>2 DEF IsPrefix

-----------------------------------------------------------------------------
(* What a step makes of the tickets.                                       *)

\* The ticket t is e after the step, and every other ticket is as it was.
Becomes(t, e) ==
  /\ DOMAIN board' = DOMAIN board \cup {t}
  /\ board' \in [DOMAIN board' -> Ticket]
  /\ board'[t] = e
  /\ \A k \in DOMAIN board : k # t => board'[k] = board[k]

LEMMA OpenStep ==
  ASSUME BoardTypeOK, NEW t \in TicketId, NEW u \in UserId, Open(t, u)
  PROVE  t \notin DOMAIN board /\ Becomes(t, Opened(u))
<1> DEFINE new == Opened(u)
<1>1. new \in Ticket
  <2>1. <<>> \in Seq(Answer)
    OBVIOUS
  <2> QED
    BY <2>1 DEF Opened, Ticket
<1> HIDE DEF new
<1>2. /\ t \notin DOMAIN board
      /\ board' = [k \in DOMAIN board \cup {t} |-> IF k = t THEN new ELSE board[k]]
  BY DEF Open, new
<1>3. Becomes(t, new)
  BY <1>1, <1>2 DEF Becomes, BoardTypeOK
<1> QED
  BY <1>2, <1>3 DEF new

LEMMA ReplyStep ==
  ASSUME BoardTypeOK, NEW t \in TicketId, NEW answer \in Answer, Reply(t, answer)
  PROVE  /\ IsOpen(t)
         /\ IsPrefix(board[t].replies, board'[t].replies)
         /\ board'[t].createdBy = board[t].createdBy
         /\ Becomes(t, board'[t])
<1> DEFINE replies == Append(board[t].replies, answer)
           e == [board[t] EXCEPT !.replies = replies]
<1>1. IsOpen(t) /\ t \in DOMAIN board /\ board[t] \in Ticket
  BY DEF Reply, IsOpen, BoardTypeOK
<1>2. board[t].replies \in Seq(Answer) /\ replies \in Seq(Answer)
  BY <1>1 DEF Ticket
<1>3. IsPrefix(board[t].replies, replies)
  BY <1>2, PrefixOfAppend
<1>4. board' = [board EXCEPT ![t] = e]
  BY DEF Reply
<1> HIDE DEF replies
<1>5. /\ e \in Ticket /\ e.replies = replies
      /\ e.createdBy = board[t].createdBy
  BY <1>1, <1>2 DEF Ticket
<1> HIDE DEF e
<1>6. board'[t] = e /\ Becomes(t, e)
  BY <1>1, <1>4, <1>5 DEF Becomes, BoardTypeOK
<1>7. IsPrefix(board[t].replies, board'[t].replies)
  BY <1>3, <1>5, <1>6, Zenon
<1> QED
  BY <1>1, <1>5, <1>6, <1>7

LEMMA ResolveStep ==
  ASSUME BoardTypeOK, NEW t \in TicketId, NEW agent \in SupportAgent, Resolve(t, agent)
  PROVE  /\ IsOpen(t)
         /\ IsPrefix(board[t].replies, board'[t].replies)
         /\ board'[t].createdBy = board[t].createdBy
         /\ Becomes(t, board'[t])
<1> DEFINE e == [board[t] EXCEPT !.resolvedBy = agent]
<1>1. IsOpen(t) /\ t \in DOMAIN board /\ board[t] \in Ticket
  BY DEF Resolve, IsOpen, BoardTypeOK
<1>2. board' = [board EXCEPT ![t] = e]
  BY DEF Resolve
<1>3. /\ e \in Ticket /\ e.replies = board[t].replies
      /\ e.createdBy = board[t].createdBy
  BY <1>1 DEF Ticket
<1> HIDE DEF e
<1>4. board'[t] = e /\ Becomes(t, e)
  BY <1>1, <1>2, <1>3 DEF Becomes, BoardTypeOK
<1>5. IsPrefix(board[t].replies, board[t].replies)
  BY <1>1 DEF Ticket, IsPrefix
<1> QED
  BY <1>1, <1>3, <1>4, <1>5

-----------------------------------------------------------------------------
(* The tickets stay in their type.                                         *)

LEMMA BoardTypeNext == BoardTypeOK /\ [BoardNext]_board => BoardTypeOK'
<1> SUFFICES ASSUME BoardTypeOK, [BoardNext]_board PROVE BoardTypeOK'
  OBVIOUS
<1>1. ASSUME NEW t \in TicketId, NEW e, Becomes(t, e)
      PROVE  BoardTypeOK'
  BY <1>1 DEF Becomes, BoardTypeOK
<1>2. CASE UNCHANGED board
  BY <1>2 DEF BoardTypeOK
<1> QED
  BY <1>1, <1>2, OpenStep, ReplyStep, ResolveStep DEF BoardNext

\* The tickets of the board stay in their type.
THEOREM TypeCorrect == BoardSpec => []BoardTypeOK
<1>1. BoardInit => BoardTypeOK
  BY DEF BoardInit, BoardTypeOK
<1> QED
  BY <1>1, BoardTypeNext, PTL DEF BoardSpec

-----------------------------------------------------------------------------
(* Tickets only grow, until they are closed.                               *)

LEMMA TicketNext ==
  ASSUME BoardTypeOK, [BoardNext]_board, NEW t \in DOMAIN board
  PROVE  /\ t \in DOMAIN board'
         /\ board'[t].createdBy = board[t].createdBy
         /\ IsPrefix(board[t].replies, board'[t].replies)
         /\ ~IsOpen(t) => board'[t] = board[t]
<1>1. IsPrefix(board[t].replies, board[t].replies)
  BY DEF BoardTypeOK, Ticket, IsPrefix
<1>2. CASE UNCHANGED board
  BY <1>1, <1>2
<1>3. ASSUME NEW k \in TicketId, NEW e, Becomes(k, e), k # t
      PROVE  t \in DOMAIN board' /\ board'[t] = board[t]
  BY <1>3 DEF Becomes
<1>4. ASSUME NEW k \in TicketId, NEW u \in UserId, Open(k, u)
      PROVE  t \in DOMAIN board' /\ board'[t] = board[t]
  BY <1>3, <1>4, OpenStep
<1>5. ASSUME NEW k \in TicketId, NEW answer \in Answer, Reply(k, answer)
      PROVE  \/ t \in DOMAIN board' /\ board'[t] = board[t]
             \/ k = t
  BY <1>3, <1>5, ReplyStep
<1>6. ASSUME NEW k \in TicketId, NEW agent \in SupportAgent, Resolve(k, agent)
      PROVE  \/ t \in DOMAIN board' /\ board'[t] = board[t]
             \/ k = t
  BY <1>3, <1>6, ResolveStep
<1>7. ASSUME t \in DOMAIN board' /\ board'[t] = board[t]
      PROVE  /\ t \in DOMAIN board'
             /\ board'[t].createdBy = board[t].createdBy
             /\ IsPrefix(board[t].replies, board'[t].replies)
             /\ ~IsOpen(t) => board'[t] = board[t]
  BY <1>1, <1>7
<1>8. ASSUME IsOpen(t), Becomes(t, board'[t]),
             board'[t].createdBy = board[t].createdBy,
             IsPrefix(board[t].replies, board'[t].replies)
      PROVE  /\ t \in DOMAIN board'
             /\ board'[t].createdBy = board[t].createdBy
             /\ IsPrefix(board[t].replies, board'[t].replies)
             /\ ~IsOpen(t) => board'[t] = board[t]
  BY <1>8 DEF Becomes
<1> QED
  BY <1>2, <1>4, <1>5, <1>6, <1>7, <1>8, ReplyStep, ResolveStep DEF BoardNext

\* No ticket, opener or answer is ever lost.
THEOREM AnswersAreKept == BoardSpec => AnswersStay
<1>1. BoardTypeOK /\ [BoardNext]_board =>
        \A t \in DOMAIN board :
          /\ t \in DOMAIN board'
          /\ board'[t].createdBy = board[t].createdBy
          /\ IsPrefix(board[t].replies, board'[t].replies)
  BY TicketNext
<1> QED
  BY <1>1, TypeCorrect, PTL DEF BoardSpec, AnswersStay

\* What is closed stays as it is.
THEOREM ClosureIsFinal == BoardSpec => ClosedForGood
<1>1. BoardTypeOK /\ [BoardNext]_board =>
        \A t \in DOMAIN board : ~IsOpen(t) =>
          t \in DOMAIN board' /\ board'[t] = board[t]
  BY TicketNext
<1> QED
  BY <1>1, TypeCorrect, PTL DEF BoardSpec, ClosedForGood
=============================================================================
