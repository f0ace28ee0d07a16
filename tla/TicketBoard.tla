---------------------------- MODULE TicketBoard ----------------------------
(***************************************************************************)
(* What a support ticket promises, without requests, reads or saves: it is *)
(* opened by a user, gathers answers while it is open, and is closed once, *)
(* by a support agent.                                                     *)
(***************************************************************************)
EXTENDS SequencesExt

CONSTANTS UserId, SupportAgent, TicketId, Content, Null

VARIABLE board   \* the tickets, by their ids

Answer == [content : Content, createdBy : UserId]

Ticket == [createdBy : UserId, resolvedBy : SupportAgent \cup {Null},
           replies : Seq(Answer)]

BoardTypeOK ==
  /\ DOMAIN board \subseteq TicketId
  /\ board \in [DOMAIN board -> Ticket]

BoardInit == board = [t \in {} |-> Null]

Opened(u) == [createdBy |-> u, resolvedBy |-> Null, replies |-> <<>>]

Open(t, u) ==
  /\ t \notin DOMAIN board
  /\ board' = [k \in DOMAIN board \cup {t} |->
                 IF k = t THEN Opened(u) ELSE board[k]]

IsOpen(t) == t \in DOMAIN board /\ board[t].resolvedBy = Null

Reply(t, answer) ==
  /\ IsOpen(t)
  /\ board' = [board EXCEPT ![t].replies = Append(@, answer)]

Resolve(t, agent) ==
  /\ IsOpen(t)
  /\ board' = [board EXCEPT ![t].resolvedBy = agent]

BoardNext ==
  \E t \in TicketId :
    \/ \E u \in UserId : Open(t, u)
    \/ \E answer \in Answer : Reply(t, answer)
    \/ \E agent \in SupportAgent : Resolve(t, agent)

BoardSpec == BoardInit /\ [][BoardNext]_board

-----------------------------------------------------------------------------
(* What follows for those who read the board.                              *)

\* A ticket stays, with its opener and every answer it has got.
AnswersStay ==
  [][\A t \in DOMAIN board :
       /\ t \in DOMAIN board'
       /\ board'[t].createdBy = board[t].createdBy
       /\ IsPrefix(board[t].replies, board'[t].replies)]_board

\* A closed ticket does not change any more.
ClosedForGood ==
  [][\A t \in DOMAIN board : ~IsOpen(t) =>
       t \in DOMAIN board' /\ board'[t] = board[t]]_board
=============================================================================
