---------------------------- MODULE Users_proofs ----------------------------
EXTENDS Users, TLAPS

LEMMA TypeInit == Init => TypeOK
  BY UsersAssumption DEF Init, TypeOK, Stored, Idle, RequestState

LEMMA NewUserType ==
  ASSUME NEW u \in UserId, NEW cmd \in Signup \cup SupportAgent
  PROVE  /\ NewUser(u, cmd) \in UserEntity
         /\ NewUser(u, cmd).id = u
         /\ NewUser(u, cmd).email = cmd.email
         /\ NewUser(u, cmd).profile["name"] # Null
<1>1. /\ cmd.email \in Email /\ cmd.password \in Password /\ cmd.name \in Value
      /\ cmd.role \in Role \cup {Null}
  BY DEF Signup, SupportAgent, Command, Role
<1> QED
  BY <1>1, UsersAssumption DEF NewUser, UserEntity

\* What a PATCH makes of a stored profile, or a self-assignment of an account
LEMMA PatchedType ==
  ASSUME NEW e \in UserEntity, e.profile["name"] # Null, NEW patch \in Patch
  PROVE  /\ [e EXCEPT !.profile = Patched(@, patch)] \in UserEntity
         /\ Patched(e.profile, patch)["name"] # Null
<1>1. /\ Patched(e.profile, patch) \in [Field -> Value \cup {Null}]
      /\ Patched(e.profile, patch)["name"] # Null
  BY UsersAssumption DEF UserEntity, Patch, Patched, Sent
<1> QED
  BY <1>1 DEF UserEntity

LEMMA UpdatedType ==
  ASSUME TypeOK, NEW e \in UserEntity, user[e.id] # Null
  PROVE  /\ Updated(e) \in [UserId -> UserEntity \cup {Null}]
         /\ Updated(e)[e.id] = [e EXCEPT !.email = user[e.id].email]
         /\ \A u \in UserId : u # e.id => Updated(e)[u] = user[u]
  BY DEF TypeOK, Updated, UserEntity

-----------------------------------------------------------------------------
(* One lemma per action that changes the user table or starts a save.      *)

LEMMA InsertStep ==
  ASSUME IInv, NEW r \in Request, NEW u \in UserId, InsertUser(r, u)
  PROVE  IInv'
<1> DEFINE cmd == req[r].command
<1>1. cmd \in Signup \cup SupportAgent
  BY DEF InsertUser, IInv, TypeOK, RequestState
<1>2. CASE user' = user /\ Goto(r, Done(500, Null))
  BY <1>2, UsersAssumption
     DEF InsertUser, Finish, Goto, Done, IInv, TypeOK, RequestState, Stored, IdsAgree,
         SavesKnow, EmailsUnique, TokenNamesUser
<1>3. CASE /\ WithEmail(cmd.email) = {}
           /\ user' = [user EXCEPT ![u] = NewUser(u, cmd)]
           /\ Goto(r, Done(201, IF cmd.role = Null THEN u ELSE Null))
  <2> DEFINE new == NewUser(u, cmd)
  <2>1. /\ new \in UserEntity /\ new.id = u /\ new.email = cmd.email
        /\ new.profile["name"] # Null /\ new # Null
    BY <1>1, NewUserType, UsersAssumption
  <2> HIDE DEF new
  <2>2. /\ user[u] = Null /\ user'[u] = new
        /\ \A v \in UserId : v # u => user'[v] = user[v]
        /\ user' \in [UserId -> UserEntity \cup {Null}]
    BY <1>3, <2>1 DEF InsertUser, IInv, TypeOK, new
  <2>3. Stored' = Stored \cup {u}
    BY <2>1, <2>2 DEF Stored
  <2>4. /\ req'[r].pc = "done" /\ req'[r].sub \in {u, Null}
        /\ \A q \in Request : q # r => req'[q] = req[q]
        /\ req' \in [Request -> RequestState]
        /\ token' = token /\ faults' = faults
    BY <1>3 DEF InsertUser, Goto, Done, IInv, TypeOK, RequestState
  <2>5. TypeOK'
    BY <2>1, <2>2, <2>3, <2>4 DEF IInv, TypeOK, Stored
  <2>6. IdsAgree'
    BY <2>1, <2>2, <2>3 DEF IInv, IdsAgree, Stored
  <2>7. SavesKnow'
    <3> SUFFICES ASSUME NEW q \in Request, req'[q].pc = "save"
                 PROVE  LET e == req'[q].user
                        IN  /\ user'[e.id] # Null
                            /\ e.email = user'[e.id].email
                            /\ e.password = user'[e.id].password
                            /\ e.profile["name"] # Null
                            /\ e.role = "support_agent" <=> user'[e.id].role = "support_agent"
      BY DEF SavesKnow
    <3>1. q # r /\ req'[q] = req[q]
      BY <2>4
    <3>2. req[q].user \in UserEntity /\ req[q].user.id \in UserId
      BY <3>1 DEF IInv, TypeOK, RequestState, UserEntity
    <3>3. user[req[q].user.id] # Null
      BY <3>1 DEF IInv, SavesKnow
    <3>4. user'[req[q].user.id] = user[req[q].user.id]
      BY <2>2, <3>2, <3>3
    <3> QED
      BY <3>1, <3>3, <3>4 DEF IInv, SavesKnow
  <2>8. EmailsUnique'
    BY <1>3, <2>1, <2>2, <2>3 DEF IInv, EmailsUnique, WithEmail, Stored
  <2>9. TokenNamesUser'
    <3>1. token' \subseteq Stored'
      BY <2>3, <2>4 DEF IInv, TokenNamesUser
    <3>2. ASSUME NEW q \in Request, req'[q].pc = "done", req'[q].sub # Null
          PROVE  user'[req'[q].sub] # Null
      <4>1. CASE q = r
        BY <2>1, <2>2, <2>4, <3>2, <4>1
      <4>2. CASE q # r
        <5>1. req[q].sub \in UserId /\ user[req[q].sub] # Null
          BY <2>4, <3>2, <4>2 DEF IInv, TypeOK, RequestState, TokenNamesUser
        <5> QED
          BY <2>1, <2>2, <2>4, <4>2, <5>1
      <4> QED
        BY <4>1, <4>2
    <3> QED
      BY <3>1, <3>2 DEF TokenNamesUser
  <2> QED
    BY <2>5, <2>6, <2>7, <2>8, <2>9 DEF IInv
<1> QED
  BY <1>2, <1>3 DEF InsertUser, Finish

LEMMA SaveStep ==
  ASSUME IInv, NEW r \in Request, SaveUser(r)
  PROVE  /\ IInv'
         /\ LET e == req[r].user
            IN  /\ e \in UserEntity /\ e.id \in UserId /\ user[e.id] # Null
                /\ user'[e.id] = e
                /\ \A u \in UserId : u # e.id => user'[u] = user[u]
<1> DEFINE e == req[r].user
<1>1. e \in UserEntity /\ e.id \in UserId
  BY DEF SaveUser, IInv, TypeOK, RequestState, UserEntity
<1>2. /\ user[e.id] # Null
      /\ e.email = user[e.id].email
      /\ e.password = user[e.id].password
      /\ e.profile["name"] # Null
      /\ e.role = "support_agent" <=> user[e.id].role = "support_agent"
  BY DEF SaveUser, IInv, SavesKnow
<1>3. user' = Updated(e) /\ token' = token /\ faults' = faults
  BY DEF SaveUser
<1>4. /\ req'[r] = Done(204, Null) /\ \A q \in Request : q # r => req'[q] = req[q]
      /\ req' \in [Request -> RequestState]
  BY DEF SaveUser, Finish, Goto, Done, IInv, TypeOK, RequestState
<1> HIDE DEF e
<1>5. [e EXCEPT !.email = user[e.id].email] = e
  BY <1>1, <1>2 DEF UserEntity
<1>6. /\ user'[e.id] = e /\ e # Null
      /\ \A u \in UserId : u # e.id => user'[u] = user[u]
      /\ user' \in [UserId -> UserEntity \cup {Null}]
  BY <1>1, <1>2, <1>3, <1>5, UpdatedType, UsersAssumption DEF IInv
<1>7. Stored' = Stored
  BY <1>1, <1>2, <1>6 DEF Stored
<1>8. TypeOK'
  BY <1>2, <1>3, <1>4, <1>6, <1>7 DEF IInv, TypeOK, Stored
<1>9. IdsAgree'
  BY <1>6, <1>7 DEF IInv, IdsAgree, Stored
<1>10. EmailsUnique'
  BY <1>1, <1>2, <1>6, <1>7 DEF IInv, EmailsUnique, Stored
<1>11. TokenNamesUser'
  BY <1>3, <1>4, <1>6, <1>7 DEF IInv, TokenNamesUser, Done, TypeOK, RequestState, Stored
<1>12. SavesKnow'
  <2> SUFFICES ASSUME NEW q \in Request, req'[q].pc = "save"
               PROVE  LET d == req'[q].user
                      IN  /\ user'[d.id] # Null
                          /\ d.email = user'[d.id].email
                          /\ d.password = user'[d.id].password
                          /\ d.profile["name"] # Null
                          /\ d.role = "support_agent" <=> user'[d.id].role = "support_agent"
    BY DEF SavesKnow
  <2>1. q # r /\ req'[q] = req[q]
    BY <1>4 DEF Done
  <2>2. req[q].user \in UserEntity /\ req[q].user.id \in UserId
    BY <2>1 DEF IInv, TypeOK, RequestState, UserEntity
  <2>3. /\ user[req[q].user.id] # Null
        /\ req[q].user.email = user[req[q].user.id].email
        /\ req[q].user.password = user[req[q].user.id].password
        /\ req[q].user.profile["name"] # Null
        /\ req[q].user.role = "support_agent" <=> user[req[q].user.id].role = "support_agent"
    BY <2>1 DEF IInv, SavesKnow
  <2>4. CASE req[q].user.id = e.id
    BY <1>2, <1>6, <2>1, <2>3, <2>4
  <2>5. CASE req[q].user.id # e.id
    BY <1>6, <2>1, <2>2, <2>3, <2>5
  <2> QED
    BY <2>4, <2>5
<1> QED
  BY <1>1, <1>2, <1>6, <1>8, <1>9, <1>10, <1>11, <1>12 DEF IInv, e

\* A request enters the state save with an entity the table has.
LEMMA EnterSave ==
  ASSUME IInv, NEW r \in Request, NEW u \in UserId, user[u] # Null,
         NEW e \in UserEntity, NEW sent \in SUBSET Field,
         e.id = user[u].id, e.email = user[u].email, e.password = user[u].password,
         e.profile["name"] # Null,
         e.role = "support_agent" <=> user[u].role = "support_agent",
         Goto(r, [pc |-> "save", user |-> e, sent |-> sent]),
         UNCHANGED <<user, token, faults>>
  PROVE  IInv'
<1>1. /\ req'[r] = [pc |-> "save", user |-> e, sent |-> sent]
      /\ \A q \in Request : q # r => req'[q] = req[q]
      /\ req' \in [Request -> RequestState]
  BY DEF Goto, IInv, TypeOK, RequestState
<1>2. e.id = u
  BY DEF IInv, IdsAgree, Stored
<1>3. TypeOK' /\ IdsAgree' /\ EmailsUnique'
  BY <1>1 DEF IInv, TypeOK, IdsAgree, EmailsUnique, Stored
<1>4. SavesKnow'
  BY <1>1, <1>2 DEF IInv, SavesKnow
<1>5. TokenNamesUser'
  BY <1>1 DEF IInv, TokenNamesUser, Stored
<1> QED
  BY <1>3, <1>4, <1>5 DEF IInv

\* A request enters any other state.
LEMMA EnterOther ==
  ASSUME IInv, NEW r \in Request, NEW state \in RequestState,
         state.pc # "save",
         state.pc = "done" => state.sub = Null \/ user[state.sub] # Null,
         Goto(r, state), UNCHANGED <<user, token, faults>>
  PROVE  IInv'
<1>1. /\ req'[r] = state
      /\ \A q \in Request : q # r => req'[q] = req[q]
      /\ req' \in [Request -> RequestState]
  BY DEF Goto, IInv, TypeOK
<1>2. TypeOK' /\ IdsAgree' /\ EmailsUnique'
  BY <1>1 DEF IInv, TypeOK, IdsAgree, EmailsUnique, Stored
<1>3. SavesKnow'
  BY <1>1 DEF IInv, SavesKnow
<1>4. TokenNamesUser'
  BY <1>1 DEF IInv, TokenNamesUser, Stored
<1> QED
  BY <1>2, <1>3, <1>4 DEF IInv

LEMMA EnterFinish ==
  ASSUME IInv, NEW r \in Request, NEW s \in {200, 201, 204, 401, 409, 500},
         Finish(r, s), UNCHANGED <<user, token, faults>>
  PROVE  IInv'
<1>1. Done(s, Null) \in RequestState
  BY DEF Done, RequestState
<1> QED
  BY <1>1, EnterOther DEF Finish, Done

-----------------------------------------------------------------------------
(* The inductive invariant.                                                *)

LEMMA IInvInit == Init => IInv
<1> SUFFICES ASSUME Init PROVE IInv
  OBVIOUS
<1>1. TypeOK
  BY TypeInit
<1> QED
  BY <1>1 DEF Init, IInv, IdsAgree, SavesKnow, EmailsUnique, TokenNamesUser, Stored, Idle

LEMMA SelfAssignStep ==
  ASSUME IInv, NEW r \in Request, NEW u \in UserId, NEW role \in SelfAssignable,
         SelfAssignRole(r, u, role)
  PROVE  IInv'
<1>1. CASE Finish(r, 409)
  BY <1>1, EnterFinish DEF SelfAssignRole
<1>2. CASE /\ user[u].role = Null
           /\ Goto(r, [pc |-> "save", user |-> [user[u] EXCEPT !.role = role],
                       sent |-> {}])
  <2> DEFINE e == [user[u] EXCEPT !.role = role]
  <2>1. user[u] \in UserEntity /\ user[u] # Null /\ user[u].profile["name"] # Null
    BY DEF SelfAssignRole, Authenticated, IInv, TypeOK, Stored
  <2>2. /\ e \in UserEntity /\ e.id = user[u].id /\ e.email = user[u].email
        /\ e.password = user[u].password /\ e.profile = user[u].profile /\ e.role = role
    BY <2>1 DEF UserEntity, Role
  <2>3. role # "support_agent" /\ user[u].role # "support_agent"
    BY <1>2, UsersAssumption DEF SelfAssignable, Role
  <2>4. Goto(r, [pc |-> "save", user |-> e, sent |-> {}])
    BY <1>2
  <2> HIDE DEF e
  <2> QED
    BY <2>1, <2>2, <2>3, <2>4, EnterSave DEF SelfAssignRole
<1> QED
  BY <1>1, <1>2 DEF SelfAssignRole

LEMMA UpdateStep ==
  ASSUME IInv, NEW r \in Request, NEW u \in UserId, NEW patch \in Patch,
         UpdateUser(r, u, patch)
  PROVE  IInv'
<1> DEFINE e == [user[u] EXCEPT !.profile = Patched(@, patch)]
<1>1. user[u] \in UserEntity /\ user[u] # Null /\ user[u].profile["name"] # Null
  BY DEF UpdateUser, Authenticated, IInv, TypeOK, Stored
<1>2. /\ e \in UserEntity /\ e.id = user[u].id /\ e.email = user[u].email
      /\ e.password = user[u].password /\ e.role = user[u].role
      /\ e.profile["name"] # Null
  BY <1>1, PatchedType DEF UserEntity
<1>3. /\ Goto(r, [pc |-> "save", user |-> e, sent |-> Sent(patch)])
      /\ UNCHANGED <<user, token, faults>>
  BY DEF UpdateUser
<1>4. Sent(patch) \in SUBSET Field
  BY DEF Sent
<1> HIDE DEF e
<1> QED
  BY <1>1, <1>2, <1>3, <1>4, EnterSave

LEMMA IInvNext == IInv /\ [Next]_vars => IInv'
<1> SUFFICES ASSUME IInv, [Next]_vars PROVE IInv'
  OBVIOUS
<1>1. ASSUME NEW r \in Request, NEW cmd \in Signup \cup SupportAgent, CreateUser(r, cmd)
      PROVE  IInv'
  <2>1. [pc |-> "insert", command |-> cmd] \in RequestState
    BY DEF RequestState
  <2> QED
    BY <1>1, <2>1, EnterFinish, EnterOther DEF CreateUser
<1>2. ASSUME NEW r \in Request, NEW email \in Email, NEW password \in Password,
             Login(r, email, password)
      PROVE  IInv'
  <2>1. CASE Finish(r, 401)
    BY <1>2, <2>1, EnterFinish DEF Login
  <2>2. ASSUME NEW u \in WithEmail(email), Goto(r, Done(200, u))
        PROVE  IInv'
    <3>1. u \in UserId /\ user[u] # Null /\ Done(200, u) \in RequestState
      BY DEF WithEmail, Stored, Done, RequestState
    <3> QED
      BY <1>2, <2>2, <3>1, EnterOther DEF Login, Done
  <2> QED
    BY <1>2, <2>1, <2>2 DEF Login
<1>3. ASSUME NEW r \in Request, Reply(r)
      PROVE  IInv'
  <2>1. req[r].sub \in UserId \cup {Null}
    BY <1>3 DEF Reply, IInv, TypeOK, RequestState
  <2>2. token' \subseteq Stored
    BY <1>3, <2>1 DEF Reply, IInv, TokenNamesUser, Stored
  <2>3. /\ req'[r] = Idle /\ req' \in [Request -> RequestState]
        /\ \A q \in Request : q # r => req'[q] = req[q]
        /\ user' = user /\ faults' = faults
    BY <1>3 DEF Reply, Goto, Idle, IInv, TypeOK, RequestState
  <2>4. TypeOK'
    BY <2>2, <2>3 DEF IInv, TypeOK, Stored
  <2> QED
    BY <2>2, <2>3, <2>4 DEF IInv, IdsAgree, SavesKnow, EmailsUnique, TokenNamesUser,
                            Stored, Idle
<1>4. ASSUME NEW r \in Request, Reject(r)
      PROVE  IInv'
  <2>1. /\ req'[r] = Done(500, Null) /\ req' \in [Request -> RequestState]
        /\ \A q \in Request : q # r => req'[q] = req[q]
        /\ user' = user /\ token' = token
    BY <1>4 DEF Reject, Finish, Goto, Done, IInv, TypeOK, RequestState
  <2>2. faults' \in 0..MaxFaults
    BY <1>4, UsersAssumption DEF Reject, IInv, TypeOK
  <2>3. TypeOK'
    BY <2>1, <2>2 DEF IInv, TypeOK, Stored
  <2> QED
    BY <2>1, <2>3 DEF IInv, IdsAgree, SavesKnow, EmailsUnique, TokenNamesUser,
                      Stored, Done
<1>5. CASE Crash
  <2>1. /\ req' = [r \in Request |-> Idle] /\ req' \in [Request -> RequestState]
        /\ user' = user /\ token' = token
    BY <1>5 DEF Crash, Idle, RequestState
  <2>2. faults' \in 0..MaxFaults
    BY <1>5, UsersAssumption DEF Crash, IInv, TypeOK
  <2>3. TypeOK'
    BY <2>1, <2>2 DEF IInv, TypeOK, Stored
  <2> QED
    BY <2>1, <2>3 DEF IInv, IdsAgree, SavesKnow, EmailsUnique, TokenNamesUser,
                      Stored, Idle
<1>6. CASE UNCHANGED vars
  BY <1>6 DEF vars, IInv, TypeOK, IdsAgree, SavesKnow, EmailsUnique, TokenNamesUser,
              Stored
<1> QED
  BY <1>1, <1>2, <1>3, <1>4, <1>5, <1>6, InsertStep, SaveStep, SelfAssignStep,
     UpdateStep DEF Next, Serve

\* The inductive invariant of the accounts
THEOREM Invariance == Spec => []IInv
  BY IInvInit, IInvNext, PTL DEF Spec

\* The table, the tokens and the requests stay in their types, and a stored account
\* keeps a name.
THEOREM TypeCorrect == Spec => []TypeOK
  BY Invariance, PTL DEF IInv

\* A save under way, of an account read one await earlier, still has that account's
\* credentials, a name, and the agent's role exactly if the account has it.
THEOREM SavesAreSound == Spec => []SavesKnow
  BY Invariance, PTL DEF IInv

\* An e-mail names one account, for any number of signups that race.
THEOREM EmailsAreUnique == Spec => []EmailsUnique
  BY Invariance, PTL DEF IInv

\* Tokens name accounts.
THEOREM TokensNameUsers == Spec => []TokenNamesUser
  BY Invariance, PTL DEF IInv
-----------------------------------------------------------------------------
(* Action properties.                                                      *)

LEMMA Writers ==
  ASSUME [Next]_vars
  PROVE  \/ user' = user
         \/ \E r \in Request, u \in UserId : InsertUser(r, u)
         \/ \E r \in Request : SaveUser(r)
  BY DEF Next, Serve, vars, CreateUser, Login, SelfAssignRole, UpdateUser, Reply, Reject,
         Crash

\* What a step makes of a stored account
LEMMA StoredNext ==
  ASSUME IInv, [Next]_vars, NEW u \in Stored
  PROVE  \/ user'[u] = user[u]
         \/ \E r \in Request :
              /\ req[r].pc = "save" /\ req[r].user.id = u
              /\ user'[u] = req[r].user
              /\ SaveUser(r)
<1>1. u \in UserId /\ user[u] # Null
  BY DEF Stored
<1>2. ASSUME NEW r \in Request, NEW v \in UserId, InsertUser(r, v)
      PROVE  user'[u] = user[u]
  BY <1>1, <1>2 DEF InsertUser, IInv, TypeOK
<1>3. ASSUME NEW r \in Request, SaveUser(r), user'[u] # user[u]
      PROVE  /\ req[r].pc = "save" /\ req[r].user.id = u
             /\ user'[u] = req[r].user
  BY <1>1, <1>3, SaveStep DEF SaveUser
<1> QED
  BY <1>2, <1>3, Writers

\* No step removes an account, or makes or unmakes a support agent.
LEMMA StaysOnItsSide ==
  ASSUME IInv, [Next]_vars, NEW u \in UserId, user[u] # Null
  PROVE  /\ user'[u] # Null
         /\ user[u].role = "support_agent" <=> user'[u].role = "support_agent"
<1>1. u \in Stored
  BY DEF Stored
<1>2. ASSUME NEW r \in Request, req[r].pc = "save", req[r].user.id = u,
             user'[u] = req[r].user
      PROVE  /\ user'[u] # Null
             /\ user[u].role = "support_agent" <=> user'[u].role = "support_agent"
  <2>1. req[r].user \in UserEntity
    BY <1>2 DEF IInv, TypeOK, RequestState
  <2> QED
    BY <1>2, <2>1, UsersAssumption DEF IInv, SavesKnow
<1> QED
  BY <1>1, <1>2, StoredNext

\* A save under way after a step was under way before, or starts with the step.
LEMMA SaveStarts ==
  ASSUME IInv, [Next]_vars, NEW r \in Request, req'[r].pc = "save"
  PROVE  \/ req'[r] = req[r]
         \/ \E u \in UserId, role \in SelfAssignable : SelfAssignRole(r, u, role)
         \/ \E u \in UserId, patch \in Patch : UpdateUser(r, u, patch)
  BY DEF Next, Serve, vars, CreateUser, InsertUser, Login, SelfAssignRole, UpdateUser,
         SaveUser, Reply, Reject, Crash, Finish, Goto, Done, Idle, IInv, TypeOK

\* What a request that starts to save has read and is about to write
SaveBegins(r, u) ==
  LET e == req'[r].user
  IN  /\ user' = user
      /\ u \in Stored /\ e.id = u
      /\ \A f \in Field \ req'[r].sent : e.profile[f] = user[u].profile[f]
      /\ \A f \in req'[r].sent : e.profile[f] # Null
      /\ e.role = user[u].role \/ (user[u].role = Null /\ req'[r].sent = {})

LEMMA SelfAssignBegins ==
  ASSUME IInv, NEW r \in Request, NEW u \in UserId, NEW role \in SelfAssignable,
         SelfAssignRole(r, u, role), req'[r].pc = "save"
  PROVE  SaveBegins(r, u)
<1>1. /\ user' = user /\ user[u] \in UserEntity /\ user[u] # Null /\ user[u].role = Null
      /\ req'[r] = [pc |-> "save", user |-> [user[u] EXCEPT !.role = role],
                    sent |-> {}]
  BY DEF SelfAssignRole, Authenticated, Finish, Goto, Done, IInv, TypeOK
<1>2. user[u].id = u /\ u \in Stored
  BY <1>1 DEF IInv, IdsAgree, Stored
<1>3. /\ req'[r].user.id = u
      /\ req'[r].user.profile = user[u].profile
      /\ req'[r].sent = {}
  BY <1>1, <1>2 DEF UserEntity
<1> QED
  BY <1>1, <1>2, <1>3 DEF SaveBegins

LEMMA UpdateBegins ==
  ASSUME IInv, NEW r \in Request, NEW u \in UserId, NEW patch \in Patch,
         UpdateUser(r, u, patch)
  PROVE  SaveBegins(r, u)
<1>1. /\ user' = user /\ user[u] \in UserEntity /\ u \in Stored /\ user[u].id = u
      /\ req'[r] = [pc |-> "save", sent |-> Sent(patch),
                    user |-> [user[u] EXCEPT !.profile = Patched(@, patch)]]
  BY DEF UpdateUser, Authenticated, Goto, IInv, TypeOK, IdsAgree, Stored
<1>2. /\ req'[r].user.id = u
      /\ req'[r].user.role = user[u].role
      /\ req'[r].user.profile = Patched(user[u].profile, patch)
      /\ req'[r].sent = Sent(patch)
  BY <1>1 DEF UserEntity
<1>3. /\ \A f \in Field \ Sent(patch) :
           Patched(user[u].profile, patch)[f] = user[u].profile[f]
      /\ \A f \in Sent(patch) : Patched(user[u].profile, patch)[f] # Null
  BY DEF Patched, Sent
<1> QED
  BY <1>1, <1>2, <1>3 DEF SaveBegins

LEMMA SaveBegun ==
  ASSUME IInv, [Next]_vars, NEW r \in Request, req'[r].pc = "save"
  PROVE  req'[r] = req[r] \/ \E u \in UserId : SaveBegins(r, u)
BY SaveStarts, SelfAssignBegins, UpdateBegins

\* Whole-entity saves leave ids, credentials and names alone.
THEOREM AccountsAreStable == Spec => AccountIsStable
<1> DEFINE A == \A u \in Stored :
                  /\ u \in Stored'
                  /\ user'[u].id = u
                  /\ user'[u].email = user[u].email
                  /\ user'[u].password = user[u].password
                  /\ user'[u].profile["name"] # Null
<1>1. IInv /\ [Next]_vars => A
  <2> SUFFICES ASSUME IInv, [Next]_vars, NEW u \in Stored
               PROVE  /\ u \in Stored'
                      /\ user'[u].id = u
                      /\ user'[u].email = user[u].email
                      /\ user'[u].password = user[u].password
                      /\ user'[u].profile["name"] # Null
    OBVIOUS
  <2>1. u \in UserId /\ user[u] # Null
    BY DEF Stored
  <2>2. CASE user'[u] = user[u]
    BY <2>1, <2>2 DEF IInv, TypeOK, IdsAgree, Stored
  <2>3. ASSUME NEW r \in Request, req[r].pc = "save", req[r].user.id = u,
               user'[u] = req[r].user, SaveUser(r)
        PROVE  /\ u \in Stored'
               /\ user'[u].id = u
               /\ user'[u].email = user[u].email
               /\ user'[u].password = user[u].password
               /\ user'[u].profile["name"] # Null
    <3>1. user'[u] \in UserEntity
      BY <2>3, SaveStep
    <3> QED
      BY <2>1, <2>3, <3>1, UsersAssumption DEF IInv, SavesKnow, Stored
  <2> QED
    BY <2>2, <2>3, StoredNext
<1> QED
  BY <1>1, Invariance, PTL DEF Spec, AccountIsStable

\* Only the admin endpoint makes support agents, and for good.
THEOREM OnlyAdminAppoints == Spec => AgentsAreAppointed
<1> DEFINE A == \A u \in Stored :
                  user[u].role = "support_agent" <=> user'[u].role = "support_agent"
<1>1. IInv /\ [Next]_vars => A
  BY StaysOnItsSide DEF Stored
<1> QED
  BY <1>1, Invariance, PTL DEF Spec, AgentsAreAppointed

\* Once no save under way carries another role, a role never changes.
THEOREM RolesSettle == Spec => SettledRoleIsFinal
<1> DEFINE A == \A u \in UserId :
                  RoleSettled(u) => RoleSettled(u)' /\ user'[u].role = user[u].role
<1>1. IInv /\ [Next]_vars => A
  <2> SUFFICES ASSUME IInv, [Next]_vars, NEW u \in UserId, RoleSettled(u)
               PROVE  RoleSettled(u)' /\ user'[u].role = user[u].role
    OBVIOUS
  <2>1. u \in Stored
    BY DEF RoleSettled, Stored
  <2>2. user'[u].role = user[u].role
    BY <2>1, StoredNext DEF RoleSettled
  <2>3. user'[u] # Null
    <3>1. CASE user'[u] = user[u]
      BY <3>1 DEF RoleSettled
    <3>2. ASSUME NEW r \in Request, SaveUser(r), user'[u] = req[r].user
          PROVE  user'[u] # Null
      BY <3>2, SaveStep, UsersAssumption
    <3> QED
      BY <2>1, <3>1, <3>2, StoredNext
  <2>4. ASSUME NEW r \in Request, req'[r].pc = "save", req'[r].user.id = u
        PROVE  req'[r].user.role = user[u].role
    <3>1. CASE req'[r] = req[r]
      BY <2>4, <3>1 DEF RoleSettled
    <3>2. ASSUME NEW v \in UserId, NEW role \in SelfAssignable, SelfAssignRole(r, v, role)
          PROVE  FALSE
      <4>1. /\ user[v].role = Null /\ user[v] # Null /\ user[v] \in UserEntity
            /\ req'[r] = [pc |-> "save", user |-> [user[v] EXCEPT !.role = role],
                          sent |-> {}]
        BY <2>4, <3>2 DEF SelfAssignRole, Authenticated, Finish, Goto, Done, IInv, TypeOK
      <4>2. v = u
        BY <2>4, <4>1 DEF IInv, IdsAgree, Stored, UserEntity
      <4> QED
        BY <4>1, <4>2 DEF RoleSettled
    <3>3. ASSUME NEW v \in UserId, NEW patch \in Patch, UpdateUser(r, v, patch)
          PROVE  req'[r].user.role = user[u].role
      <4>1. /\ user[v] # Null /\ user[v] \in UserEntity
            /\ req'[r] = [pc |-> "save", sent |-> Sent(patch),
                          user |-> [user[v] EXCEPT !.profile = Patched(@, patch)]]
        BY <3>3 DEF UpdateUser, Authenticated, Goto, IInv, TypeOK
      <4>2. /\ req'[r].user.id = user[v].id
            /\ req'[r].user.role = user[v].role
        BY <4>1 DEF UserEntity
      <4>3. v = u
        BY <2>4, <4>1, <4>2 DEF IInv, IdsAgree, Stored
      <4> QED
        BY <4>2, <4>3
    <3> QED
      BY <2>4, <3>1, <3>2, <3>3, SaveStarts
  <2> QED
    BY <2>2, <2>3, <2>4 DEF RoleSettled
<1> QED
  BY <1>1, Invariance, PTL DEF Spec, SettledRoleIsFinal

\* A save goes stale, and so loses an update, only through an overlapping save.
THEOREM UpdatesAreLostByOverlap == Spec => OutdatedByOverlap
<1> DEFINE Overlapped(r) == \E q \in Request \ {r} :
                              SaveUser(q) /\ req[q].user.id = req[r].user.id
<1>1. IInv /\ [Next]_vars =>
        \A r \in Request : Outdated(r)' =>
          \/ Outdated(r)
          \/ \E q \in Request \ {r} : SaveUser(q) /\ req[q].user.id = req[r].user.id
  <2> SUFFICES ASSUME IInv, [Next]_vars, NEW r \in Request, Outdated(r)'
               PROVE  Outdated(r) \/ Overlapped(r)
    OBVIOUS
  <2>1. req'[r].pc = "save"
    BY DEF Outdated
  <2>2. CASE req'[r] = req[r]
    <3>1. /\ req[r].pc = "save" /\ req[r].user.id \in Stored
      BY <2>1, <2>2 DEF IInv, TypeOK, RequestState, UserEntity, SavesKnow, Stored
    <3>2. CASE user'[req[r].user.id] = user[req[r].user.id]
      BY <2>2, <3>2 DEF Outdated
    <3>3. ASSUME NEW q \in Request, SaveUser(q), req[q].user.id = req[r].user.id
          PROVE  Overlapped(r)
      <4>1. q # r
        BY <2>1, <3>3, SMT DEF SaveUser, Finish, Goto, Done, IInv, TypeOK
      <4> QED
        BY <3>3, <4>1
    <3> QED
      BY <3>1, <3>2, <3>3, StoredNext
  <2>3. ASSUME NEW u \in UserId, SaveBegins(r, u)
        PROVE  FALSE
    BY <2>3 DEF SaveBegins, Outdated
  <2> QED
    BY <2>1, <2>2, <2>3, SaveBegun
<1> QED
  BY <1>1, Invariance, PTL DEF Spec, OutdatedByOverlap
-----------------------------------------------------------------------------
(* Saves as single steps of the abstract book.                             *)

\* A profile field that a save under way was sent is not cleared by it.
THEOREM SentFieldsAreGiven == Spec => []SentIsGiven
<1>1. Init => SentIsGiven
  BY DEF Init, SentIsGiven, Idle
<1>2. IInv /\ SentIsGiven /\ [Next]_vars => SentIsGiven'
  <2> SUFFICES ASSUME IInv, SentIsGiven, [Next]_vars,
                      NEW r \in Request, req'[r].pc = "save"
               PROVE  \A f \in req'[r].sent : req'[r].user.profile[f] # Null
    BY DEF SentIsGiven
  <2> QED
    BY SaveBegun DEF SentIsGiven, SaveBegins
<1> QED
  BY <1>1, <1>2, Invariance, PTL DEF Spec

\* What the book has in the place of a row
Shown(row) ==
  [email |-> row.email, password |-> row.password, role |-> row.role,
   profile |-> row.profile]

LEMMA ShownType ==
  ASSUME NEW row \in UserEntity
  PROVE  Shown(row) \in Book!Account
BY DEF UserEntity, Role, Shown, Book!Account

LEMMA BookOfTable ==
  /\ account = [u \in Stored |-> Shown(user[u])]
  /\ DOMAIN account = Stored
  /\ \A u \in Stored : /\ account[u] = Shown(user[u])
                       /\ account[u].email = user[u].email
                       /\ account[u].role = user[u].role
BY DEF account, Shown

LEMMA InsertRegisters ==
  ASSUME IInv, NEW r \in Request, NEW u \in UserId, InsertUser(r, u), user' # user
  PROVE  Book!BookNext
<1> DEFINE cmd == req[r].command
           new == NewUser(u, cmd)
<1>1. cmd \in Signup \cup SupportAgent
  BY DEF InsertUser, IInv, TypeOK, RequestState
<1>2. /\ user[u] = Null /\ WithEmail(cmd.email) = {}
      /\ user' = [user EXCEPT ![u] = new]
  BY DEF InsertUser
<1>3. new \in UserEntity /\ new.email = cmd.email /\ new # Null
  BY <1>1, NewUserType, UsersAssumption
<1>4. new.role \in {Null, "support_agent"}
  BY <1>1 DEF NewUser, Signup, SupportAgent, Command
<1>5. \A v \in Stored : user[v].email # new.email
  BY <1>2, <1>3 DEF WithEmail
<1> HIDE DEF cmd, new
<1>6. /\ u \notin Stored /\ Stored' = Stored \cup {u} /\ user'[u] = new
      /\ \A v \in Stored : user'[v] = user[v]
  BY <1>2, <1>3 DEF IInv, TypeOK, Stored
<1>7. account' = [v \in Stored' |-> Shown(user'[v])]
  BY DEF account, Shown
<1>8. \A v \in Stored \cup {u} :
        Shown(user'[v]) = IF v = u THEN Shown(new) ELSE account[v]
  BY <1>6, BookOfTable
<1>9. /\ Shown(new) \in Book!Account
      /\ Shown(new).email = new.email /\ Shown(new).role = new.role
  BY <1>3, ShownType DEF Shown
<1>10. Book!Free(Shown(new).email)
  BY <1>5, <1>9, BookOfTable DEF Book!Free
<1>11. Book!Register(u, Shown(new))
  BY <1>4, <1>6, <1>7, <1>8, <1>9, <1>10, BookOfTable DEF Book!Register
<1> QED
  BY <1>9, <1>11 DEF Book!BookNext

\* A save that is not stale assigns a role or edits the profile.
LEMMA SaveActs ==
  ASSUME IInv, SentIsGiven, NEW r \in Request, SaveUser(r), ~Stale(r)
  PROVE  Book!BookNext
<1> DEFINE e == req[r].user
           sent == req[r].sent
           u == e.id
           old == user[u]
<1>1. /\ e \in UserEntity /\ u \in UserId /\ old # Null
      /\ user'[u] = e
      /\ \A v \in UserId : v # u => user'[v] = user[v]
  BY SaveStep
<1>2. /\ req[r].pc = "save" /\ sent \in SUBSET Field
      /\ e.email = old.email /\ e.password = old.password
      /\ e.role = "support_agent" <=> old.role = "support_agent"
      /\ \A f \in sent : e.profile[f] # Null
  BY DEF SaveUser, IInv, SavesKnow, SentIsGiven, TypeOK, RequestState
<1>3. /\ \A f \in Field \ sent : e.profile[f] = old.profile[f]
      /\ e.role = old.role \/ (old.role = Null /\ sent = {})
  BY <1>2 DEF Stale, Outdated
<1>4. old \in UserEntity /\ e # Null
  BY <1>1, UsersAssumption DEF IInv, TypeOK
<1> HIDE DEF e, sent, u, old
<1>5. Stored' = Stored /\ u \in Stored /\ \A v \in Stored : v \in UserId
  BY <1>1, <1>4 DEF Stored, old
<1>6. account' = [account EXCEPT ![u] = Shown(e)]
  <2>1. account' = [v \in Stored |-> Shown(user'[v])]
    BY <1>5 DEF account, Shown
  <2>2. \A v \in Stored : Shown(user'[v]) = IF v = u THEN Shown(e) ELSE account[v]
    BY <1>1, <1>5, BookOfTable
  <2> QED
    BY <1>5, <2>1, <2>2, BookOfTable
<1>7. account[u] = Shown(old) /\ u \in DOMAIN account
  BY <1>5, BookOfTable DEF old
<1>8. /\ e.profile \in [Field -> Value \cup {Null}]
      /\ old.profile \in [Field -> Value \cup {Null}]
      /\ e.role \in Role \cup {Null}
  BY <1>1, <1>4 DEF UserEntity
<1>9. CASE e.role = old.role
  <2> DEFINE values == [f \in sent |-> e.profile[f]]
  <2>1. values \in [sent -> Value]
    BY <1>2, <1>8
  <2>2. e.profile = [f \in Field |-> IF f \in DOMAIN values THEN values[f] ELSE old.profile[f]]
    BY <1>2, <1>3, <1>8
  <2> HIDE DEF values
  <2>3. Shown(e) = [Shown(old) EXCEPT !.profile = e.profile]
    BY <1>2, <1>9 DEF Shown
  <2>4. Shown(e) = [Shown(old) EXCEPT !.profile =
          [f \in Field |-> IF f \in DOMAIN values THEN values[f] ELSE @[f]]]
    BY <2>2, <2>3 DEF Shown
  <2>5. account' = [account EXCEPT ![u].profile =
          [f \in Field |-> IF f \in DOMAIN values THEN values[f] ELSE @[f]]]
    BY <1>6, <1>7, <2>4
  <2> QED
    BY <1>1, <1>2, <1>7, <2>1, <2>5 DEF Book!Edit, Book!BookNext
<1>10. CASE e.role # old.role
  <2>1. old.role = Null /\ e.role \in SelfAssignable
    BY <1>2, <1>3, <1>8, <1>10, UsersAssumption DEF Role
  <2>2. e.profile = old.profile
    BY <1>3, <1>8, <1>10
  <2>3. Shown(e) = [Shown(old) EXCEPT !.role = e.role]
    BY <1>2, <2>2 DEF Shown
  <2>4. account' = [account EXCEPT ![u].role = e.role]
    BY <1>6, <1>7, <2>3
  <2>5. account[u].role = Null
    BY <1>7, <2>1 DEF Shown
  <2> QED
    BY <1>1, <1>7, <2>1, <2>4, <2>5 DEF Book!AssignRole, Book!BookNext
<1> QED
  BY <1>9, <1>10

LEMMA StepOnBook ==
  ASSUME IInv, SentIsGiven, [Next]_vars
  PROVE  [Book!BookNext \/ \E r \in Request : SaveUser(r) /\ Stale(r)]_account
<1>1. CASE user' = user
  BY <1>1 DEF account, Stored
<1> QED
  BY <1>1, Writers, InsertRegisters, SaveActs

LEMMA StaleNext ==
  ASSUME IInv, [Next]_vars, NEW r \in Request, Stale(r)'
  PROVE  \/ Stale(r)
         \/ \E q \in Request \ {r} :
              SaveUser(q) /\ req[q].user.id = req[r].user.id
<1>1. req'[r].pc = "save"
  BY DEF Stale, Outdated
<1>2. CASE req'[r] = req[r]
  <2> DEFINE u == req[r].user.id
  <2>1. req[r].pc = "save" /\ u \in Stored
    BY <1>1, <1>2 DEF IInv, TypeOK, RequestState, UserEntity, SavesKnow, Stored
  <2>2. CASE user'[u] = user[u]
    BY <1>2, <2>2 DEF Stale, Outdated
  <2>3. ASSUME NEW q \in Request, SaveUser(q), req[q].user.id = u
        PROVE  q # r
    BY <1>1, <2>3, SMT DEF SaveUser, Finish, Goto, Done, IInv, TypeOK
  <2> QED
    BY <2>1, <2>2, <2>3, StoredNext
<1>3. ASSUME NEW u \in UserId, SaveBegins(r, u)
      PROVE  FALSE
  BY <1>3 DEF Stale, Outdated, SaveBegins
<1> QED
  BY <1>1, <1>2, <1>3, SaveBegun

LEMMA BookStarts == Init => Book!BookInit
<1> SUFFICES ASSUME Init PROVE Book!BookInit
  OBVIOUS
<1>1. Stored = {}
  BY DEF Init, Stored
<1> QED
  BY <1>1 DEF account, Book!BookInit

\* A registration, an update or the assignment of a role, each of several
\* statements that other requests run between, takes effect as one step of the
\* book, unless the account it read was saved over.
THEOREM SavesAreAtomic == Spec => FreshSavesAreAtomic
<1>1. IInv /\ SentIsGiven /\ [Next]_vars =>
        [Book!BookNext \/ \E r \in Request : SaveUser(r) /\ Stale(r)]_account
  BY StepOnBook
<1>2. IInv /\ [Next]_vars =>
        \A r \in Request : Stale(r)' =>
          \/ Stale(r)
          \/ \E q \in Request \ {r} : SaveUser(q) /\ req[q].user.id = req[r].user.id
  BY StaleNext
<1> QED
  BY <1>1, <1>2, BookStarts, Invariance, SentFieldsAreGiven, PTL
     DEF Spec, FreshSavesAreAtomic

-----------------------------------------------------------------------------
(* Accounts whose saves do not overlap.                                    *)

LEMMA SavesFreshNext ==
  IInv /\ SavesFresh /\ NoOverlap /\ [Next]_vars => SavesFresh'
<1> SUFFICES ASSUME IInv, SavesFresh, NoOverlap, [Next]_vars, NEW r \in Request, Stale(r)'
             PROVE  FALSE
  BY DEF SavesFresh
<1>1. req'[r].pc = "save"
  BY DEF Stale, Outdated
<1>2. PICK q \in Request \ {r} : SaveUser(q) /\ req[q].user.id = req[r].user.id
  BY StaleNext DEF SavesFresh
<1>3. CASE req'[r] = req[r]
  BY <1>1, <1>2, <1>3 DEF NoOverlap, SaveUser
<1>4. CASE \E u \in UserId : SaveBegins(r, u)
  BY <1>4 DEF Stale, Outdated, SaveBegins
<1> QED
  BY <1>1, <1>3, <1>4, SaveBegun

\* While no two saves of one account overlap, none of them is stale: no field
\* is written back and no role replaced.
THEOREM NoOverlapKeepsFresh == Spec /\ []NoOverlap => []SavesFresh
<1>1. Init => SavesFresh
  BY DEF Init, SavesFresh, Stale, Outdated, Idle
<1> QED
  BY <1>1, SavesFreshNext, Invariance, PTL DEF Spec

\* Handlers whose saves do not overlap implement the abstract book: nothing but
\* an overlap of two saves of one account makes it behave as none should.
THEOREM BookImplemented == Spec /\ []NoOverlap => Book!BookSpec
<1>1. IInv /\ SentIsGiven /\ SavesFresh /\ [Next]_vars => [Book!BookNext]_account
  BY StepOnBook DEF SavesFresh
<1> QED
  BY <1>1, BookStarts, Invariance, SentFieldsAreGiven, NoOverlapKeepsFresh, PTL
     DEF Spec, Book!BookSpec

\* A step whose saves are fresh leaves every role that was assigned.
LEMMA RoleKept ==
  ASSUME IInv, SentIsGiven, SavesFresh, Book!BookTypeOK, [Next]_vars,
         NEW u \in Stored, user[u].role # Null
  PROVE  user'[u].role = user[u].role
<1>1. [Book!BookNext]_account
  BY StepOnBook DEF SavesFresh
<1>2. u \in DOMAIN account' /\ account'[u].role = account[u].role
  BY <1>1, BookOfTable, Book!AccountNext DEF Book!Retained
<1>3. account'[u].role = user'[u].role
  BY <1>2 DEF account
<1> QED
  BY <1>2, <1>3, BookOfTable

\* The book of a table whose saves do not overlap is well typed.
LEMMA BookTyped == Spec /\ []NoOverlap => []Book!BookTypeOK
  BY BookImplemented, Book!TypeCorrect, PTL

\* What the self-assign-role test says is true of every account whose saves do
\* not overlap, by what the book promises: a role is assigned once.
THEOREM RoleFinalWithoutOverlap == Spec /\ []NoOverlap => RoleIsFinal
<1>1. /\ IInv /\ SentIsGiven /\ SavesFresh /\ Book!BookTypeOK /\ [Next]_vars
      => \A u \in Stored : user[u].role # Null => user'[u].role = user[u].role
  BY RoleKept
<1> QED
  BY <1>1, Invariance, SentFieldsAreGiven, NoOverlapKeepsFresh, BookTyped, PTL
     DEF Spec, RoleIsFinal
=============================================================================
