------------------------------- MODULE Users -------------------------------
(***************************************************************************)
(* Accounts: signup, creation of support agents, login, the bearer tokens  *)
(* they hand out, and the two handlers that change an account, PATCH /me   *)
(* and POST /self-assign-role.                                             *)
(*                                                                         *)
(* JwtGuard reads the account before an authenticated handler runs; the    *)
(* handler changes that entity and saves all of it one await later.  An    *)
(* action is one SQL statement with the code that runs on its result, so   *)
(* an authenticated handler is two actions: the guard's read and the save. *)
(***************************************************************************)
EXTENDS Integers, FiniteSets

CONSTANTS
  UserId, Email, Password,
  Field, Value,                    \* the fields of a profile and their contents
  Request,                         \* slots for requests in flight
  Null,
  MaxFaults                        \* bound on crashes and rejected statements

VARIABLES
  user,     \* table "user"
  token,    \* the "sub" of the access tokens clients hold
  req,
  faults

vars == <<user, token, req, faults>>

-----------------------------------------------------------------------------
(* Entities and requests.                                                  *)

SelfAssignable == {"student", "instructor"}
Role == SelfAssignable \cup {"support_agent"}

\* name, biography, interests and profilePictureUrl are the profile.  The name is
\* NOT NULL and comes with the account; the code treats all fields alike otherwise.
UserEntity ==
  [id : UserId, email : Email, password : Password, role : Role \cup {Null},
   profile : [Field -> Value \cup {Null}]]

\* CreateUserCommand: a signup leaves the role undefined, the admin endpoint
\* names it
Command(role) ==
  [email : Email, password : Password, name : Value, role : {role}]
Signup       == Command(Null)
SupportAgent == Command("support_agent")

\* UpdateUserDto: a field that is absent, or falsy, is Null
Patch == [Field -> Value \cup {Null}]

ASSUME UsersAssumption ==
  /\ MaxFaults \in Nat
  /\ "name" \in Field
  /\ Null \notin UserEntity
  /\ Null \notin UserId \cup Value \cup Role

\* Mutant: the name is dropped
NewUserUnnamed(u, cmd) ==
  [id |-> u, email |-> cmd.email, password |-> cmd.password, role |-> cmd.role,
   profile |-> [f \in Field |-> Null]]

\* UserEntity.create
NewUser(u, cmd) ==
  [id |-> u, email |-> cmd.email, password |-> cmd.password, role |-> cmd.role,
   profile |-> [f \in Field |-> IF f = "name" THEN cmd.name ELSE Null]]

Stored == {u \in UserId : user[u] # Null}

\* KyselyUserRepository.findOneByEmail
WithEmail(email) == {u \in Stored : user[u].email = email}

\* KyselyUserRepository.save on an id the table has: UPDATE of every column
\* but the email
Updated(e) == [user EXCEPT ![e.id] = [e EXCEPT !.email = user[e.id].email]]

Idle == [pc |-> "idle"]

\* The response is on its way, with an access token or Null
Done(status, sub) == [pc |-> "done", status |-> status, sub |-> sub]

RequestState ==
  [pc : {"idle"}]
  \cup [pc : {"insert"}, command : Signup \cup SupportAgent]
  \cup [pc : {"save"}, user : UserEntity, sent : SUBSET Field]
  \cup [pc : {"done"}, status : {200, 201, 204, 401, 409, 500},
        sub : UserId \cup {Null}]

Goto(r, state)    == req' = [req EXCEPT ![r] = state]
Finish(r, status) == Goto(r, Done(status, Null))

TypeOK ==
  /\ user \in [UserId -> UserEntity \cup {Null}]
  /\ \A u \in Stored : user[u].profile["name"] # Null      \* NOT NULL
  /\ token \subseteq UserId
  /\ req \in [Request -> RequestState]
  /\ faults \in 0..MaxFaults

Init ==
  /\ user = [u \in UserId |-> Null]
  /\ token = {}
  /\ req = [r \in Request |-> Idle]
  /\ faults = 0

-----------------------------------------------------------------------------
(* POST /users and POST /admin/support-agents                              *)

\* Bound: a creation is accepted only while the finite supply has a fresh id
\* for it.
UserIdLeft ==
  Cardinality({r \in Request : req[r].pc = "insert"})
    < Cardinality(UserId \ Stored)

\* UserService.createUser up to its save: the e-mail is looked up, then the
\* password is hashed.
CreateUser(r, cmd) ==
  /\ req[r] = Idle
  /\ UserIdLeft
  /\ \/ /\ WithEmail(cmd.email) # {}
        /\ Finish(r, 409)
     \/ /\ WithEmail(cmd.email) = {}
        /\ Goto(r, [pc |-> "insert", command |-> cmd])
  /\ UNCHANGED <<user, token, faults>>

\* Mutant: the answer, with its token, does not wait for the save
InsertUserNotAwaited(r, u) ==
  /\ req[r].pc = "insert"
  /\ user[u] = Null
  /\ Goto(r, Done(201, u))
  /\ UNCHANGED <<user, token, faults>>

\* Mutant: no UNIQUE constraint on the e-mail
InsertUserNotUnique(r, u) ==
  /\ req[r].pc = "insert"
  /\ user[u] = Null
  /\ user' = [user EXCEPT ![u] = NewUser(u, req[r].command)]
  /\ Finish(r, 201)
  /\ UNCHANGED <<token, faults>>

\* The INSERT, which the UNIQUE constraint on the e-mail may refuse.  Only a
\* signup is answered with a token.
InsertUser(r, u) ==
  /\ req[r].pc = "insert"
  /\ user[u] = Null                         \* randomUUID() is fresh
  /\ LET cmd == req[r].command
     IN  \/ /\ WithEmail(cmd.email) # {}
            /\ Finish(r, 500)
            /\ UNCHANGED user
         \/ /\ WithEmail(cmd.email) = {}
            /\ user' = [user EXCEPT ![u] = NewUser(u, cmd)]
            /\ Goto(r, Done(201, IF cmd.role = Null THEN u ELSE Null))
  /\ UNCHANGED <<token, faults>>

-----------------------------------------------------------------------------
(* POST /users/login                                                       *)

Login(r, email, password) ==
  /\ req[r] = Idle
  /\ \/ /\ \A u \in WithEmail(email) : user[u].password # password
        /\ Finish(r, 401)
     \/ \E u \in WithEmail(email) :
          /\ user[u].password = password
          /\ Goto(r, Done(200, u))
  /\ UNCHANGED <<user, token, faults>>

-----------------------------------------------------------------------------
(* POST /users/self-assign-role and PATCH /users/me                        *)

\* The entity JwtGuard attaches to a request with a token for u
Authenticated(u) == u \in token /\ user[u] # Null

\* Mutant: a role already assigned is not looked at
SelfAssignRoleAgain(r, u, role) ==
  /\ req[r] = Idle
  /\ Authenticated(u)
  /\ Goto(r, [pc |-> "save", user |-> [user[u] EXCEPT !.role = role],
              sent |-> {}])
  /\ UNCHANGED <<user, token, faults>>

SelfAssignRole(r, u, role) ==
  /\ req[r] = Idle
  /\ Authenticated(u)
  /\ \/ /\ user[u].role # Null
        /\ Finish(r, 409)
     \/ /\ user[u].role = Null
        /\ Goto(r, [pc |-> "save", user |-> [user[u] EXCEPT !.role = role],
                    sent |-> {}])
  /\ UNCHANGED <<user, token, faults>>

\* Mutant: absent fields overwrite the stored ones
PatchedWhole(profile, patch) == patch

\* The fields a PATCH carries, and the profile it makes of an older one
Sent(patch) == {f \in Field : patch[f] # Null}
Patched(profile, patch) ==
  [f \in Field |-> IF f \in Sent(patch) THEN patch[f] ELSE profile[f]]

UpdateUser(r, u, patch) ==
  /\ req[r] = Idle
  /\ Authenticated(u)
  /\ Goto(r, [pc |-> "save", sent |-> Sent(patch),
              user |-> [user[u] EXCEPT !.profile = Patched(@, patch)]])
  /\ UNCHANGED <<user, token, faults>>

SaveUser(r) ==
  /\ req[r].pc = "save"
  /\ user' = Updated(req[r].user)
  /\ Finish(r, 204)
  /\ UNCHANGED <<token, faults>>

-----------------------------------------------------------------------------
(* Responses and faults.                                                   *)

\* The client receives the response and keeps the token it brings.
Reply(r) ==
  /\ req[r].pc = "done"
  /\ token' = token \cup ({req[r].sub} \ {Null})
  /\ Goto(r, Idle)
  /\ UNCHANGED <<user, faults>>

\* An awaited statement is rejected.
Reject(r) ==
  /\ req[r].pc \in {"insert", "save"}
  /\ faults < MaxFaults
  /\ faults' = faults + 1
  /\ Finish(r, 500)
  /\ UNCHANGED <<user, token>>

\* The process dies and restarts: every request in flight is forgotten.
Crash ==
  /\ faults < MaxFaults
  /\ faults' = faults + 1
  /\ req' = [r \in Request |-> Idle]
  /\ UNCHANGED <<user, token>>

-----------------------------------------------------------------------------
(* Specification.                                                          *)

\* One step of a request
Serve(r) ==
  \/ \E cmd \in Signup \cup SupportAgent : CreateUser(r, cmd)
  \/ \E u \in UserId : InsertUser(r, u)
  \/ \E email \in Email, password \in Password : Login(r, email, password)
  \/ \E u \in UserId, role \in SelfAssignable : SelfAssignRole(r, u, role)
  \/ \E u \in UserId, patch \in Patch : UpdateUser(r, u, patch)
  \/ SaveUser(r)
  \/ Reply(r)
  \/ Reject(r)

Next == (\E r \in Request : Serve(r)) \/ Crash

Spec == Init /\ [][Next]_vars

-----------------------------------------------------------------------------
(* Properties.                                                             *)

\* An e-mail names one account, although two signups may both find it free:
\* login's findOneByEmail takes the first row it gets.
EmailsUnique ==
  \A u, v \in Stored : user[u].email = user[v].email => u = v

\* A token, held or on its way to a client, names an account the table has:
\* JwtGuard never attaches a null user to a request.
TokenNamesUser ==
  /\ token \subseteq Stored
  /\ \A r \in Request :
       req[r].pc = "done" /\ req[r].sub # Null => user[req[r].sub] # Null

\* Saving a whole entity read one await earlier never moves or removes an
\* account, changes its credentials, or takes its name away.
AccountIsStable ==
  [][\A u \in Stored :
       /\ u \in Stored'
       /\ user'[u].id = u
       /\ user'[u].email = user[u].email
       /\ user'[u].password = user[u].password
       /\ user'[u].profile["name"] # Null]_vars

\* Support agents are appointed, at their creation, by the admin endpoint: no
\* interleaving of self-assignments, updates and stale saves makes a user an
\* agent or an agent something else.
AgentsAreAppointed ==
  [][\A u \in Stored :
       user[u].role = "support_agent" <=> user'[u].role = "support_agent"]_vars

\* A role is settled once no save under way carries another one.
RoleSettled(u) ==
  /\ user[u] # Null /\ user[u].role # Null
  /\ \A r \in Request :
       req[r].pc = "save" /\ req[r].user.id = u => req[r].user.role = user[u].role

\* A settled role is final: the 409 check of self-assign-role fails only while
\* a request that read the account before the role is still to save it.
SettledRoleIsFinal ==
  [][\A u \in UserId :
       RoleSettled(u) => RoleSettled(u)' /\ user'[u].role = user[u].role]_vars

\* Request r is about to write back an old value of a field it did not send.
Outdated(r) ==
  /\ req[r].pc = "save"
  /\ LET e == req[r].user
     IN  \E f \in Field \ req[r].sent : e.profile[f] # user[e.id].profile[f]

\* An update loses what another one wrote only by overlapping it: a save leaves
\* the fields alone that its request did not send, unless another request saved
\* the same account between JwtGuard's read and this save.
OutdatedByOverlap ==
  [][\A r \in Request :
       Outdated(r)' =>
         \/ Outdated(r)
         \/ \E q \in Request \ {r} :
              SaveUser(q) /\ req[q].user.id = req[r].user.id]_vars

\* The accounts of the table, as the abstract book has them
account ==
  [u \in Stored |-> [email    |-> user[u].email,
                     password |-> user[u].password,
                     role     |-> user[u].role,
                     profile  |-> user[u].profile]]

\* The book comes with the theorems about it.
Book == INSTANCE AccountBook_proofs

\* Request r is about to write back an old value of a field, or to change a role
\* in another way than by assigning one to an account that has none.
Stale(r) ==
  \/ Outdated(r)
  \/ /\ req[r].pc = "save"
     /\ LET e == req[r].user
        IN  /\ e.role # user[e.id].role
            /\ user[e.id].role # Null \/ req[r].sent # {}

\* JwtGuard's read, the checks, the change and the save are one step of the book,
\* although other requests run in between, and so are the look-up of a free
\* e-mail and the insert: a save takes effect as if the whole handler had run
\* alone, unless another one saved the same account meanwhile.
FreshSavesAreAtomic ==
  /\ Book!BookInit
  /\ [][Book!BookNext \/ \E r \in Request : SaveUser(r) /\ Stale(r)]_account
  /\ [][\A r \in Request :
          Stale(r)' =>
            \/ Stale(r)
            \/ \E q \in Request \ {r} :
                 SaveUser(q) /\ req[q].user.id = req[r].user.id]_vars

\* No two requests are about to save the same account.
NoOverlap ==
  \A r, q \in Request :
    /\ req[r].pc = "save" /\ req[q].pc = "save"
    /\ req[r].user.id = req[q].user.id
    => r = q

\* The self-assign-role test "returns an error when user already has a role":
\* a role, once assigned, is not replaced.
RoleIsFinal ==
  [][\A u \in Stored : user[u].role # Null => user'[u].role = user[u].role]_vars

-----------------------------------------------------------------------------
(* The inductive invariant.                                                *)

\* A save under way carries an account the table has, with its credentials, some
\* name, and the support agent's role exactly when the account has it.
SavesKnow ==
  \A r \in Request : req[r].pc = "save" =>
    LET e == req[r].user
    IN  /\ user[e.id] # Null
        /\ e.email = user[e.id].email
        /\ e.password = user[e.id].password
        /\ e.profile["name"] # Null
        /\ e.role = "support_agent" <=> user[e.id].role = "support_agent"

IdsAgree == \A u \in Stored : user[u].id = u

IInv == TypeOK /\ IdsAgree /\ SavesKnow /\ EmailsUnique /\ TokenNamesUser

\* A field that was sent is there.
SentIsGiven ==
  \A r \in Request : req[r].pc = "save" =>
    \A f \in req[r].sent : req[r].user.profile[f] # Null

SavesFresh == \A r \in Request : ~Stale(r)
=============================================================================
