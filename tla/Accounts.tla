------------------------------ MODULE Accounts ------------------------------
(***************************************************************************)
(* User accounts, their verification by mail, login sessions and the       *)
(* agents of a user (auth.go, the user and agent repositories, and the     *)
(* /v1/auth and /v1/agents handlers).  Every SQL statement and every mail  *)
(* is one step; between two of them other requests run, and a request may  *)
(* be cut off (a cancelled context, a failing query, a crash), before a    *)
(* statement or after it has run.                                          *)
(*                                                                         *)
(* A fresh random value or UUID drawn by request r is called r: user ids,  *)
(* agent ids, verification tokens and API secrets.                         *)
(***************************************************************************)
EXTENDS Integers, FiniteSets

CONSTANTS
    Requests,       \* the HTTP requests of a behaviour
    Spellings,      \* mail addresses as clients type them
    Normal,         \* spelling -> the spelling after ToLower and TrimSpace
    Fold,           \* address -> what CITEXT compares: the case is folded
    Veterans,       \* users verified and logged in at the start
    Fleet,          \* agents existing at the start
    Handlers,       \* the operations requested
    TokenTTL,       \* verificationTTL
    SessionTTL,     \* jwtDefaultTTL
    Aborts,         \* may a request be cut off, or a reply be lost?
    MaxClock,       \* bound on the clock
    Null

Operations == {"register", "resend", "verify", "login",
               "createAgent", "rotate", "delete", "authenticate"}

UserIds  == Requests \cup Veterans
AgentIds == Requests \cup Fleet
Secrets  == AgentIds
Addresses == Spellings \cup Veterans

ASSUME ConstantsAssumption ==
    /\ Normal \in [Spellings -> Spellings]
    /\ \A e \in Spellings : Normal[Normal[e]] = Normal[e]
    /\ Fold \in [Addresses -> Addresses]
    /\ \A e \in Spellings : Fold[Normal[e]] = Normal[e]
    /\ \A v \in Veterans : Fold[v] = v
    /\ Handlers \subseteq Operations
    /\ TokenTTL \in Nat \ {0}
    /\ SessionTTL \in Nat \ {0}
    /\ Aborts \in BOOLEAN
    /\ MaxClock \in Nat
    /\ Veterans \cap (Requests \cup Spellings) = {}
    /\ Fleet \cap Requests = {}
    /\ Fleet # {} => Veterans # {}

VARIABLES
    users,      \* table users
    agents,     \* table agents
    mails,      \* the mails accepted by the mail service
    sessions,   \* the JWTs handed out
    clock,
    pc,         \* request -> its next statement, or its outcome
    env,        \* request -> its arguments, or Null
    loc,        \* request -> its local variables
    retired,    \* history: the secrets that were replaced or deleted
    stale       \* history: the requests that arrived with a retired secret

vars == <<users, agents, mails, sessions, clock, pc, env, loc, retired, stale>>
tables == <<users, agents, mails, sessions>>
history == <<retired, stale>>

UserRow == [email : Addresses, verified : BOOLEAN,
            token : Requests \cup {Null}, expires : Nat \cup {Null}]

AgentRow == [owner : UserIds, secret : Secrets]

Mail == [to : Addresses, token : Requests]

Session == [user : UserIds, expires : Nat]

Call == [op : Operations, email : Spellings \cup {Null},
         token : Requests \cup {Null}, user : UserIds \cup {Null},
         agent : AgentIds \cup {Null}, secret : Secrets \cup {Null}]

Locals == [user : UserIds \cup {Null}, expires : Nat \cup {Null},
           hash : Secrets \cup {Null}]

ASSUME NullAssumption ==
    /\ Null \notin UserRow \cup AgentRow \cup Call \cup Nat
    /\ Null \notin Requests \cup Spellings \cup Veterans \cup Fleet

NoLocals == [user |-> Null, expires |-> Null, hash |-> Null]

Steps == {"insertUser", "readUser", "setToken", "sendMail", "verify", "login",
          "insertAgent", "readAgent", "updateSecret", "findAgent", "deleteAgent",
          "readHash", "checkSecret"}

\* How a request ends: with success, with an error, or "lost": its last
\* statement has run, but its caller is told of an error or of nothing.
Outcomes == {"done", "failed", "lost"}

TypeOK ==
    /\ users \in [UserIds -> UserRow \cup {Null}]
    /\ \A u \in UserIds : users[u] # Null =>
          (users[u].token = Null <=> users[u].expires = Null)
    /\ agents \in [AgentIds -> AgentRow \cup {Null}]
    /\ mails \subseteq Mail
    /\ sessions \subseteq Session
    /\ clock \in Nat
    /\ pc \in [Requests -> Steps \cup Outcomes \cup {"idle"}]
    /\ env \in [Requests -> Call \cup {Null}]
    /\ loc \in [Requests -> Locals]
    /\ retired \subseteq Secrets
    /\ stale \subseteq Requests

\* Veterans went through the whole of registration and login before.
Init ==
    /\ users = [u \in UserIds |->
         IF u \in Veterans
         THEN [email |-> u, verified |-> TRUE, token |-> Null, expires |-> Null]
         ELSE Null]
    /\ \E owner \in [Fleet -> Veterans] :
         agents = [a \in AgentIds |->
           IF a \in Fleet THEN [owner |-> owner[a], secret |-> a] ELSE Null]
    /\ mails = {}
    /\ sessions = {[user |-> v, expires |-> SessionTTL] : v \in Veterans}
    /\ clock = 0
    /\ pc = [r \in Requests |-> "idle"]
    /\ env = [r \in Requests |-> Null]
    /\ loc = [r \in Requests |-> NoLocals]
    /\ retired = {}
    /\ stale = {}

-----------------------------------------------------------------------------
(* Requests arrive.                                                        *)

Goto(r, step) == pc' = [pc EXCEPT ![r] = step]

\* The last statement of a handler has run: the caller learns of it, or the
\* connection, the request's context or the server goes away before the reply.
Reply(r) == Goto(r, "done") \/ (Aborts /\ Goto(r, "lost"))

Arrive(r, step, op, email, token, user, agent, secret) ==
    /\ pc[r] = "idle"
    /\ op \in Handlers
    /\ Goto(r, step)
    /\ env' = [env EXCEPT ![r] = [op |-> op, email |-> email, token |-> token,
                                  user |-> user, agent |-> agent,
                                  secret |-> secret]]
    /\ stale' = IF secret \in retired THEN stale \cup {r} ELSE stale
    /\ UNCHANGED <<tables, clock, loc, retired>>

\* ValidateJWT: the claims are believed until the token expires.
ValidSession(s) == s.expires > clock

StartRegister(r, email) ==
    Arrive(r, "insertUser", "register", email, Null, Null, Null, Null)

\* Both look the address up in lower case and without spaces.
StartResend(r, email) ==
    Arrive(r, "readUser", "resend", Normal[email], Null, Null, Null, Null)

\* A client knows the tokens it was mailed.
StartVerify(r, mail) ==
    Arrive(r, "verify", "verify", Null, mail.token, Null, Null, Null)

StartLogin(r, email) ==
    Arrive(r, "login", "login", Normal[email], Null, Null, Null, Null)

StartCreateAgent(r, s) ==
    /\ ValidSession(s)
    /\ Arrive(r, "insertAgent", "createAgent", Null, Null, s.user, Null, Null)

StartRotate(r, s, a) ==
    /\ ValidSession(s)
    /\ Arrive(r, "readAgent", "rotate", Null, Null, s.user, a, Null)

StartDelete(r, s, a) ==
    /\ ValidSession(s)
    /\ Arrive(r, "findAgent", "delete", Null, Null, s.user, a, Null)

\* authenticateAgent: an id and a secret, which need not belong together.
StartAuthenticate(r, a, secret) ==
    Arrive(r, "readHash", "authenticate", Null, Null, Null, a, secret)

\* The last statement of request r, one of ops, has run, whether or not its
\* caller was told.
Applied(r, ops) == env[r] # Null /\ env[r].op \in ops /\ pc[r] \in {"done", "lost"}

\* The agents whose ids were ever given out, by the answer or by a search.
NamedAgents == Fleet \cup {c \in Requests : Applied(c, {"createAgent"})}

\* The secrets that clients were shown.
ShownSecrets ==
    Fleet \cup {c \in Requests : Applied(c, {"createAgent", "rotate"}) /\ pc[c] = "done"}

Start(r) ==
    \/ \E email \in Spellings :
          StartRegister(r, email) \/ StartResend(r, email) \/ StartLogin(r, email)
    \/ \E mail \in mails : StartVerify(r, mail)
    \/ \E s \in sessions : StartCreateAgent(r, s)
    \/ \E s \in sessions, a \in NamedAgents : StartRotate(r, s, a) \/ StartDelete(r, s, a)
    \/ \E a \in NamedAgents, secret \in ShownSecrets : StartAuthenticate(r, a, secret)

\* An error return, whatever its cause.
Fail(r) == Goto(r, "failed") /\ UNCHANGED <<tables, clock, env, loc, history>>

-----------------------------------------------------------------------------
(* RegisterUser and ResendVerification.                                    *)

\* Mutant: the address is looked for and stored as it was typed.
StoredEmailRaw(r) == env[r].email

StoredEmail(r) == Normal[env[r].email]

\* WHERE email = ..., on a column of type CITEXT.
UsersWith(email) ==
    {u \in UserIds : users[u] # Null /\ Fold[users[u].email] = Fold[email]}

\* email CITEXT UNIQUE.
EmailTaken(email) == UsersWith(email) # {}

InsertUser(r) ==
    /\ pc[r] = "insertUser"
    /\ \/ /\ ~EmailTaken(StoredEmail(r))
          /\ users' = [users EXCEPT ![r] = [email |-> StoredEmail(r), verified |-> FALSE,
                                            token |-> Null, expires |-> Null]]
          /\ loc' = [loc EXCEPT ![r].user = r, ![r].expires = clock + TokenTTL]
          /\ Goto(r, "setToken")
          /\ UNCHANGED <<agents, mails, sessions, clock, env, history>>
       \/ EmailTaken(StoredEmail(r)) /\ Fail(r)

\* GetByEmail, then the check that there is something left to verify.
ReadUser(r) ==
    /\ pc[r] = "readUser"
    /\ \/ \E u \in UsersWith(env[r].email) :
             /\ ~users[u].verified
             /\ loc' = [loc EXCEPT ![r].user = u, ![r].expires = clock + TokenTTL]
             /\ Goto(r, "setToken")
             /\ UNCHANGED <<tables, clock, env, history>>
       \/ /\ \A u \in UsersWith(env[r].email) : users[u].verified
          /\ Fail(r)

\* Mutant: a new token starts verification over.
WithTokenUnverified(row, t, expires) ==
    [row EXCEPT !.token = t, !.expires = expires, !.verified = FALSE]

WithToken(row, t, expires) == [row EXCEPT !.token = t, !.expires = expires]

\* SetVerificationToken: by id, whatever happened to the row since it was read.
SetToken(r) ==
    /\ pc[r] = "setToken"
    /\ users' = [users EXCEPT ![loc[r].user] = WithToken(@, r, loc[r].expires)]
    /\ Goto(r, "sendMail")
    /\ UNCHANGED <<agents, mails, sessions, clock, env, loc, history>>

\* SendEmail; a failure is logged and the request succeeds all the same.  The
\* answer tells its caller nothing it could act on, so a lost one is the same.
SendMail(r) ==
    /\ pc[r] = "sendMail"
    /\ \/ mails' = mails \cup {[to |-> users[loc[r].user].email, token |-> r]}
       \/ UNCHANGED mails
    /\ Goto(r, "done")
    /\ UNCHANGED <<users, agents, sessions, clock, env, loc, history>>

-----------------------------------------------------------------------------
(* VerifyEmail and LoginUser.                                              *)

\* Mutant: the WHERE clause asks only for some live token.
TokenMatchesAny(u, t) == users[u] # Null /\ users[u].token # Null /\ users[u].expires > clock

TokenMatches(u, t) ==
    /\ users[u] # Null
    /\ users[u].token = t
    /\ users[u].expires > clock

\* Mutant: verification leaves the token in place.
VerifiedKeepsToken(row) == [row EXCEPT !.verified = TRUE]

\* Mutant: verification clears the token and forgets the flag.
VerifiedOnlyCleared(row) == [row EXCEPT !.token = Null, !.expires = Null]

Verified(row) == [row EXCEPT !.verified = TRUE, !.token = Null, !.expires = Null]

\* One UPDATE ... RETURNING.
VerifyEmail(r) ==
    /\ pc[r] = "verify"
    /\ \/ \E u \in UserIds :
             /\ TokenMatches(u, env[r].token)
             /\ users' = [users EXCEPT ![u] = Verified(@)]
             /\ loc' = [loc EXCEPT ![r].user = u]
             /\ Reply(r)
             /\ UNCHANGED <<agents, mails, sessions, clock, env, history>>
       \/ (\A u \in UserIds : ~TokenMatches(u, env[r].token)) /\ Fail(r)

\* Mutant: login does not ask whether the address was verified.
MayLoginUnverified(u) == TRUE

MayLogin(u) == users[u].verified

\* The other outcome covers a wrong password, and a session that never
\* reached its user.
LoginUser(r) ==
    /\ pc[r] = "login"
    /\ \/ \E u \in UsersWith(env[r].email) :
             /\ MayLogin(u)
             /\ sessions' = sessions \cup {[user |-> u, expires |-> clock + SessionTTL]}
             /\ Goto(r, "done")
             /\ UNCHANGED <<users, agents, mails, clock, env, loc, history>>
       \/ Fail(r)

-----------------------------------------------------------------------------
(* CreateAgent, RotateSecret, Deregister and ValidateAPISecret.            *)

InsertAgent(r) ==
    /\ pc[r] = "insertAgent"
    /\ agents' = [agents EXCEPT ![r] = [owner |-> env[r].user, secret |-> r]]
    /\ Reply(r)
    /\ UNCHANGED <<users, mails, sessions, clock, env, loc, history>>

ReadAgent(r) ==
    /\ pc[r] = "readAgent"
    /\ \/ /\ agents[env[r].agent] # Null
          /\ loc' = [loc EXCEPT ![r].hash = agents[env[r].agent].secret]
          /\ Goto(r, "updateSecret")
          /\ UNCHANGED <<tables, clock, env, history>>
       \/ agents[env[r].agent] = Null /\ Fail(r)

\* Mutant: the hash that was read is written back.
NewSecretOld(r) == loc[r].hash

NewSecret(r) == r

\* The secret that agent a loses, if it has one.
Loses(a) == IF agents[a] = Null THEN {} ELSE {agents[a].secret}

\* An UPDATE that does not look at the number of rows it changed.
UpdateSecret(r) ==
    /\ pc[r] = "updateSecret"
    /\ agents' = IF agents[env[r].agent] = Null THEN agents
                 ELSE [agents EXCEPT ![env[r].agent].secret = NewSecret(r)]
    /\ retired' = retired \cup Loses(env[r].agent)
    /\ Reply(r)
    /\ UNCHANGED <<users, mails, sessions, clock, env, loc, stale>>

\* handleDeleteAgent: GetAgent first, then DELETE, which checks RowsAffected.
FindAgent(r) ==
    /\ pc[r] = "findAgent"
    /\ \/ /\ agents[env[r].agent] # Null
          /\ Goto(r, "deleteAgent")
          /\ UNCHANGED <<tables, clock, env, loc, history>>
       \/ agents[env[r].agent] = Null /\ Fail(r)

DeleteAgent(r) ==
    /\ pc[r] = "deleteAgent"
    /\ \/ /\ agents[env[r].agent] # Null
          /\ agents' = [agents EXCEPT ![env[r].agent] = Null]
          /\ retired' = retired \cup Loses(env[r].agent)
          /\ Reply(r)
          /\ UNCHANGED <<users, mails, sessions, clock, env, loc, stale>>
       \/ agents[env[r].agent] = Null /\ Fail(r)

\* ValidateAPISecret: the SELECT of the agent.
ReadHash(r) ==
    /\ pc[r] = "readHash"
    /\ \/ /\ agents[env[r].agent] # Null
          /\ loc' = [loc EXCEPT ![r].hash = agents[env[r].agent].secret]
          /\ Goto(r, "checkSecret")
          /\ UNCHANGED <<tables, clock, env, history>>
       \/ agents[env[r].agent] = Null /\ Fail(r)

\* verifySecretArgon2id, some time later, against the hash that was read.
CheckSecret(r) ==
    /\ pc[r] = "checkSecret"
    /\ \/ /\ loc[r].hash = env[r].secret
          /\ Goto(r, "done")
          /\ UNCHANGED <<tables, clock, env, loc, history>>
       \/ loc[r].hash # env[r].secret /\ Fail(r)

-----------------------------------------------------------------------------

Handle(r) ==
    \/ InsertUser(r) \/ ReadUser(r) \/ SetToken(r) \/ SendMail(r)
    \/ VerifyEmail(r) \/ LoginUser(r)
    \/ InsertAgent(r) \/ ReadAgent(r) \/ UpdateSecret(r) \/ FindAgent(r) \/ DeleteAgent(r)
    \/ ReadHash(r) \/ CheckSecret(r)

\* Cut off before the next statement has any effect; Reply covers the same
\* after the last one.
Abort(r) == Aborts /\ pc[r] \in Steps /\ Fail(r)

Tick ==
    /\ clock < MaxClock
    /\ clock' = clock + 1
    /\ UNCHANGED <<tables, pc, env, loc, history>>

\* The server waits for clients; nothing forces one to call.
Idle == (\A r \in Requests : pc[r] \notin Steps) /\ UNCHANGED vars

Next ==
    \/ \E r \in Requests : Start(r) \/ Handle(r) \/ Abort(r)
    \/ Tick
    \/ Idle

Spec == Init /\ [][Next]_vars

-----------------------------------------------------------------------------
(* Correctness properties.                                                 *)

\* However clients spell an address and however registrations interleave, an
\* address has at most one account (RegisterUser, users.email UNIQUE).
OneAccountPerEmail ==
    \A r, s \in Requests :
        users[r] # Null /\ users[s] # Null /\ Normal[env[r].email] = Normal[env[s].email]
            => r = s

\* An agent belongs to a user whose address is verified, from its creation to
\* its deletion (LoginUser, CreateAgent, SetVerificationToken).
AgentOwnersAreVerified ==
    \A a \in AgentIds : agents[a] # Null =>
        /\ users[agents[a].owner] # Null
        /\ users[agents[a].owner].verified

\* A verified address was mailed a token drawn for its own account
\* (SendEmail, VerifyEmail).
VerifiedAddressWasMailed ==
    \A u \in Requests : users[u] # Null /\ users[u].verified =>
        \E mail \in mails : mail.to = users[u].email /\ loc[mail.token].user = u

\* A token verifies at most once, though the link is followed twice at the
\* same moment or again after the first answer was lost (VerifyEmail's single
\* UPDATE).
TokenIsSpentOnce ==
    \A r, s \in Requests :
        /\ Applied(r, {"verify"}) /\ Applied(s, {"verify"})
        /\ env[r].token = env[s].token
        => r = s

\* An account that is neither verified nor waiting for a token is one whose
\* registration was cut off between its two statements (RegisterUser).
TokenlessIsCutOff ==
    \A u \in Requests : users[u] # Null /\ ~users[u].verified /\ users[u].token = Null =>
        pc[u] = "setToken" \/ pc[u] = "failed"

\* A secret that an UPDATE has replaced, whichever secret the rotation had
\* read, or that went with its agent, lets nobody in who comes with it
\* afterwards, however many rotations, deletions and checks overlap; only a
\* check that was already under way may still succeed (RotateSecret,
\* ValidateAPISecret).
OldSecretStaysInvalid ==
    \A r \in stale : ~(env[r].op = "authenticate" /\ pc[r] = "done")

\* A verified address stays verified, though a resend or a registration that
\* read it earlier still has its token to store (SetVerificationToken).
VerifiedIsForever ==
    [][\A u \in UserIds : users[u] # Null /\ users[u].verified =>
          users'[u] # Null /\ users'[u].verified]_vars

=============================================================================
