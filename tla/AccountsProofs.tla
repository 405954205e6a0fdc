--------------------------- MODULE AccountsProofs ---------------------------
(***************************************************************************)
(* Proofs about Accounts, for every value of its constants: any number of  *)
(* requests, addresses, users and agents, any lifetimes, with and without  *)
(* requests that are cut off and replies that are lost.                    *)
(***************************************************************************)
EXTENDS Accounts, TLAPS

-----------------------------------------------------------------------------
(* The inductive invariant.                                                *)

IsVerified(u) == users[u] # Null /\ users[u].verified

\* The requests that draw a token.
Mailing(r) == env[r].op \in {"register", "resend"}

\* What a request carries from one statement to the next.
ControlOf(r) ==
    /\ pc[r] = "idle" <=> env[r] = Null
    /\ pc[r] = "insertUser" => env[r].op = "register" /\ env[r].email \in Spellings
    /\ pc[r] = "readUser" => env[r].op = "resend"
    /\ pc[r] \in {"setToken", "sendMail"} =>
          /\ Mailing(r)
          /\ loc[r].user \in UserIds /\ users[loc[r].user] # Null
          /\ loc[r].expires \in Nat
          /\ env[r].op = "register" => loc[r].user = r
    /\ pc[r] = "verify" => env[r].op = "verify"
    /\ pc[r] = "login" => env[r].op = "login"
    /\ pc[r] = "insertAgent" => /\ env[r].op = "createAgent"
                                /\ env[r].user \in UserIds /\ IsVerified(env[r].user)
    /\ pc[r] \in {"readAgent", "updateSecret"} =>
          env[r].op = "rotate" /\ env[r].agent \in AgentIds
    /\ pc[r] \in {"findAgent", "deleteAgent"} =>
          env[r].op = "delete" /\ env[r].agent \in AgentIds
    /\ pc[r] \in {"readHash", "checkSecret"} =>
          env[r].op = "authenticate" /\ env[r].agent \in AgentIds

Control == \A r \in Requests : ControlOf(r)

\* A row that is not a veteran's was inserted by a registration, under the
\* normal form of the address it was called with.
RowsRegistered ==
    \A u \in Requests : users[u] # Null =>
        /\ pc[u] \notin {"idle", "insertUser"}
        /\ env[u].op = "register" /\ env[u].email \in Spellings
        /\ users[u].email = Normal[env[u].email]

\* UNIQUE (email), as a fact about the table.
UniqueEmails ==
    \A u, v \in UserIds :
        users[u] # Null /\ users[v] # Null /\ users[u].email = users[v].email => u = v

\* A token in a row was drawn for that row by a request that has stored it.
TokensTraced ==
    \A u \in UserIds : users[u] # Null /\ users[u].token # Null =>
        /\ loc[users[u].token].user = u
        /\ pc[users[u].token] \in {"sendMail", "done", "failed"}
        /\ Mailing(users[u].token)

\* A mail went to the address of the account its token was drawn for, from a
\* request that has ended.
MailsTraced ==
    \A mail \in mails :
        /\ pc[mail.token] = "done" /\ Mailing(mail.token)
        /\ loc[mail.token].user \in UserIds
        /\ users[loc[mail.token].user] # Null
        /\ mail.to = users[loc[mail.token].user].email

\* Whoever verifies has read a mail.
VerifiersRead ==
    \A r \in Requests : env[r] # Null /\ env[r].op = "verify" =>
        \E mail \in mails : mail.token = env[r].token

\* A token that has verified is in no row.
SpentTokensGone ==
    \A r \in Requests : Applied(r, {"verify"}) =>
        \A u \in UserIds : users[u] # Null => users[u].token # env[r].token

\* A session belongs to a verified user.
SessionsVerified == \A s \in sessions : IsVerified(s.user)

\* A secret has been stored: it is never drawn again.
Drawn(s) == s \in Fleet \/ (s \in Requests /\ pc[s] \in {"done", "lost"})

SecretsDrawn == \A a \in AgentIds : agents[a] # Null => Drawn(agents[a].secret)

\* No two agents have the same secret.
UniqueSecrets ==
    \A a, b \in AgentIds :
        agents[a] # Null /\ agents[b] # Null /\ agents[a].secret = agents[b].secret => a = b

\* A retired secret is in no row, and none will get it.
RetiredGone ==
    \A s \in retired : Drawn(s) /\ \A a \in AgentIds : agents[a] # Null => agents[a].secret # s

\* A request that came with a retired secret has not read that secret's hash.
StaleOf(r) ==
    /\ env[r] # Null /\ env[r].secret \in retired
    /\ env[r].op = "authenticate" =>
          /\ pc[r] \in {"readHash", "checkSecret", "failed"}
          /\ pc[r] = "checkSecret" => loc[r].hash # env[r].secret

StaleChecks == \A r \in stale : StaleOf(r)

UserInv ==
    /\ RowsRegistered /\ UniqueEmails /\ TokensTraced /\ MailsTraced
    /\ VerifiersRead /\ SpentTokensGone /\ SessionsVerified
    /\ VerifiedAddressWasMailed /\ TokenIsSpentOnce /\ TokenlessIsCutOff

AgentInv ==
    /\ AgentOwnersAreVerified /\ SecretsDrawn /\ UniqueSecrets /\ RetiredGone /\ StaleChecks

IInv == TypeOK /\ Control /\ UserInv /\ AgentInv

-----------------------------------------------------------------------------
(* Facts about types.                                                      *)

\* Veterans, requests and the fleet are apart, and Null is none of them.
LEMMA IdFacts ==
  /\ \A u \in UserIds : u # Null /\ (u \in Requests \/ u \in Veterans)
  /\ \A u \in Requests : u \in UserIds /\ u \notin Veterans /\ u \in AgentIds /\ u \notin Fleet
  /\ \A u \in Veterans : u \in UserIds
  /\ \A a \in AgentIds : a # Null
  /\ \A a \in Fleet : a \in AgentIds /\ a \notin Requests
  /\ Secrets = AgentIds
BY ConstantsAssumption, NullAssumption DEF UserIds, AgentIds, Secrets

\* A row of users.
LEMMA UserFacts ==
  ASSUME TypeOK, NEW u \in UserIds, users[u] # Null
  PROVE  /\ users[u] \in UserRow
         /\ users[u].email \in Spellings \cup Veterans /\ users[u].verified \in BOOLEAN
         /\ users[u].token \in Requests \cup {Null} /\ users[u].expires \in Nat \cup {Null}
<1>1. users[u] \in UserRow BY DEF TypeOK
<1> QED BY <1>1 DEF UserRow, Addresses

\* The call and the locals of a request.
LEMMA CallFacts ==
  ASSUME TypeOK, Control, NEW r \in Requests
  PROVE  /\ loc[r] \in Locals
         /\ pc[r] # "idle" => env[r] \in Call /\ env[r] # Null
<1>1. loc[r] \in Locals BY DEF TypeOK
<1>2. pc[r] # "idle" => env[r] \in Call /\ env[r] # Null
  BY DEF TypeOK, Control, ControlOf
<1> QED BY <1>1, <1>2

-----------------------------------------------------------------------------
(* Init.                                                                   *)

LEMMA InitHolds == Init => IInv
<1> SUFFICES ASSUME Init PROVE IInv OBVIOUS
<1> USE IdFacts
<1>1. /\ \A u \in Veterans : /\ users[u].email = u /\ users[u].verified
                             /\ users[u].token = Null /\ users[u].expires = Null
                             /\ users[u] \in UserRow /\ users[u] # Null
      /\ \A u \in Requests : users[u] = Null
  <2>1. ASSUME NEW u \in Veterans
        PROVE  /\ users[u].email = u /\ users[u].verified
               /\ users[u].token = Null /\ users[u].expires = Null
               /\ users[u] \in UserRow /\ users[u] # Null
    <3>1. users[u] = [email |-> u, verified |-> TRUE, token |-> Null, expires |-> Null]
      BY DEF Init
    <3>2. users[u] \in UserRow BY <3>1 DEF UserRow, Addresses
    <3>3. users[u] # Null BY <3>2, NullAssumption
    <3>4. users[u].email = u /\ users[u].token = Null /\ users[u].expires = Null
      BY <3>1
    <3>5. users[u].verified BY <3>1
    <3> QED BY <3>2, <3>3, <3>4, <3>5
  <2>2. \A u \in Requests : users[u] = Null BY DEF Init
  <2> QED BY <2>1, <2>2
<1>2. PICK owner \in [Fleet -> Veterans] :
         agents = [a \in AgentIds |->
           IF a \in Fleet THEN [owner |-> owner[a], secret |-> a] ELSE Null]
  BY DEF Init
<1>3. \A a \in AgentIds : agents[a] # Null =>
         /\ a \in Fleet /\ agents[a].owner \in Veterans /\ agents[a].secret = a
         /\ agents[a] \in AgentRow
  BY <1>2 DEF AgentRow
<1>4. TypeOK
  <2>1. users \in [UserIds -> UserRow \cup {Null}] BY <1>1 DEF Init
  <2>2. \A u \in UserIds : users[u] # Null =>
           (users[u].token = Null <=> users[u].expires = Null)
    BY <1>1
  <2>3. agents \in [AgentIds -> AgentRow \cup {Null}] BY <1>2, <1>3
  <2>4. sessions \subseteq Session BY ConstantsAssumption DEF Init, Session
  <2>5. loc \in [Requests -> Locals] BY DEF Init, NoLocals, Locals
  <2> QED BY <2>1, <2>2, <2>3, <2>4, <2>5 DEF Init, TypeOK
<1>5. Control BY DEF Init, Control, ControlOf
<1>6. RowsRegistered /\ TokensTraced /\ VerifiedAddressWasMailed /\ TokenlessIsCutOff
  BY <1>1 DEF RowsRegistered, TokensTraced, VerifiedAddressWasMailed, TokenlessIsCutOff
<1>7. UniqueEmails BY <1>1 DEF UniqueEmails
<1>8. MailsTraced /\ VerifiersRead /\ SpentTokensGone /\ TokenIsSpentOnce
  BY DEF Init, MailsTraced, VerifiersRead, SpentTokensGone, TokenIsSpentOnce, Applied
<1>9. SessionsVerified
  <2>1. ASSUME NEW s \in sessions PROVE s.user \in Veterans BY DEF Init
  <2> QED BY <1>1, <2>1 DEF SessionsVerified, IsVerified
<1>10. AgentOwnersAreVerified BY <1>1, <1>3 DEF AgentOwnersAreVerified
<1>11. SecretsDrawn /\ UniqueSecrets /\ RetiredGone /\ StaleChecks
  BY <1>3 DEF Init, SecretsDrawn, Drawn, UniqueSecrets, RetiredGone, StaleChecks
<1> QED BY <1>4, <1>5, <1>6, <1>7, <1>8, <1>9, <1>10, <1>11 DEF IInv, UserInv, AgentInv

-----------------------------------------------------------------------------
(* What a step of one request leaves alone.                                *)

\* Only request r moves.
Moves(r) ==
    /\ \A q \in Requests \ {r} : pc'[q] = pc[q] /\ env'[q] = env[q] /\ loc'[q] = loc[q]
    /\ pc[r] \in Steps \cup {"idle"}
    /\ pc[r] # "idle" => env'[r] = env[r]

\* No row of users goes away and nobody is unverified.
Grows == \A u \in UserIds : /\ users[u] # Null => users'[u] # Null
                            /\ IsVerified(u) => IsVerified(u)'

\* The other requests keep what they rely on.
LEMMA ControlFrame ==
  ASSUME Control, NEW r \in Requests, Moves(r), Grows, ControlOf(r)'
  PROVE  Control'
<1>1. ASSUME NEW q \in Requests, q # r PROVE ControlOf(q)'
  <2>1. ControlOf(q) /\ pc'[q] = pc[q] /\ env'[q] = env[q] /\ loc'[q] = loc[q]
    BY <1>1 DEF Control, Moves
  <2> QED BY <2>1 DEF ControlOf, Grows, Mailing, IsVerified
<1> QED BY <1>1 DEF Control

\* A step that writes neither users nor mails, and opens only sessions of
\* verified users.
LEMMA UserFrame ==
  ASSUME IInv, NEW r \in Requests, Moves(r), UNCHANGED <<users, mails>>,
         sessions' = sessions \/ SessionsVerified',
         pc[r] = "sendMail" => loc'[r].user = loc[r].user,
         pc'[r] # "idle", pc'[r] = "insertUser" => pc[r] = "idle",
         pc[r] = "setToken" => pc'[r] = "failed",
         pc[r] = "sendMail" => pc'[r] \in {"done", "failed"},
         env'[r] # Null /\ env'[r].op = "verify" =>
            /\ pc'[r] \notin {"done", "lost"}
            /\ \E mail \in mails : mail.token = env'[r].token
  PROVE  UserInv'
<1> USE IdFacts
<1>1. TypeOK /\ UserInv BY DEF IInv
<1>2. pc[r] \notin {"done", "failed", "lost"} BY DEF Moves, Steps
<1>3. RowsRegistered' BY <1>1 DEF UserInv, RowsRegistered, Moves
<1>4. UniqueEmails' BY <1>1 DEF UserInv, UniqueEmails
<1>5. TokensTraced'
  <2>1. ASSUME NEW u \in UserIds, users[u] # Null, users[u].token # Null
        PROVE  /\ loc'[users[u].token].user = u
               /\ pc'[users[u].token] \in {"sendMail", "done", "failed"}
               /\ Mailing(users[u].token)'
    <3>1. users[u].token \in Requests BY <1>1, <2>1, UserFacts
    <3>2. /\ loc[users[u].token].user = u
          /\ pc[users[u].token] \in {"sendMail", "done", "failed"}
          /\ Mailing(users[u].token)
      BY <1>1, <2>1 DEF UserInv, TokensTraced
    <3> QED BY <1>2, <3>1, <3>2 DEF Moves, Mailing
  <2> QED BY <2>1 DEF TokensTraced
<1>6. MailsTraced'
  <2>1. ASSUME NEW mail \in mails
        PROVE  mail.token \in Requests /\ mail.token # r
    BY <1>1, <1>2, <2>1 DEF TypeOK, Mail, UserInv, MailsTraced
  <2> QED BY <1>1, <2>1 DEF UserInv, MailsTraced, Moves, Mailing
<1>7. VerifiersRead' BY <1>1 DEF UserInv, VerifiersRead, Moves
<1>8. SpentTokensGone' BY <1>1, <1>2 DEF UserInv, SpentTokensGone, Moves, Applied
<1>9. TokenIsSpentOnce' BY <1>1, <1>2 DEF UserInv, TokenIsSpentOnce, Moves, Applied
<1>10. SessionsVerified' BY <1>1 DEF UserInv, SessionsVerified, IsVerified
<1>11. VerifiedAddressWasMailed'
  <2>1. ASSUME NEW mail \in mails
        PROVE  mail.token \in Requests /\ mail.token # r
    BY <1>1, <1>2, <2>1 DEF TypeOK, Mail, UserInv, MailsTraced
  <2> QED BY <1>1, <2>1 DEF UserInv, VerifiedAddressWasMailed, Moves
<1>12. TokenlessIsCutOff' BY <1>1, <1>2 DEF UserInv, TokenlessIsCutOff, Moves
<1> QED BY <1>3, <1>4, <1>5, <1>6, <1>7, <1>8, <1>9, <1>10, <1>11, <1>12 DEF UserInv

\* A step that writes no agent and retires no secret.
LEMMA AgentFrame ==
  ASSUME IInv, NEW r \in Requests, Moves(r), Grows, UNCHANGED <<agents, retired>>,
         stale' \subseteq stale \cup {r}, r \in stale' => StaleOf(r)'
  PROVE  AgentInv'
<1> USE IdFacts
<1>1. TypeOK /\ AgentInv BY DEF IInv
<1>2. pc[r] \notin {"done", "failed", "lost"} BY DEF Moves, Steps
<1>3. \A s : Drawn(s) => Drawn(s)' BY <1>2 DEF Drawn, Moves
<1>4. AgentOwnersAreVerified'
  <2>1. \A a \in AgentIds : agents[a] # Null => agents[a].owner \in UserIds
    BY <1>1 DEF TypeOK, AgentRow
  <2> QED BY <1>1, <2>1 DEF AgentInv, AgentOwnersAreVerified, Grows, IsVerified
<1>5. SecretsDrawn' /\ UniqueSecrets' /\ RetiredGone'
  BY <1>1, <1>3 DEF AgentInv, SecretsDrawn, UniqueSecrets, RetiredGone
<1>6. StaleChecks'
  <2>1. ASSUME NEW q \in stale', q # r PROVE StaleOf(q)'
    <3>1. q \in Requests /\ StaleOf(q) BY <1>1, <2>1 DEF TypeOK, AgentInv, StaleChecks
    <3>2. pc'[q] = pc[q] /\ env'[q] = env[q] /\ loc'[q] = loc[q] BY <2>1, <3>1 DEF Moves
    <3> QED BY <3>1, <3>2 DEF StaleOf
  <2> QED BY <2>1 DEF StaleChecks
<1> QED BY <1>4, <1>5, <1>6 DEF AgentInv

\* What a stale request is known for outlives its own steps, unless it passes
\* the check.
LEMMA StaleKept ==
  ASSUME IInv, NEW r \in Requests, env'[r] = env[r], retired \subseteq retired',
         r \in stale' => r \in stale,
         env[r].op = "authenticate" => pc'[r] = "failed"
  PROVE  r \in stale' => StaleOf(r)'
BY DEF IInv, AgentInv, StaleChecks, StaleOf

-----------------------------------------------------------------------------
(* Steps that write no table.                                              *)

\* Control after a step that only moves request r on, with the arguments it has.
LEMMA GotoFacts ==
  ASSUME TypeOK, NEW r \in Requests, NEW step, Goto(r, step),
         UNCHANGED <<env, loc>>, pc[r] \in Steps
  PROVE  /\ Moves(r) /\ pc'[r] = step
         /\ step \in Steps \cup Outcomes =>
               pc' \in [Requests -> Steps \cup Outcomes \cup {"idle"}]
BY DEF TypeOK, Goto, Moves

\* An error return changes nothing but the outcome.
LEMMA FailStep ==
  ASSUME IInv, NEW r \in Requests, pc[r] \in Steps, Fail(r)
  PROVE  IInv'
<1>1. TypeOK /\ Control BY DEF IInv
<1>2. Goto(r, "failed") /\ UNCHANGED <<tables, clock, env, loc, history>> BY DEF Fail
<1>3. Moves(r) /\ pc'[r] = "failed"
      /\ pc' \in [Requests -> Steps \cup Outcomes \cup {"idle"}]
  BY <1>1, <1>2, GotoFacts DEF Outcomes
<1>4. pc[r] # "idle" /\ env[r] # Null BY <1>1 DEF Steps, Control, ControlOf
<1>5. TypeOK' BY <1>1, <1>2, <1>3 DEF TypeOK, tables, history
<1>6. Grows BY <1>2 DEF Grows, IsVerified, tables
<1>7. ControlOf(r)' BY <1>2, <1>3, <1>4 DEF ControlOf
<1>8. Control' BY <1>1, <1>3, <1>6, <1>7, ControlFrame
<1>9. UserInv'
  <2>1. env[r].op = "verify" => \E mail \in mails : mail.token = env[r].token
    BY <1>4 DEF IInv, UserInv, VerifiersRead
  <2> QED BY <1>2, <1>3, <2>1, UserFrame DEF tables
<1>10. AgentInv' BY <1>2, <1>3, <1>6, AgentFrame, StaleKept DEF tables, history
<1> QED BY <1>5, <1>8, <1>9, <1>10 DEF IInv

\* A request arrives with what its first statement needs.
LEMMA ArriveStep ==
  ASSUME IInv, NEW r \in Requests, NEW step, NEW op, NEW email, NEW token,
         NEW user, NEW agent, NEW secret,
         Arrive(r, step, op, email, token, user, agent, secret),
         step \in {"insertUser", "readUser", "verify", "login", "insertAgent",
                   "readAgent", "findAgent", "readHash"},
         [op |-> op, email |-> email, token |-> token, user |-> user,
          agent |-> agent, secret |-> secret] \in Call,
         step = "insertUser" => op = "register" /\ email \in Spellings,
         step = "readUser" => op = "resend",
         step = "verify" => op = "verify",
         op = "verify" => \E mail \in mails : mail.token = token,
         step = "login" => op = "login",
         step = "insertAgent" => /\ op = "createAgent" /\ user \in UserIds
                                 /\ IsVerified(user),
         step = "readAgent" => op = "rotate" /\ agent \in AgentIds,
         step = "findAgent" => op = "delete" /\ agent \in AgentIds,
         step = "readHash" <=> op = "authenticate",
         step = "readHash" => agent \in AgentIds
  PROVE  IInv'
<1> DEFINE call == [op |-> op, email |-> email, token |-> token, user |-> user,
                    agent |-> agent, secret |-> secret]
<1>1. TypeOK /\ Control BY DEF IInv
<1>2. /\ pc[r] = "idle" /\ pc' = [pc EXCEPT ![r] = step]
      /\ env' = [env EXCEPT ![r] = call] /\ UNCHANGED <<tables, clock, loc, retired>>
      /\ stale' = IF secret \in retired THEN stale \cup {r} ELSE stale
  BY DEF Arrive, Goto
<1>3. call \in Call /\ call # Null BY NullAssumption
<1>4. step \in Steps BY DEF Steps
<1>5. TypeOK'
  <2>1. env' \in [Requests -> Call \cup {Null}] BY <1>1, <1>2, <1>3 DEF TypeOK
  <2>2. pc' \in [Requests -> Steps \cup Outcomes \cup {"idle"}]
    BY <1>1, <1>2, <1>4 DEF TypeOK
  <2> QED BY <1>1, <1>2, <2>1, <2>2 DEF TypeOK, tables
<1>6. pc'[r] = step /\ env'[r] = call BY <1>1, <1>2 DEF TypeOK
<1>7. /\ env'[r].op = op /\ env'[r].email = email /\ env'[r].token = token
      /\ env'[r].user = user /\ env'[r].agent = agent /\ env'[r].secret = secret /\ env'[r] # Null
  BY <1>3, <1>6
<1>8. Moves(r) BY <1>1, <1>2 DEF Moves, TypeOK
<1>9. Grows BY <1>2 DEF Grows, IsVerified, tables
<1>10. ControlOf(r)' BY <1>2, <1>6, <1>7 DEF ControlOf, IsVerified, tables
<1>11. Control' BY <1>1, <1>8, <1>9, <1>10, ControlFrame
<1>12. UserInv' BY <1>2, <1>6, <1>7, <1>8, UserFrame DEF tables
<1>13. AgentInv'
  <2>1. r \notin stale BY <1>1, <1>2 DEF IInv, AgentInv, StaleChecks, StaleOf, Control, ControlOf
  <2>2. r \in stale' => StaleOf(r)' BY <1>2, <1>6, <1>7, <2>1 DEF StaleOf
  <2> QED BY <1>2, <1>8, <1>9, <2>2, AgentFrame DEF tables
<1> QED BY <1>5, <1>11, <1>12, <1>13 DEF IInv

\* Every kind of request arrives as ArriveStep asks.
LEMMA StartStep ==
  ASSUME IInv, NEW r \in Requests, Start(r)
  PROVE  IInv'
<1> USE IdFacts
<1>1. TypeOK /\ SessionsVerified BY DEF IInv, UserInv
<1>2. ASSUME NEW email \in Spellings,
             StartRegister(r, email) \/ StartResend(r, email) \/ StartLogin(r, email)
      PROVE  IInv'
  <2>1. Normal[email] \in Spellings BY ConstantsAssumption
  <2>2. \A op \in {"register", "resend", "login"} :
           /\ [op |-> op, email |-> email, token |-> Null, user |-> Null,
               agent |-> Null, secret |-> Null] \in Call
           /\ [op |-> op, email |-> Normal[email], token |-> Null, user |-> Null,
               agent |-> Null, secret |-> Null] \in Call
    BY <2>1 DEF Call, Operations
  <2>3. CASE StartRegister(r, email) BY <2>2, <2>3, ArriveStep DEF StartRegister
  <2>4. CASE StartResend(r, email) BY <2>1, <2>2, <2>4, ArriveStep DEF StartResend
  <2>5. CASE StartLogin(r, email) BY <2>1, <2>2, <2>5, ArriveStep DEF StartLogin
  <2> QED BY <1>2, <2>3, <2>4, <2>5
<1>3. ASSUME NEW mail \in mails, StartVerify(r, mail) PROVE IInv'
  <2>1. mail.token \in Requests BY <1>1 DEF TypeOK, Mail
  <2>2. [op |-> "verify", email |-> Null, token |-> mail.token, user |-> Null,
         agent |-> Null, secret |-> Null] \in Call
    BY <2>1 DEF Call, Operations
  <2> QED BY <1>3, <2>2, ArriveStep DEF StartVerify
<1>4. ASSUME NEW s \in sessions PROVE s.user \in UserIds /\ IsVerified(s.user)
  BY <1>1 DEF TypeOK, Session, SessionsVerified
<1>5. ASSUME NEW s \in sessions, StartCreateAgent(r, s) PROVE IInv'
  <2>1. [op |-> "createAgent", email |-> Null, token |-> Null, user |-> s.user,
         agent |-> Null, secret |-> Null] \in Call
    BY <1>4 DEF Call, Operations
  <2> QED BY <1>4, <1>5, <2>1, ArriveStep DEF StartCreateAgent
<1>6. ASSUME NEW s \in sessions, NEW a \in NamedAgents,
             StartRotate(r, s, a) \/ StartDelete(r, s, a)
      PROVE  IInv'
  <2>1. a \in AgentIds BY DEF NamedAgents
  <2>2. \A op \in {"rotate", "delete"} :
           [op |-> op, email |-> Null, token |-> Null, user |-> s.user,
            agent |-> a, secret |-> Null] \in Call
    BY <1>4, <2>1 DEF Call, Operations
  <2>3. CASE StartRotate(r, s, a) BY <2>1, <2>2, <2>3, ArriveStep DEF StartRotate
  <2>4. CASE StartDelete(r, s, a) BY <2>1, <2>2, <2>4, ArriveStep DEF StartDelete
  <2> QED BY <1>6, <2>3, <2>4
<1>7. ASSUME NEW a \in NamedAgents, NEW secret \in ShownSecrets,
             StartAuthenticate(r, a, secret)
      PROVE  IInv'
  <2>1. a \in AgentIds /\ secret \in Secrets BY DEF NamedAgents, ShownSecrets
  <2>2. [op |-> "authenticate", email |-> Null, token |-> Null, user |-> Null,
         agent |-> a, secret |-> secret] \in Call
    BY <2>1 DEF Call, Operations
  <2> QED BY <1>7, <2>1, <2>2, ArriveStep DEF StartAuthenticate
<1> QED BY <1>2, <1>3, <1>5, <1>6, <1>7 DEF Start

\* GetByEmail, for a resend.
LEMMA ReadUserStep ==
  ASSUME IInv, NEW r \in Requests, ReadUser(r)
  PROVE  IInv'
<1> USE IdFacts
<1>1. TypeOK /\ Control /\ pc[r] = "readUser" /\ pc[r] \in Steps
  BY DEF IInv, ReadUser, Steps
<1>2. CASE Fail(r) BY <1>1, <1>2, FailStep
<1>3. ASSUME NEW u \in UsersWith(env[r].email),
             loc' = [loc EXCEPT ![r].user = u, ![r].expires = clock + TokenTTL],
             Goto(r, "setToken"), UNCHANGED <<tables, clock, env, history>>
      PROVE  IInv'
  <2>1. u \in UserIds /\ users[u] # Null BY DEF UsersWith
  <2>2. clock + TokenTTL \in Nat BY <1>1, ConstantsAssumption DEF TypeOK
  <2>3. /\ loc'[r] = [loc[r] EXCEPT !.user = u, !.expires = clock + TokenTTL]
        /\ \A q \in Requests \ {r} : loc'[q] = loc[q]
    BY <1>1, <1>3 DEF TypeOK
  <2>4. loc[r] \in Locals BY <1>1 DEF TypeOK
  <2>5. /\ loc'[r] \in Locals /\ loc'[r].user = u /\ loc'[r].expires = clock + TokenTTL
    BY <2>1, <2>2, <2>3, <2>4 DEF Locals
  <2>6. pc'[r] = "setToken" /\ \A q \in Requests \ {r} : pc'[q] = pc[q]
    BY <1>1, <1>3 DEF TypeOK, Goto
  <2>7. env[r].op = "resend" /\ env[r] # Null BY <1>1 DEF Control, ControlOf
  <2>8. TypeOK'
    <3>1. loc' \in [Requests -> Locals] BY <1>1, <1>3, <2>5, <2>3 DEF TypeOK
    <3>2. pc' \in [Requests -> Steps \cup Outcomes \cup {"idle"}]
      BY <1>1, <1>3 DEF TypeOK, Goto, Steps
    <3> QED BY <1>1, <1>3, <3>1, <3>2 DEF TypeOK, tables, history
  <2>9. Moves(r) BY <1>1, <1>3, <2>3, <2>6 DEF Moves
  <2>10. Grows BY <1>3 DEF Grows, IsVerified, tables
  <2>11. ControlOf(r)' BY <1>3, <2>1, <2>2, <2>5, <2>6, <2>7 DEF ControlOf, Mailing, tables
  <2>12. Control' BY <1>1, <2>9, <2>10, <2>11, ControlFrame
  <2>13. UserInv' BY <1>1, <1>3, <2>6, <2>7, <2>9, UserFrame DEF tables
  <2>14. AgentInv' BY <1>3, <2>6, <2>7, <2>9, <2>10, AgentFrame, StaleKept DEF tables, history
  <2> QED BY <2>8, <2>12, <2>13, <2>14 DEF IInv
<1> QED BY <1>2, <1>3 DEF ReadUser

\* A step that reads the secret of the agent into a local variable.
LEMMA ReadSecret ==
  ASSUME IInv, NEW r \in Requests, NEW step \in {"updateSecret", "checkSecret"},
         pc[r] = (IF step = "updateSecret" THEN "readAgent" ELSE "readHash"),
         agents[env[r].agent] # Null,
         loc' = [loc EXCEPT ![r].hash = agents[env[r].agent].secret],
         Goto(r, step), UNCHANGED <<tables, clock, env, history>>
  PROVE  IInv'
<1> USE IdFacts
<1>1. TypeOK /\ Control /\ AgentInv BY DEF IInv
<1>2. /\ env[r].agent \in AgentIds /\ env[r] # Null /\ pc[r] \in Steps
      /\ env[r].op = IF step = "updateSecret" THEN "rotate" ELSE "authenticate"
  BY <1>1 DEF Control, ControlOf, Steps
<1>3. PICK hash \in Secrets : hash = agents[env[r].agent].secret
  BY <1>1, <1>2 DEF TypeOK, AgentRow
<1>4. loc'[r] = [loc[r] EXCEPT !.hash = hash] /\ loc[r] \in Locals
      /\ \A q \in Requests \ {r} : loc'[q] = loc[q]
  BY <1>1, <1>3 DEF TypeOK
<1>5. loc'[r] \in Locals /\ loc'[r].hash = hash BY <1>3, <1>4 DEF Locals
<1>6. pc'[r] = step /\ \A q \in Requests \ {r} : pc'[q] = pc[q]
  BY <1>1 DEF TypeOK, Goto
<1>7. TypeOK'
  <2>1. loc' \in [Requests -> Locals] BY <1>1, <1>4, <1>5 DEF TypeOK
  <2>2. pc' \in [Requests -> Steps \cup Outcomes \cup {"idle"}]
    BY <1>1 DEF TypeOK, Goto, Steps
  <2> QED BY <1>1, <2>1, <2>2 DEF TypeOK, tables, history
<1>8. Moves(r) BY <1>1, <1>2, <1>4, <1>6 DEF Moves
<1>9. Grows BY DEF Grows, IsVerified, tables
<1>10. ControlOf(r)' BY <1>2, <1>6 DEF ControlOf
<1>11. Control' BY <1>1, <1>8, <1>9, <1>10, ControlFrame
<1>12. UserInv' BY <1>1, <1>2, <1>6, <1>8, UserFrame DEF tables
\* A retired secret is in no row, so its hash is not what was read.
<1>13. r \in stale' => StaleOf(r)'
  BY <1>1, <1>2, <1>3, <1>5, <1>6 DEF AgentInv, StaleChecks, StaleOf, RetiredGone, history
<1>14. AgentInv' BY <1>8, <1>9, <1>13, AgentFrame DEF tables, history
<1> QED BY <1>7, <1>11, <1>12, <1>14 DEF IInv

\* GetByID before a rotation.
LEMMA ReadAgentStep ==
  ASSUME IInv, NEW r \in Requests, ReadAgent(r)
  PROVE  IInv'
<1>1. CASE Fail(r) BY <1>1, FailStep DEF ReadAgent, Steps
<1>2. CASE ~Fail(r) BY <1>2, ReadSecret DEF ReadAgent
<1> QED BY <1>1, <1>2

\* ValidateAPISecret's SELECT.
LEMMA ReadHashStep ==
  ASSUME IInv, NEW r \in Requests, ReadHash(r)
  PROVE  IInv'
<1>1. CASE Fail(r) BY <1>1, FailStep DEF ReadHash, Steps
<1>2. CASE ~Fail(r) BY <1>2, ReadSecret DEF ReadHash
<1> QED BY <1>1, <1>2

\* verifySecretArgon2id: a stale request has read another hash and fails.
LEMMA CheckSecretStep ==
  ASSUME IInv, NEW r \in Requests, CheckSecret(r)
  PROVE  IInv'
<1>1. TypeOK /\ Control /\ AgentInv /\ pc[r] = "checkSecret" /\ pc[r] \in Steps
  BY DEF IInv, CheckSecret, Steps
<1>2. CASE Fail(r) BY <1>1, <1>2, FailStep
<1>3. ASSUME loc[r].hash = env[r].secret, Goto(r, "done"),
             UNCHANGED <<tables, clock, env, loc, history>>
      PROVE  IInv'
  <2>1. env[r].op = "authenticate" /\ env[r] # Null BY <1>1 DEF Control, ControlOf
  <2>2. Moves(r) /\ pc'[r] = "done"
        /\ pc' \in [Requests -> Steps \cup Outcomes \cup {"idle"}]
    BY <1>1, <1>3, GotoFacts DEF Outcomes
  <2>3. TypeOK' BY <1>1, <1>3, <2>2 DEF TypeOK, tables, history
  <2>4. Grows BY <1>3 DEF Grows, IsVerified, tables
  <2>5. ControlOf(r)' BY <1>3, <2>1, <2>2 DEF ControlOf
  <2>6. Control' BY <1>1, <2>2, <2>4, <2>5, ControlFrame
  <2>7. UserInv' BY <1>1, <1>3, <2>1, <2>2, UserFrame DEF tables
  <2>8. r \notin stale' BY <1>1, <1>3, <2>1 DEF AgentInv, StaleChecks, StaleOf, history
  <2>9. AgentInv' BY <1>3, <2>2, <2>4, <2>8, AgentFrame DEF tables, history
  <2> QED BY <2>3, <2>6, <2>7, <2>9 DEF IInv
<1> QED BY <1>2, <1>3 DEF CheckSecret

\* GetAgent before a deletion.
LEMMA FindAgentStep ==
  ASSUME IInv, NEW r \in Requests, FindAgent(r)
  PROVE  IInv'
<1>1. TypeOK /\ Control /\ pc[r] = "findAgent" /\ pc[r] \in Steps
  BY DEF IInv, FindAgent, Steps
<1>2. CASE Fail(r) BY <1>1, <1>2, FailStep
<1>3. ASSUME Goto(r, "deleteAgent"), UNCHANGED <<tables, clock, env, loc, history>>
      PROVE  IInv'
  <2>1. env[r].op = "delete" /\ env[r].agent \in AgentIds /\ env[r] # Null
    BY <1>1 DEF Control, ControlOf
  <2>2. Moves(r) /\ pc'[r] = "deleteAgent"
        /\ pc' \in [Requests -> Steps \cup Outcomes \cup {"idle"}]
    BY <1>1, <1>3, GotoFacts DEF Steps
  <2>3. TypeOK' BY <1>1, <1>3, <2>2 DEF TypeOK, tables, history
  <2>4. Grows BY <1>3 DEF Grows, IsVerified, tables
  <2>5. ControlOf(r)' BY <1>3, <2>1, <2>2 DEF ControlOf
  <2>6. Control' BY <1>1, <2>2, <2>4, <2>5, ControlFrame
  <2>7. UserInv' BY <1>1, <1>3, <2>1, <2>2, UserFrame DEF tables
  <2>8. AgentInv' BY <1>3, <2>1, <2>2, <2>4, AgentFrame, StaleKept DEF tables, history
  <2> QED BY <2>3, <2>6, <2>7, <2>8 DEF IInv
<1> QED BY <1>2, <1>3 DEF FindAgent

-----------------------------------------------------------------------------
(* Steps that write agents.                                                *)

\* A step that writes the agents, retires what one of them loses, and answers
\* the request or loses the answer.
LEMMA AgentWrite ==
  ASSUME IInv, NEW r \in Requests, pc[r] \in {"insertAgent", "updateSecret", "deleteAgent"},
         Reply(r), agents' \in [AgentIds -> AgentRow \cup {Null}],
         retired \subseteq retired', retired' \subseteq Secrets,
         UNCHANGED <<users, mails, sessions, clock, env, loc, stale>>
  PROVE  /\ TypeOK' /\ Control' /\ UserInv' /\ StaleChecks'
         /\ ~Drawn(r) /\ Drawn(r)' /\ \A s : Drawn(s) => Drawn(s)'
<1> USE IdFacts
<1>1. TypeOK /\ Control /\ pc[r] \in Steps BY DEF IInv, Steps
<1>2. Moves(r) /\ pc'[r] \in {"done", "lost"}
      /\ pc' \in [Requests -> Steps \cup Outcomes \cup {"idle"}]
  BY <1>1, GotoFacts DEF Reply, Outcomes
<1>3. pc[r] # "idle" /\ env[r] # Null BY <1>1 DEF Steps, Control, ControlOf
<1>4. TypeOK' BY <1>1, <1>2 DEF TypeOK
<1>5. Grows BY DEF Grows, IsVerified
<1>6. ControlOf(r)' BY <1>2, <1>3 DEF ControlOf
<1>7. Control' BY <1>1, <1>2, <1>5, <1>6, ControlFrame
<1>8. env[r].op \in {"createAgent", "rotate", "delete"} BY <1>1 DEF Control, ControlOf
<1>9. UserInv' BY <1>2, <1>3, <1>8, UserFrame
<1>10. ~Drawn(r) /\ Drawn(r)' /\ \A s : Drawn(s) => Drawn(s)'
  BY <1>2 DEF Drawn, Moves
<1>11. StaleChecks'
  <2>1. ASSUME NEW q \in stale PROVE StaleOf(q)'
    <3>1. q \in Requests /\ StaleOf(q) BY <1>1 DEF IInv, TypeOK, AgentInv, StaleChecks
    <3>2. CASE q = r BY <1>8, <3>1, <3>2 DEF StaleOf
    <3>3. CASE q # r
      <4>1. pc'[q] = pc[q] /\ env'[q] = env[q] /\ loc'[q] = loc[q] BY <1>2, <3>1, <3>3 DEF Moves
      <4> QED BY <3>1, <4>1 DEF StaleOf
    <3> QED BY <3>2, <3>3
  <2> QED BY <2>1 DEF StaleChecks
<1> QED BY <1>4, <1>7, <1>9, <1>10, <1>11

\* INSERT INTO agents.
LEMMA InsertAgentStep ==
  ASSUME IInv, NEW r \in Requests, InsertAgent(r)
  PROVE  IInv'
<1> USE IdFacts
<1>1. /\ TypeOK /\ Control /\ AgentInv /\ pc[r] = "insertAgent"
      /\ Reply(r) /\ UNCHANGED <<users, mails, sessions, clock, env, loc, retired, stale>>
      /\ agents' = [agents EXCEPT ![r] = [owner |-> env[r].user, secret |-> r]]
  BY DEF IInv, InsertAgent, history
<1>2. env[r].op = "createAgent" /\ env[r].user \in UserIds /\ IsVerified(env[r].user)
  BY <1>1 DEF Control, ControlOf
<1>3. [owner |-> env[r].user, secret |-> r] \in AgentRow BY <1>2 DEF AgentRow
<1>4. agents' \in [AgentIds -> AgentRow \cup {Null}] BY <1>1, <1>3 DEF TypeOK
<1>5. /\ agents'[r].owner = env[r].user /\ agents'[r].secret = r
      /\ \A a \in AgentIds \ {r} : agents'[a] = agents[a]
  BY <1>1 DEF TypeOK
<1>6. /\ TypeOK' /\ Control' /\ UserInv' /\ StaleChecks'
      /\ ~Drawn(r) /\ Drawn(r)' /\ \A s : Drawn(s) => Drawn(s)'
  <2>1. retired \subseteq retired' /\ retired' \subseteq Secrets BY <1>1 DEF TypeOK
  <2> QED BY <1>1, <1>4, <2>1, AgentWrite
<1>7. AgentOwnersAreVerified'
  BY <1>1, <1>2, <1>5 DEF AgentInv, AgentOwnersAreVerified, IsVerified
<1>8. SecretsDrawn' /\ UniqueSecrets' /\ RetiredGone'
  BY <1>1, <1>5, <1>6 DEF AgentInv, SecretsDrawn, UniqueSecrets, RetiredGone
<1> QED BY <1>6, <1>7, <1>8 DEF IInv, AgentInv

\* UPDATE agents SET api_secret_hash: the new secret was never stored before,
\* and the one it replaces is in no other row.
LEMMA UpdateSecretStep ==
  ASSUME IInv, NEW r \in Requests, UpdateSecret(r)
  PROVE  IInv'
<1> USE IdFacts
<1>1. /\ TypeOK /\ Control /\ AgentInv /\ pc[r] = "updateSecret"
      /\ Reply(r) /\ UNCHANGED <<users, mails, sessions, clock, env, loc, stale>>
      /\ agents' = IF agents[env[r].agent] = Null THEN agents
                   ELSE [agents EXCEPT ![env[r].agent].secret = r]
      /\ retired' = retired \cup Loses(env[r].agent)
  BY DEF IInv, UpdateSecret, NewSecret
<1>2. PICK a \in AgentIds : env[r].op = "rotate" /\ env[r].agent = a
  BY <1>1 DEF Control, ControlOf
<1>3. /\ agents[a] = Null => agents'[a] = Null
      /\ agents[a] # Null => /\ agents'[a] \in AgentRow
                             /\ agents'[a].owner = agents[a].owner
                             /\ agents'[a].secret = r
      /\ \A b \in AgentIds \ {a} : agents'[b] = agents[b]
      /\ agents' \in [AgentIds -> AgentRow \cup {Null}]
  <2>1. CASE agents[a] = Null BY <1>1, <1>2, <2>1 DEF TypeOK
  <2>2. CASE agents[a] # Null
    <3>1. agents[a] \in AgentRow /\ agents' = [agents EXCEPT ![a].secret = r]
      BY <1>1, <1>2, <2>2 DEF TypeOK
    <3>2. agents'[a] = [agents[a] EXCEPT !.secret = r] BY <1>1, <3>1 DEF TypeOK
    <3>3. [agents[a] EXCEPT !.secret = r] \in AgentRow BY <3>1 DEF AgentRow
    <3>4. agents'[a].owner = agents[a].owner /\ agents'[a].secret = r
      BY <3>1, <3>2 DEF AgentRow
    <3>6. \A b \in AgentIds \ {a} : agents'[b] = agents[b] BY <1>1, <3>1 DEF TypeOK
    <3>5. agents' \in [AgentIds -> AgentRow \cup {Null}]
      <4>1. agents \in [AgentIds -> AgentRow \cup {Null}] BY <1>1 DEF TypeOK
      <4>2. agents' = [agents EXCEPT ![a] = [agents[a] EXCEPT !.secret = r]] BY <3>1
      <4>3. PICK row \in AgentRow : row = [agents[a] EXCEPT !.secret = r] BY <3>3
      <4> QED BY <4>1, <4>2, <4>3
    <3> QED BY <2>2, <3>2, <3>3, <3>4, <3>5, <3>6
  <2> QED BY <2>1, <2>2
<1>4. /\ agents[a] = Null => retired' = retired
      /\ agents[a] # Null => retired' = retired \cup {agents[a].secret}
                             /\ agents[a].secret \in Secrets
  BY <1>1, <1>2 DEF Loses, TypeOK, AgentRow
<1>5. /\ TypeOK' /\ Control' /\ UserInv' /\ StaleChecks'
      /\ ~Drawn(r) /\ Drawn(r)' /\ \A s : Drawn(s) => Drawn(s)'
  <2>1. retired \subseteq retired' /\ retired' \subseteq Secrets BY <1>1, <1>4 DEF TypeOK
  <2> QED BY <1>1, <1>3, <2>1, AgentWrite
<1>6. AgentOwnersAreVerified'
  BY <1>1, <1>3 DEF AgentInv, AgentOwnersAreVerified
<1>7. SecretsDrawn' BY <1>1, <1>3, <1>5 DEF AgentInv, SecretsDrawn
<1>8. UniqueSecrets'
  BY <1>1, <1>3, <1>5 DEF AgentInv, SecretsDrawn, UniqueSecrets
<1>9. RetiredGone'
  <2>1. ASSUME NEW s \in retired' PROVE Drawn(s)
    BY <1>1, <1>4, <2>1 DEF AgentInv, SecretsDrawn, RetiredGone
  <2>2. ASSUME NEW s \in retired', NEW b \in AgentIds, agents'[b] # Null
        PROVE  agents'[b].secret # s
    <3>1. CASE b = a BY <1>3, <1>5, <2>1, <2>2, <3>1
    <3>2. CASE b # a
      <4>1. agents'[b] = agents[b] /\ agents[b] # Null BY <1>3, <2>2, <3>2
      <4>2. CASE s \in retired BY <1>1, <4>1, <4>2 DEF AgentInv, RetiredGone
      <4>3. CASE s \notin retired
        <5>1. agents[a] # Null /\ s = agents[a].secret BY <1>4, <2>2, <4>3
        <5> QED BY <1>1, <3>2, <4>1, <5>1 DEF AgentInv, UniqueSecrets
      <4> QED BY <4>2, <4>3
    <3> QED BY <3>1, <3>2
  <2> QED BY <1>5, <2>1, <2>2 DEF RetiredGone
<1> QED BY <1>5, <1>6, <1>7, <1>8, <1>9 DEF IInv, AgentInv

\* DELETE FROM agents.
LEMMA DeleteAgentStep ==
  ASSUME IInv, NEW r \in Requests, DeleteAgent(r)
  PROVE  IInv'
<1> USE IdFacts
<1>1. /\ TypeOK /\ Control /\ AgentInv /\ pc[r] = "deleteAgent" /\ pc[r] \in Steps
  BY DEF IInv, DeleteAgent, Steps
<1>2. CASE Fail(r) BY <1>1, <1>2, FailStep
<1>3. ASSUME agents[env[r].agent] # Null,
             agents' = [agents EXCEPT ![env[r].agent] = Null], Reply(r),
             retired' = retired \cup Loses(env[r].agent),
             UNCHANGED <<users, mails, sessions, clock, env, loc, stale>>
      PROVE  IInv'
  <2>1. PICK a \in AgentIds : env[r].op = "delete" /\ env[r].agent = a
    BY <1>1 DEF Control, ControlOf
  <2>2. /\ agents' \in [AgentIds -> AgentRow \cup {Null}] /\ agents'[a] = Null
        /\ \A b : b # a => agents'[b] = agents[b]
    BY <1>1, <1>3, <2>1 DEF TypeOK
  <2>3. retired' = retired \cup {agents[a].secret} /\ agents[a].secret \in Secrets
    BY <1>1, <1>3, <2>1 DEF Loses, TypeOK, AgentRow
  <2>4. /\ TypeOK' /\ Control' /\ UserInv' /\ StaleChecks'
        /\ ~Drawn(r) /\ Drawn(r)' /\ \A s : Drawn(s) => Drawn(s)'
    <3>1. retired \subseteq retired' /\ retired' \subseteq Secrets BY <1>1, <2>3 DEF TypeOK
    <3> QED BY <1>1, <1>3, <2>2, <3>1, AgentWrite
  <2>5. AgentOwnersAreVerified'
    BY <1>1, <1>3, <2>2 DEF AgentInv, AgentOwnersAreVerified
  <2>6. SecretsDrawn' /\ UniqueSecrets'
    BY <1>1, <2>2, <2>4 DEF AgentInv, SecretsDrawn, UniqueSecrets
  <2>7. RetiredGone'
    <3>1. ASSUME NEW s \in retired' PROVE Drawn(s)
      BY <1>1, <1>3, <2>1, <2>3, <3>1 DEF AgentInv, SecretsDrawn, RetiredGone
    <3>2. ASSUME NEW s \in retired', NEW b \in AgentIds, agents'[b] # Null
          PROVE  agents'[b].secret # s
      BY <1>1, <1>3, <2>1, <2>2, <2>3, <3>2 DEF AgentInv, RetiredGone, UniqueSecrets
    <3> QED BY <2>4, <3>1, <3>2 DEF RetiredGone
  <2> QED BY <2>4, <2>5, <2>6, <2>7 DEF IInv, AgentInv
<1> QED BY <1>2, <1>3 DEF DeleteAgent

-----------------------------------------------------------------------------
(* Steps that write users, mails or sessions.                              *)

\* Tokens in rows, mails and calls belong to requests that draw them.
LEMMA TokenFacts ==
  ASSUME IInv
  PROVE  /\ \A u \in UserIds : users[u] # Null /\ users[u].token # Null =>
               users[u].token \in Requests
         /\ \A mail \in mails : mail.token \in Requests
         /\ \A r \in Requests : env[r] # Null /\ env[r].op = "verify" =>
               /\ env[r].token \in Requests
               /\ pc[env[r].token] = "done" /\ Mailing(env[r].token)
<1>1. \A mail \in mails : mail.token \in Requests BY DEF IInv, TypeOK, Mail
<1>2. \A u \in UserIds : users[u] # Null /\ users[u].token # Null =>
         users[u].token \in Requests
  BY UserFacts DEF IInv
<1>3. \A r \in Requests : env[r] # Null /\ env[r].op = "verify" =>
         /\ env[r].token \in Requests
         /\ pc[env[r].token] = "done" /\ Mailing(env[r].token)
  BY <1>1 DEF IInv, UserInv, VerifiersRead, MailsTraced
<1> QED BY <1>1, <1>2, <1>3

\* RegisterUser: INSERT INTO users.
LEMMA InsertUserStep ==
  ASSUME IInv, NEW r \in Requests, InsertUser(r)
  PROVE  IInv'
<1> USE IdFacts
<1>1. TypeOK /\ Control /\ UserInv /\ pc[r] = "insertUser" /\ pc[r] \in Steps
  BY DEF IInv, InsertUser, Steps
<1>2. CASE Fail(r) BY <1>1, <1>2, FailStep
<1> DEFINE row == [email |-> StoredEmail(r), verified |-> FALSE,
                   token |-> Null, expires |-> Null]
<1>3. ASSUME ~EmailTaken(StoredEmail(r)), users' = [users EXCEPT ![r] = row],
             loc' = [loc EXCEPT ![r].user = r, ![r].expires = clock + TokenTTL],
             Goto(r, "setToken"), UNCHANGED <<agents, mails, sessions, clock, env, history>>
      PROVE  IInv'
  <2>1. env[r].op = "register" /\ env[r].email \in Spellings /\ env[r] # Null
    BY <1>1 DEF Control, ControlOf
  <2>2. users[r] = Null BY <1>1 DEF UserInv, RowsRegistered
  <2>3. PICK email \in Spellings : email = Normal[env[r].email] /\ StoredEmail(r) = email
    BY <2>1, ConstantsAssumption DEF StoredEmail
  <2>4. row \in UserRow BY <2>3 DEF UserRow, Addresses
  <2>5. /\ users'[r] \in UserRow /\ users'[r] # Null /\ users'[r].email = email
        /\ users'[r].token = Null /\ users'[r].expires = Null
        /\ ~users'[r].verified
        /\ \A u \in UserIds \ {r} : users'[u] = users[u]
    <3>1. users'[r] = row /\ \A u \in UserIds \ {r} : users'[u] = users[u]
      BY <1>1, <1>3 DEF TypeOK
    <3>2. users'[r] # Null BY <2>4, <3>1, NullAssumption
    <3>3. ~users'[r].verified BY <3>1
    <3>4. users'[r].email = email /\ users'[r].token = Null /\ users'[r].expires = Null
      BY <2>3, <3>1
    <3> QED BY <2>4, <3>1, <3>2, <3>3, <3>4
  <2>6. clock + TokenTTL \in Nat BY <1>1, ConstantsAssumption DEF TypeOK
  <2>7. /\ loc'[r] \in Locals /\ loc'[r].user = r /\ loc'[r].expires \in Nat
        /\ \A q \in Requests \ {r} : loc'[q] = loc[q]
    <3>1. loc[r] \in Locals
          /\ loc'[r] = [loc[r] EXCEPT !.user = r, !.expires = clock + TokenTTL]
          /\ \A q \in Requests \ {r} : loc'[q] = loc[q]
      BY <1>1, <1>3 DEF TypeOK
    <3> QED BY <2>6, <3>1 DEF Locals
  <2>8. pc'[r] = "setToken" /\ \A q \in Requests \ {r} : pc'[q] = pc[q]
    BY <1>1, <1>3 DEF TypeOK, Goto
  <2>9. TypeOK'
    <3>1. users' \in [UserIds -> UserRow \cup {Null}] BY <1>1, <1>3, <2>4 DEF TypeOK
    <3>2. loc' \in [Requests -> Locals] BY <1>1, <1>3, <2>7 DEF TypeOK
    <3>3. pc' \in [Requests -> Steps \cup Outcomes \cup {"idle"}]
      BY <1>1, <1>3 DEF TypeOK, Goto, Steps
    <3>4. \A u \in UserIds : users'[u] # Null =>
             (users'[u].token = Null <=> users'[u].expires = Null)
      BY <1>1, <2>5 DEF TypeOK
    <3> QED BY <1>1, <1>3, <3>1, <3>2, <3>3, <3>4 DEF TypeOK, history
  <2>10. Moves(r) BY <1>1, <1>3, <2>7, <2>8 DEF Moves
  <2>11. Grows BY <2>2, <2>5 DEF Grows, IsVerified
  <2>12. Control'
    <3>1. ControlOf(r)' BY <1>3, <2>1, <2>5, <2>7, <2>8 DEF ControlOf, Mailing
    <3> QED BY <1>1, <2>10, <2>11, <3>1, ControlFrame
  <2>13. UserInv'
    <3>1. RowsRegistered'
      BY <1>1, <1>3, <2>1, <2>3, <2>5, <2>8, <2>10 DEF UserInv, RowsRegistered, Moves
    <3>2. UniqueEmails'
      <4>1. \A u \in UserIds : users[u] # Null => users[u].email # email
        BY <1>3, <2>3 DEF EmailTaken, UsersWith
      <4> QED BY <1>1, <2>5, <4>1 DEF UserInv, UniqueEmails
    <3>3. TokensTraced'
      <4>1. ASSUME NEW u \in UserIds, users'[u] # Null, users'[u].token # Null
            PROVE  u # r /\ users'[u] = users[u] /\ users[u].token \in Requests \ {r}
        BY <1>1, <2>5, <4>1, TokenFacts DEF UserInv, TokensTraced
      <4> QED BY <1>1, <2>7, <2>10, <4>1 DEF UserInv, TokensTraced, Mailing, Moves
    <3>4. ASSUME NEW mail \in mails
          PROVE  /\ mail.token \in Requests \ {r} /\ loc[mail.token].user # r
                 /\ loc'[mail.token].user = loc[mail.token].user
      <4>1. /\ mail.token \in Requests /\ pc[mail.token] = "done"
            /\ users[loc[mail.token].user] # Null
        BY <1>1, TokenFacts DEF UserInv, MailsTraced
      <4>2. mail.token # r /\ loc[mail.token].user # r BY <1>1, <2>2, <4>1
      <4> QED BY <2>7, <4>1, <4>2
    <3>5. MailsTraced'
      <4>1. ASSUME NEW mail \in mails
            PROVE  /\ pc'[mail.token] = "done" /\ Mailing(mail.token)
                   /\ loc[mail.token].user \in UserIds \ {r}
                   /\ users[loc[mail.token].user] # Null
                   /\ mail.to = users[loc[mail.token].user].email
        BY <1>1, <2>8, <3>4 DEF UserInv, MailsTraced
      <4>2. mails' = mails /\ env' = env BY <1>3
      <4> QED BY <2>5, <3>4, <4>1, <4>2 DEF MailsTraced, Mailing
    <3>6. VerifiersRead' BY <1>1, <1>3, <2>1, <2>10 DEF UserInv, VerifiersRead
    <3>7. SpentTokensGone'
      <4>1. \A q \in Requests : env[q] # Null /\ env[q].op = "verify" =>
               q # r /\ env[q].token # Null
        BY <2>1, TokenFacts, NullAssumption
      <4>2. ASSUME NEW q \in Requests, Applied(q, {"verify"})',
                   NEW u \in UserIds, users'[u] # Null
            PROVE  users'[u].token # env[q].token
        BY <1>1, <1>3, <2>5, <2>8, <4>1, <4>2 DEF UserInv, SpentTokensGone, Applied
      <4> QED BY <1>3, <4>2 DEF SpentTokensGone
    <3>8. TokenIsSpentOnce' BY <1>1, <1>3, <2>1, <2>8 DEF UserInv, TokenIsSpentOnce, Applied
    <3>9. SessionsVerified'
      BY <1>1, <1>3, <2>11 DEF UserInv, SessionsVerified, Grows, TypeOK, Session
    <3>10. VerifiedAddressWasMailed'
      <4>1. ASSUME NEW u \in Requests, users'[u] # Null, users'[u].verified
            PROVE  \E mail \in mails : mail.to = users'[u].email /\ loc'[mail.token].user = u
        <5>1. users'[u] = users[u] BY <2>5, <4>1
        <5>2. PICK mail \in mails : mail.to = users[u].email /\ loc[mail.token].user = u
          BY <1>1, <4>1, <5>1 DEF UserInv, VerifiedAddressWasMailed
        <5> QED BY <3>4, <5>1, <5>2
      <4> QED BY <1>3, <4>1 DEF VerifiedAddressWasMailed
    <3>11. TokenlessIsCutOff' BY <1>1, <2>5, <2>8 DEF UserInv, TokenlessIsCutOff
    <3> QED BY <3>1, <3>2, <3>3, <3>5, <3>6, <3>7, <3>8, <3>9, <3>10, <3>11 DEF UserInv
  <2>14. AgentInv' BY <1>3, <2>1, <2>8, <2>10, <2>11, AgentFrame, StaleKept DEF history
  <2> QED BY <2>9, <2>12, <2>13, <2>14 DEF IInv
<1> QED BY <1>2, <1>3 DEF InsertUser

\* SetVerificationToken, whatever happened to the row since it was read.
LEMMA SetTokenStep ==
  ASSUME IInv, NEW r \in Requests, SetToken(r)
  PROVE  IInv'
<1> USE IdFacts
<1>1. /\ TypeOK /\ Control /\ UserInv /\ pc[r] = "setToken" /\ pc[r] \in Steps
      /\ UNCHANGED <<agents, mails, sessions, clock, env, loc, history>> /\ Goto(r, "sendMail")
      /\ users' = [users EXCEPT ![loc[r].user] = WithToken(@, r, loc[r].expires)]
  BY DEF IInv, SetToken, Steps
<1>2. PICK u \in UserIds :
         /\ u = loc[r].user /\ users[u] # Null /\ loc[r].expires \in Nat /\ Mailing(r)
         /\ env[r] # Null /\ (env[r].op = "register" => u = r)
  BY <1>1 DEF Control, ControlOf
<1>3. /\ users'[u] \in UserRow /\ users'[u] # Null /\ users'[u].email = users[u].email
      /\ users'[u].token = r /\ users'[u].expires # Null
      /\ users'[u].verified <=> users[u].verified
      /\ \A v \in UserIds \ {u} : users'[v] = users[v]
  <2>1. users[u] \in UserRow BY <1>1, <1>2, UserFacts
  <2>2. users'[u] = [users[u] EXCEPT !.token = r, !.expires = loc[r].expires]
        /\ \A v \in UserIds \ {u} : users'[v] = users[v]
    BY <1>1, <1>2 DEF TypeOK, WithToken
  <2>3. users'[u] \in UserRow BY <1>2, <2>1, <2>2 DEF UserRow
  <2>4. users'[u].email = users[u].email /\ users'[u].token = r
        /\ users'[u].expires = loc[r].expires
    BY <2>1, <2>2 DEF UserRow
  <2>5. users'[u].verified <=> users[u].verified BY <2>1, <2>2 DEF UserRow
  <2> QED BY <1>2, <2>2, <2>3, <2>4, <2>5, NullAssumption
<1>4. Moves(r) /\ pc'[r] = "sendMail"
      /\ pc' \in [Requests -> Steps \cup Outcomes \cup {"idle"}]
  BY <1>1, GotoFacts DEF Steps
<1>5. TypeOK'
  <2>1. users' \in [UserIds -> UserRow \cup {Null}]
    BY <1>1, <1>2, <1>3 DEF TypeOK
  <2>2. \A v \in UserIds : users'[v] # Null =>
           (users'[v].token = Null <=> users'[v].expires = Null)
    BY <1>1, <1>3 DEF TypeOK
  <2> QED BY <1>1, <1>4, <2>1, <2>2 DEF TypeOK, history
<1>6. Grows BY <1>3 DEF Grows, IsVerified
<1>7. Control'
  <2>1. ControlOf(r) BY <1>1 DEF Control
  <2>2. ControlOf(r)' BY <1>1, <1>2, <1>3, <1>4, <2>1 DEF ControlOf, Mailing
  <2> QED BY <1>1, <1>4, <1>6, <2>2, ControlFrame
<1>8. UserInv'
  <2>1. RowsRegistered' BY <1>1, <1>2, <1>3, <1>4 DEF UserInv, RowsRegistered, Moves
  <2>2. UniqueEmails' BY <1>1, <1>2, <1>3 DEF UserInv, UniqueEmails
  <2>3. TokensTraced'
    <3>1. ASSUME NEW v \in UserIds, v # u, users[v] # Null, users[v].token # Null
          PROVE  users[v].token \in Requests \ {r}
      BY <1>1, <3>1, TokenFacts DEF UserInv, TokensTraced
    <3> QED BY <1>1, <1>2, <1>3, <1>4, <3>1 DEF UserInv, TokensTraced, Mailing, Moves
  <2>4. ASSUME NEW mail \in mails PROVE mail.token \in Requests \ {r}
    BY <1>1, TokenFacts DEF UserInv, MailsTraced
  <2>5. MailsTraced'
    BY <1>1, <1>2, <1>3, <1>4, <2>4 DEF UserInv, MailsTraced, Mailing, Moves
  <2>6. VerifiersRead' BY <1>1 DEF UserInv, VerifiersRead
  <2>7. SpentTokensGone'
    <3>1. \A q \in Requests : env[q] # Null /\ env[q].op = "verify" => env[q].token # r
      BY <1>1, TokenFacts
    <3> QED BY <1>1, <1>2, <1>3, <1>4, <3>1 DEF UserInv, SpentTokensGone, Moves, Applied
  <2>8. TokenIsSpentOnce' BY <1>1, <1>4 DEF UserInv, TokenIsSpentOnce, Moves, Applied
  <2>9. SessionsVerified'
    BY <1>1, <1>6 DEF UserInv, SessionsVerified, Grows, TypeOK, Session
  <2>10. VerifiedAddressWasMailed'
    BY <1>1, <1>2, <1>3 DEF UserInv, VerifiedAddressWasMailed
  <2>11. TokenlessIsCutOff'
    <3>1. ASSUME NEW v \in Requests, v # u, users[v] # Null PROVE v # r
      BY <1>1, <1>2, <3>1 DEF UserInv, RowsRegistered
    <3> QED BY <1>1, <1>2, <1>3, <1>4, <3>1 DEF UserInv, TokenlessIsCutOff, Moves
  <2> QED BY <2>1, <2>2, <2>3, <2>5, <2>6, <2>7, <2>8, <2>9, <2>10, <2>11 DEF UserInv
<1>9. AgentInv'
  <2>1. env[r].op # "authenticate" BY <1>2 DEF Mailing
  <2> QED BY <1>1, <1>2, <1>4, <1>6, <2>1, AgentFrame, StaleKept DEF history
<1> QED BY <1>5, <1>7, <1>8, <1>9 DEF IInv

\* SendEmail: a token is mailed to the account it was drawn for.
LEMMA SendMailStep ==
  ASSUME IInv, NEW r \in Requests, SendMail(r)
  PROVE  IInv'
<1> USE IdFacts
<1>1. /\ TypeOK /\ Control /\ UserInv /\ pc[r] = "sendMail" /\ pc[r] \in Steps
      /\ UNCHANGED <<users, agents, sessions, clock, env, loc, history>> /\ Goto(r, "done")
  BY DEF IInv, SendMail, Steps
<1>2. PICK u \in UserIds :
         u = loc[r].user /\ users[u] # Null /\ Mailing(r) /\ env[r] # Null
  BY <1>1 DEF Control, ControlOf
<1>3. Moves(r) /\ pc'[r] = "done"
      /\ pc' \in [Requests -> Steps \cup Outcomes \cup {"idle"}]
  BY <1>1, GotoFacts DEF Outcomes
<1>4. Grows BY <1>1 DEF Grows, IsVerified
<1>5. env[r].op # "verify" /\ env[r].op # "authenticate" BY <1>2 DEF Mailing
<1>6. Control'
  <2>1. ControlOf(r)' BY <1>1, <1>2, <1>3 DEF ControlOf
  <2> QED BY <1>1, <1>3, <1>4, <2>1, ControlFrame
<1>7. AgentInv' BY <1>1, <1>2, <1>3, <1>4, <1>5, AgentFrame, StaleKept DEF history
<1>8. CASE UNCHANGED mails
  <2>1. TypeOK' BY <1>1, <1>3, <1>8 DEF TypeOK, history
  <2>2. UserInv' BY <1>1, <1>3, <1>5, <1>8, UserFrame
  <2> QED BY <1>6, <1>7, <2>1, <2>2 DEF IInv
<1>9. CASE mails' = mails \cup {[to |-> users[loc[r].user].email, token |-> r]}
  <2>1. PICK new : /\ mails' = mails \cup {new} /\ new \in Mail
                   /\ new.to = users[u].email /\ new.token = r
    <3>1. users[u].email \in Spellings \cup Veterans BY <1>1, <1>2, UserFacts
    <3>2. PICK new : new = [to |-> users[u].email, token |-> r] OBVIOUS
    <3>3. mails' = mails \cup {new} BY <1>2, <1>9, <3>2
    <3>4. new \in Mail /\ new.to = users[u].email /\ new.token = r BY <3>1, <3>2 DEF Mail, Addresses
    <3> QED BY <3>3, <3>4
  <2>2. TypeOK' BY <1>1, <1>3, <2>1 DEF TypeOK, history
  <2>3. UserInv'
    <3>1. RowsRegistered' BY <1>1, <1>3 DEF UserInv, RowsRegistered, Moves
    <3>2. UniqueEmails' BY <1>1 DEF UserInv, UniqueEmails
    <3>3. TokensTraced'
      BY <1>1, <1>3, TokenFacts DEF UserInv, TokensTraced, Mailing, Moves
    <3>4. MailsTraced'
      <4>1. ASSUME NEW mail \in mails
            PROVE  /\ pc'[mail.token] = "done" /\ Mailing(mail.token)
                   /\ loc[mail.token].user \in UserIds
                   /\ users[loc[mail.token].user] # Null
                   /\ mail.to = users[loc[mail.token].user].email
        BY <1>1, <1>3, TokenFacts DEF UserInv, MailsTraced, Moves
      <4> QED BY <1>1, <1>2, <1>3, <2>1, <4>1 DEF MailsTraced, Mailing
    <3>5. VerifiersRead' BY <1>1, <2>1 DEF UserInv, VerifiersRead
    <3>6. SpentTokensGone' BY <1>1, <1>3, <1>5 DEF UserInv, SpentTokensGone, Moves, Applied
    <3>7. TokenIsSpentOnce' BY <1>1, <1>3, <1>5 DEF UserInv, TokenIsSpentOnce, Moves, Applied
    <3>8. SessionsVerified' BY <1>1 DEF UserInv, SessionsVerified, IsVerified
    <3>9. VerifiedAddressWasMailed'
      BY <1>1, <2>1 DEF UserInv, VerifiedAddressWasMailed
    <3>10. TokenlessIsCutOff' BY <1>1, <1>3 DEF UserInv, TokenlessIsCutOff, Moves
    <3> QED BY <3>1, <3>2, <3>3, <3>4, <3>5, <3>6, <3>7, <3>8, <3>9, <3>10 DEF UserInv
  <2> QED BY <1>6, <1>7, <2>2, <2>3 DEF IInv
<1> QED BY <1>8, <1>9 DEF SendMail

\* VerifyEmail: the token names one row, whose address it was mailed to, and
\* is gone afterwards.
LEMMA VerifyEmailStep ==
  ASSUME IInv, NEW r \in Requests, VerifyEmail(r)
  PROVE  IInv'
<1> USE IdFacts
<1>1. /\ TypeOK /\ Control /\ UserInv /\ pc[r] = "verify" /\ pc[r] \in Steps
      /\ env[r] # Null /\ env[r].op = "verify"
  BY DEF IInv, VerifyEmail, Steps, Control, ControlOf
<1>2. CASE Fail(r) BY <1>1, <1>2, FailStep
<1>3. ASSUME NEW u \in UserIds, TokenMatches(u, env[r].token),
             users' = [users EXCEPT ![u] = Verified(@)],
             loc' = [loc EXCEPT ![r].user = u], Reply(r),
             UNCHANGED <<agents, mails, sessions, clock, env, history>>
      PROVE  IInv'
  <2>1. PICK t \in Requests : /\ t = env[r].token /\ t # r /\ pc[t] = "done"
                              /\ users[u] # Null /\ users[u].token = t
                              /\ loc[t].user = u
    BY <1>1, <1>3, TokenFacts DEF TokenMatches, UserInv, TokensTraced
  <2>2. /\ users'[u] \in UserRow /\ users'[u] # Null /\ users'[u].email = users[u].email
        /\ users'[u].token = Null /\ users'[u].expires = Null
        /\ users'[u].verified
        /\ \A v \in UserIds \ {u} : users'[v] = users[v]
    <3>1. users[u] \in UserRow BY <1>1, <2>1, UserFacts
    <3>2. /\ users'[u] = [users[u] EXCEPT !.verified = TRUE, !.token = Null, !.expires = Null]
          /\ \A v \in UserIds \ {u} : users'[v] = users[v]
      BY <1>1, <1>3 DEF TypeOK, Verified
    <3>3. users'[u] \in UserRow BY <3>1, <3>2 DEF UserRow
    <3>4. users'[u].email = users[u].email /\ users'[u].token = Null
          /\ users'[u].expires = Null
      BY <3>1, <3>2 DEF UserRow
    <3>5. users'[u].verified BY <3>1, <3>2 DEF UserRow
    <3> QED BY <3>2, <3>3, <3>4, <3>5, NullAssumption
  <2>3. /\ loc'[r] \in Locals /\ \A q \in Requests \ {r} : loc'[q] = loc[q]
    <3>1. loc[r] \in Locals /\ loc'[r] = [loc[r] EXCEPT !.user = u]
          /\ \A q \in Requests \ {r} : loc'[q] = loc[q]
      BY <1>1, <1>3 DEF TypeOK
    <3> QED BY <3>1 DEF Locals
  <2>4. pc'[r] \in {"done", "lost"} /\ \A q \in Requests \ {r} : pc'[q] = pc[q]
    BY <1>1, <1>3 DEF TypeOK, Reply, Goto
  <2>5. TypeOK'
    <3>1. users' \in [UserIds -> UserRow \cup {Null}] BY <1>1, <1>3, <2>2 DEF TypeOK
    <3>2. loc' \in [Requests -> Locals] BY <1>1, <1>3, <2>3 DEF TypeOK
    <3>3. pc' \in [Requests -> Steps \cup Outcomes \cup {"idle"}]
      BY <1>1, <1>3 DEF TypeOK, Reply, Goto, Outcomes
    <3>4. \A v \in UserIds : users'[v] # Null =>
             (users'[v].token = Null <=> users'[v].expires = Null)
      BY <1>1, <2>2 DEF TypeOK
    <3> QED BY <1>1, <1>3, <3>1, <3>2, <3>3, <3>4 DEF TypeOK, history
  <2>6. Moves(r) BY <1>1, <1>3, <2>3, <2>4 DEF Moves
  <2>7. Grows BY <2>2 DEF Grows, IsVerified
  <2>8. Control'
    <3>1. ControlOf(r)' BY <1>1, <1>3, <2>4 DEF ControlOf
    <3> QED BY <1>1, <2>6, <2>7, <3>1, ControlFrame
  <2>9. AgentInv' BY <1>1, <1>3, <2>6, <2>7, AgentFrame, StaleKept DEF history
  <2>10. UserInv'
    <3>1. RowsRegistered'
      BY <1>1, <1>3, <2>1, <2>2, <2>4 DEF UserInv, RowsRegistered
    <3>2. UniqueEmails' BY <1>1, <2>1, <2>2 DEF UserInv, UniqueEmails
    <3>3. TokensTraced'
      <4>1. ASSUME NEW v \in UserIds, users'[v] # Null, users'[v].token # Null
            PROVE  /\ v # u /\ users'[v] = users[v] /\ users[v].token \in Requests
                   /\ users[v].token # r
        <5>1. v # u /\ users'[v] = users[v] BY <2>2, <4>1
        <5> QED BY <1>1, <4>1, <5>1, TokenFacts DEF UserInv, TokensTraced
      <4> QED BY <1>1, <1>3, <2>3, <2>4, <4>1 DEF UserInv, TokensTraced, Mailing
    <3>4. ASSUME NEW mail \in mails
          PROVE  /\ mail.token \in Requests \ {r} /\ loc'[mail.token] = loc[mail.token]
                 /\ pc'[mail.token] = pc[mail.token]
      BY <1>1, <2>3, <2>4, TokenFacts DEF UserInv, MailsTraced
    <3>5. MailsTraced'
      BY <1>1, <1>3, <2>2, <3>4 DEF UserInv, MailsTraced, Mailing
    <3>6. VerifiersRead' BY <1>1, <1>3 DEF UserInv, VerifiersRead
    \* No other row holds t: it was drawn for u.
    <3>7. \A v \in UserIds \ {u} : users[v] # Null => users[v].token # t
      BY <1>1, <2>1, NullAssumption DEF UserInv, TokensTraced
    <3>8. SpentTokensGone'
      <4>1. ASSUME NEW q \in Requests, env[q] # Null, env[q].op = "verify",
                   pc'[q] \in {"done", "lost"}, NEW v \in UserIds, users'[v] # Null
            PROVE  users'[v].token # env[q].token
        <5>1. env[q].token \in Requests /\ env[q].token # Null
          BY <4>1, TokenFacts, NullAssumption
        <5>2. CASE v = u BY <2>2, <5>1, <5>2
        <5>3. CASE v # u /\ q = r BY <2>1, <2>2, <3>7, <4>1, <5>3
        <5>4. CASE v # u /\ q # r
          BY <1>1, <2>2, <2>4, <4>1, <5>4 DEF UserInv, SpentTokensGone, Applied
        <5> QED BY <5>2, <5>3, <5>4
      <4> QED BY <1>3, <4>1 DEF SpentTokensGone, Applied
    <3>9. TokenIsSpentOnce'
      <4>1. ASSUME NEW q \in Requests, env[q] # Null, env[q].op = "verify",
                   pc'[q] \in {"done", "lost"}, q # r
            PROVE  pc[q] \in {"done", "lost"} /\ env[q].token # t
        BY <1>1, <2>1, <2>4, <4>1 DEF UserInv, SpentTokensGone, Applied
      <4> QED BY <1>1, <1>3, <2>1, <4>1 DEF UserInv, TokenIsSpentOnce, Applied
    <3>10. SessionsVerified'
      BY <1>1, <1>3, <2>7 DEF UserInv, SessionsVerified, Grows, TypeOK, Session
    <3>11. VerifiedAddressWasMailed'
      <4>1. PICK mail \in mails : mail.token = t
        BY <1>1, <2>1 DEF UserInv, VerifiersRead
      <4>2. mail.to = users'[u].email /\ loc'[mail.token].user = u
        BY <1>1, <2>1, <2>2, <3>4, <4>1 DEF UserInv, MailsTraced
      <4>3. ASSUME NEW v \in Requests, v # u, users'[v] # Null, users'[v].verified
            PROVE  \E m \in mails : m.to = users'[v].email /\ loc'[m.token].user = v
        <5>1. users'[v] = users[v] BY <2>2, <4>3
        <5>2. PICK m \in mails : m.to = users[v].email /\ loc[m.token].user = v
          BY <1>1, <4>3, <5>1 DEF UserInv, VerifiedAddressWasMailed
        <5> QED BY <3>4, <5>1, <5>2
      <4> QED BY <1>3, <4>2, <4>3 DEF VerifiedAddressWasMailed
    <3>12. TokenlessIsCutOff'
      BY <1>1, <2>1, <2>2, <2>4 DEF UserInv, TokenlessIsCutOff
    <3> QED BY <3>1, <3>2, <3>3, <3>5, <3>6, <3>8, <3>9, <3>10, <3>11, <3>12 DEF UserInv
  <2> QED BY <2>5, <2>8, <2>9, <2>10 DEF IInv
<1> QED BY <1>2, <1>3 DEF VerifyEmail

\* LoginUser: a session is opened for a verified user.
LEMMA LoginUserStep ==
  ASSUME IInv, NEW r \in Requests, LoginUser(r)
  PROVE  IInv'
<1> USE IdFacts
<1>1. /\ TypeOK /\ Control /\ UserInv /\ pc[r] = "login" /\ pc[r] \in Steps
      /\ env[r] # Null /\ env[r].op = "login"
  BY DEF IInv, LoginUser, Steps, Control, ControlOf
<1>2. CASE Fail(r) BY <1>1, <1>2, FailStep
<1>3. ASSUME NEW u \in UsersWith(env[r].email), MayLogin(u),
             sessions' = sessions \cup {[user |-> u, expires |-> clock + SessionTTL]},
             Goto(r, "done"), UNCHANGED <<users, agents, mails, clock, env, loc, history>>
      PROVE  IInv'
  <2>1. u \in UserIds /\ IsVerified(u)
    BY <1>3 DEF UsersWith, MayLogin, IsVerified
  <2>2. PICK new : sessions' = sessions \cup {new} /\ new \in Session /\ new.user = u
    <3>1. clock + SessionTTL \in Nat BY <1>1, ConstantsAssumption DEF TypeOK
    <3>2. PICK new : new = [user |-> u, expires |-> clock + SessionTTL] OBVIOUS
    <3>3. sessions' = sessions \cup {new} BY <1>3, <3>2
    <3>4. new \in Session /\ new.user = u BY <2>1, <3>1, <3>2 DEF Session
    <3> QED BY <3>3, <3>4
  <2>3. Moves(r) /\ pc'[r] = "done"
        /\ pc' \in [Requests -> Steps \cup Outcomes \cup {"idle"}]
    BY <1>1, <1>3, GotoFacts DEF Outcomes
  <2>4. TypeOK' BY <1>1, <1>3, <2>2, <2>3 DEF TypeOK, history
  <2>5. Grows BY <1>3 DEF Grows, IsVerified
  <2>6. Control'
    <3>1. ControlOf(r)' BY <1>1, <1>3, <2>3 DEF ControlOf
    <3> QED BY <1>1, <2>3, <2>5, <3>1, ControlFrame
  <2>7. SessionsVerified'
    BY <1>1, <1>3, <2>1, <2>2 DEF UserInv, SessionsVerified, IsVerified
  <2>8. UserInv' BY <1>1, <1>3, <2>3, <2>7, UserFrame
  <2>9. AgentInv' BY <1>1, <1>3, <2>3, <2>5, AgentFrame, StaleKept DEF history
  <2> QED BY <2>4, <2>6, <2>8, <2>9 DEF IInv
<1> QED BY <1>2, <1>3 DEF LoginUser

-----------------------------------------------------------------------------
(* Theorems.                                                               *)

\* The invariant does not look at the clock.
LEMMA ClockStep ==
  ASSUME IInv, UNCHANGED <<tables, pc, env, loc, history>>, clock' \in Nat
  PROVE  IInv'
<1>1. TypeOK' BY DEF IInv, TypeOK, tables, history
<1>2. Control' BY DEF IInv, Control, ControlOf, Mailing, IsVerified, tables
<1>3. UserInv'
  BY DEF IInv, UserInv, RowsRegistered, UniqueEmails, TokensTraced, MailsTraced,
         VerifiersRead, SpentTokensGone, SessionsVerified, VerifiedAddressWasMailed,
         TokenIsSpentOnce, TokenlessIsCutOff, Mailing, IsVerified, Applied, tables
<1>4. AgentInv'
  BY DEF IInv, AgentInv, AgentOwnersAreVerified, SecretsDrawn, UniqueSecrets, RetiredGone,
         StaleChecks, StaleOf, Drawn, tables, history
<1> QED BY <1>1, <1>2, <1>3, <1>4 DEF IInv

\* One step per action.
LEMMA StepHolds == IInv /\ [Next]_vars => IInv'
<1> SUFFICES ASSUME IInv, [Next]_vars PROVE IInv' OBVIOUS
<1>1. ASSUME NEW r \in Requests, Start(r) PROVE IInv' BY <1>1, StartStep
<1>2. ASSUME NEW r \in Requests, Handle(r) PROVE IInv'
  BY <1>2, InsertUserStep, ReadUserStep, SetTokenStep, SendMailStep, VerifyEmailStep,
     LoginUserStep, InsertAgentStep, ReadAgentStep, UpdateSecretStep, FindAgentStep,
     DeleteAgentStep, ReadHashStep, CheckSecretStep
  DEF Handle
<1>3. ASSUME NEW r \in Requests, Abort(r) PROVE IInv' BY <1>3, FailStep DEF Abort
<1>4. CASE Tick
  <2>1. clock' \in Nat BY <1>4 DEF Tick, IInv, TypeOK
  <2> QED BY <1>4, <2>1, ClockStep DEF Tick
<1>5. CASE UNCHANGED vars
  <2>1. clock' \in Nat BY <1>5 DEF vars, IInv, TypeOK
  <2> QED BY <1>5, <2>1, ClockStep DEF vars, tables, history
<1> QED BY <1>1, <1>2, <1>3, <1>4, <1>5 DEF Next, Idle

\* The invariant holds in every reachable state.
THEOREM Invariance == Spec => []IInv
BY InitHolds, StepHolds, PTL DEF Spec

\* Tables, tokens and locals keep their types; a token and its expiry come and
\* go together (users, agents, SetVerificationToken, VerifyEmail).
THEOREM TypeCorrect == Spec => []TypeOK
<1>1. IInv => TypeOK BY DEF IInv
<1> QED BY <1>1, Invariance, PTL

\* However clients spell an address and however registrations interleave, it
\* has at most one account (RegisterUser).
THEOREM EmailsAreUnique == Spec => []OneAccountPerEmail
<1>1. IInv => OneAccountPerEmail
  BY IdFacts DEF IInv, UserInv, RowsRegistered, UniqueEmails, OneAccountPerEmail
<1> QED BY <1>1, Invariance, PTL

\* A verified address was mailed a token drawn for its own account
\* (SendEmail, VerifyEmail).
THEOREM VerificationWasMailed == Spec => []VerifiedAddressWasMailed
<1>1. IInv => VerifiedAddressWasMailed BY DEF IInv, UserInv
<1> QED BY <1>1, Invariance, PTL

\* A token verifies at most once, though requests with it overlap (VerifyEmail).
THEOREM TokensVerifyOnce == Spec => []TokenIsSpentOnce
<1>1. IInv => TokenIsSpentOnce BY DEF IInv, UserInv
<1> QED BY <1>1, Invariance, PTL

\* An account with nothing to verify it by is one whose registration is under
\* way or was cut off (RegisterUser).
THEOREM TokenlessExplained == Spec => []TokenlessIsCutOff
<1>1. IInv => TokenlessIsCutOff BY DEF IInv, UserInv
<1> QED BY <1>1, Invariance, PTL

\* Only verified users own agents (LoginUser, CreateAgent).
THEOREM OwnersVerified == Spec => []AgentOwnersAreVerified
<1>1. IInv => AgentOwnersAreVerified BY DEF IInv, AgentInv
<1> QED BY <1>1, Invariance, PTL

\* A secret that was replaced or deleted lets nobody in who comes with it
\* afterwards, however rotations, deletions and checks overlap (RotateSecret,
\* ValidateAPISecret).
THEOREM RotatedSecretsDie == Spec => []OldSecretStaysInvalid
<1>1. IInv => OldSecretStaysInvalid
  BY DEF IInv, AgentInv, StaleChecks, StaleOf, OldSecretStaysInvalid
<1> QED BY <1>1, Invariance, PTL

\* No step takes a verification back: a registration writes only the row it
\* creates, and a late token leaves the flag alone (SetVerificationToken).
THEOREM VerificationIsForever == Spec => VerifiedIsForever
<1> DEFINE Kept == \A u \in UserIds : users[u] # Null /\ users[u].verified =>
                      users'[u] # Null /\ users'[u].verified
<1>1. IInv /\ [Next]_vars => [Kept]_vars
  <2> SUFFICES ASSUME IInv, Next PROVE Kept BY DEF vars
  <2> USE IdFacts
  <2>1. TypeOK /\ Control /\ UserInv BY DEF IInv
  <2>2. CASE UNCHANGED users BY <2>2
  <2>3. ASSUME NEW r \in Requests, InsertUser(r), ~(UNCHANGED users) PROVE Kept
    <3>1. users[r] = Null BY <2>1, <2>3 DEF UserInv, RowsRegistered, InsertUser
    <3>2. \A u \in UserIds \ {r} : users'[u] = users[u]
      BY <2>1, <2>3 DEF InsertUser, Fail, tables, TypeOK
    <3> QED BY <3>1, <3>2
  <2>4. ASSUME NEW r \in Requests, SetToken(r) PROVE Kept
    <3>1. PICK u \in UserIds : u = loc[r].user /\ users[u] # Null
      BY <2>1, <2>4 DEF SetToken, Control, ControlOf
    <3>2. users[u] \in UserRow BY <2>1, <3>1, UserFacts
    <3>3. /\ users'[u] = [users[u] EXCEPT !.token = r, !.expires = loc[r].expires]
          /\ \A v \in UserIds \ {u} : users'[v] = users[v]
      BY <2>1, <2>4, <3>1 DEF SetToken, WithToken, TypeOK
    <3>4. users'[u].verified <=> users[u].verified BY <3>2, <3>3 DEF UserRow
    <3>5. users'[u] # Null
      <4>1. IInv' BY <2>4, SetTokenStep
      <4>2. loc'[r].user = u /\ pc'[r] = "sendMail"
        BY <2>1, <2>4, <3>1 DEF SetToken, Goto, TypeOK
      <4> QED BY <4>1, <4>2 DEF IInv, Control, ControlOf
    <3> QED BY <3>3, <3>4, <3>5
  <2>5. ASSUME NEW r \in Requests, VerifyEmail(r), ~(UNCHANGED users) PROVE Kept
    <3>1. PICK u \in UserIds : /\ users[u] # Null
                               /\ users' = [users EXCEPT ![u] = Verified(@)]
      BY <2>5 DEF VerifyEmail, TokenMatches, Fail, tables
    <3>2. users[u] \in UserRow BY <2>1, <3>1, UserFacts
    <3>3. /\ users'[u] = [users[u] EXCEPT !.verified = TRUE, !.token = Null, !.expires = Null]
          /\ \A v \in UserIds \ {u} : users'[v] = users[v]
      BY <2>1, <3>1 DEF Verified, TypeOK
    <3>4. users'[u].verified BY <3>2, <3>3 DEF UserRow
    <3>5. users'[u] \in UserRow BY <3>2, <3>3 DEF UserRow
    <3> QED BY <3>3, <3>4, <3>5, NullAssumption
  <2>6. ASSUME NEW r \in Requests, Start(r) \/ Abort(r) PROVE UNCHANGED users
    BY <2>6 DEF Start, StartRegister, StartResend, StartLogin, StartVerify, StartCreateAgent,
                StartRotate, StartDelete, StartAuthenticate, Arrive, Abort, Fail, tables
  <2>7. ASSUME NEW r \in Requests,
               ReadUser(r) \/ SendMail(r) \/ LoginUser(r) \/ InsertAgent(r) \/ ReadAgent(r)
                 \/ UpdateSecret(r) \/ FindAgent(r) \/ DeleteAgent(r)
                 \/ ReadHash(r) \/ CheckSecret(r)
        PROVE  UNCHANGED users
    BY <2>7 DEF ReadUser, SendMail, LoginUser, InsertAgent, ReadAgent, UpdateSecret,
                FindAgent, DeleteAgent, ReadHash, CheckSecret, Fail, tables
  <2>8. CASE Tick \/ Idle BY <2>2, <2>8 DEF Tick, Idle, vars, tables
  <2> QED BY <2>2, <2>3, <2>4, <2>5, <2>6, <2>7, <2>8 DEF Next, Handle
<1> QED BY <1>1, Invariance, PTL DEF Spec, VerifiedIsForever

=============================================================================
