-------------------------------- MODULE Cli ---------------------------------
(***************************************************************************)
(* The bobber command line client and the credential file its commands     *)
(* share.  A command is an operating system process: it reads the file     *)
(* once when it starts, works on that snapshot, and, if it changes the     *)
(* credentials, writes the whole snapshot back.  Nothing locks the file,   *)
(* so commands of two terminals overlap, and a process may be killed, time *)
(* out or fail at any step.                                                *)
(*                                                                         *)
(* The server is reduced to what the client sees of it: the current secret *)
(* of every agent.  A token, a secret or an agent id drawn for process p   *)
(* is called p; an agent that is there from the start has the secret of    *)
(* its own name.                                                           *)
(***************************************************************************)
EXTENDS FiniteSets

CONSTANTS
    Procs,      \* the commands that are run
    Fleet,      \* agents that exist at the start
    OldToken,   \* a token from an earlier login, known to the user
    Environments, \* what BOBBER_AGENT_ID and BOBBER_API_SECRET may hold
    Missing,    \* no file
    Blank,      \* a file of length zero
    Null        \* the empty string, an absent row

Agents  == Fleet \cup Procs
Secrets == Fleet \cup Procs
Tokens  == Procs \cup {OldToken}

VARIABLES
    file,       \* the credential file
    secrets,    \* server: agent -> its current secret, Null when there is no row
    shown,      \* the secrets that were printed for the user
    pc,         \* process -> its next step or its outcome
    cmd,        \* process -> the command line, or Null
    mem,        \* process -> its snapshot of the settings
    before      \* process -> the processes that had ended when it started

vars == <<file, secrets, shown, pc, cmd, mem, before>>

\* The settings, and whether agent_id and api_secret are keys viper knows of: keys
\* of the file or of a v.Set, which always come together.
Config == [token : Tokens \cup {Null}, agent : Agents \cup {Null},
           secret : Secrets \cup {Null}, named : BOOLEAN]

NoConfig == [token |-> Null, agent |-> Null, secret |-> Null, named |-> FALSE]

\* What is in the file, and whether bytes of a longer text follow it.
Written == [cfg : Config, torn : BOOLEAN]

Operations == {"account login", "agent create", "agent use", "agent rotate-secret",
               "agent delete", "login", "logout", "agent call", "user call"}

\* Credentials that do not come from the file: of a login what was typed, of the
\* other commands BOBBER_AGENT_ID and BOBBER_API_SECRET.
Given == [agent : Agents \cup {Null}, secret : Secrets \cup {Null}]

Nothing == [agent |-> Null, secret |-> Null]

\* A command, the agent id it is given and the credentials.
Command == [op : Operations, agent : Agents \cup {Null}, given : Given]

ASSUME CliAssumption ==
    /\ Fleet \cap Procs = {}
    /\ Environments \subseteq Given
    /\ Null \notin Fleet \cup Tokens \cup Command
    /\ Missing # Blank /\ {Missing, Blank} \cap Written = {}

Running == {"info", "request", "answered", "stat", "truncate", "create", "fill"}

Ended == {"done", "failed"}

TypeOK ==
    /\ file \in Written \cup {Missing, Blank}
    /\ secrets \in [Agents -> Secrets \cup {Null}]
    /\ shown \subseteq Secrets
    /\ pc \in [Procs -> Running \cup Ended \cup {"idle"}]
    /\ cmd \in [Procs -> Command \cup {Null}]
    /\ mem \in [Procs -> Config]
    /\ before \in [Procs -> SUBSET Procs]

\* Either nobody has logged in on this machine, or one of the agents is the
\* current identity.
Init ==
    /\ \/ file = Missing
       \/ \E a \in Fleet :
             file = [cfg |-> [token |-> OldToken, agent |-> a, secret |-> a,
                              named |-> TRUE],
                     torn |-> FALSE]
    /\ secrets = [a \in Agents |-> IF a \in Fleet THEN a ELSE Null]
    /\ shown = Fleet
    /\ pc = [p \in Procs |-> "idle"]
    /\ cmd = [p \in Procs |-> Null]
    /\ mem = [p \in Procs |-> NoConfig]
    /\ before = [p \in Procs |-> {}]

-----------------------------------------------------------------------------
(* A process starts.                                                       *)

Goto(p, step) == pc' = [pc EXCEPT ![p] = step]

\* ReadInConfig, its error ignored: a torn text may or may not parse.
Readings ==
    IF file \in {Missing, Blank} THEN {NoConfig}
    ELSE IF file.torn THEN {file.cfg, NoConfig}
    ELSE {file.cfg}

Over(value, below) == IF value = Null THEN below ELSE value

\* main: --token and AutomaticEnv.  A flag or a variable that is not empty takes
\* precedence over its key in the file, key by key.
Settings(cfg, token, given) ==
    [cfg EXCEPT !.token  = Over(token, @),
                !.agent  = Over(given.agent, @),
                !.secret = Over(given.secret, @)]

\* Mutant: only the secret is replaced.
WithIdentitySecretOnly(cfg, agent, secret) ==
    [cfg EXCEPT !.secret = secret, !.named = TRUE]

\* agent use and login: v.Set of both keys, which outranks the environment.
WithIdentity(cfg, agent, secret) ==
    [cfg EXCEPT !.agent = agent, !.secret = secret, !.named = TRUE]

\* Mutant: the new token goes into an empty configuration.
WithTokenAlone(cfg, token) == [NoConfig EXCEPT !.token = token]

WithToken(cfg, token) == [cfg EXCEPT !.token = token]

\* Mutant: only the agent's credentials are cleared.
ClearedKeepsToken(cfg) ==
    [cfg EXCEPT !.agent = Null, !.secret = Null, !.named = TRUE]

\* clearAgentCreds: the user's token goes too.
Cleared(cfg) ==
    [cfg EXCEPT !.agent = Null, !.secret = Null, !.token = Null, !.named = TRUE]

\* AllSettings: the effective value of every key viper knows of, the values that
\* came from the environment too.
Persisted(cfg) ==
    IF cfg.named THEN cfg ELSE [cfg EXCEPT !.agent = Null, !.secret = Null]

\* The agent a secret was drawn for.
IssuedFor(s) ==
    IF s \in Fleet THEN s ELSE IF cmd[s].op = "agent create" THEN s ELSE cmd[s].agent

\* Process p runs op, beginning at step with settings cfg.
Start(p, op, agent, given, step, cfg) ==
    /\ pc[p] = "idle"
    /\ cmd' = [cmd EXCEPT ![p] = [op |-> op, agent |-> agent, given |-> given]]
    /\ mem' = [mem EXCEPT ![p] = IF step \in Ended THEN NoConfig ELSE cfg]
    /\ before' = [before EXCEPT ![p] = {q \in Procs : pc[q] \in Ended}]
    /\ Goto(p, step)
    /\ UNCHANGED <<file, secrets, shown>>

\* account login sends a password and no credentials.
StartAccountLogin(p, cfg, given) ==
    Start(p, "account login", Null, given, "request", cfg)

\* The commands that act for the user give up without a token.
TokenGuard(cfg, step) == IF cfg.token = Null THEN "failed" ELSE step

StartAgentUse(p, cfg, a) ==
    Start(p, "agent use", a, Nothing, TokenGuard(cfg, "info"), cfg)

\* These need no setting but the token, and save none.
StartAsUser(p, cfg, op, agent) ==
    Start(p, op, agent, Nothing, TokenGuard(cfg, "request"), NoConfig)

StartAgentCreate(p, cfg) == StartAsUser(p, cfg, "agent create", Null)

StartAgentRotateSecret(p, cfg, a) == StartAsUser(p, cfg, "agent rotate-secret", a)

StartAgentDelete(p, cfg, a) == StartAsUser(p, cfg, "agent delete", a)

\* ls, info, poll, group create and group leave.
StartUserCall(p, cfg) == StartAsUser(p, cfg, "user call", Null)

\* whoami, connect, inbox, accept, reject, blacklist, send and group invite.
StartAgentCall(p, cfg, given) ==
    Start(p, "agent call", Null, given,
          IF cfg.agent = Null \/ cfg.secret = Null THEN "failed" ELSE "request", cfg)

\* login: no request, and nobody checks that the id and the secret that are typed
\* belong together.
StartLogin(p, cfg, a, s) ==
    Start(p, "login", Null, [agent |-> a, secret |-> s], "stat", WithIdentity(cfg, a, s))

StartLogout(p, cfg) == Start(p, "logout", Null, Nothing, "stat", Cleared(cfg))

\* The ids a user can name.
KnownAgents == {IssuedFor(s) : s \in shown}

\* A value from outside the file is chosen where it makes a difference: a command
\* that neither reads a key nor saves it, or sets it before, runs the same without.
Launch(p) ==
    \E read \in Readings, token \in {Null, OldToken} :
        LET cfg == Settings(read, token, Nothing)
        IN  \/ \E given \in Environments :
                  \/ StartAccountLogin(p, Settings(read, Null, given), given)
                  \/ StartAgentCall(p, Settings(read, Null, given), given)
            \/ StartAgentCreate(p, cfg)
            \/ StartUserCall(p, cfg)
            \/ StartLogout(p, cfg)
            \/ \E a \in KnownAgents, s \in shown : StartLogin(p, cfg, a, s)
            \/ \E a \in KnownAgents :
                  \/ StartAgentUse(p, cfg, a)
                  \/ StartAgentRotateSecret(p, cfg, a)
                  \/ StartAgentDelete(p, cfg, a)

-----------------------------------------------------------------------------
(* Requests.  The server's part of a request is one step here; its         *)
(* statements interleave in Accounts.                                      *)

\* The process ends; its memory is gone.
Exit(p, outcome) == Goto(p, outcome) /\ mem' = [mem EXCEPT ![p] = NoConfig]

AgentKnown(a) == secrets[a] # Null

\* agent use: GET /v1/info/{id}.
AskInfo(p) ==
    /\ pc[p] = "info"
    /\ AgentKnown(cmd[p].agent)
    /\ Goto(p, "request")
    /\ UNCHANGED <<file, secrets, shown, cmd, mem, before>>

\* authenticate: the secret headers of doJSONAgent.
Accepts(cfg) == AgentKnown(cfg.agent) /\ secrets[cfg.agent] = cfg.secret

\* The server applies the request and answers.
Request(p) ==
    /\ pc[p] = "request"
    /\ \/ /\ cmd[p].op \in {"account login", "user call"}
          /\ UNCHANGED secrets
       \/ /\ cmd[p].op = "agent call"
          /\ Accepts(mem[p])
          /\ UNCHANGED secrets
       \/ /\ cmd[p].op = "agent create"
          /\ secrets' = [secrets EXCEPT ![p] = p]
       \/ /\ cmd[p].op \in {"agent use", "agent rotate-secret"}
          /\ AgentKnown(cmd[p].agent)
          /\ secrets' = [secrets EXCEPT ![cmd[p].agent] = p]
       \/ /\ cmd[p].op = "agent delete"
          /\ AgentKnown(cmd[p].agent)
          /\ secrets' = [secrets EXCEPT ![cmd[p].agent] = Null]
    /\ Goto(p, "answered")
    /\ UNCHANGED <<file, shown, cmd, mem, before>>

\* The answer is read: printed, or put into the settings to be saved.
Receive(p) ==
    /\ pc[p] = "answered"
    /\ \/ /\ cmd[p].op = "account login"
          /\ mem' = [mem EXCEPT ![p] = WithToken(@, p)]
          /\ Goto(p, "stat")
          /\ UNCHANGED shown
       \/ /\ cmd[p].op = "agent use"
          /\ mem' = [mem EXCEPT ![p] = WithIdentity(@, cmd[p].agent, p)]
          /\ Goto(p, "stat")
          /\ UNCHANGED shown
       \/ /\ cmd[p].op \in {"agent create", "agent rotate-secret"}
          /\ shown' = shown \cup {p}
          /\ Exit(p, "done")
       \/ /\ cmd[p].op \in {"agent delete", "user call", "agent call"}
          /\ Exit(p, "done")
          /\ UNCHANGED shown
    /\ UNCHANGED <<file, secrets, cmd, before>>

-----------------------------------------------------------------------------
(* saveConfig.                                                             *)

Stat(p) ==
    /\ pc[p] = "stat"
    /\ Goto(p, IF file = Missing THEN "create" ELSE "truncate")
    /\ UNCHANGED <<file, secrets, shown, cmd, mem, before>>

\* WriteConfig opens the file with O_TRUNC ...
Truncate(p) ==
    /\ pc[p] = "truncate"
    /\ file' = Blank
    /\ Goto(p, "fill")
    /\ UNCHANGED <<secrets, shown, cmd, mem, before>>

\* ... SafeWriteConfigAs with O_EXCL, which refuses a file that has appeared.
Create(p) ==
    /\ pc[p] = "create"
    /\ file = Missing
    /\ file' = Blank
    /\ Goto(p, "fill")
    /\ UNCHANGED <<secrets, shown, cmd, mem, before>>

\* One write at offset 0.  If another process has written since this one opened
\* the file, the rest of a longer text stays behind.
Fill(p) ==
    /\ pc[p] = "fill"
    /\ \E torn \in BOOLEAN :
          /\ file = Blank => ~torn
          /\ file # Blank /\ file.cfg = Persisted(mem[p]) => torn = file.torn
          /\ file' = [cfg |-> Persisted(mem[p]), torn |-> torn]
    /\ Exit(p, "done")
    /\ UNCHANGED <<secrets, shown, cmd, before>>

-----------------------------------------------------------------------------

\* The process is killed, the server refuses, no answer comes within 15 seconds,
\* or the file system fails: what was done stays.
Stop(p) ==
    /\ pc[p] \in Running
    /\ Exit(p, "failed")
    /\ UNCHANGED <<file, secrets, shown, cmd, before>>

Step(p) ==
    \/ AskInfo(p) \/ Request(p) \/ Receive(p)
    \/ Stat(p) \/ Truncate(p) \/ Create(p) \/ Fill(p)

\* The user need not run another command.
Idle == (\A p \in Procs : pc[p] \notin Running) /\ UNCHANGED vars

Next == (\E p \in Procs : Launch(p) \/ Step(p) \/ Stop(p)) \/ Idle

Spec == Init /\ [][Next]_vars

-----------------------------------------------------------------------------
(* Correctness properties.                                                 *)

Content == IF file \in {Missing, Blank} THEN NoConfig ELSE file.cfg

Started(p) == pc[p] # "idle"

\* The commands whose purpose is to change the identity in the file.
Replaces(p) == cmd[p].op \in {"agent use", "login", "logout"}

Saves(p) == Replaces(p) \/ cmd[p].op = "account login"

Overlap(p, q) ==
    p # q /\ Started(p) /\ Started(q) /\ p \notin before[q] /\ q \notin before[p]

\* What is given sets a half of cfg's pair or both.
Covers(given, cfg) ==
    /\ given # Nothing
    /\ given.agent \in {Null, cfg.agent}
    /\ given.secret \in {Null, cfg.secret}

GaveHalf(p, cfg) == Covers(cmd[p].given, cfg)

\* The secret of cfg was drawn for its agent, or a command was given one of the
\* two, or both as they are.
PairExplained(cfg) ==
    cfg.secret # Null /\ cfg.agent # IssuedFor(cfg.secret) =>
        \E p \in Procs : Started(p) /\ GaveHalf(p, cfg)

\* Whichever saves overlap, tear or die, if the file names an agent together with
\* another agent's secret, or a process presents such a pair, then that agent or
\* that secret stood in the environment of some command, or a user typed the pair
\* (saveConfig writes one process's whole snapshot, agent use and login set both
\* keys; AutomaticEnv replaces one and AllSettings saves it).
PairConsistent == PairExplained(Content) /\ \A p \in Procs : PairExplained(mem[p])

\* agent use replaces an agent's secret and keeps the only copy in the file.
\* The current secret of an agent is lost (neither printed nor in the file) only
\* if the command that drew it is still running or has failed, or, after its
\* success, another command replaced the identity on purpose, saved a secret of
\* its environment, was stopped half way, or overlapped with some other command
\* that saves.
LockOutExplained ==
    \A a \in Agents :
        LET s == secrets[a]
        IN  s \notin shown \cup {Null, Content.secret} =>
              \/ pc[s] # "done"
              \/ \E q \in Procs \ {s} :
                    /\ Started(q) /\ Saves(q) /\ q \notin before[s]
                    /\ \/ Replaces(q)
                       \/ cmd[q].given.secret # Null
                       \/ pc[q] # "done"
                       \/ \E w \in Procs : Overlap(q, w) /\ Saves(w)

\* After a logout the file names no agent, unless a command that overlapped with
\* the logout wrote its old snapshot back, or an agent use or a login came later,
\* or a command that saved the agent id of its environment; and it holds no token,
\* unless some command saved after the logout read the file (clearAgentCreds,
\* saveConfig).
LogoutHolds ==
    \A p \in Procs : Started(p) /\ cmd[p].op = "logout" /\ pc[p] = "done" =>
        LET savers == {q \in Procs \ {p} : Started(q) /\ Saves(q) /\ q \notin before[p]}
        IN  /\ Content.agent # Null =>
                  \E q \in savers :
                      \/ Overlap(p, q)
                      \/ cmd[q].op \in {"agent use", "login"}
                      \/ cmd[q].given.agent # Null
            /\ Content.token # Null => savers # {}
=============================================================================
