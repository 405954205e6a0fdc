----------------------------- MODULE Connections -----------------------------
(***************************************************************************)
(* Connection requests and the blacklist: the tables connection_requests   *)
(* and blacklist_entries, the handlers under /v1/connections and           *)
(* /v1/blacklist, and the deletion of agents, which cascades to the        *)
(* requests they sent.  Every statement is one action; handlers interleave *)
(* and may die between two statements, and the reply of a statement that   *)
(* has run may be lost.                                                    *)
(*                                                                         *)
(* The row inserted by HTTP request r is called r.                         *)
(***************************************************************************)
EXTENDS FiniteSets

CONSTANTS
    Requests,       \* HTTP requests; each one runs one handler once
    AgentIds,       \* agents that exist when the behaviour starts
    GroupIds,       \* rows of chat_groups (never deleted)
    UserIds,        \* rows of users (never deleted)
    Handlers,       \* the handlers that the clients call in this instance
    Parties,        \* the <<from_id, from_kind>> that bodies of connect name
    Aborts,         \* may a request die, or the reply of a statement get lost?
    Null

EntityIds == AgentIds \cup GroupIds \cup UserIds

\* The values of the enum entity_type; a body may name any other word.
Kinds == {"agent", "group", "user"}

ASSUME IdsAssumption ==
    /\ AgentIds \cap GroupIds = {}
    /\ AgentIds \cap UserIds = {}
    /\ GroupIds \cap UserIds = {}
    /\ Parties \subseteq EntityIds \X (Kinds \cup {"other"})
    /\ Aborts \in BOOLEAN

VARIABLES
    agents,         \* agents: the ids of the rows present
    connections,    \* connection_requests: id -> row, or Null
    blacklist,      \* blacklist_entries: the set of rows
    pc,             \* request -> the next statement of its handler
    env,            \* request -> caller and arguments, or Null
    toKind,         \* request -> the kind of the target, once looked up
    before          \* history: request -> who had ended when its entry was inserted

tables == <<agents, connections, blacklist>>
vars   == <<agents, connections, blacklist, pc, env, toKind, before>>

Statuses == {"PENDING", "ACCEPTED", "REJECTED"}

ConnectionRow ==
    [sender : AgentIds, from : EntityIds, fromKind : Kinds,
     to : EntityIds, toKind : Kinds, status : Statuses]

BlacklistRow ==
    [id : Requests, from : EntityIds, fromKind : Kinds,
     to : EntityIds, toKind : Kinds]

Operations == {"connect", "accept", "reject", "block", "unblock", "deleteAgent"}

\* caller is the authenticated party, from the party it speaks for.
Call == [op : Operations, caller : EntityIds, from : EntityIds,
         fromKind : Kinds \cup {"other"}, to : EntityIds \cup {Null}, conn : Requests \cup {Null}]

Steps == {"lookup", "insertRequest", "updateStatus", "insertEntry",
          "deleteEntry", "deleteAgent"}

\* How a request ends: answered with success or with an error, or "lost": its
\* last statement has run, but its caller is told of an error or of nothing.
Outcomes == {"done", "failed", "lost"}

ASSUME NullAssumption ==
    /\ Null \notin ConnectionRow
    /\ Null \notin Call
    /\ Null \notin Requests \cup EntityIds \cup Kinds

TypeOK ==
    /\ agents \subseteq AgentIds
    /\ connections \in [Requests -> ConnectionRow \cup {Null}]
    /\ blacklist \subseteq BlacklistRow
    /\ pc \in [Requests -> Steps \cup Outcomes \cup {"idle"}]
    /\ env \in [Requests -> Call \cup {Null}]
    /\ toKind \in [Requests -> Kinds \cup {Null}]
    /\ before \in [Requests -> SUBSET Requests]

Init ==
    /\ agents = AgentIds
    /\ connections = [q \in Requests |-> Null]
    /\ blacklist = {}
    /\ pc = [r \in Requests |-> "idle"]
    /\ env = [r \in Requests |-> Null]
    /\ toKind = [r \in Requests |-> Null]
    /\ before = [r \in Requests |-> {}]

-----------------------------------------------------------------------------
(* Requests arrive, from a caller that has just been authenticated.        *)

Goto(r, step) == pc' = [pc EXCEPT ![r] = step]

\* The last statement of a handler has run: the caller learns of it, or the
\* connection, the request's context or the server goes away before the reply.
Reply(r) == Goto(r, "done") \/ (Aborts /\ Goto(r, "lost"))

Arrive(r, step, op, caller, from, fromKind, to, conn) ==
    /\ pc[r] = "idle"
    /\ op \in Handlers
    /\ Goto(r, step)
    /\ env' = [env EXCEPT ![r] = [op |-> op, caller |-> caller, from |-> from,
                                  fromKind |-> fromKind, to |-> to, conn |-> conn]]
    /\ UNCHANGED <<tables, toKind, before>>

\* handleConnectionRequest: from_id and from_kind of the body, when both are
\* given, replace the agent, whatever id and kind they name.
StartConnect(r, a, to) ==
    \E party \in Parties \cup {<<a, "agent">>} :
        Arrive(r, "lookup", "connect", a, party[1], party[2], to, Null)

StartAnswer(r, op, a, q) == Arrive(r, "updateStatus", op, a, a, "agent", Null, q)

\* handleBlacklist and handleUnblacklist: an agent, else a user.
StartBlacklist(r, op, caller, to) ==
    Arrive(r, "lookup", op, caller, caller,
           IF caller \in AgentIds THEN "agent" ELSE "user", to, Null)

\* handleDeleteAgent up to registrySvc.GetAgent.
StartDelete(r, u, a) ==
    /\ a \in agents
    /\ Arrive(r, "deleteAgent", "deleteAgent", u, u, "user", a, Null)

Start(r) ==
    \/ \E a \in agents, to \in EntityIds : StartConnect(r, a, to)
    \/ \E op \in {"accept", "reject"}, a \in agents, q \in Requests :
          StartAnswer(r, op, a, q)
    \/ \E op \in {"block", "unblock"}, caller \in agents \cup UserIds, to \in EntityIds :
          StartBlacklist(r, op, caller, to)
    \/ \E u \in UserIds, a \in AgentIds : StartDelete(r, u, a)

-----------------------------------------------------------------------------
(* The statements.                                                         *)

AfterLookup(r) ==
    CASE env[r].op = "connect" -> "insertRequest"
      [] env[r].op = "block"   -> "insertEntry"
      [] env[r].op = "unblock" -> "deleteEntry"

KindOf(id) ==
    IF id \in AgentIds THEN "agent" ELSE IF id \in GroupIds THEN "group" ELSE "user"

\* The target is looked for among agents, groups and users, in this order; no
\* hit is 404.  Groups and users stay, so the SELECT on agents decides.
LookupTarget(r) ==
    /\ pc[r] = "lookup"
    /\ \/ /\ env[r].to \in agents \cup GroupIds \cup UserIds
          /\ toKind' = [toKind EXCEPT ![r] = KindOf(env[r].to)]
          /\ Goto(r, AfterLookup(r))
       \/ /\ env[r].to \notin agents \cup GroupIds \cup UserIds
          /\ Goto(r, "failed")
          /\ UNCHANGED toKind
    /\ UNCHANGED <<tables, env, before>>

\* The columns of the two unique indexes: from_id, from_kind, to_id, to_kind.
Connects(row, from, fromKind, to, kind) ==
    /\ row.from = from /\ row.fromKind = fromKind
    /\ row.to = to /\ row.toKind = kind

\* Mutant: connection_requests_from_to_unique covers pending rows only.
PairTakenPending(r) ==
    \E q \in Requests :
        /\ connections[q] # Null
        /\ connections[q].status = "PENDING"
        /\ Connects(connections[q], env[r].from, env[r].fromKind, env[r].to, toKind[r])

\* connection_requests_from_to_unique.
PairTaken(r) ==
    \E q \in Requests :
        /\ connections[q] # Null
        /\ Connects(connections[q], env[r].from, env[r].fromKind, env[r].to, toKind[r])

\* Mutant: connection_requests_sender_id_fkey is missing.
SenderKnownUnchecked(r) == TRUE

\* connection_requests_sender_id_fkey, on insert.
SenderKnown(r) == env[r].caller \in agents

\* ConnectionRequests.Create; a broken constraint or a kind that entity_type
\* does not have is an error.
InsertRequest(r) ==
    /\ pc[r] = "insertRequest"
    /\ \/ /\ SenderKnown(r) /\ ~PairTaken(r) /\ env[r].fromKind \in Kinds
          /\ connections' = [connections EXCEPT ![r] =
               [sender |-> env[r].caller, from |-> env[r].from,
                fromKind |-> env[r].fromKind, to |-> env[r].to,
                toKind |-> toKind[r], status |-> "PENDING"]]
          /\ Reply(r)
       \/ /\ ~SenderKnown(r) \/ PairTaken(r) \/ env[r].fromKind \notin Kinds
          /\ Goto(r, "failed")
          /\ UNCHANGED connections
    /\ UNCHANGED <<agents, blacklist, env, toKind, before>>

\* Mutant: a reject is recorded as pending.
AnswerReopened(r) == IF env[r].op = "accept" THEN "ACCEPTED" ELSE "PENDING"

Answer(r) == IF env[r].op = "accept" THEN "ACCEPTED" ELSE "REJECTED"

\* ConnectionRequests.UpdateStatus: whatever the status was; no row, no
\* success.
UpdateStatus(r) ==
    /\ pc[r] = "updateStatus"
    /\ \/ /\ connections[env[r].conn] # Null
          /\ connections' = [connections EXCEPT ![env[r].conn].status = Answer(r)]
          /\ Reply(r)
       \/ /\ connections[env[r].conn] = Null
          /\ Goto(r, "failed")
          /\ UNCHANGED connections
    /\ UNCHANGED <<agents, blacklist, env, toKind, before>>

\* The entries an unblock is about.
Listed(r) ==
    {e \in blacklist :
        Connects(e, env[r].from, env[r].fromKind, env[r].to, toKind[r])}

\* Blacklist.Create, under blacklist_entries_from_to_unique.
InsertEntry(r) ==
    /\ pc[r] = "insertEntry"
    /\ \/ /\ Listed(r) = {}
          /\ blacklist' = blacklist \cup
               {[id |-> r, from |-> env[r].from, fromKind |-> env[r].fromKind,
                 to |-> env[r].to, toKind |-> toKind[r]]}
          /\ before' = [before EXCEPT ![r] = {p \in Requests : pc[p] \in Outcomes}]
          /\ Reply(r)
       \/ /\ Listed(r) # {}
          /\ Goto(r, "failed")
          /\ UNCHANGED <<blacklist, before>>
    /\ UNCHANGED <<agents, connections, env, toKind>>

\* Mutant: the DELETE forgets the target.
DeleteAllEntries(r) ==
    /\ pc[r] = "deleteEntry"
    /\ blacklist' = {e \in blacklist : e.from # env[r].from}
    /\ Reply(r)
    /\ UNCHANGED <<agents, connections, env, toKind, before>>

\* Mutant: the DELETE takes every target for an agent.
DeleteAgentEntry(r) ==
    /\ pc[r] = "deleteEntry"
    /\ blacklist' = {e \in blacklist :
         ~Connects(e, env[r].from, env[r].fromKind, env[r].to, "agent")}
    /\ Reply(r)
    /\ UNCHANGED <<agents, connections, env, toKind, before>>

\* Blacklist.Delete does not ask whether there was a row.
DeleteEntry(r) ==
    /\ pc[r] = "deleteEntry"
    /\ blacklist' = blacklist \ Listed(r)
    /\ Reply(r)
    /\ UNCHANGED <<agents, connections, env, toKind, before>>

\* Deregister: DELETE FROM agents, with ON DELETE CASCADE on sender_id.
DeleteAgent(r) ==
    /\ pc[r] = "deleteAgent"
    /\ IF env[r].to \in agents THEN Reply(r) ELSE Goto(r, "failed")
    /\ agents' = agents \ {env[r].to}
    /\ connections' = [q \in Requests |->
         IF connections[q] # Null /\ connections[q].sender = env[r].to
         THEN Null ELSE connections[q]]
    /\ UNCHANGED <<blacklist, env, toKind, before>>

-----------------------------------------------------------------------------
(* What callers are shown; one SELECT each.                                *)

\* GetPendingByTarget: the requests in a party's inbox.
GetPendingByTarget(to, kind) ==
    {q \in Requests : /\ connections[q] # Null
                      /\ connections[q].to = to
                      /\ connections[q].toKind = kind
                      /\ connections[q].status = "PENDING"}

\* Blacklist.ListByEntity: whom a party has on its list.
ListByEntity(from, kind) ==
    {e.to : e \in {f \in blacklist : f.from = from /\ f.fromKind = kind}}

-----------------------------------------------------------------------------

\* The client goes away, a statement fails or the server dies, before the next
\* statement has any effect; Reply covers the same after it had its effect.
\* What the handler looked up is gone with it.
Abort(r) ==
    /\ Aborts
    /\ pc[r] \in Steps
    /\ Goto(r, "failed")
    /\ toKind' = [toKind EXCEPT ![r] = Null]
    /\ UNCHANGED <<tables, env, before>>

Proceed(r) ==
    \/ LookupTarget(r) \/ InsertRequest(r) \/ UpdateStatus(r)
    \/ InsertEntry(r) \/ DeleteEntry(r) \/ DeleteAgent(r)

\* The server waits for clients; nothing forces one to call.
Idle == (\A r \in Requests : pc[r] \notin Steps) /\ UNCHANGED vars

Next ==
    \/ \E r \in Requests : Start(r) \/ Proceed(r) \/ Abort(r)
    \/ Idle

Spec == Init /\ [][Next]_vars

-----------------------------------------------------------------------------
(* Correctness properties.                                                 *)

\* The last statement of request r, one of ops, has run, whether or not its
\* caller was told.
Applied(r, ops) ==
    env[r] # Null /\ env[r].op \in ops /\ pc[r] \in {"done", "lost"}

\* A stored request stays in its target's inbox as long as no accept and no
\* reject of it has run, and then has the status that one of them gave it, told
\* to its caller or lost on the way, however many answer at the same time; an
\* answer that was refused never shows (UpdateStatus, GetPendingByTarget).
StatusIsAnAnswer ==
    \A q \in Requests : connections[q] # Null =>
        LET answers == {r \in Requests :
                          Applied(r, {"accept", "reject"}) /\ env[r].conn = q}
            row     == connections[q]
        IN  IF answers = {} THEN q \in GetPendingByTarget(row.to, row.toKind)
            ELSE \E r \in answers :
                    row.status = IF env[r].op = "accept" THEN "ACCEPTED" ELSE "REJECTED"

\* A request that was inserted, acknowledged or not, is stored exactly as long
\* as the agent that sent it exists: no answer, no other request and no other
\* deletion removes it, and none outlives its sender although the insert comes
\* after the authentication (sender_id ON DELETE CASCADE).
RequestFollowsSender ==
    \A r \in Requests : Applied(r, {"connect"}) =>
        (connections[r] # Null <=> env[r].caller \in agents)

\* Between two parties there is at most one request in each direction, and one
\* that was answered is not replaced by a pending one: asking again after a
\* rejection is refused (connection_requests_from_to_unique, UpdateStatus).
AnsweredIsNotAskedAgain ==
    [][\A p, q \in Requests :
          /\ connections[p] # Null /\ connections[p].status # "PENDING"
          /\ connections'[q] # Null /\ connections'[q].status = "PENDING"
          => ~Connects(connections'[q], connections[p].from, connections[p].fromKind,
                       connections[p].to, connections[p].toKind)]_vars

\* A blacklisting stays in force until a DELETE of the same party for the same
\* target has run, after it: one that ended before the entry was inserted, a
\* removal that was refused, another party's or another target's removal and
\* the deletion of an agent do not take it away (Blacklist.Delete).
BlockHolds ==
    \A r \in Requests : Applied(r, {"block"}) =>
        \/ env[r].to \in ListByEntity(env[r].from, env[r].fromKind)
        \/ \E s \in Requests \ before[r] : /\ Applied(s, {"unblock"})
                                           /\ env[s].from = env[r].from
                                           /\ env[s].to = env[r].to

\* When the DELETE of an unblock has run, told or not, its target is off the
\* caller's list, under whatever kind it was listed: the kind looked up now is the
\* kind looked up when the entry was made (handleBlacklist, handleUnblacklist).
UnblockIsEffective ==
    [][\A r \in Requests :
          pc[r] = "deleteEntry" /\ pc'[r] \in {"done", "lost"} =>
              env[r].to \notin ListByEntity(env[r].from, env[r].fromKind)']_vars

-----------------------------------------------------------------------------
(* The inductive invariant from which ConnectionsProofs derives them.      *)

\* What request r carries from one statement to the next.
ControlOf(r) ==
    /\ pc[r] = "idle" <=> env[r] = Null
    /\ env[r] # Null /\ env[r].op # "connect" => env[r].fromKind \in Kinds
    /\ pc[r] = "lookup" =>
          env[r].op \in {"connect", "block", "unblock"} /\ env[r].to \in EntityIds
    /\ pc[r] \in {"insertRequest", "insertEntry", "deleteEntry"} =>
          env[r].to \in EntityIds /\ toKind[r] = KindOf(env[r].to)
    /\ pc[r] = "insertRequest" => env[r].op = "connect"
    /\ pc[r] = "insertEntry" => env[r].op = "block"
    /\ pc[r] = "deleteEntry" => env[r].op = "unblock"
    /\ pc[r] = "updateStatus" =>
          env[r].op \in {"accept", "reject"} /\ env[r].conn \in Requests
    /\ pc[r] = "deleteAgent" => env[r].op = "deleteAgent"

Control == \A r \in Requests : ControlOf(r)

\* A row was inserted by its request, and its sender exists.
RowsHaveSenders ==
    \A q \in Requests : connections[q] # Null =>
        /\ Applied(q, {"connect"})
        /\ connections[q].sender = env[q].caller
        /\ env[q].caller \in agents

\* Only a row that was there can have been answered.
AnswersFollowRows ==
    \A r \in Requests : Applied(r, {"accept", "reject"}) =>
        env[r].conn \in Requests /\ Applied(env[r].conn, {"connect"})

\* connection_requests_from_to_unique, as a fact about the table.
UniquePairs ==
    \A p, q \in Requests :
        /\ connections[p] # Null /\ connections[q] # Null
        /\ Connects(connections[p], connections[q].from, connections[q].fromKind,
                    connections[q].to, connections[q].toKind)
        => p = q

\* An id has one kind for ever, so the lookups of block and unblock agree.
KindsAgree == \A e \in blacklist : e.toKind = KindOf(e.to)

\* Only requests that had ended came before an entry.
BeforeEnded ==
    \A r \in Requests : \A p \in before[r] : pc[p] \in Outcomes

IInv ==
    /\ TypeOK /\ Control /\ BeforeEnded /\ RowsHaveSenders /\ AnswersFollowRows
    /\ UniquePairs /\ KindsAgree /\ RequestFollowsSender /\ StatusIsAnAnswer /\ BlockHolds
=============================================================================
