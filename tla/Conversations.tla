---------------------------- MODULE Conversations ----------------------------
(***************************************************************************)
(* The messaging core of bobberd: the tables conversations,               *)
(* conversation_participants, chat_groups, messages and agents, and the    *)
(* HTTP handlers that write them.  Every handler is a goroutine that       *)
(* issues one SQL statement after another without an enclosing             *)
(* transaction (the message insert is the only transaction), so each       *)
(* statement is an action of its own and handlers interleave freely.       *)
(*                                                                         *)
(* Identifiers are UUIDs; only their order and their equality matter, so   *)
(* they are natural numbers.  A request draws at most one message UUID,    *)
(* so the message written by request r is called r.                        *)
(***************************************************************************)
EXTENDS Naturals, FiniteSets

CONSTANTS
    Requests,       \* HTTP requests; each one runs one handler once
    UserIds,        \* registered users (rows of users are never deleted)
    AgentIds,       \* agents that exist when the behaviour starts
    StrangerIds,    \* well-formed UUIDs that name nothing
    GroupIds,       \* UUIDs available to chat_groups
    ConvIds,        \* UUIDs available to conversations
    GroupNames,     \* names a client may ask for
    Handlers,       \* the handlers that the clients call in this instance
    Aborts,         \* may a request die between two statements, or a reply be lost?
    QueryFaults,    \* may a single SELECT fail while the request lives on?
    TicksPerSecond, \* clock ticks per second: timestamps are cut to seconds
    MaxClock,       \* bound on the clock
    Null            \* SQL NULL, a missing row, an unset local variable

PartyIds == UserIds \cup AgentIds \cup StrangerIds \cup GroupIds \cup ConvIds

Kinds == {"user", "agent"}

ASSUME IdsAssumption ==
    /\ PartyIds \subseteq Nat
    /\ UserIds \cap AgentIds = {}
    /\ ConvIds \cap (UserIds \cup AgentIds \cup StrangerIds \cup GroupIds) = {}
    /\ GroupIds \cap (UserIds \cup AgentIds \cup StrangerIds) = {}

ASSUME ClockAssumption ==
    /\ TicksPerSecond \in Nat \ {0}
    /\ MaxClock \in Nat
    /\ Aborts \in BOOLEAN
    /\ QueryFaults \in BOOLEAN

VARIABLES
    agents,         \* agents: the ids of the rows present
    conversations,  \* conversations: id -> row, or Null
    participants,   \* conversation_participants: the set of rows
    groups,         \* chat_groups: id -> row, or Null
    messages,       \* messages: id (the request that wrote it) -> row, or Null
    clock,          \* the wall clock, in ticks
    pc,             \* request -> the next statement of its handler
    env,            \* request -> what the handler was called with, or Null
    loc             \* request -> the handler's local variables

tables == <<agents, conversations, participants, groups, messages>>
vars   == <<agents, conversations, participants, groups, messages,
            clock, pc, env, loc>>

-----------------------------------------------------------------------------
(* Rows and local state.                                                   *)

ConvRow ==
    [type : {"direct", "group"}, low : PartyIds \cup {Null},
     high : PartyIds \cup {Null}, group : GroupIds \cup {Null},
     lastMsg : Requests \cup {Null}, lastAt : Nat]

ParticipantRow ==
    [conv : ConvIds, id : PartyIds, kind : Kinds, joined : Nat]

GroupRow == [name : GroupNames, owner : UserIds, conv : ConvIds]

MessageRow == [from : PartyIds, kind : Kinds, conv : ConvIds, ts : Nat]

Steps == {"idle", "fromKind", "toGroup", "toKind", "infoLookup", "find",
          "create", "addLow", "addHigh", "save", "newConv", "newGroup",
          "link", "addOwner", "remove", "delete", "done", "failed", "lost"}

\* How a request ends: with success, with an error, or "lost": its last
\* statement has committed, but its caller is told of an error or of nothing.
Finished == {"done", "failed", "lost"}

Operations == {"send", "replay", "info", "createGroup", "leave", "deleteAgent"}

Call == [op : Operations, from : PartyIds, kind : Kinds,
         to : PartyIds \cup {Null}, name : GroupNames \cup {Null},
         orig : Requests \cup {Null}, ts : Nat]

\* The SELECTs of defaultPersistMessage whose failure has consequences.
Lookups == {"fromKind", "toGroup", "toKind", "find"}

\* made and missed are remembered for the properties only: whether the request
\* inserted the conversation, and which rows its SELECTs failed to see.
Locals == [fromKind : Kinds \cup {Null}, toKind : Kinds \cup {Null},
           conv : ConvIds \cup {Null}, group : GroupIds \cup {Null},
           made : BOOLEAN, missed : SUBSET Lookups]

ASSUME NullAssumption ==
    /\ Null \notin Requests
    /\ Null \notin PartyIds
    /\ Null \notin GroupNames
    /\ Null \notin Kinds
    /\ Null \notin ConvRow
    /\ Null \notin GroupRow
    /\ Null \notin MessageRow
    /\ Null \notin Call

NoLocals == [fromKind |-> Null, toKind |-> Null, conv |-> Null,
             group |-> Null, made |-> FALSE, missed |-> {}]

TypeOK ==
    /\ agents \subseteq AgentIds
    /\ conversations \in [ConvIds -> ConvRow \cup {Null}]
    /\ participants \subseteq ParticipantRow
    /\ groups \in [GroupIds -> GroupRow \cup {Null}]
    /\ messages \in [Requests -> MessageRow \cup {Null}]
    /\ clock \in Nat
    /\ pc \in [Requests -> Steps]
    /\ env \in [Requests -> Call \cup {Null}]
    /\ loc \in [Requests -> Locals]

Init ==
    /\ agents = AgentIds
    /\ conversations = [c \in ConvIds |-> Null]
    /\ participants = {}
    /\ groups = [g \in GroupIds |-> Null]
    /\ messages = [m \in Requests |-> Null]
    /\ clock = 0
    /\ pc = [r \in Requests |-> "idle"]
    /\ env = [r \in Requests |-> Null]
    /\ loc = [r \in Requests |-> NoLocals]

-----------------------------------------------------------------------------
(* Helpers.                                                                *)

Goto(r, step) == pc' = [pc EXCEPT ![r] = step]

\* The last statement of a handler has committed: its caller learns of it, or
\* the request's context, the connection or the server goes away before that.
Reply(r) == Goto(r, "done") \/ (Aborts /\ Goto(r, "lost"))

\* time.Now().UTC().Format(time.RFC3339) and back: whole seconds.
Seconds(t) == t - (t % TicksPerSecond)

\* The envelope (or path and body) a handler works on.
Start(r, op, from, kind, to, name, orig, step) ==
    /\ pc[r] = "idle"
    /\ op \in Handlers
    /\ env' = [env EXCEPT ![r] =
                 [op |-> op, from |-> from, kind |-> kind, to |-> to,
                  name |-> name, orig |-> orig, ts |-> Seconds(clock)]]
    /\ Goto(r, step)
    /\ UNCHANGED <<tables, clock>>

\* Mutant: the pair is not put in order.
IdLowUnswapped(r) == env[r].from

\* id1.String() > id2.String() swaps; the string and the uuid order agree.
IdLow(r)    == IF env[r].from > env[r].to THEN env[r].to ELSE env[r].from
IdHigh(r)   == IF env[r].from > env[r].to THEN env[r].from ELSE env[r].to
\* Mutant: the kinds are not swapped along with the ids.
KindLowUnswapped(r) == loc[r].fromKind

KindLow(r)  == IF env[r].from > env[r].to THEN loc[r].toKind ELSE loc[r].fromKind
KindHigh(r) == IF env[r].from > env[r].to THEN loc[r].fromKind ELSE loc[r].toKind

Exists(c) == conversations[c] # Null

IsDirect(c) == Exists(c) /\ conversations[c].type = "direct"

\* Mutant: the SELECT forgets id_high.
DirectOfLow(low, high) ==
    {c \in ConvIds : IsDirect(c) /\ conversations[c].low = low}

DirectOf(low, high) ==
    {c \in ConvIds : /\ IsDirect(c)
                     /\ conversations[c].low = low
                     /\ conversations[c].high = high}

\* Mutant: uq_conversations_direct_pair is missing.
PairFreeUnchecked(r) == TRUE

PairFree(r) == DirectOf(IdLow(r), IdHigh(r)) = {}

\* Mutant: a refused INSERT is looked up again.
AfterConflictRetry(r) == "find"

\* A refused INSERT is returned to the caller as an error; handleEntityInfo then
\* answers without a conversation.
AfterConflict(r) == "failed"

\* Mutant: the group is looked up by the back pointer conversations.group_id.
GroupFoundByLink(to) ==
    /\ to \in GroupIds
    /\ \E c \in ConvIds : Exists(c) /\ conversations[c].group = to

\* Groups.GetByID; the row always carries a conversation_id.
GroupFound(to) == to \in GroupIds /\ groups[to] # Null

\* What the caller of GetOrCreateDirect does with the conversation.
AfterDirect(r) == IF env[r].op = "info" THEN "done" ELSE "save"

\* INSERT INTO conversations: created_at is also the first last_message_at.
NewConversation(type, low, high) ==
    [type |-> type, low |-> low, high |-> high, group |-> Null,
     lastMsg |-> Null, lastAt |-> clock]

\* INSERT INTO conversation_participants ... ON CONFLICT DO NOTHING.
AddParticipant(c, id, kind) ==
    participants' =
      IF \E p \in participants : p.conv = c /\ p.id = id /\ p.kind = kind
      THEN participants
      ELSE participants \cup
             {[conv |-> c, id |-> id, kind |-> kind, joined |-> clock]}

-----------------------------------------------------------------------------
(* The calls.                                                              *)

Callers == UserIds \cup agents

CallerKind(id) == IF id \in AgentIds THEN "agent" ELSE "user"

Addressees ==
    UserIds \cup AgentIds \cup StrangerIds \cup {g \in GroupIds : groups[g] # Null}

\* handleSendMessage: the sender has just been authenticated.
StartSend(r, from, to) ==
    /\ from \in Callers
    /\ Start(r, "send", from, CallerKind(from), to, Null, Null, "fromKind")
    /\ UNCHANGED loc

\* handleReplayMessage: the stored row is loaded and re-addressed; To is the
\* conversation id of the original.
StartReplay(r, m) ==
    /\ messages[m] # Null
    /\ Start(r, "replay", messages[m].from, messages[m].kind,
             messages[m].conv, Null, m, "fromKind")
    /\ UNCHANGED loc

\* handleEntityInfo: the caller's kind comes from the credentials.
StartInfo(r, from, to) ==
    /\ from \in Callers
    /\ Start(r, "info", from, CallerKind(from), to, Null, Null, "infoLookup")
    /\ loc' = [loc EXCEPT ![r].fromKind = CallerKind(from)]

\* handleCreateGroup: only a user session reaches it.
StartCreateGroup(r, owner, name) ==
    /\ Start(r, "createGroup", owner, "user", Null, name, Null, "newConv")
    /\ UNCHANGED loc

\* handleLeaveGroup and the group lookup of LeaveGroup: the participant is
\* the one named in the body or the caller.
StartLeave(r, id, kind, g) ==
    /\ groups[g] # Null
    /\ Start(r, "leave", id, kind, g, Null, Null, "remove")
    /\ loc' = [loc EXCEPT ![r].conv = groups[g].conv]

\* handleDeleteAgent up to registrySvc.GetAgent.
StartDelete(r, a) ==
    /\ a \in agents
    /\ Start(r, "deleteAgent", a, "agent", Null, Null, Null, "delete")
    /\ UNCHANGED loc

-----------------------------------------------------------------------------
(* defaultPersistMessage, one action per statement.  A SELECT that fails   *)
(* is taken for a row that is not there.                                   *)

\* What a request has missed, after a SELECT that returned nothing.
Missed(missed, lookup, present) == IF present THEN missed \cup {lookup} ELSE missed

ResolveFromKind(r) ==
    /\ pc[r] = "fromKind"
    /\ \/ /\ env[r].from \in agents
          /\ loc' = [loc EXCEPT ![r].fromKind = "agent"]
       \/ /\ env[r].from \notin agents \/ QueryFaults
          /\ loc' = [loc EXCEPT ![r].fromKind = "user",
                                ![r].missed = Missed(@, "fromKind", env[r].from \in agents)]
    /\ Goto(r, "toGroup")
    /\ UNCHANGED <<tables, clock, env>>

ResolveGroup(r) ==
    /\ pc[r] = "toGroup"
    /\ \/ /\ GroupFound(env[r].to)
          /\ loc' = [loc EXCEPT ![r].conv = groups[env[r].to].conv]
          /\ Goto(r, "save")
       \/ /\ ~GroupFound(env[r].to) \/ QueryFaults
          /\ loc' = [loc EXCEPT ![r].missed = Missed(@, "toGroup", GroupFound(env[r].to))]
          /\ Goto(r, "toKind")
    /\ UNCHANGED <<tables, clock, env>>

ResolveToKind(r) ==
    /\ pc[r] = "toKind"
    /\ \/ /\ env[r].to \in agents
          /\ loc' = [loc EXCEPT ![r].toKind = "agent"]
       \/ /\ env[r].to \notin agents \/ QueryFaults
          /\ loc' = [loc EXCEPT ![r].toKind = "user",
                                ![r].missed = Missed(@, "toKind", env[r].to \in agents)]
    /\ Goto(r, "find")
    /\ UNCHANGED <<tables, clock, env>>

\* Mutant: the target's kind is not recorded.
InfoLookupKindless(r) ==
    /\ pc[r] = "infoLookup"
    /\ env[r].to \in agents \cup UserIds
    /\ Goto(r, "find")
    /\ UNCHANGED <<tables, clock, env, loc>>

\* handleEntityInfo's lookups: an agent, else a user, else no DM is opened.
InfoLookup(r) ==
    /\ pc[r] = "infoLookup"
    /\ \/ /\ env[r].to \in agents \cup UserIds
          /\ loc' = [loc EXCEPT ![r].toKind = CallerKind(env[r].to)]
          /\ Goto(r, "find")
       \/ /\ env[r].to \notin agents \cup UserIds \/ QueryFaults
          /\ Goto(r, IF env[r].to \in GroupIds THEN "done" ELSE "failed")
          /\ UNCHANGED loc
    /\ UNCHANGED <<tables, clock, env>>

\* GetOrCreateDirect: SELECT by the canonical pair.  Unlike the lookups before
\* it, a SELECT that fails here ends the request.
FindDirect(r) ==
    /\ pc[r] = "find"
    /\ \/ \E c \in DirectOf(IdLow(r), IdHigh(r)) :
             /\ loc' = [loc EXCEPT ![r].conv = c]
             /\ Goto(r, AfterDirect(r))
       \/ /\ DirectOf(IdLow(r), IdHigh(r)) = {}
          /\ Goto(r, "create")
          /\ UNCHANGED loc
       \/ /\ QueryFaults
          /\ loc' = [loc EXCEPT ![r].missed = @ \cup {"find"}]
          /\ Goto(r, "failed")
    /\ UNCHANGED <<tables, clock, env>>

\* GetOrCreateDirect: INSERT.  CHECK (id_low < id_high) and
\* UNIQUE (id_low, id_high) turn the statement into an error.
CreateDirect(r) ==
    /\ pc[r] = "create"
    /\ \/ /\ IdLow(r) < IdHigh(r)
          /\ PairFree(r)
          /\ \E c \in ConvIds :
               /\ ~Exists(c)
               /\ conversations' = [conversations EXCEPT ![c] =
                    NewConversation("direct", IdLow(r), IdHigh(r))]
               /\ loc' = [loc EXCEPT ![r].conv = c, ![r].made = TRUE]
          /\ Goto(r, "addLow")
       \/ /\ IdLow(r) >= IdHigh(r) \/ ~PairFree(r)
          /\ Goto(r, AfterConflict(r))
          /\ UNCHANGED <<conversations, loc>>
    /\ UNCHANGED <<agents, participants, groups, messages, clock, env>>

\* Mutant: the second row is never added.
AddLowOnly(r) ==
    /\ pc[r] = "addLow"
    /\ AddParticipant(loc[r].conv, IdLow(r), KindLow(r))
    /\ Goto(r, AfterDirect(r))
    /\ UNCHANGED <<agents, conversations, groups, messages, clock, env, loc>>

AddLow(r) ==
    /\ pc[r] = "addLow"
    /\ AddParticipant(loc[r].conv, IdLow(r), KindLow(r))
    /\ Goto(r, "addHigh")
    /\ UNCHANGED <<agents, conversations, groups, messages, clock, env, loc>>

\* Mutant: the second Add names the low side again.
AddHighLow(r) ==
    /\ pc[r] = "addHigh"
    /\ AddParticipant(loc[r].conv, IdLow(r), KindHigh(r))
    /\ Goto(r, AfterDirect(r))
    /\ UNCHANGED <<agents, conversations, groups, messages, clock, env, loc>>

AddHigh(r) ==
    /\ pc[r] = "addHigh"
    /\ AddParticipant(loc[r].conv, IdHigh(r), KindHigh(r))
    /\ Goto(r, AfterDirect(r))
    /\ UNCHANGED <<agents, conversations, groups, messages, clock, env, loc>>

\* Mutant: only the insert is committed.
SaveInsertOnly(r) ==
    /\ pc[r] = "save"
    /\ messages' = [messages EXCEPT ![r] =
         [from |-> env[r].from, kind |-> loc[r].fromKind,
          conv |-> loc[r].conv, ts |-> env[r].ts]]
    /\ Goto(r, "done")
    /\ UNCHANGED <<agents, conversations, participants, groups, clock, env, loc>>

\* Messages.Save: the insert and the update of last_message_* commit together;
\* a COMMIT may take effect and return an error all the same.
Save(r) ==
    /\ pc[r] = "save"
    /\ messages' = [messages EXCEPT ![r] =
         [from |-> env[r].from, kind |-> loc[r].fromKind,
          conv |-> loc[r].conv, ts |-> env[r].ts]]
    /\ conversations' = [conversations EXCEPT
         ![loc[r].conv].lastMsg = r, ![loc[r].conv].lastAt = env[r].ts]
    /\ Reply(r)
    /\ UNCHANGED <<agents, participants, groups, clock, env, loc>>

-----------------------------------------------------------------------------
(* CreateGroup, one action per statement.                                  *)

\* Mutant: a group conversation that no group points back from is reused.
ReuseGroupConversation(r) ==
    /\ pc[r] = "newConv"
    /\ \E c \in ConvIds :
         /\ Exists(c) => /\ conversations[c].type = "group"
                        /\ conversations[c].group = Null
         /\ conversations' = [conversations EXCEPT ![c] =
              NewConversation("group", Null, Null)]
         /\ loc' = [loc EXCEPT ![r].conv = c, ![r].made = TRUE]
    /\ Goto(r, "newGroup")
    /\ UNCHANGED <<agents, participants, groups, messages, clock, env>>

InsertGroupConversation(r) ==
    /\ pc[r] = "newConv"
    /\ \E c \in ConvIds :
         /\ ~Exists(c)
         /\ conversations' = [conversations EXCEPT ![c] =
              NewConversation("group", Null, Null)]
         /\ loc' = [loc EXCEPT ![r].conv = c, ![r].made = TRUE]
    /\ Goto(r, "newGroup")
    /\ UNCHANGED <<agents, participants, groups, messages, clock, env>>

NameTaken(name) == \E g \in GroupIds : groups[g] # Null /\ groups[g].name = name

InsertGroup(r) ==
    /\ pc[r] = "newGroup"
    /\ \/ /\ ~NameTaken(env[r].name)
          /\ \E g \in GroupIds :
               /\ groups[g] = Null
               /\ groups' = [groups EXCEPT ![g] =
                    [name |-> env[r].name, owner |-> env[r].from,
                     conv |-> loc[r].conv]]
               /\ loc' = [loc EXCEPT ![r].group = g]
          /\ Goto(r, "link")
       \/ /\ NameTaken(env[r].name)
          /\ Goto(r, "failed")
          /\ UNCHANGED <<groups, loc>>
    /\ UNCHANGED <<agents, conversations, participants, messages, clock, env>>

\* Mutant: UpdateGroupID is forgotten.
LinkGroupLost(r) ==
    /\ pc[r] = "link"
    /\ Goto(r, "addOwner")
    /\ UNCHANGED <<tables, clock, env, loc>>

LinkGroup(r) ==
    /\ pc[r] = "link"
    /\ conversations' = [conversations EXCEPT ![loc[r].conv].group = loc[r].group]
    /\ Goto(r, "addOwner")
    /\ UNCHANGED <<agents, participants, groups, messages, clock, env, loc>>

AddOwner(r) ==
    /\ pc[r] = "addOwner"
    /\ AddParticipant(loc[r].conv, env[r].from, "user")
    /\ Reply(r)
    /\ UNCHANGED <<agents, conversations, groups, messages, clock, env, loc>>

\* Mutant: the DELETE also matches the leaver's direct conversations.
RemoveWithDirects(r) ==
    /\ pc[r] = "remove"
    /\ participants' = {p \in participants :
         ~(/\ p.conv = loc[r].conv \/ IsDirect(p.conv)
           /\ p.id = env[r].from
           /\ p.kind = env[r].kind)}
    /\ Goto(r, "done")
    /\ UNCHANGED <<agents, conversations, groups, messages, clock, env, loc>>

\* LeaveGroup: DELETE FROM conversation_participants.
RemoveParticipant(r) ==
    /\ pc[r] = "remove"
    /\ participants' = {p \in participants :
         ~(/\ p.conv = loc[r].conv
           /\ p.id = env[r].from
           /\ p.kind = env[r].kind)}
    /\ Reply(r)
    /\ UNCHANGED <<agents, conversations, groups, messages, clock, env, loc>>

\* Deregister: DELETE FROM agents, an error when no row is affected.
DeleteAgent(r) ==
    /\ pc[r] = "delete"
    /\ IF env[r].from \in agents THEN Reply(r) ELSE Goto(r, "failed")
    /\ agents' = agents \ {env[r].from}
    /\ UNCHANGED <<conversations, participants, groups, messages, clock, env, loc>>

-----------------------------------------------------------------------------

\* The rate limiter refuses the message, the client goes away (the context is
\* cancelled), a statement fails or the server dies, before the next statement
\* has any effect; Reply covers the same after the last one.  What was written
\* stays.
Abort(r) ==
    /\ Aborts
    /\ pc[r] \notin Finished \cup {"idle"}
    /\ Goto(r, "failed")
    /\ UNCHANGED <<tables, clock, env, loc>>

Tick ==
    /\ clock < MaxClock
    /\ clock' = clock + 1
    /\ UNCHANGED <<tables, pc, env, loc>>

\* All requests have been answered; nothing more arrives.
Idle ==
    /\ \A r \in Requests : pc[r] \in Finished
    /\ UNCHANGED vars

Arrive(r) ==
    \/ \E from \in UserIds \cup AgentIds, to \in Addressees :
          StartSend(r, from, to) \/ StartInfo(r, from, to)
    \/ \E m \in Requests : StartReplay(r, m)
    \/ \E u \in UserIds, name \in GroupNames : StartCreateGroup(r, u, name)
    \/ \E id \in UserIds \cup AgentIds, kind \in Kinds, g \in GroupIds :
          StartLeave(r, id, kind, g)
    \/ \E a \in AgentIds : StartDelete(r, a)

Persist(r) ==
    \/ ResolveFromKind(r) \/ ResolveGroup(r) \/ ResolveToKind(r)
    \/ InfoLookup(r) \/ FindDirect(r) \/ CreateDirect(r)
    \/ AddLow(r) \/ AddHigh(r) \/ Save(r)

Administer(r) ==
    \/ InsertGroupConversation(r) \/ InsertGroup(r) \/ LinkGroup(r)
    \/ AddOwner(r) \/ RemoveParticipant(r) \/ DeleteAgent(r)

Proceed(r) == Persist(r) \/ Administer(r)

Next ==
    \/ \E r \in Requests : Arrive(r) \/ Proceed(r) \/ Abort(r)
    \/ Tick
    \/ Idle

Spec == Init /\ [][Next]_vars

\* The server keeps running the handler it has started, and PostgreSQL
\* answers every statement; clients need not call, time need not pass.
Fairness == \A r \in Requests : WF_vars(Proceed(r))

FairSpec == Spec /\ Fairness

-----------------------------------------------------------------------------
(* Correctness properties.                                                 *)

Pair(c) == {conversations[c].low, conversations[c].high}

\* The participant rows of one side of a direct conversation.
Rows(c, id) == {p \in participants : p.conv = c /\ p.id = id}

\* However many requests look a pair up before the first INSERT, two
\* participants share at most one direct conversation (GetOrCreateDirect and
\* uq_conversations_direct_pair).
OneConversationPerPair ==
    \A c, d \in ConvIds :
        IsDirect(c) /\ IsDirect(d) /\ Pair(c) = Pair(d) => c = d

\* A message whose sender was told "sent" is stored: in the conversation of the
\* group it was addressed to, or in the conversation of exactly the two parties,
\* whatever ran between the lookups and the insert.  A message to a group lands
\* in a direct conversation with the group's id only if the request's own
\* lookup of that group failed (defaultPersistMessage).
AckedMessageIsFiled ==
    \A r \in Requests :
        pc[r] = "done" /\ env[r].op \in {"send", "replay"} =>
            /\ messages[r] # Null
            /\ messages[r].from = env[r].from
            /\ messages[r].conv = loc[r].conv
            /\ \/ /\ IsDirect(loc[r].conv)
                  /\ Pair(loc[r].conv) = {env[r].from, env[r].to}
                  /\ env[r].to \in GroupIds => "toGroup" \in loc[r].missed
               \/ \E g \in GroupIds : /\ env[r].to = g
                                      /\ groups[g] # Null
                                      /\ groups[g].conv = loc[r].conv

\* The roster of a direct conversation lists only its two sides, each at most
\* once: requests that disagree about a side's kind do not list it twice
\* (GetOrCreateDirect's two Adds, primary key conv/id/kind).
DirectMembership ==
    \A c \in ConvIds : IsDirect(c) =>
        /\ \A p \in participants : p.conv = c => p.id \in Pair(c)
        /\ \A p, q \in participants :
              p.conv = c /\ q.conv = c /\ p.id = q.id => p = q

\* A direct conversation lacks one of its two roster rows only while the
\* request that created it is between its INSERTs, or because that request
\* died there (conversation.go: three statements, no transaction).
MissingParticipantExplained ==
    \A c \in ConvIds : IsDirect(c) =>
        \/ Rows(c, conversations[c].low) # {} /\ Rows(c, conversations[c].high) # {}
        \/ \E r \in Requests : /\ loc[r].made
                              /\ loc[r].conv = c
                              /\ pc[r] \in {"addLow", "addHigh", "failed"}

\* last_message_id and last_message_at describe one stored message of the same
\* conversation, and are set as soon as the conversation has any message (the
\* transaction of Messages.Save).
PreviewIsOwnMessage ==
    \A c \in ConvIds : Exists(c) =>
        LET last == conversations[c].lastMsg
        IN  IF last = Null
            THEN \A m \in Requests : messages[m] # Null => messages[m].conv # c
            ELSE /\ messages[last] # Null
                 /\ messages[last].conv = c
                 /\ messages[last].ts = conversations[c].lastAt

\* An agent is recorded as a user (in a roster or as the author of a message)
\* only if it has been deleted, or if the writer's own lookup of that kind
\* failed: the kind is looked up in one statement and written in a later one.
MisfiledOnlyIfDeleted ==
    /\ \A p \in participants :
          (p.kind = "agent") # (p.id \in AgentIds) =>
              \/ p.id \in AgentIds \ agents
              \/ \E r \in Requests : /\ loc[r].made
                                     /\ loc[r].conv = p.conv
                                     /\ loc[r].missed \cap {"fromKind", "toKind"} # {}
    /\ \A m \in Requests : messages[m] # Null =>
          LET row == messages[m]
          IN  (row.kind = "agent") # (row.from \in AgentIds) =>
                  row.from \in AgentIds \ agents \/ "fromKind" \in loc[m].missed

\* Groups and conversations point at each other consistently: every group has
\* a group conversation of its own, and a conversation names a group only if
\* that group names it back (CreateGroup's first three statements).
GroupLinkConsistent ==
    /\ \A g \in GroupIds : groups[g] # Null =>
          /\ Exists(groups[g].conv)
          /\ conversations[groups[g].conv].type = "group"
          /\ \A h \in GroupIds :
                groups[h] # Null /\ groups[h].conv = groups[g].conv => g = h
    /\ \A c \in ConvIds : Exists(c) /\ conversations[c].group # Null =>
          /\ groups[conversations[c].group] # Null
          /\ groups[conversations[c].group].conv = c

\* A group whose conversation does not point back at it, or whose owner is not
\* on the roster, is one whose CreateGroup is still running or died half way,
\* or whose owner was removed by a leave, answered or not.
HalfMadeGroupExplained ==
    \A g \in GroupIds : groups[g] # Null =>
        LET c == groups[g].conv
            creator(steps) == \E r \in Requests : /\ loc[r].group = g
                                                  /\ pc[r] \in steps \cup {"failed"}
        IN  /\ conversations[c].group # g => creator({"link"})
            /\ Rows(c, groups[g].owner) = {} =>
                  \/ creator({"link", "addOwner"})
                  \/ \E r \in Requests : /\ env[r] # Null
                                         /\ env[r].op = "leave"
                                         /\ env[r].to = g
                                         /\ env[r].from = groups[g].owner
                                         /\ pc[r] \in {"done", "lost"}

\* When nothing dies, a message is refused only to a sender who writes to itself,
\* whose own SELECT of the conversation failed, or who lost the race to open the
\* conversation: the lookup found none, and another request's INSERT came first
\* (GetOrCreateDirect returns both errors).
RefusalExplained ==
    \A r \in Requests :
        /\ pc[r] = "failed"
        /\ env[r].op \in {"send", "replay"}
        /\ env[r].from # env[r].to
        => \/ "find" \in loc[r].missed
           \/ \E s \in Requests \ {r} : /\ loc[s].made
                                        /\ Pair(loc[s].conv) = {env[r].from, env[r].to}

\* Nobody is ever taken off the roster of a direct conversation: leaving a
\* group and deleting an agent leave direct rosters alone (LeaveGroup,
\* Deregister).
DirectRosterNeverShrinks ==
    [][\A p \in participants : IsDirect(p.conv) => p \in participants']_vars

\* When no request dies, every direct conversation gets both its roster rows.
DirectRosterBecomesComplete ==
    \A c \in ConvIds :
        IsDirect(c) ~> /\ Rows(c, conversations[c].low) # {}
                       /\ Rows(c, conversations[c].high) # {}

\* Every request that was accepted is answered: no handler waits for another
\* or retries for ever.
EveryRequestAnswered ==
    \A r \in Requests : pc[r] # "idle" ~> pc[r] \in Finished

-----------------------------------------------------------------------------
(* What the repository's comments and documents promise.                   *)

\* design-spec.md: "The Backend re-emits the message to the original recipient
\* with a new `id`".
ReplayReachesOriginalConversation ==
    \A r \in Requests :
        pc[r] = "done" /\ env[r].op = "replay" =>
            messages[r].conv = messages[env[r].orig].conv
=============================================================================
