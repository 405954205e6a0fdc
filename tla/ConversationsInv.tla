-------------------------- MODULE ConversationsInv ---------------------------
(***************************************************************************)
(* The inductive invariant behind the safety properties of Conversations:  *)
(* what a handler's local variables are worth at each of its statements,   *)
(* and who made which conversation.                                        *)
(***************************************************************************)
EXTENDS Conversations

PersistSteps == {"fromKind", "toGroup", "toKind"}
DirectSteps  == {"find", "create", "addLow", "addHigh"}
GroupSteps   == {"newConv", "newGroup", "link", "addOwner"}

Sending(r) == env[r].op \in {"send", "replay"}

\* The conversation chosen by request r is the one of its addressee.
Filed(r) ==
    \/ /\ IsDirect(loc[r].conv)
       /\ conversations[loc[r].conv].low = IdLow(r)
       /\ conversations[loc[r].conv].high = IdHigh(r)
    \/ /\ GroupFound(env[r].to)
       /\ groups[env[r].to].conv = loc[r].conv

\* Arguments and locals are set by the time a statement uses them.
ControlOf(r) ==
    /\ pc[r] = "idle" <=> env[r] = Null
    /\ pc[r] \in {"idle", "fromKind", "newConv"} => loc[r] = NoLocals
    /\ pc[r] \in PersistSteps => Sending(r)
    /\ pc[r] = "infoLookup" => env[r].op = "info"
    /\ pc[r] \in DirectSteps => Sending(r) \/ env[r].op = "info"
    /\ pc[r] \in PersistSteps \cup DirectSteps \cup {"infoLookup", "save"} =>
         env[r].to \in PartyIds
    /\ pc[r] \in {"toGroup", "toKind", "infoLookup", "save"} \cup DirectSteps =>
         loc[r].fromKind \in Kinds
    /\ pc[r] \in DirectSteps => loc[r].toKind \in Kinds
    /\ pc[r] = "save" => Sending(r) /\ loc[r].conv \in ConvIds /\ Filed(r)
    /\ pc[r] \in GroupSteps =>
         /\ env[r].op = "createGroup"
         /\ env[r].from \in UserIds
         /\ env[r].name \in GroupNames
    /\ pc[r] = "remove" => env[r].op = "leave"
    /\ pc[r] = "delete" => env[r].op = "deleteAgent"

\* A message is stored exactly when its request was answered with "sent", or
\* its answer was lost after the commit.
AnswerOf(r) ==
    /\ pc[r] \in {"done", "lost"} /\ Sending(r) =>
         /\ loc[r].conv \in ConvIds
         /\ Filed(r)
         /\ messages[r] # Null
         /\ messages[r].from = env[r].from
         /\ messages[r].conv = loc[r].conv
    /\ messages[r] # Null => pc[r] \in {"done", "lost"} /\ Sending(r)

\* What the request that made a conversation knows about it.
MakerOf(r) ==
    /\ pc[r] \in {"toGroup", "toKind", "infoLookup", "find", "create",
                  "remove", "delete"} => ~loc[r].made
    /\ loc[r].made => loc[r].conv \in ConvIds /\ Exists(loc[r].conv)
    /\ pc[r] \in {"addLow", "addHigh"} =>
         /\ loc[r].made
         /\ IsDirect(loc[r].conv)
         /\ conversations[loc[r].conv].low = IdLow(r)
         /\ conversations[loc[r].conv].high = IdHigh(r)
    /\ pc[r] \in {"newGroup", "link", "addOwner"} =>
         /\ loc[r].made
         /\ conversations[loc[r].conv].type = "group"

RequestInv == \A r \in Requests : ControlOf(r) /\ AnswerOf(r) /\ MakerOf(r)

\* A conversation was made by one request.
OneMaker ==
    \A r, s \in Requests :
        loc[r].made /\ loc[s].made /\ loc[r].conv = loc[s].conv => r = s

\* chk_conversations_direct_ids, and no direct conversation points at a group.
Shapes ==
    \A c \in ConvIds : IsDirect(c) =>
        /\ conversations[c].low \in PartyIds
        /\ conversations[c].high \in PartyIds
        /\ conversations[c].low < conversations[c].high
        /\ conversations[c].group = Null

\* A roster belongs to a conversation; a direct one lists its sides once.
Rosters ==
    /\ \A p \in participants :
         Exists(p.conv) /\ (IsDirect(p.conv) => p.id \in Pair(p.conv))
    /\ \A p, q \in participants :
         IsDirect(p.conv) /\ p.conv = q.conv /\ p.id = q.id => p = q

\* The maker writes the low side first, and finds neither row there before.
RosterProgress ==
    \A r \in Requests :
        /\ pc[r] = "addLow" => \A p \in participants : p.conv # loc[r].conv
        /\ pc[r] = "addHigh" => /\ Rows(loc[r].conv, IdLow(r)) # {}
                                /\ Rows(loc[r].conv, IdHigh(r)) = {}

\* What CreateGroup and LeaveGroup know about the group they work on.
GroupProgress ==
    \A r \in Requests :
        /\ pc[r] = "newGroup" =>
             \A g \in GroupIds : groups[g] # Null => groups[g].conv # loc[r].conv
        /\ pc[r] \in {"link", "addOwner"} =>
             GroupFound(loc[r].group) /\ groups[loc[r].group].conv = loc[r].conv
        /\ pc[r] = "remove" =>
             \E g \in GroupIds : groups[g] # Null /\ groups[g].conv = loc[r].conv

IInv ==
    /\ TypeOK
    /\ RequestInv
    /\ OneMaker
    /\ Shapes
    /\ OneConversationPerPair
    /\ Rosters
    /\ RosterProgress
    /\ MissingParticipantExplained
    /\ PreviewIsOwnMessage
    /\ GroupLinkConsistent
    /\ GroupProgress

-----------------------------------------------------------------------------
(* The second layer: what follows from IInv and one more fact each.        *)

\* CreateGroup works for the owner it has written down, links its group before
\* it adds the owner, and LeaveGroup works on the group in the path.
GroupWork ==
    \A r \in Requests :
        /\ pc[r] \in {"link", "addOwner"} => groups[loc[r].group].owner = env[r].from
        /\ pc[r] = "addOwner" => conversations[loc[r].conv].group = loc[r].group
        /\ pc[r] = "remove" => /\ GroupFound(env[r].to)
                              /\ groups[env[r].to].conv = loc[r].conv

\* A group conversation has a roster only once it points at its group.
LinkedRosters ==
    \A p \in participants :
        conversations[p.conv].type = "group" => conversations[p.conv].group # Null

\* Every direct conversation was opened by a request that remembers it.
MadeByRequest ==
    \A c \in ConvIds : IsDirect(c) =>
        \E s \in Requests : loc[s].made /\ loc[s].conv = c

\* The kind recorded for a party is right, or the party is a deleted agent.
KindOK(id, kind) ==
    (kind = "agent") # (id \in AgentIds) => id \in AgentIds \ agents

\* The kinds a handler has looked up are right unless the agent is gone by now
\* or the lookup failed.
KindsKnown ==
    \A r \in Requests :
        /\ pc[r] \in {"toGroup", "toKind", "infoLookup", "save"} \cup DirectSteps =>
             KindOK(env[r].from, loc[r].fromKind) \/ "fromKind" \in loc[r].missed
        /\ pc[r] \in DirectSteps =>
             KindOK(env[r].to, loc[r].toKind) \/ "toKind" \in loc[r].missed

\* A message to a group takes the way of a direct one only if the lookup of the
\* group failed: the group was there when the request arrived.
Routed ==
    \A r \in Requests :
        /\ env[r] # Null /\ Sending(r) /\ env[r].to \in GroupIds => GroupFound(env[r].to)
        /\ pc[r] \in DirectSteps \cup {"toKind"} /\ env[r].to \in GroupIds =>
             "toGroup" \in loc[r].missed
        /\ pc[r] \in {"save", "done", "lost"} /\ env[r] # Null /\ Sending(r)
             /\ env[r].to \in GroupIds =>
             groups[env[r].to].conv = loc[r].conv \/ "toGroup" \in loc[r].missed

\* Nothing is missed where no SELECT fails.
NothingMissed == QueryFaults \/ \A r \in Requests : loc[r].missed = {}

\* What holds whatever fails.
WorkInv ==
    /\ GroupWork
    /\ LinkedRosters
    /\ MadeByRequest
    /\ HalfMadeGroupExplained

\* What lookups are worth, and which of them went wrong.
LookupInv ==
    /\ KindsKnown
    /\ MisfiledOnlyIfDeleted
    /\ Routed
    /\ NothingMissed
=============================================================================
