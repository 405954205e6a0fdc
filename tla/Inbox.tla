-------------------------------- MODULE Inbox --------------------------------
(***************************************************************************)
(* What a party sees of the tables that Conversations models: the list of  *)
(* conversations (GET /v1/conversations) and the unread part of the inbox  *)
(* (GET /v1/connections/inbox).  Both are one SELECT, hence functions of   *)
(* the state.                                                              *)
(***************************************************************************)
EXTENDS Conversations

\* The conversations on whose roster the party is, under this kind.
Joined(id, kind) ==
    {p \in participants : p.id = id /\ p.kind = kind}

\* CASE WHEN c.id_low = $1 THEN c.id_high ELSE c.id_low END.
OtherSide(c, id) ==
    IF conversations[c].low = id THEN conversations[c].high ELSE conversations[c].low

\* The name comes from LEFT JOINs on users and agents: what is not a user is
\* shown as an agent, named 'unknown' if there is no such agent either.
DirectItem(c, id) ==
    [conv |-> c, ref |-> OtherSide(c, id),
     type |-> IF OtherSide(c, id) \in UserIds THEN "user" ELSE "agent",
     known |-> OtherSide(c, id) \in UserIds \cup agents]

\* JOIN chat_groups g ON g.id = c.group_id.
GroupItem(c) ==
    [conv |-> c, ref |-> conversations[c].group, type |-> "group", known |-> TRUE]

\* Mutant: the other side is joined, not left joined.
DirectItemsJoined(rows, id) ==
    {DirectItem(p.conv, id) : p \in {q \in rows :
        IsDirect(q.conv) /\ OtherSide(q.conv, id) \in UserIds \cup agents}}

DirectItems(rows, id) == {DirectItem(p.conv, id) : p \in {q \in rows : IsDirect(q.conv)}}

GroupItems(rows) ==
    {GroupItem(p.conv) : p \in {q \in rows :
        /\ conversations[q.conv].type = "group"
        /\ conversations[q.conv].group # Null}}

\* ListItems without a type filter.
ListItems(id, kind) ==
    DirectItems(Joined(id, kind), id) \cup GroupItems(Joined(id, kind))

\* COALESCE(timestamp of last_read_message_id, joined_at): no handler calls
\* UpdateLastRead, so the column stays NULL.
ReadUpTo(p) == p.joined

\* The messages counted as unread for a row of the roster.
UnreadCount(p) ==
    Cardinality({m \in Requests : /\ messages[m] # Null
                                  /\ messages[m].conv = p.conv
                                  /\ messages[m].ts > ReadUpTo(p)})

\* ListUnreadByParticipant.
ListUnread(id, kind) ==
    LET rows == {p \in Joined(id, kind) : UnreadCount(p) > 0}
    IN  DirectItems(rows, id) \cup GroupItems(rows)

-----------------------------------------------------------------------------
(* Correctness properties.                                                 *)

\* Whoever is on a roster finds the conversation on their list, under the name
\* of the other side or of the group: also when the other side is a deleted
\* agent, and never for a group that is not linked yet, because CreateGroup
\* links the group before it adds the owner (ListItems, CreateGroup).
RosterIsListed ==
    \A p \in participants :
        \E item \in ListItems(p.id, p.kind) :
            /\ item.conv = p.conv
            /\ IF IsDirect(p.conv) THEN {item.ref, p.id} = Pair(p.conv)
               ELSE groups[item.ref] # Null /\ groups[item.ref].conv = p.conv

-----------------------------------------------------------------------------
(* What the repository's documents promise.                                *)

\* cli-reference.md, inbox: an agent gets "conversations that have unread
\* messages".  Nobody marks anything as read, so a conversation in which the
\* other side has stored a message is among them.
ReceivedIsUnread ==
    \A m \in Requests : messages[m] # Null =>
        \A p \in participants :
            p.kind = "agent" /\ p.conv = messages[m].conv /\ p.id # messages[m].from =>
                \E item \in ListUnread(p.id, p.kind) : item.conv = p.conv
=============================================================================
