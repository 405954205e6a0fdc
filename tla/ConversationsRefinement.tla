----------------------- MODULE ConversationsRefinement -----------------------
(***************************************************************************)
(* The tables of Conversations read as the state of MessageStore: a        *)
(* message is a request that runs send or replay, a channel is the pair or *)
(* the group a conversation row stands for.                                *)
(***************************************************************************)
EXTENDS Conversations

\* What was submitted can be told from nothing.
ASSUME StoreAssumption == Null \notin [from : PartyIds, to : PartyIds]

IsMessage(r) == env[r] # Null /\ env[r].op \in {"send", "replay"}

\* The channel a conversation row belongs to: its two sides, or the group that
\* names it.  A group conversation no group names yet belongs to none.
ChannelOf(c) ==
    IF conversations[c].type = "direct"
    THEN {conversations[c].low, conversations[c].high}
    ELSE {g \in GroupIds : groups[g] # Null /\ groups[g].conv = c}

StoreSubmitted ==
    [r \in Requests |->
        IF IsMessage(r) THEN [from |-> env[r].from, to |-> env[r].to] ELSE Null]

StoreRefused == {r \in Requests : IsMessage(r) /\ pc[r] \in {"failed", "lost"}}

StoreFiled ==
    [r \in Requests |-> IF messages[r] = Null THEN Null ELSE ChannelOf(messages[r].conv)]

StorePreviews ==
    {conversations[c].lastMsg : c \in {d \in ConvIds : Exists(d)}} \ {Null}

Store == INSTANCE MessageStore WITH
    Messages <- Requests, Parties <- PartyIds, Groups <- GroupIds, Lossy <- Aborts,
    Null <- Null,
    submitted <- StoreSubmitted, refused <- StoreRefused,
    filed <- StoreFiled, previews <- StorePreviews

\* Unless a SELECT fails, the tables implement MessageStore: whatever handlers
\* run between the lookups and the insert of defaultPersistMessage, a message
\* is filed at most once, in the channel of its two parties or its group, never
\* moves afterwards, and is that channel's preview from the step that stores it
\* until the next message of the same channel.  A sender who was told "sent"
\* has it filed; one who was not may have it filed only if replies can be lost,
\* and then already when its request ends (Messages.Save and its COMMIT).
ImplementsMessageStore == Store!Spec
=============================================================================
