-------------------------- MODULE MessagingProofs ---------------------------
(***************************************************************************)
(* More about Conversations, on top of its inductive invariant IInv: half  *)
(* made groups, the conversation list, kinds, refusals, and that the       *)
(* tables implement MessageStore.                                          *)
(***************************************************************************)
EXTENDS ConversationsProofs, ConversationsRefinement, Inbox

USE IdsAssumption, NullAssumption, ClockAssumption

\* From the statements of CreateGroup and LeaveGroup a request only goes on or
\* dies.
LEMMA GroupExits ==
  ASSUME TypeOK, NEW r \in Requests, Act(r)
  PROVE  /\ pc[r] = "link" => LinkGroup(r) \/ Abort(r)
         /\ pc[r] = "addOwner" => AddOwner(r) \/ Abort(r)
         /\ pc[r] = "remove" => RemoveParticipant(r) \/ Abort(r)
<1>1. CASE Arrive(r)
  BY <1>1 DEF Arrive, Start, StartSend, StartInfo, StartReplay, StartCreateGroup,
              StartLeave, StartDelete
<1>2. CASE Persist(r)
  BY <1>2 DEF Persist, ResolveFromKind, ResolveGroup, ResolveToKind, InfoLookup,
              FindDirect, CreateDirect, AddLow, AddHigh, Save
<1>3. CASE Administer(r)
  BY <1>3 DEF Administer, InsertGroupConversation, InsertGroup, LinkGroup, AddOwner,
              RemoveParticipant, DeleteAgent
<1> QED BY <1>1, <1>2, <1>3 DEF Act, Proceed

\* A conversation that points at a group never stops pointing at it.
LEMMA LinkStays ==
  ASSUME TypeOK, RequestInv, GroupLinkConsistent, GroupProgress, NEW r \in Requests, Act(r),
         NEW c \in ConvIds, Exists(c), conversations[c].group # Null
  PROVE  conversations'[c].group = conversations[c].group
<1>conv. conversations[c] \in ConvRow BY DEF TypeOK, Exists
<1>1. Kept(c) \/ Opened(r, c) \/ Founded(r, c) \/ Previewed(r, c) \/ Linked(r, c)
  BY ConversationStep
<1>2. CASE Kept(c) BY <1>2 DEF Kept
<1>3. CASE Previewed(r, c) BY <1>3, <1>conv DEF Previewed, ConvRow
<1>4. CASE Linked(r, c)
  <2>1. conversations'[c].group = loc[r].group BY <1>4, <1>conv DEF Linked, ConvRow
  <2>2. GroupFound(loc[r].group) /\ groups[loc[r].group].conv = c
    BY <1>4 DEF Linked, LinkGroup, GroupProgress
  <2>3. /\ conversations[c].group \in GroupIds
        /\ groups[conversations[c].group] # Null /\ groups[conversations[c].group].conv = c
    BY <1>conv DEF GroupLinkConsistent, ConvRow
  <2> QED BY <2>1, <2>2, <2>3 DEF GroupLinkConsistent, GroupFound
<1> QED BY <1>1, <1>2, <1>3, <1>4 DEF Opened, Founded

\* The row a CreateGroup inserts carries its caller as the owner.
LEMMA NewGroupOwner ==
  ASSUME TypeOK, RequestInv, NEW r \in Requests, Act(r), pc'[r] = "link"
  PROVE  /\ loc'[r].group \in GroupIds /\ groups'[loc'[r].group].owner = env[r].from
         /\ env'[r] = env[r]
<1>grp. groups \in [GroupIds -> GroupRow \cup {Null}] BY DEF TypeOK
<1>loc. loc \in [Requests -> Locals] BY DEF TypeOK
<1>1. InsertGroup(r) BY GroupMoves
<1>2. PICK g \in GroupIds :
        /\ groups' = [groups EXCEPT ![g] = [name |-> env[r].name, owner |-> env[r].from,
                                            conv |-> loc[r].conv]]
        /\ loc' = [loc EXCEPT ![r].group = g]
  <2>1. pc' # [pc EXCEPT ![r] = "failed"] BY DEF TypeOK
  <2> QED BY <1>1, <2>1 DEF InsertGroup, Goto
<1>3. loc'[r].group = g BY <1>2, <1>loc DEF Locals
<1>4. groups'[g].owner = env[r].from BY <1>2, <1>grp
<1> QED BY <1>1, <1>3, <1>4 DEF InsertGroup

\* A CreateGroup keeps working for its owner, a LeaveGroup on its group.
LEMMA GroupWorkStep ==
  ASSUME TypeOK, RequestInv, GroupLinkConsistent, GroupProgress, GroupWork,
         NEW r \in Requests, Act(r)
  PROVE  GroupWork'
<1>0. Stable BY StableStep
<1>loc. loc \in [Requests -> Locals] BY DEF TypeOK
<1>env. env \in [Requests -> Call \cup {Null}] BY DEF TypeOK
<1>conv. conversations \in [ConvIds -> ConvRow \cup {Null}] BY DEF TypeOK
<1>grp. \A s \in Requests : pc[s] \in {"link", "addOwner"} =>
          /\ loc[s].group \in GroupIds /\ groups[loc[s].group] # Null
          /\ groups'[loc[s].group] = groups[loc[s].group]
          /\ loc[s].conv \in ConvIds /\ Exists(loc[s].conv)
  BY <1>0 DEF GroupProgress, GroupFound, Stable, RequestInv, MakerOf
<1>1. ASSUME NEW s \in Requests, pc'[s] \in {"link", "addOwner"}
      PROVE  groups'[loc'[s].group].owner = env'[s].from
  <2>1. CASE s # r
    <3>1. pc[s] \in {"link", "addOwner"} /\ loc'[s] = loc[s] /\ env'[s] = env[s]
      BY <1>1, <2>1, OthersUnchanged
    <3> QED BY <3>1, <1>grp DEF GroupWork
  <2>2. CASE s = r /\ pc'[r] = "link" BY <2>2, NewGroupOwner
  <2>3. CASE s = r /\ pc'[r] = "addOwner"
    <3>1. pc[r] = "link" /\ loc' = loc /\ env' = env BY <2>3, GroupMoves DEF LinkGroup
    <3> QED BY <2>3, <3>1, <1>grp DEF GroupWork
  <2> QED BY <1>1, <2>1, <2>2, <2>3
<1>2. ASSUME NEW s \in Requests, pc'[s] = "addOwner"
      PROVE  conversations'[loc'[s].conv].group = loc'[s].group
  <2>1. CASE s # r
    <3>1. pc[s] = "addOwner" /\ loc'[s] = loc[s] BY <1>2, <2>1, OthersUnchanged
    <3>2. /\ loc[s].conv \in ConvIds /\ Exists(loc[s].conv)
          /\ conversations[loc[s].conv].group = loc[s].group /\ loc[s].group \in GroupIds
      BY <3>1, <1>grp DEF GroupWork
    <3>3. loc[s].group # Null BY <3>2 DEF PartyIds
    <3> QED BY <3>1, <3>2, <3>3, LinkStays
  <2>2. CASE s = r
    <3>1. LinkGroup(r) /\ pc[r] = "link" BY <1>2, <2>2, GroupMoves DEF LinkGroup
    <3>2. loc[r].conv \in ConvIds /\ conversations[loc[r].conv] \in ConvRow
      BY <3>1, <1>grp, <1>conv DEF Exists
    <3>3. /\ loc' = loc
          /\ conversations'[loc[r].conv] =
               [conversations[loc[r].conv] EXCEPT !.group = loc[r].group]
      BY <3>1, <3>2, <1>conv DEF LinkGroup
    <3> QED BY <2>2, <3>2, <3>3 DEF ConvRow
  <2> QED BY <2>1, <2>2
<1>3. ASSUME NEW s \in Requests, pc'[s] = "remove"
      PROVE  /\ env'[s].to \in GroupIds /\ groups'[env'[s].to] # Null
             /\ groups'[env'[s].to].conv = loc'[s].conv
  <2>1. CASE s # r
    <3>1. pc[s] = "remove" /\ loc'[s] = loc[s] /\ env'[s] = env[s]
      BY <1>3, <2>1, OthersUnchanged
    <3> QED BY <1>0, <3>1 DEF GroupWork, GroupFound, Stable
  <2>2. CASE s = r
    <3>1. PICK id \in UserIds \cup AgentIds, kind \in Kinds, g \in GroupIds :
            StartLeave(r, id, kind, g)
      BY <1>3, <2>2, GroupMoves
    <3>2. groups[g] # Null /\ groups' = groups BY <3>1 DEF StartLeave, Start, tables
    <3>3. loc'[r].conv = groups[g].conv BY <3>1, <1>loc DEF StartLeave, Locals
    <3>4. env'[r].to = g BY <3>1, <1>env DEF StartLeave, Start
    <3> QED BY <2>2, <3>2, <3>3, <3>4
  <2> QED BY <2>1, <2>2
<1> QED BY <1>1, <1>2, <1>3 DEF GroupWork, GroupFound

\* The only way on a group roster leads over AddOwner, after the link.
LEMMA LinkedRostersStep ==
  ASSUME TypeOK, RequestInv, GroupLinkConsistent, GroupProgress, RosterProgress, Rosters,
         GroupWork, LinkedRosters, NEW r \in Requests, Act(r)
  PROVE  LinkedRosters'
<1>0. Stable BY StableStep
<1> SUFFICES ASSUME NEW p \in participants', conversations'[p.conv].type = "group"
             PROVE  conversations'[p.conv].group # Null
  BY DEF LinkedRosters
<1>1. CASE p \in participants
  <2>1. p.conv \in ConvIds /\ Exists(p.conv) BY <1>1 DEF TypeOK, ParticipantRow, Rosters
  <2>2. conversations[p.conv].type = "group" BY <1>0, <2>1 DEF Stable
  <2>3. conversations[p.conv].group # Null BY <1>1, <2>2 DEF LinkedRosters
  <2> QED BY <2>1, <2>3, LinkStays
<1>2. CASE p \notin participants
  <2>1. p.conv = loc[r].conv /\ p.conv \in ConvIds /\ Exists(p.conv) BY <1>2, NewRow
  <2>2. conversations[p.conv].type = "group" BY <1>0, <2>1 DEF Stable
  <2>3. CASE AddOwner(r)
    <3>1. pc[r] = "addOwner" BY <2>3 DEF AddOwner
    <3>2. conversations[p.conv].group = loc[r].group /\ loc[r].group \in GroupIds
      BY <2>1, <3>1 DEF GroupWork, GroupProgress, GroupFound
    <3>3. conversations[p.conv].group # Null BY <3>2 DEF PartyIds
    <3> QED BY <2>1, <3>3, LinkStays
  <2>4. CASE AddLow(r) \/ AddHigh(r)
    <3>1. IsDirect(loc[r].conv) BY <2>4 DEF AddLow, AddHigh, RequestInv, MakerOf
    <3> QED BY <2>1, <2>2, <3>1 DEF IsDirect
  <2>5. CASE RemoveParticipant(r) BY <1>2, <2>5 DEF RemoveParticipant
  <2> QED BY <1>2, <2>3, <2>4, <2>5, RosterFootprint
<1> QED BY <1>1, <1>2

\* A request never forgets the conversation it has made.
LEMMA MadeStays ==
  ASSUME TypeOK, RequestInv, NEW r \in Requests, Act(r), NEW s \in Requests, loc[s].made
  PROVE  loc'[s].made /\ loc'[s].conv = loc[s].conv
<1>loc. loc \in [Requests -> Locals] BY DEF TypeOK
<1>0. CASE s # r BY <1>0, OthersUnchanged
<1>1. CASE s = r
  <2>0. ASSUME loc' = loc PROVE loc'[r].made /\ loc'[r].conv = loc[r].conv BY <1>1, <2>0
  <2>1. pc[r] \notin {"idle", "fromKind", "toGroup", "toKind", "infoLookup", "find", "create",
                      "newConv"}
    <3>1. ControlOf(r) /\ MakerOf(r) BY DEF RequestInv
    <3>2. pc[r] \in {"idle", "fromKind", "newConv"} => loc[r] = NoLocals
      BY <3>1 DEF ControlOf
    <3>3. pc[r] \in {"toGroup", "toKind", "infoLookup", "find", "create"} => ~loc[r].made
      BY <3>1 DEF MakerOf
    <3> QED BY <1>1, <3>2, <3>3 DEF NoLocals
  <2>2. CASE InsertGroup(r) BY <1>1, <2>0, <2>2, <1>loc DEF InsertGroup, Locals
  <2>3. ~Arrive(r)
    BY <2>1 DEF Arrive, Start, StartSend, StartInfo, StartReplay, StartCreateGroup,
                StartLeave, StartDelete
  <2> QED BY <1>1, <2>0, <2>1, <2>2, <2>3
          DEF Act, Proceed, Persist, Administer, ResolveFromKind, ResolveGroup, ResolveToKind,
              InfoLookup, FindDirect, CreateDirect, AddLow, AddHigh, Save,
              InsertGroupConversation, LinkGroup, AddOwner, RemoveParticipant, DeleteAgent,
              Abort
<1> QED BY <1>0, <1>1

\* A direct conversation that appears has its maker.
LEMMA MadeByRequestStep ==
  ASSUME TypeOK, RequestInv, GroupLinkConsistent, MadeByRequest, NEW r \in Requests, Act(r)
  PROVE  MadeByRequest'
<1>0. Stable BY StableStep
<1> SUFFICES ASSUME NEW c \in ConvIds, IsDirect(c)'
             PROVE  \E s \in Requests : loc'[s].made /\ loc'[s].conv = c
  BY DEF MadeByRequest
<1>1. CASE Exists(c)
  <2>1. IsDirect(c) BY <1>0, <1>1 DEF IsDirect, Stable, Exists
  <2>2. PICK s \in Requests : loc[s].made /\ loc[s].conv = c BY <2>1 DEF MadeByRequest
  <2> QED BY <2>2, MadeStays
<1>2. CASE ~Exists(c)
  <2>1. Opened(r, c) \/ Founded(r, c)
    BY <1>2, ConversationStep DEF Kept, Previewed, Linked, IsDirect, Exists
  <2> QED BY <2>1 DEF Opened, Founded
<1> QED BY <1>1, <1>2

-----------------------------------------------------------------------------
(* Half made groups.                                                       *)

\* The two excuses HalfMadeGroupExplained knows.
Creator(g, steps) ==
    \E r \in Requests : loc[r].group = g /\ pc[r] \in steps \cup {"failed"}

OwnerLeft(g) ==
    \E r \in Requests : /\ env[r] # Null
                        /\ env[r].op = "leave"
                        /\ env[r].to = g
                        /\ env[r].from = groups[g].owner
                        /\ pc[r] \in {"done", "lost"}

Explained(g) ==
    /\ conversations[groups[g].conv].group # g => Creator(g, {"link"})
    /\ Rows(groups[g].conv, groups[g].owner) = {} =>
         Creator(g, {"link", "addOwner"}) \/ OwnerLeft(g)

\* HalfMadeGroupExplained says so of every group.
LEMMA ExplainedAll ==
  HalfMadeGroupExplained <=> \A g \in GroupIds : groups[g] # Null => Explained(g)
BY DEF HalfMadeGroupExplained, Explained, Creator, OwnerLeft

\* A group that has just been inserted has its creator.
LEMMA NewGroupExplained ==
  ASSUME TypeOK, RequestInv, NEW r \in Requests, Act(r),
         NEW g \in GroupIds, groups[g] = Null, groups'[g] # Null
  PROVE  Explained(g)'
<1>1. InsertGroup(r) /\ loc'[r].group = g BY NewGroup
<1>2. pc'[r] = "link"
  <2>1. groups' # groups OBVIOUS
  <2> QED BY <1>1, <2>1 DEF InsertGroup, Goto, TypeOK
<1> QED BY <1>1, <1>2 DEF Explained, Creator

\* A conversation loses its excuse for not pointing at its group only by
\* pointing at it.
LEMMA LinkExplained ==
  ASSUME TypeOK, RequestInv, GroupLinkConsistent, GroupProgress, NEW r \in Requests, Act(r),
         NEW g \in GroupIds, groups[g] # Null, Explained(g),
         conversations'[groups[g].conv].group # g
  PROVE  \E s \in Requests : loc'[s].group = g /\ pc'[s] \in {"link", "failed"}
<1> DEFINE c == groups[g].conv
<1>c. c \in ConvIds /\ Exists(c) BY DEF TypeOK, GroupRow, GroupLinkConsistent
<1>conv. conversations \in [ConvIds -> ConvRow \cup {Null}] BY DEF TypeOK
<1>1. conversations[c].group # g
  <2> SUFFICES ASSUME conversations[c].group = g PROVE FALSE OBVIOUS
  <2>1. conversations[c].group # Null BY DEF PartyIds
  <2> QED BY <1>c, <2>1, LinkStays
<1>2. PICK s \in Requests : loc[s].group = g /\ pc[s] \in {"link", "failed"}
  BY <1>1 DEF Explained, Creator
<1>3. CASE s # r
  <2>1. loc'[s] = loc[s] /\ pc'[s] = pc[s] BY <1>3, OthersUnchanged
  <2> QED BY <1>2, <2>1
<1>4. CASE s = r
  <2>1. pc[r] = "link" BY <1>2, <1>4, MakerMoves DEF Finished
  <2>2. loc[r].conv = c BY <1>2, <1>4, <2>1 DEF GroupProgress
  <2>3. CASE Abort(r)
    <3>1. loc' = loc /\ pc'[r] = "failed" BY <2>3 DEF Abort, Goto, TypeOK
    <3> QED BY <1>2, <1>4, <3>1
  <2>4. CASE LinkGroup(r)
    <3>1. conversations'[c] = [conversations[c] EXCEPT !.group = g]
      BY <2>2, <2>4, <1>c, <1>2, <1>4, <1>conv DEF LinkGroup
    <3>2. conversations[c] \in ConvRow BY <1>c, <1>conv DEF Exists
    <3>3. conversations'[c].group = g BY <3>1, <3>2 DEF ConvRow
    <3> QED BY <3>3
  <2> QED BY <2>1, <2>3, <2>4, GroupExits
<1> QED BY <1>3, <1>4

\* After INSERT ... ON CONFLICT DO NOTHING the party is on the roster.
LEMMA AddedIsThere ==
  ASSUME NEW c, NEW id, NEW kind, AddParticipant(c, id, kind)
  PROVE  \E p \in participants' : p.conv = c /\ p.id = id
<1>1. CASE \E p \in participants : p.conv = c /\ p.id = id /\ p.kind = kind
  BY <1>1 DEF AddParticipant
<1>2. CASE ~\E p \in participants : p.conv = c /\ p.id = id /\ p.kind = kind
  <2>1. PICK new : new = [conv |-> c, id |-> id, kind |-> kind, joined |-> clock] OBVIOUS
  <2>2. new \in participants' BY <1>2, <2>1 DEF AddParticipant
  <2>3. new.conv = c /\ new.id = id BY <2>1
  <2> QED BY <2>2, <2>3
<1> QED BY <1>1, <1>2

\* The owner is missing from the roster only before AddOwner or after a leave.
LEMMA OwnerExplained ==
  ASSUME TypeOK, RequestInv, GroupLinkConsistent, GroupProgress, GroupWork,
         NEW r \in Requests, Act(r),
         NEW g \in GroupIds, groups[g] # Null, Explained(g),
         \A p \in participants' : p.conv = groups[g].conv => p.id # groups[g].owner
  PROVE  \/ \E s \in Requests : loc'[s].group = g /\ pc'[s] \in {"link", "addOwner", "failed"}
         \/ \E s \in Requests : /\ env'[s] # Null
                                /\ env'[s].op = "leave"
                                /\ env'[s].to = g
                                /\ env'[s].from = groups[g].owner
                                /\ pc'[s] \in {"done", "lost"}
<1>1. CASE Rows(groups[g].conv, groups[g].owner) = {} /\ Creator(g, {"link", "addOwner"})
  <2>1. PICK s \in Requests : loc[s].group = g /\ pc[s] \in {"link", "addOwner", "failed"}
    BY <1>1 DEF Creator
  <2>2. CASE s # r
    <3>1. loc'[s] = loc[s] /\ pc'[s] = pc[s] BY <2>2, OthersUnchanged
    <3> QED BY <2>1, <3>1
  <2>3. CASE s = r
    <3>1. pc[r] \in {"link", "addOwner"} BY <2>1, <2>3, MakerMoves DEF Finished
    <3>2. loc[r].conv = groups[g].conv /\ env[r].from = groups[g].owner
      BY <2>1, <2>3, <3>1 DEF GroupProgress, GroupWork
    <3>3. CASE Abort(r)
      <4>1. loc' = loc /\ pc'[r] = "failed" BY <3>3 DEF Abort, Goto, TypeOK
      <4> QED BY <2>1, <2>3, <4>1
    <3>4. CASE LinkGroup(r)
      <4>1. loc' = loc /\ pc'[r] = "addOwner" BY <3>4 DEF LinkGroup, Goto, TypeOK
      <4> QED BY <2>1, <2>3, <4>1
    <3>5. CASE AddOwner(r)
      <4>1. AddParticipant(groups[g].conv, groups[g].owner, "user") BY <3>2, <3>5 DEF AddOwner
      <4>2. \E p \in participants' : p.conv = groups[g].conv /\ p.id = groups[g].owner
        BY <4>1, AddedIsThere
      <4> QED BY <4>2
    <3> QED BY <3>1, <3>3, <3>4, <3>5, GroupExits
  <2> QED BY <2>2, <2>3
<1>2. CASE OwnerLeft(g)
  <2>1. PICK s \in Requests : /\ env[s] # Null /\ env[s].op = "leave" /\ env[s].to = g
                              /\ env[s].from = groups[g].owner /\ pc[s] \in {"done", "lost"}
    BY <1>2 DEF OwnerLeft
  <2>2. s # r BY <2>1, MakerMoves DEF Finished
  <2>3. env'[s] = env[s] /\ pc'[s] = pc[s] BY <2>2, OthersUnchanged
  <2> QED BY <2>1, <2>3
<1>3. CASE Rows(groups[g].conv, groups[g].owner) # {}
  <2>1. PICK p \in participants : p.conv = groups[g].conv /\ p.id = groups[g].owner
    BY <1>3 DEF Rows
  <2>2. p \notin participants' BY <2>1
  <2>3. RemoveParticipant(r)
    BY <2>2, RosterFootprint DEF AddLow, AddHigh, AddOwner, AddParticipant
  <2>4. loc[r].conv = groups[g].conv /\ env[r].from = groups[g].owner
    BY <2>1, <2>2, <2>3 DEF RemoveParticipant
  <2>5. pc[r] = "remove" BY <2>3 DEF RemoveParticipant
  <2>6. /\ env[r].to \in GroupIds /\ groups[env[r].to] # Null
        /\ groups[env[r].to].conv = groups[g].conv
    BY <2>4, <2>5 DEF GroupWork, GroupFound
  <2>7. env[r].to = g BY <2>6 DEF GroupLinkConsistent
  <2>8. env[r] # Null /\ env[r].op = "leave" BY <2>5 DEF RequestInv, ControlOf
  <2>9. env' = env /\ pc'[r] \in {"done", "lost"}
    BY <2>3 DEF RemoveParticipant, Goto, Reply, TypeOK
  <2> QED BY <2>4, <2>7, <2>8, <2>9
<1> QED BY <1>1, <1>2, <1>3 DEF Explained

\* Every step keeps the excuses of the half made groups.
LEMMA HalfMadeStep ==
  ASSUME TypeOK, RequestInv, GroupLinkConsistent, GroupProgress, GroupWork,
         HalfMadeGroupExplained, NEW r \in Requests, Act(r)
  PROVE  HalfMadeGroupExplained'
<1> SUFFICES ASSUME NEW g \in GroupIds, groups'[g] # Null PROVE Explained(g)'
  BY DEF HalfMadeGroupExplained, Explained, Creator, OwnerLeft
<1>1. CASE groups[g] = Null BY <1>1, NewGroupExplained
<1>2. CASE groups[g] # Null
  <2>1. groups'[g] = groups[g] BY <1>2, StableStep DEF Stable
  <2>2. Explained(g) BY <1>2, ExplainedAll
  <2>3. conversations'[groups[g].conv].group # g => Creator(g, {"link"})'
    BY <1>2, <2>2, LinkExplained DEF Creator
  <2>4. Rows(groups[g].conv, groups[g].owner)' = {} =>
          (Creator(g, {"link", "addOwner"}) \/ OwnerLeft(g))'
    <3> SUFFICES ASSUME \A p \in participants' : p.conv = groups[g].conv => p.id # groups[g].owner
                 PROVE  (Creator(g, {"link", "addOwner"}) \/ OwnerLeft(g))'
      BY <2>1 DEF Rows
    <3> QED BY <1>2, <2>1, <2>2, OwnerExplained DEF Creator, OwnerLeft
  <2> QED BY <2>1, <2>3, <2>4 DEF Explained, Rows
<1> QED BY <1>1, <1>2

-----------------------------------------------------------------------------
(* What holds whatever fails.                                              *)

\* The empty database satisfies the second layer too.
LEMMA InitWork == Init => WorkInv
BY DEF Init, WorkInv, GroupWork, LinkedRosters, MadeByRequest, HalfMadeGroupExplained,
       IsDirect, Exists

\* Every statement of every handler preserves the second layer.
LEMMA StepWork == IInv /\ WorkInv /\ [Next]_vars => WorkInv'
<1> SUFFICES ASSUME IInv, WorkInv, [Next]_vars PROVE WorkInv' OBVIOUS
<1>1. ASSUME NEW r \in Requests, Act(r) PROVE WorkInv'
  BY <1>1, GroupWorkStep, LinkedRostersStep, MadeByRequestStep, HalfMadeStep DEF IInv, WorkInv
<1>2. CASE UNCHANGED <<conversations, participants, groups, pc, env, loc>>
  <2> USE <1>2 DEF WorkInv
  <2>1. GroupWork' BY DEF GroupWork, GroupFound
  <2>2. LinkedRosters' BY DEF LinkedRosters
  <2>3. MadeByRequest' BY DEF MadeByRequest, IsDirect, Exists
  <2>4. HalfMadeGroupExplained' BY DEF HalfMadeGroupExplained, Rows
  <2> QED BY <2>1, <2>2, <2>3, <2>4
<1>3. CASE Tick \/ Idle \/ UNCHANGED vars BY <1>2, <1>3 DEF Tick, Idle, tables, vars
<1> QED BY <1>1, <1>3 DEF Next, Act

\* Both layers hold in every reachable state.
THEOREM WorkInvariance == Spec => [](IInv /\ WorkInv)
BY InitIInv, InitWork, StepIInv, StepWork, PTL DEF Spec

\* A group without a back pointer or without its owner has a CreateGroup that
\* is still running or died, or its owner has left: for any number of
\* CreateGroups and leaves in flight (CreateGroup, LeaveGroup).
THEOREM HalfMadeExplained == Spec => []HalfMadeGroupExplained
<1>1. IInv /\ WorkInv => HalfMadeGroupExplained BY DEF WorkInv
<1> QED BY <1>1, WorkInvariance, PTL

\* The two sides of a direct conversation are told apart by OtherSide.
LEMMA OtherSideIsOther ==
  ASSUME NEW c \in ConvIds, NEW id \in Pair(c)
  PROVE  {OtherSide(c, id), id} = Pair(c)
BY DEF Pair, OtherSide

\* Whoever is on a roster finds the conversation on the list, with the other
\* side or the group it belongs to, at every moment of every handler
\* (ListItems).
THEOREM EveryRosterIsListed == Spec => []RosterIsListed
<1>1. IInv /\ WorkInv => RosterIsListed
  <2> SUFFICES ASSUME IInv, WorkInv, NEW p \in participants
               PROVE  \E item \in ListItems(p.id, p.kind) :
                        /\ item.conv = p.conv
                        /\ IF IsDirect(p.conv) THEN {item.ref, p.id} = Pair(p.conv)
                           ELSE groups[item.ref] # Null /\ groups[item.ref].conv = p.conv
    BY DEF RosterIsListed
  <2>1. p.conv \in ConvIds /\ Exists(p.conv) /\ p \in Joined(p.id, p.kind)
    BY DEF IInv, TypeOK, ParticipantRow, Rosters, Joined
  <2>2. CASE IsDirect(p.conv)
    <3>1. PICK item : item = DirectItem(p.conv, p.id) OBVIOUS
    <3>2. item \in ListItems(p.id, p.kind) BY <2>1, <2>2, <3>1 DEF ListItems, DirectItems
    <3>3. item.conv = p.conv /\ item.ref = OtherSide(p.conv, p.id) BY <3>1 DEF DirectItem
    <3>4. p.id \in Pair(p.conv) BY <2>2 DEF IInv, Rosters
    <3> QED BY <2>1, <2>2, <3>2, <3>3, <3>4, OtherSideIsOther
  <2>3. CASE ~IsDirect(p.conv)
    <3>1. PICK item : item = GroupItem(p.conv) OBVIOUS
    <3>2. conversations[p.conv].type = "group"
      BY <2>1, <2>3 DEF IInv, TypeOK, ConvRow, IsDirect, Exists
    <3>3. conversations[p.conv].group # Null BY <3>2 DEF WorkInv, LinkedRosters
    <3>4. item \in ListItems(p.id, p.kind)
      BY <2>1, <3>1, <3>2, <3>3 DEF ListItems, GroupItems
    <3>5. item.conv = p.conv /\ item.ref = conversations[p.conv].group
      BY <3>1 DEF GroupItem
    <3>6. /\ groups[conversations[p.conv].group] # Null
          /\ groups[conversations[p.conv].group].conv = p.conv
      BY <2>1, <3>3 DEF IInv, GroupLinkConsistent
    <3> QED BY <2>3, <3>4, <3>5, <3>6
  <2> QED BY <2>2, <2>3
<1> QED BY <1>1, WorkInvariance, PTL

-----------------------------------------------------------------------------
(* Refusals.                                                               *)

\* A SELECT that failed is never forgotten.
LEMMA MissedGrows ==
  ASSUME TypeOK, NEW r \in Requests, Act(r), NEW s \in Requests
  PROVE  loc[s].missed \subseteq loc'[s].missed
<1>loc. loc \in [Requests -> Locals] BY DEF TypeOK
<1>0. CASE s # r BY <1>0, OthersUnchanged
<1>1. CASE s = r
  <2>0. ASSUME loc' = loc PROVE loc[r].missed \subseteq loc'[r].missed BY <2>0
  <2> USE <1>loc DEF Locals
  <2>1. CASE Arrive(r)
    BY <2>0, <2>1 DEF Arrive, StartSend, StartInfo, StartReplay, StartCreateGroup, StartLeave,
                      StartDelete
  <2>2. CASE ResolveFromKind(r) BY <2>2 DEF ResolveFromKind, Missed
  <2>3. CASE ResolveGroup(r) BY <2>3 DEF ResolveGroup, Missed
  <2>4. CASE ResolveToKind(r) BY <2>4 DEF ResolveToKind, Missed
  <2>5. CASE InfoLookup(r) BY <2>5 DEF InfoLookup
  <2>6. CASE FindDirect(r) BY <2>6 DEF FindDirect
  <2>7. ASSUME NEW c, loc' = [loc EXCEPT ![r].conv = c, ![r].made = TRUE]
        PROVE  loc[r].missed \subseteq loc'[r].missed
    BY <2>7
  <2>8. CASE CreateDirect(r) \/ InsertGroupConversation(r)
    BY <2>0, <2>7, <2>8 DEF CreateDirect, InsertGroupConversation
  <2>9. CASE InsertGroup(r) BY <2>9 DEF InsertGroup
  <2>10. CASE \/ AddLow(r) \/ AddHigh(r) \/ Save(r) \/ LinkGroup(r) \/ AddOwner(r)
              \/ RemoveParticipant(r) \/ DeleteAgent(r) \/ Abort(r)
    BY <2>0, <2>10 DEF AddLow, AddHigh, Save, LinkGroup, AddOwner, RemoveParticipant,
                       DeleteAgent, Abort
  <2> QED BY <1>1, <2>1, <2>2, <2>3, <2>4, <2>5, <2>6, <2>8, <2>9, <2>10
          DEF Act, Proceed, Persist, Administer
<1> QED BY <1>0, <1>1

\* A message request that fails without dying was refused by CreateDirect, or
\* its own SELECT of the conversation failed.
LEMMA RefusedByCreate ==
  ASSUME TypeOK, RequestInv, NEW r \in Requests, Act(r), ~Abort(r),
         pc'[r] = "failed", Sending(r)'
  PROVE  \/ "find" \in loc'[r].missed
         \/ /\ pc[r] = "create" /\ env' = env
            /\ IdLow(r) >= IdHigh(r) \/ ~PairFree(r)
<1>pc. pc \in [Requests -> Steps] BY DEF TypeOK
<1>loc. loc \in [Requests -> Locals] BY DEF TypeOK
<1> USE <1>pc DEF Goto, Reply
<1>1. ~Arrive(r)
  BY DEF Arrive, Start, StartSend, StartInfo, StartReplay, StartCreateGroup, StartLeave,
         StartDelete
<1>2. ~InfoLookup(r) BY DEF InfoLookup, RequestInv, ControlOf, Sending
<1>3. ~Administer(r)
  <2>1. pc[r] \in {"newConv", "newGroup", "link", "addOwner", "remove", "delete"} =>
          env[r].op \in {"createGroup", "leave", "deleteAgent"}
    BY DEF RequestInv, ControlOf, GroupSteps
  <2> QED BY <2>1 DEF Administer, InsertGroupConversation, InsertGroup, LinkGroup, AddOwner,
                      RemoveParticipant, DeleteAgent, Sending
<1>4. CASE FindDirect(r)
  <2>1. loc' = [loc EXCEPT ![r].missed = @ \cup {"find"}]
    BY <1>4 DEF FindDirect, AfterDirect
  <2>2. loc'[r].missed = loc[r].missed \cup {"find"} BY <2>1, <1>loc DEF Locals
  <2> QED BY <2>2
<1>5. CASE ~FindDirect(r)
  <2>1. CreateDirect(r)
    BY <1>1, <1>2, <1>3, <1>5 DEF Act, Proceed, Persist, ResolveFromKind, ResolveGroup,
       ResolveToKind, AfterDirect, AddLow, AddHigh, Save
  <2> QED BY <2>1 DEF CreateDirect
<1> QED BY <1>4, <1>5

\* Every refusal keeps its explanation, and a new one has it.
LEMMA RefusalStep ==
  ASSUME TypeOK, RequestInv, MadeByRequest, RefusalExplained, ~Aborts,
         NEW r \in Requests, Act(r)
  PROVE  RefusalExplained'
<1>0. Stable BY StableStep
<1> SUFFICES ASSUME NEW q \in Requests, pc'[q] = "failed", env'[q].op \in {"send", "replay"},
                    env'[q].from # env'[q].to
             PROVE  \/ "find" \in loc'[q].missed
                    \/ \E s \in Requests \ {q} :
                         loc'[s].made /\ Pair(loc[s].conv)' = {env'[q].from, env'[q].to}
  BY DEF RefusalExplained
<1>1. ASSUME NEW s \in Requests, loc[s].made
      PROVE  loc'[s].made /\ Pair(loc[s].conv)' = Pair(loc[s].conv)
  <2>1. loc[s].conv \in ConvIds /\ Exists(loc[s].conv) BY <1>1 DEF RequestInv, MakerOf
  <2>2. loc'[s].made /\ loc'[s].conv = loc[s].conv BY <1>1, MadeStays
  <2> QED BY <1>0, <2>1, <2>2 DEF Stable, Pair
<1>2. CASE q # r
  <2>1. pc[q] = "failed" /\ env'[q] = env[q] BY <1>2, OthersUnchanged
  <2>2. CASE "find" \in loc[q].missed BY <2>2, MissedGrows
  <2>3. CASE "find" \notin loc[q].missed
    <3>1. PICK s \in Requests \ {q} :
            loc[s].made /\ Pair(loc[s].conv) = {env[q].from, env[q].to}
      BY <2>1, <2>3 DEF RefusalExplained
    <3> QED BY <1>1, <2>1, <3>1
  <2> QED BY <2>2, <2>3
<1>3. CASE q = r /\ "find" \in loc'[r].missed BY <1>3
<1>4. CASE q = r /\ "find" \notin loc'[r].missed
  <2>1. pc[r] = "create" /\ env' = env /\ (IdLow(r) >= IdHigh(r) \/ ~PairFree(r))
    BY <1>4, RefusedByCreate DEF Abort, Sending
  <2>2. env[r].from \in Nat /\ env[r].to \in Nat
    <3>1. env[r] # Null /\ env[r].to \in PartyIds
      BY <2>1 DEF RequestInv, ControlOf, DirectSteps
    <3>2. env[r].from \in PartyIds BY <3>1 DEF TypeOK, Call
    <3> QED BY <3>1, <3>2
  <2>3. ~(IdLow(r) >= IdHigh(r)) BY <1>4, <2>1, <2>2 DEF IdLow, IdHigh
  <2>4. PICK c \in DirectOf(IdLow(r), IdHigh(r)) : TRUE BY <2>1, <2>3 DEF PairFree
  <2>5. c \in ConvIds /\ IsDirect(c) /\ Pair(c) = {IdLow(r), IdHigh(r)}
    BY <2>4 DEF DirectOf, Pair
  <2>6. {IdLow(r), IdHigh(r)} = {env[r].from, env[r].to} BY DEF IdLow, IdHigh
  <2>7. PICK s \in Requests : loc[s].made /\ loc[s].conv = c BY <2>5 DEF MadeByRequest
  <2>8. ~loc[r].made BY <2>1 DEF RequestInv, MakerOf
  <2>9. s # r BY <2>7, <2>8
  <2> QED BY <1>1, <1>4, <2>1, <2>5, <2>6, <2>7, <2>9
<1> QED BY <1>2, <1>3, <1>4

\* When no request dies, a message is refused only to a sender who writes to
\* itself, whose own SELECT of the conversation failed, or who lost the race to
\* open the conversation, for any number of concurrent requests
\* (GetOrCreateDirect).
THEOREM RefusalsExplained == ~Aborts => (Spec => []RefusalExplained)
<1> SUFFICES ASSUME ~Aborts PROVE Spec => []RefusalExplained OBVIOUS
<1>1. Init => RefusalExplained BY DEF Init, RefusalExplained
<1>2. IInv /\ WorkInv /\ RefusalExplained /\ [Next]_vars => RefusalExplained'
  <2> SUFFICES ASSUME IInv, WorkInv, RefusalExplained, [Next]_vars PROVE RefusalExplained'
    OBVIOUS
  <2>1. ASSUME NEW r \in Requests, Act(r) PROVE RefusalExplained'
    BY <2>1, RefusalStep DEF IInv, WorkInv
  <2>2. CASE UNCHANGED <<conversations, pc, env, loc>>
    BY <2>2 DEF RefusalExplained, Pair
  <2>3. CASE Tick \/ Idle \/ UNCHANGED vars BY <2>2, <2>3 DEF Tick, Idle, tables, vars
  <2> QED BY <2>1, <2>3 DEF Next, Act
<1> QED BY <1>1, <1>2, WorkInvariance, PTL DEF Spec

-----------------------------------------------------------------------------
(* What the lookups are worth: kinds.                                      *)

\* A wrong kind is "user", and then the agent is gone.
LEMMA KindCases ==
  ASSUME NEW id, NEW kind
  PROVE  KindOK(id, kind) <=> /\ kind = "agent" => id \in AgentIds
                              /\ kind # "agent" => id \notin AgentIds \/ id \notin agents
<1>1. ((kind = "agent") # (id \in AgentIds)) <=> ~((kind = "agent") <=> (id \in AgentIds))
  OBVIOUS
<1> QED BY <1>1 DEF KindOK

\* An agent that is gone stays gone, so a kind that was right stays excused.
LEMMA KindStays ==
  ASSUME NEW id, NEW kind, KindOK(id, kind), agents' \subseteq agents
  PROVE  KindOK(id, kind)'
<1>1. /\ kind = "agent" => id \in AgentIds
      /\ kind # "agent" => id \notin AgentIds \/ id \notin agents
  BY KindCases
<1>2. /\ kind = "agent" => id \in AgentIds
      /\ kind # "agent" => id \notin AgentIds \/ id \notin agents'
  BY <1>1
<1> QED BY <1>2, Zenon DEF KindOK

\* Agents are only ever deleted.
LEMMA AgentsShrink ==
  ASSUME NEW r \in Requests, Act(r)
  PROVE  agents' \subseteq agents
<1>1. CASE Arrive(r)
  BY <1>1 DEF Arrive, Start, StartSend, StartInfo, StartReplay, StartCreateGroup,
              StartLeave, StartDelete, tables
<1>2. CASE Persist(r)
  BY <1>2 DEF Persist, ResolveFromKind, ResolveGroup, ResolveToKind, InfoLookup,
              FindDirect, CreateDirect, AddLow, AddHigh, Save, tables
<1>3. CASE Administer(r)
  BY <1>3 DEF Administer, InsertGroupConversation, InsertGroup, LinkGroup, AddOwner,
              RemoveParticipant, DeleteAgent
<1>4. CASE Abort(r) BY <1>4 DEF Abort, tables
<1> QED BY <1>1, <1>2, <1>3, <1>4 DEF Act, Proceed

\* What a request's kinds are worth at each of its statements.
FromKnown(r) ==
    pc[r] \in {"toGroup", "toKind", "infoLookup", "save"} \cup DirectSteps =>
        KindOK(env[r].from, loc[r].fromKind) \/ "fromKind" \in loc[r].missed
ToKnown(r) ==
    pc[r] \in DirectSteps => KindOK(env[r].to, loc[r].toKind) \/ "toKind" \in loc[r].missed

\* Where the kinds of a request come from: a lookup it has just made, which may
\* have failed, or the statement before.
LEMMA KindSources ==
  ASSUME TypeOK, NEW r \in Requests, Act(r)
  PROVE  /\ pc'[r] \in {"toGroup", "toKind", "infoLookup", "save"} \cup DirectSteps =>
              \/ /\ pc[r] \in {"toGroup", "toKind", "infoLookup"} \cup DirectSteps
                 /\ env'[r].from = env[r].from /\ loc'[r].fromKind = loc[r].fromKind
              \/ /\ env'[r].from \in AgentIds \cup UserIds
                 /\ loc'[r].fromKind = CallerKind(env'[r].from)
              \/ env'[r].from \in agents /\ loc'[r].fromKind = "agent"
              \/ env'[r].from \notin agents /\ loc'[r].fromKind = "user"
              \/ "fromKind" \in loc'[r].missed
         /\ pc'[r] \in DirectSteps =>
              \/ /\ pc[r] \in DirectSteps
                 /\ env'[r].to = env[r].to /\ loc'[r].toKind = loc[r].toKind
              \/ /\ env'[r].to \in AgentIds \cup UserIds
                 /\ loc'[r].toKind = CallerKind(env'[r].to)
              \/ env'[r].to \in agents /\ loc'[r].toKind = "agent"
              \/ env'[r].to \notin agents /\ loc'[r].toKind = "user"
              \/ "toKind" \in loc'[r].missed
<1>pc. pc \in [Requests -> Steps] BY DEF TypeOK
<1>env. env \in [Requests -> Call \cup {Null}] BY DEF TypeOK
<1>loc. loc \in [Requests -> Locals] BY DEF TypeOK
<1>ag. agents \subseteq AgentIds BY DEF TypeOK
<1> USE <1>pc, <1>loc DEF Goto, Reply, DirectSteps
<1>1. CASE Arrive(r)
  <2>1. CASE \E from \in UserIds \cup AgentIds, to \in Addressees : StartInfo(r, from, to)
    <3>1. PICK from \in UserIds \cup AgentIds, to \in Addressees : StartInfo(r, from, to)
      BY <2>1
    <3>2. env'[r].from = from BY <3>1, <1>env DEF StartInfo, Start
    <3>3. loc'[r].fromKind = CallerKind(from) BY <3>1 DEF StartInfo, Locals
    <3>4. pc'[r] = "infoLookup" BY <3>1 DEF StartInfo, Start
    <3> QED BY <3>2, <3>3, <3>4
  <2>2. CASE ~\E from \in UserIds \cup AgentIds, to \in Addressees : StartInfo(r, from, to)
    <3>1. pc'[r] \in {"fromKind", "newConv", "remove", "delete"}
      BY <1>1, <2>2 DEF Arrive, Start, StartSend, StartReplay, StartCreateGroup,
                        StartLeave, StartDelete
    <3> QED BY <3>1
  <2> QED BY <2>1, <2>2
<1>2. CASE ResolveFromKind(r)
  <2>1. pc'[r] = "toGroup" /\ env' = env BY <1>2 DEF ResolveFromKind
  <2>2. \/ env[r].from \in agents /\ loc'[r].fromKind = "agent"
        \/ env[r].from \notin agents /\ loc'[r].fromKind = "user"
        \/ "fromKind" \in loc'[r].missed
    BY <1>2 DEF ResolveFromKind, Locals, Missed
  <2> QED BY <2>1, <2>2
<1>3. CASE ResolveGroup(r)
  <2>1. pc'[r] \in {"toKind", "save"} /\ env' = env /\ pc[r] = "toGroup"
    BY <1>3 DEF ResolveGroup
  <2>2. loc'[r].fromKind = loc[r].fromKind BY <1>3 DEF ResolveGroup, Locals
  <2> QED BY <2>1, <2>2
<1>4. CASE ResolveToKind(r)
  <2>1. pc'[r] = "find" /\ env' = env /\ pc[r] = "toKind" BY <1>4 DEF ResolveToKind
  <2>2. \/ env[r].to \in agents /\ loc'[r].toKind = "agent"
        \/ env[r].to \notin agents /\ loc'[r].toKind = "user"
        \/ "toKind" \in loc'[r].missed
    BY <1>4 DEF ResolveToKind, Locals, Missed
  <2>3. loc'[r].fromKind = loc[r].fromKind BY <1>4 DEF ResolveToKind, Locals
  <2> QED BY <2>1, <2>2, <2>3
<1>5. CASE InfoLookup(r)
  <2>1. env' = env /\ pc[r] = "infoLookup" BY <1>5 DEF InfoLookup
  <2>2. CASE /\ env[r].to \in agents \cup UserIds
              /\ loc' = [loc EXCEPT ![r].toKind = CallerKind(env[r].to)]
    <3>1. loc'[r].toKind = CallerKind(env[r].to) /\ loc'[r].fromKind = loc[r].fromKind
      BY <2>2 DEF Locals
    <3> QED BY <2>1, <2>2, <3>1, <1>ag
  <2>3. CASE pc'[r] \in {"done", "failed"} BY <2>3
  <2> QED BY <1>5, <2>2, <2>3 DEF InfoLookup
<1>6. CASE FindDirect(r)
  <2>1. env' = env /\ pc[r] = "find" BY <1>6 DEF FindDirect
  <2>2. loc'[r].fromKind = loc[r].fromKind /\ loc'[r].toKind = loc[r].toKind
    BY <1>6 DEF FindDirect, Locals
  <2> QED BY <2>1, <2>2
<1>7. CASE CreateDirect(r)
  <2>1. env' = env /\ pc[r] = "create" BY <1>7 DEF CreateDirect
  <2>2. loc'[r].fromKind = loc[r].fromKind /\ loc'[r].toKind = loc[r].toKind
    <3>1. ASSUME NEW c \in ConvIds, loc' = [loc EXCEPT ![r].conv = c, ![r].made = TRUE]
          PROVE  loc'[r].fromKind = loc[r].fromKind /\ loc'[r].toKind = loc[r].toKind
      BY <3>1 DEF Locals
    <3> QED BY <1>7, <3>1 DEF CreateDirect
  <2> QED BY <2>1, <2>2
<1>8. CASE AddLow(r) \/ AddHigh(r)
  BY <1>8 DEF AddLow, AddHigh
<1>9. CASE Save(r) \/ Administer(r) \/ Abort(r)
  <2>1. pc'[r] \in {"done", "lost", "failed", "newGroup", "link", "addOwner"}
    BY <1>9 DEF Save, Administer, Abort, InsertGroupConversation, InsertGroup, LinkGroup,
                AddOwner, RemoveParticipant, DeleteAgent
  <2> QED BY <2>1
<1> QED BY <1>1, <1>2, <1>3, <1>4, <1>5, <1>6, <1>7, <1>8, <1>9 DEF Act, Proceed, Persist

\* CallerKind is right, and so is a lookup.
LEMMA LookedUp ==
  ASSUME TypeOK, NEW id, NEW kind, agents' \subseteq agents,
         \/ id \in AgentIds \cup UserIds /\ kind = CallerKind(id)
         \/ id \in agents /\ kind = "agent"
         \/ id \notin agents /\ kind = "user"
  PROVE  KindOK(id, kind)'
<1>1. /\ kind = "agent" => id \in AgentIds
      /\ kind # "agent" => id \notin AgentIds \/ id \notin agents'
  BY DEF CallerKind, TypeOK
<1>2. ((kind = "agent") # (id \in AgentIds)) <=> ~((kind = "agent") <=> (id \in AgentIds))
  OBVIOUS
<1> QED BY <1>1, <1>2 DEF KindOK

\* The kinds a request has looked up stay right or excused.
LEMMA KindsKnownStep ==
  ASSUME TypeOK, KindsKnown, NEW r \in Requests, Act(r)
  PROVE  KindsKnown'
<1>0. agents' \subseteq agents BY AgentsShrink
<1>m. \A s \in Requests : loc[s].missed \subseteq loc'[s].missed BY MissedGrows
<1> SUFFICES ASSUME NEW s \in Requests PROVE (FromKnown(s) /\ ToKnown(s))'
  BY DEF KindsKnown, FromKnown, ToKnown
<1>1. FromKnown(s) /\ ToKnown(s) BY DEF KindsKnown, FromKnown, ToKnown
<1>2. CASE s # r
  <2>1. pc'[s] = pc[s] /\ env'[s] = env[s] /\ loc'[s] = loc[s] BY <1>2, OthersUnchanged
  <2>2. KindOK(env[s].from, loc[s].fromKind) => KindOK(env[s].from, loc[s].fromKind)'
    <3> SUFFICES ASSUME NEW id, NEW kind, KindOK(id, kind) PROVE KindOK(id, kind)'
      BY <2>1 DEF KindOK
    <3> QED BY <1>0, KindStays
  <2>3. KindOK(env[s].to, loc[s].toKind) => KindOK(env[s].to, loc[s].toKind)'
    <3> SUFFICES ASSUME NEW id, NEW kind, KindOK(id, kind) PROVE KindOK(id, kind)'
      BY <2>1 DEF KindOK
    <3> QED BY <1>0, KindStays
  <2> QED BY <1>1, <2>1, <2>2, <2>3 DEF FromKnown, ToKnown
<1>3. CASE s = r
  <2>1. PICK from, fromKind, to, toKind :
          /\ from = env'[r].from /\ fromKind = loc'[r].fromKind
          /\ to = env'[r].to /\ toKind = loc'[r].toKind
    OBVIOUS
  <2>2. pc'[r] \in {"toGroup", "toKind", "infoLookup", "save"} \cup DirectSteps =>
          KindOK(from, fromKind)' \/ "fromKind" \in loc'[r].missed
    BY <1>0, <1>m, <1>1, <1>3, <2>1, KindSources, KindStays, LookedUp DEF FromKnown
  <2>3. pc'[r] \in DirectSteps => KindOK(to, toKind)' \/ "toKind" \in loc'[r].missed
    BY <1>0, <1>m, <1>1, <1>3, <2>1, KindSources, KindStays, LookedUp DEF ToKnown
  <2>4. FromKnown(r)' BY <2>1, <2>2 DEF FromKnown, KindOK
  <2>5. ToKnown(r)' BY <2>1, <2>3 DEF ToKnown, KindOK
  <2> QED BY <1>3, <2>4, <2>5
<1> QED BY <1>2, <1>3

\* The request that made a conversation missed a kind.
MakerMissed(c) ==
    \E r \in Requests : /\ loc[r].made
                        /\ loc[r].conv = c
                        /\ loc[r].missed \cap {"fromKind", "toKind"} # {}

\* MisfiledOnlyIfDeleted speaks of KindOK, row by row.
LEMMA MisfiledRows ==
  MisfiledOnlyIfDeleted <=>
    /\ \A p \in participants : KindOK(p.id, p.kind) \/ MakerMissed(p.conv)
    /\ \A m \in Requests : messages[m] # Null =>
          KindOK(messages[m].from, messages[m].kind) \/ "fromKind" \in loc[m].missed
BY DEF MisfiledOnlyIfDeleted, KindOK, MakerMissed

\* The kind of a row that appears in a roster was looked up by its writer, who
\* made the conversation if it is a direct one.
LEMMA NewRowKind ==
  ASSUME TypeOK, RequestInv, KindsKnown, NEW r \in Requests, Act(r),
         NEW p \in participants', p \notin participants
  PROVE  KindOK(p.id, p.kind) \/ MakerMissed(p.conv)
<1>1. CASE AddLow(r)
  <2>1. /\ pc[r] \in DirectSteps /\ p.id = IdLow(r) /\ p.kind = KindLow(r)
        /\ p.conv = loc[r].conv /\ loc[r].made
    BY <1>1 DEF AddLow, AddParticipant, DirectSteps, RequestInv, MakerOf
  <2>2. \/ KindOK(env[r].from, loc[r].fromKind) /\ KindOK(env[r].to, loc[r].toKind)
        \/ MakerMissed(p.conv)
    BY <2>1 DEF KindsKnown, MakerMissed
  <2> QED BY <2>1, <2>2 DEF IdLow, KindLow
<1>2. CASE AddHigh(r)
  <2>1. /\ pc[r] \in DirectSteps /\ p.id = IdHigh(r) /\ p.kind = KindHigh(r)
        /\ p.conv = loc[r].conv /\ loc[r].made
    BY <1>2 DEF AddHigh, AddParticipant, DirectSteps, RequestInv, MakerOf
  <2>2. \/ KindOK(env[r].from, loc[r].fromKind) /\ KindOK(env[r].to, loc[r].toKind)
        \/ MakerMissed(p.conv)
    BY <2>1 DEF KindsKnown, MakerMissed
  <2> QED BY <2>1, <2>2 DEF IdHigh, KindHigh
<1>3. CASE AddOwner(r)
  <2>1. pc[r] = "addOwner" /\ p.id = env[r].from /\ p.kind = "user"
    BY <1>3 DEF AddOwner, AddParticipant
  <2>2. env[r].from \in UserIds BY <2>1 DEF RequestInv, ControlOf, GroupSteps
  <2> QED BY <2>1, <2>2, KindCases
<1>4. CASE RemoveParticipant(r) BY <1>4 DEF RemoveParticipant
<1> QED BY <1>1, <1>2, <1>3, <1>4, RosterFootprint

\* Rows already written stay excused, new rows are right.
LEMMA MisfiledStep ==
  ASSUME TypeOK, RequestInv, KindsKnown, MisfiledOnlyIfDeleted, NEW r \in Requests, Act(r)
  PROVE  MisfiledOnlyIfDeleted'
<1>0. agents' \subseteq agents BY AgentsShrink
<1>m. \A s \in Requests : loc[s].missed \subseteq loc'[s].missed BY MissedGrows
<1>1. ASSUME NEW p \in participants' PROVE KindOK(p.id, p.kind)' \/ MakerMissed(p.conv)'
  <2>1. KindOK(p.id, p.kind) \/ MakerMissed(p.conv) BY MisfiledRows, NewRowKind
  <2>2. CASE KindOK(p.id, p.kind) BY <1>0, <2>2, KindStays
  <2>3. CASE MakerMissed(p.conv)
    <3>1. PICK s \in Requests : /\ loc[s].made
                                /\ loc[s].conv = p.conv
                                /\ loc[s].missed \cap {"fromKind", "toKind"} # {}
      BY <2>3 DEF MakerMissed
    <3>2. loc'[s].made /\ loc'[s].conv = p.conv BY <3>1, MadeStays
    <3>3. loc'[s].missed \cap {"fromKind", "toKind"} # {} BY <3>1, <1>m
    <3> QED BY <3>2, <3>3 DEF MakerMissed
  <2> QED BY <2>1, <2>2, <2>3
<1>2. ASSUME NEW m \in Requests, messages'[m] # Null
      PROVE  KindOK(messages[m].from, messages[m].kind)' \/ "fromKind" \in loc'[m].missed
  <2>1. PICK from, kind : from = messages'[m].from /\ kind = messages'[m].kind OBVIOUS
  <2>2. CASE messages'[m] = messages[m]
    <3>1. KindOK(from, kind) \/ "fromKind" \in loc[m].missed BY <1>2, <2>1, <2>2, MisfiledRows
    <3>2. KindOK(from, kind)' \/ "fromKind" \in loc'[m].missed BY <1>0, <1>m, <3>1, KindStays
    <3> QED BY <2>1, <3>2 DEF KindOK
  <2>3. CASE messages'[m] # messages[m]
    <3>1. m = r /\ Save(r) BY <2>3, OthersUnchanged, MessageFootprint
    <3>2. KindOK(env[r].from, loc[r].fromKind) \/ "fromKind" \in loc[r].missed
      BY <3>1 DEF Save, KindsKnown
    <3>3. from = env[r].from /\ kind = loc[r].fromKind
      BY <2>1, <3>1 DEF Save, TypeOK
    <3>4. KindOK(from, kind)' \/ "fromKind" \in loc'[m].missed
      BY <1>0, <1>m, <3>1, <3>2, <3>3, KindStays
    <3> QED BY <2>1, <3>4 DEF KindOK
  <2> QED BY <2>2, <2>3
<1> QED BY <1>1, <1>2 DEF MisfiledOnlyIfDeleted, KindOK, MakerMissed
-----------------------------------------------------------------------------
(* What the lookups are worth: the way a message takes.                    *)

\* How a message request comes to its address, and to its conversation.
LEMMA RouteSources ==
  ASSUME TypeOK, NEW r \in Requests, Act(r)
  PROVE  /\ env'[r] = env[r]
            \/ env'[r].to \in Addressees \cup ConvIds
            \/ env'[r].op \notin {"send", "replay"}
         /\ pc'[r] = "toKind" =>
              /\ env'[r] = env[r] /\ pc[r] = "toGroup"
              /\ ~GroupFound(env[r].to) \/ "toGroup" \in loc'[r].missed
         /\ pc'[r] \in DirectSteps =>
              /\ env'[r] = env[r]
              /\ pc[r] \in DirectSteps \cup {"toKind"} \/ env[r].to \in agents \cup UserIds
         /\ pc'[r] = "save" =>
              /\ env'[r] = env[r]
              /\ \/ pc[r] \in DirectSteps
                 \/ GroupFound(env[r].to) /\ loc'[r].conv = groups[env[r].to].conv
<1>pc. pc \in [Requests -> Steps] BY DEF TypeOK
<1>env. env \in [Requests -> Call \cup {Null}] BY DEF TypeOK
<1>loc. loc \in [Requests -> Locals] BY DEF TypeOK
<1> USE <1>pc DEF Goto, Reply, DirectSteps
<1>1. CASE Arrive(r)
  <2>1. pc'[r] \in {"fromKind", "infoLookup", "newConv", "remove", "delete"}
    BY <1>1 DEF Arrive, Start, StartSend, StartInfo, StartReplay, StartCreateGroup,
                StartLeave, StartDelete
  <2>2. env'[r].to \in Addressees \cup ConvIds \/ env'[r].op \notin {"send", "replay"}
    <3>1. ASSUME NEW from \in UserIds \cup AgentIds, NEW to \in Addressees, StartSend(r, from, to)
          PROVE  env'[r].to \in Addressees
      BY <3>1, <1>env DEF StartSend, Start
    <3>2. ASSUME NEW from \in UserIds \cup AgentIds, NEW to \in Addressees, StartInfo(r, from, to)
          PROVE  env'[r].op = "info"
      BY <3>2, <1>env DEF StartInfo, Start
    <3>3. ASSUME NEW m \in Requests, StartReplay(r, m) PROVE env'[r].to \in ConvIds
      <4>1. messages[m].conv \in ConvIds BY <3>3 DEF StartReplay, TypeOK, MessageRow
      <4>2. env'[r].to = messages[m].conv BY <3>3, <1>env DEF StartReplay, Start
      <4> QED BY <4>1, <4>2
    <3>4. ASSUME NEW u \in UserIds, NEW name \in GroupNames, StartCreateGroup(r, u, name)
          PROVE  env'[r].op = "createGroup"
      BY <3>4, <1>env DEF StartCreateGroup, Start
    <3>5. ASSUME NEW id \in UserIds \cup AgentIds, NEW kind \in Kinds, NEW g \in GroupIds,
                 StartLeave(r, id, kind, g)
          PROVE  env'[r].op = "leave"
      BY <3>5, <1>env DEF StartLeave, Start
    <3>6. ASSUME NEW a \in AgentIds, StartDelete(r, a) PROVE env'[r].op = "deleteAgent"
      BY <3>6, <1>env DEF StartDelete, Start
    <3> QED BY <1>1, <3>1, <3>2, <3>3, <3>4, <3>5, <3>6 DEF Arrive
  <2> QED BY <2>1, <2>2
<1>2. CASE ResolveGroup(r)
  <2>1. env' = env /\ pc[r] = "toGroup" /\ pc'[r] \in {"toKind", "save"}
    BY <1>2 DEF ResolveGroup
  <2>2. pc'[r] = "toKind" => ~GroupFound(env[r].to) \/ "toGroup" \in loc'[r].missed
    BY <1>2, <1>loc DEF ResolveGroup, Locals, Missed
  <2>3. pc'[r] = "save" => GroupFound(env[r].to) /\ loc'[r].conv = groups[env[r].to].conv
    BY <1>2, <1>loc DEF ResolveGroup, Locals
  <2> QED BY <2>1, <2>2, <2>3
<1>3. CASE ResolveFromKind(r) \/ ResolveToKind(r) BY <1>3 DEF ResolveFromKind, ResolveToKind
<1>4. CASE InfoLookup(r) BY <1>4 DEF InfoLookup
<1>5. CASE FindDirect(r) \/ CreateDirect(r) \/ AddLow(r) \/ AddHigh(r)
  <2>1. env' = env /\ pc[r] \in DirectSteps BY <1>5 DEF FindDirect, CreateDirect, AddLow, AddHigh
  <2>2. pc'[r] # "toKind"
    BY <1>5 DEF FindDirect, CreateDirect, AddLow, AddHigh, AfterDirect, AfterConflict
  <2> QED BY <2>1, <2>2
<1>6. CASE Save(r) \/ Administer(r) \/ Abort(r)
  <2>1. pc'[r] \in {"done", "lost", "failed", "newGroup", "link", "addOwner"}
    BY <1>6 DEF Save, Administer, Abort, InsertGroupConversation, InsertGroup, LinkGroup,
                AddOwner, RemoveParticipant, DeleteAgent
  <2>2. env' = env
    BY <1>6 DEF Save, Administer, Abort, InsertGroupConversation, InsertGroup, LinkGroup,
                AddOwner, RemoveParticipant, DeleteAgent
  <2> QED BY <2>1, <2>2
<1> QED BY <1>1, <1>2, <1>3, <1>4, <1>5, <1>6 DEF Act, Proceed, Persist

\* A message request ends by storing its message, if it does not fail.
LEMMA DoneSources ==
  ASSUME TypeOK, RequestInv, NEW r \in Requests, Act(r), pc'[r] \in {"done", "lost"},
         Sending(r)'
  PROVE  pc[r] = "save" /\ env'[r] = env[r] /\ loc'[r] = loc[r]
<1>pc. pc \in [Requests -> Steps] BY DEF TypeOK
<1>c. ControlOf(r) BY DEF RequestInv
<1> USE <1>pc DEF Goto, Reply
<1>1. ~Arrive(r)
  BY DEF Arrive, Start, StartSend, StartInfo, StartReplay, StartCreateGroup, StartLeave,
         StartDelete
<1>2. ~InfoLookup(r) BY <1>c DEF InfoLookup, ControlOf, Sending
<1>3. ~Administer(r)
  <2>1. pc[r] \in {"newConv", "newGroup", "link", "addOwner", "remove", "delete"} =>
          env[r].op \in {"createGroup", "leave", "deleteAgent"}
    BY <1>c DEF ControlOf, GroupSteps
  <2> QED BY <2>1 DEF Administer, InsertGroupConversation, InsertGroup, LinkGroup, AddOwner,
                      RemoveParticipant, DeleteAgent, Sending
<1>4. ~Abort(r) BY DEF Abort
<1>5. Save(r)
  BY <1>1, <1>2, <1>3, <1>4 DEF Act, Proceed, Persist, ResolveFromKind, ResolveGroup,
     ResolveToKind, FindDirect, CreateDirect, AfterDirect, AfterConflict, AddLow, AddHigh,
     Sending
<1> QED BY <1>5 DEF Save

\* The way of a message stays the one its addressee determines.
LEMMA RoutedStep ==
  ASSUME TypeOK, RequestInv, Routed, NEW r \in Requests, Act(r)
  PROVE  Routed'
<1>0. Stable BY StableStep
<1>m. \A s \in Requests : loc[s].missed \subseteq loc'[s].missed BY MissedGrows
<1>g. ASSUME NEW g, GroupFound(g) PROVE g \in GroupIds /\ groups'[g] # Null /\ groups'[g] = groups[g]
  BY <1>0, <1>g DEF GroupFound, Stable
<1>1. ASSUME NEW s \in Requests, env'[s] # Null, Sending(s)', env'[s].to \in GroupIds
      PROVE  groups'[env'[s].to] # Null
  <2>1. CASE env'[s] = env[s]
    <3>1. GroupFound(env[s].to) BY <1>1, <2>1 DEF Routed, Sending
    <3> QED BY <2>1, <3>1, <1>g
  <2>2. CASE env'[s] # env[s]
    <3>1. s = r BY <2>2, OthersUnchanged
    <3>2. env'[r].to \in Addressees \cup ConvIds BY <1>1, <2>2, <3>1, RouteSources DEF Sending
    <3>3. GroupFound(env'[r].to) BY <1>1, <3>1, <3>2 DEF Addressees, GroupFound
    <3> QED BY <3>1, <3>3, <1>g
  <2> QED BY <2>1, <2>2
<1>2. ASSUME NEW s \in Requests, pc'[s] \in DirectSteps \cup {"toKind"}, env'[s].to \in GroupIds
      PROVE  "toGroup" \in loc'[s].missed
  <2>1. CASE s # r
    <3>1. pc'[s] = pc[s] /\ env'[s] = env[s] BY <2>1, OthersUnchanged
    <3> QED BY <1>2, <3>1, <1>m DEF Routed
  <2>2. CASE s = r /\ pc'[r] = "toKind"
    <3>1. /\ env'[r] = env[r] /\ pc[r] = "toGroup"
          /\ ~GroupFound(env[r].to) \/ "toGroup" \in loc'[r].missed
      BY <2>2, RouteSources
    <3>2. env[r] # Null /\ Sending(r) BY <3>1 DEF RequestInv, ControlOf, PersistSteps
    <3> QED BY <1>2, <2>2, <3>1, <3>2 DEF Routed
  <2>3. CASE s = r /\ pc'[r] \in DirectSteps
    <3>1. /\ env'[r] = env[r]
          /\ pc[r] \in DirectSteps \cup {"toKind"} \/ env[r].to \in agents \cup UserIds
      BY <2>3, RouteSources
    <3>2. pc[r] \in DirectSteps \cup {"toKind"} BY <1>2, <2>3, <3>1 DEF TypeOK
    <3> QED BY <1>2, <2>3, <3>1, <3>2, <1>m DEF Routed
  <2> QED BY <1>2, <2>1, <2>2, <2>3
<1>3. ASSUME NEW s \in Requests, pc'[s] \in {"save", "done", "lost"}, env'[s] # Null,
             Sending(s)', env'[s].to \in GroupIds
      PROVE  groups'[env'[s].to].conv = loc'[s].conv \/ "toGroup" \in loc'[s].missed
  <2>1. ASSUME pc[s] \in {"save", "done", "lost"}, env'[s] = env[s], loc'[s] = loc[s]
        PROVE  groups'[env'[s].to].conv = loc'[s].conv \/ "toGroup" \in loc'[s].missed
    <3>1. env[s] # Null /\ Sending(s) BY <1>3, <2>1 DEF Sending
    <3>2. GroupFound(env[s].to) BY <1>3, <2>1, <3>1 DEF Routed
    <3>3. groups[env[s].to].conv = loc[s].conv \/ "toGroup" \in loc[s].missed
      BY <1>3, <2>1, <3>1 DEF Routed
    <3> QED BY <2>1, <3>2, <3>3, <1>g
  <2>2. CASE s # r BY <1>3, <2>1, <2>2, OthersUnchanged
  <2>3. CASE s = r /\ pc'[r] \in {"done", "lost"} BY <1>3, <2>1, <2>3, DoneSources
  <2>4. CASE s = r /\ pc'[r] = "save"
    <3>1. /\ env'[r] = env[r]
          /\ \/ pc[r] \in DirectSteps
             \/ GroupFound(env[r].to) /\ loc'[r].conv = groups[env[r].to].conv
      BY <2>4, RouteSources
    <3>2. CASE pc[r] \in DirectSteps BY <1>3, <2>4, <3>1, <3>2, <1>m DEF Routed
    <3>3. CASE GroupFound(env[r].to) /\ loc'[r].conv = groups[env[r].to].conv
      BY <2>4, <3>1, <3>3, <1>g
    <3> QED BY <3>1, <3>2, <3>3
  <2> QED BY <1>3, <2>2, <2>3, <2>4
<1> QED BY <1>1, <1>2, <1>3 DEF Routed, GroupFound

\* Where no SELECT fails, none is recorded as failed.
LEMMA NothingMissedStep ==
  ASSUME TypeOK, NothingMissed, NEW r \in Requests, Act(r)
  PROVE  NothingMissed'
<1>loc. loc \in [Requests -> Locals] BY DEF TypeOK
<1> SUFFICES ASSUME ~QueryFaults, NEW s \in Requests PROVE loc'[s].missed = {}
  BY DEF NothingMissed
<1>m. loc[s].missed = {} BY DEF NothingMissed
<1>0. CASE s # r BY <1>0, <1>m, OthersUnchanged
<1>1. CASE s = r
  <2>0. ASSUME loc' = loc PROVE loc'[r].missed = {} BY <2>0, <1>1, <1>m
  <2> USE <1>loc, <1>1, <1>m DEF Locals
  <2>1. CASE Arrive(r)
    BY <2>0, <2>1 DEF Arrive, StartSend, StartInfo, StartReplay, StartCreateGroup, StartLeave,
                      StartDelete
  <2>2. CASE ResolveFromKind(r) BY <2>2 DEF ResolveFromKind, Missed
  <2>3. CASE ResolveGroup(r) BY <2>3 DEF ResolveGroup, Missed
  <2>4. CASE ResolveToKind(r) BY <2>4 DEF ResolveToKind, Missed
  <2>5. CASE InfoLookup(r) BY <2>5 DEF InfoLookup
  <2>6. CASE FindDirect(r) BY <2>6 DEF FindDirect
  <2>7. ASSUME NEW c, loc' = [loc EXCEPT ![r].conv = c, ![r].made = TRUE]
        PROVE  loc'[r].missed = {}
    BY <2>7
  <2>8. CASE CreateDirect(r) \/ InsertGroupConversation(r)
    BY <2>0, <2>7, <2>8 DEF CreateDirect, InsertGroupConversation
  <2>9. CASE InsertGroup(r) BY <2>9 DEF InsertGroup
  <2>10. CASE \/ AddLow(r) \/ AddHigh(r) \/ Save(r) \/ LinkGroup(r) \/ AddOwner(r)
              \/ RemoveParticipant(r) \/ DeleteAgent(r) \/ Abort(r)
    BY <2>0, <2>10 DEF AddLow, AddHigh, Save, LinkGroup, AddOwner, RemoveParticipant,
                       DeleteAgent, Abort
  <2> QED BY <2>1, <2>2, <2>3, <2>4, <2>5, <2>6, <2>8, <2>9, <2>10
          DEF Act, Proceed, Persist, Administer
<1> QED BY <1>0, <1>1
-----------------------------------------------------------------------------

\* The empty database satisfies the third layer.
LEMMA InitLookup == Init => LookupInv
BY DEF Init, LookupInv, KindsKnown, MisfiledOnlyIfDeleted, Routed, NothingMissed, NoLocals,
       DirectSteps

\* Every statement, and every SELECT that fails, preserves the third layer.
LEMMA StepLookup == IInv /\ LookupInv /\ [Next]_vars => LookupInv'
<1> SUFFICES ASSUME IInv, LookupInv, [Next]_vars PROVE LookupInv' OBVIOUS
<1>1. ASSUME NEW r \in Requests, Act(r) PROVE LookupInv'
  BY <1>1, KindsKnownStep, MisfiledStep, RoutedStep, NothingMissedStep DEF IInv, LookupInv
<1>2. CASE UNCHANGED <<agents, participants, groups, messages, pc, env, loc>>
  <2> USE <1>2 DEF LookupInv
  <2>1. KindsKnown' BY DEF KindsKnown, KindOK
  <2>2. MisfiledOnlyIfDeleted' BY DEF MisfiledOnlyIfDeleted
  <2>3. Routed' BY DEF Routed, Sending, GroupFound
  <2>4. NothingMissed' BY DEF NothingMissed
  <2> QED BY <2>1, <2>2, <2>3, <2>4
<1>3. CASE Tick \/ Idle \/ UNCHANGED vars BY <1>2, <1>3 DEF Tick, Idle, tables, vars
<1> QED BY <1>1, <1>3 DEF Next, Act

\* The first and the third layer hold in every reachable state, whichever SELECTs
\* fail: a kind or a route is wrong only where the request's own lookup failed
\* or the agent has been deleted since (defaultPersistMessage).
THEOREM LookupInvariance == Spec => [](IInv /\ LookupInv)
<1>1. IInv /\ LookupInv /\ [Next]_vars => IInv' /\ LookupInv' BY StepIInv, StepLookup
<1> QED BY <1>1, InitIInv, InitLookup, PTL DEF Spec

\* A party is recorded under the wrong kind only if it is an agent that has been
\* deleted, or if the writer's own lookup of the kind failed, whatever deletes run
\* between the lookup and the write (defaultPersistMessage, handleEntityInfo,
\* GetOrCreateDirect).
THEOREM MisfiledAreDeleted == Spec => []MisfiledOnlyIfDeleted
<1>1. IInv /\ LookupInv => MisfiledOnlyIfDeleted BY DEF LookupInv
<1> QED BY <1>1, LookupInvariance, PTL

\* A message that was acknowledged is stored in the conversation of its two
\* parties or of its group, whatever the other requests did in between; one to a
\* group lies in a direct conversation only if the lookup of the group failed.
THEOREM AckedIsFiled == Spec => []AckedMessageIsFiled
<1>1. IInv /\ LookupInv => AckedMessageIsFiled
  <2> SUFFICES ASSUME IInv, LookupInv, NEW r \in Requests, pc[r] = "done",
                      env[r].op \in {"send", "replay"}
               PROVE  /\ messages[r] # Null
                      /\ messages[r].from = env[r].from
                      /\ messages[r].conv = loc[r].conv
                      /\ \/ /\ IsDirect(loc[r].conv)
                            /\ Pair(loc[r].conv) = {env[r].from, env[r].to}
                            /\ env[r].to \in GroupIds => "toGroup" \in loc[r].missed
                         \/ \E g \in GroupIds : /\ env[r].to = g
                                                /\ groups[g] # Null
                                                /\ groups[g].conv = loc[r].conv
    BY DEF AckedMessageIsFiled
  <2>1. /\ Filed(r) /\ messages[r] # Null /\ messages[r].from = env[r].from
        /\ messages[r].conv = loc[r].conv
    BY DEF IInv, RequestInv, AnswerOf, Sending
  <2>2. {IdLow(r), IdHigh(r)} = {env[r].from, env[r].to} BY DEF IdLow, IdHigh
  <2>3. env[r] # Null BY DEF IInv, RequestInv, ControlOf
  <2>4. CASE IsDirect(loc[r].conv)
    <3>1. ASSUME env[r].to \in GroupIds PROVE "toGroup" \in loc[r].missed
      <4>1. GroupFound(env[r].to) BY <2>3, <3>1 DEF LookupInv, Routed, Sending
      <4>2. groups[env[r].to].conv # loc[r].conv
        BY <2>4, <4>1 DEF IInv, GroupLinkConsistent, GroupFound, IsDirect
      <4> QED BY <2>3, <3>1, <4>2 DEF LookupInv, Routed, Sending
    <3>2. /\ conversations[loc[r].conv].low = IdLow(r)
          /\ conversations[loc[r].conv].high = IdHigh(r)
      BY <2>1, <2>4 DEF Filed, GroupFound, IInv, GroupLinkConsistent, IsDirect
    <3> QED BY <2>1, <2>2, <2>4, <3>1, <3>2 DEF Pair
  <2>5. CASE ~IsDirect(loc[r].conv) BY <2>1, <2>5 DEF Filed, GroupFound
  <2> QED BY <2>4, <2>5
<1> QED BY <1>1, LookupInvariance, PTL

-----------------------------------------------------------------------------
(* The tables implement MessageStore.                                      *)

\* A conversation that belongs to a channel.
Named(c) ==
    \/ IsDirect(c)
    \/ \E g \in GroupIds : groups[g] # Null /\ groups[g].conv = c

\* A stored message lies in a conversation that belongs to a channel.
LEMMA MessageIsNamed ==
  ASSUME IInv, NEW m \in Requests, messages[m] # Null
  PROVE  messages[m].conv \in ConvIds /\ Named(messages[m].conv)
<1>1. pc[m] \in {"done", "lost"} /\ Sending(m) BY DEF IInv, RequestInv, AnswerOf
<1>2. messages[m].conv = loc[m].conv /\ loc[m].conv \in ConvIds /\ Filed(m)
  BY <1>1 DEF IInv, RequestInv, AnswerOf
<1> QED BY <1>2 DEF Filed, Named, GroupFound

\* What ChannelOf makes of the two kinds of conversation.
LEMMA ChannelCases ==
  ASSUME IInv, NEW c \in ConvIds, Named(c)
  PROVE  /\ Exists(c)
         /\ IsDirect(c) => ChannelOf(c) = {conversations[c].low, conversations[c].high}
         /\ ~IsDirect(c) => \E g \in GroupIds : /\ groups[g] # Null /\ groups[g].conv = c
                                                /\ ChannelOf(c) = {g}
<1>1. CASE IsDirect(c) BY <1>1 DEF IsDirect, ChannelOf
<1>2. CASE ~IsDirect(c)
  <2>1. PICK g \in GroupIds : groups[g] # Null /\ groups[g].conv = c BY <1>2 DEF Named
  <2>2. Exists(c) /\ conversations[c].type = "group"
    BY <2>1 DEF IInv, GroupLinkConsistent
  <2>3. \A h \in GroupIds : groups[h] # Null /\ groups[h].conv = c => h = g
    BY <2>1 DEF IInv, GroupLinkConsistent
  <2>4. ChannelOf(c) = {g} BY <2>1, <2>2, <2>3 DEF ChannelOf
  <2> QED BY <1>2, <2>1, <2>2, <2>4
<1> QED BY <1>1, <1>2

\* Two conversations never share a channel.
LEMMA ChannelInjective ==
  ASSUME IInv, NEW c \in ConvIds, NEW d \in ConvIds, Named(c), Named(d),
         ChannelOf(c) = ChannelOf(d)
  PROVE  c = d
<1>0. ASSUME NEW e \in ConvIds, IsDirect(e)
      PROVE  conversations[e].low # conversations[e].high
  <2>1. /\ conversations[e].low \in PartyIds /\ conversations[e].high \in PartyIds
        /\ conversations[e].low < conversations[e].high
    BY <1>0 DEF IInv, Shapes
  <2>2. conversations[e].low \in Nat /\ conversations[e].high \in Nat BY <2>1
  <2> QED BY <2>1, <2>2
<1>1. CASE IsDirect(c) /\ IsDirect(d)
  BY <1>1, ChannelCases DEF IInv, OneConversationPerPair, Pair
<1>2. CASE ~IsDirect(c) /\ ~IsDirect(d) BY <1>2, ChannelCases
<1>3. CASE IsDirect(c) /\ ~IsDirect(d)
  <2>1. PICK g \in GroupIds : ChannelOf(d) = {g} BY <1>3, ChannelCases
  <2>2. ChannelOf(c) = {conversations[c].low, conversations[c].high} BY <1>3, ChannelCases
  <2>3. conversations[c].low # conversations[c].high BY <1>0, <1>3
  <2>4. conversations[c].low \in {g} /\ conversations[c].high \in {g} BY <2>1, <2>2
  <2> QED BY <2>3, <2>4
<1>4. CASE ~IsDirect(c) /\ IsDirect(d)
  <2>1. PICK g \in GroupIds : ChannelOf(c) = {g} BY <1>4, ChannelCases
  <2>2. ChannelOf(d) = {conversations[d].low, conversations[d].high} BY <1>4, ChannelCases
  <2>3. conversations[d].low # conversations[d].high BY <1>0, <1>4
  <2>4. conversations[d].low \in {g} /\ conversations[d].high \in {g} BY <2>1, <2>2
  <2> QED BY <2>3, <2>4
<1> QED BY <1>1, <1>2, <1>3, <1>4

\* The channel of a conversation never changes.
LEMMA ChannelStays ==
  ASSUME IInv, NEW r \in Requests, Act(r), NEW c \in ConvIds, Named(c)
  PROVE  ChannelOf(c)' = ChannelOf(c)
<1>0. Stable BY StableStep DEF IInv
<1>1. Exists(c) BY ChannelCases
<1>2. /\ conversations'[c].type = conversations[c].type
      /\ conversations'[c].low = conversations[c].low
      /\ conversations'[c].high = conversations[c].high
  BY <1>0, <1>1 DEF Stable
<1>3. CASE IsDirect(c) BY <1>2, <1>3 DEF IsDirect, ChannelOf
<1>4. CASE ~IsDirect(c)
  <2>1. PICK h \in GroupIds : groups[h] # Null /\ groups[h].conv = c BY <1>4 DEF Named
  <2>2. ASSUME NEW g \in GroupIds
        PROVE  groups'[g] # Null /\ groups'[g].conv = c <=> groups[g] # Null /\ groups[g].conv = c
    <3>1. CASE groups[g] # Null BY <1>0, <3>1 DEF Stable
    <3>2. CASE groups[g] = Null
      <4> SUFFICES ASSUME groups'[g] # Null, groups'[g].conv = c PROVE FALSE BY <3>2
      <4>1. pc[r] = "newGroup" /\ groups'[g].conv = loc[r].conv BY <3>2, NewGroup DEF IInv
      <4> QED BY <2>1, <4>1 DEF IInv, GroupProgress
    <3> QED BY <3>1, <3>2
  <2>3. conversations[c].type # "direct" BY <1>1, <1>4 DEF IsDirect
  <2> QED BY <1>2, <2>2, <2>3 DEF ChannelOf
<1> QED BY <1>3, <1>4

\* The conversation a message is about to be stored in is the one of the
\* channel that its sender and its addressee determine.
LEMMA SaveChannel ==
  ASSUME IInv, LookupInv, ~QueryFaults, NEW r \in Requests, pc[r] = "save"
  PROVE  /\ loc[r].conv \in ConvIds /\ Named(loc[r].conv)
         /\ ChannelOf(loc[r].conv) = Store!Channel(env[r].from, env[r].to)
<1>1. env[r] # Null /\ Sending(r) /\ loc[r].conv \in ConvIds /\ Filed(r)
  BY DEF IInv, RequestInv, ControlOf
<1>2. Named(loc[r].conv) BY <1>1 DEF Filed, Named, GroupFound
<1>3. CASE env[r].to \in GroupIds
  <2>0. loc[r].missed = {} BY DEF LookupInv, NothingMissed
  <2>1. groups[env[r].to] # Null /\ groups[env[r].to].conv = loc[r].conv
    BY <1>1, <1>3, <2>0 DEF LookupInv, Routed, GroupFound
  <2>2. ~IsDirect(loc[r].conv) BY <1>3, <2>1 DEF IInv, GroupLinkConsistent, IsDirect
  <2>3. PICK g \in GroupIds : /\ groups[g] # Null /\ groups[g].conv = loc[r].conv
                              /\ ChannelOf(loc[r].conv) = {g}
    BY <1>1, <1>2, <2>2, ChannelCases
  <2>4. g = env[r].to BY <1>3, <2>1, <2>3 DEF IInv, GroupLinkConsistent
  <2> QED BY <1>1, <1>2, <1>3, <2>3, <2>4 DEF Store!Channel
<1>4. CASE env[r].to \notin GroupIds
  <2>1. /\ IsDirect(loc[r].conv)
        /\ conversations[loc[r].conv].low = IdLow(r)
        /\ conversations[loc[r].conv].high = IdHigh(r)
    BY <1>1, <1>4 DEF Filed, GroupFound
  <2>2. {IdLow(r), IdHigh(r)} = {env[r].from, env[r].to} BY DEF IdLow, IdHigh
  <2>3. ChannelOf(loc[r].conv) = {IdLow(r), IdHigh(r)} BY <1>1, <1>2, <2>1, ChannelCases
  <2> QED BY <1>1, <1>2, <1>4, <2>2, <2>3 DEF Store!Channel
<1> QED BY <1>3, <1>4

\* A function that differs from another at one point is its update there.
LEMMA PointUpdate ==
  ASSUME NEW S, NEW f, NEW g, NEW x \in S, NEW v,
         f = [y \in S |-> f[y]], g = [y \in S |-> g[y]],
         g[x] = v, \A y \in S \ {x} : g[y] = f[y]
  PROVE  g = [f EXCEPT ![x] = v]
OBVIOUS

\* A latest message is one that some conversation names.
LEMMA PreviewCases ==
  ASSUME NEW x
  PROVE  x \in StorePreviews <=>
           x # Null /\ \E c \in ConvIds : Exists(c) /\ conversations[c].lastMsg = x
BY DEF StorePreviews

\* A latest message is stored, and stored in the conversation that names it.
LEMMA PreviewIsFiled ==
  ASSUME IInv, NEW c \in ConvIds, Exists(c), conversations[c].lastMsg # Null
  PROVE  /\ conversations[c].lastMsg \in Requests
         /\ Named(c)
         /\ StoreFiled[conversations[c].lastMsg] = ChannelOf(c)
<1>1. conversations[c].lastMsg \in Requests BY DEF IInv, TypeOK, ConvRow, Exists
<1>2. /\ messages[conversations[c].lastMsg] # Null
      /\ messages[conversations[c].lastMsg].conv = c
  BY DEF IInv, PreviewIsOwnMessage
<1> QED BY <1>1, <1>2, MessageIsNamed DEF StoreFiled

\* Only Save changes which message is a conversation's latest.
LEMMA LastMessageStays ==
  ASSUME IInv, NEW r \in Requests, Act(r), ~Save(r), NEW c \in ConvIds, NEW x, x # Null
  PROVE  Exists(c)' /\ conversations'[c].lastMsg = x <=> Exists(c) /\ conversations[c].lastMsg = x
<1>1. Kept(c) \/ Opened(r, c) \/ Founded(r, c) \/ Linked(r, c)
  BY ConversationStep DEF IInv, Previewed
<1>2. CASE Kept(c) BY <1>2 DEF Kept, Exists
<1>3. CASE Opened(r, c) \/ Founded(r, c)
  <2>1. ~Exists(c) /\ conversations'[c].lastMsg = Null
    BY <1>3 DEF Opened, Founded, NewConversation
  <2> QED BY <2>1
<1>4. CASE Linked(r, c)
  <2>1. Exists(c) /\ conversations[c] \in ConvRow BY <1>4 DEF Linked, IInv, TypeOK, Exists
  <2>2. conversations'[c].lastMsg = conversations[c].lastMsg
    BY <1>4, <2>1 DEF Linked, ConvRow
  <2>3. Exists(c)' BY <2>1, StableStep DEF Stable, Exists, IInv
  <2> QED BY <2>1, <2>2, <2>3
<1> QED BY <1>1, <1>2, <1>3, <1>4

\* A step that stores nothing leaves the stored messages and the latest ones
\* alone.
LEMMA StoreKept ==
  ASSUME IInv, NEW r \in Requests, Act(r), ~Save(r)
  PROVE  UNCHANGED <<StoreFiled, StorePreviews>>
<1>1. messages' = messages BY MessageFootprint
<1>2. ASSUME NEW m \in Requests, messages[m] # Null
      PROVE  ChannelOf(messages[m].conv)' = ChannelOf(messages[m].conv)
  <2>1. PICK c \in ConvIds : c = messages[m].conv /\ Named(c) BY <1>2, MessageIsNamed
  <2>2. ChannelOf(c)' = ChannelOf(c) BY <2>1, ChannelStays
  <2> QED BY <1>1, <2>1, <2>2 DEF ChannelOf
<1>3. StoreFiled' = StoreFiled BY <1>1, <1>2 DEF StoreFiled
<1>4. ASSUME NEW x PROVE x \in StorePreviews' <=> x \in StorePreviews
  <2>1. x \in StorePreviews <=>
           x # Null /\ \E c \in ConvIds : Exists(c) /\ conversations[c].lastMsg = x
    BY PreviewCases
  <2>2. x \in StorePreviews' <=>
           x # Null /\ \E c \in ConvIds : Exists(c)' /\ conversations'[c].lastMsg = x
    BY DEF StorePreviews
  <2> QED BY <2>1, <2>2, LastMessageStays
<1>5. StorePreviews' = StorePreviews BY <1>4
<1> QED BY <1>3, <1>5

\* Save files the message in its channel and makes it the latest one there; its
\* sender learns of it, or the reply is lost.
LEMMA SaveStores ==
  ASSUME IInv, IInv', LookupInv, ~QueryFaults, NEW r \in Requests, Act(r), Save(r)
  PROVE  Store!Store(r) \/ Store!StoreUnanswered(r)
<1> DEFINE k == loc[r].conv
           channel == Store!Channel(env[r].from, env[r].to)
<1>pc. /\ pc[r] = "save" /\ env' = env /\ loc' = loc
       /\ pc'[r] = "done" \/ (Aborts /\ pc'[r] = "lost")
  BY DEF Save, IInv, TypeOK, Goto, Reply
<1>1. k \in ConvIds /\ Named(k) /\ ChannelOf(k) = channel BY <1>pc, SaveChannel
<1>2. env[r] # Null /\ Sending(r) /\ messages[r] = Null
  BY <1>pc DEF IInv, RequestInv, ControlOf, AnswerOf
<1>3. messages'[r] # Null /\ messages'[r].conv = k
  <2>1. messages'[r] # Null BY <1>pc, <1>2 DEF IInv, RequestInv, AnswerOf, Sending
  <2> QED BY <2>1 DEF Save, IInv, TypeOK
<1>4. Store!Pending(r)
  <2>1. [from |-> env[r].from, to |-> env[r].to] \in [from : PartyIds, to : PartyIds]
    BY <1>pc, <1>2 DEF IInv, TypeOK, Call, RequestInv, ControlOf
  <2>2. StoreSubmitted[r] # Null
    BY <1>2, <2>1, StoreAssumption DEF StoreSubmitted, IsMessage, Sending
  <2>3. StoreFiled[r] = Null BY <1>2 DEF StoreFiled
  <2>4. r \notin StoreRefused BY <1>pc DEF StoreRefused
  <2> QED BY <2>2, <2>3, <2>4 DEF Store!Pending
<1>5. Store!Channel(StoreSubmitted[r].from, StoreSubmitted[r].to) = channel
  BY <1>2 DEF StoreSubmitted, IsMessage, Sending
<1>k. PICK d \in ConvIds : d = k BY <1>1
<1>6. StoreFiled' = [StoreFiled EXCEPT ![r] = channel]
  <2>1. StoreFiled'[r] = channel
    <3>1. ChannelOf(d)' = channel BY <1>1, <1>k, ChannelStays
    <3>2. messages'[r].conv = d BY <1>3, <1>k
    <3>3. StoreFiled'[r] = ChannelOf(messages[r].conv)' BY <1>3 DEF StoreFiled
    <3> QED BY <3>1, <3>2, <3>3 DEF ChannelOf
  <2>2. ASSUME NEW m \in Requests \ {r} PROVE StoreFiled'[m] = StoreFiled[m]
    <3>1. messages'[m] = messages[m] BY OthersUnchanged DEF IInv
    <3>2. CASE messages[m] = Null BY <3>1, <3>2 DEF StoreFiled
    <3>3. CASE messages[m] # Null
      <4>1. PICK c \in ConvIds : c = messages[m].conv /\ Named(c) BY <3>3, MessageIsNamed
      <4>2. ChannelOf(c)' = ChannelOf(c) BY <4>1, ChannelStays
      <4>3. ChannelOf(messages[m].conv)' = ChannelOf(messages[m].conv)
        BY <3>1, <4>1, <4>2 DEF ChannelOf
      <4> QED BY <3>1, <3>3, <4>3 DEF StoreFiled
    <3> QED BY <3>2, <3>3
  <2>3. /\ StoreFiled = [m \in Requests |-> StoreFiled[m]]
        /\ StoreFiled' = [m \in Requests |-> StoreFiled'[m]]
    BY DEF StoreFiled
  <2> HIDE DEF channel
  <2> QED BY <2>1, <2>2, <2>3, PointUpdate
<1>7. StorePreviews' = {p \in StorePreviews : StoreFiled[p] # channel} \cup {r}
  <2>1. ASSUME NEW c \in ConvIds, c # d
        PROVE  conversations'[c] = conversations[c]
    BY <1>k, <2>1 DEF Save, IInv, TypeOK
  <2>2. Exists(d) /\ Exists(d)' /\ conversations'[d].lastMsg = r
    <3>1. Exists(d) BY <1>1, <1>k, ChannelCases
    <3>2. conversations[d] \in ConvRow BY <3>1 DEF IInv, TypeOK, Exists
    <3>3. conversations'[d] = [conversations[d] EXCEPT !.lastMsg = r, !.lastAt = env[r].ts]
      BY <1>k DEF Save, IInv, TypeOK
    <3>4. conversations'[d].lastMsg = r BY <3>2, <3>3 DEF ConvRow
    <3>5. Exists(d)' BY <3>1, StableStep DEF Stable, Exists, IInv
    <3> QED BY <3>1, <3>4, <3>5
  <2>3. ASSUME NEW c \in ConvIds, Exists(c), conversations[c].lastMsg # Null
        PROVE  StoreFiled[conversations[c].lastMsg] = channel <=> c = d
    <3>1. Named(c) /\ StoreFiled[conversations[c].lastMsg] = ChannelOf(c)
      BY <2>3, PreviewIsFiled
    <3> QED BY <1>1, <1>k, <3>1, ChannelInjective
  <2> HIDE DEF channel
  <2>4. ASSUME NEW x
        PROVE  x \in StorePreviews' <=> x = r \/ (x \in StorePreviews /\ StoreFiled[x] # channel)
    <3>1. x \in StorePreviews <=>
             x # Null /\ \E c \in ConvIds : Exists(c) /\ conversations[c].lastMsg = x
      BY PreviewCases
    <3>2. x \in StorePreviews' <=>
             x # Null /\ \E c \in ConvIds : Exists(c)' /\ conversations'[c].lastMsg = x
      BY DEF StorePreviews
    <3>3. ASSUME NEW c \in ConvIds, c # d PROVE Exists(c)' <=> Exists(c)
      BY <2>1, <3>3 DEF Exists
    <3>4. CASE x = r
      <4>1. r # Null OBVIOUS
      <4> QED BY <2>2, <3>2, <3>4, <4>1
    <3>5. CASE x # r
      <4>1. x \in StorePreviews' <=>
              x # Null /\ \E c \in ConvIds : c # d /\ Exists(c) /\ conversations[c].lastMsg = x
        BY <2>1, <2>2, <3>2, <3>3, <3>5
      <4>2. x \in StorePreviews /\ StoreFiled[x] # channel <=>
              x # Null /\ \E c \in ConvIds : c # d /\ Exists(c) /\ conversations[c].lastMsg = x
        BY <2>3, <3>1
      <4> QED BY <3>5, <4>1, <4>2
    <3> QED BY <3>4, <3>5
  <2>5. \A x : x \in StorePreviews' <=>
               x \in {p \in StorePreviews : StoreFiled[p] # channel} \cup {r}
    BY <2>4
  <2> QED BY <2>5, Zenon
<1>8. StoreSubmitted' = StoreSubmitted BY <1>pc DEF StoreSubmitted, IsMessage
<1>9. Store!File(r) BY <1>4, <1>5, <1>6, <1>7, <1>8 DEF Store!File
<1>10. \A q \in Requests \ {r} : pc'[q] = pc[q] BY OthersUnchanged DEF IInv
<1>11. CASE pc'[r] = "done"
  <2>1. \A q \in Requests : pc'[q] \in {"failed", "lost"} <=> pc[q] \in {"failed", "lost"}
    BY <1>pc, <1>10, <1>11
  <2>2. StoreRefused' = StoreRefused BY <1>pc, <2>1 DEF StoreRefused, IsMessage
  <2> QED BY <1>9, <2>2 DEF Store!Store
<1>12. CASE Aborts /\ pc'[r] = "lost"
  <2>1. IsMessage(r) BY <1>2 DEF IsMessage, Sending
  <2>2. StoreRefused' = StoreRefused \cup {r}
    BY <1>pc, <1>10, <1>12, <2>1 DEF StoreRefused, IsMessage
  <2> QED BY <1>9, <1>12, <2>2 DEF Store!StoreUnanswered
<1> QED BY <1>pc, <1>11, <1>12

\* The empty database is the empty store.
LEMMA InitStore == Init => Store!Init
<1> SUFFICES ASSUME Init PROVE Store!Init OBVIOUS
<1>1. StoreSubmitted = [m \in Requests |-> Null] BY DEF Init, StoreSubmitted, IsMessage
<1>2. StoreRefused = {} BY DEF Init, StoreRefused
<1>3. StoreFiled = [m \in Requests |-> Null] BY DEF Init, StoreFiled
<1>4. StorePreviews = {} BY DEF Init, StorePreviews, Exists
<1> QED BY <1>1, <1>2, <1>3, <1>4 DEF Store!Init

\* What a request that has just arrived was called with.
LEMMA Arrived ==
  ASSUME TypeOK, RequestInv, NEW r \in Requests, Arrive(r)
  PROVE  /\ pc[r] = "idle" /\ pc'[r] \notin Finished /\ env'[r] \in Call
         /\ env'[r].op \in {"send", "replay"} => env'[r].to \in PartyIds
         /\ \A q \in Requests \ {r} : env'[q] = env[q] /\ pc'[q] = pc[q]
<1>env. env \in [Requests -> Call \cup {Null}] BY DEF TypeOK
<1>1. pc[r] = "idle" /\ pc'[r] \notin Finished /\ pc'[r] # "idle"
  BY DEF Arrive, Start, StartSend, StartInfo, StartReplay, StartCreateGroup, StartLeave,
         StartDelete, Goto, TypeOK, Finished
<1>2. \A q \in Requests \ {r} : env'[q] = env[q] /\ pc'[q] = pc[q]
  BY OthersUnchanged DEF Act
<1>3. TypeOK' BY TypeArrive
<1>4. env'[r].op \in {"send", "replay"} => env'[r].to \in PartyIds
  <2>1. ASSUME NEW from \in UserIds \cup AgentIds, NEW to \in Addressees, StartSend(r, from, to)
        PROVE  env'[r].to \in PartyIds
    <3>1. env'[r].to = to BY <2>1, <1>env DEF StartSend, Start
    <3> QED BY <3>1 DEF Addressees, PartyIds
  <2>2. ASSUME NEW from \in UserIds \cup AgentIds, NEW to \in Addressees, StartInfo(r, from, to)
        PROVE  env'[r].op = "info"
    BY <2>2, <1>env DEF StartInfo, Start
  <2>3. ASSUME NEW m \in Requests, StartReplay(r, m) PROVE env'[r].to \in PartyIds
    <3>1. messages[m].conv \in ConvIds BY <2>3 DEF StartReplay, TypeOK, MessageRow
    <3>2. env'[r].to = messages[m].conv BY <2>3, <1>env DEF StartReplay, Start
    <3> QED BY <3>1, <3>2 DEF PartyIds
  <2>4. ASSUME NEW u \in UserIds, NEW name \in GroupNames, StartCreateGroup(r, u, name)
        PROVE  env'[r].op = "createGroup"
    BY <2>4, <1>env DEF StartCreateGroup, Start
  <2>5. ASSUME NEW id \in UserIds \cup AgentIds, NEW kind \in Kinds, NEW g \in GroupIds,
               StartLeave(r, id, kind, g)
        PROVE  env'[r].op = "leave"
    BY <2>5, <1>env DEF StartLeave, Start
  <2>6. ASSUME NEW a \in AgentIds, StartDelete(r, a) PROVE env'[r].op = "deleteAgent"
    BY <2>6, <1>env DEF StartDelete, Start
  <2> QED BY <2>1, <2>2, <2>3, <2>4, <2>5, <2>6 DEF Arrive
<1>5. env'[r] # Null BY <1>1, ArriveSelf DEF ControlOf
<1>6. env'[r] \in Call BY <1>3, <1>5 DEF TypeOK
<1> QED BY <1>1, <1>2, <1>4, <1>6

\* The arrival of a message is its submission; other arrivals do not show.
LEMMA ArriveSubmits ==
  ASSUME IInv, NEW r \in Requests, Arrive(r)
  PROVE  Store!Submit(r) \/ UNCHANGED Store!storeVars
<1>a. /\ pc[r] = "idle" /\ pc'[r] \notin Finished /\ env'[r] \in Call
      /\ env'[r].op \in {"send", "replay"} => env'[r].to \in PartyIds
      /\ \A q \in Requests \ {r} : env'[q] = env[q] /\ pc'[q] = pc[q]
  BY Arrived DEF IInv
<1>0. env[r] = Null /\ env'[r] # Null BY <1>a DEF IInv, RequestInv, ControlOf
<1>1. UNCHANGED <<StoreFiled, StorePreviews>>
  <2>1. ~Save(r) BY <1>a DEF Save
  <2> QED BY <2>1, StoreKept DEF Act
<1>2. UNCHANGED StoreRefused BY <1>a, <1>0 DEF StoreRefused, IsMessage, Finished
<1>3. StoreSubmitted[r] = Null BY <1>0 DEF StoreSubmitted, IsMessage
<1>4. \A q \in Requests \ {r} : StoreSubmitted'[q] = StoreSubmitted[q]
  BY <1>a DEF StoreSubmitted, IsMessage
<1>5. /\ StoreSubmitted = [q \in Requests |-> StoreSubmitted[q]]
      /\ StoreSubmitted' = [q \in Requests |-> StoreSubmitted'[q]]
  BY DEF StoreSubmitted
<1>6. CASE env'[r].op \in {"send", "replay"}
  <2>1. PICK from, to \in PartyIds : from = env'[r].from /\ to = env'[r].to
    BY <1>a, <1>6 DEF Call
  <2>2. StoreSubmitted'[r] = [from |-> from, to |-> to]
    BY <1>0, <1>6, <2>1 DEF StoreSubmitted, IsMessage
  <2>3. StoreSubmitted' = [StoreSubmitted EXCEPT ![r] = [from |-> from, to |-> to]]
    BY <1>4, <1>5, <2>2, PointUpdate
  <2> QED BY <1>1, <1>2, <1>3, <2>1, <2>3 DEF Store!Submit
<1>7. CASE env'[r].op \notin {"send", "replay"}
  <2>1. StoreSubmitted'[r] = Null BY <1>7 DEF StoreSubmitted, IsMessage
  <2>2. \A q \in Requests : StoreSubmitted'[q] = StoreSubmitted[q] BY <1>3, <1>4, <2>1
  <2>3. StoreSubmitted' = StoreSubmitted BY <1>5, <2>2
  <2> QED BY <1>1, <1>2, <2>3 DEF Store!storeVars
<1> QED BY <1>6, <1>7

\* A statement other than Save shows only when it ends a message request, and
\* then it is a refusal.
LEMMA OtherRefuses ==
  ASSUME IInv, NEW r \in Requests, Act(r), ~Arrive(r), ~Save(r)
  PROVE  Store!Refuse(r) \/ UNCHANGED Store!storeVars
<1>1. env' = env
  BY DEF Act, Proceed, Persist, Administer, Abort, ResolveFromKind, ResolveGroup,
         ResolveToKind, InfoLookup, FindDirect, CreateDirect, AddLow, AddHigh,
         InsertGroupConversation, InsertGroup, LinkGroup, AddOwner, RemoveParticipant,
         DeleteAgent
<1>2. UNCHANGED <<StoreFiled, StorePreviews>> BY StoreKept
<1>3. UNCHANGED StoreSubmitted BY <1>1 DEF StoreSubmitted, IsMessage
<1>4. pc[r] \notin {"failed", "done", "lost"} BY MakerMoves DEF IInv, Finished
<1>l. IsMessage(r) => pc'[r] # "lost"
  <2> SUFFICES ASSUME IsMessage(r), pc'[r] = "lost" PROVE FALSE OBVIOUS
  <2>1. pc[r] = "save" BY <1>1, DoneSources DEF IInv, IsMessage, Sending
  <2>2. Abort(r) \/ Save(r)
    BY <2>1 DEF Act, Proceed, Persist, Administer, ResolveFromKind, ResolveGroup,
       ResolveToKind, InfoLookup, FindDirect, CreateDirect, AddLow, AddHigh,
       InsertGroupConversation, InsertGroup, LinkGroup, AddOwner, RemoveParticipant,
       DeleteAgent
  <2> QED BY <2>2 DEF Abort, Goto, IInv, TypeOK
<1>5. \A q \in Requests \ {r} : pc'[q] = pc[q] BY OthersUnchanged DEF IInv
<1>6. CASE IsMessage(r) /\ pc'[r] = "failed"
  <2>1. StoreRefused' = StoreRefused \cup {r}
    BY <1>1, <1>5, <1>6 DEF StoreRefused, IsMessage
  <2>2. StoreSubmitted[r] # Null
    <3>1. pc[r] # "idle" /\ Sending(r) /\ env[r] \in Call
      BY <1>6 DEF IsMessage, Sending, IInv, TypeOK, RequestInv, ControlOf
    <3>2. pc[r] \in PersistSteps \cup DirectSteps \cup {"save"}
      <4>1. ControlOf(r) /\ pc[r] \in Steps BY DEF IInv, RequestInv, TypeOK
      <4>2. pc[r] \notin GroupSteps \cup {"infoLookup", "remove", "delete"}
        BY <3>1, <4>1 DEF ControlOf, Sending
      <4> QED BY <1>4, <3>1, <4>1, <4>2
              DEF Steps, PersistSteps, DirectSteps, GroupSteps
    <3>3. env[r].to \in PartyIds /\ env[r].from \in PartyIds
      BY <3>1, <3>2 DEF Call, IInv, RequestInv, ControlOf
    <3>4. [from |-> env[r].from, to |-> env[r].to] \in [from : PartyIds, to : PartyIds]
      BY <3>3
    <3> QED BY <1>6, <3>4, StoreAssumption DEF StoreSubmitted
  <2>3. StoreFiled[r] = Null BY <1>4 DEF StoreFiled, IInv, RequestInv, AnswerOf
  <2>4. r \notin StoreRefused BY <1>4 DEF StoreRefused
  <2> QED BY <1>2, <1>3, <2>1, <2>2, <2>3, <2>4 DEF Store!Refuse, Store!Pending
<1>7. CASE ~(IsMessage(r) /\ pc'[r] = "failed")
  <2>1. StoreRefused' = StoreRefused BY <1>1, <1>4, <1>5, <1>7, <1>l DEF StoreRefused, IsMessage
  <2> QED BY <1>2, <1>3, <2>1 DEF Store!storeVars
<1> QED BY <1>6, <1>7

\* Every step of the tables is a step of the store, or none.
LEMMA StepStore ==
  ~QueryFaults /\ IInv /\ LookupInv /\ [Next]_vars => [Store!Next]_(Store!storeVars)
<1> SUFFICES ASSUME ~QueryFaults, IInv, LookupInv, [Next]_vars
             PROVE  [Store!Next]_(Store!storeVars)
  OBVIOUS
<1>0. IInv' BY StepIInv
<1>1. ASSUME NEW r \in Requests, Act(r) PROVE [Store!Next]_(Store!storeVars)
  <2>1. CASE Arrive(r) BY <2>1, ArriveSubmits DEF Store!Next
  <2>2. CASE Save(r) BY <1>0, <1>1, <2>2, SaveStores DEF Store!Next
  <2>3. CASE ~Arrive(r) /\ ~Save(r) BY <1>1, <2>3, OtherRefuses DEF Store!Next
  <2> QED BY <2>1, <2>2, <2>3
<1>2. CASE UNCHANGED <<conversations, groups, messages, pc, env>>
  <2>1. UNCHANGED StoreSubmitted BY <1>2 DEF StoreSubmitted, IsMessage
  <2>2. UNCHANGED StoreRefused BY <1>2 DEF StoreRefused, IsMessage
  <2>3. UNCHANGED StoreFiled BY <1>2 DEF StoreFiled, ChannelOf
  <2>4. UNCHANGED StorePreviews BY <1>2 DEF StorePreviews, Exists
  <2> QED BY <2>1, <2>2, <2>3, <2>4 DEF Store!storeVars
<1>3. CASE Tick \/ Idle \/ UNCHANGED vars BY <1>2, <1>3 DEF Tick, Idle, tables, vars
<1> QED BY <1>1, <1>3 DEF Next, Act

\* When no SELECT fails, the handlers and their tables implement MessageStore
\* for every number of requests, parties, groups and conversations, also when
\* requests die anywhere and when a COMMIT takes effect but its reply is lost: a
\* message is stored at most once, in the one channel of its sender and addressee,
\* and made the latest there in the same step, no later than its request ends; a
\* sender who was not told "sent" may find it stored only if replies can be lost
\* (defaultPersistMessage, GetOrCreateDirect, Messages.Save).
THEOREM StoreImplemented == ~QueryFaults => (Spec => ImplementsMessageStore)
<1> SUFFICES ASSUME ~QueryFaults PROVE Spec => ImplementsMessageStore OBVIOUS
<1>1. Spec => [](IInv /\ LookupInv) BY LookupInvariance
<1>2. IInv /\ LookupInv /\ [Next]_vars => [Store!Next]_(Store!storeVars) BY StepStore
<1> QED BY <1>1, <1>2, InitStore, PTL DEF Spec, ImplementsMessageStore, Store!Spec
=============================================================================
