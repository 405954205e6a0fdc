------------------------- MODULE ConversationsProofs -------------------------
(* Proofs about Conversations, for every value of its constants.           *)
EXTENDS ConversationsInv, TLAPS

USE IdsAssumption, NullAssumption, ClockAssumption

\* Cutting a time to whole seconds gives a time.
LEMMA SecondsType == ASSUME NEW t \in Nat PROVE Seconds(t) \in Nat
  BY DEF Seconds

\* Recording the caller's kind keeps the locals well typed.
LEMMA LocKindType ==
  ASSUME TypeOK, NEW r \in Requests, NEW from,
         loc' = [loc EXCEPT ![r].fromKind = CallerKind(from)]
  PROVE  loc' \in [Requests -> Locals]
<1>1. CallerKind(from) \in Kinds BY DEF CallerKind, Kinds
<1>2. PICK k \in Kinds : k = CallerKind(from) BY <1>1
<1>3. loc \in [Requests -> Locals] BY DEF TypeOK
<1>4. loc' = [loc EXCEPT ![r].fromKind = k] BY <1>2
<1> QED BY <1>3, <1>4 DEF Locals

\* So does choosing a conversation.
LEMMA LocConvType ==
  ASSUME TypeOK, NEW r \in Requests, NEW c \in ConvIds, loc' = [loc EXCEPT ![r].conv = c]
  PROVE  loc' \in [Requests -> Locals]
<1>1. loc \in [Requests -> Locals] BY DEF TypeOK
<1> QED BY <1>1 DEF Locals

\* And so does making one.
LEMMA LocMadeType ==
  ASSUME TypeOK, NEW r \in Requests, NEW c \in ConvIds,
         loc' = [loc EXCEPT ![r].conv = c, ![r].made = TRUE]
  PROVE  loc' \in [Requests -> Locals]
<1>1. loc \in [Requests -> Locals] BY DEF TypeOK
<1> QED BY <1>1 DEF Locals

\* The steps of the handlers preserve the type invariant.
LEMMA TypeArrive ==
  ASSUME TypeOK, NEW r \in Requests, Arrive(r) PROVE TypeOK'
<1> USE DEF TypeOK, Start, Goto, Steps, Operations, Kinds, Locals, Call, tables,
            CallerKind, Callers, PartyIds, Addressees
<1>0. Seconds(clock) \in Nat BY SecondsType
<1>1. ASSUME NEW from \in UserIds \cup AgentIds, NEW to \in Addressees, StartSend(r, from, to)
      PROVE TypeOK'
  BY <1>0, <1>1 DEF StartSend
<1>2. ASSUME NEW from \in UserIds \cup AgentIds, NEW to \in Addressees, StartInfo(r, from, to)
      PROVE TypeOK'
  <2>1. CallerKind(from) \in Kinds /\ to \in PartyIds OBVIOUS
  <2>2. loc' \in [Requests -> Locals] BY <1>2, LocKindType DEF StartInfo
  <2> QED BY <1>0, <1>2, <2>1, <2>2 DEF StartInfo
<1>3. ASSUME NEW m \in Requests, StartReplay(r, m) PROVE TypeOK'
  BY <1>0, <1>3 DEF StartReplay, MessageRow
<1>4. ASSUME NEW u \in UserIds, NEW name \in GroupNames, StartCreateGroup(r, u, name)
      PROVE TypeOK'
  BY <1>0, <1>4 DEF StartCreateGroup
<1>5. ASSUME NEW id \in UserIds \cup AgentIds, NEW kind \in Kinds, NEW g \in GroupIds,
             StartLeave(r, id, kind, g)
      PROVE TypeOK'
  <2>1. groups[g].conv \in ConvIds
    <3>1. groups[g] # Null BY <1>5 DEF StartLeave
    <3>2. groups[g] \in GroupRow BY <3>1
    <3> QED BY <3>2 DEF GroupRow
  <2>2. loc' \in [Requests -> Locals]
    <3>1. loc' = [loc EXCEPT ![r].conv = groups[g].conv] BY <1>5 DEF StartLeave
    <3> QED BY <2>1, <3>1, LocConvType
  <2> QED BY <1>0, <1>5, <2>2 DEF StartLeave
<1>6. ASSUME NEW a \in AgentIds, StartDelete(r, a) PROVE TypeOK'
  BY <1>0, <1>6 DEF StartDelete
<1> QED BY <1>1, <1>2, <1>3, <1>4, <1>5, <1>6 DEF Arrive

\* Adding a participant row of the right type keeps the table well typed.
LEMMA AddParticipantType ==
  ASSUME TypeOK, NEW c \in ConvIds, NEW id \in PartyIds, NEW kind \in Kinds,
         AddParticipant(c, id, kind)
  PROVE  participants' \subseteq ParticipantRow
BY DEF TypeOK, AddParticipant, ParticipantRow

\* The pair GetOrCreateDirect works on is well typed.
LEMMA DirectTypes ==
  ASSUME TypeOK, RequestInv, NEW r \in Requests, pc[r] \in DirectSteps
  PROVE  /\ IdLow(r) \in PartyIds /\ IdHigh(r) \in PartyIds
         /\ KindLow(r) \in Kinds /\ KindHigh(r) \in Kinds
<1>1. env[r] # Null /\ env[r].to \in PartyIds
  BY DEF RequestInv, ControlOf, DirectSteps
<1>2. env[r].from \in PartyIds BY <1>1 DEF TypeOK, Call
<1>3. loc[r].fromKind \in Kinds /\ loc[r].toKind \in Kinds
  BY DEF RequestInv, ControlOf, DirectSteps
<1> QED BY <1>1, <1>2, <1>3 DEF IdLow, IdHigh, KindLow, KindHigh

\* The steps of GetOrCreateDirect and defaultPersistMessage are well typed.
LEMMA TypePersist ==
  ASSUME TypeOK, RequestInv, GroupLinkConsistent, NEW r \in Requests, Persist(r)
  PROVE  TypeOK'
<1>conv. conversations \in [ConvIds -> ConvRow \cup {Null}] BY DEF TypeOK
<1>grp. groups \in [GroupIds -> GroupRow \cup {Null}] BY DEF TypeOK
<1>msg. messages \in [Requests -> MessageRow \cup {Null}] BY DEF TypeOK
<1>pc. pc \in [Requests -> Steps] BY DEF TypeOK
<1>env. env \in [Requests -> Call \cup {Null}] BY DEF TypeOK
<1>loc. loc \in [Requests -> Locals] BY DEF TypeOK
<1>clk. clock \in Nat BY DEF TypeOK
<1> USE DEF Goto, Reply, tables
<1>1. CASE ResolveFromKind(r)
  <2>1. loc' \in [Requests -> Locals]
    BY <1>1, <1>loc DEF ResolveFromKind, Locals, Kinds, Lookups, Missed
  <2>2. pc' \in [Requests -> Steps] BY <1>1, <1>pc DEF ResolveFromKind, Steps
  <2> QED BY <1>1, <2>1, <2>2 DEF ResolveFromKind, TypeOK
<1>2. CASE ResolveGroup(r)
  <2>1. GroupFound(env[r].to) => groups[env[r].to].conv \in ConvIds
    BY <1>grp DEF GroupFound, GroupRow
  <2>2. ASSUME NEW c \in ConvIds, loc' = [loc EXCEPT ![r].conv = c]
        PROVE  loc' \in [Requests -> Locals]
    BY <1>loc, <2>2 DEF Locals
  <2>5. ASSUME NEW found, loc' = [loc EXCEPT ![r].missed = Missed(@, "toGroup", found)]
        PROVE  loc' \in [Requests -> Locals]
    BY <1>loc, <2>5 DEF Locals, Lookups, Missed
  <2>3. loc' \in [Requests -> Locals] BY <1>2, <2>1, <2>2, <2>5 DEF ResolveGroup
  <2>4. pc' \in [Requests -> Steps] BY <1>2, <1>pc DEF ResolveGroup, Steps
  <2> QED BY <1>2, <2>3, <2>4 DEF ResolveGroup, TypeOK
<1>3. CASE ResolveToKind(r)
  <2>1. loc' \in [Requests -> Locals]
    BY <1>3, <1>loc DEF ResolveToKind, Locals, Kinds, Lookups, Missed
  <2>2. pc' \in [Requests -> Steps] BY <1>3, <1>pc DEF ResolveToKind, Steps
  <2> QED BY <1>3, <2>1, <2>2 DEF ResolveToKind, TypeOK
<1>4. CASE InfoLookup(r)
  <2>1. CallerKind(env[r].to) \in Kinds BY DEF CallerKind, Kinds
  <2>2. loc' \in [Requests -> Locals] BY <1>4, <1>loc, <2>1 DEF InfoLookup, Locals
  <2>3. pc' \in [Requests -> Steps] BY <1>4, <1>pc DEF InfoLookup, Steps
  <2> QED BY <1>4, <2>2, <2>3 DEF InfoLookup, TypeOK
<1>5. CASE FindDirect(r)
  <2>1. ASSUME NEW c \in ConvIds, loc' = [loc EXCEPT ![r].conv = c]
        PROVE  loc' \in [Requests -> Locals]
    BY <1>loc, <2>1 DEF Locals
  <2>4. ASSUME loc' = [loc EXCEPT ![r].missed = @ \cup {"find"}]
        PROVE  loc' \in [Requests -> Locals]
    BY <1>loc, <2>4 DEF Locals, Lookups
  <2>2. loc' \in [Requests -> Locals] BY <1>5, <1>loc, <2>1, <2>4 DEF FindDirect, DirectOf
  <2>3. pc' \in [Requests -> Steps] BY <1>5, <1>pc DEF FindDirect, AfterDirect, Steps
  <2> QED BY <1>5, <2>2, <2>3 DEF FindDirect, TypeOK
<1>6. CASE CreateDirect(r)
  <2>1. IdLow(r) \in PartyIds /\ IdHigh(r) \in PartyIds
    BY <1>6, DirectTypes DEF CreateDirect, DirectSteps
  <2>2. NewConversation("direct", IdLow(r), IdHigh(r)) \in ConvRow
    BY <2>1, <1>clk DEF NewConversation, ConvRow
  <2>4. loc' \in [Requests -> Locals] BY <1>6, <1>loc, LocMadeType DEF CreateDirect
  <2>5. conversations' \in [ConvIds -> ConvRow \cup {Null}]
    BY <1>6, <1>conv, <2>2 DEF CreateDirect
  <2>6. pc' \in [Requests -> Steps] BY <1>6, <1>pc DEF CreateDirect, AfterConflict, Steps
  <2> QED BY <1>6, <2>4, <2>5, <2>6 DEF CreateDirect, TypeOK
<1>7. CASE AddLow(r)
  <2>1. loc[r].conv \in ConvIds BY <1>7 DEF AddLow, RequestInv, MakerOf
  <2>2. participants' \subseteq ParticipantRow
    BY <1>7, <2>1, DirectTypes, AddParticipantType DEF AddLow, DirectSteps
  <2>3. pc' \in [Requests -> Steps] BY <1>7, <1>pc DEF AddLow, Steps
  <2> QED BY <1>7, <2>2, <2>3 DEF AddLow, TypeOK
<1>8. CASE AddHigh(r)
  <2>1. loc[r].conv \in ConvIds BY <1>8 DEF AddHigh, RequestInv, MakerOf
  <2>2. participants' \subseteq ParticipantRow
    BY <1>8, <2>1, DirectTypes, AddParticipantType DEF AddHigh, DirectSteps
  <2>3. pc' \in [Requests -> Steps] BY <1>8, <1>pc DEF AddHigh, AfterDirect, Steps
  <2> QED BY <1>8, <2>2, <2>3 DEF AddHigh, TypeOK
<1>9. CASE Save(r)
  <2>1. /\ loc[r].conv \in ConvIds /\ loc[r].fromKind \in Kinds /\ env[r] # Null
        /\ Filed(r)
    BY <1>9 DEF Save, RequestInv, ControlOf
  <2>2. Exists(loc[r].conv)
    BY <2>1 DEF Filed, IsDirect, GroupFound, GroupLinkConsistent
  <2>3. env[r] \in Call BY <2>1, <1>env
  <2>4. env[r].from \in PartyIds /\ env[r].ts \in Nat BY <2>3 DEF Call
  <2>5. messages' \in [Requests -> MessageRow \cup {Null}]
    BY <1>9, <1>msg, <2>1, <2>4 DEF Save, MessageRow
  <2>6. conversations[loc[r].conv] \in ConvRow BY <1>conv, <2>1, <2>2 DEF Exists
  <2>7. [conversations[loc[r].conv] EXCEPT !.lastMsg = r, !.lastAt = env[r].ts] \in ConvRow
    BY <2>4, <2>6 DEF ConvRow
  <2>8. conversations' \in [ConvIds -> ConvRow \cup {Null}]
    BY <1>9, <1>conv, <2>1, <2>7 DEF Save
  <2>9. pc' \in [Requests -> Steps] BY <1>9, <1>pc DEF Save, Steps
  <2> QED BY <1>9, <2>5, <2>8, <2>9 DEF Save, TypeOK
<1> QED BY <1>1, <1>2, <1>3, <1>4, <1>5, <1>6, <1>7, <1>8, <1>9 DEF Persist

\* The steps of CreateGroup, LeaveGroup and Deregister are well typed.
LEMMA TypeAdminister ==
  ASSUME TypeOK, RequestInv, GroupProgress, NEW r \in Requests, Administer(r)
  PROVE  TypeOK'
<1>conv. conversations \in [ConvIds -> ConvRow \cup {Null}] BY DEF TypeOK
<1>grp. groups \in [GroupIds -> GroupRow \cup {Null}] BY DEF TypeOK
<1>pc. pc \in [Requests -> Steps] BY DEF TypeOK
<1>loc. loc \in [Requests -> Locals] BY DEF TypeOK
<1>clk. clock \in Nat BY DEF TypeOK
<1> USE DEF Goto, Reply, tables
<1>made. pc[r] \in {"newGroup", "link", "addOwner"} =>
           /\ loc[r].conv \in ConvIds
           /\ conversations[loc[r].conv] \in ConvRow
           /\ env[r].from \in UserIds
           /\ env[r].name \in GroupNames
  BY <1>conv DEF RequestInv, MakerOf, ControlOf, GroupSteps, Exists
<1>1. CASE InsertGroupConversation(r)
  <2>1. NewConversation("group", Null, Null) \in ConvRow
    BY <1>clk DEF NewConversation, ConvRow
  <2>3. loc' \in [Requests -> Locals] BY <1>1, LocMadeType DEF InsertGroupConversation
  <2>4. conversations' \in [ConvIds -> ConvRow \cup {Null}]
    BY <1>1, <1>conv, <2>1 DEF InsertGroupConversation
  <2>5. pc' \in [Requests -> Steps] BY <1>1, <1>pc DEF InsertGroupConversation, Steps
  <2> QED BY <1>1, <2>3, <2>4, <2>5 DEF InsertGroupConversation, TypeOK
<1>2. CASE InsertGroup(r)
  <2>1. [name |-> env[r].name, owner |-> env[r].from, conv |-> loc[r].conv] \in GroupRow
    BY <1>2, <1>made DEF InsertGroup, GroupRow
  <2>2. ASSUME NEW g \in GroupIds, loc' = [loc EXCEPT ![r].group = g]
        PROVE  loc' \in [Requests -> Locals]
    BY <1>loc, <2>2 DEF Locals
  <2>3. loc' \in [Requests -> Locals] BY <1>2, <1>loc, <2>2 DEF InsertGroup
  <2>4. groups' \in [GroupIds -> GroupRow \cup {Null}]
    BY <1>2, <1>grp, <2>1 DEF InsertGroup
  <2>5. pc' \in [Requests -> Steps] BY <1>2, <1>pc DEF InsertGroup, Steps
  <2> QED BY <1>2, <2>3, <2>4, <2>5 DEF InsertGroup, TypeOK
<1>3. CASE LinkGroup(r)
  <2>1. loc[r].group \in GroupIds
    BY <1>3 DEF LinkGroup, GroupProgress, GroupFound
  <2>2. [conversations[loc[r].conv] EXCEPT !.group = loc[r].group] \in ConvRow
    BY <1>3, <1>made, <2>1 DEF LinkGroup, ConvRow
  <2>3. conversations' \in [ConvIds -> ConvRow \cup {Null}]
    BY <1>3, <1>conv, <1>made, <2>2 DEF LinkGroup
  <2>4. pc' \in [Requests -> Steps] BY <1>3, <1>pc DEF LinkGroup, Steps
  <2> QED BY <1>3, <2>3, <2>4 DEF LinkGroup, TypeOK
<1>4. CASE AddOwner(r)
  <2>1. env[r].from \in PartyIds /\ "user" \in Kinds
    BY <1>4, <1>made DEF AddOwner, PartyIds, Kinds
  <2>2. participants' \subseteq ParticipantRow
    BY <1>4, <1>made, <2>1, AddParticipantType DEF AddOwner
  <2>3. pc' \in [Requests -> Steps] BY <1>4, <1>pc DEF AddOwner, Steps
  <2> QED BY <1>4, <2>2, <2>3 DEF AddOwner, TypeOK
<1>5. CASE RemoveParticipant(r)
  <2>1. pc' \in [Requests -> Steps] BY <1>5, <1>pc DEF RemoveParticipant, Steps
  <2>2. participants' \subseteq ParticipantRow BY <1>5 DEF RemoveParticipant, TypeOK
  <2> QED BY <1>5, <2>1, <2>2 DEF RemoveParticipant, TypeOK
<1>6. CASE DeleteAgent(r)
  <2>1. pc' \in [Requests -> Steps] BY <1>6, <1>pc DEF DeleteAgent, Steps
  <2>2. agents' \subseteq AgentIds BY <1>6 DEF DeleteAgent, TypeOK
  <2> QED BY <1>6, <2>1, <2>2 DEF DeleteAgent, TypeOK
<1> QED BY <1>1, <1>2, <1>3, <1>4, <1>5, <1>6 DEF Administer

\* Every step of the specification preserves the type invariant.
LEMMA TypeStep ==
  ASSUME TypeOK, RequestInv, GroupLinkConsistent, GroupProgress, [Next]_vars
  PROVE  TypeOK'
<1>1. ASSUME NEW r \in Requests, Abort(r) PROVE TypeOK'
  <2>1. pc' \in [Requests -> Steps] BY <1>1 DEF Abort, Goto, Steps, TypeOK
  <2> QED BY <1>1, <2>1 DEF Abort, tables, TypeOK
<1>2. CASE Tick BY <1>2 DEF Tick, tables, TypeOK
<1>3. CASE UNCHANGED vars BY <1>3 DEF vars, TypeOK
<1>4. CASE Idle BY <1>3, <1>4 DEF Idle
<1> QED BY <1>1, <1>2, <1>3, <1>4, TypeArrive, TypePersist, TypeAdminister
        DEF Next, Proceed
-----------------------------------------------------------------------------
(* What a step of request r leaves alone.                                  *)

\* Rows of conversations and chat_groups stay, with their identity.
Stable ==
    /\ \A c \in ConvIds : Exists(c) =>
         /\ conversations'[c] # Null
         /\ conversations'[c].type = conversations[c].type
         /\ conversations'[c].low = conversations[c].low
         /\ conversations'[c].high = conversations[c].high
    /\ \A g \in GroupIds : groups[g] # Null => groups'[g] = groups[g]

Act(r) == Arrive(r) \/ Proceed(r) \/ Abort(r)

\* The locals and the message of another request do not change.
LEMMA OthersUnchanged ==
  ASSUME TypeOK, NEW r \in Requests, NEW s \in Requests, s # r, Act(r)
  PROVE  /\ pc'[s] = pc[s] /\ env'[s] = env[s]
         /\ loc'[s] = loc[s] /\ messages'[s] = messages[s]
<1>pc. pc \in [Requests -> Steps] BY DEF TypeOK
<1>env. env \in [Requests -> Call \cup {Null}] BY DEF TypeOK
<1>loc. loc \in [Requests -> Locals] BY DEF TypeOK
<1>msg. messages \in [Requests -> MessageRow \cup {Null}] BY DEF TypeOK
<1> USE <1>pc, <1>env, <1>loc, <1>msg DEF Goto, Reply, tables
<1>1. CASE Arrive(r)
  BY <1>1 DEF Arrive, Start, StartSend, StartInfo, StartReplay, StartCreateGroup,
              StartLeave, StartDelete
<1>2. CASE Persist(r)
  BY <1>2 DEF Persist, ResolveFromKind, ResolveGroup, ResolveToKind, InfoLookup,
              FindDirect, CreateDirect, AddLow, AddHigh, Save
<1>3. CASE Administer(r)
  BY <1>3 DEF Administer, InsertGroupConversation, InsertGroup, LinkGroup, AddOwner,
              RemoveParticipant, DeleteAgent
<1>4. CASE Abort(r) BY <1>4 DEF Abort
<1> QED BY <1>1, <1>2, <1>3, <1>4 DEF Act, Proceed

\* No step takes a conversation or a group away or changes its identity.
LEMMA StableStep ==
  ASSUME TypeOK, RequestInv, NEW r \in Requests, Act(r)
  PROVE  Stable
<1>conv. conversations \in [ConvIds -> ConvRow \cup {Null}] BY DEF TypeOK
<1>grp. groups \in [GroupIds -> GroupRow \cup {Null}] BY DEF TypeOK
<1> USE DEF Goto, Reply, tables, Exists, Stable
<1>0. ASSUME UNCHANGED <<conversations, groups>> PROVE Stable BY <1>0
<1>1. CASE Arrive(r)
  BY <1>0, <1>1 DEF Arrive, Start, StartSend, StartInfo, StartReplay, StartCreateGroup,
              StartLeave, StartDelete
<1>2. CASE CreateDirect(r) BY <1>2, <1>conv DEF CreateDirect
<1>3. CASE Save(r)
  <2> DEFINE k == loc[r].conv
  <2>1. k \in ConvIds BY <1>3 DEF Save, RequestInv, ControlOf
  <2>2. ASSUME NEW c \in ConvIds, c # k PROVE conversations'[c] = conversations[c]
    BY <1>3, <1>conv, <2>2 DEF Save
  <2>3. conversations'[k] = [conversations[k] EXCEPT !.lastMsg = r, !.lastAt = env[r].ts]
    BY <1>3, <1>conv, <2>1 DEF Save
  <2>t. env[r].ts \in Nat
    BY <1>3 DEF Save, RequestInv, ControlOf, TypeOK, Call
  <2>4. Exists(k) => conversations[k] \in ConvRow BY <1>conv, <2>1
  <2> HIDE DEF k
  <2>5. Exists(k) => /\ conversations'[k] \in ConvRow
                    /\ conversations'[k].type = conversations[k].type
                    /\ conversations'[k].low = conversations[k].low
                    /\ conversations'[k].high = conversations[k].high
    BY <2>3, <2>4, <2>t DEF ConvRow
  <2>6. UNCHANGED groups BY <1>3 DEF Save
  <2> QED BY <2>1, <2>2, <2>5, <2>6
<1>4. CASE InsertGroupConversation(r) BY <1>4, <1>conv DEF InsertGroupConversation
<1>5. CASE InsertGroup(r) BY <1>5, <1>grp DEF InsertGroup
<1>6. CASE LinkGroup(r)
  <2> DEFINE k == loc[r].conv
  <2>1. k \in ConvIds BY <1>6 DEF LinkGroup, RequestInv, MakerOf
  <2>2. ASSUME NEW c \in ConvIds, c # k PROVE conversations'[c] = conversations[c]
    BY <1>6, <1>conv, <2>2 DEF LinkGroup
  <2>3. conversations'[k] = [conversations[k] EXCEPT !.group = loc[r].group]
    BY <1>6, <1>conv, <2>1 DEF LinkGroup
  <2>t. loc[r].group \in GroupIds \cup {Null} BY DEF TypeOK, Locals
  <2>4. Exists(k) => conversations[k] \in ConvRow BY <1>conv, <2>1
  <2> HIDE DEF k
  <2>5. Exists(k) => /\ conversations'[k] \in ConvRow
                    /\ conversations'[k].type = conversations[k].type
                    /\ conversations'[k].low = conversations[k].low
                    /\ conversations'[k].high = conversations[k].high
    BY <2>3, <2>4, <2>t DEF ConvRow
  <2>6. UNCHANGED groups BY <1>6 DEF LinkGroup
  <2> QED BY <2>1, <2>2, <2>5, <2>6
<1>7. CASE Abort(r) BY <1>0, <1>7 DEF Abort
<1> QED BY <1>0, <1>1, <1>2, <1>3, <1>4, <1>5, <1>6, <1>7
        DEF Act, Proceed, Persist, Administer, ResolveFromKind, ResolveGroup, ResolveToKind,
            InfoLookup, FindDirect, AddLow, AddHigh, AddOwner, RemoveParticipant, DeleteAgent

\* A request that does not move keeps what it knows.
LEMMA RequestFrame ==
  ASSUME TypeOK, Stable, NEW s \in Requests,
         pc'[s] = pc[s], env'[s] = env[s], loc'[s] = loc[s], messages'[s] = messages[s],
         ControlOf(s), AnswerOf(s), MakerOf(s)
  PROVE  (ControlOf(s) /\ AnswerOf(s) /\ MakerOf(s))'
<1>1. /\ IdLow(s)' = IdLow(s) /\ IdHigh(s)' = IdHigh(s)
      /\ Sending(s)' = Sending(s)
  BY DEF IdLow, IdHigh, Sending
<1>2. Filed(s) /\ loc[s].conv \in ConvIds => Filed(s)'
  BY <1>1 DEF Filed, Stable, IsDirect, Exists, GroupFound
<1>3. ControlOf(s)' BY <1>1, <1>2 DEF ControlOf
<1>4. AnswerOf(s)' BY <1>1, <1>2 DEF AnswerOf
<1>5. MakerOf(s)'
  BY <1>1 DEF MakerOf, Stable, IsDirect, Exists
<1> QED BY <1>3, <1>4, <1>5
-----------------------------------------------------------------------------
(* What the request that moves knows afterwards.                           *)

\* A request that has just arrived has set nothing but its arguments.
LEMMA ArriveSelf ==
  ASSUME TypeOK, RequestInv, NEW r \in Requests, Arrive(r)
  PROVE  (ControlOf(r) /\ AnswerOf(r) /\ MakerOf(r))'
<1>pc. pc \in [Requests -> Steps] BY DEF TypeOK
<1>env. env \in [Requests -> Call \cup {Null}] BY DEF TypeOK
<1>loc. loc \in [Requests -> Locals] BY DEF TypeOK
<1>sec. Seconds(clock) \in Nat BY SecondsType DEF TypeOK
<1>0. pc[r] = "idle" /\ messages' = messages
  BY DEF Arrive, Start, StartSend, StartInfo, StartReplay, StartCreateGroup,
         StartLeave, StartDelete, tables
<1>1. loc[r] = NoLocals /\ messages[r] = Null
  BY <1>0 DEF RequestInv, ControlOf, AnswerOf
<1> USE DEF Start, Goto
<1>2. ASSUME NEW from \in UserIds \cup AgentIds, NEW to \in Addressees, StartSend(r, from, to)
      PROVE  (ControlOf(r) /\ AnswerOf(r) /\ MakerOf(r))'
  <2>1. to \in PartyIds /\ from \in PartyIds /\ CallerKind(from) \in Kinds
    BY DEF Addressees, PartyIds, CallerKind, Kinds
  <2>2. env'[r] \in Call /\ env'[r].op = "send" /\ env'[r].to = to
    BY <1>2, <1>env, <1>sec, <2>1 DEF StartSend, Call, Operations
  <2>3. pc'[r] = "fromKind" /\ loc'[r] = NoLocals
    BY <1>1, <1>2, <1>pc DEF StartSend
  <2> QED BY <1>0, <1>1, <2>1, <2>2, <2>3
    DEF ControlOf, AnswerOf, MakerOf, Sending, NoLocals, PersistSteps, DirectSteps, GroupSteps
<1>3. ASSUME NEW from \in UserIds \cup AgentIds, NEW to \in Addressees, StartInfo(r, from, to)
      PROVE  (ControlOf(r) /\ AnswerOf(r) /\ MakerOf(r))'
  <2>1. to \in PartyIds /\ from \in PartyIds /\ CallerKind(from) \in Kinds
    BY DEF Addressees, PartyIds, CallerKind, Kinds
  <2>2. env'[r] \in Call /\ env'[r].op = "info" /\ env'[r].to = to
    BY <1>3, <1>env, <1>sec, <2>1 DEF StartInfo, Call, Operations
  <2>3. pc'[r] = "infoLookup" BY <1>3, <1>pc DEF StartInfo
  <2>4. loc'[r].fromKind \in Kinds /\ ~loc'[r].made
    BY <1>1, <1>3, <1>loc, <2>1 DEF StartInfo, NoLocals, Locals
  <2> QED BY <1>0, <1>1, <2>1, <2>2, <2>3, <2>4
    DEF ControlOf, AnswerOf, MakerOf, Sending, PersistSteps, DirectSteps, GroupSteps
<1>4. ASSUME NEW m \in Requests, StartReplay(r, m)
      PROVE  (ControlOf(r) /\ AnswerOf(r) /\ MakerOf(r))'
  <2>1. messages[m] \in MessageRow BY <1>4 DEF StartReplay, TypeOK
  <2>2. /\ messages[m].from \in PartyIds /\ messages[m].kind \in Kinds
        /\ messages[m].conv \in PartyIds
    BY <2>1 DEF MessageRow, PartyIds
  <2>3. env'[r] \in Call /\ env'[r].op = "replay" /\ env'[r].to \in PartyIds
    BY <1>4, <1>env, <1>sec, <2>2 DEF StartReplay, Call, Operations
  <2>4. pc'[r] = "fromKind" /\ loc'[r] = NoLocals
    BY <1>1, <1>4, <1>pc DEF StartReplay
  <2> QED BY <1>0, <1>1, <2>3, <2>4
    DEF ControlOf, AnswerOf, MakerOf, Sending, NoLocals, PersistSteps, DirectSteps, GroupSteps
<1>5. ASSUME NEW u \in UserIds, NEW name \in GroupNames, StartCreateGroup(r, u, name)
      PROVE  (ControlOf(r) /\ AnswerOf(r) /\ MakerOf(r))'
  <2>1. u \in PartyIds /\ "user" \in Kinds BY DEF PartyIds, Kinds
  <2>2. /\ env'[r] \in Call /\ env'[r].op = "createGroup" /\ env'[r].from = u
        /\ env'[r].name = name
    BY <1>5, <1>env, <1>sec, <2>1 DEF StartCreateGroup, Call, Operations
  <2>3. pc'[r] = "newConv" /\ loc'[r] = NoLocals
    BY <1>1, <1>5, <1>pc DEF StartCreateGroup
  <2> QED BY <1>0, <1>1, <2>2, <2>3
    DEF ControlOf, AnswerOf, MakerOf, Sending, NoLocals, PersistSteps, DirectSteps, GroupSteps
<1>6. ASSUME NEW id \in UserIds \cup AgentIds, NEW kind \in Kinds, NEW g \in GroupIds,
             StartLeave(r, id, kind, g)
      PROVE  (ControlOf(r) /\ AnswerOf(r) /\ MakerOf(r))'
  <2>1. id \in PartyIds /\ g \in PartyIds BY DEF PartyIds
  <2>2. env'[r] \in Call /\ env'[r].op = "leave"
    BY <1>6, <1>env, <1>sec, <2>1 DEF StartLeave, Call, Operations
  <2>3. pc'[r] = "remove" BY <1>6, <1>pc DEF StartLeave
  <2>4. ~loc'[r].made BY <1>1, <1>6, <1>loc DEF StartLeave, NoLocals, Locals
  <2> QED BY <1>0, <1>1, <2>2, <2>3, <2>4
    DEF ControlOf, AnswerOf, MakerOf, Sending, PersistSteps, DirectSteps, GroupSteps
<1>7. ASSUME NEW a \in AgentIds, StartDelete(r, a)
      PROVE  (ControlOf(r) /\ AnswerOf(r) /\ MakerOf(r))'
  <2>1. a \in PartyIds /\ "agent" \in Kinds BY DEF PartyIds, Kinds
  <2>2. env'[r] \in Call /\ env'[r].op = "deleteAgent"
    BY <1>7, <1>env, <1>sec, <2>1 DEF StartDelete, Call, Operations
  <2>3. pc'[r] = "delete" /\ loc'[r] = NoLocals BY <1>1, <1>7, <1>pc DEF StartDelete
  <2> QED BY <1>0, <1>1, <2>2, <2>3
    DEF ControlOf, AnswerOf, MakerOf, Sending, NoLocals, PersistSteps, DirectSteps, GroupSteps
<1> QED BY <1>2, <1>3, <1>4, <1>5, <1>6, <1>7 DEF Arrive

\* The arguments of a request fix its pair and its purpose.
LEMMA SameCall ==
  ASSUME NEW r \in Requests, env' = env
  PROVE  /\ IdLow(r)' = IdLow(r) /\ IdHigh(r)' = IdHigh(r)
         /\ Sending(r)' = Sending(r) /\ AfterDirect(r)' = AfterDirect(r)
BY DEF IdLow, IdHigh, Sending, AfterDirect

\* A request that has looked something up knows what it needs for the next step.
LEMMA LookupSelf ==
  ASSUME TypeOK, RequestInv, NEW r \in Requests,
         \/ ResolveFromKind(r) \/ ResolveGroup(r) \/ ResolveToKind(r)
         \/ InfoLookup(r) \/ FindDirect(r)
  PROVE  (ControlOf(r) /\ AnswerOf(r) /\ MakerOf(r))'
<1>pc. pc \in [Requests -> Steps] BY DEF TypeOK
<1>grp. groups \in [GroupIds -> GroupRow \cup {Null}] BY DEF TypeOK
<1>loc. loc \in [Requests -> Locals] BY DEF TypeOK
<1>0. ControlOf(r) /\ AnswerOf(r) /\ MakerOf(r) BY DEF RequestInv
<1>1. /\ UNCHANGED <<agents, conversations, participants, groups, messages, env>>
      /\ pc[r] \in {"fromKind", "toGroup", "toKind", "infoLookup", "find"}
  BY DEF ResolveFromKind, ResolveGroup, ResolveToKind, InfoLookup, FindDirect, tables
<1>2. /\ env[r] # Null /\ env[r].to \in PartyIds /\ ~loc[r].made
      /\ pc[r] # "fromKind" => loc[r].fromKind \in Kinds
      /\ pc[r] \in {"fromKind", "toGroup", "toKind"} => Sending(r)
      /\ pc[r] = "find" => loc[r].toKind \in Kinds /\ (Sending(r) \/ env[r].op = "info")
      /\ pc[r] = "infoLookup" => env[r].op = "info"
      /\ messages[r] = Null
  BY <1>0, <1>1 DEF ControlOf, AnswerOf, MakerOf, NoLocals, PersistSteps, DirectSteps
<1>3. Sending(r)' = Sending(r) /\ IdLow(r)' = IdLow(r) /\ IdHigh(r)' = IdHigh(r)
  BY <1>1, SameCall
<1> USE DEF Goto, Reply
<1>4. CASE ResolveFromKind(r)
  <2>1. pc'[r] = "toGroup" /\ pc[r] = "fromKind" BY <1>4, <1>pc DEF ResolveFromKind
  <2>2. loc'[r].fromKind \in Kinds /\ ~loc'[r].made
    BY <1>2, <1>4, <1>loc DEF ResolveFromKind, Locals, Kinds, Missed
  <2> QED BY <1>1, <1>2, <1>3, <2>1, <2>2
    DEF ControlOf, AnswerOf, MakerOf, PersistSteps, DirectSteps, GroupSteps
<1>5. CASE ResolveGroup(r)
  <2>0. pc[r] = "toGroup" BY <1>5 DEF ResolveGroup
  <2>1. CASE /\ GroupFound(env[r].to)
             /\ loc' = [loc EXCEPT ![r].conv = groups[env[r].to].conv]
             /\ Goto(r, "save")
    <3>1. groups[env[r].to].conv \in ConvIds BY <2>1, <1>grp DEF GroupFound, GroupRow
    <3>2. /\ pc'[r] = "save" /\ loc'[r].conv = groups[env[r].to].conv
          /\ loc'[r].fromKind \in Kinds /\ ~loc'[r].made
      BY <1>2, <2>0, <2>1, <1>loc, <1>pc DEF Locals
    <3>3. Filed(r)' BY <1>1, <2>1, <3>2 DEF Filed, GroupFound
    <3> QED BY <1>1, <1>2, <1>3, <2>0, <3>1, <3>2, <3>3
      DEF ControlOf, AnswerOf, MakerOf, PersistSteps, DirectSteps, GroupSteps
  <2>2. ASSUME Goto(r, "toKind"), NEW found,
               loc' = [loc EXCEPT ![r].missed = Missed(@, "toGroup", found)]
        PROVE  (ControlOf(r) /\ AnswerOf(r) /\ MakerOf(r))'
    <3>1. /\ pc'[r] = "toKind" /\ loc'[r].made = loc[r].made
          /\ loc'[r].fromKind = loc[r].fromKind
      BY <2>2, <1>pc, <1>loc DEF Locals
    <3> QED BY <1>1, <1>2, <1>3, <2>0, <3>1
      DEF ControlOf, AnswerOf, MakerOf, PersistSteps, DirectSteps, GroupSteps
  <2> QED BY <1>5, <2>1, <2>2 DEF ResolveGroup
<1>6. CASE ResolveToKind(r)
  <2>1. pc'[r] = "find" /\ pc[r] = "toKind" BY <1>6, <1>pc DEF ResolveToKind
  <2>2. loc'[r].fromKind \in Kinds /\ loc'[r].toKind \in Kinds /\ ~loc'[r].made
    BY <1>2, <1>6, <1>loc DEF ResolveToKind, Locals, Kinds, Missed
  <2> QED BY <1>1, <1>2, <1>3, <2>1, <2>2
    DEF ControlOf, AnswerOf, MakerOf, PersistSteps, DirectSteps, GroupSteps
<1>7. CASE InfoLookup(r)
  <2>0. pc[r] = "infoLookup" BY <1>7 DEF InfoLookup
  <2>1. CASE loc' = [loc EXCEPT ![r].toKind = CallerKind(env[r].to)] /\ Goto(r, "find")
    <3>0. CallerKind(env[r].to) \in Kinds BY DEF CallerKind, Kinds
    <3>1. /\ pc'[r] = "find" /\ loc'[r].toKind \in Kinds
          /\ loc'[r].fromKind \in Kinds /\ ~loc'[r].made
      BY <1>2, <2>0, <2>1, <3>0, <1>loc, <1>pc DEF Locals
    <3> QED BY <1>1, <1>2, <1>3, <2>0, <3>1
      DEF ControlOf, AnswerOf, MakerOf, PersistSteps, DirectSteps, GroupSteps
  <2>2. CASE /\ Goto(r, IF env[r].to \in GroupIds THEN "done" ELSE "failed")
             /\ UNCHANGED loc
    <3>1. pc'[r] \in {"done", "failed"} /\ loc'[r] = loc[r] BY <2>2, <1>pc
    <3>2. ~Sending(r) BY <1>2, <2>0 DEF Sending
    <3> QED BY <1>1, <1>2, <1>3, <2>0, <3>1, <3>2
      DEF ControlOf, AnswerOf, MakerOf, PersistSteps, DirectSteps, GroupSteps
  <2> QED BY <1>7, <2>1, <2>2 DEF InfoLookup
<1>8. CASE FindDirect(r)
  <2>0. pc[r] = "find" BY <1>8 DEF FindDirect
  <2>1. ASSUME NEW c \in DirectOf(IdLow(r), IdHigh(r)),
               loc' = [loc EXCEPT ![r].conv = c], Goto(r, AfterDirect(r))
        PROVE  (ControlOf(r) /\ AnswerOf(r) /\ MakerOf(r))'
    <3>1. /\ c \in ConvIds /\ IsDirect(c)
          /\ conversations[c].low = IdLow(r) /\ conversations[c].high = IdHigh(r)
      BY DEF DirectOf
    <3>2. /\ pc'[r] = AfterDirect(r) /\ loc'[r].conv = c
          /\ loc'[r].fromKind \in Kinds /\ ~loc'[r].made
      BY <1>2, <2>0, <2>1, <3>1, <1>loc, <1>pc DEF Locals
    <3>3. Filed(r)' BY <1>1, <1>3, <3>1, <3>2 DEF Filed, IsDirect, Exists
    <3>4. \/ pc'[r] = "done" /\ ~Sending(r)
          \/ pc'[r] = "save" /\ Sending(r)
      BY <1>2, <2>0, <3>2 DEF AfterDirect, Sending
    <3> QED BY <1>1, <1>2, <1>3, <3>1, <3>2, <3>3, <3>4
      DEF ControlOf, AnswerOf, MakerOf, PersistSteps, DirectSteps, GroupSteps
  <2>2. CASE Goto(r, "create") /\ UNCHANGED loc
    <3>1. pc'[r] = "create" /\ loc'[r] = loc[r] BY <2>2, <1>pc
    <3> QED BY <1>1, <1>2, <1>3, <2>0, <3>1
      DEF ControlOf, AnswerOf, MakerOf, PersistSteps, DirectSteps, GroupSteps
  <2>3. CASE Goto(r, "failed") /\ loc' = [loc EXCEPT ![r].missed = @ \cup {"find"}]
    <3>1. pc'[r] = "failed" /\ loc'[r].made = loc[r].made
      BY <2>3, <1>pc, <1>loc DEF Locals
    <3> QED BY <1>1, <1>2, <1>3, <2>0, <3>1
      DEF ControlOf, AnswerOf, MakerOf, PersistSteps, DirectSteps, GroupSteps
  <2> QED BY <1>8, <2>1, <2>2, <2>3 DEF FindDirect
<1> QED BY <1>4, <1>5, <1>6, <1>7, <1>8

\* A request that has written something knows what it wrote.
LEMMA WriteSelf ==
  ASSUME TypeOK, RequestInv, GroupLinkConsistent, NEW r \in Requests,
         CreateDirect(r) \/ AddLow(r) \/ AddHigh(r) \/ Save(r)
  PROVE  (ControlOf(r) /\ AnswerOf(r) /\ MakerOf(r))'
<1>conv. conversations \in [ConvIds -> ConvRow \cup {Null}] BY DEF TypeOK
<1>pc. pc \in [Requests -> Steps] BY DEF TypeOK
<1>loc. loc \in [Requests -> Locals] BY DEF TypeOK
<1>msg. messages \in [Requests -> MessageRow \cup {Null}] BY DEF TypeOK
<1>0. ControlOf(r) /\ AnswerOf(r) /\ MakerOf(r) BY DEF RequestInv
<1>1. env' = env /\ groups' = groups /\ pc[r] \in {"create", "addLow", "addHigh", "save"}
  BY DEF CreateDirect, AddLow, AddHigh, Save
<1>2. /\ env[r] # Null /\ env[r].to \in PartyIds /\ loc[r].fromKind \in Kinds
      /\ pc[r] # "save" => loc[r].toKind \in Kinds /\ (Sending(r) \/ env[r].op = "info")
      /\ pc[r] = "create" => ~loc[r].made
      /\ messages[r] = Null
  BY <1>0, <1>1 DEF ControlOf, AnswerOf, MakerOf, DirectSteps
<1>3. Sending(r)' = Sending(r) /\ IdLow(r)' = IdLow(r) /\ IdHigh(r)' = IdHigh(r)
  BY <1>1, SameCall
<1> USE DEF Goto, Reply
<1>4. CASE CreateDirect(r)
  <2>0. pc[r] = "create" /\ messages' = messages BY <1>4 DEF CreateDirect
  <2>1. ASSUME NEW c \in ConvIds, Goto(r, "addLow"),
               conversations' = [conversations EXCEPT ![c] =
                 NewConversation("direct", IdLow(r), IdHigh(r))],
               loc' = [loc EXCEPT ![r].conv = c, ![r].made = TRUE]
        PROVE  (ControlOf(r) /\ AnswerOf(r) /\ MakerOf(r))'
    <3>1. /\ loc'[r].conv = c /\ loc'[r].made
          /\ loc'[r].fromKind \in Kinds /\ loc'[r].toKind \in Kinds
      BY <1>2, <2>0, <2>1, <1>loc DEF Locals
    <3>2. conversations'[c] = NewConversation("direct", IdLow(r), IdHigh(r))
      BY <2>1, <1>conv
    <3>3. /\ conversations'[c] # Null /\ conversations'[c].type = "direct"
          /\ conversations'[c].low = IdLow(r) /\ conversations'[c].high = IdHigh(r)
      <4>1. IdLow(r) \in PartyIds /\ IdHigh(r) \in PartyIds
        BY <2>0, DirectTypes DEF DirectSteps
      <4>2. NewConversation("direct", IdLow(r), IdHigh(r)) \in ConvRow
        BY <4>1 DEF NewConversation, ConvRow, TypeOK
      <4> QED BY <3>2, <4>2 DEF NewConversation
    <3>4. pc'[r] = "addLow" BY <2>1, <1>pc
    <3> QED BY <1>1, <1>2, <1>3, <2>0, <3>1, <3>3, <3>4
      DEF ControlOf, AnswerOf, MakerOf, IsDirect, Exists, PersistSteps, DirectSteps, GroupSteps
  <2>2. CASE Goto(r, AfterConflict(r)) /\ UNCHANGED <<conversations, loc>>
    <3>1. pc'[r] = "failed" /\ loc'[r] = loc[r] BY <2>2, <1>pc DEF AfterConflict
    <3> QED BY <1>1, <1>2, <1>3, <2>0, <3>1
      DEF ControlOf, AnswerOf, MakerOf, PersistSteps, DirectSteps, GroupSteps
  <2> QED BY <1>4, <2>1, <2>2 DEF CreateDirect
<1>5. CASE AddLow(r)
  <2>1. /\ pc[r] = "addLow" /\ pc'[r] = "addHigh"
        /\ UNCHANGED <<conversations, messages, loc>>
    BY <1>5, <1>pc DEF AddLow
  <2> QED BY <1>0, <1>1, <1>2, <1>3, <2>1
    DEF ControlOf, AnswerOf, MakerOf, IsDirect, Exists, PersistSteps, DirectSteps, GroupSteps
<1>6. CASE AddHigh(r)
  <2>1. /\ pc[r] = "addHigh" /\ pc'[r] = AfterDirect(r)
        /\ UNCHANGED <<conversations, messages, loc>>
    BY <1>6, <1>pc DEF AddHigh
  <2>2. \/ pc'[r] = "done" /\ ~Sending(r)
        \/ pc'[r] = "save" /\ Sending(r)
    BY <1>2, <2>1 DEF AfterDirect, Sending
  <2>3. /\ loc[r].made /\ loc[r].conv \in ConvIds /\ IsDirect(loc[r].conv)
        /\ conversations[loc[r].conv].low = IdLow(r)
        /\ conversations[loc[r].conv].high = IdHigh(r)
    BY <1>0, <2>1 DEF MakerOf
  <2>4. Filed(r)' BY <1>3, <2>1, <2>3 DEF Filed, IsDirect, Exists
  <2> QED BY <1>1, <1>2, <1>3, <2>1, <2>2, <2>3, <2>4
    DEF ControlOf, AnswerOf, MakerOf, IsDirect, Exists, PersistSteps, DirectSteps, GroupSteps
<1>7. CASE Save(r)
  <2>1. pc[r] = "save" /\ pc'[r] \in {"done", "lost"} /\ loc' = loc
    BY <1>7, <1>pc DEF Save
  <2>2. Sending(r) /\ loc[r].conv \in ConvIds /\ Filed(r) BY <1>0, <2>1 DEF ControlOf
  <2>3. Stable BY <1>7, StableStep DEF Act, Proceed, Persist
  <2>4. Filed(r)' BY <1>1, <1>3, <2>1, <2>2, <2>3 DEF Filed, Stable, IsDirect, Exists, GroupFound
  <2>5. messages'[r] = [from |-> env[r].from, kind |-> loc[r].fromKind,
                        conv |-> loc[r].conv, ts |-> env[r].ts]
    BY <1>7, <1>msg DEF Save
  <2>6. messages'[r] # Null
    BY <1>2, <2>2, <2>5 DEF TypeOK, Call, MessageRow
  <2>7. loc[r].made => loc[r].conv \in ConvIds /\ Exists(loc[r].conv)
    BY <1>0 DEF MakerOf
  <2>8. Exists(loc[r].conv) => conversations'[loc[r].conv] # Null
    BY <2>2, <2>3 DEF Stable
  <2> QED BY <1>1, <1>2, <1>3, <2>1, <2>2, <2>4, <2>5, <2>6, <2>7, <2>8
    DEF ControlOf, AnswerOf, MakerOf, Exists, PersistSteps, DirectSteps, GroupSteps
<1> QED BY <1>4, <1>5, <1>6, <1>7

\* The same for CreateGroup, LeaveGroup and Deregister, and for a dead request.
LEMMA AdministerSelf ==
  ASSUME TypeOK, RequestInv, NEW r \in Requests, Administer(r) \/ Abort(r)
  PROVE  (ControlOf(r) /\ AnswerOf(r) /\ MakerOf(r))'
<1>conv. conversations \in [ConvIds -> ConvRow \cup {Null}] BY DEF TypeOK
<1>pc. pc \in [Requests -> Steps] BY DEF TypeOK
<1>loc. loc \in [Requests -> Locals] BY DEF TypeOK
<1>0. ControlOf(r) /\ AnswerOf(r) /\ MakerOf(r) BY DEF RequestInv
<1>1. env' = env /\ messages' = messages /\ pc[r] \notin {"idle", "done", "failed", "lost"}
  BY DEF Administer, InsertGroupConversation, InsertGroup, LinkGroup, AddOwner,
         RemoveParticipant, DeleteAgent, Abort, Finished, tables
<1>2. env[r] # Null /\ messages[r] = Null
  BY <1>0, <1>1 DEF ControlOf, AnswerOf
<1>3. Sending(r)' = Sending(r) /\ IdLow(r)' = IdLow(r) /\ IdHigh(r)' = IdHigh(r)
  BY <1>1, SameCall
<1>4. pc[r] \in GroupSteps => /\ ~Sending(r)
                             /\ env[r].op = "createGroup"
                             /\ env[r].from \in UserIds
                             /\ env[r].name \in GroupNames
  BY <1>0 DEF ControlOf, Sending
<1>5. pc[r] \in {"newGroup", "link", "addOwner"} =>
        /\ loc[r].made /\ loc[r].conv \in ConvIds /\ Exists(loc[r].conv)
        /\ conversations[loc[r].conv].type = "group"
  BY <1>0 DEF MakerOf
<1> USE DEF Goto, Reply
<1>6. CASE InsertGroupConversation(r)
  <2>1. PICK c \in ConvIds :
          /\ conversations' = [conversations EXCEPT ![c] = NewConversation("group", Null, Null)]
          /\ loc' = [loc EXCEPT ![r].conv = c, ![r].made = TRUE]
    BY <1>6 DEF InsertGroupConversation
  <2>2. loc'[r].conv = c /\ loc'[r].made BY <2>1, <1>loc DEF Locals
  <2>3. conversations'[c] # Null /\ conversations'[c].type = "group"
    <3>1. NewConversation("group", Null, Null) \in ConvRow
      BY DEF NewConversation, ConvRow, TypeOK
    <3> QED BY <2>1, <3>1, <1>conv DEF NewConversation
  <2>4. pc[r] = "newConv" /\ pc'[r] = "newGroup" BY <1>6, <1>pc DEF InsertGroupConversation
  <2> QED BY <1>1, <1>2, <1>3, <1>4, <2>2, <2>3, <2>4
    DEF ControlOf, AnswerOf, MakerOf, Exists, PersistSteps, DirectSteps, GroupSteps
<1>7. CASE InsertGroup(r)
  <2>1. pc[r] = "newGroup" /\ pc'[r] \in {"link", "failed"} /\ conversations' = conversations
    BY <1>7, <1>pc DEF InsertGroup
  <2>2. loc'[r].made = loc[r].made /\ loc'[r].conv = loc[r].conv
    BY <1>7, <1>loc DEF InsertGroup, Locals
  <2> QED BY <1>1, <1>2, <1>3, <1>4, <1>5, <2>1, <2>2
    DEF ControlOf, AnswerOf, MakerOf, Exists, PersistSteps, DirectSteps, GroupSteps
<1>8. CASE LinkGroup(r)
  <2>1. pc[r] = "link" /\ pc'[r] = "addOwner" /\ loc' = loc BY <1>8, <1>pc DEF LinkGroup
  <2>2. Stable BY <1>8, StableStep DEF Act, Proceed, Administer
  <2>3. conversations'[loc[r].conv] # Null /\ conversations'[loc[r].conv].type = "group"
    BY <1>5, <2>1, <2>2 DEF Stable
  <2> QED BY <1>1, <1>2, <1>3, <1>4, <1>5, <2>1, <2>3
    DEF ControlOf, AnswerOf, MakerOf, Exists, PersistSteps, DirectSteps, GroupSteps
<1>9. CASE AddOwner(r)
  <2>1. /\ pc[r] = "addOwner" /\ pc'[r] \in {"done", "lost"}
        /\ loc' = loc /\ conversations' = conversations
    BY <1>9, <1>pc DEF AddOwner
  <2> QED BY <1>1, <1>2, <1>3, <1>4, <1>5, <2>1
    DEF ControlOf, AnswerOf, MakerOf, Exists, PersistSteps, DirectSteps, GroupSteps
<1>10. CASE RemoveParticipant(r) \/ DeleteAgent(r)
  <2>1. /\ pc[r] \in {"remove", "delete"} /\ pc'[r] \in {"done", "failed", "lost"}
        /\ loc' = loc /\ conversations' = conversations
    BY <1>10, <1>pc DEF RemoveParticipant, DeleteAgent
  <2>2. ~loc[r].made /\ ~Sending(r) BY <1>0, <2>1 DEF ControlOf, MakerOf, Sending
  <2> QED BY <1>1, <1>2, <1>3, <2>1, <2>2
    DEF ControlOf, AnswerOf, MakerOf, Exists, PersistSteps, DirectSteps, GroupSteps
<1>11. CASE Abort(r)
  <2>1. pc'[r] = "failed" /\ loc' = loc /\ conversations' = conversations
    BY <1>11, <1>pc DEF Abort, tables
  <2> QED BY <1>0, <1>1, <1>2, <1>3, <2>1
    DEF ControlOf, AnswerOf, MakerOf, Exists, PersistSteps, DirectSteps, GroupSteps
<1> QED BY <1>6, <1>7, <1>8, <1>9, <1>10, <1>11 DEF Administer

\* Every step preserves what every request knows.
LEMMA RequestStep ==
  ASSUME TypeOK, RequestInv, GroupLinkConsistent, NEW r \in Requests, Act(r)
  PROVE  RequestInv'
<1>1. Stable BY StableStep
<1>2. ASSUME NEW s \in Requests, s # r PROVE (ControlOf(s) /\ AnswerOf(s) /\ MakerOf(s))'
  BY <1>1, <1>2, OthersUnchanged, RequestFrame DEF RequestInv
<1>3. (ControlOf(r) /\ AnswerOf(r) /\ MakerOf(r))'
  BY ArriveSelf, LookupSelf, WriteSelf, AdministerSelf DEF Act, Proceed, Persist
<1> QED BY <1>2, <1>3 DEF RequestInv
-----------------------------------------------------------------------------
(* The conversations table and its makers.                                 *)

\* The five things a step can do to one row of conversations.
Kept(c)    == conversations'[c] = conversations[c]
Opened(r, c) ==
    /\ CreateDirect(r) /\ ~Exists(c) /\ IdLow(r) < IdHigh(r) /\ PairFree(r)
    /\ loc'[r].conv = c /\ loc'[r].made /\ pc'[r] = "addLow"
    /\ conversations'[c] = NewConversation("direct", IdLow(r), IdHigh(r))
Founded(r, c) ==
    /\ InsertGroupConversation(r) /\ ~Exists(c)
    /\ loc'[r].conv = c /\ loc'[r].made
    /\ conversations'[c] = NewConversation("group", Null, Null)
Previewed(r, c) ==
    /\ Save(r) /\ Exists(c) /\ c = loc[r].conv
    /\ conversations'[c] =
         [conversations[c] EXCEPT !.lastMsg = r, !.lastAt = env[r].ts]
Linked(r, c) ==
    /\ LinkGroup(r) /\ Exists(c) /\ c = loc[r].conv /\ conversations[c].type = "group"
    /\ conversations'[c] = [conversations[c] EXCEPT !.group = loc[r].group]

\* What a step may do to one row of conversations: nothing, insert it, move its
\* preview or link it to its group.
LEMMA ConversationStep ==
  ASSUME TypeOK, RequestInv, GroupLinkConsistent, NEW r \in Requests, Act(r),
         NEW c \in ConvIds
  PROVE  Kept(c) \/ Opened(r, c) \/ Founded(r, c) \/ Previewed(r, c) \/ Linked(r, c)
<1>conv. conversations \in [ConvIds -> ConvRow \cup {Null}] BY DEF TypeOK
<1>pc. pc \in [Requests -> Steps] BY DEF TypeOK
<1>loc. loc \in [Requests -> Locals] BY DEF TypeOK
<1>0. ASSUME conversations' = conversations PROVE Kept(c) BY <1>0 DEF Kept
<1>1. CASE Arrive(r)
  BY <1>0, <1>1 DEF Arrive, Start, StartSend, StartInfo, StartReplay, StartCreateGroup,
              StartLeave, StartDelete, tables
<1>2. CASE CreateDirect(r)
  <2>1. CASE UNCHANGED conversations BY <1>0, <2>1
  <2>2. ASSUME IdLow(r) < IdHigh(r), PairFree(r), Goto(r, "addLow"), NEW d \in ConvIds, ~Exists(d),
               conversations' = [conversations EXCEPT ![d] =
                 NewConversation("direct", IdLow(r), IdHigh(r))],
               loc' = [loc EXCEPT ![r].conv = d, ![r].made = TRUE]
        PROVE  Kept(c) \/ Opened(r, c)
    <3>1. loc'[r].conv = d /\ loc'[r].made BY <2>2, <1>loc DEF Locals
    <3>2. pc'[r] = "addLow" BY <2>2, <1>pc DEF Goto
    <3>3. CASE c # d BY <2>2, <3>3, <1>conv DEF Kept
    <3>4. CASE c = d BY <1>2, <2>2, <3>1, <3>2, <3>4, <1>conv DEF Opened
    <3> QED BY <3>3, <3>4
  <2> QED BY <1>2, <2>1, <2>2 DEF CreateDirect
<1>3. CASE Save(r)
  <2>1. loc[r].conv \in ConvIds /\ Filed(r) BY <1>3 DEF Save, RequestInv, ControlOf
  <2>2. Exists(loc[r].conv)
    BY <2>1 DEF Filed, IsDirect, GroupFound, GroupLinkConsistent
  <2>3. CASE c # loc[r].conv BY <1>3, <2>3, <1>conv DEF Save, Kept
  <2>4. CASE c = loc[r].conv BY <1>3, <2>2, <2>4, <1>conv DEF Save, Previewed
  <2> QED BY <2>3, <2>4
<1>4. CASE InsertGroupConversation(r)
  <2>1. PICK d \in ConvIds :
          /\ ~Exists(d)
          /\ conversations' = [conversations EXCEPT ![d] = NewConversation("group", Null, Null)]
          /\ loc' = [loc EXCEPT ![r].conv = d, ![r].made = TRUE]
    BY <1>4 DEF InsertGroupConversation
  <2>2. loc'[r].conv = d /\ loc'[r].made BY <2>1, <1>loc DEF Locals
  <2>3. CASE c # d BY <2>1, <2>3, <1>conv DEF Kept
  <2>4. CASE c = d BY <1>4, <2>1, <2>2, <2>4, <1>conv DEF Founded
  <2> QED BY <2>3, <2>4
<1>5. CASE LinkGroup(r)
  <2>1. Exists(loc[r].conv) /\ conversations[loc[r].conv].type = "group"
    BY <1>5 DEF LinkGroup, RequestInv, MakerOf
  <2>2. CASE c # loc[r].conv BY <1>5, <2>2, <1>conv DEF LinkGroup, Kept
  <2>3. CASE c = loc[r].conv BY <1>5, <2>1, <2>3, <1>conv DEF LinkGroup, Linked
  <2> QED BY <2>2, <2>3
<1>6. CASE Abort(r) BY <1>0, <1>6 DEF Abort, tables
<1> QED BY <1>0, <1>1, <1>2, <1>3, <1>4, <1>5, <1>6
        DEF Act, Proceed, Persist, Administer, ResolveFromKind, ResolveGroup, ResolveToKind,
            InfoLookup, FindDirect, AddLow, AddHigh, InsertGroup, AddOwner, RemoveParticipant,
            DeleteAgent, tables

\* A request becomes a maker only by inserting a fresh conversation.
LEMMA MadeStep ==
  ASSUME TypeOK, RequestInv, NEW r \in Requests, Act(r), loc'[r].made
  PROVE  \/ loc[r].made /\ loc'[r].conv = loc[r].conv
         \/ loc'[r].conv \in ConvIds /\ ~Exists(loc'[r].conv)
<1>loc. loc \in [Requests -> Locals] BY DEF TypeOK
<1>0. ASSUME loc' = loc PROVE loc[r].made /\ loc'[r].conv = loc[r].conv BY <1>0
<1>1. /\ pc[r] = "idle" => loc[r] = NoLocals
      /\ pc[r] \in {"fromKind", "toGroup", "toKind", "infoLookup", "find"} => ~loc[r].made
  <2>1. ControlOf(r) /\ MakerOf(r) BY DEF RequestInv
  <2>2. pc[r] \in {"idle", "fromKind"} => loc[r] = NoLocals BY <2>1 DEF ControlOf
  <2>3. pc[r] \in {"toGroup", "toKind", "infoLookup", "find"} => ~loc[r].made
    BY <2>1 DEF MakerOf
  <2> QED BY <2>2, <2>3 DEF NoLocals
<1>2. CASE Arrive(r)
  <2>1. ~loc[r].made BY <1>1, <1>2 DEF Arrive, Start, StartSend, StartInfo, StartReplay,
          StartCreateGroup, StartLeave, StartDelete, NoLocals
  <2> QED BY <1>0, <1>2, <2>1, <1>loc DEF Arrive, StartSend, StartInfo, StartReplay,
          StartCreateGroup, StartLeave, StartDelete, Locals
<1>3. CASE CreateDirect(r)
  <2>1. ASSUME NEW c \in ConvIds, loc' = [loc EXCEPT ![r].conv = c, ![r].made = TRUE]
        PROVE  loc'[r].conv = c
    BY <2>1, <1>loc DEF Locals
  <2> QED BY <1>0, <1>3, <2>1 DEF CreateDirect
<1>4. CASE InsertGroupConversation(r) BY <1>4, <1>loc DEF InsertGroupConversation, Locals
<1>5. CASE InsertGroup(r) BY <1>0, <1>5, <1>loc DEF InsertGroup, Locals
<1>6. CASE \/ ResolveFromKind(r) \/ ResolveGroup(r) \/ ResolveToKind(r)
           \/ InfoLookup(r) \/ FindDirect(r)
  <2>1. ~loc[r].made
    BY <1>1, <1>6 DEF ResolveFromKind, ResolveGroup, ResolveToKind, InfoLookup, FindDirect
  <2> QED BY <1>0, <1>6, <2>1, <1>loc
    DEF ResolveFromKind, ResolveGroup, ResolveToKind, InfoLookup, FindDirect, Locals
<1> QED BY <1>0, <1>2, <1>3, <1>4, <1>5, <1>6
        DEF Act, Proceed, Persist, Administer, Abort, AddLow, AddHigh, Save, LinkGroup,
            AddOwner, RemoveParticipant, DeleteAgent

\* No step gives a conversation a second maker.
LEMMA OneMakerStep ==
  ASSUME TypeOK, RequestInv, OneMaker, NEW r \in Requests, Act(r)
  PROVE  OneMaker'
<1> SUFFICES ASSUME NEW s \in Requests, NEW t \in Requests,
                    loc'[s].made, loc'[t].made, loc'[s].conv = loc'[t].conv
             PROVE  s = t
  BY DEF OneMaker
<1>1. ASSUME NEW q \in Requests, q # r
      PROVE  loc'[q] = loc[q] /\ (loc[q].made => Exists(loc[q].conv))
  BY <1>1, OthersUnchanged DEF RequestInv, MakerOf
<1>2. loc'[r].made => \/ loc[r].made /\ loc'[r].conv = loc[r].conv
                      \/ ~Exists(loc'[r].conv)
  BY MadeStep
<1> QED BY <1>1, <1>2 DEF OneMaker

\* chk_conversations_direct_ids and uq_conversations_direct_pair do their work.
LEMMA PairStep ==
  ASSUME TypeOK, RequestInv, GroupLinkConsistent, Shapes, OneConversationPerPair,
         NEW r \in Requests, Act(r)
  PROVE  Shapes' /\ OneConversationPerPair'
<1>conv. conversations \in [ConvIds -> ConvRow \cup {Null}] BY DEF TypeOK
<1>1. ASSUME NEW c \in ConvIds, conversations'[c] # Null, conversations'[c].type = "direct"
      PROVE  \/ /\ IsDirect(c)
                /\ conversations'[c].low = conversations[c].low
                /\ conversations'[c].high = conversations[c].high
                /\ conversations'[c].group = conversations[c].group
             \/ /\ Opened(r, c)
                /\ conversations'[c].low = IdLow(r)
                /\ conversations'[c].high = IdHigh(r)
                /\ conversations'[c].group = Null
  <2>1. Kept(c) \/ Opened(r, c) \/ Founded(r, c) \/ Previewed(r, c) \/ Linked(r, c)
    BY ConversationStep
  <2>2. Exists(c) => conversations[c] \in ConvRow BY <1>conv DEF Exists
  <2>3. CASE Kept(c) BY <1>1, <2>3 DEF Kept, IsDirect, Exists
  <2>4. CASE Opened(r, c) BY <2>4 DEF Opened, NewConversation
  <2>5. CASE Founded(r, c) BY <1>1, <2>5 DEF Founded, NewConversation
  <2>6. CASE Previewed(r, c)
    BY <1>1, <2>2, <2>6 DEF Previewed, ConvRow, IsDirect, Exists
  <2>7. CASE Linked(r, c)
    BY <1>1, <2>2, <2>7 DEF Linked, ConvRow
  <2> QED BY <2>1, <2>3, <2>4, <2>5, <2>6, <2>7
<1>2. \A c \in ConvIds : Opened(r, c) =>
        IdLow(r) \in PartyIds /\ IdHigh(r) \in PartyIds /\ IdLow(r) < IdHigh(r) /\ PairFree(r)
  BY DirectTypes DEF Opened, CreateDirect, DirectSteps
<1>3. Shapes' BY <1>1, <1>2 DEF Shapes, IsDirect, Exists
<1>4. ASSUME NEW c \in ConvIds, IsDirect(c), PairFree(r), IdLow(r) \in PartyIds,
             IdHigh(r) \in PartyIds, IdLow(r) < IdHigh(r)
      PROVE  Pair(c) # {IdLow(r), IdHigh(r)}
  <2>1. /\ conversations[c].low \in Nat /\ conversations[c].high \in Nat
        /\ conversations[c].low < conversations[c].high
        /\ IdLow(r) \in Nat /\ IdHigh(r) \in Nat
    BY <1>4 DEF Shapes
  <2>2. ~(conversations[c].low = IdLow(r) /\ conversations[c].high = IdHigh(r))
    BY <1>4 DEF PairFree, DirectOf
  <2> QED BY <1>4, <2>1, <2>2 DEF Pair
<1>5. \A c, d \in ConvIds : Opened(r, c) /\ Opened(r, d) => c = d BY DEF Opened
<1>6. OneConversationPerPair'
  <2> SUFFICES ASSUME NEW c \in ConvIds, NEW d \in ConvIds,
                      IsDirect(c)', IsDirect(d)', Pair(c)' = Pair(d)'
               PROVE  c = d
    BY DEF OneConversationPerPair
  <2>1. \/ IsDirect(c) /\ Pair(c)' = Pair(c)
        \/ Opened(r, c) /\ Pair(c)' = {IdLow(r), IdHigh(r)}
    BY <1>1 DEF IsDirect, Exists, Pair
  <2>2. \/ IsDirect(d) /\ Pair(d)' = Pair(d)
        \/ Opened(r, d) /\ Pair(d)' = {IdLow(r), IdHigh(r)}
    BY <1>1 DEF IsDirect, Exists, Pair
  <2> QED BY <1>2, <1>4, <1>5, <2>1, <2>2 DEF OneConversationPerPair
<1> QED BY <1>3, <1>6
-----------------------------------------------------------------------------
(* The rosters.                                                            *)

\* The steps that touch conversation_participants, and those that do not.
LEMMA RosterFootprint ==
  ASSUME NEW r \in Requests, Act(r)
  PROVE  \/ participants' = participants
         \/ AddLow(r) \/ AddHigh(r) \/ AddOwner(r) \/ RemoveParticipant(r)
<1>1. CASE Arrive(r)
  BY <1>1 DEF Arrive, Start, StartSend, StartInfo, StartReplay, StartCreateGroup,
              StartLeave, StartDelete, tables
<1>2. CASE Abort(r) BY <1>2 DEF Abort, tables
<1> QED BY <1>1, <1>2
        DEF Act, Proceed, Persist, Administer, ResolveFromKind, ResolveGroup, ResolveToKind,
            InfoLookup, FindDirect, CreateDirect, Save, InsertGroupConversation, InsertGroup,
            LinkGroup, DeleteAgent, tables

\* The request between its INSERTs only goes on or dies.
LEMMA MakerMoves ==
  ASSUME TypeOK, NEW r \in Requests, Act(r)
  PROVE  /\ pc[r] \notin Finished
         /\ pc[r] = "addLow" => AddLow(r) \/ Abort(r)
         /\ pc[r] = "addHigh" => AddHigh(r) \/ Abort(r)
         /\ pc'[r] = "addHigh" => AddLow(r)
         /\ pc'[r] = "addLow" => CreateDirect(r)
<1>pc. pc \in [Requests -> Steps] BY DEF TypeOK
<1> USE <1>pc DEF Goto, Reply
<1>1. CASE Arrive(r)
  BY <1>1 DEF Arrive, Start, StartSend, StartInfo, StartReplay, StartCreateGroup,
              StartLeave, StartDelete, Finished
<1>2. CASE Persist(r)
  BY <1>2 DEF Persist, ResolveFromKind, ResolveGroup, ResolveToKind, InfoLookup,
              FindDirect, CreateDirect, AfterConflict, AfterDirect, AddLow, AddHigh, Save,
              Finished
<1>3. CASE Administer(r)
  BY <1>3 DEF Administer, InsertGroupConversation, InsertGroup, LinkGroup, AddOwner,
              RemoveParticipant, DeleteAgent, Finished
<1>4. CASE Abort(r) BY <1>4 DEF Abort, Finished
<1> QED BY <1>1, <1>2, <1>3, <1>4 DEF Act, Proceed

\* A row that appears belongs to the conversation the request works on; in a
\* direct one it names a side that had no row yet.
LEMMA NewRow ==
  ASSUME TypeOK, RequestInv, RosterProgress, NEW r \in Requests, Act(r),
         NEW p \in participants', p \notin participants
  PROVE  /\ p.conv = loc[r].conv /\ p.conv \in ConvIds /\ Exists(p.conv)
         /\ IsDirect(p.conv) => /\ pc[r] \in {"addLow", "addHigh"}
                               /\ p.id \in Pair(p.conv)
                               /\ Rows(p.conv, p.id) = {}
<1>1. CASE participants' = participants BY <1>1
<1>2. CASE AddLow(r)
  <2>1. pc[r] = "addLow" /\ p.conv = loc[r].conv /\ p.id = IdLow(r)
    BY <1>2 DEF AddLow, AddParticipant
  <2>2. /\ loc[r].conv \in ConvIds /\ IsDirect(loc[r].conv)
        /\ conversations[loc[r].conv].low = IdLow(r)
    BY <2>1 DEF RequestInv, MakerOf
  <2>3. \A q \in participants : q.conv # loc[r].conv BY <2>1 DEF RosterProgress
  <2> QED BY <2>1, <2>2, <2>3 DEF IsDirect, Pair, Rows
<1>3. CASE AddHigh(r)
  <2>1. pc[r] = "addHigh" /\ p.conv = loc[r].conv /\ p.id = IdHigh(r)
    BY <1>3 DEF AddHigh, AddParticipant
  <2>2. /\ loc[r].conv \in ConvIds /\ IsDirect(loc[r].conv)
        /\ conversations[loc[r].conv].high = IdHigh(r)
    BY <2>1 DEF RequestInv, MakerOf
  <2>3. Rows(loc[r].conv, IdHigh(r)) = {} BY <2>1 DEF RosterProgress
  <2> QED BY <2>1, <2>2, <2>3 DEF IsDirect, Pair
<1>4. CASE AddOwner(r)
  <2>1. pc[r] = "addOwner" /\ p.conv = loc[r].conv
    BY <1>4 DEF AddOwner, AddParticipant
  <2>2. /\ loc[r].conv \in ConvIds /\ Exists(loc[r].conv)
        /\ conversations[loc[r].conv].type = "group"
    BY <2>1 DEF RequestInv, MakerOf
  <2> QED BY <2>1, <2>2 DEF IsDirect
<1>5. CASE RemoveParticipant(r) BY <1>5 DEF RemoveParticipant
<1> QED BY <1>1, <1>2, <1>3, <1>4, <1>5, RosterFootprint

\* One step adds at most one row.
LEMMA OneNewRow ==
  ASSUME NEW r \in Requests, Act(r), NEW p \in participants', NEW q \in participants',
         p \notin participants, q \notin participants
  PROVE  p = q
BY RosterFootprint DEF AddLow, AddHigh, AddOwner, RemoveParticipant, AddParticipant

\* No step removes a row of a direct conversation.
LEMMA DirectRowsStay ==
  ASSUME TypeOK, GroupLinkConsistent, GroupProgress, NEW r \in Requests, Act(r),
         NEW p \in participants, IsDirect(p.conv)
  PROVE  p \in participants'
<1>1. CASE RemoveParticipant(r)
  <2>1. \E g \in GroupIds : groups[g] # Null /\ groups[g].conv = loc[r].conv
    BY <1>1 DEF RemoveParticipant, GroupProgress
  <2>2. conversations[loc[r].conv].type = "group" BY <2>1 DEF GroupLinkConsistent
  <2>3. p.conv # loc[r].conv BY <2>2 DEF IsDirect
  <2> QED BY <1>1, <2>3 DEF RemoveParticipant
<1>2. CASE AddLow(r) \/ AddHigh(r) \/ AddOwner(r)
  BY <1>2 DEF AddLow, AddHigh, AddOwner, AddParticipant
<1> QED BY <1>1, <1>2, RosterFootprint

\* The rosters stay those of their conversations.
LEMMA RostersStep ==
  ASSUME TypeOK, RequestInv, Rosters, RosterProgress, NEW r \in Requests, Act(r)
  PROVE  Rosters'
<1>1. Stable BY StableStep
<1>2. ASSUME NEW c \in ConvIds, Exists(c)
      PROVE  Exists(c)' /\ IsDirect(c)' = IsDirect(c) /\ Pair(c)' = Pair(c)
  BY <1>1, <1>2 DEF Stable, Exists, IsDirect, Pair
<1>3. ASSUME NEW p \in participants'
      PROVE  p.conv \in ConvIds /\ Exists(p.conv) /\ (IsDirect(p.conv) => p.id \in Pair(p.conv))
  <2>1. CASE p \in participants BY <2>1 DEF Rosters, TypeOK, ParticipantRow
  <2>2. CASE p \notin participants BY <2>2, NewRow
  <2> QED BY <2>1, <2>2
<1>4. ASSUME NEW p \in participants', NEW q \in participants',
             IsDirect(p.conv), p.conv = q.conv, p.id = q.id
      PROVE  p = q
  <2>1. CASE p \in participants /\ q \in participants BY <1>4, <2>1 DEF Rosters
  <2>2. CASE p \in participants /\ q \notin participants
    BY <1>4, <2>2, NewRow DEF Rows
  <2>3. CASE p \notin participants /\ q \in participants
    BY <1>4, <2>3, NewRow DEF Rows
  <2>4. CASE p \notin participants /\ q \notin participants BY <2>4, OneNewRow
  <2> QED BY <2>1, <2>2, <2>3, <2>4
<1> QED BY <1>2, <1>3, <1>4 DEF Rosters

\* A row in the conversation of a request that is adding rows is its own.
LEMMA OnlyMakerAdds ==
  ASSUME TypeOK, RequestInv, OneMaker, RosterProgress, NEW r \in Requests, Act(r),
         NEW s \in Requests, pc[s] \in {"addLow", "addHigh"},
         NEW p \in participants', p \notin participants, p.conv = loc[s].conv
  PROVE  s = r
<1>1. loc[s].made /\ IsDirect(p.conv) BY DEF RequestInv, MakerOf
<1>2. p.conv = loc[r].conv /\ pc[r] \in {"addLow", "addHigh"} BY <1>1, NewRow
<1>3. loc[r].made BY <1>2 DEF RequestInv, MakerOf
<1> QED BY <1>1, <1>2, <1>3 DEF OneMaker

\* The maker still finds the rows it has written, and no others.
LEMMA RosterProgressStep ==
  ASSUME TypeOK, RequestInv, OneMaker, Shapes, Rosters, RosterProgress,
         GroupLinkConsistent, GroupProgress, NEW r \in Requests, Act(r)
  PROVE  RosterProgress'
<1>1. ASSUME NEW s \in Requests, pc'[s] = "addLow", NEW p \in participants'
      PROVE  p.conv # loc'[s].conv
  <2>1. CASE s # r
    <3>1. pc[s] = "addLow" /\ loc'[s] = loc[s] BY <1>1, <2>1, OthersUnchanged
    <3>2. CASE p \in participants BY <3>1, <3>2 DEF RosterProgress
    <3>3. CASE p \notin participants BY <2>1, <3>1, <3>3, OnlyMakerAdds
    <3> QED BY <3>2, <3>3
  <2>2. CASE s = r
    <3>1. CreateDirect(r) BY <1>1, <2>2, MakerMoves
    <3>2. participants' = participants BY <3>1 DEF CreateDirect
    <3>3. pc[r] = "create" BY <3>1 DEF CreateDirect
    <3>4. ~loc[r].made BY <3>3 DEF RequestInv, MakerOf
    <3>5. loc'[r].made
      <4>1. RequestInv' BY RequestStep
      <4> QED BY <1>1, <2>2, <4>1 DEF RequestInv, MakerOf
    <3>6. ~Exists(loc'[r].conv) BY <3>4, <3>5, MadeStep
    <3> QED BY <2>2, <3>2, <3>6 DEF Rosters
  <2> QED BY <2>1, <2>2
<1>2. ASSUME NEW s \in Requests, pc'[s] = "addHigh"
      PROVE  (Rows(loc[s].conv, IdLow(s)) # {} /\ Rows(loc[s].conv, IdHigh(s)) = {})'
  <2>1. CASE s # r
    <3>1. pc[s] = "addHigh" /\ loc'[s] = loc[s] /\ env'[s] = env[s]
      BY <1>2, <2>1, OthersUnchanged
    <3>2. IdLow(s)' = IdLow(s) /\ IdHigh(s)' = IdHigh(s) BY <3>1 DEF IdLow, IdHigh
    <3>3. IsDirect(loc[s].conv) BY <3>1 DEF RequestInv, MakerOf
    <3>4. PICK p \in participants : p.conv = loc[s].conv /\ p.id = IdLow(s)
      BY <3>1 DEF RosterProgress, Rows
    <3>5. p \in participants' BY <3>3, <3>4, DirectRowsStay
    <3>6. ASSUME NEW q \in participants', q.conv = loc[s].conv, q.id = IdHigh(s) PROVE FALSE
      <4>1. q \notin participants BY <3>1, <3>6 DEF RosterProgress, Rows
      <4> QED BY <2>1, <3>1, <3>6, <4>1, OnlyMakerAdds
    <3> QED BY <3>1, <3>2, <3>4, <3>5, <3>6 DEF Rows
  <2>2. CASE s = r
    <3>1. AddLow(r) BY <1>2, <2>2, MakerMoves
    <3>2. pc[r] = "addLow" /\ loc' = loc /\ env' = env BY <3>1 DEF AddLow
    <3>3. IdLow(r)' = IdLow(r) /\ IdHigh(r)' = IdHigh(r) BY <3>2, SameCall
    <3>4. \A q \in participants : q.conv # loc[r].conv BY <3>2 DEF RosterProgress
    <3> DEFINE row == [conv |-> loc[r].conv, id |-> IdLow(r), kind |-> KindLow(r),
                       joined |-> clock]
    <3>5. /\ participants' = participants \cup {row}
          /\ row.conv = loc[r].conv /\ row.id = IdLow(r)
      BY <3>1, <3>4 DEF AddLow, AddParticipant
    <3> HIDE DEF row
    <3>6. IdLow(r) # IdHigh(r)
      <4>1. /\ loc[r].conv \in ConvIds /\ IsDirect(loc[r].conv)
            /\ conversations[loc[r].conv].low = IdLow(r)
            /\ conversations[loc[r].conv].high = IdHigh(r)
        BY <3>2 DEF RequestInv, MakerOf
      <4>2. IdLow(r) \in Nat /\ IdHigh(r) \in Nat /\ IdLow(r) < IdHigh(r)
        BY <4>1 DEF Shapes
      <4> QED BY <4>2
    <3> QED BY <2>2, <3>2, <3>3, <3>4, <3>5, <3>6 DEF Rows
  <2> QED BY <2>1, <2>2
<1> QED BY <1>1, <1>2 DEF RosterProgress

\* A direct conversation keeps a complete roster or an unfinished maker.
LEMMA MissingStep ==
  ASSUME TypeOK, RequestInv, Shapes, RosterProgress, MissingParticipantExplained,
         GroupLinkConsistent, GroupProgress, NEW r \in Requests, Act(r)
  PROVE  MissingParticipantExplained'
<1>1. Stable BY StableStep
<1>pc. pc \in [Requests -> Steps] BY DEF TypeOK
<1>2. ASSUME NEW c \in ConvIds, NEW id, IsDirect(c), Rows(c, id) # {}
      PROVE  Rows(c, id)' # {}
  <2>1. PICK p \in participants : p.conv = c /\ p.id = id BY <1>2 DEF Rows
  <2>2. p \in participants' BY <1>2, <2>1, DirectRowsStay
  <2> QED BY <2>1, <2>2 DEF Rows
<1>3. ASSUME NEW c \in ConvIds, IsDirect(c)'
      PROVE  \/ (Rows(c, conversations[c].low) # {} /\ Rows(c, conversations[c].high) # {})'
             \/ \E s \in Requests : /\ loc'[s].made /\ loc'[s].conv = c
                                    /\ pc'[s] \in {"addLow", "addHigh", "failed"}
  <2>1. CASE ~Exists(c)
    <3>1. conversations'[c] # Null /\ conversations'[c].type = "direct"
      BY <1>3 DEF IsDirect, Exists
    <3>2. ~Kept(c) /\ ~Previewed(r, c) /\ ~Linked(r, c)
      BY <2>1, <3>1 DEF Kept, Previewed, Linked, Exists
    <3>3. ~Founded(r, c) BY <3>1 DEF Founded, NewConversation
    <3>4. Opened(r, c) BY <3>2, <3>3, ConversationStep
    <3> QED BY <3>4 DEF Opened
  <2>2. CASE Exists(c)
    <3>1. /\ IsDirect(c)
          /\ conversations'[c].low = conversations[c].low
          /\ conversations'[c].high = conversations[c].high
      BY <1>1, <1>3, <2>2 DEF Stable, IsDirect, Exists
    <3>2. CASE /\ Rows(c, conversations[c].low) # {}
               /\ Rows(c, conversations[c].high) # {}
      <4>1. Rows(c, conversations[c].low)' # {}
        BY <1>2, <3>1, <3>2 DEF Rows
      <4>2. Rows(c, conversations[c].high)' # {}
        BY <1>2, <3>1, <3>2 DEF Rows
      <4> QED BY <4>1, <4>2
    <3>3. ASSUME NEW s \in Requests, loc[s].made, loc[s].conv = c,
                 pc[s] \in {"addLow", "addHigh", "failed"}, s # r
          PROVE  loc'[s].made /\ loc'[s].conv = c
                 /\ pc'[s] \in {"addLow", "addHigh", "failed"}
      BY <3>3, OthersUnchanged
    <3>4. ASSUME loc[r].made, loc[r].conv = c, pc[r] \in {"addLow", "addHigh", "failed"}
          PROVE  \/ (Rows(c, conversations[c].low) # {} /\ Rows(c, conversations[c].high) # {})'
                 \/ /\ loc'[r].made /\ loc'[r].conv = c
                    /\ pc'[r] \in {"addLow", "addHigh", "failed"}
      <4>1. (pc[r] = "addHigh" /\ AddHigh(r)) \/ AddLow(r) \/ Abort(r)
        BY <3>4, MakerMoves DEF Finished
      <4>2. CASE AddLow(r) BY <3>4, <4>2, <1>pc DEF AddLow, Goto
      <4>3. CASE Abort(r) BY <3>4, <4>3, <1>pc DEF Abort, Goto
      <4>4. CASE pc[r] = "addHigh" /\ AddHigh(r)
        <5>1. Rows(c, IdLow(r)) # {} /\ Rows(c, IdHigh(r)) = {}
          BY <3>4, <4>4 DEF RosterProgress
        <5>2. conversations[c].low = IdLow(r) /\ conversations[c].high = IdHigh(r)
          BY <3>4, <4>4 DEF RequestInv, MakerOf
        <5>3. \E p \in participants' : p.conv = c /\ p.id = IdHigh(r)
          <6> DEFINE row == [conv |-> c, id |-> IdHigh(r), kind |-> KindHigh(r),
                             joined |-> clock]
          <6>1. AddParticipant(c, IdHigh(r), KindHigh(r)) BY <3>4, <4>4 DEF AddHigh
          <6>2. CASE \E p \in participants :
                       p.conv = c /\ p.id = IdHigh(r) /\ p.kind = KindHigh(r)
            BY <6>1, <6>2 DEF AddParticipant
          <6>3. CASE ~\E p \in participants :
                       p.conv = c /\ p.id = IdHigh(r) /\ p.kind = KindHigh(r)
            <7>1. row \in participants' BY <6>1, <6>3 DEF AddParticipant
            <7>2. row.conv = c /\ row.id = IdHigh(r) OBVIOUS
            <7> QED BY <7>1, <7>2
          <6> QED BY <6>2, <6>3
        <5>4. Rows(c, conversations[c].low)' # {}
          BY <1>2, <3>1, <5>1, <5>2 DEF Rows
        <5> QED BY <3>1, <5>2, <5>3, <5>4 DEF Rows
      <4> QED BY <4>1, <4>2, <4>3, <4>4
    <3> QED BY <3>1, <3>2, <3>3, <3>4 DEF MissingParticipantExplained
  <2> QED BY <2>1, <2>2
<1> QED BY <1>3 DEF MissingParticipantExplained
-----------------------------------------------------------------------------
(* Messages, previews and groups.                                          *)

\* Only Save writes messages.
LEMMA MessageFootprint ==
  ASSUME NEW r \in Requests, Act(r)
  PROVE  messages' = messages \/ Save(r)
<1>1. CASE Arrive(r)
  BY <1>1 DEF Arrive, Start, StartSend, StartInfo, StartReplay, StartCreateGroup,
              StartLeave, StartDelete, tables
<1>2. CASE Abort(r) BY <1>2 DEF Abort, tables
<1> QED BY <1>1, <1>2
        DEF Act, Proceed, Persist, Administer, ResolveFromKind, ResolveGroup, ResolveToKind,
            InfoLookup, FindDirect, CreateDirect, AddLow, AddHigh, InsertGroupConversation,
            InsertGroup, LinkGroup, AddOwner, RemoveParticipant, DeleteAgent, tables

\* A stored message lies in an existing conversation.
LEMMA MessageHasConversation ==
  ASSUME RequestInv, GroupLinkConsistent, NEW m \in Requests, messages[m] # Null
  PROVE  messages[m].conv \in ConvIds /\ Exists(messages[m].conv)
<1>1. loc[m].conv \in ConvIds /\ Filed(m) /\ messages[m].conv = loc[m].conv
  BY DEF RequestInv, AnswerOf
<1> QED BY <1>1 DEF Filed, IsDirect, GroupFound, GroupLinkConsistent

\* The preview and the message table move together.
LEMMA PreviewStep ==
  ASSUME TypeOK, RequestInv, GroupLinkConsistent, PreviewIsOwnMessage,
         NEW r \in Requests, Act(r)
  PROVE  PreviewIsOwnMessage'
<1>conv. conversations \in [ConvIds -> ConvRow \cup {Null}] BY DEF TypeOK
<1>msg. messages \in [Requests -> MessageRow \cup {Null}] BY DEF TypeOK
<1> DEFINE Good(c, last, at, ms) ==
             IF last = Null
             THEN \A m \in Requests : ms[m] # Null => ms[m].conv # c
             ELSE ms[last] # Null /\ ms[last].conv = c /\ ms[last].ts = at
<1>0. \A c \in ConvIds : Exists(c) =>
        Good(c, conversations[c].lastMsg, conversations[c].lastAt, messages)
  BY DEF PreviewIsOwnMessage
<1> SUFFICES ASSUME NEW c \in ConvIds, conversations'[c] # Null
             PROVE  Good(c, conversations'[c].lastMsg, conversations'[c].lastAt, messages')
  BY DEF PreviewIsOwnMessage, Exists
<1>1. Kept(c) \/ Opened(r, c) \/ Founded(r, c) \/ Previewed(r, c) \/ Linked(r, c)
  BY ConversationStep
<1>2. CASE Save(r)
  <2>1. pc[r] = "save" BY <1>2 DEF Save
  <2>2. /\ loc[r].conv \in ConvIds /\ Filed(r) /\ env[r] # Null /\ loc[r].fromKind \in Kinds
        /\ messages[r] = Null
    BY <2>1 DEF RequestInv, ControlOf, AnswerOf
  <2> DEFINE row == [from |-> env[r].from, kind |-> loc[r].fromKind,
                     conv |-> loc[r].conv, ts |-> env[r].ts]
  <2>3. row \in MessageRow BY <2>2 DEF TypeOK, Call, MessageRow
  <2>4. messages' = [messages EXCEPT ![r] = row] BY <1>2 DEF Save
  <2>5. messages'[r] # Null /\ messages'[r].conv = loc[r].conv /\ messages'[r].ts = env[r].ts
    BY <2>3, <2>4, <1>msg
  <2>6. \A m \in Requests : m # r => messages'[m] = messages[m] BY <2>4, <1>msg
  <2>7. CASE c = loc[r].conv
    <3>1. Exists(c) BY <2>2, <2>7 DEF Filed, IsDirect, GroupFound, GroupLinkConsistent
    <3>2. conversations[c] \in ConvRow BY <3>1, <1>conv DEF Exists
    <3>3. conversations'[c] = [conversations[c] EXCEPT !.lastMsg = r, !.lastAt = env[r].ts]
      BY <1>2, <2>7, <1>conv DEF Save
    <3>4. conversations'[c].lastMsg = r /\ conversations'[c].lastAt = env[r].ts
      BY <3>2, <3>3 DEF ConvRow
    <3> QED BY <2>5, <2>7, <3>4
  <2>8. CASE c # loc[r].conv
    <3>1. conversations'[c] = conversations[c] BY <1>2, <2>8, <1>conv DEF Save
    <3>2. Exists(c) /\ conversations[c] \in ConvRow BY <3>1, <1>conv DEF Exists
    <3>3. Good(c, conversations[c].lastMsg, conversations[c].lastAt, messages)
      BY <1>0, <3>2
    <3>4. CASE conversations[c].lastMsg = Null BY <2>5, <2>6, <2>8, <3>1, <3>3, <3>4
    <3>5. CASE conversations[c].lastMsg # Null
      <4>1. conversations[c].lastMsg \in Requests BY <3>2, <3>5 DEF ConvRow
      <4>2. conversations[c].lastMsg # r BY <2>2, <3>3, <3>5
      <4> QED BY <2>6, <3>1, <3>3, <3>5, <4>1, <4>2
    <3> QED BY <3>4, <3>5
  <2> QED BY <2>7, <2>8
<1>3. CASE messages' = messages /\ ~Save(r)
  <2>1. CASE Kept(c) BY <1>0, <1>3, <2>1 DEF Kept, Exists
  <2>2. CASE Opened(r, c) \/ Founded(r, c)
    <3>1. conversations'[c].lastMsg = Null /\ ~Exists(c)
      BY <2>2 DEF Opened, Founded, NewConversation
    <3>2. \A m \in Requests : messages[m] # Null => messages[m].conv # c
      BY <3>1, MessageHasConversation
    <3> QED BY <1>3, <3>1, <3>2
  <2>3. CASE Linked(r, c)
    <3>1. Exists(c) /\ conversations[c] \in ConvRow BY <2>3, <1>conv DEF Linked, Exists
    <3>2. /\ conversations'[c].lastMsg = conversations[c].lastMsg
          /\ conversations'[c].lastAt = conversations[c].lastAt
      BY <2>3, <3>1 DEF Linked, ConvRow
    <3> QED BY <1>0, <1>3, <3>1, <3>2
  <2>4. CASE Previewed(r, c) BY <1>3, <2>4 DEF Previewed
  <2> QED BY <1>1, <2>1, <2>2, <2>3, <2>4
<1> QED BY <1>2, <1>3, MessageFootprint

\* The steps of CreateGroup and LeaveGroup follow one another.
LEMMA GroupMoves ==
  ASSUME TypeOK, NEW r \in Requests, Act(r)
  PROVE  /\ groups' = groups \/ InsertGroup(r)
         /\ pc'[r] = "newGroup" => InsertGroupConversation(r)
         /\ pc'[r] = "link" => InsertGroup(r)
         /\ pc'[r] = "addOwner" => LinkGroup(r)
         /\ pc'[r] = "remove" => \E id \in UserIds \cup AgentIds, kind \in Kinds, g \in GroupIds :
                                   StartLeave(r, id, kind, g)
<1>pc. pc \in [Requests -> Steps] BY DEF TypeOK
<1> USE <1>pc DEF Goto, Reply, tables
<1>1. CASE Arrive(r)
  <2>1. CASE \E id \in UserIds \cup AgentIds, kind \in Kinds, g \in GroupIds :
               StartLeave(r, id, kind, g)
    BY <2>1 DEF StartLeave, Start
  <2>2. CASE ~\E id \in UserIds \cup AgentIds, kind \in Kinds, g \in GroupIds :
               StartLeave(r, id, kind, g)
    BY <1>1, <2>2 DEF Arrive, Start, StartSend, StartInfo, StartReplay, StartCreateGroup,
                      StartDelete
  <2> QED BY <2>1, <2>2
<1>2. CASE Persist(r)
  BY <1>2 DEF Persist, ResolveFromKind, ResolveGroup, ResolveToKind, InfoLookup,
              FindDirect, CreateDirect, AfterConflict, AfterDirect, AddLow, AddHigh, Save,
              Finished
<1>3. CASE Administer(r)
  BY <1>3 DEF Administer, InsertGroupConversation, InsertGroup, LinkGroup, AddOwner,
              RemoveParticipant, DeleteAgent
<1>4. CASE Abort(r) BY <1>4 DEF Abort
<1> QED BY <1>1, <1>2, <1>3, <1>4 DEF Act, Proceed

\* A group that appears points at the conversation its request has made.
LEMMA NewGroup ==
  ASSUME TypeOK, RequestInv, NEW r \in Requests, Act(r),
         NEW g \in GroupIds, groups[g] = Null, groups'[g] # Null
  PROVE  /\ InsertGroup(r) /\ pc[r] = "newGroup"
         /\ groups'[g].conv = loc[r].conv /\ loc'[r].group = g
         /\ loc'[r].conv = loc[r].conv /\ loc'[r].made = loc[r].made
<1>grp. groups \in [GroupIds -> GroupRow \cup {Null}] BY DEF TypeOK
<1>loc. loc \in [Requests -> Locals] BY DEF TypeOK
<1>1. InsertGroup(r) /\ pc[r] = "newGroup" BY GroupMoves DEF InsertGroup
<1>2. PICK h \in GroupIds :
        /\ groups' = [groups EXCEPT ![h] = [name |-> env[r].name, owner |-> env[r].from,
                                            conv |-> loc[r].conv]]
        /\ loc' = [loc EXCEPT ![r].group = h]
  BY <1>1 DEF InsertGroup
<1>3. g = h BY <1>2, <1>grp
<1>4. groups'[g].conv = loc[r].conv BY <1>2, <1>3, <1>grp
<1>5. /\ loc'[r].group = h /\ loc'[r].conv = loc[r].conv /\ loc'[r].made = loc[r].made
  BY <1>2, <1>loc DEF Locals
<1> QED BY <1>1, <1>3, <1>4, <1>5

\* Groups and conversations keep pointing at each other.
LEMMA GroupLinkStep ==
  ASSUME TypeOK, RequestInv, GroupLinkConsistent, GroupProgress, NEW r \in Requests, Act(r)
  PROVE  GroupLinkConsistent'
<1>conv. conversations \in [ConvIds -> ConvRow \cup {Null}] BY DEF TypeOK
<1>0. Stable BY StableStep
<1>1. ASSUME NEW g \in GroupIds, groups[g] # Null PROVE groups[g].conv \in ConvIds
  BY <1>1 DEF TypeOK, GroupRow
<1>2. pc[r] = "newGroup" => /\ loc[r].conv \in ConvIds /\ Exists(loc[r].conv)
                           /\ conversations[loc[r].conv].type = "group"
  BY DEF RequestInv, MakerOf
<1>3. ASSUME NEW g \in GroupIds, groups'[g] # Null
      PROVE  /\ conversations'[groups'[g].conv] # Null
             /\ conversations'[groups'[g].conv].type = "group"
  <2>1. CASE groups[g] # Null
    <3>1. groups'[g] = groups[g] /\ groups[g].conv \in ConvIds BY <1>0, <1>1, <2>1 DEF Stable
    <3>2. Exists(groups[g].conv) /\ conversations[groups[g].conv].type = "group"
      BY <2>1 DEF GroupLinkConsistent
    <3> QED BY <1>0, <3>1, <3>2 DEF Stable
  <2>2. CASE groups[g] = Null
    <3>1. pc[r] = "newGroup" /\ groups'[g].conv = loc[r].conv BY <1>3, <2>2, NewGroup
    <3> QED BY <1>0, <1>2, <3>1 DEF Stable
  <2> QED BY <2>1, <2>2
<1>4. ASSUME NEW g \in GroupIds, NEW h \in GroupIds, groups'[g] # Null, groups'[h] # Null,
             groups'[g].conv = groups'[h].conv
      PROVE  g = h
  <2>1. CASE groups[g] # Null /\ groups[h] # Null
    BY <1>0, <1>4, <2>1 DEF Stable, GroupLinkConsistent
  <2>2. CASE groups[g] = Null /\ groups[h] # Null
    BY <1>0, <1>4, <2>2, NewGroup DEF Stable, GroupProgress
  <2>3. CASE groups[g] # Null /\ groups[h] = Null
    BY <1>0, <1>4, <2>3, NewGroup DEF Stable, GroupProgress
  <2>4. CASE groups[g] = Null /\ groups[h] = Null
    BY <1>4, <2>4, NewGroup
  <2> QED BY <2>1, <2>2, <2>3, <2>4
<1>5. ASSUME NEW c \in ConvIds, conversations'[c] # Null, conversations'[c].group # Null
      PROVE  /\ groups'[conversations'[c].group] # Null
             /\ groups'[conversations'[c].group].conv = c
  <2>0. ASSUME Exists(c), conversations'[c].group = conversations[c].group
        PROVE  /\ groups'[conversations'[c].group] # Null
               /\ groups'[conversations'[c].group].conv = c
    <3>1. conversations[c].group \in GroupIds BY <1>5, <2>0, <1>conv DEF Exists, ConvRow
    <3> QED BY <1>0, <1>5, <2>0, <3>1 DEF Stable, GroupLinkConsistent
  <2>1. Kept(c) \/ Opened(r, c) \/ Founded(r, c) \/ Previewed(r, c) \/ Linked(r, c)
    BY ConversationStep
  <2>2. CASE Kept(c) BY <1>5, <2>0, <2>2 DEF Kept, Exists
  <2>3. CASE Opened(r, c) \/ Founded(r, c)
    BY <1>5, <2>3 DEF Opened, Founded, NewConversation
  <2>4. CASE Previewed(r, c)
    <3>1. Exists(c) /\ conversations[c] \in ConvRow BY <2>4, <1>conv DEF Previewed, Exists
    <3>2. conversations'[c].group = conversations[c].group
      BY <2>4, <3>1 DEF Previewed, ConvRow
    <3> QED BY <2>0, <3>1, <3>2
  <2>5. CASE Linked(r, c)
    <3>1. Exists(c) /\ conversations[c] \in ConvRow BY <2>5, <1>conv DEF Linked, Exists
    <3>2. conversations'[c].group = loc[r].group BY <2>5, <3>1 DEF Linked, ConvRow
    <3>3. GroupFound(loc[r].group) /\ groups[loc[r].group].conv = c
      BY <2>5 DEF Linked, LinkGroup, GroupProgress
    <3> QED BY <1>0, <3>2, <3>3 DEF Stable, GroupFound
  <2> QED BY <2>1, <2>2, <2>3, <2>4, <2>5
<1> QED BY <1>3, <1>4, <1>5 DEF GroupLinkConsistent, Exists

\* What CreateGroup and LeaveGroup know about their group stays true.
LEMMA GroupProgressStep ==
  ASSUME TypeOK, RequestInv, OneMaker, GroupLinkConsistent, GroupProgress,
         NEW r \in Requests, Act(r)
  PROVE  GroupProgress'
<1>0. Stable BY StableStep
<1>loc. loc \in [Requests -> Locals] BY DEF TypeOK
<1>inv. RequestInv' BY RequestStep
<1>1. ASSUME NEW s \in Requests, pc'[s] = "newGroup", NEW g \in GroupIds, groups'[g] # Null
      PROVE  groups'[g].conv # loc'[s].conv
  <2>1. CASE s # r
    <3>1. pc[s] = "newGroup" /\ loc'[s] = loc[s] BY <1>1, <2>1, OthersUnchanged
    <3>2. CASE groups[g] # Null BY <1>0, <3>1, <3>2 DEF Stable, GroupProgress
    <3>3. CASE groups[g] = Null
      <4>1. pc[r] = "newGroup" /\ groups'[g].conv = loc[r].conv BY <1>1, <3>3, NewGroup
      <4>2. loc[s].made /\ loc[r].made BY <3>1, <4>1 DEF RequestInv, MakerOf
      <4> QED BY <2>1, <3>1, <4>1, <4>2 DEF OneMaker
    <3> QED BY <3>2, <3>3
  <2>2. CASE s = r
    <3>1. InsertGroupConversation(r) BY <1>1, <2>2, GroupMoves
    <3>2. groups' = groups /\ pc[r] = "newConv" BY <3>1 DEF InsertGroupConversation
    <3>3. ~loc[r].made
      <4>1. ControlOf(r) BY DEF RequestInv
      <4>2. loc[r] = NoLocals BY <3>2, <4>1 DEF ControlOf
      <4> QED BY <4>2 DEF NoLocals
    <3>4. loc'[r].made BY <1>1, <2>2, <1>inv DEF RequestInv, MakerOf
    <3>5. ~Exists(loc'[r].conv) BY <3>3, <3>4, MadeStep
    <3> QED BY <1>1, <2>2, <3>2, <3>5 DEF GroupLinkConsistent
  <2> QED BY <2>1, <2>2
<1>2. ASSUME NEW s \in Requests, pc'[s] \in {"link", "addOwner"}
      PROVE  (GroupFound(loc[s].group) /\ groups[loc[s].group].conv = loc[s].conv)'
  <2>1. CASE s # r
    <3>1. pc[s] \in {"link", "addOwner"} /\ loc'[s] = loc[s] BY <1>2, <2>1, OthersUnchanged
    <3>2. GroupFound(loc[s].group) /\ groups[loc[s].group].conv = loc[s].conv
      BY <3>1 DEF GroupProgress
    <3> QED BY <1>0, <3>1, <3>2 DEF Stable, GroupFound
  <2>2. CASE s = r /\ InsertGroup(r)
    <3>1. PICK g \in GroupIds :
            /\ groups[g] = Null
            /\ groups' = [groups EXCEPT ![g] = [name |-> env[r].name, owner |-> env[r].from,
                                                conv |-> loc[r].conv]]
            /\ loc' = [loc EXCEPT ![r].group = g]
      <4>1. pc'[r] # "failed" BY <1>2, <2>2
      <4> QED BY <2>2, <4>1 DEF InsertGroup, Goto, TypeOK
    <3>2. groups'[g] # Null
      <4>1. pc[r] = "newGroup" BY <2>2 DEF InsertGroup
      <4>2. loc[r].conv \in ConvIds /\ env[r].name \in GroupNames /\ env[r].from \in UserIds
        BY <4>1 DEF RequestInv, MakerOf, ControlOf, GroupSteps
      <4>3. [name |-> env[r].name, owner |-> env[r].from, conv |-> loc[r].conv] \in GroupRow
        BY <4>2 DEF GroupRow
      <4> QED BY <3>1, <4>3 DEF TypeOK
    <3>3. /\ groups'[g].conv = loc[r].conv /\ loc'[r].group = g /\ loc'[r].conv = loc[r].conv
      BY <3>1, <3>2, NewGroup
    <3> QED BY <2>2, <3>2, <3>3 DEF GroupFound
  <2>3. CASE s = r /\ LinkGroup(r)
    <3>1. pc[r] = "link" /\ loc' = loc /\ groups' = groups BY <2>3 DEF LinkGroup
    <3> QED BY <2>3, <3>1 DEF GroupProgress, GroupFound
  <2> QED BY <1>2, <2>1, <2>2, <2>3, GroupMoves
<1>3. ASSUME NEW s \in Requests, pc'[s] = "remove"
      PROVE  \E g \in GroupIds : groups'[g] # Null /\ groups'[g].conv = loc'[s].conv
  <2>1. CASE s # r
    <3>1. pc[s] = "remove" /\ loc'[s] = loc[s] BY <1>3, <2>1, OthersUnchanged
    <3>2. PICK g \in GroupIds : groups[g] # Null /\ groups[g].conv = loc[s].conv
      BY <3>1 DEF GroupProgress
    <3> QED BY <1>0, <3>1, <3>2 DEF Stable
  <2>2. CASE s = r
    <3>1. PICK id \in UserIds \cup AgentIds, kind \in Kinds, g \in GroupIds :
            StartLeave(r, id, kind, g)
      BY <1>3, <2>2, GroupMoves
    <3>2. groups[g] # Null /\ groups' = groups BY <3>1 DEF StartLeave, Start, tables
    <3>3. loc'[r].conv = groups[g].conv BY <3>1, <1>loc DEF StartLeave, Locals
    <3> QED BY <2>2, <3>2, <3>3
  <2> QED BY <2>1, <2>2
<1> QED BY <1>1, <1>2, <1>3 DEF GroupProgress
-----------------------------------------------------------------------------
(* The theorems.                                                           *)

\* The empty database satisfies the inductive invariant.
LEMMA InitIInv == Init => IInv
<1> SUFFICES ASSUME Init PROVE IInv OBVIOUS
<1> USE DEF Init
<1>1. TypeOK
  <2>1. NoLocals \in Locals BY DEF NoLocals, Locals
  <2> QED BY <2>1 DEF TypeOK, Steps
<1>2. RequestInv
  BY DEF RequestInv, ControlOf, AnswerOf, MakerOf, NoLocals, PersistSteps, DirectSteps,
         GroupSteps
<1>3. OneMaker BY DEF OneMaker, NoLocals
<1>4. Shapes /\ OneConversationPerPair /\ MissingParticipantExplained /\ PreviewIsOwnMessage
  BY DEF Shapes, OneConversationPerPair, MissingParticipantExplained, PreviewIsOwnMessage,
         IsDirect, Exists
<1>5. Rosters /\ RosterProgress BY DEF Rosters, RosterProgress
<1>6. GroupLinkConsistent /\ GroupProgress
  BY DEF GroupLinkConsistent, GroupProgress, Exists
<1> QED BY <1>1, <1>2, <1>3, <1>4, <1>5, <1>6 DEF IInv

\* Every statement of every handler preserves the inductive invariant.
LEMMA StepIInv == IInv /\ [Next]_vars => IInv'
<1> SUFFICES ASSUME IInv, [Next]_vars PROVE IInv' OBVIOUS
<1> USE DEF IInv
<1>1. TypeOK' BY TypeStep
<1>2. ASSUME NEW r \in Requests, Act(r) PROVE IInv'
  BY <1>1, <1>2, RequestStep, OneMakerStep, PairStep, RostersStep, RosterProgressStep,
     MissingStep, PreviewStep, GroupLinkStep, GroupProgressStep
<1>3. CASE UNCHANGED <<conversations, participants, groups, messages, pc, env, loc>>
  <2> USE <1>3 DEF Exists, IsDirect, Pair, Rows, GroupFound, IdLow, IdHigh
  <2>1. RequestInv'
    BY DEF RequestInv, ControlOf, AnswerOf, MakerOf, Sending, Filed
  <2>2. OneMaker' /\ Shapes' /\ OneConversationPerPair'
    BY DEF OneMaker, Shapes, OneConversationPerPair
  <2>3. Rosters' /\ RosterProgress' BY DEF Rosters, RosterProgress
  <2>4. MissingParticipantExplained' BY DEF MissingParticipantExplained
  <2>5. PreviewIsOwnMessage' BY DEF PreviewIsOwnMessage
  <2>6. GroupLinkConsistent' /\ GroupProgress' BY DEF GroupLinkConsistent, GroupProgress
  <2> QED BY <1>1, <2>1, <2>2, <2>3, <2>4, <2>5, <2>6
<1>4. CASE Tick \/ Idle \/ UNCHANGED vars BY <1>3, <1>4 DEF Tick, Idle, tables, vars
<1> QED BY <1>2, <1>4 DEF Next, Act

\* The inductive invariant holds in every reachable state.
THEOREM Invariance == Spec => []IInv
BY InitIInv, StepIInv, PTL DEF Spec

\* Every handler, statement by statement, keeps the tables and its locals
\* well typed.
THEOREM TypeCorrect == Spec => []TypeOK
<1>1. IInv => TypeOK BY DEF IInv
<1> QED BY <1>1, Invariance, PTL

\* For any number of concurrent requests, two participants never share two
\* direct conversations.
THEOREM UniquePairs == Spec => []OneConversationPerPair
<1>1. IInv => OneConversationPerPair BY DEF IInv
<1> QED BY <1>1, Invariance, PTL

\* The roster of a direct conversation names only its two sides, each once.
THEOREM DirectRosters == Spec => []DirectMembership
<1>1. IInv => DirectMembership BY DEF IInv, DirectMembership, Rosters
<1> QED BY <1>1, Invariance, PTL

\* An incomplete direct roster has a maker that is still at work or died.
THEOREM MissingExplained == Spec => []MissingParticipantExplained
<1>1. IInv => MissingParticipantExplained BY DEF IInv
<1> QED BY <1>1, Invariance, PTL

\* The conversation list's preview always describes a stored message of that
\* conversation.
THEOREM PreviewOwn == Spec => []PreviewIsOwnMessage
<1>1. IInv => PreviewIsOwnMessage BY DEF IInv
<1> QED BY <1>1, Invariance, PTL

\* Groups and conversations never point past each other, however far the
\* CreateGroups in flight have come.
THEOREM GroupLinks == Spec => []GroupLinkConsistent
<1>1. IInv => GroupLinkConsistent BY DEF IInv
<1> QED BY <1>1, Invariance, PTL

\* No step of any request takes a row off a direct roster.
THEOREM RosterNeverShrinks == Spec => DirectRosterNeverShrinks
<1>1. IInv /\ [Next]_vars =>
        [\A p \in participants : IsDirect(p.conv) => p \in participants']_vars
  <2> SUFFICES ASSUME IInv, Next, NEW p \in participants, IsDirect(p.conv)
               PROVE  p \in participants'
    OBVIOUS
  <2>1. ASSUME NEW r \in Requests, Act(r) PROVE p \in participants'
    BY <2>1, DirectRowsStay DEF IInv
  <2>2. CASE Tick \/ Idle BY <2>2 DEF Tick, Idle, tables, vars
  <2> QED BY <2>1, <2>2 DEF Next, Act
<1> QED BY <1>1, Invariance, PTL DEF Spec, DirectRosterNeverShrinks
=============================================================================
