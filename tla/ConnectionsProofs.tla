-------------------------- MODULE ConnectionsProofs --------------------------
(***************************************************************************)
(* Proofs about Connections, for every value of its constants: any number  *)
(* of requests, agents, groups and users, any parties in the bodies, with  *)
(* and without aborted requests and lost replies.                          *)
(***************************************************************************)
EXTENDS Connections, TLAPS

-----------------------------------------------------------------------------
(* The properties without the sets they are phrased with.                  *)

\* Request r has accepted or rejected request q, told or not.
Gave(r, q) == Applied(r, {"accept", "reject"}) /\ env[r].conn = q

\* The status of a stored request is explained by the answers that have run.
StatusOf(q) ==
    \/ connections[q].status = "PENDING" /\ \A r \in Requests : ~Gave(r, q)
    \/ \E r \in Requests : Gave(r, q) /\ connections[q].status = Answer(r)

StatusSound == \A q \in Requests : connections[q] # Null => StatusOf(q)

\* The entry that blacklisting r asked for is there, whoever inserted it.
EntryFor(r) ==
    \E e \in blacklist : /\ e.from = env[r].from /\ e.fromKind = env[r].fromKind
                         /\ e.to = env[r].to

\* A DELETE for the party and the target of r has run after r.
Removed(r) ==
    \E s \in Requests : /\ s \notin before[r]
                        /\ Applied(s, {"unblock"})
                        /\ env[s].from = env[r].from
                        /\ env[s].to = env[r].to

BlockSound ==
    \A r \in Requests : Applied(r, {"block"}) => EntryFor(r) \/ Removed(r)

\* StatusIsAnAnswer says that every stored request has a status as StatusOf
\* describes it.
LEMMA StatusMeans ==
  StatusIsAnAnswer <=> StatusSound
<1> DEFINE answers(q) == {r \in Requests : Gave(r, q)}
           S(q) == IF answers(q) = {}
                   THEN q \in GetPendingByTarget(connections[q].to, connections[q].toKind)
                   ELSE \E r \in answers(q) : connections[q].status = Answer(r)
<1>1. StatusIsAnAnswer <=> \A q \in Requests : connections[q] # Null => S(q)
  BY DEF StatusIsAnAnswer, Gave, Answer
<1>2. ASSUME NEW q \in Requests, connections[q] # Null
      PROVE  S(q) <=> StatusOf(q)
  <2>1. CASE answers(q) = {}
    <3>1. \A r \in Requests : ~Gave(r, q) BY <2>1
    <3>2. q \in GetPendingByTarget(connections[q].to, connections[q].toKind)
          <=> connections[q].status = "PENDING"
      BY <1>2 DEF GetPendingByTarget
    <3> QED BY <2>1, <3>1, <3>2 DEF StatusOf
  <2>2. CASE answers(q) # {}
    <3>1. \E r \in Requests : Gave(r, q) BY <2>2
    <3>2. (\E r \in answers(q) : connections[q].status = Answer(r))
          <=> \E r \in Requests : Gave(r, q) /\ connections[q].status = Answer(r)
      OBVIOUS
    <3> QED BY <2>2, <3>1, <3>2 DEF StatusOf
  <2> QED BY <2>1, <2>2
<1> QED BY <1>1, <1>2 DEF StatusSound

\* BlockHolds says that a blacklisting has an entry or was removed later.
LEMMA BlockMeans ==
  BlockHolds <=> BlockSound
<1>1. ASSUME NEW r \in Requests
      PROVE  env[r].to \in ListByEntity(env[r].from, env[r].fromKind) <=> EntryFor(r)
  BY DEF ListByEntity, EntryFor
<1> QED BY <1>1 DEF BlockHolds, BlockSound, Removed

\* The two equivalences in every state, the next one included.
LEMMA MeansAlways == [](StatusIsAnAnswer <=> StatusSound) /\ [](BlockHolds <=> BlockSound)
BY StatusMeans, BlockMeans, PTL

\* A request past its arrival carries a well-typed call.
LEMMA TypeFacts ==
  ASSUME TypeOK, Control, NEW r \in Requests, pc[r] # "idle"
  PROVE  /\ env[r] \in Call /\ env[r] # Null
         /\ env[r].from \in EntityIds /\ env[r].fromKind \in Kinds \cup {"other"}
         /\ env[r].caller \in EntityIds /\ env[r].conn \in Requests \cup {Null}
BY NullAssumption DEF TypeOK, Control, ControlOf, Call

\* The kind of an id is a kind.
LEMMA KindTypes == \A id : KindOf(id) \in Kinds
BY DEF KindOf, Kinds

-----------------------------------------------------------------------------
(* Init.                                                                   *)

\* Empty tables and idle requests satisfy the invariant.
LEMMA InitHolds == Init => IInv
<1> SUFFICES ASSUME Init PROVE IInv OBVIOUS
<1>1. TypeOK BY DEF Init, TypeOK
<1>2. Control BY DEF Init, Control, ControlOf
<1>3. RowsHaveSenders /\ UniquePairs /\ KindsAgree /\ BeforeEnded
  BY DEF Init, RowsHaveSenders, UniquePairs, KindsAgree, BeforeEnded
<1>4. \A r \in Requests : \A ops : ~Applied(r, ops) BY DEF Init, Applied
<1>5. AnswersFollowRows /\ RequestFollowsSender /\ BlockHolds
  BY <1>4 DEF AnswersFollowRows, RequestFollowsSender, BlockHolds
<1>6. StatusIsAnAnswer BY StatusMeans DEF Init, StatusSound
<1> QED BY <1>1, <1>2, <1>3, <1>5, <1>6 DEF IInv

-----------------------------------------------------------------------------
(* Steps that write no table: arrivals, lookups, refusals, aborts.         *)

\* A step of one request that writes no table and acknowledges nothing keeps
\* everything but the control facts of that request.
LEMMA QuietStep ==
  ASSUME IInv, NEW r \in Requests, NEW step \in Steps \cup {"failed"},
         pc[r] \in Steps \cup {"idle"}, Goto(r, step), UNCHANGED <<tables, before>>,
         TypeOK', ControlOf(r)',
         \A p \in Requests \ {r} : env'[p] = env[p] /\ toKind'[p] = toKind[p],
         pc[r] # "idle" => env' = env
  PROVE  IInv'
<1> USE DEF IInv, tables
<1>1. /\ step \notin {"idle", "done", "lost"} /\ pc[r] \notin {"done", "lost"}
      /\ pc[r] \notin Outcomes
  BY DEF Steps, Outcomes
<1>2. pc'[r] = step /\ \A p \in Requests \ {r} : pc'[p] = pc[p]
  BY DEF TypeOK, Goto
<1>3. Control'
  BY <1>2 DEF Control, ControlOf
<1>4. \A p \in Requests : \A ops : Applied(p, ops)' <=> Applied(p, ops)
  BY <1>1, <1>2 DEF Applied
<1>5. \A p \in Requests : \A ops : Applied(p, ops) => p # r /\ env'[p] = env[p]
  BY <1>1 DEF Applied
<1>6. RowsHaveSenders' BY <1>4, <1>5 DEF RowsHaveSenders
<1>7. AnswersFollowRows' BY <1>4, <1>5 DEF AnswersFollowRows
<1>8. UniquePairs' /\ KindsAgree' BY DEF UniquePairs, KindsAgree, Connects
<1>9. RequestFollowsSender' BY <1>4, <1>5 DEF RequestFollowsSender
<1>10. \A p, q \in Requests : Gave(p, q)' <=> Gave(p, q)
  BY <1>4, <1>5 DEF Gave
<1>11. \A p, q \in Requests : Gave(p, q) => Answer(p)' = Answer(p)
  BY <1>5 DEF Gave, Answer
<1>12. StatusSound'
  BY <1>10, <1>11, StatusMeans DEF StatusSound, StatusOf
<1>13. StatusIsAnAnswer' BY <1>12, MeansAlways, PTL
<1>14. ASSUME NEW p \in Requests, Applied(p, {"block"})'
       PROVE  EntryFor(p)' \/ Removed(p)'
  <2>1. Applied(p, {"block"}) /\ env'[p] = env[p] BY <1>4, <1>5, <1>14
  <2>2. CASE EntryFor(p) BY <2>1, <2>2 DEF EntryFor
  <2>3. CASE Removed(p) BY <2>1, <2>3, <1>4, <1>5 DEF Removed
  <2> QED BY <2>1, <2>2, <2>3, BlockMeans DEF BlockSound
<1>15. BlockSound' BY <1>14 DEF BlockSound
<1>16. BlockHolds' BY <1>15, MeansAlways, PTL
<1>17. BeforeEnded' BY <1>1, <1>2 DEF BeforeEnded, TypeOK
<1> QED BY <1>3, <1>6, <1>7, <1>8, <1>9, <1>13, <1>16, <1>17

\* A request arrives with a call that has what its first statement needs.
LEMMA ArriveStep ==
  ASSUME IInv, NEW r \in Requests, NEW step, NEW op, NEW caller, NEW from,
         NEW fromKind, NEW to, NEW conn,
         Arrive(r, step, op, caller, from, fromKind, to, conn),
         step \in {"lookup", "updateStatus", "deleteAgent"},
         [op |-> op, caller |-> caller, from |-> from, fromKind |-> fromKind,
          to |-> to, conn |-> conn] \in Call,
         step = "lookup" => op \in {"connect", "block", "unblock"} /\ to \in EntityIds,
         step = "updateStatus" => op \in {"accept", "reject"} /\ conn \in Requests,
         step = "deleteAgent" => op = "deleteAgent",
         op # "connect" => fromKind \in Kinds
  PROVE  IInv'
<1> DEFINE call == [op |-> op, caller |-> caller, from |-> from,
                    fromKind |-> fromKind, to |-> to, conn |-> conn]
<1>1. TypeOK BY DEF IInv
<1>2. env' = [env EXCEPT ![r] = call] /\ pc' = [pc EXCEPT ![r] = step] /\ pc[r] = "idle"
      /\ UNCHANGED <<tables, toKind, before>>
  BY DEF Arrive, Goto
<1>3. step \in Steps BY DEF Steps
<1>4. call \in Call /\ call # Null BY NullAssumption
<1>5. TypeOK'
  <2>1. env' \in [Requests -> Call \cup {Null}] BY <1>1, <1>2, <1>4 DEF TypeOK
  <2>2. pc' \in [Requests -> Steps \cup Outcomes \cup {"idle"}]
    BY <1>1, <1>2, <1>3 DEF TypeOK
  <2> QED BY <1>1, <1>2, <2>1, <2>2 DEF TypeOK, tables
<1>6. env'[r] = call /\ pc'[r] = step BY <1>1, <1>2 DEF TypeOK
<1>7. env'[r].op = op /\ env'[r].fromKind = fromKind /\ env'[r].to = to /\ env'[r].conn = conn /\ env'[r] # Null
  BY <1>4, <1>6
<1>8. ControlOf(r)' BY <1>6, <1>7 DEF ControlOf
<1>9. \A p \in Requests \ {r} : env'[p] = env[p] /\ toKind'[p] = toKind[p]
  BY <1>1, <1>2 DEF TypeOK
<1>10. Goto(r, step) /\ UNCHANGED <<tables, before>> BY <1>2 DEF Goto
<1> QED BY <1>2, <1>3, <1>5, <1>8, <1>9, <1>10, QuietStep

\* Every kind of request arrives as ArriveStep asks.
LEMMA StartStep ==
  ASSUME IInv, NEW r \in Requests, Start(r)
  PROVE  IInv'
<1>1. agents \subseteq AgentIds BY DEF IInv, TypeOK
<1>2. AgentIds \subseteq EntityIds /\ GroupIds \subseteq EntityIds /\ UserIds \subseteq EntityIds
  BY DEF EntityIds
<1>3. ASSUME NEW a \in agents, NEW to \in EntityIds, StartConnect(r, a, to)
      PROVE  IInv'
  <2>1. PICK party \in Parties \cup {<<a, "agent">>} :
           Arrive(r, "lookup", "connect", a, party[1], party[2], to, Null)
    BY <1>3 DEF StartConnect
  <2>2. party[1] \in EntityIds /\ party[2] \in Kinds \cup {"other"}
    BY <1>1, <1>2, IdsAssumption DEF Kinds
  <2>3. [op |-> "connect", caller |-> a, from |-> party[1], fromKind |-> party[2],
         to |-> to, conn |-> Null] \in Call
    BY <1>1, <1>2, <2>2 DEF Call, Operations
  <2> QED BY <2>1, <2>3, ArriveStep
<1>4. ASSUME NEW op \in {"accept", "reject"}, NEW a \in agents, NEW q \in Requests,
             StartAnswer(r, op, a, q)
      PROVE  IInv'
  <2>1. [op |-> op, caller |-> a, from |-> a, fromKind |-> "agent",
         to |-> Null, conn |-> q] \in Call
    BY <1>1, <1>2 DEF Call, Operations, Kinds
  <2>2. Arrive(r, "updateStatus", op, a, a, "agent", Null, q)
    BY <1>4 DEF StartAnswer
  <2> QED BY <2>1, <2>2, ArriveStep DEF Kinds
<1>5. ASSUME NEW op \in {"block", "unblock"}, NEW c \in agents \cup UserIds,
             NEW to \in EntityIds, StartBlacklist(r, op, c, to)
      PROVE  IInv'
  <2>1. PICK kind \in Kinds : Arrive(r, "lookup", op, c, c, kind, to, Null)
    BY <1>5 DEF StartBlacklist, Kinds
  <2>2. [op |-> op, caller |-> c, from |-> c, fromKind |-> kind,
         to |-> to, conn |-> Null] \in Call
    BY <1>1, <1>2 DEF Call, Operations
  <2> QED BY <2>1, <2>2, ArriveStep
<1>6. ASSUME NEW u \in UserIds, NEW a \in AgentIds, StartDelete(r, u, a)
      PROVE  IInv'
  <2>1. [op |-> "deleteAgent", caller |-> u, from |-> u, fromKind |-> "user",
         to |-> a, conn |-> Null] \in Call
    BY <1>2 DEF Call, Operations, Kinds
  <2>2. Arrive(r, "deleteAgent", "deleteAgent", u, u, "user", a, Null)
    BY <1>6 DEF StartDelete
  <2> QED BY <2>1, <2>2, ArriveStep DEF Kinds
<1> QED BY <1>3, <1>4, <1>5, <1>6 DEF Start

\* A request that fails leaves nothing behind.
LEMMA FailStep ==
  ASSUME IInv, NEW r \in Requests, pc[r] \in Steps, Goto(r, "failed"),
         UNCHANGED <<tables, env, before>>,
         UNCHANGED toKind \/ toKind' = [toKind EXCEPT ![r] = Null]
  PROVE  IInv'
<1>1. TypeOK /\ Control BY DEF IInv
<1>2. pc'[r] = "failed" BY <1>1 DEF TypeOK, Goto
<1>3. TypeOK'
  <2>1. pc' \in [Requests -> Steps \cup Outcomes \cup {"idle"}]
    BY <1>1 DEF TypeOK, Goto, Outcomes
  <2>2. toKind' \in [Requests -> Kinds \cup {Null}] BY <1>1 DEF TypeOK
  <2> QED BY <1>1, <2>1, <2>2 DEF TypeOK, tables
<1>4. pc[r] # "idle" BY DEF Steps
<1>5. ControlOf(r)' BY <1>1, <1>2, <1>4 DEF Control, ControlOf
<1>6. \A p \in Requests \ {r} : env'[p] = env[p] /\ toKind'[p] = toKind[p]
  BY <1>1 DEF TypeOK
<1> QED BY <1>3, <1>5, <1>6, QuietStep

\* The lookup of the target by connect, block and unblock.
LEMMA LookupStep ==
  ASSUME IInv, NEW r \in Requests, LookupTarget(r)
  PROVE  IInv'
<1>1. TypeOK /\ Control /\ pc[r] = "lookup" /\ UNCHANGED <<tables, env, before>>
  BY DEF IInv, LookupTarget
<1>2. CASE /\ toKind' = [toKind EXCEPT ![r] = KindOf(env[r].to)]
           /\ Goto(r, AfterLookup(r))
  <2>1. env[r].op \in {"connect", "block", "unblock"} /\ env[r].to \in EntityIds
        /\ env[r] # Null
    BY <1>1 DEF Control, ControlOf
  <2>2. /\ env[r].op = "connect" => AfterLookup(r) = "insertRequest"
        /\ env[r].op = "block" => AfterLookup(r) = "insertEntry"
        /\ env[r].op = "unblock" => AfterLookup(r) = "deleteEntry"
    BY DEF AfterLookup
  <2>3. AfterLookup(r) \in Steps BY <2>1, <2>2 DEF Steps
  <2>4. TypeOK' BY <1>1, <1>2, <2>3, KindTypes DEF TypeOK, Goto, tables
  <2>5. pc'[r] = AfterLookup(r) /\ toKind'[r] = KindOf(env[r].to)
    BY <1>1, <1>2 DEF TypeOK, Goto
  <2>6. KindOf(env[r].to)' = KindOf(env[r].to) BY <1>1 DEF KindOf
  <2>7. ControlOf(r)' BY <1>1, <2>1, <2>2, <2>5, <2>6 DEF Control, ControlOf
  <2>8. \A p \in Requests \ {r} : env'[p] = env[p] /\ toKind'[p] = toKind[p]
    BY <1>1, <1>2 DEF TypeOK
  <2> QED BY <1>1, <1>2, <2>3, <2>4, <2>7, <2>8, QuietStep DEF Steps
<1>3. CASE Goto(r, "failed") /\ UNCHANGED toKind
  BY <1>1, <1>3, FailStep DEF Steps
<1> QED BY <1>2, <1>3 DEF LookupTarget

-----------------------------------------------------------------------------
(* Steps that write a table and acknowledge the request.                   *)

\* When the last statement of r has run, told or not, those of all others
\* stand, and its own is new.
LEMMA DoneStep ==
  ASSUME IInv, NEW r \in Requests, pc[r] \in Steps, Reply(r),
         UNCHANGED <<env, toKind>>,
         \A p \in Requests : \/ before'[p] = before[p]
                             \/ before'[p] = {q \in Requests : pc[q] \in Outcomes}
  PROVE  /\ pc' \in [Requests -> Steps \cup Outcomes \cup {"idle"}]
         /\ Control'
         /\ \A p \in Requests : \A ops : Applied(p, ops)' <=>
               Applied(p, ops) \/ (p = r /\ env[r].op \in ops)
         /\ \A ops : ~Applied(r, ops)
         /\ BeforeEnded'
         /\ \A p \in Requests : r \notin before'[p]
<1>1. TypeOK /\ Control /\ BeforeEnded BY DEF IInv
<1>2. pc'[r] \in {"done", "lost"} /\ \A p \in Requests \ {r} : pc'[p] = pc[p]
  BY <1>1 DEF TypeOK, Reply, Goto
<1>3. pc[r] # "idle" /\ pc[r] \notin Outcomes /\ pc[r] \notin {"done", "lost"}
  BY DEF Steps, Outcomes
<1>4. env[r] # Null BY <1>1, <1>3 DEF Control, ControlOf
<1>5. pc' \in [Requests -> Steps \cup Outcomes \cup {"idle"}]
  BY <1>1 DEF TypeOK, Reply, Goto, Outcomes
<1>6. ASSUME NEW p \in Requests PROVE ControlOf(p)'
  <2>1. CASE p = r BY <1>1, <1>2, <1>3, <1>4, <2>1 DEF Control, ControlOf, Outcomes
  <2>2. CASE p # r
    <3>1. ControlOf(p) /\ pc'[p] = pc[p] BY <1>1, <1>2, <2>2 DEF Control
    <3> QED BY <3>1 DEF ControlOf, KindOf
  <2> QED BY <2>1, <2>2
<1>7. \A p \in Requests : \A ops : Applied(p, ops)' <=>
         Applied(p, ops) \/ (p = r /\ env[r].op \in ops)
  BY <1>2, <1>3, <1>4 DEF Applied
<1>8. \A ops : ~Applied(r, ops) BY <1>3 DEF Applied
<1>9. \A p \in Requests : r \notin before'[p] BY <1>1, <1>3 DEF BeforeEnded
<1>10. BeforeEnded'
  BY <1>1, <1>2, <1>9 DEF BeforeEnded, TypeOK
<1> QED BY <1>5, <1>6, <1>7, <1>8, <1>9, <1>10 DEF Control

\* A step that acknowledges no answer and keeps the requests leaves the
\* statuses as they were.
LEMMA StatusKept ==
  ASSUME IInv, NEW r \in Requests, UNCHANGED env,
         \A p \in Requests : \A ops : Applied(p, ops)' <=>
            Applied(p, ops) \/ (p = r /\ env[r].op \in ops),
         env[r].op \notin {"accept", "reject"},
         \A q \in Requests : connections'[q] # Null =>
            connections'[q] = connections[q]
  PROVE  StatusIsAnAnswer' /\ AnswersFollowRows'
<1>1. \A p, q \in Requests : Gave(p, q)' <=> Gave(p, q) BY DEF Gave
<1>2. \A p \in Requests : Answer(p)' = Answer(p) BY DEF Answer
<1>3. StatusSound BY StatusMeans DEF IInv
<1>4. StatusSound' BY <1>1, <1>2, <1>3 DEF StatusSound, StatusOf
<1>5. StatusIsAnAnswer' BY <1>4, MeansAlways, PTL
<1>6. AnswersFollowRows' BY DEF IInv, AnswersFollowRows
<1> QED BY <1>5, <1>6

\* A step that keeps the blacklist keeps what it owes to acknowledged calls.
LEMMA BlockKept ==
  ASSUME IInv, NEW r \in Requests, UNCHANGED <<blacklist, env, before>>,
         \A p \in Requests : \A ops : Applied(p, ops)' <=>
            Applied(p, ops) \/ (p = r /\ env[r].op \in ops),
         env[r].op # "block"
  PROVE  BlockHolds' /\ KindsAgree'
<1>1. BlockSound BY BlockMeans DEF IInv
<1>2. \A p \in Requests : EntryFor(p)' <=> EntryFor(p) BY DEF EntryFor
<1>3. \A p \in Requests : Removed(p) => Removed(p)' BY DEF Removed
<1>4. BlockSound' BY <1>1, <1>2, <1>3 DEF BlockSound
<1>5. BlockHolds' BY <1>4, MeansAlways, PTL
<1>6. KindsAgree' BY DEF IInv, KindsAgree, KindOf
<1> QED BY <1>5, <1>6

\* ConnectionRequests.Create.
LEMMA InsertRequestStep ==
  ASSUME IInv, NEW r \in Requests, InsertRequest(r)
  PROVE  IInv'
<1> DEFINE row == [sender |-> env[r].caller, from |-> env[r].from,
                   fromKind |-> env[r].fromKind, to |-> env[r].to,
                   toKind |-> toKind[r], status |-> "PENDING"]
<1>1. /\ TypeOK /\ Control /\ pc[r] = "insertRequest" /\ pc[r] \in Steps
      /\ UNCHANGED <<agents, blacklist, env, toKind, before>>
  BY DEF IInv, InsertRequest, Steps
<1>2. ASSUME SenderKnown(r), ~PairTaken(r), env[r].fromKind \in Kinds, Reply(r),
             connections' = [connections EXCEPT ![r] = row]
      PROVE  IInv'
  <2>1. /\ env[r].op = "connect" /\ env[r].to \in EntityIds
        /\ toKind[r] = KindOf(env[r].to)
    BY <1>1 DEF Control, ControlOf
  <2>2. /\ env[r].from \in EntityIds /\ env[r].fromKind \in Kinds
        /\ env[r].caller \in agents /\ agents \subseteq AgentIds
    BY <1>1, <1>2, TypeFacts DEF SenderKnown, TypeOK
  <2>3. row \in ConnectionRow
    BY <2>1, <2>2, KindTypes DEF ConnectionRow, Statuses
  <2>4. row # Null BY <2>3, NullAssumption
  <2>5. connections'[r] = row /\ \A q \in Requests \ {r} : connections'[q] = connections[q]
    BY <1>1, <1>2 DEF TypeOK
  <2>6. /\ pc' \in [Requests -> Steps \cup Outcomes \cup {"idle"}]
        /\ Control'
        /\ \A p \in Requests : \A ops : Applied(p, ops)' <=>
              Applied(p, ops) \/ (p = r /\ env[r].op \in ops)
        /\ \A ops : ~Applied(r, ops)
        /\ BeforeEnded'
    BY <1>1, <1>2, DoneStep
  <2>7. TypeOK'
    <3>1. connections' \in [Requests -> ConnectionRow \cup {Null}]
      BY <1>1, <1>2, <2>3 DEF TypeOK
    <3> QED BY <1>1, <2>6, <3>1 DEF TypeOK
  <2>8. RowsHaveSenders'
    <3>1. row.sender = env[r].caller OBVIOUS
    <3> QED BY <1>1, <2>1, <2>2, <2>5, <2>6, <3>1 DEF IInv, RowsHaveSenders
  <2>9. RequestFollowsSender'
    BY <1>1, <2>2, <2>4, <2>5, <2>6 DEF IInv, RequestFollowsSender
  <2>10. UniquePairs'
    <3>1. ASSUME NEW p \in Requests, p # r, connections[p] # Null
          PROVE  /\ ~Connects(connections[p], row.from, row.fromKind, row.to, row.toKind)
                 /\ ~Connects(row, connections[p].from, connections[p].fromKind,
                              connections[p].to, connections[p].toKind)
      BY <1>2, <3>1 DEF PairTaken, Connects
    <3> QED BY <2>5, <3>1 DEF IInv, UniquePairs, Connects
  <2>11. \A p \in Requests : ~Gave(p, r)
    BY <2>6 DEF IInv, AnswersFollowRows, Gave
  <2>12. \A p, q \in Requests : Gave(p, q)' <=> Gave(p, q)
    BY <1>1, <2>1, <2>6 DEF Gave
  <2>13. \A p \in Requests : Answer(p)' = Answer(p) BY <1>1 DEF Answer
  <2>14. StatusSound'
    <3>1. StatusSound BY StatusMeans DEF IInv
    <3>2. row.status = "PENDING" OBVIOUS
    <3>3. StatusOf(r)' BY <2>5, <2>11, <2>12, <3>2 DEF StatusOf
    <3>4. ASSUME NEW q \in Requests, q # r, connections'[q] # Null
          PROVE  StatusOf(q)'
      BY <2>5, <2>12, <2>13, <3>1, <3>4 DEF StatusSound, StatusOf
    <3> QED BY <3>3, <3>4 DEF StatusSound
  <2>15. StatusIsAnAnswer' BY <2>14, MeansAlways, PTL
  <2>16. AnswersFollowRows' BY <1>1, <2>1, <2>6 DEF IInv, AnswersFollowRows
  <2>17. BlockHolds' /\ KindsAgree' BY <1>1, <2>1, <2>6, BlockKept
  <2> QED BY <2>6, <2>7, <2>8, <2>9, <2>10, <2>15, <2>16, <2>17 DEF IInv
<1>3. ASSUME Goto(r, "failed"), UNCHANGED connections PROVE IInv'
  BY <1>1, <1>3, FailStep DEF tables
<1> QED BY <1>2, <1>3 DEF InsertRequest

\* ConnectionRequests.UpdateStatus.
LEMMA UpdateStatusStep ==
  ASSUME IInv, NEW r \in Requests, UpdateStatus(r)
  PROVE  IInv'
<1>1. /\ TypeOK /\ Control /\ pc[r] = "updateStatus" /\ pc[r] \in Steps
      /\ UNCHANGED <<agents, blacklist, env, toKind, before>>
  BY DEF IInv, UpdateStatus, Steps
<1>2. PICK c \in Requests : env[r].op \in {"accept", "reject"} /\ env[r].conn = c
  BY <1>1 DEF Control, ControlOf
<1>3. ASSUME connections[c] # Null, Reply(r),
             connections' = [connections EXCEPT ![c].status = Answer(r)]
      PROVE  IInv'
  <2>1. connections[c] \in ConnectionRow BY <1>1, <1>2, <1>3 DEF TypeOK
  <2>2. /\ connections'[c] = [connections[c] EXCEPT !.status = Answer(r)]
        /\ \A q \in Requests \ {c} : connections'[q] = connections[q]
    BY <1>1, <1>2, <1>3 DEF TypeOK
  <2>3. /\ connections'[c] \in ConnectionRow
        /\ connections'[c].status = Answer(r)
        /\ connections'[c].sender = connections[c].sender
        /\ connections'[c].from = connections[c].from
        /\ connections'[c].fromKind = connections[c].fromKind
        /\ connections'[c].to = connections[c].to
        /\ connections'[c].toKind = connections[c].toKind
    BY <2>1, <2>2 DEF ConnectionRow, Statuses, Answer
  <2>4. connections'[c] # Null BY <2>3, NullAssumption
  <2>5. /\ pc' \in [Requests -> Steps \cup Outcomes \cup {"idle"}]
        /\ Control'
        /\ \A p \in Requests : \A ops : Applied(p, ops)' <=>
              Applied(p, ops) \/ (p = r /\ env[r].op \in ops)
        /\ \A ops : ~Applied(r, ops)
        /\ BeforeEnded'
    BY <1>1, <1>3, DoneStep
  <2>6. TypeOK'
    <3>1. connections' \in [Requests -> ConnectionRow \cup {Null}]
      BY <1>1, <1>2, <1>3, <2>2, <2>3 DEF TypeOK
    <3> QED BY <1>1, <2>5, <3>1 DEF TypeOK
  <2>7. \A q \in Requests : connections'[q] # Null <=> connections[q] # Null
    BY <1>3, <2>2, <2>4
  <2>8. RowsHaveSenders'
    <3>1. \A q \in Requests : connections[q] # Null =>
             connections'[q].sender = connections[q].sender
      BY <2>2, <2>3
    <3> QED BY <1>1, <2>5, <2>7, <3>1 DEF IInv, RowsHaveSenders
  <2>9. RequestFollowsSender'
    BY <1>1, <1>2, <2>5, <2>7 DEF IInv, RequestFollowsSender
  <2>10. UniquePairs' BY <1>3, <2>2, <2>3, <2>7 DEF IInv, UniquePairs, Connects
  <2>11. AnswersFollowRows'
    <3>1. Applied(c, {"connect"}) BY <1>2, <1>3 DEF IInv, RowsHaveSenders
    <3> QED BY <1>1, <1>2, <2>5, <3>1 DEF IInv, AnswersFollowRows
  <2>12. \A p, q \in Requests : Gave(p, q)' <=> Gave(p, q) \/ (p = r /\ q = c)
    BY <1>1, <1>2, <2>5 DEF Gave
  <2>13. \A p \in Requests : Answer(p)' = Answer(p) BY <1>1 DEF Answer
  <2>14. StatusSound'
    <3>1. StatusSound BY StatusMeans DEF IInv
    <3>2. StatusOf(c)' BY <1>2, <2>3, <2>12, <2>13 DEF StatusOf
    <3>3. ASSUME NEW q \in Requests, q # c, connections'[q] # Null
          PROVE  StatusOf(q)'
      BY <2>2, <2>12, <2>13, <3>1, <3>3 DEF StatusSound, StatusOf
    <3> QED BY <3>2, <3>3 DEF StatusSound
  <2>15. StatusIsAnAnswer' BY <2>14, MeansAlways, PTL
  <2>16. BlockHolds' /\ KindsAgree' BY <1>1, <1>2, <2>5, BlockKept
  <2> QED BY <2>5, <2>6, <2>8, <2>9, <2>10, <2>11, <2>15, <2>16 DEF IInv
<1>4. ASSUME Goto(r, "failed"), UNCHANGED connections PROVE IInv'
  BY <1>1, <1>4, FailStep DEF tables
<1> QED BY <1>2, <1>3, <1>4 DEF UpdateStatus

\* A step that keeps agents and requests keeps what is said of both.
LEMMA RowsKept ==
  ASSUME IInv, NEW r \in Requests, UNCHANGED <<agents, connections, env>>,
         \A p \in Requests : \A ops : Applied(p, ops)' <=>
            Applied(p, ops) \/ (p = r /\ env[r].op \in ops),
         env[r].op # "connect"
  PROVE  RowsHaveSenders' /\ RequestFollowsSender' /\ UniquePairs'
BY DEF IInv, RowsHaveSenders, RequestFollowsSender, UniquePairs, Connects

\* Blacklist.Create.
LEMMA InsertEntryStep ==
  ASSUME IInv, NEW r \in Requests, InsertEntry(r)
  PROVE  IInv'
<1> DEFINE entry == [id |-> r, from |-> env[r].from, fromKind |-> env[r].fromKind,
                     to |-> env[r].to, toKind |-> toKind[r]]
<1>1. /\ TypeOK /\ Control /\ pc[r] = "insertEntry" /\ pc[r] \in Steps
      /\ UNCHANGED <<agents, connections, env, toKind>>
  BY DEF IInv, InsertEntry, Steps
<1>2. ASSUME Reply(r), blacklist' = blacklist \cup {entry},
             before' = [before EXCEPT ![r] = {p \in Requests : pc[p] \in Outcomes}]
      PROVE  IInv'
  <2>1. /\ env[r].op = "block" /\ env[r].to \in EntityIds
        /\ toKind[r] = KindOf(env[r].to) /\ env[r].fromKind \in Kinds
    BY <1>1, NullAssumption DEF Control, ControlOf
  <2>2. entry \in BlacklistRow
    BY <1>1, <2>1, TypeFacts, KindTypes DEF BlacklistRow
  <2>3. /\ pc' \in [Requests -> Steps \cup Outcomes \cup {"idle"}]
        /\ Control'
        /\ \A p \in Requests : \A ops : Applied(p, ops)' <=>
              Applied(p, ops) \/ (p = r /\ env[r].op \in ops)
        /\ \A ops : ~Applied(r, ops)
        /\ BeforeEnded'
    BY <1>1, <1>2, DoneStep
  <2>4. TypeOK' BY <1>1, <1>2, <2>2, <2>3 DEF TypeOK
  <2>10. \A p \in Requests \ {r} : before'[p] = before[p] BY <1>1, <1>2 DEF TypeOK
  <2>5. KindsAgree'
    <3>1. entry.toKind = KindOf(entry.to) BY <2>1
    <3> QED BY <1>2, <3>1 DEF IInv, KindsAgree, KindOf
  <2>6. BlockSound'
    <3>1. BlockSound BY BlockMeans DEF IInv
    <3>2. EntryFor(r)'
      <4>1. entry.from = env[r].from /\ entry.fromKind = env[r].fromKind
            /\ entry.to = env[r].to
        OBVIOUS
      <4> QED BY <1>1, <1>2, <4>1 DEF EntryFor
    <3>3. \A p \in Requests : EntryFor(p) => EntryFor(p)' BY <1>1, <1>2 DEF EntryFor
    <3>4. \A p \in Requests \ {r} : Removed(p) => Removed(p)'
      BY <1>1, <2>3, <2>10 DEF Removed
    <3> QED BY <2>3, <3>1, <3>2, <3>3, <3>4 DEF BlockSound
  <2>7. BlockHolds' BY <2>6, MeansAlways, PTL
  <2>8. RowsHaveSenders' /\ RequestFollowsSender' /\ UniquePairs'
    BY <1>1, <2>1, <2>3, RowsKept
  <2>9. StatusIsAnAnswer' /\ AnswersFollowRows' BY <1>1, <2>1, <2>3, StatusKept
  <2> QED BY <2>3, <2>4, <2>5, <2>7, <2>8, <2>9 DEF IInv
<1>3. ASSUME Goto(r, "failed"), UNCHANGED <<blacklist, before>> PROVE IInv'
  BY <1>1, <1>3, FailStep DEF tables
<1> QED BY <1>2, <1>3 DEF InsertEntry

\* Blacklist.Delete.
LEMMA DeleteEntryStep ==
  ASSUME IInv, NEW r \in Requests, DeleteEntry(r)
  PROVE  IInv'
<1>1. /\ TypeOK /\ Control /\ pc[r] = "deleteEntry" /\ pc[r] \in Steps
      /\ UNCHANGED <<agents, connections, env, toKind, before>> /\ Reply(r)
      /\ blacklist' = blacklist \ Listed(r)
  BY DEF IInv, DeleteEntry, Steps
<1>2. env[r].op = "unblock" BY <1>1 DEF Control, ControlOf
<1>3. /\ pc' \in [Requests -> Steps \cup Outcomes \cup {"idle"}]
      /\ Control'
      /\ \A p \in Requests : \A ops : Applied(p, ops)' <=>
            Applied(p, ops) \/ (p = r /\ env[r].op \in ops)
      /\ \A ops : ~Applied(r, ops)
      /\ BeforeEnded'
      /\ \A p \in Requests : r \notin before'[p]
  BY <1>1, DoneStep
<1>4. TypeOK' BY <1>1, <1>3 DEF TypeOK
<1>5. KindsAgree' BY <1>1 DEF IInv, KindsAgree, KindOf
<1>6. BlockSound'
  <2>1. BlockSound BY BlockMeans DEF IInv
  <2>2. \A p \in Requests : Removed(p) => Removed(p)' BY <1>1, <1>3 DEF Removed
  <2>3. ASSUME NEW p \in Requests, EntryFor(p), ~EntryFor(p)'
        PROVE  Removed(p)'
    <3>1. PICK e \in blacklist : /\ e.from = env[p].from /\ e.fromKind = env[p].fromKind
                                 /\ e.to = env[p].to
      BY <2>3 DEF EntryFor
    <3>2. e \in Listed(r) BY <1>1, <2>3, <3>1 DEF EntryFor
    <3>3. env[r].from = env[p].from /\ env[r].to = env[p].to
      BY <3>1, <3>2 DEF Listed, Connects
    <3> QED BY <1>1, <1>2, <1>3, <3>3 DEF Removed
  <2> QED BY <1>2, <1>3, <2>1, <2>2, <2>3 DEF BlockSound
<1>7. BlockHolds' BY <1>6, MeansAlways, PTL
<1>8. RowsHaveSenders' /\ RequestFollowsSender' /\ UniquePairs'
  BY <1>1, <1>2, <1>3, RowsKept
<1>9. StatusIsAnAnswer' /\ AnswersFollowRows' BY <1>1, <1>2, <1>3, StatusKept
<1> QED BY <1>3, <1>4, <1>5, <1>7, <1>8, <1>9 DEF IInv

\* Deregister: the requests of the agent go with it, and no others.
LEMMA DeleteAgentStep ==
  ASSUME IInv, NEW r \in Requests, DeleteAgent(r)
  PROVE  IInv'
<1> DEFINE a == env[r].to
<1>1. /\ TypeOK /\ Control /\ pc[r] = "deleteAgent" /\ pc[r] \in Steps
      /\ UNCHANGED <<blacklist, env, toKind, before>> /\ agents' = agents \ {a}
      /\ \E step \in Outcomes : Goto(r, step)
  BY DEF IInv, DeleteAgent, Steps, Reply, Outcomes
<1>2. connections' = [q \in Requests |->
         IF connections[q] # Null /\ connections[q].sender = a
         THEN Null ELSE connections[q]]
  BY DEF DeleteAgent
<1>3. env[r].op = "deleteAgent" /\ env[r] # Null
  BY <1>1 DEF Control, ControlOf
<1>4. PICK step \in Outcomes : pc' = [pc EXCEPT ![r] = step]
  BY <1>1 DEF Goto
<1>5. pc'[r] = step /\ \A p \in Requests \ {r} : pc'[p] = pc[p]
  BY <1>1, <1>4 DEF TypeOK
<1>6. TypeOK'
  <2>1. connections' \in [Requests -> ConnectionRow \cup {Null}]
    BY <1>1, <1>2 DEF TypeOK
  <2>2. pc' \in [Requests -> Steps \cup Outcomes \cup {"idle"}]
    BY <1>1, <1>4 DEF TypeOK
  <2> QED BY <1>1, <2>1, <2>2 DEF TypeOK
<1>7. Control'
  <2>1. ControlOf(r)' BY <1>1, <1>3, <1>5 DEF Control, ControlOf, Outcomes
  <2>2. ASSUME NEW p \in Requests, p # r PROVE ControlOf(p)'
    <3>1. ControlOf(p) /\ pc'[p] = pc[p] BY <1>1, <1>5, <2>2 DEF Control
    <3> QED BY <1>1, <3>1 DEF ControlOf, KindOf
  <2> QED BY <2>1, <2>2 DEF Control
<1>8. \A p \in Requests, op \in Operations \ {"deleteAgent"} :
         Applied(p, {op})' <=> Applied(p, {op})
  BY <1>1, <1>3, <1>5 DEF Applied, Steps
<1>9. \A p \in Requests : Applied(p, {"accept", "reject"})' <=> Applied(p, {"accept", "reject"})
  BY <1>1, <1>3, <1>5 DEF Applied, Steps
<1>10. \A p \in Requests :
         /\ Applied(p, {"connect"})' <=> Applied(p, {"connect"})
         /\ Applied(p, {"block"})' <=> Applied(p, {"block"})
         /\ Applied(p, {"unblock"})' <=> Applied(p, {"unblock"})
  BY <1>8 DEF Operations
<1>11. \A q \in Requests : /\ connections'[q] # Null => connections'[q] = connections[q]
                           /\ connections'[q] # Null <=>
                                connections[q] # Null /\ connections[q].sender # a
  BY <1>2
<1>12. RowsHaveSenders' BY <1>1, <1>10, <1>11 DEF IInv, RowsHaveSenders
<1>13. RequestFollowsSender'
  BY <1>1, <1>10, <1>11 DEF IInv, RequestFollowsSender, RowsHaveSenders
<1>14. UniquePairs' BY <1>11 DEF IInv, UniquePairs, Connects
<1>15. AnswersFollowRows' BY <1>1, <1>9, <1>10 DEF IInv, AnswersFollowRows
<1>16. KindsAgree' BY <1>1 DEF IInv, KindsAgree, KindOf
<1>17. StatusSound'
  <2>1. StatusSound BY StatusMeans DEF IInv
  <2>2. \A p, q \in Requests : Gave(p, q)' <=> Gave(p, q) BY <1>1, <1>9 DEF Gave
  <2>3. \A p \in Requests : Answer(p)' = Answer(p) BY <1>1 DEF Answer
  <2> QED BY <1>11, <2>1, <2>2, <2>3 DEF StatusSound, StatusOf
<1>18. BlockSound'
  <2>1. BlockSound BY BlockMeans DEF IInv
  <2>2. \A p \in Requests : EntryFor(p)' <=> EntryFor(p) BY <1>1 DEF EntryFor
  <2>3. \A p \in Requests : Removed(p)' <=> Removed(p) BY <1>1, <1>10 DEF Removed
  <2> QED BY <1>10, <2>1, <2>2, <2>3 DEF BlockSound
<1>19. StatusIsAnAnswer' /\ BlockHolds' BY <1>17, <1>18, MeansAlways, PTL
<1>20. BeforeEnded' BY <1>1, <1>5 DEF IInv, BeforeEnded, TypeOK
<1> QED BY <1>6, <1>7, <1>12, <1>13, <1>14, <1>15, <1>16, <1>19, <1>20 DEF IInv

-----------------------------------------------------------------------------
(* The theorems.                                                           *)

\* A step that leaves every variable alone keeps the invariant.
LEMMA StutterStep == ASSUME IInv, UNCHANGED vars PROVE IInv'
<1>1. StatusSound /\ BlockSound BY StatusMeans, BlockMeans DEF IInv
<1>2. \A r \in Requests : \A ops : Applied(r, ops)' <=> Applied(r, ops)
  BY DEF vars, Applied
<1>3. \A q \in Requests : StatusOf(q)' <=> StatusOf(q)
  BY <1>2 DEF vars, StatusOf, Gave, Answer
<1>4. \A r \in Requests : (EntryFor(r)' <=> EntryFor(r)) /\ (Removed(r)' <=> Removed(r))
  BY <1>2 DEF vars, EntryFor, Removed
<1>5. StatusSound' /\ BlockSound' BY <1>1, <1>2, <1>3, <1>4 DEF vars, StatusSound, BlockSound
<1>6. StatusIsAnAnswer' /\ BlockHolds' BY <1>5, MeansAlways, PTL
<1>7. TypeOK' BY DEF IInv, vars, TypeOK
<1>8. Control' BY DEF IInv, vars, Control, ControlOf, KindOf
<1>9. RowsHaveSenders' /\ AnswersFollowRows' /\ RequestFollowsSender'
  BY <1>2 DEF IInv, vars, RowsHaveSenders, AnswersFollowRows, RequestFollowsSender
<1>10. UniquePairs' /\ KindsAgree' /\ BeforeEnded'
  BY DEF IInv, vars, UniquePairs, Connects, KindsAgree, KindOf, BeforeEnded
<1> QED BY <1>6, <1>7, <1>8, <1>9, <1>10 DEF IInv

\* Every step of every handler, completed or cut off, keeps the invariant.
LEMMA StepHolds == IInv /\ [Next]_vars => IInv'
<1> SUFFICES ASSUME IInv, [Next]_vars PROVE IInv' OBVIOUS
<1>1. ASSUME NEW r \in Requests, Start(r) PROVE IInv' BY <1>1, StartStep
<1>2. ASSUME NEW r \in Requests, Proceed(r) PROVE IInv'
  BY <1>2, LookupStep, InsertRequestStep, UpdateStatusStep, InsertEntryStep,
     DeleteEntryStep, DeleteAgentStep DEF Proceed
<1>3. ASSUME NEW r \in Requests, Abort(r) PROVE IInv'
  BY <1>3, FailStep DEF Abort
<1>4. ASSUME Idle \/ UNCHANGED vars PROVE IInv' BY <1>4, StutterStep DEF Idle
<1> QED BY <1>1, <1>2, <1>3, <1>4 DEF Next

\* The inductive invariant: what a request carries between its statements, who
\* inserted the rows that exist, and what the statements that have run, told or
\* lost, left in the tables (the handlers under /v1/connections and
\* /v1/blacklist).
THEOREM Invariance == Spec => []IInv
BY InitHolds, StepHolds, PTL DEF Spec

\* The tables and the handlers' locals stay within their types.
THEOREM TypeCorrect == Spec => []TypeOK
<1>1. IInv => TypeOK BY DEF IInv
<1> QED BY <1>1, Invariance, PTL

\* However many parties answer a request at once, its status is what one of the
\* UPDATEs that ran has set, and pending when none ran; a lost reply is no
\* exception (UpdateStatus).
THEOREM StatusHolds == Spec => []StatusIsAnAnswer
<1>1. IInv => StatusIsAnAnswer BY DEF IInv
<1> QED BY <1>1, Invariance, PTL

\* An inserted request, acknowledged or not, lives exactly as long as its sender
\* (ConnectionRequests.Create, ON DELETE CASCADE).
THEOREM RequestsFollowSenders == Spec => []RequestFollowsSender
<1>1. IInv => RequestFollowsSender BY DEF IInv
<1> QED BY <1>1, Invariance, PTL

\* A blacklisting is in force until a later DELETE of its own party for its own
\* target has run (Blacklist.Create, Blacklist.Delete).
THEOREM BlocksHold == Spec => []BlockHolds
<1>1. IInv => BlockHolds BY DEF IInv
<1> QED BY <1>1, Invariance, PTL

\* No step makes a pending request between two parties whose earlier request
\* was answered: only the unique index stands in the way
\* (connection_requests_from_to_unique).
THEOREM NotAskedAgain == Spec => AnsweredIsNotAskedAgain
<1> DEFINE A == \A p, q \in Requests :
          /\ connections[p] # Null /\ connections[p].status # "PENDING"
          /\ connections'[q] # Null /\ connections'[q].status = "PENDING"
          => ~Connects(connections'[q], connections[p].from, connections[p].fromKind,
                       connections[p].to, connections[p].toKind)
<1>1. IInv /\ [Next]_vars => [A]_vars
  <2> SUFFICES ASSUME IInv, Next, NEW p \in Requests, NEW q \in Requests,
                      connections[p] # Null, connections[p].status # "PENDING",
                      connections'[q] # Null, connections'[q].status = "PENDING",
                      Connects(connections'[q], connections[p].from, connections[p].fromKind,
                               connections[p].to, connections[p].toKind)
               PROVE  FALSE
    BY DEF vars
  <2>1. TypeOK /\ UniquePairs /\ Control BY DEF IInv
  <2>2. CASE UNCHANGED connections BY <2>1, <2>2 DEF UniquePairs, Connects
  <2>3. ASSUME NEW r \in Requests, InsertRequest(r), connections' # connections
        PROVE  FALSE
    <3>1. /\ ~PairTaken(r) /\ connections' = [connections EXCEPT ![r] =
               [sender |-> env[r].caller, from |-> env[r].from,
                fromKind |-> env[r].fromKind, to |-> env[r].to,
                toKind |-> toKind[r], status |-> "PENDING"]]
      BY <2>3 DEF InsertRequest
    <3>2. CASE q = r
      <4>1. /\ connections'[q].from = env[r].from /\ connections'[q].fromKind = env[r].fromKind
            /\ connections'[q].to = env[r].to /\ connections'[q].toKind = toKind[r]
        BY <2>1, <3>1, <3>2 DEF TypeOK
      <4> QED BY <3>1, <4>1 DEF PairTaken, Connects
    <3>3. CASE q # r
      <4>1. connections'[q] = connections[q] BY <2>1, <3>1, <3>3 DEF TypeOK
      <4> QED BY <2>1, <4>1 DEF UniquePairs, Connects
    <3> QED BY <3>2, <3>3
  <2>4. ASSUME NEW r \in Requests, UpdateStatus(r), connections' # connections
        PROVE  FALSE
    <3>1. /\ connections' = [connections EXCEPT ![env[r].conn].status = Answer(r)]
          /\ connections[env[r].conn] # Null
      BY <2>4 DEF UpdateStatus
    <3>2. env[r].conn \in Requests BY <2>1, <2>4 DEF UpdateStatus, Control, ControlOf
    <3>3. connections[env[r].conn] \in ConnectionRow BY <2>1, <3>1, <3>2 DEF TypeOK
    <3>4. connections'[env[r].conn].status = Answer(r) /\ Answer(r) # "PENDING"
      BY <2>1, <3>1, <3>2, <3>3 DEF TypeOK, ConnectionRow, Answer
    <3>5. q # env[r].conn BY <3>4
    <3>6. connections'[q] = connections[q] BY <2>1, <3>1, <3>2, <3>5 DEF TypeOK
    <3> QED BY <2>1, <3>6 DEF UniquePairs, Connects
  <2>5. ASSUME NEW r \in Requests, DeleteAgent(r) PROVE FALSE
    <3>1. connections'[q] = connections[q] BY <2>5 DEF DeleteAgent
    <3> QED BY <2>1, <3>1 DEF UniquePairs, Connects
  <2>6. ASSUME NEW r \in Requests, Start(r) PROVE UNCHANGED connections
    BY <2>6 DEF Start, StartConnect, StartAnswer, StartBlacklist, StartDelete, Arrive, tables
  <2>7. ASSUME NEW r \in Requests,
               LookupTarget(r) \/ InsertEntry(r) \/ DeleteEntry(r) \/ Abort(r)
        PROVE  UNCHANGED connections
    BY <2>7 DEF LookupTarget, InsertEntry, DeleteEntry, Abort, tables
  <2>8. CASE Idle BY <2>2, <2>8 DEF Idle, vars
  <2> QED BY <2>2, <2>3, <2>4, <2>5, <2>6, <2>7, <2>8 DEF Next, Proceed
<1> QED BY <1>1, Invariance, PTL DEF Spec, AnsweredIsNotAskedAgain

\* An unblock whose DELETE has run has taken its target off the list: the kind
\* it looked up is the kind the entry was stored under (Blacklist.Delete).
THEOREM UnblocksWork == Spec => UnblockIsEffective
<1> DEFINE A == \A r \in Requests :
          pc[r] = "deleteEntry" /\ pc'[r] \in {"done", "lost"} =>
              env[r].to \notin ListByEntity(env[r].from, env[r].fromKind)'
<1>1. IInv /\ [Next]_vars => [A]_vars
  <2> SUFFICES ASSUME IInv, Next, NEW r \in Requests,
                      pc[r] = "deleteEntry", pc'[r] \in {"done", "lost"}
               PROVE  env[r].to \notin ListByEntity(env[r].from, env[r].fromKind)'
    BY DEF vars
  <2>1. TypeOK /\ Control /\ KindsAgree BY DEF IInv
  <2>2. DeleteEntry(r)
    <3>1. ASSUME NEW s \in Requests, s # r, NEW step, Goto(s, step) PROVE FALSE
      BY <2>1, <3>1 DEF TypeOK, Goto
    <3>2. ASSUME NEW s \in Requests, Start(s) PROVE FALSE
      <4>1. pc[s] = "idle" /\ \E step : Goto(s, step)
        BY <3>2 DEF Start, StartConnect, StartAnswer, StartBlacklist, StartDelete, Arrive
      <4> QED BY <3>1, <4>1
    <3>3. ASSUME NEW s \in Requests, Proceed(s) PROVE s = r /\ DeleteEntry(s)
      <4>1. \E step : Goto(s, step)
        BY <3>3 DEF Proceed, LookupTarget, InsertRequest, UpdateStatus, InsertEntry,
                    DeleteEntry, DeleteAgent, Reply
      <4>2. s = r BY <3>1, <4>1
      <4> QED BY <3>3, <4>2 DEF Proceed, LookupTarget, InsertRequest, UpdateStatus,
                                InsertEntry, DeleteAgent
    <3>4. ASSUME NEW s \in Requests, Abort(s) PROVE FALSE
      BY <2>1, <3>1, <3>4 DEF Abort, Goto, TypeOK
    <3>5. CASE Idle BY <3>5 DEF Idle, vars
    <3> QED BY <3>2, <3>3, <3>4, <3>5 DEF Next
  <2>3. toKind[r] = KindOf(env[r].to) BY <2>1 DEF Control, ControlOf
  <2>4. ASSUME NEW e \in blacklist', e.from = env[r].from, e.fromKind = env[r].fromKind,
               e.to = env[r].to
        PROVE  FALSE
    <3>1. e \in blacklist /\ e \notin Listed(r) BY <2>2 DEF DeleteEntry
    <3>2. e.toKind = toKind[r] BY <2>1, <2>3, <2>4, <3>1 DEF KindsAgree
    <3> QED BY <2>4, <3>1, <3>2 DEF Listed, Connects
  <2>5. env' = env BY <2>2 DEF DeleteEntry
  <2> QED BY <2>4, <2>5 DEF ListByEntity
<1> QED BY <1>1, Invariance, PTL DEF Spec, UnblockIsEffective
=============================================================================
