--------------------------- MODULE PollingProofs ----------------------------
(***************************************************************************)
(* Proofs about Polling, for every set of messages and UUIDs, every page   *)
(* size and every way to continue.                                         *)
(***************************************************************************)
EXTENDS Polling, FiniteSetTheorems, TLAPS

\* What is in the table has been stamped, and only finitely many messages are.
StoredInv == IsFiniteSet(stored) /\ \A m \in stored : rows[m] # Null

\* The client's position is a message it was given.
PositionInv == last # Null => last \in received

IInv == TypeOK /\ StoredInv /\ PositionInv /\ MissedIsExplained

\* A page that is not cut short is the whole of what matches: it has as many
\* rows as match (LIMIT).
LEMMA WholePage ==
  ASSUME TypeOK, StoredInv, NEW page \in Pages, ~(Cardinality(Matches) > limit)
  PROVE  page = Matches
<1>1. IsFiniteSet(Matches) BY FS_Subset DEF Matches, StoredInv
<1>2. page \subseteq Matches /\ Cardinality(page) = Cardinality(Matches)
  BY DEF Pages, PageSize
<1> QED BY <1>1, <1>2, FS_Subset

\* A position depends on stamps that do not change.
LEMMA PositionKept ==
  ASSUME UNCHANGED <<cursor, last>>, NEW m,
         rows'[m] = rows[m], last # Null => rows'[last] = rows[last]
  PROVE  AfterPosition(m)' <=> AfterPosition(m)
BY DEF AfterPosition

LEMMA InitHolds == Init => IInv
<1> SUFFICES ASSUME Init PROVE IInv OBVIOUS
<1>1. TypeOK BY DEF Init, TypeOK
<1>2. StoredInv BY FS_EmptySet DEF Init, StoredInv
<1>3. PositionInv /\ MissedIsExplained BY DEF Init, PositionInv, MissedIsExplained
<1> QED BY <1>1, <1>2, <1>3 DEF IInv

\* A message is stamped: no stored message changes.
LEMMA StampStep ==
  ASSUME IInv, NEW m \in Messages, Stamp(m)
  PROVE  IInv'
<1>1. TypeOK /\ StoredInv /\ PositionInv /\ MissedIsExplained BY DEF IInv
<1>2. PICK id \in Uuids : rows' = [rows EXCEPT ![m] = [ts |-> clock, id |-> id]]
  BY DEF Stamp
<1>3. [ts |-> clock, id |-> id] \in Row BY <1>1 DEF TypeOK, Row
<1>4. rows[m] = Null /\ UNCHANGED <<stored, clock, cursor, limit, last, received, cut, late>>
  BY DEF Stamp
<1>5. TypeOK' BY <1>1, <1>2, <1>3, <1>4 DEF TypeOK
<1>6. \A n \in stored : n # m /\ rows'[n] = rows[n]
  BY <1>1, <1>2, <1>4 DEF StoredInv, TypeOK
<1>7. StoredInv' BY <1>1, <1>4, <1>6 DEF StoredInv
<1>8. PositionInv' BY <1>1, <1>4 DEF PositionInv
<1>9. \A n \in stored : AfterPosition(n)' <=> AfterPosition(n)
  BY <1>1, <1>4, <1>6, PositionKept DEF PositionInv, TypeOK
<1>10. MissedIsExplained' BY <1>1, <1>4, <1>9 DEF MissedIsExplained
<1> QED BY <1>5, <1>7, <1>8, <1>10 DEF IInv

\* A message is stored, in front of the client's position or late.
LEMMA SaveStep ==
  ASSUME IInv, NEW m \in Messages, Save(m)
  PROVE  IInv'
<1>1. TypeOK /\ StoredInv /\ PositionInv /\ MissedIsExplained BY DEF IInv
<1>2. /\ rows[m] # Null /\ stored' = stored \cup {m}
      /\ late' = IF AfterPosition(m) THEN late ELSE late \cup {m}
      /\ UNCHANGED <<rows, clock, cursor, limit, last, received, cut>>
  BY DEF Save
<1>3. TypeOK' BY <1>1, <1>2 DEF TypeOK
<1>4. StoredInv' BY <1>1, <1>2, FS_AddElement DEF StoredInv
<1>5. PositionInv' BY <1>1, <1>2 DEF PositionInv
<1>6. \A n \in stored' : AfterPosition(n)' <=> AfterPosition(n)
  BY <1>2, PositionKept
<1>7. MissedIsExplained' BY <1>1, <1>2, <1>6 DEF MissedIsExplained
<1> QED BY <1>3, <1>4, <1>5, <1>7 DEF IInv

\* A page is returned: what matched is on it or did not fit on it, and what did
\* not match was missed before.
LEMMA PollStep ==
  ASSUME IInv, Poll
  PROVE  IInv'
<1>1. TypeOK /\ StoredInv /\ PositionInv /\ MissedIsExplained BY DEF IInv
<1>2. PICK page \in Pages :
         /\ received' = received \cup page
         /\ IF page = {} THEN last' = last ELSE last' \in FirstRows(page)
         /\ cut' = IF Cardinality(Matches) > limit THEN cut \cup (Matches \ page) ELSE cut
  BY DEF Poll
<1>3. UNCHANGED <<rows, stored, clock, cursor, limit, late>>
  BY DEF Poll
<1>4. page \subseteq Matches /\ Matches \subseteq stored BY DEF Pages, Matches
<1>5. last' = last \/ last' \in page BY <1>2 DEF FirstRows
<1>6. TypeOK'
  <2>1. cut' \subseteq stored BY <1>1, <1>2, <1>4 DEF TypeOK
  <2>2. last' \in Messages \cup {Null} /\ received' \subseteq stored
    BY <1>1, <1>2, <1>4, <1>5 DEF TypeOK
  <2> QED BY <1>1, <1>3, <2>1, <2>2 DEF TypeOK
<1>7. StoredInv' BY <1>1, <1>3 DEF StoredInv
<1>8. PositionInv' BY <1>1, <1>2, <1>5 DEF PositionInv
<1>9. MissedIsExplained'
  <2> SUFFICES ASSUME NEW m \in stored, m \notin received' PROVE m \in late \cup cut'
    BY <1>3 DEF MissedIsExplained
  <2>1. m \notin received /\ m \notin page BY <1>2
  <2>2. CASE m \notin Matches
    <3>1. m \in late \cup cut BY <1>1, <2>1, <2>2 DEF MissedIsExplained, Matches
    <3> QED BY <1>2, <3>1
  <2>3. CASE m \in Matches
    <3>1. Cardinality(Matches) > limit BY <1>1, <2>1, <2>3, WholePage
    <3> QED BY <1>2, <2>1, <2>3, <3>1
  <2> QED BY <2>2, <2>3
<1> QED BY <1>6, <1>7, <1>8, <1>9 DEF IInv

\* One step per action.
LEMMA StepHolds == IInv /\ [Next]_vars => IInv'
<1> SUFFICES ASSUME IInv, [Next]_vars PROVE IInv' OBVIOUS
<1>1. ASSUME NEW m \in Messages, Stamp(m) PROVE IInv' BY <1>1, StampStep
<1>2. ASSUME NEW m \in Messages, Save(m) PROVE IInv' BY <1>2, SaveStep
<1>3. CASE Poll BY <1>3, PollStep
<1>4. CASE Tick \/ UNCHANGED vars
  <2>1. /\ clock' \in Nat
        /\ UNCHANGED <<rows, stored, cursor, limit, last, received, cut, late>>
    BY <1>4 DEF Tick, vars, IInv, TypeOK
  <2> QED BY <2>1 DEF IInv, TypeOK, StoredInv, PositionInv, MissedIsExplained, AfterPosition
<1> QED BY <1>1, <1>2, <1>3, <1>4 DEF Next

\* The invariant holds in every reachable state.
THEOREM Invariance == Spec => []IInv
BY InitHolds, StepHolds, PTL DEF Spec

\* A client is only given what is stored (GetByConversation).
THEOREM TypeCorrect == Spec => []TypeOK
<1>1. IInv => TypeOK BY DEF IInv
<1> QED BY <1>1, Invariance, PTL

\* Whatever is skipped was itself stored behind the client's position or itself
\* did not fit on a page (GetByConversation, handlePollMessages).
THEOREM MissesExplained == Spec => []MissedIsExplained
<1>1. IInv => MissedIsExplained BY DEF IInv
<1> QED BY <1>1, Invariance, PTL

=============================================================================
