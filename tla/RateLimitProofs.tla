--------------------------- MODULE RateLimitProofs ---------------------------
(* Proofs about RateLimit, for every value of its constants.               *)
EXTENDS RateLimit, FiniteSetTheorems, TLAPS

USE ConfigAssumption, NullAssumption

\* Rates and bursts of a key are natural numbers.
LEMMA KeyTypes ==
  ASSUME NEW k \in Keys
  PROVE  /\ k[1] \in Dimensions /\ Rate[k[1]] \in Nat
         /\ MaxBurst(k) \in Nat
         /\ MaxBurst(k) = BurstTicks * Rate[k[1]]
<1>1. k[1] \in Dimensions BY DEF Keys, Dimensions
<1>2. Rate[k[1]] \in Nat BY <1>1
<1>3. \A a, b \in Nat : a * b \in Nat OBVIOUS
<1> QED BY <1>1, <1>2, <1>3 DEF MaxBurst

\* Time only adds to a bucket, at most its rate per tick, and never beyond
\* its burst.
LEMMA RefilledFacts ==
  ASSUME TypeOK, NEW k \in Keys, buckets[k] # Null
  PROVE  /\ buckets[k] \in Bucket
         /\ Refilled(k, clock) \in Int
         /\ Refilled(k, clock) <= MaxBurst(k)
         /\ buckets[k].tokens <= Refilled(k, clock)
         /\ Refilled(k, clock) = IF buckets[k].tokens + Rate[k[1]] * (clock - buckets[k].lastFill) > MaxBurst(k)
                                 THEN MaxBurst(k)
                                 ELSE buckets[k].tokens + Rate[k[1]] * (clock - buckets[k].lastFill)
<1>1. buckets[k] \in Bucket BY DEF TypeOK
<1>2. /\ buckets[k].tokens \in Int /\ buckets[k].lastFill \in Nat /\ clock \in Nat
      /\ buckets[k].lastFill <= clock /\ buckets[k].tokens <= MaxBurst(k)
  BY <1>1 DEF TypeOK, Bucket
<1>3. Rate[k[1]] \in Nat /\ MaxBurst(k) \in Nat BY KeyTypes
<1>4. clock - buckets[k].lastFill \in Nat BY <1>2
<1>5. \A a, b \in Nat : a * b \in Nat OBVIOUS
<1>6. Rate[k[1]] * (clock - buckets[k].lastFill) \in Nat BY <1>3, <1>4, <1>5
<1> QED BY <1>1, <1>2, <1>3, <1>6 DEF Refilled

\* The key a message is checked under is a key of the limiter.
LEMMA CheckedKey ==
  ASSUME TypeOK, Submitted, NEW m \in Messages, pc[m] # "idle"
  PROVE  /\ msg[m] \in Envelope
         /\ <<"agent", msg[m].from>> \in Keys
         /\ <<"group", msg[m].to>> \in Keys
         /\ <<"tag", msg[m].tag>> \in Keys
<1>1. msg[m] \in Envelope BY DEF TypeOK, Submitted
<1>2. msg[m].from \in Senders /\ msg[m].to \in Targets /\ msg[m].tag \in Tags
  BY <1>1 DEF Envelope
<1> QED BY <1>1, <1>2 DEF Keys

\* One call of Allow under the mutex: the bucket of the key stays within
\* bounds and no other bucket moves.
LEMMA AllowStep ==
  ASSUME TypeOK, NEW k \in Keys, buckets' = AfterAllow(k), clock' = clock
  PROVE  /\ buckets' \in [Keys -> Bucket \cup {Null}]
         /\ \A j \in Keys \ {k} : buckets'[j] = buckets[j]
         /\ Free(k) => buckets' = buckets
         /\ ~Free(k) => buckets'[k] = [tokens |-> Left(k), lastFill |-> clock]
         /\ Left(k) \in Int /\ Left(k) <= MaxBurst(k)
<1>1. MaxBurst(k) \in Nat /\ TokenUnits \in Nat BY KeyTypes
<1>2. buckets \in [Keys -> Bucket \cup {Null}] /\ clock \in Nat BY DEF TypeOK
<1>3. Left(k) \in Int /\ Left(k) <= MaxBurst(k)
  <2>1. CASE buckets[k] = Null BY <1>1, <2>1 DEF Left
  <2>2. CASE buckets[k] # Null
    <3>1. Refilled(k, clock) \in Int /\ Refilled(k, clock) <= MaxBurst(k)
      BY <2>2, RefilledFacts
    <3> QED BY <1>1, <2>2, <3>1 DEF Left
  <2> QED BY <2>1, <2>2
<1>4. [tokens |-> Left(k), lastFill |-> clock] \in Bucket BY <1>2, <1>3 DEF Bucket
<1> QED BY <1>2, <1>3, <1>4 DEF AfterAllow

\* The limiter's steps and the gate's steps preserve the type invariant.
LEMMA TypeCheck ==
  ASSUME TypeOK, Submitted, NEW m \in Messages, NEW d \in Dimensions, NEW name,
         <<d, name>> \in Keys, NEW next \in {"group", "tag", "persist"},
         Check(m, d, name, next)
  PROVE  TypeOK'
<1> DEFINE k == <<d, name>>
<1>1. buckets' = AfterAllow(k) /\ clock' = clock /\ msg' = msg BY DEF Check
<1>2. /\ buckets' \in [Keys -> Bucket \cup {Null}]
      /\ \A j \in Keys \ {k} : buckets'[j] = buckets[j]
      /\ Free(k) => buckets' = buckets
      /\ ~Free(k) => buckets'[k] = [tokens |-> Left(k), lastFill |-> clock]
      /\ Left(k) \in Int /\ Left(k) <= MaxBurst(k)
  BY <1>1, AllowStep
<1>3. ASSUME NEW j \in Keys, buckets'[j] # Null
      PROVE  buckets'[j].lastFill <= clock' /\ buckets'[j].tokens <= MaxBurst(j)
  <2>1. CASE j # k \/ Free(k) BY <1>1, <1>2, <1>3, <2>1 DEF TypeOK
  <2>2. CASE j = k /\ ~Free(k) BY <1>1, <1>2, <1>3, <2>2 DEF TypeOK
  <2> QED BY <2>1, <2>2
<1>4. grants' \subseteq Grant
  <2>1. [msg |-> m, key |-> k, at |-> clock] \in Grant BY DEF Grant, TypeOK
  <2> QED BY <2>1 DEF Check, TypeOK
<1>5. pc' \in [Messages -> Dimensions \cup {"idle", "persist", "stored", "limited", "error"}]
  BY DEF Check, TypeOK, Dimensions
<1>6. MaxBurst(k)' = MaxBurst(k) BY DEF MaxBurst
<1> QED BY <1>1, <1>2, <1>3, <1>4, <1>5 DEF TypeOK, MaxBurst

\* Removing buckets and letting time pass keep the types.
LEMMA TypeStep ==
  ASSUME TypeOK, Submitted, [Next]_vars
  PROVE  TypeOK' /\ Submitted'
<1>1. ASSUME NEW m \in Messages, NEW from \in Senders, NEW to \in Targets,
             NEW prefixed \in BOOLEAN, NEW tag \in Tags, Submit(m, from, to, prefixed, tag)
      PROVE  TypeOK' /\ Submitted'
  <2>1. [from |-> from, to |-> to, prefixed |-> prefixed, tag |-> tag]
            \in Envelope
    BY DEF Envelope
  <2> QED BY <1>1, <2>1 DEF Submit, TypeOK, Submitted, MaxBurst, Dimensions
<1>2. ASSUME NEW m \in Messages, CheckAgent(m) PROVE TypeOK' /\ Submitted'
  <2>1. pc[m] = "agent" BY <1>2 DEF CheckAgent, Check
  <2>2. TypeOK' BY <1>2, <2>1, CheckedKey, TypeCheck DEF CheckAgent, Dimensions
  <2> QED BY <1>2, <2>1, <2>2 DEF Submitted, CheckAgent, Check, TypeOK
<1>3. ASSUME NEW m \in Messages, CheckGroup(m) PROVE TypeOK' /\ Submitted'
  <2>1. pc[m] = "group" BY <1>3 DEF CheckGroup, Check
  <2>2. TypeOK' BY <1>3, <2>1, CheckedKey, TypeCheck DEF CheckGroup, Dimensions
  <2> QED BY <1>3, <2>1, <2>2 DEF Submitted, CheckGroup, Check, TypeOK
<1>4. ASSUME NEW m \in Messages, CheckTag(m) PROVE TypeOK' /\ Submitted'
  <2>1. pc[m] = "tag" BY <1>4 DEF CheckTag, Check
  <2>2. TypeOK' BY <1>4, <2>1, CheckedKey, TypeCheck DEF CheckTag, Dimensions
  <2> QED BY <1>4, <2>1, <2>2 DEF Submitted, CheckTag, Check, TypeOK
<1>5. ASSUME NEW m \in Messages, Persist(m) PROVE TypeOK' /\ Submitted'
  BY <1>5 DEF Persist, TypeOK, Submitted, MaxBurst
<1>6. CASE Cleanup BY <1>6 DEF Cleanup, TypeOK, Submitted, MaxBurst
<1>7. CASE Tick BY <1>7 DEF Tick, TypeOK, Submitted, MaxBurst, Bucket
<1>8. CASE UNCHANGED vars BY <1>8 DEF vars, TypeOK, Submitted, MaxBurst
<1> QED BY <1>1, <1>2, <1>3, <1>4, <1>5, <1>6, <1>7, <1>8 DEF Next, Gate, Idle
-----------------------------------------------------------------------------

\* A limited key has a positive rate and a burst that pays for a message.
LEMMA LimitedKey ==
  ASSUME SoundConfig, NEW k \in Keys, ~Free(k)
  PROVE  /\ Rate[k[1]] \in Nat /\ Rate[k[1]] > 0
         /\ MaxBurst(k) \in Nat /\ MaxBurst(k) >= TokenUnits
<1>1. k[1] \in Dimensions /\ Rate[k[1]] \in Nat /\ MaxBurst(k) \in Nat BY KeyTypes
<1>2. Rate[k[1]] > 0 BY <1>1 DEF Free
<1> QED BY <1>1, <1>2, KeyTypes DEF SoundConfig

\* What a limited key could spend lies between nothing and its burst.
LEMMA ContentBounds ==
  ASSUME TypeOK, NoDebt, SoundConfig, NEW k \in Keys, ~Free(k)
  PROVE  Content(k) \in Int /\ 0 <= Content(k) /\ Content(k) <= MaxBurst(k)
<1>1. MaxBurst(k) \in Nat BY LimitedKey
<1>2. CASE buckets[k] = Null BY <1>1, <1>2 DEF Content
<1>3. CASE buckets[k] # Null
  <2>1. /\ Refilled(k, clock) \in Int /\ Refilled(k, clock) <= MaxBurst(k)
        /\ buckets[k].tokens <= Refilled(k, clock) /\ buckets[k] \in Bucket
    BY <1>3, RefilledFacts
  <2>2. buckets[k].tokens \in Int /\ 0 <= buckets[k].tokens
    BY <1>3, <2>1 DEF NoDebt, Bucket
  <2> QED BY <1>1, <1>3, <2>1, <2>2 DEF Content
<1> QED BY <1>2, <1>3

\* The grants counted by the properties are finitely many.
LEMMA GrantsFinite ==
  ASSUME IsFiniteSet(grants), NEW k, NEW from
  PROVE  IsFiniteSet(GrantsSince(k, from)) /\ Cardinality(GrantsSince(k, from)) \in Nat
<1>1. GrantsSince(k, from) \in SUBSET grants BY DEF GrantsSince
<1> QED BY <1>1, FS_Subset, FS_CardinalityType

\* A call of Allow takes a token's worth out of the bucket if it grants, and
\* nothing if it refuses.
LEMMA AllowContent ==
  ASSUME TypeOK, NoDebt, SoundConfig, NEW k \in Keys, ~Free(k),
         buckets' = AfterAllow(k), clock' = clock
  PROVE  /\ buckets'[k] # Null /\ buckets'[k].tokens = Left(k) /\ 0 <= Left(k)
         /\ Content(k)' = Left(k)
         /\ Granted(k) => Left(k) = Content(k) - TokenUnits
         /\ ~Granted(k) => Left(k) = Content(k)
<1>1. /\ buckets'[k] = [tokens |-> Left(k), lastFill |-> clock]
      /\ Left(k) \in Int /\ Left(k) <= MaxBurst(k)
  BY AllowStep
<1>2. clock \in Nat /\ [tokens |-> Left(k), lastFill |-> clock] \in Bucket
  BY <1>1 DEF TypeOK, Bucket
<1>3. buckets'[k] # Null BY <1>1, <1>2
<1>4. Rate[k[1]] \in Nat /\ MaxBurst(k) \in Nat /\ MaxBurst(k) >= TokenUnits BY LimitedKey
<1>5. Content(k) \in Int /\ 0 <= Content(k) /\ Content(k) <= MaxBurst(k) BY ContentBounds
<1>6. 0 <= Left(k) /\ (Granted(k) => Left(k) = Content(k) - TokenUnits)
                   /\ (~Granted(k) => Left(k) = Content(k))
  <2>1. CASE buckets[k] = Null BY <1>4, <2>1 DEF Left, Content, Granted
  <2>2. CASE buckets[k] # Null BY <1>4, <1>5, <2>2 DEF Left, Content, Granted
  <2> QED BY <2>1, <2>2
<1>7. Content(k)' = Left(k)
  <2>1. Content(k)' = IF Left(k) + Rate[k[1]] * (clock - clock) > MaxBurst(k)
                      THEN MaxBurst(k) ELSE Left(k) + Rate[k[1]] * (clock - clock)
    BY <1>1, <1>3 DEF Content, Refilled, MaxBurst
  <2>2. Rate[k[1]] * (clock - clock) = 0 BY <1>2, <1>4
  <2> QED BY <1>1, <1>4, <2>1, <2>2
<1> QED BY <1>1, <1>3, <1>6, <1>7

\* The bound on every window follows from the budget: windows that end now
\* are covered by it, and the others do not change.
LEMMA RateBoundStep ==
  ASSUME IInv, SoundConfig, TypeOK', NoDebt', GrantsPast', Budget',
         clock' \in {clock, clock + 1}, grants \subseteq grants',
         \A g \in grants' \ grants : g.at = clock'
  PROVE  RateBound'
<1> SUFFICES ASSUME NEW k \in Keys, NEW from \in 0..clock', NEW until \in 0..clock',
                    ~Free(k), from <= until
             PROVE  TokenUnits * Cardinality(GrantsIn(k, from, until)')
                        <= MaxBurst(k) + Rate[k[1]] * (until - from)
  BY DEF RateBound, Free, MaxBurst, GrantsIn
<1>0. clock \in Nat /\ clock' \in Nat BY DEF IInv, TypeOK
<1>1. CASE until = clock'
  <2>1. GrantsIn(k, from, until)' = GrantsSince(k, from)'
    BY <1>1 DEF GrantsIn, GrantsSince, GrantsPast
  <2>2. TokenUnits * Cardinality(GrantsSince(k, from)') + Content(k)'
          <= MaxBurst(k) + Rate[k[1]] * (clock' - from)
    BY DEF Budget, Free, MaxBurst
  <2>3. Content(k)' \in Int /\ 0 <= Content(k)'
    <3>1. MaxBurst(k) \in Nat BY LimitedKey
    <3>2. CASE buckets'[k] = Null BY <3>1, <3>2 DEF Content, MaxBurst
    <3>3. CASE buckets'[k] # Null
      <4> DEFINE b == buckets'[k]
      <4>1. /\ b \in Bucket /\ b.lastFill <= clock' /\ b.tokens >= 0
        BY <3>3 DEF TypeOK, NoDebt, Free
      <4>2. b.tokens \in Nat /\ clock' - b.lastFill \in Nat BY <1>0, <4>1 DEF Bucket
      <4>3. \A x, y \in Nat : x * y \in Nat OBVIOUS
      <4>4. Rate[k[1]] * (clock' - b.lastFill) \in Nat BY <4>2, <4>3, LimitedKey
      <4>5. Content(k)' = IF b.tokens + Rate[k[1]] * (clock' - b.lastFill) > MaxBurst(k)
                          THEN MaxBurst(k) ELSE b.tokens + Rate[k[1]] * (clock' - b.lastFill)
        BY <3>3 DEF Content, Refilled, MaxBurst
      <4> QED BY <3>1, <4>2, <4>4, <4>5
    <3> QED BY <3>2, <3>3
  <2>4. Cardinality(GrantsSince(k, from)') \in Nat
    <3>1. GrantsSince(k, from)' \in SUBSET grants' BY DEF GrantsSince
    <3> QED BY <3>1, FS_Subset, FS_CardinalityType DEF GrantsPast
  <2>5. \A a, b \in Int : a * b \in Int OBVIOUS
  <2>6. /\ TokenUnits * Cardinality(GrantsSince(k, from)') \in Int
        /\ Rate[k[1]] * (clock' - from) \in Int
        /\ MaxBurst(k) \in Int
    BY <1>0, <2>4, <2>5, LimitedKey
  <2> QED BY <1>1, <2>1, <2>2, <2>3, <2>6
<1>2. CASE until < clock'
  <2>1. from \in 0..clock /\ until \in 0..clock BY <1>0, <1>2
  <2>2. GrantsIn(k, from, until)' = GrantsIn(k, from, until)
    <3>1. \A g \in grants' \ grants : ~(g.at <= until) BY <1>0, <1>2
    <3> QED BY <3>1 DEF GrantsIn
  <2> QED BY <2>1, <2>2 DEF IInv, RateBound
<1> QED BY <1>0, <1>1, <1>2

\* Only the counted grants, the bucket and the clock matter to the budget of
\* a key; a step that leaves them alone preserves it.
LEMMA BudgetFrame ==
  ASSUME IInv, NEW k \in Keys, ~Free(k), buckets'[k] = buckets[k], clock' = clock,
         \A g \in grants' : g \notin grants => g.key # k, grants \subseteq grants',
         NEW from \in 0..clock
  PROVE  TokenUnits * Cardinality(GrantsSince(k, from)') + Content(k)'
            <= MaxBurst(k) + Rate[k[1]] * (clock' - from)
<1>1. GrantsSince(k, from)' = GrantsSince(k, from) BY DEF GrantsSince
<1>2. Content(k)' = Content(k) BY DEF Content, Refilled, MaxBurst
<1> QED BY <1>1, <1>2 DEF IInv, Budget

\* A call of Allow spends what it grants.
LEMMA CheckStep ==
  ASSUME IInv, SoundConfig, TypeOK', NEW m \in Messages, NEW d \in Dimensions, NEW name,
         <<d, name>> \in Keys, NEW next, Check(m, d, name, next)
  PROVE  NoDebt' /\ GrantsPast' /\ Budget' /\ RateBound'
<1> DEFINE k == <<d, name>>
           g == [msg |-> m, key |-> k, at |-> clock]
<1>1. buckets' = AfterAllow(k) /\ clock' = clock BY DEF Check
<1>2. clock \in Nat BY DEF IInv, TypeOK
<1>3. /\ \A j \in Keys \ {k} : buckets'[j] = buckets[j]
      /\ Free(k) => buckets' = buckets
  BY <1>1, AllowStep DEF IInv
<1>4. /\ Granted(k) => grants' = grants \cup {g}
      /\ ~Granted(k) => grants' = grants
  BY DEF Check
<1>5. NoDebt'
  <2> SUFFICES ASSUME NEW j \in Keys, ~Free(j), buckets'[j] # Null
               PROVE  buckets'[j].tokens >= 0
    BY DEF NoDebt, Free
  <2>1. CASE j = k
    <3>1. buckets'[k].tokens = Left(k) /\ 0 <= Left(k) BY <1>1, <2>1, AllowContent DEF IInv
    <3> QED BY <1>1, <2>1, <3>1, AllowStep DEF IInv
  <2>2. CASE j # k BY <1>3, <2>2 DEF IInv, NoDebt
  <2> QED BY <2>1, <2>2
<1>6. GrantsPast'
  <2>1. IsFiniteSet(grants) /\ \A h \in grants : h.at <= clock BY DEF IInv, GrantsPast
  <2>2. IsFiniteSet(grants \cup {g}) BY <2>1, FS_AddElement
  <2>3. g.at <= clock BY <1>2
  <2> QED BY <1>1, <1>4, <2>1, <2>2, <2>3 DEF GrantsPast
<1>7. Budget'
  <2> SUFFICES ASSUME NEW j \in Keys, ~Free(j), NEW from \in 0..clock
               PROVE  TokenUnits * Cardinality(GrantsSince(j, from)') + Content(j)'
                         <= MaxBurst(j) + Rate[j[1]] * (clock' - from)
    BY <1>1 DEF Budget, Free, MaxBurst, GrantsSince
  <2>1. CASE j # k
    <3>1. \A h \in grants' : h \notin grants => h.key # j BY <1>4, <2>1
    <3> QED BY <1>1, <1>3, <1>4, <2>1, <3>1, BudgetFrame
  <2>2. CASE j = k
    <3>1. /\ Content(k)' = Left(k)
          /\ Granted(k) => Left(k) = Content(k) - TokenUnits
          /\ ~Granted(k) => Left(k) = Content(k)
      BY <1>1, <2>2, AllowContent DEF IInv
    <3>2. Content(k) \in Int BY <2>2, ContentBounds DEF IInv
    <3>3. TokenUnits * Cardinality(GrantsSince(k, from)) + Content(k)
             <= MaxBurst(k) + Rate[k[1]] * (clock - from)
      BY <2>2 DEF IInv, Budget
    <3>4. IsFiniteSet(GrantsSince(k, from)) /\ Cardinality(GrantsSince(k, from)) \in Nat
      BY GrantsFinite DEF IInv, GrantsPast
    <3>5. CASE ~Granted(k)
      <4>1. GrantsSince(k, from)' = GrantsSince(k, from) BY <1>4, <3>5 DEF GrantsSince
      <4> QED BY <1>1, <2>2, <3>1, <3>3, <3>5, <4>1
    <3>6. CASE Granted(k)
      <4>1. GrantsSince(k, from)' = GrantsSince(k, from) \cup {g}
        BY <1>2, <1>4, <3>6 DEF GrantsSince
      <4>2. Cardinality(GrantsSince(k, from)') \in
               {Cardinality(GrantsSince(k, from)), Cardinality(GrantsSince(k, from)) + 1}
        BY <3>4, <4>1, FS_AddElement
      <4> DEFINE n == Cardinality(GrantsSince(k, from))
                 bound == MaxBurst(k) + Rate[k[1]] * (clock - from)
      <4>3. bound \in Int
        <5>1. \A a, b \in Int : a * b \in Int OBVIOUS
        <5>2. Rate[k[1]] \in Int /\ clock - from \in Int /\ MaxBurst(k) \in Int
          BY <1>2, KeyTypes
        <5> QED BY <5>1, <5>2
      <4>4. /\ n \in Nat /\ TokenUnits \in Nat /\ TokenUnits * n \in Nat
            /\ TokenUnits * (n + 1) = TokenUnits * n + TokenUnits
        BY <3>4
      <4>5. Content(k)' = Content(k) - TokenUnits BY <3>1, <3>6
      <4> HIDE DEF n, bound
      <4>6. TokenUnits * n + Content(k) <= bound BY <3>3 DEF n, bound
      <4>7. Cardinality(GrantsSince(k, from)') \in {n, n + 1} BY <4>2 DEF n
      <4>8. TokenUnits * Cardinality(GrantsSince(k, from)') + Content(k)' <= bound
        BY <3>2, <4>3, <4>4, <4>5, <4>6, <4>7
      <4> QED BY <1>1, <2>2, <4>8 DEF bound
    <3> QED BY <3>5, <3>6
  <2> QED BY <2>1, <2>2
<1>8. \A h \in grants' \ grants : h.at = clock' BY <1>1, <1>4
<1> QED BY <1>1, <1>4, <1>5, <1>6, <1>7, <1>8, RateBoundStep

\* A bucket that Cleanup removes had been full for a while.
LEMMA CleanupStep ==
  ASSUME IInv, SoundConfig, TypeOK', Cleanup
  PROVE  NoDebt' /\ GrantsPast' /\ Budget' /\ RateBound'
<1>1. clock' = clock /\ grants' = grants /\ clock \in Nat BY DEF Cleanup, IInv, TypeOK
<1>2. \A k \in Keys : buckets'[k] \in {buckets[k], Null} BY DEF Cleanup
<1>3. NoDebt' BY <1>2 DEF NoDebt, IInv, Free
<1>4. GrantsPast' BY <1>1 DEF IInv, GrantsPast
<1>5. ASSUME NEW k \in Keys, ~Free(k) PROVE Content(k)' = Content(k)
  <2>1. CASE buckets'[k] = buckets[k] BY <1>1, <2>1 DEF Content, Refilled, MaxBurst
  <2>2. CASE buckets'[k] # buckets[k]
    <3>1. buckets'[k] = Null /\ buckets[k] # Null /\ buckets[k].lastFill < clock - CleanupTicks
      BY <2>2 DEF Cleanup
    <3>2. buckets[k] \in Bucket BY <3>1 DEF IInv, TypeOK
    <3>3. buckets[k].tokens \in Nat /\ buckets[k].lastFill \in Nat
      BY <1>5, <3>1, <3>2 DEF Bucket, IInv, NoDebt
    <3>4. Rate[k[1]] \in Nat /\ MaxBurst(k) \in Nat /\ MaxBurst(k) = BurstTicks * Rate[k[1]]
      BY KeyTypes
    <3>5. CleanupTicks >= BurstTicks BY DEF SoundConfig, Cleanup
    <3> DEFINE idle == clock - buckets[k].lastFill
    <3>6. idle \in Nat /\ idle >= BurstTicks BY <1>1, <3>1, <3>3, <3>5
    <3>7. \A x, y, z \in Nat : x >= y => z * x >= y * z /\ z * x \in Nat OBVIOUS
    <3>8. Rate[k[1]] * idle >= MaxBurst(k) /\ Rate[k[1]] * idle \in Nat
      <4> HIDE DEF idle
      <4>1. Rate[k[1]] * idle >= BurstTicks * Rate[k[1]] /\ Rate[k[1]] * idle \in Nat
        <5>1. BurstTicks \in Nat OBVIOUS
        <5> QED BY ONLY <3>4, <3>6, <3>7, <5>1
      <4> QED BY <3>4, <4>1
    <3>9. Refilled(k, clock) = MaxBurst(k) BY <3>3, <3>4, <3>8 DEF Refilled
    <3> QED BY <3>1, <3>9 DEF Content, MaxBurst
  <2> QED BY <2>1, <2>2
<1>6. Budget' BY <1>1, <1>5 DEF IInv, Budget, Free, MaxBurst, GrantsSince
<1> QED BY <1>1, <1>3, <1>4, <1>6, RateBoundStep

\* A tick adds at most the rate to what a key could spend.
LEMMA TickStep ==
  ASSUME IInv, SoundConfig, TypeOK', Tick
  PROVE  NoDebt' /\ GrantsPast' /\ Budget' /\ RateBound'
<1>1. clock' = clock + 1 /\ grants' = grants /\ buckets' = buckets /\ clock \in Nat
  BY DEF Tick, IInv, TypeOK
<1>2. NoDebt' BY <1>1 DEF NoDebt, IInv, Free
<1>3. GrantsPast'
  <2>1. \A g \in grants : g.at \in Nat /\ g.at <= clock BY DEF IInv, GrantsPast, TypeOK, Grant
  <2> QED BY <1>1, <2>1 DEF IInv, GrantsPast
<1>4. ASSUME NEW k \in Keys, ~Free(k)
      PROVE  /\ Content(k)' \in Int /\ Content(k)' <= MaxBurst(k)
             /\ Content(k)' <= Content(k) + Rate[k[1]]
  <2>1. Rate[k[1]] \in Nat /\ MaxBurst(k) \in Nat BY KeyTypes
  <2>2. CASE buckets[k] = Null BY <1>1, <2>1, <2>2 DEF Content, MaxBurst
  <2>3. CASE buckets[k] # Null
    <3> DEFINE b == buckets[k]
               earned == Rate[k[1]] * (clock - b.lastFill)
    <3>1. b.tokens \in Int /\ b.lastFill \in Nat BY <2>3 DEF IInv, TypeOK, Bucket
    <3>2. earned \in Int
      <4>1. \A x, y \in Int : x * y \in Int OBVIOUS
      <4> QED BY <1>1, <2>1, <3>1, <4>1
    <3>3. Content(k) = IF b.tokens + earned > MaxBurst(k) THEN MaxBurst(k) ELSE b.tokens + earned
      BY <2>3 DEF Content, Refilled
    <3> DEFINE c == buckets'[k]
               more == Rate[k[1]] * (clock' - c.lastFill)
    <3>4. Content(k)' = IF c.tokens + more > MaxBurst(k) THEN MaxBurst(k) ELSE c.tokens + more
      BY <1>1, <2>3 DEF Content, Refilled, MaxBurst
    <3>5. c.tokens = b.tokens /\ c.lastFill = b.lastFill BY <1>1
    <3>6. more = earned + Rate[k[1]]
      <4>1. \A x, y, z \in Int : x * (y + 1 - z) = x * (y - z) + x OBVIOUS
      <4>2. Rate[k[1]] \in Int /\ clock \in Int /\ b.lastFill \in Int
        BY <1>1, <2>1, <3>1
      <4>3. clock' = clock + 1 /\ c.lastFill = b.lastFill BY <1>1, <3>5
      <4>4. more = Rate[k[1]] * (clock + 1 - b.lastFill)
        <5> HIDE DEF b, c
        <5> QED BY <4>2, <4>3
      <4> HIDE DEF b
      <4> QED BY <4>1, <4>2, <4>4
    <3> HIDE DEF b, c, earned, more
    <3> QED BY <2>1, <3>1, <3>2, <3>3, <3>4, <3>5, <3>6
  <2> QED BY <2>2, <2>3
<1>5. Budget'
  <2> SUFFICES ASSUME NEW k \in Keys, ~Free(k), NEW from \in 0..clock'
               PROVE  TokenUnits * Cardinality(GrantsSince(k, from)') + Content(k)'
                         <= MaxBurst(k) + Rate[k[1]] * (clock' - from)
    BY DEF Budget, Free, MaxBurst, GrantsSince
  <2>1. GrantsSince(k, from)' = GrantsSince(k, from) BY <1>1 DEF GrantsSince
  <2>2. Rate[k[1]] \in Nat /\ MaxBurst(k) \in Nat BY KeyTypes
  <2>3. CASE from = clock'
    <3>1. \A g \in grants : g.at \in Nat /\ g.at <= clock BY DEF IInv, GrantsPast, TypeOK, Grant
    <3>2. GrantsSince(k, from) = {} BY <1>1, <2>3, <3>1 DEF GrantsSince
    <3>3. Cardinality(GrantsSince(k, from)') = 0 BY <2>1, <3>2, FS_EmptySet
    <3>4. Rate[k[1]] * (clock' - from) = 0 BY <1>1, <2>2, <2>3
    <3>5. TokenUnits * Cardinality(GrantsSince(k, from)') = 0 BY <3>3
    <3> QED BY <1>4, <2>2, <3>4, <3>5
  <2>4. CASE from # clock'
    <3>1. from \in 0..clock BY <1>1, <2>4
    <3>2. TokenUnits * Cardinality(GrantsSince(k, from)) + Content(k)
             <= MaxBurst(k) + Rate[k[1]] * (clock - from)
      BY <3>1 DEF IInv, Budget
    <3>3. Cardinality(GrantsSince(k, from)) \in Nat BY GrantsFinite DEF IInv, GrantsPast
    <3> DEFINE spent == TokenUnits * Cardinality(GrantsSince(k, from))
               earned == Rate[k[1]] * (clock - from)
    <3>4. spent \in Int /\ earned \in Int
      <4>1. \A x, y \in Int : x * y \in Int OBVIOUS
      <4> QED BY <1>1, <2>2, <3>1, <3>3, <4>1
    <3>5. Rate[k[1]] * (clock' - from) = earned + Rate[k[1]] BY <1>1, <2>2, <3>1
    <3>6. Content(k) \in Int BY ContentBounds DEF IInv
    <3> HIDE DEF spent, earned
    <3>7. spent + Content(k) <= MaxBurst(k) + earned BY <3>2 DEF spent, earned
    <3>8. spent + Content(k)' <= MaxBurst(k) + (earned + Rate[k[1]])
      BY <1>4, <2>2, <3>4, <3>6, <3>7
    <3> QED BY <2>1, <3>5, <3>8 DEF spent
  <2> QED BY <2>3, <2>4
<1> QED BY <1>1, <1>2, <1>3, <1>5, RateBoundStep

\* Every step keeps the inductive invariant.
LEMMA StepIInv ==
  ASSUME IInv, SoundConfig, [Next]_vars
  PROVE  IInv'
<1>1. TypeOK' /\ Submitted' BY TypeStep DEF IInv
<1>2. NoDebt' /\ GrantsPast' /\ Budget' /\ RateBound'
  <2>1. ASSUME NEW m \in Messages, CheckAgent(m)
        PROVE  NoDebt' /\ GrantsPast' /\ Budget' /\ RateBound'
    <3>1. pc[m] = "agent" BY <2>1 DEF CheckAgent, Check
    <3>2. <<"agent", msg[m].from>> \in Keys BY <3>1, CheckedKey DEF IInv
    <3> QED BY <1>1, <2>1, <3>2, CheckStep DEF CheckAgent, Dimensions
  <2>2. ASSUME NEW m \in Messages, CheckGroup(m)
        PROVE  NoDebt' /\ GrantsPast' /\ Budget' /\ RateBound'
    <3>1. pc[m] = "group" BY <2>2 DEF CheckGroup, Check
    <3>2. <<"group", msg[m].to>> \in Keys BY <3>1, CheckedKey DEF IInv
    <3> QED BY <1>1, <2>2, <3>2, CheckStep DEF CheckGroup, Dimensions
  <2>3. ASSUME NEW m \in Messages, CheckTag(m)
        PROVE  NoDebt' /\ GrantsPast' /\ Budget' /\ RateBound'
    <3>1. pc[m] = "tag" BY <2>3 DEF CheckTag, Check
    <3>2. <<"tag", msg[m].tag>> \in Keys BY <3>1, CheckedKey DEF IInv
    <3> QED BY <1>1, <2>3, <3>2, CheckStep DEF CheckTag, Dimensions
  <2>4. CASE Cleanup BY <1>1, <2>4, CleanupStep
  <2>5. CASE Tick BY <1>1, <2>5, TickStep
  <2>6. ASSUME UNCHANGED <<buckets, clock, grants>>
        PROVE  NoDebt' /\ GrantsPast' /\ Budget' /\ RateBound'
    BY <2>6 DEF IInv, NoDebt, GrantsPast, Budget, RateBound, Free, MaxBurst,
                GrantsSince, GrantsIn, Content, Refilled
  <2>7. ASSUME NEW m \in Messages, NEW from \in Senders, NEW to \in Targets,
               NEW prefixed \in BOOLEAN, NEW tag \in Tags, Submit(m, from, to, prefixed, tag)
        PROVE  UNCHANGED <<buckets, clock, grants>>
    BY <2>7 DEF Submit
  <2>8. ASSUME NEW m \in Messages, Persist(m) PROVE UNCHANGED <<buckets, clock, grants>>
    BY <2>8 DEF Persist
  <2>9. CASE UNCHANGED vars BY <2>6, <2>9 DEF vars
  <2> QED BY <2>1, <2>2, <2>3, <2>4, <2>5, <2>6, <2>7, <2>8, <2>9 DEF Next, Gate, Idle
<1> QED BY <1>1, <1>2 DEF IInv

\* The invariant holds in the empty limiter.
LEMMA InitIInv == ASSUME SoundConfig, Init PROVE IInv
<1>1. TypeOK /\ Submitted /\ NoDebt BY DEF Init, TypeOK, Submitted, NoDebt, Dimensions
<1>2. IsFiniteSet(grants) /\ GrantsPast BY FS_EmptySet DEF Init, GrantsPast
<1>3. ASSUME NEW k \in Keys, NEW from \in 0..clock, NEW until \in 0..clock, ~Free(k), from <= until
      PROVE  /\ TokenUnits * Cardinality(GrantsSince(k, from)) + Content(k)
                    <= MaxBurst(k) + Rate[k[1]] * (clock - from)
             /\ TokenUnits * Cardinality(GrantsIn(k, from, until))
                    <= MaxBurst(k) + Rate[k[1]] * (until - from)
  <2>1. GrantsSince(k, from) = {} /\ GrantsIn(k, from, until) = {}
    BY DEF Init, GrantsSince, GrantsIn
  <2>2. Content(k) = MaxBurst(k) BY DEF Init, Content
  <2>3. Rate[k[1]] \in Nat /\ MaxBurst(k) \in Nat BY KeyTypes
  <2>4. clock = 0 /\ from = 0 /\ until = 0 BY <1>3 DEF Init
  <2>5. TokenUnits * 0 = 0 /\ Rate[k[1]] * (clock - from) = 0 /\ Rate[k[1]] * (until - from) = 0
    BY <2>3, <2>4
  <2> QED BY <2>1, <2>2, <2>3, <2>5, FS_EmptySet
<1>4. Budget /\ RateBound
  <2>1. clock \in 0..clock /\ \A f \in 0..clock : f <= clock BY DEF Init
  <2> QED BY <1>3, <2>1 DEF Budget, RateBound
<1> QED BY <1>1, <1>2, <1>4 DEF IInv

\* Under a sound configuration the inductive invariant always holds.
THEOREM Invariance == SoundConfig => (Spec => []IInv)
<1> SUFFICES ASSUME SoundConfig PROVE Spec => []IInv OBVIOUS
<1>1. Init => IInv BY InitIInv
<1>2. IInv /\ [Next]_vars => IInv' BY StepIInv
<1> QED BY <1>1, <1>2, PTL DEF Spec

\* Whatever the configuration, every bucket is well formed: it is never filled
\* above its burst nor dated in the future (Allow, Cleanup).
THEOREM TypeCorrect == Spec => []TypeOK
<1>1. Init => TypeOK /\ Submitted
  BY DEF Init, TypeOK, Submitted, Dimensions
<1>2. TypeOK /\ Submitted /\ [Next]_vars => (TypeOK /\ Submitted)'
  BY TypeStep
<1> QED BY <1>1, <1>2, PTL DEF Spec

\* Allow and Cleanup keep every key within its burst plus what its rate earns,
\* in every window of time, for any number of messages, keys and ticks.
THEOREM RateIsBounded == SoundConfig => (Spec => []RateBound)
<1>1. IInv => RateBound BY DEF IInv
<1> QED BY <1>1, Invariance, PTL

\* A refused key that stays quiet for the burst window is served again.
THEOREM RefusalsEnd == SoundConfig => (Spec => []RefusalIsTemporary)
<1> SUFFICES ASSUME SoundConfig PROVE Spec => []RefusalIsTemporary OBVIOUS
<1>1. IInv => RefusalIsTemporary
  <2> HAVE IInv
  <2> SUFFICES ASSUME NEW k \in Keys, ~Free(k), buckets[k] # Null
               PROVE  Refilled(k, clock + BurstTicks) >= TokenUnits
    BY DEF RefusalIsTemporary
  <2>1. Rate[k[1]] \in Nat /\ MaxBurst(k) \in Nat /\ MaxBurst(k) >= TokenUnits
    BY LimitedKey
  <2>2. MaxBurst(k) = BurstTicks * Rate[k[1]] BY KeyTypes
  <2>3. buckets[k].tokens \in Nat /\ buckets[k].lastFill \in Nat /\ clock \in Nat
        /\ buckets[k].lastFill <= clock
    BY DEF IInv, TypeOK, NoDebt, Bucket
  <2> DEFINE idle == clock + BurstTicks - buckets[k].lastFill
  <2>4. idle \in Nat /\ idle >= BurstTicks BY <2>3
  <2>5. \A x, y, z \in Nat : x >= y => z * x >= y * z /\ z * x \in Nat OBVIOUS
  <2>6. Rate[k[1]] * idle >= MaxBurst(k) /\ Rate[k[1]] * idle \in Nat
    <3> HIDE DEF idle
    <3>1. Rate[k[1]] * idle >= BurstTicks * Rate[k[1]] /\ Rate[k[1]] * idle \in Nat
      <4>1. BurstTicks \in Nat OBVIOUS
      <4> QED BY ONLY <2>1, <2>4, <2>5, <4>1
    <3> QED BY <2>2, <3>1
  <2> QED BY <2>1, <2>3, <2>6 DEF Refilled
<1>2. Spec => []IInv BY Invariance
<1> QED BY <1>1, <1>2, PTL
=============================================================================
