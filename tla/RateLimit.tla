------------------------------ MODULE RateLimit ------------------------------
(***************************************************************************)
(* The token-bucket limiter (ratelimit.go) and the gate in front of the    *)
(* message store (publishAndAudit), which asks it up to three times per    *)
(* message.  Allow and Cleanup run under one mutex, so each call is one    *)
(* action; the calls of different messages interleave.                     *)
(*                                                                         *)
(* Tokens are rational numbers in the code.  Here they are counted in      *)
(* units: one message costs TokenUnits, and a bucket of dimension d gains  *)
(* Rate[d] units per clock tick.                                           *)
(***************************************************************************)
EXTENDS Integers, FiniteSets

CONSTANTS
    Messages,       \* the messages submitted in a behaviour
    Senders,        \* values of env.From
    Targets,        \* the ids a message may be addressed to
    Tags,           \* effective tags
    Rate,           \* dimension -> units per tick; 0 switches it off
    BurstTicks,     \* BurstFactor seconds, in ticks
    CleanupTicks,   \* CleanupSecs, in ticks
    TokenUnits,     \* the price of one message
    Enabled,        \* Config.Enabled
    Sweeps,         \* does anything call Cleanup?
    MaxClock,       \* bound on the clock
    Null

Dimensions == {"agent", "group", "tag"}

Keys == ({"agent"} \X Senders) \cup ({"group"} \X Targets) \cup ({"tag"} \X Tags)

ASSUME ConfigAssumption ==
    /\ Rate \in [Dimensions -> Nat]
    /\ BurstTicks \in Nat \ {0}
    /\ CleanupTicks \in Nat \ {0}
    /\ TokenUnits \in Nat \ {0}
    /\ MaxClock \in Nat
    /\ Enabled \in BOOLEAN
    /\ Sweeps \in BOOLEAN

VARIABLES
    buckets,    \* Limiter.buckets: key -> bucket, or Null
    clock,      \* the monotonic clock behind Limiter.now
    pc,         \* message -> the next check, or its fate
    msg,        \* message -> its envelope, or Null
    grants      \* history: the calls of Allow that returned true

vars == <<buckets, clock, pc, msg, grants>>

Bucket == [tokens : Int, lastFill : Nat]

Envelope == [from : Senders, to : Targets, prefixed : BOOLEAN, tag : Tags]

Grant == [msg : Messages, key : Keys, at : Nat]

ASSUME NullAssumption ==
    /\ Null \notin Bucket
    /\ Null \notin Envelope

\* maxBurst := BurstFactor * rate.
MaxBurst(k) == BurstTicks * Rate[k[1]]

TypeOK ==
    /\ buckets \in [Keys -> Bucket \cup {Null}]
    /\ \A k \in Keys : buckets[k] # Null =>
          /\ buckets[k].lastFill <= clock
          /\ buckets[k].tokens <= MaxBurst(k)
    /\ clock \in Nat
    /\ pc \in [Messages -> Dimensions \cup
                 {"idle", "persist", "stored", "limited", "error"}]
    /\ msg \in [Messages -> Envelope \cup {Null}]
    /\ grants \subseteq Grant

Init ==
    /\ buckets = [k \in Keys |-> Null]
    /\ clock = 0
    /\ pc = [m \in Messages |-> "idle"]
    /\ msg = [m \in Messages |-> Null]
    /\ grants = {}

-----------------------------------------------------------------------------
(* Limiter.Allow.                                                          *)

\* A disabled limiter or a rate of zero lets everything through.
Free(k) == ~Enabled \/ Rate[k[1]] = 0

\* The content of an existing bucket at time now.
Refilled(k, now) ==
    LET full == buckets[k].tokens + Rate[k[1]] * (now - buckets[k].lastFill)
    IN  IF full > MaxBurst(k) THEN MaxBurst(k) ELSE full

\* A first call always passes.
Granted(k) ==
    IF Free(k) \/ buckets[k] = Null THEN TRUE ELSE Refilled(k, clock) >= TokenUnits

\* Mutant: a refused call is debited too.
LeftDebited(k) ==
    IF buckets[k] = Null THEN MaxBurst(k) - TokenUnits
    ELSE Refilled(k, clock) - TokenUnits

\* Mutant: only the call that creates the bucket is debited.
LeftUndebited(k) ==
    IF buckets[k] = Null THEN MaxBurst(k) - TokenUnits ELSE Refilled(k, clock)

Left(k) ==
    IF buckets[k] = Null THEN MaxBurst(k) - TokenUnits
    ELSE IF Refilled(k, clock) >= TokenUnits
         THEN Refilled(k, clock) - TokenUnits
         ELSE Refilled(k, clock)

AfterAllow(k) ==
    IF Free(k) THEN buckets
    ELSE [buckets EXCEPT ![k] = [tokens |-> Left(k), lastFill |-> clock]]

\* One call of Allow by message m in dimension d; the gate goes on to next.
Check(m, d, name, next) ==
    /\ pc[m] = d
    /\ LET k == <<d, name>>
       IN  /\ buckets' = AfterAllow(k)
           /\ \/ /\ Granted(k)
                 /\ pc' = [pc EXCEPT ![m] = next]
                 /\ grants' = grants \cup {[msg |-> m, key |-> k, at |-> clock]}
              \/ /\ ~Granted(k)
                 /\ pc' = [pc EXCEPT ![m] = "limited"]
                 /\ grants' = grants
    /\ UNCHANGED <<clock, msg>>

-----------------------------------------------------------------------------
(* publishAndAudit.                                                        *)

\* A validated envelope arrives.  The address is a bare id, or an id behind
\* the prefix "group:".
Submit(m, from, to, prefixed, tag) ==
    /\ pc[m] = "idle"
    /\ msg' = [msg EXCEPT ![m] = [from |-> from, to |-> to, prefixed |-> prefixed,
                                  tag |-> tag]]
    /\ pc' = [pc EXCEPT ![m] = "agent"]
    /\ UNCHANGED <<buckets, clock, grants>>

CheckAgent(m) ==
    Check(m, "agent", msg[m].from, IF msg[m].prefixed THEN "group" ELSE "tag")

CheckGroup(m) == Check(m, "group", msg[m].to, "tag")

CheckTag(m) == Check(m, "tag", msg[m].tag, "persist")

\* persistMessage: uuid.Parse(env.To) fails on a prefixed address; any other
\* message is stored or fails further on.
Persist(m) ==
    /\ pc[m] = "persist"
    /\ \/ ~msg[m].prefixed /\ pc' = [pc EXCEPT ![m] = "stored"]
       \/ pc' = [pc EXCEPT ![m] = "error"]
    /\ UNCHANGED <<buckets, clock, msg, grants>>

-----------------------------------------------------------------------------

\* Limiter.Cleanup: buckets untouched for longer than CleanupSecs go.
Cleanup ==
    /\ Sweeps
    /\ buckets' = [k \in Keys |->
         IF buckets[k] # Null /\ buckets[k].lastFill < clock - CleanupTicks
         THEN Null ELSE buckets[k]]
    /\ UNCHANGED <<clock, pc, msg, grants>>

Tick ==
    /\ clock < MaxClock
    /\ clock' = clock + 1
    /\ UNCHANGED <<buckets, pc, msg, grants>>

\* Nothing more arrives and time is up.
Idle ==
    /\ \A m \in Messages : pc[m] \in {"stored", "limited", "error"}
    /\ UNCHANGED vars

Gate(m) == CheckAgent(m) \/ CheckGroup(m) \/ CheckTag(m) \/ Persist(m)

Next ==
    \/ \E m \in Messages :
          \/ \E from \in Senders, to \in Targets, prefixed \in BOOLEAN, tag \in Tags :
                Submit(m, from, to, prefixed, tag)
          \/ Gate(m)
    \/ Cleanup
    \/ Tick
    \/ Idle

Spec == Init /\ [][Next]_vars

-----------------------------------------------------------------------------
(* Correctness properties.                                                 *)

\* The calls for key k granted in the window from..until.
GrantsIn(k, from, until) ==
    {g \in grants : g.key = k /\ from <= g.at /\ g.at <= until}

\* In every window of time, one key is granted at most a burst plus what its
\* rate earns in the window: neither interleaved checks, nor refusals, nor the
\* removal and re-creation of a bucket let more through (Allow, Cleanup).
RateBound ==
    \A k \in Keys, from, until \in 0..clock :
        ~Free(k) /\ from <= until =>
            TokenUnits * Cardinality(GrantsIn(k, from, until))
                <= MaxBurst(k) + Rate[k[1]] * (until - from)

\* A refusal is never for ever: a key that stays quiet for the burst window is
\* served again, however often it was refused before (Allow debits only what
\* it grants).
RefusalIsTemporary ==
    \A k \in Keys : ~Free(k) /\ buckets[k] # Null =>
        Refilled(k, clock + BurstTicks) >= TokenUnits

-----------------------------------------------------------------------------
(* The argument behind RateBound, for every configuration that passes       *)
(* SoundConfig.                                                             *)

\* What the code expects of its configuration and does not check: a full
\* bucket pays for a message, and a swept bucket would have been full.
SoundConfig ==
    /\ \A d \in Dimensions : Rate[d] > 0 => BurstTicks * Rate[d] >= TokenUnits
    /\ Sweeps => CleanupTicks >= BurstTicks

\* What key k could spend now: a missing bucket is as good as a full one.
Content(k) == IF buckets[k] = Null THEN MaxBurst(k) ELSE Refilled(k, clock)

GrantsSince(k, from) == {g \in grants : g.key = k /\ from <= g.at}

\* What was spent since any moment and what is left to spend were either in
\* the bucket at that moment or earned since.
Budget ==
    \A k \in Keys, from \in 0..clock : ~Free(k) =>
        TokenUnits * Cardinality(GrantsSince(k, from)) + Content(k)
            <= MaxBurst(k) + Rate[k[1]] * (clock - from)

NoDebt == \A k \in Keys : ~Free(k) /\ buckets[k] # Null => buckets[k].tokens >= 0

GrantsPast == IsFiniteSet(grants) /\ \A g \in grants : g.at <= clock

Submitted == \A m \in Messages : pc[m] # "idle" => msg[m] # Null

IInv == TypeOK /\ Submitted /\ NoDebt /\ GrantsPast /\ Budget /\ RateBound

=============================================================================
