------------------------------- MODULE Polling -------------------------------
(***************************************************************************)
(* Reading a conversation by polling: GET /v1/messages/poll and the query  *)
(* behind it, used by a client that comes back for what is new.  Messages  *)
(* are stamped (in whole seconds) when their request arrives and stored    *)
(* later, so they may be stored in another order than they were stamped,   *)
(* and their UUIDs are random, so they are in no order at all.             *)
(*                                                                         *)
(* The endpoint keeps nothing; what a client remembers between two calls   *)
(* is its newest row, which it sends back as since_ts, as since_id, or not *)
(* at all.                                                                 *)
(***************************************************************************)
EXTENDS Integers, FiniteSets

CONSTANTS
    Messages,       \* the messages sent to the conversation in a behaviour
    Uuids,          \* their UUIDs, as numbers: only the order matters
    Cursors,        \* how the client may continue: subset of {"all", "ts", "id"}
    Limits,         \* page sizes a client may ask for; 50 if it names none
    MaxClock,       \* bound on the clock, in seconds
    Null

ASSUME PollingAssumption ==
    /\ Uuids \subseteq Nat
    /\ Cursors \subseteq {"all", "ts", "id"}
    /\ Limits \subseteq Nat \ {0}
    /\ MaxClock \in Nat

VARIABLES
    rows,       \* message -> its timestamp and id, or Null while not sent
    stored,     \* the messages that are in the table
    clock,      \* the wall clock, in seconds
    cursor,     \* how the client continues
    limit,      \* the page size it asks for
    last,       \* the newest row the client has seen, or Null
    received,   \* the messages the client has been given
    cut,        \* history: the messages that matched and did not fit on a page
    late        \* history: the messages stored behind the client's position

vars == <<rows, stored, clock, cursor, limit, last, received, cut, late>>

Row == [ts : Nat, id : Uuids]

ASSUME NullAssumption == Null \notin Row \cup Messages

TypeOK ==
    /\ rows \in [Messages -> Row \cup {Null}]
    /\ stored \subseteq Messages
    /\ clock \in Nat
    /\ cursor \in Cursors
    /\ limit \in Limits
    /\ last \in Messages \cup {Null}
    /\ received \subseteq stored
    /\ cut \subseteq stored
    /\ late \subseteq stored

Init ==
    /\ rows = [m \in Messages |-> Null]
    /\ stored = {}
    /\ clock = 0
    /\ cursor \in Cursors
    /\ limit \in Limits
    /\ last = Null
    /\ received = {}
    /\ cut = {}
    /\ late = {}

-----------------------------------------------------------------------------
(* The query.                                                              *)

\* Mutant: the clauses "IS NULL OR" are forgotten.
AfterPositionNull(m) ==
    /\ last # Null
    /\ \/ cursor = "ts" /\ rows[m].ts > rows[last].ts
       \/ cursor = "id" /\ rows[m].id > rows[last].id

\* "timestamp" > since_ts, or id > since_id; a missing parameter matches.
AfterPosition(m) ==
    \/ cursor = "all"
    \/ last = Null
    \/ cursor = "ts" /\ rows[m].ts > rows[last].ts
    \/ cursor = "id" /\ rows[m].id > rows[last].id

Matches == {m \in stored : AfterPosition(m)}

\* ORDER BY "timestamp": no row of the page is older than one left out.
NewestFirst(page) == \A m \in page, n \in Matches \ page : rows[m].ts >= rows[n].ts

\* Mutant: the page is one row short.
PageSizeShort(n) == IF n > limit THEN limit ELSE n - 1

\* LIMIT, for n rows that match.
PageSize(n) == IF n > limit THEN limit ELSE n

\* The pages that the query may return: rows of one second come in any order.
Pages ==
    {page \in SUBSET Matches :
        /\ Cardinality(page) = PageSize(Cardinality(Matches))
        /\ NewestFirst(page)}

\* The rows that may come first on a page.
FirstRows(page) == {m \in page : \A n \in page : rows[m].ts >= rows[n].ts}

-----------------------------------------------------------------------------
(* Steps.                                                                  *)

\* handleSendMessage draws the id and takes the time.
Stamp(m) ==
    /\ rows[m] = Null
    /\ \E id \in Uuids :
          /\ \A n \in Messages : rows[n] # Null => rows[n].id # id
          /\ rows' = [rows EXCEPT ![m] = [ts |-> clock, id |-> id]]
    /\ UNCHANGED <<stored, clock, cursor, limit, last, received, cut, late>>

\* Messages.Save commits, some time later.
Save(m) ==
    /\ rows[m] # Null
    /\ m \notin stored
    /\ stored' = stored \cup {m}
    /\ late' = IF AfterPosition(m) THEN late ELSE late \cup {m}
    /\ UNCHANGED <<rows, clock, cursor, limit, last, received, cut>>

\* One call of handlePollMessages; the client remembers the first row, if any.
Poll ==
    /\ \E page \in Pages :
          /\ received' = received \cup page
          /\ IF page = {} THEN last' = last ELSE last' \in FirstRows(page)
          /\ cut' = IF Cardinality(Matches) > limit THEN cut \cup (Matches \ page) ELSE cut
    /\ UNCHANGED <<rows, stored, clock, cursor, limit, late>>

Tick ==
    /\ clock < MaxClock
    /\ clock' = clock + 1
    /\ UNCHANGED <<rows, stored, cursor, limit, last, received, cut, late>>

Next == (\E m \in Messages : Stamp(m) \/ Save(m)) \/ Poll \/ Tick

Spec == Init /\ [][Next]_vars

\* An accepted message is stored, and the client keeps polling.
FairSpec == Spec /\ (\A m \in Messages : WF_vars(Save(m))) /\ WF_vars(Poll)

-----------------------------------------------------------------------------
(* Correctness properties.                                                 *)

\* A stored message that the client was not given and that is behind its
\* position, so that no later page has it, was itself stored too late or itself
\* did not fit on a full page: nothing else is ever skipped, whatever the order
\* of stamps, commits and ids (GetByConversation).
MissedIsExplained ==
    \A m \in stored \ received : ~AfterPosition(m) => m \in late \cup cut

\* A client that asks for everything is given every stored message, as long as
\* the conversation fits in one page.
EverythingArrives ==
    \A m \in Messages :
        m \in stored /\ cursor = "all" /\ Cardinality(Messages) <= limit
            ~> m \in received

-----------------------------------------------------------------------------
(* What the repository's documents promise.                                *)

\* design-spec.md, Private Chats: "At-least-once delivery guaranteed.
\* Messages are buffered by the Backend until the recipient acknowledges
\* receipt via polling."
AtLeastOnce == \A m \in Messages : m \in stored ~> m \in received
=============================================================================
