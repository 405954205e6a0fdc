---------------------------- MODULE MessageStore ----------------------------
(***************************************************************************)
(* What the messaging core promises its clients, without conversations,    *)
(* rosters, lookups or statements: a message submitted to a party or to a  *)
(* group is either refused or stored once and for ever in the one channel  *)
(* its sender and its addressee determine, where it becomes the channel's  *)
(* latest message in the same step.  Where answers can be lost, a message  *)
(* may be stored although its sender is told of an error or of nothing;    *)
(* that is settled in the step that ends the request, so a message that    *)
(* was refused and is not there never turns up later.                      *)
(***************************************************************************)

CONSTANTS
    Messages,   \* message ids
    Parties,    \* whoever can send, and whatever can be addressed
    Groups,     \* the addressees that are groups
    Lossy,      \* may an answer be lost once the message is stored?
    Null

VARIABLES
    submitted,  \* message -> [from, to], or Null before it is submitted
    refused,    \* the messages whose sender was not told "sent"
    filed,      \* message -> the channel it is stored in, or Null
    previews    \* the latest message of every channel that has one

storeVars == <<submitted, refused, filed, previews>>

\* The two parties of a direct message share one channel whoever writes; a
\* group is a channel of its own.
Channel(from, to) == IF to \in Groups THEN {to} ELSE {from, to}

Init ==
    /\ submitted = [m \in Messages |-> Null]
    /\ refused = {}
    /\ filed = [m \in Messages |-> Null]
    /\ previews = {}

Submit(m) ==
    /\ submitted[m] = Null
    /\ \E from, to \in Parties :
          submitted' = [submitted EXCEPT ![m] = [from |-> from, to |-> to]]
    /\ UNCHANGED <<refused, filed, previews>>

Pending(m) == submitted[m] # Null /\ filed[m] = Null /\ m \notin refused

File(m) ==
    /\ Pending(m)
    /\ LET channel == Channel(submitted[m].from, submitted[m].to)
       IN  /\ filed' = [filed EXCEPT ![m] = channel]
           /\ previews' = {p \in previews : filed[p] # channel} \cup {m}
    /\ UNCHANGED submitted

Store(m) == File(m) /\ UNCHANGED refused

\* The message is stored and its sender does not learn of it.
StoreUnanswered(m) == Lossy /\ File(m) /\ refused' = refused \cup {m}

Refuse(m) ==
    /\ Pending(m)
    /\ refused' = refused \cup {m}
    /\ UNCHANGED <<submitted, filed, previews>>

Next == \E m \in Messages : Submit(m) \/ Store(m) \/ StoreUnanswered(m) \/ Refuse(m)

Spec == Init /\ [][Next]_storeVars
=============================================================================
