------------------------------- MODULE Bridge -------------------------------
(***************************************************************************)
(* A thread of messages that crosses the adapters: a client sends or a     *)
(* peer has a message ingested; from then on the newest message is         *)
(* replayed, relayed (some installation emits it over a protocol and the   *)
(* next one ingests it), or, if it is a request, emitted and answered.     *)
(* The server itself calls Ingest; Emit is the other half of the Adapter   *)
(* contract, called by whoever bridges to a peer.                          *)
(*                                                                         *)
(* Message n of the thread has the id n.  A message that the limiter or    *)
(* the persistence layer refuses is not in the thread; an ingested one has *)
(* to come with an agent's credentials and a target id, because the        *)
(* synthetic sender and "broadcast" are not UUIDs.                         *)
(***************************************************************************)
EXTENDS Adapters

CONSTANTS
    SendTags,       \* tags that clients of /v1/messages/send use
    SendContents,   \* contents they use
    SendMetas,      \* metadata they use
    MaxThread       \* bound on the length of a thread

\* An id under _task_id or _stream_id that is empty counts as absent.
ASSUME BridgeAssumption ==
    /\ SendTags \subseteq Seq(STRING)
    /\ SendContents \subseteq Contents
    /\ SendMetas \subseteq Meta
    /\ \A meta \in SendMetas : /\ meta.requestId \in {Absent, Blank, PeerId}
                              /\ meta.taskId \in {Absent, PeerId}
    /\ MaxThread \in Nat \ {0}

VARIABLE thread     \* the rows of messages, oldest first

\* How a message came to be stored.
Origins == {"sent", "replayed"} \cup Protocols

\* source is metadata.adapter.source_id, answers the id of the wire message that
\* the thread's answer replied to.
Stored(env, source, via, answers) ==
    [id |-> Len(thread) + 1, tag |-> env.tag, meta |-> env.meta,
     content |-> env.content, source |-> source, via |-> via, answers |-> answers]

Newest == thread[Len(thread)]

Append1(m) == thread' = Append(thread, m)

TypeOK ==
    /\ Len(thread) <= MaxThread
    /\ \A n \in 1..Len(thread) :
          /\ thread[n].id = n
          /\ thread[n].via \in Origins
          /\ thread[n].content \in Contents
          /\ Validate(thread[n])
          /\ thread[n].meta.requestId \in {Absent, Blank, PeerId} \cup 1..n
          /\ thread[n].meta.taskId \in {Absent, PeerId} \cup 1..n

Init == thread = <<>>

\* Mutant: the envelope is not validated.
SendUnvalidated(tag, content, meta) ==
    /\ thread = <<>>
    /\ tag # <<>>
    /\ Append1(Stored([tag |-> tag, meta |-> meta, content |-> content],
                      Absent, "sent", Absent))

\* handleSendMessage: a tag is required, the metadata is the client's own.
Send(tag, content, meta) ==
    /\ thread = <<>>
    /\ tag # <<>>
    /\ LET env == [tag |-> tag, meta |-> meta, content |-> content]
       IN  Validate(env) /\ Append1(Stored(env, Absent, "sent", Absent))

\* handleAdapterIngest.
AdapterIngest(w) ==
    /\ thread = <<>>
    /\ Ingest(w) # Refused
    /\ Append1(Stored(Ingest(w), SourceId(w), w.proto, Absent))

CanGrow == thread # <<>> /\ Len(thread) < MaxThread

\* Mutant: the tag column is not copied into the metadata.
ReplayedMetaUntagged(m) == m.meta

\* Metadata is copied, and _tag overwritten with the original's Tag if it has
\* one; Tag itself stays empty.
ReplayedMeta(m) == IF m.tag = <<>> THEN m.meta ELSE [m.meta EXCEPT !.tag = m.tag]

\* handleReplayMessage; the envelope is not validated again.
Replay ==
    /\ CanGrow
    /\ Append1(Stored([tag |-> <<>>, meta |-> ReplayedMeta(Newest),
                       content |-> Newest.content],
                      Newest.source, "replayed", Newest.answers))

\* Emit, transport, Ingest at the next installation.
Relay(proto) ==
    /\ CanGrow
    /\ LET w == Emit(proto, Newest)
       IN  /\ w \notin {Refused, Panic}
           /\ Ingest(w) # Refused
           /\ Append1(Stored(Ingest(w), SourceId(w), proto, Newest.answers))

\* What a peer that received w may answer: the JSON-RPC id or the request id
\* comes back; a task id is the message's, or one the peer makes up.
AnswersTo(w) ==
    LET reply == {r \in Wires : r.proto = w.proto}
    IN  CASE w.proto = "mcp" ->
               {[r EXCEPT !.id = w.id] : r \in {q \in reply : q.method = Absent}}
          [] w.proto = "a2a" ->
               {[r EXCEPT !.id = w.id, !.taskId = Or(w.taskId, PeerId)] :
                  r \in {q \in reply : q.method = "task/update"}}
          [] w.proto = "grpc" ->
               {[r EXCEPT !.id = w.id] :
                  r \in {q \in reply : q.type = "unary" /\ q.status # Absent}}

\* A request is emitted and its answer ingested.
Answer(proto) ==
    /\ CanGrow
    /\ RequiresResponse(EffectiveTag(Newest))
    /\ LET w == Emit(proto, Newest)
       IN  /\ w \notin {Refused, Panic}
           /\ \E r \in AnswersTo(w) :
                 /\ Ingest(r) # Refused
                 /\ Append1(Stored(Ingest(r), SourceId(r), proto, w.id))

\* The thread may end anywhere.
Rest == thread # <<>> /\ UNCHANGED thread

Next ==
    \/ \E tag \in SendTags, content \in SendContents, meta \in SendMetas :
          Send(tag, content, meta)
    \/ \E w \in Wires : AdapterIngest(w)
    \/ Replay
    \/ \E proto \in Protocols : Relay(proto) \/ Answer(proto)
    \/ Rest

Spec == Init /\ [][Next]_thread

-----------------------------------------------------------------------------
(* Correctness properties.                                                 *)

\* Message n continues message n - 1: it is not the answer to it.
Continues(n) == n > 1 /\ thread[n].answers = thread[n - 1].answers

\* Along any sequence of replays and relays a message keeps its tag; only a
\* request that crosses A2A may turn from action to data or back, because its
\* words decide, and every kind of progress arrives as progress.update
\* (EffectiveTag, the three Emits and Ingests, the _tag of replay).
TagsSurvive ==
    \A n \in 2..Len(thread) : Continues(n) =>
        LET old == EffectiveTag(thread[n - 1])
            new == EffectiveTag(thread[n])
        IN  \/ new = old
            \/ /\ thread[n].via = "a2a"
               /\ RequiresResponse(old)
               /\ new \in {RequestAction, RequestData}
            \/ /\ thread[n].via \in {"a2a", "grpc"}
               /\ ParseTagFamily(old) = "progress"
               /\ new = ProgressUpdate

\* d is the whole number next to the fraction c, on the side of zero.
Truncates(c, d) ==
    /\ IsNumber(c) /\ c % 2 = 1
    /\ d = c - 1 \/ d = c + 1
    /\ c > 0 <=> d < c

\* Every adapter can pass the message on.
Portable(m) == \A proto \in Protocols : Emit(proto, m) # Refused

\* An error keeps the value of its code and its message across replays and
\* relays: MCP and gRPC alone drop the fraction of a code, and A2A alone fills in
\* what is missing.  An error that every adapter can pass on stays one, so that
\* no relay leads it to an adapter that refuses it (parseErrorCode,
\* ingestTaskUpdate's defaults).
ErrorDetailsSurvive ==
    \A n \in 2..Len(thread) : Continues(n) /\ EffectiveTag(thread[n]) = ResponseError =>
        LET old == thread[n - 1].meta
            new == thread[n].meta
        IN  /\ \/ new.code = old.code
               \/ thread[n].via = "a2a" /\ old.code = Absent
               \/ thread[n].via \in {"mcp", "grpc"} /\ Truncates(old.code, new.code)
            /\ \/ new.message = old.message
               \/ thread[n].via = "a2a" /\ ~Given(old.message)
            /\ Portable(thread[n - 1]) => Portable(thread[n])

\* The messages from the thread's answer, or from its start, up to message n.
Since(n) == {k \in 1..n : \A j \in k..n : thread[j].answers = thread[n].answers}

\* The answer to a request names the id the request was emitted with, unless
\* the client itself made that id empty.  It names it in adapter.source_id, over
\* whatever protocol it arrived and however often it is replayed and relayed, up
\* to and including its first hop over A2A; until then it names it in
\* _request_id as well.  If it arrived over MCP or gRPC, it names it in _task_id
\* from its first hop over A2A on, until it leaves A2A again.  Nothing is said of
\* an answer that arrived over A2A and is relayed on, or that crossed A2A and is
\* relayed over MCP or gRPC: those lose the id (requestIDForEmit, taskIDForEmit,
\* SetAdapterMetadata).
CorrelationSurvives ==
    \A n \in 1..Len(thread) : thread[n].answers \notin {Absent, Blank} =>
        LET via(proto) == {k \in Since(n) : thread[k].via = proto}
            hops  == UNION {via(proto) : proto \in Protocols}
            first == CHOOSE k \in Since(n) : \A j \in Since(n) : k <= j
        IN  /\ (\A k \in via("a2a"), j \in hops : j <= k)
               => thread[n].source = thread[n].answers
            /\ via("a2a") = {} => thread[n].meta.requestId = thread[n].answers
            /\ /\ via("a2a") # {}
               /\ thread[first].via # "a2a"
               /\ \A k \in via("mcp") \cup via("grpc"), j \in via("a2a") : k < j
               => thread[n].meta.taskId = thread[n].answers

\* What an adapter emits, the same adapter ingests, for every message a thread
\* can hold; the one exception is a success whose result is null, which MCP
\* emits as a message with neither method, result nor error.
EmittedIsAccepted ==
    \A n \in 1..Len(thread), proto \in Protocols :
        LET w == Emit(proto, thread[n])
        IN  w \notin {Refused, Panic} /\ Ingest(w) = Refused =>
              proto = "mcp" /\ thread[n].meta.result = "null"

\* No message that came in through an adapter makes an adapter panic, however it
\* was relayed or replayed since; a client's progress message with an object for
\* content does (grpc.go:285 writes to a nil map).
PanicOnlyOnSent ==
    \A n \in 1..Len(thread) :
        Emit("grpc", thread[n]) = Panic =>
            /\ \A k \in 1..n : thread[k].via \in {"sent", "replayed"}
            /\ thread[1].via = "sent"
=============================================================================
