---------------------------- MODULE BridgeProofs -----------------------------
(* Proofs about Protocol, Adapters and Bridge, for every value of their    *)
(* constants.                                                              *)
EXTENDS Bridge, TLAPS

-----------------------------------------------------------------------------
(* What version negotiation computes, for every version.                   *)

\* CompareVersions is a total order on versions: comparing the other way round
\* gives the opposite answer, and only a version itself is the same.
THEOREM CompareIsAntisymmetric ==
    ASSUME NEW a \in Version, NEW b \in Version
    PROVE  /\ CompareVersions(a, b) \in {"older", "same", "newer"}
           /\ CompareVersions(a, b) = "older" <=> CompareVersions(b, a) = "newer"
           /\ CompareVersions(a, b) = "same" <=> a = b
<1>1. CompareVersions(a, b) \in {"older", "same", "newer"}
  BY DEF CompareVersions, Version
<1>2. CompareVersions(a, b) = "older" <=> CompareVersions(b, a) = "newer"
  BY DEF CompareVersions, Version
<1>3. CompareVersions(a, b) = "same" <=> a = b
  BY DEF CompareVersions, Version
<1> QED
  BY <1>1, <1>2, <1>3

\* A version older than one that is older than a third is older than the third.
THEOREM CompareIsTransitive ==
    ASSUME NEW a \in Version, NEW b \in Version, NEW c \in Version,
           CompareVersions(a, b) = "older", CompareVersions(b, c) = "older"
    PROVE  CompareVersions(a, c) = "older"
  BY DEF CompareVersions, Version

\* Requiring the same major number and no newer version than 1.0.0 leaves
\* 1.0.0 itself: a client that announces any other version is incompatible.
THEOREM OnlyOwnVersionIsCompatible ==
    ASSUME NEW v \in Version
    PROVE  IsCompatibleVersion(v) <=> v = ProtocolVersion
<1>1. ASSUME IsCompatibleVersion(v) PROVE v = ProtocolVersion
  BY <1>1 DEF IsCompatibleVersion, CompareVersions, ProtocolVersion, Version
<1>2. ASSUME v = ProtocolVersion PROVE IsCompatibleVersion(v)
  BY <1>2 DEF IsCompatibleVersion, CompareVersions, ProtocolVersion
<1> QED
  BY <1>1, <1>2

-----------------------------------------------------------------------------
(* The inductive invariant of Bridge.                                      *)

Message ==
    [id : Nat, tag : Seq(STRING), meta : Meta, content : Contents, source : Ids,
     via : Origins, answers : Ids]

\* A content that is a JSON object with something in it.
Filled == {"{message text}", "{message query}", "{other}"}

\* A progress message without an update but with an object for content.
PanicProne(m) ==
    /\ ParseTagFamily(EffectiveTag(m)) = "progress"
    /\ m.meta.update = Absent
    /\ m.content \in Filled

\* Only what a client sent, replayed at most, is prone to panic.
PanicInv ==
    \A n \in 1..Len(thread) : PanicProne(thread[n]) =>
        /\ \A k \in 1..n : thread[k].via \in {"sent", "replayed"}
        /\ thread[1].via = "sent"

\* An answer is never a request, so it is not answered itself.
AnswersAreFinal ==
    \A n \in 1..Len(thread) :
        thread[n].answers # Absent => ~RequiresResponse(EffectiveTag(thread[n]))

\* The first message since the answer.
IsFirst(f, n) == f \in Since(n) /\ \A j \in Since(n) : f <= j

\* Message n has not crossed A2A since the answer.
Unbridged(n) == \A k \in Since(n) : thread[k].via # "a2a"

\* A2A came last among the protocols that message n crossed since the answer.
A2aLast(n) ==
    \A k, j \in Since(n) : thread[k].via \in {"mcp", "grpc"} /\ thread[j].via = "a2a" => k < j

\* No hop of message n since the answer came after one over A2A.
SoleA2a(n) ==
    \A k, j \in Since(n) : thread[k].via = "a2a" /\ thread[j].via \in Protocols => j <= k

\* An answer that has not crossed A2A has no _task_id, which is why A2A takes the
\* _request_id for it.
Correlated(n) ==
    /\ \E f \in 1..n : IsFirst(f, n)
    /\ thread[n].answers \notin {Absent, Blank} =>
         /\ SoleA2a(n) => thread[n].source = thread[n].answers
         /\ Unbridged(n) => /\ thread[n].meta.requestId = thread[n].answers
                           /\ thread[n].meta.taskId = Absent
         /\ \A f \in 1..n :
              IsFirst(f, n) /\ thread[f].via # "a2a" /\ ~Unbridged(n) /\ A2aLast(n) =>
                  thread[n].meta.taskId = thread[n].answers

CorrelationInv == \A n \in 1..Len(thread) : Correlated(n)

\* The details of an error are kept, rounded towards zero by MCP and gRPC, or
\* filled in by A2A.
ErrorKept(old, new, via) ==
    EffectiveTag(new) = ResponseError =>
        /\ \/ new.meta.code = old.meta.code
           \/ via = "a2a" /\ old.meta.code = Absent
           \/ via \in {"mcp", "grpc"} /\ Truncates(old.meta.code, new.meta.code)
        /\ \/ new.meta.message = old.meta.message
           \/ via = "a2a" /\ ~Given(old.meta.message)

ErrorsKept ==
    \A n \in 2..Len(thread) :
        Continues(n) => ErrorKept(thread[n - 1], thread[n], thread[n].via)

IInv ==
    /\ thread \in Seq(Message)
    /\ TypeOK
    /\ PanicInv
    /\ AnswersAreFinal
    /\ TagsSurvive
    /\ ErrorsKept
    /\ CorrelationInv

-----------------------------------------------------------------------------
(* Tags.                                                                   *)

KnownTags ==
    {RequestData, RequestAction, ResponseSuccess, ResponseError, ContextProvide, ProgressUpdate}

\* The tags that the adapters set are valid.
LEMMA KnownAreValid ==
    ASSUME NEW t \in KnownTags
    PROVE  t \in Seq(STRING) /\ t # <<>> /\ t # Absent /\ IsValidTag(t)
<1>1. t \in Seq(STRING) /\ Len(t) > 0
  <2>1. \A S : \A u \in S, v \in S : <<u, v>> \in Seq(S) /\ Len(<<u, v>>) = 2
    OBVIOUS
  <2>2. \A S : \A u \in S : <<u>> \in Seq(S) /\ Len(<<u>>) = 1
    OBVIOUS
  <2>3. {"request", "response", "progress", "context-provide", "data", "action",
        "success", "error", "update"} \subseteq STRING
    BY TokensAssumption DEF TokensAssumption
  <2>4. RequestData \in Seq(STRING) /\ Len(RequestData) = 2
    BY <2>1, <2>3 DEF RequestData
  <2>5. RequestAction \in Seq(STRING) /\ Len(RequestAction) = 2
    BY <2>1, <2>3 DEF RequestAction
  <2>6. ResponseSuccess \in Seq(STRING) /\ Len(ResponseSuccess) = 2
    BY <2>1, <2>3 DEF ResponseSuccess
  <2>7. ResponseError \in Seq(STRING) /\ Len(ResponseError) = 2
    BY <2>1, <2>3 DEF ResponseError
  <2>8. ContextProvide \in Seq(STRING) /\ Len(ContextProvide) = 1
    BY <2>2, <2>3 DEF ContextProvide
  <2>9. ProgressUpdate \in Seq(STRING) /\ Len(ProgressUpdate) = 2
    BY <2>1, <2>3 DEF ProgressUpdate
  <2>10. \A k \in KnownTags : k \in Seq(STRING) /\ Len(k) \in {1, 2}
    BY <2>4, <2>5, <2>6, <2>7, <2>8, <2>9, Zenon DEF KnownTags
  <2> QED BY <2>10
<1>2. t # Absent BY <1>1, TokensAssumption DEF TokensAssumption
<1>3. \A i \in 1..Len(t) : t[i] \in Tokens
  <2>1. \A u \in Tokens, v \in Tokens :
           LET pair == <<u, v>>
           IN  \A i \in 1..Len(pair) : pair[i] \in Tokens
    OBVIOUS
  <2>2. \A u \in Tokens : \A i \in 1..Len(<<u>>) : <<u>>[i] \in Tokens
    OBVIOUS
  <2>3. {"request", "response", "progress", "context-provide", "data", "action",
        "success", "error", "update"} \subseteq Tokens
    BY TokensAssumption DEF TokensAssumption
  <2>4. \A i \in 1..Len(RequestData) : RequestData[i] \in Tokens
    BY <2>1, <2>3 DEF RequestData
  <2>5. \A i \in 1..Len(RequestAction) : RequestAction[i] \in Tokens
    BY <2>1, <2>3 DEF RequestAction
  <2>6. \A i \in 1..Len(ResponseSuccess) : ResponseSuccess[i] \in Tokens
    BY <2>1, <2>3 DEF ResponseSuccess
  <2>7. \A i \in 1..Len(ResponseError) : ResponseError[i] \in Tokens
    BY <2>1, <2>3 DEF ResponseError
  <2>8. \A i \in 1..Len(ContextProvide) : ContextProvide[i] \in Tokens
    BY <2>2, <2>3 DEF ContextProvide
  <2>9. \A i \in 1..Len(ProgressUpdate) : ProgressUpdate[i] \in Tokens
    BY <2>1, <2>3 DEF ProgressUpdate
  <2> QED BY <2>4, <2>5, <2>6, <2>7, <2>8, <2>9 DEF KnownTags
<1>4. t # <<>> BY <1>1
<1> QED BY <1>1, <1>2, <1>3, <1>4 DEF IsValidTag

\* The families of the known tags.
LEMMA Families ==
    /\ ParseTagFamily(RequestData) = "request" /\ Len(RequestData) = 2
    /\ ParseTagFamily(RequestAction) = "request" /\ Len(RequestAction) = 2
    /\ ParseTagFamily(ResponseSuccess) = "response"
    /\ ParseTagFamily(ResponseError) = "response"
    /\ ParseTagFamily(ContextProvide) = "context-provide"
    /\ ParseTagFamily(ProgressUpdate) = "progress"
<1>1. \A t \in KnownTags : ParseTagFamily(t) = t[1]
  BY KnownAreValid DEF ParseTagFamily
<1>2. RequestData[1] = "request" /\ RequestAction[1] = "request"
      /\ ResponseSuccess[1] = "response" /\ ResponseError[1] = "response"
      /\ ContextProvide[1] = "context-provide" /\ ProgressUpdate[1] = "progress"
      /\ Len(RequestData) = 2 /\ Len(RequestAction) = 2
  BY DEF RequestData, RequestAction, ResponseSuccess, ResponseError, ContextProvide,
         ProgressUpdate
<1> QED BY <1>1, <1>2 DEF KnownTags

\* A success is not an error.
LEMMA SuccessIsNoError == ResponseSuccess # ResponseError
<1>1. ResponseSuccess[2] = "success" /\ ResponseError[2] = "error"
  BY DEF ResponseSuccess, ResponseError
<1> QED BY <1>1

-----------------------------------------------------------------------------
(* What the adapters compute.                                              *)

\* The special values differ from everything that a field may hold instead.
LEMMA SpecialFacts ==
    /\ Absent # Blank /\ Absent \notin Nat /\ Blank \notin Nat
    /\ Absent # Word /\ Absent \notin Int /\ Word \notin Int
    /\ Absent \notin Literals /\ Blank \notin Literals
    /\ Refused # Panic
<1>1. {Absent, Blank, Word} \cap Int = {} BY AdaptersAssumption DEF AdaptersAssumption
<1>2. Absent \notin Int /\ Blank \notin Int /\ Word \notin Int BY <1>1
<1> QED BY <1>2, AdaptersAssumption DEF AdaptersAssumption

\* A code that is a number stays one, and changes only if it is a fraction.
LEMMA CodeFacts ==
    ASSUME NEW c \in Codes, IsNumber(c)
    PROVE  /\ c \in Int /\ ParseErrorCode(c) \in Int
           /\ ParseErrorCode(c) = c \/ Truncates(c, ParseErrorCode(c))
<1>1. c \in Int BY DEF Codes, IsNumber
<1>2. c % 2 \in {0, 1} BY <1>1
<1>3. CASE c % 2 = 0 BY <1>1, <1>3 DEF ParseErrorCode
<1>4. CASE c % 2 = 1 /\ c > 0 BY <1>1, <1>4 DEF ParseErrorCode, Truncates
<1>5. CASE c % 2 = 1 /\ ~(c > 0) BY <1>1, <1>5 DEF ParseErrorCode, Truncates
<1> QED BY <1>2, <1>3, <1>4, <1>5

\* No key is set in NoMeta.
LEMMA NoMetaFacts ==
    /\ NoMeta \in Meta
    /\ NoMeta.tag = Absent /\ NoMeta.action = Absent /\ NoMeta.args = Absent
    /\ NoMeta.result = Absent /\ NoMeta.requestId = Absent /\ NoMeta.code = Absent
    /\ NoMeta.message = Absent /\ NoMeta.taskId = Absent /\ NoMeta.streamId = Absent
    /\ NoMeta.update = Absent
<1>1. NoMeta \in Meta BY DEF NoMeta, Meta, Ids, Codes
<1> QED BY <1>1 DEF NoMeta

\* An envelope with a known tag passes validation, and the tag is its _tag.
LEMMA EnvelopeFacts ==
    ASSUME NEW meta \in Meta, NEW content \in Contents, meta.tag \in KnownTags
    PROVE  /\ Envelope(meta, content) \in EnvelopeRow
           /\ Envelope(meta, content) # Refused
           /\ EffectiveTag(Envelope(meta, content)) = meta.tag
           /\ Validate(Envelope(meta, content))
           /\ Validated(Envelope(meta, content)) = Envelope(meta, content)
           /\ Envelope(meta, content).meta = meta
           /\ Envelope(meta, content).content = content
           /\ Envelope(meta, content).tag = <<>>
<1> PICK e : e = Envelope(meta, content) OBVIOUS
<1>1. e \in EnvelopeRow /\ e.meta = meta /\ e.content = content /\ e.tag = <<>>
  BY DEF Envelope, EnvelopeRow
<1>2. e # Refused BY <1>1, AdaptersAssumption DEF AdaptersAssumption
<1>3. meta.tag # Absent BY KnownAreValid
<1>4. EffectiveTag(e) = meta.tag BY <1>1, <1>3 DEF EffectiveTag
<1>5. Validate(e) BY <1>4, KnownAreValid DEF Validate
<1>6. Validated(e) = e BY <1>5 DEF Validated
<1> QED BY <1>1, <1>2, <1>4, <1>5, <1>6

\* Envelope e may be what the wire message w of a peer is ingested as.
Yields(e, meta, content) ==
    /\ e = Envelope(meta, content)
    /\ meta \in Meta
    /\ meta.tag \in KnownTags
    /\ content \in Contents

-----------------------------------------------------------------------------
(* MCP.                                                                    *)

\* MCP messages that stand for nothing.
McpUnmapped(w) ==
    \/ w.version # "2.0"
    \/ w.id = Absent
    \/ /\ w.code = Absent /\ ~HasResult(w)
       /\ w.method # "tools/call" \/ w.action = Absent

\* What becomes of the fields of the others.
McpMapped(w, meta) ==
    /\ meta.taskId = Absent
    /\ \/ /\ w.id # Absent /\ w.code # Absent
          /\ meta.tag = ResponseError
          /\ meta.code = w.code /\ meta.message = w.message
          /\ meta.requestId = IdOrAbsent(w.id)
       \/ /\ w.id # Absent /\ w.code = Absent /\ HasResult(w)
          /\ meta.tag = ResponseSuccess
          /\ meta.requestId = IdOrAbsent(w.id)
       \/ /\ w.id = Absent
          /\ meta.tag = ContextProvide
          /\ meta.requestId = Absent
       \/ /\ w.id # Absent /\ w.code = Absent /\ ~HasResult(w) /\ w.method = "tools/call"
          /\ meta.tag = RequestAction
          /\ meta.requestId = Absent

\* McpIngest, by the kinds of message.
LEMMA McpIngested ==
    ASSUME NEW w \in McpRow
    PROVE  \/ McpIngest(w) = Refused /\ McpUnmapped(w)
           \/ \E meta, content : Yields(McpIngest(w), meta, content) /\ McpMapped(w, meta)
<1> DEFINE id == IdOrAbsent(w.id)
<1>0. id \in Ids BY DEF McpRow, IdOrAbsent, Given, Ids
<1>a. KnownTags \subseteq Seq(STRING) BY KnownAreValid
<1>1. CASE w.version = "2.0" /\ w.code # Absent /\ w.id # Absent
  <2> PICK meta : meta = [McpResponseMeta(w, ResponseError) EXCEPT
                            !.code = w.code, !.message = w.message] OBVIOUS
  <2>1. meta = [NoMeta EXCEPT !.tag = ResponseError, !.requestId = id,
                              !.code = w.code, !.message = w.message]
    BY DEF McpResponseMeta, NoMeta
  <2>2. meta \in Meta /\ meta.tag = ResponseError /\ meta.requestId = id /\ meta.code = w.code
        /\ meta.message = w.message /\ meta.taskId = Absent
    <3>1. PICK c \in Codes : c = w.code BY DEF McpRow
    <3>2. PICK t \in {Blank, "text", "default"} : t = w.message BY DEF McpRow
    <3>3. meta = [NoMeta EXCEPT !.tag = ResponseError, !.requestId = id, !.code = c,
                                !.message = t]
      BY <2>1, <3>1, <3>2
    <3> QED BY <1>0, <1>a, <3>1, <3>2, <3>3, NoMetaFacts DEF Meta, KnownTags
  <2>3. McpIngest(w) = Envelope(meta, "") BY <1>1 DEF McpIngest, McpValid
  <2>4. Yields(McpIngest(w), meta, "") BY <2>2, <2>3 DEF Yields, KnownTags, Contents
  <2> QED BY <1>1, <2>2, <2>4 DEF McpMapped
<1>2. CASE w.version = "2.0" /\ w.code = Absent /\ HasResult(w) /\ w.id # Absent
  <2> PICK meta : meta = [McpResponseMeta(w, ResponseSuccess) EXCEPT !.result = w.result]
    OBVIOUS
  <2>1. meta = [NoMeta EXCEPT !.tag = ResponseSuccess, !.requestId = id, !.result = w.result]
    BY DEF McpResponseMeta, NoMeta
  <2>2. meta \in Meta /\ meta.tag = ResponseSuccess /\ meta.requestId = id
        /\ meta.taskId = Absent
    BY <2>1, <1>0, <1>a, NoMetaFacts DEF Meta, McpRow, KnownTags
  <2>3. McpIngest(w) = Envelope(meta, "") BY <1>2 DEF McpIngest, McpValid
  <2>4. Yields(McpIngest(w), meta, "") BY <2>2, <2>3 DEF Yields, KnownTags, Contents
  <2> QED BY <1>2, <2>2, <2>4 DEF McpMapped
<1>3. CASE McpValid(w) /\ w.code = Absent /\ ~HasResult(w) /\ w.id = Absent
  <2> PICK meta : meta = [NoMeta EXCEPT !.tag = ContextProvide] OBVIOUS
  <2>2. meta \in Meta /\ meta.tag = ContextProvide /\ meta.requestId = Absent
        /\ meta.taskId = Absent
    BY <1>a, NoMetaFacts DEF Meta, KnownTags
  <2>3. McpIngest(w) = Envelope(meta, "text") BY <1>3 DEF McpIngest
  <2>4. Yields(McpIngest(w), meta, "text") BY <2>2, <2>3 DEF Yields, KnownTags, Contents
  <2> QED BY <1>3, <2>2, <2>4 DEF McpMapped
<1>4. CASE /\ McpValid(w) /\ w.code = Absent /\ ~HasResult(w) /\ w.id # Absent
           /\ w.method = "tools/call" /\ w.action # Absent
  <2> PICK meta : meta = [NoMeta EXCEPT !.tag = RequestAction, !.action = w.action,
                                        !.args = Or(w.args, "object")]
    OBVIOUS
  <2>2. meta \in Meta /\ meta.tag = RequestAction /\ meta.requestId = Absent
        /\ meta.taskId = Absent
    <3>1. PICK args \in Shapes \cup {Absent} : args = Or(w.args, "object")
      BY DEF McpRow, Or, Shapes
    <3>2. meta = [NoMeta EXCEPT !.tag = RequestAction, !.action = w.action, !.args = args]
      BY <3>1
    <3> QED BY <1>a, <3>2, NoMetaFacts DEF Meta, KnownTags, McpRow
  <2>3. McpIngest(w) = Envelope(meta, "") BY <1>4 DEF McpIngest
  <2>4. Yields(McpIngest(w), meta, "") BY <2>2, <2>3 DEF Yields, KnownTags, Contents
  <2> QED BY <1>4, <2>2, <2>4 DEF McpMapped
<1>5. CASE w.version = "2.0" /\ (w.code # Absent \/ HasResult(w)) /\ w.id = Absent
  BY <1>5 DEF McpIngest, McpValid, McpUnmapped
<1>6. CASE /\ McpValid(w) /\ w.code = Absent /\ ~HasResult(w) /\ w.id # Absent
           /\ ~(w.method = "tools/call" /\ w.action # Absent)
  BY <1>6 DEF McpIngest, McpUnmapped
<1>7. CASE w.version # "2.0" BY <1>7 DEF McpIngest, McpValid, McpUnmapped
<1>8. CASE w.version = "2.0" /\ ~McpValid(w)
  <2>1. w.method = Absent /\ w.code = Absent /\ ~HasResult(w) BY <1>8 DEF McpValid
  <2>2. w.method # "tools/call" BY <2>1, SpecialFacts DEF Literals
  <2> QED BY <1>8, <2>1, <2>2 DEF McpIngest, McpUnmapped
<1> QED BY <1>1, <1>2, <1>3, <1>4, <1>5, <1>6, <1>7, <1>8

\* What a message becomes on the MCP wire.
McpCarries(m, w) ==
    /\ w \in McpRow /\ w.version = "2.0"
    /\ w.id = RequestIdForEmit(m)
    /\ \/ /\ EffectiveTag(m) = RequestAction
          /\ w.method = "tools/call" /\ w.action # Absent
          /\ w.result = Absent /\ w.code = Absent
       \/ /\ EffectiveTag(m) = ResponseSuccess
          /\ w.result = m.meta.result /\ w.result # Absent /\ w.code = Absent
          /\ w.method = Absent
       \/ /\ EffectiveTag(m) = ResponseError
          /\ IsNumber(m.meta.code) /\ w.code = ParseErrorCode(m.meta.code)
          /\ w.message = m.meta.message

\* McpEmit, by the kinds of message.
LEMMA McpEmitted ==
    ASSUME NEW m \in Message, McpEmit(m) # Refused
    PROVE  McpCarries(m, McpEmit(m))
<1> DEFINE tag == EffectiveTag(m)
<1>0. m.meta \in Meta /\ m.id \in Nat BY DEF Message
<1>1. PICK id \in Ids : id = RequestIdForEmit(m)
  BY <1>0 DEF RequestIdForEmit, Or, Ids, Meta
<1>2. PICK blank : blank = McpMessage(m) OBVIOUS
<1>3. /\ blank \in McpRow
      /\ blank.id = id /\ blank.method = Absent /\ blank.action = Absent
      /\ blank.result = Absent /\ blank.code = Absent /\ blank.version = "2.0"
  <2>1. Absent \in Codes \ {Word} BY SpecialFacts DEF Codes
  <2> QED BY <1>1, <1>2, <2>1 DEF McpMessage, McpRow
<1>4. CASE tag = RequestAction /\ Given(m.meta.action)
  <2>1. PICK args \in Shapes \cup {Absent} : args = Or(m.meta.args, "object")
    BY <1>0 DEF Meta, Or, Shapes
  <2>2. PICK action \in ActionNames : action = m.meta.action
    BY <1>0, <1>4 DEF Meta, Given
  <2>3. PICK w : w = [blank EXCEPT !.method = "tools/call", !.action = action, !.args = args]
    OBVIOUS
  <2>4. McpEmit(m) = w BY <1>2, <1>4, <2>1, <2>2, <2>3 DEF McpEmit
  <2>5. w \in McpRow /\ w.id = id /\ w.method = "tools/call" /\ w.action = action
        /\ w.result = Absent /\ w.code = Absent /\ w.version = "2.0"
    BY <1>3, <2>3 DEF McpRow
  <2>6. action # Absent BY <1>4, <2>2 DEF Given
  <2> QED BY <1>1, <1>4, <2>4, <2>5, <2>6 DEF McpCarries
<1>5. CASE /\ tag = ResponseSuccess /\ m.meta.result # Absent
           /\ ~(tag = RequestAction /\ Given(m.meta.action))
  <2>2. PICK result \in Shapes : result = m.meta.result
    BY <1>0, <1>5 DEF Meta
  <2>3. PICK w : w = [blank EXCEPT !.result = result] OBVIOUS
  <2>4. McpEmit(m) = w BY <1>2, <1>5, <2>2, <2>3 DEF McpEmit
  <2>5. w \in McpRow /\ w.id = id /\ w.method = Absent /\ w.result = result /\ w.code = Absent
        /\ w.version = "2.0"
    BY <1>3, <2>3 DEF McpRow
  <2> QED BY <1>1, <1>5, <2>2, <2>4, <2>5 DEF McpCarries
<1>6. CASE /\ tag = ResponseError /\ IsNumber(m.meta.code) /\ Given(m.meta.message)
           /\ ~(tag = RequestAction /\ Given(m.meta.action))
           /\ ~(tag = ResponseSuccess /\ m.meta.result # Absent)
  <2>2. PICK text \in {"text", "default"} : text = m.meta.message
    BY <1>0, <1>6 DEF Meta, Given
  <2>a. PICK code \in Int : code = ParseErrorCode(m.meta.code)
    BY <1>0, <1>6, CodeFacts DEF Meta
  <2>b. code \in Codes \ {Word} BY SpecialFacts DEF Codes
  <2>3. PICK w : w = [blank EXCEPT !.code = code, !.message = text] OBVIOUS
  <2>4. McpEmit(m) = w BY <1>2, <1>6, <2>2, <2>a, <2>3 DEF McpEmit
  <2>5. w \in McpRow /\ w.id = id /\ w.code = code /\ w.message = text
        /\ w.version = "2.0"
    BY <1>3, <2>b, <2>3 DEF McpRow
  <2> QED BY <1>1, <1>6, <2>2, <2>a, <2>4, <2>5 DEF McpCarries
<1> QED BY <1>4, <1>5, <1>6 DEF McpEmit

-----------------------------------------------------------------------------
(* A2A.                                                                    *)

\* A2A messages that stand for nothing.
A2aUnmapped(w) ==
    \/ w.method = "other"
    \/ w.method \in {"message/send", "agent/card"} /\ w.text = Absent
    \/ w.method = "task/create" /\ w.taskId = Absent
    \/ w.method = "task/update" /\ (w.taskId = Absent \/ w.status \in {Absent, "other"})

\* What becomes of the fields of the others.
A2aMapped(w, meta, content) ==
    /\ meta.requestId = Absent
    /\ \/ /\ w.method = "message/send"
          /\ meta.tag \in {RequestAction, RequestData}
          /\ meta.taskId = Absent
       \/ /\ w.method = "agent/card"
          /\ meta.tag = ContextProvide
          /\ meta.taskId = Absent
       \/ /\ w.method = "task/create"
          /\ meta.tag = RequestAction
          /\ meta.taskId = w.taskId
       \/ /\ w.method = "task/update"
          /\ meta.taskId = w.taskId
          /\ content = "{}"
          /\ \/ w.status = "completed" /\ meta.tag = ResponseSuccess
             \/ w.status = "in_progress" /\ meta.tag = ProgressUpdate
             \/ /\ w.status = "failed" /\ meta.tag = ResponseError
                /\ meta.code = Or(w.code, Word)
                /\ meta.message = Or(w.message, "default")

\* A2aIngest, by the kinds of message.
LEMMA A2aIngested ==
    ASSUME NEW w \in A2aRow
    PROVE  \/ A2aIngest(w) = Refused /\ A2aUnmapped(w)
           \/ \E meta, content : /\ Yields(A2aIngest(w), meta, content)
                                 /\ A2aMapped(w, meta, content)
<1>a. KnownTags \subseteq Seq(STRING) BY KnownAreValid
<1>b. w.method \in {"message/send", "agent/card", "task/create", "task/update", "other"}
  BY DEF A2aRow, A2aMethods
<1>c. CASE w.method = "other" BY <1>c DEF A2aIngest, A2aUnmapped
<1>d. CASE w.method \in {"message/send", "agent/card"} /\ w.text = Absent
  BY <1>d DEF A2aIngest, A2aUnmapped
<1>1. CASE w.method = "message/send" /\ w.text # Absent
  <2>1. PICK tag \in {RequestAction, RequestData} : tag = A2aRequestTag(w)
    BY DEF A2aRequestTag
  <2>2. PICK content \in Contents :
          content = IF w.text = "query" THEN "{message query}" ELSE "{message text}"
    BY DEF Contents
  <2>3. PICK meta : meta = [NoMeta EXCEPT !.tag = tag] OBVIOUS
  <2>4. tag \in KnownTags BY DEF KnownTags
  <2>5. meta \in Meta /\ meta.tag = tag /\ meta.requestId = Absent /\ meta.taskId = Absent
    BY <1>a, <2>3, <2>4, NoMetaFacts DEF Meta
  <2>6. A2aIngest(w) = Envelope(meta, content) BY <1>1, <2>1, <2>2, <2>3 DEF A2aIngest
  <2>7. Yields(A2aIngest(w), meta, content) BY <2>4, <2>5, <2>6 DEF Yields
  <2> QED BY <1>1, <2>5, <2>7 DEF A2aMapped
<1>2. CASE w.method = "agent/card" /\ w.text # Absent
  <2>1. PICK meta : meta = [NoMeta EXCEPT !.tag = ContextProvide] OBVIOUS
  <2>2. meta \in Meta /\ meta.tag = ContextProvide /\ meta.requestId = Absent
        /\ meta.taskId = Absent
    BY <1>a, <2>1, NoMetaFacts DEF Meta, KnownTags
  <2>3. A2aIngest(w) = Envelope(meta, "{other}") BY <1>2, <2>1 DEF A2aIngest
  <2>4. Yields(A2aIngest(w), meta, "{other}") BY <2>2, <2>3 DEF Yields, KnownTags, Contents
  <2> QED BY <1>2, <2>2, <2>4 DEF A2aMapped
<1>3. CASE w.method = "task/create" /\ w.taskId = Absent
  BY <1>3 DEF A2aIngest, A2aUnmapped
<1>4. CASE w.method = "task/create" /\ w.taskId # Absent
  <2>1. PICK meta : meta = A2aTask(w) OBVIOUS
  <2>2. meta \in Meta /\ meta.tag = RequestAction /\ meta.requestId = Absent
        /\ meta.taskId = w.taskId
    BY <1>a, <2>1, NoMetaFacts DEF A2aTask, Meta, KnownTags, A2aRow, ActionNames
  <2>3. A2aIngest(w) = Envelope(meta, "{}") BY <1>4, <2>1 DEF A2aIngest, A2aRestOfTask
  <2>4. Yields(A2aIngest(w), meta, "{}") BY <2>2, <2>3 DEF Yields, KnownTags, Contents
  <2> QED BY <1>4, <2>2, <2>4 DEF A2aMapped
<1>5. CASE w.method = "task/update" /\ (w.taskId = Absent \/ w.status \in {Absent, "other"})
  BY <1>5 DEF A2aIngest, A2aUnmapped
<1>6. CASE w.method = "task/update" /\ w.taskId # Absent /\ w.status \notin {Absent, "other"}
  <2>1. PICK outcome : outcome = A2aOutcome(w) OBVIOUS
  <2>2. /\ outcome \in Meta
        /\ outcome.requestId = Absent
        /\ outcome.tag \in KnownTags
        /\ \/ w.status = "completed" /\ outcome.tag = ResponseSuccess
           \/ w.status = "in_progress" /\ outcome.tag = ProgressUpdate
           \/ /\ w.status = "failed" /\ outcome.tag = ResponseError
              /\ outcome.code = Or(w.code, Word)
              /\ outcome.message = Or(w.message, "default")
    <3>1. CASE w.status = "completed"
      <4>1. outcome = [NoMeta EXCEPT !.tag = ResponseSuccess] BY <2>1, <3>1 DEF A2aOutcome
      <4> QED BY <1>a, <3>1, <4>1, NoMetaFacts DEF Meta, KnownTags
    <3>2. CASE w.status = "in_progress"
      <4>1. outcome = [NoMeta EXCEPT !.tag = ProgressUpdate] BY <2>1, <3>2 DEF A2aOutcome
      <4> QED BY <1>a, <3>2, <4>1, NoMetaFacts DEF Meta, KnownTags
    <3>3. CASE w.status = "failed"
      <4>1. PICK code \in Codes : code = Or(w.code, Word)
        BY DEF Or, A2aRow, Codes
      <4>2. PICK text \in {Absent, Blank, "text", "default"} : text = Or(w.message, "default")
        BY DEF Or, A2aRow
      <4>3. outcome = [NoMeta EXCEPT !.tag = ResponseError, !.code = code, !.message = text]
        BY <2>1, <3>3, <4>1, <4>2 DEF A2aOutcome
      <4>4. ResponseError \in Seq(STRING) /\ ResponseError \in KnownTags
        BY <1>a DEF KnownTags
      <4>5. outcome \in Meta BY <4>3, <4>4, NoMetaFacts DEF Meta
      <4>6. outcome.tag = ResponseError /\ outcome.code = code /\ outcome.message = text
            /\ outcome.requestId = Absent
        BY <4>3, NoMetaFacts DEF Meta
      <4> QED BY <3>3, <4>1, <4>2, <4>4, <4>5, <4>6
    <3> QED BY <1>6, <3>1, <3>2, <3>3 DEF A2aRow, A2aStatuses
  <2>3. PICK meta : meta = [outcome EXCEPT !.taskId = w.taskId, !.result = w.result] OBVIOUS
  <2>4. /\ meta \in Meta /\ meta.requestId = Absent /\ meta.taskId = w.taskId
        /\ meta.tag = outcome.tag /\ meta.code = outcome.code
        /\ meta.message = outcome.message
    <3>1. PICK task \in Nat \cup {Absent}, result \in Shapes \cup {Absent} :
            task = w.taskId /\ result = w.result
      BY DEF A2aRow
    <3>a. meta = [outcome EXCEPT !.taskId = task, !.result = result] BY <2>3, <3>1
    <3>2. outcome \in Meta /\ outcome.requestId = Absent BY <2>2
    <3>b. PICK half : half = [outcome EXCEPT !.taskId = task] OBVIOUS
    <3>c. half \in Meta BY <3>b, <3>2 DEF Meta
    <3>d. meta = [half EXCEPT !.result = result] BY <3>a, <3>b
    <3>3. meta \in Meta BY <3>c, <3>d DEF Meta
    <3>4. meta.requestId = Absent /\ meta.taskId = w.taskId
      BY <2>3, <3>2 DEF Meta
    <3>5. meta.tag = outcome.tag /\ meta.code = outcome.code /\ meta.message = outcome.message
      BY <2>3, <3>2 DEF Meta
    <3> QED BY <3>3, <3>4, <3>5
  <2>5. A2aIngest(w) = Envelope(meta, "{}")
    BY <1>6, <2>1, <2>3 DEF A2aIngest, A2aRestOfTask
  <2>6. Yields(A2aIngest(w), meta, "{}") BY <2>2, <2>4, <2>5 DEF Yields, Contents
  <2>7. A2aMapped(w, meta, "{}") BY <1>6, <2>2, <2>4 DEF A2aMapped
  <2> QED BY <2>6, <2>7
<1> QED BY <1>b, <1>c, <1>d, <1>1, <1>2, <1>3, <1>4, <1>5, <1>6

\* What a message becomes on the A2A wire.
A2aCarries(m, w) ==
    /\ w \in A2aRow
    /\ w.id = RequestIdForEmit(m)
    /\ \/ /\ ParseTagFamily(EffectiveTag(m)) = "request"
          /\ w.method = "message/send" /\ w.text # Absent
          /\ w.taskId = m.meta.taskId
       \/ /\ w.method = "task/update"
          /\ w.taskId = TaskIdForEmit(m)
          /\ \/ EffectiveTag(m) = ResponseSuccess /\ w.status = "completed"
             \/ /\ EffectiveTag(m) = ResponseError /\ w.status = "failed"
                /\ w.code = m.meta.code
                /\ w.message = IF Given(m.meta.message) THEN m.meta.message ELSE Absent
             \/ ParseTagFamily(EffectiveTag(m)) = "progress" /\ w.status = "in_progress"

\* The task id that A2A takes is the message's, the request's or the row's.
LEMMA TaskIdFacts ==
    ASSUME NEW m \in Message
    PROVE  /\ TaskIdForEmit(m) \in Nat
           /\ TaskIdForEmit(m) \in {m.meta.taskId, m.meta.requestId, m.id}
<1>1. m.meta \in Meta /\ m.id \in Nat BY DEF Message
<1> QED BY <1>1 DEF TaskIdForEmit, Given, Meta, Ids

\* A2aEmit, by the kinds of message.
LEMMA A2aEmitted ==
    ASSUME NEW m \in Message, A2aEmit(m) # Refused
    PROVE  A2aCarries(m, A2aEmit(m))
<1> DEFINE tag == EffectiveTag(m)
<1>0. m.meta \in Meta /\ m.id \in Nat BY DEF Message
<1>1. PICK id \in Ids : id = RequestIdForEmit(m)
  BY <1>0 DEF RequestIdForEmit, Or, Ids, Meta
<1>2. PICK text \in {"text", "query"} : text = OutboundText(m) BY DEF OutboundText
<1>3. m.meta.taskId \in Nat \cup {Absent} BY <1>0 DEF Meta
<1>4. ASSUME NEW method \in {"message/send", "task/update"},
             NEW status \in {Absent, "completed", "failed", "in_progress"}
      PROVE  LET w == A2aMessage(m, method, status)
             IN  /\ w \in A2aRow /\ w.id = id /\ w.method = method /\ w.status = status
                 /\ w.text # Absent
                 /\ w.taskId = IF method = "message/send" THEN m.meta.taskId
                               ELSE TaskIdForEmit(m)
                 /\ w.result = Absent /\ w.code = Absent /\ w.message = Absent
  <2>1. PICK task \in Nat \cup {Absent} :
          task = IF method = "message/send" THEN m.meta.taskId ELSE TaskIdForEmit(m)
    BY <1>3, TaskIdFacts
  <2>2. A2aMessage(m, method, status) =
          [proto |-> "a2a", id |-> id, method |-> method, text |-> text, taskId |-> task,
           status |-> status, result |-> Absent, code |-> Absent, message |-> Absent]
    BY <1>1, <1>2, <2>1 DEF A2aMessage
  <2>3. text # Absent BY SpecialFacts DEF Literals, Contents
  <2> QED BY <2>1, <2>2, <2>3 DEF A2aRow, A2aMethods, A2aStatuses, Codes
<1>5. CASE ParseTagFamily(tag) = "request" /\ Len(tag) > 1
  <2>1. A2aEmit(m) = A2aMessage(m, "message/send", Absent) BY <1>5 DEF A2aEmit
  <2> QED BY <1>1, <1>4, <1>5, <2>1 DEF A2aCarries
<1>6. CASE tag = ResponseSuccess /\ ~(ParseTagFamily(tag) = "request" /\ Len(tag) > 1)
  <2>1. PICK blank : blank = A2aMessage(m, "task/update", "completed") OBVIOUS
  <2>2. PICK result \in Shapes \cup {Absent} : result = m.meta.result BY <1>0 DEF Meta
  <2>3. PICK w : w = [blank EXCEPT !.result = result] OBVIOUS
  <2>4. A2aEmit(m) = w BY <1>6, <2>1, <2>2, <2>3 DEF A2aEmit
  <2>5. blank \in A2aRow /\ blank.id = id /\ blank.method = "task/update"
        /\ blank.status = "completed" /\ blank.taskId = TaskIdForEmit(m)
    BY <1>4, <2>1
  <2>6. w \in A2aRow /\ w.id = id /\ w.method = "task/update" /\ w.status = "completed"
        /\ w.taskId = TaskIdForEmit(m)
    BY <2>3, <2>5 DEF A2aRow
  <2> QED BY <1>1, <1>6, <2>4, <2>6 DEF A2aCarries
<1>7. CASE /\ tag = ResponseError /\ tag # ResponseSuccess
           /\ ~(ParseTagFamily(tag) = "request" /\ Len(tag) > 1)
  <2>1. PICK blank : blank = A2aMessage(m, "task/update", "failed") OBVIOUS
  <2>2. PICK code \in Codes : code = m.meta.code BY <1>0 DEF Meta
  <2>a. PICK words \in {Absent, "text", "default"} :
          words = IF Given(m.meta.message) THEN m.meta.message ELSE Absent
    BY <1>0 DEF Meta, Given
  <2>b. PICK result \in Shapes \cup {Absent} :
          result = IF m.meta.code # Absent \/ Given(m.meta.message) THEN "object" ELSE Absent
    BY DEF Shapes
  <2>3. PICK w : w = [blank EXCEPT !.code = code, !.message = words, !.result = result] OBVIOUS
  <2>4. A2aEmit(m) = w BY <1>7, <2>1, <2>2, <2>a, <2>b, <2>3 DEF A2aEmit
  <2>5. blank \in A2aRow /\ blank.id = id /\ blank.method = "task/update"
        /\ blank.status = "failed" /\ blank.taskId = TaskIdForEmit(m)
    BY <1>4, <2>1
  <2>6. w \in A2aRow /\ w.id = id /\ w.method = "task/update" /\ w.status = "failed"
        /\ w.taskId = TaskIdForEmit(m) /\ w.code = code /\ w.message = words
    BY <2>3, <2>5 DEF A2aRow
  <2> QED BY <1>1, <1>7, <2>2, <2>a, <2>4, <2>6 DEF A2aCarries
<1>8. CASE /\ ParseTagFamily(tag) = "progress" /\ Len(tag) > 1
           /\ tag # ResponseError /\ tag # ResponseSuccess
           /\ ~(ParseTagFamily(tag) = "request" /\ Len(tag) > 1)
  <2>1. PICK blank : blank = A2aMessage(m, "task/update", "in_progress") OBVIOUS
  <2>2. PICK result \in Shapes \cup {Absent} :
          result = IF m.meta.result # Absent THEN m.meta.result
                   ELSE IF m.content \in {"{message text}", "{message query}", "{other}"}
                   THEN "object" ELSE Absent
    BY <1>0 DEF Meta, Shapes
  <2>3. PICK w : w = [blank EXCEPT !.result = result] OBVIOUS
  <2>4. A2aEmit(m) = w BY <1>8, <2>1, <2>2, <2>3 DEF A2aEmit
  <2>5. blank \in A2aRow /\ blank.id = id /\ blank.method = "task/update"
        /\ blank.status = "in_progress" /\ blank.taskId = TaskIdForEmit(m)
    BY <1>4, <2>1
  <2>6. w \in A2aRow /\ w.id = id /\ w.method = "task/update" /\ w.status = "in_progress"
        /\ w.taskId = TaskIdForEmit(m)
    BY <2>3, <2>5 DEF A2aRow
  <2> QED BY <1>1, <1>8, <2>4, <2>6 DEF A2aCarries
<1> QED BY <1>5, <1>6, <1>7, <1>8 DEF A2aEmit

-----------------------------------------------------------------------------
(* gRPC.                                                                   *)

\* What becomes of the fields of a gRPC message.
GrpcMapped(w, meta) ==
    /\ meta.taskId = Absent
    /\ \/ /\ w.type = "stream"
          /\ meta.tag = ProgressUpdate
          /\ meta.update = "object"
          /\ meta.requestId = IdOrAbsent(w.id)
       \/ /\ w.type = "unary" /\ w.status = Absent
          /\ meta.tag = RequestAction
          /\ meta.requestId = Absent
       \/ /\ w.type = "unary" /\ w.status = "OK"
          /\ meta.tag = ResponseSuccess
          /\ meta.requestId = IdOrAbsent(w.id)
       \/ /\ w.type = "unary" /\ w.status = "ERROR"
          /\ meta.tag = ResponseError
          /\ meta.code = w.code /\ meta.message = w.message
          /\ meta.requestId = IdOrAbsent(w.id)

\* GrpcIngest, by the kinds of message.
LEMMA GrpcIngested ==
    ASSUME NEW w \in GrpcRow
    PROVE  \/ GrpcIngest(w) = Refused /\ ~GrpcValid(w)
           \/ \E meta, content : Yields(GrpcIngest(w), meta, content) /\ GrpcMapped(w, meta)
<1>1. PICK id \in Ids : id = IdOrAbsent(w.id) BY DEF GrpcRow, IdOrAbsent, Given, Ids
<1>2. KnownTags \subseteq Seq(STRING) BY KnownAreValid
<1>3. CASE ~GrpcValid(w) BY <1>3 DEF GrpcIngest
<1>4. CASE GrpcValid(w) /\ w.type = "stream"
  <2>1. PICK stream \in Nat \cup {Absent} : stream = w.streamId BY DEF GrpcRow
  <2>2. PICK meta : meta = [NoMeta EXCEPT !.tag = ProgressUpdate, !.update = "object",
                                          !.requestId = id, !.streamId = stream]
    OBVIOUS
  <2>3. /\ meta \in Meta /\ meta.tag = ProgressUpdate /\ meta.update = "object"
        /\ meta.requestId = id /\ meta.taskId = Absent
    BY <1>2, <2>2, NoMetaFacts DEF Meta, KnownTags, Shapes
  <2>4. GrpcIngest(w) = Envelope(meta, "") BY <1>1, <1>4, <2>1, <2>2 DEF GrpcIngest
  <2>5. Yields(GrpcIngest(w), meta, "") BY <2>3, <2>4 DEF Yields, KnownTags, Contents
  <2> QED BY <1>1, <1>4, <2>3, <2>5 DEF GrpcMapped
<1>5. CASE GrpcValid(w) /\ w.type # "stream" /\ w.status = Absent
  <2>1. PICK action \in ActionNames \cup {Absent} : action = w.action
    BY <1>5 DEF GrpcRow, GrpcActions, GrpcValid, ActionNames
  <2>2. PICK meta : meta = [NoMeta EXCEPT !.tag = RequestAction, !.action = action,
                                          !.args = "object"]
    OBVIOUS
  <2>3. /\ meta \in Meta /\ meta.tag = RequestAction
        /\ meta.requestId = Absent /\ meta.taskId = Absent
    BY <1>2, <2>2, NoMetaFacts DEF Meta, KnownTags, Shapes
  <2>4. GrpcIngest(w) = Envelope(meta, "") BY <1>5, <2>1, <2>2 DEF GrpcIngest
  <2>5. Yields(GrpcIngest(w), meta, "") BY <2>3, <2>4 DEF Yields, KnownTags, Contents
  <2>6. w.type = "unary" BY <1>5 DEF GrpcValid
  <2>7. GrpcMapped(w, meta) BY <1>5, <2>3, <2>6 DEF GrpcMapped
  <2> QED BY <2>5, <2>7
<1>6. CASE GrpcValid(w) /\ w.type # "stream" /\ w.status = "OK"
  <2>1. w.status # Absent BY <1>6, SpecialFacts DEF Literals
  <2>2. PICK meta : meta = [NoMeta EXCEPT !.tag = ResponseSuccess, !.result = "object",
                                          !.requestId = id]
    OBVIOUS
  <2>3. /\ meta \in Meta /\ meta.tag = ResponseSuccess
        /\ meta.requestId = id /\ meta.taskId = Absent
    BY <1>2, <2>2, NoMetaFacts DEF Meta, KnownTags, Shapes
  <2>4. GrpcIngest(w) = Envelope(meta, "") BY <1>1, <1>6, <2>1, <2>2 DEF GrpcIngest
  <2>5. Yields(GrpcIngest(w), meta, "") BY <2>3, <2>4 DEF Yields, KnownTags, Contents
  <2>6. w.type = "unary" BY <1>6 DEF GrpcValid
  <2>7. GrpcMapped(w, meta) BY <1>1, <1>6, <2>3, <2>6 DEF GrpcMapped
  <2> QED BY <2>5, <2>7
<1>7. CASE GrpcValid(w) /\ w.type # "stream" /\ w.status \notin {Absent, "OK"}
  <2>1. PICK text \in {Blank, "text", "default"} : text = w.message BY DEF GrpcRow
  <2>a. PICK code \in Codes : code = w.code BY DEF GrpcRow, Codes
  <2>2. PICK meta : meta = [NoMeta EXCEPT !.tag = ResponseError, !.code = code,
                                          !.message = text, !.requestId = id]
    OBVIOUS
  <2>3. /\ meta \in Meta /\ meta.tag = ResponseError /\ meta.code = code
        /\ meta.message = text /\ meta.requestId = id /\ meta.taskId = Absent
    BY <1>2, <2>2, NoMetaFacts DEF Meta, KnownTags, Shapes
  <2>4. w.status = "ERROR" BY <1>7 DEF GrpcRow, GrpcValid, GrpcStatuses
  <2>5. GrpcIngest(w) = Envelope(meta, "")
    BY <1>1, <1>7, <2>1, <2>a, <2>2, <2>4 DEF GrpcIngest
  <2>6. Yields(GrpcIngest(w), meta, "") BY <2>3, <2>5 DEF Yields, KnownTags, Contents
  <2>7. w.type = "unary" BY <1>7 DEF GrpcValid
  <2>8. GrpcMapped(w, meta) BY <1>1, <2>1, <2>a, <2>3, <2>4, <2>7 DEF GrpcMapped
  <2> QED BY <2>6, <2>8
<1> QED BY <1>3, <1>4, <1>5, <1>6, <1>7

\* What a message becomes on the gRPC wire.
GrpcCarries(m, w) ==
    /\ w \in GrpcRow
    /\ w.id = IF Given(m.meta.requestId) THEN m.meta.requestId ELSE m.id
    /\ \/ /\ EffectiveTag(m) = RequestAction
          /\ w.type = "unary" /\ w.status = Absent /\ w.action = "service/method"
       \/ /\ EffectiveTag(m) = ResponseSuccess
          /\ w.type = "unary" /\ w.status = "OK" /\ w.action = Absent
       \/ /\ EffectiveTag(m) = ResponseError
          /\ w.type = "unary" /\ w.status = "ERROR" /\ w.action = Absent
          /\ IsNumber(m.meta.code) /\ w.code = ParseErrorCode(m.meta.code)
          /\ w.message = m.meta.message
       \/ /\ ParseTagFamily(EffectiveTag(m)) = "progress"
          /\ w.type = "stream" /\ w.streamId # Absent

\* GrpcEmit, by the kinds of message; it panics on the prone ones only.
LEMMA GrpcEmitted ==
    ASSUME NEW m \in Message
    PROVE  \/ GrpcEmit(m) = Refused
           \/ GrpcEmit(m) = Panic /\ PanicProne(m)
           \/ GrpcCarries(m, GrpcEmit(m))
<1> DEFINE tag == EffectiveTag(m)
<1>0. m.meta \in Meta /\ m.id \in Nat BY DEF Message
<1>1. PICK id \in Ids : id = IF Given(m.meta.requestId) THEN m.meta.requestId ELSE m.id
  BY <1>0 DEF Ids, Meta
<1>2. ASSUME NEW type \in {"unary", "stream"}
      PROVE  LET w == GrpcMessage(m, type)
             IN  /\ w \in GrpcRow /\ w.type = type /\ w.id = id
                 /\ w.action = Absent /\ w.status = Absent
  <2>1. GrpcMessage(m, type) =
          [proto |-> "grpc", type |-> type, action |-> Absent, status |-> Absent, id |-> id,
           streamId |-> Absent, code |-> 0, message |-> Blank, body |-> "object"]
    BY <1>1 DEF GrpcMessage
  <2> QED BY <2>1 DEF GrpcRow, GrpcTypes, GrpcActions, GrpcStatuses
<1>3. PICK unary : unary = GrpcMessage(m, "unary") OBVIOUS
<1>4. unary \in GrpcRow /\ unary.type = "unary" /\ unary.id = id
      /\ unary.action = Absent /\ unary.status = Absent
  BY <1>2, <1>3
<1>5. PICK stream : stream = GrpcMessage(m, "stream") OBVIOUS
<1>6. stream \in GrpcRow /\ stream.type = "stream" /\ stream.id = id
  BY <1>2, <1>5
<1> DEFINE P == tag = RequestAction /\ m.meta.action = "service/method"
                                    /\ IsBody(Or(m.meta.args, "object"))
           Q == tag = ResponseSuccess /\ IsBody(m.meta.result)
           R == tag = ResponseError /\ IsNumber(m.meta.code) /\ Given(m.meta.message)
           S == ParseTagFamily(tag) = "progress"
<1>7. CASE P
  <2>1. PICK w : w = [unary EXCEPT !.action = "service/method"] OBVIOUS
  <2>2. GrpcEmit(m) = w BY <1>3, <1>7, <2>1 DEF GrpcEmit
  <2>3. w \in GrpcRow /\ w.type = "unary" /\ w.id = id /\ w.action = "service/method"
        /\ w.status = Absent
    BY <1>4, <2>1 DEF GrpcRow, GrpcActions
  <2> QED BY <1>1, <1>7, <2>2, <2>3 DEF GrpcCarries
<1>8. CASE ~P /\ Q
  <2>1. PICK w : w = [unary EXCEPT !.status = "OK"] OBVIOUS
  <2>2. GrpcEmit(m) = w BY <1>3, <1>8, <2>1 DEF GrpcEmit
  <2>3. w \in GrpcRow /\ w.type = "unary" /\ w.id = id /\ w.status = "OK"
        /\ w.action = Absent
    BY <1>4, <2>1 DEF GrpcRow, GrpcStatuses
  <2> QED BY <1>1, <1>8, <2>2, <2>3 DEF GrpcCarries
<1>9. CASE ~P /\ ~Q /\ R
  <2>1. PICK text \in {"text", "default"} : text = m.meta.message
    BY <1>0, <1>9 DEF Meta, Given
  <2>a. PICK code \in Int : code = ParseErrorCode(m.meta.code)
    BY <1>0, <1>9, CodeFacts DEF Meta
  <2>2. PICK w : w = [unary EXCEPT !.status = "ERROR", !.code = code, !.message = text]
    OBVIOUS
  <2>3. GrpcEmit(m) = w BY <1>3, <1>9, <2>1, <2>a, <2>2 DEF GrpcEmit
  <2>4. w \in GrpcRow /\ w.type = "unary" /\ w.id = id /\ w.status = "ERROR"
        /\ w.action = Absent /\ w.code = code /\ w.message = text
    BY <1>4, <2>1, <2>2 DEF GrpcRow, GrpcStatuses
  <2> QED BY <1>1, <1>9, <2>1, <2>a, <2>3, <2>4 DEF GrpcCarries
<1>10. CASE ~P /\ ~Q /\ ~R /\ S /\ m.meta.update = Absent /\ m.content \in Filled
  <2>1. GrpcEmit(m) = Panic BY <1>10 DEF GrpcEmit, Filled
  <2> QED BY <1>10, <2>1 DEF PanicProne
<1>11. CASE ~P /\ ~Q /\ ~R /\ S /\ ~(m.meta.update = Absent /\ m.content \in Filled)
  <2>1. PICK sid \in Nat :
          sid = IF Given(m.meta.streamId) THEN m.meta.streamId ELSE m.id
    BY <1>0 DEF Meta, Given
  <2>2. PICK w : w = [stream EXCEPT !.streamId = sid] OBVIOUS
  <2>3. GrpcEmit(m) = w \/ GrpcEmit(m) = Refused
    BY <1>5, <1>11, <2>1, <2>2 DEF GrpcEmit, Filled
  <2>4. w \in GrpcRow /\ w.type = "stream" /\ w.id = id /\ w.streamId = sid
    BY <1>6, <2>1, <2>2 DEF GrpcRow
  <2>5. w.streamId # Absent BY <2>4, SpecialFacts
  <2> QED BY <1>1, <1>11, <2>3, <2>4, <2>5 DEF GrpcCarries
<1>12. CASE ~P /\ ~Q /\ ~R /\ ~S BY <1>12 DEF GrpcEmit
<1> QED BY <1>7, <1>8, <1>9, <1>10, <1>11, <1>12

-----------------------------------------------------------------------------
(* Ingest, whatever the protocol.                                          *)

\* An envelope as adapters build it.
WellMade(e) ==
    /\ e \in EnvelopeRow
    /\ Validate(e)
    /\ EffectiveTag(e) = e.meta.tag
    /\ e.meta.tag \in KnownTags

\* What an adapter yields passes Ingest unchanged and is well made.
LEMMA YieldsFacts ==
    ASSUME NEW e, NEW meta, NEW content, Yields(e, meta, content)
    PROVE  /\ WellMade(e) /\ e # Refused /\ Validated(e) = e
           /\ e.meta = meta /\ e.content = content
<1>1. /\ meta \in Meta /\ content \in Contents /\ meta.tag \in KnownTags
      /\ e = Envelope(meta, content)
  BY DEF Yields
<1> QED BY <1>1, EnvelopeFacts DEF WellMade

\* Ingest of an MCP message.
LEMMA McpTaken ==
    ASSUME NEW w \in McpRow
    PROVE  \/ Ingest(w) = Refused /\ McpUnmapped(w)
           \/ WellMade(Ingest(w)) /\ Ingest(w) # Refused /\ McpMapped(w, Ingest(w).meta)
<1> PICK e : e = McpIngest(w) OBVIOUS
<1>1. Ingest(w) = IF e = Refused THEN Refused ELSE Validated(e)
  <2>1. w.proto = "mcp" BY DEF McpRow
  <2> QED BY <2>1 DEF Ingest
<1>2. CASE e = Refused /\ McpUnmapped(w) BY <1>1, <1>2
<1>3. CASE \E meta, content : Yields(e, meta, content) /\ McpMapped(w, meta)
  <2>1. PICK meta, content : Yields(e, meta, content) /\ McpMapped(w, meta) BY <1>3
  <2> QED BY <1>1, <2>1, YieldsFacts
<1> QED BY <1>2, <1>3, McpIngested

\* Ingest of an A2A message.
LEMMA A2aTaken ==
    ASSUME NEW w \in A2aRow
    PROVE  \/ Ingest(w) = Refused /\ A2aUnmapped(w)
           \/ /\ WellMade(Ingest(w)) /\ Ingest(w) # Refused
              /\ A2aMapped(w, Ingest(w).meta, Ingest(w).content)
<1> PICK e : e = A2aIngest(w) OBVIOUS
<1>1. Ingest(w) = IF e = Refused THEN Refused ELSE Validated(e)
  <2>1. w.proto = "a2a" BY DEF A2aRow
  <2> QED BY <2>1 DEF Ingest
<1>2. CASE e = Refused /\ A2aUnmapped(w) BY <1>1, <1>2
<1>3. CASE \E meta, content : Yields(e, meta, content) /\ A2aMapped(w, meta, content)
  <2>1. PICK meta, content : Yields(e, meta, content) /\ A2aMapped(w, meta, content) BY <1>3
  <2> QED BY <1>1, <2>1, YieldsFacts
<1> QED BY <1>2, <1>3, A2aIngested

\* Ingest of a gRPC message.
LEMMA GrpcTaken ==
    ASSUME NEW w \in GrpcRow
    PROVE  \/ Ingest(w) = Refused /\ ~GrpcValid(w)
           \/ WellMade(Ingest(w)) /\ Ingest(w) # Refused /\ GrpcMapped(w, Ingest(w).meta)
<1> PICK e : e = GrpcIngest(w) OBVIOUS
<1>1. Ingest(w) = IF e = Refused THEN Refused ELSE Validated(e)
  <2>1. w.proto = "grpc" BY DEF GrpcRow
  <2> QED BY <2>1 DEF Ingest
<1>2. CASE e = Refused /\ ~GrpcValid(w) BY <1>1, <1>2
<1>3. CASE \E meta, content : Yields(e, meta, content) /\ GrpcMapped(w, meta)
  <2>1. PICK meta, content : Yields(e, meta, content) /\ GrpcMapped(w, meta) BY <1>3
  <2> QED BY <1>1, <2>1, YieldsFacts
<1> QED BY <1>2, <1>3, GrpcIngested

-----------------------------------------------------------------------------
(* One hop: a message is emitted and what was emitted is ingested.         *)

\* Envelope new has the tag of message old, as far as the protocol allows.
TagKept(old, new, via) ==
    \/ EffectiveTag(new) = EffectiveTag(old)
    \/ /\ via = "a2a"
       /\ RequiresResponse(EffectiveTag(old))
       /\ EffectiveTag(new) \in {RequestAction, RequestData}
    \/ /\ via \in {"a2a", "grpc"}
       /\ ParseTagFamily(EffectiveTag(old)) = "progress"
       /\ EffectiveTag(new) = ProgressUpdate

\* The ids of the new envelope are taken from the old message.
IdsKept(old, new, via) ==
    /\ new.meta.requestId \in {Absent, old.meta.requestId, old.id}
    /\ new.meta.taskId \in {Absent, old.meta.taskId, old.meta.requestId, old.id}
    /\ ~RequiresResponse(EffectiveTag(old)) =>
          /\ via # "a2a" => /\ new.meta.taskId = Absent
                            /\ Given(old.meta.requestId) =>
                                 new.meta.requestId = old.meta.requestId
          /\ via = "a2a" => new.meta.taskId = TaskIdForEmit(old)

Hop(old, new, via) ==
    /\ WellMade(new)
    /\ ~PanicProne(new)
    /\ RequiresResponse(EffectiveTag(new)) => RequiresResponse(EffectiveTag(old))
    /\ TagKept(old, new, via)
    /\ ErrorKept(old, new, via)
    /\ IdsKept(old, new, via)

\* The id that MCP and A2A emit is the request's or the row's own.
LEMMA RequestIdFacts ==
    ASSUME NEW m \in Message
    PROVE  /\ RequestIdForEmit(m) # Absent
           /\ RequestIdForEmit(m) \in {m.meta.requestId, m.id}
           /\ Given(m.meta.requestId) => RequestIdForEmit(m) = m.meta.requestId
<1>1. m.id \in Nat BY DEF Message
<1> QED BY <1>1, SpecialFacts DEF RequestIdForEmit, Or, Given

\* A hop over MCP.
LEMMA McpHop ==
    ASSUME NEW m \in Message, McpEmit(m) # Refused
    PROVE  \/ Ingest(McpEmit(m)) = Refused /\ m.meta.result = "null"
           \/ Ingest(McpEmit(m)) # Refused /\ Hop(m, Ingest(McpEmit(m)), "mcp")
<1> PICK w : w = McpEmit(m) OBVIOUS
<1> PICK e : e = Ingest(w) OBVIOUS
<1>1. McpCarries(m, w) BY McpEmitted
<1>2. w \in McpRow /\ w.id # Absent BY <1>1, RequestIdFacts DEF McpCarries
<1>3. Absent \notin Int /\ Absent # "tools/call" BY SpecialFacts DEF Literals
<1>a. EffectiveTag(m) = ResponseError /\ w.code # Absent =>
         w.code = m.meta.code \/ Truncates(m.meta.code, w.code)
  <2>1. m.meta.code \in Codes BY DEF Message, Meta
  <2> QED BY <1>1, <2>1, CodeFacts, Families, SuccessIsNoError DEF McpCarries
<1>b. EffectiveTag(m) \notin {RequestAction, ResponseSuccess} =>
         w.code # Absent /\ w.message = m.meta.message
  <2>1. m.meta.code \in Codes BY DEF Message, Meta
  <2> QED BY <1>1, <1>3, <2>1, CodeFacts DEF McpCarries
<1>c. w.version = "2.0" BY <1>1 DEF McpCarries
<1>4. CASE e = Refused /\ McpUnmapped(w)
  <2>1. w.code = Absent /\ ~HasResult(w) /\ (w.method # "tools/call" \/ w.action = Absent)
    BY <1>2, <1>4, <1>c DEF McpUnmapped
  <2>2. w.result # Absent /\ w.result = m.meta.result
    BY <1>1, <1>b, <2>1, Families, SuccessIsNoError DEF McpCarries
  <2> QED BY <1>4, <2>1, <2>2 DEF HasResult
<1>5. CASE WellMade(e) /\ e # Refused /\ McpMapped(w, e.meta)
  <2>1. EffectiveTag(e) = e.meta.tag /\ e.meta.taskId = Absent
    BY <1>5 DEF WellMade, McpMapped
  <2>2. EffectiveTag(e) = EffectiveTag(m)
    <3>1. CASE EffectiveTag(m) = RequestAction
      BY <1>1, <1>2, <1>3, <1>5, <2>1, <3>1, Families DEF McpCarries, McpMapped, HasResult
    <3>2. CASE EffectiveTag(m) = ResponseSuccess
      BY <1>1, <1>2, <1>3, <1>5, <2>1, <3>2, Families, SuccessIsNoError
      DEF McpCarries, McpMapped, HasResult
    <3>3. CASE EffectiveTag(m) \notin {RequestAction, ResponseSuccess}
      <4>1. EffectiveTag(m) = ResponseError BY <1>1, <3>3 DEF McpCarries
      <4> QED BY <1>2, <1>5, <1>b, <2>1, <3>3, <4>1 DEF McpMapped
    <3> QED BY <3>1, <3>2, <3>3
  <2>3. ~PanicProne(e)
    BY <1>1, <2>2, Families DEF McpCarries, PanicProne
  <2>4. ErrorKept(m, e, "mcp")
    <3>1. SUFFICES ASSUME EffectiveTag(e) = ResponseError
                   PROVE  /\ e.meta.code = m.meta.code \/ Truncates(m.meta.code, e.meta.code)
                          /\ e.meta.message = m.meta.message
      BY DEF ErrorKept
    <3>2. EffectiveTag(m) # RequestAction /\ EffectiveTag(m) # ResponseSuccess
      BY <2>2, <3>1, Families, SuccessIsNoError
    <3>3. /\ w.code # Absent /\ w.message = m.meta.message
          /\ w.code = m.meta.code \/ Truncates(m.meta.code, w.code)
      BY <1>a, <1>b, <2>2, <3>1, <3>2
    <3>4. e.meta.code = w.code /\ e.meta.message = w.message
      BY <1>2, <1>5, <3>3 DEF McpMapped
    <3> QED BY <3>3, <3>4
  <2>5. IdsKept(m, e, "mcp")
    <3>1. e.meta.requestId \in {Absent, m.meta.requestId, m.id}
      BY <1>1, <1>5, RequestIdFacts DEF McpCarries, McpMapped, IdOrAbsent
    <3>2. ASSUME ~RequiresResponse(EffectiveTag(m)), Given(m.meta.requestId)
          PROVE  e.meta.requestId = m.meta.requestId
      <4>1. EffectiveTag(e) # RequestAction BY <2>2, <3>2, Families DEF RequiresResponse
      <4>2. e.meta.requestId = IdOrAbsent(w.id) BY <1>2, <1>5, <2>1, <4>1 DEF McpMapped
      <4> QED BY <1>1, <3>2, <4>2, RequestIdFacts DEF McpCarries, IdOrAbsent
    <3> QED BY <2>1, <3>1, <3>2 DEF IdsKept
  <2>6. TagKept(m, e, "mcp") BY <2>2 DEF TagKept
  <2> QED BY <1>5, <2>2, <2>3, <2>4, <2>5, <2>6 DEF Hop
<1> QED BY <1>2, <1>4, <1>5, McpTaken

\* A hop over A2A, which takes whatever it emits.
LEMMA A2aHop ==
    ASSUME NEW m \in Message, A2aEmit(m) # Refused
    PROVE  Ingest(A2aEmit(m)) # Refused /\ Hop(m, Ingest(A2aEmit(m)), "a2a")
<1> PICK w : w = A2aEmit(m) OBVIOUS
<1> PICK e : e = Ingest(w) OBVIOUS
<1>1. A2aCarries(m, w) BY A2aEmitted
<1>2. w \in A2aRow BY <1>1 DEF A2aCarries
<1>3. Absent \notin {"completed", "failed", "in_progress", "text", "default"}
  BY SpecialFacts DEF Literals, Contents
<1>4. TaskIdForEmit(m) # Absent BY TaskIdFacts, SpecialFacts
<1>5. ~A2aUnmapped(w) BY <1>1, <1>3, <1>4 DEF A2aCarries, A2aUnmapped
<1>6. WellMade(e) /\ e # Refused /\ A2aMapped(w, e.meta, e.content)
  BY <1>2, <1>5, A2aTaken
<1>7. EffectiveTag(e) = e.meta.tag /\ e.meta.requestId = Absent
  BY <1>6 DEF WellMade, A2aMapped
<1>8. CASE w.method = "message/send"
  <2>1. RequiresResponse(EffectiveTag(m)) BY <1>1, <1>8 DEF A2aCarries, RequiresResponse
  <2>2. e.meta.tag \in {RequestAction, RequestData} /\ e.meta.taskId = Absent
    BY <1>6, <1>8 DEF A2aMapped
  <2>3. ~PanicProne(e) BY <1>7, <2>2, Families DEF PanicProne
  <2>4. EffectiveTag(e) # ResponseError BY <1>7, <2>2, Families
  <2>5. TagKept(m, e, "a2a") BY <1>7, <2>1, <2>2 DEF TagKept
  <2>6. IdsKept(m, e, "a2a") BY <1>7, <2>1, <2>2 DEF IdsKept
  <2> QED BY <1>6, <2>1, <2>3, <2>4, <2>5, <2>6 DEF Hop, ErrorKept
<1>9. CASE w.method = "task/update"
  <2>1. /\ w.taskId = TaskIdForEmit(m)
        /\ \/ EffectiveTag(m) = ResponseSuccess /\ w.status = "completed"
           \/ /\ EffectiveTag(m) = ResponseError /\ w.status = "failed"
              /\ w.code = m.meta.code
              /\ w.message = IF Given(m.meta.message) THEN m.meta.message ELSE Absent
           \/ ParseTagFamily(EffectiveTag(m)) = "progress" /\ w.status = "in_progress"
    BY <1>1, <1>9 DEF A2aCarries
  <2>2. /\ e.meta.taskId = w.taskId
        /\ e.content = "{}"
        /\ \/ w.status = "completed" /\ e.meta.tag = ResponseSuccess
           \/ w.status = "in_progress" /\ e.meta.tag = ProgressUpdate
           \/ /\ w.status = "failed" /\ e.meta.tag = ResponseError
              /\ e.meta.code = Or(w.code, Word)
              /\ e.meta.message = Or(w.message, "default")
    BY <1>6, <1>9 DEF A2aMapped
  <2>3. ~PanicProne(e) BY <2>2 DEF PanicProne, Filled
  <2>4. ~RequiresResponse(EffectiveTag(e)) BY <1>7, <2>2, Families DEF RequiresResponse
  <2>5. TagKept(m, e, "a2a") BY <1>7, <2>1, <2>2 DEF TagKept
  <2>6. ErrorKept(m, e, "a2a")
    <3>1. SUFFICES ASSUME EffectiveTag(e) = ResponseError
                   PROVE  /\ e.meta.code = m.meta.code \/ m.meta.code = Absent
                          /\ e.meta.message = m.meta.message \/ ~Given(m.meta.message)
      BY DEF ErrorKept
    <3>2. e.meta.tag # ResponseSuccess /\ e.meta.tag # ProgressUpdate
      BY <1>7, <3>1, Families, SuccessIsNoError
    <3>3. w.status = "failed" /\ e.meta.code = Or(w.code, Word)
          /\ e.meta.message = Or(w.message, "default")
      BY <2>2, <3>2
    <3>4. w.code = m.meta.code
          /\ w.message = IF Given(m.meta.message) THEN m.meta.message ELSE Absent
      BY <2>1, <3>3
    <3> QED BY <3>3, <3>4 DEF Or, Given
  <2>7. IdsKept(m, e, "a2a") BY <1>7, <2>1, <2>2, TaskIdFacts DEF IdsKept
  <2> QED BY <1>6, <2>3, <2>4, <2>5, <2>6, <2>7 DEF Hop
<1> QED BY <1>1, <1>6, <1>8, <1>9 DEF A2aCarries

\* A hop over gRPC, which takes whatever it emits.
LEMMA GrpcHop ==
    ASSUME NEW m \in Message, GrpcEmit(m) # Refused, GrpcEmit(m) # Panic
    PROVE  Ingest(GrpcEmit(m)) # Refused /\ Hop(m, Ingest(GrpcEmit(m)), "grpc")
<1> PICK w : w = GrpcEmit(m) OBVIOUS
<1> PICK e : e = Ingest(w) OBVIOUS
<1>1. GrpcCarries(m, w) BY GrpcEmitted
<1>2. w \in GrpcRow BY <1>1 DEF GrpcCarries
<1>3. Absent \notin {"OK", "ERROR", "object", "half", "other", "service/method"}
  BY SpecialFacts DEF Literals, Shapes, ActionNames
<1>4. GrpcValid(w) BY <1>1, <1>3 DEF GrpcCarries, GrpcValid
<1>5. WellMade(e) /\ e # Refused /\ GrpcMapped(w, e.meta) BY <1>2, <1>4, GrpcTaken
<1>6. EffectiveTag(e) = e.meta.tag /\ e.meta.taskId = Absent
  BY <1>5 DEF WellMade, GrpcMapped
<1>7. w.id = IF Given(m.meta.requestId) THEN m.meta.requestId ELSE m.id
  BY <1>1 DEF GrpcCarries
<1>8. m.id # Absent BY SpecialFacts DEF Message
<1>9. e.meta.requestId \in {Absent, IdOrAbsent(w.id)} BY <1>5 DEF GrpcMapped
<1>10. e.meta.requestId \in {Absent, m.meta.requestId, m.id}
  BY <1>7, <1>9 DEF IdOrAbsent
<1>11. Given(m.meta.requestId) => IdOrAbsent(w.id) = m.meta.requestId
  BY <1>7 DEF IdOrAbsent
<1>12. CASE w.type = "stream"
  <2>1. ParseTagFamily(EffectiveTag(m)) = "progress" BY <1>1, <1>12 DEF GrpcCarries
  <2>2. e.meta.tag = ProgressUpdate /\ e.meta.update = "object"
        /\ e.meta.requestId = IdOrAbsent(w.id)
    BY <1>5, <1>12 DEF GrpcMapped
  <2>3. ~PanicProne(e) BY <1>3, <2>2 DEF PanicProne
  <2>4. ~RequiresResponse(EffectiveTag(e)) BY <1>6, <2>2, Families DEF RequiresResponse
  <2>5. TagKept(m, e, "grpc") BY <1>6, <2>1, <2>2 DEF TagKept
  <2>6. EffectiveTag(e) # ResponseError BY <1>6, <2>2, Families
  <2>7. IdsKept(m, e, "grpc") BY <1>6, <1>10, <1>11, <2>2 DEF IdsKept
  <2> QED BY <1>5, <2>3, <2>4, <2>5, <2>6, <2>7 DEF Hop, ErrorKept
<1>13. CASE w.type = "unary"
  <2>1. \/ EffectiveTag(m) = RequestAction /\ w.status = Absent
        \/ EffectiveTag(m) = ResponseSuccess /\ w.status = "OK"
        \/ /\ EffectiveTag(m) = ResponseError /\ w.status = "ERROR"
           /\ IsNumber(m.meta.code) /\ w.code = ParseErrorCode(m.meta.code)
           /\ w.message = m.meta.message
    BY <1>1, <1>13 DEF GrpcCarries
  <2>2. \/ w.status = Absent /\ e.meta.tag = RequestAction /\ e.meta.requestId = Absent
        \/ /\ w.status = "OK" /\ e.meta.tag = ResponseSuccess
           /\ e.meta.requestId = IdOrAbsent(w.id)
        \/ /\ w.status = "ERROR" /\ e.meta.tag = ResponseError
           /\ e.meta.code = w.code /\ e.meta.message = w.message
           /\ e.meta.requestId = IdOrAbsent(w.id)
    BY <1>5, <1>13 DEF GrpcMapped
  <2>3. EffectiveTag(e) = EffectiveTag(m) BY <1>3, <1>6, <2>1, <2>2
  <2>4. ~PanicProne(e) BY <1>6, <2>2, Families DEF PanicProne
  <2>5. ErrorKept(m, e, "grpc")
    <3>1. SUFFICES ASSUME EffectiveTag(e) = ResponseError
                   PROVE  /\ e.meta.code = m.meta.code \/ Truncates(m.meta.code, e.meta.code)
                          /\ e.meta.message = m.meta.message
      BY DEF ErrorKept
    <3>2. EffectiveTag(m) # RequestAction /\ EffectiveTag(m) # ResponseSuccess
      BY <2>3, <3>1, Families, SuccessIsNoError
    <3>3. /\ IsNumber(m.meta.code) /\ e.meta.code = ParseErrorCode(m.meta.code)
          /\ e.meta.message = m.meta.message
      BY <1>3, <2>1, <2>2, <3>2
    <3>4. m.meta.code \in Codes BY DEF Message, Meta
    <3> QED BY <3>3, <3>4, CodeFacts
  <2>6. ASSUME ~RequiresResponse(EffectiveTag(m)) PROVE e.meta.requestId = IdOrAbsent(w.id)
    <3>1. e.meta.tag # RequestAction BY <1>6, <2>3, <2>6, Families DEF RequiresResponse
    <3> QED BY <2>2, <3>1
  <2>7. IdsKept(m, e, "grpc") BY <1>6, <1>10, <1>11, <2>6 DEF IdsKept
  <2>8. TagKept(m, e, "grpc") BY <2>3 DEF TagKept
  <2> QED BY <1>5, <2>3, <2>4, <2>5, <2>7, <2>8 DEF Hop
<1>14. w.type \in {"unary", "stream"} BY <1>4 DEF GrpcValid
<1> QED BY <1>5, <1>12, <1>13, <1>14

\* A hop over any protocol.
LEMMA HopFacts ==
    ASSUME NEW m \in Message, NEW proto \in Protocols, Emit(proto, m) \notin {Refused, Panic}
    PROVE  \/ /\ Ingest(Emit(proto, m)) = Refused
              /\ proto = "mcp" /\ m.meta.result = "null"
           \/ /\ Ingest(Emit(proto, m)) # Refused
              /\ Hop(m, Ingest(Emit(proto, m)), proto)
<1>1. CASE proto = "mcp"
  <2>1. Emit(proto, m) = McpEmit(m) BY <1>1 DEF Emit
  <2> QED BY <1>1, <2>1, McpHop
<1>2. CASE proto = "a2a"
  <2>1. Emit(proto, m) = A2aEmit(m) BY <1>2 DEF Emit
  <2> QED BY <1>2, <2>1, A2aHop
<1>3. CASE proto = "grpc"
  <2>1. Emit(proto, m) = GrpcEmit(m) BY <1>3 DEF Emit
  <2> QED BY <1>3, <2>1, GrpcHop
<1> QED BY <1>1, <1>2, <1>3 DEF Protocols

\* The source_id after a hop is the _request_id of the message, if it has one.
LEMMA HopSource ==
    ASSUME NEW m \in Message, NEW proto \in Protocols, Emit(proto, m) \notin {Refused, Panic}
    PROVE  /\ SourceId(Emit(proto, m)) \in Ids
           /\ Given(m.meta.requestId) => SourceId(Emit(proto, m)) = m.meta.requestId
<1> PICK w : w = Emit(proto, m) OBVIOUS
<1>1. m.meta \in Meta /\ m.id \in Nat BY DEF Message
<1>2. /\ w.id \in {m.meta.requestId, m.id}
      /\ Given(m.meta.requestId) => w.id = m.meta.requestId
  <2>1. CASE proto = "mcp"
    <3>1. w = McpEmit(m) BY <2>1 DEF Emit
    <3>2. w.id = RequestIdForEmit(m) BY <3>1, McpEmitted DEF McpCarries
    <3> QED BY <3>2, RequestIdFacts
  <2>2. CASE proto = "a2a"
    <3>1. w = A2aEmit(m) BY <2>2 DEF Emit
    <3>2. w.id = RequestIdForEmit(m) BY <3>1, A2aEmitted DEF A2aCarries
    <3> QED BY <3>2, RequestIdFacts
  <2>3. CASE proto = "grpc"
    <3>1. w = GrpcEmit(m) BY <2>3 DEF Emit
    <3>2. w.id = IF Given(m.meta.requestId) THEN m.meta.requestId ELSE m.id
      BY <3>1, GrpcEmitted DEF GrpcCarries
    <3> QED BY <3>2
  <2> QED BY <2>1, <2>2, <2>3 DEF Protocols
<1>3. w.id \in Ids BY <1>1, <1>2 DEF Meta, Ids
<1> QED BY <1>2, <1>3 DEF SourceId, IdOrAbsent, Ids

-----------------------------------------------------------------------------
(* Answers.                                                                *)

\* The wire messages of each protocol have the types of its rows.
LEMMA WireTypes ==
    /\ McpWire \subseteq McpRow /\ A2aWire \subseteq A2aRow /\ GrpcWire \subseteq GrpcRow
    /\ \A r \in Wires : /\ r.proto = "mcp" => r \in McpRow
                        /\ r.proto = "a2a" => r \in A2aRow
                        /\ r.proto = "grpc" => r \in GrpcRow
                        /\ r.proto \in Protocols
<1>0. /\ WholeCodes \cup {Absent} \subseteq Codes \ {Word}
      /\ PeerCodes \cup {Absent, Word} \subseteq Codes
      /\ WholeCodes \cup {0} \subseteq Int
  <2>1. PeerCodes \subseteq Int BY AdaptersAssumption DEF AdaptersAssumption
  <2>2. WholeCodes \subseteq Int BY <2>1 DEF WholeCodes
  <2>3. Absent # Word /\ Word \notin Int BY SpecialFacts
  <2>4. WholeCodes \cup {Absent} \subseteq Codes \ {Word} BY <2>2, <2>3 DEF Codes
  <2>5. PeerCodes \cup {Absent, Word} \subseteq Codes BY <2>1 DEF Codes
  <2>6. WholeCodes \cup {0} \subseteq Int BY <2>2
  <2> QED BY <2>4, <2>5, <2>6
<1>1. McpWire \subseteq McpRow BY <1>0 DEF McpWire, McpRow, Ids, PeerId
<1>2. A2aWire \subseteq A2aRow BY <1>0 DEF A2aWire, A2aRow, Ids, PeerId
<1>3. GrpcWire \subseteq GrpcRow BY <1>0 DEF GrpcWire, GrpcRow, Ids, PeerId
<1>4. /\ \A r \in McpRow : r.proto = "mcp"
      /\ \A r \in A2aRow : r.proto = "a2a"
      /\ \A r \in GrpcRow : r.proto = "grpc"
  BY DEF McpRow, A2aRow, GrpcRow
<1> QED BY <1>1, <1>2, <1>3, <1>4 DEF Wires, Protocols

\* Envelope e is the answer r to w, which message m was emitted as.
Reply(m, w, r, e, via) ==
    /\ r.id = w.id
    /\ WellMade(e)
    /\ ~PanicProne(e)
    /\ ~RequiresResponse(EffectiveTag(e))
    /\ w.id # Absent
    /\ w.id \in {m.meta.requestId, m.id}
    /\ e.meta.requestId \in {Absent, w.id}
    /\ e.meta.taskId \in {Absent, PeerId, m.meta.taskId, m.meta.requestId, m.id}
    /\ via # "a2a" => e.meta.taskId = Absent /\ (Given(w.id) => e.meta.requestId = w.id)

\* Answers over MCP.
LEMMA McpReply ==
    ASSUME NEW m \in Message, McpEmit(m) # Refused,
           NEW r \in AnswersTo(McpEmit(m)), Ingest(r) # Refused
    PROVE  Reply(m, McpEmit(m), r, Ingest(r), "mcp")
<1> PICK w : w = McpEmit(m) OBVIOUS
<1> PICK e : e = Ingest(r) OBVIOUS
<1>1. w \in McpRow /\ w.id = RequestIdForEmit(m) BY McpEmitted DEF McpCarries
<1>2. w.proto = "mcp" BY <1>1 DEF McpRow
<1>3. PICK q \in Wires : q.proto = "mcp" /\ q.method = Absent /\ r = [q EXCEPT !.id = w.id]
  BY <1>2 DEF AnswersTo
<1>4. q \in McpRow BY <1>3, WireTypes
<1>5. r \in McpRow /\ r.id = w.id /\ r.method = Absent BY <1>1, <1>3, <1>4 DEF McpRow
<1>6. w.id # Absent /\ w.id \in {m.meta.requestId, m.id} BY <1>1, RequestIdFacts
<1>7. WellMade(e) /\ McpMapped(r, e.meta) BY <1>5, McpTaken
<1>8. r.method # "tools/call" BY <1>5, SpecialFacts DEF Literals
<1>9. /\ e.meta.tag \in {ResponseError, ResponseSuccess}
      /\ e.meta.requestId = IdOrAbsent(w.id) /\ e.meta.taskId = Absent
  BY <1>5, <1>6, <1>7, <1>8 DEF McpMapped
<1>10. EffectiveTag(e) = e.meta.tag BY <1>7 DEF WellMade
<1>11. ~PanicProne(e) /\ ~RequiresResponse(EffectiveTag(e))
  BY <1>9, <1>10, Families DEF PanicProne, RequiresResponse
<1> QED BY <1>5, <1>6, <1>7, <1>9, <1>11 DEF Reply, IdOrAbsent

\* Answers over A2A.
LEMMA A2aReply ==
    ASSUME NEW m \in Message, A2aEmit(m) # Refused,
           NEW r \in AnswersTo(A2aEmit(m)), Ingest(r) # Refused
    PROVE  Reply(m, A2aEmit(m), r, Ingest(r), "a2a")
<1> PICK w : w = A2aEmit(m) OBVIOUS
<1> PICK e : e = Ingest(r) OBVIOUS
<1>1. w \in A2aRow /\ w.id = RequestIdForEmit(m) /\ w.taskId \in {m.meta.taskId, TaskIdForEmit(m)}
  BY A2aEmitted DEF A2aCarries
<1>2. w.proto = "a2a" BY <1>1 DEF A2aRow
<1>3. PICK q \in Wires : /\ q.proto = "a2a" /\ q.method = "task/update"
                         /\ r = [q EXCEPT !.id = w.id, !.taskId = Or(w.taskId, PeerId)]
  BY <1>2 DEF AnswersTo
<1>4. q \in A2aRow BY <1>3, WireTypes
<1>5. PICK task \in Nat : task = Or(w.taskId, PeerId)
  BY <1>1 DEF A2aRow, Or, PeerId
<1>6. r = [q EXCEPT !.id = w.id, !.taskId = task] BY <1>3, <1>5
<1>7. w.id \in Ids BY <1>1 DEF A2aRow
<1>8. r \in A2aRow /\ r.id = w.id /\ r.method = "task/update" /\ r.taskId = task
  BY <1>3, <1>4, <1>6, <1>7 DEF A2aRow
<1>9. w.id # Absent /\ w.id \in {m.meta.requestId, m.id} BY <1>1, RequestIdFacts
<1>10. task \in {PeerId, m.meta.taskId, m.meta.requestId, m.id}
  BY <1>1, <1>5, TaskIdFacts DEF Or
<1>11. WellMade(e) /\ A2aMapped(r, e.meta, e.content) BY <1>8, A2aTaken
<1>12. /\ e.meta.tag \in {ResponseError, ResponseSuccess, ProgressUpdate}
       /\ e.meta.requestId = Absent /\ e.meta.taskId = task /\ e.content = "{}"
  BY <1>8, <1>11 DEF A2aMapped
<1>13. EffectiveTag(e) = e.meta.tag BY <1>11 DEF WellMade
<1>14. ~RequiresResponse(EffectiveTag(e)) BY <1>12, <1>13, Families DEF RequiresResponse
<1>15. ~PanicProne(e) BY <1>12 DEF PanicProne, Filled
<1> QED BY <1>8, <1>9, <1>10, <1>11, <1>12, <1>14, <1>15 DEF Reply

\* Answers over gRPC.
LEMMA GrpcReply ==
    ASSUME NEW m \in Message, GrpcEmit(m) # Refused, GrpcEmit(m) # Panic,
           NEW r \in AnswersTo(GrpcEmit(m)), Ingest(r) # Refused
    PROVE  Reply(m, GrpcEmit(m), r, Ingest(r), "grpc")
<1> PICK w : w = GrpcEmit(m) OBVIOUS
<1> PICK e : e = Ingest(r) OBVIOUS
<1>1. w \in GrpcRow /\ w.id = IF Given(m.meta.requestId) THEN m.meta.requestId ELSE m.id
  BY GrpcEmitted DEF GrpcCarries
<1>2. w.proto = "grpc" BY <1>1 DEF GrpcRow
<1>3. PICK q \in Wires : /\ q.proto = "grpc" /\ q.type = "unary" /\ q.status # Absent
                         /\ r = [q EXCEPT !.id = w.id]
  BY <1>2 DEF AnswersTo
<1>4. q \in GrpcRow BY <1>3, WireTypes
<1>5. w.id \in Ids BY <1>1 DEF GrpcRow
<1>6. r \in GrpcRow /\ r.id = w.id /\ r.type = "unary" /\ r.status # Absent
  BY <1>3, <1>4, <1>5 DEF GrpcRow
<1>7. m.id # Absent BY SpecialFacts DEF Message
<1>8. w.id # Absent /\ w.id \in {m.meta.requestId, m.id} BY <1>1, <1>7 DEF Given
<1>9. WellMade(e) /\ GrpcMapped(r, e.meta) BY <1>6, GrpcTaken
<1>10. /\ e.meta.tag \in {ResponseError, ResponseSuccess}
       /\ e.meta.requestId = IdOrAbsent(w.id) /\ e.meta.taskId = Absent
  BY <1>6, <1>9 DEF GrpcMapped
<1>11. EffectiveTag(e) = e.meta.tag BY <1>9 DEF WellMade
<1>12. ~PanicProne(e) /\ ~RequiresResponse(EffectiveTag(e))
  BY <1>10, <1>11, Families DEF PanicProne, RequiresResponse
<1> QED BY <1>6, <1>8, <1>9, <1>10, <1>12 DEF Reply, IdOrAbsent

\* Answers over any protocol.
LEMMA ReplyFacts ==
    ASSUME NEW m \in Message, NEW proto \in Protocols, Emit(proto, m) \notin {Refused, Panic},
           NEW r \in AnswersTo(Emit(proto, m)), Ingest(r) # Refused
    PROVE  Reply(m, Emit(proto, m), r, Ingest(r), proto)
<1>1. CASE proto = "mcp"
  <2>1. Emit(proto, m) = McpEmit(m) BY <1>1 DEF Emit
  <2> QED BY <1>1, <2>1, McpReply
<1>2. CASE proto = "a2a"
  <2>1. Emit(proto, m) = A2aEmit(m) BY <1>2 DEF Emit
  <2> QED BY <1>2, <2>1, A2aReply
<1>3. CASE proto = "grpc"
  <2>1. Emit(proto, m) = GrpcEmit(m) BY <1>3 DEF Emit
  <2> QED BY <1>3, <2>1, GrpcReply
<1> QED BY <1>1, <1>2, <1>3 DEF Protocols

\* What a peer has ingested first.
LEMMA FirstTaken ==
    ASSUME NEW w \in Wires, Ingest(w) # Refused
    PROVE  /\ WellMade(Ingest(w)) /\ ~PanicProne(Ingest(w)) /\ w.proto \in Protocols
           /\ Ingest(w).meta.requestId \in {Absent, PeerId}
           /\ Ingest(w).meta.taskId \in {Absent, PeerId}
           /\ SourceId(w) \in Ids
<1> PICK e : e = Ingest(w) OBVIOUS
<1>0. w.proto \in Protocols BY WireTypes
<1>a. Absent # "object" BY SpecialFacts DEF Literals, Shapes
<1>b. SourceId(w) \in Ids
  <2>1. w.id \in Ids BY <1>0, WireTypes DEF Protocols, McpRow, A2aRow, GrpcRow
  <2> QED BY <2>1 DEF SourceId, IdOrAbsent, Ids
<1>1. CASE w.proto = "mcp"
  <2>1. w \in McpRow BY <1>1, WireTypes
  <2>2. w.id \in {Absent, Blank, PeerId}
    BY <1>1 DEF Wires, McpWire, A2aWire, GrpcWire
  <2>3. WellMade(e) /\ McpMapped(w, e.meta) BY <2>1, McpTaken
  <2>4. EffectiveTag(e) = e.meta.tag BY <2>3 DEF WellMade
  <2>5. ~PanicProne(e) BY <2>3, <2>4, Families DEF McpMapped, PanicProne
  <2>6. e.meta.requestId \in {Absent, PeerId} /\ e.meta.taskId = Absent
    BY <2>2, <2>3 DEF McpMapped, IdOrAbsent, Given
  <2> QED BY <1>0, <1>b, <2>3, <2>5, <2>6
<1>2. CASE w.proto = "a2a"
  <2>1. w \in A2aRow BY <1>2, WireTypes
  <2>2. w.taskId \in {Absent, PeerId}
    BY <1>2 DEF Wires, McpWire, A2aWire, GrpcWire
  <2>3. WellMade(e) /\ A2aMapped(w, e.meta, e.content) BY <2>1, A2aTaken
  <2>4. EffectiveTag(e) = e.meta.tag BY <2>3 DEF WellMade
  <2>5. ~PanicProne(e) BY <2>3, <2>4, Families DEF A2aMapped, PanicProne, Filled
  <2>6. e.meta.requestId = Absent /\ e.meta.taskId \in {Absent, PeerId}
    BY <2>2, <2>3 DEF A2aMapped
  <2> QED BY <1>0, <1>b, <2>3, <2>5, <2>6
<1>3. CASE w.proto = "grpc"
  <2>1. w \in GrpcRow BY <1>3, WireTypes
  <2>2. w.id \in {Absent, PeerId}
    BY <1>3 DEF Wires, McpWire, A2aWire, GrpcWire
  <2>3. WellMade(e) /\ GrpcMapped(w, e.meta) BY <2>1, GrpcTaken
  <2>4. EffectiveTag(e) = e.meta.tag BY <2>3 DEF WellMade
  <2>5. ~PanicProne(e) BY <1>a, <2>3, <2>4, Families DEF GrpcMapped, PanicProne
  <2>6. e.meta.requestId \in {Absent, PeerId} /\ e.meta.taskId = Absent
    BY <2>2, <2>3 DEF GrpcMapped, IdOrAbsent, Given
  <2> QED BY <1>0, <1>b, <2>3, <2>5, <2>6
<1> QED BY <1>0, <1>1, <1>2, <1>3 DEF Protocols

-----------------------------------------------------------------------------
(* Every step stores one message, which begins the thread, continues it or *)
(* answers it.                                                             *)

\* The first message.
Begins(new) ==
    /\ thread = <<>>
    /\ new.via # "replayed"
    /\ new.answers = Absent
    /\ PanicProne(new) => new.via = "sent"
    /\ new.meta.requestId \in {Absent, Blank, PeerId}
    /\ new.meta.taskId \in {Absent, PeerId}

\* A replay or a relay of old.
Carries(old, new) ==
    /\ new.via # "sent"
    /\ new.answers = old.answers
    /\ PanicProne(new) => new.via = "replayed" /\ PanicProne(old)
    /\ RequiresResponse(EffectiveTag(new)) => RequiresResponse(EffectiveTag(old))
    /\ TagKept(old, new, new.via)
    /\ ErrorKept(old, new, new.via)
    /\ new.meta.requestId \in {Absent, old.meta.requestId, old.id}
    /\ new.meta.taskId \in {Absent, old.meta.taskId, old.meta.requestId, old.id}
    /\ \/ /\ new.via = "replayed"
          /\ new.meta.requestId = old.meta.requestId
          /\ new.meta.taskId = old.meta.taskId
          /\ new.source = old.source
       \/ /\ new.via # "replayed"
          /\ IdsKept(old, new, new.via)
          /\ Given(old.meta.requestId) => new.source = old.meta.requestId

\* An answer to old.
Replies(old, new) ==
    /\ new.via \in Protocols
    /\ RequiresResponse(EffectiveTag(old))
    /\ ~RequiresResponse(EffectiveTag(new))
    /\ ~PanicProne(new)
    /\ new.answers # Absent
    /\ new.answers \in {old.meta.requestId, old.id}
    /\ new.meta.requestId \in {Absent, new.answers}
    /\ new.meta.taskId \in {Absent, PeerId, old.meta.taskId, old.meta.requestId, old.id}
    /\ new.via # "a2a" => /\ new.meta.taskId = Absent
                          /\ Given(new.answers) => new.meta.requestId = new.answers
    /\ Given(new.answers) => new.source = new.answers

Grows(new) ==
    /\ new \in Message
    /\ new.id = Len(thread) + 1
    /\ Validate(new)
    /\ thread' = Append(thread, new)
    /\ Len(thread) < MaxThread
    /\ \/ Begins(new)
       \/ thread # <<>> /\ Carries(Newest, new)
       \/ thread # <<>> /\ Replies(Newest, new)

\* The fields of a stored envelope.
LEMMA StoredFacts ==
    ASSUME thread \in Seq(Message),
           NEW env, env.tag \in Seq(STRING), env.meta \in Meta, env.content \in Contents,
           NEW source \in Ids, NEW via \in Origins, NEW answers \in Ids
    PROVE  LET new == Stored(env, source, via, answers)
           IN  /\ new \in Message
               /\ new.id = Len(thread) + 1 /\ new.tag = env.tag /\ new.meta = env.meta
               /\ new.content = env.content /\ new.via = via /\ new.answers = answers
               /\ new.source = source
               /\ EffectiveTag(new) = EffectiveTag(env)
               /\ Validate(new) <=> Validate(env)
               /\ PanicProne(new) <=> PanicProne(env)
<1> PICK new : new = Stored(env, source, via, answers) OBVIOUS
<1>1. Len(thread) + 1 \in Nat OBVIOUS
<1>2. /\ new \in Message
      /\ new.id = Len(thread) + 1 /\ new.tag = env.tag /\ new.meta = env.meta
      /\ new.content = env.content /\ new.via = via /\ new.answers = answers
      /\ new.source = source
  BY <1>1 DEF Stored, Message
<1>3. EffectiveTag(new) = EffectiveTag(env) BY <1>2 DEF EffectiveTag
<1>4. (Validate(new) <=> Validate(env)) /\ (PanicProne(new) <=> PanicProne(env))
  BY <1>2, <1>3 DEF Validate, PanicProne
<1> QED BY <1>2, <1>3, <1>4

\* The newest message is a message.
LEMMA NewestFacts ==
    ASSUME thread \in Seq(Message), thread # <<>>
    PROVE  /\ Newest \in Message /\ Newest.meta \in Meta /\ Newest.answers \in Ids
           /\ Newest.content \in Contents /\ Newest.id \in Nat /\ Newest.tag \in Seq(STRING)
           /\ Newest.source \in Ids
<1>1. Newest \in Message BY DEF Newest
<1> QED BY <1>1 DEF Message

\* Send.
LEMMA SendGrows ==
    ASSUME thread \in Seq(Message), NEW tag \in SendTags, NEW content \in SendContents,
           NEW meta \in SendMetas, Send(tag, content, meta)
    PROVE  \E new : Grows(new)
<1> PICK env : env = [tag |-> tag, meta |-> meta, content |-> content] OBVIOUS
<1>1. env.tag = tag /\ env.meta = meta /\ env.content = content OBVIOUS
<1>2. tag \in Seq(STRING) /\ meta \in Meta /\ content \in Contents
      /\ meta.requestId \in {Absent, Blank, PeerId} /\ meta.taskId \in {Absent, PeerId}
      /\ MaxThread \in Nat \ {0}
  BY BridgeAssumption DEF BridgeAssumption
<1>3. PICK new : new = Stored(env, Absent, "sent", Absent) OBVIOUS
<1>4. thread = <<>> /\ Validate(env) /\ thread' = Append(thread, new)
  BY <1>3 DEF Send, Append1
<1>5. "sent" \in Origins /\ Absent \in Ids BY DEF Origins, Ids
<1>6. new \in Message /\ new.id = Len(thread) + 1 /\ new.meta = meta /\ new.via = "sent"
      /\ new.answers = Absent /\ Validate(new)
  BY <1>1, <1>2, <1>3, <1>4, <1>5, StoredFacts
<1>7. Len(thread) < MaxThread BY <1>2, <1>4
<1>8. Begins(new) BY <1>2, <1>4, <1>6 DEF Begins
<1> QED BY <1>4, <1>6, <1>7, <1>8 DEF Grows

\* An envelope of an adapter has the fields that StoredFacts asks for.
LEMMA WellMadeFacts ==
    ASSUME NEW e, WellMade(e)
    PROVE  e.tag \in Seq(STRING) /\ e.meta \in Meta /\ e.content \in Contents /\ Validate(e)
<1>1. e \in EnvelopeRow /\ Validate(e) BY DEF WellMade
<1>2. <<>> \in Seq(STRING) OBVIOUS
<1> QED BY <1>1, <1>2 DEF EnvelopeRow

\* AdapterIngest.
LEMMA IngestGrows ==
    ASSUME thread \in Seq(Message), NEW w \in Wires, AdapterIngest(w)
    PROVE  \E new : Grows(new)
<1> PICK e : e = Ingest(w) OBVIOUS
<1>1. PICK new : new = Stored(e, SourceId(w), w.proto, Absent) OBVIOUS
<1>2. thread = <<>> /\ e # Refused /\ thread' = Append(thread, new)
  BY <1>1 DEF AdapterIngest, Append1
<1>3. /\ WellMade(e) /\ ~PanicProne(e) /\ w.proto \in Protocols
      /\ e.meta.requestId \in {Absent, PeerId} /\ e.meta.taskId \in {Absent, PeerId}
      /\ SourceId(w) \in Ids
  BY <1>2, FirstTaken
<1>4. w.proto \in Origins /\ Absent \in Ids /\ w.proto # "replayed"
  BY <1>3 DEF Origins, Ids, Protocols
<1>5. new \in Message /\ new.id = Len(thread) + 1 /\ new.meta = e.meta /\ new.via = w.proto
      /\ new.answers = Absent /\ Validate(new) /\ ~PanicProne(new)
  BY <1>1, <1>3, <1>4, StoredFacts, WellMadeFacts
<1>6. Len(thread) < MaxThread BY <1>2, BridgeAssumption DEF BridgeAssumption
<1>7. Begins(new) BY <1>2, <1>3, <1>4, <1>5 DEF Begins
<1> QED BY <1>2, <1>5, <1>6, <1>7 DEF Grows

\* Replay: the effective tag of the original is that of the copy, because it is
\* the _tag of the copy.
LEMMA ReplayGrows ==
    ASSUME thread \in Seq(Message), TypeOK, Replay
    PROVE  \E new : Grows(new)
<1> PICK old : old = Newest OBVIOUS
<1>1. thread # <<>> /\ Len(thread) < MaxThread BY DEF Replay, CanGrow
<1>2. old \in Message /\ old.meta \in Meta /\ old.answers \in Ids /\ old.content \in Contents
      /\ old.tag \in Seq(STRING) /\ old.source \in Ids
  BY <1>1, NewestFacts
<1>3. Validate(old)
  <2>1. Len(thread) \in 1..Len(thread) BY <1>1
  <2> QED BY <2>1 DEF TypeOK, Newest
<1>4. PICK meta : meta = ReplayedMeta(old) OBVIOUS
<1>5. /\ meta \in Meta
      /\ meta.requestId = old.meta.requestId /\ meta.taskId = old.meta.taskId
      /\ meta.code = old.meta.code /\ meta.message = old.meta.message
      /\ meta.update = old.meta.update
      /\ meta.tag = IF old.tag = <<>> THEN old.meta.tag ELSE old.tag
  <2>1. CASE old.tag = <<>>
    <3>1. meta = old.meta BY <1>4, <2>1 DEF ReplayedMeta
    <3> QED BY <1>2, <2>1, <3>1
  <2>2. CASE old.tag # <<>>
    <3>1. PICK t \in Seq(STRING) : t = old.tag BY <1>2
    <3>2. PICK m0 \in Meta : m0 = old.meta BY <1>2
    <3>3. meta = [m0 EXCEPT !.tag = t] BY <1>4, <2>2, <3>1, <3>2 DEF ReplayedMeta
    <3>4. meta \in Meta BY <3>3 DEF Meta
    <3>5. /\ meta.requestId = m0.requestId /\ meta.taskId = m0.taskId
          /\ meta.code = m0.code /\ meta.message = m0.message
      BY <3>3 DEF Meta
    <3>6. meta.update = m0.update /\ meta.tag = t BY <3>3 DEF Meta
    <3> QED BY <2>2, <3>1, <3>2, <3>4, <3>5, <3>6
  <2> QED BY <2>1, <2>2
<1>6. PICK env : env = [tag |-> <<>>, meta |-> meta, content |-> old.content] OBVIOUS
<1>7. env.tag = <<>> /\ env.meta = meta /\ env.content = old.content BY <1>6
<1>8. EffectiveTag(env) = EffectiveTag(old)
  <2>1. old.tag # <<>> => old.tag # Absent
    BY <1>2, TokensAssumption DEF TokensAssumption
  <2> QED BY <1>5, <1>7, <2>1 DEF EffectiveTag
<1>9. Validate(env) /\ (PanicProne(env) => PanicProne(old))
  BY <1>3, <1>5, <1>7, <1>8 DEF Validate, PanicProne
<1>10. PICK new : new = Stored(env, old.source, "replayed", old.answers) OBVIOUS
<1>11. thread' = Append(thread, new) BY <1>4, <1>6, <1>10 DEF Replay, Append1
<1>12. "replayed" \in Origins /\ <<>> \in Seq(STRING) BY DEF Origins
<1>13. new \in Message /\ new.id = Len(thread) + 1 /\ new.meta = meta /\ new.via = "replayed"
       /\ new.answers = old.answers /\ Validate(new) /\ EffectiveTag(new) = EffectiveTag(old)
       /\ (PanicProne(new) => PanicProne(old)) /\ new.source = old.source
  <2>1. env.tag \in Seq(STRING) /\ env.meta \in Meta /\ env.content \in Contents
    BY <1>2, <1>5, <1>7, <1>12
  <2>2. new \in Message /\ new.id = Len(thread) + 1 /\ new.meta = env.meta
        /\ new.via = "replayed" /\ new.answers = old.answers
        /\ EffectiveTag(new) = EffectiveTag(env) /\ (Validate(new) <=> Validate(env))
        /\ (PanicProne(new) <=> PanicProne(env)) /\ new.source = old.source
    BY <1>2, <1>10, <1>12, <2>1, StoredFacts
  <2> QED BY <1>7, <1>8, <1>9, <2>2
<1>14. TagKept(old, new, "replayed") BY <1>13 DEF TagKept
<1>15. ErrorKept(old, new, "replayed") BY <1>5, <1>13 DEF ErrorKept
<1>16. Carries(old, new) BY <1>5, <1>13, <1>14, <1>15 DEF Carries
<1> QED BY <1>1, <1>11, <1>13, <1>16 DEF Grows

\* Relay.
LEMMA RelayGrows ==
    ASSUME thread \in Seq(Message), NEW proto \in Protocols, Relay(proto)
    PROVE  \E new : Grows(new)
<1> PICK old : old = Newest OBVIOUS
<1> PICK e : e = Ingest(Emit(proto, old)) OBVIOUS
<1> PICK source : source = SourceId(Emit(proto, old)) OBVIOUS
<1>1. PICK new : new = Stored(e, source, proto, old.answers) OBVIOUS
<1>2. /\ thread # <<>> /\ Len(thread) < MaxThread
      /\ Emit(proto, old) \notin {Refused, Panic} /\ e # Refused
      /\ thread' = Append(thread, new)
  BY <1>1 DEF Relay, CanGrow, Append1
<1>3. old \in Message /\ old.answers \in Ids BY <1>2, NewestFacts
<1>4. Hop(old, e, proto) BY <1>2, <1>3, HopFacts
<1>a. source \in Ids /\ (Given(old.meta.requestId) => source = old.meta.requestId)
  BY <1>2, <1>3, HopSource
<1>5. WellMade(e) BY <1>4 DEF Hop
<1>6. proto \in Origins /\ proto # "sent" /\ proto # "replayed" BY DEF Origins, Protocols
<1>7. e.tag \in Seq(STRING) /\ e.meta \in Meta /\ e.content \in Contents /\ Validate(e)
  BY <1>5, WellMadeFacts
<1>8. new \in Message /\ new.id = Len(thread) + 1 /\ new.meta = e.meta /\ new.via = proto
      /\ new.answers = old.answers /\ EffectiveTag(new) = EffectiveTag(e)
      /\ (Validate(new) <=> Validate(e)) /\ (PanicProne(new) <=> PanicProne(e))
      /\ new.source = source
  BY <1>1, <1>3, <1>a, <1>6, <1>7, StoredFacts
<1>9. TagKept(old, new, proto) BY <1>4, <1>8 DEF Hop, TagKept
<1>10. ErrorKept(old, new, proto) BY <1>4, <1>8 DEF Hop, ErrorKept
<1>11. IdsKept(old, new, proto) BY <1>4, <1>8 DEF Hop, IdsKept
<1>12. /\ new.meta.requestId \in {Absent, old.meta.requestId, old.id}
       /\ new.meta.taskId \in {Absent, old.meta.taskId, old.meta.requestId, old.id}
  BY <1>11 DEF IdsKept
<1>13. /\ ~PanicProne(new)
       /\ RequiresResponse(EffectiveTag(new)) => RequiresResponse(EffectiveTag(old))
  BY <1>4, <1>8 DEF Hop
<1>14. Carries(old, new)
  BY <1>a, <1>6, <1>8, <1>9, <1>10, <1>11, <1>12, <1>13 DEF Carries
<1> QED BY <1>2, <1>7, <1>8, <1>14 DEF Grows

\* Answer.
LEMMA AnswerGrows ==
    ASSUME thread \in Seq(Message), NEW proto \in Protocols, Answer(proto)
    PROVE  \E new : Grows(new)
<1> PICK old : old = Newest OBVIOUS
<1> PICK w : w = Emit(proto, old) OBVIOUS
<1>1. /\ thread # <<>> /\ Len(thread) < MaxThread
      /\ RequiresResponse(EffectiveTag(old))
      /\ w \notin {Refused, Panic}
  BY DEF Answer, CanGrow
<1>2. PICK r \in AnswersTo(w) : /\ Ingest(r) # Refused
                                /\ Append1(Stored(Ingest(r), SourceId(r), proto, w.id))
  BY DEF Answer
<1> PICK e : e = Ingest(r) OBVIOUS
<1> PICK source : source = SourceId(r) OBVIOUS
<1>3. PICK new : new = Stored(e, source, proto, w.id) OBVIOUS
<1>4. thread' = Append(thread, new) BY <1>2, <1>3 DEF Append1
<1>5. old \in Message /\ old.meta \in Meta /\ old.id \in Nat BY <1>1, NewestFacts
<1>6. Reply(old, w, r, e, proto) BY <1>1, <1>2, <1>5, ReplyFacts
<1>7. WellMade(e) /\ w.id \in {old.meta.requestId, old.id} BY <1>6 DEF Reply
<1>8. w.id \in Ids BY <1>5, <1>7 DEF Meta, Ids
<1>a. source = IdOrAbsent(w.id) BY <1>6 DEF Reply, SourceId
<1>b. source \in Ids BY <1>8, <1>a DEF IdOrAbsent, Ids
<1>9. proto \in Origins BY DEF Origins
<1>10. e.tag \in Seq(STRING) /\ e.meta \in Meta /\ e.content \in Contents /\ Validate(e)
  BY <1>7, WellMadeFacts
<1>11. new \in Message /\ new.id = Len(thread) + 1 /\ new.meta = e.meta /\ new.via = proto
       /\ new.answers = w.id /\ EffectiveTag(new) = EffectiveTag(e)
       /\ (Validate(new) <=> Validate(e)) /\ (PanicProne(new) <=> PanicProne(e))
       /\ new.source = source
  BY <1>3, <1>8, <1>b, <1>9, <1>10, StoredFacts
<1>12. Replies(old, new) BY <1>1, <1>6, <1>a, <1>11 DEF Reply, Replies, IdOrAbsent
<1> QED BY <1>1, <1>4, <1>10, <1>11, <1>12 DEF Grows

\* Every step leaves the thread alone or stores one message.
LEMMA StepCases ==
    ASSUME thread \in Seq(Message), TypeOK, [Next]_thread
    PROVE  thread' = thread \/ \E new : Grows(new)
<1>1. CASE UNCHANGED thread BY <1>1
<1>2. CASE Next
  BY <1>2, SendGrows, IngestGrows, ReplayGrows, RelayGrows, AnswerGrows DEF Next, Rest
<1> QED BY <1>1, <1>2

-----------------------------------------------------------------------------
(* The invariant is inductive.                                             *)

\* What a new message does to the thread.
LEMMA GrowsFacts ==
    ASSUME thread \in Seq(Message), NEW new, Grows(new)
    PROVE  /\ thread' \in Seq(Message)
           /\ Len(thread) \in Nat
           /\ Len(thread') = Len(thread) + 1
           /\ thread'[Len(thread) + 1] = new
           /\ \A k \in 1..Len(thread) : thread'[k] = thread[k]
           /\ thread # <<>> => Len(thread) \in 1..Len(thread) /\ Newest = thread[Len(thread)]
           /\ thread = <<>> => Len(thread) = 0
<1>1. new \in Message /\ thread' = Append(thread, new) BY DEF Grows
<1> QED BY <1>1 DEF Newest

\* TypeOK is preserved.
LEMMA TypeStep ==
    ASSUME thread \in Seq(Message), TypeOK, NEW new, Grows(new) PROVE TypeOK'
<1> PICK n \in Nat : n = Len(thread) + 1 OBVIOUS
<1>1. /\ Len(thread') = n /\ thread'[n] = new /\ n - 1 = Len(thread)
      /\ \A k \in 1..(n - 1) : thread'[k] = thread[k]
  BY GrowsFacts
<1>2. n <= MaxThread BY BridgeAssumption DEF Grows, BridgeAssumption
<1>3. new \in Message /\ new.id = n /\ Validate(new) BY DEF Grows
<1>4. new.via \in Origins /\ new.content \in Contents /\ new.meta \in Meta BY <1>3 DEF Message
<1>5. /\ new.meta.requestId \in {Absent, Blank, PeerId} \cup 1..n
      /\ new.meta.taskId \in {Absent, PeerId} \cup 1..n
  <2>1. CASE Begins(new) BY <2>1 DEF Begins
  <2>2. ASSUME thread # <<>>
        PROVE  /\ Newest.meta.requestId \in {Absent, Blank, PeerId} \cup 1..(n - 1)
               /\ Newest.meta.taskId \in {Absent, PeerId} \cup 1..(n - 1)
               /\ Newest.id \in 1..(n - 1)
    BY <2>2, <1>1, GrowsFacts DEF TypeOK
  <2>3. new.meta.taskId \in Nat \cup {Absent} BY <1>4 DEF Meta
  <2>4. new.meta.taskId # Blank BY <2>3, SpecialFacts
  <2>5. CASE thread # <<>> /\ Carries(Newest, new)
    <3>1. /\ new.meta.requestId \in {Absent, Newest.meta.requestId, Newest.id}
          /\ new.meta.taskId \in {Absent, Newest.meta.taskId, Newest.meta.requestId, Newest.id}
      BY <2>5 DEF Carries
    <3> QED BY <2>2, <2>4, <2>5, <3>1
  <2>6. CASE thread # <<>> /\ Replies(Newest, new)
    <3>1. /\ new.answers \in {Newest.meta.requestId, Newest.id}
          /\ new.meta.requestId \in {Absent, new.answers}
          /\ new.meta.taskId \in {Absent, PeerId, Newest.meta.taskId, Newest.meta.requestId,
                                  Newest.id}
      BY <2>6 DEF Replies
    <3> QED BY <2>2, <2>4, <2>6, <3>1
  <2> QED BY <2>1, <2>5, <2>6 DEF Grows
<1>6. ASSUME NEW k \in 1..n
      PROVE  /\ thread'[k].id = k /\ thread'[k].via \in Origins
             /\ thread'[k].content \in Contents /\ Validate(thread'[k])
             /\ thread'[k].meta.requestId \in {Absent, Blank, PeerId} \cup 1..k
             /\ thread'[k].meta.taskId \in {Absent, PeerId} \cup 1..k
  <2>1. CASE k = n BY <1>1, <1>3, <1>4, <1>5, <2>1
  <2>2. CASE k \in 1..(n - 1) BY <1>1, <2>2 DEF TypeOK
  <2> QED BY <2>1, <2>2
<1>7. ASSUME NEW k \in 1..n PROVE Validate(thread[k])'
  BY <1>6 DEF Validate, EffectiveTag
<1> QED BY <1>1, <1>2, <1>6, <1>7 DEF TypeOK

\* PanicInv is preserved.
LEMMA PanicStep ==
    ASSUME thread \in Seq(Message), PanicInv, NEW new, Grows(new) PROVE PanicInv'
<1> PICK n \in Nat : n = Len(thread) + 1 OBVIOUS
<1>1. /\ Len(thread') = n /\ thread'[n] = new /\ n - 1 = Len(thread)
      /\ \A k \in 1..(n - 1) : thread'[k] = thread[k]
  BY GrowsFacts
<1>2. \A k \in 1..n : PanicProne(thread[k])' <=> PanicProne(thread'[k])
  BY DEF PanicProne, EffectiveTag
<1> SUFFICES ASSUME NEW m \in 1..n, PanicProne(thread'[m])
             PROVE  /\ \A k \in 1..m : thread'[k].via \in {"sent", "replayed"}
                    /\ thread'[1].via = "sent"
  BY <1>1, <1>2 DEF PanicInv
<1>3. CASE m \in 1..(n - 1)
  <2>1. PanicProne(thread[m]) BY <1>1, <1>3
  <2>2. /\ \A k \in 1..m : thread[k].via \in {"sent", "replayed"}
        /\ thread[1].via = "sent"
    BY <1>1, <1>3, <2>1 DEF PanicInv
  <2> QED BY <1>1, <1>3, <2>2
<1>4. CASE m = n
  <2>1. PanicProne(new) BY <1>1, <1>4
  <2>2. CASE Begins(new)
    <3>1. n = 1 BY <2>2, GrowsFacts DEF Begins
    <3>2. new.via = "sent" BY <2>1, <2>2 DEF Begins
    <3> QED BY <1>1, <1>4, <3>1, <3>2
  <2>3. CASE thread # <<>> /\ Carries(Newest, new)
    <3>1. new.via = "replayed" /\ PanicProne(Newest) BY <2>1, <2>3 DEF Carries
    <3>2. n - 1 \in 1..(n - 1) /\ Newest = thread[n - 1] BY <1>1, <2>3, GrowsFacts
    <3>3. /\ \A k \in 1..(n - 1) : thread[k].via \in {"sent", "replayed"}
          /\ thread[1].via = "sent"
      BY <1>1, <3>1, <3>2 DEF PanicInv
    <3> QED BY <1>1, <1>4, <3>1, <3>2, <3>3
  <2>4. CASE Replies(Newest, new) BY <2>1, <2>4 DEF Replies
  <2> QED BY <2>2, <2>3, <2>4 DEF Grows
<1> QED BY <1>3, <1>4

\* AnswersAreFinal is preserved.
LEMMA FinalStep ==
    ASSUME thread \in Seq(Message), AnswersAreFinal, NEW new, Grows(new)
    PROVE  AnswersAreFinal'
<1> PICK n \in Nat : n = Len(thread) + 1 OBVIOUS
<1>1. /\ Len(thread') = n /\ thread'[n] = new /\ n - 1 = Len(thread)
      /\ \A k \in 1..(n - 1) : thread'[k] = thread[k]
  BY GrowsFacts
<1>2. ASSUME new.answers # Absent PROVE ~RequiresResponse(EffectiveTag(new))
  <2>1. CASE Begins(new) BY <1>2, <2>1 DEF Begins
  <2>2. CASE thread # <<>> /\ Carries(Newest, new)
    <3>1. ~RequiresResponse(EffectiveTag(Newest))
      BY <1>2, <2>2, GrowsFacts DEF Carries, AnswersAreFinal
    <3> QED BY <2>2, <3>1 DEF Carries
  <2>3. CASE Replies(Newest, new) BY <2>3 DEF Replies
  <2> QED BY <2>1, <2>2, <2>3 DEF Grows
<1>3. ASSUME NEW k \in 1..n, thread'[k].answers # Absent
      PROVE  ~RequiresResponse(EffectiveTag(thread'[k]))
  <2>1. CASE k = n BY <1>1, <1>2, <1>3, <2>1
  <2>2. CASE k \in 1..(n - 1) BY <1>1, <1>3, <2>2 DEF AnswersAreFinal
  <2> QED BY <2>1, <2>2
<1>4. \A k \in 1..n : RequiresResponse(EffectiveTag(thread[k]))' <=>
                      RequiresResponse(EffectiveTag(thread'[k]))
  BY DEF RequiresResponse, ParseTagFamily, EffectiveTag
<1> QED BY <1>1, <1>3, <1>4 DEF AnswersAreFinal

\* An answer replies to a message that is no answer itself, so that it does not
\* continue it.
LEMMA RepliesAreNew ==
    ASSUME thread \in Seq(Message), AnswersAreFinal, thread # <<>>, NEW new, Grows(new),
           Replies(Newest, new)
    PROVE  Newest.answers = Absent /\ new.answers # Newest.answers
<1>1. RequiresResponse(EffectiveTag(Newest)) /\ new.answers # Absent BY DEF Replies
<1>2. Newest.answers = Absent BY <1>1, GrowsFacts DEF AnswersAreFinal
<1> QED BY <1>1, <1>2

\* TagsSurvive and ErrorsKept are preserved.
LEMMA ContentStep ==
    ASSUME thread \in Seq(Message), AnswersAreFinal, TagsSurvive, ErrorsKept,
           NEW new, Grows(new)
    PROVE  TagsSurvive' /\ ErrorsKept'
<1> PICK n \in Nat : n = Len(thread) + 1 OBVIOUS
<1>1. /\ Len(thread') = n /\ thread'[n] = new /\ n - 1 = Len(thread)
      /\ \A k \in 1..(n - 1) : thread'[k] = thread[k]
  BY GrowsFacts
<1>2. ASSUME n \in 2..n, thread'[n].answers = thread'[n - 1].answers
      PROVE  TagKept(thread'[n - 1], new, new.via) /\ ErrorKept(thread'[n - 1], new, new.via)
  <2>1. thread # <<>> /\ Newest = thread'[n - 1]
    <3>1. n - 1 \in 1..(n - 1) BY <1>2
    <3>2. thread # <<>> BY <1>1, <3>1, GrowsFacts
    <3> QED BY <1>1, <3>1, <3>2, GrowsFacts
  <2>2. ~Begins(new) BY <2>1 DEF Begins
  <2>3. ~Replies(Newest, new) BY <1>1, <1>2, <2>1, RepliesAreNew
  <2>4. Carries(Newest, new) BY <2>2, <2>3 DEF Grows
  <2> QED BY <2>1, <2>4 DEF Carries
<1>3. ASSUME NEW k \in 2..n, thread'[k].answers = thread'[k - 1].answers
      PROVE  /\ TagKept(thread'[k - 1], thread'[k], thread'[k].via)
             /\ ErrorKept(thread'[k - 1], thread'[k], thread'[k].via)
  <2>1. CASE k = n BY <1>1, <1>2, <1>3, <2>1
  <2>2. CASE k \in 2..(n - 1)
    <3>1. thread'[k] = thread[k] /\ thread'[k - 1] = thread[k - 1]
      <4>1. k \in 1..(n - 1) /\ k - 1 \in 1..(n - 1) BY <2>2
      <4> QED BY <1>1, <4>1
    <3>2. Continues(k) BY <1>3, <2>2, <3>1 DEF Continues
    <3>3. TagKept(thread[k - 1], thread[k], thread[k].via)
      BY <1>1, <2>2, <3>2 DEF TagsSurvive, TagKept
    <3>4. ErrorKept(thread[k - 1], thread[k], thread[k].via)
      BY <1>1, <2>2, <3>2 DEF ErrorsKept
    <3> QED BY <3>1, <3>3, <3>4
  <2> QED BY <2>1, <2>2
<1>4. \A k \in 2..n : /\ (EffectiveTag(thread[k]))' = EffectiveTag(thread'[k])
                      /\ (EffectiveTag(thread[k - 1]))' = EffectiveTag(thread'[k - 1])
  BY DEF EffectiveTag
<1>5. TagsSurvive' BY <1>1, <1>3, <1>4 DEF TagsSurvive, TagKept, Continues
<1>6. ErrorsKept' BY <1>1, <1>3, <1>4 DEF ErrorsKept, ErrorKept, Truncates, Continues
<1> QED BY <1>5, <1>6

\* A new message changes nothing about the messages since an answer.
LEMMA SinceOld ==
    ASSUME thread \in Seq(Message), NEW new, Grows(new), NEW k \in 1..Len(thread)
    PROVE  (Since(k))' = Since(k)
<1>1. \A j \in 1..Len(thread) : thread'[j] = thread[j] BY GrowsFacts
<1>2. \A x : x \in (Since(k))' <=> x \in Since(k)
  <2>1. ASSUME NEW x \in 1..k
        PROVE  (\A j \in x..k : thread'[j].answers = thread'[k].answers) <=>
               (\A j \in x..k : thread[j].answers = thread[k].answers)
    BY <1>1
  <2> QED BY <2>1 DEF Since
<1> QED BY <1>2, Zenon

\* It adds itself to those since the answer, or is the answer.
LEMMA SinceNew ==
    ASSUME thread \in Seq(Message), NEW new, Grows(new), NEW n \in Nat, n = Len(thread) + 1
    PROVE  /\ thread # <<>> /\ new.answers = Newest.answers =>
                (Since(n))' = Since(n - 1) \cup {n}
           /\ thread = <<>> \/ new.answers # Newest.answers => (Since(n))' = {n}
<1>1. /\ thread'[n] = new /\ n - 1 = Len(thread)
      /\ \A j \in 1..(n - 1) : thread'[j] = thread[j]
      /\ thread # <<>> => n - 1 \in 1..(n - 1) /\ Newest = thread[n - 1]
      /\ thread = <<>> => n = 1
  BY GrowsFacts
<1>2. ASSUME thread # <<>>, new.answers = Newest.answers
      PROVE  (Since(n))' = Since(n - 1) \cup {n}
  <2>1. \A x : x \in (Since(n))' <=> x \in Since(n - 1) \cup {n}
    <3>1. n \in (Since(n))' BY <1>1 DEF Since
    <3>2. ASSUME NEW x \in 1..(n - 1)
          PROVE  (\A j \in x..n : thread'[j].answers = thread'[n].answers) <=>
                 (\A j \in x..(n - 1) : thread[j].answers = thread[n - 1].answers)
      <4>1. \A j \in x..n : j = n \/ j \in x..(n - 1) OBVIOUS
      <4>2. \A j \in x..(n - 1) : j \in x..n /\ thread'[j] = thread[j] BY <1>1
      <4>3. thread'[n].answers = thread[n - 1].answers BY <1>1, <1>2
      <4> QED BY <4>1, <4>2, <4>3
    <3>3. \A x \in (Since(n))' \cup Since(n - 1) : x = n \/ x \in 1..(n - 1) BY DEF Since
    <3>4. \A x \in 1..(n - 1) : x \in (Since(n))' <=> x \in Since(n - 1)
      BY <3>2 DEF Since
    <3> QED BY <3>1, <3>3, <3>4
  <2> QED BY <2>1, Zenon
<1>3. ASSUME thread = <<>> \/ new.answers # Newest.answers PROVE (Since(n))' = {n}
  <2>1. \A x : x \in (Since(n))' <=> x \in {n}
    <3>1. n \in (Since(n))' BY <1>1 DEF Since
    <3>2. ASSUME NEW x \in (Since(n))' PROVE x = n
      <4>1. x \in 1..n /\ \A j \in x..n : thread'[j].answers = thread'[n].answers
        BY DEF Since
      <4>2. CASE thread = <<>> BY <1>1, <4>1, <4>2
      <4>3. CASE thread # <<>> /\ x # n
        <5>1. n - 1 \in x..n BY <4>1, <4>3
        <5>2. thread'[n - 1].answers = new.answers BY <1>1, <4>1, <5>1
        <5>3. thread'[n - 1] = Newest BY <1>1, <4>3
        <5> QED BY <1>3, <4>3, <5>2, <5>3
      <4> QED BY <4>2, <4>3
    <3> QED BY <3>1, <3>2
  <2> QED BY <2>1, Zenon
<1> QED BY <1>2, <1>3

\* CorrelationInv is preserved.
LEMMA CorrelationStep ==
    ASSUME thread \in Seq(Message), AnswersAreFinal, CorrelationInv, NEW new, Grows(new)
    PROVE  CorrelationInv'
<1> PICK n \in Nat : n = Len(thread) + 1 OBVIOUS
<1>1. /\ Len(thread') = n /\ thread'[n] = new /\ n - 1 = Len(thread)
      /\ \A j \in 1..(n - 1) : thread'[j] = thread[j]
      /\ thread # <<>> => n - 1 \in 1..(n - 1) /\ Newest = thread[n - 1]
      /\ n \in 1..n
  BY GrowsFacts
<1>2. ASSUME NEW k \in 1..(n - 1) PROVE Correlated(k)'
  <2>1. Correlated(k) BY <1>1, <1>2 DEF CorrelationInv
  <2>2. (Since(k))' = Since(k) BY <1>1, <1>2, SinceOld
  <2>3. \A j \in Since(k) : j \in 1..(n - 1) BY <1>2 DEF Since
  <2>4. \A f : IsFirst(f, k)' <=> IsFirst(f, k) BY <2>2 DEF IsFirst
  <2>5. Unbridged(k)' <=> Unbridged(k) BY <1>1, <2>2, <2>3 DEF Unbridged
  <2>6. A2aLast(k)' <=> A2aLast(k) BY <1>1, <2>2, <2>3 DEF A2aLast
  <2>a. SoleA2a(k)' <=> SoleA2a(k) BY <1>1, <2>2, <2>3 DEF SoleA2a
  <2>7. \A f \in 1..k : thread'[f] = thread[f] BY <1>1
  <2>8. thread'[k] = thread[k] BY <1>1
  <2> QED BY <2>1, <2>4, <2>5, <2>6, <2>a, <2>7, <2>8 DEF Correlated
<1>3. ASSUME thread = <<>> \/ new.answers # Newest.answers
      PROVE  (Since(n))' = {n} /\ IsFirst(n, n)' /\ (\A f : IsFirst(f, n)' => f = n)
  <2>1. (Since(n))' = {n} BY <1>3, SinceNew
  <2> QED BY <2>1 DEF IsFirst
<1>4. CASE Begins(new)
  <2>1. IsFirst(n, n)' BY <1>3, <1>4 DEF Begins
  <2>2. new.answers = Absent BY <1>4 DEF Begins
  <2> QED BY <1>1, <1>2, <2>1, <2>2 DEF CorrelationInv, Correlated
<1>5. CASE thread # <<>> /\ Replies(Newest, new)
  <2>1. new.answers # Newest.answers BY <1>5, RepliesAreNew
  <2>2. (Since(n))' = {n} /\ IsFirst(n, n)' /\ (\A f : IsFirst(f, n)' => f = n)
    BY <1>3, <2>1
  <2>3. Unbridged(n)' <=> new.via # "a2a" BY <1>1, <2>2 DEF Unbridged
  <2>4. ASSUME new.answers \notin {Absent, Blank}, new.via # "a2a"
        PROVE  new.meta.requestId = new.answers /\ new.meta.taskId = Absent
    BY <1>5, <2>4 DEF Replies, Given
  <2>a. new.answers \notin {Absent, Blank} => new.source = new.answers
    BY <1>5 DEF Replies, Given
  <2>5. Correlated(n)' BY <1>1, <2>2, <2>3, <2>4, <2>a DEF Correlated
  <2> QED BY <1>1, <1>2, <2>5 DEF CorrelationInv
<1>6. CASE thread # <<>> /\ Carries(Newest, new)
  <2> PICK old : old = Newest OBVIOUS
  <2>1. new.answers = old.answers /\ old = thread[n - 1] /\ n - 1 \in 1..(n - 1)
    BY <1>1, <1>6 DEF Carries
  <2>2. (Since(n))' = Since(n - 1) \cup {n} BY <1>1, <1>6, <2>1, SinceNew
  <2>3. Correlated(n - 1) BY <1>1, <2>1 DEF CorrelationInv
  <2>4. \A j \in Since(n - 1) : j \in 1..(n - 1) /\ j < n /\ thread'[j] = thread[j]
    BY <1>1, <2>1 DEF Since
  <2>5. n - 1 \in Since(n - 1) BY <2>1 DEF Since
  <2>6. \A f : IsFirst(f, n)' <=> IsFirst(f, n - 1)
    <3>1. ASSUME NEW f, IsFirst(f, n)' PROVE IsFirst(f, n - 1)
      <4>1. f \in Since(n - 1) \cup {n} /\ \A j \in Since(n - 1) \cup {n} : f <= j
        BY <2>2, <3>1 DEF IsFirst
      <4>2. f <= n - 1 BY <2>5, <4>1
      <4>3. f # n BY <4>2
      <4> QED BY <4>1, <4>3 DEF IsFirst
    <3>2. ASSUME NEW f, IsFirst(f, n - 1) PROVE IsFirst(f, n)'
      <4>1. f \in Since(n - 1) /\ \A j \in Since(n - 1) : f <= j BY <3>2 DEF IsFirst
      <4>2. f <= n BY <2>4, <4>1
      <4> QED BY <2>2, <4>1, <4>2 DEF IsFirst
    <3> QED BY <3>1, <3>2
  <2>7. Unbridged(n)' <=> Unbridged(n - 1) /\ new.via # "a2a"
    BY <1>1, <2>2, <2>4 DEF Unbridged
  <2>8. A2aLast(n)' => A2aLast(n - 1) BY <2>2, <2>4 DEF A2aLast
  <2>9. A2aLast(n)' /\ new.via \in {"mcp", "grpc"} => Unbridged(n - 1)
    <3>1. SUFFICES ASSUME A2aLast(n)', new.via \in {"mcp", "grpc"},
                          NEW j \in Since(n - 1), thread[j].via = "a2a"
                   PROVE  FALSE
      BY DEF Unbridged
    <3>2. n \in (Since(n))' /\ j \in (Since(n))' BY <2>2
    <3>3. n < j BY <1>1, <2>4, <3>1, <3>2 DEF A2aLast
    <3> QED BY <2>4, <3>3
  <2>a. SoleA2a(n)' => SoleA2a(n - 1) BY <2>2, <2>4 DEF SoleA2a
  <2>b. SoleA2a(n)' /\ new.via \in Protocols => Unbridged(n - 1)
    <3>1. SUFFICES ASSUME SoleA2a(n)', new.via \in Protocols,
                          NEW k \in Since(n - 1), thread[k].via = "a2a"
                   PROVE  FALSE
      BY DEF Unbridged
    <3>2. n \in (Since(n))' /\ k \in (Since(n))' BY <2>2
    <3>3. n <= k BY <1>1, <2>4, <3>1, <3>2 DEF SoleA2a
    <3> QED BY <2>4, <3>3
  <2>10. PICK f0 \in 1..(n - 1) : IsFirst(f0, n - 1) BY <2>3 DEF Correlated
  <2>11. \A f : IsFirst(f, n)' => f \in 1..(n - 1) /\ thread'[f] = thread[f]
    BY <2>4, <2>6 DEF IsFirst
  <2>12. new.via \in {"replayed", "mcp", "a2a", "grpc"}
    <3>1. new.via \in Origins /\ new.via # "sent" BY <1>6 DEF Grows, Message, Carries
    <3> QED BY <3>1 DEF Origins, Protocols
  <2>13. ASSUME new.answers \notin {Absent, Blank}
         PROVE  /\ SoleA2a(n)' => new.source = new.answers
                /\ Unbridged(n)' => /\ new.meta.requestId = new.answers
                                    /\ new.meta.taskId = Absent
                /\ \A f \in 1..n :
                     IsFirst(f, n)' /\ thread'[f].via # "a2a" /\ ~Unbridged(n)' /\ A2aLast(n)'
                         => new.meta.taskId = new.answers
    <3>1. ~RequiresResponse(EffectiveTag(old))
      BY <1>1, <2>1, <2>13 DEF AnswersAreFinal
    <3>2. /\ SoleA2a(n - 1) => old.source = old.answers
          /\ Unbridged(n - 1) => /\ old.meta.requestId = old.answers
                                 /\ old.meta.taskId = Absent
          /\ \A f \in 1..(n - 1) :
               /\ IsFirst(f, n - 1) /\ thread[f].via # "a2a"
               /\ ~Unbridged(n - 1) /\ A2aLast(n - 1)
               => old.meta.taskId = old.answers
      BY <2>1, <2>3, <2>13 DEF Correlated
    <3>3. Given(new.answers) BY <2>13 DEF Given
    <3>a. ASSUME new.via \in Protocols, SoleA2a(n)' PROVE new.source = new.answers
      <4>1. old.meta.requestId = new.answers BY <2>1, <2>b, <3>2, <3>a
      <4>2. new.via # "replayed" BY <3>a DEF Protocols
      <4> QED BY <1>6, <3>3, <4>1, <4>2 DEF Carries
    <3>4. CASE new.via = "replayed"
      <4>1. new.meta.requestId = old.meta.requestId /\ new.meta.taskId = old.meta.taskId
            /\ new.source = old.source
        BY <1>6, <3>4 DEF Carries
      <4>2. Unbridged(n)' <=> Unbridged(n - 1) BY <2>7, <3>4
      <4> QED BY <2>1, <2>6, <2>8, <2>a, <2>11, <3>2, <4>1, <4>2
    <3>5. CASE new.via \in {"mcp", "grpc"}
      <4>1. IdsKept(old, new, new.via) BY <1>6, <3>5 DEF Carries
      <4>2. /\ new.meta.taskId = Absent
            /\ Given(old.meta.requestId) => new.meta.requestId = old.meta.requestId
        BY <3>1, <3>5, <4>1 DEF IdsKept
      <4>3. Unbridged(n)' <=> Unbridged(n - 1) BY <2>7, <3>5
      <4>4. Unbridged(n - 1) => new.meta.requestId = new.answers
        BY <2>1, <3>2, <3>3, <4>2
      <4>5. new.via \in Protocols BY <3>5 DEF Protocols
      <4> QED BY <2>9, <3>a, <3>5, <4>2, <4>3, <4>4, <4>5
    <3>6. CASE new.via = "a2a"
      <4>1. IdsKept(old, new, "a2a") BY <1>6, <3>6 DEF Carries
      <4>2. new.meta.taskId = TaskIdForEmit(old) BY <3>1, <4>1 DEF IdsKept
      <4>3. ~Unbridged(n)' BY <2>7, <3>6
      <4>6. new.via \in Protocols BY <3>6 DEF Protocols
      <4>4. CASE Unbridged(n - 1)
        <5>1. TaskIdForEmit(old) = old.answers
          BY <2>1, <3>2, <3>3, <4>4 DEF TaskIdForEmit, Given
        <5> QED BY <2>1, <3>a, <4>2, <4>3, <4>6, <5>1
      <4>5. CASE ~Unbridged(n - 1)
        <5>1. ASSUME NEW f \in 1..n, IsFirst(f, n)', thread'[f].via # "a2a", A2aLast(n)'
              PROVE  new.meta.taskId = new.answers
          <6>1. old.meta.taskId = old.answers
            BY <2>6, <2>8, <2>11, <3>2, <4>5, <5>1
          <6> QED BY <2>1, <3>3, <4>2, <6>1 DEF TaskIdForEmit
        <5> QED BY <3>a, <4>3, <4>6, <5>1
      <4> QED BY <4>4, <4>5
    <3> QED BY <2>12, <3>4, <3>5, <3>6
  <2>14. \E f \in 1..n : IsFirst(f, n)' BY <2>6, <2>10
  <2>15. Correlated(n)' BY <1>1, <2>13, <2>14 DEF Correlated
  <2> QED BY <1>1, <1>2, <2>15 DEF CorrelationInv
<1> QED BY <1>4, <1>5, <1>6 DEF Grows

\* The empty thread satisfies the invariant.
LEMMA InitHolds == Init => IInv
<1> SUFFICES ASSUME Init PROVE IInv OBVIOUS
<1>1. thread = <<>> /\ thread \in Seq(Message) /\ Len(thread) = 0 BY DEF Init
<1>2. 0 <= MaxThread BY BridgeAssumption DEF BridgeAssumption
<1> QED
  BY <1>1, <1>2 DEF IInv, TypeOK, PanicInv, AnswersAreFinal, TagsSurvive,
     ErrorsKept, CorrelationInv

\* Every step preserves the invariant.
LEMMA StepHolds == IInv /\ [Next]_thread => IInv'
<1> SUFFICES ASSUME IInv, [Next]_thread PROVE IInv' OBVIOUS
<1>0. /\ thread \in Seq(Message) /\ TypeOK /\ PanicInv /\ AnswersAreFinal
      /\ TagsSurvive /\ ErrorsKept /\ CorrelationInv
  BY DEF IInv
<1>1. CASE thread' = thread
  <2>1. TypeOK' BY <1>0, <1>1 DEF TypeOK, Validate, EffectiveTag
  <2>2. PanicInv' BY <1>0, <1>1 DEF PanicInv, PanicProne, EffectiveTag
  <2>3. AnswersAreFinal'
    BY <1>0, <1>1 DEF AnswersAreFinal, RequiresResponse, ParseTagFamily, EffectiveTag
  <2>4. TagsSurvive'
    BY <1>0, <1>1 DEF TagsSurvive, Continues, EffectiveTag
  <2>5. ErrorsKept'
    BY <1>0, <1>1 DEF ErrorsKept, ErrorKept, Truncates, Continues, EffectiveTag
  <2>6. CorrelationInv'
    <3>1. \A n : (Since(n))' = Since(n) BY <1>1 DEF Since
    <3>2. \A n : /\ Unbridged(n)' <=> Unbridged(n)
                 /\ A2aLast(n)' <=> A2aLast(n)
                 /\ SoleA2a(n)' <=> SoleA2a(n)
                 /\ \A f : IsFirst(f, n)' <=> IsFirst(f, n)
      BY <1>1, <3>1 DEF Unbridged, A2aLast, SoleA2a, IsFirst
    <3>3. \A n : Correlated(n)' <=> Correlated(n) BY <1>1, <3>2 DEF Correlated
    <3> QED BY <1>0, <1>1, <3>3 DEF CorrelationInv
  <2> QED BY <1>0, <1>1, <2>1, <2>2, <2>3, <2>4, <2>5, <2>6 DEF IInv
<1>2. ASSUME NEW new, Grows(new) PROVE IInv'
  <2>1. thread' \in Seq(Message) BY <1>0, <1>2, GrowsFacts
  <2> QED
    BY <1>0, <1>2, <2>1, TypeStep, PanicStep, FinalStep, ContentStep, CorrelationStep DEF IInv
<1> QED BY <1>0, <1>1, <1>2, StepCases

-----------------------------------------------------------------------------
(* The theorems.                                                           *)

\* The invariant holds in every reachable state, for every set of tags,
\* contents and metadata that clients send and every length of the thread.
THEOREM Invariance == Spec => []IInv
BY InitHolds, StepHolds, PTL DEF Spec

\* Every stored message is valid, and the ids under which it refers to others are
\* those of earlier messages or of the peer (Validate, requestIDForEmit,
\* taskIDForEmit).
THEOREM TypeCorrect == Spec => []TypeOK
<1>1. IInv => TypeOK BY DEF IInv
<1> QED BY <1>1, Invariance, PTL

\* Replays and relays keep the tag (EffectiveTag, Emit, Ingest).
THEOREM TagsAreKept == Spec => []TagsSurvive
<1>1. IInv => TagsSurvive BY DEF IInv
<1> QED BY <1>1, Invariance, PTL

\* An error that every adapter can pass on is one with a number for its code and
\* with a message.
LEMMA PortableErrors ==
    ASSUME NEW m \in Message, EffectiveTag(m) = ResponseError
    PROVE  Portable(m) <=> IsNumber(m.meta.code) /\ Given(m.meta.message)
<1> DEFINE fit == IsNumber(m.meta.code) /\ Given(m.meta.message)
<1>1. /\ EffectiveTag(m) # RequestAction /\ EffectiveTag(m) # ResponseSuccess
      /\ ParseTagFamily(EffectiveTag(m)) = "response"
  BY Families, SuccessIsNoError
<1>2. ~fit => McpEmit(m) = Refused BY <1>1 DEF McpEmit
<1>3. ASSUME fit PROVE McpEmit(m) # Refused
  <2>1. McpEmit(m) = [McpMessage(m) EXCEPT !.code = ParseErrorCode(m.meta.code),
                                           !.message = m.meta.message]
    BY <1>1, <1>3 DEF McpEmit
  <2>2. McpEmit(m) \in McpRow
    <3>1. m.meta \in Meta /\ m.id \in Nat BY DEF Message
    <3>2. PICK id \in Ids : id = RequestIdForEmit(m)
      BY <3>1 DEF RequestIdForEmit, Or, Ids, Meta
    <3>3. PICK text \in {"text", "default"} : text = m.meta.message
      BY <1>3, <3>1 DEF Meta, Given
    <3>4. PICK code \in Int : code = ParseErrorCode(m.meta.code)
      BY <1>3, <3>1, CodeFacts DEF Meta
    <3>5. code \in Codes \ {Word} BY SpecialFacts DEF Codes
    <3>6. McpEmit(m) =
            [proto |-> "mcp", version |-> "2.0", id |-> id, method |-> Absent,
             action |-> Absent, args |-> Absent, result |-> Absent, code |-> code,
             message |-> text]
      BY <2>1, <3>2, <3>3, <3>4 DEF McpMessage
    <3> QED BY <3>5, <3>6 DEF McpRow
  <2> QED BY <2>2, AdaptersAssumption DEF AdaptersAssumption
<1>4. ASSUME fit PROVE GrpcEmit(m) # Refused
  <2>1. m.meta \in Meta /\ m.id \in Nat BY DEF Message
  <2>2. PICK id \in Ids : id = IF Given(m.meta.requestId) THEN m.meta.requestId ELSE m.id
    BY <2>1 DEF Ids, Meta
  <2>3. PICK text \in {"text", "default"} : text = m.meta.message
    BY <1>4, <2>1 DEF Meta, Given
  <2>4. PICK code \in Int : code = ParseErrorCode(m.meta.code)
    BY <1>4, <2>1, CodeFacts DEF Meta
  <2>5. GrpcEmit(m) = [GrpcMessage(m, "unary") EXCEPT !.status = "ERROR",
                         !.code = ParseErrorCode(m.meta.code), !.message = m.meta.message]
    BY <1>1, <1>4 DEF GrpcEmit
  <2>6. GrpcEmit(m) =
          [proto |-> "grpc", type |-> "unary", action |-> Absent, status |-> "ERROR",
           id |-> id, streamId |-> Absent, code |-> code, message |-> text,
           body |-> "object"]
    BY <2>2, <2>3, <2>4, <2>5 DEF GrpcMessage
  <2>7. GrpcEmit(m) \in GrpcRow
    BY <2>6 DEF GrpcRow, GrpcTypes, GrpcActions, GrpcStatuses
  <2> QED BY <2>7, AdaptersAssumption DEF AdaptersAssumption
<1>5. A2aEmit(m) # Refused
  <2>1. PICK w : w = A2aEmit(m) OBVIOUS
  <2>2. w = [A2aMessage(m, "task/update", "failed") EXCEPT
               !.code = m.meta.code,
               !.message = IF Given(m.meta.message) THEN m.meta.message ELSE Absent,
               !.result = IF m.meta.code # Absent \/ Given(m.meta.message)
                          THEN "object" ELSE Absent]
    BY <1>1, <2>1 DEF A2aEmit
  <2>3. m.meta \in Meta /\ m.id \in Nat BY DEF Message
  <2>4. PICK id \in Ids : id = RequestIdForEmit(m)
    BY <2>3 DEF RequestIdForEmit, Or, Ids, Meta
  <2>5. PICK text \in {"text", "query"} : text = OutboundText(m) BY DEF OutboundText
  <2>6. PICK task \in Nat : task = TaskIdForEmit(m) BY TaskIdFacts
  <2>7. PICK code \in Codes : code = m.meta.code BY <2>3 DEF Meta
  <2>8. PICK words \in {Absent, "text", "default"} :
          words = IF Given(m.meta.message) THEN m.meta.message ELSE Absent
    BY <2>3 DEF Meta, Given
  <2>9. PICK result \in Shapes \cup {Absent} :
          result = IF m.meta.code # Absent \/ Given(m.meta.message) THEN "object" ELSE Absent
    BY DEF Shapes
  <2>10. w = [proto |-> "a2a", id |-> id, method |-> "task/update", text |-> text,
              taskId |-> task, status |-> "failed", result |-> result, code |-> code,
              message |-> words]
    BY <2>2, <2>4, <2>5, <2>6, <2>7, <2>8, <2>9 DEF A2aMessage
  <2>11. w \in A2aRow BY <2>10 DEF A2aRow, A2aMethods, A2aStatuses
  <2> QED BY <2>1, <2>11, AdaptersAssumption DEF AdaptersAssumption
<1>6. /\ Emit("mcp", m) = McpEmit(m) /\ Emit("a2a", m) = A2aEmit(m)
      /\ Emit("grpc", m) = GrpcEmit(m)
  BY DEF Emit
<1>7. Portable(m) <=> /\ Emit("mcp", m) # Refused /\ Emit("a2a", m) # Refused
                      /\ Emit("grpc", m) # Refused
  BY DEF Portable, Protocols
<1> QED BY <1>2, <1>3, <1>4, <1>5, <1>6, <1>7

\* Replays and relays keep the code and the message of an error, but for the
\* fraction of a code and for what A2A fills in, and an error that every adapter
\* can pass on stays one (parseErrorCode, ingestTaskUpdate).
THEOREM ErrorDetailsAreKept == Spec => []ErrorDetailsSurvive
<1>1. IInv => ErrorDetailsSurvive
  <2> SUFFICES ASSUME IInv, NEW n \in 2..Len(thread), Continues(n),
                      EffectiveTag(thread[n]) = ResponseError
               PROVE  LET old == thread[n - 1].meta
                          new == thread[n].meta
                      IN  /\ \/ new.code = old.code
                             \/ thread[n].via = "a2a" /\ old.code = Absent
                             \/ /\ thread[n].via \in {"mcp", "grpc"}
                                /\ Truncates(old.code, new.code)
                          /\ \/ new.message = old.message
                             \/ thread[n].via = "a2a" /\ ~Given(old.message)
                          /\ Portable(thread[n - 1]) => Portable(thread[n])
    BY DEF ErrorDetailsSurvive
  <2> PICK old : old = thread[n - 1] OBVIOUS
  <2> PICK new : new = thread[n] OBVIOUS
  <2>1. old \in Message /\ new \in Message
    <3>1. thread \in Seq(Message) BY DEF IInv
    <3>2. n \in 1..Len(thread) /\ n - 1 \in 1..Len(thread) BY <3>1
    <3> QED BY <3>1, <3>2
  <2>2. ErrorKept(old, new, new.via) BY DEF IInv, ErrorsKept
  <2>3. EffectiveTag(old) = ResponseError
    <3>1. TagKept(old, new, new.via) BY DEF IInv, TagsSurvive, TagKept
    <3> QED BY <3>1, Families DEF TagKept
  <2>4. /\ \/ new.meta.code = old.meta.code
           \/ new.via = "a2a" /\ old.meta.code = Absent
           \/ new.via \in {"mcp", "grpc"} /\ Truncates(old.meta.code, new.meta.code)
        /\ \/ new.meta.message = old.meta.message
           \/ new.via = "a2a" /\ ~Given(old.meta.message)
    BY <2>2 DEF ErrorKept
  <2>5. ASSUME Portable(old) PROVE Portable(new)
    <3>1. IsNumber(old.meta.code) /\ Given(old.meta.message)
      BY <2>1, <2>3, <2>5, PortableErrors
    <3>2. old.meta.code \in Int
      <4>1. old.meta.code \in Codes BY <2>1 DEF Message, Meta
      <4> QED BY <3>1, <4>1, CodeFacts
    <3>3. new.meta.code \in Int BY <2>4, <3>1, <3>2 DEF Truncates, IsNumber
    <3>4. IsNumber(new.meta.code) BY <3>3, SpecialFacts DEF IsNumber
    <3>5. Given(new.meta.message) BY <2>4, <3>1
    <3> QED BY <2>1, <3>4, <3>5, PortableErrors
  <2> QED BY <2>4, <2>5
<1> QED BY <1>1, Invariance, PTL

\* An answer goes on naming the request that it answers, in source_id up to its
\* first hop over A2A, in _request_id before it and in _task_id after it as far as
\* CorrelationSurvives says (SetAdapterMetadata, requestIDForEmit, taskIDForEmit).
THEOREM CorrelationIsKept == Spec => []CorrelationSurvives
<1>1. IInv => CorrelationSurvives
  <2> SUFFICES ASSUME IInv, NEW n \in 1..Len(thread), thread[n].answers \notin {Absent, Blank}
               PROVE  LET via(proto) == {k \in Since(n) : thread[k].via = proto}
                          hops  == UNION {via(proto) : proto \in Protocols}
                          first == CHOOSE k \in Since(n) : \A j \in Since(n) : k <= j
                      IN  /\ (\A k \in via("a2a"), j \in hops : j <= k)
                             => thread[n].source = thread[n].answers
                          /\ via("a2a") = {} => thread[n].meta.requestId = thread[n].answers
                          /\ /\ via("a2a") # {}
                             /\ thread[first].via # "a2a"
                             /\ \A k \in via("mcp") \cup via("grpc"), j \in via("a2a") : k < j
                             => thread[n].meta.taskId = thread[n].answers
    BY DEF CorrelationSurvives
  <2> DEFINE via(proto) == {k \in Since(n) : thread[k].via = proto}
             hops  == UNION {via(proto) : proto \in Protocols}
             first == CHOOSE k \in Since(n) : \A j \in Since(n) : k <= j
  <2>1. Correlated(n) BY DEF IInv, CorrelationInv
  <2>2. Unbridged(n) <=> via("a2a") = {} BY DEF Unbridged
  <2>3. (\A k \in via("mcp") \cup via("grpc"), j \in via("a2a") : k < j) => A2aLast(n)
    BY DEF A2aLast
  <2>4. PICK f \in 1..n : IsFirst(f, n) BY <2>1 DEF Correlated
  <2>5. first \in Since(n) /\ \A j \in Since(n) : first <= j BY <2>4 DEF IsFirst
  <2>6. first = f
    <3>1. f \in Since(n) /\ \A j \in Since(n) : f <= j BY <2>4 DEF IsFirst
    <3>2. first <= f /\ f <= first BY <2>5, <3>1
    <3>3. first \in 1..n BY <2>5 DEF Since
    <3> HIDE DEF first
    <3> QED BY <3>2, <3>3
  <2>9. (\A k \in via("a2a"), j \in hops : j <= k) => thread[n].source = thread[n].answers
    <3>1. SUFFICES ASSUME \A k \in via("a2a"), j \in hops : j <= k PROVE SoleA2a(n)
      BY <2>1 DEF Correlated
    <3>2. ASSUME NEW j \in Since(n), thread[j].via \in Protocols PROVE j \in hops
      BY <3>2
    <3>3. ASSUME NEW k \in Since(n), thread[k].via = "a2a" PROVE k \in via("a2a")
      BY <3>3
    <3> QED BY <3>1, <3>2, <3>3 DEF SoleA2a
  <2> HIDE DEF first, via, hops
  <2>7. via("a2a") = {} => thread[n].meta.requestId = thread[n].answers
    BY <2>1, <2>2 DEF Correlated
  <2>8. /\ via("a2a") # {}
        /\ thread[first].via # "a2a"
        /\ \A k \in via("mcp") \cup via("grpc"), j \in via("a2a") : k < j
        => thread[n].meta.taskId = thread[n].answers
    BY <2>1, <2>2, <2>3, <2>4, <2>6 DEF Correlated
  <2> QED BY <2>7, <2>8, <2>9 DEF via, first, hops
<1> QED BY <1>1, Invariance, PTL

\* An adapter takes what it emits, but for MCP's success with a null result
\* (Emit and Ingest of the three adapters).
THEOREM EmittedIsTaken == Spec => []EmittedIsAccepted
<1>1. IInv => EmittedIsAccepted
  <2> SUFFICES ASSUME IInv, NEW n \in 1..Len(thread), NEW proto \in Protocols,
                      Emit(proto, thread[n]) \notin {Refused, Panic},
                      Ingest(Emit(proto, thread[n])) = Refused
               PROVE  proto = "mcp" /\ thread[n].meta.result = "null"
    BY DEF EmittedIsAccepted
  <2>1. thread[n] \in Message BY DEF IInv
  <2> QED BY <2>1, HopFacts
<1> QED BY <1>1, Invariance, PTL

\* Only a message that a client sent, replayed at most, makes the gRPC adapter
\* panic (grpc.go:285).
THEOREM PanicsExplained == Spec => []PanicOnlyOnSent
<1>1. IInv => PanicOnlyOnSent
  <2> SUFFICES ASSUME IInv, NEW n \in 1..Len(thread), Emit("grpc", thread[n]) = Panic
               PROVE  /\ \A k \in 1..n : thread[k].via \in {"sent", "replayed"}
                      /\ thread[1].via = "sent"
    BY DEF PanicOnlyOnSent
  <2>1. thread[n] \in Message BY DEF IInv
  <2>2. GrpcEmit(thread[n]) = Panic BY DEF Emit
  <2>3. ~GrpcCarries(thread[n], Panic)
    BY AdaptersAssumption DEF GrpcCarries, AdaptersAssumption
  <2>4. PanicProne(thread[n]) BY <2>1, <2>2, <2>3, GrpcEmitted, SpecialFacts
  <2> QED BY <2>4 DEF IInv, PanicInv
<1> QED BY <1>1, Invariance, PTL
=============================================================================
