------------------------------ MODULE Protocol ------------------------------
(***************************************************************************)
(* Envelope tags and protocol versions (backend/internal/protocol).  A tag *)
(* is the sequence of its tokens between dots, the empty sequence for no   *)
(* tag; a version is the triple of its numbers.                            *)
(***************************************************************************)
EXTENDS Naturals, Sequences

CONSTANTS
    Tokens,     \* tokens made of a-z, 0-9 and -, and nothing else
    Absent      \* a field or key that is not there

\* The tokens of the known tags are well formed, and no tag is Absent.
ASSUME TokensAssumption ==
    /\ {"request", "response", "progress", "context-provide", "data", "action",
        "success", "error", "update"} \subseteq Tokens
    /\ Tokens \subseteq STRING
    /\ Absent \notin STRING
    /\ Absent \notin Seq(STRING)

RequestData     == <<"request", "data">>
RequestAction   == <<"request", "action">>
ResponseSuccess == <<"response", "success">>
ResponseError   == <<"response", "error">>
ContextProvide  == <<"context-provide">>
ProgressUpdate  == <<"progress", "update">>

\* strings.Cut at the first dot; a tag without a dot is its own family.
ParseTagFamily(tag) == IF tag = <<>> THEN Absent ELSE tag[1]

\* isValidTagFormat: every token is well formed.  knownTags and knownFamilies
\* refuse nothing beyond that.
IsValidTag(tag) == tag # <<>> /\ \A i \in 1..Len(tag) : tag[i] \in Tokens

RequiresResponse(tag) == ParseTagFamily(tag) = "request"

\* Tag first, Metadata["_tag"] when Tag is empty.
EffectiveTag(env) ==
    IF env.tag # <<>> THEN env.tag
    ELSE IF env.meta.tag = Absent THEN <<>> ELSE env.meta.tag

\* Envelope.Validate; id, from, to and timestamp are set by every caller.
Validate(env) == IsValidTag(EffectiveTag(env))

-----------------------------------------------------------------------------
(* Versions.                                                               *)

Version == [major : Nat, minor : Nat, patch : Nat]

ProtocolVersion == [major |-> 1, minor |-> 0, patch |-> 0]

\* CompareVersions: -1, 0 or 1 become "older", "same" and "newer".
CompareVersions(a, b) ==
    LET order(x, y) == IF x < y THEN "older" ELSE "newer"
    IN  IF a.major # b.major THEN order(a.major, b.major)
        ELSE IF a.minor # b.minor THEN order(a.minor, b.minor)
        ELSE IF a.patch # b.patch THEN order(a.patch, b.patch)
        ELSE "same"

IsCompatibleVersion(v) ==
    /\ v.major = ProtocolVersion.major
    /\ CompareVersions(v, ProtocolVersion) \in {"older", "same"}
=============================================================================
